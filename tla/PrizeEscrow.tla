----------------------------- MODULE PrizeEscrow -----------------------------
(***************************************************************************)
(* What players are promised of a prize pool, with nothing of how it is     *)
(* kept: no clock, no pause, no treasury, no token balances.  A pool opens, *)
(* takes stakes and sponsorship, and then either pays out every unit it     *)
(* holds to players who staked, or is voided, keeps exactly the stakes, and *)
(* gives each player their own back once.                                   *)
(***************************************************************************)
EXTENDS Integers, Sums

CONSTANTS
    MaxPool, MaxPlayer,
    Stakes,        \* amounts a player may stake at once
    Sponsorships   \* amounts a sponsor may add at once

Pools   == 1..MaxPool
Players == 1..MaxPlayer

VARIABLES phase, held, owed, prize
evars == <<phase, held, owed, prize>>

EscrowInit ==
    /\ phase = [p \in Pools |-> "idle"]
    /\ held  = [p \in Pools |-> 0]
    /\ owed  = [p \in Pools |-> [w \in Players |-> 0]]
    /\ prize = [p \in Pools |-> [w \in Players |-> 0]]

Open(p) ==
    /\ phase[p] = "idle"
    /\ phase' = [phase EXCEPT ![p] = "open"]
    /\ UNCHANGED <<held, owed, prize>>

Stake(p, w, amount) ==
    /\ phase[p] = "open"
    /\ held' = [held EXCEPT ![p] = @ + amount]
    /\ owed' = [owed EXCEPT ![p][w] = @ + amount]
    /\ UNCHANGED <<phase, prize>>

Sponsor(p, amount) ==
    /\ phase[p] = "open"
    /\ held' = [held EXCEPT ![p] = @ + amount]
    /\ UNCHANGED <<phase, owed, prize>>

PayOut(p, shares) ==
    /\ phase[p] = "open"
    /\ IsSum(shares, MaxPlayer, held[p])
    /\ \A w \in Players : shares[w] > 0 => owed[p][w] > 0
    /\ phase' = [phase EXCEPT ![p] = "paid"]
    /\ held' = [held EXCEPT ![p] = 0]
    /\ prize' = [prize EXCEPT ![p] = shares]
    /\ UNCHANGED owed

Void(p) ==
    /\ phase[p] = "open"
    /\ phase' = [phase EXCEPT ![p] = "void"]
    /\ \E stakes \in 0..held[p] :
          /\ IsSum(owed[p], MaxPlayer, stakes)
          /\ held' = [held EXCEPT ![p] = stakes]
    /\ UNCHANGED <<owed, prize>>

Refund(p, w) ==
    /\ phase[p] = "void"
    /\ held' = [held EXCEPT ![p] = @ - owed[p][w]]
    /\ owed' = [owed EXCEPT ![p][w] = 0]
    /\ UNCHANGED <<phase, prize>>

EscrowNext ==
    \E p \in Pools :
        \/ Open(p)
        \/ \E w \in Players, amount \in Stakes : Stake(p, w, amount)
        \/ \E amount \in Sponsorships : Sponsor(p, amount)
        \/ \E shares \in [Players -> 0..held[p]] : PayOut(p, shares)
        \/ Void(p)
        \/ \E w \in Players : Refund(p, w)

EscrowSpec == EscrowInit /\ [][EscrowNext]_evars
==============================================================================
