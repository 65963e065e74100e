---------------------------- MODULE RunSettlement ----------------------------
(***************************************************************************)
(* Paid runs of a Miner on chain: MattV2GameSettlement ("standard", up to   *)
(* five phases, one signed result) and MattV2EndlessSettlement ("endless",   *)
(* a signed checkpoint per phase, then a result that must equal the last     *)
(* one) share the Miner's run lock, the loadout and the CrystalBank.         *)
(*                                                                          *)
(* An authorization is signed by the player and a result by the reward       *)
(* signer; anyone may keep what was signed and the operator may submit it    *)
(* late, twice or to the wrong run, so every function takes its message's    *)
(* fields as arguments and only its own checks relate them to the state.     *)
(* Deadlines only refuse messages and are left out.  Roles are held by the   *)
(* parties meant to hold them.                                               *)
(*                                                                          *)
(* A Miner's level matters in two ways: it fixes the crystals kept on a      *)
(* death, and reaching level 100 asks for its passive rate once.             *)
(***************************************************************************)
EXTENDS MinerLoadout, Functions

CONSTANTS
    StandardVersions, EndlessVersions,
    Terms,              \* what an approved version promises
    PhaseXpChoices,     \* XP a phase of a standard map may be worth
    Finds,              \* crystal units a message may claim
    Digests,            \* checkpoint digests
    Extracts,           \* amounts a player may withdraw
    Pausable,           \* the contracts whose pause is explored
    MaxPhases,          \* phases of a standard run (5)
    BaseCarry, PackBonus,
    LowRetention, HighRetention, Bps,   \* crystals kept on a death
    TopXp,              \* XP of level 100
    ActivityWindow,
    LimitChoices,       \* withdrawal limits the operator may set
    DayLength,
    MaxNonce, MaxTime   \* bounds: runs of a player per contract, the clock

Contracts == {"standard", "endless"}
Versions  == StandardVersions \cup EndlessVersions
Outcomes  == {"Extraction", "Death"}
Days      == 0..(MaxTime \div DayLength)

ASSUME SettlementAssumption ==
    /\ StandardVersions \cap EndlessVersions = {}
    /\ \A v \in Versions :
          /\ Terms[v].mineable \in Nat /\ Terms[v].rate \in Nat
          /\ Terms[v].maximumPayout \in Nat /\ Terms[v].timeout \in Nat
    /\ \A v \in EndlessVersions :
          /\ Terms[v].maximumDailyPayout \in Nat /\ Terms[v].maximumPhases \in Nat
          /\ Terms[v].phaseXp \in Nat /\ Terms[v].maximumRunXp \in Nat
          /\ Terms[v].walletXpPerDay \in Nat /\ Terms[v].minerXpPerDay \in Nat
          /\ Terms[v].failedRunsRetainXp \in BOOLEAN
    /\ PhaseXpChoices \subseteq Nat \ {0} /\ Finds \subseteq Nat /\ Extracts \subseteq Nat
    /\ BaseCarry \in Nat /\ PackBonus \in Nat /\ TopXp \in Nat \ {0}
    /\ LowRetention \in 0..Bps /\ HighRetention \in 0..Bps /\ Bps \in Nat \ {0}
    /\ DayLength \in Nat \ {0} /\ ActivityWindow \in Nat \ {0}
    /\ MaxNonce \in Nat /\ MaxTime \in Nat /\ MaxPhases \in Nat

RunIds == Contracts \X Players \X Miners \X Versions \X (0..MaxNonce)
PlayerOf(id) == id[2]
VersionOf(id) == id[4]
NoRun == [id |-> <<>>]

VARIABLES
    now, paused,
    standing,           \* of a version: new, approved or retired
    phaseXp,            \* setMapPhaseXp, per standard version
    active,             \* _activeRuns of both contracts
    nonces,             \* playerNonces of both contracts
    processed,          \* processedRuns of both contracts
    xp, activity,       \* banked XP, and the time a Miner was active
    rateQueued,         \* Miners whose passive rate was asked for
    walletXp, minerXp, crystalsByDay,   \* the Endless daily totals
    bank, credits,      \* CrystalBank balances, and its credited runs
    withdrawn,          \* walletWithdrawn, by day
    limits              \* minimumWithdrawal, walletDailyLimit, globalDailyLimit

runVars   == <<standing, phaseXp, active, nonces, processed>>
playVars  == <<xp, activity, rateQueued, walletXp, minerXp, crystalsByDay>>
bankVars  == <<bank, credits, withdrawn, limits>>
vars == <<now, paused, tokenVars, runVars, playVars, bankVars>>

Init ==
    /\ LoadoutInit
    /\ now = 0 /\ paused = {}
    /\ standing = [v \in Versions |-> "new"]
    /\ phaseXp \in [StandardVersions -> PhaseXpChoices]
    /\ active = [c \in Contracts |-> [m \in Miners |-> NoRun]]
    /\ nonces = [c \in Contracts |-> [p \in Players |-> 0]]
    /\ processed = {}
    /\ xp = [m \in Miners |-> 0] /\ activity = [m \in Miners |-> {}]
    /\ rateQueued = {}
    /\ walletXp = [p \in Players |-> [d \in Days |-> 0]]
    /\ minerXp = [m \in Miners |-> [d \in Days |-> 0]]
    /\ crystalsByDay = [d \in Days |-> 0]
    /\ bank = [p \in Players |-> 0] /\ credits = {}
    /\ withdrawn = [p \in Players |-> [d \in Days |-> 0]]
    /\ limits \in LimitChoices

Today == now \div DayLength
Minimum(a, b) == IF a < b THEN a ELSE b
Left(cap, used) == IF cap > used THEN cap - used ELSE 0

-----------------------------------------------------------------------------
(* Versions, phase XP and pauses.                                           *)

ApproveVersion(v) ==
    /\ standing[v] = "new"
    /\ standing' = [standing EXCEPT ![v] = "approved"]
    /\ UNCHANGED <<now, paused, tokenVars, phaseXp, active, nonces, processed, playVars, bankVars>>

RetireVersion(v) ==
    /\ standing[v] = "approved"
    /\ standing' = [standing EXCEPT ![v] = "retired"]
    /\ UNCHANGED <<now, paused, tokenVars, phaseXp, active, nonces, processed, playVars, bankVars>>

SetMapPhaseXp(v, x) ==
    /\ standing[v] = "approved" /\ x # phaseXp[v]
    /\ phaseXp' = [phaseXp EXCEPT ![v] = x]
    /\ UNCHANGED <<now, paused, tokenVars, standing, active, nonces, processed, playVars, bankVars>>

SetPaused(c) ==
    /\ paused' = IF c \in paused THEN paused \ {c} ELSE paused \cup {c}
    /\ UNCHANGED <<now, tokenVars, runVars, playVars, bankVars>>

-----------------------------------------------------------------------------
(* Starting a run.                                                          *)

Carry(m) == BaseCarry + IF gear[m][Backpack] # NoItem THEN PackBonus ELSE 0
Retention(m) == IF xp[m] >= TopXp THEN HighRetention ELSE LowRetention

\* Mutant: each settlement contract looks at its own runs only.
Startable_OwnRuns(c, m) == active[c][m] = NoRun

Startable(c, m) == active[c][m] = NoRun /\ ~locked[m]

\* playerNonces and processedRuns: each authorization starts one run.
FreshRun(id) == id[5] = nonces[id[1]][id[2]] /\ id \notin processed

\* Mutant: the equipment signed for need not be the equipment worn.
SignedGear_Any(m, g) == TRUE

SignedGear(m, g) == g = gear[m]

\* beginRun: player p signed for Miner m wearing g, on version v, with nonce n.
BeginRun(c, p, m, v, g, n) ==
    LET id == <<c, p, m, v, n>> IN
    /\ c \notin paused
    /\ minerOwner[m] = p
    /\ Startable(c, m)
    /\ standing[v] = "approved"
    /\ SignedGear(m, g)
    /\ FreshRun(id)
    /\ now + Terms[v].timeout <= MaxTime
    /\ nonces' = [nonces EXCEPT ![c][p] = n + 1]
    /\ active' = [active EXCEPT ![c][m] =
         [id |-> id, gear |-> g, since |-> now,
          carry |-> Carry(m), retention |-> Retention(m),
          phaseXp |-> IF c = "standard" THEN phaseXp[v] ELSE Terms[v].phaseXp,
          phases |-> 0, mined |-> 0, digest |-> <<>>]]
    /\ SetRunLocked(m, TRUE)
    /\ UNCHANGED <<now, paused, minerOwner, holder, equippedTo, damaged, gear, loadoutPaused,
                   standing, phaseXp, processed, playVars, bankVars>>

-----------------------------------------------------------------------------
(* Ending a run.                                                            *)

\* Mutant: the version's payout limit is not applied.
Converted_CarryOnly(r, mined) == Minimum(mined, r.carry) * Terms[VersionOf(r.id)].rate

\* Crystals for what was mined, under the carry and payout limits of the start.
Converted(r, mined) ==
    Minimum(Minimum(mined, r.carry) * Terms[VersionOf(r.id)].rate,
            Terms[VersionOf(r.id)].maximumPayout)

Close(c, m) ==
    /\ processed' = processed \cup {active[c][m].id}
    /\ active' = [active EXCEPT ![c][m] = NoRun]

CreditOnce(id) == "bank" \notin paused /\ \A k \in credits : k.id # id

\* CrystalBank.credit, called when there is something to bank.
Credit(id, amount) ==
    IF amount = 0 THEN UNCHANGED bankVars
    ELSE /\ CreditOnce(id)
         /\ bank' = [bank EXCEPT ![PlayerOf(id)] = @ + amount]
         /\ credits' = credits \cup {[id |-> id, amount |-> amount, day |-> Today]}
         /\ UNCHANGED <<withdrawn, limits>>

ReachesTop(before, after) == before < TopXp /\ after >= TopXp

\* applyXp, recordVerifiedPlay, recordActivity and queueLevel100.
Progress(m, gained) ==
    /\ xp' = [xp EXCEPT ![m] = @ + gained]
    /\ activity' = [activity EXCEPT ![m] = @ \cup now..(now + ActivityWindow - 1)]
    /\ IF ReachesTop(xp[m], xp[m] + gained)
       THEN "passive" \notin paused /\ rateQueued' = rateQueued \cup {m}
       ELSE UNCHANGED rateQueued

\* The message names the active run, and its Miner is still the player's.
ForActive(c, m, id) ==
    /\ c \notin paused
    /\ active[c][m] # NoRun /\ active[c][m].id = id
    /\ id \notin processed
    /\ minerOwner[m] = PlayerOf(id)

SettleRun(m, id, outcome, phases, mined) ==
    LET r == active["standard"][m]
        converted == Converted(r, mined)
        extracted == outcome = "Extraction"
    IN
    /\ ForActive("standard", m, id)
    /\ phases <= MaxPhases /\ mined <= Terms[VersionOf(id)].mineable
    /\ extracted => phases > 0
    /\ Close("standard", m)
    /\ Progress(m, IF extracted THEN phases * r.phaseXp ELSE 0)
    /\ Credit(id, IF extracted THEN converted ELSE (converted * r.retention) \div Bps)
    /\ IF extracted THEN NoDeath ELSE Death(m)
    /\ SetRunLocked(m, FALSE)
    /\ UNCHANGED <<now, paused, minerOwner, loadoutPaused, standing, phaseXp, nonces,
                   walletXp, minerXp, crystalsByDay>>

Extends(r, previous, phases, mined) ==
    /\ previous = r.digest
    /\ phases = r.phases + 1
    /\ mined >= r.mined

Checkpoint(m, id, previous, digest, phases, mined) ==
    LET r == active["endless"][m] IN
    /\ ForActive("endless", m, id)
    /\ Extends(r, previous, phases, mined)
    /\ phases <= Terms[VersionOf(id)].maximumPhases /\ mined <= Terms[VersionOf(id)].mineable
    /\ now + Terms[VersionOf(id)].timeout <= MaxTime
    /\ active' = [active EXCEPT !["endless"][m] =
                    [r EXCEPT !.digest = digest, !.phases = phases, !.mined = mined, !.since = now]]
    /\ UNCHANGED <<now, paused, tokenVars, standing, phaseXp, nonces, processed, playVars, bankVars>>

\* Mutant: the day's cap is compared with this run alone.
DayCapped_PerRun(v, amount) == Minimum(amount, Terms[v].maximumDailyPayout)

DayCapped(v, amount) == Minimum(amount, Left(Terms[v].maximumDailyPayout, crystalsByDay[Today]))

\* Mutant: the wallet's XP of the day is not looked at.
XpCapped_MinerOnly(v, p, m, gained) ==
    Minimum(gained, Left(Terms[v].minerXpPerDay, minerXp[m][Today]))

XpCapped(v, p, m, gained) ==
    Minimum(gained, Minimum(Left(Terms[v].walletXpPerDay, walletXp[p][Today]),
                            Left(Terms[v].minerXpPerDay, minerXp[m][Today])))

\* The caps come off before the death share, and the totals count what was banked.
SettlePhases(m, id, outcome) ==
    LET r == active["endless"][m]
        v == VersionOf(id)
        p == PlayerOf(id)
        extracted == outcome = "Extraction"
        capped == DayCapped(v, Converted(r, r.mined))
        banked == IF extracted THEN capped ELSE (capped * r.retention) \div Bps
        gained == IF extracted \/ Terms[v].failedRunsRetainXp
                  THEN XpCapped(v, p, m, Minimum(r.phases * r.phaseXp, Terms[v].maximumRunXp))
                  ELSE 0
    IN  /\ Progress(m, gained)
        /\ walletXp' = [walletXp EXCEPT ![p][Today] = @ + gained]
        /\ minerXp' = [minerXp EXCEPT ![m][Today] = @ + gained]
        /\ crystalsByDay' = [crystalsByDay EXCEPT ![Today] = @ + banked]
        /\ Credit(id, banked)
        /\ IF extracted THEN NoDeath ELSE Death(m)

SettleEndless(m, id, outcome, digest, phases, mined) ==
    LET r == active["endless"][m] IN
    /\ ForActive("endless", m, id)
    /\ digest = r.digest /\ phases = r.phases /\ mined = r.mined
    /\ phases = 0 => outcome = "Death"
    /\ Close("endless", m)
    /\ IF phases = 0 THEN UNCHANGED <<playVars, bankVars>> /\ NoDeath
       ELSE SettlePhases(m, id, outcome)
    /\ SetRunLocked(m, FALSE)
    /\ UNCHANGED <<now, paused, minerOwner, loadoutPaused, standing, phaseXp, nonces>>

\* Mutant: a paused settlement contract refuses its players' own way out.
Abandonable_Pausable(c, m) ==
    /\ c \notin paused /\ active[c][m] # NoRun
    /\ now >= active[c][m].since + Terms[VersionOf(active[c][m].id)].timeout

Abandonable(c, m) ==
    /\ active[c][m] # NoRun
    /\ minerOwner[m] = PlayerOf(active[c][m].id)
    /\ now >= active[c][m].since + Terms[VersionOf(active[c][m].id)].timeout

ForceAbandon(c, m) ==
    /\ Abandonable(c, m)
    /\ Close(c, m)
    /\ Death(m)
    /\ SetRunLocked(m, FALSE)
    /\ UNCHANGED <<now, paused, minerOwner, loadoutPaused, standing, phaseXp, nonces, playVars, bankVars>>

-----------------------------------------------------------------------------
(* The bank's other side, and the clock.                                    *)

Withdraw(p, amount) ==
    /\ "bank" \notin paused
    /\ amount >= limits.minimum /\ amount <= bank[p]
    /\ withdrawn[p][Today] + amount <= limits.wallet
    /\ SumFunction([q \in Players |-> withdrawn[q][Today]]) + amount <= limits.global
    /\ bank' = [bank EXCEPT ![p] = @ - amount]
    /\ withdrawn' = [withdrawn EXCEPT ![p][Today] = @ + amount]
    /\ UNCHANGED <<now, paused, tokenVars, runVars, playVars, credits, limits>>

SetWithdrawalConfiguration(choice) ==
    /\ choice # limits
    /\ limits' = choice
    /\ UNCHANGED <<now, paused, tokenVars, runVars, playVars, bank, credits, withdrawn>>

Tick ==
    /\ now < MaxTime
    /\ now' = now + 1
    /\ UNCHANGED <<paused, tokenVars, runVars, playVars, bankVars>>

Runs == {active[c][m] : c \in Contracts, m \in Miners} \ {NoRun}

TokenStep ==
    /\ LoadoutNext
    /\ UNCHANGED <<now, paused, runVars, playVars, bankVars>>

Next ==
    \/ \E v \in Versions : ApproveVersion(v) \/ RetireVersion(v)
    \/ \E v \in StandardVersions, x \in PhaseXpChoices : SetMapPhaseXp(v, x)
    \/ \E c \in Pausable : SetPaused(c)
    \/ \E p \in Players, m \in Miners, g \in [Slots -> Items \cup {NoItem}], n \in 0..(MaxNonce - 1) :
          \/ \E v \in StandardVersions : BeginRun("standard", p, m, v, g, n)
          \/ \E v \in EndlessVersions : BeginRun("endless", p, m, v, g, n)
    \/ \E m \in Miners, id \in processed \cup {r.id : r \in Runs} :
          \/ \E o \in Outcomes, n \in 0..MaxPhases, k \in Finds : SettleRun(m, id, o, n, k)
          \/ \E d, e \in Digests \cup {<<>>}, n \in 0..MaxPhases, k \in Finds :
                \/ e # <<>> /\ Checkpoint(m, id, d, e, n, k)
                \/ \E o \in Outcomes : SettleEndless(m, id, o, d, n, k)
    \/ \E c \in Contracts, m \in Miners : ForceAbandon(c, m)
    \/ \E p \in Players, a \in Extracts : Withdraw(p, a)
    \/ \E k \in LimitChoices : SetWithdrawalConfiguration(k)
    \/ TokenStep
    \/ Tick

Spec == Init /\ [][Next]_vars

(* Time passes, and a player who can abandon a run does so: forceAbandon is *)
(* the owner's own transaction and needs nobody else.                       *)
LiveSpec ==
    /\ Spec
    /\ WF_vars(Tick)
    /\ \A c \in Contracts, m \in Miners : WF_vars(ForceAbandon(c, m))

-----------------------------------------------------------------------------
TypeOK ==
    /\ LoadoutTypeOK
    /\ now \in 0..MaxTime /\ paused \subseteq Pausable
    /\ standing \in [Versions -> {"new", "approved", "retired"}]
    /\ phaseXp \in [StandardVersions -> PhaseXpChoices]
    /\ nonces \in [Contracts -> [Players -> 0..MaxNonce]]
    /\ processed \subseteq RunIds
    /\ \A r \in Runs : r.id \in RunIds
    /\ xp \in [Miners -> Nat] /\ rateQueued \subseteq Miners
    /\ \A p \in Players, m \in Miners, d \in Days :
          {walletXp[p][d], minerXp[m][d], crystalsByDay[d], bank[p], withdrawn[p][d]} \subseteq Nat
    /\ limits \in LimitChoices
    /\ \A k \in credits : k.id \in RunIds /\ k.amount \in Nat \ {0} /\ k.day \in Days

(* A Miner is locked exactly while one run is active on it, in one of the   *)
(* two settlement contracts: no unlocked Miner has a run that could still    *)
(* pay, and no lock outlives its run (setRunLocked against _activeRuns).     *)
LockMeansOneRun ==
    \A m \in Miners :
        LET on == {c \in Contracts : active[c][m] # NoRun}
        IN  /\ locked[m] <=> on # {}
            /\ \A c, d \in on : c = d

(* What a run started from holds until it ends: its player owns the Miner   *)
(* and the Miner wears what was signed for, so a settlement is never refused *)
(* for an owner or loadout that changed under it, and a death takes exactly  *)
(* what the player put at stake.                                             *)
RunSnapshotHolds ==
    \A c \in Contracts, m \in Miners : active[c][m] # NoRun =>
        /\ minerOwner[m] = PlayerOf(active[c][m].id)
        /\ gear[m] = active[c][m].gear

(* A run lives once: an active run was not processed, it is active on the   *)
(* Miner and contract its id names, and its nonce is spent.                  *)
RunsLiveOnce ==
    \A c \in Contracts, m \in Miners : active[c][m] # NoRun =>
        LET id == active[c][m].id
        IN  /\ id[1] = c /\ id[3] = m
            /\ id \notin processed
            /\ id[5] < nonces[c][PlayerOf(id)]

\* What credited runs brought in, a player's and an Endless day's.
Amount(S) == SumFunction([k \in S |-> k.amount])

CreditsOf(p) == {k \in credits : PlayerOf(k.id) = p}
EndlessCredits(d) == {k \in credits : k.day = d /\ k.id[1] = "endless"}

(* The bank owes and has paid exactly the credited runs; a run was credited *)
(* once, after it ended, and never above its version's limit.               *)
BankMatchesRuns ==
    /\ \A p \in Players : bank[p] + SumFunction(withdrawn[p]) = Amount(CreditsOf(p))
    /\ \A k \in credits :
          /\ k.id \in processed
          /\ k.amount <= Terms[VersionOf(k.id)].maximumPayout
          /\ \A j \in credits : j.id = k.id => j = k

(* The daily caps hold over all runs of a day: what Endless runs banked is  *)
(* the day's total and stays under the largest cap in force, and the XP of a *)
(* wallet and of a Miner stay under theirs, whichever versions they mix.     *)
EndlessDailyCaps ==
    \A d \in Days :
        /\ crystalsByDay[d] = Amount(EndlessCredits(d))
        /\ \/ crystalsByDay[d] = 0
           \/ \E v \in EndlessVersions : crystalsByDay[d] <= Terms[v].maximumDailyPayout
        /\ \A p \in Players : \/ walletXp[p][d] = 0
                              \/ \E v \in EndlessVersions : walletXp[p][d] <= Terms[v].walletXpPerDay
        /\ \A m \in Miners : \/ minerXp[m][d] = 0
                             \/ \E v \in EndlessVersions : minerXp[m][d] <= Terms[v].minerXpPerDay

(* Nobody is locked in: whatever is paused, a Miner in a run gets out.      *)
MinersGetOut == \A m \in Miners : locked[m] ~> ~locked[m]
=============================================================================
