---------------------------- MODULE WeeklyPayout ----------------------------
(***************************************************************************)
(* What the reward pipeline promises of a weekly board, without a server, a *)
(* Safe or a vault: the payout is drafted once, approved as drafted, goes   *)
(* live once as approved, pays each winner exactly what the draft says, at  *)
(* most once and only while it is live, and is then closed for good.        *)
(***************************************************************************)
EXTENDS Integers

CONSTANTS Boards, Winners

VARIABLES phase, owed, paid

payoutVars == <<phase, owed, paid>>

Advance(b, from, to) == phase[b] = from /\ phase' = [phase EXCEPT ![b] = to]

Init ==
    /\ phase = [b \in Boards |-> "none"]
    /\ owed = [b \in Boards |-> [w \in Winners |-> 0]]
    /\ paid = [b \in Boards |-> [w \in Winners |-> 0]]

\* Any allocation may be drafted: what was owed is then fixed.
Draft(b) ==
    /\ Advance(b, "none", "draft")
    /\ \A other \in Boards \ {b} : owed'[other] = owed[other]
    /\ UNCHANGED paid

Approve(b) == Advance(b, "draft", "approved") /\ UNCHANGED <<owed, paid>>
GoLive(b)  == Advance(b, "approved", "live") /\ UNCHANGED <<owed, paid>>
Close(b)   == Advance(b, "live", "closed") /\ UNCHANGED <<owed, paid>>

Pay(b, w) ==
    /\ phase[b] = "live"
    /\ paid[b][w] = 0 /\ owed[b][w] > 0
    /\ paid' = [paid EXCEPT ![b][w] = owed[b][w]]
    /\ UNCHANGED <<phase, owed>>

Next ==
    \E b \in Boards :
        Draft(b) \/ Approve(b) \/ GoLive(b) \/ Close(b) \/ \E w \in Winners : Pay(b, w)

Spec == Init /\ [][Next]_payoutVars
=============================================================================
