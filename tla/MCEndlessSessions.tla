-------------------------- MODULE MCEndlessSessions --------------------------
(***************************************************************************)
(* EndlessSessions on a small instance.                                     *)
(***************************************************************************)
EXTENDS EndlessSessions

CONSTANTS d1, d2

\* The first phase of the first run may be replayed with another result.
TwoOutcomes == (Runs \X (0..(MaxPhases - 1)) \X {d1}) \union {<<1, 0, d2>>}
=============================================================================
