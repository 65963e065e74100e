---------------------------- MODULE MCDailyArena ----------------------------
(***************************************************************************)
(* DailyArena on a small instance: a day, two wallets with a few MATT each, *)
(* a clock that passes the entry cutoff and the end of the day.             *)
(***************************************************************************)
EXTENDS DailyArena
=============================================================================
