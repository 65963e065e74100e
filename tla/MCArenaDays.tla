---------------------------- MODULE MCArenaDays ----------------------------
(***************************************************************************)
(* ArenaDays on a small instance: one day, two wallets, two requests.       *)
(***************************************************************************)
EXTENDS ArenaDays

TwoWeights == <<2, 1>>

\* Requests are interchangeable.
Symmetry == Permutations(Requests)
=============================================================================
