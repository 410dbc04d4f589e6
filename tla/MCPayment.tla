----------------------------- MODULE MCPayment -----------------------------
(***************************************************************************)
(* Small instances of Payment for TLC.                                     *)
(***************************************************************************)
EXTENDS Payment, TLC

Symmetry == Permutations(Request)

=============================================================================
