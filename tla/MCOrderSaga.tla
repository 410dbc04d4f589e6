---------------------------- MODULE MCOrderSaga ----------------------------
(***************************************************************************)
(* Small instances of OrderSaga for TLC.                                   *)
(***************************************************************************)
EXTENDS OrderSaga, TLC

Symmetry == Permutations(Saga) \cup Permutations(Item)

=============================================================================
