-------------------------- MODULE MCOrderReadModel --------------------------
(***************************************************************************)
(* Small instances of OrderReadModel for TLC.                              *)
(***************************************************************************)
EXTENDS OrderReadModel, TLC

Symmetry == Permutations(Handler) \cup Permutations(Partition)

=============================================================================
