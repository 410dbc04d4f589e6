---------------------------- MODULE MCOrderStore ----------------------------
(***************************************************************************)
(* A small instance of OrderStore for TLC: two handlers race on an order   *)
(* with an item, a payment and a reservation to record.                    *)
(***************************************************************************)
EXTENDS OrderStore, TLC

Symmetry == Permutations(Handler)

=============================================================================
