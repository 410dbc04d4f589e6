---------------------------- MODULE MCStorefront ----------------------------
(***************************************************************************)
(* A small instance of Storefront for TLC.                                 *)
(***************************************************************************)
EXTENDS Storefront

OneHasAVariant == [p |-> {"none", "v"}, q |-> {"none"}]
ARoleEach == [c |-> "customer", m |-> "moderator", s |-> "super_admin"]
TwoPagesOfAB(q) == IF q = "cd" THEN 1 ELSE IF q \in {"ab", ""} THEN 2 ELSE 0

=============================================================================
