---------------------------- MODULE MCBackOffice ----------------------------
(***************************************************************************)
(* A small instance of BackOffice for TLC.                                 *)
(***************************************************************************)
EXTENDS BackOffice

ScarceA == [a |-> 1, b |-> 99]
TwoAndOne == [a |-> 2, b |-> 1]
OneOff == {[mode |-> "fixed", value |-> 1]}
ProAndFree == [t |-> "pro", u |-> "free"]
OneP == [p |-> 1]
NowAndLater == {[starts |-> 0, ends |-> 1], [starts |-> 1, ends |-> 2]}

=============================================================================
