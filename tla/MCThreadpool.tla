--------------------------- MODULE MCThreadpool ---------------------------
(* Small instances of Threadpool for TLC. *)
EXTENDS Threadpool

\* myNextID starts below zero, so that one task gets the identifier -1.
NegativeFirst == {-2}
=============================================================================
