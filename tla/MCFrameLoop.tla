---------------------------- MODULE MCFrameLoop ----------------------------
(***************************************************************************)
(* Small instances of FrameLoop.                                           *)
(***************************************************************************)
EXTENDS FrameLoop

ZeroFirst == {0}
=============================================================================
