---------------------------- MODULE MCPostMaster ----------------------------
(* A small instance of PostMaster: its constants are in the configuration.  *)
EXTENDS PostMaster
=============================================================================
