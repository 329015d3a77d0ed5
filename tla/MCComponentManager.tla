------------------------- MODULE MCComponentManager -------------------------
(* Small instances of ComponentManager for TLC. *)
EXTENDS ComponentManager

CONSTANTS model, tag

TwoTypes == {model, tag}

\* Two components of the first type, one of the second.
SmallAmount == [t \in Types |-> IF t = model THEN 2 ELSE 1]
=============================================================================
