------------------------------- MODULE MCStack -------------------------------
(***************************************************************************)
(* VMStack on a small stack, that grows after a few calls.                 *)
(***************************************************************************)
EXTENDS VMStack

StackOps == {"call", "defer", "panic", "recover"}
StackSizes == {2, 4}
==============================================================================
