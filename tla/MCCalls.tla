------------------------------- MODULE MCCalls -------------------------------
(***************************************************************************)
(* VMCalls with the instructions of a program that has no native function, *)
(* with every instruction, as a template that imports native functions     *)
(* uses it, and with those of a program that defers native functions, or   *)
(* close, delete, print and the other builtins that are deferred as native *)
(* functions.                                                              *)
(***************************************************************************)
EXTENDS VMCallsRefines

GoOps == {"call", "defer", "defer recover", "panic", "recover"}
EveryOp == AllOps
NativeOps == {"call", "defer native", "panic"}
==============================================================================
