------------------------------- MODULE MCExec -------------------------------
(***************************************************************************)
(* VMExec with the machine of Run and one more, started by a go statement  *)
(* or by a native function that calls back, and one channel.               *)
(***************************************************************************)
EXTENDS VMExec

CONSTANT a

OneChan == {a}
==============================================================================
