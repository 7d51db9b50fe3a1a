------------------------------- MODULE MCRange -------------------------------
(***************************************************************************)
(* VMRange with two range instructions in every function.                  *)
(***************************************************************************)
EXTENDS VMRange

RangeOps == AllOps
RangeAddrs == {3, 7}
==============================================================================
