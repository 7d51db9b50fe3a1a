------------------------------- MODULE VMStack -------------------------------
(***************************************************************************)
(* The register stack of the virtual machine (vm.regs, vm.fp, vm.st) under *)
(* the calls of VMCalls: every action of this module is an action of       *)
(* VMCalls together with what it does to the frame pointers and to the     *)
(* registers.                                                              *)
(*                                                                         *)
(* The machine has four stacks, for the integer, float, string and general *)
(* registers, each handled by the same code; this is one of them.  The     *)
(* content of a register is the activation that wrote it, 0 if none.       *)
(*                                                                         *)
(* A function has size NumReg: it writes its registers 1..NumReg, at       *)
(* vm.fp+1..vm.fp+NumReg.  Register 1 is its result; if a closure captures *)
(* the result, register 2 points to it and is in FinalRegs.  The registers *)
(* that it still needs when it calls another function are those below the  *)
(* stack shift of the call.                                                *)
(***************************************************************************)
EXTENDS VMCalls

CONSTANTS
    StackSize,  \* stackSize, 512 in the code
    Sizes       \* the values of NumReg, at most 127 in the code

ASSUME StackAssumption ==
    /\ StackSize \in Nat
    /\ \A n \in Sizes : n \in Nat /\ n >= 2 /\ 4 * n <= StackSize
    /\ Ops \subseteq {"call", "defer", "panic", "recover"}

VARIABLES
    regs,    \* vm.regs, indexed from 0 as in the code; vm.st is its length
    here,    \* the running function: vm.fp, NumReg, and the registers it needs
    slots,   \* the same for each frame of vm.calls
    overrun, \* a register, or a slice of registers, is out of vm.regs
    result   \* history: the result that the last call has left to its caller

svars == <<regs, here, slots, overrun, result>>

Slot(fp, size, live) == [fp |-> fp, size |-> size, live |-> live]
Top(st) == Cardinality(DOMAIN st)
NoResult == [want |-> 0, have |-> 0, recovered |-> FALSE]

\* moreIntStack and the like
More(st) == [r \in 0..2 * Top(st) - 1 |-> IF r < Top(st) THEN st[r] ELSE 0]
Grown(st, need) == IF need > Top(st) THEN More(st) ELSE st

Write(st, fp, from, to, act) ==
    [r \in DOMAIN st |-> IF r \in fp + from .. fp + to THEN act ELSE st[r]]

Holds(st, slot, act) ==
    \A r \in 1..slot.live : slot.fp + r \in DOMAIN st /\ st[slot.fp + r] = act

(***************************************************************************)
(* swapStack: the registers of the stack at a, that ends where the one at  *)
(* b begins, and the first size registers of the stack at b swap places.   *)
(* It uses as scratch the registers that follow.                           *)
(***************************************************************************)
Swaps(a, b, size) == b > a /\ size > 0
SwapGrown(st, a, b, size) == IF Swaps(a, b, size) THEN Grown(st, b + 2 * size) ELSE st
SwapFits(st, a, b, size) == Swaps(a, b, size) => b + 2 * size < Top(st)

\* Mutant: the last register of the stack at b is left behind.
SwappedOneShort(st, a, b, size) ==
    IF ~Swaps(a, b, size) THEN st
    ELSE [r \in DOMAIN st |->
            CASE r \in a + 1 .. a + size - 1 -> st[r + (b - a)]
              [] r \in a + size .. b + 2 * size -> st[r - size + 1]
              [] OTHER -> st[r]]

Swapped(st, a, b, size) ==
    IF ~Swaps(a, b, size) THEN st
    ELSE [r \in DOMAIN st |->
            CASE r \in a + 1 .. a + size -> st[r + (b - a)]
              [] r \in a + size + 1 .. b + 2 * size -> st[r - size]
              [] OTHER -> st[r]]

StackInit ==
    /\ Init
    /\ \E n \in Sizes : here = Slot(0, n, 2)
    /\ regs = Write([r \in 0..StackSize - 1 |-> 0], 0, 1, here.size, 1)
    /\ slots = <<>>
    /\ overrun = FALSE
    /\ result = NoResult

Reaches(st, register) == register < Top(st)

\* The function at slot starts, on the registers st, and writes all its registers.
Start(st, slot, act) ==
    /\ overrun' = ~Reaches(st, slot.fp + slot.size)
    /\ regs' = Write(st, slot.fp, 1, slot.size, act)
    /\ here' = [slot EXCEPT !.live = 2]

\* The registers of the running function when it is about to use the ones after off.
Needs(off) == Write(regs, here.fp, here.live + 1, off, cur.act)
CanNeed(n) == Reaches(regs, here.fp + n)

StackCallFunc ==
    /\ ~overrun /\ OpCallFunc
    /\ \E off \in 2..here.size - 1, n \in Sizes :
          LET fp == here.fp + off
          IN  /\ CanNeed(off)
              /\ slots' = Append(slots, [here EXCEPT !.live = off])
              /\ Start(Grown(Needs(off), fp + n), Slot(fp, n, 0), made')
    /\ UNCHANGED result

\* Mutant: the frame pointers do not swap places.
StackDeferAbove ==
    /\ ~overrun /\ OpDefer("defer", "func")
    /\ \E off \in 2..here.size - 1 : \E args \in 0..here.size - off :
          LET fp == here.fp + off
              st == Write(Needs(off), fp, 1, args, made')
          IN  /\ CanNeed(off + args)
              /\ overrun' = FALSE
              /\ regs' = st
              /\ slots' = Append(slots, Slot(fp, args, args))
              /\ here' = [here EXCEPT !.live = off]
    /\ UNCHANGED result

\* The frame of the deferred call has its arguments; it has the size of its
\* function only when this starts.
StackDefer ==
    /\ ~overrun /\ OpDefer("defer", "func")
    /\ \E off \in 2..here.size - 1 : \E args \in 0..here.size - off :
          LET fp == here.fp + off
              st == SwapGrown(Write(Needs(off), fp, 1, args, made'), here.fp, fp, args)
          IN  /\ CanNeed(off + args)
              /\ overrun' = ~SwapFits(st, here.fp, fp, args)
              /\ regs' = Swapped(st, here.fp, fp, args)
              /\ slots' = Append(slots, Slot(here.fp, args, args))
              /\ here' = Slot(here.fp + args, here.size, off)
    /\ UNCHANGED result

\* A deferred call leaves less room to the function that goes on.
StackWrite ==
    /\ ~overrun /\ phase = "run" /\ ~CanNeed(here.size)
    /\ overrun' = TRUE
    /\ UNCHANGED <<vars, regs, here, slots, result>>

StackPanic ==
    /\ ~overrun /\ OpPanic
    /\ slots' = IF calls = <<>> THEN slots ELSE Append(slots, here)
    /\ UNCHANGED <<regs, here, overrun, result>>

StackSame ==
    /\ ~overrun
    /\ OpRecover \/ ReturnFromMain \/ ReturnToNextCall \/ NextNone
    /\ UNCHANGED svars

(***************************************************************************)
(* Returning: FinalRegs copies the result to its register, and the caller  *)
(* finds it in the first register after those that it needs.               *)
(***************************************************************************)
Finalized(st, fp, captured) == IF captured THEN [st EXCEPT ![fp + 1] = st[fp + 2]] ELSE st

Continue(slot, st, callee, recovered) ==
    /\ regs' = st
    /\ here' = slot
    /\ result' = [want |-> callee, have |-> st[slot.fp + slot.live + 1], recovered |-> recovered]

StackReturn ==
    /\ ~overrun /\ ReturnToCaller
    /\ \E captured \in BOOLEAN :
          Continue(slots[Len(slots)], Finalized(regs, here.fp, captured), cur.act, FALSE)
    /\ slots' = SubSeq(slots, 1, Len(slots) - 1)
    /\ UNCHANGED overrun

\* The frame above the caller is the one of the function that it called.
StackNextStarted ==
    /\ ~overrun /\ NextStarted
    /\ Continue(slots[i], regs, calls[i + 1].act, calls[i + 1].status = "recovered")
    /\ slots' = SubSeq(slots, 1, i - 1)
    /\ UNCHANGED overrun

\* Mutant: the frame of the returned function keeps its frame pointer.
StartAboveKeepsFrame(a, b, act, k) ==
    LET st == SwapGrown(regs, a.fp, b.fp, b.size)
    IN  \E n \in Sizes :
          LET slot == Slot(a.fp + b.size, n, a.live)
              swapped == Swapped(st, a.fp, b.fp, b.size)
          IN  /\ n >= a.live
              /\ overrun' = ~(SwapFits(st, a.fp, b.fp, b.size) /\ Reaches(swapped, slot.fp + n))
              /\ regs' = Write(swapped, slot.fp, 1, n, act)
              /\ here' = [slot EXCEPT !.live = 2]
              /\ slots' = Append(SubSeq(slots, 1, k - 1), b)

\* A deferred call at slot a, of act, starts after a returned function at slot b,
\* and the two swap places; k is the index of the frame of the returned function.
StartAbove(a, b, act, k) ==
    LET st == SwapGrown(regs, a.fp, b.fp, b.size)
    IN  \E n \in Sizes :
          LET slot == Slot(a.fp + b.size, n, a.live)
              swapped == Swapped(st, a.fp, b.fp, b.size)
          IN  /\ n >= a.live
              /\ overrun' = ~(SwapFits(st, a.fp, b.fp, b.size) /\ Reaches(swapped, slot.fp + n))
              /\ regs' = Write(swapped, slot.fp, 1, n, act)
              /\ here' = [slot EXCEPT !.live = 2]
              /\ slots' = Append(SubSeq(slots, 1, k - 1), [b EXCEPT !.fp = a.fp])

StackNextDeferred ==
    /\ ~overrun /\ NextDeferred
    /\ StartAbove(slots[i], here, calls[i].act, i)
    /\ UNCHANGED result

StackNextDeferredOfReturned ==
    /\ ~overrun /\ NextDeferredOfReturned
    /\ StartAbove(slots[i - 1], slots[i], calls[i - 1].act, i - 1)
    /\ UNCHANGED result

StackNextFinalized ==
    /\ ~overrun /\ NextFinalized
    /\ \E captured \in BOOLEAN : regs' = Finalized(regs, slots[i].fp, captured)
    /\ UNCHANGED <<here, slots, overrun, result>>

\* The deferred call starts where its arguments are: nothing is swapped.
StackNextPanicked ==
    /\ ~overrun /\ NextPanicked
    /\ LET k == Len(calls')
       IN  /\ \E n \in Sizes : n >= slots[k].live /\ Start(regs, [slots[k] EXCEPT !.size = n], calls[k].act)
           /\ slots' = Append(SubSeq(slots, 1, k - 1), slots[k + 1])
    /\ UNCHANGED result

StackEnded == (phase \in Final \/ overrun) /\ UNCHANGED <<vars, svars>>

StackNext ==
    \/ StackCallFunc \/ StackDefer \/ StackWrite \/ StackPanic \/ StackSame
    \/ StackReturn \/ StackNextStarted \/ StackNextDeferred
    \/ StackNextDeferredOfReturned \/ StackNextFinalized \/ StackNextPanicked
    \/ StackEnded

StackSpec == StackInit /\ [][StackNext]_<<vars, svars>>

-----------------------------------------------------------------------------
(***************************************************************************)
(* Properties.                                                             *)
(***************************************************************************)

Running == phase \in {"run", "return"} /\ ~overrun

\* Every function finds its registers as it left them: the running one, those that
\* wait for it to return, and those that returned and wait for their deferred calls;
\* and a deferred call finds its arguments.  swapStack moves them around and the
\* stack grows under them.
RegistersKept ==
    Running =>
        /\ Holds(regs, here, cur.act)
        /\ \A j \in DOMAIN calls :
              CASE calls[j].status \in {"started", "deferred"} -> Holds(regs, slots[j], calls[j].act)
                [] calls[j].status = "returned" ->
                      Holds(regs, [slots[j] EXCEPT !.live = 2], calls[j].act)
                [] OTHER -> TRUE

\* Between a deferred call and the frame, or the running function, above it the
\* frame pointers never decrease: the unsigned differences of swapStack do not wrap.
FramesInOrder ==
    \A j \in DOMAIN calls :
        calls[j].status = "deferred" =>
            slots[j].fp <= (IF j < Len(calls) THEN slots[j + 1].fp ELSE here.fp)

\* A caller finds the result of the function that it called, if this has returned.
ReturnedResult == ~result.recovered => result.have = result.want

\* The same for a function that panicked and recovered.
ResultReachesCaller == result.have = result.want

\* No function uses a register out of the stack, and swapStack moves none.
InsideStack == ~overrun
==============================================================================
