---------------------------- MODULE VMStack_proofs ----------------------------
(***************************************************************************)
(* Proofs about VMStack: it only does what VMCalls does, the stacks that   *)
(* swapStack swaps are in order, no step loses the registers of a frame,   *)
(* and a caller finds the result of the function that it called, for every *)
(* size of the functions and of the stack.                                 *)
(***************************************************************************)
EXTENDS VMStack, VMCalls_proofs

\* The machine with its registers is the machine of VMCalls: all that is proved of
\* the calls holds of it.
LEMMA StackStepIsCallsStep == [StackNext]_<<vars, svars>> => [Next]_vars
  BY DEF StackNext, StackCallFunc, StackDefer, StackWrite, StackPanic, StackSame, StackReturn,
         StackNextStarted, StackNextDeferred, StackNextDeferredOfReturned,
         StackNextFinalized, StackNextPanicked, StackEnded,
         Next, Execute, NextCall, Defers

THEOREM StackImplementsCalls == StackSpec => Spec
  <1>1. StackInit => Init
    BY DEF StackInit
  <1> QED
    BY <1>1, StackStepIsCallsStep, PTL DEF StackSpec, Spec

-----------------------------------------------------------------------------
(***************************************************************************)
(* Frames and their slots, as two sequences of the same length.            *)
(***************************************************************************)
SlotType == [fp : Nat, size : Nat, live : Nat]

InOrder(cs, sl, fp) ==
    \A j \in 1..Len(cs) :
        cs[j].status = "deferred" =>
            sl[j].fp <= (IF j < Len(cs) THEN sl[j + 1].fp ELSE fp)

Parallel(cs, sl) == cs \in Seq(Frame) /\ sl \in Seq(SlotType) /\ Len(sl) = Len(cs)

\* Dropping the frames from k on: the function of frame k runs.
LEMMA PrefixInOrder ==
    ASSUME NEW cs, NEW sl, NEW fp \in Nat, Parallel(cs, sl), InOrder(cs, sl, fp),
           NEW k \in 1..Len(cs)
    PROVE  /\ Parallel(SubSeq(cs, 1, k - 1), SubSeq(sl, 1, k - 1))
           /\ InOrder(SubSeq(cs, 1, k - 1), SubSeq(sl, 1, k - 1), sl[k].fp)
  <1> DEFINE c == SubSeq(cs, 1, k - 1)
             s == SubSeq(sl, 1, k - 1)
  <1>1. Len(cs) \in Nat /\ k \in 1..Len(cs) + 1 /\ k \in 1..Len(sl) + 1
    BY LenProperties DEF Parallel
  <1>2. /\ c \in Seq(Frame) /\ Len(c) = k - 1 /\ \A j \in 1..k-1 : c[j] = cs[j]
    BY <1>1, PrefixOfSeq DEF Parallel
  <1>3. /\ s \in Seq(SlotType) /\ Len(s) = k - 1 /\ \A j \in 1..k-1 : s[j] = sl[j]
    BY <1>1, PrefixOfSeq DEF Parallel
  <1>4. Parallel(c, s)
    BY <1>2, <1>3 DEF Parallel
  <1> HIDE DEF c, s
  <1>5. ASSUME NEW j \in 1..Len(c), c[j].status = "deferred"
        PROVE  s[j].fp <= (IF j < Len(c) THEN s[j + 1].fp ELSE sl[k].fp)
    <2>1. j \in 1..k-1 /\ j < Len(cs) /\ j \in 1..Len(cs)
      BY <1>1, <1>2, <1>5
    <2>2. cs[j].status = "deferred"
      BY <1>2, <1>5, <2>1
    <2>3. sl[j].fp <= sl[j + 1].fp
      BY <2>1, <2>2 DEF InOrder
    <2>4. CASE j < Len(c)
      BY <1>2, <1>3, <2>1, <2>3, <2>4
    <2>5. CASE ~(j < Len(c))
      <3>1. j + 1 = k
        BY <1>1, <1>2, <2>1, <2>5
      <3> QED
        BY <1>3, <2>1, <2>3, <2>5, <3>1
    <2> QED
      BY <2>4, <2>5
  <1>6. InOrder(c, s, sl[k].fp)
    BY <1>5 DEF InOrder
  <1> QED
    BY <1>4, <1>6 DEF c, s

\* Pushing a frame above the running function, or above the frames left.
LEMMA AppendInOrder ==
    ASSUME NEW cs, NEW sl, NEW fp \in Nat, Parallel(cs, sl), InOrder(cs, sl, fp),
           NEW f \in Frame, NEW s \in SlotType, fp <= s.fp,
           NEW top \in Nat, f.status = "deferred" => s.fp <= top
    PROVE  /\ Parallel(Append(cs, f), Append(sl, s))
           /\ InOrder(Append(cs, f), Append(sl, s), top)
  <1> DEFINE c == Append(cs, f)
             l == Append(sl, s)
             n == Len(cs)
  <1>1. n \in Nat /\ cs \in Seq(Frame) /\ sl \in Seq(SlotType) /\ Len(sl) = n
    BY LenProperties DEF Parallel
  <1>2. c \in Seq(Frame) /\ Len(c) = n + 1 /\ c[n + 1] = f /\ \A j \in 1..n : c[j] = cs[j]
    BY <1>1, AppendProperties
  <1>3. l \in Seq(SlotType) /\ Len(l) = n + 1 /\ l[n + 1] = s /\ \A j \in 1..n : l[j] = sl[j]
    BY <1>1, AppendProperties
  <1>4. \A j \in 1..n : sl[j] \in SlotType
    BY <1>1, ElementOfSeq
  <1> HIDE DEF c, l
  <1>5. ASSUME NEW j \in 1..Len(c), c[j].status = "deferred"
        PROVE  l[j].fp <= (IF j < Len(c) THEN l[j + 1].fp ELSE top)
    <2>1. CASE j = n + 1
      BY <1>1, <1>2, <1>3, <1>5, <2>1
    <2>2. CASE j = n /\ j \in 1..n
      <3>1. cs[j].status = "deferred" /\ ~(j < Len(cs))
        BY <1>1, <1>2, <1>5, <2>2
      <3>2. sl[j].fp <= fp
        BY <2>2, <3>1 DEF InOrder
      <3>3. sl[j].fp \in Nat /\ s.fp \in Nat
        BY <1>4, <2>2 DEF SlotType
      <3>4. l[j] = sl[j] /\ l[j + 1] = s /\ j < Len(c)
        BY <1>1, <1>2, <1>3, <2>2
      <3> QED
        BY <3>2, <3>3, <3>4
    <2>3. CASE j < n
      <3>1. j \in 1..n /\ j + 1 \in 1..n /\ j < Len(cs) /\ j < Len(c)
        BY <1>1, <1>2, <1>5, <2>3
      <3>2. sl[j].fp <= sl[j + 1].fp
        BY <1>2, <1>5, <3>1 DEF InOrder
      <3> QED
        BY <1>3, <3>1, <3>2
    <2> QED
      BY <1>1, <1>2, <1>5, <2>1, <2>2, <2>3
  <1>6. Parallel(c, l) /\ InOrder(c, l, top)
    BY <1>1, <1>2, <1>3, <1>5 DEF Parallel, InOrder
  <1> QED
    BY <1>6 DEF c, l

\* The frames up to k, with another frame at k, as ContinueWith leaves them.
LEMMA PrefixWithLast ==
    ASSUME NEW cs \in Seq(Frame), NEW k \in 1..Len(cs), NEW f \in Frame
    PROVE  SubSeq([cs EXCEPT ![k] = f], 1, k) = Append(SubSeq(cs, 1, k - 1), f)
  <1> DEFINE e == [cs EXCEPT ![k] = f]
             p == SubSeq(cs, 1, k - 1)
  <1>1. Len(cs) \in Nat /\ k + 1 \in 1..Len(cs) + 1 /\ k \in 1..Len(cs) + 1
    BY LenProperties
  <1>2. e \in Seq(Frame) /\ Len(e) = Len(cs)
        /\ \A j \in 1..Len(cs) : e[j] = IF j = k THEN f ELSE cs[j]
    BY ReplaceInSeq
  <1> HIDE DEF e
  <1>3. SubSeq(e, 1, (k + 1) - 1) \in Seq(Frame) /\ Len(SubSeq(e, 1, (k + 1) - 1)) = k
        /\ \A j \in 1..k : SubSeq(e, 1, (k + 1) - 1)[j] = e[j]
    BY <1>1, <1>2, PrefixOfSeq
  <1>4. (k + 1) - 1 = k
    BY <1>1
  <1>5. p \in Seq(Frame) /\ Len(p) = k - 1 /\ \A j \in 1..k-1 : p[j] = cs[j]
    BY <1>1, PrefixOfSeq
  <1> HIDE DEF p
  <1>6. Append(p, f) \in Seq(Frame) /\ Len(Append(p, f)) = k /\ Append(p, f)[k] = f
        /\ \A j \in 1..k-1 : Append(p, f)[j] = cs[j]
    BY <1>1, <1>5, AppendProperties
  <1>7. \A j \in 1..k : SubSeq(e, 1, k)[j] = Append(p, f)[j]
    BY <1>1, <1>2, <1>3, <1>4, <1>6
  <1>8. SubSeq(e, 1, k) = Append(p, f)
    BY <1>1, <1>3, <1>4, <1>6, <1>7, SeqEqual
  <1> QED
    BY <1>8 DEF e, p

-----------------------------------------------------------------------------
(***************************************************************************)
(* The stack shifts only go up; what makes swapStack's differences right   *)
(* is that a deferred call at the index of nextCall's loop, when this is   *)
(* below the top, was put there by the loop itself, and has run.           *)
(***************************************************************************)
OrderInv ==
    /\ FunctionInv
    /\ Parallel(calls, slots)
    /\ here \in SlotType
    /\ InOrder(calls, slots, here.fp)
    /\ phase = "next" /\ i \in 1..Len(calls) /\ i # Len(calls) => calls[i].status # "deferred"

LEMMA OrderInit == StackInit => OrderInv
  <1> SUFFICES ASSUME StackInit PROVE OrderInv
    OBVIOUS
  <1>1. calls = <<>> /\ slots = <<>> /\ phase = "run" /\ FunctionInv
    BY FunctionInit DEF StackInit, Init
  <1>2. here \in SlotType
    BY StackAssumption DEF StackInit, Slot, SlotType
  <1> QED
    BY <1>1, <1>2 DEF OrderInv, Parallel, InOrder

\* What the steps below need of the state.
LEMMA OrderFacts ==
    ASSUME OrderInv
    PROVE  /\ calls \in Seq(Frame) /\ Len(calls) \in Nat
           /\ slots \in Seq(SlotType) /\ Len(slots) = Len(calls)
           /\ \A j \in 1..Len(calls) : calls[j] \in Frame /\ slots[j] \in SlotType
           /\ here.fp \in Nat /\ here.size \in Nat /\ here.live \in Nat
           /\ cur \in Fn /\ rend \in Nat /\ made \in Nat
  <1>1. calls \in Seq(Frame) /\ slots \in Seq(SlotType) /\ Len(slots) = Len(calls)
    BY DEF OrderInv, Parallel
  <1>2. \A j \in 1..Len(calls) : calls[j] \in Frame /\ slots[j] \in SlotType
    BY <1>1, ElementOfSeq
  <1>3. here \in SlotType /\ TypeOK
    BY DEF OrderInv, FunctionInv, SafeInv
  <1> QED
    BY <1>1, <1>2, <1>3, LenProperties DEF SlotType, TypeOK, Fn

\* A function starts to run: its frame was dropped and its slot is the running one.
LEMMA RunsInOrder ==
    ASSUME FunctionInv', Parallel(calls', slots'), here' \in SlotType,
           InOrder(calls', slots', here'.fp), phase' # "next"
    PROVE  OrderInv'
  BY DEF OrderInv

LEMMA StackCallFuncOrder == ASSUME OrderInv, FunctionInv', StackCallFunc PROVE OrderInv'
  <1> DEFINE f == FrameOf(cur, "started", 0)
             s(off) == [here EXCEPT !.live = off]
  <1>1. PICK off \in 2..here.size - 1, n \in Sizes :
           /\ slots' = Append(slots, s(off))
           /\ here' = [Slot(here.fp + off, n, 0) EXCEPT !.live = 2]
    BY DEF StackCallFunc, Start
  <1>2. calls' = Append(calls, f) /\ phase' = "run"
    BY DEF StackCallFunc, OpCallFunc, Enter, Executes
  <1>3. f \in Frame /\ f.status # "deferred"
    BY OrderFacts, FrameOfType DEF Statuses
  <1>4. off \in Nat /\ n \in Nat
    BY <1>1, OrderFacts, StackAssumption
  <1>5. here \in SlotType
    BY DEF OrderInv
  <1>6. s(off) \in SlotType /\ s(off).fp = here.fp
    BY <1>4, <1>5 DEF SlotType
  <1>7. here' \in SlotType /\ here'.fp = here.fp + off
    <2>1. here' = [fp |-> here.fp + off, size |-> n, live |-> 2]
      BY <1>1 DEF Slot
    <2>2. here.fp + off \in Nat
      BY <1>4, OrderFacts
    <2> QED
      BY <1>4, <2>1, <2>2 DEF SlotType
  <1>8. here'.fp \in Nat
    BY <1>7 DEF SlotType
  <1>9. Parallel(calls, slots) /\ InOrder(calls, slots, here.fp) /\ here.fp \in Nat
        /\ here.fp <= s(off).fp
    BY <1>6, OrderFacts DEF OrderInv
  <1> HIDE DEF f, s
  <1>10. Parallel(calls', slots') /\ InOrder(calls', slots', here'.fp)
    BY <1>1, <1>2, <1>3, <1>6, <1>8, <1>9, AppendInOrder
  <1> QED
    BY <1>2, <1>7, <1>10, RunsInOrder

LEMMA StackDeferOrder == ASSUME OrderInv, FunctionInv', StackDefer PROVE OrderInv'
  <1> DEFINE fn == [act |-> made', kind |-> "func"]
             f == FrameOf(fn, "deferred", rend)
             s(args) == Slot(here.fp, args, args)
  <1>1. PICK off \in 2..here.size - 1 : \E args \in 0..here.size - off :
           /\ slots' = Append(slots, s(args))
           /\ here' = Slot(here.fp + args, here.size, off)
    BY DEF StackDefer
  <1>2. PICK args \in 0..here.size - off :
           /\ slots' = Append(slots, s(args))
           /\ here' = Slot(here.fp + args, here.size, off)
    BY <1>1
  <1>3. calls' = Append(calls, f) /\ phase' = "run" /\ made' = made + 1
    BY DEF StackDefer, OpDefer, Executes
  <1>4. fn \in Fn /\ rend \in Nat
    BY <1>3, OrderFacts DEF Fn, Kinds
  <1> HIDE DEF fn
  <1>5. f \in Frame
    BY <1>4, FrameOfType DEF Statuses
  <1>6. args \in Nat /\ off \in Nat
    BY <1>1, <1>2, OrderFacts
  <1>7. s(args) \in SlotType /\ s(args).fp = here.fp
    BY <1>6, OrderFacts DEF Slot, SlotType
  <1>8. here' \in SlotType /\ here'.fp = here.fp + args
    BY <1>2, <1>6, OrderFacts DEF Slot, SlotType
  <1>9. here'.fp \in Nat /\ here.fp \in Nat /\ here.fp <= here'.fp
    BY <1>6, <1>8, OrderFacts
  <1>10. Parallel(calls, slots) /\ InOrder(calls, slots, here.fp) /\ here.fp <= s(args).fp
         /\ s(args).fp <= here'.fp
    BY <1>7, <1>9 DEF OrderInv
  <1> HIDE DEF f, s
  <1>11. Parallel(calls', slots') /\ InOrder(calls', slots', here'.fp)
    BY <1>2, <1>3, <1>5, <1>7, <1>9, <1>10, AppendInOrder
  <1> QED
    BY <1>3, <1>8, <1>11, RunsInOrder

\* The frame of a panic is on top, and nextCall starts from it.
LEMMA StackPanicOrder == ASSUME OrderInv, FunctionInv', StackPanic PROVE OrderInv'
  <1>1. here' = here
    BY DEF StackPanic
  <1>2. CASE calls = <<>>
    BY <1>1, <1>2 DEF StackPanic, OpPanic, OrderInv
  <1>3. CASE calls # <<>>
    <2> DEFINE f == [FrameOf(cur, "panicked", rend) EXCEPT !.why = thrown']
    <2>1. /\ calls' = Append(calls, f) /\ slots' = Append(slots, here)
          /\ i' = Len(calls') /\ thrown' = thrown + 1 /\ thrown \in Nat
      BY <1>3 DEF StackPanic, OpPanic, LinksPanic, Throws, PushesPanicked, OrderInv, FunctionInv, SafeInv, TypeOK
    <2>2. f = [act |-> cur.act, kind |-> cur.kind, status |-> "panicked",
               rend |-> rend, why |-> thrown']
      BY DEF FrameOf
    <2> HIDE DEF f
    <2>3. f \in Frame /\ f.status # "deferred"
      <3>1. cur.act \in Nat /\ cur.kind \in Kinds /\ rend \in Nat /\ thrown' \in Nat
        BY <2>1, OrderFacts DEF Fn
      <3> QED
        BY <2>2, <3>1 DEF Frame, Statuses
    <2>4. /\ here \in SlotType /\ here.fp \in Nat /\ here.fp <= here.fp
          /\ Parallel(calls, slots) /\ InOrder(calls, slots, here.fp)
      BY OrderFacts DEF OrderInv
    <2>5. Parallel(calls', slots') /\ InOrder(calls', slots', here.fp)
      BY <2>1, <2>3, <2>4, AppendInOrder
    <2> QED
      BY <1>1, <2>1, <2>4, <2>5 DEF OrderInv
  <1> QED
    BY <1>2, <1>3

LEMMA StackSameOrder == ASSUME OrderInv, FunctionInv', StackSame PROVE OrderInv'
  <1>1. slots' = slots /\ here' = here
    BY DEF StackSame, svars
  <1>2. CASE OpRecover
    <2>1. PICK found : RecoverFrames(found)
      BY <1>2 DEF OpRecover
    <2>3. calls' \in Seq(Frame) /\ Len(calls') = Len(calls)
      BY <2>1, RecoverPreserves DEF OrderInv, FunctionInv, SafeInv, TypeOK
    <2>4. \A j \in 1..Len(calls) : calls'[j].status = "deferred" => calls[j].status = "deferred"
      BY <2>1, OrderFacts, LenProperties DEF RecoverFrames, Frame
    <2>5. phase' = "run"
      BY <1>2 DEF OpRecover, Executes
    <2>6. Parallel(calls', slots')
      BY <1>1, <2>3 DEF OrderInv, Parallel
    <2>7. InOrder(calls', slots', here'.fp)
      BY <1>1, <2>3, <2>4 DEF OrderInv, InOrder
    <2>8. here' \in SlotType
      BY <1>1 DEF OrderInv
    <2> QED
      BY <2>5, <2>6, <2>7, <2>8, RunsInOrder
  <1>3. CASE ReturnFromMain \/ NextNone
    BY <1>1, <1>3 DEF OrderInv, ReturnFromMain, NextNone
  <1>4. CASE ReturnToNextCall
    BY <1>1, <1>4 DEF OrderInv, ReturnToNextCall
  <1> QED
    BY <1>2, <1>3, <1>4 DEF StackSame

LEMMA StackReturnOrder == ASSUME OrderInv, FunctionInv', StackReturn PROVE OrderInv'
  <1> DEFINE n == Len(calls)
  <1>1. /\ calls' = SubSeq(calls, 1, n - 1) /\ slots' = SubSeq(slots, 1, n - 1)
        /\ here' = slots[n] /\ phase' = "run" /\ calls # <<>>
    BY OrderFacts DEF StackReturn, ReturnToCaller, Continue
  <1>2. n \in 1..n
    BY <1>1, OrderFacts, EmptySeq
  <1>3. slots[n] \in SlotType
    BY <1>2, OrderFacts
  <1>4. Parallel(calls', slots') /\ InOrder(calls', slots', here'.fp)
    BY <1>1, <1>2, OrderFacts, PrefixInOrder DEF OrderInv
  <1> QED
    BY <1>1, <1>3, <1>4, RunsInOrder

LEMMA StackNextStartedOrder == ASSUME OrderInv, FunctionInv', StackNextStarted PROVE OrderInv'
  <1>1. i \in 1..Len(calls) /\ calls[i] \in Frame /\ calls[i].kind \in Scriggo
    BY LoopIndex DEF StackNextStarted, NextStarted, OrderInv, FunctionInv, ScriggoFrames
  <1>2. /\ calls' = SubSeq(calls, 1, i - 1) /\ slots' = SubSeq(slots, 1, i - 1)
        /\ here' = slots[i] /\ phase' = "run"
    BY <1>1 DEF StackNextStarted, NextStarted, Continue, ContinueWith, Scriggo
  <1>3. Parallel(calls', slots') /\ InOrder(calls', slots', here'.fp) /\ here' \in SlotType
    BY <1>1, <1>2, OrderFacts, PrefixInOrder DEF OrderInv
  <1> QED
    BY <1>2, <1>3, RunsInOrder

\* What a slot is made of, and that the one of a function that starts is a slot.
LEMMA SlotFields == ASSUME NEW s \in SlotType PROVE s.fp \in Nat /\ s.size \in Nat /\ s.live \in Nat
  BY DEF SlotType

LEMMA SlotStarts ==
    ASSUME NEW a \in Nat, NEW b \in Nat, NEW n \in Nat, NEW l \in Nat
    PROVE  [Slot(a + b, n, l) EXCEPT !.live = 2] \in SlotType
  <1>1. Slot(a + b, n, l) \in SlotType
    BY DEF Slot, SlotType
  <1> QED
    BY <1>1 DEF SlotType

\* A deferred call at k takes the place of the function above it, whose frame f goes
\* down to k: the common part of the three ways to start a deferred call.
LEMMA StartsInOrder ==
    ASSUME OrderInv, FunctionInv', NEW k \in 1..Len(calls), NEW f \in Frame, NEW s \in SlotType,
           f.status # "deferred", slots[k].fp <= s.fp,
           calls' = SubSeq([calls EXCEPT ![k] = f], 1, k),
           slots' = Append(SubSeq(slots, 1, k - 1), s),
           here' \in SlotType, phase' = "run"
    PROVE  OrderInv'
  <1> DEFINE c == SubSeq(calls, 1, k - 1)
             l == SubSeq(slots, 1, k - 1)
  <1>1. calls' = Append(c, f)
    BY OrderFacts, PrefixWithLast
  <1>2. Parallel(c, l) /\ InOrder(c, l, slots[k].fp)
    BY OrderFacts, PrefixInOrder DEF OrderInv
  <1>3. slots[k].fp \in Nat /\ here'.fp \in Nat
    BY OrderFacts DEF SlotType
  <1> HIDE DEF c
  <1>4. Parallel(calls', slots') /\ InOrder(calls', slots', here'.fp)
    BY <1>1, <1>2, <1>3, AppendInOrder
  <1> QED
    BY <1>4, RunsInOrder

LEMMA StackNextDeferredOrder == ASSUME OrderInv, FunctionInv', StackNextDeferred PROVE OrderInv'
  <1>1. i \in 1..Len(calls) /\ calls[i] \in Frame /\ calls[i].kind \in Scriggo
    BY LoopIndex DEF StackNextDeferred, NextDeferred, OrderInv, FunctionInv, ScriggoFrames
  <1>2. calls[i].status = "deferred" /\ phase = "next"
    BY DEF StackNextDeferred, NextDeferred, AtStatus
  <1> DEFINE f == FrameOf(cur, "returned", rend)
             s == [here EXCEPT !.fp = slots[i].fp]
  <1>3. /\ calls' = SubSeq([calls EXCEPT ![i] = f], 1, (i + 1) - 1) /\ phase' = "run"
    BY <1>1 DEF StackNextDeferred, NextDeferred, ContinueWith, Scriggo
  <1>4. (i + 1) - 1 = i
    BY <1>1
  <1>5. PICK size \in Sizes :
           /\ slots' = Append(SubSeq(slots, 1, i - 1), s)
           /\ here' = [Slot(slots[i].fp + here.size, size, slots[i].live) EXCEPT !.live = 2]
    BY DEF StackNextDeferred, StartAbove
  <1>6. slots[i].fp \in Nat /\ here.size \in Nat /\ size \in Nat /\ here.live \in Nat
    BY <1>1, <1>5, OrderFacts, StackAssumption DEF SlotType
  <1>11. slots[i].live \in Nat
    BY <1>1, OrderFacts, SlotFields
  <1>7. here' \in SlotType
    BY <1>5, <1>6, <1>11, SlotStarts
  <1>8. s \in SlotType /\ s.fp = slots[i].fp
    BY <1>6 DEF OrderInv, SlotType
  <1>9. f \in Frame /\ f.status # "deferred"
    BY OrderFacts, FrameOfType DEF Statuses
  <1>10. slots[i].fp <= s.fp
    BY <1>6, <1>8
  <1> HIDE DEF f, s
  <1> QED
    BY <1>1, <1>3, <1>4, <1>5, <1>7, <1>8, <1>9, <1>10, StartsInOrder

LEMMA StackNextDeferredOfReturnedOrder ==
    ASSUME OrderInv, FunctionInv', StackNextDeferredOfReturned PROVE OrderInv'
  <1>1. i \in 1..Len(calls) /\ i > 1 /\ calls[i] \in Frame
        /\ calls[i].status \in {"returned", "recovered"}
    BY LoopIndex DEF StackNextDeferredOfReturned, NextDeferredOfReturned, MoreDeferred, AtStatus,
                     OrderInv, FunctionInv
  <1> DEFINE k == i - 1
             s == [slots[i] EXCEPT !.fp = slots[i - 1].fp]
  <1>2. k \in 1..Len(calls)
    BY <1>1, OrderFacts
  <1>3. calls[i - 1].kind \in Scriggo
    BY <1>2 DEF OrderInv, FunctionInv, ScriggoFrames
  <1>4. /\ calls' = SubSeq([calls EXCEPT ![k] = calls[i]], 1, k) /\ phase' = "run"
    BY <1>3 DEF StackNextDeferredOfReturned, NextDeferredOfReturned, ContinueWith, Scriggo
  <1>5. PICK size \in Sizes :
           /\ slots' = Append(SubSeq(slots, 1, k - 1), s)
           /\ here' = [Slot(slots[i - 1].fp + slots[i].size, size, slots[i - 1].live) EXCEPT !.live = 2]
    BY DEF StackNextDeferredOfReturned, StartAbove
  <1>6. slots[i] \in SlotType /\ slots[i - 1] \in SlotType /\ size \in Nat
    BY <1>1, <1>2, <1>5, OrderFacts, StackAssumption
  <1>11. slots[i - 1].fp \in Nat /\ slots[i].size \in Nat /\ slots[i - 1].live \in Nat
    BY <1>6, SlotFields
  <1>7. here' \in SlotType
    BY <1>5, <1>6, <1>11, SlotStarts
  <1>8. s \in SlotType /\ s.fp = slots[k].fp
    BY <1>6 DEF SlotType
  <1>9. slots[k].fp <= s.fp
    BY <1>8, <1>11
  <1>10. calls[i].status # "deferred"
    BY <1>1
  <1> HIDE DEF s, k
  <1> QED
    BY <1>1, <1>2, <1>4, <1>5, <1>7, <1>8, <1>9, <1>10, StartsInOrder

LEMMA StackNextPanickedOrder == ASSUME OrderInv, FunctionInv', StackNextPanicked PROVE OrderInv'
  <1>1. i \in 1..Len(calls) /\ calls[i] \in Frame /\ phase = "next"
    BY LoopIndex DEF StackNextPanicked, NextPanicked, AtStatus, OrderInv, FunctionInv
  <1>2. PICK k \in 1..i-1 :
           /\ calls[k].status = "deferred"
           /\ ContinueWith(calls[k], IF calls[k].kind = "native" THEN k ELSE k + 1,
                 [calls EXCEPT ![k] = [calls[k + 1] EXCEPT !.status = "panicked",
                                                           !.why = calls[i].why]])
    BY DEF StackNextPanicked, NextPanicked
  <1> DEFINE f == [calls[k + 1] EXCEPT !.status = "panicked", !.why = calls[i].why]
  <1>3. k \in 1..Len(calls) /\ k + 1 \in 1..Len(calls) /\ k < Len(calls)
        /\ (k + 1) - 1 = k /\ k \in Nat
    BY <1>1, <1>2, OrderFacts
  <1>4. calls[k].kind \in Scriggo
    BY <1>3 DEF OrderInv, FunctionInv, ScriggoFrames
  <1>5. calls' = SubSeq([calls EXCEPT ![k] = f], 1, k) /\ phase' = "run"
    BY <1>2, <1>3, <1>4 DEF ContinueWith, Scriggo
  <1>6. f \in Frame /\ f.status # "deferred"
    <2>1. calls[k + 1] \in Frame
      BY <1>3, OrderFacts
    <2> QED
      BY <1>1, <2>1 DEF Frame, Statuses
  <1> HIDE DEF f
  <1>7. Len(calls') = k
    <2> DEFINE p == SubSeq(calls, 1, k - 1)
    <2>1. p \in Seq(Frame) /\ Len(p) = k - 1
      BY <1>3, OrderFacts, PrefixOfSeq
    <2>2. calls' = Append(p, f)
      BY <1>3, <1>5, <1>6, OrderFacts, PrefixWithLast
    <2> HIDE DEF p
    <2> QED
      BY <1>3, <1>6, <2>1, <2>2, AppendProperties
  <1>8. /\ slots' = Append(SubSeq(slots, 1, k - 1), slots[k + 1])
        /\ \E n \in Sizes : here' = [[slots[k] EXCEPT !.size = n] EXCEPT !.live = 2]
    BY <1>7 DEF StackNextPanicked, Start
  <1>9. slots[k] \in SlotType /\ slots[k + 1] \in SlotType
    BY <1>3, OrderFacts
  <1>10. here' \in SlotType
    <2>1. PICK n \in Sizes : here' = [[slots[k] EXCEPT !.size = n] EXCEPT !.live = 2]
      BY <1>8
    <2>2. here' = [fp |-> slots[k].fp, size |-> n, live |-> 2]
      BY <1>9, <2>1 DEF SlotType
    <2>3. n \in Nat /\ slots[k].fp \in Nat
      BY <1>9, StackAssumption DEF SlotType
    <2> QED
      BY <2>2, <2>3 DEF SlotType
  <1>11. slots[k].fp <= slots[k + 1].fp
    BY <1>2, <1>3 DEF OrderInv, InOrder
  <1> QED
    BY <1>3, <1>5, <1>6, <1>8, <1>9, <1>10, <1>11, StartsInOrder

\* The loop leaves a finalized frame only for one that is not a deferred call.
LEMMA StackNextFinalizedOrder == ASSUME OrderInv, FunctionInv', StackNextFinalized PROVE OrderInv'
  <1>1. /\ i' = i - 1 /\ calls' = calls /\ slots' = slots /\ here' = here /\ i > 0
        /\ ~(i > 1 /\ calls[i - 1].status = "deferred")
    BY DEF StackNextFinalized, NextFinalized, AtStatus, MoreDeferred
  <1>2. i \in Nat
    BY DEF OrderInv, FunctionInv, SafeInv, TypeOK
  <1>3. i' \in 1..Len(calls') => calls'[i'].status # "deferred"
    BY <1>1, <1>2, OrderFacts
  <1> QED
    BY <1>1, <1>3 DEF OrderInv

LEMMA OrderStep ==
    ASSUME OrderInv, [StackNext]_<<vars, svars>>
    PROVE  OrderInv'
  <1>1. FunctionInv'
    <2>1. "defer native" \notin Ops
      BY StackAssumption
    <2> QED
      BY <2>1, FunctionStep, StackStepIsCallsStep DEF OrderInv
  <1>2. CASE StackCallFunc \/ StackDefer
    BY <1>1, <1>2, StackCallFuncOrder, StackDeferOrder
  <1>3. CASE StackPanic \/ StackSame
    BY <1>1, <1>3, StackPanicOrder, StackSameOrder
  <1>4. CASE StackReturn \/ StackNextStarted
    BY <1>1, <1>4, StackReturnOrder, StackNextStartedOrder
  <1>5. CASE StackNextDeferred \/ StackNextDeferredOfReturned \/ StackNextPanicked
    BY <1>1, <1>5, StackNextDeferredOrder, StackNextDeferredOfReturnedOrder, StackNextPanickedOrder
  <1>6. CASE StackNextFinalized
    BY <1>1, <1>6, StackNextFinalizedOrder
  <1>7. CASE StackWrite \/ StackEnded \/ UNCHANGED <<vars, svars>>
    BY <1>1, <1>7 DEF StackWrite, StackEnded, OrderInv, vars, svars
  <1> QED
    BY <1>2, <1>3, <1>4, <1>5, <1>6, <1>7 DEF StackNext

\* swapStack gets its stacks in order, whatever the sizes of the functions, the stack
\* shifts and the arguments: its unsigned differences b[t] - a[t] never wrap.
THEOREM FramesStayInOrder == StackSpec => []FramesInOrder
  <1>1. OrderInv => FramesInOrder
    <2> SUFFICES ASSUME OrderInv PROVE FramesInOrder
      OBVIOUS
    <2>1. DOMAIN calls = 1..Len(calls)
      BY OrderFacts, LenProperties
    <2> QED
      BY <2>1 DEF OrderInv, InOrder, FramesInOrder
  <1> QED
    BY <1>1, OrderInit, OrderStep, PTL DEF StackSpec

-----------------------------------------------------------------------------
(***************************************************************************)
(* What the operations on the registers leave where it was.                *)
(***************************************************************************)
Stack(st) == \E n \in Nat : DOMAIN st = 0..n-1

\* The registers up to top are the same in both stacks.
Agree(st, new, top) ==
    \A r \in Nat : r <= top /\ r \in DOMAIN st => r \in DOMAIN new /\ new[r] = st[r]

LEMMA StackTop ==
    ASSUME NEW st, Stack(st)
    PROVE  Top(st) \in Nat /\ DOMAIN st = 0..Top(st)-1
  <1>1. PICK n \in Nat : DOMAIN st = 0..n-1
    BY DEF Stack
  <1>2. Cardinality(0..n-1) = n
    <2>1. 0 \in Int /\ n - 1 \in Int
      OBVIOUS
    <2>2. Cardinality(0..n-1) = IF 0 > n - 1 THEN 0 ELSE n - 1 - 0 + 1
      BY <2>1, FS_Interval
    <2> QED
      BY <2>2
  <1> QED
    BY <1>1, <1>2 DEF Top

LEMMA AgreeLess ==
    ASSUME NEW st, NEW new, NEW top \in Nat, NEW low \in Nat, low <= top, Agree(st, new, top)
    PROVE  Agree(st, new, low)
  BY DEF Agree

LEMMA AgreeChain ==
    ASSUME NEW st, NEW mid, NEW new, NEW top \in Nat, Agree(st, mid, top), Agree(mid, new, top)
    PROVE  Agree(st, new, top)
  BY DEF Agree

LEMMA AgreeSame == ASSUME NEW st, NEW top \in Nat PROVE Agree(st, st, top)
  BY DEF Agree

LEMMA WriteKeeps ==
    ASSUME NEW st, Stack(st), NEW fp \in Nat, NEW from \in Nat, NEW to \in Nat, NEW act
    PROVE  /\ Stack(Write(st, fp, from, to, act)) /\ Top(Write(st, fp, from, to, act)) = Top(st)
           /\ \A r \in DOMAIN st : Write(st, fp, from, to, act)[r] = IF r \in fp + from .. fp + to THEN act ELSE st[r]
           /\ \A top \in Nat : top < fp + from => Agree(st, Write(st, fp, from, to, act), top)
  <1>1. DOMAIN Write(st, fp, from, to, act) = DOMAIN st
        /\ \A r \in DOMAIN st : Write(st, fp, from, to, act)[r] = IF r \in fp + from .. fp + to THEN act ELSE st[r]
    BY DEF Write
  <1>2. Stack(Write(st, fp, from, to, act)) /\ Top(Write(st, fp, from, to, act)) = Top(st)
    BY <1>1 DEF Stack, Top
  <1>3. ASSUME NEW top \in Nat, top < fp + from PROVE Agree(st, Write(st, fp, from, to, act), top)
    BY <1>1, <1>3 DEF Agree
  <1> QED
    BY <1>1, <1>2, <1>3

LEMMA GrownKeeps ==
    ASSUME NEW st, Stack(st), NEW need \in Nat
    PROVE  Stack(Grown(st, need)) /\ Top(st) <= Top(Grown(st, need))
           /\ \A top \in Nat : Agree(st, Grown(st, need), top)
  <1>1. Top(st) \in Nat /\ DOMAIN st = 0..Top(st)-1
    BY StackTop
  <1>2. CASE need > Top(st)
    <2>1. Grown(st, need) = More(st)
      BY <1>2 DEF Grown
    <2>2. DOMAIN More(st) = 0..2 * Top(st)-1
          /\ \A r \in 0..2 * Top(st)-1 : More(st)[r] = IF r < Top(st) THEN st[r] ELSE 0
      BY DEF More
    <2>3. 2 * Top(st) \in Nat
      BY <1>1
    <2>4. Stack(More(st))
      BY <2>2, <2>3 DEF Stack
    <2>5. Top(More(st)) \in Nat /\ DOMAIN More(st) = 0..Top(More(st))-1
      BY <2>4, StackTop
    <2>6. Top(st) <= Top(More(st))
      <3>1. SUFFICES ASSUME Top(st) > Top(More(st)) PROVE FALSE
        BY <1>1, <2>5
      <3>2. Top(More(st)) \in 0..2 * Top(st)-1
        BY <1>1, <2>3, <2>5, <3>1
      <3>3. Top(More(st)) \in 0..Top(More(st))-1
        BY <2>2, <2>5, <3>2
      <3> QED
        BY <2>5, <3>3
    <2>7. \A top \in Nat : Agree(st, More(st), top)
      BY <1>1, <2>2 DEF Agree
    <2> QED
      BY <2>1, <2>4, <2>6, <2>7
  <1>3. CASE ~(need > Top(st))
    BY <1>1, <1>3, AgreeSame DEF Grown
  <1> QED
    BY <1>2, <1>3

Moved(st, new, a, b, size) ==
    /\ \A x \in 1..size : a + x \in DOMAIN st => new[a + x] = st[b + x]
    /\ \A x \in 1..b + size - a : a + size + x \in DOMAIN st => new[a + size + x] = st[a + x]

\* swapStack moves the first size registers of the stack at b down to a, and what was
\* from a on, up by size.
LEMMA SwapKeeps ==
    ASSUME NEW st, Stack(st), NEW a \in Nat, NEW b \in Nat, NEW size \in Nat, Swaps(a, b, size),
           NEW new, new = Swapped(st, a, b, size)
    PROVE  Stack(new) /\ Top(new) = Top(st) /\ Agree(st, new, a) /\ Moved(st, new, a, b, size)
  <1>1. b > a /\ size > 0
    BY DEF Swaps
  <1>2. DOMAIN new = DOMAIN st
        /\ \A r \in DOMAIN st : new[r] = CASE r \in a + 1 .. a + size -> st[r + (b - a)]
                                           [] r \in a + size + 1 .. b + 2 * size -> st[r - size]
                                           [] OTHER -> st[r]
    BY DEF Swapped
  <1>3. Stack(new) /\ Top(new) = Top(st)
    BY <1>2 DEF Stack, Top
  <1>4. ASSUME NEW r \in Nat, r <= a, r \in DOMAIN st PROVE r \in DOMAIN new /\ new[r] = st[r]
    <2>1. r \notin a + 1 .. a + size /\ r \notin a + size + 1 .. b + 2 * size
      BY <1>4
    <2> QED
      BY <1>2, <1>4, <2>1
  <1>5. ASSUME NEW x \in 1..size, a + x \in DOMAIN st PROVE new[a + x] = st[b + x]
    <2>1. a + x \in a + 1 .. a + size /\ a + x + (b - a) = b + x
      OBVIOUS
    <2> QED
      BY <1>2, <1>5, <2>1
  <1>6. ASSUME NEW x \in 1..b + size - a, a + size + x \in DOMAIN st PROVE new[a + size + x] = st[a + x]
    <2>1. /\ a + size + x \notin a + 1 .. a + size /\ a + size + x \in a + size + 1 .. b + 2 * size
          /\ a + size + x - size = a + x
      BY <1>1
    <2> QED
      BY <1>2, <1>6, <2>1
  <1> QED
    BY <1>3, <1>4, <1>5, <1>6 DEF Agree, Moved

\* What is held below the registers that change is still held.
LEMMA HoldsBelow ==
    ASSUME NEW st, NEW new, NEW s \in SlotType, NEW act, NEW top \in Nat,
           Holds(st, s, act), s.fp + s.live <= top, Agree(st, new, top)
    PROVE  Holds(new, s, act)
  <1>1. s.fp \in Nat /\ s.live \in Nat
    BY DEF SlotType
  <1>2. ASSUME NEW r \in 1..s.live PROVE s.fp + r \in DOMAIN new /\ new[s.fp + r] = act
    <2>1. s.fp + r \in DOMAIN st /\ st[s.fp + r] = act
      BY DEF Holds
    <2>2. s.fp + r \in Nat /\ s.fp + r <= top
      BY <1>1
    <2> QED
      BY <2>1, <2>2 DEF Agree
  <1> QED
    BY <1>2 DEF Holds

\* A function that starts has its registers, if they are in the stack.
LEMMA StartKeeps ==
    ASSUME NEW st, Stack(st), NEW slot \in SlotType, slot.size >= 2, NEW act, Start(st, slot, act)
    PROVE  /\ Stack(regs') /\ Agree(st, regs', slot.fp)
           /\ here' = [slot EXCEPT !.live = 2]
           /\ ~overrun' => Holds(regs', here', act)
  <1>1. slot.fp \in Nat /\ slot.size \in Nat
    BY DEF SlotType
  <1>2. /\ regs' = Write(st, slot.fp, 1, slot.size, act) /\ here' = [slot EXCEPT !.live = 2]
        /\ overrun' = ~(slot.fp + slot.size < Top(st))
    BY DEF Start, Reaches
  <1>3. Stack(regs') /\ Agree(st, regs', slot.fp)
        /\ \A r \in DOMAIN st : regs'[r] = IF r \in slot.fp + 1 .. slot.fp + slot.size THEN act ELSE st[r]
    <2> DEFINE new == Write(st, slot.fp, 1, slot.size, act)
    <2>1. 1 \in Nat /\ slot.fp < slot.fp + 1
      BY <1>1
    <2>2. Stack(new) /\ Agree(st, new, slot.fp)
          /\ \A r \in DOMAIN st : new[r] = IF r \in slot.fp + 1 .. slot.fp + slot.size THEN act ELSE st[r]
      BY <1>1, <2>1, WriteKeeps
    <2> HIDE DEF new
    <2>3. regs' = new
      BY <1>2 DEF new
    <2> QED
      BY <2>2, <2>3
  <1>4. Top(st) \in Nat /\ DOMAIN st = 0..Top(st)-1 /\ DOMAIN regs' = DOMAIN st
    BY <1>2, StackTop DEF Write
  <1>5. here'.fp = slot.fp /\ here'.live = 2
    BY <1>2 DEF SlotType
  <1>6. ASSUME ~overrun', NEW r \in 1..2 PROVE slot.fp + r \in DOMAIN regs' /\ regs'[slot.fp + r] = act
    <2>0. slot.fp + slot.size < Top(st)
      BY <1>2, <1>6
    <2>1. slot.fp + r \in 0..Top(st)-1 /\ slot.fp + r \in slot.fp + 1 .. slot.fp + slot.size
      BY <1>1, <1>4, <2>0
    <2> QED
      BY <1>3, <1>4, <2>1
  <1> QED
    BY <1>2, <1>3, <1>5, <1>6 DEF Holds

-----------------------------------------------------------------------------
(***************************************************************************)
(* Where the registers of the frames are.  The frames that panicked have   *)
(* none that count.  The others have theirs (Safe, Sized) one above the    *)
(* other (Stacked), and the function that a frame called begins where this *)
(* looks for its result (Joined), unless it panicked.                      *)
(***************************************************************************)
Gone == {"panicked", "recovered"}

Safe(st, f, s) == f.status \in Gone \/ Holds(st, s, f.act)
Sized(f, s) == f.status \in Gone \cup {"deferred"} \/ s.live \in 2..s.size
Below(f, s, fp) == f.status \in Gone \/ s.fp + s.live <= fp
Serves(f, s, fp) == f.status = "started" => fp = s.fp + s.live

Placed(cs, sl, n, fp) == \A j \in 1..n : Below(cs[j], sl[j], fp)
Stacked(cs, sl, n) == \A k \in 1..n : Placed(cs, sl, k - 1, sl[k].fp)
Joined(cs, sl, n) ==
    \A k \in 2..n : cs[k].status \in Gone \/ Serves(cs[k - 1], sl[k - 1], sl[k].fp)
Layout(cs, sl, n, st) ==
    /\ Stacked(cs, sl, n) /\ Joined(cs, sl, n)
    /\ \A j \in 1..n : Safe(st, cs[j], sl[j]) /\ Sized(cs[j], sl[j])

\* The activation act is running at slot s, above the first n frames.
Runs(cs, sl, n, act, s, st) ==
    /\ Holds(st, s, act) /\ s.live \in 2..s.size
    /\ Placed(cs, sl, n, s.fp)
    /\ n > 0 => Serves(cs[n], sl[n], s.fp)

\* Frames that have the same part in the layout.
SameFrame(f, g) == f = g \/ (f.status \in Gone /\ g.status \in Gone)
SameFrames(cs, sl, ds, tl, n) == \A j \in 1..n : SameFrame(cs[j], ds[j]) /\ sl[j] = tl[j]

LEMMA PlacedSame ==
    ASSUME NEW cs, NEW sl, NEW ds, NEW tl, NEW n \in Nat, NEW m \in Nat, m <= n, NEW fp,
           SameFrames(cs, sl, ds, tl, n), Placed(cs, sl, m, fp)
    PROVE  Placed(ds, tl, m, fp)
  BY DEF SameFrames, SameFrame, Placed, Below

LEMMA PlacedHigher ==
    ASSUME NEW cs, NEW sl, NEW n \in Nat, \A j \in 1..n : sl[j] \in SlotType,
           NEW low \in Nat, NEW fp \in Nat, low <= fp, Placed(cs, sl, n, low)
    PROVE  Placed(cs, sl, n, fp)
  <1> SUFFICES ASSUME NEW j \in 1..n, cs[j].status \notin Gone PROVE sl[j].fp + sl[j].live <= fp
    BY DEF Placed, Below
  <1>1. sl[j].fp + sl[j].live <= low
    BY DEF Placed, Below
  <1>2. sl[j].fp \in Nat /\ sl[j].live \in Nat
    BY SlotFields
  <1> QED
    BY <1>1, <1>2

\* The layout of fewer frames, of frames with the same part in it, and on registers that
\* are the same below top.
LEMMA LayoutSame ==
    ASSUME NEW cs, NEW sl, NEW ds, NEW tl, NEW n \in Nat, NEW m \in Nat, m <= n, NEW st,
           SameFrames(cs, sl, ds, tl, m), Layout(cs, sl, n, st)
    PROVE  Layout(ds, tl, m, st)
  <1>1. Stacked(ds, tl, m)
    <2> SUFFICES ASSUME NEW k \in 1..m PROVE Placed(ds, tl, k - 1, tl[k].fp)
      BY DEF Stacked
    <2>1. k \in 1..n /\ k - 1 \in Nat /\ k - 1 <= m
      OBVIOUS
    <2>2. Placed(cs, sl, k - 1, sl[k].fp)
      BY <2>1 DEF Layout, Stacked
    <2>3. sl[k] = tl[k]
      BY DEF SameFrames
    <2> QED
      BY <2>1, <2>2, <2>3, PlacedSame
  <1>2. Joined(ds, tl, m)
    <2> SUFFICES ASSUME NEW k \in 2..m
                 PROVE  ds[k].status \in Gone \/ Serves(ds[k - 1], tl[k - 1], tl[k].fp)
      BY DEF Joined
    <2>1. k \in 2..n /\ k \in 1..m /\ k - 1 \in 1..m
      OBVIOUS
    <2>2. cs[k].status \in Gone \/ Serves(cs[k - 1], sl[k - 1], sl[k].fp)
      BY <2>1 DEF Layout, Joined
    <2>3. /\ SameFrame(cs[k], ds[k]) /\ sl[k] = tl[k]
          /\ SameFrame(cs[k - 1], ds[k - 1]) /\ sl[k - 1] = tl[k - 1]
      BY <2>1 DEF SameFrames
    <2> QED
      BY <2>2, <2>3 DEF SameFrame, Serves, Gone
  <1>3. ASSUME NEW j \in 1..m PROVE Safe(st, ds[j], tl[j]) /\ Sized(ds[j], tl[j])
    <2>1. Safe(st, cs[j], sl[j]) /\ Sized(cs[j], sl[j])
      BY DEF Layout
    <2>2. SameFrame(cs[j], ds[j]) /\ sl[j] = tl[j]
      BY DEF SameFrames
    <2> QED
      BY <2>1, <2>2 DEF SameFrame, Safe, Sized
  <1> QED
    BY <1>1, <1>2, <1>3 DEF Layout

LEMMA LayoutAgree ==
    ASSUME NEW cs, NEW sl, NEW n \in Nat, \A j \in 1..n : sl[j] \in SlotType, NEW st, NEW new,
           NEW top \in Nat, Placed(cs, sl, n, top), Agree(st, new, top), Layout(cs, sl, n, st)
    PROVE  Layout(cs, sl, n, new)
  <1> SUFFICES ASSUME NEW j \in 1..n, cs[j].status \notin Gone PROVE Holds(new, sl[j], cs[j].act)
    BY DEF Layout, Safe
  <1>1. Holds(st, sl[j], cs[j].act)
    BY DEF Layout, Safe
  <1>2. sl[j].fp + sl[j].live <= top
    BY DEF Placed, Below
  <1> QED
    BY <1>1, <1>2, HoldsBelow

\* Frame f at slot s goes on top of n frames.
Fits(cs, sl, n, f, s) ==
    /\ Placed(cs, sl, n, s.fp)
    /\ n > 0 => f.status \in Gone \/ Serves(cs[n], sl[n], s.fp)

Pushed(cs, sl, n, ds, tl, f, s) ==
    /\ \A j \in 1..n : ds[j] = cs[j] /\ tl[j] = sl[j]
    /\ ds[n + 1] = f /\ tl[n + 1] = s

LEMMA LayoutPush ==
    ASSUME NEW cs, NEW sl, NEW n \in Nat, NEW st, Layout(cs, sl, n, st),
           NEW f, NEW s, Fits(cs, sl, n, f, s), Safe(st, f, s), Sized(f, s),
           NEW ds, NEW tl, Pushed(cs, sl, n, ds, tl, f, s)
    PROVE  Layout(ds, tl, n + 1, st)
  <1> USE DEF Fits, Pushed
  <1>0. SameFrames(cs, sl, ds, tl, n)
    BY DEF SameFrames, SameFrame
  <1>1. Layout(ds, tl, n, st)
    BY <1>0, LayoutSame
  <1>2. Placed(ds, tl, n, s.fp)
    BY <1>0, PlacedSame
  <1>3. Stacked(ds, tl, n + 1)
    <2> SUFFICES ASSUME NEW k \in 1..n+1 PROVE Placed(ds, tl, k - 1, tl[k].fp)
      BY DEF Stacked
    <2>1. CASE k = n + 1
      <3>1. k - 1 = n
        BY <2>1
      <3> QED
        BY <1>2, <2>1, <3>1
    <2>2. CASE k \in 1..n
      BY <1>1, <2>2 DEF Layout, Stacked
    <2> QED
      BY <2>1, <2>2
  <1>4. Joined(ds, tl, n + 1)
    <2> SUFFICES ASSUME NEW k \in 2..n+1
                 PROVE  ds[k].status \in Gone \/ Serves(ds[k - 1], tl[k - 1], tl[k].fp)
      BY DEF Joined
    <2>1. CASE k = n + 1
      <3>1. k - 1 = n /\ n > 0 /\ n \in 1..n
        BY <2>1
      <3>2. ds[n] = cs[n] /\ tl[n] = sl[n]
        BY <3>1
      <3> QED
        BY <2>1, <3>1, <3>2
    <2>2. CASE k \in 2..n
      BY <1>1, <2>2 DEF Layout, Joined
    <2> QED
      BY <2>1, <2>2
  <1>5. \A j \in 1..n+1 : Safe(st, ds[j], tl[j]) /\ Sized(ds[j], tl[j])
    <2> SUFFICES ASSUME NEW j \in 1..n+1 PROVE Safe(st, ds[j], tl[j]) /\ Sized(ds[j], tl[j])
      OBVIOUS
    <2>1. CASE j = n + 1
      BY <2>1
    <2>2. CASE j \in 1..n
      BY <1>1, <2>2 DEF Layout
    <2> QED
      BY <2>1, <2>2
  <1> QED
    BY <1>3, <1>4, <1>5 DEF Layout

\* The frames of the state after a frame is pushed, or the last ones are dropped.
LEMMA PushedFrames ==
    ASSUME Parallel(calls, slots), NEW f, NEW s, calls' = Append(calls, f), slots' = Append(slots, s)
    PROVE  /\ Len(calls) \in Nat /\ Len(calls') = Len(calls) + 1
           /\ \A j \in 1..Len(calls) : calls'[j] = calls[j] /\ slots'[j] = slots[j]
           /\ calls'[Len(calls) + 1] = f /\ slots'[Len(calls) + 1] = s
  BY LenProperties, AppendProperties DEF Parallel

LEMMA DroppedFrames ==
    ASSUME NEW cs, NEW sl, Parallel(cs, sl), NEW k \in 1..Len(cs)
    PROVE  /\ k - 1 \in Nat /\ Len(SubSeq(cs, 1, k - 1)) = k - 1
           /\ \A j \in 1..k-1 : SubSeq(cs, 1, k - 1)[j] = cs[j] /\ SubSeq(sl, 1, k - 1)[j] = sl[j]
           /\ SameFrames(cs, sl, SubSeq(cs, 1, k - 1), SubSeq(sl, 1, k - 1), k - 1)
  <1>1. Len(cs) \in Nat /\ k \in 1..Len(cs) + 1 /\ k \in 1..Len(sl) + 1 /\ k - 1 \in Nat
    BY LenProperties DEF Parallel
  <1>2. Len(SubSeq(cs, 1, k - 1)) = k - 1 /\ \A j \in 1..k-1 : SubSeq(cs, 1, k - 1)[j] = cs[j]
    BY <1>1, PrefixOfSeq DEF Parallel
  <1>3. \A j \in 1..k-1 : SubSeq(sl, 1, k - 1)[j] = sl[j]
    BY <1>1, PrefixOfSeq DEF Parallel
  <1> QED
    BY <1>1, <1>2, <1>3 DEF SameFrames, SameFrame

-----------------------------------------------------------------------------
(***************************************************************************)
(* The inductive invariant.  In nextCall the frames above the one that it  *)
(* looks at do not count, but for the last one that it finalized: its      *)
(* result is for the frame below.                                          *)
(***************************************************************************)
Up == IF phase = "next" /\ i < Len(calls) THEN i + 1 ELSE Len(calls)
AtDeferred == phase = "next" /\ i > 0 /\ calls[i].status = "deferred"

LoopSees ==
    phase = "next" => IF i < Len(calls) THEN calls[i + 1].status \in {"returned", "recovered"}
                                        ELSE i > 0 /\ calls[i].status # "started"

KeptInv ==
    /\ OrderInv /\ Stack(regs) /\ LoopSees /\ ReturnedResult
    /\ ~overrun /\ phase \notin Final => Layout(calls, slots, Up, regs)
    /\ ~overrun /\ (phase \in {"run", "return"} \/ AtDeferred)
          => Runs(calls, slots, Len(calls), cur.act, here, regs)

LEMMA KeptInit == StackInit => KeptInv
  <1> SUFFICES ASSUME StackInit PROVE KeptInv
    OBVIOUS
  <1>1. /\ calls = <<>> /\ slots = <<>> /\ phase = "run" /\ cur.act = 1 /\ Len(calls) = 0
        /\ overrun = FALSE /\ result = NoResult
    BY DEF StackInit, Init
  <1>2. OrderInv
    BY OrderInit
  <1>3. PICK n \in Sizes : here = Slot(0, n, 2)
    BY DEF StackInit
  <1>4. n \in Nat /\ n >= 2 /\ 4 * n <= StackSize /\ StackSize \in Nat
    BY StackAssumption
  <1>5. here.fp = 0 /\ here.size = n /\ here.live = 2
    BY <1>3 DEF Slot
  <1> DEFINE st == [r \in 0..StackSize - 1 |-> 0]
  <1>6. Stack(st) /\ DOMAIN st = 0..StackSize - 1
    BY <1>4 DEF Stack
  <1> HIDE DEF st
  <1>7. regs = Write(st, 0, 1, n, 1)
    BY <1>5 DEF StackInit, st
  <1>8. Stack(regs) /\ \A r \in DOMAIN st : regs[r] = IF r \in 0 + 1 .. 0 + n THEN 1 ELSE st[r]
    BY <1>4, <1>6, <1>7, WriteKeeps
  <1>9. DOMAIN regs = 0..StackSize - 1
    BY <1>6, <1>7 DEF Write
  <1>10. Holds(regs, here, 1)
    <2> SUFFICES ASSUME NEW r \in 1..2 PROVE 0 + r \in DOMAIN regs /\ regs[0 + r] = 1
      BY <1>5 DEF Holds
    <2> QED
      BY <1>4, <1>6, <1>8, <1>9
  <1>11. Runs(calls, slots, Len(calls), cur.act, here, regs)
    BY <1>1, <1>4, <1>5, <1>10 DEF Runs, Placed
  <1>12. Layout(calls, slots, Up, regs)
    BY <1>1 DEF Layout, Stacked, Joined, Up
  <1>13. ReturnedResult
    BY <1>1 DEF ReturnedResult, NoResult
  <1> QED
    BY <1>1, <1>2, <1>8, <1>11, <1>12, <1>13 DEF KeptInv, LoopSees

\* What the steps below need of the state when it runs, or is in nextCall.
LEMMA KeptFacts ==
    ASSUME KeptInv
    PROVE  /\ OrderInv /\ Stack(regs) /\ LoopSees /\ ReturnedResult /\ Parallel(calls, slots)
           /\ Len(calls) \in Nat /\ i \in Nat
           /\ phase = "next" => i <= Len(calls)
           /\ here \in SlotType /\ \A j \in 1..Len(calls) : slots[j] \in SlotType
  <1>1. OrderInv /\ Stack(regs) /\ LoopSees /\ ReturnedResult
    BY DEF KeptInv
  <1>2. TypeOK /\ Parallel(calls, slots) /\ here \in SlotType
    BY <1>1 DEF OrderInv, FunctionInv, SafeInv
  <1>3. i \in Nat /\ (phase = "next" => i <= Len(calls))
    BY <1>2, LenProperties DEF TypeOK
  <1> QED
    BY <1>1, <1>2, <1>3, OrderFacts

\* After a step to the running function there is nothing else to show.
LEMMA RunsKept ==
    ASSUME OrderInv', Stack(regs'), ReturnedResult', phase' = "run",
           ~overrun' => Layout(calls', slots', Len(calls'), regs')
                        /\ Runs(calls', slots', Len(calls'), cur'.act, here', regs')
    PROVE  KeptInv'
  <1>1. Up' = Len(calls') /\ LoopSees' /\ ~AtDeferred'
    BY DEF Up, LoopSees, AtDeferred
  <1> QED
    BY <1>1 DEF KeptInv

LEMMA StackCallFuncKept == ASSUME KeptInv, OrderInv', StackCallFunc PROVE KeptInv'
  <1> DEFINE n == Len(calls)
             f == FrameOf(cur, "started", 0)
             s(off) == [here EXCEPT !.live = off]
  <1>1. PICK off \in 2..here.size - 1, m \in Sizes :
           /\ CanNeed(off)
           /\ slots' = Append(slots, s(off))
           /\ Start(Grown(Needs(off), here.fp + off + m), Slot(here.fp + off, m, 0), made')
    BY DEF StackCallFunc
  <1>2. /\ phase = "run" /\ ~overrun /\ calls' = Append(calls, f) /\ phase' = "run"
        /\ cur'.act = made' /\ result' = result
    BY DEF StackCallFunc, OpCallFunc, Executes, Enter
  <1>3. /\ n \in Nat /\ Stack(regs) /\ Parallel(calls, slots)
        /\ here.fp \in Nat /\ here.live \in Nat /\ here.size \in Nat
        /\ off \in Nat /\ off >= 2 /\ off < here.size
        /\ m \in Nat /\ m >= 2 /\ \A j \in 1..n : slots[j] \in SlotType
    <2>1. n \in Nat /\ Stack(regs) /\ Parallel(calls, slots) /\ \A j \in 1..n : slots[j] \in SlotType
      BY KeptFacts
    <2>2. here.fp \in Nat /\ here.live \in Nat /\ here.size \in Nat
      BY KeptFacts, SlotFields
    <2>3. off \in Nat /\ off >= 2 /\ off < here.size
      BY <2>2
    <2>4. m \in Nat /\ m >= 2
      BY StackAssumption
    <2> QED
      BY <2>1, <2>2, <2>3, <2>4
  <1> HIDE DEF n
  <1>4. Layout(calls, slots, n, regs) /\ Runs(calls, slots, n, cur.act, here, regs)
    BY <1>2 DEF KeptInv, Up, Final, n
  <1>5. s(off).fp = here.fp /\ s(off).live = off /\ s(off).size = here.size /\ s(off) \in SlotType
    BY <1>3, KeptFacts DEF SlotType
  <1>6. f.status = "started" /\ f.act = cur.act
    BY DEF FrameOf
  <1> HIDE DEF f, s
  \* the registers of the caller, and the stack that the function starts on
  <1> DEFINE st == Needs(off)
             top == here.fp + off
             grown == Grown(st, here.fp + off + m)
             slot == Slot(top, m, 0)
  <1>7. top \in Nat /\ top >= here.fp /\ slot \in SlotType /\ slot.fp = top /\ slot.size = m
        /\ here.fp + off + m \in Nat
    BY <1>3 DEF Slot, SlotType
  <1>8. /\ Stack(st) /\ Agree(regs, st, here.fp)
        /\ \A r \in DOMAIN regs : st[r] = IF r \in here.fp + (here.live + 1) .. here.fp + off
                                          THEN cur.act ELSE regs[r]
        /\ DOMAIN st = DOMAIN regs
    <2>1. here.live + 1 \in Nat /\ here.fp < here.fp + (here.live + 1)
      BY <1>3
    <2>2. DOMAIN st = DOMAIN regs
      BY DEF Needs, Write
    <2> QED
      BY <1>3, <2>1, <2>2, WriteKeeps DEF Needs
  <1>9. DOMAIN regs = 0..Top(regs)-1 /\ Top(regs) \in Nat /\ top < Top(regs)
    BY <1>1, <1>3, StackTop DEF CanNeed, Reaches
  <1>10. Holds(st, s(off), cur.act)
    <2> SUFFICES ASSUME NEW r \in 1..off PROVE here.fp + r \in DOMAIN st /\ st[here.fp + r] = cur.act
      BY <1>5 DEF Holds
    <2>1. here.fp + r \in DOMAIN regs
      BY <1>3, <1>9
    <2>2. CASE r <= here.live
      <3>1. r \in 1..here.live
        BY <1>3, <2>2
      <3>2. regs[here.fp + r] = cur.act
        BY <1>4, <3>1 DEF Runs, Holds
      <3> QED
        BY <1>8, <2>1, <3>2
    <2>3. CASE ~(r <= here.live)
      <3>1. here.fp + r \in here.fp + (here.live + 1) .. here.fp + off
        BY <1>3, <2>3
      <3> QED
        BY <1>8, <2>1, <3>1
    <2> QED
      BY <2>2, <2>3
  <1> HIDE DEF st, top
  <1>11. Stack(grown) /\ Agree(st, grown, top)
    BY <1>7, <1>8, GrownKeeps
  <1> HIDE DEF grown, slot
  <1>12. Start(grown, slot, made')
    BY <1>1 DEF grown, slot, st, top
  <1>13. /\ Stack(regs') /\ Agree(grown, regs', top)
         /\ here' = [slot EXCEPT !.live = 2]
         /\ ~overrun' => Holds(regs', here', made')
    BY <1>3, <1>7, <1>11, <1>12, StartKeeps
  <1>14. here'.fp = top /\ here'.live = 2 /\ here'.size = m
    BY <1>7, <1>13 DEF SlotType
  <1>15. Agree(st, regs', top)
    BY <1>7, <1>11, <1>13, AgreeChain
  <1>16. Agree(regs, regs', here.fp)
    <2>1. Agree(st, regs', here.fp)
      BY <1>3, <1>7, <1>15, AgreeLess
    <2> QED
      BY <1>3, <1>8, <2>1, AgreeChain
  <1>17. Holds(regs', s(off), cur.act)
    BY <1>5, <1>7, <1>10, <1>15, HoldsBelow DEF top
  <1>18. Layout(calls, slots, n, regs')
    BY <1>3, <1>4, <1>16, LayoutAgree DEF Runs
  <1>19. /\ Len(calls') = n + 1 /\ \A j \in 1..n : calls'[j] = calls[j] /\ slots'[j] = slots[j]
         /\ calls'[n + 1] = f /\ slots'[n + 1] = s(off)
    <2> DEFINE t == s(off)
    <2>1. calls' = Append(calls, f) /\ slots' = Append(slots, t) /\ Parallel(calls, slots)
      BY <1>1, <1>2, <1>3
    <2>2. n = Len(calls)
      BY DEF n
    <2> HIDE DEF t
    <2>3. /\ Len(calls') = Len(calls) + 1
          /\ \A j \in 1..Len(calls) : calls'[j] = calls[j] /\ slots'[j] = slots[j]
          /\ calls'[Len(calls) + 1] = f /\ slots'[Len(calls) + 1] = t
      BY <2>1, PushedFrames
    <2> QED
      BY <2>2, <2>3 DEF t
  <1>20. Placed(calls, slots, n, here.fp) /\ (n > 0 => Serves(calls[n], slots[n], here.fp))
    BY <1>4 DEF Runs
  <1>21. Layout(calls', slots', n + 1, regs')
    <2>1. Safe(regs', f, s(off)) /\ Sized(f, s(off))
      BY <1>3, <1>5, <1>6, <1>17 DEF Safe, Sized
    <2>2. Fits(calls, slots, n, f, s(off)) /\ Pushed(calls, slots, n, calls', slots', f, s(off))
      BY <1>5, <1>19, <1>20 DEF Fits, Pushed
    <2> QED
      BY <1>3, <1>18, <2>1, <2>2, LayoutPush
  <1>22. Placed(calls', slots', n + 1, top)
    <2> SUFFICES ASSUME NEW j \in 1..n+1 PROVE Below(calls'[j], slots'[j], top)
      BY DEF Placed
    <2>1. CASE j = n + 1
      BY <1>3, <1>5, <1>7, <1>19, <2>1 DEF Below, top
    <2>2. CASE j \in 1..n
      <3>1. Placed(calls, slots, n, top)
        BY <1>3, <1>7, <1>20, PlacedHigher
      <3> QED
        BY <1>19, <2>2, <3>1 DEF Placed
    <2> QED
      BY <1>3, <2>1, <2>2
  <1>23. Serves(calls'[n + 1], slots'[n + 1], top)
    BY <1>5, <1>19 DEF Serves, top
  <1>24. ~overrun' => Runs(calls', slots', n + 1, cur'.act, here', regs')
    <2> SUFFICES ASSUME ~overrun' PROVE Runs(calls', slots', n + 1, cur'.act, here', regs')
      OBVIOUS
    <2>1. Holds(regs', here', cur'.act)
      BY <1>2, <1>13
    <2>2. here'.live \in 2..here'.size
      BY <1>3, <1>14
    <2> QED
      BY <1>14, <1>22, <1>23, <2>1, <2>2 DEF Runs
  <1>25. ReturnedResult'
    BY <1>2, KeptFacts DEF ReturnedResult
  <1> QED
    BY <1>2, <1>13, <1>19, <1>21, <1>24, <1>25, RunsKept

\* A deferred call is pushed below the running function, and its arguments and the
\* registers of the function swap places.
LEMMA StackDeferKept == ASSUME KeptInv, OrderInv', StackDefer PROVE KeptInv'
  <1> DEFINE n == Len(calls)
             f == FrameOf([act |-> made', kind |-> "func"], "deferred", rend)
  <1>1. PICK off \in 2..here.size - 1 : \E args \in 0..here.size - off :
           LET fp == here.fp + off
               st == SwapGrown(Write(Needs(off), fp, 1, args, made'), here.fp, fp, args)
           IN  /\ CanNeed(off + args)
               /\ overrun' = ~SwapFits(st, here.fp, fp, args)
               /\ regs' = Swapped(st, here.fp, fp, args)
               /\ slots' = Append(slots, Slot(here.fp, args, args))
               /\ here' = Slot(here.fp + args, here.size, off)
    BY DEF StackDefer
  <1>2. PICK args \in 0..here.size - off :
           LET fp == here.fp + off
               st == SwapGrown(Write(Needs(off), fp, 1, args, made'), here.fp, fp, args)
           IN  /\ CanNeed(off + args)
               /\ overrun' = ~SwapFits(st, here.fp, fp, args)
               /\ regs' = Swapped(st, here.fp, fp, args)
               /\ slots' = Append(slots, Slot(here.fp, args, args))
               /\ here' = Slot(here.fp + args, here.size, off)
    BY <1>1
  <1>3. /\ phase = "run" /\ ~overrun /\ calls' = Append(calls, f) /\ phase' = "run"
        /\ cur' = cur /\ result' = result
    BY DEF StackDefer, OpDefer, Executes
  <1>4. /\ n \in Nat /\ Stack(regs) /\ Parallel(calls, slots)
        /\ here.fp \in Nat /\ here.live \in Nat /\ here.size \in Nat
        /\ off \in Nat /\ off >= 2 /\ off < here.size /\ args \in Nat
        /\ \A j \in 1..n : slots[j] \in SlotType
    BY <1>1, <1>2, KeptFacts, SlotFields
  <1> HIDE DEF n
  <1>5. Layout(calls, slots, n, regs) /\ Runs(calls, slots, n, cur.act, here, regs)
    BY <1>3 DEF KeptInv, Up, Final, n
  <1>6. f.status = "deferred" /\ f.act = made'
    BY DEF FrameOf
  <1> HIDE DEF f
  <1> DEFINE a == here.fp
             b == here.fp + off
             need == Needs(off)
             st == Write(need, b, 1, args, made')
             grown == SwapGrown(st, a, b, args)
             s == Slot(a, args, args)
  <1>7. /\ overrun' = ~SwapFits(grown, a, b, args) /\ regs' = Swapped(grown, a, b, args)
        /\ slots' = Append(slots, s) /\ here' = Slot(a + args, here.size, off)
        /\ here.fp + (off + args) < Top(regs)
    BY <1>2 DEF CanNeed, Reaches
  <1>8. DOMAIN regs = 0..Top(regs)-1 /\ Top(regs) \in Nat /\ a \in Nat /\ b \in Nat /\ b > a
        /\ b = a + off /\ a + off + args < Top(regs)
    BY <1>4, <1>7, StackTop
  <1>a. a = here.fp
    OBVIOUS
  <1>9. /\ Stack(need) /\ DOMAIN need = DOMAIN regs /\ Agree(regs, need, a)
        /\ \A r \in DOMAIN regs : need[r] = IF r \in a + (here.live + 1) .. a + off THEN cur.act ELSE regs[r]
    <2>1. here.live + 1 \in Nat /\ here.fp < here.fp + (here.live + 1)
      BY <1>4
    <2>2. DOMAIN need = DOMAIN regs
      BY DEF Needs, Write
    <2> QED
      BY <1>4, <2>1, <2>2, WriteKeeps DEF Needs
  <1>10. \A x \in 1..off : need[a + x] = cur.act
    <2> SUFFICES ASSUME NEW x \in 1..off PROVE need[a + x] = cur.act
      OBVIOUS
    <2>1. a + x \in DOMAIN regs
      <3>1. a \in Nat /\ off \in Nat /\ args \in Nat /\ x \in 1..off
        BY <1>4, <1>8
      <3>2. Top(regs) \in Nat /\ a + off + args < Top(regs)
        BY <1>8
      <3> HIDE DEF a
      <3>3. a + x \in 0..Top(regs)-1
        BY <3>1, <3>2
      <3> QED
        BY <1>8, <3>3
    <2>2. CASE x <= here.live
      <3>1. x \in 1..here.live
        BY <1>4, <2>2
      <3>2. regs[here.fp + x] = cur.act
        BY <1>5, <3>1 DEF Runs, Holds
      <3> QED
        BY <1>9, <2>1, <3>2
    <2>3. CASE ~(x <= here.live)
      <3>1. a + x \in a + (here.live + 1) .. a + off
        BY <1>4, <2>3
      <3> QED
        BY <1>9, <2>1, <3>1
    <2> QED
      BY <2>2, <2>3
  <1> HIDE DEF need, a, b
  <1>11. /\ Stack(st) /\ DOMAIN st = DOMAIN regs /\ Agree(need, st, b)
         /\ \A r \in DOMAIN need : st[r] = IF r \in b + 1 .. b + args THEN made' ELSE need[r]
    <2>1. DOMAIN st = DOMAIN need
      BY DEF Write, st
    <2>2. 1 \in Nat /\ b < b + 1
      BY <1>8
    <2> QED
      <3>1. b \in Nat /\ args \in Nat /\ Stack(need)
        BY <1>4, <1>8, <1>9
      <3>2. /\ Stack(st) /\ Agree(need, st, b)
            /\ \A r \in DOMAIN need : st[r] = IF r \in b + 1 .. b + args THEN made' ELSE need[r]
        BY <2>2, <3>1, WriteKeeps
      <3> HIDE DEF st
      <3> QED
        BY <1>9, <2>1, <3>2
  <1>12. /\ \A x \in 1..off : a + x \in DOMAIN st /\ st[a + x] = cur.act
         /\ \A x \in 1..args : b + x \in DOMAIN st /\ st[b + x] = made'
    <2>1. ASSUME NEW x \in 1..off PROVE a + x \in DOMAIN st /\ st[a + x] = cur.act
      <3>1. a + x \in DOMAIN regs /\ a + x \notin b + 1 .. b + args
        BY <1>4, <1>8
      <3> QED
        BY <1>9, <1>10, <1>11, <3>1
    <2>2. ASSUME NEW x \in 1..args PROVE b + x \in DOMAIN st /\ st[b + x] = made'
      <3>1. b + x \in DOMAIN regs /\ b + x \in b + 1 .. b + args
        BY <1>4, <1>8
      <3> QED
        BY <1>9, <1>11, <3>1
    <2> QED
      BY <2>1, <2>2
  <1> HIDE DEF st
  <1>13. Agree(regs, st, a)
    <2>1. Agree(need, st, a)
      BY <1>8, <1>11, AgreeLess
    <2> QED
      BY <1>8, <1>9, <2>1, AgreeChain
  \* after the swap
  <1>14. /\ Stack(regs') /\ Agree(st, regs', a)
         /\ ~overrun' => /\ \A x \in 1..args : a + x \in DOMAIN regs' /\ regs'[a + x] = made'
                         /\ \A x \in 1..off : a + args + x \in DOMAIN regs' /\ regs'[a + args + x] = cur.act
    <2>1. CASE Swaps(a, b, args)
      <3>1. grown = Grown(st, b + 2 * args) /\ b + 2 * args \in Nat
        BY <1>4, <1>8, <2>1 DEF SwapGrown
      <3>2. Stack(grown) /\ \A top \in Nat : Agree(st, grown, top)
        BY <1>11, <3>1, GrownKeeps
      <3>3. \A r \in DOMAIN st : r \in DOMAIN grown /\ grown[r] = st[r]
        <4> SUFFICES ASSUME NEW r \in DOMAIN st PROVE r \in DOMAIN grown /\ grown[r] = st[r]
          OBVIOUS
        <4>1. r \in Nat
          BY <1>8, <1>11
        <4> QED
          BY <3>2, <4>1 DEF Agree
      <3> HIDE DEF grown
      <3>4. /\ Stack(regs') /\ Top(regs') = Top(grown) /\ Agree(grown, regs', a)
            /\ \A x \in 1..args : a + x \in DOMAIN grown => regs'[a + x] = grown[b + x]
            /\ \A x \in 1..b + args - a : a + args + x \in DOMAIN grown => regs'[a + args + x] = grown[a + x]
        <4>1. regs' = Swapped(grown, a, b, args)
          BY <1>7
        <4> QED
          <5>1. a \in Nat /\ b \in Nat /\ args \in Nat /\ Stack(grown)
            BY <1>4, <1>8, <3>2
          <5>2. Moved(grown, regs', a, b, args)
                /\ Stack(regs') /\ Top(regs') = Top(grown) /\ Agree(grown, regs', a)
            BY <2>1, <4>1, <5>1, SwapKeeps
          <5> QED
            BY <5>2 DEF Moved
      <3>5. Agree(st, regs', a)
        BY <1>8, <3>2, <3>4, AgreeChain
      <3>6. /\ DOMAIN grown = 0..Top(grown)-1 /\ DOMAIN regs' = 0..Top(grown)-1 /\ Top(grown) \in Nat
        BY <3>2, <3>4, StackTop
      <3>7. ASSUME ~overrun' PROVE b + 2 * args < Top(grown)
        BY <1>7, <2>1, <3>7 DEF SwapFits
      <3>8. ASSUME ~overrun', NEW x \in 1..args PROVE a + x \in DOMAIN regs' /\ regs'[a + x] = made'
        <4>1. a + x \in DOMAIN grown
          <5>1. a + x \in Nat /\ a + x < Top(grown)
            BY <1>4, <1>8, <3>6, <3>7, <3>8
          <5> HIDE DEF grown
          <5> QED
            BY <3>6, <5>1
        <4> QED
          BY <1>12, <3>3, <3>4, <3>6, <4>1
      <3>9. ASSUME ~overrun', NEW x \in 1..off
            PROVE  a + args + x \in DOMAIN regs' /\ regs'[a + args + x] = cur.act
        <4>1. a + args + x \in DOMAIN grown /\ x \in 1..b + args - a
          <5>1. a + args + x \in Nat /\ a + args + x < Top(grown)
            BY <1>4, <1>8, <3>6, <3>7, <3>9
          <5>2. x \in 1..b + args - a
            BY <1>4, <1>8
          <5> QED
            BY <3>6, <5>1, <5>2
        <4> QED
          BY <1>12, <3>3, <3>4, <3>6, <4>1
      <3> QED
        BY <3>4, <3>5, <3>8, <3>9
    <2>2. CASE ~Swaps(a, b, args)
      <3>1. args = 0
        BY <1>4, <1>8, <2>2 DEF Swaps
      <3>2. regs' = st
        BY <1>7, <2>2 DEF Swapped, SwapGrown
      <3>3. \A x \in 1..off : a + args + x = a + x
        BY <1>8, <3>1
      <3> QED
        <4>1. Stack(regs') /\ Agree(st, regs', a) /\ 1..args = {}
          BY <1>8, <1>11, <3>1, <3>2, AgreeSame
        <4> QED
          BY <1>12, <3>2, <3>3, <4>1
    <2> QED
      BY <2>1, <2>2
  <1> HIDE DEF grown
  <1>15. Agree(regs, regs', a)
    BY <1>8, <1>13, <1>14, AgreeChain
  <1>16. s.fp = a /\ s.live = args
    BY DEF Slot
  <1>17. here'.fp = a + args /\ here'.live = off /\ here'.size = here.size
    BY <1>7 DEF Slot
  <1> HIDE DEF s
  <1>18. Placed(calls, slots, n, a) /\ (n > 0 => Serves(calls[n], slots[n], a))
    BY <1>5, <1>a DEF Runs
  <1>19. Layout(calls, slots, n, regs')
    BY <1>4, <1>5, <1>8, <1>15, <1>18, LayoutAgree
  <1>20. /\ Len(calls') = n + 1 /\ \A j \in 1..n : calls'[j] = calls[j] /\ slots'[j] = slots[j]
         /\ calls'[n + 1] = f /\ slots'[n + 1] = s
    <2>1. calls' = Append(calls, f) /\ slots' = Append(slots, s) /\ Parallel(calls, slots)
      BY <1>3, <1>4, <1>7
    <2>2. n = Len(calls)
      BY DEF n
    <2>3. /\ Len(calls') = Len(calls) + 1
          /\ \A j \in 1..Len(calls) : calls'[j] = calls[j] /\ slots'[j] = slots[j]
          /\ calls'[Len(calls) + 1] = f /\ slots'[Len(calls) + 1] = s
      BY <2>1, PushedFrames
    <2> QED
      BY <2>2, <2>3
  <1>21. ~overrun' => Layout(calls', slots', n + 1, regs')
    <2> SUFFICES ASSUME ~overrun' PROVE Layout(calls', slots', n + 1, regs')
      OBVIOUS
    <2>1. Safe(regs', f, s) /\ Sized(f, s)
      BY <1>6, <1>14, <1>16 DEF Safe, Sized, Holds
    <2> QED
      <3>1. n > 0 => f.status \in Gone \/ Serves(calls[n], slots[n], s.fp)
        BY <1>16, <1>18
      <3>2. Placed(calls, slots, n, s.fp)
        BY <1>16, <1>18
      <3>3. Fits(calls, slots, n, f, s) /\ Pushed(calls, slots, n, calls', slots', f, s)
        BY <1>20, <3>1, <3>2 DEF Fits, Pushed
      <3> QED
        <4>1. n \in Nat
          BY <1>4
        <4> QED
          BY <1>19, <2>1, <3>3, <4>1, LayoutPush
  <1>22. Placed(calls', slots', n + 1, a + args)
    <2> SUFFICES ASSUME NEW j \in 1..n+1 PROVE Below(calls'[j], slots'[j], a + args)
      BY DEF Placed
    <2>1. CASE j = n + 1
      BY <1>4, <1>8, <1>16, <1>20, <2>1 DEF Below
    <2>2. CASE j \in 1..n
      <3>1. Placed(calls, slots, n, a + args)
        <4>1. a + args \in Nat /\ a <= a + args
          BY <1>4, <1>8
        <4> QED
          BY <1>4, <1>8, <1>18, <4>1, PlacedHigher
      <3> QED
        BY <1>20, <2>2, <3>1 DEF Placed
    <2> QED
      BY <1>4, <2>1, <2>2
  <1>23. Serves(calls'[n + 1], slots'[n + 1], a + args)
    BY <1>6, <1>20 DEF Serves
  <1>24. ~overrun' => Runs(calls', slots', n + 1, cur'.act, here', regs')
    <2> SUFFICES ASSUME ~overrun' PROVE Runs(calls', slots', n + 1, cur'.act, here', regs')
      OBVIOUS
    <2>1. Holds(regs', here', cur'.act)
      BY <1>3, <1>14, <1>17 DEF Holds
    <2>2. here'.live \in 2..here'.size
      BY <1>4, <1>17
    <2> QED
      BY <1>17, <1>22, <1>23, <2>1, <2>2 DEF Runs
  <1>25. ReturnedResult'
    BY <1>3, KeptFacts DEF ReturnedResult
  <1> QED
    BY <1>3, <1>14, <1>20, <1>21, <1>24, <1>25, RunsKept

Down(st, new, a, b, size) ==
    \A x \in 1..size : b + x \in DOMAIN st => a + x \in DOMAIN new /\ new[a + x] = st[b + x]

\* swapStack takes the registers of the stack at b to a, if there is something to swap.
LEMMA MovesDown ==
    ASSUME NEW st, Stack(st), NEW a \in Nat, NEW b \in Nat, NEW size \in Nat, a <= b,
           NEW new, new = Swapped(st, a, b, size)
    PROVE  Stack(new) /\ Top(new) = Top(st) /\ Agree(st, new, a) /\ Down(st, new, a, b, size)
  <1>1. DOMAIN st = 0..Top(st)-1 /\ Top(st) \in Nat
    BY StackTop
  <1>2. CASE Swaps(a, b, size)
    <2>1. Stack(new) /\ Top(new) = Top(st) /\ Agree(st, new, a) /\ Moved(st, new, a, b, size)
      BY <1>2, SwapKeeps
    <2>2. DOMAIN new = 0..Top(st)-1
      BY <2>1, StackTop
    <2>3. ASSUME NEW x \in 1..size, b + x \in DOMAIN st PROVE a + x \in DOMAIN new /\ new[a + x] = st[b + x]
      <3>1. a + x \in 0..Top(st)-1
        BY <1>1, <2>3
      <3> QED
        BY <1>1, <2>1, <2>2, <3>1 DEF Moved
    <2> QED
      BY <2>1, <2>3 DEF Down
  <1>3. CASE ~Swaps(a, b, size)
    <2>1. new = st
      BY <1>3 DEF Swapped
    <2>2. ASSUME NEW x \in 1..size PROVE a + x = b + x
      BY <1>3 DEF Swaps
    <2> QED
      BY <2>1, <2>2, AgreeSame DEF Down
  <1> QED
    BY <1>2, <1>3

\* The registers after a deferred call at slot a has started, above the ones of slot b.
LEMMA StartAboveKeeps ==
    ASSUME Stack(regs), NEW a \in SlotType, NEW b \in SlotType, a.fp <= b.fp, NEW act, NEW k,
           StartAbove(a, b, act, k)
    PROVE  /\ Stack(regs') /\ Agree(regs, regs', a.fp)
           /\ slots' = Append(SubSeq(slots, 1, k - 1), [b EXCEPT !.fp = a.fp])
           /\ here'.fp = a.fp + b.size /\ here'.live = 2 /\ here'.size \in Sizes
           /\ ~overrun' => Holds(regs', here', act)
           /\ \A owner : Holds(regs, b, owner) /\ b.live <= b.size
                            => Holds(regs', [b EXCEPT !.fp = a.fp], owner)
  <1>1. a.fp \in Nat /\ b.fp \in Nat /\ b.size \in Nat /\ b.live \in Nat /\ a.live \in Nat
    BY SlotFields
  <1> DEFINE st == SwapGrown(regs, a.fp, b.fp, b.size)
             mid == Swapped(st, a.fp, b.fp, b.size)
             top == a.fp + b.size
  <1>2. PICK n \in Sizes :
           /\ overrun' = ~(SwapFits(st, a.fp, b.fp, b.size) /\ Reaches(mid, top + n))
           /\ regs' = Write(mid, top, 1, n, act)
           /\ here' = [Slot(top, n, a.live) EXCEPT !.live = 2]
           /\ slots' = Append(SubSeq(slots, 1, k - 1), [b EXCEPT !.fp = a.fp])
    BY DEF StartAbove, Slot
  <1>3. Stack(st) /\ \A low \in Nat : Agree(regs, st, low)
    <2>1. b.fp + 2 * b.size \in Nat
      BY <1>1
    <2>2. CASE Swaps(a.fp, b.fp, b.size)
      BY <2>1, <2>2, GrownKeeps DEF SwapGrown
    <2>3. CASE ~Swaps(a.fp, b.fp, b.size)
      BY <2>3, AgreeSame DEF SwapGrown
    <2> QED
      BY <2>2, <2>3
  <1> HIDE DEF st
  <1>4. /\ Stack(mid) /\ Top(mid) = Top(st) /\ Agree(st, mid, a.fp)
        /\ \A x \in 1..b.size : b.fp + x \in DOMAIN st => a.fp + x \in DOMAIN mid /\ mid[a.fp + x] = st[b.fp + x]
    <2>1. mid = Swapped(st, a.fp, b.fp, b.size)
      OBVIOUS
    <2> HIDE DEF mid
    <2>2. Stack(mid) /\ Top(mid) = Top(st) /\ Agree(st, mid, a.fp) /\ Down(st, mid, a.fp, b.fp, b.size)
      BY <1>1, <1>3, <2>1, MovesDown, SMTT(40)
    <2> QED
      BY <2>2 DEF Down
  <1> HIDE DEF mid
  <1>5. n \in Nat /\ n >= 2 /\ top \in Nat /\ a.fp <= top
    BY <1>1, StackAssumption
  <1>6. here' = [fp |-> top, size |-> n, live |-> 2]
    BY <1>2 DEF Slot
  <1>7. /\ Stack(regs') /\ DOMAIN regs' = DOMAIN mid /\ Agree(mid, regs', top)
        /\ \A r \in DOMAIN mid : regs'[r] = IF r \in top + 1 .. top + n THEN act ELSE mid[r]
    <2> DEFINE new == Write(mid, top, 1, n, act)
    <2>1. 1 \in Nat /\ top < top + 1
      BY <1>5
    <2> HIDE DEF top
    <2>2. /\ Stack(new) /\ Agree(mid, new, top)
          /\ \A r \in DOMAIN mid : new[r] = IF r \in top + 1 .. top + n THEN act ELSE mid[r]
      BY <1>4, <1>5, <2>1, WriteKeeps
    <2>3. DOMAIN new = DOMAIN mid
      BY DEF Write
    <2> HIDE DEF new
    <2>4. regs' = new
      BY <1>2 DEF new
    <2> QED
      BY <2>2, <2>3, <2>4
  <1> HIDE DEF top
  <1>8. Agree(regs, regs', a.fp)
    <2>1. Agree(regs, mid, a.fp)
      BY <1>1, <1>3, <1>4, AgreeChain
    <2>2. Agree(mid, regs', a.fp)
      BY <1>1, <1>5, <1>7, AgreeLess
    <2> QED
      BY <1>1, <2>1, <2>2, AgreeChain
  <1>9. ASSUME ~overrun' PROVE Holds(regs', here', act)
    <2>1. top + n < Top(mid)
      BY <1>2, <1>9 DEF Reaches
    <2>2. DOMAIN mid = 0..Top(mid)-1 /\ Top(mid) \in Nat
      BY <1>4, StackTop
    <2> SUFFICES ASSUME NEW r \in 1..2 PROVE top + r \in DOMAIN regs' /\ regs'[top + r] = act
      BY <1>6 DEF Holds
    <2>3. top + r \in 0..Top(mid)-1 /\ top + r \in top + 1 .. top + n
      BY <1>5, <2>1, <2>2
    <2> QED
      BY <1>7, <2>2, <2>3
  <1>10. ASSUME NEW owner, Holds(regs, b, owner), b.live <= b.size
         PROVE  Holds(regs', [b EXCEPT !.fp = a.fp], owner)
    <2>1. [b EXCEPT !.fp = a.fp].fp = a.fp /\ [b EXCEPT !.fp = a.fp].live = b.live
      BY DEF SlotType
    <2> SUFFICES ASSUME NEW r \in 1..b.live PROVE a.fp + r \in DOMAIN regs' /\ regs'[a.fp + r] = owner
      BY <2>1 DEF Holds
    <2>2. b.fp + r \in DOMAIN regs /\ regs[b.fp + r] = owner
      BY <1>10 DEF Holds
    <2>3. b.fp + r \in Nat /\ r \in 1..b.size /\ a.fp + r \in Nat
      BY <1>1, <1>10
    <2>4. b.fp + r \in DOMAIN st /\ st[b.fp + r] = owner
      BY <1>3, <2>2, <2>3 DEF Agree
    <2>5. a.fp + r \in DOMAIN mid /\ mid[a.fp + r] = owner
      BY <1>4, <2>3, <2>4
    <2>6. a.fp + r <= top
      BY <1>1, <2>3 DEF top
    <2> QED
      BY <1>7, <2>3, <2>5, <2>6 DEF Agree
  <1>11. here'.fp = a.fp + b.size /\ here'.live = 2 /\ here'.size \in Sizes
    BY <1>6 DEF top
  <1> QED
    BY <1>2, <1>7, <1>8, <1>9, <1>10, <1>11

\* The deferred call at k starts; f is the frame of the function that it lay under.
LEMMA StartsAboveKept ==
    ASSUME KeptInv, OrderInv', ~overrun, phase = "next",
           NEW k \in 1..Len(calls), k <= Up, calls[k].status = "deferred",
           NEW b \in SlotType, NEW f \in Frame, f.status \in {"returned", "recovered"},
           slots[k].fp <= b.fp,
           f.status = "returned" => Holds(regs, b, f.act) /\ b.live \in 2..b.size,
           StartAbove(slots[k], b, calls[k].act, k),
           calls' = SubSeq([calls EXCEPT ![k] = f], 1, k), cur'.act = calls[k].act,
           phase' = "run", result' = result
    PROVE  KeptInv'
  <1> DEFINE n == k - 1
             s == [b EXCEPT !.fp = slots[k].fp]
             a == slots[k].fp
  <1>1. /\ Stack(regs) /\ Parallel(calls, slots) /\ Len(calls) \in Nat /\ slots[k] \in SlotType
        /\ \A j \in 1..Len(calls) : slots[j] \in SlotType
    BY KeptFacts
  <1>2. n \in Nat /\ n + 1 = k /\ n <= Len(calls) /\ n <= Up /\ Up \in Nat
    BY <1>1, KeptFacts DEF Up
  <1>3. /\ a \in Nat /\ b.size \in Nat /\ b.live \in Nat
        /\ s.fp = a /\ s.live = b.live /\ s.size = b.size
    BY <1>1, SlotFields DEF SlotType
  <1>4. /\ Stack(regs') /\ Agree(regs, regs', a)
        /\ slots' = Append(SubSeq(slots, 1, n), s)
        /\ here'.fp = a + b.size /\ here'.live = 2 /\ here'.size \in Sizes
        /\ ~overrun' => Holds(regs', here', calls[k].act)
        /\ \A owner : Holds(regs, b, owner) /\ b.live <= b.size => Holds(regs', s, owner)
    BY <1>1, StartAboveKeeps
  <1>5. calls' = Append(SubSeq(calls, 1, n), f)
    BY <1>1, PrefixWithLast DEF Parallel
  <1> HIDE DEF s
  <1>6. /\ Len(calls') = n + 1 /\ \A j \in 1..n : calls'[j] = calls[j] /\ slots'[j] = slots[j]
        /\ calls'[n + 1] = f /\ slots'[n + 1] = s
    <2>1. /\ Len(SubSeq(calls, 1, k - 1)) = k - 1 /\ Len(SubSeq(slots, 1, k - 1)) = k - 1
          /\ \A j \in 1..k-1 : SubSeq(calls, 1, k - 1)[j] = calls[j] /\ SubSeq(slots, 1, k - 1)[j] = slots[j]
          /\ SubSeq(calls, 1, k - 1) \in Seq(Frame) /\ SubSeq(slots, 1, k - 1) \in Seq(SlotType)
      BY <1>1, DroppedFrames, PrefixInOrder, PrefixOfSeq DEF Parallel
    <2> DEFINE c == SubSeq(calls, 1, k - 1)
               t == SubSeq(slots, 1, k - 1)
    <2>2. calls' = Append(c, f) /\ slots' = Append(t, s)
      BY <1>4, <1>5
    <2> HIDE DEF c, t
    <2>3. Len(c) = n /\ Len(t) = n /\ (\A j \in 1..n : c[j] = calls[j] /\ t[j] = slots[j])
          /\ c \in Seq(Frame) /\ t \in Seq(SlotType)
      BY <2>1 DEF c, t
    <2>4. Len(Append(c, f)) = n + 1 /\ Append(c, f)[n + 1] = f /\ \A j \in 1..n : Append(c, f)[j] = calls[j]
      BY <1>2, <2>3, AppendProperties
    <2>5. Append(t, s)[n + 1] = s /\ \A j \in 1..n : Append(t, s)[j] = slots[j]
      BY <1>2, <2>3, AppendProperties
    <2> QED
      BY <2>2, <2>4, <2>5
  <1>7. Layout(calls, slots, Up, regs)
    BY DEF KeptInv, Final
  <1>8. Layout(calls, slots, n, regs)
    <2>1. SameFrames(calls, slots, calls, slots, n)
      BY DEF SameFrames, SameFrame
    <2> QED
      BY <1>2, <1>7, <2>1, LayoutSame
  <1>9. Placed(calls, slots, n, a)
    BY <1>1, <1>7 DEF Layout, Stacked
  <1>10. n > 0 => Serves(calls[n], slots[n], a)
    <2> SUFFICES ASSUME n > 0 PROVE Serves(calls[n], slots[n], a)
      OBVIOUS
    <2>1. k \in 2..Up /\ k - 1 = n
      BY <1>1, <1>2
    <2>2. calls[k].status \in Gone \/ Serves(calls[k - 1], slots[k - 1], slots[k].fp)
      BY <1>7, <2>1 DEF Layout, Joined
    <2> QED
      BY <2>2 DEF Gone
  <1>11. Layout(calls, slots, n, regs')
    <2>1. \A j \in 1..n : slots[j] \in SlotType
      BY <1>1, <1>2
    <2> QED
      BY <1>2, <1>3, <1>4, <1>8, <1>9, <2>1, LayoutAgree
  <1>12. f.status = "recovered" \/ Holds(regs', s, f.act)
    BY <1>3, <1>4
  <1>13. Layout(calls', slots', n + 1, regs')
    <2>1. Safe(regs', f, s) /\ Sized(f, s)
      BY <1>3, <1>12 DEF Safe, Sized, Gone
    <2>2. Placed(calls, slots, n, s.fp) /\ (n > 0 => f.status \in Gone \/ Serves(calls[n], slots[n], s.fp))
      BY <1>3, <1>9, <1>10
    <2>3. n \in Nat
      BY <1>2
    <2> HIDE DEF n
    <2>4. Fits(calls, slots, n, f, s) /\ Pushed(calls, slots, n, calls', slots', f, s)
      BY <1>6, <2>2 DEF Fits, Pushed
    <2> QED
      BY <1>11, <2>1, <2>3, <2>4, LayoutPush
  <1>14. Placed(calls', slots', n + 1, a + b.size)
    <2> SUFFICES ASSUME NEW j \in 1..n+1 PROVE Below(calls'[j], slots'[j], a + b.size)
      BY DEF Placed
    <2>1. CASE j = n + 1
      BY <1>3, <1>6, <2>1 DEF Below, Gone
    <2>2. CASE j \in 1..n
      <3>1. Placed(calls, slots, n, a + b.size)
        <4>1. a + b.size \in Nat /\ a <= a + b.size /\ \A m \in 1..n : slots[m] \in SlotType
          BY <1>1, <1>2, <1>3
        <4> QED
          BY <1>2, <1>3, <1>9, <4>1, PlacedHigher
      <3> QED
        BY <1>6, <2>2, <3>1 DEF Placed
    <2> QED
      BY <1>2, <2>1, <2>2
  <1>15. Serves(calls'[n + 1], slots'[n + 1], a + b.size)
    BY <1>6 DEF Serves
  <1>16. ASSUME ~overrun' PROVE Runs(calls', slots', n + 1, cur'.act, here', regs')
    <2>1. Holds(regs', here', cur'.act)
      BY <1>4, <1>16
    <2>2. here'.live \in 2..here'.size
      BY <1>4, StackAssumption
    <2> QED
      BY <1>4, <1>14, <1>15, <2>1, <2>2 DEF Runs
  <1>17. ReturnedResult'
    BY KeptFacts DEF ReturnedResult
  <1> QED
    BY <1>4, <1>6, <1>13, <1>16, <1>17, RunsKept

LEMMA StackNextDeferredKept == ASSUME KeptInv, OrderInv', StackNextDeferred PROVE KeptInv'
  <1> DEFINE f == FrameOf(cur, "returned", rend)
  <1>1. /\ i \in 1..Len(calls) /\ calls[i].kind \in Scriggo /\ phase = "next" /\ ~overrun
        /\ calls[i].status = "deferred"
    BY LoopIndex DEF StackNextDeferred, NextDeferred, AtStatus, KeptInv, OrderInv, FunctionInv, ScriggoFrames
  <1>2. i = Len(calls) /\ i <= Up
    BY <1>1, KeptFacts DEF KeptInv, OrderInv, Up
  <1>3. calls' = SubSeq([calls EXCEPT ![i] = f], 1, (i + 1) - 1) /\ (i + 1) - 1 = i
    BY <1>1 DEF StackNextDeferred, NextDeferred, ContinueWith, Scriggo
  <1>4. /\ phase' = "run" /\ cur' = FunctionOf(calls[i]) /\ result' = result
        /\ StartAbove(slots[i], here, calls[i].act, i)
    BY <1>1 DEF StackNextDeferred, NextDeferred, ContinueWith, Scriggo
  <1>5. f \in Frame /\ f.status = "returned" /\ f.act = cur.act
    BY OrderFacts, FrameOfType DEF KeptInv, Statuses, FrameOf
  <1>6. Runs(calls, slots, Len(calls), cur.act, here, regs)
    BY <1>1 DEF KeptInv, AtDeferred
  <1>7. Holds(regs, here, f.act) /\ here.live \in 2..here.size
    BY <1>5, <1>6 DEF Runs
  <1>8. slots[i].fp <= here.fp
    <2>1. slots[i].fp + slots[i].live <= here.fp
      BY <1>1, <1>2, <1>6 DEF Runs, Placed, Below, Gone
    <2>2. slots[i].fp \in Nat /\ slots[i].live \in Nat /\ here.fp \in Nat
      BY <1>1, KeptFacts, SlotFields
    <2> QED
      BY <2>1, <2>2
  <1>9. cur'.act = calls[i].act
    BY <1>4 DEF FunctionOf
  <1> HIDE DEF f
  <1> QED
    BY <1>1, <1>2, <1>3, <1>4, <1>5, <1>7, <1>8, <1>9, KeptFacts, StartsAboveKept

LEMMA StackNextDeferredOfReturnedKept ==
    ASSUME KeptInv, OrderInv', StackNextDeferredOfReturned
    PROVE  KeptInv'
  <1>1. i \in 1..Len(calls) /\ i > 1 /\ calls[i] \in Frame /\ phase = "next" /\ ~overrun
        /\ calls[i].status \in {"returned", "recovered"} /\ calls[i - 1].status = "deferred"
    BY LoopIndex DEF StackNextDeferredOfReturned, NextDeferredOfReturned, MoreDeferred, AtStatus,
                     KeptInv, OrderInv, FunctionInv
  <1> DEFINE k == i - 1
  <1>2. k \in 1..Len(calls) /\ k <= Up /\ i \in 1..Up /\ k \in 1..i-1
    BY <1>1, KeptFacts DEF Up
  <1>3. calls[i - 1].kind \in Scriggo
    BY <1>2 DEF KeptInv, OrderInv, FunctionInv, ScriggoFrames
  <1>4. /\ calls' = SubSeq([calls EXCEPT ![k] = calls[i]], 1, k) /\ phase' = "run"
        /\ cur' = FunctionOf(calls[k]) /\ result' = result
        /\ StartAbove(slots[k], slots[i], calls[k].act, k)
    BY <1>3 DEF StackNextDeferredOfReturned, NextDeferredOfReturned, ContinueWith, Scriggo
  <1>5. Layout(calls, slots, Up, regs)
    BY <1>1 DEF KeptInv, Final
  <1>6. calls[i].status = "returned" => Holds(regs, slots[i], calls[i].act) /\ slots[i].live \in 2..slots[i].size
    BY <1>2, <1>5 DEF Layout, Safe, Sized, Gone
  <1>7. slots[k].fp <= slots[i].fp
    <2>1. slots[k].fp + slots[k].live <= slots[i].fp
      BY <1>1, <1>2, <1>5 DEF Layout, Stacked, Placed, Below, Gone
    <2>2. slots[k].fp \in Nat /\ slots[k].live \in Nat /\ slots[i].fp \in Nat
      BY <1>1, <1>2, KeptFacts, SlotFields
    <2> QED
      BY <2>1, <2>2
  <1>8. slots[i] \in SlotType /\ cur'.act = calls[k].act /\ calls[k].status = "deferred"
    BY <1>1, <1>4, KeptFacts DEF FunctionOf
  <1> HIDE DEF k
  <1> QED
    BY <1>1, <1>2, <1>4, <1>6, <1>7, <1>8, StartsAboveKept

Same(st, new) == DOMAIN new = DOMAIN st /\ \A r \in DOMAIN st : new[r] = st[r]

LEMMA LayoutOfSame ==
    ASSUME NEW cs, NEW sl, NEW n, NEW st, NEW new, Same(st, new), Layout(cs, sl, n, st)
    PROVE  Layout(cs, sl, n, new)
  BY DEF Same, Layout, Safe, Holds

\* A caller goes on, with its frame k the last that counts: the common part of the two ways
\* to return to one.
LEMMA CallerGoesOn ==
    ASSUME KeptInv, OrderInv', ~overrun, phase \notin Final, NEW k \in 1..Len(calls), k <= Up,
           calls[k].status = "started", cur'.act = calls[k].act, phase' = "run",
           calls' = SubSeq(calls, 1, k - 1), slots' = SubSeq(slots, 1, k - 1),
           here' = slots[k], Same(regs, regs'), ReturnedResult'
    PROVE  KeptInv'
  <1>1. /\ Stack(regs) /\ Parallel(calls, slots) /\ Up \in Nat /\ k \in 1..Up
        /\ Layout(calls, slots, Up, regs') /\ Stack(regs')
    <2>1. Stack(regs) /\ Parallel(calls, slots) /\ Up \in Nat /\ k \in 1..Up
          /\ Layout(calls, slots, Up, regs)
      BY KeptFacts DEF KeptInv, Up
    <2>2. Stack(regs')
      BY <2>1 DEF Stack, Same
    <2> QED
      BY <2>1, <2>2, LayoutOfSame
  <1> DEFINE n == k - 1
  <1>2. /\ n \in Nat /\ Len(calls') = n /\ n <= Up
        /\ \A j \in 1..n : calls'[j] = calls[j] /\ slots'[j] = slots[j]
        /\ SameFrames(calls, slots, calls', slots', n)
    BY <1>1, DroppedFrames
  <1>3. Layout(calls', slots', n, regs')
    BY <1>1, <1>2, LayoutSame
  <1>4. Holds(regs', here', cur'.act) /\ here'.live \in 2..here'.size
    BY <1>1 DEF Layout, Safe, Sized, Gone
  <1>5. Placed(calls', slots', n, here'.fp)
    <2>1. Placed(calls, slots, n, slots[k].fp)
      BY <1>1 DEF Layout, Stacked
    <2> QED
      BY <1>2, <2>1, PlacedSame
  <1>6. n > 0 => Serves(calls'[n], slots'[n], here'.fp)
    <2> SUFFICES ASSUME n > 0 PROVE Serves(calls'[n], slots'[n], here'.fp)
      OBVIOUS
    <2>1. k \in 2..Up /\ n \in 1..n
      BY <1>1, <1>2
    <2>2. Serves(calls[k - 1], slots[k - 1], slots[k].fp)
      BY <1>1, <2>1 DEF Layout, Joined, Gone
    <2> QED
      BY <1>2, <2>1, <2>2
  <1>7. Runs(calls', slots', n, cur'.act, here', regs')
    BY <1>4, <1>5, <1>6 DEF Runs
  <1> QED
    BY <1>1, <1>2, <1>3, <1>7, RunsKept

\* A function that has a captured result copies it to the register where it already is.
LEMMA FinalizedSame ==
    ASSUME NEW st, NEW s \in SlotType, NEW act, Holds(st, s, act), s.live >= 2, NEW captured
    PROVE  Same(st, Finalized(st, s.fp, captured))
  <1>1. s.fp \in Nat /\ s.live \in Nat
    BY SlotFields
  <1>2. s.fp + 1 \in DOMAIN st /\ st[s.fp + 1] = act /\ st[s.fp + 2] = act
    <2>1. 1 \in 1..s.live /\ 2 \in 1..s.live
      BY <1>1
    <2> QED
      BY <2>1 DEF Holds
  <1> QED
    BY <1>2 DEF Finalized, Same

LEMMA StackReturnKept == ASSUME KeptInv, OrderInv', StackReturn PROVE KeptInv'
  <1> DEFINE n == Len(calls)
  <1>1. /\ phase \in {"run", "return"} /\ ~overrun /\ phase' = "run" /\ calls # <<>>
        /\ calls[n].status = "started" /\ cur' = FunctionOf(calls[n])
        /\ calls' = SubSeq(calls, 1, n - 1)
    BY DEF StackReturn, ReturnToCaller, Returning, Last
  <1>2. n \in 1..n /\ n <= Up /\ phase \notin Final /\ Len(slots) = n
    BY <1>1, KeptFacts, EmptySeq DEF Up, Final, Parallel
  <1>3. PICK captured \in BOOLEAN : Continue(slots[n], Finalized(regs, here.fp, captured), cur.act, FALSE)
    BY <1>2 DEF StackReturn
  <1>4. slots' = SubSeq(slots, 1, n - 1)
    BY <1>2 DEF StackReturn
  <1>5. Runs(calls, slots, n, cur.act, here, regs)
    BY <1>1 DEF KeptInv
  <1>6. here.fp \in Nat /\ here.live \in Nat /\ here.size \in Nat
    BY KeptFacts, SlotFields
  <1>7. Same(regs, Finalized(regs, here.fp, captured))
    <2>1. Holds(regs, here, cur.act) /\ here.live >= 2
      BY <1>5, <1>6 DEF Runs
    <2>2. here \in SlotType
      BY KeptFacts
    <2> QED
      BY <2>1, <2>2, FinalizedSame
  <1>8. /\ regs' = Finalized(regs, here.fp, captured) /\ here' = slots[n]
        /\ result' = [want |-> cur.act, have |-> regs'[slots[n].fp + slots[n].live + 1], recovered |-> FALSE]
    BY <1>3 DEF Continue
  <1>9. ReturnedResult'
    <2>1. here.fp = slots[n].fp + slots[n].live
      BY <1>1, <1>2, <1>5 DEF Runs, Serves
    <2>2. 1 \in 1..here.live
      BY <1>5, <1>6 DEF Runs
    <2>3. here.fp + 1 \in DOMAIN regs /\ regs[here.fp + 1] = cur.act
      BY <1>5, <2>2 DEF Runs, Holds
    <2>4. regs'[slots[n].fp + slots[n].live + 1] = cur.act
      BY <1>7, <1>8, <2>1, <2>3 DEF Same
    <2> QED
      BY <1>8, <2>4 DEF ReturnedResult
  <1>10. cur'.act = calls[n].act /\ Same(regs, regs')
    BY <1>1, <1>7, <1>8 DEF FunctionOf
  <1> HIDE DEF n
  <1> QED
    BY <1>1, <1>2, <1>4, <1>8, <1>9, <1>10, CallerGoesOn DEF n

LEMMA StackNextStartedKept == ASSUME KeptInv, OrderInv', StackNextStarted PROVE KeptInv'
  <1>1. /\ i \in 1..Len(calls) /\ calls[i].kind \in Scriggo /\ phase = "next" /\ ~overrun
        /\ calls[i].status = "started"
    BY LoopIndex DEF StackNextStarted, NextStarted, AtStatus, KeptInv, OrderInv, FunctionInv, ScriggoFrames
  <1>2. /\ calls' = SubSeq(calls, 1, i - 1) /\ slots' = SubSeq(slots, 1, i - 1)
        /\ phase' = "run" /\ cur' = FunctionOf(calls[i]) /\ here' = slots[i] /\ regs' = regs
        /\ result' = [want |-> calls[i + 1].act, have |-> regs[slots[i].fp + slots[i].live + 1],
                      recovered |-> calls[i + 1].status = "recovered"]
    BY <1>1 DEF StackNextStarted, NextStarted, ContinueWith, Continue, Scriggo
  <1>3. i < Len(calls) /\ calls[i + 1].status \in {"returned", "recovered"}
    BY <1>1, KeptFacts DEF LoopSees
  <1>4. Up = i + 1 /\ i + 1 \in 2..Up /\ i + 1 \in 1..Up /\ (i + 1) - 1 = i /\ i <= Up
    BY <1>1, <1>3 DEF Up
  <1>5. Layout(calls, slots, Up, regs) /\ phase \notin Final
    BY <1>1 DEF KeptInv, Final
  <1>6. ReturnedResult'
    <2>1. CASE calls[i + 1].status = "recovered"
      BY <1>2, <2>1 DEF ReturnedResult
    <2>2. CASE calls[i + 1].status = "returned"
      <3>1. slots[i + 1].fp = slots[i].fp + slots[i].live
        BY <1>1, <1>4, <1>5, <2>2 DEF Layout, Joined, Serves, Gone
      <3>2. Holds(regs, slots[i + 1], calls[i + 1].act) /\ slots[i + 1].live \in 2..slots[i + 1].size
        BY <1>4, <1>5, <2>2 DEF Layout, Safe, Sized, Gone
      <3>3. 1 \in 1..slots[i + 1].live
        BY <3>2
      <3>4. regs[slots[i + 1].fp + 1] = calls[i + 1].act
        BY <3>2, <3>3 DEF Holds
      <3> QED
        BY <1>2, <3>1, <3>4 DEF ReturnedResult
    <2> QED
      BY <1>3, <2>1, <2>2
  <1>7. cur'.act = calls[i].act /\ Same(regs, regs')
    BY <1>2 DEF FunctionOf, Same
  <1> QED
    BY <1>1, <1>2, <1>4, <1>5, <1>6, <1>7, CallerGoesOn

\* The frame of a panic has no registers that count.
LEMMA StackPanicKept == ASSUME KeptInv, OrderInv', StackPanic PROVE KeptInv'
  <1> DEFINE n == Len(calls)
             f == [FrameOf(cur, "panicked", rend) EXCEPT !.why = thrown']
  <1>1. phase = "run" /\ ~overrun /\ regs' = regs /\ result' = result
    BY DEF StackPanic, OpPanic, Executes
  <1>2. Stack(regs') /\ ReturnedResult'
    BY <1>1, KeptFacts DEF ReturnedResult
  <1>3. CASE calls = <<>>
    BY <1>2, <1>3 DEF StackPanic, OpPanic, PushesPanicked, KeptInv, LoopSees, Final, AtDeferred
  <1>4. CASE calls # <<>>
    <2>1. /\ calls' = Append(calls, f) /\ slots' = Append(slots, here)
          /\ i' = Len(calls') /\ phase' = "next"
      BY <1>4 DEF StackPanic, OpPanic, PushesPanicked
    <2>2. f.status = "panicked"
      BY DEF FrameOf
    <2> HIDE DEF f
    <2>3. n \in Nat /\ Parallel(calls, slots)
      BY KeptFacts
    <2>4. /\ Len(calls') = Len(calls) + 1
          /\ \A j \in 1..Len(calls) : calls'[j] = calls[j] /\ slots'[j] = slots[j]
          /\ calls'[Len(calls) + 1] = f /\ slots'[Len(calls) + 1] = here
      BY <2>1, <2>3, PushedFrames
    <2>5. Pushed(calls, slots, n, calls', slots', f, here) /\ Len(calls') = n + 1 /\ calls'[n + 1] = f
      BY <2>4 DEF Pushed
    <2>6. Layout(calls, slots, n, regs) /\ Placed(calls, slots, n, here.fp)
      BY <1>1 DEF KeptInv, Up, Final, Runs
    <2>7. Fits(calls, slots, n, f, here) /\ Safe(regs, f, here) /\ Sized(f, here)
      BY <2>2, <2>6 DEF Fits, Safe, Sized, Gone
    <2> HIDE DEF n
    <2>8. Layout(calls', slots', n + 1, regs)
      BY <2>3, <2>5, <2>6, <2>7, LayoutPush
    <2>9. Up' = n + 1 /\ i' = n + 1 /\ ~AtDeferred' /\ LoopSees'
      BY <2>1, <2>2, <2>3, <2>5 DEF Up, AtDeferred, LoopSees
    <2> QED
      BY <1>1, <1>2, <2>1, <2>8, <2>9 DEF KeptInv
  <1> QED
    BY <1>3, <1>4

LEMMA StackSameKept == ASSUME KeptInv, OrderInv', StackSame PROVE KeptInv'
  <1>1. UNCHANGED <<regs, here, slots, overrun, result>> /\ ~overrun
    BY DEF StackSame, svars
  <1>2. Stack(regs') /\ ReturnedResult'
    BY <1>1, KeptFacts DEF ReturnedResult
  <1>3. CASE OpRecover
    <2>1. phase = "run" /\ phase' = "run" /\ cur' = cur
      BY <1>3 DEF OpRecover, Executes
    <2>2. PICK found : found = Recoverable(Len(calls)) /\ RecoverFrames(found)
      BY <1>3 DEF OpRecover
    <2>3. Len(calls') = Len(calls) /\ Len(calls) \in Nat /\ calls \in Seq(Frame)
      BY <2>2, RecoverPreserves, KeptFacts DEF OrderInv, FunctionInv, SafeInv, TypeOK
    <2>4. SameFrames(calls, slots, calls', slots', Len(calls))
      <3>1. ASSUME NEW j \in 1..Len(calls) PROVE SameFrame(calls[j], calls'[j])
        <4>1. calls[j] \in Frame /\ DOMAIN calls = 1..Len(calls)
          BY <2>3, ElementOfSeq, LenProperties
        <4>2. CASE j \in found
          <5>1. calls[j].status = "panicked"
            BY <2>2, <4>2 DEF Recoverable
          <5>2. calls'[j].status = "recovered"
            BY <2>2, <4>1, <4>2 DEF RecoverFrames, Frame
          <5> QED
            BY <5>1, <5>2 DEF SameFrame, Gone
        <4>3. CASE j \notin found
          BY <2>2, <4>1, <4>3 DEF RecoverFrames, SameFrame
        <4> QED
          BY <4>2, <4>3
      <3> QED
        BY <1>1, <3>1 DEF SameFrames
    <2>5. Layout(calls, slots, Len(calls), regs) /\ Runs(calls, slots, Len(calls), cur.act, here, regs)
      BY <1>1, <2>1 DEF KeptInv, Up, Final
    <2>6. Layout(calls', slots', Len(calls'), regs')
      BY <1>1, <2>3, <2>4, <2>5, LayoutSame
    <2>7. Runs(calls', slots', Len(calls'), cur'.act, here', regs')
      <3>1. Placed(calls', slots', Len(calls'), here'.fp)
        BY <1>1, <2>3, <2>4, <2>5, PlacedSame DEF Runs
      <3>2. Len(calls') > 0 => Serves(calls'[Len(calls')], slots'[Len(calls')], here'.fp)
        BY <1>1, <2>3, <2>4, <2>5 DEF Runs, SameFrames, SameFrame, Serves, Gone
      <3> QED
        BY <1>1, <2>1, <2>5, <3>1, <3>2 DEF Runs
    <2> QED
      BY <1>2, <2>1, <2>6, <2>7, RunsKept
  <1>4. CASE ReturnFromMain \/ NextNone
    BY <1>2, <1>4 DEF ReturnFromMain, NextNone, KeptInv, LoopSees, Final, AtDeferred
  <1>5. CASE ReturnToNextCall
    <2>1. /\ phase \in {"run", "return"} /\ phase' = "next" /\ i' = Len(calls) /\ calls' = calls /\ cur' = cur
          /\ calls # <<>> /\ calls[Len(calls)].status # "started"
      BY <1>5 DEF ReturnToNextCall, Returning, Last
    <2>2. Len(calls) \in Nat /\ Len(calls) > 0
      BY <2>1, KeptFacts, EmptySeq DEF Parallel
    <2>3. Up' = Len(calls) /\ Up = Len(calls) /\ LoopSees'
      BY <2>1, <2>2 DEF Up, LoopSees
    <2>4. Layout(calls, slots, Len(calls), regs) /\ Runs(calls, slots, Len(calls), cur.act, here, regs)
      BY <1>1, <2>1, <2>3 DEF KeptInv, Final
    <2> QED
      BY <1>1, <1>2, <2>1, <2>3, <2>4 DEF KeptInv
  <1> QED
    BY <1>3, <1>4, <1>5 DEF StackSame

\* The loop leaves a finalized frame: only the result of one that recovered may change.
LEMMA StackNextFinalizedKept == ASSUME KeptInv, OrderInv', StackNextFinalized PROVE KeptInv'
  <1> DEFINE n == i - 1
  <1>1. /\ i \in 1..Len(calls) /\ calls[i].status \in {"returned", "recovered"}
        /\ phase = "next" /\ ~overrun
    BY LoopIndex DEF StackNextFinalized, NextFinalized, AtStatus, KeptInv, OrderInv, FunctionInv
  <1>2. /\ calls' = calls /\ slots' = slots /\ here' = here /\ result' = result /\ phase' = "next"
        /\ i' = n /\ ~(i > 1 /\ calls[n].status = "deferred")
    BY <1>1 DEF StackNextFinalized, NextFinalized, MoreDeferred
  <1>3. PICK captured \in BOOLEAN : regs' = Finalized(regs, slots[i].fp, captured)
    BY DEF StackNextFinalized
  <1>4. /\ Stack(regs) /\ Len(calls) \in Nat /\ i \in Nat /\ n \in Nat /\ n + 1 = i /\ n <= Up
        /\ i \in 1..Up /\ Up \in Nat /\ slots[i] \in SlotType /\ \A j \in 1..n : slots[j] \in SlotType
    BY <1>1, KeptFacts DEF Up
  <1>5. Layout(calls, slots, Up, regs)
    BY <1>1 DEF KeptInv, Final
  <1>6. Stack(regs')
    <2>1. DOMAIN regs' = DOMAIN regs
      BY <1>3 DEF Finalized
    <2> QED
      BY <1>4, <2>1 DEF Stack
  <1>7. Layout(calls, slots, i, regs')
    <2>1. CASE calls[i].status = "returned"
      <3>1. Holds(regs, slots[i], calls[i].act) /\ slots[i].live \in 2..slots[i].size
        BY <1>4, <1>5, <2>1 DEF Layout, Safe, Sized, Gone
      <3>2. slots[i].live >= 2
        BY <1>4, <3>1, SlotFields
      <3>3. Same(regs, regs')
        BY <1>3, <1>4, <3>1, <3>2, FinalizedSame
      <3>4. Layout(calls, slots, i, regs)
        <4>1. SameFrames(calls, slots, calls, slots, i) /\ i <= Up
          BY <1>4 DEF SameFrames, SameFrame
        <4> QED
          BY <1>4, <1>5, <4>1, LayoutSame
      <3> QED
        BY <3>3, <3>4, LayoutOfSame
    <2>2. CASE calls[i].status = "recovered"
      <3>1. Layout(calls, slots, n, regs)
        <4>1. SameFrames(calls, slots, calls, slots, n)
          BY DEF SameFrames, SameFrame
        <4> QED
          BY <1>4, <1>5, <4>1, LayoutSame
      <3>2. Placed(calls, slots, n, slots[i].fp) /\ slots[i].fp \in Nat
        BY <1>4, <1>5, SlotFields DEF Layout, Stacked
      <3>3. Agree(regs, regs', slots[i].fp)
        <4>1. DOMAIN regs' = DOMAIN regs /\ \A r \in DOMAIN regs : r # slots[i].fp + 1 => regs'[r] = regs[r]
          BY <1>3 DEF Finalized
        <4>2. \A r \in Nat : r <= slots[i].fp => r # slots[i].fp + 1
          BY <3>2
        <4> QED
          BY <4>1, <4>2 DEF Agree
      <3> HIDE DEF n
      <3>4. Layout(calls, slots, n, regs')
        BY <1>4, <3>1, <3>2, <3>3, LayoutAgree
      <3> DEFINE f == calls[i]
                 s == slots[i]
      <3>5. Fits(calls, slots, n, f, s) /\ Safe(regs', f, s) /\ Sized(f, s)
        BY <2>2, <3>2 DEF Fits, Safe, Sized, Gone
      <3>6. Pushed(calls, slots, n, calls, slots, f, s)
        BY <1>4 DEF Pushed
      <3> HIDE DEF f, s
      <3>7. Layout(calls, slots, n + 1, regs')
        BY <1>4, <3>4, <3>5, <3>6, LayoutPush
      <3> QED
        BY <1>4, <3>7
    <2> QED
      BY <1>1, <2>1, <2>2
  <1>8. i' < Len(calls') /\ i' + 1 = i
    BY <1>1, <1>2, <1>4
  <1>9. Up' = i /\ LoopSees' /\ ~AtDeferred'
    <2>1. calls'[i' + 1] = calls[i]
      BY <1>2, <1>8
    <2>2. Up' = i /\ LoopSees'
      BY <1>1, <1>2, <1>8, <2>1 DEF Up, LoopSees
    <2>3. ~AtDeferred'
      BY <1>2, <1>4 DEF AtDeferred
    <2> QED
      BY <2>2, <2>3
  <1>10. ReturnedResult'
    BY <1>2, KeptFacts DEF ReturnedResult
  <1> QED
    BY <1>2, <1>6, <1>7, <1>9, <1>10 DEF KeptInv

\* A deferred call starts where its arguments are, above a frame that panicked.
LEMMA StackNextPanickedKept == ASSUME KeptInv, OrderInv', StackNextPanicked PROVE KeptInv'
  <1>1. i \in 1..Len(calls) /\ calls[i] \in Frame /\ phase = "next" /\ ~overrun
    BY LoopIndex DEF StackNextPanicked, NextPanicked, AtStatus, KeptInv, OrderInv, FunctionInv
  <1>2. PICK k \in 1..i-1 :
           /\ calls[k].status = "deferred"
           /\ ContinueWith(calls[k], IF calls[k].kind = "native" THEN k ELSE k + 1,
                 [calls EXCEPT ![k] = [calls[k + 1] EXCEPT !.status = "panicked",
                                                           !.why = calls[i].why]])
    BY DEF StackNextPanicked, NextPanicked
  <1> DEFINE f == [calls[k + 1] EXCEPT !.status = "panicked", !.why = calls[i].why]
             n == k - 1
             p == SubSeq(calls, 1, n)
             q == SubSeq(slots, 1, n)
             s == slots[k + 1]
             low == slots[k]
  <1>3. /\ k \in 1..Len(calls) /\ k + 1 \in 1..Len(calls) /\ (k + 1) - 1 = k /\ k \in Nat
        /\ n \in Nat /\ n + 1 = k /\ k + 1 <= i /\ Parallel(calls, slots) /\ Stack(regs)
        /\ calls[k + 1] \in Frame /\ s \in SlotType /\ low \in SlotType
        /\ \A j \in 1..Len(calls) : slots[j] \in SlotType
    BY <1>1, <1>2, KeptFacts, OrderFacts
  <1>4. calls[k].kind \in Scriggo
    BY <1>3 DEF KeptInv, OrderInv, FunctionInv, ScriggoFrames
  <1>5. calls' = SubSeq([calls EXCEPT ![k] = f], 1, k) /\ phase' = "run" /\ cur' = FunctionOf(calls[k])
    BY <1>2, <1>3, <1>4 DEF ContinueWith, Scriggo
  <1>6. f \in Frame /\ f.status = "panicked"
    BY <1>1, <1>3 DEF Frame, Statuses
  <1> HIDE DEF f
  <1>7. calls' = Append(p, f)
    BY <1>3, <1>5, <1>6, PrefixWithLast DEF Parallel
  <1>8. /\ Len(p) = n /\ Len(q) = n /\ p \in Seq(Frame) /\ q \in Seq(SlotType)
        /\ \A j \in 1..n : p[j] = calls[j] /\ q[j] = slots[j]
    BY <1>3, DroppedFrames, PrefixInOrder DEF Parallel
  <1> HIDE DEF p, q
  <1>9. Len(calls') = n + 1 /\ calls'[n + 1] = f /\ \A j \in 1..n : calls'[j] = calls[j]
    BY <1>3, <1>6, <1>7, <1>8, AppendProperties
  <1>10. /\ slots' = Append(q, s)
         /\ \E m \in Sizes : m >= low.live /\ Start(regs, [low EXCEPT !.size = m], calls[k].act)
    BY <1>3, <1>9 DEF StackNextPanicked, q
  <1>11. slots'[n + 1] = s /\ \A j \in 1..n : slots'[j] = slots[j]
    BY <1>3, <1>8, <1>10, AppendProperties
  <1>12. PICK m \in Sizes : Start(regs, [low EXCEPT !.size = m], calls[k].act)
    BY <1>10
  <1> DEFINE slot == [low EXCEPT !.size = m]
  <1>13. slot \in SlotType /\ slot.fp = low.fp /\ slot.size = m /\ slot.size >= 2 /\ low.fp \in Nat
         /\ low.live \in Nat
    BY <1>3, StackAssumption DEF SlotType
  <1> HIDE DEF slot
  <1>14. /\ Stack(regs') /\ Agree(regs, regs', slot.fp) /\ here' = [slot EXCEPT !.live = 2]
         /\ ~overrun' => Holds(regs', here', calls[k].act)
    BY <1>3, <1>12, <1>13, StartKeeps DEF slot
  <1>15. here'.fp = low.fp /\ here'.live = 2 /\ here'.size = m
    BY <1>13, <1>14 DEF SlotType
  <1>16. Layout(calls, slots, Up, regs) /\ k \in 1..Up /\ k + 1 \in 1..Up /\ n <= Up /\ Up \in Nat
         /\ (n > 0 => k \in 2..Up)
    BY <1>1, <1>3, KeptFacts DEF KeptInv, Final, Up
  <1>17. Placed(calls, slots, n, low.fp) /\ Placed(calls, slots, n, s.fp)
    <2>1. Placed(calls, slots, k - 1, slots[k].fp) /\ Placed(calls, slots, (k + 1) - 1, slots[k + 1].fp)
      BY <1>16 DEF Layout, Stacked
    <2>2. Placed(calls, slots, k, s.fp)
      BY <1>3, <2>1
    <2> QED
      BY <1>3, <2>1, <2>2 DEF Placed
  <1>18. n > 0 => Serves(calls[n], slots[n], low.fp)
    BY <1>2, <1>16 DEF Layout, Joined, Gone
  <1>19. Layout(calls, slots, n, regs)
    <2>1. SameFrames(calls, slots, calls, slots, n)
      BY DEF SameFrames, SameFrame
    <2> QED
      BY <1>3, <1>16, <2>1, LayoutSame
  <1>20. \A j \in 1..n : slots[j] \in SlotType
    BY <1>3
  <1> HIDE DEF n, s, low
  <1>21. Layout(calls, slots, n, regs')
    BY <1>3, <1>13, <1>14, <1>17, <1>19, <1>20, LayoutAgree
  <1>22. Layout(calls', slots', n + 1, regs')
    <2>1. Fits(calls, slots, n, f, s) /\ Safe(regs', f, s) /\ Sized(f, s)
      BY <1>6, <1>17 DEF Fits, Safe, Sized, Gone
    <2>2. Pushed(calls, slots, n, calls', slots', f, s)
      BY <1>9, <1>11 DEF Pushed
    <2> QED
      BY <1>3, <1>21, <2>1, <2>2, LayoutPush
  <1>23. Placed(calls', slots', n + 1, low.fp)
    <2> SUFFICES ASSUME NEW j \in 1..n+1 PROVE Below(calls'[j], slots'[j], low.fp)
      BY DEF Placed
    <2>1. CASE j = n + 1
      BY <1>6, <1>9, <2>1 DEF Below, Gone
    <2>2. CASE j \in 1..n
      BY <1>9, <1>11, <1>17, <2>2 DEF Placed
    <2> QED
      BY <1>3, <2>1, <2>2
  <1>24. Serves(calls'[n + 1], slots'[n + 1], low.fp)
    BY <1>6, <1>9 DEF Serves
  <1>25. ASSUME ~overrun' PROVE Runs(calls', slots', n + 1, cur'.act, here', regs')
    <2>1. Holds(regs', here', cur'.act)
      BY <1>5, <1>14, <1>25 DEF FunctionOf
    <2>2. here'.live \in 2..here'.size
      BY <1>15, StackAssumption
    <2> QED
      BY <1>15, <1>23, <1>24, <2>1, <2>2 DEF Runs
  <1>26. ReturnedResult'
    <2>1. result' = result
      BY DEF StackNextPanicked
    <2> QED
      BY <2>1, KeptFacts DEF ReturnedResult
  <1> QED
    BY <1>5, <1>9, <1>14, <1>22, <1>25, <1>26, RunsKept

LEMMA KeptStep == ASSUME KeptInv, [StackNext]_<<vars, svars>> PROVE KeptInv'
  <1>1. OrderInv'
    BY KeptFacts, OrderStep
  <1>2. CASE StackCallFunc \/ StackDefer
    BY <1>1, <1>2, StackCallFuncKept, StackDeferKept
  <1>3. CASE StackPanic \/ StackSame
    BY <1>1, <1>3, StackPanicKept, StackSameKept
  <1>4. CASE StackReturn \/ StackNextStarted
    BY <1>1, <1>4, StackReturnKept, StackNextStartedKept
  <1>5. CASE StackNextDeferred \/ StackNextDeferredOfReturned
    BY <1>1, <1>5, StackNextDeferredKept, StackNextDeferredOfReturnedKept
  <1>6. CASE StackNextPanicked \/ StackNextFinalized
    BY <1>1, <1>6, StackNextPanickedKept, StackNextFinalizedKept
  <1>7. CASE StackWrite
    <2>1. /\ UNCHANGED <<calls, phase, i, regs, result>> /\ overrun' /\ OrderInv'
      BY <1>1, <1>7 DEF StackWrite, vars
    <2>2. LoopSees' /\ ReturnedResult' /\ Stack(regs')
      BY <2>1, KeptFacts DEF LoopSees, ReturnedResult
    <2> QED
      BY <2>1, <2>2 DEF KeptInv
  <1>8. CASE StackEnded \/ UNCHANGED <<vars, svars>>
    <2>1. UNCHANGED <<vars, svars>>
      BY <1>8 DEF StackEnded
    <2>2. UNCHANGED <<calls, cur, phase, i, regs, here, slots, overrun, result>>
      BY <2>1 DEF vars, svars
    <2> QED
      BY <1>1, <2>2 DEF KeptInv, LoopSees, ReturnedResult, Up, AtDeferred
  <1> QED
    BY <1>2, <1>3, <1>4, <1>5, <1>6, <1>7, <1>8 DEF StackNext

\* The registers that a function needs are as it left them when it runs again: no call,
\* deferred call, return, swap of the stacks or growth of the stack loses one, whatever the
\* sizes of the functions and of the stack.
THEOREM RegistersAlwaysKept == StackSpec => []RegistersKept
  <1>1. KeptInv => RegistersKept
    <2> SUFFICES ASSUME KeptInv, Running PROVE RegistersKept
      BY DEF RegistersKept
    <2>1. phase \in {"run", "return"} /\ ~overrun
      BY DEF Running
    <2>2. Layout(calls, slots, Len(calls), regs) /\ Holds(regs, here, cur.act)
      BY <2>1 DEF KeptInv, Up, Final, Runs
    <2>3. DOMAIN calls = 1..Len(calls)
      BY KeptFacts, LenProperties DEF Parallel
    <2>4. ASSUME NEW j \in DOMAIN calls, calls[j].status \in {"started", "deferred"}
          PROVE  Holds(regs, slots[j], calls[j].act)
      BY <2>2, <2>3, <2>4 DEF Layout, Safe, Gone
    <2>5. ASSUME NEW j \in DOMAIN calls, calls[j].status = "returned"
          PROVE  Holds(regs, [slots[j] EXCEPT !.live = 2], calls[j].act)
      <3>1. Holds(regs, slots[j], calls[j].act) /\ slots[j].live \in 2..slots[j].size
        BY <2>2, <2>3, <2>5 DEF Layout, Safe, Sized, Gone
      <3>2. slots[j] \in SlotType
        BY <2>3, KeptFacts
      <3>3. [slots[j] EXCEPT !.live = 2].fp = slots[j].fp /\ [slots[j] EXCEPT !.live = 2].live = 2
        BY <3>2 DEF SlotType
      <3>4. slots[j].size \in Nat /\ \A r \in 1..2 : r \in 1..slots[j].live
        BY <3>1, <3>2, SlotFields
      <3> QED
        BY <3>1, <3>3, <3>4 DEF Holds
    <2> QED
      BY <2>2, <2>4, <2>5 DEF RegistersKept
  <1> QED
    BY <1>1, KeptInit, KeptStep, PTL DEF StackSpec

\* A caller finds the result of a function that returned where it looks for it, after any
\* number of deferred calls moved the frame of that function.
THEOREM ResultAlwaysReturned == StackSpec => []ReturnedResult
  <1>1. KeptInv => ReturnedResult
    BY DEF KeptInv
  <1> QED
    BY <1>1, KeptInit, KeptStep, PTL DEF StackSpec
===============================================================================
