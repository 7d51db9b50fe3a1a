---------------------------- MODULE VMCalls_proofs ----------------------------
(***************************************************************************)
(* Proofs about VMCalls, for every program and without its bounds playing  *)
(* any role; and that it implements GoDefer, as VMCallsRefines maps it.    *)
(***************************************************************************)
EXTENDS VMCallsRefines, SequenceTheorems, FiniteSetTheorems, WellFoundedInduction, TLAPS

-----------------------------------------------------------------------------
(***************************************************************************)
(* Sequences of frames.                                                    *)
(***************************************************************************)

\* A prefix of vm.calls, as nextCall leaves it (vm.calls[:k]).
LEMMA PrefixOfSeq ==
    ASSUME NEW S, NEW s \in Seq(S), NEW k \in 1..Len(s) + 1
    PROVE  /\ SubSeq(s, 1, k - 1) \in Seq(S)
           /\ Len(SubSeq(s, 1, k - 1)) = k - 1
           /\ \A j \in 1..k-1 : SubSeq(s, 1, k - 1)[j] = s[j]
  <1>1. 1 \in 1..Len(s) + 1 /\ k - 1 \in 0..Len(s)
    BY LenProperties
  <1>2. \A j \in 1..k-1 : s[j] \in S
    BY <1>1, LenProperties, ElementOfSeq
  <1> QED
    BY <1>1, <1>2, SubSeqProperties

\* Replacing one frame.
LEMMA ReplaceInSeq ==
    ASSUME NEW S, NEW s \in Seq(S), NEW k \in 1..Len(s), NEW e \in S
    PROVE  /\ [s EXCEPT ![k] = e] \in Seq(S)
           /\ Len([s EXCEPT ![k] = e]) = Len(s)
           /\ \A j \in 1..Len(s) : [s EXCEPT ![k] = e][j] = IF j = k THEN e ELSE s[j]
  BY ExceptSeq, LenProperties

\* A function on the indices of a sequence is a sequence of the same length.
LEMMA FunctionIsSeq ==
    ASSUME NEW S, NEW n \in Nat, NEW f \in [1..n -> S]
    PROVE  f \in Seq(S) /\ Len(f) = n
  OBVIOUS

-----------------------------------------------------------------------------
(***************************************************************************)
(* The frames that actions build.                                          *)
(***************************************************************************)
Fn == [act : Nat, kind : Kinds]

LEMMA FrameOfType ==
    ASSUME NEW fn \in Fn, NEW st \in Statuses, NEW r \in Nat
    PROVE  /\ FrameOf(fn, st, r) \in Frame
           /\ FrameOf(fn, st, r).status = st
  BY DEF Fn, FrameOf, Frame

LEMMA FunctionOfType ==
    ASSUME NEW f \in Frame
    PROVE  FunctionOf(f) \in Fn
  BY DEF FunctionOf, Frame, Fn

LEMMA NilType == Nil \in Fn
  BY DEF Nil, Fn, Kinds

\* Some frame of cs is panicked.
HasPanicked(cs) == \E j \in 1..Len(cs) : cs[j].status = "panicked"

LEMMA PanickedIsHasPanicked ==
    ASSUME calls \in Seq(Frame)
    PROVE  HasPanicked(calls) <=> Panicked # {}
  BY LenProperties DEF HasPanicked, Panicked

LEMMA AppendHasPanicked ==
    ASSUME NEW cs \in Seq(Frame), NEW f \in Frame, f.status # "panicked",
           HasPanicked(Append(cs, f))
    PROVE  HasPanicked(cs)
  <1>1. PICK j \in 1..Len(cs) + 1 : Append(cs, f)[j].status = "panicked"
    BY AppendProperties DEF HasPanicked
  <1>2. j \in 1..Len(cs)
    BY <1>1, AppendProperties
  <1> QED
    BY <1>1, <1>2, AppendProperties DEF HasPanicked

LEMMA PrefixHasPanicked ==
    ASSUME NEW cs \in Seq(Frame), NEW k \in 1..Len(cs) + 1,
           HasPanicked(SubSeq(cs, 1, k - 1))
    PROVE  HasPanicked(cs)
  <1>1. Len(cs) \in Nat
    BY LenProperties
  <1> QED
    BY <1>1, PrefixOfSeq DEF HasPanicked

-----------------------------------------------------------------------------
(***************************************************************************)
(* The step that follows the switch of nextCall.                           *)
(***************************************************************************)
LEMMA ContinueWithType ==
    ASSUME TypeOK, NEW call \in Frame, NEW cs \in Seq(Frame),
           NEW k \in 1..Len(cs) + 1, ContinueWith(call, k, cs)
    PROVE  /\ calls' \in Seq(Frame) /\ cur' \in Fn /\ rend' \in Nat
           /\ i' \in 0..Len(calls') + 1 /\ phase' \in {"run", "native"}
           /\ phase' = "run" => i' = 0
           /\ phase' = "native" => i' > 0
           /\ HasPanicked(calls') => HasPanicked(cs)
  <1>1. Len(cs) \in Nat
    BY LenProperties
  <1>2. CASE call.kind = "native"
    BY <1>1, <1>2 DEF ContinueWith, TypeOK, Fn
  <1>3. CASE call.kind # "native"
    <2>1. /\ calls' = SubSeq(cs, 1, k - 1) /\ i' = 0 /\ phase' = "run"
          /\ cur' = FunctionOf(call) /\ rend' = call.rend
      BY <1>3 DEF ContinueWith
    <2>2. calls' \in Seq(Frame) /\ Len(calls') \in Nat
      BY <2>1, PrefixOfSeq, LenProperties
    <2>3. cur' \in Fn /\ rend' \in Nat
      BY <2>1, FunctionOfType DEF Frame
    <2>4. HasPanicked(calls') => HasPanicked(cs)
      BY <2>1, PrefixHasPanicked
    <2> QED
      BY <2>1, <2>2, <2>3, <2>4
  <1> QED
    BY <1>2, <1>3

-----------------------------------------------------------------------------
(***************************************************************************)
(* Types, and a panic for every panicked frame.  The two are one inductive *)
(* invariant: OpRecover reads vm.panic.message, that has a type only if    *)
(* there is a panic.                                                       *)
(***************************************************************************)
SafeInv == TypeOK /\ PanickedHasPanic

LEMMA SafeInit == Init => SafeInv
  <1> SUFFICES ASSUME Init PROVE SafeInv
    OBVIOUS
  <1>1. calls = <<>> /\ chain = <<>> /\ home = <<rend>> /\ rend \in Nat
    BY DEF Init
  <1>2. Panicked = {}
    BY <1>1 DEF Panicked
  <1>3. TypeOK
    <2>1. mixed \in BOOLEAN
      BY Zenon DEF Init
    <2>2. /\ cur = [act |-> 1, kind |-> "func"] /\ i = 0 /\ phase = "run" /\ got = 0
          /\ made = 1 /\ thrown = 0
      BY DEF Init
    <2> QED
      BY <1>1, <2>1, <2>2 DEF TypeOK, Kinds, Phases, Final
  <1> QED
    BY <1>2, <1>3 DEF SafeInv, PanickedHasPanic

\* A call or a deferred call pushes a frame that is not panicked.
LEMMA PushPreserves ==
    ASSUME SafeInv, NEW f \in Frame, f.status # "panicked",
           calls' = Append(calls, f), chain' = chain
    PROVE  /\ calls' \in Seq(Frame) /\ Len(calls') = Len(calls) + 1
           /\ PanickedHasPanic'
  <1>1. calls \in Seq(Frame) /\ (HasPanicked(calls) => chain # <<>>)
    BY PanickedIsHasPanicked DEF SafeInv, TypeOK, PanickedHasPanic
  <1>2. calls' \in Seq(Frame) /\ Len(calls') = Len(calls) + 1
    BY <1>1, AppendProperties
  <1>3. HasPanicked(calls') => HasPanicked(calls)
    BY <1>1, AppendHasPanicked
  <1>4. Panicked' # {} => HasPanicked(calls')
    BY <1>2, LenProperties DEF Panicked, HasPanicked
  <1> QED
    BY <1>1, <1>2, <1>3, <1>4 DEF PanickedHasPanic

LEMMA EnterPreserves ==
    ASSUME SafeInv, NEW kind \in Kinds, NEW saved \in Nat, NEW r \in Nat,
           Enter(kind, saved, r), phase = "run"
    PROVE  SafeInv'
  <1>1. FrameOf(cur, "started", saved) \in Frame
        /\ FrameOf(cur, "started", saved).status # "panicked"
    BY FrameOfType DEF SafeInv, TypeOK, Fn, Statuses
  <1>2. calls' \in Seq(Frame) /\ Len(calls') = Len(calls) + 1 /\ PanickedHasPanic'
    BY <1>1, PushPreserves DEF Enter
  <1>3. Len(calls) \in Nat
    BY LenProperties DEF SafeInv, TypeOK
  <1>4. home' \in Seq(Nat)
    BY AppendProperties DEF Enter, SafeInv, TypeOK
  <1>5. TypeOK'
    BY <1>2, <1>3, <1>4 DEF Enter, SafeInv, TypeOK
  <1> QED
    BY <1>2, <1>5 DEF SafeInv

LEMMA DeferPreserves ==
    ASSUME SafeInv, NEW op, NEW kind \in Kinds, OpDefer(op, kind)
    PROVE  SafeInv'
  <1>0. made' \in Nat /\ rend \in Nat
    BY DEF OpDefer, SafeInv, TypeOK
  <1>1. FrameOf([act |-> made', kind |-> kind], "deferred", rend) \in Frame
        /\ FrameOf([act |-> made', kind |-> kind], "deferred", rend).status # "panicked"
    BY <1>0, FrameOfType DEF Fn, Statuses
  <1>2. calls' \in Seq(Frame) /\ Len(calls') = Len(calls) + 1 /\ PanickedHasPanic'
    BY <1>1, PushPreserves DEF OpDefer
  <1>3. Len(calls) \in Nat
    BY LenProperties DEF SafeInv, TypeOK
  <1>4. home' \in Seq(Nat)
    BY AppendProperties DEF OpDefer, SafeInv, TypeOK
  <1>5. TypeOK'
    BY <1>0, <1>2, <1>3, <1>4 DEF OpDefer, Executes, SafeInv, TypeOK
  <1> QED
    BY <1>2, <1>5 DEF SafeInv

\* A panic, of the running function or of a nil native function, is linked and pushed.
LEMMA PanicPreserves ==
    ASSUME SafeInv, OpPanic \/ NativeNil
    PROVE  SafeInv'
  <1> DEFINE f == [FrameOf(cur, "panicked", rend) EXCEPT !.why = thrown']
  <1>0. LinksPanic /\ (PushesPanicked \/ (phase' = "done" /\ UNCHANGED <<calls, cur, i>>))
    BY DEF OpPanic, NativeNil
  <1>1. thrown' \in Nat /\ calls \in Seq(Frame) /\ Len(calls) \in Nat
    BY <1>0, LenProperties DEF LinksPanic, Throws, SafeInv, TypeOK
  <1>2. /\ chain' \in Seq([id : Nat, recovered : BOOLEAN])
        /\ chain' # <<>>
    <2>1. [id |-> thrown', recovered |-> FALSE] \in [id : Nat, recovered : BOOLEAN]
      BY <1>1
    <2>2. chain \in Seq([id : Nat, recovered : BOOLEAN])
      BY DEF SafeInv, TypeOK
    <2>3. chain' = Append(chain, [id |-> thrown', recovered |-> FALSE])
      BY <1>0 DEF LinksPanic
    <2> QED
      BY <2>1, <2>2, <2>3, AppendProperties
  <1>3. f \in Frame
    <2>1. f = [act |-> cur.act, kind |-> cur.kind, status |-> "panicked",
               rend |-> rend, why |-> thrown']
      BY DEF FrameOf
    <2> QED
      BY <1>1, <2>1 DEF SafeInv, TypeOK, Statuses, Frame
  <1>4. CASE phase' = "done" /\ UNCHANGED <<calls, cur, i>>
    BY <1>0, <1>1, <1>2, <1>4 DEF LinksPanic, SafeInv, TypeOK, PanickedHasPanic, Phases, Final
  <1>5. CASE PushesPanicked
    <2>1. calls' = Append(calls, f) /\ cur' = Nil /\ i' = Len(calls') /\ phase' = "next"
      BY <1>5 DEF PushesPanicked
    <2>2. calls' \in Seq(Frame) /\ Len(calls') \in Nat
      BY <1>1, <1>3, <2>1, AppendProperties
    <2>3. cur' \in Fn
      BY <2>1, NilType
    <2>4. TypeOK'
      BY <1>0, <1>1, <1>2, <2>1, <2>2, <2>3 DEF LinksPanic, SafeInv, TypeOK, Fn, Phases
    <2> QED
      BY <1>2, <2>4 DEF SafeInv, PanickedHasPanic
  <1> QED
    BY <1>0, <1>4, <1>5

\* OpRecover changes the status of a panicked frame and marks the newest panic.
LEMMA RecoverPreserves ==
    ASSUME SafeInv, NEW found, RecoverFrames(found)
    PROVE  /\ calls' \in Seq(Frame) /\ Len(calls') = Len(calls)
           /\ chain' \in Seq([id : Nat, recovered : BOOLEAN])
           /\ PanickedHasPanic'
  <1> DEFINE Link == [id : Nat, recovered : BOOLEAN]
  <1>1. calls \in Seq(Frame) /\ Len(calls) \in Nat /\ DOMAIN calls = 1..Len(calls)
    BY LenProperties DEF SafeInv, TypeOK
  <1>2. \A j \in 1..Len(calls) :
           /\ calls[j] \in Frame
           /\ [calls[j] EXCEPT !.status = "recovered"] \in Frame
    <2>1. \A j \in 1..Len(calls) : calls[j] \in Frame
      BY <1>1, ElementOfSeq
    <2> QED
      BY <2>1 DEF Frame, Statuses
  <1>3. calls' \in [1..Len(calls) -> Frame]
    BY <1>1, <1>2 DEF RecoverFrames
  <1>4. calls' \in Seq(Frame) /\ Len(calls') = Len(calls)
    BY <1>1, <1>3, FunctionIsSeq
  <1>5. chain \in Seq(Link) /\ Len(chain) \in Nat
    BY LenProperties DEF SafeInv, TypeOK
  <1>6. chain' \in Seq(Link) /\ (chain # <<>> => chain' # <<>>)
    <2>1. CASE found = {} \/ chain = <<>>
      <3>1. chain = <<>> => [chain EXCEPT ![Len(chain)].recovered = TRUE] = chain
        OBVIOUS
      <3> QED
        BY <1>5, <2>1, <3>1 DEF RecoverFrames
    <2>2. CASE found # {} /\ chain # <<>>
      <3>1. Len(chain) \in 1..Len(chain)
        BY <1>5, <2>2, EmptySeq
      <3>2. [chain[Len(chain)] EXCEPT !.recovered = TRUE] \in Link
        <4>1. chain[Len(chain)] \in Link
          BY <1>5, <3>1, ElementOfSeq
        <4> QED
          BY <4>1
      <3>3. chain' = [chain EXCEPT ![Len(chain)] = [chain[Len(chain)] EXCEPT !.recovered = TRUE]]
        BY <2>2 DEF RecoverFrames
      <3>4. chain' \in Seq(Link) /\ Len(chain') = Len(chain)
        BY <1>5, <3>1, <3>2, <3>3, ReplaceInSeq
      <3> QED
        BY <3>1, <3>4, EmptySeq
    <2> QED
      BY <2>1, <2>2
  <1>7. Panicked' # {} => Panicked # {}
    <2> SUFFICES ASSUME NEW j \in DOMAIN calls', calls'[j].status = "panicked"
                 PROVE  Panicked # {}
      BY DEF Panicked
    <2>1. j \in DOMAIN calls
      BY <1>1, <1>3
    <2>2. calls'[j] = calls[j]
      BY <1>1, <1>2, <2>1 DEF RecoverFrames, Frame
    <2> QED
      BY <2>1, <2>2 DEF Panicked
  <1> QED
    BY <1>4, <1>6, <1>7 DEF SafeInv, PanickedHasPanic

LEMMA OpRecoverPreserves == SafeInv /\ OpRecover => SafeInv'
  <1> SUFFICES ASSUME SafeInv, OpRecover PROVE SafeInv'
    OBVIOUS
  <1> DEFINE found == Recoverable(Len(calls))
  <1>1. /\ calls' \in Seq(Frame) /\ Len(calls') = Len(calls)
        /\ chain' \in Seq([id : Nat, recovered : BOOLEAN])
        /\ PanickedHasPanic'
    BY RecoverPreserves DEF OpRecover
  <1>2. got' \in Nat
    <2>1. CASE found = {}
      BY <2>1 DEF OpRecover
    <2>2. CASE found # {}
      <3>1. PICK j \in found : j \in Panicked
        BY <2>2, LenProperties DEF Recoverable, Panicked, SafeInv, TypeOK
      <3>2. chain # <<>> /\ chain \in Seq([id : Nat, recovered : BOOLEAN])
        BY <3>1 DEF SafeInv, TypeOK, PanickedHasPanic
      <3>3. Last(chain) \in [id : Nat, recovered : BOOLEAN]
        <4>1. Len(chain) \in 1..Len(chain)
          BY <3>2, EmptySeq, LenProperties
        <4> QED
          BY <3>2, <4>1, ElementOfSeq DEF Last
      <3> QED
        BY <2>2, <3>3 DEF OpRecover
    <2> QED
      BY <2>1, <2>2
  <1>3. TypeOK'
    BY <1>1, <1>2 DEF OpRecover, SafeInv, TypeOK, hist
  <1> QED
    BY <1>1, <1>3 DEF SafeInv

LEMMA OpRecoverDownPreserves == SafeInv /\ OpRecoverDown => SafeInv'
  <1> SUFFICES ASSUME SafeInv, OpRecoverDown PROVE SafeInv'
    OBVIOUS
  <1>1. /\ calls' \in Seq(Frame) /\ Len(calls') = Len(calls)
        /\ chain' \in Seq([id : Nat, recovered : BOOLEAN])
        /\ PanickedHasPanic'
    BY RecoverPreserves DEF OpRecoverDown
  <1>2. TypeOK'
    BY <1>1 DEF OpRecoverDown, SafeInv, TypeOK, hist, Phases
  <1> QED
    BY <1>1, <1>2 DEF SafeInv

LEMMA ReturnToCallerPreserves == SafeInv /\ ReturnToCaller => SafeInv'
  <1> SUFFICES ASSUME SafeInv, ReturnToCaller PROVE SafeInv'
    OBVIOUS
  <1> DEFINE n == Len(calls)
  <1>1. calls \in Seq(Frame) /\ n \in 1..n
    BY EmptySeq, LenProperties DEF SafeInv, TypeOK, ReturnToCaller
  <1>2. calls[n] \in Frame
    BY <1>1, ElementOfSeq
  <1>3. calls' = SubSeq(calls, 1, n - 1) /\ cur' = FunctionOf(calls[n])
        /\ rend' \in {rend, calls[n].rend}
    BY DEF ReturnToCaller, Last
  <1>4. calls' \in Seq(Frame) /\ Len(calls') \in Nat
    BY <1>1, <1>3, PrefixOfSeq, LenProperties
  <1>5. PanickedHasPanic'
    <2>1. HasPanicked(calls') => HasPanicked(calls)
      BY <1>1, <1>3, PrefixHasPanicked
    <2>2. Panicked' # {} => HasPanicked(calls')
      BY <1>4, LenProperties DEF Panicked, HasPanicked
    <2> QED
      BY <1>1, <2>1, <2>2, PanickedIsHasPanicked
         DEF SafeInv, PanickedHasPanic, ReturnToCaller
  <1>6. cur' \in Fn
    BY <1>2, <1>3, FunctionOfType
  <1>7. rend' \in Nat
    BY <1>2, <1>3 DEF Frame, SafeInv, TypeOK
  <1>8. i' = 0
    BY DEF ReturnToCaller, Returning, SafeInv, TypeOK
  <1>9. TypeOK'
    <2>1. phase' = "run" /\ UNCHANGED <<chain, got, made, thrown, home, mixed>>
      BY DEF ReturnToCaller, hist
    <2> QED
      BY <1>4, <1>6, <1>7, <1>8, <2>1 DEF SafeInv, TypeOK, Fn, Phases
  <1> QED
    BY <1>5, <1>9 DEF SafeInv

\* A step of nextCall that continues with a call: cs are the frames it leaves,
\* none of them panicked if none was.
LEMMA ContinuePreserves ==
    ASSUME SafeInv, NEW call \in Frame, NEW cs \in Seq(Frame),
           NEW k \in 1..Len(cs) + 1, ContinueWith(call, k, cs),
           HasPanicked(cs) => HasPanicked(calls),
           UNCHANGED <<chain, got, hist>>
    PROVE  SafeInv'
  <1>1. /\ calls' \in Seq(Frame) /\ cur' \in Fn /\ rend' \in Nat
        /\ i' \in 0..Len(calls') + 1 /\ phase' \in {"run", "native"}
        /\ phase' = "run" => i' = 0
        /\ phase' = "native" => i' > 0
        /\ HasPanicked(calls') => HasPanicked(cs)
    BY ContinueWithType DEF SafeInv
  <1>2. calls \in Seq(Frame)
    BY DEF SafeInv, TypeOK
  <1>3. Panicked' # {} => HasPanicked(calls')
    BY <1>1, LenProperties DEF Panicked, HasPanicked
  <1>4. PanickedHasPanic'
    BY <1>1, <1>2, <1>3, PanickedIsHasPanicked DEF SafeInv, PanickedHasPanic
  <1>5. TypeOK'
    BY <1>1 DEF SafeInv, TypeOK, Fn, Phases, hist
  <1> QED
    BY <1>4, <1>5 DEF SafeInv

\* Replacing a frame by one that is not panicked, or by one of the others.
LEMMA ReplaceHasPanicked ==
    ASSUME NEW cs \in Seq(Frame), NEW k \in 1..Len(cs), NEW f \in Frame,
           f.status = "panicked" => HasPanicked(cs),
           HasPanicked([cs EXCEPT ![k] = f])
    PROVE  HasPanicked(cs)
  BY ReplaceInSeq DEF HasPanicked

LEMMA LoopIndex ==
    ASSUME SafeInv, NEW sts, AtStatus(sts)
    PROVE  /\ calls \in Seq(Frame) /\ Len(calls) \in Nat
           /\ i \in 1..Len(calls) /\ calls[i] \in Frame
           /\ calls[i].status \in sts
  BY LenProperties, ElementOfSeq DEF SafeInv, TypeOK, AtStatus

LEMMA NextStartedPreserves == SafeInv /\ NextStarted => SafeInv'
  <1> SUFFICES ASSUME SafeInv, NextStarted PROVE SafeInv'
    OBVIOUS
  <1>1. AtStatus({"started"}) /\ ContinueWith(calls[i], i, calls)
        /\ UNCHANGED <<chain, got, hist>>
    BY DEF NextStarted
  <1>2. calls \in Seq(Frame) /\ i \in 1..Len(calls) + 1 /\ calls[i] \in Frame
    BY <1>1, LoopIndex
  <1> QED
    BY <1>1, <1>2, ContinuePreserves

LEMMA NextDeferredPreserves == SafeInv /\ NextDeferred => SafeInv'
  <1> SUFFICES ASSUME SafeInv, NextDeferred PROVE SafeInv'
    OBVIOUS
  <1> DEFINE f == FrameOf(cur, "returned", rend)
             cs == [calls EXCEPT ![i] = f]
  <1>1. AtStatus({"deferred"}) /\ ContinueWith(calls[i], i + 1, cs)
        /\ UNCHANGED <<chain, got, hist>>
    BY DEF NextDeferred
  <1>2. calls \in Seq(Frame) /\ i \in 1..Len(calls) /\ calls[i] \in Frame
        /\ Len(calls) \in Nat
    BY <1>1, LoopIndex
  <1>3. f \in Frame /\ f.status = "returned"
    BY FrameOfType DEF SafeInv, TypeOK, Fn, Statuses
  <1>4. cs \in Seq(Frame) /\ Len(cs) = Len(calls)
    BY <1>2, <1>3, ReplaceInSeq
  <1>5. HasPanicked(cs) => HasPanicked(calls)
    BY <1>2, <1>3, ReplaceHasPanicked
  <1>6. i + 1 \in 1..Len(cs) + 1
    BY <1>2, <1>4
  <1> HIDE DEF cs
  <1> QED
    BY <1>1, <1>2, <1>4, <1>5, <1>6, ContinuePreserves

LEMMA NextDeferredOfReturnedPreserves == SafeInv /\ NextDeferredOfReturned => SafeInv'
  <1> SUFFICES ASSUME SafeInv, NextDeferredOfReturned PROVE SafeInv'
    OBVIOUS
  <1> DEFINE cs == [calls EXCEPT ![i - 1] = calls[i]]
  <1>1. AtStatus({"returned", "recovered"}) /\ i > 1
        /\ ContinueWith(calls[i - 1], i, cs) /\ UNCHANGED <<chain, got, hist>>
    BY DEF NextDeferredOfReturned, MoreDeferred
  <1>2. calls \in Seq(Frame) /\ i \in 1..Len(calls) /\ calls[i] \in Frame
        /\ calls[i].status \in {"returned", "recovered"} /\ Len(calls) \in Nat
    BY <1>1, LoopIndex
  <1>3. i - 1 \in 1..Len(calls) /\ calls[i - 1] \in Frame
    BY <1>1, <1>2, ElementOfSeq
  <1>4. cs \in Seq(Frame) /\ Len(cs) = Len(calls)
    BY <1>2, <1>3, ReplaceInSeq
  <1>5. HasPanicked(cs) => HasPanicked(calls)
    BY <1>2, <1>3, ReplaceHasPanicked
  <1>6. i \in 1..Len(cs) + 1
    BY <1>2, <1>4
  <1> HIDE DEF cs
  <1> QED
    BY <1>1, <1>3, <1>4, <1>5, <1>6, ContinuePreserves

\* As many panics remain as there are panicked frames: at least one if there is one.
LEMMA NextFinalizedPreserves == SafeInv /\ NextFinalized => SafeInv'
  <1> SUFFICES ASSUME SafeInv, NextFinalized PROVE SafeInv'
    OBVIOUS
  <1> DEFINE Link == [id : Nat, recovered : BOOLEAN]
             m == Cardinality(Panicked)
  <1>1. calls \in Seq(Frame) /\ i \in 1..Len(calls) /\ Len(calls) \in Nat
    BY LoopIndex DEF NextFinalized
  <1>2. chain \in Seq(Link) /\ Len(chain) \in Nat
    BY LenProperties DEF SafeInv, TypeOK
  <1>3. m \in Nat /\ (Panicked # {} => m > 0)
    <2>1. Panicked \in SUBSET (1..Len(calls))
      BY <1>1, LenProperties DEF Panicked
    <2>2. IsFiniteSet(Panicked)
      <3>1. IsFiniteSet(1..Len(calls))
        BY <1>1, FS_Interval
      <3> QED
        BY <2>1, <3>1, FS_Subset
    <2> QED
      BY <2>2, FS_CardinalityType, FS_EmptySet
  <1>4. /\ chain' \in Seq(Link)
        /\ (chain # <<>> /\ m > 0) => chain' # <<>>
    <2>1. CASE chain' = chain
      BY <1>2, <2>1
    <2>2. CASE Len(chain) > m /\ chain' = SubSeq(chain, 1, m)
      <3>1. m + 1 \in 1..Len(chain) + 1 /\ (m + 1) - 1 = m
        BY <1>2, <1>3, <2>2
      <3>2. chain' \in Seq(Link) /\ Len(chain') = m
        BY <1>2, <2>2, <3>1, PrefixOfSeq
      <3> QED
        BY <1>3, <3>2, EmptySeq
    <2> QED
      BY <2>1, <2>2 DEF NextFinalized, CutChain
  <1>5. UNCHANGED <<calls, cur, rend, phase, got, made, thrown, home>> /\ phase = "next"
        /\ i' = i - 1
    BY DEF NextFinalized, AtStatus
  <1>6. PanickedHasPanic'
    BY <1>3, <1>4, <1>5 DEF SafeInv, PanickedHasPanic, Panicked
  <1>7. mixed' \in BOOLEAN
    BY DEF NextFinalized, CutChain, SafeInv, TypeOK
  <1>8. TypeOK'
    BY <1>1, <1>4, <1>5, <1>7 DEF SafeInv, TypeOK
  <1> QED
    BY <1>6, <1>8 DEF SafeInv

LEMMA NextPanickedPreserves == SafeInv /\ NextPanicked => SafeInv'
  <1> SUFFICES ASSUME SafeInv, NextPanicked PROVE SafeInv'
    OBVIOUS
  <1>1. AtStatus({"panicked"}) /\ UNCHANGED <<chain, got, hist>>
    BY DEF NextPanicked
  <1>2. calls \in Seq(Frame) /\ i \in 1..Len(calls) /\ calls[i] \in Frame
        /\ calls[i].status = "panicked" /\ Len(calls) \in Nat
    BY <1>1, LoopIndex
  <1>3. HasPanicked(calls)
    BY <1>2 DEF HasPanicked
  <1>4. PICK k \in 1..i-1 :
           ContinueWith(calls[k], IF calls[k].kind = "native" THEN k ELSE k + 1,
               [calls EXCEPT ![k] = [calls[k + 1] EXCEPT !.status = "panicked",
                                                         !.why = calls[i].why]])
    BY DEF NextPanicked
  <1> DEFINE f == [calls[k + 1] EXCEPT !.status = "panicked", !.why = calls[i].why]
             cs == [calls EXCEPT ![k] = f]
             next == IF calls[k].kind = "native" THEN k ELSE k + 1
  <1>5. k \in 1..Len(calls) /\ k + 1 \in 1..Len(calls)
    BY <1>2, <1>4
  <1>6. calls[k] \in Frame /\ calls[k + 1] \in Frame
    BY <1>2, <1>5, ElementOfSeq
  <1>7. f \in Frame
    BY <1>2, <1>6 DEF Frame, Statuses
  <1> HIDE DEF f
  <1>8. cs \in Seq(Frame) /\ Len(cs) = Len(calls)
    BY <1>2, <1>5, <1>7, ReplaceInSeq
  <1>9. next \in 1..Len(cs) + 1
    BY <1>2, <1>4, <1>8
  <1>10. ContinueWith(calls[k], next, cs)
    BY <1>4 DEF f
  <1> HIDE DEF cs, next
  <1> QED
    BY <1>1, <1>3, <1>6, <1>8, <1>9, <1>10, ContinuePreserves

\* The other steps leave the frames and the chain alone.
Other ==
    \/ Exit \/ ReturnFromMain \/ ReturnToNextCall \/ NextDeferredNil \/ NextNone
    \/ NativeReturns \/ NativeFails \/ NativeStops \/ UNCHANGED vars

LEMMA OtherPreserves ==
    ASSUME SafeInv,
           Other
    PROVE  SafeInv'
  <1>1. Len(calls) \in Nat
    BY LenProperties DEF SafeInv, TypeOK
  <1>2. UNCHANGED <<calls, chain>>
    BY DEF Other, Exit, ReturnFromMain, ReturnToNextCall, NextDeferredNil, NextNone,
           NativeReturns, NativeFails, NativeStops, vars
  <1>3. PanickedHasPanic'
    BY <1>2 DEF SafeInv, PanickedHasPanic, Panicked
  <1>4. TypeOK'
    <2>1. CASE Exit \/ ReturnFromMain \/ ReturnToNextCall
      BY <1>1, <2>1 DEF SafeInv, TypeOK, Phases, Final, hist, Exit, ReturnFromMain,
                        ReturnToNextCall
    <2>2. CASE NextDeferredNil \/ NextNone
      BY <1>1, <2>2 DEF SafeInv, TypeOK, Phases, Final, hist, NextDeferredNil, NextNone
    <2>3. CASE NativeReturns
      BY <1>1, <2>3 DEF SafeInv, TypeOK, Phases, hist, NativeReturns
    <2>4. CASE NativeFails \/ NativeStops
      <3>1. phase' \in Final /\ UNCHANGED <<calls, cur, rend, chain, i, got, hist>>
        BY <2>4 DEF Final, NativeFails, NativeStops
      <3> QED
        BY <3>1 DEF SafeInv, TypeOK, Phases, Final, hist
    <2>5. CASE UNCHANGED vars
      BY <1>1, <2>5 DEF SafeInv, TypeOK, vars
    <2> QED
      BY <2>1, <2>2, <2>3, <2>4, <2>5 DEF Other
  <1> QED
    BY <1>3, <1>4 DEF SafeInv

LEMMA StepPreserves == SafeInv /\ [Next]_vars => SafeInv'
  <1> SUFFICES ASSUME SafeInv, [Next]_vars PROVE SafeInv'
    OBVIOUS
  <1>0. rend \in Nat /\ made + 1 \in Nat /\ "func" \in Kinds /\ "macro" \in Kinds
        /\ "native" \in Kinds /\ "recover" \in Kinds /\ 0 \in Nat
    BY DEF SafeInv, TypeOK, Kinds
  <1>1. CASE OpCallFunc
    <2>1. phase = "run" /\ Enter("func", 0, rend)
      BY <1>1 DEF OpCallFunc, Executes
    <2> QED
      BY <1>0, <2>1, EnterPreserves
  <1>2. CASE OpCallMacro
    <2>1. PICK r \in {rend, made + 1} : phase = "run" /\ Enter("macro", rend, r)
      BY <1>2 DEF OpCallMacro, Executes
    <2>2. r \in Nat
      BY <1>0, <2>1
    <2> QED
      BY <1>0, <2>1, <2>2, EnterPreserves
  <1>3. CASE Defers
    <2>1. CASE OpDefer("defer", "func")
      BY <1>0, <2>1, DeferPreserves
    <2>2. CASE OpDefer("defer native", "native")
      BY <1>0, <2>2, DeferPreserves
    <2>3. CASE OpDefer("defer recover", "recover")
      BY <1>0, <2>3, DeferPreserves
    <2> QED
      BY <1>3, <2>1, <2>2, <2>3 DEF Defers
  <1>4. CASE OpPanic \/ NativeNil
    BY <1>4, PanicPreserves
  <1>5. CASE OpRecover \/ OpRecoverDown
    BY <1>5, OpRecoverPreserves, OpRecoverDownPreserves
  <1>6. CASE ReturnToCaller
    BY <1>6, ReturnToCallerPreserves
  <1>7. CASE NextStarted \/ NextDeferred \/ NextDeferredOfReturned
             \/ NextFinalized \/ NextPanicked
    BY <1>7, NextStartedPreserves, NextDeferredPreserves,
       NextDeferredOfReturnedPreserves, NextFinalizedPreserves, NextPanickedPreserves
  <1>8. CASE Other
    BY <1>8, OtherPreserves
  <1> QED
    BY <1>1, <1>2, <1>3, <1>4, <1>5, <1>6, <1>7, <1>8
       DEF Next, Execute, NextCall, Native, Ended, Other

\* The machine only ever holds well-typed frames, and the loop of nextCall stays
\* inside vm.calls, whatever the program does.
THEOREM TypeCorrect == Spec => []TypeOK
  <1>1. SafeInv => TypeOK
    BY DEF SafeInv
  <1> QED
    BY <1>1, SafeInit, StepPreserves, PTL DEF Spec

\* OpRecover and the chain of panics never go through a nil vm.panic: there is a
\* panic as long as some frame of vm.calls is panicked.
THEOREM PanicBehindEveryPanickedFrame == Spec => []PanickedHasPanic
  <1>1. SafeInv => PanickedHasPanic
    BY DEF SafeInv
  <1> QED
    BY <1>1, SafeInit, StepPreserves, PTL DEF Spec

-----------------------------------------------------------------------------
(***************************************************************************)
(* A program that defers no native function never leaves the machine       *)
(* without a running function.  Every frame then has a Scriggo function,   *)
(* and nextCall, when it is entered after a panic, is at a panicked frame, *)
(* that it only leaves for a deferred call or for good.                    *)
(***************************************************************************)
Scriggo == {"func", "macro", "recover"}
ScriggoFrames(cs) == \A j \in 1..Len(cs) : cs[j].kind \in Scriggo

LEMMA NilIsNotScriggo == Nil.kind \notin Scriggo
  BY DEF Nil, Scriggo

FunctionInv ==
    /\ SafeInv
    /\ ScriggoFrames(calls)
    /\ cur.kind \in Scriggo \/ cur = Nil
    /\ phase \in {"run", "return"} => cur.kind \in Scriggo
    /\ phase \notin {"native", "crashed"}
    /\ (phase = "next" /\ cur = Nil) =>
          i \in 1..Len(calls) /\ calls[i].status = "panicked"

LEMMA FunctionInit == Init => FunctionInv
  <1> SUFFICES ASSUME Init PROVE FunctionInv
    OBVIOUS
  <1>1. calls = <<>> /\ cur.kind = "func" /\ phase = "run"
    BY DEF Init
  <1> QED
    BY <1>1, SafeInit DEF FunctionInv, ScriggoFrames, Scriggo

LEMMA AppendScriggo ==
    ASSUME NEW cs \in Seq(Frame), NEW f \in Frame, ScriggoFrames(cs), f.kind \in Scriggo
    PROVE  ScriggoFrames(Append(cs, f))
  <1>1. Len(cs) \in Nat
    BY LenProperties
  <1> QED
    BY <1>1, AppendProperties DEF ScriggoFrames

LEMMA PrefixScriggo ==
    ASSUME NEW cs \in Seq(Frame), NEW k \in 1..Len(cs) + 1, ScriggoFrames(cs)
    PROVE  ScriggoFrames(SubSeq(cs, 1, k - 1))
  <1>1. Len(cs) \in Nat
    BY LenProperties
  <1> QED
    BY <1>1, PrefixOfSeq DEF ScriggoFrames

LEMMA ReplaceScriggo ==
    ASSUME NEW cs \in Seq(Frame), NEW k \in 1..Len(cs), NEW f \in Frame,
           ScriggoFrames(cs), f.kind \in Scriggo
    PROVE  ScriggoFrames([cs EXCEPT ![k] = f])
  BY ReplaceInSeq DEF ScriggoFrames

\* nextCall continues with a Scriggo function, that becomes the running one.
LEMMA ContinueScriggo ==
    ASSUME FunctionInv, SafeInv', NEW call \in Frame, call.kind \in Scriggo,
           NEW cs \in Seq(Frame), NEW k \in 1..Len(cs) + 1, ScriggoFrames(cs),
           ContinueWith(call, k, cs)
    PROVE  FunctionInv'
  <1>1. call.kind # "native"
    BY DEF Scriggo
  <1>2. calls' = SubSeq(cs, 1, k - 1) /\ cur' = FunctionOf(call) /\ phase' = "run"
    BY <1>1 DEF ContinueWith
  <1>3. ScriggoFrames(calls')
    BY <1>2, PrefixScriggo
  <1>4. cur'.kind \in Scriggo
    BY <1>2 DEF FunctionOf
  <1> QED
    BY <1>2, <1>3, <1>4 DEF FunctionInv

LEMMA PushScriggo ==
    ASSUME FunctionInv, "defer native" \notin Ops, SafeInv',
           OpCallFunc \/ OpCallMacro \/ Defers
    PROVE  FunctionInv'
  <1>1. calls \in Seq(Frame) /\ ScriggoFrames(calls) /\ cur \in Fn /\ cur.kind \in Scriggo
        /\ phase = "run" /\ rend \in Nat
    BY DEF FunctionInv, SafeInv, TypeOK, Fn, OpCallFunc, OpCallMacro, Defers, OpDefer, Executes
  <1>2. CASE OpCallFunc \/ OpCallMacro
    <2>1. PICK saved \in {0, rend}, kind \in {"func", "macro"} :
             /\ calls' = Append(calls, FrameOf(cur, "started", saved))
             /\ cur' = [act |-> made', kind |-> kind] /\ phase' = phase
      BY <1>2 DEF OpCallFunc, OpCallMacro, Enter
    <2>2. FrameOf(cur, "started", saved) \in Frame
          /\ FrameOf(cur, "started", saved).kind \in Scriggo
      BY <1>1, FrameOfType DEF FrameOf, Statuses
    <2>3. ScriggoFrames(calls')
      BY <1>1, <2>1, <2>2, AppendScriggo
    <2>4. cur'.kind \in Scriggo
      BY <2>1 DEF Scriggo
    <2> QED
      BY <1>1, <2>1, <2>3, <2>4 DEF FunctionInv
  <1>3. CASE Defers
    <2>1. PICK kind \in {"func", "recover"} :
             /\ calls' = Append(calls, FrameOf([act |-> made', kind |-> kind], "deferred", rend))
             /\ cur' = cur /\ phase' = phase /\ made' = made + 1
      BY <1>3 DEF Defers, OpDefer, Executes
    <2> DEFINE f == FrameOf([act |-> made', kind |-> kind], "deferred", rend)
    <2>2. [act |-> made', kind |-> kind] \in Fn
      BY <2>1 DEF FunctionInv, SafeInv, TypeOK, Fn, Kinds
    <2>3. f \in Frame
      BY <1>1, <2>2, FrameOfType DEF Statuses
    <2>4. f.kind \in Scriggo
      BY DEF FrameOf, Scriggo
    <2>5. ScriggoFrames(calls')
      BY <1>1, <2>1, <2>3, <2>4, AppendScriggo
    <2> QED
      BY <1>1, <2>1, <2>5 DEF FunctionInv
  <1> QED
    BY <1>2, <1>3

LEMMA PanicScriggo ==
    ASSUME FunctionInv, SafeInv', OpPanic
    PROVE  FunctionInv'
  <1> DEFINE f == [FrameOf(cur, "panicked", rend) EXCEPT !.why = thrown']
  <1>1. calls \in Seq(Frame) /\ ScriggoFrames(calls) /\ cur.kind \in Scriggo
        /\ Len(calls) \in Nat
    BY LenProperties DEF FunctionInv, SafeInv, TypeOK, OpPanic, Executes
  <1>2. CASE calls = <<>>
    BY <1>1, <1>2 DEF OpPanic, FunctionInv
  <1>3. CASE calls # <<>>
    <2>1. calls' = Append(calls, f) /\ cur' = Nil /\ i' = Len(calls') /\ phase' = "next"
      BY <1>3 DEF OpPanic, PushesPanicked
    <2>2. f = [act |-> cur.act, kind |-> cur.kind, status |-> "panicked",
               rend |-> rend, why |-> thrown']
      BY DEF FrameOf
    <2>3. f \in Frame
      BY <2>2 DEF OpPanic, LinksPanic, Throws, FunctionInv, SafeInv, TypeOK, Statuses, Frame
    <2>4. f.kind \in Scriggo /\ f.status = "panicked"
      BY <1>1, <2>2
    <2> HIDE DEF f
    <2>5. ScriggoFrames(calls')
      BY <1>1, <2>1, <2>3, <2>4, AppendScriggo
    <2>6. i' \in 1..Len(calls') /\ calls'[i'] = f
      BY <1>1, <2>1, <2>3, AppendProperties
    <2> QED
      BY <2>1, <2>4, <2>5, <2>6 DEF FunctionInv
  <1> QED
    BY <1>2, <1>3

LEMMA RecoverScriggo ==
    ASSUME FunctionInv, SafeInv', OpRecover \/ OpRecoverDown
    PROVE  FunctionInv'
  <1>1. PICK found : RecoverFrames(found)
    BY DEF OpRecover, OpRecoverDown
  <1>2. calls \in Seq(Frame) /\ Len(calls) \in Nat /\ DOMAIN calls = 1..Len(calls)
    BY LenProperties DEF FunctionInv, SafeInv, TypeOK
  <1>3. Len(calls') = Len(calls)
    BY <1>1, RecoverPreserves DEF FunctionInv
  <1>4. \A j \in 1..Len(calls) : calls[j] \in Frame
    BY <1>2, ElementOfSeq
  <1>5. \A j \in 1..Len(calls) : calls'[j].kind = calls[j].kind
    BY <1>1, <1>2, <1>4 DEF RecoverFrames, Frame
  <1>6. ScriggoFrames(calls')
    BY <1>3, <1>5 DEF ScriggoFrames, FunctionInv
  <1>7. cur' = cur /\ phase = "run" /\ phase' \in {"run", "return"}
    BY DEF OpRecover, OpRecoverDown, Executes
  <1> QED
    BY <1>6, <1>7 DEF FunctionInv

LEMMA ReturnToCallerScriggo ==
    ASSUME FunctionInv, SafeInv', ReturnToCaller
    PROVE  FunctionInv'
  <1> DEFINE n == Len(calls)
  <1>1. calls \in Seq(Frame) /\ n \in 1..n
    BY EmptySeq, LenProperties DEF FunctionInv, SafeInv, TypeOK, ReturnToCaller
  <1>2. calls' = SubSeq(calls, 1, n - 1) /\ cur' = FunctionOf(calls[n]) /\ phase' = "run"
    BY DEF ReturnToCaller, Last
  <1>3. ScriggoFrames(calls')
    BY <1>1, <1>2, PrefixScriggo DEF FunctionInv
  <1>4. cur'.kind \in Scriggo
    BY <1>1, <1>2 DEF FunctionOf, FunctionInv, ScriggoFrames
  <1> QED
    BY <1>2, <1>3, <1>4 DEF FunctionInv

LEMMA LoopScriggo ==
    ASSUME FunctionInv, SafeInv', NextStarted \/ NextDeferred \/ NextDeferredOfReturned
    PROVE  FunctionInv'
  <1>1. calls \in Seq(Frame) /\ i \in 1..Len(calls) /\ Len(calls) \in Nat
        /\ calls[i] \in Frame /\ calls[i].kind \in Scriggo
    BY LoopIndex DEF FunctionInv, ScriggoFrames, NextStarted, NextDeferred, NextDeferredOfReturned
  <1>2. CASE NextStarted
    <2>1. i \in 1..Len(calls) + 1 /\ ContinueWith(calls[i], i, calls)
      BY <1>1, <1>2 DEF NextStarted
    <2> QED
      BY <1>1, <2>1, ContinueScriggo DEF FunctionInv
  <1>3. CASE NextDeferred
    <2> DEFINE f == FrameOf(cur, "returned", rend)
               cs == [calls EXCEPT ![i] = f]
    <2>1. ContinueWith(calls[i], i + 1, cs) /\ cur.kind \in Scriggo
      BY <1>3 DEF NextDeferred, FunctionInv
    <2>2. f \in Frame
      BY FrameOfType DEF FunctionInv, SafeInv, TypeOK, Fn, Statuses
    <2>3. f.kind \in Scriggo
      BY <2>1 DEF FrameOf
    <2>4. cs \in Seq(Frame) /\ Len(cs) = Len(calls) /\ ScriggoFrames(cs)
      BY <1>1, <2>2, <2>3, ReplaceInSeq, ReplaceScriggo DEF FunctionInv
    <2>5. i + 1 \in 1..Len(cs) + 1
      BY <1>1, <2>4
    <2> HIDE DEF cs
    <2> QED
      BY <1>1, <2>1, <2>4, <2>5, ContinueScriggo
  <1>4. CASE NextDeferredOfReturned
    <2> DEFINE cs == [calls EXCEPT ![i - 1] = calls[i]]
    <2>1. ContinueWith(calls[i - 1], i, cs) /\ i > 1
      BY <1>4 DEF NextDeferredOfReturned, MoreDeferred
    <2>2. i - 1 \in 1..Len(calls)
      BY <1>1, <2>1
    <2>3. calls[i - 1] \in Frame /\ calls[i - 1].kind \in Scriggo
      BY <1>1, <2>2, ElementOfSeq DEF FunctionInv, ScriggoFrames
    <2>4. cs \in Seq(Frame) /\ Len(cs) = Len(calls) /\ ScriggoFrames(cs)
      BY <1>1, <2>2, ReplaceInSeq, ReplaceScriggo DEF FunctionInv
    <2>5. i \in 1..Len(cs) + 1
      BY <1>1, <2>4
    <2> HIDE DEF cs
    <2> QED
      BY <2>1, <2>3, <2>4, <2>5, ContinueScriggo
  <1> QED
    BY <1>2, <1>3, <1>4

LEMMA PanickedScriggo ==
    ASSUME FunctionInv, SafeInv', NextPanicked
    PROVE  FunctionInv'
  <1>1. calls \in Seq(Frame) /\ i \in 1..Len(calls) /\ Len(calls) \in Nat
        /\ calls[i] \in Frame
    BY LoopIndex DEF FunctionInv, NextPanicked
  <1>2. PICK k \in 1..i-1 :
           ContinueWith(calls[k], IF calls[k].kind = "native" THEN k ELSE k + 1,
               [calls EXCEPT ![k] = [calls[k + 1] EXCEPT !.status = "panicked",
                                                         !.why = calls[i].why]])
    BY DEF NextPanicked
  <1> DEFINE f == [calls[k + 1] EXCEPT !.status = "panicked", !.why = calls[i].why]
             cs == [calls EXCEPT ![k] = f]
  <1>3. k \in 1..Len(calls) /\ k + 1 \in 1..Len(calls)
    BY <1>1, <1>2
  <1>4. calls[k] \in Frame /\ calls[k + 1] \in Frame
    BY <1>1, <1>3, ElementOfSeq
  <1>5. calls[k].kind \in Scriggo /\ calls[k + 1].kind \in Scriggo
    BY <1>3 DEF FunctionInv, ScriggoFrames
  <1>6. f \in Frame /\ f.kind = calls[k + 1].kind
    BY <1>1, <1>4 DEF Frame, Statuses
  <1>7. ContinueWith(calls[k], k + 1, cs)
    BY <1>2, <1>5 DEF Scriggo
  <1> HIDE DEF f
  <1>8. cs \in Seq(Frame) /\ Len(cs) = Len(calls) /\ ScriggoFrames(cs)
    BY <1>1, <1>3, <1>5, <1>6, ReplaceInSeq, ReplaceScriggo DEF FunctionInv
  <1>9. k + 1 \in 1..Len(cs) + 1
    BY <1>3, <1>8
  <1> HIDE DEF cs
  <1> QED
    BY <1>4, <1>5, <1>7, <1>8, <1>9, ContinueScriggo

LEMMA FunctionStep ==
    ASSUME "defer native" \notin Ops, FunctionInv, [Next]_vars
    PROVE  FunctionInv'
  <1>1. SafeInv'
    BY StepPreserves DEF FunctionInv
  <1>2. CASE OpCallFunc \/ OpCallMacro \/ Defers
    BY <1>1, <1>2, PushScriggo
  <1>3. CASE OpPanic
    BY <1>1, <1>3, PanicScriggo
  <1>4. CASE OpRecover \/ OpRecoverDown
    BY <1>1, <1>4, RecoverScriggo
  <1>5. CASE ReturnToCaller
    BY <1>1, <1>5, ReturnToCallerScriggo
  <1>6. CASE NextStarted \/ NextDeferred \/ NextDeferredOfReturned
    BY <1>1, <1>6, LoopScriggo
  <1>7. CASE NextPanicked
    BY <1>1, <1>7, PanickedScriggo
  <1>8. CASE Exit \/ ReturnFromMain \/ NextNone
    BY <1>1, <1>8 DEF FunctionInv, Exit, ReturnFromMain, NextNone
  <1>9. CASE ReturnToNextCall
    <2>1. cur.kind \in Scriggo /\ cur # Nil
      BY <1>9, NilIsNotScriggo DEF ReturnToNextCall, Returning, FunctionInv
    <2> QED
      BY <1>1, <1>9, <2>1 DEF FunctionInv, ReturnToNextCall
  <1>10. CASE NextFinalized
    <2>1. cur # Nil
      BY <1>10 DEF NextFinalized, AtStatus, FunctionInv
    <2> QED
      BY <1>1, <1>10, <2>1 DEF FunctionInv, NextFinalized
  <1>11. CASE NextDeferredNil
    BY <1>11 DEF NextDeferredNil, AtStatus, FunctionInv
  <1>12. CASE Native
    BY <1>12 DEF Native, NativeReturns, NativeNil, NativeFails, NativeStops, FunctionInv
  <1>13. CASE UNCHANGED vars
    BY <1>1, <1>13 DEF FunctionInv, vars
  <1> QED
    BY <1>2, <1>3, <1>4, <1>5, <1>6, <1>7, <1>8, <1>9, <1>10, <1>11, <1>12, <1>13
       DEF Next, Execute, NextCall, Ended

\* In a program that defers only Scriggo functions vm.run always has a function to
\* run and nextCall always has one to save: the machine's own code never meets a nil
\* vm.fn.
THEOREM NeverNilFunction ==
    ASSUME "defer native" \notin Ops
    PROVE  Spec => []NeverWithoutFunction
  <1>1. FunctionInv => NeverWithoutFunction
    BY NilIsNotScriggo DEF FunctionInv, NeverWithoutFunction
  <1>2. FunctionInv /\ [Next]_vars => FunctionInv'
    BY FunctionStep
  <1> QED
    BY <1>1, <1>2, FunctionInit, PTL DEF Spec

-----------------------------------------------------------------------------
(***************************************************************************)
(* The panics of the chain are as many as the panicked frames, or more: a  *)
(* panic adds one to both, and what leaves the chain is only in excess.    *)
(* This too needs that no native function is deferred, because nextCall    *)
(* leaves the panicked frame where it was when it calls one.               *)
(***************************************************************************)
CoverInv == FunctionInv /\ ChainCoversPanics

LEMMA PanickedIsFinite ==
    ASSUME SafeInv
    PROVE  Panicked \subseteq 1..Len(calls) /\ IsFiniteSet(Panicked) /\ Cardinality(Panicked) \in Nat
  <1>1. Len(calls) \in Nat /\ Panicked \subseteq 1..Len(calls)
    BY LenProperties DEF Panicked, SafeInv, TypeOK
  <1>2. IsFiniteSet(1..Len(calls))
    BY <1>1, FS_Interval
  <1> QED
    BY <1>1, <1>2, FS_Subset, FS_CardinalityType

\* Frames that stop being panicked, or are dropped, leave the chain long enough.
LEMMA FewerPanicked ==
    ASSUME SafeInv, SafeInv', ChainCoversPanics, Panicked' \subseteq Panicked,
           Len(chain') >= Len(chain)
    PROVE  ChainCoversPanics'
  <1>1. Cardinality(Panicked') <= Cardinality(Panicked)
    BY PanickedIsFinite, FS_Subset
  <1>2. Cardinality(Panicked) \in Nat /\ Cardinality(Panicked') \in Nat
    BY PanickedIsFinite, FS_Subset, FS_CardinalityType
  <1>3. Len(chain) \in Nat /\ Len(chain') \in Nat
    BY LenProperties DEF SafeInv, TypeOK
  <1> QED
    BY <1>1, <1>2, <1>3 DEF ChainCoversPanics

\* A step of nextCall that goes on with a Scriggo function keeps a prefix of cs.
LEMMA ContinueKeepsPrefix ==
    ASSUME NEW call \in Frame, call.kind \in Scriggo, NEW cs \in Seq(Frame),
           NEW k \in 1..Len(cs) + 1, ContinueWith(call, k, cs)
    PROVE  Panicked' = {j \in 1..k-1 : cs[j].status = "panicked"}
  <1>1. calls' = SubSeq(cs, 1, k - 1)
    BY DEF ContinueWith, Scriggo
  <1>2. DOMAIN calls' = 1..k-1 /\ \A j \in 1..k-1 : calls'[j] = cs[j]
    BY <1>1, PrefixOfSeq, LenProperties
  <1> QED
    BY <1>2 DEF Panicked

LEMMA CoverLoop ==
    ASSUME CoverInv, SafeInv', NextStarted \/ NextDeferred \/ NextDeferredOfReturned
    PROVE  ChainCoversPanics'
  <1>1. calls \in Seq(Frame) /\ i \in 1..Len(calls) /\ Len(calls) \in Nat
        /\ calls[i] \in Frame /\ calls[i].kind \in Scriggo /\ chain' = chain /\ SafeInv
        /\ DOMAIN calls = 1..Len(calls)
    BY LoopIndex, LenProperties
       DEF CoverInv, FunctionInv, ScriggoFrames, NextStarted, NextDeferred, NextDeferredOfReturned
  <1>2. Len(chain) \in Nat
    BY <1>1, LenProperties DEF SafeInv, TypeOK
  <1>3. CASE NextStarted
    <2>1. i \in 1..Len(calls) + 1 /\ ContinueWith(calls[i], i, calls)
      BY <1>1, <1>3 DEF NextStarted
    <2>2. Panicked' \subseteq Panicked
      BY <1>1, <2>1, ContinueKeepsPrefix DEF Panicked
    <2> QED
      BY <1>1, <1>2, <2>2, FewerPanicked DEF CoverInv
  <1>4. CASE NextDeferred
    <2> DEFINE f == FrameOf(cur, "returned", rend)
               cs == [calls EXCEPT ![i] = f]
    <2>1. ContinueWith(calls[i], i + 1, cs)
      BY <1>4 DEF NextDeferred
    <2>2. f \in Frame /\ f.status = "returned"
      <3>1. cur \in Fn /\ rend \in Nat
        BY <1>1 DEF SafeInv, TypeOK, Fn
      <3> QED
        BY <3>1, FrameOfType DEF Statuses
    <2>3. cs \in Seq(Frame) /\ Len(cs) = Len(calls)
          /\ \A j \in 1..Len(calls) : cs[j] = IF j = i THEN f ELSE calls[j]
      BY <1>1, <2>2, ReplaceInSeq
    <2>4. i + 1 \in 1..Len(cs) + 1 /\ (i + 1) - 1 = i
      BY <1>1, <2>3
    <2> HIDE DEF cs, f
    <2>5. Panicked' = {j \in 1..i : cs[j].status = "panicked"}
      BY <1>1, <2>1, <2>3, <2>4, ContinueKeepsPrefix
    <2>6. Panicked' \subseteq Panicked
      BY <1>1, <2>2, <2>3, <2>5 DEF Panicked
    <2> QED
      BY <1>1, <1>2, <2>6, FewerPanicked DEF CoverInv
  <1>5. CASE NextDeferredOfReturned
    <2> DEFINE cs == [calls EXCEPT ![i - 1] = calls[i]]
    <2>1. ContinueWith(calls[i - 1], i, cs) /\ i > 1 /\ calls[i].status # "panicked"
      BY <1>5 DEF NextDeferredOfReturned, MoreDeferred, AtStatus
    <2>2. i - 1 \in 1..Len(calls)
      BY <1>1, <2>1
    <2>3. calls[i - 1] \in Frame /\ calls[i - 1].kind \in Scriggo
      BY <1>1, <2>2, ElementOfSeq DEF CoverInv, FunctionInv, ScriggoFrames
    <2>4. cs \in Seq(Frame) /\ Len(cs) = Len(calls)
          /\ \A j \in 1..Len(calls) : cs[j] = IF j = i - 1 THEN calls[i] ELSE calls[j]
      BY <1>1, <2>2, ReplaceInSeq
    <2>5. i \in 1..Len(cs) + 1
      BY <1>1, <2>4
    <2> HIDE DEF cs
    <2>6. Panicked' = {j \in 1..i-1 : cs[j].status = "panicked"}
      BY <2>1, <2>3, <2>4, <2>5, ContinueKeepsPrefix
    <2>7. Panicked' \subseteq Panicked
      BY <1>1, <2>1, <2>4, <2>6 DEF Panicked
    <2> QED
      BY <1>1, <1>2, <2>7, FewerPanicked DEF CoverInv
  <1> QED
    BY <1>3, <1>4, <1>5

\* The panicked frame moves down, to where the deferred call was.
LEMMA CoverPanicked ==
    ASSUME CoverInv, SafeInv', NextPanicked
    PROVE  ChainCoversPanics'
  <1>1. calls \in Seq(Frame) /\ i \in 1..Len(calls) /\ Len(calls) \in Nat
        /\ calls[i] \in Frame /\ calls[i].status = "panicked" /\ chain' = chain /\ SafeInv
        /\ DOMAIN calls = 1..Len(calls)
    BY LoopIndex, LenProperties DEF CoverInv, FunctionInv, NextPanicked
  <1>2. PICK k \in 1..i-1 :
           ContinueWith(calls[k], IF calls[k].kind = "native" THEN k ELSE k + 1,
               [calls EXCEPT ![k] = [calls[k + 1] EXCEPT !.status = "panicked",
                                                         !.why = calls[i].why]])
    BY DEF NextPanicked
  <1> DEFINE f == [calls[k + 1] EXCEPT !.status = "panicked", !.why = calls[i].why]
             cs == [calls EXCEPT ![k] = f]
  <1>3. k \in 1..Len(calls) /\ k + 1 \in 1..Len(calls) /\ k < i
    BY <1>1, <1>2
  <1>4. calls[k] \in Frame /\ calls[k + 1] \in Frame /\ calls[k].kind \in Scriggo
    BY <1>1, <1>3, ElementOfSeq DEF CoverInv, FunctionInv, ScriggoFrames
  <1>5. f \in Frame
    BY <1>1, <1>4 DEF Frame, Statuses
  <1>6. ContinueWith(calls[k], k + 1, cs)
    BY <1>2, <1>4 DEF Scriggo
  <1> HIDE DEF f
  <1>7. cs \in Seq(Frame) /\ Len(cs) = Len(calls)
        /\ \A j \in 1..Len(calls) : cs[j] = IF j = k THEN f ELSE calls[j]
    BY <1>1, <1>3, <1>5, ReplaceInSeq
  <1>8. k + 1 \in 1..Len(cs) + 1 /\ (k + 1) - 1 = k
    BY <1>3, <1>7
  <1> HIDE DEF cs
  <1>9. Panicked' = {j \in 1..k : cs[j].status = "panicked"}
    BY <1>4, <1>6, <1>7, <1>8, ContinueKeepsPrefix
  <1> DEFINE others == Panicked \ {i}
  <1>10. Panicked' \subseteq others \cup {k}
    BY <1>3, <1>7, <1>9 DEF Panicked
  <1>11. IsFiniteSet(Panicked) /\ i \in Panicked
    BY <1>1, PanickedIsFinite DEF Panicked
  <1>12. /\ IsFiniteSet(others) /\ Cardinality(others) = Cardinality(Panicked) - 1
         /\ Cardinality(Panicked) \in Nat
    BY <1>11, FS_RemoveElement, FS_CardinalityType
  <1>13. IsFiniteSet(others \cup {k}) /\ Cardinality(others \cup {k}) <= Cardinality(others) + 1
    <2> HIDE DEF others
    <2>1. Cardinality(others) \in Nat
      BY <1>12, FS_CardinalityType
    <2>2. Cardinality(others \cup {k}) \in {Cardinality(others), Cardinality(others) + 1}
          /\ IsFiniteSet(others \cup {k})
      BY <1>12, FS_AddElement
    <2> QED
      BY <2>1, <2>2
  <1>14. Cardinality(Panicked') <= Cardinality(Panicked)
    <2>1. /\ Cardinality(Panicked') <= Cardinality(others \cup {k})
          /\ Cardinality(Panicked') \in Nat /\ Cardinality(others \cup {k}) \in Nat
      BY <1>10, <1>13, FS_Subset, FS_CardinalityType
    <2> QED
      BY <1>12, <1>13, <2>1
  <1>15. Cardinality(Panicked') \in Nat
    BY <1>10, <1>13, FS_Subset, FS_CardinalityType
  <1>16. Len(chain) \in Nat
    BY <1>1, LenProperties DEF SafeInv, TypeOK
  <1> QED
    BY <1>1, <1>12, <1>14, <1>15, <1>16 DEF CoverInv, ChainCoversPanics

LEMMA CoverPush ==
    ASSUME CoverInv, SafeInv', OpCallFunc \/ OpCallMacro \/ Defers
    PROVE  ChainCoversPanics'
  <1>1. SafeInv /\ calls \in Seq(Frame) /\ Len(calls) \in Nat /\ chain' = chain
        /\ cur \in Fn /\ rend \in Nat /\ made' \in Nat
    BY LenProperties DEF CoverInv, FunctionInv, SafeInv, TypeOK, Fn, OpCallFunc, OpCallMacro, Defers,
                         Enter, OpDefer
  <1>2. PICK fn \in Fn, st \in {"started", "deferred"}, r \in Nat :
           calls' = Append(calls, FrameOf(fn, st, r))
    <2>1. CASE OpCallFunc \/ OpCallMacro
      BY <1>1, <2>1 DEF OpCallFunc, OpCallMacro, Enter
    <2>2. CASE Defers
      <3>1. PICK kind \in {"func", "native", "recover"} :
               calls' = Append(calls, FrameOf([act |-> made', kind |-> kind], "deferred", rend))
        BY <2>2 DEF Defers, OpDefer
      <3>2. [act |-> made', kind |-> kind] \in Fn
        BY <1>1 DEF Fn, Kinds
      <3> QED
        BY <1>1, <3>1, <3>2
    <2> QED
      BY <2>1, <2>2
  <1>3. FrameOf(fn, st, r) \in Frame /\ FrameOf(fn, st, r).status # "panicked"
    BY FrameOfType DEF Statuses
  <1>4. /\ DOMAIN calls' = 1..Len(calls) + 1 /\ DOMAIN calls = 1..Len(calls)
        /\ \A j \in 1..Len(calls) : calls'[j] = calls[j]
        /\ calls'[Len(calls) + 1].status # "panicked"
    BY <1>1, <1>2, <1>3, AppendProperties, LenProperties
  <1>5. Panicked' \subseteq Panicked
    BY <1>1, <1>4 DEF Panicked
  <1>6. Len(chain) \in Nat
    BY <1>1, LenProperties DEF SafeInv, TypeOK
  <1> QED
    BY <1>1, <1>5, <1>6, FewerPanicked DEF CoverInv

LEMMA CoverPanic ==
    ASSUME CoverInv, SafeInv', OpPanic
    PROVE  ChainCoversPanics'
  <1> DEFINE f == [FrameOf(cur, "panicked", rend) EXCEPT !.why = thrown']
             link == [id |-> thrown', recovered |-> FALSE]
  <1>1. SafeInv /\ calls \in Seq(Frame) /\ Len(calls) \in Nat /\ thrown' \in Nat
    BY LenProperties DEF CoverInv, FunctionInv, SafeInv, TypeOK, OpPanic, LinksPanic, Throws
  <1>2. chain' = Append(chain, link) /\ chain \in Seq([id : Nat, recovered : BOOLEAN])
        /\ link \in [id : Nat, recovered : BOOLEAN]
    BY <1>1 DEF OpPanic, LinksPanic, SafeInv, TypeOK
  <1>3. Len(chain') = Len(chain) + 1 /\ Len(chain) \in Nat
    BY <1>2, AppendProperties, LenProperties
  <1>4. Panicked' \subseteq Panicked \cup {Len(calls) + 1}
    <2>1. CASE calls' = calls
      BY <2>1 DEF Panicked
    <2>2. CASE calls' = Append(calls, f)
      <3>1. /\ DOMAIN calls' = 1..Len(calls) + 1 /\ DOMAIN calls = 1..Len(calls)
            /\ \A j \in 1..Len(calls) : calls'[j] = calls[j]
        <4>1. f \in Frame
          <5>1. f = [act |-> cur.act, kind |-> cur.kind, status |-> "panicked",
                     rend |-> rend, why |-> thrown']
            BY DEF FrameOf
          <5> QED
            BY <1>1, <5>1 DEF SafeInv, TypeOK, Statuses, Frame
        <4> HIDE DEF f
        <4> QED
          BY <1>1, <2>2, <4>1, AppendProperties, LenProperties
      <3> QED
        BY <1>1, <3>1 DEF Panicked
    <2> QED
      BY <2>1, <2>2 DEF OpPanic, PushesPanicked
  <1>5. IsFiniteSet(Panicked) /\ Cardinality(Panicked) \in Nat
    BY <1>1, PanickedIsFinite
  <1>6. /\ IsFiniteSet(Panicked \cup {Len(calls) + 1})
        /\ Cardinality(Panicked \cup {Len(calls) + 1}) <= Cardinality(Panicked) + 1
        /\ Cardinality(Panicked \cup {Len(calls) + 1}) \in Nat
    <2>1. /\ IsFiniteSet(Panicked \cup {Len(calls) + 1})
          /\ \/ Cardinality(Panicked \cup {Len(calls) + 1}) = Cardinality(Panicked)
             \/ Cardinality(Panicked \cup {Len(calls) + 1}) = Cardinality(Panicked) + 1
      BY <1>5, FS_AddElement
    <2> HIDE DEF f, link
    <2> QED
      BY <1>5, <2>1
  <1>7. /\ Cardinality(Panicked') <= Cardinality(Panicked \cup {Len(calls) + 1})
        /\ Cardinality(Panicked') \in Nat
    BY <1>4, <1>6, FS_Subset, FS_CardinalityType
  <1>8. Cardinality(Panicked') <= Cardinality(Panicked) + 1
    BY <1>5, <1>6, <1>7
  <1>9. Cardinality(Panicked) <= Len(chain)
    BY DEF CoverInv, ChainCoversPanics
  <1> QED
    BY <1>3, <1>5, <1>7, <1>8, <1>9 DEF ChainCoversPanics

LEMMA CoverRecover ==
    ASSUME CoverInv, SafeInv', OpRecover \/ OpRecoverDown
    PROVE  ChainCoversPanics'
  <1>1. SafeInv /\ \E found : RecoverFrames(found)
    BY DEF OpRecover, OpRecoverDown, CoverInv, FunctionInv
  <1>2. PICK found : RecoverFrames(found)
    BY <1>1
  <1>3. calls \in Seq(Frame) /\ DOMAIN calls = 1..Len(calls)
        /\ chain \in Seq([id : Nat, recovered : BOOLEAN]) /\ Len(chain) \in Nat
    BY <1>1, LenProperties DEF SafeInv, TypeOK
  <1>4. \A j \in 1..Len(calls) : calls[j] \in Frame
    BY <1>3, ElementOfSeq
  <1>5. Panicked' \subseteq Panicked
    <2> SUFFICES ASSUME NEW j \in DOMAIN calls', calls'[j].status = "panicked"
                 PROVE  j \in Panicked
      BY DEF Panicked
    <2>1. j \in DOMAIN calls
      BY <1>2 DEF RecoverFrames
    <2>2. calls'[j] = calls[j]
      BY <1>2, <1>3, <1>4, <2>1 DEF RecoverFrames, Frame
    <2> QED
      BY <2>1, <2>2 DEF Panicked
  <1>6. Len(chain') = Len(chain)
    <2>1. CASE chain' = chain
      BY <2>1
    <2>2. CASE chain' # chain
      <3>1. chain' = [chain EXCEPT ![Len(chain)].recovered = TRUE]
        BY <1>2, <2>2 DEF RecoverFrames
      <3>2. DOMAIN chain' = DOMAIN chain
        BY <3>1
      <3> QED
        BY <1>3, <3>2, LenProperties DEF SafeInv, TypeOK
    <2> QED
      BY <2>1, <2>2
  <1> QED
    BY <1>1, <1>3, <1>5, <1>6, FewerPanicked DEF CoverInv

LEMMA CoverFinalized ==
    ASSUME CoverInv, SafeInv', NextFinalized
    PROVE  ChainCoversPanics'
  <1>1. SafeInv /\ Panicked' = Panicked
    BY DEF CoverInv, FunctionInv, NextFinalized, Panicked
  <1>2. Cardinality(Panicked) \in Nat
    BY <1>1, PanickedIsFinite
  <1>3. chain \in Seq([id : Nat, recovered : BOOLEAN]) /\ Len(chain) \in Nat
    BY <1>1, LenProperties DEF SafeInv, TypeOK
  <1>4. CASE chain' = chain
    BY <1>1, <1>4 DEF CoverInv, ChainCoversPanics
  <1>5. CASE Len(chain) > Cardinality(Panicked) /\ chain' = SubSeq(chain, 1, Cardinality(Panicked))
    <2>1. Cardinality(Panicked) + 1 \in 1..Len(chain) + 1
          /\ (Cardinality(Panicked) + 1) - 1 = Cardinality(Panicked)
      BY <1>2, <1>3, <1>5
    <2>2. Len(chain') = Cardinality(Panicked)
      BY <1>3, <1>5, <2>1, PrefixOfSeq
    <2> QED
      BY <1>1, <1>2, <2>2 DEF ChainCoversPanics
  <1> QED
    BY <1>4, <1>5 DEF NextFinalized, CutChain

LEMMA CoverReturn ==
    ASSUME CoverInv, SafeInv', ReturnToCaller
    PROVE  ChainCoversPanics'
  <1> DEFINE n == Len(calls)
  <1>1. SafeInv /\ chain' = chain /\ calls # <<>> /\ calls' = SubSeq(calls, 1, n - 1)
    BY DEF CoverInv, FunctionInv, ReturnToCaller
  <1>2. calls \in Seq(Frame) /\ n \in Nat /\ n # 0 /\ DOMAIN calls = 1..n
    BY <1>1, EmptySeq, LenProperties DEF SafeInv, TypeOK
  <1>3. n \in 1..n + 1
    BY <1>2
  <1>4. DOMAIN calls' = 1..n-1 /\ \A j \in 1..n-1 : calls'[j] = calls[j]
    BY <1>1, <1>2, <1>3, PrefixOfSeq, LenProperties
  <1> HIDE DEF n
  <1>5. Panicked' \subseteq Panicked
    BY <1>2, <1>4 DEF Panicked
  <1>6. Len(chain) \in Nat
    BY <1>1, LenProperties DEF SafeInv, TypeOK
  <1> QED
    BY <1>1, <1>5, <1>6, FewerPanicked DEF CoverInv

LEMMA CoverStep ==
    ASSUME "defer native" \notin Ops, CoverInv, [Next]_vars
    PROVE  CoverInv'
  <1>1. FunctionInv' /\ SafeInv' /\ SafeInv
    BY FunctionStep DEF CoverInv, FunctionInv
  <1>2. CASE OpCallFunc \/ OpCallMacro \/ Defers
    BY <1>1, <1>2, CoverPush DEF CoverInv
  <1>3. CASE OpPanic
    BY <1>1, <1>3, CoverPanic DEF CoverInv
  <1>4. CASE OpRecover \/ OpRecoverDown
    BY <1>1, <1>4, CoverRecover DEF CoverInv
  <1>5. CASE ReturnToCaller
    BY <1>1, <1>5, CoverReturn DEF CoverInv
  <1>6. CASE NextStarted \/ NextDeferred \/ NextDeferredOfReturned
    BY <1>1, <1>6, CoverLoop DEF CoverInv
  <1>7. CASE NextPanicked
    BY <1>1, <1>7, CoverPanicked DEF CoverInv
  <1>8. CASE NextFinalized
    BY <1>1, <1>8, CoverFinalized DEF CoverInv
  <1>9. CASE Other
    <2>1. UNCHANGED <<calls, chain>>
      BY <1>9 DEF Other, Exit, ReturnFromMain, ReturnToNextCall, NextDeferredNil, NextNone,
                  NativeReturns, NativeFails, NativeStops, vars
    <2> QED
      BY <1>1, <2>1 DEF CoverInv, ChainCoversPanics, Panicked
  <1>10. ~NativeNil
    BY DEF NativeNil, CoverInv, FunctionInv
  <1> QED
    BY <1>2, <1>3, <1>4, <1>5, <1>6, <1>7, <1>8, <1>9, <1>10
       DEF Next, Execute, NextCall, Native, Ended, Other

LEMMA CoverInit == Init => CoverInv
  <1> SUFFICES ASSUME Init PROVE CoverInv
    OBVIOUS
  <1>1. calls = <<>> /\ chain = <<>>
    BY DEF Init
  <1>2. Panicked = {}
    BY <1>1 DEF Panicked
  <1>3. Cardinality(Panicked) = 0 /\ Len(chain) = 0
    BY <1>1, <1>2, FS_EmptySet
  <1> QED
    BY <1>3, FunctionInit DEF CoverInv, ChainCoversPanics

\* However panics replace each other and are recovered, nextCall never takes from the chain more
\* panics than those in excess of the panicked frames.
THEOREM ChainAlwaysCoversPanics ==
    ASSUME "defer native" \notin Ops
    PROVE  Spec => []ChainCoversPanics
  <1>1. CoverInv /\ [Next]_vars => CoverInv'
    BY CoverStep
  <1>2. CoverInv => ChainCoversPanics
    BY DEF CoverInv
  <1> QED
    BY <1>1, <1>2, CoverInit, PTL DEF Spec

-----------------------------------------------------------------------------
(***************************************************************************)
(* The renderers.  A frame has the renderer of its function, or none.  A   *)
(* function that is called keeps the renderer of its caller, so that the   *)
(* caller has its own when OpReturn does not restore it; a macro may have  *)
(* another, and OpReturn restores that of the caller.  Who called whom is  *)
(* read in the frames: between the caller and the function that it called  *)
(* there are only the calls that this one deferred.  The frames above the  *)
(* index of nextCall count as the others do: a nil native function panics  *)
(* on top of them.                                                         *)
(***************************************************************************)
Mine(fn, r) == fn.act \in 1..made /\ r \in {home[fn.act], 0}
Inherits(caller, callee) == callee.kind # "macro" => home[callee.act] \in {home[caller.act], 0}

CalledBy(cs, j, k) ==
    cs[j].status = "started" /\ \A m \in j+1..k-1 : cs[m].status = "deferred"
Linked(cs, n) ==
    \A k \in 1..n : \A j \in 1..k-1 :
        cs[k].status = "started" /\ CalledBy(cs, j, k) => Inherits(cs[j], cs[k])
LinkedTo(cs, n, fn) == \A j \in 1..n : CalledBy(cs, j, n + 1) => Inherits(cs[j], fn)

RendererInv ==
    /\ SafeInv
    /\ Len(home) = made
    /\ phase \in {"run", "return"} => cur # Nil
    /\ cur # Nil => Mine(cur, rend)
    /\ \A j \in 1..Len(calls) : Mine(calls[j], calls[j].rend)
    /\ Linked(calls, Len(calls))
    /\ phase \in {"run", "return"} => LinkedTo(calls, Len(calls), cur)

LEMMA RendererFacts ==
    ASSUME RendererInv
    PROVE  /\ calls \in Seq(Frame) /\ Len(calls) \in Nat /\ \A j \in 1..Len(calls) : calls[j] \in Frame
           /\ cur \in Fn /\ rend \in Nat /\ made \in Nat /\ home \in Seq(Nat) /\ i \in Nat
  BY LenProperties, ElementOfSeq DEF RendererInv, SafeInv, TypeOK, Fn

\* Frames that are replaced by one that is neither a caller nor a deferred call do not matter.
LEMMA Relink ==
    ASSUME NEW cs, NEW ds, NEW n \in Nat, Linked(cs, n),
           \A j \in 1..n : ds[j] = cs[j] \/ ds[j].status \notin {"started", "deferred"}
    PROVE  Linked(ds, n)
  <1> SUFFICES ASSUME NEW k \in 1..n, NEW j \in 1..k-1, ds[k].status = "started", CalledBy(ds, j, k)
               PROVE  Inherits(ds[j], ds[k])
    BY DEF Linked
  <1>1. ds[k] = cs[k] /\ ds[j] = cs[j]
    BY DEF CalledBy
  <1>2. CalledBy(cs, j, k)
    <2>1. \A m \in j+1..k-1 : m \in 1..n /\ ds[m].status = "deferred"
      BY DEF CalledBy
    <2> QED
      BY <1>1, <2>1 DEF CalledBy
  <1> QED
    BY <1>1, <1>2 DEF Linked

\* Nobody called the function that runs on top of a frame that is neither.
LEMMA NobodyCalled ==
    ASSUME NEW cs, NEW n \in Nat, n > 0, cs[n].status \notin {"started", "deferred"}, NEW fn
    PROVE  LinkedTo(cs, n, fn)
  <1> SUFFICES ASSUME NEW j \in 1..n, CalledBy(cs, j, n + 1) PROVE FALSE
    BY DEF LinkedTo
  <1> QED
    BY DEF CalledBy

\* A frame that becomes the running function was called by the same one.
LEMMA CallerOfFrame ==
    ASSUME NEW cs, NEW n \in Nat, NEW k \in 1..n, Linked(cs, n), cs[k].status = "started",
           NEW ds, \A j \in 1..k-1 : ds[j] = cs[j],
           NEW fn, fn.act = cs[k].act, fn.kind = cs[k].kind
    PROVE  LinkedTo(ds, k - 1, fn)
  <1> SUFFICES ASSUME NEW j \in 1..k-1, CalledBy(ds, j, (k - 1) + 1) PROVE Inherits(ds[j], fn)
    BY DEF LinkedTo
  <1>1. CalledBy(cs, j, k)
    BY DEF CalledBy
  <1>2. Inherits(cs[j], cs[k])
    BY <1>1 DEF Linked
  <1> QED
    BY <1>2 DEF Inherits

LEMMA RendererInit == Init => RendererInv
  <1> SUFFICES ASSUME Init PROVE RendererInv
    OBVIOUS
  <1>1. /\ calls = <<>> /\ cur = [act |-> 1, kind |-> "func"] /\ phase = "run" /\ made = 1
        /\ home = <<rend>>
    BY DEF Init
  <1>2. Len(home) = made /\ home[1] = rend /\ cur # Nil /\ Mine(cur, rend)
    BY <1>1 DEF Mine, Nil
  <1>3. Len(calls) = 0
    BY <1>1
  <1> QED
    BY <1>1, <1>2, <1>3, SafeInit DEF RendererInv, Linked, LinkedTo

\* What follows the switch of nextCall: k - 1 frames are left to look at.
LEMMA RendererContinue ==
    ASSUME RendererInv, SafeInv', NEW call \in Frame, Mine(call, call.rend),
           NEW cs \in Seq(Frame), NEW k \in 1..Len(cs) + 1, ContinueWith(call, k, cs),
           UNCHANGED hist, \A j \in 1..Len(cs) : Mine(cs[j], cs[j].rend),
           Linked(cs, Len(cs)), call.kind # "native" => LinkedTo(cs, k - 1, call)
    PROVE  RendererInv'
  <1>1. made' = made /\ home' = home /\ Len(cs) \in Nat /\ k - 1 \in Nat
    BY LenProperties DEF hist
  <1>2. CASE call.kind = "native"
    <2>1. calls' = cs /\ i' = k /\ phase' = "native" /\ cur' = cur /\ rend' = rend
      BY <1>2 DEF ContinueWith
    <2>2. Linked(calls, Len(calls))'
      BY <1>1, <2>1 DEF Linked, CalledBy, Inherits
    <2> QED
      BY <1>1, <2>1, <2>2 DEF RendererInv, Mine
  <1>3. CASE call.kind # "native"
    <2>1. calls' = SubSeq(cs, 1, k - 1) /\ cur' = FunctionOf(call) /\ rend' = call.rend /\ phase' = "run"
      BY <1>3 DEF ContinueWith
    <2>2. Len(calls') = k - 1 /\ \A j \in 1..k-1 : calls'[j] = cs[j]
      BY <2>1, PrefixOfSeq
    <2>3. Linked(cs, k - 1)
      BY <1>1 DEF Linked
    <2>4. Linked(calls', k - 1)
      BY <1>1, <2>2, <2>3, Relink
    <2>5. Linked(calls, Len(calls))'
      BY <1>1, <2>2, <2>4 DEF Linked, Inherits, CalledBy
    <2>6. cur'.act = call.act /\ cur'.kind = call.kind
      BY <2>1 DEF FunctionOf
    <2>7. LinkedTo(calls, Len(calls), cur)'
      <3>1. ASSUME NEW j \in 1..k-1, CalledBy(calls', j, (k - 1) + 1) PROVE Inherits(calls'[j], cur')
        <4>1. CalledBy(cs, j, (k - 1) + 1)
          BY <2>2, <3>1 DEF CalledBy
        <4>2. Inherits(cs[j], call)
          BY <1>3, <4>1 DEF LinkedTo
        <4> QED
          BY <2>2, <2>6, <4>2 DEF Inherits
      <3>2. \A j \in 1..Len(calls') : CalledBy(calls', j, Len(calls') + 1) => Inherits(calls'[j], cur')
        BY <2>2, <3>1
      <3> QED
        BY <1>1, <3>2 DEF LinkedTo, CalledBy, Inherits
    <2>8. Mine(cur, rend)' /\ cur' # Nil
      BY <1>1, <2>1, <2>6 DEF Mine, Nil
    <2>9. \A j \in 1..Len(calls') : Mine(calls[j], calls[j].rend)'
      BY <1>1, <2>2 DEF Mine
    <2> QED
      BY <1>1, <2>1, <2>5, <2>7, <2>8, <2>9 DEF RendererInv
  <1> QED
    BY <1>2, <1>3

LEMMA RendererLoop ==
    ASSUME RendererInv, SafeInv', NextStarted \/ NextDeferred \/ NextDeferredOfReturned
    PROVE  RendererInv'
  <1>1. /\ calls \in Seq(Frame) /\ i \in 1..Len(calls) /\ Len(calls) \in Nat /\ calls[i] \in Frame
        /\ UNCHANGED hist /\ phase = "next"
    BY LoopIndex DEF RendererInv, NextStarted, NextDeferred, NextDeferredOfReturned, AtStatus
  <1>2. Linked(calls, Len(calls)) /\ \A j \in 1..Len(calls) : Mine(calls[j], calls[j].rend)
    BY DEF RendererInv
  <1>3. CASE NextStarted
    <2>1. calls[i].status = "started" /\ ContinueWith(calls[i], i, calls) /\ i \in 1..Len(calls) + 1
      BY <1>1, <1>3 DEF NextStarted, AtStatus
    <2>2. LinkedTo(calls, i - 1, calls[i])
      BY <1>1, <1>2, <2>1, CallerOfFrame
    <2> QED
      BY <1>1, <1>2, <2>1, <2>2, RendererContinue
  <1>4. CASE NextDeferred
    <2> DEFINE f == FrameOf(cur, "returned", rend)
               cs == [calls EXCEPT ![i] = f]
    <2>1. ContinueWith(calls[i], i + 1, cs) /\ cur # Nil
      BY <1>4 DEF NextDeferred
    <2>2. f \in Frame /\ f.status = "returned" /\ f.act = cur.act /\ f.rend = rend
      BY RendererFacts, FrameOfType DEF Statuses, FrameOf
    <2>3. cs \in Seq(Frame) /\ Len(cs) = Len(calls)
          /\ \A j \in 1..Len(calls) : cs[j] = IF j = i THEN f ELSE calls[j]
      BY <1>1, <2>2, ReplaceInSeq
    <2>4. i + 1 \in 1..Len(cs) + 1 /\ (i + 1) - 1 = i /\ i \in Nat /\ i > 0
      BY <1>1, <2>3
    <2> HIDE DEF cs, f
    <2>5. Mine(f, f.rend)
      BY <2>1, <2>2 DEF RendererInv, Mine
    <2>6. \A j \in 1..Len(cs) : Mine(cs[j], cs[j].rend)
      BY <1>2, <2>3, <2>5
    <2>7. \A j \in 1..Len(calls) : cs[j] = calls[j] \/ cs[j].status \notin {"started", "deferred"}
      BY <1>1, <2>2, <2>3
    <2>8. Linked(cs, Len(cs))
      BY <1>1, <1>2, <2>3, <2>7, Relink
    <2>9. LinkedTo(cs, i, calls[i])
      BY <1>1, <2>2, <2>3, <2>4, NobodyCalled
    <2> QED
      BY <1>1, <1>2, <2>1, <2>3, <2>4, <2>6, <2>8, <2>9, RendererContinue
  <1>5. CASE NextDeferredOfReturned
    <2> DEFINE cs == [calls EXCEPT ![i - 1] = calls[i]]
    <2>1. ContinueWith(calls[i - 1], i, cs) /\ i > 1 /\ calls[i].status \in {"returned", "recovered"}
      BY <1>5 DEF NextDeferredOfReturned, MoreDeferred, AtStatus
    <2>2. i - 1 \in 1..Len(calls) /\ i - 1 \in Nat /\ i - 1 > 0
      BY <1>1, <2>1
    <2>3. calls[i - 1] \in Frame
      BY <1>1, <2>2, ElementOfSeq
    <2>4. cs \in Seq(Frame) /\ Len(cs) = Len(calls)
          /\ \A j \in 1..Len(calls) : cs[j] = IF j = i - 1 THEN calls[i] ELSE calls[j]
      BY <1>1, <2>2, ReplaceInSeq
    <2>5. i \in 1..Len(cs) + 1
      BY <1>1, <2>4
    <2> HIDE DEF cs
    <2>6. \A j \in 1..Len(cs) : Mine(cs[j], cs[j].rend)
      BY <1>1, <1>2, <2>4
    <2>7. \A j \in 1..Len(calls) : cs[j] = calls[j] \/ cs[j].status \notin {"started", "deferred"}
      BY <1>1, <2>1, <2>4
    <2>8. Linked(cs, Len(cs))
      BY <1>1, <1>2, <2>4, <2>7, Relink
    <2>9. LinkedTo(cs, i - 1, calls[i - 1])
      BY <2>1, <2>2, <2>4, NobodyCalled
    <2> QED
      BY <1>1, <1>2, <2>1, <2>2, <2>3, <2>4, <2>5, <2>6, <2>8, <2>9, RendererContinue
  <1> QED
    BY <1>3, <1>4, <1>5

LEMMA RendererPanicked ==
    ASSUME RendererInv, SafeInv', NextPanicked
    PROVE  RendererInv'
  <1>1. /\ calls \in Seq(Frame) /\ i \in 1..Len(calls) /\ Len(calls) \in Nat /\ calls[i] \in Frame
        /\ UNCHANGED hist /\ phase = "next"
    BY LoopIndex DEF RendererInv, NextPanicked, AtStatus
  <1>2. Linked(calls, Len(calls)) /\ \A j \in 1..Len(calls) : Mine(calls[j], calls[j].rend)
    BY DEF RendererInv
  <1>3. PICK k \in 1..i-1 :
           ContinueWith(calls[k], IF calls[k].kind = "native" THEN k ELSE k + 1,
               [calls EXCEPT ![k] = [calls[k + 1] EXCEPT !.status = "panicked",
                                                         !.why = calls[i].why]])
    BY DEF NextPanicked
  <1> DEFINE f == [calls[k + 1] EXCEPT !.status = "panicked", !.why = calls[i].why]
             cs == [calls EXCEPT ![k] = f]
             next == IF calls[k].kind = "native" THEN k ELSE k + 1
  <1>4. k \in 1..Len(calls) /\ k + 1 \in 1..Len(calls) /\ k \in Nat /\ k > 0 /\ k < i
    BY <1>1, <1>3
  <1>5. calls[k] \in Frame /\ calls[k + 1] \in Frame
    BY <1>1, <1>4, ElementOfSeq
  <1>6. f \in Frame /\ f.act = calls[k + 1].act /\ f.rend = calls[k + 1].rend /\ f.status = "panicked"
    BY <1>1, <1>5 DEF Frame, Statuses
  <1>7. ContinueWith(calls[k], next, cs)
    BY <1>3
  <1> HIDE DEF f
  <1>8. cs \in Seq(Frame) /\ Len(cs) = Len(calls)
        /\ \A j \in 1..Len(calls) : cs[j] = IF j = k THEN f ELSE calls[j]
    BY <1>1, <1>4, <1>6, ReplaceInSeq
  <1> HIDE DEF cs
  <1>9. \A j \in 1..Len(cs) : Mine(cs[j], cs[j].rend)
    BY <1>2, <1>4, <1>6, <1>8 DEF Mine
  <1>10. \A j \in 1..Len(calls) : cs[j] = calls[j] \/ cs[j].status \notin {"started", "deferred"}
    BY <1>6, <1>8
  <1>11. Linked(cs, Len(cs))
    BY <1>1, <1>2, <1>8, <1>10, Relink
  <1>12. Mine(calls[k], calls[k].rend)
    BY <1>2, <1>4
  <1>13. CASE calls[k].kind = "native"
    <2>1. next = k /\ k \in 1..Len(cs) + 1
      BY <1>4, <1>8, <1>13
    <2>2. ContinueWith(calls[k], k, cs)
      BY <1>7, <2>1
    <2> HIDE DEF next
    <2> QED
      BY <1>1, <1>5, <1>8, <1>9, <1>11, <1>12, <1>13, <2>1, <2>2, RendererContinue
  <1>14. CASE calls[k].kind # "native"
    <2>1. next = k + 1 /\ k + 1 \in 1..Len(cs) + 1
      BY <1>4, <1>8, <1>14
    <2>2. LinkedTo(cs, k, calls[k])
      BY <1>4, <1>6, <1>8, NobodyCalled
    <2>3. LinkedTo(cs, (k + 1) - 1, calls[k])
      <3>1. (k + 1) - 1 = k
        BY <1>4
      <3> QED
        BY <2>2, <3>1
    <2>4. ContinueWith(calls[k], k + 1, cs)
      BY <1>7, <2>1
    <2> HIDE DEF next
    <2> QED
      BY <1>1, <1>5, <1>8, <1>9, <1>11, <1>12, <2>1, <2>3, <2>4, RendererContinue
  <1> QED
    BY <1>13, <1>14

LEMMA RendererEnter ==
    ASSUME RendererInv, SafeInv', phase = "run", NEW kind \in {"func", "macro"}, NEW saved \in {0, rend},
           NEW r \in Nat, kind = "func" => r = rend, Enter(kind, saved, r)
    PROVE  RendererInv'
  <1> DEFINE f == FrameOf(cur, "started", saved)
             n == Len(calls)
  <1>1. /\ calls' = Append(calls, f) /\ cur' = [act |-> made', kind |-> kind] /\ rend' = r
        /\ made' = made + 1 /\ home' = Append(home, r) /\ phase' = "run"
    BY DEF Enter
  <1>2. /\ calls \in Seq(Frame) /\ n \in Nat /\ cur \in Fn /\ rend \in Nat /\ made \in Nat
        /\ home \in Seq(Nat) /\ Len(home) = made /\ Mine(cur, rend)
        /\ Linked(calls, n) /\ LinkedTo(calls, n, cur)
        /\ \A j \in 1..n : Mine(calls[j], calls[j].rend)
    BY RendererFacts DEF RendererInv
  <1>3. /\ f \in Frame /\ f.status = "started" /\ f.act = cur.act /\ f.kind = cur.kind /\ f.rend = saved
    BY <1>2, FrameOfType DEF Statuses, FrameOf
  <1> HIDE DEF f
  <1>4. /\ Len(home') = made' /\ home'[made'] = r
        /\ \A a \in 1..made : home'[a] = home[a]
    BY <1>1, <1>2, AppendProperties
  <1>5. /\ Len(calls') = n + 1 /\ calls'[n + 1] = f /\ \A j \in 1..n : calls'[j] = calls[j]
    BY <1>1, <1>2, <1>3, AppendProperties
  <1>6. Mine(cur, rend)' /\ cur' # Nil
    BY <1>1, <1>2, <1>4 DEF Mine, Nil
  <1>7. \A j \in 1..Len(calls') : Mine(calls[j], calls[j].rend)'
    BY <1>1, <1>2, <1>3, <1>4, <1>5 DEF Mine
  <1>8. Linked(calls', n + 1)
    <2> SUFFICES ASSUME NEW k \in 1..n+1, NEW j \in 1..k-1, calls'[k].status = "started",
                        CalledBy(calls', j, k)
                 PROVE  Inherits(calls'[j], calls'[k])
      BY DEF Linked
    <2>1. j \in 1..n /\ \A m \in j+1..k-1 : m \in 1..n
      BY <1>2
    <2>2. CalledBy(calls, j, k) /\ calls'[j] = calls[j]
      <3>1. calls'[j] = calls[j] /\ \A m \in j+1..k-1 : calls'[m] = calls[m]
        BY <1>5, <2>1
      <3> QED
        BY <3>1 DEF CalledBy
    <2>3. CASE k = n + 1
      <3>1. j \in 1..n /\ CalledBy(calls, j, n + 1)
        BY <1>2, <2>2, <2>3
      <3>2. Inherits(calls[j], cur)
        BY <1>2, <3>1 DEF LinkedTo
      <3>3. calls'[k].act = cur.act /\ calls'[k].kind = cur.kind
        BY <1>3, <1>5, <2>3
      <3> QED
        BY <2>2, <3>2, <3>3 DEF Inherits
    <2>4. CASE k # n + 1
      <3>1. k \in 1..n /\ calls'[k] = calls[k]
        BY <1>2, <1>5, <2>4
      <3>2. Inherits(calls[j], calls[k])
        BY <1>2, <2>2, <3>1 DEF Linked
      <3> QED
        BY <2>2, <3>1, <3>2
    <2> QED
      BY <2>3, <2>4
  <1>9. Linked(calls, Len(calls))'
    <2> SUFFICES ASSUME NEW k \in 1..n+1, NEW j \in 1..k-1, calls'[k].status = "started",
                        CalledBy(calls', j, k)
                 PROVE  Inherits(calls[j], calls[k])'
      BY <1>5 DEF Linked, CalledBy
    <2>1. Inherits(calls'[j], calls'[k])
      BY <1>8 DEF Linked
    <2>2. \A m \in 1..n+1 : calls'[m].act \in 1..made
      <3>1. \A m \in 1..n : calls'[m].act \in 1..made
        BY <1>2, <1>5 DEF Mine
      <3>2. calls'[n + 1].act \in 1..made
        BY <1>2, <1>3, <1>5 DEF Mine
      <3> QED
        BY <1>2, <3>1, <3>2
    <2>3. j \in 1..n+1
      BY <1>2
    <2> QED
      BY <1>4, <2>1, <2>2, <2>3 DEF Inherits
  <1>10. LinkedTo(calls, Len(calls), cur)'
    <2>0. Len(calls') + 1 = n + 2
      BY <1>2, <1>5
    <2> SUFFICES ASSUME NEW j \in 1..n+1, CalledBy(calls', j, n + 2) PROVE Inherits(calls[j], cur)'
      BY <1>5, <2>0 DEF LinkedTo, CalledBy
    <2>1. j = n + 1
      <3>1. CASE j # n + 1
        <4>1. n + 1 \in j+1..(n + 2)-1
          BY <1>2, <3>1
        <4> QED
          BY <1>3, <1>5, <4>1 DEF CalledBy
      <3> QED
        BY <3>1
    <2> QED
      BY <1>1, <1>2, <1>3, <1>4, <1>5, <2>1 DEF Inherits, Mine
  <1> QED
    BY <1>1, <1>4, <1>6, <1>7, <1>9, <1>10 DEF RendererInv

LEMMA RendererDefer ==
    ASSUME RendererInv, SafeInv', NEW op, NEW kind \in Kinds, OpDefer(op, kind)
    PROVE  RendererInv'
  <1> DEFINE f == FrameOf([act |-> made', kind |-> kind], "deferred", rend)
             n == Len(calls)
  <1>1. /\ calls' = Append(calls, f) /\ cur' = cur /\ rend' = rend /\ phase = "run"
        /\ made' = made + 1 /\ home' = Append(home, rend) /\ phase' = "run"
    BY DEF OpDefer, Executes
  <1>2. /\ calls \in Seq(Frame) /\ n \in Nat /\ cur \in Fn /\ rend \in Nat /\ made \in Nat
        /\ home \in Seq(Nat) /\ Len(home) = made /\ Mine(cur, rend) /\ cur # Nil
        /\ Linked(calls, n) /\ LinkedTo(calls, n, cur)
        /\ \A j \in 1..n : Mine(calls[j], calls[j].rend)
    BY <1>1, RendererFacts DEF RendererInv
  <1>3. [act |-> made', kind |-> kind] \in Fn
    BY <1>1, <1>2 DEF Fn
  <1>4. f \in Frame /\ f.status = "deferred" /\ f.act = made' /\ f.rend = rend
    BY <1>2, <1>3, FrameOfType DEF Statuses, FrameOf
  <1> HIDE DEF f
  <1>5. /\ Len(home') = made' /\ home'[made'] = rend
        /\ \A a \in 1..made : home'[a] = home[a]
    BY <1>1, <1>2, AppendProperties
  <1>6. /\ Len(calls') = n + 1 /\ calls'[n + 1] = f /\ \A j \in 1..n : calls'[j] = calls[j]
    BY <1>1, <1>2, <1>4, AppendProperties
  <1>7. \A j \in 1..Len(calls') : Mine(calls[j], calls[j].rend)'
    BY <1>1, <1>2, <1>4, <1>5, <1>6 DEF Mine
  <1>8. Linked(calls, Len(calls))'
    <2> SUFFICES ASSUME NEW k \in 1..n+1, NEW j \in 1..k-1, calls'[k].status = "started",
                        CalledBy(calls', j, k)
                 PROVE  Inherits(calls[j], calls[k])'
      BY <1>6 DEF Linked, CalledBy
    <2>1. k \in 1..n /\ j \in 1..n
      <3>1. k # n + 1
        BY <1>4, <1>6
      <3> QED
        BY <1>2, <3>1
    <2>2. CalledBy(calls, j, k)
      <3>1. \A m \in j+1..k-1 : m \in 1..n
        BY <1>2, <2>1
      <3> QED
        BY <1>6, <2>1, <3>1 DEF CalledBy
    <2>3. Inherits(calls[j], calls[k])
      BY <1>2, <1>6, <2>1, <2>2 DEF Linked
    <2> QED
      BY <1>2, <1>5, <1>6, <2>1, <2>3 DEF Inherits, Mine
  <1>9. LinkedTo(calls, Len(calls), cur)'
    <2>0. Len(calls') + 1 = n + 2
      BY <1>2, <1>6
    <2> SUFFICES ASSUME NEW j \in 1..n+1, CalledBy(calls', j, n + 2) PROVE Inherits(calls[j], cur)'
      BY <1>6, <2>0 DEF LinkedTo, CalledBy
    <2>1. j \in 1..n
      BY <1>2, <1>4, <1>6 DEF CalledBy
    <2>2. CalledBy(calls, j, n + 1)
      <3>1. \A m \in j+1..(n + 1)-1 : m \in 1..n /\ m \in j+1..(n + 2)-1
        BY <1>2, <2>1
      <3> QED
        BY <1>6, <2>1, <3>1 DEF CalledBy
    <2>3. Inherits(calls[j], cur)
      BY <2>1, <2>2, <1>2 DEF LinkedTo
    <2> QED
      BY <1>1, <1>2, <1>5, <1>6, <2>1, <2>3 DEF Inherits, Mine
  <1>10. Mine(cur, rend)'
    BY <1>1, <1>2, <1>5 DEF Mine
  <1> QED
    BY <1>1, <1>2, <1>5, <1>7, <1>8, <1>9, <1>10 DEF RendererInv

LEMMA RendererPanic ==
    ASSUME RendererInv, SafeInv', OpPanic \/ NativeNil
    PROVE  RendererInv'
  <1> DEFINE f == [FrameOf(cur, "panicked", rend) EXCEPT !.why = thrown']
             n == Len(calls)
  <1>1. /\ calls \in Seq(Frame) /\ n \in Nat /\ cur \in Fn /\ rend \in Nat /\ thrown' \in Nat
        /\ Mine(cur, rend) /\ Linked(calls, n) /\ \A j \in 1..n : Mine(calls[j], calls[j].rend)
        /\ UNCHANGED <<rend, made, home>>
    <2>1. LinksPanic /\ cur # Nil
      BY DEF OpPanic, NativeNil, Executes, RendererInv
    <2> QED
      BY <2>1, RendererFacts DEF RendererInv, LinksPanic, Throws, SafeInv, TypeOK
  <1>2. CASE phase' = "done" /\ UNCHANGED <<calls, cur>>
    BY <1>1, <1>2 DEF RendererInv, Mine, Linked, CalledBy, Inherits
  <1>3. CASE PushesPanicked
    <2>1. calls' = Append(calls, f) /\ cur' = Nil /\ i' = Len(calls') /\ phase' = "next"
      BY <1>3 DEF PushesPanicked
    <2>2. f = [act |-> cur.act, kind |-> cur.kind, status |-> "panicked",
               rend |-> rend, why |-> thrown']
      BY DEF FrameOf
    <2>3. f \in Frame
      BY <1>1, <2>2 DEF Fn, Statuses, Frame
    <2>4. f.status = "panicked" /\ f.act = cur.act /\ f.rend = rend
      BY <2>2
    <2> HIDE DEF f
    <2>5. /\ Len(calls') = n + 1 /\ calls'[n + 1] = f /\ \A j \in 1..n : calls'[j] = calls[j]
      BY <1>1, <2>1, <2>3, AppendProperties
    <2>6. \A j \in 1..Len(calls') : Mine(calls[j], calls[j].rend)'
      BY <1>1, <2>4, <2>5 DEF Mine
    <2>7. Linked(calls, Len(calls))'
      <3> SUFFICES ASSUME NEW k \in 1..n+1, NEW j \in 1..k-1, calls'[k].status = "started",
                          CalledBy(calls', j, k)
                   PROVE  Inherits(calls[j], calls[k])'
        BY <2>5 DEF Linked, CalledBy
      <3>1. k \in 1..n /\ j \in 1..n
        BY <1>1, <2>4, <2>5
      <3>2. CalledBy(calls, j, k)
        <4>1. \A m \in j+1..k-1 : m \in 1..n
          BY <1>1, <3>1
        <4> QED
          BY <2>5, <3>1, <4>1 DEF CalledBy
      <3>3. Inherits(calls[j], calls[k])
        BY <1>1, <2>5, <3>1, <3>2 DEF Linked
      <3> QED
        BY <1>1, <2>5, <3>1, <3>3 DEF Inherits
    <2> QED
      BY <1>1, <2>1, <2>6, <2>7 DEF RendererInv
  <1> QED
    BY <1>2, <1>3 DEF OpPanic, NativeNil

LEMMA RendererRecover ==
    ASSUME RendererInv, SafeInv', OpRecover \/ OpRecoverDown
    PROVE  RendererInv'
  <1>1. PICK found \in {Recoverable(Len(calls)),
                        Recoverable(IF Last(calls).status = "panicked" THEN 0 ELSE Len(calls) - 1)} :
           RecoverFrames(found)
    BY DEF OpRecover, OpRecoverDown
  <1>2. /\ UNCHANGED <<cur, rend, made, home>> /\ phase = "run" /\ phase' \in {"run", "return"}
    BY DEF OpRecover, OpRecoverDown, Executes, hist
  <1>3. /\ calls \in Seq(Frame) /\ Len(calls) \in Nat /\ DOMAIN calls = 1..Len(calls)
        /\ \A j \in 1..Len(calls) : calls[j] \in Frame
        /\ Linked(calls, Len(calls)) /\ LinkedTo(calls, Len(calls), cur) /\ Mine(cur, rend) /\ cur # Nil
        /\ \A j \in 1..Len(calls) : Mine(calls[j], calls[j].rend)
    BY <1>2, RendererFacts, LenProperties DEF RendererInv
  <1>4. Len(calls') = Len(calls)
    BY <1>1, RecoverPreserves DEF RendererInv
  <1>5. \A j \in found : calls[j].status = "panicked"
    BY <1>1 DEF Recoverable
  <1>6. \A j \in 1..Len(calls) :
           /\ calls'[j].act = calls[j].act /\ calls'[j].rend = calls[j].rend
           /\ calls'[j] = calls[j] \/ (calls[j].status = "panicked" /\ calls'[j].status = "recovered")
    BY <1>1, <1>3, <1>5 DEF RecoverFrames, Frame
  <1>7. \A j \in 1..Len(calls') : Mine(calls[j], calls[j].rend)'
    BY <1>2, <1>3, <1>4, <1>6 DEF Mine
  <1>8. Linked(calls', Len(calls))
    <2>1. \A j \in 1..Len(calls) : calls'[j] = calls[j] \/ calls'[j].status \notin {"started", "deferred"}
      BY <1>6
    <2> QED
      BY <1>3, <2>1, Relink
  <1>9. Linked(calls, Len(calls))'
    BY <1>2, <1>4, <1>8 DEF Linked, CalledBy, Inherits
  <1>10. LinkedTo(calls, Len(calls), cur)'
    <2> SUFFICES ASSUME NEW j \in 1..Len(calls), CalledBy(calls', j, Len(calls) + 1)
                 PROVE  Inherits(calls[j], cur)'
      BY <1>4 DEF LinkedTo, CalledBy
    <2>1. CalledBy(calls, j, Len(calls) + 1)
      <3>1. \A m \in j+1..(Len(calls) + 1)-1 : m \in 1..Len(calls)
        BY <1>3
      <3> QED
        BY <1>6, <3>1 DEF CalledBy
    <2>2. Inherits(calls[j], cur)
      BY <1>3, <2>1 DEF LinkedTo
    <2> QED
      BY <1>2, <1>6, <2>2 DEF Inherits
  <1>11. Mine(cur, rend)'
    BY <1>2, <1>3 DEF Mine
  <1> QED
    BY <1>2, <1>3, <1>7, <1>9, <1>10, <1>11 DEF RendererInv

\* The function that goes on has its renderer also when OpReturn has not restored it.
LEMMA RendererReturn ==
    ASSUME RendererInv, SafeInv', ReturnToCaller
    PROVE  RendererInv'
  <1> DEFINE n == Len(calls)
  <1>1. /\ calls # <<>> /\ calls[n].status = "started" /\ phase \in {"run", "return"}
        /\ rend' = IF cur.kind = "macro" THEN calls[n].rend ELSE rend
        /\ calls' = SubSeq(calls, 1, n - 1) /\ cur' = FunctionOf(calls[n]) /\ phase' = "run"
        /\ UNCHANGED <<made, home>>
    BY DEF ReturnToCaller, Returning, Last, hist
  <1>2. /\ calls \in Seq(Frame) /\ n \in Nat /\ n # 0
        /\ Linked(calls, n) /\ LinkedTo(calls, n, cur) /\ Mine(cur, rend)
        /\ \A j \in 1..n : Mine(calls[j], calls[j].rend)
    BY <1>1, RendererFacts, EmptySeq DEF RendererInv
  <1>3. n \in 1..n /\ n \in 1..n + 1
    BY <1>2
  <1>4. Len(calls') = n - 1 /\ \A j \in 1..n-1 : calls'[j] = calls[j]
    BY <1>1, <1>2, <1>3, PrefixOfSeq
  <1>5. cur'.act = calls[n].act /\ cur'.kind = calls[n].kind
    BY <1>1 DEF FunctionOf
  <1>6. Mine(cur, rend)' /\ cur' # Nil
    <2>1. Mine(calls[n], calls[n].rend)
      BY <1>2, <1>3
    <2>2. CalledBy(calls, n, n + 1)
      BY <1>1, <1>2 DEF CalledBy
    <2>3. Inherits(calls[n], cur)
      BY <1>2, <1>3, <2>2 DEF LinkedTo
    <2> QED
      BY <1>1, <1>2, <1>5, <2>1, <2>3 DEF Mine, Inherits, Nil
  <1>7. \A j \in 1..Len(calls') : Mine(calls[j], calls[j].rend)'
    BY <1>1, <1>2, <1>4 DEF Mine
  <1>8. Linked(calls', n - 1)
    <2>1. Linked(calls, n - 1)
      BY <1>2 DEF Linked
    <2> QED
      BY <1>2, <1>4, <2>1, Relink
  <1>9. LinkedTo(calls', n - 1, cur')
    BY <1>1, <1>2, <1>3, <1>4, <1>5, CallerOfFrame
  <1>10. Linked(calls, Len(calls))' /\ LinkedTo(calls, Len(calls), cur)'
    BY <1>1, <1>4, <1>8, <1>9 DEF Linked, LinkedTo, CalledBy, Inherits
  <1> QED
    BY <1>1, <1>6, <1>7, <1>10 DEF RendererInv

LEMMA RendererOther ==
    ASSUME RendererInv, SafeInv', Other \/ NextFinalized
    PROVE  RendererInv'
  <1>1. /\ UNCHANGED <<calls, cur, rend, made, home>> /\ Len(calls) \in Nat /\ i \in Nat
    BY RendererFacts DEF Other, Exit, ReturnFromMain, ReturnToNextCall, NextDeferredNil, NextNone,
           NativeReturns, NativeFails, NativeStops, NextFinalized, vars, hist
  <1>2. \A j \in 1..Len(calls') : Mine(calls[j], calls[j].rend)'
    BY <1>1 DEF RendererInv, Mine
  <1>3. cur' # Nil => Mine(cur, rend)'
    BY <1>1 DEF RendererInv, Mine
  <1>4. Linked(calls, Len(calls))'
    BY <1>1 DEF RendererInv, Linked, CalledBy, Inherits
  <1>5. (phase' = phase /\ UNCHANGED vars) \/ phase' \notin {"run", "return"}
    <2>1. CASE Exit \/ ReturnFromMain \/ NextDeferredNil \/ NextNone \/ NativeFails \/ NativeStops
      BY <2>1 DEF Exit, ReturnFromMain, NextDeferredNil, NextNone, NativeFails, NativeStops
    <2>2. CASE ReturnToNextCall \/ NativeReturns \/ NextFinalized
      BY <2>2 DEF ReturnToNextCall, NativeReturns, NextFinalized, AtStatus
    <2> QED
      BY <2>1, <2>2 DEF Other, vars
  <1>6. phase' \in {"run", "return"} => cur' # Nil /\ LinkedTo(calls, Len(calls), cur)'
    BY <1>1, <1>5 DEF RendererInv, LinkedTo, CalledBy, Inherits
  <1> QED
    BY <1>1, <1>2, <1>3, <1>4, <1>6 DEF RendererInv

LEMMA RendererStep == RendererInv /\ [Next]_vars => RendererInv'
  <1> SUFFICES ASSUME RendererInv, [Next]_vars PROVE RendererInv'
    OBVIOUS
  <1>1. SafeInv' /\ rend \in Nat /\ made + 1 \in Nat
    BY StepPreserves, RendererFacts DEF RendererInv
  <1>2. CASE OpCallFunc
    BY <1>1, <1>2, RendererEnter DEF OpCallFunc, Executes
  <1>3. CASE OpCallMacro
    <2>1. PICK r \in {rend, made + 1} : phase = "run" /\ Enter("macro", rend, r)
      BY <1>3 DEF OpCallMacro, Executes
    <2> QED
      BY <1>1, <2>1, RendererEnter
  <1>4. CASE Defers
    BY <1>1, <1>4, RendererDefer DEF Defers, Kinds
  <1>5. CASE OpPanic \/ NativeNil
    BY <1>1, <1>5, RendererPanic
  <1>6. CASE OpRecover \/ OpRecoverDown
    BY <1>1, <1>6, RendererRecover
  <1>7. CASE ReturnToCaller
    BY <1>1, <1>7, RendererReturn
  <1>8. CASE NextStarted \/ NextDeferred \/ NextDeferredOfReturned
    BY <1>1, <1>8, RendererLoop
  <1>9. CASE NextPanicked
    BY <1>1, <1>9, RendererPanicked
  <1>10. CASE Other \/ NextFinalized
    BY <1>1, <1>10, RendererOther
  <1> QED
    BY <1>2, <1>3, <1>4, <1>5, <1>6, <1>7, <1>8, <1>9, <1>10
       DEF Next, Execute, NextCall, Native, Ended, Other

\* Whatever functions, macros and deferred calls do, natives included, a function that writes has
\* its own renderer or none, never that of a function it called or was called by.
THEOREM NeverForeignRenderer == Spec => []NoForeignRenderer
  <1>1. RendererInv => NoForeignRenderer
    BY DEF RendererInv, Mine, NoForeignRenderer
  <1> QED
    BY <1>1, RendererInit, RendererStep, PTL DEF Spec

-----------------------------------------------------------------------------
(***************************************************************************)
(* Proof that the flat array of VMCalls implements the stack of GoDefer,   *)
(* for every program that defers no native function: step by step, every   *)
(* instruction and every turn of nextCall is a step of Go, or none.        *)
(*                                                                         *)
(* GoStack selects the frames that are activations.  What it says of an    *)
(* array is read from an enumeration of them (Enumerates), and the steps   *)
(* need it only of an array with a frame more on top: a deferred call      *)
(* (PushDeferred) or an activation, that takes those below (PushOwner).    *)
(***************************************************************************)

-----------------------------------------------------------------------------
(***************************************************************************)
(* The activations of a sequence of frames, by an enumeration of them.     *)
(***************************************************************************)
Enumerates(o, fs) ==
  /\ o \in Seq(Nat)
  /\ \A n \in 1..Len(o) : o[n] \in Owners(fs)
  /\ \A m, n \in 1..Len(o) : m < n => o[m] < o[n]
  /\ \A j \in Owners(fs) : \E n \in 1..Len(o) : o[n] = j

\* What the n-th activation comes after.
Previous(o, n) == IF n = 1 THEN 0 ELSE o[n - 1]
LastOf(o) == IF Len(o) = 0 THEN 0 ELSE o[Len(o)]

LEMMA OwnersInside ==
    ASSUME NEW fs \in Seq(Frame), NEW j \in Owners(fs)
    PROVE  j \in 1..Len(fs) /\ j \in Nat /\ fs[j] \in Frame /\ fs[j].status # "deferred"
  BY LenProperties, ElementOfSeq DEF Owners

Less == OpToRel(<, Nat)

LEMMA Smallest ==
    ASSUME NEW S, S \subseteq Nat, S # {}
    PROVE  \E x \in S : \A y \in S : x <= y
  <1>1. IsWellFoundedOn(Less, Nat)
    BY NatLessThanWellFounded DEF Less
  <1>2. PICK x \in S : \A y \in S : ~(<<y, x>> \in Less)
    BY <1>1, WFMin
  <1>3. \A y \in S : x \in Nat /\ y \in Nat /\ ~(y < x)
    BY <1>2 DEF Less, OpToRel
  <1> QED
    BY <1>3

LEMMA AddDeferred ==
    ASSUME NEW fs \in Seq(Frame), NEW f \in Frame, f.status = "deferred", NEW o, Enumerates(o, fs)
    PROVE  Enumerates(o, Append(fs, f))
  <1>1. /\ Len(fs) \in Nat /\ Len(Append(fs, f)) = Len(fs) + 1 /\ Append(fs, f)[Len(fs) + 1] = f
        /\ \A j \in 1..Len(fs) : Append(fs, f)[j] = fs[j]
    BY AppendProperties, LenProperties
  <1>2. Owners(Append(fs, f)) = Owners(fs)
    <2>1. DOMAIN fs = 1..Len(fs) /\ DOMAIN Append(fs, f) = 1..Len(fs) + 1
      BY <1>1, AppendProperties, LenProperties
    <2> QED
      BY <1>1, <2>1 DEF Owners
  <1> QED
    BY <1>2 DEF Enumerates

LEMMA AddOwner ==
    ASSUME NEW fs \in Seq(Frame), NEW f \in Frame, f.status # "deferred", NEW o, Enumerates(o, fs)
    PROVE  Enumerates(Append(o, Len(fs) + 1), Append(fs, f))
  <1> DEFINE N == Len(fs) + 1
             p == Append(o, N)
  <1>1. /\ Len(fs) \in Nat /\ Len(Append(fs, f)) = N /\ Append(fs, f)[N] = f
        /\ \A j \in 1..Len(fs) : Append(fs, f)[j] = fs[j]
    BY AppendProperties, LenProperties
  <1>2. Owners(Append(fs, f)) = Owners(fs) \cup {N}
    <2>1. DOMAIN fs = 1..Len(fs) /\ DOMAIN Append(fs, f) = 1..N
      BY <1>1, AppendProperties, LenProperties
    <2> QED
      BY <1>1, <2>1 DEF Owners
  <1>3. /\ o \in Seq(Nat) /\ Len(o) \in Nat /\ p \in Seq(Nat) /\ Len(p) = Len(o) + 1 /\ p[Len(o) + 1] = N
        /\ \A n \in 1..Len(o) : p[n] = o[n]
    BY <1>1, AppendProperties, LenProperties DEF Enumerates
  <1>4. \A j \in Owners(fs) : j \in Nat /\ j < N
    BY <1>1, OwnersInside
  <1>5. \A n \in 1..Len(o) : o[n] \in Owners(fs)
    BY DEF Enumerates
  <1>6. \A n \in 1..Len(p) : n = Len(o) + 1 \/ n \in 1..Len(o)
    BY <1>3
  <1> HIDE DEF p, N
  <1>7. \A n \in 1..Len(p) : p[n] \in Owners(Append(fs, f))
    BY <1>2, <1>3, <1>5, <1>6
  <1>8. ASSUME NEW m \in 1..Len(p), NEW n \in 1..Len(p), m < n
        PROVE  p[m] < p[n]
    <2>1. m \in 1..Len(o)
      BY <1>3, <1>8
    <2>2. p[m] = o[m] /\ o[m] \in Owners(fs)
      BY <1>3, <1>5, <2>1
    <2>3. CASE n = Len(o) + 1
      BY <1>3, <1>4, <2>2, <2>3
    <2>4. CASE n \in 1..Len(o)
      BY <1>3, <1>8, <2>1, <2>4 DEF Enumerates
    <2> QED
      BY <1>6, <2>3, <2>4
  <1>9. \A j \in Owners(Append(fs, f)) : \E n \in 1..Len(p) : p[n] = j
    <2>1. \A j \in Owners(fs) : \E n \in 1..Len(o) : o[n] = j
      BY DEF Enumerates
    <2>2. \A n \in 1..Len(o) : n \in 1..Len(p)
      BY <1>3
    <2>3. Len(o) + 1 \in 1..Len(p)
      BY <1>3
    <2> QED
      BY <1>2, <1>3, <2>1, <2>2, <2>3
  <1> QED
    BY <1>3, <1>7, <1>8, <1>9 DEF Enumerates, p, N

\* A sequence of frames is its last frame after the others.
LEMMA LastFrame ==
    ASSUME NEW S, NEW s \in Seq(S), NEW n \in 1..Len(s)
    PROVE  /\ SubSeq(s, 1, n - 1) \in Seq(S) /\ Len(SubSeq(s, 1, n - 1)) = n - 1
           /\ s[n] \in S /\ SubSeq(s, 1, n) = Append(SubSeq(s, 1, n - 1), s[n])
  <1>1. Len(s) \in Nat /\ n \in Nat /\ n \in 1..Len(s) + 1 /\ n + 1 \in 1..Len(s) + 1 /\ (n + 1) - 1 = n
    BY LenProperties
  <1>2. /\ SubSeq(s, 1, n - 1) \in Seq(S) /\ Len(SubSeq(s, 1, n - 1)) = n - 1
        /\ \A j \in 1..n - 1 : SubSeq(s, 1, n - 1)[j] = s[j]
    BY <1>1, PrefixOfSeq
  <1>3. /\ SubSeq(s, 1, n) \in Seq(S) /\ Len(SubSeq(s, 1, n)) = n
        /\ \A j \in 1..n : SubSeq(s, 1, n)[j] = s[j]
    BY <1>1, PrefixOfSeq
  <1>4. s[n] \in S
    BY ElementOfSeq
  <1>5. /\ Append(SubSeq(s, 1, n - 1), s[n]) \in Seq(S) /\ Len(Append(SubSeq(s, 1, n - 1), s[n])) = n
        /\ \A j \in 1..n - 1 : Append(SubSeq(s, 1, n - 1), s[n])[j] = s[j]
        /\ Append(SubSeq(s, 1, n - 1), s[n])[n] = s[n]
    BY <1>1, <1>2, <1>4, AppendProperties
  <1>6. \A j \in 1..n : Append(SubSeq(s, 1, n - 1), s[n])[j] = SubSeq(s, 1, n)[j]
    BY <1>1, <1>3, <1>5
  <1> QED
    BY <1>2, <1>3, <1>4, <1>5, <1>6, SeqEqual

LEMMA HasEnumeration ==
    ASSUME NEW fs \in Seq(Frame)
    PROVE  \E o : Enumerates(o, fs)
  <1> DEFINE without == {n \in Nat : \E gs \in Seq(Frame) : Len(gs) = n /\ ~\E o : Enumerates(o, gs)}
  <1>1. without = {}
    <2>1. SUFFICES ASSUME without # {}
                   PROVE  FALSE
      OBVIOUS
    <2>2. PICK n \in without : \A m \in without : n <= m
      BY <2>1, Smallest
    <2>3. PICK gs \in Seq(Frame) : Len(gs) = n /\ ~\E o : Enumerates(o, gs)
      OBVIOUS
    <2>4. n \in Nat
      OBVIOUS
    <2>5. CASE n = 0
      <3>1. gs = <<>>
        BY <2>3, <2>5, EmptySeq
      <3>2. Owners(gs) = {}
        BY <2>3, <2>5, LenProperties DEF Owners
      <3>3. Enumerates(<<>>, gs)
        BY <3>2, EmptySeq DEF Enumerates
      <3> QED
        BY <2>3, <3>3
    <2>6. CASE n # 0
      <3> DEFINE hs == SubSeq(gs, 1, n - 1)
                 f == gs[n]
      <3>1. n \in 1..Len(gs)
        BY <2>3, <2>4, <2>6
      <3>2. hs \in Seq(Frame) /\ Len(hs) = n - 1 /\ f \in Frame /\ SubSeq(gs, 1, n) = Append(hs, f)
        BY <3>1, LastFrame
      <3>3. gs = SubSeq(gs, 1, n)
        <4>1. n + 1 \in 1..Len(gs) + 1 /\ (n + 1) - 1 = n
          BY <2>3, <2>4
        <4>2. SubSeq(gs, 1, n) \in Seq(Frame) /\ Len(SubSeq(gs, 1, n)) = n /\ \A j \in 1..n : SubSeq(gs, 1, n)[j] = gs[j]
          BY <4>1, PrefixOfSeq
        <4> QED
          BY <2>3, <4>2, SeqEqual
      <3>4. n - 1 \in Nat /\ ~(n <= n - 1)
        BY <2>4, <2>6
      <3>5. n - 1 \notin without
        BY <2>2, <3>4
      <3>6. PICK o : Enumerates(o, hs)
        BY <3>2, <3>4, <3>5
      <3> HIDE DEF hs, f
      <3>7. \E p : Enumerates(p, Append(hs, f))
        BY <3>2, <3>6, AddDeferred, AddOwner
      <3> QED
        BY <2>3, <3>2, <3>3, <3>7
    <2> QED
      BY <2>5, <2>6
  <1>2. Len(fs) \in Nat
    BY LenProperties
  <1> QED
    BY <1>1, <1>2

\* The first n activations are n.
LEMMA CountFirst ==
    ASSUME NEW fs \in Seq(Frame), NEW o, Enumerates(o, fs), NEW n \in 0..Len(o)
    PROVE  Cardinality({o[m] : m \in 1..n}) = n
  <1> DEFINE T == {o[m] : m \in 1..n}
             f == [m \in 1..n |-> o[m]]
  <1>1. o \in Seq(Nat) /\ Len(o) \in Nat /\ \A m \in 1..n : m \in 1..Len(o) /\ o[m] \in Nat
    <2>1. o \in Seq(Nat) /\ Len(o) \in Nat
      BY LenProperties DEF Enumerates
    <2>2. \A m \in 1..n : m \in 1..Len(o)
      BY <2>1
    <2> QED
      BY <2>1, <2>2, ElementOfSeq
  <1>2. \A m, k \in 1..n : m # k => o[m] # o[k]
    <2> SUFFICES ASSUME NEW m \in 1..n, NEW k \in 1..n, m # k
                 PROVE  o[m] # o[k]
      OBVIOUS
    <2>1. m < k \/ k < m
      OBVIOUS
    <2> QED
      BY <1>1, <2>1 DEF Enumerates
  <1>3. f \in Injection(1..n, T)
    BY <1>2 DEF Injection, IsInjective
  <1>4. f \in Surjection(1..n, T)
    BY DEF Surjection
  <1>5. ExistsBijection(1..n, T)
    BY <1>3, <1>4 DEF ExistsBijection, Bijection
  <1>6. IsFiniteSet(1..n) /\ Cardinality(1..n) = n
    BY FS_Interval
  <1> QED
    BY <1>5, <1>6, FS_Bijection

\* The enumeration has every activation at its place.
LEMMA OwnerAt ==
    ASSUME NEW fs \in Seq(Frame), NEW o, Enumerates(o, fs)
    PROVE  /\ Cardinality(Owners(fs)) = Len(o)
           /\ \A n \in 1..Len(o) : Owner(fs, n) = o[n] /\ Before(fs, n) = Previous(o, n)
  <1>1. o \in Seq(Nat) /\ Len(o) \in Nat /\ \A m \in 1..Len(o) : o[m] \in Nat
    BY LenProperties, ElementOfSeq DEF Enumerates
  <1>2. Owners(fs) = {o[m] : m \in 1..Len(o)}
    BY DEF Enumerates
  <1>3. Cardinality(Owners(fs)) = Len(o)
    BY <1>1, <1>2, CountFirst
  <1>4. ASSUME NEW n \in 1..Len(o)
        PROVE  Cardinality({k \in Owners(fs) : k <= o[n]}) = n
    <2>1. {k \in Owners(fs) : k <= o[n]} = {o[m] : m \in 1..n}
      <3>1. \A m \in 1..n : m \in 1..Len(o) /\ o[m] <= o[n]
        <4> SUFFICES ASSUME NEW m \in 1..n PROVE m \in 1..Len(o) /\ o[m] <= o[n]
          OBVIOUS
        <4>1. m \in 1..Len(o) /\ (m = n \/ m < n)
          BY <1>1
        <4>2. m < n => o[m] < o[n]
          BY <4>1 DEF Enumerates
        <4> QED
          BY <1>1, <4>1, <4>2
      <3>2. \A m \in 1..Len(o) : o[m] <= o[n] => m \in 1..n
        <4> SUFFICES ASSUME NEW m \in 1..Len(o), o[m] <= o[n] PROVE m \in 1..n
          OBVIOUS
        <4>1. n < m => o[n] < o[m]
          BY DEF Enumerates
        <4> QED
          BY <1>1, <4>1
      <3> QED
        BY <1>2, <3>1, <3>2
    <2>2. n \in 0..Len(o)
      BY <1>1
    <2> QED
      BY <2>1, <2>2, CountFirst
  <1>5. ASSUME NEW n \in 1..Len(o)
        PROVE  Owner(fs, n) = o[n]
    <2>1. o[n] \in Owners(fs) /\ Cardinality({k \in Owners(fs) : k <= o[n]}) = n
      BY <1>2, <1>4
    <2>2. \A j \in Owners(fs) : Cardinality({k \in Owners(fs) : k <= j}) = n => j = o[n]
      <3> SUFFICES ASSUME NEW j \in Owners(fs), Cardinality({k \in Owners(fs) : k <= j}) = n
                   PROVE  j = o[n]
        OBVIOUS
      <3>1. PICK m \in 1..Len(o) : j = o[m]
        BY <1>2
      <3>2. m = n
        BY <1>4, <3>1
      <3> QED
        BY <3>1, <3>2
    <2> QED
      BY <2>1, <2>2 DEF Owner
  <1>6. ASSUME NEW n \in 1..Len(o)
        PROVE  Before(fs, n) = Previous(o, n)
    <2>1. n = 1 \/ n - 1 \in 1..Len(o)
      BY <1>1
    <2> QED
      BY <1>5, <2>1 DEF Before, Previous
  <1> QED
    BY <1>3, <1>5, <1>6

\* The deferred calls that the next activation will own.
Pending(fs) == Between(fs, Before(fs, Cardinality(Owners(fs)) + 1), Len(fs) + 1)

LEMMA StackBy ==
    ASSUME NEW fs \in Seq(Frame), NEW o, Enumerates(o, fs)
    PROVE  /\ GoStack(fs) = [n \in 1..Len(o) |-> GoActivation(fs[o[n]], Between(fs, Previous(o, n), o[n]))]
           /\ Pending(fs) = Between(fs, LastOf(o), Len(fs) + 1)
           /\ o \in Seq(Nat) /\ Len(o) \in Nat /\ LastOf(o) \in 0..Len(fs)
           /\ \A n \in 1..Len(o) : o[n] \in 1..Len(fs) /\ Previous(o, n) \in 0..o[n]-1
  <1>1. o \in Seq(Nat) /\ Len(o) \in Nat /\ Len(fs) \in Nat
    BY LenProperties DEF Enumerates
  <1>2. \A n \in 1..Len(o) : o[n] \in 1..Len(fs) /\ o[n] \in Nat
    BY OwnersInside DEF Enumerates
  <1>3. \A n \in 1..Len(o) : Previous(o, n) \in 0..o[n]-1
    <2> SUFFICES ASSUME NEW n \in 1..Len(o) PROVE Previous(o, n) \in 0..o[n]-1
      OBVIOUS
    <2>1. CASE n = 1
      BY <1>2, <2>1 DEF Previous
    <2>2. CASE n # 1
      <3>1. n - 1 \in 1..Len(o) /\ n - 1 < n
        BY <1>1, <2>2
      <3>2. o[n - 1] < o[n]
        BY <3>1 DEF Enumerates
      <3> QED
        BY <1>2, <2>2, <3>1, <3>2 DEF Previous
    <2> QED
      BY <2>1, <2>2
  <1>4. LastOf(o) \in 0..Len(fs)
    <2>1. Len(o) = 0 \/ Len(o) \in 1..Len(o)
      BY <1>1
    <2> QED
      BY <1>1, <1>2, <2>1 DEF LastOf
  <1>5. Cardinality(Owners(fs)) = Len(o) /\ \A n \in 1..Len(o) : Owner(fs, n) = o[n] /\ Before(fs, n) = Previous(o, n)
    BY OwnerAt
  <1>6. GoStack(fs) = [n \in 1..Len(o) |-> GoActivation(fs[o[n]], Between(fs, Previous(o, n), o[n]))]
    BY <1>5 DEF GoStack
  <1>7. Before(fs, Len(o) + 1) = LastOf(o)
    <2>1. CASE Len(o) = 0
      BY <2>1 DEF Before, LastOf
    <2>2. CASE Len(o) # 0
      <3>1. Len(o) \in 1..Len(o) /\ (Len(o) + 1) - 1 = Len(o) /\ Len(o) + 1 # 1
        BY <1>1, <2>2
      <3> QED
        BY <1>5, <2>2, <3>1 DEF Before, LastOf
    <2> QED
      BY <2>1, <2>2
  <1>8. Pending(fs) = Between(fs, LastOf(o), Len(fs) + 1)
    BY <1>5, <1>7 DEF Pending
  <1> QED
    BY <1>1, <1>2, <1>3, <1>4, <1>6, <1>8

-----------------------------------------------------------------------------
(***************************************************************************)
(* The stack of Go that a sequence of frames is, one frame at a time.      *)
(***************************************************************************)
Modes == {"body", "return", "panic"}
Call == [id : Nat, kind : Kinds]
Act == [id : Nat, kind : Kinds, mode : Modes, why : Nat, defers : Seq(Call)]

LEMMA BetweenIs ==
    ASSUME NEW fs \in Seq(Frame), NEW j \in 0..Len(fs), NEW k \in j+1..Len(fs)+1
    PROVE  /\ Between(fs, j, k) \in Seq(Call)
           /\ Len(Between(fs, j, k)) = k - j - 1
           /\ \A d \in 1..k - j - 1 : Between(fs, j, k)[d] = GoDeferred(fs[j + d])
  <1>1. Len(fs) \in Nat /\ k - j - 1 \in Nat
    BY LenProperties
  <1>2. \A d \in 1..k - j - 1 : GoDeferred(fs[j + d]) \in Call
    <2> SUFFICES ASSUME NEW d \in 1..k - j - 1 PROVE GoDeferred(fs[j + d]) \in Call
      OBVIOUS
    <2>1. j + d \in 1..Len(fs)
      BY <1>1
    <2>2. fs[j + d] \in Frame
      BY <2>1, ElementOfSeq
    <2> QED
      BY <2>2 DEF GoDeferred, GoKind, Frame, Call, Kinds
  <1>3. Between(fs, j, k) \in [1..k - j - 1 -> Call]
    BY <1>2 DEF Between
  <1> QED
    BY <1>1, <1>3, FunctionIsSeq DEF Between

LEMMA ActivationType ==
    ASSUME NEW f \in Frame, f.status # "deferred", NEW ds \in Seq(Call)
    PROVE  /\ GoActivation(f, ds) \in Act
           /\ GoActivation(f, ds).defers = ds
           /\ GoActivation(f, ds).mode = Mode(f)
           /\ GoActivation(f, ds).kind = GoKind(f)
  <1>1. f.status \in {"started", "returned", "panicked", "recovered"} /\ f.act \in Nat /\ f.why \in Nat
        /\ f.kind \in Kinds
    BY DEF Frame, Statuses
  <1>2. Mode(f) \in Modes /\ GoKind(f) \in Kinds
    BY <1>1 DEF Mode, Modes, GoKind, Kinds
  <1> QED
    BY <1>1, <1>2 DEF GoActivation, Act

LEMMA StackType ==
    ASSUME NEW fs \in Seq(Frame)
    PROVE  GoStack(fs) \in Seq(Act) /\ Pending(fs) \in Seq(Call)
  <1>1. PICK o : Enumerates(o, fs)
    BY HasEnumeration
  <1> DEFINE ds(n) == Between(fs, Previous(o, n), o[n])
  <1>2. /\ GoStack(fs) = [n \in 1..Len(o) |-> GoActivation(fs[o[n]], ds(n))]
        /\ Pending(fs) = Between(fs, LastOf(o), Len(fs) + 1)
        /\ Len(o) \in Nat /\ LastOf(o) \in 0..Len(fs) /\ Len(fs) \in Nat
        /\ \A n \in 1..Len(o) : o[n] \in 1..Len(fs) /\ Previous(o, n) \in 0..o[n]-1
    BY <1>1, StackBy, LenProperties
  <1>3. \A n \in 1..Len(o) : GoActivation(fs[o[n]], ds(n)) \in Act
    <2> SUFFICES ASSUME NEW n \in 1..Len(o) PROVE GoActivation(fs[o[n]], ds(n)) \in Act
      OBVIOUS
    <2>1. fs[o[n]] \in Frame /\ fs[o[n]].status # "deferred"
      BY <1>1, OwnersInside DEF Enumerates
    <2>2. Previous(o, n) \in 0..Len(fs) /\ o[n] \in Previous(o, n)+1..Len(fs)+1
      BY <1>2
    <2>3. ds(n) \in Seq(Call)
      BY <2>2, BetweenIs
    <2> QED
      BY <2>1, <2>3, ActivationType
  <1> HIDE DEF ds
  <1>4. GoStack(fs) \in [1..Len(o) -> Act]
    BY <1>2, <1>3
  <1>5. GoStack(fs) \in Seq(Act)
    BY <1>2, <1>4, FunctionIsSeq
  <1>6. Len(fs) + 1 \in LastOf(o)+1..Len(fs)+1
    BY <1>2
  <1> QED
    BY <1>2, <1>5, <1>6, BetweenIs

\* Between two frames nothing changes when a frame is pushed.
LEMMA BetweenAppend ==
    ASSUME NEW fs \in Seq(Frame), NEW f \in Frame, NEW j \in 0..Len(fs), NEW k \in j+1..Len(fs)+1
    PROVE  Between(Append(fs, f), j, k) = Between(fs, j, k)
  <1>1. Len(fs) \in Nat
    BY LenProperties
  <1>2. \A d \in 1..k - j - 1 : Append(fs, f)[j + d] = fs[j + d]
    <2> SUFFICES ASSUME NEW d \in 1..k - j - 1 PROVE Append(fs, f)[j + d] = fs[j + d]
      OBVIOUS
    <2>1. j + d \in 1..Len(fs)
      BY <1>1
    <2> QED
      BY <2>1, AppendProperties
  <1> QED
    BY <1>2 DEF Between

\* A deferred call waits for the next activation.
LEMMA PushDeferred ==
    ASSUME NEW fs \in Seq(Frame), NEW f \in Frame, f.status = "deferred"
    PROVE  /\ GoStack(Append(fs, f)) = GoStack(fs)
           /\ Pending(Append(fs, f)) = Append(Pending(fs), GoDeferred(f))
  <1> DEFINE gs == Append(fs, f)
             N == Len(fs)
  <1>1. gs \in Seq(Frame) /\ N \in Nat /\ Len(gs) = N + 1 /\ gs[N + 1] = f /\ \A j \in 1..N : gs[j] = fs[j]
    BY AppendProperties, LenProperties
  <1>2. PICK o : Enumerates(o, fs)
    BY HasEnumeration
  <1>3. Enumerates(o, gs)
    BY <1>2, AddDeferred
  <1> DEFINE ds(n) == Between(fs, Previous(o, n), o[n])
             es(n) == Between(gs, Previous(o, n), o[n])
  <1>4. /\ GoStack(fs) = [n \in 1..Len(o) |-> GoActivation(fs[o[n]], ds(n))]
        /\ Pending(fs) = Between(fs, LastOf(o), N + 1)
        /\ Len(o) \in Nat /\ LastOf(o) \in 0..N
        /\ \A n \in 1..Len(o) : o[n] \in 1..N /\ Previous(o, n) \in 0..o[n]-1
    BY <1>2, StackBy
  <1>5. /\ GoStack(gs) = [n \in 1..Len(o) |-> GoActivation(gs[o[n]], es(n))]
        /\ Pending(gs) = Between(gs, LastOf(o), Len(gs) + 1)
    BY <1>1, <1>3, StackBy
  <1>6. \A n \in 1..Len(o) : es(n) = ds(n) /\ gs[o[n]] = fs[o[n]]
    <2> SUFFICES ASSUME NEW n \in 1..Len(o) PROVE es(n) = ds(n) /\ gs[o[n]] = fs[o[n]]
      OBVIOUS
    <2>1. Previous(o, n) \in 0..N /\ o[n] \in Previous(o, n)+1..N+1 /\ o[n] \in 1..N
      BY <1>1, <1>4
    <2> QED
      BY <1>1, <2>1, BetweenAppend
  <1> HIDE DEF ds, es, gs
  <1>7. GoStack(gs) = GoStack(fs)
    BY <1>4, <1>5, <1>6
  <1>8. Pending(gs) = Append(Pending(fs), GoDeferred(f))
    <2> DEFINE l == LastOf(o)
               p == Pending(fs)
               q == Pending(gs)
    <2>1. l \in 0..N /\ l \in 0..Len(gs) /\ N + 1 \in l+1..N+1 /\ Len(gs) + 1 \in l+1..Len(gs)+1
      BY <1>1, <1>4
    <2>0. p = Between(fs, l, N + 1) /\ q = Between(gs, l, Len(gs) + 1) /\ fs \in Seq(Frame) /\ gs \in Seq(Frame)
      BY <1>1, <1>4, <1>5
    <2> HIDE DEF l, p, q, gs, N
    <2>2. /\ p \in Seq(Call) /\ Len(p) = (N + 1) - l - 1
          /\ \A d \in 1..(N + 1) - l - 1 : p[d] = GoDeferred(fs[l + d])
      BY <2>0, <2>1, BetweenIs DEF N
    <2>3. /\ q \in Seq(Call) /\ Len(q) = (Len(gs) + 1) - l - 1
          /\ \A d \in 1..(Len(gs) + 1) - l - 1 : q[d] = GoDeferred(gs[l + d])
      BY <2>0, <2>1, BetweenIs
    <2>4. GoDeferred(f) \in Call
      BY DEF GoDeferred, GoKind, Frame, Call, Kinds
    <2>9. Len(p) \in Nat /\ Len(q) \in Nat /\ l \in Nat /\ Len(p) = N - l /\ Len(q) = (N - l) + 1
      BY <1>1, <2>1, <2>2, <2>3
    <2>5. /\ Append(p, GoDeferred(f)) \in Seq(Call) /\ Len(Append(p, GoDeferred(f))) = Len(p) + 1
          /\ Append(p, GoDeferred(f))[Len(p) + 1] = GoDeferred(f)
          /\ \A d \in 1..Len(p) : Append(p, GoDeferred(f))[d] = p[d]
      BY <2>2, <2>4, AppendProperties
    <2>6. \A d \in 1..Len(q) : q[d] = Append(p, GoDeferred(f))[d]
      <3> SUFFICES ASSUME NEW d \in 1..Len(q) PROVE q[d] = Append(p, GoDeferred(f))[d]
        OBVIOUS
      <3>1. q[d] = GoDeferred(gs[l + d])
        BY <2>3
      <3>2. CASE d = Len(p) + 1
        <4>1. l + d = N + 1
          BY <1>1, <2>9, <3>2
        <4> QED
          BY <1>1, <2>5, <3>1, <3>2, <4>1 DEF gs, N
      <3>3. CASE d # Len(p) + 1
        <4>1. d \in 1..Len(p) /\ d \in 1..(N + 1) - l - 1 /\ l + d \in 1..N
          BY <1>1, <2>9, <3>3
        <4>2. gs[l + d] = fs[l + d]
          BY <1>1, <4>1 DEF N
        <4> QED
          BY <2>2, <2>5, <3>1, <4>1, <4>2
      <3> QED
        BY <3>2, <3>3
    <2>7. Len(q) = Len(p) + 1
      BY <1>1, <2>1, <2>2, <2>3
    <2>8. q = Append(p, GoDeferred(f))
      BY <2>3, <2>5, <2>6, <2>7, SeqEqual
    <2> QED
      BY <2>8 DEF p, q
  <1> QED
    BY <1>7, <1>8 DEF gs

\* Any other frame is an activation, that owns the deferred calls that waited.
LEMMA PushOwner ==
    ASSUME NEW fs \in Seq(Frame), NEW f \in Frame, f.status # "deferred"
    PROVE  /\ GoStack(Append(fs, f)) = Append(GoStack(fs), GoActivation(f, Pending(fs)))
           /\ Pending(Append(fs, f)) = <<>>
  <1> DEFINE gs == Append(fs, f)
             N == Len(fs)
  <1>1. gs \in Seq(Frame) /\ N \in Nat /\ Len(gs) = N + 1 /\ gs[N + 1] = f /\ \A j \in 1..N : gs[j] = fs[j]
    BY AppendProperties, LenProperties
  <1>2. PICK o : Enumerates(o, fs)
    BY HasEnumeration
  <1> DEFINE p == Append(o, N + 1)
  <1>3. Enumerates(p, gs)
    BY <1>2, AddOwner
  <1> DEFINE ds(n) == Between(fs, Previous(o, n), o[n])
             es(n) == Between(gs, Previous(p, n), p[n])
             a == GoActivation(f, Pending(fs))
  <1>4. /\ GoStack(fs) = [n \in 1..Len(o) |-> GoActivation(fs[o[n]], ds(n))]
        /\ Pending(fs) = Between(fs, LastOf(o), N + 1)
        /\ o \in Seq(Nat) /\ Len(o) \in Nat /\ LastOf(o) \in 0..N
        /\ \A n \in 1..Len(o) : o[n] \in 1..N /\ Previous(o, n) \in 0..o[n]-1
    BY <1>2, StackBy
  <1>5. /\ p \in Seq(Nat) /\ Len(p) = Len(o) + 1 /\ p[Len(o) + 1] = N + 1
        /\ \A n \in 1..Len(o) : p[n] = o[n]
    BY <1>1, <1>4, AppendProperties
  <1> HIDE DEF p
  <1>6. /\ GoStack(gs) = [n \in 1..Len(p) |-> GoActivation(gs[p[n]], es(n))]
        /\ Pending(gs) = Between(gs, LastOf(p), Len(gs) + 1)
    BY <1>1, <1>3, StackBy
  <1>7. \A n \in 1..Len(o) : es(n) = ds(n) /\ gs[p[n]] = fs[o[n]]
    <2> SUFFICES ASSUME NEW n \in 1..Len(o) PROVE es(n) = ds(n) /\ gs[p[n]] = fs[o[n]]
      OBVIOUS
    <2>1. Previous(o, n) \in 0..N /\ o[n] \in Previous(o, n)+1..N+1 /\ o[n] \in 1..N
      BY <1>1, <1>4
    <2>2. Previous(p, n) = Previous(o, n) /\ p[n] = o[n]
      <3>1. n = 1 \/ n - 1 \in 1..Len(o)
        BY <1>4
      <3> QED
        BY <1>5, <3>1 DEF Previous
    <2> QED
      BY <1>1, <2>1, <2>2, BetweenAppend
  <1>8. es(Len(o) + 1) = Pending(fs) /\ gs[p[Len(o) + 1]] = f
    <2>1. Previous(p, Len(o) + 1) = LastOf(o)
      <3>1. CASE Len(o) = 0
        BY <3>1 DEF Previous, LastOf
      <3>2. CASE Len(o) # 0
        <4>1. Len(o) \in 1..Len(o) /\ Len(o) + 1 # 1 /\ (Len(o) + 1) - 1 = Len(o)
          BY <1>4, <3>2
        <4> QED
          BY <1>5, <3>2, <4>1 DEF Previous, LastOf
      <3> QED
        BY <3>1, <3>2
    <2>2. N + 1 \in LastOf(o)+1..N+1
      BY <1>1, <1>4
    <2> QED
      BY <1>1, <1>4, <1>5, <2>1, <2>2, BetweenAppend
  <1>9. GoStack(fs) \in Seq(Act) /\ Len(GoStack(fs)) = Len(o) /\ GoStack(gs) \in Seq(Act)
        /\ Len(GoStack(gs)) = Len(o) + 1 /\ a \in Act
    <2>1. GoStack(fs) \in Seq(Act) /\ GoStack(gs) \in Seq(Act) /\ a \in Act
      BY <1>1, StackType, ActivationType
    <2>2. DOMAIN GoStack(fs) = 1..Len(o) /\ DOMAIN GoStack(gs) = 1..Len(p)
      BY <1>4, <1>6
    <2>3. Len(GoStack(fs)) \in Nat /\ Len(GoStack(gs)) \in Nat
          /\ DOMAIN GoStack(fs) = 1..Len(GoStack(fs)) /\ DOMAIN GoStack(gs) = 1..Len(GoStack(gs))
      BY <2>1, LenProperties
    <2> QED
      BY <1>4, <1>5, <2>1, <2>2, <2>3
  <1> HIDE DEF ds, es, a, gs
  <1>10. \A n \in 1..Len(o) : GoStack(gs)[n] = GoStack(fs)[n]
    <2> SUFFICES ASSUME NEW n \in 1..Len(o) PROVE GoStack(gs)[n] = GoStack(fs)[n]
      OBVIOUS
    <2>1. n \in 1..Len(p)
      BY <1>4, <1>5
    <2> QED
      BY <1>4, <1>6, <1>7, <2>1
  <1>11. GoStack(gs)[Len(o) + 1] = a
    <2>1. Len(o) + 1 \in 1..Len(p)
      BY <1>4, <1>5
    <2> QED
      BY <1>6, <1>8, <2>1 DEF a
  <1>12. GoStack(gs) = Append(GoStack(fs), a)
    <2>1. /\ Append(GoStack(fs), a) \in Seq(Act) /\ Len(Append(GoStack(fs), a)) = Len(o) + 1
          /\ Append(GoStack(fs), a)[Len(o) + 1] = a
          /\ \A n \in 1..Len(o) : Append(GoStack(fs), a)[n] = GoStack(fs)[n]
      BY <1>9, AppendProperties
    <2>2. \A n \in 1..Len(o) + 1 : GoStack(gs)[n] = Append(GoStack(fs), a)[n]
      <3> SUFFICES ASSUME NEW n \in 1..Len(o) + 1 PROVE GoStack(gs)[n] = Append(GoStack(fs), a)[n]
        OBVIOUS
      <3>1. n = Len(o) + 1 \/ n \in 1..Len(o)
        BY <1>4
      <3> QED
        BY <1>10, <1>11, <2>1, <3>1
    <2> QED
      BY <1>9, <2>1, <2>2, SeqEqual
  <1>13. Pending(gs) = <<>>
    <2>1. LastOf(p) = N + 1
      BY <1>4, <1>5 DEF LastOf
    <2>2. N + 1 \in 0..Len(gs) /\ Len(gs) + 1 \in (N + 1)+1..Len(gs)+1 /\ (Len(gs) + 1) - (N + 1) - 1 = 0
      BY <1>1
    <2>4. Pending(gs) = Between(gs, N + 1, Len(gs) + 1) /\ gs \in Seq(Frame)
      BY <1>1, <1>6, <2>1
    <2>3. Pending(gs) \in Seq(Call) /\ Len(Pending(gs)) = 0
      <3> HIDE DEF N
      <3> QED
        BY <1>1, <2>2, <2>4, BetweenIs
    <2> QED
      BY <2>3, EmptySeq
  <1> QED
    BY <1>12, <1>13 DEF gs, a

LEMMA NoFrames == GoStack(<<>>) = <<>> /\ Pending(<<>>) = <<>>
  <1>1. <<>> \in Seq(Frame) /\ Len(<<>>) = 0
    BY EmptySeq
  <1>2. Owners(<<>>) = {}
    BY <1>1, LenProperties DEF Owners
  <1>3. Enumerates(<<>>, <<>>)
    BY <1>2, EmptySeq DEF Enumerates
  <1>4. PICK fs \in Seq(Frame) : fs = <<>> /\ Len(fs) = 0
    BY <1>1
  <1>5. PICK o : Len(o) = 0 /\ Enumerates(o, fs)
    BY <1>1, <1>3, <1>4
  <1>6. /\ GoStack(fs) = [n \in 1..Len(o) |-> GoActivation(fs[o[n]], Between(fs, Previous(o, n), o[n]))]
        /\ Pending(fs) = Between(fs, LastOf(o), Len(fs) + 1)
    BY <1>5, StackBy
  <1>7. GoStack(fs) \in Seq(Act) /\ Pending(fs) \in Seq(Call)
    BY StackType
  <1>8. DOMAIN GoStack(fs) = 1..0
    BY <1>5, <1>6
  <1>9. DOMAIN Pending(fs) = 1..0
    <2>1. LastOf(o) = 0 /\ (Len(fs) + 1) - 0 - 1 = 0
      BY <1>4, <1>5 DEF LastOf
    <2> QED
      BY <1>6, <2>1 DEF Between
  <1>10. Len(GoStack(fs)) = 0 /\ Len(Pending(fs)) = 0
    BY <1>7, <1>8, <1>9, LenProperties
  <1>11. GoStack(fs) = <<>> /\ Pending(fs) = <<>>
    BY <1>7, <1>10, EmptySeq
  <1> QED
    BY <1>4, <1>11

\* The activations that own no deferred call above the last one that does: only the
\* lowest of them has calls to run.
LEMMA OwnersOnTop ==
    ASSUME NEW fs \in Seq(Frame), NEW n \in 0..Len(fs),
           \A j \in n+1..Len(fs) : fs[j].status # "deferred"
    PROVE  LET p == SubSeq(fs, 1, n)
               L == Len(GoStack(p))
               st == GoStack(fs)
           IN  /\ L \in Nat /\ Len(st) = L + (Len(fs) - n)
               /\ \A j \in 1..L : st[j] = GoStack(p)[j]
               /\ \A j \in L+1..Len(st) : st[j].defers = IF j = L + 1 THEN Pending(p) ELSE <<>>
               /\ n < Len(fs) => st[L + 1] = GoActivation(fs[n + 1], Pending(p))
  <1> DEFINE pre(m) == SubSeq(fs, 1, m)
             p == pre(n)
             L == Len(GoStack(p))
             Good(m) == /\ Len(GoStack(pre(m))) = L + (m - n)
                        /\ \A j \in 1..L : GoStack(pre(m))[j] = GoStack(p)[j]
                        /\ \A j \in L+1..L+(m - n) :
                              GoStack(pre(m))[j].defers = IF j = L + 1 THEN Pending(p) ELSE <<>>
                        /\ n < m => GoStack(pre(m))[L + 1] = GoActivation(fs[n + 1], Pending(p))
                        /\ Pending(pre(m)) = IF m = n THEN Pending(p) ELSE <<>>
             bad == {m \in n..Len(fs) : ~Good(m)}
  <1>1. Len(fs) \in Nat /\ n \in Nat /\ \A m \in 0..Len(fs) : pre(m) \in Seq(Frame) /\ Len(pre(m)) = m
    <2>1. Len(fs) \in Nat
      BY LenProperties
    <2>2. \A m \in 0..Len(fs) : m + 1 \in 1..Len(fs) + 1 /\ (m + 1) - 1 = m
      BY <2>1
    <2> QED
      BY <2>1, <2>2, PrefixOfSeq
  <1>2. p \in Seq(Frame) /\ GoStack(p) \in Seq(Act) /\ L \in Nat /\ Pending(p) \in Seq(Call)
    BY <1>1, StackType, LenProperties
  <1>3. Good(n)
    BY <1>1, <1>2
  <1>4. ASSUME NEW m \in n+1..Len(fs), Good(m - 1)
        PROVE  Good(m)
    <2> DEFINE q == pre(m - 1)
               a == GoActivation(fs[m], Pending(q))
               st == GoStack(q)
    <2>1. m \in 1..Len(fs) /\ m - 1 \in 0..Len(fs) /\ fs[m].status # "deferred" /\ m \in Nat
      BY <1>1
    <2>2. q \in Seq(Frame) /\ fs[m] \in Frame /\ pre(m) = Append(q, fs[m])
      BY <2>1, LastFrame
    <2>3. GoStack(pre(m)) = Append(st, a) /\ Pending(pre(m)) = <<>>
      BY <2>1, <2>2, PushOwner
    <2>4. st \in Seq(Act) /\ Pending(q) \in Seq(Call)
      BY <2>2, StackType
    <2>5. a \in Act /\ a.defers = Pending(q)
      BY <2>1, <2>2, <2>4, ActivationType
    <2>6. /\ Len(st) = L + (m - 1 - n)
          /\ \A j \in 1..L : st[j] = GoStack(p)[j]
          /\ \A j \in L+1..L+(m - 1 - n) : st[j].defers = IF j = L + 1 THEN Pending(p) ELSE <<>>
          /\ n < m - 1 => st[L + 1] = GoActivation(fs[n + 1], Pending(p))
          /\ Pending(q) = IF m - 1 = n THEN Pending(p) ELSE <<>>
      BY <1>4
    <2> DEFINE t == GoStack(pre(m))
    <2> HIDE DEF a, st, q, p, L, pre
    <2>7. /\ Len(t) = Len(st) + 1 /\ t[Len(st) + 1] = a /\ \A j \in 1..Len(st) : t[j] = st[j]
      BY <2>3, <2>4, <2>5, AppendProperties
    <2> HIDE DEF t
    <2>8. Len(t) = L + (m - n) /\ Len(st) + 1 = L + (m - n) /\ Len(st) \in Nat
      BY <1>1, <1>2, <2>1, <2>4, <2>6, <2>7, LenProperties
    <2>14. L \in Nat /\ n \in Nat /\ m \in Nat /\ n < m /\ Len(st) \in Nat /\ Len(st) = L + ((m - 1) - n)
      <3>1. Len(st) = L + ((m - 1) - n)
        BY <2>6
      <3>2. n < m
        BY <1>1, <2>1
      <3> QED
        BY <1>1, <1>2, <2>1, <2>8, <3>1, <3>2
    <2>9. \A j \in 1..L : t[j] = GoStack(p)[j]
      <3>1. \A j \in 1..L : j \in 1..Len(st)
        BY <1>1, <1>2, <2>1, <2>8
      <3> QED
        BY <2>6, <2>7, <3>1
    <2>10. \A j \in L+1..L+(m - n) : t[j].defers = IF j = L + 1 THEN Pending(p) ELSE <<>>
      <3> SUFFICES ASSUME NEW j \in L+1..L+(m - n)
                   PROVE  t[j].defers = IF j = L + 1 THEN Pending(p) ELSE <<>>
        OBVIOUS
      <3>1. CASE j = Len(st) + 1
        <4>1. t[j].defers = Pending(q)
          BY <2>5, <2>7, <3>1
        <4>2. j = L + 1 <=> m - 1 = n
          BY <2>14, <3>1
        <4> QED
          BY <2>6, <4>1, <4>2
      <3>2. CASE j # Len(st) + 1
        <4>1. j \in 1..Len(st) /\ j \in L+1..L+(m - 1 - n)
          BY <2>14, <3>2
        <4> QED
          BY <2>6, <2>7, <4>1
      <3> QED
        BY <3>1, <3>2
    <2>11. t[L + 1] = GoActivation(fs[n + 1], Pending(p))
      <3>1. CASE m - 1 = n
        <4>1. Len(st) + 1 = L + 1 /\ m = n + 1
          BY <2>14, <3>1
        <4> QED
          BY <2>6, <2>7, <3>1, <4>1 DEF a
      <3>2. CASE m - 1 # n
        <4>1. L + 1 \in 1..Len(st) /\ n < m - 1
          BY <2>14, <3>2
        <4> QED
          BY <2>6, <2>7, <4>1
      <3> QED
        BY <3>1, <3>2
    <2>12. m # n
      BY <1>1
    <2>13. /\ Len(GoStack(pre(m))) = L + (m - n)
           /\ \A j \in 1..L : GoStack(pre(m))[j] = GoStack(p)[j]
           /\ \A j \in L+1..L+(m - n) :
                 GoStack(pre(m))[j].defers = IF j = L + 1 THEN Pending(p) ELSE <<>>
           /\ GoStack(pre(m))[L + 1] = GoActivation(fs[n + 1], Pending(p))
           /\ Pending(pre(m)) = <<>>
      BY <2>3, <2>8, <2>9, <2>10, <2>11 DEF t
    <2> QED
      BY <2>12, <2>13
  <1> HIDE DEF Good
  <1>5. bad = {}
    <2> SUFFICES ASSUME bad # {} PROVE FALSE
      OBVIOUS
    <2>1. bad \subseteq Nat
      BY <1>1
    <2>2. PICK m \in bad : \A k \in bad : m <= k
      BY <2>1, Smallest
    <2>3. m \in n..Len(fs) /\ ~Good(m) /\ m # n
      BY <1>3
    <2>4. m \in n+1..Len(fs) /\ m - 1 \in n..Len(fs) /\ ~(m <= m - 1)
      BY <1>1, <2>3
    <2>5. Good(m - 1)
      BY <2>2, <2>4
    <2> QED
      BY <1>4, <2>3, <2>4, <2>5
  <1>6. Good(Len(fs))
    BY <1>1, <1>5
  <1>7. pre(Len(fs)) = fs
    BY SubSeqFull
  <1>8. /\ Len(GoStack(fs)) = L + (Len(fs) - n)
        /\ \A j \in 1..L : GoStack(fs)[j] = GoStack(p)[j]
        /\ \A j \in L+1..L+(Len(fs) - n) :
              GoStack(fs)[j].defers = IF j = L + 1 THEN Pending(p) ELSE <<>>
        /\ n < Len(fs) => GoStack(fs)[L + 1] = GoActivation(fs[n + 1], Pending(p))
    BY <1>6, <1>7 DEF Good
  <1> HIDE DEF L, p
  <1>9. /\ L \in Nat /\ Len(GoStack(fs)) = L + (Len(fs) - n)
        /\ \A j \in 1..L : GoStack(fs)[j] = GoStack(p)[j]
        /\ \A j \in L+1..Len(GoStack(fs)) : GoStack(fs)[j].defers = IF j = L + 1 THEN Pending(p) ELSE <<>>
        /\ n < Len(fs) => GoStack(fs)[L + 1] = GoActivation(fs[n + 1], Pending(p))
    BY <1>2, <1>8
  <1> QED
    BY <1>9 DEF L, p

-----------------------------------------------------------------------------
(***************************************************************************)
(* The last activation, that recover() looks at.                           *)
(***************************************************************************)
LastPanicked(fs) ==
    {j \in 1..Len(fs) : /\ fs[j].status = "panicked"
                        /\ \A k \in j+1..Len(fs) : fs[k].status = "deferred"}

\* The frame of the last activation has only deferred calls above it.
LEMMA LastActivation ==
    ASSUME NEW fs \in Seq(Frame), NEW o, Enumerates(o, fs)
    PROVE  /\ Len(GoStack(fs)) = Len(o)
           /\ Len(o) # 0 =>
                 /\ Len(o) \in 1..Len(o) /\ LastOf(o) = o[Len(o)] /\ LastOf(o) \in Owners(fs)
                 /\ GoStack(fs)[Len(o)].mode = Mode(fs[LastOf(o)])
                 /\ \A k \in LastOf(o)+1..Len(fs) : fs[k].status = "deferred"
           /\ Len(o) = 0 => \A k \in 1..Len(fs) : fs[k].status = "deferred"
  <1> DEFINE st == GoStack(fs)
             ds(n) == Between(fs, Previous(o, n), o[n])
             j == o[Len(o)]
  <1>1. /\ st = [n \in 1..Len(o) |-> GoActivation(fs[o[n]], ds(n))]
        /\ Len(o) \in Nat /\ st \in Seq(Act)
    BY StackBy, StackType
  <1>2. Len(st) = Len(o)
    <2>1. DOMAIN st = 1..Len(o) /\ DOMAIN st = 1..Len(st) /\ Len(st) \in Nat
      BY <1>1, LenProperties
    <2> QED
      BY <1>1, <2>1
  <1>3. Len(fs) \in Nat /\ DOMAIN fs = 1..Len(fs)
    BY LenProperties
  <1>4. CASE Len(o) = 0
    <2>1. Owners(fs) = {}
      BY <1>4 DEF Enumerates
    <2> QED
      BY <1>2, <1>3, <1>4, <2>1 DEF Owners
  <1>5. CASE Len(o) # 0
    <2>1. Len(o) \in 1..Len(o)
      BY <1>1, <1>5
    <2>2. j \in Owners(fs) /\ j \in 1..Len(fs)
      BY <2>1, OwnersInside DEF Enumerates
    <2>3. st[Len(o)].mode = Mode(fs[j])
      <3>1. st[Len(o)] = GoActivation(fs[j], ds(Len(o)))
        BY <1>1, <2>1
      <3> HIDE DEF ds, st
      <3> QED
        BY <3>1 DEF GoActivation
    <2>4. ASSUME NEW k \in j+1..Len(fs), fs[k].status # "deferred"
          PROVE  FALSE
      <3>1. k \in Owners(fs)
        BY <1>3, <2>2, <2>4 DEF Owners
      <3>2. PICK m \in 1..Len(o) : o[m] = k
        BY <3>1 DEF Enumerates
      <3>3. m = Len(o) \/ m < Len(o)
        BY <1>1
      <3>4. k < j \/ k = j
        BY <2>1, <3>2, <3>3 DEF Enumerates
      <3> QED
        BY <1>3, <2>2, <3>4
    <2>5. LastOf(o) = j
      BY <1>5 DEF LastOf
    <2> QED
      BY <1>2, <1>5, <2>1, <2>2, <2>3, <2>4, <2>5
  <1> QED
    BY <1>4, <1>5

\* recover() finds no panicked frame exactly when the last activation does not panic.
LEMMA NoLastPanicked ==
    ASSUME NEW fs \in Seq(Frame), LastPanicked(fs) = {}, GoStack(fs) # <<>>
    PROVE  GoStack(fs)[Len(GoStack(fs))].mode # "panic"
  <1>1. PICK o : Enumerates(o, fs)
    BY HasEnumeration
  <1>2. GoStack(fs) \in Seq(Act) /\ Len(GoStack(fs)) # 0
    BY StackType, EmptySeq
  <1>3. LastOf(o) \in Owners(fs) /\ GoStack(fs)[Len(GoStack(fs))].mode = Mode(fs[LastOf(o)])
        /\ \A k \in LastOf(o)+1..Len(fs) : fs[k].status = "deferred"
    BY <1>1, <1>2, LastActivation
  <1>4. LastOf(o) \in 1..Len(fs) /\ fs[LastOf(o)] \in Frame /\ fs[LastOf(o)].status # "deferred"
    BY <1>3, OwnersInside
  <1>5. fs[LastOf(o)].status # "panicked"
    BY <1>3, <1>4 DEF LastPanicked
  <1>6. fs[LastOf(o)].status \in {"started", "returned", "recovered"}
    BY <1>4, <1>5 DEF Frame, Statuses
  <1>7. Mode(fs[LastOf(o)]) \in {"body", "return"}
    BY <1>6 DEF Mode
  <1> QED
    BY <1>3, <1>7

Stopped(a) == [a EXCEPT !.mode = "return", !.why = 0]

LEMMA StopRecord ==
    ASSUME NEW a, NEW k, NEW w, NEW d
    PROVE  Stopped([id |-> a, kind |-> k, mode |-> "panic", why |-> w, defers |-> d])
           = [id |-> a, kind |-> k, mode |-> "return", why |-> 0, defers |-> d]
  <1> DEFINE r == [id |-> a, kind |-> k, mode |-> "panic", why |-> w, defers |-> d]
             s == [id |-> a, kind |-> k, mode |-> "return", why |-> 0, defers |-> d]
             F == {"id", "kind", "mode", "why", "defers"}
             t == [r EXCEPT !.mode = "return", !.why = 0]
  <1>1. t = [x \in F |-> t[x]]
    OBVIOUS
  <1>2. s = [x \in F |-> s[x]]
    OBVIOUS
  <1>3. t.id = s.id /\ t.kind = s.kind /\ t.mode = s.mode /\ t.why = s.why /\ t.defers = s.defers
    OBVIOUS
  <1> HIDE DEF r, s, t
  <1>4. \A x \in F : t[x] = s[x]
    BY <1>3
  <1>5. [x \in F |-> t[x]] = [x \in F |-> s[x]]
    BY <1>4
  <1> QED
    BY <1>1, <1>2, <1>5 DEF r, s, t, Stopped

\* When it finds one, it is the frame of the last activation, that stops panicking.
LEMMA StopLast ==
    ASSUME NEW fs \in Seq(Frame), NEW j \in LastPanicked(fs)
    PROVE  LET gs == [fs EXCEPT ![j] = [fs[j] EXCEPT !.status = "recovered"]]
               st == GoStack(fs)
               L == Len(st)
           IN  /\ gs \in Seq(Frame) /\ st \in Seq(Act) /\ L \in 1..L
               /\ st[L].mode = "panic" /\ st[L].why = fs[j].why
               /\ GoStack(gs) = [st EXCEPT ![L] = Stopped(st[L])]
               /\ Pending(gs) = Pending(fs)
  <1> DEFINE g == [fs[j] EXCEPT !.status = "recovered"]
             gs == [fs EXCEPT ![j] = g]
             st == GoStack(fs)
             L == Len(st)
             N == Len(fs)
  <1>1. j \in 1..N /\ fs[j].status = "panicked" /\ N \in Nat /\ fs[j] \in Frame /\ DOMAIN fs = 1..N
    BY LenProperties, ElementOfSeq DEF LastPanicked
  <1>2. g \in Frame /\ g.status = "recovered" /\ g.act = fs[j].act /\ g.kind = fs[j].kind
    BY <1>1 DEF Frame, Statuses
  <1> HIDE DEF g
  <1>3. gs \in Seq(Frame) /\ Len(gs) = N /\ \A k \in 1..N : gs[k] = IF k = j THEN g ELSE fs[k]
    BY <1>1, <1>2, ReplaceInSeq
  <1> HIDE DEF gs
  <1>4. PICK o : Enumerates(o, fs)
    BY HasEnumeration
  <1>5. j \in Owners(fs)
    BY <1>1 DEF Owners
  <1>6. Len(o) # 0
    BY <1>4, <1>5 DEF Enumerates
  <1>7. /\ L = Len(o) /\ L \in 1..L /\ L \in Nat /\ LastOf(o) = o[L] /\ LastOf(o) \in Owners(fs)
        /\ \A k \in LastOf(o)+1..N : fs[k].status = "deferred"
    BY <1>4, <1>6, LastActivation, StackBy
  <1>8. o[L] = j
    <2>1. o[L] \in 1..N /\ fs[o[L]].status # "deferred" /\ fs[j].status # "deferred"
      BY <1>1, <1>7, OwnersInside
    <2>2. ~(o[L] < j)
      BY <1>1, <1>7, <2>1
    <2>3. ~(j < o[L])
      BY <1>1, <2>1 DEF LastPanicked
    <2> QED
      BY <1>1, <2>1, <2>2, <2>3
  <1>9. Owners(gs) = Owners(fs)
    <2>1. DOMAIN gs = 1..N
      BY <1>3, LenProperties
    <2> QED
      BY <1>1, <1>2, <1>3, <2>1 DEF Owners
  <1>10. Enumerates(o, gs)
    BY <1>4, <1>9 DEF Enumerates
  <1> DEFINE ds(n) == Between(fs, Previous(o, n), o[n])
             es(n) == Between(gs, Previous(o, n), o[n])
  <1>11. /\ st = [n \in 1..L |-> GoActivation(fs[o[n]], ds(n))]
         /\ GoStack(gs) = [n \in 1..L |-> GoActivation(gs[o[n]], es(n))]
         /\ Pending(fs) = Between(fs, j, N + 1) /\ Pending(gs) = Between(gs, j, N + 1)
         /\ \A n \in 1..L : o[n] \in 1..N /\ Previous(o, n) \in 0..o[n]-1
    <2>1. LastOf(o) = j
      BY <1>7, <1>8
    <2>2. /\ st = [n \in 1..L |-> GoActivation(fs[o[n]], ds(n))]
          /\ Pending(fs) = Between(fs, j, N + 1)
          /\ \A n \in 1..L : o[n] \in 1..N /\ Previous(o, n) \in 0..o[n]-1
      BY <1>4, <1>7, <2>1, StackBy
    <2>3. GoStack(gs) = [n \in 1..L |-> GoActivation(gs[o[n]], es(n))] /\ Pending(gs) = Between(gs, j, N + 1)
      BY <1>3, <1>7, <1>10, <2>1, StackBy
    <2> HIDE DEF ds, es, L, st, N
    <2> QED
      BY <2>2, <2>3
  <1>12. \A n \in 1..L : n # L => o[n] < j /\ o[n] # j
    <2> SUFFICES ASSUME NEW n \in 1..L, n # L PROVE o[n] < j /\ o[n] # j
      OBVIOUS
    <2>1. n < L
      BY <1>7
    <2>2. o[n] < o[L]
      BY <1>4, <1>7, <2>1 DEF Enumerates
    <2>3. o[n] \in Nat /\ j \in Nat
      <3> HIDE DEF ds, es, st, L
      <3>1. o[n] \in 1..N
        BY <1>11
      <3> QED
        BY <1>1, <3>1
    <2> HIDE DEF L
    <2> QED
      BY <1>8, <2>2, <2>3
  <1>13. \A n \in 1..L : es(n) = ds(n)
    <2> SUFFICES ASSUME NEW n \in 1..L PROVE es(n) = ds(n)
      OBVIOUS
    <2>1. \A d \in 1..o[n] - Previous(o, n) - 1 : GoDeferred(gs[Previous(o, n) + d]) = GoDeferred(fs[Previous(o, n) + d])
      <3> SUFFICES ASSUME NEW d \in 1..o[n] - Previous(o, n) - 1
                   PROVE  gs[Previous(o, n) + d] = fs[Previous(o, n) + d]
        OBVIOUS
      <3>0. Previous(o, n) \in 0..o[n]-1 /\ o[n] \in 1..N /\ (o[n] = j \/ o[n] < j)
        BY <1>8, <1>11, <1>12
      <3>1. Previous(o, n) + d \in 1..N /\ Previous(o, n) + d < o[n]
        BY <1>1, <3>0
      <3>2. Previous(o, n) + d # j
        BY <1>1, <3>0, <3>1
      <3> QED
        BY <1>3, <3>1, <3>2
    <2> QED
      BY <2>1 DEF Between
  <1>14. Pending(gs) = Pending(fs)
    <2>1. \A d \in 1..(N + 1) - j - 1 : GoDeferred(gs[j + d]) = GoDeferred(fs[j + d])
      <3> SUFFICES ASSUME NEW d \in 1..(N + 1) - j - 1 PROVE gs[j + d] = fs[j + d]
        OBVIOUS
      <3>1. j + d \in 1..N /\ j + d # j
        BY <1>1
      <3> QED
        BY <1>3, <3>1
    <2> QED
      BY <1>11, <2>1 DEF Between
  <1> HIDE DEF ds, es
  <1>15. st[L] = GoActivation(fs[j], ds(L)) /\ GoStack(gs)[L] = GoActivation(g, ds(L))
    BY <1>1, <1>3, <1>7, <1>8, <1>11, <1>13
  <1>16. GoActivation(g, ds(L)) = Stopped(GoActivation(fs[j], ds(L)))
         /\ GoActivation(fs[j], ds(L)).mode = "panic" /\ GoActivation(fs[j], ds(L)).why = fs[j].why
    <2>1. Mode(g) = "return" /\ Mode(fs[j]) = "panic" /\ GoKind(g) = GoKind(fs[j])
      BY <1>1, <1>2 DEF Mode, GoKind
    <2>2. GoActivation(fs[j], ds(L)) = [id |-> fs[j].act, kind |-> GoKind(fs[j]), mode |-> "panic",
                                        why |-> fs[j].why, defers |-> ds(L)]
      BY <1>1, <2>1 DEF GoActivation
    <2>3. GoActivation(g, ds(L)) = [id |-> fs[j].act, kind |-> GoKind(fs[j]), mode |-> "return",
                                    why |-> 0, defers |-> ds(L)]
      BY <1>2, <2>1 DEF GoActivation
    <2>4. Stopped([id |-> fs[j].act, kind |-> GoKind(fs[j]), mode |-> "panic",
                why |-> fs[j].why, defers |-> ds(L)])
          = [id |-> fs[j].act, kind |-> GoKind(fs[j]), mode |-> "return",
             why |-> 0, defers |-> ds(L)]
      BY StopRecord
    <2> HIDE DEF L, st
    <2>5. GoActivation(g, ds(L)) = Stopped(GoActivation(fs[j], ds(L)))
      BY <2>2, <2>3, <2>4
    <2> QED
      BY <2>2, <2>5
  <1>17. \A n \in 1..L : GoStack(gs)[n] = IF n = L THEN Stopped(st[L]) ELSE st[n]
    <2> SUFFICES ASSUME NEW n \in 1..L PROVE GoStack(gs)[n] = IF n = L THEN Stopped(st[L]) ELSE st[n]
      OBVIOUS
    <2>1. CASE n = L
      BY <1>15, <1>16, <2>1
    <2>2. CASE n # L
      <3>1. o[n] \in 1..N /\ o[n] # j
        BY <1>11, <1>12, <2>2
      <3>2. gs[o[n]] = fs[o[n]]
        BY <1>3, <3>1
      <3> HIDE DEF st
      <3> QED
        BY <1>11, <1>13, <2>2, <3>2
    <2> QED
      BY <2>1, <2>2
  <1>18. GoStack(gs) = [st EXCEPT ![L] = Stopped(st[L])]
    <2>1. st \in Seq(Act) /\ DOMAIN st = 1..L /\ DOMAIN GoStack(gs) = 1..L
      BY <1>11, StackType, LenProperties
    <2>2. GoStack(gs) = [n \in 1..L |-> GoStack(gs)[n]]
      BY <1>11
    <2> HIDE DEF st, L
    <2> QED
      BY <1>17, <2>1, <2>2
  <1>19. st \in Seq(Act) /\ L \in 1..L
    BY <1>7, StackType
  <1> QED
    BY <1>3, <1>14, <1>15, <1>16, <1>18, <1>19 DEF gs, g

-----------------------------------------------------------------------------
(***************************************************************************)
(* What a turn of nextCall does to the frames, when it goes on with a      *)
(* Scriggo function.                                                       *)
(***************************************************************************)
LEMMA PrefixOfReplaced ==
    ASSUME NEW S, NEW s \in Seq(S), NEW k \in 1..Len(s), NEW e \in S
    PROVE  SubSeq([s EXCEPT ![k] = e], 1, k) = Append(SubSeq(s, 1, k - 1), e)
  <1> DEFINE t == [s EXCEPT ![k] = e]
  <1>1. t \in Seq(S) /\ Len(t) = Len(s) /\ t[k] = e /\ \A j \in 1..Len(s) : j # k => t[j] = s[j]
    BY ReplaceInSeq
  <1> HIDE DEF t
  <1>2. SubSeq(t, 1, k) = Append(SubSeq(t, 1, k - 1), t[k])
    BY <1>1, LastFrame
  <1>3. SubSeq(t, 1, k - 1) = SubSeq(s, 1, k - 1)
    <2>1. Len(s) \in Nat /\ k \in 1..Len(s) + 1 /\ \A j \in 1..k-1 : j \in 1..Len(s) /\ j # k
      BY LenProperties
    <2>2. /\ SubSeq(t, 1, k - 1) \in Seq(S) /\ Len(SubSeq(t, 1, k - 1)) = k - 1
          /\ \A j \in 1..k-1 : SubSeq(t, 1, k - 1)[j] = t[j]
      BY <1>1, <2>1, PrefixOfSeq
    <2>3. /\ SubSeq(s, 1, k - 1) \in Seq(S) /\ Len(SubSeq(s, 1, k - 1)) = k - 1
          /\ \A j \in 1..k-1 : SubSeq(s, 1, k - 1)[j] = s[j]
      BY <2>1, PrefixOfSeq
    <2> QED
      BY <1>1, <2>1, <2>2, <2>3, SeqEqual
  <1> QED
    BY <1>1, <1>2, <1>3 DEF t

LEMMA FrameFacts ==
    ASSUME FunctionInv
    PROVE  /\ calls \in Seq(Frame) /\ Len(calls) \in Nat /\ DOMAIN calls = 1..Len(calls)
           /\ \A j \in 1..Len(calls) : calls[j] \in Frame /\ calls[j].kind \in Scriggo
           /\ cur \in Fn /\ rend \in Nat /\ i \in Nat /\ SafeInv
  BY LenProperties, ElementOfSeq DEF FunctionInv, SafeInv, TypeOK, Fn, ScriggoFrames

GoesOn(call, cs) ==
    /\ calls' = cs /\ cur' = FunctionOf(call) /\ phase' = "run"
    /\ UNCHANGED <<chain, got, hist>>

LEMMA StartedGoesOn ==
    ASSUME FunctionInv, NextStarted
    PROVE  /\ phase = "next" /\ i \in 1..Len(calls) /\ calls[i].status = "started"
           /\ GoesOn(calls[i], SubSeq(calls, 1, i - 1))
  <1>1. i \in 1..Len(calls) /\ calls[i].status = "started" /\ phase = "next"
    BY LoopIndex, FrameFacts DEF NextStarted, AtStatus
  <1>2. calls[i].kind # "native"
    BY <1>1, FrameFacts DEF Scriggo
  <1> QED
    BY <1>1, <1>2 DEF NextStarted, ContinueWith, GoesOn

LEMMA DeferredGoesOn ==
    ASSUME FunctionInv, NextDeferred
    PROVE  /\ phase = "next" /\ i \in 1..Len(calls) /\ calls[i].status = "deferred" /\ cur.kind \in Scriggo
           /\ FrameOf(cur, "returned", rend) \in Frame
           /\ GoesOn(calls[i], Append(SubSeq(calls, 1, i - 1), FrameOf(cur, "returned", rend)))
  <1>1. i \in 1..Len(calls) /\ calls[i].status = "deferred" /\ phase = "next" /\ cur.kind \in Scriggo
    BY LoopIndex, FrameFacts DEF NextDeferred, AtStatus, FunctionInv
  <1>2. calls[i].kind # "native"
    BY <1>1, FrameFacts DEF Scriggo
  <1>3. FrameOf(cur, "returned", rend) \in Frame
    BY FrameFacts, FrameOfType DEF Statuses
  <1>4. SubSeq([calls EXCEPT ![i] = FrameOf(cur, "returned", rend)], 1, i)
           = Append(SubSeq(calls, 1, i - 1), FrameOf(cur, "returned", rend))
    BY <1>1, <1>3, FrameFacts, PrefixOfReplaced
  <1>5. (i + 1) - 1 = i
    BY <1>1, FrameFacts
  <1> QED
    BY <1>1, <1>2, <1>3, <1>4, <1>5 DEF NextDeferred, ContinueWith, GoesOn

LEMMA ReturnedGoesOn ==
    ASSUME FunctionInv, NextDeferredOfReturned
    PROVE  /\ phase = "next" /\ i \in 1..Len(calls) /\ calls[i].status \in {"returned", "recovered"}
           /\ i - 1 \in 1..Len(calls) /\ calls[i - 1].status = "deferred"
           /\ GoesOn(calls[i - 1], Append(SubSeq(calls, 1, i - 2), calls[i]))
  <1>1. i \in 1..Len(calls) /\ calls[i].status \in {"returned", "recovered"} /\ phase = "next"
    BY LoopIndex, FrameFacts DEF NextDeferredOfReturned, AtStatus
  <1>2. i - 1 \in 1..Len(calls) /\ calls[i - 1].status = "deferred" /\ (i - 1) - 1 = i - 2
    BY <1>1, FrameFacts DEF NextDeferredOfReturned, MoreDeferred
  <1>3. calls[i - 1].kind # "native" /\ calls[i] \in Frame
    BY <1>1, <1>2, FrameFacts DEF Scriggo
  <1>4. SubSeq([calls EXCEPT ![i - 1] = calls[i]], 1, i - 1) = Append(SubSeq(calls, 1, i - 2), calls[i])
    BY <1>2, <1>3, FrameFacts, PrefixOfReplaced
  <1> QED
    BY <1>1, <1>2, <1>3, <1>4 DEF NextDeferredOfReturned, ContinueWith, GoesOn

PanickingFrame(f, p) == [f EXCEPT !.status = "panicked", !.why = p]

LEMMA PanickingFrameType ==
    ASSUME NEW f \in Frame, NEW p \in Nat
    PROVE  /\ PanickingFrame(f, p) \in Frame /\ PanickingFrame(f, p).status = "panicked"
           /\ PanickingFrame(f, p).why = p /\ PanickingFrame(f, p).act = f.act
           /\ PanickingFrame(f, p).kind = f.kind
  BY DEF PanickingFrame, Frame, Statuses

LEMMA PanickedGoesOn ==
    ASSUME FunctionInv, NextPanicked
    PROVE  /\ phase = "next" /\ i \in 1..Len(calls) /\ calls[i].status = "panicked"
           /\ \E k \in 1..i-1 :
                 /\ calls[k].status = "deferred" /\ \A j \in k+1..i : calls[j].status # "deferred"
                 /\ GoesOn(calls[k], Append(SubSeq(calls, 1, k - 1),
                                            PanickingFrame(calls[k + 1], calls[i].why)))
  <1>1. i \in 1..Len(calls) /\ calls[i].status = "panicked" /\ phase = "next" /\ calls[i] \in Frame
        /\ Len(calls) \in Nat
    BY LoopIndex, FrameFacts DEF NextPanicked, AtStatus
  <1> DEFINE f(k) == PanickingFrame(calls[k + 1], calls[i].why)
  <1>2. PICK k \in 1..i-1 :
          /\ calls[k].status = "deferred"
          /\ \A j \in k+1..i-1 : calls[j].status # "deferred"
          /\ ContinueWith(calls[k], IF calls[k].kind = "native" THEN k ELSE k + 1,
                 [calls EXCEPT ![k] = f(k)])
          /\ UNCHANGED <<chain, got, hist>>
    BY DEF NextPanicked, PanickingFrame
  <1>3. k \in 1..Len(calls) /\ k + 1 \in 1..Len(calls) /\ (k + 1) - 1 = k
    BY <1>1, <1>2
  <1>4. calls[k].kind # "native"
    BY <1>3, FrameFacts DEF Scriggo
  <1>5. f(k) \in Frame
    <2>1. calls[k + 1] \in Frame /\ calls[i].why \in Nat
      BY <1>1, <1>3, FrameFacts DEF Frame
    <2> QED
      BY <2>1, PanickingFrameType
  <1> HIDE DEF f
  <1>6. SubSeq([calls EXCEPT ![k] = f(k)], 1, k) = Append(SubSeq(calls, 1, k - 1), f(k))
    BY <1>3, <1>5, FrameFacts, PrefixOfReplaced
  <1>7. GoesOn(calls[k], Append(SubSeq(calls, 1, k - 1), f(k)))
    BY <1>2, <1>3, <1>4, <1>6 DEF ContinueWith, GoesOn
  <1>8. \A j \in k+1..i : calls[j].status # "deferred"
    <2> SUFFICES ASSUME NEW j \in k+1..i PROVE calls[j].status # "deferred"
      OBVIOUS
    <2>1. j = i \/ j \in k+1..i-1
      BY <1>1, <1>3
    <2> QED
      BY <1>1, <1>2, <2>1
  <1> QED
    BY <1>1, <1>2, <1>7, <1>8 DEF f

-----------------------------------------------------------------------------
(***************************************************************************)
(* The invariant that the refinement needs.  Only functions and macros     *)
(* call; the wrapper of "defer recover()" is on top of the function that   *)
(* deferred it; nextCall leaves no panicked frame above its index; and     *)
(* while there is a chain of panics some live frame panics, or recovered   *)
(* and has not returned.                                                   *)
(***************************************************************************)
\* The frames that count while nextCall is in its loop are those up to its index.
Alive == CASE phase = "next" -> i [] phase = "native" -> i - 1 [] OTHER -> Len(calls)

HasTrace(cs, n) == \E j \in 1..n : cs[j].status \in {"panicked", "recovered"}
Callers(cs) == \A j \in 1..Len(cs) : cs[j].status = "started" => cs[j].kind \in {"func", "macro"}
EndsDeferrer(cs) == Len(cs) # 0 /\ cs[Len(cs)].status \in {"returned", "recovered", "panicked"}

GoInv ==
    /\ FunctionInv
    /\ phase \in {"run", "return", "next", "done"}
    /\ Callers(calls)
    /\ (phase = "run" /\ cur.kind = "recover") => EndsDeferrer(calls)
    /\ phase = "next" => \A j \in i+1..Len(calls) : calls[j].status # "panicked"
    /\ (phase # "done" /\ chain # <<>>) => HasTrace(calls, Alive)

LEMMA GoInvInit == Init => GoInv
  <1> SUFFICES ASSUME Init PROVE GoInv
    OBVIOUS
  <1>1. calls = <<>> /\ cur.kind = "func" /\ phase = "run" /\ chain = <<>> /\ Len(calls) = 0
    BY DEF Init
  <1> QED
    BY <1>1, FunctionInit DEF GoInv, Callers

LEMMA AppendKeeps ==
    ASSUME NEW cs \in Seq(Frame), NEW f \in Frame, Callers(cs)
    PROVE  /\ (f.status = "started" => f.kind \in {"func", "macro"}) => Callers(Append(cs, f))
           /\ HasTrace(cs, Len(cs)) => HasTrace(Append(cs, f), Len(Append(cs, f)))
           /\ f.status \in {"panicked", "recovered"} => HasTrace(Append(cs, f), Len(Append(cs, f)))
           /\ f.status \in {"returned", "recovered", "panicked"} => EndsDeferrer(Append(cs, f))
  <1> DEFINE ds == Append(cs, f)
             n == Len(cs)
  <1>1. n \in Nat /\ Len(ds) = n + 1 /\ ds[n + 1] = f /\ \A j \in 1..n : ds[j] = cs[j]
    BY AppendProperties, LenProperties
  <1> HIDE DEF ds
  <1>2. \A j \in 1..Len(ds) : j = n + 1 \/ j \in 1..n
    BY <1>1
  <1>3. n + 1 \in 1..Len(ds) /\ \A j \in 1..n : j \in 1..Len(ds)
    BY <1>1
  <1> HIDE DEF n
  <1>4. (f.status = "started" => f.kind \in {"func", "macro"}) => Callers(ds)
    BY <1>1, <1>2 DEF Callers, n
  <1>5. HasTrace(cs, n) => HasTrace(ds, Len(ds))
    BY <1>1, <1>3 DEF HasTrace
  <1>6. f.status \in {"panicked", "recovered"} => HasTrace(ds, Len(ds))
    BY <1>1, <1>3 DEF HasTrace
  <1>7. f.status \in {"returned", "recovered", "panicked"} => EndsDeferrer(ds)
    BY <1>1 DEF EndsDeferrer
  <1> QED
    BY <1>4, <1>5, <1>6, <1>7 DEF ds, n

LEMMA PrefixKeeps ==
    ASSUME NEW cs \in Seq(Frame), NEW n \in 1..Len(cs), Callers(cs)
    PROVE  /\ Callers(SubSeq(cs, 1, n - 1))
           /\ SubSeq(cs, 1, n - 1) \in Seq(Frame)
           /\ (HasTrace(cs, n) /\ cs[n].status \notin {"panicked", "recovered"})
              => HasTrace(SubSeq(cs, 1, n - 1), Len(SubSeq(cs, 1, n - 1)))
  <1>1. Len(cs) \in Nat /\ n \in 1..Len(cs) + 1
    BY LenProperties
  <1>2. /\ SubSeq(cs, 1, n - 1) \in Seq(Frame) /\ Len(SubSeq(cs, 1, n - 1)) = n - 1
        /\ \A j \in 1..n-1 : SubSeq(cs, 1, n - 1)[j] = cs[j] /\ j \in 1..Len(cs)
    BY <1>1, PrefixOfSeq
  <1>3. \A j \in 1..n : j = n \/ j \in 1..n-1
    BY <1>1
  <1> QED
    BY <1>2, <1>3 DEF Callers, HasTrace

\* nextCall goes on with a call that keeps a trace of the panics.
LEMMA GoesOnKeeps ==
    ASSUME GoInv, FunctionInv', NEW call \in Frame, NEW cs \in Seq(Frame),
           phase = "next", GoesOn(call, cs), Callers(cs),
           call.kind = "recover" => EndsDeferrer(cs),
           HasTrace(calls, i) => HasTrace(cs, Len(cs))
    PROVE  GoInv'
  BY DEF GoInv, GoesOn, FunctionOf, Alive

LEMMA GoInvLoop ==
    ASSUME GoInv, FunctionInv', NextStarted \/ NextDeferred \/ NextDeferredOfReturned \/ NextPanicked
    PROVE  GoInv'
  <1>1. /\ calls \in Seq(Frame) /\ Len(calls) \in Nat /\ i \in Nat
        /\ \A j \in 1..Len(calls) : calls[j] \in Frame
        /\ Callers(calls) /\ FunctionInv
    BY FrameFacts DEF GoInv
  <1>2. CASE NextStarted
    <2>1. phase = "next" /\ i \in 1..Len(calls) /\ calls[i].status = "started"
          /\ GoesOn(calls[i], SubSeq(calls, 1, i - 1))
      BY <1>1, <1>2, StartedGoesOn
    <2>2. /\ Callers(SubSeq(calls, 1, i - 1)) /\ SubSeq(calls, 1, i - 1) \in Seq(Frame)
          /\ HasTrace(calls, i) => HasTrace(SubSeq(calls, 1, i - 1), Len(SubSeq(calls, 1, i - 1)))
      BY <1>1, <2>1, PrefixKeeps
    <2>3. calls[i].kind # "recover"
      BY <1>1, <2>1 DEF Callers
    <2> QED
      BY <1>1, <2>1, <2>2, <2>3, GoesOnKeeps
  <1>3. CASE NextDeferred
    <2> DEFINE p == SubSeq(calls, 1, i - 1)
               f == FrameOf(cur, "returned", rend)
    <2>1. phase = "next" /\ i \in 1..Len(calls) /\ calls[i].status = "deferred" /\ f \in Frame
          /\ GoesOn(calls[i], Append(p, f))
      BY <1>1, <1>3, DeferredGoesOn
    <2>2. Callers(p) /\ p \in Seq(Frame) /\ (HasTrace(calls, i) => HasTrace(p, Len(p)))
      BY <1>1, <2>1, PrefixKeeps
    <2>3. f.status = "returned"
      BY DEF FrameOf
    <2> HIDE DEF p, f
    <2>4. Append(p, f) \in Seq(Frame) /\ Callers(Append(p, f)) /\ EndsDeferrer(Append(p, f))
          /\ (HasTrace(calls, i) => HasTrace(Append(p, f), Len(Append(p, f))))
      BY <2>1, <2>2, <2>3, AppendKeeps, AppendProperties
    <2> QED
      BY <1>1, <2>1, <2>4, GoesOnKeeps
  <1>4. CASE NextDeferredOfReturned
    <2> DEFINE p == SubSeq(calls, 1, i - 2)
               f == calls[i]
    <2>1. phase = "next" /\ i \in 1..Len(calls) /\ f.status \in {"returned", "recovered"}
          /\ i - 1 \in 1..Len(calls) /\ calls[i - 1].status = "deferred"
          /\ GoesOn(calls[i - 1], Append(p, f))
      BY <1>1, <1>4, ReturnedGoesOn
    <2>2. (i - 1) - 1 = i - 2 /\ f \in Frame
      BY <1>1, <2>1
    <2>3. Callers(p) /\ p \in Seq(Frame) /\ (HasTrace(calls, i - 1) => HasTrace(p, Len(p)))
      BY <1>1, <2>1, <2>2, PrefixKeeps
    <2>4. HasTrace(calls, i) => HasTrace(calls, i - 1) \/ f.status = "recovered"
      <3>1. \A j \in 1..i : j = i \/ j \in 1..i-1
        BY <1>1
      <3> QED
        BY <2>1, <3>1 DEF HasTrace
    <2> HIDE DEF p, f
    <2>5. Append(p, f) \in Seq(Frame) /\ Callers(Append(p, f)) /\ EndsDeferrer(Append(p, f))
          /\ (HasTrace(calls, i) => HasTrace(Append(p, f), Len(Append(p, f))))
      BY <2>1, <2>2, <2>3, <2>4, AppendKeeps, AppendProperties
    <2> QED
      BY <1>1, <2>1, <2>5, GoesOnKeeps
  <1>5. CASE NextPanicked
    <2>1. phase = "next" /\ i \in 1..Len(calls)
      BY <1>1, <1>5, PanickedGoesOn
    <2>2. PICK k \in 1..i-1 :
             /\ calls[k].status = "deferred"
             /\ GoesOn(calls[k], Append(SubSeq(calls, 1, k - 1), PanickingFrame(calls[k + 1], calls[i].why)))
      BY <1>1, <1>5, PanickedGoesOn
    <2> DEFINE p == SubSeq(calls, 1, k - 1)
               f == PanickingFrame(calls[k + 1], calls[i].why)
    <2>3. k \in 1..Len(calls) /\ k + 1 \in 1..Len(calls)
      BY <1>1, <2>1, <2>2
    <2>4. f \in Frame /\ f.status = "panicked"
      <3>1. calls[k + 1] \in Frame /\ calls[i].why \in Nat
        BY <1>1, <2>1, <2>3 DEF Frame
      <3> QED
        BY <3>1, PanickingFrameType
    <2>5. Callers(p) /\ p \in Seq(Frame)
      BY <1>1, <2>3, PrefixKeeps
    <2>6. GoesOn(calls[k], Append(p, f)) /\ calls[k] \in Frame
      BY <1>1, <2>2, <2>3
    <2> HIDE DEF p, f
    <2>7. Append(p, f) \in Seq(Frame) /\ Callers(Append(p, f)) /\ EndsDeferrer(Append(p, f))
          /\ HasTrace(Append(p, f), Len(Append(p, f)))
      BY <2>4, <2>5, AppendKeeps, AppendProperties
    <2> QED
      BY <1>1, <2>1, <2>6, <2>7, GoesOnKeeps
  <1> QED
    BY <1>2, <1>3, <1>4, <1>5

LEMMA GoInvPush ==
    ASSUME GoInv, FunctionInv', "defer native" \notin Ops, OpCallFunc \/ OpCallMacro \/ Defers
    PROVE  GoInv'
  <1>1. /\ calls \in Seq(Frame) /\ Len(calls) \in Nat /\ cur \in Fn /\ rend \in Nat
        /\ Callers(calls) /\ FunctionInv
    BY FrameFacts DEF GoInv
  <1>2. /\ phase = "run" /\ phase' = "run" /\ cur.kind \in {"func", "macro"} /\ chain' = chain
        /\ cur'.kind \in {"func", "macro"}
    <2>1. CASE OpCallFunc
      BY <2>1 DEF OpCallFunc, Enter, Executes
    <2>2. CASE OpCallMacro
      <3>1. PICK r \in {rend, made + 1} : Executes("macro") /\ Enter("macro", rend, r)
        BY <2>2 DEF OpCallMacro
      <3> QED
        BY <3>1 DEF Enter, Executes
    <2>3. CASE Defers
      BY <2>3 DEF Defers, OpDefer, Executes
    <2> QED
      BY <2>1, <2>2, <2>3
  <1>3. PICK f \in Frame : /\ calls' = Append(calls, f)
                           /\ f.status = "started" => f.kind \in {"func", "macro"}
    <2>1. CASE OpCallFunc \/ OpCallMacro
      <3>1. PICK saved \in {0, rend} : calls' = Append(calls, FrameOf(cur, "started", saved))
        BY <2>1 DEF OpCallFunc, OpCallMacro, Enter
      <3>2. FrameOf(cur, "started", saved) \in Frame
        BY <1>1, FrameOfType DEF Statuses
      <3>3. FrameOf(cur, "started", saved).kind = cur.kind
        BY DEF FrameOf
      <3> QED
        BY <1>2, <3>1, <3>2, <3>3
    <2>2. CASE Defers
      <3>1. PICK kind \in {"func", "recover"} :
               calls' = Append(calls, FrameOf([act |-> made', kind |-> kind], "deferred", rend))
        BY <2>2 DEF Defers, OpDefer, Executes
      <3>2. [act |-> made', kind |-> kind] \in Fn
        <4>1. made' \in Nat
          BY DEF FunctionInv, SafeInv, TypeOK
        <4> QED
          BY <4>1 DEF Fn, Kinds
      <3>3. FrameOf([act |-> made', kind |-> kind], "deferred", rend) \in Frame
            /\ FrameOf([act |-> made', kind |-> kind], "deferred", rend).status # "started"
        BY <1>1, <3>2, FrameOfType DEF Statuses
      <3> QED
        BY <3>1, <3>3
    <2> QED
      BY <2>1, <2>2
  <1>4. Callers(calls') /\ (HasTrace(calls, Len(calls)) => HasTrace(calls', Len(calls')))
    BY <1>1, <1>3, AppendKeeps
  <1> QED
    BY <1>2, <1>4 DEF GoInv, Alive

LEMMA GoInvPanic ==
    ASSUME GoInv, FunctionInv', OpPanic
    PROVE  GoInv'
  <1>1. /\ calls \in Seq(Frame) /\ Len(calls) \in Nat /\ cur \in Fn /\ rend \in Nat /\ thrown' \in Nat
        /\ Callers(calls) /\ cur.kind \in {"func", "macro"}
    BY FrameFacts DEF GoInv, OpPanic, LinksPanic, Throws, Executes, FunctionInv, SafeInv, TypeOK
  <1>2. CASE calls = <<>>
    BY <1>2 DEF OpPanic, GoInv
  <1>3. CASE calls # <<>>
    <2> DEFINE f == [FrameOf(cur, "panicked", rend) EXCEPT !.why = thrown']
    <2>1. calls' = Append(calls, f) /\ cur' = Nil /\ i' = Len(calls') /\ phase' = "next"
      BY <1>3 DEF OpPanic, PushesPanicked
    <2>2. f = [act |-> cur.act, kind |-> cur.kind, status |-> "panicked", rend |-> rend, why |-> thrown']
      BY DEF FrameOf
    <2>3. f \in Frame /\ f.status = "panicked"
      BY <1>1, <2>2 DEF Fn, Statuses, Frame
    <2> HIDE DEF f
    <2>4. Callers(calls') /\ HasTrace(calls', Len(calls')) /\ calls' \in Seq(Frame)
      BY <1>1, <2>1, <2>3, AppendKeeps, AppendProperties
    <2>5. Len(calls') \in Nat
      BY <2>4, LenProperties
    <2>6. i'+1..Len(calls') = {}
      BY <2>1, <2>5
    <2> QED
      BY <2>1, <2>4, <2>6 DEF GoInv, Alive
  <1> QED
    BY <1>2, <1>3

LEMMA GoInvRecover ==
    ASSUME GoInv, FunctionInv', OpRecover \/ OpRecoverDown
    PROVE  GoInv'
  <1>1. PICK found \in {Recoverable(Len(calls)),
                        Recoverable(IF Last(calls).status = "panicked" THEN 0 ELSE Len(calls) - 1)} :
           RecoverFrames(found)
    BY DEF OpRecover, OpRecoverDown
  <1>2. /\ cur' = cur /\ phase = "run" /\ phase' \in {"run", "return"}
    BY DEF OpRecover, OpRecoverDown, Executes
  <1>3. /\ calls \in Seq(Frame) /\ Len(calls) \in Nat /\ DOMAIN calls = 1..Len(calls)
        /\ \A j \in 1..Len(calls) : calls[j] \in Frame
    BY FrameFacts DEF GoInv
  <1>4. Len(calls') = Len(calls)
    BY <1>1, RecoverPreserves DEF GoInv, FunctionInv
  <1>5. \A j \in found : calls[j].status = "panicked"
    BY <1>1 DEF Recoverable
  <1>6. \A j \in 1..Len(calls) :
           /\ calls'[j].kind = calls[j].kind
           /\ calls'[j] = calls[j] \/ (calls[j].status = "panicked" /\ calls'[j].status = "recovered")
    BY <1>1, <1>3, <1>5 DEF RecoverFrames, Frame
  <1>7. Callers(calls')
    BY <1>4, <1>6 DEF Callers, GoInv
  <1>8. HasTrace(calls, Len(calls)) => HasTrace(calls', Len(calls'))
    BY <1>4, <1>6 DEF HasTrace
  <1>9. EndsDeferrer(calls) => EndsDeferrer(calls')
    <2>1. Len(calls) # 0 => Len(calls) \in 1..Len(calls)
      BY <1>3
    <2> QED
      BY <1>4, <1>6, <2>1 DEF EndsDeferrer
  <1>10. chain' # <<>> => chain # <<>> \/ found # {}
    BY <1>1 DEF RecoverFrames
  <1>11. found # {} => HasTrace(calls, Len(calls))
    <2> SUFFICES ASSUME NEW j \in found PROVE HasTrace(calls, Len(calls))
      OBVIOUS
    <2>1. j \in 1..Len(calls) \/ j \in 1..0 \/ j \in 1..Len(calls) - 1
      BY <1>1 DEF Recoverable
    <2>2. j \in 1..Len(calls)
      BY <1>3, <2>1
    <2> QED
      BY <1>5, <2>2 DEF HasTrace
  <1> QED
    BY <1>2, <1>7, <1>8, <1>9, <1>10, <1>11 DEF GoInv, Alive

LEMMA GoInvReturn ==
    ASSUME GoInv, FunctionInv', ReturnToCaller
    PROVE  GoInv'
  <1> DEFINE n == Len(calls)
  <1>1. /\ calls # <<>> /\ calls[n].status = "started" /\ phase \in {"run", "return"}
        /\ calls' = SubSeq(calls, 1, n - 1) /\ cur' = FunctionOf(calls[n]) /\ phase' = "run"
        /\ chain' = chain
    BY DEF ReturnToCaller, Returning, Last
  <1>2. calls \in Seq(Frame) /\ n \in 1..n /\ Callers(calls)
    BY <1>1, FrameFacts, EmptySeq DEF GoInv
  <1>3. Callers(calls') /\ (HasTrace(calls, n) => HasTrace(calls', Len(calls')))
    BY <1>1, <1>2, PrefixKeeps
  <1>4. cur'.kind # "recover"
    BY <1>1, <1>2 DEF FunctionOf, Callers
  <1> QED
    BY <1>1, <1>3, <1>4 DEF GoInv, Alive

LEMMA GoInvToNextCall ==
    ASSUME GoInv, FunctionInv', ReturnToNextCall
    PROVE  GoInv'
  <1>1. /\ i' = Len(calls) /\ phase' = "next" /\ phase \in {"run", "return"}
        /\ UNCHANGED <<calls, cur, chain>> /\ Len(calls) \in Nat
    BY FrameFacts DEF ReturnToNextCall, Returning, GoInv
  <1>2. i'+1..Len(calls') = {}
    BY <1>1
  <1> QED
    BY <1>1, <1>2 DEF GoInv, Alive

LEMMA GoInvFinalized ==
    ASSUME GoInv, FunctionInv', NextFinalized
    PROVE  GoInv'
  <1>1. /\ calls \in Seq(Frame) /\ Len(calls) \in Nat /\ DOMAIN calls = 1..Len(calls)
        /\ i \in 1..Len(calls) /\ calls[i].status \in {"returned", "recovered"} /\ SafeInv
    BY LoopIndex, FrameFacts DEF GoInv, NextFinalized
  <1>2. /\ phase = "next" /\ phase' = "next" /\ i' = i - 1 /\ UNCHANGED <<calls, cur>>
        /\ chain' = IF calls[i].status = "recovered" /\ Len(chain) > Cardinality(Panicked)
                    THEN SubSeq(chain, 1, Cardinality(Panicked)) ELSE chain
    BY DEF NextFinalized, CutChain, AtStatus
  <1>3. \A j \in i'+1..Len(calls') : calls'[j].status # "panicked"
    <2>1. \A j \in i'+1..Len(calls') : j = i \/ j \in i+1..Len(calls)
      BY <1>1, <1>2
    <2> QED
      BY <1>1, <1>2, <2>1 DEF GoInv
  <1>4. Panicked # {} => HasTrace(calls', Alive')
    <2> SUFFICES ASSUME NEW j \in Panicked PROVE HasTrace(calls', Alive')
      OBVIOUS
    <2>1. j \in 1..Len(calls) /\ calls[j].status = "panicked"
      BY <1>1 DEF Panicked
    <2>2. j \notin i+1..Len(calls) /\ j # i
      BY <1>1, <1>2, <2>1 DEF GoInv
    <2>3. j \in 1..i-1
      BY <1>1, <2>1, <2>2
    <2> QED
      BY <1>2, <2>1, <2>3 DEF HasTrace, Alive
  <1>5. chain' # <<>> => HasTrace(calls', Alive')
    <2> SUFFICES ASSUME chain' # <<>>, Panicked = {} PROVE HasTrace(calls', Alive')
      BY <1>4
    <2>1. Cardinality(Panicked) = 0
      BY FS_EmptySet
    <2>2. chain \in Seq([id : Nat, recovered : BOOLEAN]) /\ Len(chain) \in Nat
      BY <1>1, LenProperties DEF SafeInv, TypeOK
    <2>3. SubSeq(chain, 1, 0) = <<>>
      BY SubSeqEmpty
    <2>4. chain # <<>> => Len(chain) > 0
      BY <2>2, EmptySeq
    <2>5. chain # <<>> /\ calls[i].status # "recovered"
      BY <1>2, <2>1, <2>2, <2>3, <2>4
    <2>6. PICK j \in 1..i : calls[j].status \in {"panicked", "recovered"}
      BY <1>2, <2>5 DEF GoInv, HasTrace, Alive
    <2>7. j \in 1..i-1
      BY <1>1, <2>5, <2>6
    <2> QED
      BY <1>2, <2>6, <2>7 DEF HasTrace, Alive
  <1> QED
    BY <1>2, <1>3, <1>5 DEF GoInv

\* The programs of the theorem: they defer no native function, after which the machine may
\* be left without a function (NeverNilFunction), and do not call env.Stop and env.Fatal,
\* that GoDefer does not have.
GoAssumption == "defer native" \notin Ops /\ "exit" \notin Ops

LEMMA GoInvStep ==
    ASSUME GoAssumption, GoInv, [Next]_vars
    PROVE  GoInv'
  <1>1. FunctionInv'
    BY FunctionStep DEF GoInv, GoAssumption
  <1>2. CASE OpCallFunc \/ OpCallMacro \/ Defers
    BY <1>1, <1>2, GoInvPush DEF GoAssumption
  <1>3. CASE OpPanic
    BY <1>1, <1>3, GoInvPanic
  <1>4. CASE OpRecover \/ OpRecoverDown
    BY <1>1, <1>4, GoInvRecover
  <1>5. CASE ReturnToCaller
    BY <1>1, <1>5, GoInvReturn
  <1>6. CASE ReturnToNextCall
    BY <1>1, <1>6, GoInvToNextCall
  <1>7. CASE NextStarted \/ NextDeferred \/ NextDeferredOfReturned \/ NextPanicked
    BY <1>1, <1>7, GoInvLoop
  <1>8. CASE NextFinalized
    BY <1>1, <1>8, GoInvFinalized
  <1>9. CASE ReturnFromMain \/ NextNone
    BY <1>1, <1>9 DEF GoInv, ReturnFromMain, NextNone
  <1>10. CASE Exit
    BY <1>10 DEF Exit, Executes, GoAssumption
  <1>11. CASE NextDeferredNil
    BY <1>11 DEF NextDeferredNil, AtStatus, FunctionInv, GoInv
  <1>12. CASE Native
    BY <1>12 DEF Native, NativeReturns, NativeNil, NativeFails, NativeStops, FunctionInv, GoInv
  <1>13. CASE UNCHANGED vars
    BY <1>1, <1>13 DEF GoInv, vars, Alive
  <1> QED
    BY <1>2, <1>3, <1>4, <1>5, <1>6, <1>7, <1>8, <1>9, <1>10, <1>11, <1>12, <1>13
       DEF Next, Execute, NextCall, Ended

-----------------------------------------------------------------------------
(***************************************************************************)
(* The chain of panics against the panicked frames.  Both are in the order *)
(* of the panics.  As long as the chain has not been left with a panic of  *)
(* no panicked frame, it has that of every panicked frame, and its newest  *)
(* panic is that of the frame on top, if it has not been recovered: the    *)
(* one that a recover() there stops.  A cut leaves as many panics as there *)
(* are panicked frames, so that if each is of one of them each of them has *)
(* its own.                                                                *)
(***************************************************************************)
Marked(f) == f.status \in {"panicked", "recovered"}
Ordered(cs) ==
    \A j, k \in 1..Len(cs) :
        (j < k /\ cs[j].status = "panicked" /\ cs[k].status = "panicked") => cs[j].why < cs[k].why
Sorted(ch, last) ==
    \A m \in 1..Len(ch) : ch[m].id \in 1..last /\ \A l \in 1..m-1 : ch[l].id < ch[m].id
Represented(cs, ch) ==
    \A j \in 1..Len(cs) : cs[j].status = "panicked" => \E m \in 1..Len(ch) : ch[m].id = cs[j].why
\* The frame on top, of the first n, that panics or has recovered.
TopMarked(cs, n, j) == Marked(cs[j]) /\ \A k \in j+1..n : ~Marked(cs[k])
NewestOnTop(cs, n, ch) ==
    \A j \in 1..n : (cs[j].status = "panicked" /\ TopMarked(cs, n, j)) => Last(ch).id = cs[j].why

ChainInv ==
    /\ GoInv
    /\ ChainCoversPanics
    /\ thrown \in 0..MaxPanics
    /\ Sorted(chain, thrown)
    /\ \A j \in 1..Len(calls) : calls[j].status = "panicked" => calls[j].why \in 1..thrown
    /\ Ordered(calls)
    /\ ~mixed => Represented(calls, chain) /\ NewestOnTop(calls, Alive, chain)

LEMMA ChainFacts ==
    ASSUME ChainInv
    PROVE  /\ calls \in Seq(Frame) /\ Len(calls) \in Nat /\ DOMAIN calls = 1..Len(calls)
           /\ \A j \in 1..Len(calls) : calls[j] \in Frame
           /\ chain \in Seq([id : Nat, recovered : BOOLEAN]) /\ Len(chain) \in Nat
           /\ thrown \in Nat /\ Alive \in 0..Len(calls)
           /\ \A j \in 1..Len(calls) : calls[j].status = "panicked" => j \in 1..Alive
           /\ FunctionInv /\ SafeInv
  <1>1. /\ calls \in Seq(Frame) /\ Len(calls) \in Nat /\ DOMAIN calls = 1..Len(calls)
        /\ \A j \in 1..Len(calls) : calls[j] \in Frame
        /\ FunctionInv /\ SafeInv
    BY FrameFacts DEF ChainInv, GoInv, FunctionInv
  <1>2. chain \in Seq([id : Nat, recovered : BOOLEAN]) /\ Len(chain) \in Nat /\ thrown \in Nat
    BY <1>1, LenProperties DEF SafeInv, TypeOK
  <1>3. Alive \in 0..Len(calls)
    BY <1>1 DEF ChainInv, GoInv, Alive, SafeInv, TypeOK
  <1>4. \A j \in 1..Len(calls) : calls[j].status = "panicked" => j \in 1..Alive
    <2>1. CASE phase = "next"
      <3>1. Alive = i
        BY <2>1 DEF Alive
      <3> SUFFICES ASSUME NEW j \in 1..Len(calls), calls[j].status = "panicked" PROVE j \in 1..Alive
        OBVIOUS
      <3>2. j \notin i+1..Len(calls)
        BY <2>1 DEF ChainInv, GoInv
      <3> QED
        BY <1>1, <1>3, <3>1, <3>2
    <2>2. CASE phase # "next"
      BY <1>1, <2>2 DEF Alive, ChainInv, GoInv
    <2> QED
      BY <2>1, <2>2
  <1> QED
    BY <1>1, <1>2, <1>3, <1>4

LEMMA ChainInit == Init => ChainInv
  <1> SUFFICES ASSUME Init PROVE ChainInv
    OBVIOUS
  <1>1. calls = <<>> /\ chain = <<>> /\ thrown = 0 /\ phase = "run" /\ Len(calls) = 0 /\ Len(chain) = 0
    BY DEF Init
  <1>2. GoInv /\ ChainCoversPanics
    BY GoInvInit, CoverInit DEF CoverInv
  <1>3. thrown \in 0..MaxPanics
    BY <1>1, BoundsAssumption
  <1>4. Alive = 0
    BY <1>1 DEF Alive
  <1> QED
    BY <1>1, <1>2, <1>3, <1>4 DEF ChainInv, Sorted, Ordered, Represented, NewestOnTop

\* A step after which no frame panics that did not, and the one on top, if it panics, was on top.
LEMMA ChainSame ==
    ASSUME ChainInv, GoInv', ChainCoversPanics', thrown' = thrown, mixed' = mixed,
           Len(chain') = Len(chain), \A m \in 1..Len(chain) : chain'[m].id = chain[m].id,
           \A j \in 1..Len(calls') : calls'[j].status = "panicked" =>
               j \in 1..Len(calls) /\ calls[j].status = "panicked" /\ calls[j].why = calls'[j].why,
           \A j \in 1..Alive' : (calls'[j].status = "panicked" /\ TopMarked(calls', Alive', j)) =>
               j \in 1..Len(calls') /\ TopMarked(calls, Alive, j)
    PROVE  ChainInv'
  <1>1. Sorted(chain', thrown')
    BY DEF ChainInv, Sorted
  <1>2. \A j \in 1..Len(calls') : calls'[j].status = "panicked" => calls'[j].why \in 1..thrown'
    BY DEF ChainInv
  <1>3. Ordered(calls')
    BY DEF ChainInv, Ordered
  <1>4. ASSUME ~mixed' PROVE Represented(calls', chain')
    <2>1. Represented(calls, chain)
      BY <1>4 DEF ChainInv
    <2> QED
      BY <2>1 DEF Represented
  <1>5. ASSUME ~mixed' PROVE NewestOnTop(calls', Alive', chain')
    <2> SUFFICES ASSUME NEW j \in 1..Alive', calls'[j].status = "panicked", TopMarked(calls', Alive', j)
                 PROVE  Last(chain').id = calls'[j].why
      BY DEF NewestOnTop
    <2>1. j \in 1..Len(calls) /\ calls[j].status = "panicked" /\ calls[j].why = calls'[j].why
          /\ TopMarked(calls, Alive, j) /\ j \in 1..Alive
      BY ChainFacts
    <2>2. Last(chain).id = calls[j].why
      BY <1>5, <2>1 DEF ChainInv, NewestOnTop
    <2>3. chain # <<>>
      BY <2>1, ChainFacts DEF SafeInv, PanickedHasPanic, Panicked
    <2>4. Len(chain) \in 1..Len(chain)
      BY <2>3, ChainFacts, EmptySeq
    <2> QED
      BY <2>1, <2>2, <2>4 DEF Last
  <1> QED
    BY <1>1, <1>2, <1>3, <1>4, <1>5 DEF ChainInv

\* A frame that neither panics nor has recovered is pushed.
LEMMA ChainPush ==
    ASSUME ChainInv, GoInv', ChainCoversPanics', GoAssumption,
           OpCallFunc \/ OpCallMacro \/ Defers
    PROVE  ChainInv'
  <1>1. PICK f \in Frame : calls' = Append(calls, f) /\ ~Marked(f)
    <2>1. CASE OpCallFunc \/ OpCallMacro
      <3>1. PICK saved \in {0, rend} : calls' = Append(calls, FrameOf(cur, "started", saved))
        BY <2>1 DEF OpCallFunc, OpCallMacro, Enter
      <3>2. cur \in Fn /\ saved \in Nat
        BY ChainFacts DEF SafeInv, TypeOK, Fn
      <3>3. /\ FrameOf(cur, "started", saved) \in Frame
            /\ FrameOf(cur, "started", saved).status = "started"
        BY <3>2, FrameOfType DEF Statuses
      <3> QED
        BY <3>1, <3>3 DEF Marked
    <2>2. CASE Defers
      <3>1. PICK kind \in {"func", "recover"} :
               /\ calls' = Append(calls, FrameOf([act |-> made', kind |-> kind], "deferred", rend))
               /\ made' = made + 1
        BY <2>2 DEF Defers, OpDefer, Executes, GoAssumption
      <3>2. [act |-> made', kind |-> kind] \in Fn /\ rend \in Nat
        BY <3>1, ChainFacts DEF Fn, Kinds, SafeInv, TypeOK
      <3>3. /\ FrameOf([act |-> made', kind |-> kind], "deferred", rend) \in Frame
            /\ FrameOf([act |-> made', kind |-> kind], "deferred", rend).status = "deferred"
        BY <3>2, FrameOfType DEF Statuses
      <3> QED
        BY <3>1, <3>3 DEF Marked
    <2> QED
      BY <2>1, <2>2
  <1>2. phase = "run" /\ phase' = "run" /\ UNCHANGED <<chain, thrown, mixed>>
    BY DEF OpCallFunc, OpCallMacro, Defers, OpDefer, Enter, Executes
  <1>3. Alive = Len(calls) /\ Alive' = Len(calls')
    BY <1>2 DEF Alive
  <1>4. /\ Len(calls') = Len(calls) + 1 /\ calls'[Len(calls) + 1] = f
        /\ \A j \in 1..Len(calls) : calls'[j] = calls[j]
    BY <1>1, ChainFacts, AppendProperties
  <1>5. \A j \in 1..Len(calls') : Marked(calls'[j]) => j \in 1..Len(calls) /\ calls'[j] = calls[j]
    BY <1>1, <1>4, ChainFacts
  <1>6. \A j \in 1..Len(calls') : TopMarked(calls', Len(calls'), j) => TopMarked(calls, Len(calls), j)
    <2> SUFFICES ASSUME NEW j \in 1..Len(calls'), TopMarked(calls', Len(calls'), j)
                 PROVE  TopMarked(calls, Len(calls), j)
      OBVIOUS
    <2>1. j \in 1..Len(calls) /\ Marked(calls[j])
      BY <1>5 DEF TopMarked
    <2>2. \A k \in j+1..Len(calls) : k \in j+1..Len(calls') /\ calls'[k] = calls[k]
      BY <1>4, <2>1, ChainFacts
    <2> QED
      BY <2>1, <2>2 DEF TopMarked
  <1> QED
    BY <1>2, <1>3, <1>5, <1>6, ChainSame DEF Marked

\* The frames from k on are dropped, and one that does not panic takes the place of frame k.
LEMMA ChainDrop ==
    ASSUME ChainInv, GoInv', ChainCoversPanics', UNCHANGED <<chain, thrown, mixed>>, phase' = "run",
           NEW k \in 1..Alive, calls' = SubSeq(calls, 1, k - 1),
           \A m \in k..Alive : ~Marked(calls[m])
    PROVE  ChainInv'
  <1>1. k \in 1..Len(calls) + 1 /\ k \in 1..Len(calls)
    BY ChainFacts
  <1>2. Len(calls') = k - 1 /\ \A j \in 1..k-1 : calls'[j] = calls[j] /\ j \in 1..Len(calls)
    BY <1>1, ChainFacts, PrefixOfSeq
  <1>3. Alive' = k - 1
    BY <1>2 DEF Alive
  <1>4. ASSUME NEW j \in 1..Alive', TopMarked(calls', Alive', j) PROVE TopMarked(calls, Alive, j)
    <2>1. \A m \in j+1..Alive : m \in j+1..k-1 \/ m \in k..Alive
      BY <1>3, ChainFacts
    <2>2. \A m \in j+1..k-1 : calls'[m] = calls[m]
      BY <1>2, <1>3
    <2> QED
      BY <1>2, <1>3, <1>4, <2>1, <2>2 DEF TopMarked
  <1> QED
    BY <1>2, <1>3, <1>4, ChainSame

LEMMA ChainReplace ==
    ASSUME ChainInv, GoInv', ChainCoversPanics', UNCHANGED <<chain, thrown, mixed>>, phase' = "run",
           NEW k \in 1..Alive, NEW f \in Frame, calls' = Append(SubSeq(calls, 1, k - 1), f),
           f.status # "panicked",
           \A m \in k..Alive : Marked(calls[m]) => Marked(f)
    PROVE  ChainInv'
  <1>1. k \in 1..Len(calls) + 1 /\ k \in 1..Len(calls)
    BY ChainFacts
  <1>2. /\ SubSeq(calls, 1, k - 1) \in Seq(Frame) /\ Len(SubSeq(calls, 1, k - 1)) = k - 1
        /\ \A j \in 1..k-1 : SubSeq(calls, 1, k - 1)[j] = calls[j] /\ j \in 1..Len(calls)
    BY <1>1, ChainFacts, PrefixOfSeq
  <1>3. Len(calls') = k /\ calls'[k] = f /\ \A j \in 1..k-1 : calls'[j] = calls[j] /\ j \in 1..Len(calls)
    BY <1>2, AppendProperties
  <1>4. Alive' = k
    BY <1>3 DEF Alive
  <1>5. \A j \in 1..Len(calls') : calls'[j].status = "panicked" => j \in 1..k-1
    BY <1>3
  <1>6. ASSUME NEW j \in 1..Alive', calls'[j].status = "panicked", TopMarked(calls', Alive', j)
        PROVE  TopMarked(calls, Alive, j)
    <2>1. j \in 1..k-1
      BY <1>3, <1>4, <1>5, <1>6
    <2>2. \A m \in j+1..Alive : m \in j+1..k-1 \/ m \in k..Alive
      BY <2>1, ChainFacts
    <2>3. \A m \in j+1..k-1 : calls'[m] = calls[m] /\ m \in j+1..Alive'
      BY <1>3, <1>4, <2>1
    <2>4. ~Marked(f)
      BY <1>3, <1>4, <1>6, <2>1 DEF TopMarked
    <2> QED
      BY <1>3, <1>6, <2>1, <2>2, <2>3, <2>4 DEF TopMarked
  <1> QED
    BY <1>3, <1>4, <1>5, <1>6, ChainSame

LEMMA ChainReturn ==
    ASSUME ChainInv, GoInv', ChainCoversPanics', ReturnToCaller
    PROVE  ChainInv'
  <1>1. /\ calls # <<>> /\ calls[Len(calls)].status = "started" /\ phase \in {"run", "return"}
        /\ calls' = SubSeq(calls, 1, Len(calls) - 1) /\ phase' = "run"
        /\ UNCHANGED <<chain, thrown, mixed>>
    BY DEF ReturnToCaller, Returning, Last, hist
  <1>2. Alive = Len(calls) /\ Len(calls) \in 1..Alive
    BY <1>1, ChainFacts, EmptySeq DEF Alive
  <1>3. \A m \in Len(calls)..Alive : ~Marked(calls[m])
    BY <1>1, <1>2 DEF Marked
  <1> QED
    BY <1>1, <1>2, <1>3, ChainDrop

LEMMA ChainLoop ==
    ASSUME ChainInv, GoInv', ChainCoversPanics', NextStarted \/ NextDeferred \/ NextDeferredOfReturned
    PROVE  ChainInv'
  <1>1. UNCHANGED <<chain, thrown, mixed>>
    BY DEF NextStarted, NextDeferred, NextDeferredOfReturned, hist
  <1>2. phase = "next" => Alive = i
    BY DEF Alive
  <1>3. CASE NextStarted
    <2>1. /\ phase = "next" /\ i \in 1..Len(calls) /\ calls[i].status = "started"
          /\ GoesOn(calls[i], SubSeq(calls, 1, i - 1))
      BY <1>3, ChainFacts, StartedGoesOn
    <2>2. i \in 1..Alive /\ phase' = "run" /\ calls' = SubSeq(calls, 1, i - 1)
      BY <1>2, <2>1, ChainFacts DEF GoesOn
    <2>3. \A m \in i..Alive : ~Marked(calls[m])
      BY <1>2, <2>1, ChainFacts DEF Marked
    <2> QED
      BY <1>1, <2>2, <2>3, ChainDrop
  <1>4. CASE NextDeferred
    <2> DEFINE f == FrameOf(cur, "returned", rend)
    <2>1. /\ phase = "next" /\ i \in 1..Len(calls) /\ calls[i].status = "deferred" /\ f \in Frame
          /\ GoesOn(calls[i], Append(SubSeq(calls, 1, i - 1), f))
      BY <1>4, ChainFacts, DeferredGoesOn
    <2>2. f.status = "returned"
      BY DEF FrameOf
    <2> HIDE DEF f
    <2>3. i \in 1..Alive /\ phase' = "run" /\ calls' = Append(SubSeq(calls, 1, i - 1), f)
      BY <1>2, <2>1, ChainFacts DEF GoesOn
    <2>4. \A m \in i..Alive : ~Marked(calls[m])
      BY <1>2, <2>1, ChainFacts DEF Marked
    <2> QED
      BY <1>1, <2>1, <2>2, <2>3, <2>4, ChainReplace
  <1>5. CASE NextDeferredOfReturned
    <2>1. /\ phase = "next" /\ i \in 1..Len(calls) /\ calls[i].status \in {"returned", "recovered"}
          /\ i - 1 \in 1..Len(calls) /\ calls[i - 1].status = "deferred"
          /\ GoesOn(calls[i - 1], Append(SubSeq(calls, 1, i - 2), calls[i]))
      BY <1>5, ChainFacts, ReturnedGoesOn
    <2>2. i - 1 \in 1..Alive /\ phase' = "run" /\ calls' = Append(SubSeq(calls, 1, (i - 1) - 1), calls[i])
      <3>1. (i - 1) - 1 = i - 2
        BY <2>1, ChainFacts
      <3> QED
        BY <1>2, <2>1, <3>1, ChainFacts DEF GoesOn
    <2>3. \A m \in (i - 1)..Alive : Marked(calls[m]) => Marked(calls[i])
      <3>1. \A m \in (i - 1)..Alive : m = i - 1 \/ m = i
        BY <1>2, <2>1, ChainFacts
      <3> QED
        BY <2>1, <3>1 DEF Marked
    <2>4. calls[i] \in Frame /\ calls[i].status # "panicked"
      BY <2>1, ChainFacts
    <2> QED
      BY <1>1, <2>2, <2>3, <2>4, ChainReplace
  <1> QED
    BY <1>3, <1>4, <1>5

\* The panic on top moves down with the function that now panics with it.
LEMMA ChainPanicked ==
    ASSUME ChainInv, GoInv', ChainCoversPanics', NextPanicked
    PROVE  ChainInv'
  <1>1. UNCHANGED <<chain, thrown, mixed>>
    BY DEF NextPanicked, hist
  <1>2. phase = "next" /\ i \in 1..Len(calls) /\ calls[i].status = "panicked"
    BY ChainFacts, PanickedGoesOn
  <1>3. PICK k \in 1..i-1 :
           GoesOn(calls[k], Append(SubSeq(calls, 1, k - 1), PanickingFrame(calls[k + 1], calls[i].why)))
    BY ChainFacts, PanickedGoesOn
  <1> DEFINE f == PanickingFrame(calls[k + 1], calls[i].why)
             p == SubSeq(calls, 1, k - 1)
  <1>4. k \in 1..Len(calls) + 1 /\ k \in 1..Len(calls) /\ k + 1 \in 1..Len(calls) /\ k < i
    BY <1>2, <1>3, ChainFacts
  <1>5. f \in Frame /\ f.status = "panicked" /\ f.why = calls[i].why
    <2>1. calls[k + 1] \in Frame /\ calls[i].why \in Nat
      BY <1>2, <1>4, ChainFacts DEF Frame
    <2> QED
      BY <2>1, PanickingFrameType
  <1>6. calls' = Append(p, f) /\ phase' = "run"
    BY <1>3 DEF GoesOn
  <1> HIDE DEF f
  <1>7. p \in Seq(Frame) /\ Len(p) = k - 1 /\ \A j \in 1..k-1 : p[j] = calls[j]
    BY <1>4, ChainFacts, PrefixOfSeq
  <1> HIDE DEF p
  <1>8. Len(calls') = k /\ calls'[k] = f /\ \A j \in 1..k-1 : calls'[j] = calls[j]
    BY <1>4, <1>5, <1>6, <1>7, AppendProperties
  <1>9. Alive = i /\ Alive' = k
    BY <1>2, <1>6, <1>8 DEF Alive
  <1>10. \A j \in 1..Len(calls') : j = k \/ (j \in 1..k-1 /\ j \in 1..Len(calls) /\ j < i)
    <2>1. i \in Nat /\ k \in Nat /\ Len(calls) \in Nat /\ k <= Len(calls)
      BY <1>2, <1>4, ChainFacts
    <2> QED
      BY <1>4, <1>8, <2>1
  <1>11. \A j \in 1..Len(calls') : calls'[j].status = "panicked" => calls'[j].why \in 1..thrown
    BY <1>2, <1>5, <1>8, <1>10 DEF ChainInv
  <1>12. Ordered(calls')
    <2> SUFFICES ASSUME NEW j \in 1..Len(calls'), NEW l \in 1..Len(calls'), j < l,
                        calls'[j].status = "panicked", calls'[l].status = "panicked"
                 PROVE  calls'[j].why < calls'[l].why
      BY DEF Ordered
    <2>1. j \in 1..k-1 /\ j \in 1..Len(calls) /\ j < i /\ calls'[j] = calls[j]
      BY <1>8, <1>10
    <2>2. CASE l = k
      BY <1>2, <1>5, <1>8, <2>1, <2>2 DEF ChainInv, Ordered
    <2>3. CASE l # k
      <3>1. l \in 1..Len(calls) /\ calls'[l] = calls[l]
        BY <1>8, <1>10, <2>3
      <3> QED
        BY <2>1, <3>1 DEF ChainInv, Ordered
    <2> QED
      BY <2>2, <2>3
  <1>13. Represented(calls, chain) => Represented(calls', chain')
    <2> SUFFICES ASSUME Represented(calls, chain), NEW j \in 1..Len(calls'), calls'[j].status = "panicked"
                 PROVE  \E m \in 1..Len(chain) : chain[m].id = calls'[j].why
      BY <1>1 DEF Represented
    <2>1. PICK l \in 1..Len(calls) : calls[l].status = "panicked" /\ calls[l].why = calls'[j].why
      BY <1>2, <1>5, <1>8, <1>10
    <2> QED
      BY <2>1 DEF Represented
  <1>14. NewestOnTop(calls, Alive, chain) => NewestOnTop(calls', Alive', chain')
    <2> SUFFICES ASSUME NewestOnTop(calls, Alive, chain), NEW j \in 1..k, TopMarked(calls', k, j)
                 PROVE  Last(chain).id = calls'[j].why
      BY <1>1, <1>9 DEF NewestOnTop
    <2>1. j = k
      <3> SUFFICES ASSUME j # k PROVE FALSE
        OBVIOUS
      <3>1. k \in j+1..k
        BY <1>4
      <3> QED
        BY <1>5, <1>8, <3>1 DEF TopMarked, Marked
    <2>2. TopMarked(calls, i, i) /\ i \in 1..Alive
      <3>1. i+1..i = {} /\ i \in 1..i
        BY <1>2, ChainFacts
      <3> QED
        BY <1>2, <1>9, <3>1 DEF TopMarked, Marked
    <2> QED
      BY <1>2, <1>5, <1>8, <1>9, <2>1, <2>2 DEF NewestOnTop
  <1> QED
    BY <1>1, <1>11, <1>12, <1>13, <1>14 DEF ChainInv

LEMMA ChainRecover ==
    ASSUME ChainInv, GoInv', ChainCoversPanics', OpRecover \/ OpRecoverDown
    PROVE  ChainInv'
  <1>1. PICK found \in {Recoverable(Len(calls)),
                        Recoverable(IF Last(calls).status = "panicked" THEN 0 ELSE Len(calls) - 1)} :
           RecoverFrames(found)
    BY DEF OpRecover, OpRecoverDown
  <1>2. /\ phase = "run" /\ phase' \in {"run", "return"} /\ thrown' = thrown /\ mixed' = mixed
    BY DEF OpRecover, OpRecoverDown, Executes, hist
  <1>3. Len(calls') = Len(calls)
    BY <1>1, ChainFacts, RecoverPreserves
  <1>4. \A j \in found : calls[j].status = "panicked"
    BY <1>1 DEF Recoverable
  <1>5. \A j \in 1..Len(calls) :
           \/ calls'[j] = calls[j]
           \/ calls[j].status = "panicked" /\ calls'[j].status = "recovered"
    BY <1>1, <1>4, ChainFacts DEF RecoverFrames, Frame
  <1>6. Len(chain') = Len(chain) /\ \A m \in 1..Len(chain) : chain'[m].id = chain[m].id
    <2>1. CASE chain' = chain
      BY <2>1
    <2>2. CASE chain' # chain
      <3>1. chain' = [chain EXCEPT ![Len(chain)].recovered = TRUE]
        BY <1>1, <2>2 DEF RecoverFrames
      <3>2. DOMAIN chain = 1..Len(chain)
        BY ChainFacts, LenProperties
      <3>3. \A m \in 1..Len(chain) : chain[m] \in [id : Nat, recovered : BOOLEAN]
        BY ChainFacts, ElementOfSeq
      <3>4. DOMAIN chain' = DOMAIN chain /\ \A m \in 1..Len(chain) : chain'[m].id = chain[m].id
        BY <3>1, <3>2, <3>3
      <3>5. chain' \in Seq([id : Nat, recovered : BOOLEAN])
        BY <1>1, ChainFacts, RecoverPreserves
      <3> QED
        BY <3>2, <3>4, <3>5, LenProperties, ChainFacts
    <2> QED
      BY <2>1, <2>2
  <1>7. Alive = Len(calls) /\ Alive' = Len(calls)
    BY <1>2, <1>3 DEF Alive
  <1>8. \A j \in 1..Len(calls) : Marked(calls'[j]) <=> Marked(calls[j])
    BY <1>5 DEF Marked
  <1>9. ASSUME NEW j \in 1..Alive', TopMarked(calls', Alive', j) PROVE TopMarked(calls, Alive, j)
    <2>1. \A m \in j+1..Len(calls) : m \in 1..Len(calls)
      BY <1>7, ChainFacts
    <2> QED
      BY <1>7, <1>8, <1>9, <2>1 DEF TopMarked
  <1>10. \A j \in 1..Len(calls') : calls'[j].status = "panicked" => calls'[j] = calls[j]
    BY <1>3, <1>5
  <1> HIDE DEF Marked
  <1> QED
    BY <1>2, <1>3, <1>6, <1>7, <1>9, <1>10, ChainSame

\* The panic that starts is the newest of the chain, and the frame on top is that of its function.
LEMMA ChainPanic ==
    ASSUME ChainInv, GoInv', ChainCoversPanics', OpPanic
    PROVE  ChainInv'
  <1> DEFINE link == [id |-> thrown', recovered |-> FALSE]
             f == [FrameOf(cur, "panicked", rend) EXCEPT !.why = thrown']
             n == Len(calls)
  <1>1. /\ thrown < MaxPanics /\ thrown' = thrown + 1 /\ mixed' = mixed
        /\ chain' = Append(chain, link)
    BY DEF OpPanic, LinksPanic, Throws
  <1>2. thrown' \in 0..MaxPanics /\ thrown' \in Nat
    BY <1>1, BoundsAssumption DEF ChainInv
  <1>3. link \in [id : Nat, recovered : BOOLEAN] /\ link.id = thrown'
    BY <1>2
  <1> HIDE DEF link
  <1>4. /\ Len(chain') = Len(chain) + 1 /\ chain'[Len(chain) + 1] = link
        /\ \A m \in 1..Len(chain) : chain'[m] = chain[m]
    BY <1>1, <1>3, ChainFacts, AppendProperties
  <1>5. \A m \in 1..Len(chain') : m = Len(chain) + 1 \/ m \in 1..Len(chain)
    BY <1>4, ChainFacts
  <1>6. Sorted(chain', thrown')
    <2>1. ASSUME NEW m \in 1..Len(chain') PROVE chain'[m].id \in 1..thrown'
      <3>1. CASE m = Len(chain) + 1
        BY <1>1, <1>2, <1>3, <1>4, <3>1, ChainFacts
      <3>2. CASE m \in 1..Len(chain)
        BY <1>1, <1>4, <3>2, ChainFacts DEF ChainInv, Sorted
      <3> QED
        BY <1>5, <3>1, <3>2
    <2>2. ASSUME NEW m \in 1..Len(chain'), NEW l \in 1..m-1 PROVE chain'[l].id < chain'[m].id
      <3>1. l \in 1..Len(chain) /\ chain'[l] = chain[l] /\ chain[l].id \in 1..thrown
        BY <1>4, ChainFacts DEF ChainInv, Sorted
      <3>2. CASE m = Len(chain) + 1
        BY <1>1, <1>3, <1>4, <3>1, <3>2, ChainFacts
      <3>3. CASE m \in 1..Len(chain)
        BY <1>4, <3>1, <3>3 DEF ChainInv, Sorted
      <3> QED
        BY <1>5, <3>2, <3>3
    <2> QED
      BY <2>1, <2>2 DEF Sorted
  <1>7. Last(chain').id = thrown'
    BY <1>3, <1>4 DEF Last
  <1>8. CASE calls = <<>>
    <2>1. calls' = calls /\ phase' = "done" /\ Len(calls') = 0
      BY <1>8 DEF OpPanic
    <2>2. Alive' = 0
      BY <2>1 DEF Alive
    <2> QED
      BY <1>2, <1>6, <2>1, <2>2 DEF ChainInv, Ordered, Represented, NewestOnTop
  <1>9. CASE calls # <<>>
    <2>1. calls' = Append(calls, f) /\ i' = Len(calls') /\ phase' = "next"
      BY <1>9 DEF OpPanic, PushesPanicked
    <2>2. f = [act |-> cur.act, kind |-> cur.kind, status |-> "panicked", rend |-> rend, why |-> thrown']
      BY DEF FrameOf
    <2>3. f \in Frame /\ f.status = "panicked" /\ f.why = thrown'
      BY <1>2, <2>2, ChainFacts DEF SafeInv, TypeOK, Statuses, Frame
    <2> HIDE DEF f
    <2>4. Len(calls') = n + 1 /\ calls'[n + 1] = f /\ \A j \in 1..n : calls'[j] = calls[j]
      BY <2>1, <2>3, ChainFacts, AppendProperties
    <2>5. Alive' = n + 1
      BY <2>1, <2>4 DEF Alive
    <2>6. \A j \in 1..Len(calls') : j = n + 1 \/ j \in 1..n
      BY <2>4, ChainFacts
    <2>7. \A j \in 1..Len(calls') : calls'[j].status = "panicked" => calls'[j].why \in 1..thrown'
      <3> SUFFICES ASSUME NEW j \in 1..Len(calls'), calls'[j].status = "panicked"
                   PROVE  calls'[j].why \in 1..thrown'
        OBVIOUS
      <3>1. CASE j = n + 1
        BY <1>1, <2>3, <2>4, <3>1, ChainFacts
      <3>2. CASE j \in 1..n
        <4>1. calls[j].why \in 1..thrown
          BY <2>4, <3>2 DEF ChainInv
        <4> QED
          BY <1>1, <2>4, <3>2, <4>1, ChainFacts
      <3> QED
        BY <2>6, <3>1, <3>2
    <2>8. Ordered(calls')
      <3> SUFFICES ASSUME NEW j \in 1..Len(calls'), NEW l \in 1..Len(calls'), j < l,
                          calls'[j].status = "panicked", calls'[l].status = "panicked"
                   PROVE  calls'[j].why < calls'[l].why
        BY DEF Ordered
      <3>1. j \in 1..n /\ calls'[j] = calls[j] /\ calls[j].why \in 1..thrown
        BY <2>4, <2>6, ChainFacts DEF ChainInv
      <3>2. CASE l = n + 1
        BY <1>1, <2>3, <2>4, <3>1, <3>2, ChainFacts
      <3>3. CASE l \in 1..n
        BY <2>4, <3>1, <3>3 DEF ChainInv, Ordered
      <3> QED
        BY <2>6, <3>2, <3>3
    <2>9. Represented(calls, chain) => Represented(calls', chain')
      <3> SUFFICES ASSUME Represented(calls, chain), NEW j \in 1..Len(calls'), calls'[j].status = "panicked"
                   PROVE  \E m \in 1..Len(chain') : chain'[m].id = calls'[j].why
        BY DEF Represented
      <3>1. CASE j = n + 1
        <4>1. Len(chain) + 1 \in 1..Len(chain')
          BY <1>4, ChainFacts
        <4> QED
          BY <1>3, <1>4, <2>3, <2>4, <3>1, <4>1
      <3>2. CASE j \in 1..n
        <4>1. PICK m \in 1..Len(chain) : chain[m].id = calls[j].why
          BY <2>4, <3>2 DEF Represented
        <4>2. m \in 1..Len(chain')
          BY <1>4, ChainFacts
        <4> QED
          BY <1>4, <2>4, <3>2, <4>1, <4>2
      <3> QED
        BY <2>6, <3>1, <3>2
    <2>10. NewestOnTop(calls', Alive', chain')
      <3> SUFFICES ASSUME NEW j \in 1..n+1, TopMarked(calls', n + 1, j)
                   PROVE  Last(chain').id = calls'[j].why
        BY <2>5 DEF NewestOnTop
      <3>1. j = n + 1
        <4> SUFFICES ASSUME j # n + 1 PROVE FALSE
          OBVIOUS
        <4>1. n + 1 \in j+1..n+1
          BY ChainFacts
        <4> QED
          BY <2>3, <2>4, <4>1 DEF TopMarked, Marked
      <3> QED
        BY <1>7, <2>3, <2>4, <3>1
    <2> QED
      BY <1>1, <1>2, <1>6, <2>7, <2>8, <2>9, <2>10 DEF ChainInv
  <1> QED
    BY <1>8, <1>9

\* An injection between two finite sets with as many elements reaches every element.
LEMMA ReachesAll ==
    ASSUME NEW S, NEW T, IsFiniteSet(T), IsFiniteSet(S), Cardinality(S) = Cardinality(T),
           NEW f \in [S -> T], \A x, y \in S : f[x] = f[y] => x = y
    PROVE  \A t \in T : \E x \in S : f[x] = t
  <1>1. f \in Injection(S, T)
    BY DEF Injection, IsInjective
  <1>2. f \in Surjection(S, T)
    BY <1>1, FS_Injection
  <1> QED
    BY <1>2 DEF Surjection

\* As many panics as panicked frames, and each of one of them: each frame has its own, and the
\* newest panic is that of the frame on top.
LEMMA OwnPanics ==
    ASSUME NEW cs, NEW ch, NEW P, IsFiniteSet(P), P \subseteq 1..Len(cs), Len(cs) \in Nat,
           \A j \in 1..Len(cs) : cs[j].status = "panicked" <=> j \in P,
           \A j \in P : cs[j].why \in Nat,
           Ordered(cs), NEW last, Sorted(ch, last), Len(ch) \in Nat, Len(ch) = Cardinality(P),
           \A m \in 1..Len(ch) : \E j \in P : cs[j].why = ch[m].id
    PROVE  /\ Represented(cs, ch)
           /\ \A j \in P : (\A k \in P : k <= j) => Last(ch).id = cs[j].why
  <1> DEFINE n == Len(ch)
             f == [m \in 1..n |-> CHOOSE j \in P : cs[j].why = ch[m].id]
  <1>1. \A m \in 1..n : f[m] \in P /\ cs[f[m]].why = ch[m].id
    OBVIOUS
  <1>2. f \in [1..n -> P]
    BY <1>1
  <1>3. \A m \in 1..n : ch[m].id \in Int /\ \A l \in 1..m-1 : ch[l].id < ch[m].id
    BY <1>1 DEF Sorted
  <1> HIDE DEF f
  <1>4. \A x, y \in 1..n : f[x] = f[y] => x = y
    <2> SUFFICES ASSUME NEW x \in 1..n, NEW y \in 1..n, f[x] = f[y], x # y PROVE FALSE
      OBVIOUS
    <2>1. ch[x].id = ch[y].id
      BY <1>1
    <2>2. x \in 1..y-1 \/ y \in 1..x-1
      OBVIOUS
    <2> QED
      BY <1>3, <2>1, <2>2
  <1>5. IsFiniteSet(1..n) /\ Cardinality(1..n) = n
    BY 1 \in Int, n \in Int, FS_Interval
  <1>6. \A j \in P : \E m \in 1..n : f[m] = j
    <2> DEFINE S == 1..n
    <2>1. /\ IsFiniteSet(S) /\ Cardinality(S) = Cardinality(P)
          /\ f \in [S -> P] /\ \A x, y \in S : f[x] = f[y] => x = y
      BY <1>2, <1>4, <1>5
    <2> HIDE DEF S
    <2>2. \A j \in P : \E m \in S : f[m] = j
      BY <2>1, ReachesAll
    <2> QED
      BY <2>2 DEF S
  <1>7. Represented(cs, ch)
    BY <1>1, <1>6 DEF Represented
  <1>8. ASSUME NEW j \in P, \A k \in P : k <= j PROVE Last(ch).id = cs[j].why
    <2>1. PICK m \in 1..n : f[m] = j
      BY <1>6
    <2>2. n \in 1..n
      OBVIOUS
    <2>3. m = n
      <3> SUFFICES ASSUME m # n PROVE FALSE
        OBVIOUS
      <3>1. ch[m].id < ch[n].id
        BY <1>3, <2>2
      <3>2. cs[f[n]].why = ch[n].id /\ f[n] \in P /\ f[n] <= j
        BY <1>1, <1>8, <2>2
      <3>3. cs[j].why = ch[m].id
        BY <1>1, <2>1
      <3>4. f[n] # j
        <4>1. ch[m].id # ch[n].id
          BY <1>3, <2>2, <3>1
        <4> QED
          BY <3>2, <3>3, <4>1
      <3>5. cs[f[n]].why < cs[j].why
        <4>1. /\ f[n] \in 1..Len(cs) /\ cs[f[n]].status = "panicked"
              /\ j \in 1..Len(cs) /\ cs[j].status = "panicked"
          BY <3>2
        <4>2. f[n] < j
          BY <3>2, <3>4, <4>1
        <4> QED
          BY <4>1, <4>2 DEF Ordered
      <3> QED
        BY <1>3, <2>2, <3>1, <3>2, <3>3, <3>5
    <2> QED
      BY <1>1, <2>1, <2>3 DEF Last
  <1> QED
    BY <1>7, <1>8

LEMMA ChainFinalized ==
    ASSUME ChainInv, GoInv', ChainCoversPanics', NextFinalized
    PROVE  ChainInv'
  <1> DEFINE n == Cardinality(Panicked)
             cut == calls[i].status = "recovered" /\ Len(chain) > n
  <1>1. /\ phase = "next" /\ phase' = "next" /\ i' = i - 1 /\ UNCHANGED <<calls, thrown>>
        /\ calls[i].status \in {"returned", "recovered"}
        /\ IF cut THEN CutChain(n) ELSE UNCHANGED <<chain, mixed>>
    BY DEF NextFinalized, AtStatus
  <1>2. i \in 1..Len(calls) /\ Alive = i /\ Alive' = i - 1 /\ i \in Nat
    BY <1>1, ChainFacts, LoopIndex DEF Alive, NextFinalized
  <1>3. /\ Panicked \subseteq 1..Len(calls) /\ IsFiniteSet(Panicked) /\ n \in Nat
        /\ \A j \in 1..Len(calls) : calls[j].status = "panicked" <=> j \in Panicked
    BY ChainFacts, PanickedIsFinite DEF Panicked
  <1>4. \A j \in Panicked : calls[j].why \in 1..thrown /\ calls[j].why \in Nat /\ j \in 1..i-1
    <2>1. \A j \in Panicked : calls[j].why \in 1..thrown /\ j \in 1..i
      BY <1>2, <1>3, ChainFacts DEF ChainInv
    <2> QED
      BY <1>1, <1>2, <1>3, <2>1, ChainFacts
  <1> HIDE DEF n
  <1>5. CASE calls[i].status = "returned"
    <2>1. UNCHANGED <<chain, mixed>>
      BY <1>1, <1>5
    <2>2. \A j \in 1..i-1 : TopMarked(calls, i - 1, j) => TopMarked(calls, i, j)
      <3>1. \A j \in 1..i-1 : \A k \in j+1..i : k = i \/ k \in j+1..i-1
        BY <1>2
      <3> QED
        BY <1>5, <3>1 DEF TopMarked, Marked
    <2>3. \A j \in 1..i-1 : j \in 1..Len(calls)
      BY <1>2, ChainFacts
    <2> QED
      BY <1>1, <1>2, <2>1, <2>2, <2>3, ChainSame
  <1>6. CASE calls[i].status = "recovered"
    <2>1. /\ Len(chain') = n /\ n <= Len(chain)
          /\ \A m \in 1..n : chain'[m] = chain[m]
      <3>1. n <= Len(chain)
        BY <1>3, ChainFacts DEF ChainInv, ChainCoversPanics, n
      <3>2. CASE cut
        <4>1. n + 1 \in 1..Len(chain) + 1 /\ (n + 1) - 1 = n
          BY <1>3, <3>1, ChainFacts
        <4>2. chain' = SubSeq(chain, 1, (n + 1) - 1)
          BY <1>1, <3>2, <4>1 DEF CutChain
        <4>3. /\ Len(SubSeq(chain, 1, (n + 1) - 1)) = (n + 1) - 1
              /\ \A m \in 1..(n+1)-1 : SubSeq(chain, 1, (n + 1) - 1)[m] = chain[m]
          BY <4>1, ChainFacts, PrefixOfSeq
        <4> QED
          BY <3>1, <4>1, <4>2, <4>3
      <3>3. CASE ~cut
        BY <1>1, <1>3, <1>6, <3>1, <3>3, ChainFacts
      <3> QED
        BY <3>2, <3>3
    <2>2. Sorted(chain', thrown)
      <3>1. \A m \in 1..n : m \in 1..Len(chain) /\ \A l \in 1..m-1 : l \in 1..n
        BY <1>3, <2>1, ChainFacts
      <3>2. \A m \in 1..Len(chain) : chain[m].id \in 1..thrown /\ \A l \in 1..m-1 : chain[l].id < chain[m].id
        BY DEF ChainInv, Sorted
      <3> HIDE DEF n
      <3> SUFFICES ASSUME NEW m \in 1..Len(chain')
                   PROVE  chain'[m].id \in 1..thrown /\ \A l \in 1..m-1 : chain'[l].id < chain'[m].id
        BY DEF Sorted
      <3>3. m \in 1..n /\ chain'[m] = chain[m] /\ \A l \in 1..m-1 : chain'[l] = chain[l]
        BY <2>1, <3>1
      <3> QED
        BY <3>1, <3>2, <3>3
    <2>3. ASSUME ~mixed' PROVE \A m \in 1..n : \E j \in Panicked : calls[j].why = chain'[m].id
      <3>1. CASE cut
        <4>1. mixed' = \E m \in 1..n : \A j \in Panicked : calls[j].why # chain[m].id
          BY <1>1, <3>1 DEF CutChain
        <4> QED
          BY <2>1, <2>3, <4>1
      <3>2. CASE ~cut
        <4>1. chain' = chain /\ ~mixed /\ Len(chain) = n
          BY <1>1, <1>3, <1>6, <2>1, <2>3, <3>2, ChainFacts
        <4>2. Represented(calls, chain) /\ Ordered(calls)
          BY <4>1 DEF ChainInv
        <4> DEFINE T == 1..n
                   f == [j \in Panicked |-> CHOOSE m \in T : chain[m].id = calls[j].why]
        <4>3. \A j \in Panicked : f[j] \in T /\ chain[f[j]].id = calls[j].why
          <5>1. \A j \in Panicked : \E m \in T : chain[m].id = calls[j].why
            <6> HIDE DEF n
            <6> QED
              BY <1>3, <4>1, <4>2 DEF Represented
          <5> HIDE DEF n
          <5> QED
            BY <5>1
        <4>4. \A x, y \in Panicked : calls[x].why = calls[y].why => x = y
          <5> SUFFICES ASSUME NEW x \in Panicked, NEW y \in Panicked, calls[x].why = calls[y].why, x # y
                       PROVE  FALSE
            OBVIOUS
          <5>1. /\ x \in 1..Len(calls) /\ y \in 1..Len(calls) /\ calls[x].why \in Nat
                /\ calls[x].status = "panicked" /\ calls[y].status = "panicked"
            BY <1>3, <1>4
          <5>2. x < y \/ y < x
            BY <5>1, ChainFacts
          <5> QED
            BY <4>2, <5>1, <5>2 DEF Ordered
        <4>5. f \in [Panicked -> T]
          BY <4>3
        <4>6. IsFiniteSet(T) /\ Cardinality(T) = Cardinality(Panicked)
          <5>1. n = Cardinality(Panicked)
            BY DEF n
          <5>2. n \in Int /\ n \in Nat
            BY <1>3
          <5>3. IsFiniteSet(1..n) /\ Cardinality(1..n) = n
            BY <5>2, 1 \in Int, FS_Interval
          <5> QED
            BY <5>1, <5>3
        <4> HIDE DEF n, f, T
        <4>7. \A m \in T : \E j \in Panicked : calls[j].why = chain[m].id
          <5>1. \A x, y \in Panicked : f[x] = f[y] => x = y
            BY <4>3, <4>4
          <5>2. \A m \in T : \E j \in Panicked : f[j] = m
            <6> DEFINE S == Panicked
            <6>1. /\ IsFiniteSet(T) /\ IsFiniteSet(S) /\ Cardinality(S) = Cardinality(T)
                  /\ f \in [S -> T] /\ \A x, y \in S : f[x] = f[y] => x = y
              BY <1>3, <4>5, <4>6, <5>1
            <6> HIDE DEF S
            <6>2. \A m \in T : \E j \in S : f[j] = m
              BY <6>1, ReachesAll
            <6> QED
              BY <6>2 DEF S
          <5> SUFFICES ASSUME NEW m \in T PROVE \E j \in Panicked : calls[j].why = chain[m].id
            OBVIOUS
          <5>3. PICK j \in Panicked : f[j] = m
            BY <5>2
          <5>4. calls[j].why = chain[m].id
            BY <4>3, <5>3
          <5> QED
            BY <5>4
        <4> QED
          BY <4>1, <4>7 DEF T
      <3> QED
        BY <3>1, <3>2
    <2>4. ASSUME ~mixed'
          PROVE  /\ Represented(calls, chain')
                 /\ \A j \in Panicked : (\A k \in Panicked : k <= j) => Last(chain').id = calls[j].why
      <3>1. Ordered(calls)
        BY DEF ChainInv
      <3>2. /\ IsFiniteSet(Panicked) /\ Panicked \subseteq 1..Len(calls) /\ Len(calls) \in Nat
            /\ \A j \in 1..Len(calls) : calls[j].status = "panicked" <=> j \in Panicked
            /\ \A j \in Panicked : calls[j].why \in Nat
            /\ Len(chain') \in Nat /\ Len(chain') = Cardinality(Panicked)
        BY <1>3, <1>4, <2>1, ChainFacts DEF n
      <3>3. \A m \in 1..Len(chain') : \E j \in Panicked : calls[j].why = chain'[m].id
        BY <2>1, <2>3, <2>4
      <3> HIDE DEF n
      <3> QED
        BY <2>2, <3>1, <3>2, <3>3, OwnPanics
    <2>5. ASSUME ~mixed' PROVE NewestOnTop(calls, i - 1, chain')
      <3> SUFFICES ASSUME NEW j \in 1..i-1, calls[j].status = "panicked", TopMarked(calls, i - 1, j)
                   PROVE  Last(chain').id = calls[j].why
        BY DEF NewestOnTop
      <3>1. j \in Panicked
        BY <1>2, <1>3, ChainFacts
      <3>2. ASSUME NEW k \in Panicked PROVE k <= j
        <4>1. k \in 1..i-1 /\ calls[k].status = "panicked"
          BY <1>3, <1>4
        <4>2. k \notin j+1..i-1
          BY <4>1 DEF TopMarked, Marked
        <4> QED
          BY <1>2, <4>1, <4>2
      <3> QED
        BY <2>4, <2>5, <3>1, <3>2
    <2> QED
      BY <1>1, <1>2, <2>2, <2>4, <2>5 DEF ChainInv, Represented, Ordered, NewestOnTop, TopMarked
  <1> QED
    BY <1>1, <1>5, <1>6

\* The steps that change neither the frames nor the chain.
LEMMA ChainOther ==
    ASSUME ChainInv, GoInv', ChainCoversPanics',
           ReturnToNextCall \/ ReturnFromMain \/ NextNone \/ UNCHANGED vars
    PROVE  ChainInv'
  <1>1. UNCHANGED <<calls, chain, thrown, mixed>>
    BY DEF ReturnToNextCall, ReturnFromMain, NextNone, hist, vars
  <1>2. Alive' \in 0..Len(calls) /\ Alive <= Alive'
    <2>1. CASE ReturnToNextCall
      BY <1>1, <2>1, ChainFacts DEF Alive, ReturnToNextCall
    <2>2. CASE ReturnFromMain \/ NextNone
      BY <1>1, <2>2, ChainFacts DEF Alive, ReturnFromMain, NextNone
    <2>3. CASE UNCHANGED vars
      <3>1. Alive' = Alive
        BY <2>3 DEF Alive, vars
      <3> QED
        BY <3>1, ChainFacts
    <2> QED
      BY <2>1, <2>2, <2>3
  <1>3. \A j \in 1..Len(calls) : TopMarked(calls, Alive', j) => TopMarked(calls, Alive, j)
    <2>1. \A j \in 1..Len(calls) : \A k \in j+1..Alive : k \in j+1..Alive'
      BY <1>2, ChainFacts
    <2> QED
      BY <2>1 DEF TopMarked
  <1>4. \A j \in 1..Alive' : j \in 1..Len(calls')
    BY <1>1, <1>2, ChainFacts
  <1>5. \A j \in 1..Alive' : TopMarked(calls', Alive', j) => TopMarked(calls, Alive, j)
    BY <1>1, <1>3, <1>4
  <1> QED
    BY <1>1, <1>4, <1>5, ChainSame

LEMMA ChainStep ==
    ASSUME GoAssumption, ChainInv, [Next]_vars
    PROVE  ChainInv'
  <1>1. GoInv'
    BY GoInvStep DEF ChainInv
  <1>2. ChainCoversPanics'
    BY CoverStep DEF ChainInv, GoInv, CoverInv, GoAssumption
  <1>3. CASE OpCallFunc \/ OpCallMacro \/ Defers
    BY <1>1, <1>2, <1>3, ChainPush
  <1>4. CASE OpPanic
    BY <1>1, <1>2, <1>4, ChainPanic
  <1>5. CASE OpRecover \/ OpRecoverDown
    BY <1>1, <1>2, <1>5, ChainRecover
  <1>6. CASE ReturnToCaller
    BY <1>1, <1>2, <1>6, ChainReturn
  <1>7. CASE NextStarted \/ NextDeferred \/ NextDeferredOfReturned
    BY <1>1, <1>2, <1>7, ChainLoop
  <1>8. CASE NextPanicked
    BY <1>1, <1>2, <1>8, ChainPanicked
  <1>9. CASE NextFinalized
    BY <1>1, <1>2, <1>9, ChainFinalized
  <1>10. CASE ReturnToNextCall \/ ReturnFromMain \/ NextNone \/ UNCHANGED vars
    BY <1>1, <1>2, <1>10, ChainOther
  <1>11. ~Exit
    BY DEF Exit, Executes, GoAssumption
  <1>12. ~NextDeferredNil /\ ~Native
    BY DEF NextDeferredNil, AtStatus, Native, NativeReturns, NativeNil, NativeFails, NativeStops,
           FunctionInv, GoInv, ChainInv
  <1> QED
    BY <1>3, <1>4, <1>5, <1>6, <1>7, <1>8, <1>9, <1>10, <1>11, <1>12
       DEF Next, Execute, NextCall, Ended

-----------------------------------------------------------------------------
(***************************************************************************)
(* The steps of GoDefer, on a stack that is an activation above others.    *)
(***************************************************************************)
Body(fn, ds) == [id |-> fn.act, kind |-> GoKind(fn), mode |-> "body", why |-> 0, defers |-> ds]

WithDefers(a, ds) == [a EXCEPT !.defers = ds]
WithMode(a, m) == [a EXCEPT !.mode = m]
WithPanic(a, p) == [a EXCEPT !.mode = "panic", !.why = p]
Becomes(a, m, w, ds) == [a EXCEPT !.mode = m, !.why = w, !.defers = ds]

LEMMA OnAppend ==
    ASSUME NEW S, NEW s \in Seq(S), NEW a \in S
    PROVE  /\ Append(s, a) \in Seq(S) /\ Len(Append(s, a)) = Len(s) + 1 /\ Append(s, a) # <<>>
           /\ Len(s) \in Nat /\ (Len(s) + 1) - 1 = Len(s) /\ Len(s) + 1 > 0
           /\ (Len(s) + 1 = 1 <=> s = <<>>)
           /\ Append(s, a)[Len(s) + 1] = a
           /\ \A j \in 1..Len(s) : Append(s, a)[j] = s[j]
           /\ SubSeq(Append(s, a), 1, Len(s)) = s
           /\ \A b \in S : [Append(s, a) EXCEPT ![Len(s) + 1] = b] = Append(s, b)
           /\ \A b \in S, j \in 1..Len(s) :
                 [Append(s, a) EXCEPT ![j] = b] = Append([s EXCEPT ![j] = b], a)
  <1> DEFINE t == Append(s, a)
             n == Len(s)
  <1>1. t \in Seq(S) /\ Len(t) = n + 1 /\ t # <<>> /\ t[n + 1] = a /\ \A j \in 1..n : t[j] = s[j]
    BY AppendProperties
  <1>2. n \in Nat /\ (n + 1) - 1 = n /\ n + 1 > 0
    BY LenProperties
  <1>3. n + 1 = 1 <=> s = <<>>
    BY <1>2, EmptySeq
  <1> HIDE DEF t
  <1>4. SubSeq(t, 1, n) = s
    <2>1. n + 1 \in 1..Len(t) + 1 /\ (n + 1) - 1 = n
      BY <1>1, <1>2
    <2>2. SubSeq(t, 1, n) \in Seq(S) /\ Len(SubSeq(t, 1, n)) = n /\ \A j \in 1..n : SubSeq(t, 1, n)[j] = t[j]
      BY <1>1, <2>1, PrefixOfSeq
    <2> QED
      BY <1>1, <2>2, SeqEqual
  <1>5. ASSUME NEW b \in S
        PROVE  [t EXCEPT ![n + 1] = b] = Append(s, b)
    <2>1. n + 1 \in 1..Len(t)
      BY <1>1, <1>2
    <2>2. /\ [t EXCEPT ![n + 1] = b] \in Seq(S) /\ Len([t EXCEPT ![n + 1] = b]) = n + 1
          /\ \A j \in 1..n + 1 : [t EXCEPT ![n + 1] = b][j] = IF j = n + 1 THEN b ELSE t[j]
      BY <1>1, <2>1, ReplaceInSeq
    <2>3. /\ Append(s, b) \in Seq(S) /\ Len(Append(s, b)) = n + 1 /\ Append(s, b)[n + 1] = b
          /\ \A j \in 1..n : Append(s, b)[j] = s[j]
      BY AppendProperties
    <2>4. \A j \in 1..n + 1 : j = n + 1 \/ (j \in 1..n /\ j # n + 1)
      BY <1>2
    <2>5. \A j \in 1..n + 1 : [t EXCEPT ![n + 1] = b][j] = Append(s, b)[j]
      BY <1>1, <2>2, <2>3, <2>4
    <2> QED
      BY <2>2, <2>3, <2>5, SeqEqual
  <1>6. ASSUME NEW b \in S, NEW k \in 1..n
        PROVE  [t EXCEPT ![k] = b] = Append([s EXCEPT ![k] = b], a)
    <2> DEFINE u == [s EXCEPT ![k] = b]
    <2>1. k \in 1..Len(t) /\ k # n + 1
      BY <1>1, <1>2
    <2>2. /\ [t EXCEPT ![k] = b] \in Seq(S) /\ Len([t EXCEPT ![k] = b]) = n + 1
          /\ \A j \in 1..n + 1 : [t EXCEPT ![k] = b][j] = IF j = k THEN b ELSE t[j]
      BY <1>1, <2>1, ReplaceInSeq
    <2>3. u \in Seq(S) /\ Len(u) = n /\ \A j \in 1..n : u[j] = IF j = k THEN b ELSE s[j]
      BY ReplaceInSeq
    <2> HIDE DEF u
    <2>4. /\ Append(u, a) \in Seq(S) /\ Len(Append(u, a)) = n + 1 /\ Append(u, a)[n + 1] = a
          /\ \A j \in 1..n : Append(u, a)[j] = u[j]
      BY <2>3, AppendProperties
    <2>5. \A j \in 1..n + 1 : j = n + 1 \/ j \in 1..n
      BY <1>2
    <2>6. \A j \in 1..n + 1 : [t EXCEPT ![k] = b][j] = Append(u, a)[j]
      BY <1>1, <2>1, <2>2, <2>3, <2>4, <2>5
    <2>7. [t EXCEPT ![k] = b] = Append(u, a)
      BY <2>2, <2>4, <2>6, SeqEqual
    <2> QED
      BY <2>7 DEF u
  <1> QED
    BY <1>1, <1>2, <1>3, <1>4, <1>5, <1>6 DEF t

LEMMA ActEdits ==
    ASSUME NEW a \in Act, NEW ds \in Seq(Call), NEW m \in Modes, NEW w \in Nat
    PROVE  /\ WithDefers(a, ds) \in Act /\ WithMode(a, m) \in Act /\ WithPanic(a, w) \in Act
           /\ Becomes(a, m, w, ds) \in Act /\ Stopped(a) \in Act
  <1>1. WithDefers(a, ds) \in Act
    BY DEF WithDefers, Act
  <1>2. WithMode(a, m) \in Act
    BY DEF WithMode, Act
  <1>3. WithPanic(a, w) \in Act
    BY DEF WithPanic, Act, Modes
  <1>4. Becomes(a, m, w, ds) \in Act
    BY DEF Becomes, Act
  <1>5. Stopped(a) \in Act
    BY DEF Stopped, Act, Modes
  <1> QED
    BY <1>1, <1>2, <1>3, <1>4, <1>5

OnTopOf(s, a) == s \in Seq(Act) /\ a \in Act /\ StackNow = Append(s, a) /\ OutcomeNow = "running"

LEMMA GoCall ==
    ASSUME NEW s, NEW a, OnTopOf(s, a), a.mode = "body", a.kind = "func", NEW id \in 1..MaxActs,
           StackNow' = Append(Append(s, a), Go!Activation(id, "func")),
           OutcomeNow' = "running", got' = got
    PROVE  Go!Next
  <1>1. /\ StackNow = Append(s, a) /\ OutcomeNow = "running" /\ StackNow # <<>>
        /\ Len(StackNow) = Len(s) + 1 /\ StackNow[Len(s) + 1] = a
    BY OnAppend DEF OnTopOf
  <1>2. Go!Call
    BY <1>1 DEF Go!Call, Go!Executing, Go!Top, Go!Depth
  <1> QED
    BY <1>2 DEF Go!Next

LEMMA GoDefers ==
    ASSUME NEW s, NEW a, OnTopOf(s, a), a.mode = "body", a.kind = "func",
           NEW d \in [id : 1..MaxActs, kind : {"func", "recover", "native"}], d \in Call,
           StackNow' = Append(s, WithDefers(a, Append(a.defers, d))),
           OutcomeNow' = "running", got' = got
    PROVE  Go!Next
  <1>1. /\ StackNow = Append(s, a) /\ OutcomeNow = "running" /\ StackNow # <<>>
        /\ Len(StackNow) = Len(s) + 1 /\ StackNow[Len(s) + 1] = a /\ s \in Seq(Act) /\ a \in Act
    BY OnAppend DEF OnTopOf
  <1>2. WithDefers(a, Append(a.defers, d)) \in Act
    <2>1. a.defers \in Seq(Call)
      BY <1>1 DEF Act
    <2>2. Append(a.defers, d) \in Seq(Call)
      BY <2>1, AppendProperties
    <2> QED
      BY <1>1, <2>2, ActEdits DEF Modes
  <1>3. StackNow' = [StackNow EXCEPT ![Len(StackNow)] = WithDefers(StackNow[Len(StackNow)], Append(StackNow[Len(StackNow)].defers, d))]
    <2> DEFINE b == WithDefers(a, Append(a.defers, d))
    <2>1. StackNow' = Append(s, b) /\ b \in Act
      BY <1>2
    <2> HIDE DEF b
    <2>2. StackNow' = [StackNow EXCEPT ![Len(StackNow)] = b]
      BY <1>1, <2>1, OnAppend
    <2> QED
      BY <1>1, <2>2 DEF b
  <1>4. Go!Defer
    BY <1>1, <1>3 DEF Go!Defer, Go!Executing, Go!Top, Go!Depth, WithDefers
  <1> QED
    BY <1>4 DEF Go!Next

\* A panic in the only activation, that has deferred nothing, ends the program.
LEMMA GoPanicEnds ==
    ASSUME NEW a, OnTopOf(<<>>, a), a.mode = "body", a.kind = "func", a.defers = <<>>,
           StackNow' = <<>>, OutcomeNow' = "panicked", got' = got
    PROVE  Go!Next
  <1>1. /\ OutcomeNow = "running" /\ StackNow # <<>> /\ Len(StackNow) = 1 /\ StackNow[1] = a
    BY OnAppend, EmptySeq DEF OnTopOf
  <1>2. Go!Panic
    BY <1>1 DEF Go!Panic, Go!Executing, Go!Top, Go!Depth
  <1> QED
    BY <1>2 DEF Go!Next

LEMMA GoPanic ==
    ASSUME NEW s, NEW a, OnTopOf(s, a), a.mode = "body", a.kind = "func",
           ~(s = <<>> /\ a.defers = <<>>), NEW p \in 1..MaxPanics, p \in Nat,
           StackNow' = Append(s, WithPanic(a, p)), OutcomeNow' = "running", got' = got
    PROVE  Go!Next
  <1>1. /\ StackNow = Append(s, a) /\ OutcomeNow = "running" /\ StackNow # <<>>
        /\ Len(StackNow) = Len(s) + 1 /\ StackNow[Len(s) + 1] = a /\ s \in Seq(Act) /\ a \in Act
        /\ (Len(StackNow) = 1 => s = <<>>)
    BY OnAppend DEF OnTopOf
  <1>2. WithPanic(a, p) \in Act
    <2>1. a.defers \in Seq(Call)
      BY <1>1 DEF Act
    <2> QED
      BY <1>1, <2>1, ActEdits DEF Modes
  <1>3. StackNow' = [StackNow EXCEPT ![Len(StackNow)] = WithPanic(StackNow[Len(StackNow)], p)]
    BY <1>1, <1>2, OnAppend
  <1>4. Go!Panic
    <2>1. StackNow' = [StackNow EXCEPT ![Len(StackNow)].mode = "panic", ![Len(StackNow)].why = p]
      <3>1. StackNow \in [DOMAIN StackNow -> Act] /\ Len(StackNow) \in DOMAIN StackNow
        <4>1. StackNow \in Seq(Act)
          BY <1>1, OnAppend
        <4>2. Len(StackNow) \in Nat /\ Len(StackNow) # 0
          BY <1>1, <4>1, LenProperties, OnAppend
        <4> QED
          BY <4>1, <4>2, LenProperties
      <3> QED
        BY <1>3, <3>1 DEF WithPanic, Act
    <2> QED
      BY <1>1, <2>1 DEF Go!Panic, Go!Executing, Go!Top, Go!Depth
  <1> QED
    BY <1>4 DEF Go!Next

LEMMA StopAt ==
    ASSUME NEW st \in Seq(Act), NEW k \in 1..Len(st)
    PROVE  [st EXCEPT ![k].mode = "return", ![k].why = 0] = [st EXCEPT ![k] = Stopped(st[k])]
  <1>1. st \in [DOMAIN st -> Act] /\ k \in DOMAIN st
    BY LenProperties
  <1> QED
    BY <1>1 DEF Stopped, Act

\* The activation below is there if it has one, and recover() looks only at that.
LEMMA GoRecoverNothing ==
    ASSUME NEW s, NEW a, OnTopOf(s, a), a.mode = "body", a.kind = "func",
           s # <<>> => s[Len(s)].mode # "panic",
           StackNow' = StackNow, OutcomeNow' = "running", got' = 0
    PROVE  Go!Next
  <1>1. /\ StackNow = Append(s, a) /\ OutcomeNow = "running" /\ StackNow # <<>> /\ s \in Seq(Act)
        /\ Len(StackNow) = Len(s) + 1 /\ StackNow[Len(s) + 1] = a /\ (Len(s) + 1) - 1 = Len(s)
        /\ Len(s) \in Nat /\ \A j \in 1..Len(s) : StackNow[j] = s[j]
    BY OnAppend DEF OnTopOf
  <1>2. ~(Go!Deferred(Len(s) + 1) /\ StackNow[Len(s)].mode = "panic")
    <2> SUFFICES ASSUME Go!Deferred(Len(s) + 1) PROVE StackNow[Len(s)].mode # "panic"
      OBVIOUS
    <2>1. Len(s) # 0
      <3>1. Len(s) + 1 > 1
        BY DEF Go!Deferred
      <3> QED
        BY <1>1, <3>1
    <2>2. s # <<>> /\ Len(s) \in 1..Len(s)
      BY <1>1, <2>1, EmptySeq
    <2> QED
      BY <1>1, <2>2
  <1>3. Go!Recover
    BY <1>1, <1>2 DEF Go!Recover, Go!Executing, Go!Stops, Go!Top, Go!Depth
  <1> QED
    BY <1>3 DEF Go!Next

LEMMA GoStops ==
    ASSUME NEW s, NEW a, OnTopOf(s, a), a.mode = "body", a.kind = "func",
           Len(s) \in 1..Len(s), s[Len(s)].mode = "panic",
           StackNow' = Append([s EXCEPT ![Len(s)] = Stopped(s[Len(s)])], a),
           OutcomeNow' = "running"
    PROVE  /\ Go!Executing /\ Go!Top.kind = "func" /\ Go!Stops /\ Go!StopPanic(Go!Depth - 1)
           /\ UNCHANGED OutcomeNow /\ Go!Depth - 1 = Len(s) /\ StackNow[Len(s)] = s[Len(s)]
  <1>1. /\ StackNow = Append(s, a) /\ OutcomeNow = "running" /\ StackNow # <<>> /\ s \in Seq(Act) /\ a \in Act
        /\ Len(StackNow) = Len(s) + 1 /\ StackNow[Len(s) + 1] = a /\ (Len(s) + 1) - 1 = Len(s)
        /\ Len(s) \in Nat /\ StackNow[Len(s)] = s[Len(s)] /\ StackNow \in Seq(Act)
    BY OnAppend DEF OnTopOf
  <1>2. Go!Deferred(Len(s) + 1)
    BY <1>1 DEF Go!Deferred
  <1>3. Go!StopPanic(Len(s))
    <2>1. s[Len(s)] \in Act /\ <<>> \in Seq(Call)
      BY <1>1, ElementOfSeq, EmptySeq
    <2>2. Stopped(s[Len(s)]) \in Act
      BY <2>1, ActEdits DEF Modes
    <2> DEFINE c == Stopped(s[Len(s)])
               n == Len(s)
    <2>3. StackNow' = Append([s EXCEPT ![n] = c], a) /\ c \in Act /\ n \in 1..n
      BY <2>2
    <2> HIDE DEF c
    <2>4. StackNow' = [StackNow EXCEPT ![n] = c]
      <3>1. [Append(s, a) EXCEPT ![n] = c] = Append([s EXCEPT ![n] = c], a)
        <4>1. n \in 1..Len(s) /\ s \in Seq(Act) /\ a \in Act
          BY <1>1, <2>3
        <4> HIDE DEF n
        <4> QED
          BY <2>3, <4>1, OnAppend
      <3> HIDE DEF n
      <3> QED
        BY <1>1, <2>3, <3>1
    <2>5. n \in 1..Len(StackNow)
      BY <1>1
    <2>6. StackNow' = [StackNow EXCEPT ![n] = Stopped(StackNow[n])]
      BY <1>1, <2>4 DEF c
    <2> HIDE DEF n
    <2>7. StackNow' = [StackNow EXCEPT ![n].mode = "return", ![n].why = 0]
      <3>1. [StackNow EXCEPT ![n].mode = "return", ![n].why = 0] = [StackNow EXCEPT ![n] = Stopped(StackNow[n])]
        BY <1>1, <2>5, StopAt
      <3> QED
        BY <2>6, <3>1
    <2> QED
      BY <2>7 DEF Go!StopPanic, n
  <1> QED
    BY <1>1, <1>2, <1>3 DEF Go!Executing, Go!Stops, Go!Top, Go!Depth

LEMMA GoRecover ==
    ASSUME NEW s, NEW a, OnTopOf(s, a), a.mode = "body", a.kind = "func",
           Len(s) \in 1..Len(s), s[Len(s)].mode = "panic",
           StackNow' = Append([s EXCEPT ![Len(s)] = Stopped(s[Len(s)])], a),
           OutcomeNow' = "running",
           got' = s[Len(s)].why \/ (mixed /\ got' \in 1..MaxPanics)
    PROVE  Go!Next \/ RecoversAnother
  <1>1. /\ Go!Executing /\ Go!Top.kind = "func" /\ Go!Stops /\ Go!StopPanic(Go!Depth - 1)
        /\ UNCHANGED OutcomeNow /\ Go!Depth - 1 = Len(s) /\ StackNow[Len(s)] = s[Len(s)]
    BY GoStops
  <1>2. CASE got' = s[Len(s)].why
    <2>1. got' = StackNow[Go!Depth - 1].why
      BY <1>1, <1>2
    <2>2. Go!Recover
      BY <1>1, <2>1 DEF Go!Recover
    <2> QED
      BY <2>2 DEF Go!Next
  <1>3. CASE mixed /\ got' \in 1..MaxPanics
    BY <1>1, <1>3 DEF RecoversAnother
  <1> QED
    BY <1>2, <1>3

\* The wrapper of "defer recover()", above the activation that deferred it.
LEMMA GoRecoverAsDeferredNothing ==
    ASSUME NEW r, NEW b, NEW a, r \in Seq(Act), b \in Act, OnTopOf(Append(r, b), a),
           a.mode = "body", a.kind = "recover",
           b.mode # "panic" => (r # <<>> => r[Len(r)].mode # "panic"),
           StackNow' = StackNow, OutcomeNow' = "running", got' = got
    PROVE  Go!Next
  <1> DEFINE s == Append(r, b)
  <1>1. /\ Len(s) = Len(r) + 1 /\ s[Len(r) + 1] = b /\ Len(r) \in Nat /\ \A j \in 1..Len(r) : s[j] = r[j]
    BY OnAppend
  <1>2. /\ StackNow = Append(s, a) /\ OutcomeNow = "running" /\ StackNow # <<>> /\ s \in Seq(Act)
        /\ Len(StackNow) = Len(s) + 1 /\ StackNow[Len(s) + 1] = a
        /\ \A j \in 1..Len(s) : StackNow[j] = s[j]
    BY OnAppend DEF OnTopOf
  <1> HIDE DEF s
  <1>3. Len(StackNow) = Len(r) + 2 /\ Len(StackNow) - 1 = Len(r) + 1 /\ Len(StackNow) - 2 = Len(r)
        /\ (Len(r) + 1) - 1 = Len(r) /\ (Len(r) + 1 > 1 <=> Len(r) # 0)
    BY <1>1, <1>2
  <1>4. StackNow[Len(r) + 1] = b
    <2>1. Len(r) + 1 \in 1..Len(s)
      BY <1>1
    <2> QED
      BY <1>1, <1>2, <2>1
  <1>5. ~(b.mode # "panic" /\ Go!Deferred(Len(r) + 1) /\ StackNow[Len(r)].mode = "panic")
    <2> SUFFICES ASSUME b.mode # "panic", Go!Deferred(Len(r) + 1) PROVE StackNow[Len(r)].mode # "panic"
      OBVIOUS
    <2>1. Len(r) # 0
      BY <1>3 DEF Go!Deferred
    <2>2. r # <<>> /\ Len(r) \in 1..Len(r) /\ Len(r) \in 1..Len(s)
      BY <1>1, <2>1, EmptySeq
    <2> QED
      BY <1>1, <1>2, <2>2
  <1>6. Go!RecoverAsDeferred
    BY <1>1, <1>2, <1>3, <1>4, <1>5 DEF Go!RecoverAsDeferred, Go!Executing, Go!Top, Go!Depth
  <1> QED
    BY <1>6 DEF Go!Next

LEMMA GoRecoverAsDeferred ==
    ASSUME NEW r, NEW b, NEW a, r \in Seq(Act), b \in Act, OnTopOf(Append(r, b), a),
           a.mode = "body", a.kind = "recover", b.mode # "panic",
           Len(r) \in 1..Len(r), r[Len(r)].mode = "panic",
           StackNow' = Append(Append([r EXCEPT ![Len(r)] = Stopped(r[Len(r)])], b), a),
           OutcomeNow' = "running", got' = got
    PROVE  Go!Next
  <1> DEFINE s == Append(r, b)
             n == Len(r)
             c == Stopped(r[n])
  <1>1. /\ Len(s) = n + 1 /\ s[n + 1] = b /\ n \in Nat /\ s[n] = r[n] /\ s \in Seq(Act) /\ a \in Act
    BY OnAppend DEF OnTopOf
  <1>2. /\ StackNow = Append(s, a) /\ OutcomeNow = "running" /\ StackNow # <<>> /\ StackNow \in Seq(Act)
        /\ Len(StackNow) = Len(s) + 1 /\ StackNow[Len(s) + 1] = a
        /\ \A j \in 1..Len(s) : StackNow[j] = s[j]
    BY OnAppend DEF OnTopOf
  <1>3. c \in Act
    <2>1. r[n] \in Act /\ <<>> \in Seq(Call)
      BY ElementOfSeq, EmptySeq
    <2> QED
      BY <2>1, ActEdits DEF Modes
  <1>4. StackNow' = [StackNow EXCEPT ![n] = c]
    <2> HIDE DEF c
    <2>1. [s EXCEPT ![n] = c] = Append([r EXCEPT ![n] = c], b)
      BY <1>3, OnAppend
    <2>2. n \in 1..Len(s)
      BY <1>1
    <2> HIDE DEF s
    <2>3. [Append(s, a) EXCEPT ![n] = c] = Append([s EXCEPT ![n] = c], a)
      BY <1>1, <1>3, <2>2, OnAppend
    <2> QED
      BY <1>2, <2>1, <2>3 DEF c
  <1> HIDE DEF s
  <1>5. Len(StackNow) = n + 2 /\ Len(StackNow) - 1 = n + 1 /\ Len(StackNow) - 2 = n
        /\ (n + 1) - 1 = n /\ n + 1 > 1
    BY <1>1, <1>2
  <1>6. StackNow[n + 1] = b /\ StackNow[n] = r[n]
    <2>1. n + 1 \in 1..Len(s) /\ n \in 1..Len(s)
      BY <1>1
    <2> QED
      BY <1>1, <1>2, <2>1
  <1>7. Go!Deferred(n + 1)
    BY <1>5, <1>6 DEF Go!Deferred
  <1>8. Go!StopPanic(n)
    <2>1. n \in 1..Len(StackNow)
      BY <1>1, <1>2
    <2> QED
      BY <1>2, <1>4, <1>6, <2>1, StopAt DEF Go!StopPanic
  <1>9. Go!RecoverAsDeferred
    BY <1>1, <1>2, <1>5, <1>6, <1>7, <1>8 DEF Go!RecoverAsDeferred, Go!Executing, Go!Top, Go!Depth
  <1> QED
    BY <1>9 DEF Go!Next

\* An activation with nothing deferred leaves.
LEMMA GoLeave ==
    ASSUME NEW s, NEW a, OnTopOf(s, a), a.mode \in {"body", "return"}, a.defers = <<>>,
           StackNow' = s, OutcomeNow' = IF s = <<>> THEN "returned" ELSE "running", got' = got
    PROVE  Go!Next
  <1>1. /\ StackNow = Append(s, a) /\ OutcomeNow = "running" /\ StackNow # <<>>
        /\ Len(StackNow) = Len(s) + 1 /\ StackNow[Len(s) + 1] = a /\ (Len(s) + 1) - 1 = Len(s)
        /\ SubSeq(StackNow, 1, Len(s)) = s /\ (Len(StackNow) = 1 <=> s = <<>>)
    BY OnAppend DEF OnTopOf
  <1>2. Go!Leave
    BY <1>1 DEF Go!Leave, Go!Pop, Go!Depth
  <1>3. CASE a.mode = "body"
    <2>1. Go!Return
      BY <1>1, <1>2, <1>3 DEF Go!Return, Go!Executing, Go!Top, Go!Depth
    <2> QED
      BY <2>1 DEF Go!Next
  <1>4. CASE a.mode = "return"
    <2>1. Go!LeaveAfterDefers
      BY <1>1, <1>2, <1>4 DEF Go!LeaveAfterDefers, Go!Top, Go!Depth
    <2> QED
      BY <2>1 DEF Go!Next
  <1> QED
    BY <1>3, <1>4

LEMMA GoReturns ==
    ASSUME NEW s, NEW a, OnTopOf(s, a), a.mode = "body", a.defers # <<>>,
           StackNow' = Append(s, WithMode(a, "return")), OutcomeNow' = "running", got' = got
    PROVE  Go!Next
  <1>1. /\ StackNow = Append(s, a) /\ OutcomeNow = "running" /\ StackNow # <<>> /\ s \in Seq(Act) /\ a \in Act
        /\ Len(StackNow) = Len(s) + 1 /\ StackNow[Len(s) + 1] = a
    BY OnAppend DEF OnTopOf
  <1>2. WithMode(a, "return") \in Act
    <2>1. <<>> \in Seq(Call)
      BY EmptySeq
    <2> QED
      BY <1>1, <2>1, ActEdits DEF Modes
  <1>3. StackNow' = [StackNow EXCEPT ![Len(StackNow)] = WithMode(StackNow[Len(StackNow)], "return")]
    <2> DEFINE b == WithMode(a, "return")
    <2>1. StackNow' = Append(s, b) /\ b \in Act
      BY <1>2
    <2> HIDE DEF b
    <2>2. StackNow' = [StackNow EXCEPT ![Len(StackNow)] = b]
      BY <1>1, <2>1, OnAppend
    <2> QED
      BY <1>1, <2>2 DEF b
  <1>4. Go!Return
    BY <1>1, <1>3 DEF Go!Return, Go!Executing, Go!Top, Go!Depth, WithMode
  <1> QED
    BY <1>4 DEF Go!Next

\* The last deferred call of activation k starts.
LEMMA GoRunLast ==
    ASSUME NEW st, st = StackNow, st \in Seq(Act), NEW k \in 1..Len(st), NEW ds \in Seq(Call), NEW d \in Call,
           st[k].defers = Append(ds, d), d.kind # "native", NEW m, NEW w,
           StackNow' = Append(Append(SubSeq(st, 1, k - 1), Becomes(st[k], m, w, ds)), Go!Activation(d.id, d.kind))
    PROVE  Go!RunLastDefer(k, m, w)
  <1> DEFINE es == Append(ds, d)
  <1>1. es[Len(es)] = d /\ SubSeq(es, 1, Len(es) - 1) = ds
    BY OnAppend
  <1> HIDE DEF es
  <1>2. st[k].defers[Len(st[k].defers)] = d /\ Go!Pop(st[k].defers) = ds
    BY <1>1 DEF Go!Pop, es
  <1> QED
    BY <1>2 DEF Go!RunLastDefer, Becomes

LEMMA GoRunDefer ==
    ASSUME NEW s, NEW a, OnTopOf(s, a), a.mode = "return", NEW ds \in Seq(Call), NEW d \in Call,
           a.defers = Append(ds, d), d.kind # "native",
           StackNow' = Append(Append(s, Becomes(a, "return", 0, ds)), Go!Activation(d.id, d.kind)),
           OutcomeNow' = "running", got' = got
    PROVE  Go!Next
  <1>1. /\ StackNow = Append(s, a) /\ OutcomeNow = "running" /\ StackNow # <<>> /\ StackNow \in Seq(Act)
        /\ Len(StackNow) = Len(s) + 1 /\ StackNow[Len(s) + 1] = a /\ Len(s) \in Nat
        /\ SubSeq(StackNow, 1, Len(s)) = s /\ (Len(s) + 1) - 1 = Len(s)
    BY OnAppend DEF OnTopOf
  <1>2. a.defers # <<>>
    BY AppendProperties
  <1>3. Len(s) + 1 \in 1..Len(StackNow)
    BY <1>1
  <1>4. Go!RunLastDefer(Len(s) + 1, "return", 0)
    BY <1>1, <1>3, GoRunLast
  <1>5. Go!RunDefer
    BY <1>1, <1>2, <1>4 DEF Go!RunDefer, Go!Top, Go!Depth
  <1> QED
    BY <1>5 DEF Go!Next

LEMMA GoUnwind ==
    ASSUME NEW st, st = StackNow, st \in Seq(Act), OutcomeNow = "running", st[Len(st)].mode = "panic",
           NEW k \in 1..Len(st), NEW ds \in Seq(Call), NEW d \in Call,
           st[k].defers = Append(ds, d), d.kind # "native", \A j \in k+1..Len(st) : st[j].defers = <<>>,
           StackNow' = Append(Append(SubSeq(st, 1, k - 1), Becomes(st[k], "panic", st[Len(st)].why, ds)),
                              Go!Activation(d.id, d.kind)),
           OutcomeNow' = "running", got' = got
    PROVE  Go!Next
  <1>1. st # <<>>
    BY EmptySeq
  <1>2. st[k].defers # <<>>
    BY AppendProperties
  <1>3. Go!RunLastDefer(k, "panic", st[Len(st)].why)
    BY GoRunLast
  <1>4. Go!Unwind
    BY <1>1, <1>2, <1>3 DEF Go!Unwind, Go!Top, Go!Depth
  <1> QED
    BY <1>4 DEF Go!Next

\* No deferred call is left: the program ends with the panic.
LEMMA GoUnwindEnds ==
    ASSUME NEW st, st = StackNow, OutcomeNow = "running", st # <<>>, st[Len(st)].mode = "panic",
           \A j \in 1..Len(st) : st[j].defers = <<>>,
           StackNow' = <<>>, OutcomeNow' = "panicked", got' = got
    PROVE  Go!Next
  <1>1. Go!Unwind
    BY DEF Go!Unwind, Go!Top, Go!Depth
  <1> QED
    BY <1>1 DEF Go!Next

-----------------------------------------------------------------------------
(***************************************************************************)
(* The stack of Go in a state of the machine.                              *)
(***************************************************************************)
Record(a, k, m, w, d) == [id |-> a, kind |-> k, mode |-> m, why |-> w, defers |-> d]

LEMMA SameRecord ==
    ASSUME NEW r, NEW a, NEW k, NEW m, NEW w, NEW d,
           r = [x \in {"id", "kind", "mode", "why", "defers"} |-> r[x]],
           r.id = a, r.kind = k, r.mode = m, r.why = w, r.defers = d
    PROVE  r = Record(a, k, m, w, d)
  <1> DEFINE F == {"id", "kind", "mode", "why", "defers"}
             s == Record(a, k, m, w, d)
  <1>1. s = [x \in F |-> s[x]]
    BY DEF Record
  <1>2. s.id = a /\ s.kind = k /\ s.mode = m /\ s.why = w /\ s.defers = d
    BY DEF Record
  <1> HIDE DEF s
  <1>3. \A x \in F : r[x] = s[x]
    BY <1>2
  <1>4. [x \in F |-> r[x]] = [x \in F |-> s[x]]
    BY <1>3
  <1>5. r = s
    BY <1>1, <1>4
  <1> QED
    BY <1>5 DEF s

LEMMA EditedRecord ==
    ASSUME NEW a, NEW k, NEW m, NEW w, NEW d, NEW n, NEW v, NEW e
    PROVE  /\ WithDefers(Record(a, k, m, w, d), e) = Record(a, k, m, w, e)
           /\ WithMode(Record(a, k, m, w, d), n) = Record(a, k, n, w, d)
           /\ WithPanic(Record(a, k, m, w, d), v) = Record(a, k, "panic", v, d)
           /\ Becomes(Record(a, k, m, w, d), n, v, e) = Record(a, k, n, v, e)
  <1> DEFINE F == {"id", "kind", "mode", "why", "defers"}
             r == Record(a, k, m, w, d)
  <1>1. r = [x \in F |-> r[x]] /\ r.id = a /\ r.kind = k /\ r.mode = m /\ r.why = w /\ r.defers = d
    BY DEF Record
  <1> HIDE DEF r
  <1>2. WithDefers(r, e) = Record(a, k, m, w, e)
    <2> DEFINE t == WithDefers(r, e)
    <2>1. t = [x \in F |-> t[x]] /\ t.id = a /\ t.kind = k /\ t.mode = m /\ t.why = w /\ t.defers = e
      BY <1>1 DEF WithDefers
    <2> HIDE DEF t
    <2> QED
      BY <2>1, SameRecord DEF t
  <1>3. WithMode(r, n) = Record(a, k, n, w, d)
    <2> DEFINE t == WithMode(r, n)
    <2>1. t = [x \in F |-> t[x]] /\ t.id = a /\ t.kind = k /\ t.mode = n /\ t.why = w /\ t.defers = d
      BY <1>1 DEF WithMode
    <2> HIDE DEF t
    <2> QED
      BY <2>1, SameRecord DEF t
  <1>4. WithPanic(r, v) = Record(a, k, "panic", v, d)
    <2> DEFINE t == WithPanic(r, v)
    <2>1. t = [x \in F |-> t[x]] /\ t.id = a /\ t.kind = k /\ t.mode = "panic" /\ t.why = v /\ t.defers = d
      BY <1>1 DEF WithPanic
    <2> HIDE DEF t
    <2> QED
      BY <2>1, SameRecord DEF t
  <1>5. Becomes(r, n, v, e) = Record(a, k, n, v, e)
    <2> DEFINE t == Becomes(r, n, v, e)
    <2>1. t = [x \in F |-> t[x]] /\ t.id = a /\ t.kind = k /\ t.mode = n /\ t.why = v /\ t.defers = e
      BY <1>1 DEF Becomes
    <2> HIDE DEF t
    <2> QED
      BY <2>1, SameRecord DEF t
  <1> QED
    BY <1>2, <1>3, <1>4, <1>5 DEF r

\* An activation that executes its body, or that returns.
LEMMA ActivationIs ==
    ASSUME NEW f, NEW fn, NEW r, NEW ds
    PROVE  /\ GoActivation(f, ds) = Record(f.act, GoKind(f), Mode(f),
                                          IF f.status = "panicked" THEN f.why ELSE 0, ds)
           /\ Body(fn, ds) = Record(fn.act, GoKind(fn), "body", 0, ds)
           /\ GoActivation(FrameOf(fn, "started", r), ds) = Body(fn, ds)
           /\ GoActivation(FrameOf(fn, "returned", r), ds) = WithMode(Body(fn, ds), "return")
           /\ f.status = "started" => GoActivation(f, ds) = Body(FunctionOf(f), ds)
           /\ GoKind(FunctionOf(f)) = GoKind(f)
           /\ Go!Activation(GoDeferred(f).id, GoDeferred(f).kind) = Body(FunctionOf(f), <<>>)
  <1>1. GoActivation(f, ds) = Record(f.act, GoKind(f), Mode(f), IF f.status = "panicked" THEN f.why ELSE 0, ds)
    BY DEF GoActivation, Record
  <1>2. Body(fn, ds) = Record(fn.act, GoKind(fn), "body", 0, ds)
    BY DEF Body, Record
  <1>3. GoActivation(FrameOf(fn, "started", r), ds) = Body(fn, ds)
    BY DEF GoActivation, FrameOf, Body, Mode, GoKind
  <1>4. GoActivation(FrameOf(fn, "returned", r), ds) = Record(fn.act, GoKind(fn), "return", 0, ds)
    BY DEF GoActivation, FrameOf, Record, Mode, GoKind
  <1>5. WithMode(Body(fn, ds), "return") = Record(fn.act, GoKind(fn), "return", 0, ds)
    BY <1>2, EditedRecord
  <1>6. f.status = "started" => GoActivation(f, ds) = Body(FunctionOf(f), ds)
    BY DEF GoActivation, Body, FunctionOf, Mode, GoKind
  <1>7. GoKind(FunctionOf(f)) = GoKind(f)
    BY DEF GoKind, FunctionOf
  <1>8. Go!Activation(GoDeferred(f).id, GoDeferred(f).kind) = Body(FunctionOf(f), <<>>)
    BY <1>7 DEF Go!Activation, GoDeferred, Body, FunctionOf
  <1> QED
    BY <1>1, <1>2, <1>3, <1>4, <1>5, <1>6, <1>7, <1>8

LEMMA GoKindType ==
    ASSUME NEW f, f.kind \in Kinds
    PROVE  GoKind(f) \in Kinds
  BY DEF GoKind, Kinds

LEMMA BodyType ==
    ASSUME NEW fn \in Fn, NEW ds \in Seq(Call)
    PROVE  /\ Body(fn, ds) \in Act /\ Body(fn, ds).mode = "body" /\ Body(fn, ds).defers = ds
           /\ Body(fn, ds).kind = GoKind(fn) /\ WithMode(Body(fn, ds), "return") \in Act
  <1>1. Body(fn, ds) \in Act
    BY GoKindType DEF Body, Fn, Act, Modes
  <1> QED
    BY <1>1, ActEdits DEF Body, Modes

\* The running function is the activation on top.
LEMMA TopOf ==
    ASSUME NEW fs \in Seq(Frame), NEW fn \in Fn, NEW r \in Nat
    PROVE  /\ GoStack(Append(fs, FrameOf(fn, "started", r))) = Append(GoStack(fs), Body(fn, Pending(fs)))
           /\ GoStack(Append(fs, FrameOf(fn, "returned", r)))
                 = Append(GoStack(fs), WithMode(Body(fn, Pending(fs)), "return"))
  <1>1. /\ FrameOf(fn, "started", r) \in Frame /\ FrameOf(fn, "started", r).status # "deferred"
        /\ FrameOf(fn, "returned", r) \in Frame /\ FrameOf(fn, "returned", r).status # "deferred"
    BY FrameOfType DEF Statuses
  <1> QED
    BY <1>1, PushOwner, ActivationIs

LEMMA RunNow ==
    ASSUME GoInv, phase \in {"run", "return"}
    PROVE  /\ OnTopOf(GoStack(calls), Body(cur, Pending(calls)))
           /\ calls \in Seq(Frame) /\ Len(calls) \in Nat /\ cur \in Fn /\ rend \in Nat
           /\ GoStack(calls) \in Seq(Act) /\ Pending(calls) \in Seq(Call)
  <1>1. calls \in Seq(Frame) /\ Len(calls) \in Nat /\ cur \in Fn /\ rend \in Nat
    BY FrameFacts DEF GoInv
  <1>2. Frames = Append(calls, FrameOf(cur, "started", rend))
    BY <1>1, SubSeqFull DEF Frames, Live, OnTop, TopFrame
  <1>3. ~Over
    BY DEF Over
  <1>4. StackNow = Append(GoStack(calls), Body(cur, Pending(calls))) /\ OutcomeNow = "running"
    BY <1>1, <1>2, <1>3, TopOf DEF StackNow, OutcomeNow
  <1>5. GoStack(calls) \in Seq(Act) /\ Pending(calls) \in Seq(Call) /\ Body(cur, Pending(calls)) \in Act
    BY <1>1, StackType, BodyType
  <1> QED
    BY <1>1, <1>4, <1>5 DEF OnTopOf

LEMMA RunNext ==
    ASSUME GoInv', phase' \in {"run", "return"}
    PROVE  /\ StackNow' = Append(GoStack(calls'), Body(cur', Pending(calls'))) /\ OutcomeNow' = "running"
           /\ calls' \in Seq(Frame) /\ cur' \in Fn
  <1>1. calls' \in Seq(Frame) /\ cur' \in Fn /\ rend' \in Nat
    BY DEF GoInv, FunctionInv, SafeInv, TypeOK, Fn
  <1>2. Frames' = Append(calls', FrameOf(cur', "started", rend'))
    <2>1. SubSeq(calls', 1, Len(calls')) = calls'
      BY <1>1, SubSeqFull
    <2> QED
      BY <2>1 DEF Frames, Live, OnTop, TopFrame, FrameOf
  <1>3. ~Over'
    BY DEF Over
  <1>4. StackNow' = GoStack(Frames') /\ OutcomeNow' = "running"
    BY <1>3 DEF StackNow, OutcomeNow
  <1> QED
    BY <1>1, <1>2, <1>4, TopOf

\* nextCall at a deferred call: the running function is still there, and returns.
\* At any other frame, it is the activation on top.
LEMMA LoopFrames ==
    ASSUME NEW fs \in Seq(Frame), NEW n \in 1..Len(fs), NEW fn \in Fn, NEW r \in Nat
    PROVE  LET p == SubSeq(fs, 1, n - 1)
           IN  /\ p \in Seq(Frame) /\ fs[n] \in Frame
               /\ GoStack(p) \in Seq(Act) /\ Pending(p) \in Seq(Call)
               /\ fs[n].status = "deferred" =>
                     GoStack(Append(SubSeq(fs, 1, n), FrameOf(fn, "returned", r)))
                        = Append(GoStack(p), WithMode(Body(fn, Append(Pending(p), GoDeferred(fs[n]))), "return"))
               /\ fs[n].status = "deferred" =>
                     /\ GoStack(SubSeq(fs, 1, n)) = GoStack(p)
                     /\ Pending(SubSeq(fs, 1, n)) = Append(Pending(p), GoDeferred(fs[n]))
               /\ fs[n].status # "deferred" =>
                     /\ GoStack(SubSeq(fs, 1, n)) = Append(GoStack(p), GoActivation(fs[n], Pending(p)))
                     /\ Pending(SubSeq(fs, 1, n)) = <<>>
  <1> DEFINE p == SubSeq(fs, 1, n - 1)
             q == SubSeq(fs, 1, n)
  <1>1. p \in Seq(Frame) /\ fs[n] \in Frame /\ q = Append(p, fs[n])
    BY LastFrame
  <1> HIDE DEF p, q
  <1>2. GoStack(p) \in Seq(Act) /\ Pending(p) \in Seq(Call)
    BY <1>1, StackType
  <1>3. q \in Seq(Frame)
    BY <1>1, AppendProperties
  <1>4. fs[n].status = "deferred" => GoStack(q) = GoStack(p) /\ Pending(q) = Append(Pending(p), GoDeferred(fs[n]))
    BY <1>1, PushDeferred
  <1>5. fs[n].status # "deferred" => GoStack(q) = Append(GoStack(p), GoActivation(fs[n], Pending(p))) /\ Pending(q) = <<>>
    BY <1>1, PushOwner
  <1>6. fs[n].status = "deferred" =>
           GoStack(Append(q, FrameOf(fn, "returned", r)))
              = Append(GoStack(p), WithMode(Body(fn, Append(Pending(p), GoDeferred(fs[n]))), "return"))
    BY <1>3, <1>4, TopOf
  <1> QED
    BY <1>1, <1>2, <1>4, <1>5, <1>6 DEF p, q

LEMMA LoopNow ==
    ASSUME GoInv, phase = "next", i \in 1..Len(calls)
    PROVE  /\ OutcomeNow = "running" /\ calls \in Seq(Frame) /\ cur \in Fn /\ rend \in Nat
           /\ StackNow = IF calls[i].status = "deferred"
                         THEN GoStack(Append(SubSeq(calls, 1, i), FrameOf(cur, "returned", rend)))
                         ELSE GoStack(SubSeq(calls, 1, i))
  <1>1. calls \in Seq(Frame) /\ Len(calls) \in Nat /\ cur \in Fn /\ rend \in Nat
    BY FrameFacts DEF GoInv
  <1>2. i > 0 /\ ~Over
    BY <1>1 DEF Over
  <1>3. Frames = IF calls[i].status = "deferred"
                 THEN Append(SubSeq(calls, 1, i), FrameOf(cur, "returned", rend)) ELSE SubSeq(calls, 1, i)
    BY <1>2 DEF Frames, Live, OnTop, TopFrame
  <1> QED
    BY <1>1, <1>2, <1>3 DEF StackNow, OutcomeNow

LEMMA LoopNext ==
    ASSUME GoInv', phase' = "next", i' \in 1..Len(calls')
    PROVE  /\ OutcomeNow' = "running" /\ calls' \in Seq(Frame) /\ cur' \in Fn /\ rend' \in Nat
           /\ StackNow' = IF calls'[i'].status = "deferred"
                          THEN GoStack(Append(SubSeq(calls', 1, i'), FrameOf(cur', "returned", rend')))
                          ELSE GoStack(SubSeq(calls', 1, i'))
  <1>1. calls' \in Seq(Frame) /\ cur' \in Fn /\ rend' \in Nat
    BY DEF GoInv, FunctionInv, SafeInv, TypeOK, Fn
  <1>2. i' > 0 /\ ~Over'
    <2>1. Len(calls') \in Nat
      BY <1>1, LenProperties
    <2> QED
      BY <2>1 DEF Over
  <1>3. Frames' = IF calls'[i'].status = "deferred"
                  THEN Append(SubSeq(calls', 1, i'), FrameOf(cur', "returned", rend')) ELSE SubSeq(calls', 1, i')
    BY <1>2 DEF Frames, Live, OnTop, TopFrame, FrameOf
  <1> QED
    BY <1>1, <1>2, <1>3 DEF StackNow, OutcomeNow

-----------------------------------------------------------------------------
(***************************************************************************)
(* Every step of the machine is a step of GoDefer, or none.  A recover()   *)
(* whose panic is not the one it returns is RecoversAnother.               *)
(***************************************************************************)
GoStep == [Go!Next \/ RecoversAnother]_<<StackNow, got, OutcomeNow>>

LEMMA Steps == (Go!Next => GoStep) /\ ((UNCHANGED <<StackNow, got, OutcomeNow>>) => GoStep)
  BY DEF GoStep

LEMMA CallStep ==
    ASSUME GoInv, GoInv', OpCallFunc \/ OpCallMacro
    PROVE  GoStep
  <1>1. PICK kind \in {"func", "macro"}, saved \in {0, rend} :
           /\ phase = "run" /\ cur.kind \in {"func", "macro"} /\ made < MaxActs /\ made' = made + 1
           /\ calls' = Append(calls, FrameOf(cur, "started", saved))
           /\ cur' = [act |-> made', kind |-> kind] /\ phase' = phase /\ got' = got
    <2>1. CASE OpCallFunc
      BY <2>1 DEF OpCallFunc, Enter, Executes, MayMake
    <2>2. CASE OpCallMacro
      <3>1. PICK r \in {rend, made + 1} : Executes("macro") /\ Enter("macro", rend, r)
        BY <2>2 DEF OpCallMacro
      <3> QED
        BY <3>1 DEF Enter, Executes, MayMake
    <2> QED
      BY <2>1, <2>2
  <1> DEFINE s == GoStack(calls)
             a == Body(cur, Pending(calls))
  <1>2. /\ OnTopOf(s, a) /\ calls \in Seq(Frame) /\ cur \in Fn /\ rend \in Nat /\ saved \in Nat
        /\ Pending(calls) \in Seq(Call)
    BY <1>1, RunNow
  <1>3. a.mode = "body" /\ a.kind = "func"
    BY <1>1, <1>2, BodyType DEF GoKind
  <1>4. made' \in 1..MaxActs
    BY <1>1, BoundsAssumption DEF GoInv, FunctionInv, SafeInv, TypeOK
  <1>5. StackNow' = Append(GoStack(calls'), Body(cur', Pending(calls'))) /\ OutcomeNow' = "running"
    BY <1>1, RunNext
  <1>6. GoStack(calls') = Append(s, a) /\ Pending(calls') = <<>>
    <2>1. FrameOf(cur, "started", saved) \in Frame /\ FrameOf(cur, "started", saved).status # "deferred"
      BY <1>2, FrameOfType DEF Statuses
    <2> QED
      BY <1>1, <1>2, <2>1, TopOf, PushOwner
  <1>7. Body(cur', <<>>) = Go!Activation(made', "func")
    BY <1>1 DEF Body, GoKind, Go!Activation
  <1> HIDE DEF s, a
  <1>8. Go!Next
    BY <1>1, <1>2, <1>3, <1>4, <1>5, <1>6, <1>7, GoCall
  <1> QED
    BY <1>8, Steps

LEMMA DeferStep ==
    ASSUME GoInv, GoInv', GoAssumption, Defers
    PROVE  GoStep
  <1>1. PICK kind \in {"func", "recover"} :
           /\ phase = "run" /\ cur.kind \in {"func", "macro"} /\ made < MaxActs /\ made' = made + 1
           /\ calls' = Append(calls, FrameOf([act |-> made', kind |-> kind], "deferred", rend))
           /\ cur' = cur /\ phase' = phase /\ got' = got
    BY DEF Defers, OpDefer, Executes, MayMake, GoAssumption
  <1> DEFINE s == GoStack(calls)
             ds == Pending(calls)
             a == Body(cur, ds)
             f == FrameOf([act |-> made', kind |-> kind], "deferred", rend)
             d == GoDeferred(f)
  <1>2. /\ OnTopOf(s, a) /\ calls \in Seq(Frame) /\ cur \in Fn /\ rend \in Nat
        /\ ds \in Seq(Call) /\ s \in Seq(Act)
    BY <1>1, RunNow
  <1>3. a.mode = "body" /\ a.kind = "func" /\ a.defers = ds
    BY <1>1, <1>2, BodyType DEF GoKind
  <1>4. made' \in 1..MaxActs /\ made' \in Nat
    <2>1. made \in Nat
      BY DEF GoInv, FunctionInv, SafeInv, TypeOK
    <2>2. made < MaxActs /\ made' = made + 1
      BY <1>1
    <2> QED
      BY <2>1, <2>2, BoundsAssumption
  <1>5. StackNow' = Append(GoStack(calls'), Body(cur, Pending(calls'))) /\ OutcomeNow' = "running"
    BY <1>1, RunNext
  <1>6. f \in Frame /\ f.status = "deferred"
    <2>1. [act |-> made', kind |-> kind] \in Fn
      BY <1>4 DEF Fn, Kinds
    <2> QED
      BY <1>2, <2>1, FrameOfType DEF Statuses
  <1>7. d = [id |-> made', kind |-> kind]
    BY DEF GoDeferred, GoKind, FrameOf
  <1>8. d \in [id : 1..MaxActs, kind : {"func", "recover", "native"}] /\ d \in Call
    <2>1. kind \in Kinds /\ kind \in {"func", "recover", "native"}
      BY DEF Kinds
    <2> HIDE DEF d
    <2> QED
      BY <1>4, <1>7, <2>1 DEF Call
  <1> HIDE DEF f, d
  <1>9. GoStack(calls') = s /\ Pending(calls') = Append(ds, d)
    BY <1>1, <1>2, <1>6, PushDeferred DEF f, d
  <1>10. Body(cur, Append(ds, d)) = WithDefers(a, Append(a.defers, d))
    <2> HIDE DEF ds
    <2>1. \A es : Body(cur, es) = Record(cur.act, GoKind(cur), "body", 0, es)
      BY ActivationIs
    <2>2. WithDefers(Record(cur.act, GoKind(cur), "body", 0, ds), Append(ds, d))
             = Record(cur.act, GoKind(cur), "body", 0, Append(ds, d))
      BY EditedRecord
    <2> QED
      BY <1>3, <2>1, <2>2
  <1> HIDE DEF s, a, ds
  <1>11. Go!Next
    BY <1>1, <1>2, <1>3, <1>5, <1>8, <1>9, <1>10, GoDefers
  <1> QED
    BY <1>11, Steps

LEMMA PanicStep ==
    ASSUME GoInv, GoInv', OpPanic
    PROVE  GoStep
  <1> DEFINE s == GoStack(calls)
             ds == Pending(calls)
             a == Body(cur, ds)
  <1>1. /\ phase = "run" /\ cur.kind \in {"func", "macro"} /\ thrown < MaxPanics /\ thrown' = thrown + 1
        /\ got' = got /\ chain' = Append(chain, [id |-> thrown', recovered |-> FALSE])
    BY DEF OpPanic, LinksPanic, Throws, PushesPanicked, Executes
  <1>2. /\ OnTopOf(s, a) /\ calls \in Seq(Frame) /\ Len(calls) \in Nat /\ cur \in Fn /\ rend \in Nat
        /\ ds \in Seq(Call) /\ s \in Seq(Act)
    BY <1>1, RunNow
  <1>3. a.mode = "body" /\ a.kind = "func" /\ a.defers = ds
    BY <1>1, <1>2, BodyType DEF GoKind
  <1>4. thrown' \in 1..MaxPanics /\ thrown' \in Nat
    BY <1>1, BoundsAssumption DEF GoInv, FunctionInv, SafeInv, TypeOK
  <1>5. CASE calls = <<>>
    <2>1. phase' = "done"
      BY <1>5 DEF OpPanic, LinksPanic, Throws, PushesPanicked
    <2>2. chain' # <<>>
      <3>1. chain \in Seq([id : Nat, recovered : BOOLEAN])
        BY DEF GoInv, FunctionInv, SafeInv, TypeOK
      <3>2. [id |-> thrown', recovered |-> FALSE] \in [id : Nat, recovered : BOOLEAN]
        BY <1>4
      <3> QED
        BY <1>1, <3>1, <3>2, AppendProperties
    <2>3. StackNow' = <<>> /\ OutcomeNow' = "panicked"
      BY <2>1, <2>2 DEF StackNow, OutcomeNow, Over
    <2>4. s = <<>> /\ ds = <<>>
      BY <1>5, NoFrames
    <2> HIDE DEF s, a, ds
    <2>5. Go!Next
      BY <1>1, <1>2, <1>3, <2>3, <2>4, GoPanicEnds
    <2> QED
      BY <2>5, Steps
  <1>6. CASE calls # <<>>
    <2> DEFINE f == [FrameOf(cur, "panicked", rend) EXCEPT !.why = thrown']
               n == Len(calls)
    <2>1. calls' = Append(calls, f) /\ i' = Len(calls') /\ phase' = "next"
      BY <1>6 DEF OpPanic, LinksPanic, Throws, PushesPanicked
    <2>2. f = [act |-> cur.act, kind |-> cur.kind, status |-> "panicked", rend |-> rend, why |-> thrown']
      BY DEF FrameOf
    <2>3. f \in Frame /\ f.status = "panicked" /\ f.act = cur.act /\ f.kind = cur.kind /\ f.why = thrown'
      BY <1>2, <1>4, <2>2 DEF Fn, Statuses, Frame
    <2> HIDE DEF f
    <2>4. Len(calls') = n + 1 /\ calls'[n + 1] = f /\ calls' \in Seq(Frame)
      BY <1>2, <2>1, <2>3, AppendProperties
    <2>5. i' \in 1..Len(calls') /\ calls'[i'] = f /\ SubSeq(calls', 1, i') = calls'
      BY <1>2, <2>1, <2>4, SubSeqFull
    <2>6. StackNow' = GoStack(calls') /\ OutcomeNow' = "running"
      BY <2>1, <2>3, <2>5, LoopNext
    <2>7. GoStack(calls') = Append(s, GoActivation(f, ds))
      BY <1>2, <2>1, <2>3, PushOwner
    <2>8. GoActivation(f, ds) = WithPanic(a, thrown')
      <3> HIDE DEF ds
      <3>1. GoActivation(f, ds) = Record(cur.act, GoKind(cur), "panic", thrown', ds)
        <4>1. GoActivation(f, ds) = Record(f.act, GoKind(f), Mode(f), IF f.status = "panicked" THEN f.why ELSE 0, ds)
          BY ActivationIs
        <4>2. GoKind(f) = GoKind(cur) /\ Mode(f) = "panic"
          BY <2>3 DEF GoKind, Mode
        <4> QED
          BY <2>3, <4>1, <4>2
      <3>2. Body(cur, ds) = Record(cur.act, GoKind(cur), "body", 0, ds)
        BY ActivationIs
      <3>3. WithPanic(Record(cur.act, GoKind(cur), "body", 0, ds), thrown')
               = Record(cur.act, GoKind(cur), "panic", thrown', ds)
        BY EditedRecord
      <3> QED
        BY <3>1, <3>2, <3>3
    <2>9. ~(s = <<>> /\ ds = <<>>)
      <3>1. n \in 1..n /\ SubSeq(calls, 1, n) = calls
        BY <1>2, <1>6, EmptySeq, SubSeqFull
      <3> DEFINE p == SubSeq(calls, 1, n - 1)
      <3>2. /\ p \in Seq(Frame) /\ calls[n] \in Frame /\ calls = Append(p, calls[n])
        BY <1>2, <3>1, LastFrame
      <3> HIDE DEF p
      <3>3. GoStack(p) \in Seq(Act) /\ Pending(p) \in Seq(Call)
        BY <3>2, StackType
      <3>4. CASE calls[n].status = "deferred"
        <4>1. ds = Append(Pending(p), GoDeferred(calls[n]))
          BY <3>2, <3>4, PushDeferred
        <4>2. GoDeferred(calls[n]) \in Call
          BY <3>2, GoKindType DEF GoDeferred, Frame, Call
        <4> QED
          BY <3>3, <4>1, <4>2, AppendProperties
      <3>5. CASE calls[n].status # "deferred"
        <4>1. s = Append(GoStack(p), GoActivation(calls[n], Pending(p)))
          BY <3>2, <3>5, PushOwner
        <4>2. GoActivation(calls[n], Pending(p)) \in Act
          BY <3>2, <3>3, <3>5, ActivationType
        <4> QED
          BY <3>3, <4>1, <4>2, AppendProperties
      <3> QED
        BY <3>4, <3>5
    <2> HIDE DEF s, a, ds
    <2>10. Go!Next
      BY <1>1, <1>2, <1>3, <1>4, <2>6, <2>7, <2>8, <2>9, GoPanic
    <2> QED
      BY <2>10, Steps
  <1> QED
    BY <1>5, <1>6

\* At most one frame can be recovered, and recover() edits that one.
LEMMA OneLastPanicked ==
    ASSUME NEW fs \in Seq(Frame), NEW j \in LastPanicked(fs)
    PROVE  /\ j \in 1..Len(fs) /\ LastPanicked(fs) = {j}
           /\ [n \in DOMAIN fs |-> IF n \in LastPanicked(fs) THEN [fs[n] EXCEPT !.status = "recovered"] ELSE fs[n]]
              = [fs EXCEPT ![j] = [fs[j] EXCEPT !.status = "recovered"]]
  <1>1. j \in 1..Len(fs) /\ Len(fs) \in Nat /\ DOMAIN fs = 1..Len(fs)
    BY LenProperties DEF LastPanicked
  <1>2. \A k \in LastPanicked(fs) : k = j
    <2> SUFFICES ASSUME NEW k \in LastPanicked(fs), k # j PROVE FALSE
      OBVIOUS
    <2>1. /\ j \in 1..Len(fs) /\ k \in 1..Len(fs) /\ fs[j].status = "panicked" /\ fs[k].status = "panicked"
          /\ \A m \in j+1..Len(fs) : fs[m].status = "deferred"
          /\ \A m \in k+1..Len(fs) : fs[m].status = "deferred"
      BY DEF LastPanicked
    <2>2. k \in j+1..Len(fs) \/ j \in k+1..Len(fs)
      BY <1>1, <2>1
    <2> QED
      BY <2>1, <2>2
  <1>3. LastPanicked(fs) = {j}
    BY <1>2
  <1>4. [n \in DOMAIN fs |-> IF n \in {j} THEN [fs[n] EXCEPT !.status = "recovered"] ELSE fs[n]]
           = [fs EXCEPT ![j] = [fs[j] EXCEPT !.status = "recovered"]]
    BY <1>1
  <1> QED
    BY <1>1, <1>3, <1>4

LEMMA RecoverStep ==
    ASSUME ChainInv, GoInv', OpRecover
    PROVE  GoStep
  <1> DEFINE s == GoStack(calls)
             ds == Pending(calls)
             a == Body(cur, ds)
             found == LastPanicked(calls)
  <1>1. Recoverable(Len(calls)) = found
    BY DEF Recoverable, LastPanicked
  <1>2. /\ phase = "run" /\ cur.kind \in {"func", "macro"} /\ cur' = cur /\ phase' = phase
        /\ RecoverFrames(found)
        /\ got' = IF found = {} THEN 0 ELSE Last(chain).id
        /\ GoInv
    BY <1>1 DEF OpRecover, Executes, ChainInv
  <1>3. /\ OnTopOf(s, a) /\ calls \in Seq(Frame) /\ Len(calls) \in Nat /\ cur \in Fn
        /\ ds \in Seq(Call) /\ s \in Seq(Act)
    BY <1>2, RunNow
  <1>4. a.mode = "body" /\ a.kind = "func"
    BY <1>2, <1>3, BodyType DEF GoKind
  <1>5. StackNow' = Append(GoStack(calls'), Body(cur, Pending(calls'))) /\ OutcomeNow' = "running"
    BY <1>2, RunNext
  <1>6. CASE found = {}
    <2>1. calls' = calls /\ got' = 0
      BY <1>2, <1>3, <1>6 DEF RecoverFrames
    <2>2. s # <<>> => s[Len(s)].mode # "panic"
      BY <1>3, <1>6, NoLastPanicked
    <2>3. StackNow' = StackNow
      BY <1>3, <1>5, <2>1 DEF OnTopOf
    <2> HIDE DEF s, a, ds, found
    <2>4. Go!Next
      BY <1>3, <1>4, <1>5, <2>1, <2>2, <2>3, GoRecoverNothing
    <2> QED
      BY <2>4, Steps
  <1>7. CASE found # {}
    <2>1. PICK j \in found : TRUE
      BY <1>7
    <2> DEFINE gs == [calls EXCEPT ![j] = [calls[j] EXCEPT !.status = "recovered"]]
    <2>2. found = {j}
      BY <1>3, OneLastPanicked
    <2>3. calls' = gs
      BY <1>2, <1>3, OneLastPanicked DEF RecoverFrames
    <2>4. got' = calls[j].why \/ (mixed /\ got' \in 1..MaxPanics)
      <3>1. got' = Last(chain).id
        BY <1>2, <1>7
      <3>2. /\ j \in 1..Len(calls) /\ calls[j].status = "panicked"
            /\ \A k \in j+1..Len(calls) : calls[k].status = "deferred"
        BY <2>1 DEF LastPanicked
      <3> HIDE DEF found
      <3>3. CASE mixed
        <4>1. chain # <<>>
          <5>1. Panicked # {}
            BY <3>2, ChainFacts DEF Panicked
          <5> QED
            BY <5>1, ChainFacts DEF SafeInv, PanickedHasPanic
        <4>2. Len(chain) \in 1..Len(chain)
          BY <4>1, ChainFacts, EmptySeq
        <4>3. Last(chain).id \in 1..thrown
          BY <4>2 DEF Last, ChainInv, Sorted
        <4>4. thrown \in 0..MaxPanics
          BY DEF ChainInv
        <4> QED
          BY <3>1, <3>3, <4>3, <4>4, BoundsAssumption
      <3>4. CASE ~mixed
        <4>1. Alive = Len(calls)
          BY <1>2 DEF Alive
        <4>2. TopMarked(calls, Alive, j)
          BY <3>2, <4>1 DEF TopMarked, Marked
        <4>3. NewestOnTop(calls, Alive, chain)
          BY <3>4 DEF ChainInv
        <4> QED
          BY <3>1, <3>2, <4>1, <4>2, <4>3 DEF NewestOnTop
      <3> QED
        BY <3>3, <3>4
    <2> HIDE DEF gs
    <2>5. /\ Len(s) \in 1..Len(s) /\ s[Len(s)].mode = "panic" /\ s[Len(s)].why = calls[j].why
          /\ GoStack(gs) = [s EXCEPT ![Len(s)] = Stopped(s[Len(s)])] /\ Pending(gs) = ds
      BY <1>3, <2>1, StopLast DEF gs
    <2>6. StackNow' = Append([s EXCEPT ![Len(s)] = Stopped(s[Len(s)])], a)
      BY <1>5, <2>3, <2>5
    <2> HIDE DEF s, a, ds, found
    <2>7. Go!Next \/ RecoversAnother
      BY <1>3, <1>4, <1>5, <2>4, <2>5, <2>6, GoRecover
    <2> QED
      BY <2>7 DEF GoStep
  <1> QED
    BY <1>6, <1>7

LEMMA RecoverDownStep ==
    ASSUME GoInv, GoInv', OpRecoverDown
    PROVE  GoStep
  <1> DEFINE n == Len(calls)
             p == SubSeq(calls, 1, n - 1)
             f == calls[n]
             r == GoStack(p)
             b == GoActivation(f, Pending(p))
             a == Body(cur, <<>>)
  <1>1. /\ phase = "run" /\ phase' = "return" /\ cur.kind = "recover" /\ cur' = cur /\ got' = got
        /\ RecoverFrames(Recoverable(IF f.status = "panicked" THEN 0 ELSE n - 1))
    BY DEF OpRecoverDown, Last
  <1>2. /\ OnTopOf(GoStack(calls), Body(cur, Pending(calls)))
        /\ calls \in Seq(Frame) /\ n \in Nat /\ cur \in Fn
    BY <1>1, RunNow
  <1>3. n # 0 /\ f.status \in {"returned", "recovered", "panicked"}
    BY <1>1 DEF GoInv, EndsDeferrer
  <1>4. n \in 1..n /\ SubSeq(calls, 1, n) = calls
    BY <1>2, <1>3, SubSeqFull
  <1>5. p \in Seq(Frame) /\ Len(p) = n - 1 /\ f \in Frame /\ calls = Append(p, f)
    BY <1>2, <1>4, LastFrame
  <1> HIDE DEF p, f
  <1>6. r \in Seq(Act) /\ Pending(p) \in Seq(Call)
    BY <1>5, StackType
  <1>7. GoStack(calls) = Append(r, b) /\ Pending(calls) = <<>>
    BY <1>3, <1>5, PushOwner
  <1>8. b \in Act /\ b.mode = Mode(f)
    BY <1>3, <1>5, <1>6, ActivationType
  <1>9. b.mode = IF f.status = "panicked" THEN "panic" ELSE "return"
    BY <1>3, <1>8 DEF Mode
  <1>10. OnTopOf(Append(r, b), a) /\ StackNow = Append(Append(r, b), a)
    BY <1>2, <1>7 DEF OnTopOf
  <1>11. a.mode = "body" /\ a.kind = "recover"
    BY <1>1 DEF Body, GoKind
  <1>12. StackNow' = Append(GoStack(calls'), Body(cur, Pending(calls'))) /\ OutcomeNow' = "running"
    BY <1>1, RunNext
  <1> HIDE DEF r, b, a
  <1>13. ASSUME calls' = calls, b.mode # "panic" => (r # <<>> => r[Len(r)].mode # "panic")
         PROVE  GoStep
    <2>1. StackNow' = StackNow
      BY <1>7, <1>10, <1>12, <1>13 DEF a
    <2>2. Go!Next
      BY <1>1, <1>6, <1>8, <1>10, <1>11, <1>12, <1>13, <2>1, GoRecoverAsDeferredNothing
    <2> QED
      BY <2>2, Steps
  <1>14. CASE f.status = "panicked"
    <2>1. Recoverable(0) = {}
      BY DEF Recoverable
    <2>2. calls' = calls
      BY <1>1, <1>2, <1>14, <2>1 DEF RecoverFrames
    <2> QED
      BY <1>9, <1>13, <1>14, <2>2
  <1>15. CASE f.status # "panicked" /\ LastPanicked(p) = {}
    <2>1. Recoverable(n - 1) = LastPanicked(p)
      <3>1. \A k \in 1..n-1 : calls[k] = p[k]
        BY <1>5, AppendProperties
      <3>2. \A j \in 1..n-1 : \A k \in j+1..n-1 : k \in 1..n-1
        BY <1>2
      <3> QED
        BY <1>5, <3>1, <3>2 DEF Recoverable, LastPanicked
    <2>2. calls' = calls
      BY <1>1, <1>2, <1>15, <2>1 DEF RecoverFrames
    <2>3. r # <<>> => r[Len(r)].mode # "panic"
      BY <1>5, <1>15, NoLastPanicked DEF r
    <2> QED
      BY <1>13, <2>2, <2>3
  <1>16. CASE f.status # "panicked" /\ LastPanicked(p) # {}
    <2>1. PICK j \in LastPanicked(p) : TRUE
      BY <1>16
    <2> DEFINE g == [p[j] EXCEPT !.status = "recovered"]
               gs == [p EXCEPT ![j] = g]
    <2>2. \A k \in 1..n-1 : calls[k] = p[k]
      BY <1>5, AppendProperties
    <2>3. Recoverable(n - 1) = LastPanicked(p)
      <3>1. \A m \in 1..n-1 : \A k \in m+1..n-1 : k \in 1..n-1
        BY <1>2
      <3> QED
        BY <1>5, <2>2, <3>1 DEF Recoverable, LastPanicked
    <2>4. j \in 1..n-1 /\ j \in 1..n /\ LastPanicked(p) = {j} /\ calls[j] = p[j]
      <3>1. j \in 1..n-1 /\ LastPanicked(p) = {j}
        BY <1>5, <2>1, OneLastPanicked
      <3> QED
        BY <1>2, <2>2, <3>1
    <2>5. calls' = [calls EXCEPT ![j] = g]
      <3>1. calls' = [m \in DOMAIN calls |-> IF m \in {j} THEN [calls[m] EXCEPT !.status = "recovered"] ELSE calls[m]]
        BY <1>1, <1>16, <2>3, <2>4 DEF RecoverFrames
      <3>2. calls' = [calls EXCEPT ![j] = [calls[j] EXCEPT !.status = "recovered"]]
        BY <1>2, <2>4, <3>1
      <3> QED
        BY <2>4, <3>2
    <2>6. g \in Frame
      <3>1. p[j] \in Frame
        BY <1>5, <2>4
      <3> QED
        BY <3>1 DEF Frame, Statuses
    <2>7. calls' = Append(gs, f)
      <3> HIDE DEF g
      <3> QED
        BY <1>5, <2>4, <2>5, <2>6, OnAppend
    <2>8. /\ gs \in Seq(Frame) /\ Len(r) \in 1..Len(r) /\ r[Len(r)].mode = "panic"
          /\ GoStack(gs) = [r EXCEPT ![Len(r)] = Stopped(r[Len(r)])] /\ Pending(gs) = Pending(p)
      BY <1>5, <2>1, StopLast DEF r
    <2> HIDE DEF gs
    <2>9. GoStack(calls') = Append(GoStack(gs), b) /\ Pending(calls') = <<>>
      <3>1. GoStack(Append(gs, f)) = Append(GoStack(gs), GoActivation(f, Pending(gs))) /\ Pending(Append(gs, f)) = <<>>
        BY <1>3, <1>5, <2>8, PushOwner
      <3> QED
        BY <2>7, <2>8, <3>1 DEF b
    <2>10. StackNow' = Append(Append([r EXCEPT ![Len(r)] = Stopped(r[Len(r)])], b), a)
      BY <1>12, <2>8, <2>9 DEF a
    <2>11. b.mode # "panic"
      BY <1>9, <1>16
    <2>12. Go!Next
      BY <1>1, <1>6, <1>8, <1>10, <1>11, <1>12, <2>8, <2>10, <2>11, GoRecoverAsDeferred
    <2> QED
      BY <2>12, Steps
  <1> QED
    BY <1>14, <1>15, <1>16

\* The running function returns: its activation leaves, or nextCall runs what it deferred.
LEMMA ReturnFromMainStep ==
    ASSUME GoInv, GoInv', ReturnFromMain
    PROVE  GoStep
  <1>1. /\ phase \in {"run", "return"} /\ calls = <<>> /\ phase' = "done" /\ chain' = chain /\ got' = got
    BY DEF ReturnFromMain, Returning
  <1>2. OnTopOf(<<>>, Body(cur, <<>>))
    BY <1>1, RunNow, NoFrames
  <1>3. chain = <<>>
    <2>1. Len(calls) = 0 /\ Alive = 0
      BY <1>1, EmptySeq DEF Alive
    <2> QED
      BY <1>1, <2>1 DEF GoInv, HasTrace
  <1>4. StackNow' = <<>> /\ OutcomeNow' = "returned"
    BY <1>1, <1>3 DEF StackNow, OutcomeNow, Over
  <1>5. Body(cur, <<>>).mode = "body" /\ Body(cur, <<>>).defers = <<>>
    BY DEF Body
  <1>6. Go!Next
    BY <1>1, <1>2, <1>4, <1>5, GoLeave
  <1> QED
    BY <1>6, Steps

LEMMA LastCall ==
    ASSUME calls \in Seq(Frame), calls # <<>>
    PROVE  LET n == Len(calls)
               p == SubSeq(calls, 1, n - 1)
           IN  /\ n \in Nat /\ n \in 1..n /\ SubSeq(calls, 1, n) = calls
               /\ p \in Seq(Frame) /\ calls[n] \in Frame /\ calls = Append(p, calls[n])
               /\ GoStack(p) \in Seq(Act) /\ Pending(p) \in Seq(Call)
  <1>1. Len(calls) \in Nat /\ Len(calls) # 0
    BY LenProperties, EmptySeq
  <1>2. Len(calls) \in 1..Len(calls) /\ SubSeq(calls, 1, Len(calls)) = calls
    BY <1>1, SubSeqFull
  <1>3. /\ SubSeq(calls, 1, Len(calls) - 1) \in Seq(Frame) /\ calls[Len(calls)] \in Frame
        /\ calls = Append(SubSeq(calls, 1, Len(calls) - 1), calls[Len(calls)])
    BY <1>2, LastFrame
  <1>4. /\ GoStack(SubSeq(calls, 1, Len(calls) - 1)) \in Seq(Act)
        /\ Pending(SubSeq(calls, 1, Len(calls) - 1)) \in Seq(Call)
    BY <1>3, StackType
  <1> QED
    BY <1>1, <1>2, <1>3, <1>4

LEMMA ReturnToCallerStep ==
    ASSUME GoInv, GoInv', ReturnToCaller
    PROVE  GoStep
  <1> DEFINE n == Len(calls)
             p == SubSeq(calls, 1, n - 1)
             f == calls[n]
             r == GoStack(p)
             b == Body(FunctionOf(f), Pending(p))
             a == Body(cur, <<>>)
  <1>1. /\ phase \in {"run", "return"} /\ phase' = "run" /\ calls # <<>> /\ f.status = "started"
        /\ calls' = p /\ cur' = FunctionOf(f) /\ got' = got
    BY DEF ReturnToCaller, Returning, Last
  <1>2. OnTopOf(GoStack(calls), Body(cur, Pending(calls))) /\ calls \in Seq(Frame)
    BY <1>1, RunNow
  <1>3. /\ p \in Seq(Frame) /\ f \in Frame /\ calls = Append(p, f)
        /\ r \in Seq(Act) /\ Pending(p) \in Seq(Call)
    BY <1>1, <1>2, LastCall
  <1>4. StackNow' = Append(GoStack(calls'), Body(cur', Pending(calls'))) /\ OutcomeNow' = "running"
    BY <1>1, RunNext
  <1> HIDE DEF p, f
  <1>5. /\ GoStack(Append(p, f)) = Append(r, GoActivation(f, Pending(p)))
        /\ Pending(Append(p, f)) = <<>>
    BY <1>1, <1>3, PushOwner
  <1>6. GoActivation(f, Pending(p)) = b
    BY <1>1, ActivationIs
  <1>7. OnTopOf(Append(r, b), a)
    BY <1>2, <1>3, <1>5, <1>6
  <1>8. StackNow' = Append(r, b)
    BY <1>1, <1>4
  <1>9. Append(r, b) # <<>>
    <2>1. b \in Act
      BY <1>1, <1>3, <1>6, ActivationType
    <2> HIDE DEF r, b
    <2> QED
      BY <1>3, <2>1, AppendProperties
  <1>10. a.mode = "body" /\ a.defers = <<>>
    BY DEF Body
  <1> HIDE DEF r, b, a
  <1>11. Go!Next
    BY <1>1, <1>4, <1>7, <1>8, <1>9, <1>10, GoLeave
  <1> QED
    BY <1>11, Steps

LEMMA ReturnToNextCallStep ==
    ASSUME GoInv, GoInv', ReturnToNextCall
    PROVE  GoStep
  <1> DEFINE n == Len(calls)
             p == SubSeq(calls, 1, n - 1)
             f == calls[n]
             s == GoStack(calls)
             ds == Pending(calls)
             a == Body(cur, ds)
  <1>1. /\ phase \in {"run", "return"} /\ phase' = "next" /\ calls # <<>> /\ f.status # "started"
        /\ i' = n /\ UNCHANGED <<calls, cur, rend, got>>
    BY DEF ReturnToNextCall, Returning, Last
  <1>2. OnTopOf(s, a) /\ calls \in Seq(Frame) /\ cur \in Fn /\ rend \in Nat /\ ds \in Seq(Call)
    BY <1>1, RunNow
  <1>3. /\ n \in 1..n /\ SubSeq(calls, 1, n) = calls /\ p \in Seq(Frame) /\ f \in Frame
        /\ calls = Append(p, f) /\ GoStack(p) \in Seq(Act) /\ Pending(p) \in Seq(Call)
    BY <1>1, <1>2, LastCall
  <1>4. /\ OutcomeNow' = "running"
        /\ StackNow' = IF f.status = "deferred"
                       THEN GoStack(Append(calls, FrameOf(cur, "returned", rend))) ELSE s
    <2>1. i' \in 1..Len(calls')
      BY <1>1, <1>3
    <2>2. OutcomeNow' = "running" /\ StackNow' = IF calls'[i'].status = "deferred"
                          THEN GoStack(Append(SubSeq(calls', 1, i'), FrameOf(cur', "returned", rend')))
                          ELSE GoStack(SubSeq(calls', 1, i'))
      BY <1>1, <2>1, LoopNext
    <2> QED
      BY <1>1, <1>3, <2>2
  <1>5. a.mode = "body" /\ a.defers = ds
    BY <1>2, BodyType
  <1> HIDE DEF p, f
  <1>6. CASE f.status = "deferred"
    <2>1. StackNow' = Append(s, WithMode(a, "return"))
      BY <1>2, <1>4, <1>6, TopOf
    <2>2. ds # <<>>
      <3>1. ds = Append(Pending(p), GoDeferred(f))
        BY <1>3, <1>6, PushDeferred
      <3>2. GoDeferred(f) \in Call
        BY <1>3, GoKindType DEF GoDeferred, Frame, Call
      <3> QED
        BY <1>3, <3>1, <3>2, AppendProperties
    <2> HIDE DEF s, ds, a
    <2>3. Go!Next
      BY <1>1, <1>2, <1>4, <1>5, <2>1, <2>2, GoReturns
    <2> QED
      BY <2>3, Steps
  <1>7. CASE f.status # "deferred"
    <2>1. s = Append(GoStack(p), GoActivation(f, Pending(p))) /\ ds = <<>>
      BY <1>3, <1>7, PushOwner
    <2>2. GoActivation(f, Pending(p)) \in Act
      BY <1>3, <1>7, ActivationType
    <2>3. s # <<>>
      BY <1>3, <2>1, <2>2, AppendProperties
    <2>4. StackNow' = s
      BY <1>4, <1>7
    <2> HIDE DEF s, ds, a
    <2>5. Go!Next
      BY <1>1, <1>2, <1>4, <1>5, <2>1, <2>3, <2>4, GoLeave
    <2> QED
      BY <2>5, Steps
  <1> QED
    BY <1>6, <1>7

-----------------------------------------------------------------------------
(***************************************************************************)
(* The loop of nextCall.                                                   *)
(***************************************************************************)
LEMMA DeferredKind ==
    ASSUME NEW f \in Frame, f.kind \in Scriggo
    PROVE  GoDeferred(f) \in Call /\ GoDeferred(f).kind # "native"
  <1>1. GoKind(f) \in Kinds /\ GoKind(f) # "native"
    BY DEF GoKind, Scriggo, Kinds
  <1>2. f.act \in Nat
    BY DEF Frame
  <1> QED
    BY <1>1, <1>2 DEF GoDeferred, Call

LEMMA NextStartedStep ==
    ASSUME GoInv, GoInv', NextStarted
    PROVE  GoStep
  <1> DEFINE p == SubSeq(calls, 1, i - 1)
  <1>1. /\ phase = "next" /\ i \in 1..Len(calls) /\ calls[i].status = "started"
        /\ GoesOn(calls[i], p)
    BY StartedGoesOn DEF GoInv
  <1>2. /\ OutcomeNow = "running" /\ calls \in Seq(Frame) /\ cur \in Fn /\ rend \in Nat
        /\ StackNow = GoStack(SubSeq(calls, 1, i))
    BY <1>1, LoopNow
  <1>3. GoStack(SubSeq(calls, 1, i)) = Append(GoStack(p), GoActivation(calls[i], Pending(p)))
    BY <1>1, <1>2, LoopFrames
  <1>4. StackNow' = Append(GoStack(calls'), Body(cur', Pending(calls'))) /\ OutcomeNow' = "running"
    BY <1>1, RunNext DEF GoesOn
  <1>5. calls' = p /\ cur' = FunctionOf(calls[i]) /\ got' = got
    BY <1>1 DEF GoesOn
  <1> HIDE DEF p
  <1>6. GoActivation(calls[i], Pending(p)) = Body(FunctionOf(calls[i]), Pending(p))
    BY <1>1, ActivationIs
  <1>7. UNCHANGED <<StackNow, got, OutcomeNow>>
    BY <1>2, <1>3, <1>4, <1>5, <1>6
  <1> QED
    BY <1>7, Steps

\* nextCall goes on with a deferred call, on top of the activation that deferred it.
LEMMA GoesOnStack ==
    ASSUME GoInv', NEW call \in Frame, NEW p \in Seq(Frame), NEW f \in Frame,
           f.status # "deferred", GoesOn(call, Append(p, f))
    PROVE  /\ StackNow' = Append(Append(GoStack(p), GoActivation(f, Pending(p))),
                                 Go!Activation(GoDeferred(call).id, GoDeferred(call).kind))
           /\ OutcomeNow' = "running" /\ got' = got
  <1>1. calls' = Append(p, f) /\ cur' = FunctionOf(call) /\ phase' = "run" /\ got' = got
    BY DEF GoesOn
  <1>2. StackNow' = Append(GoStack(calls'), Body(cur', Pending(calls'))) /\ OutcomeNow' = "running"
    BY <1>1, RunNext
  <1>3. /\ GoStack(Append(p, f)) = Append(GoStack(p), GoActivation(f, Pending(p)))
        /\ Pending(Append(p, f)) = <<>>
    BY PushOwner
  <1>4. Go!Activation(GoDeferred(call).id, GoDeferred(call).kind) = Body(FunctionOf(call), <<>>)
    BY ActivationIs
  <1> QED
    BY <1>1, <1>2, <1>3, <1>4

LEMMA NextDeferredStep ==
    ASSUME GoInv, GoInv', NextDeferred
    PROVE  GoStep
  <1> DEFINE p == SubSeq(calls, 1, i - 1)
             f == FrameOf(cur, "returned", rend)
             d == GoDeferred(calls[i])
             ds == Pending(p)
             s == GoStack(p)
             a == WithMode(Body(cur, Append(ds, d)), "return")
  <1>1. /\ phase = "next" /\ i \in 1..Len(calls) /\ calls[i].status = "deferred"
        /\ f \in Frame /\ GoesOn(calls[i], Append(p, f))
    BY DeferredGoesOn DEF GoInv
  <1>2. /\ OutcomeNow = "running" /\ calls \in Seq(Frame) /\ cur \in Fn /\ rend \in Nat
        /\ StackNow = GoStack(Append(SubSeq(calls, 1, i), f))
    BY <1>1, LoopNow
  <1>3. /\ p \in Seq(Frame) /\ calls[i] \in Frame /\ s \in Seq(Act) /\ ds \in Seq(Call)
        /\ StackNow = Append(s, a)
    BY <1>1, <1>2, LoopFrames
  <1>4. d \in Call /\ d.kind # "native"
    <2>1. calls[i].kind \in Scriggo
      BY <1>1, FrameFacts DEF GoInv
    <2> QED
      BY <1>3, <2>1, DeferredKind
  <1>5. f.status # "deferred" /\ GoActivation(f, ds) = WithMode(Body(cur, ds), "return")
    <2>1. f.status # "deferred"
      BY DEF FrameOf
    <2> HIDE DEF ds
    <2> QED
      BY <2>1, ActivationIs
  <1>6. /\ StackNow' = Append(Append(s, GoActivation(f, ds)), Go!Activation(d.id, d.kind))
        /\ OutcomeNow' = "running" /\ got' = got
    <2> HIDE DEF p, f
    <2> QED
      BY <1>1, <1>3, <1>5, GoesOnStack
  <1> HIDE DEF p, f, d, ds, s
  <1>7. Append(ds, d) \in Seq(Call)
    BY <1>3, <1>4, AppendProperties
  <1>8. a \in Act /\ a.mode = "return" /\ a.defers = Append(ds, d)
    <2>1. a \in Act
      BY <1>2, <1>7, BodyType
    <2> QED
      BY <2>1 DEF WithMode, Body
  <1>9. Becomes(a, "return", 0, ds) = WithMode(Body(cur, ds), "return")
    <2>1. a = Record(cur.act, GoKind(cur), "return", 0, Append(ds, d))
      BY DEF WithMode, Body, Record
    <2>2. Becomes(Record(cur.act, GoKind(cur), "return", 0, Append(ds, d)), "return", 0, ds)
             = Record(cur.act, GoKind(cur), "return", 0, ds)
      BY EditedRecord
    <2>3. WithMode(Body(cur, ds), "return") = Record(cur.act, GoKind(cur), "return", 0, ds)
      BY DEF WithMode, Body, Record
    <2> QED
      BY <2>1, <2>2, <2>3
  <1> HIDE DEF a
  <1>10. OnTopOf(s, a)
    BY <1>2, <1>3, <1>8 DEF OnTopOf
  <1>11. Go!Next
    BY <1>3, <1>4, <1>5, <1>6, <1>8, <1>9, <1>10, GoRunDefer
  <1> QED
    BY <1>11, Steps

\* An activation that returns (mode and panic are those of a frame that returned).
LEMMA ReturningActivation ==
    ASSUME NEW f \in Frame, f.status \in {"returned", "recovered"}, NEW es \in Seq(Call)
    PROVE  /\ GoActivation(f, es) \in Act /\ GoActivation(f, es).mode = "return"
           /\ GoActivation(f, es).defers = es
           /\ \A ds : Becomes(GoActivation(f, es), "return", 0, ds) = GoActivation(f, ds)
  <1>1. /\ GoActivation(f, es) \in Act /\ GoActivation(f, es).defers = es
        /\ GoActivation(f, es).mode = "return"
    <2>1. f.status # "deferred" /\ Mode(f) = "return"
      BY DEF Mode
    <2> QED
      BY <2>1, ActivationType
  <1>2. \A ds : GoActivation(f, ds) = Record(f.act, GoKind(f), "return", 0, ds)
    BY DEF GoActivation, Record, Mode
  <1>3. ASSUME NEW ds
        PROVE  Becomes(GoActivation(f, es), "return", 0, ds) = GoActivation(f, ds)
    <2>1. GoActivation(f, es) = Record(f.act, GoKind(f), "return", 0, es)
      BY <1>2
    <2>2. GoActivation(f, ds) = Record(f.act, GoKind(f), "return", 0, ds)
      BY <1>2
    <2>3. Becomes(Record(f.act, GoKind(f), "return", 0, es), "return", 0, ds)
             = Record(f.act, GoKind(f), "return", 0, ds)
      BY EditedRecord
    <2> QED
      BY <2>1, <2>2, <2>3
  <1> QED
    BY <1>1, <1>3

LEMMA NextDeferredOfReturnedStep ==
    ASSUME GoInv, GoInv', NextDeferredOfReturned
    PROVE  GoStep
  <1> DEFINE p == SubSeq(calls, 1, i - 2)
             q == SubSeq(calls, 1, i - 1)
             f == calls[i]
             d == GoDeferred(calls[i - 1])
             ds == Pending(p)
             s == GoStack(p)
             a == GoActivation(f, Append(ds, d))
  <1>1. /\ phase = "next" /\ i \in 1..Len(calls) /\ f.status \in {"returned", "recovered"}
        /\ i - 1 \in 1..Len(calls) /\ calls[i - 1].status = "deferred"
        /\ GoesOn(calls[i - 1], Append(p, f))
    BY ReturnedGoesOn DEF GoInv
  <1>2. /\ OutcomeNow = "running" /\ calls \in Seq(Frame) /\ cur \in Fn /\ rend \in Nat
        /\ StackNow = GoStack(SubSeq(calls, 1, i))
    BY <1>1, LoopNow
  <1>3. f \in Frame /\ StackNow = Append(GoStack(q), GoActivation(f, Pending(q)))
    BY <1>1, <1>2, LoopFrames
  <1>4. /\ p \in Seq(Frame) /\ calls[i - 1] \in Frame /\ s \in Seq(Act) /\ ds \in Seq(Call)
        /\ GoStack(q) = s /\ Pending(q) = Append(ds, d)
    <2>1. (i - 1) - 1 = i - 2
      BY <1>1
    <2> QED
      BY <1>1, <1>2, <2>1, LoopFrames
  <1>5. d \in Call /\ d.kind # "native"
    <2>1. calls[i - 1].kind \in Scriggo
      BY <1>1, FrameFacts DEF GoInv
    <2> QED
      BY <1>4, <2>1, DeferredKind
  <1>6. /\ StackNow' = Append(Append(s, GoActivation(f, ds)), Go!Activation(d.id, d.kind))
        /\ OutcomeNow' = "running" /\ got' = got
    <2> HIDE DEF p, f
    <2> QED
      BY <1>1, <1>3, <1>4, GoesOnStack
  <1>7. StackNow = Append(s, a)
    BY <1>3, <1>4
  <1> HIDE DEF p, q, f, d, ds, s
  <1>8. Append(ds, d) \in Seq(Call)
    BY <1>4, <1>5, AppendProperties
  <1>9. a \in Act /\ a.mode = "return" /\ a.defers = Append(ds, d)
        /\ Becomes(a, "return", 0, ds) = GoActivation(f, ds)
    BY <1>1, <1>3, <1>8, ReturningActivation
  <1> HIDE DEF a
  <1>10. OnTopOf(s, a)
    BY <1>2, <1>4, <1>7, <1>9 DEF OnTopOf
  <1>11. Go!Next
    BY <1>4, <1>5, <1>6, <1>9, <1>10, GoRunDefer
  <1> QED
    BY <1>11, Steps

LEMMA NextFinalizedStep ==
    ASSUME GoInv, GoInv', NextFinalized
    PROVE  GoStep
  <1> DEFINE q == SubSeq(calls, 1, i - 1)
             f == calls[i]
             s == GoStack(q)
             a == GoActivation(f, <<>>)
  <1>1. /\ i \in 1..Len(calls) /\ f.status \in {"returned", "recovered"} /\ ~MoreDeferred
        /\ phase = "next" /\ phase' = "next" /\ i' = i - 1 /\ UNCHANGED <<calls, cur, rend, got>>
    <2>1. i \in 1..Len(calls) /\ f.status \in {"returned", "recovered"}
      BY LoopIndex, FrameFacts DEF GoInv, NextFinalized, CutChain
    <2> QED
      BY <2>1 DEF NextFinalized, CutChain, AtStatus
  <1>2. /\ OutcomeNow = "running" /\ calls \in Seq(Frame) /\ cur \in Fn /\ rend \in Nat
        /\ StackNow = GoStack(SubSeq(calls, 1, i)) /\ Len(calls) \in Nat
    BY <1>1, LoopNow, LenProperties
  <1>3. f \in Frame /\ StackNow = Append(s, GoActivation(f, Pending(q))) /\ s \in Seq(Act)
    BY <1>1, <1>2, LoopFrames
  <1>4. CASE i = 1
    <2>1. q = <<>>
      BY <1>4, SubSeqEmpty
    <2>2. s = <<>> /\ Pending(q) = <<>>
      BY <2>1, NoFrames
    <2>3. chain' = <<>>
      <3>1. Alive' = 0 /\ phase' # "done"
        BY <1>1, <1>4 DEF Alive
      <3> QED
        BY <3>1 DEF GoInv, HasTrace
    <2>4. StackNow' = <<>> /\ OutcomeNow' = "returned"
      BY <1>1, <1>4, <2>3 DEF StackNow, OutcomeNow, Over
    <2>5. a \in Act /\ a.mode = "return" /\ a.defers = <<>>
      <3>1. <<>> \in Seq(Call)
        BY EmptySeq
      <3> QED
        BY <1>1, <1>3, <3>1, ReturningActivation
    <2>6. OnTopOf(s, a)
      BY <1>2, <1>3, <2>2, <2>5 DEF OnTopOf
    <2> HIDE DEF q, s, a
    <2>7. Go!Next
      BY <1>1, <2>2, <2>4, <2>5, <2>6, GoLeave
    <2> QED
      BY <2>7, Steps
  <1>5. CASE i # 1
    <2>1. i - 1 \in 1..Len(calls) /\ calls[i - 1].status # "deferred" /\ (i - 1) - 1 = i - 2
      BY <1>1, <1>2, <1>5 DEF MoreDeferred
    <2> DEFINE p == SubSeq(calls, 1, i - 2)
               g == calls[i - 1]
    <2>2. /\ s = Append(GoStack(p), GoActivation(g, Pending(p))) /\ Pending(q) = <<>>
          /\ p \in Seq(Frame) /\ g \in Frame /\ GoStack(p) \in Seq(Act) /\ Pending(p) \in Seq(Call)
      BY <1>2, <2>1, LoopFrames
    <2>3. s # <<>>
      <3>1. GoActivation(g, Pending(p)) \in Act
        BY <2>1, <2>2, ActivationType
      <3> QED
        BY <2>2, <3>1, AppendProperties
    <2>4. StackNow' = s /\ OutcomeNow' = "running"
      <3>1. i' \in 1..Len(calls') /\ calls'[i'].status # "deferred" /\ SubSeq(calls', 1, i') = q
        BY <1>1, <2>1
      <3> QED
        BY <1>1, <3>1, LoopNext
    <2>5. a \in Act /\ a.mode = "return" /\ a.defers = <<>>
      <3>1. <<>> \in Seq(Call)
        BY EmptySeq
      <3> QED
        BY <1>1, <1>3, <3>1, ReturningActivation
    <2>6. OnTopOf(s, a)
      BY <1>2, <1>3, <2>2, <2>5 DEF OnTopOf
    <2> HIDE DEF p, g, q, s, a
    <2>7. Go!Next
      BY <1>1, <2>3, <2>4, <2>5, <2>6, GoLeave
    <2> QED
      BY <2>7, Steps
  <1> QED
    BY <1>4, <1>5

LEMMA NextPanickedStep ==
    ASSUME GoInv, GoInv', NextPanicked
    PROVE  GoStep
  <1>1. /\ phase = "next" /\ i \in 1..Len(calls) /\ calls[i].status = "panicked"
    BY PanickedGoesOn DEF GoInv
  <1>2. PICK k \in 1..i-1 :
           /\ calls[k].status = "deferred" /\ \A j \in k+1..i : calls[j].status # "deferred"
           /\ GoesOn(calls[k], Append(SubSeq(calls, 1, k - 1), PanickingFrame(calls[k + 1], calls[i].why)))
    BY PanickedGoesOn DEF GoInv
  <1> DEFINE p == SubSeq(calls, 1, k - 1)
             q == SubSeq(calls, 1, k)
             cs == SubSeq(calls, 1, i)
             w == calls[i].why
             g == calls[k + 1]
             f == PanickingFrame(g, w)
             d == GoDeferred(calls[k])
             ds == Pending(p)
             s == GoStack(p)
             st == GoStack(cs)
             L == Len(s)
  <1>3. /\ OutcomeNow = "running" /\ calls \in Seq(Frame) /\ Len(calls) \in Nat /\ StackNow = st
        /\ cur \in Fn /\ rend \in Nat
    BY <1>1, LoopNow, LenProperties
  <1>4. k \in 1..Len(calls) /\ k + 1 \in 1..Len(calls) /\ k + 1 \in 1..i /\ k \in 0..i /\ k < i /\ i \in Nat
    BY <1>1, <1>2, <1>3
  <1>5. /\ p \in Seq(Frame) /\ calls[k] \in Frame /\ s \in Seq(Act) /\ ds \in Seq(Call)
        /\ GoStack(q) = s /\ Pending(q) = Append(ds, d)
    BY <1>2, <1>3, <1>4, LoopFrames
  <1>6. d \in Call /\ d.kind # "native"
    <2>1. calls[k].kind \in Scriggo
      BY <1>4, FrameFacts DEF GoInv
    <2> QED
      BY <1>5, <2>1, DeferredKind
  <1>7. /\ cs \in Seq(Frame) /\ Len(cs) = i /\ \A j \in 1..i : cs[j] = calls[j]
    <2>1. i + 1 \in 1..Len(calls) + 1 /\ (i + 1) - 1 = i
      BY <1>1, <1>3
    <2> QED
      BY <1>3, <2>1, PrefixOfSeq
  <1>8. SubSeq(cs, 1, k) = q
    <2>1. k + 1 \in 1..Len(cs) + 1 /\ k + 1 \in 1..Len(calls) + 1 /\ (k + 1) - 1 = k
      BY <1>3, <1>4, <1>7
    <2>2. /\ SubSeq(cs, 1, k) \in Seq(Frame) /\ Len(SubSeq(cs, 1, k)) = k
          /\ \A j \in 1..k : SubSeq(cs, 1, k)[j] = cs[j]
      BY <1>7, <2>1, PrefixOfSeq
    <2>3. q \in Seq(Frame) /\ Len(q) = k /\ \A j \in 1..k : q[j] = calls[j]
      BY <1>3, <2>1, PrefixOfSeq
    <2>4. \A j \in 1..k : j \in 1..i
      BY <1>4
    <2> HIDE DEF q, cs
    <2> QED
      BY <1>7, <2>2, <2>3, <2>4, SeqEqual
  <1>9. /\ L \in Nat /\ Len(st) = L + (i - k)
        /\ \A j \in 1..L : st[j] = s[j]
        /\ \A j \in L+1..Len(st) : st[j].defers = IF j = L + 1 THEN Append(ds, d) ELSE <<>>
        /\ st[L + 1] = GoActivation(g, Append(ds, d))
    <2>1. \A j \in k+1..Len(cs) : cs[j].status # "deferred"
      <3>1. \A j \in k+1..i : j \in 1..i
        BY <1>4
      <3> QED
        BY <1>2, <1>7, <3>1
    <2>2. k \in 0..Len(cs) /\ k < Len(cs) /\ cs[k + 1] = g
      BY <1>4, <1>7
    <2> HIDE DEF p, q, cs, d, ds, s, g
    <2> QED
      BY <1>5, <1>7, <1>8, <2>1, <2>2, OwnersOnTop
  <1>10. st[Len(st)].mode = "panic" /\ st[Len(st)].why = w /\ st \in Seq(Act)
    <2> DEFINE r == SubSeq(calls, 1, i - 1)
               b == GoActivation(calls[i], Pending(r))
    <2>1. /\ r \in Seq(Frame) /\ calls[i] \in Frame /\ GoStack(r) \in Seq(Act) /\ Pending(r) \in Seq(Call)
          /\ st = Append(GoStack(r), b)
      BY <1>1, <1>3, LoopFrames
    <2>2. b \in Act /\ b.mode = "panic" /\ b.why = w
      <3>1. b \in Act /\ b.mode = Mode(calls[i])
        BY <1>1, <2>1, ActivationType
      <3>2. Mode(calls[i]) = "panic"
        BY <1>1 DEF Mode
      <3>3. b.why = w
        BY <1>1 DEF GoActivation
      <3> QED
        BY <3>1, <3>2, <3>3
    <2> HIDE DEF r, b, st
    <2> QED
      BY <2>1, <2>2, OnAppend
  <1>11. w \in Nat /\ g \in Frame /\ f \in Frame /\ f.status = "panicked" /\ f.why = w
         /\ f.act = g.act /\ f.kind = g.kind
    <2>1. calls[i] \in Frame /\ g \in Frame
      BY <1>1, <1>3, <1>4
    <2>2. w \in Nat
      BY <2>1 DEF Frame
    <2> QED
      BY <2>1, <2>2, PanickingFrameType
  <1>12. /\ StackNow' = Append(Append(s, GoActivation(f, ds)), Go!Activation(d.id, d.kind))
         /\ OutcomeNow' = "running" /\ got' = got
    <2>1. GoesOn(calls[k], Append(p, f)) /\ f.status # "deferred"
      BY <1>2, <1>11
    <2> HIDE DEF p, f
    <2> QED
      BY <1>5, <1>11, <2>1, GoesOnStack
  <1>13. Becomes(st[L + 1], "panic", w, ds) = GoActivation(f, ds)
    <2> HIDE DEF w, g, f, d, ds, L, st
    <2> DEFINE es == Append(ds, d)
    <2>1. GoActivation(g, es) = Record(g.act, GoKind(g), Mode(g), IF g.status = "panicked" THEN g.why ELSE 0, es)
      BY DEF GoActivation, Record
    <2>2. GoActivation(f, ds) = Record(g.act, GoKind(g), "panic", w, ds)
      <3>1. GoKind(f) = GoKind(g) /\ Mode(f) = "panic"
        BY <1>11 DEF GoKind, Mode
      <3>2. GoActivation(f, ds) = Record(f.act, GoKind(f), Mode(f), IF f.status = "panicked" THEN f.why ELSE 0, ds)
        BY DEF GoActivation, Record
      <3> QED
        BY <1>11, <3>1, <3>2
    <2> DEFINE u == IF g.status = "panicked" THEN g.why ELSE 0
    <2>3. Becomes(Record(g.act, GoKind(g), Mode(g), u, es), "panic", w, ds)
             = Record(g.act, GoKind(g), "panic", w, ds)
      BY EditedRecord
    <2> QED
      BY <1>9, <2>1, <2>2, <2>3
  <1>14. SubSeq(st, 1, L) = s /\ L + 1 \in 1..Len(st) /\ (L + 1) - 1 = L
    <2>1. L + 1 \in 1..Len(st) /\ L + 1 \in 1..Len(st) + 1 /\ (L + 1) - 1 = L
      BY <1>4, <1>9
    <2>2. /\ SubSeq(st, 1, L) \in Seq(Act) /\ Len(SubSeq(st, 1, L)) = L
          /\ \A j \in 1..L : SubSeq(st, 1, L)[j] = st[j]
      BY <1>10, <2>1, PrefixOfSeq
    <2> HIDE DEF s, st
    <2>3. SubSeq(st, 1, L) = s
      BY <1>5, <1>9, <2>2, SeqEqual
    <2> QED
      BY <2>1, <2>3
  <1> HIDE DEF p, q, cs, w, g, f, d, ds, s, st, L
  <1>15. st[L + 1].defers = Append(ds, d)
    <2>1. L + 1 \in L+1..Len(st)
      BY <1>9, <1>14
    <2> QED
      BY <1>9, <2>1
  <1>16. \A j \in (L + 1)+1..Len(st) : st[j].defers = <<>>
    <2>1. \A j \in (L + 1)+1..Len(st) : j \in L+1..Len(st) /\ j # L + 1
      BY <1>9
    <2> QED
      BY <1>9, <2>1
  <1>17. StackNow' = Append(Append(SubSeq(st, 1, (L + 1) - 1), Becomes(st[L + 1], "panic", st[Len(st)].why, ds)),
                            Go!Activation(d.id, d.kind))
    BY <1>10, <1>12, <1>13, <1>14
  <1>18. Go!Next
    <2> DEFINE K == L + 1
    <2>1. /\ K \in 1..Len(st) /\ st[K].defers = Append(ds, d) /\ \A j \in K+1..Len(st) : st[j].defers = <<>>
          /\ StackNow' = Append(Append(SubSeq(st, 1, K - 1), Becomes(st[K], "panic", st[Len(st)].why, ds)),
                                Go!Activation(d.id, d.kind))
      BY <1>14, <1>15, <1>16, <1>17
    <2> HIDE DEF K
    <2> QED
      BY <1>3, <1>5, <1>6, <1>10, <1>12, <2>1, GoUnwind
  <1> QED
    BY <1>18, Steps

LEMMA NextNoneStep ==
    ASSUME GoInv, GoInv', NextNone
    PROVE  GoStep
  <1>1. phase = "next" /\ phase' = "done" /\ chain' = chain /\ got' = got /\ i \in Nat
    BY FrameFacts DEF NextNone, GoInv
  <1>2. CASE i = 0
    <2>1. StackNow = <<>> /\ StackNow' = <<>> /\ OutcomeNow' = OutcomeNow
      BY <1>1, <1>2 DEF StackNow, OutcomeNow, Over
    <2> QED
      BY <1>1, <2>1, Steps
  <1>3. CASE i # 0
    <2> DEFINE cs == SubSeq(calls, 1, i)
               st == GoStack(cs)
               r == SubSeq(calls, 1, i - 1)
               b == GoActivation(calls[i], Pending(r))
    <2>1. /\ i \in 1..Len(calls) /\ calls[i].status = "panicked"
          /\ \A j \in 1..i : calls[j].status # "deferred"
      <3>1. calls[i].status = "panicked" /\ \A j \in 1..i-1 : calls[j].status # "deferred"
        BY <1>3 DEF NextNone
      <3>2. i \in 1..Len(calls)
        <4>1. i <= Len(calls) /\ Len(calls) \in Nat
          BY <1>1, FrameFacts DEF GoInv, FunctionInv, SafeInv, TypeOK
        <4> QED
          BY <1>1, <1>3, <4>1
      <3>3. \A j \in 1..i : j = i \/ j \in 1..i-1
        BY <1>1
      <3> QED
        BY <3>1, <3>2, <3>3
    <2>2. /\ OutcomeNow = "running" /\ calls \in Seq(Frame) /\ Len(calls) \in Nat /\ StackNow = st
          /\ cur \in Fn /\ rend \in Nat
      BY <1>1, <2>1, LoopNow, LenProperties
    <2>3. /\ cs \in Seq(Frame) /\ Len(cs) = i /\ \A j \in 1..i : cs[j] = calls[j]
      <3>1. i + 1 \in 1..Len(calls) + 1 /\ (i + 1) - 1 = i
        BY <2>1, <2>2
      <3> QED
        BY <2>2, <3>1, PrefixOfSeq
    <2>4. /\ Len(st) = i
          /\ \A j \in 1..Len(st) : st[j].defers = <<>>
      <3>1. /\ 0 \in 0..Len(cs) /\ \A j \in 0+1..Len(cs) : cs[j].status # "deferred"
        BY <1>1, <2>1, <2>3
      <3>2. SubSeq(cs, 1, 0) = <<>> /\ Len(GoStack(<<>>)) = 0 /\ Pending(<<>>) = <<>>
        BY NoFrames, SubSeqEmpty, EmptySeq
      <3>3. /\ Len(st) = 0 + (Len(cs) - 0)
            /\ \A j \in 0+1..Len(st) : st[j].defers = IF j = 0 + 1 THEN <<>> ELSE <<>>
        <4> DEFINE n == 0
                   u == SubSeq(cs, 1, n)
        <4>1. n \in 0..Len(cs) /\ \A j \in n+1..Len(cs) : cs[j].status # "deferred"
          BY <3>1
        <4>2. Len(GoStack(u)) = 0 /\ Pending(u) = <<>>
          BY <3>2
        <4> HIDE DEF cs, n
        <4>3. /\ Len(GoStack(cs)) = Len(GoStack(u)) + (Len(cs) - n)
              /\ \A j \in Len(GoStack(u))+1..Len(GoStack(cs)) :
                    GoStack(cs)[j].defers = IF j = Len(GoStack(u)) + 1 THEN Pending(u) ELSE <<>>
          BY <2>3, <4>1, OwnersOnTop
        <4> HIDE DEF u
        <4> QED
          BY <4>2, <4>3 DEF n
      <3> HIDE DEF st
      <3> QED
        BY <1>1, <2>3, <3>3
    <2>5. st[Len(st)].mode = "panic" /\ st # <<>>
      <3>1. /\ r \in Seq(Frame) /\ calls[i] \in Frame /\ GoStack(r) \in Seq(Act) /\ Pending(r) \in Seq(Call)
            /\ st = Append(GoStack(r), b)
        BY <2>1, <2>2, LoopFrames
      <3>2. b \in Act /\ b.mode = "panic"
        <4>1. b \in Act /\ b.mode = Mode(calls[i])
          BY <2>1, <3>1, ActivationType
        <4> QED
          BY <2>1, <4>1 DEF Mode
      <3> HIDE DEF r, b, st
      <3> QED
        BY <3>1, <3>2, OnAppend
    <2>6. chain # <<>>
      <3>1. i \in Panicked
        BY <2>1, FrameFacts DEF Panicked, GoInv
      <3> QED
        BY <3>1 DEF GoInv, FunctionInv, SafeInv, PanickedHasPanic
    <2>7. StackNow' = <<>> /\ OutcomeNow' = "panicked"
      BY <1>1, <2>6 DEF StackNow, OutcomeNow, Over
    <2> HIDE DEF cs, st
    <2>8. Go!Next
      BY <1>1, <2>2, <2>4, <2>5, <2>7, GoUnwindEnds
    <2> QED
      BY <2>8, Steps
  <1> QED
    BY <1>2, <1>3

-----------------------------------------------------------------------------
(***************************************************************************)
(* The refinement.                                                         *)
(***************************************************************************)
LEMMA GoInit == Init => Go!Init
  <1> SUFFICES ASSUME Init PROVE Go!Init
    OBVIOUS
  <1>1. /\ calls = <<>> /\ cur = [act |-> 1, kind |-> "func"] /\ phase = "run" /\ got = 0
    BY DEF Init
  <1>2. OnTopOf(<<>>, Body(cur, <<>>))
    BY <1>1, GoInvInit, RunNow, NoFrames
  <1>3. Body(cur, <<>>) = Go!Activation(1, "func")
    BY <1>1 DEF Body, GoKind, Go!Activation
  <1>4. StackNow = <<Go!Activation(1, "func")>> /\ OutcomeNow = "running"
    BY <1>2, <1>3 DEF OnTopOf
  <1> QED
    BY <1>1, <1>4 DEF Go!Init

LEMMA GoStepOfNext ==
    ASSUME GoAssumption, ChainInv, [Next]_vars
    PROVE  GoStep
  <1>1. GoInv /\ GoInv'
    BY GoInvStep DEF ChainInv
  <1>2. CASE OpCallFunc \/ OpCallMacro
    BY <1>1, <1>2, CallStep
  <1>3. CASE Defers
    BY <1>1, <1>3, DeferStep
  <1>4. CASE OpPanic
    BY <1>1, <1>4, PanicStep
  <1>5. CASE OpRecover
    BY <1>1, <1>5, RecoverStep
  <1>6. CASE OpRecoverDown
    BY <1>1, <1>6, RecoverDownStep
  <1>7. CASE ReturnFromMain
    BY <1>1, <1>7, ReturnFromMainStep
  <1>8. CASE ReturnToCaller
    BY <1>1, <1>8, ReturnToCallerStep
  <1>9. CASE ReturnToNextCall
    BY <1>1, <1>9, ReturnToNextCallStep
  <1>10. CASE NextStarted
    BY <1>1, <1>10, NextStartedStep
  <1>11. CASE NextDeferred
    BY <1>1, <1>11, NextDeferredStep
  <1>12. CASE NextDeferredOfReturned
    BY <1>1, <1>12, NextDeferredOfReturnedStep
  <1>13. CASE NextFinalized
    BY <1>1, <1>13, NextFinalizedStep
  <1>14. CASE NextPanicked
    BY <1>1, <1>14, NextPanickedStep
  <1>15. CASE NextNone
    BY <1>1, <1>15, NextNoneStep
  <1>16. CASE Exit
    BY <1>16 DEF Exit, Executes, GoAssumption
  <1>17. CASE NextDeferredNil
    BY <1>1, <1>17 DEF NextDeferredNil, AtStatus, FunctionInv, GoInv, Nil, Scriggo
  <1>18. CASE Native
    BY <1>1, <1>18 DEF Native, NativeReturns, NativeNil, NativeFails, NativeStops, FunctionInv, GoInv
  <1>19. CASE UNCHANGED vars
    <2>1. UNCHANGED <<StackNow, got, OutcomeNow>>
      BY <1>19 DEF vars, StackNow, OutcomeNow, Over, Frames, OnTop, TopFrame, Live
    <2> QED
      BY <2>1, Steps
  <1> QED
    BY <1>2, <1>3, <1>4, <1>5, <1>6, <1>7, <1>8, <1>9, <1>10, <1>11, <1>12, <1>13, <1>14,
       <1>15, <1>16, <1>17, <1>18, <1>19 DEF Next, Execute, NextCall, Ended

\* The machine implements Go: every execution of a program that defers no native
\* function and is not stopped, however many calls, panics and recovers it makes, is
\* one that the rules of the language allow, but for the panic that recover() returns
\* when the last cut of the chain left a panic of no panicked frame.
THEOREM ImplementsGo ==
    ASSUME GoAssumption
    PROVE  Spec => GoSpec
  <1>1. ChainInv /\ [Next]_vars => ChainInv'
    BY ChainStep
  <1>2. ChainInv /\ [Next]_vars => [Go!Next \/ RecoversAnother]_<<StackNow, got, OutcomeNow>>
    BY GoStepOfNext DEF GoStep
  <1> QED
    BY <1>1, <1>2, ChainInit, GoInit, PTL DEF Spec, GoSpec
=============================================================================
