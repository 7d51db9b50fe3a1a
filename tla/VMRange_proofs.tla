---------------------------- MODULE VMRange_proofs ----------------------------
(***************************************************************************)
(* Proofs about VMRange, for every program, any number of calls, panics    *)
(* and loops, and any depth of the Go stack.                               *)
(***************************************************************************)
EXTENDS VMRange, VMCalls_proofs, WellFoundedInduction

-----------------------------------------------------------------------------
(***************************************************************************)
(* The OpRange that takes an address is on the Go stack.                   *)
(***************************************************************************)

LEMMA Greatest ==
    ASSUME NEW n \in Nat, NEW S, S \subseteq 1..n, S # {}
    PROVE  \E x \in S : \A y \in S : y <= x
  <1> DEFINE T == {m \in Nat : n - m \in S}
  <1>1. T \subseteq Nat /\ T # {}
    <2>1. PICK s \in S : TRUE
      OBVIOUS
    <2>2. n - s \in Nat /\ n - (n - s) = s
      BY <2>1
    <2> QED
      BY <2>1, <2>2
  <1>2. IsWellFoundedOn(Less, Nat)
    BY NatLessThanWellFounded DEF Less
  <1> HIDE DEF T
  <1>3. PICK x \in T : \A y \in T : ~(<<y, x>> \in Less)
    BY <1>1, <1>2, WFMin
  <1>4. \A y \in T : ~(y < x)
    <2>1. \A y \in Nat : <<y, x>> \in Less <=> y < x
      BY <1>1 DEF Less, OpToRel
    <2> QED
      BY <1>1, <1>3, <2>1
  <1>5. x \in Nat /\ n - x \in S
    BY DEF T
  <1>6. ASSUME NEW y \in S PROVE y <= n - x
    <2>1. n - y \in Nat /\ n - (n - y) = y
      OBVIOUS
    <2>2. n - y \in T
      BY <2>1 DEF T
    <2> QED
      BY <1>4, <1>5, <2>1, <2>2
  <1> QED
    BY <1>5, <1>6

OpenLoop == [at : Addrs, act : Nat]

LEMMA FoundOnGoStack ==
    ASSUME ranges \in Seq(OpenLoop), NEW addr, Found(addr) # 0
    PROVE  Found(addr) \in 1..Len(ranges) /\ ranges[Found(addr)].at = addr
  <1> DEFINE same == {n \in DOMAIN ranges : ranges[n].at = addr}
  <1>1. Len(ranges) \in Nat /\ DOMAIN ranges = 1..Len(ranges)
    BY LenProperties
  <1>2. same \subseteq 1..Len(ranges)
    BY <1>1
  <1>3. Found(addr) = IF same = {} THEN 0 ELSE CHOOSE n \in same : \A m \in same : m <= n
    BY DEF Found
  <1> HIDE DEF same
  <1>4. \E n \in same : \A m \in same : m <= n
    BY <1>1, <1>2, <1>3, Greatest
  <1>5. Found(addr) \in same
    BY <1>3, <1>4
  <1> QED
    BY <1>2, <1>5 DEF same

-----------------------------------------------------------------------------
(***************************************************************************)
(* The inductive invariant.  An activation that will run again, because it *)
(* waits for a call to return or is deferred, has no frame below that is   *)
(* also of it, and the running function has none at all, so that a loop of *)
(* the running function is of no frame that panicked.  No frame under a    *)
(* panicked one has an open loop: all of them panic, or are deferred calls *)
(* that have not started.  Of a frame that nextCall reaches only to say    *)
(* that no call is left ("halted": there is a panic above it and no        *)
(* deferred call between them) nothing is asked: the panic of a nil native *)
(* function, deferred by a caller that panics, makes a second frame of it. *)
(***************************************************************************)
Gone == {"panicked", "recovered"}
Open == {ranges[n].act : n \in DOMAIN ranges}

Quiet(cs, n, open) == \A k \in 1..n : cs[k].status \in Gone => \A j \in 1..k : cs[j].act \notin open
Others(cs, n, act) == \A j \in 1..n : cs[j].act # act
Fresh(cs, n, act) ==
    \A j \in 1..n : cs[j].status = "deferred" =>
        cs[j].act # act /\ \A m \in 1..Len(cs) : m # j => cs[m].act # cs[j].act
RunsLater(cs, n, j, halted) ==
    cs[j].status = "started" /\ (halted => \E m \in j+1..n : cs[m].status = "deferred")
Newer(cs, n, halted) == \A j \in 1..n : RunsLater(cs, n, j, halted) => Others(cs, j - 1, cs[j].act)
\* The deferred calls above the first n frames have run.
Passed(cs, n) == \A j \in n+1..Len(cs) : cs[j].status # "deferred"
Numbered(cs) == \A j \in 1..Len(cs) : cs[j].act \in 1..made

Halted == phase = "next" /\ i > 0 /\ calls[i].status = "panicked"

LoopInv ==
    /\ SafeInv
    /\ ranges \in Seq(OpenLoop)
    /\ Numbered(calls)
    /\ cur # Nil => cur.act \in 1..made
    /\ phase \notin Final =>
          /\ Quiet(calls, Alive, Open) /\ Fresh(calls, Alive, cur.act) /\ Newer(calls, Alive, Halted)
          /\ cur # Nil => Passed(calls, Alive)
    /\ phase \in {"run", "return"} => cur # Nil /\ Others(calls, Len(calls), cur.act)

LEMMA LoopInit == RangeInit => LoopInv
  <1> SUFFICES ASSUME RangeInit PROVE LoopInv
    OBVIOUS
  <1>1. calls = <<>> /\ phase = "run" /\ ranges = <<>> /\ cur = [act |-> 1, kind |-> "func"] /\ made = 1
    BY DEF RangeInit, Init
  <1>2. SafeInv
    BY SafeInit DEF RangeInit
  <1>3. ranges \in Seq(OpenLoop)
    BY <1>1
  <1>4. cur # Nil /\ cur.act \in 1..made
    BY <1>1 DEF Nil
  <1>5. Len(calls) = 0 /\ Alive = 0
    BY <1>1 DEF Alive
  <1> QED
    BY <1>1, <1>2, <1>3, <1>4, <1>5 DEF LoopInv, Numbered, Quiet, Fresh, Newer, Passed, Others

LEMMA LoopFacts ==
    ASSUME LoopInv
    PROVE  /\ SafeInv /\ calls \in Seq(Frame) /\ Len(calls) \in Nat
           /\ \A j \in 1..Len(calls) : calls[j] \in Frame /\ calls[j].act \in 1..made
           /\ cur \in Fn /\ rend \in Nat /\ made \in Nat /\ i \in Nat
           /\ ranges \in Seq(OpenLoop) /\ Len(ranges) \in Nat
  BY LenProperties, ElementOfSeq DEF LoopInv, SafeInv, TypeOK, Fn, Numbered

\* The loops that are left after a step that leaves the frames as they were.
LEMMA FewerLoops ==
    ASSUME NEW k \in 0..Len(ranges), ranges \in Seq(OpenLoop), ranges' = SubSeq(ranges, 1, k)
    PROVE  ranges' \in Seq(OpenLoop) /\ Open' \subseteq Open
  <1>1. k + 1 \in 1..Len(ranges) + 1 /\ (k + 1) - 1 = k /\ Len(ranges) \in Nat
    BY LenProperties
  <1>2. /\ ranges' \in Seq(OpenLoop) /\ Len(ranges') = k /\ \A n \in 1..k : ranges'[n] = ranges[n]
    BY <1>1, PrefixOfSeq
  <1>3. DOMAIN ranges' = 1..k /\ DOMAIN ranges = 1..Len(ranges) /\ \A n \in 1..k : n \in 1..Len(ranges)
    BY <1>1, <1>2, LenProperties
  <1> QED
    BY <1>2, <1>3 DEF Open

\* What holds of the frames of cs holds of those of ds, that have the same activations.
Alike(cs, ds, m) ==
    \A j \in 1..m :
        /\ ds[j].act = cs[j].act
        /\ ds[j].status \in Gone => cs[j].status \in Gone
        /\ ds[j].status \in {"started", "deferred"} => cs[j].status = ds[j].status

LEMMA SameActs ==
    ASSUME NEW cs, NEW ds, NEW n \in Nat, NEW m \in Nat, m <= n, NEW open, NEW less, less \subseteq open,
           Quiet(cs, n, open), Newer(cs, n, FALSE), Alike(cs, ds, m)
    PROVE  Quiet(ds, m, less) /\ Newer(ds, m, FALSE)
  <1>1. \A j \in 1..m : j \in 1..n /\ (\A k \in 1..j : k \in 1..m) /\ (\A k \in 1..j-1 : k \in 1..m)
    OBVIOUS
  <1>2. Quiet(ds, m, less)
    <2> SUFFICES ASSUME NEW k \in 1..m, ds[k].status \in Gone, NEW j \in 1..k PROVE ds[j].act \notin less
      BY DEF Quiet
    <2>1. k \in 1..n /\ k \in 1..m /\ j \in 1..m
      BY <1>1
    <2>2. cs[k].status \in Gone
      BY <2>1 DEF Alike
    <2>3. ds[j].act = cs[j].act
      BY <2>1 DEF Alike
    <2> QED
      BY <2>1, <2>2, <2>3 DEF Quiet
  <1>3. Newer(ds, m, FALSE)
    <2> SUFFICES ASSUME NEW j \in 1..m, ds[j].status = "started" PROVE Others(ds, j - 1, ds[j].act)
      BY DEF Newer, RunsLater
    <2>1. j \in 1..n /\ \A k \in 1..j-1 : k \in 1..m
      BY <1>1
    <2>2. cs[j].status = "started"
      BY DEF Alike
    <2>3. ds[j].act = cs[j].act /\ \A k \in 1..j-1 : ds[k].act = cs[k].act
      BY <2>1 DEF Alike
    <2>4. Others(cs, j - 1, cs[j].act)
      BY <2>1, <2>2 DEF Newer, RunsLater
    <2> QED
      BY <2>3, <2>4 DEF Others
  <1> QED
    BY <1>2, <1>3

LEMMA SameFresh ==
    ASSUME NEW cs, NEW ds, Len(cs) \in Nat, Len(ds) \in Nat, Len(ds) <= Len(cs), NEW n \in Nat, NEW m \in Nat,
           m <= n, m <= Len(ds), NEW act, Fresh(cs, n, act), Alike(cs, ds, Len(ds))
    PROVE  Fresh(ds, m, act)
  <1> SUFFICES ASSUME NEW j \in 1..m, ds[j].status = "deferred"
               PROVE  ds[j].act # act /\ \A k \in 1..Len(ds) : k # j => ds[k].act # ds[j].act
    BY DEF Fresh
  <1>1. j \in 1..n /\ j \in 1..Len(ds) /\ \A k \in 1..Len(ds) : k \in 1..Len(cs)
    OBVIOUS
  <1>2. cs[j].status = "deferred"
    BY <1>1 DEF Alike
  <1>3. ds[j].act = cs[j].act /\ \A k \in 1..Len(ds) : ds[k].act = cs[k].act
    BY <1>1 DEF Alike
  <1>4. cs[j].act # act /\ \A k \in 1..Len(cs) : k # j => cs[k].act # cs[j].act
    BY <1>1, <1>2 DEF Fresh
  <1> QED
    BY <1>1, <1>3, <1>4

\* What nothing has halted is asked more.
LEMMA NotHalted ==
    ASSUME LoopInv, phase \notin Final, ~Halted
    PROVE  Newer(calls, Alive, FALSE)
  BY DEF LoopInv, Newer, RunsLater

\* ContinueWith, with the frames cs: call goes on, above the first k - 1.
LEMMA LoopContinue ==
    ASSUME LoopInv, SafeInv', ranges' = ranges, NEW call \in Frame, call.act \in 1..made,
           NEW cs \in Seq(Frame), NEW k \in 1..Len(cs) + 1, ContinueWith(call, k, cs), made' = made,
           Numbered(cs), Quiet(cs, k - 1, Open), Newer(cs, k - 1, FALSE),
           Fresh(cs, k - 1, cur.act), Fresh(cs, k - 1, call.act), Others(cs, k - 1, call.act),
           cur # Nil => Passed(cs, k - 1)
    PROVE  LoopInv'
  <1>1. Len(cs) \in Nat /\ k - 1 \in Nat /\ Open' = Open /\ ranges' \in Seq(OpenLoop)
    BY LenProperties, LoopFacts DEF Open
  <1>2. CASE call.kind = "native"
    <2>1. calls' = cs /\ i' = k /\ phase' = "native" /\ cur' = cur
      BY <1>2 DEF ContinueWith
    <2>2. Alive' = k - 1 /\ ~Halted'
      BY <2>1 DEF Alive, Halted
    <2>3. Numbered(calls)'
      BY <2>1 DEF Numbered
    <2>4. cur' # Nil => cur'.act \in 1..made'
      BY <2>1 DEF LoopInv
    <2>5. Newer(calls', k - 1, Halted')
      BY <2>1, <2>2 DEF Newer, RunsLater
    <2> QED
      BY <1>1, <1>2, <2>1, <2>2, <2>3, <2>4, <2>5 DEF LoopInv
  <1>3. CASE call.kind # "native"
    <2>1. calls' = SubSeq(cs, 1, k - 1) /\ cur' = FunctionOf(call) /\ phase' = "run"
      BY <1>3 DEF ContinueWith
    <2>2. Len(calls') = k - 1 /\ \A j \in 1..k-1 : calls'[j] = cs[j]
      BY <2>1, PrefixOfSeq
    <2>3. Alive' = k - 1 /\ ~Halted'
      BY <2>1, <2>2 DEF Alive, Halted
    <2>4. Alike(cs, calls', k - 1) /\ k - 1 <= k - 1 /\ k - 1 <= Len(cs)
      BY <1>1, <2>2 DEF Alike
    <2>5. Quiet(calls', k - 1, Open) /\ Newer(calls', k - 1, Halted')
      <3> DEFINE m == k - 1
      <3>0. m \in Nat /\ m <= m /\ Open \subseteq Open /\ Alike(cs, calls', m)
            /\ Quiet(cs, m, Open) /\ Newer(cs, m, FALSE)
        BY <1>1, <2>4
      <3> HIDE DEF m
      <3>1. Quiet(calls', m, Open) /\ Newer(calls', m, FALSE)
        BY <3>0, SameActs
      <3> QED
        BY <2>3, <3>1 DEF Newer, RunsLater, m
    <2>6. cur' # Nil /\ cur'.act = call.act
      <3>1. call.act # 0
        BY LoopFacts
      <3> QED
        BY <2>1, <3>1 DEF FunctionOf, Nil
    <2>7. Fresh(calls', k - 1, cur'.act)
      BY <1>1, <2>2, <2>4, <2>6, SameFresh
    <2>8. Others(calls', k - 1, cur'.act) /\ Passed(calls', k - 1)
      BY <1>1, <2>2, <2>6 DEF Others, Passed
    <2>9. \A j \in 1..Len(calls') : calls'[j].act \in 1..made'
      <3>1. \A j \in 1..k-1 : j \in 1..Len(cs)
        BY <1>1
      <3> QED
        BY <2>2, <3>1 DEF Numbered
    <2> QED
      BY <1>1, <2>1, <2>2, <2>3, <2>5, <2>6, <2>7, <2>8, <2>9 DEF LoopInv, Numbered
  <1> QED
    BY <1>2, <1>3

LEMMA LoopOfNextCall ==
    ASSUME LoopInv, SafeInv', ranges' = ranges, NextStarted \/ NextDeferred \/ NextDeferredOfReturned
    PROVE  LoopInv'
  <1>1. /\ calls \in Seq(Frame) /\ i \in 1..Len(calls) /\ Len(calls) \in Nat /\ calls[i] \in Frame
        /\ made' = made /\ phase = "next" /\ i \in Nat /\ i - 1 \in Nat
    <2>1. /\ calls \in Seq(Frame) /\ i \in 1..Len(calls) /\ calls[i] \in Frame /\ Len(calls) \in Nat
          /\ made' = made /\ phase = "next"
      BY LoopIndex, LoopFacts DEF NextStarted, NextDeferred, NextDeferredOfReturned, AtStatus, hist
    <2> QED
      BY <2>1
  <1>2. /\ Quiet(calls, i, Open) /\ Fresh(calls, i, cur.act) /\ Newer(calls, i, FALSE)
        /\ cur # Nil => Passed(calls, i)
        /\ \A j \in 1..Len(calls) : calls[j].act \in 1..made
    <2>1. Alive = i /\ phase \notin Final
      BY <1>1 DEF Alive, Final
    <2>2. ~Halted
      BY DEF NextStarted, NextDeferred, NextDeferredOfReturned, AtStatus, Halted
    <2>3. Newer(calls, i, FALSE)
      BY <2>1, <2>2, NotHalted
    <2> QED
      BY <2>1, <2>3, LoopFacts DEF LoopInv
  <1>3. Quiet(calls, i - 1, Open) /\ Newer(calls, i - 1, FALSE)
    <2>1. Alike(calls, calls, i - 1) /\ i - 1 <= i
      BY <1>1 DEF Alike
    <2> QED
      BY <1>1, <1>2, <2>1, SameActs
  <1>4. CASE NextStarted
    <2>1. calls[i].status = "started" /\ ContinueWith(calls[i], i, calls) /\ i \in 1..Len(calls) + 1
      BY <1>1, <1>4 DEF NextStarted, AtStatus
    <2>2. i \in 1..i /\ \A j \in 1..i-1 : j \in 1..i /\ i # j
      BY <1>1
    <2>3. Others(calls, i - 1, calls[i].act)
      BY <1>2, <2>1, <2>2 DEF Newer, RunsLater
    <2>4. Fresh(calls, i - 1, cur.act) /\ Fresh(calls, i - 1, calls[i].act)
      BY <1>1, <1>2, <2>2 DEF Fresh
    <2>5. cur # Nil => Passed(calls, i - 1)
      <3>1. \A j \in (i-1)+1..Len(calls) : j = i \/ j \in i+1..Len(calls)
        BY <1>1
      <3> QED
        BY <1>2, <2>1, <3>1 DEF Passed
    <2>6. Numbered(calls) /\ calls[i].act \in 1..made
      BY <1>1, <1>2 DEF Numbered
    <2> QED
      BY <1>1, <1>3, <2>1, <2>3, <2>4, <2>5, <2>6, LoopContinue
  <1>5. CASE NextDeferred
    <2> DEFINE f == FrameOf(cur, "returned", rend)
               cs == [calls EXCEPT ![i] = f]
    <2>1. ContinueWith(calls[i], i + 1, cs) /\ cur # Nil /\ calls[i].status = "deferred"
      BY <1>5 DEF NextDeferred, AtStatus
    <2>2. f \in Frame /\ f.status = "returned" /\ f.act = cur.act
      BY LoopFacts, FrameOfType DEF Statuses, FrameOf
    <2>3. cs \in Seq(Frame) /\ Len(cs) = Len(calls)
          /\ \A j \in 1..Len(calls) : cs[j] = IF j = i THEN f ELSE calls[j]
      BY <1>1, <2>2, ReplaceInSeq
    <2>4. i + 1 \in 1..Len(cs) + 1 /\ (i + 1) - 1 = i /\ i \in 1..i /\ \A j \in 1..i : j \in 1..Len(calls)
      BY <1>1, <2>3
    <2> HIDE DEF cs, f
    <2>5. Numbered(cs) /\ calls[i].act \in 1..made
      BY <1>1, <1>2, <2>1, <2>2, <2>3 DEF LoopInv, Numbered
    \* the deferred call is not of the running function, nor of another frame
    <2>6. Others(cs, i, calls[i].act)
      BY <1>2, <2>1, <2>2, <2>3, <2>4 DEF Others, Fresh
    <2>7. Fresh(cs, i, cur.act) /\ Fresh(cs, i, calls[i].act)
      <3> SUFFICES ASSUME NEW j \in 1..i, cs[j].status = "deferred"
                   PROVE  /\ cs[j].act # cur.act /\ cs[j].act # calls[i].act
                          /\ \A m \in 1..Len(cs) : m # j => cs[m].act # cs[j].act
        BY DEF Fresh
      <3>1. j # i /\ cs[j] = calls[j]
        BY <2>2, <2>3, <2>4
      <3> QED
        BY <1>1, <1>2, <2>2, <2>3, <3>1 DEF Fresh
    <2>8. Newer(cs, i, FALSE)
      <3> SUFFICES ASSUME NEW j \in 1..i, cs[j].status = "started" PROVE Others(cs, j - 1, cs[j].act)
        BY DEF Newer, RunsLater
      <3>1. j # i /\ cs[j] = calls[j]
        BY <2>2, <2>3, <2>4
      <3>2. \A m \in 1..j-1 : m \in 1..Len(calls) /\ m # i
        BY <1>1
      <3> QED
        BY <1>2, <2>3, <3>1, <3>2 DEF Newer, RunsLater, Others
    <2>9. Quiet(cs, i, Open)
      <3> SUFFICES ASSUME NEW k \in 1..i, cs[k].status \in Gone, NEW j \in 1..k
                   PROVE  cs[j].act \notin Open
        BY DEF Quiet
      <3>1. k # i /\ j # i /\ j \in 1..i
        BY <1>1, <2>2, <2>3, <2>4 DEF Gone
      <3> QED
        BY <1>2, <2>3, <2>4, <3>1 DEF Quiet
    <2>10. Passed(cs, i)
      BY <1>1, <1>2, <2>1, <2>3 DEF Passed
    <2> QED
      BY <1>1, <2>1, <2>3, <2>4, <2>5, <2>6, <2>7, <2>8, <2>9, <2>10, LoopContinue
  <1>6. CASE NextDeferredOfReturned
    <2> DEFINE n == i - 1
               cs == [calls EXCEPT ![n] = calls[i]]
    <2>1. /\ ContinueWith(calls[n], i, cs) /\ i > 1 /\ calls[i].status \in {"returned", "recovered"}
          /\ calls[n].status = "deferred"
      BY <1>6 DEF NextDeferredOfReturned, MoreDeferred, AtStatus
    <2>2. n \in 1..Len(calls) /\ n \in Nat /\ n < i
      BY <1>1, <2>1
    <2>3. calls[n] \in Frame /\ calls[n].act \in 1..made
      BY <1>1, <1>2, <2>2, ElementOfSeq
    <2>4. cs \in Seq(Frame) /\ Len(cs) = Len(calls)
          /\ \A j \in 1..Len(calls) : cs[j] = IF j = n THEN calls[i] ELSE calls[j]
      BY <1>1, <2>2, ReplaceInSeq
    <2>5. i \in 1..Len(cs) + 1 /\ \A j \in 1..n : j \in 1..Len(calls) /\ j \in 1..i /\ j # i
      BY <1>1, <2>2, <2>4
    <2> HIDE DEF cs
    <2>6. Numbered(cs)
      BY <1>1, <1>2, <2>4 DEF Numbered
    <2>7. Fresh(cs, n, cur.act) /\ Fresh(cs, n, calls[n].act)
      <3> SUFFICES ASSUME NEW j \in 1..n, cs[j].status = "deferred"
                   PROVE  /\ cs[j].act # cur.act /\ cs[j].act # calls[n].act
                          /\ \A m \in 1..Len(cs) : m # j => cs[m].act # cs[j].act
        BY DEF Fresh
      <3>1. j # n /\ cs[j] = calls[j] /\ j \in 1..i /\ j # i
        BY <2>1, <2>4, <2>5
      <3> QED
        BY <1>1, <1>2, <2>2, <2>4, <3>1 DEF Fresh
    <2>8. Quiet(cs, n, Open)
      <3> SUFFICES ASSUME NEW k \in 1..n, cs[k].status \in Gone, NEW j \in 1..k
                   PROVE  cs[j].act \notin Open
        BY DEF Quiet
      <3>1. j \in 1..n /\ j \in 1..i /\ i \in 1..i /\ k \in 1..i
        BY <1>1, <2>2
      <3>2. CASE k = n
        <4>1. calls[i].status \in Gone
          BY <2>4, <2>5, <3>2
        <4>2. \A m \in 1..i : calls[m].act \notin Open
          BY <1>2, <3>1, <4>1 DEF Quiet
        <4> QED
          BY <2>4, <2>5, <3>1, <4>2
      <3>3. CASE k # n
        <4>1. calls[k].status \in Gone /\ j # n /\ j \in 1..Len(calls)
          BY <2>2, <2>4, <2>5, <3>1, <3>3
        <4> QED
          BY <1>2, <2>4, <3>1, <4>1 DEF Quiet
      <3> QED
        BY <3>2, <3>3
    <2>9. Others(cs, n, calls[n].act)
      <3>1. calls[n].status = "deferred" /\ n \in 1..i
        BY <1>1, <2>1, <2>2
      <3> HIDE DEF n
      <3>2. \A m \in 1..Len(calls) : m # n => calls[m].act # calls[n].act
        BY <1>2, <3>1 DEF Fresh
      <3>3. i # n
        BY <1>1, <2>2
      <3> QED
        BY <1>1, <2>4, <2>5, <3>2, <3>3 DEF Others
    <2>10. Newer(cs, n, FALSE)
      <3> SUFFICES ASSUME NEW j \in 1..n, cs[j].status = "started" PROVE Others(cs, j - 1, cs[j].act)
        BY DEF Newer, RunsLater
      <3>1. j # n /\ cs[j] = calls[j] /\ j \in 1..i
        BY <2>1, <2>4, <2>5
      <3>2. \A m \in 1..j-1 : m \in 1..Len(calls) /\ m # n
        BY <2>2
      <3> QED
        BY <1>2, <2>4, <3>1, <3>2 DEF Newer, RunsLater, Others
    <2>11. cur # Nil => Passed(cs, n)
      <3>1. \A j \in n+1..Len(cs) : j \in 1..Len(calls) /\ j # n /\ (j = i \/ j \in i+1..Len(calls))
        BY <1>1, <2>2, <2>4
      <3> QED
        BY <1>2, <2>1, <2>4, <3>1 DEF Passed
    <2> HIDE DEF n
    <2> QED
      BY <1>1, <2>1, <2>3, <2>4, <2>5, <2>6, <2>7, <2>8, <2>9, <2>10, <2>11, LoopContinue DEF n
  <1> QED
    BY <1>4, <1>5, <1>6

LEMMA LoopOfPanicked ==
    ASSUME LoopInv, SafeInv', ranges' = ranges, NextPanicked
    PROVE  LoopInv'
  <1>1. /\ calls \in Seq(Frame) /\ i \in 1..Len(calls) /\ Len(calls) \in Nat /\ calls[i] \in Frame
        /\ made' = made /\ phase = "next" /\ calls[i].status = "panicked"
    BY LoopIndex, LoopFacts DEF NextPanicked, AtStatus, hist
  <1>2. PICK k \in 1..i-1 :
           /\ calls[k].status = "deferred"
           /\ \A j \in k+1..i-1 : calls[j].status # "deferred"
           /\ ContinueWith(calls[k], IF calls[k].kind = "native" THEN k ELSE k + 1,
                  [calls EXCEPT ![k] = [calls[k + 1] EXCEPT !.status = "panicked",
                                                            !.why = calls[i].why]])
    BY DEF NextPanicked
  <1> DEFINE f == [calls[k + 1] EXCEPT !.status = "panicked", !.why = calls[i].why]
             cs == [calls EXCEPT ![k] = f]
             next == IF calls[k].kind = "native" THEN k ELSE k + 1
  <1>3. k \in 1..Len(calls) /\ k + 1 \in 1..Len(calls) /\ k \in Nat /\ k > 0 /\ k < i /\ k + 1 \in 1..i
        /\ i \in 1..i /\ k \in 1..i /\ k + 1 # k
    BY <1>1, <1>2
  <1>4. calls[k] \in Frame /\ calls[k + 1] \in Frame
    BY <1>1, <1>3, ElementOfSeq
  <1>5. f \in Frame /\ f.act = calls[k + 1].act /\ f.status = "panicked"
    BY <1>1, <1>4 DEF Frame, Statuses
  <1>6. ContinueWith(calls[k], next, cs)
    BY <1>2
  <1> HIDE DEF f
  <1>7. cs \in Seq(Frame) /\ Len(cs) = Len(calls)
        /\ \A j \in 1..Len(calls) : cs[j] = IF j = k THEN f ELSE calls[j]
    BY <1>1, <1>3, <1>5, ReplaceInSeq
  <1> HIDE DEF cs
  <1>8. /\ Quiet(calls, i, Open) /\ Fresh(calls, i, cur.act) /\ Newer(calls, i, TRUE)
        /\ cur # Nil => Passed(calls, i)
        /\ \A j \in 1..Len(calls) : calls[j].act \in 1..made
    <2>1. Alive = i /\ phase \notin Final /\ Halted = TRUE
      BY <1>1 DEF Alive, Final, Halted
    <2> QED
      BY <2>1, LoopFacts DEF LoopInv
  <1>9. Numbered(cs) /\ calls[k].act \in 1..made
    BY <1>3, <1>5, <1>7, <1>8 DEF Numbered
  <1>10. \A j \in 1..k : j \in 1..i /\ j \in 1..Len(calls) /\ j # k + 1 /\ j # i
    BY <1>1, <1>3
  \* no frame up to the panicked one, nor its copy, has an open loop
  <1>11. \A j \in 1..k : cs[j].act \notin Open
    BY <1>1, <1>3, <1>5, <1>7, <1>8, <1>10 DEF Quiet, Gone
  <1>12. Quiet(cs, k, Open)
    <2>1. \A m \in 1..k : \A j \in 1..m : j \in 1..k
      BY <1>3
    <2> QED
      BY <1>11, <2>1 DEF Quiet
  \* a frame that waits below runs again: the deferred call is above it
  <1>13. Newer(cs, k, FALSE)
    <2> SUFFICES ASSUME NEW j \in 1..k, cs[j].status = "started" PROVE Others(cs, j - 1, cs[j].act)
      BY DEF Newer, RunsLater
    <2>1. j # k /\ cs[j] = calls[j] /\ j \in 1..i
      BY <1>3, <1>5, <1>7, <1>10
    <2>2. k \in j+1..i /\ \A m \in 1..j-1 : m \in 1..Len(calls) /\ m # k
      BY <1>1, <1>3, <2>1
    <2>3. Others(calls, j - 1, calls[j].act)
      BY <1>2, <1>8, <2>1, <2>2 DEF Newer, RunsLater
    <2> QED
      BY <1>7, <2>1, <2>2, <2>3 DEF Others
  <1>14. Fresh(cs, k, cur.act) /\ Fresh(cs, k, calls[k].act)
    <2> SUFFICES ASSUME NEW j \in 1..k, cs[j].status = "deferred"
                 PROVE  /\ cs[j].act # cur.act /\ cs[j].act # calls[k].act
                        /\ \A m \in 1..Len(cs) : m # j => cs[m].act # cs[j].act
      BY DEF Fresh
    <2>1. j # k /\ cs[j] = calls[j] /\ j \in 1..i /\ j # k + 1
      BY <1>3, <1>5, <1>7, <1>10
    <2>2. calls[j].act # cur.act /\ \A m \in 1..Len(calls) : m # j => calls[m].act # calls[j].act
      BY <1>8, <2>1 DEF Fresh
    <2> QED
      BY <1>3, <1>5, <1>7, <2>1, <2>2
  <1>15. Others(cs, k, calls[k].act)
    <2>1. \A m \in 1..Len(calls) : m # k => calls[m].act # calls[k].act
      BY <1>2, <1>3, <1>8 DEF Fresh
    <2> QED
      BY <1>3, <1>5, <1>7, <1>10, <2>1 DEF Others
  <1>16. cur # Nil => Passed(cs, k)
    <2>1. \A j \in k+1..Len(cs) : /\ j \in 1..Len(calls) /\ j # k
                                  /\ j \in k+1..i-1 \/ j = i \/ j \in i+1..Len(calls)
      BY <1>1, <1>3, <1>7
    <2> QED
      BY <1>1, <1>2, <1>7, <1>8, <2>1 DEF Passed
  <1>17. CASE calls[k].kind = "native"
    <2>1. k \in 1..Len(cs) + 1 /\ ContinueWith(calls[k], k, cs)
      BY <1>3, <1>6, <1>7, <1>17
    <2>2. k - 1 \in Nat /\ \A j \in 1..k-1 : j \in 1..k
      BY <1>3
    <2>3. Quiet(cs, k - 1, Open) /\ Newer(cs, k - 1, FALSE) /\ Others(cs, k - 1, calls[k].act)
      BY <1>12, <1>13, <1>15, <2>2 DEF Quiet, Newer, RunsLater, Others
    <2>4. Fresh(cs, k - 1, cur.act) /\ Fresh(cs, k - 1, calls[k].act)
      BY <1>14, <2>2 DEF Fresh
    <2>5. cur # Nil => Passed(cs, k - 1)
      <3>1. \A j \in (k-1)+1..Len(cs) : j = k \/ j \in k+1..Len(cs)
        BY <1>3, <1>7
      <3> QED
        BY <1>3, <1>5, <1>7, <1>16, <3>1 DEF Passed
    <2> HIDE DEF next
    <2> QED
      BY <1>1, <1>4, <1>7, <1>9, <2>1, <2>3, <2>4, <2>5, LoopContinue
  <1>18. CASE calls[k].kind # "native"
    <2>1. k + 1 \in 1..Len(cs) + 1 /\ (k + 1) - 1 = k /\ ContinueWith(calls[k], k + 1, cs)
      BY <1>3, <1>6, <1>7, <1>18
    <2> HIDE DEF next
    <2> QED
      BY <1>1, <1>4, <1>7, <1>9, <1>12, <1>13, <1>14, <1>15, <1>16, <2>1, LoopContinue
  <1> QED
    BY <1>17, <1>18

LEMMA LoopPush ==
    ASSUME LoopInv, SafeInv', ranges' = ranges, OpCallFunc \/ OpCallMacro \/ Defers
    PROVE  LoopInv'
  <1> DEFINE n == Len(calls)
             new(kind) == [act |-> made', kind |-> kind]
  <1>1. /\ phase = "run" /\ phase' = "run" /\ made' = made + 1
        /\ calls \in Seq(Frame) /\ n \in Nat /\ cur \in Fn /\ rend \in Nat /\ made \in Nat
        /\ \A j \in 1..n : calls[j].act \in 1..made
    BY LoopFacts DEF OpCallFunc, OpCallMacro, Defers, OpDefer, Enter, Executes
  <1>2. /\ Quiet(calls, n, Open) /\ Fresh(calls, n, cur.act) /\ Newer(calls, n, FALSE)
        /\ Others(calls, n, cur.act) /\ cur.act \in 1..made /\ cur # Nil
    <2>1. Alive = n /\ phase \notin Final /\ ~Halted
      BY <1>1 DEF Alive, Final, Halted
    <2> QED
      BY <1>1, <2>1, NotHalted DEF LoopInv
  <1>3. Open' = Open /\ ranges' \in Seq(OpenLoop)
    BY LoopFacts DEF Open
  <1>4. PICK f \in Frame :
           /\ calls' = Append(calls, f) /\ f.act \in 1..made' /\ f.status \notin Gone
           /\ Others(calls, n, f.act)
           /\ cur'.act \in 1..made' /\ cur' # Nil /\ cur'.act # f.act
           /\ Others(calls, n, cur'.act)
    <2>0. Others(calls, n, made')
      BY <1>1 DEF Others
    <2>1. CASE OpCallFunc \/ OpCallMacro
      <3>1. PICK saved \in Nat, kind \in {"func", "macro"} :
               calls' = Append(calls, FrameOf(cur, "started", saved)) /\ cur' = new(kind)
        BY <1>1, <2>1 DEF OpCallFunc, OpCallMacro, Enter
      <3>2. /\ FrameOf(cur, "started", saved) \in Frame /\ FrameOf(cur, "started", saved).status = "started"
            /\ FrameOf(cur, "started", saved).act = cur.act
        BY <1>1, FrameOfType DEF Statuses, FrameOf
      <3>3. cur'.act = made' /\ made' \in 1..made' /\ made' # 0 /\ cur.act \in 1..made' /\ made' # cur.act
        BY <1>1, <1>2, <3>1
      <3> QED
        BY <1>2, <2>0, <3>1, <3>2, <3>3 DEF Gone, Nil
    <2>2. CASE Defers
      <3>1. PICK kind \in {"func", "native", "recover"} :
               calls' = Append(calls, FrameOf(new(kind), "deferred", rend)) /\ cur' = cur
        BY <2>2 DEF Defers, OpDefer
      <3>2. new(kind) \in Fn
        BY <1>1 DEF Fn, Kinds
      <3>3. /\ FrameOf(new(kind), "deferred", rend) \in Frame
            /\ FrameOf(new(kind), "deferred", rend).status = "deferred"
        BY <1>1, <3>2, FrameOfType DEF Statuses
      <3>4. FrameOf(new(kind), "deferred", rend).act = made'
        BY DEF FrameOf
      <3>5. made' \in 1..made' /\ cur.act \in 1..made' /\ made' # cur.act
        BY <1>1, <1>2
      <3> QED
        BY <1>2, <2>0, <3>1, <3>3, <3>4, <3>5 DEF Gone
    <2> QED
      BY <2>1, <2>2
  <1>5. /\ Len(calls') = n + 1 /\ calls'[n + 1] = f /\ \A j \in 1..n : calls'[j] = calls[j]
    BY <1>1, <1>4, AppendProperties
  <1> HIDE DEF n
  <1>6. \A j \in 1..n+1 : j = n + 1 \/ j \in 1..n
    BY <1>1
  <1>7. Quiet(calls', n + 1, Open)
    <2> SUFFICES ASSUME NEW k \in 1..n+1, calls'[k].status \in Gone, NEW j \in 1..k
                 PROVE  calls'[j].act \notin Open
      BY DEF Quiet
    <2>1. k \in 1..n /\ j \in 1..n
      BY <1>1, <1>4, <1>5, <1>6
    <2> QED
      BY <1>2, <1>5, <2>1 DEF Quiet
  <1>8. Fresh(calls', n + 1, cur'.act)
    <2> SUFFICES ASSUME NEW j \in 1..n+1, calls'[j].status = "deferred"
                 PROVE  /\ calls'[j].act # cur'.act
                        /\ \A m \in 1..n+1 : m # j => calls'[m].act # calls'[j].act
      BY <1>5 DEF Fresh
    <2>1. CASE j = n + 1
      BY <1>4, <1>5, <1>6, <2>1 DEF Others
    <2>2. CASE j \in 1..n
      <3>1. calls'[j] = calls[j] /\ calls[j].act # cur'.act /\ calls[j].act # f.act
        BY <1>4, <1>5, <2>2 DEF Others
      <3>2. \A m \in 1..n : m # j => calls[m].act # calls[j].act
        BY <1>2, <2>2, <3>1 DEF Fresh, n
      <3> QED
        BY <1>5, <1>6, <3>1, <3>2
    <2> QED
      BY <1>6, <2>1, <2>2
  <1>9. Newer(calls', n + 1, FALSE)
    <2> SUFFICES ASSUME NEW j \in 1..n+1, calls'[j].status = "started"
                 PROVE  Others(calls', j - 1, calls'[j].act)
      BY DEF Newer, RunsLater
    <2>1. \A m \in 1..j-1 : m \in 1..n
      BY <1>1
    <2>2. CASE j = n + 1
      BY <1>4, <1>5, <2>1, <2>2 DEF Others
    <2>3. CASE j \in 1..n
      BY <1>2, <1>5, <2>1, <2>3 DEF Newer, RunsLater, Others
    <2> QED
      BY <1>6, <2>2, <2>3
  <1>10. Others(calls', n + 1, cur'.act) /\ Passed(calls', n + 1)
    BY <1>1, <1>4, <1>5, <1>6 DEF Others, Passed
  <1>11. Numbered(calls)'
    BY <1>1, <1>4, <1>5, <1>6 DEF Numbered, n
  <1>12. Alive' = n + 1 /\ ~Halted'
    BY <1>1, <1>5 DEF Alive, Halted
  <1>13. Newer(calls', n + 1, Halted')
    BY <1>9, <1>12 DEF Newer, RunsLater
  <1> QED
    BY <1>1, <1>3, <1>4, <1>5, <1>7, <1>8, <1>10, <1>11, <1>12, <1>13 DEF LoopInv

\* The frame of the function that panicked: no loop is open, and the calls below that are still
\* deferred are those of the frames that run later.
LEMMA LoopPanic ==
    ASSUME LoopInv, SafeInv', ranges' = <<>>, OpPanic \/ NativeNil
    PROVE  LoopInv'
  <1> DEFINE f == [FrameOf(cur, "panicked", rend) EXCEPT !.why = thrown']
             n == Len(calls)
  <1>1. /\ calls \in Seq(Frame) /\ n \in Nat /\ cur \in Fn /\ rend \in Nat /\ thrown' \in Nat
        /\ made' = made /\ made \in Nat /\ \A j \in 1..n : calls[j].act \in 1..made
        /\ phase \in {"run", "native"} /\ cur # Nil /\ cur.act \in 1..made
    <2>1. /\ calls \in Seq(Frame) /\ n \in Nat /\ cur \in Fn /\ rend \in Nat /\ made \in Nat
          /\ \A j \in 1..n : calls[j].act \in 1..made
      BY LoopFacts
    <2>2. phase \in {"run", "native"} /\ made' = made /\ thrown' = thrown + 1
      BY DEF OpPanic, NativeNil, LinksPanic, Throws, Executes
    <2>3. cur # Nil /\ cur.act \in 1..made /\ thrown \in Nat
      BY <2>2 DEF LoopInv, NativeNil, OpPanic, Executes, SafeInv, TypeOK
    <2> QED
      BY <2>1, <2>2, <2>3
  <1>2. ranges' \in Seq(OpenLoop) /\ Open' = {}
    BY DEF Open
  <1>3. CASE OpPanic /\ calls = <<>>
    <2>1. phase' = "done" /\ UNCHANGED <<calls, cur>>
      BY <1>3 DEF OpPanic
    <2> QED
      BY <1>1, <1>2, <2>1 DEF LoopInv, Numbered, Final
  <1>4. CASE PushesPanicked
    <2>1. calls' = Append(calls, f) /\ cur' = Nil /\ i' = Len(calls') /\ phase' = "next"
      BY <1>4 DEF PushesPanicked
    <2>2. f = [act |-> cur.act, kind |-> cur.kind, status |-> "panicked",
               rend |-> rend, why |-> thrown']
      BY DEF FrameOf
    <2>3. f \in Frame /\ f.act = cur.act /\ f.status = "panicked"
      BY <1>1, <2>2 DEF Fn, Statuses, Frame
    <2> HIDE DEF f
    <2>4. /\ Len(calls') = n + 1 /\ calls'[n + 1] = f /\ \A j \in 1..n : calls'[j] = calls[j]
      BY <1>1, <2>1, <2>3, AppendProperties
    <2>5. Alive' = n + 1
      BY <2>1, <2>4 DEF Alive
    <2>6. Alive \in Nat /\ Alive <= n /\ phase \notin Final /\ ~Halted
      <3>1. phase = "native" => i \in Nat /\ i > 0 /\ i <= n + 1
        BY <1>1 DEF LoopInv, SafeInv, TypeOK
      <3> QED
        BY <1>1, <3>1 DEF Alive, Final, Halted
    <2>7. Fresh(calls, Alive, cur.act) /\ Newer(calls, Alive, FALSE) /\ Passed(calls, Alive)
      BY <1>1, <2>6, NotHalted DEF LoopInv
    <2> DEFINE a == Alive
    <2>8. \A j \in 1..n+1 : j = n + 1 \/ j \in 1..n
      BY <1>1
    <2>9. \A j \in 1..n+1 : calls'[j].status = "deferred" => j \in 1..a /\ j \in 1..n
      <3>1. \A j \in 1..n : j \in 1..a \/ j \in a+1..n
        BY <1>1, <2>6
      <3> QED
        BY <2>3, <2>4, <2>7, <2>8, <3>1 DEF Passed
    <2>10. Numbered(calls)'
      BY <1>1, <2>3, <2>4, <2>8 DEF Numbered
    <2> HIDE DEF n, a
    <2>11. Fresh(calls', n + 1, cur'.act)
      <3> SUFFICES ASSUME NEW j \in 1..n+1, calls'[j].status = "deferred"
                   PROVE  /\ calls'[j].act # cur'.act
                          /\ \A m \in 1..n+1 : m # j => calls'[m].act # calls'[j].act
        BY <2>4 DEF Fresh
      <3>1. j \in 1..a /\ j \in 1..n /\ calls'[j] = calls[j] /\ calls[j].status = "deferred"
        BY <2>4, <2>9
      <3>2. calls[j].act # cur.act /\ \A m \in 1..n : m # j => calls[m].act # calls[j].act
        BY <2>7, <3>1 DEF Fresh, n, a
      <3>3. calls[j].act # cur'.act
        BY <1>1, <2>1, <3>1 DEF Nil, n
      <3> QED
        BY <2>3, <2>4, <2>8, <3>1, <3>2, <3>3
    <2>12. Newer(calls', n + 1, TRUE)
      <3> SUFFICES ASSUME NEW j \in 1..n+1, calls'[j].status = "started",
                          NEW m \in j+1..n+1, calls'[m].status = "deferred"
                   PROVE  Others(calls', j - 1, calls'[j].act)
        BY DEF Newer, RunsLater
      <3>1. m \in 1..n+1
        BY <1>1 DEF n
      <3>2. m \in 1..a /\ m \in 1..n
        BY <2>9, <3>1
      <3>3. j \in 1..a /\ j \in 1..n /\ \A x \in 1..j-1 : x \in 1..n
        BY <1>1, <2>6, <3>2 DEF n, a
      <3>4. Others(calls, j - 1, calls[j].act)
        BY <2>4, <2>7, <3>3 DEF Newer, RunsLater, a
      <3> QED
        BY <2>4, <3>3, <3>4 DEF Others
    <2>13. Quiet(calls', n + 1, Open')
      BY <1>2 DEF Quiet
    <2>14. Newer(calls', n + 1, Halted')
      <3>1. Halted' \in BOOLEAN /\ i' = n + 1 /\ n + 1 > 0
        BY <1>1, <2>1, <2>4 DEF Halted, n
      <3>2. Halted' = TRUE
        BY <2>1, <2>3, <2>4, <3>1 DEF Halted
      <3> QED
        BY <2>12, <3>2
    <2> QED
      BY <1>2, <2>1, <2>5, <2>10, <2>11, <2>13, <2>14 DEF LoopInv
  <1> QED
    BY <1>3, <1>4 DEF OpPanic, NativeNil

LEMMA LoopRecover ==
    ASSUME LoopInv, SafeInv', ranges' = ranges, OpRecover \/ OpRecoverDown
    PROVE  LoopInv'
  <1>1. PICK found \in {Recoverable(Len(calls)),
                        Recoverable(IF Last(calls).status = "panicked" THEN 0 ELSE Len(calls) - 1)} :
           RecoverFrames(found)
    BY DEF OpRecover, OpRecoverDown
  <1>2. /\ UNCHANGED <<cur, made>> /\ phase = "run" /\ phase' \in {"run", "return"}
    BY DEF OpRecover, OpRecoverDown, Executes, hist
  <1>3. /\ calls \in Seq(Frame) /\ Len(calls) \in Nat /\ DOMAIN calls = 1..Len(calls)
        /\ \A j \in 1..Len(calls) : calls[j] \in Frame /\ calls[j].act \in 1..made
        /\ Quiet(calls, Len(calls), Open) /\ Fresh(calls, Len(calls), cur.act)
        /\ Newer(calls, Len(calls), FALSE)
        /\ Others(calls, Len(calls), cur.act) /\ cur # Nil /\ cur.act \in 1..made
    <2>1. Alive = Len(calls) /\ phase \notin Final /\ ~Halted
      BY <1>2 DEF Alive, Final, Halted
    <2> QED
      BY <1>2, <2>1, NotHalted, LoopFacts, LenProperties DEF LoopInv
  <1>4. Len(calls') = Len(calls)
    BY <1>1, LoopFacts, RecoverPreserves
  <1>5. \A j \in found : calls[j].status = "panicked"
    BY <1>1 DEF Recoverable
  <1>6. Alike(calls, calls', Len(calls))
    <2> SUFFICES ASSUME NEW j \in 1..Len(calls)
                 PROVE  /\ calls'[j].act = calls[j].act
                        /\ calls'[j].status \in Gone => calls[j].status \in Gone
                        /\ calls'[j].status \in {"started", "deferred"} => calls[j].status = calls'[j].status
      BY DEF Alike
    <2>1. calls'[j] = IF j \in found THEN [calls[j] EXCEPT !.status = "recovered"] ELSE calls[j]
      BY <1>1, <1>3 DEF RecoverFrames
    <2>2. CASE j \in found
      BY <1>3, <1>5, <2>1, <2>2 DEF Frame, Gone
    <2>3. CASE j \notin found
      BY <2>1, <2>3
    <2> QED
      BY <2>2, <2>3
  <1>7. Open' = Open /\ ranges' \in Seq(OpenLoop)
    BY LoopFacts DEF Open
  <1>8. Quiet(calls', Len(calls), Open) /\ Newer(calls', Len(calls), FALSE)
    <2> DEFINE n == Len(calls)
    <2>0. n \in Nat /\ n <= n
      BY <1>3
    <2>1. Alike(calls, calls', n) /\ Quiet(calls, n, Open) /\ Newer(calls, n, FALSE)
      BY <1>3, <1>6 DEF n
    <2> HIDE DEF n
    <2>2. Quiet(calls', n, Open) /\ Newer(calls', n, FALSE)
      BY <2>0, <2>1, SameActs
    <2> QED
      BY <2>2 DEF n
  <1>9. Fresh(calls', Len(calls), cur.act)
    <2>1. Alike(calls, calls', Len(calls')) /\ Len(calls') \in Nat /\ Len(calls') <= Len(calls)
      BY <1>3, <1>4, <1>6
    <2>2. Len(calls) <= Len(calls) /\ Len(calls) <= Len(calls')
      BY <1>3, <1>4
    <2> QED
      BY <1>3, <2>1, <2>2, SameFresh
  <1>10. Others(calls', Len(calls), cur.act) /\ Numbered(calls)' /\ Passed(calls', Len(calls))
    BY <1>2, <1>3, <1>4, <1>6 DEF Others, Numbered, Alike, Passed
  <1>11. Alive' = Len(calls) /\ ~Halted'
    BY <1>2, <1>4 DEF Alive, Halted
  <1>12. Newer(calls', Len(calls), Halted')
    BY <1>8, <1>11 DEF Newer, RunsLater
  <1> QED
    BY <1>2, <1>3, <1>4, <1>7, <1>8, <1>9, <1>10, <1>11, <1>12 DEF LoopInv, Final

LEMMA LoopReturn ==
    ASSUME LoopInv, SafeInv', ranges' = ranges, ReturnToCaller
    PROVE  LoopInv'
  <1> DEFINE n == Len(calls)
  <1>1. /\ calls # <<>> /\ phase \in {"run", "return"} /\ phase' = "run" /\ made' = made
        /\ calls' = SubSeq(calls, 1, n - 1) /\ cur' = FunctionOf(calls[n]) /\ calls[n].status = "started"
    BY DEF ReturnToCaller, Returning, Last, hist
  <1>2. /\ calls \in Seq(Frame) /\ n \in Nat /\ n # 0
        /\ \A j \in 1..n : calls[j].act \in 1..made
    BY <1>1, LoopFacts, EmptySeq
  <1>3. Quiet(calls, n, Open) /\ Fresh(calls, n, cur.act) /\ Newer(calls, n, FALSE)
    <2>1. Alive = n /\ phase \notin Final /\ ~Halted
      BY <1>1 DEF Alive, Final, Halted
    <2> QED
      BY <2>1, NotHalted DEF LoopInv
  <1>4. n \in 1..n /\ n \in 1..n + 1 /\ n - 1 \in Nat /\ n - 1 <= n /\ \A j \in 1..n-1 : j \in 1..n /\ j # n
    BY <1>2
  <1>5. Len(calls') = n - 1 /\ \A j \in 1..n-1 : calls'[j] = calls[j]
    BY <1>1, <1>2, <1>4, PrefixOfSeq
  <1>6. cur'.act = calls[n].act /\ calls[n].act # 0 /\ calls[n].act \in 1..made
    <2>1. calls[n].act \in 1..made
      BY <1>2, <1>4
    <2>2. made \in Nat
      BY LoopFacts
    <2> QED
      BY <1>1, <2>1, <2>2 DEF FunctionOf
  <1>7. Open' = Open /\ ranges' \in Seq(OpenLoop)
    BY LoopFacts DEF Open
  <1>8. Alike(calls, calls', n - 1)
    BY <1>5 DEF Alike
  <1>9. Others(calls, n - 1, calls[n].act) /\ Fresh(calls, n - 1, calls[n].act)
    <2>1. Others(calls, n - 1, calls[n].act)
      BY <1>1, <1>3, <1>4 DEF Newer, RunsLater
    <2>2. Fresh(calls, n - 1, calls[n].act)
      BY <1>3, <1>4 DEF Fresh
    <2> QED
      BY <2>1, <2>2
  <1>10. Fresh(calls', n - 1, cur'.act)
    <2>1. Len(calls) \in Nat /\ Len(calls') \in Nat /\ Len(calls') <= Len(calls)
          /\ n - 1 <= n - 1 /\ n - 1 <= Len(calls')
      BY <1>2, <1>4, <1>5
    <2>2. Alike(calls, calls', Len(calls'))
      BY <1>5, <1>8
    <2> HIDE DEF n
    <2> QED
      BY <1>4, <1>6, <1>9, <2>1, <2>2, SameFresh
  <1> HIDE DEF n
  <1>11. Quiet(calls', n - 1, Open) /\ Newer(calls', n - 1, FALSE)
    BY <1>2, <1>3, <1>4, <1>8, SameActs
  <1>12. Others(calls', n - 1, cur'.act) /\ Passed(calls', n - 1)
    BY <1>4, <1>5, <1>6, <1>9 DEF Others, Passed
  <1>13. Numbered(calls)' /\ cur' # Nil
    BY <1>1, <1>2, <1>4, <1>5, <1>6 DEF Numbered, Nil
  <1>14. Alive' = n - 1 /\ ~Halted'
    BY <1>1, <1>5 DEF Alive, Halted
  <1>15. Newer(calls', n - 1, Halted')
    BY <1>11, <1>14 DEF Newer, RunsLater
  <1> QED
    BY <1>1, <1>5, <1>6, <1>7, <1>10, <1>11, <1>12, <1>13, <1>14, <1>15 DEF LoopInv

\* What only moves the index of nextCall, or ends, and leaves no more loops open.
LEMMA LoopSame ==
    ASSUME LoopInv, SafeInv', UNCHANGED <<calls, cur, made>>, ranges' \in Seq(OpenLoop), Open' \subseteq Open,
           \/ phase' \in Final
           \/ UNCHANGED <<phase, i>>
           \/ ReturnToNextCall \/ NativeReturns \/ NextFinalized
    PROVE  LoopInv'
  <1>1. Numbered(calls)' /\ (cur' # Nil => cur'.act \in 1..made')
    BY DEF LoopInv, Numbered
  <1>2. CASE phase' \in Final
    BY <1>1, <1>2 DEF LoopInv, Final
  <1>3. CASE UNCHANGED <<phase, i>>
    <2>1. Alive' = Alive /\ Halted' = Halted
      BY <1>3 DEF Alive, Halted
    <2>2. CASE phase \notin Final
      <3>1. /\ Quiet(calls, Alive, Open) /\ Fresh(calls, Alive, cur.act) /\ Newer(calls, Alive, Halted)
            /\ cur # Nil => Passed(calls, Alive)
        BY <2>2 DEF LoopInv
      <3>2. Quiet(calls, Alive, Open')
        BY <3>1 DEF Quiet
      <3>3. phase \in {"run", "return"} => cur # Nil /\ Others(calls, Len(calls), cur.act)
        BY DEF LoopInv
      <3> QED
        BY <1>1, <1>3, <2>1, <3>1, <3>2, <3>3 DEF LoopInv
    <2>3. CASE phase \in Final
      BY <1>1, <1>2, <1>3, <2>3
    <2> QED
      BY <2>2, <2>3
  <1>4. CASE ReturnToNextCall \/ NativeReturns \/ NextFinalized
    <2>1. /\ phase' = "next" /\ phase \in {"run", "return", "next", "native"} /\ i \in Nat
          /\ Len(calls) \in Nat /\ ~Halted
      BY <1>4, LoopFacts DEF ReturnToNextCall, NativeReturns, NextFinalized, AtStatus, Returning, Halted
    <2>0. Alive' = i'
      BY <2>1 DEF Alive
    <2>2. /\ Quiet(calls, Alive, Open) /\ Fresh(calls, Alive, cur.act) /\ Newer(calls, Alive, FALSE)
          /\ cur # Nil => Passed(calls, Alive)
      <3>1. phase \notin Final
        BY <2>1 DEF Final
      <3> QED
        BY <2>1, <3>1, NotHalted DEF LoopInv
    <2>3. /\ i' \in Nat /\ Alive \in Nat /\ i' <= Alive
          /\ \A j \in i'+1..Len(calls) : calls[j].status = "deferred" => j \in Alive+1..Len(calls)
      <3>1. CASE ReturnToNextCall
        <4>1. i' = Len(calls) /\ phase \in {"run", "return"}
          BY <3>1 DEF ReturnToNextCall, Returning
        <4> QED
          BY <2>1, <4>1 DEF Alive
      <3>2. CASE NativeReturns
        <4>1. i' = i - 1 /\ phase = "native" /\ i > 0
          BY <3>2 DEF NativeReturns, LoopInv, SafeInv, TypeOK
        <4> QED
          BY <2>1, <4>1 DEF Alive
      <3>3. CASE NextFinalized
        <4>1. i' = i - 1 /\ phase = "next" /\ i > 0 /\ calls[i].status # "deferred"
          BY <3>3 DEF NextFinalized, AtStatus
        <4>2. \A j \in i'+1..Len(calls) : j = i \/ j \in i+1..Len(calls)
          BY <2>1, <4>1
        <4> QED
          BY <2>1, <4>1, <4>2 DEF Alive
      <3> QED
        BY <1>4, <3>1, <3>2, <3>3
    <2>4. Quiet(calls, i', Open') /\ Newer(calls, i', FALSE)
      <3>1. Alike(calls, calls, i')
        BY DEF Alike
      <3> QED
        BY <2>2, <2>3, <3>1, SameActs
    <2>5. Fresh(calls, i', cur.act) /\ (cur # Nil => Passed(calls, i'))
      <3>1. \A j \in 1..i' : j \in 1..Alive
        BY <2>3
      <3> QED
        BY <2>2, <2>3, <3>1 DEF Fresh, Passed
    <2>6. Newer(calls, i', Halted')
      BY <2>4 DEF Newer, RunsLater
    <2> QED
      BY <1>1, <2>0, <2>1, <2>4, <2>5, <2>6 DEF LoopInv
  <1> QED
    BY <1>2, <1>3, <1>4

\* Loops are opened by the running function only, that is of no frame.
LEMMA LoopOpens == ASSUME LoopInv, SafeInv', OpRange PROVE LoopInv'
  <1>1. PICK addr \in Addrs : ranges' = Append(ranges, RangeOf(addr, cur.act))
    BY DEF OpRange
  <1>2. /\ UNCHANGED vars /\ phase = "run" /\ cur.act \in 1..made /\ cur \in Fn
        /\ ranges \in Seq(OpenLoop) /\ Len(ranges) \in Nat
    BY LoopFacts DEF OpRange, LoopInv
  <1>3. RangeOf(addr, cur.act) \in OpenLoop /\ RangeOf(addr, cur.act).act = cur.act
    BY <1>2 DEF RangeOf, OpenLoop, Fn
  <1>4. /\ ranges' \in Seq(OpenLoop) /\ Len(ranges') = Len(ranges) + 1
        /\ ranges'[Len(ranges) + 1] = RangeOf(addr, cur.act)
        /\ \A n \in 1..Len(ranges) : ranges'[n] = ranges[n]
    BY <1>1, <1>2, <1>3, AppendProperties
  <1>5. DOMAIN ranges' = 1..Len(ranges) + 1 /\ DOMAIN ranges = 1..Len(ranges)
    BY <1>2, <1>4, LenProperties
  <1>6. Open' \subseteq Open \cup {cur.act}
    BY <1>2, <1>3, <1>4, <1>5 DEF Open
  <1>7. UNCHANGED <<calls, cur, phase, i, made>> /\ Alive' = Alive /\ Alive = Len(calls) /\ Halted' = Halted
    BY <1>2 DEF vars, Alive, Halted
  <1>8. /\ Quiet(calls, Alive, Open) /\ Others(calls, Alive, cur.act) /\ Len(calls) \in Nat
        /\ Fresh(calls, Alive, cur.act) /\ Newer(calls, Alive, Halted) /\ Passed(calls, Alive) /\ cur # Nil
    BY <1>2, <1>7, LoopFacts DEF LoopInv, Final
  <1>9. Quiet(calls, Alive, Open')
    <2>1. \A k \in 1..Alive : \A j \in 1..k : j \in 1..Alive
      BY <1>7, <1>8
    <2> QED
      BY <1>6, <1>8, <2>1 DEF Quiet, Others
  <1> QED
    BY <1>2, <1>4, <1>7, <1>8, <1>9 DEF LoopInv, Numbered, Final

LEMMA LoopStep == LoopInv /\ [RangeNext]_<<vars, rvars>> => LoopInv'
  <1> SUFFICES ASSUME LoopInv, [RangeNext]_<<vars, rvars>> PROVE LoopInv'
    OBVIOUS
  <1>1. SafeInv' 
    <2>1. CASE NothingTakes
      BY <2>1 DEF NothingTakes, LoopInv, SafeInv, TypeOK, PanickedHasPanic, Panicked, hist, Phases, Final
    <2>2. CASE ~NothingTakes
      <3>1. [Next]_vars
        BY <2>2 DEF RangeNext, OpRange, OpContinue, LoopEnds, SameRanges, Unwinds, RangeEnded,
                    Next, Execute, NextCall, Native
      <3> QED
        BY <3>1, StepPreserves DEF LoopInv
    <2> QED
      BY <2>1, <2>2
  <1>2. CASE OpRange
    BY <1>1, <1>2, LoopOpens
  <1>3. CASE OpContinue \/ LoopEnds
    <2>1. PICK addr \in Addrs, last \in {0, 1} :
             Found(addr) # 0 /\ ranges' = SubSeq(ranges, 1, Found(addr) - last) /\ UNCHANGED vars
      <3>1. CASE OpContinue
        <4>1. PICK addr \in Addrs : Found(addr) # 0 /\ ranges' = SubSeq(ranges, 1, Found(addr)) /\ UNCHANGED vars
          BY <3>1 DEF OpContinue
        <4>2. Found(addr) \in 1..Len(ranges)
          BY <4>1, LoopFacts, FoundOnGoStack
        <4>3. Found(addr) - 0 = Found(addr)
          BY <4>2
        <4> QED
          BY <4>1, <4>3
      <3>2. CASE LoopEnds
        BY <3>2 DEF LoopEnds
      <3> QED
        BY <1>3, <3>1, <3>2
    <2>2. Found(addr) \in 1..Len(ranges) /\ Len(ranges) \in Nat /\ ranges \in Seq(OpenLoop)
      BY <2>1, LoopFacts, FoundOnGoStack
    <2>3. Found(addr) - last \in 0..Len(ranges)
      BY <2>2
    <2>4. ranges' \in Seq(OpenLoop) /\ Open' \subseteq Open
      BY <2>1, <2>2, <2>3, FewerLoops
    <2> QED
      BY <1>1, <2>1, <2>4, LoopSame DEF vars
  <1>4. CASE NothingTakes
    <2>1. UNCHANGED <<calls, cur, made>> /\ phase' \in Final /\ ranges' = <<>>
      BY <1>4 DEF NothingTakes, hist, Final
    <2> QED
      BY <1>1, <2>1, LoopSame DEF Open
  <1>5. CASE SameRanges
    <2>1. ranges' = ranges
      BY <1>5 DEF SameRanges, rvars
    <2>2. CASE OpCallFunc \/ OpCallMacro \/ Defers
      BY <1>1, <2>1, <2>2, LoopPush
    <2>3. CASE OpRecover \/ OpRecoverDown
      BY <1>1, <2>1, <2>3, LoopRecover
    <2>4. CASE ReturnToCaller
      BY <1>1, <2>1, <2>4, LoopReturn
    <2>5. CASE NextStarted \/ NextDeferred \/ NextDeferredOfReturned
      BY <1>1, <2>1, <2>5, LoopOfNextCall
    <2>6. CASE NextPanicked
      BY <1>1, <2>1, <2>6, LoopOfPanicked
    <2>7. CASE ReturnToNextCall \/ NextFinalized \/ NativeReturns
      <3>1. UNCHANGED <<calls, cur, made>>
        BY <2>7 DEF ReturnToNextCall, NextFinalized, NativeReturns, hist
      <3>2. ranges' \in Seq(OpenLoop) /\ Open' \subseteq Open
        BY <2>1, LoopFacts DEF Open
      <3> QED
        BY <1>1, <2>7, <3>1, <3>2, LoopSame
    <2> QED
      BY <1>5, <2>2, <2>3, <2>4, <2>5, <2>6, <2>7 DEF SameRanges
  <1>6. CASE Unwinds
    <2>1. ranges' = <<>>
      BY <1>6 DEF Unwinds
    <2>2. CASE OpPanic \/ NativeNil
      BY <1>1, <2>1, <2>2, LoopPanic
    <2>3. CASE Exit \/ ReturnFromMain \/ NextNone \/ NextDeferredNil \/ NativeFails \/ NativeStops
      <3>1. UNCHANGED <<calls, cur, made>> /\ phase' \in Final
        BY <2>3 DEF Exit, ReturnFromMain, NextNone, NextDeferredNil, NativeFails, NativeStops, hist, Final
      <3> QED
        BY <1>1, <2>1, <3>1, LoopSame DEF Open
    <2> QED
      BY <1>6, <2>2, <2>3 DEF Unwinds
  <1>7. CASE RangeEnded \/ UNCHANGED <<vars, rvars>>
    <2>1. UNCHANGED <<calls, cur, made, phase, i, ranges>>
      BY <1>7 DEF RangeEnded, Ended, vars, rvars
    <2>2. ranges' \in Seq(OpenLoop) /\ Open' \subseteq Open
      BY <2>1, LoopFacts DEF Open
    <2> QED
      BY <1>1, <2>1, <2>2, LoopSame
  <1> QED
    BY <1>2, <1>3, <1>4, <1>5, <1>6, <1>7 DEF RangeNext

\* Whatever panics and recovers, in loops, in deferred calls or in native functions, no loop of
\* a function that panicked is ever open again: OpContinue and OpBreak resume none.
THEOREM NeverLoopOfPanicked == RangeSpec => []NoLoopOfPanicked
  <1>1. LoopInv => NoLoopOfPanicked
    <2> SUFFICES ASSUME LoopInv, phase = "run", NEW j \in DOMAIN calls,
                        calls[j].status \in {"panicked", "recovered"}, NEW n \in DOMAIN ranges
                 PROVE  ranges[n].act # calls[j].act
      BY DEF NoLoopOfPanicked
    <2>1. j \in 1..Len(calls) /\ j \in 1..j
      BY LoopFacts, LenProperties
    <2>2. Quiet(calls, Len(calls), Open)
      BY DEF LoopInv, Alive, Final
    <2>3. calls[j].act \notin Open
      BY <2>1, <2>2 DEF Quiet, Gone
    <2> QED
      BY <2>3 DEF Open
  <1> QED
    BY <1>1, LoopInit, LoopStep, PTL DEF RangeSpec

-----------------------------------------------------------------------------
(***************************************************************************)
(* FlattenSeq is a recursive function that is chosen: there is one, and    *)
(* what it has of a sequence does not depend on what comes after it.       *)
(***************************************************************************)
\* The recursive function of FlattenSeq, on the first m sequences.
Flattens(s, m, f) == f = [j \in 1..m |-> IF j = 1 THEN s[j] ELSE f[j - 1] \o s[j]]

LEMMA Flattening ==
    ASSUME NEW X, NEW s \in Seq(Seq(X)), NEW m \in 0..Len(s)
    PROVE  \E f \in [1..m -> Seq(X)] : Flattens(s, m, f)
  <1> DEFINE Has(k) == \E f \in [1..k -> Seq(X)] : Flattens(s, k, f)
             Bad == {k \in 0..Len(s) : ~Has(k)}
  <1>0. Len(s) \in Nat /\ \A j \in 1..Len(s) : s[j] \in Seq(X)
    BY LenProperties, ElementOfSeq
  <1>1. Has(0)
    <2> DEFINE f == [j \in 1..0 |-> IF j = 1 THEN s[j] ELSE <<>>]
    <2>1. f \in [1..0 -> Seq(X)]
      BY <1>0
    <2>2. f = [j \in 1..0 |-> IF j = 1 THEN s[j] ELSE f[j - 1] \o s[j]]
      OBVIOUS
    <2> HIDE DEF f
    <2> QED
      BY <2>1, <2>2 DEF Flattens
  <1>2. ASSUME NEW k \in 0..Len(s), k > 0, Has(k - 1) PROVE Has(k)
    <2>1. PICK f \in [1..k-1 -> Seq(X)] : Flattens(s, k - 1, f)
      BY <1>2
    <2> DEFINE e == IF k = 1 THEN s[k] ELSE f[k - 1] \o s[k]
               g == [j \in 1..k |-> IF j = k THEN e ELSE f[j]]
    <2>2. k \in Nat /\ s[k] \in Seq(X) /\ (k # 1 => k - 1 \in 1..k-1)
      BY <1>0, <1>2
    <2>3. e \in Seq(X)
      <3>1. CASE k = 1
        BY <2>2, <3>1
      <3>2. CASE k # 1
        <4>1. f[k - 1] \in Seq(X)
          BY <2>1, <2>2, <3>2
        <4> QED
          BY <2>2, <3>2, <4>1, ConcatProperties
      <3> QED
        BY <3>1, <3>2
    <2>4. \A j \in 1..k : j = k \/ j \in 1..k-1
      BY <2>2
    <2>5. \A j \in 1..k-1 : f[j] = IF j = 1 THEN s[j] ELSE f[j - 1] \o s[j]
      BY <2>1 DEF Flattens
    <2> HIDE DEF e
    <2>6. g \in [1..k -> Seq(X)]
      BY <2>1, <2>3, <2>4
    <2>7. \A j \in 1..k : g[j] = IF j = 1 THEN s[j] ELSE g[j - 1] \o s[j]
      <3> TAKE j \in 1..k
      <3>1. CASE j = k
        <4>1. k # 1 => g[k - 1] = f[k - 1]
          BY <2>2
        <4> QED
          BY <2>2, <3>1, <4>1 DEF e
      <3>2. CASE j # k
        <4>1. j \in 1..k-1 /\ g[j] = f[j]
          BY <2>4, <3>2
        <4>2. j # 1 => j - 1 \in 1..k /\ j - 1 # k /\ g[j - 1] = f[j - 1]
          BY <2>2, <4>1
        <4> QED
          BY <2>5, <4>1, <4>2
      <3> QED
        BY <3>1, <3>2
    <2>8. g = [j \in 1..k |-> IF j = 1 THEN s[j] ELSE g[j - 1] \o s[j]]
      <3> HIDE DEF g
      <3> QED
        BY <2>6, <2>7
    <2> HIDE DEF g
    <2> QED
      BY <2>6, <2>8 DEF Flattens
  <1>3. Bad = {}
    <2> SUFFICES ASSUME Bad # {} PROVE FALSE
      OBVIOUS
    <2>1. Bad \subseteq Nat
      BY <1>0
    <2>2. IsWellFoundedOn(Less, Nat)
      BY NatLessThanWellFounded DEF Less
    <2> HIDE DEF Bad
    <2>3. PICK k \in Bad : \A y \in Bad : ~(<<y, k>> \in Less)
      BY <2>1, <2>2, WFMin
    <2>4. \A y \in Bad : ~(y < k)
      BY <2>1, <2>3 DEF Less, OpToRel
    <2>5. k \in 0..Len(s) /\ ~Has(k)
      BY DEF Bad
    <2> HIDE DEF Has
    <2>6. k > 0 /\ k - 1 \in 0..Len(s) /\ k - 1 < k
      BY <1>0, <1>1, <2>5
    <2>7. Has(k - 1)
      BY <2>4, <2>6 DEF Bad
    <2> QED
      BY <1>2, <2>5, <2>6, <2>7
  <1> HIDE DEF Has
  <1>4. Has(m)
    BY <1>3
  <1> QED
    BY <1>4 DEF Has

SameUpTo(s, t, m) == \A j \in 1..m : s[j] = t[j]

LEMMA FlattenedAlike ==
    ASSUME NEW s, NEW t, NEW m \in Nat, NEW n \in Nat, m <= n, SameUpTo(s, t, m),
           NEW f, NEW g, Flattens(s, m, f), Flattens(t, n, g)
    PROVE  SameUpTo(f, g, m)
  <1> DEFINE Bad == {j \in 1..m : f[j] # g[j]}
  <1>1. /\ \A j \in 1..m : f[j] = IF j = 1 THEN s[j] ELSE f[j - 1] \o s[j]
        /\ \A j \in 1..n : g[j] = IF j = 1 THEN t[j] ELSE g[j - 1] \o t[j]
    BY DEF Flattens
  <1>2. \A j \in 1..m : j \in 1..n /\ (j # 1 => j - 1 \in 1..m)
    OBVIOUS
  <1>3. ASSUME Bad # {} PROVE FALSE
    <2>1. Bad \subseteq Nat
      OBVIOUS
    <2>2. IsWellFoundedOn(Less, Nat)
      BY NatLessThanWellFounded DEF Less
    <2> HIDE DEF Bad
    <2>3. PICK k \in Bad : \A y \in Bad : ~(<<y, k>> \in Less)
      BY <1>3, <2>1, <2>2, WFMin
    <2>4. \A y \in Bad : ~(y < k)
      BY <2>1, <2>3 DEF Less, OpToRel
    <2>5. k \in 1..m /\ f[k] # g[k]
      BY DEF Bad
    <2>6. k # 1 => f[k - 1] = g[k - 1]
      BY <1>2, <2>4, <2>5 DEF Bad
    <2> QED
      BY <1>1, <1>2, <2>5, <2>6 DEF SameUpTo
  <1> QED
    BY <1>3 DEF SameUpTo

LEMMA FlattenByFunction ==
    ASSUME NEW X, NEW s \in Seq(Seq(X)), Len(s) # 0
    PROVE  \E f \in [1..Len(s) -> Seq(X)] : Flattens(s, Len(s), f) /\ SE!FlattenSeq(s) = f[Len(s)]
  <1> DEFINE g == CHOOSE f : f = [j \in 1..Len(s) |-> IF j = 1 THEN s[j] ELSE f[j - 1] \o s[j]]
  <1>1. SE!FlattenSeq(s) = g[Len(s)]
    BY DEF SE!FlattenSeq
  <1>2. Len(s) \in Nat /\ Len(s) \in 0..Len(s)
    BY LenProperties
  <1>3. PICK f \in [1..Len(s) -> Seq(X)] : Flattens(s, Len(s), f)
    BY <1>2, Flattening
  <1>4. Flattens(s, Len(s), g)
    BY <1>3 DEF Flattens
  <1> HIDE DEF g
  <1>5. \A j \in 1..Len(s) : f[j] = g[j]
    <2>1. Len(s) <= Len(s) /\ SameUpTo(s, s, Len(s))
      BY <1>2 DEF SameUpTo
    <2>2. SameUpTo(f, g, Len(s))
      BY <1>2, <1>3, <1>4, <2>1, FlattenedAlike
    <2> QED
      BY <2>2 DEF SameUpTo
  <1>6. Len(s) \in 1..Len(s)
    BY <1>2
  <1> QED
    BY <1>1, <1>3, <1>5, <1>6

LEMMA FlatEmpty == SE!FlattenSeq(<<>>) = <<>>
  BY DEF SE!FlattenSeq

LEMMA FlatType ==
    ASSUME NEW X, NEW s \in Seq(Seq(X))
    PROVE  SE!FlattenSeq(s) \in Seq(X)
  <1>1. CASE Len(s) = 0
    BY <1>1, EmptySeq, FlatEmpty
  <1>2. CASE Len(s) # 0
    <2>1. PICK f \in [1..Len(s) -> Seq(X)] : SE!FlattenSeq(s) = f[Len(s)]
      BY <1>2, FlattenByFunction
    <2>2. Len(s) \in 1..Len(s)
      BY <1>2, LenProperties
    <2> QED
      BY <2>1, <2>2
  <1> QED
    BY <1>1, <1>2

LEMMA FlatAppend ==
    ASSUME NEW X, NEW s \in Seq(Seq(X)), NEW e \in Seq(X)
    PROVE  SE!FlattenSeq(Append(s, e)) = SE!FlattenSeq(s) \o e
  <1> DEFINE t == Append(s, e)
  <1>1. /\ t \in Seq(Seq(X)) /\ Len(t) = Len(s) + 1 /\ Len(s) \in Nat
        /\ t[Len(s) + 1] = e /\ \A j \in 1..Len(s) : s[j] = t[j]
    BY AppendProperties, LenProperties
  <1> HIDE DEF t
  <1>2. PICK g \in [1..Len(t) -> Seq(X)] : Flattens(t, Len(t), g) /\ SE!FlattenSeq(t) = g[Len(t)]
    <2>1. Len(t) # 0
      BY <1>1
    <2> QED
      BY <1>1, <2>1, FlattenByFunction
  <1>3. g[Len(t)] = IF Len(t) = 1 THEN e ELSE g[Len(s)] \o e
    <2>1. Len(t) \in 1..Len(t) /\ Len(t) - 1 = Len(s)
      BY <1>1
    <2> QED
      BY <1>1, <1>2, <2>1 DEF Flattens
  <1>4. CASE Len(s) = 0
    <2>1. s = <<>>
      BY <1>4, EmptySeq
    <2>2. <<>> \o e = e
      BY ConcatEmptySeq
    <2> QED
      BY <1>1, <1>2, <1>3, <1>4, <2>1, <2>2, FlatEmpty DEF t
  <1>5. CASE Len(s) # 0
    <2>1. PICK f \in [1..Len(s) -> Seq(X)] : Flattens(s, Len(s), f) /\ SE!FlattenSeq(s) = f[Len(s)]
      BY <1>5, FlattenByFunction
    <2>2. \A j \in 1..Len(s) : f[j] = g[j]
      <3> DEFINE m == Len(s)
                 n == Len(t)
      <3>1. /\ m \in Nat /\ n \in Nat /\ m <= n /\ SameUpTo(s, t, m)
            /\ Flattens(s, m, f) /\ Flattens(t, n, g)
        BY <1>1, <1>2, <2>1 DEF SameUpTo
      <3> HIDE DEF m, n
      <3>2. SameUpTo(f, g, m)
        BY <3>1, FlattenedAlike
      <3> QED
        BY <3>2 DEF m, SameUpTo
    <2>3. Len(s) \in 1..Len(s) /\ Len(t) # 1
      BY <1>1, <1>5
    <2> QED
      BY <1>2, <1>3, <2>1, <2>2, <2>3 DEF t
  <1> QED
    BY <1>4, <1>5

-----------------------------------------------------------------------------
(***************************************************************************)
(* Of a Go stack, the loops of some activations.                           *)
(***************************************************************************)
Chosen(rs, S) == [n \in DOMAIN rs |-> IF rs[n].act \in S THEN <<rs[n]>> ELSE <<>>]
Of(rs, S) == SE!FlattenSeq(Chosen(rs, S))

NoneAfter(rs, m, S) == \A n \in m+1..Len(rs) : rs[n].act \notin S

LEMMA ChosenIsSeq ==
    ASSUME NEW rs \in Seq(OpenLoop), NEW S
    PROVE  /\ Chosen(rs, S) \in Seq(Seq(OpenLoop)) /\ Len(Chosen(rs, S)) = Len(rs)
           /\ \A n \in 1..Len(rs) : Chosen(rs, S)[n] = IF rs[n].act \in S THEN <<rs[n]>> ELSE <<>>
           /\ Of(rs, S) \in Seq(OpenLoop)
  <1>1. Len(rs) \in Nat /\ DOMAIN rs = 1..Len(rs) /\ \A n \in 1..Len(rs) : rs[n] \in OpenLoop
    BY LenProperties, ElementOfSeq
  <1> DEFINE e(n) == IF rs[n].act \in S THEN <<rs[n]>> ELSE <<>>
             t == [n \in 1..Len(rs) |-> e(n)]
  <1>2. \A n \in 1..Len(rs) : e(n) \in Seq(OpenLoop)
    BY <1>1
  <1>3. Chosen(rs, S) = t
    BY <1>1 DEF Chosen
  <1> HIDE DEF e
  <1>4. t \in Seq(Seq(OpenLoop)) /\ Len(t) = Len(rs) /\ \A n \in 1..Len(rs) : t[n] = e(n)
    BY <1>1, <1>2, FunctionIsSeq
  <1> HIDE DEF t
  <1>5. SE!FlattenSeq(t) \in Seq(OpenLoop)
    BY <1>4, FlatType
  <1> QED
    BY <1>3, <1>4, <1>5 DEF e, Of

LEMMA OfAppend ==
    ASSUME NEW rs \in Seq(OpenLoop), NEW x \in OpenLoop, NEW S
    PROVE  Of(Append(rs, x), S) = IF x.act \in S THEN Of(rs, S) \o <<x>> ELSE Of(rs, S)
  <1> DEFINE e == IF x.act \in S THEN <<x>> ELSE <<>>
             qs == Append(rs, x)
  <1>1. qs \in Seq(OpenLoop) /\ Len(qs) = Len(rs) + 1 /\ Len(rs) \in Nat
        /\ qs[Len(rs) + 1] = x /\ \A n \in 1..Len(rs) : qs[n] = rs[n]
    BY AppendProperties, LenProperties
  <1>2. e \in Seq(OpenLoop)
    OBVIOUS
  <1> HIDE DEF qs
  <1> DEFINE c == Chosen(rs, S)
             d == Chosen(qs, S)
  <1>3. /\ c \in Seq(Seq(OpenLoop)) /\ Len(c) = Len(rs)
        /\ \A n \in 1..Len(rs) : c[n] = IF rs[n].act \in S THEN <<rs[n]>> ELSE <<>>
        /\ SE!FlattenSeq(c) \in Seq(OpenLoop)
    BY ChosenIsSeq DEF Of
  <1>4. /\ d \in Seq(Seq(OpenLoop)) /\ Len(d) = Len(qs)
        /\ \A n \in 1..Len(qs) : d[n] = IF qs[n].act \in S THEN <<qs[n]>> ELSE <<>>
    BY <1>1, ChosenIsSeq
  <1> HIDE DEF c, d
  <1>5. d[Len(rs) + 1] = e /\ \A n \in 1..Len(rs) : d[n] = c[n]
    <2>1. Len(rs) + 1 \in 1..Len(qs) /\ \A n \in 1..Len(rs) : n \in 1..Len(qs)
      BY <1>1
    <2> QED
      BY <1>1, <1>3, <1>4, <2>1
  <1> HIDE DEF e
  <1>6. /\ Append(c, e) \in Seq(Seq(OpenLoop)) /\ Len(Append(c, e)) = Len(rs) + 1
        /\ Append(c, e)[Len(rs) + 1] = e /\ \A n \in 1..Len(rs) : Append(c, e)[n] = c[n]
    BY <1>2, <1>3, AppendProperties
  <1>7. d = Append(c, e)
    <2>1. \A n \in 1..Len(d) : d[n] = Append(c, e)[n]
      BY <1>1, <1>4, <1>5, <1>6
    <2> QED
      BY <1>1, <1>4, <1>6, <2>1, SeqEqual
  <1>8. SE!FlattenSeq(d) = SE!FlattenSeq(c) \o e
    BY <1>2, <1>3, <1>7, FlatAppend
  <1>9. SE!FlattenSeq(c) \o <<>> = SE!FlattenSeq(c)
    BY <1>3, ConcatEmptySeq
  <1> QED
    BY <1>8, <1>9 DEF c, d, e, qs, Of

LEMMA OfSkips ==
    ASSUME NEW rs \in Seq(OpenLoop), NEW x \in OpenLoop, NEW S, x.act \notin S
    PROVE  Of(Append(rs, x), S) = Of(rs, S)
  BY OfAppend

LEMMA OfNothing == \A S : Of(<<>>, S) = <<>>
  <1> TAKE S
  <1>1. Chosen(<<>>, S) = <<>>
    BY DEF Chosen
  <1> QED
    BY <1>1, FlatEmpty DEF Of

LEMMA OfAlike ==
    ASSUME NEW rs \in Seq(OpenLoop), NEW S, NEW T, \A n \in 1..Len(rs) : rs[n].act \in S <=> rs[n].act \in T
    PROVE  Of(rs, S) = Of(rs, T)
  <1>1. DOMAIN rs = 1..Len(rs)
    BY LenProperties
  <1>2. Chosen(rs, S) = Chosen(rs, T)
    BY <1>1 DEF Chosen
  <1> QED
    BY <1>2 DEF Of

LEMMA OfPrefix ==
    ASSUME NEW rs \in Seq(OpenLoop), NEW m \in 0..Len(rs), NEW S, NoneAfter(rs, m, S)
    PROVE  Of(SubSeq(rs, 1, m), S) = Of(rs, S)
  <1> DEFINE p(k) == SubSeq(rs, 1, k)
             Bad == {k \in m..Len(rs) : Of(p(k), S) # Of(p(m), S)}
  <1>0. Len(rs) \in Nat /\ m \in Nat /\ \A n \in 1..Len(rs) : rs[n] \in OpenLoop
    BY LenProperties, ElementOfSeq
  <1>1. \A k \in 0..Len(rs) : p(k) \in Seq(OpenLoop)
    <2> TAKE k \in 0..Len(rs)
    <2>1. k + 1 \in 1..Len(rs) + 1 /\ (k + 1) - 1 = k
      BY <1>0
    <2> QED
      BY <2>1, PrefixOfSeq
  <1>2. ASSUME NEW k \in m+1..Len(rs) PROVE Of(p(k), S) = Of(p(k - 1), S)
    <2>1. 1 \in 1..Len(rs) /\ k \in 1..Len(rs) /\ k - 1 \in 0..Len(rs)
      BY <1>0
    <2>2. p(k) = Append(p(k - 1), rs[k])
      BY <2>1, SubSeqRecursiveSecond
    <2>3. rs[k].act \notin S
      BY DEF NoneAfter
    <2>4. p(k - 1) \in Seq(OpenLoop) /\ rs[k] \in OpenLoop
      BY <1>0, <1>1, <2>1
    <2> DEFINE a == p(k - 1)
               x == rs[k]
    <2>5. a \in Seq(OpenLoop) /\ x \in OpenLoop /\ x.act \notin S
      BY <2>3, <2>4
    <2> HIDE DEF a, x
    <2>6. Of(Append(a, x), S) = Of(a, S)
      BY <2>5, OfSkips
    <2> QED
      BY <2>2, <2>6 DEF a, x
  <1>3. ASSUME Bad # {} PROVE FALSE
    <2>1. Bad \subseteq Nat
      BY <1>0
    <2>2. IsWellFoundedOn(Less, Nat)
      BY NatLessThanWellFounded DEF Less
    <2> HIDE DEF Bad, p
    <2>3. PICK k \in Bad : \A y \in Bad : ~(<<y, k>> \in Less)
      BY <1>3, <2>1, <2>2, WFMin
    <2>4. \A y \in Bad : ~(y < k)
      BY <2>1, <2>3 DEF Less, OpToRel
    <2>5. k \in m..Len(rs) /\ Of(p(k), S) # Of(p(m), S)
      BY DEF Bad
    <2>6. k \in m+1..Len(rs) /\ k - 1 \in m..Len(rs) /\ k - 1 < k
      BY <1>0, <2>5
    <2>7. Of(p(k - 1), S) = Of(p(m), S)
      BY <2>4, <2>6 DEF Bad
    <2> QED
      BY <1>2, <2>5, <2>6, <2>7
  <1>4. Of(p(Len(rs)), S) = Of(p(m), S)
    <2>1. Len(rs) \in m..Len(rs)
      BY <1>0
    <2> QED
      BY <1>3, <2>1
  <1>5. p(Len(rs)) = rs
    BY SubSeqFull
  <1> QED
    BY <1>4, <1>5

LEMMA OfLast ==
    ASSUME NEW rs \in Seq(OpenLoop), NEW m \in 1..Len(rs), NEW S, NoneAfter(rs, m, S), rs[m].act \in S
    PROVE  Of(rs, S) = Append(Of(SubSeq(rs, 1, m - 1), S), rs[m])
  <1> DEFINE q == SubSeq(rs, 1, m - 1)
  <1>1. Len(rs) \in Nat /\ m \in Nat /\ m \in 0..Len(rs) /\ m \in 1..Len(rs) + 1 /\ rs[m] \in OpenLoop /\ 1 \in 1..Len(rs)
    BY LenProperties, ElementOfSeq
  <1>2. q \in Seq(OpenLoop)
    BY <1>1, PrefixOfSeq
  <1>3. SubSeq(rs, 1, m) = Append(q, rs[m])
    BY <1>1, SubSeqRecursiveSecond
  <1>4. Of(SubSeq(rs, 1, m), S) = Of(rs, S)
    BY <1>1, OfPrefix
  <1> HIDE DEF q
  <1>5. Of(Append(q, rs[m]), S) = Of(q, S) \o <<rs[m]>>
    BY <1>1, <1>2, OfAppend
  <1>6. Of(q, S) \in Seq(OpenLoop)
    BY <1>2, ChosenIsSeq
  <1>7. Of(q, S) \o <<rs[m]>> = Append(Of(q, S), rs[m])
    BY <1>1, <1>6, AppendIsConcat
  <1> QED
    BY <1>3, <1>4, <1>5, <1>7 DEF q
-----------------------------------------------------------------------------
(***************************************************************************)
(* The inductive invariant.  While nothing has panicked and no address was *)
(* that of two functions, what the Go stack has of the first k functions   *)
(* that wait are their loops, for every k, also while nextCall goes down   *)
(* the frames, so that a function that goes on finds the Go stack as it    *)
(* left it.  The calls that are deferred have opened none.                 *)
(***************************************************************************)
LoopsIn(L, act) == [n \in DOMAIN L[act] |-> RangeOf(L[act][n], act)]
Begun(cs, n) == {cs[j].act : j \in {k \in 1..n : cs[k].status = "started"}}
Piece(L, f) == IF f.status = "started" THEN LoopsIn(L, f.act) ELSE <<>>
OpenTo(L, cs, n) == SE!FlattenSeq([j \in 1..n |-> Piece(L, cs[j])])
Acts(R) == {R[n].act : n \in DOMAIN R}

Agree(R, L, cs, n) == \A k \in 0..n : Of(R, Begun(cs, k)) = OpenTo(L, cs, k)
Unbegun(R, L, cs, n) ==
    \A j \in 1..n : cs[j].status = "deferred" => L[cs[j].act] = <<>> /\ cs[j].act \notin Acts(R)
Running(R, L, cs, n, act) == Of(R, Begun(cs, n) \cup {act}) = OpenTo(L, cs, n) \o LoopsIn(L, act)
Calm(cs) == \A j \in 1..Len(cs) : cs[j].status # "panicked"

LoopLists == [1..MaxActs -> Seq(Addrs)]

Agreed ==
    /\ Calm(calls) /\ Unbegun(ranges, loops, calls, Alive) /\ Agree(ranges, loops, calls, Alive)
    /\ phase \in {"run", "return"} => Running(ranges, loops, calls, Alive, cur.act)

KeptInv ==
    /\ LoopInv
    /\ made \in 1..MaxActs /\ loops \in LoopLists
    /\ \A a \in made+1..MaxActs : loops[a] = <<>>
    /\ Acts(ranges) \subseteq 1..made
    /\ (thrown = 0 /\ ~clash /\ phase \notin Final) => Agreed

LEMMA LoopsInType ==
    ASSUME NEW L \in LoopLists, NEW act \in 1..MaxActs
    PROVE  /\ LoopsIn(L, act) \in Seq(OpenLoop) /\ Len(LoopsIn(L, act)) = Len(L[act])
           /\ \A n \in 1..Len(L[act]) : LoopsIn(L, act)[n] = RangeOf(L[act][n], act)
           /\ L[act] = <<>> => LoopsIn(L, act) = <<>>
  <1> DEFINE s == L[act]
             e(n) == RangeOf(s[n], act)
             t == [n \in 1..Len(s) |-> e(n)]
  <1>1. s \in Seq(Addrs) /\ act \in Nat
    BY BoundsAssumption DEF LoopLists
  <1> HIDE DEF s
  <1>2. Len(s) \in Nat /\ DOMAIN s = 1..Len(s) /\ \A n \in 1..Len(s) : s[n] \in Addrs
    BY <1>1, LenProperties, ElementOfSeq
  <1>3. \A n \in 1..Len(s) : e(n) \in OpenLoop
    BY <1>1, <1>2 DEF RangeOf, OpenLoop
  <1>4. LoopsIn(L, act) = t
    BY <1>2 DEF LoopsIn, s
  <1> HIDE DEF e
  <1>5. t \in Seq(OpenLoop) /\ Len(t) = Len(s) /\ \A n \in 1..Len(s) : t[n] = e(n)
    BY <1>2, <1>3, FunctionIsSeq
  <1>6. s = <<>> => t = <<>>
    BY <1>2
  <1> QED
    BY <1>4, <1>5, <1>6 DEF e, s

LEMMA PieceType ==
    ASSUME NEW L \in LoopLists, NEW f, f.act \in 1..MaxActs
    PROVE  Piece(L, f) \in Seq(OpenLoop)
  <1>1. LoopsIn(L, f.act) \in Seq(OpenLoop)
    BY LoopsInType
  <1> QED
    BY <1>1 DEF Piece

ActsTo(cs, n) == \A j \in 1..n : cs[j].act \in 1..MaxActs

LEMMA OpenToSteps ==
    ASSUME NEW L \in LoopLists, NEW cs, NEW n \in Nat, ActsTo(cs, n)
    PROVE  /\ OpenTo(L, cs, n) \in Seq(OpenLoop)
           /\ n > 0 => OpenTo(L, cs, n) = OpenTo(L, cs, n - 1) \o Piece(L, cs[n])
  <1> DEFINE e(j) == Piece(L, cs[j])
             s(m) == [j \in 1..m |-> e(j)]
  <1>1. \A j \in 1..n : e(j) \in Seq(OpenLoop)
    BY PieceType DEF ActsTo
  <1>2. \A m \in 0..n : OpenTo(L, cs, m) = SE!FlattenSeq(s(m))
    BY DEF OpenTo
  <1> HIDE DEF e
  <1>3. ASSUME NEW m \in 0..n
        PROVE  s(m) \in Seq(Seq(OpenLoop)) /\ Len(s(m)) = m /\ \A j \in 1..m : s(m)[j] = e(j)
    <2>1. m \in Nat /\ \A j \in 1..m : e(j) \in Seq(OpenLoop)
      BY <1>1
    <2> QED
      BY <2>1, FunctionIsSeq
  <1>4. OpenTo(L, cs, n) \in Seq(OpenLoop)
    <2>1. n \in 0..n
      OBVIOUS
    <2>2. s(n) \in Seq(Seq(OpenLoop))
      BY <1>3, <2>1
    <2> HIDE DEF s
    <2>3. SE!FlattenSeq(s(n)) \in Seq(OpenLoop)
      BY <2>2, FlatType
    <2> QED
      BY <1>2, <2>1, <2>3
  <1>5. CASE n > 0
    <2> DEFINE a == s(n - 1)
               b == s(n)
               x == e(n)
    <2>1. n - 1 \in 0..n /\ n \in 0..n /\ n \in 1..n /\ n - 1 \in Nat
      BY <1>5
    <2>2. /\ a \in Seq(Seq(OpenLoop)) /\ Len(a) = n - 1 /\ \A j \in 1..n-1 : a[j] = e(j)
          /\ b \in Seq(Seq(OpenLoop)) /\ Len(b) = n /\ \A j \in 1..n : b[j] = e(j)
          /\ x \in Seq(OpenLoop)
      BY <1>1, <1>3, <2>1
    <2>3. OpenTo(L, cs, n) = SE!FlattenSeq(b) /\ OpenTo(L, cs, n - 1) = SE!FlattenSeq(a)
      BY <1>2, <2>1
    <2> HIDE DEF a, b, s
    <2>4. Append(a, x) \in Seq(Seq(OpenLoop)) /\ Len(Append(a, x)) = n
          /\ \A j \in 1..n : Append(a, x)[j] = e(j)
      <3> HIDE DEF x
      <3>1. /\ Append(a, x) \in Seq(Seq(OpenLoop)) /\ Len(Append(a, x)) = Len(a) + 1
            /\ Append(a, x)[Len(a) + 1] = x /\ \A j \in 1..Len(a) : Append(a, x)[j] = a[j]
        BY <2>2, AppendProperties
      <3>2. \A j \in 1..n : j = n \/ j \in 1..n-1
        OBVIOUS
      <3> QED
        BY <2>1, <2>2, <3>1, <3>2 DEF x
    <2> HIDE DEF x
    <2>5. b = Append(a, x)
      <3>1. \A j \in 1..Len(b) : b[j] = Append(a, x)[j]
        BY <2>2, <2>4
      <3> QED
        BY <2>2, <2>4, <3>1, SeqEqual
    <2>6. SE!FlattenSeq(Append(a, x)) = SE!FlattenSeq(a) \o x
      BY <2>2, FlatAppend
    <2> QED
      BY <1>4, <2>3, <2>5, <2>6 DEF x, e
  <1> QED
    BY <1>4, <1>5

LEMMA BegunSteps ==
    ASSUME NEW cs, NEW n \in Nat, n > 0
    PROVE  /\ Begun(cs, n) = Begun(cs, n - 1) \cup (IF cs[n].status = "started" THEN {cs[n].act} ELSE {})
  <1>1. \A j \in 1..n : j = n \/ j \in 1..n-1
    OBVIOUS
  <1>2. n \in 1..n /\ \A j \in 1..n-1 : j \in 1..n
    OBVIOUS
  <1> QED
    BY <1>1, <1>2 DEF Begun

\* Frames with the same functions that wait.
SameBegun(cs, ds, n) ==
    \A j \in 1..n : (cs[j].status = "started" \/ ds[j].status = "started") =>
                        cs[j].status = ds[j].status /\ cs[j].act = ds[j].act

LEMMA SameAgree ==
    ASSUME NEW R, NEW L, NEW cs, NEW ds, NEW n \in Nat, SameBegun(cs, ds, n)
    PROVE  /\ \A k \in 0..n : Begun(ds, k) = Begun(cs, k) /\ OpenTo(L, ds, k) = OpenTo(L, cs, k)
           /\ Agree(R, L, cs, n) => Agree(R, L, ds, n)
           /\ \A act : Running(R, L, cs, n, act) => Running(R, L, ds, n, act)
  <1>1. ASSUME NEW k \in 0..n PROVE Begun(ds, k) = Begun(cs, k) /\ OpenTo(L, ds, k) = OpenTo(L, cs, k)
    <2>1. \A j \in 1..k : j \in 1..n
      OBVIOUS
    <2>2. Begun(ds, k) = Begun(cs, k)
      BY <2>1 DEF Begun, SameBegun
    <2>3. [j \in 1..k |-> Piece(L, ds[j])] = [j \in 1..k |-> Piece(L, cs[j])]
      BY <2>1 DEF Piece, SameBegun
    <2> QED
      BY <2>2, <2>3 DEF OpenTo
  <1>2. n \in 0..n
    OBVIOUS
  <1> QED
    BY <1>1, <1>2 DEF Agree, Running

\* A function that has opened no loop starts.
LEMMA StartsRunning ==
    ASSUME NEW R \in Seq(OpenLoop), NEW L \in LoopLists, NEW cs, NEW n \in Nat, ActsTo(cs, n), Agree(R, L, cs, n),
           NEW act \in 1..MaxActs, L[act] = <<>>, act \notin Acts(R)
    PROVE  Running(R, L, cs, n, act)
  <1>1. DOMAIN R = 1..Len(R) /\ \A m \in 1..Len(R) : R[m].act # act
    BY LenProperties DEF Acts
  <1>2. Of(R, Begun(cs, n) \cup {act}) = Of(R, Begun(cs, n))
    BY <1>1, OfAlike
  <1>3. OpenTo(L, cs, n) \in Seq(OpenLoop)
    BY OpenToSteps
  <1>4. OpenTo(L, cs, n) \o <<>> = OpenTo(L, cs, n) /\ LoopsIn(L, act) = <<>>
    BY <1>3, ConcatEmptySeq, LoopsInType
  <1>5. Of(R, Begun(cs, n)) = OpenTo(L, cs, n)
    BY DEF Agree
  <1> QED
    BY <1>2, <1>4, <1>5 DEF Running

\* The last function that waits goes on.
LEMMA ResumesRunning ==
    ASSUME NEW R \in Seq(OpenLoop), NEW L \in LoopLists, NEW cs, NEW n \in Nat, n > 0, ActsTo(cs, n), Agree(R, L, cs, n),
           cs[n].status = "started"
    PROVE  Running(R, L, cs, n - 1, cs[n].act)
  <1>1. Of(R, Begun(cs, n)) = OpenTo(L, cs, n)
    BY DEF Agree
  <1>2. OpenTo(L, cs, n) = OpenTo(L, cs, n - 1) \o LoopsIn(L, cs[n].act)
    BY OpenToSteps DEF Piece
  <1>3. Begun(cs, n) = Begun(cs, n - 1) \cup {cs[n].act}
    BY BegunSteps
  <1> QED
    BY <1>1, <1>2, <1>3 DEF Running

LEMMA KeptFacts ==
    ASSUME KeptInv
    PROVE  /\ LoopInv /\ calls \in Seq(Frame) /\ Len(calls) \in Nat
           /\ \A j \in 1..Len(calls) : calls[j] \in Frame /\ calls[j].act \in 1..made
           /\ cur \in Fn /\ rend \in Nat /\ made \in 1..MaxActs /\ MaxActs \in Nat /\ i \in Nat
           /\ ranges \in Seq(OpenLoop) /\ Len(ranges) \in Nat /\ loops \in LoopLists
           /\ DOMAIN calls = 1..Len(calls) /\ DOMAIN ranges = 1..Len(ranges)
           /\ ActsTo(calls, Len(calls))
  <1>1. /\ LoopInv /\ made \in 1..MaxActs /\ loops \in LoopLists /\ MaxActs \in Nat
    BY BoundsAssumption DEF KeptInv
  <1>2. \A j \in 1..Len(calls) : calls[j].act \in 1..made
    BY <1>1, LoopFacts
  <1>3. ActsTo(calls, Len(calls))
    BY <1>1, <1>2 DEF ActsTo
  <1> QED
    BY <1>1, <1>3, LoopFacts, LenProperties

LEMMA KeptInit == RangeInit => KeptInv
  <1> SUFFICES ASSUME RangeInit PROVE KeptInv
    OBVIOUS
  <1>1. /\ calls = <<>> /\ phase = "run" /\ ranges = <<>> /\ cur = [act |-> 1, kind |-> "func"] /\ made = 1
        /\ loops = [a \in 1..MaxActs |-> <<>>]
    BY DEF RangeInit, Init
  <1>2. LoopInv
    BY LoopInit
  <1>3. MaxActs \in Nat /\ MaxActs > 0 /\ made \in 1..MaxActs
    BY <1>1, BoundsAssumption
  <1>4. loops \in LoopLists /\ (\A a \in made+1..MaxActs : loops[a] = <<>>) /\ loops[1] = <<>>
    BY <1>1, <1>3 DEF LoopLists
  <1>5. Acts(ranges) = {} /\ ranges \in Seq(OpenLoop)
    BY <1>1 DEF Acts
  <1>6. Len(calls) = 0 /\ Alive = 0
    BY <1>1 DEF Alive
  <1>7. Calm(calls) /\ Unbegun(ranges, loops, calls, 0) /\ ActsTo(calls, 0)
    BY <1>6 DEF Calm, Unbegun, ActsTo
  <1>8. Agree(ranges, loops, calls, 0)
    <2>1. OpenTo(loops, calls, 0) = <<>>
      <3>1. [j \in 1..0 |-> Piece(loops, calls[j])] = <<>>
        OBVIOUS
      <3> QED
        BY <3>1, FlatEmpty DEF OpenTo
    <2>2. Of(ranges, Begun(calls, 0)) = <<>>
      BY <1>1, OfNothing
    <2>3. \A k \in 0..0 : k = 0
      OBVIOUS
    <2> QED
      BY <2>1, <2>2, <2>3 DEF Agree
  <1>9. Running(ranges, loops, calls, 0, 1)
    <2>1. 1 \in 1..MaxActs /\ 1 \notin Acts(ranges) /\ 0 \in Nat
      BY <1>3, <1>5
    <2> QED
      BY <1>4, <1>5, <1>7, <1>8, <2>1, StartsRunning
  <1> QED
    BY <1>1, <1>2, <1>3, <1>4, <1>5, <1>6, <1>7, <1>8, <1>9 DEF KeptInv, Agreed

\* ContinueWith, with the frames cs: call goes on, above the first k - 1.
LEMMA AgreedContinue ==
    ASSUME NEW R, NEW L, NEW call \in Frame, NEW cs \in Seq(Frame), NEW k \in 1..Len(cs) + 1, call.act # 0,
           ContinueWith(call, k, cs), Calm(cs), Unbegun(R, L, cs, k - 1), Agree(R, L, cs, k - 1),
           call.kind # "native" => Running(R, L, cs, k - 1, call.act)
    PROVE  /\ Calm(calls') /\ Unbegun(R, L, calls', Alive') /\ Agree(R, L, calls', Alive')
           /\ phase' \in {"run", "return"} => Running(R, L, calls', Alive', cur'.act)
  <1>1. Len(cs) \in Nat /\ k - 1 \in Nat
    BY LenProperties
  <1>2. CASE call.kind = "native"
    <2>1. calls' = cs /\ i' = k /\ phase' = "native"
      BY <1>2 DEF ContinueWith
    <2>2. Alive' = k - 1
      BY <2>1 DEF Alive
    <2> QED
      BY <2>1, <2>2
  <1>3. CASE call.kind # "native"
    <2>1. calls' = SubSeq(cs, 1, k - 1) /\ cur' = FunctionOf(call) /\ phase' = "run"
      BY <1>3 DEF ContinueWith
    <2>2. Len(calls') = k - 1 /\ \A j \in 1..k-1 : calls'[j] = cs[j] /\ j \in 1..Len(cs)
      BY <1>1, <2>1, PrefixOfSeq
    <2>3. Alive' = k - 1 /\ cur'.act = call.act
      BY <2>1, <2>2 DEF Alive, FunctionOf
    <2>4. SameBegun(cs, calls', k - 1)
      BY <2>2 DEF SameBegun
    <2>5. Calm(calls') /\ Unbegun(R, L, calls', k - 1)
      BY <2>2 DEF Calm, Unbegun
    <2>6. Agree(R, L, calls', k - 1) /\ Running(R, L, calls', k - 1, call.act)
      BY <1>1, <1>3, <2>4, SameAgree
    <2> QED
      BY <2>3, <2>5, <2>6
  <1> QED
    BY <1>2, <1>3

LEMMA AgreedPush ==
    ASSUME KeptInv, Agreed, UNCHANGED <<ranges, loops>>, OpCallFunc \/ OpCallMacro \/ Defers
    PROVE  Agreed'
  <1> DEFINE n == Len(calls)
             R == ranges
             L == loops
  <1>1. /\ phase = "run" /\ phase' = "run" /\ made' = made + 1 /\ made < MaxActs
        /\ calls \in Seq(Frame) /\ n \in Nat /\ cur \in Fn /\ rend \in Nat /\ made \in Nat
        /\ \A j \in 1..n : calls[j].act \in 1..made
        /\ cur.act \in 1..made /\ MaxActs \in Nat
    <2>1. /\ calls \in Seq(Frame) /\ n \in Nat /\ cur \in Fn /\ rend \in Nat /\ made \in 1..MaxActs /\ MaxActs \in Nat
          /\ \A j \in 1..n : calls[j].act \in 1..made
      BY KeptFacts
    <2>2. phase = "run" /\ phase' = "run" /\ made' = made + 1 /\ made < MaxActs
      BY DEF OpCallFunc, OpCallMacro, Defers, OpDefer, Enter, Executes, MayMake
    <2>3. cur.act \in 1..made
      BY <2>2, KeptFacts DEF LoopInv
    <2> QED
      BY <2>1, <2>2, <2>3
  <1>2. /\ Calm(calls) /\ Unbegun(R, L, calls, n) /\ Agree(R, L, calls, n) /\ Running(R, L, calls, n, cur.act)
        /\ ActsTo(calls, n) /\ R \in Seq(OpenLoop) /\ L \in LoopLists
    BY <1>1, KeptFacts DEF Agreed, Alive
  <1>3. /\ made' \in 1..MaxActs /\ L[made'] = <<>> /\ made' \notin Acts(R)
    BY <1>1, KeptFacts DEF KeptInv
  <1>4. PICK f \in Frame :
           /\ calls' = Append(calls, f)
           /\ \/ f.status = "started" /\ f.act = cur.act /\ cur'.act = made'
              \/ f.status = "deferred" /\ f.act = made' /\ cur' = cur
    <2>1. CASE OpCallFunc \/ OpCallMacro
      <3>1. PICK saved \in Nat :
               calls' = Append(calls, FrameOf(cur, "started", saved)) /\ cur'.act = made'
        BY <1>1, <2>1 DEF OpCallFunc, OpCallMacro, Enter
      <3>2. /\ FrameOf(cur, "started", saved) \in Frame /\ FrameOf(cur, "started", saved).status = "started"
            /\ FrameOf(cur, "started", saved).act = cur.act
        BY <1>1, FrameOfType DEF Statuses, FrameOf
      <3> QED
        BY <3>1, <3>2
    <2>2. CASE Defers
      <3> DEFINE new(kind) == [act |-> made', kind |-> kind]
      <3>1. PICK kind \in {"func", "native", "recover"} :
               calls' = Append(calls, FrameOf(new(kind), "deferred", rend)) /\ cur' = cur
        BY <2>2 DEF Defers, OpDefer
      <3>2. new(kind) \in Fn
        BY <1>1 DEF Fn, Kinds
      <3>3. /\ FrameOf(new(kind), "deferred", rend) \in Frame
            /\ FrameOf(new(kind), "deferred", rend).status = "deferred"
            /\ FrameOf(new(kind), "deferred", rend).act = made'
        BY <1>1, <3>2, FrameOfType DEF Statuses, FrameOf
      <3> QED
        BY <3>1, <3>3
    <2> QED
      BY <2>1, <2>2
  <1>5. /\ Len(calls') = n + 1 /\ calls'[n + 1] = f /\ \A j \in 1..n : calls'[j] = calls[j]
    BY <1>1, <1>4, AppendProperties
  <1>6. Alive' = n + 1
    BY <1>1, <1>5 DEF Alive
  <1> HIDE DEF n, R, L
  <1>7. \A j \in 1..n+1 : j = n + 1 \/ j \in 1..n
    BY <1>1
  <1>8. Calm(calls') /\ Unbegun(R, L, calls', n + 1) /\ ActsTo(calls', n + 1)
    <2>1. Calm(calls')
      BY <1>2, <1>4, <1>5, <1>7 DEF Calm, n
    <2>2. Unbegun(R, L, calls', n + 1)
      BY <1>2, <1>3, <1>4, <1>5, <1>7 DEF Unbegun
    <2>3. f.act \in 1..MaxActs
      BY <1>1, <1>3, <1>4
    <2> QED
      BY <1>2, <1>5, <1>7, <2>1, <2>2, <2>3 DEF ActsTo
  <1>9. SameBegun(calls, calls', n)
    BY <1>5 DEF SameBegun
  <1>10. /\ \A k \in 0..n : Begun(calls', k) = Begun(calls, k) /\ OpenTo(L, calls', k) = OpenTo(L, calls, k)
         /\ Agree(R, L, calls', n) /\ \A act : Running(R, L, calls, n, act) => Running(R, L, calls', n, act)
    BY <1>1, <1>2, <1>9, SameAgree
  <1>11. /\ n + 1 \in Nat /\ n + 1 > 0 /\ (n + 1) - 1 = n /\ n \in 0..n
         /\ \A k \in 0..n+1 : k = n + 1 \/ k \in 0..n
    BY <1>1
  <1>12. /\ OpenTo(L, calls', n + 1) = OpenTo(L, calls', n) \o Piece(L, f)
         /\ Begun(calls', n + 1) = Begun(calls', n) \cup (IF f.status = "started" THEN {f.act} ELSE {})
         /\ OpenTo(L, calls', n) \in Seq(OpenLoop)
    <2>1. OpenTo(L, calls', n + 1) = OpenTo(L, calls', n) \o Piece(L, f)
      BY <1>2, <1>5, <1>8, <1>11, OpenToSteps
    <2>2. Begun(calls', n + 1) = Begun(calls', n) \cup (IF f.status = "started" THEN {f.act} ELSE {})
      BY <1>5, <1>11, BegunSteps
    <2>3. OpenTo(L, calls, n) \in Seq(OpenLoop)
      BY <1>1, <1>2, OpenToSteps
    <2> QED
      BY <1>10, <1>11, <2>1, <2>2, <2>3
  <1>13. Of(R, Begun(calls', n + 1)) = OpenTo(L, calls', n + 1)
    <2>1. CASE f.status = "started" /\ f.act = cur.act
      BY <1>2, <1>10, <1>12, <2>1 DEF Running, Piece
    <2>2. CASE f.status = "deferred"
      <3>1. OpenTo(L, calls', n) \o <<>> = OpenTo(L, calls', n)
        BY <1>12, ConcatEmptySeq
      <3>2. Of(R, Begun(calls', n)) = OpenTo(L, calls', n)
        BY <1>10, <1>11 DEF Agree
      <3> QED
        BY <1>12, <2>2, <3>1, <3>2 DEF Piece
    <2> QED
      BY <1>4, <2>1, <2>2
  <1>14. Agree(R, L, calls', n + 1)
    BY <1>10, <1>11, <1>13 DEF Agree
  <1>15. Running(R, L, calls', n + 1, cur'.act)
    <2>1. CASE f.status = "started" /\ cur'.act = made'
      BY <1>2, <1>3, <1>8, <1>11, <1>14, <2>1, StartsRunning
    <2>2. CASE f.status = "deferred" /\ cur' = cur
      <3>1. Running(R, L, calls', n, cur.act)
        BY <1>2, <1>10
      <3>2. OpenTo(L, calls', n) \o <<>> = OpenTo(L, calls', n)
        BY <1>12, ConcatEmptySeq
      <3> QED
        BY <1>12, <2>2, <3>1, <3>2 DEF Running, Piece
    <2> QED
      BY <1>4, <2>1, <2>2
  <1> QED
    BY <1>6, <1>8, <1>14, <1>15 DEF Agreed, R, L

LEMMA AgreedRecover ==
    ASSUME KeptInv, Agreed, UNCHANGED <<ranges, loops>>, OpRecover \/ OpRecoverDown
    PROVE  Agreed'
  <1>1. PICK found \in {Recoverable(Len(calls)),
                        Recoverable(IF Last(calls).status = "panicked" THEN 0 ELSE Len(calls) - 1)} :
           RecoverFrames(found)
    BY DEF OpRecover, OpRecoverDown
  <1>2. cur' = cur /\ phase = "run" /\ phase' \in {"run", "return"}
    BY DEF OpRecover, OpRecoverDown, Executes, hist
  <1>3. Len(calls') = Len(calls) /\ Len(calls) \in Nat /\ DOMAIN calls = 1..Len(calls)
    BY <1>1, KeptFacts, RecoverPreserves DEF LoopInv
  <1>4. /\ Calm(calls) /\ Unbegun(ranges, loops, calls, Len(calls)) /\ Agree(ranges, loops, calls, Len(calls))
        /\ Running(ranges, loops, calls, Len(calls), cur.act)
    BY <1>2 DEF Agreed, Alive
  <1>5. \A j \in 1..Len(calls) : calls[j].status # "panicked"
    BY <1>4 DEF Calm
  <1>6. \A j \in 1..Len(calls) : calls'[j] = calls[j]
    BY <1>1, <1>3, <1>5 DEF RecoverFrames, Recoverable
  <1>7. Alive' = Len(calls)
    BY <1>2, <1>3 DEF Alive
  <1>8. Calm(calls') /\ Unbegun(ranges, loops, calls', Len(calls))
    BY <1>3, <1>4, <1>6 DEF Calm, Unbegun
  <1>9. SameBegun(calls, calls', Len(calls))
    BY <1>6 DEF SameBegun
  <1>10. Agree(ranges, loops, calls', Len(calls)) /\ Running(ranges, loops, calls', Len(calls), cur.act)
    BY <1>3, <1>4, <1>9, SameAgree
  <1> QED
    BY <1>2, <1>7, <1>8, <1>10 DEF Agreed

LEMMA AgreedReturn ==
    ASSUME KeptInv, Agreed, UNCHANGED <<ranges, loops>>, ReturnToCaller
    PROVE  Agreed'
  <1> DEFINE n == Len(calls)
  <1>1. /\ calls # <<>> /\ calls[n].status = "started" /\ phase \in {"run", "return"} /\ phase' = "run"
        /\ calls' = SubSeq(calls, 1, n - 1) /\ cur' = FunctionOf(calls[n])
    BY DEF ReturnToCaller, Returning, Last
  <1>2. calls \in Seq(Frame) /\ n \in Nat /\ n # 0 /\ ActsTo(calls, n) /\ ranges \in Seq(OpenLoop) /\ loops \in LoopLists
    BY <1>1, KeptFacts, EmptySeq
  <1>3. n \in 1..n + 1 /\ n - 1 \in Nat /\ n > 0 /\ \A k \in 0..n-1 : k \in 0..n
    BY <1>2
  <1>4. Calm(calls) /\ Unbegun(ranges, loops, calls, n) /\ Agree(ranges, loops, calls, n)
    BY <1>1 DEF Agreed, Alive
  <1>5. Len(calls') = n - 1 /\ \A j \in 1..n-1 : calls'[j] = calls[j] /\ j \in 1..n
    <2>1. Len(calls') = n - 1 /\ \A j \in 1..n-1 : calls'[j] = calls[j]
      BY <1>1, <1>2, <1>3, PrefixOfSeq
    <2>2. \A j \in 1..n-1 : j \in 1..n
      BY <1>2
    <2> QED
      BY <2>1, <2>2
  <1>6. cur'.act = calls[n].act
    BY <1>1 DEF FunctionOf
  <1>7. Alive' = n - 1
    BY <1>1, <1>5 DEF Alive
  <1> HIDE DEF n
  <1>8. Calm(calls') /\ Unbegun(ranges, loops, calls', n - 1)
    BY <1>4, <1>5 DEF Calm, Unbegun, n
  <1>9. SameBegun(calls, calls', n - 1) /\ Agree(ranges, loops, calls, n - 1)
    BY <1>3, <1>4, <1>5 DEF SameBegun, Agree
  <1>10. Running(ranges, loops, calls, n - 1, calls[n].act)
    BY <1>1, <1>2, <1>3, <1>4, ResumesRunning
  <1>11. Agree(ranges, loops, calls', n - 1) /\ Running(ranges, loops, calls', n - 1, calls[n].act)
    BY <1>3, <1>9, <1>10, SameAgree
  <1> QED
    BY <1>6, <1>7, <1>8, <1>11 DEF Agreed

LEMMA AgreedNextCall ==
    ASSUME KeptInv, Agreed, UNCHANGED <<ranges, loops>>, NextStarted \/ NextDeferred \/ NextDeferredOfReturned
    PROVE  Agreed'
  <1> DEFINE R == ranges
             L == loops
  <1>1. /\ calls \in Seq(Frame) /\ i \in 1..Len(calls) /\ Len(calls) \in Nat /\ calls[i] \in Frame
        /\ phase = "next" /\ i \in Nat /\ i - 1 \in Nat /\ i > 0
        /\ R \in Seq(OpenLoop) /\ L \in LoopLists /\ ActsTo(calls, Len(calls))
    <2>1. /\ calls \in Seq(Frame) /\ i \in 1..Len(calls) /\ calls[i] \in Frame /\ Len(calls) \in Nat /\ phase = "next"
      BY LoopIndex, KeptFacts, LoopFacts DEF NextStarted, NextDeferred, NextDeferredOfReturned, AtStatus
    <2> QED
      BY <2>1, KeptFacts
  <1>2. Calm(calls) /\ Unbegun(R, L, calls, i) /\ Agree(R, L, calls, i)
    BY <1>1 DEF Agreed, Alive
  <1>3. \A j \in 1..Len(calls) : calls[j].act \in 1..MaxActs /\ calls[j].act # 0 /\ calls[j].status # "panicked"
    BY <1>1, <1>2 DEF ActsTo, Calm
  <1>0. \A j \in 1..i : j \in 1..Len(calls)
    BY <1>1
  <1> HIDE DEF R, L
  <1>6. SUFFICES ASSUME TRUE
                 PROVE  \E call \in Frame, cs \in Seq(Frame) : \E k \in 1..Len(cs) + 1 :
                          /\ call.act # 0 /\ ContinueWith(call, k, cs) /\ Calm(cs)
                          /\ Unbegun(R, L, cs, k - 1) /\ Agree(R, L, cs, k - 1)
                          /\ Running(R, L, cs, k - 1, call.act)
    <2>1. PICK call \in Frame, cs \in Seq(Frame) : \E k \in 1..Len(cs) + 1 :
                          /\ call.act # 0 /\ ContinueWith(call, k, cs) /\ Calm(cs)
                          /\ Unbegun(R, L, cs, k - 1) /\ Agree(R, L, cs, k - 1)
                          /\ Running(R, L, cs, k - 1, call.act)
      BY <1>6
    <2>2. PICK k \in 1..Len(cs) + 1 :
                          /\ call.act # 0 /\ ContinueWith(call, k, cs) /\ Calm(cs)
                          /\ Unbegun(R, L, cs, k - 1) /\ Agree(R, L, cs, k - 1)
                          /\ Running(R, L, cs, k - 1, call.act)
      BY <2>1
    <2>3. /\ Calm(calls') /\ Unbegun(R, L, calls', Alive') /\ Agree(R, L, calls', Alive')
          /\ phase' \in {"run", "return"} => Running(R, L, calls', Alive', cur'.act)
      BY <2>2, AgreedContinue
    <2> QED
      BY <2>3 DEF Agreed, R, L
  <1>7. CASE NextStarted
    <2>1. calls[i].status = "started" /\ ContinueWith(calls[i], i, calls) /\ i \in 1..Len(calls) + 1
      BY <1>1, <1>7 DEF NextStarted, AtStatus
    <2>2. Unbegun(R, L, calls, i - 1) /\ Agree(R, L, calls, i - 1)
      <3>1. (\A j \in 1..i-1 : j \in 1..i) /\ \A k \in 0..i-1 : k \in 0..i
        BY <1>1
      <3> QED
        BY <1>2, <3>1 DEF Unbegun, Agree
    <2>3. Running(R, L, calls, i - 1, calls[i].act)
      <3>1. ActsTo(calls, i)
        BY <1>0, <1>1 DEF ActsTo
      <3> QED
        BY <1>1, <1>2, <2>1, <3>1, ResumesRunning
    <2> QED
      BY <1>1, <1>2, <1>3, <2>1, <2>2, <2>3
  <1>8. CASE NextDeferred
    <2> DEFINE f == FrameOf(cur, "returned", rend)
               cs == [calls EXCEPT ![i] = f]
    <2>1. ContinueWith(calls[i], i + 1, cs) /\ cur # Nil /\ calls[i].status = "deferred"
      BY <1>8 DEF NextDeferred, AtStatus
    <2>2. f \in Frame /\ f.status = "returned" /\ f.act \in 1..MaxActs
      <3>1. cur.act \in 1..made /\ made \in 1..MaxActs /\ MaxActs \in Nat
        BY <2>1, KeptFacts DEF LoopInv
      <3>2. f \in Frame /\ f.status = "returned" /\ f.act = cur.act
        BY KeptFacts, FrameOfType DEF Statuses, FrameOf
      <3> QED
        BY <3>1, <3>2
    <2>3. cs \in Seq(Frame) /\ Len(cs) = Len(calls)
          /\ \A j \in 1..Len(calls) : cs[j] = IF j = i THEN f ELSE calls[j]
      BY <1>1, <2>2, ReplaceInSeq
    <2>4. i + 1 \in 1..Len(cs) + 1 /\ (i + 1) - 1 = i /\ i \in 1..i /\ i <= Len(calls)
      BY <1>1, <2>3
    <2> HIDE DEF cs, f
    <2>5. Calm(cs) /\ ActsTo(cs, i)
      <3>1. Calm(cs)
        BY <1>3, <2>2, <2>3 DEF Calm
      <3>2. ActsTo(cs, i)
        BY <1>0, <1>3, <2>2, <2>3 DEF ActsTo
      <3> QED
        BY <3>1, <3>2
    <2>6. Unbegun(R, L, cs, i)
      BY <1>0, <1>2, <2>2, <2>3 DEF Unbegun
    <2>7. SameBegun(calls, cs, i)
      BY <1>0, <2>1, <2>2, <2>3 DEF SameBegun
    <2>8. Agree(R, L, cs, i)
      BY <1>1, <1>2, <2>7, SameAgree
    <2>9. L[calls[i].act] = <<>> /\ calls[i].act \notin Acts(R) /\ calls[i].act \in 1..MaxActs
      BY <1>0, <1>2, <1>3, <2>1, <2>4 DEF Unbegun
    <2>10. Running(R, L, cs, i, calls[i].act)
      BY <1>1, <2>5, <2>8, <2>9, StartsRunning
    <2> QED
      BY <1>1, <1>3, <2>1, <2>3, <2>4, <2>5, <2>6, <2>8, <2>10
  <1>9. CASE NextDeferredOfReturned
    <2> DEFINE n == i - 1
               cs == [calls EXCEPT ![n] = calls[i]]
    <2>1. ContinueWith(calls[n], i, cs) /\ i > 1 /\ calls[i].status \in {"returned", "recovered"}
          /\ calls[n].status = "deferred"
      BY <1>9 DEF NextDeferredOfReturned, MoreDeferred, AtStatus
    <2>2. n \in 1..Len(calls) /\ n \in Nat /\ n < i /\ n \in 1..n /\ \A j \in 1..n : j \in 1..i /\ j \in 1..Len(calls)
      BY <1>1, <2>1
    <2>3. calls[n] \in Frame
      BY <1>1, <2>2, ElementOfSeq
    <2>4. cs \in Seq(Frame) /\ Len(cs) = Len(calls)
          /\ \A j \in 1..Len(calls) : cs[j] = IF j = n THEN calls[i] ELSE calls[j]
      BY <1>1, <2>2, ReplaceInSeq
    <2>5. i \in 1..Len(cs) + 1 /\ n = i - 1
      BY <1>1, <2>4
    <2> HIDE DEF cs, n
    <2>6. Calm(cs) /\ ActsTo(cs, n)
      <3>1. Calm(cs)
        BY <1>1, <1>3, <2>4 DEF Calm
      <3>2. ActsTo(cs, n)
        BY <1>1, <1>3, <2>2, <2>4 DEF ActsTo
      <3> QED
        BY <3>1, <3>2
    <2>7. Unbegun(R, L, cs, n)
      BY <1>2, <2>1, <2>2, <2>4 DEF Unbegun
    <2>8. SameBegun(calls, cs, n)
      BY <2>1, <2>2, <2>4 DEF SameBegun
    <2>9. Agree(R, L, calls, n)
      <3>1. \A k \in 0..n : k \in 0..i
        BY <1>1, <2>2
      <3> QED
        BY <1>2, <3>1 DEF Agree
    <2>10. Agree(R, L, cs, n)
      BY <2>2, <2>8, <2>9, SameAgree
    <2>11. L[calls[n].act] = <<>> /\ calls[n].act \notin Acts(R) /\ calls[n].act \in 1..MaxActs
      BY <1>2, <1>3, <2>1, <2>2 DEF Unbegun
    <2>12. Running(R, L, cs, n, calls[n].act)
      BY <1>1, <2>2, <2>6, <2>10, <2>11, StartsRunning
    <2> QED
      BY <1>1, <1>3, <2>1, <2>2, <2>3, <2>4, <2>5, <2>6, <2>7, <2>10, <2>12
  <1> QED
    BY <1>7, <1>8, <1>9

\* What only moves the index of nextCall.
LEMMA AgreedSame ==
    ASSUME KeptInv, Agreed, UNCHANGED <<calls, cur, ranges, loops>>,
           UNCHANGED <<phase, i>> \/ ReturnToNextCall \/ NativeReturns \/ NextFinalized
    PROVE  Agreed'
  <1>1. CASE UNCHANGED <<phase, i>>
    <2>1. Alive' = Alive
      BY <1>1 DEF Alive
    <2> QED
      BY <1>1, <2>1 DEF Agreed
  <1>2. CASE ReturnToNextCall \/ NativeReturns \/ NextFinalized
    <2>1. /\ phase' = "next" /\ phase \in {"run", "return", "next", "native"} /\ i \in Nat
          /\ Len(calls) \in Nat
      BY <1>2, KeptFacts DEF ReturnToNextCall, NativeReturns, NextFinalized, AtStatus, Returning
    <2>0. Alive' = i'
      BY <2>1 DEF Alive
    <2>3. i' \in Nat /\ Alive \in Nat /\ i' <= Alive
      <3>1. CASE ReturnToNextCall
        <4>1. i' = Len(calls) /\ phase \in {"run", "return"}
          BY <3>1 DEF ReturnToNextCall, Returning
        <4> QED
          BY <2>1, <4>1 DEF Alive
      <3>2. CASE NativeReturns
        <4>1. i' = i - 1 /\ phase = "native" /\ i > 0
          BY <3>2 DEF NativeReturns, KeptInv, LoopInv, SafeInv, TypeOK
        <4> QED
          BY <2>1, <4>1 DEF Alive
      <3>3. CASE NextFinalized
        <4>1. i' = i - 1 /\ phase = "next" /\ i > 0
          BY <3>3 DEF NextFinalized, AtStatus
        <4> QED
          BY <2>1, <4>1 DEF Alive
      <3> QED
        BY <1>2, <3>1, <3>2, <3>3
    <2>4. Unbegun(ranges, loops, calls, i') /\ Agree(ranges, loops, calls, i')
      <3>1. (\A j \in 1..i' : j \in 1..Alive) /\ \A k \in 0..i' : k \in 0..Alive
        BY <2>3
      <3> QED
        BY <3>1 DEF Agreed, Unbegun, Agree
    <2> QED
      BY <2>0, <2>1, <2>4 DEF Agreed
  <1> QED
    BY <1>1, <1>2

-----------------------------------------------------------------------------
(***************************************************************************)
(* The loops that open, go on and end.                                     *)
(***************************************************************************)
LEMMA FoundIsInnermost ==
    ASSUME ranges \in Seq(OpenLoop), NEW addr, Found(addr) # 0
    PROVE  \A n \in 1..Len(ranges) : ranges[n].at = addr => n <= Found(addr)
  <1> DEFINE same == {n \in DOMAIN ranges : ranges[n].at = addr}
  <1>1. Len(ranges) \in Nat /\ DOMAIN ranges = 1..Len(ranges)
    BY LenProperties
  <1>2. same \subseteq 1..Len(ranges)
    BY <1>1
  <1>3. Found(addr) = IF same = {} THEN 0 ELSE CHOOSE n \in same : \A m \in same : m <= n
    BY DEF Found
  <1> HIDE DEF same
  <1>4. \E n \in same : \A m \in same : m <= n
    BY <1>1, <1>2, <1>3, Greatest
  <1>5. \A m \in same : m <= Found(addr)
    BY <1>3, <1>4
  <1> QED
    BY <1>1, <1>5 DEF same

\* The OpRange that takes the address is the last on the Go stack of a function that waits or runs.
LEMMA FoundIsLast ==
    ASSUME KeptInv, Running(ranges, loops, calls, Len(calls), cur.act), NEW addr \in Addrs, phase = "run",
           Leaves(addr), ~clash', Found(addr) # 0
    PROVE  LET S == Begun(calls, Len(calls)) \cup {cur.act}
           IN  /\ NoneAfter(ranges, Found(addr), S)
               /\ ranges[Found(addr)] = RangeOf(addr, cur.act)
  <1> DEFINE S == Begun(calls, Len(calls)) \cup {cur.act}
             R == ranges
             F == Found(addr)
             P == OpenTo(loops, calls, Len(calls))
             C == LoopsIn(loops, cur.act)
             m == Len(loops[cur.act])
             T == {n \in 1..Len(R) : R[n].act \in S}
  <1>1. /\ R \in Seq(OpenLoop) /\ Len(R) \in Nat /\ loops \in LoopLists /\ ActsTo(calls, Len(calls)) /\ Len(calls) \in Nat
        /\ \A n \in 1..Len(R) : R[n] \in OpenLoop
    BY KeptFacts, ElementOfSeq
  <1>2. cur.act \in 1..MaxActs /\ MaxActs \in Nat
    BY KeptFacts DEF KeptInv, LoopInv
  <1>3. loops[cur.act] # <<>> /\ addr = loops[cur.act][m] /\ loops[cur.act] \in Seq(Addrs)
    BY <1>1, <1>2 DEF Leaves, Last, LoopLists
  <1>4. m \in Nat /\ m > 0
    BY <1>3, LenProperties, EmptySeq
  <1>5. P \in Seq(OpenLoop)
    BY <1>1, OpenToSteps
  <1>6. C \in Seq(OpenLoop) /\ Len(C) = m /\ C[m] = RangeOf(addr, cur.act)
    <2>1. m \in 1..m
      BY <1>4
    <2> QED
      BY <1>1, <1>2, <1>3, <2>1, LoopsInType
  <1>7. Of(R, S) = P \o C
    BY DEF Running
  <1>8. F \in 1..Len(R) /\ R[F].at = addr /\ \A n \in 1..Len(R) : R[n].at = addr => n <= F
    BY <1>1, FoundOnGoStack, FoundIsInnermost
  <1>9. \A n \in 1..Len(R) : R[n].at = addr => R[n].act = cur.act
    BY KeptFacts DEF Leaves
  <1> HIDE DEF S, R, F, P, C, m
  <1>10. Len(P) \in Nat /\ Len(P \o C) = Len(P) + m /\ (P \o C)[Len(P) + m] = RangeOf(addr, cur.act)
    <2>1. m \in 1..m /\ Len(P) \in Nat
      BY <1>4, <1>5, LenProperties
    <2>2. Len(P \o C) = Len(P) + Len(C)
      BY <1>5, <1>6, ConcatProperties
    <2>3. (P \o C)[Len(P) + m] = C[m]
      BY <1>4, <1>5, <1>6, <2>1
    <2> QED
      BY <1>6, <2>1, <2>2, <2>3
  <1>11. T # {}
    <2> SUFFICES ASSUME T = {} PROVE FALSE
      OBVIOUS
    <2>1. NoneAfter(R, 0, S) /\ 0 \in 0..Len(R)
      BY <1>1 DEF NoneAfter
    <2>2. Of(SubSeq(R, 1, 0), S) = Of(R, S)
      BY <1>1, <2>1, OfPrefix
    <2>3. SubSeq(R, 1, 0) = <<>>
      BY SubSeqEmpty
    <2>4. Of(R, S) = <<>>
      BY <2>2, <2>3, OfNothing
    <2> QED
      BY <1>4, <1>7, <1>10, <2>4
  <1>12. PICK n \in T : \A k \in T : k <= n
    BY <1>1, <1>11, Greatest
  <1>13. n \in 1..Len(R) /\ R[n].act \in S /\ NoneAfter(R, n, S)
    <2>1. ASSUME NEW k \in n+1..Len(R) PROVE R[k].act \notin S
      <3>1. k \in 1..Len(R) /\ ~(k <= n)
        BY <1>1
      <3> QED
        BY <1>12, <3>1
    <2> QED
      BY <2>1 DEF NoneAfter
  <1>14. R[n] = RangeOf(addr, cur.act)
    <2> DEFINE q == Of(SubSeq(R, 1, n - 1), S)
    <2>1. Of(R, S) = Append(q, R[n])
      BY <1>1, <1>13, OfLast
    <2>2. q \in Seq(OpenLoop) /\ R[n] \in OpenLoop
      <3>1. n \in 1..Len(R) + 1
        BY <1>1, <1>13
      <3>2. SubSeq(R, 1, n - 1) \in Seq(OpenLoop)
        BY <1>1, <3>1, PrefixOfSeq
      <3> QED
        BY <1>1, <1>13, <3>2, ChosenIsSeq
    <2> HIDE DEF q
    <2>3. Len(Append(q, R[n])) = Len(q) + 1 /\ Append(q, R[n])[Len(q) + 1] = R[n]
      BY <2>2, AppendProperties
    <2>4. Len(q) + 1 = Len(P) + m
      BY <1>7, <1>10, <2>1, <2>3
    <2> QED
      BY <1>7, <1>10, <2>1, <2>3, <2>4
  <1>15. n = F
    <2>1. n <= F
      BY <1>8, <1>13, <1>14 DEF RangeOf
    <2>2. F \in T
      <3>1. R[F].act = cur.act
        BY <1>8, <1>9
      <3> QED
        BY <1>8, <3>1 DEF S
    <2>3. F <= n
      BY <1>12, <2>2
    <2> QED
      BY <1>8, <1>13, <2>1, <2>3
  <1> QED
    BY <1>13, <1>14, <1>15 DEF S, R, F

\* What the functions that wait have on the Go stack is still there.
LEMMA AgreedCut ==
    ASSUME NEW R \in Seq(OpenLoop), NEW L, NEW M, NEW cs, NEW n \in Nat, NEW m \in 0..Len(R), Agree(R, L, cs, n),
           NoneAfter(R, m, Begun(cs, n)),
           \A j \in 1..n : cs[j].status = "started" => M[cs[j].act] = L[cs[j].act]
    PROVE  Agree(SubSeq(R, 1, m), M, cs, n) /\ OpenTo(M, cs, n) = OpenTo(L, cs, n)
  <1>1. ASSUME NEW k \in 0..n PROVE /\ Of(SubSeq(R, 1, m), Begun(cs, k)) = Of(R, Begun(cs, k))
                                    /\ OpenTo(M, cs, k) = OpenTo(L, cs, k)
    <2>1. \A j \in 1..k : j \in 1..n
      OBVIOUS
    <2>2. Begun(cs, k) \subseteq Begun(cs, n)
      BY <2>1 DEF Begun
    <2>3. NoneAfter(R, m, Begun(cs, k))
      BY <2>2 DEF NoneAfter
    <2>4. [j \in 1..k |-> Piece(M, cs[j])] = [j \in 1..k |-> Piece(L, cs[j])]
      BY <2>1 DEF Piece, LoopsIn
    <2> QED
      BY <2>3, <2>4, OfPrefix DEF OpenTo
  <1>2. n \in 0..n
    OBVIOUS
  <1> QED
    BY <1>1, <1>2 DEF Agree

LEMMA LoopsInAppend ==
    ASSUME NEW L \in LoopLists, NEW M \in LoopLists, NEW act \in 1..MaxActs, NEW addr \in Addrs,
           M[act] = Append(L[act], addr)
    PROVE  LoopsIn(M, act) = Append(LoopsIn(L, act), RangeOf(addr, act))
  <1> DEFINE s == L[act]
             t == M[act]
             C == LoopsIn(L, act)
             D == LoopsIn(M, act)
             x == RangeOf(addr, act)
  <1>1. s \in Seq(Addrs) /\ t = Append(s, addr) /\ x \in OpenLoop
    BY BoundsAssumption DEF LoopLists, RangeOf, OpenLoop
  <1>2. C \in Seq(OpenLoop) /\ Len(C) = Len(s) /\ \A n \in 1..Len(s) : C[n] = RangeOf(s[n], act)
    BY LoopsInType
  <1>3. D \in Seq(OpenLoop) /\ Len(D) = Len(t) /\ \A n \in 1..Len(t) : D[n] = RangeOf(t[n], act)
    BY LoopsInType
  <1> HIDE DEF s, t, C, D
  <1>4. Len(s) \in Nat /\ Len(t) = Len(s) + 1 /\ t[Len(s) + 1] = addr /\ \A n \in 1..Len(s) : t[n] = s[n]
    BY <1>1, AppendProperties, LenProperties
  <1> HIDE DEF x
  <1>5. /\ Append(C, x) \in Seq(OpenLoop) /\ Len(Append(C, x)) = Len(s) + 1
        /\ Append(C, x)[Len(s) + 1] = x /\ \A n \in 1..Len(s) : Append(C, x)[n] = C[n]
    BY <1>1, <1>2, AppendProperties
  <1>6. \A n \in 1..Len(s)+1 : D[n] = Append(C, x)[n]
    <2> TAKE n \in 1..Len(s)+1
    <2>1. CASE n = Len(s) + 1
      BY <1>3, <1>4, <1>5, <2>1 DEF x
    <2>2. CASE n # Len(s) + 1
      <3>1. n \in 1..Len(s) /\ n \in 1..Len(t)
        BY <1>4, <2>2
      <3> QED
        BY <1>2, <1>3, <1>4, <1>5, <3>1
    <2> QED
      BY <2>1, <2>2
  <1>7. D = Append(C, x)
    BY <1>3, <1>4, <1>5, <1>6, SeqEqual
  <1> QED
    BY <1>7 DEF C, D, x

LEMMA OthersBegun ==
    ASSUME NEW cs, NEW n \in Nat, NEW act, Others(cs, n, act)
    PROVE  /\ \A k \in 0..n : act \notin Begun(cs, k)
           /\ \A j \in 1..n : cs[j].act # act
  <1>1. \A k \in 0..n : \A j \in 1..k : j \in 1..n
    OBVIOUS
  <1> QED
    BY <1>1 DEF Others, Begun

LEMMA KeptOpens ==
    ASSUME KeptInv, LoopInv', OpRange
    PROVE  KeptInv'
  <1> DEFINE n == Len(calls)
             R == ranges
             L == loops
             act == cur.act
             S == Begun(calls, n) \cup {act}
             P == OpenTo(L, calls, n)
             C == LoopsIn(L, act)
             Q == ranges'
             M == loops'
  <1>1. PICK addr \in Addrs : Q = Append(R, RangeOf(addr, act)) /\ M = [L EXCEPT ![act] = Append(@, addr)]
    BY DEF OpRange
  <1>2. /\ UNCHANGED <<calls, cur, rend, chain, i, phase, got, made, thrown, home, clash>> /\ phase = "run"
    BY DEF OpRange, vars
  <1>3. /\ calls \in Seq(Frame) /\ n \in Nat /\ R \in Seq(OpenLoop) /\ L \in LoopLists /\ ActsTo(calls, n)
        /\ made \in 1..MaxActs /\ MaxActs \in Nat /\ DOMAIN R = 1..Len(R) /\ Len(R) \in Nat
    BY KeptFacts
  <1>4. act \in 1..made /\ act \in 1..MaxActs /\ Others(calls, n, act)
    BY <1>2, <1>3 DEF KeptInv, LoopInv
  <1>5. /\ \A k \in 0..n : act \notin Begun(calls, k)
        /\ \A j \in 1..n : calls[j].act # act
    BY <1>3, <1>4, OthersBegun
  <1> DEFINE x == RangeOf(addr, act)
  <1>6. x \in OpenLoop /\ x.act = act
    BY <1>3, <1>4 DEF RangeOf, OpenLoop
  <1>7. /\ L[act] \in Seq(Addrs) /\ M[act] = Append(L[act], addr) /\ M \in LoopLists
        /\ \A a \in 1..MaxActs : a # act => M[a] = L[a]
    <2>1. L[act] \in Seq(Addrs)
      BY <1>3, <1>4 DEF LoopLists
    <2>2. Append(L[act], addr) \in Seq(Addrs)
      BY <2>1, AppendProperties
    <2> QED
      BY <1>1, <1>3, <1>4, <2>1, <2>2 DEF LoopLists
  <1> HIDE DEF x, Q, M
  <1>8. /\ Q \in Seq(OpenLoop) /\ Len(Q) = Len(R) + 1 /\ Q[Len(R) + 1] = x /\ \A k \in 1..Len(R) : Q[k] = R[k]
        /\ Q = Append(R, x)
    BY <1>1, <1>3, <1>6, AppendProperties DEF x
  <1>9. Acts(Q) = Acts(R) \cup {act}
    <2>1. DOMAIN Q = 1..Len(R)+1 /\ \A k \in 1..Len(R)+1 : k = Len(R) + 1 \/ k \in 1..Len(R)
      BY <1>3, <1>8, LenProperties
    <2>2. \A k \in 1..Len(R) : k \in 1..Len(R)+1
      BY <1>3
    <2>3. Len(R) + 1 \in 1..Len(R)+1
      BY <1>3
    <2> QED
      BY <1>3, <1>6, <1>8, <2>1, <2>2, <2>3 DEF Acts
  <1>10. ASSUME Agreed PROVE Agreed'
    <2>1. Calm(calls) /\ Unbegun(R, L, calls, n) /\ Agree(R, L, calls, n) /\ Running(R, L, calls, n, act)
      BY <1>2, <1>10 DEF Agreed, Alive
    <2>2. \A j \in 1..n : calls[j].act \in 1..MaxActs /\ M[calls[j].act] = L[calls[j].act]
      BY <1>3, <1>5, <1>7 DEF ActsTo
    <2>3. Unbegun(Q, M, calls, n)
      BY <1>5, <1>9, <2>1, <2>2 DEF Unbegun
    <2>4. ASSUME NEW k \in 0..n PROVE /\ Of(Q, Begun(calls, k)) = Of(R, Begun(calls, k))
                                      /\ OpenTo(M, calls, k) = OpenTo(L, calls, k)
      <3>1. Of(Q, Begun(calls, k)) = Of(R, Begun(calls, k))
        BY <1>3, <1>5, <1>6, <1>8, OfSkips
      <3>2. \A j \in 1..k : j \in 1..n
        BY <1>3
      <3>3. [j \in 1..k |-> Piece(M, calls[j])] = [j \in 1..k |-> Piece(L, calls[j])]
        BY <2>2, <3>2 DEF Piece, LoopsIn
      <3> QED
        BY <3>1, <3>3 DEF OpenTo
    <2>5. Agree(Q, M, calls, n)
      BY <2>1, <2>4 DEF Agree
    <2>6. /\ P \in Seq(OpenLoop) /\ C \in Seq(OpenLoop) /\ Of(R, S) = P \o C /\ <<x>> \in Seq(OpenLoop)
          /\ act \in S
      <3>1. P \in Seq(OpenLoop)
        BY <1>3, OpenToSteps
      <3>2. C \in Seq(OpenLoop)
        BY <1>3, <1>4, LoopsInType
      <3>3. Of(R, S) = P \o C
        BY <2>1 DEF Running
      <3>4. act \in S
        OBVIOUS
      <3>5. <<x>> \in Seq(OpenLoop)
        BY <1>6
      <3> HIDE DEF P, C, S
      <3> QED
        BY <3>1, <3>2, <3>3, <3>4, <3>5
    <2>7. LoopsIn(M, act) = C \o <<x>>
      <3>1. LoopsIn(M, act) = Append(C, x)
        BY <1>3, <1>4, <1>7, LoopsInAppend DEF x
      <3> HIDE DEF C
      <3> QED
        BY <1>6, <2>6, <3>1, AppendIsConcat
    <2>8. n \in 0..n
      BY <1>3
    <2>9. OpenTo(M, calls, n) = P
      BY <2>4, <2>8
    <2> HIDE DEF P, C, S
    <2>10. Of(Q, S) = (P \o C) \o <<x>>
      BY <1>3, <1>6, <1>8, <2>6, OfAppend
    <2>11. (P \o C) \o <<x>> = P \o (C \o <<x>>)
      BY <2>6, ConcatAssociative
    <2>12. Running(Q, M, calls, n, act)
      BY <2>7, <2>9, <2>10, <2>11 DEF Running, S
    <2>13. Alive' = n
      BY <1>2 DEF Alive
    <2> QED
      BY <1>2, <2>1, <2>3, <2>5, <2>12, <2>13 DEF Agreed, Q, M
  <1>11. \A a \in made+1..MaxActs : M[a] = <<>>
    <2>1. \A a \in made+1..MaxActs : a \in 1..MaxActs /\ a # act
      BY <1>3, <1>4
    <2> QED
      BY <1>7, <2>1 DEF KeptInv
  <1>12. Acts(Q) \subseteq 1..made
    BY <1>4, <1>9 DEF KeptInv
  <1>13. (thrown' = 0 /\ ~clash' /\ phase' \notin Final) => Agreed'
    BY <1>2, <1>10 DEF KeptInv
  <1> QED
    BY <1>2, <1>3, <1>7, <1>11, <1>12, <1>13 DEF KeptInv, Q, M

LEMMA KeptLeaves ==
    ASSUME KeptInv, LoopInv', OpContinue \/ LoopEnds
    PROVE  KeptInv'
  <1> DEFINE n == Len(calls)
             R == ranges
             L == loops
             act == cur.act
             S == Begun(calls, n) \cup {act}
             P == OpenTo(L, calls, n)
             Q == ranges'
             M == loops'
  <1>1. PICK addr \in Addrs :
           /\ Leaves(addr) /\ Found(addr) # 0
           /\ UNCHANGED vars
           /\ \/ Q = SubSeq(R, 1, Found(addr)) /\ M = L
              \/ Q = SubSeq(R, 1, Found(addr) - 1) /\ M = [L EXCEPT ![act] = SubSeq(@, 1, Len(@) - 1)]
    <2>1. CASE OpContinue
      BY <2>1 DEF OpContinue
    <2>2. CASE LoopEnds
      BY <2>2 DEF LoopEnds
    <2> QED
      BY <2>1, <2>2
  <1> DEFINE F == Found(addr)
             x == RangeOf(addr, act)
  <1>2. /\ UNCHANGED <<calls, cur, i, phase, made, thrown>> /\ phase = "run"
    BY <1>1 DEF Leaves, vars
  <1>3. /\ calls \in Seq(Frame) /\ n \in Nat /\ R \in Seq(OpenLoop) /\ L \in LoopLists /\ ActsTo(calls, n)
        /\ made \in 1..MaxActs /\ MaxActs \in Nat /\ DOMAIN R = 1..Len(R) /\ Len(R) \in Nat
    BY KeptFacts
  <1>4. act \in 1..made /\ act \in 1..MaxActs /\ Others(calls, n, act)
    BY <1>2, <1>3 DEF KeptInv, LoopInv
  <1>5. /\ \A k \in 0..n : act \notin Begun(calls, k)
        /\ \A j \in 1..n : calls[j].act # act
    BY <1>3, <1>4, OthersBegun
  <1>6. F \in 1..Len(R) /\ F \in Nat /\ F \in 0..Len(R) /\ F - 1 \in 0..Len(R) /\ x \in OpenLoop /\ x.act = act
    <2>1. F \in 1..Len(R)
      BY <1>1, <1>3, FoundOnGoStack
    <2> QED
      BY <1>3, <1>4, <2>1 DEF RangeOf, OpenLoop
  <1>7. /\ L[act] \in Seq(Addrs) /\ M \in LoopLists /\ \A a \in 1..MaxActs : a # act => M[a] = L[a]
        /\ M # L => L[act] = Append(M[act], addr)
    <2>1. L[act] \in Seq(Addrs) /\ L[act] # <<>> /\ addr = L[act][Len(L[act])]
      BY <1>1, <1>3, <1>4 DEF LoopLists, Leaves, Last
    <2> DEFINE s == L[act]
               f == SubSeq(s, 1, Len(s) - 1)
    <2>2. s \in Seq(Addrs) /\ Len(s) \in Nat /\ Len(s) > 0 /\ addr = s[Len(s)]
      BY <2>1, LenProperties, EmptySeq
    <2> HIDE DEF s
    <2>3. f \in Seq(Addrs) /\ s = Append(f, addr)
      <3>1. Len(s) \in 1..Len(s) + 1 /\ 1 \in 1..Len(s) /\ Len(s) \in 1..Len(s)
        BY <2>2
      <3>2. f \in Seq(Addrs)
        BY <2>2, <3>1, PrefixOfSeq
      <3>3. SubSeq(s, 1, Len(s)) = Append(f, s[Len(s)])
        <4>1. s \in Seq(Addrs) /\ 1 \in 1..Len(s) /\ Len(s) \in 1..Len(s) /\ s[Len(s)] \in Addrs
          BY <2>2, <3>1
        <4>2. SubSeq(s, 1, Len(s)) = f \o <<s[Len(s)]>>
          BY <4>1, SubSeqRecursiveSecond
        <4> HIDE DEF f
        <4>3. Append(f, s[Len(s)]) = f \o <<s[Len(s)]>>
          BY <3>2, <4>1, AppendIsConcat
        <4> QED
          BY <4>2, <4>3
      <3>4. SubSeq(s, 1, Len(s)) = s
        BY <2>2, SubSeqFull
      <3> QED
        BY <2>2, <3>2, <3>3, <3>4
    <2> HIDE DEF f
    <2>4. M = L \/ M = [L EXCEPT ![act] = f]
      BY <1>1 DEF f, s
    <2> QED
      BY <1>3, <1>4, <2>1, <2>3, <2>4 DEF LoopLists, s
  <1>8. M = [L EXCEPT ![act] = SubSeq(@, 1, Len(@) - 1)] => M # L
    <2>1. L[act] \in Seq(Addrs) /\ L[act] # <<>>
      BY <1>1, <1>7 DEF Leaves
    <2> DEFINE s == L[act]
               f == SubSeq(s, 1, Len(s) - 1)
    <2>2. Len(s) \in Nat /\ Len(s) > 0 /\ Len(s) \in 1..Len(s)+1
      BY <2>1, LenProperties, EmptySeq
    <2>3. Len(f) = Len(s) - 1
      <3> HIDE DEF s
      <3>1. s \in Seq(Addrs)
        BY <2>1 DEF s
      <3> QED
        BY <2>2, <3>1, PrefixOfSeq
    <2>4. f # s
      BY <2>2, <2>3
    <2> HIDE DEF f
    <2>5. M = [L EXCEPT ![act] = f] => M[act] = f
      BY <1>3, <1>4 DEF LoopLists
    <2> QED
      BY <2>4, <2>5 DEF f
  <1>9. PICK m \in 0..Len(R) :
           /\ Q = SubSeq(R, 1, m)
           /\ \/ m = F /\ M = L
              \/ m = F - 1 /\ L[act] = Append(M[act], addr)
    BY <1>1, <1>6, <1>7, <1>8
  <1> HIDE DEF Q, M, F, x
  <1>10. /\ Q \in Seq(OpenLoop) /\ Acts(Q) \subseteq Acts(R)
    <2>1. m + 1 \in 1..Len(R) + 1 /\ (m + 1) - 1 = m
      BY <1>3, <1>9
    <2>2. Q \in Seq(OpenLoop) /\ Len(Q) = m /\ \A k \in 1..m : Q[k] = R[k]
      BY <1>3, <1>9, <2>1, PrefixOfSeq
    <2>3. DOMAIN Q = 1..m /\ \A k \in 1..m : k \in 1..Len(R)
      BY <1>3, <1>9, <2>2, LenProperties
    <2> QED
      BY <1>3, <2>2, <2>3 DEF Acts
  <1>11. ASSUME Agreed, ~clash' PROVE Agreed'
    <2>1. Calm(calls) /\ Unbegun(R, L, calls, n) /\ Agree(R, L, calls, n) /\ Running(R, L, calls, n, act)
      BY <1>2, <1>11 DEF Agreed, Alive
    <2>2. NoneAfter(R, F, S) /\ R[F] = x
      BY <1>1, <1>2, <1>11, <2>1, FoundIsLast DEF F, x
    <2>3. NoneAfter(R, m, Begun(calls, n))
      <3> SUFFICES ASSUME NEW k \in m+1..Len(R) PROVE R[k].act \notin Begun(calls, n)
        BY DEF NoneAfter
      <3>1. k = F \/ k \in F+1..Len(R)
        BY <1>3, <1>6, <1>9
      <3>2. CASE k = F
        <4>1. n \in 0..n
          BY <1>3
        <4> QED
          BY <1>5, <1>6, <2>2, <3>2, <4>1
      <3>3. CASE k \in F+1..Len(R)
        BY <2>2, <3>3 DEF NoneAfter
      <3> QED
        BY <3>1, <3>2, <3>3
    <2>4. \A j \in 1..n : calls[j].act \in 1..MaxActs /\ M[calls[j].act] = L[calls[j].act]
      BY <1>3, <1>5, <1>7 DEF ActsTo
    <2>5. Agree(Q, M, calls, n) /\ OpenTo(M, calls, n) = P
      <3>1. \A j \in 1..n : calls[j].status = "started" => M[calls[j].act] = L[calls[j].act]
        BY <2>4
      <3>2. R \in Seq(OpenLoop) /\ n \in Nat /\ m \in 0..Len(R) /\ Agree(R, L, calls, n)
        BY <1>3, <1>9, <2>1
      <3> HIDE DEF n, R, L
      <3>3. Agree(SubSeq(R, 1, m), M, calls, n) /\ OpenTo(M, calls, n) = OpenTo(L, calls, n)
        BY <2>3, <3>1, <3>2, AgreedCut
      <3> QED
        BY <1>9, <3>3
    <2>6. Unbegun(Q, M, calls, n)
      BY <1>10, <2>1, <2>4 DEF Unbegun
    <2>7. Running(Q, M, calls, n, act)
      <3> DEFINE C == LoopsIn(L, act)
                 D == LoopsIn(M, act)
      <3>1. /\ P \in Seq(OpenLoop) /\ C \in Seq(OpenLoop) /\ D \in Seq(OpenLoop) /\ Of(R, S) = P \o C
            /\ Of(Q, S) \in Seq(OpenLoop)
        BY <1>3, <1>4, <1>7, <1>10, <2>1, OpenToSteps, LoopsInType, ChosenIsSeq DEF Running
      <3>2. CASE m = F /\ M = L
        <4>1. Of(Q, S) = Of(R, S)
          BY <1>3, <1>6, <1>9, <2>2, <3>2, OfPrefix
        <4> QED
          BY <2>5, <3>1, <3>2, <4>1 DEF Running
      <3>3. CASE m = F - 1 /\ L[act] = Append(M[act], addr)
        <4>1. Of(R, S) = Append(Of(Q, S), x)
          <5>1. R[F].act \in S
            BY <1>6, <2>2
          <5> HIDE DEF S
          <5> QED
            BY <1>3, <1>6, <1>9, <2>2, <3>3, <5>1, OfLast
        <4>2. C = Append(D, x)
          BY <1>3, <1>4, <1>7, <3>3, LoopsInAppend DEF x
        <4> DEFINE q == Of(Q, S)
                   r == P \o D
        <4>3. q \in Seq(OpenLoop) /\ x \in OpenLoop /\ <<x>> \in Seq(OpenLoop)
          BY <1>6, <3>1
        <4> HIDE DEF C, D, P, q
        <4>4. r \in Seq(OpenLoop)
          BY <3>1, ConcatProperties
        <4>5. C = D \o <<x>>
          BY <3>1, <4>2, <4>3, AppendIsConcat
        <4>6. P \o C = (P \o D) \o <<x>>
          BY <3>1, <4>3, <4>5, ConcatAssociative
        <4>7. (P \o D) \o <<x>> = Append(r, x)
          <5> HIDE DEF r
          <5>1. Append(r, x) = r \o <<x>>
            BY <4>3, <4>4, AppendIsConcat
          <5> QED
            BY <5>1 DEF r
        <4>8. Append(q, x) = Append(r, x)
          BY <3>1, <4>1, <4>6, <4>7 DEF q
        <4>9. q = r
          <5> HIDE DEF r
          <5> QED
            BY <4>3, <4>4, <4>8, AppendInjective
        <4> QED
          BY <2>5, <4>9 DEF Running, q, r, P, D
      <3> QED
        BY <1>9, <3>2, <3>3
    <2>8. Alive' = n
      BY <1>2 DEF Alive
    <2> QED
      BY <1>2, <2>1, <2>5, <2>6, <2>7, <2>8 DEF Agreed, Q, M
  <1>12. \A a \in made+1..MaxActs : M[a] = <<>>
    <2>1. \A a \in made+1..MaxActs : a \in 1..MaxActs /\ a # act
      BY <1>3, <1>4
    <2> QED
      BY <1>7, <2>1 DEF KeptInv
  <1>13. Acts(Q) \subseteq 1..made
    BY <1>10 DEF KeptInv
  <1>14. ~clash' => ~clash
    BY <1>1 DEF Leaves
  <1>15. (thrown' = 0 /\ ~clash' /\ phase' \notin Final) => Agreed'
    BY <1>2, <1>11, <1>14 DEF KeptInv
  <1> QED
    BY <1>2, <1>3, <1>7, <1>12, <1>13, <1>15 DEF KeptInv, Q, M

\* Nothing is on the Go stack any more, or nothing of it is said.
LEMMA KeptUnwinds ==
    ASSUME KeptInv, LoopInv', UNCHANGED <<loops, made>>, ranges' = <<>> \/ ranges' = ranges,
           thrown' > 0 \/ phase' \in Final
    PROVE  KeptInv'
  <1>1. Acts(ranges') \subseteq 1..made'
    BY DEF KeptInv, Acts
  <1> QED
    BY <1>1 DEF KeptInv

LEMMA KeptStep == KeptInv /\ [RangeNext]_<<vars, rvars>> => KeptInv'
  <1> SUFFICES ASSUME KeptInv, [RangeNext]_<<vars, rvars>> PROVE KeptInv'
    OBVIOUS
  <1>1. LoopInv'
    BY LoopStep DEF KeptInv
  <1>2. CASE OpRange
    BY <1>1, <1>2, KeptOpens
  <1>3. CASE OpContinue \/ LoopEnds
    BY <1>1, <1>3, KeptLeaves
  <1>4. CASE NothingTakes
    <2>1. UNCHANGED <<loops, made>> /\ phase' \in Final /\ ranges' = <<>>
      BY <1>4 DEF NothingTakes, hist, Final
    <2> QED
      BY <1>1, <2>1, KeptUnwinds
  <1>5. CASE SameRanges
    <2>1. UNCHANGED <<ranges, loops, clash>>
      BY <1>5 DEF SameRanges, rvars
    <2>2. thrown' = thrown /\ (made' = made \/ (made' = made + 1 /\ made < MaxActs))
      BY <1>5 DEF SameRanges, OpCallFunc, OpCallMacro, Defers, OpDefer, Enter, OpRecover, OpRecoverDown, ReturnToCaller,
                  ReturnToNextCall, NextStarted, NextDeferred, NextDeferredOfReturned, NextFinalized, NextPanicked,
                  NativeReturns, NativeStops, hist, MayMake
    <2>3. /\ made' \in 1..MaxActs /\ (\A a \in made'+1..MaxActs : loops[a] = <<>>) /\ Acts(ranges) \subseteq 1..made'
      <3>1. made \in 1..MaxActs /\ MaxActs \in Nat /\ Acts(ranges) \subseteq 1..made /\ \A a \in made+1..MaxActs : loops[a] = <<>>
        BY KeptFacts DEF KeptInv
      <3>2. \A a \in made'+1..MaxActs : a \in made+1..MaxActs
        BY <2>2, <3>1
      <3>3. made' \in 1..MaxActs /\ \A a \in 1..made : a \in 1..made'
        BY <2>2, <3>1
      <3> QED
        BY <3>1, <3>2, <3>3
    <2>4. ASSUME Agreed, phase \notin Final PROVE Agreed' \/ phase' \in Final
      <3>1. CASE OpCallFunc \/ OpCallMacro \/ Defers
        BY <2>1, <2>4, <3>1, AgreedPush
      <3>2. CASE OpRecover \/ OpRecoverDown
        BY <2>1, <2>4, <3>2, AgreedRecover
      <3>3. CASE ReturnToCaller
        BY <2>1, <2>4, <3>3, AgreedReturn
      <3>4. CASE NextStarted \/ NextDeferred \/ NextDeferredOfReturned
        BY <2>1, <2>4, <3>4, AgreedNextCall
      <3>5. CASE NextPanicked
        <4>1. i \in 1..Len(calls) /\ calls[i].status = "panicked"
          BY <3>5, LoopIndex, KeptFacts, LoopFacts DEF NextPanicked, AtStatus
        <4> QED
          BY <2>4, <4>1 DEF Agreed, Calm
      <3>6. CASE ReturnToNextCall \/ NextFinalized \/ NativeReturns
        <4>1. UNCHANGED <<calls, cur>>
          BY <3>6 DEF ReturnToNextCall, NextFinalized, NativeReturns
        <4> QED
          BY <2>1, <2>4, <3>6, <4>1, AgreedSame
      <3> QED
        BY <1>5, <3>1, <3>2, <3>3, <3>4, <3>5, <3>6 DEF SameRanges
    <2>5. phase \notin Final
      BY <1>5 DEF SameRanges, OpCallFunc, OpCallMacro, Defers, OpDefer, OpRecover, OpRecoverDown, ReturnToCaller,
                  ReturnToNextCall, NextStarted, NextDeferred, NextDeferredOfReturned, NextFinalized, NextPanicked,
                  NativeReturns, Executes, Returning, AtStatus, Final
    <2> QED
      BY <1>1, <2>1, <2>2, <2>3, <2>4, <2>5 DEF KeptInv
  <1>6. CASE Unwinds
    <2>1. ranges' = <<>> /\ UNCHANGED loops
      BY <1>6 DEF Unwinds
    <2>2. made' = made /\ (thrown' > 0 \/ phase' \in Final)
      <3>1. CASE OpPanic \/ NativeNil
        <4>1. thrown \in Nat
          BY DEF KeptInv, LoopInv, SafeInv, TypeOK
        <4>2. LinksPanic
          BY <3>1 DEF OpPanic, NativeNil
        <4>3. made' = made /\ thrown' = thrown + 1
          BY <4>2 DEF LinksPanic, Throws
        <4> QED
          BY <4>1, <4>3
      <3>2. CASE Exit \/ ReturnFromMain \/ NextNone \/ NextDeferredNil \/ NativeFails \/ NativeStops
        BY <3>2 DEF Exit, ReturnFromMain, NextNone, NextDeferredNil, NativeFails, NativeStops, hist, Final
      <3> QED
        BY <1>6, <3>1, <3>2 DEF Unwinds
    <2> QED
      BY <1>1, <2>1, <2>2, KeptUnwinds
  <1>7. CASE RangeEnded \/ UNCHANGED <<vars, rvars>>
    <2>1. UNCHANGED <<calls, cur, made, phase, i, thrown, ranges, loops, clash>>
      BY <1>7 DEF RangeEnded, Ended, vars, rvars
    <2>2. ASSUME Agreed PROVE Agreed'
      BY <2>1, <2>2, AgreedSame
    <2> QED
      BY <1>1, <2>1, <2>2 DEF KeptInv
  <1> QED
    BY <1>2, <1>3, <1>4, <1>5, <1>6, <1>7 DEF RangeNext

\* For every program, any number of calls, deferred calls and loops, and any depth of the Go stack: while
\* nothing has panicked and no two functions have open loops with one address, what the Go stack has of the
\* functions that run or wait (the vm.run nested by OpRange) is their loops, in the order of the calls.
THEOREM LoopsAlwaysKept == RangeSpec => []LoopsKept
  <1>1. KeptInv => LoopsKept
    <2> SUFFICES ASSUME KeptInv, phase = "run", thrown = 0, ~clash PROVE OnGoStack = OpenLoops
      BY DEF LoopsKept
    <2>1. Running(ranges, loops, calls, Len(calls), cur.act) /\ DOMAIN calls = 1..Len(calls)
      BY KeptFacts DEF KeptInv, Agreed, Alive, Final
    <2>2. Waiting = Begun(calls, Len(calls)) \cup {cur.act}
      BY <2>1 DEF Waiting, Begun
    <2>3. OnGoStack = Of(ranges, Waiting)
      BY DEF OnGoStack, Of, Chosen
    <2>4. OpenLoops = OpenTo(loops, calls, Len(calls)) \o LoopsIn(loops, cur.act)
      BY <2>1 DEF OpenLoops, OpenTo, Piece, LoopsOf, LoopsIn
    <2> QED
      BY <2>1, <2>2, <2>3, <2>4 DEF Running
  <1> QED
    BY <1>1, KeptInit, KeptStep, PTL DEF RangeSpec
===============================================================================
