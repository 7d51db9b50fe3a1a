---------------------------- MODULE VMCallsRefines ----------------------------
(***************************************************************************)
(* The flat array of VMCalls implements the stack of GoDefer.              *)
(*                                                                         *)
(* Every frame that is not a deferred call is an activation, and owns the  *)
(* deferred calls that lie directly below it.  The running function is the *)
(* activation on top.  While nextCall is in its loop only the frames up to *)
(* its index count, and if the frame there is a deferred call, the running *)
(* function is still there: it returns and this is its last deferred call. *)
(***************************************************************************)
EXTENDS VMCalls

Live == CASE phase \in {"run", "return"} -> Len(calls)
          [] phase = "next" -> i
          [] phase = "native" -> i - 1
          [] OTHER -> 0

OnTop ==
    \/ phase \in {"run", "return"}
    \/ phase = "next" /\ i > 0 /\ calls[i].status = "deferred"

TopFrame == FrameOf(cur, IF phase = "next" THEN "returned" ELSE "started", rend)

Frames == LET below == SubSeq(calls, 1, Live)
          IN  IF OnTop THEN Append(below, TopFrame) ELSE below

Mode(f) == CASE f.status = "started" -> "body"
             [] f.status \in {"returned", "recovered"} -> "return"
             [] f.status = "panicked" -> "panic"

GoKind(f) == IF f.kind = "macro" THEN "func" ELSE f.kind
GoDeferred(f) == [id |-> f.act, kind |-> GoKind(f)]

\* The frames that are activations, and the n-th of them.
Owners(fs) == {j \in DOMAIN fs : fs[j].status # "deferred"}
Owner(fs, n) == CHOOSE j \in Owners(fs) : Cardinality({k \in Owners(fs) : k <= j}) = n

\* The frame that comes before the calls that the n-th activation deferred.
Before(fs, n) == IF n = 1 THEN 0 ELSE Owner(fs, n - 1)

\* The deferred calls between two activations.
Between(fs, j, k) == [d \in 1..k - j - 1 |-> GoDeferred(fs[j + d])]

GoActivation(f, defers) ==
    [id |-> f.act, kind |-> GoKind(f), mode |-> Mode(f),
     why |-> IF f.status = "panicked" THEN f.why ELSE 0, defers |-> defers]

GoStack(fs) ==
    [n \in 1..Cardinality(Owners(fs)) |->
        GoActivation(fs[Owner(fs, n)], Between(fs, Before(fs, n), Owner(fs, n)))]

Over == phase = "done" \/ (phase = "next" /\ i = 0)

StackNow == IF Over THEN <<>> ELSE GoStack(Frames)
OutcomeNow == IF ~Over THEN "running" ELSE IF chain = <<>> THEN "returned" ELSE "panicked"

Go == INSTANCE GoDefer WITH
    Ids <- 1..MaxActs,
    Panics <- 1..MaxPanics,
    stack <- StackNow,
    outcome <- OutcomeNow

\* recover() stops the panic of Go, and returns another one: what is left of the chain by
\* the last cut is not what the panicked frames panic with.
RecoversAnother ==
    /\ mixed
    /\ Go!Executing /\ Go!Top.kind = "func" /\ Go!Stops
    /\ Go!StopPanic(Go!Depth - 1)
    /\ got' \in 1..MaxPanics
    /\ UNCHANGED OutcomeNow

\* Calls, deferred calls, panics and recovers happen as in Go: the same function runs
\* next, recover() stops the same panic and, but for that case, returns it, and Run
\* reports a panic when Go would.
GoSpec == Go!Init /\ [][Go!Next \/ RecoversAnother]_<<StackNow, got, OutcomeNow>>
===============================================================================
