------------------------------- MODULE VMCalls -------------------------------
(***************************************************************************)
(* The call stack of the virtual machine (internal/runtime, VM.calls): the *)
(* instructions that push frames, the loop of nextCall that chooses the    *)
(* frame to continue with, and runFunc, that turns a panic into a frame.   *)
(*                                                                         *)
(* One flat array holds both the callers and the calls they deferred.  A   *)
(* deferred call lies directly below the frame, or the running function,   *)
(* that deferred it.  Frames know their function; here an activation is a  *)
(* number, handed out in order, that stands for the function, its frame    *)
(* pointers and its program counter.                                       *)
(*                                                                         *)
(* The running function executes any instruction at any time, so the       *)
(* behaviours are those of every program.  Ops says which instructions the *)
(* program has.  MaxActs and MaxPanics bound the calls and the panics of   *)
(* one execution; the machine itself has no such bound.                    *)
(***************************************************************************)
EXTENDS Naturals, Sequences, FiniteSets

CONSTANTS
    Ops,        \* the instructions of the program, besides OpReturn
    MaxActs,    \* bound: activations and deferred calls
    MaxPanics,  \* bound: panics
    Template    \* a template has a renderer, a program has none (nil)

AllOps == {"call", "macro", "defer", "defer native", "defer recover",
           "panic", "recover", "native panic", "native nil", "exit"}

ASSUME OpsAssumption == Ops \subseteq AllOps
ASSUME BoundsAssumption == MaxActs \in Nat \ {0} /\ MaxPanics \in Nat
ASSUME TemplateAssumption == Template \in BOOLEAN

VARIABLES
    calls,   \* vm.calls
    cur,     \* vm.fn, with vm.fp and vm.pc
    rend,    \* vm.renderer, 0 for nil
    chain,   \* vm.panic and its next panics, the oldest first
    i,       \* the index of nextCall's loop (0 for -1)
    phase,   \* where the goroutine is: see Phases
    got,     \* history: the panic that the last OpRecover returned, 0 for nil
    made,    \* history: activations made so far
    thrown,  \* history: panics so far
    home,    \* history: home[a] is the renderer activation a writes to
    mixed    \* history: the last cut of the chain left a panic of no panicked frame

vars == <<calls, cur, rend, chain, i, phase, got, made, thrown, home, mixed>>
hist == <<made, thrown, home, mixed>>

(***************************************************************************)
(* "run": in the loop of vm.run.  "return": at the OpReturn of the wrapper *)
(* function that "defer recover()" compiles to.  "next": at the head of    *)
(* the loop of nextCall.  "native": in a native function called by         *)
(* nextCall.  The others are final: runFunc returned; Run returned the     *)
(* error given to env.Stop; Run panicked with a fatalError; the Go runtime *)
(* panicked in the machine's own code, out of reach of any recover.        *)
(***************************************************************************)
Final == {"done", "stopped", "fatal", "crashed"}
Phases == {"run", "return", "next", "native"} \cup Final

Kinds == {"func", "macro", "recover", "native", "nil"}
Statuses == {"started", "returned", "deferred", "panicked", "recovered"}

Nil == [act |-> 0, kind |-> "nil"]

\* "why" is a history: the panic a frame with status panicked stands for.
Frame == [act : Nat, kind : Kinds, status : Statuses, rend : Nat, why : Nat]

FrameOf(fn, status, r) ==
    [act |-> fn.act, kind |-> fn.kind, status |-> status, rend |-> r, why |-> 0]
FunctionOf(f) == [act |-> f.act, kind |-> f.kind]

Last(s) == s[Len(s)]
Panicked == {j \in DOMAIN calls : calls[j].status = "panicked"}
MayMake == made < MaxActs

Init ==
    /\ calls = <<>>
    /\ cur = [act |-> 1, kind |-> "func"]
    /\ rend = IF Template THEN 1 ELSE 0
    /\ chain = <<>>
    /\ i = 0
    /\ phase = "run"
    /\ got = 0
    /\ made = 1
    /\ thrown = 0
    /\ home = <<rend>>
    /\ mixed = FALSE

(***************************************************************************)
(* Instructions that push frames.                                          *)
(***************************************************************************)
Executes(op) == phase = "run" /\ op \in Ops /\ cur.kind \in {"func", "macro"}

Enter(kind, saved, r) ==
    /\ MayMake
    /\ made' = made + 1
    /\ calls' = Append(calls, FrameOf(cur, "started", saved))
    /\ cur' = [act |-> made', kind |-> kind]
    /\ rend' = r
    /\ home' = Append(home, r)
    /\ UNCHANGED <<chain, i, phase, got, thrown, mixed>>

\* The frame does not save the renderer: a function does not change it.
OpCallFunc == Executes("call") /\ Enter("func", 0, rend)

\* A macro writes to the caller's renderer, or to one of its own when its
\* result is a string or has another format.
OpCallMacro ==
    /\ Executes("macro")
    /\ \E r \in {rend, made + 1} : Enter("macro", rend, r)

OpDefer(op, kind) ==
    /\ Executes(op) /\ MayMake
    /\ made' = made + 1
    /\ calls' = Append(calls, FrameOf([act |-> made', kind |-> kind], "deferred", rend))
    /\ home' = Append(home, rend)
    /\ UNCHANGED <<cur, rend, chain, i, phase, got, thrown, mixed>>

Defers ==
    \/ OpDefer("defer", "func")
    \/ OpDefer("defer native", "native")
    \/ OpDefer("defer recover", "recover")

(***************************************************************************)
(* A panic, of OpPanic or of a native function called by the program,      *)
(* becomes a PanicError: runFunc links it, pushes a frame for the function *)
(* that panicked and enters nextCall again with no running function.       *)
(***************************************************************************)
Throws == thrown < MaxPanics /\ thrown' = thrown + 1

LinksPanic ==
    /\ Throws
    /\ chain' = Append(chain, [id |-> thrown', recovered |-> FALSE])
    /\ UNCHANGED <<rend, got, made, home, mixed>>

PushesPanicked ==
    /\ calls' = Append(calls, [FrameOf(cur, "panicked", rend) EXCEPT !.why = thrown'])
    /\ cur' = Nil
    /\ i' = Len(calls')
    /\ phase' = "next"

\* Mutant: runFunc does not push the frame of the function that panicked.
OpPanicWithoutFrame ==
    /\ Executes("panic") /\ LinksPanic
    /\ cur' = Nil
    /\ i' = Len(calls)
    /\ phase' = "next"
    /\ UNCHANGED calls

\* Mutant: runFunc does not link the panic to the ones before it.
OpPanicUnlinked ==
    /\ Executes("panic") /\ Throws /\ calls # <<>>
    /\ chain' = <<[id |-> thrown', recovered |-> FALSE]>>
    /\ PushesPanicked
    /\ UNCHANGED <<rend, got, made, home, mixed>>

OpPanic ==
    /\ Executes("panic") /\ LinksPanic
    /\ IF calls = <<>>
       THEN /\ phase' = "done"
            /\ UNCHANGED <<calls, cur, i>>
       ELSE PushesPanicked

\* env.Stop and env.Fatal, called by a native function, unwind the whole machine.
Exit ==
    /\ Executes("exit")
    /\ phase' \in {"stopped", "fatal"}
    /\ UNCHANGED <<calls, cur, rend, chain, i, got, hist>>

(***************************************************************************)
(* recover() looks below the calls deferred by the running function; the   *)
(* wrapper of "defer recover()" looks below the function that deferred it. *)
(***************************************************************************)
Recoverable(last) ==
    {j \in 1..last : /\ calls[j].status = "panicked"
                     /\ \A k \in j+1..last : calls[k].status = "deferred"}

RecoverFrames(found) ==
    /\ calls' = [j \in DOMAIN calls |-> IF j \in found
                                        THEN [calls[j] EXCEPT !.status = "recovered"]
                                        ELSE calls[j]]
    /\ chain' = IF found = {} THEN chain ELSE [chain EXCEPT ![Len(chain)].recovered = TRUE]

OpRecover ==
    /\ Executes("recover")
    /\ RecoverFrames(Recoverable(Len(calls)))
    /\ got' = IF Recoverable(Len(calls)) = {} THEN 0 ELSE Last(chain).id
    /\ UNCHANGED <<cur, rend, i, phase, hist>>

\* Mutant: the wrapper skips the function that deferred it even while it panics.
OpRecoverDownUnconditional ==
    /\ phase = "run" /\ cur.kind = "recover"
    /\ RecoverFrames(Recoverable(Len(calls) - 1))
    /\ phase' = "return"
    /\ UNCHANGED <<cur, rend, i, got, hist>>

\* The result is not stored in a register.
OpRecoverDown ==
    /\ phase = "run" /\ cur.kind = "recover"
    /\ RecoverFrames(Recoverable(
           IF Last(calls).status = "panicked" THEN 0 ELSE Len(calls) - 1))
    /\ phase' = "return"
    /\ UNCHANGED <<cur, rend, i, got, hist>>

(***************************************************************************)
(* OpReturn.  A function called by the frame on top goes back to it; any   *)
(* other frame on top is left to nextCall.                                 *)
(***************************************************************************)
Returning == phase = "return" \/ (phase = "run" /\ cur.kind # "recover")

ReturnFromMain ==
    /\ Returning /\ calls = <<>>
    /\ phase' = "done"
    /\ UNCHANGED <<calls, cur, rend, chain, i, got, hist>>

\* Mutant: the caller goes on with the renderer of the macro it called.
ReturnToCallerKeepsRenderer ==
    /\ Returning /\ calls # <<>> /\ Last(calls).status = "started"
    /\ calls' = SubSeq(calls, 1, Len(calls) - 1)
    /\ cur' = FunctionOf(Last(calls))
    /\ phase' = "run"
    /\ UNCHANGED <<rend, chain, i, got, hist>>

ReturnToCaller ==
    /\ Returning /\ calls # <<>> /\ Last(calls).status = "started"
    /\ IF cur.kind = "macro"
       THEN rend' = Last(calls).rend
       ELSE UNCHANGED rend
    /\ calls' = SubSeq(calls, 1, Len(calls) - 1)
    /\ cur' = FunctionOf(Last(calls))
    /\ phase' = "run"
    /\ UNCHANGED <<chain, i, got, hist>>

ReturnToNextCall ==
    /\ Returning /\ calls # <<>> /\ Last(calls).status # "started"
    /\ i' = Len(calls)
    /\ phase' = "next"
    /\ UNCHANGED <<calls, cur, rend, chain, got, hist>>

(***************************************************************************)
(* nextCall.  ContinueWith is what follows the switch: a Scriggo function  *)
(* becomes the running one and the frames from k on are dropped; a native  *)
(* function is called on the spot, the frames stay and the loop goes on.   *)
(***************************************************************************)
AtStatus(statuses) == phase = "next" /\ i > 0 /\ calls[i].status \in statuses

ContinueWith(call, k, cs) ==
    IF call.kind = "native"
    THEN /\ calls' = cs
         /\ i' = k
         /\ phase' = "native"
         /\ UNCHANGED <<cur, rend>>
    ELSE /\ calls' = SubSeq(cs, 1, k - 1)
         /\ i' = 0
         /\ cur' = FunctionOf(call)
         /\ rend' = call.rend
         /\ phase' = "run"

NextStarted ==
    /\ AtStatus({"started"})
    /\ ContinueWith(calls[i], i, calls)
    /\ UNCHANGED <<chain, got, hist>>

\* Mutant: the deferred call stays in its frame.
NextDeferredAgain ==
    /\ AtStatus({"deferred"}) /\ cur # Nil
    /\ ContinueWith(calls[i], i + 1, calls)
    /\ UNCHANGED <<chain, got, hist>>

\* The running function returns; its frame takes the place of its last deferred call.
NextDeferred ==
    /\ AtStatus({"deferred"}) /\ cur # Nil
    /\ ContinueWith(calls[i], i + 1, [calls EXCEPT ![i] = FrameOf(cur, "returned", rend)])
    /\ UNCHANGED <<chain, got, hist>>

\* The same without a running function: vm.fn.NumReg of a nil vm.fn.
NextDeferredNil ==
    /\ AtStatus({"deferred"}) /\ cur = Nil
    /\ phase' = "crashed"
    /\ UNCHANGED <<calls, cur, rend, chain, i, got, hist>>

MoreDeferred == i > 1 /\ calls[i - 1].status = "deferred"

\* A returned (or recovered) function still has a deferred call: they swap places.
NextDeferredOfReturned ==
    /\ AtStatus({"returned", "recovered"}) /\ MoreDeferred
    /\ ContinueWith(calls[i - 1], i, [calls EXCEPT ![i - 1] = calls[i]])
    /\ UNCHANGED <<chain, got, hist>>

\* As many panics remain in the chain as there are panicked frames, and they should
\* be those of these frames.
CutChain(n) ==
    /\ chain' = SubSeq(chain, 1, n)
    /\ mixed' = \E m \in 1..n : \A j \in Panicked : calls[j].why # chain[m].id

\* Mutant: one panic too many leaves the chain.
NextFinalizedDropsOneMore ==
    /\ AtStatus({"returned", "recovered"}) /\ ~MoreDeferred
    /\ IF calls[i].status = "recovered" /\ Len(chain) >= Cardinality(Panicked)
       THEN CutChain(Cardinality(Panicked) - 1)
       ELSE UNCHANGED <<chain, mixed>>
    /\ i' = i - 1
    /\ UNCHANGED <<calls, cur, rend, phase, got, made, thrown, home>>

\* It has none: it is finalized, and when it had recovered a panic the chain is cut.
NextFinalized ==
    /\ AtStatus({"returned", "recovered"}) /\ ~MoreDeferred
    /\ IF calls[i].status = "recovered" /\ Len(chain) > Cardinality(Panicked)
       THEN CutChain(Cardinality(Panicked))
       ELSE UNCHANGED <<chain, mixed>>
    /\ i' = i - 1
    /\ UNCHANGED <<calls, cur, rend, phase, got, made, thrown, home>>

\* The innermost deferred call below runs, on top of the frame that deferred
\* it, now panicked.  The loop index passes that frame only for a Scriggo function.
NextPanicked ==
    /\ AtStatus({"panicked"})
    /\ \E k \in 1..i-1 :
          /\ calls[k].status = "deferred"
          /\ \A j \in k+1..i-1 : calls[j].status # "deferred"
          /\ ContinueWith(calls[k], IF calls[k].kind = "native" THEN k ELSE k + 1,
                 [calls EXCEPT ![k] = [calls[k + 1] EXCEPT !.status = "panicked",
                                                           !.why = calls[i].why]])
    /\ UNCHANGED <<chain, got, hist>>

\* No call is left: nextCall returns false and runFunc returns vm.panic.
NextNone ==
    /\ phase = "next"
    /\ \/ i = 0
       \/ i > 0 /\ calls[i].status = "panicked" /\ \A j \in 1..i-1 : calls[j].status # "deferred"
    /\ phase' = "done"
    /\ UNCHANGED <<calls, cur, rend, chain, i, got, hist>>

\* Mutant: the loop index is decremented twice.
NativeReturnsTwice ==
    /\ phase = "native"
    /\ phase' = "next"
    /\ i' = i - 2
    /\ UNCHANGED <<calls, cur, rend, chain, got, hist>>

NativeReturns ==
    /\ phase = "native"
    /\ phase' = "next"
    /\ i' = i - 1
    /\ UNCHANGED <<calls, cur, rend, chain, got, hist>>

\* The native function that nextCall has to call is a nil function value: the panic is a
\* runtimeError of the machine, that convertPanic makes a PanicError of the running function.
NativeNil ==
    /\ phase = "native" /\ "native nil" \in Ops /\ cur # Nil
    /\ LinksPanic /\ PushesPanicked

\* A native function called by nextCall panics, or calls env.Fatal: convertPanic first looks
\* at the last instruction of vm.fn.  If there is none it panics itself, whatever the error
\* was; if there is one it is OpReturn, for which only an error of the machine is a panic of
\* the program.
NativeFails ==
    /\ phase = "native"
    /\ \/ cur = Nil /\ Ops \cap {"native panic", "native nil", "exit"} # {} /\ phase' = "crashed"
       \/ cur # Nil /\ Ops \cap {"native panic", "exit"} # {} /\ phase' = "fatal"
    /\ UNCHANGED <<calls, cur, rend, chain, i, got, hist>>

NativeStops ==
    /\ phase = "native" /\ "exit" \in Ops
    /\ phase' = "stopped"
    /\ UNCHANGED <<calls, cur, rend, chain, i, got, hist>>

\* The goroutine has ended.
Ended == phase \in Final /\ UNCHANGED vars

Execute ==
    \/ OpCallFunc \/ OpCallMacro \/ Defers \/ OpPanic \/ Exit
    \/ OpRecover \/ OpRecoverDown
    \/ ReturnFromMain \/ ReturnToCaller \/ ReturnToNextCall

NextCall ==
    \/ NextStarted \/ NextDeferred \/ NextDeferredNil \/ NextDeferredOfReturned
    \/ NextFinalized \/ NextPanicked \/ NextNone

Native == NativeReturns \/ NativeNil \/ NativeFails \/ NativeStops

Next == Execute \/ NextCall \/ Native \/ Ended

Spec == Init /\ [][Next]_vars

\* The goroutine goes on with nextCall's loop, and the native functions that
\* the program defers return.
FairSpec == Spec /\ WF_vars(NextCall) /\ WF_vars(NativeReturns)

-----------------------------------------------------------------------------
(***************************************************************************)
(* Properties.                                                             *)
(***************************************************************************)

\* The types of the variables; the loop of nextCall indexes inside vm.calls.
TypeOK ==
    /\ calls \in Seq(Frame)
    /\ cur \in [act : Nat, kind : Kinds]
    /\ rend \in Nat
    /\ chain \in Seq([id : Nat, recovered : BOOLEAN])
    /\ i \in 0..Len(calls) + 1
    /\ phase \in Phases
    /\ phase \in {"run", "return"} => i = 0
    /\ phase = "next" => i <= Len(calls)
    /\ phase = "native" => i > 0
    /\ got \in Nat
    /\ made \in Nat /\ thrown \in Nat
    /\ home \in Seq(Nat) /\ mixed \in BOOLEAN

\* While a frame is panicked there is a panic: OpRecover (vm.panic.recovered) and
\* the chain of the error never go through a nil vm.panic.
PanickedHasPanic == Panicked # {} => chain # <<>>

\* vm.run never executes, and nextCall never saves, a nil function.
NeverWithoutFunction ==
    /\ phase \in {"run", "return"} => cur # Nil
    /\ phase # "crashed"

\* A caller continues only when no call above it is still panicked: a panic leaves
\* a function through its deferred calls, and reaches the caller as a panic.
PanicReachesCallers ==
    [][NextStarted => \A j \in i+1..Len(calls) : calls[j].status # "panicked"]_vars

\* The chain has a panic for each panicked frame: leaving out the panics recovered and
\* those replaced by a newer one never takes more than those.
ChainCoversPanics == Len(chain) >= Cardinality(Panicked)

\* The panic that recover() would return, the newest of the chain, is the one the
\* panicked frame under the running function panics with.
RecoversCurrentPanic ==
    phase = "run" =>
        \A j \in DOMAIN calls :
            (/\ calls[j].status = "panicked"
             /\ \A k \in j+1..Len(calls) : calls[k].status = "deferred")
            => Last(chain).id = calls[j].why

\* The panic that Run returns as its error is one that nothing recovered.
ReportsUnrecovered == (phase = "done" /\ chain # <<>>) => ~Last(chain).recovered

\* A function writes to the same renderer for all its life, across the calls and
\* the deferred calls it makes.
KeepsRenderer == phase = "run" => rend = home[cur.act]

\* A function may be left without a renderer, but never writes to that of another.
NoForeignRenderer == phase = "run" => rend \in {home[cur.act], 0}

\* nextCall ends: every deferred call it can run is run once.
NextCallEnds == (phase = "next") ~> (phase \notin {"next", "native"})
==============================================================================
