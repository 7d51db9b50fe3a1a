------------------------------- MODULE VMRange -------------------------------
(***************************************************************************)
(* The range loops of the virtual machine, on top of the calls of VMCalls. *)
(*                                                                         *)
(* OpRange iterates in Go: for every element it calls vm.run again, that   *)
(* executes the body of the loop, and all that the body calls, until an    *)
(* OpContinue or an OpBreak returns from it with the address of a range    *)
(* instruction.  A vm.run that ends with the address of another loop is    *)
(* passed on to the OpRange below it on the Go stack.                      *)
(*                                                                         *)
(* So the loops that are open live in two places, that no code keeps in    *)
(* step: the program has them in its functions, nested as these call each  *)
(* other, and the machine has them on the Go stack, nested as vm.run calls *)
(* itself.  A return leaves the loops of its function on the Go stack; a   *)
(* panic takes them all away from it.                                      *)
(***************************************************************************)
EXTENDS VMCalls

SE == INSTANCE SequencesExt

CONSTANTS
    Addrs,      \* the addresses of the range instructions in their functions
    MaxNested   \* bound: calls of vm.run nested on the Go stack

ASSUME RangeAssumption == MaxNested \in Nat

VARIABLES
    ranges,  \* the OpRange on the Go stack, the outermost first: the address
             \* of each, and the activation that executed it (a history)
    loops,   \* history: the loops each activation is in, the outermost first
    clash    \* history: two activations had open loops with one address

rvars == <<ranges, loops, clash>>

RangeOf(addr, act) == [at |-> addr, act |-> act]

RangeInit ==
    /\ Init
    /\ ranges = <<>>
    /\ loops = [a \in 1..MaxActs |-> <<>>]
    /\ clash = FALSE

\* The body of the loop starts, on its first element, in a new vm.run.  With no
\* element nothing changes.
OpRange ==
    /\ phase = "run" /\ cur.kind \in {"func", "macro"}
    /\ Len(ranges) < MaxNested
    /\ \E addr \in Addrs :
          /\ addr \notin SE!ToSet(loops[cur.act])
          /\ ranges' = Append(ranges, RangeOf(addr, cur.act))
          /\ loops' = [loops EXCEPT ![cur.act] = Append(@, addr)]
    /\ UNCHANGED <<vars, clash>>

\* Mutant: the vm.run on top takes every address.
FoundOnTop(addr) == IF ranges = <<>> THEN 0 ELSE Len(ranges)

\* The OpRange that takes an address: the innermost on the Go stack that has it, 0
\* if none has.
Found(addr) ==
    LET same == {n \in DOMAIN ranges : ranges[n].at = addr}
    IN  IF same = {} THEN 0 ELSE CHOOSE n \in same : \A m \in same : m <= n

(***************************************************************************)
(* OpContinue and OpBreak name the innermost loop of the running function. *)
(* If nothing takes the address, the first vm.run returns: for runFunc it  *)
(* is the end of the program.                                              *)
(***************************************************************************)
Leaves(addr) ==
    /\ phase = "run" /\ loops[cur.act] # <<>>
    /\ addr = Last(loops[cur.act])
    /\ clash' = (clash \/ \E n \in DOMAIN ranges :
                             ranges[n].at = addr /\ ranges[n].act # cur.act)

NothingTakes ==
    \E addr \in Addrs :
        /\ Leaves(addr) /\ Found(addr) = 0
        /\ phase' = "done"
        /\ ranges' = <<>>
        /\ UNCHANGED <<calls, cur, rend, chain, i, got, hist, loops>>

\* The loop goes on with the next element.
OpContinue ==
    \E addr \in Addrs :
        /\ Leaves(addr) /\ Found(addr) # 0
        /\ ranges' = SubSeq(ranges, 1, Found(addr))
        /\ UNCHANGED <<vars, loops>>

\* There are no more elements, or it was OpBreak.
LoopEnds ==
    \E addr \in Addrs :
        /\ Leaves(addr) /\ Found(addr) # 0
        /\ ranges' = SubSeq(ranges, 1, Found(addr) - 1)
        /\ loops' = [loops EXCEPT ![cur.act] = SubSeq(@, 1, Len(@) - 1)]
        /\ UNCHANGED vars

\* Calls and returns, and the calls of nextCall, do not touch the Go stack.
SameRanges ==
    /\ \/ OpCallFunc \/ OpCallMacro \/ Defers \/ OpRecover \/ OpRecoverDown
       \/ ReturnToCaller \/ ReturnToNextCall
       \/ NextStarted \/ NextDeferred \/ NextDeferredOfReturned
       \/ NextFinalized \/ NextPanicked \/ NativeReturns
    /\ UNCHANGED rvars

\* Mutant: a panic is recovered in the vm.run that it happens in.
UnwindsNothing ==
    /\ OpPanic \/ Exit \/ ReturnFromMain \/ NextNone
       \/ NextDeferredNil \/ NativeNil \/ NativeFails \/ NativeStops
    /\ UNCHANGED rvars

\* A panic, and the end of the program, leave every vm.run.
Unwinds ==
    /\ OpPanic \/ Exit \/ ReturnFromMain \/ NextNone
       \/ NextDeferredNil \/ NativeNil \/ NativeFails \/ NativeStops
    /\ ranges' = <<>>
    /\ UNCHANGED <<loops, clash>>

RangeEnded == Ended /\ UNCHANGED rvars

RangeNext ==
    \/ OpRange \/ OpContinue \/ LoopEnds \/ NothingTakes
    \/ SameRanges \/ Unwinds \/ RangeEnded

RangeSpec == RangeInit /\ [][RangeNext]_<<vars, rvars>>

-----------------------------------------------------------------------------
(***************************************************************************)
(* Properties.                                                             *)
(***************************************************************************)

\* The activations that run, or wait for the one they called to return.
Waiting == {calls[j].act : j \in {k \in DOMAIN calls : calls[k].status = "started"}} \cup {cur.act}

LoopsOf(act) == [n \in DOMAIN loops[act] |-> RangeOf(loops[act][n], act)]

\* Their loops, in the order of the calls, and those that the Go stack has of them.
OpenLoops ==
    SE!FlattenSeq([j \in DOMAIN calls |->
        IF calls[j].status = "started" THEN LoopsOf(calls[j].act) ELSE <<>>]) \o LoopsOf(cur.act)
OnGoStack ==
    SE!FlattenSeq([n \in DOMAIN ranges |-> IF ranges[n].act \in Waiting THEN <<ranges[n]>> ELSE <<>>])

\* While nothing has panicked, and no two functions have open loops with the same
\* address, the Go stack has the open loops of all the functions that run or wait,
\* in the order of the calls, whatever it still has of functions that returned.
LoopsKept == (phase = "run" /\ thrown = 0 /\ ~clash) => OnGoStack = OpenLoops

\* After a panic nothing of it is left on the Go stack: every open loop there was
\* entered later, so no loop is ever resumed with the frames of an abandoned call.
NoLoopOfPanicked ==
    phase = "run" =>
        \A j \in DOMAIN calls : calls[j].status \in {"panicked", "recovered"} =>
            \A n \in DOMAIN ranges : ranges[n].act # calls[j].act

\* An iteration ends in its loop: the program does not end with it.
LoopContinues == [][(OpContinue \/ LoopEnds \/ NothingTakes) => phase' # "done"]_<<vars, rvars>>

\* The loop that goes on with its next element, or ends, is the one of the running
\* function.
LoopOfItsFunction ==
    [][\A addr \in Addrs : (Leaves(addr) /\ Found(addr) # 0 /\ rvars' # rvars /\ UNCHANGED vars)
          => ranges[Found(addr)].act = cur.act]_<<vars, rvars>>
==============================================================================
