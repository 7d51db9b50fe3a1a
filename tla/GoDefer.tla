------------------------------- MODULE GoDefer -------------------------------
(***************************************************************************)
(* What the virtual machine promises about function calls: the rules of    *)
(* the Go language for calls, defer, panic and recover, with a stack of    *)
(* activations that each own a list of pending deferred calls.             *)
(*                                                                         *)
(* There is no program text: the running activation may execute any        *)
(* statement at any time, so a property of this module is a property of    *)
(* every program.                                                          *)
(*                                                                         *)
(* VMCalls is the machine that implements it, with one flat array of       *)
(* frames; VMCallsRefines maps one to the other.                           *)
(***************************************************************************)
EXTENDS Naturals, Sequences

CONSTANTS
    Ids,      \* identities of the activations and of the deferred calls
    Panics    \* identities of the panics

VARIABLES
    stack,    \* the activations, the innermost last
    got,      \* the panic returned by the last recover(), 0 for nil
    outcome   \* "running", then "returned" or "panicked"

vars == <<stack, got, outcome>>

(***************************************************************************)
(* An activation is executing its body, or running its deferred calls      *)
(* because it returns or because it panics ("why" is then the panic).      *)
(***************************************************************************)
Activation(id, kind) ==
    [id |-> id, kind |-> kind, mode |-> "body", why |-> 0, defers |-> <<>>]

Depth == Len(stack)
Top == stack[Depth]
Pop(s) == SubSeq(s, 1, Len(s) - 1)
Executing == outcome = "running" /\ stack # <<>> /\ Top.mode = "body"

\* Activation k was called by a defer statement: the one below runs its defers.
Deferred(k) == k > 1 /\ stack[k - 1].mode # "body"

Init ==
    /\ stack = <<Activation(1, "func")>>
    /\ got = 0
    /\ outcome = "running"

Call ==
    /\ Executing /\ Top.kind = "func"
    /\ \E id \in Ids : stack' = Append(stack, Activation(id, "func"))
    /\ UNCHANGED <<got, outcome>>

Defer ==
    /\ Executing /\ Top.kind = "func"
    /\ \E d \in [id : Ids, kind : {"func", "recover", "native"}] :
          stack' = [stack EXCEPT ![Depth].defers = Append(@, d)]
    /\ UNCHANGED <<got, outcome>>

\* A panic that no deferred call can see ends the program at once.
Panic ==
    /\ Executing /\ Top.kind = "func"
    /\ IF Depth = 1 /\ Top.defers = <<>>
       THEN stack' = <<>> /\ outcome' = "panicked"
       ELSE /\ \E p \in Panics :
                   stack' = [stack EXCEPT ![Depth].mode = "panic", ![Depth].why = p]
            /\ UNCHANGED outcome
    /\ UNCHANGED got

(***************************************************************************)
(* recover() takes effect in a function called by the defer of activation  *)
(* k when k is panicking: the panic is over, k is returning.  Elsewhere it *)
(* returns nil.                                                            *)
(***************************************************************************)
StopPanic(k) == stack' = [stack EXCEPT ![k].mode = "return", ![k].why = 0]

Stops == Deferred(Depth) /\ stack[Depth - 1].mode = "panic"

Recover ==
    /\ Executing /\ Top.kind = "func"
    /\ IF Stops
       THEN StopPanic(Depth - 1) /\ got' = stack[Depth - 1].why
       ELSE UNCHANGED stack /\ got' = 0
    /\ UNCHANGED outcome

\* "defer recover()": recover is called by the function that deferred it, not
\* by a function of its own, and stops the panic that this function runs under.
\* Nobody sees its result.
RecoverAsDeferred ==
    /\ Executing /\ Top.kind = "recover"
    /\ IF /\ stack[Depth - 1].mode # "panic"
          /\ Deferred(Depth - 1) /\ stack[Depth - 2].mode = "panic"
       THEN StopPanic(Depth - 2) ELSE UNCHANGED stack
    /\ UNCHANGED <<got, outcome>>

\* Leaving the last activation ends the program.
Leave ==
    /\ stack' = Pop(stack)
    /\ outcome' = IF Depth = 1 THEN "returned" ELSE outcome
    /\ UNCHANGED got

Return ==
    /\ Executing
    /\ IF Top.defers = <<>>
       THEN Leave
       ELSE /\ stack' = [stack EXCEPT ![Depth].mode = "return"]
            /\ UNCHANGED <<got, outcome>>

LeaveAfterDefers ==
    /\ outcome = "running" /\ stack # <<>>
    /\ Top.mode = "return" /\ Top.defers = <<>>
    /\ Leave

(***************************************************************************)
(* The last deferred call of activation k starts, and everything above k   *)
(* is gone.  A native function runs to its end at once.                    *)
(***************************************************************************)
RunLastDefer(k, mode, why) ==
    LET d == stack[k].defers[Len(stack[k].defers)]
        below == Append(SubSeq(stack, 1, k - 1),
                        [stack[k] EXCEPT !.mode = mode, !.why = why, !.defers = Pop(@)])
    IN  stack' = IF d.kind = "native" THEN below
                 ELSE Append(below, Activation(d.id, d.kind))

RunDefer ==
    /\ outcome = "running" /\ stack # <<>>
    /\ Top.mode = "return" /\ Top.defers # <<>>
    /\ RunLastDefer(Depth, "return", 0)
    /\ UNCHANGED <<got, outcome>>

(***************************************************************************)
(* A panicking program runs the deferred calls from the innermost          *)
(* activation outwards; the panic now belongs to the activation whose      *)
(* deferred call runs, and replaces a panic this one already had.          *)
(***************************************************************************)
Unwind ==
    /\ outcome = "running" /\ stack # <<>> /\ Top.mode = "panic"
    /\ \/ \E k \in 1..Depth :
             /\ stack[k].defers # <<>>
             /\ \A j \in k+1..Depth : stack[j].defers = <<>>
             /\ RunLastDefer(k, "panic", Top.why)
             /\ UNCHANGED outcome
       \/ /\ \A k \in 1..Depth : stack[k].defers = <<>>
          /\ stack' = <<>>
          /\ outcome' = "panicked"
    /\ UNCHANGED got

Next ==
    \/ Call \/ Defer \/ Panic \/ Recover \/ RecoverAsDeferred
    \/ Return \/ LeaveAfterDefers \/ RunDefer \/ Unwind

Spec == Init /\ [][Next]_vars
==============================================================================
