------------------------------- MODULE VMExec -------------------------------
(***************************************************************************)
(* The execution of a program with a context that can be cancelled: the    *)
(* machines that share one env (internal/runtime, runFunc, callable.Value, *)
(* startGoroutine), the goroutine that watches the context for each of     *)
(* them, the channel operations with their done case, and how a machine    *)
(* ends.                                                                   *)
(*                                                                         *)
(* Machine 1 is the one of Run.  The others are started by a go statement, *)
(* or by a native function that calls back a Scriggo function; the machine *)
(* that called that native function then waits.  What a machine computes   *)
(* is left out: at any time it executes any of its instructions.  Channels *)
(* are buffered and their values are not told apart.                       *)
(***************************************************************************)
EXTENDS Naturals, Sequences, FiniteSets

CONSTANTS
    MaxMachines,  \* bound: machines created in one execution
    Chans,        \* the channels of the program
    Cap,          \* the capacity of their buffers
    MaxCases      \* bound: the length of vm.cases

ASSUME ExecAssumption ==
    MaxMachines \in Nat \ {0} /\ Cap \in Nat \ {0} /\ MaxCases \in Nat

Machines == 1..MaxMachines

VARIABLES
    cancelled,  \* the context is cancelled
    done,       \* env.done
    chan,       \* for each channel: the values in its buffer, and if it is closed
    at,         \* where runFunc is, for each machine: see Places
    op,         \* the channel operation it waits in
    cases,      \* its vm.cases
    watcher,    \* its watcher: "none", "waiting", "told" (stop is closed), "ended"
    err,        \* the result of its runFunc, "nil" for none
    caller,     \* the machine that waits for it, 0 for none
    stopped,    \* history: it was stopped before its function finished
    own,        \* history: the cases of the operation it waits in
    unsent,     \* history: it has panicked sending on a closed channel
    under,      \* history: Run waits for it, through the machines it called back
    exits       \* history: the env.Stop and env.Fatal that Run waits for

mvars == <<at, op, cases, watcher, err, caller, stopped, own, unsent, under>>
vars == <<cancelled, done, chan, mvars, exits>>

(***************************************************************************)
(* "run": at the head of the loop of vm.run.  "wait": in reflect.Select.   *)
(* "call": in a native function that calls back.  "ended": runRecoverable  *)
(* has returned for the last time.  "closed": past close(stop).            *)
(***************************************************************************)
Places == {"none", "run", "wait", "call", "ended", "closed", "over"}
Errors == {"nil", "panic", "stop", "fatal", "context"}

DoneCase == [dir |-> "done", chan |-> "none"]
DefaultCase == [dir |-> "default", chan |-> "none"]
CommCases == [dir : {"send", "recv"}, chan : Chans]

Init ==
    /\ cancelled = FALSE
    /\ done = FALSE
    /\ chan = [c \in Chans |-> [len |-> 0, closed |-> FALSE]]
    /\ at = [m \in Machines |-> IF m = 1 THEN "run" ELSE "none"]
    /\ op = [m \in Machines |-> "none"]
    /\ cases = [m \in Machines |-> <<>>]
    /\ watcher = [m \in Machines |-> IF m = 1 THEN "waiting" ELSE "none"]
    /\ err = [m \in Machines |-> "nil"]
    /\ caller = [m \in Machines |-> 0]
    /\ stopped = [m \in Machines |-> FALSE]
    /\ own = [m \in Machines |-> <<>>]
    /\ unsent = [m \in Machines |-> FALSE]
    /\ under = [m \in Machines |-> m = 1]
    /\ exits = {}

\* Of the application that called Run.
Cancel ==
    /\ ~cancelled
    /\ cancelled' = TRUE
    /\ UNCHANGED <<done, chan, mvars, exits>>

(***************************************************************************)
(* The watcher of a machine.  When both the context is cancelled and stop  *)
(* is closed the select takes either.                                      *)
(***************************************************************************)
Watch(m) ==
    /\ watcher[m] \in {"waiting", "told"} /\ cancelled
    /\ done' = TRUE
    /\ watcher' = [watcher EXCEPT ![m] = "ended"]
    /\ UNCHANGED <<cancelled, chan, at, op, cases, err, caller, stopped, own, unsent, under, exits>>

\* Mutant: the watcher sets env.done whatever it was told.
WatcherTellsAll(m) ==
    /\ watcher[m] = "told"
    /\ done' = TRUE
    /\ watcher' = [watcher EXCEPT ![m] = "ended"]
    /\ UNCHANGED <<cancelled, chan, at, op, cases, err, caller, stopped, own, unsent, under, exits>>

WatcherEnds(m) ==
    /\ watcher[m] = "told"
    /\ watcher' = [watcher EXCEPT ![m] = "ended"]
    /\ UNCHANGED <<cancelled, done, chan, at, op, cases, err, caller, stopped, own, unsent, under, exits>>

(***************************************************************************)
(* The loop of vm.run.                                                     *)
(***************************************************************************)
Executes(m) == at[m] = "run" /\ ~done

\* It leaves the operation it was in, if any.
Leaves(m, place) ==
    /\ at' = [at EXCEPT ![m] = place]
    /\ op' = [op EXCEPT ![m] = "none"]
    /\ own' = [own EXCEPT ![m] = <<>>]

Ends(m, e) ==
    /\ Leaves(m, "ended")
    /\ err' = [err EXCEPT ![m] = e]
    /\ UNCHANGED <<cases, watcher, caller, unsent, under>>

\* Mutant: the machine stops and leaves env.done to its watcher.
StopsInSilence(m) ==
    /\ UNCHANGED done
    /\ stopped' = [stopped EXCEPT ![m] = TRUE]
    /\ Ends(m, "nil")

\* vm.stop
Stops(m) ==
    /\ done' = TRUE
    /\ stopped' = [stopped EXCEPT ![m] = TRUE]
    /\ Ends(m, "nil")

\* The head of the loop finds env.done set.
StopsAtHead(m) ==
    /\ at[m] = "run" /\ done
    /\ Stops(m)
    /\ UNCHANGED <<cancelled, chan, exits>>

\* The last function returns, or panics and nothing recovers.
Finishes(m) ==
    /\ Executes(m)
    /\ \E e \in {"nil", "panic"} : Ends(m, e)
    /\ UNCHANGED <<cancelled, done, chan, stopped, exits>>

\* A native function calls env.Stop or env.Fatal.
Exits(m) ==
    /\ Executes(m)
    /\ \E e \in {"stop", "fatal"} :
          /\ Ends(m, e)
          /\ exits' = IF under[m] THEN exits \cup {e} ELSE exits
    /\ UNCHANGED <<cancelled, done, chan, stopped>>

(***************************************************************************)
(* Channel operations.  OpSend and OpReceive append their case and the     *)
(* done case to vm.cases; a select appends one case for each OpCase, then  *)
(* OpSelect the done case.  Both empty vm.cases when they have done.       *)
(***************************************************************************)
WaitsIn(m, o, new, all) ==
    /\ Len(all) <= MaxCases
    /\ at' = [at EXCEPT ![m] = "wait"]
    /\ op' = [op EXCEPT ![m] = o]
    /\ cases' = [cases EXCEPT ![m] = all]
    /\ own' = [own EXCEPT ![m] = new]
    /\ UNCHANGED <<cancelled, done, chan, watcher, err, caller, stopped, unsent, under, exits>>

\* Mutant: OpSend waits without the done case.
OpSendAlone(m) ==
    /\ Executes(m)
    /\ \E c \in Chans :
          LET new == <<[dir |-> "send", chan |-> c]>>
          IN  WaitsIn(m, "send", new, cases[m] \o new)

OpSend(m) ==
    /\ Executes(m)
    /\ \E c \in Chans :
          LET new == <<[dir |-> "send", chan |-> c], DoneCase>>
          IN  WaitsIn(m, "send", new, cases[m] \o new)

OpReceive(m) ==
    /\ Executes(m)
    /\ \E c \in Chans :
          LET new == <<[dir |-> "recv", chan |-> c], DoneCase>>
          IN  WaitsIn(m, "recv", new, cases[m] \o new)

\* The OpCase of a select, at most two and a default among them, and its OpSelect.
OpSelect(m) ==
    /\ Executes(m)
    /\ \E n \in 0..2 : \E comm \in [1..n -> CommCases \cup {DefaultCase}] :
          /\ Cardinality({k \in 1..n : comm[k] = DefaultCase}) <= 1
          /\ LET new == Append(comm, DoneCase)
             IN  WaitsIn(m, "select", new, cases[m] \o new)

Ready(c) ==
    CASE c.dir = "recv" -> chan[c.chan].len > 0 \/ chan[c.chan].closed
      [] c.dir = "send" -> chan[c.chan].len < Cap \/ chan[c.chan].closed
      [] c.dir = "done" -> cancelled
      [] c.dir = "default" -> FALSE

\* The cases that reflect.Select may choose.
Choosable(cs) ==
    LET ready == {k \in DOMAIN cs : Ready(cs[k])}
    IN  IF ready # {} THEN ready ELSE {k \in DOMAIN cs : cs[k] = DefaultCase}

\* The index that each operation takes for the done case.
DoneIndex(m) == IF op[m] = "select" THEN Len(cases[m]) ELSE 2

OnClosed(c) == c.dir = "send" /\ chan[c.chan].closed

Communicates(c) ==
    chan' = CASE c.dir = "send" -> [chan EXCEPT ![c.chan].len = @ + 1]
              [] c.dir = "recv" /\ chan[c.chan].len > 0 -> [chan EXCEPT ![c.chan].len = @ - 1]
              [] OTHER -> chan

\* Mutant: the cases stay in vm.cases.
CompletesKeepingCases(m) ==
    /\ at[m] = "wait"
    /\ \E k \in Choosable(cases[m]) \ {DoneIndex(m)} :
          /\ ~OnClosed(cases[m][k])
          /\ Communicates(cases[m][k])
    /\ Leaves(m, "run")
    /\ UNCHANGED <<cancelled, done, cases, watcher, err, caller, stopped, unsent, under, exits>>

Completes(m) ==
    /\ at[m] = "wait"
    /\ \E k \in Choosable(cases[m]) \ {DoneIndex(m)} :
          /\ ~OnClosed(cases[m][k])
          /\ Communicates(cases[m][k])
    /\ cases' = [cases EXCEPT ![m] = <<>>]
    /\ Leaves(m, "run")
    /\ UNCHANGED <<cancelled, done, watcher, err, caller, stopped, unsent, under, exits>>

StopsInSelect(m) ==
    /\ at[m] = "wait" /\ DoneIndex(m) \in Choosable(cases[m])
    /\ ~OnClosed(cases[m][DoneIndex(m)])
    /\ Stops(m)
    /\ UNCHANGED <<cancelled, chan, exits>>

\* A send on a closed channel panics before vm.cases is emptied.  For OpSend it is
\* a panic of the program, that it may recover; convertPanic does not know it for
\* the other operations.
SendPanics(m) ==
    /\ at[m] = "wait"
    /\ \E k \in Choosable(cases[m]) : OnClosed(cases[m][k])
    /\ unsent' = [unsent EXCEPT ![m] = TRUE]
    /\ IF op[m] = "send"
       THEN \/ Leaves(m, "run") /\ UNCHANGED err
            \/ Leaves(m, "ended") /\ err' = [err EXCEPT ![m] = "panic"]
       ELSE Leaves(m, "ended") /\ err' = [err EXCEPT ![m] = "fatal"]
    /\ UNCHANGED <<cancelled, done, chan, cases, watcher, caller, stopped, under, exits>>

OpClose(m) ==
    /\ Executes(m)
    /\ \E c \in Chans :
          /\ ~chan[c].closed
          /\ chan' = [chan EXCEPT ![c].closed = TRUE]
    /\ UNCHANGED <<cancelled, done, mvars, exits>>

(***************************************************************************)
(* Other machines.                                                         *)
(***************************************************************************)
Creates(n, from, places) ==
    /\ at[n] = "none" /\ \A k \in 1..n-1 : at[k] # "none"
    /\ at' = [places EXCEPT ![n] = "run"]
    /\ watcher' = [watcher EXCEPT ![n] = "waiting"]
    /\ caller' = [caller EXCEPT ![n] = from]
    /\ under' = [under EXCEPT ![n] = from # 0 /\ under[from]]
    /\ UNCHANGED <<cancelled, done, chan, op, cases, err, stopped, own, unsent, exits>>

OpGo(m) == Executes(m) /\ \E n \in Machines : Creates(n, 0, at)

\* A native function called by m calls a Scriggo function (callable.Value).
CallsBack(m) ==
    Executes(m) /\ \E n \in Machines : Creates(n, m, [at EXCEPT ![m] = "call"])

\* Mutant: an error of the machine called back is a panic of the program.
CallbackReturnsPanic(m) ==
    /\ at[m] = "call"
    /\ \E n \in Machines :
          /\ caller[n] = m /\ at[n] = "over"
          /\ caller' = [caller EXCEPT ![n] = 0]
          /\ \/ /\ at' = [at EXCEPT ![m] = "run"]
                /\ UNCHANGED err
             \/ /\ err[n] # "nil"
                /\ at' = [at EXCEPT ![m] = "ended"]
                /\ err' = [err EXCEPT ![m] = "panic"]
    /\ UNCHANGED <<cancelled, done, chan, op, cases, watcher, stopped, own, unsent, under, exits>>

(***************************************************************************)
(* The machine called back has ended.  Its error is a Go panic, that       *)
(* leaves the native function: convertPanic takes env.Stop and env.Fatal   *)
(* as they are, a panic of the function has become fatal, and the error of *)
(* the context is for the program a panic, that it may recover.            *)
(***************************************************************************)
CallbackReturns(m) ==
    /\ at[m] = "call"
    /\ \E n \in Machines :
          /\ caller[n] = m /\ at[n] = "over"
          /\ caller' = [caller EXCEPT ![n] = 0]
          /\ \/ /\ err[n] \in {"nil", "context"}
                /\ at' = [at EXCEPT ![m] = "run"]
                /\ UNCHANGED err
             \/ /\ err[n] # "nil"
                /\ at' = [at EXCEPT ![m] = "ended"]
                /\ err' = [err EXCEPT ![m] = CASE err[n] = "stop" -> "stop"
                                               [] err[n] = "context" -> "panic"
                                               [] OTHER -> "fatal"]
    /\ UNCHANGED <<cancelled, done, chan, op, cases, watcher, stopped, own, unsent, under, exits>>

(***************************************************************************)
(* The end of runFunc: it closes stop, and only then looks at env.done,    *)
(* unless the error is that of env.Stop or env.Fatal.  The machine is not  *)
(* used again: its vm.cases are forgotten.                                 *)
(***************************************************************************)
\* Mutant: an error of env.Stop or env.Fatal leaves stop open.
ClosesLessOften(m) ==
    /\ at[m] = "ended"
    /\ watcher' = IF watcher[m] = "waiting" /\ err[m] \notin {"stop", "fatal"}
                  THEN [watcher EXCEPT ![m] = "told"] ELSE watcher
    /\ at' = [at EXCEPT ![m] = IF err[m] \in {"stop", "fatal"} THEN "over" ELSE "closed"]
    /\ cases' = [cases EXCEPT ![m] = <<>>]
    /\ UNCHANGED <<cancelled, done, chan, op, err, caller, stopped, own, unsent, under, exits>>

Closes(m) ==
    /\ at[m] = "ended"
    /\ watcher' = IF watcher[m] = "waiting" THEN [watcher EXCEPT ![m] = "told"] ELSE watcher
    /\ at' = [at EXCEPT ![m] = IF err[m] \in {"stop", "fatal"} THEN "over" ELSE "closed"]
    /\ cases' = [cases EXCEPT ![m] = <<>>]
    /\ UNCHANGED <<cancelled, done, chan, op, err, caller, stopped, own, unsent, under, exits>>

Returns(m) ==
    /\ at[m] = "closed"
    /\ at' = [at EXCEPT ![m] = "over"]
    /\ err' = IF done THEN [err EXCEPT ![m] = "context"] ELSE err
    /\ UNCHANGED <<cancelled, done, chan, op, cases, watcher, caller, stopped, own, unsent, under, exits>>

AllOver ==
    /\ \A m \in Machines : at[m] \in {"none", "over"} /\ watcher[m] \in {"none", "ended"}
    /\ UNCHANGED vars

Machine(m) ==
    \/ StopsAtHead(m) \/ Finishes(m) \/ Exits(m)
    \/ OpSend(m) \/ OpReceive(m) \/ OpSelect(m) \/ OpClose(m)
    \/ Completes(m) \/ StopsInSelect(m) \/ SendPanics(m)
    \/ OpGo(m) \/ CallsBack(m) \/ CallbackReturns(m)
    \/ Closes(m) \/ Returns(m)

Watcher(m) == Watch(m) \/ WatcherEnds(m)

Next == Cancel \/ AllOver \/ \E m \in Machines : Machine(m) \/ Watcher(m)

Spec == Init /\ [][Next]_vars

\* What the goroutines of the Go program, and not the instructions of the Scriggo
\* program, have still to do.
Progress(m) ==
    \/ StopsAtHead(m) \/ Completes(m) \/ StopsInSelect(m) \/ SendPanics(m)
    \/ CallbackReturns(m) \/ Closes(m) \/ Returns(m)

FairSpec ==
    Spec /\ \A m \in Machines : WF_vars(Progress(m)) /\ WF_vars(Watcher(m))

-----------------------------------------------------------------------------
(***************************************************************************)
(* Properties.                                                             *)
(***************************************************************************)

\* A machine that was stopped before the end of its function says so, with the error of
\* the context: Run never returns nil, or a panic, for a program that was cut short, even
\* if its watcher has not run yet.
StoppedSaysSo == \A m \in Machines : (at[m] = "over" /\ stopped[m]) => err[m] = "context"

\* The error of the context is returned only if the context was cancelled.
OnlyIfCancelled == \A m \in Machines : err[m] = "context" => cancelled

\* env.Stop and env.Fatal, called by the program or by a function that it had called
\* back, decide how Run ends, also when the context is cancelled meanwhile.
ExitReachesRun == (at[1] = "over" /\ exits # {}) => exits = {err[1]}

\* A machine waits only in the cases of its own operation, if it never panicked
\* sending on a closed channel.
WaitsInItsCases ==
    \A m \in Machines : (at[m] = "wait" /\ ~unsent[m]) => cases[m] = own[m]

\* After the cancellation every machine ends, Run's and those of goroutines.
CancelledEnds == cancelled ~> \A m \in Machines : at[m] \in {"none", "over"}

\* No watcher outlives its machine.
WatchersEnd == \A m \in Machines : (at[m] = "over") ~> (watcher[m] = "ended")
=============================================================================
