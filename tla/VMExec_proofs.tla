---------------------------- MODULE VMExec_proofs ----------------------------
(***************************************************************************)
(* How a machine ends, for any number of machines and of channels: a       *)
(* machine that was stopped says so, only a cancelled context is blamed,   *)
(* and an exit reaches Run through the machines that wait for it.  An      *)
(* operation on channels waits in its own cases.                           *)
(***************************************************************************)
EXTENDS VMExec, TLAPS

Case == CommCases \cup {DoneCase, DefaultCase}

Types ==
    /\ cancelled \in BOOLEAN /\ done \in BOOLEAN
    /\ at \in [Machines -> Places]
    /\ op \in [Machines -> {"none", "send", "recv", "select"}]
    /\ cases \in [Machines -> Seq(Case)]
    /\ watcher \in [Machines -> {"none", "waiting", "told", "ended"}]
    /\ err \in [Machines -> Errors]
    /\ stopped \in [Machines -> BOOLEAN]

\* What is known of machine m from the moment that it is stopped.
Honest(m) ==
    /\ stopped[m] => at[m] \in {"ended", "closed", "over"}
    /\ (stopped[m] /\ at[m] \in {"ended", "closed"}) => done /\ err[m] = "nil"
    /\ (stopped[m] /\ at[m] = "over") => err[m] = "context"
    /\ err[m] = "context" => cancelled

\* vm.cases is empty, or a send has panicked and left its two cases.
Left(cs) == cs = <<>> \/ (Len(cs) >= 2 /\ cs[2] = DoneCase)

\* The index that an operation takes for the done case is one.
DoneThere(m) ==
    /\ at[m] \in {"none", "run", "call"} => Left(cases[m])
    /\ at[m] = "wait" => DoneIndex(m) \in 1..Len(cases[m]) /\ cases[m][DoneIndex(m)] = DoneCase
    /\ (at[m] = "wait" /\ op[m] = "send") => Len(cases[m]) >= 2

EndInv ==
    /\ Types
    /\ done => cancelled
    /\ \A m \in Machines : Honest(m) /\ DoneThere(m)

USE DEF Machines

LEMMA EndInit == Init => EndInv
  <1> SUFFICES ASSUME Init PROVE EndInv
    OBVIOUS
  <1>1. Types
    <2>1. <<>> \in Seq(Case)
      OBVIOUS
    <2>2. cases \in [Machines -> Seq(Case)]
      BY <2>1 DEF Init
    <2>3. /\ at \in [Machines -> Places]
          /\ op \in [Machines -> {"none", "send", "recv", "select"}]
          /\ watcher \in [Machines -> {"none", "waiting", "told", "ended"}]
          /\ err \in [Machines -> Errors]
      BY DEF Init, Places, Errors
    <2>4. cancelled \in BOOLEAN /\ done \in BOOLEAN /\ stopped \in [Machines -> BOOLEAN]
      BY DEF Init
    <2> QED
      BY <2>2, <2>3, <2>4 DEF Types
  <1>2. ASSUME NEW m \in Machines PROVE Honest(m) /\ DoneThere(m)
    BY <1>2 DEF Init, Honest, DoneThere, Left
  <1> QED
    BY <1>1, <1>2 DEF EndInv, Init

\* reflect.Select chooses the done case only if the context is cancelled.
LEMMA DoneIsCancelled ==
    ASSUME EndInv, NEW m \in Machines, at[m] = "wait", DoneIndex(m) \in Choosable(cases[m])
    PROVE  cancelled
  <1> DEFINE c == cases[m][DoneIndex(m)]
  <1>1. c = DoneCase
    BY DEF EndInv, DoneThere
  <1>2. c # DefaultCase
    BY <1>1 DEF DoneCase, DefaultCase
  <1>3. Ready(c)
    BY <1>2 DEF Choosable
  <1> QED
    BY <1>1, <1>3 DEF Ready, DoneCase

\* The machines that a step leaves where they are stay as they were.
LEMMA OthersStay ==
    ASSUME EndInv, NEW n \in Machines, cancelled => cancelled', done => done',
           at'[n] = at[n], op'[n] = op[n], cases'[n] = cases[n], err'[n] = err[n],
           stopped'[n] = stopped[n]
    PROVE  Honest(n)' /\ DoneThere(n)'
  BY DEF EndInv, Honest, DoneThere, DoneIndex

LEMMA CancelEnd == ASSUME EndInv, Cancel PROVE EndInv'
  <1>1. Types' /\ (done => cancelled)'
    BY DEF EndInv, Types, Cancel, mvars
  <1>2. ASSUME NEW n \in Machines PROVE Honest(n)' /\ DoneThere(n)'
    BY OthersStay DEF Cancel, mvars
  <1> QED
    BY <1>1, <1>2 DEF EndInv

LEMMA WatcherEnd == ASSUME EndInv, NEW m \in Machines, Watcher(m) PROVE EndInv'
  <1>1. watcher' = [watcher EXCEPT ![m] = "ended"]
        /\ UNCHANGED <<cancelled, at, op, cases, err, stopped>>
    BY DEF Watcher, Watch, WatcherEnds
  <1>2. done' = done \/ (done' = TRUE /\ cancelled)
    BY DEF Watcher, Watch, WatcherEnds
  <1>3. Types' /\ (done => cancelled)'
    <2>1. done' \in BOOLEAN /\ (done => cancelled)'
      <3>1. CASE done' = done
        BY <1>1, <3>1 DEF EndInv, Types
      <3>2. CASE done' = TRUE /\ cancelled
        BY <1>1, <3>2
      <3> QED
        BY <1>2, <3>1, <3>2
    <2>2. watcher' \in [Machines -> {"none", "waiting", "told", "ended"}]
      BY <1>1 DEF EndInv, Types
    <2> QED
      BY <1>1, <2>1, <2>2 DEF EndInv, Types
  <1>4. ASSUME NEW n \in Machines PROVE Honest(n)' /\ DoneThere(n)'
    BY <1>1, <1>2, OthersStay
  <1> QED
    BY <1>3, <1>4 DEF EndInv

\* A machine that leaves vm.run on its own was not stopped.
LEMMA EndsEnd ==
    ASSUME EndInv, NEW m \in Machines, NEW e \in {"nil", "panic", "stop", "fatal"}, Ends(m, e),
           at[m] \in {"run", "wait"}, UNCHANGED <<cancelled, done, stopped>>
    PROVE  EndInv'
  <1>1. Types' /\ (done => cancelled)'
    BY DEF EndInv, Types, Ends, Leaves, Places, Errors
  <1>2. ASSUME NEW n \in Machines PROVE Honest(n)' /\ DoneThere(n)'
    <2>1. CASE n = m
      BY <2>1 DEF EndInv, Types, Ends, Leaves, Honest, DoneThere
    <2>2. CASE n # m
      BY <2>2, OthersStay DEF EndInv, Types, Ends, Leaves
    <2> QED
      BY <2>1, <2>2
  <1> QED
    BY <1>1, <1>2 DEF EndInv

LEMMA StopsEnd ==
    ASSUME EndInv, NEW m \in Machines, Stops(m), cancelled, cancelled' = cancelled
    PROVE  EndInv'
  <1>1. Types' /\ (done => cancelled)'
    BY DEF EndInv, Types, Stops, Ends, Leaves, Places, Errors
  <1>2. ASSUME NEW n \in Machines PROVE Honest(n)' /\ DoneThere(n)'
    <2>1. CASE n = m
      BY <2>1 DEF EndInv, Types, Stops, Ends, Leaves, Honest, DoneThere
    <2>2. CASE n # m
      BY <2>2, OthersStay DEF EndInv, Types, Stops, Ends, Leaves
    <2> QED
      BY <2>1, <2>2
  <1> QED
    BY <1>1, <1>2 DEF EndInv

\* An operation that waits has its done case where it looks for it.
LEMMA WaitsEnd ==
    ASSUME EndInv, NEW m \in Machines, at[m] = "run",
           NEW o \in {"send", "recv", "select"}, NEW new \in Seq(Case), Len(new) >= 1,
           new[Len(new)] = DoneCase, o # "select" => Len(new) = 2,
           WaitsIn(m, o, new, cases[m] \o new)
    PROVE  EndInv'
  <1> DEFINE all == cases[m] \o new
  <1>1. cases[m] \in Seq(Case) /\ Left(cases[m])
    BY DEF EndInv, Types, DoneThere
  <1>2. all \in Seq(Case) /\ Len(all) = Len(cases[m]) + Len(new)
        /\ all[Len(all)] = DoneCase /\ Len(all) >= 1
    BY <1>1
  <1>3. o # "select" => Len(all) >= 2 /\ all[2] = DoneCase
    <2>1. CASE cases[m] = <<>>
      BY <1>1, <1>2, <2>1
    <2>2. CASE cases[m] # <<>>
      BY <1>1, <2>2 DEF Left
    <2> QED
      BY <2>1, <2>2
  <1>4. /\ at' = [at EXCEPT ![m] = "wait"] /\ op' = [op EXCEPT ![m] = o]
        /\ cases' = [cases EXCEPT ![m] = all]
        /\ UNCHANGED <<cancelled, done, watcher, err, stopped>>
    BY DEF WaitsIn
  <1> HIDE DEF all
  <1>5. Types' /\ (done => cancelled)'
    BY <1>2, <1>4 DEF EndInv, Types, Places
  <1>6. ASSUME NEW n \in Machines PROVE Honest(n)' /\ DoneThere(n)'
    <2>1. CASE n = m
      <3>1. at'[n] = "wait" /\ op'[n] = o /\ cases'[n] = all
        BY <1>4, <2>1 DEF EndInv, Types
      <3>2. Honest(n)'
        BY <1>4, <2>1, <3>1 DEF EndInv, Honest
      <3>3. DoneThere(n)'
        BY <1>2, <1>3, <3>1 DEF DoneThere, DoneIndex
      <3> QED
        BY <3>2, <3>3
    <2>2. CASE n # m
      BY <1>4, <2>2, OthersStay DEF EndInv, Types
    <2> QED
      BY <2>1, <2>2
  <1> QED
    BY <1>5, <1>6 DEF EndInv

LEMMA OpSendEnd == ASSUME EndInv, NEW m \in Machines, OpSend(m) PROVE EndInv'
  <1>1. PICK c \in Chans :
           LET new == <<[dir |-> "send", chan |-> c], DoneCase>>
           IN  WaitsIn(m, "send", new, cases[m] \o new)
    BY DEF OpSend
  <1> DEFINE new == <<[dir |-> "send", chan |-> c], DoneCase>>
  <1>2. new \in Seq(Case) /\ Len(new) = 2 /\ new[2] = DoneCase
    BY DEF Case, CommCases
  <1>3. at[m] = "run"
    BY DEF OpSend, Executes
  <1>4. WaitsIn(m, "send", new, cases[m] \o new)
    BY <1>1
  <1>5. Len(new) >= 1 /\ new[Len(new)] = DoneCase
    BY <1>2
  <1> HIDE DEF new
  <1> QED
    BY <1>2, <1>3, <1>4, <1>5, WaitsEnd

LEMMA OpReceiveEnd == ASSUME EndInv, NEW m \in Machines, OpReceive(m) PROVE EndInv'
  <1>1. PICK c \in Chans :
           LET new == <<[dir |-> "recv", chan |-> c], DoneCase>>
           IN  WaitsIn(m, "recv", new, cases[m] \o new)
    BY DEF OpReceive
  <1> DEFINE new == <<[dir |-> "recv", chan |-> c], DoneCase>>
  <1>2. new \in Seq(Case) /\ Len(new) = 2 /\ new[2] = DoneCase
    BY DEF Case, CommCases
  <1>3. at[m] = "run"
    BY DEF OpReceive, Executes
  <1>4. WaitsIn(m, "recv", new, cases[m] \o new)
    BY <1>1
  <1>5. Len(new) >= 1 /\ new[Len(new)] = DoneCase
    BY <1>2
  <1> HIDE DEF new
  <1> QED
    BY <1>2, <1>3, <1>4, <1>5, WaitsEnd

LEMMA OpSelectEnd == ASSUME EndInv, NEW m \in Machines, OpSelect(m) PROVE EndInv'
  <1>1. PICK n \in 0..2 : \E comm \in [1..n -> CommCases \cup {DefaultCase}] :
           LET new == Append(comm, DoneCase)
           IN  WaitsIn(m, "select", new, cases[m] \o new)
    BY DEF OpSelect
  <1>2. PICK comm \in [1..n -> CommCases \cup {DefaultCase}] :
           LET new == Append(comm, DoneCase)
           IN  WaitsIn(m, "select", new, cases[m] \o new)
    BY <1>1
  <1> DEFINE new == Append(comm, DoneCase)
  <1>3. comm \in Seq(Case)
    BY DEF Case
  <1>4. new \in Seq(Case) /\ Len(new) >= 1 /\ new[Len(new)] = DoneCase
    BY <1>3 DEF Case
  <1>5. at[m] = "run"
    BY DEF OpSelect, Executes
  <1>6. WaitsIn(m, "select", new, cases[m] \o new)
    BY <1>2
  <1> HIDE DEF new
  <1> QED
    BY <1>4, <1>5, <1>6, WaitsEnd

LEMMA CompletesEnd == ASSUME EndInv, NEW m \in Machines, Completes(m) PROVE EndInv'
  <1>1. /\ at[m] = "wait" /\ at' = [at EXCEPT ![m] = "run"] /\ op' = [op EXCEPT ![m] = "none"]
        /\ cases' = [cases EXCEPT ![m] = <<>>]
        /\ UNCHANGED <<cancelled, done, watcher, err, stopped>>
    BY DEF Completes, Leaves
  <1>2. Types' /\ (done => cancelled)'
    BY <1>1 DEF EndInv, Types, Places
  <1>3. ASSUME NEW n \in Machines PROVE Honest(n)' /\ DoneThere(n)'
    <2>1. CASE n = m
      BY <1>1, <2>1 DEF EndInv, Types, Honest, DoneThere, Left
    <2>2. CASE n # m
      BY <1>1, <2>2, OthersStay DEF EndInv, Types
    <2> QED
      BY <2>1, <2>2
  <1> QED
    BY <1>2, <1>3 DEF EndInv

LEMMA SendPanicsEnd == ASSUME EndInv, NEW m \in Machines, SendPanics(m) PROVE EndInv'
  <1> DEFINE Panics(place, e) ==
        /\ at' = [at EXCEPT ![m] = place] /\ op' = [op EXCEPT ![m] = "none"]
        /\ err' = [err EXCEPT ![m] = e]
        /\ place = "run" => op[m] = "send"
        /\ e = "context" => err[m] = "context"
  <1>1. \E place \in {"run", "ended"}, e \in Errors : Panics(place, e)
    <2>1. CASE op[m] = "send" /\ Leaves(m, "run") /\ UNCHANGED err
      <3>1. err[m] \in Errors /\ err' = [err EXCEPT ![m] = err[m]]
        BY <2>1 DEF EndInv, Types
      <3>2. Panics("run", err[m])
        BY <2>1, <3>1 DEF Leaves
      <3> QED
        BY <3>1, <3>2
    <2>2. CASE op[m] = "send" /\ Leaves(m, "ended") /\ err' = [err EXCEPT ![m] = "panic"]
      <3>1. Panics("ended", "panic") /\ "panic" \in Errors
        BY <2>2 DEF Leaves, Errors
      <3> QED
        BY <3>1
    <2>3. CASE op[m] # "send" /\ Leaves(m, "ended") /\ err' = [err EXCEPT ![m] = "fatal"]
      <3>1. Panics("ended", "fatal") /\ "fatal" \in Errors
        BY <2>3 DEF Leaves, Errors
      <3> QED
        BY <3>1
    <2> QED
      BY <2>1, <2>2, <2>3 DEF SendPanics
  <1>2. PICK place \in {"run", "ended"}, e \in Errors : Panics(place, e)
    BY <1>1
  <1>3. at[m] = "wait" /\ UNCHANGED <<cancelled, done, cases, watcher, stopped>>
    BY DEF SendPanics
  <1>4. Types' /\ (done => cancelled)'
    BY <1>2, <1>3 DEF EndInv, Types, Places
  <1>5. ASSUME NEW n \in Machines PROVE Honest(n)' /\ DoneThere(n)'
    <2>1. CASE n = m
      <3>1. at'[n] = place /\ err'[n] = e /\ cases'[n] = cases[n] /\ stopped'[n] = stopped[n]
        BY <1>2, <1>3, <2>1 DEF EndInv, Types
      <3>2. Honest(n)'
        BY <1>2, <1>3, <2>1, <3>1 DEF EndInv, Honest
      <3>3. DoneThere(n)'
        BY <1>2, <1>3, <2>1, <3>1 DEF EndInv, DoneThere, DoneIndex, Left
      <3> QED
        BY <3>2, <3>3
    <2>2. CASE n # m
      BY <1>2, <1>3, <2>2, OthersStay DEF EndInv, Types
    <2> QED
      BY <2>1, <2>2
  <1> QED
    BY <1>4, <1>5 DEF EndInv

\* Another machine is created: m waits for it or goes on.
LEMMA CreatesEnd ==
    ASSUME EndInv, NEW m \in Machines, NEW n \in Machines, NEW from, at[m] = "run",
           NEW place \in {"run", "call"}, Creates(n, from, [at EXCEPT ![m] = place])
    PROVE  EndInv'
  <1>1. /\ at[n] = "none" /\ n # m
        /\ at' = [at EXCEPT ![m] = place, ![n] = "run"]
        /\ watcher' = [watcher EXCEPT ![n] = "waiting"]
        /\ UNCHANGED <<cancelled, done, op, cases, err, stopped>>
    BY DEF Creates, EndInv, Types
  <1>2. Types' /\ (done => cancelled)'
    BY <1>1 DEF EndInv, Types, Places
  <1>3. ASSUME NEW k \in Machines PROVE Honest(k)' /\ DoneThere(k)'
    <2>1. CASE k \in {m, n}
      <3>1. at'[k] \in {"run", "call"} /\ at[k] \in {"none", "run"}
        BY <1>1, <2>1 DEF EndInv, Types
      <3> QED
        BY <1>1, <3>1 DEF EndInv, Honest, DoneThere
    <2>2. CASE k \notin {m, n}
      BY <1>1, <2>2, OthersStay DEF EndInv, Types
    <2> QED
      BY <2>1, <2>2
  <1> QED
    BY <1>2, <1>3 DEF EndInv

\* A machine is not stopped while it waits for the one that it called back.
LEMMA CallbackReturnsEnd == ASSUME EndInv, NEW m \in Machines, CallbackReturns(m) PROVE EndInv'
  <1> DEFINE Goes(place, e) ==
        /\ at' = [at EXCEPT ![m] = place]
        /\ err' = [err EXCEPT ![m] = e]
        /\ e = "context" => err[m] = "context"
  <1>1. at[m] = "call" /\ UNCHANGED <<cancelled, done, op, cases, watcher, stopped>>
    BY DEF CallbackReturns
  <1>2. PICK n \in Machines :
           \/ at' = [at EXCEPT ![m] = "run"] /\ UNCHANGED err
           \/ /\ at' = [at EXCEPT ![m] = "ended"]
              /\ err' = [err EXCEPT ![m] = CASE err[n] = "stop" -> "stop"
                                             [] err[n] = "context" -> "panic"
                                             [] OTHER -> "fatal"]
    BY DEF CallbackReturns
  <1>3. \E place \in {"run", "ended"}, e \in Errors : Goes(place, e)
    <2>1. CASE at' = [at EXCEPT ![m] = "run"] /\ UNCHANGED err
      <3>1. Goes("run", err[m]) /\ err[m] \in Errors
        BY <2>1 DEF EndInv, Types
      <3> QED
        BY <3>1
    <2>2. CASE at' = [at EXCEPT ![m] = "ended"] /\ ~UNCHANGED err
      <3>1. PICK e \in {"stop", "panic", "fatal"} : err' = [err EXCEPT ![m] = e]
        BY <1>2, <2>2
      <3>2. Goes("ended", e) /\ e \in Errors
        BY <2>2, <3>1 DEF Errors
      <3> QED
        BY <3>2
    <2>3. CASE at' = [at EXCEPT ![m] = "ended"] /\ UNCHANGED err
      <3>1. Goes("ended", err[m]) /\ err[m] \in Errors
        BY <2>3 DEF EndInv, Types
      <3> QED
        BY <3>1
    <2> QED
      BY <1>2, <2>1, <2>2, <2>3
  <1>4. PICK place \in {"run", "ended"}, e \in Errors : Goes(place, e)
    BY <1>3
  <1>5. Types' /\ (done => cancelled)'
    BY <1>1, <1>4 DEF EndInv, Types, Places
  <1>6. ASSUME NEW k \in Machines PROVE Honest(k)' /\ DoneThere(k)'
    <2>1. CASE k = m
      <3>1. at'[k] = place /\ err'[k] = e
        BY <1>4, <2>1 DEF EndInv, Types
      <3> QED
        BY <1>1, <1>4, <2>1, <3>1 DEF EndInv, Honest, DoneThere
    <2>2. CASE k # m
      BY <1>1, <1>4, <2>2, OthersStay DEF EndInv, Types
    <2> QED
      BY <2>1, <2>2
  <1> QED
    BY <1>5, <1>6 DEF EndInv

LEMMA ClosesEnd == ASSUME EndInv, NEW m \in Machines, Closes(m) PROVE EndInv'
  <1>1. PICK place \in {"over", "closed"} :
           /\ at' = [at EXCEPT ![m] = place]
           /\ place = "over" <=> err[m] \in {"stop", "fatal"}
    BY DEF Closes
  <1>2. /\ at[m] = "ended" /\ cases' = [cases EXCEPT ![m] = <<>>]
        /\ \/ watcher' = [watcher EXCEPT ![m] = "told"]
           \/ watcher' = watcher
        /\ UNCHANGED <<cancelled, done, op, err, stopped>>
    BY DEF Closes
  <1>3. Types' /\ (done => cancelled)'
    BY <1>1, <1>2 DEF EndInv, Types, Places
  <1>4. ASSUME NEW k \in Machines PROVE Honest(k)' /\ DoneThere(k)'
    <2>1. CASE k = m
      <3>1. at'[k] = place /\ cases'[k] = <<>>
        BY <1>1, <1>2, <2>1 DEF EndInv, Types
      <3> QED
        BY <1>1, <1>2, <2>1, <3>1 DEF EndInv, Honest, DoneThere
    <2>2. CASE k # m
      BY <1>1, <1>2, <2>2, OthersStay DEF EndInv, Types
    <2> QED
      BY <2>1, <2>2
  <1> QED
    BY <1>3, <1>4 DEF EndInv

LEMMA ReturnsEnd == ASSUME EndInv, NEW m \in Machines, Returns(m) PROVE EndInv'
  <1>1. /\ at[m] = "closed" /\ at' = [at EXCEPT ![m] = "over"]
        /\ UNCHANGED <<cancelled, done, op, cases, watcher, stopped>>
        /\ err' = IF done THEN [err EXCEPT ![m] = "context"] ELSE err
    BY DEF Returns
  <1>2. Types' /\ (done => cancelled)'
    BY <1>1 DEF EndInv, Types, Places, Errors
  <1>3. ASSUME NEW k \in Machines PROVE Honest(k)' /\ DoneThere(k)'
    <2>1. CASE k = m
      <3>1. at'[k] = "over" /\ err'[k] = IF done THEN "context" ELSE err[k]
        BY <1>1, <2>1 DEF EndInv, Types
      <3> QED
        BY <1>1, <2>1, <3>1 DEF EndInv, Honest, DoneThere
    <2>2. CASE k # m
      BY <1>1, <2>2, OthersStay DEF EndInv, Types
    <2> QED
      BY <2>1, <2>2
  <1> QED
    BY <1>2, <1>3 DEF EndInv

\* Neither the machines nor their cases are disturbed.
LEMMA CloseEnd == ASSUME EndInv, NEW m \in Machines, OpClose(m) PROVE EndInv'
  <1>1. Types' /\ (done => cancelled)'
    BY DEF EndInv, Types, OpClose, mvars
  <1>2. ASSUME NEW n \in Machines PROVE Honest(n)' /\ DoneThere(n)'
    BY OthersStay DEF OpClose, mvars
  <1> QED
    BY <1>1, <1>2 DEF EndInv

LEMMA MachineEnd == ASSUME EndInv, NEW m \in Machines, Machine(m) PROVE EndInv'
  <1>1. CASE StopsAtHead(m)
    <2>1. cancelled
      BY <1>1 DEF StopsAtHead, EndInv
    <2> QED
      BY <1>1, <2>1, StopsEnd DEF StopsAtHead
  <1>2. CASE StopsInSelect(m)
    <2>1. cancelled
      BY <1>2, DoneIsCancelled DEF StopsInSelect
    <2> QED
      BY <1>2, <2>1, StopsEnd DEF StopsInSelect
  <1>3. CASE Finishes(m)
    <2>1. PICK e \in {"nil", "panic"} : Ends(m, e)
      BY <1>3 DEF Finishes
    <2> QED
      BY <1>3, <2>1, EndsEnd DEF Finishes, Executes
  <1>4. CASE Exits(m)
    <2>1. PICK e \in {"stop", "fatal"} : Ends(m, e)
      BY <1>4 DEF Exits
    <2> QED
      BY <1>4, <2>1, EndsEnd DEF Exits, Executes
  <1>5. CASE OpGo(m)
    <2>1. PICK n \in Machines : Creates(n, 0, at)
      BY <1>5 DEF OpGo
    <2>2. at = [at EXCEPT ![m] = "run"] /\ at[m] = "run"
      BY <1>5 DEF OpGo, Executes, EndInv, Types
    <2>3. Creates(n, 0, [at EXCEPT ![m] = "run"])
      BY <2>1, <2>2
    <2> QED
      BY <2>2, <2>3, CreatesEnd
  <1>6. CASE CallsBack(m)
    <2>1. PICK n \in Machines : Creates(n, m, [at EXCEPT ![m] = "call"])
      BY <1>6 DEF CallsBack
    <2> QED
      BY <1>6, <2>1, CreatesEnd DEF CallsBack, Executes
  <1>7. CASE OpSend(m) \/ OpReceive(m) \/ OpSelect(m) \/ OpClose(m)
    BY <1>7, OpSendEnd, OpReceiveEnd, OpSelectEnd, CloseEnd
  <1>8. CASE Completes(m) \/ SendPanics(m) \/ CallbackReturns(m) \/ Closes(m) \/ Returns(m)
    BY <1>8, CompletesEnd, SendPanicsEnd, CallbackReturnsEnd, ClosesEnd, ReturnsEnd
  <1> QED
    BY <1>1, <1>2, <1>3, <1>4, <1>5, <1>6, <1>7, <1>8 DEF Machine

LEMMA EndStep == EndInv /\ [Next]_vars => EndInv'
  <1> SUFFICES ASSUME EndInv, [Next]_vars PROVE EndInv'
    OBVIOUS
  <1>1. CASE UNCHANGED vars
    <2>1. Types' /\ (done => cancelled)'
      BY <1>1 DEF EndInv, Types, vars, mvars
    <2>2. ASSUME NEW n \in Machines PROVE Honest(n)' /\ DoneThere(n)'
      BY <1>1, OthersStay DEF vars, mvars
    <2> QED
      BY <2>1, <2>2 DEF EndInv
  <1>2. CASE Cancel
    BY <1>2, CancelEnd
  <1>3. CASE \E m \in Machines : Machine(m) \/ Watcher(m)
    BY <1>3, MachineEnd, WatcherEnd
  <1> QED
    BY <1>1, <1>2, <1>3 DEF Next, AllOver

LEMMA EndAlways == Spec => []EndInv
  BY EndInit, EndStep, PTL DEF Spec

\* However many machines share the env, one that was stopped by the cancellation before
\* the end of its function returns the error of the context (runFunc reads env.done after
\* vm.stop has set it, whether or not its watcher has run).
THEOREM StoppedAlwaysSaysSo == Spec => []StoppedSaysSo
  <1>1. EndInv => StoppedSaysSo
    BY DEF EndInv, Honest, StoppedSaysSo
  <1> QED
    BY <1>1, EndAlways, PTL

\* The error of the context is never returned when nobody cancelled it: env.done is set
\* only by a watcher that saw the cancellation or by a machine whose own done case was
\* chosen, at the index where its operation looks for it, even when vm.cases still holds
\* the cases of a send that panicked.
THEOREM ContextErrorOnlyIfCancelled == Spec => []OnlyIfCancelled
  <1>1. EndInv => OnlyIfCancelled
    BY DEF EndInv, Honest, OnlyIfCancelled
  <1> QED
    BY <1>1, EndAlways, PTL

-----------------------------------------------------------------------------
(***************************************************************************)
(* The exit of the program.  The machines that Run waits for are a stack:  *)
(* each of them but the last waits for the one that it called back, and    *)
(* an env.Stop or an env.Fatal is with the last.                           *)
(***************************************************************************)

\* Run still waits for the end of m.
Open(m) == under[m] /\ (m = 1 \/ caller[m] # 0)

\* m has the error of the only exit of the program.
Carries(m) ==
    /\ Open(m) /\ at[m] \in {"ended", "over"}
    /\ err[m] \in {"stop", "fatal"} /\ exits = {err[m]}

Stacked(m) ==
    /\ at[m] = "none" => caller[m] = 0 /\ ~under[m]
    /\ caller[m] # 0 => at[caller[m]] # "none" /\ (under[m] <=> under[caller[m]])
    /\ under[m] /\ at[m] # "over" => Open(m)

OneLast == \A k, l \in Machines : Open(k) /\ Open(l) /\ at[k] # "call" /\ at[l] # "call" => k = l

ExitInv ==
    /\ under \in [Machines -> BOOLEAN] /\ caller \in [Machines -> 0..MaxMachines]
    /\ under[1] /\ caller[1] = 0 /\ at[1] # "none"
    /\ \A m \in Machines : Stacked(m)
    /\ OneLast
    /\ exits # {} => \E m \in Machines : Carries(m)

LEMMA ExitInit == Init => ExitInv
  <1> SUFFICES ASSUME Init PROVE ExitInv
    OBVIOUS
  <1>1. 1 \in Machines /\ MaxMachines \in Nat
    BY ExecAssumption
  <1>2. under \in [Machines -> BOOLEAN] /\ caller \in [Machines -> 0..MaxMachines]
    BY <1>1 DEF Init
  <1>3. under[1] /\ caller[1] = 0 /\ at[1] # "none"
    BY <1>1 DEF Init
  <1>4. ASSUME NEW m \in Machines PROVE Stacked(m) /\ (Open(m) => m = 1)
    BY <1>4 DEF Init, Stacked, Open
  <1>5. OneLast
    BY <1>4 DEF OneLast
  <1>6. exits = {}
    BY DEF Init
  <1> QED
    BY <1>2, <1>3, <1>4, <1>5, <1>6 DEF ExitInv

\* Nothing that says who waits for whom changes.
LEMMA SameExit == ASSUME ExitInv, UNCHANGED <<at, err, caller, under, exits>> PROVE ExitInv'
  BY DEF ExitInv, Stacked, OneLast, Open, Carries

\* A machine in vm.run stays there, waits, or ends with an error that is not of an exit.
Works(m) ==
    /\ at[m] \in {"run", "wait"}
    /\ \E p \in {"run", "wait", "ended"} : at' = [at EXCEPT ![m] = p]
    /\ \E e \in Errors : err' = [err EXCEPT ![m] = e]
    /\ UNCHANGED <<caller, under, exits>>

LEMMA StopsWorks ==
    ASSUME EndInv, NEW m \in Machines, at[m] \in {"run", "wait"}, Stops(m), UNCHANGED exits
    PROVE  Works(m)
  BY DEF Stops, Ends, Leaves, Works, Errors

LEMMA WaitsWorks ==
    ASSUME EndInv, NEW m \in Machines, at[m] = "run", NEW o, NEW new, NEW all, WaitsIn(m, o, new, all)
    PROVE  Works(m)
  <1>1. err' = [err EXCEPT ![m] = err[m]] /\ err[m] \in Errors
    BY DEF EndInv, Types, WaitsIn
  <1> QED
    BY <1>1 DEF WaitsIn, Works

LEMMA MachineWorks ==
    ASSUME EndInv, NEW m \in Machines,
           \/ StopsAtHead(m) \/ StopsInSelect(m) \/ Finishes(m) \/ OpSend(m) \/ OpReceive(m)
           \/ OpSelect(m) \/ Completes(m) \/ SendPanics(m)
    PROVE  Works(m)
  <1>1. err[m] \in Errors /\ err = [err EXCEPT ![m] = err[m]]
    BY DEF EndInv, Types
  <1>2. CASE StopsAtHead(m) \/ StopsInSelect(m)
    BY <1>2, StopsWorks DEF StopsAtHead, StopsInSelect
  <1>3. CASE Finishes(m)
    BY <1>3 DEF Finishes, Executes, Ends, Leaves, Works, Errors
  <1>4. CASE OpSend(m) \/ OpReceive(m)
    BY <1>4, WaitsWorks DEF OpSend, OpReceive, Executes
  <1>5. CASE OpSelect(m)
    BY <1>5, WaitsWorks DEF OpSelect, Executes
  <1>6. CASE Completes(m)
    BY <1>1, <1>6 DEF Completes, Leaves, Works
  <1>7. CASE SendPanics(m)
    BY <1>1, <1>7 DEF SendPanics, Leaves, Works, Errors
  <1> QED
    BY <1>2, <1>3, <1>4, <1>5, <1>6, <1>7

\* A machine that works has no exit behind it: it would not be the last.
LEMMA NoExitYet ==
    ASSUME EndInv, ExitInv, NEW m \in Machines, at[m] \in {"run", "wait"}, under[m]
    PROVE  exits = {}
  <1>1. Open(m) /\ at[m] # "call"
    BY DEF ExitInv, Stacked
  <1>2. ASSUME NEW c \in Machines, Carries(c) PROVE FALSE
    <2>1. Open(c) /\ at[c] # "call" /\ at[c] # at[m]
      BY <1>2 DEF Carries
    <2> QED
      BY <1>1, <2>1 DEF ExitInv, OneLast
  <1> QED
    BY <1>2 DEF ExitInv

LEMMA WorksExit == ASSUME EndInv, ExitInv, NEW m \in Machines, Works(m) PROVE ExitInv'
  <1>1. PICK p \in {"run", "wait", "ended"} : at' = [at EXCEPT ![m] = p]
    BY DEF Works
  <1>2. \A n \in Machines : /\ Open(n)' = Open(n)
                            /\ (at'[n] = "call" <=> at[n] = "call")
                            /\ (at'[n] = "none" <=> at[n] = "none")
                            /\ at'[n] = "over" => at[n] = "over"
    BY <1>1 DEF Works, Open, EndInv, Types
  <1>3. under' \in [Machines -> BOOLEAN] /\ caller' \in [Machines -> 0..MaxMachines] /\ 1 \in Machines
    BY ExecAssumption DEF Works, ExitInv
  <1>4. ASSUME NEW n \in Machines PROVE Stacked(n)'
    <2>1. caller[n] \in 0..MaxMachines /\ Stacked(n)
      BY DEF ExitInv
    <2>2. at[n] # "over" => at'[n] # "over"
      BY <1>2
    <2>3. at'[n] # "over" /\ under[n] => Open(n)
      <3>1. CASE n = m
        BY <2>1, <3>1 DEF Stacked, Works
      <3>2. CASE n # m
        BY <1>1, <2>1, <3>2 DEF Stacked, EndInv, Types
      <3> QED
        BY <3>1, <3>2
    <2> QED
      BY <1>2, <2>1, <2>3 DEF Stacked, Works
  <1>5. OneLast'
    BY <1>2 DEF OneLast, ExitInv
  <1>6. ASSUME exits' # {} PROVE \E c \in Machines : Carries(c)'
    <2>1. exits' = exits
      BY DEF Works
    <2>2. PICK c \in Machines : Carries(c)
      BY <1>6, <2>1 DEF ExitInv
    <2>3. c # m
      BY <2>2 DEF Carries, Works
    <2>4. at'[c] = at[c] /\ err'[c] = err[c]
      BY <1>1, <2>3 DEF Works, EndInv, Types
    <2>5. Carries(c)'
      BY <1>2, <2>1, <2>2, <2>4 DEF Carries
    <2> QED
      BY <2>5
  <1> QED
    BY <1>2, <1>3, <1>4, <1>5, <1>6 DEF ExitInv, Works

\* env.Stop and env.Fatal are of the last machine of the stack.
LEMMA ExitsExit == ASSUME EndInv, ExitInv, NEW m \in Machines, Exits(m) PROVE ExitInv'
  <1>1. PICK e \in {"stop", "fatal"} :
           /\ at' = [at EXCEPT ![m] = "ended"] /\ err' = [err EXCEPT ![m] = e]
           /\ exits' = IF under[m] THEN exits \cup {e} ELSE exits
    BY DEF Exits, Ends, Leaves
  <1>2. at[m] = "run" /\ UNCHANGED <<caller, under>>
    BY DEF Exits, Ends, Executes
  <1>3. \A n \in Machines : /\ Open(n)' = Open(n)
                            /\ (at'[n] = "call" <=> at[n] = "call")
                            /\ (at'[n] = "none" <=> at[n] = "none")
                            /\ n # m => at'[n] = at[n] /\ err'[n] = err[n]
    BY <1>1, <1>2 DEF Open, EndInv, Types
  <1>4. at'[m] = "ended" /\ err'[m] = e
    BY <1>1 DEF EndInv, Types
  <1>5. under' \in [Machines -> BOOLEAN] /\ caller' \in [Machines -> 0..MaxMachines] /\ 1 \in Machines
    BY <1>2, ExecAssumption DEF ExitInv
  <1>6. ASSUME NEW n \in Machines PROVE Stacked(n)'
    <2>1. caller[n] \in 0..MaxMachines /\ Stacked(n)
      BY DEF ExitInv
    <2>2. at'[n] # "over" /\ under[n] => Open(n)
      BY <1>2, <1>3, <1>4, <2>1 DEF Stacked
    <2> QED
      BY <1>2, <1>3, <2>1, <2>2 DEF Stacked
  <1>7. OneLast'
    BY <1>3 DEF OneLast, ExitInv
  <1>8. ASSUME exits' # {} PROVE \E c \in Machines : Carries(c)'
    <2>1. CASE under[m]
      <3>1. exits' = {e}
        BY <1>1, <1>2, <2>1, NoExitYet
      <3>2. Open(m)
        BY <1>2, <2>1 DEF ExitInv, Stacked
      <3>3. Carries(m)'
        BY <1>3, <1>4, <3>1, <3>2 DEF Carries
      <3> QED
        BY <3>3
    <2>2. CASE ~under[m]
      <3>1. exits' = exits
        BY <1>1, <2>2
      <3>2. PICK c \in Machines : Carries(c)
        BY <1>8, <3>1 DEF ExitInv
      <3>3. c # m
        BY <2>2, <3>2 DEF Carries, Open
      <3>4. Carries(c)'
        BY <1>3, <3>1, <3>2, <3>3 DEF Carries
      <3> QED
        BY <3>4
    <2> QED
      BY <2>1, <2>2
  <1> QED
    BY <1>2, <1>3, <1>5, <1>6, <1>7, <1>8 DEF ExitInv

\* A machine that is created is the last of the stack in the place of the one that waits for
\* it, or does not concern Run.
LEMMA CreatesExit ==
    ASSUME EndInv, ExitInv, NEW m \in Machines, NEW n \in Machines, at[m] = "run",
           NEW place \in {"run", "call"}, NEW from \in {0, m}, from = m <=> place = "call",
           Creates(n, from, [at EXCEPT ![m] = place])
    PROVE  ExitInv'
  <1>1. /\ at[n] = "none" /\ n # m
        /\ at' = [at EXCEPT ![m] = place, ![n] = "run"]
        /\ caller' = [caller EXCEPT ![n] = from]
        /\ under' = [under EXCEPT ![n] = from # 0 /\ under[from]]
        /\ UNCHANGED <<err, exits>>
    BY DEF Creates, EndInv, Types
  <1>2. at'[n] = "run" /\ at'[m] = place /\ \A k \in Machines \ {m, n} : at'[k] = at[k]
    BY <1>1 DEF EndInv, Types
  <1>3. /\ caller'[n] = from /\ (under'[n] <=> from = m /\ under[m])
        /\ \A k \in Machines \ {n} : caller'[k] = caller[k] /\ under'[k] = under[k]
    <2>1. m # 0 /\ (from # 0 <=> from = m)
      BY ExecAssumption
    <2>2. under'[n] = (from # 0 /\ under[from])
      BY <1>1 DEF ExitInv
    <2>3. caller'[n] = from
      BY <1>1 DEF ExitInv
    <2>4. \A k \in Machines \ {n} : caller'[k] = caller[k] /\ under'[k] = under[k]
      BY <1>1 DEF ExitInv
    <2>5. under'[n] <=> from = m /\ under[m]
      <3>1. CASE from = m
        BY <2>1, <2>2, <3>1
      <3>2. CASE from # m
        BY <2>1, <2>2, <3>2
      <3> QED
        BY <3>1, <3>2
    <2> QED
      BY <2>3, <2>4, <2>5
  <1>4. caller[n] = 0 /\ ~under[n] /\ n # 1 /\ m # 0 /\ 1 \in Machines
    BY <1>1, ExecAssumption DEF ExitInv, Stacked
  <1>5. /\ \A k \in Machines \ {n} : Open(k)' <=> Open(k)
        /\ Open(n)' <=> from = m /\ under[m]
        /\ ~Open(n)
    BY <1>3, <1>4 DEF Open
  <1>6. under' \in [Machines -> BOOLEAN] /\ caller' \in [Machines -> 0..MaxMachines]
    <2>1. from \in 0..MaxMachines
      BY ExecAssumption
    <2>2. caller' \in [Machines -> 0..MaxMachines]
      BY <1>1, <2>1 DEF ExitInv
    <2>3. (from # 0 /\ under[from]) \in BOOLEAN
      OBVIOUS
    <2>4. under' \in [Machines -> BOOLEAN]
      BY <1>1, <2>3 DEF ExitInv
    <2> QED
      BY <2>2, <2>4
  <1>7. ASSUME NEW k \in Machines PROVE Stacked(k)'
    <2>1. CASE k = n
      BY <1>1, <1>2, <1>3, <1>4, <1>5, <2>1 DEF Stacked
    <2>2. CASE k # n
      <3>1. Stacked(k) /\ caller[k] \in 0..MaxMachines
        BY DEF ExitInv
      <3>2. at'[k] = at[k] \/ (k = m /\ at'[k] \in {"run", "call"})
        BY <1>2, <2>2
      <3>3. under'[k] /\ at'[k] # "over" => Open(k)'
        BY <1>1, <1>3, <1>5, <2>2, <3>1, <3>2 DEF Stacked
      <3>4. caller[k] # 0 => caller[k] # n /\ caller[k] \in Machines
        BY <1>1, <3>1 DEF Stacked
      <3>5. caller[k] # 0 => at'[caller[k]] # "none" /\ (under'[k] <=> under'[caller[k]])
        BY <1>2, <1>3, <2>2, <3>1, <3>4 DEF Stacked
      <3>6. at'[k] = "none" => caller[k] = 0 /\ ~under[k]
        BY <3>1, <3>2 DEF Stacked
      <3> QED
        BY <1>3, <2>2, <3>3, <3>5, <3>6 DEF Stacked
    <2> QED
      BY <2>1, <2>2
  <1>8. ASSUME NEW k \in Machines, NEW l \in Machines, Open(k)', Open(l)', at'[k] # "call", at'[l] # "call"
        PROVE  k = l
    <2>1. CASE k # n /\ l # n
      BY <1>1, <1>2, <1>5, <1>8, <2>1 DEF ExitInv, OneLast
    <2>2. ASSUME NEW i \in Machines, i # n, Open(i), at'[i] # "call", Open(n)' PROVE FALSE
      <3>1. from = m /\ under[m] /\ place = "call" /\ i # m
        BY <1>2, <1>5, <2>2
      <3>2. Open(m) /\ at[m] # "call" /\ at[i] # "call"
        BY <1>2, <2>2, <3>1 DEF ExitInv, Stacked
      <3> QED
        BY <2>2, <3>1, <3>2 DEF ExitInv, OneLast
    <2> QED
      BY <1>5, <1>8, <2>1, <2>2
  <1>9. ASSUME exits' # {} PROVE \E c \in Machines : Carries(c)'
    <2>1. PICK c \in Machines : Carries(c)
      BY <1>1, <1>9 DEF ExitInv
    <2>2. c # m /\ c # n
      BY <1>1, <2>1 DEF Carries
    <2>3. Carries(c)'
      BY <1>1, <1>2, <1>5, <2>1, <2>2 DEF Carries
    <2> QED
      BY <2>3
  <1>10. under'[1] /\ caller'[1] = 0 /\ at'[1] # "none"
    BY <1>2, <1>3, <1>4 DEF ExitInv
  <1>11. OneLast'
    BY <1>8 DEF OneLast
  <1> QED
    BY <1>6, <1>7, <1>9, <1>10, <1>11 DEF ExitInv

\* The machine that waited is again the last of the stack, and takes the exit of the one that
\* it called back.
LEMMA CallbackReturnsExit ==
    ASSUME EndInv, ExitInv, NEW m \in Machines, CallbackReturns(m) PROVE ExitInv'
  <1>1. PICK n \in Machines :
           /\ caller[n] = m /\ at[n] = "over"
           /\ caller' = [caller EXCEPT ![n] = 0]
           /\ \/ /\ err[n] \in {"nil", "context"}
                 /\ at' = [at EXCEPT ![m] = "run"]
                 /\ UNCHANGED err
              \/ /\ err[n] # "nil"
                 /\ at' = [at EXCEPT ![m] = "ended"]
                 /\ err' = [err EXCEPT ![m] = CASE err[n] = "stop" -> "stop"
                                                [] err[n] = "context" -> "panic"
                                                [] OTHER -> "fatal"]
    BY DEF CallbackReturns
  <1>2. at[m] = "call" /\ UNCHANGED <<under, exits>> /\ 1 \in Machines /\ m # 0
    BY ExecAssumption DEF CallbackReturns
  <1>3. /\ at'[m] \in {"run", "ended"}
        /\ \A k \in Machines \ {m} : at'[k] = at[k] /\ err'[k] = err[k]
        /\ err[n] \in {"stop", "fatal"} => at'[m] = "ended" /\ err'[m] = err[n]
    BY <1>1, <1>2 DEF EndInv, Types
  <1>4. caller'[n] = 0 /\ \A k \in Machines \ {n} : caller'[k] = caller[k]
    BY <1>1 DEF ExitInv
  <1>5. n # 1 /\ n # m
    BY <1>1, <1>2 DEF ExitInv
  <1>6. ~Open(n)' /\ \A k \in Machines \ {n} : Open(k)' <=> Open(k)
    BY <1>2, <1>4, <1>5 DEF Open
  <1>7. under[n] <=> under[m]
    BY <1>1, <1>2 DEF ExitInv, Stacked
  <1>8. under[m] => Open(m) /\ Open(n)
    BY <1>1, <1>2, <1>7 DEF ExitInv, Stacked, Open
  <1>9. under' \in [Machines -> BOOLEAN] /\ caller' \in [Machines -> 0..MaxMachines]
    BY <1>1, <1>2 DEF ExitInv
  <1>10. ASSUME NEW k \in Machines PROVE Stacked(k)'
    <2>1. Stacked(k) /\ caller[k] \in 0..MaxMachines
      BY DEF ExitInv
    <2>2. at'[k] = "none" => at[k] = "none"
      BY <1>3
    <2>3. caller[k] # 0 => at[caller[k]] # "none" /\ at'[caller[k]] # "none"
      BY <1>3, <2>1 DEF Stacked
    <2>4. under[k] /\ at'[k] # "over" => Open(k)'
      BY <1>1, <1>2, <1>3, <1>6, <2>1, <1>5 DEF Stacked
    <2>5. caller'[k] = 0 \/ caller'[k] = caller[k]
      BY <1>4
    <2> QED
      BY <1>2, <2>1, <2>2, <2>3, <2>4, <2>5 DEF Stacked
  <1>11. ASSUME NEW k \in Machines, NEW l \in Machines, Open(k)', Open(l)', at'[k] # "call", at'[l] # "call"
         PROVE  k = l
    <2>1. k # n /\ l # n /\ Open(k) /\ Open(l)
      BY <1>6, <1>11
    <2>2. ASSUME NEW i \in Machines, i # m, i # n, Open(i), at'[i] # "call", under[m] PROVE FALSE
      <3>1. at[i] # "call" /\ at[n] # "call" /\ Open(n)
        BY <1>1, <1>3, <1>8, <2>2
      <3> QED
        BY <2>2, <3>1 DEF ExitInv, OneLast
    <2>3. CASE k = m \/ l = m
      <3>1. under[m]
        BY <2>1, <2>3 DEF Open
      <3> QED
        BY <1>11, <2>1, <2>2, <2>3, <3>1
    <2>4. CASE k # m /\ l # m
      BY <1>3, <1>11, <2>1, <2>4 DEF ExitInv, OneLast
    <2> QED
      BY <2>3, <2>4
  <1>12. ASSUME exits' # {} PROVE \E c \in Machines : Carries(c)'
    <2>1. PICK c \in Machines : Carries(c)
      BY <1>2, <1>12 DEF ExitInv
    <2>2. CASE c = n
      <3>1. Carries(m)'
        BY <1>2, <1>3, <1>5, <1>6, <1>7, <1>8, <2>1, <2>2 DEF Carries, Open
      <3> QED
        BY <3>1
    <2>3. CASE c # n
      <3>1. c # m
        BY <1>2, <2>1 DEF Carries
      <3>2. Carries(c)'
        BY <1>2, <1>3, <1>6, <2>1, <2>3, <3>1 DEF Carries
      <3> QED
        BY <3>2
    <2> QED
      BY <2>2, <2>3
  <1>13. under'[1] /\ caller'[1] = 0 /\ at'[1] # "none"
    BY <1>2, <1>3, <1>4 DEF ExitInv
  <1>14. OneLast'
    BY <1>11 DEF OneLast
  <1> QED
    BY <1>9, <1>10, <1>12, <1>13, <1>14 DEF ExitInv

\* runFunc returns the error of an exit whatever env.done is.
LEMMA LeavesExit ==
    ASSUME EndInv, ExitInv, NEW m \in Machines, Closes(m) \/ Returns(m) PROVE ExitInv'
  <1>1. PICK p \in {"closed", "over"} : at' = [at EXCEPT ![m] = p]
    BY DEF Closes, Returns
  <1>2. /\ at[m] \in {"ended", "closed"} /\ UNCHANGED <<caller, under, exits>>
        /\ at[m] = "ended" => err' = err /\ (err[m] \in {"stop", "fatal"} => p = "over")
        /\ err' = [err EXCEPT ![m] = "context"] \/ err' = err
    BY <1>1 DEF Closes, Returns, EndInv, Types
  <1>3. at'[m] = p /\ \A n \in Machines \ {m} : at'[n] = at[n] /\ err'[n] = err[n]
    BY <1>1, <1>2 DEF EndInv, Types
  <1>4. \A n \in Machines : /\ Open(n)' = Open(n)
                            /\ (at'[n] = "call" <=> at[n] = "call")
                            /\ (at'[n] = "none" <=> at[n] = "none")
                            /\ at[n] = "over" => at'[n] = "over"
    BY <1>2, <1>3 DEF Open
  <1>5. ASSUME NEW n \in Machines PROVE Stacked(n)'
    <2>1. Stacked(n) /\ caller[n] \in 0..MaxMachines
      BY DEF ExitInv
    <2> QED
      BY <1>2, <1>4, <2>1 DEF Stacked
  <1>6. OneLast'
    BY <1>4 DEF ExitInv, OneLast
  <1>7. ASSUME exits' # {} PROVE \E c \in Machines : Carries(c)'
    <2>1. PICK c \in Machines : Carries(c)
      BY <1>2, <1>7 DEF ExitInv
    <2>2. Carries(c)'
      BY <1>2, <1>3, <1>4, <2>1 DEF Carries
    <2> QED
      BY <2>2
  <1> QED
    BY <1>2, <1>4, <1>5, <1>6, <1>7, ExecAssumption DEF ExitInv

LEMMA MachineExit == ASSUME EndInv, ExitInv, NEW m \in Machines, Machine(m) PROVE ExitInv'
  <1>1. CASE \/ StopsAtHead(m) \/ StopsInSelect(m) \/ Finishes(m) \/ OpSend(m) \/ OpReceive(m)
             \/ OpSelect(m) \/ Completes(m) \/ SendPanics(m)
    BY <1>1, MachineWorks, WorksExit
  <1>2. CASE OpGo(m)
    <2>1. PICK n \in Machines : Creates(n, 0, at)
      BY <1>2 DEF OpGo
    <2>2. at = [at EXCEPT ![m] = "run"] /\ at[m] = "run" /\ 0 # m
      BY <1>2 DEF OpGo, Executes, EndInv, Types
    <2>3. Creates(n, 0, [at EXCEPT ![m] = "run"])
      BY <2>1, <2>2
    <2> QED
      BY <2>2, <2>3, CreatesExit
  <1>3. CASE CallsBack(m)
    <2>1. PICK n \in Machines : Creates(n, m, [at EXCEPT ![m] = "call"])
      BY <1>3 DEF CallsBack
    <2> QED
      BY <1>3, <2>1, CreatesExit DEF CallsBack, Executes
  <1>4. CASE OpClose(m)
    BY <1>4, SameExit DEF OpClose, mvars
  <1> QED
    BY <1>1, <1>2, <1>3, <1>4, ExitsExit, CallbackReturnsExit, LeavesExit DEF Machine

LEMMA ExitStep == EndInv /\ ExitInv /\ [Next]_vars => ExitInv'
  <1> SUFFICES ASSUME EndInv, ExitInv, [Next]_vars PROVE ExitInv'
    OBVIOUS
  <1>1. CASE Cancel \/ AllOver \/ UNCHANGED vars
    BY <1>1, SameExit DEF Cancel, AllOver, vars, mvars
  <1>2. CASE \E m \in Machines : Machine(m) \/ Watcher(m)
    BY <1>2, MachineExit, SameExit DEF Watcher, Watch, WatcherEnds
  <1> QED
    BY <1>1, <1>2 DEF Next

\* However deep the callbacks are, env.Stop and env.Fatal decide how Run ends: their error goes
\* from each machine to the one that waits for it, no other exit of what Run waits for happens
\* meanwhile, and the cancellation does not replace it.
THEOREM ExitAlwaysReachesRun == Spec => []ExitReachesRun
  <1>1. EndInv /\ ExitInv => ExitReachesRun
    <2> SUFFICES ASSUME ExitInv, at[1] = "over", exits # {} PROVE exits = {err[1]}
      BY DEF ExitReachesRun
    <2>1. PICK c \in Machines : Carries(c)
      BY DEF ExitInv
    <2>2. 1 \in Machines /\ Open(1)
      BY ExecAssumption DEF ExitInv, Open
    <2>3. c = 1
      BY <2>1, <2>2 DEF ExitInv, OneLast, Carries
    <2> QED
      BY <2>1, <2>3 DEF Carries
  <1> QED
    BY <1>1, ExitInit, ExitStep, EndAlways, PTL DEF Spec

-----------------------------------------------------------------------------
(***************************************************************************)
(* vm.cases between two operations.                                        *)
(***************************************************************************)

\* A machine that never panicked sending has no case when it begins an operation.
Clean(m) ==
    ~unsent[m] => /\ at[m] \in {"none", "run", "call"} => cases[m] = <<>>
                  /\ at[m] = "wait" => cases[m] = own[m]

CleanInv ==
    /\ own \in [Machines -> Seq(Case)] /\ unsent \in [Machines -> BOOLEAN]
    /\ \A m \in Machines : Clean(m)

LEMMA CleanInit == Init => CleanInv
  <1> SUFFICES ASSUME Init PROVE CleanInv
    OBVIOUS
  <1>1. <<>> \in Seq(Case)
    OBVIOUS
  <1>2. own \in [Machines -> Seq(Case)] /\ unsent \in [Machines -> BOOLEAN]
    BY <1>1 DEF Init
  <1>3. ASSUME NEW m \in Machines PROVE Clean(m)
    BY DEF Init, Clean
  <1> QED
    BY <1>2, <1>3 DEF CleanInv

LEMMA SameClean == ASSUME CleanInv, UNCHANGED <<at, cases, own, unsent>> PROVE CleanInv'
  BY DEF CleanInv, Clean

\* A machine that begins an operation has only the cases of that operation.
LEMMA WaitsClean ==
    ASSUME EndInv, CleanInv, NEW m \in Machines, at[m] = "run", NEW o, NEW new \in Seq(Case),
           WaitsIn(m, o, new, cases[m] \o new)
    PROVE  CleanInv'
  <1>1. /\ at' = [at EXCEPT ![m] = "wait"] /\ cases' = [cases EXCEPT ![m] = cases[m] \o new]
        /\ own' = [own EXCEPT ![m] = new] /\ UNCHANGED unsent
    BY DEF WaitsIn
  <1>2. own' \in [Machines -> Seq(Case)] /\ unsent' \in [Machines -> BOOLEAN]
    BY <1>1 DEF CleanInv
  <1>3. ASSUME NEW n \in Machines PROVE Clean(n)'
    <2>1. CASE n = m
      <3>1. at'[n] = "wait" /\ cases'[n] = cases[m] \o new /\ own'[n] = new
        BY <1>1, <2>1 DEF EndInv, Types, CleanInv
      <3>2. ~unsent[m] => cases[m] = <<>>
        BY DEF CleanInv, Clean
      <3>3. <<>> \o new = new
        OBVIOUS
      <3> QED
        BY <1>1, <2>1, <3>1, <3>2, <3>3 DEF Clean
    <2>2. CASE n # m
      BY <1>1, <2>2 DEF EndInv, Types, CleanInv, Clean
    <2> QED
      BY <2>1, <2>2
  <1> QED
    BY <1>2, <1>3 DEF CleanInv

\* A machine that does not wait, and whose cases were emptied or are not those of a next operation.
LEMMA LeavesClean ==
    ASSUME EndInv, CleanInv, NEW m \in Machines, NEW p \in Places \ {"wait"}, at' = [at EXCEPT ![m] = p],
           NEW cs \in Seq(Case), cases' = [cases EXCEPT ![m] = cs],
           own' = [own EXCEPT ![m] = <<>>] \/ own' = own,
           NEW u \in BOOLEAN, unsent' = [unsent EXCEPT ![m] = u],
           ~u /\ p \in {"none", "run", "call"} => cs = <<>>
    PROVE  CleanInv'
  <1>1. own' \in [Machines -> Seq(Case)] /\ unsent' \in [Machines -> BOOLEAN]
    <2>1. <<>> \in Seq(Case)
      OBVIOUS
    <2> QED
      BY <2>1 DEF CleanInv
  <1>2. ASSUME NEW n \in Machines PROVE Clean(n)'
    <2>1. CASE n = m
      <3>1. at'[n] = p /\ cases'[n] = cs /\ unsent'[n] = u
        BY <2>1 DEF EndInv, Types, CleanInv
      <3> QED
        BY <3>1 DEF Clean
    <2>2. CASE n # m
      BY <2>2 DEF EndInv, Types, CleanInv, Clean
    <2> QED
      BY <2>1, <2>2
  <1> QED
    BY <1>1, <1>2 DEF CleanInv

LEMMA MachineClean == ASSUME EndInv, CleanInv, NEW m \in Machines, Machine(m) PROVE CleanInv'
  <1>1. /\ cases[m] \in Seq(Case) /\ cases = [cases EXCEPT ![m] = cases[m]]
        /\ unsent[m] \in BOOLEAN /\ unsent = [unsent EXCEPT ![m] = unsent[m]]
        /\ <<>> \in Seq(Case)
        /\ ~unsent[m] /\ at[m] \in {"none", "run", "call"} => cases[m] = <<>>
    BY DEF EndInv, Types, CleanInv, Clean
  <1>2. CASE OpSend(m)
    <2>1. PICK c \in Chans : LET new == <<[dir |-> "send", chan |-> c], DoneCase>>
                             IN  WaitsIn(m, "send", new, cases[m] \o new)
      BY <1>2 DEF OpSend
    <2>2. <<[dir |-> "send", chan |-> c], DoneCase>> \in Seq(Case) /\ at[m] = "run"
      BY <1>2 DEF Case, CommCases, OpSend, Executes
    <2> QED
      BY <2>1, <2>2, WaitsClean
  <1>3. CASE OpReceive(m)
    <2>1. PICK c \in Chans : LET new == <<[dir |-> "recv", chan |-> c], DoneCase>>
                             IN  WaitsIn(m, "recv", new, cases[m] \o new)
      BY <1>3 DEF OpReceive
    <2>2. <<[dir |-> "recv", chan |-> c], DoneCase>> \in Seq(Case) /\ at[m] = "run"
      BY <1>3 DEF Case, CommCases, OpReceive, Executes
    <2> QED
      BY <2>1, <2>2, WaitsClean
  <1>4. CASE OpSelect(m)
    <2>1. PICK n \in 0..2 : \E comm \in [1..n -> CommCases \cup {DefaultCase}] :
             LET new == Append(comm, DoneCase) IN WaitsIn(m, "select", new, cases[m] \o new)
      BY <1>4 DEF OpSelect
    <2>2. PICK comm \in [1..n -> CommCases \cup {DefaultCase}] :
             LET new == Append(comm, DoneCase) IN WaitsIn(m, "select", new, cases[m] \o new)
      BY <2>1
    <2>3. comm \in Seq(Case) /\ DoneCase \in Case
      BY DEF Case
    <2>4. Append(comm, DoneCase) \in Seq(Case) /\ at[m] = "run"
      BY <1>4, <2>3 DEF OpSelect, Executes
    <2> QED
      BY <2>2, <2>4, WaitsClean
  <1>5. CASE StopsAtHead(m) \/ StopsInSelect(m) \/ Finishes(m) \/ Exits(m)
    <2>1. at' = [at EXCEPT ![m] = "ended"] /\ own' = [own EXCEPT ![m] = <<>>] /\ UNCHANGED <<cases, unsent>>
      BY <1>5 DEF StopsAtHead, StopsInSelect, Finishes, Exits, Stops, Ends, Leaves
    <2>2. cases' = [cases EXCEPT ![m] = cases[m]] /\ unsent' = [unsent EXCEPT ![m] = unsent[m]]
      BY <1>1, <2>1
    <2>3. "ended" \in Places \ {"wait"}
      BY DEF Places
    <2> QED
      BY <1>1, <2>1, <2>2, <2>3, LeavesClean
  <1>6. CASE Completes(m)
    <2>1. /\ at' = [at EXCEPT ![m] = "run"] /\ own' = [own EXCEPT ![m] = <<>>]
          /\ cases' = [cases EXCEPT ![m] = <<>>] /\ unsent' = [unsent EXCEPT ![m] = unsent[m]]
      BY <1>1, <1>6 DEF Completes, Leaves
    <2>2. "run" \in Places \ {"wait"}
      BY DEF Places
    <2> QED
      BY <1>1, <2>1, <2>2, LeavesClean
  <1>7. CASE SendPanics(m)
    <2>1. PICK p \in {"run", "ended"} : at' = [at EXCEPT ![m] = p]
      BY <1>7 DEF SendPanics, Leaves
    <2>2. own' = [own EXCEPT ![m] = <<>>] /\ unsent' = [unsent EXCEPT ![m] = TRUE] /\ UNCHANGED cases
      BY <1>7 DEF SendPanics, Leaves
    <2>3. cases' = [cases EXCEPT ![m] = cases[m]] /\ p \in Places \ {"wait"}
      BY <1>1, <2>2 DEF Places
    <2> QED
      BY <1>1, <2>1, <2>2, <2>3, LeavesClean
  <1>8. CASE CallbackReturns(m)
    <2>1. PICK p \in {"run", "ended"} : at' = [at EXCEPT ![m] = p]
      BY <1>8 DEF CallbackReturns
    <2>2. at[m] = "call" /\ UNCHANGED <<cases, own, unsent>>
      BY <1>8 DEF CallbackReturns
    <2> QED
      BY <1>1, <2>1, <2>2, LeavesClean DEF Places
  <1>9. CASE Closes(m) \/ Returns(m)
    <2>1. PICK p \in {"closed", "over"} : at' = [at EXCEPT ![m] = p]
      BY <1>9 DEF Closes, Returns
    <2>2. UNCHANGED <<own, unsent>> /\ \E cs \in {cases[m], <<>>} : cases' = [cases EXCEPT ![m] = cs]
      BY <1>1, <1>9 DEF Closes, Returns
    <2> QED
      BY <1>1, <2>1, <2>2, LeavesClean DEF Places
  <1>10. CASE OpGo(m) \/ CallsBack(m)
    <2>1. PICK n \in Machines, p \in {"run", "call"} :
             at[n] = "none" /\ at' = [at EXCEPT ![m] = p, ![n] = "run"]
      <3>1. at = [at EXCEPT ![m] = "run"] \/ CallsBack(m)
        BY <1>10 DEF OpGo, Executes, EndInv, Types
      <3> QED
        BY <1>10, <3>1 DEF OpGo, CallsBack, Creates
    <2>2. at[m] = "run" /\ UNCHANGED <<cases, own, unsent>>
      BY <1>10 DEF OpGo, CallsBack, Creates, Executes
    <2>3. ASSUME NEW k \in Machines PROVE Clean(k)'
      <3>1. at'[k] = at[k] \/ (at[k] \in {"none", "run"} /\ at'[k] \in {"run", "call"})
        BY <2>1, <2>2 DEF EndInv, Types
      <3> QED
        BY <2>2, <3>1 DEF CleanInv, Clean
    <2> QED
      BY <2>2, <2>3 DEF CleanInv
  <1>11. CASE OpClose(m)
    BY <1>11, SameClean DEF OpClose, mvars
  <1> QED
    BY <1>2, <1>3, <1>4, <1>5, <1>6, <1>7, <1>8, <1>9, <1>10, <1>11 DEF Machine

LEMMA CleanStep == EndInv /\ CleanInv /\ [Next]_vars => CleanInv'
  <1> SUFFICES ASSUME EndInv, CleanInv, [Next]_vars PROVE CleanInv'
    OBVIOUS
  <1>1. CASE Cancel \/ AllOver \/ UNCHANGED vars
    BY <1>1, SameClean DEF Cancel, AllOver, vars, mvars
  <1>2. CASE \E m \in Machines : Machine(m) \/ Watcher(m)
    BY <1>2, MachineClean, SameClean DEF Watcher, Watch, WatcherEnds
  <1> QED
    BY <1>1, <1>2 DEF Next

\* Every operation on channels empties vm.cases or ends its machine, but for a send that
\* panics: a machine that never did waits only in the cases of its own operation.
THEOREM AlwaysWaitsInItsCases == Spec => []WaitsInItsCases
  <1>1. CleanInv => WaitsInItsCases
    BY DEF CleanInv, Clean, WaitsInItsCases
  <1> QED
    BY <1>1, CleanInit, CleanStep, EndAlways, PTL DEF Spec
=============================================================================
