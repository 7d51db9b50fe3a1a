------------------------------- MODULE Emitter -------------------------------
(***************************************************************************)
(* The emitter of statements, emitNodes of src/internal/compiler/          *)
(* emitter_statements.go, and the builder of a function: labels, addresses *)
(* of jumps, scopes of names and allocation of registers.                  *)
(*                                                                         *)
(* A source program is written statement by statement: a statement with a  *)
(* body is opened (what emitNodes does before the body) and closed (what   *)
(* it does after); the local variables of emitNodes in between are in      *)
(* nest.  Expressions and simple statements are one instruction.  All      *)
(* variables have the same type of register, none is captured.             *)
(*                                                                         *)
(* What the source means is kept aside: where break and continue should    *)
(* jump, in the builder, and the scopes of the source.                     *)
(***************************************************************************)
EXTENDS Naturals, FiniteSets, Sequences, SequencesExt

CONSTANTS Focus,               \* for every focus, the statements that a program is made of
          Names,               \* for every focus, the names of its variables
          maxRegistersCount,   \* registers of a function
          MaxStatements,       \* bound on the statements of a program
          MaxNested            \* bound on the statements that are nested

VARIABLES
  focus,       \* the statements that this program is made of
  breakable, breakLabel, inForRange, rangeLabels,   \* fields of the emitter
  fbs,         \* the builders of the functions that are being emitted, the current one last
  nest,        \* the statements that are open, with the local variables of emitNodes
  count,       \* the statements emitted
  resolved,    \* ghost: the jumps of the functions that are ended, with where they should go
  sources,     \* ghost: the scopes of the source, from names to the registers of their variables
  borrowed,    \* ghost: a break has taken the label of a statement around the function it is in
  failed       \* "" or why the emitter has panicked

emitter == <<breakable, breakLabel, inForRange, rangeLabels>>
vars == <<focus, emitter, fbs, nest, count, resolved, sources, borrowed, failed>>

fb == Last(fbs)
NoName == [n \in {} |-> 0]

----------------------------------------------------------------------------
(* The builder                                                             *)

\* base, jumps, marks and merged are ghosts: the source scopes of the functions around, the jumps and
\* the places where they should go, and whether a variable took a name that is not of its scope.
newBuilder(base) == [body |-> <<>>, labelAddrs |-> <<>>, scopes |-> <<>>, numRegs |-> 0, shifts |-> <<>>,
               base |-> base, jumps |-> {}, marks |-> NoName, merged |-> FALSE]

currentAddr(b) == Len(b.body)
Emit(b, op) == [b EXCEPT !.body = Append(@, [op |-> op, label |-> 0, addr |-> 0])]
newLabel(b) == [b EXCEPT !.labelAddrs = Append(@, 0)]
lastLabel(b) == Len(b.labelAddrs)
setLabelAddr(b, lab) == [b EXCEPT !.labelAddrs[lab] = currentAddr(b)]

\* A label that has no address yet, or is at address 0, is resolved at the end of the function.
emitGoto(b, lab) ==
  [b EXCEPT !.body = Append(@, [op |-> "goto", label |-> IF b.labelAddrs[lab] = 0 THEN lab ELSE 0,
                                addr |-> b.labelAddrs[lab]])]

\* Break and Continue take the address that the label has now.
emitRangeJump(b, op, lab) ==
  [b EXCEPT !.body = Append(@, [op |-> op, label |-> 0, addr |-> b.labelAddrs[lab]])]

\* Where a jump goes when the function has ended.
Target(b, in) == IF in.label = 0 THEN in.addr ELSE b.labelAddrs[in.label]

enterStack(b) == [b EXCEPT !.shifts = Append(@, b.numRegs)]
exitStack(b) == [b EXCEPT !.numRegs = Last(b.shifts), !.shifts = Front(@)]
enterScope(b) == enterStack([b EXCEPT !.scopes = Append(@, NoName)])
exitScope(b) == exitStack([b EXCEPT !.scopes = Front(@)])
newRegister(b) == [b EXCEPT !.numRegs = @ + 1]
bindVarReg(b, name, reg) ==
  [b EXCEPT !.scopes = Append(Front(@), [n \in DOMAIN Last(@) \cup {name} |-> IF n = name THEN reg ELSE Last(@)[n]])]
scopeLookup(scopes, name) ==
  LET declared == {i \in DOMAIN scopes : name \in DOMAIN scopes[i]}
  IN  IF declared = {} THEN 0 ELSE scopes[CHOOSE i \in declared : \A j \in declared : j <= i][name]

emitDeclarationInFunc(b, name) ==
  IF scopeLookup(b.scopes, name) # 0 THEN Emit(b, "move")
  ELSE bindVarReg(Emit(newRegister(b), "move"), name, b.numRegs + 1)

\* A short declaration: a name that is already in the current scope keeps its register.
emitDeclaration(b, name) ==
  IF name \in DOMAIN Last(b.scopes) THEN Emit(b, "move")
  ELSE bindVarReg(Emit(newRegister(b), "move"), name, b.numRegs + 1)

----------------------------------------------------------------------------
(* Opening a statement                                                     *)

\* Local: what emitNodes keeps in its variables while it emits the body.
Local(kind, name) ==
  [kind |-> kind, name |-> name, id |-> count, breakable |-> breakable, breakLabel |-> breakLabel,
   inForRange |-> inForRange, head |-> 0, post |-> 0, end |-> 0, cases |-> <<>>, stale |-> FALSE]

\* The statements that break and continue of the source refer to, in the current function.
Innermost(kinds) ==
  LET func == {i \in DOMAIN nest : nest[i].kind = "func"}
      in   == {i \in DOMAIN nest : nest[i].kind \in kinds /\ \A f \in func : f < i}
  IN  IF in = {} THEN 0 ELSE CHOOSE i \in in : \A j \in in : j <= i

Fors == {"for", "for ;;", "for {}"}
Loops == Fors \cup {"range"}
Breakables == Loops \cup {"switch", "select"}

Writes(kind) ==
  /\ failed = "" /\ fbs # <<>>
  /\ kind \in Focus[focus] /\ count < MaxStatements
  /\ count' = count + 1

Opens(kind) == Writes(kind) /\ Len(nest) < MaxNested

\* newRegister panics at the limit, wherever it is called.
Fits(n) == fb.numRegs + n <= maxRegistersCount
Exceeds(kind, n) ==
  /\ Opens(kind) /\ ~Fits(n)
  /\ failed' = "registers count exceeded"
  /\ UNCHANGED <<focus, emitter, fbs, nest, resolved, sources, borrowed>>

\* Replaces the current builder.
Builder(b) == fbs' = Append(Front(fbs), b)

SourceScope(names) == sources' = Append(sources, names)

\* for init; condition; post, and for without condition, that has its own way.
OpenFor(kind, name) ==
  /\ Opens(kind) /\ kind \in Fors /\ Fits(1)
  /\ LET init == emitDeclaration(enterScope(fb), name)
         head == newLabel(init)
         post == setLabelAddr(newLabel(head), lastLabel(head))
         body == emitGoto(newLabel(Emit(post, "if")), lastLabel(post) + 1)
         bare == newLabel(setLabelAddr(head, lastLabel(head)))
         loop == IF kind = "for" THEN body ELSE bare
     IN  /\ Builder(loop)
         /\ nest' = Append(nest, [Local(kind, name) EXCEPT
                      !.head = lastLabel(head), !.end = lastLabel(loop),
                      !.post = IF kind = "for" THEN lastLabel(post) ELSE lastLabel(head)])
         /\ rangeLabels' = Append(rangeLabels, nest'[Len(nest')].post)
         /\ sources' = sources \o <<[n \in {name} |-> scopeLookup(loop.scopes, name)], NoName>>
  /\ breakable' = TRUE /\ breakLabel' = 0
  /\ UNCHANGED <<focus, inForRange, resolved, borrowed, failed>>

\* for range: the loop is an instruction, that break and continue leave with instructions of their own.
OpenRange(name) ==
  /\ Opens("range") /\ Fits(1)
  /\ LET iter  == bindVarReg(newRegister(enterScope(fb)), name, fb.numRegs + 1)
         range == setLabelAddr(newLabel(iter), lastLabel(iter) + 1)
         end   == emitGoto(Emit(newLabel(range), "range"), lastLabel(range) + 1)
     IN  /\ Builder(enterScope(end))
         /\ nest' = Append(nest, [Local("range", name) EXCEPT !.head = lastLabel(range), !.end = lastLabel(end)])
         /\ rangeLabels' = Append(rangeLabels, lastLabel(range))
  /\ sources' = sources \o <<[n \in {name} |-> fb.numRegs + 1], NoName>>
  /\ inForRange' = TRUE
  /\ UNCHANGED <<focus, breakable, breakLabel, resolved, borrowed, failed>>

\* switch with a case, and with a second case if it has a default.
OpenSwitch(cases) ==
  /\ Opens("switch") /\ Fits(1)
  /\ LET expr  == newRegister(enterScope(fb))
         end   == newLabel(newLabel(expr))
         first == emitGoto(Emit(end, "if"), lastLabel(end) - 1)
         rest  == IF cases = 2 THEN emitGoto(newLabel(first), lastLabel(first) + 1)
                  ELSE emitGoto(first, lastLabel(end))
     IN  /\ Builder(enterScope(setLabelAddr(rest, lastLabel(end) - 1)))
         /\ nest' = Append(nest, [Local("switch", "") EXCEPT !.end = lastLabel(end),
                                    !.cases = IF cases = 2 THEN <<lastLabel(rest)>> ELSE <<>>])
  /\ sources' = sources \o <<NoName, NoName>>
  /\ breakable' = TRUE /\ breakLabel' = 0
  /\ UNCHANGED <<focus, inForRange, rangeLabels, resolved, borrowed, failed>>

\* select: there is a virtual stack for its registers and no scope, neither for it nor for its cases.
OpenSelect(cases) ==
  /\ Opens("select") /\ Fits(1)
  /\ LET regs   == newRegister(enterStack(fb))
         case1  == emitGoto(Emit(newLabel(regs), "case"), lastLabel(regs) + 1)
         case2  == IF cases = 2 THEN emitGoto(Emit(newLabel(case1), "case"), lastLabel(case1) + 1) ELSE case1
         select == newLabel(Emit(case2, "select"))
     IN  /\ Builder(setLabelAddr(select, lastLabel(case1)))
         /\ nest' = Append(nest, [Local("select", "") EXCEPT !.end = lastLabel(select),
                                    !.cases = IF cases = 2 THEN <<lastLabel(case2)>> ELSE <<>>])
  /\ SourceScope(NoName)
  /\ breakable' = TRUE /\ breakLabel' = 0
  /\ UNCHANGED <<focus, inForRange, rangeLabels, resolved, borrowed, failed>>

\* if: the then block has a scope of its own, the else block is in that of the if.
OpenIf(name) ==
  /\ Opens("if") /\ Fits(1)
  /\ LET init == Emit(emitDeclaration(enterScope(fb), name), "if")
         then == emitGoto(newLabel(init), lastLabel(init) + 1)
     IN  /\ Builder(enterScope(then))
         /\ nest' = Append(nest, [Local("if", name) EXCEPT !.post = lastLabel(then)])
         /\ sources' = sources \o <<[n \in {name} |-> scopeLookup(then.scopes, name)], NoName>>
  /\ UNCHANGED <<focus, emitter, resolved, borrowed, failed>>

OpenBlock ==
  /\ Opens("block")
  /\ Builder(enterScope(fb))
  /\ nest' = Append(nest, Local("block", ""))
  /\ SourceScope(NoName)
  /\ UNCHANGED <<focus, emitter, resolved, borrowed, failed>>

\* A function literal has a builder of its own; the fields of the emitter are those of the function
\* around it.
OpenFunc ==
  /\ Opens("func")
  /\ fbs' = Append(fbs, enterScope(newBuilder(Len(sources))))
  /\ nest' = Append(nest, Local("func", ""))
  /\ SourceScope(NoName)
  /\ UNCHANGED <<focus, emitter, resolved, borrowed, failed>>

----------------------------------------------------------------------------
(* Closing a statement                                                     *)

Marks(b, id, continue, end) ==
  [b EXCEPT !.marks = [i \in DOMAIN @ \cup {id} |-> IF i = id THEN [continue |-> continue, end |-> end] ELSE @[i]]]

Closes(kind) == failed = "" /\ fbs # <<>> /\ nest # <<>> /\ Last(nest).kind = kind

\* The loops around an unconditional for have a label that is not theirs on top of rangeLabels.
Outer(kind) ==
  [i \in 1..Len(nest) - 1 |-> IF kind \in {"for ;;", "for {}"} THEN [nest[i] EXCEPT !.stale = TRUE] ELSE nest[i]]

Restores == /\ breakable' = Last(nest).breakable
            /\ breakLabel' = Last(nest).breakLabel

\* The label of the breaks, if there are, is at the end of the statement.
OwnLabel == breakLabel <= lastLabel(fb)
PlacesBreak(b) == IF breakLabel = 0 THEN b ELSE setLabelAddr(b, breakLabel)

CloseFor(kind) ==
  /\ Closes(kind) /\ kind \in Fors /\ OwnLabel
  /\ LET l    == Last(nest)
         post == IF kind = "for" THEN setLabelAddr(fb, l.post) ELSE fb
         next == emitGoto(IF kind = "for {}" THEN post ELSE Emit(post, "post"), l.head)
         end  == PlacesBreak(exitScope(setLabelAddr(next, l.end)))
     IN  Builder(Marks(end, l.id, IF kind = "for {}" THEN fb.labelAddrs[l.head] ELSE currentAddr(fb), currentAddr(next)))
  /\ rangeLabels' = IF kind = "for" THEN Front(rangeLabels) ELSE rangeLabels
  /\ nest' = Outer(kind) /\ sources' = Front(Front(sources))
  /\ Restores
  /\ UNCHANGED <<focus, inForRange, count, resolved, borrowed, failed>>

\* The label is of a function literal in the statement, and the function around has fewer.
LosesLabel(kind) ==
  /\ Closes(kind) /\ ~OwnLabel
  /\ failed' = "invalid label"
  /\ UNCHANGED <<focus, emitter, fbs, nest, count, resolved, sources, borrowed>>

CloseRangeForgets ==
  /\ Closes("range")
  /\ LET l   == Last(nest)
         end == setLabelAddr(emitRangeJump(fb, "continue", l.head), l.end)
     IN  Builder(Marks(exitScope(exitScope(end)), l.id, fb.labelAddrs[l.head], fb.labelAddrs[l.head]))
  /\ rangeLabels' = Front(rangeLabels)
  /\ nest' = Front(nest) /\ sources' = Front(Front(sources))
  /\ UNCHANGED <<focus, breakable, breakLabel, inForRange, count, resolved, borrowed, failed>>

CloseRange ==
  /\ Closes("range")
  /\ LET l   == Last(nest)
         end == setLabelAddr(emitRangeJump(fb, "continue", l.head), l.end)
     IN  Builder(Marks(exitScope(exitScope(end)), l.id, fb.labelAddrs[l.head], fb.labelAddrs[l.head]))
  /\ rangeLabels' = Front(rangeLabels)
  /\ nest' = Front(nest) /\ sources' = Front(Front(sources))
  /\ inForRange' = Last(nest).inForRange
  /\ UNCHANGED <<focus, breakable, breakLabel, count, resolved, borrowed, failed>>

\* The next case of a switch or select: its body is not entered from the one before it, that jumps to
\* the end unless it falls through.
NextCase(kind) ==
  /\ Closes(kind) /\ kind \in {"switch", "select"} /\ Last(nest).cases # <<>>
  /\ LET l == Last(nest)
     IN  /\ \E jumps \in IF kind = "switch" THEN BOOLEAN ELSE {TRUE} :
              LET b == IF jumps THEN emitGoto(fb, l.end) ELSE fb
              IN  Builder(setLabelAddr(IF kind = "switch" THEN enterScope(exitScope(b)) ELSE b, Head(l.cases)))
         /\ nest' = Append(Front(nest), [l EXCEPT !.cases = Tail(@)])
  /\ sources' = Append(Front(sources), NoName)
  /\ UNCHANGED <<focus, emitter, count, resolved, borrowed, failed>>

CloseSwitch ==
  /\ Closes("switch") /\ Last(nest).cases = <<>> /\ OwnLabel
  /\ LET l   == Last(nest)
         end == setLabelAddr(emitGoto(exitScope(fb), l.end), l.end)
     IN  Builder(Marks(PlacesBreak(exitScope(end)), l.id, 0, currentAddr(end)))
  /\ nest' = Front(nest) /\ sources' = Front(Front(sources))
  /\ Restores
  /\ UNCHANGED <<focus, inForRange, rangeLabels, count, resolved, borrowed, failed>>

\* The label of the breaks of a select is never placed.
CloseSelect ==
  /\ Closes("select") /\ Last(nest).cases = <<>>
  /\ LET l == Last(nest)
     IN  Builder(Marks(exitStack(setLabelAddr(fb, l.end)), l.id, 0, currentAddr(fb)))
  /\ nest' = Front(nest) /\ sources' = Front(sources)
  /\ Restores
  /\ UNCHANGED <<focus, inForRange, rangeLabels, count, resolved, borrowed, failed>>

\* else ends the then block.
Else ==
  /\ Closes("if")
  /\ LET l   == Last(nest)
         end == newLabel(exitScope(fb))
     IN  /\ Builder(setLabelAddr(emitGoto(end, lastLabel(end)), l.post))
         /\ nest' = Append(Front(nest), [l EXCEPT !.kind = "else", !.end = lastLabel(end)])
  /\ sources' = Append(Front(sources), NoName)
  /\ UNCHANGED <<focus, emitter, count, resolved, borrowed, failed>>

CloseIf ==
  /\ Closes("if") \/ Closes("else")
  /\ LET l == Last(nest)
     IN  Builder(IF l.kind = "if" THEN exitScope(setLabelAddr(exitScope(fb), l.post))
                 ELSE exitScope(setLabelAddr(fb, l.end)))
  /\ nest' = Front(nest) /\ sources' = Front(Front(sources))
  /\ UNCHANGED <<focus, emitter, count, resolved, borrowed, failed>>

CloseBlock ==
  /\ Closes("block")
  /\ Builder(exitScope(fb))
  /\ nest' = Front(nest) /\ sources' = Front(sources)
  /\ UNCHANGED <<focus, emitter, count, resolved, borrowed, failed>>

\* The jumps of a function that has ended, with the places they should go to.
JumpsOf(b) ==
  {[kind |-> j.kind, why |-> j.why, goes |-> [op |-> b.body[j.at].op, addr |-> Target(b, b.body[j.at])],
    should |-> [op   |-> IF j.kind = "range" THEN j.what ELSE "goto",
                addr |-> IF j.what = "break" THEN b.marks[j.of].end ELSE b.marks[j.of].continue]] : j \in b.jumps}

EndFunc ==
  /\ failed = "" /\ fbs # <<>>
  /\ \/ Closes("func") /\ nest' = Front(nest)
     \/ nest = <<>> /\ UNCHANGED nest
  /\ resolved' = resolved \cup JumpsOf(fb)
  /\ fbs' = Front(fbs) /\ sources' = Front(sources)
  /\ UNCHANGED <<focus, emitter, count, borrowed, failed>>

----------------------------------------------------------------------------
(* Simple statements                                                       *)

\* Whether a statement is, maybe with a function literal in between, in one of some kinds.
Around(i, kinds) == \E j \in 1..i - 1 : nest[j].kind \in kinds

\* The reasons for which a break may go elsewhere: it leaves a range loop that is in another breakable
\* statement, maybe of a function around, or in which there is a for without condition, or a select.
WhyBreak(i) ==
  CASE nest[i].kind = "range" /\ Around(i, Breakables \ {"range"}) -> "range in a breakable"
    [] nest[i].kind = "range" /\ nest[i].stale -> "after a for without condition"
    [] nest[i].kind = "select"             -> "select"
    [] OTHER                               -> ""

\* Those of a continue: it is of a for in a range loop, of a loop in which there is a for without
\* condition, or of a for without condition that has a post statement.
WhyContinue(i) ==
  CASE nest[i].stale                                   -> "after a for without condition"
    [] ~nest[i].stale /\ nest[i].kind = "for ;;"       -> "for without condition"
    [] ~nest[i].stale /\ nest[i].kind \in Fors /\ Around(i, {"range"}) -> "for in a range"
    [] OTHER                                           -> ""

Jumps(b, what, i, why) ==
  [b EXCEPT !.jumps = @ \cup {[at |-> Len(b.body), what |-> what, of |-> nest[i].id,
                               kind |-> nest[i].kind, why |-> why]}]

Break ==
  /\ Writes("break")
  /\ LET i == Innermost(Breakables) IN
     /\ i # 0
     /\ borrowed' = (borrowed \/ (Around(i, Breakables \ {"range"}) /\ Innermost(Breakables \ {"range"}) = 0))
     /\ IF breakable
          THEN LET b   == IF breakLabel = 0 THEN newLabel(fb) ELSE fb
                   lab == IF breakLabel = 0 THEN lastLabel(b) ELSE breakLabel
               IN  IF lab > lastLabel(b)
                     THEN failed' = "invalid label" /\ UNCHANGED <<fbs, breakLabel>>
                     ELSE /\ Builder(Jumps(emitGoto(b, lab), "break", i, WhyBreak(i)))
                          /\ breakLabel' = lab
                          /\ UNCHANGED failed
          ELSE /\ UNCHANGED breakLabel
               /\ IF Last(rangeLabels) > lastLabel(fb) THEN failed' = "invalid label" /\ UNCHANGED fbs
                  ELSE /\ Builder(Jumps(emitRangeJump(fb, "break", Last(rangeLabels)), "break", i, WhyBreak(i)))
                       /\ UNCHANGED failed
  /\ UNCHANGED <<focus, breakable, inForRange, rangeLabels, nest, resolved, sources>>

Continue ==
  /\ Writes("continue")
  /\ LET i   == Innermost(Loops)
         lab == Last(rangeLabels)
     IN  /\ i # 0
         /\ IF lab > lastLabel(fb) THEN failed' = "invalid label" /\ UNCHANGED fbs
            ELSE /\ Builder(Jumps(IF inForRange THEN emitRangeJump(fb, "continue", lab) ELSE emitGoto(fb, lab),
                                  "continue", i, WhyContinue(i)))
                 /\ UNCHANGED failed
  /\ UNCHANGED <<focus, emitter, nest, resolved, sources, borrowed>>

\* A variable is declared: in the source, it is a new variable if it is not in the innermost scope.
Declare(name) ==
  /\ Writes("declare") /\ Fits(1)
  /\ LET new == name \notin DOMAIN Last(sources)
         own == nest = <<>> \/ Last(nest).kind # "select"
         b   == [emitDeclaration(fb, name) EXCEPT !.merged = @ \/ (new /\ (name \in DOMAIN Last(fb.scopes) \/ ~own))]
     IN  /\ Builder(b)
         /\ sources' = Append(Front(sources),
              [n \in DOMAIN Last(sources) \cup {name} |->
                 IF n \in DOMAIN Last(sources) THEN Last(sources)[n] ELSE scopeLookup(b.scopes, name)])
  /\ UNCHANGED <<focus, emitter, nest, resolved, borrowed, failed>>

Simple ==
  /\ Writes("simple")
  /\ Builder(Emit(fb, "simple"))
  /\ UNCHANGED <<focus, emitter, nest, resolved, sources, borrowed, failed>>

Init ==
  /\ focus \in DOMAIN Focus
  /\ breakable = FALSE /\ breakLabel = 0 /\ inForRange = FALSE /\ rangeLabels = <<>>
  /\ fbs = <<enterScope(newBuilder(0))>>
  /\ nest = <<>> /\ count = 0 /\ resolved = {} /\ borrowed = FALSE /\ failed = ""
  /\ sources = <<NoName>>

Next ==
  \/ \E name \in Names[focus] : OpenRange(name) \/ OpenIf(name) \/ Declare(name) \/ \E kind \in Fors : OpenFor(kind, name)
  \/ \E kind \in {"for", "range", "switch", "select", "if"} : Exceeds(kind, 1)
  \/ \E cases \in 1..2 : OpenSwitch(cases) \/ OpenSelect(cases)
  \/ OpenBlock \/ OpenFunc \/ Break \/ Continue \/ Simple
  \/ \E kind \in Fors : CloseFor(kind)
  \/ \E kind \in Fors \cup {"switch"} : LosesLabel(kind)
  \/ \E kind \in {"switch", "select"} : NextCase(kind)
  \/ CloseRange \/ CloseSwitch \/ CloseSelect \/ Else \/ CloseIf \/ CloseBlock \/ EndFunc

Spec == Init /\ [][Next]_vars

----------------------------------------------------------------------------
(* Properties                                                              *)

\* break goes to the end of the innermost statement that it can leave and continue to the next
\* iteration of the innermost loop, with the instructions of a range loop if and only if they are of a
\* range loop, but for the reasons named in WhyBreak and WhyContinue, and in a function in which a
\* label has been taken from another.  The emitter panics on a label for the same reasons.
JumpsFollowSource ==
  /\ ~borrowed => \A j \in resolved : j.goes # j.should => j.why # ""
  /\ failed = "invalid label" => borrowed \/ \E i \in DOMAIN nest : nest[i].kind = "func" \/ nest[i].stale

\* The scopes of the source in the current function.
Own == SubSeq(sources, fb.base + 1, Len(sources))

\* A name is the register of its variable, and the variables that are alive have registers of their
\* own, that are not given to temporary values.  The exception: a variable declared in the body of a
\* for, in an else block or in the case of a select, that have a scope in the source and none in the
\* builder, when its name is in the scope around.
VariablesKeepRegisters ==
  (fbs # <<>> /\ ~fb.merged) =>
    /\ \A name \in Names[focus] : scopeLookup(fb.scopes, name) = scopeLookup(Own, name)
    /\ \A i \in DOMAIN Own : \A m \in DOMAIN Own[i] :
         /\ Own[i][m] \in 1..fb.numRegs
         /\ \A j \in DOMAIN Own : \A n \in DOMAIN Own[j] : <<i, m>> # <<j, n>> => Own[i][m] # Own[j][n]
=============================================================================
