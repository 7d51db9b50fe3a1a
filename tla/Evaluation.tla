----------------------------- MODULE Evaluation -----------------------------
(***************************************************************************)
(* A function of a program: its statements are compiled by the emitter     *)
(* (Assignments, Expressions, FunctionBuilder), the virtual machine        *)
(* executes their instructions (Instructions, Values), and the same        *)
(* statements run by the Go specification (GoSemantics), that the machine  *)
(* is compared with at the end of every statement.                         *)
(*                                                                         *)
(* A suite has the variables of the program, its functions being those of  *)
(* GoSemantics, and the statements it is made of: [vars, steps].  The      *)
(* variable at index i is [n, t, place, cell], and is at the address i of  *)
(* the memory: place is "local", "captured" (by a closure of the           *)
(* function), "global" or "heap" (it has no name).  steps[i] are the       *)
(* statements that can be the i-th of the program.                         *)
(***************************************************************************)
EXTENDS Expressions, GoSemantics

CONSTANTS Suites,           \* a sequence of suites
          Emitted(_, _),    \* the builder after a statement: emitStatement of Assignments
          Execution(_, _),  \* the machine after an instruction: Execute of Instructions
          Named(_),         \* the registers the text of an instruction names: disassembleInstruction
          InGo(_, _),       \* the store after a statement: Run of GoSemantics
          MaxRegisters      \* the registers of every file that the function has

ASSUME SuitesAssumption == MaxRegisters \in Nat /\ \A i \in DOMAIN Suites : Len(Suites[i].steps) > 0

VARIABLES suite,     \* the index of the suite of the program
          done,      \* the statements that have been compiled
          builder,   \* the builder of the function
          machine,   \* the virtual machine
          go         \* the store of the program by the Go specification
vars == <<suite, done, builder, machine, go>>

----------------------------------------------------------------------------
(* The registers of the variables                                          *)

InPlace(s, p) == {i \in DOMAIN s.vars : s.vars[i].place = p}
File(v) == IF v.place = "captured" THEN "general" ELSE kindToType(v.t)
RegisterOf(s, i) ==
  LET v == s.vars[i]
      n == Cardinality({j \in 1..i : s.vars[j].place \in {"local", "captured"} /\ File(s.vars[j]) = File(v)})
  IN  IF v.place = "captured" THEN -n ELSE n
Scope(s) == LET own == InPlace(s, "local") \cup InPlace(s, "captured")
            IN  [n \in {s.vars[i].n : i \in own} |-> RegisterOf(s, CHOOSE i \in own : s.vars[i].n = n)]
InUse(s, file) == Cardinality({j \in InPlace(s, "local") \cup InPlace(s, "captured") : File(s.vars[j]) = file})

\* A register that no variable has is what earlier code has left in it.
Junk == [int |-> 1, float |-> 1, string |-> <<1>>, general |-> Invalid]
Held(v, i) ==
  CASE v.place = "captured" -> Number(PointerTo(v.t), i) [] v.t = "T" -> Number("T", i)
    [] File(v) \in {"int", "float"} -> Narrow(v.t, v.cell.v[1]) [] File(v) = "string" -> v.cell.v [] OTHER -> v.cell
Registers(s, file) ==
  [r \in 1..MaxRegisters |->
     LET of == {i \in InPlace(s, "local") \cup InPlace(s, "captured") :
                  File(s.vars[i]) = file /\ RegisterOf(s, i) \in {r, -r}}
     IN  IF of = {} THEN Junk[file] ELSE LET i == CHOOSE i \in of : TRUE IN Held(s.vars[i], i)]

NewMachine(s) ==
  [int |-> Registers(s, "int"), float |-> Registers(s, "float"), string |-> Registers(s, "string"),
   general |-> Registers(s, "general"),
   cells |-> [i \in DOMAIN s.vars |-> s.vars[i].cell],
   vars |-> [n \in {s.vars[i].n : i \in InPlace(s, "global")} |->
               LET i == CHOOSE i \in InPlace(s, "global") : s.vars[i].n = n IN [t |-> s.vars[i].t, addr |-> i]],
   values |-> NoValues, fn |-> <<>>, ok |-> FALSE, pc |-> 1, panic |-> ""]
NewStore(s) ==
  [cells |-> [i \in DOMAIN s.vars |-> s.vars[i].cell], panic |-> FALSE, negative |-> FALSE,
   vars |-> [n \in {s.vars[i].n : i \in DOMAIN s.vars} |-> CHOOSE i \in DOMAIN s.vars : s.vars[i].n = n]]

----------------------------------------------------------------------------
Program == Suites[suite]
MaxOf(steps) == Max({Len(steps[i]) : i \in DOMAIN steps})
Idle == machine.pc > Len(machine.fn)

\* A statement is compiled after the one before has been executed, in the function it leaves.
Compile(i) ==
  /\ Idle /\ machine.panic = "" /\ Len(done) < Len(Program.steps)
  /\ i \in DOMAIN Program.steps[Len(done) + 1]
  /\ LET st == Program.steps[Len(done) + 1][i]
     IN  /\ done' = Append(done, st)
         /\ builder' = Emitted([builder EXCEPT !.body = <<>>], st)
         /\ machine' = [machine EXCEPT !.fn = builder'.body, !.values = builder'.values, !.pc = 1]
         /\ go' = InGo(go, st)
  /\ UNCHANGED suite

\* The functions that the program calls, as code compiled from their declarations: the parameters, out
\* and in, are the first registers after those of the caller.
Call(m, f, shift) ==
  LET types == f.out \o f.in
      reg(i) == shift[kindToType(types[i])] + Cardinality({j \in 1..i : kindToType(types[j]) = kindToType(types[i])})
      global == m.vars["g"].addr
      counted == Store(m, global, <<Word(m.cells[global].v[1] + 1)>>)
      changed == Store(m, Deref(general(m, reg(3))), <<1>>)
  IN  CASE f.name = "double" -> setInt(m, reg(1), Word(2 * int(m, reg(2))))
        [] f.name = "id" -> Move(m, In("Move", FALSE, 0, reg(2), reg(1), "general"))
        [] f.name = "next" -> setInt(counted, reg(1), counted.cells[global].v[1])
        [] f.name = "change" -> setInt(Move(changed, In("Move", FALSE, 0, reg(3), reg(1), "general")), reg(2), 1)

Turn(m) == LET in == m.fn[m.pc]
           IN  IF in.op = "CallFunc" THEN [Call(m, in.x.func, in.x.shift) EXCEPT !.pc = @ + 1] ELSE Execution(m, in)
Step ==
  /\ ~Idle /\ machine.panic = ""
  /\ machine' = Turn(machine)
  /\ UNCHANGED <<suite, done, builder, go>>

Init ==
  /\ suite \in DOMAIN Suites /\ done = <<>>
  /\ builder = Builder(Scope(Program), [f \in DOMAIN NoRegisters |-> InUse(Program, f)])
  /\ machine = NewMachine(Program)
  /\ go = NewStore(Program)

Next == (\E i \in 1..MaxOf(Program.steps) : Compile(i)) \/ Step
Spec == Init /\ [][Next]_vars

----------------------------------------------------------------------------
(* The machine seen as a store of Go                                       *)

TypeOf(n) == IF \E i \in DOMAIN Program.vars : Program.vars[i].n = n
             THEN Program.vars[CHOOSE i \in DOMAIN Program.vars : Program.vars[i].n = n].t
             ELSE LET st == CHOOSE st \in Range(done) : st.s = "var" /\ \E i \in DOMAIN st.names : st.names[i].n = n
                  IN  st.names[CHOOSE i \in DOMAIN st.names : st.names[i].n = n].t
Names == DOMAIN go.vars \ {""}

\* The value of a type, down to numbers and strings; boxed tells that an interface has the address of a struct.
RECURSIVE Deep(_, _, _, _)
Deep(cells, t, v, boxed) ==
  LET u == IF Kind(t) = "interface" THEN (IF boxed /\ v.t = "T" THEN cells[Deref(v)] ELSE v) ELSE [t |-> t, v |-> v.v]
      in(addr) == Deep(cells, Elem(u.t), cells[addr], boxed)
  IN  CASE Kind(u.t) = "pointer" /\ u.v # <<0>> -> [t |-> u.t, v |-> in(Deref(u))]
        [] Kind(u.t) = "slice" -> [t |-> u.t, v |-> <<SliceLen(u), SliceCap(u), [i \in 1..SliceLen(u) |-> in(ElemAddr(u, i - 1))]>>]
        [] Kind(u.t) = "map" /\ u.v # <<0>> -> [t |-> u.t, v |-> Range(cells[Deref(u)].v)]
        [] u.t \in Signeds \cup Unsigneds -> Num(u.t, u.v[1])
        [] OTHER -> u

\* What the machine has for a variable: a struct is read where it is.
HeldBy(n) ==
  LET r == builder.scope[n]
      t == TypeOf(n)
      file == kindToType(t)
      g == machine.general[r]
  IN  CASE n \notin DOMAIN builder.scope -> machine.cells[machine.vars[n].addr]
        [] n \in DOMAIN builder.scope /\ r < 0 -> Pointed(machine, r)
        [] n \in DOMAIN builder.scope /\ r > 0 /\ file \in {"int", "float"} ->
             [t |-> t, v |-> <<IF file = "int" THEN machine.int[r] ELSE machine.float[r]>>]
        [] n \in DOMAIN builder.scope /\ r > 0 /\ file = "string" -> [t |-> t, v |-> machine.string[r]]
        [] OTHER -> IF t = "T" THEN machine.cells[Deref(g)] ELSE Interface(machine, g)
MachineValue(n) == Deep(machine.cells, TypeOf(n), HeldBy(n), TRUE)
GoValue(n) == Deep(go.cells, TypeOf(n), go.cells[go.vars[n]], FALSE)

\* The variables that can be reached from a name: the ones it refers to and, when it can be shared, its own.
Reached(v) == CASE Kind(v.t) = "pointer" -> v.v [] Kind(v.t) = "slice" -> SubSeq(v.v, 2, SliceLen(v) + 1) [] OTHER -> <<>>
OwnAddress(n) ==
  CASE n \notin DOMAIN builder.scope -> <<machine.vars[n].addr>> [] TypeOf(n) # "T" /\ builder.scope[n] > 0 -> <<>>
    [] OTHER -> <<Deref(machine.general[IF builder.scope[n] < 0 THEN -builder.scope[n] ELSE builder.scope[n]])>>
MachinePaths(n) == OwnAddress(n) \o Reached(HeldBy(n))
GoPaths(n) == (IF OwnAddress(n) = <<>> THEN <<>> ELSE <<go.vars[n]>>) \o Reached(go.cells[go.vars[n]])
\* The paths to every variable that is shared.
Shared(paths(_)) ==
  LET to == UNION {{<<n, i, paths(n)[i]>> : i \in DOMAIN paths(n)} : n \in Names}
      addresses == {way[3] : way \in to} \ {0}
  IN  {{<<way[1], way[2]>> : way \in {w \in to : w[3] = a}} : a \in addresses}

----------------------------------------------------------------------------
(* The programs that are known not to run as Go says                       *)

Children(x) ==
  CASE x.e \in {"bin", "copy", "delete"} -> <<x.x, x.y>> [] x.e = "index" -> <<x.x, x.i>>
    [] x.e \in {"un", "field", "conv", "assert", "len", "cap"} \/ (x.e = "make" /\ Kind(x.t) = "slice") -> <<x.x>>
    [] x.e = "slicing" -> <<x.x, x.low>> \o x.high [] x.e = "lit" -> x.keys \o x.elems
    [] x.e = "append" -> <<x.x>> \o x.args [] x.e = "call" -> x.args [] OTHER -> <<>>
RECURSIVE Inside(_)
Inside(x) == <<x>> \o FlattenSeq([i \in DOMAIN Children(x) |-> Inside(Children(x)[i])])
InsideAll(xs) == FlattenSeq([i \in DOMAIN xs |-> Inside(xs[i])])

RECURSIVE Read(_)
\* The expressions that a statement evaluates, and the ones it assigns to.
Read(st) ==
  CASE st.s = "=" -> InsideAll(st.rhs \o FlattenSeq([i \in DOMAIN st.lhs |-> Children(st.lhs[i])]))
    [] st.s = "var" -> InsideAll(st.rhs) [] st.s = "expr" -> Inside(st.x) [] st.s = "if" -> Inside(st.cond) \o Read(st.then)
Assigned(st) == IF st.s = "=" THEN st.lhs ELSE <<>>
Reads(st, is(_)) == \E i \in DOMAIN Read(st) : is(Read(st)[i])

PlaceOf(n) == IF \E i \in DOMAIN Program.vars : Program.vars[i].n = n
              THEN Program.vars[CHOOSE i \in DOMAIN Program.vars : Program.vars[i].n = n].place ELSE "local"

\* emitter_expressions.go:1012: nothing is emitted for the unary plus, the register of the result is not set.
UnaryPlus(x) == x.e = "un" /\ x.op = "+"
\* registers.go:227: a variable of an interface type that a closure captures is read as the variable and not
\* as the value that it has.
CapturedInterface(x) == x.e = "var" /\ x.t = "any" /\ PlaceOf(x.n) = "captured"
\* checker_expressions.go marks as indirect the operand of & only when it is a name: the field of a struct that
\* no closure captures has the address of a struct that an assignment replaces, or of a copy of a global one.
FieldOfVariable(x) == x.e = "un" /\ x.op = "&" /\ x.x.e = "field" /\ x.x.x.e = "var" /\ Kind(x.x.x.t) = "struct"
                      /\ PlaceOf(x.x.x.n) # "captured"
\* emitter.go:315 and emitter_assignment.go:408: an element that is a struct is not copied, in the argument of a
\* call and in an assignment of many values.
StructElement(x) == x.e = "index" /\ Kind(x.t) = "struct"
SharedElement(x) == x.e = "call" /\ \E i \in DOMAIN x.args : StructElement(x.args[i])
SharedElements(st) == st.s \in {"=", "var"} /\ Len(st.rhs) > 1 /\ \E i \in DOMAIN st.rhs : StructElement(st.rhs[i])

\* emitter_assignment.go:322: the operand of *p op= x is the pointer.
PointerOperation(st) == st.s = "=" /\ st.op # "" /\ st.lhs[1].e = "un"
\* emitter_statements.go:526: the operand of a left side is the register of the variable, that the statement
\* assigns before.
OperandAssigned(st) ==
  \E i, j \in DOMAIN Assigned(st) : i < j /\ st.lhs[i].e = "var" /\ \E k \in DOMAIN Children(st.lhs[j]) : Children(st.lhs[j])[k] = st.lhs[i]
\* emitter_assignment.go:232 and :408: assign takes the type of the target for the one of the value.
TypesOfValues(st) == LET x == st.rhs[1]
                     IN  CASE x.e = "call" -> x.f.out [] x.e = "index" -> <<"int", "bool">> [] x.e = "assert" -> <<x.t, "bool">>
Targets(st) == IF st.s = "=" THEN [i \in DOMAIN st.lhs |-> st.lhs[i].t] ELSE [i \in DOMAIN st.names |-> st.names[i].t]
ValueToInterface(st) ==
  /\ st.s \in {"=", "var"} /\ Len(Targets(st)) > 1
  /\ \E i \in DOMAIN Targets(st) :
       /\ Targets(st)[i] = "any"
       /\ (IF Len(st.rhs) > 1 THEN st.rhs[i].t ELSE TypesOfValues(st)[i]) # "any"
\* registers.go:247: a store through a nil pointer is not a panic of the program, but ends it.
NilStore(st) == \E i \in DOMAIN Assigned(st) : st.lhs[i].e = "un"

Divergent(st) ==
  \/ Reads(st, UnaryPlus) \/ Reads(st, CapturedInterface) \/ Reads(st, FieldOfVariable) \/ Reads(st, SharedElement)
  \/ SharedElements(st) \/ PointerOperation(st) \/ OperandAssigned(st) \/ ValueToInterface(st)
\* run.go:1751, 1770, 1774 and 1784: a count of shift is converted to uint, so that a negative count is a large one and
\* not a panic; the store of Go remembers that it has met one.
NegativeCount == go.negative
Known == NegativeCount \/ \E i \in DOMAIN done : Divergent(done[i])

----------------------------------------------------------------------------
(* Properties                                                              *)

Finished == done # <<>> /\ Idle /\ machine.panic = ""
SameValues == \A n \in Names : MachineValue(n) = GoValue(n)
\* The instructions compiled for statements, executed, leave every variable with the value that the Go
\* specification gives it, and panic exactly where it says, in every program but the known ones.
RunsLikeGo ==
  ~Known => /\ Finished => ~go.panic /\ SameValues
            /\ machine.panic # "" => go.panic /\ (machine.panic = "runtime" \/ NilStore(done[Len(done)]))
\* Two names reach a same variable, through pointers and slices, exactly when they do in Go: nothing that should
\* be copied is shared, nothing that should be shared is copied.
SharesLikeGo == ~Known /\ Finished /\ ~go.panic => Shared(MachinePaths) = Shared(GoPaths)

\* The machine with another value in every register that is not one of some.
Other(file, v) == CASE file \in {"int", "float"} -> v + 1 [] file = "string" -> Append(v, 1) [] file = "general" -> IF v = Invalid THEN Number("*int", 1) ELSE Invalid
Scrambled(m, kept) ==
  LET of(f) == [r \in DOMAIN m[f] |-> IF <<f, r>> \in kept THEN m[f][r] ELSE Other(f, m[f][r])]
  IN  [m EXCEPT !.int = of("int"), !.float = of("float"), !.string = of("string"), !.general = of("general")]
\* disassembler.go:494, 506 and 437: the register of the length is printed as a string, the one of the substring and
\* of the key is not printed, that of the key to delete is printed as a general register.
Misnamed(in) == (in.op = "IfString" /\ in.x \in {"len ==", "not contains substring", "contains key", "not contains key"}) \/ in.op = "Delete"
\* The disassembly of an instruction names the registers that it uses: what it does does not depend on another
\* register, and no other register changes.
NamesWhatItUses ==
  ~Idle /\ machine.panic = "" /\ ~Misnamed(machine.fn[machine.pc]) =>
    LET named == Named(machine.fn[machine.pc])
        files == DOMAIN NoRegisters
        turn == Turn(machine)
        other == Turn(Scrambled(machine, named))
    IN  /\ <<turn.cells, turn.ok, turn.pc, turn.panic>> = <<other.cells, other.ok, other.pc, other.panic>>
        /\ \A f \in files : \A r \in 1..MaxRegisters :
             IF <<f, r>> \in named THEN turn[f][r] = other[f][r] ELSE turn[f][r] = machine[f][r]
=============================================================================
