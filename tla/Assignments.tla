---------------------------- MODULE Assignments ----------------------------
(***************************************************************************)
(* The emitter of statements on variables: emitter_assignment.go and the   *)
(* assignments, the declarations and the conditions of                     *)
(* emitter_statements.go, of src/internal/compiler.                        *)
(*                                                                         *)
(* A statement is [s |-> "=", op, lhs, rhs] (op is "" or the operator of   *)
(* an assignment operation), [s |-> "var", redeclare, names, rhs] where a  *)
(* name is [n, t, indirect], [s |-> "if", cond, then] or [s |-> "expr", x].*)
(* A left side is an expression or [e |-> "blank"].                        *)
(***************************************************************************)
EXTENDS Expressions

NoVar == ""
Address(target, t, op1, op2, var) == [target |-> target, t |-> t, op1 |-> op1, op2 |-> op2, nonLocal |-> var]
Blank == Address("blank", "", 0, 0, NoVar)

\* What an assigned address holds: an element, a field, the variable itself.
targetType(a) ==
  CASE a.target = "blank" -> "none" [] a.target \in {"new indirect var", "local var", "non local var"} -> a.t
    [] a.target \in {"map index", "slice index", "ptr indirection"} -> Elem(a.t) [] a.target = "struct selector" -> "int"

\* The element of a variable that is not local is set in a register, that the variable is set to.
PutBack(b, a) == IF a.nonLocal = NoVar THEN b ELSE emitSetVar(b, FALSE, a.op1, a.nonLocal, a.t)

\* The type t of the value is not looked at, but by the disassembler: it is taken for the one of the target.
assign(b, a, k, value, t) ==
  CASE a.target = "blank" -> b
    [] a.target = "non local var" -> emitSetVar(b, k, value, a.nonLocal, a.t)
    [] a.target = "local var" -> changeRegister(b, k, value, a.op1, targetType(a), a.t)
    [] a.target = "new indirect var" -> changeRegister(emitNew(b, a.t, -a.op1), k, value, a.op1, targetType(a), a.t)
    [] a.target = "ptr indirection" -> changeRegister(b, k, value, -a.op1, targetType(a), a.t)
    [] a.target = "slice index" -> PutBack(emitSetSlice(b, k, a.op1, value, a.op2, t), a)
    [] a.target = "map index" -> PutBack(emitSetMap(b, k, a.op1, value, a.op2), a)
    [] a.target = "struct selector" -> PutBack(emitSetField(b, k, a.op1, value, t), a)

\* Mutant: the operands are exchanged.
emitOperationExchanged(b, op, x, y, z, t) ==
  CASE op = "+" /\ t = "string" -> emitConcat(b, y, x, z) [] op \in BitOps -> emitBit(b, op, FALSE, x, y, z)
    [] OTHER -> emitArithmetic(b, op, FALSE, x, y, z, t)

emitOperation(b, op, x, y, z, t) ==
  CASE op = "+" /\ t = "string" -> emitConcat(b, x, y, z) [] op \in BitOps -> emitBit(b, op, FALSE, x, y, z)
    [] OTHER -> emitArithmetic(b, op, FALSE, x, y, z, t)
emitAssignmentOperation(b, a, op, rh) ==
  LET t == targetType(a)
      left == newRegister(b, t)
      c == Reg(left, t)
      got == CASE a.target = "non local var" -> emitGetVar(left, a.nonLocal, c, a.t)
               [] a.target = "local var" -> changeRegister(left, FALSE, a.op1, c, a.t, t)
               [] a.target = "ptr indirection" -> changeRegister(left, FALSE, a.op1, c, a.t, a.t)
               [] a.target \in {"map index", "slice index"} -> emitIndex(left, FALSE, a.op1, a.op2, c, a.t)
               [] a.target = "struct selector" -> emitField(left, a.op1, c, t)
      right == newRegister(got, t)
      d == Reg(right, t)
  IN  assign(emitOperation(emitExprR(right, rh, t, d), op, c, d, c, t), a, FALSE, c, t)

\* Two values of one expression: a call, an element of a map, a type assertion.
assignTwoValues(b, addrs, x) ==
  LET call == emitCallNode(b, x)
      result(bb, i) == assign(bb, addrs[i], FALSE, call.regs[i], x.f.out[i])
      mp == emitExpr(b, x.x, x.x.t)
      key == emitExprK(mp.b, x.i, "string")
      v == newRegister(newRegister(key.b, "int"), "bool")
      ok == Reg(v, "bool")
      index == emitIndex(v, key.k, mp.r, key.r, ok - 1, x.x.t)
      found == emitMove(emitIf(emitMove(index, TRUE, 1, ok, "bool"), FALSE, 0, "ok", 0, "any"), TRUE, 0, ok, "bool")
      e == emitExpr(b, x.x, "any")
      is == newRegister(e.b, "bool")
      r == newRegister(emitMove(is, TRUE, 1, Reg(is, "bool"), "bool"), x.t)
      asserted == emitMove(emitAssert(r, e.r, x.t, Reg(r, x.t)), TRUE, 0, Reg(is, "bool"), "bool")
  IN  CASE x.e = "call" -> FoldLeft(result, call.b, [i \in DOMAIN addrs |-> i])
        [] x.e = "index" -> assign(assign(found, addrs[1], FALSE, ok - 1, "int"), addrs[2], FALSE, ok, addrs[2].t)
        [] x.e = "assert" -> assign(assign(asserted, addrs[1], FALSE, Reg(r, x.t), x.t), addrs[2], FALSE, Reg(is, "bool"), addrs[2].t)

assignValuesToAddresses(b, op, addrs, values) ==
  LET t == IF addrs[1].target = "blank" THEN values[1].t ELSE targetType(addrs[1])
      one == emitExprK(b, values[1], t)
      \* All the values are in registers before the first of them is assigned.
      value(s, i) == LET reg == newRegister(s.b, values[i].t)
                     IN  [b |-> emitExprR(reg, values[i], values[i].t, Reg(reg, values[i].t)),
                          regs |-> Append(s.regs, Reg(reg, values[i].t))]
      all == FoldLeft(value, [b |-> b, regs |-> <<>>], [i \in DOMAIN values |-> i])
      put(bb, i) == assign(bb, addrs[i], FALSE, all.regs[i], values[i].t)
  IN  CASE Len(addrs) = 1 /\ op # "" -> emitAssignmentOperation(b, addrs[1], op, values[1])
        [] Len(addrs) = 1 /\ op = "" -> exitStack(assign(one.b, addrs[1], one.k, one.r, t), b)
        [] Len(addrs) > 1 /\ Len(addrs) = Len(values) -> exitStack(FoldLeft(put, all.b, [i \in DOMAIN addrs |-> i]), b)
        [] Len(addrs) > Len(values) -> assignTwoValues(b, addrs, values[1])

----------------------------------------------------------------------------
(* Statements                                                              *)

\* The operands of a left side are evaluated before the values.
LeftSide(s, x) ==
  LET base == emitExpr(s.b, x.x, x.x.t)
      index == emitExpr(base.b, x.i, IF Kind(x.x.t) = "map" THEN "string" ELSE "int")
      struct == emitExpr(s.b, Structure(x), Structure(x).t)
      var(of) == IF nonLocal(s.b, of) THEN of.n ELSE NoVar
      to(b, addr) == [b |-> b, addrs |-> Append(s.addrs, addr)]
  IN  CASE x.e = "blank" -> to(s.b, Blank)
        [] x.e = "var" -> to(s.b, IF declaredInFunc(s.b, x) THEN Address("local var", x.t, s.b.scope[x.n], 0, NoVar)
                                  ELSE Address("non local var", x.t, 0, 0, x.n))
        [] x.e = "index" -> to(index.b, Address(IF Kind(x.x.t) = "map" THEN "map index" ELSE "slice index", x.x.t,
                                                base.r, index.r, var(x.x)))
        [] x.e = "field" -> to(struct.b, Address("struct selector", Structure(x).t, struct.r, 0, var(Structure(x))))
        [] x.e = "un" -> to(base.b, Address("ptr indirection", x.x.t, base.r, 0, NoVar))

\* The new names are bound when the values are assigned; a short declaration assigns to a name that the
\* scope has already, if it is not indirect.
emitDeclaration(b, st) ==
  LET new(s, v) ==
        LET old == st.redeclare /\ v.n \in DOMAIN b.scope /\ ~v.indirect
            reg == IF v.indirect THEN newIndirectRegister(s.b) ELSE newRegister(s.b, v.t)
            r == IF v.indirect THEN -Reg(reg, "any") ELSE Reg(reg, v.t)
        IN  CASE v.n = "_" -> [s EXCEPT !.addrs = Append(@, Blank)]
              [] v.n # "_" /\ old -> [s EXCEPT !.addrs = Append(@, Address("local var", v.t, b.scope[v.n], 0, NoVar))]
              [] v.n # "_" /\ ~old ->
                   [b |-> reg, bind |-> (v.n :> r) @@ s.bind,
                    addrs |-> Append(s.addrs, Address(IF v.indirect THEN "new indirect var" ELSE "local var", v.t, r, 0, NoVar))]
      named == FoldLeft(new, [b |-> b, bind |-> <<>>, addrs |-> <<>>], st.names)
  IN  [assignValuesToAddresses(named.b, "", named.addrs, st.rhs) EXCEPT !.scope = named.bind @@ @]

emitAssignmentNode(b, st) ==
  LET left == FoldLeft(LeftSide, [b |-> b, addrs |-> <<>>], st.lhs)
  IN  assignValuesToAddresses(left.b, st.op, left.addrs, st.rhs)

\* A call whose results, if any, are dropped.
emitEffect(b, x) ==
  LET s == emitExpr(b, x.x, x.x.t)
      y == emitExpr(s.b, x.y, x.y.t)
  IN  CASE x.e = "call" -> emitCallNode(b, x).b
        [] x.e = "copy" -> emitCopy(y.b, s.r, y.r, 0) [] x.e = "delete" -> emitDelete(y.b, s.r, y.r)

RECURSIVE emitStatement(_, _)
emitStatement(b, st) ==
  CASE st.s = "=" -> emitAssignmentNode(b, st)
    [] st.s = "var" -> emitDeclaration(b, st)
    [] st.s = "expr" -> exitStack(emitEffect(b, st.x), b)
    [] st.s = "if" -> LET test == emitCondition(b, st.cond)
                      IN  Land(emitStatement(emitGoto(test, 0), st.then), currentAddr(test))
=============================================================================
