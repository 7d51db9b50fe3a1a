----------------------------- MODULE Expressions -----------------------------
(***************************************************************************)
(* The emitter of expressions, conditions, assignments and the arguments   *)
(* of calls: emitter_expressions.go, emitter_assignment.go, emitter_util.go*)
(* and parts of emitter.go and emitter_statements.go of                    *)
(* src/internal/compiler.                                                  *)
(*                                                                         *)
(* An expression is [e, t, ...]: what it is, its type and its parts.  The  *)
(* type checker has folded the constants, that have a value v.  scope of   *)
(* the builder holds the registers of the local variables, negative those  *)
(* of the variables that a closure captures; the other variables are not   *)
(* local.  Emitting an expression gives [b, r, k]: the builder, and the    *)
(* register or the immediate value of the expression.                      *)
(***************************************************************************)
EXTENDS FunctionBuilder

Builder(scope, regs) == [body |-> <<>>, regs |-> regs, values |-> NoValues, scope |-> scope]
declaredInFunc(b, x) == x.e = "var" /\ x.n \in DOMAIN b.scope
nonLocal(b, x) == x.e = "var" /\ x.n \notin DOMAIN b.scope
HasValue(x) == x.e = "const"
Nil(x) == x.e = "const" /\ x.nil
Immediate(n) == -(2^(ByteBits - 1)) <= n /\ n < 2^(ByteBits - 1)
In_(b, r, k) == [b |-> b, r |-> r, k |-> k]

\* Moves the content of a register to another of another type.
changeRegister(b, k, src, dst, srcType, dstType) ==
  CASE dst < 0 -> emitTypify(b, k, srcType, src, dst)
    [] dst > 0 /\ Kind(dstType) = "interface" /\ Kind(srcType) = "interface" -> emitMove(b, k, src, dst, srcType)
    [] dst > 0 /\ Kind(dstType) = "interface" /\ Kind(srcType) # "interface" -> emitTypify(b, k, srcType, src, dst)
    [] OTHER ->
         LET tmp == newRegister(b, srcType)
         IN  CASE Kind(dstType) # Kind(srcType) /\ k ->
                    exitStack(emitConvert(emitMove(tmp, TRUE, src, Reg(tmp, srcType), srcType),
                                          Reg(tmp, srcType), dstType, dst, srcType), b)
               [] Kind(dstType) # Kind(srcType) /\ ~k -> emitConvert(b, src, dstType, dst, srcType)
               [] OTHER -> IF k \/ src # dst THEN emitMove(b, k, src, dst, srcType) ELSE b

\* Emits a value of type t into register reg of type dst, through another register if it is needed.
Into(b, t, dst, reg, emit(_, _)) ==
  IF canEmitDirectly(t, dst) THEN emit(b, reg)
  ELSE LET tmp == newRegister(b, t) IN changeRegister(emit(tmp, Reg(tmp, t)), FALSE, Reg(tmp, t), reg, t, dst)
IntoStack(b, t, dst, reg, emit(_, _)) ==
  LET done == Into(b, t, dst, reg, emit) IN IF canEmitDirectly(t, dst) THEN done ELSE exitStack(done, b)

\* A constant, or a nil.
emitValueNotPredefined(b, x, reg, dst) ==
  LET file == kindToType(x.t)
      number(bb, r) == emitLoad(bb, file, x.v[1], r)
      value == IF file = "string" THEN x.v ELSE IF Nil(x) /\ x.t = "any" THEN Invalid ELSE [t |-> x.t, v |-> x.v]
      with == makeValue(b, file, value)
  IN  IF file \in {"int", "float"} /\ canEmitDirectly(x.t, dst) THEN changeRegister(number(b, reg), FALSE, reg, reg, x.t, dst)
      ELSE IF file \in {"int", "float"} THEN Into(b, x.t, dst, reg, number)
      ELSE changeRegister(with, TRUE, ValueIndex(with, file, value), reg, x.t, dst)

----------------------------------------------------------------------------
RECURSIVE emitExprIn(_, _, _, _, _)
emitExpr(b, x, dst) == emitExprIn(b, x, dst, 0, FALSE)
emitExprK(b, x, dst) == emitExprIn(b, x, dst, 0, TRUE)
emitExprR(b, x, dst, reg) == emitExprIn(b, x, dst, reg, FALSE).b

----------------------------------------------------------------------------
(* Comparisons and conditions, that end in an instruction that jumps       *)

emitComparison(b, op, ky, x, y, t1, t2) ==
  LET one == (Kind(t1) = "interface") # (Kind(t2) = "interface")
      either == Kind(t1) = "interface" \/ Kind(t2) = "interface"
      cond == CASE op \in {"==", "!="} -> IF either THEN "interface " \o op ELSE op
                [] OTHER -> IF t1 \in Unsigneds THEN op \o "U" ELSE op
      g == newRegister(b, "any")
      r == Reg(g, "any")
  IN  CASE one /\ Kind(t1) = "interface" -> exitStack(emitIf(changeRegister(g, ky, y, r, t2, t1), FALSE, x, cond, r, t1), b)
        [] one /\ Kind(t2) = "interface" -> exitStack(emitIf(changeRegister(g, FALSE, x, r, t1, t2), ky, r, cond, y, t2), b)
        [] OTHER -> emitIf(b, ky, x, cond, y, t1)

\* x contains y; y is a nil of no type, or has a type.
emitContains(b, not, ky, x, y, t1, t2) ==
  LET null == t2 = "nil"
      cond == (IF not THEN "not " ELSE "") \o
              (CASE null -> "contains nil" [] t1 = "string" /\ t2 = "string" -> "contains substring"
                 [] t1 = "string" /\ t2 # "string" -> "contains rune"
                 [] Kind(t1) = "slice" /\ ~null -> "contains element" [] Kind(t1) = "map" -> "contains key")
      t == CASE t1 = "string" -> t2 [] Kind(t1) = "map" -> "string" [] OTHER -> Elem(t1)
      g == newRegister(b, "any")
  IN  IF Kind(t) = "interface" /\ ~null /\ Kind(t2) # "interface"
      THEN exitStack(emitIf(changeRegister(g, ky, y, Reg(g, "any"), t2, t), FALSE, x, cond, Reg(g, "any"), t), b)
      ELSE emitIf(b, ky, x, cond, y, t)

Comparisons == {"==", "!=", "<", "<=", ">", ">="}
inverted(op) == CASE op = "<" -> ">" [] op = "<=" -> ">=" [] op = ">" -> "<" [] op = ">=" -> "<=" [] OTHER -> op
Integers_ == Signeds \cup Unsigneds

\* The operand that is compared with the constant zero; a constant that is not an integer is taken for zero.
IsZeroOperand(x) == HasValue(x) /\ (kindToType(x.t) = "int" => x.v = <<0>>)
comparedWithZero(x) == IF HasValue(x.y) THEN x.x ELSE x.y
comparisonWithZeroInteger(x) ==
  /\ x.op \in {"==", "!="} /\ (HasValue(x.x) \/ HasValue(x.y))
  /\ comparedWithZero(x).t \in Integers_
  /\ IsZeroOperand(IF HasValue(x.y) THEN x.y ELSE x.x)

IsLen(x) == x.e = "len" /\ x.x.t = "string"
emitCondition(b, x) ==
  LET two == x.e = "bin"
      truth == newRegister(b, "bool")
      zero == emitExpr(b, comparedWithZero(x), comparedWithZero(x).t)
      some == IF Nil(x.x) THEN x.y ELSE x.x
      null == emitExpr(b, some, some.t)
      nilCond == (IF Kind(some.t) = "interface" THEN "interface " ELSE "") \o (IF x.op = "==" THEN "nil" ELSE "not nil")
      len == IF IsLen(x.x) THEN x.x.x ELSE x.y.x
      other == IF IsLen(x.x) THEN x.y ELSE x.x
      lenOp == IF IsLen(x.x) THEN x.op ELSE inverted(x.op)
      str == emitExpr(b, len, "string")
      num == emitExprK(str.b, other, other.t)
      left == emitExpr(b, x.x, x.x.t)
      right == IF x.op \in {"contains", "not contains"} /\ Nil(x.y) THEN In_(left.b, 0, FALSE)
               ELSE emitExprK(left.b, x.y, x.y.t)
      not == emitExpr(b, x.x, x.x.t)
      any == emitExpr(b, x, x.t)
      equality == two /\ x.op \in {"==", "!="}
  IN  IF HasValue(x) THEN emitIf(emitMove(truth, TRUE, x.v[1], Reg(truth, "bool"), "bool"), FALSE, Reg(truth, "bool"), "not zero", 0, "bool")
      ELSE IF two /\ comparisonWithZeroInteger(x)
      THEN emitIf(zero.b, FALSE, zero.r, IF x.op = "==" THEN "zero" ELSE "not zero", 0, comparedWithZero(x).t)
      ELSE IF equality /\ Nil(x.x) # Nil(x.y) THEN emitIf(null.b, FALSE, null.r, nilCond, 0, some.t)
      ELSE IF two /\ x.op \in Comparisons /\ IsLen(x.x) # IsLen(x.y)
      THEN emitIf(num.b, num.k, str.r, "len " \o lenOp, num.r, "string")
      ELSE IF two /\ x.op \in Comparisons THEN emitComparison(right.b, x.op, right.k, left.r, right.r, x.x.t, x.y.t)
      ELSE IF two /\ x.op \in {"contains", "not contains"}
      THEN emitContains(right.b, x.op = "not contains", right.k, left.r, right.r, x.x.t, IF Nil(x.y) THEN "nil" ELSE x.y.t)
      ELSE IF x.e = "un" /\ x.op = "!" THEN emitIf(not.b, FALSE, not.r, "zero", 0, "bool")
      ELSE emitIf(any.b, FALSE, any.r, "not zero", 0, "bool")

----------------------------------------------------------------------------
(* Operators                                                               *)

\* The jump at an address goes to the current address.
Land(b, at) == [b EXCEPT !.body[at].x = currentAddr(b)]

emitLogical(b, x, reg) ==
  LET left == emitExprR(b, x.x, "bool", reg)
      test == emitIf(left, TRUE, reg, "==", IF x.op = "&&" THEN 1 ELSE 0, "int")
  IN  Land(emitExprR(emitGoto(test, 0), x.y, "bool", reg), currentAddr(test))

emitBit(b, op, k, x, y, z) ==
  CASE op = "&" -> emitAnd(b, k, x, y, z) [] op = "|" -> emitOr(b, k, x, y, z)
    [] op = "^" -> emitXor(b, k, x, y, z) [] op = "&^" -> emitAndNot(b, k, x, y, z)
emitArithmetic(b, op, k, x, y, z, t) ==
  CASE op = "+" -> emitAdd(b, k, x, y, z, t) [] op = "-" -> emitSub(b, k, x, y, z, t)
    [] op = "*" -> emitMul(b, k, x, y, z, t) [] op = "/" -> emitDiv(b, k, x, y, z, t)
    [] op = "%" -> emitRem(b, k, x, y, z, t)
    [] op = "<<" -> emitShl(b, k, x, y, z, t) [] op = ">>" -> emitShr(b, k, x, y, z, t)

BitOps == {"&", "|", "^", "&^"}
emitBinaryOp(b, x, reg, dst) ==
  LET logical(bb, z) == emitLogical(bb, x, z)
      yes(bb, z) == emitMove(bb, TRUE, 1, z, "bool")
      no(bb, z) == emitMove(bb, TRUE, 0, z, "bool")
      left == emitExpr(b, x.x, x.x.t)
      right == emitExprK(left.b, x.y, x.y.t)
      again == emitExpr(right.b, x.y, x.y.t)
      concat(bb, z) == emitConcat(bb, left.r, IF right.k THEN again.r ELSE right.r, z)
      bit(bb, z) == emitBit(bb, x.op, right.k, left.r, right.r, z)
      three(bb, z) == emitArithmetic(bb, x.op, right.k, left.r, right.r, z, x.t)
      tmp == newRegister(right.b, x.t)
      two == emitArithmetic(changeRegister(tmp, FALSE, left.r, Reg(tmp, x.t), x.t, x.t), x.op, right.k, Reg(tmp, x.t), right.r,
                            Reg(tmp, x.t), x.t)
      contains(bb, z) == no(emitContains(yes(bb, z), x.op = "not contains", right.k, left.r, right.r, x.x.t, x.y.t), z)
      compare(bb, z) == no(emitComparison(yes(bb, z), x.op, right.k, left.r, right.r, x.x.t, x.y.t), z)
  IN  CASE x.op \in {"&&", "||"} -> IntoStack(b, "bool", dst, reg, logical)
        [] x.op \notin {"&&", "||"} /\ (Nil(x.x) \/ Nil(x.y)) ->
             changeRegister(emitCondition(changeRegister(b, TRUE, 1, reg, "bool", dst), x), TRUE, 0, reg, "bool", dst)
        [] x.op = "+" /\ x.t = "string" -> IntoStack(IF right.k THEN again.b ELSE right.b, "string", dst, reg, concat)
        [] x.op \in BitOps -> IntoStack(right.b, x.t, dst, reg, bit)
        [] x.op \in {"+", "-", "*", "/", "%", "<<", ">>"} /\ x.t = "int" -> IntoStack(right.b, "int", dst, reg, three)
        [] x.op \in {"+", "-", "*", "/", "%", "<<", ">>"} /\ x.t \notin {"int", "string"} ->
             exitStack(changeRegister(two, FALSE, Reg(tmp, x.t), reg, x.t, dst), right.b)
        [] x.op \in {"contains", "not contains"} /\ ~Nil(x.y) -> IntoStack(right.b, "bool", dst, reg, contains)
        [] x.op \in Comparisons /\ ~Nil(x.x) /\ ~Nil(x.y) -> IntoStack(right.b, "bool", dst, reg, compare)

\* The internal operators that templates apply to the operands of and, or and not: they write a bool
\* directly when the operand, and not the bool, could be.
emitTruth(b, x, reg, dst) ==
  LET src == emitExpr(b, x.x, x.x.t)
      zero(bb, z) == IF x.op = "not zero" THEN emitNotZero(bb, x.x.t, z, src.r) ELSE emitZero(bb, x.x.t, z, src.r)
      tmp == newRegister(src.b, "bool")
      r == Reg(tmp, "bool")
  IN  exitStack(IF canEmitDirectly(x.x.t, dst) THEN zero(src.b, reg)
                ELSE changeRegister(zero(tmp, r), FALSE, r, reg, "bool", dst), b)

\* A field of a struct, or of what a pointer refers to: the star of (*p).x is dropped.
Structure(x) == IF x.x.e = "un" /\ x.x.op = "*" THEN x.x.x ELSE x.x

emitAddress(b, x, reg, dst) ==
  LET of == x.x
      tmp == newRegister(b, x.t)
      r == Reg(tmp, x.t)
      base == emitExpr(b, of.x, of.x.t)
      index == emitExpr(base.b, of.i, "int")
      elem(bb, z) == emitAddr(bb, base.r, index.r, z)
      slot == newRegister(index.b, x.t)
      \* The address of an element is computed twice: before the register is known to be needed, and after.
      twice == IF canEmitDirectly(x.t, dst) THEN elem(index.b, reg) ELSE index.b
      again == newRegister(twice, x.t)
      struct == emitExpr(b, Structure(of), Structure(of).t)
      field(bb, z) == emitAddr(bb, struct.r, 0, z)
      \* The pointer is read to check that it is not nil; what is read is dropped.
      pointed == newRegister(base.b, of.t)
      read == exitStack(changeRegister(pointed, FALSE, -base.r, Reg(pointed, of.t), of.t, of.t), b)
  IN  CASE of.e = "var" /\ declaredInFunc(b, of) -> emitMove(emitNew(b, x.t, reg), FALSE, -b.scope[of.n], reg, dst)
        [] of.e = "var" /\ nonLocal(b, of) ->
             exitStack(changeRegister(emitGetVarAddr(tmp, of.n, r), FALSE, r, reg, x.t, dst), b)
        [] of.e = "index" -> exitStack(changeRegister(elem(again, Reg(again, x.t)), FALSE, Reg(again, x.t), reg, x.t, dst), twice)
        [] of.e = "un" -> emitExprR(read, of.x, dst, reg)
        [] of.e = "field" -> IntoStack(struct.b, x.t, dst, reg, field)
        [] of.e = "lit" -> changeRegister(emitExprR(emitNew(tmp, of.t, r), of, of.t, -r), FALSE, r, reg, x.t, dst)

emitUnaryOp(b, x, reg, dst) ==
  LET y == emitExpr(b, x.x, x.x.t)
      one == newRegister(y.b, "int")
      r == Reg(one, "int")
      not == emitSub(changeRegister(one, TRUE, 1, r, "int", "int"), FALSE, r, y.r, r, "bool")
      value == newRegister(y.b, x.t)
      v == Reg(value, x.t)
      neg(bb, z) == emitNeg(bb, y.r, z, IF canEmitDirectly(x.x.t, dst) THEN dst ELSE x.t)
      own == newRegister(b, x.t)
      given == newRegister(emitExprR(own, x.x, x.t, Reg(own, x.t)), x.t)
      ones == IF x.t \in Signeds THEN changeRegister(given, TRUE, -1, Reg(given, x.t), x.t, x.t)
              ELSE emitLoad(given, "int", IF x.t = "uint8" THEN 2^ByteBits - 1 ELSE -1, Reg(given, x.t))
      flip == emitXor(ones, FALSE, Reg(given, x.t), Reg(own, x.t), Reg(given, x.t))
  IN  CASE x.op \in {"zero", "not zero"} -> emitTruth(b, x, reg, dst)
        [] x.op = "!" -> exitStack(changeRegister(not, FALSE, r, reg, "bool", dst), b)
        [] x.op = "*" /\ canEmitDirectly(x.t, dst) -> changeRegister(y.b, FALSE, -y.r, reg, x.t, dst)
        [] x.op = "*" /\ ~canEmitDirectly(x.t, dst) ->
             changeRegister(changeRegister(value, FALSE, -y.r, v, x.t, x.t), FALSE, v, reg, x.t, dst)
        [] x.op = "&" -> emitAddress(b, x, reg, dst)
        [] x.op = "+" -> b
        [] x.op = "-" -> exitStack(Into(y.b, x.t, dst, reg, neg), b)
        [] x.op = "^" -> exitStack(changeRegister(flip, FALSE, Reg(given, x.t), reg, x.t, dst), b)

----------------------------------------------------------------------------
(* Elements, fields, literals, conversions and calls                       *)

emitIndexExpr(b, x, reg, dst) ==
  LET base == emitExpr(b, x.x, x.x.t)
      index == emitExprK(base.b, x.i, IF Kind(x.x.t) = "map" THEN "string" ELSE "int")
      get(bb, z) == emitIndex(bb, index.k, base.r, index.r, z, x.x.t)
  IN  IntoStack(index.b, x.t, dst, reg, get)

emitSelector(b, x, reg, dst) ==
  LET s == emitExpr(b, Structure(x), Structure(x).t)
      get(bb, z) == emitField(bb, s.r, z, IF canEmitDirectly(x.t, dst) THEN dst ELSE x.t)
  IN  Into(s.b, x.t, dst, reg, get)

emitCompositeLiteral(b, x, reg, dst) ==
  LET direct == canEmitDirectly(x.t, dst)
      work == IF direct THEN b ELSE newRegister(b, x.t)
      w == IF direct THEN reg ELSE Reg(work, x.t)
      n == Len(x.elems)
      element(bb, i) ==
        LET index == newRegister(bb, "int")
            value == emitExprK(emitMove(index, TRUE, i - 1, Reg(index, "int"), "int"), x.elems[i], Elem(x.t))
        IN  IF HasValue(x.elems[i]) /\ (Nil(x.elems[i]) \/ (x.elems[i].v = ZeroOf(x.elems[i].t).v /\ Elem(x.t) # "any")) THEN bb
            ELSE exitStack(emitSetSlice(value.b, value.k, w, value.r, Reg(index, "int"), Elem(x.t)), bb)
      elements == FoldLeft(element, emitMakeSlice(work, TRUE, TRUE, x.t, n, n, w), [i \in 1..n |-> i])
      none(bb, z) == emitMakeStruct(bb, x.t, z)
      struct == IF direct THEN newRegister(b, x.t) ELSE b
      s == IF direct THEN Reg(struct, x.t) ELSE reg
      made == emitMakeStruct(struct, x.t, s)
      value == emitExprK(made, x.elems[1], "int")
      pairs == newRegister(b, x.t)
      pair(bb, i) ==
        LET key == newRegister(bb, "string")
            v == emitExprK(emitExprR(key, x.keys[i], "string", Reg(key, "string")), x.elems[i], Elem(x.t))
        IN  exitStack(emitSetMap(v.b, v.k, Reg(pairs, x.t), v.r, Reg(key, "string")), bb)
      map == FoldLeft(pair, emitMakeMap(pairs, x.t, Reg(pairs, x.t)), [i \in 1..n |-> i])
  IN  CASE Kind(x.t) = "slice" -> exitStack(IF direct THEN elements ELSE changeRegister(elements, FALSE, w, reg, x.t, dst), b)
        [] Kind(x.t) = "struct" /\ n = 0 /\ direct -> none(b, reg)
        [] Kind(x.t) = "struct" /\ n = 0 /\ ~direct ->
             exitStack(changeRegister(none(work, w), FALSE, w, reg, x.t, dst), b)
        [] Kind(x.t) = "struct" /\ n > 0 ->
             exitStack(changeRegister(emitSetField(value.b, value.k, s, value.r, "int"), FALSE, s, reg, x.t, dst), b)
        [] Kind(x.t) = "map" -> changeRegister(map, FALSE, Reg(pairs, x.t), reg, x.t, dst)

emitConversion(b, x, reg, dst) ==
  LET arg == emitExpr(b, x.x, x.x.t)
      convert(bb, z) == changeRegister(bb, FALSE, arg.r, z, x.x.t, x.t)
  IN  IntoStack(arg.b, x.t, dst, reg, convert)

emitTypeAssertion(b, x, reg, dst) ==
  LET v == emitExpr(b, x.x, x.x.t)
      assert(bb, z) == emitPanic(emitAssert(bb, v.r, x.t, z))
  IN  IntoStack(v.b, x.t, dst, reg, assert)

emitSlicing(b, x, reg, dst) ==
  LET src == emitExpr(b, x.x, x.x.t)
      low == emitExprK(src.b, x.low, "int")
      high == IF x.high = <<>> THEN In_(low.b, -1, TRUE) ELSE emitExprK(low.b, x.high[1], "int")
      slice(bb, z) == IF x.t = "string" THEN emitStringSlice(bb, low.k, high.k, src.r, z, low.r, high.r)
                      ELSE emitSlice(bb, low.k, high.k, src.r, z, low.r, high.r)
  IN  IntoStack(high.b, x.t, dst, reg, slice)

\* The parameters, out and in, have the next registers, where the function has its first ones.
prepareCallParameters(b, out, ins, args) ==
  LET reserve == FoldLeft(newRegister, b, out)
      argument(bb, i) == LET param == newRegister(bb, ins[i])
                         IN  exitStack(emitExprR(param, args[i], ins[i], Reg(param, ins[i])), param)
  IN  FoldLeft(argument, reserve, [i \in 1..Len(ins) |-> i])
\* The registers of the out parameters, and the call.
emitCallNode(b, x) ==
  [b |-> emitCallFunc(prepareCallParameters(b, x.f.out, x.f.in, x.args), x.f, b.regs),
   regs |-> [i \in 1..Len(x.f.out) |-> b.regs[kindToType(x.f.out[i])] +
               Cardinality({j \in 1..i : kindToType(x.f.out[j]) = kindToType(x.f.out[i])})]]
emitCall(b, x, reg, dst) ==
  LET call == emitCallNode(b, x)
  IN  exitStack(IF reg = 0 THEN call.b ELSE changeRegister(call.b, FALSE, call.regs[1], reg, x.f.out[1], dst), b)

emitAppendCall(b, x, reg, dst) ==
  LET s == emitExpr(b, x.x, x.x.t)
      tmp == newRegister(s.b, x.t)
      r == Reg(tmp, x.t)
      moved == changeRegister(tmp, FALSE, s.r, r, x.t, x.t)
      arg == emitExpr(moved, x.args[1], x.args[1].t)
      value(bb, a) == LET elem == newRegister(bb, Elem(x.t)) IN exitStack(emitExprR(elem, a, Elem(x.t), Reg(elem, Elem(x.t))), elem)
      first == Reg(moved, Elem(x.t)) + 1
      put == emitAppend(FoldLeft(value, moved, x.args), first, first + Len(x.args), r, Elem(x.t))
  IN  IF x.dots THEN changeRegister(emitAppendSlice(arg.b, arg.r, r), FALSE, r, reg, x.t, dst)
      ELSE exitStack(changeRegister(put, FALSE, r, reg, x.t, dst), s.b)

emitBuiltin(b, x, reg, dst) ==
  LET s == emitExpr(b, x.x, x.x.t)
      len(bb, z) == emitLen(bb, s.r, z, x.x.t)
      cap(bb, z) == emitCap(bb, s.r, z)
      src == emitExpr(s.b, x.y, x.y.t)
      copy(bb, z) == emitCopy(bb, s.r, src.r, z)
      size == emitExprK(b, x.x, "int")
  IN  CASE x.e = "append" -> emitAppendCall(b, x, reg, dst)
        [] x.e = "len" -> IntoStack(s.b, "int", dst, reg, len)
        [] x.e = "cap" -> Into(s.b, "int", dst, reg, cap)
        [] x.e = "copy" -> IntoStack(src.b, "int", dst, reg, copy)
        [] x.e = "make" /\ Kind(x.t) = "slice" -> emitMakeSlice(size.b, size.k, size.k, x.t, size.r, size.r, reg)
        [] x.e = "make" /\ Kind(x.t) = "map" -> emitMakeMap(b, x.t, reg)
        [] x.e = "new" -> emitNew(b, Elem(x.t), reg)

emitIdentifier(b, x, reg, dst) ==
  LET get(bb, z) == emitGetVar(bb, x.n, z, IF canEmitDirectly(x.t, dst) THEN dst ELSE x.t)
  IN  IF declaredInFunc(b, x) THEN changeRegister(b, FALSE, b.scope[x.n], reg, x.t, dst)
      ELSE IntoStack(b, x.t, dst, reg, get)

\* A register is allocated only when the expression is not an immediate value, nor a local variable
\* that can be read where it is.
emitExprIn(b, x, dst, reg, allowK) ==
  LET nb == IF reg = 0 THEN newRegister(b, dst) ELSE b
      r == IF reg = 0 THEN Reg(nb, dst) ELSE reg
      emitted ==
        CASE HasValue(x) -> emitValueNotPredefined(nb, x, r, dst)
          [] x.e = "bin" -> emitBinaryOp(nb, x, r, dst)
          [] x.e = "un" -> emitUnaryOp(nb, x, r, dst)
          [] x.e = "var" -> emitIdentifier(nb, x, r, dst)
          [] x.e = "index" -> emitIndexExpr(nb, x, r, dst)
          [] x.e = "field" -> emitSelector(nb, x, r, dst)
          [] x.e = "lit" -> emitCompositeLiteral(nb, x, r, dst)
          [] x.e = "conv" -> emitConversion(nb, x, r, dst)
          [] x.e = "assert" -> emitTypeAssertion(nb, x, r, dst)
          [] x.e = "slicing" -> emitSlicing(nb, x, r, dst)
          [] x.e = "call" -> emitCall(nb, x, r, dst)
          [] x.e \in {"append", "len", "cap", "copy", "make", "new"} -> emitBuiltin(nb, x, r, dst)
      file == kindToType(x.t)
  IN  IF reg = 0 /\ allowK /\ HasValue(x) /\ file \in {"int", "float"} /\ canEmitDirectly(x.t, dst) /\ Immediate(x.v[1])
      THEN In_(b, x.v[1], TRUE)
      ELSE IF reg = 0 /\ declaredInFunc(b, x) /\ canEmitDirectly(x.t, dst) THEN In_(b, b.scope[x.n], FALSE)
      ELSE In_(emitted, r, FALSE)
=============================================================================
