--------------------------- MODULE FunctionBuilder ---------------------------
(***************************************************************************)
(* The builder of the body of a function: allocation of registers, the     *)
(* values that instructions refer to, and one function for every           *)
(* instruction, that chooses its operation and lays out its operands, of   *)
(* src/internal/compiler/builder.go and builder_instructions.go.           *)
(*                                                                         *)
(* A builder is [body, regs, values]: the instructions, the registers in   *)
(* use of every file, and the values of every type.  An emit function      *)
(* returns the builder it leaves.  Labels and scopes are in Emitter.       *)
(***************************************************************************)
EXTENDS Instructions

NoRegisters == [int |-> 0, float |-> 0, string |-> 0, general |-> 0]
NoValues == [int |-> <<>>, float |-> <<>>, string |-> <<>>, general |-> <<>>]

\* The register that newRegister has just allocated for type t.
newRegister(b, t) == [b EXCEPT !.regs[kindToType(t)] = @ + 1]
Reg(b, t) == b.regs[kindToType(t)]
newIndirectRegister(b) == newRegister(b, "any")
\* exitStack, to what was in use in an earlier builder.
exitStack(b, entered) == [b EXCEPT !.regs = entered.regs]

\* A value that the function already has is not added.
makeValue(b, file, v) == IF \E i \in DOMAIN b.values[file] : b.values[file][i] = v THEN b
                         ELSE [b EXCEPT !.values[file] = Append(@, v)]
ValueIndex(b, file, v) == CHOOSE i \in DOMAIN b.values[file] : b.values[file][i] = v

\* A value that can be emitted without going through another register.
canEmitDirectly(t1, t2) == Kind(t2) # "interface" /\ t1 # "func" /\ t2 # "func" /\ kindToType(t1) = kindToType(t2)

flattenIntegerKind(t) == IF t \in {"bool", "int"} THEN "int" ELSE t

----------------------------------------------------------------------------
\* What is added for the disassembler, the kind of an operand whose file the operation does not tell, is in x.
Put(b, op, k, x, y, z, more) == [b EXCEPT !.body = Append(@, In(op, k, x, y, z, more))]

\* int and float64 have an instruction of their own, with three registers; the other kinds have one with
\* two, z being x, and their kind.
Arithmetic(b, op, own, k, x, y, z, t) ==
  IF t \in DOMAIN own THEN Put(b, own[t], k, x, y, z, "") ELSE Put(b, op, k, 0, y, z, flattenIntegerKind(t))
emitAdd(b, k, x, y, z, t) == Arithmetic(b, "Add", [int |-> "AddInt", float64 |-> "AddFloat64"], k, x, y, z, t)
emitSub(b, k, x, y, z, t) == Arithmetic(b, "Sub", [int |-> "SubInt", float64 |-> "SubFloat64"], k, x, y, z, t)
emitMul(b, k, x, y, z, t) == Arithmetic(b, "Mul", [int |-> "MulInt", float64 |-> "MulFloat64"], k, x, y, z, t)
emitDiv(b, k, x, y, z, t) == Arithmetic(b, "Div", [int |-> "DivInt", float64 |-> "DivFloat64"], k, x, y, z, t)
emitRem(b, k, x, y, z, t) == Arithmetic(b, "Rem", [int |-> "RemInt"], k, x, y, z, t)
emitShl(b, k, x, y, z, t) == Arithmetic(b, "Shl", [int |-> "ShlInt"], k, x, y, z, t)
emitShr(b, k, x, y, z, t) == Arithmetic(b, "Shr", [int |-> "ShrInt"], k, x, y, z, t)
emitAnd(b, k, x, y, z) == Put(b, "And", k, x, y, z, "")
emitAndNot(b, k, x, y, z) == Put(b, "AndNot", k, x, y, z, "")
emitOr(b, k, x, y, z) == Put(b, "Or", k, x, y, z, "")
emitXor(b, k, x, y, z) == Put(b, "Xor", k, x, y, z, "")
emitNeg(b, y, z, t) == Put(b, "Neg", FALSE, 0, y, z, flattenIntegerKind(t))
emitConcat(b, s, t, z) == Put(b, "Concat", FALSE, s, t, z, "")

emitConvert(b, src, t, dst, srcType) ==
  LET op == CASE srcType \in Unsigneds -> "ConvertUint" [] kindToType(srcType) = "int" -> "ConvertInt"
              [] kindToType(srcType) = "float" -> "ConvertFloat" [] OTHER -> "Convert"
  IN  Put(b, op, FALSE, src, 0, dst, t)
emitAssert(b, e, t, z) == Put(b, "Assert", FALSE, e, 0, z, t)
emitPanic(b) == Put(b, "Panic", FALSE, 0, 0, 0, "")
emitTypify(b, k, t, x, z) == Put(b, "Typify", k, 0, x, z, t)

emitIf(b, k, x, cond, y, t) ==
  Put(b, CASE kindToType(t) = "int" -> "IfInt" [] kindToType(t) = "float" -> "IfFloat"
           [] kindToType(t) = "string" -> "IfString" [] OTHER -> "If", k, x, 0, y, cond)
emitZero(b, t, dst, src) == Put(b, "Zero", FALSE, 0, src, dst, [file |-> kindToType(t), not |-> FALSE])
emitNotZero(b, t, dst, src) == Put(b, "Zero", FALSE, 0, src, dst, [file |-> kindToType(t), not |-> TRUE])

emitMove(b, k, x, z, t) == Put(b, "Move", k, 0, x, z, kindToType(t))
emitLoad(b, file, v, dst) ==
  LET new == makeValue(b, file, v) IN Put(new, "Load", FALSE, 0, ValueIndex(new, file, v), dst, file)
emitGetVar(b, var, r, t) == Put(b, "GetVar", FALSE, 0, 0, r, [var |-> var, kind |-> t])
emitGetVarAddr(b, var, r) == Put(b, "GetVarAddr", FALSE, 0, 0, r, var)
emitSetVar(b, k, r, var, t) == Put(b, "SetVar", k, r, 0, 0, [var |-> var, kind |-> t])
emitNew(b, t, z) == Put(b, "New", FALSE, 0, 0, z, t)
emitMakeStruct(b, t, dst) == Put(b, "MakeStruct", FALSE, 0, 0, dst, t)
emitField(b, s, dst, t) == Put(b, "Field", FALSE, s, 0, dst, t)
emitSetField(b, k, s, v, t) == Put(b, "SetField", k, v, s, 0, t)
emitAddr(b, expr, index, dst) == Put(b, "Addr", FALSE, expr, index, dst, "")

emitIndex(b, k, expr, i, dst, t) ==
  Put(b, CASE Kind(t) = "slice" -> "IndexRef" [] Kind(t) = "map" -> "MapIndex" [] t = "string" -> "IndexString",
      k, expr, i, dst, IF t = "string" THEN "" ELSE Elem(t))
emitSetSlice(b, k, s, v, i, t) == Put(b, "SetSlice", k, v, s, i, t)
emitSetMap(b, k, mp, v, key) == Put(b, "SetMap", k, v, mp, key, "")
emitDelete(b, mp, key) == Put(b, "Delete", FALSE, mp, key, 0, "")
emitMakeSlice(b, kLen, kCap, t, len, cap, dst) == Put(b, "MakeSlice", <<kLen, kCap>>, len, cap, dst, t)
emitMakeMap(b, t, dst) == Put(b, "MakeMap", TRUE, 0, 0, dst, t)
emitSlice(b, kLow, kHigh, src, dst, low, high) == Put(b, "Slice", <<kLow, kHigh>>, src, 0, dst, [low |-> low, high |-> high])
emitStringSlice(b, kLow, kHigh, src, dst, low, high) ==
  Put(b, "StringSlice", <<kLow, kHigh>>, src, 0, dst, [low |-> low, high |-> high])
emitAppend(b, start, end, s, t) == Put(b, "Append", FALSE, start, end, s, t)
emitAppendSlice(b, t, s) == Put(b, "AppendSlice", FALSE, t, 0, s, "")
emitCopy(b, dst, src, n) == Put(b, "Copy", FALSE, src, n, dst, "")
emitLen(b, s, l, t) == Put(b, "Len", FALSE, 0, s, l, IF t = "string" THEN "string" ELSE "general")
emitCap(b, s, l) == Put(b, "Cap", FALSE, s, 0, l, "")

\* A call has the registers in use before its parameters, where those of the function start.
emitCallFunc(b, f, shift) == Put(b, "CallFunc", FALSE, 0, 0, 0, [func |-> f, shift |-> shift])

\* The jump of a condition, to the address of its label.
emitGoto(b, addr) == Put(b, "Goto", FALSE, 0, 0, 0, addr)
currentAddr(b) == Len(b.body) + 1
=============================================================================
