----------------------------- MODULE Disassembler -----------------------------
(***************************************************************************)
(* The disassembler of src/internal/compiler/disassembler.go, as the       *)
(* registers that the text of an instruction names: the letter of an       *)
(* operand is the file of its kind, a register in parentheses is the       *)
(* general register that holds a pointer.  An operand printed as a value,  *)
(* as an underscore, or with no known kind, names no register.             *)
(***************************************************************************)
EXTENDS FunctionBuilder

NoKind == "invalid"
registerKindToLabel(t) == kindToType(t)
disassembleOperand(t, r, constant) ==
  CASE constant \/ r = 0 \/ t = NoKind -> {}
    [] ~constant /\ r > 0 /\ t # NoKind -> {<<registerKindToLabel(t), r>>}
    [] ~constant /\ r < 0 /\ t # NoKind -> {<<"general", -r>>}
Operand_(t, r) == disassembleOperand(t, r, FALSE)
Operands(ts, rs) == UNION {Operand_(ts[i], rs[i]) : i \in DOMAIN ts}
KindOfFile == [int |-> "int", float |-> "float64", string |-> "string", general |-> "any"]

\* The operands of a condition are those of the instruction, but for the key, the substring and the length.
disassembleIf(in) ==
  LET a(t) == Operand_(t, in.a)
      c(t) == disassembleOperand(t, in.c, in.k)
  IN  CASE in.op = "If" /\ in.x \in {"ok", "not ok"} -> {}
        [] in.op = "If" /\ in.x \in {"==", "!=", "interface ==", "interface !=", "contains element", "not contains element"} ->
             a("any") \cup c("any")
        [] in.op = "If" /\ in.x \in {"contains nil", "not contains nil", "nil", "not nil", "interface nil", "interface not nil"} -> a("any")
        [] in.op = "IfInt" /\ in.x \in {"zero", "not zero"} -> a("int")
        [] in.op = "IfInt" /\ in.x \in {"contains rune", "not contains rune"} -> a("string") \cup c("int")
        [] in.op = "IfInt" /\ in.x \in {"contains element", "not contains element"} -> a("any") \cup c("int")
        [] in.op = "IfFloat" -> a("float64") \cup c("float64")
        [] in.op = "IfString" /\ in.x \in DOMAIN LenConditions \ {"len =="} -> a("string") \cup c("int")
        [] in.op = "IfString" /\ in.x \in {"==", "!=", "<", "<=", ">", ">=", "len ==", "contains substring"} -> a("string") \cup c("string")
        [] in.op = "IfString" /\ in.x \in {"not contains substring", "contains key", "not contains key"} ->
             a("any") \cup disassembleOperand("string", in.a, in.k)
        [] OTHER -> a("int") \cup c("int")

\* The registers of the parameters, out and then in, after those that the caller uses.
disassembleFunctionCall(f, shift) ==
  LET types == f.out \o f.in
      file(i) == kindToType(types[i])
  IN  {<<file(i), shift[file(i)] + Cardinality({j \in 1..i : file(j) = file(i)})>> : i \in DOMAIN types}

\* Mutant: the key of a map is taken for a general register.
disassembleMapWithGeneralKey(in) ==
  CASE in.op = "MapIndex" -> Operands(<<"any", in.x>>, <<in.a, in.c>>) \cup disassembleOperand("any", in.b, in.k)
    [] in.op = "SetMap" -> Operands(<<"any", "any">>, <<in.b, in.c>>) \cup disassembleOperand("int", in.a, in.k)
    [] in.op = "Delete" -> Operands(<<"any", "any">>, <<in.a, in.b>>)

\* The key of Delete is printed as a general register, whatever its kind.
disassembleMap(in) ==
  CASE in.op = "MapIndex" -> Operands(<<"any", in.x>>, <<in.a, in.c>>) \cup disassembleOperand("string", in.b, in.k)
    [] in.op = "SetMap" -> Operands(<<"any", "string">>, <<in.b, in.c>>) \cup disassembleOperand("int", in.a, in.k)
    [] in.op = "Delete" -> Operands(<<"any", "any">>, <<in.a, in.b>>)

disassembleArithmetic(in) ==
  LET three(t) == Operands(<<t, t>>, <<in.a, in.c>>) \cup disassembleOperand(t, in.b, in.k)
  IN  CASE in.op \in {"Add", "Sub", "Mul", "Div", "Rem", "Shl", "Shr"} -> Operand_(in.x, in.c) \cup disassembleOperand(in.x, in.b, in.k)
        [] in.op \in {"AddInt", "SubInt", "MulInt", "DivInt", "RemInt", "ShlInt", "ShrInt", "And", "AndNot", "Or", "Xor"} -> three("int")
        [] in.op \in {"AddFloat64", "SubFloat64", "MulFloat64", "DivFloat64"} -> three("float64")
        [] in.op = "Neg" -> Operands(<<in.x, in.x>>, <<in.b, in.c>>)
        [] in.op \in {"ConvertInt", "ConvertUint"} -> Operands(<<"int", in.x>>, <<in.a, in.c>>)
        [] in.op = "ConvertFloat" -> Operands(<<"float64", in.x>>, <<in.a, in.c>>)

\* The kinds in x are the ones that addOperandKinds has added: first the instructions from Addr to Copy.
disassembleAddrToCopy(in) ==
  CASE in.op = "Addr" -> Operands(<<"any", "int", "any">>, <<in.a, in.b, in.c>>)
    [] in.op = "Append" -> UNION {Operand_(in.x, r) : r \in in.a..in.b - 1} \cup Operand_("any", in.c)
    [] in.op = "AppendSlice" -> Operands(<<"any", "any">>, <<in.a, in.c>>)
    [] in.op = "Assert" -> Operands(<<"any", in.x>>, <<in.a, in.c>>)
    [] in.op = "Cap" -> Operands(<<"any", "int">>, <<in.a, in.c>>)
    [] in.op = "Concat" -> Operands(<<"string", "string">>, <<in.a, in.c>>) \cup disassembleOperand("string", in.b, in.k)
    [] in.op = "Copy" -> Operands(<<"any", "int", "any">>, <<in.a, in.b, in.c>>)

disassembleFieldToLoad(in) ==
  CASE in.op = "Field" -> Operands(<<"any", in.x>>, <<in.a, in.c>>)
    [] in.op = "GetVar" -> Operand_(in.x.kind, in.c)
    [] in.op = "GetVarAddr" -> Operand_("any", in.c)
    [] in.op = "IndexRef" -> Operands(<<"any", in.x>>, <<in.a, in.c>>) \cup disassembleOperand("int", in.b, in.k)
    [] in.op = "IndexString" -> Operands(<<"string", "int">>, <<in.a, in.c>>) \cup disassembleOperand("int", in.b, in.k)
    [] in.op = "Len" -> Operands(<<IF in.x = "string" THEN "string" ELSE "any", "int">>, <<in.b, in.c>>)
    [] in.op = "Load" -> Operand_(KindOfFile[in.x], in.c)

disassembleMakeToZero(in) ==
  LET next(t, low, high) == disassembleOperand(t, low, in.k[1]) \cup disassembleOperand(t, high, in.k[2])
      value(t) == disassembleOperand(t, in.a, in.k)
      k(t) == disassembleOperand(t, in.b, in.k)
  IN  CASE in.op \in {"MakeStruct", "New"} -> Operand_("any", in.c)
        [] in.op = "MakeMap" -> Operand_("any", in.c) \cup k("int")
        [] in.op = "MakeSlice" -> Operand_("any", in.c) \cup next("int", in.a, in.b)
        [] in.op = "Move" -> Operand_(KindOfFile[in.x], in.c) \cup k(KindOfFile[in.x])
        [] in.op = "Panic" -> Operand_("any", in.a)
        [] in.op = "SetField" -> value(in.x) \cup Operand_("any", in.b)
        [] in.op = "SetSlice" -> value(in.x) \cup Operands(<<"any", "int">>, <<in.b, in.c>>)
        [] in.op = "SetVar" -> value(in.x.kind)
        [] in.op = "Slice" -> Operands(<<"any", "any">>, <<in.a, in.c>>) \cup next("int", in.x.low, in.x.high)
        [] in.op = "StringSlice" -> Operands(<<"string", "string">>, <<in.a, in.c>>) \cup next("int", in.x.low, in.x.high)
        [] in.op = "Typify" -> Operand_("any", in.c) \cup k(in.x)
        [] in.op = "Zero" -> Operands(<<KindOfFile[in.x.file], "bool">>, <<in.b, in.c>>)

disassembleInstruction(in) ==
  CASE in.op = "Goto" -> {}
    [] in.op = "CallFunc" -> disassembleFunctionCall(in.x.func, in.x.shift)
    [] in.op \in {"If", "IfInt", "IfFloat", "IfString"} -> disassembleIf(in)
    [] in.op \in {"MapIndex", "SetMap", "Delete"} -> disassembleMap(in)
    [] in.op \in NumberOps -> disassembleArithmetic(in)
    [] in.op \in {"Addr", "Append", "AppendSlice", "Assert", "Cap", "Concat", "Copy"} -> disassembleAddrToCopy(in)
    [] in.op \in {"Field", "GetVar", "GetVarAddr", "IndexRef", "IndexString", "Len", "Load"} -> disassembleFieldToLoad(in)
    [] OTHER -> disassembleMakeToZero(in)
=============================================================================
