------------------------------ MODULE SyntaxTree ------------------------------
(***************************************************************************)
(* The nodes of the syntax trees, src/ast/ast.go.  A node has a kind, a    *)
(* value (a name, an operator, a flag), the number of its parentheses, the *)
(* tokens it goes from and to (or no position, a nil pointer), and the     *)
(* nodes of each of its fields: none for a field that is nil.  A text is   *)
(* the sequence of its tokens.                                             *)
(***************************************************************************)
EXTENDS Integers, Sequences, SequencesExt

Node(kind, pos, val, kids) == [kind |-> kind, pos |-> pos, val |-> val, paren |-> 0, kids |-> kids]
\* The position of a node that has none, as the blocks of the statements of a template.
NilPos == <<>>
Nil == Node("nil", <<0, 0>>, "", <<>>)
Opt(n) == IF n.kind = "nil" THEN <<>> ELSE <<n>>
Start(n) == n.pos[1]
End(n) == n.pos[2]
SetParenthesis(n, k) == [n EXCEPT !.paren = k]
Flag(b) == IF b THEN "true" ELSE "false"

(* Expressions and types *)
NewArrayType(pos, len, element) == Node("ArrayType", pos, "", [Len |-> Opt(len), ElementType |-> Opt(element)])
NewBasicLiteral(pos, value) == Node("BasicLiteral", pos, value, <<>>)
NewBinaryOperator(pos, op, expr1, expr2) == Node("BinaryOperator", pos, op, [Expr1 |-> Opt(expr1), Expr2 |-> Opt(expr2)])
NewCall(pos, fun, args, isVariadic) == Node("Call", pos, Flag(isVariadic), [Func |-> Opt(fun), Args |-> args])
NewChanType(pos, direction, element) == Node("ChanType", pos, direction, [ElementType |-> Opt(element)])
KeyValue(key, value) == Node("KeyValue", <<0, 0>>, "", [Key |-> Opt(key), Value |-> <<value>>])
NewCompositeLiteral(pos, typ, keyValues) == Node("CompositeLiteral", pos, "", [Type |-> Opt(typ), KeyValues |-> keyValues])
NewDefault(pos, expr1, expr2) == Node("Default", pos, "", [Expr1 |-> Opt(expr1), Expr2 |-> Opt(expr2)])
NewField(idents, typ, tag) == Node("Field", <<0, 0>>, tag, [Idents |-> idents, Type |-> <<typ>>])
NewFunc(pos, ident, typ, body, distFree) ==
  Node("Func", pos, Flag(distFree), [Ident |-> Opt(ident), Type |-> <<typ>>, Body |-> Opt(body)])
NewFuncType(pos, macro, parameters, result, isVariadic) ==
  Node("FuncType", pos, IF macro THEN "macro" ELSE Flag(isVariadic), [Parameters |-> parameters, Result |-> result])
NewIdentifier(pos, name) == Node("Identifier", pos, name, <<>>)
NewIndex(pos, expr, index) == Node("Index", pos, "", [Expr |-> Opt(expr), Index |-> Opt(index)])
NewInterface(pos) == Node("Interface", pos, "", <<>>)
NewMapType(pos, key, value) == Node("MapType", pos, "", [KeyType |-> Opt(key), ValueType |-> Opt(value)])
NewParameter(ident, typ) == Node("Parameter", <<0, 0>>, "", [Ident |-> Opt(ident), Type |-> Opt(typ)])
NewPlaceholder == Node("Placeholder", <<0, 0>>, "", <<>>)
NewRender(pos, path) == Node("Render", pos, path, <<>>)
NewSelector(pos, expr, ident) == Node("Selector", pos, ident, [Expr |-> Opt(expr)])
NewSliceType(pos, element) == Node("SliceType", pos, "", [ElementType |-> Opt(element)])
NewSlicing(pos, expr, low, high, max, isFull) ==
  Node("Slicing", pos, Flag(isFull), [Expr |-> Opt(expr), Low |-> Opt(low), High |-> Opt(high), Max |-> Opt(max)])
NewStructType(pos, fields) == Node("StructType", pos, "", [Fields |-> fields])
NewTypeAssertion(pos, expr, typ) == Node("TypeAssertion", pos, "", [Expr |-> Opt(expr), Type |-> Opt(typ)])
NewUnaryOperator(pos, op, expr) == Node("UnaryOperator", pos, op, [Expr |-> Opt(expr)])

(* Statements and declarations *)
NewAssignment(pos, lhs, typ, rhs) == Node("Assignment", pos, typ, [Lhs |-> lhs, Rhs |-> rhs])
NewBlock(pos, nodes) == Node("Block", pos, "", [Nodes |-> nodes])
NewBreak(pos, label) == Node("Break", pos, "", [Label |-> Opt(label)])
NewCase(pos, expressions, body) == Node("Case", pos, "", [Expressions |-> expressions, Body |-> body])
NewComment(pos, text) == Node("Comment", pos, text, <<>>)
NewConst(pos, lhs, typ, rhs, index) == Node("Const", pos, ToString(index), [Lhs |-> lhs, Type |-> Opt(typ), Rhs |-> rhs])
NewContinue(pos, label) == Node("Continue", pos, "", [Label |-> Opt(label)])
NewDefer(pos, call) == Node("Defer", pos, "", [Call |-> <<call>>])
NewExtends(pos, path) == Node("Extends", pos, path, <<>>)
NewFallthrough(pos) == Node("Fallthrough", pos, "", <<>>)
NewFor(pos, init, condition, post, body) ==
  Node("For", pos, "", [Init |-> Opt(init), Condition |-> Opt(condition), Post |-> Opt(post), Body |-> body])
NewForIn(pos, ident, expr, body, els) ==
  Node("ForIn", pos, "", [Ident |-> <<ident>>, Expr |-> <<expr>>, Body |-> body, Else |-> Opt(els)])
NewForRange(pos, assignment, body, els) ==
  Node("ForRange", pos, "", [Assignment |-> <<assignment>>, Body |-> body, Else |-> Opt(els)])
NewGo(pos, call) == Node("Go", pos, "", [Call |-> <<call>>])
NewGoto(pos, label) == Node("Goto", pos, "", [Label |-> <<label>>])
NewIf(pos, init, cond, then, els) ==
  Node("If", pos, "", [Init |-> Opt(init), Condition |-> <<cond>>, Then |-> <<IF then = Nil THEN NewBlock(NilPos, <<>>) ELSE then>>,
                       Else |-> Opt(els)])
NewImport(pos, ident, path, forIdents) == Node("Import", pos, path, [Ident |-> Opt(ident), For |-> forIdents])
NewLabel(pos, ident, statement) == Node("Label", pos, "", [Ident |-> <<ident>>, Statement |-> Opt(statement)])
NewPackage(pos, name, nodes) == Node("Package", pos, name, [Declarations |-> nodes])
NewRaw(pos, marker, text) == Node("Raw", pos, marker, [Text |-> Opt(text)])
NewReturn(pos, values) == Node("Return", pos, "", [Values |-> values])
NewSelect(pos, leadingText, cases) == Node("Select", pos, "", [LeadingText |-> Opt(leadingText), Cases |-> cases])
NewSelectCase(pos, comm, body) == Node("SelectCase", pos, "", [Comm |-> Opt(comm), Body |-> body])
NewSend(pos, channel, value) == Node("Send", pos, "", [Channel |-> <<channel>>, Value |-> <<value>>])
NewShow(pos, expressions) == Node("Show", pos, "", [Expressions |-> expressions])
NewStatements(pos, nodes) == Node("Statements", pos, "", [Nodes |-> nodes])
NewSwitch(pos, init, expr, leadingText, cases) ==
  Node("Switch", pos, "", [Init |-> Opt(init), Expr |-> Opt(expr), LeadingText |-> Opt(leadingText), Cases |-> cases])
NewText(pos, text) == Node("Text", pos, text, <<>>)
NewTree(nodes) == Node("Tree", <<1, 0>>, "", [Nodes |-> nodes])
NewTypeDeclaration(pos, ident, typ, isAlias) == Node("TypeDeclaration", pos, Flag(isAlias), [Ident |-> <<ident>>, Type |-> <<typ>>])
NewTypeSwitch(pos, init, assignment, leadingText, cases) ==
  Node("TypeSwitch", pos, "", [Init |-> Opt(init), Assignment |-> Opt(assignment), LeadingText |-> Opt(leadingText), Cases |-> cases])
NewURL(pos, tag, value) == Node("URL", pos, tag, [Value |-> value])
NewUsing(pos, statement, typ, body) == Node("Using", pos, "", [Statement |-> <<statement>>, Type |-> Opt(typ), Body |-> Opt(body)])
NewVar(pos, lhs, typ, rhs) == Node("Var", pos, "", [Lhs |-> lhs, Type |-> Opt(typ), Rhs |-> rhs])

(* Operators *)
Operator(n) == n.kind \in {"BinaryOperator", "UnaryOperator"}
BinaryPrecedence(op) ==
  CASE op \in {"*", "/", "%", "<<", ">>", "&", "&^"} -> 5
    [] op \in {"+", "-", "|", "^"} -> 4
    [] op \in {"==", "!=", "<", "<=", ">", ">=", "contains", "not contains"} -> 3
    [] op \in {"&&", "and"} -> 2
    [] op \in {"||", "or"} -> 1
UnaryPrecedence == 6
Precedence(n) == IF n.kind = "BinaryOperator" THEN BinaryPrecedence(n.val) ELSE UnaryPrecedence

----------------------------------------------------------------------------
(* The methods String, as far as their text can be parsed again. *)

Group(text) == <<"(">> \o text \o <<")">>
Joined(texts, sep) == FoldLeft(LAMBDA acc, t : IF acc = <<>> THEN t ELSE acc \o sep \o t, <<>>, texts)
OperatorText(op) == IF op = "not contains" THEN <<"not", "contains">> ELSE <<op>>

RECURSIVE String(_), OperatorString(_), CallString(_), SlicingString(_), ParameterString(_), FuncTypeString(_), FieldString(_),
          StructTypeString(_), ChanTypeString(_), CompositeLiteralString(_), AssignmentString(_), VarString(_)
\* Mutant: only the operands of a lower precedence have parentheses.
OperatorStringOfLower(n) ==
  LET operand(e) == IF Operator(e) /\ Precedence(e) < Precedence(n) THEN Group(String(e)) ELSE String(e)
  IN  IF n.kind = "BinaryOperator" THEN operand(n.kids.Expr1[1]) \o OperatorText(n.val) \o operand(n.kids.Expr2[1])
      ELSE <<n.val>> \o operand(n.kids.Expr[1])

OperatorString(n) ==
  LET operand(e, always) == IF Operator(e) /\ (always \/ Precedence(e) <= Precedence(n)) THEN Group(String(e)) ELSE String(e)
  IN  IF n.kind = "BinaryOperator"
      THEN operand(n.kids.Expr1[1], FALSE) \o OperatorText(n.val) \o operand(n.kids.Expr2[1], FALSE)
      ELSE <<n.val>> \o operand(n.kids.Expr[1], n.val = "<-")

CallString(n) ==
  LET f == n.kids.Func[1]
      fun == IF \/ f.kind = "UnaryOperator" /\ f.val \in {"*", "<-"}
                \/ f.kind = "FuncType" /\ f.kids.Result = <<>>
                \/ f.kind = "ChanType"
             THEN Group(String(f)) ELSE String(f)
  IN  fun \o <<"(">> \o Joined([i \in DOMAIN n.kids.Args |-> String(n.kids.Args[i])], <<",">>)
        \o (IF n.val = "true" THEN <<"...">> ELSE <<>>) \o <<")">>

SlicingString(n) ==
  LET bound(f) == IF n.kids[f] = <<>> THEN <<>> ELSE String(n.kids[f][1])
  IN  String(n.kids.Expr[1]) \o <<"[">> \o bound("Low") \o <<":">> \o bound("High")
        \o (IF n.kids.Max = <<>> THEN <<>> ELSE <<":">> \o bound("Max")) \o <<"]">>

ParameterString(n) ==
  (IF n.kids.Ident = <<>> THEN <<>> ELSE <<n.kids.Ident[1].val>>) \o (IF n.kids.Type = <<>> THEN <<>> ELSE String(n.kids.Type[1]))
\* Only the type of the first result is there if the results have no name.
FuncTypeString(n) ==
  LET list(params) == Group(Joined([i \in DOMAIN params |-> ParameterString(params[i])], <<",">>))
      result == n.kids.Result
  IN  <<IF n.val = "macro" THEN "macro" ELSE "func">> \o list(n.kids.Parameters)
        \o (CASE result = <<>> -> <<>>
              [] result # <<>> /\ result[1].kids.Ident = <<>> -> String(result[1].kids.Type[1])
              [] OTHER -> list(result))

FieldString(n) ==
  Joined([i \in DOMAIN n.kids.Idents |-> <<n.kids.Idents[i].val>>], <<",">>) \o String(n.kids.Type[1])
    \o (IF n.val = "" THEN <<>> ELSE <<n.val>>)
StructTypeString(n) ==
  <<"struct", "{">> \o Joined([i \in DOMAIN n.kids.Fields |-> FieldString(n.kids.Fields[i])], <<";">>) \o <<"}">>

ChanTypeString(n) ==
  (IF n.val = "receive" THEN <<"<-", "chan">> ELSE IF n.val = "send" THEN <<"chan", "<-">> ELSE <<"chan">>)
    \o String(n.kids.ElementType[1])

CompositeLiteralString(n) == String(n.kids.Type[1]) \o (IF n.kids.KeyValues = <<>> THEN <<"{", "}">> ELSE <<"{...}">>)

\* The operators from &= on are left out.
AssignmentString(n) ==
  LET list(nodes) == Joined([i \in DOMAIN nodes |-> String(nodes[i])], <<",">>)
  IN  list(n.kids.Lhs) \o (IF n.val \in {"=", ":=", "+=", "-=", "*=", "/=", "%=", "++", "--"} THEN <<n.val>> ELSE <<>>) \o list(n.kids.Rhs)

\* The commas are left out.
VarString(n) ==
  <<"var">> \o [i \in DOMAIN n.kids.Lhs |-> n.kids.Lhs[i].val]
    \o (IF n.kids.Type = <<>> THEN <<>> ELSE String(n.kids.Type[1]))
    \o (IF n.kids.Rhs = <<>> THEN <<>> ELSE <<"=">> \o FlattenSeq([i \in DOMAIN n.kids.Rhs |-> String(n.kids.Rhs[i])]))

String(n) ==
  CASE n.kind \in {"Identifier", "BasicLiteral"} -> <<n.val>>
    [] n.kind \in {"BinaryOperator", "UnaryOperator"} -> OperatorString(n)
    [] n.kind = "Call" -> CallString(n)
    [] n.kind = "Index" -> String(n.kids.Expr[1]) \o <<"[">> \o String(n.kids.Index[1]) \o <<"]">>
    [] n.kind = "Slicing" -> SlicingString(n)
    [] n.kind = "Selector" -> String(n.kids.Expr[1]) \o <<".", n.val>>
    [] n.kind = "TypeAssertion" ->
         String(n.kids.Expr[1]) \o <<".", "(">> \o (IF n.kids.Type = <<>> THEN <<"type">> ELSE String(n.kids.Type[1])) \o <<")">>
    [] n.kind = "Default" -> String(n.kids.Expr1[1]) \o <<"default">> \o String(n.kids.Expr2[1])
    [] n.kind = "Render" -> <<"render", n.val>>
    [] n.kind = "ArrayType" ->
         <<"[">> \o (IF n.kids.Len = <<>> THEN <<"...">> ELSE String(n.kids.Len[1])) \o <<"]">> \o String(n.kids.ElementType[1])
    [] n.kind = "SliceType" -> <<"[", "]">> \o String(n.kids.ElementType[1])
    [] n.kind = "MapType" -> <<"map", "[">> \o String(n.kids.KeyType[1]) \o <<"]">> \o String(n.kids.ValueType[1])
    [] n.kind = "ChanType" -> ChanTypeString(n)
    [] n.kind = "FuncType" -> FuncTypeString(n)
    [] n.kind = "StructType" -> StructTypeString(n)
    [] n.kind = "Interface" -> <<"interface", "{", "}">>
    [] n.kind = "CompositeLiteral" -> CompositeLiteralString(n)
    [] n.kind = "Assignment" -> AssignmentString(n)
    [] n.kind = "Send" -> String(n.kids.Channel[1]) \o <<"<-">> \o String(n.kids.Value[1])
    [] n.kind = "Var" -> VarString(n)
    [] n.kind = "Show" -> <<"show">> \o Joined([i \in DOMAIN n.kids.Expressions |-> String(n.kids.Expressions[i])], <<",">>)
    [] n.kind = "TypeDeclaration" ->
         <<"type">> \o String(n.kids.Ident[1]) \o (IF n.val = "true" THEN <<"=">> ELSE <<>>) \o String(n.kids.Type[1])
=============================================================================
