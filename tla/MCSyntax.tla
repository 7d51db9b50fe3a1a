------------------------------- MODULE MCSyntax -------------------------------
(***************************************************************************)
(* The texts and the trees for TLC.  The trees have one form in another:   *)
(* every operand of a form is a, or a form of a, with and without          *)
(* parentheses.  Those that break a rule of the grammar are left out.      *)
(***************************************************************************)
EXTENDS Syntax, SyntaxParser

MCParse(st, s) ==
  CASE st = "expression" -> parseExpr(s, 1, Expression_)
    [] st = "type" -> parseExpr(s, 1, Type_)
    [] st = "statement" -> parseSimpleStatement(s, 1, Expression_)
    [] st = "switch" -> parseSwitch(s, 1)
    [] st = "const" -> parseConstGroup(Append(s, ")"), 1, <<>>)

P0 == <<0, 0>>
a == NewIdentifier(P0, "a")
b == NewIdentifier(P0, "b")
one == NewBasicLiteral(P0, "1")
Paren(n) == SetParenthesis(n, 1)
Parens(S) == S \cup {Paren(n) : n \in S}
Guard == NewTypeAssertion(P0, a, Nil)
Assign(lhs, op, rhs) == NewAssignment(P0, lhs, op, rhs)

BinaryOps == {"*", "&^", "-", "|", "<", "contains", "not contains", "&&", "or"}
UnaryOps == {"-", "not", "*", "&", "<-"}
Binaries(X, Y, ops) == {NewBinaryOperator(P0, op, x, y) : op \in ops, x \in X, y \in Y}

Variadic(x, t) == NewFuncType(P0, FALSE, <<NewParameter(x, t)>>, <<>>, TRUE)
TypesOf(t) ==
  {NewArrayType(P0, one, t), NewArrayType(P0, Nil, t), NewSliceType(P0, t), NewMapType(P0, a, t), NewMapType(P0, t, a), NewUnaryOperator(P0, "*", t)}
    \cup {NewChanType(P0, d, t) : d \in {"", "send", "receive"}}
    \cup {NewFuncType(P0, FALSE, ps, rs, FALSE) :
            ps \in {<<>>, <<NewParameter(Nil, t)>>, <<NewParameter(a, t)>>, <<NewParameter(a, Nil), NewParameter(b, t)>>, <<NewParameter(Nil, t), NewParameter(Nil, a)>>},
            rs \in {<<>>, <<NewParameter(Nil, t)>>, <<NewParameter(b, t)>>, <<NewParameter(Nil, a), NewParameter(Nil, t)>>}}
    \cup {Variadic(Nil, t), Variadic(a, t), NewFuncType(P0, FALSE, <<NewParameter(Nil, t), NewParameter(Nil, t)>>, <<NewParameter(Nil, t)>>, TRUE)}
    \cup {NewStructType(P0, fs) : fs \in {<<>>, <<NewField(<<a>>, t, "")>>, <<NewField(<<a, b>>, t, "'s'"), NewField(<<>>, t, "")>>, <<NewField(<<>>, t, "'s'")>>}}
SimpleTypes == {a, NewInterface(P0)}
Types1 == UNION {TypesOf(t) : t \in SimpleTypes}
\* In a text a channel of receive-only channels has parentheses, and a result without name has none.
Written(n) == \A m \in G!Nodes(n) :
  /\ G!Rule(m)
  /\ m.kind = "ChanType" /\ m.val = "" => ~(m.kids.ElementType[1].kind = "ChanType" /\ m.kids.ElementType[1].val = "receive" /\ m.kids.ElementType[1].paren = 0)
  /\ m.kind = "FuncType" /\ Len(m.kids.Result) = 1 /\ m.kids.Result[1].kids.Ident = <<>> => m.kids.Result[1].kids.Type[1].paren = 0
TypeTrees == {n \in SimpleTypes \cup Types1 \cup UNION {TypesOf(t) : t \in Parens(Types1)} : Written(n)}

Pair(x) == {KeyValue(x, one), KeyValue(Nil, x), KeyValue(a, x)}
Elided_(kvs) == NewCompositeLiteral(P0, Nil, kvs)
LiteralTypes_ == {a, NewSliceType(P0, a), NewArrayType(P0, Nil, a), NewMapType(P0, a, b), NewStructType(P0, <<NewField(<<a>>, b, "")>>)}
Literals_(x) == {NewCompositeLiteral(P0, t, <<kv>>) : t \in LiteralTypes_, kv \in Pair(x)}
                \cup {NewCompositeLiteral(P0, a, kvs) : kvs \in {<<>>, <<KeyValue(Nil, Elided_(<<KeyValue(Nil, x)>>)), KeyValue(x, Elided_(<<>>))>>, <<KeyValue(x, a), KeyValue(a, x)>>}}
Operands(x) ==
  {NewUnaryOperator(P0, op, x) : op \in UnaryOps}
    \cup {NewCall(P0, x, <<>>, FALSE), NewCall(P0, x, <<a, one>>, TRUE), NewCall(P0, a, <<x>>, FALSE), NewCall(P0, a, <<x, x>>, TRUE)}
    \cup {NewIndex(P0, x, a), NewIndex(P0, a, x), NewSelector(P0, x, "b"), NewTypeAssertion(P0, x, b), NewTypeAssertion(P0, a, NewSliceType(P0, b))}
    \cup {NewSlicing(P0, x, l, h, Nil, FALSE) : l \in {Nil, x}, h \in {Nil, x}} \cup {NewSlicing(P0, a, l, one, x, TRUE) : l \in {Nil, x}}
    \cup {NewDefault(P0, x, a), NewDefault(P0, a, x), NewCall(P0, NewSliceType(P0, a), <<x>>, FALSE), NewRender(P0, "'s'")}
    \cup {NewFunc(P0, Nil, NewFuncType(P0, FALSE, <<NewParameter(a, b)>>, <<>>, FALSE), NewBlock(P0, body), FALSE) : body \in {<<>>, <<NewReturn(P0, <<>>)>>}}
Forms1 == Operands(a) \cup Literals_(a) \cup Binaries({a}, {one}, BinaryOps)
Forms2 == UNION {Operands(x) \cup Binaries({x}, {a}, BinaryOps) \cup Binaries({a}, {x}, BinaryOps) : x \in Parens(Forms1)}
          \cup UNION {Literals_(x) : x \in Operands(a)} \cup {NewCall(P0, Paren(t), <<a>>, FALSE) : t \in Types1}
          \cup Binaries(Binaries({a}, {one}, {"*", "|", "&&"}), Binaries({one}, {b}, {"*", "-", "or"}), {"&^", "-", "<", "&&"})
ExpressionTrees == {n \in {a, one} \cup Forms1 \cup Forms2 : Written(n)}

Simple == {a, NewIndex(P0, a, b), NewUnaryOperator(P0, "*", a), NewBinaryOperator(P0, "-", a, one)}
StatementTrees ==
  Simple \cup {Assign(<<x>>, op, <<y>>) : x \in Simple, y \in Simple, op \in AssignmentTokens \ IncDec}
    \cup {Assign(<<x>>, op, <<>>) : x \in Simple, op \in IncDec}
    \cup {Assign(xs, op, ys) : xs \in {<<a, b>>, <<NewSelector(P0, a, "b"), a, b>>}, ys \in {<<a>>, <<one, b>>}, op \in {"=", ":="}}
    \cup {NewSend(P0, x, y) : x \in Simple, y \in Simple}

Inits == {a, one, NewCall(P0, a, <<>>, FALSE), Assign(<<a>>, ":=", <<one>>), Assign(<<a, b>>, "=", <<one, b>>), Assign(<<a>>, "++", <<>>), Assign(<<a>>, "+=", <<one>>)}
Tags == {a, NewBinaryOperator(P0, "==", a, one), NewCall(P0, a, <<one>>, FALSE), Paren(NewCompositeLiteral(P0, a, <<>>)), NewCompositeLiteral(P0, NewSliceType(P0, a), <<>>),
         NewIndex(P0, a, NewCall(P0, a, <<>>, FALSE))}
Blank(g) == NewAssignment(g.pos, <<NewIdentifier(g.pos, "_")>>, "=", <<g>>)
SwitchTrees ==
  {NewSwitch(P0, i, e, Nil, <<>>) : i \in {Nil} \cup Inits, e \in Tags} \cup {NewSwitch(P0, Nil, Nil, Nil, <<>>)}
    \cup {NewTypeSwitch(P0, i, Assign(<<b>>, op, <<g>>), Nil, <<>>) :
            i \in {Nil} \cup Inits, op \in {":=", "="}, g \in {Guard, NewTypeAssertion(P0, NewCall(P0, a, <<>>, FALSE), Nil)}}
    \cup {NewTypeSwitch(P0, i, Blank(Guard), Nil, <<>>) : i \in {Nil} \cup Inits}

c == NewIdentifier(P0, "_")
Lists == {<<one>>, <<NewUnaryOperator(P0, "-", a)>>, <<NewFunc(P0, Nil, NewFuncType(P0, FALSE, <<>>, <<>>, FALSE), NewBlock(P0, <<>>), FALSE)>>}
Spec_(names, t, values) == NewConst(<<1, 1>>, names, t, values, 0)
Specs == {Spec_(<<a>>, Nil, <<>>), Spec_(<<b, c>>, Nil, <<>>), Spec_(<<a, b>>, a, <<one, a>>), Spec_(<<a>>, NewStructType(P0, <<>>), <<one>>),
          Spec_(<<a>>, NewSliceType(P0, b), <<one>>)} \cup {Spec_(<<b>>, Nil, values) : values \in Lists}
Numbered(specs) == Node("list", P0, "", [Specs |-> [k \in DOMAIN specs |-> [specs[k] EXCEPT !.val = ToString(k - 1)]]])
ConstTrees == {Numbered(s) : s \in UNION {[1..k -> Specs] : k \in 1..3}}

MCTrees == [expression |-> ExpressionTrees, type |-> TypeTrees, statement |-> StatementTrees, switch |-> SwitchTrees, const |-> ConstTrees]

Text(st, prefix, alphabet, max) == [start |-> st, prefix |-> prefix, alphabet |-> alphabet, max |-> max]
MCTexts == <<
  Text("expression", <<>>, {"a", "-", "*", "<", "&&", "(", ")", "default"}, 7),
  Text("expression", <<"a">>, {"a", "(", ")", "[", "]", ":", ".", ",", "...", "type"}, 7),
  Text("expression", <<"a", "{">>, {"a", ":", ",", "{", "}", "-", "["}, 8),
  Text("expression", <<"a", "default">>, {"a", "not", "contains", "-", "(", ")"}, 8),
  Text("expression", <<"a", "{", "a", ":">>, {"a", "not", "contains", ",", "}"}, 10),
  Text("type", <<>>, {"a", "[", "]", "map", "*", "chan", "<-", "(", ")", "."}, 6),
  Text("type", <<"func", "(">>, {"a", "b", ",", "...", ")", "(", "*"}, 8),
  Text("type", <<"struct", "{">>, {"a", "b", ",", ";", "*", ".", "'s'", "}"}, 7),
  Text("statement", <<"a">>, {"a", "1", ",", "=", "++", "<-", "+=", "-"}, 6),
  Text("switch", <<"a">>, {"a", ";", ":=", "++", ".", "(", "type", ")", "{"}, 8),
  Text("switch", <<"a", ":=", "b", ";">>, {"a", ":=", "++", ".", "(", "type", ")", "{"}, 10)>>

----------------------------------------------------------------------------
(* Statements, with and without what they may have *)

Id(k) == NewIdentifier(<<k, k>>, "a")
P(k) == <<k, k + 9>>
Body_ == <<NewText(P(7), "t"), NewShow(P(8), <<Id(8), one>>)>>
Call_ == NewCall(P(2), Id(2), <<Id(3)>>, FALSE)
Block_ == NewBlock(P(5), Body_)
\* A block of a template.
Section_ == NewBlock(NilPos, Body_)
Blocks_ == {Block_, Section_}
Init_ == NewSend(P(1), Id(1), Id(2))
Range_ == NewAssignment(P(3), <<Id(3), Id(4)>>, ":=", <<Id(5)>>)
FuncType_ == NewFuncType(P(2), FALSE, <<NewParameter(Id(2), Id(3))>>, <<NewParameter(Nil, Id(4))>>, FALSE)
Var_ == NewVar(P(2), <<Id(2), Id(3)>>, Id(4), <<Id(5), Id(6)>>)
Optional(n) == {Nil, n}
Cases_ == {<<>>, <<NewCase(P(4), <<Id(4), Id(5)>>, Body_), NewCase(P(6), <<>>, <<NewFallthrough(P(7))>>)>>}
Clauses ==
  {NewBreak(P(1), l) : l \in Optional(Id(2))} \cup {NewContinue(P(1), l) : l \in Optional(Id(2))}
    \cup {NewComment(P(1), "c"), NewExtends(P(1), "p"), NewFallthrough(P(1)), NewText(P(1), "t"), NewRender(P(1), "p"), NewGoto(P(1), Id(2)), Block_}
    \cup {NewDefer(P(1), Call_), NewGo(P(1), Call_), NewReturn(P(1), <<Id(2)>>), NewReturn(P(1), <<>>), NewShow(P(1), <<Call_, one>>), Init_, Range_}
    \cup {NewURL(P(1), "a", Body_), NewStatements(P(1), Body_), NewStatements(P(1), <<>>), Var_, NewVar(P(1), <<Id(2)>>, Nil, <<>>), NewConst(P(1), <<Id(2)>>, Nil, <<one>>, 1)}
    \cup {NewTypeDeclaration(P(1), Id(2), Id(3), alias) : alias \in BOOLEAN} \cup {NewLabel(P(1), Id(2), s) : s \in Optional(NewGoto(P(3), Id(4)))}
    \cup {NewRaw(P(1), "m", t) : t \in Optional(NewText(P(2), "t"))} \cup {NewImport(P(1), i, "p", f) : i \in Optional(Id(2)), f \in {<<>>, <<Id(3)>>}}
    \cup {NewImport(NilPos, i, "p", <<>>) : i \in Optional(NewIdentifier(NilPos, "."))}
    \cup {NewFunc(P(1), i, FuncType_, body, d) : i \in Optional(Id(2)), body \in Optional(Block_), d \in BOOLEAN}
Compounds ==
  {NewFor(P(1), i, e, p, Body_) : i \in Optional(Init_), e \in Optional(Id(4)), p \in Optional(Init_)}
    \cup {NewForIn(P(1), Id(2), Id(3), Body_, els) : els \in {Nil} \cup Blocks_} \cup {NewForRange(P(1), Assign(<<>>, ":=", <<Id(2)>>), Body_, Nil)}
    \cup {NewForRange(P(1), NewAssignment(P(1), <<Id(2)>>, "=", <<>>), Body_, els) : els \in {Nil} \cup Blocks_}
    \cup {NewIf(P(1), i, Id(3), t, els) : i \in Optional(Init_), t \in {Nil} \cup Blocks_, els \in {Nil, NewIf(P(9), Nil, Id(9), Block_, Nil)} \cup Blocks_}
    \cup {NewSwitch(P(1), i, e, t, cs) : i \in Optional(Init_), e \in Optional(Id(3)), t \in Optional(NewText(P(4), "t")), cs \in Cases_}
    \cup {NewTypeSwitch(P(1), i, NewSend(P(2), Id(2), Guard), t, cs) : i \in Optional(Init_), t \in Optional(NewText(P(4), "t")), cs \in Cases_}
    \cup {NewSelect(P(1), t, cs) : t \in Optional(NewText(P(2), "t")), cs \in {<<>>, <<NewSelectCase(P(3), Init_, Body_), NewSelectCase(P(4), Nil, <<>>)>>}}
    \cup {NewUsing(P(1), Var_, t, body) : t \in Optional(Id(3)), body \in {Nil} \cup Blocks_} \cup {NewPlaceholder}
MCStatements ==
  LET inner == Clauses \cup Compounds IN
  inner \cup {NewTree(<<s, NewText(P(30), "t")>>) : s \in inner} \cup {NewPackage(P(1), "p", <<NewComment(P(2), "c"), s>>) : s \in inner}
    \cup {NewFor(P(1), Nil, Nil, Nil, <<NewLabel(P(2), Id(2), s)>>) : s \in inner} \cup {NewUsing(P(1), Var_, Nil, NewBlock(P(2), <<s, s>>)) : s \in inner}
=============================================================================
