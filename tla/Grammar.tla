------------------------------- MODULE Grammar -------------------------------
(***************************************************************************)
(* The grammar of Go, with the extensions of the templates: the text of a  *)
(* tree, the places of its nodes in it, and the rules that make a tree one *)
(* of the grammar.  It is what the parser is compared with; none of it     *)
(* comes from the parser.                                                  *)
(***************************************************************************)
EXTENDS SyntaxTree, FiniteSets

----------------------------------------------------------------------------
(* The text of a tree: tokens and, between them, the nodes of the fields.  *)

Word(t) == [tok |-> t, field |-> "", k |-> 0]
Words(ts) == [i \in DOMAIN ts |-> Word(ts[i])]
The(f) == <<[tok |-> "", field |-> f, k |-> 1]>>
May(n, f) == IF n.kids[f] = <<>> THEN <<>> ELSE The(f)
All(n, f, sep) == Joined([k \in DOMAIN n.kids[f] |-> <<[tok |-> "", field |-> f, k |-> k]>>], <<Word(sep)>>)
If_(b, ts) == IF b THEN Words(ts) ELSE <<>>

\* The text of a function type, that ends where its result does: a result without name may be in parentheses.
FuncLayout(n) ==
  LET result == n.kids.Result
      alone  == Len(result) = 1 /\ result[1].kids.Ident = <<>> /\ End(n) <= End(result[1].kids.Type[1])
  IN  Words(<<"func", "(">>) \o All(n, "Parameters", ",") \o Words(<<")">>)
        \o (CASE result = <<>> -> <<>> [] alone -> The("Result") [] OTHER -> Words(<<"(">>) \o All(n, "Result", ",") \o Words(<<")">>))

\* Whether there is one token between the last element of a literal and its brace.
Trails(n) == n.kids.KeyValues # <<>> /\ End(n) = End(Last(n.kids.KeyValues).kids.Value[1]) + 2

ExpressionLayout(n) ==
  CASE n.kind \in {"Identifier", "BasicLiteral"} -> Words(<<n.val>>)
    [] n.kind = "BinaryOperator" -> The("Expr1") \o Words(OperatorText(n.val)) \o The("Expr2")
    [] n.kind = "UnaryOperator" -> Words(<<n.val>>) \o The("Expr")
    [] n.kind = "Call" -> The("Func") \o Words(<<"(">>) \o All(n, "Args", ",") \o If_(n.val = "true", <<"...">>) \o Words(<<")">>)
    [] n.kind = "Index" -> The("Expr") \o Words(<<"[">>) \o The("Index") \o Words(<<"]">>)
    [] n.kind = "Slicing" -> The("Expr") \o Words(<<"[">>) \o May(n, "Low") \o Words(<<":">>) \o May(n, "High")
                               \o If_(n.val = "true", <<":">>) \o May(n, "Max") \o Words(<<"]">>)
    [] n.kind = "Selector" -> The("Expr") \o Words(<<".", n.val>>)
    [] n.kind = "TypeAssertion" -> The("Expr") \o Words(<<".", "(">>) \o If_(n.kids.Type = <<>>, <<"type">>) \o May(n, "Type") \o Words(<<")">>)
    [] n.kind = "Default" -> The("Expr1") \o Words(<<"default">>) \o The("Expr2")
    [] n.kind = "Render" -> Words(<<"render", n.val>>)
    [] n.kind = "CompositeLiteral" -> May(n, "Type") \o Words(<<"{">>) \o All(n, "KeyValues", ",") \o If_(Trails(n), <<",">>) \o Words(<<"}">>)
    [] n.kind = "KeyValue" -> May(n, "Key") \o If_(n.kids.Key # <<>>, <<":">>) \o The("Value")
    [] n.kind = "Func" -> The("Type") \o The("Body")

TypeLayout(n) ==
  CASE n.kind = "ArrayType" -> Words(<<"[">>) \o If_(n.kids.Len = <<>>, <<"...">>) \o May(n, "Len") \o Words(<<"]">>) \o The("ElementType")
    [] n.kind = "SliceType" -> Words(<<"[", "]">>) \o The("ElementType")
    [] n.kind = "MapType" -> Words(<<"map", "[">>) \o May(n, "KeyType") \o Words(<<"]">>) \o The("ValueType")
    [] n.kind = "ChanType" -> If_(n.val = "receive", <<"<-">>) \o Words(<<"chan">>) \o If_(n.val = "send", <<"<-">>) \o The("ElementType")
    [] n.kind = "FuncType" -> FuncLayout(n)
    [] n.kind = "Parameter" -> May(n, "Ident") \o If_(n.val = "...", <<"...">>) \o May(n, "Type")
    [] n.kind = "StructType" -> Words(<<"struct", "{">>) \o All(n, "Fields", ";") \o Words(<<"}">>)
    [] n.kind = "Field" -> All(n, "Idents", ",") \o The("Type") \o If_(n.val # "", <<n.val>>)
    [] n.kind = "Interface" -> Words(<<"interface", "{", "}">>)

\* The guard of a type switch that declares no variable is assigned to the blank identifier.
Guard(n) == n.kind = "TypeAssertion" /\ n.kids.Type = <<>>
Implied(n) == n.val = "=" /\ n.kids.Lhs # <<>> /\ n.kids.Lhs[1].val = "_" /\ Guard(n.kids.Rhs[1])

StatementLayout(n) ==
  CASE n.kind = "Assignment" -> IF Implied(n) THEN The("Rhs") ELSE All(n, "Lhs", ",") \o Words(<<n.val>>) \o All(n, "Rhs", ",")
    [] n.kind = "Send" -> The("Channel") \o Words(<<"<-">>) \o The("Value")
    [] n.kind = "Const" -> All(n, "Lhs", ",") \o May(n, "Type") \o If_(n.kids.Rhs # <<>>, <<"=">>) \o All(n, "Rhs", ",")
    [] n.kind = "list" -> All(n, "Specs", ";")
    [] n.kind = "Block" -> Words(<<"{">>) \o All(n, "Nodes", ";") \o Words(<<"}">>)
    [] n.kind = "Return" -> Words(<<"return">>)
    [] n.kind = "Switch" -> May(n, "Init") \o If_(n.kids.Init # <<>>, <<";">>) \o May(n, "Expr") \o Words(<<"{">>)
    [] n.kind = "TypeSwitch" -> May(n, "Init") \o If_(n.kids.Init # <<>>, <<";">>) \o The("Assignment") \o Words(<<"{">>)

TypeKinds == {"ArrayType", "SliceType", "MapType", "ChanType", "FuncType", "Parameter", "StructType", "Field", "Interface"}
StatementKinds == {"Assignment", "Send", "Const", "list", "Block", "Return", "Switch", "TypeSwitch"}
Layout(n) == CASE n.kind \in TypeKinds -> TypeLayout(n) [] n.kind \in StatementKinds -> StatementLayout(n) [] OTHER -> ExpressionLayout(n)

Times(t, k) == [i \in 1..k |-> t]
\* The last parameter of a variadic function has the ellipsis.
Dotted(n, f, k) == n.kind = "FuncType" /\ n.val = "true" /\ f = "Parameters" /\ k = Len(n.kids[f])
Kid(n, item) == IF Dotted(n, item.field, item.k) THEN [n.kids[item.field][item.k] EXCEPT !.val = "..."] ELSE n.kids[item.field][item.k]

RECURSIVE Yield(_)
ItemText(n, item) == IF item.tok # "" THEN <<item.tok>> ELSE Yield(Kid(n, item))
Yield(n) ==
  LET items == Layout(n)
  IN  Times("(", n.paren) \o FlattenSeq([i \in DOMAIN items |-> ItemText(n, items[i])]) \o Times(")", n.paren)

(* The places of the nodes.  Before a binary operator, a unary operator    *)
(* starts where its operand does, and so does the binary one.              *)
RECURSIVE Displaced(_, _)
Displaced(n, followed) ==
  CASE n.paren = 0 /\ n.kind = "UnaryOperator" /\ followed -> 1 + Displaced(n.kids.Expr[1], TRUE)
    [] n.paren = 0 /\ n.kind = "BinaryOperator" -> Displaced(n.kids.Expr1[1], TRUE)
    [] OTHER -> 0
Followed(n, f, followed) == n.kind \in {"UnaryOperator", "BinaryOperator"} /\ (f = "Expr1" \/ (followed /\ n.paren = 0))

RECURSIVE PlacedIn(_, _, _)
PlacedIn(n, lo, followed) ==
  LET items   == Layout(n)
      widths  == [i \in DOMAIN items |-> Len(ItemText(n, items[i]))]
      before(i) == FoldLeft(LAMBDA w, j : w + widths[j], lo + n.paren, [j \in 1..i - 1 |-> j])
      whole   == <<lo + Displaced(n, followed), before(Len(items) + 1) - 1 + n.paren>>
      of(f, k) == {i \in DOMAIN items : items[i].field = f /\ items[i].k = k}
      kid(f, k) == IF of(f, k) = {} THEN [n.kids[f][k] EXCEPT !.pos = whole]
                   ELSE PlacedIn(Kid(n, [field |-> f, k |-> k]), before(CHOOSE i \in of(f, k) : TRUE), Followed(n, f, followed))
      plain(m) == IF m.kind = "Parameter" THEN [m EXCEPT !.val = ""] ELSE m
  IN  [n EXCEPT !.kids = IF @ = <<>> THEN <<>> ELSE [f \in DOMAIN @ |-> [k \in DOMAIN @[f] |-> plain(kid(f, k))]],
                !.pos = CASE n.kind \in {"KeyValue", "Parameter", "Field", "list"} -> <<0, 0>>
                          [] n.kind = "Const" -> <<1, 1>>
                          [] OTHER -> whole]
Placed(n, lo) == PlacedIn(n, lo, FALSE)

----------------------------------------------------------------------------
(* The rules of the grammar *)

RECURSIVE Nodes(_)
Nodes(n) == {n} \cup UNION {UNION {Nodes(n.kids[f][k]) : k \in DOMAIN n.kids[f]} : f \in DOMAIN n.kids}

\* From 1 to 5 the binary operators, 6 the unary ones, 7 what an operand can be without parentheses.
Level(n) ==
  CASE n.paren > 0 -> 7
    [] n.paren = 0 /\ n.kind = "BinaryOperator" -> BinaryPrecedence(n.val)
    [] n.paren = 0 /\ n.kind = "UnaryOperator" -> 6
    [] n.paren = 0 /\ n.kind = "Default" -> 6
    [] OTHER -> 7

\* The default expression goes on as far as it can: nothing can follow it.
RECURSIVE Open(_)
Open(n) ==
  /\ n.paren = 0
  /\ \/ n.kind = "Default"
     \/ n.kind = "BinaryOperator" /\ Open(n.kids.Expr2[1])
     \/ n.kind = "UnaryOperator" /\ Open(n.kids.Expr[1])

RECURSIVE IsType(_)
IsType(n) ==
  \/ n.kind \in {"Identifier", "ArrayType", "SliceType", "MapType", "ChanType", "FuncType", "StructType", "Interface"}
  \/ n.kind = "Selector" /\ n.kids.Expr[1].kind = "Identifier"
  \/ n.kind = "UnaryOperator" /\ n.val = "*" /\ IsType(n.kids.Expr[1])

Types(nodes) == \A k \in DOMAIN nodes : IsType(nodes[k])
\* Either all the parameters have a name, and the last one its type, or none has.
GoodParameters(params) ==
  \/ \A k \in DOMAIN params : params[k].kids.Ident = <<>> /\ params[k].kids.Type # <<>> /\ Types(params[k].kids.Type)
  \/ /\ \A k \in DOMAIN params : params[k].kids.Ident # <<>> /\ params[k].kids.Ident[1].kind = "Identifier" /\ Types(params[k].kids.Type)
     /\ Last(params).kids.Type # <<>>

\* What a field without name can be.
TypeName(n) == n.kind \in {"Identifier", "Selector"} /\ IsType(n) /\ n.paren = 0
Embeds(n) == TypeName(n) \/ (n.kind = "UnaryOperator" /\ n.val = "*" /\ n.paren = 0 /\ TypeName(n.kids.Expr[1]))

OperatorRule(n) ==
  CASE n.kind = "BinaryOperator" ->
         /\ Level(n.kids.Expr1[1]) >= BinaryPrecedence(n.val) /\ ~Open(n.kids.Expr1[1])
         /\ Level(n.kids.Expr2[1]) > BinaryPrecedence(n.val)
    [] n.kind = "UnaryOperator" -> Level(n.kids.Expr[1]) >= 6
    [] n.kind \in {"Call", "Index", "Slicing", "Selector", "TypeAssertion"} ->
         Level(IF n.kind = "Call" THEN n.kids.Func[1] ELSE n.kids.Expr[1]) = 7
    [] n.kind = "Default" -> n.kids.Expr1[1].kind \in {"Identifier", "Call", "Render"}
    [] OTHER -> TRUE

Elides(n) == n.kind = "CompositeLiteral" /\ n.kids.Type = <<>>
LiteralTypes == {"Identifier", "Selector", "ArrayType", "SliceType", "MapType", "StructType"}
FormRule(n) ==
  CASE n.kind = "Slicing" -> n.val = "true" => n.kids.High # <<>> /\ n.kids.Max # <<>>
    [] n.kind = "Call" -> n.val = "true" => n.kids.Args # <<>>
    [] n.kind = "TypeAssertion" -> Types(n.kids.Type)
    [] n.kind = "CompositeLiteral" -> n.kids.Type = <<>> \/ (n.kids.Type[1].kind \in LiteralTypes /\ IsType(n.kids.Type[1]) /\ n.kids.Type[1].paren = 0)
    [] n.kind \in {"ArrayType", "SliceType", "ChanType"} -> Types(n.kids.ElementType)
    [] n.kind = "MapType" -> n.kids.KeyType # <<>> /\ Types(n.kids.KeyType \o n.kids.ValueType)
    [] n.kind = "FuncType" -> GoodParameters(n.kids.Parameters) /\ GoodParameters(n.kids.Result)
    [] n.kind = "Field" -> n.kids.Idents = <<>> => Embeds(n.kids.Type[1])
    [] n.kind = "Assignment" -> /\ n.kids.Lhs # <<>>
                                /\ n.val \in {"++", "--"} => n.kids.Rhs = <<>> /\ Len(n.kids.Lhs) = 1
                                /\ n.val \in {"=", ":="} => n.kids.Rhs # <<>>
                                /\ n.val \notin {"++", "--", "=", ":="} => Len(n.kids.Lhs) = 1 /\ Len(n.kids.Rhs) = 1
    [] OTHER -> TRUE

\* A literal without type is an element of another one.
ElisionRule(n) == n.kind # "KeyValue" => \A f \in DOMAIN n.kids : \A k \in DOMAIN n.kids[f] : ~Elides(n.kids[f][k])
Rule(n) == OperatorRule(n) /\ FormRule(n) /\ ElisionRule(n)

\* A guard is the only thing that a type switch looks at.
GuardRule(n) ==
  IF n.kind # "TypeSwitch" THEN \A m \in Nodes(n) : ~Guard(m)
  ELSE LET a == n.kids.Assignment[1] IN
       /\ Cardinality({m \in Nodes(n) : Guard(m)}) = 1
       /\ Len(a.kids.Lhs) = 1 /\ Len(a.kids.Rhs) = 1 /\ Guard(a.kids.Rhs[1]) /\ a.kids.Rhs[1].paren = 0

----------------------------------------------------------------------------
(* A trailing comma, or semicolon, says nothing. *)
Says(s, i) ==
  ~(/\ s[i] \in {",", ";"} /\ i \in 2..Len(s) - 1 /\ s[i - 1] \notin {"(", "{", ",", ";"}
    /\ s[i + 1] = "}" \/ (s[i] = "," /\ s[i + 1] = ")"))
Plain(s) == LET said == SelectSeq([i \in DOMAIN s |-> i], LAMBDA i : Says(s, i)) IN [k \in DOMAIN said |-> s[said[k]]]

\* The constants of a group: without values a constant repeats those of the last one that has them, and its type.
Repetition(specs) ==
  [k \in DOMAIN specs |->
    LET given == {j \in 1..k : specs[j].kids.Rhs # <<>>}
        from  == specs[CHOOSE j \in given : \A i \in given : i <= j]
    IN  IF specs[k].kids.Rhs # <<>> \/ given = {} THEN specs[k]
        ELSE [specs[k] EXCEPT !.kids.Rhs = from.kids.Rhs, !.kids.Type = from.kids.Type]]
=============================================================================
