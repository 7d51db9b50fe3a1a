-------------------------------- MODULE Syntax --------------------------------
(***************************************************************************)
(* Texts are typed token by token, or are those of trees of the grammar,   *)
(* and parsed.  The trees, and those of statements that are only built,    *)
(* are printed, cloned and dumped.                                         *)
(***************************************************************************)
EXTENDS SyntaxTree, FiniteSets

CONSTANTS
  Texts,      \* the texts to type: where the parser starts, the tokens they start with, those that follow, how many
  Trees,      \* the trees to write, for each place where the parser starts
  Statements, \* trees of statements
  Parse(_, _),  \* what the parser makes of the tokens: a node, and the index of the first token after it; or a failure,
                \* and the opposite of the index of the token it fails at, 0 if it panics
  TextOf(_), CloneOf(_), DumpOf(_)  \* what String, CloneNode and Dump make of a node

G == INSTANCE Grammar

VARIABLES start, typed, tokens, written, result
vars == <<start, typed, tokens, written, result>>

IncDec == {"++", "--"}
AssignmentTokens == {"=", ":=", "+=", "-=", "*=", "/=", "%=", "&=", "|=", "^=", "&^=", "<<=", ">>="} \cup IncDec
Starts == {"expression", "type", "statement", "switch", "const"}

\* The header of a switch ends at its brace, a group of constants with a parenthesis.
After(st, s) == CASE st = "switch" -> Len(s) [] st = "const" -> Len(s) + 2 [] OTHER -> Len(s) + 1
Accepted == result.n # Nil /\ result.i = After(start, tokens)
Panics == result.i = 0

Init ==
  /\ start \in Starts
  /\ typed = 0
  /\ tokens = <<>>
  /\ written = Nil
  /\ result = [n |-> Nil, i |-> 1, skip |-> 0]

\* A token after the others, if there was no error before the end: "not" may become "not contains".
Viable == Len(tokens) < (IF result.i > 0 THEN result.i ELSE -result.i) \/ (tokens # <<>> /\ Last(tokens) = "not")
Type ==
  /\ written = Nil /\ Viable
  /\ \E i \in DOMAIN Texts : \E t \in Texts[i].alphabet :
       LET s == IF tokens = <<>> THEN Append(Texts[i].prefix, t) ELSE Append(tokens, t) IN
       /\ Texts[i].start = start /\ typed \in {0, i} /\ Len(s) <= Texts[i].max
       /\ typed' = i
       /\ tokens' = s
       /\ result' = Parse(start, s)
  /\ UNCHANGED <<start, written>>

Write ==
  /\ tokens = <<>> /\ written = Nil
  /\ \E n \in Trees[start] :
       /\ tokens' = G!Yield(n)
       /\ written' = G!Placed(n, 1)
       /\ result' = Parse(start, tokens')
  /\ UNCHANGED <<start, typed>>

Build ==
  /\ tokens = <<>> /\ written = Nil
  /\ \E n \in Statements : written' = n
  /\ UNCHANGED <<start, typed, tokens, result>>

Next == Type \/ Write \/ Build
Spec == Init /\ [][Next]_vars

----------------------------------------------------------------------------
(* What the parser does that the grammar does not *)

Has(n, P(_)) == \E m \in G!Nodes(n) : P(m)

\* The trees it makes that are not of the grammar: a map type without key, the literal of any expression, full slicing
\* without its bounds, a literal without type under an operator, "not contains" after a default expression
\* (parser_expressions.go).
Loose(n) ==
  CASE n.kind = "MapType" -> n.kids.KeyType = <<>>
    [] n.kind = "CompositeLiteral" -> n.kids.Type # <<>> /\ n.kids.Type[1].kind \notin G!LiteralTypes
    [] n.kind = "Slicing" -> n.val = "true"
    [] n.kind = "BinaryOperator" -> ~G!ElisionRule(n) \/ (n.val = "not contains" /\ G!Open(n.kids.Expr1[1]))
    [] n.kind = "UnaryOperator" -> ~G!ElisionRule(n)
    [] OTHER -> FALSE

\* The texts it takes for others: any token after "key: value", the ellipsis after the type, and one more at the end of
\* the parameters.
Ellipses(text, said) ==
  \/ Len(text) = Len(said) /\ \E i \in DOMAIN text : text[i] = "..." /\ text[i + 1] \in {")", ","}
  \/ \E i \in DOMAIN text : /\ text[i] = "..." /\ text[i - 1] = "," /\ text[i + 1] = ")"
                            /\ Len(text) = Len(said) + 2
\* The token that follows the "not" after an operand, if it is not "contains", is lost (parser_expressions.go:456): it
\* may be any token before the "contains" of a default expression, and before the next element of a literal.
Losable(s) ==
  {i \in 3..Len(s) : s[i - 2] \in {"a", "b", "1", ")", "]", "}"} /\ s[i - 1] = "not" /\ s[i] # "contains"}
Without(s, lost) ==
  LET kept == SelectSeq([i \in DOMAIN s |-> i], LAMBDA i : i \notin lost /\ ~(i + 1 \in lost /\ i + 2 \in DOMAIN s /\ s[i + 2] = "}"))
  IN  [k \in DOMAIN kept |-> s[kept[k]]]

\* An empty list of results is as good as none.
WithoutResults(text) ==
  LET empty == {i \in 2..Len(text) - 1 : text[i] = "(" /\ text[i + 1] = ")" /\ text[i - 1] = ")"}
  IN  IF empty = {} THEN text ELSE LET i == CHOOSE i \in empty : TRUE IN SubSeq(text, 1, i - 1) \o SubSeq(text, i + 2, Len(text))
SameTokens(s, n) ==
  LET yield == G!Yield(n)
      text  == IF Has(n, LAMBDA m : m.kind = "FuncType" /\ m.kids.Result = <<>>) THEN WithoutResults(G!Plain(s)) ELSE G!Plain(s)
      said  == G!Plain(yield)
  IN  \/ text = said
      \/ /\ Has(n, LAMBDA m : m.kind = "KeyValue" /\ m.kids.Key # <<>>)
         /\ Len(s) = Len(yield)
         /\ \A i \in DOMAIN yield : s[i] = yield[i] \/ yield[i] = ","
      \/ /\ Has(n, LAMBDA m : m.kind = "FuncType" /\ m.val = "true")
         /\ Ellipses(text, said)
SameText(s, n) == \E lost \in SUBSET Losable(s) : SameTokens(Without(s, lost), n)

\* Before the brace of a switch it does not see that something follows a guard.
GuardGoesOn(s) == start = "switch" /\ \E i \in DOMAIN s : s[i] = "type" /\ SubSeq(s, i + 2, i + 2) # <<"{">>

\* The texts of the grammar it does not take: the arrow at the start of a result, a type switch that declares its
\* variable after an expression, a literal that goes before the brace of a switch.
Refused(n) ==
  \/ Has(n, LAMBDA m : m.kind = "FuncType" /\ m.kids.Result # <<>> /\ m.kids.Result[1].kids.Ident = <<>>
                         /\ m.kids.Result[1].kids.Type[1].kind = "ChanType" /\ m.kids.Result[1].kids.Type[1].val = "receive")
  \/ n.kind = "TypeSwitch" /\ n.kids.Init # <<>> /\ n.kids.Init[1].kind # "Assignment"

\* It panics, with an error that is not a syntax error, if a constant without values repeats what cannot be cloned,
\* at an assignment without variables, or with ++ or --, where a switch looks for a guard, and at an ellipsis alone
\* among the results of a function.
NotCloned == {"Return", "StructType", "Func"}
Crashes(n) == n.kind = "list" /\ Has(n, LAMBDA m : m.kind \in NotCloned)
CrashesAtSwitch(s) ==
  start = "switch" /\ \E i \in DOMAIN s : s[i] \in AssignmentTokens /\ (i = 1 \/ s[i - 1] = ";" \/ s[i] \in IncDec)

CrashesAtResult(s) == \E i \in 2..Len(s) - 1 : s[i] = "..." /\ s[i - 1] \in {"(", ","} /\ s[i + 1] = ")"

Understood ==
  IF start = "const"
  THEN LET specs == G!Repetition(written.kids.Specs) IN
       /\ Accepted
       /\ Len(result.n.kids) = Len(specs)
       /\ \A k \in DOMAIN specs :
            \* the type is inherited even by a constant that has its values (parser.go:1069)
            IF specs[k].kids.Type = <<>> THEN [result.n.kids[k] EXCEPT !.kids.Type = <<>>] = specs[k] ELSE result.n.kids[k] = specs[k]
  ELSE Accepted /\ result.n = written

\* The parser accepts what the grammar does, with the tree of the grammar and each node in its place, and nothing else
\* (parser_expressions.go, parser_func.go, parser_switch.go, parser.go:1038-1091, 1542-1816).  Only the deviations
\* above are left out: each is a discrepancy of the code.
ParsesLikeTheGrammar ==
  /\ tokens # <<>> /\ written # Nil /\ ~Refused(written) /\ ~Crashes(written) => Understood
  /\ written = Nil /\ Accepted /\ start # "const" =>
       /\ \A m \in G!Nodes(result.n) : G!Rule(m) \/ Loose(m)
       /\ G!GuardRule(result.n) \/ GuardGoesOn(tokens)
       /\ SameText(tokens, result.n)
  /\ Panics => CrashesAtSwitch(tokens) \/ Crashes(written) \/ CrashesAtResult(tokens)

----------------------------------------------------------------------------
(* What is printed, cloned and dumped *)

Subject == IF written # Nil THEN written ELSE result.n
IsSubject == written # Nil \/ (Accepted /\ start # "const")

RECURSIVE Bare(_)
Bare(n) == [n EXCEPT !.pos = <<0, 0>>, !.paren = 0,
                     !.kids = IF @ = <<>> THEN <<>> ELSE [f \in DOMAIN @ |-> [k \in DOMAIN @[f] |-> Bare(@[f][k])]]]

Base(n) == IF n.kind = "Call" THEN n.kids.Func[1] ELSE n.kids.Expr[1]
\* What is lost when a node is printed: the parentheses of what is called, indexed or selected, those of a default
\* expression, of a receive-only channel in another channel and of a conversion to a type; the values of composite
\* literals, the results of functions from the second on, the ellipsis, a bound that is not there, the operator of
\* the bitwise assignments.
Lossy(n) ==
  CASE n.kind \in {"Call", "Index", "Slicing", "Selector", "TypeAssertion"} ->
         \/ Base(n).kind \in {"BinaryOperator", "Default"}
         \/ Base(n).kind = "UnaryOperator" /\ (n.kind # "Call" \/ Base(n).val \notin {"*", "<-"})
         \/ G!IsType(Base(n)) /\ Base(n).kind \notin {"Identifier", "Selector"}
         \/ n.kind = "Slicing" /\ n.val = "true" /\ n.kids.Max = <<>>
    [] n.kind = "CompositeLiteral" -> n.kids.KeyValues # <<>> \/ n.kids.Type = <<>> \/ n.kids.Type[1].kind \notin G!LiteralTypes
    [] n.kind = "BinaryOperator" -> G!Open(n.kids.Expr1[1]) \/ n.kids.Expr1[1].kind = "Default" \/ Loose(n)
    [] n.kind = "UnaryOperator" -> Loose(n) \/ n.kids.Expr[1].kind = "ChanType"
    [] n.kind = "MapType" -> n.kids.KeyType = <<>>
    [] n.kind = "ChanType" -> n.val = "" /\ n.kids.ElementType[1].kind = "ChanType" /\ n.kids.ElementType[1].val = "receive"
    [] n.kind = "FuncType" -> n.val = "true" \/ (Len(n.kids.Result) > 1 /\ n.kids.Result[1].kids.Ident = <<>>)
    [] n.kind = "Assignment" -> n.val \in {"&=", "|=", "^=", "&^=", "<<=", ">>="}
    [] n.kind = "Func" -> TRUE
    [] OTHER -> FALSE

\* The text that String gives of a node is parsed as that node, whatever parentheses the source had: those that the
\* operators need are put back (ast.go, the methods String).
StringRoundTrips ==
  /\ Accepted /\ start \in {"expression", "type", "statement"} /\ ~Has(result.n, Lossy)
  => LET again == Parse(start, TextOf(result.n))
     IN  again.i = Len(TextOf(result.n)) + 1 /\ Bare(again.n) = Bare(result.n)

\* What cannot be cloned: the kinds that CloneNode does not know, what it takes to be there, the values for which an
\* assignment has no variables, and a node without position, as the block of a using, and of an if or an else in a
\* template, is (clone.go; parser.go:868, 885, 905, 940, 1485).
CloneFails(n) ==
  \/ n.kind \in {"Return", "TypeDeclaration", "StructType", "Placeholder"}
  \/ n.kind # "Tree" /\ n.pos = NilPos
  \/ n.kind = "Assignment" /\ Len(n.kids.Rhs) > Len(n.kids.Lhs)
  \/ n.kind \in {"Break", "Continue"} /\ n.kids.Label = <<>>
  \/ n.kind = "Raw" /\ n.kids.Text = <<>>
  \/ n.kind = "Label" /\ n.kids.Statement = <<>>
  \/ n.kind = "Func" /\ n.kids.Body = <<>>

\* What is not in the clone: the values of an assignment (clone.go:30), that a function is distraction free, the
\* parentheses of a composite literal.
CloneLoses(n) ==
  \/ n.kind = "Assignment" /\ n.kids.Rhs # <<>>
  \/ n.kind = "Func" /\ n.val = "true"
  \/ n.kind = "CompositeLiteral" /\ n.paren > 0

\* CloneNode panics at the trees that have a node of the first list, and only at them; the clone of any other tree is
\* the same tree, with the same positions and parentheses, but for the nodes of the second list (clone.go).
ClonesAreEqual ==
  IsSubject /\ start # "const" =>
    /\ (CloneOf(Subject).kind = "panic") = Has(Subject, CloneFails)
    /\ ~Has(Subject, CloneFails) /\ ~Has(Subject, CloneLoses) => CloneOf(Subject) = Subject

\* An assignment is cloned with its values (clone.go:19: "CloneNode returns a deep copy of node.").  It is not: the
\* copies of the values replace those of the variables (clone.go:28-31).
AssignmentsAreCloned == Subject.kind = "Assignment" /\ ~Has(Subject, CloneFails) => CloneOf(Subject) = Subject

\* The order of the fields in the types of the nodes.
Declared ==
  [BinaryOperator |-> <<"Expr1", "Expr2">>, Call |-> <<"Args">>, Index |-> <<"Expr", "Index">>, Slicing |-> <<"Expr", "Low", "High", "Max">>,
   Default |-> <<"Expr1", "Expr2">>, CompositeLiteral |-> <<"Type", "KeyValues">>, KeyValue |-> <<"Key", "Value">>, TypeAssertion |-> <<"Expr">>,
   ArrayType |-> <<"Len", "ElementType">>, MapType |-> <<"KeyType", "ValueType">>, FuncType |-> <<"Parameters", "Result">>, Parameter |-> <<"Type">>,
   Func |-> <<"Body">>, Assignment |-> <<"Lhs", "Rhs">>, Send |-> <<"Channel", "Value">>, Case |-> <<"Expressions", "Body">>,
   Const |-> <<"Lhs", "Type", "Rhs">>, Var |-> <<"Lhs", "Type", "Rhs">>, For |-> <<"Init", "Condition", "Post", "Body">>,
   ForIn |-> <<"Ident", "Expr", "Body", "Else">>, ForRange |-> <<"Assignment", "Body", "Else">>, If |-> <<"Init", "Condition", "Then", "Else">>,
   Import |-> <<>>, Label |-> <<"Ident", "Statement">>, Raw |-> <<>>, Select |-> <<"Cases">>, SelectCase |-> <<"Comm", "Body">>,
   Switch |-> <<"Init", "Expr", "Cases">>, TypeSwitch |-> <<"Init", "Assignment", "Cases">>, Using |-> <<"Statement", "Type", "Body">>]
FieldsOf(n) == IF n.kind \in DOMAIN Declared THEN Declared[n.kind] ELSE IF n.kids = <<>> THEN <<>> ELSE SetToSeq(DOMAIN n.kids)

\* The nodes of a tree from the root down, each with its depth: a parameter, a key and its value, and the body of a
\* function are not nodes of their own.
RECURSIVE Preorder(_, _)
Preorder(n, depth) ==
  LET below == IF n.kind \in {"KeyValue", "Parameter"} THEN depth ELSE depth + 1
      nodes(f) == IF n.kind = "Func" THEN n.kids.Body[1].kids.Nodes ELSE n.kids[f]
      inside == FlattenSeq([i \in DOMAIN FieldsOf(n) |->
                  FlattenSeq([k \in DOMAIN nodes(FieldsOf(n)[i]) |-> Preorder(nodes(FieldsOf(n)[i])[k], below)])])
  IN  IF n.kind \in {"KeyValue", "Parameter"} THEN inside ELSE <<<<depth, n>>>> \o inside

\* Walk knows neither struct types nor declarations of types, visits the label that a break has not and the body that a
\* using has not, and goes into the body of functions that have none (walk.go; dump.go:101 asks nil pointers for their
\* position).
DumpFails(n) ==
  \/ n.kind \in {"StructType", "TypeDeclaration"}
  \/ n.kind \in {"Break", "Continue"} /\ n.kids.Label = <<>>
  \/ n.kind \in {"Func", "Using"} /\ n.kids.Body = <<>>

\* A dump has a line for each node, in the order of the tree, indented by its depth (dump.go:112, walk.go:17-21: "all
\* children other than nil"), the called function, the type of an assertion, the leading text and the names of an
\* import and of a function being left out.
DumpShowsTheTree ==
  IsSubject /\ start # "const" /\ ~Has(Subject, DumpFails) => DumpOf(Subject) = Preorder(Subject, 0)
=============================================================================
