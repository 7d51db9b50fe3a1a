------------------------------ MODULE TreeTools ------------------------------
(***************************************************************************)
(* Walk, Dump and Clone of src/ast/astutil.  For each kind of node, the    *)
(* fields that the function goes into, in its order.                       *)
(***************************************************************************)
EXTENDS SyntaxTree, TLC

Panic == Node("panic", <<0, 0>>, "", <<>>)
Fields(n) == DOMAIN n.kids
Each(F(_), nodes) == [i \in DOMAIN nodes |-> F(nodes[i])]

----------------------------------------------------------------------------
(* Walk *)

WalkedAtoD ==
  [ArrayType |-> <<"Len", "ElementType">>, Assignment |-> <<"Lhs", "Rhs">>, BinaryOperator |-> <<"Expr1", "Expr2">>,
   Block |-> <<"Nodes">>, Break |-> <<"Label">>, Call |-> <<"Args">>, Case |-> <<"Expressions", "Body">>,
   ChanType |-> <<"ElementType">>, CompositeLiteral |-> <<"Type", "KeyValues">>, Const |-> <<"Lhs", "Type", "Rhs">>,
   Continue |-> <<"Label">>, Defer |-> <<"Call">>, Default |-> <<"Expr1", "Expr2">>]
WalkedFtoL ==
  [For |-> <<"Init", "Condition", "Post", "Body">>, ForIn |-> <<"Ident", "Expr", "Body", "Else">>,
   ForRange |-> <<"Assignment", "Body", "Else">>, Func |-> <<"Body">>, FuncType |-> <<"Parameters", "Result">>,
   Go |-> <<"Call">>, Goto |-> <<"Label">>, If |-> <<"Init", "Condition", "Then", "Else">>, Index |-> <<"Expr", "Index">>,
   Label |-> <<"Ident", "Statement">>]
WalkedMtoV ==
  [MapType |-> <<"KeyType", "ValueType">>, Package |-> <<"Declarations">>, Return |-> <<"Values">>, Select |-> <<"Cases">>,
   SelectCase |-> <<"Comm", "Body">>, Selector |-> <<"Expr">>, Send |-> <<"Channel", "Value">>, Show |-> <<"Expressions">>,
   SliceType |-> <<"ElementType">>, Slicing |-> <<"Expr", "Low", "High", "Max">>, Statements |-> <<"Nodes">>,
   Switch |-> <<"Init", "Expr", "Cases">>, Tree |-> <<"Nodes">>, TypeAssertion |-> <<"Expr">>,
   TypeSwitch |-> <<"Init", "Assignment", "Cases">>, URL |-> <<"Value">>, UnaryOperator |-> <<"Expr">>,
   Using |-> <<"Statement", "Type", "Body">>, Var |-> <<"Lhs", "Type", "Rhs">>]
Leaves == {"nil", "Extends", "Import", "Render", "BasicLiteral", "Identifier", "Comment", "Text", "Raw", "Placeholder",
           "Interface", "Fallthrough"}
WalkedFields == WalkedAtoD @@ WalkedFtoL @@ WalkedMtoV

\* What Walk calls itself on for a field: the label that break and continue do not have, and the body that using does
\* not have, are still nodes, nil pointers.
Visited(n, field) ==
  LET nodes == n.kids[field] IN
  CASE n.kind \in {"Break", "Continue"} \/ (n.kind = "Using" /\ field = "Body") -> IF nodes = <<>> THEN <<Nil>> ELSE nodes
    [] n.kind = "Func" -> IF nodes = <<>> THEN <<Panic>> ELSE nodes[1].kids.Nodes
    [] field = "KeyValues" -> FlattenSeq(Each(LAMBDA kv : kv.kids.Key \o kv.kids.Value, nodes))
    [] field \in {"Parameters", "Result"} -> FlattenSeq(Each(LAMBDA param : param.kids.Type, nodes))
    [] OTHER -> nodes

\* Mutant: the end of a node without children is not visited.
WalkOnlyDown(n, children) ==
  <<[node |-> n, end |-> FALSE]>> \o (IF children = <<>> THEN <<>> ELSE children \o <<[node |-> Nil, end |-> TRUE]>>)

\* The visits of a node: itself, those of its children, and its end.
Visit(n, children) == <<[node |-> n, end |-> FALSE]>> \o children \o <<[node |-> Nil, end |-> TRUE]>>

RECURSIVE Walk(_)
Walk(n) ==
  IF n.kind \notin Leaves \cup DOMAIN WalkedFields THEN <<[node |-> Panic, end |-> FALSE]>>
  ELSE Visit(n, IF n.kind \in Leaves THEN <<>>
                ELSE FlattenSeq([i \in DOMAIN WalkedFields[n.kind] |-> FlattenSeq(Each(Walk, Visited(n, WalkedFields[n.kind][i])))]))

\* The lines of a dump, each with its indentation: at the nil pointer that Walk visits, and at a kind that it does
\* not know, Dump panics.
Dump(n) ==
  LET visits == Walk(n)
      indent(i) == Cardinality({j \in 1..i : ~visits[j].end}) - Cardinality({j \in 1..i : visits[j].end}) - 1
      nodes == SelectSeq([i \in DOMAIN visits |-> [node |-> visits[i].node, end |-> visits[i].end, indent |-> indent(i)]],
                         LAMBDA v : ~v.end)
  IN  IF \E i \in DOMAIN nodes : nodes[i].node \in {Nil, Panic} THEN <<>>
      ELSE [i \in DOMAIN nodes |-> <<nodes[i].indent, nodes[i].node>>]

----------------------------------------------------------------------------
(* Clone: the fields of the node that are cloned and given to its New function *)

ClonedExpressions ==
  [ArrayType |-> {"Len", "ElementType"}, BasicLiteral |-> {}, BinaryOperator |-> {"Expr1", "Expr2"}, Call |-> {"Func", "Args"},
   ChanType |-> {"ElementType"}, CompositeLiteral |-> {"Type", "KeyValues"}, KeyValue |-> {"Key", "Value"}, Default |-> {"Expr1", "Expr2"},
   Func |-> {"Ident", "Type", "Body"}, FuncType |-> {"Parameters", "Result"}, Parameter |-> {"Ident", "Type"}, Identifier |-> {},
   Index |-> {"Expr", "Index"}, Interface |-> {}, MapType |-> {"KeyType", "ValueType"}, Render |-> {}, Selector |-> {"Expr"},
   SliceType |-> {"ElementType"}, Slicing |-> {"Expr", "Low", "High", "Max"}, TypeAssertion |-> {"Expr", "Type"}, UnaryOperator |-> {"Expr"}]
ClonedAtoG ==
  [Block |-> {"Nodes"}, Break |-> {"Label"}, Case |-> {"Expressions", "Body"}, Comment |-> {}, Const |-> {"Lhs", "Type", "Rhs"},
   Continue |-> {"Label"}, Defer |-> {"Call"}, Extends |-> {}, Fallthrough |-> {}, For |-> {"Init", "Condition", "Post", "Body"},
   ForIn |-> {"Ident", "Expr", "Body", "Else"}, ForRange |-> {"Assignment", "Body", "Else"}, Go |-> {"Call"}, Goto |-> {"Label"}]
ClonedIntoS ==
  [If |-> {"Init", "Condition", "Then", "Else"}, Import |-> {"Ident", "For"}, Label |-> {"Ident", "Statement"}, Package |-> {"Declarations"},
   Raw |-> {"Text"}, Select |-> {"LeadingText", "Cases"}, SelectCase |-> {"Comm", "Body"}, Send |-> {"Channel", "Value"},
   Show |-> {"Expressions"}, Statements |-> {"Nodes"}]
ClonedSwitchToV ==
  [Switch |-> {"Init", "Expr", "LeadingText", "Cases"}, Text |-> {}, TypeSwitch |-> {"Init", "Assignment", "LeadingText", "Cases"},
   Tree |-> {"Nodes"}, URL |-> {"Value"}, Using |-> {"Statement", "Type", "Body"}, Var |-> {"Lhs", "Type", "Rhs"}]
Cloned == ClonedExpressions @@ ClonedAtoG @@ ClonedIntoS @@ ClonedSwitchToV

\* A field that must be there, or the copy panics.
Required == [Break |-> "Label", Continue |-> "Label", Raw |-> "Text", Label |-> "Statement", Func |-> "Body"]
\* A nil position is dereferenced when it is copied; the position of a tree is not copied.
WithoutPosition(n) == n.pos = NilPos /\ n.kind # "Tree"
Fails(n) == \/ n.kind \notin DOMAIN Cloned \cup {"Assignment"}
            \/ WithoutPosition(n)
            \/ n.kind \in DOMAIN Required /\ n.kids[Required[n.kind]] = <<>>

\* The copies of the values of an assignment are written over those of its variables.
CloneAssignment(n, variables, values) ==
  IF Len(values) > Len(variables) THEN Panic
  ELSE [n EXCEPT !.kids = [Lhs |-> values \o SubSeq(variables, Len(values) + 1, Len(variables)),
                           Rhs |-> [i \in DOMAIN values |-> Nil]]]

\* Mutant: the parentheses are not copied.
CopyWithoutParenthesis(n, kids) == SetParenthesis([n EXCEPT !.kids = kids], 0)
\* What is not cloned: whether the function is distraction free, the parentheses of a composite literal.
Copy(n, kids) ==
  CASE n.kind = "Func" -> [n EXCEPT !.kids = kids, !.val = Flag(FALSE)]
    [] n.kind = "CompositeLiteral" -> SetParenthesis([n EXCEPT !.kids = kids], 0)
    [] OTHER -> [n EXCEPT !.kids = kids]

RECURSIVE CloneNode(_)
CloneNode(n) ==
  LET field(f) == IF f \in Cloned[n.kind] THEN Each(CloneNode, n.kids[f]) ELSE <<>>
      copy == IF n.kind = "Assignment" THEN CloneAssignment(n, Each(CloneNode, n.kids.Lhs), Each(CloneNode, n.kids.Rhs))
              ELSE Copy(n, [f \in Fields(n) |-> field(f)])
  IN  IF Fails(n) THEN Panic
      ELSE IF copy # Panic /\ \E f \in Fields(copy) : Panic \in ToSet(copy.kids[f]) THEN Panic
      ELSE copy
CloneExpression(e) == IF e.kind = "nil" THEN Nil ELSE CloneNode(e)
=============================================================================
