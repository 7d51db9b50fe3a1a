----------------------------- MODULE SyntaxParser -----------------------------
(***************************************************************************)
(* The parser of expressions, types, simple statements, groups of          *)
(* constants and headers of switch: parser_expressions.go, parser_func.go, *)
(* parser_switch.go and parts of parser.go in src/internal/compiler.       *)
(*                                                                         *)
(* It reads the tokens s from s[i] on.  Each function returns the node and *)
(* the index of the first token that is not part of it.  If it fails, the  *)
(* index is that of the token it fails at, negative, and 0 if it panics:   *)
(* what goes on from there fails as well.  Of the tokens that follow, the  *)
(* first "skip" ones have been read and are lost.  The body of a function  *)
(* literal is empty or a return.                                           *)
(***************************************************************************)
EXTENDS TreeTools

SyntaxError == Node("SyntaxError", <<0, 0>>, "", <<>>)
List(nodes) == Node("list", <<0, 0>>, "", nodes)
R(n, i) == [n |-> IF i > 0 THEN n ELSE IF i = 0 THEN Panic ELSE SyntaxError, i |-> i, skip |-> 0]
Fail(i) == R(Nil, IF i > 0 THEN -i ELSE i)
Crash == R(Nil, 0)
Skip(r, k) == IF r.i > 0 THEN [r EXCEPT !.skip = k] ELSE r
Failed(r) == r.i <= 0
IsNil(r) == r.n.kind = "nil"
Missing(r) == Failed(r) \/ IsNil(r)

Tok(s, i) == IF i \in DOMAIN s THEN s[i] ELSE IF i > 0 THEN "EOF" ELSE "error"
Identifiers == {"a", "b", "_"}
Strings == {"'s'"}
Literals == {"1"} \cup Strings
UnaryTokens == {"+", "-", "!", "not", "^", "*", "&"}
BinaryTokens == {"==", "!=", "<", "<=", ">", ">=", "&&", "||", "and", "or", "+", "-", "*", "/", "%", "&", "|", "^",
                 "&^", "<<", ">>", "contains"}
\* The elided type of a composite literal.
Elided == Node("elided", <<0, 0>>, "", <<>>)
isTypeGuard(n) ==
  \/ n.kind = "TypeAssertion" /\ n.kids.Type = <<>>
  \/ n.kind = "Assignment" /\ Len(n.kids.Rhs) = 1 /\ n.kids.Rhs[1].kind = "TypeAssertion" /\ n.kids.Rhs[1].kids.Type = <<>>

\* The parameters of parseExpr: canBeSwitchGuard, canElideType, mustBeType, nextIsBlockBrace.
Expression_ == [guard |-> FALSE, elide |-> FALSE, type |-> FALSE, brace |-> FALSE]
Type_ == [Expression_ EXCEPT !.type = TRUE]
Element_ == [Expression_ EXCEPT !.elide = TRUE]

RECURSIVE parseExpr(_, _, _), parseOperand(_, _, _, _, _, _), parsePostfix(_, _, _, _, _, _), parseFields(_, _, _),
          parseNamedFields(_, _, _), parseParameters(_, _, _, _), parseElements(_, _, _, _, _), parseKeyValues(_, _, _),
          parseIdentifiersList(_, _, _), parseConstGroup(_, _, _)

----------------------------------------------------------------------------
(* The tree of the operators.  Each operator of the path is the last       *)
(* operand of the one before it, and the last one waits for its operand.   *)

Attach(op, e) ==
  [op EXCEPT !.pos = <<Start(op), End(e)>>,
             !.kids = IF op.kind = "UnaryOperator" THEN [Expr |-> <<e>>] ELSE [op.kids EXCEPT !.Expr2 = <<e>>]]
addLastOperand(operand, path) == FoldRight(Attach, path, operand)

addUnary(path, op, i) == Append(path, NewUnaryOperator(<<i, i>>, op, Nil))

\* The unary operators at the end of the path start where the operand does.
Restarted(path, start) ==
  [k \in DOMAIN path |-> IF \A j \in k..Len(path) : path[j].kind = "UnaryOperator"
                         THEN [path[k] EXCEPT !.pos = <<start, End(path[k])>>] ELSE path[k]]

\* Mutant: the operators of the same precedence are grouped from the right.
addBinaryFromTheRight(path0, operand, op, pos) ==
  LET path == Restarted(path0, Start(operand))
      keeps(k) == k = 0 \/ Precedence(path[k]) <= BinaryPrecedence(op)
      p == CHOOSE k \in 0..Len(path) : keeps(k) /\ \A j \in k + 1..Len(path) : ~keeps(j)
      left == addLastOperand(operand, SubSeq(path, p + 1, Len(path)))
  IN  Append(SubSeq(path, 1, p), NewBinaryOperator(<<Start(left), pos>>, op, left, Nil))

\* The operator goes after the last one that has a lower precedence, and takes what is below it as its first operand.
addBinary(path0, operand, op, pos) ==
  LET path == Restarted(path0, Start(operand))
      keeps(k) == k = 0 \/ Precedence(path[k]) < BinaryPrecedence(op)
      p == CHOOSE k \in 0..Len(path) : keeps(k) /\ \A j \in k + 1..Len(path) : ~keeps(j)
      left == addLastOperand(operand, SubSeq(path, p + 1, Len(path)))
  IN  Append(SubSeq(path, 1, p), NewBinaryOperator(<<Start(left), pos>>, op, left, Nil))

----------------------------------------------------------------------------
(* Operands *)

Parenthesized(s, i, e) ==
  IF Missing(e) \/ Tok(s, e.i) # ")" THEN Fail(e.i) ELSE R([SetParenthesis(e.n, e.n.paren + 1) EXCEPT !.pos = <<i, e.i>>], e.i + 1)
parseParenthesized(s, i, f) == Parenthesized(s, i, parseExpr(s, i + 1, [Expression_ EXCEPT !.type = f.type]))

\* There may be no key.
MapType(i, key, value) == IF Missing(value) THEN Fail(value.i) ELSE R(NewMapType(<<i, End(value.n)>>, key.n, value.n), value.i)
MapOf(s, i, key) == IF Tok(s, key.i) # "]" THEN Fail(key.i) ELSE MapType(i, key, parseExpr(s, key.i + 1, Type_))
parseMapType(s, i) == IF Tok(s, i + 1) # "[" THEN Fail(i + 1) ELSE MapOf(s, i, parseExpr(s, i + 2, Type_))

StructType(i, fields) ==
  IF Failed(fields) THEN fields ELSE R(NewStructType(<<i, fields.i>>, fields.n.kids), fields.i + 1)
parseStructType(s, i) == IF Tok(s, i + 1) # "{" THEN Fail(i + 1) ELSE StructType(i, parseFields(s, i + 2, <<>>))

parseInterface(s, i) ==
  IF Tok(s, i + 1) # "{" THEN Fail(i + 1) ELSE IF Tok(s, i + 2) # "}" THEN Fail(i + 2) ELSE R(NewInterface(<<i, i + 2>>), i + 3)

ChanType(i, direction, element) ==
  IF Missing(element) THEN Fail(element.i) ELSE R(NewChanType(<<i, End(element.n)>>, direction, element.n), element.i)
parseChanType(s, i) ==
  CASE Tok(s, i) = "<-" -> ChanType(i, "receive", parseExpr(s, i + 2, Type_))
    [] Tok(s, i) = "chan" /\ Tok(s, i + 1) = "<-" -> ChanType(i, "send", parseExpr(s, i + 2, Type_))
    [] OTHER -> ChanType(i, "", parseExpr(s, i + 1, Type_))

\* An array or a slice type: what is between the brackets is the length, or an ellipsis, or nothing.
ElementOf(i, slice, length, element) ==
  CASE Missing(element) -> Fail(element.i)
    [] ~Missing(element) /\ slice -> R(NewSliceType(<<i, End(element.n)>>, element.n), element.i)
    [] OTHER -> R(NewArrayType(<<i, End(element.n)>>, length, element.n), element.i)
ArrayOf(s, i, slice, length, close) ==
  IF Tok(s, close) # "]" THEN Fail(close) ELSE ElementOf(i, slice, length, parseExpr(s, close + 1, Type_))
ArrayWithLength(s, i, length) == IF Missing(length) THEN Fail(length.i) ELSE ArrayOf(s, i, FALSE, length.n, length.i)
parseArrayType(s, i) ==
  CASE Tok(s, i + 1) = "..." -> ArrayOf(s, i, FALSE, Nil, i + 2)
    [] Tok(s, i + 1) = "]" -> ArrayOf(s, i, TRUE, Nil, i + 1)
    [] OTHER -> ArrayWithLength(s, i, parseExpr(s, i + 1, Expression_))

\* The name of a type may be the one of another package.
parseName(s, i, f) ==
  CASE f.type /\ Tok(s, i + 1) = "." /\ Tok(s, i + 2) \notin Identifiers -> Fail(i + 2)
    [] f.type /\ Tok(s, i + 1) = "." /\ Tok(s, i + 2) \in Identifiers ->
         R(NewSelector(<<i + 2, i + 2>>, NewIdentifier(<<i, i>>, Tok(s, i)), Tok(s, i + 2)), i + 3)
    [] OTHER -> R(NewIdentifier(<<i, i>>, Tok(s, i)), i + 1)

----------------------------------------------------------------------------
(* Functions and their parameters *)

\* The parameters from s[i] on, after those in list; ell is the place of the one with the ellipsis, or 0.
Parameter(first, second) ==
  IF ~IsNil(first) /\ ~IsNil(second) THEN NewParameter(first.n, second.n) ELSE NewParameter(Nil, IF IsNil(second) THEN first.n ELSE second.n)
MoreParameters(s, i, list, ell) == IF Tok(s, i) = "," THEN parseParameters(s, i + 1, list, ell) ELSE R([List(list) EXCEPT !.pos = <<ell, 0>>], i)
AfterType(s, list, ell, first, second) ==
  CASE \/ Failed(second)
       \/ ~IsNil(first) /\ ~IsNil(second) /\ first.n.kind # "Identifier"
       \/ Tok(s, second.i) # ")" /\ (Tok(s, second.i) # "," \/ (IsNil(first) /\ IsNil(second))) -> Fail(second.i)
    [] OTHER -> MoreParameters(s, second.i, IF IsNil(first) /\ IsNil(second) THEN list ELSE Append(list, Parameter(first, second)), ell)
AfterName(s, list, ell, first) ==
  IF Tok(s, first.i) = "..." THEN AfterType(s, list, IF ell = 0 THEN Len(list) + 1 ELSE ell, first, parseExpr(s, first.i + 1, Type_))
  ELSE AfterType(s, list, ell, first, parseExpr(s, first.i, Type_))
parseParameters(s, i, list, ell) == AfterName(s, list, ell, parseExpr(s, i, Type_))

\* A parameter without a name has its type, or is a name that has the type of a later parameter.
Unnamed(param) == param.kids.Ident = <<>>
Named(params) == [k \in DOMAIN params |-> IF Unnamed(params[k]) THEN NewParameter(params[k].kids.Type[1], Nil) ELSE params[k]]
Mixed(params, ell) ==
  \E k \in DOMAIN params :
    IF Unnamed(Last(params)) THEN ~Unnamed(params[k])
    ELSE Unnamed(params[k]) /\ (k = ell \/ params[k].kids.Type[1].kind # "Identifier")

\* The parameter with the ellipsis is the last one, and is the only one that has its type.
EndsList(params, ell) ==
  ell = Len(params) /\ params # <<>> /\ (ell = 1 \/ Unnamed(Last(params)) \/ ~Unnamed(params[ell - 1]))

\* What is between the parentheses: either all the parameters have a name or none has.  It panics if the ellipsis of a
\* result has no type.
GoodList(params, ell, isResult, i) ==
  CASE params # <<>> /\ Mixed(params, ell) -> Fail(i)
    [] (params # <<>> => ~Mixed(params, ell)) /\ isResult /\ ell = Len(params) + 1 -> Crash
    [] OTHER -> IF ell > 0 /\ (isResult \/ ~EndsList(params, ell)) THEN Fail(i)
                ELSE R([List(IF Unnamed(Last(params)) THEN params ELSE Named(params)) EXCEPT !.val = Flag(ell > 0)], i + 1)
ParameterList(isResult, r) == IF Failed(r) THEN r ELSE GoodList(r.n.kids, r.n.pos[1], isResult, r.i)
parseParameterList(s, i, isResult) ==
  IF Tok(s, i + 1) = ")" THEN R([List(<<>>) EXCEPT !.val = Flag(FALSE)], i + 2)
  ELSE ParameterList(isResult, parseParameters(s, i + 1, <<>>, 0))

\* The result of a function may be a type without parentheses, but not one that starts with an arrow.
OneResult(type) == R([List(<<NewParameter(Nil, type.n)>>) EXCEPT !.val = Flag(FALSE)], type.i)
parseFuncParameters(s, i, isResult) ==
  CASE isResult /\ Tok(s, i) \in {"[", "func", "interface", "map", "*", "struct", "chan"} \cup Identifiers ->
         OneResult(parseExpr(s, i, [Type_ EXCEPT !.brace = TRUE]))
    [] Tok(s, i) = "(" -> parseParameterList(s, i, isResult)
    [] OTHER -> R(Nil, i)

\* The body goes from s[open] to s[close].
FuncBody(s, i, type, open) ==
  LET returns == Tok(s, open + 1) = "return"
      close   == IF returns THEN open + 2 ELSE open + 1
      body    == IF returns THEN <<NewReturn(<<open + 1, open + 1>>, <<>>)>> ELSE <<>>
  IN  IF Tok(s, close) # "}" THEN Fail(close)
      ELSE R(NewFunc(<<i, close>>, Nil, type, NewBlock(<<open, close>>, body), FALSE), close + 1)
FuncType(i, params, result) ==
  NewFuncType(<<i, result.i - 1>>, FALSE, params.n.kids, IF IsNil(result) THEN <<>> ELSE result.n.kids, params.n.val = "true")
AfterResult(s, i, f, params, result) ==
  CASE Failed(result) -> result
    [] ~Failed(result) /\ (f.type \/ Tok(s, result.i) # "{") -> R(FuncType(i, params, result), result.i)
    [] OTHER -> FuncBody(s, i, FuncType(i, params, result), result.i)
AfterParameters(s, i, f, params) ==
  IF Missing(params) THEN Fail(params.i) ELSE AfterResult(s, i, f, params, parseFuncParameters(s, params.i, TRUE))
parseFunc(s, i, f) == AfterParameters(s, i, f, parseFuncParameters(s, i + 1, FALSE))

----------------------------------------------------------------------------
(* Fields of structs *)

\* The names from s[i] on, after those in idents, and the type that they have.
NamedFields(idents, type) == IF Missing(type) THEN Fail(type.i) ELSE R(NewField(idents, type.n, ""), type.i)
parseNamedFields(s, i, idents) ==
  LET all == Append(idents, NewIdentifier(<<i, i>>, Tok(s, i))) IN
  CASE Tok(s, i) \notin Identifiers -> Fail(i)
    [] Tok(s, i) \in Identifiers /\ Tok(s, i + 1) = "," -> parseNamedFields(s, i + 2, all)
    [] OTHER -> NamedFields(all, parseExpr(s, i + 1, Type_))

Pointer(i, type) == R(NewField(<<>>, NewUnaryOperator(<<i, End(type.n)>>, "*", type.n), ""), type.i)
Embedded(i, type) == R(NewField(<<>>, [type.n EXCEPT !.pos = <<i, @[2]>>], ""), type.i)
OneField(name, type) == R(IF IsNil(type) THEN NewField(<<>>, name, "") ELSE NewField(<<name>>, type.n, ""), type.i)
parseField(s, i) ==
  LET name == NewIdentifier(<<i, i>>, Tok(s, i))
      next == Tok(s, i + 1)
  IN  CASE Tok(s, i) = "*" -> IF next \notin Identifiers THEN Fail(i + 1) ELSE Pointer(i, parseName(s, i + 1, Type_))
        [] Tok(s, i) \in Identifiers /\ next = "." -> Embedded(i, parseName(s, i, Type_))
        [] Tok(s, i) \in Identifiers /\ next = "," -> parseNamedFields(s, i, <<>>)
        [] Tok(s, i) \in Identifiers /\ next \in Strings -> R(NewField(<<>>, name, ""), i + 1)
        [] Tok(s, i) \in Identifiers /\ next \notin Strings \cup {".", ","} -> OneField(name, parseExpr(s, i + 1, Type_))
        [] OTHER -> Fail(i)

\* The fields up to the closing brace, each with its tag and its semicolon.
MoreFields(s, i, fields) ==
  CASE Tok(s, i) = ";" -> parseFields(s, i + 1, fields)
    [] Tok(s, i) = "}" -> R(List(fields), i)
    [] OTHER -> Fail(i)
AfterField(s, fields, field) ==
  IF Tok(s, field.i) \in Strings THEN MoreFields(s, field.i + 1, Append(fields, [field.n EXCEPT !.val = Tok(s, field.i)]))
  ELSE MoreFields(s, field.i, Append(fields, field.n))
parseFields(s, i, fields) == IF Tok(s, i) = "}" THEN R(List(fields), i) ELSE AfterField(s, fields, parseField(s, i))

----------------------------------------------------------------------------
(* Lists of expressions *)

\* Whether the list may end with a comma tells the list in parentheses from the other one.
AfterElement(s, f, list, trailing, e) ==
  CASE Failed(e) -> e
    [] IsNil(e) -> IF list = <<>> THEN e ELSE IF trailing /\ Tok(s, e.i) = ")" THEN R(List(list), e.i) ELSE Fail(e.i)
    [] OTHER -> IF Tok(s, e.i) = "," THEN parseElements(s, e.i + 1, f, Append(list, e.n), trailing) ELSE R(List(Append(list, e.n)), e.i)
parseElements(s, i, f, list, trailing) == AfterElement(s, f, list, trailing, parseExpr(s, i, f))
parseExprList(s, i, f) == parseElements(s, i, f, <<>>, FALSE)
parseExprListInParenthesis(s, i) == parseElements(s, i, Expression_, <<>>, TRUE)

\* The elements of a composite literal: after a value any token separates it from the next element.
MoreKeyValues(s, i, skip, list) == IF Tok(s, i) = "}" THEN R(List(list), i) ELSE parseKeyValues(s, i + 1 + skip, list)
AfterValue(s, list, key, value) == IF Missing(value) THEN Fail(value.i) ELSE MoreKeyValues(s, value.i, value.skip, Append(list, KeyValue(key, value.n)))
AfterKey(s, list, e) ==
  CASE Missing(e) -> IF Tok(s, e.i) = "}" THEN R(List(list), e.i) ELSE Fail(e.i)
    [] ~Missing(e) /\ Tok(s, e.i) = ":" -> AfterValue(s, list, e.n, parseExpr(s, e.i + 1, Element_))
    [] ~Missing(e) /\ Tok(s, e.i) \in {",", "}"} -> MoreKeyValues(s, e.i, 0, Append(list, KeyValue(Nil, e.n)))
    [] OTHER -> Fail(e.i)
parseKeyValues(s, i, list) == AfterKey(s, list, parseExpr(s, i, Element_))

----------------------------------------------------------------------------
(* What follows an operand *)

CompositeLiteral(i, operand, kvs) ==
  CASE Failed(kvs) -> kvs
    [] ~Failed(kvs) /\ operand = Elided -> R(NewCompositeLiteral(<<i, kvs.i>>, Nil, kvs.n.kids), kvs.i + 1)
    [] OTHER -> R(NewCompositeLiteral(<<Start(operand), kvs.i>>, operand, kvs.n.kids), kvs.i + 1)
parseCompositeLiteral(s, i, operand) == IF operand.paren > 0 THEN Fail(i) ELSE CompositeLiteral(i, operand, parseKeyValues(s, i + 1, <<>>))

\* The ellipsis is the last token of the arguments.
CallWith(s, operand, args) ==
  LET dots  == Tok(s, args.i) = "..."
      close == IF dots THEN args.i + 1 ELSE args.i
  IN  IF (dots /\ IsNil(args)) \/ Tok(s, close) # ")" THEN Fail(close)
      ELSE R(NewCall(<<Start(operand), close>>, operand, args.n.kids, dots), close + 1)
parseCall(s, i, operand) == CallWith(s, operand, parseExprListInParenthesis(s, i + 1))

Slicing(s, operand, low, high, max, isFull) ==
  IF Tok(s, max.i) # "]" THEN Fail(max.i) ELSE R(NewSlicing(<<Start(operand), max.i>>, operand, low.n, high.n, max.n, isFull), max.i + 1)
SlicingTo(s, operand, low, high) ==
  IF Tok(s, high.i) = ":" THEN Slicing(s, operand, low, high, parseExpr(s, high.i + 1, Expression_), TRUE)
  ELSE Slicing(s, operand, low, high, R(Nil, high.i), FALSE)
IndexAt(s, operand, low) ==
  CASE Tok(s, low.i) = ":" -> SlicingTo(s, operand, low, parseExpr(s, low.i + 1, Expression_))
    [] Tok(s, low.i) = "]" /\ ~IsNil(low) -> R(NewIndex(<<Start(operand), low.i>>, operand, low.n), low.i + 1)
    [] OTHER -> Fail(low.i)
parseIndex(s, i, operand) == IndexAt(s, operand, parseExpr(s, i + 1, Expression_))

Asserted(s, operand, type) ==
  IF Tok(s, type.i) # ")" THEN Fail(type.i) ELSE R(NewTypeAssertion(<<Start(operand), type.i>>, operand, type.n), type.i + 1)
AssertedTo(s, operand, type) == IF Missing(type) THEN Fail(type.i) ELSE Asserted(s, operand, type)
parseSelector(s, i, f, operand) ==
  CASE Tok(s, i + 1) \in Identifiers -> R(NewSelector(<<Start(operand), i + 1>>, operand, Tok(s, i + 1)), i + 2)
    [] Tok(s, i + 1) = "(" /\ Tok(s, i + 2) = "type" -> IF f.guard THEN Asserted(s, operand, R(Nil, i + 3)) ELSE Fail(i + 2)
    [] Tok(s, i + 1) = "(" /\ Tok(s, i + 2) = "_" -> Fail(i + 2)
    [] Tok(s, i + 1) = "(" /\ Tok(s, i + 2) \notin {"type", "_"} ->
         AssertedTo(s, operand, parseExpr(s, i + 2, [Type_ EXCEPT !.guard = TRUE]))
    [] OTHER -> Fail(i + 1)

DefaultOf(operand, e) == IF Missing(e) THEN Fail(e.i) ELSE Skip(R(NewDefault(<<Start(operand), End(e.n)>>, operand, e.n), e.i), e.skip)
parseDefault(s, i, f, operand) ==
  IF operand.kind \notin {"Identifier", "Call", "Render"} THEN Fail(Start(operand))
  ELSE DefaultOf(operand, parseExpr(s, i + 1, [Expression_ EXCEPT !.brace = f.brace]))

\* The operand with what follows it at s[i].
parseSuffix(s, i, f, operand) ==
  CASE Tok(s, i) = "{" -> parseCompositeLiteral(s, i, operand)
    [] Tok(s, i) = "(" -> parseCall(s, i, operand)
    [] Tok(s, i) = "[" -> parseIndex(s, i, operand)
    [] Tok(s, i) = "." -> parseSelector(s, i, f, operand)
    [] Tok(s, i) = "default" -> parseDefault(s, i, f, operand)

\* After a "not" the next token is read, to see whether it is "contains", and is not put back.
\* r is the operand; lit: whether it can be the type of a composite literal before a block; must: whether a guard has been
\* read.
Ended(path, operand, i) ==
  IF path = <<>> THEN R(operand, i) ELSE IF operand = Elided THEN Fail(i) ELSE R(addLastOperand(operand, path), i)
parsePostfix(s, f, path, r, lit, must) ==
  LET t     == Tok(s, r.i)
      stops == f.type \/ (t = "{" /\ f.brace /\ ~lit)
      guard == t = "." /\ Tok(s, r.i + 1) = "(" /\ Tok(s, r.i + 2) = "type"
      next  == r.i + 1 + r.skip
      not   == t = "not" /\ Tok(s, next) = "contains"
  IN  CASE Failed(r) -> r
        [] ~Failed(r) /\ stops -> Ended(path, r.n, r.i)
        [] ~Failed(r) /\ ~stops /\ t \in {"{", "(", "[", ".", "default"} ->
             parsePostfix(s, f, path, parseSuffix(s, r.i, f, r.n), IF t \in {"{", "("} THEN FALSE ELSE lit, must \/ guard)
        [] ~Failed(r) /\ ~stops /\ (t \in BinaryTokens \/ not) ->
             parseOperand(s, IF not THEN next + 1 ELSE next, [f EXCEPT !.guard = FALSE],
                          addBinary(path, r.n, IF not THEN "not contains" ELSE t, r.i), lit, must)
        [] OTHER -> IF must /\ ~isTypeGuard(r.n) THEN Fail(r.i)
                    ELSE Skip(Ended(path, r.n, r.i), IF t = "not" THEN r.skip + 1 ELSE r.skip)

\* The operand that starts at s[i].
parsePrimary(s, i, f) ==
  LET t == Tok(s, i) IN
  CASE t = "(" -> parseParenthesized(s, i, f)
    [] t = "map" -> parseMapType(s, i)
    [] t = "struct" -> parseStructType(s, i)
    [] t = "interface" -> parseInterface(s, i)
    [] t = "func" -> parseFunc(s, i, f)
    [] t \in {"chan", "<-"} -> parseChanType(s, i)
    [] t \in Literals -> IF f.type THEN Fail(i) ELSE R(NewBasicLiteral(<<i, i>>, t), i + 1)
    [] t \in Identifiers -> parseName(s, i, f)
    [] t = "[" -> parseArrayType(s, i)
    [] t = "render" -> IF Tok(s, i + 1) \in Strings THEN R(NewRender(<<i, i + 1>>, Tok(s, i + 1)), i + 2) ELSE Fail(i + 1)
    [] t = "{" -> R(Elided, i)

PrimaryTokens == {"(", "map", "struct", "interface", "func", "chan", "[", "render"} \cup Literals \cup Identifiers

\* The operand at s[i], or the unary operator, after the operators of the path.
parseOperand(s, i, f, path, lit, must) ==
  LET t      == Tok(s, i)
      arrow  == t = "<-" /\ Tok(s, i + 1) # "chan"
      starts == t \in PrimaryTokens \/ (t = "<-" /\ ~arrow) \/ (t = "{" /\ f.elide)
  IN  CASE starts -> parsePostfix(s, f, path, parsePrimary(s, i, f), lit \/ t \in {"map", "struct", "["}, must)
        [] ~starts /\ (arrow \/ t \in UnaryTokens) ->
             IF f.type /\ t # "*" THEN Fail(IF arrow THEN i + 1 ELSE i)
             ELSE parseOperand(s, i + 1, [f EXCEPT !.guard = FALSE], addUnary(path, t, i), lit, must)
        [] OTHER -> IF path = <<>> THEN R(Nil, i) ELSE Fail(i)

parseExpr(s, i, f) == parseOperand(s, i, f, <<>>, FALSE, FALSE)

----------------------------------------------------------------------------
(* Simple statements *)

IncDecTokens == {"++", "--"}
isAssignmentToken(t) == t \in {"=", ":=", "+=", "-=", "*=", "/=", "%=", "&=", "|=", "^=", "&^=", "<<=", ">>="} \cup IncDecTokens

\* The assignment of the variables, whose token is s[i]: without variables it panics.
Assigned(s, i, variables, list) ==
  IF Missing(list) THEN Fail(list.i)
  ELSE R(NewAssignment(<<Start(variables[1]), End(Last(list.n.kids))>>, variables, s[i], list.n.kids), list.i)
OneValue(e) == IF Missing(e) THEN e ELSE R(List(<<e.n>>), e.i)
parseAssignment(s, i, variables, f) ==
  CASE ~isAssignmentToken(Tok(s, i)) -> Fail(i)
    [] isAssignmentToken(Tok(s, i)) /\ variables = <<>> -> Crash
    [] Tok(s, i) \in {"=", ":="} /\ variables # <<>> -> Assigned(s, i, variables, parseExprList(s, i + 1, f))
    [] OTHER -> CASE Len(variables) > 1 -> Fail(i)
                  [] Len(variables) = 1 /\ Tok(s, i) \in IncDecTokens -> R(NewAssignment(<<Start(variables[1]), i>>, variables, s[i], <<>>), i + 1)
                  [] OTHER -> Assigned(s, i, variables, OneValue(parseExpr(s, i + 1, [f EXCEPT !.guard = FALSE])))

SendOf(i, channel, value) == IF Missing(value) THEN Fail(value.i) ELSE R(NewSend(<<i, End(value.n)>>, channel, value.n), value.i)
AssignmentAt(i, a) == R([a.n EXCEPT !.pos = <<i, End(a.n)>>], a.i)
AfterList(s, i, f, list) ==
  CASE Missing(list) -> list
    [] ~Missing(list) /\ (Len(list.n.kids) > 1 \/ isAssignmentToken(Tok(s, list.i))) ->
         AssignmentAt(i, parseAssignment(s, list.i, list.n.kids, f))
    [] OTHER -> IF Tok(s, list.i) = "<-" THEN SendOf(i, list.n.kids[1], parseExpr(s, list.i + 1, f)) ELSE R(list.n.kids[1], list.i)
parseSimpleStatement(s, i, f) == AfterList(s, i, f, parseExprList(s, i, f))

----------------------------------------------------------------------------
(* Declarations of constants in parentheses *)

\* Whatever the token after a comma is, it is taken for a name.
parseIdentifiersList(s, i, idents) ==
  LET all == Append(idents, NewIdentifier(<<i, i>>, Tok(s, i)))
  IN  IF Tok(s, i + 1) = "," THEN parseIdentifiersList(s, i + 2, all) ELSE R(List(all), i + 1)

ConstOf(idents, type, iota, values) ==
  IF Missing(values) THEN Fail(values.i) ELSE R(NewConst(<<1, 1>>, idents, type, values.n.kids, iota), values.i)
ConstOfType(s, idents, iota, type) ==
  IF Tok(s, type.i) # "=" THEN Fail(type.i) ELSE ConstOf(idents, type.n, iota, parseExprList(s, type.i + 1, Expression_))
AfterIdents(s, iota, list) ==
  CASE Tok(s, list.i) \in Identifiers \cup {"func", "map", "(", "[", "interface", "*", "chan", "<-", "struct"} ->
         ConstOfType(s, list.n.kids, iota, parseExpr(s, list.i, Type_))
    [] Tok(s, list.i) \in {";", ")"} -> R(NewConst(<<1, 1>>, list.n.kids, Nil, <<>>, iota), list.i)
    [] OTHER -> ConstOfType(s, list.n.kids, iota, R(Nil, list.i))
parseVarOrConst(s, i, iota) == IF Tok(s, i) \notin Identifiers THEN Fail(i) ELSE AfterIdents(s, iota, parseIdentifiersList(s, i, <<>>))

\* A constant without type has the type of the one before it, and without values its values.
Repeated(c, list) ==
  LET prev == Last(list)
      typ  == IF c.kids.Type = <<>> THEN Each(CloneExpression, prev.kids.Type) ELSE c.kids.Type
      rhs  == IF c.kids.Rhs = <<>> THEN Each(CloneExpression, prev.kids.Rhs) ELSE c.kids.Rhs
  IN  IF list = <<>> THEN c
      ELSE IF Panic \in ToSet(typ \o rhs) THEN Panic ELSE [c EXCEPT !.kids.Type = typ, !.kids.Rhs = rhs]

\* The constants from s[i] on, after those in list, up to the parenthesis.
NextConst(s, i, list, c) == IF c = Panic THEN Crash ELSE parseConstGroup(s, IF Tok(s, i) = ";" THEN i + 1 ELSE i, Append(list, c))
AfterConst(s, list, r) == IF Tok(s, r.i) \notin {";", ")"} THEN Fail(r.i) ELSE NextConst(s, r.i, list, Repeated(r.n, list))
parseConstGroup(s, i, list) == IF Tok(s, i) = ")" THEN R(List(list), i + 1) ELSE AfterConst(s, list, parseVarOrConst(s, i, Len(list)))

----------------------------------------------------------------------------
(* The header of switch, from the token after it to the opening brace *)

Header_ == [Expression_ EXCEPT !.guard = TRUE, !.brace = TRUE]
IsGuardOf(a) == Len(a.kids.Lhs) = 1 /\ a.kids.Rhs[1].kind = "TypeAssertion" /\ a.kids.Rhs[1].kids.Type = <<>>

\* The node of the switch, whose brace is s[i].
SwitchNode(s, i, init, e) ==
  LET blank(a) == NewAssignment(a.pos, <<NewIdentifier(a.pos, "_")>>, "=", <<a>>) IN
  CASE Tok(s, i) # "{" -> Fail(i)
    [] Tok(s, i) = "{" /\ isTypeGuard(e) ->
         R(NewTypeSwitch(<<1, i>>, init, IF e.kind = "TypeAssertion" THEN blank(e) ELSE e, Nil, <<>>), i)
    [] OTHER -> R(NewSwitch(<<1, i>>, init, e, Nil, <<>>), i)

\* The tag, a list of one expression at most.
SwitchTag(s, init, r) ==
  CASE Missing(r) -> SwitchNode(s, r.i, init, Nil)
    [] ~Missing(r) /\ Len(r.n.kids) = 1 -> SwitchNode(s, r.i, init, r.n.kids[1])
    [] OTHER -> Fail(r.i)

\* After "init;", where init is an assignment, the guard can be one as well: ++ and -- have no values to look at.
SwitchGuard(s, init, a) ==
  CASE Failed(a) -> a
    [] ~Failed(a) /\ a.n.kids.Rhs = <<>> -> Crash
    [] OTHER -> IF ~IsGuardOf(a.n) THEN Fail(a.i) ELSE SwitchNode(s, a.i, init, a.n)
AfterInit(s, init, r) ==
  IF ~isAssignmentToken(Tok(s, r.i)) THEN SwitchTag(s, init, r)
  ELSE SwitchGuard(s, init, parseAssignment(s, r.i, IF IsNil(r) THEN <<>> ELSE r.n.kids, Header_))

\* The header that starts with an assignment: it is the guard or what goes before the tag.
SwitchAssignment(s, a) ==
  CASE Tok(s, a.i) = ";" -> IF isTypeGuard(a.n) THEN Fail(a.i) ELSE AfterInit(s, a.n, parseExprList(s, a.i + 1, Header_))
    [] Tok(s, a.i) = "{" -> IF Len(a.n.kids.Rhs) # 1 \/ ~IsGuardOf(a.n) THEN Fail(a.i) ELSE SwitchNode(s, a.i, Nil, a.n)
    [] OTHER -> Fail(a.i)

SwitchHeader(s, r, list) ==
  CASE Tok(s, r.i) = "{" -> SwitchTag(s, Nil, r)
    [] Tok(s, r.i) = ";" -> IF Len(list) > 1 \/ (Len(list) = 1 /\ isTypeGuard(list[1])) THEN Fail(r.i)
                            ELSE SwitchTag(s, IF list = <<>> THEN Nil ELSE list[1], parseExprList(s, r.i + 1, Header_))
    [] isAssignmentToken(Tok(s, r.i)) -> SwitchAssignment(s, parseAssignment(s, r.i, list, Header_))
    [] OTHER -> Fail(r.i)
SwitchOf(s, r) == SwitchHeader(s, r, IF IsNil(r) THEN <<>> ELSE r.n.kids)
parseSwitch(s, i) == SwitchOf(s, parseExprList(s, i, Header_))
=============================================================================
