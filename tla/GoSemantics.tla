---------------------------- MODULE GoSemantics ----------------------------
(***************************************************************************)
(* What the Go specification says of the statements of Assignments: the    *)
(* language that Scriggo promises to run.  It shares with the compiler the *)
(* shape of statements and types, and nothing of registers.                *)
(*                                                                         *)
(* The store is [cells, vars, panic, negative]: variables hold values by   *)
(* value, an interface holds a value with its type; negative tells that    *)
(* the panic is the one of a negative count of shift.  Evaluating an       *)
(* expression gives [g, v]: the store it leaves and its value.             *)
(***************************************************************************)
EXTENDS Values, FiniteSetsExt

GoNil == Invalid
Wrap(t, n) ==
  CASE t = "uint" -> n % 2^WordBits [] t = "uint8" -> n % 2^ByteBits
    [] t = "int" -> ((n + 2^(WordBits - 1)) % 2^WordBits) - 2^(WordBits - 1)
    [] t = "int8" -> ((n + 2^(ByteBits - 1)) % 2^ByteBits) - 2^(ByteBits - 1)
    [] t = "float64" -> n [] t = "float32" -> Single(n)
Num(t, n) == [t |-> t, v |-> <<Wrap(t, n)>>]
Truth(holds) == [t |-> "bool", v |-> <<IF holds THEN 1 ELSE 0>>]
True(v) == v.v = <<1>>
Width(t) == IF t \in {"int8", "uint8"} THEN ByteBits ELSE WordBits

Panics(g) == [g EXCEPT !.panic = TRUE]
New_(g, v) == [g EXCEPT !.cells = Append(@, v)]
\* A variable of an interface type takes the value with its type, the others have their own.
Put_(g, t, addr, v) == IF Kind(t) = "interface" THEN [g EXCEPT !.cells[addr] = v] ELSE [g EXCEPT !.cells[addr].v = v.v]
Result(g, v) == [g |-> g, v |-> v]
Fails(g, t) == [g |-> Panics(g), v |-> ZeroOf(t)]

----------------------------------------------------------------------------
(* Operators                                                               *)

GoBits(t, n) == {i \in 0..Width(t) - 1 : ((n % 2^Width(t)) \div 2^i) % 2 = 1}
FromBits(t, bits) == Wrap(t, MapThenSumSet(LAMBDA i : 2^i, bits))
GoShift(op, t, n, count) ==
  IF op = "<<" THEN IF count >= Width(t) THEN 0 ELSE n * 2^count
  ELSE IF count >= Width(t) THEN (IF n < 0 THEN -1 ELSE 0) ELSE n \div 2^count

GoArithmetic(g, op, t, x, y) ==
  LET a == x.v[1]  b == y.v[1]
      of(n) == Result(g, Num(t, n))
  IN  CASE t = "string" -> Result(g, [t |-> t, v |-> x.v \o y.v])
        [] t # "string" /\ op = "+" -> of(a + b) [] op = "-" -> of(a - b) [] op = "*" -> of(a * b)
        [] op \in {"/", "%"} /\ b = 0 -> IF t \in Floats THEN of(0) ELSE Fails(g, t)
        [] op = "/" /\ b # 0 -> of(Quo(a, b)) [] op = "%" /\ b # 0 -> of(a - b * Quo(a, b))
        [] op \in {"<<", ">>"} -> IF b < 0 THEN Fails([g EXCEPT !.negative = TRUE], t) ELSE of(GoShift(op, t, a, b))
        [] op = "&" -> of(FromBits(t, GoBits(t, a) \cap GoBits(t, b)))
        [] op = "|" -> of(FromBits(t, GoBits(t, a) \cup GoBits(t, b)))
        [] op = "&^" -> of(FromBits(t, GoBits(t, a) \ GoBits(t, b)))
        [] op = "^" -> of(FromBits(t, (GoBits(t, a) \ GoBits(t, b)) \cup (GoBits(t, b) \ GoBits(t, a))))

GoLess(x, y) == IF x.t = "string" THEN (IF x.v = <<>> THEN y.v # <<>> ELSE y.v # <<>> /\ x.v[1] < y.v[1]) ELSE x.v[1] < y.v[1]
IsNil(v) == v = GoNil \/ (Kind(v.t) \in {"pointer", "map", "slice"} /\ v.v = <<0>>)
GoEqual(x, y) == x = y \/ (IsNil(x) /\ IsNil(y) /\ (x.t = y.t))
GoCompare(op, x, y) ==
  CASE op = "==" -> GoEqual(x, y) [] op = "!=" -> ~GoEqual(x, y)
    [] op = "<" -> GoLess(x, y) [] op = "<=" -> ~GoLess(y, x) [] op = ">" -> GoLess(y, x) [] op = ">=" -> ~GoLess(x, y)

Entries(g, mp) == IF IsNil(mp) THEN <<>> ELSE g.cells[Deref(mp)].v
Has(g, mp, key) == \E i \in DOMAIN Entries(g, mp) : Entries(g, mp)[i][1] = key
Entry(g, mp, key) == IF Has(g, mp, key) THEN (SelectSeq(Entries(g, mp), LAMBDA p : p[1] = key))[1][2] ELSE 0
\* The operator contains of templates.
GoContains(g, x, y) ==
  CASE x.t = "string" /\ y.t = "string" -> \E i, j \in 1..Len(x.v) : SubSeq(x.v, i, j) = y.v \/ y.v = <<>>
    [] x.t = "string" /\ y.t # "string" -> \E i \in DOMAIN x.v : x.v[i] = y.v[1]
    [] Kind(x.t) = "slice" -> \E i \in 1..SliceLen(x) : GoEqual(Elements(g, x)[i], y)
    [] Kind(x.t) = "map" -> Has(g, x, y.v)

\* A value that templates take for false.
IsZero(g, v) ==
  CASE IsNil(v) -> TRUE [] Kind(v.t) = "slice" -> SliceLen(v) = 0 [] v.t = "map" -> Entries(g, v) = <<>>
    [] v.t = "string" -> v.v = <<>> [] OTHER -> Kind(v.t) # "pointer" /\ v.v = <<0>>

GoConvert(t, v) ==
  CASE Kind(t) = "interface" -> v
    [] t = "string" /\ v.t # "string" -> [t |-> t, v |-> IF v.v[1] >= 0 THEN v.v ELSE <<0>>]
    [] t \in Floats \cup Signeds \cup Unsigneds -> Num(t, v.v[1]) [] OTHER -> [v EXCEPT !.t = t]

----------------------------------------------------------------------------
(* Expressions                                                             *)

RECURSIVE Eval(_, _)
EvalTwo(g, x, y) == LET one == Eval(g, x)  two == Eval(one.g, y) IN [g |-> two.g, x |-> one.v, y |-> two.v]
EvalAll(g, xs) ==
  FoldLeft(LAMBDA r, x : LET e == Eval(r.g, x) IN [g |-> e.g, v |-> Append(r.v, e.v)], [g |-> g, v |-> <<>>], xs)

\* The address of what can be assigned to, or of the struct of a field; 0 with a panic.
RECURSIVE Place(_, _)
Place(g, x) ==
  LET p == Eval(g, x.x)
      two == EvalTwo(g, x.x, x.i)
      i == two.y.v[1]
  IN  CASE x.e = "var" -> [g |-> g, addr |-> g.vars[x.n]]
        [] x.e = "un" \/ (x.e = "field" /\ Kind(x.x.t) = "pointer") ->
             [g |-> IF IsNil(p.v) THEN Panics(p.g) ELSE p.g, addr |-> Deref(p.v)]
        [] x.e = "field" /\ Kind(x.x.t) # "pointer" -> Place(g, x.x)
        [] x.e = "index" -> IF i < 0 \/ i >= SliceLen(two.x) THEN [g |-> Panics(two.g), addr |-> 0]
                            ELSE [g |-> two.g, addr |-> ElemAddr(two.x, i)]
        [] x.e = "lit" -> LET v == Eval(g, x) IN [g |-> New_(v.g, v.v), addr |-> Len(v.g.cells) + 1]

Make(g, t, content, cap) ==
  Result([g EXCEPT !.cells = @ \o content \o [i \in 1..cap - Len(content) |-> ZeroOf(Elem(t))]],
         [t |-> t, v |-> <<Len(content)>> \o [i \in 1..cap |-> Len(g.cells) + i]])
GoAppend(g, s, vs) ==
  LET n == SliceLen(s) + Len(vs)
  IN  IF n > SliceCap(s) THEN Make(g, s.t, Elements(g, s) \o vs, appendCap(SliceCap(s), n))
      ELSE Result(StoreAll(g, [j \in DOMAIN vs |-> ElemAddr(s, SliceLen(s) + j - 1)], vs), [s EXCEPT !.v[1] = n])

\* The functions that programs call: of a number, of a struct it changes, of an interface, of nothing.
GoCall(g, f, args) ==
  LET g1 == [g EXCEPT !.cells[g.vars["g"]].v = <<Wrap("int", @[1] + 1)>>]
  IN  CASE f.name = "double" -> [g |-> g, v |-> <<Num("int", 2 * args[1].v[1])>>]
        [] f.name = "change" -> [g |-> g, v |-> <<Number("T", 1), Num("int", 1)>>]
        [] f.name = "id" -> [g |-> g, v |-> args]
        [] f.name = "next" -> [g |-> g1, v |-> <<g1.cells[g.vars["g"]]>>]
EvalCall(g, x) == LET args == EvalAll(g, x.args)
                  IN  IF args.g.panic THEN [g |-> args.g, v |-> [i \in DOMAIN x.f.out |-> ZeroOf(x.f.out[i])]]
                      ELSE GoCall(args.g, x.f, args.v)

EvalUnary(g, x) ==
  LET y == Eval(g, x.x)
      of(v) == Result(y.g, v)
      at == Place(g, IF x.op = "&" THEN x.x ELSE x)
  IN  CASE x.op = "!" -> of(Truth(~True(y.v))) [] x.op = "-" -> of(Num(x.t, -y.v.v[1])) [] x.op = "+" -> y
        [] x.op = "^" -> of(Num(x.t, -1 - y.v.v[1]))
        [] x.op \in {"zero", "not zero"} -> of(Truth(IsZero(y.g, y.v) = (x.op = "zero")))
        [] x.op = "*" -> IF at.g.panic THEN Fails(at.g, x.t) ELSE Result(at.g, at.g.cells[at.addr])
        [] x.op = "&" -> Result(at.g, Number(x.t, at.addr))
EvalBinary(g, x) ==
  LET left == Eval(g, x.x)
      both == EvalTwo(g, x.x, x.y)
      of(v) == Result(both.g, v)
  IN  CASE x.op \in {"&&", "||"} -> IF True(left.v) = (x.op = "||") THEN left ELSE Eval(left.g, x.y)
        [] x.op \in {"==", "!=", "<", "<=", ">", ">="} -> of(Truth(GoCompare(x.op, both.x, both.y)))
        [] x.op \in {"contains", "not contains"} -> of(Truth(GoContains(both.g, both.x, both.y) = (x.op = "contains")))
        [] OTHER -> GoArithmetic(both.g, x.op, x.t, both.x, both.y)
EvalSlicing(g, x) ==
  LET base == EvalTwo(g, x.x, x.low)
      high == EvalAll(base.g, x.high)
      s == base.x
      isString == x.t = "string"
      lo == base.y.v[1]
      hi == IF x.high # <<>> THEN high.v[1].v[1] ELSE IF isString THEN Len(s.v) ELSE SliceLen(s)
      max == IF isString THEN Len(s.v) ELSE SliceCap(s)
  IN  IF lo < 0 \/ hi < lo \/ hi > max THEN Fails(high.g, x.t)
      ELSE Result(high.g, [s EXCEPT !.v = IF isString THEN SubSeq(@, lo + 1, hi)
                                          ELSE <<hi - lo>> \o SubSeq(@, lo + 2, Len(@))])
EvalLiteral(g, x) ==
  LET vs == EvalAll(g, x.elems)
      ks == EvalAll(vs.g, x.keys)
      n == Len(x.elems)
  IN  CASE Kind(x.t) = "slice" -> Make(vs.g, x.t, vs.v, n)
        [] Kind(x.t) = "struct" -> Result(vs.g, Number(x.t, IF n = 0 THEN 0 ELSE vs.v[1].v[1]))
        [] Kind(x.t) = "map" -> Result(New_(ks.g, [t |-> x.t, v |-> [i \in 1..n |-> <<ks.v[i].v, vs.v[i].v[1]>>]]),
                                       Number(x.t, Len(ks.g.cells) + 1))

\* A panic ends the evaluation, whatever the value then is.
Eval(g, x) ==
  LET y == Eval(g, x.x)
      at == Place(g, x)
      two == EvalTwo(g, x.x, x.i)
      args == EvalAll(y.g, x.args)
      copied == EvalTwo(g, x.x, x.y)
      n == Common(copied.x, copied.y)
  IN  CASE g.panic -> Result(g, ZeroOf(x.t))
        [] ~g.panic /\ x.e = "const" -> Result(g, IF x.nil THEN ZeroOf(x.t) ELSE [t |-> x.t, v |-> x.v])
        [] ~g.panic /\ x.e = "var" -> Result(g, g.cells[g.vars[x.n]])
        [] ~g.panic /\ x.e = "un" -> EvalUnary(g, x)
        [] ~g.panic /\ x.e = "bin" -> EvalBinary(g, x)
        [] ~g.panic /\ x.e = "index" /\ x.x.t = "map" -> Result(two.g, Num("int", Entry(two.g, two.x, two.y.v)))
        [] ~g.panic /\ x.e = "index" /\ x.x.t = "string" ->
             IF two.y.v[1] \in 0..Len(two.x.v) - 1 THEN Result(two.g, Num("uint8", two.x.v[two.y.v[1] + 1])) ELSE Fails(two.g, x.t)
        [] ~g.panic /\ x.e = "index" /\ Kind(x.x.t) = "slice" -> IF at.g.panic THEN Fails(at.g, x.t) ELSE Result(at.g, at.g.cells[at.addr])
        [] ~g.panic /\ x.e = "field" -> IF Kind(x.x.t) = "pointer"
             THEN (IF at.g.panic THEN Fails(at.g, x.t) ELSE Result(at.g, Num("int", at.g.cells[at.addr].v[1])))
             ELSE Result(y.g, Num("int", y.v.v[1]))
        [] ~g.panic /\ x.e = "lit" -> EvalLiteral(g, x)
        [] ~g.panic /\ x.e = "conv" -> Result(y.g, GoConvert(x.t, y.v))
        [] ~g.panic /\ x.e = "assert" -> IF y.v.t = x.t THEN y ELSE Fails(y.g, x.t)
        [] ~g.panic /\ x.e = "slicing" -> EvalSlicing(g, x)
        [] ~g.panic /\ x.e = "call" -> LET r == EvalCall(g, x) IN Result(r.g, r.v[1])
        [] ~g.panic /\ x.e = "append" -> GoAppend(args.g, y.v, IF x.dots THEN Elements(args.g, args.v[1]) ELSE args.v)
        [] ~g.panic /\ x.e = "len" -> Result(y.g, Num("int", IF y.v.t = "string" THEN Len(y.v.v) ELSE SliceLen(y.v)))
        [] ~g.panic /\ x.e = "cap" -> Result(y.g, Num("int", SliceCap(y.v)))
        [] ~g.panic /\ x.e = "copy" ->
             Result(StoreAll(copied.g, [i \in 1..n |-> ElemAddr(copied.x, i - 1)], Elements(copied.g, copied.y)), Num("int", n))
        [] ~g.panic /\ x.e = "make" /\ Kind(x.t) = "slice" ->
             IF y.v.v[1] < 0 THEN Fails(y.g, x.t) ELSE Make(y.g, x.t, [i \in 1..y.v.v[1] |-> ZeroOf(Elem(x.t))], y.v.v[1])
        [] ~g.panic /\ x.e = "make" /\ x.t = "map" -> Result(New_(g, [t |-> "map", v |-> <<>>]), Number("map", Len(g.cells) + 1))
        [] ~g.panic /\ x.e = "new" -> Result(New_(g, ZeroOf(Elem(x.t))), Number(x.t, Len(g.cells) + 1))

----------------------------------------------------------------------------
(* Statements                                                              *)

\* First the operands of index expressions and pointer indirections on the left and the values on the
\* right are evaluated, in the usual order; then the assignments are made from left to right.
Left(r, x) ==
  LET two == EvalTwo(r.g, x.x, x.i)
      at == Place(r.g, x)
  IN  CASE x.e = "blank" -> [r EXCEPT !.to = Append(@, [at |-> 0, key |-> <<>>, t |-> "blank"])]
        [] x.e = "index" /\ x.x.t = "map" ->
             [g |-> two.g, to |-> Append(r.to, [at |-> Deref(two.x), key |-> two.y.v, t |-> "entry"])]
        [] OTHER -> [g |-> at.g, to |-> Append(r.to, [at |-> at.addr, key |-> <<>>, t |-> x.t])]
Write(g, to, v) ==
  CASE g.panic \/ to.t = "blank" -> g
    [] ~g.panic /\ to.t = "entry" /\ to.at = 0 -> Panics(g)
    [] ~g.panic /\ to.t = "entry" /\ to.at # 0 ->
         [g EXCEPT !.cells[to.at].v = SelectSeq(@, LAMBDA p : p[1] # to.key) \o << <<to.key, v.v[1]>> >>]
    [] ~g.panic /\ to.t \notin {"blank", "entry"} -> Put_(g, to.t, to.at, v)
WriteAll(g, to, vs) == FoldLeft(LAMBDA gg, i : Write(gg, to[i], vs[i]), g, [i \in DOMAIN to |-> i])

\* The values of the right side, that are two for one expression of a certain form.
Values_(g, n, rhs) ==
  LET x == rhs[1]
      two == EvalTwo(g, x.x, x.i)
      y == Eval(g, x.x)
  IN  CASE Len(rhs) = n -> EvalAll(g, rhs)
        [] Len(rhs) < n /\ x.e = "call" -> EvalCall(g, x)
        [] Len(rhs) < n /\ x.e = "index" ->
             [g |-> two.g, v |-> <<Num("int", Entry(two.g, two.x, two.y.v)), Truth(Has(two.g, two.x, two.y.v))>>]
        [] Len(rhs) < n /\ x.e = "assert" ->
             [g |-> y.g, v |-> <<IF y.v.t = x.t THEN y.v ELSE ZeroOf(x.t), Truth(y.v.t = x.t)>>]

Declare(g, v, redeclare) ==
  IF v.n = "_" \/ (redeclare /\ v.n \in DOMAIN g.vars) THEN g
  ELSE [New_(g, ZeroOf(v.t)) EXCEPT !.vars = (v.n :> Len(g.cells) + 1) @@ @]

RECURSIVE Run(_, _)
Run(g, st) ==
  LET left == FoldLeft(Left, [g |-> g, to |-> <<>>], st.lhs)
      right == Values_(left.g, Len(st.lhs), st.rhs)
      old == Eval(left.g, st.lhs[1])
      value == Eval(left.g, st.rhs[1])
      operated == GoArithmetic(value.g, st.op, st.lhs[1].t, old.v, value.v)
      vs == Values_(g, Len(st.names), st.rhs)
      declared == FoldLeft(LAMBDA gg, v : Declare(gg, v, st.redeclare), vs.g, st.names)
      cond == Eval(g, st.cond)
  IN  CASE st.s = "=" /\ st.op = "" -> WriteAll(right.g, left.to, right.v)
        [] st.s = "=" /\ st.op # "" -> Write(operated.g, left.to[1], operated.v)
        [] st.s = "var" -> IF vs.g.panic THEN vs.g
                           ELSE WriteAll(declared, [i \in DOMAIN st.names |->
                                  IF st.names[i].n = "_" THEN [at |-> 0, key |-> <<>>, t |-> "blank"]
                                  ELSE [at |-> declared.vars[st.names[i].n], key |-> <<>>, t |-> st.names[i].t]], vs.v)
        [] st.s = "if" -> IF cond.g.panic \/ ~True(cond.v) THEN cond.g ELSE Run(cond.g, st.then)
        [] st.s = "expr" /\ st.x.e = "delete" ->
             LET two == EvalTwo(g, st.x.x, st.x.y)
             IN  IF IsNil(two.x) THEN two.g ELSE [two.g EXCEPT !.cells[Deref(two.x)].v = SelectSeq(@, LAMBDA p : p[1] # two.y.v)]
        [] st.s = "expr" /\ st.x.e = "call" -> EvalCall(g, st.x).g
        [] st.s = "expr" /\ st.x.e = "copy" -> Eval(g, st.x).g
=============================================================================
