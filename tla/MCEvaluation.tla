---------------------------- MODULE MCEvaluation ----------------------------
(* Suites of programs for Evaluation: their variables with the values they start with, and statements. *)
EXTENDS Evaluation, Assignments, Disassembler

Const(t, n) == [e |-> "const", t |-> t, v |-> <<n>>, nil |-> FALSE]
I(n) == Const("int", n)
Str(s) == [e |-> "const", t |-> "string", v |-> s, nil |-> FALSE]
Nil_(t) == [e |-> "const", t |-> t, v |-> <<0>>, nil |-> TRUE]
V(n, t) == [e |-> "var", t |-> t, n |-> n]
Bin(op, x, y, t) == [e |-> "bin", op |-> op, x |-> x, y |-> y, t |-> t]
Un(op, x, t) == [e |-> "un", op |-> op, x |-> x, t |-> t]
At_(x, i) == [e |-> "index", x |-> x, i |-> i, t |-> Elem(x.t)]
Dot(x) == [e |-> "field", x |-> x, t |-> "int"]
Lit(t, elems) == [e |-> "lit", t |-> t, elems |-> elems, keys |-> <<>>]
MapLit(keys, elems) == [e |-> "lit", t |-> "map", elems |-> elems, keys |-> keys]
Conv(t, x) == [e |-> "conv", t |-> t, x |-> x]
As(x, t) == [e |-> "assert", t |-> t, x |-> x]
Cut(x, low, high) == [e |-> "slicing", t |-> x.t, x |-> x, low |-> low, high |-> high]
F(name, in, out) == [name |-> name, in |-> in, out |-> out]
CallOf(f, args) == [e |-> "call", f |-> f, args |-> args, t |-> f.out[1]]
Double(x) == CallOf(F("double", <<"int">>, <<"int">>), <<x>>)
Next_ == CallOf(F("next", <<>>, <<"int">>), <<>>)
Id(x) == CallOf(F("id", <<"any">>, <<"any">>), <<x>>)
Change(x) == CallOf(F("change", <<"T">>, <<"T", "int">>), <<x>>)
AppendTo(x, args, dots) == [e |-> "append", t |-> x.t, x |-> x, args |-> args, dots |-> dots]
LenOf(x) == [e |-> "len", t |-> "int", x |-> x]
CapOf(x) == [e |-> "cap", t |-> "int", x |-> x]
CopyOf(x, y) == [e |-> "copy", t |-> "int", x |-> x, y |-> y]
Make_(t, n) == [e |-> "make", t |-> t, x |-> n]
NewOf(t) == [e |-> "new", t |-> t]

Blank_ == [e |-> "blank", t |-> "blank"]
Set_(l, r) == [s |-> "=", op |-> "", lhs |-> <<l>>, rhs |-> <<r>>]
SetBoth(l1, l2, r1, r2) == [s |-> "=", op |-> "", lhs |-> <<l1, l2>>, rhs |-> <<r1, r2>>]
SetTwo(l1, l2, x) == [s |-> "=", op |-> "", lhs |-> <<l1, l2>>, rhs |-> <<x>>]
SetOp(l, op, r) == [s |-> "=", op |-> op, lhs |-> <<l>>, rhs |-> <<r>>]
Name_(n, t, indirect) == [n |-> n, t |-> t, indirect |-> indirect]
Var_(names, rhs, redeclare) == [s |-> "var", names |-> names, rhs |-> rhs, redeclare |-> redeclare]
When(cond, then) == [s |-> "if", cond |-> cond, then |-> then]
Do(x) == [s |-> "expr", x |-> x]

D(n, t, place, v) == [n |-> n, t |-> t, place |-> place, cell |-> [t |-> t, v |-> v]]
AnyVar(n, place, t, v) == [n |-> n, t |-> "any", place |-> place, cell |-> [t |-> t, v |-> v]]
Heap(t, v) == D("", t, "heap", v)

----------------------------------------------------------------------------
(* Numbers: an operation of every kind, on variables of every place        *)

Extremes(t) == CASE t = "int" -> <<-(2^(WordBits - 1)), -1, 0, 2, 2^(WordBits - 1) - 1>> [] t = "uint" -> <<0, 2, 2^WordBits - 1>>
                 [] t = "int8" -> <<-(2^(ByteBits - 1)), -1, 3>> [] t = "uint8" -> <<0, 2, 2^ByteBits - 1>>
                 [] t \in Floats -> <<-8, 0, 7>>
Operations(t) == IF t \in Floats THEN <<"+", "-", "*">> ELSE <<"+", "-", "*", "/", "%", "&", "|", "^", "&^">>
Order == <<"==", "!=", "<", "<=", ">", ">=">>
Convertible == <<"int", "int8", "uint8", "uint", "float64", "float32">>

Each(seq, op(_)) == [i \in DOMAIN seq |-> op(seq[i])]
NumberSteps(t, x, y, z, b) ==
  Each(Operations(t), LAMBDA op : Set_(z, Bin(op, x, y, t)))
  \o Each(Operations(t), LAMBDA op : Set_(z, Bin(op, x, Const(t, 2), t)))
  \o Each(Operations(t), LAMBDA op : SetOp(x, op, y))
  \o Each(Order, LAMBDA op : Set_(b, Bin(op, x, y, "bool")))
  \o Each(Order, LAMBDA op : When(Bin(op, x, Const(t, 0), "bool"), Set_(z, y)))
  \o <<Set_(z, Un("-", x, t)), Set_(z, Bin("-", Bin("+", x, y, t), Bin("*", y, x, t), t))>>
  \o (IF t \in Floats THEN <<>> ELSE <<Set_(z, Un("^", x, t))>>)
NumberSuite(t, n1, n2, px, py, pz) ==
  [vars |-> <<D("x", t, px, <<n1>>), D("y", t, py, <<n2>>), D("z", t, pz, <<0>>), D("b", "bool", pz, <<0>>)>>,
   steps |-> <<NumberSteps(t, V("x", t), V("y", t), V("z", t), V("b", "bool"))>>]
NumberSuites ==
  LET of(t, i, j, p) == NumberSuite(t, Extremes(t)[i], Extremes(t)[j], p[1], p[2], p[3])
      types == <<"int", "uint", "int8", "uint8", "float64", "float32">>
  IN  FlattenSeq(Each(types, LAMBDA t : FlattenSeq([i \in DOMAIN Extremes(t) |-> [j \in DOMAIN Extremes(t) |->
        of(t, i, j, IF (i + j) % 2 = 0 THEN <<"local", "local", "local">> ELSE <<"local", "global", "local">>)]])))

----------------------------------------------------------------------------
(* Data: variables of every type and place                                 *)

Data(a, ca, ga) ==
  << D("i", "int", "local", <<1>>), D("c", "int", "captured", <<2>>), D("g", "int", "global", <<0>>),
     D("p", "T", "local", <<3>>), D("cp", "T", "captured", <<4>>), D("gp", "T", "global", <<5>>),
     D("e", "*T", "local", <<21>>), D("r", "*int", "local", <<2>>), D("s", "[]int", "local", <<2, 16, 17, 18>>),
     D("q", "[]T", "local", <<2, 19, 20>>), D("gs", "[]int", "global", <<1, 22>>), D("t", "string", "local", <<2>>),
     D("b", "bool", "local", <<0>>), D("n", "*int", "local", <<0>>), D("en", "*T", "local", <<0>>),
     Heap("int", <<6>>), Heap("int", <<7>>), Heap("int", <<8>>), Heap("T", <<9>>), Heap("T", <<10>>), Heap("T", <<11>>),
     Heap("int", <<12>>), AnyVar("a", "local", a[1], a[2]), AnyVar("ca", "captured", ca[1], ca[2]),
     AnyVar("ga", "global", ga[1], ga[2]), D("u", "uint8", "local", <<2>>), D("m", "map", "local", <<29>>),
     D("ct", "string", "captured", <<>>), Heap("map", << <<(<<2>>), 5>> >>) >>

vi == V("i", "int")
vc == V("c", "int")
vg == V("g", "int")
vp == V("p", "T")
vcp == V("cp", "T")
vgp == V("gp", "T")
ve == V("e", "*T")
vr == V("r", "*int")
vs == V("s", "[]int")
vq == V("q", "[]T")
vgs == V("gs", "[]int")
vt == V("t", "string")
vb == V("b", "bool")
vn == V("n", "*int")
ven == V("en", "*T")
va == V("a", "any")
vca == V("ca", "any")
vga == V("ga", "any")
vu == V("u", "uint8")
vm == V("m", "map")
vct == V("ct", "string")

IntTargets == <<vi, vc, vg, Dot(vp), Dot(vcp), Dot(vgp), Dot(ve), At_(vs, I(1)), At_(vgs, vg), Un("*", vr, "int"), At_(vm, Str(<<2>>)),
  At_(vm, vct), Dot(At_(vq, vi)), Dot(Un("*", ve, "T")), Blank_>>
IntFailing == <<At_(vs, Bin("+", vi, vi, "int")), Dot(ven), Dot(Un("*", ven, "T")), Bin("/", vi, vg, "int"),
  At_(Cut(vs, vi, <<>>), vi), As(va, "int"), Un("*", vn, "int")>>
IntValues == <<I(1), I(15), vi, vc, vg, Dot(vp), Dot(vcp), Dot(vgp), Dot(ve), Dot(At_(vq, vg)), At_(vs, vi), At_(vs, I(0)), At_(vgs, vg), Un("*", vr, "int"),
  At_(vm, vt), At_(vm, vct), Un("-", vc, "int"), Un("+", vc, "int"), Bin("+", vi, vc, "int"), Bin("-", vc, vi, "int"), Bin("*", At_(vs, vi), vg, "int"),
  Bin("<<", vc, I(2), "int"), Bin(">>", vc, vi, "int"), Bin("+", Bin("+", vi, Double(vc), "int"), Double(vi), "int"),
  Double(Double(vi)), Next_, LenOf(vs), LenOf(vt), CapOf(vs), LenOf(vq), As(Conv("any", vi), "int"), Conv("int", vu), CopyOf(vs, vgs),
  CopyOf(Cut(vs, vi, <<>>), vs), Bin("%", I(9), vc, "int"), Bin("&^", vc, vi, "int")>> \o IntFailing
StructTargets == <<vp, vcp, vgp, Un("*", ve, "T"), At_(vq, vi), Blank_>>
StructValues == <<vp, vcp, vgp, Un("*", ve, "T"), At_(vq, vg), At_(vq, I(1)), Lit("T", <<>>), Lit("T", <<I(7)>>), Lit("T", <<vc>>),
  Lit("T", <<Dot(vcp)>>), As(va, "T"), As(Conv("any", vgp), "T"), Un("*", Un("&", Lit("T", <<vi>>), "*T"), "T"), Un("*", ven, "T"), Id(vp)>>

AnyTargets == <<va, vca, vga, Un("*", Un("&", vca, "*any"), "any"), Blank_>>
AnyValues == <<I(1), Nil_("any"), vi, vc, vg, vt, vp, vcp, vgp, va, vca, vga, Str(<<1>>), vu, vb, vs, vr, vct, At_(vq, vi), Dot(vp), At_(vs, vi), At_(vm, vt),
  Bin("==", vi, vc, "bool"), Un("!", vb, "bool"), Un("-", vi, "int"), Bin("+", vi, vc, "int"), Bin("*", vu, vu, "uint8"), Bin("+", vt, vct, "string"),
  Bin("&&", vb, vb, "bool"), Un("zero", vi, "bool"), Un("not zero", vt, "bool"), Un("^", vu, "uint8"), Lit("T", <<vi>>), Lit("T", <<>>), Lit("[]int", <<vi>>),
  LenOf(vs), CapOf(vs), Double(vi), Id(vi), Id(vca), Un("*", vr, "int"), Un("*", ve, "T"), Un("&", vc, "*int"), Un("&", vg, "*int"), Un("&", At_(vs, vi), "*int"),
  Un("&", Dot(vcp), "*int"), Un("&", Lit("T", <<vi>>), "*T"), Conv("any", vi), Conv("int", vu), Conv("string", vi), Cut(vs, vi, <<>>), Cut(vt, vg, <<vi>>),
  AppendTo(vs, <<vi>>, FALSE), AppendTo(vs, <<vs>>, TRUE), MapLit(<<vt>>, <<vi>>), Make_("[]int", I(2)), NewOf("*int"), As(vga, "string"), As(va, "int"), Change(vp)>>
BoolValues == Each(Order, LAMBDA op : Bin(op, vt, vct, "bool")) \o Each(<<"==", "!=">>, LAMBDA op : Bin(op, va, vca, "bool"))
  \o Each(<<"==", "!=">>, LAMBDA op : Bin(op, va, I(3), "bool")) \o Each(<<"==", "!=">>, LAMBDA op : Bin(op, vi, va, "bool"))
  \o Each(<<"==", "!=">>, LAMBDA op : Bin(op, vga, Nil_("any"), "bool")) \o Each(<<"==", "!=">>, LAMBDA op : Bin(op, Nil_("any"), vca, "bool"))
  \o Each(<<"==", "!=">>, LAMBDA op : Bin(op, va, Nil_("any"), "bool")) \o Each(<<"==", "!=">>, LAMBDA op : Bin(op, vn, Nil_("*int"), "bool"))
  \o Each(<<"==", "!=">>, LAMBDA op : Bin(op, vp, vcp, "bool")) \o Each(Order, LAMBDA op : Bin(op, LenOf(vt), vi, "bool"))
  \o Each(Order, LAMBDA op : Bin(op, I(1), LenOf(vt), "bool")) \o Each(<<"==", "!=">>, LAMBDA op : Bin(op, I(0), vg, "bool"))
  \o Each(<<"==", "!=">>, LAMBDA op : Bin(op, vu, Const("uint8", 0), "bool")) \o Each(<<"&&", "||">>, LAMBDA op : Bin(op, Bin("<", vi, vc, "bool"), vb, "bool"))
  \o Each(<<"&&", "||">>, LAMBDA op : Bin(op, vb, Bin("==", At_(vs, I(1)), I(7), "bool"), "bool")) \o Each(<<"&&", "||">>, LAMBDA op : Bin(op, vb, Bin("==", At_(vs, I(5)), I(7), "bool"), "bool"))
  \o Each(<<"contains", "not contains">>, LAMBDA op : Bin(op, vs, I(7), "bool")) \o Each(<<"contains", "not contains">>, LAMBDA op : Bin(op, vt, vct, "bool"))
  \o Each(<<"contains", "not contains">>, LAMBDA op : Bin(op, vt, vi, "bool")) \o Each(<<"contains", "not contains">>, LAMBDA op : Bin(op, vm, vt, "bool"))
  \o Each(<<"zero", "not zero">>, LAMBDA op : Un(op, vi, "bool")) \o Each(<<"zero", "not zero">>, LAMBDA op : Un(op, vg, "bool"))
  \o Each(<<"zero", "not zero">>, LAMBDA op : Un(op, vct, "bool")) \o Each(<<"zero", "not zero">>, LAMBDA op : Un(op, vs, "bool"))
  \o Each(<<"zero", "not zero">>, LAMBDA op : Un(op, vp, "bool")) \o Each(<<"zero", "not zero">>, LAMBDA op : Un(op, vca, "bool"))
  \o Each(<<"zero", "not zero">>, LAMBDA op : Un(op, vga, "bool")) \o <<vb, Un("!", vb, "bool"), Un("!", Bin("<", vi, vc, "bool"), "bool")>>
SliceValues == <<AppendTo(vs, <<I(1)>>, FALSE), AppendTo(vs, <<I(1), vi>>, FALSE), AppendTo(vs, <<vs>>, TRUE), AppendTo(vgs, <<vs>>, TRUE),
  Cut(vs, I(1), <<>>), Cut(vs, vi, <<vc>>), Cut(vs, I(0), <<I(3)>>), Cut(vs, I(0), <<I(4)>>), Make_("[]int", vc), Make_("[]int", I(1)), Make_("[]int", Un("-", vi, "int")),
  Lit("[]int", <<I(0), vi, I(15)>>), vgs, vs>>
StructSlices == <<AppendTo(vq, <<vp>>, FALSE), AppendTo(vq, <<At_(vq, I(0))>>, FALSE), AppendTo(vq, <<At_(vq, I(1)), vgp>>, FALSE), AppendTo(vq, <<vq>>, TRUE), AppendTo(Cut(vq, I(0), <<vi>>), <<At_(vq, I(0))>>, FALSE),
  Cut(vq, I(1), <<>>), Lit("[]T", <<vp, vcp>>), Lit("[]T", <<At_(vq, I(0)), Lit("T", <<I(1)>>)>>)>>
Strings_ == <<vt, vct, Bin("+", vt, vct, "string"), Bin("+", vt, Str(<<1>>), "string"), Cut(vt, I(1), <<>>), Cut(vt, vi, <<vc>>), Conv("string", vi), As(vga, "string")>>

Cross(targets, values, op(_, _)) == FlattenSeq(Each(targets, LAMBDA l : Each(values, LAMBDA x : op(l, x))))
WithAny(a, ca, ga, steps) == [vars |-> Data(a, ca, ga), steps |-> steps]
Suite(steps) == WithAny(<<"int", <<3>>>>, <<"nil", <<>>>>, <<"string", <<2>>>>, steps)
Pointers_ == <<Un("&", vc, "*int"), Un("&", vg, "*int"), Un("&", At_(vs, vi), "*int"), Un("&", Dot(vp), "*int"), Un("&", Dot(vcp), "*int"),
  Un("&", Dot(vgp), "*int"), Un("&", Dot(ve), "*int"), Un("&", Dot(At_(vq, vg)), "*int"), Un("&", Un("*", vr, "int"), "*int"), vr, vn, NewOf("*int"), Un("&", Dot(ven), "*int"),
  Un("&", Un("*", vn, "int"), "*int")>>
StructPointers == <<Un("&", vcp, "*T"), Un("&", vgp, "*T"), Un("&", At_(vq, vi), "*T"), Un("&", Lit("T", <<>>), "*T"), Un("&", Lit("T", <<vi>>), "*T"), Un("&", Un("*", ve, "T"), "*T"), ve, NewOf("*T")>>
AssignOps == <<"+", "-", "*", "/", "%", "&", "|", "^", "&^">>
Some == <<vi, vg, At_(vs, vi), Dot(vp), Dot(vgp), At_(vgs, I(0)), At_(vm, vct)>>
OpSuite == Suite(<<FlattenSeq(Each(SubSeq(IntTargets, 1, 14), LAMBDA l : Cross(<<"+", "-", "&">>, <<I(2), vc, Dot(vgp), Double(vi), At_(vs, I(5))>>, LAMBDA op, x : SetOp(l, op, x))))
   \o Cross(<<vt, vct>>, Strings_, LAMBDA l, x : SetOp(l, "+", x))>>)
BothSuite == Suite(<<FlattenSeq(Cross(Some, Some, LAMBDA l1, l2 : Cross(<<I(1), vc, At_(vs, I(0)), Next_>>, <<vi, I(2), At_(vs, vi), Next_>>, LAMBDA x, y : SetBoth(l1, l2, x, y))))>>)
Ts == <<vp, vcp, vgp, At_(vq, I(0)), At_(vq, I(1)), Un("*", ve, "T")>>
Anys == <<va, vca, vga>>
TupleSteps == FlattenSeq(Cross(Ts, Ts, LAMBDA l1, l2 : <<SetBoth(l1, l2, l2, l1), SetBoth(l1, l2, Lit("T", <<vi>>), l1)>>))
  \o FlattenSeq(Cross(Anys, Anys, LAMBDA l1, l2 : <<SetBoth(l1, l2, l2, l1), SetBoth(l1, l2, vi, l1), SetBoth(l1, l2, vt, vi)>>))
  \o FlattenSeq(Each(Ts, LAMBDA x : <<SetTwo(x, vi, Change(x)), SetTwo(vp, vg, Change(x)), SetTwo(vcp, Blank_, Change(x)), SetTwo(x, vb, As(va, "T")),
                                      SetTwo(va, vi, Change(x)), SetTwo(vga, vca, Change(x)), Set_(x, Change(x)), Set_(va, Id(x))>>))
  \o Cross(<<vi, vc, vg, At_(vs, vi), Un("*", vr, "int"), va, vca, Blank_>>, <<At_(vm, vt), At_(vm, vct), As(va, "int"), As(vca, "int"), As(vga, "int")>>, LAMBDA l, x : SetTwo(l, vb, x))
  \o Cross(<<"==", "!=">>, <<va, vca, vga, vi, Nil_("any")>>, LAMBDA op, x : Set_(vb, Bin(op, vca, x, "bool")))
  \o <<Set_(vi, As(vca, "int")), Set_(vt, As(vca, "string")), Set_(vca, va), Set_(va, vca), SetTwo(vt, vb, As(vca, "string"))>>
W(n, t) == Name_(n, t, FALSE)
WC(n, t) == Name_(n, t, TRUE)
DeclSteps == <<Var_(<<W("w", "int")>>, <<vc>>, TRUE), Var_(<<W("w", "int")>>, <<I(3)>>, FALSE), Var_(<<WC("w", "int")>>, <<vi>>, TRUE), Var_(<<WC("w", "T")>>, <<At_(vq, vi)>>, TRUE), Var_(<<W("w", "T")>>, <<vcp>>, TRUE),
  Var_(<<W("w", "any")>>, <<vi>>, FALSE), Var_(<<WC("w", "any")>>, <<vt>>, FALSE), Var_(<<W("w", "int"), W("i", "int")>>, <<vi, I(2)>>, TRUE), Var_(<<W("i", "int"), W("w", "int")>>, <<I(2), vi>>, TRUE),
  Var_(<<W("w", "T"), W("z", "T")>>, <<At_(vq, I(0)), At_(vq, I(0))>>, TRUE), Var_(<<WC("w", "T"), W("z", "int")>>, <<Change(vp)>>, TRUE), Var_(<<W("w", "int"), W("z", "bool")>>, <<At_(vm, vt)>>, TRUE), Var_(<<WC("w", "int"), WC("z", "bool")>>, <<As(va, "int")>>, TRUE),
  Var_(<<W("w", "any"), W("z", "any")>>, <<vi, vt>>, FALSE), Var_(<<W("_", "int"), W("z", "bool")>>, <<As(vca, "int")>>, TRUE)>>
DeclSuite == Suite(<<DeclSteps, <<Set_(vi, I(5)), Set_(At_(vq, I(0)), vp), SetBoth(vi, vc, vc, vi), Do(Next_), Do(CopyOf(vs, vgs)), Do([e |-> "delete", t |-> "map", x |-> vm, y |-> vt]), Do(Change(vcp)), Set_(Dot(vp), I(1))>>>>)
\* Statements after which what is shared shows.
Later == <<Set_(vp, Lit("T", <<I(7)>>)), Set_(vcp, Lit("T", <<I(7)>>)), Set_(vgp, Lit("T", <<I(7)>>)), Set_(At_(vq, I(0)), vp),
  Set_(Un("*", vr, "int"), I(3)), Set_(Dot(ve), I(3)), Set_(vc, I(8)), SetOp(Un("*", vr, "int"), "+", I(1)), Set_(vs, AppendTo(vs, <<vi>>, FALSE))>>
Shares == Cross(<<vr>>, Pointers_, Set_) \o Cross(<<ve>>, StructPointers, Set_) \o Cross(<<vp, vcp, vgp>>, SubSeq(StructValues, 1, 6), Set_)
  \o <<Set_(vq, AppendTo(vq, <<vp>>, FALSE)), Set_(vs, Cut(vs, I(0), <<I(1)>>))>>
\* A count is less than the bits of the word, equal to them, more, or negative.
Minus(x) == Un("-", x, "int")
ShiftSteps == Cross(<<vi, vc>>, FlattenSeq(Cross(<<"<<", ">>">>, <<vi, vc, vg, I(0), I(1), I(4), I(5), I(6), Minus(vi), Minus(vc), Minus(vg)>>, LAMBDA op, x : <<Bin(op, vi, x, "int"), Bin(op, Un("-", vc, "int"), x, "int")>>)), Set_)
  \o Cross(<<vu>>, FlattenSeq(Cross(<<"<<", ">>">>, <<vi, vc, I(0), I(3), I(6), Minus(vi), Minus(vg)>>, LAMBDA op, x : <<Bin(op, vu, x, "uint8"), Bin(op, Un("^", vu, "uint8"), x, "uint8")>>)), Set_)
DataSuites ==
  <<Suite(<<Cross(IntTargets, IntValues, Set_)>>), Suite(<<Cross(StructTargets, SubSeq(StructValues, 1, 14), Set_)>>),
    Suite(<<Cross(AnyTargets, AnyValues, Set_)>>), Suite(<<Cross(<<vb>>, BoolValues, Set_) \o Each(BoolValues, LAMBDA x : When(x, Set_(vi, I(2))))>>),
    Suite(<<Cross(<<vs, vgs>>, SliceValues, Set_) \o Cross(<<vq>>, StructSlices, Set_) \o Cross(<<vt, vct>>, Strings_, Set_)>>),
    OpSuite, BothSuite, Suite(<<Shares, Later>>), Suite(<<ShiftSteps>>), Suite(<<TupleSteps>>), DeclSuite,
    WithAny(<<"int", <<1>>>>, <<"int", <<1>>>>, <<"int", <<1>>>>, <<TupleSteps>>)>>

\* The constants of Evaluation that are the emitter, Go, the machine and the disassembler.
MCEmitted(b, st) == LET emitted == emitStatement(b, st) IN emitted
MCInGo(g, st) == LET ran == Run(g, st) IN ran
MCExecution(m, in) == LET executed == Execute(m, in) IN executed
MCNamed(in) == LET named == disassembleInstruction(in) IN named

MCSuites == NumberSuites \o DataSuites
=============================================================================
