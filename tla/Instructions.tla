---------------------------- MODULE Instructions ----------------------------
(***************************************************************************)
(* The instructions of the virtual machine that compute: the cases of the  *)
(* run loop of src/internal/runtime/run.go on numbers, strings, variables, *)
(* slices, maps, structs, pointers and interfaces.  Calls, channels, range *)
(* loops and panics are in other modules.                                  *)
(*                                                                         *)
(* An instruction is [op, k, a, b, c, x]: k tells that an operand is the   *)
(* value itself and not a register, x is what is not a register: a type, a *)
(* kind, a register file, an index, a condition, the operands of a second  *)
(* word.  Execute is one turn of the loop.                                 *)
(***************************************************************************)
EXTENDS Values, FiniteSetsExt

In(op, k, a, b, c, x) == [op |-> op, k |-> k, a |-> a, b |-> b, c |-> c, x |-> x]

----------------------------------------------------------------------------
(* Arithmetic                                                              *)

Bit(n, i) == (n \div 2^i) % 2
Bits(n) == {i \in 0..WordBits - 1 : Bit(Unsigned(n, WordBits), i) = 1}
OfBits(bits) == Word(MapThenSumSet(LAMBDA i : 2^i, bits))

\* A count of shift is converted to uint: a negative count is a large one.
Shift(n, count) ==
  LET c == Unsigned(count, WordBits)
  IN  [left |-> IF c >= WordBits THEN 0 ELSE Word(n * 2^c),
       right |-> IF c >= WordBits THEN (IF n < 0 THEN -1 ELSE 0) ELSE n \div 2^c]

\* The form on registers a and b, for int and float64.
AddInt(m, in) == setInt(m, in.c, Word(int(m, in.a) + intk(m, in.b, in.k)))
SubInt(m, in) == setInt(m, in.c, Word(int(m, in.a) - intk(m, in.b, in.k)))
MulInt(m, in) == setInt(m, in.c, Word(int(m, in.a) * intk(m, in.b, in.k)))
DivInt(m, in) == IF intk(m, in.b, in.k) = 0 THEN Panic(m)
                 ELSE setInt(m, in.c, Word(Quo(int(m, in.a), intk(m, in.b, in.k))))
RemInt(m, in) == IF intk(m, in.b, in.k) = 0 THEN Panic(m)
                 ELSE LET d == intk(m, in.b, in.k) IN setInt(m, in.c, int(m, in.a) - d * Quo(int(m, in.a), d))
ShlInt(m, in) == setInt(m, in.c, Shift(int(m, in.a), intk(m, in.b, in.k)).left)
ShrInt(m, in) == setInt(m, in.c, Shift(int(m, in.a), intk(m, in.b, in.k)).right)
AddFloat64(m, in) == setFloat(m, in.c, float(m, in.a) + floatk(m, in.b, in.k))
SubFloat64(m, in) == setFloat(m, in.c, float(m, in.a) - floatk(m, in.b, in.k))
MulFloat64(m, in) == setFloat(m, in.c, float(m, in.a) * floatk(m, in.b, in.k))
\* Floating point values are integers here, and so is their quotient; zero divides none of them.
FloatQuo(n, d) == IF d = 0 THEN 0 ELSE Quo(n, d)
DivFloat64(m, in) == setFloat(m, in.c, FloatQuo(float(m, in.a), floatk(m, in.b, in.k)))

\* The form on registers c and b, for any kind: the result is cut to the kind.
Add(m, in) ==
  IF in.x \in Floats THEN setFloat(m, in.c, Round(in.x, floatk(m, in.b, in.k) + float(m, in.c)))
  ELSE setInt(m, in.c, Narrow(in.x, intk(m, in.b, in.k) + int(m, in.c)))
Sub(m, in) ==
  IF in.x \in Floats THEN setFloat(m, in.c, Round(in.x, float(m, in.c) - floatk(m, in.b, in.k)))
  ELSE setInt(m, in.c, Narrow(in.x, int(m, in.c) - intk(m, in.b, in.k)))
Mul(m, in) ==
  IF in.x \in Floats THEN setFloat(m, in.c, Round(in.x, float(m, in.c) * floatk(m, in.b, in.k)))
  ELSE setInt(m, in.c, Narrow(in.x, int(m, in.c) * intk(m, in.b, in.k)))

\* The operands are converted to the kind, the words of uint are read as unsigned.
Operand(t, n) == IF t = "uint" THEN Unsigned(n, WordBits) ELSE Narrow(t, n)
Div(m, in) ==
  LET n == Operand(in.x, int(m, in.c))  d == Operand(in.x, intk(m, in.b, in.k))
  IN  CASE in.x \in Floats -> setFloat(m, in.c, Round(in.x, FloatQuo(float(m, in.c), floatk(m, in.b, in.k))))
        [] d = 0 -> Panic(m) [] OTHER -> setInt(m, in.c, Narrow(in.x, Quo(n, d)))
Rem(m, in) ==
  LET n == Operand(in.x, int(m, in.c))  d == Operand(in.x, intk(m, in.b, in.k))
  IN  IF d = 0 THEN Panic(m) ELSE setInt(m, in.c, Narrow(in.x, n - d * Quo(n, d)))
Shl(m, in) == setInt(m, in.c, Narrow(in.x, Shift(int(m, in.c), intk(m, in.b, in.k)).left))
Shr(m, in) ==
  LET n == int(m, in.c)
  IN  setInt(m, in.c, Word(Shift(IF in.x \in Unsigneds THEN Unsigned(n, WordBits) ELSE n, intk(m, in.b, in.k)).right))
Neg(m, in) ==
  IF in.x \in Floats THEN setFloat(m, in.c, -float(m, in.b)) ELSE setInt(m, in.c, Narrow(in.x, -int(m, in.b)))

And(m, in) == setInt(m, in.c, OfBits(Bits(int(m, in.a)) \cap Bits(intk(m, in.b, in.k))))
AndNot(m, in) == setInt(m, in.c, OfBits(Bits(int(m, in.a)) \ Bits(intk(m, in.b, in.k))))
Or(m, in) == setInt(m, in.c, OfBits(Bits(int(m, in.a)) \cup Bits(intk(m, in.b, in.k))))
Xor(m, in) == LET x == Bits(int(m, in.a))  y == Bits(intk(m, in.b, in.k)) IN setInt(m, in.c, OfBits((x \ y) \cup (y \ x)))

----------------------------------------------------------------------------
(* Conversions, strings and interfaces                                     *)

Replacement == <<0>>   \* the replacement character
RuneString(n) == IF n >= 0 THEN <<n>> ELSE Replacement

\* From a word, signed or not, and from a floating point value.
ConvertInt(m, in) ==
  LET n == int(m, in.a)
  IN  CASE in.x \in Floats -> setFloat(m, in.c, Round(in.x, n))
        [] in.x = "string" -> setString(m, in.c, RuneString(n))
        [] OTHER -> setInt(m, in.c, Narrow(in.x, n))
ConvertUint(m, in) ==
  LET n == Unsigned(int(m, in.a), WordBits)
  IN  CASE in.x \in Floats -> setFloat(m, in.c, Round(in.x, n))
        [] in.x = "string" -> setString(m, in.c, RuneString(n))
        [] OTHER -> setInt(m, in.c, Narrow(in.x, n))
ConvertFloat(m, in) ==
  IF in.x \in Floats THEN setFloat(m, in.c, Round(in.x, float(m, in.a)))
  ELSE setInt(m, in.c, Narrow(in.x, float(m, in.a)))

Concat(m, in) == setString(m, in.c, string(m, in.a) \o string(m, in.b))
Len_(m, in) == setInt(m, in.c, IF in.x = "string" THEN Len(string(m, in.b)) ELSE SliceLen(general(m, in.b)))
Cap(m, in) == setInt(m, in.c, SliceCap(general(m, in.a)))

\* A value of type x in a general register.
Typify(m, in) ==
  LET got == getIntoReflectValue(m, in.b, in.x, in.k)
      new == Alloc(got.m, got.content)
  IN  setGeneral(new, in.c, At(new, in.x, Last_(new)))

\* What follows Assert is a panic, that Assert jumps when the value has type x.  A variable that has
\* not been looked into has the type of the variable.
AssertType(m, in) ==
  LET v == general(m, in.a)
      is == v.t = in.x
      new == Alloc(m, IF is THEN Set(m, in.x, v).content ELSE ZeroOf(in.x))
  IN  [(IF is \/ m.fn[m.pc].op # "Panic" THEN setFromReflectValue(new, in.c, in.x, Last_(new)) ELSE Panic(m))
       EXCEPT !.ok = is, !.pc = IF is THEN @ + 1 ELSE @]

----------------------------------------------------------------------------
(* Variables, slices, maps and structs                                     *)

\* Mutant: a struct is not copied.
MoveShares(m, in) ==
  CASE in.x = "int" -> setInt(m, in.c, intk(m, in.b, in.k))
    [] in.x = "float" -> setFloat(m, in.c, floatk(m, in.b, in.k))
    [] in.x = "string" -> setString(m, in.c, stringk(m, in.b, in.k))
    [] in.x = "general" -> setGeneral(m, in.c, generalk(m, in.b, in.k))

Move(m, in) ==
  CASE in.x = "int" -> setInt(m, in.c, intk(m, in.b, in.k))
    [] in.x = "float" -> setFloat(m, in.c, floatk(m, in.b, in.k))
    [] in.x = "string" -> setString(m, in.c, stringk(m, in.b, in.k))
    [] in.x = "general" ->
         LET g == generalk(m, in.b, in.k)
             new == Alloc(m, m.cells[Deref(g)])
         IN  IF Kind(g.t) = "struct" THEN setGeneral(new, in.c, Number(g.t, Last_(new))) ELSE setGeneral(m, in.c, g)
Load(m, in) ==
  LET value == m.values[in.x][in.b]
  IN  CASE in.x = "int" -> setInt(m, in.c, value) [] in.x = "float" -> setFloat(m, in.c, value)
        [] in.x = "string" -> setString(m, in.c, value) [] in.x = "general" -> setGeneral(m, in.c, value)

\* The variables that are not local; a struct is copied.
GetVar(m, in) ==
  LET var == m.vars[in.x.var]
      new == Alloc(m, m.cells[var.addr])
  IN  IF Kind(var.t) = "struct" THEN setFromReflectValue(new, in.c, var.t, Last_(new))
      ELSE setFromReflectValue(m, in.c, var.t, var.addr)
GetVarAddr(m, in) == setGeneral(m, in.c, Number(PointerTo(m.vars[in.x].t), m.vars[in.x].addr))
SetVar(m, in) == StoreFrom(m, m.vars[in.x.var].addr, m.vars[in.x.var].t, in.a, in.k)

New(m, in) ==
  LET new == Alloc(m, ZeroOf(in.x)) IN setGeneral(new, in.c, Number(PointerTo(in.x), Last_(new)))
MakeStruct(m, in) ==
  LET new == Alloc(m, ZeroOf(in.x)) IN setGeneral(new, in.c, Number(in.x, Last_(new)))

\* A slice that starts with some elements, of the first variables of memory that are free.
NewSlice(m, t, elements, len, cap) ==
  [m |-> [m EXCEPT !.cells = @ \o elements \o [i \in 1..cap - Len(elements) |-> ZeroOf(Elem(t))]],
   g |-> [t |-> t, v |-> <<len>> \o [i \in 1..cap |-> Last_(m) + i]]]
MakeSlice(m, in) ==
  LET len == intk(m, in.a, in.k[1])  cap == intk(m, in.b, in.k[2])
      new == NewSlice(m, in.x, <<>>, len, cap)
  IN  IF len < 0 \/ cap < len THEN Panic(m) ELSE setGeneral(new.m, in.c, new.g)

\* Index and IndexRef are the same: what they put in the register is the element, not a copy.
Index(m, in) ==
  LET s == general(m, in.a)  i == intk(m, in.b, in.k)
  IN  IF i < 0 \/ i >= SliceLen(s) THEN Panic(m) ELSE setFromReflectValue(m, in.c, Elem(s.t), ElemAddr(s, i))
IndexString(m, in) ==
  LET s == string(m, in.a)  i == intk(m, in.b, in.k)
  IN  IF i < 0 \/ i >= Len(s) THEN Panic(m) ELSE setInt(m, in.c, s[i + 1])
SetSlice(m, in) ==
  LET s == general(m, in.b)  i == int(m, in.c)
  IN  IF i < 0 \/ i >= SliceLen(s) THEN Panic(m) ELSE StoreFrom(m, ElemAddr(s, i), Elem(s.t), in.a, in.k)
Slice(m, in) ==
  LET s == general(m, in.a)
      low == intk(m, in.x.low, in.k[1])
      high == IF in.k[2] /\ in.x.high = -1 THEN SliceLen(s) ELSE intk(m, in.x.high, in.k[2])
  IN  IF low < 0 \/ high < low \/ high > SliceCap(s) THEN Panic(m)
      ELSE setGeneral(m, in.c, [t |-> s.t, v |-> <<high - low>> \o SubSeq(s.v, low + 2, Len(s.v))])
StringSlice(m, in) ==
  LET s == string(m, in.a)
      low == intk(m, in.x.low, in.k[1])
      high == IF in.k[2] /\ in.x.high = -1 THEN Len(s) ELSE intk(m, in.x.high, in.k[2])
  IN  IF low < 0 \/ high < low \/ high > Len(s) THEN Panic(m) ELSE setString(m, in.c, SubSeq(s, low + 1, high))

\* Elements are added in place when they fit in the capacity.
Grow(m, s, n) ==
  LET len == SliceLen(s) + n
  IN  IF len <= SliceCap(s) THEN [m |-> m, g |-> [s EXCEPT !.v[1] = len]]
      ELSE NewSlice(m, s.t, Elements(m, s), len, appendCap(SliceCap(s), len))
AppendSlice(m, in) ==
  LET s == general(m, in.c)  t == general(m, in.a)
      new == Grow(m, s, SliceLen(t))
      added == [j \in 1..SliceLen(t) |-> ElemAddr(new.g, SliceLen(s) + j - 1)]
  IN  setGeneral(StoreAll(new.m, added, Elements(m, t)), in.c, new.g)
\* The elements are in registers a, ..., b - 1.
Append_(m, in) ==
  LET s == general(m, in.c)
      new == Grow(m, s, in.b - in.a)
      one(mm, j) == StoreFrom(mm, ElemAddr(new.g, SliceLen(s) + j), Elem(s.t), in.a + j, FALSE)
  IN  setGeneral(FoldLeft(one, new.m, [j \in 1..in.b - in.a |-> j - 1]), in.c, new.g)
Copy(m, in) ==
  LET d == general(m, in.c)  s == general(m, in.a)
      n == Common(d, s)
      new == StoreAll(m, [i \in 1..n |-> ElemAddr(d, i - 1)], Elements(m, s))
  IN  IF in.b = 0 THEN new ELSE setInt(new, in.b, n)

\* A struct, or the pointer to a struct, has its field where it is.
Field(m, in) ==
  LET s == general(m, in.a) IN IF IsNilPointer(s) THEN Panic(m) ELSE setFromReflectValue(m, in.c, "int", Deref(s))
SetField(m, in) ==
  LET s == general(m, in.b) IN IF IsNilPointer(s) THEN Panic(m) ELSE StoreFrom(m, Deref(s), "int", in.a, in.k)
Addr(m, in) ==
  LET v == general(m, in.a)  i == int(m, in.b)
  IN  CASE Kind(v.t) = "slice" -> IF i < 0 \/ i >= SliceLen(v) THEN Panic(m)
                                  ELSE setGeneral(m, in.c, Number(PointerTo(Elem(v.t)), ElemAddr(v, i)))
        [] IsNilPointer(v) -> Panic(m)
        [] OTHER -> setGeneral(m, in.c, Number("*int", Deref(v)))

\* A map is the address of its pairs of a key and a value.
MakeMap(m, in) == LET new == Alloc(m, [t |-> in.x, v |-> <<>>]) IN setGeneral(new, in.c, Number(in.x, Last_(new)))
Pairs(m, g) == IF IsNilPointer(g) THEN <<>> ELSE m.cells[Deref(g)].v
HasKey(m, g, key) == \E i \in DOMAIN Pairs(m, g) : Pairs(m, g)[i][1] = key
MapIndex(m, in) ==
  LET g == general(m, in.a)  key == stringk(m, in.b, in.k)
      value == IF HasKey(m, g, key) THEN (SelectSeq(Pairs(m, g), LAMBDA p : p[1] = key))[1][2] ELSE 0
  IN  [setInt(m, in.c, value) EXCEPT !.ok = HasKey(m, g, key)]
Without(m, g, key) == SelectSeq(Pairs(m, g), LAMBDA p : p[1] # key)
SetMap(m, in) ==
  LET g == general(m, in.b)  key == string(m, in.c)
  IN  IF IsNilPointer(g) THEN Panic(m)
      ELSE Store(m, Deref(g), Without(m, g, key) \o << <<key, intk(m, in.a, in.k)>> >>)
Delete(m, in) ==
  LET g == general(m, in.a) IN IF IsNilPointer(g) THEN m ELSE Store(m, Deref(g), Without(m, g, string(m, in.b)))

----------------------------------------------------------------------------
(* Conditions: the instruction that follows is jumped when they hold       *)

Holds(cond, x, y) ==
  CASE cond = "==" -> x = y [] cond = "!=" -> x # y
    [] cond \in {"<", "<U"} -> x < y [] cond \in {"<=", "<=U"} -> x <= y
    [] cond \in {">", ">U"} -> x > y [] cond \in {">=", ">=U"} -> x >= y

Jump(m, cond) == IF cond THEN [m EXCEPT !.pc = @ + 1] ELSE m

\* Comparison of two values of the reflect package: as interfaces, with their types.
Interface(m, g) == IF g.t = "any" THEN m.cells[Deref(g)] ELSE g
SameValue(m, x, y) ==
  /\ x.t = y.t
  /\ IF Kind(x.t) = "struct" THEN m.cells[Deref(x)].v = m.cells[Deref(y)].v ELSE x.v = y.v
\* equals of vm.go, that looks at the types before it looks into the values.
equals(m, x, y) == x.t = y.t /\ SameValue(m, Interface(m, x), Interface(m, y))

If(m, in) ==
  LET g == general(m, in.a)
      y == generalk(m, in.c, in.k)
      element(i) == At(m, Elem(g.t), ElemAddr(g, i))
      contains == \E i \in 0..SliceLen(g) - 1 : equals(m, Interface(m, element(i)), y)
      null == \E i \in 0..SliceLen(g) - 1 : element(i).t = "any" /\ Interface(m, element(i)) = Invalid
      cond == CASE in.x \in {"ok", "not ok"} -> m.ok
                [] in.x \in {"interface nil", "interface not nil"} -> g = Invalid
                [] in.x \in {"nil", "not nil"} -> IF Kind(g.t) = "slice" THEN g.v = <<0>> ELSE IsNilPointer(g)
                [] in.x \in {"==", "!="} -> SameValue(m, Interface(m, g), Interface(m, y))
                [] in.x \in {"interface ==", "interface !="} -> equals(m, g, y)
                [] in.x \in {"contains element", "not contains element"} -> contains
                [] in.x \in {"contains nil", "not contains nil"} -> null
  IN  Jump(m, IF in.x \in {"not ok", "interface not nil", "not nil", "!=", "interface !=", "not contains element",
                           "not contains nil"} THEN ~cond ELSE cond)
IfInt(m, in) ==
  LET g == general(m, in.a)
      y == intk(m, in.c, in.k)
      contains == \E i \in 0..SliceLen(g) - 1 : m.cells[ElemAddr(g, i)].v[1] = y
      unsigned(n) == Unsigned(n, WordBits)
  IN  Jump(m, CASE in.x = "zero" -> int(m, in.a) = 0
                [] in.x = "not zero" -> int(m, in.a) # 0
                [] in.x \in {"<U", "<=U", ">U", ">=U"} -> Holds(in.x, unsigned(int(m, in.a)), unsigned(y))
                [] in.x = "contains element" -> contains [] in.x = "not contains element" -> ~contains
                [] in.x = "contains rune" -> \E i \in DOMAIN string(m, in.a) : string(m, in.a)[i] = y
                [] in.x = "not contains rune" -> \A i \in DOMAIN string(m, in.a) : string(m, in.a)[i] # y
                [] OTHER -> Holds(in.x, int(m, in.a), y))
IfFloat(m, in) == Jump(m, Holds(in.x, float(m, in.a), floatk(m, in.c, in.k)))

\* Strings of one byte at most are the ones that are ordered here.
Less(s, t) == IF s = <<>> THEN t # <<>> ELSE t # <<>> /\ s[1] < t[1]
Substring(s, t) == \E i \in 0..Len(s) - Len(t) : SubSeq(s, i + 1, i + Len(t)) = t
LenConditions == [c \in {"len ==", "len !=", "len <", "len <=", "len >", "len >="} |->
  CASE c = "len ==" -> "==" [] c = "len !=" -> "!=" [] c = "len <" -> "<" [] c = "len <=" -> "<="
    [] c = "len >" -> ">" [] c = "len >=" -> ">="]
IfString(m, in) ==
  LET x == string(m, in.a)  y == stringk(m, in.c, in.k)
      g == general(m, in.a)
  IN  Jump(m, CASE in.x = "==" -> x = y [] in.x = "!=" -> x # y
                [] in.x = "<" -> Less(x, y) [] in.x = "<=" -> ~Less(y, x)
                [] in.x = ">" -> Less(y, x) [] in.x = ">=" -> ~Less(x, y)
                [] in.x \in DOMAIN LenConditions -> Holds(LenConditions[in.x], Len(x), intk(m, in.c, in.k))
                [] in.x = "contains substring" -> Substring(x, y)
                [] in.x = "not contains substring" -> ~Substring(x, y)
                [] in.x = "contains key" -> HasKey(m, g, y) [] in.x = "not contains key" -> ~HasKey(m, g, y))

\* What the Zero and NotZero of templates tell from a value.
Zero(m, in) ==
  LET g == general(m, in.b)
      zero == CASE in.x.file = "int" -> int(m, in.b) = 0 [] in.x.file = "float" -> float(m, in.b) = 0
                [] in.x.file = "string" -> string(m, in.b) = <<>>
                [] in.x.file = "general" ->
                     CASE g = Invalid \/ IsNilPointer(g) -> TRUE
                       [] Kind(g.t) = "slice" -> SliceLen(g) = 0
                       [] Kind(g.t) = "map" -> Pairs(m, g) = <<>>
                       [] Kind(g.t) = "struct" -> m.cells[Deref(g)].v = <<0>>
                       [] Kind(g.t) = "interface" -> Interface(m, g) = Invalid
                       [] OTHER -> FALSE
  IN  setBool(m, in.c, IF in.x.not THEN ~zero ELSE zero)

Goto(m, in) == [m EXCEPT !.pc = in.x]

----------------------------------------------------------------------------
(* One turn of the loop                                                    *)

Number_(m, in) ==
  CASE in.op = "AddInt" -> AddInt(m, in) [] in.op = "SubInt" -> SubInt(m, in) [] in.op = "MulInt" -> MulInt(m, in)
    [] in.op = "DivInt" -> DivInt(m, in) [] in.op = "RemInt" -> RemInt(m, in)
    [] in.op = "ShlInt" -> ShlInt(m, in) [] in.op = "ShrInt" -> ShrInt(m, in)
    [] in.op = "AddFloat64" -> AddFloat64(m, in) [] in.op = "SubFloat64" -> SubFloat64(m, in)
    [] in.op = "MulFloat64" -> MulFloat64(m, in) [] in.op = "DivFloat64" -> DivFloat64(m, in)
    [] in.op = "Add" -> Add(m, in) [] in.op = "Sub" -> Sub(m, in) [] in.op = "Mul" -> Mul(m, in)
    [] in.op = "Div" -> Div(m, in) [] in.op = "Rem" -> Rem(m, in) [] in.op = "Neg" -> Neg(m, in)
    [] in.op = "Shl" -> Shl(m, in) [] in.op = "Shr" -> Shr(m, in)
    [] in.op = "And" -> And(m, in) [] in.op = "AndNot" -> AndNot(m, in)
    [] in.op = "Or" -> Or(m, in) [] in.op = "Xor" -> Xor(m, in)
    [] in.op = "ConvertInt" -> ConvertInt(m, in) [] in.op = "ConvertUint" -> ConvertUint(m, in)
    [] in.op = "ConvertFloat" -> ConvertFloat(m, in)
NumberOps == {"AddInt", "SubInt", "MulInt", "DivInt", "RemInt", "ShlInt", "ShrInt", "AddFloat64", "SubFloat64",
  "MulFloat64", "DivFloat64", "Add", "Sub", "Mul", "Div", "Rem", "Neg", "Shl", "Shr", "And", "AndNot", "Or", "Xor",
  "ConvertInt", "ConvertUint", "ConvertFloat"}

Datum(m, in) ==
  CASE in.op = "Concat" -> Concat(m, in) [] in.op = "Len" -> Len_(m, in) [] in.op = "Cap" -> Cap(m, in)
    [] in.op = "Move" -> Move(m, in) [] in.op = "Typify" -> Typify(m, in) [] in.op = "Assert" -> AssertType(m, in)
    [] in.op = "Load" -> Load(m, in) [] in.op = "GetVar" -> GetVar(m, in) [] in.op = "SetVar" -> SetVar(m, in)
    [] in.op = "GetVarAddr" -> GetVarAddr(m, in) [] in.op = "New" -> New(m, in) [] in.op = "Addr" -> Addr(m, in)
    [] in.op = "MakeStruct" -> MakeStruct(m, in) [] in.op = "MakeSlice" -> MakeSlice(m, in)
    [] in.op = "MakeMap" -> MakeMap(m, in) [] in.op = "IndexRef" -> Index(m, in)
    [] in.op = "IndexString" -> IndexString(m, in) [] in.op = "MapIndex" -> MapIndex(m, in)
    [] in.op = "SetSlice" -> SetSlice(m, in) [] in.op = "SetMap" -> SetMap(m, in) [] in.op = "Delete" -> Delete(m, in)
    [] in.op = "Slice" -> Slice(m, in) [] in.op = "StringSlice" -> StringSlice(m, in)
    [] in.op = "Append" -> Append_(m, in) [] in.op = "AppendSlice" -> AppendSlice(m, in) [] in.op = "Copy" -> Copy(m, in)
    [] in.op = "Field" -> Field(m, in) [] in.op = "SetField" -> SetField(m, in)
    [] in.op = "If" -> If(m, in) [] in.op = "IfInt" -> IfInt(m, in) [] in.op = "IfFloat" -> IfFloat(m, in)
    [] in.op = "IfString" -> IfString(m, in) [] in.op = "Zero" -> Zero(m, in) [] in.op = "Goto" -> Goto(m, in)
    [] in.op = "Panic" -> Panic(m)

\* A nil pointer that is read is a panic of the program; to write it is not known to the machine.
NilOperand(m, r) == r < 0 /\ IsNilPointer(Pointer(m, r))
Execute(machine, in) ==
  LET m == [machine EXCEPT !.pc = @ + 1]
  IN  CASE in.op = "Move" /\ ~in.k /\ NilOperand(m, in.b) -> Panic(m)
        [] in.op \in {"Move", "Typify"} /\ NilOperand(m, in.c) -> Fatal(m)
        [] in.op \in NumberOps -> Number_(m, in)
        [] OTHER -> Datum(m, in)
=============================================================================
