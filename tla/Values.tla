------------------------------- MODULE Values -------------------------------
(***************************************************************************)
(* The values of the virtual machine: types, memory and the registers of a *)
(* function, with the accessors of src/internal/runtime/registers.go.      *)
(*                                                                         *)
(* The four register files are functions from register numbers: int and    *)
(* float hold integers (bool is 0 or 1, an unsigned value is held as the   *)
(* signed word with the same bits, a floating point value is a small       *)
(* integer), string holds sequences of bytes and general holds values of   *)
(* the reflect package.  A negative register is the general register that  *)
(* holds a pointer to the value.                                           *)
(*                                                                         *)
(* Memory is a sequence of variables; an address is an index.  A value is  *)
(* [t |-> type, v |-> sequence of integers]: the value itself, the address *)
(* a pointer or a map refers to, or the length of a slice and then the     *)
(* addresses of its capacity.  A struct has one integer field, x, at the   *)
(* address of the struct.  As a value of the reflect package, a struct is  *)
(* the address of its variable, and a value of type any is the address of  *)
(* a variable of that type, that no one has looked into.                   *)
(***************************************************************************)
EXTENDS Integers, Sequences, SequencesExt, FiniteSets

CONSTANTS WordBits,   \* width of int, int64, uint and uint64
          ByteBits    \* width of int8, uint8 and of an operand of an instruction

ASSUME WidthsAssumption == ByteBits \in Nat \ {0} /\ WordBits \in Nat /\ WordBits > ByteBits

----------------------------------------------------------------------------
(* Types                                                                   *)

PointedTypes == {"int", "uint8", "bool", "string", "T", "any", "[]int", "[]T", "*int", "*T"}
PointerTo(t) == "*" \o t
Pointers == {PointerTo(t) : t \in PointedTypes}

Kind(t) ==
  CASE t \in {"[]int", "[]T", "[]any"} -> "slice" [] t \in Pointers -> "pointer"
    [] t \in {"T"} -> "struct" [] t = "any" -> "interface" [] t = "map" -> "map" [] OTHER -> t

Elem(t) ==
  CASE t \in {"[]int", "map"} -> "int" [] t = "[]T" -> "T" [] t = "[]any" -> "any" [] t = "string" -> "uint8"
    [] t \in Pointers -> CHOOSE e \in PointedTypes : PointerTo(e) = t

Signeds == {"int", "int8"}
Unsigneds == {"uint", "uint8"}
Floats == {"float32", "float64"}

kindToType(t) ==
  CASE t \in {"bool"} \cup Signeds \cup Unsigneds -> "int" [] t \in Floats -> "float"
    [] t = "string" -> "string" [] OTHER -> "general"

----------------------------------------------------------------------------
(* Numbers                                                                 *)

Signed(n, bits) == ((n + 2^(bits - 1)) % (2^bits)) - 2^(bits - 1)
Unsigned(n, bits) == n % (2^bits)
Word(n) == Signed(n, WordBits)

\* The conversion of Go to an integer type: what does not fit is cut.
Narrow(t, n) ==
  CASE t = "int8" -> Signed(n, ByteBits) [] t = "uint8" -> Unsigned(n, ByteBits) [] OTHER -> Word(n)

\* float32 has fewer digits: above 2^ByteBits only the even integers.
Single(n) == IF -(2^ByteBits) <= n /\ n <= 2^ByteBits THEN n ELSE 2 * (n \div 2)
Round(t, n) == IF t = "float32" THEN Single(n) ELSE n

\* Integer division of Go, that truncates towards zero.
Quo(n, d) == LET abs(i) == IF i < 0 THEN -i ELSE i
             IN  (IF (n < 0) = (d < 0) THEN 1 ELSE -1) * (abs(n) \div abs(d))

----------------------------------------------------------------------------
(* Memory                                                                  *)

Invalid == [t |-> "nil", v |-> <<>>]      \* the zero reflect.Value: a nil interface
Number(t, n) == [t |-> t, v |-> <<n>>]
ZeroOf(t) ==
  CASE Kind(t) = "interface" -> Invalid [] Kind(t) = "string" -> [t |-> t, v |-> <<>>] [] OTHER -> Number(t, 0)

\* Variables set in order.
StoreAll(m, addrs, contents) ==
  [m EXCEPT !.cells = FoldLeft(LAMBDA c, i : [c EXCEPT ![addrs[i]] = contents[i]], @, [i \in DOMAIN addrs |-> i])]
\* A new variable at the end of memory.
Alloc(m, content) == [m EXCEPT !.cells = Append(@, content)]
Last_(m) == Len(m.cells)

\* The reflect.Value of the variable of type t at an address.
At(m, t, addr) == IF Kind(t) \in {"struct", "interface"} THEN Number(t, addr) ELSE [t |-> t, v |-> m.cells[addr].v]

Deref(g) == g.v[1]
IsNilPointer(g) == Kind(g.t) \in {"pointer", "map"} /\ g.v = <<0>>

SliceLen(g) == g.v[1]
SliceCap(g) == Len(g.v) - 1
ElemAddr(g, i) == g.v[i + 2]
Elements(m, g) == [i \in 1..SliceLen(g) |-> m.cells[ElemAddr(g, i - 1)]]
\* The elements that two slices share the copy of: as many as the shorter has.
Common(g1, g2) == IF SliceLen(g1) < SliceLen(g2) THEN SliceLen(g1) ELSE SliceLen(g2)

----------------------------------------------------------------------------
(* Registers                                                               *)

Pointer(m, r) == m.general[-r]
Pointed(m, r) == m.cells[Deref(Pointer(m, r))]

int(m, r) == IF r > 0 THEN m.int[r] ELSE Pointed(m, r).v[1]
intk(m, r, k) == IF k THEN r ELSE int(m, r)
boolk(m, r, k) == intk(m, r, k) > 0
float(m, r) == IF r > 0 THEN m.float[r] ELSE Pointed(m, r).v[1]
floatk(m, r, k) == IF k THEN r ELSE float(m, r)
string(m, r) == IF r > 0 THEN m.string[r] ELSE Pointed(m, r).v
stringk(m, r, k) == IF k THEN m.values.string[r] ELSE string(m, r)

\* Of an indirect register, the variable: of type any, it has not been looked into.
general(m, r) ==
  IF r > 0 THEN m.general[r] ELSE At(m, Elem(Pointer(m, r).t), Deref(Pointer(m, r)))
generalk(m, r, k) == IF k THEN m.values.general[r] ELSE general(m, r)

\* What a variable of type t holds after it is set to a value of the reflect package, copied out of
\* its variable; as the memory and the content.  Set panics when the type is not the one of t.
Settable(t, g) == IF Kind(t) = "interface" THEN TRUE ELSE g.t = t
Set(m, t, g) ==
  CASE Kind(t) = "interface" /\ g.t = "any" -> [m |-> m, content |-> m.cells[Deref(g)]]
    [] Kind(t) = "interface" /\ Kind(g.t) = "struct" ->
         LET new == Alloc(m, m.cells[Deref(g)]) IN [m |-> new, content |-> Number(g.t, Last_(new))]
    [] Kind(t) = "struct" -> [m |-> m, content |-> m.cells[Deref(g)]]
    [] OTHER -> [m |-> m, content |-> g]

Fatal(m) == [m EXCEPT !.panic = "fatal"]
Panic(m) == [m EXCEPT !.panic = "runtime"]

\* A variable keeps the type it has, that of an element of a struct is the one of the struct.
Store(m, addr, v) == [m EXCEPT !.cells[addr].v = v]
StoreAt(m, t, addr, g) ==
  IF ~Settable(t, g) THEN Fatal(m)
  ELSE LET set == Set(m, t, g)
       IN  IF Kind(t) = "interface" THEN [set.m EXCEPT !.cells[addr] = set.content] ELSE Store(set.m, addr, set.content.v)

setIndirect(m, r, v) == Store(m, Deref(Pointer(m, r)), v)
ElemType(m, r) == Elem(Pointer(m, r).t)
setInt(m, r, n) ==
  IF r > 0 THEN [m EXCEPT !.int[r] = n]
  ELSE setIndirect(m, r, <<IF ElemType(m, r) = "bool" THEN (IF n = 1 THEN 1 ELSE 0) ELSE Narrow(ElemType(m, r), n)>>)
setBool(m, r, b) ==
  LET n == IF b THEN 1 ELSE 0 IN IF r > 0 THEN [m EXCEPT !.int[r] = n] ELSE setIndirect(m, r, <<n>>)
setFloat(m, r, n) ==
  IF r > 0 THEN [m EXCEPT !.float[r] = n] ELSE setIndirect(m, r, <<Round(ElemType(m, r), n)>>)
setString(m, r, s) == IF r > 0 THEN [m EXCEPT !.string[r] = s] ELSE setIndirect(m, r, s)
setGeneral(m, r, g) ==
  IF r > 0 THEN [m EXCEPT !.general[r] = g] ELSE StoreAt(m, ElemType(m, r), Deref(Pointer(m, r)), g)

\* The content of a variable of type t that takes the value of register r.
getIntoReflectValue(m, r, t, k) ==
  LET of(v) == [m |-> m, content |-> [t |-> t, v |-> v]]
  IN  CASE t = "bool" -> of(<<IF boolk(m, r, k) THEN 1 ELSE 0>>)
        [] kindToType(t) = "int" /\ t # "bool" -> of(<<Narrow(t, intk(m, r, k))>>)
        [] kindToType(t) = "float" -> of(<<Round(t, floatk(m, r, k))>>)
        [] kindToType(t) = "string" -> of(stringk(m, r, k))
        [] OTHER -> IF Settable(t, generalk(m, r, k)) THEN Set(m, t, generalk(m, r, k))
                    ELSE [m |-> Fatal(m), content |-> ZeroOf(t)]

\* Puts the variable of type t at an address in register r: a struct is not copied.
setFromReflectValue(m, r, t, addr) ==
  CASE t = "bool" -> setBool(m, r, m.cells[addr].v[1] = 1)
    [] kindToType(t) = "int" /\ t # "bool" -> setInt(m, r, m.cells[addr].v[1])
    [] kindToType(t) = "float" -> setFloat(m, r, m.cells[addr].v[1])
    [] kindToType(t) = "string" -> setString(m, r, m.cells[addr].v)
    [] Kind(t) = "interface" -> setGeneral(m, r, m.cells[addr])
    [] OTHER -> setGeneral(m, r, At(m, t, addr))

\* The variable set from a register.
StoreFrom(m, addr, t, r, k) ==
  LET got == getIntoReflectValue(m, r, t, k)
  IN  IF Kind(t) = "interface" THEN [got.m EXCEPT !.cells[addr] = got.content] ELSE Store(got.m, addr, got.content.v)

\* The capacity of a slice of capacity c that grows to length n (the slices here have less than 1024).
appendCap(c, n) == IF c = 0 \/ n > c * 2 THEN n ELSE c * 2
=============================================================================
