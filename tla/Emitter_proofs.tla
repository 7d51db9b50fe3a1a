---------------------------- MODULE Emitter_proofs ----------------------------
(***************************************************************************)
(* Proofs about Emitter: the registers of the variables, for any           *)
(* statements, names, nesting and number of registers.                     *)
(*                                                                         *)
(* The inductive invariant: the scopes of the source and the               *)
(* stacks and scopes of the builders stand one above the other as the open *)
(* statements have put them there. The scope i of the source is of the     *)
(* function F[i], is in the scope A[i] of its builder, and was entered     *)
(* with T[i] stacks; G tells the scopes of the source that are around each *)
(* statement. A for and the else of an if have one scope more in the       *)
(* source than in the builder, a select has a stack and no scope.          *)
(*                                                                         *)
(* A variable is in the scope of its builder with its register, that is    *)
(* not above what a stack entered after it will give back: this is why it  *)
(* is still its own when the stack is left. Nothing else is in the scopes  *)
(* of the builder.                                                         *)
(***************************************************************************)
EXTENDS Emitter, SequenceTheorems, WellFoundedInduction, TLAPS

-----------------------------------------------------------------------------
\* Sequences, of no matter what.
IsList(s) == \E X : s \in Seq(X)

Kinds == Fors \cup {"range", "switch", "select", "if", "else", "block", "func"}
BuilderFields == {"body", "labelAddrs", "scopes", "numRegs", "shifts", "base", "jumps", "marks", "merged"}
StatementFields == {"kind", "name", "id", "breakable", "breakLabel", "inForRange", "head", "post", "end", "cases", "stale"}

\* The scopes of the source from the one after lo to hi are those of a function: the scope i is the
\* A[i]-th of the builder, that of its variables, and was entered with T[i] stacks.
Held(scopes, shifts, regs, ss, lo, hi, A, T) ==
  \A i \in lo+1..hi : \A n \in DOMAIN ss[i] :
    /\ n \in DOMAIN scopes[A[i]] /\ scopes[A[i]][n] = ss[i][n]
    /\ ss[i][n] \in 1..regs
    /\ \A t \in T[i]+1..Len(shifts) : ss[i][n] <= shifts[t]

\* A name that is in a scope of the builder is in a scope of the source.
FromSource(scopes, ss, lo, hi, A) ==
  \A s \in 1..Len(scopes) : \A n \in DOMAIN scopes[s] : \E i \in lo+1..hi : A[i] = s /\ n \in DOMAIN ss[i]

\* No two variables have the same register.
NotShared(ss, lo, hi) ==
  \A i, j \in lo+1..hi : \A n \in DOMAIN ss[i] : \A m \in DOMAIN ss[j] : ss[i][n] = ss[j][m] => i = j /\ n = m

VariablesKept(b, ss, lo, hi, A, T) ==
  /\ Held(b.scopes, b.shifts, b.numRegs, ss, lo, hi, A, T)
  /\ FromSource(b.scopes, ss, lo, hi, A)
  /\ NotShared(ss, lo, hi)

BuilderOK(b) ==
  /\ DOMAIN b = BuilderFields
  /\ IsList(b.scopes) /\ IsList(b.shifts) /\ (\A t \in 1..Len(b.shifts) : b.shifts[t] \in Nat)
  /\ b.numRegs \in Nat /\ b.base \in Nat /\ b.merged \in BOOLEAN

\* The scopes of the source are in those of the builder in order, the last in the last.
InScopes(b, lo, hi, A, T) ==
  /\ lo < hi /\ A[hi] = Len(b.scopes) /\ T[hi] = Len(b.shifts)
  /\ \A i \in lo+1..hi : A[i] >= 1 /\ T[i] >= 1
  /\ \A i, j \in lo+1..hi : i <= j => A[i] <= A[j] /\ T[i] <= T[j]

\* The scopes of the source that are of a function and its builder; hi is the last.
Mapped(b, ss, hi, A, T) ==
  /\ BuilderOK(b) /\ InScopes(b, b.base, hi, A, T)
  /\ ~b.merged => VariablesKept(b, ss, b.base, hi, A, T)

\* What a statement adds to the scopes of the source, and to those of the builder.
Placed(kind, g, h, F, A, T) ==
  /\ h = IF kind \in {"select", "block", "func"} THEN g + 1 ELSE g + 2
  /\ IF kind = "func" THEN F[h] = F[g] + 1
     ELSE /\ F[g + 1] = F[g] /\ F[h] = F[g] /\ T[g + 1] = T[g] + 1
          /\ A[g + 1] = IF kind = "select" THEN A[g] ELSE A[g] + 1
  /\ kind \in Fors \cup {"else"} => A[h] = A[g + 1] /\ T[h] = T[g + 1]
  /\ kind \in {"range", "switch", "if"} => A[h] = A[g + 1] + 1 /\ T[h] = T[g + 1] + 1

\* The last scope of the source in the k-th function.
LastScope(bs, ss, k) == IF k = Len(bs) THEN Len(ss) ELSE bs[k + 1].base

\* G[q] are the scopes of the source around the statement q; F[i] is the function of the scope i.
Laid(bs, ns, ss, F, A, T, G) ==
  /\ G[1] = 1 /\ G[Len(ns) + 1] = Len(ss) /\ F[1] = 1 /\ F[Len(ss)] = Len(bs)
  /\ \A p, q \in 1..Len(ns)+1 : p <= q => G[p] <= G[q]
  /\ \A i \in 1..Len(ss) : F[i] \in 1..Len(bs)
  /\ \A q \in 1..Len(ns) : Placed(ns[q].kind, G[q], G[q + 1], F, A, T)
  /\ \A k \in 1..Len(bs) : \A i \in 1..Len(ss) : F[i] >= k <=> i > bs[k].base
  /\ \A k \in 1..Len(bs) : Mapped(bs[k], ss, LastScope(bs, ss, k), A, T)
  /\ \A q \in 1..Len(ns) : ns[q].kind = "select" =>
       DOMAIN ss[G[q + 1]] = {} \/ bs[F[G[q + 1]]].merged

Standing(bs, ns, ss, F, A, T, G) ==
  /\ F \in [Nat -> Nat] /\ A \in [Nat -> Nat] /\ T \in [Nat -> Nat] /\ G \in [Nat -> Nat]
  /\ Laid(bs, ns, ss, F, A, T, G) /\ IsList(bs) /\ IsList(ns) /\ IsList(ss) /\ bs # <<>> /\ ss # <<>>

Matches(bs, ns, ss) == \E F, A, T, G : Standing(bs, ns, ss, F, A, T, G)

NestOK(ns) == IsList(ns) /\ \A q \in 1..Len(ns) : ns[q].kind \in Kinds /\ DOMAIN ns[q] = StatementFields

VariablesInv == NestOK(nest) /\ (fbs # <<>> => Matches(fbs, nest, sources))

-----------------------------------------------------------------------------
(***************************************************************************)
(* Sequences of anything.                                                  *)
(***************************************************************************)
LEMMA ListFacts ==
    ASSUME NEW s, IsList(s)
    PROVE  Len(s) \in Nat /\ DOMAIN s = 1..Len(s) /\ (s # <<>> <=> Len(s) > 0)
  <1>1. PICK X : s \in Seq(X)
    BY DEF IsList
  <1> QED
    BY <1>1, LenProperties, EmptySeq

LEMMA ListAppend ==
    ASSUME NEW s, IsList(s), NEW e
    PROVE  /\ IsList(Append(s, e)) /\ Len(Append(s, e)) = Len(s) + 1
           /\ Append(s, e)[Len(s) + 1] = e
           /\ \A j \in 1..Len(s) : Append(s, e)[j] = s[j]
  <1>1. PICK X : s \in Seq(X)
    BY DEF IsList
  <1> DEFINE Y == X \cup {e}
  <1>2. Len(s) \in Nat /\ \A j \in 1..Len(s) : s[j] \in X
    BY <1>1, LenProperties, ElementOfSeq
  <1>3. s \in Seq(Y) /\ e \in Y
    BY <1>1
  <1> HIDE DEF Y
  <1>4. /\ Append(s, e) \in Seq(Y) /\ Len(Append(s, e)) = Len(s) + 1
        /\ Append(s, e)[Len(s) + 1] = e
        /\ \A j \in 1..Len(s) : Append(s, e)[j] = s[j]
    BY <1>3, AppendProperties
  <1> QED
    BY <1>4 DEF IsList

LEMMA ListPrefix ==
    ASSUME NEW s, IsList(s), NEW c \in 0..Len(s)
    PROVE  /\ IsList(SubSeq(s, 1, c)) /\ Len(SubSeq(s, 1, c)) = c
           /\ \A j \in 1..c : SubSeq(s, 1, c)[j] = s[j]
  <1>1. PICK X : s \in Seq(X)
    BY DEF IsList
  <1>2. Len(s) \in Nat
    BY <1>1, LenProperties
  <1>3. \A j \in 1..c : j \in 1..Len(s) /\ s[j] \in X
    BY <1>1, <1>2, ElementOfSeq
  <1>4. SubSeq(s, 1, c) \in Seq(X) /\ Len(SubSeq(s, 1, c)) = c /\ \A j \in 1..c : SubSeq(s, 1, c)[j] = s[j]
    BY <1>1, <1>2, <1>3, SubSeqProperties
  <1> QED
    BY <1>4 DEF IsList

LEMMA ListFront ==
    ASSUME NEW s, IsList(s), s # <<>>
    PROVE  /\ IsList(Front(s)) /\ Len(Front(s)) = Len(s) - 1
           /\ \A j \in 1..Len(s)-1 : Front(s)[j] = s[j]
           /\ Last(s) = s[Len(s)]
  <1>1. Len(s) - 1 \in 0..Len(s)
    BY ListFacts
  <1>2. /\ IsList(SubSeq(s, 1, Len(s) - 1)) /\ Len(SubSeq(s, 1, Len(s) - 1)) = Len(s) - 1
        /\ \A j \in 1..Len(s)-1 : SubSeq(s, 1, Len(s) - 1)[j] = s[j]
    BY <1>1, ListPrefix
  <1> QED
    BY <1>2 DEF Front, Last

LEMMA ListTop ==
    ASSUME NEW s, IsList(s), s # <<>>, NEW e
    PROVE  /\ IsList(Append(Front(s), e)) /\ Len(Append(Front(s), e)) = Len(s)
           /\ Append(Front(s), e)[Len(s)] = e
           /\ \A j \in 1..Len(s)-1 : Append(Front(s), e)[j] = s[j]
  <1> DEFINE f == Front(s)
             t == Append(f, e)
  <1>1. IsList(f) /\ Len(f) = Len(s) - 1 /\ \A j \in 1..Len(s)-1 : f[j] = s[j]
    BY ListFront
  <1>2. Len(s) \in Nat /\ Len(s) > 0
    BY ListFacts
  <1> HIDE DEF f
  <1>3. IsList(t) /\ Len(t) = Len(f) + 1 /\ t[Len(f) + 1] = e /\ \A j \in 1..Len(f) : t[j] = f[j]
    BY <1>1, ListAppend
  <1> HIDE DEF t
  <1>4. Len(t) = Len(s) /\ t[Len(s)] = e /\ \A j \in 1..Len(s)-1 : t[j] = s[j]
    BY <1>1, <1>2, <1>3
  <1> QED
    BY <1>3, <1>4 DEF f, t

-----------------------------------------------------------------------------
(***************************************************************************)
(* What the operations of the builder change of its variables.             *)
(***************************************************************************)
SameVariables(b, c) ==
  /\ DOMAIN c = DOMAIN b /\ c.scopes = b.scopes /\ c.shifts = b.shifts
  /\ c.numRegs = b.numRegs /\ c.base = b.base /\ c.merged = b.merged

\* A scope with some names, all of the next register.
Entered(b, c, names) ==
  /\ BuilderOK(c) /\ c.base = b.base /\ c.merged = b.merged
  /\ Len(c.scopes) = Len(b.scopes) + 1 /\ \A s \in 1..Len(b.scopes) : c.scopes[s] = b.scopes[s]
  /\ DOMAIN c.scopes[Len(b.scopes) + 1] = names
  /\ \A n \in names : c.scopes[Len(b.scopes) + 1][n] = b.numRegs + 1
  /\ Len(c.shifts) = Len(b.shifts) + 1 /\ \A t \in 1..Len(b.shifts) : c.shifts[t] = b.shifts[t]
  /\ c.shifts[Len(b.shifts) + 1] = b.numRegs
  /\ c.numRegs >= b.numRegs /\ (names # {} => c.numRegs > b.numRegs)

\* Nothing, or a stack.
Stacked1(b, c) ==
  /\ BuilderOK(c) /\ c.base = b.base /\ c.merged = b.merged /\ c.scopes = b.scopes
  /\ Len(c.shifts) = Len(b.shifts) + 1 /\ \A t \in 1..Len(b.shifts) : c.shifts[t] = b.shifts[t]
  /\ c.shifts[Len(b.shifts) + 1] = b.numRegs
  /\ c.numRegs >= b.numRegs

\* Back to a scopes and t stacks.
Exited(b, c, a, t) ==
  /\ BuilderOK(c) /\ c.base = b.base /\ c.merged = b.merged
  /\ Len(c.scopes) = a /\ a <= Len(b.scopes) /\ \A s \in 1..a : c.scopes[s] = b.scopes[s]
  /\ Len(c.shifts) = t /\ t < Len(b.shifts) /\ \A u \in 1..t : c.shifts[u] = b.shifts[u]
  /\ c.numRegs = b.shifts[t + 1]

LEMMA SameOps ==
    ASSUME NEW b, DOMAIN b = BuilderFields
    PROVE  /\ \A op : SameVariables(b, Emit(b, op))
           /\ SameVariables(b, newLabel(b))
           /\ \A lab : SameVariables(b, setLabelAddr(b, lab))
           /\ \A lab : SameVariables(b, emitGoto(b, lab))
           /\ \A op, lab : SameVariables(b, emitRangeJump(b, op, lab))
           /\ \A id, continue, end : SameVariables(b, Marks(b, id, continue, end))
           /\ \A what, j, why : SameVariables(b, Jumps(b, what, j, why))
  BY DEF BuilderFields, SameVariables, Emit, newLabel, setLabelAddr, emitGoto, emitRangeJump, Marks, Jumps

LEMMA SameChain == \A b, c, d : SameVariables(b, c) /\ SameVariables(c, d) => SameVariables(b, d)
  BY DEF SameVariables

LEMMA SameOK == \A b, c : BuilderOK(b) /\ SameVariables(b, c) => BuilderOK(c)
  BY DEF SameVariables, BuilderOK

LEMMA EnteredSame == \A b, c, d, names : Entered(b, c, names) /\ SameVariables(c, d) => Entered(b, d, names)
  <1> SUFFICES ASSUME NEW b, NEW c, NEW d, NEW names, Entered(b, c, names), SameVariables(c, d) PROVE Entered(b, d, names)
    OBVIOUS
  <1>1. BuilderOK(d)
    BY SameOK DEF Entered
  <1> QED
    BY <1>1 DEF Entered, SameVariables

LEMMA EnterStack ==
    ASSUME NEW b, BuilderOK(b)
    PROVE  Stacked1(b, enterStack(b))
  <1> DEFINE c == enterStack(b)
  <1>1. /\ DOMAIN c = BuilderFields /\ c.scopes = b.scopes /\ c.numRegs = b.numRegs /\ c.base = b.base
        /\ c.merged = b.merged /\ c.shifts = Append(b.shifts, b.numRegs)
    BY DEF BuilderOK, BuilderFields, enterStack
  <1>2. Len(b.shifts) \in Nat
    BY ListFacts DEF BuilderOK
  <1> DEFINE s == b.shifts
             r == b.numRegs
             u == Append(s, r)
  <1>3. IsList(s) /\ r \in Nat /\ \A t \in 1..Len(s) : s[t] \in Nat
    BY DEF BuilderOK
  <1> HIDE DEF s, r
  <1>4. IsList(u) /\ Len(u) = Len(s) + 1 /\ u[Len(s) + 1] = r /\ \A t \in 1..Len(s) : u[t] = s[t]
    BY <1>3, ListAppend
  <1>5. \A t \in 1..Len(s)+1 : t \in 1..Len(s) \/ t = Len(s) + 1
    BY <1>2 DEF s
  <1>6. \A t \in 1..Len(u) : u[t] \in Nat
    BY <1>3, <1>4, <1>5
  <1>7. c.shifts = u
    BY <1>1 DEF s, r
  <1> HIDE DEF c, u
  <1>8. BuilderOK(c)
    BY <1>1, <1>4, <1>6, <1>7 DEF BuilderOK
  <1> QED
    BY <1>1, <1>3, <1>4, <1>7, <1>8 DEF Stacked1, s, r, c

LEMMA EnterScope ==
    ASSUME NEW b, BuilderOK(b)
    PROVE  Entered(b, enterScope(b), {}) /\ enterScope(b).numRegs = b.numRegs
  <1> DEFINE d == [b EXCEPT !.scopes = Append(@, NoName)]
             c == enterStack(d)
  <1>1. /\ DOMAIN d = BuilderFields /\ d.scopes = Append(b.scopes, NoName) /\ d.shifts = b.shifts
        /\ d.numRegs = b.numRegs /\ d.base = b.base /\ d.merged = b.merged
    BY DEF BuilderOK, BuilderFields
  <1> DEFINE s == b.scopes
             u == Append(s, NoName)
  <1>2. IsList(s)
    BY DEF BuilderOK
  <1> HIDE DEF s
  <1>3. IsList(u) /\ Len(u) = Len(s) + 1 /\ u[Len(s) + 1] = NoName /\ \A j \in 1..Len(s) : u[j] = s[j]
    BY <1>2, ListAppend
  <1>4. d.scopes = u
    BY <1>1 DEF s
  <1> HIDE DEF d, u
  <1>5. BuilderOK(d)
    BY <1>1, <1>3, <1>4 DEF BuilderOK
  <1>6. Stacked1(d, c)
    BY <1>5, EnterStack
  <1>7. enterScope(b) = c
    BY DEF enterScope, d
  <1> HIDE DEF c
  <1>8. DOMAIN NoName = {}
    BY DEF NoName
  <1>9. enterStack(d).numRegs = d.numRegs
    BY <1>1 DEF enterStack, BuilderFields
  <1> QED
    BY <1>1, <1>3, <1>4, <1>6, <1>7, <1>8, <1>9 DEF Entered, Stacked1, s, c

LEMMA NewRegister ==
    ASSUME NEW b, BuilderOK(b), NEW c, NEW names, Entered(b, c, names)
    PROVE  Entered(b, newRegister(c), names)
  <1> DEFINE d == newRegister(c)
  <1>1. /\ DOMAIN d = DOMAIN c /\ d.scopes = c.scopes /\ d.shifts = c.shifts /\ d.numRegs = c.numRegs + 1
        /\ d.base = c.base /\ d.merged = c.merged
    BY DEF newRegister, Entered, BuilderOK, BuilderFields
  <1> HIDE DEF d
  <1>2. BuilderOK(d) /\ c.numRegs \in Nat
    BY <1>1 DEF Entered, BuilderOK
  <1>3. b.numRegs <= d.numRegs /\ (names # {} => d.numRegs > b.numRegs)
    <2>1. b.numRegs \in Nat
      BY DEF BuilderOK
    <2> QED
      BY <1>1, <1>2, <2>1 DEF Entered
  <1> QED
    BY <1>1, <1>2, <1>3 DEF Entered, d

\* The names that a scope gets in the builder.
LEMMA BindRegister ==
    ASSUME NEW b, BuilderOK(b), b.scopes # <<>>, NEW name, NEW r
    PROVE  LET c == bindVarReg(b, name, r)
               L == Len(b.scopes)
           IN  /\ DOMAIN c = BuilderFields /\ c.shifts = b.shifts /\ c.numRegs = b.numRegs /\ c.base = b.base
               /\ c.merged = b.merged /\ IsList(c.scopes) /\ Len(c.scopes) = L
               /\ \A s \in 1..L-1 : c.scopes[s] = b.scopes[s]
               /\ DOMAIN c.scopes[L] = DOMAIN b.scopes[L] \cup {name}
               /\ \A n \in DOMAIN b.scopes[L] \cup {name} :
                    c.scopes[L][n] = IF n = name THEN r ELSE b.scopes[L][n]
               /\ BuilderOK(c)
  <1> DEFINE s == b.scopes
             f == [n \in DOMAIN Last(s) \cup {name} |-> IF n = name THEN r ELSE Last(s)[n]]
             u == Append(Front(s), f)
             c == bindVarReg(b, name, r)
  <1>1. /\ DOMAIN c = BuilderFields /\ c.shifts = b.shifts /\ c.numRegs = b.numRegs /\ c.base = b.base
        /\ c.merged = b.merged /\ c.scopes = u
    BY DEF BuilderOK, BuilderFields, bindVarReg
  <1>2. IsList(s) /\ s # <<>>
    BY DEF BuilderOK
  <1>3. /\ DOMAIN f = DOMAIN s[Len(s)] \cup {name}
        /\ \A n \in DOMAIN s[Len(s)] \cup {name} : f[n] = IF n = name THEN r ELSE s[Len(s)][n]
    BY DEF Last
  <1> HIDE DEF f, c, s
  <1>4. IsList(u) /\ Len(u) = Len(s) /\ u[Len(s)] = f /\ \A j \in 1..Len(s)-1 : u[j] = s[j]
    BY <1>2, ListTop
  <1> HIDE DEF u
  <1>5. BuilderOK(c)
    BY <1>1, <1>4 DEF BuilderOK
  <1> QED
    BY <1>1, <1>3, <1>4, <1>5 DEF c, s

LEMMA EnteredLen ==
    ASSUME NEW b, BuilderOK(b), NEW c, NEW names, Entered(b, c, names)
    PROVE  /\ Len(b.scopes) \in Nat /\ Len(b.shifts) \in Nat /\ b.numRegs \in Nat /\ c.numRegs \in Nat
           /\ c.scopes # <<>>
  <1>1. Len(b.scopes) \in Nat /\ Len(b.shifts) \in Nat /\ b.numRegs \in Nat
    BY ListFacts DEF BuilderOK
  <1>2. IsList(c.scopes) /\ Len(c.scopes) = Len(b.scopes) + 1 /\ c.numRegs \in Nat
    BY DEF Entered, BuilderOK
  <1>3. c.scopes # <<>>
    BY <1>1, <1>2, ListFacts
  <1> QED
    BY <1>1, <1>2, <1>3

\* A scope with a name of the next register: that of a for, of an if and of a range.
LEMMA EnterWith ==
    ASSUME NEW b, BuilderOK(b), NEW e, SameVariables(newRegister(enterScope(b)), e), NEW name
    PROVE  Entered(b, bindVarReg(e, name, b.numRegs + 1), {name})
  <1> DEFINE c == newRegister(enterScope(b))
             d == bindVarReg(e, name, b.numRegs + 1)
             L == Len(b.scopes)
  <1>0. Entered(b, enterScope(b), {})
    BY EnterScope
  <1>1. Entered(b, c, {})
    BY <1>0, NewRegister
  <1>2. Entered(b, e, {}) /\ BuilderOK(e)
    BY <1>1, EnteredSame DEF Entered
  <1>3. L \in Nat /\ Len(b.shifts) \in Nat /\ b.numRegs \in Nat /\ e.numRegs \in Nat /\ e.scopes # <<>>
    BY <1>2, EnteredLen
  <1>4. e.numRegs > b.numRegs
    <2>1. e.numRegs = enterScope(b).numRegs + 1
      BY <1>0 DEF SameVariables, newRegister, Entered, BuilderOK, BuilderFields
    <2>2. enterScope(b).numRegs >= b.numRegs /\ enterScope(b).numRegs \in Nat
      BY <1>0 DEF Entered, BuilderOK
    <2> QED
      BY <1>3, <2>1, <2>2
  <1>5. DOMAIN e.scopes[L + 1] = {} /\ Len(e.scopes) = L + 1
    BY <1>2 DEF Entered
  <1>6. /\ d.shifts = e.shifts /\ d.numRegs = e.numRegs /\ d.base = e.base /\ d.merged = e.merged
        /\ Len(d.scopes) = L + 1 /\ \A s \in 1..L+1-1 : d.scopes[s] = e.scopes[s]
        /\ DOMAIN d.scopes[L + 1] = DOMAIN e.scopes[L + 1] \cup {name}
        /\ \A n \in DOMAIN e.scopes[L + 1] \cup {name} :
             d.scopes[L + 1][n] = IF n = name THEN b.numRegs + 1 ELSE e.scopes[L + 1][n]
        /\ BuilderOK(d)
    BY <1>2, <1>3, <1>5, BindRegister
  <1>7. L + 1 - 1 = L
    BY <1>3
  <1> HIDE DEF d
  <1>8. /\ \A s \in 1..L : d.scopes[s] = e.scopes[s]
        /\ DOMAIN d.scopes[L + 1] = {name} /\ d.scopes[L + 1][name] = b.numRegs + 1
    BY <1>5, <1>6, <1>7
  <1>9. d.numRegs >= b.numRegs /\ d.numRegs > b.numRegs
    BY <1>3, <1>4, <1>6
  <1> QED
    BY <1>2, <1>6, <1>8, <1>9 DEF Entered, d

LEMMA ExitScope ==
    ASSUME NEW b, BuilderOK(b), b.scopes # <<>>, b.shifts # <<>>
    PROVE  Exited(b, exitScope(b), Len(b.scopes) - 1, Len(b.shifts) - 1)
  <1> DEFINE s == b.scopes
             h == b.shifts
             c == exitScope(b)
  <1>1. /\ DOMAIN c = BuilderFields /\ c.scopes = Front(s) /\ c.shifts = Front(h) /\ c.numRegs = Last(h)
        /\ c.base = b.base /\ c.merged = b.merged
    BY DEF BuilderOK, BuilderFields, exitScope, exitStack
  <1>2. IsList(s) /\ s # <<>> /\ IsList(h) /\ h # <<>> /\ \A t \in 1..Len(h) : h[t] \in Nat
    BY DEF BuilderOK
  <1> HIDE DEF s, h, c
  <1>3. Len(s) \in Nat /\ Len(s) > 0 /\ Len(h) \in Nat /\ Len(h) > 0
    BY <1>2, ListFacts
  <1>4. IsList(Front(s)) /\ Len(Front(s)) = Len(s) - 1 /\ \A j \in 1..Len(s)-1 : Front(s)[j] = s[j]
    BY <1>2, ListFront
  <1>5. IsList(Front(h)) /\ Len(Front(h)) = Len(h) - 1 /\ (\A j \in 1..Len(h)-1 : Front(h)[j] = h[j])
        /\ Last(h) = h[Len(h)]
    BY <1>2, ListFront
  <1>6. (\A t \in 1..Len(h)-1 : h[t] \in Nat) /\ h[Len(h)] \in Nat /\ (Len(h) - 1) + 1 = Len(h)
    BY <1>2, <1>3
  <1>7. BuilderOK(c)
    BY <1>1, <1>4, <1>5, <1>6 DEF BuilderOK
  <1> QED
    BY <1>1, <1>3, <1>4, <1>5, <1>6, <1>7 DEF Exited, c, s, h

LEMMA ExitStack ==
    ASSUME NEW b, BuilderOK(b), b.shifts # <<>>
    PROVE  Exited(b, exitStack(b), Len(b.scopes), Len(b.shifts) - 1)
  <1> DEFINE h == b.shifts
             c == exitStack(b)
  <1>1. /\ DOMAIN c = BuilderFields /\ c.scopes = b.scopes /\ c.shifts = Front(h) /\ c.numRegs = Last(h)
        /\ c.base = b.base /\ c.merged = b.merged
    BY DEF BuilderOK, BuilderFields, exitStack
  <1>2. IsList(b.scopes) /\ IsList(h) /\ h # <<>> /\ \A t \in 1..Len(h) : h[t] \in Nat
    BY DEF BuilderOK
  <1> HIDE DEF h, c
  <1>3. Len(b.scopes) \in Nat /\ Len(h) \in Nat /\ Len(h) > 0
    BY <1>2, ListFacts
  <1>5. IsList(Front(h)) /\ Len(Front(h)) = Len(h) - 1 /\ (\A j \in 1..Len(h)-1 : Front(h)[j] = h[j])
        /\ Last(h) = h[Len(h)]
    BY <1>2, ListFront
  <1>6. (\A t \in 1..Len(h)-1 : h[t] \in Nat) /\ h[Len(h)] \in Nat /\ (Len(h) - 1) + 1 = Len(h)
    BY <1>2, <1>3
  <1>7. BuilderOK(c)
    BY <1>1, <1>2, <1>5, <1>6 DEF BuilderOK
  <1> QED
    BY <1>1, <1>2, <1>3, <1>5, <1>6, <1>7 DEF Exited, c, h

LEMMA ExitedSame ==
    \A b, c, d, a, t : Exited(b, c, a, t) /\ SameVariables(c, d) => Exited(b, d, a, t)
  <1> SUFFICES ASSUME NEW b, NEW c, NEW d, NEW a, NEW t, Exited(b, c, a, t), SameVariables(c, d) PROVE Exited(b, d, a, t)
    OBVIOUS
  <1>1. BuilderOK(d)
    BY SameOK DEF Exited
  <1> QED
    BY <1>1 DEF Exited, SameVariables

LEMMA SameExited ==
    \A b, c, d, a, t : SameVariables(b, c) /\ Exited(c, d, a, t) => Exited(b, d, a, t)
  BY DEF Exited, SameVariables

LEMMA SameEntered ==
    \A b, c, d, names : SameVariables(b, c) /\ Entered(c, d, names) => Entered(b, d, names)
  BY DEF Entered, SameVariables

LEMMA ExitedTwice ==
    ASSUME NEW b, BuilderOK(b), NEW c, NEW d, NEW a \in Nat, NEW t \in Nat, NEW e \in Nat, NEW u \in Nat,
           Exited(b, c, a, t), Exited(c, d, e, u)
    PROVE  Exited(b, d, e, u)
  <1>1. Len(b.scopes) \in Nat /\ Len(b.shifts) \in Nat
    BY ListFacts DEF BuilderOK
  <1>2. a <= Len(b.scopes) /\ t < Len(b.shifts) /\ e <= a /\ u < t
    BY DEF Exited
  <1>3. (\A s \in 1..e : s \in 1..a) /\ (\A s \in 1..u : s \in 1..t) /\ u + 1 \in 1..t
    BY <1>2
  <1> QED
    BY <1>1, <1>2, <1>3 DEF Exited

-----------------------------------------------------------------------------
(***************************************************************************)
(* The current function, when its builder and the last scopes change.      *)
(***************************************************************************)
LEMMA LookupTop ==
    ASSUME NEW s, IsList(s), s # <<>>, NEW name, name \in DOMAIN s[Len(s)]
    PROVE  scopeLookup(s, name) = s[Len(s)][name]
  <1> DEFINE declared == {i \in DOMAIN s : name \in DOMAIN s[i]}
             highest == CHOOSE i \in declared : \A j \in declared : j <= i
  <1>1. Len(s) \in Nat /\ DOMAIN s = 1..Len(s) /\ Len(s) > 0
    BY ListFacts
  <1>2. Len(s) \in declared /\ \A j \in declared : j <= Len(s) /\ j \in Nat
    BY <1>1
  <1>3. scopeLookup(s, name) = IF declared = {} THEN 0 ELSE s[highest][name]
    BY DEF scopeLookup
  <1> HIDE DEF declared
  <1>4. highest \in declared /\ \A j \in declared : j <= highest
    BY <1>2
  <1> HIDE DEF highest
  <1>5. highest = Len(s)
    BY <1>1, <1>2, <1>4
  <1> QED
    BY <1>2, <1>3, <1>5

\* The for and the if declare a name in their scope.
LEMMA EnterDeclaring ==
    ASSUME NEW b, BuilderOK(b), NEW name
    PROVE  LET c == emitDeclaration(enterScope(b), name)
           IN  Entered(b, c, {name}) /\ scopeLookup(c.scopes, name) = b.numRegs + 1
  <1> DEFINE e == enterScope(b)
             f == Emit(newRegister(e), "move")
             c == bindVarReg(f, name, e.numRegs + 1)
  <1>1. Entered(b, e, {}) /\ e.numRegs = b.numRegs
    BY EnterScope
  <1>2. Len(b.scopes) \in Nat /\ e.scopes # <<>>
    BY <1>1, EnteredLen
  <1>3. name \notin DOMAIN Last(e.scopes)
    BY <1>1, <1>2 DEF Entered, Last
  <1>4. emitDeclaration(e, name) = c
    BY <1>3 DEF emitDeclaration
  <1>5. SameVariables(newRegister(e), f)
    <2>1. Entered(b, newRegister(e), {})
      BY <1>1, NewRegister
    <2> QED
      BY <2>1, SameOps DEF Entered, BuilderOK
  <1>6. Entered(b, bindVarReg(f, name, b.numRegs + 1), {name})
    BY <1>5, EnterWith
  <1>7. Entered(b, c, {name})
    BY <1>1, <1>6
  <1> HIDE DEF c
  <1>8. IsList(c.scopes) /\ c.scopes # <<>> /\ Len(c.scopes) = Len(b.scopes) + 1
    BY <1>7, EnteredLen DEF Entered, BuilderOK
  <1>9. name \in DOMAIN c.scopes[Len(c.scopes)] /\ c.scopes[Len(c.scopes)][name] = b.numRegs + 1
    BY <1>7, <1>8 DEF Entered
  <1>10. scopeLookup(c.scopes, name) = b.numRegs + 1
    BY <1>8, <1>9, LookupTop
  <1> QED
    BY <1>4, <1>7, <1>10

-----------------------------------------------------------------------------
LEMMA MappedSame ==
    ASSUME NEW b, NEW c, NEW ss, NEW hi, NEW A, NEW T, Mapped(b, ss, hi, A, T), SameVariables(b, c)
    PROVE  Mapped(c, ss, hi, A, T)
  <1>1. BuilderOK(c)
    BY SameOK DEF Mapped
  <1> QED
    BY <1>1 DEF Mapped, InScopes, VariablesKept, Held, FromSource, NotShared, SameVariables

\* It depends on the scopes of the function only.
AlikeIn(lo, hi, ss, A, T, tt, B, U) ==
  \A i \in lo+1..hi : /\ A[i] = B[i] /\ T[i] = U[i] /\ DOMAIN ss[i] = DOMAIN tt[i]
                      /\ \A n \in DOMAIN ss[i] : ss[i][n] = tt[i][n]

LEMMA MappedAlike ==
    ASSUME NEW b, NEW hi \in Nat, NEW ss, NEW A, NEW T, NEW tt, NEW B, NEW U,
           Mapped(b, ss, hi, A, T), AlikeIn(b.base, hi, ss, A, T, tt, B, U)
    PROVE  Mapped(b, tt, hi, B, U)
  <1>1. b.base \in Nat /\ b.base < hi /\ hi \in b.base+1..hi
    BY DEF Mapped, BuilderOK, InScopes
  <1>2. InScopes(b, b.base, hi, B, U)
    BY <1>1 DEF Mapped, InScopes, AlikeIn
  <1>3. ASSUME ~b.merged PROVE VariablesKept(b, tt, b.base, hi, B, U)
    <2> DEFINE lo == b.base
    <2>1. VariablesKept(b, ss, lo, hi, A, T)
      BY <1>3 DEF Mapped
    <2> HIDE DEF lo
    <2>2. \A i \in lo+1..hi : /\ A[i] = B[i] /\ T[i] = U[i] /\ DOMAIN ss[i] = DOMAIN tt[i]
                              /\ \A n \in DOMAIN ss[i] : ss[i][n] = tt[i][n]
      BY DEF AlikeIn, lo
    <2>3. VariablesKept(b, tt, lo, hi, B, U)
      BY <2>1, <2>2 DEF VariablesKept, Held, FromSource, NotShared
    <2> QED
      BY <2>3 DEF lo
  <1> QED
    BY <1>2, <1>3 DEF Mapped

LEMMA MappedFacts ==
    ASSUME NEW b, NEW hi \in Nat, NEW ss, NEW A \in [Nat -> Nat], NEW T \in [Nat -> Nat], Mapped(b, ss, hi, A, T)
    PROVE  /\ BuilderOK(b) /\ b.base \in Nat /\ b.base < hi /\ b.numRegs \in Nat
           /\ A[hi] = Len(b.scopes) /\ T[hi] = Len(b.shifts)
           /\ Len(b.scopes) \in Nat /\ Len(b.shifts) \in Nat /\ Len(b.scopes) >= 1 /\ Len(b.shifts) >= 1
           /\ b.scopes # <<>> /\ b.shifts # <<>>
           /\ \A i \in b.base+1..hi : i \in Nat /\ A[i] \in 1..Len(b.scopes) /\ T[i] \in 1..Len(b.shifts)
  <1>1. BuilderOK(b) /\ InScopes(b, b.base, hi, A, T)
    BY DEF Mapped
  <1>2. b.base \in Nat /\ b.base < hi /\ b.numRegs \in Nat /\ Len(b.scopes) \in Nat /\ Len(b.shifts) \in Nat
    BY <1>1, ListFacts DEF InScopes, BuilderOK
  <1> DEFINE lo == b.base
             a == Len(b.scopes)
             t == Len(b.shifts)
  <1>3. lo \in Nat /\ lo < hi /\ a \in Nat /\ t \in Nat /\ InScopes(b, lo, hi, A, T) /\ A[hi] = a /\ T[hi] = t
    BY <1>1, <1>2 DEF InScopes
  <1> HIDE DEF lo, a, t
  <1>4. \A i \in lo+1..hi : i \in Nat /\ A[i] \in 1..a /\ T[i] \in 1..t
    <2>1. hi \in lo+1..hi
      BY <1>3
    <2> TAKE i \in lo+1..hi
    <2>2. i \in Nat /\ i <= hi
      BY <1>3
    <2>3. A[i] \in Nat /\ T[i] \in Nat /\ A[i] >= 1 /\ T[i] >= 1 /\ A[i] <= a /\ T[i] <= t
      BY <1>3, <2>1, <2>2 DEF InScopes
    <2> QED
      BY <1>3, <2>2, <2>3
  <1>5. hi \in lo+1..hi /\ a >= 1 /\ t >= 1
    <2>1. hi \in lo+1..hi
      BY <1>3
    <2> QED
      BY <1>3, <1>4, <2>1
  <1>6. b.scopes # <<>> /\ b.shifts # <<>>
    <2>1. IsList(b.scopes) /\ IsList(b.shifts)
      BY <1>1 DEF BuilderOK
    <2>0. a > 0 /\ t > 0
      BY <1>3, <1>5
    <2>2. Len(b.scopes) > 0 /\ Len(b.shifts) > 0
      BY <2>0 DEF a, t
    <2> QED
      BY <2>1, <2>2, ListFacts
  <1> QED
    BY <1>1, <1>2, <1>3, <1>4, <1>5, <1>6 DEF lo, a, t

LEMMA MappedPlain ==
    ASSUME NEW b, NEW hi \in Nat, NEW ss, NEW A \in [Nat -> Nat], NEW T \in [Nat -> Nat], Mapped(b, ss, hi, A, T)
    PROVE  /\ b.base \in Nat /\ b.base < hi /\ b.numRegs \in Nat /\ Len(b.scopes) \in Nat /\ Len(b.shifts) \in Nat
           /\ A[hi] = Len(b.scopes) /\ T[hi] = Len(b.shifts) /\ IsList(b.scopes) /\ IsList(b.shifts)
           /\ \A t \in 1..Len(b.shifts) : b.shifts[t] \in Nat
           /\ \A i \in b.base+1..hi : i \in Nat /\ A[i] \in 1..Len(b.scopes) /\ T[i] \in 1..Len(b.shifts)
           /\ \A i, j \in b.base+1..hi : i <= j => A[i] <= A[j] /\ T[i] <= T[j]
           /\ ~b.merged => /\ Held(b.scopes, b.shifts, b.numRegs, ss, b.base, hi, A, T)
                           /\ FromSource(b.scopes, ss, b.base, hi, A) /\ NotShared(ss, b.base, hi)
  <1>1. BuilderOK(b) /\ InScopes(b, b.base, hi, A, T) /\ (~b.merged => VariablesKept(b, ss, b.base, hi, A, T))
    BY DEF Mapped
  <1> QED
    BY <1>1, MappedFacts DEF InScopes, VariablesKept, BuilderOK

\* A scope that the builder has as well.
LEMMA MappedEnters ==
    ASSUME NEW b, NEW c, NEW hi \in Nat, NEW ss, NEW A \in [Nat -> Nat], NEW T \in [Nat -> Nat], NEW names,
           Mapped(b, ss, hi, A, T), Entered(b, c, names), A[hi + 1] = A[hi] + 1, T[hi + 1] = T[hi] + 1,
           DOMAIN ss[hi + 1] = names, \A n \in names : ss[hi + 1][n] = b.numRegs + 1,
           \A n, m \in names : n = m
    PROVE  Mapped(c, ss, hi + 1, A, T)
  <1> DEFINE lo == b.base
             sc == b.scopes
             sh == b.shifts
             a == Len(sc)
             t == Len(sh)
             r == b.numRegs
             sd == c.scopes
             si == c.shifts
             q == c.numRegs
             Good == ~b.merged
  <1>1. /\ lo \in Nat /\ lo < hi /\ r \in Nat /\ a \in Nat /\ t \in Nat
        /\ A[hi] = a /\ T[hi] = t
        /\ (\A i \in lo+1..hi : i \in Nat /\ A[i] \in 1..a /\ T[i] \in 1..t)
        /\ \A i, j \in lo+1..hi : i <= j => A[i] <= A[j] /\ T[i] <= T[j]
    <2>1. lo \in Nat /\ lo < hi /\ r \in Nat /\ a \in Nat /\ t \in Nat /\ A[hi] = a /\ T[hi] = t
      <3>1. lo \in Nat
        BY MappedFacts
      <3>2. lo < hi
        BY MappedFacts
      <3>3. r \in Nat
        BY MappedFacts
      <3>4. a \in Nat /\ t \in Nat
        BY MappedFacts
      <3>5. A[hi] = a /\ T[hi] = t
        BY DEF Mapped, InScopes
      <3> QED
        BY <3>1, <3>2, <3>3, <3>4, <3>5
    <2>2. \A i \in lo+1..hi : i \in Nat /\ A[i] \in 1..a /\ T[i] \in 1..t
      BY MappedPlain
    <2>3. \A i, j \in lo+1..hi : i <= j => A[i] <= A[j] /\ T[i] <= T[j]
      BY MappedPlain
    <2> QED
      BY <2>1, <2>2, <2>3
  <1>2. Good => Held(sc, sh, r, ss, lo, hi, A, T) /\ FromSource(sc, ss, lo, hi, A) /\ NotShared(ss, lo, hi)
    BY MappedPlain
  <1>3. /\ BuilderOK(c) /\ c.base = lo /\ (~c.merged <=> Good) /\ q \in Nat
    BY DEF Entered, BuilderOK
  <1>4. /\ Len(sd) = a + 1 /\ \A s \in 1..a : sd[s] = sc[s]
        /\ DOMAIN sd[a + 1] = names
        /\ \A n \in names : sd[a + 1][n] = r + 1
        /\ Len(si) = t + 1 /\ \A u \in 1..t : si[u] = sh[u]
        /\ si[t + 1] = r /\ q >= r /\ (names # {} => q > r)
    BY DEF Entered
  <1>5. DOMAIN ss[hi + 1] = names /\ \A n \in names : ss[hi + 1][n] = r + 1
    OBVIOUS
  <1>6. (InScopes(c, lo, hi + 1, A, T) <=>
           /\ lo < hi + 1 /\ A[hi + 1] = Len(sd) /\ T[hi + 1] = Len(si)
           /\ \A i \in lo+1..hi+1 : A[i] >= 1 /\ T[i] >= 1
           /\ \A i, j \in lo+1..hi+1 : i <= j => A[i] <= A[j] /\ T[i] <= T[j])
    BY DEF InScopes
  <1>7. VariablesKept(c, ss, lo, hi + 1, A, T) <=>
          /\ Held(sd, si, q, ss, lo, hi + 1, A, T) /\ FromSource(sd, ss, lo, hi + 1, A) /\ NotShared(ss, lo, hi + 1)
    BY DEF VariablesKept
  <1> HIDE DEF lo, sc, sh, a, t, r, sd, si, q, Good
  <1>8. \A i \in lo+1..hi+1 : i \in lo+1..hi \/ i = hi + 1
    BY <1>1
  <1>9. hi \in lo+1..hi /\ hi + 1 \in lo+1..hi+1 /\ (\A i \in lo+1..hi : i \in lo+1..hi+1 /\ ~(hi + 1 <= i))
    BY <1>1
  <1>10. InScopes(c, lo, hi + 1, A, T)
    <2>1. \A i \in lo+1..hi+1 : A[i] >= 1 /\ T[i] >= 1 /\ A[i] <= a + 1 /\ T[i] <= t + 1
      BY <1>1, <1>8
    <2>2. ASSUME NEW i \in lo+1..hi+1, NEW j \in lo+1..hi+1, i <= j PROVE A[i] <= A[j] /\ T[i] <= T[j]
      <3>1. CASE j = hi + 1
        BY <1>1, <2>1, <3>1
      <3>2. CASE j \in lo+1..hi
        <4>1. i \in lo+1..hi
          BY <1>8, <1>9, <2>2, <3>2
        <4> QED
          BY <1>1, <2>2, <3>2, <4>1
      <3> QED
        BY <1>8, <3>1, <3>2
    <2>3. lo < hi + 1 /\ A[hi + 1] = Len(sd) /\ T[hi + 1] = Len(si)
      BY <1>1, <1>4
    <2> QED
      BY <1>6, <2>1, <2>2, <2>3
  <1>11. ASSUME Good PROVE VariablesKept(c, ss, lo, hi + 1, A, T)
    <2>1. Held(sc, sh, r, ss, lo, hi, A, T) /\ FromSource(sc, ss, lo, hi, A) /\ NotShared(ss, lo, hi)
      BY <1>2, <1>11
    <2>2. \A i \in lo+1..hi : \A n \in DOMAIN ss[i] : ss[i][n] \in Nat /\ ss[i][n] >= 1 /\ ss[i][n] <= r
      <3> TAKE i \in lo+1..hi
      <3> TAKE n \in DOMAIN ss[i]
      <3> DEFINE v == ss[i][n]
      <3>1. v \in 1..r
        BY <2>1 DEF Held
      <3> HIDE DEF v
      <3>2. v \in Nat /\ v >= 1 /\ v <= r
        BY <1>1, <3>1
      <3> QED
        BY <3>2 DEF v
    <2>3. ASSUME NEW i \in lo+1..hi+1, NEW n \in DOMAIN ss[i]
          PROVE  /\ n \in DOMAIN sd[A[i]] /\ sd[A[i]][n] = ss[i][n]
                 /\ ss[i][n] \in 1..q
                 /\ \A u \in T[i]+1..t+1 : ss[i][n] <= si[u]
      <3>1. CASE i = hi + 1
        <4>1. A[i] = a + 1 /\ T[i] = t + 1
          BY <1>1, <3>1
        <4>2. n \in names /\ ss[i][n] = r + 1
          BY <1>5, <3>1
        <4>3. \A u \in t+1+1..t+1 : FALSE
          BY <1>1
        <4>4. r + 1 \in 1..q
          BY <1>1, <1>3, <1>4, <4>2
        <4> QED
          BY <1>4, <4>1, <4>2, <4>3, <4>4
      <3>2. CASE i \in lo+1..hi
        <4>1. A[i] \in 1..a /\ T[i] \in 1..t
          BY <1>1, <3>2
        <4> DEFINE v == ss[i][n]
        <4>2. v \in Nat /\ v >= 1 /\ v <= r
          BY <2>2, <3>2
        <4>4. n \in DOMAIN sc[A[i]] /\ sc[A[i]][n] = v /\ \A u \in T[i]+1..t : v <= sh[u]
          BY <2>1, <3>2 DEF Held, t
        <4> HIDE DEF v
        <4>3. ASSUME NEW u \in T[i]+1..t+1 PROVE v <= si[u]
          <5>1. u = t + 1 \/ (u \in T[i]+1..t /\ u \in 1..t)
            BY <1>1, <4>1
          <5> QED
            BY <1>4, <4>2, <4>4, <5>1
        <4>5. v \in 1..q
          BY <1>1, <1>3, <1>4, <4>2
        <4>6. n \in DOMAIN sd[A[i]] /\ sd[A[i]][n] = v
          BY <1>4, <4>1, <4>4
        <4> QED
          BY <4>3, <4>5, <4>6 DEF v
      <3> QED
        BY <1>8, <3>1, <3>2
    <2>4. ASSUME NEW s \in 1..a+1, NEW n \in DOMAIN sd[s]
          PROVE  \E i \in lo+1..hi+1 : A[i] = s /\ n \in DOMAIN ss[i]
      <3>1. s = a + 1 \/ s \in 1..a
        BY <1>1
      <3>2. CASE s = a + 1
        <4>1. A[hi + 1] = s /\ n \in DOMAIN ss[hi + 1]
          BY <1>1, <1>4, <1>5, <3>2
        <4> QED
          BY <1>9, <4>1
      <3>3. CASE s \in 1..a
        <4>1. n \in DOMAIN sc[s]
          BY <1>4, <3>3
        <4>2. \E i \in lo+1..hi : A[i] = s /\ n \in DOMAIN ss[i]
          BY <2>1, <3>3, <4>1 DEF FromSource, a
        <4> QED
          BY <1>9, <4>2
      <3> QED
        BY <3>1, <3>2, <3>3
    <2>5. ASSUME NEW i \in lo+1..hi+1, NEW j \in lo+1..hi+1, NEW n \in DOMAIN ss[i], NEW m \in DOMAIN ss[j],
                 ss[i][n] = ss[j][m]
          PROVE  i = j /\ n = m
      <3>0. r + 1 \in Nat /\ ~(r + 1 <= r)
        BY <1>1
      <3>1. CASE i \in lo+1..hi /\ j \in lo+1..hi
        BY <2>1, <2>5, <3>1 DEF NotShared
      <3>2. CASE i = hi + 1 /\ j = hi + 1
        BY <1>5, <3>2
      <3>3. CASE i = hi + 1 /\ j \in lo+1..hi
        <4>1. ss[i][n] = r + 1
          BY <1>5, <3>3
        <4>2. ss[j][m] <= r
          BY <2>2, <3>3
        <4> QED
          BY <2>5, <3>0, <4>1, <4>2
      <3>4. CASE j = hi + 1 /\ i \in lo+1..hi
        <4>1. ss[j][m] = r + 1
          BY <1>5, <3>4
        <4>2. ss[i][n] <= r
          BY <2>2, <3>4
        <4> QED
          BY <2>5, <3>0, <4>1, <4>2
      <3> QED
        BY <1>8, <3>1, <3>2, <3>3, <3>4
    <2>6. Held(sd, si, q, ss, lo, hi + 1, A, T)
      BY <1>4, <2>3 DEF Held
    <2>7. FromSource(sd, ss, lo, hi + 1, A)
      BY <1>4, <2>4 DEF FromSource
    <2>8. NotShared(ss, lo, hi + 1)
      BY <2>5 DEF NotShared
    <2> QED
      BY <1>7, <2>6, <2>7, <2>8
  <1> QED
    BY <1>3, <1>10, <1>11 DEF Mapped

\* A scope of the source that the builder has not.
LEMMA MappedStays ==
    ASSUME NEW b, NEW c, NEW hi \in Nat, NEW ss, NEW A \in [Nat -> Nat], NEW T \in [Nat -> Nat],
           Mapped(b, ss, hi, A, T), DOMAIN ss[hi + 1] = {}, A[hi + 1] = A[hi],
           \/ SameVariables(b, c) /\ T[hi + 1] = T[hi]
           \/ Stacked1(b, c) /\ T[hi + 1] = T[hi] + 1
    PROVE  Mapped(c, ss, hi + 1, A, T)
  <1> DEFINE lo == b.base
             sc == b.scopes
             sh == b.shifts
             a == Len(sc)
             t == Len(sh)
             r == b.numRegs
             si == c.shifts
             q == c.numRegs
             d == T[hi + 1]
             Good == ~b.merged
  <1>1. /\ lo \in Nat /\ lo < hi /\ r \in Nat /\ a \in Nat /\ t \in Nat
        /\ A[hi] = a /\ T[hi] = t
        /\ (\A i \in lo+1..hi : i \in Nat /\ A[i] \in 1..a /\ T[i] \in 1..t)
        /\ \A i, j \in lo+1..hi : i <= j => A[i] <= A[j] /\ T[i] <= T[j]
    <2>1. lo \in Nat /\ lo < hi /\ r \in Nat /\ a \in Nat /\ t \in Nat
      BY MappedFacts
    <2>2. \A i \in lo+1..hi : i \in Nat /\ A[i] \in 1..a /\ T[i] \in 1..t
      BY MappedPlain
    <2>3. \A i, j \in lo+1..hi : i <= j => A[i] <= A[j] /\ T[i] <= T[j]
      BY MappedPlain
    <2>4. A[hi] = a /\ T[hi] = t
      BY DEF Mapped, InScopes
    <2> QED
      BY <2>1, <2>2, <2>3, <2>4
  <1>2. Good => Held(sc, sh, r, ss, lo, hi, A, T) /\ FromSource(sc, ss, lo, hi, A) /\ NotShared(ss, lo, hi)
    BY MappedPlain
  <1>3. BuilderOK(c) /\ c.base = lo /\ (~c.merged <=> Good) /\ q \in Nat /\ c.scopes = sc
    <2>1. CASE SameVariables(b, c)
      <3>1. BuilderOK(b)
        BY MappedFacts
      <3>2. BuilderOK(c)
        BY <2>1, <3>1, SameOK
      <3> QED
        BY <2>1, <3>2 DEF SameVariables, BuilderOK
    <2>2. CASE Stacked1(b, c)
      BY <2>2 DEF Stacked1, BuilderOK
    <2> QED
      BY <2>1, <2>2
  <1>4. /\ Len(si) = d /\ (d = t \/ d = t + 1) /\ (\A u \in 1..t : si[u] = sh[u])
        /\ (d = t + 1 => si[t + 1] = r) /\ q >= r
    <2>1. CASE SameVariables(b, c) /\ d = T[hi]
      <3>1. si = sh /\ q = r /\ d = t
        BY <1>1, <2>1 DEF SameVariables
      <3> HIDE DEF d, t, sh, si, q, r
      <3>2. q >= r /\ Len(sh) = t /\ t # t + 1
        BY <1>1, <3>1 DEF t
      <3> QED
        BY <3>1, <3>2
    <2>2. CASE Stacked1(b, c) /\ d = T[hi] + 1
      <3>1. d = t + 1
        BY <1>1, <2>2
      <3> QED
        BY <2>2, <3>1 DEF Stacked1
    <2> QED
      BY <2>1, <2>2
  <1>5. DOMAIN ss[hi + 1] = {} /\ A[hi + 1] = A[hi] /\ T[hi + 1] = d
    OBVIOUS
  <1>6. (InScopes(c, lo, hi + 1, A, T) <=>
           /\ lo < hi + 1 /\ A[hi + 1] = Len(c.scopes) /\ T[hi + 1] = Len(si)
           /\ \A i \in lo+1..hi+1 : A[i] >= 1 /\ T[i] >= 1
           /\ \A i, j \in lo+1..hi+1 : i <= j => A[i] <= A[j] /\ T[i] <= T[j])
    BY DEF InScopes
  <1>7. VariablesKept(c, ss, lo, hi + 1, A, T) <=>
          /\ Held(sc, si, q, ss, lo, hi + 1, A, T) /\ FromSource(sc, ss, lo, hi + 1, A) /\ NotShared(ss, lo, hi + 1)
    BY <1>3 DEF VariablesKept
  <1> HIDE DEF lo, sc, sh, a, t, r, si, q, d, Good
  <1>8. \A i \in lo+1..hi+1 : i \in lo+1..hi \/ i = hi + 1
    BY <1>1
  <1>9. hi \in lo+1..hi /\ hi + 1 \in lo+1..hi+1 /\ (\A i \in lo+1..hi : i \in lo+1..hi+1 /\ ~(hi + 1 <= i))
    BY <1>1
  <1>10. InScopes(c, lo, hi + 1, A, T)
    <2>0. d \in Nat /\ t <= d
      <3>1. t \in Nat
        BY <1>1
      <3>2. d = t \/ d = t + 1
        BY <1>4
      <3> QED
        BY <3>1, <3>2
    <2>1. \A i \in lo+1..hi+1 : A[i] >= 1 /\ T[i] >= 1 /\ A[i] <= a /\ T[i] <= d
      BY <1>1, <1>5, <1>8, <1>9, <2>0
    <2>2. ASSUME NEW i \in lo+1..hi+1, NEW j \in lo+1..hi+1, i <= j PROVE A[i] <= A[j] /\ T[i] <= T[j]
      <3>1. CASE j = hi + 1
        BY <1>1, <1>5, <2>1, <3>1
      <3>2. CASE j \in lo+1..hi
        <4>1. i \in lo+1..hi
          BY <1>8, <1>9, <2>2, <3>2
        <4> QED
          BY <1>1, <2>2, <3>2, <4>1
      <3> QED
        BY <1>8, <3>1, <3>2
    <2>3. lo < hi + 1 /\ A[hi + 1] = Len(c.scopes) /\ T[hi + 1] = Len(si)
      BY <1>1, <1>3, <1>4, <1>5 DEF a
    <2> QED
      BY <1>6, <2>1, <2>2, <2>3
  <1>11. ASSUME Good PROVE VariablesKept(c, ss, lo, hi + 1, A, T)
    <2>1. Held(sc, sh, r, ss, lo, hi, A, T) /\ FromSource(sc, ss, lo, hi, A) /\ NotShared(ss, lo, hi)
      BY <1>2, <1>11
    <2>2. ASSUME NEW i \in lo+1..hi+1, NEW n \in DOMAIN ss[i]
          PROVE  /\ n \in DOMAIN sc[A[i]] /\ sc[A[i]][n] = ss[i][n]
                 /\ ss[i][n] \in 1..q
                 /\ \A u \in T[i]+1..d : ss[i][n] <= si[u]
      <3>1. i \in lo+1..hi
        BY <1>5, <1>8
      <3>2. A[i] \in 1..a /\ T[i] \in 1..t
        BY <1>1, <3>1
      <3> DEFINE v == ss[i][n]
      <3>3. v \in 1..r /\ n \in DOMAIN sc[A[i]] /\ sc[A[i]][n] = v /\ \A u \in T[i]+1..t : v <= sh[u]
        BY <2>1, <3>1 DEF Held, t
      <3> HIDE DEF v
      <3>4. v \in 1..q /\ v <= r
        BY <1>1, <1>3, <1>4, <3>3
      <3>5. ASSUME NEW u \in T[i]+1..d PROVE v <= si[u]
        <4> DEFINE w == T[i]
        <4>0. t \in Nat /\ (d = t \/ d = t + 1) /\ w \in 1..t /\ u \in w+1..d
          <5>1. t \in Nat
            BY <1>1
          <5>2. d = t \/ d = t + 1
            BY <1>4
          <5> QED
            BY <3>2, <5>1, <5>2
        <4> HIDE DEF w
        <4>2. (u = t + 1 /\ d = t + 1) \/ (u \in w+1..t /\ u \in 1..t)
          BY <4>0
        <4>1. (u = t + 1 /\ d = t + 1) \/ (u \in T[i]+1..t /\ u \in 1..t)
          BY <4>2 DEF w
        <4> QED
          BY <1>4, <3>3, <3>4, <4>1
      <3> QED
        BY <3>3, <3>4, <3>5 DEF v
    <2>3. ASSUME NEW s \in 1..Len(sc), NEW n \in DOMAIN sc[s]
          PROVE  \E i \in lo+1..hi+1 : A[i] = s /\ n \in DOMAIN ss[i]
      <3>1. \E i \in lo+1..hi : A[i] = s /\ n \in DOMAIN ss[i]
        BY <2>1 DEF FromSource
      <3> QED
        BY <1>9, <3>1
    <2>4. Held(sc, si, q, ss, lo, hi + 1, A, T)
      <3>1. Len(si) = d
        BY <1>4
      <3> QED
        BY <2>2, <3>1 DEF Held
    <2>5. FromSource(sc, ss, lo, hi + 1, A)
      BY <2>3 DEF FromSource
    <2>6. NotShared(ss, lo, hi + 1)
      BY <1>5, <1>8, <2>1 DEF NotShared
    <2> QED
      BY <1>7, <2>4, <2>5, <2>6
  <1> QED
    BY <1>3, <1>10, <1>11 DEF Mapped

\* The scopes after the m-th of the source end.
LEMMA MappedExits ==
    ASSUME NEW b, NEW c, NEW hi \in Nat, NEW m \in Nat, NEW ss, NEW A \in [Nat -> Nat], NEW T \in [Nat -> Nat],
           Mapped(b, ss, hi, A, T), m < hi, b.base < m, Exited(b, c, A[m], T[m]),
           ~b.merged => \A i \in m+1..hi : A[i] > A[m] \/ DOMAIN ss[i] = {}
    PROVE  Mapped(c, ss, m, A, T)
  <1> DEFINE lo == b.base
             sc == b.scopes
             sh == b.shifts
             a == Len(sc)
             t == Len(sh)
             r == b.numRegs
             sd == c.scopes
             si == c.shifts
             q == c.numRegs
             d == A[m]
             e == T[m]
             Good == ~b.merged
  <1>1. /\ lo \in Nat /\ lo < m /\ r \in Nat /\ a \in Nat /\ t \in Nat
        /\ (\A i \in lo+1..hi : i \in Nat /\ A[i] \in 1..a /\ T[i] \in 1..t)
        /\ (\A i, j \in lo+1..hi : i <= j => A[i] <= A[j] /\ T[i] <= T[j])
    <2>1. lo \in Nat /\ lo < m /\ r \in Nat /\ a \in Nat /\ t \in Nat
      BY MappedFacts
    <2>2. \A i \in lo+1..hi : i \in Nat /\ A[i] \in 1..a /\ T[i] \in 1..t
      BY MappedPlain
    <2>3. \A i, j \in lo+1..hi : i <= j => A[i] <= A[j] /\ T[i] <= T[j]
      BY MappedPlain
    <2> QED
      BY <2>1, <2>2, <2>3
  <1>2. Good => Held(sc, sh, r, ss, lo, hi, A, T) /\ FromSource(sc, ss, lo, hi, A) /\ NotShared(ss, lo, hi)
    BY MappedPlain
  <1>3. BuilderOK(c) /\ c.base = lo /\ (~c.merged <=> Good)
    BY DEF Exited
  <1>4. /\ Len(sd) = d /\ d <= a /\ (\A s \in 1..d : sd[s] = sc[s])
        /\ Len(si) = e /\ e < t /\ (\A u \in 1..e : si[u] = sh[u]) /\ q = sh[e + 1]
    BY DEF Exited
  <1>5. (InScopes(c, lo, m, A, T) <=>
           /\ lo < m /\ A[m] = Len(sd) /\ T[m] = Len(si)
           /\ \A i \in lo+1..m : A[i] >= 1 /\ T[i] >= 1
           /\ \A i, j \in lo+1..m : i <= j => A[i] <= A[j] /\ T[i] <= T[j])
    BY DEF InScopes
  <1>6. VariablesKept(c, ss, lo, m, A, T) <=>
          /\ Held(sd, si, q, ss, lo, m, A, T) /\ FromSource(sd, ss, lo, m, A) /\ NotShared(ss, lo, m)
    BY DEF VariablesKept
  <1>7. A[m] = d /\ T[m] = e /\ m < hi /\ d \in Nat /\ e \in Nat
        /\ (Good => \A i \in m+1..hi : A[i] > d \/ DOMAIN ss[i] = {})
    OBVIOUS
  <1> HIDE DEF lo, sc, sh, a, t, r, sd, si, q, d, e, Good
  <1>8. (\A i \in lo+1..m : i \in lo+1..hi /\ i <= m) /\ m \in lo+1..m
    BY <1>1, <1>7
  <1>9. \A i \in lo+1..m : A[i] \in 1..d /\ T[i] \in 1..e
    BY <1>1, <1>7, <1>8
  <1>10. InScopes(c, lo, m, A, T)
    <2>1. \A i \in lo+1..m : A[i] >= 1 /\ T[i] >= 1
      BY <1>1, <1>8
    <2> QED
      BY <1>1, <1>4, <1>5, <1>7, <1>8, <2>1
  <1>11. ASSUME Good PROVE VariablesKept(c, ss, lo, m, A, T)
    <2>1. Held(sc, sh, r, ss, lo, hi, A, T) /\ FromSource(sc, ss, lo, hi, A) /\ NotShared(ss, lo, hi)
      BY <1>2, <1>11
    <2>2. ASSUME NEW i \in lo+1..m, NEW n \in DOMAIN ss[i]
          PROVE  /\ n \in DOMAIN sd[A[i]] /\ sd[A[i]][n] = ss[i][n]
                 /\ ss[i][n] \in 1..q
                 /\ \A u \in T[i]+1..e : ss[i][n] <= si[u]
      <3>1. i \in lo+1..hi
        BY <1>8
      <3>2. A[i] \in 1..d /\ T[i] \in 1..e
        BY <1>9
      <3> DEFINE v == ss[i][n]
      <3>3. v \in 1..r /\ n \in DOMAIN sc[A[i]] /\ sc[A[i]][n] = v /\ \A u \in T[i]+1..t : v <= sh[u]
        BY <2>1, <3>1 DEF Held, t
      <3> HIDE DEF v
      <3> DEFINE w == T[i]
      <3>0. t \in Nat /\ e \in Nat /\ e < t /\ w \in 1..e
        <4>1. t \in Nat
          BY <1>1
        <4>2. e < t
          BY <1>4
        <4> QED
          BY <1>7, <3>2, <4>1, <4>2
      <3>4. e + 1 \in T[i]+1..t
        <4> HIDE DEF w
        <4>1. e + 1 \in w+1..t
          BY <3>0
        <4> QED
          BY <4>1 DEF w
      <3>5. v \in Nat /\ v >= 1 /\ v <= q /\ q \in Nat
        <4>1. q \in Nat
          BY <1>3 DEF BuilderOK, q
        <4>2. q = sh[e + 1]
          BY <1>4
        <4>3. v <= q
          BY <3>3, <3>4, <4>2
        <4>4. v \in Nat /\ v >= 1
          <5>1. r \in Nat /\ v \in 1..r
            BY <1>1, <3>3
          <5> QED
            BY <5>1
        <4> QED
          BY <4>1, <4>3, <4>4
      <3>6. \A u \in T[i]+1..e : u \in T[i]+1..t /\ u \in 1..e
        <4> HIDE DEF w
        <4>1. \A u \in w+1..e : u \in w+1..t /\ u \in 1..e
          BY <3>0
        <4> QED
          BY <4>1 DEF w
      <3>7. n \in DOMAIN sd[A[i]] /\ sd[A[i]][n] = v
        BY <1>4, <3>2, <3>3
      <3>8. \A u \in T[i]+1..e : v <= si[u]
        <4>1. \A u \in 1..e : si[u] = sh[u]
          BY <1>4
        <4> QED
          BY <3>3, <3>6, <4>1
      <3>9. v \in 1..q
        BY <3>5
      <3> QED
        BY <3>7, <3>8, <3>9 DEF v
    <2>3. ASSUME NEW s \in 1..d, NEW n \in DOMAIN sd[s]
          PROVE  \E i \in lo+1..m : A[i] = s /\ n \in DOMAIN ss[i]
      <3>1. s \in 1..a /\ n \in DOMAIN sc[s]
        <4>1. a \in Nat /\ d \in Nat
          BY <1>1, <1>7
        <4>2. d <= a /\ sd[s] = sc[s]
          BY <1>4
        <4> QED
          BY <4>1, <4>2
      <3>2. PICK i \in lo+1..hi : A[i] = s /\ n \in DOMAIN ss[i]
        BY <2>1, <3>1 DEF FromSource, a
      <3>3. CASE i \in lo+1..m
        BY <3>2, <3>3
      <3>4. CASE i \notin lo+1..m
        <4>1. i \in m+1..hi
          BY <1>1, <1>7, <3>4
        <4>2. A[i] > d
          BY <1>7, <1>11, <3>2, <4>1
        <4> QED
          BY <1>7, <3>2, <4>2
      <3> QED
        BY <3>3, <3>4
    <2>4. Held(sd, si, q, ss, lo, m, A, T)
      BY <1>4, <2>2 DEF Held
    <2>5. FromSource(sd, ss, lo, m, A)
      BY <1>4, <2>3 DEF FromSource
    <2>6. NotShared(ss, lo, m)
      BY <1>8, <2>1 DEF NotShared
    <2> QED
      BY <1>6, <2>4, <2>5, <2>6
  <1> QED
    BY <1>3, <1>10, <1>11 DEF Mapped

LEMMA MappedMerged ==
    ASSUME NEW b, NEW c, NEW hi \in Nat, NEW ss, NEW tt, NEW A, NEW T,
           Mapped(b, ss, hi, A, T), BuilderOK(c), c.base = b.base, c.merged,
           Len(c.scopes) = Len(b.scopes), Len(c.shifts) = Len(b.shifts)
    PROVE  Mapped(c, tt, hi, A, T)
  BY DEF Mapped, InScopes

\* A variable in the scope at the top.
Declares(b, c, ss, tt, hi, name) ==
  LET a == Len(b.scopes)
      r == b.numRegs + 1
  IN  /\ BuilderOK(c) /\ c.base = b.base /\ c.merged = b.merged /\ c.shifts = b.shifts /\ c.numRegs = r
      /\ Len(c.scopes) = a /\ name \notin DOMAIN b.scopes[a]
      /\ \A s \in 1..a-1 : c.scopes[s] = b.scopes[s]
      /\ DOMAIN c.scopes[a] = DOMAIN b.scopes[a] \cup {name}
      /\ \A n \in DOMAIN b.scopes[a] \cup {name} : c.scopes[a][n] = IF n = name THEN r ELSE b.scopes[a][n]
      /\ \A i \in b.base+1..hi-1 : DOMAIN tt[i] = DOMAIN ss[i] /\ \A n \in DOMAIN ss[i] : tt[i][n] = ss[i][n]
      /\ DOMAIN tt[hi] = DOMAIN ss[hi] \cup {name}
      /\ \A n \in DOMAIN ss[hi] \cup {name} : tt[hi][n] = IF n = name THEN r ELSE ss[hi][n]

LEMMA MappedDeclares ==
    ASSUME NEW b, NEW c, NEW hi \in Nat, NEW ss, NEW tt, NEW A \in [Nat -> Nat], NEW T \in [Nat -> Nat], NEW name,
           Mapped(b, ss, hi, A, T), Declares(b, c, ss, tt, hi, name)
    PROVE  Mapped(c, tt, hi, A, T)
  <1> DEFINE lo == b.base
             sc == b.scopes
             sh == b.shifts
             a == Len(sc)
             t == Len(sh)
             r == b.numRegs
             sd == c.scopes
             Good == ~b.merged
  <1>1. /\ lo \in Nat /\ lo < hi /\ r \in Nat /\ a \in Nat /\ t \in Nat
        /\ A[hi] = a /\ T[hi] = t
        /\ (\A i \in lo+1..hi : i \in Nat /\ A[i] \in 1..a /\ T[i] \in 1..t)
    <2>1. lo \in Nat /\ lo < hi /\ r \in Nat /\ a \in Nat /\ t \in Nat
      BY MappedFacts
    <2>2. \A i \in lo+1..hi : i \in Nat /\ A[i] \in 1..a /\ T[i] \in 1..t
      BY MappedPlain
    <2>3. A[hi] = a /\ T[hi] = t
      BY DEF Mapped, InScopes
    <2> QED
      BY <2>1, <2>2, <2>3
  <1>2. Good => Held(sc, sh, r, ss, lo, hi, A, T) /\ FromSource(sc, ss, lo, hi, A) /\ NotShared(ss, lo, hi)
    BY MappedPlain
  <1>3. BuilderOK(c) /\ c.base = lo /\ (~c.merged <=> Good) /\ c.shifts = sh /\ c.numRegs = r + 1
    BY DEF Declares
  <1>4. /\ Len(sd) = a /\ name \notin DOMAIN sc[a] /\ \A s \in 1..a-1 : sd[s] = sc[s]
        /\ DOMAIN sd[a] = DOMAIN sc[a] \cup {name}
        /\ \A n \in DOMAIN sc[a] \cup {name} : sd[a][n] = IF n = name THEN r + 1 ELSE sc[a][n]
    BY DEF Declares
  <1>5. /\ \A i \in lo+1..hi-1 : DOMAIN tt[i] = DOMAIN ss[i] /\ \A n \in DOMAIN ss[i] : tt[i][n] = ss[i][n]
        /\ DOMAIN tt[hi] = DOMAIN ss[hi] \cup {name}
        /\ \A n \in DOMAIN ss[hi] \cup {name} : tt[hi][n] = IF n = name THEN r + 1 ELSE ss[hi][n]
    BY DEF Declares
  <1>6. InScopes(c, lo, hi, A, T)
    <2>1. InScopes(b, lo, hi, A, T)
      BY DEF Mapped
    <2> QED
      BY <1>3, <1>4, <2>1 DEF InScopes
  <1>7. VariablesKept(c, tt, lo, hi, A, T) <=>
          /\ Held(sd, sh, r + 1, tt, lo, hi, A, T) /\ FromSource(sd, tt, lo, hi, A) /\ NotShared(tt, lo, hi)
    BY <1>3 DEF VariablesKept
  <1> HIDE DEF lo, sc, sh, a, t, r, sd, Good
  <1>8. hi \in lo+1..hi /\ \A i \in lo+1..hi : i \in lo+1..hi-1 \/ i = hi
    BY <1>1
  <1>9. ASSUME Good PROVE VariablesKept(c, tt, lo, hi, A, T)
    <2>1. Held(sc, sh, r, ss, lo, hi, A, T) /\ FromSource(sc, ss, lo, hi, A) /\ NotShared(ss, lo, hi)
      BY <1>2, <1>9
    \* What was in scope is where it was.
    <2>2. ASSUME NEW i \in lo+1..hi, NEW n \in DOMAIN ss[i]
          PROVE  /\ n \in DOMAIN tt[i] /\ tt[i][n] = ss[i][n] /\ ss[i][n] \in 1..r
                 /\ n \in DOMAIN sd[A[i]] /\ sd[A[i]][n] = ss[i][n]
                 /\ \A u \in T[i]+1..t : ss[i][n] <= sh[u]
      <3>1. /\ ss[i][n] \in 1..r /\ n \in DOMAIN sc[A[i]] /\ sc[A[i]][n] = ss[i][n]
            /\ \A u \in T[i]+1..t : ss[i][n] <= sh[u]
        BY <2>1 DEF Held, t
      <3>2. A[i] \in 1..a-1 \/ A[i] = a
        <4>1. A[i] \in 1..a /\ a \in Nat
          BY <1>1
        <4> QED
          BY <4>1
      <3>3. n \in DOMAIN sd[A[i]] /\ sd[A[i]][n] = sc[A[i]][n]
        <4>1. CASE A[i] \in 1..a-1
          <5>1. sd[A[i]] = sc[A[i]]
            BY <1>4, <4>1
          <5> QED
            BY <3>1, <5>1
        <4>2. CASE A[i] = a
          <5>1. n \in DOMAIN sc[a] /\ n # name
            BY <1>4, <3>1, <4>2
          <5> QED
            BY <1>4, <4>2, <5>1
        <4> QED
          BY <3>2, <4>1, <4>2
      <3>4. n \in DOMAIN tt[i] /\ tt[i][n] = ss[i][n]
        <4>1. CASE i \in lo+1..hi-1
          BY <1>5, <4>1
        <4>2. CASE i = hi
          <5>1. n # name
            BY <1>1, <1>4, <3>1, <4>2
          <5> QED
            BY <1>5, <4>2, <5>1
        <4> QED
          BY <1>8, <4>1, <4>2
      <3> QED
        BY <3>1, <3>3, <3>4
    <2>3. \A i \in lo+1..hi : \A n \in DOMAIN tt[i] : n \in DOMAIN ss[i] \/ (i = hi /\ n = name /\ tt[i][n] = r + 1)
      BY <1>5, <1>8
    <2>4. name \in DOMAIN sd[a] /\ sd[a][name] = r + 1
      BY <1>4
    <2>5. Held(sd, sh, r + 1, tt, lo, hi, A, T)
      <3> SUFFICES ASSUME NEW i \in lo+1..hi, NEW n \in DOMAIN tt[i]
                   PROVE  /\ n \in DOMAIN sd[A[i]] /\ sd[A[i]][n] = tt[i][n]
                          /\ tt[i][n] \in 1..r+1
                          /\ \A u \in T[i]+1..t : tt[i][n] <= sh[u]
        BY DEF Held, t
      <3>1. CASE n \in DOMAIN ss[i]
        <4>1. 1..r \subseteq 1..r+1
          BY <1>1
        <4> QED
          BY <2>2, <3>1, <4>1
      <3>2. CASE i = hi /\ n = name /\ tt[i][n] = r + 1
        <4>1. A[i] = a /\ T[i] = t /\ t \in Nat /\ r \in Nat
          BY <1>1, <3>2
        <4>2. (\A u \in t+1..t : FALSE) /\ r + 1 \in 1..r+1
          BY <4>1
        <4> QED
          BY <2>4, <3>2, <4>1, <4>2
      <3> QED
        BY <2>3, <3>1, <3>2
    <2>6. FromSource(sd, tt, lo, hi, A)
      <3> SUFFICES ASSUME NEW s \in 1..a, NEW n \in DOMAIN sd[s]
                   PROVE  \E i \in lo+1..hi : A[i] = s /\ n \in DOMAIN tt[i]
        BY <1>4 DEF FromSource
      <3>1. CASE s = a /\ n = name
        BY <1>1, <1>5, <1>8, <3>1
      <3>2. CASE n \in DOMAIN sc[s]
        <4>1. PICK i \in lo+1..hi : A[i] = s /\ n \in DOMAIN ss[i]
          BY <2>1, <3>2 DEF FromSource, a
        <4>2. n \in DOMAIN tt[i]
          BY <2>2, <4>1
        <4> QED
          BY <4>1, <4>2
      <3>3. s = a \/ s \in 1..a-1
        <4>1. a \in Nat
          BY <1>1
        <4> QED
          BY <4>1
      <3> QED
        BY <1>4, <3>1, <3>2, <3>3
    <2>7. NotShared(tt, lo, hi)
      <3> SUFFICES ASSUME NEW i \in lo+1..hi, NEW j \in lo+1..hi, NEW n \in DOMAIN tt[i], NEW m \in DOMAIN tt[j],
                          tt[i][n] = tt[j][m]
                   PROVE  i = j /\ n = m
        BY DEF NotShared
      <3>0. \A v \in 1..r : v # r + 1
        BY <1>1
      <3>1. CASE n \in DOMAIN ss[i] /\ m \in DOMAIN ss[j]
        <4>1. ss[i][n] = ss[j][m]
          BY <2>2, <3>1
        <4> QED
          BY <2>1, <3>1, <4>1 DEF NotShared
      <3>2. CASE n \in DOMAIN ss[i] /\ tt[j][m] = r + 1
        BY <2>2, <3>0, <3>2
      <3>3. CASE m \in DOMAIN ss[j] /\ tt[i][n] = r + 1
        BY <2>2, <3>0, <3>3
      <3> QED
        BY <2>3, <3>1, <3>2, <3>3
    <2> QED
      BY <1>7, <2>5, <2>6, <2>7
  <1> QED
    BY <1>3, <1>6, <1>9 DEF Mapped

-----------------------------------------------------------------------------
(***************************************************************************)
(* All the functions, when the current one changes, and the statements     *)
(* that are open with it.                                                  *)
(***************************************************************************)
\* From scope g of the source, after the first p statements, what is open is replaced, up to scope h.
Replaces(bs, ns, ss, F, A, T, p, g, bt, nt, st, E, B, U, h) ==
  LET m == Len(bs)
  IN  /\ F[g] = m /\ E \in [Nat -> Nat] /\ B \in [Nat -> Nat] /\ U \in [Nat -> Nat]
      /\ IsList(bt) /\ Len(bt) = m /\ (\A k \in 1..m-1 : bt[k] = bs[k])
      /\ bt[m].base = bs[m].base /\ (bs[m].merged => bt[m].merged)
      /\ IsList(nt) /\ \A q \in 1..p : nt[q].kind = ns[q].kind
      /\ IsList(st) /\ Len(st) = h /\ h \in Nat /\ (\A i \in 1..g : st[i] = ss[i])
      /\ (\A i \in 1..g : E[i] = F[i] /\ B[i] = A[i] /\ U[i] = T[i]) /\ (\A i \in g+1..h : E[i] = m)
      /\ \/ Len(nt) = p /\ h = g
         \/ /\ Len(nt) = p + 1 /\ h > g /\ Placed(nt[p + 1].kind, g, h, E, B, U)
            /\ nt[p + 1].kind = "select" => DOMAIN st[h] = {} \/ bt[m].merged
      /\ Mapped(bt[m], st, h, B, U)

LEMMA UpTo == \A n \in Nat : \A p \in 0..n : \A q \in 1..p+1 : q \in Nat /\ q # p + 2 /\ q \in 1..n+1
  OBVIOUS

LEMMA UpToOneMore ==
    \A p, x \in Nat : x = p \/ x = p + 1 =>
      /\ \A q \in 1..x : q \in 1..p \/ (q = p + 1 /\ x = p + 1)
      /\ \A q \in 1..x+1 : q \in Nat /\ (q \in 1..p+1 \/ (q = p + 2 /\ x = p + 1))
  OBVIOUS

LEMMA Within ==
    \A L, g, x, y \in Nat : y <= g /\ x \in 1..L /\ y \in 1..L /\ (y = x + 1 \/ y = x + 2)
                             => x \in 1..g /\ y \in 1..g /\ x + 1 \in 1..g
  OBVIOUS

LaidOut(bs, ns, ss, F, G) ==
  /\ Len(bs) \in Nat /\ Len(bs) > 0 /\ Len(ns) \in Nat /\ Len(ss) \in Nat /\ Len(ss) > 0
  /\ G[1] = 1 /\ G[Len(ns) + 1] = Len(ss) /\ F[1] = 1 /\ F[Len(ss)] = Len(bs)
  /\ \A q \in 1..Len(ns)+1 : G[q] \in 1..Len(ss)
  /\ \A q \in 1..Len(ns) : G[q] < G[q + 1]

LEMMA LaidFacts ==
    ASSUME NEW bs, NEW ns, NEW ss, NEW F \in [Nat -> Nat], NEW A \in [Nat -> Nat], NEW T \in [Nat -> Nat],
           NEW G \in [Nat -> Nat], Laid(bs, ns, ss, F, A, T, G), IsList(bs), IsList(ns), IsList(ss), bs # <<>>, ss # <<>>
    PROVE  LaidOut(bs, ns, ss, F, G)
  <1>1. Len(bs) \in Nat /\ Len(bs) > 0 /\ Len(ns) \in Nat /\ Len(ss) \in Nat /\ Len(ss) > 0
    BY ListFacts
  <1>2. G[1] = 1 /\ G[Len(ns) + 1] = Len(ss) /\ F[1] = 1 /\ F[Len(ss)] = Len(bs)
    BY DEF Laid
  <1>3. ASSUME NEW q \in 1..Len(ns)+1 PROVE G[q] \in 1..Len(ss)
    <2>1. q \in Nat /\ 1 \in 1..Len(ns)+1 /\ Len(ns) + 1 \in 1..Len(ns)+1 /\ 1 <= q /\ q <= Len(ns) + 1
      BY <1>1
    <2>2. G[1] <= G[q] /\ G[q] <= G[Len(ns) + 1]
      BY <2>1 DEF Laid
    <2>3. G[q] \in Nat
      BY <2>1
    <2> QED
      BY <1>1, <1>2, <2>2, <2>3
  <1>4. ASSUME NEW q \in 1..Len(ns) PROVE G[q] < G[q + 1]
    <2>1. q \in Nat /\ q + 1 \in Nat
      OBVIOUS
    <2>2. G[q] \in Nat /\ G[q + 1] \in Nat
      BY <2>1
    <2>3. G[q + 1] = G[q] + 1 \/ G[q + 1] = G[q] + 2
      BY DEF Laid, Placed
    <2> DEFINE x == G[q]
               y == G[q + 1]
    <2>4. x \in Nat /\ y \in Nat /\ (y = x + 1 \/ y = x + 2)
      BY <2>2, <2>3
    <2> HIDE DEF x, y
    <2>5. x < y
      BY <2>4
    <2> QED
      BY <2>5 DEF x, y
  <1> QED
    BY <1>1, <1>2, <1>3, <1>4 DEF LaidOut

LEMMA Replaced ==
    ASSUME NEW bs, NEW ns, NEW ss, NEW F \in [Nat -> Nat], NEW A \in [Nat -> Nat], NEW T \in [Nat -> Nat],
           NEW G \in [Nat -> Nat], Laid(bs, ns, ss, F, A, T, G), IsList(bs), IsList(ns), IsList(ss), bs # <<>>, ss # <<>>,
           NEW p \in 0..Len(ns), NEW bt, NEW nt, NEW st, NEW E, NEW B, NEW U, NEW h,
           Replaces(bs, ns, ss, F, A, T, p, G[p + 1], bt, nt, st, E, B, U, h)
    PROVE  \E H \in [Nat -> Nat] : Laid(bt, nt, st, E, B, U, H)
  <1>0. /\ Len(bs) \in Nat /\ Len(bs) > 0 /\ Len(ns) \in Nat /\ Len(ss) \in Nat /\ Len(ss) > 0
        /\ G[1] = 1 /\ G[Len(ns) + 1] = Len(ss) /\ F[1] = 1 /\ F[Len(ss)] = Len(bs)
        /\ \A q \in 1..Len(ns)+1 : G[q] \in 1..Len(ss)
    <2>1. LaidOut(bs, ns, ss, F, G)
      BY LaidFacts
    <2> QED
      BY <2>1 DEF LaidOut
  <1> DEFINE m == Len(bs)
             g == G[p + 1]
             H == [q \in Nat |-> IF q = p + 2 THEN h ELSE G[q]]
             n == Len(ns)
             L == Len(ss)
  <1>1. /\ m \in Nat /\ m > 0 /\ n \in Nat /\ L \in Nat /\ L > 0
        /\ G[1] = 1 /\ G[n + 1] = L /\ F[1] = 1 /\ F[L] = m
        /\ \A q \in 1..n+1 : G[q] \in 1..L
    BY <1>0
  <1>1a. m \in Nat /\ m > 0 /\ n \in Nat /\ L \in Nat /\ L > 0
    BY <1>1
  <1>2. /\ F[g] = m /\ E \in [Nat -> Nat] /\ B \in [Nat -> Nat] /\ U \in [Nat -> Nat]
        /\ IsList(bt) /\ Len(bt) = m /\ (\A k \in 1..m-1 : bt[k] = bs[k])
        /\ bt[m].base = bs[m].base /\ (bs[m].merged => bt[m].merged)
    BY DEF Replaces
  <1>3. /\ IsList(nt) /\ \A q \in 1..p : nt[q].kind = ns[q].kind
        /\ \/ Len(nt) = p /\ h = g
           \/ /\ Len(nt) = p + 1 /\ h > g /\ Placed(nt[p + 1].kind, g, h, E, B, U)
              /\ nt[p + 1].kind = "select" => DOMAIN st[h] = {} \/ bt[m].merged
    BY DEF Replaces
  <1>4. /\ IsList(st) /\ Len(st) = h /\ h \in Nat /\ (\A i \in 1..g : st[i] = ss[i])
        /\ (\A i \in 1..g : E[i] = F[i] /\ B[i] = A[i] /\ U[i] = T[i]) /\ (\A i \in g+1..h : E[i] = m)
    BY DEF Replaces
  <1>5. Mapped(bt[m], st, h, B, U)
    BY DEF Replaces
  <1>6. p \in Nat /\ p <= n /\ p + 1 \in 1..n+1
    BY <1>1
  <1>7. g \in 1..L /\ h \in Nat /\ g <= h /\ H \in [Nat -> Nat]
    <2>1. g \in 1..L
      BY <1>1, <1>6
    <2>2. h \in Nat
      BY <1>4
    <2>3. g \in Nat
      BY <1>1, <2>1
    <2>4. h = g \/ h > g
      BY <1>3
    <2>5. H \in [Nat -> Nat]
      BY <2>2
    <2>6. g <= h
      <3> HIDE DEF g, H, m, n, L
      <3> QED
        BY <2>2, <2>3, <2>4
    <2> QED
      BY <2>1, <2>2, <2>5, <2>6
  <1>8. /\ \A i \in 1..L : F[i] \in 1..m
        /\ \A k \in 1..m : \A i \in 1..L : F[i] >= k <=> i > bs[k].base
        /\ \A k \in 1..m : Mapped(bs[k], ss, LastScope(bs, ss, k), A, T)
    BY DEF Laid
  <1>9. /\ \A q \in 1..n : Placed(ns[q].kind, G[q], G[q + 1], F, A, T)
        /\ \A q \in 1..n : ns[q].kind = "select" => DOMAIN ss[G[q + 1]] = {} \/ bs[F[G[q + 1]]].merged
        /\ \A q, r \in 1..n+1 : q <= r => G[q] <= G[r]
    BY DEF Laid
  <1>10. /\ \A q \in 1..p+1 : H[q] = G[q] /\ q \in 1..n+1
         /\ H[p + 2] = h /\ H[p + 1] = g
    <2>1. p + 2 \in Nat /\ p + 1 \in Nat /\ p + 1 # p + 2
      BY <1>6
    <2>2. \A q \in 1..p+1 : q \in Nat /\ q # p + 2 /\ q \in 1..n+1
      <3> HIDE DEF n, m, g, L, H
      <3> QED
        BY <1>1a, UpTo DEF n
    <2>3. \A q \in Nat : H[q] = IF q = p + 2 THEN h ELSE G[q]
      OBVIOUS
    <2> QED
      BY <2>1, <2>2, <2>3
  <1>11. \A k \in 1..m : bs[k].base \in Nat
    BY <1>8 DEF Mapped, BuilderOK
  <1>12. \A k \in 1..m : bt[k].base = bs[k].base /\ bt[k].base < g
    <2> TAKE k \in 1..m
    <2>1. k = m \/ k \in 1..m-1
      BY <1>1
    <2>2. bt[k].base = bs[k].base
      BY <1>2, <2>1
    <2>3. F[g] >= k
      BY <1>1, <1>2
    <2>4. g > bs[k].base
      BY <1>7, <1>8, <2>3
    <2> QED
      BY <1>7, <1>11, <2>2, <2>4
  <1> HIDE DEF m, g, n, L, H
  <1>13. H[1] = 1
    <2>1. 1 \in 1..p+1
      BY <1>6
    <2> QED
      BY <1>1, <1>10, <2>1
  <1>3a. (Len(nt) = p /\ h = g) \/ (Len(nt) = p + 1 /\ h > g)
    BY <1>3
  <1>3b. p \in Nat /\ Len(nt) \in Nat /\ (Len(nt) = p \/ Len(nt) = p + 1)
    <2>1. Len(nt) \in Nat
      BY <1>3, ListFacts
    <2> QED
      BY <1>3a, <1>6, <2>1
  <1>14. H[Len(nt) + 1] = Len(st)
    <2>1. (p + 1) + 1 = p + 2
      BY <1>6
    <2> QED
      BY <1>3, <1>4, <1>10, <2>1
  <1>15. E[1] = 1 /\ E[Len(st)] = Len(bt)
    <2>1. 1 \in 1..g /\ h \in Nat /\ (h = g \/ h \in g+1..h) /\ g \in 1..g
      BY <1>1, <1>7
    <2> QED
      BY <1>1, <1>2, <1>4, <2>1
  <1>16. \A q, r \in 1..Len(nt)+1 : q <= r => H[q] <= H[r]
    <2> SUFFICES ASSUME NEW q \in 1..Len(nt)+1, NEW r \in 1..Len(nt)+1, q <= r PROVE H[q] <= H[r]
      OBVIOUS
    <2>1. q \in Nat /\ r \in Nat /\ (q \in 1..p+1 \/ q = p + 2) /\ (r \in 1..p+1 \/ (r = p + 2 /\ Len(nt) = p + 1))
      BY <1>3b, UpToOneMore
    <2>2. CASE r \in 1..p+1
      <3>1. q \in 1..p+1
        BY <1>6, <2>1, <2>2
      <3> QED
        BY <1>9, <1>10, <2>2, <3>1
    <2>3. CASE r = p + 2
      <3>1. CASE q = p + 2
        BY <1>7, <1>10, <2>3, <3>1
      <3>2. CASE q \in 1..p+1
        <4>1. q <= p + 1 /\ p + 1 \in 1..p+1
          BY <1>6, <2>1, <3>2
        <4>2. H[q] <= g
          BY <1>9, <1>10, <3>2, <4>1
        <4>3. H[q] \in Nat /\ g \in Nat /\ h \in Nat /\ g <= h
          BY <1>1, <1>7, <2>1
        <4> DEFINE x == H[q]
        <4>4. x <= g /\ x \in Nat
          BY <4>2, <4>3
        <4> HIDE DEF x
        <4>5. x <= h
          BY <4>3, <4>4
        <4> QED
          BY <1>10, <2>3, <4>5 DEF x
      <3> QED
        BY <2>1, <3>1, <3>2
    <2> QED
      BY <2>1, <2>2, <2>3
  <1>17. \A i \in 1..Len(st) : (i \in 1..g \/ (i \in g+1..h /\ i > g)) /\ i \in Nat
    BY <1>4, <1>7
  <1>18. \A i \in 1..Len(st) : E[i] \in 1..Len(bt)
    <2>1. m \in 1..m /\ \A i \in 1..g : i \in 1..L
      BY <1>1, <1>7
    <2> QED
      BY <1>2, <1>4, <1>8, <1>17, <2>1
  <1>19. ASSUME NEW q \in 1..p
         PROVE  /\ q \in 1..n /\ q \in 1..p+1 /\ q + 1 \in 1..p+1 /\ G[q] \in 1..g /\ G[q + 1] \in 1..g
                /\ G[q] + 1 \in 1..g
    <2>1. q \in Nat /\ q \in 1..n /\ q \in 1..p+1 /\ q + 1 \in 1..p+1 /\ q + 1 <= p + 1 /\ q \in 1..n+1 /\ q + 1 \in 1..n+1
      BY <1>1, <1>6
    <2>2. G[q + 1] <= g /\ G[q] \in 1..L /\ G[q + 1] \in 1..L
      BY <1>1, <1>6, <1>9, <2>1 DEF g
    <2>3. G[q + 1] = G[q] + 1 \/ G[q + 1] = G[q] + 2
      BY <1>9, <2>1 DEF Placed
    <2>4. L \in Nat /\ g \in Nat
      BY <1>1a, <1>7
    <2> DEFINE x == G[q]
               y == G[q + 1]
    <2>5. y <= g /\ x \in 1..L /\ y \in 1..L /\ (y = x + 1 \/ y = x + 2)
      BY <2>2, <2>3
    <2> HIDE DEF x, y
    <2>6. x \in 1..g /\ y \in 1..g /\ x + 1 \in 1..g
      <3>1. x \in Nat /\ y \in Nat
        BY <2>4, <2>5
      <3> QED
        BY <2>4, <2>5, <3>1, Within
    <2> QED
      BY <2>1, <2>6 DEF x, y
  <1>20. ASSUME NEW q \in 1..Len(nt) PROVE q \in 1..p \/ (q = p + 1 /\ Len(nt) = p + 1)
    BY <1>3b, <1>20, UpToOneMore
  <1>21. \A q \in 1..Len(nt) : Placed(nt[q].kind, H[q], H[q + 1], E, B, U)
    <2> TAKE q \in 1..Len(nt)
    <2>1. CASE q \in 1..p
      <3>1. H[q] = G[q] /\ H[q + 1] = G[q + 1] /\ nt[q].kind = ns[q].kind
        BY <1>3, <1>10, <1>19, <2>1
      <3>2. Placed(ns[q].kind, G[q], G[q + 1], F, A, T)
        BY <1>9, <1>19, <2>1
      <3>3. Placed(ns[q].kind, G[q], G[q + 1], E, B, U)
        <4> DEFINE x == G[q]
                   y == G[q + 1]
                   z == ns[q].kind
        <4>1. E[x] = F[x] /\ B[x] = A[x] /\ U[x] = T[x] /\ E[y] = F[y] /\ B[y] = A[y] /\ U[y] = T[y]
              /\ E[x + 1] = F[x + 1] /\ B[x + 1] = A[x + 1] /\ U[x + 1] = T[x + 1]
          BY <1>4, <1>19, <2>1
        <4> HIDE DEF x, y, z
        <4>2. Placed(z, x, y, F, A, T) => Placed(z, x, y, E, B, U)
          BY <4>1 DEF Placed
        <4> QED
          BY <3>2, <4>2 DEF x, y, z
      <3> QED
        BY <3>1, <3>3
    <2>2. CASE q = p + 1 /\ Len(nt) = p + 1
      <3>1. Placed(nt[p + 1].kind, g, h, E, B, U)
        BY <1>3, <1>6, <2>2
      <3>2. (p + 1) + 1 = p + 2
        BY <1>6
      <3> QED
        BY <1>10, <2>2, <3>1, <3>2
    <2> QED
      BY <1>20, <2>1, <2>2
  <1>22. ASSUME NEW q \in 1..Len(nt), nt[q].kind = "select"
         PROVE  DOMAIN st[H[q + 1]] = {} \/ bt[E[H[q + 1]]].merged
    <2>1. CASE q \in 1..p
      <3> DEFINE x == G[q + 1]
      <3>1. ns[q].kind = "select" /\ H[q + 1] = x
        BY <1>3, <1>10, <1>19, <1>22, <2>1
      <3>2. x \in 1..g /\ x \in 1..L
        <4>1. \A i \in 1..g : i \in 1..L
          BY <1>1, <1>7
        <4> QED
          BY <1>19, <2>1, <4>1
      <3>3. DOMAIN ss[x] = {} \/ bs[F[x]].merged
        BY <1>9, <1>19, <2>1, <3>1
      <3> HIDE DEF x
      <3>4. st[x] = ss[x] /\ E[x] = F[x] /\ F[x] \in 1..m
        BY <1>4, <1>8, <3>2
      <3>5. bs[F[x]].merged => bt[F[x]].merged
        <4> DEFINE f == F[x]
        <4>0. f \in 1..m
          BY <3>4
        <4> HIDE DEF f
        <4>a. f = m \/ f \in 1..m-1
          BY <1>1, <4>0
        <4>1. F[x] = m \/ F[x] \in 1..m-1
          BY <4>a DEF f
        <4> QED
          BY <1>2, <4>1
      <3> QED
        BY <3>1, <3>3, <3>4, <3>5
    <2>2. CASE q = p + 1 /\ Len(nt) = p + 1
      <3>1. DOMAIN st[h] = {} \/ bt[m].merged
        <4>1. p # p + 1
          BY <1>6
        <4> QED
          BY <1>3, <1>22, <2>2, <4>1
      <3>2. (p + 1) + 1 = p + 2
        BY <1>6
      <3>3. E[h] = m
        BY <1>2, <1>4, <1>15
      <3> QED
        BY <1>10, <2>2, <3>1, <3>2, <3>3
    <2> QED
      BY <1>20, <2>1, <2>2
  <1>23. \A k \in 1..Len(bt) : \A i \in 1..Len(st) : E[i] >= k <=> i > bt[k].base
    <2> TAKE k \in 1..Len(bt)
    <2> TAKE i \in 1..Len(st)
    <2>1. k \in 1..m /\ k \in Nat /\ k <= m
      BY <1>1, <1>2
    <2>2. CASE i \in 1..g
      <3>1. i \in 1..L
        BY <1>1, <1>7, <2>2
      <3> QED
        BY <1>4, <1>8, <1>12, <2>1, <2>2, <3>1
    <2>3. CASE i \in g+1..h /\ i > g
      <3>1. E[i] >= k
        BY <1>1, <1>4, <2>1, <2>3
      <3>2. i > bt[k].base
        <4>1. bt[k].base < g /\ bt[k].base \in Nat
          BY <1>11, <1>12, <2>1
        <4> DEFINE x == bt[k].base
        <4>2. x < g /\ x \in Nat /\ g \in Nat /\ i \in Nat /\ i > g
          <5>1. i \in Nat
            BY <1>17
          <5>2. g \in Nat
            BY <1>1a, <1>7
          <5> QED
            BY <2>3, <4>1, <5>1, <5>2
        <4> HIDE DEF x
        <4>3. i > x
          BY <4>2
        <4> QED
          BY <4>3 DEF x
      <3> QED
        BY <3>1, <3>2
    <2> QED
      BY <1>17, <2>2, <2>3
  <1>24. \A k \in 1..Len(bt) : Mapped(bt[k], st, LastScope(bt, st, k), B, U)
    <2> TAKE k \in 1..Len(bt)
    <2>1. k = m \/ (k \in 1..m-1 /\ k \in 1..m /\ k + 1 \in 1..m /\ k # m)
      BY <1>1, <1>2
    <2>2. CASE k = m
      BY <1>2, <1>4, <1>5, <2>2 DEF LastScope
    <2>3. CASE k \in 1..m-1 /\ k \in 1..m /\ k + 1 \in 1..m /\ k # m
      <3> DEFINE y == bs[k + 1].base
                 b == bs[k]
      <3>1. LastScope(bt, st, k) = y /\ LastScope(bs, ss, k) = y
        BY <1>2, <1>12, <2>3 DEF LastScope, m
      <3>2. y \in Nat /\ y < g
        BY <1>11, <1>12, <2>3
      <3>3. bt[k] = b
        BY <1>2, <2>3
      <3>4. Mapped(b, ss, y, A, T)
        BY <1>8, <2>3, <3>1
      <3>5. b.base \in Nat
        BY <1>11, <2>3
      <3> HIDE DEF y, b
      <3>6. \A i \in b.base+1..y : i \in 1..g
        <4> DEFINE x == b.base
        <4>1. x \in Nat /\ y \in Nat /\ y < g /\ g \in Nat
          BY <1>7, <3>2, <3>5
        <4> HIDE DEF x
        <4>2. \A i \in x+1..y : i \in 1..g
          BY <4>1
        <4> QED
          BY <4>2 DEF x
      <3>7. AlikeIn(b.base, y, ss, A, T, st, B, U)
        BY <1>4, <3>6 DEF AlikeIn
      <3>8. Mapped(b, st, y, B, U)
        BY <3>2, <3>4, <3>7, MappedAlike
      <3> QED
        BY <3>1, <3>3, <3>8
    <2> QED
      BY <2>1, <2>2, <2>3
  <1>25. Laid(bt, nt, st, E, B, U, H)
    BY <1>13, <1>14, <1>15, <1>16, <1>18, <1>21, <1>22, <1>23, <1>24 DEF Laid
  <1> QED
    BY <1>7, <1>25

\* The last builder and the last scope are replaced, nothing is opened or closed.
Retops(bs, ns, ss, A, T, bt, nt, st) ==
  LET m == Len(bs)
      L == Len(ss)
  IN  /\ IsList(bt) /\ Len(bt) = m /\ (\A k \in 1..m-1 : bt[k] = bs[k])
      /\ bt[m].base = bs[m].base /\ (bs[m].merged => bt[m].merged)
      /\ IsList(nt) /\ Len(nt) = Len(ns) /\ \A q \in 1..Len(ns) : nt[q].kind = ns[q].kind
      /\ IsList(st) /\ Len(st) = L /\ (\A i \in 1..L-1 : st[i] = ss[i])
      /\ Mapped(bt[m], st, L, A, T)
      /\ ns # <<>> /\ ns[Len(ns)].kind = "select" => DOMAIN st[L] = {} \/ bt[m].merged

LEMMA Retopped ==
    ASSUME NEW bs, NEW ns, NEW ss, NEW F \in [Nat -> Nat], NEW A \in [Nat -> Nat], NEW T \in [Nat -> Nat],
           NEW G \in [Nat -> Nat], Laid(bs, ns, ss, F, A, T, G), IsList(bs), IsList(ns), IsList(ss), bs # <<>>, ss # <<>>,
           NEW bt, NEW nt, NEW st, Retops(bs, ns, ss, A, T, bt, nt, st)
    PROVE  Laid(bt, nt, st, F, A, T, G)
  <1>0. LaidOut(bs, ns, ss, F, G)
    BY LaidFacts
  <1> DEFINE m == Len(bs)
             n == Len(ns)
             L == Len(ss)
  <1>1. m \in Nat /\ m > 0 /\ n \in Nat /\ L \in Nat /\ L > 0
    BY <1>0 DEF LaidOut
  <1>2. /\ G[1] = 1 /\ G[n + 1] = L /\ F[1] = 1 /\ F[L] = m
        /\ (\A q \in 1..n+1 : G[q] \in 1..L) /\ \A q \in 1..n : G[q] < G[q + 1]
    BY <1>0 DEF LaidOut
  <1>3. /\ IsList(bt) /\ Len(bt) = m /\ (\A k \in 1..m-1 : bt[k] = bs[k])
        /\ bt[m].base = bs[m].base /\ (bs[m].merged => bt[m].merged)
    BY DEF Retops
  <1>4. /\ IsList(nt) /\ Len(nt) = n /\ \A q \in 1..n : nt[q].kind = ns[q].kind
    BY DEF Retops
  <1>5. /\ IsList(st) /\ Len(st) = L /\ (\A i \in 1..L-1 : st[i] = ss[i])
    BY DEF Retops
  <1>6. /\ Mapped(bt[m], st, L, A, T)
        /\ ns # <<>> /\ ns[n].kind = "select" => DOMAIN st[L] = {} \/ bt[m].merged
    BY DEF Retops
  <1>7. /\ \A p, q \in 1..n+1 : p <= q => G[p] <= G[q]
        /\ \A i \in 1..L : F[i] \in 1..m
        /\ \A q \in 1..n : Placed(ns[q].kind, G[q], G[q + 1], F, A, T)
    BY DEF Laid
  <1>8. /\ \A k \in 1..m : \A i \in 1..L : F[i] >= k <=> i > bs[k].base
        /\ \A k \in 1..m : Mapped(bs[k], ss, LastScope(bs, ss, k), A, T)
        /\ \A q \in 1..n : ns[q].kind = "select" => DOMAIN ss[G[q + 1]] = {} \/ bs[F[G[q + 1]]].merged
    BY DEF Laid
  <1> HIDE DEF m, n, L
  <1>9. \A k \in 1..m : bt[k].base = bs[k].base /\ (bs[k].merged => bt[k].merged)
    <2>1. \A k \in 1..m : k = m \/ k \in 1..m-1
      BY <1>1
    <2> QED
      BY <1>3, <2>1
  <1>10. \A k \in 1..m : bs[k].base \in Nat /\ bs[k].base < L
    <2> TAKE k \in 1..m
    <2> DEFINE x == bs[k].base
    <2>1. x \in Nat
      BY <1>8 DEF Mapped, BuilderOK
    <2>2. L \in 1..L /\ k \in Nat /\ k <= m
      BY <1>1
    <2>3. F[L] >= k
      BY <1>1, <1>2, <2>2
    <2>4. L > x
      BY <1>8, <2>2, <2>3
    <2> HIDE DEF x
    <2>5. x < L
      BY <1>1, <2>1, <2>4
    <2> QED
      BY <2>1, <2>5 DEF x
  <1>11. \A q \in 1..n : Placed(nt[q].kind, G[q], G[q + 1], F, A, T)
    BY <1>4, <1>7
  <1>12. \A k \in 1..m : \A i \in 1..L : F[i] >= k <=> i > bt[k].base
    BY <1>8, <1>9
  <1>13. \A k \in 1..m : Mapped(bt[k], st, LastScope(bt, st, k), A, T)
    <2> TAKE k \in 1..m
    <2>1. k = m \/ (k \in 1..m-1 /\ k + 1 \in 1..m /\ k # m)
      BY <1>1
    <2>2. CASE k = m
      BY <1>3, <1>5, <1>6, <2>2 DEF LastScope
    <2>3. CASE k \in 1..m-1 /\ k + 1 \in 1..m /\ k # m
      <3> DEFINE y == bs[k + 1].base
                 b == bs[k]
      <3>1. LastScope(bt, st, k) = y /\ LastScope(bs, ss, k) = y
        BY <1>3, <1>9, <2>3 DEF LastScope, m
      <3>2. y \in Nat /\ y < L
        BY <1>10, <2>3
      <3>3. bt[k] = b
        BY <1>3, <2>3
      <3>4. Mapped(b, ss, y, A, T)
        BY <1>8, <3>1
      <3>5. b.base \in Nat
        BY <1>10
      <3> HIDE DEF y, b
      <3>6. \A i \in b.base+1..y : i \in 1..L-1
        <4> DEFINE x == b.base
        <4>1. x \in Nat /\ y \in Nat /\ y < L /\ L \in Nat
          BY <1>1, <3>2, <3>5
        <4> HIDE DEF x
        <4>2. \A i \in x+1..y : i \in 1..L-1
          BY <4>1
        <4> QED
          BY <4>2 DEF x
      <3>7. AlikeIn(b.base, y, ss, A, T, st, A, T)
        BY <1>5, <3>6 DEF AlikeIn
      <3>8. Mapped(b, st, y, A, T)
        BY <3>2, <3>4, <3>7, MappedAlike
      <3> QED
        BY <3>1, <3>3, <3>8
    <2> QED
      BY <2>1, <2>2, <2>3
  <1>14. ASSUME NEW q \in 1..n, nt[q].kind = "select"
         PROVE  DOMAIN st[G[q + 1]] = {} \/ bt[F[G[q + 1]]].merged
    <2> DEFINE x == G[q + 1]
    <2>1. q \in 1..n+1 /\ q + 1 \in 1..n+1 /\ n \in 1..n /\ n \in 1..n+1 /\ q <= n /\ q \in Nat /\ n > 0
      BY <1>1
    <2>2. x \in 1..L
      BY <1>2, <2>1
    <2>3. ns[q].kind = "select"
      BY <1>4, <1>14
    <2>4. DOMAIN ss[x] = {} \/ bs[F[x]].merged
      BY <1>8, <2>3
    <2>5. F[x] \in 1..m
      BY <1>7, <2>2
    <2>6. x \in 1..L-1 \/ x = L
      <3> HIDE DEF x
      <3> QED
        BY <1>1, <2>2
    <2>7. CASE x \in 1..L-1
      BY <1>5, <1>9, <2>4, <2>5, <2>7
    <2>8. CASE x = L
      <3>1. q = n
        <4> SUFFICES ASSUME q # n PROVE FALSE
          OBVIOUS
        <4>1. q + 1 <= n
          BY <1>1, <2>1
        <4>2. x <= G[n]
          BY <1>7, <2>1, <4>1
        <4>3. G[n] < L /\ G[n] \in 1..L
          BY <1>2, <2>1
        <4> DEFINE y == G[n]
        <4>4. L <= y /\ y < L /\ y \in 1..L
          BY <2>8, <4>2, <4>3
        <4> HIDE DEF x, y
        <4> QED
          BY <1>1, <4>4
      <3>2. ns # <<>>
        BY <2>1, ListFacts DEF n
      <3> QED
        BY <1>2, <1>6, <2>3, <2>8, <3>1, <3>2
    <2> QED
      BY <2>6, <2>7, <2>8
  <1> QED
    BY <1>2, <1>3, <1>4, <1>5, <1>7, <1>11, <1>12, <1>13, <1>14 DEF Laid

LEMMA FreshFunction ==
    ASSUME NEW lo \in Nat, NEW ss, NEW A, NEW T, A[lo + 1] = 1, T[lo + 1] = 1, DOMAIN ss[lo + 1] = {}
    PROVE  Mapped(enterScope(newBuilder(lo)), ss, lo + 1, A, T) /\ enterScope(newBuilder(lo)).base = lo
  <1> DEFINE b == newBuilder(lo)
             c == enterScope(b)
  <1>1. /\ DOMAIN b = BuilderFields /\ b.scopes = <<>> /\ b.shifts = <<>> /\ b.numRegs = 0 /\ b.base = lo
        /\ b.merged = FALSE
    BY DEF newBuilder, BuilderFields
  <1>2. IsList(<<>>) /\ Len(<<>>) = 0
    BY DEF IsList
  <1> HIDE DEF b, c
  <1>3. BuilderOK(b)
    <2>1. (\A t \in 1..Len(b.shifts) : b.shifts[t] \in Nat) /\ IsList(b.scopes) /\ IsList(b.shifts)
      BY <1>1, <1>2
    <2>2. b.numRegs \in Nat /\ b.base \in Nat
      BY <1>1
    <2>3. b.merged \in BOOLEAN
      BY <1>1
    <2> QED
      BY <1>1, <2>1, <2>2, <2>3 DEF BuilderOK
  <1>4. Entered(b, c, {})
    BY <1>3, EnterScope DEF c
  <1>5. /\ BuilderOK(c) /\ c.base = lo /\ Len(c.scopes) = 1 /\ Len(c.shifts) = 1 /\ DOMAIN c.scopes[1] = {}
    BY <1>1, <1>2, <1>4 DEF Entered
  <1>6. InScopes(c, lo, lo + 1, A, T)
    <2>1. lo < lo + 1 /\ \A i \in lo+1..lo+1 : i = lo + 1
      OBVIOUS
    <2> QED
      BY <1>5, <2>1 DEF InScopes
  <1>7. VariablesKept(c, ss, lo, lo + 1, A, T)
    <2>1. \A i \in lo+1..lo+1 : i = lo + 1
      OBVIOUS
    <2>2. Held(c.scopes, c.shifts, c.numRegs, ss, lo, lo + 1, A, T)
      BY <2>1 DEF Held
    <2>3. FromSource(c.scopes, ss, lo, lo + 1, A)
      BY <1>5 DEF FromSource
    <2>4. NotShared(ss, lo, lo + 1)
      BY <2>1 DEF NotShared
    <2> QED
      BY <2>2, <2>3, <2>4 DEF VariablesKept
  <1> QED
    BY <1>5, <1>6, <1>7 DEF Mapped, b, c

LEMMA FuncOpened ==
    ASSUME NEW bs, NEW ns, NEW ss, NEW F \in [Nat -> Nat], NEW A \in [Nat -> Nat], NEW T \in [Nat -> Nat],
           NEW G \in [Nat -> Nat], Laid(bs, ns, ss, F, A, T, G), IsList(bs), IsList(ns), IsList(ss), bs # <<>>, ss # <<>>,
           NEW l, l.kind = "func"
    PROVE  \E E, B, U, H \in [Nat -> Nat] :
             Laid(Append(bs, enterScope(newBuilder(Len(ss)))), Append(ns, l), Append(ss, NoName), E, B, U, H)
  <1>0. LaidOut(bs, ns, ss, F, G)
    BY LaidFacts
  <1> DEFINE m == Len(bs)
             n == Len(ns)
             L == Len(ss)
             c == enterScope(newBuilder(Len(ss)))
             bt == Append(bs, c)
             nt == Append(ns, l)
             st == Append(ss, NoName)
             E == [i \in Nat |-> IF i = L + 1 THEN m + 1 ELSE F[i]]
             B == [i \in Nat |-> IF i = L + 1 THEN 1 ELSE A[i]]
             U == [i \in Nat |-> IF i = L + 1 THEN 1 ELSE T[i]]
             H == [q \in Nat |-> IF q = n + 2 THEN L + 1 ELSE G[q]]
  <1>1. m \in Nat /\ m > 0 /\ n \in Nat /\ L \in Nat /\ L > 0
    BY <1>0 DEF LaidOut
  <1>2. /\ G[1] = 1 /\ G[n + 1] = L /\ F[1] = 1 /\ F[L] = m
        /\ (\A q \in 1..n+1 : G[q] \in 1..L) /\ \A q \in 1..n : G[q] < G[q + 1]
    BY <1>0 DEF LaidOut
  <1>3. /\ \A p, q \in 1..n+1 : p <= q => G[p] <= G[q]
        /\ \A i \in 1..L : F[i] \in 1..m
        /\ \A q \in 1..n : Placed(ns[q].kind, G[q], G[q + 1], F, A, T)
    BY DEF Laid
  <1>4. /\ \A k \in 1..m : \A i \in 1..L : F[i] >= k <=> i > bs[k].base
        /\ \A k \in 1..m : Mapped(bs[k], ss, LastScope(bs, ss, k), A, T)
        /\ \A q \in 1..n : ns[q].kind = "select" => DOMAIN ss[G[q + 1]] = {} \/ bs[F[G[q + 1]]].merged
    BY DEF Laid
  <1>5. /\ E \in [Nat -> Nat] /\ B \in [Nat -> Nat] /\ U \in [Nat -> Nat] /\ H \in [Nat -> Nat]
    <2>1. m + 1 \in Nat /\ L + 1 \in Nat
      <3> HIDE DEF m, n, L
      <3> QED
        BY <1>1
    <2> QED
      BY <2>1
  <1>6. /\ E[L + 1] = m + 1 /\ B[L + 1] = 1 /\ U[L + 1] = 1 /\ H[n + 2] = L + 1
        /\ (\A i \in 1..L : E[i] = F[i] /\ B[i] = A[i] /\ U[i] = T[i]) /\ (\A q \in 1..n+1 : H[q] = G[q])
    <2>1. m + 1 \in Nat /\ L + 1 \in Nat /\ n + 2 \in Nat
      <3> HIDE DEF m, n, L
      <3> QED
        BY <1>1
    <2>2. (\A i \in 1..L : i \in Nat /\ i # L + 1) /\ (\A q \in 1..n+1 : q \in Nat /\ q # n + 2)
      <3>1. L \in Nat /\ n \in Nat
        BY <1>1
      <3> HIDE DEF m, n, L
      <3>2. \A i \in 1..L : i \in Nat /\ i # L + 1
        BY <3>1
      <3>3. \A q \in 1..n+1 : q \in Nat /\ q # n + 2
        BY <3>1
      <3> QED
        BY <3>2, <3>3
    <2> QED
      BY <2>1, <2>2
  <1>7. /\ IsList(bt) /\ Len(bt) = m + 1 /\ bt[m + 1] = c /\ \A j \in 1..m : bt[j] = bs[j]
    BY ListAppend
  <1>8. /\ IsList(nt) /\ Len(nt) = n + 1 /\ nt[n + 1] = l /\ \A j \in 1..n : nt[j] = ns[j]
    BY ListAppend
  <1>9. /\ IsList(st) /\ Len(st) = L + 1 /\ st[L + 1] = NoName /\ \A j \in 1..L : st[j] = ss[j]
    BY ListAppend
  <1>10. DOMAIN st[L + 1] = {}
    BY <1>9 DEF NoName
  <1> HIDE DEF E, B, U, H, bt, nt, st
  <1>11. Mapped(c, st, L + 1, B, U) /\ c.base = L
    <2>1. L \in Nat /\ B[L + 1] = 1 /\ U[L + 1] = 1 /\ DOMAIN st[L + 1] = {}
      BY <1>1, <1>6, <1>10
    <2>2. c = enterScope(newBuilder(L))
      OBVIOUS
    <2> HIDE DEF L, c
    <2>3. Mapped(enterScope(newBuilder(L)), st, L + 1, B, U) /\ enterScope(newBuilder(L)).base = L
      BY <2>1, FreshFunction
    <2> QED
      BY <2>2, <2>3
  <1> HIDE DEF m, n, L, c
  <1>12. \A k \in 1..m : bs[k].base \in Nat /\ bs[k].base < L
    <2> TAKE k \in 1..m
    <2> DEFINE x == bs[k].base
    <2>1. x \in Nat
      BY <1>4 DEF Mapped, BuilderOK
    <2>2. L \in 1..L /\ k \in Nat /\ k <= m
      BY <1>1
    <2>3. F[L] >= k
      BY <1>1, <1>2, <2>2
    <2>4. L > x
      BY <1>4, <2>2, <2>3
    <2> HIDE DEF x
    <2>5. x < L
      BY <1>1, <2>1, <2>4
    <2> QED
      BY <2>1, <2>5 DEF x
  <1>13. /\ \A q \in 1..n+1 : q \in 1..n \/ q = n + 1
         /\ \A q \in 1..n+2 : q \in 1..n+1 \/ q = n + 2
         /\ \A i \in 1..L+1 : i \in 1..L \/ i = L + 1
         /\ \A k \in 1..m+1 : k \in 1..m \/ k = m + 1
         /\ (n + 1) + 1 = n + 2
    BY <1>1
  <1>14. H[1] = 1 /\ H[Len(nt) + 1] = Len(st) /\ E[1] = 1 /\ E[Len(st)] = Len(bt)
    <2>1. 1 \in 1..n+1 /\ 1 \in 1..L
      BY <1>1
    <2> QED
      BY <1>2, <1>6, <1>7, <1>8, <1>9, <1>13, <2>1
  <1>15. \A p, q \in 1..Len(nt)+1 : p <= q => H[p] <= H[q]
    <2> SUFFICES ASSUME NEW p \in 1..n+2, NEW q \in 1..n+2, p <= q PROVE H[p] <= H[q]
      BY <1>8, <1>13
    <2>1. CASE p \in 1..n+1 /\ q \in 1..n+1
      BY <1>3, <1>6, <2>1
    <2>2. CASE p \in 1..n+1 /\ q = n + 2
      <3> DEFINE x == G[p]
      <3>1. x \in 1..L
        BY <1>2, <2>2
      <3> HIDE DEF x
      <3>2. x <= L + 1
        BY <1>1, <3>1
      <3> QED
        BY <1>6, <2>2, <3>2 DEF x
    <2>3. CASE p = n + 2
      <3>1. q = n + 2
        BY <1>1, <2>3
      <3>2. L + 1 <= L + 1
        BY <1>1
      <3> QED
        BY <1>6, <2>3, <3>1, <3>2
    <2> QED
      BY <1>13, <2>1, <2>2, <2>3
  <1>16. \A i \in 1..Len(st) : E[i] \in 1..Len(bt)
    <2>1. m + 1 \in 1..m+1 /\ \A x \in 1..m : x \in 1..m+1
      BY <1>1
    <2> QED
      BY <1>3, <1>6, <1>7, <1>9, <1>13, <2>1
  <1>17. \A q \in 1..Len(nt) : Placed(nt[q].kind, H[q], H[q + 1], E, B, U)
    <2> SUFFICES ASSUME NEW q \in 1..n+1 PROVE Placed(nt[q].kind, H[q], H[q + 1], E, B, U)
      BY <1>8
    <2>1. CASE q \in 1..n
      <3> DEFINE x == G[q]
                 y == G[q + 1]
                 z == ns[q].kind
      <3>1. q \in 1..n+1 /\ q + 1 \in 1..n+1
        BY <1>1, <2>1
      <3>2. H[q] = x /\ H[q + 1] = y /\ nt[q].kind = z /\ Placed(z, x, y, F, A, T) /\ x \in 1..L /\ y \in 1..L /\ x < y
        BY <1>2, <1>3, <1>6, <1>8, <2>1, <3>1
      <3> HIDE DEF x, y, z
      <3>3. x + 1 \in 1..L
        BY <1>1, <3>2
      <3>4. E[x] = F[x] /\ B[x] = A[x] /\ U[x] = T[x] /\ E[y] = F[y] /\ B[y] = A[y] /\ U[y] = T[y]
            /\ E[x + 1] = F[x + 1] /\ B[x + 1] = A[x + 1] /\ U[x + 1] = T[x + 1]
        BY <1>6, <3>2, <3>3
      <3>5. Placed(z, x, y, F, A, T) => Placed(z, x, y, E, B, U)
        BY <3>4 DEF Placed
      <3> QED
        BY <3>2, <3>5
    <2>2. CASE q = n + 1
      <3>1. n + 1 \in 1..n+1 /\ L \in 1..L
        BY <1>1
      <3>2. H[q] = L /\ H[q + 1] = L + 1 /\ nt[q].kind = "func" /\ E[L + 1] = E[L] + 1
        BY <1>2, <1>6, <1>8, <1>13, <2>2, <3>1
      <3> QED
        BY <3>2 DEF Placed, Fors
    <2> QED
      BY <1>13, <2>1, <2>2
  <1>18. ASSUME NEW q \in 1..Len(nt), nt[q].kind = "select"
         PROVE  DOMAIN st[H[q + 1]] = {} \/ bt[E[H[q + 1]]].merged
    <2>1. q \in 1..n+1
      BY <1>8, <1>18
    <2>2. CASE q \in 1..n
      <3> DEFINE x == G[q + 1]
      <3>1. q + 1 \in 1..n+1
        BY <1>1, <2>2
      <3>2. H[q + 1] = x /\ x \in 1..L /\ ns[q].kind = "select"
        BY <1>2, <1>6, <1>8, <1>18, <2>2, <3>1
      <3>3. DOMAIN ss[x] = {} \/ bs[F[x]].merged
        BY <1>4, <2>2, <3>2
      <3>4. st[x] = ss[x] /\ E[x] = F[x] /\ F[x] \in 1..m
        BY <1>3, <1>6, <1>9, <3>2
      <3> QED
        BY <1>7, <3>2, <3>3, <3>4
    <2>3. CASE q = n + 1
      BY <1>8, <1>18, <2>3
    <2> QED
      BY <1>13, <2>1, <2>2, <2>3
  <1>19. \A k \in 1..Len(bt) : \A i \in 1..Len(st) : E[i] >= k <=> i > bt[k].base
    <2> SUFFICES ASSUME NEW k \in 1..m+1, NEW i \in 1..L+1 PROVE E[i] >= k <=> i > bt[k].base
      BY <1>7, <1>9
    <2>1. CASE k \in 1..m /\ i \in 1..L
      BY <1>4, <1>6, <1>7, <2>1
    <2>2. CASE k \in 1..m /\ i = L + 1
      <3> DEFINE x == bs[k].base
      <3>1. x \in Nat /\ x < L /\ bt[k].base = x
        BY <1>7, <1>12, <2>2
      <3> HIDE DEF x
      <3>2. L + 1 > x /\ m + 1 >= k
        BY <1>1, <2>2, <3>1
      <3> QED
        BY <1>6, <2>2, <3>1, <3>2
    <2>3. CASE k = m + 1 /\ i \in 1..L
      <3> DEFINE x == F[i]
      <3>1. x \in 1..m /\ E[i] = x
        BY <1>3, <1>6, <2>3
      <3> HIDE DEF x
      <3>2. ~(x >= m + 1) /\ ~(i > L)
        BY <1>1, <2>3, <3>1
      <3> QED
        BY <1>7, <1>11, <2>3, <3>1, <3>2
    <2>4. CASE k = m + 1 /\ i = L + 1
      <3>1. m + 1 >= m + 1 /\ L + 1 > L
        BY <1>1
      <3> QED
        BY <1>6, <1>7, <1>11, <2>4, <3>1
    <2> QED
      BY <1>13, <2>1, <2>2, <2>3, <2>4
  <1>20. \A k \in 1..Len(bt) : Mapped(bt[k], st, LastScope(bt, st, k), B, U)
    <2> SUFFICES ASSUME NEW k \in 1..m+1 PROVE Mapped(bt[k], st, LastScope(bt, st, k), B, U)
      BY <1>7
    <2>1. CASE k = m + 1
      BY <1>7, <1>9, <1>11, <2>1 DEF LastScope
    <2>2. CASE k \in 1..m
      <3> DEFINE y == LastScope(bs, ss, k)
                 b == bs[k]
      <3>1. LastScope(bt, st, k) = y
        <4>1. k # m + 1 /\ (k = m \/ (k # m /\ k + 1 \in 1..m))
          BY <1>1, <2>2
        <4>2. CASE k = m
          <5>1. LastScope(bt, st, k) = c.base
            BY <1>7, <4>1, <4>2 DEF LastScope
          <5> QED
            BY <1>11, <4>2, <5>1 DEF LastScope, m, L
        <4>3. CASE k # m /\ k + 1 \in 1..m
          BY <1>7, <4>1, <4>3 DEF LastScope, m
        <4> QED
          BY <4>1, <4>2, <4>3
      <3>2. y \in Nat /\ y <= L
        <4>1. k = m \/ (k # m /\ k + 1 \in 1..m)
          BY <1>1, <2>2
        <4>2. CASE k = m
          BY <1>1, <4>2 DEF LastScope, m, L
        <4>3. CASE k # m /\ k + 1 \in 1..m
          <5> DEFINE z == bs[k + 1].base
          <5>1. y = z /\ z \in Nat /\ z < L
            BY <1>12, <4>3 DEF LastScope, m
          <5> HIDE DEF y, z
          <5>2. z <= L
            BY <1>1, <5>1
          <5> QED
            BY <5>1, <5>2
        <4> QED
          BY <4>1, <4>2, <4>3
      <3>3. bt[k] = b /\ Mapped(b, ss, y, A, T) /\ b.base \in Nat
        BY <1>4, <1>7, <1>12, <2>2
      <3> HIDE DEF y, b
      <3>4. \A i \in b.base+1..y : i \in 1..L
        <4> DEFINE x == b.base
        <4>1. x \in Nat
          BY <3>3
        <4> HIDE DEF x
        <4>2. \A i \in x+1..y : i \in 1..L
          BY <1>1, <3>2, <4>1
        <4> QED
          BY <4>2 DEF x
      <3>5. AlikeIn(b.base, y, ss, A, T, st, B, U)
        BY <1>6, <1>9, <3>4 DEF AlikeIn
      <3> QED
        BY <3>1, <3>2, <3>3, <3>5, MappedAlike
    <2> QED
      BY <1>13, <2>1, <2>2
  <1>21. Laid(bt, nt, st, E, B, U, H)
    BY <1>14, <1>15, <1>16, <1>17, <1>18, <1>19, <1>20 DEF Laid
  <1> QED
    BY <1>5, <1>21 DEF bt, nt, st, c, L

LEMMA OneLess ==
    \A m, f \in Nat : f >= 1 /\ m = f + 1 =>
      f = m - 1 /\ m - 1 \in 1..m /\ m - 1 \in Nat /\ (m - 1) + 1 = m /\ m # m - 1 /\ ~(m - 1 >= m)
  OBVIOUS

LEMMA JustBelow == \A h, v \in Nat : h > v /\ ~(h - 1 > v) => v = h - 1
  OBVIOUS

LEMMA ButLast ==
    \A n \in Nat : n > 0 =>
      /\ \A q \in 1..n-1 : /\ q \in 1..n /\ q \in 1..n+1 /\ q + 1 \in 1..n /\ q + 1 \in 1..n+1 /\ q + 1 <= n
                           /\ q <= n - 1 /\ q # n /\ (q = n - 1 \/ (q # n - 1 /\ q + 1 \in 1..n-1))
      /\ \A q \in 1..n : q \in 1..n+1
  OBVIOUS

LEMMA FuncEnded ==
    ASSUME NEW bs, NEW ns, NEW ss, NEW F \in [Nat -> Nat], NEW A \in [Nat -> Nat], NEW T \in [Nat -> Nat],
           NEW G \in [Nat -> Nat], Laid(bs, ns, ss, F, A, T, G), IsList(bs), IsList(ns), IsList(ss), bs # <<>>, ss # <<>>,
           ns # <<>>, ns[Len(ns)].kind = "func"
    PROVE  Laid(Front(bs), Front(ns), Front(ss), F, A, T, G) /\ Len(ss) > 1
  <1>0. LaidOut(bs, ns, ss, F, G)
    BY LaidFacts
  <1> DEFINE m == Len(bs)
             n == Len(ns)
             L == Len(ss)
             bt == Front(bs)
             nt == Front(ns)
             st == Front(ss)
  <1>1. m \in Nat /\ m > 0 /\ n \in Nat /\ L \in Nat /\ L > 0 /\ n > 0
    <2>1. n > 0
      BY ListFacts
    <2> QED
      BY <1>0, <2>1 DEF LaidOut
  <1>2. /\ G[1] = 1 /\ G[n + 1] = L /\ F[1] = 1 /\ F[L] = m
        /\ (\A q \in 1..n+1 : G[q] \in 1..L) /\ \A q \in 1..n : G[q] < G[q + 1]
    BY <1>0 DEF LaidOut
  <1>3. /\ \A p, q \in 1..n+1 : p <= q => G[p] <= G[q]
        /\ \A i \in 1..L : F[i] \in 1..m
        /\ \A q \in 1..n : Placed(ns[q].kind, G[q], G[q + 1], F, A, T)
    BY DEF Laid
  <1>4. /\ \A k \in 1..m : \A i \in 1..L : F[i] >= k <=> i > bs[k].base
        /\ \A k \in 1..m : Mapped(bs[k], ss, LastScope(bs, ss, k), A, T)
        /\ \A q \in 1..n : ns[q].kind = "select" => DOMAIN ss[G[q + 1]] = {} \/ bs[F[G[q + 1]]].merged
    BY DEF Laid
  <1>5. /\ IsList(bt) /\ Len(bt) = m - 1 /\ \A j \in 1..m-1 : bt[j] = bs[j]
    BY ListFront
  <1>6. /\ IsList(nt) /\ Len(nt) = n - 1 /\ \A j \in 1..n-1 : nt[j] = ns[j]
    BY ListFront
  <1>7. /\ IsList(st) /\ Len(st) = L - 1 /\ \A j \in 1..L-1 : st[j] = ss[j]
    BY ListFront
  <1>8. ns[n].kind = "func"
    OBVIOUS
  <1> HIDE DEF m, n, L, bt, nt, st
  <1>9. n \in 1..n /\ n \in 1..n+1 /\ L \in 1..L /\ m \in 1..m /\ (n - 1) + 1 = n /\ n - 1 \in Nat
    BY <1>1
  <1>10. G[n] = L - 1 /\ F[L] = F[L - 1] + 1 /\ L - 1 \in 1..L
    <2> DEFINE g == G[n]
    <2>1. L = g + 1 /\ F[L] = F[g] + 1
      BY <1>2, <1>3, <1>8, <1>9 DEF Placed
    <2>2. g \in 1..L
      BY <1>2, <1>9
    <2> HIDE DEF g
    <2>3. g = L - 1
      BY <1>1, <2>1, <2>2
    <2> QED
      BY <2>1, <2>2, <2>3 DEF g
  <1>11. F[L - 1] = m - 1 /\ m - 1 \in 1..m /\ m - 1 \in Nat /\ (m - 1) + 1 = m /\ m # m - 1 /\ ~(m - 1 >= m)
    <2> DEFINE f == F[L - 1]
    <2>1. f \in 1..m /\ m = f + 1
      BY <1>2, <1>3, <1>10
    <2> HIDE DEF f
    <2>a. f \in Nat /\ f >= 1
      BY <1>1, <2>1
    <2>2. f = m - 1 /\ m - 1 \in 1..m /\ m - 1 \in Nat /\ (m - 1) + 1 = m /\ m # m - 1 /\ ~(m - 1 >= m)
      BY <1>1, <2>1, <2>a, OneLess
    <2> QED
      BY <2>2 DEF f
  <1>12. L - 1 \in Nat /\ L > 1
    BY <1>1, <1>10
  <1>13. bs[m].base = L - 1
    <2> DEFINE x == bs[m].base
    <2>1. x \in Nat
      BY <1>4, <1>9 DEF Mapped, BuilderOK
    <2>2. m >= m
      BY <1>1
    <2>3. L > x
      BY <1>2, <1>4, <1>9, <2>2
    <2>4. ~(L - 1 > x)
      BY <1>4, <1>9, <1>10, <1>11
    <2> HIDE DEF x
    <2>5. x = L - 1
      BY <1>1, <2>1, <2>3, <2>4, JustBelow
    <2> QED
      BY <2>5 DEF x
  <1>14. /\ \A q \in 1..n-1 : q \in 1..n /\ q \in 1..n+1 /\ q + 1 \in 1..n /\ q + 1 \in 1..n+1 /\ q + 1 <= n
         /\ \A q \in 1..n : q \in 1..n+1
         /\ \A i \in 1..L-1 : i \in 1..L /\ i <= L - 1
         /\ \A k \in 1..m-1 : k \in 1..m /\ k + 1 \in 1..m /\ k # m /\ (k = m - 1 \/ (k # m - 1 /\ k + 1 \in 1..m-1))
    BY <1>1, ButLast
  <1>15. G[Len(nt) + 1] = Len(st) /\ F[Len(st)] = Len(bt)
    BY <1>5, <1>6, <1>7, <1>9, <1>10, <1>11
  <1>16. \A p, q \in 1..Len(nt)+1 : p <= q => G[p] <= G[q]
    BY <1>3, <1>6, <1>9, <1>14
  <1>17. \A i \in 1..Len(st) : F[i] \in 1..Len(bt)
    <2> SUFFICES ASSUME NEW i \in 1..L-1 PROVE F[i] \in 1..m-1
      BY <1>5, <1>7
    <2> DEFINE f == F[i]
    <2>1. f \in 1..m
      BY <1>3, <1>14
    <2>2. ~(i > L - 1)
      BY <1>1, <1>14
    <2>3. ~(f >= m)
      BY <1>4, <1>9, <1>13, <1>14, <2>2
    <2> HIDE DEF f
    <2>4. f \in 1..m-1
      BY <1>1, <2>1, <2>3
    <2> QED
      BY <2>4 DEF f
  <1>18. \A q \in 1..Len(nt) : Placed(nt[q].kind, G[q], G[q + 1], F, A, T)
    BY <1>3, <1>6, <1>14
  <1>19. \A k \in 1..Len(bt) : \A i \in 1..Len(st) : F[i] >= k <=> i > bt[k].base
    BY <1>4, <1>5, <1>7, <1>14
  <1>20. \A k \in 1..Len(bt) : Mapped(bt[k], st, LastScope(bt, st, k), A, T)
    <2> SUFFICES ASSUME NEW k \in 1..m-1 PROVE Mapped(bt[k], st, LastScope(bt, st, k), A, T)
      BY <1>5
    <2> DEFINE y == bs[k + 1].base
               b == bs[k]
    <2>1. k \in 1..m /\ k + 1 \in 1..m /\ k # m
      BY <1>14
    <2>2. LastScope(bs, ss, k) = y
      BY <2>1 DEF LastScope, m
    <2>3. LastScope(bt, st, k) = y
      <3>1. CASE k = m - 1
        BY <1>5, <1>7, <1>11, <1>13, <3>1 DEF LastScope
      <3>2. CASE k # m - 1 /\ k + 1 \in 1..m-1
        BY <1>5, <3>2 DEF LastScope
      <3> QED
        BY <1>14, <3>1, <3>2
    <2>4. y \in Nat /\ y < L
      <3>1. y \in Nat
        BY <1>4, <2>1 DEF Mapped, BuilderOK
      <3>2. m >= k + 1
        BY <1>1, <2>1
      <3>3. L > y
        BY <1>2, <1>4, <1>9, <2>1, <3>2
      <3> HIDE DEF y
      <3>4. y < L
        BY <1>1, <3>1, <3>3
      <3> QED
        BY <3>1, <3>4
    <2>5. bt[k] = b /\ Mapped(b, ss, y, A, T) /\ b.base \in Nat
      BY <1>4, <1>5, <2>1, <2>2 DEF Mapped, BuilderOK
    <2> HIDE DEF y, b
    <2>6. \A i \in b.base+1..y : i \in 1..L-1
      <3> DEFINE x == b.base
      <3>1. x \in Nat
        BY <2>5
      <3> HIDE DEF x
      <3>2. \A i \in x+1..y : i \in 1..L-1
        BY <1>1, <2>4, <3>1
      <3> QED
        BY <3>2 DEF x
    <2>7. AlikeIn(b.base, y, ss, A, T, st, A, T)
      BY <1>7, <2>6 DEF AlikeIn
    <2> QED
      BY <2>3, <2>4, <2>5, <2>7, MappedAlike
  <1>21. ASSUME NEW q \in 1..Len(nt), nt[q].kind = "select"
         PROVE  DOMAIN st[G[q + 1]] = {} \/ bt[F[G[q + 1]]].merged
    <2> DEFINE x == G[q + 1]
    <2>1. q \in 1..n-1
      BY <1>6, <1>21
    <2>2. ns[q].kind = "select" /\ q \in 1..n /\ q + 1 \in 1..n+1 /\ q + 1 <= n
      BY <1>6, <1>14, <1>21, <2>1
    <2>3. x \in 1..L /\ x <= L - 1
      BY <1>2, <1>3, <1>9, <1>10, <2>2
    <2>4. DOMAIN ss[x] = {} \/ bs[F[x]].merged
      BY <1>4, <2>2
    <2> HIDE DEF x
    <2>5. x \in 1..L-1
      BY <1>1, <2>3
    <2>6. st[x] = ss[x] /\ F[x] \in 1..m-1
      BY <1>5, <1>7, <1>17, <2>5
    <2> QED
      BY <1>5, <2>4, <2>6 DEF x
  <1>22. Laid(bt, nt, st, F, A, T, G)
    BY <1>2, <1>15, <1>16, <1>17, <1>18, <1>19, <1>20, <1>21 DEF Laid
  <1> QED
    BY <1>12, <1>22 DEF bt, nt, st, L

-----------------------------------------------------------------------------
(***************************************************************************)
(* The same without the witnesses: a statement opens, closes, is followed  *)
(* by another part of it, or declares.                                     *)
(***************************************************************************)
LEMMA StandingTop ==
    ASSUME NEW bs, NEW ns, NEW ss, NEW F, NEW A, NEW T, NEW G, Standing(bs, ns, ss, F, A, T, G)
    PROVE  /\ Len(bs) \in Nat /\ Len(bs) > 0 /\ Len(ns) \in Nat /\ Len(ss) \in Nat /\ Len(ss) > 0
           /\ Last(bs) = bs[Len(bs)] /\ Last(ss) = ss[Len(ss)]
           /\ Mapped(Last(bs), ss, Len(ss), A, T) /\ F[Len(ss)] = Len(bs) /\ G[Len(ns) + 1] = Len(ss)
  <1>1. LaidOut(bs, ns, ss, F, G)
    BY LaidFacts DEF Standing
  <1>2. Last(bs) = bs[Len(bs)] /\ Last(ss) = ss[Len(ss)]
    BY ListFront DEF Standing
  <1>3. Len(bs) \in 1..Len(bs)
    BY <1>1 DEF LaidOut
  <1>4. Mapped(bs[Len(bs)], ss, Len(ss), A, T)
    BY <1>3 DEF Standing, Laid, LastScope
  <1> QED
    BY <1>1, <1>2, <1>4 DEF LaidOut

Prolongs(f, n, x, y, g) ==
  /\ g \in [Nat -> Nat] /\ (\A i \in 1..n : g[i] = f[i]) /\ g[n + 1] = x /\ g[n + 2] = y

LEMMA ProlongedBy == ASSUME NEW f \in [Nat -> Nat], NEW n \in Nat, NEW x \in Nat, NEW y \in Nat PROVE \E g : Prolongs(f, n, x, y, g)
  <1> DEFINE g == [i \in Nat |-> IF i <= n THEN f[i] ELSE IF i = n + 1 THEN x ELSE y]
  <1>1. n + 1 \in Nat /\ ~(n + 1 <= n) /\ n + 2 \in Nat /\ ~(n + 2 <= n) /\ n + 2 # n + 1
    OBVIOUS
  <1>2. \A i \in 1..n : i \in Nat /\ i <= n
    OBVIOUS
  <1>3. g \in [Nat -> Nat]
    OBVIOUS
  <1>4. \A i \in Nat : g[i] = IF i <= n THEN f[i] ELSE IF i = n + 1 THEN x ELSE y
    OBVIOUS
  <1> HIDE DEF g
  <1>5. Prolongs(f, n, x, y, g)
    BY <1>1, <1>2, <1>3, <1>4 DEF Prolongs
  <1> QED
    BY <1>5

AlikeTo(hi, ss, A, T, st, B, U) == \A i \in 1..hi : st[i] = ss[i] /\ B[i] = A[i] /\ U[i] = T[i]

LEMMA MappedKept ==
    ASSUME NEW b, NEW hi \in Nat, NEW ss, NEW A, NEW T, NEW st, NEW B, NEW U, Mapped(b, ss, hi, A, T),
           AlikeTo(hi, ss, A, T, st, B, U)
    PROVE  Mapped(b, st, hi, B, U)
  <1>1. b.base \in Nat
    BY DEF Mapped, BuilderOK
  <1>2. \A i \in b.base+1..hi : i \in 1..hi
    <2> DEFINE x == b.base
    <2>1. x \in Nat
      BY <1>1
    <2> HIDE DEF x
    <2>2. \A i \in x+1..hi : i \in 1..hi
      BY <2>1
    <2> QED
      BY <2>2 DEF x
  <1>3. AlikeIn(b.base, hi, ss, A, T, st, B, U)
    BY <1>2 DEF AlikeIn, AlikeTo
  <1> QED
    BY <1>3, MappedAlike

\* The scope of the source that a statement adds has some names, that are at most one, in register r.
NamesOf(x, names, r) == DOMAIN x = names /\ (\A n \in names : x[n] = r) /\ \A n, m \in names : n = m

LEMMA MappedNames ==
    ASSUME NEW b, NEW c, NEW hi \in Nat, NEW ss, NEW A \in [Nat -> Nat], NEW T \in [Nat -> Nat], NEW names,
           Mapped(b, ss, hi, A, T), Entered(b, c, names), A[hi + 1] = A[hi] + 1, T[hi + 1] = T[hi] + 1,
           NamesOf(ss[hi + 1], names, b.numRegs + 1)
    PROVE  Mapped(c, ss, hi + 1, A, T)
  BY MappedEnters DEF NamesOf

\* What a statement opens: its builder, itself, and its scopes of the source.
Opens1(bs, ss, A, T, F, c, l, st, B, U, E) ==
  LET m == Len(bs)
      L == Len(ss)
      h == Len(st)
  IN  /\ E \in [Nat -> Nat] /\ B \in [Nat -> Nat] /\ U \in [Nat -> Nat]
      /\ IsList(st) /\ (h = L + 1 \/ h = L + 2) /\ (\A i \in 1..L : st[i] = ss[i])
      /\ (\A i \in 1..L : E[i] = F[i] /\ B[i] = A[i] /\ U[i] = T[i]) /\ (\A i \in L+1..h : E[i] = m)
      /\ c.base = bs[m].base /\ (bs[m].merged => c.merged)
      /\ Mapped(c, st, h, B, U) /\ Placed(l.kind, L, h, E, B, U)
      /\ l.kind = "select" => DOMAIN st[h] = {}

LEMMA Opened ==
    ASSUME NEW bs, NEW ns, NEW ss, NEW F, NEW A, NEW T, NEW G, Standing(bs, ns, ss, F, A, T, G),
           NEW c, NEW l, NEW st, NEW B, NEW U, NEW E, Opens1(bs, ss, A, T, F, c, l, st, B, U, E)
    PROVE  Matches(Append(Front(bs), c), Append(ns, l), st)
  <1> DEFINE m == Len(bs)
             L == Len(ss)
             n == Len(ns)
             h == Len(st)
             bt == Append(Front(bs), c)
             nt == Append(ns, l)
  <1>1. m \in Nat /\ m > 0 /\ L \in Nat /\ L > 0 /\ n \in Nat /\ F[L] = m /\ G[n + 1] = L
    BY StandingTop
  <1>2. IsList(bt) /\ Len(bt) = m /\ bt[m] = c /\ \A k \in 1..m-1 : bt[k] = bs[k]
    BY ListTop DEF Standing
  <1>3. IsList(nt) /\ Len(nt) = n + 1 /\ nt[n + 1] = l /\ \A q \in 1..n : nt[q] = ns[q]
    BY ListAppend DEF Standing
  <1>4. /\ E \in [Nat -> Nat] /\ B \in [Nat -> Nat] /\ U \in [Nat -> Nat]
        /\ IsList(st) /\ (h = L + 1 \/ h = L + 2) /\ (\A i \in 1..L : st[i] = ss[i])
    BY DEF Opens1
  <1>5. /\ (\A i \in 1..L : E[i] = F[i] /\ B[i] = A[i] /\ U[i] = T[i]) /\ (\A i \in L+1..h : E[i] = m)
        /\ c.base = bs[m].base /\ (bs[m].merged => c.merged)
    BY DEF Opens1
  <1>6. /\ Mapped(c, st, h, B, U) /\ Placed(l.kind, L, h, E, B, U)
        /\ l.kind = "select" => DOMAIN st[h] = {}
    BY DEF Opens1
  <1> HIDE DEF m, L, n, h, bt, nt
  <1>7. h \in Nat /\ h > L
    <2>1. h \in Nat
      BY <1>4, ListFacts DEF h
    <2> QED
      BY <1>1, <1>4, <2>1
  <1>8. Replaces(bs, ns, ss, F, A, T, n, G[n + 1], bt, nt, st, E, B, U, h)
    <2>1. Replaces(bs, ns, ss, F, A, T, n, L, bt, nt, st, E, B, U, h)
      BY <1>1, <1>2, <1>3, <1>4, <1>5, <1>6, <1>7 DEF Replaces, m, h
    <2> QED
      BY <1>1, <2>1
  <1>9. n \in 0..n
    BY <1>1
  <1>10. \E H \in [Nat -> Nat] : Laid(bt, nt, st, E, B, U, H)
    BY <1>8, <1>9, Replaced DEF Standing, n
  <1>11. bt # <<>> /\ st # <<>>
    BY <1>1, <1>2, <1>4, <1>7, ListFacts DEF h
  <1>12. PICK H \in [Nat -> Nat] : Laid(bt, nt, st, E, B, U, H)
    BY <1>10
  <1>13. Standing(bt, nt, st, E, B, U, H)
    BY <1>2, <1>3, <1>4, <1>11, <1>12 DEF Standing
  <1> QED
    BY <1>13 DEF Matches, bt, nt

LEMMA OpenedOne ==
    ASSUME NEW bs, NEW ns, NEW ss, Matches(bs, ns, ss), NEW c, NEW l,
           \/ l.kind = "block" /\ Entered(Last(bs), c, {})
           \/ l.kind = "select" /\ Stacked1(Last(bs), c)
    PROVE  Matches(Append(Front(bs), c), Append(ns, l), Append(ss, NoName))
  <1>1. PICK F, A, T, G : Standing(bs, ns, ss, F, A, T, G)
    BY DEF Matches
  <1> DEFINE m == Len(bs)
             L == Len(ss)
             b == Last(bs)
             st == Append(ss, NoName)
  <1>2. /\ m \in Nat /\ L \in Nat /\ L > 0 /\ b = bs[m] /\ Mapped(b, ss, L, A, T) /\ F[L] = m
    BY <1>1, StandingTop
  <1>3. F \in [Nat -> Nat] /\ A \in [Nat -> Nat] /\ T \in [Nat -> Nat] /\ IsList(ss)
    BY <1>1 DEF Standing
  <1>4. IsList(st) /\ Len(st) = L + 1 /\ st[L + 1] = NoName /\ \A i \in 1..L : st[i] = ss[i]
    BY <1>3, ListAppend
  <1> HIDE DEF m, L, b, st
  <1>5. A[L] \in Nat /\ T[L] \in Nat /\ A[L] + 1 \in Nat /\ T[L] + 1 \in Nat
    BY <1>2, <1>3
  <1>6. PICK B : Prolongs(A, L, IF l.kind = "block" THEN A[L] + 1 ELSE A[L], 0, B)
    <2>1. (IF l.kind = "block" THEN A[L] + 1 ELSE A[L]) \in Nat /\ 0 \in Nat
      BY <1>5
    <2> QED
      BY <1>2, <1>3, <2>1, ProlongedBy
  <1>7. PICK U : Prolongs(T, L, T[L] + 1, 0, U)
    BY <1>2, <1>3, <1>5, ProlongedBy
  <1>8. PICK E : Prolongs(F, L, m, m, E)
    BY <1>2, <1>3, ProlongedBy
  <1>x. /\ B \in [Nat -> Nat] /\ (\A i \in 1..L : B[i] = A[i])
        /\ B[L + 1] = IF l.kind = "block" THEN A[L] + 1 ELSE A[L]
        /\ U \in [Nat -> Nat] /\ (\A i \in 1..L : U[i] = T[i]) /\ U[L + 1] = T[L] + 1
        /\ E \in [Nat -> Nat] /\ (\A i \in 1..L : E[i] = F[i]) /\ E[L + 1] = m
    BY <1>6, <1>7, <1>8 DEF Prolongs
  <1>9. L \in 1..L
    BY <1>2
  <1>10. DOMAIN st[L + 1] = {} /\ \A n \in DOMAIN st[L + 1] : st[L + 1][n] = b.numRegs + 1
    BY <1>4 DEF NoName
  <1>11. B[L] = A[L] /\ U[L] = T[L] /\ E[L] = F[L]
    BY <1>x, <1>9
  <1>12. Mapped(b, st, L, B, U)
    <2>1. AlikeTo(L, ss, A, T, st, B, U)
      BY <1>4, <1>x DEF AlikeTo
    <2> QED
      BY <1>2, <2>1, MappedKept
  <1>13. Mapped(c, st, L + 1, B, U)
    <2>1. CASE l.kind = "block" /\ Entered(b, c, {})
      <3>1. B[L + 1] = B[L] + 1 /\ U[L + 1] = U[L] + 1
        BY <1>x, <1>11, <2>1
      <3> QED
        BY <1>2, <1>x, <1>10, <1>12, <2>1, <3>1, MappedEnters
    <2>2. CASE l.kind = "select" /\ Stacked1(b, c)
      <3>1. B[L + 1] = B[L] /\ U[L + 1] = U[L] + 1
        BY <1>x, <1>11, <2>2
      <3> QED
        BY <1>2, <1>x, <1>10, <1>12, <2>2, <3>1, MappedStays
    <2> QED
      BY <2>1, <2>2 DEF b
  <1>14. c.base = b.base /\ c.merged = b.merged
    BY DEF Entered, Stacked1, b
  <1>15. Placed(l.kind, L, L + 1, E, B, U)
    BY <1>2, <1>x, <1>11 DEF Placed, Fors
  <1>16. \A i \in L+1..L+1 : i = L + 1
    BY <1>2
  <1>17. Opens1(bs, ss, A, T, F, c, l, st, B, U, E)
    BY <1>2, <1>4, <1>x, <1>10, <1>13, <1>14, <1>15, <1>16 DEF Opens1, m, L
  <1> QED
    BY <1>1, <1>17, Opened DEF st

TwoMore(ss, x, st) ==
  /\ IsList(st) /\ Len(st) = Len(ss) + 2 /\ st[Len(ss) + 1] = x /\ st[Len(ss) + 2] = NoName
  /\ \A i \in 1..Len(ss) : st[i] = ss[i]

LEMMA TwoAppended == ASSUME NEW ss, IsList(ss), NEW x PROVE TwoMore(ss, x, ss \o <<x, NoName>>)
  <1> DEFINE L == Len(ss)
             st == ss \o <<x, NoName>>
  <1>1. PICK X : ss \in Seq(X)
    BY DEF IsList
  <1>2. ss \in Seq(X \cup {x, NoName}) /\ <<x, NoName>> \in Seq(X \cup {x, NoName})
    <2>1. ss \in Seq(X \cup {x, NoName})
      BY <1>1
    <2>2. <<x, NoName>> \in Seq(X \cup {x, NoName})
      OBVIOUS
    <2> QED
      BY <2>1, <2>2
  <1>3. /\ st \in Seq(X \cup {x, NoName}) /\ Len(st) = L + 2
        /\ \A i \in 1..L+2 : st[i] = IF i <= L THEN ss[i] ELSE <<x, NoName>>[i - L]
    BY <1>2, ConcatProperties
  <1>4. L \in Nat
    BY <1>1
  <1>5. /\ L + 1 \in 1..L+2 /\ ~(L + 1 <= L) /\ (L + 1) - L = 1 /\ L + 2 \in 1..L+2 /\ ~(L + 2 <= L) /\ (L + 2) - L = 2
        /\ \A i \in 1..L : i <= L /\ i \in 1..L+2
    <2> HIDE DEF L, st
    <2> QED
      BY <1>4
  <1>6. st[L + 1] = x /\ st[L + 2] = NoName /\ \A i \in 1..L : st[i] = ss[i]
    <2> HIDE DEF L, st
    <2> QED
      BY <1>3, <1>5
  <1>7. IsList(st)
    BY <1>3 DEF IsList
  <1> QED
    BY <1>3, <1>6, <1>7 DEF TwoMore

LEMMA OpenedTwo ==
    ASSUME NEW bs, NEW ns, NEW ss, Matches(bs, ns, ss), NEW c, NEW d, NEW l, NEW names, NEW x, NEW st,
           Entered(Last(bs), c, names), NamesOf(x, names, Last(bs).numRegs + 1), TwoMore(ss, x, st),
           \/ l.kind \in Fors /\ SameVariables(c, d)
           \/ l.kind \in {"range", "switch", "if"} /\ Entered(c, d, {})
    PROVE  Matches(Append(Front(bs), d), Append(ns, l), st)
  <1>1. PICK F, A, T, G : Standing(bs, ns, ss, F, A, T, G)
    BY DEF Matches
  <1> DEFINE m == Len(bs)
             L == Len(ss)
             b == Last(bs)
  <1>2. /\ m \in Nat /\ L \in Nat /\ L > 0 /\ b = bs[m] /\ Mapped(b, ss, L, A, T) /\ F[L] = m
    BY <1>1, StandingTop
  <1>3. F \in [Nat -> Nat] /\ A \in [Nat -> Nat] /\ T \in [Nat -> Nat] /\ IsList(ss)
    BY <1>1 DEF Standing
  <1>4. NamesOf(st[L + 1], names, b.numRegs + 1) /\ DOMAIN st[L + 2] = {}
    BY DEF NoName, TwoMore
  <1>a. \A i \in 1..L : st[i] = ss[i]
    BY DEF TwoMore
  <1>b. Entered(b, c, names)
    OBVIOUS
  <1>c. IsList(st) /\ Len(st) = L + 2
    BY DEF TwoMore
  <1> HIDE DEF m, L, b
  <1>d. A[L] \in Nat /\ T[L] \in Nat
    BY <1>2, <1>3
  <1>5. A[L] + 1 \in Nat /\ A[L] + 1 + 1 \in Nat /\ T[L] + 1 \in Nat /\ T[L] + 1 + 1 \in Nat
    BY <1>d
  <1>6. PICK B : Prolongs(A, L, A[L] + 1, IF l.kind \in Fors THEN A[L] + 1 ELSE A[L] + 1 + 1, B)
    <2>1. (IF l.kind \in Fors THEN A[L] + 1 ELSE A[L] + 1 + 1) \in Nat
      BY <1>5
    <2> QED
      BY <1>2, <1>3, <1>5, <2>1, ProlongedBy
  <1>7. PICK U : Prolongs(T, L, T[L] + 1, IF l.kind \in Fors THEN T[L] + 1 ELSE T[L] + 1 + 1, U)
    <2>1. (IF l.kind \in Fors THEN T[L] + 1 ELSE T[L] + 1 + 1) \in Nat
      BY <1>5
    <2> QED
      BY <1>2, <1>3, <1>5, <2>1, ProlongedBy
  <1>8. PICK E : Prolongs(F, L, m, m, E)
    BY <1>2, <1>3, ProlongedBy
  <1>x. /\ B \in [Nat -> Nat] /\ (\A i \in 1..L : B[i] = A[i]) /\ B[L + 1] = A[L] + 1
        /\ B[L + 2] = IF l.kind \in Fors THEN A[L] + 1 ELSE A[L] + 1 + 1
        /\ U \in [Nat -> Nat] /\ (\A i \in 1..L : U[i] = T[i]) /\ U[L + 1] = T[L] + 1
        /\ U[L + 2] = IF l.kind \in Fors THEN T[L] + 1 ELSE T[L] + 1 + 1
        /\ E \in [Nat -> Nat] /\ (\A i \in 1..L : E[i] = F[i]) /\ E[L + 1] = m /\ E[L + 2] = m
    BY <1>6, <1>7, <1>8 DEF Prolongs
  <1>9. L \in 1..L /\ L + 1 \in Nat /\ (L + 1) + 1 = L + 2 /\ \A i \in L+1..L+2 : i = L + 1 \/ i = L + 2
    BY <1>2
  <1>11. B[L] = A[L] /\ U[L] = T[L] /\ E[L] = F[L]
    BY <1>x, <1>9
  <1>12. Mapped(b, st, L, B, U)
    <2>1. AlikeTo(L, ss, A, T, st, B, U)
      BY <1>a, <1>x DEF AlikeTo
    <2> QED
      BY <1>2, <2>1, MappedKept
  <1>13. Mapped(c, st, L + 1, B, U)
    BY <1>2, <1>4, <1>x, <1>b, <1>11, <1>12, MappedNames
  <1>14. Mapped(d, st, L + 2, B, U)
    <2>1. CASE l.kind \in Fors /\ SameVariables(c, d)
      <3>1. B[L + 2] = B[L + 1] /\ U[L + 2] = U[L + 1]
        BY <1>x, <2>1
      <3>2. Mapped(d, st, (L + 1) + 1, B, U)
        BY <1>4, <1>x, <1>9, <1>13, <2>1, <3>1, MappedStays
      <3> QED
        BY <1>9, <3>2
    <2>2. CASE l.kind \in {"range", "switch", "if"} /\ Entered(c, d, {})
      <3>1. B[L + 2] = B[L + 1] + 1 /\ U[L + 2] = U[L + 1] + 1
        BY <1>x, <2>2 DEF Fors
      <3>2. NamesOf(st[(L + 1) + 1], {}, c.numRegs + 1)
        BY <1>4, <1>9 DEF NamesOf
      <3>3. Mapped(d, st, (L + 1) + 1, B, U)
        BY <1>4, <1>x, <1>9, <1>13, <2>2, <3>1, <3>2, MappedNames
      <3> QED
        BY <1>9, <3>3
    <2> QED
      BY <2>1, <2>2
  <1>15. d.base = b.base /\ d.merged = b.merged
    BY <1>b DEF Entered, SameVariables
  <1>16. Placed(l.kind, L, L + 2, E, B, U) /\ l.kind # "select"
    BY <1>2, <1>x, <1>11 DEF Placed, Fors
  <1>17. Opens1(bs, ss, A, T, F, d, l, st, B, U, E)
    BY <1>2, <1>a, <1>c, <1>x, <1>9, <1>14, <1>15, <1>16 DEF Opens1, m, L
  <1> QED
    BY <1>1, <1>17, Opened

ScopesOf(kind) == IF kind = "select" THEN 0 ELSE IF kind \in {"range", "switch", "if"} THEN 2 ELSE 1
StacksOf(kind) == IF kind \in {"range", "switch", "if"} THEN 2 ELSE 1
SourcesOf(kind) == IF kind \in {"select", "block"} THEN 1 ELSE 2

\* What is known of the last statement, that is not a function literal.
Inside(b, ss, m, L, F, A, T, kind, g) ==
  /\ g \in Nat /\ g >= 1 /\ L \in Nat /\ L = g + SourcesOf(kind)
  /\ b.base \in Nat /\ b.base < g
  /\ F[g] = m /\ F[g + 1] = m /\ F[L] = m
  /\ Len(b.scopes) \in Nat /\ Len(b.shifts) \in Nat
  /\ A[L] = Len(b.scopes) /\ T[L] = Len(b.shifts)
  /\ Len(b.scopes) = A[g] + ScopesOf(kind) /\ Len(b.shifts) = T[g] + StacksOf(kind)
  /\ kind # "select" => A[g + 1] = A[g] + 1
  /\ A[g] \in Nat /\ T[g] \in Nat /\ T[g + 1] = T[g] + 1
  /\ kind = "select" => DOMAIN ss[L] = {} \/ b.merged

LEMMA LastInside ==
    ASSUME NEW bs, NEW ns, NEW ss, NEW F, NEW A, NEW T, NEW G, Standing(bs, ns, ss, F, A, T, G), ns # <<>>,
           NEW kind \in Kinds \ {"func"}, Last(ns).kind = kind
    PROVE  Inside(Last(bs), ss, Len(bs), Len(ss), F, A, T, kind, G[Len(ns)]) /\ Placed(kind, G[Len(ns)], Len(ss), F, A, T)
  <1> DEFINE m == Len(bs)
             L == Len(ss)
             n == Len(ns)
             b == Last(bs)
             g == G[n]
  <1>1. /\ m \in Nat /\ m > 0 /\ n \in Nat /\ L \in Nat /\ L > 0 /\ b = bs[m]
        /\ Mapped(b, ss, L, A, T) /\ F[L] = m /\ G[n + 1] = L
    BY StandingTop
  <1>2. n > 0 /\ ns[n].kind = kind
    <2>1. IsList(ns)
      BY DEF Standing
    <2> QED
      BY <2>1, ListFacts, ListFront
  <1>3. n \in 1..n /\ n \in 1..n+1
    BY <1>1, <1>2
  <1>4. Placed(kind, g, L, F, A, T) /\ (kind = "select" => DOMAIN ss[L] = {} \/ b.merged)
    BY <1>1, <1>2, <1>3 DEF Standing, Laid
  <1>5. F \in [Nat -> Nat] /\ A \in [Nat -> Nat] /\ T \in [Nat -> Nat]
    BY DEF Standing
  <1>6. g \in 1..L
    <2>1. LaidOut(bs, ns, ss, F, G)
      BY LaidFacts DEF Standing
    <2> QED
      BY <1>3, <2>1 DEF LaidOut
  <1>7. A[L] = Len(b.scopes) /\ T[L] = Len(b.shifts) /\ Len(b.scopes) \in Nat /\ Len(b.shifts) \in Nat /\ b.base \in Nat
    <2>1. BuilderOK(b) /\ InScopes(b, b.base, L, A, T)
      BY <1>1 DEF Mapped
    <2>2. Len(b.scopes) \in Nat /\ Len(b.shifts) \in Nat /\ b.base \in Nat
      BY <2>1, ListFacts DEF BuilderOK
    <2> QED
      BY <2>1, <2>2 DEF InScopes
  <1>8. \A i \in 1..L : F[i] >= m <=> i > b.base
    <2>1. m \in 1..m
      BY <1>1
    <2> QED
      BY <1>1, <2>1 DEF Standing, Laid
  <1> HIDE DEF m, L, n, b, g
  <1>9. g \in Nat /\ g >= 1 /\ g + 1 \in Nat /\ L = g + SourcesOf(kind)
    <2>1. L = g + SourcesOf(kind)
      BY <1>4 DEF Placed, SourcesOf
    <2>2. g \in Nat /\ g >= 1 /\ g + 1 \in Nat
      BY <1>1, <1>6
    <2> QED
      BY <2>1, <2>2
  <1>10. A[g] \in Nat /\ T[g] \in Nat /\ A[g + 1] \in Nat /\ T[g + 1] \in Nat
    BY <1>5, <1>9
  <1>11. F[g + 1] = F[g] /\ F[L] = F[g] /\ T[g + 1] = T[g] + 1 /\ (kind # "select" => A[g + 1] = A[g] + 1)
    BY <1>4 DEF Placed
  <1>12. g > b.base
    <2>1. F[g] = m /\ m >= m
      BY <1>1, <1>11
    <2> QED
      BY <1>6, <1>8, <2>1
  <1>13. Len(b.scopes) = A[g] + ScopesOf(kind) /\ Len(b.shifts) = T[g] + StacksOf(kind)
    <2>1. A[L] = A[g] + ScopesOf(kind) /\ T[L] = T[g] + StacksOf(kind)
      <3>1. CASE kind = "select"
        <4>1. L = g + 1 /\ A[g + 1] = A[g]
          BY <1>4, <3>1 DEF Placed
        <4> QED
          BY <1>10, <1>11, <3>1, <4>1 DEF ScopesOf, StacksOf
      <3>2. CASE kind = "block"
        <4>1. L = g + 1
          BY <1>4, <3>2 DEF Placed
        <4> QED
          BY <1>11, <3>2, <4>1 DEF ScopesOf, StacksOf
      <3>3. CASE kind \in Fors \cup {"else"}
        <4>1. A[L] = A[g + 1] /\ T[L] = T[g + 1]
          BY <1>4, <3>3 DEF Placed
        <4> QED
          BY <1>11, <3>3, <4>1 DEF ScopesOf, StacksOf, Fors
      <3>4. CASE kind \in {"range", "switch", "if"}
        <4>1. A[L] = A[g + 1] + 1 /\ T[L] = T[g + 1] + 1
          BY <1>4, <3>4 DEF Placed
        <4>2. A[L] = A[g] + 2 /\ T[L] = T[g] + 2
          BY <1>10, <1>11, <3>4, <4>1
        <4> QED
          BY <3>4, <4>2 DEF ScopesOf, StacksOf
      <3> QED
        BY <3>1, <3>2, <3>3, <3>4 DEF Kinds
    <2> QED
      BY <1>7, <2>1
  <1>14. b.base < g
    <2> DEFINE x == b.base
    <2>1. x \in Nat /\ g > x
      BY <1>7, <1>12
    <2> HIDE DEF x
    <2>2. x < g
      BY <1>9, <2>1
    <2> QED
      BY <2>2 DEF x
  <1>15. Inside(b, ss, m, L, F, A, T, kind, g)
    BY <1>1, <1>4, <1>7, <1>9, <1>10, <1>11, <1>13, <1>14 DEF Inside
  <1> QED
    BY <1>4, <1>15 DEF b, m, L, g, n

Leaves(b, m, hi, A, ss) == ~b.merged => \A i \in m+1..hi : A[i] > A[m] \/ DOMAIN ss[i] = {}

LEMMA MappedLeaves ==
    ASSUME NEW b, NEW c, NEW hi \in Nat, NEW m \in Nat, NEW ss, NEW A \in [Nat -> Nat], NEW T \in [Nat -> Nat],
           Mapped(b, ss, hi, A, T), m < hi, b.base < m, Exited(b, c, A[m], T[m]), Leaves(b, m, hi, A, ss)
    PROVE  Mapped(c, ss, m, A, T)
  BY MappedExits DEF Leaves

LEMMA LeavesInside ==
    ASSUME NEW b, NEW ss, NEW m, NEW L \in Nat, NEW F, NEW A \in [Nat -> Nat], NEW T \in [Nat -> Nat], NEW kind \in Kinds \ {"func"},
           NEW g, Inside(b, ss, m, L, F, A, T, kind, g), Mapped(b, ss, L, A, T)
    PROVE  Leaves(b, g, L, A, ss)
  <1>1. g \in Nat /\ A[g] \in Nat /\ L = g + SourcesOf(kind) /\ b.base \in Nat /\ b.base < g
    BY DEF Inside
  <1>2. CASE kind = "select"
    <2>1. L = g + 1
      BY <1>1, <1>2 DEF SourcesOf
    <2>2. \A i \in g+1..L : i = L
      BY <1>1, <2>1
    <2>3. ~b.merged => DOMAIN ss[L] = {}
      BY <1>2 DEF Inside
    <2> QED
      BY <2>2, <2>3 DEF Leaves
  <1>3. CASE kind # "select"
    <2>1. A[g + 1] = A[g] + 1
      BY <1>3 DEF Inside
    <2> SUFFICES ASSUME NEW i \in g+1..L PROVE A[i] > A[g]
      BY DEF Leaves
    <2>2. i \in Nat /\ i >= g + 1 /\ g + 1 <= i /\ i <= L /\ g + 1 \in Nat
      BY <1>1
    <2> DEFINE x == b.base
    <2>3. x \in Nat /\ x < g
      BY <1>1
    <2>4. \A p, q \in x+1..L : p <= q => A[p] <= A[q]
      BY MappedPlain
    <2> HIDE DEF x
    <2>5. g + 1 \in x+1..L /\ i \in x+1..L
      BY <1>1, <2>2, <2>3
    <2>6. A[g + 1] <= A[i]
      BY <2>2, <2>4, <2>5
    <2>7. A[i] \in Nat
      BY <2>2
    <2> DEFINE v == A[i]
               u == A[g]
    <2>8. v \in Nat /\ u \in Nat /\ u + 1 <= v
      BY <1>1, <2>1, <2>6, <2>7
    <2> HIDE DEF v, u
    <2>9. v > u
      BY <2>8
    <2> QED
      BY <2>9 DEF v, u
  <1> QED
    BY <1>2, <1>3

\* A list of statements of the same kinds as the first ones of another.
SameKinds(nt, ns, n) == IsList(nt) /\ Len(nt) = n /\ \A q \in 1..n : nt[q].kind = ns[q].kind
Prefix(st, ss, n) == IsList(st) /\ Len(st) = n /\ \A i \in 1..n : st[i] = ss[i]

LEMMA Closed ==
    ASSUME NEW bs, NEW ns, NEW ss, Matches(bs, ns, ss), ns # <<>>,
           NEW kind \in Kinds \ {"func"}, Last(ns).kind = kind, NEW c, NEW nt, NEW st,
           Exited(Last(bs), c, Len(Last(bs).scopes) - ScopesOf(kind), Len(Last(bs).shifts) - StacksOf(kind)),
           SameKinds(nt, ns, Len(ns) - 1), Prefix(st, ss, Len(ss) - SourcesOf(kind))
    PROVE  Matches(Append(Front(bs), c), nt, st)
  <1>1. PICK F, A, T, G : Standing(bs, ns, ss, F, A, T, G)
    BY DEF Matches
  <1> DEFINE m == Len(bs)
             L == Len(ss)
             n == Len(ns)
             b == Last(bs)
             g == G[n]
             bt == Append(Front(bs), c)
  <1>2. /\ m \in Nat /\ m > 0 /\ n \in Nat /\ L \in Nat /\ L > 0 /\ b = bs[m] /\ Mapped(b, ss, L, A, T)
    BY <1>1, StandingTop
  <1>3. Inside(b, ss, m, L, F, A, T, kind, g)
    BY <1>1, LastInside
  <1>4. F \in [Nat -> Nat] /\ A \in [Nat -> Nat] /\ T \in [Nat -> Nat] /\ G \in [Nat -> Nat]
    BY <1>1 DEF Standing
  <1>5. IsList(bt) /\ Len(bt) = m /\ bt[m] = c /\ \A k \in 1..m-1 : bt[k] = bs[k]
    <2>1. IsList(bs) /\ bs # <<>>
      BY <1>1 DEF Standing
    <2> QED
      BY <2>1, ListTop
  <1>6. n > 0
    <2>1. IsList(ns)
      BY <1>1 DEF Standing
    <2> QED
      BY <2>1, ListFacts
  <1>a. SameKinds(nt, ns, n - 1) /\ Prefix(st, ss, L - SourcesOf(kind))
    OBVIOUS
  <1>b. Exited(b, c, Len(b.scopes) - ScopesOf(kind), Len(b.shifts) - StacksOf(kind))
    OBVIOUS
  <1> HIDE DEF m, L, n, b, g, bt
  <1>7. /\ L - SourcesOf(kind) = g /\ g < L /\ g \in Nat /\ g >= 1
        /\ Len(b.scopes) - ScopesOf(kind) = A[g] /\ Len(b.shifts) - StacksOf(kind) = T[g]
    <2>1. g \in Nat /\ g >= 1 /\ A[g] \in Nat /\ T[g] \in Nat
      BY <1>3 DEF Inside
    <2>2. L = g + SourcesOf(kind) /\ Len(b.scopes) = A[g] + ScopesOf(kind) /\ Len(b.shifts) = T[g] + StacksOf(kind)
      BY <1>3 DEF Inside
    <2>3. SourcesOf(kind) \in {1, 2} /\ ScopesOf(kind) \in {0, 1, 2} /\ StacksOf(kind) \in {1, 2}
      BY DEF SourcesOf, ScopesOf, StacksOf
    <2>4. L - SourcesOf(kind) = g /\ g < L
      BY <2>1, <2>2, <2>3
    <2>5. Len(b.scopes) - ScopesOf(kind) = A[g]
      BY <2>1, <2>2, <2>3
    <2>6. Len(b.shifts) - StacksOf(kind) = T[g]
      BY <2>1, <2>2, <2>3
    <2> QED
      BY <2>1, <2>4, <2>5, <2>6
  <1>8. Mapped(c, ss, g, A, T)
    <2>1. Leaves(b, g, L, A, ss)
      BY <1>2, <1>3, <1>4, LeavesInside
    <2>2. b.base < g
      BY <1>3 DEF Inside
    <2>3. Exited(b, c, A[g], T[g])
      BY <1>b, <1>7
    <2> QED
      BY <1>2, <1>4, <1>7, <2>1, <2>2, <2>3, MappedLeaves
  <1>9. c.base = b.base /\ c.merged = b.merged
    BY <1>b DEF Exited
  <1>10. n - 1 \in 0..n /\ (n - 1) + 1 = n
    BY <1>2, <1>6
  <1>11. Prefix(st, ss, g)
    BY <1>a, <1>7
  <1>12. Mapped(c, st, g, A, T)
    <2>1. AlikeTo(g, ss, A, T, st, A, T)
      BY <1>11 DEF Prefix, AlikeTo
    <2> QED
      BY <1>7, <1>8, <2>1, MappedKept
  <1>13. F[g] = m
    BY <1>3 DEF Inside
  <1>14. \A i \in g+1..g : FALSE
    BY <1>7
  <1>15. Replaces(bs, ns, ss, F, A, T, n - 1, g, bt, nt, st, F, A, T, g)
    <2>1. IsList(nt) /\ Len(nt) = n - 1 /\ \A q \in 1..n-1 : nt[q].kind = ns[q].kind
      BY <1>a DEF SameKinds
    <2>2. IsList(st) /\ Len(st) = g /\ \A i \in 1..g : st[i] = ss[i]
      BY <1>11 DEF Prefix
    <2> QED
      BY <1>2, <1>4, <1>5, <1>7, <1>9, <1>12, <1>13, <1>14, <2>1, <2>2 DEF Replaces, m
  <1>16. Replaces(bs, ns, ss, F, A, T, n - 1, G[(n - 1) + 1], bt, nt, st, F, A, T, g)
    BY <1>10, <1>15 DEF g
  <1>17. \E H \in [Nat -> Nat] : Laid(bt, nt, st, F, A, T, H)
    BY <1>1, <1>10, <1>16, Replaced DEF Standing, n
  <1>18. PICK H \in [Nat -> Nat] : Laid(bt, nt, st, F, A, T, H)
    BY <1>17
  <1>19. bt # <<>> /\ st # <<>>
    <2>1. Len(bt) > 0 /\ Len(st) > 0
      BY <1>2, <1>5, <1>7, <1>11 DEF Prefix
    <2> QED
      BY <1>5, <1>11, <2>1, ListFacts DEF Prefix
  <1>20. Standing(bt, nt, st, F, A, T, H)
    BY <1>4, <1>5, <1>a, <1>11, <1>18, <1>19 DEF Standing, SameKinds, Prefix
  <1> QED
    BY <1>20 DEF Matches, bt

\* The body of a switch and that of an if are followed by another, whose scope takes the place of its scope.
LEMMA Followed ==
    ASSUME NEW bs, NEW ns, NEW ss, Matches(bs, ns, ss), ns # <<>>, NEW c, NEW d, NEW l,
           Exited(Last(bs), c, Len(Last(bs).scopes) - 1, Len(Last(bs).shifts) - 1),
           \/ Last(ns).kind = "switch" /\ l.kind = "switch" /\ Entered(c, d, {})
           \/ Last(ns).kind = "if" /\ l.kind = "else" /\ SameVariables(c, d)
    PROVE  Matches(Append(Front(bs), d), Append(Front(ns), l), Append(Front(ss), NoName))
  <1>1. PICK F, A, T, G : Standing(bs, ns, ss, F, A, T, G)
    BY DEF Matches
  <1> DEFINE m == Len(bs)
             L == Len(ss)
             n == Len(ns)
             b == Last(bs)
             g == G[n]
             kind == Last(ns).kind
             bt == Append(Front(bs), d)
             nt == Append(Front(ns), l)
             st == Append(Front(ss), NoName)
  <1>2. /\ m \in Nat /\ m > 0 /\ n \in Nat /\ L \in Nat /\ L > 0 /\ b = bs[m] /\ Mapped(b, ss, L, A, T)
    BY <1>1, StandingTop
  <1>3. Inside(b, ss, m, L, F, A, T, kind, g) /\ Placed(kind, g, L, F, A, T)
    <2>1. kind \in Kinds \ {"func"}
      BY DEF Kinds, Fors
    <2> QED
      BY <1>1, <2>1, LastInside
  <1>4. F \in [Nat -> Nat] /\ A \in [Nat -> Nat] /\ T \in [Nat -> Nat] /\ G \in [Nat -> Nat]
    BY <1>1 DEF Standing
  <1>5. IsList(bt) /\ Len(bt) = m /\ bt[m] = d /\ \A k \in 1..m-1 : bt[k] = bs[k]
    <2>1. IsList(bs) /\ bs # <<>>
      BY <1>1 DEF Standing
    <2> QED
      BY <2>1, ListTop
  <1>6. IsList(nt) /\ Len(nt) = n /\ nt[n] = l /\ \A q \in 1..n-1 : nt[q] = ns[q]
    <2>1. IsList(ns) /\ ns # <<>>
      BY <1>1 DEF Standing
    <2> QED
      BY <2>1, ListTop
  <1>7. IsList(st) /\ Len(st) = L /\ st[L] = NoName /\ \A i \in 1..L-1 : st[i] = ss[i]
    <2>1. IsList(ss) /\ ss # <<>>
      BY <1>1 DEF Standing
    <2> QED
      BY <2>1, ListTop
  <1>8. n > 0
    <2>1. IsList(ns)
      BY <1>1 DEF Standing
    <2> QED
      BY <2>1, ListFacts
  <1>a. Exited(b, c, Len(b.scopes) - 1, Len(b.shifts) - 1)
    OBVIOUS
  <1>b. \/ kind = "switch" /\ l.kind = "switch" /\ Entered(c, d, {})
        \/ kind = "if" /\ l.kind = "else" /\ SameVariables(c, d)
    OBVIOUS
  <1> HIDE DEF m, L, n, b, g, kind, bt, nt, st
  <1>9. /\ g \in Nat /\ g >= 1 /\ L = g + 2 /\ F[g] = m /\ F[g + 1] = m /\ F[L] = m
        /\ b.base \in Nat /\ b.base < g /\ A[g] \in Nat /\ T[g] \in Nat
        /\ A[g + 1] = A[g] + 1 /\ T[g + 1] = T[g] + 1
    BY <1>3, <1>b DEF Inside, SourcesOf
  <1>10. Len(b.scopes) - 1 = A[g + 1] /\ Len(b.shifts) - 1 = T[g + 1]
    <2>1. Len(b.scopes) = A[g] + 2 /\ Len(b.shifts) = T[g] + 2
      BY <1>3, <1>b DEF Inside, ScopesOf, StacksOf
    <2> QED
      BY <1>9, <2>1
  <1>11. /\ g + 1 \in Nat /\ g + 1 < L /\ (g + 1) + 1 = L /\ L - 1 = g + 1 /\ g + 1 \in 1..g+1 /\ g \in 1..g+1
         /\ (\A i \in g+1..L : i = g + 1 \/ i = L) /\ (\A i \in 1..g : i \in 1..g+1) /\ \A i \in 1..g+1 : i \in 1..L-1
    <2>1. g \in Nat /\ g >= 1 /\ L = g + 2
      BY <1>9
    <2>2. g + 1 \in Nat /\ g + 1 < L /\ (g + 1) + 1 = L /\ L - 1 = g + 1 /\ g + 1 \in 1..g+1 /\ g \in 1..g+1
      BY <2>1
    <2>3. \A i \in g+1..L : i = g + 1 \/ i = L
      BY <2>1
    <2>4. (\A i \in 1..g : i \in 1..g+1) /\ \A i \in 1..g+1 : i \in 1..L-1
      BY <2>1
    <2> QED
      BY <2>2, <2>3, <2>4
  <1>12. b.base < g + 1
    <2> DEFINE x == b.base
    <2>1. x \in Nat /\ x < g /\ g \in Nat
      BY <1>9
    <2> HIDE DEF x
    <2>2. x < g + 1
      BY <2>1
    <2> QED
      BY <2>2 DEF x
  <1>13. A[L] = A[g + 1] + 1
    BY <1>3, <1>b, <1>11 DEF Placed
  <1>14. Mapped(c, ss, g + 1, A, T)
    <2>1. A[L] > A[g + 1]
      <3> DEFINE v == A[g + 1]
      <3>1. v \in Nat /\ A[L] = v + 1
        BY <1>4, <1>11, <1>13
      <3> HIDE DEF v
      <3>2. A[L] > v
        BY <3>1
      <3> QED
        BY <3>2 DEF v
    <2>2. \A i \in (g + 1)+1..L : i = L
      BY <1>9, <1>11
    <2>3. Leaves(b, g + 1, L, A, ss)
      BY <2>1, <2>2 DEF Leaves
    <2>4. Exited(b, c, A[g + 1], T[g + 1])
      BY <1>a, <1>10
    <2> QED
      BY <1>2, <1>4, <1>11, <1>12, <2>3, <2>4, MappedLeaves
  <1>15. PICK B : Prolongs(A, g + 1, IF kind = "switch" THEN A[g + 1] + 1 ELSE A[g + 1], 0, B)
    <2>a. A[g + 1] \in Nat
      BY <1>4, <1>11
    <2>1. A[g + 1] \in Nat /\ A[g + 1] + 1 \in Nat
      BY <2>a
    <2>2. (IF kind = "switch" THEN A[g + 1] + 1 ELSE A[g + 1]) \in Nat /\ 0 \in Nat
      BY <2>1
    <2> QED
      BY <1>4, <1>11, <2>2, ProlongedBy
  <1>16. PICK U : Prolongs(T, g + 1, IF kind = "switch" THEN T[g + 1] + 1 ELSE T[g + 1], 0, U)
    <2>a. T[g + 1] \in Nat
      BY <1>4, <1>11
    <2>1. T[g + 1] \in Nat /\ T[g + 1] + 1 \in Nat
      BY <2>a
    <2>2. (IF kind = "switch" THEN T[g + 1] + 1 ELSE T[g + 1]) \in Nat /\ 0 \in Nat
      BY <2>1
    <2> QED
      BY <1>4, <1>11, <2>2, ProlongedBy
  <1>17. /\ B \in [Nat -> Nat] /\ (\A i \in 1..g+1 : B[i] = A[i])
         /\ B[L] = IF kind = "switch" THEN A[g + 1] + 1 ELSE A[g + 1]
         /\ U \in [Nat -> Nat] /\ (\A i \in 1..g+1 : U[i] = T[i])
         /\ U[L] = IF kind = "switch" THEN T[g + 1] + 1 ELSE T[g + 1]
    BY <1>11, <1>15, <1>16 DEF Prolongs
  <1>18. B[g + 1] = A[g + 1] /\ U[g + 1] = T[g + 1] /\ B[g] = A[g] /\ U[g] = T[g]
    BY <1>11, <1>17
  <1>19. Mapped(c, st, g + 1, B, U)
    <2>1. AlikeTo(g + 1, ss, A, T, st, B, U)
      BY <1>7, <1>11, <1>17 DEF AlikeTo
    <2> QED
      BY <1>11, <1>14, <2>1, MappedKept
  <1>20. DOMAIN st[L] = {}
    BY <1>7 DEF NoName
  <1>21. Mapped(d, st, L, B, U)
    <2>1. CASE kind = "switch" /\ Entered(c, d, {})
      <3>1. B[L] = B[g + 1] + 1 /\ U[L] = U[g + 1] + 1
        BY <1>17, <1>18, <2>1
      <3>2. NamesOf(st[(g + 1) + 1], {}, c.numRegs + 1)
        BY <1>11, <1>20 DEF NamesOf
      <3>3. Mapped(d, st, (g + 1) + 1, B, U)
        BY <1>11, <1>17, <1>19, <2>1, <3>1, <3>2, MappedNames
      <3> QED
        BY <1>11, <3>3
    <2>2. CASE kind = "if" /\ SameVariables(c, d)
      <3>1. B[L] = B[g + 1] /\ U[L] = U[g + 1]
        BY <1>17, <1>18, <2>2
      <3>2. Mapped(d, st, (g + 1) + 1, B, U)
        BY <1>11, <1>17, <1>19, <1>20, <2>2, <3>1, MappedStays
      <3> QED
        BY <1>11, <3>2
    <2> QED
      BY <1>b, <2>1, <2>2
  <1>22. d.base = b.base /\ d.merged = b.merged
    BY <1>a, <1>b DEF Entered, SameVariables, Exited
  <1>23. Placed(l.kind, g, L, F, B, U) /\ l.kind # "select"
    <2>1. F[g + 1] = F[g] /\ F[L] = F[g] /\ U[g + 1] = U[g] + 1 /\ B[g + 1] = B[g] + 1 /\ L = g + 2
      BY <1>9, <1>18
    <2>2. l.kind = "switch" => B[L] = B[g + 1] + 1 /\ U[L] = U[g + 1] + 1
      BY <1>b, <1>17, <1>18
    <2>3. l.kind = "else" => B[L] = B[g + 1] /\ U[L] = U[g + 1]
      BY <1>b, <1>17, <1>18
    <2>4. l.kind \in {"switch", "else"}
      BY <1>b
    <2> QED
      BY <2>1, <2>2, <2>3, <2>4 DEF Placed, Fors
  <1>24. n - 1 \in 0..n /\ (n - 1) + 1 = n /\ g < L /\ L > g
    BY <1>2, <1>8, <1>9
  <1>25. \A i \in g+1..L : F[i] = m
    BY <1>9, <1>11
  <1>26. (\A i \in 1..g : st[i] = ss[i]) /\ \A i \in 1..g : F[i] = F[i] /\ B[i] = A[i] /\ U[i] = T[i]
    BY <1>7, <1>11, <1>17
  <1>27. Replaces(bs, ns, ss, F, A, T, n - 1, g, bt, nt, st, F, B, U, L)
    BY <1>2, <1>4, <1>5, <1>6, <1>7, <1>9, <1>17, <1>21, <1>22, <1>23, <1>24, <1>25, <1>26 DEF Replaces, m
  <1>28. Replaces(bs, ns, ss, F, A, T, n - 1, G[(n - 1) + 1], bt, nt, st, F, B, U, L)
    BY <1>24, <1>27 DEF g
  <1>29. \E H \in [Nat -> Nat] : Laid(bt, nt, st, F, B, U, H)
    BY <1>1, <1>24, <1>28, Replaced DEF Standing, n
  <1>30. PICK H \in [Nat -> Nat] : Laid(bt, nt, st, F, B, U, H)
    BY <1>29
  <1>31. bt # <<>> /\ st # <<>>
    BY <1>2, <1>5, <1>7, ListFacts
  <1>32. Standing(bt, nt, st, F, B, U, H)
    BY <1>4, <1>5, <1>6, <1>7, <1>17, <1>30, <1>31 DEF Standing
  <1> QED
    BY <1>32 DEF Matches, bt, nt, st

TopOf(st, ss) == IsList(st) /\ Len(st) = Len(ss) /\ \A i \in 1..Len(ss)-1 : st[i] = ss[i]

LEMMA Topped ==
    ASSUME NEW bs, NEW ns, NEW ss, NEW F, NEW A, NEW T, NEW G, Standing(bs, ns, ss, F, A, T, G),
           NEW c, NEW nt, NEW st, SameKinds(nt, ns, Len(ns)), TopOf(st, ss),
           c.base = Last(bs).base, Last(bs).merged => c.merged, Mapped(c, st, Len(ss), A, T),
           ns # <<>> /\ Last(ns).kind = "select" => DOMAIN st[Len(ss)] = {} \/ c.merged
    PROVE  Matches(Append(Front(bs), c), nt, st)
  <1> DEFINE bt == Append(Front(bs), c)
  <1>1. /\ Len(bs) \in Nat /\ Len(bs) > 0 /\ Len(ss) > 0 /\ Last(bs) = bs[Len(bs)]
    BY StandingTop
  <1>2. IsList(bt) /\ Len(bt) = Len(bs) /\ bt[Len(bs)] = c /\ \A k \in 1..Len(bs)-1 : bt[k] = bs[k]
    <2>1. IsList(bs) /\ bs # <<>>
      BY DEF Standing
    <2> QED
      BY <2>1, ListTop
  <1>3. ns # <<>> => Last(ns) = ns[Len(ns)]
    BY ListFront DEF Standing
  <1> HIDE DEF bt
  <1>4. Retops(bs, ns, ss, A, T, bt, nt, st)
    BY <1>1, <1>2, <1>3 DEF Retops, SameKinds, TopOf
  <1>5. Laid(bt, nt, st, F, A, T, G)
    BY <1>4, Retopped DEF Standing
  <1>6. bt # <<>> /\ st # <<>>
    BY <1>1, <1>2, ListFacts DEF TopOf
  <1>7. Standing(bt, nt, st, F, A, T, G)
    BY <1>2, <1>5, <1>6 DEF Standing, SameKinds, TopOf
  <1> QED
    BY <1>7 DEF Matches, bt

LEMMA Kept ==
    ASSUME NEW bs, NEW ns, NEW ss, Matches(bs, ns, ss), NEW c, SameVariables(Last(bs), c)
    PROVE  Matches(Append(Front(bs), c), ns, ss)
  <1>1. PICK F, A, T, G : Standing(bs, ns, ss, F, A, T, G)
    BY DEF Matches
  <1>2. Mapped(Last(bs), ss, Len(ss), A, T)
    BY <1>1, StandingTop
  <1>3. Mapped(c, ss, Len(ss), A, T)
    BY <1>2, MappedSame
  <1>4. c.base = Last(bs).base /\ c.merged = Last(bs).merged
    BY DEF SameVariables
  <1>5. SameKinds(ns, ns, Len(ns)) /\ TopOf(ss, ss)
    BY <1>1 DEF SameKinds, TopOf, Standing
  <1>6. ns # <<>> /\ Last(ns).kind = "select" => DOMAIN ss[Len(ss)] = {} \/ c.merged
    <2>1. SUFFICES ASSUME ns # <<>>, Last(ns).kind = "select" PROVE DOMAIN ss[Len(ss)] = {} \/ c.merged
      OBVIOUS
    <2>2. "select" \in Kinds \ {"func"}
      BY DEF Kinds
    <2>3. Inside(Last(bs), ss, Len(bs), Len(ss), F, A, T, "select", G[Len(ns)])
      BY <1>1, <2>1, <2>2, LastInside
    <2> QED
      BY <1>4, <2>3 DEF Inside
  <1> QED
    BY <1>1, <1>3, <1>4, <1>5, <1>6, Topped

\* The next case of a select is in no scope of the builder.
LEMMA SelectNext ==
    ASSUME NEW bs, NEW ns, NEW ss, Matches(bs, ns, ss), ns # <<>>, Last(ns).kind = "select", NEW l, l.kind = "select",
           NEW c, SameVariables(Last(bs), c)
    PROVE  Matches(Append(Front(bs), c), Append(Front(ns), l), Append(Front(ss), NoName))
  <1> DEFINE b == Last(bs)
             L == Len(ss)
             n == Len(ns)
             st == Append(Front(ss), NoName)
             nt == Append(Front(ns), l)
  <1>1. PICK F, A, T, G : Standing(bs, ns, ss, F, A, T, G)
    BY DEF Matches
  <1>2. /\ L \in Nat /\ L > 0 /\ n \in Nat /\ Mapped(b, ss, L, A, T)
    BY <1>1, StandingTop
  <1>3. IsList(nt) /\ Len(nt) = n /\ nt[n] = l /\ \A q \in 1..n-1 : nt[q] = ns[q]
    <2>1. IsList(ns) /\ ns # <<>>
      BY <1>1 DEF Standing
    <2> QED
      BY <2>1, ListTop
  <1>4. IsList(st) /\ Len(st) = L /\ st[L] = NoName /\ \A i \in 1..L-1 : st[i] = ss[i]
    <2>1. IsList(ss) /\ ss # <<>>
      BY <1>1 DEF Standing
    <2> QED
      BY <2>1, ListTop
  <1>5. ns[n].kind = "select"
    BY <1>1, ListFront DEF Standing
  <1>6. c.base = b.base /\ c.merged = b.merged /\ SameVariables(b, c)
    BY DEF SameVariables
  <1>7. b.merged \/ DOMAIN ss[L] = {}
    <2>1. "select" \in Kinds \ {"func"}
      BY DEF Kinds
    <2>2. Inside(b, ss, Len(bs), L, F, A, T, "select", G[n])
      BY <1>1, <2>1, LastInside
    <2> QED
      BY <2>2 DEF Inside
  <1> HIDE DEF b, L, n, st, nt
  <1>8. SameKinds(nt, ns, n) /\ TopOf(st, ss)
    <2>1. \A q \in 1..n : q = n \/ q \in 1..n-1
      BY <1>2
    <2>2. \A q \in 1..n : nt[q].kind = ns[q].kind
      BY <1>3, <1>5, <2>1
    <2> QED
      BY <1>3, <1>4, <2>2 DEF SameKinds, TopOf, L
  <1>9. DOMAIN st[L] = {}
    BY <1>4 DEF NoName
  <1>10. Mapped(c, st, L, A, T)
    <2>1. Mapped(c, ss, L, A, T)
      BY <1>2, <1>6, MappedSame
    <2>2. CASE c.merged
      <3>1. BuilderOK(c)
        BY <2>1 DEF Mapped
      <3> QED
        BY <1>2, <2>1, <2>2, <3>1, MappedMerged
    <2>3. CASE DOMAIN ss[L] = {}
      <3> DEFINE x == c.base
      <3>1. x \in Nat
        BY <2>1 DEF Mapped, BuilderOK
      <3> HIDE DEF x
      <3>2. \A i \in x+1..L : i = L \/ i \in 1..L-1
        BY <1>2, <3>1
      <3>3. AlikeIn(x, L, ss, A, T, st, A, T)
        BY <1>4, <1>9, <2>3, <3>2 DEF AlikeIn
      <3> QED
        BY <1>2, <2>1, <3>3, MappedAlike DEF x
    <2> QED
      BY <1>6, <1>7, <2>2, <2>3
  <1>11. c.base = b.base /\ (b.merged => c.merged) /\ (ns # <<>> /\ Last(ns).kind = "select" => DOMAIN st[L] = {} \/ c.merged)
    BY <1>6, <1>9
  <1> QED
    BY <1>1, <1>8, <1>10, <1>11, Topped DEF L, n, b, st, nt

LEMMA FuncMatched ==
    ASSUME NEW bs, NEW ns, NEW ss, Matches(bs, ns, ss), NEW l, l.kind = "func"
    PROVE  Matches(Append(bs, enterScope(newBuilder(Len(ss)))), Append(ns, l), Append(ss, NoName))
  <1> DEFINE bt == Append(bs, enterScope(newBuilder(Len(ss))))
             nt == Append(ns, l)
             st == Append(ss, NoName)
  <1>1. PICK F, A, T, G : Standing(bs, ns, ss, F, A, T, G)
    BY DEF Matches
  <1>2. \E E, B, U, H \in [Nat -> Nat] : Laid(bt, nt, st, E, B, U, H)
    BY <1>1, FuncOpened DEF Standing
  <1>3. IsList(bt) /\ IsList(nt) /\ IsList(st) /\ Len(bt) = Len(bs) + 1 /\ Len(st) = Len(ss) + 1
    BY <1>1, ListAppend DEF Standing
  <1>4. Len(bs) \in Nat /\ Len(ss) \in Nat
    BY <1>1, ListFacts DEF Standing
  <1> HIDE DEF bt, nt, st
  <1>5. bt # <<>> /\ st # <<>>
    <2>1. Len(bt) > 0 /\ Len(st) > 0
      BY <1>3, <1>4
    <2> QED
      BY <1>3, <2>1, ListFacts
  <1>6. PICK E, B, U, H \in [Nat -> Nat] : Laid(bt, nt, st, E, B, U, H)
    BY <1>2
  <1>7. Standing(bt, nt, st, E, B, U, H)
    BY <1>3, <1>5, <1>6 DEF Standing
  <1> QED
    BY <1>7 DEF Matches, bt, nt, st

LEMMA FuncClosed ==
    ASSUME NEW bs, NEW ns, NEW ss, Matches(bs, ns, ss), ns # <<>>, Last(ns).kind = "func", Front(bs) # <<>>
    PROVE  Matches(Front(bs), Front(ns), Front(ss))
  <1>1. PICK F, A, T, G : Standing(bs, ns, ss, F, A, T, G)
    BY DEF Matches
  <1>2. ns[Len(ns)].kind = "func"
    BY <1>1, ListFront DEF Standing
  <1>3. Laid(Front(bs), Front(ns), Front(ss), F, A, T, G) /\ Len(ss) > 1
    BY <1>1, <1>2, FuncEnded DEF Standing
  <1>4. IsList(Front(bs)) /\ IsList(Front(ns)) /\ IsList(Front(ss)) /\ Len(Front(ss)) = Len(ss) - 1 /\ Len(ss) \in Nat
    BY <1>1, ListFront, ListFacts DEF Standing
  <1>5. Front(ss) # <<>>
    <2>1. Len(Front(ss)) > 0
      BY <1>3, <1>4
    <2> QED
      BY <1>4, <2>1, ListFacts
  <1>6. Standing(Front(bs), Front(ns), Front(ss), F, A, T, G)
    BY <1>1, <1>3, <1>4, <1>5 DEF Standing
  <1> QED
    BY <1>6 DEF Matches

\* What Declare makes of the scope of the source and of the builder.
DeclaredIn(inner, name, r) == [n \in DOMAIN inner \cup {name} |-> IF n \in DOMAIN inner THEN inner[n] ELSE r]

\* b becomes c when name is declared.
Introduces(b, name, c) ==
  LET a == Len(b.scopes)
      r == b.numRegs + 1
  IN  /\ BuilderOK(c) /\ c.base = b.base /\ c.merged = b.merged /\ c.shifts = b.shifts /\ Len(c.scopes) = a
      /\ DOMAIN c = BuilderFields
      /\ name \in DOMAIN Last(b.scopes) => c.scopes = b.scopes /\ c.numRegs = b.numRegs
      /\ name \notin DOMAIN Last(b.scopes) =>
           /\ c.numRegs = r /\ \A s \in 1..a-1 : c.scopes[s] = b.scopes[s]
           /\ DOMAIN c.scopes[a] = DOMAIN b.scopes[a] \cup {name}
           /\ \A n \in DOMAIN b.scopes[a] \cup {name} : c.scopes[a][n] = IF n = name THEN r ELSE b.scopes[a][n]
           /\ scopeLookup(c.scopes, name) = r

LEMMA VariableIntroduced ==
    ASSUME NEW b, BuilderOK(b), b.scopes # <<>>, NEW name
    PROVE  Introduces(b, name, emitDeclaration(b, name))
  <1> DEFINE e == emitDeclaration(b, name)
             L == Len(b.scopes)
             r == b.numRegs
             f == Emit(newRegister(b), "move")
             g == bindVarReg(f, name, b.numRegs + 1)
  <1>1. /\ DOMAIN b = BuilderFields /\ IsList(b.scopes) /\ IsList(b.shifts) /\ r \in Nat
        /\ b.base \in Nat /\ b.merged \in BOOLEAN /\ (\A t \in 1..Len(b.shifts) : b.shifts[t] \in Nat)
    BY DEF BuilderOK
  <1>2. L \in Nat /\ L > 0 /\ Last(b.scopes) = b.scopes[L]
    BY <1>1, ListFacts, ListFront
  <1>3. /\ DOMAIN f = BuilderFields /\ f.scopes = b.scopes /\ f.shifts = b.shifts /\ f.numRegs = r + 1
        /\ f.base = b.base /\ f.merged = b.merged
    BY <1>1 DEF Emit, newRegister, BuilderFields
  <1>4. BuilderOK(f)
    <2>1. r + 1 \in Nat
      BY <1>1
    <2> QED
      BY <1>1, <1>3, <2>1 DEF BuilderOK
  <1>5. e = IF name \in DOMAIN Last(b.scopes) THEN Emit(b, "move") ELSE g
    BY DEF emitDeclaration
  <1> HIDE DEF e, f
  <1>7. CASE name \in DOMAIN Last(b.scopes)
    <2>1. e = Emit(b, "move")
      BY <1>5, <1>7
    <2>2. SameVariables(b, e)
      BY <1>1, <2>1, SameOps
    <2>3. BuilderOK(e) /\ DOMAIN e = BuilderFields
      BY <1>1, <2>2, SameOK DEF SameVariables
    <2> QED
      BY <1>7, <2>2, <2>3 DEF Introduces, SameVariables, e
  <1>8. CASE name \notin DOMAIN Last(b.scopes)
    <2>1. e = g
      BY <1>5, <1>8
    <2>2. f.scopes # <<>>
      BY <1>3
    <2>3. /\ DOMAIN g = BuilderFields /\ g.shifts = f.shifts /\ g.numRegs = f.numRegs /\ g.base = f.base
          /\ g.merged = f.merged /\ IsList(g.scopes) /\ Len(g.scopes) = Len(f.scopes) /\ BuilderOK(g)
      BY <1>4, <2>2, BindRegister
    <2>4. /\ \A s \in 1..Len(f.scopes)-1 : g.scopes[s] = f.scopes[s]
          /\ DOMAIN g.scopes[Len(f.scopes)] = DOMAIN f.scopes[Len(f.scopes)] \cup {name}
          /\ \A n \in DOMAIN f.scopes[Len(f.scopes)] \cup {name} :
               g.scopes[Len(f.scopes)][n] = IF n = name THEN b.numRegs + 1 ELSE f.scopes[Len(f.scopes)][n]
      BY <1>4, <2>2, BindRegister
    <2> HIDE DEF g
    <2>5. /\ e.scopes = g.scopes /\ e.shifts = b.shifts /\ e.numRegs = r + 1 /\ e.base = b.base
          /\ e.merged = b.merged /\ BuilderOK(e) /\ DOMAIN e = BuilderFields
      BY <1>3, <2>1, <2>3
    <2>6. Len(e.scopes) = L /\ IsList(e.scopes) /\ e.scopes # <<>>
      <3>1. Len(e.scopes) = L /\ IsList(e.scopes)
        BY <1>3, <2>3, <2>5
      <3> QED
        BY <1>2, <3>1, ListFacts
    <2>7. /\ \A s \in 1..L-1 : e.scopes[s] = b.scopes[s]
          /\ DOMAIN e.scopes[L] = DOMAIN b.scopes[L] \cup {name}
          /\ \A n \in DOMAIN b.scopes[L] \cup {name} :
               e.scopes[L][n] = IF n = name THEN r + 1 ELSE b.scopes[L][n]
      BY <1>3, <2>4, <2>5
    <2>8. scopeLookup(e.scopes, name) = r + 1
      <3>1. name \in DOMAIN e.scopes[L] /\ e.scopes[L][name] = r + 1
        BY <2>7
      <3> QED
        BY <2>6, <3>1, LookupTop
    <2> QED
      BY <1>8, <2>5, <2>6, <2>7, <2>8 DEF Introduces, e
  <1> QED
    BY <1>7, <1>8

LEMMA DeclareMatched ==
    ASSUME NEW bs, NEW ns, NEW ss, Matches(bs, ns, ss), NEW name, NEW c,
           c = [emitDeclaration(Last(bs), name) EXCEPT !.merged =
                  @ \/ (name \notin DOMAIN Last(ss) /\ (name \in DOMAIN Last(Last(bs).scopes) \/ ~(ns = <<>> \/ Last(ns).kind # "select")))]
    PROVE  Matches(Append(Front(bs), c), ns, Append(Front(ss), DeclaredIn(Last(ss), name, scopeLookup(c.scopes, name))))
  <1> DEFINE b == Last(bs)
             L == Len(ss)
             inner == Last(ss)
             own == ns = <<>> \/ Last(ns).kind # "select"
             in == name \in DOMAIN Last(b.scopes)
             new == name \notin DOMAIN inner
             w == new /\ (in \/ ~own)
             a == Len(b.scopes)
             r == b.numRegs
             x == DeclaredIn(inner, name, scopeLookup(c.scopes, name))
             st == Append(Front(ss), x)
  <1>1. PICK F, A, T, G : Standing(bs, ns, ss, F, A, T, G)
    BY DEF Matches
  <1>2. /\ L \in Nat /\ L > 0 /\ Mapped(b, ss, L, A, T) /\ inner = ss[L]
    BY <1>1, StandingTop
  <1>3. A \in [Nat -> Nat] /\ T \in [Nat -> Nat] /\ IsList(ns)
    BY <1>1 DEF Standing
  <1>4. IsList(st) /\ Len(st) = L /\ st[L] = x /\ \A i \in 1..L-1 : st[i] = ss[i]
    <2>1. IsList(ss) /\ ss # <<>>
      BY <1>1 DEF Standing
    <2> QED
      BY <2>1, ListTop
  <1>5. DOMAIN x = DOMAIN inner \cup {name} /\ \A n \in DOMAIN x : x[n] = IF n \in DOMAIN inner THEN inner[n] ELSE scopeLookup(c.scopes, name)
    BY DEF DeclaredIn
  <1>6. BuilderOK(b) /\ b.scopes # <<>> /\ Last(b.scopes) = b.scopes[a] /\ A[L] = a
    <2>1. BuilderOK(b) /\ b.scopes # <<>>
      BY <1>2, <1>3, MappedFacts
    <2>2. Last(b.scopes) = b.scopes[a]
      BY <2>1, ListFront DEF BuilderOK
    <2>3. A[L] = a
      BY <1>2 DEF Mapped, InScopes
    <2> QED
      BY <2>1, <2>2, <2>3
  <1>7. w \in BOOLEAN /\ c = [emitDeclaration(b, name) EXCEPT !.merged = @ \/ w]
    OBVIOUS
  <1>8. ns # <<>> /\ Last(ns).kind = "select" => DOMAIN ss[L] = {} \/ b.merged
    <2>1. SUFFICES ASSUME ns # <<>>, Last(ns).kind = "select" PROVE DOMAIN ss[L] = {} \/ b.merged
      OBVIOUS
    <2>2. "select" \in Kinds \ {"func"}
      BY DEF Kinds
    <2>3. Inside(b, ss, Len(bs), L, F, A, T, "select", G[Len(ns)])
      BY <1>1, <2>1, <2>2, LastInside
    <2> QED
      BY <2>3 DEF Inside
  <1>9. ns # <<>> /\ Last(ns).kind = "select" => ~own
    OBVIOUS
  <1> HIDE DEF b, x, st, inner, own
  <1>10. /\ BuilderOK(c) /\ c.base = b.base /\ c.merged = (b.merged \/ w) /\ c.shifts = b.shifts /\ Len(c.scopes) = a
         /\ (in => c.scopes = b.scopes /\ c.numRegs = r)
         /\ ~in => /\ c.numRegs = r + 1 /\ (\A s \in 1..a-1 : c.scopes[s] = b.scopes[s])
                   /\ DOMAIN c.scopes[a] = DOMAIN b.scopes[a] \cup {name}
                   /\ \A n \in DOMAIN b.scopes[a] \cup {name} : c.scopes[a][n] = IF n = name THEN r + 1 ELSE b.scopes[a][n]
                   /\ scopeLookup(c.scopes, name) = r + 1
    <2> DEFINE e == emitDeclaration(b, name)
    <2>1. Introduces(b, name, e)
      BY <1>6, VariableIntroduced
    <2>2. c = [e EXCEPT !.merged = @ \/ w]
      BY <1>7
    <2>3. DOMAIN e = BuilderFields /\ BuilderOK(e) /\ e.merged = b.merged
      BY <2>1 DEF Introduces
    <2> HIDE DEF e, w
    <2>4. /\ c.scopes = e.scopes /\ c.shifts = e.shifts /\ c.numRegs = e.numRegs /\ c.base = e.base
          /\ DOMAIN c = BuilderFields
      BY <2>2, <2>3 DEF BuilderFields
    <2>5. c.merged = (e.merged \/ w)
      BY <2>2, <2>3 DEF BuilderFields
    <2>6. c.merged \in BOOLEAN
      BY <2>5
    <2>7. BuilderOK(c)
      BY <2>3, <2>4, <2>6 DEF BuilderOK
    <2>8. c.merged = (b.merged \/ w)
      BY <2>3, <2>5
    <2> QED
      BY <2>1, <2>4, <2>7, <2>8 DEF Introduces
  <1> HIDE DEF L, a, r
  <1>11. b.merged \in BOOLEAN /\ b.base \in Nat
    BY <1>6 DEF BuilderOK
  <1>12. Mapped(c, st, L, A, T)
    <2>1. CASE c.merged
      <3>1. Mapped(b, ss, L, A, T) /\ BuilderOK(c) /\ c.base = b.base /\ c.merged /\ L \in Nat
        BY <1>2, <1>10, <2>1
      <3>2. Len(c.scopes) = Len(b.scopes) /\ Len(c.shifts) = Len(b.shifts)
        BY <1>10 DEF a
      <3> QED
        BY <3>1, <3>2, MappedMerged
    <2>2. CASE ~c.merged /\ ~new
      <3>1. ~b.merged
        BY <1>10, <2>2
      <3>2. L \in b.base+1..L /\ name \in DOMAIN ss[L]
        <4>1. name \in DOMAIN ss[L]
          BY <1>2, <2>2
        <4>2. b.base < L
          BY <1>2 DEF Mapped, InScopes
        <4> DEFINE lo == b.base
        <4>3. lo \in Nat /\ lo < L
          BY <1>11, <4>2
        <4> HIDE DEF lo
        <4>4. L \in lo+1..L
          BY <1>2, <4>3
        <4> QED
          BY <4>1, <4>4 DEF lo
      <3>3. Held(b.scopes, b.shifts, b.numRegs, ss, b.base, L, A, T)
        BY <1>2, <3>1 DEF Mapped, VariablesKept
      <3>4. in
        BY <1>6, <3>2, <3>3 DEF Held
      <3>5. c.scopes = b.scopes /\ c.numRegs = r /\ c.merged = b.merged
        BY <1>10, <1>11, <2>2, <3>1, <3>4
      <3>6. SameVariables(b, c)
        BY <1>6, <1>10, <3>5 DEF SameVariables, r, BuilderOK
      <3>7. Mapped(c, ss, L, A, T)
        BY <1>2, <3>6, MappedSame
      <3>8. DOMAIN x = DOMAIN ss[L] /\ \A n \in DOMAIN ss[L] : x[n] = ss[L][n]
        BY <1>2, <1>5, <2>2
      <3> DEFINE lo == c.base
      <3>9. lo \in Nat
        BY <1>10, <1>11
      <3> HIDE DEF lo
      <3>10. \A i \in lo+1..L : i = L \/ i \in 1..L-1
        BY <1>2, <3>9
      <3>11. AlikeIn(lo, L, ss, A, T, st, A, T)
        BY <1>4, <3>8, <3>10 DEF AlikeIn
      <3> QED
        BY <1>2, <3>7, <3>11, MappedAlike DEF lo
    <2>3. CASE ~c.merged /\ new
      <3>1. ~in /\ c.merged = b.merged
        BY <1>10, <1>11, <2>3
      <3>2. /\ c.numRegs = r + 1 /\ (\A s \in 1..a-1 : c.scopes[s] = b.scopes[s])
            /\ DOMAIN c.scopes[a] = DOMAIN b.scopes[a] \cup {name}
            /\ (\A n \in DOMAIN b.scopes[a] \cup {name} : c.scopes[a][n] = IF n = name THEN r + 1 ELSE b.scopes[a][n])
            /\ scopeLookup(c.scopes, name) = r + 1 /\ name \notin DOMAIN b.scopes[a]
        BY <1>6, <1>10, <3>1
      <3>3. /\ DOMAIN st[L] = DOMAIN ss[L] \cup {name}
            /\ \A n \in DOMAIN ss[L] \cup {name} : st[L][n] = IF n = name THEN r + 1 ELSE ss[L][n]
        BY <1>2, <1>4, <1>5, <2>3, <3>2
      <3>4. \A i \in b.base+1..L-1 : DOMAIN st[i] = DOMAIN ss[i] /\ \A n \in DOMAIN ss[i] : st[i][n] = ss[i][n]
        <4> DEFINE lo == b.base
        <4>1. lo \in Nat
          BY <1>11
        <4> HIDE DEF lo
        <4>2. \A i \in lo+1..L-1 : i \in 1..L-1
          BY <1>2, <4>1
        <4> QED
          BY <1>4, <4>2 DEF lo
      <3>5. Declares(b, c, ss, st, L, name)
        BY <1>10, <3>1, <3>2, <3>3, <3>4 DEF Declares, a, r
      <3> QED
        BY <1>2, <1>3, <3>5, MappedDeclares
    <2> QED
      BY <2>1, <2>2, <2>3
  <1>13. ns # <<>> /\ Last(ns).kind = "select" => DOMAIN st[L] = {} \/ c.merged
    <2> SUFFICES ASSUME ns # <<>>, Last(ns).kind = "select" PROVE c.merged
      OBVIOUS
    <2>1. ~own
      BY <1>9
    <2>2. CASE new
      BY <1>10, <2>1, <2>2
    <2>3. CASE ~new
      <3>1. DOMAIN ss[L] # {}
        BY <1>2, <2>3
      <3> QED
        BY <1>8, <1>10, <3>1
    <2> QED
      BY <2>2, <2>3
  <1>14. SameKinds(ns, ns, Len(ns)) /\ TopOf(st, ss)
    BY <1>3, <1>4 DEF SameKinds, TopOf, L
  <1>15. c.base = b.base /\ (b.merged => c.merged)
    BY <1>10
  <1> QED
    BY <1>1, <1>12, <1>13, <1>14, <1>15, Topped DEF L, b, st, x, inner

-----------------------------------------------------------------------------
(***************************************************************************)
(* Every action of the emitter.                                            *)
(***************************************************************************)
LEMMA NestAppend ==
    ASSUME NEW ns, NestOK(ns), NEW l, l.kind \in Kinds, DOMAIN l = StatementFields
    PROVE  NestOK(Append(ns, l))
  <1> DEFINE nt == Append(ns, l)
             n == Len(ns)
  <1>1. IsList(ns) /\ n \in Nat
    BY ListFacts DEF NestOK
  <1>2. IsList(nt) /\ Len(nt) = n + 1 /\ nt[n + 1] = l /\ \A q \in 1..n : nt[q] = ns[q]
    BY <1>1, ListAppend
  <1> HIDE DEF nt
  <1>3. \A q \in 1..n+1 : q \in 1..n \/ q = n + 1
    BY <1>1
  <1> QED
    BY <1>2, <1>3 DEF NestOK, nt

LEMMA NestFront == ASSUME NEW ns, NestOK(ns), ns # <<>> PROVE NestOK(Front(ns)) /\ SameKinds(Front(ns), ns, Len(ns) - 1)
  <1> DEFINE nt == Front(ns)
             n == Len(ns)
  <1>1. IsList(ns) /\ n \in Nat
    BY ListFacts DEF NestOK
  <1>2. IsList(nt) /\ Len(nt) = n - 1 /\ \A q \in 1..n-1 : nt[q] = ns[q]
    BY <1>1, ListFront
  <1> HIDE DEF nt
  <1>3. \A q \in 1..n-1 : q \in 1..n
    BY <1>1
  <1> QED
    BY <1>2, <1>3 DEF NestOK, SameKinds, nt

LEMMA NestTop ==
    ASSUME NEW ns, NestOK(ns), ns # <<>>, NEW l, l.kind \in Kinds, DOMAIN l = StatementFields
    PROVE  NestOK(Append(Front(ns), l))
  BY NestFront, NestAppend

LEMMA NestLast == ASSUME NEW ns, NestOK(ns), ns # <<>> PROVE Last(ns).kind \in Kinds /\ DOMAIN Last(ns) = StatementFields
  <1>1. IsList(ns)
    BY DEF NestOK
  <1>2. Len(ns) \in 1..Len(ns)
    BY <1>1, ListFacts
  <1> QED
    BY <1>1, <1>2, ListFront DEF NestOK

LEMMA LocalFacts == \A kind, name : Local(kind, name).kind = kind /\ DOMAIN Local(kind, name) = StatementFields
  BY DEF Local, StatementFields

LEMMA SameThen ==
    ASSUME NEW b, DOMAIN b = BuilderFields, NEW c, SameVariables(b, c)
    PROVE  /\ \A op : SameVariables(b, Emit(c, op))
           /\ SameVariables(b, newLabel(c))
           /\ \A lab : SameVariables(b, setLabelAddr(c, lab))
           /\ \A lab : SameVariables(b, emitGoto(c, lab))
           /\ \A op, lab : SameVariables(b, emitRangeJump(c, op, lab))
           /\ \A id, continue, end : SameVariables(b, Marks(c, id, continue, end))
           /\ \A what, j, why : SameVariables(b, Jumps(c, what, j, why))
  <1>1. DOMAIN c = BuilderFields
    BY DEF SameVariables
  <1> QED
    BY <1>1, SameOps, SameChain

LEMMA SameItself == \A b : SameVariables(b, b)
  BY DEF SameVariables

LEMMA PlacesSame ==
    ASSUME NEW b, DOMAIN b = BuilderFields, NEW c, SameVariables(b, c)
    PROVE  SameVariables(b, PlacesBreak(c))
  BY SameThen DEF PlacesBreak

\* What is known of the current builder and of the scopes of the source, to close a statement.
Deep(b, ss, kind) ==
  /\ BuilderOK(b) /\ DOMAIN b = BuilderFields
  /\ Len(b.scopes) \in Nat /\ Len(b.shifts) \in Nat /\ Len(ss) \in Nat
  /\ Len(b.scopes) >= ScopesOf(kind) /\ Len(b.shifts) >= StacksOf(kind) /\ Len(ss) > SourcesOf(kind)
  /\ Len(b.scopes) > 0 /\ Len(b.shifts) > 0 /\ b.scopes # <<>> /\ b.shifts # <<>>

LEMMA MatchesDeep ==
    ASSUME NEW bs, NEW ns, NEW ss, Matches(bs, ns, ss), ns # <<>>, NEW kind \in Kinds \ {"func"}, Last(ns).kind = kind
    PROVE  Deep(Last(bs), ss, kind)
  <1> DEFINE b == Last(bs)
  <1>1. PICK F, A, T, G : Standing(bs, ns, ss, F, A, T, G)
    BY DEF Matches
  <1>2. Inside(b, ss, Len(bs), Len(ss), F, A, T, kind, G[Len(ns)])
    BY <1>1, LastInside
  <1>3. Mapped(b, ss, Len(ss), A, T) /\ Len(ss) \in Nat /\ A \in [Nat -> Nat] /\ T \in [Nat -> Nat]
    <2>1. Mapped(b, ss, Len(ss), A, T) /\ Len(ss) \in Nat
      BY <1>1, StandingTop
    <2>2. A \in [Nat -> Nat] /\ T \in [Nat -> Nat]
      BY <1>1 DEF Standing
    <2> QED
      BY <2>1, <2>2
  <1>4. BuilderOK(b) /\ Len(b.scopes) \in Nat /\ Len(b.shifts) \in Nat
        /\ Len(b.scopes) >= 1 /\ Len(b.shifts) >= 1 /\ b.scopes # <<>> /\ b.shifts # <<>>
    BY <1>3, MappedFacts
  <1> DEFINE g == G[Len(ns)]
             v == A[g]
             w == T[g]
             a == Len(b.scopes)
             t == Len(b.shifts)
             L == Len(ss)
  <1>5. /\ g \in Nat /\ g >= 1 /\ L = g + SourcesOf(kind) /\ v \in Nat /\ w \in Nat
        /\ a = v + ScopesOf(kind) /\ t = w + StacksOf(kind)
    BY <1>2 DEF Inside
  <1>6. ScopesOf(kind) \in 0..2 /\ StacksOf(kind) \in 0..2 /\ SourcesOf(kind) \in 0..2
    BY DEF ScopesOf, StacksOf, SourcesOf
  <1>7. a \in Nat /\ t \in Nat /\ L \in Nat /\ a >= 1 /\ t >= 1
    BY <1>3, <1>4
  <1> HIDE DEF g, v, w, a, t, L
  <1>8. a >= ScopesOf(kind)
    BY <1>5, <1>6
  <1>9. t >= StacksOf(kind)
    BY <1>5, <1>6
  <1>10. L > SourcesOf(kind)
    BY <1>5, <1>6
  <1>11. a > 0 /\ t > 0
    BY <1>7
  <1> QED
    BY <1>4, <1>7, <1>8, <1>9, <1>10, <1>11 DEF Deep, BuilderOK, a, t, L

LEMMA ExitsOnce ==
    ASSUME NEW b, BuilderOK(b), b.scopes # <<>>, b.shifts # <<>>, NEW u, SameVariables(b, u)
    PROVE  Exited(b, exitScope(u), Len(b.scopes) - 1, Len(b.shifts) - 1)
  <1>1. BuilderOK(u) /\ u.scopes = b.scopes /\ u.shifts = b.shifts
    BY SameOK DEF SameVariables
  <1>2. Exited(u, exitScope(u), Len(b.scopes) - 1, Len(b.shifts) - 1)
    BY <1>1, ExitScope
  <1> QED
    BY <1>2, SameExited

LEMMA ExitsTwice ==
    ASSUME NEW b, BuilderOK(b), NEW c, Exited(b, c, Len(b.scopes) - 1, Len(b.shifts) - 1),
           Len(b.scopes) >= 2, Len(b.shifts) >= 2, NEW u, SameVariables(c, u)
    PROVE  Exited(b, exitScope(u), Len(b.scopes) - 2, Len(b.shifts) - 2)
  <1> DEFINE a == Len(b.scopes)
             t == Len(b.shifts)
  <1>1. a \in Nat /\ t \in Nat /\ a >= 2 /\ t >= 2
    BY ListFacts DEF BuilderOK
  <1>2. BuilderOK(c) /\ Len(c.scopes) = a - 1 /\ Len(c.shifts) = t - 1
    BY DEF Exited
  <1> HIDE DEF a, t
  <1>3. a - 1 \in Nat /\ t - 1 \in Nat /\ a - 2 \in Nat /\ t - 2 \in Nat /\ (a - 1) - 1 = a - 2 /\ (t - 1) - 1 = t - 2
        /\ a - 1 > 0 /\ t - 1 > 0
    BY <1>1
  <1>4. c.scopes # <<>> /\ c.shifts # <<>>
    BY <1>2, <1>3, ListFacts DEF BuilderOK
  <1>5. Exited(c, exitScope(u), Len(c.scopes) - 1, Len(c.shifts) - 1)
    BY <1>2, <1>4, ExitsOnce
  <1>6. Exited(c, exitScope(u), a - 2, t - 2)
    BY <1>2, <1>3, <1>5
  <1>7. Exited(b, c, a - 1, t - 1)
    BY DEF a, t
  <1>8. Exited(b, exitScope(u), a - 2, t - 2)
    BY <1>3, <1>6, <1>7, ExitedTwice
  <1> QED
    BY <1>8 DEF a, t

LEMMA FrontPrefix == ASSUME NEW ss, IsList(ss), Len(ss) > 1 PROVE Prefix(Front(ss), ss, Len(ss) - 1)
  <1>1. ss # <<>>
    BY ListFacts
  <1> QED
    BY <1>1, ListFront DEF Prefix

LEMMA FrontTwice == ASSUME NEW ss, IsList(ss), Len(ss) > 2 PROVE Prefix(Front(Front(ss)), ss, Len(ss) - 2)
  <1> DEFINE L == Len(ss)
             st == Front(ss)
  <1>1. L \in Nat /\ ss # <<>>
    BY ListFacts
  <1>2. IsList(st) /\ Len(st) = L - 1 /\ \A i \in 1..L-1 : st[i] = ss[i]
    BY <1>1, ListFront
  <1>a. L > 2
    OBVIOUS
  <1> HIDE DEF L, st
  <1>3. L - 1 > 0 /\ (L - 1) - 1 = L - 2 /\ \A i \in 1..L-2 : i \in 1..L-1
    BY <1>1, <1>a
  <1>4. st # <<>>
    BY <1>2, <1>3, ListFacts
  <1>5. IsList(Front(st)) /\ Len(Front(st)) = L - 2 /\ \A i \in 1..L-2 : Front(st)[i] = st[i]
    BY <1>2, <1>3, <1>4, ListFront
  <1> QED
    BY <1>2, <1>3, <1>5 DEF Prefix, st, L

\* The builder that is the last of those around.
LEMMA CurrentBuilder ==
    ASSUME NEW bs, NEW ns, NEW ss, Matches(bs, ns, ss)
    PROVE  /\ BuilderOK(Last(bs)) /\ DOMAIN Last(bs) = BuilderFields /\ Last(bs).scopes # <<>> /\ Last(bs).shifts # <<>>
           /\ IsList(bs) /\ IsList(ns) /\ IsList(ss)
  <1>1. PICK F, A, T, G : Standing(bs, ns, ss, F, A, T, G)
    BY DEF Matches
  <1>2. Mapped(Last(bs), ss, Len(ss), A, T) /\ Len(ss) \in Nat
    BY <1>1, StandingTop
  <1>3. IsList(bs) /\ IsList(ns) /\ IsList(ss) /\ A \in [Nat -> Nat] /\ T \in [Nat -> Nat]
    BY <1>1 DEF Standing
  <1>4. BuilderOK(Last(bs)) /\ Last(bs).scopes # <<>> /\ Last(bs).shifts # <<>>
    BY <1>2, <1>3, MappedFacts
  <1> QED
    BY <1>3, <1>4 DEF BuilderOK

LEMMA OpenForKeeps == ASSUME VariablesInv, NEW kind, NEW name, OpenFor(kind, name) PROVE VariablesInv'
  <1> DEFINE b    == fb
             init == emitDeclaration(enterScope(fb), name)
             head == newLabel(init)
             post == setLabelAddr(newLabel(head), lastLabel(head))
             body == emitGoto(newLabel(Emit(post, "if")), lastLabel(post) + 1)
             bare == newLabel(setLabelAddr(head, lastLabel(head)))
             loop == IF kind = "for" THEN body ELSE bare
             x    == [n \in {name} |-> scopeLookup(loop.scopes, name)]
             l    == [Local(kind, name) EXCEPT !.head = lastLabel(head), !.end = lastLabel(loop),
                        !.post = IF kind = "for" THEN lastLabel(post) ELSE lastLabel(head)]
  <1>1. Matches(fbs, nest, sources) /\ kind \in Fors
    BY DEF VariablesInv, OpenFor, Opens, Writes
  <1>2. fbs' = Append(Front(fbs), loop) /\ nest' = Append(nest, l) /\ sources' = sources \o <<x, NoName>>
    BY DEF OpenFor, Builder
  <1>3. l.kind = kind /\ DOMAIN l = StatementFields
    BY LocalFacts DEF StatementFields
  <1> HIDE DEF l
  <1>4. BuilderOK(b) /\ IsList(sources)
    BY <1>1, CurrentBuilder DEF fb
  <1>5. Entered(b, init, {name}) /\ scopeLookup(init.scopes, name) = b.numRegs + 1
    BY <1>4, EnterDeclaring
  <1>6. DOMAIN init = BuilderFields
    BY <1>5 DEF Entered, BuilderOK
  <1> HIDE DEF b, init
  <1>7. SameVariables(init, head)
    BY <1>6, SameOps
  <1>8. SameVariables(init, loop)
    <2> HIDE DEF head
    <2>1. SameVariables(init, newLabel(head))
      BY <1>6, <1>7, SameThen
    <2>2. SameVariables(init, post)
      BY <1>6, <2>1, SameThen
    <2> HIDE DEF post
    <2>3. SameVariables(init, Emit(post, "if"))
      BY <1>6, <2>2, SameThen
    <2>4. SameVariables(init, newLabel(Emit(post, "if")))
      BY <1>6, <2>3, SameThen
    <2>5. SameVariables(init, body)
      BY <1>6, <2>4, SameThen
    <2>6. SameVariables(init, setLabelAddr(head, lastLabel(head)))
      BY <1>6, <1>7, SameThen
    <2>7. SameVariables(init, bare)
      BY <1>6, <2>6, SameThen
    <2> HIDE DEF body, bare
    <2> QED
      BY <2>5, <2>7
  <1> HIDE DEF loop
  <1>9. scopeLookup(loop.scopes, name) = b.numRegs + 1
    BY <1>5, <1>8 DEF SameVariables
  <1>10. NamesOf(x, {name}, b.numRegs + 1)
    BY <1>9 DEF NamesOf
  <1> HIDE DEF x
  <1>11. TwoMore(sources, x, sources \o <<x, NoName>>)
    BY <1>4, TwoAppended
  <1>12. Matches(Append(Front(fbs), loop), Append(nest, l), sources \o <<x, NoName>>)
    BY <1>1, <1>3, <1>5, <1>8, <1>10, <1>11, OpenedTwo DEF b, fb
  <1>13. NestOK(Append(nest, l))
    BY <1>1, <1>3, NestAppend DEF VariablesInv, Kinds
  <1> QED
    BY <1>2, <1>12, <1>13 DEF VariablesInv

LEMMA OpenRangeKeeps == ASSUME VariablesInv, NEW name, OpenRange(name) PROVE VariablesInv'
  <1> DEFINE b     == fb
             iter  == bindVarReg(newRegister(enterScope(fb)), name, fb.numRegs + 1)
             range == setLabelAddr(newLabel(iter), lastLabel(iter) + 1)
             end   == emitGoto(Emit(newLabel(range), "range"), lastLabel(range) + 1)
             x     == [n \in {name} |-> fb.numRegs + 1]
             l     == [Local("range", name) EXCEPT !.head = lastLabel(range), !.end = lastLabel(end)]
  <1>1. Matches(fbs, nest, sources)
    BY DEF VariablesInv, OpenRange, Opens, Writes
  <1>2. fbs' = Append(Front(fbs), enterScope(end)) /\ nest' = Append(nest, l) /\ sources' = sources \o <<x, NoName>>
    BY DEF OpenRange, Builder
  <1>3. l.kind = "range" /\ DOMAIN l = StatementFields
    BY LocalFacts DEF StatementFields
  <1> HIDE DEF l
  <1>4. BuilderOK(b) /\ IsList(sources)
    BY <1>1, CurrentBuilder DEF fb
  <1>5. Entered(b, iter, {name})
    BY <1>4, SameItself, EnterWith
  <1>6. DOMAIN iter = BuilderFields
    BY <1>5 DEF Entered, BuilderOK
  <1>10. NamesOf(x, {name}, b.numRegs + 1)
    BY DEF NamesOf
  <1> HIDE DEF b, iter, x
  <1>7. SameVariables(iter, newLabel(iter))
    BY <1>6, SameOps
  <1>8. SameVariables(iter, end)
    <2>1. SameVariables(iter, range)
      BY <1>6, <1>7, SameThen
    <2> HIDE DEF range
    <2>2. SameVariables(iter, newLabel(range))
      BY <1>6, <2>1, SameThen
    <2>3. SameVariables(iter, Emit(newLabel(range), "range"))
      BY <1>6, <2>2, SameThen
    <2> QED
      BY <1>6, <2>3, SameThen
  <1> HIDE DEF end
  <1>9. Entered(b, end, {name})
    BY <1>5, <1>8, EnteredSame
  <1>11. Entered(end, enterScope(end), {})
    BY <1>9, EnterScope DEF Entered
  <1>12. TwoMore(sources, x, sources \o <<x, NoName>>)
    BY <1>4, TwoAppended
  <1>13. Matches(Append(Front(fbs), enterScope(end)), Append(nest, l), sources \o <<x, NoName>>)
    BY <1>1, <1>3, <1>9, <1>10, <1>11, <1>12, OpenedTwo DEF b, fb
  <1>14. NestOK(Append(nest, l))
    BY <1>3, NestAppend DEF VariablesInv, Kinds
  <1> QED
    BY <1>2, <1>13, <1>14 DEF VariablesInv

LEMMA OpenSwitchKeeps == ASSUME VariablesInv, NEW cases, OpenSwitch(cases) PROVE VariablesInv'
  <1> DEFINE b     == fb
             expr  == newRegister(enterScope(fb))
             end   == newLabel(newLabel(expr))
             first == emitGoto(Emit(end, "if"), lastLabel(end) - 1)
             rest  == IF cases = 2 THEN emitGoto(newLabel(first), lastLabel(first) + 1) ELSE emitGoto(first, lastLabel(end))
             c     == setLabelAddr(rest, lastLabel(end) - 1)
             l     == [Local("switch", "") EXCEPT !.end = lastLabel(end),
                         !.cases = IF cases = 2 THEN <<lastLabel(rest)>> ELSE <<>>]
  <1>1. Matches(fbs, nest, sources)
    BY DEF VariablesInv, OpenSwitch, Opens, Writes
  <1>2. fbs' = Append(Front(fbs), enterScope(c)) /\ nest' = Append(nest, l) /\ sources' = sources \o <<NoName, NoName>>
    BY DEF OpenSwitch, Builder
  <1>3. l.kind = "switch" /\ DOMAIN l = StatementFields
    BY LocalFacts DEF StatementFields
  <1> HIDE DEF l
  <1>4. BuilderOK(b) /\ IsList(sources)
    BY <1>1, CurrentBuilder DEF fb
  <1>5. Entered(b, expr, {})
    BY <1>4, EnterScope, NewRegister
  <1>6. DOMAIN expr = BuilderFields
    BY <1>5 DEF Entered, BuilderOK
  <1> HIDE DEF b, expr
  <1>7. SameVariables(expr, newLabel(expr))
    BY <1>6, SameOps
  <1>8. SameVariables(expr, c)
    <2>1. SameVariables(expr, end)
      BY <1>6, <1>7, SameThen
    <2> HIDE DEF end
    <2>2. SameVariables(expr, Emit(end, "if"))
      BY <1>6, <2>1, SameThen
    <2>3. SameVariables(expr, first)
      BY <1>6, <2>2, SameThen
    <2> HIDE DEF first
    <2>4. SameVariables(expr, newLabel(first))
      BY <1>6, <2>3, SameThen
    <2>5. SameVariables(expr, emitGoto(newLabel(first), lastLabel(first) + 1))
      BY <1>6, <2>4, SameThen
    <2>6. SameVariables(expr, emitGoto(first, lastLabel(end)))
      BY <1>6, <2>3, SameThen
    <2>7. SameVariables(expr, rest)
      BY <2>5, <2>6
    <2> HIDE DEF rest
    <2> QED
      BY <1>6, <2>7, SameThen
  <1> HIDE DEF c
  <1>9. Entered(b, c, {})
    BY <1>5, <1>8, EnteredSame
  <1>10. Entered(c, enterScope(c), {})
    BY <1>9, EnterScope DEF Entered
  <1>11. NamesOf(NoName, {}, b.numRegs + 1)
    BY DEF NamesOf, NoName
  <1>12. TwoMore(sources, NoName, sources \o <<NoName, NoName>>)
    BY <1>4, TwoAppended
  <1>13. Matches(Append(Front(fbs), enterScope(c)), Append(nest, l), sources \o <<NoName, NoName>>)
    BY <1>1, <1>3, <1>9, <1>10, <1>11, <1>12, OpenedTwo DEF b, fb
  <1>14. NestOK(Append(nest, l))
    BY <1>3, NestAppend DEF VariablesInv, Kinds
  <1> QED
    BY <1>2, <1>13, <1>14 DEF VariablesInv

LEMMA StackedRegister ==
    ASSUME NEW b, BuilderOK(b), NEW d, SameVariables(newRegister(enterStack(b)), d)
    PROVE  Stacked1(b, d)
  <1> DEFINE e == enterStack(b)
             c == newRegister(e)
  <1>1. Stacked1(b, e)
    BY EnterStack
  <1>2. BuilderOK(e) /\ DOMAIN e = BuilderFields /\ e.numRegs \in Nat /\ b.numRegs \in Nat /\ e.numRegs >= b.numRegs
    BY <1>1 DEF Stacked1, BuilderOK
  <1>a. SameVariables(c, d)
    OBVIOUS
  <1> HIDE DEF e
  <1>3. /\ DOMAIN c = BuilderFields /\ c.scopes = e.scopes /\ c.shifts = e.shifts /\ c.numRegs = e.numRegs + 1
        /\ c.base = e.base /\ c.merged = e.merged
    BY <1>2 DEF newRegister, BuilderFields
  <1> HIDE DEF c
  <1>4. c.numRegs \in Nat /\ c.numRegs >= b.numRegs
    <2> DEFINE x == e.numRegs
               y == b.numRegs
    <2>1. x \in Nat /\ y \in Nat /\ x >= y /\ c.numRegs = x + 1
      BY <1>2, <1>3
    <2> HIDE DEF x, y
    <2>2. x + 1 \in Nat /\ x + 1 >= y
      BY <2>1
    <2> QED
      BY <2>1, <2>2 DEF y
  <1>5. BuilderOK(c)
    BY <1>2, <1>3, <1>4 DEF BuilderOK
  <1>6. BuilderOK(d)
    BY <1>5, <1>a, SameOK
  <1> QED
    BY <1>1, <1>3, <1>4, <1>6, <1>a DEF Stacked1, SameVariables

LEMMA OpenSelectKeeps == ASSUME VariablesInv, NEW cases, OpenSelect(cases) PROVE VariablesInv'
  <1> DEFINE b      == fb
             regs   == newRegister(enterStack(fb))
             case1  == emitGoto(Emit(newLabel(regs), "case"), lastLabel(regs) + 1)
             case2  == IF cases = 2 THEN emitGoto(Emit(newLabel(case1), "case"), lastLabel(case1) + 1) ELSE case1
             select == newLabel(Emit(case2, "select"))
             c      == setLabelAddr(select, lastLabel(case1))
             l      == [Local("select", "") EXCEPT !.end = lastLabel(select),
                          !.cases = IF cases = 2 THEN <<lastLabel(case2)>> ELSE <<>>]
  <1>1. Matches(fbs, nest, sources)
    BY DEF VariablesInv, OpenSelect, Opens, Writes
  <1>2. fbs' = Append(Front(fbs), c) /\ nest' = Append(nest, l) /\ sources' = Append(sources, NoName)
    BY DEF OpenSelect, Builder, SourceScope
  <1>3. l.kind = "select" /\ DOMAIN l = StatementFields
    BY LocalFacts DEF StatementFields
  <1> HIDE DEF l
  <1>4. BuilderOK(b)
    BY <1>1, CurrentBuilder DEF fb
  <1>5. Stacked1(b, regs)
    BY <1>4, SameItself, StackedRegister
  <1>6. DOMAIN regs = BuilderFields
    BY <1>5 DEF Stacked1, BuilderOK
  <1>7. SameVariables(regs, newLabel(regs))
    BY <1>6, SameOps
  <1>8. SameVariables(regs, c)
    <2> HIDE DEF regs
    <2>1. SameVariables(regs, Emit(newLabel(regs), "case"))
      BY <1>6, <1>7, SameThen
    <2>2. SameVariables(regs, case1)
      BY <1>6, <2>1, SameThen
    <2> HIDE DEF case1
    <2>3. SameVariables(regs, newLabel(case1))
      BY <1>6, <2>2, SameThen
    <2>4. SameVariables(regs, Emit(newLabel(case1), "case"))
      BY <1>6, <2>3, SameThen
    <2>5. SameVariables(regs, emitGoto(Emit(newLabel(case1), "case"), lastLabel(case1) + 1))
      BY <1>6, <2>4, SameThen
    <2>6. SameVariables(regs, case2)
      BY <2>2, <2>5
    <2> HIDE DEF case2
    <2>7. SameVariables(regs, Emit(case2, "select"))
      BY <1>6, <2>6, SameThen
    <2>8. SameVariables(regs, select)
      BY <1>6, <2>7, SameThen
    <2> HIDE DEF select
    <2> QED
      BY <1>6, <2>8, SameThen
  <1> HIDE DEF c
  <1>9. Stacked1(b, c)
    BY <1>4, <1>8, StackedRegister
  <1>10. Matches(Append(Front(fbs), c), Append(nest, l), Append(sources, NoName))
    BY <1>1, <1>3, <1>9, OpenedOne DEF fb
  <1>11. NestOK(Append(nest, l))
    BY <1>3, NestAppend DEF VariablesInv, Kinds
  <1> QED
    BY <1>2, <1>10, <1>11 DEF VariablesInv

LEMMA OpenIfKeeps == ASSUME VariablesInv, NEW name, OpenIf(name) PROVE VariablesInv'
  <1> DEFINE b    == fb
             decl == emitDeclaration(enterScope(fb), name)
             init == Emit(decl, "if")
             then == emitGoto(newLabel(init), lastLabel(init) + 1)
             x    == [n \in {name} |-> scopeLookup(then.scopes, name)]
             l    == [Local("if", name) EXCEPT !.post = lastLabel(then)]
  <1>1. Matches(fbs, nest, sources)
    BY DEF VariablesInv, OpenIf, Opens, Writes
  <1>2. fbs' = Append(Front(fbs), enterScope(then)) /\ nest' = Append(nest, l) /\ sources' = sources \o <<x, NoName>>
    BY DEF OpenIf, Builder
  <1>3. l.kind = "if" /\ DOMAIN l = StatementFields
    BY LocalFacts DEF StatementFields
  <1> HIDE DEF l
  <1>4. BuilderOK(b) /\ IsList(sources)
    BY <1>1, CurrentBuilder DEF fb
  <1>5. Entered(b, decl, {name}) /\ scopeLookup(decl.scopes, name) = b.numRegs + 1
    BY <1>4, EnterDeclaring
  <1>6. DOMAIN decl = BuilderFields
    BY <1>5 DEF Entered, BuilderOK
  <1> HIDE DEF b, decl
  <1>7. SameVariables(decl, init)
    BY <1>6, SameOps
  <1>8. SameVariables(decl, then)
    <2> HIDE DEF init
    <2>1. SameVariables(decl, newLabel(init))
      BY <1>6, <1>7, SameThen
    <2> QED
      BY <1>6, <2>1, SameThen
  <1> HIDE DEF then
  <1>9. Entered(b, then, {name})
    BY <1>5, <1>8, EnteredSame
  <1>10. Entered(then, enterScope(then), {})
    BY <1>9, EnterScope DEF Entered
  <1>11. NamesOf(x, {name}, b.numRegs + 1)
    <2>1. scopeLookup(then.scopes, name) = b.numRegs + 1
      BY <1>5, <1>8 DEF SameVariables
    <2> QED
      BY <2>1 DEF NamesOf
  <1> HIDE DEF x
  <1>12. TwoMore(sources, x, sources \o <<x, NoName>>)
    BY <1>4, TwoAppended
  <1>13. Matches(Append(Front(fbs), enterScope(then)), Append(nest, l), sources \o <<x, NoName>>)
    BY <1>1, <1>3, <1>9, <1>10, <1>11, <1>12, OpenedTwo DEF b, fb
  <1>14. NestOK(Append(nest, l))
    BY <1>3, NestAppend DEF VariablesInv, Kinds
  <1> QED
    BY <1>2, <1>13, <1>14 DEF VariablesInv

LEMMA OpenBlockKeeps == ASSUME VariablesInv, OpenBlock PROVE VariablesInv'
  <1> DEFINE l == Local("block", "")
             c == enterScope(fb)
  <1>1. Matches(fbs, nest, sources)
    BY DEF VariablesInv, OpenBlock, Opens, Writes
  <1>2. fbs' = Append(Front(fbs), c) /\ nest' = Append(nest, l) /\ sources' = Append(sources, NoName)
    BY DEF OpenBlock, Builder, SourceScope
  <1>3. l.kind = "block" /\ DOMAIN l = StatementFields
    BY LocalFacts
  <1>4. Entered(fb, c, {})
    BY <1>1, CurrentBuilder, EnterScope DEF fb
  <1> HIDE DEF l, c
  <1>5. Matches(Append(Front(fbs), c), Append(nest, l), Append(sources, NoName))
    BY <1>1, <1>3, <1>4, OpenedOne DEF fb
  <1>6. NestOK(Append(nest, l))
    BY <1>3, NestAppend DEF VariablesInv, Kinds
  <1> QED
    BY <1>2, <1>5, <1>6 DEF VariablesInv

LEMMA OpenFuncKeeps == ASSUME VariablesInv, OpenFunc PROVE VariablesInv'
  <1> DEFINE l == Local("func", "")
             bt == Append(fbs, enterScope(newBuilder(Len(sources))))
  <1>1. Matches(fbs, nest, sources)
    BY DEF VariablesInv, OpenFunc, Opens, Writes
  <1>2. fbs' = bt /\ nest' = Append(nest, l) /\ sources' = Append(sources, NoName)
    BY DEF OpenFunc, SourceScope
  <1>3. l.kind = "func" /\ DOMAIN l = StatementFields
    BY LocalFacts
  <1> HIDE DEF l
  <1>4. Matches(bt, Append(nest, l), Append(sources, NoName))
    BY <1>1, <1>3, FuncMatched
  <1>5. NestOK(Append(nest, l))
    BY <1>3, NestAppend DEF VariablesInv, Kinds
  <1> HIDE DEF bt
  <1> QED
    BY <1>2, <1>4, <1>5 DEF VariablesInv

\* A statement is closed: its builder has left its scopes, and so has the source.
LEMMA ClosedKeeps ==
    ASSUME VariablesInv, fbs # <<>>, nest # <<>>, NEW kind \in Kinds \ {"func"}, Last(nest).kind = kind, NEW c,
           Exited(fb, c, Len(fb.scopes) - ScopesOf(kind), Len(fb.shifts) - StacksOf(kind)),
           fbs' = Append(Front(fbs), c), NestOK(nest'), SameKinds(nest', nest, Len(nest) - 1),
           sources' = IF SourcesOf(kind) = 1 THEN Front(sources) ELSE Front(Front(sources))
    PROVE  VariablesInv'
  <1>1. Matches(fbs, nest, sources)
    BY DEF VariablesInv
  <1>2. Deep(fb, sources, kind) /\ IsList(sources)
    BY <1>1, MatchesDeep, CurrentBuilder DEF fb
  <1>3. Prefix(sources', sources, Len(sources) - SourcesOf(kind))
    <2> DEFINE L == Len(sources)
    <2>1. L \in Nat /\ L > SourcesOf(kind)
      BY <1>2 DEF Deep
    <2>2. CASE SourcesOf(kind) = 1
      BY <1>2, <2>1, <2>2, FrontPrefix
    <2>3. CASE SourcesOf(kind) = 2
      BY <1>2, <2>1, <2>3, FrontTwice
    <2> QED
      BY <2>2, <2>3 DEF SourcesOf
  <1>4. Matches(Append(Front(fbs), c), nest', sources')
    BY <1>1, <1>3, Closed DEF fb
  <1> QED
    BY <1>4 DEF VariablesInv

LEMMA CloseForKeeps == ASSUME VariablesInv, NEW kind, CloseFor(kind) PROVE VariablesInv'
  <1> DEFINE l    == Last(nest)
             post == IF kind = "for" THEN setLabelAddr(fb, l.post) ELSE fb
             next == emitGoto(IF kind = "for {}" THEN post ELSE Emit(post, "post"), l.head)
             u    == setLabelAddr(next, l.end)
             end  == PlacesBreak(exitScope(u))
             c    == Marks(end, l.id, IF kind = "for {}" THEN fb.labelAddrs[l.head] ELSE currentAddr(fb), currentAddr(next))
  <1>1. fbs # <<>> /\ nest # <<>> /\ l.kind = kind /\ kind \in Fors
    BY DEF CloseFor, Closes
  <1>2. fbs' = Append(Front(fbs), c) /\ nest' = Outer(kind) /\ sources' = Front(Front(sources))
    BY DEF CloseFor, Builder
  <1>3. kind \in Kinds \ {"func"} /\ SourcesOf(kind) = 2 /\ ScopesOf(kind) = 1 /\ StacksOf(kind) = 1
    BY <1>1 DEF Kinds, Fors, SourcesOf, ScopesOf, StacksOf
  <1>4. Deep(fb, sources, kind)
    BY <1>1, <1>3, MatchesDeep DEF VariablesInv, fb
  <1>5. DOMAIN fb = BuilderFields /\ BuilderOK(fb) /\ fb.scopes # <<>> /\ fb.shifts # <<>>
    BY <1>4 DEF Deep
  <1>6. SameVariables(fb, u)
    <2>0. SameVariables(fb, fb)
      BY SameItself
    <2>1. SameVariables(fb, post)
      BY <1>5, <2>0, SameThen
    <2> HIDE DEF post
    <2>2. SameVariables(fb, Emit(post, "post"))
      BY <1>5, <2>1, SameThen
    <2>3. SameVariables(fb, IF kind = "for {}" THEN post ELSE Emit(post, "post"))
      BY <2>1, <2>2
    <2>4. SameVariables(fb, next)
      BY <1>5, <2>3, SameThen
    <2> HIDE DEF next
    <2> QED
      BY <1>5, <2>4, SameThen
  <1> HIDE DEF u
  <1>7. Exited(fb, exitScope(u), Len(fb.scopes) - 1, Len(fb.shifts) - 1)
    BY <1>5, <1>6, ExitsOnce
  <1>8. DOMAIN exitScope(u) = BuilderFields
    BY <1>7 DEF Exited, BuilderOK
  <1>9. SameVariables(exitScope(u), end)
    BY <1>8, SameItself, PlacesSame
  <1> HIDE DEF end
  <1>10. SameVariables(exitScope(u), c)
    BY <1>8, <1>9, SameThen
  <1> HIDE DEF c
  <1>11. Exited(fb, c, Len(fb.scopes) - 1, Len(fb.shifts) - 1)
    BY <1>7, <1>10, ExitedSame
  <1>12. NestOK(nest') /\ SameKinds(nest', nest, Len(nest) - 1)
    <2> DEFINE n == Len(nest)
               f(i) == IF kind \in {"for ;;", "for {}"} THEN [nest[i] EXCEPT !.stale = TRUE] ELSE nest[i]
               nt == [i \in 1..n-1 |-> f(i)]
    <2>1. nest' = nt
      BY <1>2 DEF Outer
    <2>2. IsList(nest) /\ n \in Nat /\ n > 0 /\ \A q \in 1..n : nest[q].kind \in Kinds /\ DOMAIN nest[q] = StatementFields
      BY <1>1, ListFacts DEF VariablesInv, NestOK
    <2>3. \A q \in 1..n : f(q).kind = nest[q].kind /\ DOMAIN f(q) = StatementFields
      BY <2>2 DEF StatementFields
    <2> HIDE DEF n, f
    <2>4. n - 1 \in Nat /\ \A q \in 1..n-1 : q \in 1..n
      BY <2>2
    <2>5. nt \in Seq({f(i) : i \in 1..n-1}) /\ Len(nt) = n - 1 /\ \A q \in 1..n-1 : nt[q] = f(q)
      BY <2>4
    <2>6. IsList(nt)
      BY <2>5 DEF IsList
    <2> HIDE DEF nt
    <2> QED
      BY <2>1, <2>2, <2>3, <2>4, <2>5, <2>6 DEF NestOK, SameKinds, n
  <1> QED
    BY <1>1, <1>2, <1>3, <1>11, <1>12, ClosedKeeps

LEMMA CloseRangeKeeps == ASSUME VariablesInv, CloseRange PROVE VariablesInv'
  <1> DEFINE l   == Last(nest)
             end == setLabelAddr(emitRangeJump(fb, "continue", l.head), l.end)
             d   == exitScope(end)
             c   == Marks(exitScope(d), l.id, fb.labelAddrs[l.head], fb.labelAddrs[l.head])
             kind == "range"
  <1>1. fbs # <<>> /\ nest # <<>> /\ l.kind = kind
    BY DEF CloseRange, Closes
  <1>2. fbs' = Append(Front(fbs), c) /\ nest' = Front(nest) /\ sources' = Front(Front(sources))
    BY DEF CloseRange, Builder
  <1>3. kind \in Kinds \ {"func"} /\ SourcesOf(kind) = 2 /\ ScopesOf(kind) = 2 /\ StacksOf(kind) = 2
    BY DEF Kinds, SourcesOf, ScopesOf, StacksOf
  <1>4. Deep(fb, sources, kind)
    BY <1>1, <1>3, MatchesDeep DEF VariablesInv, fb
  <1>5. /\ DOMAIN fb = BuilderFields /\ BuilderOK(fb) /\ fb.scopes # <<>> /\ fb.shifts # <<>>
        /\ Len(fb.scopes) >= 2 /\ Len(fb.shifts) >= 2
    BY <1>3, <1>4 DEF Deep
  <1>6. SameVariables(fb, end)
    <2>1. SameVariables(fb, emitRangeJump(fb, "continue", l.head))
      BY <1>5, SameOps
    <2> QED
      BY <1>5, <2>1, SameThen
  <1> HIDE DEF end
  <1>7. Exited(fb, d, Len(fb.scopes) - 1, Len(fb.shifts) - 1)
    BY <1>5, <1>6, ExitsOnce
  <1> HIDE DEF d
  <1>8. Exited(fb, exitScope(d), Len(fb.scopes) - 2, Len(fb.shifts) - 2)
    BY <1>5, <1>7, SameItself, ExitsTwice
  <1>9. DOMAIN exitScope(d) = BuilderFields
    BY <1>8 DEF Exited, BuilderOK
  <1>10. SameVariables(exitScope(d), c)
    BY <1>9, SameOps
  <1> HIDE DEF c
  <1>11. Exited(fb, c, Len(fb.scopes) - 2, Len(fb.shifts) - 2)
    BY <1>8, <1>10, ExitedSame
  <1>12. NestOK(nest') /\ SameKinds(nest', nest, Len(nest) - 1)
    BY <1>1, <1>2, NestFront DEF VariablesInv
  <1> QED
    BY <1>1, <1>2, <1>3, <1>11, <1>12, ClosedKeeps

LEMMA CloseSwitchKeeps == ASSUME VariablesInv, CloseSwitch PROVE VariablesInv'
  <1> DEFINE l   == Last(nest)
             d   == exitScope(fb)
             end == setLabelAddr(emitGoto(d, l.end), l.end)
             e   == exitScope(end)
             c   == Marks(PlacesBreak(e), l.id, 0, currentAddr(end))
             kind == "switch"
  <1>1. fbs # <<>> /\ nest # <<>> /\ l.kind = kind
    BY DEF CloseSwitch, Closes
  <1>2. fbs' = Append(Front(fbs), c) /\ nest' = Front(nest) /\ sources' = Front(Front(sources))
    BY DEF CloseSwitch, Builder
  <1>3. kind \in Kinds \ {"func"} /\ SourcesOf(kind) = 2 /\ ScopesOf(kind) = 2 /\ StacksOf(kind) = 2
    BY DEF Kinds, SourcesOf, ScopesOf, StacksOf
  <1>4. Deep(fb, sources, kind)
    BY <1>1, <1>3, MatchesDeep DEF VariablesInv, fb
  <1>5. /\ DOMAIN fb = BuilderFields /\ BuilderOK(fb) /\ fb.scopes # <<>> /\ fb.shifts # <<>>
        /\ Len(fb.scopes) >= 2 /\ Len(fb.shifts) >= 2
    BY <1>3, <1>4 DEF Deep
  <1>6. Exited(fb, d, Len(fb.scopes) - 1, Len(fb.shifts) - 1)
    BY <1>5, SameItself, ExitsOnce
  <1>7. DOMAIN d = BuilderFields
    BY <1>6 DEF Exited, BuilderOK
  <1> HIDE DEF d
  <1>8. SameVariables(d, end)
    <2>1. SameVariables(d, emitGoto(d, l.end))
      BY <1>7, SameOps
    <2> QED
      BY <1>7, <2>1, SameThen
  <1> HIDE DEF end
  <1>9. Exited(fb, e, Len(fb.scopes) - 2, Len(fb.shifts) - 2)
    BY <1>5, <1>6, <1>8, ExitsTwice
  <1>10. DOMAIN e = BuilderFields
    BY <1>9 DEF Exited, BuilderOK
  <1> HIDE DEF e
  <1>11. SameVariables(e, PlacesBreak(e))
    BY <1>10, SameItself, PlacesSame
  <1>12. SameVariables(e, c)
    BY <1>10, <1>11, SameThen
  <1> HIDE DEF c
  <1>13. Exited(fb, c, Len(fb.scopes) - 2, Len(fb.shifts) - 2)
    BY <1>9, <1>12, ExitedSame
  <1>14. NestOK(nest') /\ SameKinds(nest', nest, Len(nest) - 1)
    BY <1>1, <1>2, NestFront DEF VariablesInv
  <1> QED
    BY <1>1, <1>2, <1>3, <1>13, <1>14, ClosedKeeps

LEMMA CloseSelectKeeps == ASSUME VariablesInv, CloseSelect PROVE VariablesInv'
  <1> DEFINE l   == Last(nest)
             end == setLabelAddr(fb, l.end)
             d   == exitStack(end)
             c   == Marks(d, l.id, 0, currentAddr(fb))
             kind == "select"
  <1>1. fbs # <<>> /\ nest # <<>> /\ l.kind = kind
    BY DEF CloseSelect, Closes
  <1>2. fbs' = Append(Front(fbs), c) /\ nest' = Front(nest) /\ sources' = Front(sources)
    BY DEF CloseSelect, Builder
  <1>3. kind \in Kinds \ {"func"} /\ SourcesOf(kind) = 1 /\ ScopesOf(kind) = 0 /\ StacksOf(kind) = 1
    BY DEF Kinds, SourcesOf, ScopesOf, StacksOf
  <1>4. Deep(fb, sources, kind)
    BY <1>1, <1>3, MatchesDeep DEF VariablesInv, fb
  <1>5. DOMAIN fb = BuilderFields /\ BuilderOK(fb) /\ fb.shifts # <<>> /\ Len(fb.scopes) \in Nat
    BY <1>4 DEF Deep
  <1>6. SameVariables(fb, end)
    BY <1>5, SameOps
  <1> HIDE DEF end
  <1>7. BuilderOK(end) /\ end.scopes = fb.scopes /\ end.shifts = fb.shifts
    BY <1>5, <1>6, SameOK DEF SameVariables
  <1>8. Exited(end, d, Len(fb.scopes), Len(fb.shifts) - 1)
    BY <1>5, <1>7, ExitStack
  <1>9. Exited(fb, d, Len(fb.scopes), Len(fb.shifts) - 1)
    BY <1>6, <1>8, SameExited
  <1>10. DOMAIN d = BuilderFields
    BY <1>9 DEF Exited, BuilderOK
  <1> HIDE DEF d
  <1>11. SameVariables(d, c)
    BY <1>10, SameOps
  <1> HIDE DEF c
  <1>12. Exited(fb, c, Len(fb.scopes), Len(fb.shifts) - 1) /\ Len(fb.scopes) - 0 = Len(fb.scopes)
    BY <1>5, <1>9, <1>11, ExitedSame
  <1>13. NestOK(nest') /\ SameKinds(nest', nest, Len(nest) - 1)
    BY <1>1, <1>2, NestFront DEF VariablesInv
  <1> QED
    BY <1>1, <1>2, <1>3, <1>12, <1>13, ClosedKeeps

LEMMA CloseBlockKeeps == ASSUME VariablesInv, CloseBlock PROVE VariablesInv'
  <1> DEFINE c == exitScope(fb)
             kind == "block"
  <1>1. fbs # <<>> /\ nest # <<>> /\ Last(nest).kind = kind
    BY DEF CloseBlock, Closes
  <1>2. fbs' = Append(Front(fbs), c) /\ nest' = Front(nest) /\ sources' = Front(sources)
    BY DEF CloseBlock, Builder
  <1>3. kind \in Kinds \ {"func"} /\ SourcesOf(kind) = 1 /\ ScopesOf(kind) = 1 /\ StacksOf(kind) = 1
    BY DEF Kinds, SourcesOf, ScopesOf, StacksOf
  <1>4. Deep(fb, sources, kind)
    BY <1>1, <1>3, MatchesDeep DEF VariablesInv, fb
  <1>5. BuilderOK(fb) /\ fb.scopes # <<>> /\ fb.shifts # <<>>
    BY <1>4 DEF Deep
  <1>6. Exited(fb, c, Len(fb.scopes) - 1, Len(fb.shifts) - 1)
    BY <1>5, ExitScope
  <1> HIDE DEF c
  <1>7. NestOK(nest') /\ SameKinds(nest', nest, Len(nest) - 1)
    BY <1>1, <1>2, NestFront DEF VariablesInv
  <1> QED
    BY <1>1, <1>2, <1>3, <1>6, <1>7, ClosedKeeps

LEMMA CloseIfKeeps == ASSUME VariablesInv, CloseIf PROVE VariablesInv'
  <1> DEFINE l    == Last(nest)
             kind == l.kind
             then == exitScope(fb)
             u    == setLabelAddr(then, l.post)
             v    == setLabelAddr(fb, l.end)
             c    == IF kind = "if" THEN exitScope(u) ELSE exitScope(v)
  <1>1. fbs # <<>> /\ nest # <<>> /\ kind \in {"if", "else"}
    BY DEF CloseIf, Closes
  <1>2. fbs' = Append(Front(fbs), c) /\ nest' = Front(nest) /\ sources' = Front(Front(sources))
    BY DEF CloseIf, Builder
  <1>3. kind \in Kinds \ {"func"} /\ SourcesOf(kind) = 2
    BY <1>1 DEF Kinds, SourcesOf
  <1>4. Deep(fb, sources, kind)
    BY <1>1, <1>3, MatchesDeep DEF VariablesInv, fb
  <1>5. /\ DOMAIN fb = BuilderFields /\ BuilderOK(fb) /\ fb.scopes # <<>> /\ fb.shifts # <<>>
        /\ Len(fb.scopes) >= ScopesOf(kind) /\ Len(fb.shifts) >= StacksOf(kind)
    BY <1>4 DEF Deep
  <1>6. NestOK(nest') /\ SameKinds(nest', nest, Len(nest) - 1)
    BY <1>1, <1>2, NestFront DEF VariablesInv
  <1>7. CASE kind = "if"
    <2>1. ScopesOf(kind) = 2 /\ StacksOf(kind) = 2
      BY <1>7 DEF ScopesOf, StacksOf
    <2>2. Exited(fb, then, Len(fb.scopes) - 1, Len(fb.shifts) - 1)
      BY <1>5, SameItself, ExitsOnce
    <2>3. DOMAIN then = BuilderFields
      BY <2>2 DEF Exited, BuilderOK
    <2> HIDE DEF then
    <2>4. SameVariables(then, u)
      BY <2>3, SameOps
    <2> HIDE DEF u
    <2>5. Exited(fb, exitScope(u), Len(fb.scopes) - 2, Len(fb.shifts) - 2)
      BY <1>5, <2>1, <2>2, <2>4, ExitsTwice
    <2>6. c = exitScope(u)
      BY <1>7
    <2> HIDE DEF c
    <2> QED
      BY <1>1, <1>2, <1>3, <1>6, <2>1, <2>5, <2>6, ClosedKeeps
  <1>8. CASE kind = "else"
    <2>1. ScopesOf(kind) = 1 /\ StacksOf(kind) = 1
      BY <1>8 DEF ScopesOf, StacksOf
    <2>2. SameVariables(fb, v)
      BY <1>5, SameOps
    <2> HIDE DEF v
    <2>3. Exited(fb, exitScope(v), Len(fb.scopes) - 1, Len(fb.shifts) - 1)
      BY <1>5, <2>2, ExitsOnce
    <2>4. c = exitScope(v)
      BY <1>8
    <2> HIDE DEF c
    <2> QED
      BY <1>1, <1>2, <1>3, <1>6, <2>1, <2>3, <2>4, ClosedKeeps
  <1> QED
    BY <1>1, <1>7, <1>8

LEMMA ElseKeeps == ASSUME VariablesInv, Else PROVE VariablesInv'
  <1> DEFINE l    == Last(nest)
             then == exitScope(fb)
             end  == newLabel(then)
             jump == emitGoto(end, lastLabel(end))
             c    == setLabelAddr(jump, l.post)
             s    == [l EXCEPT !.kind = "else", !.end = lastLabel(end)]
  <1>1. fbs # <<>> /\ nest # <<>> /\ l.kind = "if"
    BY DEF Else, Closes
  <1>2. fbs' = Append(Front(fbs), c) /\ nest' = Append(Front(nest), s) /\ sources' = Append(Front(sources), NoName)
    BY DEF Else, Builder
  <1>3. Matches(fbs, nest, sources) /\ NestOK(nest)
    BY <1>1 DEF VariablesInv
  <1>4. DOMAIN fb = BuilderFields /\ BuilderOK(fb) /\ fb.scopes # <<>> /\ fb.shifts # <<>>
    BY <1>3, CurrentBuilder DEF fb
  <1>5. s.kind = "else" /\ DOMAIN s = StatementFields /\ s.kind \in Kinds
    <2>1. DOMAIN l = StatementFields
      BY <1>1, <1>3, NestLast
    <2> HIDE DEF l, end
    <2> QED
      BY <2>1 DEF StatementFields, Kinds
  <1> HIDE DEF s
  <1>6. NestOK(nest')
    BY <1>1, <1>2, <1>3, <1>5, NestTop
  <1>7. Exited(fb, then, Len(fb.scopes) - 1, Len(fb.shifts) - 1)
    BY <1>4, SameItself, ExitsOnce
  <1>8. DOMAIN then = BuilderFields
    BY <1>7 DEF Exited, BuilderOK
  <1> HIDE DEF then
  <1>9. SameVariables(then, end)
    BY <1>8, SameOps
  <1> HIDE DEF end
  <1>10. SameVariables(then, jump)
    BY <1>8, <1>9, SameThen
  <1> HIDE DEF jump
  <1>11. SameVariables(then, c)
    BY <1>8, <1>10, SameThen
  <1> HIDE DEF c, l
  <1>12. Matches(Append(Front(fbs), c), Append(Front(nest), s), Append(Front(sources), NoName))
    BY <1>1, <1>3, <1>5, <1>7, <1>11, Followed DEF fb, l
  <1> QED
    BY <1>2, <1>6, <1>12 DEF VariablesInv

LEMMA NextCaseKeeps == ASSUME VariablesInv, NEW kind, NextCase(kind) PROVE VariablesInv'
  <1> DEFINE l == Last(nest)
             s == [l EXCEPT !.cases = Tail(@)]
             b(jumps) == IF jumps THEN emitGoto(fb, l.end) ELSE fb
             c(jumps) == setLabelAddr(IF kind = "switch" THEN enterScope(exitScope(b(jumps))) ELSE b(jumps), Head(l.cases))
  <1>1. fbs # <<>> /\ nest # <<>> /\ l.kind = kind /\ kind \in {"switch", "select"}
    BY DEF NextCase, Closes
  <1>2. PICK jumps \in BOOLEAN : fbs' = Append(Front(fbs), c(jumps))
    BY DEF NextCase, Builder
  <1>3. nest' = Append(Front(nest), s) /\ sources' = Append(Front(sources), NoName)
    BY DEF NextCase
  <1>4. Matches(fbs, nest, sources) /\ NestOK(nest)
    BY <1>1 DEF VariablesInv
  <1>5. DOMAIN fb = BuilderFields /\ BuilderOK(fb) /\ fb.scopes # <<>> /\ fb.shifts # <<>>
    BY <1>4, CurrentBuilder DEF fb
  <1>6. s.kind = kind /\ DOMAIN s = StatementFields /\ s.kind \in Kinds
    <2>1. DOMAIN l = StatementFields
      BY <1>1, <1>4, NestLast
    <2>2. kind \in Kinds
      BY <1>1 DEF Kinds
    <2>3. l.kind = kind
      BY <1>1
    <2> HIDE DEF l
    <2> QED
      BY <2>1, <2>2, <2>3 DEF StatementFields
  <1> HIDE DEF s
  <1>7. NestOK(nest')
    BY <1>1, <1>3, <1>4, <1>6, NestTop
  <1> DEFINE u == b(jumps)
             d == c(jumps)
  <1>8. SameVariables(fb, u)
    BY <1>5, SameOps, SameItself
  <1>9. d = setLabelAddr(IF kind = "switch" THEN enterScope(exitScope(u)) ELSE u, Head(l.cases))
    OBVIOUS
  <1>10. fbs' = Append(Front(fbs), d)
    BY <1>2
  <1> HIDE DEF u, d, b, c
  <1>11. CASE kind = "switch"
    <2> DEFINE e == exitScope(u)
               f == enterScope(e)
    <2>1. Exited(fb, e, Len(fb.scopes) - 1, Len(fb.shifts) - 1)
      BY <1>5, <1>8, ExitsOnce
    <2>2. BuilderOK(e)
      BY <2>1 DEF Exited
    <2>3. d = setLabelAddr(f, Head(l.cases))
      BY <1>9, <1>11
    <2> HIDE DEF e
    <2>4. Entered(e, f, {})
      BY <2>2, EnterScope
    <2>5. DOMAIN f = BuilderFields
      BY <2>4 DEF Entered, BuilderOK
    <2> HIDE DEF f
    <2>6. SameVariables(f, d)
      BY <2>3, <2>5, SameOps
    <2>7. Entered(e, d, {})
      BY <2>4, <2>6, EnteredSame
    <2>8. Matches(Append(Front(fbs), d), Append(Front(nest), s), Append(Front(sources), NoName))
      BY <1>1, <1>4, <1>6, <1>11, <2>1, <2>7, Followed DEF fb
    <2> QED
      BY <1>3, <1>7, <1>10, <2>8 DEF VariablesInv
  <1>12. CASE kind = "select"
    <2>1. d = setLabelAddr(u, Head(l.cases))
      BY <1>9, <1>12
    <2>2. SameVariables(fb, d)
      BY <1>5, <1>8, <2>1, SameThen
    <2>3. Matches(Append(Front(fbs), d), Append(Front(nest), s), Append(Front(sources), NoName))
      BY <1>1, <1>4, <1>6, <1>12, <2>2, SelectNext DEF fb
    <2> QED
      BY <1>3, <1>7, <1>10, <2>3 DEF VariablesInv
  <1> QED
    BY <1>1, <1>11, <1>12

LEMMA CurrentKept ==
    ASSUME VariablesInv, fbs # <<>>, NEW c, SameVariables(fb, c), fbs' = Append(Front(fbs), c), UNCHANGED <<nest, sources>>
    PROVE  VariablesInv'
  <1>1. Matches(Append(Front(fbs), c), nest, sources)
    BY Kept DEF VariablesInv, fb
  <1> QED
    BY <1>1 DEF VariablesInv

LEMMA NothingChanged == VariablesInv /\ UNCHANGED <<fbs, nest, sources>> => VariablesInv'
  BY DEF VariablesInv

LEMMA SimpleKeeps == ASSUME VariablesInv, Simple PROVE VariablesInv'
  <1>1. fbs # <<>> /\ fbs' = Append(Front(fbs), Emit(fb, "simple")) /\ UNCHANGED <<nest, sources>>
    BY DEF Simple, Writes, Builder
  <1>2. DOMAIN fb = BuilderFields
    BY <1>1, CurrentBuilder DEF VariablesInv, fb
  <1>3. SameVariables(fb, Emit(fb, "simple"))
    BY <1>2, SameOps
  <1> QED
    BY <1>1, <1>3, CurrentKept

LEMMA ContinueKeeps == ASSUME VariablesInv, Continue PROVE VariablesInv'
  <1> DEFINE i   == Innermost(Loops)
             lab == Last(rangeLabels)
             u   == IF inForRange THEN emitRangeJump(fb, "continue", lab) ELSE emitGoto(fb, lab)
             c   == Jumps(u, "continue", i, WhyContinue(i))
  <1>1. fbs # <<>> /\ UNCHANGED <<nest, sources>> /\ (fbs' = Append(Front(fbs), c) \/ UNCHANGED fbs)
    BY DEF Continue, Writes, Builder
  <1>2. DOMAIN fb = BuilderFields
    BY <1>1, CurrentBuilder DEF VariablesInv, fb
  <1>3. SameVariables(fb, u)
    BY <1>2, SameOps
  <1> HIDE DEF u
  <1>4. SameVariables(fb, c)
    BY <1>2, <1>3, SameThen
  <1> HIDE DEF c
  <1> QED
    BY <1>1, <1>4, CurrentKept, NothingChanged

LEMMA BreakKeeps == ASSUME VariablesInv, Break PROVE VariablesInv'
  <1> DEFINE i   == Innermost(Breakables)
             b   == IF breakLabel = 0 THEN newLabel(fb) ELSE fb
             lab == IF breakLabel = 0 THEN lastLabel(b) ELSE breakLabel
             c   == Jumps(emitGoto(b, lab), "break", i, WhyBreak(i))
             d   == Jumps(emitRangeJump(fb, "break", Last(rangeLabels)), "break", i, WhyBreak(i))
  <1>1. /\ fbs # <<>> /\ UNCHANGED <<nest, sources>>
        /\ fbs' = Append(Front(fbs), c) \/ fbs' = Append(Front(fbs), d) \/ UNCHANGED fbs
    BY DEF Break, Writes, Builder
  <1>2. DOMAIN fb = BuilderFields
    BY <1>1, CurrentBuilder DEF VariablesInv, fb
  <1>3. SameVariables(fb, b)
    BY <1>2, SameOps, SameItself
  <1> HIDE DEF b
  <1>4. SameVariables(fb, emitGoto(b, lab)) /\ SameVariables(fb, emitRangeJump(fb, "break", Last(rangeLabels)))
    BY <1>2, <1>3, SameThen, SameOps
  <1>5. SameVariables(fb, c) /\ SameVariables(fb, d)
    BY <1>2, <1>4, SameThen
  <1> HIDE DEF c, d
  <1> QED
    BY <1>1, <1>5, CurrentKept, NothingChanged

LEMMA DeclareKeeps == ASSUME VariablesInv, NEW name, Declare(name) PROVE VariablesInv'
  <1> DEFINE inner == Last(sources)
             new == name \notin DOMAIN Last(sources)
             own == nest = <<>> \/ Last(nest).kind # "select"
             c   == [emitDeclaration(fb, name) EXCEPT !.merged = @ \/ (new /\ (name \in DOMAIN Last(fb.scopes) \/ ~own))]
             x   == DeclaredIn(Last(sources), name, scopeLookup(c.scopes, name))
  <1>1. /\ fbs # <<>> /\ UNCHANGED nest /\ fbs' = Append(Front(fbs), c)
        /\ sources' = Append(Front(sources), x)
    BY DEF Declare, Writes, Builder, DeclaredIn
  <1>2. c = [emitDeclaration(Last(fbs), name) EXCEPT !.merged =
               @ \/ (name \notin DOMAIN Last(sources)
                     /\ (name \in DOMAIN Last(Last(fbs).scopes) \/ ~(nest = <<>> \/ Last(nest).kind # "select")))]
    BY DEF fb
  <1> HIDE DEF c
  <1>3. Matches(Append(Front(fbs), c), nest, Append(Front(sources), x))
    BY <1>1, <1>2, DeclareMatched DEF VariablesInv
  <1> QED
    BY <1>1, <1>3 DEF VariablesInv

LEMMA OneFunction == ASSUME NEW bs, NEW ss, Matches(bs, <<>>, ss) PROVE Front(bs) = <<>>
  <1>1. PICK F, A, T, G : Standing(bs, <<>>, ss, F, A, T, G)
    BY DEF Matches
  <1>2. Laid(bs, <<>>, ss, F, A, T, G) /\ IsList(bs) /\ bs # <<>>
    BY <1>1 DEF Standing
  <1>3. G[1] = 1 /\ G[Len(<<>>) + 1] = Len(ss) /\ F[1] = 1 /\ F[Len(ss)] = Len(bs)
    BY <1>2 DEF Laid
  <1>4. Len(<<>>) + 1 = 1
    OBVIOUS
  <1>5. Len(bs) = 1
    BY <1>3, <1>4
  <1>6. IsList(Front(bs)) /\ Len(Front(bs)) = Len(bs) - 1
    BY <1>2, ListFront
  <1> QED
    BY <1>5, <1>6, ListFacts

LEMMA EndFuncKeeps == ASSUME VariablesInv, EndFunc PROVE VariablesInv'
  <1>1. Matches(fbs, nest, sources) /\ NestOK(nest)
    BY DEF VariablesInv, EndFunc
  <1>2. fbs' = Front(fbs) /\ sources' = Front(sources)
    BY DEF EndFunc
  <1>3. CASE Closes("func") /\ nest' = Front(nest)
    <2>1. nest # <<>> /\ Last(nest).kind = "func"
      BY <1>3 DEF Closes
    <2>2. NestOK(nest')
      BY <1>1, <1>3, <2>1, NestFront
    <2>3. Front(fbs) # <<>> => Matches(Front(fbs), Front(nest), Front(sources))
      BY <1>1, <2>1, FuncClosed
    <2> QED
      BY <1>2, <1>3, <2>2, <2>3 DEF VariablesInv
  <1>4. CASE nest = <<>> /\ UNCHANGED nest
    <2>1. Front(fbs) = <<>>
      BY <1>1, <1>4, OneFunction
    <2> QED
      BY <1>1, <1>2, <1>4, <2>1 DEF VariablesInv
  <1> QED
    BY <1>3, <1>4 DEF EndFunc

LEMMA VariablesStart == Init => VariablesInv
  <1> SUFFICES ASSUME Init PROVE VariablesInv
    OBVIOUS
  <1> DEFINE b  == enterScope(newBuilder(0))
             bs == <<b>>
             ss == <<NoName>>
             F  == [i \in Nat |-> 1]
  <1>1. fbs = bs /\ nest = <<>> /\ sources = ss
    BY DEF Init
  <1>2. F \in [Nat -> Nat] /\ \A i \in Nat : F[i] = 1
    OBVIOUS
  <1>3. /\ Len(bs) = 1 /\ bs[1] = b /\ Len(ss) = 1 /\ ss[1] = NoName /\ Len(<<>>) = 0
        /\ bs # <<>> /\ ss # <<>>
    OBVIOUS
  <1>4. IsList(bs) /\ IsList(ss) /\ IsList(<<>>)
    <2>1. bs \in Seq({b}) /\ ss \in Seq({NoName}) /\ <<>> \in Seq({})
      OBVIOUS
    <2> QED
      BY <2>1 DEF IsList
  <1> HIDE DEF F
  <1>5. DOMAIN NoName = {}
    BY DEF NoName
  <1>6. Mapped(b, ss, 0 + 1, F, F) /\ b.base = 0
    <2>1. F[0 + 1] = 1 /\ DOMAIN ss[0 + 1] = {} /\ 0 \in Nat
      BY <1>2, <1>3, <1>5
    <2> HIDE DEF ss
    <2> QED
      BY <2>1, FreshFunction
  <1>7. Mapped(b, ss, 1, F, F)
    BY <1>6
  <1> HIDE DEF b, bs, ss
  <1>8. Laid(bs, <<>>, ss, F, F, F, F)
    <2>1. F[1] = 1 /\ F[Len(<<>>) + 1] = Len(ss) /\ F[Len(ss)] = Len(bs)
      BY <1>2, <1>3
    <2>2. \A p, q \in 1..Len(<<>>)+1 : p <= q => F[p] <= F[q]
      BY <1>2, <1>3
    <2>3. \A i \in 1..Len(ss) : F[i] \in 1..Len(bs)
      BY <1>2, <1>3
    <2>4. 1..Len(<<>>) = {}
      BY <1>3
    <2>5. \A k \in 1..Len(bs) : \A i \in 1..Len(ss) : F[i] >= k <=> i > bs[k].base
      BY <1>2, <1>3, <1>6
    <2>6. \A k \in 1..Len(bs) : k = 1
      BY <1>3
    <2>7. \A k \in 1..Len(bs) : Mapped(bs[k], ss, LastScope(bs, ss, k), F, F)
      BY <1>3, <1>7, <2>6 DEF LastScope
    <2> QED
      BY <2>1, <2>2, <2>3, <2>4, <2>5, <2>7 DEF Laid
  <1>9. Standing(bs, <<>>, ss, F, F, F, F)
    BY <1>2, <1>3, <1>4, <1>8 DEF Standing
  <1>10. Matches(bs, <<>>, ss)
    BY <1>9 DEF Matches
  <1>11. NestOK(<<>>)
    BY <1>3, <1>4 DEF NestOK
  <1> QED
    BY <1>1, <1>10, <1>11 DEF VariablesInv

LEMMA VariablesStep == VariablesInv /\ [Next]_vars => VariablesInv'
  <1> SUFFICES ASSUME VariablesInv, [Next]_vars PROVE VariablesInv'
    OBVIOUS
  <1>1. ASSUME NEW name, OpenRange(name) \/ OpenIf(name) \/ Declare(name) PROVE VariablesInv'
    BY <1>1, OpenRangeKeeps, OpenIfKeeps, DeclareKeeps
  <1>2. ASSUME NEW kind, NEW name, OpenFor(kind, name) PROVE VariablesInv'
    BY <1>2, OpenForKeeps
  <1>3. ASSUME NEW kind, Exceeds(kind, 1) PROVE VariablesInv'
    BY <1>3, NothingChanged DEF Exceeds
  <1>4. ASSUME NEW cases, OpenSwitch(cases) \/ OpenSelect(cases) PROVE VariablesInv'
    BY <1>4, OpenSwitchKeeps, OpenSelectKeeps
  <1>5. CASE OpenBlock \/ OpenFunc \/ Break \/ Continue \/ Simple
    BY <1>5, OpenBlockKeeps, OpenFuncKeeps, BreakKeeps, ContinueKeeps, SimpleKeeps
  <1>6. ASSUME NEW kind, CloseFor(kind) PROVE VariablesInv'
    BY <1>6, CloseForKeeps
  <1>7. ASSUME NEW kind, LosesLabel(kind) PROVE VariablesInv'
    BY <1>7, NothingChanged DEF LosesLabel
  <1>8. ASSUME NEW kind, NextCase(kind) PROVE VariablesInv'
    BY <1>8, NextCaseKeeps
  <1>9. CASE CloseRange \/ CloseSwitch \/ CloseSelect \/ Else \/ CloseIf \/ CloseBlock \/ EndFunc
    BY <1>9, CloseRangeKeeps, CloseSwitchKeeps, CloseSelectKeeps, ElseKeeps, CloseIfKeeps, CloseBlockKeeps, EndFuncKeeps
  <1>10. CASE UNCHANGED vars
    BY <1>10, NothingChanged DEF vars
  <1> QED
    BY <1>1, <1>2, <1>3, <1>4, <1>5, <1>6, <1>7, <1>8, <1>9, <1>10 DEF Next

-----------------------------------------------------------------------------
Less == OpToRel(<, Nat)

LEMMA HasGreatest ==
    ASSUME NEW n \in Nat, NEW S, S \subseteq 1..n, S # {}
    PROVE  \E x \in S : \A y \in S : y <= x
  <1> DEFINE U == {m \in Nat : n - m \in S}
  <1>1. U \subseteq Nat /\ U # {}
    <2>1. PICK s \in S : TRUE
      OBVIOUS
    <2>2. n - s \in Nat /\ n - (n - s) = s
      BY <2>1
    <2> QED
      BY <2>1, <2>2
  <1>2. IsWellFoundedOn(Less, Nat)
    BY NatLessThanWellFounded DEF Less
  <1> HIDE DEF U
  <1>3. PICK x \in U : \A y \in U : ~(<<y, x>> \in Less)
    BY <1>1, <1>2, WFMin
  <1>4. \A y \in U : ~(y < x)
    <2>1. \A y \in Nat : <<y, x>> \in Less <=> y < x
      BY <1>1 DEF Less, OpToRel
    <2> QED
      BY <1>1, <1>3, <2>1
  <1>5. x \in Nat /\ n - x \in S
    BY DEF U
  <1>6. \A y \in S : y <= n - x
    <2> SUFFICES ASSUME NEW y \in S PROVE y <= n - x
      OBVIOUS
    <2>1. n - y \in Nat /\ n - (n - y) = y
      OBVIOUS
    <2>2. n - y \in U
      BY <2>1 DEF U
    <2> QED
      BY <1>4, <1>5, <2>1, <2>2
  <1> QED
    BY <1>5, <1>6

\* What a lookup finds is in the last scope that has the name.
LEMMA LookupFinds ==
    ASSUME NEW s, IsList(s), NEW name
    PROVE  \/ /\ scopeLookup(s, name) = 0
              /\ \A i \in 1..Len(s) : name \notin DOMAIN s[i]
           \/ \E k \in 1..Len(s) : /\ name \in DOMAIN s[k] /\ scopeLookup(s, name) = s[k][name]
                                   /\ \A i \in 1..Len(s) : name \in DOMAIN s[i] => i <= k
  <1> DEFINE declared == {i \in DOMAIN s : name \in DOMAIN s[i]}
             highest == CHOOSE i \in declared : \A j \in declared : j <= i
  <1>1. Len(s) \in Nat /\ DOMAIN s = 1..Len(s)
    BY ListFacts
  <1>2. scopeLookup(s, name) = IF declared = {} THEN 0 ELSE s[highest][name]
    BY DEF scopeLookup
  <1>3. declared \subseteq 1..Len(s) /\ \A i \in 1..Len(s) : name \in DOMAIN s[i] <=> i \in declared
    BY <1>1
  <1> HIDE DEF declared
  <1>4. CASE declared = {}
    BY <1>2, <1>3, <1>4
  <1>5. CASE declared # {}
    <2>1. \E i \in declared : \A j \in declared : j <= i
      BY <1>1, <1>3, <1>5, HasGreatest
    <2>2. highest \in declared /\ \A j \in declared : j <= highest
      BY <2>1
    <2> HIDE DEF highest
    <2> QED
      BY <1>2, <1>3, <1>5, <2>2
  <1> QED
    BY <1>4, <1>5

LEMMA VariablesOfInv == VariablesInv => VariablesKeepRegisters
  <1> DEFINE lo == fb.base
             hi == Len(sources)
             sc == fb.scopes
             sh == fb.shifts
             r  == fb.numRegs
             a  == Len(sc)
             t  == Len(sh)
  <1> SUFFICES ASSUME VariablesInv, fbs # <<>>, ~fb.merged
               PROVE  /\ \A name \in Names[focus] : scopeLookup(sc, name) = scopeLookup(Own, name)
                      /\ \A i \in DOMAIN Own : \A m \in DOMAIN Own[i] :
                           /\ Own[i][m] \in 1..r
                           /\ \A j \in DOMAIN Own : \A n \in DOMAIN Own[j] : <<i, m>> # <<j, n>> => Own[i][m] # Own[j][n]
    BY DEF VariablesKeepRegisters
  <1>1. PICK F, A, T, G : Standing(fbs, nest, sources, F, A, T, G)
    BY DEF VariablesInv, Matches
  <1>2. hi \in Nat /\ hi > 0 /\ Mapped(fb, sources, hi, A, T)
    BY <1>1, StandingTop DEF fb
  <1>3. A \in [Nat -> Nat] /\ T \in [Nat -> Nat] /\ IsList(sources)
    BY <1>1 DEF Standing
  <1>4. /\ lo \in Nat /\ lo < hi /\ a \in Nat /\ IsList(sc)
        /\ \A i \in lo+1..hi : i \in Nat /\ A[i] \in 1..a /\ T[i] \in 1..t
        /\ \A i, j \in lo+1..hi : i <= j => A[i] <= A[j] /\ T[i] <= T[j]
        /\ Held(sc, sh, r, sources, lo, hi, A, T)
        /\ FromSource(sc, sources, lo, hi, A) /\ NotShared(sources, lo, hi)
    BY <1>2, <1>3, MappedPlain
  <1> HIDE DEF lo, hi, sc, sh, r, a, t
  <1>5. IsList(Own) /\ Len(Own) = hi - lo /\ \A i \in 1..hi-lo : lo + i \in lo+1..hi /\ Own[i] = sources[lo + i]
    <2>1. PICK X : sources \in Seq(X)
      BY <1>3 DEF IsList
    <2>2. Own = SubSeq(sources, lo + 1, hi) /\ Len(sources) = hi
      BY DEF Own, lo, hi
    <2>3. \A i \in lo+1..hi : sources[i] \in X
      BY <1>4, <2>1, <2>2
    <2>4. Own \in Seq(X) /\ Len(Own) = hi - lo /\ \A i \in 1..hi-lo : Own[i] = sources[lo + i]
      BY <1>2, <1>4, <2>1, <2>2, <2>3
    <2>5. \A i \in 1..hi-lo : lo + i \in lo+1..hi
      BY <1>2, <1>4
    <2> QED
      BY <2>4, <2>5 DEF IsList
  <1>6. DOMAIN Own = 1..hi-lo /\ hi - lo \in Nat
    BY <1>2, <1>4, <1>5, ListFacts
  <1>7. \A k \in lo+1..hi : k - lo \in 1..hi-lo /\ lo + (k - lo) = k
    BY <1>2, <1>4
  <1>8. ASSUME NEW name PROVE scopeLookup(sc, name) = scopeLookup(Own, name)
    <2>1. \A k \in lo+1..hi : name \in DOMAIN sources[k] =>
            name \in DOMAIN sc[A[k]] /\ sc[A[k]][name] = sources[k][name] /\ A[k] \in 1..a
      BY <1>4 DEF Held
    <2>2. \A s \in 1..a : name \in DOMAIN sc[s] => \E k \in lo+1..hi : A[k] = s /\ name \in DOMAIN sources[k]
      BY <1>4 DEF FromSource, a
    <2>3. CASE \A i \in 1..a : name \notin DOMAIN sc[i]
      <3>1. \A k \in lo+1..hi : name \notin DOMAIN sources[k]
        BY <2>1, <2>3
      <3>2. \A i \in 1..Len(Own) : name \notin DOMAIN Own[i]
        BY <1>5, <3>1
      <3>3. scopeLookup(sc, name) = 0
        BY <1>4, <2>3, LookupFinds DEF a
      <3>4. scopeLookup(Own, name) = 0
        BY <1>5, <3>2, LookupFinds
      <3> QED
        BY <3>3, <3>4
    <2>4. CASE \E i \in 1..a : name \in DOMAIN sc[i]
      <3>1. PICK k \in 1..a : /\ name \in DOMAIN sc[k] /\ scopeLookup(sc, name) = sc[k][name]
                              /\ \A i \in 1..a : name \in DOMAIN sc[i] => i <= k
        BY <1>4, <2>4, LookupFinds DEF a
      <3>2. PICK q \in lo+1..hi : A[q] = k /\ name \in DOMAIN sources[q]
        BY <2>2, <3>1
      <3>3. name \in DOMAIN Own[q - lo] /\ q - lo \in 1..Len(Own)
        BY <1>5, <1>7, <3>2
      <3>4. PICK p \in 1..Len(Own) : /\ name \in DOMAIN Own[p] /\ scopeLookup(Own, name) = Own[p][name]
                                     /\ \A i \in 1..Len(Own) : name \in DOMAIN Own[i] => i <= p
        BY <1>5, <3>3, LookupFinds
      <3>5. lo + p \in lo+1..hi /\ Own[p] = sources[lo + p] /\ q <= lo + p
        <4>1. q - lo <= p
          BY <3>3, <3>4
        <4>2. p \in 1..hi-lo
          BY <1>5
        <4> QED
          BY <1>2, <1>4, <1>5, <4>1, <4>2
      <3>6. name \in DOMAIN sources[lo + p] /\ A[lo + p] \in 1..a /\ name \in DOMAIN sc[A[lo + p]]
            /\ sc[A[lo + p]][name] = sources[lo + p][name]
        BY <2>1, <3>4, <3>5
      <3>7. A[q] <= A[lo + p]
        BY <1>4, <3>2, <3>5
      <3>8. A[lo + p] = k
        <4>1. A[lo + p] <= k
          BY <3>1, <3>6
        <4> QED
          BY <1>4, <3>1, <3>2, <3>6, <3>7, <4>1
      <3> QED
        BY <3>1, <3>4, <3>5, <3>6, <3>8
    <2> QED
      BY <2>3, <2>4
  <1>9. ASSUME NEW i \in DOMAIN Own, NEW m \in DOMAIN Own[i]
        PROVE  /\ Own[i][m] \in 1..r
               /\ \A j \in DOMAIN Own : \A n \in DOMAIN Own[j] : <<i, m>> # <<j, n>> => Own[i][m] # Own[j][n]
    <2>1. i \in 1..hi-lo /\ lo + i \in lo+1..hi /\ Own[i] = sources[lo + i]
      BY <1>5, <1>6
    <2>2. Own[i][m] \in 1..r
      BY <1>4, <2>1 DEF Held
    <2>3. ASSUME NEW j \in DOMAIN Own, NEW n \in DOMAIN Own[j], Own[i][m] = Own[j][n] PROVE i = j /\ m = n
      <3>1. j \in 1..hi-lo /\ lo + j \in lo+1..hi /\ Own[j] = sources[lo + j]
        BY <1>5, <1>6
      <3>2. lo + i = lo + j /\ m = n
        BY <1>4, <2>1, <2>3, <3>1 DEF NotShared
      <3> QED
        BY <1>2, <1>4, <2>1, <3>1, <3>2
    <2> QED
      BY <2>2, <2>3
  <1> QED
    BY <1>8, <1>9 DEF sc, r

\* For any statements, names, nesting and number of registers, but in a function in which a declaration took a name
\* of the scope around: a name is the register of its variable, and the variables that are alive have registers of
\* their own (emitNodes enters and leaves scopes and stacks in pairs, and a register that is given back when a
\* stack is left is of no variable of the scopes that are still open).
THEOREM VariablesAlwaysKeepRegisters == Spec => []VariablesKeepRegisters
  <1>1. Spec => []VariablesInv
    BY VariablesStart, VariablesStep, PTL DEF Spec
  <1> QED
    BY <1>1, VariablesOfInv, PTL
=============================================================================
