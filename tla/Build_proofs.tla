---------------------------- MODULE Build_proofs -----------------------------
(***************************************************************************)
(* Proofs about a build: Packages, for any packages and import             *)
(* declarations, and Expansion, for any files, formats and nodes of a      *)
(* file, each with a stack of what is being parsed, in which it looks for  *)
(* cycles, and a set of what has been; and Initialization, for any         *)
(* packages, imports and init functions.                                   *)
(***************************************************************************)
EXTENDS Packages, Expansion, Initialization, FiniteSetTheorems, SequenceTheorems, WellFoundedInduction, TLAPS

-----------------------------------------------------------------------------
(***************************************************************************)
(* Packages. The inductive invariant: some of the declarations in the      *)
(* stack are open: their package has been parsed, and what lies above is   *)
(* what it imports, or what that imports. Nothing in the stack tells them  *)
(* from the declarations that wait, of which some are of packages that     *)
(* have been parsed in the meantime. No declaration above an open one is   *)
(* of its package, and the packages that have been parsed and are not open *)
(* are complete: they import one another, without cycles.                  *)
(***************************************************************************)
Declared == [in : All \cup {"none"}, at : Nat, path : All]

ImportsTypeOK ==
  /\ imports \in Seq(Declared)
  /\ trees \subseteq All
  /\ \A p \in All : source[p] \in Seq(Dirs)

Path(j) == imports[j].path
Complete(open) == trees \ {Path(j) : j \in open}
Above(j) == {Path(k) : k \in {m \in DOMAIN imports : m > j}}

DepthFirst(open) ==
  /\ \A j \in open : Path(j) \in trees /\ Path(j) \notin Above(j)
  /\ \A j \in open : ToSet(source[Path(j)]) \subseteq Complete(open) \cup Above(j)
  /\ \A p \in Complete(open) : ToSet(source[p]) \subseteq Complete(open)
  /\ \A S \in SUBSET Complete(open) : ~Circular(S)

Orderly == \E open \in SUBSET DOMAIN imports : DepthFirst(open)

Tracked ==
  \A p \in trees : \A i \in DOMAIN source[p] :
    Declaration(p, i) \in bound \/ \E k \in DOMAIN imports : imports[k] = Declaration(p, i)

PackagesInv ==
  /\ ImportsTypeOK
  /\ loaded \in {"not yet", "tree"} =>
       /\ "main" \in trees \/ imports = <<main>>
       /\ Orderly
       /\ Tracked
  /\ loaded = "tree" => imports = <<>>

-----------------------------------------------------------------------------
(***************************************************************************)
(* The stack, and the packages that are complete.                          *)
(***************************************************************************)
LEMMA TopOfImports ==
    ASSUME imports \in Seq(Declared), imports # <<>>
    PROVE  /\ Len(imports) \in Nat \ {0} /\ DOMAIN imports = 1..Len(imports)
           /\ last = imports[Len(imports)] /\ last \in Declared /\ last.path \in All
           /\ last.path = Path(Len(imports))
  <1>1. Len(imports) \in Nat \ {0} /\ DOMAIN imports = 1..Len(imports)
    BY EmptySeq, LenProperties
  <1>2. imports[Len(imports)] \in Declared
    BY <1>1, ElementOfSeq
  <1>3. last = imports[Len(imports)]
    BY DEF last, Last
  <1>4. last.path \in All
    BY <1>2, <1>3 DEF Declared
  <1> QED
    BY <1>1, <1>2, <1>3, <1>4 DEF Path

LEMMA PoppedImports ==
    ASSUME imports \in Seq(Declared), NEW n \in Nat, n + 1 = Len(imports), imports' = Front(imports)
    PROVE  /\ imports' \in Seq(Declared) /\ DOMAIN imports' = 1..n /\ Len(imports') = n
           /\ \A k \in 1..n : imports'[k] = imports[k] /\ Path(k)' = Path(k)
  <1>1. Len(imports) - 1 = n /\ DOMAIN imports = 1..(n + 1)
    BY LenProperties
  <1>2. \A k \in 1..n : imports[k] \in Declared
    BY ElementOfSeq
  <1>3. /\ imports' \in Seq(Declared) /\ Len(imports') = n
        /\ \A k \in 1..n : imports'[k] = imports[k]
    BY <1>1, <1>2, SubSeqProperties DEF Front
  <1> QED
    BY <1>3, LenProperties DEF Path

Indexes(S) == IsFiniteSet(S) /\ S \subseteq Int

\* Every index is pushed, once.
LEMMA EveryIndexIsPushed ==
    ASSUME NEW S, Indexes(S), NEW s \in Backwards(S)
    PROVE  /\ Cardinality(S) \in Nat /\ DOMAIN s = 1..Cardinality(S)
           /\ \A k \in DOMAIN s : s[k] \in S
           /\ \A i \in S : \E k \in DOMAIN s : s[k] = i
  <1>1. /\ s \in [1..Cardinality(S) -> S]
        /\ \A j, k \in 1..Cardinality(S) : j < k => s[j] > s[k]
    BY DEF Backwards
  <1>2. Cardinality(S) \in Nat
    BY FS_CardinalityType DEF Indexes
  <1>3. s \in Injection(1..Cardinality(S), S)
    <2>1. ASSUME NEW j \in 1..Cardinality(S), NEW k \in 1..Cardinality(S), s[j] = s[k]
          PROVE  j = k
      <3>1. s[j] \in Int /\ s[k] \in Int
        BY <1>1 DEF Indexes
      <3>2. ~(s[j] > s[k]) /\ ~(s[k] > s[j])
        BY <2>1, <3>1
      <3>3. ~(j < k) /\ ~(k < j)
        BY <1>1, <3>2
      <3> QED
        BY <1>2, <3>3
    <2> QED
      BY <1>1, <2>1 DEF Injection, IsInjective
  <1>4. Cardinality(1..Cardinality(S)) = Cardinality(S)
    BY <1>2, FS_Interval
  <1>5. s \in Surjection(1..Cardinality(S), S)
    BY <1>3, <1>4, FS_Injection DEF Indexes
  <1> QED
    BY <1>1, <1>2, <1>5 DEF Surjection

LEMMA NoCycleWithOneMore ==
    ASSUME NEW C, \A S \in SUBSET C : ~Circular(S), \A q \in C : ToSet(source[q]) \subseteq C,
           NEW p, ToSet(source[p]) \subseteq C
    PROVE  \A S \in SUBSET (C \cup {p}) : ~Circular(S)
  <1> SUFFICES ASSUME NEW S \in SUBSET (C \cup {p}), Circular(S)
               PROVE  FALSE
    OBVIOUS
  <1>1. CASE S \subseteq C
    BY <1>1
  <1>2. CASE p \in S /\ p \notin C
    <2> DEFINE T == S \ {p}
    <2>1. \A r \in S : \E q \in S : q \in ToSet(source[r])
      BY DEF Circular
    <2>2. \A r \in T : \E q \in T : q \in ToSet(source[r])
      BY <1>2, <2>1
    <2>3. PICK q \in S : q \in ToSet(source[p])
      BY <1>2, <2>1
    <2>4. q \in T
      BY <1>2, <2>3
    <2>5. Circular(T) /\ T \in SUBSET C
      BY <2>2, <2>4 DEF Circular
    <2> QED
      BY <2>5
  <1> QED
    BY <1>1, <1>2

-----------------------------------------------------------------------------
(***************************************************************************)
(* The steps.  When the declaration on top goes, its package is complete,  *)
(* whether it was open or waited.                                          *)
(***************************************************************************)
LEMMA PopKeepsDepthFirst ==
    ASSUME ImportsTypeOK, NEW n \in Nat, n + 1 = Len(imports), imports' = Front(imports),
           NEW open \in SUBSET DOMAIN imports, DepthFirst(open), source' = source,
           trees \subseteq trees', ToSet(source[Path(n + 1)]) \subseteq Complete(open),
           trees' \ {Path(j) : j \in open \ {n + 1}} = Complete(open) \cup {Path(n + 1)}
    PROVE  Orderly'
  <1> PICK p : p = Path(n + 1)
    OBVIOUS
  <1> PICK C : C = Complete(open)
    OBVIOUS
  <1> PICK o : o = open \ {n + 1}
    OBVIOUS
  <1>1. /\ DOMAIN imports = 1..(n + 1) /\ DOMAIN imports' = 1..n
        /\ \A k \in 1..n : Path(k)' = Path(k)
    BY PoppedImports, LenProperties DEF ImportsTypeOK
  <1>2. o \subseteq 1..n /\ o \subseteq open
    BY <1>1
  <1>3. Complete(o)' = C \cup {p}
    <2>1. {Path(j)' : j \in o} = {Path(j) : j \in o}
      BY <1>1, <1>2
    <2> QED
      BY <2>1 DEF Complete
  <1>4. \A j \in 1..n : Above(j)' \subseteq Above(j) /\ Above(j) \subseteq Above(j)' \cup {p}
    <2> TAKE j \in 1..n
    <2>1. \A k \in 1..(n + 1) : k \in 1..n \/ k = n + 1
      OBVIOUS
    <2>2. \A k \in 1..n : k \in 1..(n + 1)
      OBVIOUS
    <2> QED
      BY <1>1, <2>1, <2>2 DEF Above
  <1>5. \A j \in o : Path(j)' \in trees' /\ Path(j)' \notin Above(j)'
    BY <1>1, <1>2, <1>4 DEF DepthFirst
  <1>6. \A j \in o : ToSet(source[Path(j)])' \subseteq Complete(o)' \cup Above(j)'
    <2> TAKE j \in o
    <2>1. ToSet(source[Path(j)]) \subseteq C \cup Above(j)
      BY <1>2 DEF DepthFirst
    <2>2. ToSet(source[Path(j)])' = ToSet(source[Path(j)])
      BY <1>1, <1>2 DEF ToSet
    <2> QED
      BY <1>2, <1>3, <1>4, <2>1, <2>2
  <1>7. \A q : ToSet(source[q])' = ToSet(source[q])
    BY DEF ToSet
  <1>8. /\ \A q \in C : ToSet(source[q]) \subseteq C
        /\ \A S \in SUBSET C : ~Circular(S)
    BY DEF DepthFirst
  <1>9. \A q \in Complete(o)' : ToSet(source[q])' \subseteq Complete(o)'
    BY <1>3, <1>7, <1>8
  <1>10. \A S \in SUBSET Complete(o)' : ~Circular(S)'
    <2>1. \A S \in SUBSET (C \cup {p}) : ~Circular(S)
      BY <1>8, NoCycleWithOneMore
    <2>2. \A S : Circular(S)' <=> Circular(S)
      BY <1>7 DEF Circular
    <2> QED
      BY <1>3, <2>1, <2>2
  <1>11. DepthFirst(o)'
    BY <1>5, <1>6, <1>9, <1>10 DEF DepthFirst
  <1> QED
    BY <1>1, <1>2, <1>11 DEF Orderly

\* A package that has been parsed without a cycle: what it imports is complete, or is pushed.
LEMMA ImportedWithoutCycle ==
    ASSUME ImportsTypeOK, NEW open \in SUBSET DOMAIN imports, imports # <<>>,
           NEW p, p = last.path, Cycles(p, trees \cup {p}) = {},
           NEW i \in DOMAIN source[p], source[p][i] \in trees \cup {p}
    PROVE  source[p][i] \in Complete(open)
  <1>1. \A j \in DOMAIN imports : Path(j) # source[p][i]
    BY DEF Cycles, Path
  <1>2. Len(imports) \in DOMAIN imports /\ Path(Len(imports)) = p
    BY TopOfImports DEF ImportsTypeOK
  <1>3. source[p][i] # p
    BY <1>1, <1>2
  <1> QED
    BY <1>1, <1>3 DEF Complete

\* m declarations are pushed above the one of package p, that has been parsed.
Pushed(n, m, p, open) ==
  /\ imports' \in Seq(Declared) /\ Len(imports') = n + m
  /\ \A k \in 1..n : imports'[k] = imports[k]
  /\ \A k \in (n + 1)..(n + m) : imports'[k].path \notin trees \cup {p}
  /\ \A q \in ToSet(source[p]) :
        q \in Complete(open) \/ \E k \in (n + 1)..(n + m) : imports'[k].path = q

LEMMA PushKeepsDepthFirst ==
    ASSUME ImportsTypeOK, NEW n \in Nat \ {0}, n = Len(imports), NEW p \in All, p = Path(n),
           NEW open \in SUBSET DOMAIN imports, DepthFirst(open), p \notin trees,
           source' = source, trees' = trees \cup {p},
           NEW m \in Nat, Pushed(n, m, p, open)
    PROVE  Orderly'
  <1> PICK o : o = open \cup {n}
    OBVIOUS
  <1> PICK C : C = Complete(open)
    OBVIOUS
  <1>0. /\ imports' \in Seq(Declared) /\ Len(imports') = n + m
        /\ \A k \in 1..n : imports'[k] = imports[k]
        /\ \A k \in (n + 1)..(n + m) : imports'[k].path \notin trees \cup {p}
        /\ \A q \in ToSet(source[p]) :
              q \in C \/ \E k \in (n + 1)..(n + m) : imports'[k].path = q
    BY DEF Pushed
  <1>1. /\ DOMAIN imports = 1..n /\ DOMAIN imports' = 1..(n + m) /\ n \in 1..n
        /\ \A k \in 1..n : k \in 1..(n + m) /\ Path(k)' = Path(k)
        /\ \A k \in (n + 1)..(n + m) : k \in 1..(n + m) /\ k \notin 1..n
    BY <1>0, LenProperties DEF ImportsTypeOK, Path
  <1>2. o \subseteq 1..n /\ open \subseteq 1..n
    BY <1>1
  <1>3. \A j \in open : Path(j) \in trees /\ Path(j) \notin Above(j)
    BY DEF DepthFirst
  <1>4. Complete(o)' = C
    <2>1. {Path(j)' : j \in o} = {Path(j) : j \in open} \cup {p}
      BY <1>1, <1>2
    <2>2. Complete(o)' = trees' \ {Path(j)' : j \in o}
      BY DEF Complete
    <2>3. C = trees \ {Path(j) : j \in open}
      BY DEF Complete
    <2>4. \A x : x \in {Path(j)' : j \in o} <=> x = p \/ x \in {Path(j) : j \in open}
      BY <2>1
    <2>5. \A x : x \in Complete(o)' <=> x \in trees' /\ x # p /\ x \notin {Path(j) : j \in open}
      BY <2>2, <2>4
    <2>6. \A x : x \in trees' /\ x # p <=> x \in trees
      OBVIOUS
    <2>7. \A x : x \in Complete(o)' <=> x \in C
      BY <2>3, <2>5, <2>6
    <2> QED
      BY <2>7
  <1>5. \A k \in (n + 1)..(n + m) : Path(k)' \notin trees'
    BY <1>0 DEF Path
  <1>6. \A j \in 1..n : \A q \in Above(j)' : q \in Above(j) \/ q \notin trees'
    <2> SUFFICES ASSUME NEW j \in 1..n, NEW k \in 1..(n + m), k > j
                 PROVE  Path(k)' \in Above(j) \/ Path(k)' \notin trees'
      BY <1>1 DEF Above
    <2>1. k \in 1..n \/ k \in (n + 1)..(n + m)
      OBVIOUS
    <2> QED
      BY <1>1, <1>5, <2>1 DEF Above
  <1>7. Above(n) = {}
    BY <1>1 DEF Above
  <1>8. \A j \in o : Path(j)' \in trees' /\ Path(j)' \notin Above(j)'
    <2> TAKE j \in o
    <2>1. CASE j = n
      BY <1>1, <1>6, <1>7, <2>1
    <2>2. CASE j \in open
      BY <1>1, <1>2, <1>3, <1>6, <2>2
    <2> QED
      BY <2>1, <2>2
  <1>9. \A j \in 1..n : Above(j) \subseteq Above(j)'
    <2> SUFFICES ASSUME NEW j \in 1..n, NEW k \in 1..n, k > j
                 PROVE  Path(k) \in Above(j)'
      BY <1>1 DEF Above
    <2> QED
      BY <1>1 DEF Above
  <1>10. \A q : ToSet(source[q])' = ToSet(source[q])
    BY DEF ToSet
  <1>11. \A j \in o : ToSet(source[Path(j)])' \subseteq Complete(o)' \cup Above(j)'
    <2> TAKE j \in o
    <2>1. ToSet(source[Path(j)])' = ToSet(source[Path(j)])
      BY <1>1, <1>2 DEF ToSet
    <2>2. CASE j = n
      <3>1. \A k \in (n + 1)..(n + m) : imports'[k].path \in Above(n)'
        <4> TAKE k \in (n + 1)..(n + m)
        <4>1. k \in DOMAIN imports' /\ k > n
          BY <1>1
        <4> QED
          BY <4>1 DEF Above, Path
      <3> QED
        BY <1>0, <1>4, <2>1, <2>2, <3>1
    <2>3. CASE j \in open
      <3>1. ToSet(source[Path(j)]) \subseteq C \cup Above(j)
        BY <2>3 DEF DepthFirst
      <3> QED
        BY <1>2, <1>4, <1>9, <2>1, <2>3, <3>1
    <2> QED
      BY <2>2, <2>3
  <1>12. \A q \in Complete(o)' : ToSet(source[q])' \subseteq Complete(o)'
    BY <1>4, <1>10 DEF DepthFirst
  <1>13. \A S \in SUBSET Complete(o)' : ~Circular(S)'
    <2>1. \A S : Circular(S)' <=> Circular(S)
      BY <1>10 DEF Circular
    <2> QED
      BY <1>4, <2>1 DEF DepthFirst
  <1>14. DepthFirst(o)'
    BY <1>8, <1>11, <1>12, <1>13 DEF DepthFirst
  <1> QED
    BY <1>1, <1>2, <1>14 DEF Orderly

LEMMA PackagesInitInv == PkgInit => PackagesInv
  <1> SUFFICES ASSUME PkgInit
               PROVE  PackagesInv
    OBVIOUS
  <1>1. main \in Declared /\ imports = <<main>> /\ trees = {} /\ loaded = "not yet"
    BY DEF PkgInit, main, Declared, All
  <1>2. \A l \in Lists : l \in Seq(Dirs)
    <2> TAKE l \in Lists
    <2>1. PICK k \in 0..MaxImports : l \in [1..k -> Dirs]
      BY DEF Lists, SeqOf
    <2> QED
      BY <2>1, SeqDef
  <1>3. ImportsTypeOK
    <2>1. \A p \in All : source[p] \in Seq(Dirs)
      BY <1>2 DEF PkgInit
    <2>2. main \in Declared
      BY <1>1
    <2>3. <<main>> \in Seq(Declared)
      BY <2>2
    <2>4. imports \in Seq(Declared)
      BY <1>1, <2>3
    <2> QED
      BY <1>1, <2>1, <2>4 DEF ImportsTypeOK
  <1>4. DepthFirst({}) /\ Tracked
    BY <1>1 DEF DepthFirst, Tracked, Complete, Circular
  <1> QED
    BY <1>1, <1>3, <1>4 DEF PackagesInv, Orderly

LEMMA AlreadyParsedKeepsInv == PackagesInv /\ AlreadyParsed => PackagesInv'
  <1> SUFFICES ASSUME PackagesInv, AlreadyParsed
               PROVE  PackagesInv'
    OBVIOUS
  <1>1. /\ ImportsTypeOK /\ imports # <<>> /\ loaded = "not yet" /\ last.path \in trees
        /\ bound' = bound \cup {last} /\ imports' = Front(imports)
        /\ trees' = trees /\ source' = source /\ loaded' = loaded
    BY DEF PackagesInv, AlreadyParsed, Goes, Binds
  <1>0. imports \in Seq(Declared)
    BY <1>1 DEF ImportsTypeOK
  <1>2. PICK n \in Nat : n + 1 = Len(imports)
    <2>1. Len(imports) \in Nat \ {0}
      BY <1>0, <1>1, TopOfImports
    <2>2. Len(imports) - 1 \in Nat /\ (Len(imports) - 1) + 1 = Len(imports)
      BY <2>1
    <2> QED
      BY <2>2
  <1>3. /\ DOMAIN imports = 1..(n + 1) /\ last = imports[n + 1] /\ last.path = Path(n + 1)
        /\ n + 1 \in 1..(n + 1)
    <2>1. /\ DOMAIN imports = 1..Len(imports) /\ last = imports[Len(imports)]
          /\ last.path = Path(Len(imports))
      BY <1>0, <1>1, TopOfImports
    <2>2. n + 1 \in 1..(n + 1)
      OBVIOUS
    <2> QED
      BY <1>2, <2>1, <2>2
  <1>4. /\ imports' \in Seq(Declared) /\ DOMAIN imports' = 1..n
        /\ \A k \in 1..n : imports'[k] = imports[k] /\ k \in 1..(n + 1)
    <2>1. \A k \in 1..n : k \in 1..(n + 1)
      OBVIOUS
    <2> QED
      BY <1>0, <1>1, <1>2, <2>1, PoppedImports
  <1>5. ImportsTypeOK'
    BY <1>1, <1>4 DEF ImportsTypeOK
  <1>6. PICK open \in SUBSET DOMAIN imports : DepthFirst(open)
    BY <1>1 DEF PackagesInv, Orderly
  <1>7. /\ trees' \ {Path(j) : j \in open \ {n + 1}} = Complete(open) \cup {Path(n + 1)}
        /\ ToSet(source[Path(n + 1)]) \subseteq Complete(open)
    <2>1. \A j \in open \ {n + 1} : Path(j) # Path(n + 1)
      <3> TAKE j \in open \ {n + 1}
      <3>1. j \in 1..(n + 1) /\ n + 1 > j
        BY <1>3
      <3>2. Path(n + 1) \in Above(j)
        BY <1>3, <3>1 DEF Above
      <3> QED
        BY <1>6, <3>2 DEF DepthFirst
    <2>2. CASE n + 1 \in open
      <3>1. Above(n + 1) = {}
        BY <1>3 DEF Above
      <3>2. ToSet(source[Path(n + 1)]) \subseteq Complete(open)
        BY <1>6, <2>2, <3>1 DEF DepthFirst
      <3>3. {Path(j) : j \in open} = {Path(j) : j \in open \ {n + 1}} \cup {Path(n + 1)}
        BY <2>2
      <3>4. Path(n + 1) \notin {Path(j) : j \in open \ {n + 1}}
        BY <2>1
      <3> QED
        BY <1>1, <1>3, <3>2, <3>3, <3>4 DEF Complete
    <2>3. CASE n + 1 \notin open
      <3>1. open \ {n + 1} = open
        BY <2>3
      <3>2. Path(n + 1) \in Complete(open)
        BY <1>1, <1>3, <2>1, <3>1 DEF Complete
      <3> QED
        BY <1>1, <1>6, <3>1, <3>2 DEF DepthFirst, Complete
    <2> QED
      BY <2>2, <2>3
  <1>8. Orderly'
    BY <1>1, <1>2, <1>6, <1>7, PopKeepsDepthFirst
  <1>9. Tracked'
    <2> SUFFICES ASSUME NEW p \in trees, NEW i \in DOMAIN source[p]
                 PROVE  Declaration(p, i) \in bound' \/ \E k \in 1..n : imports'[k] = Declaration(p, i)
      <3>1. \A p, i : Declaration(p, i)' = Declaration(p, i)
        BY <1>1 DEF Declaration
      <3> QED
        BY <1>1, <1>4, <3>1 DEF Tracked
    <2>1. Declaration(p, i) \in bound \/ \E k \in 1..(n + 1) : imports[k] = Declaration(p, i)
      BY <1>1, <1>3 DEF PackagesInv, Tracked
    <2>2. \A k \in 1..(n + 1) : k \in 1..n \/ k = n + 1
      OBVIOUS
    <2> QED
      BY <1>1, <1>3, <1>4, <2>1, <2>2
  <1>10. "main" \in trees
    <2>1. CASE imports = <<main>>
      <3>1. last = main
        BY <2>1 DEF last, Last
      <3> QED
        BY <1>1, <3>1 DEF main
    <2> QED
      BY <1>1, <2>1 DEF PackagesInv
  <1> QED
    BY <1>1, <1>5, <1>8, <1>9, <1>10 DEF PackagesInv

LEMMA ParsePackageKeepsInv == PackagesInv /\ ParsePackage => PackagesInv'
  <1> SUFFICES ASSUME PackagesInv, ParsePackage
               PROVE  PackagesInv'
    OBVIOUS
  <1>1. /\ ImportsTypeOK /\ imports \in Seq(Declared) /\ trees \subseteq All
        /\ imports # <<>> /\ loaded = "not yet" /\ source' = source
    BY DEF PackagesInv, ImportsTypeOK, ParsePackage, Goes
  <1>2. PICK n \in Nat \ {0} : n = Len(imports)
    BY <1>1, TopOfImports
  <1>3. PICK p \in All : p = last.path
    BY <1>1, TopOfImports
  <1>4. DOMAIN imports = 1..n /\ last = imports[n] /\ p = Path(n) /\ n \in 1..n
    <2>1. /\ DOMAIN imports = 1..Len(imports) /\ last = imports[Len(imports)]
          /\ last.path = Path(Len(imports))
      BY <1>1, TopOfImports
    <2> QED
      BY <1>2, <1>3, <2>1
  <1>5. PICK new : new = {i \in DOMAIN source[p] : source[p][i] \notin trees \cup {p}}
    OBVIOUS
  <1>6. p \notin trees /\ trees' = trees \cup {p}
    BY <1>3 DEF ParsePackage
  <1>7. \/ Cycles(p, trees \cup {p}) # {} /\ loaded' = "cycle" /\ UNCHANGED <<imports, bound>>
        \/ /\ Cycles(p, trees \cup {p}) = {} /\ loaded' = loaded
           /\ bound' = bound \cup {last} \cup {Declaration(p, i) : i \in (DOMAIN source[p]) \ new}
           /\ \E s \in Backwards(new) :
                 imports' = IF new = {} THEN Front(imports)
                            ELSE imports \o [k \in DOMAIN s |-> Declaration(p, s[k])]
    BY <1>3, <1>5 DEF ParsePackage, Binds
  <1>8. CASE loaded' = "cycle" /\ UNCHANGED <<imports, bound>>
    <2>1. ImportsTypeOK'
      BY <1>1, <1>6, <1>8 DEF ImportsTypeOK
    <2> QED
      BY <1>8, <2>1 DEF PackagesInv
  <1>9. ASSUME Cycles(p, trees \cup {p}) = {}, loaded' = loaded,
               bound' = bound \cup {last} \cup {Declaration(p, i) : i \in (DOMAIN source[p]) \ new},
               NEW s \in Backwards(new),
               imports' = IF new = {} THEN Front(imports)
                          ELSE imports \o [k \in DOMAIN s |-> Declaration(p, s[k])]
        PROVE  PackagesInv'
    <2>1. PICK open \in SUBSET DOMAIN imports : DepthFirst(open)
      BY <1>1 DEF PackagesInv, Orderly
    <2>2. \A i \in DOMAIN source[p] : i \notin new => source[p][i] \in Complete(open)
      BY <1>1, <1>3, <1>5, <1>9, ImportedWithoutCycle
    <2>3. \A j \in open : Path(j) \in trees
      BY <2>1 DEF DepthFirst
    <2>4. \A r, i : Declaration(r, i)' = Declaration(r, i)
      BY <1>1 DEF Declaration
    <2>5. \A i \in DOMAIN source[p] : i \notin new => Declaration(p, i) \in bound'
      BY <1>9
    <2>6. "main" \in trees'
      <3>1. CASE imports = <<main>>
        <4>1. last = main
          BY <3>1 DEF last, Last
        <4> QED
          BY <1>3, <1>6, <4>1 DEF main
      <3> QED
        BY <1>1, <1>6, <3>1 DEF PackagesInv
    <2>7. ASSUME imports' \in Seq(Declared), Orderly',
                 \A k \in 1..n : imports[k] \in bound' \/ \E j \in DOMAIN imports' :
                                                            imports'[j] = imports[k],
                 \A i \in new : \E j \in DOMAIN imports' : imports'[j] = Declaration(p, i)
          PROVE  PackagesInv'
      <3>1. ImportsTypeOK'
        BY <1>1, <1>6, <2>7 DEF ImportsTypeOK
      <3>2. \A r \in trees : \A i \in DOMAIN source[r] :
              Declaration(r, i) \in bound' \/ \E j \in DOMAIN imports' : imports'[j] = Declaration(r, i)
        <4> TAKE r \in trees
        <4> TAKE i \in DOMAIN source[r]
        <4>1. Declaration(r, i) \in bound \/ \E k \in 1..n : imports[k] = Declaration(r, i)
          BY <1>1, <1>4 DEF PackagesInv, Tracked
        <4>2. CASE Declaration(r, i) \in bound
          BY <1>9, <4>2
        <4>3. CASE \E k \in 1..n : imports[k] = Declaration(r, i)
          BY <2>7, <4>3
        <4> QED
          BY <4>1, <4>2, <4>3
      <3>3. \A i \in DOMAIN source[p] :
              Declaration(p, i) \in bound' \/ \E j \in DOMAIN imports' : imports'[j] = Declaration(p, i)
        BY <2>5, <2>7
      <3>4. Tracked'
        BY <1>1, <1>6, <2>4, <3>2, <3>3 DEF Tracked
      <3> QED
        BY <1>1, <1>9, <2>6, <2>7, <3>1, <3>4 DEF PackagesInv
    <2>8. CASE new = {}
      <3>1. imports' = Front(imports)
        BY <1>9, <2>8
      <3>2. PICK m \in Nat : m + 1 = n
        <4>1. n - 1 \in Nat /\ (n - 1) + 1 = n
          OBVIOUS
        <4> QED
          BY <4>1
      <3>3. /\ imports' \in Seq(Declared) /\ DOMAIN imports' = 1..m
            /\ \A k \in 1..m : imports'[k] = imports[k]
        BY <1>1, <1>2, <3>1, <3>2, PoppedImports
      <3>4. n \notin open /\ open \ {n} = open
        BY <1>4, <1>6, <2>3
      <3>5. ToSet(source[p]) \subseteq Complete(open)
        BY <2>2, <2>8 DEF ToSet
      <3>6. trees' \ {Path(j) : j \in open \ {n}} = Complete(open) \cup {p}
        <4>1. p \notin {Path(j) : j \in open}
          BY <1>6, <2>3
        <4> QED
          BY <1>6, <3>4, <4>1 DEF Complete
      <3>7. Orderly'
        <4>1. trees \subseteq trees'
          BY <1>6
        <4> QED
          BY <1>1, <1>2, <1>4, <2>1, <3>1, <3>2, <3>5, <3>6, <4>1, PopKeepsDepthFirst
      <3>8. \A k \in 1..n : imports[k] \in bound' \/ \E j \in DOMAIN imports' : imports'[j] = imports[k]
        <4> TAKE k \in 1..n
        <4>1. k \in 1..m \/ k = n
          BY <3>2
        <4>2. imports[n] \in bound'
          BY <1>4, <1>9
        <4> QED
          BY <3>3, <4>1, <4>2
      <3> QED
        BY <2>7, <2>8, <3>3, <3>7, <3>8
    <2>9. CASE new # {}
      <3>1. imports' = imports \o [k \in DOMAIN s |-> Declaration(p, s[k])]
        BY <1>9, <2>9
      <3>2. source[p] \in Seq(Dirs)
        BY <1>1 DEF ImportsTypeOK
      <3>3. /\ new \subseteq 1..Len(source[p]) /\ Len(source[p]) \in Nat
            /\ \A i \in new : source[p][i] \in Dirs /\ source[p][i] \notin trees \cup {p}
        BY <1>5, <3>2, LenProperties, ElementOfSeq
      <3>4. Indexes(new) /\ IsFiniteSet(new) /\ new \subseteq Nat
        <4>1. IsFiniteSet(1..Len(source[p]))
          BY <3>3, FS_Interval
        <4>2. IsFiniteSet(new)
          BY <3>3, <4>1, FS_Subset
        <4> QED
          BY <3>3, <4>2 DEF Indexes
      <3>5. PICK m \in Nat : m = Cardinality(new)
        BY <3>4, FS_CardinalityType
      <3>6. /\ DOMAIN s = 1..m /\ \A k \in 1..m : s[k] \in new
            /\ \A i \in new : \E k \in 1..m : s[k] = i
        <4>1. /\ DOMAIN s = 1..Cardinality(new) /\ \A k \in DOMAIN s : s[k] \in new
              /\ \A i \in new : \E k \in DOMAIN s : s[k] = i
          BY <3>4, EveryIndexIsPushed
        <4> QED
          BY <3>5, <4>1
      <3>7. PICK pushed : pushed = [k \in 1..m |-> Declaration(p, s[k])]
        OBVIOUS
      <3>8. \A i \in new : Declaration(p, i) \in Declared /\ Declaration(p, i).path = source[p][i]
        BY <3>3, <3>4 DEF Declaration, Declared, All
      <3>9. pushed \in Seq(Declared) /\ Len(pushed) = m
        <4>1. \A k \in 1..m : Declaration(p, s[k]) \in Declared
          BY <3>6, <3>8
        <4>2. pushed \in [1..m -> Declared]
          BY <3>7, <4>1
        <4> QED
          BY <4>2, SeqDef, LenProperties
      <3>10. imports' = imports \o pushed
        BY <3>1, <3>6, <3>7
      <3>11. /\ imports' \in Seq(Declared) /\ Len(imports') = n + m /\ DOMAIN imports' = 1..(n + m)
             /\ \A k \in 1..(n + m) : imports'[k] = IF k <= n THEN imports[k] ELSE pushed[k - n]
        <4>1. /\ imports' \in Seq(Declared) /\ Len(imports') = Len(imports) + Len(pushed)
              /\ \A k \in 1..(Len(imports) + Len(pushed)) :
                    imports'[k] = IF k <= Len(imports) THEN imports[k] ELSE pushed[k - Len(imports)]
          BY <1>1, <3>9, <3>10, ConcatProperties
        <4> QED
          BY <1>2, <3>9, <4>1, LenProperties
      <3>12. \A k \in 1..n : k \in 1..(n + m) /\ imports'[k] = imports[k]
        BY <3>11
      <3>13. \A k \in (n + 1)..(n + m) : imports'[k].path \notin trees \cup {p}
        <4> TAKE k \in (n + 1)..(n + m)
        <4>1. k - n \in 1..m /\ k \in 1..(n + m) /\ ~(k <= n)
          OBVIOUS
        <4>2. imports'[k] = Declaration(p, s[k - n])
          BY <3>7, <3>11, <4>1
        <4>3. s[k - n] \in new
          BY <3>6, <4>1
        <4> QED
          BY <3>3, <3>8, <4>2, <4>3
      <3>14. \A i \in new : \E k \in (n + 1)..(n + m) :
                k \in DOMAIN imports' /\ imports'[k] = Declaration(p, i)
        <4> TAKE i \in new
        <4>1. PICK k \in 1..m : s[k] = i
          BY <3>6
        <4>2. n + k \in (n + 1)..(n + m) /\ n + k \in 1..(n + m) /\ (n + k) - n = k /\ ~(n + k <= n)
          OBVIOUS
        <4>3. imports'[n + k] = Declaration(p, i)
          BY <3>7, <3>11, <4>1, <4>2
        <4> QED
          BY <3>11, <4>2, <4>3
      <3>15. \A q \in ToSet(source[p]) :
                q \in Complete(open) \/ \E k \in (n + 1)..(n + m) : imports'[k].path = q
        <4> TAKE q \in ToSet(source[p])
        <4>1. PICK i \in DOMAIN source[p] : q = source[p][i]
          BY DEF ToSet
        <4>2. CASE i \in new
          BY <3>8, <3>14, <4>1, <4>2
        <4> QED
          BY <2>2, <4>1, <4>2
      <3>16. Orderly'
        <4>1. \A k \in 1..n : imports'[k] = imports[k]
          BY <3>12
        <4>2. imports' \in Seq(Declared) /\ Len(imports') = n + m
          BY <3>11
        <4>3. Pushed(n, m, p, open)
          BY <3>13, <3>15, <4>1, <4>2 DEF Pushed
        <4> QED
          BY <1>1, <1>2, <1>4, <1>6, <2>1, <4>3, PushKeepsDepthFirst
      <3>17. \A i \in new : \E j \in DOMAIN imports' : imports'[j] = Declaration(p, i)
        BY <3>14
      <3> QED
        BY <2>7, <3>11, <3>12, <3>16, <3>17
    <2> QED
      BY <2>8, <2>9
  <1> QED
    BY <1>7, <1>8, <1>9

-----------------------------------------------------------------------------
(***************************************************************************)
(* The theorem.                                                            *)
(***************************************************************************)
LEMMA PackagesNextInv == PackagesInv /\ [PkgNext]_pkgvars => PackagesInv'
  <1> SUFFICES ASSUME PackagesInv, [PkgNext]_pkgvars
               PROVE  PackagesInv'
    OBVIOUS
  <1>1. CASE AlreadyParsed \/ ParsePackage
    BY <1>1, AlreadyParsedKeepsInv, ParsePackageKeepsInv
  <1>2. CASE NotParsed
    <2>1. loaded' \notin {"not yet", "tree"}
      BY <1>2 DEF NotParsed
    <2>2. ImportsTypeOK'
      BY <1>2 DEF PackagesInv, ImportsTypeOK, NotParsed, Goes
    <2> QED
      BY <2>1, <2>2 DEF PackagesInv
  <1>3. ASSUME UNCHANGED <<source, imports, trees, bound>>, loaded \in {"not yet", "tree"} \/ loaded' = loaded,
               loaded' = "tree" => imports = <<>>
        PROVE  PackagesInv'
    <2>1. source' = source /\ imports' = imports /\ trees' = trees /\ bound' = bound
      BY <1>3
    <2>2. ImportsTypeOK' /\ (Tracked => Tracked')
      BY <2>1 DEF PackagesInv, ImportsTypeOK, Tracked, Declaration
    <2>3. \A S : Circular(S)' <=> Circular(S)
      BY <2>1 DEF Circular
    <2>4. \A open : DepthFirst(open) => DepthFirst(open)'
      <3> TAKE open
      <3>1. /\ Complete(open)' = Complete(open)
            /\ \A j : Path(j)' = Path(j) /\ Above(j)' = Above(j)
        BY <2>1 DEF Complete, Path, Above
      <3> QED
        BY <2>1, <2>3, <3>1 DEF DepthFirst
    <2>5. main' = main /\ (Orderly => Orderly')
      BY <2>1, <2>4 DEF main, Orderly
    <2> QED
      BY <1>3, <2>1, <2>2, <2>5 DEF PackagesInv
  <1>4. CASE Loaded
    BY <1>3, <1>4 DEF Loaded
  <1>5. CASE UNCHANGED pkgvars
    BY <1>3, <1>5 DEF pkgvars, PackagesInv
  <1> QED
    BY <1>1, <1>2, <1>4, <1>5 DEF PkgNext

LEMMA PackagesAlwaysInv == PkgSpec => []PackagesInv
  <1>1. PkgInit => PackagesInv
    BY PackagesInitInv
  <1>2. PackagesInv /\ [PkgNext]_pkgvars => PackagesInv'
    BY PackagesNextInv
  <1> QED
    BY <1>1, <1>2, PTL DEF PkgSpec

\* A program that is compiled has no cycle among the packages that main reaches, and a tree for each
\* of their import declarations, for any number of packages and declarations: looking for a cycle
\* only in the stack, and only for the packages that have been parsed, misses none.
THEOREM ProgramAlwaysComplete == PkgSpec => []ProgramIsComplete
  <1>1. ASSUME PackagesInv, loaded = "tree"
        PROVE  /\ \A S \in SUBSET Known : ~Circular(S)
               /\ \A p \in Known : \A i \in DOMAIN source[p] : Declaration(p, i) \in bound
    <2>1. imports = <<>> /\ DOMAIN imports = {}
      <3>1. imports = <<>> /\ imports \in Seq(Declared)
        BY <1>1 DEF PackagesInv, ImportsTypeOK
      <3>2. Len(imports) = 0 /\ DOMAIN imports = 1..Len(imports)
        BY <3>1, EmptySeq, LenProperties
      <3> QED
        BY <3>1, <3>2
    <2>2. DepthFirst({}) /\ Tracked
      BY <1>1, <2>1 DEF PackagesInv, Orderly
    <2>3. Complete({}) = trees
      BY DEF Complete
    <2>4. "main" \in trees
      <3>1. imports # <<main>>
        BY <2>1
      <3> QED
        BY <1>1, <3>1 DEF PackagesInv
    <2>5. trees \in SUBSET All /\ \A q \in trees : ToSet(source[q]) \subseteq trees
      BY <1>1, <2>2, <2>3 DEF PackagesInv, ImportsTypeOK, DepthFirst
    <2>6. Known \subseteq trees
      BY <2>4, <2>5 DEF Known
    <2>7. \A S \in SUBSET Known : ~Circular(S)
      BY <2>2, <2>3, <2>6 DEF DepthFirst
    <2>8. \A p \in Known : \A i \in DOMAIN source[p] : Declaration(p, i) \in bound
      BY <2>1, <2>2, <2>6 DEF Tracked
    <2> QED
      BY <2>7, <2>8
  <1>2. PackagesInv => ProgramIsComplete
    BY <1>1 DEF ProgramIsComplete
  <1> QED
    BY <1>2, PackagesAlwaysInv, PTL

-----------------------------------------------------------------------------
(***************************************************************************)
(* Expansion. The inductive invariant: the frames are of different files,  *)
(* none of which is parsed, so that a reference goes from a file of the    *)
(* stack to one that is complete. The frames that are extended come first  *)
(* in the stack, and while a file can still extend, one that has no node   *)
(* yet finds nothing parsed: so no file is extended twice, or after        *)
(* another use, and the format goes from the last file of the chain up to  *)
(* the first frame that is not in it.                                      *)
(***************************************************************************)
Frames == [file : Files, use : Uses \cup {"build"}, nodes : Nat]

PathsTypeOK ==
  /\ paths \in Seq(Frames)
  /\ parsed \in [DOMAIN parsed -> Uses]
  /\ canExtend \in BOOLEAN
  /\ refs \subseteq [from : Files, use : Uses, to : Files]

Stacked ==
  /\ \A i \in DOMAIN paths : /\ paths[i].file \notin DOMAIN parsed
                             /\ i = 1 => paths[i].file = Root
                             /\ i > 1 => paths[i].use \in Uses
  /\ \A i, j \in DOMAIN paths : i # j => paths[i].file # paths[j].file

UsedAsParsed ==
  \A r \in refs : /\ r.to \in DOMAIN parsed
                  /\ parsed[r.to] = "extends" <=> r.use = "extends"
                  /\ parsed[r.to] = "import" <=> r.use = "import"

Extending == {r \in refs : r.use = "extends"}
Extended(i) == paths[i].use = "extends"

ExtendedFirst ==
  /\ \A i, j \in DOMAIN paths : 1 < i /\ i < j /\ Extended(j) => Extended(i)
  /\ canExtend => /\ \A i \in DOMAIN paths : i > 1 => Extended(i)
                  /\ paths # <<>> /\ top.nodes = 0 => refs = {} /\ DOMAIN parsed = {}

Acyclic(edges) ==
  \A S \in (SUBSET Files) \ {{}} : \E f \in S : \A r \in edges : r.from = f => r.to \notin S

ExtendedOnce ==
  /\ \A r, s \in Extending : r # s => r.from # s.from /\ r.to # s.to
  /\ \A r \in Extending, i \in DOMAIN paths : i > 1 /\ Extended(i) => r.from # paths[i - 1].file

\* r does not begin a chain of its own.
Continues(r) ==
  \/ r.from = Root
  \/ \E s \in Extending : s.to = r.from
  \/ \E i \in DOMAIN paths : i > 1 /\ Extended(i) /\ paths[i].file = r.from

AllHTML == \A r \in Extending : format[r.to] = "HTML"

\* The file from which the chain of the files that have been extended begins.
IsHead(i) == (i = 1 \/ Extended(i)) /\ (i = Len(paths) \/ ~Extended(i + 1))

Chained ==
  /\ expanded \in {"not yet", "tree"} => \A r \in Extending : Continues(r)
  /\ expanded = "not yet" =>
       \A i \in DOMAIN paths : IsHead(i) /\ format[paths[i].file] = "HTML" => AllHTML
  /\ expanded = "tree" => paths = <<>> /\ (format[Root] = "HTML" => AllHTML)

ExpansionInv ==
  PathsTypeOK /\ Stacked /\ UsedAsParsed /\ ExtendedFirst /\ Acyclic(refs) /\ ExtendedOnce /\ Chained

-----------------------------------------------------------------------------
(***************************************************************************)
(* What the steps do to the frames.                                        *)
(***************************************************************************)
Same(n) == \A i \in 1..n : paths'[i].file = paths[i].file /\ paths'[i].use = paths[i].use

LEMMA TopOfFrames ==
    ASSUME paths \in Seq(Frames), paths # <<>>
    PROVE  /\ Len(paths) \in Nat \ {0} /\ DOMAIN paths = 1..Len(paths)
           /\ \A i \in 1..Len(paths) : paths[i] \in Frames
           /\ top = paths[Len(paths)] /\ top \in Frames
  <1>1. /\ Len(paths) \in Nat \ {0} /\ DOMAIN paths = 1..Len(paths)
        /\ \A i \in 1..Len(paths) : paths[i] \in Frames
    BY EmptySeq, LenProperties, ElementOfSeq
  <1>2. top = paths[Len(paths)]
    BY DEF top, Last
  <1> QED
    BY <1>1, <1>2

OneMore(frame) == [frame EXCEPT !.nodes = @ + 1]

LEMMA OneMoreNode ==
    ASSUME NEW frame \in Frames
    PROVE  /\ OneMore(frame) \in Frames /\ OneMore(frame).nodes > 0
           /\ OneMore(frame).file = frame.file /\ OneMore(frame).use = frame.use
  <1>1. PICK f \in Files, by \in Uses \cup {"build"}, n \in Nat :
            frame = [file |-> f, use |-> by, nodes |-> n]
    BY DEF Frames
  <1>2. n + 1 \in Nat /\ n + 1 > 0
    BY <1>1
  <1>3. OneMore(frame) = [file |-> f, use |-> by, nodes |-> n + 1]
    BY <1>1 DEF OneMore
  <1>4. OneMore(frame) \in Frames
    BY <1>1, <1>2, <1>3 DEF Frames
  <1> QED
    BY <1>1, <1>2, <1>3, <1>4

OneMoreAt(s, n) == [s EXCEPT ![n].nodes = @ + 1]

LEMMA OneMoreFrames ==
    ASSUME NEW s \in Seq(Frames), NEW n \in 1..Len(s), NEW t, t = OneMoreAt(s, n)
    PROVE  /\ t \in Seq(Frames) /\ Len(t) = Len(s) /\ t[n].nodes > 0
           /\ \A i \in 1..Len(s) : t[i].file = s[i].file /\ t[i].use = s[i].use
  <1> DEFINE e == OneMore(s[n])
  <1>1. s[n] \in Frames
    BY ElementOfSeq
  <1>2. e \in Frames /\ e.nodes > 0 /\ e.file = s[n].file /\ e.use = s[n].use
    BY <1>1, OneMoreNode
  <1>3. t = [s EXCEPT ![n] = e]
    BY DEF OneMore, OneMoreAt
  <1> HIDE DEF e
  <1>4. /\ t \in Seq(Frames) /\ Len(t) = Len(s)
        /\ \A i \in 1..Len(s) : t[i] = IF i = n THEN e ELSE s[i]
    BY <1>2, <1>3, ExceptSeq
  <1> QED
    BY <1>2, <1>4

LEMMA NodeDoneFrames ==
    ASSUME paths \in Seq(Frames), paths # <<>>, paths' = NodeDone
    PROVE  /\ paths' \in Seq(Frames) /\ Len(paths') = Len(paths) /\ Same(Len(paths))
           /\ paths'[Len(paths)].nodes > 0 /\ paths' # <<>>
  <1>1. Len(paths) \in Nat \ {0} /\ Len(paths) \in 1..Len(paths)
    BY TopOfFrames
  <1>2. paths' = OneMoreAt(paths, Len(paths))
    BY DEF NodeDone, OneMoreAt
  <1> QED
    BY <1>1, <1>2, OneMoreFrames, EmptySeq DEF Same

LEMMA PushedFrames ==
    ASSUME paths \in Seq(Frames), NEW f \in Files, NEW use \in Uses,
           paths' = Append(paths, Frame(f, use))
    PROVE  /\ paths' \in Seq(Frames) /\ Len(paths') = Len(paths) + 1 /\ Same(Len(paths))
           /\ paths'[Len(paths) + 1] = Frame(f, use)
  <1>1. Frame(f, use) \in Frames
    BY DEF Frame, Frames
  <1> QED
    BY <1>1, AppendProperties DEF Same

LEMMA PoppedFrames ==
    ASSUME paths \in Seq(Frames), paths # <<>>, Len(paths) # 1,
           paths' = OneMoreAt(Front(paths), Len(paths) - 1)
    PROVE  /\ paths' \in Seq(Frames) /\ Len(paths') = Len(paths) - 1 /\ Same(Len(paths) - 1)
           /\ paths'[Len(paths) - 1].nodes > 0 /\ paths' # <<>>
  <1> DEFINE n == Len(paths) - 1
             front == Front(paths)
  <1>1. n \in Nat \ {0} /\ n \in 1..n /\ n \in 1..Len(paths) /\ \A i \in 1..n : paths[i] \in Frames
    BY TopOfFrames
  <1>2. front \in Seq(Frames) /\ Len(front) = n /\ \A i \in 1..n : front[i] = paths[i]
    BY <1>1, SubSeqProperties DEF Front
  <1>3. paths' = OneMoreAt(front, n)
    OBVIOUS
  <1> HIDE DEF n, front
  <1>4. /\ paths' \in Seq(Frames) /\ Len(paths') = n /\ paths'[n].nodes > 0
        /\ \A i \in 1..n : paths'[i].file = front[i].file /\ paths'[i].use = front[i].use
    <2>1. n \in 1..Len(front) /\ front \in Seq(Frames)
      BY <1>1, <1>2
    <2>2. /\ paths' \in Seq(Frames) /\ Len(paths') = Len(front) /\ paths'[n].nodes > 0
          /\ \A i \in 1..Len(front) : /\ paths'[i].file = front[i].file
                                       /\ paths'[i].use = front[i].use
      BY <2>1, <1>3, OneMoreFrames
    <2> QED
      BY <2>2, <1>2
  <1>5. \A i \in 1..n : paths'[i].file = paths[i].file /\ paths'[i].use = paths[i].use
    BY <1>2, <1>4
  <1> QED
    BY <1>1, <1>4, <1>5, EmptySeq DEF n, Same

LEMMA AcyclicWithEdge ==
    ASSUME NEW edges, Acyclic(edges), NEW D, \A r \in edges : r.to \in D,
           NEW e, e.to \in D, e.from \notin D
    PROVE  Acyclic(edges \cup {e})
  <1> SUFFICES ASSUME NEW S \in (SUBSET Files) \ {{}}
               PROVE  \E f \in S : \A r \in edges \cup {e} : r.from = f => r.to \notin S
    BY DEF Acyclic
  <1>1. CASE S \cap D = {}
    <2>1. \A r \in edges \cup {e} : r.to \notin S
      BY <1>1
    <2>2. PICK f \in S : TRUE
      OBVIOUS
    <2> QED
      BY <2>1, <2>2
  <1>2. CASE S \cap D # {}
    <2>1. PICK f \in S \cap D : \A r \in edges : r.from = f => r.to \notin S \cap D
      BY <1>2 DEF Acyclic
    <2> QED
      BY <2>1
  <1> QED
    BY <1>1, <1>2

-----------------------------------------------------------------------------
(***************************************************************************)
(* Every step keeps the invariant: one lemma for each thing that can       *)
(* happen to the frames.                                                   *)
(***************************************************************************)
LEMMA FailureKeepsInv ==
    ASSUME ExpansionInv, UNCHANGED <<format, paths, parsed, refs>>, canExtend' \in BOOLEAN,
           canExtend' => canExtend, expanded' \notin {"not yet", "tree"}
    PROVE  ExpansionInv'
  <1>1. PathsTypeOK' /\ Stacked' /\ UsedAsParsed' /\ Acyclic(refs)'
    BY DEF ExpansionInv, PathsTypeOK, Stacked, UsedAsParsed, Acyclic
  <1>2. ExtendedFirst'
    BY DEF ExpansionInv, ExtendedFirst, Extended, top
  <1>3. ExtendedOnce'
    BY DEF ExpansionInv, ExtendedOnce, Extending, Extended
  <1>4. Chained'
    BY DEF Chained
  <1> QED
    BY <1>1, <1>2, <1>3, <1>4 DEF ExpansionInv

\* A node that needs no file to be parsed.
Compatible(first, use) ==
  use # "extends" /\ first # "extends" /\ (first = "import" <=> use = "import")

LEMMA NodeKeepsInv ==
    ASSUME ExpansionInv, Expanding, paths' = NodeDone, UNCHANGED <<parsed, expanded>>,
           canExtend' = FALSE, NEW use \in Uses, NEW f \in Files,
           \/ refs' = refs
           \/ /\ f \in DOMAIN parsed /\ Compatible(parsed[f], use)
              /\ refs' = refs \cup {Reference(top.file, use, f)}
    PROVE  ExpansionInv'
  <1> DEFINE n == Len(paths)
             ref == Reference(top.file, use, f)
  <1>1. /\ n \in Nat \ {0} /\ n \in 1..n /\ DOMAIN paths = 1..n
        /\ top = paths[n] /\ top.file \in Files
    <2>1. paths \in Seq(Frames) /\ paths # <<>>
      BY DEF ExpansionInv, PathsTypeOK, Expanding
    <2>2. top \in Frames
      BY <2>1, TopOfFrames
    <2>3. top.file \in Files
      BY <2>2 DEF Frames
    <2> QED
      BY <2>1, <2>3, TopOfFrames
  <1>2. /\ paths' \in Seq(Frames) /\ Len(paths') = n /\ Same(n) /\ paths' # <<>>
        /\ DOMAIN paths' = 1..n
    BY NodeDoneFrames, LenProperties DEF ExpansionInv, PathsTypeOK, Expanding
  <1>3. /\ ref.from = top.file /\ ref.use = use /\ ref.to = f
        /\ ref \in [from : Files, use : Uses, to : Files]
    BY <1>1 DEF Reference
  <1>4. \/ refs' = refs
        \/ refs' = refs \cup {ref} /\ f \in DOMAIN parsed /\ Compatible(parsed[f], use)
    OBVIOUS
  <1> HIDE DEF n, ref
  <1>5. PathsTypeOK'
    BY <1>2, <1>3, <1>4 DEF ExpansionInv, PathsTypeOK
  <1>6. Stacked'
    BY <1>1, <1>2 DEF ExpansionInv, Stacked, Same
  <1>7. UsedAsParsed'
    BY <1>3, <1>4 DEF ExpansionInv, UsedAsParsed, Compatible
  <1>8. Extending' = Extending
    BY <1>3, <1>4 DEF Extending, Compatible
  <1>9. \A i \in 1..n : paths'[i].file = paths[i].file /\ Extended(i)' = Extended(i)
    BY <1>2 DEF Same, Extended
  <1>10. ExtendedFirst'
    BY <1>1, <1>2, <1>9 DEF ExpansionInv, ExtendedFirst
  <1>11. Acyclic(refs')
    <2>1. CASE refs' = refs
      BY <2>1 DEF ExpansionInv
    <2>2. CASE refs' = refs \cup {ref} /\ f \in DOMAIN parsed
      <3>1. ref.from \notin DOMAIN parsed
        BY <1>1, <1>3 DEF ExpansionInv, Stacked
      <3>2. \A r \in refs : r.to \in DOMAIN parsed
        BY DEF ExpansionInv, UsedAsParsed
      <3> QED
        BY <2>2, <3>1, <3>2, <1>3, AcyclicWithEdge DEF ExpansionInv
    <2> QED
      BY <1>4, <2>1, <2>2
  <1>12. ExtendedOnce'
    <2>1. \A i \in 1..n : i > 1 => i - 1 \in 1..n
      BY <1>1
    <2> QED
      BY <1>1, <1>2, <1>8, <1>9, <2>1 DEF ExpansionInv, ExtendedOnce
  <1>13. Chained'
    <2>1. \A r \in Extending : Continues(r) => Continues(r)'
      BY <1>1, <1>2, <1>8, <1>9 DEF Continues
    <2>2. format' = format /\ AllHTML' = AllHTML
      BY <1>8 DEF AllHTML, Expanding
    <2>3. \A i \in 1..n : IsHead(i)' = IsHead(i)
      BY <1>1, <1>2, <1>9 DEF IsHead
    <2>4. expanded = "not yet"
      BY DEF Expanding
    <2> QED
      BY <1>1, <1>2, <1>8, <1>9, <2>1, <2>2, <2>3, <2>4 DEF ExpansionInv, Chained
  <1> QED
    BY <1>5, <1>6, <1>7, <1>10, <1>11, <1>12, <1>13 DEF ExpansionInv

\* The file of a node is parsed.
LEMMA PushKeepsInv ==
    ASSUME ExpansionInv, Expanding, NEW use \in Uses, NEW f \in Files,
           f \notin DOMAIN parsed, ~InCycle(f), paths' = Append(paths, Frame(f, use)),
           UNCHANGED <<parsed, refs, expanded>>, canExtend' = (canExtend /\ use = "extends"),
           use = "extends" => canExtend /\ top.nodes = 0
    PROVE  ExpansionInv'
  <1>0. /\ paths \in Seq(Frames) /\ paths # <<>> /\ canExtend \in BOOLEAN
        /\ Len(paths) \in Nat \ {0} /\ DOMAIN paths = 1..Len(paths) /\ top = paths[Len(paths)]
    <2>1. paths \in Seq(Frames) /\ paths # <<>> /\ canExtend \in BOOLEAN
      BY DEF ExpansionInv, PathsTypeOK, Expanding
    <2> QED
      BY <2>1, TopOfFrames
  <1> PICK n \in Nat \ {0} : n = Len(paths)
    BY <1>0
  <1>1. /\ n \in Nat \ {0} /\ n \in 1..n /\ n + 1 \in 1..(n + 1) /\ DOMAIN paths = 1..n
        /\ n = Len(paths) /\ top = paths[n] /\ paths \in Seq(Frames) /\ paths # <<>>
        /\ canExtend \in BOOLEAN
    BY <1>0
  <1>2. /\ paths' \in Seq(Frames) /\ Len(paths') = n + 1 /\ Same(n)
        /\ paths'[n + 1] = Frame(f, use)
    BY <1>1, PushedFrames
  <1>3. DOMAIN paths' = 1..(n + 1) /\ top' = paths'[n + 1] /\ paths' # <<>>
    BY <1>1, <1>2, LenProperties, EmptySeq DEF top, Last
  <1>4. paths'[n + 1].file = f /\ paths'[n + 1].use = use /\ paths'[n + 1].nodes = 0
    BY <1>2 DEF Frame
  <1>5. format' = format /\ parsed' = parsed /\ refs' = refs /\ expanded' = expanded
        /\ expanded = "not yet"
    BY DEF Expanding
  <1>6. PathsTypeOK'
    BY <1>1, <1>2, <1>5 DEF ExpansionInv, PathsTypeOK
  <1>7. \A i \in 1..(n + 1) : i \in 1..n \/ i = n + 1
    BY <1>1
  <1>8. \A i \in 1..n : paths[i].file # f
    BY <1>1 DEF InCycle
  <1>9. Stacked'
    <2>1. \A i \in 1..n : /\ paths[i].file \notin DOMAIN parsed
                          /\ i = 1 => paths[i].file = Root
                          /\ i > 1 => paths[i].use \in Uses
      BY <1>1 DEF ExpansionInv, Stacked
    <2>2. \A i \in 1..(n + 1) : /\ paths'[i].file \notin DOMAIN parsed
                                /\ i = 1 => paths'[i].file = Root
                                /\ i > 1 => paths'[i].use \in Uses
      BY <1>1, <1>2, <1>4, <1>7, <2>1 DEF Same
    <2>3. \A i, j \in 1..n : i # j => paths'[i].file # paths'[j].file
      BY <1>1, <1>2 DEF ExpansionInv, Stacked, Same
    <2>4. \A i \in 1..n : paths'[i].file # paths'[n + 1].file
      BY <1>2, <1>4, <1>8 DEF Same
    <2>5. \A i, j \in 1..(n + 1) : i # j => paths'[i].file # paths'[j].file
      BY <1>7, <2>3, <2>4
    <2> QED
      BY <1>3, <1>5, <2>2, <2>5 DEF Stacked
  <1>10. UsedAsParsed' /\ Acyclic(refs)' /\ Extending' = Extending /\ AllHTML' = AllHTML
    BY <1>5 DEF ExpansionInv, UsedAsParsed, Acyclic, Extending, AllHTML
  <1>11. /\ \A i \in 1..n : (Extended(i)' <=> Extended(i))
         /\ Extended(n + 1)' <=> use = "extends"
    <2>1. \A i \in 1..n : paths'[i].use = paths[i].use
      BY <1>2 DEF Same
    <2> QED
      BY <1>4, <2>1 DEF Extended
  <1>12. use = "extends" => refs = {} /\ DOMAIN parsed = {} /\ Extending = {}
    BY <1>1 DEF ExpansionInv, ExtendedFirst, Extending
  <1>13. ExtendedFirst'
    <2>1. \A i, j \in 1..n : 1 < i /\ i < j /\ Extended(j) => Extended(i)
      BY <1>1 DEF ExpansionInv, ExtendedFirst
    <2>2. use = "extends" => \A i \in 1..n : i > 1 => Extended(i)
      BY <1>1 DEF ExpansionInv, ExtendedFirst
    <2>3. \A i, j \in 1..(n + 1) : 1 < i /\ i < j => i \in 1..n
      BY <1>1
    <2>4. \A i, j \in 1..(n + 1) : 1 < i /\ i < j /\ Extended(j)' => Extended(i)'
      BY <1>7, <1>11, <2>1, <2>2, <2>3
    <2>5. canExtend' => \A i \in 1..(n + 1) : i > 1 => Extended(i)'
      BY <1>7, <1>11, <2>2
    <2>6. canExtend' => refs' = {} /\ DOMAIN parsed' = {}
      BY <1>5, <1>12
    <2> QED
      BY <1>3, <2>4, <2>5, <2>6 DEF ExtendedFirst
  <1>14. ExtendedOnce'
    <2>1. \A r \in Extending, i \in 1..(n + 1) : i > 1 /\ Extended(i)' => r.from # paths'[i - 1].file
      <3> SUFFICES ASSUME NEW r \in Extending, NEW i \in 1..(n + 1), i > 1, Extended(i)'
                   PROVE  r.from # paths'[i - 1].file
        OBVIOUS
      <3>1. i \in 1..n /\ i - 1 \in 1..n
        BY <1>1, <1>7, <1>11, <1>12
      <3> QED
        BY <1>1, <1>2, <1>11, <3>1 DEF ExpansionInv, ExtendedOnce, Same
    <2> QED
      BY <1>3, <1>10, <2>1 DEF ExpansionInv, ExtendedOnce
  <1>15. Chained'
    <2>1. \A r \in Extending : Continues(r) => Continues(r)'
      <3> SUFFICES ASSUME NEW r \in Extending, NEW i \in 1..n, i > 1, Extended(i),
                          paths[i].file = r.from
                   PROVE  Continues(r)'
        BY <1>1, <1>10 DEF Continues
      <3>1. i \in 1..(n + 1) /\ Extended(i)' /\ paths'[i].file = r.from
        BY <1>1, <1>2, <1>11 DEF Same
      <3> QED
        BY <1>3, <3>1 DEF Continues
    <2>2. \A i \in 1..n : use # "extends" /\ IsHead(i)' => IsHead(i)
      BY <1>1, <1>2, <1>11 DEF IsHead
    <2>3. use # "extends" => ~IsHead(n + 1)'
      <3>1. n + 1 # 1
        BY <1>1
      <3> QED
        BY <1>11, <3>1 DEF IsHead
    <2>4. \A i \in 1..(n + 1) : IsHead(i)' /\ format[paths'[i].file] = "HTML" => AllHTML'
      <3>1. CASE use = "extends"
        BY <1>10, <1>12, <3>1 DEF AllHTML
      <3>2. CASE use # "extends"
        <4> SUFFICES ASSUME NEW i \in 1..(n + 1), IsHead(i)', format[paths'[i].file] = "HTML"
                     PROVE  AllHTML'
          OBVIOUS
        <4>1. i \in 1..n /\ IsHead(i)
          BY <1>7, <2>2, <2>3, <3>2
        <4>2. paths'[i].file = paths[i].file
          BY <1>2, <4>1 DEF Same
        <4> QED
          BY <1>1, <1>5, <1>10, <4>1, <4>2 DEF ExpansionInv, Chained
      <3> QED
        BY <3>1, <3>2
    <2> QED
      BY <1>3, <1>5, <1>10, <2>1, <2>4 DEF ExpansionInv, Chained
  <1> QED
    BY <1>6, <1>9, <1>10, <1>13, <1>14, <1>15 DEF ExpansionInv

\* The nodes of a file that another file references are expanded.
LEMMA PopKeepsInv ==
    ASSUME ExpansionInv, Expanding, Len(paths) # 1, UNCHANGED canExtend,
           parsed' = [f \in {top.file} \cup DOMAIN parsed |->
                        IF f = top.file THEN top.use ELSE parsed[f]],
           Resolved(paths[Len(paths) - 1].file, top.use, top.file),
           paths' = OneMoreAt(Front(paths), Len(paths) - 1)
    PROVE  ExpansionInv'
  <1>0. /\ paths \in Seq(Frames) /\ paths # <<>> /\ canExtend \in BOOLEAN
        /\ Len(paths) \in Nat \ {0} /\ DOMAIN paths = 1..Len(paths)
        /\ top = paths[Len(paths)] /\ \A i \in 1..Len(paths) : paths[i] \in Frames
    <2>1. paths \in Seq(Frames) /\ paths # <<>> /\ canExtend \in BOOLEAN
      BY DEF ExpansionInv, PathsTypeOK, Expanding
    <2> QED
      BY <2>1, TopOfFrames
  <1> PICK n \in Nat \ {0} : n + 1 = Len(paths)
    <2>1. Len(paths) - 1 \in Nat \ {0} /\ (Len(paths) - 1) + 1 = Len(paths)
      BY <1>0
    <2> QED
      BY <2>1
  <1> PICK from \in Files, use \in Uses, f \in Files :
              from = paths[n].file /\ use = top.use /\ f = top.file
    <2>1. n \in 1..Len(paths) /\ Len(paths) > 1 /\ Len(paths) \in 1..Len(paths)
      BY <1>0
    <2>2. paths[n].file \in Files /\ top.file \in Files
      BY <1>0, <2>1 DEF Frames
    <2>3. top.use \in Uses
      BY <1>0, <2>1 DEF ExpansionInv, Stacked
    <2> QED
      BY <2>2, <2>3
  <1> PICK ref \in [from : Files, use : Uses, to : Files] : ref = Reference(from, use, f)
    BY DEF Reference
  <1>1. /\ n \in 1..n /\ n + 1 \in 1..(n + 1) /\ DOMAIN paths = 1..(n + 1) /\ n + 1 > 1
        /\ \A i \in 1..n : i \in 1..(n + 1) /\ i # n + 1
        /\ Len(paths) - 1 = n
    BY <1>0
  <1>2. /\ paths[n].file = from /\ paths[n + 1].file = f /\ paths[n + 1].use = use
        /\ ref.from = from /\ ref.use = use /\ ref.to = f
    BY <1>0 DEF Reference
  <1>3. /\ paths' \in Seq(Frames) /\ Len(paths') = n /\ Same(n)
        /\ paths'[n].nodes > 0 /\ paths' # <<>> /\ DOMAIN paths' = 1..n
    BY <1>0, <1>1, PoppedFrames, LenProperties
  <1>4. top' = paths'[n]
    BY <1>3 DEF top, Last
  <1>5. parsed' = [g \in {f} \cup DOMAIN parsed |-> IF g = f THEN use ELSE parsed[g]]
    OBVIOUS
  <1>6. \/ /\ use = "extends" /\ ~SameFormat(from, f) /\ expanded' = "format" /\ refs' = refs
        \/ /\ use = "extends" => SameFormat(from, f)
           /\ refs' = refs \cup {ref} /\ expanded' = expanded
    BY <1>1 DEF Resolved
  <1>7. format' = format /\ canExtend' = canExtend /\ expanded = "not yet"
    BY DEF Expanding
  <1>8. \A i \in 1..n : /\ paths'[i].file = paths[i].file
                        /\ Extended(i)' <=> Extended(i)
    BY <1>3 DEF Same, Extended
  <1>9. /\ \A i, j \in 1..(n + 1) : i # j => paths[i].file # paths[j].file
        /\ \A i \in 1..(n + 1) : /\ paths[i].file \notin DOMAIN parsed
                                 /\ i = 1 => paths[i].file = Root
                                 /\ i > 1 => paths[i].use \in Uses
    BY <1>1 DEF ExpansionInv, Stacked
  <1>10. \A i \in 1..n : paths[i].file # f
    BY <1>1, <1>2, <1>9
  <1>11. f \notin DOMAIN parsed
    BY <1>1, <1>2, <1>9
  <1>12. \A r \in refs : /\ r.to \in DOMAIN parsed /\ r.to # f
                         /\ parsed[r.to] = "extends" <=> r.use = "extends"
                         /\ parsed[r.to] = "import" <=> r.use = "import"
    BY <1>11 DEF ExpansionInv, UsedAsParsed
  <1>13. PathsTypeOK'
    <2>1. parsed' \in [DOMAIN parsed' -> Uses]
      BY <1>5 DEF ExpansionInv, PathsTypeOK
    <2> QED
      BY <1>0, <1>3, <1>6, <1>7, <2>1 DEF ExpansionInv, PathsTypeOK
  <1>14. Stacked'
    <2>1. \A i \in 1..n : /\ paths'[i].file \notin DOMAIN parsed'
                          /\ i = 1 => paths'[i].file = Root
                          /\ i > 1 => paths'[i].use \in Uses
      BY <1>1, <1>3, <1>5, <1>9, <1>10 DEF Same
    <2>2. \A i, j \in 1..n : i # j => paths'[i].file # paths'[j].file
      BY <1>1, <1>8, <1>9
    <2> QED
      BY <1>3, <2>1, <2>2 DEF Stacked
  <1>15. UsedAsParsed'
    <2>1. \A r \in refs : /\ r.to \in DOMAIN parsed'
                          /\ parsed'[r.to] = "extends" <=> r.use = "extends"
                          /\ parsed'[r.to] = "import" <=> r.use = "import"
      BY <1>5, <1>12
    <2>2. ref.to \in DOMAIN parsed' /\ parsed'[ref.to] = ref.use
      BY <1>2, <1>5
    <2>3. \A r \in refs' : r \in refs \/ r = ref
      BY <1>6
    <2> QED
      BY <2>1, <2>2, <2>3 DEF UsedAsParsed
  <1>16. ExtendedFirst'
    <2>1. \A i, j \in 1..n : 1 < i /\ i < j /\ Extended(j) => Extended(i)
      BY <1>1 DEF ExpansionInv, ExtendedFirst
    <2>2. canExtend => \A i \in 1..n : i > 1 => Extended(i)
      BY <1>1 DEF ExpansionInv, ExtendedFirst
    <2>3. paths'[n].nodes # 0
      BY <1>3
    <2> QED
      <3>1. \A i, j \in 1..n : 1 < i /\ i < j /\ Extended(j)' => Extended(i)'
        BY <1>8, <2>1
      <3>2. canExtend' => \A i \in 1..n : i > 1 => Extended(i)'
        <4>1. canExtend' => canExtend
          <5>1. canExtend' = canExtend
            BY <1>7
          <5>2. CASE canExtend = TRUE
            BY <5>2
          <5>3. CASE canExtend = FALSE
            BY <5>1, <5>3
          <5> QED
            BY <1>0, <5>2, <5>3
        <4> QED
          BY <1>8, <2>2, <4>1
      <3>3. top'.nodes # 0
        BY <1>4, <2>3
      <3> QED
        BY <1>3, <3>1, <3>2, <3>3 DEF ExtendedFirst
  <1>17. Acyclic(refs')
    <2>1. CASE refs' = refs
      BY <2>1 DEF ExpansionInv
    <2>2. CASE refs' = refs \cup {ref}
      <3>1. ref.from \notin DOMAIN parsed'
        BY <1>1, <1>2, <1>5, <1>9, <1>10
      <3>2. ref.to \in DOMAIN parsed' /\ \A r \in refs : r.to \in DOMAIN parsed'
        BY <1>2, <1>5, <1>12
      <3> QED
        BY <2>2, <3>1, <3>2, AcyclicWithEdge DEF ExpansionInv
    <2> QED
      BY <1>6, <2>1, <2>2
  <1>18. /\ use # "extends" \/ refs' = refs => Extending' = Extending
         /\ use = "extends" /\ refs' = refs \cup {ref} => Extending' = Extending \cup {ref}
    BY <1>2, <1>6 DEF Extending
  <1>19. Extended(n + 1) <=> use = "extends"
    BY <1>2 DEF Extended
  <1>20. /\ \A r, s \in Extending : r # s => r.from # s.from /\ r.to # s.to
         /\ \A r \in Extending, i \in 1..(n + 1) : i > 1 /\ Extended(i) => r.from # paths[i - 1].file
    BY <1>1 DEF ExpansionInv, ExtendedOnce
  <1>21. \A i \in 1..n : i > 1 => i - 1 \in 1..n /\ i - 1 # n
    OBVIOUS
  <1>22. ExtendedOnce'
    <2>1. \A r \in Extending, i \in 1..n : i > 1 /\ Extended(i)' => r.from # paths'[i - 1].file
      BY <1>1, <1>8, <1>20, <1>21
    <2>2. CASE use = "extends" /\ refs' = refs \cup {ref}
      <3>1. Extending' = Extending \cup {ref}
        BY <1>18, <2>2
      <3>2. \A r \in Extending : r.from # from
        <4>1. n + 1 > 1 /\ n + 1 \in 1..(n + 1) /\ (n + 1) - 1 = n /\ Extended(n + 1)
          BY <1>1, <1>19, <2>2
        <4> QED
          BY <1>2, <1>20, <4>1
      <3>3. \A r \in Extending : r.to # f
        BY <1>12 DEF Extending
      <3>4. \A i \in 1..n : i > 1 => ref.from # paths'[i - 1].file
        BY <1>1, <1>2, <1>8, <1>9, <1>21
      <3> QED
        <4>1. \A r, s \in Extending' : r # s => r.from # s.from /\ r.to # s.to
          BY <1>2, <1>20, <3>1, <3>2, <3>3
        <4>2. \A r \in Extending', i \in 1..n : i > 1 /\ Extended(i)' =>
                                                  r.from # paths'[i - 1].file
          BY <2>1, <3>1, <3>4
        <4> QED
          BY <1>3, <4>1, <4>2 DEF ExtendedOnce
    <2>3. CASE use # "extends" \/ refs' = refs
      BY <1>3, <1>18, <1>20, <2>1, <2>3 DEF ExtendedOnce
    <2> QED
      BY <1>6, <2>2, <2>3
  <1>23. CASE expanded' = "format"
    <2>1. Chained'
      BY <1>23 DEF Chained
    <2> QED
      BY <1>13, <1>14, <1>15, <1>16, <1>17, <1>22, <2>1 DEF ExpansionInv
  <1>24. CASE expanded' = expanded /\ refs' = refs \cup {ref}
    <2>1. /\ \A r \in Extending : Continues(r)
          /\ \A i \in 1..(n + 1) : IsHead(i) /\ format[paths[i].file] = "HTML" => AllHTML
      BY <1>1, <1>7 DEF ExpansionInv, Chained
    <2>2. ASSUME /\ \A r \in Extending' : Continues(r)'
                 /\ \A i \in 1..n : IsHead(i)' /\ format[paths'[i].file] = "HTML" => AllHTML'
          PROVE  Chained'
      BY <1>3, <1>7, <1>24, <2>2 DEF Chained
    <2>3. ASSUME use # "extends" PROVE Chained'
      <3>1. Extending' = Extending
        BY <1>18, <2>3
      <3>2. \A r \in Extending : Continues(r)'
        <4> SUFFICES ASSUME NEW r \in Extending, NEW i \in 1..(n + 1), i > 1, Extended(i),
                            paths[i].file = r.from
                     PROVE  Continues(r)'
          BY <1>1, <2>1, <3>1 DEF Continues
        <4>1. i \in 1..n
          BY <1>19, <2>3
        <4> QED
          BY <1>3, <1>8, <4>1 DEF Continues
      <3>3. \A i \in 1..n : IsHead(i)' => IsHead(i)
        BY <1>1, <1>3, <1>8, <1>19, <2>3 DEF IsHead
      <3>4. AllHTML' = AllHTML
        BY <1>7, <3>1 DEF AllHTML
      <3>5. \A i \in 1..n : IsHead(i)' /\ format[paths'[i].file] = "HTML" => AllHTML'
        BY <1>1, <1>8, <2>1, <3>3, <3>4
      <3> QED
        BY <2>2, <3>1, <3>2, <3>5
    <2>4. ASSUME use = "extends" PROVE Chained'
      <3>1. Extending' = Extending \cup {ref}
        BY <1>18, <1>24, <2>4
      <3>2. n = 1 \/ Extended(n)
        <4>1. n # 1 => 1 < n /\ n < n + 1
          OBVIOUS
        <4> QED
          BY <1>1, <1>19, <2>4, <4>1 DEF ExpansionInv, ExtendedFirst
      <3>3. Continues(ref)'
        BY <1>1, <1>2, <1>3, <1>8, <1>9, <3>2 DEF Continues
      <3>4. \A r \in Extending : Continues(r)'
        <4>1. SUFFICES ASSUME NEW r \in Extending, NEW i \in 1..(n + 1), i > 1, Extended(i),
                              paths[i].file = r.from
                       PROVE  Continues(r)'
          BY <1>1, <2>1, <3>1 DEF Continues
        <4>2. CASE i = n + 1
          BY <1>2, <3>1, <4>1, <4>2 DEF Continues
        <4>3. CASE i \in 1..n
          BY <1>3, <1>8, <4>1, <4>3 DEF Continues
        <4> QED
          BY <4>2, <4>3
      <3>5. \A i \in 1..n : IsHead(i)' => i = n
        <4> SUFFICES ASSUME NEW i \in 1..n, IsHead(i)', i # n
                     PROVE  FALSE
          OBVIOUS
        <4>1. /\ i + 1 \in 1..n /\ i + 1 \in 1..(n + 1) /\ n + 1 \in 1..(n + 1)
              /\ 1 < i + 1 /\ i + 1 < n + 1
          OBVIOUS
        <4>2. Extended(i + 1)
          BY <1>1, <1>19, <2>4, <4>1 DEF ExpansionInv, ExtendedFirst
        <4>3. ~Extended(i + 1)'
          BY <1>3 DEF IsHead
        <4> QED
          BY <1>8, <4>1, <4>2, <4>3
      <3>6. ASSUME format[from] = "HTML" PROVE AllHTML'
        <4>1. format[f] = "HTML"
          BY <1>6, <1>24, <1>7, <2>4, <3>6 DEF SameFormat
        <4>2. IsHead(n + 1)
          BY <1>0, <1>19, <2>4 DEF IsHead
        <4>3. AllHTML
          BY <1>1, <1>2, <2>1, <4>1, <4>2
        <4> QED
          BY <1>2, <1>7, <3>1, <4>1, <4>3 DEF AllHTML
      <3>7. \A i \in 1..n : IsHead(i)' /\ format[paths'[i].file] = "HTML" => AllHTML'
        BY <1>1, <1>2, <1>8, <3>5, <3>6
      <3> QED
        <4>1. \A r \in Extending' : Continues(r)'
          BY <3>1, <3>3, <3>4
        <4> QED
          BY <2>2, <3>7, <4>1
    <2>5. Chained'
      BY <2>3, <2>4
    <2> QED
      BY <1>13, <1>14, <1>15, <1>16, <1>17, <1>22, <2>5 DEF ExpansionInv
  <1> QED
    BY <1>6, <1>23, <1>24

\* The file that was built ends.
LEMMA TreeKeepsInv ==
    ASSUME ExpansionInv, Expanding, Len(paths) = 1, UNCHANGED <<canExtend, parsed, refs>>,
           paths' = <<>>, expanded' = "tree"
    PROVE  ExpansionInv'
  <1>1. paths \in Seq(Frames) /\ paths # <<>> /\ DOMAIN paths = 1..1
    BY LenProperties DEF ExpansionInv, PathsTypeOK, Expanding
  <1>2. paths' \in Seq(Frames) /\ DOMAIN paths' = {}
    BY EmptySeq, LenProperties
  <1>3. format' = format /\ expanded = "not yet"
    BY DEF Expanding
  <1>4. PathsTypeOK' /\ Stacked' /\ UsedAsParsed' /\ Acyclic(refs)'
    BY <1>2 DEF ExpansionInv, PathsTypeOK, Stacked, UsedAsParsed, Acyclic
  <1>5. ExtendedFirst'
    BY <1>2 DEF ExtendedFirst
  <1>6. Extending' = Extending /\ AllHTML' = AllHTML
    BY <1>3 DEF Extending, AllHTML
  <1>7. ExtendedOnce'
    BY <1>2, <1>6 DEF ExpansionInv, ExtendedOnce
  <1>8. Chained'
    <2>1. 1 \in DOMAIN paths /\ paths[1].file = Root /\ ~(\E i \in DOMAIN paths : i > 1)
      BY <1>1 DEF ExpansionInv, Stacked
    <2>2. \A r \in Extending : Continues(r)'
      BY <1>3, <1>6, <2>1 DEF ExpansionInv, Chained, Continues
    <2>3. IsHead(1)
      BY DEF IsHead
    <2>4. format[Root] = "HTML" => AllHTML
      BY <1>3, <2>1, <2>3 DEF ExpansionInv, Chained
    <2> QED
      BY <1>3, <1>6, <2>2, <2>4 DEF Chained
  <1> QED
    BY <1>4, <1>5, <1>7, <1>8 DEF ExpansionInv

LEMMA InitImpliesInv == ExpInit => ExpansionInv
  <1> SUFFICES ASSUME ExpInit
               PROVE  ExpansionInv
    OBVIOUS
  <1> DEFINE frame == Frame(Root, "build")
  <1>1. frame \in Frames /\ frame.file = Root /\ paths = <<frame>>
    BY RootAssumption DEF ExpInit, Frame, Frames
  <1> HIDE DEF frame
  <1>2. paths \in Seq(Frames) /\ Len(paths) = 1 /\ DOMAIN paths = {1} /\ paths[1].file = Root
    BY <1>1
  <1>3. DOMAIN parsed = {} /\ refs = {} /\ Extending = {}
    <2>1. <<>> \in Seq(Uses) /\ Len(<<>>) = 0
      BY EmptySeq
    <2>2. DOMAIN <<>> = 1..0
      BY <2>1, LenProperties
    <2>3. parsed = <<>> /\ refs = {}
      BY DEF ExpInit
    <2>4. DOMAIN parsed = {}
      BY <2>2, <2>3
    <2> QED
      BY <2>3, <2>4 DEF Extending
  <1>4. parsed = <<>> /\ canExtend = TRUE /\ expanded = "not yet"
    BY DEF ExpInit
  <1>5. PathsTypeOK /\ Stacked /\ UsedAsParsed /\ ExtendedFirst /\ Acyclic(refs) /\ ExtendedOnce
    <2>1. parsed \in [DOMAIN parsed -> Uses]
      BY <1>3, <1>4, EmptySeq, LenProperties
    <2>2. PathsTypeOK
      BY <1>2, <1>3, <1>4, <2>1 DEF PathsTypeOK
    <2>3. Stacked
      BY <1>2, <1>3 DEF Stacked
    <2>4. UsedAsParsed /\ ExtendedOnce
      BY <1>3 DEF UsedAsParsed, ExtendedOnce
    <2>5. ExtendedFirst
      BY <1>2, <1>3 DEF ExtendedFirst
    <2>6. Acyclic(refs)
      BY <1>3 DEF Acyclic
    <2> QED
      BY <2>2, <2>3, <2>4, <2>5, <2>6
  <1>6. Chained
    BY <1>3, <1>4 DEF Chained, AllHTML
  <1> QED
    BY <1>5, <1>6 DEF ExpansionInv

LEMMA NextKeepsInv == ExpansionInv /\ [ExpNext]_expvars => ExpansionInv'
  <1> SUFFICES ASSUME ExpansionInv, [ExpNext]_expvars
               PROVE  ExpansionInv'
    OBVIOUS
  <1>0. canExtend \in BOOLEAN
    BY DEF ExpansionInv, PathsTypeOK
  <1>1. CASE CannotExtend \/ ParseSourceFails
    <2>1. UNCHANGED <<format, paths, parsed, refs, canExtend>> /\ expanded' \notin {"not yet", "tree"}
      BY <1>1 DEF CannotExtend, ParseSourceFails, Fails, Expanding
    <2> QED
      BY <1>0, <2>1, FailureKeepsInv
  <1>2. ASSUME NEW use \in Uses, NEW f \in Files, ParseNodeFile(use, f)
        PROVE  ExpansionInv'
    <2>1. /\ Expanding /\ canExtend' = (canExtend /\ use = "extends")
          /\ use = "extends" => top.nodes = 0 /\ canExtend
      BY <1>2 DEF ParseNodeFile, Extends, CanExtend
    <2>2. canExtend' \in BOOLEAN /\ (canExtend' => canExtend)
      BY <1>0, <2>1
    <2>3. format' = format /\ expanded = "not yet" /\ paths # <<>>
      BY <2>1 DEF Expanding
    <2>4. ASSUME NEW how \in {"cycle", "other use", "not exist"}, Fails(how)
          PROVE  ExpansionInv'
      BY <2>2, <2>3, <2>4, FailureKeepsInv DEF Fails
    <2>5. CASE InCycle(f)
      BY <1>2, <2>4, <2>5 DEF ParseNodeFile, Cycle
    <2>6. CASE ~InCycle(f) /\ f \in DOMAIN parsed
      <3>1. CASE Refuses(parsed[f], use)
        BY <1>2, <2>4, <2>6, <3>1 DEF ParseNodeFile, Cycle
      <3>2. CASE ~Refuses(parsed[f], use)
        <4>1. paths' = NodeDone /\ Resolved(top.file, use, f) /\ parsed' = parsed
          BY <1>2, <2>6, <3>2 DEF ParseNodeFile, Cycle
        <4>2. use # "extends"
          BY <2>1, <2>3, <2>6 DEF ExpansionInv, ExtendedFirst
        <4>3. canExtend' = FALSE
          BY <2>1, <4>2
        <4>4. expanded' = expanded /\ refs' = refs \cup {Reference(top.file, use, f)}
          BY <4>1, <4>2 DEF Resolved
        <4>5. Compatible(parsed[f], use)
          BY <2>6, <3>2, <4>2 DEF Refuses, Compatible, Uses, ExpansionInv, PathsTypeOK
        <4> QED
          BY <2>1, <2>6, <4>1, <4>3, <4>4, <4>5, NodeKeepsInv
      <3> QED
        BY <3>1, <3>2
    <2>7. CASE ~InCycle(f) /\ f \notin DOMAIN parsed
      <3>1. CASE f \in present
        <4>1. paths' = Append(paths, Frame(f, use)) /\ UNCHANGED <<parsed, refs, expanded>>
          BY <1>2, <2>7, <3>1 DEF ParseNodeFile, Cycle
        <4> QED
          BY <2>1, <2>7, <4>1, PushKeepsInv
      <3>2. CASE f \notin present /\ use \in {"import", "default"}
        <4>1. paths' = NodeDone /\ UNCHANGED <<parsed, refs, expanded>>
          BY <1>2, <2>7, <3>2 DEF ParseNodeFile, Cycle
        <4>2. canExtend' = FALSE
          BY <2>1, <3>2
        <4> QED
          BY <2>1, <4>1, <4>2, NodeKeepsInv
      <3>3. CASE f \notin present /\ use \notin {"import", "default"}
        <4>1. Fails("not exist")
          BY <1>2, <2>7, <3>3 DEF ParseNodeFile, Cycle
        <4> QED
          BY <2>4, <4>1
      <3> QED
        BY <3>1, <3>2, <3>3
    <2> QED
      BY <2>5, <2>6, <2>7
  <1>3. CASE Expand
    <2>1. Expanding /\ canExtend' = canExtend
      BY <1>3 DEF Expand
    <2>2. CASE Len(paths) = 1
      BY <1>3, <2>1, <2>2, TreeKeepsInv DEF Expand
    <2>3. CASE Len(paths) # 1
      <3>1. /\ parsed' = [f \in {top.file} \cup DOMAIN parsed |->
                            IF f = top.file THEN top.use ELSE parsed[f]]
            /\ Resolved(paths[Len(paths) - 1].file, top.use, top.file)
            /\ paths' = OneMoreAt(Front(paths), Len(paths) - 1)
        BY <1>3, <2>3 DEF Expand, OneMoreAt
      <3> QED
        BY <2>1, <2>3, <3>1, PopKeepsInv
    <2> QED
      BY <2>2, <2>3
  <1>4. CASE UNCHANGED expvars
    <2>1. /\ paths' = paths /\ parsed' = parsed /\ refs' = refs /\ expanded' = expanded
          /\ canExtend' = canExtend /\ format' = format
      BY <1>4 DEF expvars
    <2>2. PathsTypeOK' /\ Stacked' /\ UsedAsParsed' /\ Acyclic(refs)'
      BY <2>1 DEF ExpansionInv, PathsTypeOK, Stacked, UsedAsParsed, Acyclic
    <2>3. ExtendedFirst' /\ ExtendedOnce'
      BY <2>1 DEF ExpansionInv, ExtendedFirst, ExtendedOnce, Extending, Extended, top
    <2>4. Chained'
      BY <2>1 DEF ExpansionInv, Chained, Extending, Extended, Continues, AllHTML, IsHead
    <2> QED
      BY <2>2, <2>3, <2>4 DEF ExpansionInv
  <1> QED
    BY <1>1, <1>2, <1>3, <1>4 DEF ExpNext

-----------------------------------------------------------------------------
(***************************************************************************)
(* The theorems.                                                           *)
(***************************************************************************)
LEMMA InvIsInvariant == ExpSpec => []ExpansionInv
  <1>1. ExpInit => ExpansionInv
    BY InitImpliesInv
  <1>2. ExpansionInv /\ [ExpNext]_expvars => ExpansionInv'
    BY NextKeepsInv
  <1> QED
    BY <1>1, <1>2, PTL DEF ExpSpec

\* A file is extended, imported or rendered, never in two of these ways: Refuses does not refuse
\* that a file that has been imported or rendered is extended, and it is extends, refused after
\* any other node (CannotExtend), that makes it impossible.
THEOREM AlwaysUsedInOneWay == ExpSpec => []UsedInOneWay
  <1>1. ExpansionInv => UsedInOneWay
    BY DEF ExpansionInv, UsedAsParsed, UsedInOneWay, FilesOf
  <1> QED
    BY <1>1, InvIsInvariant, PTL

\* The trees of a template have no cycle, for any number of files, and the files that extend are
\* one chain that begins at the file built and keeps its HTML: the files in the stack are told
\* apart, and none of them is parsed until its nodes are expanded.
THEOREM TreesAlwaysFinite == ExpSpec => []TreesAreFinite
  <1>1. ExpansionInv => TreesAreFinite
    <2> SUFFICES ASSUME ExpansionInv
                 PROVE  TreesAreFinite
      OBVIOUS
    <2>1. \A S \in (SUBSET Files) \ {{}} : \E f \in S : \A r \in refs : r.from = f => r.to \notin S
      BY DEF ExpansionInv, Acyclic
    <2>2. \A r, s \in Extending : r # s => r.from # s.from /\ r.to # s.to
      BY DEF ExpansionInv, ExtendedOnce
    <2>3. ASSUME expanded = "tree"
          PROVE  \A r \in Extending : /\ r.from = Root \/ \E s \in Extending : s.to = r.from
                                      /\ format[Root] = "HTML" => format[r.to] = "HTML"
      <3>1. paths = <<>> /\ DOMAIN paths = {}
        BY <2>3, EmptySeq, LenProperties DEF ExpansionInv, PathsTypeOK, Chained
      <3>2. /\ \A r \in Extending : Continues(r)
            /\ format[Root] = "HTML" => AllHTML
        BY <2>3 DEF ExpansionInv, Chained
      <3> QED
        BY <3>1, <3>2 DEF Continues, AllHTML
    <2> QED
      BY <2>1, <2>2, <2>3 DEF TreesAreFinite, Extending
  <1> QED
    BY <1>1, InvIsInvariant, PTL

-----------------------------------------------------------------------------
(***************************************************************************)
(* Initialization. The lists of the packages that are being emitted, one   *)
(* after the other from that of main, are one list in which every function *)
(* comes after what it needs. A package that is emitted again finds what   *)
(* its imports have to initialize in that list, maybe in that of another   *)
(* package: adding it again, or not, changes nothing of what comes first.  *)
(***************************************************************************)
Function == [pkg : Packs, func : {"init", "$initvars"}, nth : Nat]
EmissionOf == [pkg : Packs, next : Nat, funcs : Seq(Function)]

EmissionTypeOK ==
  /\ importsOf \in [Packs -> Seq(ToSet(Imported))]
  /\ inits \in [Packs -> Nat] /\ variables \in [Packs -> BOOLEAN]
  /\ emitted \in [Packs -> Nat]
  /\ emitting \in Seq(EmissionOf)
  /\ calls \in Seq(Function)

\* What a package has to initialize, of which the other functions are repetitions.
Wanted(p) == ToSet(OwnInits(p)) \cup (IF variables[p] THEN {InitVars(p, 0)} ELSE {})

\* What has to be called before a function.
Needed(f) == {InitFunc(f.pkg, m) : m \in {n \in 1..f.nth - 1 : f.func = "init"}}
             \cup UNION {Wanted(q) : q \in ToSet(importsOf[f.pkg])}

Exists(f) == IF f.func = "init" THEN f.nth \in 1..inits[f.pkg] ELSE variables[f.pkg]

\* The functions of the first k lists, and those before the i-th of the k-th list.
Listed(E, k) == UNION {ToSet(E[j].funcs) : j \in 1..k}
Preceding(E, k, i) == Listed(E, k - 1) \cup {E[k].funcs[j] : j \in 1..i - 1}

Ordered(E) ==
  \A k \in 1..Len(E) : \A n \in 1..Len(E[k].funcs) :
    LET f == E[k].funcs[n] IN f.pkg # "main" /\ Exists(f) /\ Needed(f) \subseteq Preceding(E, k, n)

\* The imports that have been emitted: all those before the next one, but the one that is being emitted.
Emitted(E, k) == {n \in 1..E[k].next - 1 : k = Len(E) \/ n < E[k].next - 1}

ImportsListed(E) ==
  \A k \in 1..Len(E) :
    /\ E[k].next \in 1..Len(importsOf[E[k].pkg]) + 1
    /\ \A n \in Emitted(E, k) : Wanted(importsOf[E[k].pkg][n]) \subseteq Listed(E, k)

\* Only the first is main; the others are imports of the one before.
Nested(E) ==
  \A k \in 1..Len(E) :
    IF k = 1 THEN E[k].pkg = "main"
    ELSE /\ E[k].pkg # "main" /\ E[k - 1].next > 1
         /\ E[k].pkg = importsOf[E[k - 1].pkg][E[k - 1].next - 1]

CallsOrdered ==
  /\ \A n \in 1..Len(calls) :
       Exists(calls[n]) /\ (calls[n] = InitVars("main", 0) \/ Needed(calls[n]) \subseteq {calls[j] : j \in 1..n - 1})
  /\ \A p \in Packs : emitted[p] > 0 => Wanted(p) \subseteq Called

InitializationInv ==
  /\ EmissionTypeOK
  /\ IF emitting = <<>> THEN CallsOrdered
     ELSE /\ emitted["main"] = 0
          /\ Ordered(emitting) /\ ImportsListed(emitting) /\ Nested(emitting)
          /\ \A p \in Packs : emitted[p] > 0 => Wanted(p) \subseteq Listed(emitting, Len(emitting))

-----------------------------------------------------------------------------
(***************************************************************************)
(* The lists.                                                              *)
(***************************************************************************)
LEMMA SameLists ==
    ASSUME NEW D, NEW E, NEW k, \A j \in 1..k : D[j].funcs = E[j].funcs
    PROVE  Listed(D, k) = Listed(E, k)
  BY DEF Listed

LEMMA ListedByOne ==
    ASSUME NEW E, NEW k \in Nat, k > 0
    PROVE  Listed(E, k) = Listed(E, k - 1) \cup ToSet(E[k].funcs)
  <1>1. \A j : j \in 1..k <=> j \in 1..k - 1 \/ j = k
    OBVIOUS
  <1> QED
    BY <1>1 DEF Listed

LEMMA MoreListed ==
    ASSUME NEW E, NEW k \in Nat, NEW m \in Nat, k <= m
    PROVE  Listed(E, k) \subseteq Listed(E, m)
  <1>1. \A j : j \in 1..k => j \in 1..m
    OBVIOUS
  <1> QED
    BY <1>1 DEF Listed

LEMMA PackNames ==
    /\ "main" \in Packs /\ ToSet(Imported) \subseteq Packs
    /\ \A p \in ToSet(Imported) : p # "main"
  BY InitializationAssumption DEF Packs

LEMMA EmissionFacts ==
    ASSUME EmissionTypeOK
    PROVE  /\ Len(emitting) \in Nat
           /\ \A k \in 1..Len(emitting) :
                /\ emitting[k] \in EmissionOf /\ emitting[k].pkg \in Packs /\ emitting[k].next \in Nat
                /\ emitting[k].funcs \in Seq(Function) /\ Len(emitting[k].funcs) \in Nat
                /\ DOMAIN emitting[k].funcs = 1..Len(emitting[k].funcs)
           /\ \A p \in Packs :
                /\ importsOf[p] \in Seq(ToSet(Imported)) /\ Len(importsOf[p]) \in Nat
                /\ \A n \in 1..Len(importsOf[p]) : importsOf[p][n] \in ToSet(Imported)
                /\ inits[p] \in Nat /\ variables[p] \in BOOLEAN /\ emitted[p] \in Nat
  <1>1. Len(emitting) \in Nat
    BY LenProperties DEF EmissionTypeOK
  <1>2. ASSUME NEW k \in 1..Len(emitting)
        PROVE  /\ emitting[k] \in EmissionOf /\ emitting[k].pkg \in Packs /\ emitting[k].next \in Nat
               /\ emitting[k].funcs \in Seq(Function) /\ Len(emitting[k].funcs) \in Nat
               /\ DOMAIN emitting[k].funcs = 1..Len(emitting[k].funcs)
    <2>1. emitting[k] \in EmissionOf
      BY ElementOfSeq DEF EmissionTypeOK
    <2>2. emitting[k].funcs \in Seq(Function)
      BY <2>1 DEF EmissionOf
    <2> QED
      BY <2>1, <2>2, LenProperties DEF EmissionOf
  <1>3. ASSUME NEW p \in Packs
        PROVE  /\ importsOf[p] \in Seq(ToSet(Imported)) /\ Len(importsOf[p]) \in Nat
               /\ \A n \in 1..Len(importsOf[p]) : importsOf[p][n] \in ToSet(Imported)
               /\ inits[p] \in Nat /\ variables[p] \in BOOLEAN /\ emitted[p] \in Nat
    <2>1. importsOf[p] \in Seq(ToSet(Imported))
      BY DEF EmissionTypeOK
    <2> QED
      BY <2>1, LenProperties, ElementOfSeq DEF EmissionTypeOK
  <1> QED
    BY <1>1, <1>2, <1>3

\* The functions of a package itself.
LEMMA OwnFunctions ==
    ASSUME EmissionTypeOK, NEW p \in Packs
    PROVE  /\ OwnInits(p) \in Seq(Function) /\ Len(OwnInits(p)) = inits[p]
           /\ \A n \in 1..inits[p] : OwnInits(p)[n] = InitFunc(p, n)
           /\ ToSet(OwnInits(p)) = {InitFunc(p, n) : n \in 1..inits[p]}
           /\ OwnVars(p) \in Seq(Function)
           /\ ToSet(OwnVars(p)) = IF variables[p] THEN {InitVars(p, emitted[p])} ELSE {}
           /\ Len(OwnVars(p)) = IF variables[p] THEN 1 ELSE 0
           /\ variables[p] => OwnVars(p)[1] = InitVars(p, emitted[p])
  <1>1. inits[p] \in Nat /\ emitted[p] \in Nat /\ variables[p] \in BOOLEAN
    BY EmissionFacts
  <1>2. \A n \in 1..inits[p] : InitFunc(p, n) \in Function
    BY <1>1 DEF InitFunc, Function
  <1>3. OwnInits(p) \in Seq(Function) /\ Len(OwnInits(p)) = inits[p] /\ DOMAIN OwnInits(p) = 1..inits[p]
    BY <1>1, <1>2 DEF OwnInits
  <1>4. InitVars(p, emitted[p]) \in Function
    BY <1>1 DEF InitVars, Function
  <1>5. CASE variables[p]
    <2>1. OwnVars(p) = <<InitVars(p, emitted[p])>>
      BY <1>5 DEF OwnVars
    <2> QED
      BY <1>1, <1>3, <1>4, <1>5, <2>1 DEF OwnInits, ToSet
  <1>6. CASE ~variables[p]
    <2>1. OwnVars(p) = <<>>
      BY <1>6 DEF OwnVars
    <2> QED
      BY <1>1, <1>3, <1>6, <2>1 DEF OwnInits, ToSet
  <1> QED
    BY <1>5, <1>6

-----------------------------------------------------------------------------
LEMMA InitializationStarts == InitializationInit => InitializationInv
  <1> SUFFICES ASSUME InitializationInit PROVE InitializationInv
    OBVIOUS
  <1>1. importsOf \in [Packs -> Seq(ToSet(Imported))]
    <2>1. ASSUME NEW s \in Orders PROVE s \in Seq(ToSet(Imported))
      BY DEF Orders, SeqOf
    <2> QED
      BY <2>1 DEF InitializationInit
  <1>2. inits \in [Packs -> Nat]
    BY InitializationAssumption DEF InitializationInit
  <1>3. emitting = <<Emission("main")>> /\ Emission("main") \in EmissionOf
    BY PackNames DEF InitializationInit, Emission, EmissionOf
  <1>4. emitting \in Seq(EmissionOf) /\ Len(emitting) = 1 /\ emitting[1] = Emission("main") /\ emitting # <<>>
    BY <1>3
  <1>5. EmissionTypeOK
    BY <1>1, <1>2, <1>4 DEF EmissionTypeOK, InitializationInit
  <1>6. Len(importsOf["main"]) \in Nat
    BY <1>5, PackNames, EmissionFacts
  <1>7. emitting[1].funcs = <<>> /\ emitting[1].pkg = "main" /\ emitting[1].next = 1
    BY <1>4 DEF Emission
  <1>8. Ordered(emitting)
    BY <1>4, <1>7 DEF Ordered
  <1>9. ImportsListed(emitting)
    BY <1>4, <1>6, <1>7 DEF ImportsListed, Emitted
  <1>10. Nested(emitting)
    BY <1>4, <1>7 DEF Nested
  <1> QED
    BY <1>4, <1>5, <1>8, <1>9, <1>10, PackNames DEF InitializationInv, InitializationInit

LEMMA EmitImportKeeps == InitializationInv /\ EmitImport => InitializationInv'
  <1> SUFFICES ASSUME InitializationInv, EmitImport PROVE InitializationInv'
    OBVIOUS
  <1> DEFINE E == emitting
             L == Len(emitting)
             q == importsOf[E[L].pkg][E[L].next]
  <1>1. E # <<>> /\ EmissionTypeOK /\ emitted["main"] = 0 /\ Ordered(E) /\ ImportsListed(E) /\ Nested(E)
    BY DEF InitializationInv, EmitImport, Emits
  <1>2. L \in Nat /\ L > 0
    BY <1>1, EmissionFacts, EmptySeq DEF EmissionTypeOK
  <1>3. /\ E[L].pkg \in Packs /\ E[L].next \in Nat /\ E[L].next <= Len(importsOf[E[L].pkg])
        /\ E[L].funcs \in Seq(Function) /\ E[L] \in EmissionOf /\ E[L].next \in 1..Len(importsOf[E[L].pkg]) + 1
    BY <1>1, <1>2, EmissionFacts DEF EmitImport, pack, Last, ImportsListed
  <1>4. q \in Packs /\ q # "main"
    BY <1>1, <1>3, EmissionFacts, PackNames
  <1>5. Emission(q) = [pkg |-> q, next |-> 1, funcs |-> <<>>] /\ Emission(q) \in EmissionOf
    BY <1>4 DEF Emission, EmissionOf
  <1> DEFINE e == [E[L] EXCEPT !.next = @ + 1]
             D == [E EXCEPT ![L] = e]
  <1>6. e \in EmissionOf /\ e.pkg = E[L].pkg /\ e.funcs = E[L].funcs /\ e.next = E[L].next + 1
    BY <1>3 DEF EmissionOf
  <1>7. emitting' = Append(D, Emission(q))
    BY <1>2 DEF EmitImport, pack, Last
  <1> HIDE DEF e, q
  <1>8. D \in Seq(EmissionOf) /\ Len(D) = L /\ \A j \in 1..L : D[j] = IF j = L THEN e ELSE E[j]
    BY <1>1, <1>2, <1>6, ExceptSeq DEF EmissionTypeOK
  <1> HIDE DEF D
  <1>9. /\ emitting' \in Seq(EmissionOf) /\ Len(emitting') = L + 1 /\ emitting' # <<>>
        /\ \A j \in 1..L - 1 : emitting'[j] = E[j]
        /\ emitting'[L] = e /\ emitting'[L + 1] = Emission(q)
    BY <1>2, <1>5, <1>7, <1>8, AppendProperties
  <1>10. UNCHANGED <<importsOf, inits, variables, emitted, calls>>
    BY DEF EmitImport, Emits
  <1>11. EmissionTypeOK'
    BY <1>1, <1>9, <1>10 DEF EmissionTypeOK
  <1>12. \A j \in 1..L : emitting'[j].funcs = E[j].funcs /\ emitting'[j].pkg = E[j].pkg
    BY <1>2, <1>6, <1>9
  <1> DEFINE F == emitting'
  <1>13. ASSUME NEW k \in 0..L PROVE Listed(F, k) = Listed(E, k)
    BY <1>12, <1>2, SameLists
  <1>14. F[L + 1].funcs = <<>> /\ F[L + 1].pkg = q /\ F[L + 1].next = 1
    BY <1>5, <1>9
  <1>15. Listed(F, L + 1) = Listed(E, L)
    <2>1. Listed(F, L + 1) = Listed(F, L) \cup ToSet(F[L + 1].funcs)
      BY <1>2, ListedByOne
    <2>2. ToSet(F[L + 1].funcs) = {}
      BY <1>14 DEF ToSet
    <2> QED
      BY <1>2, <1>13, <2>1, <2>2
  <1>16. (\A p : Wanted(p)' = Wanted(p)) /\ (\A f : Needed(f)' = Needed(f)) /\ (\A f : Exists(f)' = Exists(f))
    BY <1>10 DEF Wanted, Needed, Exists, OwnInits
  <1> HIDE DEF F
  <1>17. ASSUME NEW k \in 1..L + 1, NEW n \in 1..Len(F[k].funcs)
         PROVE  F[k].funcs[n].pkg # "main" /\ Exists(F[k].funcs[n]) /\ Needed(F[k].funcs[n]) \subseteq Preceding(F, k, n)
    <2>1. k \in 1..L
      BY <1>2, <1>14, EmptySeq
    <2>2. F[k].funcs = E[k].funcs
      BY <2>1, <1>12 DEF F
    <2>3. Preceding(F, k, n) = Preceding(E, k, n)
      BY <2>1, <2>2, <1>13 DEF Preceding
    <2> QED
      BY <1>1, <2>1, <2>2, <2>3 DEF Ordered
  <1>18. Ordered(emitting)'
    BY <1>9, <1>16, <1>17 DEF Ordered, F, Preceding, Listed
  <1>19. ASSUME NEW k \in 1..L + 1
         PROVE  /\ F[k].next \in 1..Len(importsOf[F[k].pkg]) + 1
                /\ \A n \in Emitted(F, k) : Wanted(importsOf[F[k].pkg][n]) \subseteq Listed(F, k)
    <2>0. Len(F) = L + 1
      BY <1>9 DEF F
    <2>1. CASE k = L + 1
      <3>1. Len(importsOf[q]) \in Nat
        BY <1>1, <1>4, EmissionFacts
      <3>2. Emitted(F, k) = {}
        BY <2>1, <1>14 DEF Emitted
      <3> QED
        BY <2>1, <1>14, <3>1, <3>2
    <2>2. CASE k = L
      <3>1. F[k].next = E[L].next + 1 /\ F[k].pkg = E[L].pkg
        BY <2>2, <1>9, <1>6 DEF F
      <3>2. Len(importsOf[E[L].pkg]) \in Nat
        BY <1>1, <1>3, EmissionFacts
      <3>3. \A n \in Emitted(F, k) : n \in Emitted(E, L)
        BY <1>2, <1>3, <2>0, <2>2, <3>1 DEF Emitted
      <3>4. \A n \in Emitted(E, L) : Wanted(importsOf[E[L].pkg][n]) \subseteq Listed(E, L)
        BY <1>1, <1>2 DEF ImportsListed
      <3>5. Listed(F, k) = Listed(E, L)
        BY <1>2, <2>2, <1>13
      <3> QED
        BY <1>3, <2>2, <3>1, <3>2, <3>3, <3>4, <3>5
    <2>3. CASE k \in 1..L - 1
      <3>1. F[k] = E[k] /\ k \in 1..L /\ k # L /\ k # L + 1
        BY <2>3, <1>2, <1>9 DEF F
      <3>2. Emitted(F, k) = Emitted(E, k)
        BY <3>1, <2>0 DEF Emitted
      <3>3. Listed(F, k) = Listed(E, k)
        BY <3>1, <1>13
      <3> QED
        BY <1>1, <3>1, <3>2, <3>3 DEF ImportsListed
    <2> QED
      BY <1>2, <2>1, <2>2, <2>3
  <1>20. ImportsListed(emitting)'
    BY <1>9, <1>10, <1>16, <1>19 DEF ImportsListed, F, Emitted, Listed
  <1>21. ASSUME NEW k \in 1..L + 1
         PROVE  IF k = 1 THEN F[k].pkg = "main"
                ELSE /\ F[k].pkg # "main" /\ F[k - 1].next > 1
                     /\ F[k].pkg = importsOf[F[k - 1].pkg][F[k - 1].next - 1]
    <2>1. CASE k = L + 1
      <3>1. F[L].next = E[L].next + 1 /\ F[L].pkg = E[L].pkg /\ E[L].next > 0
        BY <1>3, <1>9, <1>6 DEF F
      <3>2. k - 1 = L /\ k # 1 /\ F[L].next - 1 = E[L].next
        BY <2>1, <1>2, <1>3, <3>1
      <3> QED
        BY <2>1, <1>4, <1>14, <3>1, <3>2, <1>3 DEF q
    <2>2. CASE k \in 1..L
      <3>1. F[k].pkg = E[k].pkg
        BY <2>2, <1>12 DEF F
      <3>2. k # 1 => F[k - 1] = E[k - 1]
        BY <2>2, <1>2, <1>9 DEF F
      <3> QED
        BY <1>1, <2>2, <3>1, <3>2 DEF Nested
    <2> QED
      BY <1>2, <2>1, <2>2
  <1>22. Nested(emitting)'
    BY <1>9, <1>10, <1>21 DEF Nested, F
  <1>23. \A p \in Packs : emitted'[p] > 0 => Wanted(p)' \subseteq Listed(emitting, Len(emitting))'
    <2>1. Listed(emitting, Len(emitting))' = Listed(F, L + 1)
      BY <1>9 DEF F, Listed
    <2>2. \A p \in Packs : emitted[p] > 0 => Wanted(p) \subseteq Listed(E, L)
      BY <1>1 DEF InitializationInv
    <2> QED
      BY <1>10, <1>15, <1>16, <2>1, <2>2
  <1> QED
    BY <1>1, <1>9, <1>10, <1>11, <1>18, <1>20, <1>22, <1>23 DEF InitializationInv, F

LEMMA ConcatElements ==
    ASSUME NEW f \in Seq(Function), NEW g \in Seq(Function), NEW h, h = f \o g
    PROVE  /\ h \in Seq(Function) /\ Len(h) = Len(f) + Len(g)
           /\ \A k \in 1..Len(f) : k \in 1..Len(h) /\ h[k] = f[k]
           /\ \A k \in 1..Len(g) : Len(f) + k \in 1..Len(h) /\ h[Len(f) + k] = g[k]
           /\ ToSet(h) = ToSet(f) \cup ToSet(g)
  <1>1. h \in Seq(Function) /\ Len(h) = Len(f) + Len(g)
        /\ \A i \in 1..Len(f) + Len(g) : h[i] = IF i <= Len(f) THEN f[i] ELSE g[i - Len(f)]
    BY ConcatProperties
  <1>2. Len(f) \in Nat /\ Len(g) \in Nat /\ DOMAIN f = 1..Len(f) /\ DOMAIN g = 1..Len(g)
        /\ DOMAIN h = 1..Len(h)
    BY <1>1, LenProperties
  <1>3. ASSUME NEW k \in 1..Len(f) PROVE k \in 1..Len(h) /\ h[k] = f[k]
    BY <1>1, <1>2
  <1>4. ASSUME NEW k \in 1..Len(g) PROVE Len(f) + k \in 1..Len(h) /\ h[Len(f) + k] = g[k]
    <2>1. Len(f) + k \in 1..Len(f) + Len(g) /\ ~(Len(f) + k <= Len(f)) /\ (Len(f) + k) - Len(f) = k
      BY <1>2
    <2> QED
      BY <1>1, <2>1
  <1>5. ASSUME NEW i \in 1..Len(h) PROVE h[i] \in ToSet(f) \cup ToSet(g)
    <2>1. CASE i <= Len(f)
      BY <1>1, <1>2, <2>1 DEF ToSet
    <2>2. CASE ~(i <= Len(f))
      <3>1. i - Len(f) \in 1..Len(g)
        BY <1>1, <1>2, <2>2
      <3> QED
        BY <1>1, <1>2, <2>2, <3>1 DEF ToSet
    <2> QED
      BY <2>1, <2>2
  <1>6. ToSet(h) = ToSet(f) \cup ToSet(g)
    <2>1. ToSet(f) = {f[k] : k \in 1..Len(f)} /\ ToSet(g) = {g[k] : k \in 1..Len(g)} /\ ToSet(h) = {h[k] : k \in 1..Len(h)}
      BY <1>2 DEF ToSet
    <2>2. \A k \in 1..Len(f) : f[k] \in ToSet(h)
      BY <1>3, <2>1
    <2>3. \A k \in 1..Len(g) : g[k] \in ToSet(h)
      BY <1>4, <2>1
    <2>4. ToSet(h) \subseteq ToSet(f) \cup ToSet(g)
      BY <1>5, <2>1
    <2>5. ToSet(f) \subseteq ToSet(h)
      BY <2>1, <2>2
    <2>6. ToSet(g) \subseteq ToSet(h)
      BY <2>1, <2>3
    <2> QED
      BY <2>4, <2>5, <2>6
  <1> QED
    BY <1>1, <1>3, <1>4, <1>6

\* Adding the functions of a package to those of its importer.
LEMMA AddInitsProperties ==
    ASSUME NEW f \in Seq(Function), NEW g \in Seq(Function)
    PROVE  /\ AddInits(f, g) \in Seq(Function)
           /\ \/ AddInits(f, g) = f /\ ToSet(g) \subseteq ToSet(f)
              \/ AddInits(f, g) = f \o g
           /\ ToSet(AddInits(f, g)) = ToSet(f) \cup ToSet(g)
  <1>1. f \o g \in Seq(Function) /\ ToSet(f \o g) = ToSet(f) \cup ToSet(g)
    BY ConcatElements
  <1> QED
    BY <1>1 DEF AddInits

\* The functions of a package that has been emitted come after those they need.
LEMMA OwnAreOrdered ==
    ASSUME InitializationInv, emitting # <<>>, pack.next > Len(importsOf[pack.pkg])
    PROVE  /\ pack = emitting[Len(emitting)] /\ Len(emitting) \in Nat \ {0} /\ pack.pkg \in Packs
           /\ \A q \in ToSet(importsOf[pack.pkg]) : Wanted(q) \subseteq Listed(emitting, Len(emitting))
           /\ \A n \in 1..inits[pack.pkg] :
                LET f == InitFunc(pack.pkg, n)
                IN  /\ Exists(f)
                    /\ Needed(f) \subseteq Listed(emitting, Len(emitting)) \cup {InitFunc(pack.pkg, m) : m \in 1..n - 1}
           /\ \A n \in Nat : variables[pack.pkg] =>
                /\ Exists(InitVars(pack.pkg, n))
                /\ Needed(InitVars(pack.pkg, n)) \subseteq Listed(emitting, Len(emitting))
           /\ Wanted(pack.pkg) \subseteq Listed(emitting, Len(emitting)) \cup ToSet(OwnInits(pack.pkg)) \cup ToSet(OwnVars(pack.pkg))
  <1> DEFINE E == emitting
             L == Len(emitting)
             p == pack.pkg
  <1>1. EmissionTypeOK /\ ImportsListed(E)
    BY DEF InitializationInv
  <1>2. L \in Nat /\ L > 0
    BY <1>1, EmissionFacts, EmptySeq DEF EmissionTypeOK
  <1>3. pack = E[L]
    BY DEF pack, Last
  <1>4. p \in Packs
    BY <1>1, <1>2, <1>3, EmissionFacts
  <1>5. Len(importsOf[p]) \in Nat /\ importsOf[p] \in Seq(ToSet(Imported)) /\ inits[p] \in Nat
    BY <1>1, <1>4, EmissionFacts
  <1>6. Emitted(E, L) = 1..Len(importsOf[p])
    <2>1. E[L].next \in 1..Len(importsOf[p]) + 1
      BY <1>1, <1>2, <1>3 DEF ImportsListed
    <2>2. E[L].next - 1 = Len(importsOf[p])
      BY <1>3, <1>5, <2>1
    <2> QED
      BY <2>2 DEF Emitted
  <1>7. ASSUME NEW q \in ToSet(importsOf[p]) PROVE Wanted(q) \subseteq Listed(E, L)
    <2>1. PICK n \in 1..Len(importsOf[p]) : importsOf[p][n] = q
      BY <1>5, LenProperties DEF ToSet
    <2> QED
      BY <1>1, <1>2, <1>3, <1>6, <2>1 DEF ImportsListed
  <1> HIDE DEF p
  <1>8. ASSUME NEW n \in 1..inits[p]
        PROVE  /\ Exists(InitFunc(p, n))
               /\ Needed(InitFunc(p, n)) \subseteq Listed(E, L) \cup {InitFunc(p, m) : m \in 1..n - 1}
    <2>1. InitFunc(p, n).pkg = p /\ InitFunc(p, n).func = "init" /\ InitFunc(p, n).nth = n
      BY DEF InitFunc
    <2> QED
      BY <1>7, <2>1 DEF Exists, Needed
  <1>9. ASSUME NEW n \in Nat, variables[p]
        PROVE  /\ Exists(InitVars(p, n))
               /\ Needed(InitVars(p, n)) \subseteq Listed(E, L)
    <2>1. InitVars(p, n).pkg = p /\ InitVars(p, n).func = "$initvars" /\ InitVars(p, n).func # "init"
      BY DEF InitVars
    <2> QED
      BY <1>7, <1>9, <2>1 DEF Exists, Needed
  <1>10. Wanted(p) \subseteq Listed(E, L) \cup ToSet(OwnInits(p)) \cup ToSet(OwnVars(p))
    <2>1. CASE emitted[p] > 0
      BY <1>4, <2>1 DEF InitializationInv
    <2>2. CASE ~(emitted[p] > 0)
      <3>1. emitted[p] = 0
        BY <1>1, <1>4, <2>2, EmissionFacts
      <3>2. ToSet(OwnVars(p)) = IF variables[p] THEN {InitVars(p, 0)} ELSE {}
        BY <1>1, <1>4, <3>1, OwnFunctions
      <3> QED
        BY <3>2 DEF Wanted
    <2> QED
      BY <2>1, <2>2
  <1> QED
    BY <1>2, <1>3, <1>4, <1>7, <1>8, <1>9, <1>10 DEF p

LEMMA Renames ==
    ASSUME UNCHANGED <<importsOf, inits, variables>>
    PROVE  /\ \A p : Wanted(p)' = Wanted(p)
           /\ \A f : Needed(f)' = Needed(f)
           /\ \A f : Exists(f)' = Exists(f)
  BY DEF Wanted, Needed, Exists, OwnInits

\* A list with the functions of a package at its end, and where they are.
Former(s, n) == {s[j] : j \in 1..n - 1}
FormerInits(p, n) == {InitFunc(p, j) : j \in 1..n - 1}

Origin(p, g, funcs, n) ==
  \/ /\ n \in 1..Len(g) /\ funcs[n] = g[n]
     /\ Former(funcs, n) = Former(g, n)
  \/ \E m \in 1..inits[p] :
       /\ funcs[n] = InitFunc(p, m)
       /\ ToSet(g) \cup FormerInits(p, m) \subseteq Former(funcs, n)
  \/ /\ variables[p] /\ funcs[n] = InitVars(p, emitted[p])
     /\ ToSet(g) \cup ToSet(OwnInits(p)) \subseteq Former(funcs, n)

LEMMA FunctionsOf ==
    ASSUME EmissionTypeOK, NEW p \in Packs, NEW g \in Seq(Function),
           NEW funcs, funcs = g \o OwnInits(p) \o OwnVars(p), NEW n \in 1..Len(funcs)
    PROVE  Origin(p, g, funcs, n)
  <1> DEFINE I == OwnInits(p)
             V == OwnVars(p)
             h == g \o I
             before == {funcs[j] : j \in 1..n - 1}
  <1>1. /\ I \in Seq(Function) /\ Len(I) = inits[p] /\ \A k \in 1..inits[p] : I[k] = InitFunc(p, k)
        /\ V \in Seq(Function) /\ Len(V) = (IF variables[p] THEN 1 ELSE 0)
        /\ variables[p] => V[1] = InitVars(p, emitted[p])
        /\ ToSet(I) = {InitFunc(p, k) : k \in 1..inits[p]}
    BY OwnFunctions
  <1>2. inits[p] \in Nat /\ Len(g) \in Nat /\ DOMAIN g = 1..Len(g)
    BY EmissionFacts, LenProperties
  <1>0. funcs = h \o V /\ h = g \o I
    OBVIOUS
  <1> HIDE DEF I, V, h
  <1>3. /\ h \in Seq(Function) /\ Len(h) = Len(g) + inits[p]
        /\ \A k \in 1..Len(g) : h[k] = g[k]
        /\ \A k \in 1..inits[p] : h[Len(g) + k] = InitFunc(p, k)
    <2>1. /\ h \in Seq(Function) /\ Len(h) = Len(g) + Len(I)
          /\ \A k \in 1..Len(g) : h[k] = g[k]
          /\ \A k \in 1..Len(I) : h[Len(g) + k] = I[k]
      <3>1. h = g \o I /\ I \in Seq(Function)
        BY <1>0, <1>1
      <3> QED
        BY <3>1, ConcatElements
    <2> QED
      BY <1>1, <2>1
  <1>4. /\ Len(funcs) = Len(h) + Len(V)
        /\ \A k \in 1..Len(h) : funcs[k] = h[k]
        /\ variables[p] => funcs[Len(h) + 1] = InitVars(p, emitted[p])
    <2>1. /\ Len(funcs) = Len(h) + Len(V)
          /\ \A k \in 1..Len(h) : funcs[k] = h[k]
          /\ \A k \in 1..Len(V) : funcs[Len(h) + k] = V[k]
      <3>1. funcs = h \o V /\ h \in Seq(Function) /\ V \in Seq(Function)
        BY <1>0, <1>1, <1>3
      <3> QED
        BY <3>1, ConcatElements
    <2>2. variables[p] => 1 \in 1..Len(V)
      BY <1>1
    <2> QED
      BY <1>1, <2>1, <2>2
  <1>5. n \in 1..Len(funcs)
    OBVIOUS
  <1>6. \A k \in 1..Len(g) : k \in 1..Len(h) /\ funcs[k] = g[k]
    <2> TAKE k \in 1..Len(g)
    <2>1. k \in 1..Len(h)
      BY <1>2, <1>3
    <2> QED
      BY <1>3, <1>4, <2>1
  <1>7. \A k \in 1..inits[p] : Len(g) + k \in 1..Len(h) /\ funcs[Len(g) + k] = InitFunc(p, k)
    <2> TAKE k \in 1..inits[p]
    <2>1. Len(g) + k \in 1..Len(h)
      BY <1>2, <1>3
    <2> QED
      BY <1>3, <1>4, <2>1
  <1>8. CASE n \in 1..Len(g)
    <2>1. \A j \in 1..n - 1 : j \in 1..Len(g)
      BY <1>2, <1>8
    <2>2. before = {g[j] : j \in 1..n - 1}
      BY <1>6, <2>1
    <2> QED
      BY <1>6, <1>8, <2>2 DEF I, Former, FormerInits, Origin
  <1>9. CASE n > Len(g) /\ n <= Len(h)
    <2> DEFINE m == n - Len(g)
    <2>1. m \in 1..inits[p] /\ n = Len(g) + m
      BY <1>2, <1>3, <1>5, <1>9
    <2>2. \A k \in 1..Len(g) : k \in 1..n - 1
      BY <1>2, <1>9, <1>5
    <2>3. \A j \in 1..m - 1 : j \in 1..inits[p] /\ Len(g) + j \in 1..n - 1
      BY <1>2, <2>1
    <2>4. funcs[n] = InitFunc(p, m)
      BY <1>7, <2>1
    <2> HIDE DEF m
    <2>5. ToSet(g) \subseteq before
      BY <1>2, <1>6, <2>2 DEF ToSet
    <2>6. {InitFunc(p, j) : j \in 1..m - 1} \subseteq before
      BY <1>7, <2>3
    <2> QED
      BY <2>1, <2>4, <2>5, <2>6 DEF I, Former, FormerInits, Origin
  <1>10. CASE n > Len(h)
    <2>1. variables[p] /\ n = Len(h) + 1
      BY <1>1, <1>2, <1>3, <1>4, <1>5, <1>10
    <2>2. \A k \in 1..Len(h) : k \in 1..n - 1
      BY <1>2, <1>3, <2>1
    <2>3. funcs[n] = InitVars(p, emitted[p])
      BY <1>4, <2>1
    <2>4. ToSet(g) \subseteq before
      BY <1>2, <1>6, <2>2 DEF ToSet
    <2>5. ToSet(I) \subseteq before
      BY <1>1, <1>7, <2>2
    <2> QED
      BY <2>1, <2>3, <2>4, <2>5 DEF I, Former, FormerInits, Origin
  <1>11. n \in 1..Len(g) \/ (n > Len(g) /\ n <= Len(h)) \/ n > Len(h)
    BY <1>2, <1>3, <1>5
  <1> QED
    BY <1>8, <1>9, <1>10, <1>11

LEMMA PackageEmittedKeeps == InitializationInv /\ PackageEmitted => InitializationInv'
  <1> SUFFICES ASSUME InitializationInv, PackageEmitted PROVE InitializationInv'
    OBVIOUS
  <1> DEFINE E == emitting
             L == Len(emitting)
             n == L - 1
             p == pack.pkg
             g == E[L].funcs
             f == E[n].funcs
             funcs == g \o OwnInits(p) \o OwnVars(p)
             G == AddInits(f, funcs)
  <1>1. E # <<>> /\ EmissionTypeOK /\ emitted["main"] = 0 /\ Ordered(E) /\ ImportsListed(E) /\ Nested(E)
    BY DEF InitializationInv, PackageEmitted, Emits
  <1>2. L \in Nat /\ L > 0 /\ pack = E[L] /\ p # "main" /\ pack.next > Len(importsOf[p])
    BY <1>1, EmissionFacts, EmptySeq DEF EmissionTypeOK, PackageEmitted, pack, Last
  <1>3. L # 1 /\ n \in 1..L - 1 /\ n \in Nat /\ n > 0 /\ n + 1 = L
    BY <1>1, <1>2 DEF Nested
  <1>28. n = L - 1
    OBVIOUS
  <1> HIDE DEF n
  <1>4. /\ E[n] \in EmissionOf /\ E[L] \in EmissionOf /\ g \in Seq(Function) /\ f \in Seq(Function) /\ p \in Packs
        /\ Len(f) \in Nat /\ Len(g) \in Nat
    BY <1>1, <1>2, <1>3, EmissionFacts
  <1>5. /\ OwnInits(p) \in Seq(Function) /\ OwnVars(p) \in Seq(Function)
        /\ funcs \in Seq(Function) /\ ToSet(funcs) = ToSet(g) \cup ToSet(OwnInits(p)) \cup ToSet(OwnVars(p))
    <2>1. OwnInits(p) \in Seq(Function) /\ OwnVars(p) \in Seq(Function)
      BY <1>1, <1>4, OwnFunctions
    <2> DEFINE h == g \o OwnInits(p)
    <2>2. h = g \o OwnInits(p) /\ funcs = h \o OwnVars(p)
      OBVIOUS
    <2> HIDE DEF h, funcs, p, g
    <2>3. h \in Seq(Function) /\ ToSet(h) = ToSet(g) \cup ToSet(OwnInits(p))
      BY <1>4, <2>1, <2>2, ConcatElements
    <2>4. funcs \in Seq(Function) /\ ToSet(funcs) = ToSet(h) \cup ToSet(OwnVars(p))
      BY <2>1, <2>2, <2>3, ConcatElements
    <2> QED
      BY <2>1, <2>3, <2>4
  <1> HIDE DEF g, p
  <1>6. /\ G \in Seq(Function) /\ ToSet(G) = ToSet(f) \cup ToSet(funcs)
        /\ (G = f /\ ToSet(funcs) \subseteq ToSet(f)) \/ G = f \o funcs
    <2> HIDE DEF f, funcs
    <2> QED
      BY <1>4, <1>5, AddInitsProperties
  <1> DEFINE e == [E[n] EXCEPT !.funcs = G]
             D == Front(E)
  <1>7. D \in Seq(EmissionOf) /\ Len(D) = n /\ \A k \in 1..n : D[k] = E[k]
    <2>1. \A k \in 1..n : E[k] \in EmissionOf
      BY <1>1, <1>3, EmissionFacts
    <2> QED
      BY <1>3, <2>1, SubSeqProperties DEF Front
  <1>8. e \in EmissionOf /\ e.pkg = E[n].pkg /\ e.next = E[n].next /\ e.funcs = G
    BY <1>4, <1>6 DEF EmissionOf
  <1>9. emitting' = [D EXCEPT ![n] = e]
    <2>1. emitting' = [D EXCEPT ![n].funcs = AddInits(@, funcs)]
      BY <1>2, <1>28 DEF PackageEmitted, p, g
    <2>2. n \in 1..n
      BY <1>3
    <2>3. D[n] = E[n]
      BY <1>7, <2>2
    <2> HIDE DEF D, n, funcs
    <2> QED
      BY <2>1, <2>3
  <1>27. funcs = g \o OwnInits(p) \o OwnVars(p)
    OBVIOUS
  <1> HIDE DEF D, e, G, funcs
  <1>10. /\ emitting' \in Seq(EmissionOf) /\ Len(emitting') = n /\ emitting' # <<>>
         /\ \A k \in 1..n - 1 : emitting'[k] = E[k]
         /\ emitting'[n] = e
    <2>1. n \in 1..Len(D)
      BY <1>3, <1>7
    <2>2. emitting' \in Seq(EmissionOf) /\ Len(emitting') = n
          /\ \A k \in 1..n : emitting'[k] = IF k = n THEN e ELSE D[k]
      BY <1>7, <1>8, <1>9, <2>1, ExceptSeq
    <2>3. \A k \in 1..n - 1 : k \in 1..n /\ k # n
      BY <1>3
    <2>4. emitting' # <<>>
      BY <1>3, <2>2, EmptySeq
    <2> QED
      BY <1>3, <1>7, <2>2, <2>3, <2>4
  <1>11. UNCHANGED <<importsOf, inits, variables, calls>> /\ emitted' = [emitted EXCEPT ![p] = @ + 1]
    BY DEF PackageEmitted, Emits, p
  <1>12. EmissionTypeOK' /\ \A q \in Packs : emitted'[q] = IF q = p THEN emitted[q] + 1 ELSE emitted[q]
    <2>1. emitted \in [Packs -> Nat]
      BY <1>1 DEF EmissionTypeOK
    <2>2. emitted' \in [Packs -> Nat] /\ \A q \in Packs : emitted'[q] = IF q = p THEN emitted[q] + 1 ELSE emitted[q]
      BY <1>4, <1>11, <2>1
    <2> QED
      BY <1>1, <1>10, <1>11, <2>2 DEF EmissionTypeOK
  <1>13. (\A q : Wanted(q)' = Wanted(q)) /\ (\A x : Needed(x)' = Needed(x)) /\ (\A x : Exists(x)' = Exists(x))
    BY <1>11, Renames
  <1> DEFINE F == emitting'
             own == ToSet(OwnInits(p)) \cup ToSet(OwnVars(p))
  <1>14. ASSUME NEW k \in 0..n - 1 PROVE Listed(F, k) = Listed(E, k)
    <2>1. \A j \in 1..k : F[j].funcs = E[j].funcs
      BY <1>3, <1>10
    <2> QED
      BY <2>1, SameLists
  <1>15. Listed(E, L) = Listed(E, n) \cup ToSet(g) /\ Listed(E, n) = Listed(E, n - 1) \cup ToSet(f)
    BY <1>2, <1>3, <1>28, ListedByOne DEF g
  <1>16. Listed(F, n) = Listed(E, L) \cup own
    <2>1. Listed(F, n) = Listed(F, n - 1) \cup ToSet(F[n].funcs)
      BY <1>3, ListedByOne
    <2>2. Listed(F, n - 1) = Listed(E, n - 1)
      BY <1>3, <1>14
    <2> QED
      BY <1>5, <1>6, <1>8, <1>10, <1>15, <2>1, <2>2
  <1>17. /\ \A q \in ToSet(importsOf[p]) : Wanted(q) \subseteq Listed(E, L)
         /\ \A m \in 1..inits[p] :
              /\ Exists(InitFunc(p, m)) /\ InitFunc(p, m).pkg = p
              /\ Needed(InitFunc(p, m)) \subseteq Listed(E, L) \cup FormerInits(p, m)
         /\ \A m \in Nat : variables[p] =>
              /\ Exists(InitVars(p, m)) /\ InitVars(p, m).pkg = p
              /\ Needed(InitVars(p, m)) \subseteq Listed(E, L)
         /\ Wanted(p) \subseteq Listed(E, L) \cup own
    BY <1>1, <1>2, OwnAreOrdered DEF p, InitFunc, InitVars, FormerInits
  <1>18. /\ emitted[p] \in Nat
         /\ \A k \in 1..L : Len(E[k].funcs) \in Nat
    BY <1>1, <1>4, EmissionFacts
  <1> HIDE DEF F, own
  <1>19. ASSUME NEW k \in 1..n, NEW x \in 1..Len(F[k].funcs)
         PROVE  F[k].funcs[x].pkg # "main" /\ Exists(F[k].funcs[x]) /\ Needed(F[k].funcs[x]) \subseteq Preceding(F, k, x)
    <2>1. CASE k \in 1..n - 1
      <3>1. F[k] = E[k] /\ k \in 1..L /\ k - 1 \in 0..n - 1
        BY <1>3, <1>10, <2>1 DEF F
      <3>2. Preceding(F, k, x) = Preceding(E, k, x)
        BY <1>14, <3>1 DEF Preceding
      <3> QED
        BY <1>1, <3>1, <3>2 DEF Ordered
    <2>2. CASE k = n /\ x \in 1..Len(f)
      <3>1. F[k].funcs = G
        BY <1>8, <1>10, <2>2 DEF F
      <3>2. \A j \in 1..Len(f) : G[j] = f[j]
        <4> HIDE DEF f
        <4> QED
          BY <1>4, <1>5, <1>6, ConcatElements
      <3>3. \A j \in 1..x - 1 : j \in 1..Len(f)
        BY <1>4, <2>2
      <3>4. Listed(F, k - 1) = Listed(E, k - 1)
        BY <1>3, <1>14, <2>2
      <3>5. Preceding(F, k, x) = Preceding(E, k, x)
        BY <2>2, <3>1, <3>2, <3>3, <3>4 DEF Preceding
      <3>6. F[k].funcs[x] = E[k].funcs[x] /\ k \in 1..L
        BY <1>3, <2>2, <3>1, <3>2
      <3> QED
        BY <1>1, <2>2, <3>5, <3>6 DEF Ordered
    <2>3. CASE k = n /\ x \notin 1..Len(f)
      <3>1. F[k].funcs = G
        BY <1>8, <1>10, <2>3 DEF F
      <3>2. /\ Len(G) = Len(f) + Len(funcs)
            /\ \A j \in 1..Len(f) : G[j] = f[j]
            /\ \A j \in 1..Len(funcs) : G[Len(f) + j] = funcs[j]
        <4>1. G = f \o funcs /\ f \in Seq(Function) /\ funcs \in Seq(Function)
          BY <1>4, <1>5, <1>6, <2>3, <3>1
        <4> HIDE DEF f, funcs, G
        <4> QED
          BY <4>1, ConcatElements
      <3>3. Len(funcs) \in Nat
        BY <1>5, LenProperties
      <3> DEFINE y == x - Len(f)
      <3>4. y \in 1..Len(funcs) /\ x = Len(f) + y
        BY <1>4, <2>3, <3>1, <3>2, <3>3
      <3>5. G[x] = funcs[y]
        BY <1>4, <3>1, <3>2, <3>3, <3>4
      <3>6. ToSet(f) \subseteq {G[j] : j \in 1..x - 1}
        <4>1. \A j \in 1..Len(f) : j \in 1..x - 1 /\ G[j] = f[j]
          BY <1>4, <3>2, <3>3, <3>4
        <4>2. DOMAIN f = 1..Len(f)
          BY <1>4, LenProperties
        <4> QED
          BY <4>1, <4>2 DEF ToSet
      <3>7. {funcs[j] : j \in 1..y - 1} \subseteq {G[j] : j \in 1..x - 1}
        <4>1. ASSUME NEW j \in 1..y - 1 PROVE Len(f) + j \in 1..x - 1 /\ G[Len(f) + j] = funcs[j]
          <5>1. Len(f) + j \in 1..x - 1 /\ j \in 1..Len(funcs)
            BY <1>4, <3>3, <3>4
          <5> QED
            BY <3>2, <5>1
        <4> QED
          BY <4>1
      <3>8. Listed(E, n) \cup Former(funcs, y) \subseteq Preceding(F, k, x)
        <4>1. Listed(F, k - 1) = Listed(E, n - 1)
          BY <1>3, <1>14, <2>3
        <4> QED
          BY <1>15, <2>3, <3>1, <3>6, <3>7, <4>1 DEF Preceding, Former
      <3> HIDE DEF y
      <3>9. Origin(p, g, funcs, y)
        <4>1. EmissionTypeOK /\ p \in Packs /\ g \in Seq(Function) /\ y \in 1..Len(funcs)
          BY <1>1, <1>4, <3>4
        <4> QED
          BY <1>27, <4>1, FunctionsOf
      <3>10. F[k].funcs[x] = funcs[y]
        BY <3>1, <3>5
      <3>11. CASE y \in 1..Len(g) /\ funcs[y] = g[y] /\ Former(funcs, y) = Former(g, y)
        <4>1. L \in 1..L /\ y \in 1..Len(E[L].funcs)
          BY <1>2, <3>11 DEF g
        <4>2. g[y].pkg # "main" /\ Exists(g[y]) /\ Needed(g[y]) \subseteq Preceding(E, L, y)
          BY <1>1, <4>1 DEF Ordered, g
        <4>3. Preceding(E, L, y) = Listed(E, n) \cup Former(g, y)
          BY <1>28 DEF Preceding, Former, g
        <4> QED
          BY <3>8, <3>10, <3>11, <4>2, <4>3
      <3>12. ASSUME NEW m \in 1..inits[p], funcs[y] = InitFunc(p, m),
                    ToSet(g) \cup FormerInits(p, m) \subseteq Former(funcs, y)
             PROVE  F[k].funcs[x].pkg # "main" /\ Exists(F[k].funcs[x]) /\ Needed(F[k].funcs[x]) \subseteq Preceding(F, k, x)
        BY <1>2, <1>15, <1>17, <3>8, <3>10, <3>12 DEF p
      <3>13. CASE variables[p] /\ funcs[y] = InitVars(p, emitted[p])
                  /\ ToSet(g) \cup ToSet(OwnInits(p)) \subseteq Former(funcs, y)
        BY <1>2, <1>15, <1>17, <1>18, <3>8, <3>10, <3>13 DEF p
      <3> QED
        BY <3>9, <3>11, <3>12, <3>13 DEF Origin
    <2>4. k \in 1..n - 1 \/ k = n
      BY <1>2, <1>3
    <2> QED
      BY <2>1, <2>2, <2>3, <2>4
  <1>20. Ordered(emitting)'
    BY <1>10, <1>13, <1>19 DEF Ordered, F, Preceding, Listed
  <1>21. ASSUME NEW k \in 1..n
         PROVE  /\ F[k].next \in 1..Len(importsOf[F[k].pkg]) + 1
                /\ \A m \in Emitted(F, k) : Wanted(importsOf[F[k].pkg][m]) \subseteq Listed(F, k)
    <2>0. Len(F) = n /\ k \in 1..L /\ n \in 1..L
      BY <1>3, <1>10 DEF F
    <2>1. CASE k \in 1..n - 1
      <3>1. F[k] = E[k] /\ k # n /\ k # L
        BY <1>2, <1>3, <1>10, <2>1 DEF F
      <3>2. Emitted(F, k) = Emitted(E, k)
        BY <3>1, <2>0 DEF Emitted
      <3>3. Listed(F, k) = Listed(E, k)
        BY <1>3, <1>14, <2>1
      <3> QED
        BY <1>1, <2>0, <3>1, <3>2, <3>3 DEF ImportsListed
    <2>2. CASE k = n
      <3>1. F[k].pkg = E[n].pkg /\ F[k].next = E[n].next
        BY <1>8, <1>10, <2>2 DEF F
      <3>2. E[n].next \in 1..Len(importsOf[E[n].pkg]) + 1 /\ E[n].next \in Nat
        BY <1>1, <1>4, <2>0 DEF ImportsListed, EmissionOf
      <3>3. p = importsOf[E[n].pkg][E[n].next - 1]
        BY <1>1, <1>2, <1>3 DEF Nested, p
      <3>4. ASSUME NEW m \in Emitted(F, k) PROVE Wanted(importsOf[E[n].pkg][m]) \subseteq Listed(F, n)
        <4>1. m \in 1..E[n].next - 1
          BY <3>1 DEF Emitted
        <4>2. CASE m = E[n].next - 1
          BY <1>16, <1>17, <3>3, <4>2
        <4>3. CASE m < E[n].next - 1
          <5>1. m \in Emitted(E, n)
            BY <4>1, <4>3 DEF Emitted
          <5>2. Wanted(importsOf[E[n].pkg][m]) \subseteq Listed(E, n)
            BY <1>1, <2>0, <5>1 DEF ImportsListed
          <5> QED
            BY <1>15, <1>16, <5>2
        <4>4. m = E[n].next - 1 \/ m < E[n].next - 1
          BY <3>2, <4>1
        <4> QED
          BY <4>2, <4>3, <4>4
      <3> QED
        BY <2>2, <3>1, <3>2, <3>4
    <2> QED
      BY <1>2, <1>3, <2>1, <2>2
  <1>22. ImportsListed(emitting)'
    BY <1>10, <1>11, <1>13, <1>21 DEF ImportsListed, F, Emitted, Listed
  <1>23. ASSUME NEW k \in 1..n
         PROVE  IF k = 1 THEN F[k].pkg = "main"
                ELSE /\ F[k].pkg # "main" /\ F[k - 1].next > 1
                     /\ F[k].pkg = importsOf[F[k - 1].pkg][F[k - 1].next - 1]
    <2>1. \A j \in 1..n : F[j].pkg = E[j].pkg /\ F[j].next = E[j].next
      BY <1>3, <1>8, <1>10 DEF F
    <2>2. k \in 1..L /\ (k # 1 => k - 1 \in 1..n)
      BY <1>3
    <2> QED
      BY <1>1, <2>1, <2>2 DEF Nested
  <1>24. Nested(emitting)'
    BY <1>10, <1>11, <1>23 DEF Nested, F
  <1>25. \A q \in Packs : emitted'[q] > 0 => Wanted(q)' \subseteq Listed(emitting, Len(emitting))'
    <2>1. Listed(emitting, Len(emitting))' = Listed(F, n)
      BY <1>10 DEF F, Listed
    <2>2. \A q \in Packs : emitted[q] > 0 => Wanted(q) \subseteq Listed(E, L)
      BY <1>1 DEF InitializationInv
    <2> QED
      BY <1>12, <1>13, <1>16, <1>17, <2>1, <2>2
  <1>26. emitted'["main"] = 0
    BY <1>1, <1>2, <1>12, PackNames DEF p
  <1> QED
    BY <1>10, <1>12, <1>20, <1>22, <1>24, <1>25, <1>26 DEF InitializationInv

LEMMA MainEmittedKeeps == InitializationInv /\ MainEmitted => InitializationInv'
  <1> SUFFICES ASSUME InitializationInv, MainEmitted PROVE InitializationInv'
    OBVIOUS
  <1> DEFINE E == emitting
             L == Len(emitting)
             V == OwnVars("main")
             I == OwnInits("main")
             g == E[L].funcs
             v == Len(V)
  <1>1. E # <<>> /\ EmissionTypeOK /\ emitted["main"] = 0 /\ Ordered(E) /\ Nested(E)
    BY DEF InitializationInv, MainEmitted, Emits
  <1>2. /\ L \in Nat /\ L > 0 /\ pack = E[L] /\ pack.pkg = "main" /\ pack.next > Len(importsOf[pack.pkg])
        /\ "main" \in Packs
    BY <1>1, EmissionFacts, EmptySeq, PackNames DEF EmissionTypeOK, MainEmitted, pack, Last
  <1>3. L = 1
    <2>1. L \in 1..L /\ E[L].pkg = "main"
      BY <1>2
    <2> QED
      BY <1>1, <2>1 DEF Nested
  <1>4. /\ g \in Seq(Function) /\ Len(g) \in Nat /\ inits["main"] \in Nat
        /\ DOMAIN g = 1..Len(g)
    BY <1>1, <1>2, EmissionFacts
  <1>5. /\ I \in Seq(Function) /\ Len(I) = inits["main"] /\ \A n \in 1..inits["main"] : I[n] = InitFunc("main", n)
        /\ V \in Seq(Function) /\ v = (IF variables["main"] THEN 1 ELSE 0)
        /\ variables["main"] => V[1] = InitVars("main", 0)
        /\ ToSet(V) = IF variables["main"] THEN {InitVars("main", 0)} ELSE {}
        /\ ToSet(I) = {InitFunc("main", n) : n \in 1..inits["main"]}
    BY <1>1, <1>2, OwnFunctions
  <1>6. calls' = V \o g \o I
    BY <1>2 DEF MainEmitted
  <1>7. /\ \A q \in ToSet(importsOf["main"]) : Wanted(q) \subseteq Listed(E, L)
        /\ \A n \in 1..inits["main"] :
             /\ Exists(InitFunc("main", n))
             /\ Needed(InitFunc("main", n)) \subseteq Listed(E, L) \cup {InitFunc("main", m) : m \in 1..n - 1}
        /\ variables["main"] => Exists(InitVars("main", 0))
    BY <1>1, <1>2, OwnAreOrdered
  <1>8. Listed(E, 0) = {} /\ Listed(E, L) = ToSet(g)
    <2>1. Listed(E, 0) = {}
      BY DEF Listed
    <2>2. Listed(E, 1) = Listed(E, 1 - 1) \cup ToSet(E[1].funcs)
      BY ListedByOne
    <2>3. 1 - 1 = 0
      OBVIOUS
    <2> QED
      BY <1>3, <2>1, <2>2, <2>3
  <1> HIDE DEF I, V, g
  <1> DEFINE h == V \o g
  <1>20. h = V \o g
    OBVIOUS
  <1> HIDE DEF h
  <1>9. /\ h \in Seq(Function) /\ Len(h) = v + Len(g)
        /\ \A n \in 1..v : h[n] = V[n]
        /\ \A n \in 1..Len(g) : h[v + n] = g[n]
        /\ ToSet(h) = ToSet(V) \cup ToSet(g)
    <2>1. h = V \o g /\ V \in Seq(Function) /\ g \in Seq(Function)
      BY <1>4, <1>5, <1>20
    <2>2. ToSet(h) = ToSet(V) \cup ToSet(g)
      BY <2>1, ConcatElements
    <2>3. h \in Seq(Function) /\ Len(h) = Len(V) + Len(g)
          /\ (\A n \in 1..Len(V) : h[n] = V[n]) /\ (\A n \in 1..Len(g) : h[Len(V) + n] = g[n])
      BY <2>1, ConcatElements
    <2> QED
      BY <2>2, <2>3
  <1> DEFINE F == calls'
  <1>10. /\ F \in Seq(Function) /\ Len(F) = Len(h) + inits["main"]
         /\ \A n \in 1..Len(h) : F[n] = h[n]
         /\ \A n \in 1..inits["main"] : F[Len(h) + n] = InitFunc("main", n)
         /\ ToSet(F) = ToSet(h) \cup ToSet(I)
    <2>1. /\ F \in Seq(Function) /\ Len(F) = Len(h) + Len(I) /\ ToSet(F) = ToSet(h) \cup ToSet(I)
          /\ \A n \in 1..Len(h) : F[n] = h[n]
          /\ \A n \in 1..Len(I) : F[Len(h) + n] = I[n]
      <3>1. F = h \o I /\ h \in Seq(Function) /\ I \in Seq(Function)
        BY <1>5, <1>6, <1>9 DEF h
      <3> HIDE DEF F
      <3>2. ToSet(F) = ToSet(h) \cup ToSet(I)
        BY <3>1, ConcatElements
      <3>3. F \in Seq(Function) /\ Len(F) = Len(h) + Len(I)
            /\ (\A n \in 1..Len(h) : F[n] = h[n]) /\ (\A n \in 1..Len(I) : F[Len(h) + n] = I[n])
        BY <3>1, ConcatElements
      <3> QED
        BY <3>2, <3>3
    <2> QED
      BY <1>5, <2>1
  <1> HIDE DEF F, v
  <1>11. v \in Nat /\ Len(h) \in Nat /\ Len(h) = v + Len(g)
    BY <1>4, <1>5, <1>9 DEF v
  <1>12. \A j \in 1..Len(g) : v + j \in 1..Len(h) /\ F[v + j] = g[j]
    <2> TAKE j \in 1..Len(g)
    <2>1. v + j \in 1..Len(h)
      BY <1>4, <1>11
    <2> QED
      BY <1>9, <1>10, <2>1
  <1>13. ASSUME NEW n \in 1..Len(F)
         PROVE  Exists(F[n]) /\ (F[n] = InitVars("main", 0) \/ Needed(F[n]) \subseteq {F[j] : j \in 1..n - 1})
    <2>1. CASE n \in 1..v
      <3>1. variables["main"] /\ n = 1 /\ n \in 1..Len(h)
        BY <1>4, <1>5, <1>11, <2>1 DEF v
      <3>2. F[n] = InitVars("main", 0)
        BY <1>5, <1>9, <1>10, <2>1, <3>1
      <3> QED
        BY <1>7, <3>1, <3>2
    <2>2. CASE n > v /\ n <= Len(h)
      <3> DEFINE m == n - v
      <3>1. m \in 1..Len(g) /\ n = v + m
        BY <1>4, <1>11, <2>2
      <3>2. F[n] = g[m]
        BY <1>12, <3>1
      <3>3. \A j \in 1..m - 1 : v + j \in 1..n - 1 /\ j \in 1..Len(g)
        BY <1>4, <1>11, <3>1
      <3> HIDE DEF m
      <3>4. 1 \in 1..L /\ E[1].funcs = g
        BY <1>3 DEF g
      <3>5. Exists(g[m]) /\ Needed(g[m]) \subseteq Preceding(E, 1, m)
        BY <1>1, <3>1, <3>4 DEF Ordered
      <3>6. Preceding(E, 1, m) = {g[j] : j \in 1..m - 1}
        BY <1>8, <3>4 DEF Preceding
      <3>7. {g[j] : j \in 1..m - 1} \subseteq {F[j] : j \in 1..n - 1}
        BY <1>12, <3>3
      <3> QED
        BY <3>2, <3>5, <3>6, <3>7
    <2>3. CASE n > Len(h)
      <3> DEFINE m == n - Len(h)
      <3>1. m \in 1..inits["main"] /\ n = Len(h) + m
        BY <1>4, <1>10, <1>11, <2>3
      <3>2. F[n] = InitFunc("main", m)
        BY <1>10, <3>1
      <3>3. \A j \in 1..m - 1 : Len(h) + j \in 1..n - 1 /\ j \in 1..inits["main"]
        BY <1>4, <1>11, <3>1
      <3>4. \A j \in 1..Len(g) : v + j \in 1..n - 1
        BY <1>4, <1>11, <3>1
      <3> HIDE DEF m
      <3>5. {InitFunc("main", j) : j \in 1..m - 1} \subseteq {F[j] : j \in 1..n - 1}
        BY <1>10, <3>3
      <3>6. ToSet(g) \subseteq {F[j] : j \in 1..n - 1}
        BY <1>4, <1>12, <3>4 DEF ToSet, g
      <3> QED
        BY <1>7, <1>8, <3>1, <3>2, <3>5, <3>6
    <2>4. n \in 1..v \/ (n > v /\ n <= Len(h)) \/ n > Len(h)
      BY <1>4, <1>11
    <2> QED
      BY <2>1, <2>2, <2>3, <2>4
  <1>14. UNCHANGED <<importsOf, inits, variables>> /\ emitting' = <<>> /\ emitted' = [emitted EXCEPT !["main"] = @ + 1]
    BY DEF MainEmitted, Emits
  <1>15. (\A q : Wanted(q)' = Wanted(q)) /\ (\A x : Needed(x)' = Needed(x)) /\ (\A x : Exists(x)' = Exists(x))
    BY <1>14, Renames
  <1>16. EmissionTypeOK' /\ \A q \in Packs : q # "main" => emitted'[q] = emitted[q]
    <2>1. emitted' \in [Packs -> Nat] /\ \A q \in Packs : q # "main" => emitted'[q] = emitted[q]
      BY <1>1, <1>2, <1>14 DEF EmissionTypeOK
    <2> QED
      BY <1>1, <1>10, <1>14, <2>1 DEF EmissionTypeOK, F
  <1>17. ToSet(F) = ToSet(V) \cup ToSet(g) \cup ToSet(I)
    BY <1>9, <1>10
  <1>18. \A p \in Packs : emitted'[p] > 0 => Wanted(p) \subseteq ToSet(F)
    <2> TAKE p \in Packs
    <2>1. CASE p = "main"
      BY <1>5, <1>17, <2>1 DEF Wanted, I
    <2>2. CASE p # "main"
      BY <1>1, <1>8, <1>16, <1>17, <2>2 DEF InitializationInv
    <2> QED
      BY <2>1, <2>2
  <1>19. CallsOrdered'
    BY <1>13, <1>15, <1>18 DEF CallsOrdered, Called, F
  <1> QED
    BY <1>14, <1>16, <1>19 DEF InitializationInv

LEMMA InitializationStep == InitializationInv /\ [InitializationNext]_initvars => InitializationInv'
  <1> SUFFICES ASSUME InitializationInv, [InitializationNext]_initvars PROVE InitializationInv'
    OBVIOUS
  <1>1. CASE EmitImport
    BY <1>1, EmitImportKeeps
  <1>2. CASE PackageEmitted
    BY <1>2, PackageEmittedKeeps
  <1>3. CASE MainEmitted
    BY <1>3, MainEmittedKeeps
  <1>4. CASE UNCHANGED initvars
    <2>1. UNCHANGED <<importsOf, inits, variables, emitting, emitted, calls>>
      BY <1>4 DEF initvars
    <2>3. EmissionTypeOK'
      BY <2>1 DEF InitializationInv, EmissionTypeOK
    <2>2. (\A q : Wanted(q)' = Wanted(q)) /\ (\A x : Needed(x)' = Needed(x)) /\ (\A x : Exists(x)' = Exists(x))
      BY <2>1, Renames
    <2>4. CASE emitting = <<>>
      <3>1. CallsOrdered
        BY <2>4 DEF InitializationInv
      <3>2. calls' = calls /\ emitted' = emitted /\ Called' = Called
        BY <2>1 DEF Called
      <3> DEFINE Good(c) == \A m \in 1..Len(c) : Exists(c[m]) /\
                              (c[m] = InitVars("main", 0) \/ Needed(c[m]) \subseteq {c[j] : j \in 1..m - 1})
      <3>5. Good(calls) /\ \A q \in Packs : emitted'[q] > 0 => Wanted(q) \subseteq Called'
        BY <3>1, <3>2 DEF CallsOrdered
      <3> HIDE DEF Good
      <3>4. Good(calls')
        BY <3>2, <3>5
      <3> USE DEF Good
      <3>3. CallsOrdered'
        BY <2>2, <3>4, <3>5 DEF CallsOrdered
      <3> QED
        BY <2>1, <2>3, <2>4, <3>3 DEF InitializationInv
    <2>5. CASE emitting # <<>>
      <3>0. /\ \A k : Listed(emitting, k)' = Listed(emitting, k)
            /\ \A k, n : Preceding(emitting, k, n)' = Preceding(emitting, k, n)
            /\ \A k : Emitted(emitting, k)' = Emitted(emitting, k)
        BY <2>1 DEF Listed, Preceding, Emitted
      <3>1. Ordered(emitting)'
        BY <2>1, <2>2, <2>5, <3>0 DEF InitializationInv, Ordered
      <3>2. ImportsListed(emitting)'
        BY <2>1, <2>2, <2>5, <3>0 DEF InitializationInv, ImportsListed
      <3>3. Nested(emitting)'
        BY <2>1, <2>5 DEF InitializationInv, Nested
      <3>4. \A p \in Packs : emitted'[p] > 0 => Wanted(p)' \subseteq Listed(emitting, Len(emitting))'
        BY <2>1, <2>2, <2>5 DEF InitializationInv, Listed
      <3> QED
        BY <2>1, <2>3, <2>5, <3>1, <3>2, <3>3, <3>4 DEF InitializationInv
    <2> QED
      BY <2>4, <2>5
  <1> QED
    BY <1>1, <1>2, <1>3, <1>4 DEF InitializationNext

-----------------------------------------------------------------------------
Before == OpToRel(<, Nat)

\* The first call of a function.
LEMMA FirstCall ==
    ASSUME calls \in Seq(Function), NEW n \in 1..Len(calls)
    PROVE  /\ First(calls[n]) \in 1..n /\ calls[First(calls[n])] = calls[n]
           /\ \A j \in 1..First(calls[n]) - 1 : calls[j] # calls[n]
  <1> DEFINE f == calls[n]
             S == {k \in 1..n : calls[k] = f}
  <1>1. Len(calls) \in Nat /\ DOMAIN calls = 1..Len(calls)
    BY LenProperties
  <1>2. n \in S /\ S \subseteq Nat
    OBVIOUS
  <1>3. IsWellFoundedOn(Before, Nat)
    BY NatLessThanWellFounded DEF Before
  <1> HIDE DEF S, f
  <1>4. PICK x \in S : \A y \in S : ~(<<y, x>> \in Before)
    BY <1>2, <1>3, WFMin
  <1>5. \A y \in Nat : <<y, x>> \in Before <=> y < x
    BY <1>2 DEF Before, OpToRel
  <1>6. x \in 1..n /\ calls[x] = f /\ x \in DOMAIN calls
    BY <1>1, <1>4 DEF S
  <1>7. ASSUME NEW j \in 1..x - 1 PROVE calls[j] # f
    <2>1. j \in Nat /\ j < x /\ j \in 1..n
      BY <1>6
    <2>2. j \notin S
      BY <1>4, <1>5, <2>1
    <2> QED
      BY <2>1, <2>2 DEF S
  <1>8. ASSUME NEW y \in DOMAIN calls, calls[y] = f, \A j \in 1..y - 1 : calls[j] # f PROVE y = x
    <2>1. ~(x < y)
      BY <1>1, <1>6, <1>8
    <2>2. ~(y < x)
      BY <1>1, <1>6, <1>7, <1>8
    <2> QED
      BY <1>1, <1>6, <2>1, <2>2
  <1>9. First(f) = x
    BY <1>6, <1>7, <1>8 DEF First
  <1> QED
    BY <1>6, <1>7, <1>9 DEF f

LEMMA NeededComesFirst ==
    ASSUME InitializationInv, Done, NEW f \in Called, f # InitVars("main", 0), NEW g \in Needed(f)
    PROVE  First(g) < First(f)
  <1>1. CallsOrdered /\ calls \in Seq(Function)
    BY DEF InitializationInv, Done, EmissionTypeOK
  <1>2. Len(calls) \in Nat /\ DOMAIN calls = 1..Len(calls)
    BY <1>1, LenProperties
  <1>3. PICK m \in 1..Len(calls) : calls[m] = f
    BY <1>2 DEF Called, ToSet
  <1>4. First(f) \in 1..m /\ calls[First(f)] = f
    BY <1>1, <1>3, FirstCall
  <1>5. PICK n \in 1..First(f) - 1 : calls[n] = g
    <2>1. First(f) \in 1..Len(calls)
      BY <1>2, <1>4
    <2>2. Needed(calls[First(f)]) \subseteq {calls[j] : j \in 1..First(f) - 1}
      BY <1>1, <1>4, <2>1 DEF CallsOrdered
    <2> QED
      BY <1>4, <2>2
  <1>6. n \in 1..Len(calls)
    BY <1>2, <1>4
  <1>7. First(g) \in 1..n
    BY <1>1, <1>5, <1>6, FirstCall
  <1> QED
    BY <1>4, <1>7

LEMMA InvInitializesInOrder == InitializationInv => ImportsAreInitializedFirst
  <1> SUFFICES ASSUME InitializationInv, Done, NEW p \in Linked
               PROVE  /\ ToSet(OwnInits(p)) \subseteq Called
                      /\ variables[p] => InitVars(p, 0) \in Called
                      /\ \A m, n \in 1..inits[p] : m < n => First(InitFunc(p, m)) < First(InitFunc(p, n))
                      /\ \A q \in ToSet(importsOf[p]), f \in CallsOf(p) :
                           \A g \in CallsOf(q) : First(g) < First(f) \/ f = InitVars("main", 0)
    BY DEF ImportsAreInitializedFirst
  <1>1. CallsOrdered /\ EmissionTypeOK /\ calls \in Seq(Function)
    BY DEF InitializationInv, Done, EmissionTypeOK
  <1>2. p \in Packs /\ Wanted(p) \subseteq Called
    BY <1>1 DEF Linked, CallsOrdered
  <1>3. inits[p] \in Nat /\ ToSet(OwnInits(p)) = {InitFunc(p, n) : n \in 1..inits[p]}
    BY <1>1, <1>2, EmissionFacts, OwnFunctions
  <1>4. ToSet(OwnInits(p)) \subseteq Called /\ (variables[p] => InitVars(p, 0) \in Called)
    BY <1>2 DEF Wanted
  <1>5. ASSUME NEW m \in 1..inits[p], NEW n \in 1..inits[p], m < n
        PROVE  First(InitFunc(p, m)) < First(InitFunc(p, n))
    <2>1. InitFunc(p, n).pkg = p /\ InitFunc(p, n).func = "init" /\ InitFunc(p, n).nth = n
          /\ InitVars("main", 0).func = "$initvars"
      BY DEF InitFunc, InitVars
    <2>2. m \in 1..n - 1
      BY <1>3, <1>5
    <2>3. InitFunc(p, m) \in Needed(InitFunc(p, n))
      BY <2>1, <2>2 DEF Needed
    <2>4. InitFunc(p, n) # InitVars("main", 0)
      BY <2>1
    <2>5. InitFunc(p, n) \in Called
      BY <1>3, <1>4
    <2> QED
      BY <2>3, <2>4, <2>5, NeededComesFirst
  <1>6. ASSUME NEW q \in ToSet(importsOf[p]), NEW f \in CallsOf(p), NEW g \in CallsOf(q), f # InitVars("main", 0)
        PROVE  First(g) < First(f)
    <2>1. f \in Called /\ f.pkg = p /\ g \in Called /\ g.pkg = q /\ (IsInitVars(g) => g.nth = 0)
      BY DEF CallsOf
    <2>2. Len(calls) \in Nat /\ DOMAIN calls = 1..Len(calls)
      BY <1>1, LenProperties
    <2>3. PICK m \in 1..Len(calls) : calls[m] = g
      BY <2>1, <2>2 DEF Called, ToSet
    <2>4. g \in Function /\ Exists(g)
      BY <1>1, <2>3, ElementOfSeq DEF CallsOrdered
    <2>5. g = [pkg |-> g.pkg, func |-> g.func, nth |-> g.nth] /\ g.func \in {"init", "$initvars"} /\ g.pkg \in Packs
      BY <2>4 DEF Function
    <2>6. g \in Wanted(q)
      <3>1. CASE g.func = "init"
        <4>1. g = InitFunc(q, g.nth) /\ g.nth \in 1..inits[q]
          BY <2>1, <2>4, <2>5, <3>1 DEF InitFunc, Exists
        <4>2. q \in Packs
          BY <2>1, <2>5
        <4>3. ToSet(OwnInits(q)) = {InitFunc(q, n) : n \in 1..inits[q]}
          BY <1>1, <4>2, OwnFunctions
        <4> QED
          BY <4>1, <4>3 DEF Wanted
      <3>2. CASE g.func = "$initvars"
        <4>1. g = InitVars(q, 0)
          BY <2>1, <2>5, <3>2 DEF InitVars, IsInitVars
        <4>2. variables[q]
          BY <2>1, <2>4, <3>2 DEF Exists
        <4> QED
          BY <4>1, <4>2 DEF Wanted
      <3> QED
        BY <2>5, <3>1, <3>2
    <2>7. g \in Needed(f)
      BY <2>1, <2>6 DEF Needed
    <2> QED
      BY <1>6, <2>1, <2>7, NeededComesFirst
  <1> QED
    BY <1>4, <1>5, <1>6

\* For any packages, whatever they import and have to initialize, and however many imports lead to each:
\* what main calls has everything, and what a package initializes comes after what its imports do (emitPackage
\* adds the functions of an imported package again unless it has all of them).
THEOREM ImportsAlwaysInitializedFirst == InitializationSpec => []ImportsAreInitializedFirst
  <1>1. InitializationSpec => []InitializationInv
    BY InitializationStarts, InitializationStep, PTL DEF InitializationSpec
  <1> QED
    BY <1>1, InvInitializesInOrder, PTL
=============================================================================
