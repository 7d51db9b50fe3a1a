------------------------------ MODULE Packages ------------------------------
(***************************************************************************)
(* ParseProgram, src/internal/compiler/parser_program.go: the packages of  *)
(* a module are parsed from the main package on, once each, with a stack   *)
(* of import declarations in place of a recursion.  A declaration is in    *)
(* the stack while its package is being parsed, and before, while the      *)
(* declarations that come first are; that is where a cycle is looked for.  *)
(*                                                                         *)
(* A declaration is the package that it is in and its index there.  Without*)
(* a go.mod no declaration is of the module, and source has none.          *)
(***************************************************************************)
EXTENDS Naturals, FiniteSets, Sequences, SequencesExt

CONSTANTS Dirs,        \* the packages of the module that are imported, by path
          MaxImports   \* bound on the import declarations of a package

VARIABLES
  source,    \* the import declarations of every package
  absent,    \* a package that does not exist, or cannot be parsed, and which of the two
  imports,   \* the stack of declarations
  trees,     \* the packages that have been parsed
  bound,     \* the declarations that have a tree
  loaded     \* "not yet" while it goes on, then how it ends

pkgvars == <<source, absent, imports, trees, bound, loaded>>

main == [in |-> "none", at |-> 0, path |-> "main"]
All == Dirs \cup {"main"}
Declaration(p, i) == [in |-> p, at |-> i, path |-> source[p][i]]

Lists == {s \in SeqOf(Dirs, MaxImports) : IsInjective(s)}

PkgInit ==
  /\ source \in [All -> Lists]
  /\ absent \in [dir : Dirs, as : {"missing", "broken"}] \cup {[dir |-> "none", as |-> "none"]}
  /\ absent.dir \in Dirs => source[absent.dir] = <<>>
  /\ imports = <<main>> /\ trees = {} /\ bound = {} /\ loaded = "not yet"

last == Last(imports)
Binds(d) == bound \cup {d}
Goes == loaded = "not yet" /\ imports # <<>> /\ UNCHANGED <<source, absent>>

\* The package has been parsed in the meantime.
AlreadyParsed ==
  /\ Goes /\ last.path \in trees
  /\ bound' = Binds(last)
  /\ imports' = Front(imports)
  /\ UNCHANGED <<trees, loaded>>

\* The error tells the file of the declaration before in the stack, that is the importer or one of
\* its declarations, that may have no tree yet: its file is read through nil.
NotParsed ==
  /\ Goes /\ last.path = absent.dir
  /\ LET before == imports[Len(imports) - 1]
     IN  loaded' = CASE absent.as = "broken"   -> "syntax error"
                     [] before.path = last.in -> "not found"
                     [] before \in bound      -> "not found elsewhere"
                     [] OTHER                 -> "panic"
  /\ UNCHANGED <<imports, trees, bound>>

\* Mutant: A cycle is looked for in the parent only.
CyclesWithParent(p, parsed) ==
  {i \in DOMAIN source[p] : source[p][i] \in parsed /\ source[p][i] \in {p, last.in}}

\* What is found among the declarations in the stack is said to be a cycle.
Cycles(p, parsed) ==
  {i \in DOMAIN source[p] : /\ source[p][i] \in parsed
                            /\ \E j \in DOMAIN imports : imports[j].path = source[p][i]}

\* The indexes from the last to the first.
Backwards(S) == {s \in [1..Cardinality(S) -> S] : \A j, k \in DOMAIN s : j < k => s[j] > s[k]}

\* The package is parsed; the declarations of packages that have been parsed are bound, and the
\* others are pushed, the first on top.
ParsePackage ==
  /\ Goes /\ last.path \notin trees \cup {absent.dir}
  /\ LET p      == last.path
         parsed == trees \cup {p}
         new    == {i \in DOMAIN source[p] : source[p][i] \notin parsed}
     IN  /\ trees' = parsed
         /\ IF Cycles(p, parsed) # {}
              THEN loaded' = "cycle" /\ UNCHANGED <<imports, bound>>
              ELSE /\ bound' = Binds(last) \cup {Declaration(p, i) : i \in (DOMAIN source[p]) \ new}
                   /\ \E s \in Backwards(new) :
                        imports' = IF new = {} THEN Front(imports)
                                   ELSE imports \o [k \in DOMAIN s |-> Declaration(p, s[k])]
                   /\ UNCHANGED loaded

Loaded ==
  /\ loaded = "not yet" /\ imports = <<>>
  /\ loaded' = "tree"
  /\ UNCHANGED <<source, absent, imports, trees, bound>>

PkgNext == AlreadyParsed \/ NotParsed \/ ParsePackage \/ Loaded

PkgSpec == PkgInit /\ [][PkgNext]_pkgvars

----------------------------------------------------------------------------
(* Properties                                                              *)

\* Packages that import each other.
Circular(S) == S # {} /\ \A p \in S : \E q \in S : q \in ToSet(source[p])

\* The packages that a set closed under imports has, if it has main.
Known == {p \in All : \A S \in SUBSET All :
                        "main" \in S /\ (\A q \in S : ToSet(source[q]) \subseteq S) => p \in S}

\* A program is compiled only when no package imports itself, directly or through others, and when
\* every import declaration of the packages that main reaches has a tree: the compiler follows the
\* trees of the declarations without looking at them again (compilation.go, checker_package.go).
ProgramIsComplete ==
  loaded = "tree" =>
    /\ \A S \in SUBSET Known : ~Circular(S)
    /\ \A p \in Known : \A i \in DOMAIN source[p] : Declaration(p, i) \in bound

\* The CycleError of the comment "There is a cycle." is about packages that do import each other.
CycleIsReal == loaded = "cycle" => \E S \in SUBSET All : Circular(S)
=============================================================================
