--------------------------- MODULE Initialization ---------------------------
(***************************************************************************)
(* The order in which the packages of a program are initialized: emitter.go*)
(* (emitPackage) and emitter_statements.go (emitImport).  A package is     *)
(* emitted again for every import declaration of it, depth first, and      *)
(* returns the functions to call before what the importer has: its init    *)
(* functions, that are the same each time, and $initvars, the function     *)
(* that initializes its variables, that is a new one each time; the main   *)
(* function calls what reaches the main package.                           *)
(***************************************************************************)
EXTENDS Naturals, FiniteSets, Sequences, SequencesExt

CONSTANTS Imported,   \* the packages other than main, a sequence with the importers first
          MaxInits    \* bound on the init functions of a package

ASSUME InitializationAssumption == "main" \notin ToSet(Imported) /\ MaxInits \in Nat

VARIABLES
  importsOf,   \* the import declarations of each package
  inits,       \* the number of its init functions
  variables,        \* whether it has variables
  emitting,    \* the calls of emitPackage: the package, its next import, its list of functions
  emitted,     \* how many times each package has been emitted
  calls        \* what the main function calls before its own body, at the end

initvars == <<importsOf, inits, variables, emitting, emitted, calls>>

Packs == ToSet(Imported) \cup {"main"}
InitFunc(p, n) == [pkg |-> p, func |-> "init", nth |-> n]
InitVars(p, n) == [pkg |-> p, func |-> "$initvars", nth |-> n]
IsInitVars(f) == f.func = "$initvars"

Emission(p) == [pkg |-> p, next |-> 1, funcs |-> <<>>]

\* No package imports itself, also through others (Packages.tla), hence the order of Imported; a
\* package is imported once at most by each other.
Orders == {s \in SeqOf(ToSet(Imported), Len(Imported)) : IsInjective(s)}
Position(p) == CHOOSE i \in 0..Len(Imported) : IF p = "main" THEN i = 0 ELSE i > 0 /\ Imported[i] = p
ImportersFirst == \A p \in Packs : \A q \in ToSet(importsOf[p]) : Position(p) < Position(q)

InitializationInit ==
  /\ importsOf \in [Packs -> Orders] /\ ImportersFirst
  /\ inits \in [Packs -> 0..MaxInits]
  /\ variables \in [Packs -> BOOLEAN]
  /\ emitting = <<Emission("main")>>
  /\ emitted = [p \in Packs |-> 0]
  /\ calls = <<>>

pack == Last(emitting)
Emits == emitting # <<>> /\ UNCHANGED <<importsOf, inits, variables>>

\* emitImport of a package of the program: emitPackage is called for it whether or not it has been
\* emitted.  Native packages have nothing to initialize.
EmitImport ==
  /\ Emits /\ pack.next <= Len(importsOf[pack.pkg])
  /\ emitting' = Append([emitting EXCEPT ![Len(emitting)].next = @ + 1],
                        Emission(importsOf[pack.pkg][pack.next]))
  /\ UNCHANGED <<emitted, calls>>

\* Mutant: The functions of an imported package are all left out if one is already there.
AddUnlessKnown(funcs, pkgInits) ==
  IF ToSet(funcs) \cap ToSet(pkgInits) # {} THEN funcs ELSE funcs \o pkgInits

\* The loop appends all the functions at the first that is not in the list; then none is missing.
AddInits(funcs, pkgInits) ==
  IF ToSet(pkgInits) \subseteq ToSet(funcs) THEN funcs ELSE funcs \o pkgInits

OwnInits(p) == [n \in 1..inits[p] |-> InitFunc(p, n)]
OwnVars(p) == IF variables[p] THEN <<InitVars(p, emitted[p])>> ELSE <<>>

\* The functions of the imports, the init functions and then $initvars, that is appended last; the
\* importer adds them to its own.  A variable that has been emitted has an address already, and the
\* other $initvars evaluate its expression and drop the value.
PackageEmitted ==
  /\ Emits /\ pack.next > Len(importsOf[pack.pkg]) /\ pack.pkg # "main"
  /\ LET funcs == pack.funcs \o OwnInits(pack.pkg) \o OwnVars(pack.pkg)
         n     == Len(emitting) - 1
     IN  emitting' = [Front(emitting) EXCEPT ![n].funcs = AddInits(@, funcs)]
  /\ emitted' = [emitted EXCEPT ![pack.pkg] = @ + 1]
  /\ UNCHANGED calls

\* The main function calls the $initvars of its package, and then the functions of the list.
MainEmitted ==
  /\ Emits /\ pack.next > Len(importsOf["main"]) /\ pack.pkg = "main"
  /\ calls' = OwnVars("main") \o pack.funcs \o OwnInits("main")
  /\ emitting' = <<>>
  /\ emitted' = [emitted EXCEPT !["main"] = @ + 1]

InitializationNext == EmitImport \/ PackageEmitted \/ MainEmitted

InitializationSpec == InitializationInit /\ [][InitializationNext]_initvars

----------------------------------------------------------------------------
(* Properties                                                              *)

Done == emitting = <<>>
Linked == {p \in Packs : emitted[p] > 0}
First(f) == CHOOSE i \in DOMAIN calls : calls[i] = f /\ \A j \in 1..i-1 : calls[j] # f
Called == ToSet(calls)
CallsOf(p) == {f \in Called : f.pkg = p /\ (IsInitVars(f) => f.nth = 0)}

\* Everything that the packages of a program have to initialize is called, whatever the number of
\* imports that lead to it; the init functions of a package are called in their order, after all
\* that its imports have, and so is its $initvars unless it is that of main.
ImportsAreInitializedFirst ==
  Done /\ emitted # <<>> => \A p \in Linked :
    /\ ToSet(OwnInits(p)) \subseteq Called
    /\ variables[p] => InitVars(p, 0) \in Called
    /\ \A m, n \in 1..inits[p] : m < n => First(InitFunc(p, m)) < First(InitFunc(p, n))
    /\ \A q \in ToSet(importsOf[p]), f \in CallsOf(p) :
         \A g \in CallsOf(q) : First(g) < First(f) \/ f = InitVars("main", 0)

\* "init functions are called just once when imported by two different packages": the comment of
\* alreadyEmittedFuncs in emitter.go.
InitsAreCalledOnce ==
  Done => \A i, j \in DOMAIN calls : ~IsInitVars(calls[i]) /\ calls[i] = calls[j] => i = j
=============================================================================
