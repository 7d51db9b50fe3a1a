------------------------------ MODULE MCBuild -------------------------------
(***************************************************************************)
(* Packages, Expansion, Initialization and Emitter side by side: a build   *)
(* reads either a program or a template (compiler.go, BuildProgram and     *)
(* BuildTemplate), and a program that has been read is emitted, its        *)
(* packages and then the statements of a function; the others stay as they *)
(* start.  The programs of Emitter are about jumps, or about variables.    *)
(***************************************************************************)
EXTENDS Packages, Expansion, Initialization, Emitter

MCDirs == {"a", "b", "d"}
MCFiles == {"index", "layout", "part"}
MCFormats == {"HTML", "Markdown"}
MCImported == <<"a", "b", "d">>
MCFocus ==
  [f \in {"jumps", "variables"} |->
     CASE f = "jumps"     -> Loops \cup {"switch", "select", "func", "break", "continue", "simple"}
       [] f = "variables" -> {"for", "range", "select", "if", "block", "func", "declare"}]
MCNames == [f \in {"jumps", "variables"} |-> IF f = "jumps" THEN {"x"} ELSE {"x", "y"}]

VARIABLE builds   \* "program", "template", "initialization" or "statements"

NoProgram ==
  /\ source = <<>> /\ absent = [dir |-> "none", as |-> "none"] /\ imports = <<>> /\ trees = {}
  /\ bound = {} /\ loaded = "not yet"

NoTemplate ==
  /\ present = {} /\ format = <<>> /\ paths = <<>> /\ parsed = <<>> /\ canExtend = TRUE
  /\ refs = {} /\ expanded = "not yet"

NoEmission ==
  /\ importsOf = <<>> /\ inits = <<>> /\ variables = <<>> /\ emitting = <<>> /\ emitted = <<>>
  /\ calls = <<>>

NoStatements ==
  /\ focus = "jumps" /\ breakable = FALSE /\ breakLabel = 0 /\ inForRange = FALSE /\ rangeLabels = <<>>
  /\ fbs = <<>> /\ nest = <<>> /\ count = 0 /\ resolved = {} /\ sources = <<>> /\ borrowed = FALSE /\ failed = ""

\* Main has one init function; only the package that imports nothing has as many as it may.
FewInits == inits["main"] = 1 /\ \A p \in {"a", "b"} : inits[p] < MaxInits

BuildInit ==
  \/ builds = "program" /\ PkgInit /\ NoTemplate /\ NoEmission /\ NoStatements
  \/ builds = "template" /\ NoProgram /\ ExpInit /\ NoEmission /\ NoStatements
  \/ builds = "initialization" /\ NoProgram /\ NoTemplate /\ InitializationInit /\ FewInits /\ NoStatements
  \/ builds = "statements" /\ NoProgram /\ NoTemplate /\ NoEmission /\ Init

BuildNext ==
  /\ UNCHANGED builds
  /\ \/ builds = "program" /\ PkgNext /\ UNCHANGED <<expvars, initvars, vars>>
     \/ builds = "template" /\ ExpNext /\ UNCHANGED <<pkgvars, initvars, vars>>
     \/ builds = "initialization" /\ InitializationNext /\ UNCHANGED <<pkgvars, expvars, vars>>
     \/ builds = "statements" /\ Next /\ UNCHANGED <<pkgvars, expvars, initvars>>

BuildSpec == BuildInit /\ [][BuildNext]_<<pkgvars, expvars, initvars, vars, builds>>
=============================================================================
