------------------------------ MODULE Expansion ------------------------------
(***************************************************************************)
(* ParseTemplate, src/internal/compiler/parser_template.go: from the file  *)
(* that is built, the files that it extends, imports and renders are       *)
(* parsed, each one once, depth first.  A frame of the stack paths is a    *)
(* call of parseSource that is expanding the nodes of its file; the nodes  *)
(* of a file are chosen while they are expanded, since a file is parsed    *)
(* once, unless it fails, and then the expansion ends.                     *)
(***************************************************************************)
EXTENDS Naturals, FiniteSets, Sequences, SequencesExt

CONSTANTS Files,     \* the paths of the files, the one that is built among them
          Root,      \* the file that is built
          Formats,   \* the formats that the names of the files can have
          MaxNodes   \* bound on the extends, import and render nodes of a file

ASSUME RootAssumption == Root \in Files

Uses == {"extends", "import", "render", "default"}
Ends == {"tree", "cycle", "not exist", "syntax error", "cannot extend", "other use", "format"}

VARIABLES
  present,    \* the files that exist
  format,     \* the format of each file
  paths,      \* the frames: the file, the node that references it, the nodes expanded so far
  parsed,     \* the uses of the nodes that parsed a file first, by file
  canExtend,
  refs,       \* the references that got a tree: from, use, to
  expanded    \* "not yet" while it goes on, then how it ends

expvars == <<present, format, paths, parsed, canExtend, refs, expanded>>

Frame(f, use) == [file |-> f, use |-> use, nodes |-> 0]

\* The file that is built is read and parsed before anything else.
ExpInit ==
  /\ present \in {S \in SUBSET Files : Root \in S}
  /\ format \in [Files -> Formats]
  /\ paths = <<Frame(Root, "build")>>
  /\ parsed = <<>> /\ canExtend = TRUE /\ refs = {} /\ expanded = "not yet"

top == Last(paths)
Expanding == expanded = "not yet" /\ paths # <<>> /\ UNCHANGED <<present, format>>
Fails(how) == expanded' = how /\ UNCHANGED <<paths, parsed, refs>>
NodeDone == [paths EXCEPT ![Len(paths)].nodes = @ + 1]
Reference(from, use, to) == [from |-> from, use |-> use, to |-> to]

InCycle(f) == \E i \in DOMAIN paths : paths[i].file = f

\* Mutant: Only the file that has the node is compared.
InCycleWithItself(f) == f = top.file

Cycle(f) == InCycle(f)

\* Mutant: A file that is extended can be rendered as well.
RefusesImports(first, use) ==
  \/ first = "extends" /\ use = "import"
  \/ first = "import" /\ use \in {"render", "default"}
  \/ first \in {"render", "default"} /\ use = "import"

\* The uses of a file that has been parsed for another use are errors, some of them.
Refuses(first, use) ==
  \/ first = "extends" /\ use \in {"import", "render", "default"}
  \/ first = "import" /\ use \in {"render", "default"}
  \/ first \in {"render", "default"} /\ use = "import"

\* The format of the file that extends must be that of the extended file, Markdown aside.
SameFormat(from, to) ==
  \/ format[from] = format[to]
  \/ format[from] = "Markdown" /\ format[to] = "HTML"

\* The node got its tree: extends looks at its format.
Resolved(from, use, to) ==
  IF use = "extends" /\ ~SameFormat(from, to)
  THEN expanded' = "format" /\ UNCHANGED refs
  ELSE refs' = refs \cup {Reference(from, use, to)} /\ UNCHANGED expanded

\* extends is the first node of a file, if there is one (parser.go), and it is refused once a node
\* that is not extends has been expanded, in whatever file.
CanExtend == canExtend
Extends == top.nodes = 0 /\ CanExtend

CannotExtend ==
  /\ Expanding /\ top.nodes = 0 /\ ~CanExtend
  /\ Fails("cannot extend") /\ UNCHANGED canExtend

\* parseNodeFile, from expand: the path is rooted and compared with the paths of the stack and with
\* the files that have been parsed.  A path that goes out of the root does not exist.
ParseNodeFile(use, f) ==
  /\ Expanding /\ top.nodes < MaxNodes
  /\ use = "extends" => Extends
  /\ canExtend' = (canExtend /\ use = "extends")
  /\ CASE Cycle(f) -> Fails("cycle")
       [] ~Cycle(f) /\ f \in DOMAIN parsed ->
            IF Refuses(parsed[f], use)
            THEN Fails("other use")
            ELSE paths' = NodeDone /\ Resolved(top.file, use, f) /\ UNCHANGED parsed
       [] ~Cycle(f) /\ f \notin DOMAIN parsed /\ f \in present ->
            /\ paths' = Append(paths, Frame(f, use))
            /\ UNCHANGED <<parsed, refs, expanded>>
       [] OTHER ->
            IF use \in {"import", "default"}
            THEN paths' = NodeDone /\ UNCHANGED <<parsed, refs, expanded>>
            ELSE Fails("not exist")

\* The source of a file, or the transformer, fails when the file has been read.
ParseSourceFails ==
  /\ Expanding /\ top.nodes = 0
  /\ Fails("syntax error") /\ UNCHANGED canExtend

\* The nodes of a file are expanded and its tree goes back to the node that references it.
Expand ==
  /\ Expanding /\ UNCHANGED canExtend
  /\ IF Len(paths) = 1
       THEN expanded' = "tree" /\ paths' = <<>> /\ UNCHANGED <<parsed, refs>>
       ELSE LET from == paths[Len(paths) - 1].file
            IN  /\ parsed' = [f \in {top.file} \cup DOMAIN parsed |->
                               IF f = top.file THEN top.use ELSE parsed[f]]
                /\ Resolved(from, top.use, top.file)
                /\ paths' = [Front(paths) EXCEPT ![Len(paths) - 1].nodes = @ + 1]

ExpNext ==
  \/ CannotExtend
  \/ \E use \in Uses, f \in Files : ParseNodeFile(use, f)
  \/ ParseSourceFails
  \/ Expand

ExpSpec == ExpInit /\ [][ExpNext]_expvars

----------------------------------------------------------------------------
(* Properties                                                              *)

FilesOf(uses) == {r.to : r \in {s \in refs : s.use \in uses}}

\* A file is the base of the file built, or declarations to import, or content to render, never two
\* of them: the trees are shared between the nodes, and the type checker and the emitter keep one
\* result for each tree (compilation.go, "alreadyCompiledRenderTree").
UsedInOneWay ==
  /\ FilesOf({"extends"}) \cap FilesOf({"import", "render", "default"}) = {}
  /\ FilesOf({"import"}) \cap FilesOf({"render", "default"}) = {}

\* The trees of a template have no cycle, and the files that extend are a chain from the file built,
\* with the same format but for Markdown in HTML at most once: the emitter and the type checker
\* follow them down without looking for a cycle.
TreesAreFinite ==
  LET Extending == {r \in refs : r.use = "extends"}
  IN  /\ \A S \in (SUBSET Files) \ {{}} : \E f \in S : \A r \in refs : r.from = f => r.to \notin S
      /\ \A r, s \in Extending : r # s => r.from # s.from /\ r.to # s.to
      /\ expanded = "tree" =>
           \A r \in Extending : /\ r.from = Root \/ \E s \in Extending : s.to = r.from
                                /\ format[Root] = "HTML" => format[r.to] = "HTML"
=============================================================================
