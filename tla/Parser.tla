------------------------------- MODULE Parser -------------------------------
(***************************************************************************)
(* The parser of a file, src/internal/compiler/parser.go, that starts the  *)
(* lexer and reads its tokens: the syntax tree is built under the last of  *)
(* the ancestors, a stack of nodes that are still open.  Expressions, and  *)
(* the part of a statement before its body, are left out: a statement that *)
(* cannot be parsed is the statement "wrong".                              *)
(*                                                                         *)
(* A Func node here is a function; the Func node of a macro is a Macro.    *)
(* ForIn and ForRange nodes, and Switch and TypeSwitch nodes, are treated  *)
(* alike by the parser and are one kind of node here.                      *)
(***************************************************************************)
EXTENDS Lexer

CONSTANTS Imported,      \* the formats of the files that may be imported
          MaxAncestors   \* bound on the nodes that are open

VARIABLES
  imported,   \* whether the file is imported
  hasExtend,  \* whether it has an extends statement
  header,     \* the nodes of the tree: "clean", "text", "imports" or "body"
  ancestors,  \* from the root up to the parent
  parser,     \* "parsing", "stopping" the lexer, or "returned"
  result,     \* what it returns: "tree", "SyntaxError" or "panic"
  open,       \* ghost: the block statements that are open in the text
  secondElse, \* ghost: an else after an else has been parsed
  crossed,    \* ghost: a URL ended in a block that starts in it
  escaped     \* ghost: a brace after a label has closed the Statements node of {%%

parsing == <<imported, hasExtend, header, ancestors, parser, result, open, secondElse, crossed, escaped>>
vars == <<lexer, parsing>>

Node(kind) == [kind |-> kind, else |-> FALSE, cases |-> FALSE]
parent == Last(ancestors)

(***************************************************************************)
(* A step of the parser gives the ancestors after it, or how it fails: a   *)
(* syntax error or, when the tree cannot take the node, a panic.           *)
(***************************************************************************)
SyntaxError == <<Node("SyntaxError")>>
Panic == <<Node("panic")>>
Fails(anc) == anc \in {SyntaxError, Panic}

\* The nodes that a node opens: itself, and the block it starts with.
Opened(kind) ==
  CASE kind \in {"If", "Macro", "DistFree", "Using"} -> <<Node(kind), Node("Block")>>
    [] kind \in {"Block", "For", "ForRange", "Switch", "Select", "Package", "Label", "Statements",
                 "URL", "Raw"} -> <<Node(kind)>>
    [] OTHER -> <<>>

SetLast(anc, node) == Append(Front(anc), node)

addNode(anc, kind) ==
  LET p == Last(anc) IN
  CASE p.kind \in {"Tree", "Package", "URL", "For", "ForRange", "Block", "Statements"} -> anc \o Opened(kind)
    [] p.kind = "If" /\ ~p.else -> SetLast(anc, [p EXCEPT !.else = TRUE]) \o Opened(kind)
    [] p.kind \in {"Switch", "Select"} /\ kind = "Case" -> SetLast(anc, [p EXCEPT !.cases = TRUE])
    [] p.kind \in {"Switch", "Select"} /\ kind # "Case" /\ p.cases -> anc \o Opened(kind)
    [] p.kind = "Label" -> Front(anc) \o Opened(kind)
    [] p.kind = "Raw" /\ kind = "Text" -> anc
    [] OTHER -> Panic

wantCase(p) == p.kind \in {"Switch", "Select"} /\ ~p.cases

\* The Ifs of a chain of else if are closed together.
CloseIfs(anc) ==
  LET outer == CHOOSE n \in 0..Len(anc) : /\ n = 0 \/ anc[n].kind # "If"
                                          /\ \A i \in n + 1..Len(anc) : anc[i].kind = "If"
  IN  SubSeq(anc, 1, outer)

\* Whether the code is in the body of a function.
InFunc(anc) == \E i \in DOMAIN anc : anc[i].kind = "Func"

\* What the code is expected to end with.
End(anc) == CASE InFunc(anc) \/ fileContext = "Program" -> "EOF"
              [] OTHER -> "%%}"

----------------------------------------------------------------------------
(* parse: else, end and the closing brace                                  *)

\* else in a for range statement opens its Else block, in an if statement closes the "then" block.
ElseOf(anc, k, ends) ==
  LET p     == Last(anc)
      outer == Front(anc)
  IN  CASE p.kind = "ForRange" /\ (ends = "EOF" \/ k = "else if") -> SyntaxError
        [] p.kind = "ForRange" /\ ends # "EOF" /\ k = "else" ->
             Append(SetLast(anc, [p EXCEPT !.else = TRUE]), Node("Block"))
        [] p.kind = "Block" /\ Last(outer).kind = "If" -> addNode(outer, IF k = "else" THEN "Block" ELSE "If")
        [] OTHER -> SyntaxError

CloseOnlyOne(anc, k) ==
  LET inner == IF Last(anc).kind = "Block" THEN Front(anc) ELSE anc
  IN  IF Last(anc).kind \in {"Tree", "URL"} \/ k = "end of another" THEN SyntaxError ELSE Front(inner)

\* {% end %}, that may tell what it is the end of.
CloseEnd(anc, k) ==
  LET inner == IF Last(anc).kind = "Block" THEN Front(anc) ELSE anc
  IN  CASE Last(anc).kind \in {"Tree", "URL"} -> SyntaxError
        [] Last(anc).kind = "Block" /\ Len(anc) = 3 /\ anc[2].kind = "DistFree" -> SyntaxError
        [] k = "end of another" -> SyntaxError
        [] OTHER -> CloseIfs(Front(inner))

\* A label at the end of a block has no statement.
WithoutLabel(anc) == IF Last(anc).kind = "Label" THEN Front(anc) ELSE anc

\* }, before something that is not else; in parseFunc it is the end of the function's body.  That the
\* brace is expected is checked before the label is removed: it may close the Statements node, and
\* the tree is the last node that can be closed.
CloseBrace(anc0) ==
  LET anc    == WithoutLabel(anc0)
      outer  == Front(anc)
      closed == CASE Last(anc).kind = "Block" /\ Last(outer).kind = "Func" -> addNode(Front(outer), "Simple")
                  [] Last(outer).kind = "ForRange" /\ Last(outer).else -> Front(outer)
                  [] Last(outer).kind = "If" -> CloseIfs(outer)
                  [] OTHER -> outer
  IN  IF Last(anc0).kind \in {"Statements", "Package"} THEN SyntaxError
      ELSE IF Len(anc) = 1 THEN Panic ELSE closed

----------------------------------------------------------------------------
(* parse: the statements between {% and %}                                 *)

NodeOf(k) ==
  CASE k = "if" -> "If" [] k \in {"for", "labelled for"} -> "For" [] k = "range" -> "ForRange"
    [] k \in {"switch", "labelled switch"} -> "Switch" [] k = "select" -> "Select"
    [] k \in {"case", "default"} -> "Case" [] k = "macro" -> "Macro" [] k = "using" -> "Using"
    [] k = "raw" -> "Raw" [] k \in {"extends", "import"} -> "Import" [] OTHER -> "Simple"

Labelled(k) == k \in {"labelled for", "labelled switch"}

\* Whether the statement is not accepted where it is: in which node, and in which context.
Misplaced(tok, anc) ==
  LET k == tok.kind
      p == Last(anc)
  IN  \/ k = "wrong"
      \/ wantCase(p) /\ k \notin {"case", "default", "end", "end of another"}
      \/ /\ p.kind = "Tree" /\ (imported \/ hasExtend)
         /\ k \notin {"extends", "import", "macro", "declaration"}
         /\ ~(k = "Name" /\ hasExtend)
      \/ k \in {"case", "default"} /\ p.kind \notin {"Switch", "Select"}
      \/ k = "extends" /\ (tok.ctx # fileContext \/ hasExtend \/ header # "clean")
      \/ k = "import" /\ (p.kind # "Tree" \/ header = "body" \/ tok.ctx # fileContext)
      \/ k = "macro" /\ tok.ctx # fileContext
      \/ k \in {"using", "raw"} /\ tok.ctx \notin FormatContexts

parseStatement(tok, anc) ==
  LET k == tok.kind IN
  CASE Misplaced(tok, anc) -> SyntaxError
    [] ~Misplaced(tok, anc) /\ k \in {"else", "else if"} -> ElseOf(anc, k, "%}")
    [] ~Misplaced(tok, anc) /\ k \in {"end", "end of another"} -> CloseEnd(anc, k)
    [] ~Misplaced(tok, anc) /\ k = "Name" /\ Last(anc).kind = "Tree" /\ hasExtend -> addNode(anc, "DistFree")
    [] ~Misplaced(tok, anc) /\ Labelled(k) -> addNode(addNode(anc, "Label"), NodeOf(k))
    [] OTHER -> addNode(anc, NodeOf(k))

----------------------------------------------------------------------------
(* parse: the code of a program, and between {%% and %%}                   *)

CodeNode(k) ==
  CASE k = "if {" -> "If" [] k = "for {" -> "For" [] k = "range {" -> "ForRange" [] k = "switch {" -> "Switch"
    [] k = "select {" -> "Select" [] k \in {"case:", "default:"} -> "Case" [] k = "{" -> "Block"
    [] k = "label:" -> "Label" [] k = "package" -> "Package" [] k \in {"extends", "import"} -> "Import" [] OTHER -> "Simple"

MisplacedCode(tok, anc) ==
  LET k == tok.kind
      p == Last(anc)
  IN
  \/ wantCase(p) /\ k \notin {"case:", "default:", "}"}
  \/ p.kind = "Tree" /\ fileContext = "Program" /\ k # "package"
  \/ p.kind = "Tree" /\ (imported \/ hasExtend) /\ k \notin {"declaration", "import", "extends"}
  \/ k = "package" /\ (p.kind # "Tree" \/ fileContext # "Program")
  \/ p.kind = "Package" /\ k \notin {"import", "func {", "declaration"}
  \/ p.kind = "Statements" /\ (imported \/ hasExtend) /\ Len(anc) = 2
     /\ k \notin {"declaration", "import", "extends"}
  \/ /\ k = "import"
     /\ \/ ~(p.kind = "Package" \/ (p.kind = "Statements" /\ Len(anc) = 2 /\ tok.ctx = fileContext))
        \/ header = "body"
  \/ k = "extends" /\ (p.kind # "Statements" \/ tok.ctx # fileContext \/ hasExtend \/ header # "clean")
  \/ k \in {"case:", "default:"} /\ p.kind \notin {"Switch", "Select"}
  \/ k = "goto" /\ End(anc) # "EOF"

parseCode(tok, anc) ==
  LET k == tok.kind IN
  CASE MisplacedCode(tok, anc) -> SyntaxError
    [] ~MisplacedCode(tok, anc) /\ k = ";" -> WithoutLabel(anc)
    [] ~MisplacedCode(tok, anc) /\ k = "}" -> CloseBrace(anc)
    [] ~MisplacedCode(tok, anc) /\ k = "} else {" -> ElseOf(WithoutLabel(anc), "else", End(anc))
    [] ~MisplacedCode(tok, anc) /\ k = "} else if {" -> ElseOf(WithoutLabel(anc), "else if", End(anc))
    [] ~MisplacedCode(tok, anc) /\ k = "func {" -> anc \o <<Node("Func"), Node("Block")>>
    [] OTHER -> addNode(anc, CodeNode(k))

\* %%} after a label, and after the last statement.
EndStatements(anc) ==
  LET inner == WithoutLabel(anc)
  IN  IF ~InFunc(anc) /\ Last(inner).kind = "Statements" THEN Front(inner) ELSE SyntaxError

----------------------------------------------------------------------------
(* The tokens, one by one                                                  *)

parseTextAnywhere(tok, anc) ==
  IF Len(anc) = 1 /\ (imported \/ hasExtend) /\ ~tok.blank THEN SyntaxError ELSE addNode(anc, "Text")

parseText(tok, anc) ==
  CASE Len(anc) = 1 /\ (imported \/ hasExtend) /\ ~tok.blank -> SyntaxError
    [] wantCase(Last(anc)) -> IF tok.blank THEN anc ELSE SyntaxError
    [] OTHER -> addNode(anc, "Text")

\* A show, a comment, a URL or statements cannot be before the first case of a switch or select.
parseNode(typ, kind, anc) ==
  CASE wantCase(Last(anc)) -> SyntaxError
    [] typ = "show" /\ Len(anc) = 1 /\ (imported \/ hasExtend) -> SyntaxError
    [] OTHER -> addNode(anc, kind)

parseEndURL(anc) == IF wantCase(Last(anc)) THEN SyntaxError ELSE Front(anc)

parseEOF(anc) ==
  LET distFree == Len(anc) = 3 /\ anc[2].kind = "DistFree"
  IN  CASE distFree \/ (Len(anc) = 1 /\ fileContext # "Program") -> <<Node("Tree")>>
        [] Len(anc) = 2 /\ anc[2].kind = "Package" -> <<Node("Tree")>>
        [] OTHER -> SyntaxError

Parsed(tok, anc) ==
  CASE tok.typ = "text"      -> parseText(tok, anc)
    [] tok.typ = "show"      -> parseNode("show", "Simple", anc)
    [] tok.typ = "comment"   -> parseNode("comment", "Comment", anc)
    [] tok.typ = "start URL" -> parseNode("start URL", "URL", anc)
    [] tok.typ = "end URL"   -> parseEndURL(anc)
    [] tok.typ = "{%%"       -> parseNode("{%%", "Statements", anc)
    [] tok.typ = "statement" -> parseStatement(tok, anc)
    [] tok.typ = "code"      -> parseCode(tok, anc)
    [] tok.typ = "%%}"       -> EndStatements(anc)
    [] tok.typ = "EOF"       -> parseEOF(anc)

\* The nodes of the tree decide where extends and import may be.
Header(tok) ==
  LET leaf == tok.typ \in {"statement", "code"} /\ tok.kind \in {"extends", "import"}
  IN  CASE leaf -> "imports"
        [] ~leaf /\ tok.typ = "text" -> IF header = "clean" /\ ~tok.blank THEN "text" ELSE header
        [] tok.typ = "%%}" -> IF header = "clean" THEN "text" ELSE header
        [] tok.typ \in {"comment", "{%%"} \/ (tok.typ = "code" /\ tok.kind \in {"package", ";"}) -> header
        [] OTHER -> "body"

Openers == {"if", "for", "range", "switch", "select", "labelled for", "labelled switch", "macro", "using", "raw"}

\* The block statements that are open after a token, by the text alone.
Lexically(tok) ==
  CASE tok.typ = "statement" /\ tok.kind \in Openers -> Append(open, NodeOf(tok.kind))
    [] tok.typ = "statement" /\ tok.kind = "end" /\ open # <<>> -> Front(open)
    [] OTHER -> open

\* An else of an if statement that already has an Else.
IsSecondElse(tok) ==
  LET anc == IF tok.typ = "code" THEN WithoutLabel(ancestors) ELSE ancestors
  IN  /\ tok.typ \in {"statement", "code"} /\ tok.kind \in {"else", "else if", "} else {", "} else if {"}
      /\ Last(anc).kind = "Block" /\ Last(Front(anc)).kind = "If" /\ Last(Front(anc)).else

\* A brace that closes a Statements node, as there is a label after the last statement.
IsEscape(tok) ==
  /\ tok.typ = "code" /\ tok.kind = "}"
  /\ parent.kind = "Label" /\ Last(Front(ancestors)).kind = "Statements"

ParserInit ==
  /\ imported \in IF fileContext \in Imported THEN BOOLEAN ELSE {FALSE}
  /\ hasExtend = FALSE
  /\ header = "clean"
  /\ ancestors = <<Node("Tree")>>
  /\ parser = "parsing" /\ result = "tree"
  /\ open = <<>> /\ secondElse = FALSE /\ crossed = FALSE /\ escaped = FALSE

\* The last token has been parsed or the parse has failed: the deferred call stops the lexer.
Ends(res) == parser' = "stopping" /\ result' = res

Parse ==
  /\ parser = "parsing" /\ tokens # <<>> /\ scan # "panic"
  /\ tokens' = Tail(tokens)
  /\ LET tok == Head(tokens)
         anc == Parsed(tok, ancestors)
     IN  /\ ancestors' = IF Fails(anc) THEN ancestors ELSE anc
         /\ \/ Fails(anc) /\ Ends(anc[1].kind)
            \/ ~Fails(anc) /\ tok.typ = "EOF" /\ Ends("tree")
            \/ ~Fails(anc) /\ tok.typ # "EOF" /\ UNCHANGED <<parser, result>>
         /\ hasExtend' = (hasExtend \/ (~Fails(anc) /\ tok.typ \in {"statement", "code"} /\ tok.kind = "extends"))
         /\ header' = IF header = "body" \/ Len(ancestors) > 2 THEN header ELSE Header(tok)
         /\ open' = Lexically(tok)
         /\ secondElse' = (secondElse \/ IsSecondElse(tok))
         /\ escaped' = (escaped \/ IsEscape(tok))
         /\ crossed' = (crossed \/ (tok.typ = "end URL" /\ parent.kind # "URL"))
  /\ UNCHANGED <<fileContext, at, contexts, pending, scan, out, blocks, odd, torn, imported>>

\* next reads a closed channel: the error of the lexer.
ReadError ==
  /\ parser = "parsing" /\ tokens = <<>> /\ scan = "error" /\ out = <<>>
  /\ Ends("SyntaxError")
  /\ UNCHANGED <<lexer, imported, hasExtend, header, ancestors, open, secondElse, crossed, escaped>>

\* Stop receives the tokens that are left, until the channel is closed.
Drain ==
  /\ parser = "stopping" /\ tokens # <<>> /\ scan # "panic"
  /\ tokens' = Tail(tokens)
  /\ UNCHANGED <<fileContext, at, contexts, pending, scan, out, blocks, odd, torn, parsing>>

ReturnAtOnce ==
  /\ parser = "stopping"
  /\ parser' = "returned"
  /\ UNCHANGED <<lexer, imported, hasExtend, header, ancestors, result, open, secondElse, crossed, escaped>>

Return ==
  /\ parser = "stopping" /\ tokens = <<>> /\ Closed
  /\ parser' = "returned"
  /\ UNCHANGED <<lexer, imported, hasExtend, header, ancestors, result, open, secondElse, crossed, escaped>>

\* The text nests no more than the bounds of the model; what is left of it after an error is shows.
Bounded == Len(ancestors) + Len(tokens) + Len(out) <= MaxAncestors

Lex == scan # "panic" /\ parser = "parsing" /\ Bounded /\ Symbol /\ UNCHANGED parsing
LexRest == scan # "panic" /\ parser = "stopping" /\ lexShow /\ UNCHANGED parsing
LexEnd == scan # "panic" /\ (EndOfFile \/ EndOfFileInCode) /\ UNCHANGED parsing
LexSend == scan # "panic" /\ Send /\ UNCHANGED parsing

Spec0 == Init /\ ParserInit

Next == Lex \/ LexRest \/ LexEnd \/ LexSend \/ Parse \/ ReadError \/ Drain \/ Return

Spec == Spec0 /\ [][Next]_vars

(***************************************************************************)
(* Fairness: the text is finite, so the lexer reaches its end (strong, as  *)
(* LexEnd is not enabled while there are tokens to send); the two          *)
(* goroutines are scheduled.                                               *)
(***************************************************************************)
Fairness == SF_vars(LexEnd) /\ WF_vars(LexSend) /\ WF_vars(Parse) /\ WF_vars(ReadError)
            /\ WF_vars(Drain) /\ WF_vars(Return)
FairSpec == Spec /\ Fairness

----------------------------------------------------------------------------
(* Properties                                                              *)

\* parse panics with a syntax error and nothing else, as its comment tells: no text makes the parser
\* panic with another value, that the callers do not expect.
OnlySyntaxErrors == result # "panic"

\* Apart from an else after an else, from a URL that ends in a block that starts in it, and from a
\* brace that closes the statements between {%% and %%} as it follows a label, there is always a place
\* in the tree for the node of a statement that has been accepted: no case list is empty when its last
\* case is taken, no node is added to a macro or raw statement (addNode).
PanicHasAReason == result = "panic" => secondElse \/ crossed \/ escaped

\* A context is kept for every block from the first macro or using statement on, and it is the one
\* the block started in: end restores the context of the text around the block that it ends.  Raw
\* and labelled statements in a macro, that are ended and not kept, are the exception.
NestsContexts(b) == b.kind \in {"macro", "using"}
IsOutermost(o, bs) == /\ o > Len(bs) \/ NestsContexts(bs[o])
                      /\ \A j \in 1..o - 1 : ~NestsContexts(bs[j])
Kept == LET outer == CHOOSE o \in 1..Len(blocks) + 1 : IsOutermost(o, blocks)
        IN  [n \in 1..Len(blocks) - outer + 1 |-> blocks[outer + n - 1].ctx]
ContextsFollowBlocks == ~odd => contexts = Kept

\* The nodes that are open are those of the block statements that are open in the text, in the same
\* order, whatever labels and chains of else if are in between.
Innermost(anc) == LET inChain(i) == i > 1 /\ anc[i].kind = "If" /\ anc[i - 1].kind = "If"
                  IN  {i \in DOMAIN anc : /\ anc[i].kind \in {"If", "For", "ForRange", "Switch", "Select",
                                                             "Macro", "Using", "Raw"}
                                          /\ ~inChain(i)}
BlocksMatch ==
  (/\ parser = "parsing" /\ ~crossed /\ ~escaped
   /\ \A i \in DOMAIN ancestors : ancestors[i].kind \notin {"Statements", "Package"})
    => LET nodes == Innermost(ancestors)
       IN  Cardinality(nodes) = Len(open)
           /\ \A i \in nodes : open[Cardinality({j \in nodes : j <= i})] = ancestors[i].kind

\* Outside of macros and using statements, the text after a tag that is not of a script or style is in
\* the context of the file: what the context of a content is does not depend on the tags before.  A
\* macro, using or block that starts or ends in a tag is the exception.
TagReturns ==
  [][/\ at.ctx \in TagContexts /\ at'.ctx \notin TagContexts /\ at.tag \notin {"script", "style"}
     /\ contexts = <<>> /\ contexts' = <<>> /\ ~torn'
     => at'.ctx = fileContext]_vars

\* The parser always returns, and only when the lexer has ended: no text and no error leaves the
\* goroutine of the lexer waiting to send.
ParserReturns == <>(scan = "panic" \/ (parser = "returned" /\ Closed))
=============================================================================
