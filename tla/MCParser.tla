------------------------------ MODULE MCParser ------------------------------
(***************************************************************************)
(* A small instance of Parser for TLC.  A file in HTML or Markdown has the *)
(* symbols that change the context and few statements; a text file has all *)
(* the statements, and a program all the code, and nothing else.           *)
(***************************************************************************)
EXTENDS Parser

Sym(is) == [is |-> is]
Quotes == {[is |-> "quote", quote |-> q] : q \in {"double", "single"}}
MCSymbols ==
  [f \in Formats |->
     CASE f = "HTML" ->
            {Sym("letters"), Sym("newline"), Sym(">"), Sym("backslash"), Sym("//")}
              \cup Quotes
              \cup {[is |-> "tag", name |-> n] : n \in {"script", "a"}}
              \cup {[is |-> "end tag", name |-> "script"]}
              \cup {[is |-> "attr", name |-> "href", quote |-> "none"], [is |-> "attr", name |-> "type", quote |-> "double"]}
              \cup {[is |-> "type", value |-> "application/ld+json"]}
       [] f = "Markdown" ->
            {Sym("newline"), Sym("indented line"), Sym(">"), Sym("http"), Sym("backslash")}
              \cup {[is |-> "tag", name |-> n] : n \in {"script", "a"}}
       [] f = "JS" -> {Sym("letters")}
       [] OTHER -> {Sym("letters"), Sym("space")}]
MCStatements ==
  [f \in Formats |->
     CASE f = "Text" ->
            {"if", "range", "labelled for", "switch", "case", "else", "else if", "end", "end of another", "macro",
             "using", "Name", "extends", "import", "declaration"}
       [] f = "Program" -> {}
       [] f = "JS" -> {"if", "macro", "else", "end"}
       [] f = "HTML" -> {"if", "end"}
       [] OTHER -> {"if", "labelled for", "end", "macro"}]
MCBodies ==
  [f \in Formats |->
     CASE f = "Markdown" -> {"HTML"}
       [] f = "JS"       -> {"Markdown"}
       [] OTHER          -> {}]
MCCode ==
  [f \in Formats |->
     CASE f = "Program" ->
            {"package", "import", "declaration", "func {", "if {", "range {", "switch {", "case:", "}", "} else {",
             "} else if {", "label:", "simple", ";", "goto"}
       [] f = "JS" -> {"if {", "range {", "}", "} else {", "label:", "simple", "func {", "extends"}
       [] OTHER -> {}]
MCMaxNested == [f \in Formats |-> IF f = "Text" THEN 2 ELSE 1]
=============================================================================
