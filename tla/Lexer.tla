------------------------------- MODULE Lexer -------------------------------
(***************************************************************************)
(* The lexer of a template file, src/internal/compiler/lexer.go: a         *)
(* goroutine that reads the text, follows the context the text is in       *)
(* (HTML, a tag, the value of an attribute, a JavaScript string, ...) and  *)
(* sends tokens on a channel.  The context of a token decides how a value  *)
(* is shown there, so following it wrongly shows a value wrongly.          *)
(*                                                                         *)
(* The text is any sequence of symbols of Symbols: a symbol is a chunk of  *)
(* text that the lexer tells apart ("<script", a quote, "//", ...).  A     *)
(* show, comment or statement is one symbol and one token: the code in it  *)
(* is modelled in LexCode.  Lines, columns and positions are left out.     *)
(***************************************************************************)
EXTENDS Naturals, Sequences, SequencesExt

CONSTANTS Formats,      \* the formats of the file to read
          Symbols,      \* for every format, the symbols the text is made of
          Statements,   \* for every format, the kinds of the statements between {% and %}
          Bodies,       \* for every format, the formats of the bodies of macros and using statements
          Code,         \* for every format, the kinds of the code between {%% and %%}
          MaxNested,    \* for every format, bound on the blocks that a text nests
          Buffer        \* capacity of the channel of tokens

ASSUME LexerAssumption == MaxNested \in [Formats -> Nat] /\ Buffer \in Nat \ {0}

\* The contexts of a format, that come before the others in the order of ast.Context.
FormatContexts == {"Text", "HTML", "CSS", "JS", "JSON", "Markdown"}

\* A file is a program or a template in one of the formats.
ASSUME FormatsAssumption == Formats \subseteq FormatContexts \cup {"Program"}

VARIABLES
  fileContext,  \* the context of the file's format
  at,           \* where the lexer is in the text
  contexts,     \* contexts of the blocks nested in a macro or using statement
  pending,      \* text scanned and not emitted yet: "none", "blank" or "text"
  scan,         \* what it scans: "text", "raw", "code"; how it ended: "error", "closed", "panic"
  out,          \* the tokens to send before it goes on
  tokens,       \* the channel of tokens
  blocks,       \* ghost: the open blocks, with the contexts they started in
  odd,          \* ghost: a raw or labelled statement was nested in a macro or using
  torn          \* ghost: a macro, using or block has started or ended in a tag, and not in its content

lexer == <<fileContext, at, contexts, pending, scan, out, tokens, blocks, odd, torn>>

(***************************************************************************)
(* at.ctx is the context, at.tag and at.attr the current tag and           *)
(* attribute, at.after the context of the tag's content, at.value what the *)
(* value of the attribute is so far, at.stale whether a token has been     *)
(* emitted in the value, so that at.index is no more an index in it,       *)
(* at.quote the quote of the string or attribute, at.url whether a URL is  *)
(* open, at.comment the JavaScript comment, at.spaces whether the Markdown *)
(* line is blank, at.backslash whether the last symbol was a backslash.    *)
(***************************************************************************)
StartOf(format) ==
  [ctx |-> format, tag |-> "none", attr |-> "none",
   after |-> IF format = "Markdown" THEN "Markdown" ELSE "HTML",
   value |-> "none", stale |-> FALSE, quote |-> "none", url |-> FALSE,
   comment |-> "none", spaces |-> TRUE, backslash |-> FALSE]

CodeBlocks == {"TabCodeBlock", "SpacesCodeBlock"}
Attributes == {"QuotedAttr", "UnquotedAttr"}
TagContexts == {"Tag"} \cup Attributes
isHTML == fileContext \in {"HTML", "Markdown"}

isSpace(c) == c.is \in {"space", "newline", "indented line"}
isQuote(c, q) == c.is = "quote" /\ c.quote = q

\* The attributes of the model whose value is a URL.
containsURL(tag, attr) == attr = "xmlns" \/ <<tag, attr>> \in {<<"a", "href">>, <<"script", "src">>}

\* What follows a URL in Markdown and cannot be part of it.
isMarkdownEndURL(c) == isSpace(c) \/ c.is \in {"tag", "end tag", "quote"}

Resumes(a) == [a EXCEPT !.quote = "none", !.ctx = fileContext]

----------------------------------------------------------------------------
(* What a symbol of text does in each context.                             *)

\* A tag name after "<": its content is in the context of a script, of a style or of the file.
scanTag(a, c) ==
  [a EXCEPT !.tag = c.name, !.ctx = "Tag",
            !.after = CASE c.name = "script" -> "JS"
                        [] c.name = "style"  -> "CSS"
                        [] OTHER             -> @]

InHTML(a, c) == IF c.is = "tag" THEN scanTag(a, c) ELSE a

scanCodeBlock(a, c) == [a EXCEPT !.ctx = IF c.is = "indented line" THEN "TabCodeBlock" ELSE "Markdown"]

MarkdownURL(a, c) ==
  IF a.url THEN [a EXCEPT !.url = ~isMarkdownEndURL(c)]
  ELSE [a EXCEPT !.url = c.is = "http"]

InMarkdown(a, c) ==
  LET blank == a.spaces /\ isSpace(c)
      b     == IF a.backslash /\ c.is \notin {"newline", "indented line", "http"} THEN a
               ELSE InHTML(MarkdownURL(a, c), c)
  IN  IF c.is \in {"newline", "indented line"}
        THEN IF blank THEN scanCodeBlock(b, c) ELSE [b EXCEPT !.spaces = TRUE]
        ELSE [b EXCEPT !.spaces = blank]

InCodeBlock(a, c) == IF c.is \in {"newline", "indented line"} THEN scanCodeBlock(a, c) ELSE a

\* The symbols with a ">" in them.
Closes(c) == c.is \in {">", "end tag"}

EndOfTagOnly(a) == [a EXCEPT !.ctx = a.after, !.tag = "none"]

\* The end of a tag: the context of its content, that for the next tag is that of the file.
EndOfTag(a) == [a EXCEPT !.ctx = a.after, !.tag = "none", !.after = fileContext]

\* An attribute and the start of its value.
scanAttribute(a, c) ==
  [a EXCEPT !.attr = c.name, !.quote = c.quote, !.value = "none", !.stale = FALSE,
            !.ctx = IF c.quote = "none" THEN "UnquotedAttr" ELSE "QuotedAttr",
            !.url = IF containsURL(a.tag, c.name) THEN TRUE ELSE @]

InTag(a, c) ==
  CASE Closes(c)     -> EndOfTag(a)
    [] isSpace(c)    -> a
    [] c.is = "attr" -> scanAttribute(a, c)
    [] OTHER         -> [a EXCEPT !.attr = "none"]

\* Whether c ends the value of the attribute.
EndsAttr(a, c) ==
  \/ a.ctx = "QuotedAttr" /\ isQuote(c, a.quote)
  \/ a.ctx = "UnquotedAttr" /\ (Closes(c) \/ isSpace(c))

\* The context of the content of a script or style with the given attribute type.
TypeContext(tag, value, after) ==
  CASE tag = "script" /\ value = "other"               -> fileContext
    [] tag = "script" /\ value = "application/ld+json" -> "JSON"
    [] tag = "style" /\ value \notin {"none", "text/css"}  -> fileContext
    [] OTHER                                           -> after

EndOfAttr(a, c, value) ==
  LET b == [a EXCEPT !.ctx = "Tag", !.attr = "none", !.quote = "none", !.url = FALSE,
                     !.value = "none", !.stale = FALSE,
                     !.after = IF a.attr = "type" /\ ~a.url THEN TypeContext(a.tag, value, @) ELSE @]
  IN  IF a.ctx = "UnquotedAttr" /\ Closes(c) THEN EndOfTag(b) ELSE b

\* The value of an attribute counts if it is the type of a script or style.
IsType(a) == a.attr = "type" /\ a.tag \in {"script", "style"}

InAttr(a, c) ==
  IF ~IsType(a) THEN a
  ELSE [a EXCEPT !.value = CASE c.is = "type" /\ @ = "none" -> c.value
                             [] isSpace(c) /\ @ # "module" -> @
                             [] OTHER -> "other"]

\* A string starts in CSS, JavaScript or JSON, or the tag that contains it ends.
InCSS(a, c) ==
  CASE isHTML /\ c.is = "end tag" /\ c.name = "style" -> Resumes(a)
    [] c.is = "quote" -> [a EXCEPT !.ctx = "CSSString", !.quote = c.quote]
    [] OTHER -> a

InJS(a, c) ==
  IF isHTML /\ c.is = "end tag" /\ c.name = "script"
    THEN [a EXCEPT !.ctx = fileContext, !.comment = "none"]
    ELSE CASE a.comment = "line" ->
                [a EXCEPT !.comment = IF c.is \in {"newline", "indented line"} THEN "none" ELSE @]
           [] a.comment = "block" -> [a EXCEPT !.comment = IF c.is = "*/" THEN "none" ELSE @]
           [] a.comment = "none" /\ c.is = "//" -> [a EXCEPT !.comment = "line"]
           [] a.comment = "none" /\ c.is = "/*" -> [a EXCEPT !.comment = "block"]
           [] a.comment = "none" /\ c.is = "quote" -> [a EXCEPT !.ctx = "JSString", !.quote = c.quote]
           [] OTHER -> a

InJSON(a, c) ==
  CASE isHTML /\ c.is = "end tag" /\ c.name = "script" -> Resumes(a)
    [] isQuote(c, "double") -> [a EXCEPT !.ctx = "JSONString", !.quote = c.quote]
    [] OTHER -> a

\* A string ends with its quote, not escaped, or with the tag that contains it.
InString(a, c, language, tag) ==
  CASE isHTML /\ c.is = "end tag" /\ c.name = tag -> Resumes(a)
    [] isQuote(c, a.quote) /\ ~a.backslash -> [a EXCEPT !.ctx = language, !.quote = "none"]
    [] OTHER -> a

Strings == {"CSSString", "JSString", "JSONString"}

Step(a, c) ==
  CASE a.ctx = "HTML"       -> InHTML(a, c)
    [] a.ctx = "Markdown"   -> InMarkdown(a, c)
    [] a.ctx \in CodeBlocks -> InCodeBlock(a, c)
    [] a.ctx = "Tag"        -> InTag(a, c)
    [] a.ctx \in Attributes -> InAttr(a, c)
    [] a.ctx = "CSS"        -> InCSS(a, c)
    [] a.ctx = "JS"         -> InJS(a, c)
    [] a.ctx = "JSON"       -> InJSON(a, c)
    [] a.ctx = "CSSString"  -> InString(a, c, "CSS", "style")
    [] a.ctx = "JSString"   -> InString(a, c, "JS", "script")
    [] a.ctx = "JSONString" -> InString(a, c, "JSON", "script")
    [] OTHER                -> a

\* A backslash counts in Markdown, where it escapes any symbol, and in the strings.
Backslash(a, c) ==
  c.is = "backslash" /\ \/ a.ctx \in Strings
                        \/ a.ctx = "Markdown" /\ ~a.backslash

----------------------------------------------------------------------------
(* Tokens                                                                  *)

Token(typ) == [typ |-> typ, ctx |-> at.ctx]
Statement(kind) == [typ |-> "statement", ctx |-> at.ctx, kind |-> kind]
PendingText == IF pending = "none" THEN <<>> ELSE <<[typ |-> "text", ctx |-> "Text", blank |-> pending = "blank"]>>

Init ==
  /\ fileContext \in Formats
  /\ LET start == StartOf(IF fileContext = "Program" THEN "Text" ELSE fileContext)
     IN  at \in IF fileContext = "Markdown" THEN {start, [start EXCEPT !.ctx = "TabCodeBlock"]} ELSE {start}
  /\ contexts = <<>>
  /\ pending = "none"
  /\ scan = IF fileContext = "Program" THEN "code" ELSE "text"
  /\ out = <<>> /\ tokens = <<>>
  /\ blocks = <<>> /\ odd = FALSE /\ torn = FALSE

\* emit blocks when the channel is full.
Send ==
  /\ out # <<>> /\ Len(tokens) < Buffer
  /\ tokens' = Append(tokens, Head(out)) /\ out' = Tail(out)
  /\ UNCHANGED <<fileContext, at, contexts, pending, scan, blocks, odd, torn>>

Scans(what) == scan = what /\ out = <<>>

\* The lexer moves to b after the symbol c, with the tokens of a URL that starts or ends.
Moves(b, c) ==
  /\ at' = [b EXCEPT !.backslash = Backslash(at, c)]
  /\ out' = IF b.url = at.url THEN <<>>
            ELSE PendingText \o <<[typ |-> IF b.url THEN "start URL" ELSE "end URL",
                                    ctx |-> IF b.url THEN b.ctx ELSE at.ctx]>>
  /\ pending' = CASE ~at.url /\ b.url /\ b.ctx = "QuotedAttr" -> "none"
                  [] isSpace(c) /\ (pending # "text" \/ b.url # at.url) -> "blank"
                  [] OTHER -> "text"
  /\ UNCHANGED <<fileContext, contexts, scan, tokens, blocks, odd, torn>>

\* A symbol that only one context tells apart is, in the others, the same as other symbols.
Told(c) == /\ c.is = "attr" => at.ctx = "Tag"
           /\ c.is = "type" => at.ctx \in Attributes
           /\ c.is = "http" => at.ctx = "Markdown"

Text(c) == Scans("text") /\ Told(c) /\ ~EndsAttr(at, c) /\ Moves(Step(at, c), c)

\* The value of an attribute ends.  The value of type is read from the text, that is no more there
\* if a token has been emitted in it: what is read then is another text.
EndAttr(c) ==
  /\ Scans("text") /\ EndsAttr(at, c)
  /\ \E value \in IF at.stale THEN {"none", "module", "application/ld+json", "other"} ELSE {IF c.is = "end tag" THEN "other" ELSE at.value} :
       Moves(EndOfAttr(at, c, value), c)

\* The value was before the text that has been emitted: the slice of the text is out of its bounds.
StaleIndex(c) ==
  /\ Scans("text") /\ EndsAttr(at, c) /\ at.stale
  /\ scan' = "panic"
  /\ UNCHANGED <<fileContext, at, contexts, pending, out, tokens, blocks, odd, torn>>

----------------------------------------------------------------------------
(* Code in the text                                                        *)

\* A backslash before a brace makes it text, in Markdown.
Opens == Scans("text") /\ ~(at.ctx = "Markdown" /\ at.backslash)

\* The lexer emits the pending text, that is no more in src, and the tokens of the code.
Emits(ts, a) ==
  /\ out' = PendingText \o ts
  /\ pending' = "none"
  /\ at' = [a EXCEPT !.stale = @ \/ (IsType(at) /\ at.ctx \in Attributes),
                     !.spaces = FALSE, !.backslash = FALSE]

lexShow ==
  /\ Opens /\ Emits(<<Token("show")>>, at)
  /\ UNCHANGED <<fileContext, contexts, scan, tokens, blocks, odd, torn>>

lexComment ==
  /\ Opens /\ Emits(<<Token("comment")>>, at)
  /\ UNCHANGED <<fileContext, contexts, scan, tokens, blocks, odd, torn>>

Nesting == \E i \in 1..Len(blocks) : blocks[i].kind \in {"macro", "using"}

Nests(kind) ==
  /\ Len(blocks) < MaxNested[fileContext]
  /\ blocks' = Append(blocks, [kind |-> kind, ctx |-> at.ctx])

lexOnlyBlock(kind) ==
  /\ Opens /\ kind \in {"if", "for", "range", "switch", "select"}
  /\ Nests(kind)
  /\ Emits(<<Statement(kind)>>, at)
  /\ UNCHANGED <<fileContext, contexts, scan, tokens, odd, torn>>

\* if, for, switch and select: the context is kept if they are nested in a macro or using statement.
lexBlock(kind) ==
  /\ Opens /\ kind \in {"if", "for", "range", "switch", "select"}
  /\ Nests(kind)
  /\ contexts' = IF contexts # <<>> THEN Append(contexts, at.ctx) ELSE contexts
  /\ Emits(<<Statement(kind)>>, at)
  /\ UNCHANGED <<fileContext, scan, tokens, odd, torn>>

\* The tag that the lexer is in, and the context of its content, are not kept with the context.
Tears(ctx) == at.ctx \in TagContexts /\ ctx \notin TagContexts

\* A macro declaration and a statement with using keep the context and may set that of their body.
lexMacro(kind, body) ==
  /\ Opens /\ kind \in {"macro", "using"} /\ body \in FormatContexts \cup {at.ctx}
  /\ Nests(kind)
  /\ contexts' = Append(contexts, at.ctx)
  /\ Emits(<<Statement(kind)>>, [at EXCEPT !.ctx = body])
  /\ torn' = (torn \/ Tears(body))
  /\ UNCHANGED <<fileContext, scan, tokens, odd>>

\* The first token of a labelled statement is its label: the context is not kept.
lexLabelled(kind) ==
  /\ Opens /\ kind \in {"labelled for", "labelled switch"}
  /\ Nests(kind)
  /\ odd' = (odd \/ Nesting)
  /\ Emits(<<Statement(kind)>>, at)
  /\ UNCHANGED <<fileContext, contexts, scan, tokens, torn>>

\* The context is restored, if one has been kept.
lexEnd(kind) ==
  /\ scan \in {"text", "raw"} /\ out = <<>> /\ (scan = "text" => Opens)
  /\ kind \in {"end", "end of another"} /\ (scan = "raw" => kind = "end")
  /\ contexts' = IF contexts = <<>> THEN contexts ELSE Front(contexts)
  /\ blocks' = IF blocks = <<>> THEN blocks ELSE Front(blocks)
  /\ LET restored == IF contexts = <<>> THEN at.ctx ELSE Last(contexts)
     IN  /\ Emits(<<Statement(kind)>>, [at EXCEPT !.ctx = restored])
         /\ torn' = (torn \/ Tears(restored))
  /\ scan' = "text"
  /\ UNCHANGED <<fileContext, tokens, odd>>

\* The content of a raw statement is text up to its end, whatever is in it.
lexRaw ==
  /\ Opens
  /\ Nests("raw")
  /\ odd' = (odd \/ Nesting)
  /\ Emits(<<Statement("raw")>>, at)
  /\ scan' = "raw"
  /\ UNCHANGED <<fileContext, contexts, tokens, torn>>

skipRawContent ==
  /\ Scans("raw")
  /\ pending' = "text"
  /\ UNCHANGED <<fileContext, at, contexts, scan, out, tokens, blocks, odd, torn>>

lexOther(kind) ==
  /\ Opens
  /\ kind \in {"else", "else if", "case", "default", "simple", "extends", "import", "declaration",
               "Name", "wrong"}
  /\ Emits(<<Statement(kind)>>, at)
  /\ UNCHANGED <<fileContext, contexts, scan, tokens, blocks, odd, torn>>

\* Code that cannot be scanned, or that the end of the file cuts.
LexicalError ==
  /\ Scans("text") \/ Scans("code")
  /\ scan' = "error"
  /\ out' \in {<<>>, PendingText}
  /\ UNCHANGED <<fileContext, at, contexts, pending, tokens, blocks, odd, torn>>

\* lexComment looks for the brace after the last # of the text.
CutComment ==
  /\ Opens /\ scan' = "panic"
  /\ UNCHANGED <<fileContext, at, contexts, pending, out, tokens, blocks, odd, torn>>

\* The code between {%% and %%}, and that of a program, has no contexts.
lexStatements ==
  /\ Opens /\ Code[fileContext] # {} /\ Emits(<<Token("{%%")>>, at)
  /\ scan' = "code"
  /\ UNCHANGED <<fileContext, contexts, tokens, blocks, odd, torn>>

lexCode(kind) ==
  /\ Scans("code")
  /\ out' = <<[typ |-> "code", kind |-> kind, ctx |-> at.ctx]>>
  /\ UNCHANGED <<fileContext, at, contexts, pending, scan, tokens, blocks, odd, torn>>

lexEndStatements ==
  /\ Scans("code") /\ fileContext # "Program"
  /\ out' = <<Token("%%}")>>
  /\ scan' = "text"
  /\ UNCHANGED <<fileContext, at, contexts, pending, tokens, blocks, odd, torn>>

\* The text ends: the last tokens are sent and the channel is closed.  A URL is closed only in Markdown.
EndOfFile ==
  /\ \/ Scans("text") \/ Scans("raw")
     \/ Scans("code") /\ fileContext = "Program"
  /\ out' = PendingText \o (IF at.url /\ at.ctx = "Markdown" THEN <<Token("end URL")>> ELSE <<>>)
                        \o <<Token("EOF")>>
  /\ scan' = "closed"
  /\ pending' = "none"
  /\ UNCHANGED <<fileContext, at, contexts, tokens, blocks, odd, torn>>

\* The text ends before %%}.
EndOfFileInCode ==
  /\ Scans("code") /\ fileContext # "Program"
  /\ scan' = "error"
  /\ UNCHANGED <<fileContext, at, contexts, pending, out, tokens, blocks, odd, torn>>

Symbol == \/ \E c \in Symbols[fileContext] : Text(c) \/ EndAttr(c) \/ StaleIndex(c)
          \/ lexShow \/ lexComment \/ lexRaw \/ skipRawContent \/ CutComment \/ LexicalError
          \/ lexStatements \/ lexEndStatements
          \/ \E kind \in Statements[fileContext] : lexBlock(kind) \/ lexLabelled(kind) \/ lexEnd(kind) \/ lexOther(kind)
          \/ \E kind \in Statements[fileContext], body \in Bodies[fileContext] \cup {at.ctx} : lexMacro(kind, body)
          \/ \E kind \in Code[fileContext] : lexCode(kind)

\* The channel is closed when the lexer has ended and what it had to send is sent.
Closed == scan \in {"closed", "error"} /\ out = <<>>
============================================================================
