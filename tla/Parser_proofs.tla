---------------------------- MODULE Parser_proofs ----------------------------
(***************************************************************************)
(* Proofs about the lexer and the parser of a file.                        *)
(***************************************************************************)
EXTENDS Parser, SequenceTheorems, FiniteSetTheorems, WellFoundedInduction, TLAPS

-----------------------------------------------------------------------------
(***************************************************************************)
(* What a symbol of text does to the place the lexer is in.                *)
(***************************************************************************)
Contexts == FormatContexts \cup CodeBlocks \cup TagContexts \cup Strings

\* The names, quotes and values that the place of the lexer may keep.
Words == {"none", "other"} \cup UNION {{c.name, c.quote, c.value} : c \in UNION {Symbols[f] : f \in Formats}}
WellFormed(c) == c.name \in Words /\ c.quote \in Words /\ c.value \in Words

Place == [ctx : Contexts, tag : Words, attr : Words, after : FormatContexts, value : Words,
          stale : BOOLEAN, quote : Words, url : BOOLEAN, comment : {"none", "line", "block"},
          spaces : BOOLEAN, backslash : BOOLEAN]

\* The contexts of the text of a file that is not HTML, out of its macros.
PlainContexts == {"Text", "CSS", "JS", "JSON"} \cup Strings

\* The content of the tag that the lexer is in, or of the next one, is in the context of the file,
\* unless it is in the tag of a script or style.
KnowsContent(a) ==
  a.ctx \notin TagContexts \/ a.tag \notin {"script", "style"} => a.after = fileContext

\* What the steps below have in common.
Follows(a, b) ==
  /\ b \in Place
  /\ KnowsContent(a) => KnowsContent(b)
  /\ ~isHTML /\ a.ctx \in PlainContexts => b.ctx \in PlainContexts
  /\ a.ctx \in TagContexts /\ b.ctx \notin TagContexts => b.ctx = a.after \/ a.tag \in {"script", "style"}

LEMMA ContextsInclude ==
    /\ \A f \in FormatContexts : f \in Contexts /\ f \notin TagContexts
    /\ \A s \in Strings : s \in Contexts /\ s \notin TagContexts
    /\ \A b \in CodeBlocks : b \in Contexts /\ b \notin TagContexts /\ b \notin PlainContexts
    /\ \A t \in TagContexts : t \in Contexts /\ t \notin PlainContexts
    /\ \A p \in PlainContexts : p \in Contexts
    /\ "Tag" \in TagContexts /\ \A t \in Attributes : t \in TagContexts /\ t # "Tag"
    /\ \A f \in {"HTML", "Markdown"} : f \in FormatContexts /\ f \notin PlainContexts
    /\ {"CSS", "JS", "JSON"} \subseteq FormatContexts
    /\ {"CSS", "JS", "JSON"} \cup Strings \subseteq PlainContexts
  BY DEF Contexts, FormatContexts, CodeBlocks, TagContexts, Attributes, Strings, PlainContexts

LEMMA CommonWords == "none" \in Words /\ "other" \in Words
  BY DEF Words

LEMMA SymbolsAreWellFormed ==
    ASSUME NEW f \in Formats, NEW c \in Symbols[f]
    PROVE  WellFormed(c)
  BY DEF WellFormed, Words

LEMMA InHTMLFollows ==
    ASSUME fileContext \in FormatContexts, NEW a \in Place, NEW c, WellFormed(c),
           a.ctx \in {"HTML", "Markdown"}
    PROVE  Follows(a, InHTML(a, c))
  <1>1. CASE c.is # "tag"
    BY <1>1, ContextsInclude DEF Follows, InHTML
  <1>2. CASE c.is = "tag"
    <2> DEFINE b == scanTag(a, c)
               after == CASE c.name = "script" -> "JS" [] c.name = "style" -> "CSS" [] OTHER -> a.after
    <2>1. after \in FormatContexts /\ (c.name \notin {"script", "style"} => after = a.after)
      BY ContextsInclude DEF Place
    <2>2. b = [a EXCEPT !.tag = c.name, !.ctx = "Tag", !.after = after]
      BY DEF scanTag, Place
    <2> HIDE DEF b, after
    <2>3. b \in Place /\ b.ctx = "Tag" /\ b.tag = c.name /\ b.after = after
      BY <2>1, <2>2, ContextsInclude DEF Place, WellFormed
    <2>4. InHTML(a, c) = b
      BY <1>2 DEF InHTML, b
    <2> QED
      BY <2>1, <2>3, <2>4, ContextsInclude DEF Follows, KnowsContent
  <1> QED
    BY <1>1, <1>2

LEMMA MarkdownFollows ==
    ASSUME fileContext \in FormatContexts, NEW a \in Place, NEW c, WellFormed(c), a.ctx = "Markdown"
    PROVE  Follows(a, InMarkdown(a, c))
  <1> DEFINE u == MarkdownURL(a, c)
             h == InHTML(u, c)
             b == IF a.backslash /\ c.is \notin {"newline", "indented line", "http"} THEN a ELSE h
             m == InMarkdown(a, c)
  <1>1. u \in Place /\ u.ctx = a.ctx /\ u.tag = a.tag /\ u.after = a.after
    BY DEF MarkdownURL, Place
  <1> HIDE DEF u
  <1>2. Follows(u, h)
    BY <1>1, InHTMLFollows
  <1>3. c.is \in {"newline", "indented line"} => b.ctx = "Markdown"
    BY <1>1 DEF InHTML
  <1> HIDE DEF h
  <1>4. b \in Place /\ (KnowsContent(a) => KnowsContent(b))
    BY <1>1, <1>2 DEF Follows, KnowsContent
  <1>5. /\ m \in Place /\ m.tag = b.tag /\ m.after = b.after
        /\ m.ctx = b.ctx \/ (b.ctx = "Markdown" /\ m.ctx \in CodeBlocks \cup {"Markdown"})
    <2> DEFINE s == scanCodeBlock(b, c)
    <2>1. \/ m = s /\ c.is \in {"newline", "indented line"}
          \/ \E x \in BOOLEAN : m = [b EXCEPT !.spaces = x]
      BY <1>1 DEF InMarkdown, u, h, Place, isSpace
    <2> HIDE DEF b, m
    <2>2. s \in Place /\ s.tag = b.tag /\ s.after = b.after /\ s.ctx \in CodeBlocks \cup {"Markdown"}
      BY <1>4, ContextsInclude DEF scanCodeBlock, Place, CodeBlocks
    <2>3. ASSUME NEW x \in BOOLEAN, m = [b EXCEPT !.spaces = x]
          PROVE  m \in Place /\ m.ctx = b.ctx /\ m.tag = b.tag /\ m.after = b.after
      BY <1>4, <2>3 DEF Place
    <2> HIDE DEF s
    <2> QED
      BY <1>3, <2>1, <2>2, <2>3
  <1> HIDE DEF b, m
  <1>6. KnowsContent(b) => KnowsContent(m)
    BY <1>5, ContextsInclude DEF KnowsContent
  <1> QED
    BY <1>4, <1>5, <1>6, ContextsInclude DEF Follows, m

LEMMA CodeBlockFollows ==
    ASSUME NEW a \in Place, NEW c, a.ctx \in CodeBlocks
    PROVE  Follows(a, InCodeBlock(a, c))
  <1> DEFINE b == InCodeBlock(a, c)
  <1>1. b \in Place /\ b.ctx \in CodeBlocks \cup {"Markdown"} /\ b.tag = a.tag /\ b.after = a.after
    BY ContextsInclude DEF InCodeBlock, scanCodeBlock, Place, CodeBlocks
  <1> HIDE DEF b
  <1> QED
    BY <1>1, ContextsInclude DEF Follows, KnowsContent, b

\* The end of a tag: its content is in the context that is known, and so is that of the next tag.
LEMMA EndOfTagFollows ==
    ASSUME fileContext \in FormatContexts, NEW a \in Place, a.ctx \in TagContexts
    PROVE  /\ EndOfTag(a) \in Place /\ KnowsContent(EndOfTag(a))
           /\ EndOfTag(a).ctx = a.after
  <1>1. EndOfTag(a) \in Place /\ EndOfTag(a).ctx = a.after /\ EndOfTag(a).after = fileContext
    BY ContextsInclude, CommonWords DEF EndOfTag, Place
  <1> QED
    BY <1>1 DEF KnowsContent

LEMMA TagFollows ==
    ASSUME fileContext \in FormatContexts, NEW a \in Place, NEW c, WellFormed(c), a.ctx = "Tag"
    PROVE  Follows(a, InTag(a, c))
  <1>0. a.ctx \in TagContexts /\ a.ctx \notin PlainContexts
    BY ContextsInclude
  <1>1. CASE Closes(c)
    <2>1. InTag(a, c) = EndOfTag(a)
      BY <1>1 DEF InTag, isSpace, Closes
    <2> QED
      BY <1>0, <2>1, EndOfTagFollows DEF Follows
  <1>2. CASE isSpace(c)
    BY <1>0, <1>2 DEF InTag, Follows, isSpace, Closes
  <1>3. CASE c.is = "attr"
    <2> DEFINE b == scanAttribute(a, c)
               ctx == IF c.quote = "none" THEN "UnquotedAttr" ELSE "QuotedAttr"
               url == IF containsURL(a.tag, c.name) THEN TRUE ELSE a.url
    <2>1. ctx \in Attributes /\ ctx \in Contexts /\ url \in BOOLEAN
      BY ContextsInclude DEF Attributes, Place
    <2>2. b = [a EXCEPT !.attr = c.name, !.quote = c.quote, !.value = "none", !.stale = FALSE,
                        !.ctx = ctx, !.url = url]
      BY DEF scanAttribute, Place
    <2> HIDE DEF ctx, url
    <2>3. b \in Place /\ b.ctx \in Attributes /\ b.tag = a.tag /\ b.after = a.after
      <3> DEFINE v == [a EXCEPT !.attr = c.name, !.quote = c.quote, !.value = "none", !.stale = FALSE]
      <3>1. v \in Place /\ v.tag = a.tag /\ v.after = a.after
        BY CommonWords DEF Place, WellFormed
      <3>2. b = [v EXCEPT !.ctx = ctx, !.url = url]
        BY <2>2
      <3> HIDE DEF v, b
      <3> QED
        BY <2>1, <3>1, <3>2 DEF Place
    <2>4. InTag(a, c) = b
      BY <1>3 DEF InTag, isSpace, Closes
    <2> HIDE DEF b
    <2> QED
      BY <1>0, <2>3, <2>4, ContextsInclude DEF Follows, KnowsContent
  <1>4. CASE ~Closes(c) /\ ~isSpace(c) /\ c.is # "attr"
    <2> DEFINE b == [a EXCEPT !.attr = "none"]
    <2>1. b \in Place /\ b.ctx = a.ctx /\ b.tag = a.tag /\ b.after = a.after
      BY CommonWords DEF Place
    <2>2. InTag(a, c) = b
      BY <1>4 DEF InTag
    <2> HIDE DEF b
    <2> QED
      BY <1>0, <2>1, <2>2 DEF Follows, KnowsContent
  <1> QED
    BY <1>1, <1>2, <1>3, <1>4

LEMMA AttrFollows ==
    ASSUME NEW a \in Place, NEW c, WellFormed(c), a.ctx \in Attributes
    PROVE  Follows(a, InAttr(a, c))
  <1> DEFINE value == CASE c.is = "type" /\ a.value = "none" -> c.value
                        [] isSpace(c) /\ a.value # "module" -> a.value
                        [] OTHER -> "other"
             b == InAttr(a, c)
  <1>1. value \in Words
    BY CommonWords DEF WellFormed, Place, isSpace
  <1>2. b = IF ~IsType(a) THEN a ELSE [a EXCEPT !.value = value]
    BY DEF InAttr, Place
  <1> HIDE DEF value, b
  <1>3. b \in Place /\ b.ctx = a.ctx /\ b.tag = a.tag /\ b.after = a.after
    BY <1>1, <1>2 DEF Place
  <1> QED
    BY <1>3, ContextsInclude DEF Follows, KnowsContent, b

LEMMA EndOfAttrFollows ==
    ASSUME fileContext \in FormatContexts, NEW a \in Place, NEW c, NEW value, a.ctx \in Attributes
    PROVE  Follows(a, EndOfAttr(a, c, value))
  <1> DEFINE content == IF a.attr = "type" /\ ~a.url THEN TypeContext(a.tag, value, a.after) ELSE a.after
             e == [a EXCEPT !.ctx = "Tag", !.attr = "none", !.quote = "none", !.url = FALSE]
             b == [e EXCEPT !.value = "none", !.stale = FALSE, !.after = content]
  <1>1. content \in FormatContexts /\ (a.tag \notin {"script", "style"} => content = a.after)
    BY ContextsInclude DEF TypeContext, Place
  <1>2. EndOfAttr(a, c, value) = IF a.ctx = "UnquotedAttr" /\ Closes(c) THEN EndOfTag(b) ELSE b
    BY DEF EndOfAttr, Place
  <1> HIDE DEF content
  <1>3. e \in Place /\ e.ctx = "Tag" /\ e.tag = a.tag
    BY ContextsInclude, CommonWords DEF Place
  <1> HIDE DEF e
  <1>4. b \in Place /\ b.ctx = "Tag" /\ b.tag = a.tag /\ b.after = content
    BY <1>1, <1>3, CommonWords DEF Place
  <1> HIDE DEF b
  <1>5. KnowsContent(a) => KnowsContent(b)
    BY <1>1, <1>4, ContextsInclude DEF KnowsContent
  <1>6. b.ctx \in TagContexts /\ a.ctx \in TagContexts /\ a.ctx \notin PlainContexts
    BY <1>4, ContextsInclude
  <1> QED
    BY <1>1, <1>2, <1>4, <1>5, <1>6, EndOfTagFollows DEF Follows

\* The content of a script or style, and the strings in it: the tag and what follows it are kept, and
\* the context is another of the content or, at the end of the tag, that of the file.
StaysIn(a, b) == /\ b \in Place /\ b.tag = a.tag /\ b.after = a.after
                 /\ b.ctx \in PlainContexts \/ (isHTML /\ b.ctx = fileContext)

\* A string starts or ends, or the tag that contains a script.
WithQuote(a, ctx, q) == [a EXCEPT !.ctx = ctx, !.quote = q]
WithoutComment(a) == [a EXCEPT !.ctx = fileContext, !.comment = "none"]

LEMMA SetsContext ==
    ASSUME NEW a \in Place, NEW ctx \in PlainContexts, NEW q \in Words
    PROVE  StaysIn(a, WithQuote(a, ctx, q))
  <1>1. ctx \in Contexts
    BY ContextsInclude
  <1> QED
    BY <1>1 DEF StaysIn, WithQuote, Place

LEMMA SetsComment ==
    ASSUME NEW a \in Place, a.ctx \in PlainContexts, NEW s \in {"none", "line", "block"}
    PROVE  StaysIn(a, [a EXCEPT !.comment = s])
  BY DEF StaysIn, Place

LEMMA EndsContent ==
    ASSUME isHTML, NEW a \in Place
    PROVE  StaysIn(a, Resumes(a)) /\ StaysIn(a, WithoutComment(a))
  <1>1. fileContext \in Contexts
    BY ContextsInclude DEF isHTML
  <1> QED
    BY <1>1, CommonWords DEF StaysIn, Resumes, WithoutComment, Place

LEMMA ContentFollows ==
    ASSUME fileContext \in FormatContexts, NEW a \in Place, NEW c, WellFormed(c),
           a.ctx \in {"CSS", "JS", "JSON"} \cup Strings
    PROVE  Follows(a, Step(a, c))
  <1>1. a.ctx \in PlainContexts /\ a.ctx \notin TagContexts /\ StaysIn(a, a)
    BY ContextsInclude DEF StaysIn
  <1>2. c.quote \in Words /\ "none" \in Words
    BY CommonWords DEF WellFormed
  <1>3. \A ctx \in {"CSS", "JS", "JSON"} \cup Strings : ctx \in PlainContexts
    BY ContextsInclude
  <1>4. StaysIn(a, Step(a, c))
    <2>1. CASE a.ctx = "CSS"
      <3>1. Step(a, c) = InCSS(a, c)
        BY <2>1 DEF Step, CodeBlocks, Attributes
      <3>2. CASE isHTML /\ c.is = "end tag" /\ c.name = "style"
        BY <3>1, <3>2, EndsContent DEF InCSS
      <3>3. CASE c.is = "quote"
        <4>1. InCSS(a, c) = WithQuote(a, "CSSString", c.quote)
          BY <3>3 DEF InCSS, WithQuote
        <4>2. "CSSString" \in PlainContexts
          BY <1>3 DEF Strings
        <4> QED
          BY <1>2, <3>1, <4>1, <4>2, SetsContext
      <3>4. CASE ~(isHTML /\ c.is = "end tag" /\ c.name = "style") /\ c.is # "quote"
        BY <1>1, <3>1, <3>4 DEF InCSS
      <3> QED
        BY <3>2, <3>3, <3>4
    <2>2. CASE a.ctx = "JS"
      <3>1. Step(a, c) = InJS(a, c)
        BY <2>2 DEF Step, CodeBlocks, Attributes
      <3>2. CASE isHTML /\ c.is = "end tag" /\ c.name = "script"
        <4>1. InJS(a, c) = WithoutComment(a)
          BY <3>2 DEF InJS, WithoutComment
        <4> QED
          BY <3>1, <3>2, <4>1, EndsContent
      <3> DEFINE ends == isHTML /\ c.is = "end tag" /\ c.name = "script"
      <3>3. CASE ~ends /\ \E s \in {"none", "line", "block"} : InJS(a, c) = [a EXCEPT !.comment = s]
        BY <1>1, <3>1, <3>3, SetsComment
      <3>4. CASE ~ends /\ a.comment = "none" /\ c.is = "quote"
        <4>1. InJS(a, c) = WithQuote(a, "JSString", c.quote)
          BY <3>4 DEF InJS, WithQuote
        <4>2. "JSString" \in PlainContexts
          BY <1>3 DEF Strings
        <4> QED
          BY <1>2, <3>1, <4>1, <4>2, SetsContext
      <3>5. CASE ~ends /\ a.comment = "none" /\ c.is \notin {"quote", "//", "/*"}
        BY <1>1, <3>1, <3>5 DEF InJS
      <3>6. CASE ~ends /\ a.comment = "none" /\ c.is \in {"//", "/*"}
        BY <3>3, <3>6 DEF InJS
      <3>7. CASE ~ends /\ a.comment \in {"line", "block"}
        <4>1. InJS(a, c) = [a EXCEPT !.comment = IF c.is \in {"newline", "indented line"} THEN "none" ELSE a.comment]
              \/ InJS(a, c) = [a EXCEPT !.comment = IF c.is = "*/" THEN "none" ELSE a.comment]
          BY <3>7 DEF InJS, Place
        <4> QED
          BY <3>3, <3>7, <4>1
      <3> QED
        BY <3>2, <3>4, <3>5, <3>6, <3>7 DEF Place
    <2>3. CASE a.ctx = "JSON"
      <3>1. Step(a, c) = InJSON(a, c)
        BY <2>3 DEF Step, CodeBlocks, Attributes
      <3>2. CASE isHTML /\ c.is = "end tag" /\ c.name = "script"
        <4>1. InJSON(a, c) = Resumes(a)
          BY <3>2 DEF InJSON, isQuote
        <4> QED
          BY <3>1, <3>2, <4>1, EndsContent
      <3>3. CASE c.is = "quote" /\ isQuote(c, "double")
        <4>1. InJSON(a, c) = WithQuote(a, "JSONString", c.quote)
          BY <3>3 DEF InJSON, WithQuote
        <4>2. "JSONString" \in PlainContexts
          BY <1>3 DEF Strings
        <4> QED
          BY <1>2, <3>1, <4>1, <4>2, SetsContext
      <3>4. CASE ~(isHTML /\ c.is = "end tag" /\ c.name = "script") /\ ~isQuote(c, "double")
        BY <1>1, <3>1, <3>4 DEF InJSON
      <3> QED
        BY <3>2, <3>3, <3>4 DEF isQuote
    <2>4. CASE a.ctx \in Strings
      <3>1. PICK language \in {"CSS", "JS", "JSON"}, tag \in {"style", "script"} :
                 Step(a, c) = InString(a, c, language, tag)
        <4>1. a.ctx \in {"CSSString", "JSString", "JSONString"}
          BY <2>4 DEF Strings
        <4> QED
          BY <4>1 DEF Step, CodeBlocks, Attributes
      <3>2. CASE isHTML /\ c.is = "end tag" /\ c.name = tag
        <4>1. InString(a, c, language, tag) = Resumes(a)
          BY <3>2 DEF InString, isQuote
        <4> QED
          BY <3>1, <3>2, <4>1, EndsContent
      <3>3. CASE ~(isHTML /\ c.is = "end tag" /\ c.name = tag) /\ isQuote(c, a.quote) /\ ~a.backslash
        <4>1. InString(a, c, language, tag) = WithQuote(a, language, "none")
          BY <3>3 DEF InString, WithQuote
        <4>2. language \in PlainContexts
          BY <1>3
        <4> QED
          BY <1>2, <3>1, <4>1, <4>2, SetsContext
      <3>4. CASE ~(isHTML /\ c.is = "end tag" /\ c.name = tag) /\ ~(isQuote(c, a.quote) /\ ~a.backslash)
        BY <1>1, <3>1, <3>4 DEF InString
      <3> QED
        BY <3>2, <3>3, <3>4
    <2> QED
      BY <2>1, <2>2, <2>3, <2>4
  <1> QED
    BY <1>1, <1>4 DEF StaysIn, Follows, KnowsContent

LEMMA StepFollows ==
    ASSUME fileContext \in FormatContexts, NEW a \in Place, NEW c, WellFormed(c)
    PROVE  Follows(a, Step(a, c))
  <1>1. CASE a.ctx = "HTML"
    BY <1>1, InHTMLFollows DEF Step, CodeBlocks, Attributes
  <1>2. CASE a.ctx = "Markdown"
    BY <1>2, MarkdownFollows DEF Step, CodeBlocks, Attributes
  <1>3. CASE a.ctx \in CodeBlocks
    BY <1>3, CodeBlockFollows DEF Step, CodeBlocks, Attributes
  <1>4. CASE a.ctx = "Tag"
    BY <1>4, TagFollows DEF Step, CodeBlocks, Attributes
  <1>5. CASE a.ctx \in Attributes
    BY <1>5, AttrFollows DEF Step, CodeBlocks, Attributes
  <1>6. CASE a.ctx \in {"CSS", "JS", "JSON"} \cup Strings
    BY <1>6, ContentFollows
  <1>7. CASE a.ctx = "Text"
    BY <1>7, ContextsInclude DEF Step, Follows, CodeBlocks, Attributes, FormatContexts
  <1> QED
    BY <1>1, <1>2, <1>3, <1>4, <1>5, <1>6, <1>7
       DEF Place, Contexts, FormatContexts, TagContexts, CodeBlocks

-----------------------------------------------------------------------------
(***************************************************************************)
(* The inductive invariant of the lexer.                                   *)
(***************************************************************************)
Kinds == {"if", "for", "range", "switch", "select", "labelled for", "labelled switch", "macro", "using", "raw"}
Blocks == [kind : Kinds, ctx : Contexts]

LexerTypeOK ==
  /\ fileContext \in Formats
  /\ at \in Place
  /\ contexts \in Seq(Contexts)
  /\ blocks \in Seq(Blocks)
  /\ odd \in BOOLEAN /\ torn \in BOOLEAN
  /\ fileContext = "Program" => scan \notin {"text", "raw"}

\* Where the contexts that are kept start in the blocks, and that they are those of the blocks.
KeepsFrom(o, cs, bs) == /\ IsOutermost(o, bs)
                        /\ Len(cs) = Len(bs) - o + 1
                        /\ \A n \in 1..Len(cs) : cs[n] = bs[o + n - 1].ctx
Keeps(cs, bs) == \E o \in 1..Len(bs) + 1 : KeepsFrom(o, cs, bs)

\* What TagReturns needs: the content of the next tag in a file that is HTML, and that a file that is
\* not has no tags out of its macros.
KnowsContentInHTML == isHTML /\ ~torn => KnowsContent(at)
PlainOutOfMacros == ~isHTML => IF contexts = <<>> THEN at.ctx \in PlainContexts ELSE contexts[1] \in PlainContexts

LexerInv == /\ LexerTypeOK
            /\ KnowsContentInHTML
            /\ PlainOutOfMacros
            /\ ~odd => Keeps(contexts, blocks)

\* There is one outermost macro or using, or none.
LEMMA OutermostIsUnique ==
    ASSUME NEW bs \in Seq(Blocks), NEW o \in 1..Len(bs) + 1, NEW p \in 1..Len(bs) + 1,
           IsOutermost(o, bs), IsOutermost(p, bs)
    PROVE  o = p
  <1>1. ~(o < p)
    BY DEF IsOutermost
  <1>2. ~(p < o)
    BY DEF IsOutermost
  <1> QED
    BY <1>1, <1>2

LEMMA KeepsIsKept ==
    ASSUME contexts \in Seq(Contexts), blocks \in Seq(Blocks), Keeps(contexts, blocks)
    PROVE  contexts = Kept
  <1> DEFINE outer == CHOOSE o \in 1..Len(blocks) + 1 : IsOutermost(o, blocks)
  <1>1. PICK o \in 1..Len(blocks) + 1 : KeepsFrom(o, contexts, blocks)
    BY DEF Keeps
  <1>2. outer = o
    <2>1. outer \in 1..Len(blocks) + 1 /\ IsOutermost(outer, blocks)
      BY <1>1 DEF KeepsFrom
    <2> HIDE DEF outer
    <2> QED
      BY <1>1, <2>1, OutermostIsUnique DEF KeepsFrom
  <1>3. Kept = [n \in 1..Len(blocks) - outer + 1 |-> blocks[outer + n - 1].ctx]
    BY DEF Kept
  <1> HIDE DEF outer
  <1>4. DOMAIN contexts = 1..Len(blocks) - o + 1 /\ contexts = [n \in DOMAIN contexts |-> contexts[n]]
    BY <1>1 DEF KeepsFrom
  <1>5. \A n \in 1..Len(blocks) - o + 1 : contexts[n] = blocks[o + n - 1].ctx
    BY <1>1, <1>4 DEF KeepsFrom
  <1> QED
    BY <1>2, <1>3, <1>4, <1>5

\* A block that starts: its context is kept if it is a macro or using, or in one.
LEMMA StartKeeps ==
    ASSUME NEW cs \in Seq(Contexts), NEW bs \in Seq(Blocks), Keeps(cs, bs), NEW b \in Blocks
    PROVE  /\ NestsContexts(b) \/ cs # <<>> => Keeps(Append(cs, b.ctx), Append(bs, b))
           /\ ~NestsContexts(b) /\ cs = <<>> => Keeps(cs, Append(bs, b))
  <1>1. PICK o \in 1..Len(bs) + 1 : KeepsFrom(o, cs, bs)
    BY DEF Keeps
  <1>2. Len(Append(bs, b)) = Len(bs) + 1 /\ Append(bs, b)[Len(bs) + 1] = b
        /\ \A i \in 1..Len(bs) : Append(bs, b)[i] = bs[i]
    OBVIOUS
  <1>3. ASSUME NestsContexts(b) \/ cs # <<>>
        PROVE  KeepsFrom(o, Append(cs, b.ctx), Append(bs, b))
    <2>1. IsOutermost(o, Append(bs, b))
      <3>1. o = Len(bs) + 1 => cs = <<>>
        BY <1>1 DEF KeepsFrom
      <3> QED
        BY <1>1, <1>2, <1>3, <3>1 DEF KeepsFrom, IsOutermost
    <2>2. Len(cs) \in Nat /\ Len(Append(cs, b.ctx)) = Len(cs) + 1 /\ Append(cs, b.ctx)[Len(cs) + 1] = b.ctx
          /\ \A i \in 1..Len(cs) : Append(cs, b.ctx)[i] = cs[i]
      BY DEF Blocks
    <2>3. Len(cs) = Len(bs) - o + 1 /\ \A n \in 1..Len(cs) : cs[n] = bs[o + n - 1].ctx
      BY <1>1 DEF KeepsFrom
    <2>4. \A n \in 1..Len(cs) + 1 : Append(cs, b.ctx)[n] = Append(bs, b)[o + n - 1].ctx
      <3> TAKE n \in 1..Len(cs) + 1
      <3>1. CASE n = Len(cs) + 1
        BY <1>2, <2>2, <2>3, <3>1
      <3>2. CASE n \in 1..Len(cs)
        <4>1. o + n - 1 \in 1..Len(bs)
          BY <2>3, <3>2
        <4> QED
          BY <1>2, <2>2, <2>3, <3>2, <4>1
      <3>3. n = Len(cs) + 1 \/ n \in 1..Len(cs)
        BY <2>2
      <3> QED
        BY <3>1, <3>2, <3>3
    <2> QED
      <3>1. Len(Append(cs, b.ctx)) = Len(Append(bs, b)) - o + 1
        BY <1>2, <2>2, <2>3
      <3> QED
        BY <2>1, <2>2, <2>4, <3>1 DEF KeepsFrom
  <1>4. ASSUME ~NestsContexts(b), cs = <<>>
        PROVE  KeepsFrom(Len(bs) + 2, cs, Append(bs, b))
    <2>1. o = Len(bs) + 1
      BY <1>1, <1>4 DEF KeepsFrom
    <2>2. \A i \in 1..Len(bs) : ~NestsContexts(bs[i])
      BY <1>1, <2>1 DEF KeepsFrom, IsOutermost
    <2>3. IsOutermost(Len(bs) + 2, Append(bs, b))
      BY <1>2, <1>4, <2>2 DEF IsOutermost
    <2> QED
      BY <1>2, <1>4, <2>3 DEF KeepsFrom
  <1>5. o \in 1..Len(Append(bs, b)) + 1 /\ Len(bs) + 2 \in 1..Len(Append(bs, b)) + 1
    BY <1>2
  <1> QED
    BY <1>3, <1>4, <1>5 DEF Keeps

LEMMA FrontShortens ==
    ASSUME NEW S, NEW s \in Seq(S), s # <<>>
    PROVE  /\ Front(s) \in Seq(S) /\ Len(s) \in Nat \ {0} /\ Len(Front(s)) = Len(s) - 1
           /\ \A i \in 1..Len(s) - 1 : Front(s)[i] = s[i]
  <1> DEFINE n == Len(s) - 1
  <1>1. Len(s) \in Nat \ {0} /\ \A i \in 1..Len(s) : s[i] \in S
    OBVIOUS
  <1>2. n \in Nat /\ Len(s) = n + 1
    BY <1>1
  <1> HIDE DEF n
  <1>3. \A i \in 1..n : s[i] \in S
    BY <1>1, <1>2
  <1>4. /\ SubSeq(s, 1, n) \in Seq(S) /\ Len(SubSeq(s, 1, n)) = n
        /\ \A i \in 1..n : SubSeq(s, 1, n)[i] = s[i]
    BY <1>2, <1>3, SubSeqProperties
  <1>5. Front(s) = SubSeq(s, 1, n)
    BY DEF Front, n
  <1> QED
    BY <1>1, <1>2, <1>4, <1>5

\* A block that ends, with the last context that has been kept.
LEMMA EndKeeps ==
    ASSUME NEW cs \in Seq(Contexts), NEW bs \in Seq(Blocks), Keeps(cs, bs)
    PROVE  Keeps(IF cs = <<>> THEN cs ELSE Front(cs), IF bs = <<>> THEN bs ELSE Front(bs))
  <1>1. PICK o \in 1..Len(bs) + 1 : KeepsFrom(o, cs, bs)
    BY DEF Keeps
  <1>2. CASE bs = <<>>
    <2>1. cs = <<>>
      BY <1>1, <1>2 DEF KeepsFrom
    <2> QED
      BY <1>2, <2>1
  <1>3. CASE bs # <<>>
    <2>1. /\ Len(bs) \in Nat \ {0} /\ Len(Front(bs)) = Len(bs) - 1
          /\ \A i \in 1..Len(bs) - 1 : Front(bs)[i] = bs[i]
      BY <1>3, FrontShortens
    <2>2. CASE cs = <<>>
      <3>1. o = Len(bs) + 1
        BY <1>1, <2>2 DEF KeepsFrom
      <3>2. IsOutermost(Len(bs), Front(bs))
        <4>1. \A j \in 1..Len(bs) : ~NestsContexts(bs[j])
          BY <1>1, <3>1 DEF KeepsFrom, IsOutermost
        <4>2. \A j \in 1..Len(bs) - 1 : ~NestsContexts(Front(bs)[j])
          BY <2>1, <4>1
        <4> QED
          BY <2>1, <4>2 DEF IsOutermost
      <3>3. KeepsFrom(Len(bs), cs, Front(bs))
        BY <2>1, <2>2, <3>2 DEF KeepsFrom
      <3>4. Len(bs) \in 1..Len(Front(bs)) + 1
        BY <1>3, <2>1
      <3> QED
        BY <1>3, <2>2, <3>3, <3>4 DEF Keeps
    <2>3. CASE cs # <<>>
      <3>1. /\ Len(cs) \in Nat \ {0} /\ Len(Front(cs)) = Len(cs) - 1
            /\ \A i \in 1..Len(cs) - 1 : Front(cs)[i] = cs[i]
        BY <2>3, FrontShortens
      <3>2. o \in 1..Len(bs) /\ Len(cs) = Len(bs) - o + 1 /\ \A n \in 1..Len(cs) : cs[n] = bs[o + n - 1].ctx
        BY <1>1, <3>1 DEF KeepsFrom
      <3>3. IsOutermost(o, Front(bs))
        <4>1. /\ o > Len(bs) \/ NestsContexts(bs[o])
              /\ \A j \in 1..o - 1 : ~NestsContexts(bs[j])
          BY <1>1 DEF KeepsFrom, IsOutermost
        <4>2. \A j \in 1..o - 1 : Front(bs)[j] = bs[j]
          <5> TAKE j \in 1..o - 1
          <5>1. j \in 1..Len(bs) - 1
            BY <2>1, <3>2
          <5> QED
            BY <2>1, <5>1
        <4>3. \A j \in 1..o - 1 : ~NestsContexts(Front(bs)[j])
          BY <4>1, <4>2
        <4>4. o > Len(Front(bs)) \/ NestsContexts(Front(bs)[o])
          <5>1. CASE o = Len(bs)
            BY <2>1, <5>1
          <5>2. CASE o # Len(bs)
            <6>1. o \in 1..Len(bs) - 1 /\ ~(o > Len(bs))
              BY <2>1, <3>2, <5>2
            <6> QED
              BY <2>1, <4>1, <6>1
          <5> QED
            BY <5>1, <5>2
        <4> QED
          BY <4>3, <4>4 DEF IsOutermost
      <3>4. \A n \in 1..Len(cs) - 1 : Front(cs)[n] = Front(bs)[o + n - 1].ctx
        <4> TAKE n \in 1..Len(cs) - 1
        <4>1. o + n - 1 \in 1..Len(bs) - 1
          BY <2>1, <3>1, <3>2
        <4>2. Front(cs)[n] = cs[n] /\ cs[n] = bs[o + n - 1].ctx
          BY <3>1, <3>2
        <4> QED
          BY <2>1, <4>1, <4>2
      <3>5. KeepsFrom(o, Front(cs), Front(bs))
        BY <2>1, <3>1, <3>2, <3>3, <3>4 DEF KeepsFrom
      <3> QED
        BY <1>3, <2>1, <2>3, <3>2, <3>5 DEF Keeps
    <2> QED
      BY <2>2, <2>3
  <1> QED
    BY <1>2, <1>3

-----------------------------------------------------------------------------
(***************************************************************************)
(* The steps of the lexer.                                                 *)
(***************************************************************************)
KeptState == <<fileContext, contexts, blocks, odd, torn>>
NoTextOfProgram == fileContext = "Program" => scan' \notin {"text", "raw"}

\* A step that reads text, or none, and neither starts nor ends a block.
Reads == Follows(at, at') /\ UNCHANGED KeptState /\ NoTextOfProgram

\* The place of the lexer but for what the properties do not tell apart.
SamePlace(a, b) == b \in Place /\ b.ctx = a.ctx /\ b.tag = a.tag /\ b.after = a.after

LEMMA SamePlaceFollows ==
    ASSUME NEW a, NEW b, NEW c, Follows(a, b), SamePlace(b, c)
    PROVE  Follows(a, c)
  BY DEF Follows, SamePlace, KnowsContent

LEMMA StaysFollows == ASSUME NEW a \in Place PROVE Follows(a, a)
  BY DEF Follows

LEMMA EmitsSame ==
    ASSUME NEW ts, NEW a \in Place, Emits(ts, a)
    PROVE  SamePlace(a, at')
  <1> DEFINE stale == a.stale \/ (IsType(at) /\ at.ctx \in Attributes)
  <1>1. stale \in BOOLEAN
    BY DEF IsType, Place
  <1>2. at' = [a EXCEPT !.stale = stale, !.spaces = FALSE, !.backslash = FALSE]
    BY DEF Emits, Place
  <1> HIDE DEF stale
  <1> QED
    BY <1>1, <1>2 DEF SamePlace, Place

LEMMA MovesSame ==
    ASSUME NEW c, NEW b \in Place, Moves(b, c)
    PROVE  SamePlace(b, at')
  <1> DEFINE back == Backslash(at, c)
  <1>1. back \in BOOLEAN /\ at' = [b EXCEPT !.backslash = back]
    BY DEF Moves, Backslash
  <1> HIDE DEF back
  <1> QED
    BY <1>1 DEF SamePlace, Place

LEMMA ScansText ==
    ASSUME LexerTypeOK, scan \in {"text", "raw"}
    PROVE  fileContext \in FormatContexts
  BY FormatsAssumption DEF LexerTypeOK

LEMMA TextReads ==
    ASSUME LexerTypeOK, NEW c \in Symbols[fileContext], Text(c) \/ EndAttr(c) \/ StaleIndex(c)
    PROVE  Reads
  <1>1. fileContext \in FormatContexts /\ fileContext # "Program" /\ at \in Place
    BY ScansText DEF Text, EndAttr, StaleIndex, Scans, LexerTypeOK
  <1>2. WellFormed(c)
    BY SymbolsAreWellFormed DEF LexerTypeOK
  <1>3. CASE Text(c)
    <2>1. Follows(at, Step(at, c)) /\ Moves(Step(at, c), c)
      BY <1>1, <1>2, <1>3, StepFollows DEF Text
    <2>2. Step(at, c) \in Place
      BY <2>1 DEF Follows
    <2> QED
      BY <1>1, <2>1, <2>2, MovesSame, SamePlaceFollows DEF Reads, NoTextOfProgram, Moves, KeptState
  <1>4. CASE EndAttr(c)
    <2>1. PICK value : Moves(EndOfAttr(at, c, value), c) /\ at.ctx \in Attributes
      BY <1>4 DEF EndAttr, EndsAttr, Attributes
    <2>2. Follows(at, EndOfAttr(at, c, value))
      BY <1>1, <2>1, EndOfAttrFollows
    <2>3. EndOfAttr(at, c, value) \in Place
      BY <2>2 DEF Follows
    <2> QED
      BY <1>1, <2>1, <2>2, <2>3, MovesSame, SamePlaceFollows DEF Reads, NoTextOfProgram, Moves, KeptState
  <1>5. CASE StaleIndex(c)
    BY <1>1, <1>5, StaysFollows DEF StaleIndex, Reads, NoTextOfProgram, KeptState
  <1> QED
    BY <1>3, <1>4, <1>5

LEMMA OthersRead ==
    ASSUME LexerTypeOK,
           \/ lexShow \/ lexComment \/ skipRawContent \/ CutComment \/ LexicalError \/ lexStatements
           \/ lexEndStatements \/ EndOfFile \/ EndOfFileInCode
           \/ \E kind : lexOther(kind) \/ lexCode(kind)
    PROVE  Reads
  <1>1. at \in Place /\ Follows(at, at)
    BY StaysFollows DEF LexerTypeOK
  <1>2. ASSUME NEW ts, Emits(ts, at)
        PROVE  Follows(at, at')
    BY <1>1, <1>2, EmitsSame, SamePlaceFollows
  <1>3. CASE lexShow \/ lexComment \/ \E kind : lexOther(kind)
    <2>1. PICK ts : Emits(ts, at)
      BY <1>3 DEF lexShow, lexComment, lexOther
    <2>2. scan = "text" /\ UNCHANGED <<KeptState, scan>>
      BY <1>3 DEF lexShow, lexComment, lexOther, Opens, Scans, KeptState
    <2> QED
      BY <1>2, <2>1, <2>2 DEF Reads, NoTextOfProgram, LexerTypeOK
  <1>4. CASE lexStatements
    <2>1. PICK ts : Emits(ts, at)
      BY <1>4 DEF lexStatements
    <2> QED
      BY <1>2, <1>4, <2>1 DEF Reads, NoTextOfProgram, KeptState, lexStatements
  <1>5. CASE skipRawContent \/ CutComment \/ LexicalError \/ EndOfFile \/ EndOfFileInCode \/ \E kind : lexCode(kind)
    <2>1. UNCHANGED <<KeptState, at>> /\ (scan' = scan \/ scan' \notin {"text", "raw"})
      BY <1>5 DEF skipRawContent, CutComment, LexicalError, EndOfFile, EndOfFileInCode, lexCode, KeptState
    <2> QED
      BY <1>1, <2>1 DEF Reads, NoTextOfProgram, LexerTypeOK
  <1>6. CASE lexEndStatements
    BY <1>1, <1>6 DEF Reads, NoTextOfProgram, KeptState, lexEndStatements
  <1> QED
    BY <1>3, <1>4, <1>5, <1>6

LEMMA ReadsKeepsInv ==
    ASSUME LexerInv, Reads
    PROVE  LexerInv'
  <1>1. LexerTypeOK'
    BY DEF LexerInv, LexerTypeOK, Reads, Follows, KeptState, NoTextOfProgram
  <1>2. KnowsContentInHTML'
    BY DEF LexerInv, KnowsContentInHTML, KnowsContent, Reads, Follows, KeptState, isHTML
  <1>3. PlainOutOfMacros'
    BY DEF LexerInv, PlainOutOfMacros, Reads, Follows, KeptState, isHTML
  <1>4. ~odd' => Keeps(contexts, blocks)'
    BY DEF LexerInv, Keeps, KeepsFrom, Reads, KeptState
  <1> QED
    BY <1>1, <1>2, <1>3, <1>4 DEF LexerInv

\* A block that starts where the lexer is, that may keep the context and may not.
Starts(kind) ==
  /\ fileContext \in FormatContexts /\ kind \in Kinds
  /\ SamePlace(at, at')
  /\ blocks' = Append(blocks, [kind |-> kind, ctx |-> at.ctx])
  /\ UNCHANGED <<fileContext, torn>>

LEMMA StartsTypeOK ==
    ASSUME LexerTypeOK, NEW kind \in Kinds, NEW ctx \in Contexts,
           blocks' = Append(blocks, [kind |-> kind, ctx |-> ctx])
    PROVE  blocks' \in Seq(Blocks) /\ [kind |-> kind, ctx |-> ctx] \in Blocks
  <1>1. [kind |-> kind, ctx |-> ctx] \in Blocks
    BY DEF Blocks
  <1> QED
    BY <1>1, AppendProperties DEF LexerTypeOK

LEMMA AppendContext ==
    ASSUME contexts \in Seq(Contexts), NEW ctx \in Contexts
    PROVE  /\ Append(contexts, ctx) \in Seq(Contexts) /\ Append(contexts, ctx) # <<>>
           /\ Append(contexts, ctx)[1] = IF contexts = <<>> THEN ctx ELSE contexts[1]
  <1> DEFINE n == Len(contexts)
             longer == Append(contexts, ctx)
  <1>1. /\ longer \in Seq(Contexts) /\ n \in Nat /\ Len(longer) = n + 1 /\ longer[n + 1] = ctx
        /\ \A i \in 1..n : longer[i] = contexts[i]
    BY AppendProperties
  <1>2. (contexts = <<>>) <=> (n = 0)
    BY EmptySeq
  <1> HIDE DEF longer, n
  <1>3. longer # <<>> /\ longer[1] = IF n = 0 THEN ctx ELSE contexts[1]
    BY <1>1
  <1> QED
    BY <1>1, <1>2, <1>3 DEF longer

\* A block whose context is kept: that of a macro or using, or of a block in one.
LEMMA StartKeeping ==
    ASSUME LexerInv, NEW kind \in Kinds, NEW ctx \in Contexts, ctx = at.ctx,
           blocks' = Append(blocks, [kind |-> kind, ctx |-> ctx]),
           contexts' = Append(contexts, ctx),
           NestsContexts([kind |-> kind, ctx |-> ctx]) \/ contexts # <<>>
    PROVE  /\ blocks' \in Seq(Blocks) /\ contexts' \in Seq(Contexts) /\ contexts' # <<>>
           /\ ~isHTML => contexts'[1] \in PlainContexts
           /\ ~odd => Keeps(contexts, blocks)'
  <1> DEFINE b == [kind |-> kind, ctx |-> ctx]
  <1>1. blocks' \in Seq(Blocks) /\ b \in Blocks /\ b.ctx = ctx
    BY StartsTypeOK DEF LexerInv
  <1>2. contexts' \in Seq(Contexts) /\ contexts' # <<>> /\ contexts'[1] = IF contexts = <<>> THEN ctx ELSE contexts[1]
    BY AppendContext DEF LexerInv, LexerTypeOK
  <1>3. ~isHTML => contexts'[1] \in PlainContexts
    BY <1>2 DEF LexerInv, PlainOutOfMacros
  <1>4. ASSUME ~odd
        PROVE  Keeps(contexts', blocks')
    <2> HIDE DEF b
    <2>1. Keeps(contexts, blocks) /\ contexts \in Seq(Contexts) /\ blocks \in Seq(Blocks)
      BY <1>4 DEF LexerInv, LexerTypeOK
    <2>2. NestsContexts(b) \/ contexts # <<>>
      BY DEF b
    <2>3. Keeps(Append(contexts, b.ctx), Append(blocks, b))
      BY <1>1, <2>1, <2>2, StartKeeps
    <2> QED
      BY <1>1, <2>3 DEF b
  <1> QED
    BY <1>1, <1>2, <1>3, <1>4 DEF Keeps, KeepsFrom

\* A block whose context is not kept, out of macros and using statements.
LEMMA StartApart ==
    ASSUME LexerInv, NEW kind \in Kinds, NEW ctx \in Contexts,
           blocks' = Append(blocks, [kind |-> kind, ctx |-> ctx]),
           kind \notin {"macro", "using"}, contexts = <<>>, contexts' = contexts
    PROVE  blocks' \in Seq(Blocks) /\ (~odd => Keeps(contexts, blocks)')
  <1> DEFINE b == [kind |-> kind, ctx |-> ctx]
  <1>1. blocks' \in Seq(Blocks) /\ b \in Blocks /\ ~NestsContexts(b)
    BY StartsTypeOK DEF LexerInv, NestsContexts
  <1>2. ASSUME ~odd
        PROVE  Keeps(contexts', blocks')
    <2> HIDE DEF b
    <2>1. Keeps(contexts, blocks) /\ contexts \in Seq(Contexts) /\ blocks \in Seq(Blocks)
      BY <1>2 DEF LexerInv, LexerTypeOK
    <2>2. Keeps(contexts, Append(blocks, b))
      BY <1>1, <2>1, StartKeeps
    <2> QED
      BY <2>2 DEF b
  <1> QED
    BY <1>1, <1>2 DEF Keeps, KeepsFrom

LEMMA OddOrApart ==
    ASSUME LexerInv, ~odd, ~Nesting
    PROVE  contexts = <<>>
  <1>1. contexts \in Seq(Contexts) /\ blocks \in Seq(Blocks) /\ Len(blocks) \in Nat
    BY DEF LexerInv, LexerTypeOK
  <1>2. PICK o \in 1..Len(blocks) + 1 : KeepsFrom(o, contexts, blocks)
    BY DEF LexerInv, Keeps
  <1>3. o > Len(blocks)
    BY <1>1, <1>2 DEF KeepsFrom, IsOutermost, Nesting, NestsContexts
  <1>4. Len(contexts) = 0
    BY <1>1, <1>2, <1>3 DEF KeepsFrom
  <1> QED
    BY <1>1, <1>4, EmptySeq

\* What the statements that start a block do to the place and to the blocks.
LEMMA StartsHere ==
    ASSUME LexerInv, scan = "text", NEW kind \in Kinds, NEW ts, Emits(ts, at), Nests(kind)
    PROVE  /\ at.ctx \in Contexts /\ SamePlace(at, at') /\ fileContext # "Program"
           /\ blocks' = Append(blocks, [kind |-> kind, ctx |-> at.ctx])
  <1>1. at \in Place /\ fileContext # "Program"
    BY DEF LexerInv, LexerTypeOK
  <1> QED
    BY <1>1, EmitsSame DEF Nests, Place

\* The invariant, of a step that keeps the place but for the blocks.
LEMMA StartsKeepInv ==
    ASSUME LexerInv, SamePlace(at, at'), UNCHANGED <<fileContext, torn>>, fileContext # "Program",
           blocks' \in Seq(Blocks), contexts' \in Seq(Contexts), odd' \in BOOLEAN,
           ~isHTML => IF contexts' = <<>> THEN contexts = <<>> ELSE contexts'[1] \in PlainContexts,
           ~odd' => Keeps(contexts, blocks)'
    PROVE  LexerInv'
  <1>1. LexerTypeOK'
    BY DEF LexerInv, LexerTypeOK, SamePlace
  <1>2. KnowsContentInHTML'
    BY DEF LexerInv, KnowsContentInHTML, KnowsContent, SamePlace, isHTML
  <1>3. PlainOutOfMacros'
    BY DEF LexerInv, PlainOutOfMacros, SamePlace, isHTML
  <1> QED
    BY <1>1, <1>2, <1>3 DEF LexerInv

\* A step that starts or ends a block, of the kinds of the properties.
Rests == at'.ctx = at.ctx \/ contexts' # <<>> \/ contexts # <<>>

LEMMA BlocksKeepInv ==
    ASSUME LexerInv, NEW kind, lexBlock(kind)
    PROVE  LexerInv' /\ Rests
  <1>1. kind \in Kinds /\ scan = "text" /\ Nests(kind)
    BY DEF lexBlock, Opens, Scans, Kinds
  <1>2. PICK ts : Emits(ts, at)
    BY DEF lexBlock
  <1>3. /\ at.ctx \in Contexts /\ SamePlace(at, at') /\ fileContext # "Program"
        /\ blocks' = Append(blocks, [kind |-> kind, ctx |-> at.ctx])
    BY <1>1, <1>2, StartsHere
  <1>4. UNCHANGED <<fileContext, torn, odd>> /\ odd \in BOOLEAN
        /\ contexts' = IF contexts # <<>> THEN Append(contexts, at.ctx) ELSE contexts
    BY DEF lexBlock, LexerInv, LexerTypeOK
  <1>5. CASE contexts # <<>>
    <2>1. /\ blocks' \in Seq(Blocks) /\ contexts' \in Seq(Contexts) /\ contexts' # <<>>
          /\ ~isHTML => contexts'[1] \in PlainContexts
          /\ ~odd => Keeps(contexts, blocks)'
      BY <1>1, <1>3, <1>4, <1>5, StartKeeping
    <2> QED
      BY <1>3, <1>4, <1>5, <2>1, StartsKeepInv DEF Rests
  <1>6. CASE contexts = <<>>
    <2>1. kind \notin {"macro", "using"} /\ contexts' = contexts /\ contexts \in Seq(Contexts)
      BY <1>4, <1>6 DEF lexBlock, LexerInv, LexerTypeOK
    <2>2. blocks' \in Seq(Blocks) /\ (~odd => Keeps(contexts, blocks)')
      BY <1>1, <1>3, <1>6, <2>1, StartApart
    <2> QED
      BY <1>3, <1>4, <1>6, <2>1, <2>2, StartsKeepInv DEF Rests, SamePlace
  <1> QED
    BY <1>5, <1>6

\* Raw and labelled statements.
LEMMA ApartKeepInv ==
    ASSUME LexerInv, NEW kind, lexLabelled(kind) \/ (kind = "raw" /\ lexRaw)
    PROVE  LexerInv' /\ Rests
  <1>1. kind \in Kinds /\ kind \notin {"macro", "using"} /\ scan = "text" /\ Nests(kind)
    BY DEF lexLabelled, lexRaw, Opens, Scans, Kinds
  <1>2. PICK ts : Emits(ts, at)
    BY DEF lexLabelled, lexRaw
  <1>3. /\ at.ctx \in Contexts /\ SamePlace(at, at') /\ fileContext # "Program"
        /\ blocks' = Append(blocks, [kind |-> kind, ctx |-> at.ctx])
    BY <1>1, <1>2, StartsHere
  <1>4. /\ UNCHANGED <<fileContext, torn, contexts>> /\ odd' = (odd \/ Nesting)
        /\ odd \in BOOLEAN /\ contexts \in Seq(Contexts) /\ contexts' = contexts
    BY DEF lexLabelled, lexRaw, LexerInv, LexerTypeOK
  <1>5. blocks' \in Seq(Blocks)
    BY <1>1, <1>3, StartsTypeOK DEF LexerInv
  <1>6. ASSUME ~odd'
        PROVE  Keeps(contexts, blocks)'
    <2>1. ~odd /\ contexts = <<>>
      BY <1>4, <1>6, OddOrApart
    <2> QED
      BY <1>1, <1>3, <1>4, <2>1, StartApart
  <1>7. odd' \in BOOLEAN
    BY <1>4 DEF Nesting
  <1>8. ~isHTML => IF contexts' = <<>> THEN contexts = <<>> ELSE contexts'[1] \in PlainContexts
    BY <1>4 DEF LexerInv, PlainOutOfMacros
  <1> QED
    BY <1>3, <1>4, <1>5, <1>6, <1>7, <1>8, StartsKeepInv DEF Rests, SamePlace

\* The context of the body of a macro or using.
LEMMA MacroKeepsInv ==
    ASSUME LexerInv, NEW kind, NEW body, lexMacro(kind, body)
    PROVE  LexerInv' /\ Rests
  <1> DEFINE a == [at EXCEPT !.ctx = body]
  <1>1. /\ at \in Place /\ at.ctx \in Contexts /\ body \in Contexts /\ fileContext # "Program"
        /\ kind \in Kinds /\ kind \in {"macro", "using"}
    BY ContextsInclude DEF LexerInv, LexerTypeOK, lexMacro, Opens, Scans, Kinds, Place
  <1>2. a \in Place /\ a.ctx = body /\ a.tag = at.tag /\ a.after = at.after
    BY <1>1 DEF Place
  <1>3. /\ contexts' = Append(contexts, at.ctx) /\ torn' = (torn \/ Tears(body)) /\ UNCHANGED <<fileContext, odd>>
        /\ blocks' = Append(blocks, [kind |-> kind, ctx |-> at.ctx])
    BY DEF lexMacro, Nests
  <1>4. PICK ts : Emits(ts, a)
    BY DEF lexMacro
  <1> HIDE DEF a
  <1>5. SamePlace(a, at')
    BY <1>2, <1>4, EmitsSame
  <1>6. NestsContexts([kind |-> kind, ctx |-> at.ctx])
    BY <1>1 DEF NestsContexts
  <1>7. /\ blocks' \in Seq(Blocks) /\ contexts' \in Seq(Contexts) /\ contexts' # <<>>
        /\ ~isHTML => contexts'[1] \in PlainContexts
        /\ ~odd => Keeps(contexts, blocks)'
    BY <1>1, <1>3, <1>6, StartKeeping
  <1>8. LexerTypeOK'
    BY <1>1, <1>3, <1>5, <1>7 DEF LexerInv, LexerTypeOK, SamePlace, Tears
  <1>9. KnowsContentInHTML'
    BY <1>2, <1>3, <1>5 DEF LexerInv, KnowsContentInHTML, KnowsContent, SamePlace, Tears, isHTML
  <1>10. PlainOutOfMacros'
    BY <1>3, <1>7 DEF PlainOutOfMacros, isHTML
  <1> QED
    BY <1>3, <1>7, <1>8, <1>9, <1>10 DEF LexerInv, Rests

\* The context that end restores.
LEMMA EndKeepsInv ==
    ASSUME LexerInv, NEW kind, lexEnd(kind)
    PROVE  LexerInv' /\ Rests
  <1> DEFINE restored == IF contexts = <<>> THEN at.ctx ELSE Last(contexts)
             a == [at EXCEPT !.ctx = restored]
  <1>1. /\ at \in Place /\ at.ctx \in Contexts /\ fileContext # "Program"
        /\ contexts \in Seq(Contexts) /\ blocks \in Seq(Blocks)
    BY DEF LexerInv, LexerTypeOK, lexEnd, Place
  <1>2. restored \in Contexts
    BY <1>1 DEF Last
  <1>3. /\ contexts' = (IF contexts = <<>> THEN contexts ELSE Front(contexts))
        /\ blocks' = (IF blocks = <<>> THEN blocks ELSE Front(blocks))
        /\ torn' = (torn \/ Tears(restored)) /\ UNCHANGED <<fileContext, odd>>
    BY DEF lexEnd
  <1>4. PICK ts : Emits(ts, a)
    BY DEF lexEnd
  <1>5. contexts = <<>> => restored = at.ctx
    OBVIOUS
  <1>6. contexts # <<>> => restored = contexts[Len(contexts)]
    BY DEF Last
  <1> HIDE DEF restored
  <1>7. a \in Place /\ a.ctx = restored /\ a.tag = at.tag /\ a.after = at.after
    BY <1>1, <1>2 DEF Place
  <1> HIDE DEF a
  <1>8. SamePlace(a, at')
    BY <1>4, <1>7, EmitsSame
  <1>9. contexts' \in Seq(Contexts) /\ blocks' \in Seq(Blocks)
    BY <1>1, <1>3, FrontShortens
  <1>10. LexerTypeOK'
    BY <1>1, <1>3, <1>8, <1>9 DEF LexerInv, LexerTypeOK, SamePlace, Tears
  <1>11. KnowsContentInHTML'
    BY <1>3, <1>7, <1>8 DEF LexerInv, KnowsContentInHTML, KnowsContent, SamePlace, Tears, isHTML
  <1>12. PlainOutOfMacros'
    <2>1. ASSUME ~isHTML, contexts # <<>>
          PROVE  IF contexts' = <<>> THEN at'.ctx \in PlainContexts ELSE contexts'[1] \in PlainContexts
      <3>1. contexts[1] \in PlainContexts
        BY <2>1 DEF LexerInv, PlainOutOfMacros
      <3>2. /\ contexts' = Front(contexts) /\ Len(contexts) \in Nat \ {0} /\ Len(contexts') = Len(contexts) - 1
            /\ \A i \in 1..Len(contexts) - 1 : contexts'[i] = contexts[i]
        BY <1>1, <1>3, <2>1, FrontShortens
      <3>3. CASE Len(contexts) = 1
        BY <1>6, <1>7, <1>8, <2>1, <3>1, <3>2, <3>3, EmptySeq, <1>9 DEF SamePlace
      <3>4. CASE Len(contexts) # 1
        <4>1. 1 \in 1..Len(contexts) - 1
          BY <3>2, <3>4
        <4> QED
          BY <3>1, <3>2, <4>1, EmptySeq
      <3> QED
        BY <3>3, <3>4
    <2>2. ASSUME ~isHTML, contexts = <<>>
          PROVE  contexts' = <<>> /\ at'.ctx \in PlainContexts
      BY <1>3, <1>5, <1>7, <1>8, <2>2 DEF LexerInv, PlainOutOfMacros, SamePlace
    <2> QED
      BY <1>3, <2>1, <2>2 DEF PlainOutOfMacros, isHTML
  <1>13. ~odd' => Keeps(contexts, blocks)'
    <2>1. ~odd' => Keeps(IF contexts = <<>> THEN contexts ELSE Front(contexts),
                         IF blocks = <<>> THEN blocks ELSE Front(blocks))
      BY <1>1, <1>3, EndKeeps DEF LexerInv
    <2> QED
      BY <1>3, <2>1 DEF Keeps, KeepsFrom
  <1>14. Rests
    BY <1>5, <1>7, <1>8 DEF Rests, SamePlace
  <1> QED
    BY <1>10, <1>11, <1>12, <1>13, <1>14 DEF LexerInv

-----------------------------------------------------------------------------
(***************************************************************************)
(* The steps of the two goroutines.                                        *)
(***************************************************************************)
LEMMA ParserReads ==
    ASSUME LexerTypeOK, Send \/ Parse \/ ReadError \/ Drain \/ Return \/ UNCHANGED vars
    PROVE  Reads
  <1>1. at \in Place /\ Follows(at, at)
    BY StaysFollows DEF LexerTypeOK
  <1>2. UNCHANGED <<KeptState, at, scan>>
    BY DEF Send, Parse, ReadError, Drain, Return, vars, lexer, KeptState
  <1> QED
    BY <1>1, <1>2 DEF Reads, NoTextOfProgram, LexerTypeOK

\* A step reads, or starts or ends a block.
LEMMA StepKeepsInv ==
    ASSUME LexerInv, [Next]_vars
    PROVE  LexerInv' /\ (Reads \/ Rests)
  <1>1. LexerTypeOK
    BY DEF LexerInv
  <1>2. ASSUME Symbol
        PROVE  LexerInv' /\ (Reads \/ Rests)
    <2>1. CASE \E c \in Symbols[fileContext] : Text(c) \/ EndAttr(c) \/ StaleIndex(c)
      BY <1>1, <2>1, TextReads, ReadsKeepsInv
    <2>2. CASE \/ lexShow \/ lexComment \/ skipRawContent \/ CutComment \/ LexicalError \/ lexStatements
               \/ lexEndStatements \/ \E kind : lexOther(kind) \/ lexCode(kind)
      BY <1>1, <2>2, OthersRead, ReadsKeepsInv
    <2>3. CASE \E kind : lexBlock(kind)
      BY <2>3, BlocksKeepInv
    <2>4. CASE lexRaw \/ \E kind : lexLabelled(kind)
      BY <2>4, ApartKeepInv
    <2>5. CASE \E kind : lexEnd(kind)
      BY <2>5, EndKeepsInv
    <2>6. CASE \E kind, body : lexMacro(kind, body)
      BY <2>6, MacroKeepsInv
    <2> QED
      BY <1>2, <2>1, <2>2, <2>3, <2>4, <2>5, <2>6 DEF Symbol
  <1>3. CASE Lex
    BY <1>2, <1>3 DEF Lex
  <1>4. CASE LexRest \/ LexEnd
    BY <1>1, <1>4, OthersRead, ReadsKeepsInv DEF LexRest, LexEnd
  <1>5. CASE LexSend \/ Parse \/ ReadError \/ Drain \/ Return \/ UNCHANGED vars
    BY <1>1, <1>5, ParserReads, ReadsKeepsInv DEF LexSend
  <1> QED
    BY <1>3, <1>4, <1>5 DEF Next

LEMMA InitInv == ASSUME Spec0 PROVE LexerInv
  <1> DEFINE format == IF fileContext = "Program" THEN "Text" ELSE fileContext
             start == StartOf(format)
  <1>1. fileContext \in Formats /\ format \in FormatContexts
    BY FormatsAssumption DEF Spec0, Init, FormatContexts
  <1>2. format \in Contexts /\ "Text" \in PlainContexts /\ "Markdown" \in FormatContexts
        /\ "HTML" \in FormatContexts /\ "TabCodeBlock" \in CodeBlocks
    BY <1>1, ContextsInclude DEF PlainContexts, CodeBlocks
  <1>3. start \in Place /\ start.ctx = format /\ start.after = IF format = "Markdown" THEN "Markdown" ELSE "HTML"
    BY <1>1, <1>2, CommonWords DEF StartOf, Place
  <1>4. at = start \/ (fileContext = "Markdown" /\ at = [start EXCEPT !.ctx = "TabCodeBlock"])
    BY DEF Spec0, Init
  <1>5. isHTML => format = fileContext /\ start.after = fileContext
    BY <1>3 DEF isHTML
  <1>6. ~isHTML => fileContext # "Markdown" /\ format \in PlainContexts
    BY <1>1 DEF isHTML, FormatContexts, PlainContexts
  <1>7. /\ contexts = <<>> /\ blocks = <<>> /\ odd = FALSE /\ torn = FALSE
        /\ fileContext = "Program" => scan \notin {"text", "raw"}
    BY DEF Spec0, Init
  <1> HIDE DEF start, format
  <1>8. at \in Place /\ at.after = start.after /\ (~isHTML => at.ctx = format)
    BY <1>2, <1>3, <1>4, <1>6, ContextsInclude DEF Place
  <1>9. LexerTypeOK
    BY <1>1, <1>7, <1>8, EmptySeq DEF LexerTypeOK
  <1>10. KnowsContentInHTML /\ PlainOutOfMacros
    BY <1>5, <1>6, <1>7, <1>8 DEF KnowsContentInHTML, KnowsContent, PlainOutOfMacros
  <1>11. Keeps(contexts, blocks)
    <2>1. KeepsFrom(1, <<>>, <<>>)
      BY EmptySeq DEF KeepsFrom, IsOutermost
    <2> QED
      BY <1>7, <2>1, EmptySeq DEF Keeps
  <1> QED
    BY <1>9, <1>10, <1>11 DEF LexerInv

THEOREM LexerInvariant == Spec => []LexerInv
  <1>1. LexerInv /\ [Next]_vars => LexerInv'
    BY StepKeepsInv
  <1> QED
    BY <1>1, InitInv, PTL DEF Spec

(***************************************************************************)
(* The contexts that the lexer keeps are those that the open blocks        *)
(* started in, from the outermost macro or using on: however the blocks    *)
(* are nested, end gives back the context that the text around the block   *)
(* was in (lexer.go, lexCode: what it appends to l.contexts and takes).    *)
(***************************************************************************)
THEOREM ContextsAreThoseOfTheBlocks == Spec => []ContextsFollowBlocks
  <1>1. LexerInv => ContextsFollowBlocks
    BY KeepsIsKept DEF LexerInv, LexerTypeOK, ContextsFollowBlocks
  <1> QED
    BY <1>1, LexerInvariant, PTL

(***************************************************************************)
(* After a tag that is not of a script or style, the text is in the        *)
(* context of the file: what a tag before it has set does not count        *)
(* (lexer.go, scan: l.tag.ctx).                                            *)
(***************************************************************************)
THEOREM TagsReturnToTheFile == Spec => TagReturns
  <1>1. ASSUME LexerInv, [Next]_vars,
               at.ctx \in TagContexts, at'.ctx \notin TagContexts, at.tag \notin {"script", "style"},
               contexts = <<>>, contexts' = <<>>, ~torn'
        PROVE  at'.ctx = fileContext
    <2>1. Reads
      BY <1>1, StepKeepsInv DEF Rests
    <2>2. at'.ctx = at.after /\ torn' = torn
      BY <1>1, <2>1 DEF Reads, Follows, KeptState
    <2>3. CASE isHTML
      BY <1>1, <2>2, <2>3 DEF LexerInv, KnowsContentInHTML, KnowsContent
    <2>4. CASE ~isHTML
      BY <1>1, <2>4, ContextsInclude DEF LexerInv, PlainOutOfMacros
    <2> QED
      BY <2>3, <2>4
  <1>2. LexerInv /\ [Next]_vars
        => [/\ at.ctx \in TagContexts /\ at'.ctx \notin TagContexts /\ at.tag \notin {"script", "style"}
            /\ contexts = <<>> /\ contexts' = <<>> /\ ~torn'
            => at'.ctx = fileContext]_vars
    BY <1>1
  <1> QED
    BY <1>2, LexerInvariant, PTL DEF Spec, TagReturns

-----------------------------------------------------------------------------
(***************************************************************************)
(* The tree. The nodes that are open are of two parts: those of the text,  *)
(* from the root, and those of the code, from the node of the statements   *)
(* between {%% and %%} or of the package on.  The text is then read in one *)
(* of three modes, that the lexer and the parser agree on: the parser has  *)
(* the mode of the lexer when it has read the tokens that are on their way.*)
(***************************************************************************)
Holders == {"Tree", "URL", "For", "ForRange", "Block", "Statements"}
Switches == {"Switch", "Select"}
Counting == {"If", "For", "ForRange", "Switch", "Select", "Macro", "Using", "Raw"}
BlockOwners == {"If", "Macro", "Using", "DistFree", "ForRange"}
TextNodes == {"Tree", "URL", "For", "ForRange", "Block", "Switch", "Select", "If", "Macro", "DistFree", "Using"}
CodeNodes == {"For", "ForRange", "Block", "Switch", "Select", "If", "Func", "Label"}
CodeRoots == {"Statements", "Package"}
Nodes == [kind : TextNodes \cup CodeNodes \cup CodeRoots \cup {"Raw"}, else : BOOLEAN, cases : BOOLEAN]

\* The nodes that any node can be added to.
Holds(p) == p.kind \in Holders \/ (p.kind \in Switches /\ p.cases)

\* Which node may be right under which.
MayHold(p, kind) ==
  \/ Holds(p)
  \/ p.kind \in {"Package", "Label"} /\ kind = "Func"
  \/ p.kind = "If" /\ kind \in {"Block", "If"}
  \/ p.kind \in {"Macro", "DistFree", "Using", "Func"} /\ kind = "Block"

Shape(anc) == /\ anc \in Seq(Nodes) /\ Len(anc) >= 1
              /\ anc[1].kind = "Tree"
              /\ \A i \in 2..Len(anc) : anc[i].kind # "Tree" /\ MayHold(anc[i - 1], anc[i].kind)

\* The first n nodes are of the text.
InText(anc, n) ==
  \A i \in 1..n : /\ anc[i].kind \in TextNodes
                  /\ anc[i].kind = "Block" => i > 1 /\ anc[i - 1].kind \in BlockOwners
                  /\ anc[i].kind = "DistFree" => i = 2

\* The nodes from the s-th on are of the code. A program starts with none.
InCode(anc, s) ==
  /\ s \in 2..Len(anc) + 1
  /\ s = Len(anc) + 1 => fileContext = "Program" /\ Len(anc) = 1
  /\ s <= Len(anc) => anc[s].kind \in CodeRoots
  /\ \A i \in s + 1..Len(anc) : anc[i].kind \in CodeNodes

\* The nodes of block statements that are open in the first n, and those of the text.
InChain(anc, i) == i > 1 /\ anc[i].kind = "If" /\ anc[i - 1].kind = "If"
Counted(anc, n) == {i \in 1..n : anc[i].kind \in Counting /\ ~InChain(anc, i)}
Match(anc, n, op) == /\ op \in Seq(Counting)
                     /\ Cardinality(Counted(anc, n)) = Len(op)
                     /\ \A i \in Counted(anc, n) : op[Cardinality(Counted(anc, i))] = anc[i].kind

Modes == {"text", "raw", "code"}

TextOpen == {"Tree", "URL", "For", "ForRange", "Block", "Switch", "Select"}
CodeOpen == {"For", "ForRange", "Block", "Switch", "Select", "Label", "Statements", "Package"}

TextTree(anc, op) == /\ Shape(anc) /\ InText(anc, Len(anc)) /\ Match(anc, Len(anc), op)
                     /\ anc[Len(anc)].kind \in TextOpen
RawTree(anc, op) == /\ Shape(anc) /\ Len(anc) > 1 /\ InText(anc, Len(anc) - 1) /\ Match(anc, Len(anc), op)
                    /\ anc[Len(anc)].kind = "Raw"
CodeTree(anc, op, s) == /\ Shape(anc) /\ InText(anc, s - 1) /\ Match(anc, s - 1, op) /\ InCode(anc, s)
                        /\ s <= Len(anc) => anc[Len(anc)].kind \in CodeOpen

TreeOf(mode, anc, op) ==
  \/ mode = "text" /\ TextTree(anc, op)
  \/ mode = "raw" /\ RawTree(anc, op)
  \/ mode = "code" /\ \E s \in 2..Len(anc) + 1 : CodeTree(anc, op, s)

\* A token that is read in mode m, and the mode after it.
TextKinds == {"if", "for", "range", "switch", "select", "macro", "using", "labelled for", "labelled switch",
              "else", "else if", "case", "default", "simple", "extends", "import", "declaration", "Name", "wrong"}
Ending == {"end", "end of another"}
Passes(m, t, n) ==
  \/ t.typ = "code" /\ m = "code" /\ n = "code"
  \/ t.typ = "{%%" /\ m = "text" /\ n = "code"
  \/ t.typ = "%%}" /\ m = "code" /\ n = "text"
  \/ t.typ \in {"show", "comment", "start URL"} /\ m = "text" /\ n = "text"
  \/ t.typ = "text" /\ m # "code" /\ n = m
  \/ t.typ \in {"end URL", "EOF"} /\ n = m
  \/ t.typ = "statement" /\ t.kind \in TextKinds /\ m = "text" /\ n = "text"
  \/ t.typ = "statement" /\ t.kind = "raw" /\ m = "text" /\ n = "raw"
  \/ t.typ = "statement" /\ t.kind \in Ending /\ m # "code" /\ n = "text"

Runs(q, m, n) == \E ms \in [0..Len(q) -> Modes] :
                   /\ ms[0] = m /\ ms[Len(q)] = n
                   /\ \A i \in 1..Len(q) : Passes(ms[i - 1], q[i], ms[i])

TokenTypes == {"code", "{%%", "%%}", "show", "comment", "start URL", "text", "end URL", "EOF", "statement"}
CodeKinds == UNION {Code[f] : f \in Formats}
Tokens == [typ : {"{%%", "%%}", "show", "comment", "start URL", "end URL", "EOF"}, ctx : Contexts]
          \cup [typ : {"text"}, ctx : {"Text"}, blank : BOOLEAN]
          \cup [typ : {"statement"}, ctx : Contexts, kind : TextKinds \cup Ending \cup {"raw"}]
          \cup [typ : {"code"}, ctx : Contexts, kind : CodeKinds]

QueueOK == /\ tokens \in Seq(Tokens) /\ out \in Seq(Tokens)
           /\ scan = "code" => pending = "none"

Agrees == \E m, n \in Modes : /\ TreeOf(m, ancestors, open)
                              /\ Runs(tokens \o out, m, n)
                              /\ scan \in Modes => n = scan

TreeInv ==
  /\ QueueOK
  /\ parser = "parsing" => result = "tree"
  /\ parser = "parsing" /\ ~crossed /\ ~escaped => Agrees
  /\ result = "panic" => secondElse \/ crossed \/ escaped
  /\ secondElse \in BOOLEAN /\ crossed \in BOOLEAN /\ escaped \in BOOLEAN

-----------------------------------------------------------------------------
(***************************************************************************)
(* What a step of the parser does to the nodes: it keeps the first ones up *)
(* to the k-th, that may only have its else or its cases now, and adds     *)
(* nodes after it.                                                         *)
(***************************************************************************)
Edit(anc, b, k) ==
  /\ b \in Seq(Nodes) /\ k \in 1..Len(anc) /\ k <= Len(b)
  /\ \A i \in 1..k - 1 : b[i] = anc[i]
  /\ b[k].kind = anc[k].kind

\* The nodes after the k-th have their place.
Placed(b, k) == \A i \in k + 1..Len(b) : b[i].kind # "Tree" /\ MayHold(b[i - 1], b[i].kind)
PlacedInText(b, k) == \A i \in k + 1..Len(b) : /\ b[i].kind \in TextNodes
                                               /\ b[i].kind = "Block" => b[i - 1].kind \in BlockOwners
                                               /\ b[i].kind = "DistFree" => i = 2

LEMMA EditKeepsShape ==
    ASSUME NEW anc, Shape(anc), NEW b, NEW k, Edit(anc, b, k), Placed(b, k)
    PROVE  Shape(b)
  <1>1. /\ anc \in Seq(Nodes) /\ b \in Seq(Nodes) /\ Len(anc) \in Nat /\ Len(b) \in Nat
        /\ k \in 1..Len(anc) /\ k <= Len(b)
    BY DEF Shape, Edit
  <1>2. b[1].kind = "Tree"
    BY <1>1 DEF Shape, Edit
  <1>3. ASSUME NEW i \in 2..Len(b)
        PROVE  b[i].kind # "Tree" /\ MayHold(b[i - 1], b[i].kind)
    <2>1. CASE i > k
      BY <1>1, <2>1 DEF Placed
    <2>2. CASE i <= k
      <3>1. i \in 2..Len(anc) /\ i - 1 \in 1..k - 1 /\ i \in 1..k
        BY <1>1, <2>2
      <3>2. anc[i].kind # "Tree" /\ MayHold(anc[i - 1], anc[i].kind)
        BY <3>1 DEF Shape
      <3>3. b[i - 1] = anc[i - 1] /\ b[i].kind = anc[i].kind
        BY <1>1, <3>1 DEF Edit
      <3> QED
        BY <3>2, <3>3
    <2> QED
      BY <1>1, <2>1, <2>2
  <1> QED
    BY <1>1, <1>2, <1>3 DEF Shape

LEMMA EditKeepsText ==
    ASSUME NEW anc, Shape(anc), NEW b, NEW k, Edit(anc, b, k), NEW n \in Nat, n <= Len(anc), InText(anc, n)
    PROVE  /\ k <= n /\ PlacedInText(b, k) => InText(b, Len(b))
           /\ n <= k => InText(b, n)
  <1>1. /\ Len(anc) \in Nat /\ Len(b) \in Nat /\ k \in 1..Len(anc) /\ k <= Len(b)
    BY DEF Shape, Edit
  <1>2. ASSUME NEW i \in 1..n, i <= k
        PROVE  /\ b[i].kind \in TextNodes
               /\ b[i].kind = "Block" => i > 1 /\ b[i - 1].kind \in BlockOwners
               /\ b[i].kind = "DistFree" => i = 2
    <2>1. /\ anc[i].kind \in TextNodes
          /\ anc[i].kind = "Block" => i > 1 /\ anc[i - 1].kind \in BlockOwners
          /\ anc[i].kind = "DistFree" => i = 2
      BY DEF InText
    <2>2. b[i].kind = anc[i].kind /\ (i > 1 => b[i - 1] = anc[i - 1])
      BY <1>1, <1>2 DEF Edit
    <2> QED
      BY <2>1, <2>2
  <1>3. ASSUME k <= n, PlacedInText(b, k), NEW i \in 1..Len(b), i > k
        PROVE  /\ b[i].kind \in TextNodes
               /\ b[i].kind = "Block" => i > 1 /\ b[i - 1].kind \in BlockOwners
               /\ b[i].kind = "DistFree" => i = 2
    BY <1>1, <1>3 DEF PlacedInText
  <1>4. ASSUME k <= n, PlacedInText(b, k)
        PROVE  InText(b, Len(b))
    <2> SUFFICES ASSUME NEW i \in 1..Len(b)
                 PROVE  /\ b[i].kind \in TextNodes
                        /\ b[i].kind = "Block" => i > 1 /\ b[i - 1].kind \in BlockOwners
                        /\ b[i].kind = "DistFree" => i = 2
      BY DEF InText
    <2>1. CASE i > k
      BY <1>3, <1>4, <2>1
    <2>2. CASE i <= k
      <3>1. i \in 1..n
        BY <1>1, <1>4, <2>2
      <3> QED
        BY <1>2, <2>2, <3>1
    <2> QED
      BY <1>1, <2>1, <2>2
  <1>5. ASSUME n <= k
        PROVE  InText(b, n)
    <2> SUFFICES ASSUME NEW i \in 1..n
                 PROVE  /\ b[i].kind \in TextNodes
                        /\ b[i].kind = "Block" => i > 1 /\ b[i - 1].kind \in BlockOwners
                        /\ b[i].kind = "DistFree" => i = 2
      BY DEF InText
    <2>1. i <= k
      BY <1>1, <1>5
    <2> QED
      BY <1>2, <2>1
  <1> QED
    BY <1>4, <1>5

LEMMA CountedIsFinite ==
    ASSUME NEW anc, NEW n \in Nat
    PROVE  IsFiniteSet(Counted(anc, n)) /\ Cardinality(Counted(anc, n)) \in Nat
  <1>1. IsFiniteSet(1..n)
    BY FS_Interval
  <1>2. Counted(anc, n) \in SUBSET (1..n)
    BY DEF Counted
  <1> QED
    BY <1>1, <1>2, FS_Subset, FS_CardinalityType

LEMMA CountsNext ==
    ASSUME NEW anc, NEW n \in Nat
    PROVE  /\ ~(anc[n + 1].kind \in Counting /\ ~InChain(anc, n + 1)) => Counted(anc, n + 1) = Counted(anc, n)
           /\ anc[n + 1].kind \in Counting /\ ~InChain(anc, n + 1)
              => /\ Counted(anc, n + 1) = Counted(anc, n) \cup {n + 1}
                 /\ n + 1 \in Counted(anc, n + 1)
                 /\ Cardinality(Counted(anc, n + 1)) = Cardinality(Counted(anc, n)) + 1
  <1>1. 1..n + 1 = (1..n) \cup {n + 1} /\ n + 1 \notin 1..n
    OBVIOUS
  <1>2. n + 1 \notin Counted(anc, n)
    BY <1>1 DEF Counted
  <1>3. CASE ~(anc[n + 1].kind \in Counting /\ ~InChain(anc, n + 1))
    BY <1>1, <1>3 DEF Counted
  <1>4. CASE anc[n + 1].kind \in Counting /\ ~InChain(anc, n + 1)
    <2>1. Counted(anc, n + 1) = Counted(anc, n) \cup {n + 1}
      BY <1>1, <1>4 DEF Counted
    <2>2. IsFiniteSet(Counted(anc, n))
      BY CountedIsFinite
    <2>3. Cardinality(Counted(anc, n) \cup {n + 1}) = Cardinality(Counted(anc, n)) + 1
      BY <1>2, <2>2, FS_AddElement
    <2> QED
      BY <1>4, <2>1, <2>3
  <1> QED
    BY <1>3, <1>4

LEMMA EditCounts ==
    ASSUME NEW anc, Shape(anc), NEW b, NEW k, Edit(anc, b, k), NEW n \in Nat, n <= k
    PROVE  Counted(b, n) = Counted(anc, n)
  <1>1. \A i \in 1..n : b[i].kind = anc[i].kind /\ (i > 1 => b[i - 1].kind = anc[i - 1].kind)
    BY DEF Shape, Edit
  <1>2. \A i \in 1..n : InChain(b, i) <=> InChain(anc, i)
    BY <1>1 DEF InChain
  <1> QED
    BY <1>1, <1>2 DEF Counted

LEMMA EditMatches ==
    ASSUME NEW anc, Shape(anc), NEW b, NEW k, Edit(anc, b, k), NEW n \in Nat, n <= k, NEW op
    PROVE  Match(b, n, op) <=> Match(anc, n, op)
  <1>1. Counted(b, n) = Counted(anc, n)
    BY EditCounts
  <1>2. ASSUME NEW i \in Counted(anc, n)
        PROVE  Counted(b, i) = Counted(anc, i) /\ b[i].kind = anc[i].kind
    <2>1. i \in 1..n
      BY DEF Counted
    <2>2. i \in Nat /\ i <= k /\ b[i].kind = anc[i].kind
      BY <2>1 DEF Edit, Shape
    <2>3. Counted(b, i) = Counted(anc, i)
      BY <2>2, EditCounts
    <2> QED
      BY <2>2, <2>3
  <1> QED
    BY <1>1, <1>2 DEF Match

\* A node that does not count, and one that does, after the first n.
LEMMA MatchNext ==
    ASSUME NEW anc, NEW n \in Nat, NEW op, Match(anc, n, op)
    PROVE  /\ ~(anc[n + 1].kind \in Counting /\ ~InChain(anc, n + 1)) => Match(anc, n + 1, op)
           /\ anc[n + 1].kind \in Counting /\ ~InChain(anc, n + 1)
              => Match(anc, n + 1, Append(op, anc[n + 1].kind))
  <1>1. CASE ~(anc[n + 1].kind \in Counting /\ ~InChain(anc, n + 1))
    BY <1>1, CountsNext DEF Match
  <1>2. CASE anc[n + 1].kind \in Counting /\ ~InChain(anc, n + 1)
    <2> DEFINE kind == anc[n + 1].kind
               longer == Append(op, kind)
    <2>1. /\ Counted(anc, n + 1) = Counted(anc, n) \cup {n + 1}
          /\ Cardinality(Counted(anc, n + 1)) = Cardinality(Counted(anc, n)) + 1
      BY <1>2, CountsNext
    <2>2. /\ op \in Seq(Counting) /\ Len(op) \in Nat /\ Cardinality(Counted(anc, n)) = Len(op)
          /\ \A i \in Counted(anc, n) : op[Cardinality(Counted(anc, i))] = anc[i].kind
      BY DEF Match
    <2>3. /\ longer \in Seq(Counting) /\ Len(longer) = Len(op) + 1 /\ longer[Len(op) + 1] = kind
          /\ \A i \in 1..Len(op) : longer[i] = op[i]
      BY <1>2, <2>2, AppendProperties
    <2>4. ASSUME NEW i \in Counted(anc, n)
          PROVE  Cardinality(Counted(anc, i)) \in 1..Len(op)
      <3>1. i \in 1..n /\ i \in Nat
        BY DEF Counted
      <3>2. Counted(anc, i) \in SUBSET Counted(anc, n) /\ i \in Counted(anc, i)
        BY <3>1 DEF Counted
      <3>3. /\ IsFiniteSet(Counted(anc, n)) /\ IsFiniteSet(Counted(anc, i))
            /\ Cardinality(Counted(anc, i)) \in Nat
        BY <3>1, CountedIsFinite
      <3>4. Cardinality(Counted(anc, i)) <= Cardinality(Counted(anc, n))
        BY <3>2, <3>3, FS_Subset
      <3>5. Cardinality(Counted(anc, i)) # 0
        BY <3>2, <3>3, FS_EmptySet
      <3> QED
        BY <2>2, <3>3, <3>4, <3>5
    <2> HIDE DEF longer
    <2>5. ASSUME NEW i \in Counted(anc, n + 1)
          PROVE  longer[Cardinality(Counted(anc, i))] = anc[i].kind
      <3>1. CASE i = n + 1
        BY <2>1, <2>2, <2>3, <3>1
      <3>2. CASE i \in Counted(anc, n)
        BY <2>2, <2>3, <2>4, <3>2
      <3> QED
        BY <2>1, <3>1, <3>2
    <2> QED
      BY <1>2, <2>1, <2>2, <2>3, <2>5 DEF Match, longer
  <1> QED
    BY <1>1, <1>2

\* The same, backwards.
LEMMA MatchBefore ==
    ASSUME NEW anc, NEW n \in Nat, NEW op, Match(anc, n + 1, op)
    PROVE  /\ ~(anc[n + 1].kind \in Counting /\ ~InChain(anc, n + 1)) => Match(anc, n, op)
           /\ anc[n + 1].kind \in Counting /\ ~InChain(anc, n + 1)
              => op # <<>> /\ Match(anc, n, Front(op))
  <1>1. CASE ~(anc[n + 1].kind \in Counting /\ ~InChain(anc, n + 1))
    BY <1>1, CountsNext DEF Match
  <1>2. CASE anc[n + 1].kind \in Counting /\ ~InChain(anc, n + 1)
    <2>1. /\ Counted(anc, n + 1) = Counted(anc, n) \cup {n + 1}
          /\ Cardinality(Counted(anc, n + 1)) = Cardinality(Counted(anc, n)) + 1
          /\ Cardinality(Counted(anc, n)) \in Nat
      BY <1>2, CountsNext, CountedIsFinite
    <2>2. /\ op \in Seq(Counting) /\ Len(op) \in Nat /\ Cardinality(Counted(anc, n)) = Len(op) - 1
          /\ \A i \in Counted(anc, n) : op[Cardinality(Counted(anc, i))] = anc[i].kind
      BY <2>1 DEF Match
    <2>3. op # <<>>
      BY <2>1, <2>2, EmptySeq
    <2>4. /\ Front(op) \in Seq(Counting) /\ Len(Front(op)) = Len(op) - 1
          /\ \A i \in 1..Len(op) - 1 : Front(op)[i] = op[i]
      BY <2>2, <2>3, FrontShortens
    <2>5. ASSUME NEW i \in Counted(anc, n)
          PROVE  Cardinality(Counted(anc, i)) \in 1..Len(op) - 1
      <3>1. i \in 1..n /\ i \in Nat
        BY DEF Counted
      <3>2. Counted(anc, i) \in SUBSET Counted(anc, n) /\ i \in Counted(anc, i)
        BY <3>1 DEF Counted
      <3>3. /\ IsFiniteSet(Counted(anc, n)) /\ IsFiniteSet(Counted(anc, i))
            /\ Cardinality(Counted(anc, i)) \in Nat
        BY <3>1, CountedIsFinite
      <3>4. Cardinality(Counted(anc, i)) <= Cardinality(Counted(anc, n))
        BY <3>2, <3>3, FS_Subset
      <3>5. Cardinality(Counted(anc, i)) # 0
        BY <3>2, <3>3, FS_EmptySet
      <3> QED
        BY <2>2, <3>3, <3>4, <3>5
    <2>6. \A i \in Counted(anc, n) : Front(op)[Cardinality(Counted(anc, i))] = anc[i].kind
      BY <2>2, <2>4, <2>5
    <2> QED
      BY <1>2, <2>2, <2>3, <2>4, <2>6 DEF Match
  <1> QED
    BY <1>1, <1>2

-----------------------------------------------------------------------------
(***************************************************************************)
(* The tokens on their way, and the modes that they are read in.           *)
(***************************************************************************)
LEMMA RunsNone ==
    ASSUME NEW m \in Modes
    PROVE  Runs(<<>>, m, m)
  <1> DEFINE ms == [i \in 0..0 |-> m]
  <1>1. ms \in [0..0 -> Modes] /\ ms[0] = m
    OBVIOUS
  <1>2. Len(<<>>) = 0 /\ 1..0 = {}
    OBVIOUS
  <1> HIDE DEF ms
  <1>3. \A i \in 1..Len(<<>>) : Passes(ms[i - 1], <<>>[i], ms[i])
    BY <1>2
  <1> QED
    BY <1>1, <1>2, <1>3 DEF Runs

LEMMA RunsOne ==
    ASSUME NEW m \in Modes, NEW n \in Modes, NEW t, Passes(m, t, n)
    PROVE  Runs(<<t>>, m, n)
  <1> DEFINE ms == [i \in 0..1 |-> IF i = 0 THEN m ELSE n]
  <1>1. ms \in [0..1 -> Modes] /\ ms[0] = m /\ ms[1] = n
    OBVIOUS
  <1>2. Len(<<t>>) = 1 /\ <<t>>[1] = t
    OBVIOUS
  <1> HIDE DEF ms
  <1>3. \A i \in 1..1 : Passes(ms[i - 1], <<t>>[i], ms[i])
    BY <1>1, <1>2
  <1> QED
    BY <1>1, <1>2, <1>3 DEF Runs

LEMMA RunsOn ==
    ASSUME NEW q \in Seq(Tokens), NEW r \in Seq(Tokens), NEW m, NEW n, NEW p, Runs(q, m, n), Runs(r, n, p)
    PROVE  Runs(q \o r, m, p)
  <1>1. PICK ms \in [0..Len(q) -> Modes] : /\ ms[0] = m /\ ms[Len(q)] = n
                                           /\ \A i \in 1..Len(q) : Passes(ms[i - 1], q[i], ms[i])
    BY DEF Runs
  <1>2. PICK ns \in [0..Len(r) -> Modes] : /\ ns[0] = n /\ ns[Len(r)] = p
                                           /\ \A i \in 1..Len(r) : Passes(ns[i - 1], r[i], ns[i])
    BY DEF Runs
  <1> DEFINE k == Len(q)
             l == Len(r)
             all == [i \in 0..k + l |-> IF i <= k THEN ms[i] ELSE ns[i - k]]
  <1>3. /\ k \in Nat /\ l \in Nat /\ Len(q \o r) = k + l
        /\ \A i \in 1..k : (q \o r)[i] = q[i]
        /\ \A i \in k + 1..k + l : (q \o r)[i] = r[i - k]
    BY ConcatProperties
  <1> HIDE DEF k, l
  <1>4. all \in [0..k + l -> Modes]
    <2> SUFFICES ASSUME NEW i \in 0..k + l
                 PROVE  (IF i <= k THEN ms[i] ELSE ns[i - k]) \in Modes
      OBVIOUS
    <2>1. CASE i <= k
      <3>1. i \in 0..k
        BY <1>3, <2>1
      <3> QED
        BY <2>1, <3>1 DEF k
    <2>2. CASE ~(i <= k)
      <3>1. i - k \in 0..l
        BY <1>3, <2>2
      <3> QED
        BY <2>2, <3>1 DEF l
    <2> QED
      BY <2>1, <2>2
  <1>5. /\ \A i \in 0..k : all[i] = ms[i]
        /\ \A i \in k + 1..k + l : all[i] = ns[i - k]
    BY <1>3
  <1> HIDE DEF all
  <1>6. all[k] = ns[0] /\ all[0] = m
    BY <1>1, <1>2, <1>3, <1>5 DEF k
  <1>7. all[k + l] = p
    <2>1. CASE l = 0
      BY <1>2, <1>3, <1>6, <2>1 DEF l
    <2>2. CASE l # 0
      BY <1>2, <1>3, <1>5, <2>2 DEF l
    <2> QED
      BY <2>1, <2>2
  <1>8. ASSUME NEW i \in 1..k + l
        PROVE  Passes(all[i - 1], (q \o r)[i], all[i])
    <2>1. CASE i <= k
      <3>1. i \in 1..k /\ i - 1 \in 0..k /\ i \in 0..k
        BY <1>3, <2>1
      <3> QED
        BY <1>1, <1>3, <1>5, <3>1 DEF k
    <2>2. CASE i > k
      <3>1. i \in k + 1..k + l /\ i - k \in 1..l
        BY <1>3, <2>2
      <3>2. Passes(ns[(i - k) - 1], r[i - k], ns[i - k])
        BY <1>2, <3>1 DEF l
      <3>3. all[i] = ns[i - k] /\ (q \o r)[i] = r[i - k]
        BY <1>3, <1>5, <3>1
      <3>4. all[i - 1] = ns[(i - k) - 1]
        <4>1. CASE i = k + 1
          <5>1. i - 1 = k /\ (i - k) - 1 = 0
            BY <1>3, <4>1
          <5> QED
            BY <1>6, <5>1
        <4>2. CASE i # k + 1
          <5>1. i - 1 \in k + 1..k + l /\ (i - 1) - k = (i - k) - 1
            BY <1>3, <3>1, <4>2
          <5> QED
            BY <1>5, <5>1
        <4> QED
          BY <4>1, <4>2
      <3> QED
        BY <3>2, <3>3, <3>4
    <2> QED
      BY <1>3, <2>1, <2>2
  <1> QED
    BY <1>3, <1>4, <1>6, <1>7, <1>8 DEF Runs

\* The first token of the channel is read.
LEMMA RunsTail ==
    ASSUME NEW q \in Seq(Tokens), q # <<>>, NEW m, NEW p, Runs(q, m, p)
    PROVE  \E n \in Modes : Passes(m, Head(q), n) /\ Runs(Tail(q), n, p)
  <1>1. PICK ms \in [0..Len(q) -> Modes] : /\ ms[0] = m /\ ms[Len(q)] = p
                                           /\ \A i \in 1..Len(q) : Passes(ms[i - 1], q[i], ms[i])
    BY DEF Runs
  <1> DEFINE k == Len(q) - 1
             ns == [i \in 0..k |-> ms[i + 1]]
             n == ms[1]
  <1>2. /\ k \in Nat /\ Len(q) = k + 1 /\ Head(q) = q[1]
        /\ Len(Tail(q)) = k /\ \A i \in 1..k : Tail(q)[i] = q[i + 1]
    BY EmptySeq, HeadTailProperties
  <1> HIDE DEF k
  <1>3. ns \in [0..k -> Modes] /\ \A i \in 0..k : ns[i] = ms[i + 1]
    BY <1>2
  <1>4. n \in Modes /\ Passes(m, Head(q), n)
    <2>1. 1 \in 1..Len(q) /\ 1 \in 0..Len(q) /\ 1 - 1 = 0
      BY <1>2
    <2>2. Passes(ms[1 - 1], q[1], ms[1])
      BY <1>1, <2>1
    <2> QED
      BY <1>1, <1>2, <2>1, <2>2
  <1> HIDE DEF ns
  <1>5. ns[0] = n /\ ns[k] = p
    BY <1>1, <1>2, <1>3
  <1>6. ASSUME NEW i \in 1..k
        PROVE  Passes(ns[i - 1], Tail(q)[i], ns[i])
    <2>1. i + 1 \in 1..Len(q) /\ i - 1 \in 0..k /\ i \in 0..k /\ (i - 1) + 1 = (i + 1) - 1
      BY <1>2
    <2>2. Passes(ms[(i + 1) - 1], q[i + 1], ms[i + 1])
      BY <1>1, <2>1
    <2> QED
      BY <1>2, <1>3, <2>1, <2>2
  <1> HIDE DEF n
  <1>7. Runs(Tail(q), n, p)
    BY <1>2, <1>3, <1>5, <1>6 DEF Runs
  <1> QED
    BY <1>4, <1>7

\* What the lexer puts on their way.
Sends(ts, m, n) == ts \in Seq(Tokens) /\ Runs(ts, m, n)

LEMMA SendsOne ==
    ASSUME NEW m \in Modes, NEW n \in Modes, NEW t \in Tokens, Passes(m, t, n)
    PROVE  Sends(<<t>>, m, n)
  BY RunsOne DEF Sends

LEMMA SendsNone ==
    ASSUME NEW m \in Modes
    PROVE  Sends(<<>>, m, m)
  BY RunsNone DEF Sends

LEMMA SendsOn ==
    ASSUME NEW q, NEW r, NEW m, NEW n, NEW p, Sends(q, m, n), Sends(r, n, p)
    PROVE  Sends(q \o r, m, p)
  BY RunsOn DEF Sends

LEMMA SendsPending ==
    ASSUME NEW m \in Modes, m = "code" => pending = "none"
    PROVE  Sends(PendingText, m, m)
  <1>1. CASE pending = "none"
    BY <1>1, SendsNone DEF PendingText
  <1>2. CASE pending # "none"
    <2> DEFINE t == [typ |-> "text", ctx |-> "Text", blank |-> pending = "blank"]
    <2>1. t \in Tokens
      BY DEF Tokens
    <2>2. Passes(m, t, m)
      BY <1>2 DEF Passes
    <2>3. PendingText = <<t>>
      BY <1>2 DEF PendingText
    <2> HIDE DEF t
    <2> QED
      BY <2>1, <2>2, <2>3, SendsOne
  <1> QED
    BY <1>1, <1>2

LEMMA SendsAfterPending ==
    ASSUME NEW m \in Modes, m = "code" => pending = "none", NEW n \in Modes, NEW t \in Tokens, Passes(m, t, n)
    PROVE  Sends(PendingText \o <<t>>, m, n)
  BY SendsPending, SendsOne, SendsOn

LEMMA TokensAreTokens ==
    ASSUME at.ctx \in Contexts
    PROVE  /\ \A typ \in {"{%%", "%%}", "show", "comment", "start URL", "end URL", "EOF"} :
                Token(typ) \in Tokens /\ Token(typ).typ = typ
           /\ \A kind \in TextKinds \cup Ending \cup {"raw"} :
                Statement(kind) \in Tokens /\ Statement(kind).typ = "statement" /\ Statement(kind).kind = kind
  BY DEF Token, Statement, Tokens

\* A step of the lexer, that has sent all the tokens it had to and goes on in mode n.
Lexes(n) ==
  /\ scan \in Modes /\ out = <<>> /\ Sends(out', scan, n)
  /\ tokens' = tokens
  /\ scan' \in Modes => scan' = n
  /\ scan' = "code" => pending' = "none"

LEMMA LexesAgrees ==
    ASSUME QueueOK, NEW n \in Modes, Lexes(n)
    PROVE  /\ QueueOK'
           /\ Agrees /\ UNCHANGED <<ancestors, open, fileContext>> => Agrees'
  <1>1. QueueOK'
    BY DEF QueueOK, Lexes, Sends
  <1>2. ASSUME Agrees, UNCHANGED <<ancestors, open, fileContext>>
        PROVE  Agrees'
    <2>1. PICK m \in Modes : /\ TreeOf(m, ancestors, open)
                             /\ Runs(tokens \o out, m, scan)
      BY <1>2 DEF Agrees, Lexes
    <2>2. tokens \o out = tokens
      BY ConcatEmptySeq DEF QueueOK, Lexes
    <2>3. Runs(tokens' \o out', m, n)
      BY <2>1, <2>2, RunsOn DEF QueueOK, Lexes, Sends
    <2>4. TreeOf(m, ancestors, open)'
      BY <1>2, <2>1 DEF TreeOf, TextTree, RawTree, CodeTree, InCode
    <2> QED
      BY <2>3, <2>4 DEF Agrees, Lexes
  <1> QED
    BY <1>1, <1>2

LEMMA EmitsLexes ==
    ASSUME LexerTypeOK, QueueOK, NEW a, NEW n \in Modes, NEW t \in Tokens,
           Emits(<<t>>, a), scan \in Modes, out = <<>>, tokens' = tokens, scan' = n,
           Passes(scan, t, n)
    PROVE  Lexes(n)
  <1>1. out' = PendingText \o <<t>> /\ pending' = "none"
    BY DEF Emits
  <1>2. Sends(out', scan, n)
    BY <1>1, SendsAfterPending DEF QueueOK
  <1> QED
    BY <1>1, <1>2 DEF Lexes

\* The text: it sends the start or the end of a URL, or nothing.
LEMMA MovesLexes ==
    ASSUME LexerTypeOK, QueueOK, NEW b \in Place, NEW c, Moves(b, c), Scans("text")
    PROVE  Lexes("text")
  <1> DEFINE t == [typ |-> IF b.url THEN "start URL" ELSE "end URL", ctx |-> IF b.url THEN b.ctx ELSE at.ctx]
  <1>1. /\ out = <<>> /\ scan = "text" /\ scan' = "text" /\ tokens' = tokens
        /\ out' = IF b.url = at.url THEN <<>> ELSE PendingText \o <<t>>
        /\ "text" \in Modes
    BY DEF Moves, Scans, Modes
  <1>2. b.ctx \in Contexts /\ at.ctx \in Contexts
    BY DEF LexerTypeOK, Place
  <1>3. t \in Tokens /\ Passes("text", t, "text")
    <2>1. t = [typ |-> "start URL", ctx |-> b.ctx] \/ t = [typ |-> "end URL", ctx |-> at.ctx]
      OBVIOUS
    <2> HIDE DEF t
    <2>2. CASE t = [typ |-> "start URL", ctx |-> b.ctx]
      <3>1. t.typ = "start URL" /\ t \in Tokens
        BY <1>2, <2>2 DEF Tokens
      <3> QED
        BY <3>1 DEF Passes
    <2>3. CASE t = [typ |-> "end URL", ctx |-> at.ctx]
      <3>1. t.typ = "end URL" /\ t \in Tokens
        BY <1>2, <2>3 DEF Tokens
      <3> QED
        BY <3>1 DEF Passes
    <2> QED
      BY <2>1, <2>2, <2>3
  <1> HIDE DEF t
  <1>4. CASE b.url = at.url
    BY <1>1, <1>4, SendsNone DEF Lexes
  <1>5. CASE b.url # at.url
    <2>1. Sends(PendingText \o <<t>>, "text", "text")
      BY <1>1, <1>3, SendsAfterPending
    <2> QED
      BY <1>1, <1>5, <2>1 DEF Lexes
  <1> QED
    BY <1>4, <1>5

LEMMA TextLexes ==
    ASSUME LexerTypeOK, QueueOK, NEW c \in Symbols[fileContext], Text(c) \/ EndAttr(c) \/ StaleIndex(c)
    PROVE  Lexes("text")
  <1>1. fileContext \in FormatContexts /\ at \in Place /\ WellFormed(c) /\ Scans("text")
    BY ScansText, SymbolsAreWellFormed DEF Text, EndAttr, StaleIndex, Scans, LexerTypeOK
  <1>2. CASE Text(c)
    BY <1>1, <1>2, StepFollows, MovesLexes DEF Text, Follows
  <1>3. CASE EndAttr(c)
    <2>1. PICK value : Moves(EndOfAttr(at, c, value), c) /\ at.ctx \in Attributes
      BY <1>3 DEF EndAttr, EndsAttr, Attributes
    <2>2. EndOfAttr(at, c, value) \in Place
      BY <1>1, <2>1, EndOfAttrFollows DEF Follows
    <2> QED
      BY <1>1, <2>1, <2>2, MovesLexes
  <1>4. CASE StaleIndex(c)
    <2>1. scan = "text" /\ out = <<>> /\ scan' = "panic" /\ out' = out /\ tokens' = tokens
      BY <1>4 DEF StaleIndex, Scans
    <2>2. Sends(<<>>, "text", "text")
      BY SendsNone DEF Modes
    <2> QED
      BY <2>1, <2>2 DEF Lexes, Modes
  <1> QED
    BY <1>2, <1>3, <1>4

LEMMA CodeLexes ==
    ASSUME LexerTypeOK, QueueOK, NEW kind \in Code[fileContext], lexCode(kind)
    PROVE  Lexes("code")
  <1> DEFINE t == [typ |-> "code", kind |-> kind, ctx |-> at.ctx]
  <1>1. at.ctx \in Contexts /\ kind \in CodeKinds
    BY DEF LexerTypeOK, Place, CodeKinds
  <1>2. t.typ = "code" /\ t \in Tokens
    BY <1>1 DEF Tokens
  <1>3. /\ out = <<>> /\ scan = "code" /\ out' = <<t>> /\ UNCHANGED <<scan, tokens, pending>>
    BY DEF lexCode, Scans
  <1> HIDE DEF t
  <1>4. Sends(<<t>>, "code", "code")
    BY <1>2, SendsOne DEF Passes, Modes
  <1> QED
    BY <1>3, <1>4 DEF Lexes, QueueOK, Modes

\* The symbols that are code in the text.
LEMMA StatementsLex ==
    ASSUME LexerTypeOK, QueueOK,
           \/ lexShow \/ lexComment \/ lexStatements \/ lexRaw \/ lexEndStatements
           \/ \E kind : lexBlock(kind) \/ lexLabelled(kind) \/ lexEnd(kind) \/ lexOther(kind)
           \/ \E kind, body : lexMacro(kind, body)
    PROVE  \E n \in Modes : Lexes(n)
  <1>1. at.ctx \in Contexts
    BY DEF LexerTypeOK, Place
  <1>2. "text" \in Modes /\ "raw" \in Modes /\ "code" \in Modes
    BY DEF Modes
  <1>3. ASSUME NEW t \in Tokens, NEW a, Emits(<<t>>, a), scan \in Modes, out = <<>>, tokens' = tokens,
               scan' \in Modes, Passes(scan, t, scan')
        PROVE  \E n \in Modes : Lexes(n)
    BY <1>3, EmitsLexes
  <1>4. CASE lexShow \/ lexComment \/ lexStatements
    <2>1. PICK typ \in {"show", "comment", "{%%"} :
               Emits(<<Token(typ)>>, at) /\ scan' = IF typ = "{%%" THEN "code" ELSE "text"
      BY <1>4 DEF lexShow, lexComment, lexStatements, Opens, Scans
    <2>2. scan = "text" /\ out = <<>> /\ tokens' = tokens
      BY <1>4 DEF lexShow, lexComment, lexStatements, Opens, Scans
    <2>3. Token(typ) \in Tokens /\ Token(typ).typ = typ
      BY <1>1, TokensAreTokens
    <2>4. Passes(scan, Token(typ), scan')
      BY <2>1, <2>2, <2>3 DEF Passes
    <2> QED
      BY <1>2, <1>3, <2>1, <2>2, <2>3, <2>4
  <1>5. ASSUME NEW kind, lexBlock(kind) \/ lexLabelled(kind) \/ lexOther(kind) \/ \E body : lexMacro(kind, body)
        PROVE  \E n \in Modes : Lexes(n)
    <2>1. PICK a : Emits(<<Statement(kind)>>, a)
      BY <1>5 DEF lexBlock, lexLabelled, lexOther, lexMacro
    <2>2. scan = "text" /\ out = <<>> /\ tokens' = tokens /\ scan' = "text" /\ kind \in TextKinds
      BY <1>5 DEF lexBlock, lexLabelled, lexOther, lexMacro, Opens, Scans, TextKinds
    <2>3. Statement(kind) \in Tokens /\ Statement(kind).typ = "statement" /\ Statement(kind).kind = kind
      BY <1>1, <2>2, TokensAreTokens
    <2>4. Passes(scan, Statement(kind), scan')
      BY <2>2, <2>3 DEF Passes
    <2> QED
      BY <1>2, <1>3, <2>1, <2>2, <2>3, <2>4
  <1>6. CASE lexRaw
    <2>1. Emits(<<Statement("raw")>>, at) /\ scan = "text" /\ out = <<>> /\ tokens' = tokens /\ scan' = "raw"
      BY <1>6 DEF lexRaw, Opens, Scans
    <2>2. Statement("raw") \in Tokens /\ Statement("raw").typ = "statement" /\ Statement("raw").kind = "raw"
      BY <1>1, TokensAreTokens
    <2>3. Passes(scan, Statement("raw"), scan')
      BY <2>1, <2>2 DEF Passes
    <2> QED
      BY <1>2, <1>3, <2>1, <2>2, <2>3
  <1>7. ASSUME NEW kind, lexEnd(kind)
        PROVE  \E n \in Modes : Lexes(n)
    <2>1. PICK a : Emits(<<Statement(kind)>>, a)
      BY <1>7 DEF lexEnd
    <2>2. scan \in {"text", "raw"} /\ out = <<>> /\ tokens' = tokens /\ scan' = "text" /\ kind \in Ending
      BY <1>7 DEF lexEnd, Ending
    <2>3. Statement(kind) \in Tokens /\ Statement(kind).typ = "statement" /\ Statement(kind).kind = kind
      BY <1>1, <2>2, TokensAreTokens
    <2>4. Passes(scan, Statement(kind), scan') /\ scan \in Modes
      BY <2>2, <2>3 DEF Passes, Modes
    <2> QED
      BY <1>2, <1>3, <2>1, <2>2, <2>3, <2>4
  <1>8. CASE lexEndStatements
    <2>1. out' = <<Token("%%}")>> /\ scan = "code" /\ out = <<>> /\ tokens' = tokens /\ scan' = "text"
      BY <1>8 DEF lexEndStatements, Scans
    <2>2. Token("%%}") \in Tokens /\ Token("%%}").typ = "%%}"
      BY <1>1, TokensAreTokens
    <2>3. Passes(scan, Token("%%}"), scan')
      BY <2>1, <2>2 DEF Passes
    <2>4. Sends(out', scan, "text")
      BY <1>2, <2>1, <2>2, <2>3, SendsOne
    <2> QED
      BY <1>2, <2>1, <2>4 DEF Lexes
  <1> QED
    BY <1>4, <1>5, <1>6, <1>7, <1>8

\* The symbols that send nothing, or no more than the text.
LEMMA OthersLex ==
    ASSUME QueueOK, skipRawContent \/ CutComment \/ LexicalError \/ EndOfFileInCode
    PROVE  \E n \in Modes : Lexes(n)
  <1>1. /\ scan \in Modes /\ out = <<>> /\ tokens' = tokens /\ out' \in {<<>>, PendingText}
        /\ scan' \in Modes => scan' = scan /\ scan # "code"
    BY DEF skipRawContent, CutComment, LexicalError, EndOfFileInCode, Opens, Scans, Modes
  <1>2. scan = "code" => pending = "none"
    BY DEF QueueOK
  <1>3. Sends(out', scan, scan)
    BY <1>1, <1>2, SendsNone, SendsPending
  <1> QED
    BY <1>1, <1>3 DEF Lexes, Modes

LEMMA EndOfFileLexes ==
    ASSUME LexerTypeOK, QueueOK, EndOfFile
    PROVE  \E n \in Modes : Lexes(n)
  <1> DEFINE url == IF at.url /\ at.ctx = "Markdown" THEN <<Token("end URL")>> ELSE <<>>
  <1>1. /\ scan \in Modes /\ out = <<>> /\ tokens' = tokens /\ scan' = "closed"
        /\ out' = (PendingText \o url) \o <<Token("EOF")>>
        /\ scan = "code" => pending = "none"
    BY DEF EndOfFile, Scans, Modes, QueueOK
  <1>2. at.ctx \in Contexts
    BY DEF LexerTypeOK, Place
  <1>3. /\ Token("end URL") \in Tokens /\ Token("end URL").typ = "end URL"
        /\ Token("EOF") \in Tokens /\ Token("EOF").typ = "EOF"
    BY <1>2, TokensAreTokens
  <1>4. Passes(scan, Token("end URL"), scan) /\ Passes(scan, Token("EOF"), scan)
    BY <1>3 DEF Passes
  <1>5. Sends(url, scan, scan)
    BY <1>1, <1>3, <1>4, SendsOne, SendsNone
  <1> HIDE DEF url
  <1>6. Sends(PendingText \o url, scan, scan)
    BY <1>1, <1>5, SendsPending, SendsOn
  <1>7. Sends(<<Token("EOF")>>, scan, scan)
    BY <1>1, <1>3, <1>4, SendsOne
  <1>8. Sends(out', scan, scan)
    BY <1>1, <1>6, <1>7, SendsOn
  <1> QED
    BY <1>1, <1>8 DEF Lexes, Modes

LEMMA LexLexes ==
    ASSUME LexerTypeOK, QueueOK, Lex \/ LexEnd
    PROVE  \E n \in Modes : Lexes(n)
  <1>1. CASE LexEnd
    BY <1>1, EndOfFileLexes, OthersLex DEF LexEnd
  <1>2. CASE Lex
    <2>1. CASE \E c \in Symbols[fileContext] : Text(c) \/ EndAttr(c) \/ StaleIndex(c)
      BY <2>1, TextLexes DEF Modes
    <2>2. CASE \E kind \in Code[fileContext] : lexCode(kind)
      BY <2>2, CodeLexes DEF Modes
    <2>3. CASE skipRawContent \/ CutComment \/ LexicalError
      BY <2>3, OthersLex
    <2>4. CASE \/ lexShow \/ lexComment \/ lexStatements \/ lexRaw \/ lexEndStatements
               \/ \E kind : lexBlock(kind) \/ lexLabelled(kind) \/ lexEnd(kind) \/ lexOther(kind)
               \/ \E kind, body : lexMacro(kind, body)
      BY <2>4, StatementsLex
    <2> QED
      BY <1>2, <2>1, <2>2, <2>3, <2>4 DEF Lex, Symbol
  <1> QED
    BY <1>1, <1>2

\* A token goes from the lexer to the channel.
LEMMA SendAgrees ==
    ASSUME QueueOK, Send
    PROVE  QueueOK' /\ tokens' \o out' = tokens \o out
  <1>1. /\ tokens \in Seq(Tokens) /\ out \in Seq(Tokens) /\ out # <<>>
        /\ tokens' = Append(tokens, Head(out)) /\ out' = Tail(out)
        /\ UNCHANGED <<scan, pending>>
    BY DEF QueueOK, Send
  <1> DEFINE t == Head(out)
             rest == Tail(out)
  <1>2. t \in Tokens /\ rest \in Seq(Tokens) /\ out = <<t>> \o rest
    <2>1. /\ t \in Tokens /\ rest \in Seq(Tokens) /\ Len(rest) = Len(out) - 1 /\ t = out[1]
          /\ \A i \in 1..Len(rest) : rest[i] = out[i + 1]
      BY <1>1, HeadTailProperties
    <2>2. Len(out) \in Nat /\ Len(out) # 0
      BY <1>1, EmptySeq
    <2> HIDE DEF t, rest
    <2>3. /\ <<t>> \o rest \in Seq(Tokens) /\ Len(<<t>> \o rest) = 1 + Len(rest)
          /\ (<<t>> \o rest)[1] = t
          /\ \A i \in 2..1 + Len(rest) : (<<t>> \o rest)[i] = rest[i - 1]
      BY <2>1
    <2>4. \A i \in 1..Len(out) : out[i] = (<<t>> \o rest)[i]
      <3> TAKE i \in 1..Len(out)
      <3>1. CASE i = 1
        BY <2>1, <2>3, <3>1
      <3>2. CASE i # 1
        <4>1. i \in 2..1 + Len(rest) /\ i - 1 \in 1..Len(rest) /\ (i - 1) + 1 = i
          BY <2>1, <2>2, <3>2
        <4> QED
          BY <2>1, <2>3, <4>1
      <3> QED
        BY <3>1, <3>2
    <2>5. Len(out) = Len(<<t>> \o rest)
      BY <2>1, <2>2, <2>3
    <2>6. out = <<t>> \o rest
      BY <1>1, <2>3, <2>4, <2>5, SeqEqual
    <2> QED
      BY <2>1, <2>6
  <1> HIDE DEF t, rest
  <1>3. Append(tokens, t) = tokens \o <<t>> /\ <<t>> \in Seq(Tokens)
    BY <1>1, <1>2, AppendIsConcat
  <1>4. (tokens \o <<t>>) \o rest = tokens \o (<<t>> \o rest)
    BY <1>1, <1>2, <1>3, ConcatAssociative
  <1>5. Append(tokens, t) \in Seq(Tokens)
    BY <1>1, <1>2, AppendProperties
  <1> QED
    BY <1>1, <1>2, <1>3, <1>4, <1>5 DEF QueueOK, t, rest

-----------------------------------------------------------------------------
(***************************************************************************)
(* The nodes after a token.                                                *)
(***************************************************************************)
NodeKinds == TextNodes \cup CodeNodes \cup CodeRoots \cup {"Raw"}

LEMMA NodesAreNodes ==
    ASSUME NEW kind \in NodeKinds
    PROVE  Node(kind) \in Nodes /\ Node(kind).kind = kind
  BY DEF Node, Nodes, NodeKinds

LEMMA ShapeIsSeq ==
    ASSUME NEW anc, Shape(anc)
    PROVE  /\ anc \in Seq(Nodes) /\ Len(anc) \in Nat /\ Len(anc) >= 1 /\ anc # <<>>
           /\ Len(anc) \in 1..Len(anc) /\ anc[Len(anc)] \in Nodes /\ Last(anc) = anc[Len(anc)]
  <1>1. anc \in Seq(Nodes) /\ Len(anc) \in Nat /\ Len(anc) >= 1
    BY DEF Shape
  <1>2. anc # <<>> /\ Len(anc) \in 1..Len(anc)
    BY <1>1, EmptySeq
  <1> QED
    BY <1>1, <1>2 DEF Last

\* The first k nodes.
LEMMA FirstNodes ==
    ASSUME NEW anc, Shape(anc), NEW k \in 1..Len(anc)
    PROVE  /\ Edit(anc, SubSeq(anc, 1, k), k) /\ Len(SubSeq(anc, 1, k)) = k
           /\ \A i \in 1..k : SubSeq(anc, 1, k)[i] = anc[i]
  <1>1. anc \in Seq(Nodes) /\ Len(anc) \in Nat /\ k \in Nat /\ \A i \in 1..k : anc[i] \in Nodes
    BY DEF Shape
  <1>2. /\ SubSeq(anc, 1, k) \in Seq(Nodes) /\ Len(SubSeq(anc, 1, k)) = k
        /\ \A i \in 1..k : SubSeq(anc, 1, k)[i] = anc[i]
    BY <1>1, SubSeqProperties
  <1> HIDE DEF Nodes
  <1> QED
    BY <1>1, <1>2 DEF Edit

LEMMA FrontIsFirst ==
    ASSUME NEW anc, Shape(anc)
    PROVE  Front(anc) = SubSeq(anc, 1, Len(anc) - 1)
  BY DEF Front

LEMMA OneMore ==
    ASSUME NEW anc, Shape(anc), NEW x \in Nodes
    PROVE  /\ Edit(anc, anc \o <<x>>, Len(anc)) /\ Len(anc \o <<x>>) = Len(anc) + 1
           /\ anc \o <<x>> = Append(anc, x)
           /\ (anc \o <<x>>)[Len(anc) + 1] = x
           /\ \A i \in 1..Len(anc) : (anc \o <<x>>)[i] = anc[i]
  <1> DEFINE b == Append(anc, x)
  <1>1. anc \in Seq(Nodes) /\ Len(anc) \in Nat /\ Len(anc) >= 1
    BY ShapeIsSeq
  <1>2. anc \o <<x>> = b
    BY <1>1, AppendIsConcat
  <1>3. b \in Seq(Nodes) /\ Len(b) = Len(anc) + 1 /\ b[Len(anc) + 1] = x /\ \A i \in 1..Len(anc) : b[i] = anc[i]
    BY <1>1, AppendProperties
  <1> HIDE DEF b
  <1>4. Edit(anc, b, Len(anc))
    BY <1>1, <1>3 DEF Edit
  <1> QED
    BY <1>2, <1>3, <1>4 DEF b

LEMMA TwoMore ==
    ASSUME NEW anc, Shape(anc), NEW x \in Nodes, NEW y \in Nodes
    PROVE  /\ Edit(anc, anc \o <<x, y>>, Len(anc)) /\ Len(anc \o <<x, y>>) = Len(anc) + 2
           /\ (anc \o <<x, y>>)[Len(anc) + 1] = x /\ (anc \o <<x, y>>)[Len(anc) + 2] = y
           /\ \A i \in 1..Len(anc) : (anc \o <<x, y>>)[i] = anc[i]
  <1> DEFINE b == anc \o <<x, y>>
  <1>1. anc \in Seq(Nodes) /\ Len(anc) \in Nat /\ Len(anc) >= 1
    BY ShapeIsSeq
  <1>2. <<x, y>> \in Seq(Nodes) /\ Len(<<x, y>>) = 2 /\ <<x, y>>[1] = x /\ <<x, y>>[2] = y
    OBVIOUS
  <1>3. /\ b \in Seq(Nodes) /\ Len(b) = Len(anc) + 2
        /\ \A i \in 1..Len(anc) : b[i] = anc[i]
        /\ \A i \in Len(anc) + 1..Len(anc) + 2 : b[i] = <<x, y>>[i - Len(anc)]
    BY <1>1, <1>2, ConcatProperties
  <1>4. Len(anc) + 1 \in Len(anc) + 1..Len(anc) + 2 /\ Len(anc) + 2 \in Len(anc) + 1..Len(anc) + 2
        /\ (Len(anc) + 1) - Len(anc) = 1 /\ (Len(anc) + 2) - Len(anc) = 2
    BY <1>1
  <1>5. b[Len(anc) + 1] = x /\ b[Len(anc) + 2] = y
    BY <1>2, <1>3, <1>4
  <1> HIDE DEF b
  <1>6. Edit(anc, b, Len(anc))
    BY <1>1, <1>3 DEF Edit
  <1> QED
    BY <1>3, <1>5, <1>6 DEF b

\* The last node has its else, or its cases.
LEMMA OtherLast ==
    ASSUME NEW anc, Shape(anc), NEW x \in Nodes, x.kind = anc[Len(anc)].kind
    PROVE  /\ Edit(anc, SetLast(anc, x), Len(anc)) /\ Len(SetLast(anc, x)) = Len(anc)
           /\ SetLast(anc, x)[Len(anc)] = x
           /\ \A i \in 1..Len(anc) - 1 : SetLast(anc, x)[i] = anc[i]
  <1> DEFINE f == Front(anc)
             b == Append(f, x)
             n == Len(anc) - 1
  <1>1. anc \in Seq(Nodes) /\ Len(anc) \in Nat /\ Len(anc) >= 1 /\ anc # <<>>
    BY ShapeIsSeq
  <1>2. f \in Seq(Nodes) /\ Len(f) = n /\ n \in Nat /\ \A i \in 1..n : f[i] = anc[i]
    BY <1>1, FrontShortens
  <1> HIDE DEF f
  <1>3. b \in Seq(Nodes) /\ Len(b) = n + 1 /\ b[n + 1] = x /\ \A i \in 1..n : b[i] = f[i]
    BY <1>2, AppendProperties
  <1>4. SetLast(anc, x) = b
    BY DEF SetLast, f
  <1> HIDE DEF b
  <1>5. n + 1 = Len(anc)
    BY <1>1
  <1> HIDE DEF n
  <1>6. Edit(anc, b, Len(anc))
    BY <1>1, <1>2, <1>3, <1>5 DEF Edit
  <1> QED
    BY <1>2, <1>3, <1>4, <1>5, <1>6 DEF n

LEMMA EditsEdit ==
    ASSUME NEW anc, Shape(anc), NEW b, NEW c, NEW k, NEW l, Edit(anc, b, k), Edit(b, c, l), l <= k
    PROVE  Edit(anc, c, l)
  <1>1. Len(anc) \in Nat /\ k \in 1..Len(anc) /\ l \in 1..Len(b) /\ k <= Len(b) /\ Len(b) \in Nat /\ Len(c) \in Nat
    BY DEF Edit, Shape
  <1>2. c \in Seq(Nodes) /\ l \in 1..Len(anc) /\ l <= Len(c)
    BY <1>1 DEF Edit
  <1>3. \A i \in 1..l - 1 : c[i] = anc[i]
    BY <1>1 DEF Edit
  <1>4. c[l].kind = anc[l].kind
    <2>1. CASE l = k
      BY <2>1 DEF Edit
    <2>2. CASE l # k
      <3>1. l \in 1..k - 1
        BY <1>1, <2>2
      <3> QED
        BY <3>1 DEF Edit
    <2> QED
      BY <2>1, <2>2
  <1> QED
    BY <1>2, <1>3, <1>4 DEF Edit

\* The nodes of the text, whatever the last one is.
Texts(anc, op) == Shape(anc) /\ InText(anc, Len(anc)) /\ Match(anc, Len(anc), op)

LEMMA HoldersOfText ==
    ASSUME NEW p, Holds(p)
    PROVE  /\ p.kind \in TextOpen \cup {"Statements"}
           /\ p.kind \notin {"If", "Label", "Package", "Macro", "Using", "DistFree", "Func", "Raw"}
           /\ p.kind \in TextNodes => p.kind \in TextOpen
  BY DEF Holds, Holders, Switches, TextOpen, TextNodes

\* A node that has another under it, other than those of the statements that have a block.
LEMMA ParentHolds ==
    ASSUME NEW anc, Shape(anc), NEW i \in 2..Len(anc)
    PROVE  /\ MayHold(anc[i - 1], anc[i].kind) /\ anc[i].kind # "Tree"
           /\ anc[i].kind \notin {"Block", "If", "Func"} => Holds(anc[i - 1])
           /\ anc[i].kind = "If" => Holds(anc[i - 1]) \/ anc[i - 1].kind = "If"
           /\ anc[i].kind = "Func" => Holds(anc[i - 1]) \/ anc[i - 1].kind \in {"Package", "Label"}
  BY DEF Shape, MayHold

LEMMA SomeNodes ==
    /\ \A kind \in TextNodes \cup {"Raw", "Statements", "Package", "Func", "Label", "Block"} : kind \in NodeKinds
    /\ TextOpen \subseteq TextNodes
    /\ \A kind \in {"For", "ForRange", "Switch", "Select"} :
         kind \in TextNodes /\ kind \in TextOpen /\ kind \in Counting /\ kind \in CodeNodes /\ kind \in CodeOpen
    /\ \A kind \in {"If", "Macro", "Using"} : kind \in TextNodes /\ kind \in Counting /\ kind \in BlockOwners
    /\ "If" \in CodeNodes
    /\ "URL" \in TextOpen /\ "URL" \in TextNodes /\ "URL" \notin Counting
    /\ "Block" \in TextNodes /\ "Block" \in TextOpen /\ "Block" \notin Counting /\ "Block" \in CodeNodes
    /\ "Block" \in CodeOpen
    /\ "DistFree" \in TextNodes /\ "DistFree" \notin Counting /\ "DistFree" \in BlockOwners
    /\ "Raw" \in Counting
  BY DEF NodeKinds, TextNodes, CodeNodes, CodeRoots, TextOpen, Counting, BlockOwners, CodeOpen

\* A node is added, that has no block of its own.
LEMMA TextAddsOne ==
    ASSUME NEW anc, NEW op, Texts(anc, op), Holds(anc[Len(anc)]),
           NEW kind \in {"For", "ForRange", "Switch", "Select", "URL", "Raw", "Statements"}
    PROVE  /\ kind \in {"For", "ForRange", "Switch", "Select"} => TextTree(anc \o <<Node(kind)>>, Append(op, kind))
           /\ kind = "URL" => TextTree(anc \o <<Node(kind)>>, op)
           /\ kind = "Raw" => RawTree(anc \o <<Node(kind)>>, Append(op, kind))
           /\ kind = "Statements" => TreeOf("code", anc \o <<Node(kind)>>, op)
  <1> DEFINE n == Len(anc)
             b == anc \o <<Node(kind)>>
  <1>1. Shape(anc) /\ n \in Nat /\ n >= 1 /\ kind \in NodeKinds
    BY ShapeIsSeq, SomeNodes DEF Texts
  <1>2. Node(kind) \in Nodes /\ Node(kind).kind = kind
    BY <1>1, NodesAreNodes
  <1>3. /\ Edit(anc, b, n) /\ Len(b) = n + 1 /\ b[n + 1].kind = kind
        /\ b[n] = anc[n]
    BY <1>1, <1>2, OneMore
  <1>4. Holds(anc[n])
    OBVIOUS
  <1> HIDE DEF b, n
  <1>5. Placed(b, n)
    BY <1>1, <1>3, <1>4 DEF Placed, MayHold
  <1>6. Shape(b)
    BY <1>1, <1>3, <1>5, EditKeepsShape
  <1>7. InText(b, n) /\ (PlacedInText(b, n) => InText(b, Len(b)))
    BY <1>1, <1>3, EditKeepsText DEF Texts, n
  <1>8. Match(b, n, op)
    BY <1>1, <1>3, EditMatches DEF Texts, n
  <1>9. ~InChain(b, n + 1)
    <2>1. b[n].kind # "If"
      BY <1>3, <1>4, HoldersOfText
    <2> QED
      BY <1>1, <2>1 DEF InChain
  <1>10. (kind \in Counting => Match(b, n + 1, Append(op, kind))) /\ (kind \notin Counting => Match(b, n + 1, op))
    BY <1>1, <1>3, <1>8, <1>9, MatchNext
  <1>11. CASE kind \in {"For", "ForRange", "Switch", "Select", "URL"}
    <2>1. PlacedInText(b, n)
      BY <1>1, <1>3, <1>11, SomeNodes DEF PlacedInText
    <2> QED
      BY <1>3, <1>6, <1>7, <1>10, <1>11, <2>1, SomeNodes DEF TextTree, b
  <1>12. CASE kind = "Raw"
    <2>1. Len(b) - 1 = n /\ Len(b) > 1
      BY <1>1, <1>3
    <2> QED
      BY <1>3, <1>6, <1>7, <1>10, <1>12, <2>1, SomeNodes DEF RawTree, b
  <1>13. CASE kind = "Statements"
    <2>1. InCode(b, n + 1)
      BY <1>1, <1>3, <1>13 DEF InCode, CodeRoots
    <2>2. (n + 1) - 1 = n /\ n + 1 \in 2..Len(b) + 1
      BY <1>1, <1>3
    <2>3. CodeTree(b, op, n + 1)
      BY <1>3, <1>6, <1>7, <1>8, <1>13, <2>1, <2>2 DEF CodeTree, CodeOpen
    <2> QED
      BY <1>13, <2>2, <2>3 DEF TreeOf, b
  <1> QED
    BY <1>11, <1>12, <1>13

\* A node is added with its block.
LEMMA TextAddsTwo ==
    ASSUME NEW anc, NEW op, Texts(anc, op), NEW kind \in {"If", "Macro", "Using", "DistFree"},
           \/ Holds(anc[Len(anc)]) /\ (kind = "DistFree" => Len(anc) = 1)
           \/ anc[Len(anc)].kind = "If" /\ kind = "If"
    PROVE  TextTree(anc \o <<Node(kind), Node("Block")>>,
                    IF kind = "DistFree" \/ anc[Len(anc)].kind = "If" THEN op ELSE Append(op, kind))
  <1> DEFINE n == Len(anc)
             b == anc \o <<Node(kind), Node("Block")>>
  <1>1. Shape(anc) /\ n \in Nat /\ n >= 1 /\ kind \in NodeKinds /\ "Block" \in NodeKinds
    BY ShapeIsSeq, SomeNodes DEF Texts
  <1>2. /\ Node(kind) \in Nodes /\ Node(kind).kind = kind
        /\ Node("Block") \in Nodes /\ Node("Block").kind = "Block"
    BY <1>1, NodesAreNodes
  <1>3. /\ Edit(anc, b, n) /\ Len(b) = n + 2 /\ b[n + 1].kind = kind /\ b[n + 2].kind = "Block"
        /\ b[n] = anc[n]
    BY <1>1, <1>2, TwoMore
  <1>4. \/ Holds(anc[n]) /\ (kind = "DistFree" => n = 1) /\ anc[n].kind # "If"
        \/ anc[n].kind = "If" /\ kind = "If"
    BY HoldersOfText
  <1> HIDE DEF b, n
  <1>5. \A i \in n + 1..Len(b) : i = n + 1 \/ i = n + 2
    BY <1>1, <1>3
  <1>6. MayHold(b[n], b[n + 1].kind) /\ MayHold(b[n + 1], b[n + 2].kind)
    BY <1>3, <1>4 DEF MayHold
  <1>7. (n + 1) - 1 = n /\ (n + 2) - 1 = n + 1
    BY <1>1
  <1>8. Placed(b, n)
    BY <1>3, <1>5, <1>6, <1>7 DEF Placed
  <1>9. PlacedInText(b, n)
    BY <1>1, <1>3, <1>4, <1>5, <1>7, SomeNodes DEF PlacedInText
  <1>10. Shape(b) /\ InText(b, Len(b)) /\ Match(b, n, op)
    BY <1>1, <1>3, <1>8, <1>9, EditKeepsShape, EditKeepsText, EditMatches DEF Texts, n
  <1>11. InChain(b, n + 1) <=> anc[n].kind = "If" /\ kind = "If"
    BY <1>1, <1>3, <1>7 DEF InChain
  <1>12. Match(b, n + 1, IF kind = "DistFree" \/ anc[n].kind = "If" THEN op ELSE Append(op, kind))
    BY <1>1, <1>3, <1>4, <1>10, <1>11, MatchNext, SomeNodes
  <1>13. Match(b, n + 2, IF kind = "DistFree" \/ anc[n].kind = "If" THEN op ELSE Append(op, kind))
    <2>1. n + 1 \in Nat /\ (n + 1) + 1 = n + 2 /\ b[(n + 1) + 1].kind \notin Counting
      BY <1>1, <1>3, SomeNodes
    <2> QED
      BY <1>12, <2>1, MatchNext
  <1> QED
    BY <1>3, <1>10, <1>13, SomeNodes DEF TextTree, b, n

\* A block is added to an if or for range statement, for its else.
LEMMA TextAddsBlock ==
    ASSUME NEW anc, NEW op, Texts(anc, op), anc[Len(anc)].kind \in {"If", "ForRange"}
    PROVE  TextTree(anc \o <<Node("Block")>>, op)
  <1> DEFINE n == Len(anc)
             b == anc \o <<Node("Block")>>
  <1>1. Shape(anc) /\ n \in Nat /\ n >= 1 /\ "Block" \in NodeKinds
    BY ShapeIsSeq, SomeNodes DEF Texts
  <1>2. Node("Block") \in Nodes /\ Node("Block").kind = "Block"
    BY <1>1, NodesAreNodes
  <1>3. Edit(anc, b, n) /\ Len(b) = n + 1 /\ b[n + 1].kind = "Block" /\ b[n] = anc[n] /\ anc[n].kind \in {"If", "ForRange"}
    BY <1>1, <1>2, OneMore
  <1> HIDE DEF b, n
  <1>4. Placed(b, n) /\ PlacedInText(b, n)
    BY <1>1, <1>3, SomeNodes DEF Placed, PlacedInText, MayHold, Holds, Holders, BlockOwners
  <1>5. Shape(b) /\ InText(b, Len(b)) /\ Match(b, n, op)
    BY <1>1, <1>3, <1>4, EditKeepsShape, EditKeepsText, EditMatches DEF Texts, n
  <1>6. Match(b, n + 1, op)
    BY <1>1, <1>3, <1>5, MatchNext, SomeNodes
  <1> QED
    BY <1>3, <1>5, <1>6, SomeNodes DEF TextTree, b

\* The last node has its else, or its cases.
LEMMA TextOtherLast ==
    ASSUME NEW anc, NEW op, Texts(anc, op), NEW x \in Nodes, x.kind = anc[Len(anc)].kind
    PROVE  /\ Texts(SetLast(anc, x), op) /\ Len(SetLast(anc, x)) = Len(anc)
           /\ SetLast(anc, x)[Len(anc)].kind = x.kind
           /\ x.kind \in TextOpen => TextTree(SetLast(anc, x), op)
  <1> DEFINE n == Len(anc)
             b == SetLast(anc, x)
  <1>1. Shape(anc) /\ n \in Nat /\ n >= 1
    BY ShapeIsSeq DEF Texts
  <1>2. Edit(anc, b, n) /\ Len(b) = n /\ b[n] = x
    BY <1>1, OtherLast
  <1> HIDE DEF b, n
  <1>3. Placed(b, n)
    BY <1>1, <1>2 DEF Placed
  <1>4. Shape(b) /\ InText(b, n) /\ Match(b, n, op)
    BY <1>1, <1>2, <1>3, EditKeepsShape, EditKeepsText, EditMatches DEF Texts, n
  <1> QED
    BY <1>2, <1>4 DEF Texts, TextTree, b, n

\* The first k nodes, and what is open in them.
LEMMA TextFirst ==
    ASSUME NEW anc, NEW n \in Nat, n <= Len(anc), Shape(anc), InText(anc, n), NEW op, NEW k \in 1..n, Match(anc, k, op)
    PROVE  /\ Texts(SubSeq(anc, 1, k), op) /\ Len(SubSeq(anc, 1, k)) = k /\ SubSeq(anc, 1, k)[k] = anc[k]
           /\ Holds(anc[k]) => TextTree(SubSeq(anc, 1, k), op)
  <1> DEFINE b == SubSeq(anc, 1, k)
  <1>1. k \in 1..Len(anc) /\ k \in Nat
    BY DEF Shape
  <1>2. Edit(anc, b, k) /\ Len(b) = k /\ b[k] = anc[k]
    BY <1>1, FirstNodes
  <1> HIDE DEF b
  <1>3. Placed(b, k) /\ PlacedInText(b, k)
    BY <1>1, <1>2 DEF Placed, PlacedInText
  <1>4. Shape(b) /\ InText(b, k) /\ Match(b, k, op)
    BY <1>1, <1>2, <1>3, EditKeepsShape, EditKeepsText, EditMatches
  <1>5. anc[k].kind \in TextNodes
    BY DEF InText
  <1> QED
    BY <1>2, <1>4, <1>5, HoldersOfText DEF Texts, TextTree, b

-----------------------------------------------------------------------------
(***************************************************************************)
(* What end closes.                                                        *)
(***************************************************************************)
Less == OpToRel(<, Nat)

LEMMA Greatest ==
    ASSUME NEW n \in Nat, NEW S, S \subseteq 1..n, S # {}
    PROVE  \E x \in S : \A y \in S : y <= x
  <1> DEFINE T == {m \in Nat : n - m \in S}
  <1>1. T \subseteq Nat /\ T # {}
    <2>1. PICK s \in S : TRUE
      OBVIOUS
    <2>2. n - s \in Nat /\ n - (n - s) = s
      BY <2>1
    <2> QED
      BY <2>1, <2>2
  <1>2. IsWellFoundedOn(Less, Nat)
    BY NatLessThanWellFounded DEF Less
  <1> HIDE DEF T
  <1>3. PICK x \in T : \A y \in T : ~(<<y, x>> \in Less)
    BY <1>1, <1>2, WFMin
  <1>4. \A y \in T : ~(y < x)
    <2>1. \A y \in Nat : <<y, x>> \in Less <=> y < x
      BY <1>1 DEF Less, OpToRel
    <2> QED
      BY <1>1, <1>3, <2>1
  <1>5. x \in Nat /\ n - x \in S
    BY DEF T
  <1>6. ASSUME NEW y \in S PROVE y <= n - x
    <2>1. n - y \in Nat /\ n - (n - y) = y
      OBVIOUS
    <2>2. n - y \in T
      BY <2>1 DEF T
    <2> QED
      BY <1>4, <1>5, <2>1, <2>2
  <1> QED
    BY <1>5, <1>6

\* The last of the nodes that is not an if statement.
LEMMA IfsAreClosed ==
    ASSUME NEW anc, Shape(anc)
    PROVE  \E o \in 1..Len(anc) : /\ CloseIfs(anc) = SubSeq(anc, 1, o) /\ anc[o].kind # "If"
                                  /\ \A i \in o + 1..Len(anc) : anc[i].kind = "If"
  <1> DEFINE n == Len(anc)
             S == {i \in 1..n : anc[i].kind # "If"}
             Outer(o) == /\ o = 0 \/ anc[o].kind # "If"
                         /\ \A i \in o + 1..n : anc[i].kind = "If"
  <1>1. n \in Nat /\ n >= 1 /\ anc[1].kind = "Tree"
    BY DEF Shape
  <1>2. S \subseteq 1..n /\ 1 \in S
    BY <1>1
  <1> HIDE DEF n
  <1>3. PICK o \in S : \A i \in S : i <= o
    <2> HIDE DEF S
    <2> QED
      BY <1>1, <1>2, Greatest
  <1>4. o \in 1..n /\ Outer(o)
    BY <1>1, <1>3
  <1>5. ASSUME NEW p \in 0..n, Outer(p)
        PROVE  p = o
    <2>1. ~(p < o)
      BY <1>1, <1>4, <1>5
    <2>2. ~(o < p)
      BY <1>1, <1>4, <1>5
    <2> QED
      BY <1>1, <1>4, <1>5, <2>1, <2>2
  <1>6. CloseIfs(anc) = SubSeq(anc, 1, CHOOSE p \in 0..n : Outer(p))
    BY DEF CloseIfs, n
  <1> HIDE DEF Outer
  <1>7. (CHOOSE p \in 0..n : Outer(p)) = o
    BY <1>1, <1>4, <1>5
  <1> QED
    BY <1>4, <1>6, <1>7 DEF Outer, n

LEMMA MatchOutOfChain ==
    ASSUME NEW anc, NEW m \in Nat, NEW o \in 1..m, \A i \in o + 1..m : InChain(anc, i), NEW op, Match(anc, m, op)
    PROVE  Match(anc, o, op)
  <1>1. Counted(anc, m) = Counted(anc, o)
    <2>1. \A i \in 1..m : i \in 1..o \/ i \in o + 1..m
      OBVIOUS
    <2>2. 1..o \subseteq 1..m
      OBVIOUS
    <2> QED
      BY <2>1, <2>2 DEF Counted
  <1> QED
    BY <1>1 DEF Match

\* The node after the first m is closed, and the chain of ifs it is the end of.
LEMMA TextCloses ==
    ASSUME NEW anc, NEW m \in Nat \ {0}, m + 1 <= Len(anc), Shape(anc), InText(anc, m),
           anc[m + 1].kind \in Counting, NEW op, Match(anc, m + 1, op)
    PROVE  op # <<>> /\ TextTree(CloseIfs(SubSeq(anc, 1, m)), Front(op))
  <1> DEFINE f == SubSeq(anc, 1, m)
  <1>1. Len(anc) \in Nat /\ m \in 1..Len(anc)
    BY DEF Shape
  <1>2. Edit(anc, f, m) /\ Len(f) = m /\ \A i \in 1..m : f[i] = anc[i]
    BY <1>1, FirstNodes
  <1> HIDE DEF f
  <1>3. Shape(f)
    BY <1>1, <1>2, EditKeepsShape DEF Placed
  <1>4. PICK o \in 1..m : /\ CloseIfs(f) = SubSeq(f, 1, o) /\ f[o].kind # "If"
                          /\ \A i \in o + 1..m : f[i].kind = "If"
    BY <1>2, <1>3, IfsAreClosed
  <1>5. anc[o].kind # "If" /\ \A i \in o + 1..m : anc[i].kind = "If"
    BY <1>2, <1>4
  <1>6. anc[m + 1].kind \notin {"Block", "Func", "Label", "Package"}
    BY DEF Counting
  <1>7. o # m => anc[m + 1].kind = "If"
    <2>1. ASSUME o # m
          PROVE  anc[m].kind = "If" /\ m + 1 \in 2..Len(anc) /\ (m + 1) - 1 = m
      BY <1>1, <1>5, <2>1
    <2>2. anc[m].kind = "If" => ~Holds(anc[m])
      BY HoldersOfText
    <2> QED
      BY <1>6, <2>1, <2>2, ParentHolds
  <1>8. \A i \in o + 2..m + 1 : InChain(anc, i)
    <2> TAKE i \in o + 2..m + 1
    <2>1. o # m /\ i > 1 /\ i - 1 \in o + 1..m /\ (i \in o + 1..m \/ i = m + 1)
      BY <1>4
    <2> QED
      BY <1>5, <1>7, <2>1 DEF InChain
  <1>9. Match(anc, o + 1, op)
    <2>1. o + 1 \in 1..m + 1 /\ (o + 1) + 1 = o + 2 /\ m + 1 \in Nat
      BY <1>4
    <2> QED
      BY <1>8, <2>1, MatchOutOfChain
  <1>10. anc[o + 1].kind \in Counting /\ anc[o + 1].kind \notin {"Block", "Func"} /\ o + 1 \in 2..Len(anc) /\ (o + 1) - 1 = o
    <2>1. CASE o = m
      BY <1>1, <1>6, <2>1
    <2>2. CASE o # m
      <3>1. o + 1 \in o + 1..m /\ o + 1 \in 2..Len(anc) /\ (o + 1) - 1 = o
        BY <1>1, <1>4, <2>2
      <3> QED
        BY <1>5, <3>1 DEF Counting
    <2> QED
      BY <2>1, <2>2
  <1>11. Holds(anc[o])
    BY <1>5, <1>10, ParentHolds
  <1>12. ~InChain(anc, o + 1)
    BY <1>5, <1>10 DEF InChain
  <1>13. op # <<>> /\ Match(anc, o, Front(op))
    BY <1>9, <1>10, <1>12, MatchBefore
  <1>14. TextTree(SubSeq(anc, 1, o), Front(op))
    BY <1>1, <1>11, <1>13, TextFirst
  <1>15. SubSeq(f, 1, o) = SubSeq(anc, 1, o)
    <2>1. \A i \in 1..o : f[i] = anc[i]
      BY <1>2, <1>4
    <2> QED
      BY <2>1 DEF f
  <1> QED
    BY <1>4, <1>13, <1>14, <1>15 DEF f

-----------------------------------------------------------------------------
(***************************************************************************)
(* The tokens that are read in the text.                                   *)
(***************************************************************************)

LEMMA NotFirst ==
    ASSUME NEW n \in Nat, n >= 1
    PROVE  n # 1 => n \in 2..n
  OBVIOUS

LEMMA NotMore ==
    ASSUME NEW n \in Nat
    PROVE  n <= n
  OBVIOUS

LEMMA LastIndex ==
    ASSUME NEW n \in Nat, n >= 1
    PROVE  n \in 1..n
  OBVIOUS

LEMMA BeforeLast ==
    ASSUME NEW n \in Nat, n > 1
    PROVE  n \in 2..n /\ n - 1 \in 1..n /\ n - 1 \in Nat /\ (n - 1) + 1 = n /\ (n - 1 = 2 => n = 3)
  OBVIOUS

LEMMA NodeChanges ==
    ASSUME NEW p \in Nodes
    PROVE  /\ [p EXCEPT !.else = TRUE] \in Nodes /\ [p EXCEPT !.else = TRUE].kind = p.kind
           /\ [p EXCEPT !.cases = TRUE] \in Nodes /\ [p EXCEPT !.cases = TRUE].kind = p.kind
  BY DEF Nodes

LEMMA WantsOrHolds ==
    ASSUME NEW p \in Nodes, p.kind \in TextOpen \cup {"Statements"}, ~wantCase(p)
    PROVE  Holds(p)
  BY DEF wantCase, Holds, Holders, Switches, TextOpen

LEMMA AddsToHolder ==
    ASSUME NEW anc, NEW kind, Holds(Last(anc)) \/ Last(anc).kind = "Package",
           kind = "Case" => Last(anc).kind \notin Switches
    PROVE  addNode(anc, kind) = anc \o Opened(kind)
  BY DEF addNode, Holds, Holders, Switches

LEMMA AddsCase ==
    ASSUME NEW anc, Last(anc).kind \in Switches
    PROVE  addNode(anc, "Case") = SetLast(anc, [Last(anc) EXCEPT !.cases = TRUE])
  BY DEF addNode, Switches

LEMMA AddsToLabel ==
    ASSUME NEW anc, NEW kind, Last(anc).kind = "Label"
    PROVE  addNode(anc, kind) = Front(anc) \o Opened(kind)
  BY DEF addNode

LEMMA AddsToIf ==
    ASSUME NEW anc, NEW kind, Last(anc).kind = "If"
    PROVE  addNode(anc, kind) = IF Last(anc).else THEN Panic
                                ELSE SetLast(anc, [Last(anc) EXCEPT !.else = TRUE]) \o Opened(kind)
  <1>1. CASE Last(anc).else
    BY <1>1 DEF addNode
  <1>2. CASE ~Last(anc).else
    BY <1>2 DEF addNode
  <1> QED
    BY <1>1, <1>2

LEMMA WhatIsOpened ==
    /\ \A kind \in {"If", "Macro", "DistFree", "Using"} : Opened(kind) = <<Node(kind), Node("Block")>>
    /\ \A kind \in {"Block", "For", "ForRange", "Switch", "Select", "Package", "Label", "Statements", "URL", "Raw"} :
         Opened(kind) = <<Node(kind)>>
    /\ \A kind \in {"Simple", "Comment", "Import", "Text", "Case"} : Opened(kind) = <<>>
  BY DEF Opened

LEMMA AddsNothing ==
    ASSUME NEW anc \in Seq(Nodes), NEW kind \in {"Simple", "Comment", "Import", "Text", "Case"}
    PROVE  anc \o Opened(kind) = anc
  <1>1. Opened(kind) = <<>>
    BY WhatIsOpened
  <1> QED
    BY <1>1, ConcatEmptySeq

LEMMA TextTreeIsTexts ==
    ASSUME NEW anc, NEW op, TextTree(anc, op)
    PROVE  /\ Texts(anc, op) /\ anc \in Seq(Nodes) /\ Last(anc) = anc[Len(anc)] /\ Last(anc) \in Nodes
           /\ Last(anc).kind \in TextOpen
           /\ ~wantCase(Last(anc)) => Holds(anc[Len(anc)]) /\ Holds(Last(anc))
           /\ Last(anc).kind = "Tree" => Len(anc) = 1
  <1>1. Shape(anc) /\ Texts(anc, op) /\ anc[Len(anc)].kind \in TextOpen
    BY DEF TextTree, Texts
  <1>2. /\ anc \in Seq(Nodes) /\ Last(anc) = anc[Len(anc)] /\ Last(anc) \in Nodes
    BY <1>1, ShapeIsSeq
  <1>4. Len(anc) \in Nat /\ Len(anc) >= 1
    BY <1>1, ShapeIsSeq
  <1>3. Last(anc).kind = "Tree" => Len(anc) = 1
    <2>1. Len(anc) # 1 => Len(anc) \in 2..Len(anc)
      BY <1>4, NotFirst
    <2> QED
      BY <1>1, <1>2, <2>1 DEF Shape
  <1> QED
    BY <1>1, <1>2, <1>3, WantsOrHolds

\* A node that is added to those of the text.
LEMMA TextAdds ==
    ASSUME NEW anc, NEW op, TextTree(anc, op), ~wantCase(Last(anc)),
           NEW kind \in {"If", "For", "ForRange", "Switch", "Select", "Macro", "Using"}
    PROVE  TextTree(addNode(anc, kind), Append(op, kind))
  <1>1. Texts(anc, op) /\ Holds(anc[Len(anc)]) /\ Holds(Last(anc)) /\ anc[Len(anc)].kind # "If"
    BY TextTreeIsTexts, HoldersOfText
  <1>2. addNode(anc, kind) = anc \o Opened(kind)
    BY <1>1, AddsToHolder
  <1>3. CASE kind \in {"If", "Macro", "Using"}
    <2>1. kind # "DistFree" /\ Opened(kind) = <<Node(kind), Node("Block")>>
      BY <1>3, WhatIsOpened
    <2>2. TextTree(anc \o <<Node(kind), Node("Block")>>,
                   IF kind = "DistFree" \/ anc[Len(anc)].kind = "If" THEN op ELSE Append(op, kind))
      BY <1>1, <1>3, TextAddsTwo
    <2> QED
      BY <1>1, <1>2, <2>1, <2>2
  <1>4. CASE kind \in {"For", "ForRange", "Switch", "Select"}
    <2>1. Opened(kind) = <<Node(kind)>>
      BY <1>4, WhatIsOpened
    <2>2. TextTree(anc \o <<Node(kind)>>, Append(op, kind))
      BY <1>1, <1>4, TextAddsOne
    <2> QED
      BY <1>2, <2>1, <2>2
  <1> QED
    BY <1>3, <1>4

LEMMA TextAddsLeaf ==
    ASSUME NEW anc, NEW op, TextTree(anc, op), ~wantCase(Last(anc)),
           NEW kind \in {"Simple", "Comment", "Import", "Text"}
    PROVE  addNode(anc, kind) = anc
  BY TextTreeIsTexts, AddsToHolder, AddsNothing

\* The Else block of an if statement starts, or the if statement of an else if.
LEMMA TextElse ==
    ASSUME NEW anc, NEW op, TextTree(anc, op), NEW k \in {"else", "else if"}, NEW ends, ends # "EOF"
    PROVE  \/ ElseOf(anc, k, ends) = SyntaxError
           \/ TextTree(ElseOf(anc, k, ends), op)
           \/ /\ Last(anc).kind = "Block" /\ Last(Front(anc)).kind = "If" /\ Last(Front(anc)).else
              /\ ElseOf(anc, k, ends) = Panic
  <1> DEFINE n == Len(anc)
             p == Last(anc)
             f == Front(anc)
  <1>1. Texts(anc, op) /\ p = anc[n] /\ p \in Nodes /\ p.kind \in TextOpen
    BY TextTreeIsTexts
  <1>2. Shape(anc) /\ InText(anc, n) /\ Match(anc, n, op)
    BY <1>1 DEF Texts
  <1>6. n \in Nat /\ n >= 1
    BY <1>2, ShapeIsSeq
  <1>7. p = anc[n]
    BY <1>1
  <1>3. CASE p.kind = "ForRange" /\ k = "else"
    <2> DEFINE b == SetLast(anc, [p EXCEPT !.else = TRUE])
    <2>1. ElseOf(anc, k, ends) = Append(b, Node("Block"))
      BY <1>3 DEF ElseOf
    <2>2. [p EXCEPT !.else = TRUE] \in Nodes /\ [p EXCEPT !.else = TRUE].kind = p.kind
      BY <1>1, NodeChanges
    <2>3. Texts(b, op) /\ b[Len(b)].kind = "ForRange"
      BY <1>1, <1>3, <2>2, TextOtherLast
    <2> HIDE DEF b, p
    <2>4. TextTree(b \o <<Node("Block")>>, op)
      BY <2>3, TextAddsBlock
    <2>5. Append(b, Node("Block")) = b \o <<Node("Block")>>
      BY <2>3, OneMore, NodesAreNodes, SomeNodes DEF Texts
    <2> QED
      BY <2>1, <2>4, <2>5
  <1>4. CASE p.kind = "Block" /\ Last(f).kind = "If"
    <2> DEFINE q == anc[n - 1]
               kind == IF k = "else" THEN "Block" ELSE "If"
    <2>1. ElseOf(anc, k, ends) = addNode(f, kind)
      BY <1>4 DEF ElseOf
    <2>2. n \in 2..n /\ n - 1 \in 1..n /\ (n - 1) + 1 = n /\ n - 1 \in Nat
      <3>1. anc[n].kind = "Block"
        BY <1>4, <1>7
      <3>2. n \in 1..n
        BY <1>6, LastIndex
      <3>3. n > 1
        BY <1>2, <3>1, <3>2 DEF InText
      <3> QED
        BY <1>6, <3>3, BeforeLast
    <2>3. Match(anc, n - 1, op)
      <3>1. anc[(n - 1) + 1].kind \notin Counting
        BY <1>1, <1>4, <2>2, SomeNodes
      <3> QED
        BY <1>2, <2>2, <3>1, MatchBefore
    <2>4. f = SubSeq(anc, 1, n - 1)
      BY <1>2, FrontIsFirst
    <2>5. Texts(f, op) /\ Len(f) = n - 1 /\ f[n - 1] = q
      <3> HIDE DEF f
      <3>1. /\ Texts(SubSeq(anc, 1, n - 1), op) /\ Len(SubSeq(anc, 1, n - 1)) = n - 1
            /\ SubSeq(anc, 1, n - 1)[n - 1] = anc[n - 1]
        <4> DEFINE j == n - 1
        <4>1. j \in 1..n /\ Match(anc, j, op)
          BY <2>2, <2>3
        <4>2. n \in Nat /\ n <= Len(anc)
          BY <1>6, NotMore
        <4> HIDE DEF j, n
        <4>3. /\ Texts(SubSeq(anc, 1, j), op) /\ Len(SubSeq(anc, 1, j)) = j
              /\ SubSeq(anc, 1, j)[j] = anc[j]
          BY <1>2, <4>1, <4>2, TextFirst
        <4> QED
          BY <4>3 DEF j
      <3> QED
        BY <2>4, <3>1
    <2>6. Last(f) = f[n - 1] /\ Last(f) \in Nodes
      BY <2>5, ShapeIsSeq DEF Texts
    <2> HIDE DEF f, q
    <2>7. addNode(f, kind) = IF Last(f).else THEN Panic
                             ELSE SetLast(f, [Last(f) EXCEPT !.else = TRUE]) \o Opened(kind)
      BY <1>4, AddsToIf
    <2>8. CASE Last(f).else
      BY <1>4, <2>1, <2>7, <2>8 DEF f
    <2>9. CASE ~Last(f).else
      <3> DEFINE x == [Last(f) EXCEPT !.else = TRUE]
                 b == SetLast(f, x)
      <3>1. x \in Nodes /\ x.kind = "If" /\ f[Len(f)].kind = "If"
        BY <1>4, <2>5, <2>6, NodeChanges
      <3> HIDE DEF x
      <3>2. Texts(b, op) /\ b[Len(b)].kind = "If"
        BY <2>5, <3>1, TextOtherLast
      <3>3. ElseOf(anc, k, ends) = b \o Opened(kind)
        BY <2>1, <2>7, <2>9 DEF x
      <3> HIDE DEF b
      <3>4. CASE k = "else"
        <4>1. Opened(kind) = <<Node("Block")>>
          BY <3>4, WhatIsOpened
        <4> QED
          BY <3>2, <3>3, <4>1, TextAddsBlock
      <3>5. CASE k = "else if"
        <4>1. Opened(kind) = <<Node("If"), Node("Block")>>
          BY <3>5, WhatIsOpened
        <4>2. TextTree(b \o <<Node("If"), Node("Block")>>,
                       IF "If" = "DistFree" \/ b[Len(b)].kind = "If" THEN op ELSE Append(op, "If"))
          BY <3>2, TextAddsTwo
        <4> QED
          BY <3>2, <3>3, <4>1, <4>2
      <3> QED
        BY <3>4, <3>5
    <2> QED
      BY <2>8, <2>9
  <1>5. CASE ~(p.kind = "ForRange" /\ k = "else") /\ ~(p.kind = "Block" /\ Last(f).kind = "If")
    BY <1>5 DEF ElseOf
  <1> QED
    BY <1>3, <1>4, <1>5

\* The end of a block.
LEMMA TextEnds ==
    ASSUME NEW anc, NEW op, TextTree(anc, op) \/ RawTree(anc, op), NEW k
    PROVE  \/ CloseEnd(anc, k) = SyntaxError
           \/ k # "end of another" /\ op # <<>> /\ TextTree(CloseEnd(anc, k), Front(op))
  <1> DEFINE n == Len(anc)
             p == Last(anc)
             inner == IF p.kind = "Block" THEN Front(anc) ELSE anc
             m == IF p.kind = "Block" THEN n - 2 ELSE n - 1
  <1> SUFFICES ASSUME CloseEnd(anc, k) # SyntaxError
               PROVE  k # "end of another" /\ op # <<>> /\ TextTree(CloseEnd(anc, k), Front(op))
    OBVIOUS
  <1>1. /\ p.kind \notin {"Tree", "URL"} /\ k # "end of another"
        /\ ~(p.kind = "Block" /\ n = 3 /\ anc[2].kind = "DistFree")
        /\ CloseEnd(anc, k) = CloseIfs(Front(inner))
    BY DEF CloseEnd
  <1>2. Shape(anc) /\ n \in Nat /\ n >= 1 /\ p = anc[n] /\ Match(anc, n, op)
    BY ShapeIsSeq DEF TextTree, RawTree
  <1>8. n \in Nat /\ n >= 1
    BY <1>2
  <1>3. InText(anc, n - 1) /\ (p.kind = "Block" => n > 1 /\ anc[n - 1].kind \in BlockOwners)
        /\ (p.kind # "Block" => p.kind \in Counting)
    <2>1. CASE RawTree(anc, op)
      BY <1>2, <2>1, SomeNodes DEF RawTree
    <2>2. CASE TextTree(anc, op)
      <3>1. InText(anc, n) /\ p.kind \in TextOpen
        BY <1>2, <2>2 DEF TextTree
      <3>2. InText(anc, n - 1)
        BY <1>2, <3>1 DEF InText
      <3>3. p.kind = "Block" => n > 1 /\ anc[n - 1].kind \in BlockOwners
        BY <1>2, <3>1 DEF InText
      <3>4. p.kind # "Block" => p.kind \in Counting
        BY <1>1, <3>1 DEF TextOpen, Counting
      <3> QED
        BY <3>2, <3>3, <3>4
    <2> QED
      BY <2>1, <2>2
  <1>4. anc[1].kind = "Tree"
    BY <1>2 DEF Shape
  <1>5. Front(anc) = SubSeq(anc, 1, n - 1)
    BY <1>2, FrontIsFirst
  <1>6. /\ m \in Nat \ {0} /\ m + 1 <= n /\ InText(anc, m) /\ anc[m + 1].kind \in Counting
        /\ Match(anc, m + 1, op) /\ Front(inner) = SubSeq(anc, 1, m)
    <2>1. CASE p.kind # "Block"
      <3>1. n # 1
        BY <1>1, <1>2, <1>4
      <3> QED
        BY <1>2, <1>3, <1>5, <2>1, <3>1
    <2>2. CASE p.kind = "Block"
      <3>1. n > 1 /\ anc[n - 1].kind \in BlockOwners /\ n - 1 \in 1..n - 1
        BY <1>2, <1>3, <2>2
      <3>2. n # 2
        <4>1. n = 2 => anc[1].kind \in BlockOwners
          BY <3>1
        <4> QED
          BY <1>4, <4>1 DEF BlockOwners
      <3>3. anc[n - 1].kind \in Counting
        <4>1. anc[n - 1].kind # "DistFree"
          <5>1. anc[n - 1].kind = "DistFree" => n - 1 = 2
            BY <1>3, <3>1 DEF InText
          <5>3. n - 1 = 2 => n = 3
            BY <1>8, <3>1, BeforeLast
          <5>2. n - 1 = 2 => n = 3 /\ anc[n - 1] = anc[2]
            BY <5>3
          <5> QED
            BY <1>1, <2>2, <5>1, <5>2
        <4> QED
          BY <3>1, <4>1 DEF BlockOwners, Counting
      <3>4. Match(anc, n - 1, op)
        <4>1. n - 1 \in Nat /\ (n - 1) + 1 = n /\ anc[(n - 1) + 1].kind \notin Counting
          BY <1>2, <2>2, <3>1, SomeNodes
        <4> QED
          BY <1>2, <4>1, MatchBefore
      <3>5. InText(anc, n - 2)
        BY <1>2, <1>3 DEF InText
      <3>6. m = n - 2 /\ inner = SubSeq(anc, 1, n - 1)
        BY <1>5, <2>2
      <3>7. Shape(inner) /\ Len(inner) = n - 1 /\ \A i \in 1..n - 1 : inner[i] = anc[i]
        <4>1. n - 1 \in 1..Len(anc)
          BY <1>2, <3>1
        <4>2. /\ Edit(anc, SubSeq(anc, 1, n - 1), n - 1) /\ Len(SubSeq(anc, 1, n - 1)) = n - 1
              /\ \A i \in 1..n - 1 : SubSeq(anc, 1, n - 1)[i] = anc[i]
          BY <1>2, <4>1, FirstNodes
        <4>3. Placed(SubSeq(anc, 1, n - 1), n - 1)
          BY <1>2, <4>1, <4>2 DEF Placed
        <4> QED
          BY <1>2, <3>6, <4>2, <4>3, EditKeepsShape
      <3>8. Front(inner) = SubSeq(inner, 1, n - 2)
        <4>1. (n - 1) - 1 = n - 2
          BY <1>2
        <4> HIDE DEF inner
        <4> QED
          BY <3>7, <4>1, FrontIsFirst
      <3>9. SubSeq(inner, 1, n - 2) = SubSeq(anc, 1, n - 2)
        <4>1. \A i \in 1..n - 2 : inner[i] = anc[i]
          BY <1>2, <3>7
        <4> HIDE DEF inner
        <4> QED
          BY <1>2, <4>1
      <3> QED
        <4>1. m \in Nat \ {0} /\ m + 1 = n - 1 /\ m + 1 <= n
          BY <1>2, <3>1, <3>2, <3>6
        <4> QED
          BY <3>3, <3>4, <3>5, <3>6, <3>8, <3>9, <4>1
    <2> QED
      BY <2>1, <2>2
  <1> HIDE DEF m, inner
  <1>7. op # <<>> /\ TextTree(CloseIfs(SubSeq(anc, 1, m)), Front(op))
    BY <1>2, <1>6, TextCloses
  <1> QED
    BY <1>1, <1>6, <1>7

\* What a token is read with.
LEMMA ParsedIs ==
    ASSUME NEW tok, NEW anc
    PROVE  /\ tok.typ = "text" => Parsed(tok, anc) = parseText(tok, anc)
           /\ tok.typ = "show" => Parsed(tok, anc) = parseNode("show", "Simple", anc)
           /\ tok.typ = "comment" => Parsed(tok, anc) = parseNode("comment", "Comment", anc)
           /\ tok.typ = "start URL" => Parsed(tok, anc) = parseNode("start URL", "URL", anc)
           /\ tok.typ = "end URL" => Parsed(tok, anc) = parseEndURL(anc)
           /\ tok.typ = "{%%" => Parsed(tok, anc) = parseNode("{%%", "Statements", anc)
           /\ tok.typ = "statement" => Parsed(tok, anc) = parseStatement(tok, anc)
           /\ tok.typ = "code" => Parsed(tok, anc) = parseCode(tok, anc)
           /\ tok.typ = "%%}" => Parsed(tok, anc) = EndStatements(anc)
           /\ tok.typ = "EOF" => Parsed(tok, anc) = parseEOF(anc)
  BY DEF Parsed

LEMMA LexicallyIs ==
    ASSUME NEW tok
    PROVE  /\ tok.typ # "statement" => Lexically(tok) = open
           /\ tok.typ = "statement" /\ tok.kind \in Openers => Lexically(tok) = Append(open, NodeOf(tok.kind))
           /\ tok.typ = "statement" /\ tok.kind = "end" /\ open # <<>> => Lexically(tok) = Front(open)
           /\ tok.typ = "statement" /\ tok.kind \notin Openers \cup {"end"} => Lexically(tok) = open
  BY DEF Lexically, Openers

LEMMA StatementNodes ==
    /\ NodeOf("if") = "If" /\ NodeOf("for") = "For" /\ NodeOf("range") = "ForRange" /\ NodeOf("switch") = "Switch"
    /\ NodeOf("select") = "Select" /\ NodeOf("macro") = "Macro" /\ NodeOf("using") = "Using"
    /\ NodeOf("raw") = "Raw" /\ NodeOf("labelled for") = "For" /\ NodeOf("labelled switch") = "Switch"
    /\ NodeOf("case") = "Case" /\ NodeOf("default") = "Case" /\ NodeOf("extends") = "Import"
    /\ NodeOf("import") = "Import" /\ NodeOf("simple") = "Simple" /\ NodeOf("declaration") = "Simple"
    /\ NodeOf("Name") = "Simple"
  BY DEF NodeOf

LEMMA TextOrRaw ==
    ASSUME NEW m \in Modes, NEW anc, NEW op, TreeOf(m, anc, op), m # "code"
    PROVE  \/ m = "text" /\ TextTree(anc, op)
           \/ m = "raw" /\ RawTree(anc, op)
  <1>1. m = "text" \/ m = "raw"
    BY DEF Modes
  <1> QED
    BY <1>1 DEF TreeOf

\* A text is added to the node or, before the first case of a switch, dropped.
LEMMA TextIsParsed ==
    ASSUME NEW tok, tok.typ = "text", NEW m \in Modes, NEW anc, NEW op, TreeOf(m, anc, op), m # "code"
    PROVE  parseText(tok, anc) \in {SyntaxError, anc}
  <1>1. CASE Len(anc) = 1 /\ (imported \/ hasExtend) /\ ~tok.blank
    BY <1>1 DEF parseText
  <1>2. CASE ~(Len(anc) = 1 /\ (imported \/ hasExtend) /\ ~tok.blank) /\ wantCase(Last(anc))
    BY <1>2 DEF parseText
  <1>3. CASE ~(Len(anc) = 1 /\ (imported \/ hasExtend) /\ ~tok.blank) /\ ~wantCase(Last(anc))
    <2>1. parseText(tok, anc) = addNode(anc, "Text")
      BY <1>3 DEF parseText
    <2>2. CASE TextTree(anc, op)
      <3>1. addNode(anc, "Text") = anc
        BY <1>3, <2>2, TextAddsLeaf
      <3> QED
        BY <2>1, <3>1
    <2>3. CASE RawTree(anc, op)
      <3>1. Last(anc).kind = "Raw"
        BY <2>3, ShapeIsSeq DEF RawTree
      <3>2. addNode(anc, "Text") = anc
        BY <3>1 DEF addNode
      <3> QED
        BY <2>1, <3>2
    <2> QED
      BY <2>2, <2>3, TextOrRaw
  <1> QED
    BY <1>1, <1>2, <1>3

\* A show, a comment, the start of a URL or of statements.
LEMMA NodeIsParsed ==
    ASSUME NEW anc, NEW op, TextTree(anc, op), NEW typ
    PROVE  /\ \A kind \in {"Simple", "Comment"} : parseNode(typ, kind, anc) \in {SyntaxError, anc}
           /\ \/ parseNode(typ, "URL", anc) = SyntaxError
              \/ TextTree(parseNode(typ, "URL", anc), op)
           /\ \/ parseNode(typ, "Statements", anc) = SyntaxError
              \/ TreeOf("code", parseNode(typ, "Statements", anc), op)
  <1>1. ASSUME NEW kind, parseNode(typ, kind, anc) # SyntaxError
        PROVE  parseNode(typ, kind, anc) = addNode(anc, kind) /\ ~wantCase(Last(anc))
    BY <1>1 DEF parseNode
  <1>2. ASSUME NEW kind \in {"Simple", "Comment"}, parseNode(typ, kind, anc) # SyntaxError
        PROVE  parseNode(typ, kind, anc) = anc
    BY <1>1, <1>2, TextAddsLeaf
  <1>3. ASSUME NEW kind \in {"URL", "Statements"}, parseNode(typ, kind, anc) # SyntaxError
        PROVE  Texts(anc, op) /\ Holds(anc[Len(anc)]) /\ parseNode(typ, kind, anc) = anc \o <<Node(kind)>>
    <2>1. parseNode(typ, kind, anc) = addNode(anc, kind) /\ ~wantCase(Last(anc))
      BY <1>1, <1>3
    <2>2. Texts(anc, op) /\ Holds(anc[Len(anc)]) /\ Holds(Last(anc))
      BY <2>1, TextTreeIsTexts
    <2>3. addNode(anc, kind) = anc \o Opened(kind)
      BY <2>2, <1>3, AddsToHolder
    <2>4. Opened(kind) = <<Node(kind)>>
      BY <1>3, WhatIsOpened
    <2> QED
      BY <2>1, <2>2, <2>3, <2>4
  <1>6. ASSUME NEW kind \in {"URL", "Statements"}, parseNode(typ, kind, anc) # SyntaxError
        PROVE  /\ kind = "URL" => TextTree(parseNode(typ, kind, anc), op)
               /\ kind = "Statements" => TreeOf("code", parseNode(typ, kind, anc), op)
    <2>1. Texts(anc, op) /\ Holds(anc[Len(anc)]) /\ parseNode(typ, kind, anc) = anc \o <<Node(kind)>>
      BY <1>3, <1>6
    <2>2. /\ kind = "URL" => TextTree(anc \o <<Node(kind)>>, op)
          /\ kind = "Statements" => TreeOf("code", anc \o <<Node(kind)>>, op)
      BY <1>6, <2>1, TextAddsOne
    <2> QED
      BY <2>1, <2>2
  <1> QED
    <2>1. \/ parseNode(typ, "URL", anc) = SyntaxError
          \/ TextTree(parseNode(typ, "URL", anc), op)
      BY <1>6
    <2>2. \/ parseNode(typ, "Statements", anc) = SyntaxError
          \/ TreeOf("code", parseNode(typ, "Statements", anc), op)
      BY <1>6
    <2> QED
      BY <1>2, <2>1, <2>2

\* The end of a URL, in it.
LEMMA EndURLIsParsed ==
    ASSUME NEW m \in Modes, NEW anc, NEW op, TreeOf(m, anc, op), Last(anc).kind = "URL"
    PROVE  m = "text" /\ TextTree(parseEndURL(anc), op)
  <1>1. Shape(anc)
    BY DEF TreeOf, TextTree, RawTree, CodeTree
  <1>2. Last(anc) = anc[Len(anc)] /\ Len(anc) \in Nat /\ Len(anc) >= 1
    BY <1>1, ShapeIsSeq
  <1>3. ~(m = "raw" /\ RawTree(anc, op))
    BY <1>2 DEF RawTree
  <1>4. ~(\E s \in 2..Len(anc) + 1 : CodeTree(anc, op, s))
    <2> SUFFICES ASSUME NEW s \in 2..Len(anc) + 1, CodeTree(anc, op, s)
                 PROVE  FALSE
      OBVIOUS
    <2>1. CASE s <= Len(anc)
      BY <1>2, <2>1 DEF CodeTree, CodeOpen
    <2>2. CASE s = Len(anc) + 1
      <3>1. Len(anc) = 1
        BY <2>2 DEF CodeTree, InCode
      <3> QED
        BY <1>1, <1>2, <3>1 DEF Shape
    <2> QED
      BY <1>2, <2>1, <2>2
  <1>5. m = "text" /\ TextTree(anc, op)
    BY <1>3, <1>4 DEF TreeOf
  <1>6. InText(anc, Len(anc)) /\ Match(anc, Len(anc), op)
    BY <1>5 DEF TextTree
  <1> DEFINE k == Len(anc) - 1
  <1>7. Len(anc) > 1
    BY <1>1, <1>2 DEF Shape
  <1>8. k \in 1..Len(anc) /\ k \in Nat /\ k + 1 = Len(anc) /\ Len(anc) \in 2..Len(anc) /\ Len(anc) <= Len(anc)
    BY <1>2, <1>7
  <1>9. Holds(anc[k])
    BY <1>1, <1>2, <1>8, ParentHolds
  <1>10. Match(anc, k, op)
    <2>1. anc[k + 1].kind \notin Counting
      BY <1>2, <1>8 DEF Counting
    <2> HIDE DEF k
    <2>2. Match(anc, k + 1, op)
      BY <1>6, <1>8
    <2> QED
      BY <1>8, <2>1, <2>2, MatchBefore
  <1>11. parseEndURL(anc) = SubSeq(anc, 1, k)
    <2>1. ~wantCase(Last(anc))
      BY DEF wantCase
    <2>2. Front(anc) = SubSeq(anc, 1, k)
      BY <1>1, FrontIsFirst
    <2> QED
      BY <2>1, <2>2 DEF parseEndURL
  <1> HIDE DEF k
  <1>12. TextTree(SubSeq(anc, 1, k), op)
    BY <1>1, <1>2, <1>6, <1>8, <1>9, <1>10, TextFirst
  <1> QED
    BY <1>5, <1>11, <1>12

\* A statement that is not an else or an end, by what it adds.
LEMMA NamesDistFree ==
    ASSUME NEW anc, NEW op, TextTree(anc, op), ~wantCase(Last(anc)), Last(anc).kind = "Tree"
    PROVE  TextTree(addNode(anc, "DistFree"), op)
  <1>1. Texts(anc, op) /\ Holds(anc[Len(anc)]) /\ Holds(Last(anc)) /\ Len(anc) = 1
    BY TextTreeIsTexts
  <1> DEFINE kind == "DistFree"
  <1>2. kind = "DistFree" /\ kind \in {"If", "Macro", "Using", "DistFree"}
    OBVIOUS
  <1>3. addNode(anc, "DistFree") = addNode(anc, kind)
    OBVIOUS
  <1> HIDE DEF kind
  <1>4. addNode(anc, kind) = anc \o Opened(kind)
    BY <1>1, <1>2, AddsToHolder
  <1>5. Opened(kind) = <<Node(kind), Node("Block")>>
    BY <1>2, WhatIsOpened
  <1>6. TextTree(anc \o <<Node(kind), Node("Block")>>,
                 IF kind = "DistFree" \/ anc[Len(anc)].kind = "If" THEN op ELSE Append(op, kind))
    BY <1>1, <1>2, TextAddsTwo
  <1> QED
    BY <1>2, <1>3, <1>4, <1>5, <1>6

LEMMA AddsLabelled ==
    ASSUME NEW anc, NEW op, TextTree(anc, op), ~wantCase(Last(anc)), NEW kind \in {"For", "Switch"}
    PROVE  TextTree(addNode(addNode(anc, "Label"), kind), Append(op, kind))
  <1>1. Texts(anc, op) /\ Holds(anc[Len(anc)]) /\ Holds(Last(anc)) /\ Shape(anc) /\ anc \in Seq(Nodes)
    BY TextTreeIsTexts DEF Texts
  <1> DEFINE label == "Label"
             x == Node(label)
             b == anc \o <<x>>
  <1>2. addNode(anc, label) = anc \o Opened(label)
    <2>1. label # "Case"
      OBVIOUS
    <2> HIDE DEF label
    <2> QED
      BY <1>1, <2>1, AddsToHolder
  <1>3. Opened(label) = <<x>> /\ x \in Nodes /\ x.kind = label
    BY WhatIsOpened, NodesAreNodes, SomeNodes
  <1> HIDE DEF x
  <1>4. Len(b) = Len(anc) + 1 /\ b \in Seq(Nodes) /\ Last(b) = x /\ Front(b) = anc
    BY <1>1, <1>3 DEF Last, Front
  <1> HIDE DEF b
  <1>5. addNode(b, kind) = Front(b) \o Opened(kind)
    BY <1>3, <1>4, AddsToLabel
  <1>6. Opened(kind) = <<Node(kind)>>
    BY WhatIsOpened
  <1>7. TextTree(anc \o <<Node(kind)>>, Append(op, kind))
    BY <1>1, TextAddsOne
  <1> QED
    BY <1>2, <1>3, <1>4, <1>5, <1>6, <1>7 DEF b

LEMMA AddsRaw ==
    ASSUME NEW anc, NEW op, TextTree(anc, op), ~wantCase(Last(anc))
    PROVE  RawTree(addNode(anc, "Raw"), Append(op, "Raw"))
  <1>1. Texts(anc, op) /\ Holds(anc[Len(anc)]) /\ Holds(Last(anc))
    BY TextTreeIsTexts
  <1> DEFINE kind == "Raw"
  <1>2. kind = "Raw" /\ kind # "Case"
    OBVIOUS
  <1> SUFFICES RawTree(addNode(anc, kind), Append(op, kind))
    OBVIOUS
  <1> HIDE DEF kind
  <1>4. addNode(anc, kind) = anc \o Opened(kind)
    BY <1>1, <1>2, AddsToHolder
  <1>5. Opened(kind) = <<Node(kind)>>
    BY <1>2, WhatIsOpened
  <1>6. RawTree(anc \o <<Node(kind)>>, Append(op, kind))
    BY <1>1, <1>2, TextAddsOne
  <1> QED
    BY <1>4, <1>5, <1>6

LEMMA TextAddsCase ==
    ASSUME NEW anc, NEW op, TextTree(anc, op), Last(anc).kind \in Switches
    PROVE  TextTree(addNode(anc, "Case"), op)
  <1>1. Texts(anc, op) /\ Last(anc) = anc[Len(anc)] /\ Last(anc) \in Nodes /\ Last(anc).kind \in TextOpen
    BY TextTreeIsTexts
  <1> DEFINE x == [Last(anc) EXCEPT !.cases = TRUE]
  <1>2. x \in Nodes /\ x.kind = Last(anc).kind
    BY <1>1, NodeChanges
  <1>3. addNode(anc, "Case") = SetLast(anc, x)
    BY AddsCase
  <1> HIDE DEF x
  <1> QED
    BY <1>1, <1>2, <1>3, TextOtherLast

\* A statement in the text is not accepted, is a second else, or changes the tree as the text tells.
LEMMA StatementIsParsed ==
    ASSUME NEW tok, tok.typ = "statement", NEW m \in Modes, NEW n \in Modes, Passes(m, tok, n),
           NEW anc, TreeOf(m, anc, open)
    PROVE  \/ parseStatement(tok, anc) = SyntaxError
           \/ parseStatement(tok, anc) = Panic /\ tok.kind \in {"else", "else if"} /\ Last(anc).kind = "Block"
              /\ Last(Front(anc)).kind = "If" /\ Last(Front(anc)).else
           \/ TreeOf(n, parseStatement(tok, anc), Lexically(tok))
  <1> DEFINE k == tok.kind
             res == parseStatement(tok, anc)
  <1>1. CASE Misplaced(tok, anc)
    BY <1>1 DEF parseStatement
  <1>2. CASE ~Misplaced(tok, anc) /\ k \in Ending
    <2>1. n = "text" /\ (TextTree(anc, open) \/ RawTree(anc, open))
      <3>1. m # "code" /\ n = "text"
        BY <1>2 DEF Passes, TextKinds, Ending
      <3> QED
        BY <3>1, TextOrRaw
    <2>2. res = CloseEnd(anc, k)
      BY <1>2 DEF parseStatement, Ending, Labelled
    <2>3. \/ CloseEnd(anc, k) = SyntaxError
          \/ k # "end of another" /\ open # <<>> /\ TextTree(CloseEnd(anc, k), Front(open))
      BY <2>1, TextEnds
    <2>4. k = "end" /\ open # <<>> => Lexically(tok) = Front(open)
      BY LexicallyIs
    <2>5. k # "end of another" => k = "end"
      BY <1>2 DEF Ending
    <2> HIDE DEF k, res
    <2> QED
      BY <2>1, <2>2, <2>3, <2>4, <2>5 DEF TreeOf, k, res
  <1>3. CASE ~Misplaced(tok, anc) /\ k \notin Ending
    <2>1. /\ TextTree(anc, open)
          /\ \/ k = "raw" /\ n = "raw"
             \/ k \in TextKinds /\ n = "text"
      <3>1. \/ k = "raw" /\ m = "text" /\ n = "raw"
            \/ k \in TextKinds /\ m = "text" /\ n = "text"
        BY <1>3 DEF Passes
      <3> QED
        BY <3>1, TextOrRaw
    <2>2. CASE k \in {"else", "else if"}
      <3>1. n = "text" /\ res = ElseOf(anc, k, "%}")
        BY <1>3, <2>1, <2>2 DEF parseStatement, Labelled
      <3>2. Lexically(tok) = open
        BY <2>2, LexicallyIs DEF Openers
      <3> DEFINE ends == "%}"
      <3>3. ends # "EOF" /\ res = ElseOf(anc, k, ends)
        BY <3>1
      <3> HIDE DEF ends, res, k
      <3>4. \/ ElseOf(anc, k, ends) = SyntaxError
            \/ TextTree(ElseOf(anc, k, ends), open)
            \/ /\ Last(anc).kind = "Block" /\ Last(Front(anc)).kind = "If" /\ Last(Front(anc)).else
               /\ ElseOf(anc, k, ends) = Panic
        BY <2>1, <2>2, <3>3, TextElse
      <3> QED
        BY <2>2, <3>1, <3>2, <3>3, <3>4 DEF TreeOf, k, res
    <2>3. CASE k \notin {"else", "else if"}
      <3>1. wantCase(Last(anc)) => k \in {"case", "default"}
        BY <1>3 DEF Misplaced, Ending
      <3>2. CASE k \in {"case", "default"}
        <4>1. Last(anc).kind \in Switches /\ n = "text" /\ res = addNode(anc, "Case")
          <5>1. Last(anc).kind \in Switches
            BY <1>3, <3>2 DEF Misplaced, Switches
          <5>2. res = addNode(anc, NodeOf(k))
            BY <1>3, <3>2 DEF parseStatement, Labelled
          <5>3. NodeOf(k) = "Case"
            BY <3>2, StatementNodes
          <5> QED
            BY <2>1, <3>2, <5>1, <5>2, <5>3
        <4>2. Lexically(tok) = open
          BY <3>2, LexicallyIs DEF Openers
        <4> HIDE DEF res
        <4>3. TextTree(res, open)
          BY <2>1, <4>1, TextAddsCase
        <4> QED
          BY <4>1, <4>2, <4>3 DEF TreeOf, res
      <3>3. CASE k \notin {"case", "default"}
        <4>1. ~wantCase(Last(anc)) /\ k # "wrong"
          BY <1>3, <3>1, <3>3 DEF Misplaced
        <4>2. CASE k = "raw"
          <5>1. n = "raw" /\ res = addNode(anc, NodeOf(k)) /\ NodeOf(k) = "Raw"
            BY <1>3, <2>1, <4>2, StatementNodes DEF parseStatement, Labelled, TextKinds
          <5>2. Lexically(tok) = Append(open, NodeOf(k))
            BY <4>2, LexicallyIs DEF Openers
          <5> HIDE DEF k, res
          <5>3. RawTree(res, Append(open, NodeOf(k)))
            BY <2>1, <4>1, <5>1, AddsRaw
          <5> QED
            BY <5>1, <5>2, <5>3 DEF TreeOf, k, res
        <4>3. CASE k \in {"labelled for", "labelled switch"}
          <5>1. /\ n = "text" /\ res = addNode(addNode(anc, "Label"), NodeOf(k)) /\ NodeOf(k) \in {"For", "Switch"}
            BY <1>3, <2>1, <4>3, StatementNodes DEF parseStatement, Labelled
          <5>2. Lexically(tok) = Append(open, NodeOf(k))
            BY <4>3, LexicallyIs DEF Openers
          <5> HIDE DEF k, res
          <5>3. TextTree(res, Append(open, NodeOf(k)))
            BY <2>1, <4>1, <5>1, AddsLabelled
          <5> QED
            BY <5>1, <5>2, <5>3 DEF TreeOf, k, res
        <4>4. CASE k \in {"if", "for", "range", "switch", "select", "macro", "using"}
          <5>1. n = "text" /\ res = addNode(anc, NodeOf(k))
            BY <1>3, <2>1, <4>4 DEF parseStatement, Labelled
          <5>2. NodeOf(k) \in {"If", "For", "ForRange", "Switch", "Select", "Macro", "Using"}
            BY <4>4, StatementNodes
          <5>3. Lexically(tok) = Append(open, NodeOf(k))
            BY <4>4, LexicallyIs DEF Openers
          <5> HIDE DEF k, res
          <5>4. TextTree(res, Append(open, NodeOf(k)))
            BY <2>1, <4>1, <5>1, <5>2, TextAdds
          <5> QED
            BY <5>1, <5>3, <5>4 DEF TreeOf, k, res
        <4>5. CASE k \in {"simple", "extends", "import", "declaration", "Name"}
          <5>1. n = "text" /\ Lexically(tok) = open
            BY <2>1, <4>5, LexicallyIs DEF Openers
          <5>2. CASE k = "Name" /\ Last(anc).kind = "Tree" /\ hasExtend
            <6>1. res = addNode(anc, "DistFree")
              BY <1>3, <5>2 DEF parseStatement, Labelled
            <6> HIDE DEF k, res
            <6>2. TextTree(res, open)
              BY <2>1, <4>1, <5>2, <6>1, NamesDistFree
            <6> QED
              BY <5>1, <6>2 DEF TreeOf, k, res
          <5>3. CASE ~(k = "Name" /\ Last(anc).kind = "Tree" /\ hasExtend)
            <6>1. res = addNode(anc, NodeOf(k))
              BY <1>3, <4>5, <5>3 DEF parseStatement, Labelled
            <6>2. NodeOf(k) \in {"Simple", "Import"}
              BY <4>5, StatementNodes
            <6> HIDE DEF k, res
            <6>3. res = anc
              BY <2>1, <4>1, <6>1, <6>2, TextAddsLeaf
            <6> QED
              BY <2>1, <5>1, <6>3 DEF TreeOf, k, res
          <5> QED
            BY <5>2, <5>3
        <4>6. k \in {"if", "for", "range", "switch", "select", "macro", "using"}
              \/ k \in {"labelled for", "labelled switch"} \/ k = "raw"
              \/ k \in {"simple", "extends", "import", "declaration", "Name"}
          BY <2>1, <2>3, <3>3, <4>1 DEF TextKinds
        <4> QED
          BY <4>2, <4>3, <4>4, <4>5, <4>6
      <3> QED
        BY <3>2, <3>3
    <2> QED
      BY <2>2, <2>3
  <1> QED
    BY <1>1, <1>2, <1>3

-----------------------------------------------------------------------------
(***************************************************************************)
(* The tokens of the code: the nodes of the text stay, below the s-th.     *)
(***************************************************************************)
Codes(anc, op, s) == /\ Shape(anc) /\ InText(anc, s - 1) /\ Match(anc, s - 1, op) /\ InCode(anc, s)
                     /\ s \in 2..Len(anc)

LEMMA CodesAre ==
    ASSUME NEW anc, NEW op, NEW s, Codes(anc, op, s)
    PROVE  /\ anc[Len(anc)].kind \in CodeOpen => CodeTree(anc, op, s) /\ TreeOf("code", anc, op)
           /\ Len(anc) \in Nat /\ s \in Nat /\ s >= 2 /\ s <= Len(anc) /\ Shape(anc)
           /\ Last(anc) = anc[Len(anc)] /\ Last(anc) \in Nodes /\ anc[s].kind \in CodeRoots
           /\ \A i \in s + 1..Len(anc) : anc[i].kind \in CodeNodes
           /\ \A i \in s..Len(anc) : anc[i].kind \in CodeNodes \cup CodeRoots
  <1>1. Shape(anc) /\ Len(anc) \in Nat /\ Last(anc) = anc[Len(anc)] /\ Last(anc) \in Nodes
    BY ShapeIsSeq DEF Codes
  <1>2. s \in Nat /\ s >= 2 /\ s <= Len(anc) /\ s \in 2..Len(anc) + 1
    BY <1>1 DEF Codes
  <1>3. anc[s].kind \in CodeRoots /\ \A i \in s + 1..Len(anc) : anc[i].kind \in CodeNodes
    BY <1>2 DEF Codes, InCode
  <1>4. \A i \in s..Len(anc) : anc[i].kind \in CodeNodes \cup CodeRoots
    <2> SUFFICES ASSUME NEW i \in s..Len(anc)
                 PROVE  anc[i].kind \in CodeNodes \cup CodeRoots
      OBVIOUS
    <2>1. i = s \/ i \in s + 1..Len(anc)
      BY <1>1, <1>2
    <2> QED
      BY <1>3, <2>1
  <1>5. anc[Len(anc)].kind \in CodeOpen => CodeTree(anc, op, s)
    BY DEF Codes, CodeTree
  <1>6. anc[Len(anc)].kind \in CodeOpen => TreeOf("code", anc, op)
    BY <1>2, <1>5 DEF TreeOf
  <1> QED
    BY <1>1, <1>2, <1>3, <1>4, <1>5, <1>6

LEMMA CodesOfTree ==
    ASSUME NEW anc, NEW op, TreeOf("code", anc, op)
    PROVE  \/ fileContext = "Program" /\ Len(anc) = 1 /\ Last(anc).kind = "Tree" /\ CodeTree(anc, op, 2)
           \/ \E s \in Nat : Codes(anc, op, s) /\ Last(anc).kind \in CodeOpen
  <1>1. PICK s \in 2..Len(anc) + 1 : CodeTree(anc, op, s)
    BY DEF TreeOf
  <1>2. Shape(anc) /\ Last(anc) = anc[Len(anc)] /\ Len(anc) \in Nat
    BY <1>1, ShapeIsSeq DEF CodeTree
  <1>3. CASE s <= Len(anc)
    <2>1. s \in Nat /\ s \in 2..Len(anc)
      BY <1>2, <1>3
    <2>2. Codes(anc, op, s)
      BY <1>1, <2>1 DEF Codes, CodeTree
    <2>3. Last(anc).kind \in CodeOpen
      BY <1>1, <1>2, <1>3 DEF CodeTree
    <2> QED
      BY <2>1, <2>2, <2>3
  <1>4. CASE s = Len(anc) + 1
    <2>1. fileContext = "Program" /\ Len(anc) = 1
      BY <1>1, <1>4 DEF CodeTree, InCode
    <2>2. s = 2
      BY <1>4, <2>1
    <2>3. Last(anc).kind = "Tree"
      BY <1>2, <2>1 DEF Shape
    <2> QED
      BY <1>1, <2>1, <2>2, <2>3
  <1> QED
    BY <1>2, <1>3, <1>4

LEMMA CodeEdits ==
    ASSUME NEW anc, NEW op, NEW s, Codes(anc, op, s), NEW b, NEW k, Edit(anc, b, k), s <= k, Placed(b, k),
           \A i \in k + 1..Len(b) : b[i].kind \in CodeNodes
    PROVE  Codes(b, op, s)
  <1>1. /\ Shape(anc) /\ Len(anc) \in Nat /\ s \in Nat /\ s >= 2 /\ s <= Len(anc) /\ anc[s].kind \in CodeRoots
        /\ \A i \in s + 1..Len(anc) : anc[i].kind \in CodeNodes
    BY CodesAre
  <1>2. /\ k \in 1..Len(anc) /\ k \in Nat /\ k <= Len(b) /\ Len(b) \in Nat
        /\ \A i \in 1..k - 1 : b[i] = anc[i]
        /\ b[k].kind = anc[k].kind
    BY <1>1 DEF Edit
  <1>3. Shape(b)
    BY <1>1, EditKeepsShape
  <1> DEFINE n == s - 1
  <1>4. n \in Nat /\ n <= Len(anc) /\ n <= k
    BY <1>1, <1>2
  <1>5. InText(anc, n) /\ Match(anc, n, op)
    BY DEF Codes
  <1> HIDE DEF n
  <1>6. InText(b, n) /\ Match(b, n, op)
    BY <1>1, <1>4, <1>5, EditKeepsText, EditMatches
  <1>7. \A i \in s..k : b[i].kind = anc[i].kind
    BY <1>1, <1>2
  <1>8. b[s].kind \in CodeRoots
    BY <1>1, <1>2, <1>7
  <1>9. \A i \in s + 1..Len(b) : b[i].kind \in CodeNodes
    <2> SUFFICES ASSUME NEW i \in s + 1..Len(b)
                 PROVE  b[i].kind \in CodeNodes
      OBVIOUS
    <2>1. CASE i <= k
      <3>1. i \in s..k /\ i \in s + 1..Len(anc)
        BY <1>1, <1>2, <2>1
      <3>2. b[i].kind = anc[i].kind /\ anc[i].kind \in CodeNodes
        BY <1>1, <1>7, <3>1
      <3> QED
        BY <3>2
    <2>2. CASE i > k
      BY <1>1, <1>2, <2>2
    <2> QED
      BY <1>1, <1>2, <2>1, <2>2
  <1>10. s \in 2..Len(b) /\ s \in 2..Len(b) + 1 /\ s # Len(b) + 1
    BY <1>1, <1>2
  <1>11. InCode(b, s)
    BY <1>8, <1>9, <1>10 DEF InCode
  <1> QED
    BY <1>3, <1>6, <1>10, <1>11 DEF Codes, n

\* The first nodes, up to one of the code.
LEMMA CodesFirst ==
    ASSUME NEW anc, NEW op, NEW s, Codes(anc, op, s), NEW k \in Nat, s <= k, k <= Len(anc)
    PROVE  /\ Codes(SubSeq(anc, 1, k), op, s) /\ Len(SubSeq(anc, 1, k)) = k
           /\ \A i \in 1..k : SubSeq(anc, 1, k)[i] = anc[i]
           /\ Last(SubSeq(anc, 1, k)) = anc[k]
  <1> DEFINE b == SubSeq(anc, 1, k)
  <1>1. Shape(anc) /\ Len(anc) \in Nat /\ s \in Nat /\ s >= 2
    BY CodesAre
  <1>2. k \in 1..Len(anc) /\ k \in 1..k
    BY <1>1
  <1>3. Edit(anc, b, k) /\ Len(b) = k /\ \A i \in 1..k : b[i] = anc[i]
    BY <1>1, <1>2, FirstNodes
  <1> HIDE DEF b
  <1>4. Placed(b, k) /\ \A i \in k + 1..Len(b) : b[i].kind \in CodeNodes
    BY <1>1, <1>3 DEF Placed
  <1>5. Codes(b, op, s)
    BY <1>3, <1>4, CodeEdits
  <1>6. Last(b) = b[Len(b)]
    BY <1>5, CodesAre
  <1>7. Last(b) = anc[k]
    BY <1>2, <1>3, <1>6
  <1> QED
    BY <1>3, <1>5, <1>7 DEF b

\* One node more.
LEMMA CodesOne ==
    ASSUME NEW anc, NEW op, NEW s, Codes(anc, op, s), NEW x \in Nodes, x.kind \in CodeNodes,
           MayHold(anc[Len(anc)], x.kind)
    PROVE  /\ Codes(anc \o <<x>>, op, s) /\ Len(anc \o <<x>>) = Len(anc) + 1
           /\ (anc \o <<x>>)[Len(anc \o <<x>>)] = x /\ anc \o <<x>> = Append(anc, x)
           /\ x.kind \in CodeOpen => TreeOf("code", anc \o <<x>>, op)
  <1> DEFINE b == anc \o <<x>>
             k == Len(anc)
  <1>1. Shape(anc) /\ k \in Nat /\ s \in Nat /\ s <= k
    BY CodesAre
  <1>2. /\ Edit(anc, b, k) /\ Len(b) = k + 1 /\ b[k + 1] = x /\ b = Append(anc, x)
        /\ \A i \in 1..k : b[i] = anc[i]
    BY <1>1, OneMore
  <1>3. k \in 1..k
    BY <1>1, ShapeIsSeq
  <1>4. b[k] = anc[k] /\ MayHold(anc[k], x.kind)
    BY <1>2, <1>3
  <1> HIDE DEF b, k
  <1>5. \A i \in k + 1..Len(b) : i = k + 1 /\ i - 1 = k
    BY <1>1, <1>2
  <1>6. x.kind # "Tree"
    BY DEF CodeNodes
  <1>7. Placed(b, k)
    BY <1>2, <1>4, <1>5, <1>6 DEF Placed
  <1>8. \A i \in k + 1..Len(b) : b[i].kind \in CodeNodes
    BY <1>2, <1>5
  <1>9. Codes(b, op, s)
    BY <1>1, <1>2, <1>7, <1>8, CodeEdits
  <1>10. b[Len(b)] = x
    BY <1>2
  <1>11. x.kind \in CodeOpen => TreeOf("code", b, op)
    BY <1>9, <1>10, CodesAre
  <1> QED
    BY <1>2, <1>9, <1>10, <1>11 DEF b, k

LEMMA CodesOther ==
    ASSUME NEW anc, NEW op, NEW s, Codes(anc, op, s), NEW x \in Nodes, x.kind = anc[Len(anc)].kind
    PROVE  /\ Codes(SetLast(anc, x), op, s) /\ Len(SetLast(anc, x)) = Len(anc)
           /\ SetLast(anc, x)[Len(SetLast(anc, x))] = x
           /\ x.kind \in CodeOpen => TreeOf("code", SetLast(anc, x), op)
  <1> DEFINE b == SetLast(anc, x)
             k == Len(anc)
  <1>1. Shape(anc) /\ k \in Nat /\ s \in Nat /\ s <= k
    BY CodesAre
  <1>2. Edit(anc, b, k) /\ Len(b) = k /\ b[k] = x
    BY <1>1, OtherLast
  <1> HIDE DEF b, k
  <1>3. Placed(b, k) /\ \A i \in k + 1..Len(b) : b[i].kind \in CodeNodes
    BY <1>1, <1>2 DEF Placed
  <1>4. Codes(b, op, s)
    BY <1>1, <1>2, <1>3, CodeEdits
  <1>5. x.kind \in CodeOpen => TreeOf("code", b, op)
    BY <1>2, <1>4, CodesAre
  <1> QED
    BY <1>2, <1>4, <1>5 DEF b, k

\* The parent of a node of the code, that is of the code too.
LEMMA CodeParent ==
    ASSUME NEW anc, NEW op, NEW s, Codes(anc, op, s), NEW k \in Nat, s < k, k <= Len(anc)
    PROVE  /\ anc[k].kind \in CodeNodes /\ MayHold(anc[k - 1], anc[k].kind) /\ anc[k - 1] \in Nodes
           /\ anc[k - 1].kind \in CodeNodes \cup CodeRoots /\ k - 1 \in Nat /\ s <= k - 1 /\ k - 1 <= Len(anc)
           /\ Holds(anc[k - 1]) => anc[k - 1].kind \in CodeOpen \ {"Label", "Package"} /\ ~wantCase(anc[k - 1])
           /\ anc[k].kind \notin {"Block", "If", "Func"} => Holds(anc[k - 1])
           /\ anc[k].kind = "If" => Holds(anc[k - 1]) \/ anc[k - 1].kind = "If"
           /\ anc[k].kind = "Func" => Holds(anc[k - 1]) \/ anc[k - 1].kind \in {"Package", "Label"}
           /\ anc[k].kind = "Block" => Holds(anc[k - 1]) \/ anc[k - 1].kind \in {"If", "Func"}
  <1>1. /\ Shape(anc) /\ Len(anc) \in Nat /\ s \in Nat /\ s >= 2 /\ s <= Len(anc)
        /\ \A i \in s + 1..Len(anc) : anc[i].kind \in CodeNodes
        /\ \A i \in s..Len(anc) : anc[i].kind \in CodeNodes \cup CodeRoots
    BY CodesAre
  <1>2. k \in 2..Len(anc) /\ k \in s + 1..Len(anc) /\ k - 1 \in s..Len(anc) /\ k - 1 \in 1..Len(anc)
        /\ k - 1 \in Nat /\ s <= k - 1 /\ k - 1 <= Len(anc)
    BY <1>1
  <1>3. /\ MayHold(anc[k - 1], anc[k].kind)
        /\ anc[k].kind \notin {"Block", "If", "Func"} => Holds(anc[k - 1])
        /\ anc[k].kind = "If" => Holds(anc[k - 1]) \/ anc[k - 1].kind = "If"
        /\ anc[k].kind = "Func" => Holds(anc[k - 1]) \/ anc[k - 1].kind \in {"Package", "Label"}
    BY <1>1, <1>2, ParentHolds
  <1>4. anc[k].kind \in CodeNodes /\ anc[k - 1].kind \in CodeNodes \cup CodeRoots
    BY <1>1, <1>2
  <1>5. anc[k].kind = "Block" => Holds(anc[k - 1]) \/ anc[k - 1].kind \in {"If", "Func"}
    BY <1>3, <1>4 DEF MayHold, CodeNodes, CodeRoots
  <1>6. Holds(anc[k - 1]) => anc[k - 1].kind \in CodeOpen \ {"Label", "Package"} /\ ~wantCase(anc[k - 1])
    <2>1. Holds(anc[k - 1]) => anc[k - 1].kind \in CodeOpen \ {"Label", "Package"}
      BY <1>4 DEF Holds, Holders, Switches, CodeNodes, CodeRoots, CodeOpen
    <2>2. Holds(anc[k - 1]) => ~wantCase(anc[k - 1])
      BY DEF Holds, Holders, Switches, wantCase
    <2> QED
      BY <2>1, <2>2
  <1>7. anc[k - 1] \in Nodes
    <2>1. anc \in Seq(Nodes)
      BY <1>1, ShapeIsSeq
    <2> QED
      BY <1>2, <2>1
  <1> QED
    BY <1>2, <1>3, <1>4, <1>5, <1>6, <1>7

\* A label that has no statement is left.
LEMMA LabelIsLeft ==
    ASSUME NEW anc, NEW op, NEW s, Codes(anc, op, s), Last(anc).kind \in CodeOpen
    PROVE  /\ Codes(WithoutLabel(anc), op, s) /\ TreeOf("code", WithoutLabel(anc), op)
           /\ Last(WithoutLabel(anc)).kind \in CodeOpen \ {"Label"}
           /\ Last(anc).kind # "Label" => WithoutLabel(anc) = anc
           /\ Last(anc).kind = "Label" => /\ WithoutLabel(anc) = Front(anc) /\ Holds(Last(WithoutLabel(anc)))
                                          /\ Last(WithoutLabel(anc)).kind # "Package"
                                          /\ ~wantCase(Last(WithoutLabel(anc)))
  <1>1. CASE Last(anc).kind # "Label"
    <2>1. WithoutLabel(anc) = anc
      BY <1>1 DEF WithoutLabel
    <2>2. TreeOf("code", anc, op)
      BY CodesAre
    <2> QED
      BY <1>1, <2>1, <2>2
  <1>2. CASE Last(anc).kind = "Label"
    <2> DEFINE n == Len(anc)
               b == SubSeq(anc, 1, n - 1)
    <2>1. /\ n \in Nat /\ s \in Nat /\ s <= n /\ Shape(anc) /\ Last(anc) = anc[n] /\ anc[s].kind \in CodeRoots
      BY CodesAre
    <2>2. s # n
      BY <1>2, <2>1 DEF CodeRoots
    <2>3. s < n /\ n <= Len(anc)
      BY <2>1, <2>2
    <2>4. /\ n - 1 \in Nat /\ s <= n - 1 /\ n - 1 <= Len(anc)
          /\ Holds(anc[n - 1]) => anc[n - 1].kind \in CodeOpen \ {"Label", "Package"} /\ ~wantCase(anc[n - 1])
          /\ anc[n].kind \notin {"Block", "If", "Func"} => Holds(anc[n - 1])
      BY <2>1, <2>3, CodeParent
    <2>5. Holds(anc[n - 1]) /\ anc[n - 1].kind \in CodeOpen \ {"Label", "Package"} /\ ~wantCase(anc[n - 1])
      BY <1>2, <2>1, <2>4
    <2>6. Codes(b, op, s) /\ Last(b) = anc[n - 1]
      BY <2>4, CodesFirst
    <2>7. WithoutLabel(anc) = Front(anc) /\ Front(anc) = b
      BY <1>2, <2>1, FrontIsFirst DEF WithoutLabel
    <2> HIDE DEF b
    <2>8. TreeOf("code", b, op)
      BY <2>5, <2>6, CodesAre
    <2> QED
      BY <1>2, <2>5, <2>6, <2>7, <2>8
  <1> QED
    BY <1>1, <1>2

\* What is added after a label is added to its parent.
LEMMA AddsAfterLabel ==
    ASSUME NEW anc, NEW op, NEW s, Codes(anc, op, s), Last(anc).kind \in CodeOpen, ~wantCase(Last(anc)),
           NEW kind, kind # "Case"
    PROVE  addNode(anc, kind) = WithoutLabel(anc) \o Opened(kind)
  <1>1. CASE Last(anc).kind = "Label"
    <2>1. WithoutLabel(anc) = Front(anc)
      BY <1>1, LabelIsLeft
    <2> QED
      BY <1>1, <2>1, AddsToLabel
  <1>2. CASE Last(anc).kind # "Label"
    <2>1. WithoutLabel(anc) = anc
      BY <1>2, LabelIsLeft
    <2>2. Holds(Last(anc)) \/ Last(anc).kind = "Package"
      BY <1>2 DEF wantCase, Holds, Holders, Switches, CodeOpen
    <2> QED
      BY <2>1, <2>2, AddsToHolder
  <1> QED
    BY <1>1, <1>2

LEMMA CodeNodesAdded ==
    /\ \A kind \in {"For", "ForRange", "Switch", "Select", "Block", "Label"} :
         kind \in CodeNodes /\ kind \in CodeOpen /\ kind \in NodeKinds
    /\ \A kind \in {"If", "Func"} : kind \in CodeNodes /\ kind \in NodeKinds
  BY SomeNodes, NodesAreNodes DEF CodeNodes, CodeOpen, NodeKinds

\* Two nodes more, of which the second is a block.
LEMMA CodesTwo ==
    ASSUME NEW anc, NEW op, NEW s, Codes(anc, op, s), NEW kind \in {"If", "Func"}, MayHold(anc[Len(anc)], kind)
    PROVE  TreeOf("code", anc \o <<Node(kind), Node("Block")>>, op)
  <1> DEFINE x == Node(kind)
             y == Node("Block")
             b == anc \o <<x>>
  <1>1. x \in Nodes /\ x.kind = kind /\ y \in Nodes /\ y.kind = "Block"
    BY CodeNodesAdded, NodesAreNodes
  <1>2. x.kind \in CodeNodes /\ y.kind \in CodeNodes /\ y.kind \in CodeOpen
    BY <1>1, CodeNodesAdded
  <1>3. MayHold(x, y.kind)
    BY <1>1 DEF MayHold
  <1>4. anc \in Seq(Nodes)
    BY CodesAre, ShapeIsSeq
  <1> HIDE DEF x, y
  <1>5. Codes(b, op, s) /\ b[Len(b)] = x /\ b = Append(anc, x)
    BY <1>1, <1>2, CodesOne
  <1>6. b \o <<y>> = anc \o <<x, y>>
    <2>1. <<x>> \in Seq(Nodes) /\ <<y>> \in Seq(Nodes)
      BY <1>1
    <2>2. <<x>> \o <<y>> = <<x, y>>
      <3> DEFINE v == <<x>>
                 w == <<y>>
                 z == <<x, y>>
      <3>1. v \in Seq(Nodes) /\ w \in Seq(Nodes) /\ Len(v) = 1 /\ Len(w) = 1 /\ v[1] = x /\ w[1] = y
        BY <2>1
      <3>2. z \in Seq(Nodes) /\ Len(z) = 2 /\ z[1] = x /\ z[2] = y
        BY <1>1
      <3> HIDE DEF v, w, z
      <3>3. /\ v \o w \in Seq(Nodes) /\ Len(v \o w) = 2
            /\ \A i \in 1..2 : (v \o w)[i] = IF i <= 1 THEN v[i] ELSE w[i - 1]
        <4>1. /\ v \o w \in Seq(Nodes) /\ Len(v \o w) = Len(v) + Len(w)
              /\ \A i \in 1..Len(v) + Len(w) : (v \o w)[i] = IF i <= Len(v) THEN v[i] ELSE w[i - Len(v)]
          BY <3>1, ConcatProperties
        <4>2. Len(v) + Len(w) = 2
          BY <3>1
        <4> QED
          BY <3>1, <4>1, <4>2
      <3>4. (v \o w)[1] = x /\ (v \o w)[2] = y
        BY <3>1, <3>3
      <3>5. \A i \in 1..Len(v \o w) : (v \o w)[i] = z[i]
        <4>1. \A i \in 1..Len(v \o w) : i = 1 \/ i = 2
          BY <3>3
        <4> QED
          BY <3>2, <3>4, <4>1
      <3>6. v \o w = z
        BY <3>2, <3>3, <3>5, SeqEqual
      <3> QED
        BY <3>6 DEF v, w, z
    <2>3. (anc \o <<x>>) \o <<y>> = anc \o (<<x>> \o <<y>>)
      BY <1>4, <2>1, ConcatAssociative
    <2> QED
      BY <2>2, <2>3
  <1> HIDE DEF b
  <1>7. TreeOf("code", b \o <<y>>, op)
    BY <1>1, <1>2, <1>3, <1>5, CodesOne
  <1> QED
    BY <1>6, <1>7 DEF x, y

\* The parent of the last node, when it is not the first node of the code.
LEMMA CodesFront ==
    ASSUME NEW anc, NEW op, NEW s, Codes(anc, op, s), Last(anc).kind \notin CodeRoots
    PROVE  /\ Codes(Front(anc), op, s) /\ Len(anc) - 1 \in Nat /\ Len(Front(anc)) = Len(anc) - 1
           /\ Len(anc) # 1 /\ s < Len(anc) /\ s <= Len(anc) - 1 /\ Last(Front(anc)) = anc[Len(anc) - 1]
           /\ Last(Front(anc)) \in Nodes
           /\ \A i \in 1..Len(anc) - 1 : Front(anc)[i] = anc[i]
           /\ Holds(Last(Front(anc))) => TreeOf("code", Front(anc), op)
  <1> DEFINE n == Len(anc)
             k == n - 1
  <1>1. n \in Nat /\ s \in Nat /\ s >= 2 /\ s <= n /\ Shape(anc) /\ Last(anc) = anc[n] /\ anc[s].kind \in CodeRoots
    BY CodesAre
  <1>2. s # n
    BY <1>1
  <1>3. k \in Nat /\ s <= k /\ k <= Len(anc) /\ s < n /\ n # 1 /\ n <= Len(anc)
    BY <1>1, <1>2
  <1>4. Front(anc) = SubSeq(anc, 1, k)
    BY <1>1, FrontIsFirst
  <1>5. Holds(anc[n - 1]) => anc[n - 1].kind \in CodeOpen
    BY <1>1, <1>3, CodeParent
  <1> HIDE DEF k
  <1>6. /\ Codes(SubSeq(anc, 1, k), op, s) /\ Len(SubSeq(anc, 1, k)) = k
        /\ \A i \in 1..k : SubSeq(anc, 1, k)[i] = anc[i]
        /\ Last(SubSeq(anc, 1, k)) = anc[k]
    BY <1>1, <1>3, CodesFirst
  <1>7. /\ Last(SubSeq(anc, 1, k)) \in Nodes
        /\ Last(SubSeq(anc, 1, k)).kind \in CodeOpen => TreeOf("code", SubSeq(anc, 1, k), op)
    BY <1>6, CodesAre
  <1> QED
    BY <1>3, <1>4, <1>5, <1>6, <1>7 DEF k

LEMMA CodeHolds ==
    ASSUME NEW anc, NEW op, NEW s, Codes(anc, op, s), Last(anc).kind \notin CodeRoots
    PROVE  /\ MayHold(Last(Front(anc)), Last(anc).kind) /\ Last(Front(anc)).kind \in CodeNodes \cup CodeRoots
           /\ Last(anc).kind \in CodeNodes
           /\ Last(anc).kind \notin {"Block", "If", "Func"} => Holds(Last(Front(anc)))
           /\ Last(anc).kind = "If" => Holds(Last(Front(anc))) \/ Last(Front(anc)).kind = "If"
           /\ Last(anc).kind = "Func" => Holds(Last(Front(anc))) \/ Last(Front(anc)).kind \in {"Package", "Label"}
           /\ Last(anc).kind = "Block" => Holds(Last(Front(anc))) \/ Last(Front(anc)).kind \in {"If", "Func"}
           /\ Holds(Last(Front(anc)))
              => Last(Front(anc)).kind \in CodeOpen \ {"Label", "Package"} /\ ~wantCase(Last(Front(anc)))
  <1> DEFINE n == Len(anc)
  <1>1. n \in Nat /\ Last(anc) = anc[n]
    BY CodesAre
  <1>2. s < n /\ Last(Front(anc)) = anc[n - 1]
    BY CodesFront
  <1>3. n <= Len(anc)
    BY <1>1, NotMore
  <1> HIDE DEF n
  <1> QED
    BY <1>1, <1>2, <1>3, CodeParent

\* The Ifs of a chain are of the code if the last is.
LEMMA CodeIfsAreClosed ==
    ASSUME NEW anc, NEW op, NEW s, Codes(anc, op, s), Last(anc).kind = "If"
    PROVE  TreeOf("code", CloseIfs(anc), op)
  <1>1. /\ Len(anc) \in Nat /\ s \in Nat /\ s >= 2 /\ s <= Len(anc) /\ Shape(anc) /\ Last(anc) = anc[Len(anc)]
        /\ anc[s].kind \in CodeRoots
    BY CodesAre
  <1>2. PICK o \in 1..Len(anc) : /\ CloseIfs(anc) = SubSeq(anc, 1, o) /\ anc[o].kind # "If"
                                 /\ \A i \in o + 1..Len(anc) : anc[i].kind = "If"
    BY <1>1, IfsAreClosed
  <1>3. o # Len(anc)
    BY <1>1, <1>2
  <1>4. s <= o
    <2>1. s > o => s \in o + 1..Len(anc)
      BY <1>1
    <2> QED
      BY <1>1, <1>2, <2>1 DEF CodeRoots
  <1> DEFINE k == o + 1
  <1>5. k \in Nat /\ s < k /\ k <= Len(anc) /\ k - 1 = o /\ o \in Nat /\ o <= Len(anc) /\ k \in o + 1..Len(anc)
    BY <1>1, <1>3, <1>4
  <1>6. anc[k].kind = "If"
    BY <1>2, <1>5
  <1> HIDE DEF k
  <1>7. /\ Holds(anc[k - 1]) => anc[k - 1].kind \in CodeOpen \ {"Label", "Package"}
        /\ Holds(anc[k - 1]) \/ anc[k - 1].kind = "If"
    BY <1>5, <1>6, CodeParent
  <1>8. anc[o].kind \in CodeOpen
    BY <1>2, <1>5, <1>7
  <1>9. Codes(SubSeq(anc, 1, o), op, s) /\ Last(SubSeq(anc, 1, o)) = anc[o]
    BY <1>4, <1>5, CodesFirst
  <1> QED
    BY <1>2, <1>8, <1>9, CodesAre

\* A closing brace.
LEMMA BraceCloses ==
    ASSUME NEW anc0, NEW op, NEW s, Codes(anc0, op, s), Last(anc0).kind \in CodeOpen
    PROVE  \/ CloseBrace(anc0) = SyntaxError
           \/ Last(anc0).kind = "Label" /\ Last(Front(anc0)).kind = "Statements"
           \/ TreeOf("code", CloseBrace(anc0), op)
  <1> DEFINE anc == WithoutLabel(anc0)
             outer == Front(anc)
             close == CloseBrace(anc0)
  <1>1. CASE Last(anc0).kind = "Statements" \/ Last(anc0).kind = "Package"
    <2>1. CloseBrace(anc0) = SyntaxError
      BY <1>1 DEF CloseBrace
    <2> QED
      BY <2>1
  <1>2. CASE Last(anc0).kind = "Label" /\ Last(Front(anc0)).kind = "Statements"
    BY <1>2
  <1>3. CASE /\ ~(Last(anc0).kind = "Statements" \/ Last(anc0).kind = "Package")
             /\ ~(Last(anc0).kind = "Label" /\ Last(Front(anc0)).kind = "Statements")
    <2>1. /\ Codes(anc, op, s) /\ Last(anc).kind \in CodeOpen \ {"Label"}
          /\ Last(anc0).kind # "Label" => anc = anc0
          /\ Last(anc0).kind = "Label" => anc = Front(anc0) /\ Last(anc).kind # "Package"
      BY LabelIsLeft
    <2>2. Last(anc).kind \notin CodeRoots
      BY <1>3, <2>1 DEF CodeRoots
    <2>3. close = IF Len(anc) = 1 THEN Panic ELSE
                  CASE Last(anc).kind = "Block" /\ Last(outer).kind = "Func" -> addNode(Front(outer), "Simple")
                    [] Last(outer).kind = "ForRange" /\ Last(outer).else -> Front(outer)
                    [] Last(outer).kind = "If" -> CloseIfs(outer)
                    [] OTHER -> outer
      BY <1>3 DEF CloseBrace
    <2> HIDE DEF close, anc
    <2>4. /\ Codes(outer, op, s) /\ Len(anc) # 1
          /\ Holds(Last(outer)) => TreeOf("code", outer, op)
      BY <2>1, <2>2, CodesFront
    <2>5. /\ MayHold(Last(outer), Last(anc).kind) /\ Last(outer).kind \in CodeNodes \cup CodeRoots
          /\ Last(anc).kind \notin {"Block", "If", "Func"} => Holds(Last(outer))
          /\ Last(anc).kind = "Block" => Holds(Last(outer)) \/ Last(outer).kind \in {"If", "Func"}
      BY <2>1, <2>2, CodeHolds
    <2>6. Last(anc).kind \notin {"If", "Func"}
      BY <2>1 DEF CodeOpen
    <2> HIDE DEF outer
    <2>7. CASE Last(anc).kind = "Block" /\ Last(outer).kind = "Func"
      <3> DEFINE g == Front(outer)
      <3>1. close = addNode(g, "Simple")
        BY <2>3, <2>4, <2>7
      <3>2. Last(outer).kind \notin CodeRoots
        BY <2>7 DEF CodeRoots
      <3>3. Codes(g, op, s)
        BY <2>4, <3>2, CodesFront
      <3>4. Last(g).kind \in CodeOpen /\ ~wantCase(Last(g))
        <4>1. /\ Holds(Last(g)) \/ Last(g).kind \in {"Package", "Label"}
              /\ Holds(Last(g)) => Last(g).kind \in CodeOpen \ {"Label", "Package"} /\ ~wantCase(Last(g))
          BY <2>4, <2>7, <3>2, CodeHolds
        <4> QED
          BY <4>1 DEF CodeOpen, wantCase
      <3> DEFINE kind == "Simple"
      <3>5. kind # "Case" /\ kind \in {"Simple", "Comment", "Import", "Text", "Case"} /\ close = addNode(g, kind)
        BY <3>1
      <3> HIDE DEF g, kind
      <3>6. addNode(g, kind) = WithoutLabel(g) \o Opened(kind)
        BY <3>3, <3>4, <3>5, AddsAfterLabel
      <3>7. Codes(WithoutLabel(g), op, s) /\ TreeOf("code", WithoutLabel(g), op)
        BY <3>3, <3>4, LabelIsLeft
      <3>8. WithoutLabel(g) \in Seq(Nodes)
        BY <3>7, CodesAre, ShapeIsSeq
      <3>9. WithoutLabel(g) \o Opened(kind) = WithoutLabel(g)
        BY <3>5, <3>8, AddsNothing
      <3>10. TreeOf("code", close, op)
        BY <3>5, <3>6, <3>7, <3>9
      <3> QED
        BY <3>10 DEF close
    <2>8. CASE /\ ~(Last(anc).kind = "Block" /\ Last(outer).kind = "Func")
               /\ Last(outer).kind = "ForRange" /\ Last(outer).else
      <3>1. close = Front(outer)
        BY <2>3, <2>4, <2>8
      <3>2. Last(outer).kind \notin CodeRoots
        BY <2>8 DEF CodeRoots
      <3>3. Holds(Last(Front(outer)))
        BY <2>4, <2>8, <3>2, CodeHolds
      <3>4. TreeOf("code", Front(outer), op)
        BY <2>4, <3>2, <3>3, CodesFront
      <3> QED
        BY <3>1, <3>4 DEF close
    <2>9. CASE Last(outer).kind = "If"
      <3>1. close = CloseIfs(outer)
        BY <2>3, <2>4, <2>9
      <3>2. TreeOf("code", CloseIfs(outer), op)
        BY <2>4, <2>9, CodeIfsAreClosed
      <3> QED
        BY <3>1, <3>2 DEF close
    <2>10. CASE /\ ~(Last(anc).kind = "Block" /\ Last(outer).kind = "Func")
                /\ ~(Last(outer).kind = "ForRange" /\ Last(outer).else)
                /\ Last(outer).kind # "If"
      <3>1. close = outer
        BY <2>3, <2>4, <2>10
      <3>2. Holds(Last(outer))
        BY <2>5, <2>6, <2>10
      <3> QED
        BY <2>4, <3>1, <3>2 DEF close
    <2> QED
      BY <2>7, <2>8, <2>9, <2>10
  <1> QED
    BY <1>1, <1>2, <1>3

\* } else { and } else if {.
LEMMA CodeElse ==
    ASSUME NEW anc, NEW op, NEW s, Codes(anc, op, s), Last(anc).kind \in CodeOpen,
           NEW k \in {"else", "else if"}, NEW ends
    PROVE  \/ ElseOf(anc, k, ends) = SyntaxError
           \/ TreeOf("code", ElseOf(anc, k, ends), op)
           \/ /\ Last(anc).kind = "Block" /\ Last(Front(anc)).kind = "If" /\ Last(Front(anc)).else
              /\ ElseOf(anc, k, ends) = Panic
  <1> DEFINE p == Last(anc)
             f == Front(anc)
             res == ElseOf(anc, k, ends)
  <1>1. p = anc[Len(anc)] /\ p \in Nodes
    BY CodesAre
  <1>2. CASE p.kind = "ForRange" /\ ends # "EOF" /\ k = "else"
    <2> DEFINE x == [p EXCEPT !.else = TRUE]
               y == Node("Block")
               b == SetLast(anc, x)
    <2>1. res = Append(b, y)
      BY <1>2 DEF ElseOf
    <2>2. x \in Nodes /\ x.kind = "ForRange"
      BY <1>1, <1>2, NodeChanges
    <2>3. y \in Nodes /\ y.kind = "Block" /\ y.kind \in CodeNodes /\ y.kind \in CodeOpen
      BY NodesAreNodes, CodeNodesAdded
    <2>4. Holds(x)
      BY <2>2 DEF Holds, Holders
    <2> HIDE DEF x, y, p, res
    <2>5. Codes(b, op, s) /\ b[Len(b)] = x
      BY <1>1, <1>2, <2>2, CodesOther
    <2> HIDE DEF b
    <2>6. TreeOf("code", b \o <<y>>, op) /\ b \o <<y>> = Append(b, y)
      BY <2>3, <2>4, <2>5, CodesOne DEF MayHold
    <2> QED
      BY <2>1, <2>6 DEF res
  <1>3. CASE p.kind = "Block" /\ Last(f).kind = "If"
    <2> DEFINE kind == IF k = "else" THEN "Block" ELSE "If"
    <2>1. res = addNode(f, kind)
      BY <1>3 DEF ElseOf
    <2>2. p.kind \notin CodeRoots
      BY <1>3 DEF CodeRoots
    <2>3. Codes(f, op, s)
      BY <2>2, CodesFront
    <2>4. Last(f) = f[Len(f)] /\ Last(f) \in Nodes
      BY <2>3, CodesAre
    <2> HIDE DEF f, res
    <2>5. addNode(f, kind) = IF Last(f).else THEN Panic
                             ELSE SetLast(f, [Last(f) EXCEPT !.else = TRUE]) \o Opened(kind)
      BY <1>3, AddsToIf
    <2>6. CASE Last(f).else
      BY <1>3, <2>1, <2>5, <2>6 DEF f, res
    <2>7. CASE ~Last(f).else
      <3> DEFINE x == [Last(f) EXCEPT !.else = TRUE]
                 b == SetLast(f, x)
      <3>1. x \in Nodes /\ x.kind = "If" /\ f[Len(f)].kind = "If"
        BY <1>3, <2>4, NodeChanges
      <3>2. MayHold(x, "Block") /\ MayHold(x, "If")
        BY <3>1 DEF MayHold
      <3>3. res = b \o Opened(kind)
        BY <2>1, <2>5, <2>7
      <3> HIDE DEF x
      <3>4. Codes(b, op, s) /\ b[Len(b)] = x
        BY <2>3, <3>1, CodesOther
      <3> HIDE DEF b
      <3>5. CASE k = "else"
        <4> DEFINE y == Node("Block")
        <4>1. Opened(kind) = <<y>>
          BY <3>5, WhatIsOpened
        <4>2. y \in Nodes /\ y.kind = "Block" /\ y.kind \in CodeNodes /\ y.kind \in CodeOpen
          BY NodesAreNodes, CodeNodesAdded
        <4> HIDE DEF y
        <4>3. TreeOf("code", b \o <<y>>, op)
          BY <3>2, <3>4, <4>2, CodesOne
        <4> QED
          BY <3>3, <4>1, <4>3 DEF res
      <3>6. CASE k = "else if"
        <4>1. Opened(kind) = <<Node(kind), Node("Block")>> /\ kind = "If"
          BY <3>6, WhatIsOpened
        <4> HIDE DEF kind
        <4>2. TreeOf("code", b \o <<Node(kind), Node("Block")>>, op)
          BY <3>2, <3>4, <4>1, CodesTwo
        <4> QED
          BY <3>3, <4>1, <4>2 DEF res
      <3> QED
        BY <3>5, <3>6
    <2> QED
      BY <2>6, <2>7
  <1>4. CASE /\ ~(p.kind = "ForRange" /\ ends # "EOF" /\ k = "else")
             /\ ~(p.kind = "Block" /\ Last(f).kind = "If")
    BY <1>4 DEF ElseOf
  <1> QED
    BY <1>2, <1>3, <1>4

\* The end of the statements between {%% and %%}.
LEMMA StatementsEnd ==
    ASSUME NEW anc, NEW op, TreeOf("code", anc, op)
    PROVE  \/ EndStatements(anc) = SyntaxError
           \/ TextTree(EndStatements(anc), op)
  <1> DEFINE inner == WithoutLabel(anc)
  <1>1. CASE ~(~InFunc(anc) /\ Last(inner).kind = "Statements")
    BY <1>1 DEF EndStatements
  <1>2. CASE ~InFunc(anc) /\ Last(inner).kind = "Statements"
    <2>1. EndStatements(anc) = Front(inner)
      BY <1>2 DEF EndStatements
    <2>2. ~(Last(anc).kind = "Tree")
      BY <1>2 DEF WithoutLabel
    <2>3. PICK s \in Nat : Codes(anc, op, s) /\ Last(anc).kind \in CodeOpen
      BY <2>2, CodesOfTree
    <2>4. Codes(inner, op, s)
      BY <2>3, LabelIsLeft
    <2> HIDE DEF inner
    <2> DEFINE n == Len(inner)
               k == s - 1
    <2>5. /\ n \in Nat /\ s >= 2 /\ s <= n /\ Shape(inner) /\ Last(inner) = inner[n] /\ Front(inner) = SubSeq(inner, 1, n - 1)
          /\ \A i \in s + 1..n : inner[i].kind \in CodeNodes
      BY <2>4, CodesAre, FrontIsFirst
    <2>6. s = n
      <3>1. s # n => n \in s + 1..n
        BY <2>3, <2>5
      <3> QED
        BY <1>2, <2>5, <3>1 DEF CodeNodes
    <2>7. InText(inner, k) /\ Match(inner, k, op)
      BY <2>4 DEF Codes
    <2>8. k \in Nat /\ k \in 1..k /\ k <= Len(inner) /\ k = n - 1 /\ n \in 2..Len(inner)
      BY <2>3, <2>5, <2>6
    <2>9. Holds(inner[k])
      BY <1>2, <2>5, <2>8, ParentHolds
    <2> HIDE DEF n, k
    <2>10. TextTree(SubSeq(inner, 1, k), op)
      BY <2>5, <2>7, <2>8, <2>9, TextFirst
    <2> QED
      BY <2>1, <2>5, <2>8, <2>10
  <1> QED
    BY <1>1, <1>2

\* The package of a program.
LEMMA PackageOpens ==
    ASSUME NEW anc, NEW op, fileContext = "Program", Len(anc) = 1, Last(anc).kind = "Tree", CodeTree(anc, op, 2)
    PROVE  TreeOf("code", addNode(anc, "Package"), op)
  <1> DEFINE kind == "Package"
             x == Node(kind)
             b == anc \o <<x>>
  <1>1. Shape(anc) /\ anc[1] = Last(anc)
    BY ShapeIsSeq DEF CodeTree
  <1> DEFINE s == 2
             k == s - 1
  <1>2. k = 1 /\ s = k + 1 /\ s \in Nat
    OBVIOUS
  <1>3. InText(anc, k) /\ Match(anc, k, op)
    BY DEF CodeTree
  <1>4. Holds(Last(anc)) /\ Opened(kind) = <<x>> /\ kind # "Case" /\ kind \in CodeRoots /\ kind \in CodeOpen
        /\ x \in Nodes /\ x.kind = kind /\ kind # "Tree"
    BY WhatIsOpened, NodesAreNodes, SomeNodes DEF Holds, Holders, CodeRoots, CodeOpen
  <1>5. addNode(anc, "Package") = addNode(anc, kind)
    OBVIOUS
  <1> HIDE DEF x, kind, s, k
  <1>6. addNode(anc, kind) = b
    BY <1>4, AddsToHolder
  <1>7. Edit(anc, b, Len(anc)) /\ Len(b) = Len(anc) + 1 /\ b[Len(anc) + 1] = x /\ b[1] = anc[1]
    <2>1. 1 \in 1..Len(anc)
      OBVIOUS
    <2> QED
      BY <1>1, <1>4, <2>1, OneMore
  <1>8. Edit(anc, b, k) /\ Len(b) = s /\ b[s] = x /\ b[k] = anc[1]
    BY <1>2, <1>7
  <1> HIDE DEF b
  <1>9. Shape(b)
    <2>1. \A i \in k + 1..Len(b) : i = s /\ i - 1 = k
      BY <1>2, <1>8
    <2>2. MayHold(b[k], b[s].kind) /\ b[s].kind # "Tree"
      BY <1>1, <1>4, <1>8 DEF MayHold
    <2>3. Placed(b, k)
      BY <2>1, <2>2 DEF Placed
    <2> QED
      BY <1>1, <1>8, <2>3, EditKeepsShape
  <1>10. InText(b, k) /\ Match(b, k, op)
    <2>1. k \in Nat /\ k <= Len(anc) /\ k <= k
      BY <1>2
    <2> QED
      BY <1>1, <1>3, <1>8, <2>1, EditKeepsText, EditMatches
  <1>11. InCode(b, s)
    <2>1. s \in 2..Len(b) + 1 /\ s # Len(b) + 1 /\ \A i \in s + 1..Len(b) : FALSE
      BY <1>2, <1>8
    <2> QED
      BY <1>4, <1>8, <2>1 DEF InCode
  <1>12. s \in 2..Len(b) /\ s - 1 = k
    BY <1>2, <1>8
  <1>13. Codes(b, op, s)
    BY <1>9, <1>10, <1>11, <1>12 DEF Codes
  <1>14. TreeOf("code", b, op)
    BY <1>4, <1>8, <1>13, CodesAre
  <1> QED
    BY <1>5, <1>6, <1>14

\* What a statement of the code adds.
LEMMA CodeAdds ==
    ASSUME NEW anc, NEW op, NEW s, Codes(anc, op, s), Last(anc).kind \in CodeOpen, ~wantCase(Last(anc)),
           NEW kind \in {"If", "For", "ForRange", "Switch", "Select", "Block", "Label", "Import", "Simple"},
           Last(anc).kind = "Package" => kind \in {"Import", "Simple"}
    PROVE  TreeOf("code", addNode(anc, kind), op)
  <1> DEFINE base == WithoutLabel(anc)
  <1>1. addNode(anc, kind) = base \o Opened(kind)
    BY AddsAfterLabel
  <1>2. /\ Codes(base, op, s) /\ TreeOf("code", base, op)
        /\ Last(anc).kind # "Label" => base = anc
        /\ Last(anc).kind = "Label" => Holds(Last(base))
    BY LabelIsLeft
  <1>3. base \in Seq(Nodes) /\ Last(base) = base[Len(base)]
    BY <1>2, CodesAre, ShapeIsSeq
  <1>4. Holds(Last(base)) \/ Last(anc).kind = "Package"
    <2>1. Last(anc).kind \notin {"Label", "Package"} => Holds(Last(anc))
      BY DEF CodeOpen, Holds, Holders, Switches, wantCase
    <2> QED
      BY <1>2, <2>1
  <1> HIDE DEF base
  <1>5. CASE kind \in {"Import", "Simple"}
    <2>1. base \o Opened(kind) = base
      BY <1>3, <1>5, AddsNothing
    <2> QED
      BY <1>1, <1>2, <2>1
  <1>6. CASE kind \in {"For", "ForRange", "Switch", "Select", "Block", "Label"}
    <2> DEFINE x == Node(kind)
    <2>1. Opened(kind) = <<x>>
      BY <1>6, WhatIsOpened
    <2>2. x \in Nodes /\ x.kind \in CodeNodes /\ x.kind \in CodeOpen
      BY <1>6, NodesAreNodes, CodeNodesAdded
    <2>3. Holds(base[Len(base)])
      BY <1>3, <1>4, <1>6
    <2> HIDE DEF x
    <2>4. TreeOf("code", base \o <<x>>, op)
      BY <1>2, <2>2, <2>3, CodesOne DEF MayHold
    <2> QED
      BY <1>1, <2>1, <2>4
  <1>7. CASE kind = "If"
    <2>1. Opened(kind) = <<Node(kind), Node("Block")>>
      BY <1>7, WhatIsOpened
    <2>2. Holds(base[Len(base)])
      BY <1>3, <1>4, <1>7
    <2>3. TreeOf("code", base \o <<Node(kind), Node("Block")>>, op)
      BY <1>2, <1>7, <2>2, CodesTwo DEF MayHold
    <2> QED
      BY <1>1, <2>1, <2>3
  <1> QED
    BY <1>5, <1>6, <1>7

LEMMA CodeNodesAre ==
    ASSUME NEW k
    PROVE  /\ k \in {"case:", "default:"} => CodeNode(k) = "Case"
           /\ k = "package" => CodeNode(k) = "Package"
           /\ k \in {"import", "declaration"} => CodeNode(k) \in {"Import", "Simple"}
           /\ k \notin {"case:", "default:", "package"} =>
                CodeNode(k) \in {"If", "For", "ForRange", "Switch", "Select", "Block", "Label", "Import", "Simple"}
  BY DEF CodeNode

LEMMA parseCodeIs ==
    ASSUME NEW tok, NEW anc, ~MisplacedCode(tok, anc)
    PROVE  /\ tok.kind = ";" => parseCode(tok, anc) = WithoutLabel(anc)
           /\ tok.kind = "}" => parseCode(tok, anc) = CloseBrace(anc)
           /\ tok.kind = "} else {" => parseCode(tok, anc) = ElseOf(WithoutLabel(anc), "else", End(anc))
           /\ tok.kind = "} else if {" => parseCode(tok, anc) = ElseOf(WithoutLabel(anc), "else if", End(anc))
           /\ tok.kind = "func {" => parseCode(tok, anc) = anc \o <<Node("Func"), Node("Block")>>
           /\ tok.kind \notin {";", "}", "} else {", "} else if {", "func {"}
              => parseCode(tok, anc) = addNode(anc, CodeNode(tok.kind))
  BY DEF parseCode

\* A statement of the code is not accepted, is a second else, or is a brace that closes the statements as
\* it follows a label; or the nodes of the text stay as they are.
LEMMA CodeIsParsed ==
    ASSUME NEW tok, NEW anc, NEW op, TreeOf("code", anc, op)
    PROVE  \/ parseCode(tok, anc) = SyntaxError
           \/ /\ parseCode(tok, anc) = Panic /\ tok.kind \in {"} else {", "} else if {"}
              /\ Last(WithoutLabel(anc)).kind = "Block" /\ Last(Front(WithoutLabel(anc))).kind = "If"
              /\ Last(Front(WithoutLabel(anc))).else
           \/ tok.kind = "}" /\ Last(anc).kind = "Label" /\ Last(Front(anc)).kind = "Statements"
           \/ TreeOf("code", parseCode(tok, anc), op)
  <1> DEFINE k == tok.kind
             res == parseCode(tok, anc)
  <1>1. CASE MisplacedCode(tok, anc)
    BY <1>1 DEF parseCode
  <1>2. CASE ~MisplacedCode(tok, anc) /\ Last(anc).kind = "Tree"
    <2>1. fileContext = "Program" /\ Len(anc) = 1 /\ CodeTree(anc, op, 2)
      <3>1. ~(Last(anc).kind \in CodeOpen)
        BY <1>2 DEF CodeOpen
      <3> QED
        BY <3>1, CodesOfTree
    <2>2. k = "package"
      BY <1>2, <2>1 DEF MisplacedCode
    <2>3. res = addNode(anc, "Package")
      <3>1. k \notin {";", "}", "} else {", "} else if {", "func {"}
        BY <2>2
      <3>2. CodeNode(k) = "Package"
        BY <2>2, CodeNodesAre
      <3>3. res = addNode(anc, CodeNode(k))
        BY <1>2, <3>1, parseCodeIs
      <3> QED
        BY <3>2, <3>3
    <2> HIDE DEF res
    <2>4. TreeOf("code", res, op)
      BY <1>2, <2>1, <2>3, PackageOpens
    <2> QED
      BY <2>4 DEF res
  <1>3. CASE ~MisplacedCode(tok, anc) /\ Last(anc).kind # "Tree"
    <2>1. PICK s \in Nat : Codes(anc, op, s) /\ Last(anc).kind \in CodeOpen
      BY <1>3, CodesOfTree
    <2> DEFINE base == WithoutLabel(anc)
    <2>2. Codes(base, op, s) /\ TreeOf("code", base, op) /\ Last(base).kind \in CodeOpen
      BY <2>1, LabelIsLeft
    <2> HIDE DEF base, res
    <2>3. CASE k = ";"
      <3>1. res = base
        BY <1>3, <2>3, parseCodeIs DEF base, res
      <3> QED
        BY <2>2, <3>1 DEF res
    <2>4. CASE k = "}"
      <3>1. res = CloseBrace(anc)
        BY <1>3, <2>4, parseCodeIs DEF res
      <3>2. \/ CloseBrace(anc) = SyntaxError
            \/ Last(anc).kind = "Label" /\ Last(Front(anc)).kind = "Statements"
            \/ TreeOf("code", CloseBrace(anc), op)
        BY <2>1, BraceCloses
      <3> QED
        BY <2>4, <3>1, <3>2 DEF res
    <2>5. CASE k \in {"} else {", "} else if {"}
      <3> DEFINE e == IF k = "} else {" THEN "else" ELSE "else if"
      <3>1. res = ElseOf(base, e, End(anc))
        BY <1>3, <2>5, parseCodeIs DEF base, res
      <3>2. e \in {"else", "else if"}
        OBVIOUS
      <3> HIDE DEF e
      <3>3. \/ ElseOf(base, e, End(anc)) = SyntaxError
            \/ TreeOf("code", ElseOf(base, e, End(anc)), op)
            \/ /\ Last(base).kind = "Block" /\ Last(Front(base)).kind = "If" /\ Last(Front(base)).else
               /\ ElseOf(base, e, End(anc)) = Panic
        BY <2>2, <3>2, CodeElse
      <3> QED
        BY <2>5, <3>1, <3>3 DEF base, res
    <2>6. CASE k = "func {"
      <3> DEFINE kind == "Func"
      <3>1. res = anc \o <<Node(kind), Node("Block")>> /\ kind \in {"If", "Func"}
        BY <1>3, <2>6, parseCodeIs DEF res
      <3>2. ~wantCase(Last(anc))
        BY <1>3, <2>6 DEF MisplacedCode
      <3>3. MayHold(Last(anc), kind)
        BY <2>1, <3>2 DEF wantCase, MayHold, Holds, Holders, Switches, CodeOpen
      <3>4. Last(anc) = anc[Len(anc)]
        BY <2>1, CodesAre
      <3> HIDE DEF kind
      <3>5. TreeOf("code", anc \o <<Node(kind), Node("Block")>>, op)
        BY <2>1, <3>1, <3>3, <3>4, CodesTwo
      <3> QED
        BY <3>1, <3>5 DEF res
    <2>7. CASE k \notin {";", "}", "} else {", "} else if {", "func {"}
      <3>1. res = addNode(anc, CodeNode(k))
        BY <1>3, <2>7, parseCodeIs DEF res
      <3>2. CASE k \in {"case:", "default:"}
        <4> DEFINE x == [Last(anc) EXCEPT !.cases = TRUE]
        <4>1. Last(anc).kind \in Switches
          BY <1>3, <3>2 DEF MisplacedCode, Switches
        <4>2. CodeNode(k) = "Case"
          BY <3>2, CodeNodesAre
        <4>3. addNode(anc, "Case") = SetLast(anc, x)
          BY <4>1, AddsCase
        <4>4. Last(anc) = anc[Len(anc)] /\ Last(anc) \in Nodes
          BY <2>1, CodesAre
        <4>5. x \in Nodes /\ x.kind = Last(anc).kind
          BY <4>4, NodeChanges
        <4> HIDE DEF x
        <4>6. TreeOf("code", SetLast(anc, x), op)
          BY <2>1, <4>4, <4>5, CodesOther
        <4> QED
          BY <3>1, <4>2, <4>3, <4>6 DEF res
      <3>3. CASE k \notin {"case:", "default:"}
        <4>1. ~wantCase(Last(anc))
          BY <1>3, <2>7, <3>3 DEF MisplacedCode
        <4>2. k # "package"
          BY <1>3 DEF MisplacedCode
        <4>3. Last(anc).kind = "Package" => k \in {"import", "declaration"}
          BY <1>3, <2>7 DEF MisplacedCode
        <4> DEFINE kind == CodeNode(k)
        <4>4. /\ kind \in {"If", "For", "ForRange", "Switch", "Select", "Block", "Label", "Import", "Simple"}
              /\ Last(anc).kind = "Package" => kind \in {"Import", "Simple"}
          BY <3>3, <4>2, <4>3, CodeNodesAre
        <4> HIDE DEF kind
        <4>5. TreeOf("code", addNode(anc, kind), op)
          BY <2>1, <4>1, <4>4, CodeAdds
        <4> QED
          BY <3>1, <4>5 DEF kind, res
      <3> QED
        BY <3>2, <3>3
    <2> QED
      BY <2>3, <2>4, <2>5, <2>6, <2>7
  <1> QED
    BY <1>1, <1>2, <1>3

-----------------------------------------------------------------------------
(***************************************************************************)
(* The steps of the parser.                                                *)
(***************************************************************************)
LEMMA TreesAreTrees ==
    ASSUME NEW m, NEW anc, NEW op, TreeOf(m, anc, op)
    PROVE  ~Fails(anc)
  <1>1. anc[1].kind = "Tree"
    BY DEF TreeOf, TextTree, RawTree, CodeTree, Shape
  <1>2. SyntaxError[1].kind = "SyntaxError" /\ Panic[1].kind = "panic"
    BY DEF SyntaxError, Panic, Node
  <1> QED
    BY <1>1, <1>2 DEF Fails

LEMMA EndOfFileIsParsed ==
    ASSUME NEW anc
    PROVE  parseEOF(anc) # Panic
  <1>1. parseEOF(anc) = SyntaxError \/ parseEOF(anc) = <<Node("Tree")>>
    <2>1. CASE (Len(anc) = 3 /\ anc[2].kind = "DistFree") \/ (Len(anc) = 1 /\ fileContext # "Program")
      BY <2>1 DEF parseEOF
    <2>2. CASE ~((Len(anc) = 3 /\ anc[2].kind = "DistFree") \/ (Len(anc) = 1 /\ fileContext # "Program"))
      BY <2>2 DEF parseEOF
    <2> QED
      BY <2>1, <2>2
  <1>2. /\ <<Node("Tree")>>[1].kind = "Tree" /\ SyntaxError[1].kind = "SyntaxError" /\ Panic[1].kind = "panic"
    BY DEF SyntaxError, Panic, Node
  <1> QED
    BY <1>1, <1>2

\* The tree that a token gives is of the mode that the lexer is in after it.
LEMMA TokenIsParsed ==
    ASSUME NEW tok, NEW m \in Modes, NEW n \in Modes, Passes(m, tok, n), TreeOf(m, ancestors, open), tok.typ # "EOF"
    PROVE  \/ Parsed(tok, ancestors) = SyntaxError
           \/ Parsed(tok, ancestors) = Panic /\ IsSecondElse(tok)
           \/ IsEscape(tok)
           \/ tok.typ = "end URL" /\ parent.kind # "URL"
           \/ TreeOf(n, Parsed(tok, ancestors), Lexically(tok))
  <1> DEFINE anc == ancestors
             res == Parsed(tok, anc)
  <1>1. CASE tok.typ = "code"
    <2>1. m = "code" /\ n = "code"
      BY <1>1 DEF Passes
    <2>2. res = parseCode(tok, anc) /\ Lexically(tok) = open
      BY <1>1, ParsedIs, LexicallyIs
    <2>3. \/ parseCode(tok, anc) = SyntaxError
          \/ /\ parseCode(tok, anc) = Panic /\ tok.kind \in {"} else {", "} else if {"}
             /\ Last(WithoutLabel(anc)).kind = "Block" /\ Last(Front(WithoutLabel(anc))).kind = "If"
             /\ Last(Front(WithoutLabel(anc))).else
          \/ tok.kind = "}" /\ Last(anc).kind = "Label" /\ Last(Front(anc)).kind = "Statements"
          \/ TreeOf("code", parseCode(tok, anc), open)
      BY <2>1, CodeIsParsed
    <2>4. ASSUME tok.kind \in {"} else {", "} else if {"}, Last(WithoutLabel(anc)).kind = "Block",
                 Last(Front(WithoutLabel(anc))).kind = "If", Last(Front(WithoutLabel(anc))).else
          PROVE  IsSecondElse(tok)
      BY <1>1, <2>4 DEF IsSecondElse
    <2>5. ASSUME tok.kind = "}", Last(anc).kind = "Label", Last(Front(anc)).kind = "Statements"
          PROVE  IsEscape(tok)
      BY <1>1, <2>5 DEF IsEscape, parent
    <2> QED
      BY <2>1, <2>2, <2>3, <2>4, <2>5
  <1>2. CASE tok.typ = "statement"
    <2>1. res = parseStatement(tok, anc)
      BY <1>2, ParsedIs
    <2>2. \/ parseStatement(tok, anc) = SyntaxError
          \/ parseStatement(tok, anc) = Panic /\ tok.kind \in {"else", "else if"} /\ Last(anc).kind = "Block"
             /\ Last(Front(anc)).kind = "If" /\ Last(Front(anc)).else
          \/ TreeOf(n, parseStatement(tok, anc), Lexically(tok))
      BY <1>2, StatementIsParsed
    <2>3. ASSUME tok.kind \in {"else", "else if"}, Last(anc).kind = "Block",
                 Last(Front(anc)).kind = "If", Last(Front(anc)).else
          PROVE  IsSecondElse(tok)
      BY <1>2, <2>3 DEF IsSecondElse
    <2> QED
      BY <2>1, <2>2, <2>3
  <1>3. CASE tok.typ = "%%}"
    <2>1. m = "code" /\ n = "text" /\ res = EndStatements(anc) /\ Lexically(tok) = open
      BY <1>3, ParsedIs, LexicallyIs DEF Passes
    <2>2. EndStatements(anc) = SyntaxError \/ TextTree(EndStatements(anc), open)
      BY <2>1, StatementsEnd
    <2> QED
      BY <2>1, <2>2 DEF TreeOf
  <1>4. CASE tok.typ = "text"
    <2>1. m # "code" /\ n = m /\ res = parseText(tok, anc) /\ Lexically(tok) = open
      BY <1>4, ParsedIs, LexicallyIs DEF Passes
    <2>2. parseText(tok, anc) \in {SyntaxError, anc}
      BY <1>4, <2>1, TextIsParsed
    <2> QED
      BY <2>1, <2>2
  <1>5. CASE tok.typ = "end URL"
    <2>1. n = m /\ res = parseEndURL(anc) /\ Lexically(tok) = open
      BY <1>5, ParsedIs, LexicallyIs DEF Passes
    <2>2. CASE Last(anc).kind = "URL"
      <3>1. m = "text" /\ TextTree(parseEndURL(anc), open)
        BY <2>2, EndURLIsParsed
      <3> QED
        BY <2>1, <3>1 DEF TreeOf
    <2>3. CASE Last(anc).kind # "URL"
      BY <1>5, <2>3 DEF parent
    <2> QED
      BY <2>2, <2>3
  <1>6. CASE tok.typ \in {"{%%", "show", "comment", "start URL"}
    <2>1. m = "text" /\ Lexically(tok) = open
      BY <1>6, LexicallyIs DEF Passes
    <2>2. TextTree(anc, open)
      BY <2>1, TextOrRaw
    <2>3. CASE tok.typ \in {"show", "comment"}
      <3>1. n = "text"
        BY <2>3 DEF Passes
      <3>2. res = parseNode("show", "Simple", anc) \/ res = parseNode("comment", "Comment", anc)
        BY <2>3, ParsedIs
      <3>3. res \in {SyntaxError, anc}
        BY <2>2, <3>2, NodeIsParsed
      <3> QED
        BY <2>1, <3>1, <3>3
    <2>4. CASE tok.typ = "start URL"
      <3>1. n = "text"
        BY <2>4 DEF Passes
      <3>2. res = parseNode("start URL", "URL", anc)
        BY <2>4, ParsedIs
      <3>3. res = SyntaxError \/ TextTree(res, open)
        BY <2>2, <3>2, NodeIsParsed
      <3> QED
        BY <2>1, <3>1, <3>3 DEF TreeOf
    <2>5. CASE tok.typ = "{%%"
      <3>1. n = "code"
        BY <2>5 DEF Passes
      <3>2. res = parseNode("{%%", "Statements", anc)
        BY <2>5, ParsedIs
      <3>3. res = SyntaxError \/ TreeOf("code", res, open)
        BY <2>2, <3>2, NodeIsParsed
      <3> QED
        BY <2>1, <3>1, <3>3
    <2> QED
      BY <1>6, <2>3, <2>4, <2>5
  <1> QED
    <2>1. \/ tok.typ = "code" \/ tok.typ = "statement" \/ tok.typ = "%%}" \/ tok.typ = "text" \/ tok.typ = "end URL"
          \/ tok.typ \in {"{%%", "show", "comment", "start URL"}
      BY DEF Passes
    <2> QED
      BY <1>1, <1>2, <1>3, <1>4, <1>5, <1>6, <2>1

LEMMA TreeOfNext ==
    ASSUME NEW m, UNCHANGED fileContext, TreeOf(m, ancestors', open')
    PROVE  TreeOf(m, ancestors, open)'
  BY DEF TreeOf, TextTree, RawTree, CodeTree, InCode

LEMMA TokensLeft ==
    ASSUME QueueOK, tokens # <<>>
    PROVE  /\ tokens \o out \in Seq(Tokens) /\ tokens \o out # <<>> /\ Head(tokens \o out) = Head(tokens)
           /\ Tail(tokens \o out) = Tail(tokens) \o out /\ Tail(tokens) \in Seq(Tokens) /\ Head(tokens) \in Tokens
  <1>1. tokens \in Seq(Tokens) /\ out \in Seq(Tokens)
    BY DEF QueueOK
  <1> DEFINE t == Head(tokens)
             rest == Tail(tokens)
             h == <<t>>
  <1>2. t \in Tokens /\ rest \in Seq(Tokens) /\ h \in Seq(Tokens)
    BY <1>1, HeadTailProperties
  <1>3. tokens = h \o rest
    BY <1>1
  <1> HIDE DEF t, rest
  <1>4. (h \o rest) \o out = h \o (rest \o out)
    BY <1>1, <1>2, ConcatAssociative
  <1>5. rest \o out \in Seq(Tokens)
    BY <1>1, <1>2, ConcatProperties
  <1>6. /\ h \o (rest \o out) \in Seq(Tokens) /\ h \o (rest \o out) # <<>>
        /\ Head(h \o (rest \o out)) = t /\ Tail(h \o (rest \o out)) = rest \o out
    BY <1>2, <1>5
  <1> QED
    BY <1>2, <1>3, <1>4, <1>6 DEF t, rest

LEMMA ParseKeepsTree ==
    ASSUME TreeInv, Parse
    PROVE  TreeInv'
  <1> DEFINE tok == Head(tokens)
             anc == Parsed(tok, ancestors)
             fails == Fails(anc)
  <1>1. /\ parser = "parsing" /\ tokens # <<>> /\ tokens' = Tail(tokens) /\ result = "tree"
        /\ UNCHANGED <<fileContext, scan, out, pending>>
        /\ QueueOK
    BY DEF Parse, TreeInv
  <1>2. /\ ancestors' = IF fails THEN ancestors ELSE anc
        /\ \/ fails /\ parser' = "stopping" /\ result' = anc[1].kind
           \/ ~fails /\ tok.typ = "EOF" /\ parser' = "stopping" /\ result' = "tree"
           \/ ~fails /\ tok.typ # "EOF" /\ UNCHANGED <<parser, result>>
        /\ open' = Lexically(tok)
    BY DEF Parse, Ends
  <1>3. /\ secondElse' = (secondElse \/ IsSecondElse(tok))
        /\ escaped' = (escaped \/ IsEscape(tok))
        /\ crossed' = (crossed \/ (tok.typ = "end URL" /\ parent.kind # "URL"))
    BY DEF Parse
  <1>4. secondElse \in BOOLEAN /\ crossed \in BOOLEAN /\ escaped \in BOOLEAN
    BY DEF TreeInv
  <1>5. /\ tokens \o out \in Seq(Tokens) /\ tokens \o out # <<>> /\ Head(tokens \o out) = tok
        /\ Tail(tokens \o out) = tokens' \o out' /\ tokens' \in Seq(Tokens)
    BY <1>1, TokensLeft
  <1>6. QueueOK'
    BY <1>1, <1>5 DEF QueueOK
  <1>7. secondElse' \in BOOLEAN /\ crossed' \in BOOLEAN /\ escaped' \in BOOLEAN
    <2>1. IsSecondElse(tok) \/ ~IsSecondElse(tok)
      OBVIOUS
    <2> QED
      BY <1>3
  <1>8. SyntaxError[1].kind = "SyntaxError" /\ Panic[1].kind = "panic"
    BY DEF SyntaxError, Panic, Node
  <1> HIDE DEF tok, anc, fails
  <1>9. ASSUME ~crossed, ~escaped
        PROVE  \E m, n, l \in Modes : /\ TreeOf(m, ancestors, open) /\ Passes(m, tok, l) /\ Runs(tokens' \o out', l, n)
                                      /\ scan' \in Modes => n = scan'
    <2>1. PICK m \in Modes, n \in Modes : /\ TreeOf(m, ancestors, open)
                                          /\ Runs(tokens \o out, m, n)
                                          /\ scan \in Modes => n = scan
      BY <1>1, <1>9 DEF TreeInv, Agrees
    <2>2. \E l \in Modes : Passes(m, tok, l) /\ Runs(tokens' \o out', l, n)
      BY <1>5, <2>1, RunsTail
    <2> QED
      BY <1>1, <2>1, <2>2
  <1>10. ASSUME ~crossed, ~escaped, anc = Panic
         PROVE  IsSecondElse(tok) \/ IsEscape(tok) \/ (tok.typ = "end URL" /\ parent.kind # "URL")
    <2>1. PICK m \in Modes, n \in Modes, l \in Modes : TreeOf(m, ancestors, open) /\ Passes(m, tok, l)
      BY <1>9, <1>10
    <2>2. tok.typ # "EOF"
      <3>1. tok.typ = "EOF" => anc = parseEOF(ancestors)
        BY ParsedIs DEF anc
      <3> QED
        BY <1>10, <3>1, EndOfFileIsParsed
    <2>3. Fails(anc) /\ anc # SyntaxError
      BY <1>8, <1>10 DEF Fails
    <2>4. ~TreeOf(l, anc, Lexically(tok))
      BY <2>3, TreesAreTrees
    <2>5. \/ anc = SyntaxError
          \/ anc = Panic /\ IsSecondElse(tok)
          \/ IsEscape(tok)
          \/ tok.typ = "end URL" /\ parent.kind # "URL"
          \/ TreeOf(l, anc, Lexically(tok))
      BY <2>1, <2>2, TokenIsParsed DEF anc
    <2> QED
      BY <2>3, <2>4, <2>5
  <1>11. result' = "panic" => secondElse' \/ crossed' \/ escaped'
    <2>1. result' = "panic" => anc = Panic
      BY <1>1, <1>2, <1>8 DEF Fails, fails
    <2>2. CASE crossed \/ escaped
      BY <1>3, <2>2
    <2>3. CASE ~crossed /\ ~escaped
      BY <1>3, <1>10, <2>1, <2>3
    <2> QED
      BY <2>2, <2>3
  <1>12. ASSUME parser' = "parsing", ~crossed', ~escaped'
         PROVE  result' = "tree" /\ Agrees'
    <2>1. ~fails /\ tok.typ # "EOF" /\ result' = "tree" /\ ancestors' = anc
      BY <1>1, <1>2, <1>12
    <2>2. ~crossed /\ ~escaped /\ ~IsEscape(tok) /\ ~(tok.typ = "end URL" /\ parent.kind # "URL")
      BY <1>3, <1>12
    <2>3. PICK m \in Modes, n \in Modes, l \in Modes :
                 /\ TreeOf(m, ancestors, open) /\ Passes(m, tok, l) /\ Runs(tokens' \o out', l, n)
                 /\ scan' \in Modes => n = scan'
      BY <1>9, <2>2
    <2>4. anc # SyntaxError /\ anc # Panic
      BY <2>1 DEF Fails, fails
    <2>5. \/ anc = SyntaxError
          \/ anc = Panic /\ IsSecondElse(tok)
          \/ IsEscape(tok)
          \/ tok.typ = "end URL" /\ parent.kind # "URL"
          \/ TreeOf(l, anc, Lexically(tok))
      BY <2>1, <2>3, TokenIsParsed DEF anc
    <2>6. TreeOf(l, ancestors', open')
      BY <1>2, <2>1, <2>2, <2>4, <2>5
    <2>7. TreeOf(l, ancestors, open)'
      BY <1>1, <2>6, TreeOfNext
    <2>8. Agrees'
      BY <2>3, <2>7 DEF Agrees
    <2> QED
      BY <2>1, <2>8
  <1>13. parser' = "parsing" => result' = "tree"
    BY <1>1, <1>2
  <1> QED
    BY <1>6, <1>7, <1>11, <1>12, <1>13 DEF TreeInv

LEMMA KeepsFormat ==
    ASSUME Lex \/ LexRest \/ LexEnd \/ LexSend
    PROVE  UNCHANGED fileContext
  <1>1. CASE Symbol
    <2>1. CASE \E c : Text(c) \/ EndAttr(c) \/ StaleIndex(c)
      BY <2>1 DEF Text, EndAttr, StaleIndex, Moves
    <2>2. CASE lexShow \/ lexComment \/ lexRaw \/ skipRawContent \/ CutComment \/ LexicalError
               \/ lexStatements \/ lexEndStatements
      BY <2>2 DEF lexShow, lexComment, lexRaw, skipRawContent, CutComment, LexicalError, lexStatements, lexEndStatements
    <2>3. CASE \E kind : lexBlock(kind) \/ lexLabelled(kind) \/ lexEnd(kind) \/ lexOther(kind) \/ lexCode(kind)
      BY <2>3 DEF lexBlock, lexLabelled, lexEnd, lexOther, lexCode
    <2>4. CASE \E kind, body : lexMacro(kind, body)
      BY <2>4 DEF lexMacro
    <2> QED
      BY <1>1, <2>1, <2>2, <2>3, <2>4 DEF Symbol
  <1>2. CASE lexShow \/ EndOfFile \/ EndOfFileInCode \/ Send
    BY <1>2 DEF lexShow, EndOfFile, EndOfFileInCode, Send
  <1> QED
    BY <1>1, <1>2 DEF Lex, LexRest, LexEnd, LexSend

LEMMA LexerKeepsTree ==
    ASSUME TreeInv, LexerTypeOK, Lex \/ LexRest \/ LexEnd \/ LexSend
    PROVE  TreeInv'
  <1>1. /\ UNCHANGED <<ancestors, open, parser, result, secondElse, crossed, escaped>> /\ UNCHANGED fileContext
    BY KeepsFormat DEF Lex, LexRest, LexEnd, LexSend, parsing
  <1>2. QueueOK' /\ (Agrees => Agrees')
    <2>1. CASE Lex \/ LexRest \/ LexEnd
      <3>1. QueueOK
        BY DEF TreeInv
      <3>2. \E n \in Modes : Lexes(n)
        <4>1. CASE LexRest
          BY <3>1, <4>1, StatementsLex DEF LexRest
        <4>2. CASE Lex \/ LexEnd
          BY <3>1, <4>2, LexLexes
        <4> QED
          BY <2>1, <4>1, <4>2
      <3> QED
        BY <1>1, <3>1, <3>2, LexesAgrees
    <2>2. CASE LexSend
      <3>1. Send /\ QueueOK
        BY <2>2 DEF LexSend, TreeInv
      <3>2. QueueOK' /\ tokens' \o out' = tokens \o out /\ UNCHANGED scan
        BY <3>1, SendAgrees DEF Send
      <3>3. ASSUME Agrees
            PROVE  Agrees'
        <4>1. PICK m \in Modes, n \in Modes : /\ TreeOf(m, ancestors, open)
                                              /\ Runs(tokens \o out, m, n)
                                              /\ scan \in Modes => n = scan
          BY <3>3 DEF Agrees
        <4>2. TreeOf(m, ancestors, open)'
          BY <1>1, <4>1, TreeOfNext
        <4>3. Runs(tokens' \o out', m, n) /\ (scan' \in Modes => n = scan')
          BY <3>2, <4>1
        <4> QED
          BY <4>2, <4>3 DEF Agrees
      <3> QED
        BY <3>2, <3>3
    <2> QED
      BY <2>1, <2>2
  <1> QED
    BY <1>1, <1>2 DEF TreeInv

LEMMA StepKeepsTree ==
    ASSUME TreeInv, LexerTypeOK, [Next]_vars
    PROVE  TreeInv'
  <1>1. CASE Parse
    BY <1>1, ParseKeepsTree
  <1>2. CASE Lex \/ LexRest \/ LexEnd \/ LexSend
    BY <1>2, LexerKeepsTree
  <1>3. CASE ReadError
    <2>1. /\ UNCHANGED <<tokens, out, scan, pending, secondElse, crossed, escaped>>
          /\ parser' = "stopping" /\ result' = "SyntaxError"
      BY <1>3 DEF ReadError, Ends, lexer
    <2> QED
      BY <2>1 DEF TreeInv, QueueOK
  <1>4. CASE Drain
    <2>1. /\ UNCHANGED <<out, scan, pending, result, secondElse, crossed, escaped>>
          /\ parser' = "stopping" /\ tokens # <<>> /\ tokens' = Tail(tokens)
      BY <1>4 DEF Drain, parsing
    <2>2. tokens' \in Seq(Tokens)
      BY <2>1, TokensLeft DEF TreeInv
    <2> QED
      BY <2>1, <2>2 DEF TreeInv, QueueOK
  <1>5. CASE Return
    <2>1. /\ UNCHANGED <<tokens, out, scan, pending, result, secondElse, crossed, escaped>>
          /\ parser' = "returned"
      BY <1>5 DEF Return, lexer
    <2> QED
      BY <2>1 DEF TreeInv, QueueOK
  <1>6. CASE UNCHANGED vars
    <2>1. /\ UNCHANGED <<fileContext, tokens, out, scan, pending, ancestors, open, parser, result>>
          /\ UNCHANGED <<secondElse, crossed, escaped>>
      BY <1>6 DEF vars, lexer, parsing
    <2>2. ASSUME Agrees
          PROVE  Agrees'
      <3>1. PICK m \in Modes, n \in Modes : /\ TreeOf(m, ancestors, open)
                                            /\ Runs(tokens \o out, m, n)
                                            /\ scan \in Modes => n = scan
        BY <2>2 DEF Agrees
      <3>2. TreeOf(m, ancestors, open)'
        BY <2>1, <3>1, TreeOfNext
      <3>3. Runs(tokens' \o out', m, n) /\ (scan' \in Modes => n = scan')
        BY <2>1, <3>1
      <3> QED
        BY <3>2, <3>3 DEF Agrees
    <2> QED
      BY <2>1, <2>2 DEF TreeInv, QueueOK
  <1> QED
    BY <1>1, <1>2, <1>3, <1>4, <1>5, <1>6 DEF Next

LEMMA InitTree ==
    ASSUME Spec0
    PROVE  TreeInv
  <1> DEFINE root == Node("Tree")
             anc == <<root>>
             op == <<>>
             k == 1
             s == 2
  <1>1. root \in Nodes /\ root.kind = "Tree" /\ "Tree" \notin Counting /\ "Tree" \in TextNodes /\ "Tree" \in TextOpen
    BY DEF Node, Nodes, TextNodes, TextOpen, Counting
  <1>2. /\ ancestors = anc /\ open = op /\ parser = "parsing" /\ result = "tree"
        /\ secondElse = FALSE /\ crossed = FALSE /\ escaped = FALSE
        /\ tokens = <<>> /\ out = <<>> /\ pending = "none"
        /\ scan = IF fileContext = "Program" THEN "code" ELSE "text"
    BY DEF Spec0, Init, ParserInit
  <1>3. anc \in Seq(Nodes) /\ Len(anc) = k /\ anc[1] = root /\ Last(anc) = root /\ op \in Seq(Counting) /\ Len(op) = 0
    BY <1>1 DEF Last
  <1>4. k = 1 /\ s = 2 /\ s - 1 = k /\ \A i \in 1..k : i = 1
    OBVIOUS
  <1> HIDE DEF root, anc, op, k, s
  <1>5. Shape(anc)
    <2>1. Len(anc) >= 1 /\ \A i \in 2..Len(anc) : FALSE
      BY <1>3, <1>4
    <2> QED
      BY <1>1, <1>3, <2>1 DEF Shape
  <1>6. InText(anc, k)
    BY <1>1, <1>3, <1>4 DEF InText
  <1>7. Match(anc, k, op)
    <2>1. Counted(anc, k) = {}
      BY <1>1, <1>3, <1>4 DEF Counted
    <2> QED
      BY <1>3, <2>1, FS_EmptySet DEF Match
  <1>8. TextTree(anc, op)
    <2>1. anc[Len(anc)] = root
      BY <1>3, <1>4
    <2> QED
      BY <1>1, <1>3, <1>5, <1>6, <1>7, <2>1 DEF TextTree
  <1>9. fileContext = "Program" => \E x \in 2..Len(anc) + 1 : CodeTree(anc, op, x)
    <2>1. s \in 2..Len(anc) + 1 /\ s = Len(anc) + 1 /\ ~(s <= Len(anc)) /\ \A i \in s + 1..Len(anc) : FALSE
      BY <1>3, <1>4
    <2>2. fileContext = "Program" => InCode(anc, s)
      BY <1>3, <1>4, <2>1 DEF InCode
    <2>3. fileContext = "Program" => CodeTree(anc, op, s)
      BY <1>4, <1>5, <1>6, <1>7, <2>1, <2>2 DEF CodeTree
    <2> QED
      BY <2>1, <2>3
  <1> DEFINE m == IF fileContext = "Program" THEN "code" ELSE "text"
  <1>10. m \in Modes /\ scan = m /\ TreeOf(m, anc, op)
    <2>1. m \in Modes /\ scan = m
      BY <1>2 DEF Modes
    <2>2. /\ fileContext = "Program" => m = "code"
          /\ fileContext # "Program" => m = "text"
      OBVIOUS
    <2> HIDE DEF m
    <2>3. /\ m = "code" => fileContext = "Program"
          /\ m = "code" \/ m = "text"
      BY <2>2
    <2>4. m = "text" => TreeOf(m, anc, op)
      BY <1>8 DEF TreeOf
    <2>5. m = "code" => TreeOf(m, anc, op)
      BY <1>9, <2>3 DEF TreeOf
    <2>6. TreeOf(m, anc, op)
      BY <2>3, <2>4, <2>5
    <2> QED
      BY <2>1, <2>6
  <1> HIDE DEF m
  <1>11. Runs(tokens \o out, m, m)
    <2>1. <<>> \o <<>> = <<>>
      <3>1. <<>> \in Seq(Tokens)
        OBVIOUS
      <3> QED
        BY <3>1, ConcatEmptySeq
    <2> QED
      BY <1>2, <1>10, <2>1, RunsNone
  <1>12. Agrees
    BY <1>2, <1>10, <1>11 DEF Agrees
  <1>13. QueueOK
    BY <1>2 DEF QueueOK
  <1> QED
    BY <1>2, <1>12, <1>13 DEF TreeInv

\* The nodes of the block statements are counted with those of the text.
LEMMA InnermostAreCounted ==
    ASSUME NEW anc, anc \in Seq(Nodes)
    PROVE  /\ Innermost(anc) = Counted(anc, Len(anc))
           /\ \A i \in Innermost(anc) : {j \in Innermost(anc) : j <= i} = Counted(anc, i)
  <1>1. Len(anc) \in Nat /\ DOMAIN anc = 1..Len(anc)
    OBVIOUS
  <1>2. Innermost(anc) = Counted(anc, Len(anc))
    BY <1>1 DEF Innermost, Counted, InChain, Counting
  <1>3. ASSUME NEW i \in Counted(anc, Len(anc))
        PROVE  {j \in Counted(anc, Len(anc)) : j <= i} = Counted(anc, i)
    BY <1>1 DEF Counted
  <1> QED
    BY <1>2, <1>3

LEMMA TreeMatches ==
    ASSUME TreeInv
    PROVE  BlocksMatch
  <1> SUFFICES ASSUME parser = "parsing", ~crossed, ~escaped,
                      \A i \in DOMAIN ancestors : ancestors[i].kind \notin {"Statements", "Package"}
               PROVE  LET nodes == Innermost(ancestors)
                      IN  Cardinality(nodes) = Len(open)
                          /\ \A i \in nodes : open[Cardinality({j \in nodes : j <= i})] = ancestors[i].kind
    BY DEF BlocksMatch
  <1>1. PICK m \in Modes : TreeOf(m, ancestors, open)
    BY DEF TreeInv, Agrees
  <1>2. Shape(ancestors)
    BY <1>1 DEF TreeOf, TextTree, RawTree, CodeTree
  <1>3. ancestors \in Seq(Nodes) /\ Len(ancestors) \in Nat /\ Len(ancestors) >= 1
    BY <1>2, ShapeIsSeq
  <1>4. Match(ancestors, Len(ancestors), open)
    <2>1. CASE m # "code"
      BY <1>1, <2>1, TextOrRaw DEF TextTree, RawTree
    <2>2. CASE m = "code"
      <3>1. PICK s \in 2..Len(ancestors) + 1 : CodeTree(ancestors, open, s)
        BY <1>1, <2>2 DEF TreeOf
      <3>2. s <= Len(ancestors) => ancestors[s].kind \in CodeRoots /\ s \in DOMAIN ancestors
        BY <1>3, <3>1 DEF CodeTree, InCode
      <3>3. s - 1 = Len(ancestors)
        <4>1. ~(s <= Len(ancestors))
          BY <3>2 DEF CodeRoots
        <4> QED
          BY <1>3, <4>1
      <3>4. Match(ancestors, s - 1, open)
        BY <3>1 DEF CodeTree
      <3> QED
        BY <3>3, <3>4
    <2> QED
      BY <2>1, <2>2
  <1>5. /\ Innermost(ancestors) = Counted(ancestors, Len(ancestors))
        /\ \A i \in Innermost(ancestors) : {j \in Innermost(ancestors) : j <= i} = Counted(ancestors, i)
    BY <1>3, InnermostAreCounted
  <1> QED
    BY <1>4, <1>5 DEF Match

THEOREM TreeInvariant == Spec => []TreeInv
  <1>1. LexerInv => LexerTypeOK
    BY DEF LexerInv
  <1>2. TreeInv /\ LexerInv /\ [Next]_vars => TreeInv'
    BY <1>1, StepKeepsTree
  <1> QED
    BY <1>2, InitTree, LexerInvariant, PTL DEF Spec

(***************************************************************************)
(* The parser has a place in the tree for the node of every statement that *)
(* it has accepted, but for the three causes of a panic that there are     *)
(* (parser.go, addNode: the panics of the parser).                         *)
(***************************************************************************)
THEOREM PanicsHaveAReason == Spec => []PanicHasAReason
  <1>1. TreeInv => PanicHasAReason
    BY DEF TreeInv, PanicHasAReason
  <1> QED
    BY <1>1, TreeInvariant, PTL

(***************************************************************************)
(* The nodes that are open are those of the block statements that are open *)
(* in the text, in the same order, whatever labels and chains of else if   *)
(* are in between (parser.go, parse and addToAncestors, and how end closes *)
(* a block).                                                               *)
(***************************************************************************)
THEOREM BlocksMatchTheText == Spec => []BlocksMatch
  <1>1. TreeInv => BlocksMatch
    BY TreeMatches
  <1> QED
    BY <1>1, TreeInvariant, PTL
=============================================================================
