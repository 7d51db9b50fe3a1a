------------------------------ MODULE MCServer ------------------------------
(***************************************************************************)
(* The files of a directory, index.html and index.md, of which the first   *)
(* renders the second.  Both are pages: /blog resolves to the first and    *)
(* /blog/index.md is the second, so that the name of the first page is not *)
(* that of its URL, and is that of the second page as well.  One browser   *)
(* visits both, another the first.                                         *)
(***************************************************************************)
EXTENDS DevServer

CONSTANTS c1, c2

MCFiles == {"blog/index.html", "blog/index.md"}
MCIncludes == [f \in MCFiles |-> IF f = "blog/index.html" THEN {"blog/index.md"} ELSE {}]
MCStem == [f \in MCFiles |-> "blog/index"]
MCUrls == {"/blog", "/blog/index.md"}
MCPageOf == [u \in MCUrls |-> IF u = "/blog" THEN "blog/index.html" ELSE "blog/index.md"]
MCNameOf == [u \in MCUrls |-> IF u = "/blog" THEN "blog" ELSE "blog/index"]
MCIndexOf == [u \in MCUrls |-> IF u = "/blog" THEN "blog/index" ELSE "blog/index/index"]
MCVisits == [c \in {c1, c2} |-> IF c = c1 THEN MCUrls ELSE {"/blog"}]
=============================================================================
