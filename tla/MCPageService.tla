--------------------------- MODULE MCPageService ---------------------------
(* A small site for PageService: a page, two of the error pages, a directory;   *)
(* and texts with the characters that forms and pages give a meaning to.       *)
EXTENDS PageService

Readable(k, n) == [kind |-> k, size |-> n, readable |-> TRUE]

MCSite == "/index.html" :> Readable("file", 2) @@ "/403.html" :> Readable("file", 1)
            @@ "/404.html" :> Readable("file", 1) @@ "/docs" :> Readable("directory", 2)

\* Up to two characters, and a text that looks encoded.
MCTexts == UNION {[1..n -> {"x", "2", "space", "%", "&", "+", "=", "<", "'"}] : n \in 0..2}
             \cup {<<"%", "2", "B">>}
==============================================================================
