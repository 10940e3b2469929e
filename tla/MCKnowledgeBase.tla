-------------------------- MODULE MCKnowledgeBase --------------------------
(* Instances of KnowledgeBase for TLC. *)
EXTENDS KnowledgeBase

CONSTANTS ann, bob,       \* chats at once
          slash, dash,    \* two URLs that differ in one '/' and one '-'
          other,          \* a URL with a file name of its own
          short,
          n1, n2,
          thin, rich      \* texts with one and with two words of the question

MCSafeName == [u \in {slash, dash, other, short} |-> IF u = other THEN n2 ELSE n1]

\* a torn or mixed document may hold some of the words
MCScore == [qt \in {"q"} \X {thin, rich, Torn, Mixed} |->
               IF qt[2] = rich THEN 2 ELSE IF qt[2] = Torn THEN 0 ELSE 1]
=============================================================================
