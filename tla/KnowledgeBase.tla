--------------------------- MODULE KnowledgeBase ---------------------------
(***************************************************************************)
(* POST /api/chat of Noah_ASI (call_noah_brain): "/learn URL" crawls a     *)
(* page into a file of KnowledgeBase/, any other text is a question, for   *)
(* which search_knowledge_base reads every file in turn and puts the best  *)
(* one into the prompt.  Chats run on the server's threads and share the   *)
(* folder without a lock.                                                  *)
(***************************************************************************)
EXTENDS Naturals

CONSTANTS Chats,
          Urls, Short,     \* Short: under 8 characters
          Names, SafeName, \* the file name of a URL: every character that is not
                           \* alphanumeric becomes '_', so URLs may share one
          Pages,           \* what a crawl prints, the "ERROR" of execute_cmd included
          Torn, Mixed,     \* a document written in part; two written over each other
          NoFile, NoUrl,
          Queries, Score   \* how many words of a query a text contains

Texts == Pages \cup {Torn, Mixed}

ASSUME LibraryAssumption ==
    /\ Short \subseteq Urls /\ NoUrl \notin Urls
    /\ SafeName \in [Urls -> Names]
    /\ NoFile \notin Texts /\ Torn \notin Pages /\ Mixed \notin Pages /\ Torn # Mixed
    /\ Score \in [Queries \X Texts -> Nat]

VARIABLES library,            \* KnowledgeBase/: the text in each file ...
          source,             \* ... and the URL its first line names
          pc,
          url,                \* of a chat that learns
          query, best, left,  \* of a chat that asks: best_match_content, files to read
          stable              \* history: files there since the search began that
                              \* nobody has touched and that opened for it

asking == <<query, best>>
vars   == <<library, source, pc, url, query, best, left, stable>>

Goto(c, there) == pc' = [pc EXCEPT ![c] = there]

Points(q, text) == IF text = NoFile THEN 0 ELSE Score[q, text]

\* A file changes: a search under way can no longer count on it, and the
\* directory iterator of one may or may not come upon a file that is new.
Store(n, u, text) ==
    /\ library' = [library EXCEPT ![n] = text]
    /\ source'  = [source EXCEPT ![n] = u]
    /\ stable'  = [c \in Chats |-> stable[c] \ {n}]
    /\ \E late \in SUBSET {c \in Chats : pc[c] = "search" /\ library[n] = NoFile} :
         left' = [c \in Chats |-> IF c \in late THEN left[c] \cup {n} ELSE left[c]]

Init ==
    /\ library = [n \in Names |-> NoFile]
    /\ source = [n \in Names |-> NoUrl]
    /\ pc = [c \in Chats |-> "idle"]
    /\ url = [c \in Chats |-> NoUrl]
    /\ query \in [Chats -> Queries]
    /\ best = [c \in Chats |-> NoFile]
    /\ left = [c \in Chats |-> {}]
    /\ stable = [c \in Chats |-> {}]

----------------------------------------------------------------------------
(* /learn *)

\* a text that is no URL is answered at once
Learn(c, u) ==
    /\ pc[c] = "idle" /\ u \notin Short
    /\ url' = [url EXCEPT ![c] = u]
    /\ Goto(c, "crawl")
    /\ UNCHANGED <<library, source, asking, left, stable>>

\* the crawl printed nothing, or the file cannot be created
GiveUp(c) ==
    /\ pc[c] = "crawl"
    /\ url' = [url EXCEPT ![c] = NoUrl]
    /\ Goto(c, "idle")
    /\ UNCHANGED <<library, source, asking, left, stable>>

\* the ofstream truncates whatever stood under this name
OpenFile(c) ==
    /\ pc[c] = "crawl"
    /\ Store(SafeName[url[c]], url[c], Torn)
    /\ Goto(c, "write")
    /\ UNCHANGED <<url, asking>>

\* (mutant) a crawl that printed nothing is stored like any other
WriteEmpty(c) ==
    /\ pc[c] = "write"
    /\ \E p \in Pages \cup {NoUrl} : Store(SafeName[url[c]], url[c], p)
    /\ url' = [url EXCEPT ![c] = NoUrl]
    /\ Goto(c, "idle")
    /\ UNCHANGED asking

\* Heading and page are written.  Of two writers of one file each starts at its
\* first byte, so the later text covers the earlier one as far as it goes.
\* "Stored" is answered whether or not the text went out whole.
WriteFile(c) ==
    /\ pc[c] = "write"
    /\ LET n == SafeName[url[c]] IN
         \/ \E p \in Pages \cup {Torn} : Store(n, url[c], p)
         \/ library[n] # Torn /\ Store(n, url[c], Mixed)
    /\ url' = [url EXCEPT ![c] = NoUrl]
    /\ Goto(c, "idle")
    /\ UNCHANGED asking

----------------------------------------------------------------------------
(* A question *)

Ask(c, q) ==
    /\ pc[c] = "idle"
    /\ query' = [query EXCEPT ![c] = q]
    /\ LET there == {n \in Names : library[n] # NoFile} IN
         /\ left'   = [left EXCEPT ![c] = there]
         /\ stable' = [stable EXCEPT ![c] = there]
    /\ Goto(c, "search")
    /\ UNCHANGED <<library, source, url, best>>

\* (mutant) max_score is not raised: the last file with a word of the query wins
ReadAnyMatch(c, n) ==
    /\ pc[c] = "search" /\ n \in left[c]
    /\ left' = [left EXCEPT ![c] = @ \ {n}]
    /\ best' = [best EXCEPT ![c] = IF Points(query[c], library[n]) > 0 THEN library[n] ELSE @]
    /\ UNCHANGED <<library, source, pc, url, query, stable>>

\* one file, in whatever order the directory lists them; it must score more than
\* every file before it
ReadFile(c, n) ==
    /\ pc[c] = "search" /\ n \in left[c]
    /\ left' = [left EXCEPT ![c] = @ \ {n}]
    /\ best' = [best EXCEPT ![c] =
                   IF Points(query[c], library[n]) > Points(query[c], @) THEN library[n] ELSE @]
    /\ UNCHANGED <<library, source, pc, url, query, stable>>

\* a file that does not open (held by another program, say) is passed over
SkipFile(c, n) ==
    /\ pc[c] = "search" /\ n \in left[c]
    /\ left' = [left EXCEPT ![c] = @ \ {n}]
    /\ stable' = [stable EXCEPT ![c] = @ \ {n}]
    /\ UNCHANGED <<library, source, pc, url, asking>>

EndSearch(c) ==
    /\ pc[c] = "search" /\ left[c] = {}
    /\ Goto(c, "cloud")
    /\ UNCHANGED <<library, source, url, asking, left, stable>>

\* call_gemini_api with the context found
Reply(c) ==
    /\ pc[c] = "cloud"
    /\ best' = [best EXCEPT ![c] = NoFile]
    /\ stable' = [stable EXCEPT ![c] = {}]
    /\ Goto(c, "idle")
    /\ UNCHANGED <<library, source, url, query, left>>

----------------------------------------------------------------------------
Next == \E c \in Chats :
    \/ \E u \in Urls : Learn(c, u)
    \/ GiveUp(c) \/ OpenFile(c) \/ WriteFile(c)
    \/ \E q \in Queries : Ask(c, q)
    \/ \E n \in Names : ReadFile(c, n) \/ SkipFile(c, n)
    \/ EndSearch(c) \/ Reply(c)

Spec == Init /\ [][Next]_vars

----------------------------------------------------------------------------
LibraryTypeOK ==
    /\ library \in [Names -> Texts \cup {NoFile}]
    /\ source \in [Names -> Urls \cup {NoUrl}]
    /\ pc \in [Chats -> {"idle", "crawl", "write", "search", "cloud"}]
    /\ url \in [Chats -> Urls \cup {NoUrl}]
    /\ query \in [Chats -> Queries]
    /\ best \in [Chats -> Texts \cup {NoFile}]
    /\ left \in [Chats -> SUBSET Names]
    /\ stable \in [Chats -> SUBSET Names]

\* The document whose first 2000 characters go to the cloud scores at least as high
\* as every file that was there, untouched, during the whole search and opened when
\* its turn came, however many files other chats learn or rewrite meanwhile and
\* whatever order the directory lists them in.
BestOfWhatStays ==
    \A c \in Chats : pc[c] = "cloud" =>
        \A n \in stable[c] : Points(query[c], library[n]) <= Points(query[c], best[c])

\* "The original data of [URL] is kept in the KnowledgeBase folder": what was
\* stored for a URL is only ever replaced by learning that URL again.
Stored(u) == source[SafeName[u]] = u /\ library[SafeName[u]] \in Pages
StoredStays == [][\A u \in Urls : Stored(u) /\ ~Stored(u)' => \E c \in Chats : url[c] = u]_vars
=============================================================================
