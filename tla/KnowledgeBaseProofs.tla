------------------------ MODULE KnowledgeBaseProofs ------------------------
(* A search misses no better file that stayed and opened: BestOfWhatStays  *)
(* for any number of chats, files, texts and queries.                      *)
EXTENDS KnowledgeBase, TLAPS

\* What a search has read so far and nobody has touched scores no more than its
\* best; it ends with nothing left to read.
SoFar(c) ==
    /\ pc[c] \in {"search", "cloud"} =>
         \A n \in stable[c] \ left[c] : Points(query[c], library[n]) <= Points(query[c], best[c])
    /\ pc[c] = "cloud" => left[c] = {}

\* a chat about to write knows its URL
Learning == \A c \in Chats : pc[c] \in {"crawl", "write"} => url[c] \in Urls

SearchInv == LibraryTypeOK /\ Learning /\ \A c \in Chats : SoFar(c)

LEMMA PointsType == ASSUME NEW q \in Queries, NEW t \in Texts \cup {NoFile}
                    PROVE  Points(q, t) \in Nat
BY LibraryAssumption DEF Points

LEMMA StoreType ==
    ASSUME SearchInv, NEW n \in Names, NEW u \in Urls \cup {NoUrl}, NEW t \in Texts,
           Store(n, u, t)
    PROVE  /\ library' \in [Names -> Texts \cup {NoFile}]
           /\ source' \in [Names -> Urls \cup {NoUrl}]
           /\ left' \in [Chats -> SUBSET Names]
           /\ stable' \in [Chats -> SUBSET Names]
BY DEF SearchInv, LibraryTypeOK, Store

\* A file that changes only ever leaves the set a search answers for.
LEMMA StoreKeepsSearches ==
    ASSUME SearchInv, NEW n \in Names, NEW u \in Urls \cup {NoUrl}, NEW t \in Texts,
           Store(n, u, t), UNCHANGED asking,
           NEW c \in Chats, pc'[c] = pc[c]
    PROVE  SoFar(c)'
<1>1. PICK late \in SUBSET {d \in Chats : pc[d] = "search" /\ library[n] = NoFile} :
           left' = [d \in Chats |-> IF d \in late THEN left[d] \cup {n} ELSE left[d]]
  BY DEF Store
<1>2. stable'[c] = stable[c] \ {n} /\ left[c] \subseteq left'[c]
  BY <1>1 DEF SearchInv, LibraryTypeOK, Store
<1>3. \A m \in stable'[c] : m \in stable[c] /\ library'[m] = library[m]
  BY <1>2 DEF SearchInv, LibraryTypeOK, Store
<1>4. pc[c] = "cloud" => left'[c] = left[c]
  BY <1>1 DEF SearchInv, LibraryTypeOK
<1>5. query' = query /\ best' = best
  BY DEF asking
<1> QED
  BY <1>2, <1>3, <1>4, <1>5 DEF SearchInv, SoFar, Points

\* A chat whose own part and files are as they were keeps what it has.
LEMMA Undisturbed ==
    ASSUME NEW c \in Chats, SoFar(c), library' = library,
           pc'[c] = pc[c], query'[c] = query[c], best'[c] = best[c],
           left'[c] = left[c], stable'[c] = stable[c]
    PROVE  SoFar(c)'
BY DEF SoFar, Points

LEMMA SearchInit == Init => SearchInv
BY LibraryAssumption DEF Init, SearchInv, LibraryTypeOK, Learning, SoFar

LEMMA LearnerStep ==
    ASSUME SearchInv, NEW c \in Chats,
           (\E u \in Urls : Learn(c, u)) \/ GiveUp(c) \/ OpenFile(c) \/ WriteFile(c)
    PROVE  SearchInv'
<1> USE DEF SearchInv, LibraryTypeOK
<1>1. CASE (\E u \in Urls : Learn(c, u)) \/ GiveUp(c)
  <2>1. LibraryTypeOK' /\ Learning'
    BY <1>1 DEF Learn, GiveUp, Goto, asking, Learning
  <2>2. ASSUME NEW d \in Chats PROVE SoFar(d)'
    <3>1. CASE d = c
      BY <1>1, <3>1 DEF Learn, GiveUp, Goto, SoFar
    <3>2. CASE d # c
      BY <1>1, <3>2, Undisturbed DEF Learn, GiveUp, Goto, asking
    <3> QED BY <3>1, <3>2
  <2> QED BY <2>1, <2>2
<1>2. ASSUME OpenFile(c) \/ WriteFile(c),
             NEW n \in Names, NEW v \in Urls, NEW t \in Texts, Store(n, v, t)
      PROVE  SearchInv'
  <2>1. /\ UNCHANGED asking
        /\ pc' \in [Chats -> {"idle", "crawl", "write", "search", "cloud"}]
        /\ url' \in [Chats -> Urls \cup {NoUrl}]
        /\ Learning'
    BY <1>2 DEF OpenFile, WriteFile, Goto, Learning
  <2>2. LibraryTypeOK'
    BY <1>2, <2>1, StoreType DEF asking
  <2>3. ASSUME NEW d \in Chats PROVE SoFar(d)'
    <3>1. CASE d = c
      BY <1>2, <3>1 DEF OpenFile, WriteFile, Goto, SoFar
    <3>2. CASE d # c
      <4>1. pc'[d] = pc[d]
        BY <1>2, <3>2 DEF OpenFile, WriteFile, Goto
      <4> QED BY <1>2, <2>1, <4>1, StoreKeepsSearches
    <3> QED BY <3>1, <3>2
  <2> QED BY <2>1, <2>2, <2>3
<1>3. ASSUME OpenFile(c) \/ WriteFile(c) PROVE url[c] \in Urls /\ SafeName[url[c]] \in Names
  BY <1>3, LibraryAssumption DEF OpenFile, WriteFile, Learning
<1>4. CASE OpenFile(c)
  BY <1>2, <1>3, <1>4 DEF OpenFile, Texts
<1>5. CASE WriteFile(c)
  <2>1. PICK t \in Texts : Store(SafeName[url[c]], url[c], t)
    BY <1>5 DEF WriteFile, Texts
  <2> QED BY <1>2, <1>3, <1>5, <2>1
<1> QED BY <1>1, <1>4, <1>5

LEMMA AskerStep ==
    ASSUME SearchInv, NEW c \in Chats,
           \/ \E q \in Queries : Ask(c, q)
           \/ \E n \in Names : ReadFile(c, n) \/ SkipFile(c, n)
           \/ EndSearch(c) \/ Reply(c)
    PROVE  SearchInv'
<1> USE DEF SearchInv, LibraryTypeOK
<1>1. LibraryTypeOK' /\ Learning'
  BY DEF Ask, ReadFile, SkipFile, EndSearch, Reply, Goto, asking, Learning
<1>2. ASSUME NEW d \in Chats, d # c PROVE SoFar(d)'
  BY <1>2, Undisturbed DEF Ask, ReadFile, SkipFile, EndSearch, Reply, Goto, asking
<1>3. SoFar(c)'
  <2>1. CASE \E q \in Queries : Ask(c, q)
    BY <2>1 DEF Ask, Goto, SoFar
  <2>2. ASSUME NEW n \in Names, ReadFile(c, n) PROVE SoFar(c)'
    <3>1. /\ library' = library /\ query' = query /\ stable' = stable /\ pc' = pc
          /\ left'[c] = left[c] \ {n} /\ pc[c] = "search"
          /\ best'[c] = IF Points(query[c], library[n]) > Points(query[c], best[c])
                        THEN library[n] ELSE best[c]
      BY <2>2 DEF ReadFile
    <3>2. \A m \in Names : Points(query[c], library[m]) \in Nat
      BY PointsType
    <3>3. Points(query[c], best[c]) \in Nat
      BY PointsType
    <3>4. /\ Points(query[c], best'[c]) \in Nat
          /\ Points(query[c], best[c]) <= Points(query[c], best'[c])
          /\ Points(query[c], library[n]) <= Points(query[c], best'[c])
      BY <3>1, <3>2, <3>3
    <3>5. ASSUME NEW m \in stable'[c] \ left'[c]
          PROVE  Points(query[c], library[m]) <= Points(query[c], best'[c])
      <4>1. m \in Names
        BY <3>1
      <4>2. m = n \/ m \in stable[c] \ left[c]
        BY <3>1
      <4>3. CASE m = n
        BY <4>3, <3>4
      <4>4. CASE m \in stable[c] \ left[c]
        <5>1. Points(query[c], library[m]) <= Points(query[c], best[c])
          BY <4>4, <3>1 DEF SoFar
        <5> QED BY <5>1, <4>1, <3>2, <3>3, <3>4
      <4> QED BY <4>2, <4>3, <4>4
    <3> QED BY <3>1, <3>5 DEF SoFar, Points
  <2>3. CASE EndSearch(c)
    BY <2>3 DEF EndSearch, Goto, SoFar, asking, Points
  <2>4. CASE Reply(c)
    BY <2>4 DEF Reply, Goto, SoFar
  <2>5. ASSUME NEW n \in Names, SkipFile(c, n) PROVE SoFar(c)'
    <3>1. stable'[c] \ left'[c] \subseteq stable[c] \ left[c]
      BY <2>5 DEF SkipFile
    <3> QED BY <2>5, <3>1 DEF SkipFile, SoFar, asking, Points
  <2> QED BY <2>1, <2>2, <2>3, <2>4, <2>5
<1> QED BY <1>1, <1>2, <1>3

LEMMA SearchStep == SearchInv /\ [Next]_vars => SearchInv'
<1> SUFFICES ASSUME SearchInv, [Next]_vars PROVE SearchInv' OBVIOUS
<1>1. CASE UNCHANGED vars
  BY <1>1 DEF vars, SearchInv, LibraryTypeOK, Learning, SoFar, Points
<1>2. CASE Next
  BY <1>2, LearnerStep, AskerStep DEF Next
<1> QED BY <1>1, <1>2

\* The context of an answer scores at least as high as every document that was in
\* the library, untouched, during the whole search and opened when it was to be
\* read, whatever the other chats do.
THEOREM BestIsFound == Spec => []BestOfWhatStays
<1>1. SearchInv => BestOfWhatStays
  BY DEF SearchInv, SoFar, BestOfWhatStays
<1> QED BY SearchInit, SearchStep, <1>1, PTL DEF Spec

\* Every file holds a text and every chat is at one of its steps with what it
\* carries there; that a chat about to write knows its URL is what WriteFile needs.
THEOREM LibraryTypesCorrect == Spec => []LibraryTypeOK
<1>1. SearchInv => LibraryTypeOK
  BY DEF SearchInv
<1> QED BY SearchInit, SearchStep, <1>1, PTL DEF Spec

----------------------------------------------------------------------------
(* Why documents are lost *)

\* Files change only where a chat opens or writes the file of the URL it learns.
LEMMA OnlyLearnersWrite ==
    ASSUME SearchInv, Next, NEW n \in Names,
           library'[n] # library[n] \/ source'[n] # source[n]
    PROVE  \E c \in Chats : url[c] \in Urls /\ SafeName[url[c]] = n
<1>1. PICK c \in Chats : OpenFile(c) \/ WriteFile(c)
  BY DEF Next, Learn, GiveUp, Ask, ReadFile, SkipFile, EndSearch, Reply, asking
<1>2. url[c] \in Urls
  BY <1>1 DEF SearchInv, Learning, OpenFile, WriteFile
<1>3. \E t : Store(SafeName[url[c]], url[c], t)
  BY <1>1 DEF OpenFile, WriteFile
<1>4. SafeName[url[c]] = n
  BY <1>3 DEF Store, SearchInv, LibraryTypeOK
<1> QED BY <1>2, <1>4

\* What StoredStays needs and fails for: no two URLs with one file name.  Nothing else
\* takes a document from its URL, neither two chats that write at once nor a crawl
\* that gives up.
THEOREM LossNeedsSharedName ==
    ASSUME \A u, v \in Urls : SafeName[u] = SafeName[v] => u = v
    PROVE  Spec => StoredStays
<1>1. ASSUME SearchInv, [Next]_vars, NEW u \in Urls, Stored(u), ~Stored(u)'
      PROVE  \E c \in Chats : url[c] = u
  <2>1. SafeName[u] \in Names
    BY LibraryAssumption
  <2>2. library'[SafeName[u]] # library[SafeName[u]] \/ source'[SafeName[u]] # source[SafeName[u]]
    BY <1>1 DEF Stored
  <2>3. Next
    BY <1>1, <2>2 DEF vars
  <2> QED BY <1>1, <2>1, <2>2, <2>3, OnlyLearnersWrite
<1>2. SearchInv /\ [Next]_vars =>
        [\A u \in Urls : Stored(u) /\ ~Stored(u)' => \E c \in Chats : url[c] = u]_vars
  BY <1>1
<1> QED BY SearchInit, SearchStep, <1>2, PTL DEF Spec, StoredStays
=============================================================================
