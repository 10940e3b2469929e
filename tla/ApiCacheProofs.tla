--------------------------- MODULE ApiCacheProofs ---------------------------
(* The fixtures cache for every set of calls and params, any clock.        *)
EXTENDS ApiCache, TLAPS

\* "finished" is only ever carried for params whose matches are over: in the
\* Map, in a response on its way, in an answer.
Carried ==
    /\ \A k \in Params : cache[k] # NoEntry /\ cache[k].data = "finished" => fixtures[k] = "finished"
    /\ \A c \in Calls : pc[c] = "arrived" /\ body[c] = "finished" => fixtures[params[c]] = "finished"

CacheInv == CacheTypeOK /\ Carried /\ FinishedIsTrue

LEMMA CacheInit == Init => CacheInv
BY CacheAssumption DEF Init, CacheInv, CacheTypeOK, Carried, FinishedIsTrue, Matches, Bodies

LEMMA NewEntry ==
    ASSUME CacheInv, NEW c \in Calls, Store(c)
    PROVE  \E data \in Matches, expires \in Nat \cup {Never} :
             /\ cache' = [cache EXCEPT ![params[c]] = [data |-> data, expires |-> expires]]
             /\ answer' = [answer EXCEPT ![c] = data]
             /\ data = "finished" => fixtures[params[c]] = "finished"
             /\ [data |-> data, expires |-> expires] \in Entry
<1> DEFINE d == IF body[c] = "denied" THEN "none" ELSE body[c]
           x == IF AllFinished(d) THEN Never ELSE now + Minute
<1>1. d \in Matches
  BY DEF CacheInv, CacheTypeOK, Store, Bodies, Matches
<1>2. x \in Nat \cup {Never}
  BY CacheAssumption DEF CacheInv, CacheTypeOK
<1>3. d = "finished" => fixtures[params[c]] = "finished"
  BY DEF CacheInv, Carried, Store
<1>4. /\ cache' = [cache EXCEPT ![params[c]] = [data |-> d, expires |-> x]]
      /\ answer' = [answer EXCEPT ![c] = d]
  BY DEF Store
<1> HIDE DEF d, x
<1>5. [data |-> d, expires |-> x] \in Entry
  BY <1>1, <1>2 DEF Entry
<1> QED BY <1>1, <1>2, <1>3, <1>4, <1>5

LEMMA CacheStep == CacheInv /\ [Next]_vars => CacheInv'
<1> SUFFICES ASSUME CacheInv, [Next]_vars PROVE CacheInv' OBVIOUS
<1> USE DEF CacheInv, CacheTypeOK, Carried, FinishedIsTrue
<1>1. CASE UNCHANGED vars
  BY <1>1 DEF vars
<1>2. CASE \E k \in Params : Play(k)
  BY <1>2 DEF Play, Matches
<1>3. CASE Tick
  BY <1>3, CacheAssumption DEF Tick
<1>4. ASSUME NEW c \in Calls, Serve(c) PROVE CacheInv'
  BY <1>4 DEF Serve, Bodies, Matches
<1>5. ASSUME NEW c \in Calls, Reject(c) PROVE CacheInv'
  BY <1>5 DEF Reject, Bodies, Matches
<1>6. ASSUME NEW c \in Calls, Store(c) PROVE CacheInv'
  <2>1. PICK data \in Matches, expires \in Nat \cup {Never} :
             /\ cache' = [cache EXCEPT ![params[c]] = [data |-> data, expires |-> expires]]
             /\ answer' = [answer EXCEPT ![c] = data]
             /\ data = "finished" => fixtures[params[c]] = "finished"
             /\ [data |-> data, expires |-> expires] \in Entry
    BY <1>6, NewEntry
  <2>2. CacheTypeOK'
    BY <1>6, <2>1 DEF Store, Bodies, Matches
  <2>3. Carried' /\ FinishedIsTrue'
    BY <1>6, <2>1 DEF Store
  <2> QED BY <2>2, <2>3
<1>7. ASSUME NEW c \in Calls, NEW k \in Params, Hit(c, k) PROVE CacheInv'
  <2>1. cache[k].data \in Matches
    BY <1>7 DEF Hit, Entry
  <2> QED BY <1>7, <2>1 DEF Hit
<1>8. ASSUME NEW c \in Calls, NEW k \in Params, Miss(c, k) PROVE CacheInv'
  BY <1>8 DEF Miss
<1> QED BY <1>1, <1>2, <1>3, <1>4, <1>5, <1>6, <1>7, <1>8 DEF Next

\* Map, calls and clock keep their types: what is stored and answered is a list of
\* matches, also for a response without "response".
THEOREM CacheTypesCorrect == Spec => []CacheTypeOK
BY CacheInit, CacheStep, PTL DEF Spec, CacheInv

\* No call is ever told that matches are over that are not, or given the finished
\* matches of other params.
THEOREM FinishedTrue == Spec => []FinishedIsTrue
BY CacheInit, CacheStep, PTL DEF Spec, CacheInv
=============================================================================
