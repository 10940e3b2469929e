------------------------------ MODULE ApiCache ------------------------------
(***************************************************************************)
(* ApiService.getFixtures (lib/services/ApiService.ts): calls look into    *)
(* one Map, await the football API when it has nothing for their params,   *)
(* and store what came back.  Any number of calls may be awaiting at once, *)
(* for the same params too.                                                *)
(*                                                                         *)
(* The matches of one params are none yet, "live" (at least one of them is *)
(* not over) or all "finished".                                            *)
(***************************************************************************)
EXTENDS Naturals

CONSTANTS Calls, Params,
          Minute, MaxTime,   \* a bound on the clock
          Never, NoEntry

ASSUME CacheAssumption ==
    /\ Minute \in Nat \ {0} /\ MaxTime \in Nat
    /\ Never \notin Nat

VARIABLES fixtures,   \* what the API has for each params
          now,
          cache,      \* cacheKey -> data and expires
          pc, params, \* each call and its params
          body,       \* the response a call awaits
          answer      \* what the call resolved to, or how it was rejected

vars == <<fixtures, now, cache, pc, params, body, answer>>

Matches  == {"none", "live", "finished"}
Bodies   == Matches \cup {"quota", "denied"}   \* two kinds of data.errors
Entry    == [data : Matches, expires : Nat \cup {Never}]

Init ==
    /\ fixtures \in [Params -> Matches]
    /\ now = 0
    /\ cache = [k \in Params |-> NoEntry]
    /\ pc = [c \in Calls |-> "idle"]
    /\ params \in [Calls -> Params]
    /\ body = [c \in Calls |-> "none"]
    /\ answer = [c \in Calls |-> "none"]

----------------------------------------------------------------------------
(* The API, outside the program. *)

\* matches are announced, played and over; they never go back
Play(k) ==
    /\ fixtures' = [fixtures EXCEPT ![k] = IF @ = "none" THEN "live" ELSE "finished"]
    /\ UNCHANGED <<now, cache, pc, params, body, answer>>

Tick ==
    /\ now < MaxTime
    /\ now' = now + 1
    /\ UNCHANGED <<fixtures, cache, pc, params, body, answer>>

\* the list asked for, or an errors object with an empty list
Serve(c) ==
    /\ pc[c] = "sent"
    /\ \E b \in {fixtures[params[c]], "quota", "denied"} : body' = [body EXCEPT ![c] = b]
    /\ pc' = [pc EXCEPT ![c] = "arrived"]
    /\ UNCHANGED <<fixtures, now, cache, params, answer>>

----------------------------------------------------------------------------
(* getFixtures *)

\* whatever is there is good, expires is not looked at
Hit(c, k) ==
    /\ pc[c] = "idle" /\ cache[k] # NoEntry
    /\ params' = [params EXCEPT ![c] = k]
    /\ answer' = [answer EXCEPT ![c] = cache[k].data]
    /\ UNCHANGED <<fixtures, now, cache, pc, body>>

Miss(c, k) ==
    /\ pc[c] = "idle" /\ cache[k] = NoEntry
    /\ params' = [params EXCEPT ![c] = k]
    /\ pc' = [pc EXCEPT ![c] = "sent"]
    /\ UNCHANGED <<fixtures, now, cache, body, answer>>

\* axios rejects: nothing came, or the interceptor found the quota used up
Reject(c) ==
    /\ pc[c] = "sent" \/ (pc[c] = "arrived" /\ body[c] = "quota")
    /\ answer' = [answer EXCEPT ![c] = "rejected"]
    /\ pc' = [pc EXCEPT ![c] = "idle"]
    /\ body' = [body EXCEPT ![c] = "none"]
    /\ UNCHANGED <<fixtures, now, cache, params>>

\* every() holds of an empty list
AllFinished(data) == data # "live"

\* (mutant) the list of a denied request is not there: its errors object is stored
StoreRaw(c) ==
    /\ pc[c] = "arrived" /\ body[c] # "quota"
    /\ cache' = [cache EXCEPT ![params[c]] = [data |-> body[c], expires |-> Never]]
    /\ answer' = [answer EXCEPT ![c] = body[c]]
    /\ pc' = [pc EXCEPT ![c] = "idle"]
    /\ body' = [body EXCEPT ![c] = "none"]
    /\ UNCHANGED <<fixtures, now, params>>

\* (mutant) the Map is keyed by the call, whatever its params
StoreForAll(c) ==
    /\ pc[c] = "arrived" /\ body[c] # "quota"
    /\ LET data == IF body[c] = "denied" THEN "none" ELSE body[c] IN
         /\ cache' = [k \in Params |->
                        [data |-> data,
                         expires |-> IF AllFinished(data) THEN Never ELSE now + Minute]]
         /\ answer' = [answer EXCEPT ![c] = data]
    /\ pc' = [pc EXCEPT ![c] = "idle"]
    /\ body' = [body EXCEPT ![c] = "none"]
    /\ UNCHANGED <<fixtures, now, params>>

\* After the await: over whatever another call stored meanwhile.  Errors of
\* another kind than the quota's come with an empty list and are stored as one.
Store(c) ==
    /\ pc[c] = "arrived" /\ body[c] # "quota"
    /\ LET data == IF body[c] = "denied" THEN "none" ELSE body[c] IN
         /\ cache' = [cache EXCEPT ![params[c]] =
                        [data |-> data,
                         expires |-> IF AllFinished(data) THEN Never ELSE now + Minute]]
         /\ answer' = [answer EXCEPT ![c] = data]
    /\ pc' = [pc EXCEPT ![c] = "idle"]
    /\ body' = [body EXCEPT ![c] = "none"]
    /\ UNCHANGED <<fixtures, now, params>>

----------------------------------------------------------------------------
Next ==
    \/ \E k \in Params : Play(k)
    \/ Tick
    \/ \E c \in Calls : Serve(c) \/ Reject(c) \/ Store(c)
    \/ \E c \in Calls, k \in Params : Hit(c, k) \/ Miss(c, k)

Spec == Init /\ [][Next]_vars

----------------------------------------------------------------------------
CacheTypeOK ==
    /\ fixtures \in [Params -> Matches]
    /\ now \in 0..MaxTime
    /\ cache \in [Params -> Entry \cup {NoEntry}]
    /\ pc \in [Calls -> {"idle", "sent", "arrived"}]
    /\ params \in [Calls -> Params]
    /\ body \in [Calls -> Bodies]
    /\ answer \in [Calls -> Matches \cup {"rejected"}]

\* A call that answers "all finished" for its params is right, from the Map or
\* from the API, and stays right: a result is never shown for another day's
\* matches.
FinishedIsTrue ==
    \A c \in Calls : answer[c] = "finished" /\ pc[c] = "idle" => fixtures[params[c]] = "finished"

\* "FT matches are cached without limit", and only they are: anything else is good
\* for a minute.
OnlyFinishedForGood ==
    [][\A c \in Calls, k \in Params :
         Hit(c, k) /\ cache[k].data # "finished" => cache[k].expires # Never /\ now <= cache[k].expires]_vars
=============================================================================
