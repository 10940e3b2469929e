--------------------------- MODULE DashboardProofs ---------------------------
(* The page over the evolution, for every number of fetches, clicks and    *)
(* restarts, every report that breaks the JSON, and every fault.           *)
EXTENDS Dashboard, EvolutionProofs

USE DEF shown, locals

\* The server's two texts belong together at every step, not only when the lock is
\* free: what a section, or an exception in it, leaves of the text before is known from
\* where the thread is.
Pairs == Said \cup (IF "throw" \in Faults THEN CutShort ELSE {})
Matched == <<evoStatus, lastReport>> \in Pairs
Shows(r) ==
    /\ pc[r] \in {"spawn", "begin"} => lastReport = "requesting"
    /\ pc[r] \in {"history", "ask"} => lastReport = "accepted"
    /\ pc[r] \in {"cloud", "judge", "write", "announce"} =>
          evoStatus = Requesting /\ lastReport = "accepted"
    /\ pc[r] \in {"note", "backup"} \cup TrialSteps \cup {"verdict", "restore"} =>
          lastReport = "note"
Prepared == \A r \in Requests : Shows(r)

ServerInv == TypeInv /\ ControlInv /\ Matched /\ Prepared

LEMMA ServerInit == Init => ServerInv
BY TypeInit DEF Init, ServerInv, ControlInv, OneEvolution, FlagSet, Active, Matched, Prepared, Said,
                Shows, Pairs, TrialSteps

\* Whoever changes the texts leaves a matched pair, and what the next section relies on.
LEMMA TextsMove ==
    ASSUME ServerInv, NEW r \in Requests, Handler(r) \/ Thread(r)
    PROVE  Matched' /\ Shows(r)'
<1> USE DEF ServerInv, TypeInv, TypeOK, Matched, Prepared, Shows, Pairs, TrialSteps, Goto, Show
<1>0. Said = Said' /\ CutShort = CutShort'
  BY DEF Said, CutShort
<1>1. CASE Accept(r)
  BY <1>1 DEF Accept, Said
<1>2. CASE Refuse(r)
  BY <1>2 DEF Refuse
<1>3. CASE Begin(r) \/ Ask(r) \/ Announce(r)
  BY <1>3 DEF Begin, Ask, Announce, Said
<1>4. CASE Spawn(r) \/ SpawnFails(r) \/ ReadHistory(r) \/ Respond(r) \/ OpenEvolved(r)
  BY <1>4 DEF Spawn, SpawnFails, ReadHistory, Respond, OpenEvolved
<1>5. CASE FailApi(r) \/ Succeed(r) \/ RollBack(r) \/ Catch(r)
  BY <1>5 DEF FailApi, Succeed, RollBack, Catch, Said
<1>6. CASE OpenFails(r) \/ WriteEvolved(r) \/ WriteNote(r) \/ Build(r) \/ Fail(r) \/ Clear(r)
  BY <1>6 DEF OpenFails, WriteEvolved, WriteNote, Build, Fail, Clear
<1>7. CASE CopyOpen(r) \/ CopyEnd(r) \/ CopyThrows(r)
  <2>1. \E there \in TrialSteps : pc' = [pc EXCEPT ![r] = there]
    BY <1>7, CopyControl
  <2>2. UNCHANGED <<evoStatus, lastReport>>
    BY <1>7 DEF CopyOpen, CopyEnd, CopyThrows
  <2>3. pc[r] \in {"backup", "install", "restore"} \cup TrialSteps
    BY <1>7, CopyControl
  <2> QED BY <2>1, <2>2, <2>3
<1>8. CASE Throw(r)
  <2>1. "throw" \in Faults /\ pc'[r] = "caught"
    BY <1>8 DEF Throw
  <2>2. Matched'
    BY <1>8, <2>1, ThrowShows DEF Said, CutShort
  <2> QED BY <2>1, <2>2
<1> QED BY <1>1, <1>2, <1>3, <1>4, <1>5, <1>6, <1>7, <1>8 DEF Handler, Thread

LEMMA ServerStep == ServerInv /\ [Next]_vars => ServerInv'
<1> SUFFICES ASSUME ServerInv, [Next]_vars PROVE ServerInv' OBVIOUS
<1>1. TypeInv' /\ ControlInv'
  BY TypeStep, WrittenStep, ControlStep DEF ServerInv, TypeInv
<1>2. CASE UNCHANGED vars
  BY <1>1, <1>2 DEF vars, ServerInv, Matched, Prepared, Shows
<1>3. CASE Restart
  BY <1>1, <1>3 DEF Restart, Show, ServerInv, Matched, Prepared, Shows, TrialSteps, Pairs, Said
<1>4. ASSUME NEW r \in Requests, Handler(r) \/ Thread(r) PROVE ServerInv'
  <2>1. ASSUME NEW s \in Requests, s # r PROVE Shows(s)'
    <3> USE DEF ServerInv, ControlInv, OneEvolution, FlagSet, Active, TypeInv, TypeOK
    <3>1. CASE Accept(r)
      <4>1. pc'[s] = "idle"
        BY <2>1, <3>1 DEF Accept, Goto
      <4> QED BY <4>1 DEF Shows, TrialSteps
    <3>2. CASE Refuse(r)
      BY <3>2 DEF Refuse, Prepared, Shows
    <3>3. CASE Thread(r)
      <4>1. pc'[s] = "idle"
        BY <2>1, <3>3, ThreadControl DEF Goto
      <4> QED BY <4>1 DEF Shows, TrialSteps
    <3> QED BY <1>4, <3>1, <3>2, <3>3 DEF Handler
  <2>2. Matched' /\ Shows(r)'
    BY <1>4, TextsMove
  <2>3. Prepared'
    BY <2>1, <2>2 DEF Prepared
  <2> QED BY <1>1, <2>2, <2>3 DEF ServerInv
<1> QED BY <1>2, <1>3, <1>4 DEF Next

----------------------------------------------------------------------------
(* The page *)

\* What is on its way back, and what is shown, was said by the server.
Bodies == [state : {"body"}, status : Statuses, report : Reports]
PageTypes ==
    /\ page \in [status : Statuses, report : Reports \cup {"waiting", "clicked"},
                posts : Nat, outages : Nat]
    /\ polls \in [Polls -> {Idle, Sent} \cup Bodies]
Carried ==
    \A p \in Polls : polls[p].state = "body" => <<polls[p].status, polls[p].report>> \in Pairs

PageInv == PageTypes /\ Carried /\ PageIsConsistent

LEMMA PageInit == DashboardInit => PageInv
BY DEF DashboardInit, PageInv, PageTypes, Carried, PageIsConsistent, Said, Idle, Statuses

\* every step of the composition is one of Evolution's, or none
LEMMA ServerSide == [DashboardNext]_allVars => [Next]_vars
BY DEF DashboardNext, Click, Post, Poll, Send, Serve, Receive, Outage, Next, allVars

LEMMA PageStep == ServerInv /\ PageInv /\ [DashboardNext]_allVars => PageInv'
<1> SUFFICES ASSUME ServerInv, PageInv, [DashboardNext]_allVars PROVE PageInv' OBVIOUS
<1> USE DEF PageInv, PageTypes, Carried, PageIsConsistent
<1>0. CASE UNCHANGED pageVars
  BY <1>0 DEF pageVars
<1>1. CASE Click
  <2>1. UNCHANGED polls /\ page.posts + 1 \in Nat
    BY <1>1 DEF Click
  <2>2. page' = [page EXCEPT !.report = "clicked", !.posts = page.posts + 1]
    BY <1>1 DEF Click
  <2> QED BY <2>1, <2>2
<1>2. CASE Outage
  <2>1. polls' = [p \in Polls |-> Idle] /\ page.outages + 1 \in Nat
    BY <1>2 DEF Outage
  <2>2. page' = [page EXCEPT !.posts = 0, !.outages = page.outages + 1]
    BY <1>2 DEF Outage
  <2>3. Carried' /\ polls' \in [Polls -> {Idle, Sent} \cup Bodies]
    BY <2>1 DEF Idle
  <2> QED BY <2>1, <2>2, <2>3
<1>3. ASSUME NEW r \in Requests, Post(r) PROVE PageInv'
  <2>1. UNCHANGED polls /\ page.posts - 1 \in Nat
    BY <1>3 DEF Post
  <2>2. page' = [page EXCEPT !.posts = page.posts - 1]
    BY <1>3 DEF Post
  <2> QED BY <2>1, <2>2
<1>4. ASSUME NEW p \in Polls, Send(p) PROVE PageInv'
  BY <1>4 DEF Send, Sent
<1>5. ASSUME NEW p \in Polls, Serve(p) PROVE PageInv'
  <2>1. [state |-> "body", status |-> evoStatus, report |-> lastReport] \in Bodies
    BY DEF ServerInv, TypeInv, TypeOK, Bodies
  <2>2. UNCHANGED page
    BY <1>5 DEF Serve
  <2>3. <<evoStatus, lastReport>> \in Pairs
    BY DEF ServerInv, Matched
  <2> QED BY <1>5, <2>1, <2>2, <2>3 DEF Serve
<1>6. ASSUME NEW p \in Polls, Receive(p) PROVE PageInv'
  <2>1. polls[p] \in Bodies /\ <<polls[p].status, polls[p].report>> \in Pairs
    BY <1>6 DEF Receive, Idle, Sent
  <2>2. polls' \in [Polls -> {Idle, Sent} \cup Bodies] /\ Carried'
    BY <1>6 DEF Receive, Idle
  <2>3. page' = page \/ page' = [page EXCEPT !.status = polls[p].status, !.report = polls[p].report]
    BY <1>6 DEF Receive
  <2> QED BY <2>1, <2>2, <2>3 DEF Bodies, Pairs
<1> QED BY <1>0, <1>1, <1>2, <1>3, <1>4, <1>5, <1>6 DEF DashboardNext, Poll, allVars, pageVars

\* The page never shows a status beside the report of another one, however many
\* fetches overtake each other, whatever fails and whenever the server is restarted:
\* an exception between two texts of a section is the one way to a pair of two steps,
\* and there are four such pairs.
THEOREM PageConsistent == DashboardSpec => []PageIsConsistent
<1>1. DashboardInit => Init
  BY DEF DashboardInit
<1>2. PageInv => PageIsConsistent
  BY DEF PageInv
<1> QED BY <1>1, <1>2, ServerInit, PageInit, ServerSide, ServerStep, PageStep, PTL DEF DashboardSpec

\* The page only ever does to the server what Evolution lets its environment do, so
\* every theorem about Spec holds under the page as well.
THEOREM ServerUnderPage == DashboardSpec => Spec
<1>1. DashboardInit => Init
  BY DEF DashboardInit
<1> QED BY <1>1, ServerSide, PTL DEF DashboardSpec, Spec

\* Two clicks, two tabs or a click while a POST is under way start one evolution.
THEOREM OneEvolutionUnderPage == DashboardSpec => []OneEvolution
BY ServerUnderPage, MutualExclusion, PTL
=============================================================================
