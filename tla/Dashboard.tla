----------------------------- MODULE Dashboard -----------------------------
(***************************************************************************)
(* The page of Noah_ASI (UI_HTML) over the evolution it starts: a button   *)
(* that posts /api/evolve unless the status on the page says an evolution  *)
(* runs, and a timer that fetches /api/data every 1.5 s without waiting    *)
(* for the fetch before it.                                                *)
(***************************************************************************)
EXTENDS Evolution

CONSTANTS Polls,       \* fetches of /api/data that may be under way at once
          MaxPosts,    \* clicks the server has not answered yet
          MaxOutages,  \* restarts of the server under the open page
          BreaksJson   \* reports whose text is not the inside of a JSON string

ASSUME DashboardAssumption ==
    BreaksJson \subseteq Reports /\ MaxPosts \in Nat \ {0} /\ MaxOutages \in Nat

VARIABLES page,    \* the texts of #status and #report, the POSTs under way, and
                   \* the restarts it has lived through
          polls    \* each fetch: not sent, sent, or the body on its way back

pageVars == <<page, polls>>
allVars  == <<vars, page, polls>>

Idle == [state |-> "idle"]
Sent == [state |-> "sent"]

DashboardInit ==
    /\ Init
    /\ page = [status |-> Ready, report |-> "waiting", posts |-> 0, outages |-> 0]
    /\ polls = [p \in Polls |-> Idle]

\* startEvolution: the texts for which it alerts and returns
\* ("Evolution: In progress" is among them, and no code sets it)
Blocked(status) == status \in {Reading, Requesting, Validating}

Click ==
    /\ ~Blocked(page.status) /\ page.posts < MaxPosts
    /\ page' = [page EXCEPT !.report = "clicked", !.posts = @ + 1]
    /\ UNCHANGED <<vars, polls>>

Post(r) ==
    /\ page.posts > 0
    /\ Handler(r)
    /\ page' = [page EXCEPT !.posts = @ - 1]
    /\ UNCHANGED polls

Send(p) ==
    /\ polls[p] = Idle
    /\ polls' = [polls EXCEPT ![p] = Sent]
    /\ UNCHANGED <<vars, page>>

\* (mutant) the texts are read before and after another thread's critical section
ServeTorn(p) ==
    /\ polls[p] = Sent
    /\ \E report \in {lastReport, "boot"} :
         polls' = [polls EXCEPT ![p] = [state |-> "body", status |-> evoStatus, report |-> report]]
    /\ UNCHANGED <<vars, page>>

\* GET /api/data builds its body in one critical section
Serve(p) ==
    /\ polls[p] = Sent /\ mtx = Free
    /\ polls' = [polls EXCEPT ![p] =
                    [state |-> "body", status |-> evoStatus, report |-> lastReport]]
    /\ UNCHANGED <<vars, page>>

\* (mutant) the page keeps a status that tells it to wait until it is reloaded
ReceiveOnce(p) ==
    /\ polls[p].state = "body"
    /\ polls' = [polls EXCEPT ![p] = Idle]
    /\ page' = IF polls[p].report \in BreaksJson \/ Blocked(page.status) THEN page
               ELSE [page EXCEPT !.status = polls[p].status, !.report = polls[p].report]
    /\ UNCHANGED vars

\* r.json() rejects a body that is not JSON, and no catch handles it: the page
\* keeps what it showed.  The report is never empty.
Receive(p) ==
    /\ polls[p].state = "body"
    /\ polls' = [polls EXCEPT ![p] = Idle]
    /\ page' = IF polls[p].report \in BreaksJson THEN page
               ELSE [page EXCEPT !.status = polls[p].status, !.report = polls[p].report]
    /\ UNCHANGED vars

\* the server stops and starts under the open page: what was under way is lost
Outage ==
    /\ Restart /\ page.outages < MaxOutages
    /\ polls' = [p \in Polls |-> Idle]
    /\ page' = [page EXCEPT !.posts = 0, !.outages = @ + 1]

Poll(p) == Send(p) \/ Serve(p) \/ Receive(p)

DashboardNext ==
    \/ Click \/ Outage
    \/ \E r \in Requests : Post(r) \/ (Thread(r) /\ UNCHANGED pageVars)
    \/ \E p \in Polls : Poll(p)

\* The browser's timer and the server's threads run; nobody has to click, and the
\* server need not stop.
DashboardFairness ==
    /\ \A r \in Requests : WF_allVars(Thread(r) /\ UNCHANGED pageVars)
    /\ WF_allVars(\E r \in Requests : Post(r))
    /\ \A p \in Polls : WF_allVars(Poll(p))

DashboardSpec == DashboardInit /\ [][DashboardNext]_allVars /\ DashboardFairness

----------------------------------------------------------------------------
\* The texts that belong together, and those a section cut short by an exception leaves
\* side by side until its catch: one of its own and one of the step before.
Said == {<<Ready, "boot">>, <<Ready, "waiting">>, <<Initiated, "requesting">>,
         <<Reading, "accepted">>, <<Requesting, "accepted">>, <<Validating, "note">>,
         <<ApiFailed, "response">>, <<Successful, "success">>,
         <<RolledBack, "rolledback">>, <<ThreadDied, "exception">>}
CutShort == {<<Reading, "requesting">>, <<Requesting, "note">>, <<Successful, "note">>,
             <<RolledBack, "note">>}

\* What the page shows was the server's state at one instant: a status never stands
\* beside the report of another one, though fetches overtake each other and both texts
\* change many times an evolution; an exception can only make it one step old.
PageIsConsistent ==
    \/ page.report = "clicked"
    \/ <<page.status, page.report>> \in Said
    \/ "throw" \in Faults /\ <<page.status, page.report>> \in CutShort

\* The button does not stay dead: a page that answers clicks with the alert comes to a
\* status for which it posts again, unless the server will not: an evolution whose
\* main_evolved.cpp did not open leaves "Requesting Cloud..." behind for good.
ButtonComesBack == Blocked(page.status) ~> ~Blocked(page.status) \/ LeftUnjudged

\* A verdict does not stay unseen: the page shows what the server shows, unless
\* the next evolution or a restart comes first.
VerdictReachesPage ==
    evoStatus \in Final ~> (page.status = evoStatus \/ evoStatus \notin Final)
=============================================================================
