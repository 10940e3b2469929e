----------------------------- MODULE PoolProofs -----------------------------
(***************************************************************************)
(* Theorems about WebServer for every number of base and dynamic threads,  *)
(* clients, ports and requests per connection.                             *)
(***************************************************************************)
EXTENDS WebServer, FiniteSetTheorems, TLAPS

USE DEF pool, lists, web, net, Clients

ServerPlaces == {"bind", "accept", "notify", "shutdown", "notifyAll", "join", "joinDynamic",
                 "returned"}

\* WebTypeOK but for the bound of idle, which follows from what it counts.
QueueTypes ==
    /\ jobs \in Seq(Jobs) /\ idle \in Int
    /\ dynamic \subseteq Dynamic /\ finished \subseteq Dynamic /\ remaining \subseteq Dynamic
ThreadTypes ==
    /\ place \in [Workers -> Places]
    /\ running \in [Workers -> Jobs \cup {NoJob}]
    /\ \A t \in Workers : place[t] \in {"timedOut", "lingering"} => t \in Dynamic
MainTypes ==
    /\ server \in ServerPlaces /\ port \in 1 .. LastPort + 1 /\ taken \subseteq Ports
    /\ server \notin {"bind", "returned"} => port \in Ports
NetTypes ==
    /\ backlog \in Seq(Jobs) /\ asks \subseteq Jobs /\ left \in [Jobs -> 0 .. KeepAliveMax]
FlagTypes ==
    stopping \in BOOLEAN /\ decommissioned \in BOOLEAN

Types == QueueTypes /\ ThreadTypes /\ MainTypes /\ NetTypes /\ FlagTypes

\* A thread has a job exactly while it runs one.
HandInv == \A t \in Workers : place[t] = "running" <=> running[t] # NoJob

LEMMA TypesInit == Init => Types /\ HandInv
<1> SUFFICES ASSUME Init PROVE Types /\ HandInv OBVIOUS
<1> USE DEF Init
<1>1. QueueTypes
  BY DEF PoolInit, QueueTypes
<1>2. ThreadTypes
  <2>1. place \in [Workers -> Places]
    <3>1. "ended" \in Places
      BY DEF Places
    <3> QED BY <3>1 DEF PoolInit
  <2>2. running \in [Workers -> Jobs \cup {NoJob}]
    BY DEF PoolInit
  <2> QED BY <2>1, <2>2 DEF ThreadTypes, PoolInit
<1>5. HandInv
  BY DEF PoolInit, HandInv
<1>3. MainTypes
  <2>1. server \in ServerPlaces
    BY DEF ServerPlaces
  <2>2. port \in 1 .. LastPort + 1
    BY WebAssumption
  <2>3. taken \subseteq Ports
    OBVIOUS
  <2> QED BY <2>1, <2>2, <2>3 DEF MainTypes
<1>4. NetTypes
  <2>1. KeepAliveMax \in 0 .. KeepAliveMax
    BY WebAssumption
  <2>2. left \in [Jobs -> 0 .. KeepAliveMax]
    BY <2>1
  <2> QED BY <2>2 DEF NetTypes
<1>6. FlagTypes
  BY DEF PoolInit, FlagTypes
<1> QED BY <1>1, <1>2, <1>3, <1>4, <1>5, <1>6 DEF Types

LEMMA QueueStep == Types /\ [Next]_vars => QueueTypes'
<1> SUFFICES ASSUME Types, [Next]_vars PROVE QueueTypes' OBVIOUS
<1> USE DEF Types, QueueTypes
<1>0. CASE UNCHANGED vars
  BY <1>0 DEF vars
<1>1. CASE BindFails \/ Listen \/ GiveUp \/ Notify \/ Shutdown \/ AcceptFails
  BY <1>1 DEF BindFails, Listen, Construct, GiveUp, Notify, NotifyOne, Shutdown, SetShutdown,
              NotifyAll, TakeDynamic, CleanUp, AcceptFails
<1>2. CASE Accept
  <2>1. Head(backlog) \in Jobs
    BY <1>2 DEF Accept, NetTypes
  <2> QED BY <1>2, <2>1 DEF Accept, Enqueue
<1>3. ASSUME NEW t \in Workers, Worker(t) \/ Wait(t) PROVE QueueTypes'
  <2>1. CASE Take(t) \/ Sleep(t) \/ Quit(t) \/ End(t) \/ HangUp(t) \/ Answer(t) \/ Wait(t)
    BY <2>1 DEF Take, Sleep, Quit, End, HangUp, Return, Answer, Wait, Stir, TimeOut, Uncount
  <2>2. CASE Retire(t)
    BY <2>2 DEF Retire, MoveToFinished
  <2>3. CASE Linger(t)
    BY <2>3 DEF Linger, MoveToFinished
  <2> QED BY <1>3, <2>1, <2>2, <2>3 DEF Worker
<1>4. ASSUME NEW c \in Clients, Ask(c) \/ Connect(c) PROVE QueueTypes'
  BY <1>4 DEF Ask, Connect
<1> QED BY <1>0, <1>1, <1>2, <1>3, <1>4 DEF Next, Main

\* A dynamic thread is on one of the three lists until it has returned, so a slot that
\* is on none may be used again.  Shutdown's own list is filled, and the pool's emptied,
\* when the base threads have been joined, and not before.
ListInv ==
    /\ \A t \in Dynamic : t \in dynamic \cup finished \cup remaining \/ place[t] = "ended"
    /\ server # "joinDynamic" => remaining = {}
    /\ server = "joinDynamic" => dynamic = {} /\ \A t \in Base : place[t] = "ended"
    /\ NoThreadOutlivesListen

LEMMA SpawnedIsNew ==
    ASSUME ListInv, Accept
    PROVE  UNCHANGED place \/ \E t \in Dynamic \ dynamic : place[t] = "ended" /\ Move(t, "awake")
BY DEF Accept, Enqueue, ListInv

LEMMA ThreadStep == Types /\ HandInv /\ ListInv /\ [Next]_vars => ThreadTypes' /\ HandInv'
<1> SUFFICES ASSUME Types, HandInv, ListInv, [Next]_vars PROVE ThreadTypes' /\ HandInv' OBVIOUS
<1> USE DEF Types, ThreadTypes, HandInv
<1>0. CASE UNCHANGED <<place, running>>
  BY <1>0
<1>1. ASSUME NEW t \in Workers, NEW there \in Places, Move(t, there), UNCHANGED running,
             place[t] # "running", there # "running",
             there \in {"timedOut", "lingering"} => t \in Dynamic
      PROVE  ThreadTypes' /\ HandInv'
  BY <1>1 DEF Move
<1> USE DEF Places
<1>2. CASE Listen
  BY <1>2 DEF Listen, Construct, ListInv, NoThreadOutlivesListen
<1>3. CASE Accept
  <2>1. UNCHANGED running
    BY <1>3 DEF Accept, Enqueue
  <2> QED BY <1>0, <1>1, <1>3, <2>1, SpawnedIsNew DEF Workers
<1>4. CASE Notify
  BY <1>0, <1>1, <1>4 DEF Notify, NotifyOne, Asleep
<1>5. CASE Shutdown
  BY <1>5 DEF Shutdown, SetShutdown, NotifyAll, TakeDynamic, CleanUp, Asleep
<1>6. CASE BindFails \/ GiveUp \/ AcceptFails
  BY <1>0, <1>6 DEF BindFails, GiveUp, AcceptFails
<1>7. ASSUME NEW t \in Workers, Worker(t) \/ Wait(t) PROVE ThreadTypes' /\ HandInv'
  <2>1. CASE Take(t)
    <3>1. Head(jobs) \in Jobs
      BY <2>1 DEF Take, QueueTypes
    <3>2. Head(jobs) # NoJob
      BY <3>1, PoolAssumption
    <3> QED BY <2>1, <3>1, <3>2 DEF Take, Looks, Move
  <2>2. CASE Sleep(t) \/ Quit(t) \/ Retire(t) \/ End(t)
    BY <1>1, <2>2 DEF Sleep, Quit, Retire, End, Looks
  <2>3. CASE Linger(t)
    BY <1>1, <2>3 DEF Linger
  <2>4. CASE Answer(t)
    BY <1>0, <2>4 DEF Answer
  <2>5. CASE HangUp(t)
    <3>1. CASE t \in Dynamic
      BY <2>5, <3>1 DEF HangUp, Return, Move
    <3>2. CASE t \notin Dynamic
      BY <2>5, <3>2 DEF HangUp, Return, Move
    <3> QED BY <3>1, <3>2
  <2>6. CASE Wait(t)
    BY <1>1, <2>6 DEF Wait, Stir, TimeOut
  <2> QED BY <1>7, <2>1, <2>2, <2>3, <2>4, <2>5, <2>6 DEF Worker
<1>8. ASSUME NEW c \in Clients, Ask(c) \/ Connect(c) PROVE ThreadTypes' /\ HandInv'
  BY <1>0, <1>8 DEF Ask, Connect
<1>9. CASE UNCHANGED vars
  BY <1>0, <1>9 DEF vars
<1> QED BY <1>2, <1>3, <1>4, <1>5, <1>6, <1>7, <1>8, <1>9 DEF Next, Main

LEMMA ListStep == Types /\ ListInv /\ [Next]_vars => ListInv'
<1> SUFFICES ASSUME Types, ListInv, [Next]_vars PROVE ListInv' OBVIOUS
<1> USE DEF Types, ThreadTypes, ListInv, NoThreadOutlivesListen
<1>0. CASE UNCHANGED <<place, lists, server>>
  BY <1>0
<1>2. CASE Listen
  BY <1>2, PoolAssumption DEF Listen, Construct, Workers
<1>3. CASE Accept
  BY <1>3 DEF Accept, Enqueue, Move, Workers
<1>4. CASE Notify
  BY <1>4 DEF Notify, NotifyOne, Asleep, Move, Workers
<1>5. CASE Shutdown
  BY <1>5 DEF Shutdown, SetShutdown, NotifyAll, TakeDynamic, CleanUp, Asleep, Workers
<1>6. CASE BindFails \/ GiveUp \/ AcceptFails
  BY <1>6 DEF BindFails, GiveUp, AcceptFails
<1>7. ASSUME NEW t \in Workers, Worker(t) \/ Wait(t) PROVE ListInv'
  <2> USE DEF Places, Move, Workers
  <2>1. CASE Take(t) /\ UNCHANGED web
    BY <2>1 DEF Take, Looks
  <2>2. CASE (Sleep(t) \/ Quit(t) \/ End(t)) /\ UNCHANGED web
    BY <2>2 DEF Sleep, Quit, End, Looks
  <2>3. CASE Retire(t) /\ UNCHANGED web
    BY <2>3 DEF Retire, MoveToFinished
  <2>4. CASE Linger(t) /\ UNCHANGED web
    BY <2>4 DEF Linger, MoveToFinished
  <2>5. CASE Answer(t)
    BY <1>0, <2>5 DEF Answer
  <2>6. CASE HangUp(t)
    <3>1. place[t] # "ended" /\ UNCHANGED <<lists, server>>
      BY <2>6 DEF HangUp, Return
    <3>2. \A d \in Workers \ {t} : place'[d] = place[d]
      BY <2>6 DEF HangUp, Return
    <3>3. t \in Dynamic => t \in dynamic \cup finished \cup remaining
      BY <3>1
    <3>4. t \in Base => server # "joinDynamic"
      BY <3>1
    <3> QED BY <3>1, <3>2, <3>3, <3>4
  <2>7. CASE Wait(t)
    BY <2>7 DEF Wait, Stir, TimeOut
  <2> QED BY <1>7, <2>1, <2>2, <2>3, <2>4, <2>5, <2>6, <2>7 DEF Worker
<1>8. ASSUME NEW c \in Clients, Ask(c) \/ Connect(c) PROVE ListInv'
  BY <1>0, <1>8 DEF Ask, Connect
<1>9. CASE UNCHANGED vars
  BY <1>0, <1>9 DEF vars
<1> QED BY <1>2, <1>3, <1>4, <1>5, <1>6, <1>7, <1>8, <1>9 DEF Next, Main

----------------------------------------------------------------------------
(* The count of idle threads *)

Sane == Types /\ HandInv /\ ListInv

LEMMA WorkersFinite ==
    /\ IsFiniteSet(Workers) /\ Cardinality(Workers) \in Nat
    /\ \A S \in SUBSET Workers :
         IsFiniteSet(S) /\ Cardinality(S) \in Nat /\ Cardinality(S) <= Cardinality(Workers)
<1>1. IsFiniteSet(Workers)
  BY PoolAssumption, FS_Union DEF Workers
<1>2. ASSUME NEW S \in SUBSET Workers
      PROVE  IsFiniteSet(S) /\ Cardinality(S) \in Nat /\ Cardinality(S) <= Cardinality(Workers)
  BY <1>1, FS_Subset, FS_CardinalityType
<1> QED BY <1>1, <1>2, FS_CardinalityType

LEMMA OneMore ==
    ASSUME NEW S \in SUBSET Workers, NEW t \in Workers
    PROVE  /\ t \notin S => Cardinality(S \cup {t}) = Cardinality(S) + 1
           /\ t \in S => Cardinality(S \ {t}) = Cardinality(S) - 1
BY WorkersFinite, FS_AddElement, FS_RemoveElement

Waiting == {"asleep", "woken", "timedOut"}

\* What a move of one thread does to the threads in the wait.
LEMMA WaitMoves ==
    ASSUME Types, NEW t \in Workers, NEW there \in Places, Move(t, there)
    PROVE  /\ place[t] \in Waiting /\ there \notin Waiting =>
                Cardinality(InWait') = Cardinality(InWait) - 1
           /\ place[t] \notin Waiting /\ there \in Waiting =>
                Cardinality(InWait') = Cardinality(InWait) + 1
           /\ (place[t] \in Waiting <=> there \in Waiting) => InWait' = InWait
<1> USE DEF Types, ThreadTypes, Move, InWait, Waiting
<1>1. CASE place[t] \in Waiting /\ there \notin Waiting
  <2>1. InWait' = InWait \ {t} /\ t \in InWait
    BY <1>1
  <2> QED BY <1>1, <2>1, OneMore
<1>2. CASE place[t] \notin Waiting /\ there \in Waiting
  <2>1. InWait' = InWait \cup {t} /\ t \notin InWait
    BY <1>2
  <2> QED BY <1>2, <2>1, OneMore
<1>3. CASE place[t] \in Waiting <=> there \in Waiting
  BY <1>3
<1> QED BY <1>1, <1>2, <1>3

LEMMA IdleStep == Sane /\ IdleIsExact /\ [Next]_vars => IdleIsExact'
<1> SUFFICES ASSUME Sane, IdleIsExact, [Next]_vars PROVE IdleIsExact' OBVIOUS
<1> USE DEF Sane, IdleIsExact, Waiting
<1>0. InWait \in SUBSET Workers /\ Cardinality(InWait) \in Nat
  BY WorkersFinite DEF InWait
<1>1. CASE idle' = idle /\ InWait' = InWait
  BY <1>1
<1>2. CASE UNCHANGED <<place, idle>>
  BY <1>1, <1>2 DEF InWait
<1> USE DEF Places
<1>3. CASE Listen
  <2>1. InWait = {} /\ InWait' = {}
    BY <1>3 DEF Listen, Construct, InWait, ListInv, NoThreadOutlivesListen
  <2> QED BY <1>1, <1>3, <2>1 DEF Listen, Construct
<1>4. CASE Accept
  <2>1. idle' = idle
    BY <1>4 DEF Accept, Enqueue
  <2> QED BY <1>1, <1>2, <1>4, <2>1, SpawnedIsNew, WaitMoves DEF Workers
<1>5. CASE Notify
  <2>1. idle' = idle
    BY <1>5 DEF Notify, NotifyOne
  <2>2. UNCHANGED place \/ \E t \in Asleep : Move(t, "woken")
    BY <1>5 DEF Notify, NotifyOne
  <2> QED BY <1>1, <1>2, <2>1, <2>2, WaitMoves DEF Asleep
<1>6. CASE Shutdown
  <2>1. idle' = idle
    BY <1>6 DEF Shutdown, SetShutdown, NotifyAll, TakeDynamic, CleanUp
  <2>2. InWait' = InWait
    BY <1>6 DEF Shutdown, SetShutdown, NotifyAll, TakeDynamic, CleanUp, Asleep, InWait
  <2> QED BY <1>1, <2>1, <2>2
<1>7. CASE BindFails \/ GiveUp \/ AcceptFails
  BY <1>2, <1>7 DEF BindFails, GiveUp, AcceptFails
<1>8. ASSUME NEW t \in Workers, Worker(t) \/ Wait(t) PROVE IdleIsExact'
  <2>1. CASE Take(t) \/ Quit(t)
    <3>1. PICK there \in {"running", "leaving"} : Move(t, there)
      BY <2>1 DEF Take, Quit
    <3>2. Looks(t) /\ Uncount(t)
      BY <2>1 DEF Take, Quit
    <3>3. CASE place[t] = "awake"
      BY <1>1, <3>1, <3>2, <3>3, WaitMoves DEF Uncount
    <3>4. CASE place[t] \in {"woken", "timedOut"}
      BY <1>0, <3>1, <3>2, <3>4, WaitMoves DEF Uncount
    <3> QED BY <3>2, <3>3, <3>4 DEF Looks
  <2>2. CASE Sleep(t)
    <3>1. CASE place[t] = "awake"
      BY <1>0, <2>2, <3>1, WaitMoves DEF Sleep
    <3>2. CASE place[t] = "woken"
      BY <1>1, <2>2, <3>2, WaitMoves DEF Sleep
    <3> QED BY <2>2, <3>1, <3>2 DEF Sleep
  <2>3. CASE Retire(t)
    BY <1>0, <2>3, WaitMoves DEF Retire
  <2>4. CASE Linger(t) \/ End(t)
    <3>1. idle' = idle /\ place[t] \in {"lingering", "leaving"}
      BY <2>4 DEF Linger, End
    <3>2. \E there \in {"leaving", "awake", "ended"} : Move(t, there)
      BY <2>4 DEF Linger, End
    <3> QED BY <1>1, <3>1, <3>2, WaitMoves
  <2>5. CASE Answer(t)
    BY <1>2, <2>5 DEF Answer
  <2>6. CASE HangUp(t)
    <3>1. idle' = idle /\ place[t] = "running"
      BY <2>6 DEF HangUp, Return
    <3>2. \E there \in {"lingering", "awake"} : Move(t, there)
      BY <2>6 DEF HangUp, Return
    <3> QED BY <1>1, <3>1, <3>2, WaitMoves
  <2>7. CASE Wait(t)
    <3>1. idle' = idle /\ place[t] = "asleep"
      BY <2>7 DEF Wait, Stir, TimeOut
    <3>2. \E there \in {"woken", "timedOut"} : Move(t, there)
      BY <2>7 DEF Wait, Stir, TimeOut
    <3> QED BY <1>1, <3>1, <3>2, WaitMoves
  <2> QED BY <1>8, <2>1, <2>2, <2>3, <2>4, <2>5, <2>6, <2>7 DEF Worker
<1>9. ASSUME NEW c \in Clients, Ask(c) \/ Connect(c) PROVE IdleIsExact'
  BY <1>2, <1>9 DEF Ask, Connect
<1>10. CASE UNCHANGED vars
  BY <1>2, <1>10 DEF vars
<1> QED BY <1>3, <1>4, <1>5, <1>6, <1>7, <1>8, <1>9, <1>10 DEF Next, Main

----------------------------------------------------------------------------
(* No job beside a sleeper *)

Attentive == {"awake", "woken", "timedOut", "lingering"}

\* The threads that will look at the queue without being told to.
Lookers == {t \in Workers : Looks(t) \/ place[t] = "lingering"}

LEMMA LookerMoves ==
    ASSUME Types, NEW t \in Workers, NEW there \in Places, Move(t, there)
    PROVE  /\ place[t] \in Attentive /\ there \notin Attentive =>
                Cardinality(Lookers') = Cardinality(Lookers) - 1
           /\ place[t] \notin Attentive /\ there \in Attentive =>
                Cardinality(Lookers') = Cardinality(Lookers) + 1
           /\ (place[t] \in Attentive <=> there \in Attentive) => Lookers' = Lookers
           /\ there # "asleep" => Asleep' \subseteq Asleep
<1> USE DEF Types, ThreadTypes, Move, Lookers, Looks, Attentive, Asleep
<1>1. CASE place[t] \in Attentive /\ there \notin Attentive
  <2>1. Lookers' = Lookers \ {t} /\ t \in Lookers
    BY <1>1
  <2> QED BY <1>1, <2>1, OneMore
<1>2. CASE place[t] \notin Attentive /\ there \in Attentive
  <2>1. Lookers' = Lookers \cup {t} /\ t \notin Lookers
    BY <1>2
  <2> QED BY <1>2, <2>1, OneMore
<1>3. CASE place[t] \in Attentive <=> there \in Attentive
  BY <1>3
<1> QED BY <1>1, <1>2, <1>3

Told == IF server = "notify" THEN 1 ELSE 0

LEMMA SleeperStep == Sane /\ NoJobBesideASleeper /\ [Next]_vars => NoJobBesideASleeper'
<1> SUFFICES ASSUME Sane, NoJobBesideASleeper, [Next]_vars PROVE NoJobBesideASleeper' OBVIOUS
<1> USE DEF Sane, Attentive
<1>0. /\ Lookers \in SUBSET Workers /\ Cardinality(Lookers) \in Nat
      /\ Cardinality(Lookers') \in Nat
      /\ Told \in Nat /\ Told' \in Nat /\ Len(jobs) \in Nat
      /\ Asleep # {} => Len(jobs) <= Cardinality(Lookers) + Told
  BY WorkersFinite DEF Lookers, Told, NoJobBesideASleeper, NoLostWakeup, Types, QueueTypes
<1>1. SUFFICES Asleep' # {} => Len(jobs') <= Cardinality(Lookers') + Told'
  BY DEF Lookers, Told, NoJobBesideASleeper, NoLostWakeup
<1>2. CASE jobs' = <<>>
  BY <1>0, <1>2
<1>3. CASE Lookers' = Lookers /\ Asleep' \subseteq Asleep /\ jobs' = jobs /\ Told' = Told
  BY <1>0, <1>3
<1>4. CASE UNCHANGED <<place, jobs>> /\ Told' = Told
  BY <1>3, <1>4 DEF Lookers, Looks, Asleep
<1> USE DEF Places
<1>5. CASE Listen
  <2>1. Asleep' = {}
    BY <1>5 DEF Listen, Construct, Asleep
  <2> QED BY <2>1
<1>6. CASE Accept
  <2>1. jobs' = Append(jobs, Head(backlog)) /\ Told = 0 /\ Told' = 1
    BY <1>6 DEF Accept, Enqueue, Told
  <2>2. Len(jobs') = Len(jobs) + 1
    BY <2>1, <1>6 DEF Accept, Types, QueueTypes, NetTypes
  <2>3. Cardinality(Lookers') >= Cardinality(Lookers) /\ Asleep' \subseteq Asleep
    <3>1. CASE UNCHANGED place
      BY <1>0, <3>1 DEF Lookers, Looks, Asleep
    <3>2. CASE \E t \in Dynamic \ dynamic : place[t] = "ended" /\ Move(t, "awake")
      BY <1>0, <3>2, LookerMoves DEF Workers
    <3> QED BY <1>6, <3>1, <3>2, SpawnedIsNew
  <2> QED BY <1>0, <2>1, <2>2, <2>3
<1>7. CASE Notify
  <2>1. jobs' = jobs /\ Told = 1 /\ Told' = 0
    BY <1>7 DEF Notify, NotifyOne, Told
  <2>2. CASE Asleep = {}
    BY <1>7, <2>2 DEF Notify, NotifyOne, Asleep
  <2>3. CASE \E t \in Asleep : Move(t, "woken")
    <3>1. Cardinality(Lookers') = Cardinality(Lookers) + 1 /\ Asleep # {}
      BY <2>3, LookerMoves DEF Asleep
    <3> QED BY <1>0, <2>1, <3>1
  <2> QED BY <1>7, <2>2, <2>3 DEF Notify, NotifyOne
<1>8. CASE Shutdown
  <2>1. Told' = Told /\ jobs' = jobs
    BY <1>8 DEF Shutdown, SetShutdown, NotifyAll, TakeDynamic, CleanUp, Told
  <2>2. UNCHANGED place \/ Asleep' = {}
    BY <1>8 DEF Shutdown, SetShutdown, NotifyAll, TakeDynamic, CleanUp, Asleep, Types, ThreadTypes
  <2> QED BY <1>4, <2>1, <2>2
<1>9. CASE BindFails \/ GiveUp \/ AcceptFails
  BY <1>4, <1>9 DEF BindFails, GiveUp, AcceptFails, Told
<1>10. ASSUME NEW t \in Workers, Worker(t) \/ Wait(t)
       PROVE  Asleep' # {} => Len(jobs') <= Cardinality(Lookers') + Told'
  <2>0. Told' = Told
    BY <1>10 DEF Worker, Wait, Answer, HangUp, Told
  <2>1. CASE Take(t)
    <3>1. Len(jobs') = Len(jobs) - 1 /\ Len(jobs) > 0
      BY <2>1 DEF Take, Types, QueueTypes
    <3>2. Cardinality(Lookers') = Cardinality(Lookers) - 1 /\ Asleep' \subseteq Asleep
      BY <2>1, LookerMoves DEF Take, Looks
    <3> QED BY <1>0, <2>0, <3>1, <3>2
  <2>2. CASE Sleep(t) \/ Retire(t) \/ Quit(t)
    BY <1>2, <2>2 DEF Sleep, Retire, Quit, HasWork
  <2>3. CASE Linger(t)
    <3>1. CASE jobs = <<>>
      BY <1>2, <2>3, <3>1 DEF Linger
    <3>2. CASE jobs # <<>>
      BY <1>3, <2>0, <2>3, <3>2, LookerMoves DEF Linger
    <3> QED BY <3>1, <3>2
  <2>4. CASE End(t)
    BY <1>3, <2>0, <2>4, LookerMoves DEF End
  <2>5. CASE Answer(t)
    BY <1>4, <2>0, <2>5 DEF Answer
  <2>6. CASE HangUp(t)
    <3>1. jobs' = jobs /\ \E there \in {"lingering", "awake"} : Move(t, there)
      BY <2>6 DEF HangUp, Return
    <3>2. place[t] = "running"
      BY <2>6 DEF HangUp, Return
    <3>3. Cardinality(Lookers') = Cardinality(Lookers) + 1 /\ Asleep' \subseteq Asleep
      BY <3>1, <3>2, LookerMoves
    <3> QED BY <1>0, <2>0, <3>1, <3>3
  <2>7. CASE Wait(t)
    <3>1. jobs' = jobs /\ \E there \in {"woken", "timedOut"} : Move(t, there)
      BY <2>7 DEF Wait, Stir, TimeOut
    <3>2. place[t] = "asleep"
      BY <2>7 DEF Wait, Stir, TimeOut
    <3>3. Cardinality(Lookers') = Cardinality(Lookers) + 1 /\ Asleep' \subseteq Asleep
      BY <3>1, <3>2, LookerMoves
    <3> QED BY <1>0, <2>0, <3>1, <3>3
  <2> QED BY <1>10, <2>1, <2>2, <2>3, <2>4, <2>5, <2>6, <2>7 DEF Worker
<1>11. ASSUME NEW c \in Clients, Ask(c) \/ Connect(c)
       PROVE  Asleep' # {} => Len(jobs') <= Cardinality(Lookers') + Told'
  BY <1>4, <1>11 DEF Ask, Connect, Told
<1>12. CASE UNCHANGED vars
  BY <1>4, <1>12 DEF vars, Told
<1> QED BY <1>5, <1>6, <1>7, <1>8, <1>9, <1>10, <1>11, <1>12 DEF Next, Main

----------------------------------------------------------------------------
(* The remaining types *)

LEMMA MainStep == Types /\ HandInv /\ [Next]_vars => MainTypes' /\ NetTypes' /\ FlagTypes'
<1> SUFFICES ASSUME Types, HandInv, [Next]_vars PROVE MainTypes' /\ NetTypes' /\ FlagTypes'
  OBVIOUS
<1> USE DEF Types
<1>0. CASE UNCHANGED vars
  BY <1>0 DEF vars, MainTypes, NetTypes, FlagTypes
<1>1. CASE BindFails \/ Listen \/ GiveUp
  <2>1. UNCHANGED net /\ UNCHANGED stopping /\ (decommissioned' = TRUE \/ UNCHANGED decommissioned)
    BY <1>1 DEF BindFails, Listen, GiveUp, Construct
  <2>2. MainTypes'
    <3>1. UNCHANGED taken /\ server' \in {"bind", "accept", "returned"}
      BY <1>1 DEF BindFails, Listen, GiveUp
    <3>2. port' \in 1 .. LastPort + 1 /\ (server' = "accept" => port' \in Ports)
      BY <1>1, WebAssumption DEF BindFails, Listen, GiveUp, MainTypes, Ports
    <3> QED BY <3>1, <3>2 DEF MainTypes, ServerPlaces, Ports
  <2> QED BY <2>1, <2>2 DEF NetTypes, FlagTypes
<1>2. CASE Accept \/ Notify \/ AcceptFails
  <2>1. FlagTypes' /\ MainTypes'
    BY <1>2 DEF Accept, Enqueue, Notify, NotifyOne, AcceptFails, MainTypes, FlagTypes, ServerPlaces
  <2>2. NetTypes'
    <3>1. backlog' \in Seq(Jobs)
      <4>1. CASE Accept
        BY <4>1 DEF Accept, NetTypes
      <4>2. CASE AcceptFails
        BY <4>2 DEF AcceptFails
      <4>3. CASE Notify
        BY <4>3 DEF Notify, NetTypes
      <4> QED BY <1>2, <4>1, <4>2, <4>3
    <3>2. UNCHANGED <<asks, left>>
      BY <1>2 DEF Accept, Notify, AcceptFails
    <3> QED BY <3>1, <3>2 DEF NetTypes
  <2> QED BY <2>1, <2>2
<1>3. CASE Shutdown
  <2>1. UNCHANGED net /\ MainTypes'
    <3>1. UNCHANGED <<net, taken>> /\ server' \in ServerPlaces /\ port \in Ports
      BY <1>3 DEF Shutdown, MainTypes, ServerPlaces
    <3>2. port' \in 1 .. LastPort + 1 /\ (server' = "bind" \/ UNCHANGED port)
      BY <1>3, <3>1, WebAssumption DEF Shutdown, MainTypes, Ports
    <3> QED BY <3>1, <3>2 DEF MainTypes
  <2>2. stopping' \in BOOLEAN /\ decommissioned' \in BOOLEAN
    BY <1>3 DEF Shutdown, SetShutdown, NotifyAll, TakeDynamic, CleanUp, FlagTypes
  <2> QED BY <2>1, <2>2 DEF NetTypes, FlagTypes
<1>4. ASSUME NEW t \in Workers, Worker(t) \/ Wait(t) PROVE MainTypes' /\ NetTypes' /\ FlagTypes'
  <2>1. UNCHANGED <<web, stopping, backlog>>
    BY <1>4 DEF Worker, Wait, Take, Sleep, Retire, Quit, Linger, End, Answer, HangUp, Return,
                Stir, TimeOut
  <2>2. asks' \subseteq asks /\ left' \in [Jobs -> 0 .. KeepAliveMax]
    <3>1. CASE Answer(t)
      BY <3>1, WebAssumption DEF Answer, NetTypes
    <3>2. CASE HangUp(t)
      <4>1. KeepAliveMax \in 0 .. KeepAliveMax
        BY WebAssumption
      <4>2. UNCHANGED asks /\ left' = [left EXCEPT ![running[t]] = KeepAliveMax]
        BY <3>2 DEF HangUp
      <4> QED BY <4>1, <4>2 DEF NetTypes
    <3>3. CASE UNCHANGED net
      BY <3>3 DEF NetTypes
    <3> QED BY <1>4, <3>1, <3>2, <3>3 DEF Worker, Wait
  <2> QED BY <2>1, <2>2 DEF MainTypes, NetTypes, FlagTypes
<1>5. ASSUME NEW c \in Clients, Ask(c) \/ Connect(c) PROVE MainTypes' /\ NetTypes' /\ FlagTypes'
  <2>1. UNCHANGED <<web, stopping, left>>
    BY <1>5 DEF Ask, Connect
  <2>2. MainTypes' /\ FlagTypes'
    BY <2>1 DEF MainTypes, FlagTypes
  <2>3. backlog' \in Seq(Jobs) /\ asks' \subseteq Jobs
    <3>1. CASE Ask(c)
      BY <3>1 DEF Ask, NetTypes
    <3>2. CASE Connect(c)
      BY <3>2 DEF Connect, NetTypes
    <3> QED BY <1>5, <3>1, <3>2
  <2> QED BY <2>1, <2>2, <2>3 DEF NetTypes
<1> QED BY <1>0, <1>1, <1>2, <1>3, <1>4, <1>5 DEF Next, Main

LEMMA SaneInductive == Spec => []Sane
<1>1. Init => Sane
  BY TypesInit DEF Sane, Init, PoolInit, ListInv, NoThreadOutlivesListen, Workers
<1>2. Sane /\ [Next]_vars => Sane'
  BY QueueStep, ThreadStep, MainStep, ListStep DEF Sane, Types
<1> QED BY <1>1, <1>2, PTL DEF Spec

LEMMA IdleInductive == Spec => []IdleIsExact
<1>1. Init => IdleIsExact
  <2>1. Init => InWait = {} /\ idle = 0
    BY DEF Init, PoolInit, InWait
  <2> QED BY <2>1, FS_EmptySet DEF IdleIsExact
<1> QED BY <1>1, SaneInductive, IdleStep, PTL DEF Spec

\* The variables keep their types; that the count of idle threads is never negative
\* nor above the number of threads needs that it is exact.
THEOREM WebTypesCorrect == Spec => []WebTypeOK
<1>1. Sane /\ IdleIsExact => WebTypeOK
  <2> SUFFICES ASSUME Sane, IdleIsExact PROVE WebTypeOK OBVIOUS
  <2>1. idle \in 0 .. Cardinality(Workers)
    BY WorkersFinite DEF IdleIsExact, InWait
  <2>2. PoolTypeOK
    BY <2>1 DEF Sane, Types, QueueTypes, ThreadTypes, FlagTypes, PoolTypeOK
  <2> QED BY <2>2 DEF Sane, Types, MainTypes, NetTypes, FlagTypes, ServerPlaces, WebTypeOK
<1> QED BY <1>1, SaneInductive, IdleInductive, PTL

\* The number enqueue reads to decide whether to add a thread is the number of
\* threads in the wait, for any number of threads, time-outs and spurious wake-ups.
THEOREM IdleCountExact == Spec => []IdleIsExact
BY IdleInductive

\* No wake-up is lost: while a thread sleeps, each queued job has a thread that is
\* about to look at the queue, or a notification on its way.
THEOREM NoWakeupLost == Spec => []NoJobBesideASleeper
<1>1. Init => NoJobBesideASleeper
  BY DEF Init, PoolInit, NoJobBesideASleeper, NoLostWakeup, Asleep
<1> QED BY <1>1, SaneInductive, SleeperStep, PTL DEF Spec

\* listen returns only when every thread of its pool has ended, although it joins none
\* but those on its lists: no dynamic thread slips between them.
THEOREM PoolJoined == Spec => []NoThreadOutlivesListen
<1>1. Sane => NoThreadOutlivesListen
  BY DEF Sane, ListInv
<1> QED BY <1>1, SaneInductive, PTL

----------------------------------------------------------------------------
(* The ports *)

\* The loop is past the first port only on a server that is decommissioned, and it
\* came there because the first port was taken or accept had failed.
PortInv ==
    /\ server \notin {"bind", "returned"} => port = 1 /\ 1 \notin taken
    /\ port > 1 => decommissioned \/ server = "returned"
    /\ decommissioned \/ server = "returned" => stopping \/ 1 \in taken
    /\ server = "bind" /\ port = 1 => ~decommissioned
    /\ server \in {"notifyAll", "join", "joinDynamic"} => stopping

LEMMA PortStep == Types /\ PortInv /\ [Next]_vars => PortInv'
<1> SUFFICES ASSUME Types, PortInv, [Next]_vars PROVE PortInv' OBVIOUS
<1> USE DEF Types, PortInv, MainTypes
<1>0. CASE UNCHANGED <<web, stopping>>
  BY <1>0
<1>1. CASE BindFails
  BY <1>1, WebAssumption DEF BindFails, Ports
<1>2. CASE Listen
  BY <1>2 DEF Listen, Construct, Ports
<1>3. CASE GiveUp
  BY <1>3, WebAssumption DEF GiveUp, Ports
<1>4. CASE Accept \/ Notify \/ AcceptFails
  BY <1>4 DEF Accept, Enqueue, Notify, NotifyOne, AcceptFails
<1>5. CASE Shutdown
  BY <1>5 DEF Shutdown, SetShutdown, NotifyAll, TakeDynamic, CleanUp
<1>6. ASSUME NEW t \in Workers, Worker(t) \/ Wait(t) PROVE UNCHANGED <<web, stopping>>
  BY <1>6 DEF Worker, Wait, Take, Sleep, Retire, Quit, Linger, End, Answer, HangUp, Return,
              Stir, TimeOut
<1>7. ASSUME NEW c \in Clients, Ask(c) \/ Connect(c) PROVE UNCHANGED <<web, stopping>>
  BY <1>7 DEF Ask, Connect
<1>8. CASE UNCHANGED vars
  BY <1>0, <1>8 DEF vars
<1> QED BY <1>0, <1>1, <1>2, <1>3, <1>4, <1>5, <1>6, <1>7, <1>8 DEF Next, Main

LEMMA PortInductive == Spec => []PortInv
<1>1. Init => PortInv
  BY DEF Init, PortInv
<1>2. Sane => Types
  BY DEF Sane
<1> QED BY <1>1, <1>2, SaneInductive, PortStep, PTL DEF Spec

\* The exact cause of the violation of GivesUpOnlyWhenAllTaken: with the first port
\* taken the server never listens, free as the others may be, and of itself main gives
\* up for no other reason.
THEOREM FirstPortDecides ==
    Spec => [](/\ 1 \in taken => server \in {"bind", "returned"}
               /\ server = "returned" /\ ~stopping => 1 \in taken)
<1>1. Types /\ PortInv => /\ 1 \in taken => server \in {"bind", "returned"}
                          /\ server = "returned" /\ ~stopping => 1 \in taken
  BY DEF PortInv
<1>2. Sane => Types
  BY DEF Sane
<1> QED BY <1>1, <1>2, SaneInductive, PortInductive, PTL
=============================================================================
