----------------------------- MODULE QueueProofs -----------------------------
(***************************************************************************)
(* WebServer implements JobQueue, for every number of threads, clients and *)
(* ports: a connection is served once, in the order of arrival, and none   *)
(* that was accepted is dropped when the pool is shut down.                *)
(***************************************************************************)
EXTENDS PoolProofs

USE DEF pool, lists, web, net, Clients

(* Sequences without repetition *)

Distinct(q) == \A i, j \in 1 .. Len(q) : i # j => q[i] # q[j]

LEMMA TailOfDistinct ==
    ASSUME NEW q \in Seq(Jobs), q # <<>>
    PROVE  /\ Head(q) \in InQueue(q) /\ InQueue(q) = {Head(q)} \cup InQueue(Tail(q))
           /\ Distinct(q) => Distinct(Tail(q)) /\ Head(q) \notin InQueue(Tail(q))
<1>1. /\ Tail(q) \in Seq(Jobs) /\ Len(q) \in Nat \ {0} /\ Len(Tail(q)) = Len(q) - 1
      /\ Head(q) = q[1] /\ \A i \in 1 .. Len(q) - 1 : Tail(q)[i] = q[i + 1]
  OBVIOUS
<1>2. \A i \in 2 .. Len(q) : i - 1 \in 1 .. Len(q) - 1 /\ Tail(q)[i - 1] = q[i]
  BY <1>1
<1>3. InQueue(q) = {Head(q)} \cup InQueue(Tail(q))
  <2>1. ASSUME NEW x \in InQueue(q) PROVE x = Head(q) \/ x \in InQueue(Tail(q))
    <3>1. PICK i \in 1 .. Len(q) : x = q[i]
      BY DEF InQueue
    <3>2. CASE i = 1
      BY <1>1, <3>1, <3>2
    <3>3. CASE i # 1
      BY <1>1, <1>2, <3>1, <3>3 DEF InQueue
    <3> QED BY <3>2, <3>3
  <2>2. ASSUME NEW x \in InQueue(Tail(q)) PROVE x \in InQueue(q)
    BY <1>1, <2>2 DEF InQueue
  <2>3. Head(q) \in InQueue(q)
    BY <1>1 DEF InQueue
  <2> QED BY <2>1, <2>2, <2>3
<1>4. ASSUME Distinct(q) PROVE Distinct(Tail(q)) /\ Head(q) \notin InQueue(Tail(q))
  <2>1. Distinct(Tail(q))
    BY <1>1, <1>4 DEF Distinct
  <2>2. Head(q) \notin InQueue(Tail(q))
    BY <1>1, <1>4 DEF Distinct, InQueue
  <2> QED BY <2>1, <2>2
<1> QED BY <1>3, <1>4

LEMMA AppendDistinct ==
    ASSUME NEW q \in Seq(Jobs), NEW c \in Jobs
    PROVE  /\ InQueue(Append(q, c)) = InQueue(q) \cup {c}
           /\ Distinct(q) /\ c \notin InQueue(q) => Distinct(Append(q, c))
<1>1. /\ Len(Append(q, c)) = Len(q) + 1 /\ Len(q) \in Nat
      /\ Append(q, c)[Len(q) + 1] = c /\ \A i \in 1 .. Len(q) : Append(q, c)[i] = q[i]
  OBVIOUS
<1>2. \A i \in 1 .. Len(q) + 1 : i \in 1 .. Len(q) \/ i = Len(q) + 1
  BY <1>1
<1> QED BY <1>1, <1>2 DEF InQueue, Distinct

----------------------------------------------------------------------------
(* A connection is in one place *)

Alone ==
    /\ Distinct(jobs) /\ Distinct(backlog)
    /\ \A t, u \in Workers : running[t] = running[u] => t = u \/ running[t] = NoJob
    /\ InQueue(jobs) \cap Serving = {}
    /\ InQueue(backlog) \cap (InQueue(jobs) \cup Serving) = {}

\* A base thread leaves its loop only in a shutdown that has left no job.
Quitting ==
    /\ server \in {"accept", "notify", "shutdown"} => ~stopping
    /\ server \in {"notifyAll", "join", "joinDynamic"} => stopping
    /\ server = "bind" /\ stopping => decommissioned
    /\ server \notin {"bind", "returned"} =>
         \A t \in Base : place[t] \in {"leaving", "ended"} => stopping /\ jobs = <<>>

QueueInv == Sane /\ Alone /\ Quitting

LEMMA TakeServes ==
    ASSUME Sane, NEW t \in Workers, Take(t)
    PROVE  /\ Serving' = Serving \cup {Head(jobs)}
           /\ Cardinality(Serving) < Cardinality(Workers)
<1> DEFINE Others == Workers \ {t}
           hands  == {running[u] : u \in Others}
           f      == [u \in Others |-> running[u]]
<1>1. running[t] = NoJob /\ running' = [running EXCEPT ![t] = Head(jobs)] /\ Head(jobs) \in Jobs
  BY DEF Take, Looks, Sane, HandInv, Types, QueueTypes
<1>2. Head(jobs) # NoJob
  BY <1>1, PoolAssumption
<1>3. Serving' = Serving \cup {Head(jobs)}
  BY <1>1, <1>2 DEF Serving, Sane, Types, ThreadTypes
<1>4. f \in Surjection(Others, hands)
  BY DEF Surjection
<1>5. IsFiniteSet(Others) /\ Cardinality(Others) = Cardinality(Workers) - 1
  BY WorkersFinite, FS_RemoveElement
<1>6. IsFiniteSet(hands) /\ Cardinality(hands) <= Cardinality(Others)
  <2> HIDE DEF Others, hands, f
  <2> QED BY <1>4, <1>5, FS_Surjection
<1>7. Serving \in SUBSET hands
  BY <1>1 DEF Serving
<1>8. Cardinality(Serving) <= Cardinality(hands) /\ Cardinality(Serving) \in Nat
      /\ Cardinality(hands) \in Nat
  <2> HIDE DEF hands
  <2> QED BY <1>6, <1>7, FS_Subset, FS_CardinalityType
<1> QED BY <1>3, <1>5, <1>6, <1>8, WorkersFinite

LEMMA HangUpFrees ==
    ASSUME Sane, Alone, NEW t \in Workers, HangUp(t)
    PROVE  running[t] \in Serving /\ Serving' = Serving \ {running[t]}
<1>1. running' = [running EXCEPT ![t] = NoJob] /\ running[t] # NoJob
  BY DEF HangUp, Return
<1>2. \A u \in Workers : u # t => running[u] # running[t] /\ running'[u] = running[u]
  BY <1>1 DEF Alone, Sane, Types, ThreadTypes
<1>3. running'[t] = NoJob
  BY <1>1 DEF Sane, Types, ThreadTypes
<1> QED BY <1>1, <1>2, <1>3 DEF Serving

LEMMA AloneStep == QueueInv /\ [Next]_vars => Alone'
<1> SUFFICES ASSUME QueueInv, [Next]_vars PROVE Alone' OBVIOUS
<1> USE DEF QueueInv, Sane
<1>0. CASE UNCHANGED <<jobs, backlog, running>>
  <2>1. Serving' = Serving /\ InQueue(jobs)' = InQueue(jobs) /\ InQueue(backlog)' = InQueue(backlog)
    BY <1>0 DEF Serving, InQueue
  <2>2. Distinct(jobs)' /\ Distinct(backlog)'
    BY <1>0 DEF Alone, Distinct
  <2>3. \A t, u \in Workers : running'[t] = running'[u] => t = u \/ running'[t] = NoJob
    BY <1>0 DEF Alone
  <2> QED BY <2>1, <2>2, <2>3 DEF Alone
<1>1. CASE BindFails \/ Listen \/ GiveUp \/ Notify \/ Shutdown
  BY <1>0, <1>1 DEF BindFails, Listen, Construct, GiveUp, Notify, NotifyOne, Shutdown, SetShutdown,
              NotifyAll, TakeDynamic, CleanUp
<1>2. CASE AcceptFails
  <2>1. InQueue(<<>>) = {} /\ Distinct(<<>>)
    BY DEF InQueue, Distinct
  <2>2. backlog' = <<>> /\ UNCHANGED <<jobs, running>>
    BY <1>2 DEF AcceptFails
  <2> QED BY <2>1, <2>2 DEF Alone, Serving
<1>3. CASE Accept
  <2>1. /\ backlog # <<>> /\ backlog \in Seq(Jobs) /\ Head(backlog) \in Jobs
        /\ jobs \in Seq(Jobs) /\ jobs' = Append(jobs, Head(backlog))
        /\ backlog' = Tail(backlog) /\ UNCHANGED running
    BY <1>3 DEF Accept, Enqueue, Types, QueueTypes, NetTypes
  <2>2. Serving' = Serving
    BY <2>1 DEF Serving
  <2>3. InQueue(jobs') = InQueue(jobs) \cup {Head(backlog)}
    BY <2>1, AppendDistinct
  <2>4. InQueue(backlog) = {Head(backlog)} \cup InQueue(backlog')
    BY <2>1, TailOfDistinct
  <2>5. Distinct(backlog') /\ Head(backlog) \notin InQueue(backlog')
    BY <2>1, TailOfDistinct DEF Alone
  <2>6. Distinct(jobs')
    BY <2>1, <2>4, AppendDistinct DEF Alone
  <2> QED BY <2>1, <2>2, <2>3, <2>4, <2>5, <2>6 DEF Alone
<1>4. ASSUME NEW t \in Workers, Take(t), UNCHANGED net PROVE Alone'
  <2>1. jobs \in Seq(Jobs) /\ jobs # <<>> /\ jobs' = Tail(jobs) /\ UNCHANGED backlog
    BY <1>4 DEF Take, Types, QueueTypes
  <2>2. Serving' = Serving \cup {Head(jobs)}
    BY <1>4, TakeServes
  <2>3. /\ InQueue(jobs) = {Head(jobs)} \cup InQueue(jobs') /\ Distinct(jobs')
        /\ Head(jobs) \notin InQueue(jobs')
    BY <2>1, TailOfDistinct DEF Alone
  <2>4. running' = [running EXCEPT ![t] = Head(jobs)]
    BY <1>4 DEF Take
  <2>5. \A u \in Workers : running[u] # Head(jobs) \/ running[u] = NoJob
    BY <2>3 DEF Alone, Serving
  <2>6. \A u, v \in Workers : running'[u] = running'[v] => u = v \/ running'[u] = NoJob
    BY <2>4, <2>5 DEF Alone, Types, ThreadTypes
  <2>7. InQueue(backlog') = InQueue(backlog) /\ Distinct(backlog')
    BY <2>1 DEF Alone
  <2> QED BY <2>2, <2>3, <2>6, <2>7 DEF Alone
<1>5. ASSUME NEW t \in Workers, HangUp(t) PROVE Alone'
  <2>1. Serving' = Serving \ {running[t]} /\ UNCHANGED <<jobs, backlog>>
    BY <1>5, HangUpFrees DEF HangUp, Return
  <2>2. running' = [running EXCEPT ![t] = NoJob]
    BY <1>5 DEF HangUp, Return
  <2>3. \A u, v \in Workers : running'[u] = running'[v] => u = v \/ running'[u] = NoJob
    BY <2>2 DEF Alone, Types, ThreadTypes
  <2> QED BY <2>1, <2>3 DEF Alone
<1>6. ASSUME NEW t \in Workers, Worker(t) \/ Wait(t) PROVE Alone'
  <2>1. CASE (Sleep(t) \/ Retire(t) \/ Quit(t) \/ Linger(t) \/ End(t)) /\ UNCHANGED net
    BY <1>0, <2>1 DEF Sleep, Retire, Quit, Linger, End
  <2>2. CASE Answer(t) \/ Wait(t)
    BY <1>0, <2>2 DEF Answer, Wait, Stir, TimeOut
  <2> QED BY <1>4, <1>5, <1>6, <2>1, <2>2 DEF Worker
<1>7. ASSUME NEW c \in Clients, Connect(c) PROVE Alone'
  <2>1. /\ backlog \in Seq(Jobs) /\ backlog' = Append(backlog, c)
        /\ UNCHANGED <<jobs, running>>
    BY <1>7 DEF Connect, Types, NetTypes
  <2>2. c \notin InQueue(backlog) \cup InQueue(jobs) \cup Serving
    BY <1>7 DEF Connect, Away
  <2>3. InQueue(backlog') = InQueue(backlog) \cup {c} /\ Distinct(backlog')
    BY <2>1, <2>2, AppendDistinct DEF Alone
  <2>4. Serving' = Serving
    BY <2>1 DEF Serving
  <2> QED BY <2>1, <2>2, <2>3, <2>4 DEF Alone
<1>8. ASSUME NEW c \in Clients, Ask(c) PROVE Alone'
  BY <1>0, <1>8 DEF Ask
<1>9. CASE UNCHANGED vars
  BY <1>0, <1>9 DEF vars
<1> QED BY <1>1, <1>2, <1>3, <1>6, <1>7, <1>8, <1>9 DEF Next, Main

LEMMA QuittingStep == QueueInv /\ [Next]_vars => Quitting'
<1> SUFFICES ASSUME QueueInv, [Next]_vars PROVE Quitting' OBVIOUS
<1> USE DEF QueueInv, Sane, Quitting
<1>0. CASE UNCHANGED <<jobs, place, stopping, server, decommissioned>>
  BY <1>0
<1>1. ASSUME NEW t \in Workers, NEW there, Move(t, there), there \notin {"leaving", "ended"},
             UNCHANGED <<stopping, server, decommissioned>>, jobs = <<>> => jobs' = <<>>
      PROVE  Quitting'
  BY <1>1 DEF Move, Types, ThreadTypes, Workers
<1>2. CASE BindFails \/ GiveUp
  BY <1>2 DEF BindFails, GiveUp
<1>3. CASE Listen
  BY <1>3, PoolAssumption DEF Listen, Construct, Workers, Types, FlagTypes
<1>4. CASE Accept
  <2>1. ~stopping /\ ~stopping' /\ server = "accept" /\ server' = "notify"
    BY <1>4 DEF Accept, Enqueue
  <2>2. \A t \in Base : place[t] \notin {"leaving", "ended"} /\ place'[t] = place[t]
    BY <1>4, <2>1, SpawnedIsNew, PoolAssumption DEF Move, Types, ThreadTypes, Workers
  <2> QED BY <2>1, <2>2
<1>5. CASE Notify
  BY <1>5 DEF Notify, NotifyOne, Asleep, Move, Types, ThreadTypes, Workers
<1>6. CASE AcceptFails
  BY <1>6 DEF AcceptFails
<1>7. CASE Shutdown
  BY <1>7 DEF Shutdown, SetShutdown, NotifyAll, TakeDynamic, CleanUp, Asleep, Types, ThreadTypes,
              Workers
<1>8. ASSUME NEW t \in Workers, Worker(t) \/ Wait(t) PROVE Quitting'
  <2>0. UNCHANGED <<stopping, server, decommissioned>>
    BY <1>8 DEF Worker, Wait, Take, Sleep, Retire, Quit, Linger, End, Answer, HangUp, Return,
                Stir, TimeOut
  <2>1. CASE Take(t)
    BY <1>1, <2>0, <2>1 DEF Take
  <2>2. CASE Sleep(t)
    BY <1>1, <2>0, <2>2 DEF Sleep
  <2>3. CASE Quit(t)
    BY <2>0, <2>3 DEF Quit, Move, Types, ThreadTypes, Workers
  <2>4. CASE Retire(t) \/ Linger(t)
    <3>1. t \in Dynamic /\ UNCHANGED jobs /\ (Move(t, "leaving") \/ Move(t, "awake"))
      BY <2>4 DEF Retire, Linger, Types, ThreadTypes
    <3> QED BY <2>0, <3>1, PoolAssumption DEF Move, Types, ThreadTypes, Workers
  <2>5. CASE End(t)
    BY <2>0, <2>5 DEF End, Move, Types, ThreadTypes, Workers
  <2>6. CASE Answer(t)
    BY <1>0, <2>0, <2>6 DEF Answer
  <2>7. CASE HangUp(t)
    BY <1>1, <2>0, <2>7 DEF HangUp, Return
  <2>8. CASE Wait(t)
    BY <1>1, <2>0, <2>8 DEF Wait, Stir, TimeOut
  <2> QED BY <1>8, <2>1, <2>2, <2>3, <2>4, <2>5, <2>6, <2>7, <2>8 DEF Worker
<1>9. ASSUME NEW c \in Clients, Ask(c) \/ Connect(c) PROVE Quitting'
  BY <1>0, <1>9 DEF Ask, Connect
<1>10. CASE UNCHANGED vars
  BY <1>0, <1>10 DEF vars
<1> QED BY <1>2, <1>3, <1>4, <1>5, <1>6, <1>7, <1>8, <1>9, <1>10 DEF Next, Main

LEMMA QueueInductive == Spec => []QueueInv
<1>1. Init => Alone /\ Quitting
  <2> SUFFICES ASSUME Init PROVE Alone /\ Quitting OBVIOUS
  <2> USE DEF Init, PoolInit
  <2>1. InQueue(<<>>) = {} /\ Distinct(<<>>)
    BY DEF InQueue, Distinct
  <2>2. Serving = {}
    BY DEF Serving
  <2>3. Alone
    BY <2>1, <2>2 DEF Alone
  <2> QED BY <2>3 DEF Quitting
<1>2. Sane /\ Alone /\ Quitting /\ [Next]_vars => Alone' /\ Quitting'
  BY AloneStep, QuittingStep DEF QueueInv
<1>3. Sane /\ Alone /\ Quitting <=> QueueInv
  BY DEF QueueInv
<1> QED BY <1>1, <1>2, <1>3, SaneInductive, PTL DEF Spec

\* A connection is with one thread, or waits, and not both.
THEOREM ConnectionsServedOnce == Spec => []ServedOnce
<1>1. QueueInv => ServedOnce
  BY DEF QueueInv, Alone, ServedOnce
<1> QED BY <1>1, QueueInductive, PTL

\* The flag is set before the notification and looked at under the lock a sleeper gives
\* up: once all are woken there is work for every thread, and none sleeps again.
Woken == server \in {"join", "joinDynamic"} => stopping /\ Asleep = {}

LEMMA WokenStep == Sane /\ Quitting /\ Woken /\ [Next]_vars => Woken'
<1> SUFFICES ASSUME Sane, Quitting, Woken, [Next]_vars PROVE Woken' OBVIOUS
<1> USE DEF Sane, Woken, Types, ThreadTypes
<1>0. CASE UNCHANGED <<server, stopping, place>>
  BY <1>0 DEF Asleep
<1>1. CASE BindFails \/ Listen \/ GiveUp \/ Accept \/ Notify \/ AcceptFails
  BY <1>1 DEF BindFails, Listen, GiveUp, Accept, Notify, AcceptFails
<1>2. CASE Shutdown
  <2>1. CASE server = "notifyAll"
    BY <1>2, <2>1 DEF Shutdown, NotifyAll, Asleep, Quitting
  <2>2. CASE server # "notifyAll"
    BY <1>2, <2>2 DEF Shutdown, SetShutdown, TakeDynamic, CleanUp, Asleep
  <2> QED BY <2>1, <2>2
<1>3. ASSUME NEW t \in Workers, Worker(t) \/ Wait(t), server \in {"join", "joinDynamic"}
      PROVE  Woken'
  <2>1. UNCHANGED <<server, stopping>>
    BY <1>3 DEF Worker, Wait, Take, Sleep, Retire, Quit, Linger, End, Answer, HangUp, Return,
                Stir, TimeOut
  <2>2. ~Sleep(t)
    BY <1>3 DEF Sleep, HasWork
  <2>3. UNCHANGED place \/ \E there \in Places \ {"asleep"} : Move(t, there)
    BY <1>3, <2>2 DEF Worker, Wait, Take, Retire, Quit, Linger, End, Answer, HangUp, Return,
                Stir, TimeOut, Places
  <2> QED BY <1>3, <2>1, <2>3 DEF Move, Asleep
<1>4. ASSUME NEW t \in Workers, Worker(t) \/ Wait(t), server \notin {"join", "joinDynamic"}
      PROVE  Woken'
  BY <1>4 DEF Worker, Wait, Take, Sleep, Retire, Quit, Linger, End, Answer, HangUp
<1>5. ASSUME NEW c \in Clients, Ask(c) \/ Connect(c) PROVE Woken'
  BY <1>0, <1>5 DEF Ask, Connect
<1>6. CASE UNCHANGED vars
  BY <1>0, <1>6 DEF vars
<1> QED BY <1>1, <1>2, <1>3, <1>4, <1>5, <1>6 DEF Next, Main

\* Nobody sleeps through a shutdown: every thread that is still there has a step to
\* take.  Of ShutdownEnds only scheduling is left.
THEOREM NobodySleepsThroughShutdown == Spec => []NoSleeperInShutdown
<1>1. Init => Woken
  BY DEF Init, Woken
<1>2. QueueInv => Sane /\ Quitting
  BY DEF QueueInv
<1>3. Woken => NoSleeperInShutdown
  BY DEF Woken, NoSleeperInShutdown
<1> QED BY <1>1, <1>2, <1>3, QueueInductive, WokenStep, PTL DEF Spec

----------------------------------------------------------------------------
(* The refinement *)

Open == ~(stopping /\ server \in {"bind", "returned"})

LEMMA Still ==
    ASSUME UNCHANGED <<jobs, running>>, Open' = Open
    PROVE  UNCHANGED <<jobs, Serving, Open>>
BY DEF Serving

LEMMA MainImplements ==
    ASSUME QueueInv, QueueInv', Main \/ AcceptFails
    PROVE  [Abstract!Next]_<<jobs, Serving, Open>>
<1> USE DEF QueueInv, Sane
<1>1. CASE BindFails \/ Listen \/ GiveUp
  BY <1>1, Still DEF BindFails, Listen, GiveUp, Construct, Open, Quitting
<1>2. CASE Notify \/ AcceptFails
  BY <1>2, Still DEF Notify, NotifyOne, AcceptFails, Open
<1>3. CASE Accept
  <2>1. /\ jobs' = Append(jobs, Head(backlog)) /\ UNCHANGED <<running, stopping>>
        /\ server = "accept" /\ server' = "notify"
    BY <1>3 DEF Accept, Enqueue
  <2>2. Head(backlog) \in Clients /\ Head(backlog) \in InQueue(backlog)
    BY <1>3, TailOfDistinct DEF Accept, Types, NetTypes
  <2>3. Head(backlog) \notin InQueue(jobs) \cup Serving
    BY <2>2 DEF Alone
  <2>4. Open /\ Open' /\ UNCHANGED Serving
    BY <2>1 DEF Open, Serving
  <2> QED BY <2>1, <2>2, <2>3, <2>4 DEF Abstract!Next, Abstract!Submit, Abstract!Busy, InQueue, Open
<1>4. CASE Shutdown
  <2>1. CASE server' # "bind"
    BY <1>4, <2>1, Still DEF Shutdown, SetShutdown, NotifyAll, TakeDynamic, CleanUp, Open
  <2>2. CASE server' = "bind"
    <3>1. server = "joinDynamic" /\ UNCHANGED <<jobs, running, stopping, place>>
      BY <1>4, <2>2 DEF Shutdown, CleanUp
    <3>2. stopping /\ jobs = <<>>
      BY <3>1, PoolAssumption DEF Quitting, ListInv
    <3>3. \A t \in Workers : place[t] = "ended"
      BY <2>2, <3>1 DEF ListInv, NoThreadOutlivesListen
    <3>4. Serving = {} /\ UNCHANGED Serving
      BY <3>1, <3>3 DEF Serving, HandInv
    <3>5. Open /\ Open' = FALSE
      BY <2>2, <3>1, <3>2 DEF Open
    <3> QED BY <3>1, <3>2, <3>4, <3>5 DEF Abstract!Next, Abstract!Shut, Open
  <2> QED BY <2>1, <2>2
<1> QED BY <1>1, <1>2, <1>3, <1>4 DEF Main

LEMMA ThreadImplements ==
    ASSUME QueueInv, NEW t \in Workers, Worker(t) \/ Wait(t)
    PROVE  [Abstract!Next]_<<jobs, Serving, Open>>
<1> USE DEF QueueInv, Sane
<1>0. Open' = Open
  BY DEF Worker, Wait, Take, Sleep, Retire, Quit, Linger, End, Answer, HangUp, Return,
         Stir, TimeOut, Open
<1>1. CASE Take(t)
  <2>1. jobs # <<>> /\ jobs' = Tail(jobs)
    BY <1>1 DEF Take
  <2>2. Serving' = Serving \cup {Head(jobs)} /\ Cardinality(Serving) < Cardinality(Workers)
    BY <1>1, TakeServes
  \* the instance has its own copy of FiniteSets
  <2>3. Abstract!Cardinality(Serving) = Cardinality(Serving)
    BY DEF Abstract!Cardinality, Cardinality
  <2> QED BY <1>0, <2>1, <2>2, <2>3 DEF Abstract!Next, Abstract!Start, Open
<1>2. CASE HangUp(t)
  <2>1. UNCHANGED jobs
    BY <1>2 DEF HangUp, Return
  <2> QED BY <1>0, <1>2, <2>1, HangUpFrees DEF Abstract!Next, Abstract!Finish, Open
<1>3. CASE Sleep(t) \/ Retire(t) \/ Quit(t) \/ Linger(t) \/ End(t) \/ Answer(t) \/ Wait(t)
  BY <1>0, <1>3, Still DEF Sleep, Retire, Quit, Linger, End, Answer, Wait, Stir, TimeOut
<1> QED BY <1>1, <1>2, <1>3 DEF Worker

\* A connection that was accepted is served once and in the order of arrival, never
\* by two threads, by at most as many threads as the pool may have, and none is
\* dropped when a failed accept shuts the pool down.
THEOREM PoolImplementsQueue == Spec => ImplementsJobQueue
<1>1. Init => Abstract!Init
  BY DEF Init, PoolInit, Serving, Abstract!Init
<1>2. ASSUME QueueInv, QueueInv', [Next]_vars
      PROVE  [Abstract!Next]_<<jobs, Serving, Open>>
  <2>1. CASE UNCHANGED vars
    BY <2>1, Still DEF vars, Open
  <2>2. ASSUME NEW c \in Clients, Ask(c) \/ Connect(c) PROVE UNCHANGED <<jobs, Serving, Open>>
    BY <2>2, Still DEF Ask, Connect, Open
  <2> QED BY <1>2, <2>1, <2>2, MainImplements, ThreadImplements DEF Next
<1> QED BY <1>1, <1>2, QueueInductive, PTL DEF Spec, ImplementsJobQueue, Abstract!Spec, Open
=============================================================================
