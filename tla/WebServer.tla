----------------------------- MODULE WebServer -----------------------------
(***************************************************************************)
(* start_web_server of Noah_ASI: main's loop over the ports around         *)
(* httplib's listen, its accept loop, the pool that serves connections,    *)
(* and clients (pages that poll, chats) whose connections are kept alive   *)
(* for a bounded number of requests.                                       *)
(***************************************************************************)
EXTENDS ThreadPool

CONSTANTS LastPort,       \* the loop tries the ports 1 .. LastPort
          KeepAliveMax    \* requests a connection may make

ASSUME WebAssumption == LastPort \in Nat \ {0} /\ KeepAliveMax \in Nat \ {0}

Clients == Jobs
Ports   == 1 .. LastPort

VARIABLES server,          \* where the main thread is
          port,            \* the loop's port
          taken,           \* ports a program that does not share them has bound
          decommissioned,  \* is_decommissioned
          backlog,         \* connections the system holds for accept
          asks,            \* clients that wait for an answer
          left             \* requests a client's connection may still make

web  == <<server, port, taken, decommissioned>>
net  == <<backlog, asks, left>>
vars == <<pool, web, net>>

InQueue(q) == {q[i] : i \in 1 .. Len(q)}
Serving    == {running[t] : t \in Workers} \ {NoJob}
Away(c)    == c \notin InQueue(backlog) \cup InQueue(jobs) \cup Serving

Init ==
    /\ PoolInit
    /\ server = "bind" /\ port = 1 /\ taken \in SUBSET Ports /\ decommissioned = FALSE
    /\ backlog = <<>> /\ asks = {} /\ left = [c \in Clients |-> KeepAliveMax]

----------------------------------------------------------------------------
(* The main thread *)

\* bind_to_port: a failure decommissions the server, and a server that is
\* decommissioned fails
BindFails ==
    /\ server = "bind" /\ port \in Ports /\ (decommissioned \/ port \in taken)
    /\ decommissioned' = TRUE
    /\ port' = port + 1
    /\ UNCHANGED <<pool, server, taken, net>>

Listen ==
    /\ server = "bind" /\ port \in Ports /\ ~decommissioned /\ port \notin taken
    /\ Construct
    /\ server' = "accept"
    /\ UNCHANGED <<port, taken, decommissioned, net>>

\* the loop is over, main returns and with it the process
GiveUp ==
    /\ server = "bind" /\ port \notin Ports
    /\ server' = "returned"
    /\ UNCHANGED <<pool, port, taken, decommissioned, net>>

Accept ==
    /\ server = "accept" /\ backlog # <<>>
    /\ Enqueue(Head(backlog))
    /\ backlog' = Tail(backlog)
    /\ server' = "notify"
    /\ UNCHANGED <<port, taken, decommissioned, asks, left>>

Notify ==
    /\ server = "notify"
    /\ NotifyOne
    /\ server' = "accept"
    /\ UNCHANGED <<port, taken, decommissioned, net>>

\* an error of accept that is not EMFILE, EINTR or EAGAIN closes the socket
AcceptFails ==
    /\ server = "accept"
    /\ backlog' = <<>>
    /\ server' = "shutdown"
    /\ UNCHANGED <<pool, port, taken, decommissioned, asks, left>>

Shutdown ==
    \/ /\ server = "shutdown" /\ SetShutdown /\ server' = "notifyAll"
       /\ UNCHANGED <<port, taken, decommissioned, net>>
    \/ /\ server = "notifyAll" /\ NotifyAll /\ server' = "join"
       /\ UNCHANGED <<port, taken, decommissioned, net>>
    \/ /\ server = "join" /\ TakeDynamic /\ server' = "joinDynamic"
       /\ UNCHANGED <<port, taken, decommissioned, net>>
    \/ /\ server = "joinDynamic" /\ CleanUp /\ server' = "bind"
       /\ decommissioned' = TRUE /\ port' = port + 1
       /\ UNCHANGED <<taken, net>>

Main == BindFails \/ Listen \/ GiveUp \/ Accept \/ Notify \/ Shutdown

----------------------------------------------------------------------------
(* A job: process_server_socket_core *)

\* (mutant) requests are not counted
AnswerUncounted(t) ==
    /\ running[t] \in asks /\ left[running[t]] > 0
    /\ asks' = asks \ {running[t]}
    /\ UNCHANGED <<pool, web, backlog, left>>

\* A handler runs: a chat takes up to 180 s, a poll waits for g_state_mtx.
Answer(t) ==
    /\ running[t] \in asks /\ left[running[t]] > 0
    /\ asks' = asks \ {running[t]}
    /\ left' = [left EXCEPT ![running[t]] = @ - 1]
    /\ UNCHANGED <<pool, web, backlog>>

\* the count is used up, or nothing came for 5 s or the client is gone
HangUp(t) ==
    /\ running[t] # NoJob /\ (running[t] \notin asks \/ left[running[t]] = 0)
    /\ left' = [left EXCEPT ![running[t]] = KeepAliveMax]
    /\ Return(t)
    /\ UNCHANGED <<web, backlog, asks>>

Worker(t) ==
    \/ (Take(t) \/ Sleep(t) \/ Retire(t) \/ Quit(t) \/ Linger(t) \/ End(t)) /\ UNCHANGED <<web, net>>
    \/ Answer(t) \/ HangUp(t)

\* what the condition variable may do of itself
Wait(t) == (Stir(t) \/ TimeOut(t)) /\ UNCHANGED <<web, net>>

----------------------------------------------------------------------------
(* Clients: a page asks again and again, on its connection or on a new one. *)

Ask(c) ==
    /\ c \notin asks
    /\ asks' = asks \cup {c}
    /\ UNCHANGED <<pool, web, backlog, left>>

Connect(c) ==
    /\ Away(c) /\ server \in {"accept", "notify"}
    /\ backlog' = Append(backlog, c)
    /\ UNCHANGED <<pool, web, asks, left>>

\* a browser sends again what a closed connection has not answered
Retry(c) == c \in asks /\ Connect(c)

Next ==
    \/ Main \/ AcceptFails
    \/ \E t \in Workers : Worker(t) \/ Wait(t)
    \/ \E c \in Clients : Ask(c) \/ Connect(c)

Spec == Init /\ [][Next]_vars

\* Threads are scheduled and get the lock, handlers end (curl after 180 s), an idle
\* connection is closed after 5 s, a browser repeats an unanswered request.  Nobody
\* has to ask, and neither time-outs nor errors of accept need happen.
FairSpec ==
    /\ Spec
    /\ WF_vars(Main)
    /\ \A t \in Workers : WF_vars(Worker(t))
    /\ \A c \in Clients : WF_vars(Retry(c))

----------------------------------------------------------------------------
WebTypeOK ==
    /\ PoolTypeOK
    /\ server \in {"bind", "accept", "notify", "shutdown", "notifyAll", "join", "joinDynamic", "returned"}
    /\ port \in 1 .. LastPort + 1
    /\ taken \subseteq Ports
    /\ decommissioned \in BOOLEAN
    /\ backlog \in Seq(Clients)
    /\ asks \subseteq Clients
    /\ left \in [Clients -> 0 .. KeepAliveMax]

\* enqueue notifies after it has unlocked, one job at a time, and dynamic threads
\* time out meanwhile: still no job waits beside a thread that sleeps on.
NoJobBesideASleeper == NoLostWakeup(IF server = "notify" THEN 1 ELSE 0)

\* When listen returns, no thread of its pool is left: a dynamic thread that is still
\* about is on a list that shutdown joins, whichever of the lists it was moved between
\* while the job ended, the wait timed out and the pool was shut down.
NoThreadOutlivesListen ==
    server \in {"bind", "returned"} => \A t \in Workers : place[t] = "ended"

\* No connection is served by two threads, or served while it waits to be.
ServedOnce ==
    /\ \A t, u \in Workers : running[t] = running[u] => t = u \/ running[t] = NoJob
    /\ InQueue(jobs) \cap Serving = {}

\* While shutdown joins the threads none of them sleeps, and none falls asleep behind
\* the notification: the flag is set before it, and looked at under the same lock.
NoSleeperInShutdown == server \in {"join", "joinDynamic"} => Asleep = {}

\* Every request is answered, though pages that poll and chats that last hold the
\* threads, unless accept has failed.
EveryRequestAnswered ==
    \A c \in Clients : (c \in asks /\ server = "accept") ~> (c \notin asks \/ stopping)

\* A failed accept ends the process: shutdown wakes and joins every thread.
ShutdownEnds == stopping ~> server = "returned"

\* "http://localhost:<port>" is announced for one port after the other: main gives
\* up only when none of them can be had, or when accept has failed.
GivesUpOnlyWhenAllTaken == server = "returned" /\ ~stopping => taken = Ports

----------------------------------------------------------------------------
(* The abstract specification: jobs in order, each once, none lost. *)

Abstract == INSTANCE JobQueue WITH
    Capacity <- Cardinality(Workers),
    waiting  <- jobs,
    served   <- Serving,
    open     <- ~(stopping /\ server \in {"bind", "returned"})

ImplementsJobQueue == Abstract!Spec
=============================================================================
