----------------------------- MODULE ThreadPool -----------------------------
(***************************************************************************)
(* httplib's ThreadPool (src/httplib.h 9942-10065): base threads that wait *)
(* for jobs on a condition variable, dynamic threads that are added while  *)
(* nobody is idle and leave again, and a shutdown that joins them all.     *)
(*                                                                         *)
(* Each critical section is one action.  Between them a thread is "awake"  *)
(* (about to lock and look), "asleep" in the wait, "woken" or "timedOut"   *)
(* (out of the wait, not yet locked again), "running" a job, "lingering"   *)
(* (a dynamic thread after its job), "leaving" (out of its loop) or        *)
(* "ended".  The module has no Next: WebServer.tla calls the pool.         *)
(***************************************************************************)
EXTENDS Integers, Sequences, FiniteSets

CONSTANTS Base,      \* threads_: made by the constructor
          Dynamic,   \* slots for dynamic_threads_; Base and Dynamic together
                     \* are max_thread_count_
          Jobs,      \* a job is the service of one connection
          NoJob

Workers == Base \cup Dynamic

ASSUME PoolAssumption ==
    /\ IsFiniteSet(Base) /\ IsFiniteSet(Dynamic)
    /\ Base # {} /\ Base \cap Dynamic = {}
    /\ NoJob \notin Jobs

VARIABLES jobs,        \* jobs_
          idle,        \* idle_thread_count_
          stopping,    \* shutdown_
          place,       \* where each thread is
          running,     \* the job it runs
          dynamic,     \* dynamic_threads_
          finished,    \* finished_threads_
          remaining    \* remaining_dynamic, of shutdown

lists == <<dynamic, finished, remaining>>
pool  == <<jobs, idle, stopping, place, running, lists>>

Places == {"ended", "awake", "asleep", "woken", "timedOut", "running", "lingering", "leaving"}

Asleep  == {t \in Workers : place[t] = "asleep"}
InWait  == {t \in Workers : place[t] \in {"asleep", "woken", "timedOut"}}
HasWork == jobs # <<>> \/ stopping

Move(t, there) == place' = [place EXCEPT ![t] = there]

PoolInit ==
    /\ jobs = <<>> /\ idle = 0 /\ stopping = FALSE
    /\ place = [t \in Workers |-> "ended"]
    /\ running = [t \in Workers |-> NoJob]
    /\ dynamic = {} /\ finished = {} /\ remaining = {}

\* the constructor starts the base threads
Construct ==
    /\ place' = [t \in Workers |-> IF t \in Base THEN "awake" ELSE "ended"]
    /\ UNCHANGED <<jobs, idle, stopping, running, lists>>

----------------------------------------------------------------------------
(* enqueue: the queue is not bounded (max_queued_requests is 0), and the    *)
(* caller is the one that shuts the pool down, so it is never refused.      *)

\* Finished threads are joined with the lock held; all they have left is to
\* return, so waiting for them first comes to the same.
Enqueue(job) ==
    /\ ~stopping
    /\ jobs' = Append(jobs, job)
    /\ IF idle = 0 /\ dynamic # Dynamic
       THEN /\ \A t \in finished : place[t] = "ended"
            /\ finished' = {}
            /\ \E t \in Dynamic \ dynamic : dynamic' = dynamic \cup {t} /\ Move(t, "awake")
       ELSE UNCHANGED <<place, dynamic, finished>>
    /\ UNCHANGED <<idle, stopping, running, remaining>>

\* (mutant) only the first job of a queue is worth a wake-up
NotifyFirst ==
    /\ IF Asleep = {} \/ Len(jobs) > 1 THEN UNCHANGED place
       ELSE \E t \in Asleep : Move(t, "woken")
    /\ UNCHANGED <<jobs, idle, stopping, running, lists>>

\* cond_.notify_one(), after the lock is released
NotifyOne ==
    /\ IF Asleep = {} THEN UNCHANGED place ELSE \E t \in Asleep : Move(t, "woken")
    /\ UNCHANGED <<jobs, idle, stopping, running, lists>>

----------------------------------------------------------------------------
(* worker *)

Looks(t) == place[t] \in {"awake", "woken", "timedOut"}

\* (mutant) a thread that finds a job at once was never counted
UncountAll(t) == idle' = idle - 1

\* idle_thread_count_ after a thread that does not wait: raised and lowered
\* again, or lowered by the one that was counted
Uncount(t) == idle' = IF place[t] = "awake" THEN idle ELSE idle - 1

\* (mutant) the job is copied from the queue's front and popped by nobody
TakeCopy(t) ==
    /\ Looks(t) /\ jobs # <<>>
    /\ Uncount(t)
    /\ running' = [running EXCEPT ![t] = Head(jobs)]
    /\ Move(t, "running")
    /\ UNCHANGED <<jobs, stopping, lists>>

Take(t) ==
    /\ Looks(t) /\ jobs # <<>>
    /\ Uncount(t)
    /\ running' = [running EXCEPT ![t] = Head(jobs)]
    /\ jobs' = Tail(jobs)
    /\ Move(t, "running")
    /\ UNCHANGED <<stopping, lists>>

Sleep(t) ==
    /\ place[t] \in {"awake", "woken"} /\ ~HasWork
    /\ idle' = IF place[t] = "awake" THEN idle + 1 ELSE idle
    /\ Move(t, "asleep")
    /\ UNCHANGED <<jobs, stopping, running, lists>>

\* (mutant) a thread is taken off the one list and not put on the other
Forget(t) == dynamic' = dynamic \ {t} /\ UNCHANGED <<finished, remaining>>

\* move_to_finished; a thread that is not on dynamic_threads_ finds itself nowhere
MoveToFinished(t) ==
    /\ dynamic' = dynamic \ {t}
    /\ finished' = finished \cup (dynamic \cap {t})
    /\ UNCHANGED remaining

\* (mutant) a thread that times out is not taken off the count
RetireCounted(t) ==
    /\ place[t] = "timedOut" /\ ~HasWork
    /\ Move(t, "leaving") /\ MoveToFinished(t)
    /\ UNCHANGED <<jobs, idle, stopping, running>>

\* 3 s without work
Retire(t) ==
    /\ place[t] = "timedOut" /\ ~HasWork
    /\ idle' = idle - 1
    /\ Move(t, "leaving") /\ MoveToFinished(t)
    /\ UNCHANGED <<jobs, stopping, running>>

\* (mutant) shutdown_ alone ends a thread
QuitAtOnce(t) ==
    /\ Looks(t) /\ stopping
    /\ Uncount(t)
    /\ Move(t, "leaving")
    /\ UNCHANGED <<jobs, stopping, running, lists>>

Quit(t) ==
    /\ Looks(t) /\ stopping /\ jobs = <<>>
    /\ Uncount(t)
    /\ Move(t, "leaving")
    /\ UNCHANGED <<jobs, stopping, running, lists>>

\* fn() returns
Return(t) ==
    /\ place[t] = "running"
    /\ running' = [running EXCEPT ![t] = NoJob]
    /\ Move(t, IF t \in Dynamic THEN "lingering" ELSE "awake")
    /\ UNCHANGED <<jobs, idle, stopping, lists>>

\* A dynamic thread leaves when the queue is empty after its job; shutdown may have
\* taken it off dynamic_threads_ by then.
Linger(t) ==
    /\ place[t] = "lingering"
    /\ IF jobs = <<>>
       THEN Move(t, "leaving") /\ MoveToFinished(t)
       ELSE Move(t, "awake") /\ UNCHANGED lists
    /\ UNCHANGED <<jobs, idle, stopping, running>>

End(t) ==
    /\ place[t] = "leaving"
    /\ Move(t, "ended")
    /\ UNCHANGED <<jobs, idle, stopping, running, lists>>

\* The wait ends without a notification; wait and wait_for look again.
Stir(t) ==
    /\ place[t] = "asleep"
    /\ Move(t, "woken")
    /\ UNCHANGED <<jobs, idle, stopping, running, lists>>

TimeOut(t) ==
    /\ place[t] = "asleep" /\ t \in Dynamic
    /\ Move(t, "timedOut")
    /\ UNCHANGED <<jobs, idle, stopping, running, lists>>

----------------------------------------------------------------------------
(* shutdown, in the steps between its critical sections *)

SetShutdown ==
    /\ stopping' = TRUE
    /\ UNCHANGED <<jobs, idle, place, running, lists>>

\* (mutant) one thread is woken to see the flag
NotifyOneOfAll ==
    /\ IF Asleep = {} THEN UNCHANGED place ELSE \E t \in Asleep : Move(t, "woken")
    /\ UNCHANGED <<jobs, idle, stopping, running, lists>>

NotifyAll ==
    /\ place' = [t \in Workers |-> IF t \in Asleep THEN "woken" ELSE place[t]]
    /\ UNCHANGED <<jobs, idle, stopping, running, lists>>

\* The base threads are joined without the lock; then the dynamic threads are taken
\* off the pool's list, so that they can be joined without it as well.
TakeDynamic ==
    /\ \A t \in Base : place[t] = "ended"
    /\ remaining' = dynamic /\ dynamic' = {}
    /\ UNCHANGED <<jobs, idle, stopping, place, running, finished>>

\* The threads taken off the list are joined, and then, in cleanup, the finished ones:
\* those two lists and nobody else.
CleanUp ==
    /\ \A t \in remaining \cup finished : place[t] = "ended"
    /\ remaining' = {} /\ finished' = {}
    /\ UNCHANGED <<jobs, idle, stopping, place, running, dynamic>>

----------------------------------------------------------------------------
PoolTypeOK ==
    /\ jobs \in Seq(Jobs)
    /\ idle \in 0 .. Cardinality(Workers)
    /\ stopping \in BOOLEAN
    /\ place \in [Workers -> Places]
    /\ running \in [Workers -> Jobs \cup {NoJob}]
    /\ dynamic \subseteq Dynamic /\ finished \subseteq Dynamic /\ remaining \subseteq Dynamic

\* The count that decides whether a thread is added is the number of threads in
\* the wait, over time-outs, spurious wake-ups and shutdown.
IdleIsExact == idle = Cardinality(InWait)

\* While a thread sleeps, every job in the queue has a thread of its own that is
\* about to look, or a notification on its way (told).
NoLostWakeup(told) ==
    Asleep # {} =>
        Len(jobs) <= Cardinality({t \in Workers : Looks(t) \/ place[t] = "lingering"}) + told
=============================================================================
