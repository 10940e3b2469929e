------------------------------ MODULE JobQueue ------------------------------
(***************************************************************************)
(* What a thread pool promises its caller, whatever its threads do: a job  *)
(* that was handed in is started once, in the order of arrival, at most    *)
(* Capacity of them run at a time, and once the pool is shut every job it  *)
(* took has been run to its end.  WebServer.tla is shown to implement it.  *)
(***************************************************************************)
EXTENDS Naturals, Sequences, FiniteSets

CONSTANTS Clients,    \* a job is one connection of a client
          Capacity

VARIABLES waiting,    \* jobs handed in and not started, oldest first
          served,     \* jobs that run
          open        \* jobs are still taken, or run

Busy == {waiting[i] : i \in 1 .. Len(waiting)} \cup served

Init == waiting = <<>> /\ served = {} /\ open = TRUE

Submit == /\ open
          /\ \E c \in Clients \ Busy : waiting' = Append(waiting, c)
          /\ UNCHANGED <<served, open>>

Start == /\ waiting # <<>> /\ Cardinality(served) < Capacity
         /\ waiting' = Tail(waiting)
         /\ served' = served \cup {Head(waiting)}
         /\ UNCHANGED open

Finish == /\ \E c \in served : served' = served \ {c}
          /\ UNCHANGED <<waiting, open>>

Shut == open /\ waiting = <<>> /\ served = {} /\ open' = FALSE /\ UNCHANGED <<waiting, served>>

Next == Submit \/ Start \/ Finish \/ Shut

Spec == Init /\ [][Next]_<<waiting, served, open>>
=============================================================================
