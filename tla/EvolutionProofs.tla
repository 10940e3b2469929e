-------------------------- MODULE EvolutionProofs --------------------------
(* Theorems about Evolution for every set of requests, sources and faults. *)
EXTENDS Evolution, TLAPS

USE DEF shown, locals

LEMMA CopyTable ==
    /\ Copies["backup"].from = "main" /\ Copies["backup"].to = "backup"
    /\ Copies["backup"].busy = "backingUp" /\ Copies["backup"].next = "install"
    /\ Copies["backup"].caught = "build"
    /\ Copies["install"].from = "evolved" /\ Copies["install"].to = "main"
    /\ Copies["install"].busy = "installing" /\ Copies["install"].next = "build"
    /\ Copies["install"].caught = "build"
    /\ Copies["restore"].from = "backup" /\ Copies["restore"].to = "main"
    /\ Copies["restore"].busy = "restoring" /\ Copies["restore"].next = "failed"
    /\ Copies["restore"].caught = "failed"
BY DEF Copies

\* The steps a copy leads to, and that it touches only the three files.
TrialSteps == {"backingUp", "install", "installing", "build", "restoring", "failed"}

LEMMA CopyJobs ==
    ASSUME NEW j \in Copying
    PROVE  /\ Copies[j].from \in Files /\ Copies[j].to \in Files
           /\ Copies[j].busy \in TrialSteps /\ Copies[j].next \in TrialSteps
           /\ Copies[j].caught \in TrialSteps
BY DEF Copying, Copies, Files, TrialSteps

LEMMA CopyControl ==
    ASSUME NEW r \in Requests, CopyOpen(r) \/ CopyEnd(r) \/ CopyThrows(r)
    PROVE  /\ pc[r] \in {"backup", "install", "restore"} \cup TrialSteps
           /\ \E there \in TrialSteps : Goto(r, there)
           /\ UNCHANGED <<isEvolving, evoStatus, mtx, response, exitCode, binary, before>>
BY CopyJobs DEF CopyOpen, CopyEnd, CopyThrows, Copying

\* A thread that is about to write main_evolved.cpp holds an answer that is code,
\* because run_evolution has looked for the error tag first.
Written == \A r \in Requests : pc[r] = "write" => response[r] \in Code

TypeInv == TypeOK /\ Written

LEMMA TypeInit == Init => TypeInv
BY Sources, Markers DEF Init, TypeInv, TypeOK, Written, Content, Files, Answers, Steps, Statuses, Final,
      Reports, Entries, Ready

\* What an exception leaves on the screen: a judgement only if the section it cut
\* short was passing one.
LEMMA ThrowShows ==
    ASSUME NEW r \in Requests, Throw(r)
    PROVE  \/ UNCHANGED shown
           \/ pc[r] = "begin" /\ Show(Reading, lastReport)
           \/ pc[r] = "judge" /\ TakenForError(response[r]) /\ Show(ApiFailed, "response")
           \/ pc[r] = "announce" /\ Show(evoStatus, "note")
           \/ /\ pc[r] = "verdict" /\ exitCode[r] = 0
              /\ Show(Successful, lastReport) \/ Show(Successful, "success")
           \/ /\ pc[r] = "failed"
              /\ Show(RolledBack, lastReport) \/ Show(RolledBack, "rolledback")
<1> SUFFICES ASSUME NEW said \in HalfSaid(r), Show(said[1], said[2])
             PROVE  \/ pc[r] = "begin" /\ Show(Reading, lastReport)
                    \/ pc[r] = "judge" /\ TakenForError(response[r]) /\ Show(ApiFailed, "response")
                    \/ pc[r] = "announce" /\ Show(evoStatus, "note")
                    \/ /\ pc[r] = "verdict" /\ exitCode[r] = 0
                       /\ Show(Successful, lastReport) \/ Show(Successful, "success")
                    \/ /\ pc[r] = "failed"
                       /\ Show(RolledBack, lastReport) \/ Show(RolledBack, "rolledback")
  BY DEF Throw
<1>1. CASE said = <<Reading, lastReport>> /\ pc[r] = "begin"
  BY <1>1
<1>2. CASE said = <<ApiFailed, "response">> /\ pc[r] = "judge" /\ TakenForError(response[r])
  BY <1>2
<1>3. CASE said = <<evoStatus, "note">> /\ pc[r] = "announce"
  BY <1>3
<1>4. CASE said = <<Successful, lastReport>> /\ pc[r] = "verdict" /\ exitCode[r] = 0
  BY <1>4
<1>5. CASE said = <<Successful, "success">> /\ pc[r] = "verdict" /\ exitCode[r] = 0
  BY <1>5
<1>6. CASE said = <<RolledBack, lastReport>> /\ pc[r] = "failed"
  BY <1>6
<1>7. CASE said = <<RolledBack, "rolledback">> /\ pc[r] = "failed"
  BY <1>7
<1> QED BY <1>1, <1>2, <1>3, <1>4, <1>5, <1>6, <1>7, Zenon DEF HalfSaid

LEMMA TypeStep == TypeInv /\ [Next]_vars => TypeOK'
<1> SUFFICES ASSUME TypeInv, [Next]_vars PROVE TypeOK' OBVIOUS
<1> USE DEF TypeInv, TypeOK
<1>0. ASSUME UNCHANGED vars PROVE TypeOK'
  BY <1>0 DEF vars
<1>1. ASSUME Restart PROVE TypeOK'
  BY <1>1 DEF Restart, Show, Statuses, Reports, Steps, Answers, Ready
<1>2. ASSUME NEW r \in Requests, Handler(r) PROVE TypeOK'
  BY <1>2 DEF Handler, Accept, Refuse, Show, Goto, Statuses, Reports, Steps, Initiated
<1>3. ASSUME NEW r \in Requests, Thread(r) PROVE TypeOK'
  <2>1. CASE Spawn(r) \/ SpawnFails(r)
    BY <2>1 DEF Spawn, SpawnFails, Goto, Steps
  <2>2. CASE Begin(r)
    BY <2>2 DEF Begin, Goto, Show, Steps, Statuses, Reports, Reading
  <2>3. CASE ReadHistory(r)
    BY <2>3 DEF ReadHistory, Goto, Journal, Steps, Entries
  <2>4. CASE Ask(r)
    BY <2>4 DEF Ask, Goto, Steps, Statuses, Requesting
  <2>5. CASE Respond(r)
    BY <2>5 DEF Respond, Goto, Steps
  <2>6. CASE OpenFails(r)
    BY <2>6 DEF OpenFails, Goto, Steps
  <2>19. CASE Throw(r)
    <3>1. evoStatus' \in Statuses /\ lastReport' \in Reports
      BY <2>19, ThrowShows DEF Show, Statuses, Reports, Final, Reading, ApiFailed, Successful, RolledBack
    <3> QED BY <2>19, <3>1 DEF Throw, Goto, Steps
  <2>7. CASE OpenEvolved(r)
    BY <2>7 DEF OpenEvolved, Goto, Steps, Files, Content
  <2>8. CASE WriteEvolved(r)
    <3>1. pc' \in [Requests -> Steps]
      BY <2>8 DEF WriteEvolved, Goto, Steps
    <3>2. disk' \in [Files -> Content]
      <4>1. response[r] \in Content
        BY <2>8 DEF WriteEvolved, Written, Content
      <4> QED BY <2>8, <4>1 DEF WriteEvolved, Files
    <3> QED BY <2>8, <3>1, <3>2 DEF WriteEvolved
  <2>9. CASE FailApi(r)
    BY <2>9 DEF FailApi, Goto, Show, Journal, Steps, Entries, Statuses, Reports, Final, ApiFailed
  <2>10. CASE Announce(r)
    BY <2>10 DEF Announce, Goto, Show, Steps, Statuses, Reports, Validating
  <2>11. CASE WriteNote(r)
    BY <2>11 DEF WriteNote, Goto, Journal, Steps, Entries, Files
  <2>12. CASE CopyOpen(r) \/ CopyEnd(r) \/ CopyThrows(r)
    <3>1. CASE CopyOpen(r)
      <4>1. PICK j \in Copying : /\ disk' = [disk EXCEPT ![Copies[j].to] = Torn]
                                 /\ Goto(r, Copies[j].busy)
        BY <3>1 DEF CopyOpen
      <4>2. disk' \in [Files -> Content] /\ pc' \in [Requests -> Steps]
        BY <4>1, CopyJobs DEF Goto, Content, Steps, TrialSteps
      <4> QED BY <3>1, <4>2 DEF CopyOpen
    <3>2. CASE CopyEnd(r)
      <4>1. PICK j \in Copying :
              /\ disk' = [disk EXCEPT ![Copies[j].to] = disk[Copies[j].from]]
              /\ Goto(r, Copies[j].next)
        BY <3>2 DEF CopyEnd
      <4>2. disk' \in [Files -> Content] /\ pc' \in [Requests -> Steps]
        BY <4>1, CopyJobs DEF Goto, Steps, TrialSteps
      <4> QED BY <3>2, <4>2 DEF CopyEnd
    <3>3. CASE CopyThrows(r)
      <4>1. pc' \in [Requests -> Steps]
        BY <3>3, CopyControl DEF Goto, Steps, TrialSteps
      <4> QED BY <3>3, <4>1 DEF CopyThrows
    <3> QED BY <2>12, <3>1, <3>2, <3>3
  <2>13. CASE Build(r)
    <3>1. PICK x \in BuildResults(disk["main"]) :
            /\ exitCode' = [exitCode EXCEPT ![r] = x]
            /\ binary' = disk["main"] \/ binary' = binary
      BY <2>13 DEF Build
    <3>2. x \in {0, 1}
      BY DEF BuildResults
    <3>3. exitCode' \in [Requests -> {0, 1}]
      BY <3>1, <3>2
    <3>4. binary' \in Content
      BY <3>1 DEF Files
    <3>5. pc' \in [Requests -> Steps]
      BY <2>13 DEF Build, Goto, Steps
    <3> QED BY <2>13, <3>3, <3>4, <3>5 DEF Build
  <2>14. CASE Succeed(r)
    BY <2>14 DEF Succeed, Goto, Show, Journal, Steps, Entries, Statuses, Reports, Final, Successful
  <2>15. CASE Fail(r)
    BY <2>15 DEF Fail, Goto, Steps
  <2>16. CASE RollBack(r)
    BY <2>16 DEF RollBack, Goto, Show, Journal, Steps, Entries, Statuses, Reports, Final, RolledBack
  <2>17. CASE Catch(r)
    BY <2>17 DEF Catch, Goto, Show, Journal, Steps, Entries, Statuses, Reports, Final, ThreadDied
  <2>18. CASE Clear(r)
    BY <2>18 DEF Clear, Goto, Steps, Answers
  <2> QED BY <1>3, <2>1, <2>2, <2>3, <2>4, <2>5, <2>6, <2>7, <2>8, <2>9, <2>10, <2>11,
             <2>12, <2>13, <2>14, <2>15, <2>16, <2>17, <2>18, <2>19 DEF Thread
<1> QED BY <1>0, <1>1, <1>2, <1>3 DEF Next

LEMMA WrittenStep == TypeInv /\ [Next]_vars => Written'
<1> SUFFICES ASSUME TypeInv, [Next]_vars, NEW s \in Requests, pc'[s] = "write"
             PROVE  response'[s] \in Code
  BY DEF Written
<1> USE DEF TypeInv, TypeOK
<1>0. CASE UNCHANGED vars
  BY <1>0 DEF vars, Written
<1>1. CASE Restart
  BY <1>1 DEF Restart
<1>2. ASSUME NEW r \in Requests, Handler(r) PROVE response'[s] \in Code
  BY <1>2 DEF Handler, Accept, Refuse, Goto, Written
<1>3. ASSUME NEW r \in Requests, Thread(r) PROVE response'[s] \in Code
  <2>1. CASE OpenEvolved(r)
    BY <2>1 DEF OpenEvolved, TakenForError, Goto, Written, Answers
  <2>2. CASE CopyOpen(r) \/ CopyEnd(r) \/ CopyThrows(r)
    <3>1. PICK there \in TrialSteps : Goto(r, there) /\ response' = response
      BY <2>2, CopyControl
    <3> QED BY <3>1 DEF Goto, Written, TrialSteps
  <2>3. CASE \/ Spawn(r) \/ SpawnFails(r) \/ Begin(r) \/ ReadHistory(r) \/ Ask(r) \/ Respond(r)
             \/ FailApi(r) \/ OpenFails(r) \/ WriteEvolved(r) \/ Announce(r) \/ WriteNote(r)
    BY <2>3 DEF Spawn, SpawnFails, Begin, ReadHistory, Ask, Respond, FailApi, OpenFails,
                WriteEvolved, Announce, WriteNote, Goto, Written
  <2>4. CASE \/ Build(r) \/ Succeed(r) \/ Fail(r) \/ RollBack(r) \/ Throw(r) \/ Catch(r) \/ Clear(r)
    BY <2>4 DEF Build, Succeed, Fail, RollBack, Throw, Catch, Clear, Goto, Written
  <2> QED BY <1>3, <2>1, <2>2, <2>3, <2>4 DEF Thread
<1> QED BY <1>0, <1>1, <1>2, <1>3 DEF Next

\* Every variable keeps its type, whatever fails: in particular a file only ever
\* holds a source, a part of one, or nothing.
THEOREM TypeCorrect == Spec => []TypeOK
<1>1. TypeInv /\ [Next]_vars => TypeInv'
  BY TypeStep, WrittenStep DEF TypeInv
<1>2. TypeInv => TypeOK
  BY DEF TypeInv
<1> QED BY TypeInit, <1>1, <1>2, PTL DEF Spec
----------------------------------------------------------------------------
\* How a thread's step moves its control and the flag: it stays active and leaves
\* the flag alone, or it is the last step and clears it, or it was never started.
LEMMA ThreadControl ==
    ASSUME TypeInv, NEW r \in Requests, Thread(r)
    PROVE  /\ Active(r)
           /\ \/ UNCHANGED isEvolving /\ \E there \in Steps \ {"idle"} : Goto(r, there)
              \/ isEvolving' = FALSE /\ Goto(r, "idle")
              \/ UNCHANGED isEvolving /\ Goto(r, "idle") /\ "spawn" \in Faults
<1> USE DEF Active
<1>1. CASE CopyOpen(r) \/ CopyEnd(r) \/ CopyThrows(r)
  BY <1>1, CopyControl DEF TrialSteps, Steps
<1>2. CASE Spawn(r) \/ SpawnFails(r) \/ Begin(r) \/ ReadHistory(r) \/ Ask(r) \/ Respond(r)
  BY <1>2 DEF Spawn, SpawnFails, Begin, ReadHistory, Ask, Respond, Steps
<1>3. CASE FailApi(r) \/ OpenEvolved(r) \/ OpenFails(r) \/ WriteEvolved(r) \/ Announce(r)
           \/ WriteNote(r)
  BY <1>3 DEF FailApi, OpenEvolved, OpenFails, WriteEvolved, Announce, WriteNote, Steps
<1>4. CASE Build(r) \/ Succeed(r) \/ Fail(r) \/ RollBack(r) \/ Throw(r) \/ Catch(r) \/ Clear(r)
  BY <1>4 DEF Build, Succeed, Fail, RollBack, Throw, Throwing, Catch, Clear, Steps
<1> QED BY <1>1, <1>2, <1>3, <1>4 DEF Thread

\* OneEvolution is not inductive alone: Accept needs that an active request has
\* left the flag set.
FlagSet == \A r \in Requests : Active(r) => isEvolving

ControlInv == OneEvolution /\ FlagSet

LEMMA ControlStep == TypeInv /\ ControlInv /\ [Next]_vars => ControlInv'
<1> SUFFICES ASSUME TypeInv, ControlInv, [Next]_vars PROVE ControlInv' OBVIOUS
<1> USE DEF ControlInv, OneEvolution, FlagSet, Active, TypeInv, TypeOK
<1>0. CASE UNCHANGED vars
  BY <1>0 DEF vars
<1>1. CASE Restart
  BY <1>1 DEF Restart
<1>2. ASSUME NEW r \in Requests, Handler(r) PROVE ControlInv'
  <2>1. CASE Accept(r)
    BY <2>1 DEF Accept, Goto
  <2>2. CASE Refuse(r)
    BY <2>2 DEF Refuse
  <2> QED BY <1>2, <2>1, <2>2 DEF Handler
<1>3. ASSUME NEW r \in Requests, Thread(r) PROVE ControlInv'
  <2>1. \A s \in Requests : Active(s) => s = r
    BY <1>3, ThreadControl
  <2>2. \A s \in Requests : s # r => pc'[s] = pc[s]
    BY <1>3, ThreadControl DEF Goto
  <2>3. \A s \in Requests : Active(s)' => s = r
    BY <2>1, <2>2
  <2>4. pc'[r] = "idle" \/ UNCHANGED isEvolving
    BY <1>3, ThreadControl DEF Goto
  <2>5. isEvolving
    BY <1>3, ThreadControl
  <2> QED BY <2>3, <2>4, <2>5
<1> QED BY <1>0, <1>1, <1>2, <1>3 DEF Next

\* At most one request is between the test of the flag and its clearing, for any
\* number of concurrent POSTs and any combination of faults, kills included.
THEOREM MutualExclusion == Spec => []OneEvolution
<1>1. Init => ControlInv
  BY DEF Init, ControlInv, OneEvolution, FlagSet, Active
<1>2. TypeInv /\ [Next]_vars => TypeInv'
  BY TypeStep, WrittenStep DEF TypeInv
<1>3. ControlInv => OneEvolution
  BY DEF ControlInv
<1> QED BY TypeInit, ControlStep, <1>1, <1>2, <1>3, PTL DEF Spec

LEMMA FlagStep ==
    ASSUME "spawn" \notin Faults
    PROVE  TypeInv /\ ControlInv /\ FlagMeansRunning /\ [Next]_vars => FlagMeansRunning'
<1> SUFFICES ASSUME TypeInv, ControlInv, FlagMeansRunning, [Next]_vars
             PROVE  FlagMeansRunning'
  OBVIOUS
<1> USE DEF TypeInv, TypeOK, Active
<1>1. ControlInv'
  BY ControlStep
<1>2. SUFFICES ASSUME isEvolving' PROVE \E s \in Requests : Active(s)'
  BY <1>1 DEF FlagMeansRunning, ControlInv, FlagSet
<1>3. CASE UNCHANGED vars
  BY <1>2, <1>3 DEF vars, FlagMeansRunning
<1>4. CASE Restart
  BY <1>2, <1>4 DEF Restart
<1>5. ASSUME NEW r \in Requests, Handler(r) PROVE \E s \in Requests : Active(s)'
  <2>1. CASE Accept(r)
    BY <2>1 DEF Accept, Goto
  <2>2. CASE Refuse(r)
    BY <1>2, <2>2 DEF Refuse, FlagMeansRunning
  <2> QED BY <1>5, <2>1, <2>2 DEF Handler
<1>6. ASSUME NEW r \in Requests, Thread(r) PROVE \E s \in Requests : Active(s)'
  <2>1. PICK there \in Steps \ {"idle"} : Goto(r, there)
    BY <1>2, <1>6, ThreadControl
  <2> QED BY <2>1 DEF Goto
<1> QED BY <1>3, <1>4, <1>5, <1>6 DEF Next

\* Where a thread can always be started, the flag is set exactly while an evolution
\* runs: no early return, exception or kill leaves POST /api/evolve refused for good.
THEOREM FlagNeverStuck == ASSUME "spawn" \notin Faults PROVE Spec => []FlagMeansRunning
<1>1. Init => ControlInv /\ FlagMeansRunning
  BY DEF Init, ControlInv, OneEvolution, FlagSet, Active, FlagMeansRunning
<1>2. TypeInv /\ [Next]_vars => TypeInv'
  BY TypeStep, WrittenStep DEF TypeInv
<1>3. TypeInv /\ ControlInv /\ FlagMeansRunning /\ [Next]_vars => FlagMeansRunning'
  BY FlagStep
<1> QED BY TypeInit, ControlStep, <1>1, <1>2, <1>3, PTL DEF Spec
----------------------------------------------------------------------------
(* The lock and the screen *)

\* The steps of a thread that take the lock and keep it, or release it, or may change
\* it; all others leave it as it is and stay outside the rollback.
RollbackSteps == {"restore", "restoring", "failed"}

\* The lock is held across steps by the thread that rolls back and by nobody else.
LockedWhileRollingBack == \A r \in Requests : mtx = r <=> pc[r] \in RollbackSteps

LEMMA LockMoves ==
    ASSUME TypeInv, NEW r \in Requests, Thread(r), ~(Fail(r) \/ RollBack(r) \/ Throw(r))
    PROVE  /\ UNCHANGED mtx
           /\ \E there \in Steps : Goto(r, there) /\ (pc[r] \in RollbackSteps <=> there \in RollbackSteps)
<1> USE DEF RollbackSteps, Steps
<1>1. CASE CopyOpen(r) \/ CopyEnd(r) \/ CopyThrows(r)
  <2>1. PICK j \in Copying :
          \/ pc[r] = j /\ Goto(r, Copies[j].busy)
          \/ pc[r] = Copies[j].busy /\ Goto(r, Copies[j].next)
          \/ pc[r] \in {j, Copies[j].busy} /\ Goto(r, Copies[j].caught)
    BY <1>1 DEF CopyOpen, CopyEnd, CopyThrows
  <2> QED BY <1>1, <2>1, CopyControl, CopyTable DEF Copying
<1>2. CASE Spawn(r) \/ SpawnFails(r) \/ Begin(r) \/ ReadHistory(r) \/ Ask(r) \/ Respond(r)
  BY <1>2 DEF Spawn, SpawnFails, Begin, ReadHistory, Ask, Respond
<1>3. CASE FailApi(r) \/ OpenEvolved(r) \/ OpenFails(r) \/ WriteEvolved(r) \/ Announce(r)
           \/ WriteNote(r)
  BY <1>3 DEF FailApi, OpenEvolved, OpenFails, WriteEvolved, Announce, WriteNote
<1>4. CASE Build(r) \/ Succeed(r) \/ Catch(r) \/ Clear(r)
  BY <1>4 DEF Build, Succeed, Catch, Clear
<1> QED BY <1>1, <1>2, <1>3, <1>4 DEF Thread

LEMMA LockStep == TypeInv /\ LockedWhileRollingBack /\ [Next]_vars => LockedWhileRollingBack'
<1> SUFFICES ASSUME TypeInv, LockedWhileRollingBack, [Next]_vars PROVE LockedWhileRollingBack'
  OBVIOUS
<1> USE Markers DEF TypeInv, TypeOK, LockedWhileRollingBack, RollbackSteps
<1>1. CASE UNCHANGED vars
  BY <1>1 DEF vars
<1>2. CASE Restart
  BY <1>2 DEF Restart
<1>3. ASSUME NEW r \in Requests, Handler(r) PROVE LockedWhileRollingBack'
  BY <1>3 DEF Handler, Accept, Refuse, Goto
<1>4. ASSUME NEW r \in Requests, Thread(r) PROVE LockedWhileRollingBack'
  <2>1. CASE Fail(r)
    BY <2>1 DEF Fail, Goto
  <2>2. CASE RollBack(r) \/ Throw(r)
    BY <2>2 DEF RollBack, Throw, Goto
  <2>3. CASE ~(Fail(r) \/ RollBack(r) \/ Throw(r))
    BY <1>4, <2>3, LockMoves DEF Goto, RollbackSteps
  <2> QED BY <2>1, <2>2, <2>3
<1> QED BY <1>1, <1>2, <1>3, <1>4 DEF Next

\* So the lock's holder is never at a step that waits for it.
LEMMA LockIsRollback == Spec => []LockedWhileRollingBack
<1>1. Init => LockedWhileRollingBack
  BY Markers DEF Init, LockedWhileRollingBack, RollbackSteps
<1>2. TypeInv /\ [Next]_vars => TypeInv'
  BY TypeStep, WrittenStep DEF TypeInv
<1> QED BY TypeInit, LockStep, <1>1, <1>2, PTL DEF Spec

\* A judgement is on the screen only while no thread is at work: from its next step
\* on, an evolution shows that it is under way.  An exception may leave one behind on
\* its way to the catch.
Judged == Final \cup {Ready}
VerdictInv == evoStatus \in Judged => \A r \in Requests : pc[r] \in {"idle", "clear", "caught"}

LEMMA VerdictStep == TypeInv /\ ControlInv /\ VerdictInv /\ [Next]_vars => VerdictInv'
<1> SUFFICES ASSUME TypeInv, ControlInv, VerdictInv, [Next]_vars PROVE VerdictInv' OBVIOUS
<1> USE DEF VerdictInv, TypeInv, TypeOK
<1>1. CASE UNCHANGED vars
  BY <1>1 DEF vars
<1>2. CASE Restart
  BY <1>2 DEF Restart
<1>3. ASSUME NEW r \in Requests, Handler(r) PROVE VerdictInv'
  BY <1>3 DEF Handler, Accept, Refuse, Show, Judged, Final, Initiated, Ready, ApiFailed,
              Successful, RolledBack, ThreadDied
<1>4. ASSUME NEW r \in Requests, Thread(r) PROVE VerdictInv'
  <2>1. \A s \in Requests : s # r => pc'[s] = "idle"
    BY <1>4, ThreadControl DEF Goto, ControlInv, OneEvolution, Active
  <2>2. SUFFICES evoStatus' \in Judged => pc'[r] \in {"idle", "clear", "caught"}
    BY <2>1
  <2>3. CASE Begin(r) \/ Ask(r) \/ Announce(r)
    BY <2>3 DEF Begin, Ask, Announce, Show, Judged, Final, Reading, Requesting, Validating,
                Ready, ApiFailed, Successful, RolledBack, ThreadDied
  <2>4. CASE FailApi(r) \/ Succeed(r) \/ RollBack(r) \/ Catch(r) \/ Clear(r) \/ OpenFails(r)
             \/ SpawnFails(r)
    BY <2>4 DEF FailApi, Succeed, RollBack, Catch, Clear, OpenFails, SpawnFails, Goto
  <2>5. CASE Spawn(r) \/ ReadHistory(r) \/ Respond(r) \/ OpenEvolved(r) \/ WriteEvolved(r)
             \/ WriteNote(r) \/ Build(r) \/ Fail(r)
    BY <2>5 DEF Spawn, ReadHistory, Respond, OpenEvolved, WriteEvolved, WriteNote, Build, Fail
  <2>7. CASE Throw(r)
    BY <2>7 DEF Throw, Goto
  <2>6. CASE CopyOpen(r) \/ CopyEnd(r) \/ CopyThrows(r)
    BY <2>6, CopyControl DEF TrialSteps
  <2> QED BY <1>4, <2>3, <2>4, <2>5, <2>6, <2>7 DEF Thread
<1> QED BY <1>1, <1>2, <1>3, <1>4 DEF Next

\* What holds of every evolution, whatever fails.
ServerSane == TypeInv /\ ControlInv /\ VerdictInv

LEMMA SaneStep == ServerSane /\ [Next]_vars => ServerSane'
BY TypeStep, WrittenStep, ControlStep, VerdictStep DEF ServerSane, TypeInv

LEMMA SaneInit == Init => ServerSane
BY TypeInit DEF Init, ServerSane, ControlInv, OneEvolution, FlagSet, Active, VerdictInv
=============================================================================
