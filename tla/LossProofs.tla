----------------------------- MODULE LossProofs -----------------------------
(***************************************************************************)
(* What holds of the sources, the journal and the screen with every fault  *)
(* allowed that the statement does not name: kills and exceptions at any   *)
(* step, copies that fail half way, files that do not open.                *)
(***************************************************************************)
EXTENDS EvolutionProofs

USE DEF shown, locals

----------------------------------------------------------------------------
(* The screen and the journal *)

\* The steps that leave status and journal as they are; none of them is taken while an
\* exception is on its way.
LEMMA Quiet ==
    ASSUME NEW r \in Requests, Thread(r),
           ~(Begin(r) \/ ReadHistory(r) \/ Ask(r) \/ FailApi(r) \/ Announce(r) \/ WriteNote(r)
             \/ Succeed(r) \/ RollBack(r) \/ Throw(r) \/ Catch(r))
    PROVE  UNCHANGED <<evoStatus, journal>> /\ pc[r] # "caught"
<1>1. CASE CopyOpen(r) \/ CopyEnd(r) \/ CopyThrows(r)
  BY <1>1, CopyControl DEF CopyOpen, CopyEnd, CopyThrows, TrialSteps
<1>2. CASE Spawn(r) \/ SpawnFails(r) \/ Respond(r) \/ OpenEvolved(r) \/ OpenFails(r) \/ WriteEvolved(r)
  BY <1>2 DEF Spawn, SpawnFails, Respond, OpenEvolved, OpenFails, WriteEvolved
<1>3. CASE Build(r) \/ Fail(r) \/ Clear(r)
  BY <1>3 DEF Build, Fail, Clear
<1> QED BY <1>1, <1>2, <1>3 DEF Thread

\* JournalAgrees is not inductive alone: the two steps that write the journal without
\* judging need that no verdict is on the screen (VerdictInv), and what an exception
\* left on the screen must be overwritten by the thread that let it through, which is
\* the only one (OneEvolution).
LEMMA JournalThread ==
    ASSUME "journal" \notin Faults, ServerSane, JournalAgrees, NEW r \in Requests, Thread(r)
    PROVE  JournalAgrees'
<1> USE DEF JournalAgrees, Final, ApiFailed, Successful, RolledBack, ThreadDied
<1>0. Unwinding => pc[r] = "caught"
  BY ThreadControl DEF Unwinding, ServerSane, ControlInv, OneEvolution, Active
<1>1. CASE Begin(r) \/ Ask(r) \/ Announce(r)
  BY <1>1 DEF Begin, Ask, Announce, Show, Reading, Requesting, Validating
<1>2. CASE ReadHistory(r) \/ WriteNote(r)
  BY <1>2 DEF ReadHistory, WriteNote, ServerSane, VerdictInv, Judged
<1>3. CASE FailApi(r) \/ Succeed(r) \/ RollBack(r) \/ Catch(r)
  BY <1>3 DEF FailApi, Succeed, RollBack, Catch, Show, Journal
<1>4. CASE ~(Begin(r) \/ ReadHistory(r) \/ Ask(r) \/ FailApi(r) \/ Announce(r) \/ WriteNote(r)
             \/ Succeed(r) \/ RollBack(r) \/ Throw(r) \/ Catch(r))
  BY <1>0, <1>4, Quiet
<1>5. CASE Throw(r)
  BY <1>5 DEF Throw, Goto, Unwinding, ServerSane, TypeInv, TypeOK
<1> QED BY <1>1, <1>2, <1>3, <1>4, <1>5

\* Where the journal can be written, its last entry is the judgement on the screen,
\* however often the server is killed and whatever throws, between a judgement's text and
\* its entry included: there the two differ until the catch has judged anew, not longer.
THEOREM JournalTrue ==
    ASSUME "journal" \notin Faults PROVE Spec => []JournalAgrees
<1>1. Init => JournalAgrees
  BY DEF Init, JournalAgrees, Ready, ApiFailed, Successful, RolledBack, ThreadDied
<1>2. ServerSane /\ JournalAgrees /\ [Next]_vars => JournalAgrees'
  <2> SUFFICES ASSUME ServerSane, JournalAgrees, [Next]_vars PROVE JournalAgrees'
    OBVIOUS
  <2> USE DEF JournalAgrees, Unwinding
  <2>1. CASE UNCHANGED vars
    BY <2>1 DEF vars
  <2>2. CASE Restart
    BY <2>2 DEF Restart, Show, Ready, ApiFailed, Successful, RolledBack, ThreadDied
  <2>3. ASSUME NEW r \in Requests, Handler(r) PROVE JournalAgrees'
    BY <2>3 DEF Handler, Accept, Refuse, Show, Initiated, ApiFailed, Successful, RolledBack, ThreadDied
  <2>4. ASSUME NEW r \in Requests, Thread(r) PROVE JournalAgrees'
    BY <2>4, JournalThread
  <2> QED BY <2>1, <2>2, <2>3, <2>4 DEF Next
<1> QED BY SaneInit, SaneStep, <1>1, <1>2, PTL DEF Spec

\* What a thread shows on its way: what it has said before the cloud's answer is
\* judged, and a verdict once it is about to clear the flag.
Asking == \A r \in Requests : pc[r] \in {"cloud", "judge"} => evoStatus = Requesting

ScreenInv == Asking /\ EndsJudged

LEMMA ScreenThread ==
    ASSUME ServerSane, ScreenInv, NEW r \in Requests, Thread(r)
    PROVE  ScreenInv'
<1> USE DEF ServerSane, TypeInv, TypeOK, ScreenInv, Asking, EndsJudged, Goto
<1>1. \A s \in Requests : s # r => pc'[s] = "idle"
  BY ThreadControl DEF ControlInv, OneEvolution, Active
<1>2. SUFFICES /\ pc'[r] \in {"cloud", "judge"} => evoStatus' = Requesting
               /\ pc'[r] = "clear" =>
                    evoStatus' \in Final \/ ("open" \in Faults /\ evoStatus' = Requesting)
  BY <1>1
<1>3. CASE CopyOpen(r) \/ CopyEnd(r) \/ CopyThrows(r)
  BY <1>3, CopyControl DEF TrialSteps
<1>4. CASE Spawn(r) \/ SpawnFails(r) \/ Begin(r) \/ ReadHistory(r) \/ Ask(r) \/ Respond(r)
  BY <1>4 DEF Spawn, SpawnFails, Begin, ReadHistory, Ask, Respond
<1>5. CASE OpenEvolved(r) \/ OpenFails(r) \/ WriteEvolved(r) \/ Announce(r) \/ WriteNote(r)
  BY <1>5 DEF OpenEvolved, OpenFails, WriteEvolved, Announce, WriteNote
<1>6. CASE FailApi(r) \/ Succeed(r) \/ RollBack(r) \/ Catch(r)
  BY <1>6 DEF FailApi, Succeed, RollBack, Catch, Show, Final
<1>7. CASE Build(r) \/ Fail(r) \/ Throw(r) \/ Clear(r)
  BY <1>7 DEF Build, Fail, Throw, Clear
<1> QED BY <1>3, <1>4, <1>5, <1>6, <1>7 DEF Thread

\* Every evolution that ends has been judged, through exceptions and failing copies,
\* unless its file did not open.  What EvolutionIsJudged adds is that it does end.
THEOREM JudgedAtTheEnd == Spec => []EndsJudged
<1>1. Init => ScreenInv
  BY DEF Init, ScreenInv, Asking, EndsJudged
<1>2. ServerSane /\ ScreenInv /\ [Next]_vars => ScreenInv'
  <2> SUFFICES ASSUME ServerSane, ScreenInv, [Next]_vars PROVE ScreenInv'
    OBVIOUS
  <2> USE DEF ScreenInv, Asking, EndsJudged
  <2>1. CASE UNCHANGED vars
    BY <2>1 DEF vars
  <2>2. CASE Restart
    BY <2>2 DEF Restart
  <2>3. ASSUME NEW r \in Requests, Handler(r) PROVE ScreenInv'
    <3>1. CASE Accept(r)
      <4>1. \A s \in Requests : pc[s] = "idle"
        BY <3>1 DEF Accept, ServerSane, ControlInv, FlagSet, Active
      <4> QED BY <3>1, <4>1 DEF Accept, Goto, ServerSane, TypeInv, TypeOK
    <3>2. CASE Refuse(r)
      BY <3>2 DEF Refuse
    <3> QED BY <2>3, <3>1, <3>2 DEF Handler
  <2>4. ASSUME NEW r \in Requests, Thread(r) PROVE ScreenInv'
    BY <2>4, ScreenThread
  <2> QED BY <2>1, <2>2, <2>3, <2>4 DEF Next
<1>3. ScreenInv => EndsJudged
  BY DEF ScreenInv
<1> QED BY SaneInit, SaneStep, <1>1, <1>2, <1>3, PTL DEF Spec

\* A verdict stands when the thread is at clear or gone, and to get there the thread
\* has just given it: the answer it judged is still the one it holds.
LEMMA AnswerStep ==
    ASSUME QuotesTag = {}
    PROVE  ServerSane /\ ApiFailedMeansFailed /\ [Next]_vars => ApiFailedMeansFailed'
<1> SUFFICES ASSUME ServerSane, ApiFailedMeansFailed, [Next]_vars PROVE ApiFailedMeansFailed'
  OBVIOUS
<1> USE DEF ApiFailedMeansFailed, ServerSane, TypeInv, TypeOK
<1>1. CASE UNCHANGED vars
  BY <1>1 DEF vars
<1>2. CASE Restart
  BY <1>2 DEF Restart
<1>3. ASSUME NEW r \in Requests, Handler(r) PROVE ApiFailedMeansFailed'
  BY <1>3 DEF Handler, Accept, Refuse, Goto, Show, Initiated, ApiFailed
<1>4. ASSUME NEW r \in Requests, Thread(r) PROVE ApiFailedMeansFailed'
  <2> USE DEF Goto
  <2>1. \A s \in Requests : s # r => pc'[s] = "idle"
    BY <1>4, ThreadControl DEF ControlInv, OneEvolution, Active
  <2>2. SUFFICES pc'[r] = "clear" /\ evoStatus' = ApiFailed => response'[r] = ApiError
    BY <2>1
  <2>3. CASE FailApi(r)
    BY <2>3 DEF FailApi, TakenForError
  <2>4. CASE OpenFails(r)
    BY <2>4 DEF OpenFails, VerdictInv, Judged, Final
  <2>5. CASE Succeed(r) \/ RollBack(r) \/ Catch(r)
    BY <2>5 DEF Succeed, RollBack, Catch, Show, ApiFailed, Successful, RolledBack, ThreadDied
  <2>6. CASE CopyOpen(r) \/ CopyEnd(r) \/ CopyThrows(r)
    BY <2>6, CopyControl DEF TrialSteps
  <2>7. CASE Spawn(r) \/ SpawnFails(r) \/ Begin(r) \/ ReadHistory(r) \/ Ask(r) \/ Respond(r)
             \/ OpenEvolved(r) \/ WriteEvolved(r)
    BY <2>7 DEF Spawn, SpawnFails, Begin, ReadHistory, Ask, Respond, OpenEvolved, WriteEvolved
  <2>8. CASE Announce(r) \/ WriteNote(r) \/ Build(r) \/ Fail(r) \/ Throw(r) \/ Clear(r)
    BY <2>8 DEF Announce, WriteNote, Build, Fail, Throw, Clear
  <2> QED BY <1>4, <2>3, <2>4, <2>5, <2>6, <2>7, <2>8 DEF Thread
<1> QED BY <1>1, <1>2, <1>3, <1>4 DEF Next

\* "Error: API Failed" is said of a call that failed, whatever else fails, if no program
\* quotes the error tag: the tag is the only cause of the false alarm.
THEOREM ApiFailedTrue == ASSUME QuotesTag = {} PROVE Spec => []ApiFailedMeansFailed
<1>1. Init => ApiFailedMeansFailed
  BY DEF Init, ApiFailedMeansFailed
<1>2. ServerSane /\ ApiFailedMeansFailed /\ [Next]_vars => ApiFailedMeansFailed'
  BY AnswerStep
<1> QED BY SaneInit, SaneStep, <1>1, <1>2, PTL DEF Spec

----------------------------------------------------------------------------
(* The executable *)

\* Between a successful build and the verdict nobody touches main.cpp.
BuiltInv ==
    /\ SuccessIsBuilt
    /\ \A r \in Requests : pc[r] = "verdict" /\ exitCode[r] = 0 => disk["main"] = binary

LEMMA BuiltThread ==
    ASSUME ServerSane, BuiltInv, NEW r \in Requests, Thread(r)
    PROVE  BuiltInv'
<1> USE DEF ServerSane, TypeInv, TypeOK, BuiltInv, SuccessIsBuilt, Goto
<1>1. \A s \in Requests : s # r => pc'[s] = "idle"
  BY ThreadControl DEF ControlInv, OneEvolution, Active
<1>2. SUFFICES /\ evoStatus' = Successful => disk'["main"] = binary'
               /\ pc'[r] = "verdict" /\ exitCode'[r] = 0 => disk'["main"] = binary'
  BY <1>1
<1>3. evoStatus = Successful => pc[r] \in {"idle", "clear", "caught"}
  BY DEF VerdictInv, Judged, Final
<1>4. CASE CopyOpen(r) \/ CopyEnd(r) \/ CopyThrows(r)
  BY <1>3, <1>4, CopyControl DEF TrialSteps
<1>5. CASE Build(r)
  <2>1. PICK x \in BuildResults(disk["main"]) :
          /\ exitCode' = [exitCode EXCEPT ![r] = x]
          /\ x = 0 => binary' = disk["main"]
    BY <1>5 DEF Build
  <2> QED BY <1>3, <1>5, <2>1 DEF Build
<1>6. CASE Succeed(r) \/ RollBack(r) \/ Catch(r) \/ FailApi(r)
  BY <1>6 DEF Succeed, RollBack, Catch, FailApi, Show, ApiFailed, Successful, RolledBack, ThreadDied
<1>7. CASE Begin(r) \/ Ask(r) \/ Announce(r)
  BY <1>7 DEF Begin, Ask, Announce, Show, Reading, Requesting, Validating, Successful
<1>8. CASE Spawn(r) \/ SpawnFails(r) \/ ReadHistory(r) \/ Respond(r) \/ OpenFails(r) \/ WriteNote(r)
  BY <1>8 DEF Spawn, SpawnFails, ReadHistory, Respond, OpenFails, WriteNote
<1>9. CASE OpenEvolved(r) \/ WriteEvolved(r) \/ Fail(r) \/ Clear(r)
  BY <1>3, <1>9 DEF OpenEvolved, WriteEvolved, Fail, Clear, Files
<1>10. CASE Throw(r)
  <2>1. evoStatus' = Successful =>
          evoStatus = Successful \/ (pc[r] = "verdict" /\ exitCode[r] = 0)
    BY <1>10, ThrowShows DEF Show, Successful, RolledBack, ApiFailed, Reading
  <2> QED BY <1>3, <1>10, <2>1 DEF Throw
<1> QED BY <1>4, <1>5, <1>6, <1>7, <1>8, <1>9, <1>10 DEF Thread

\* Whatever fails, copies included: a success on the screen is about the program that
\* was built, and main.cpp is its source.
THEOREM SuccessBuilt == Spec => []SuccessIsBuilt
<1>1. Init => BuiltInv
  BY DEF Init, BuiltInv, SuccessIsBuilt, Ready, Successful
<1>2. ServerSane /\ BuiltInv /\ [Next]_vars => BuiltInv'
  <2> SUFFICES ASSUME ServerSane, BuiltInv, [Next]_vars PROVE BuiltInv'
    OBVIOUS
  <2> USE DEF BuiltInv, SuccessIsBuilt
  <2>1. CASE UNCHANGED vars
    BY <2>1 DEF vars
  <2>2. CASE Restart
    BY <2>2 DEF Restart, Show, Ready, Successful
  <2>3. ASSUME NEW r \in Requests, Handler(r) PROVE BuiltInv'
    BY <2>3 DEF Handler, Accept, Refuse, Goto, Show, Initiated, Successful, ServerSane, TypeInv, TypeOK
  <2>4. ASSUME NEW r \in Requests, Thread(r) PROVE BuiltInv'
    BY <2>4, BuiltThread
  <2> QED BY <2>1, <2>2, <2>3, <2>4 DEF Next
<1>3. BuiltInv => SuccessIsBuilt
  BY DEF BuiltInv
<1> QED BY SaneInit, SaneStep, <1>1, <1>2, <1>3, PTL DEF Spec

----------------------------------------------------------------------------
(* What EvolutionEnds rests on *)

\* How far a thread has come.
Progress ==
    [step \in Steps |->
        CASE step = "idle" -> 0       [] step = "spawn" -> 1       [] step = "begin" -> 2
          [] step = "history" -> 3    [] step = "ask" -> 4         [] step = "cloud" -> 5
          [] step = "judge" -> 6      [] step = "write" -> 7       [] step = "announce" -> 8
          [] step = "note" -> 9       [] step = "backup" -> 10     [] step = "backingUp" -> 11
          [] step = "install" -> 12   [] step = "installing" -> 13 [] step = "build" -> 14
          [] step = "verdict" -> 15   [] step = "restore" -> 16    [] step = "restoring" -> 17
          [] step = "failed" -> 18    [] step = "caught" -> 19     [] step = "clear" -> 20]

LEMMA ProgressTable ==
    /\ Progress \in [Steps -> 0 .. 20]
    /\ Progress["idle"] = 0 /\ Progress["spawn"] = 1 /\ Progress["begin"] = 2
    /\ Progress["history"] = 3 /\ Progress["ask"] = 4 /\ Progress["cloud"] = 5
    /\ Progress["judge"] = 6 /\ Progress["write"] = 7 /\ Progress["announce"] = 8
    /\ Progress["note"] = 9 /\ Progress["backup"] = 10 /\ Progress["backingUp"] = 11
    /\ Progress["install"] = 12 /\ Progress["installing"] = 13 /\ Progress["build"] = 14
    /\ Progress["verdict"] = 15 /\ Progress["restore"] = 16 /\ Progress["restoring"] = 17
    /\ Progress["failed"] = 18 /\ Progress["caught"] = 19 /\ Progress["clear"] = 20
BY DEF Progress, Steps

\* No step of a thread leads back: an evolution takes at most twenty steps of its own,
\* whatever fails.
THEOREM ThreadsMoveForward ==
    Spec => [][\A r \in Requests : Thread(r) =>
                 pc'[r] = "idle" \/ Progress[pc[r]] < Progress[pc'[r]]]_vars
<1>1. ASSUME TypeInv, NEW r \in Requests, Thread(r)
      PROVE  pc'[r] = "idle" \/ Progress[pc[r]] < Progress[pc'[r]]
  <2>1. pc \in [Requests -> Steps]
    BY <1>1 DEF TypeInv, TypeOK
  <2>2. \A there : Goto(r, there) => pc'[r] = there
    BY <2>1 DEF Goto
  <2>3. CASE Spawn(r) \/ SpawnFails(r) \/ Begin(r) \/ ReadHistory(r) \/ Ask(r) \/ Respond(r)
    BY <2>2, <2>3, ProgressTable DEF Spawn, SpawnFails, Begin, ReadHistory, Ask, Respond
  <2>4. CASE FailApi(r) \/ OpenEvolved(r) \/ OpenFails(r) \/ WriteEvolved(r) \/ Announce(r)
             \/ WriteNote(r)
    BY <2>2, <2>4, ProgressTable
       DEF FailApi, OpenEvolved, OpenFails, WriteEvolved, Announce, WriteNote
  <2>5. CASE CopyOpen(r) \/ CopyEnd(r) \/ CopyThrows(r)
    <3>1. PICK j \in Copying :
            \/ pc[r] = j /\ pc'[r] = Copies[j].busy
            \/ pc[r] = Copies[j].busy /\ pc'[r] = Copies[j].next
            \/ pc[r] \in {j, Copies[j].busy} /\ pc'[r] = Copies[j].caught
      BY <2>2, <2>5 DEF CopyOpen, CopyEnd, CopyThrows
    <3>2. CASE j = "backup"
      BY <3>1, <3>2, CopyTable, ProgressTable
    <3>3. CASE j = "install"
      BY <3>1, <3>3, CopyTable, ProgressTable
    <3>4. CASE j = "restore"
      BY <3>1, <3>4, CopyTable, ProgressTable
    <3> QED BY <3>2, <3>3, <3>4 DEF Copying
  <2>6. CASE Build(r) \/ Succeed(r) \/ Fail(r) \/ RollBack(r)
    BY <2>2, <2>6, ProgressTable DEF Build, Succeed, Fail, RollBack
  <2>7. CASE Throw(r) \/ Catch(r) \/ Clear(r)
    BY <2>2, <2>7, ProgressTable DEF Throw, Throwing, Catch, Clear
  <2> QED BY <1>1, <2>3, <2>4, <2>5, <2>6, <2>7 DEF Thread
<1>2. TypeInv /\ [Next]_vars => TypeInv'
  BY TypeStep, WrittenStep DEF TypeInv
<1>3. TypeInv /\ [Next]_vars =>
        [\A r \in Requests : Thread(r) =>
           pc'[r] = "idle" \/ Progress[pc[r]] < Progress[pc'[r]]]_vars
  BY <1>1
<1> QED BY TypeInit, <1>2, <1>3, PTL DEF Spec

\* ... and it never waits for another one: g_state_mtx is free or its own.  Of
\* EvolutionEnds only scheduling is left.
THEOREM EvolutionWaitsForNobody == Spec => [](\A r \in Requests : Active(r) => mtx \in {Free, r})
<1>1. ServerSane /\ LockedWhileRollingBack =>
        (\A r \in Requests : Active(r) => mtx \in {Free, r})
  <2> SUFFICES ASSUME ServerSane, LockedWhileRollingBack, NEW r \in Requests, Active(r),
                      mtx \notin {Free, r}
               PROVE  FALSE
    OBVIOUS
  <2>1. mtx \in Requests /\ Active(mtx)
    BY DEF ServerSane, TypeInv, TypeOK, LockedWhileRollingBack, RollbackSteps, Active
  <2> QED BY <2>1 DEF ServerSane, ControlInv, OneEvolution
<1> QED BY SaneInit, SaneStep, LockIsRollback, <1>1, PTL DEF Spec

----------------------------------------------------------------------------
(* The last copy that compiles *)

\* While main.cpp is copied away it is still what the trial began with; while it is
\* replaced the backup is; a restoring copy that has emptied main.cpp has left it torn.
CopiesInv ==
    \A r \in Requests :
        /\ pc[r] \in {"backup", "backingUp"}   => disk["main"] = before
        /\ pc[r] \in {"install", "installing"} => disk["backup"] = before
        /\ pc[r] = "restoring"                 => disk["main"] = Torn

\* Only three kinds of step write to main.cpp or to its backup, or move between
\* the steps of a copy.
LEMMA OtherSteps ==
    ASSUME NEW r \in Requests, Thread(r), TypeOK,
           ~(CopyOpen(r) \/ CopyEnd(r) \/ CopyThrows(r) \/ WriteNote(r))
    PROVE  /\ disk'["main"] = disk["main"] /\ disk'["backup"] = disk["backup"]
           /\ UNCHANGED before
           /\ \E there \in Steps \ {"backup", "backingUp", "install", "installing", "restoring"} :
                 Goto(r, there)
<1> USE DEF TypeOK, Files
<1>1. CASE Spawn(r) \/ SpawnFails(r) \/ Begin(r) \/ ReadHistory(r) \/ Ask(r) \/ Respond(r)
  BY <1>1 DEF Spawn, SpawnFails, Begin, ReadHistory, Ask, Respond, Steps
<1>2. CASE FailApi(r) \/ OpenEvolved(r) \/ OpenFails(r) \/ WriteEvolved(r) \/ Announce(r)
  BY <1>2 DEF FailApi, OpenEvolved, OpenFails, WriteEvolved, Announce, Steps
<1>3. CASE Build(r) \/ Succeed(r) \/ Fail(r) \/ RollBack(r) \/ Throw(r) \/ Catch(r) \/ Clear(r)
  BY <1>3 DEF Build, Succeed, Fail, RollBack, Throw, Catch, Clear, Steps
<1> QED BY <1>1, <1>2, <1>3 DEF Thread

LEMMA CopiesThread ==
    ASSUME TypeInv, ControlInv, CopiesInv, NEW r \in Requests, Thread(r)
    PROVE  /\ CopiesInv'
           /\ Good /\ ~Good' => before \notin Compiling \/ RestoresStaleBackup
<1> USE DEF TypeInv, TypeOK, CopiesInv
<1>1. \A s \in Requests : s # r => pc'[s] = "idle"
  BY ThreadControl DEF Goto, ControlInv, OneEvolution, Active
<1> DEFINE Kept ==
      /\ pc'[r] \in {"backup", "backingUp"}   => disk'["main"] = before'
      /\ pc'[r] \in {"install", "installing"} => disk'["backup"] = before'
      /\ pc'[r] = "restoring"                 => disk'["main"] = Torn
<1>2. SUFFICES Kept /\ (Good /\ ~Good' => before \notin Compiling \/ RestoresStaleBackup)
  BY <1>1
<1>3. Torn \notin Compiling
  BY Sources, Markers
<1> USE DEF Good, Goto, Files
<1>4. CASE CopyOpen(r)
  <2>1. PICK j \in Copying : /\ pc[r] = j /\ pc' = [pc EXCEPT ![r] = Copies[j].busy]
                             /\ disk' = [disk EXCEPT ![Copies[j].to] = Torn]
                             /\ UNCHANGED before
    BY <1>4 DEF CopyOpen
  <2>2. CASE j = "backup"
    BY <2>1, <2>2, CopyTable
  <2>3. CASE j = "install"
    BY <2>1, <2>3, CopyTable
  <2>4. CASE j = "restore"
    BY <2>1, <2>4, CopyTable DEF RestoresStaleBackup
  <2> QED BY <2>2, <2>3, <2>4 DEF Copying
<1>5. CASE CopyEnd(r)
  <2>1. PICK j \in Copying : /\ pc[r] = Copies[j].busy
                             /\ pc' = [pc EXCEPT ![r] = Copies[j].next]
                             /\ disk' = [disk EXCEPT ![Copies[j].to] = disk[Copies[j].from]]
                             /\ UNCHANGED before
    BY <1>5 DEF CopyEnd
  <2>2. CASE j = "backup"
    BY <2>1, <2>2, CopyTable
  <2>3. CASE j = "install"
    BY <2>1, <2>3, CopyTable
  <2>4. CASE j = "restore"
    BY <1>3, <2>1, <2>4, CopyTable
  <2> QED BY <2>2, <2>3, <2>4 DEF Copying
<1>6. CASE CopyThrows(r)
  <2>1. PICK j \in Copying : pc' = [pc EXCEPT ![r] = Copies[j].caught] /\ UNCHANGED <<disk, before>>
    BY <1>6 DEF CopyThrows
  <2>2. Copies[j].caught \in {"build", "failed"}
    BY CopyTable DEF Copying
  <2> QED BY <2>1, <2>2
<1>7. CASE WriteNote(r)
  BY <1>7 DEF WriteNote
<1>8. CASE ~(CopyOpen(r) \/ CopyEnd(r) \/ CopyThrows(r) \/ WriteNote(r))
  <2>1. PICK there \in Steps \ {"backup", "backingUp", "install", "installing", "restoring"} :
          pc' = [pc EXCEPT ![r] = there]
    BY <1>8, OtherSteps
  <2>2. disk'["main"] = disk["main"] /\ disk'["backup"] = disk["backup"] /\ UNCHANGED before
    BY <1>8, OtherSteps
  <2> QED BY <2>1, <2>2
<1> QED BY <1>4, <1>5, <1>6, <1>7, <1>8

LEMMA CopiesStep ==
    ASSUME TypeInv, ControlInv, CopiesInv, [Next]_vars
    PROVE  /\ CopiesInv'
           /\ Good /\ ~Good' => before \notin Compiling \/ RestoresStaleBackup
<1> USE DEF TypeInv, TypeOK, CopiesInv, Good
<1>1. CASE UNCHANGED vars
  BY <1>1 DEF vars
<1>2. CASE Restart
  BY <1>2 DEF Restart
<1>3. ASSUME NEW r \in Requests, Handler(r) PROVE CopiesInv' /\ Good' = Good
  BY <1>3 DEF Handler, Accept, Refuse, Goto
<1>4. ASSUME NEW r \in Requests, Thread(r)
      PROVE  CopiesInv' /\ (Good /\ ~Good' => before \notin Compiling \/ RestoresStaleBackup)
  BY <1>4, CopiesThread
<1> QED BY <1>1, <1>2, <1>3, <1>4 DEF Next

\* For any requests, sources and faults, kills at every step included: the last copy
\* of main.cpp that compiles is lost only in a trial that began on a broken main.cpp
\* or in a rollback from a backup the trial did not make.
THEOREM LossCaused == Spec => LossHasACause
<1>1. Init => ControlInv /\ CopiesInv
  BY DEF Init, ControlInv, OneEvolution, FlagSet, Active, CopiesInv
<1>2. TypeInv /\ [Next]_vars => TypeInv'
  BY TypeStep, WrittenStep DEF TypeInv
<1>3. TypeInv /\ ControlInv /\ CopiesInv /\ [Next]_vars =>
        /\ CopiesInv'
        /\ [Good /\ ~Good' => before \notin Compiling \/ RestoresStaleBackup]_vars
  BY CopiesStep
<1> QED BY TypeInit, ControlStep, <1>1, <1>2, <1>3, PTL DEF Spec, LossHasACause
=============================================================================
