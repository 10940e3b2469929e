---------------------------- MODULE TrialProofs ----------------------------
(***************************************************************************)
(* What a trial does to main.cpp, main_backup.cpp, main_evolved.cpp and    *)
(* the executable, for every set of requests and sources.  Where copies    *)
(* succeed, what the page says of the files is true, though the process is *)
(* killed and exceptions fly at any step; where it is not killed and       *)
(* nothing throws either, the source survives and Trainer is implemented.  *)
(***************************************************************************)
EXTENDS EvolutionProofs

USE DEF shown, locals

CopiesSucceed == "copy" \notin Faults
Orderly == Faults \cap {"copy", "throw", "crash"} = {}

\* The steps between the backup and the verdict: main.cpp is a draft.
Draft == {"install", "installing", "build", "verdict", "restore", "restoring", "failed"}

\* The steps that need main_evolved.cpp to be there.
Evolved == {"write", "announce", "note", "backup", "backingUp", "install", "installing"}

\* What the active thread may rely on while copies succeed: main.cpp as it was when
\* the trial began stays in the backup as long as main.cpp is a draft; after the
\* installing copy main.cpp is the draft, and after a successful build so is the
\* executable.
Kept(r) ==
    /\ pc[r] \in {"backup", "backingUp"} => disk["main"] = before
    /\ pc[r] \in Draft => disk["backup"] = before
    /\ pc[r] \in Evolved => disk["evolved"] # NoFile
    /\ pc[r] \in {"build", "verdict"} => disk["main"] = disk["evolved"]
    /\ pc[r] = "verdict" /\ exitCode[r] = 0 => disk["main"] = binary
    /\ pc[r] = "failed" => disk["main"] = before

TrialInv ==
    /\ \A r \in Requests : Active(r) => Kept(r)
    /\ disk["main"] # NoFile /\ before # NoFile
    /\ SuccessIsInstalled /\ RollbackRestores

\* ... and in an orderly evolution: the source before a trial compiles, and so does a
\* draft that was built.
Sound(r) ==
    /\ pc[r] # "caught"
    /\ pc[r] \notin Draft => disk["main"] \in Compiling
    /\ pc[r] \in Draft => before \in Compiling
    /\ pc[r] = "verdict" /\ exitCode[r] = 0 => disk["main"] \in Compiling

SourceInv ==
    /\ \A r \in Requests : Active(r) => Sound(r)
    /\ SourceCompilesAtRest

KeptInv == ServerSane /\ TrialInv
AllInv  == KeptInv /\ SourceInv

\* An active thread is alone, and after a step of its own so is whatever it has become.
LEMMA Alone ==
    ASSUME ServerSane, NEW r \in Requests, Thread(r)
    PROVE  \A s \in Requests : s # r => pc[s] = "idle" /\ pc'[s] = "idle"
<1> USE DEF ServerSane, TypeInv, TypeOK, ControlInv
<1>1. \A s \in Requests : s # r => pc[s] = "idle"
  BY ThreadControl DEF OneEvolution, Active
<1> QED BY <1>1, ThreadControl DEF Goto

\* Where copies succeed, one throws only when its source is missing.
LEMMA CopyMoves ==
    ASSUME CopiesSucceed, NEW r \in Requests, CopyOpen(r) \/ CopyEnd(r) \/ CopyThrows(r)
    PROVE  \E j \in Copying :
             \/ /\ pc[r] = j /\ Goto(r, Copies[j].busy)
                /\ disk' = [disk EXCEPT ![Copies[j].to] = Torn]
             \/ /\ pc[r] = Copies[j].busy /\ Goto(r, Copies[j].next)
                /\ disk' = [disk EXCEPT ![Copies[j].to] = disk[Copies[j].from]]
             \/ pc[r] = j /\ disk[Copies[j].from] = NoFile
<1>1. CASE CopyOpen(r)
  BY <1>1 DEF CopyOpen
<1>2. CASE CopyEnd(r)
  BY <1>2 DEF CopyEnd
<1>3. CASE CopyThrows(r)
  BY <1>3 DEF CopyThrows, CopiesSucceed
<1> QED BY <1>1, <1>2, <1>3

\* The six half-copies of a trial: no file a copy needs is missing, and each leaves
\* what the next step relies on.
LEMMA Copied ==
    ASSUME KeptInv, CopiesSucceed, NEW r \in Requests, CopyOpen(r) \/ CopyEnd(r) \/ CopyThrows(r)
    PROVE  /\ Kept(r)' /\ disk'["main"] # NoFile
           /\ pc[r] = "backup"     => pc'[r] = "backingUp" /\ disk'["main"] = disk["main"]
           /\ pc[r] = "backingUp"  => pc'[r] = "install" /\ disk'["main"] = disk["main"]
           /\ pc[r] = "install"    => pc'[r] = "installing"
           /\ pc[r] = "installing" => pc'[r] = "build"
           /\ pc[r] = "restore"    => pc'[r] = "restoring"
           /\ pc[r] = "restoring"  => pc'[r] = "failed"
           /\ pc[r] \in {"backup", "backingUp", "install", "installing", "restore", "restoring"}
<1>1. /\ UNCHANGED <<binary, before>> /\ disk \in [Files -> Content]
      /\ pc \in [Requests -> Steps] /\ Kept(r) /\ disk["main"] # NoFile /\ before # NoFile
  BY CopyControl DEF KeptInv, ServerSane, TypeInv, TypeOK, TrialInv, Active, TrialSteps
<1>2. PICK j \in Copying :
        \/ /\ pc[r] = j /\ Goto(r, Copies[j].busy)
           /\ disk' = [disk EXCEPT ![Copies[j].to] = Torn]
        \/ /\ pc[r] = Copies[j].busy /\ Goto(r, Copies[j].next)
           /\ disk' = [disk EXCEPT ![Copies[j].to] = disk[Copies[j].from]]
        \/ pc[r] = j /\ disk[Copies[j].from] = NoFile
  BY CopyMoves
<1>3. Torn # NoFile
  BY Markers
<1> USE DEF Kept, Goto, Draft, Evolved, Files
<1>4. CASE j = "backup"
  BY <1>1, <1>2, <1>3, <1>4, CopyTable
<1>5. CASE j = "install"
  BY <1>1, <1>2, <1>3, <1>5, CopyTable
<1>6. CASE j = "restore"
  BY <1>1, <1>2, <1>3, <1>6, CopyTable
<1> QED BY <1>4, <1>5, <1>6 DEF Copying

\* The other steps of a thread, an exception and its catch included.
LEMMA Moved ==
    ASSUME KeptInv, NEW r \in Requests, Thread(r),
           ~(CopyOpen(r) \/ CopyEnd(r) \/ CopyThrows(r))
    PROVE  /\ Kept(r)' /\ disk'["main"] = disk["main"] /\ before' \in {before, disk["main"]}
           /\ SuccessIsInstalled' /\ RollbackRestores'
<1>1. /\ disk \in [Files -> Content] /\ pc \in [Requests -> Steps]
      /\ exitCode \in [Requests -> {0, 1}] /\ Kept(r)
  BY ThreadControl DEF KeptInv, ServerSane, TypeInv, TypeOK, TrialInv
<1>2. /\ SuccessIsInstalled /\ RollbackRestores
      /\ evoStatus \in {Successful, RolledBack} => pc[r] \in {"idle", "clear", "caught"}
  BY DEF KeptInv, ServerSane, TrialInv, VerdictInv, Judged, Final
<1>3. NoFile \notin Code /\ NoFile # Torn
  BY Markers
<1> USE DEF Kept, Goto, Draft, Evolved, Files, SuccessIsInstalled, RollbackRestores
<1>4. CASE Spawn(r) \/ SpawnFails(r) \/ ReadHistory(r) \/ Respond(r) \/ OpenFails(r) \/ Clear(r)
  BY <1>1, <1>2, <1>4 DEF Spawn, SpawnFails, ReadHistory, Respond, OpenFails, Clear
<1>5. CASE Begin(r) \/ Ask(r) \/ Announce(r) \/ FailApi(r) \/ Catch(r)
  BY <1>1, <1>2, <1>5 DEF Begin, Ask, Announce, FailApi, Catch, Show, Successful, RolledBack, ApiFailed,
                          ThreadDied, Reading, Requesting, Validating
<1>6. CASE OpenEvolved(r)
  BY <1>1, <1>2, <1>3, <1>6 DEF OpenEvolved
<1>7. CASE WriteEvolved(r)
  <2>1. response[r] \in Code
    BY <1>7 DEF WriteEvolved, KeptInv, ServerSane, TypeInv, Written
  <2> QED BY <1>1, <1>2, <1>3, <1>7, <2>1 DEF WriteEvolved
<1>8. CASE WriteNote(r)
  BY <1>1, <1>2, <1>8 DEF WriteNote
<1>9. CASE Build(r)
  <2>1. PICK x \in BuildResults(disk["main"]) :
          /\ exitCode' = [exitCode EXCEPT ![r] = x]
          /\ x = 0 => binary' = disk["main"]
    BY <1>9 DEF Build
  <2> QED BY <1>1, <1>2, <1>9, <2>1 DEF Build
<1>10. CASE Succeed(r)
  BY <1>1, <1>10 DEF Succeed, Show, Successful, RolledBack
<1>11. CASE Fail(r)
  BY <1>1, <1>2, <1>11 DEF Fail
<1>12. CASE RollBack(r)
  BY <1>1, <1>12 DEF RollBack, Show, Successful, RolledBack
<1>13. CASE Throw(r)
  <2>1. Kept(r)' /\ UNCHANGED <<disk, binary, before>>
    BY <1>1, <1>13 DEF Throw
  <2>2. /\ evoStatus' = Successful =>
             evoStatus = Successful \/ (pc[r] = "verdict" /\ exitCode[r] = 0)
        /\ evoStatus' = RolledBack => evoStatus = RolledBack \/ pc[r] = "failed"
    BY <1>13, ThrowShows DEF Show, Successful, RolledBack, ApiFailed, Reading
  <2> QED BY <1>1, <1>2, <2>1, <2>2
<1> QED BY <1>4, <1>5, <1>6, <1>7, <1>8, <1>9, <1>10, <1>11, <1>12, <1>13 DEF Thread

LEMMA TrialStep == CopiesSucceed /\ KeptInv /\ [Next]_vars => TrialInv'
<1> SUFFICES ASSUME CopiesSucceed, KeptInv, [Next]_vars PROVE TrialInv' OBVIOUS
<1> USE DEF TrialInv
<1>1. CASE UNCHANGED vars
  BY <1>1 DEF vars, KeptInv, Kept, Active, SuccessIsInstalled, RollbackRestores
<1>2. CASE Restart
  BY <1>2 DEF Restart, KeptInv, Active, Show, SuccessIsInstalled, RollbackRestores, Ready,
              Successful, RolledBack
<1>3. ASSUME NEW r \in Requests, Handler(r) PROVE TrialInv'
  <2>1. CASE Accept(r)
    BY <2>1 DEF Accept, KeptInv, ServerSane, TypeInv, TypeOK, Goto, Show, Kept, Active, Draft, Evolved,
                SuccessIsInstalled, RollbackRestores, Initiated, Successful, RolledBack
  <2>2. CASE Refuse(r)
    BY <2>2 DEF Refuse, KeptInv, Kept, Active, SuccessIsInstalled, RollbackRestores
  <2> QED BY <1>3, <2>1, <2>2 DEF Handler
<1>4. ASSUME NEW r \in Requests, Thread(r) PROVE TrialInv'
  <2>1. \A s \in Requests : Active(s)' => s = r
    BY <1>4, Alone DEF KeptInv, Active
  <2>2. CASE CopyOpen(r) \/ CopyEnd(r) \/ CopyThrows(r)
    <3>1. UNCHANGED <<evoStatus, before>> /\ pc[r] \notin {"idle", "clear", "caught"}
      BY <2>2, CopyControl DEF TrialSteps
    <3>2. evoStatus \notin Judged
      BY <3>1 DEF KeptInv, ServerSane, VerdictInv
    <3>3. SuccessIsInstalled' /\ RollbackRestores'
      BY <3>1, <3>2 DEF SuccessIsInstalled, RollbackRestores, Judged, Final
    <3> QED BY <2>1, <2>2, <3>1, <3>3, Copied DEF KeptInv
  <2>3. CASE ~(CopyOpen(r) \/ CopyEnd(r) \/ CopyThrows(r))
    BY <1>4, <2>1, <2>3, Moved DEF KeptInv
  <2> QED BY <2>2, <2>3
<1> QED BY <1>1, <1>2, <1>3, <1>4 DEF Next

LEMMA KeptInductive == ASSUME CopiesSucceed PROVE Spec => []KeptInv
<1>1. Init => KeptInv
  <2>1. Init => TrialInv
    BY Sources, Markers DEF Init, TrialInv, Active, SuccessIsInstalled, RollbackRestores, Files,
       Ready, Successful, RolledBack
  <2> QED BY <2>1, SaneInit DEF KeptInv
<1>2. KeptInv /\ [Next]_vars => KeptInv'
  BY SaneStep, TrialStep DEF KeptInv
<1> QED BY <1>1, <1>2, PTL DEF Spec

\* A rollback the page reports has happened: main.cpp is what the trial began with.
\* It takes a failing copy to make it a lie; kills and exceptions cannot.
THEOREM RollbackTrue == ASSUME CopiesSucceed PROVE Spec => []RollbackRestores
<1>1. KeptInv => RollbackRestores
  BY DEF KeptInv, TrialInv
<1> QED BY KeptInductive, <1>1, PTL

\* A success the page reports is the cloud's source, installed and built, unless a
\* copy has failed; kills and exceptions do not make it untrue.
THEOREM SuccessTrue == ASSUME CopiesSucceed PROVE Spec => []SuccessIsInstalled
<1>1. KeptInv => SuccessIsInstalled
  BY DEF KeptInv, TrialInv
<1> QED BY KeptInductive, <1>1, PTL

----------------------------------------------------------------------------
(* Orderly evolutions *)

\* A step of an orderly evolution keeps the sources as Sound says, and the last one
\* leaves a main.cpp that compiles.
LEMMA SoundStep ==
    ASSUME AllInv, Orderly, NEW r \in Requests, Thread(r)
    PROVE  Sound(r)' /\ (~Active(r)' => disk'["main"] \in Compiling)
<1>1. /\ disk \in [Files -> Content] /\ pc \in [Requests -> Steps]
      /\ exitCode \in [Requests -> {0, 1}] /\ Active(r) /\ Kept(r) /\ Sound(r)
  BY ThreadControl DEF AllInv, KeptInv, ServerSane, TypeInv, TypeOK, TrialInv, SourceInv
<1> USE DEF Sound, Active, Goto, Draft
<1>2. CASE CopyOpen(r) \/ CopyEnd(r) \/ CopyThrows(r)
  BY <1>1, <1>2, Copied, CopyControl DEF AllInv, Orderly, CopiesSucceed, Kept
<1>3. CASE Build(r)
  <2>1. PICK x \in BuildResults(disk["main"]) :
          /\ exitCode' = [exitCode EXCEPT ![r] = x]
          /\ x = 0 => disk["main"] \in Compiling
    BY <1>3 DEF Build
  <2> QED BY <1>1, <1>3, <2>1 DEF Build
<1>4. CASE Succeed(r) \/ Fail(r) \/ RollBack(r)
  BY <1>1, <1>4 DEF Succeed, Fail, RollBack, Kept
<1>5. CASE WriteNote(r)
  BY <1>1, <1>5 DEF WriteNote
<1>6. CASE OpenEvolved(r) \/ WriteEvolved(r)
  BY <1>1, <1>6 DEF OpenEvolved, WriteEvolved, Files
<1>7. CASE Throw(r) \/ Catch(r)
  BY <1>1, <1>7 DEF Throw, Catch, Orderly
<1>8. CASE Spawn(r) \/ SpawnFails(r) \/ Begin(r) \/ ReadHistory(r) \/ Ask(r) \/ Respond(r)
  BY <1>1, <1>8 DEF Spawn, SpawnFails, Begin, ReadHistory, Ask, Respond
<1>9. CASE FailApi(r) \/ OpenFails(r) \/ Announce(r) \/ Clear(r)
  BY <1>1, <1>9 DEF FailApi, OpenFails, Announce, Clear
<1> QED BY <1>2, <1>3, <1>4, <1>5, <1>6, <1>7, <1>8, <1>9 DEF Thread

LEMMA SourceStep == Orderly /\ AllInv /\ [Next]_vars => SourceInv'
<1> SUFFICES ASSUME Orderly, AllInv, [Next]_vars PROVE SourceInv' OBVIOUS
<1> USE DEF SourceInv, SourceCompilesAtRest
<1>1. CASE UNCHANGED vars
  BY <1>1 DEF vars, AllInv, Sound, Active
<1>2. CASE Restart
  BY <1>2 DEF Restart, AllInv, Sound, Orderly, Active
<1>3. ASSUME NEW r \in Requests, Handler(r) PROVE SourceInv'
  <2>1. CASE Accept(r)
    <3>1. \A s \in Requests : ~Active(s)
      BY <2>1 DEF Accept, AllInv, KeptInv, ServerSane, ControlInv, FlagSet
    <3>2. UNCHANGED disk /\ pc' = [pc EXCEPT ![r] = "spawn"] /\ pc \in [Requests -> Steps]
      BY <2>1 DEF Accept, AllInv, KeptInv, ServerSane, TypeInv, TypeOK, Goto
    <3> QED BY <3>1, <3>2 DEF AllInv, Sound, Active, Draft
  <2>2. CASE Refuse(r)
    BY <2>2 DEF Refuse, AllInv, Sound, Active
  <2> QED BY <1>3, <2>1, <2>2 DEF Handler
<1>4. ASSUME NEW r \in Requests, Thread(r) PROVE SourceInv'
  <2>1. \A s \in Requests : s # r => ~Active(s)'
    BY <1>4, Alone DEF AllInv, KeptInv, Active
  <2> QED BY <1>4, <2>1, SoundStep
<1> QED BY <1>1, <1>2, <1>3, <1>4 DEF Next

LEMMA AllInductive == ASSUME Orderly PROVE Spec => []AllInv
<1>1. Init => SourceInv
  BY Sources DEF Init, SourceInv, Active, SourceCompilesAtRest, Files
<1>2. CopiesSucceed
  BY DEF Orderly, CopiesSucceed
<1>3. KeptInv /\ SourceInv /\ [Next]_vars => SourceInv'
  BY SourceStep DEF AllInv
<1>4. Spec => []KeptInv
  BY <1>2, KeptInductive
<1>5. AllInv <=> KeptInv /\ SourceInv
  BY DEF AllInv
<1> QED BY <1>1, <1>3, <1>4, <1>5, PTL DEF Spec

\* Between evolutions main.cpp compiles: no answer of the cloud, torn write or
\* failing build leaves a broken source behind.
THEOREM SourceSafe == ASSUME Orderly PROVE Spec => []SourceCompilesAtRest
<1>1. AllInv => SourceCompilesAtRest
  BY DEF AllInv, SourceInv
<1> QED BY AllInductive, <1>1, PTL

\* At every instant of an evolution main.cpp or its backup compiles: whenever the
\* process is killed for the first time, what the trial began with can be had again.
\* (Crashes are not in the premise, since a second evolution after one begins on a
\* torn main.cpp and backs that up: see LossHasACause.)
THEOREM NeverWithoutACopy == ASSUME Orderly PROVE Spec => []SourceRecoverable
<1>1. ASSUME AllInv, NEW r \in Requests, Active(r) PROVE Good
  <2>1. Sound(r) /\ Kept(r)
    BY <1>1 DEF AllInv, KeptInv, TrialInv, SourceInv
  <2>2. CASE pc[r] \in Draft
    BY <2>1, <2>2 DEF Sound, Kept, Good
  <2>3. CASE pc[r] \notin Draft
    BY <2>1, <2>3 DEF Sound, Good
  <2> QED BY <2>2, <2>3
<1>2. ASSUME AllInv, \A r \in Requests : ~Active(r) PROVE Good
  BY <1>2 DEF AllInv, SourceInv, SourceCompilesAtRest, Good
<1>3. AllInv => SourceRecoverable
  BY <1>1, <1>2 DEF SourceRecoverable
<1> QED BY AllInductive, <1>3, PTL

----------------------------------------------------------------------------
(* Evolution implements Trainer: every step is one of its steps or a       *)
(* stutter under the mapping of Evolution.tla.                             *)

Source == IF OnTrial THEN before ELSE disk["main"]

LEMMA Mapping ==
    ASSUME AllInv, NEW r \in Requests, Active(r)
    PROVE  /\ OnTrial <=> pc[r] \in Draft
           /\ pc[r] # "clear" => Outcome = "pending"
<1> USE DEF AllInv, KeptInv, ServerSane
<1>1. \A s \in Requests : s # r => pc[s] = "idle"
  BY DEF ControlInv, OneEvolution, Active
<1>2. OnTrial <=> pc[r] \in Draft
  BY <1>1 DEF OnTrial, Draft
<1>3. ASSUME pc[r] # "clear" PROVE Outcome = "pending"
  <2>1. evoStatus \notin Judged
    BY <1>3 DEF VerdictInv, Active, SourceInv, Sound
  <2> QED BY <2>1 DEF Outcome, Judged, Final
<1> QED BY <1>2, <1>3

\* A step of thread r seen from Trainer.
LEMMA ThreadImplements ==
    ASSUME AllInv, AllInv', Orderly, NEW r \in Requests, Thread(r)
    PROVE  Abstract!Next \/ UNCHANGED <<Source, Outcome>>
<1>1. Active(r) /\ Kept(r) /\ Sound(r)
  BY ThreadControl DEF AllInv, KeptInv, ServerSane, TrialInv, SourceInv
<1>2. OnTrial' <=> pc'[r] \in Draft
  BY Alone DEF AllInv, KeptInv, OnTrial, Draft
<1>3. OnTrial <=> pc[r] \in Draft
  BY <1>1, Mapping
<1>4. pc[r] # "clear" => Outcome = "pending"
  BY <1>1, Mapping
<1>5. pc \in [Requests -> Steps] /\ disk \in [Files -> Content]
  BY DEF AllInv, KeptInv, ServerSane, TypeInv, TypeOK
<1> USE DEF Source, Goto, Draft
<1>6. CASE CopyOpen(r) \/ CopyEnd(r) \/ CopyThrows(r)
  <2>1. UNCHANGED <<evoStatus, before>>
    BY <1>6, CopyControl
  <2>2. UNCHANGED Outcome
    BY <2>1 DEF Outcome
  <2>3. UNCHANGED Source
    BY <1>1, <1>2, <1>3, <1>6, <2>1, Copied DEF AllInv, Orderly, CopiesSucceed, Kept
  <2> QED BY <2>2, <2>3
<1>7. CASE Spawn(r) \/ SpawnFails(r) \/ ReadHistory(r) \/ Respond(r) \/ OpenFails(r)
  BY <1>2, <1>3, <1>5, <1>7 DEF Spawn, SpawnFails, ReadHistory, Respond, OpenFails, Outcome
<1>8. CASE OpenEvolved(r) \/ WriteEvolved(r)
  BY <1>2, <1>3, <1>5, <1>8 DEF OpenEvolved, WriteEvolved, Outcome, Files
<1>9. CASE Begin(r) \/ Ask(r) \/ Announce(r)
  <2>1. Outcome = "pending" /\ Outcome' = "pending"
    BY <1>4, <1>9 DEF Begin, Ask, Announce, Show, Outcome, Final, Ready, Reading, Requesting,
       Validating, ApiFailed, Successful, RolledBack, ThreadDied
  <2> QED BY <1>2, <1>3, <1>5, <1>9, <2>1 DEF Begin, Ask, Announce
<1>10. CASE FailApi(r)
  <2>1. Outcome = "pending" /\ Outcome' = "kept"
    BY <1>4, <1>10 DEF FailApi, Show, Outcome, Final, Ready, ApiFailed, Successful, RolledBack,
       ThreadDied
  <2>2. UNCHANGED Source
    BY <1>2, <1>3, <1>5, <1>10 DEF FailApi
  <2> QED BY <2>1, <2>2 DEF Abstract!Next, Abstract!Keep
<1>11. CASE WriteNote(r) \/ Build(r) \/ Fail(r) \/ Clear(r)
  BY <1>2, <1>3, <1>5, <1>11 DEF WriteNote, Build, Fail, Clear, Outcome
<1>12. CASE Succeed(r)
  <2>1. Outcome = "pending" /\ Outcome' = "committed"
    BY <1>4, <1>12 DEF Succeed, Show, Outcome, Final, Ready, ApiFailed, Successful, RolledBack,
       ThreadDied
  <2>2. Source' \in Compiling
    BY <1>1, <1>2, <1>5, <1>12 DEF Succeed, Sound
  <2> QED BY <2>1, <2>2 DEF Abstract!Next, Abstract!Commit
<1>13. CASE RollBack(r)
  <2>1. Outcome = "pending" /\ Outcome' = "kept"
    BY <1>4, <1>13 DEF RollBack, Show, Outcome, Final, Ready, ApiFailed, Successful, RolledBack,
       ThreadDied
  <2>2. UNCHANGED Source
    BY <1>1, <1>2, <1>3, <1>5, <1>13 DEF RollBack, Kept
  <2> QED BY <2>1, <2>2 DEF Abstract!Next, Abstract!Keep
<1>14. CASE Throw(r) \/ Catch(r)
  BY <1>1, <1>14 DEF Throw, Catch, Orderly, Sound
<1> QED BY <1>6, <1>7, <1>8, <1>9, <1>10, <1>11, <1>12, <1>13, <1>14 DEF Thread

\* Seen from outside, an evolution is one request followed by one judgement, and
\* main.cpp only ever becomes a source that compiles.
THEOREM ImplementsTrainerOrderly == ASSUME Orderly PROVE Spec => ImplementsTrainer
<1>1. Init => Abstract!Init
  <2>1. Init => ~OnTrial /\ Outcome = "ready"
    BY DEF Init, OnTrial, Outcome, Final, Ready, ApiFailed, Successful, RolledBack, ThreadDied
  <2> QED BY <2>1 DEF Init, Abstract!Init, Files
<1>2. ASSUME AllInv, AllInv', [Next]_vars
      PROVE  [Abstract!Next]_<<Source, Outcome>>
  <2>1. CASE UNCHANGED vars
    BY <2>1 DEF vars, Source, OnTrial, Outcome
  <2>2. CASE Restart
    <3>1. (\A r \in Requests : pc[r] = "idle") /\ (\A r \in Requests : pc'[r] = "idle")
      BY <2>2 DEF Restart, Orderly, Active
    <3>2. ~OnTrial /\ ~OnTrial'
      BY <3>1 DEF OnTrial
    <3>3. Outcome' = "ready"
      BY <2>2 DEF Restart, Show, Outcome, Final, Ready, ApiFailed, Successful, RolledBack,
         ThreadDied
    <3> QED BY <2>2, <3>2, <3>3 DEF Restart, Source, Abstract!Next, Abstract!Reboot
  <2>3. ASSUME NEW r \in Requests, Handler(r)
        PROVE  Abstract!Next \/ UNCHANGED <<Source, Outcome>>
    <3>1. CASE Accept(r)
      <4>1. \A s \in Requests : pc[s] = "idle"
        BY <3>1, <1>2 DEF Accept, AllInv, KeptInv, ServerSane, ControlInv, FlagSet, Active
      <4>2. ~OnTrial
        BY <4>1 DEF OnTrial
      <4>3. \A s \in Requests : pc'[s] \in {"idle", "spawn"}
        BY <3>1, <4>1, <1>2 DEF Accept, Goto, AllInv, KeptInv, ServerSane, TypeInv, TypeOK
      <4>4. ~OnTrial'
        BY <4>3 DEF OnTrial
      <4>5. Outcome' = "pending"
        BY <3>1 DEF Accept, Show, Outcome, Final, Initiated, Ready, ApiFailed, Successful,
           RolledBack, ThreadDied
      <4> QED BY <3>1, <4>2, <4>4, <4>5 DEF Accept, Source, Abstract!Next, Abstract!Request
    <3>2. CASE Refuse(r)
      BY <3>2 DEF Refuse, Source, OnTrial, Outcome
    <3> QED BY <2>3, <3>1, <3>2 DEF Handler
  <2>4. ASSUME NEW r \in Requests, Thread(r)
        PROVE  Abstract!Next \/ UNCHANGED <<Source, Outcome>>
    BY <1>2, <2>4, ThreadImplements
  <2> QED BY <1>2, <2>1, <2>2, <2>3, <2>4 DEF Next
<1> QED BY <1>1, <1>2, AllInductive, PTL DEF Spec, ImplementsTrainer, Abstract!Spec, Source
=============================================================================
