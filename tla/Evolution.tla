----------------------------- MODULE Evolution -----------------------------
(***************************************************************************)
(* The self-evolution of Noah_ASI (src/main.cpp): the handler of POST      *)
(* /api/evolve, the detached thread it starts, the files the thread        *)
(* rewrites and the state g_state_mtx guards.                              *)
(*                                                                         *)
(* A member of Requests is one connection's handler together with the      *)
(* evolution thread it starts.  A source text is a model value; what the   *)
(* steps tell apart is whether it compiles and whether it quotes the tag   *)
(* "[API_ERROR]" that run_evolution takes for a failed call.               *)
(***************************************************************************)
EXTENDS Naturals, FiniteSets

CONSTANTS Requests,
          Code, Compiling, QuotesTag, Original,
          ApiError,     \* the "[API_ERROR] ..." texts of call_gemini_api
          Torn,         \* a file truncated or written in part
          NoFile,
          Free,         \* nobody holds g_state_mtx
          Faults        \* what the environment may do: see FaultKinds

FaultKinds == {"spawn", "open", "write", "journal", "copy", "build", "throw", "crash"}

ASSUME Sources == /\ Compiling \subseteq Code
                  /\ QuotesTag \subseteq Code
                  /\ Original \in Compiling
ASSUME Markers == /\ ApiError \notin Code /\ Torn \notin Code /\ NoFile \notin Code
                  /\ Torn # NoFile
                  /\ Free \notin Requests
ASSUME FaultsAssumption == Faults \subseteq FaultKinds

VARIABLES
    isEvolving, evoStatus, lastReport,   \* g_is_evolving, g_evo_status, g_last_report
    mtx,                                 \* who holds g_state_mtx across steps
    answer,                              \* the last reply to each request
    pc,                                  \* where each request's handler or thread is
    response, exitCode,                  \* the thread's locals response, compile_result
    disk,                                \* main.cpp, main_backup.cpp, main_evolved.cpp
    binary,                              \* the source the built executable came from
    journal,                             \* the last entry of evolution_report.md
    before                               \* history: main.cpp when the trial began

shown  == <<evoStatus, lastReport>>
locals == <<response, exitCode>>
vars   == <<isEvolving, evoStatus, lastReport, mtx, answer, pc, response, exitCode,
            disk, binary, journal, before>>

Files   == {"main", "backup", "evolved"}
Content == Code \cup {Torn, NoFile}
Answers == Code \cup {ApiError}

Ready      == "Ready"
Initiated  == "Evolution: Initiated"
Reading    == "Evolution: Reading History..."
Requesting == "Evolution: Requesting Cloud..."
Validating == "Trainer: Compiling & Validating..."
ApiFailed  == "Error: API Failed"
Successful == "Evolution: Compilation successful!"
RolledBack == "Evolution FAILED (Rollback)"
ThreadDied == "Error: Thread Exception"

Final    == {ApiFailed, Successful, RolledBack, ThreadDied}
Statuses == {Ready, Initiated, Reading, Requesting, Validating} \cup Final
Reports  == {"boot", "requesting", "accepted", "response", "note", "success",
             "rolledback", "exception"}
Entries  == {"older", "started", "apierror", "note", "verified", "rolledback", "exception"}

\* (mutant) main.cpp is overwritten before it is backed up
CopiesInstallFirst ==
    [backup  |-> [from |-> "evolved", to |-> "main",   busy |-> "backingUp",
                  next |-> "install", caught |-> "build"],
     install |-> [from |-> "main",    to |-> "backup", busy |-> "installing",
                  next |-> "build",   caught |-> "build"],
     restore |-> [from |-> "backup",  to |-> "main",   busy |-> "restoring",
                  next |-> "failed",  caught |-> "failed"]]

\* The three fs::copy calls of a trial: file copied, its target, the name of
\* the step while the target is half written, the step after it, and the step
\* its catch(...) leads to.
Copies ==
    [backup  |-> [from |-> "main",    to |-> "backup", busy |-> "backingUp",
                  next |-> "install", caught |-> "build"],
     install |-> [from |-> "evolved", to |-> "main",   busy |-> "installing",
                  next |-> "build",   caught |-> "build"],
     restore |-> [from |-> "backup",  to |-> "main",   busy |-> "restoring",
                  next |-> "failed",  caught |-> "failed"]]

Copying == {"backup", "install", "restore"}
Steps == {"idle", "spawn", "begin", "history", "ask", "cloud", "judge", "write",
          "announce", "note", "backup", "backingUp", "install", "installing", "build",
          "verdict", "restore", "restoring", "failed", "caught", "clear"}

\* What a request's handler or thread shares: a request is active from the
\* moment it is accepted to the moment its thread clears the flag.
Active(r) == pc[r] # "idle"

Goto(r, there) == pc' = [pc EXCEPT ![r] = there]

Show(status, report) == evoStatus' = status /\ lastReport' = report

\* write_evolution_report: nothing is said when the journal cannot be opened
Journal(entry) == journal' \in {entry} \cup (IF "journal" \in Faults THEN {journal} ELSE {})

\* response.find("[API_ERROR]"): the whole answer is searched, code included
TakenForError(a) == a = ApiError \/ a \in QuotesTag

\* (mutant) the status of a shell that could not be started is kept as it is
BuildResultsOfShell(c) == (IF c \in Compiling THEN {0} ELSE {1}) \cup {127}

\* The command's exit code, 0 only for a source that compiles; with "build" it may
\* also fail for reasons of its own: the running executable cannot be overwritten,
\* llama.dll cannot be copied after the link, PowerShell objects to the pipe.
BuildResults(c) ==
    (IF c \in Compiling THEN {0} ELSE {1}) \cup (IF "build" \in Faults THEN {1} ELSE {})

Init ==
    /\ isEvolving = FALSE /\ evoStatus = Ready /\ lastReport = "boot" /\ mtx = Free
    /\ answer = [r \in Requests |-> "none"]
    /\ pc = [r \in Requests |-> "idle"]
    /\ response = [r \in Requests |-> ApiError]
    /\ exitCode = [r \in Requests |-> 0]
    /\ \E old \in Content :   \* a backup some earlier evolution left
         disk = [f \in Files |-> IF f = "main" THEN Original
                                 ELSE IF f = "backup" THEN old ELSE NoFile]
    /\ binary = Original /\ journal = "older" /\ before = Original

----------------------------------------------------------------------------
(* POST /api/evolve *)

\* (mutant) the flag is set but not tested
AcceptUnguarded(r) ==
    /\ pc[r] = "idle" /\ mtx = Free
    /\ isEvolving' = TRUE
    /\ Show(Initiated, "requesting")
    /\ Goto(r, "spawn")
    /\ UNCHANGED <<mtx, answer, locals, disk, binary, journal, before>>

\* the flag is tested and set in one critical section
Accept(r) ==
    /\ pc[r] = "idle" /\ mtx = Free /\ ~isEvolving
    /\ isEvolving' = TRUE
    /\ Show(Initiated, "requesting")
    /\ Goto(r, "spawn")
    /\ UNCHANGED <<mtx, answer, locals, disk, binary, journal, before>>

Refuse(r) ==
    /\ pc[r] = "idle" /\ mtx = Free /\ isEvolving
    /\ answer' = [answer EXCEPT ![r] = "in progress"]
    /\ UNCHANGED <<isEvolving, shown, mtx, pc, locals, disk, binary, journal, before>>

\* the thread is started after the critical section, with the flag already set
Spawn(r) ==
    /\ pc[r] = "spawn"
    /\ answer' = [answer EXCEPT ![r] = "OK"]
    /\ Goto(r, "begin")
    /\ UNCHANGED <<isEvolving, shown, mtx, locals, disk, binary, journal, before>>

\* std::thread throws system_error; httplib answers 500 and nobody clears the flag
SpawnFails(r) ==
    /\ pc[r] = "spawn" /\ "spawn" \in Faults
    /\ answer' = [answer EXCEPT ![r] = "500"]
    /\ Goto(r, "idle")
    /\ UNCHANGED <<isEvolving, shown, mtx, locals, disk, binary, journal, before>>

----------------------------------------------------------------------------
(* run_evolution, up to the trial *)

Begin(r) ==
    /\ pc[r] = "begin" /\ mtx = Free
    /\ Show(Reading, "accepted")
    /\ Goto(r, "history")
    /\ UNCHANGED <<isEvolving, mtx, answer, locals, disk, binary, journal, before>>

\* journal, then read main.cpp and the journal's tail into the prompt
ReadHistory(r) ==
    /\ pc[r] = "history"
    /\ Journal("started")
    /\ Goto(r, "ask")
    /\ UNCHANGED <<isEvolving, shown, mtx, answer, locals, disk, binary, before>>

Ask(r) ==
    /\ pc[r] = "ask" /\ mtx = Free
    /\ evoStatus' = Requesting
    /\ Goto(r, "cloud")
    /\ UNCHANGED <<isEvolving, lastReport, mtx, answer, locals, disk, binary, journal, before>>

\* call_gemini_api returns a program or its own error text; it does not throw
Respond(r) ==
    /\ pc[r] = "cloud"
    /\ \E a \in Answers : response' = [response EXCEPT ![r] = a]
    /\ Goto(r, "judge")
    /\ UNCHANGED <<isEvolving, shown, mtx, answer, exitCode, disk, binary, journal, before>>

FailApi(r) ==
    /\ pc[r] = "judge" /\ mtx = Free /\ TakenForError(response[r])
    /\ Show(ApiFailed, "response")
    /\ Journal("apierror")
    /\ Goto(r, "clear")
    /\ UNCHANGED <<isEvolving, mtx, answer, locals, disk, binary, before>>

\* the ofstream truncates main_evolved.cpp ...
OpenEvolved(r) ==
    /\ pc[r] = "judge" /\ ~TakenForError(response[r])
    /\ disk' = [disk EXCEPT !["evolved"] = Torn]
    /\ Goto(r, "write")
    /\ UNCHANGED <<isEvolving, shown, mtx, answer, locals, binary, journal, before>>

\* (mutant) the early return leaves the thread without clearing the flag
OpenFailsForGood(r) ==
    /\ pc[r] = "judge" /\ ~TakenForError(response[r]) /\ "open" \in Faults
    /\ Goto(r, "idle")
    /\ UNCHANGED <<isEvolving, shown, mtx, answer, locals, disk, binary, journal, before>>

\* ... or does not open, and run_evolution returns with the status as it was
OpenFails(r) ==
    /\ pc[r] = "judge" /\ ~TakenForError(response[r]) /\ "open" \in Faults
    /\ Goto(r, "clear")
    /\ UNCHANGED <<isEvolving, shown, mtx, answer, locals, disk, binary, journal, before>>

\* nobody looks at the stream's state after the write
WriteEvolved(r) ==
    /\ pc[r] = "write"
    /\ \/ disk' = [disk EXCEPT !["evolved"] = response[r]]
       \/ "write" \in Faults /\ UNCHANGED disk
    /\ Goto(r, "announce")
    /\ UNCHANGED <<isEvolving, shown, mtx, answer, locals, binary, journal, before>>

Announce(r) ==
    /\ pc[r] = "announce" /\ mtx = Free
    /\ Show(Validating, "note")
    /\ Goto(r, "note")
    /\ UNCHANGED <<isEvolving, mtx, answer, locals, disk, binary, journal, before>>

WriteNote(r) ==
    /\ pc[r] = "note"
    /\ Journal("note")
    /\ before' = disk["main"]
    /\ Goto(r, "backup")
    /\ UNCHANGED <<isEvolving, shown, mtx, answer, locals, disk, binary>>

----------------------------------------------------------------------------
(* The trial: back up, install, build, judge, and restore if it failed.    *)

\* fs::copy empties its target, then fills it
CopyOpen(r) ==
    /\ \E j \in Copying :
         /\ pc[r] = j /\ disk[Copies[j].from] # NoFile
         /\ disk' = [disk EXCEPT ![Copies[j].to] = Torn]
         /\ Goto(r, Copies[j].busy)
    /\ UNCHANGED <<isEvolving, shown, mtx, answer, locals, binary, journal, before>>

CopyEnd(r) ==
    /\ \E j \in Copying :
         /\ pc[r] = Copies[j].busy
         /\ disk' = [disk EXCEPT ![Copies[j].to] = disk[Copies[j].from]]
         /\ Goto(r, Copies[j].next)
    /\ UNCHANGED <<isEvolving, shown, mtx, answer, locals, binary, journal, before>>

\* the exception is swallowed, before or after the target was emptied
CopyThrows(r) ==
    /\ \E j \in Copying :
         /\ \/ pc[r] = j /\ (disk[Copies[j].from] = NoFile \/ "copy" \in Faults)
            \/ pc[r] = Copies[j].busy /\ "copy" \in Faults
         /\ Goto(r, Copies[j].caught)
    /\ UNCHANGED <<isEvolving, shown, mtx, answer, locals, disk, binary, journal, before>>

\* system(cmake --build ...): a failed build leaves the last executable, or, if it
\* failed after the link, the one built from the source that is rolled back next
Build(r) ==
    /\ pc[r] = "build"
    /\ \E x \in BuildResults(disk["main"]) :
         /\ exitCode' = [exitCode EXCEPT ![r] = x]
         /\ \/ binary' = disk["main"] /\ disk["main"] \in Compiling
            \/ x # 0 /\ UNCHANGED binary
    /\ Goto(r, "verdict")
    /\ UNCHANGED <<isEvolving, shown, mtx, answer, response, disk, journal, before>>

\* (mutant) the exit code is not looked at
SucceedAnyway(r) ==
    /\ pc[r] = "verdict" /\ mtx = Free
    /\ Show(Successful, "success")
    /\ Journal("verified")
    /\ Goto(r, "clear")
    /\ UNCHANGED <<isEvolving, mtx, answer, locals, disk, binary, before>>

Succeed(r) ==
    /\ pc[r] = "verdict" /\ mtx = Free /\ exitCode[r] = 0
    /\ Show(Successful, "success")
    /\ Journal("verified")
    /\ Goto(r, "clear")
    /\ UNCHANGED <<isEvolving, mtx, answer, locals, disk, binary, before>>

\* (mutant) the failure is reported and nothing is restored
FailInPlace(r) ==
    /\ pc[r] = "verdict" /\ mtx = Free /\ exitCode[r] # 0
    /\ mtx' = r
    /\ Goto(r, "failed")
    /\ UNCHANGED <<isEvolving, shown, answer, locals, disk, binary, journal, before>>

\* the restoring copy runs with g_state_mtx held
Fail(r) ==
    /\ pc[r] = "verdict" /\ mtx = Free /\ exitCode[r] # 0
    /\ mtx' = r
    /\ Goto(r, "restore")
    /\ UNCHANGED <<isEvolving, shown, answer, locals, disk, binary, journal, before>>

\* (mutant) a lock that no destructor releases
RollBackLocked(r) ==
    /\ pc[r] = "failed"
    /\ Show(RolledBack, "rolledback")
    /\ Journal("rolledback")
    /\ Goto(r, "clear")
    /\ UNCHANGED <<isEvolving, mtx, answer, locals, disk, binary, before>>

RollBack(r) ==
    /\ pc[r] = "failed"
    /\ Show(RolledBack, "rolledback")
    /\ Journal("rolledback")
    /\ mtx' = Free
    /\ Goto(r, "clear")
    /\ UNCHANGED <<isEvolving, answer, locals, disk, binary, before>>

----------------------------------------------------------------------------
(* safe_run_evolution *)

\* The steps with an allocation that no inner catch covers: the texts, the prompt,
\* the note's strings, the build command, the build log, the journal's entries.
Throwing == {"begin", "history", "ask", "cloud", "judge", "announce", "note", "build",
             "verdict", "failed"}

\* What a critical section may have set when a later allocation of its own fails: the
\* first of its two texts (a status no longer than the one before needs none), or
\* both, with the journal's entry still to be put together.
HalfSaid(r) ==
    {said \in {<<Reading, lastReport>>} : pc[r] = "begin"}
    \cup {said \in {<<ApiFailed, "response">>} : pc[r] = "judge" /\ TakenForError(response[r])}
    \cup {said \in {<<evoStatus, "note">>} : pc[r] = "announce"}
    \cup {said \in {<<Successful, lastReport>>, <<Successful, "success">>} :
             pc[r] = "verdict" /\ exitCode[r] = 0}
    \cup {said \in {<<RolledBack, lastReport>>, <<RolledBack, "rolledback">>} : pc[r] = "failed"}

\* An allocation fails.  Unwinding releases the lock, so that what a section cut short
\* has said can be read until Catch takes the lock again.
Throw(r) ==
    /\ "throw" \in Faults /\ pc[r] \in Throwing
    /\ \/ UNCHANGED shown
       \/ mtx \in {Free, r} /\ \E said \in HalfSaid(r) : Show(said[1], said[2])
    /\ mtx' = IF mtx = r THEN Free ELSE mtx
    /\ Goto(r, "caught")
    /\ UNCHANGED <<isEvolving, answer, locals, disk, binary, journal, before>>

\* (mutant) the exception reaches the screen and not the journal
CatchUnwritten(r) ==
    /\ pc[r] = "caught" /\ mtx = Free
    /\ Show(ThreadDied, "exception")
    /\ Goto(r, "clear")
    /\ UNCHANGED <<isEvolving, mtx, answer, locals, disk, binary, journal, before>>

\* (mutant) catch (...) {}: neither screen nor journal is told
CatchSilently(r) ==
    /\ pc[r] = "caught" /\ mtx = Free
    /\ Goto(r, "clear")
    /\ UNCHANGED <<isEvolving, shown, mtx, answer, locals, disk, binary, journal, before>>

Catch(r) ==
    /\ pc[r] = "caught" /\ mtx = Free
    /\ Show(ThreadDied, "exception")
    /\ Journal("exception")
    /\ Goto(r, "clear")
    /\ UNCHANGED <<isEvolving, mtx, answer, locals, disk, binary, before>>

Clear(r) ==
    /\ pc[r] = "clear" /\ mtx = Free
    /\ isEvolving' = FALSE
    /\ response' = [response EXCEPT ![r] = ApiError]   \* its locals are gone
    /\ exitCode' = [exitCode EXCEPT ![r] = 0]
    /\ Goto(r, "idle")
    /\ UNCHANGED <<shown, mtx, answer, disk, binary, journal, before>>

\* The process ends and is started again: at rest, as the success report asks, with
\* "crash" at any step of an evolution, or because the catch throws in its turn, which
\* std::terminate answers.  The files stay as they are.
Restart ==
    /\ \/ "crash" \in Faults
       \/ "throw" \in Faults /\ \E r \in Requests : pc[r] = "caught"
       \/ \A r \in Requests : ~Active(r)
    /\ isEvolving' = FALSE /\ Show(Ready, "boot") /\ mtx' = Free
    /\ answer' = [r \in Requests |-> "none"]
    /\ pc' = [r \in Requests |-> "idle"]
    /\ response' = [r \in Requests |-> ApiError]
    /\ exitCode' = [r \in Requests |-> 0]
    /\ UNCHANGED <<disk, binary, journal, before>>

----------------------------------------------------------------------------
Handler(r) == Accept(r) \/ Refuse(r)

Thread(r) ==
    \/ Spawn(r) \/ SpawnFails(r) \/ Begin(r) \/ ReadHistory(r) \/ Ask(r) \/ Respond(r)
    \/ FailApi(r) \/ OpenEvolved(r) \/ OpenFails(r) \/ WriteEvolved(r) \/ Announce(r)
    \/ WriteNote(r) \/ CopyOpen(r) \/ CopyEnd(r) \/ CopyThrows(r) \/ Build(r)
    \/ Succeed(r) \/ Fail(r) \/ RollBack(r) \/ Throw(r) \/ Catch(r) \/ Clear(r)

Next == (\E r \in Requests : Handler(r) \/ Thread(r)) \/ Restart

Spec == Init /\ [][Next]_vars

\* A started handler or thread is scheduled, the cloud call ends (curl stops it
\* after 180 s) and so does the build.  Nobody has to send a request.
FairSpec == Spec /\ \A r \in Requests : WF_vars(Thread(r))

----------------------------------------------------------------------------
TypeOK ==
    /\ isEvolving \in BOOLEAN
    /\ evoStatus \in Statuses
    /\ lastReport \in Reports
    /\ mtx \in Requests \cup {Free}
    /\ answer \in [Requests -> {"none", "OK", "in progress", "500"}]
    /\ pc \in [Requests -> Steps]
    /\ response \in [Requests -> Answers]
    /\ exitCode \in [Requests -> {0, 1}]
    /\ disk \in [Files -> Content]
    /\ binary \in Content
    /\ journal \in Entries
    /\ before \in Content

\* Two POSTs never run two evolutions over the same three files, whatever
\* fails: the flag is tested and set in one critical section and outlives it.
OneEvolution == \A r, s \in Requests : Active(r) /\ Active(s) => r = s

\* The flag is never left set by an evolution that is over, on any path out of
\* the thread: every return, every exception, a restart.
FlagMeansRunning == isEvolving <=> \E r \in Requests : Active(r)

\* Between evolutions main.cpp is a source the build accepts, whatever the
\* cloud answered and whether or not the answer was written out whole.
SourceCompilesAtRest ==
    (\A r \in Requests : ~Active(r)) => disk["main"] \in Compiling

\* "Evolution: Compilation successful!" is about the files as they are: main.cpp
\* is what the cloud wrote and what the executable was built from.
SuccessIsInstalled ==
    evoStatus = Successful => disk["main"] = disk["evolved"] /\ disk["main"] = binary

\* ... and whatever fails, it is about the executable: what the restart asked for
\* will run is main.cpp as it stands.
SuccessIsBuilt == evoStatus = Successful => disk["main"] = binary

\* An evolution does not end without a judgement on the screen, by whatever way out
\* of the thread, unless main_evolved.cpp did not open: the end of EvolutionIsJudged.
EndsJudged ==
    \A r \in Requests : pc[r] = "clear" =>
        evoStatus \in Final \/ ("open" \in Faults /\ evoStatus = Requesting)

\* "Evolution FAILED (Rollback)" means that main.cpp is again what it was when
\* the trial began.
RollbackRestores == evoStatus = RolledBack => disk["main"] = before

\* "Error: API Failed" is said of a call that failed.  Checked where run_evolution
\* has just said so.
ApiFailedMeansFailed ==
    \A r \in Requests : pc[r] = "clear" /\ evoStatus = ApiFailed => response[r] = ApiError

\* The judgement on the screen is the journal's last entry: the next prompt is built
\* from the journal, the user reads the status.  They differ only while an exception is
\* on its way from the section that judged to the catch that judges anew.
Unwinding == \E r \in Requests : pc[r] = "caught"
JournalAgrees ==
    Unwinding \/ /\ evoStatus = ApiFailed  => journal = "apierror"
                 /\ evoStatus = Successful => journal = "verified"
                 /\ evoStatus = RolledBack => journal = "rolledback"
                 /\ evoStatus = ThreadDied => journal = "exception"

\* Whatever fails and whenever the process is killed, the last copy of main.cpp
\* that compiles goes only in one of two ways: in a trial that began on a main.cpp
\* that does not compile, or in a rollback from a backup that is not the source the
\* trial began with (the backing copy threw, and its catch(...) went on).
Good == \E f \in {"main", "backup"} : disk[f] \in Compiling
RestoresStaleBackup == \E r \in Requests : pc[r] = "restore" /\ disk["backup"] # before
LossHasACause ==
    [][Good /\ ~Good' => before \notin Compiling \/ RestoresStaleBackup]_vars

\* While no copy fails and nothing throws, there is such a copy at every instant of
\* every evolution: kill the process where you like, once, and the source can be had
\* from main.cpp or from its backup.
SourceRecoverable == Good

\* Every accepted evolution ends, and the next POST can be accepted.
EvolutionEnds == isEvolving ~> ~isEvolving

\* Every accepted evolution is judged, or its process is started again, or its file
\* main_evolved.cpp did not open: then, and only then, the status stops on the way.
LeftUnjudged == "open" \in Faults /\ evoStatus = Requesting /\ ~isEvolving
EvolutionIsJudged ==
    evoStatus = Initiated ~> evoStatus \in Final \cup {Ready} \/ LeftUnjudged

----------------------------------------------------------------------------
(* The abstract specification.  While a trial's outcome is open, main.cpp   *)
(* is a draft and the program's source is what it was before the trial.     *)

OnTrial == \E r \in Requests :
    pc[r] \in {"install", "installing", "build", "verdict", "restore", "restoring", "failed"}

Outcome ==
    CASE evoStatus = Ready      -> "ready"
      [] evoStatus = Successful -> "committed"
      [] evoStatus \in Final \ {Successful} -> "kept"
      [] OTHER -> "pending"

Abstract == INSTANCE Trainer WITH
    source <- IF OnTrial THEN before ELSE disk["main"],
    status <- Outcome

ImplementsTrainer == Abstract!Spec
=============================================================================
