# Noah_ASI / NoahScore: TLA+ models, checks and proofs

Noah_ASI is a C++ web server (`src/src/main.cpp`, `gemini_client.cpp`) that rewrites its own
source: a click posts `/api/evolve`, a detached thread asks a language model for a new
`main.cpp`, writes it, backs up the old one, installs and builds the new one, and rolls back when
the build fails.  The server also answers chats, crawls pages into a knowledge base, and shows a
dashboard.  Around it lie a football-score app (TypeScript service, Flutter screens) and a
prediction script.  Paths below are relative to the repository's root, `src/`.

## 1. Inventory

| Component | State | Operations | Talks to | What is hard | Correct means |
|---|---|---|---|---|---|
| **Evolution engine** `src/src/main.cpp` 31-67, 237-317, 395-404 | `g_is_evolving`, `g_evo_status`, `g_last_report` under `g_state_mtx`; `main.cpp`, `main_backup.cpp`, `main_evolved.cpp`; `evolution_report.md` | POST `/api/evolve`, `run_evolution`, `safe_run_evolution` | Gemini client, cmake, disk, dashboard | concurrent POSTs; many ways out of one thread; exceptions swallowed around copies; kills between copies; journal outside the lock | one evolution at a time, flag never stuck, verdicts are true, the source survives |
| **Gemini client** `src/src/gemini_client.cpp` | none | `call_gemini_api` | the language model, by libcurl with a limit of 180 s | failure is a text in the same channel as the answer | an error is recognised and an answer is not taken for one |
| **Dashboard** `main.cpp` 319-392 | the page's `#status`, `#report`; fetches under way | button, 1.5 s poll, GET `/api/data` | evolution engine | polls overtake each other; decisions from stale text; JSON concatenated by hand | page shows one instant's state, verdicts reach it, button comes back |
| **Knowledge base** `main.cpp` 83-203 | files of `KnowledgeBase/` | `/learn URL`, `search_knowledge_base` | PowerShell, disk, Gemini client | unlocked files shared by handlers; file names that collide | a search finds the best document; a stored document stays |
| **Metrics collector** `main.cpp` 205-232 | `g_metrics` | one endless thread | `wmic`, `nvidia-smi` | shell calls outside the lock | - |
| **HTTP server** `main.cpp` 385-424 over `httplib.h` 5558-5607, 9942-10070, 10861-10866, 11443-11548 | the port, `is_decommissioned`; `jobs_`, `idle_thread_count_`, `shutdown_`, three lists of threads; a connection's remaining requests | try 8080..8090; accept, enqueue, worker, shutdown; keep-alive | every handler above runs on its threads | what a failed `listen` leaves behind; notifications against time-outs; threads that leave while others are added or joined; chats of 180 s and polling pages that hold threads | some free port is served; no wake-up lost; a connection served once and in order; every request answered; no thread outlives its pool |
| **ApiService** `lib/services/ApiService.ts`, `lib/api/types.ts` | the Map `cache` | `getFixtures` | API-Football | calls that await at once; expiry; error bodies | finished matches cached for good, the rest not |
| **Flutter app** `Skills/NoahScore/main.dart`, `lib/main.dart`, `main.dart` | selected tab, futures of the screens | one fetch per screen | API-Football | refetch at rebuild, error without an answer, `setState` after `await` | a screen ends in data or in an error |
| **Prediction** `predict_engine.py`, `noah_bridge.cpp` | fitted model | `analyze_all` | scikit-learn | - | numeric, stateless |
| **Build script** `build_noah.bat`, `CMakeLists.txt` | - | kill, rewrite `main.cpp`, build, run | - | kills a running evolution | - |
| llama.cpp, `include/`, the rest of `httplib.h`, `KnowledgeBase/*.txt`, `build_asi/` | | | | vendored, generated or data | |

`Skills/NoahScore/lib/**` is a byte-for-byte copy of `lib/**` where the service is concerned.

`PROJECT.json` lists the hazards at their lines with the properties that cover them.

## 2. Modules

| Module | Role |
|---|---|
| `Trainer` | abstract promise of an evolution: the source is one value; a request is pending until it is committed (a source that compiles) or the source is kept |
| `Evolution` | the engine in detail; implements `Trainer` |
| `EvolutionProofs` | types, mutual exclusion, flag, lock, where verdicts are shown, what an exception leaves shown |
| `TrialProofs` | the files through a trial; refinement |
| `LossProofs` | journal, ways out of the thread and what its end rests on; how the last good source can be lost |
| `Dashboard` | composes the page with `Evolution` (EXTENDS it; shares status, report, lock and handler) |
| `DashboardProofs` | the page's consistency; what is proved of the engine holds under the page |
| `KnowledgeBase`, `KnowledgeBaseProofs` | learners and askers over shared files |
| `ApiCache`, `ApiCacheProofs` | concurrent `getFixtures` calls |
| `JobQueue` | abstract promise of a thread pool: jobs are started once, in order, and all of them before it is shut |
| `ThreadPool` | httplib's pool, one action per critical section; no next-state relation of its own |
| `WebServer` | composes the pool with the port loop, the accept loop, keep-alive connections and clients (EXTENDS it); implements `JobQueue` |
| `PoolProofs`, `QueueProofs` | types, idle count, wake-ups, ports; connections in one place, shutdown, refinement |
| `MCEvolution`, `MCDashboard`, `MCKnowledgeBase`, `MCApiCache`, `MCWebServer` | instances for TLC |

Operators marked `(mutant)` are not part of any specification.  Each is a plausible bug of the
definition that follows it, kept to show that a property notices.

### Evolution

One member of `Requests` is a connection's handler and the thread it starts; `pc` is its place.

| Code | Model |
|---|---|
| POST `/api/evolve`, 396-404: test and set under the lock; thread after the lock | `Accept`, `Refuse`; `Spawn`, `SpawnFails` |
| 238-253: status, journal, prompt, status, cloud call | `Begin`, `ReadHistory`, `Ask`, `Respond` |
| 255-257: answer contains `[API_ERROR]` | `FailApi` |
| 267-269: open and write `main_evolved.cpp` | `OpenEvolved` (truncates), `OpenFails`, `WriteEvolved` |
| 270-276: status, note, journal | `Announce`, `WriteNote` |
| 278-281, 300: `fs::copy` with `catch(...) {}` | `CopyOpen`, `CopyEnd`, `CopyThrows`, driven by the table `Copies` |
| 283-291: `cmake --build`, log | `Build` |
| 293-304: verdict under the lock; restore copy inside the lock | `Succeed`; `Fail`, copy, `RollBack` |
| 309-316: `safe_run_evolution`; the ways out by exception of 238-304 | `Throw`, `Catch`, `Clear` |
| end and start of the process | `Restart` |

A critical section without a long call in it is one action, guarded by `mtx = Free`.  The rollback
copies while it holds the lock, so `mtx` is then the thread.  A copy empties its target before it
fills it, so a kill or an exception can leave a torn file.

A source text is a model value with two facts: does it compile, does it quote the error tag
(`main.cpp` does, at line 255).  The journal is its last entry.  `before` is a history variable:
`main.cpp` at the trial's start.  `Restart` joins end and start of the process, because nothing
runs between them; with `crash` it may come at any step, with `throw` also in place of `Catch`: an
exception out of the catch is `std::terminate`.

`Faults` says what the environment may do: `spawn` (std::thread throws), `open`, `write`,
`journal`, `copy`, `build` (fails for a source that compiles), `throw` (an allocation fails in code
no inner catch covers), `crash`.  Each run and each theorem says which of them it allows.
`Throw` leaves from any step whose code allocates (`Throwing`): before the step has done anything, or,
from a critical section, with a part of its texts already set (`HalfSaid`: the status alone, or both
texts with the journal's entry still to be put together).  It gives back the lock, as the `lock_guard`
does, so the page may read what was cut short until `Catch` puts its own judgement over it in both
places.  `throw` is about the evolution's thread; allocations that fail in a handler are not modelled
(section 6).

`Build` keeps the exit code apart from the executable: a command that fails may have failed before the
link (the last executable stays) or after it, in the POST_BUILD copy of `llama.dll`
(`CMakeLists.txt` 17-21) or in the PowerShell pipe around it (line 283), and then the executable is the
draft's although the draft is rolled back.

### Dashboard

`Click` is `startEvolution` with its three blocking texts (366-373), `Send`/`Serve`/`Receive` are
one fetch of the timer (374-380) and the handler (389-392), `Outage` a restart of the server under
the open page.  With two fetches an older body may arrive after a newer one.  `BreaksJson` names
the reports whose text is not JSON-safe.

### KnowledgeBase

A chat is a learner (`Learn`, `GiveUp`, `OpenFile`, `WriteFile`) or an asker (`Ask`, `ReadFile`,
`SkipFile`, `EndSearch`, `Reply`).  A text is known by how many of a query's words it contains (`Score`).  A
new file may or may not be met by a directory iterator that is under way.  `stable` is history:
the files that were there when the search began, that nobody has touched since and that were not
skipped because they did not open (line 124).  A file read
while it is being written yields the torn text; a read in the middle of a read (one half before a
write, one after) is not separated further, since neither half is in `stable`.

### ApiCache

A list of matches is `none`, `live` or `finished` and moves in that order (`Play`, external).
`Hit`, `Miss`, `Serve`, `Reject`, `Store` are the steps of `getFixtures` around its one `await`;
the interceptor and the continuation run in one task, so `Store` is one action.  A `denied` body
is an errors object the interceptor's pattern does not match; it comes with an empty list.

### ThreadPool and WebServer

cpp-httplib is vendored, but its threads are what every handler runs on, so the part of it that
schedules is modelled from its source.

| Code | Model |
|---|---|
| `ThreadPool` constructor | `Construct` (at `Listen`: a pool is made by each `listen`) |
| `enqueue`: push, add a thread, unlock, `notify_one` | `Enqueue`, then `NotifyOne`, a step of its own |
| `worker`: count, wait, take, run | `Sleep`, `Take`, `Quit`, `Return`; `Uncount` is the count's share of each |
| `wait_for` of a dynamic thread; spurious wake-ups | `TimeOut`, `Retire`; `Stir` |
| a dynamic thread after its job; `move_to_finished` | `Linger`, `End`; `MoveToFinished` |
| `shutdown`: flag, `notify_all`, joins, lists | `SetShutdown`, `NotifyAll`, `TakeDynamic`, `CleanUp` |
| `start_web_server` 406-410, `bind_to_port`, `bind_internal` | `BindFails`, `Listen`, `GiveUp` |
| `listen_internal` | `Accept`, `Notify`, `AcceptFails`, `Shutdown` |
| `process_server_socket_core`, `keep_alive` | `Answer`, `HangUp` |

A job is the service of one connection, and a connection belongs to one client.  A notified or
timed-out thread is not yet running again (`woken`, `timedOut`): between the notification and the
lock other threads may take the job.  `Dynamic` is a set of slots, so `dynamic_threads_.size()`
at its limit is `dynamic = Dynamic`.  The three lists of threads are sets of slots: `dynamic`,
`finished`, and `remaining`, the list shutdown takes for itself.  `CleanUp` joins the threads on the
last two, as the code does, and nobody else.  `taken` are ports held by a program that does not share
them; which they are is chosen at the start and does not change.  The queue is never full
(`max_queued_requests` is 0).  Clients, and the browser's habit to repeat a request whose
connection was closed, are external.

## 3. Runs

| Run | Instance | Shows |
|---|---|---|
| `evolution_core` | 2 requests, 4 sources (one broken, one quoting the tag); threads, opens, journals, writes and builds may fail | types; `SourceCompilesAtRest`, `SourceRecoverable`; `SuccessIsInstalled`, `RollbackRestores`; implements `Trainer` |
| `evolution_faults` | 2 requests, 3 sources, every fault but `spawn` and `journal`, kills included | one evolution at a time; flag set exactly while one runs; journal and screen agree, but while an exception is on its way to the catch; a success is about the executable; every evolution ends and is judged (`EndsJudged` for each way out of the thread); the last good copy of `main.cpp` is lost in two ways only |
| `dashboard` | 1 request, 2 fetches, 1 unanswered click, 1 restart under the page; opens and builds may fail, the server may be killed | page consistent; button comes back unless `main_evolved.cpp` did not open; verdicts reach the page |
| `knowledge_base` | 2 chats, 3 URLs over 2 files, 2 texts | a search misses no better document that stayed and opened |
| `api_cache` | 2 calls, 2 params, 3 clock values | what is reported as finished is |
| `web_server` | 1 base thread, 1 dynamic slot, 3 clients, 2 requests a connection, 2 ports | exact idle count; no lost wake-up; a connection is with one thread; shutdown lets nobody sleep, leaves no thread outside its two lists, and ends; implements `JobQueue`; every request is answered |
| `rollback_lie` | violation | a failed restoring copy is swallowed and the rollback reported (line 300) |
| `api_failed_lie` | violation | a program that quotes the tag is reported as a failed call (line 255) |
| `button_dead` | violation | a report that breaks the JSON of `/api/data` freezes the page (line 391) |
| `stored_lost` | violation | URLs that share a file name destroy each other's documents (line 173) |
| `stale_forever` | violation | `expires` is never read, `every()` holds of `[]` (ApiService.ts 28, 34) |
| `port_fallback` | violation | one port taken, the others free: each is announced, none is opened (line 409) |

**Bounds and why they are enough.**  Two requests: an accepted evolution excludes all others, so a
third POST meets the same states as the second; the theorems hold for any number.  Sources: one
for each combination of facts the steps look at, and a second good one so that "unchanged" and
"replaced" differ; `evolution_faults` keeps two good ones and a broken one.  Nothing counts
up in `Evolution`, so its runs are complete for their constants.  `MaxPosts` and `MaxOutages` cap
unanswered clicks and restarts of the dashboard at one: a second click while one is unanswered
only repeats a POST, and a restart puts the server into an initial state.  Two polls suffice for
one body to overtake another.  The dashboard's run is for the faults that change what the page can be
left with (an evolution that ends unjudged, a rollback, a server that goes); `copy`, `write` and
`journal` change nothing the page sees, `spawn` leaves the flag set, which the evolution's part says,
and `throw` multiplies the states beyond a run that ends in minutes: for it the page's consistency is
proved (`PageConsistent`), and the verdict is `Catch`'s.  The page sees nothing of the backup either, so
the run begins with one value of it (`FirstEvolution`).  `Minute = 1`, `MaxTime = 2` let an entry be fresh, at its limit and
expired.  Two names with three URLs give one collision and one URL of its own.
One base thread and one dynamic slot with three clients: both threads can be held while a third
connection waits, the dynamic thread can time out, leave, be joined and be added again, and a
notification can meet no sleeper, the right one or one that is leaving.  Two requests a connection
let one be used up and one be closed idle.  That two dynamic threads differ from one in nothing is
covered by the theorems, which hold for any numbers.  The web server may stop (`returned`), and so
may a client; its runs do not check for deadlock.

**Fairness.**  Weak fairness on each thread (its steps together, not each one): a detached thread
is scheduled, the lock is released by every holder, libcurl ends the cloud call after 180 s.  The
build has no time limit in the code (line 284): that it ends is an assumption.  No fairness on
handlers of `Evolution` (nobody has to click), on faults or on restarts.  The dashboard adds
fairness of the timer's fetches and of delivering POSTs, not of clicks.  The web server has weak fairness
on its main thread (but not on errors of accept), on each thread's own steps (but not on time-outs
and spurious wake-ups) and on a client that repeats a request: threads get the lock in the end
(an assumption about `std::mutex`), handlers end, an idle connection is closed after 5 s.
Nobody has to ask.  The knowledge base and the cache have safety properties only.

## 4. Proofs

| Theorem | Assumes | Statement |
|---|---|---|
| `TypeCorrect` | - | `Spec => []TypeOK` |
| `MutualExclusion` | - | `Spec => []OneEvolution`, kills and all faults included |
| `FlagNeverStuck` | threads start (`spawn` not in `Faults`) | `Spec => []FlagMeansRunning` |
| `JudgedAtTheEnd`, `SuccessBuilt` | - | `Spec => []EndsJudged`, `[]SuccessIsBuilt` |
| `JournalTrue` | `journal` not in `Faults` | `Spec => []JournalAgrees` |
| `ApiFailedTrue` | no code quotes the tag (`QuotesTag = {}`) | `Spec => []ApiFailedMeansFailed` |
| `RollbackTrue`, `SuccessTrue` | `CopiesSucceed` (`copy` not in `Faults`) | `Spec => []RollbackRestores`, `[]SuccessIsInstalled` |
| `SourceSafe`, `NeverWithoutACopy` | `Orderly` | `Spec => []SourceCompilesAtRest`, `[]SourceRecoverable` |
| `ImplementsTrainerOrderly` | `Orderly` | `Spec => Abstract!Spec` |
| `LossCaused` | - | `Spec => LossHasACause` |
| `ThreadsMoveForward`, `EvolutionWaitsForNobody` | - | each step of a thread leads to a later one; its lock is free or its own |
| `PageConsistent`, `ServerUnderPage`, `OneEvolutionUnderPage` | - | `DashboardSpec => []PageIsConsistent`, `=> Spec`, `=> []OneEvolution` |
| `BestIsFound`, `LibraryTypesCorrect` | - | `Spec => []BestOfWhatStays`, types |
| `LossNeedsSharedName` | `SafeName` is injective on `Urls` | `Spec => StoredStays` |
| `FinishedTrue`, `CacheTypesCorrect` | - | `[]FinishedIsTrue`, types |
| `WebTypesCorrect`, `IdleCountExact`, `NoWakeupLost`, `PoolJoined` | - | types and the invariants of the pool |
| `ConnectionsServedOnce`, `NobodySleepsThroughShutdown` | - | `Spec => []ServedOnce`, `[]NoSleeperInShutdown` |
| `FirstPortDecides` | - | with the first port taken the server never listens; when main gives up |
| `PoolImplementsQueue` | - | `Spec => ImplementsJobQueue` |

Besides these, only the modules' assumptions on constants are used (markers differ from codes,
scores are numbers, a minute is not zero, the pool's threads are finitely many and one of them is a
base thread).  A line without an assumption holds for every set `Faults`.  `Orderly` says that
copies do not fail, no exception is thrown and the process is not killed (`Faults` holds none of
`copy`, `throw`, `crash`); failing writes, builds, opens, threads and journals stay allowed.

### What makes a finding possible

Each violation run shows that a property can fail; a theorem says what it takes.

| Run | Property | Holds when | Theorem |
|---|---|---|---|
| `rollback_lie` | `RollbackRestores` | copies succeed, though the process is killed and exceptions fly | `RollbackTrue` |
| `api_failed_lie` | `ApiFailedMeansFailed` | no answer quotes the tag | `ApiFailedTrue` |
| `stored_lost` | `StoredStays` | no two URLs share a file name, though chats write at once and crawls give up | `LossNeedsSharedName` |
| `port_fallback` | `GivesUpOnlyWhenAllTaken` | (the first port is free: then main gives up only after an error of accept) | `FirstPortDecides` |
| `stale_forever` | `OnlyFinishedForGood` | never where anything but finished matches is stored: nobody looks at an entry again | - |
| `button_dead` | `ButtonComesBack` | no report breaks the JSON; the property itself leaves out the server whose `main_evolved.cpp` did not open (liveness: shown by the run `dashboard` only) | - |

`LossNeedsSharedName` has the one premise that the code does not grant (line 173 maps every
character that is not alphanumeric to `_`); it is stated to say that this is all that is missing.

### The arguments

*Types* need `Written`: a thread at `write` holds code, because the error tag was tested before.
*Mutual exclusion* is not inductive alone: `ControlInv` adds that the flag is set while anyone is
active, which is what makes `Accept`'s guard exclude the others.  *The flag* then follows step by
step: a thread's step leaves it set and stays active, or is `Clear`, or is `SpawnFails`.  *The lock*
goes the same way: `LockStep` needs mutual exclusion, since a second rollback would take it away; that
it is held over steps by a rollback alone is what `EvolutionWaitsForNobody` rests on.
These, with `VerdictInv` (a final status is shown only with every thread idle, at `clear` or on its way
to the catch), make up `ServerSane`, which the other proofs about `Evolution` start from.

*The files* come in two layers.  `Kept` needs only that copies succeed: while `main.cpp` is a draft
(`install` to `failed`) the backup equals `before`; at `build` and `verdict` `main.cpp` equals
`main_evolved.cpp`, and with an exit code of 0 the executable equals both; at `failed` `main.cpp` is
`before` again.  A kill ends all threads and shows "Ready", an exception leaves to `caught`: neither
gives a verdict but one that was true when it was cut short, so `RollbackTrue` and `SuccessTrue` survive
both.  `Sound` is about sources that
compile, and needs `Orderly`: outside a draft `main.cpp` compiles; during one `before` does.  A kill
or an exception ends a trial with the draft in place, and
the next trial begins there, so both are excluded; `NeverWithoutACopy` says that up to then the
source can be had from one of the two files, and `LossCaused` what happens after.
Since at most one thread is active, each step needs to be looked at for its own thread only
(`Alone`).  `SuccessBuilt` holds without either layer: an exit code of 0 at `verdict` means that
`main.cpp` was just built, whatever it holds.

*Refinement* maps the abstract source to `before` during a trial and to `main.cpp` otherwise, and
statuses to ready/pending/committed/kept: `Accept` is `Request`, `Succeed` is `Commit`, `FailApi`
and `RollBack` are `Keep`, `Restart` is `Reboot`, all else stutters.

*Journal and screen*: a judgement is written to both by one step, unless an exception cuts it short,
and then `Catch` writes another to both; the two steps that write to the journal without judging
(`ReadHistory`, `WriteNote`) find no verdict on the screen (`VerdictInv`).
`EndsJudged` needs `Asking`: at `cloud` and `judge` the screen shows "Requesting", which is what
`OpenFails` leaves behind.

*Losses*: main.cpp or its backup compiles at each step of a trial that began on a source that
compiles; the copy that could end this is the restoring one, from a backup that is not `before`.

*The page*: the two texts match at every step, not only while the lock is free, because `Ask`
changes the status alone and only after `Begin` has set the report; a section cut short leaves a text of
its own beside one of the step before (`CutShort`), which `Prepared` knows; bodies and page only carry
what was there when it was served.  Each step of the composition is one of `Evolution` or leaves it
alone (`ServerSide`), so what is proved of `Spec` holds under the page.

*Searches* use `SoFar`: of what has been read and stayed, nothing scores more than `best`; a write
only removes files from the set a search answers for.  *Documents* change only where a chat opens
or writes the file of its own URL (`OnlyLearnersWrite`).

*The cache*: whatever carries "finished" (Map, response, answer) does so for params whose matches
are over, and these do not go back.

*The idle count*: a thread moves in or out of the wait exactly when the count changes; that a
thread is new when it is added needs `ListInv`: a dynamic thread on none of the three lists has ended.
The same makes `PoolJoined` true: `CleanUp` waits for two lists only, and `TakeDynamic` has left nothing
on the third, to which only `Enqueue` adds.
*Wake-ups*: `NoJobBesideASleeper` is inductive given the types: each queued job has a thread that
will look (`Lookers`) or the notification the main thread still owes.
*Ports*: `PortInv` says that the loop leaves the first port only with the server decommissioned.
*The queue*: `Alone` says that a connection is in one place (backlog, queue or one thread's hands),
which `Submit` and `Finish` need; `Quitting` says that a base thread leaves only when the flag is set
and no job is left, which makes `CleanUp` the abstract `Shut`.  `Take` is `Start`: fewer jobs run
than there are threads, since the taker's hands are empty.  *Shutdown*: the flag is set before all
are woken, and no thread goes to sleep behind a set flag (`Woken`).

### Model-checked only

Liveness: `EvolutionEnds`, `EvolutionIsJudged`, `ButtonComesBack`, `VerdictReachesPage`,
`EveryRequestAnswered`, `ShutdownEnds`, which the proof system does not treat under fairness.  The
safety each rests on is proved: an evolution only moves forward and waits for nobody
(`ThreadsMoveForward`, `EvolutionWaitsForNobody`), no way out skips the judgement
(`JudgedAtTheEnd`), no wake-up is lost (`NoWakeupLost`), nobody sleeps through a shutdown
(`NobodySleepsThroughShutdown`).  Every other property of a passing run has a theorem.

## 5. What the code does that its texts do not say

The six violation runs are listed as findings.  Further limits show in the faults a run excludes
or a property names, and no text of the program speaks of them:

* With `spawn`, the flag stays set for good and every later POST is refused (no run or theorem about
  the flag allows it).
* With `open`, `run_evolution` returns with the status at "Requesting Cloud...": the evolution is over
  and unjudged, and the page's button is dead until the server is started again, with valid JSON
  throughout (`LeftUnjudged` in `EvolutionIsJudged` and `ButtonComesBack`).
* With `journal`, the screen and the journal part.
* With `build`, a failure after the link leaves the executable of a source that was rolled back.
  What is said of the executable (`SuccessIsBuilt`, `SuccessIsInstalled`) is about successes only.
* With `throw`, a verdict can stand on the screen, without its journal entry and with the lock free,
  until the catch replaces it: `JournalAgrees` excepts that moment, and `PageIsConsistent` says
  which texts it can leave side by side.
* A finished result in the fixtures cache can be overtaken: of two calls for the same params the older
  response may be stored last, and stays, since no entry is looked at again.

The pool has a limit the properties leave room for: a notified thread that has not locked yet still
counts as idle, so jobs that arrive at that moment add no thread and wait behind running chats
although the pool could still grow.  They are answered in the end (`EveryRequestAnswered`), because a
thread that returns looks at the queue again.  `listen` returns only after an error of accept; then every
later `listen` fails, `main` returns, and an evolution that runs is killed with the process
(`Restart` with `crash`).

## 6. Not modelled

* The wording of prompts, reports, notes and time stamps; extraction of code and note from the
  answer (259-273) and of the answer from the reply's JSON: whatever comes out is one more source
  text, which the build judges, and no step tells how it was cut.  The chat box and the metrics
  cards of the page, and the collector behind them (205-232): one writer of three strings, each
  set under the lock, which no step reads.
* An orphaned cmake that goes on after the server was killed.
* Two server processes over one disk: flag and lock are promises of one process and nothing in the
  code tells one process of another.  `OneEvolution` is a property of a process.
* `g_last_activity` (written by every chat, read nowhere) and the static buffer of `localtime`.
* Allocations that fail in a handler (httplib answers 500).  In POST `/api/evolve` one could leave the
  new report beside the old status; the flag is set last (line 400), so it is not left behind.
* Exceptions of the directory iterator during a search (the handler answers 500 and changes nothing).
* The Flutter app: the root `main.dart` holds unresolved merge markers and `lib/main.dart` names
  undefined classes, so neither compiles; `Skills/NoahScore/main.dart` is one fetch per build of a
  screen, without state that outlives it.
* Of httplib: parsing, routing, TLS, the client, `Server::stop` and `set_idle_interval` (never
  called), EMFILE and EAGAIN of accept (retried at once), connections that `accept` left in the
  kernel when the socket is closed (they are dropped: `AcceptFails` empties `backlog`).
* Prediction, bridge, build script, llama.cpp: stateless, external or third-party.

## 7. Plan

Done: evolution with faults and abstract specification; its theorems; dashboard; knowledge base;
fixtures cache; web server and thread pool; a theorem for every safety property of the passing
runs; the cause of each finding; the safety under each liveness property.  What is left is small:

1. The order of what `getFixtures` answers (a list is never ahead of the API), beyond "finished".
2. Types of the dashboard's own variables as an invariant of its run (proved as part of
   `PageInv`, not stated).
3. A pool with two dynamic slots, for liveness only: safety is proved for any number.
4. The metrics collector as a third actor on the lock, if a step ever reads what it writes.
