# Verification of the self-healing MLOps agent

TLA+ modules of the agent in `src/`, TLC configurations that check them on small
instances, and TLAPS proofs that hold for every instance. File and line numbers are
relative to the repository (`src/executor.py` below is the module of the agent, in
`src/src/` of a checkout that has the repository in `src/`).

## The system and its parts

The agent tails log files. A line that looks like an error starts a *pipeline*: the circuit
breaker may refuse it, the RAG engine proposes an action, the executor gates and runs it,
the result is fed back to the knowledge base and to the breaker, and a metrics row is
written. The main loop runs maintenance, proactive probes, ETL, clustering and the purger
beside it. People approve actions by Telegram or through a web server of its own process,
and change autonomy levels with a command line tool.

| part | state | operations | what makes it correct |
| --- | --- | --- | --- |
| `circuit_breaker.py` | one SQLite row per signature | `can_proceed`, `_try_claim_half_open`, `record_result` | one test request at a time; counts are those of the results; a blocked error is retried |
| `approval_store.py`, `_await_approval` of `executor.py`, `approval_server.py`, `telegram_bot.py` | `pending_approvals`, the waiter's deadline, the shutdown event | `create_request`, `get_status`, `set_decision`, `mark_expired`, the wait, the two handlers | nothing runs that was not approved; no request is left open; people are told what happened; waits end |
| `autonomy_store.py`, `_dispatch` of `executor.py`, `scripts/set_autonomy_level.py` | `autonomy_state` | `get_level`, `set_level`, `start_shadow`, the gate | no run without a level and a review that license it; local mode asks |
| `executor.py` commands | the machine | validation, structured actions, verification, rollback | nothing on the protected list is touched where the code asks it; what was undone is no success |
| `llm_engine.py` L1 and learning | ChromaDB entries with success and failure counters | `analyze_error`, `learn_from_feedback`, `record_learned_outcome` | only what worked is learned; what fails repeatedly goes; the evidence shown is that of the answer |
| `llm_engine.py` L2, `llm_mode.py` | configuration of the process | diagnosis, Groq, Ollama, ipex_llm, rules, a person, in this order; review | an answer in any case; nothing leaves a local installation; a model's command is reviewed |
| `vector_db_purger.py` | run log | `run_if_due` | deletes only what caused failures |
| `log_watcher.py` tailing | file offset, context buffer | `on_modified`, start and end of the observer | nothing that is read as an error is skipped or handled twice |
| `utils/debouncer.py` | LRU map of last-seen times | `should_process` | one pipeline per error and cooldown |
| `proactive_monitor.py`, `monitor/vram_profiler.py` | streak, last alerts | `check_and_trigger`, `get_intel_gpu_stats` | one alert per probe and cooldown, about something that is the case |
| main loop, `maintenance.py`, `etl_scheduler.py`, `error_clusterer.py` | run logs, saved clusters | `run_if_due`, reports of new categories | once per interval, across restarts; goes on for good |
| `observability.py`, `telegram_bot.py`, `slack_bot.py` | metrics rows, the polling loop's queue | `log_event`, `send_*` | a message is shown once, and has its row |
| `etl_*.py`, loading scripts, `split_dataset.py` | playbook table, backup file, train set, collection | load, reset, sync, split, load and remove | what was loaded stays until it is removed |
| crawlers, `loghub_pipeline.py` | texts collected so far | requests, classification | nothing that was found is lost or misfiled |
| `_get_chroma_client`, `utils/sqlite_pool.py` | one client, one connection per thread | first use by several threads | created once; no lock is left behind |
| `deploy/target-app/main.py`, `chaos_cron.sh` | injection lock, event loop | one handler per fault | one fault at a time, with its evidence; the lock comes back |
| `install.sh` | `.env`, containers, unit | install, repeat, interrupt | the agent works in the mode that people were told |
| `dashboard/app.py`, gate report, `seed_metrics.py` | metrics rows | counts, promotion to AUTO | what AUTO did by itself does not speak for AUTO; what is told as done is what is counted |

How they interact. watchdog has one dispatch thread for all log files, so log lines are
handled one at a time; `ProactiveMonitor` calls the same pipeline from the main thread, so
two pipelines can run at once and share the breaker, the engine and the executor. All
persistent state is SQLite (each statement or transaction is atomic, nothing larger is) and
ChromaDB (each call is atomic). The locks of `approval_store` and `autonomy_store` belong to one process; the
approval server and the command line tool are other processes. `SIGTERM` sets an event that
the main loop, the tailing loop and the approval wait look at.

What is hard: read-then-write sequences over several transactions; exceptions that skip the
second half of a protocol; restarts between two of its steps; timeouts that race with late
answers; levels and modes that change under a decision; files that are rotated or cut while
they are read; two channels for one message; numbers judged by rows that were written for
another reason. `PROJECT.json` lists each such place with the properties that watch it.

## Modules

The core, where threads, processes and people race on shared tables, has a run of its own for each
module:

| module | models | runs | proofs |
| --- | --- | --- | --- |
| `CircuitBreaker` | the breaker, driven by concurrent pipelines | `breaker` | `CircuitBreakerProofs` |
| `BreakerContract` | the state machine at the head of `circuit_breaker.py`, in one step per result | | |
| `BreakerRefinement` | `CircuitBreaker` seen as `BreakerContract` | `breaker_sequential`, `breaker_stuck_probe`, `breaker_lost_failure` | `CircuitBreakerProofs` |
| `Approval` | requests, the waiter, the bot, the web server | `approval`, `approval_lost`, `approval_page` | `ApprovalProofs` |
| `AutonomyGate` | levels, the gate, what is taught afterwards | `gate`, `gate_feedback` | `AutonomyGateProofs` |
| `KnowledgeBase` | lookup, learned entries and their counters, purger, ETL upsert | through `MCKnowledge`, which gives its constants: `knowledge`, `knowledge_purge` | `KnowledgeBaseProofs` |

The parts around it share no variable with each other and are checked by one run, `agent`, whose
module `MCAgent` composes them (see Runs):

| module | models | property in `agent` | proofs |
| --- | --- | --- | --- |
| `DebounceHistory`, `Debouncer` | the LRU map; `should_process` by racing threads | `OncePerCooldown` | `WatchingProofs` |
| `LogTail` | `on_modified`, rotation, shutdown, restarts | `EachErrorOnce`, `ReportedErrorIsHandled` | `WatchingProofs` |
| `GpuStats`, `ProactiveMonitor` | the GPU's sources; the four probes and their alerts | `AlertsAreDue`, `OverloadIsReported` | `WatchingProofs` |
| `MainLoop` | the loop and its schedules | `NothingTooSoon`, `SchedulesGoOn` | `WatchingProofs` |
| `Escalation` | from an error to an answer, with reviews | `AnswersAreSafe` | `ResolutionProofs` |
| `L1Evidence` | the vote and what a person is shown of it | `EvidenceIsOfAnswer` of `SourcesAreSound` | `SurroundingsProofs` |
| `Execution` | validation, execution, verification, rollback | `ExecutionIsSafe` | `ResolutionProofs` |
| `Notify` | rows, alerts and the two channels | `ShownOnceAndStored` | `ResolutionProofs` |
| `Playbook` | table, backup, split, sync, loading scripts | `LoadedIsKept` of `SourcesAreSound` | `SurroundingsProofs` |
| `GithubCrawl` | both crawlers' requests and issues | `IssuesAreCollected` of `SourcesAreSound` | `SurroundingsProofs` |
| `LoghubPipeline` | classification by keyword and language model | `FiledAsClassified` of `SourcesAreSound` | `SurroundingsProofs` |
| `Connections` | the shared Chroma client, the SQLite pool | `ConnectedOnce` of `OneAtATime` | `SurroundingsProofs` |
| `ChaosApp` | fault injection and its cron job | `InjectionsKeptApart` of `OneAtATime` | `SurroundingsProofs` |
| `Installation` | `install.sh`, repeated and interrupted | `ModeIsAsTold` of `ToldRight` | `SurroundingsProofs` |
| `Metrics` | the metrics table and those who judge by it | `MetricsToldRight` of `ToldRight` | `SurroundingsProofs` |

`AgentProofs` carries the components' invariants over to `MCAgent`.

Definitions marked "Wrong variant" (`...Raw`, `...Lax`, `...Anyway` and the like)
are not part of the specifications. Each is what a plausible bug would make of the
definition after it, and replacing that definition by it breaks the property listed in
`PROJECT.json` under `mutants`; they show that the properties can fail.

### CircuitBreaker

`row` is the table; `pc`, `sig`, `snap`, `ok` are the locals of each pipeline thread.
`can_proceed` is `CanProceedRead` (the `SELECT`), `CanProceedJudge` (the decision on what it
read) and `TryClaimHalfOpen` (one exclusive transaction); `record_result` is `RecordRead`
and `RecordWrite`. `PipelineRaises` is an exception in `analyze_error`, `execute` or a
statement, which skips the rest of the pipeline. `Restart` loses the locals, not the table.
`MaintenanceDelete` deletes an old CLOSED row whatever call is using it, as the `DELETE` of `maintenance.py:101-105`
does: the error may come back just as its row reaches the age. `opened_at` is kept as an age
that saturates at the timeout, because the code only compares it with the timeout; the
failure counter saturates above the threshold for the same reason. `prober`, `streak` and `forgotten` are
history variables: whose probe is outstanding, how many failures were recorded since the last
success, and whether maintenance deleted some of them. `BreakerRefinement` sees a row that was deleted under a
`record_result` which is about to overwrite it as that call read it (`Seen`): the deletion takes effect when the call ends, and if it
ends by writing, there was none.

Two threads can hand test requests to each other without waiting: `can_proceed` goes on to the claim for a row it
read as HALF_OPEN as well, and the claim looks at no time. The row it finds can be OPEN for a moment only. `EarlyTestsAreRaces` says
that this and its like, a row rewritten between the decision and the claim, are the only ways to an early test.

### Approval

`row` is the table with statuses and ages, `waiter` the loop of `_await_approval` (create,
notify, test the deadline and the shutdown event, sleep and poll, mark expired, run),
`click` the handler of a press: the bot goes straight to `set_decision`, the web server
reads the status in a connection of its own first. `set_decision` is two steps under the
lock of its process: `SelectExpiry` and `UpdateStatus`. `told` is what people were answered,
`ran` how often an action was carried out, `orphaned` the tokens whose waiter died.

### AutonomyGate

`store` is `autonomy_state`, `local` the mode of the agent's process, `work` the decision a
thread carries through `_dispatch` and `_execute_llm_command`, `cli` what a run of the
command line tool is about to write. The level is read by `Dispatch` and, for commands, a second
time by `RereadLevel` after the filter. A decision (`Decisions`) is what the gate can tell
apart of an `AgentResponse`: category, kind of action, outcome of the review, origin. The
approval is one step with the outcomes that `Approval` gives in detail. `seen` is the history the
main property needs: every level stored for the category since the decision was dispatched.
`set_level` checks the mode before it writes and `start_shadow` reads the level before it
takes its lock; the tool may run in another mode than the agent.

### KnowledgeBase

`stock` holds the curated documents of the collection, `learned` the entries of
`learn_from_feedback` with command and counters. A text names an error and the entry learned
from it, whose id is its hash. Distances are data: `Near` lists the documents within
`_RAG_THRESHOLD` of a text, nearest first, and `Chosen` is the ensemble vote on the first five that are
present. `learn_from_feedback` and `record_learned_outcome` are a read and a write each, since
nothing locks the collection between them. The purger runs on the main thread: `PurgeStart` takes the failing rows,
`PurgeQuery` asks for the nearest document of all rows of one text, `PurgeJudge` applies the
threshold, `PurgeDelete` deletes one document. `rows` keeps which document was used for a failing row, which
the metrics table does not: only the properties look at it. Personal data is masked in the
rows; that a masked text has the same neighbours as the text is an assumption of the model. `truth` and
`shared` are history: the results reported for an entry, and the entries that two pipelines overlapped
on. `broken` is the world: a command that worked may cease to.

### Log tailing: LogTail, DebounceHistory, Debouncer

`LogTail` follows one file. It is a sequence of pieces, whole lines or the head and the tail of a line
that its writer has not finished; an offset is a number of pieces. The writer, logrotate (rename or copytruncate),
SIGTERM and the end of the process are steps between those of `on_modified`: `Stat` (`getsize`), `ReadLines` (open, seek,
`readlines`, `tell`), then one step per line (`SkipLine`, `HandleError`), the pipeline (which returns or kills
watchdog's thread) and `LeaveForShutdown`. `offered` counts for each half of a line how often it is put to the debouncer, because the handler keeps no
unfinished line: one that is read in two pieces is two lines to it, and two errors if the pattern is found in both; `foreign`
and `blind` name the cases in which the code cannot know better: the offset belongs to a file that has been replaced, or the
text was written while no handler existed.

`Debouncer` is `should_process` called by several threads: `ReadClock` before the lock, `Suppress` or
`LetThrough` under it. `DebounceHistory` has the `OrderedDict` and is shared with `LogTail`. The agent has only one dispatch
thread, so the race is one of the class and not of the agent.

### ProactiveMonitor and GpuStats

One try of `check_and_trigger` is `BeginCheck` and then one step per probe in the order of the code
(`ProbeLow`, `ProbeHigh`, `ProbeRaises`, which skips the probes after it), with the callback running for as long as it
likes (`calling`). The times are ages that saturate. `GpuStats` is `get_intel_gpu_stats` as an operator over everything its three
sources can say (`intel_gpu_top`, sysfs, PowerShell), with their units. When sysfs has no file for the
total, the used file is taken for it and every reading is full: the model marks this as "misread", and
the property about false alarms excepts it.

### MainLoop

`pos` is the place in the loop; each task's step tells whether it is due, is done, fails, or ends
the process (`AskRaises`: nothing catches an SQLite error in `should_run`). `maintained` and `purged` survive a restart,
`sinceEtl` and `sinceCluster` do not; `saved` is `cluster_state.json`, which a kill leaves empty. `quietSince` and `standing` are history.

### Escalation and L1Evidence

`Escalation` has one step per request to a back end. `provider`, `keySet`, `ipex` are the configuration,
`step` and `task` where the resolution is and what a model is asked for, `draft` the answer that waits for its
review. Kinds of commands are those that the fixed rules of the review settle, and "targeted", which they leave
to a language model. `L1Evidence` is the vote over a query's result and the evidence that goes to the approval message
and the dashboard, with distances in percent of the threshold.

### Execution

A request becomes a command (`act`), is validated against the process table `procs`, may wait for approval while that table
changes (`young`), runs, is verified, and is rolled back when it failed. `touched` records what the commands acted
on, whether as a rollback and whether the process came after the check. Commands that their words alone condemn are
one kind.

### Notify

A sender stores a row or not, chooses a channel, and is done when Telegram's loop has only scheduled the message;
`queue` is lost when the loop or the process ends. `shown` counts how often people see a message: a send that reports an error may have
been shown all the same.

### Playbook, GithubCrawl, LoghubPipeline

`Playbook` has the table with its SERIAL, the backup file and the train set (absent, torn or a bag of texts), the
collection, and the jobs that move texts between them in the code's steps, each of which may die. Entries are
told apart as the scripts do it: by a metadata `source`, or by the prefix of the id. `GithubCrawl` runs both crawlers through
their list of queries with every kind of refusal. `LoghubPipeline` sorts lines by keyword, then asks a language model in batches whose
replies may be too short or too long.

### Connections and ChaosApp

`Connections` has the double-checked creation of the Chroma client and the turns in which threads open their SQLite
connections. `ChaosApp` has the server's one event loop, the handlers on it or in threads, the lock taken without waiting, and the
line that `chaos_cron.sh` writes about it. `HolderRaises` is the end of `inject_db_deadlock` when its thread does not start, which
comes before the `try` that gives the lock back: every later injection is then skipped until the container is restarted.

### Installation

`install.sh` step by step (`at`), with Ctrl-C at each of them, `sed` cut in the middle of a write of `.env`
(`torn`), and changes by hand between two installations. The mode is read by `InstallerReads` (exactly `groq`) and by the agent
as `AgentReads` (stripped, unquoted, any case).

### Metrics

The rows of one category, each with its number, the time it was written at (the count of rows by then), its result and `success`, plus two
facts the table does not have: whether anything was run and by whose leave. They are written by the pipeline, the demo and older versions of the table, and read by the dashboard, the performance
report and the gate report, whose `list_all` and query are two steps with the operator's commands between them.

## Runs

| run | instance | states | shows |
| --- | --- | --- | --- |
| `breaker` | 2 threads, 1 signature, threshold 3, timeout 2, 1 restart | 42,624 | rows stay consistent, one probe at a time, early only by a race, a lost probe blocks for good, every other probe is resolved (`TypeOK`, `RowsConsistent`, `ProbeAccounted`, `OneProbeAtATime`, `EarlyTestsAreRaces`, `WedgedForGood`, `ProbeResolved`) |
| `breaker_sequential` | 1 thread, 2 signatures, 1 restart | 19,856 | one thread implements `BreakerContract`, counts every result that maintenance does not delete, and an OPEN circuit is retried when its error recurs (`CountIsStreak`, `ContractHonoured`, `OpenIsRetried`) |
| `breaker_stuck_probe` | 1 thread, 1 signature | violated | the documented retry after 30 minutes does not come after a lost probe (`BlockedIsRetried`) |
| `breaker_lost_failure` | 2 threads, 1 signature | violated | two failures recorded at once count as one (`ThresholdOpens`) |
| `approval` | 1 waiter, 1 request, bot, 1 web thread, timeout 2, expiry 3, 1 restart | 33,244 | only approved actions run, once; no open request without a waiter; the bot tells the truth; waits end (`TypeOK`, `RunsAreApproved`, `PendingIsAwaited`, `BotTellsTruth`, `ApprovedInSleepRuns`, `WaitEnds`) |
| `approval_lost` | as above, timeout 1, expiry 2 | violated | an approval between the last poll and `mark_expired` is accepted and never carried out (`ApprovedIsRun`) |
| `approval_page` | same | violated | the web page reports a decision that was refused (`PageTellsTruth`) |
| `gate` | 1 thread, 2 operators, 2 commands, 2 managed categories, 1 restart, AUTO as the default level | 1,679,438 | runs are licensed, local mode asks, only what ran is learned, levels change by `set_level`, and by `start_shadow` only where it stores a default AUTO that local mode lowered (`TypeOK`, `RunsAreLicensed`, `LocalModeAsks`, `LearnedWasRun`, `LevelChangesBySetLevel`) |
| `gate_feedback` | 1 thread | violated | a command that was never run is fed back as a failure (`OutcomeWasRun`) |
| `knowledge` | 2 threads, 2 errors, 2 documents, removal after 2 failures, 2 lessons | 100,580 | no entry that should go is stored, counters are exact without overlap, removed entries stay removed, broken commands go (`TypeOK`, `NoDeadWeight`, `CountersExact`, `RemovedStaysRemoved`, `BrokenGoes`) |
| `knowledge_purge` | 1 thread, 1 error, purge threshold 3 | violated | the purger deletes a working entry for failures of a document purged before (`PurgedWasCulprit`) |
| `agent` | fifteen components, see below | 493,250 | what each of them promises, safety and liveness |

The run `agent` is fifteen models in one. Its components share no variable, so composing them freely would multiply their state
spaces and show nothing more; a variable `running` picks one, and the others stay in an initial
state. What TLC explores is their sum:

| component | instance | states | property |
| --- | --- | --- | --- |
| tail | 2 lines, one of them whole or in two pieces, 1 text, 1 rotation, 2 starts, 1 tick | 106,779 | `EachErrorOnce`: no part of a line is put to the debouncer twice, and what was read as an error exactly once when the offset has passed it; `ReportedErrorIsHandled`: a reported line is handled in the end |
| metrics | 2 rows, 2 commands | 92,450 | `MetricsToldRight`: what ran by leave of AUTO alone does not count towards AUTO; told as done is what is counted as resolved |
| playbook | 2 texts, a labelled and an unlabelled script, 3 jobs | 68,241 | `LoadedIsKept`: a load that returned is in the table or the backup, and stays in the collection until its own removal |
| chaos | 1 fault on the loop, 2 in threads, the crash, 3 requests | 89,116 | `InjectionsKeptApart`: one injection at a time, the lock is given back by every handler but one |
| execution | 2 processes, 4 names of which 2 protected, 2 names of processes, `pkill` limit 1 | 42,202 | `ExecutionIsSafe`: nothing protected is touched, what was undone is a failure |
| monitor | CPU and GPU vary, streak 2, cooldown 3, 1 restart | 24,816 | `AlertsAreDue`, `OverloadIsReported`: alerts neither too often nor too early, but again and again |
| loop | intervals 2, 2, 2, 3, 1 category, 2 starts | 23,702 | `NothingTooSoon`, `SchedulesGoOn`: once per interval across restarts, and for good |
| notify | 2 senders, 2 messages, 1 end of the process | 10,812 | `ShownOnceAndStored` |
| installation | 2 installations, 1 change by hand | 10,503 | `ModeIsAsTold` |
| crawl | 2 snippets, 3 requests, 2 queries, 2 issues | 5,780 | `IssuesAreCollected` |
| connections | 3 threads, 2 failures | 5,046 | `ConnectedOnce` |
| evidence | 3 results of 3 actions and 3 distances | 4,790 | `EvidenceIsOfAnswer` |
| loghub | 2 texts, 2 categories of at most 2 lines, 4 lines, batches of 2 | 4,621 | `FiledAsClassified` |
| debouncer | 2 threads, 2 keys, room for 1, cooldown 2, 4 ticks | 3,537 | `OncePerCooldown` |
| escalation | 3 configured providers, retries 2 and 3 | 855 | `AnswersAreSafe` |

Why these bounds. A race on a row needs two threads and one signature; the threshold of three
leaves room for a count below, at and above it, and a timeout of two ticks for an age that is new,
neither and expired. Every request has its own row and token, so one request with one
waiter and a clicker from each process has all the races the table allows; the timeout and the expiry are
different numbers so that each can come first for some age. The threads of the gate share
nothing but the levels, so one decision against two operators has all interleavings of two
writes with one passage; two commands are what it takes to promote and demote one category.
One restart is enough for a state that outlives a process. In `knowledge` the alert of the
main thread is also near the entry learned from the log, so both threads can be at work on one
entry; two lessons give an entry that needs a third failure to go; the purger's threshold is one so that it
deletes after any failure (`knowledge_purge` has the real threshold). Rows beyond `MaxRows` are not kept, as if they
left the window at once, which the model allows at any time.

In `agent`, two lines and one rotation give a line before and one after the file is replaced, a line that is cut by a
read, and a file that has outgrown the old offset; the second start is the one that begins at the end of the file. The debouncer has one key more than it
has room, so that one is pushed out. The monitor's cooldown is longer than a check and a streak together, so both limits are
met. Four lines and two categories of two lines fill one category by keyword and leave the other to the model, with a batch that is cut
short. Of two sources one is labelled and one is not, because they are removed by different rules. Three
requests to the fault injector are one that runs, one that is skipped or queued, and one after it. The process table has a protected and an
unprotected process that may swap places during an approval; the container is a protected name, and one name fits that of another. Two rows are one that counts and one that should not, and `MAX_FP` lets one of two fail. Two installations
are a first one and a repetition; one change by hand lies before, between or after them.

The violated runs are findings, each quoted in `PROJECT.json` against the line it contradicts. They
check one property each; the passing runs do not assume them away.

Deadlock is checked in every run but `agent`: there a component that has used up its bounded lines, messages,
requests or installations has nothing more to do.

## What else the code does differently from what it says

Met while modelling; the models follow the code, and no run is spent on them.

* `install.sh` recognises the cloud only by `LLM_PROVIDER=groq`, the agent also by `GROQ`, quotes or blanks around it: a repeated installation
  may then say that nothing leaves the server (`ModeIsAsTold` excepts this spelling). An interruption before the mode was written leaves
  the template's value, which the next run takes for a setting and does not ask; one between the two writes leaves `COMPOSE_PROFILES` unset.
  `set_env_var` replaces the first of several lines for a key, while readers take the last.
* The evidence of an L1 answer is documented as the nearest distance; it is that of the entry the vote chose (`src/llm_engine.py:1185`),
  which can be farther than the nearest line.
* The gate report says that it judges AUTO by actions that were attempted (`experiments/run_shadow_gate_report.py:18`). It tells rows apart
  by `result_category` only: escalations and alerts count as attempted and successful, rows of the demo and commands that
  the filter refused count too. `LevelAloneIsNotCounted` claims no more than what does stay out, and lists the rest (`CountedLeaves`).
* Escalations and alerts count as resolved by the agent in the dashboard, which tells them as carried out
  (`dashboard/app.py:195`); `ToldAsCounted` has them as done. Runs that a person approved count as autonomous. `seed_metrics.py` writes an escalation as a failure where the executor writes a success.
  `print_performance_report` counts observed and proposed rows as successes. An installation in READ_ONLY alone shows CRITICAL with 0 %.
  The dashboard's headline of 24 hours ignores the chosen source, and compares local times with rows stamped in UTC; its banner looks at ten breaker rows.
* The VRAM total is read from the used file when the total is missing (`src/monitor/vram_profiler.py:201`): a permanent false alert.
* A download cut off by the end of the process stays in the cache and is used as complete (`scripts/loghub_pipeline.py:242`).
* A `Retry-After` that is no number makes the ETL's crawler lose all it has collected (`src/etl_github_crawler.py:144`); the script survives it.
* The line of the start says that texts are sent out also when the cloud's key is missing, next to an error about the key.
* A line that its writer has not finished is handled as it is (`src/log_watcher.py:138`): what is read of it later is a line of its own. One that matches
  on both sides of the break is put to the debouncer twice, one whose keyword lies across the break not at all.
* `_kill_process` says that `pkill -x` ends only processes of exactly the name (`src/executor.py:965`); `pkill` reads its argument as a regular
  expression in which a dot, which names may have, stands for any character. Names are compared as they are written, and only `-f` lists
  what it matches. The container that stands in for what is no unit is chosen before the validation and not looked up among
  the protected names, and `nginx -s reload` is admitted although `PROTECTED_PROCESSES` names nginx. `ExecutionIsSafe` excepts
  exactly these (`Unasked`).
* The rate that the gate report compares with 5 % is a floating-point number: exactly 5 % come out above it and are refused (`FewFailed`).
* `inject_db_deadlock` takes the injection lock and starts its thread before the `try` that gives the lock back
  (`deploy/target-app/main.py:423`). `InjectionsKeptApart` excepts this handler (`KeepsLock`).
* `start_shadow` says that it leaves the level as it is (`src/autonomy_store.py:152`). With `DEFAULT_AUTONOMY_LEVEL = auto` and a category without a row
  that local mode keeps from AUTO, the tool in local mode reads the lowered level and stores it, so the category has
  it in cloud mode too. `LevelChangesBySetLevel` names this case (`ClampedDefaultStored`), and the run `gate` reaches it.
* The second check of `get_conn` under its lock can never find a connection, as connections belong to their thread.
* `LogDebouncer` is documented as thread-safe for several files; the agent's files share one dispatch thread.

## Fairness

The passing runs with liveness use weak fairness of the steps of a thread that is inside a pipeline, of
a handler that began its work, and of the clock: the operating system schedules runnable
threads, and every call in a pipeline has a timeout of its own. Nobody is obliged to press a button, no
error has to occur, no fault has to happen or to stay away. `OpenIsRetried` and
`BlockedIsRetried` are about an error that keeps coming back, so they assume strong fairness of its arrival, and of the
claiming transaction, whose fault (a locked database) is then not the outcome every time. The gate has safety
properties only. `BrokenGoes` is about an error that recurs and is not always swallowed by an
exception: strong fairness of its arrival, of a failing run and of the calls that record it, for watchdog's thread
only; the main thread may stall or overwrite counters as it likes.

In `agent` there is weak fairness of `Dispatch` (watchdog's thread goes on with what it has begun and takes the next event), of `CheckStep` and `LoopStep`
(the main thread goes on; every probe, task and pipeline has a timeout) and of the two clocks `MonTick` and `LoopTick`. Which way a step goes, success, failure or exception, is
not constrained: `SchedulesGoOn` and `OverloadIsReported` hold for the process that goes on undisturbed, and say so in their premises.
The other components have safety properties only.

## Proofs

All constants are arbitrary; the assumptions are those of the modules, each named after its module
(`BreakerAssumption`, `ApprovalAssumption`, ...; in `AutonomyGate` also `ManagedAssumption`). TLC evaluates them with the
constants of the runs. A theorem that needs more says so in its statement. The argument is an inductive invariant
in every case: the property alone does not survive a step, because a thread may hold what it read some steps ago, and the invariant
says of what is held what the property says of what is stored.

* `CircuitBreakerProofs`. `IInv` is the type invariant, `RowsConsistent` and `ProbeAccounted` together: a
  `record_result` may overwrite a row with a value computed from an old one, so what
  is stored stays consistent only because what the threads hold is consistent as well. The
  action properties `OneProbeAtATime` and `WedgedForGood` follow from the same invariant.
  `EarlyTestsAreRaces` adds that who goes on to the claim has judged its row due (`ClaimsLookDue`). For a single thread, `SeqInv`
  adds that the row a thread read is the stored one unless maintenance has deleted it (`Fresh`), and that the counts, stored
  and about to be stored, are the history (`Counted`). So the counter is the streak (`CountIsStreak`), and every step is a step
  of `BreakerContract` or a stutter, under the refinement mapping `Seen`.
* `ApprovalProofs`. `IInv` adds to the checked invariants that a waiter owns its token and
  that a waiter about to run has an approved row, which no later click can change because of
  `WHERE status = 'pending'`.
* `AutonomyGateProofs`. `IInv` adds what a thread's record says of its past (`Sound`) and that the
  history holds the present level (`SeenIsCurrent`), so that the second reading of the
  level can rely on it. `EffectiveIsCautious` is the lemma about `get_level` and
  `_effective_level` everything rests on. `LevelChangesBySetLevel` needs one thing more, `ShadowIsDefault`: what
  `start_shadow` read while there was no row is the default or what local mode makes of it. It holds for every default level.
* `KnowledgeBaseProofs`. A removable entry could be stored by two pipelines that overwrite each
  other's counters, so `IInv` says of what the pipelines have read what it says of what is stored. A success
  lowers the rate of failures (`SuccessLowersRate`), so learning again keeps it. `RemovedStaysRemoved`
  follows, as only three steps write entries (`Writers`). `CountersStayExact` needs `CInv`: a pipeline that is alone at
  work on an entry teaches only an entry that is not there, and has read what is stored. That a lookup without an answer
  means that the entry is not there rests on the vote having a winner (`ChosenIsDocument`, from the least element of a set of
  numbers). Its hypotheses are that no two threads learn from the same text (`OwnTexts`) and that a text is within the threshold of
  its own entry (`NearItself`). `TypeCorrect` rests on the purger's sums being numbers (`SumIsNumber`): the function that the
  sum is folded with exists for the subsets up to each size (`SumsExist`), by the least size for which it would not.
* `WatchingProofs`. `DebInv`: the last time a key was let through is the time in the `OrderedDict`, or the key was pushed out
  since. `TailInv`: an error of the log is offered once if it lies before the offset and is neither blind nor in the batch, and no half of a piece
  that lies behind it or in the batch has been offered (`Taken`, `Unoffered`, `RecordedOnce`); pieces are in the order of their lines, and a
  head is followed by its tail (`InOrder`), so what `readlines` joins is a line of the writer's. `MonInv`: the history of
  alerts is the code's own, the streak is no longer than the checks that were hot, and a full memory that is not was misread. `LoopInv`: each
  task has rested at least as long as its row or timer says, and what stands announced is in the file.
* `ResolutionProofs`. `EscInv`: nothing but a cloud installation ever reaches the Groq step, and a draft that waits for its
  review has a command that the fixed rules leave open; besides `AnswersAreSafe` it gives its two halves as theorems. `ExecInv`: a
  command that waits was harmless by the process table of its check, up to processes that have changed since and those
  whose name its target only fits. `NotifyInv`: a
  message is with one sender, then in the queue, and not shown before it has left both.
* `SurroundingsProofs`. `PlayInv`: entries of scripts are told from the table's own by id and source, whatever step a job was cut off at, and
  what a load has returned is in the table or the backup. `CrawlInv`: what has been seen of a query is gathered under it until
  the crawl raises. `LogInv`: lines of the keyword's hits have that keyword, the model's have none and were answered so, and the two
  together never exceed a category's limit, which is what makes the order of the phases matter. `EvInv`: the result is
  sorted and the answer is what the vote built of it; the vote has a winner with the most votes (`TopActionIsVoted`). `ConnInv`: who is about to create the client holds
  the lock and found none. `ChaosInv`: the lock is held by the handler that injects, and by nobody else but one of `inject_db_deadlock` that ended with it. `InstallInv`: the mode is the
  cloud only by the operator's choice, also when it was read back from `.env`; from the writing of `LLM_PROVIDER` on, the
  installer's mode and the file agree. `MetricInv`: since the review began nothing was let through by the level alone, unless the
  level is AUTO or the operator ran the tool meanwhile.
* `AgentProofs`. `OneComponentMoves` says that a step of the agent is a step of one component and a stutter of all
  others, which is how the components' invariants become the agent's. `AgentTypeCorrect` needs, besides them, a few
  types that are no part of an invariant (`DebTypes`, `LoopTypes`, `ExecTypes`, `PlayTypes`).

Some assumptions say what the proofs need of sets that the models leave open. There is a key to debounce, a line that
is an error, and a query to crawl; the values for a file that is gone, absent or torn are no contents of a file; the tags of a
row's id and the value for no label are no names of scripts; and the texts of the playbook and the documents of the
collection are finitely many, because numbers are drawn for the rows and failures summed over them.

Only model-checked:

* liveness (`ProbeResolved`, `OpenIsRetried`, `ApprovedInSleepRuns`, `WaitEnds`, `BrokenGoes`, `SchedulesGoOn`, `OverloadIsReported`,
  `ReportedErrorIsHandled`), which is out of the prover's reach, as is `ENABLED`;
* the violations.

Every invariant and every action property of the passing runs is a theorem.

## Not modelled

* The text of messages, prompts and signatures, the regular expressions and keyword lists that texts are matched
  with, tables of data, layout and charts of the dashboard: the models take the outcome of a match as an input.
* `AUTO_APPROVE` and the interactive approval (`_await_approval` returns at once in them); the audit rows of
  `shadow_events`, which nothing reads back.
* What commands do to services beyond which process they touch.
* Configuration, logging and masking: constants and formatting without state of their own.
* `system_diagnostics.py` and the profiler: sequences of probes that only read the machine. `LogMonitor` has no caller.
* Ollama's warm-up, a request whose answer is not looked at.
* The evaluation experiments and the notebook, which run outside the agent.

`PROJECT.json` lists these parts with their status.

## Plan

1. `Pipeline`: breaker, gate and approval composed for one thread, with `AutonomyGate`'s one-step
   approval shown to be implemented by `Approval`.
2. The vote of `KnowledgeBase` and that of `L1Evidence`, which are the same rule in two forms, shown to choose the same entry.
