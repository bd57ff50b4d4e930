----------------------------- MODULE KnowledgeBase -----------------------------
(***************************************************************************)
(* The collection error_playbook_vectors: how analyze_error picks an entry *)
(* of it, how learn_from_feedback and record_learned_outcome of            *)
(* src/llm_engine.py change it after a run (called by                      *)
(* trigger_agent_pipeline in src/log_watcher.py), how the main loop's      *)
(* VectorDBPurger deletes from it and how its ETLScheduler restores the    *)
(* curated documents.                                                      *)
(*                                                                         *)
(* A text stands for an error log and, as a document, for the entry that   *)
(* is learned from it (its id is the hash of the text).  Distances are     *)
(* constant: Near gives the documents within _RAG_THRESHOLD of a text.     *)
(* Every call of the collection is one atomic step.  A restart loses the   *)
(* same locals as an exception in every thread, which can happen at any    *)
(* step, so it is no action of its own.                                    *)
(***************************************************************************)
EXTENDS Naturals, Sequences, FiniteSetsExt

CONSTANTS
    Workers,         \* threads that run the pipeline
    Main,            \* the one that also runs the purger and the ETL
    Texts,           \* error logs, and the entries learned from them
    Own,             \* the texts each worker meets
    Curated,         \* documents nobody learned
    Synced,          \* those of them that are in train_set.json
    CuratedAction,   \* their action_type
    Near,            \* documents within the threshold of a text, nearest first
    Commands,
    NoCommand,       \* Python None
    NoDoc,           \* no l1_doc_id
    LEARNED_ENTRY_MAX_FAILURES,
    LEARNED_ENTRY_FAILURE_RATE,  \* in percent
    PURGE_THRESHOLD,
    MaxLessons,      \* bound: how many successes are fed back
    MaxRows          \* bound: how many failing rows the metrics table keeps

ASSUME KnowledgeAssumption ==
    /\ Main \in Workers
    /\ Own \in [Workers -> SUBSET Texts]
    /\ IsFiniteSet(Curated \cup Texts)
    /\ Curated \cap Texts = {}
    /\ Synced \subseteq Curated
    /\ Near \in [Texts -> Seq(Curated \cup Texts)]
    /\ NoCommand \notin Commands
    /\ NoDoc \notin Curated \cup Texts
    /\ LEARNED_ENTRY_MAX_FAILURES \in Nat \ {0}
    /\ LEARNED_ENTRY_FAILURE_RATE \in 0..100
    /\ PURGE_THRESHOLD \in Nat \ {0}
    /\ MaxLessons \in Nat
    /\ MaxRows \in Nat

N_RESULTS == 5
Docs == Curated \cup Texts

VARIABLES
    stock,   \* the curated documents in the collection
    learned, \* the learned entries: command and counters
    work,    \* the pipeline of each worker
    rows,    \* failing L1_CACHE rows of the last 7 days: how many of each text and document
    purge,   \* the purger's run
    broken,  \* commands that have ceased to work
    lessons, \* how many successes were fed back
    truth,   \* history: results reported for an entry since it was learned
    shared   \* history: entries that two pipelines were at work on at once

vars == <<stock, learned, work, rows, purge, broken, lessons, truth, shared>>

Missing == [cmd |-> NoCommand, succ |-> 0, fail |-> 0]
Zero == [succ |-> 0, fail |-> 0]
Idle == [at |-> "idle", text |-> NoDoc, doc |-> NoDoc, cmd |-> NoCommand,
         meta |-> Missing, ok |-> FALSE]

\* A pipeline at another place with other locals, and one that has only to log
\* its result.
Moved(p, at, cmd, meta, ok) ==
    [at |-> at, text |-> p.text, doc |-> p.doc, cmd |-> cmd, meta |-> meta, ok |-> ok]
Done(p, ok) == Moved(p, "log", NoCommand, Missing, ok)

NoRows == [t \in Texts |-> [d \in Docs |-> 0]]
NoPurge == [at |-> "idle", rows |-> NoRows, left |-> {},
            hits |-> [d \in Docs |-> 0], doomed |-> {}]

IsLearned(t) == learned[t].cmd # NoCommand
Present == stock \cup {t \in Texts : IsLearned(t)}

-----------------------------------------------------------------------------
(* The lookup *)

ActionOf(d) == IF d \in Texts THEN "execute_llm_command" ELSE CuratedAction[d]

\* The ranks in Near[t] of what the query returns within the threshold.
Candidates(t) ==
    LET here == {i \in DOMAIN Near[t] : Near[t][i] \in Present}
    IN  {i \in here : Cardinality({j \in here : j < i}) < N_RESULTS}

\* How many candidates have the action of the one at rank i.
Votes(t, i) == Cardinality({j \in Candidates(t) : ActionOf(Near[t][j]) = ActionOf(Near[t][i])})

\* _ensemble_vote: the nearest candidate of the action most candidates have;
\* of two actions with as many votes the one that was met first.
Wins(t, i) == \A j \in Candidates(t) :
    Votes(t, j) < Votes(t, i) \/ (Votes(t, j) = Votes(t, i) /\ i <= j)
Chosen(t) == Near[t][CHOOSE i \in Candidates(t) : Wins(t, i)]

\* analyze_error: the document hit and its command, or what the L2 chain says.
Answers(t) ==
    IF Candidates(t) # {}
    THEN LET d == Chosen(t) IN
         {[doc |-> d, cmd |-> IF d \in Texts THEN learned[d].cmd ELSE NoCommand]}
    ELSE {[doc |-> NoDoc, cmd |-> c] :
             c \in IF Present = {} THEN {NoCommand} ELSE Commands \cup {NoCommand}}

\* The learned entry a pipeline may write.
Subject(p) == IF p.doc = NoDoc THEN p.text ELSE p.doc
Busy(w) == work[w].at # "idle"

Lookup(w, t) ==
    /\ ~ Busy(w)
    /\ t \in Own[w]
    /\ w = Main => purge.at = "idle"
    /\ \E a \in Answers(t) :
          LET p == [at |-> "execute", text |-> t, doc |-> a.doc, cmd |-> a.cmd,
                    meta |-> Missing, ok |-> FALSE]
              s == Subject(p)
              others == \E v \in Workers \ {w} : Busy(v) /\ Subject(work[v]) = s
          IN  /\ work' = [work EXCEPT ![w] = p]
              /\ shared' = IF others /\ s \in Texts THEN shared \cup {s} ELSE shared
              /\ truth' = IF others /\ s \in Texts THEN [truth EXCEPT ![s] = Zero] ELSE truth
    /\ UNCHANGED <<stock, learned, rows, purge, broken, lessons>>

-----------------------------------------------------------------------------
(* The run, and where its result goes *)

\* Wrong variant: an answer of the knowledge base is learned again.
TeachesAgain(p, ok, fed) == ok /\ fed /\ p.cmd # NoCommand

\* Wrong variant: an answer without a command is learned.
TeachesNothing(p, ok, fed) == ok /\ fed /\ p.doc = NoDoc

\* The result goes to learn_from_feedback.
Teaches(p, ok, fed) == ok /\ fed /\ p.doc = NoDoc /\ p.cmd # NoCommand

\* Wrong variant: only successes are fed back.
FeedsBackSuccess(p, ok, fed) == ok /\ fed /\ p.doc \in Texts

\* The result goes to record_learned_outcome.
FeedsBack(p, ok, fed) == fed /\ p.doc \in Texts

\* execute returns.  fed is FALSE for OBSERVED_ONLY and PROPOSED_ONLY; a
\* rejected or refused command is a failure like any other; a document that
\* only alerts or escalates cannot fail.
Execute(w, ok, fed) ==
    LET p == work[w] IN
    /\ p.at = "execute"
    /\ ok \/ fed
    /\ ok /\ fed /\ p.cmd # NoCommand => p.cmd \notin broken /\ lessons < MaxLessons
    /\ p.doc \in Curated /\ CuratedAction[p.doc] \in {"alert_only", "escalate_to_human"} => ok
    /\ work' = [work EXCEPT ![w] =
           IF Teaches(p, ok, fed) THEN Moved(p, "learn", p.cmd, Missing, ok)
           ELSE IF FeedsBack(p, ok, fed) THEN Moved(p, "outcome", NoCommand, Missing, ok)
           ELSE Done(p, ok)]
    /\ lessons' = IF ok /\ fed /\ p.cmd # NoCommand THEN lessons + 1 ELSE lessons
    /\ UNCHANGED <<stock, learned, rows, purge, broken, truth, shared>>

\* An exception in analyze_error, execute or record_result: the pipeline ends.
PipelineRaises(w) ==
    /\ work[w].at \in {"execute", "log"}
    /\ work' = [work EXCEPT ![w] = Idle]
    /\ UNCHANGED <<stock, learned, rows, purge, broken, lessons, truth, shared>>

-----------------------------------------------------------------------------
(* learn_from_feedback *)

\* collection.get; when it raises, the entry counts as new.
LearnRead(w) ==
    LET p == work[w] IN
    /\ p.at = "learn"
    /\ \E meta \in {learned[p.text], Missing} :
          work' = [work EXCEPT ![w] = Moved(p, "upsert", p.cmd, meta, p.ok)]
    /\ UNCHANGED <<stock, learned, rows, purge, broken, lessons, truth, shared>>

\* The counters of an entry that is learned, perhaps again.
Lesson(meta, cmd) ==
    IF meta.cmd = cmd THEN [meta EXCEPT !.succ = @ + 1]
                      ELSE [cmd |-> cmd, succ |-> 1, fail |-> 0]

LearnWrite(w) ==
    LET p == work[w]
        t == p.text
        others == \E v \in Workers \ {w} : Busy(v) /\ Subject(work[v]) = t
    IN  /\ p.at = "upsert"
        /\ learned' = [learned EXCEPT ![t] = Lesson(p.meta, p.cmd)]
        /\ work' = [work EXCEPT ![w] = Done(p, p.ok)]
        /\ shared' = IF others THEN shared \cup {t} ELSE shared \ {t}
        /\ truth' = [truth EXCEPT ![t] = IF others THEN Zero ELSE [succ |-> 1, fail |-> 0]]
        /\ UNCHANGED <<stock, rows, purge, broken, lessons>>

-----------------------------------------------------------------------------
(* record_learned_outcome *)

\* collection.get; nothing more happens to an entry that is gone.
OutcomeRead(w) ==
    LET p == work[w] IN
    /\ p.at = "outcome"
    /\ work' = [work EXCEPT ![w] =
           IF IsLearned(p.doc) THEN Moved(p, "update", NoCommand, learned[p.doc], p.ok)
                               ELSE Done(p, p.ok)]
    /\ UNCHANGED <<stock, learned, rows, purge, broken, lessons, truth, shared>>

\* The counters with one more result; of an entry or of its history.
Counted(c, ok) == IF ok THEN [c EXCEPT !.succ = @ + 1] ELSE [c EXCEPT !.fail = @ + 1]

\* Enough failures, and failing too often.
Removable(c) ==
    /\ c.fail >= LEARNED_ENTRY_MAX_FAILURES
    /\ c.fail * 100 > LEARNED_ENTRY_FAILURE_RATE * (c.succ + c.fail)

\* Wrong variant: an entry that ever worked is kept.
AfterSuccessKeeps(d, now) ==
    IF (Removable(now) /\ now.succ = 0) \/ ~ IsLearned(d) THEN Missing ELSE now

\* Wrong variant: the changed metadata are upserted.
AfterUpsert(d, now) == IF Removable(now) THEN Missing ELSE now

\* The entry with the new counters is deleted or updated; collection.update
\* ignores an id that is not there.
After(d, now) == IF Removable(now) \/ ~ IsLearned(d) THEN Missing ELSE now

OutcomeWrite(w) ==
    LET p == work[w]
        d == p.doc
        now == Counted(p.meta, p.ok)
    IN  /\ p.at = "update"
        /\ learned' = [learned EXCEPT ![d] = After(d, now)]
        /\ truth' = [truth EXCEPT ![d] =
               IF d \in shared \/ learned'[d] = Missing THEN Zero ELSE Counted(@, p.ok)]
        /\ work' = [work EXCEPT ![w] = Done(p, p.ok)]
        /\ UNCHANGED <<stock, rows, purge, broken, lessons, shared>>

\* A call of the collection raises; the handler logs it and goes on.
CollectionFails(w) ==
    /\ work[w].at \in {"upsert", "outcome", "update"}
    /\ work' = [work EXCEPT ![w] = Done(work[w], work[w].ok)]
    /\ UNCHANGED <<stock, learned, rows, purge, broken, lessons, truth, shared>>

-----------------------------------------------------------------------------
(* The metrics *)

RowsOf(r, t) == MapThenSumSet(LAMBDA d : r[t][d], Docs)
RowsFor(r, d) == MapThenSumSet(LAMBDA t : r[t][d], Texts)
AllRows == MapThenSumSet(LAMBDA t : RowsOf(rows, t), Texts)

\* log_event, which may fail.  A row over the bound is not kept, as if it
\* expired at once.
LogEvent(w) ==
    LET p == work[w] IN
    /\ p.at = "log"
    /\ work' = [work EXCEPT ![w] = Idle]
    /\ \/ UNCHANGED rows
       \/ /\ ~ p.ok /\ p.doc # NoDoc /\ AllRows < MaxRows
          /\ rows' = [rows EXCEPT ![p.text][p.doc] = @ + 1]
    /\ UNCHANGED <<stock, learned, purge, broken, lessons, truth, shared>>

\* A row leaves the window of LOOKBACK_DAYS.
RowExpires(t, d) ==
    /\ rows[t][d] > 0
    /\ rows' = [rows EXCEPT ![t][d] = @ - 1]
    /\ UNCHANGED <<stock, learned, work, purge, broken, lessons, truth, shared>>

-----------------------------------------------------------------------------
(* VectorDBPurger *)

\* _get_failing_logs
PurgeStart ==
    /\ purge.at = "idle"
    /\ ~ Busy(Main)
    /\ AllRows > 0 /\ Present # {}
    /\ purge' = [NoPurge EXCEPT !.at = "query", !.rows = rows,
                                !.left = {t \in Texts : RowsOf(rows, t) > 0}]
    /\ UNCHANGED <<stock, learned, work, rows, broken, lessons, truth, shared>>

\* The document nearest to each row of one text gets its failures.  The query
\* may raise.
PurgeQuery(t) ==
    /\ purge.at = "query"
    /\ t \in purge.left
    /\ \E found \in BOOLEAN :
          LET hits == IF found /\ Candidates(t) # {}
                      THEN [purge.hits EXCEPT ![Near[t][Min(Candidates(t))]] =
                                                 @ + RowsOf(purge.rows, t)]
                      ELSE purge.hits
          IN  purge' = [purge EXCEPT !.left = @ \ {t}, !.hits = hits]
    /\ UNCHANGED <<stock, learned, work, rows, broken, lessons, truth, shared>>

PurgeJudge ==
    /\ purge.at = "query"
    /\ purge.left = {}
    /\ purge' = [purge EXCEPT !.at = "delete",
                              !.doomed = {d \in Docs : purge.hits[d] >= PURGE_THRESHOLD}]
    /\ UNCHANGED <<stock, learned, work, rows, broken, lessons, truth, shared>>

\* collection.delete, which may raise.
PurgeDelete(d) ==
    /\ purge.at = "delete"
    /\ d \in purge.doomed
    /\ purge' = [purge EXCEPT !.doomed = @ \ {d}]
    /\ \/ UNCHANGED <<stock, learned>>
       \/ /\ stock' = stock \ {d}
          /\ learned' = [t \in Texts |-> IF t = d THEN Missing ELSE learned[t]]
    /\ truth' = [t \in Texts |-> IF learned'[t] = Missing THEN Zero ELSE truth[t]]
    /\ UNCHANGED <<work, rows, broken, lessons, shared>>

PurgeEnd ==
    /\ purge.at = "delete"
    /\ purge.doomed = {}
    /\ purge' = NoPurge
    /\ UNCHANGED <<stock, learned, work, rows, broken, lessons, truth, shared>>

\* ETLScheduler._run: one upsert of train_set.json.
Sync ==
    /\ purge.at = "idle"
    /\ ~ Busy(Main)
    /\ stock' = stock \cup Synced
    /\ UNCHANGED <<learned, work, rows, purge, broken, lessons, truth, shared>>

-----------------------------------------------------------------------------
\* The machine changes under a command.
Breaks(c) ==
    /\ broken' = broken \cup {c}
    /\ UNCHANGED <<stock, learned, work, rows, purge, lessons, truth, shared>>

Init ==
    /\ stock   = Curated
    /\ learned = [t \in Texts |-> Missing]
    /\ work    = [w \in Workers |-> Idle]
    /\ rows    = NoRows
    /\ purge   = NoPurge
    /\ broken  = {}
    /\ lessons = 0
    /\ truth   = [t \in Texts |-> Zero]
    /\ shared  = {}

WorkerStep(w) ==
    \/ \E t \in Texts : Lookup(w, t)
    \/ \E ok, fed \in BOOLEAN : Execute(w, ok, fed)
    \/ PipelineRaises(w)
    \/ LearnRead(w)
    \/ LearnWrite(w)
    \/ OutcomeRead(w)
    \/ OutcomeWrite(w)
    \/ CollectionFails(w)
    \/ LogEvent(w)

PurgeStep ==
    \/ PurgeStart
    \/ \E t \in Texts : PurgeQuery(t)
    \/ PurgeJudge
    \/ \E d \in Docs : PurgeDelete(d)
    \/ PurgeEnd

Next ==
    \/ \E w \in Workers : WorkerStep(w)
    \/ PurgeStep
    \/ Sync
    \/ \E t \in Texts, d \in Docs : RowExpires(t, d)
    \/ \E c \in Commands : Breaks(c)

Spec == Init /\ [][Next]_vars

\* watchdog's thread makes progress, its errors come back, and neither an
\* exception nor the collection fails it every time.  Nothing is assumed of the
\* main thread.
Fairness ==
    \A w \in Workers \ {Main} :
        /\ WF_vars(WorkerStep(w))
        /\ \A t \in Own[w] : SF_vars(Lookup(w, t))
        /\ SF_vars(Execute(w, FALSE, TRUE))
        /\ SF_vars(OutcomeRead(w))
        /\ SF_vars(OutcomeWrite(w))

FairSpec == Spec /\ Fairness

-----------------------------------------------------------------------------
Entries == {Missing} \cup [cmd : Commands, succ : Nat \ {0}, fail : Nat]
Bags == [Texts -> [Docs -> Nat]]
Pipelines == [at : {"idle", "execute", "learn", "upsert", "outcome", "update", "log"},
              text : Texts \cup {NoDoc}, doc : Docs \cup {NoDoc},
              cmd : Commands \cup {NoCommand}, meta : Entries, ok : BOOLEAN]

\* Entries, pipelines and purger runs are well formed; a stored entry has a
\* command that worked at least once (learn_from_feedback).
TypeOK ==
    /\ stock \subseteq Curated
    /\ learned \in [Texts -> Entries]
    /\ work \in [Workers -> Pipelines]
    /\ rows \in Bags
    /\ purge \in [at : {"idle", "query", "delete"}, rows : Bags, left : SUBSET Texts,
                  hits : [Docs -> Nat], doomed : SUBSET Docs]
    /\ broken \subseteq Commands
    /\ lessons \in 0..MaxLessons
    /\ truth \in [Texts -> [succ : Nat, fail : Nat]]
    /\ shared \subseteq Texts

\* No entry that record_learned_outcome should have removed stays in the
\* collection, whatever two pipelines read and write of it at once.
NoDeadWeight == \A t \in Texts : IsLearned(t) => ~ Removable(learned[t])

\* The counters of an entry are the results reported for it since it was
\* learned, unless two pipelines were at work on it at once.
CountersExact ==
    \A t \in Texts \ shared :
        IsLearned(t) => truth[t] = [succ |-> learned[t].succ, fail |-> learned[t].fail]

\* An entry that was removed, by its failures or by the purger, comes back only
\* by learning a command that just worked: a late result of its old command
\* (record_learned_outcome of another pipeline) does not restore it.
RemovedStaysRemoved ==
    [][\A t \in Texts : ~ IsLearned(t) /\ IsLearned(t)' =>
          \E w \in Workers : /\ work[w].at = "upsert" /\ work[w].text = t /\ work[w].ok
                             /\ learned'[t].cmd = work[w].cmd]_vars

\* A learned command that has ceased to work does not stay the answer to an
\* error of the log: enough failures are counted to remove it, even if some are
\* lost between two pipelines (record_learned_outcome).
BrokenGoes ==
    \A w \in Workers \ {Main}, c \in Commands : \A t \in Own[w] :
        []<> ~ (c \in broken /\ learned[t].cmd = c /\ Chosen(t) = t)

\* The purger deletes a document only if it was the one used in enough of the
\* failures it looks at (the head of src/vector_db_purger.py).
PurgedWasCulprit ==
    \A d \in purge.doomed : RowsFor(purge.rows, d) >= PURGE_THRESHOLD
=============================================================================
