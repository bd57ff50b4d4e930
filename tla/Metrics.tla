-------------------------------- MODULE Metrics --------------------------------
(***************************************************************************)
(* The table metrics of one error category and those who read it: the      *)
(* pipeline writes a row for what the executor returned                    *)
(* (src/executor.py, src/observability.py), the demo writes rows of its    *)
(* own (demo/seed_metrics.py), the maintenance deletes old ones, the       *)
(* dashboard (dashboard/app.py) and the performance report count them, and *)
(* experiments/run_shadow_gate_report.py judges by them whether the        *)
(* category may be promoted to AUTO while an operator changes its level.   *)
(*                                                                         *)
(* A timestamp is the number of rows written before.                       *)
(***************************************************************************)
EXTENDS Naturals, FiniteSets

CONSTANTS
    MIN_N,           \* _MIN_N
    MAX_FP,          \* _MAX_FP, in percent
    ReviewTargets,         \* bound: the levels that a review is started for
    MaxRows,         \* bound: rows written
    MaxCommands      \* bound: runs of set_autonomy_level.py

AutonomyLevels == {"read_only", "propose", "approve_then_execute", "auto"}

ASSUME MetricsAssumption ==
    /\ {MIN_N, MAX_FP, MaxRows, MaxCommands} \subseteq Nat
    /\ ReviewTargets \subseteq AutonomyLevels

VARIABLES
    level,     \* autonomy_state of the category
    review,    \* its shadow_target_level and shadow_started_at
    carrying,  \* the level at which the pipeline's decision was dispatched
    moved,     \* history: the operator has run the tool since the dispatch
    metrics,   \* the rows that are kept
    rowCount,   \* how many were written
    commands,
    report     \* the run of the gate report: what list_all gave it

metricVars == <<level, review, carrying, moved, metrics, rowCount, commands, report>>
autonomy == <<level, review>>

NoReview == [target |-> "none", since |-> 0]
NoReport == [at |-> "none", since |-> 0, upTo |-> 0]

\* What a row says.  Its history: whether the action was run, and by whose leave,
\* "unclear" if the operator ran the tool meanwhile.
Row(success, result, type, ran, leave) ==
    [success |-> success, result |-> result, type |-> type, ran |-> ran, leave |-> leave]

\* What execute returns for a decision of that level, "ungated" for an
\* escalation or an alert; leave is by whose leave an action is run.
Refused == {Row(FALSE, "FAILURE", "Blocked", FALSE, "nobody"),
            Row(FALSE, "IMPOSSIBLE", "Blocked", FALSE, "nobody")}
Tried(leave) == {Row(TRUE, "SUCCESS", "none", TRUE, leave),
                 Row(FALSE, "FAILURE", "Failed", TRUE, leave)}
Returned(lvl, leave) ==
    CASE lvl = "ungated"   -> {Row(TRUE, "IMPOSSIBLE", "EscalatedToHuman", FALSE, "ungated"),
                               Row(TRUE, "SUCCESS", "none", FALSE, "ungated")}
      [] lvl = "read_only" -> {Row(TRUE, "OBSERVED_ONLY", "none", FALSE, "nobody")}
      [] lvl = "propose"   -> {Row(TRUE, "PROPOSED_ONLY", "none", FALSE, "nobody")}
      [] lvl \in {"approve_then_execute", "auto"} -> Refused \cup Tried(leave)

\* _pick_outcome: here an escalation is no success, and counts as a failure does.
Seeds == {Row(TRUE, "SUCCESS", "seed", FALSE, "demo"),
          Row(FALSE, "IMPOSSIBLE", "seed", FALSE, "demo")}

\* A table from before result_category: the column is added with its default.
Legacy == [id |-> 0, at |-> 0, event |-> Row(FALSE, "SUCCESS", "none", TRUE, "person")]

MetricInit ==
    /\ level \in {"approve_then_execute", "auto"}
    /\ review = NoReview
    /\ carrying = "none"
    /\ moved = FALSE
    /\ metrics \in {{}, {Legacy}}
    /\ rowCount = 0
    /\ commands = 0
    /\ report = NoReport

-----------------------------------------------------------------------------
(* Writers                                                                 *)

\* _dispatch reads the level, unless the decision is an escalation or an alert;
\* at AUTO a person is asked about what its review did not pass.
Decide(ungated, passed) ==
    /\ carrying = "none"
    /\ carrying' = IF ungated THEN "ungated"
                   ELSE IF level = "auto" /\ ~passed THEN "approve_then_execute"
                   ELSE level
    /\ moved' = FALSE
    /\ UNCHANGED <<autonomy, metrics, rowCount, commands, report>>

Insert(row, at) ==
    /\ rowCount < MaxRows
    /\ rowCount' = rowCount + 1
    /\ metrics' = metrics \cup {[id |-> rowCount', at |-> at, event |-> row]}

\* A level changed between two reads of it may let a command run unasked.
Leave == IF moved THEN "unclear" ELSE IF carrying = "auto" THEN "level" ELSE "person"

\* log_event at the end of the pipeline, stamped then.
LogEvent ==
    /\ carrying # "none"
    /\ \E row \in Returned(carrying, Leave) : Insert(row, rowCount)
    /\ carrying' = "none"
    /\ moved' = FALSE
    /\ UNCHANGED <<autonomy, commands, report>>

\* SQLite fails: log_event returns and the row is lost.
LogFails ==
    /\ carrying # "none"
    /\ carrying' = "none"
    /\ moved' = FALSE
    /\ UNCHANGED <<autonomy, metrics, rowCount, commands, report>>

\* generate and insert: stamped within the last seven days.
Seed ==
    /\ \E row \in Seeds, at \in 0..rowCount : Insert(row, at)
    /\ UNCHANGED <<autonomy, carrying, moved, commands, report>>

\* clear_seed and --reset-all of the demo; run_if_due of the maintenance.
Delete ==
    /\ \/ metrics' = {r \in metrics : r.event.type # "seed"}
       \/ metrics' = {}
       \/ \E cutoff \in 1..rowCount : metrics' = {r \in metrics : r.at >= cutoff}
    /\ metrics' # metrics
    /\ UNCHANGED <<autonomy, carrying, moved, rowCount, commands, report>>

-----------------------------------------------------------------------------
(* The operator                                                            *)

Run ==
    /\ commands < MaxCommands
    /\ commands' = commands + 1
    /\ moved' = (carrying \in {"approve_then_execute", "auto"})

\* Wrong variant: a review goes on when the level is set.
ReviewGoesOn == review

\* set_level ends a review.
ReviewEnds == NoReview

SetLevel(to) ==
    /\ Run
    /\ level' = to
    /\ review' = ReviewEnds
    /\ UNCHANGED <<carrying, metrics, rowCount, report>>

StartReview(to) ==
    /\ Run
    /\ review' = [target |-> to, since |-> rowCount]
    /\ UNCHANGED <<level, carrying, metrics, rowCount, report>>

-----------------------------------------------------------------------------
(* The gate report                                                         *)

\* list_all: level and review in one reading.
Listed == [level |-> level, shadow |-> review.target, started |-> review.since]

\* analyze: only the step from APPROVE to AUTO is judged by what succeeded.
ReportBegins ==
    /\ report = NoReport
    /\ Listed.level = "approve_then_execute"
    /\ Listed.shadow = "auto"
    /\ report' = [at |-> "judging", since |-> Listed.started, upTo |-> rowCount]
    /\ UNCHANGED <<autonomy, carrying, moved, metrics, rowCount, commands>>

ReportEnds ==
    /\ report # NoReport
    /\ report' = NoReport
    /\ UNCHANGED <<autonomy, carrying, moved, metrics, rowCount, commands>>

NotAttempted == {"OBSERVED_ONLY", "PROPOSED_ONLY"}

\* _load_category_rows, read while the report is at it.
Attempted ==
    {r \in metrics : r.at >= report.since /\ r.event.result \notin NotAttempted}
Failed(rows) == {r \in rows : ~r.event.success}

\* fp_rate <= _MAX_FP.  The rate is 1 - n_success / n in floating point: exactly 5 %
\* come out as 0.05000000000000004, which is too many.
FewFailed(rows) == Cardinality(Failed(rows)) * 100 < MAX_FP * Cardinality(rows)

\* _judge_approve_to_auto; the period of two weeks may have passed at any time.
ReadyForAuto ==
    /\ Attempted # {}
    /\ Cardinality(Attempted) >= MIN_N
    /\ FewFailed(Attempted)

-----------------------------------------------------------------------------
(* The dashboard and the performance report                                *)

\* load_metrics: all rows, a missing result_category counting as SUCCESS.
LoadMetrics == metrics

\* The rows of the chosen days and of the chosen sources.
Filtered == SUBSET LoadMetrics

\* _make_story
Story(r) ==
    IF r.event.result \in NotAttempted THEN r.event.result
    ELSE IF r.event.success THEN "done"
    ELSE IF r.event.result = "IMPOSSIBLE" THEN "impossible"
    ELSE "failed"

Acted(rows) == {r \in rows : r.event.result \notin NotAttempted}
Resolved(rows) == {r \in Acted(rows) : r.event.success}

\* The banner; without any row that acted the rate is 0.
Status(rows) ==
    LET rate == IF Acted(rows) = {} THEN 0
                ELSE (Cardinality(Resolved(rows)) * 100) \div Cardinality(Acted(rows))
    IN  IF rate >= 90 THEN "HEALTHY" ELSE IF rate >= 70 THEN "DEGRADED" ELSE "CRITICAL"

\* print_performance_report
ReportedSuccesses(rows) == {r \in rows : r.event.success}

-----------------------------------------------------------------------------
MetricNext ==
    \/ \E ungated, passed \in BOOLEAN : Decide(ungated, passed)
    \/ LogEvent \/ LogFails
    \/ Seed \/ Delete
    \/ \E to \in AutonomyLevels : SetLevel(to)
    \/ \E to \in ReviewTargets : StartReview(to)
    \/ ReportBegins \/ ReportEnds

MetricSpec == MetricInit /\ [][MetricNext]_metricVars

-----------------------------------------------------------------------------
MetricTypeOK ==
    /\ level \in AutonomyLevels
    /\ review \in [target : AutonomyLevels \cup {"none"}, since : 0..MaxRows]
    /\ carrying \in AutonomyLevels \cup {"none", "ungated"}
    /\ moved \in BOOLEAN
    /\ \A r \in metrics : r.id \in 0..rowCount /\ r.at \in 0..MaxRows
    /\ {rowCount, report.since, report.upTo} \subseteq 0..MaxRows
    /\ commands \in 0..MaxCommands

\* Whose rows the gate report counts towards AUTO.  It means those of actions that were
\* attempted and that persons approved, rejected or left to expire, but knows them by
\* result_category only: escalations and alerts, which attempt nothing, count as
\* successes, and rows of the demo and of what the filter refused count as well.
\* "unclear" are the rows of decisions during which the operator ran the tool.
CountedLeaves == {"person", "nobody", "unclear", "ungated", "demo"}

\* What the report does keep out, when it says that a category may go to AUTO, are the
\* actions that ran by leave of the level alone, in an earlier time at AUTO.  Rows
\* written after it read the review are beyond what its timestamps can tell.
LevelAloneIsNotCounted ==
    report.at = "judging" /\ ReadyForAuto =>
        \A r \in Attempted : r.at < report.upTo => r.event.leave \in CountedLeaves

\* Of any selection of rows: what is told as done is what is counted as resolved, and
\* that is what was run, what the demo made up, and every escalation and alert, which
\* the story tells as carried out though they do nothing.  An action that was only
\* observed or proposed, refused or not answered is none of these; the report's higher
\* number differs by nothing but the rows of the two lower levels; and a status is
\* HEALTHY only if something counts as resolved.
ToldAsCounted ==
    \A rows \in Filtered :
        /\ Resolved(rows) = {r \in rows : Story(r) = "done"}
        /\ \A r \in Resolved(rows) : r.event.ran \/ r.event.leave \in {"ungated", "demo"}
        /\ ReportedSuccesses(rows) \ Resolved(rows) = rows \ Acted(rows)
        /\ Status(rows) = "HEALTHY" => Resolved(rows) # {}

\* What the gate report leaves out, and what the dashboard tells as done.
MetricsToldRight == LevelAloneIsNotCounted /\ ToldAsCounted
=============================================================================
