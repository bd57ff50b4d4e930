----------------------------- MODULE AutonomyGate -----------------------------
(***************************************************************************)
(* Progressive Autonomy: the levels of src/autonomy_store.py, the gate of  *)
(* src/executor.py that applies them (_dispatch, _effective_level,         *)
(* _execute_llm_command), and what trigger_agent_pipeline teaches the      *)
(* knowledge base afterwards (src/log_watcher.py).                         *)
(*                                                                         *)
(* Workers are the threads of the agent that run the pipeline.  Operators  *)
(* are runs of scripts/set_autonomy_level.py, each a process of its own    *)
(* with its own LLM_PROVIDER, that may change the level of a category      *)
(* while a decision is on its way through the gate.                        *)
(*                                                                         *)
(* A decision is what the gate can tell apart of an AgentResponse.  The    *)
(* wait for an approval is one step here; module Approval has its detail.  *)
(***************************************************************************)
EXTENDS Naturals

CONSTANTS
    Workers,                \* threads that run the pipeline
    Operators,              \* runs of the command line tool
    Playbook,               \* the error categories of the curated documents
    DEFAULT_AUTONOMY_LEVEL,
    Managed,                \* bound: the categories the tool is run for
    MaxCommands,            \* bound: how often the tool is run
    MaxRestarts,            \* bound: how often the agent is restarted
    Null                    \* SQL NULL

LevelOrder == <<"read_only", "propose", "approve_then_execute", "auto">>
Levels == {LevelOrder[i] : i \in 1..4}

ASSUME GateAssumption ==
    /\ DEFAULT_AUTONOMY_LEVEL \in Levels
    /\ Null \notin Levels
    /\ MaxCommands \in Nat
    /\ MaxRestarts \in Nat
    /\ Playbook \cap {"LLM_Inferred", "Rule_Inferred", "Learned_from_LLM", "Unknown"} = {}

LOCAL_MODE_NO_AUTO_CATEGORIES == {"LLM_Inferred"}
Categories == Playbook \cup {"LLM_Inferred", "Rule_Inferred", "Learned_from_LLM", "Unknown"}

ASSUME ManagedAssumption == Managed \subseteq Categories

\* self_reflection_safe and self_reflection_error: passed, NO, both reviewers
\* failed, or not reviewed by design.
Reviews == {"yes", "no", "failed", "none"}

\* The answers analyze_error can give.  ESCALATE_TO_HUMAN and ALERT_ONLY are
\* "ungated", actions with a named target are "structured".
Decisions ==
         [category : Playbook, action : {"structured", "command"}, review : Reviews, source : {"playbook"}]
    \cup [category : Playbook, action : {"ungated"}, review : {"none"}, source : {"playbook"}]
    \cup [category : {"Learned_from_LLM"}, action : {"command"}, review : Reviews \ {"none"}, source : {"learned"}]
    \cup [category : {"LLM_Inferred"}, action : {"structured"}, review : Reviews, source : {"L2_LLM"}]
    \cup [category : {"LLM_Inferred"}, action : {"command"}, review : Reviews \ {"none"}, source : {"L2_LLM"}]
    \cup [category : {"Rule_Inferred"}, action : {"command"}, review : {"none"}, source : {"RULE"}]
    \cup [category : {"Unknown"}, action : {"ungated"}, review : {"none"}, source : {"L2_LLM"}]

VARIABLES
    store,    \* autonomy_state: level (Null: no row) and shadow target
    local,    \* the agent's process is in local mode
    work,     \* the decision each worker carries through the gate
    cli,      \* what each operator's process is about to write
    commands, \* how often the tool was run
    restarts, \* how often the agent was restarted
    seen      \* history: the stored levels of a decision's category since its dispatch

vars == <<store, local, work, cli, commands, restarts, seen>>

\* Wrong variant: a category without a row has no level.
StoredLevelRaw(c) == store[c].level

\* _stored_level
StoredLevel(c) == IF store[c].level = Null THEN DEFAULT_AUTONOMY_LEVEL ELSE store[c].level

\* _local_mode_blocks_auto of a process in the given mode
BlocksAuto(c, mode) == mode /\ c \in LOCAL_MODE_NO_AUTO_CATEGORIES

\* Wrong variant: get_level trusts that set_level refused.
ClampedNot(level, c, mode) == level

\* get_level
Clamped(level, c, mode) ==
    IF level = "auto" /\ BlocksAuto(c, mode) THEN "approve_then_execute" ELSE level

\* The review said no, or could not be had.
Doubted(review) == review \in {"no", "failed"}

\* _effective_level
Effective(level, d, mode) ==
    LET clamped == Clamped(level, d.category, mode) IN
    IF clamped = "auto" /\ Doubted(d.review) THEN "approve_then_execute" ELSE clamped
EffectiveLevel(d) == Effective(StoredLevel(d.category), d, local)

NoDecision == [category |-> "Unknown", action |-> "ungated", review |-> "none", source |-> "L2_LLM"]
NoResult == [success |-> FALSE, category |-> "FAILURE", ran |-> FALSE]
Idle == [at |-> "idle", decision |-> NoDecision, let |-> "no",
         result |-> NoResult, lesson |-> "none"]
NoCommand == [at |-> "idle", kind |-> "set", category |-> "Unknown",
              level |-> "read_only", current |-> "read_only"]

-----------------------------------------------------------------------------
Init ==
    /\ store    = [c \in Categories |-> [level |-> Null, shadow |-> Null]]
    /\ local    \in BOOLEAN
    /\ work     = [w \in Workers |-> Idle]
    /\ cli      = [o \in Operators |-> NoCommand]
    /\ commands = 0
    /\ restarts = 0
    /\ seen     = [w \in Workers |-> {}]

-----------------------------------------------------------------------------
(* The executor *)

\* execute returns; the flag ran tells whether anything was run.
Finish(w, success, category, ran) ==
    work' = [work EXCEPT ![w].at = "teach",
                         ![w].result = [success |-> success, category |-> category, ran |-> ran]]

\* The wait ends: somebody approved, rejected, nobody did in time, or a
\* shutdown began.
AwaitOutcome(w) ==
    \/ work' = [work EXCEPT ![w].at = "act", ![w].let = "approved"]
    \/ Finish(w, FALSE, "FAILURE", FALSE)
    \/ Finish(w, FALSE, "IMPOSSIBLE", FALSE)

\* Where _dispatch sends a decision of the given effective level.
Gate(d, level) ==
    IF d.action = "ungated" THEN "ungated"
    ELSE IF level = "read_only" THEN "observe"
    ELSE IF level = "propose" THEN "propose"
    ELSE IF d.action = "command" THEN "validate"
    ELSE IF level = "auto" THEN "act"
    ELSE "await"

\* analyze_error answered and _dispatch reads the level for the first time.
Dispatch(w, d) ==
    LET to == Gate(d, EffectiveLevel(d)) IN
    /\ work[w].at = "idle"
    /\ work' = [work EXCEPT ![w] =
                  [Idle EXCEPT !.at = to, !.decision = d,
                               !.let = IF to = "act" THEN "auto" ELSE "no"]]
    /\ seen' = [seen EXCEPT ![w] = {StoredLevel(d.category)}]
    /\ UNCHANGED <<store, local, cli, commands, restarts>>

\* The ends of _dispatch that run nothing: an escalation, an alert,
\* _observed_only, _propose_only.
RunNothing(w) ==
    /\ \/ work[w].at = "ungated" /\ Finish(w, TRUE, "IMPOSSIBLE", FALSE)
       \/ work[w].at = "ungated" /\ Finish(w, TRUE, "SUCCESS", FALSE)
       \/ work[w].at = "observe" /\ Finish(w, TRUE, "OBSERVED_ONLY", FALSE)
       \/ work[w].at = "propose" /\ Finish(w, TRUE, "PROPOSED_ONLY", FALSE)
    /\ UNCHANGED <<store, local, cli, commands, restarts, seen>>

\* _execute_llm_command: the filter refuses the command or lets it on.
ValidateCommand(w) ==
    /\ work[w].at = "validate"
    /\ \/ Finish(w, FALSE, "FAILURE", FALSE)
       \/ work' = [work EXCEPT ![w].at = "level"]
    /\ UNCHANGED <<store, local, cli, commands, restarts, seen>>

\* Wrong variant: only a category that asks for approval is asked about.
RereadLevelLax(w) ==
    /\ work[w].at = "level"
    /\ work' = IF EffectiveLevel(work[w].decision) # "approve_then_execute"
               THEN [work EXCEPT ![w].at = "act", ![w].let = "auto"]
               ELSE [work EXCEPT ![w].at = "await"]
    /\ UNCHANGED <<store, local, cli, commands, restarts, seen>>

\* The level of a command is read again: whatever is not AUTO by now is asked
\* about, a category that became READ_ONLY included.
RereadLevel(w) ==
    /\ work[w].at = "level"
    /\ work' = IF EffectiveLevel(work[w].decision) = "auto"
               THEN [work EXCEPT ![w].at = "act", ![w].let = "auto"]
               ELSE [work EXCEPT ![w].at = "await"]
    /\ UNCHANGED <<store, local, cli, commands, restarts, seen>>

\* _await_approval
AwaitApproval(w) ==
    /\ work[w].at = "await"
    /\ AwaitOutcome(w)
    /\ UNCHANGED <<store, local, cli, commands, restarts, seen>>

\* The command or the structured action is run and succeeds or fails (a failed
\* command with its rollback); a structured action can still be refused for
\* the name of its target.
Act(w) ==
    /\ work[w].at = "act"
    /\ \/ Finish(w, TRUE, "SUCCESS", TRUE)
       \/ Finish(w, FALSE, "FAILURE", TRUE)
       \/ work[w].decision.action = "command" /\ Finish(w, FALSE, "IMPOSSIBLE", TRUE)
       \/ work[w].decision.action = "structured" /\ Finish(w, FALSE, "FAILURE", FALSE)
    /\ UNCHANGED <<store, local, cli, commands, restarts, seen>>

\* An SQL statement raises on the way: the pipeline ends without a result.
ExecuteRaises(w) ==
    /\ work[w].at \in {"validate", "level", "await"}
    /\ work' = [work EXCEPT ![w] = Idle]
    /\ seen' = [seen EXCEPT ![w] = {}]
    /\ UNCHANGED <<store, local, cli, commands, restarts>>

-----------------------------------------------------------------------------
(* The end of trigger_agent_pipeline *)

\* Wrong variant: every success is learned from.
TeachesAnySuccess(d, r) ==
    r.success /\ d.source \in {"L2_LLM", "RULE"} /\ d.action = "command"

NotRun == {"OBSERVED_ONLY", "PROPOSED_ONLY"}

\* learn_from_feedback is called; only answers of L2 and the rules that are
\* commands have a decision.command.
Teaches(d, r) ==
    /\ r.success
    /\ r.category \notin NotRun
    /\ d.source \in {"L2_LLM", "RULE"}
    /\ d.action = "command"

\* record_learned_outcome is called.
FeedsBack(d, r) == r.category \notin NotRun /\ d.source = "learned"

\* The result goes to the knowledge base, if it is of use there.
Teach(w) ==
    LET d == work[w].decision
        r == work[w].result IN
    /\ work[w].at = "teach"
    /\ work' = [work EXCEPT ![w].at = "record",
                            ![w].lesson = IF Teaches(d, r) THEN "learn"
                                          ELSE IF FeedsBack(d, r) THEN "outcome" ELSE "none"]
    /\ UNCHANGED <<store, local, cli, commands, restarts, seen>>

\* record_result and log_event; the pipeline returns.
Return(w) ==
    /\ work[w].at = "record"
    /\ work' = [work EXCEPT ![w] = Idle]
    /\ seen' = [seen EXCEPT ![w] = {}]
    /\ UNCHANGED <<store, local, cli, commands, restarts>>

WorkerStep(w) ==
    \/ RunNothing(w)
    \/ ValidateCommand(w)
    \/ RereadLevel(w)
    \/ AwaitApproval(w)
    \/ Act(w)
    \/ Teach(w)
    \/ Return(w)

-----------------------------------------------------------------------------
(* The operators *)

\* set_autonomy_level.py starts in some mode; set_level and start_shadow refuse
\* an AUTO that the mode blocks, else they read the current level.
Command(o, kind, c, level, mode) ==
    /\ cli[o].at = "idle"
    /\ commands < MaxCommands
    /\ commands' = commands + 1
    /\ ~(level = "auto" /\ BlocksAuto(c, mode))
    /\ cli' = [cli EXCEPT ![o] =
                 [at |-> "write", kind |-> kind, category |-> c, level |-> level,
                  current |-> Clamped(StoredLevel(c), c, mode)]]
    /\ UNCHANGED <<store, local, work, restarts, seen>>

\* Every decision on its way sees the new level of its category.
Witness(c, level) ==
    seen' = [w \in Workers |->
               IF work[w].at # "idle" /\ work[w].decision.category = c
               THEN seen[w] \cup {level}
               ELSE seen[w]]

\* set_level writes the level and ends a shadow period.
SetLevel(o) ==
    LET c == cli[o].category IN
    /\ cli[o].at = "write" /\ cli[o].kind = "set"
    /\ store' = [store EXCEPT ![c] = [level |-> cli[o].level, shadow |-> Null]]
    /\ Witness(c, cli[o].level)
    /\ cli' = [cli EXCEPT ![o] = NoCommand]
    /\ UNCHANGED <<local, work, commands, restarts>>

\* Wrong variant: the upsert writes the level it read in any case.
ShadowRowStale(r, current, target) == [level |-> current, shadow |-> target]

\* INSERT ... ON CONFLICT: the level that was read is only written if there is
\* no row yet.
ShadowRow(r, current, target) ==
    [level |-> IF r.level = Null THEN current ELSE r.level, shadow |-> target]

\* start_shadow writes.
StartShadow(o) ==
    LET c == cli[o].category
        r == ShadowRow(store[c], cli[o].current, cli[o].level) IN
    /\ cli[o].at = "write" /\ cli[o].kind = "shadow"
    /\ store' = [store EXCEPT ![c] = r]
    /\ Witness(c, r.level)
    /\ cli' = [cli EXCEPT ![o] = NoCommand]
    /\ UNCHANGED <<local, work, commands, restarts>>

-----------------------------------------------------------------------------
\* The agent is restarted, perhaps in the other mode.
Restart(mode) ==
    /\ restarts < MaxRestarts
    /\ restarts' = restarts + 1
    /\ local' = mode
    /\ work'  = [w \in Workers |-> Idle]
    /\ seen'  = [w \in Workers |-> {}]
    /\ UNCHANGED <<store, cli, commands>>

Next ==
    \/ \E w \in Workers, d \in Decisions : Dispatch(w, d)
    \/ \E w \in Workers : WorkerStep(w)
    \/ \E w \in Workers : ExecuteRaises(w)
    \/ \E o \in Operators, kind \in {"set", "shadow"}, c \in Managed,
          level \in Levels, mode \in BOOLEAN : Command(o, kind, c, level, mode)
    \/ \E o \in Operators : SetLevel(o) \/ StartShadow(o)
    \/ \E mode \in BOOLEAN : Restart(mode)

Spec == Init /\ [][Next]_vars

-----------------------------------------------------------------------------
Results == [success : BOOLEAN,
            category : NotRun \cup {"SUCCESS", "FAILURE", "IMPOSSIBLE"},
            ran : BOOLEAN]

TypeOK ==
    /\ store \in [Categories -> [level : Levels \cup {Null}, shadow : Levels \cup {Null}]]
    /\ local \in BOOLEAN
    /\ work \in [Workers ->
                   [at : {"idle", "ungated", "observe", "propose", "validate",
                          "level", "await", "act", "teach", "record"},
                    decision : Decisions,
                    let : {"no", "auto", "approved"},
                    result : Results,
                    lesson : {"none", "learn", "outcome"}]]
    /\ cli \in [Operators -> [at : {"idle", "write"}, kind : {"set", "shadow"},
                              category : Categories, level : Levels, current : Levels]]
    /\ commands \in 0..MaxCommands
    /\ restarts \in 0..MaxRestarts
    /\ seen \in [Workers -> SUBSET Levels]

Ran(w) == work[w].result.ran

\* Whatever operators change while a decision is filtered, waits, or is between
\* the two readings of its level: it runs without an approval only if its
\* category was AUTO on the way and its review neither said no nor failed; with
\* one only if the category was more than READ_ONLY and PROPOSE on the way.
RunsAreLicensed ==
    \A w \in Workers : Ran(w) =>
        \/ /\ work[w].let = "auto"
           /\ "auto" \in seen[w]
           /\ work[w].decision.review \notin {"no", "failed"}
        \/ /\ work[w].let = "approved"
           /\ seen[w] \cap {"approve_then_execute", "auto"} # {}

\* Nothing the local model proposed runs without an approval in local mode,
\* though the level may have been set to AUTO in cloud mode, by a process in
\* another mode, or by DEFAULT_AUTONOMY_LEVEL (autonomy_store.py:89-94).
LocalModeAsks ==
    \A w \in Workers :
        Ran(w) /\ local /\ work[w].let # "approved" =>
            work[w].decision.category \notin LOCAL_MODE_NO_AUTO_CATEGORIES

\* A command is learned as a solution only after it was run and succeeded, not
\* after a level that only observes or proposes (log_watcher.py:255-257).
LearnedWasRun ==
    \A w \in Workers :
        work[w].lesson = "learn" => work[w].result.ran /\ work[w].result.success

\* set_level has written the level that was asked for.
SetAsAsked(o, c) == cli[o].kind = "set" /\ StoredLevel(c)' = cli[o].level

\* start_shadow has stored what a tool in local mode read of a category without a row,
\* whose AUTO by default get_level had lowered.
ClampedDefaultStored(o, c) ==
    /\ cli[o].kind = "shadow"
    /\ store[c].level = Null
    /\ DEFAULT_AUTONOMY_LEVEL = "auto" /\ c \in LOCAL_MODE_NO_AUTO_CATEGORIES
    /\ StoredLevel(c)' = "approve_then_execute"

\* The level of a category changes when an operator sets it, to the level asked for.
\* start_shadow, whose reading of the level may be out of date when it writes, never
\* raises a level and lowers none that has been stored: it is to change nothing
\* (autonomy_store.py:152), and does so for a default AUTO that local mode keeps from
\* the category, and for nothing else.
LevelChangesBySetLevel ==
    [][\A c \in Categories :
         StoredLevel(c)' # StoredLevel(c) =>
            \E o \in Operators : /\ cli[o].at = "write" /\ cli[o].category = c
                                 /\ cli'[o].at = "idle"
                                 /\ SetAsAsked(o, c) \/ ClampedDefaultStored(o, c)]_vars

\* log_watcher.py:265-267 and llm_engine.py:1600-1601: what is fed back to a
\* learned entry is the result of running its command.
OutcomeWasRun ==
    \A w \in Workers : work[w].lesson = "outcome" => work[w].result.ran

===============================================================================
