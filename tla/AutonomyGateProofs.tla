-------------------------- MODULE AutonomyGateProofs --------------------------
(***************************************************************************)
(* Proofs about AutonomyGate for every set of workers, operators and       *)
(* playbook categories, and every default level.                           *)
(***************************************************************************)
EXTENDS AutonomyGate, TLAPS

Records ==
    [at : {"idle", "ungated", "observe", "propose", "validate",
           "level", "await", "act", "teach", "record"},
     decision : Decisions,
     let : {"no", "auto", "approved"},
     result : Results,
     lesson : {"none", "learn", "outcome"}]

\* What the worker's record k says, given the levels s its category had and the
\* mode of the agent: nothing ran before Act; a decision let through without an
\* approval was licensed to; a success that is not marked as not run did run,
\* if it is one of a command; only that is learned.
Sound(k, s, mode) ==
    /\ k.at \notin {"teach", "record"} => ~k.result.ran
    /\ k.at # "record" => k.lesson = "none"
    /\ k.let # "no" => k.at \in {"act", "teach", "record"}
    /\ k.result.ran => k.let # "no"
    /\ k.at = "act" => k.let # "no"
    /\ k.let = "auto" =>
         /\ "auto" \in s
         /\ k.decision.review \notin {"no", "failed"}
         /\ ~(mode /\ k.decision.category \in LOCAL_MODE_NO_AUTO_CATEGORIES)
    /\ k.let = "approved" \/ k.at \in {"validate", "level", "await"} =>
         s \cap {"approve_then_execute", "auto"} # {}
    /\ k.at = "ungated" => k.decision.action = "ungated"
    /\ k.at = "teach" /\ k.result.success /\ k.decision.action = "command" =>
         k.result.ran \/ k.result.category \in NotRun
    /\ k.lesson = "learn" => k.result.ran /\ k.result.success

WorkSound == \A w \in Workers : Sound(work[w], seen[w], local)

\* The history of a decision on its way holds the present level of its category.
Current(k, s) == k.at # "idle" => StoredLevel(k.decision.category) \in s
SeenIsCurrent == \A w \in Workers : Current(work[w], seen[w])

IInv == TypeOK /\ WorkSound /\ SeenIsCurrent

-----------------------------------------------------------------------------
\* What the proofs need to know of the answers of analyze_error.
LEMMA DecisionFields ==
    ASSUME NEW d \in Decisions
    PROVE  /\ d.category \in Categories
           /\ d.action \in {"ungated", "structured", "command"}
           /\ d.review \in Reviews
  BY DEF Decisions, Categories, Reviews

LEMMA IdleIsSound ==
    /\ Idle \in Records
    /\ \A mode \in BOOLEAN : Sound(Idle, {}, mode)
<1>1. NoDecision \in Decisions
  BY DEF NoDecision, Decisions
<1>2. NoResult \in Results
  BY DEF NoResult, Results
<1>3. Idle \in Records
  BY <1>1, <1>2 DEF Idle, Records
<1>4. ASSUME NEW mode \in BOOLEAN PROVE Sound(Idle, {}, mode)
  BY DEF Sound, Idle, NoResult
<1> QED
  BY <1>3, <1>4

\* get_level and _effective_level give AUTO only for a category that is stored
\* as AUTO, for a review that did not fail, and outside what the mode blocks;
\* and give more than PROPOSE only for a category that is stored as more.
LEMMA EffectiveIsCautious ==
    ASSUME NEW d \in Decisions, NEW level \in Levels, NEW mode \in BOOLEAN
    PROVE  /\ Effective(level, d, mode) \in Levels
           /\ Effective(level, d, mode) = "auto" =>
                /\ level = "auto"
                /\ d.review \notin {"no", "failed"}
                /\ ~(mode /\ d.category \in LOCAL_MODE_NO_AUTO_CATEGORIES)
           /\ Effective(level, d, mode) \in {"approve_then_execute", "auto"} =>
                level \in {"approve_then_execute", "auto"}
<1> Levels = {"read_only", "propose", "approve_then_execute", "auto"}
  BY DEF Levels, LevelOrder
<1> QED
  BY DEF Effective, Clamped, BlocksAuto, Doubted

\* A step that changes one worker's record only keeps the invariant if the new
\* record is sound.
LEMMA OneWorker ==
    ASSUME IInv, NEW w \in Workers, NEW k \in Records, NEW s \in SUBSET Levels,
           work' = [work EXCEPT ![w] = k], seen' = [seen EXCEPT ![w] = s],
           UNCHANGED <<store, local, cli, commands, restarts>>,
           Sound(k, s, local), Current(k, s)
    PROVE  IInv'
<1> USE DEF IInv
<1>1. work \in [Workers -> Records] /\ work' \in [Workers -> Records]
  BY DEF TypeOK, Records
<1>2. seen \in [Workers -> SUBSET Levels] /\ seen' \in [Workers -> SUBSET Levels]
  BY DEF TypeOK
<1>3. TypeOK'
  BY <1>1, <1>2 DEF TypeOK, Records
<1>4. ASSUME NEW v \in Workers
      PROVE  Sound(work'[v], seen'[v], local') /\ Current(work[v], seen[v])'
  <2>1. CASE v = w
    <3>1. work'[v] = k /\ seen'[v] = s
      BY <2>1, <1>1, <1>2
    <3> QED
      BY <3>1 DEF Current, StoredLevel
  <2>2. CASE v # w
    <3>1. work'[v] = work[v] /\ seen'[v] = seen[v]
      BY <2>2, <1>1, <1>2
    <3> QED
      BY <3>1 DEF WorkSound, SeenIsCurrent, Current, StoredLevel
  <2> QED
    BY <2>1, <2>2
<1> QED
  BY <1>3, <1>4 DEF WorkSound, SeenIsCurrent

\* What Finish makes of a record.
Finished(k, success, category, ran) ==
    [k EXCEPT !.at = "teach",
              !.result = [success |-> success, category |-> category, ran |-> ran]]

\* A result of execute keeps the invariant if what ran was let through, and a
\* success that nothing stands behind is marked.
LEMMA FinishKeeps ==
    ASSUME IInv, NEW w \in Workers, NEW success \in BOOLEAN, NEW ran \in BOOLEAN,
           NEW category \in NotRun \cup {"SUCCESS", "FAILURE", "IMPOSSIBLE"},
           work[w].at \notin {"idle", "teach", "record"},
           Finish(w, success, category, ran),
           ran => work[w].at = "act",
           success => ran \/ category \in NotRun \/ work[w].at = "ungated",
           UNCHANGED <<store, local, cli, commands, restarts, seen>>
    PROVE  IInv'
<1> DEFINE k == Finished(work[w], success, category, ran)
<1>1. work[w] \in Records /\ seen[w] \in SUBSET Levels
  BY DEF IInv, TypeOK, Records
<1>2. work' = [work EXCEPT ![w] = k] /\ seen' = [seen EXCEPT ![w] = seen[w]]
  <2>1. work \in [Workers -> Records]
    BY DEF IInv, TypeOK, Records
  <2>2. seen \in [Workers -> SUBSET Levels]
    BY DEF IInv, TypeOK
  <2> QED
    BY <1>1, <2>1, <2>2 DEF Finish, Finished, Records
<1>3. k \in Records
  BY <1>1 DEF Finished, Records, Results
<1>4. Sound(work[w], seen[w], local) /\ Current(work[w], seen[w])
  BY DEF IInv, WorkSound, SeenIsCurrent
<1>5. Sound(k, seen[w], local) /\ Current(k, seen[w])
  <2>1. /\ k.at = "teach" /\ k.decision = work[w].decision /\ k.let = work[w].let
        /\ k.lesson = work[w].lesson
        /\ k.result = [success |-> success, category |-> category, ran |-> ran]
    BY <1>1 DEF Finished, Records
  <2> HIDE DEF k
  <2>2. Sound(k, seen[w], local)
    BY <1>4, <2>1 DEF Sound
  <2>3. Current(k, seen[w])
    BY <1>4, <2>1 DEF Current
  <2> QED
    BY <2>2, <2>3
<1> HIDE DEF k
<1> QED
  BY <1>1, <1>2, <1>3, <1>5, OneWorker

\* A worker that goes on: to the next stage, perhaps let through.
LEMMA GoOnKeeps ==
    ASSUME IInv, NEW w \in Workers,
           NEW at \in {"level", "await", "act"}, NEW let \in {"no", "auto", "approved"},
           work[w].at \in {"validate", "level", "await"},
           work' = [work EXCEPT ![w].at = at, ![w].let = let],
           at = "act" <=> let # "no",
           let = "auto" =>
             /\ "auto" \in seen[w]
             /\ work[w].decision.review \notin {"no", "failed"}
             /\ ~(local /\ work[w].decision.category \in LOCAL_MODE_NO_AUTO_CATEGORIES),
           UNCHANGED <<store, local, cli, commands, restarts, seen>>
    PROVE  IInv'
<1> DEFINE k == [work[w] EXCEPT !.at = at, !.let = let]
<1>1. work[w] \in Records /\ seen[w] \in SUBSET Levels
  BY DEF IInv, TypeOK, Records
<1>2. work' = [work EXCEPT ![w] = k] /\ seen' = [seen EXCEPT ![w] = seen[w]]
  <2>1. work \in [Workers -> Records]
    BY DEF IInv, TypeOK, Records
  <2>2. seen \in [Workers -> SUBSET Levels]
    BY DEF IInv, TypeOK
  <2> QED
    BY <1>1, <2>1, <2>2 DEF Records
<1>3. k \in Records
  BY <1>1 DEF Records
<1>4. Sound(work[w], seen[w], local) /\ Current(work[w], seen[w])
  BY DEF IInv, WorkSound, SeenIsCurrent
<1>5. Sound(k, seen[w], local) /\ Current(k, seen[w])
  <2>1. /\ k.at = at /\ k.let = let /\ k.decision = work[w].decision
        /\ k.lesson = work[w].lesson /\ k.result = work[w].result
    BY <1>1 DEF Records
  <2> HIDE DEF k
  <2>2. Sound(k, seen[w], local)
    BY <1>4, <2>1 DEF Sound
  <2>3. Current(k, seen[w])
    BY <1>4, <2>1 DEF Current
  <2> QED
    BY <2>2, <2>3
<1> HIDE DEF k
<1> QED
  BY <1>1, <1>2, <1>3, <1>5, OneWorker

-----------------------------------------------------------------------------
LEMMA InitIInv == Init => IInv
<1> SUFFICES ASSUME Init PROVE IInv
  OBVIOUS
<1>1. NoCommand \in [at : {"idle", "write"}, kind : {"set", "shadow"},
                     category : Categories, level : Levels, current : Levels]
  BY DEF NoCommand, Categories, Levels, LevelOrder
<1>2. TypeOK
  BY <1>1, IdleIsSound, GateAssumption DEF Init, TypeOK, Records
<1>3. WorkSound
  BY IdleIsSound DEF Init, WorkSound
<1>4. SeenIsCurrent
  BY DEF Init, SeenIsCurrent, Current, Idle
<1> QED
  BY <1>2, <1>3, <1>4 DEF IInv

\* The level of a stored category is a level.
LEMMA StoredIsLevel ==
    ASSUME TypeOK, NEW c \in Categories
    PROVE  StoredLevel(c) \in Levels
  BY GateAssumption DEF TypeOK, StoredLevel

LEMMA DispatchKeeps ==
    ASSUME IInv, NEW w \in Workers, NEW d \in Decisions, Dispatch(w, d)
    PROVE  IInv'
<1> DEFINE level == EffectiveLevel(d)
           to == Gate(d, level)
           k == [Idle EXCEPT !.at = to, !.decision = d,
                             !.let = IF to = "act" THEN "auto" ELSE "no"]
           s == {StoredLevel(d.category)}
<1>1. StoredLevel(d.category) \in Levels
  BY DecisionFields, StoredIsLevel DEF IInv
<1>2. /\ level \in Levels
      /\ level = "auto" =>
           /\ StoredLevel(d.category) = "auto"
           /\ d.review \notin {"no", "failed"}
           /\ ~(local /\ d.category \in LOCAL_MODE_NO_AUTO_CATEGORIES)
      /\ level \in {"approve_then_execute", "auto"} =>
           StoredLevel(d.category) \in {"approve_then_execute", "auto"}
  <2>1. local \in BOOLEAN
    BY DEF IInv, TypeOK
  <2> QED
    BY <1>1, <2>1, EffectiveIsCautious DEF EffectiveLevel
<1>3. /\ to \in {"ungated", "observe", "propose", "validate", "act", "await"}
      /\ to = "ungated" <=> d.action = "ungated"
      /\ to = "act" => level = "auto"
      /\ to \in {"validate", "await"} => level \in {"approve_then_execute", "auto"}
  <2> HIDE DEF level
  <2>1. level \in {"read_only", "propose", "approve_then_execute", "auto"}
    BY <1>2 DEF Levels, LevelOrder
  <2> QED
    BY <2>1, DecisionFields DEF Gate
<1>4. work' = [work EXCEPT ![w] = k] /\ seen' = [seen EXCEPT ![w] = s]
  BY DEF Dispatch
<1> HIDE DEF level, to
<1>5. /\ k.at = to /\ k.decision = d /\ k.let = (IF to = "act" THEN "auto" ELSE "no")
      /\ k.result = Idle.result /\ k.lesson = "none" /\ k \in Records
  BY <1>3, IdleIsSound DEF Idle, Records
<1>6. ~Idle.result.ran
  BY DEF Idle, NoResult
<1> HIDE DEF k
<1>7. Sound(k, s, local)
  BY <1>2, <1>3, <1>5, <1>6 DEF Sound
<1>8. s \in SUBSET Levels /\ Current(k, s)
  BY <1>1, <1>5 DEF Current
<1> HIDE DEF s
<1> QED
  BY <1>4, <1>5, <1>7, <1>8, OneWorker DEF Dispatch

LEMMA RunNothingKeeps ==
    ASSUME IInv, NEW w \in Workers, RunNothing(w) PROVE IInv'
<1>1. CASE work[w].at = "ungated" /\ Finish(w, TRUE, "IMPOSSIBLE", FALSE)
  BY <1>1, FinishKeeps DEF RunNothing
<1>2. CASE work[w].at = "ungated" /\ Finish(w, TRUE, "SUCCESS", FALSE)
  BY <1>2, FinishKeeps DEF RunNothing
<1>3. CASE work[w].at = "observe" /\ Finish(w, TRUE, "OBSERVED_ONLY", FALSE)
  BY <1>3, FinishKeeps DEF RunNothing, NotRun
<1>4. CASE work[w].at = "propose" /\ Finish(w, TRUE, "PROPOSED_ONLY", FALSE)
  BY <1>4, FinishKeeps DEF RunNothing, NotRun
<1> QED
  BY <1>1, <1>2, <1>3, <1>4 DEF RunNothing

LEMMA WorkerType == ASSUME IInv, NEW w \in Workers
                    PROVE  /\ work \in [Workers -> Records]
                           /\ work[w] \in Records
                           /\ Sound(work[w], seen[w], local)
  BY DEF IInv, TypeOK, Records, WorkSound

LEMMA ValidateCommandKeeps ==
    ASSUME IInv, NEW w \in Workers, ValidateCommand(w) PROVE IInv'
<1>1. CASE Finish(w, FALSE, "FAILURE", FALSE)
  BY <1>1, FinishKeeps DEF ValidateCommand
<1>2. CASE work' = [work EXCEPT ![w].at = "level"]
  <2>1. work[w].let = "no"
    BY WorkerType DEF ValidateCommand, Sound, Records
  <2>2. work' = [work EXCEPT ![w].at = "level", ![w].let = "no"]
    BY <1>2, <2>1, WorkerType DEF Records
  <2> QED
    BY <2>2, GoOnKeeps DEF ValidateCommand
<1> QED
  BY <1>1, <1>2 DEF ValidateCommand

LEMMA RereadLevelKeeps ==
    ASSUME IInv, NEW w \in Workers, RereadLevel(w) PROVE IInv'
<1> DEFINE d == work[w].decision
<1>1. work[w].let = "no" /\ d \in Decisions
  BY WorkerType DEF RereadLevel, Sound, Records
<1>2. StoredLevel(d.category) \in Levels /\ local \in BOOLEAN
  BY <1>1, DecisionFields, StoredIsLevel DEF IInv, TypeOK
<1>3. CASE EffectiveLevel(d) = "auto"
  <2>1. /\ StoredLevel(d.category) = "auto"
        /\ d.review \notin {"no", "failed"}
        /\ ~(local /\ d.category \in LOCAL_MODE_NO_AUTO_CATEGORIES)
    BY <1>1, <1>2, <1>3, EffectiveIsCautious DEF EffectiveLevel
  <2>2. StoredLevel(d.category) \in seen[w]
    BY DEF IInv, SeenIsCurrent, Current, RereadLevel
  <2> QED
    BY <1>3, <2>1, <2>2, GoOnKeeps DEF RereadLevel
<1>4. CASE EffectiveLevel(d) # "auto"
  <2>1. work' = [work EXCEPT ![w].at = "await", ![w].let = "no"]
    BY <1>1, <1>4, WorkerType DEF RereadLevel, Records
  <2> QED
    BY <2>1, GoOnKeeps DEF RereadLevel
<1> QED
  BY <1>3, <1>4

LEMMA AwaitApprovalKeeps ==
    ASSUME IInv, NEW w \in Workers, AwaitApproval(w) PROVE IInv'
<1>1. CASE work' = [work EXCEPT ![w].at = "act", ![w].let = "approved"]
  BY <1>1, GoOnKeeps DEF AwaitApproval
<1>2. CASE Finish(w, FALSE, "FAILURE", FALSE)
  BY <1>2, FinishKeeps DEF AwaitApproval
<1>3. CASE Finish(w, FALSE, "IMPOSSIBLE", FALSE)
  BY <1>3, FinishKeeps DEF AwaitApproval
<1> QED
  BY <1>1, <1>2, <1>3 DEF AwaitApproval, AwaitOutcome

LEMMA ActKeeps ==
    ASSUME IInv, NEW w \in Workers, Act(w) PROVE IInv'
<1>1. CASE Finish(w, TRUE, "SUCCESS", TRUE)
  BY <1>1, FinishKeeps DEF Act
<1>2. CASE Finish(w, FALSE, "FAILURE", TRUE)
  BY <1>2, FinishKeeps DEF Act
<1>3. CASE Finish(w, FALSE, "IMPOSSIBLE", TRUE)
  BY <1>3, FinishKeeps DEF Act
<1>4. CASE Finish(w, FALSE, "FAILURE", FALSE)
  BY <1>4, FinishKeeps DEF Act
<1> QED
  BY <1>1, <1>2, <1>3, <1>4 DEF Act

\* The pipeline is over, with a result or without.
LEMMA EndKeeps ==
    ASSUME IInv, NEW w \in Workers, Return(w) \/ ExecuteRaises(w) PROVE IInv'
<1>1. /\ work' = [work EXCEPT ![w] = Idle] /\ seen' = [seen EXCEPT ![w] = {}]
      /\ UNCHANGED <<store, local, cli, commands, restarts>>
  BY DEF Return, ExecuteRaises
<1>2. Sound(Idle, {}, local) /\ Current(Idle, {}) /\ Idle \in Records
  BY IdleIsSound DEF IInv, TypeOK, Current, Idle
<1> QED
  BY <1>1, <1>2, OneWorker

LEMMA TeachKeeps ==
    ASSUME IInv, NEW w \in Workers, Teach(w) PROVE IInv'
<1> DEFINE d == work[w].decision
           r == work[w].result
           lesson == IF Teaches(d, r) THEN "learn"
                     ELSE IF FeedsBack(d, r) THEN "outcome" ELSE "none"
           k == [work[w] EXCEPT !.at = "record", !.lesson = lesson]
<1>1. work' = [work EXCEPT ![w] = k] /\ seen' = [seen EXCEPT ![w] = seen[w]]
  <2>1. seen \in [Workers -> SUBSET Levels] /\ seen' = seen
    BY DEF IInv, TypeOK, Teach
  <2>2. work' = [work EXCEPT ![w].at = "record", ![w].lesson = lesson]
    BY DEF Teach
  <2> QED
    BY <2>1, <2>2, WorkerType DEF Records
<1>2. lesson \in {"none", "learn", "outcome"} /\ (lesson = "learn" <=> Teaches(d, r))
  OBVIOUS
<1> HIDE DEF lesson
<1>3. /\ k \in Records /\ k.at = "record" /\ k.lesson = lesson /\ k.decision = d
      /\ k.result = r /\ k.let = work[w].let
  BY <1>2, WorkerType DEF Records
<1> HIDE DEF k
<1>4. Sound(k, seen[w], local)
  BY <1>2, <1>3, WorkerType DEF Sound, Teach, Teaches
<1>5. seen[w] \in SUBSET Levels /\ Current(k, seen[w])
  BY <1>3 DEF IInv, TypeOK, SeenIsCurrent, Current, Teach
<1> QED
  BY <1>1, <1>3, <1>4, <1>5, OneWorker DEF Teach

-----------------------------------------------------------------------------
CommandRecords == [at : {"idle", "write"}, kind : {"set", "shadow"},
                   category : Categories, level : Levels, current : Levels]

\* The tool read a level; nothing a worker depends on changed.
LEMMA CommandKeeps ==
    ASSUME IInv, NEW o \in Operators, NEW kind \in {"set", "shadow"}, NEW c \in Managed,
           NEW level \in Levels, NEW mode \in BOOLEAN, Command(o, kind, c, level, mode)
    PROVE  IInv'
<1>1. c \in Categories
  BY ManagedAssumption
<1>2. Clamped(StoredLevel(c), c, mode) \in Levels
  BY <1>1, StoredIsLevel DEF IInv, Clamped, Levels, LevelOrder
<1>3. cli' \in [Operators -> CommandRecords]
  BY <1>1, <1>2 DEF Command, IInv, TypeOK, CommandRecords
<1>4. commands' \in 0..MaxCommands
  BY GateAssumption DEF Command, IInv, TypeOK
<1>5. UNCHANGED <<store, local, work, restarts, seen>>
  BY DEF Command
<1> QED
  BY <1>3, <1>4, <1>5 DEF IInv, TypeOK, CommandRecords, WorkSound, SeenIsCurrent, Current,
     StoredLevel

\* A longer history speaks for no less.
LEMMA SoundGrows ==
    ASSUME NEW k, NEW s, NEW t, s \subseteq t, NEW mode, Sound(k, s, mode)
    PROVE  Sound(k, t, mode)
  BY DEF Sound

\* One row of the table was written, and the decisions of its category saw it.
LEMMA WriteKeeps ==
    ASSUME IInv, NEW c \in Categories, NEW level \in Levels,
           NEW target \in Levels \cup {Null},
           store' = [store EXCEPT ![c] = [level |-> level, shadow |-> target]],
           Witness(c, level),
           cli' \in [Operators -> CommandRecords],
           UNCHANGED <<local, work, commands, restarts>>
    PROVE  IInv'
<1>1. store' \in [Categories -> [level : Levels \cup {Null}, shadow : Levels \cup {Null}]]
  BY DEF IInv, TypeOK
<1>2. \A w \in Workers : seen[w] \in SUBSET Levels /\ seen[w] \subseteq seen'[w]
  BY DEF IInv, TypeOK, Witness
<1>3. seen' \in [Workers -> SUBSET Levels]
  BY <1>2 DEF Witness
<1>4. TypeOK'
  BY <1>1, <1>3 DEF IInv, TypeOK, CommandRecords
<1>5. WorkSound'
  <2>1. ASSUME NEW w \in Workers PROVE Sound(work[w], seen'[w], local)
    BY <1>2, SoundGrows DEF IInv, WorkSound
  <2> QED
    BY <2>1 DEF WorkSound
<1>6. ASSUME NEW w \in Workers, work[w].at # "idle"
      PROVE  StoredLevel(work[w].decision.category)' \in seen'[w]
  <2> DEFINE e == work[w].decision.category
  <2>1. e \in Categories
    BY WorkerType, DecisionFields DEF Records
  <2>2. CASE e = c
    <3>1. StoredLevel(c)' = level
      BY GateAssumption DEF StoredLevel, IInv, TypeOK
    <3>2. level \in seen'[w]
      BY <2>2, <1>6 DEF Witness
    <3> QED
      BY <3>1, <3>2, <2>2
  <2>3. CASE e # c
    <3>1. store'[e] = store[e]
      BY <2>1, <2>3 DEF IInv, TypeOK
    <3>2. StoredLevel(e) \in seen[w]
      BY <1>6 DEF IInv, SeenIsCurrent, Current
    <3> QED
      BY <3>1, <3>2, <1>2 DEF StoredLevel
  <2> QED
    BY <2>2, <2>3
<1>7. SeenIsCurrent'
  BY <1>6 DEF SeenIsCurrent, Current
<1> QED
  BY <1>4, <1>5, <1>7 DEF IInv

LEMMA NoCommandType == NoCommand \in CommandRecords
  BY DEF NoCommand, CommandRecords, Categories, Levels, LevelOrder

LEMMA SetLevelKeeps ==
    ASSUME IInv, NEW o \in Operators, SetLevel(o) PROVE IInv'
<1>1. cli[o] \in CommandRecords /\ cli' \in [Operators -> CommandRecords]
  BY NoCommandType DEF IInv, TypeOK, CommandRecords, SetLevel
<1>2. cli[o].category \in Categories /\ cli[o].level \in Levels
  BY <1>1 DEF CommandRecords
<1> QED
  BY <1>1, <1>2, WriteKeeps DEF SetLevel

LEMMA StartShadowKeeps ==
    ASSUME IInv, NEW o \in Operators, StartShadow(o) PROVE IInv'
<1>1. cli[o] \in CommandRecords /\ cli' \in [Operators -> CommandRecords]
  BY NoCommandType DEF IInv, TypeOK, CommandRecords, StartShadow
<1>2. /\ cli[o].category \in Categories /\ cli[o].level \in Levels
      /\ cli[o].current \in Levels
  BY <1>1 DEF CommandRecords
<1> DEFINE old == store[cli[o].category]
           level == IF old.level = Null THEN cli[o].current ELSE old.level
<1>3. old.level \in Levels \cup {Null}
  BY <1>2 DEF IInv, TypeOK
<1>4. level \in Levels
  BY <1>2, <1>3
<1>5. /\ store' = [store EXCEPT ![cli[o].category] =
                     [level |-> level, shadow |-> cli[o].level]]
      /\ Witness(cli[o].category, level)
  BY DEF StartShadow, ShadowRow
<1> HIDE DEF level
<1> QED
  BY <1>1, <1>2, <1>4, <1>5, WriteKeeps DEF StartShadow

LEMMA RestartKeeps ==
    ASSUME IInv, NEW mode \in BOOLEAN, Restart(mode) PROVE IInv'
<1>1. /\ work' = [w \in Workers |-> Idle] /\ seen' = [w \in Workers |-> {}]
      /\ local' = mode /\ UNCHANGED <<store, cli, commands>>
  BY DEF Restart
<1>2. restarts' \in 0..MaxRestarts
  BY GateAssumption DEF Restart, IInv, TypeOK
<1>3. TypeOK'
  BY <1>1, <1>2, IdleIsSound DEF IInv, TypeOK, Records
<1>4. WorkSound'
  BY <1>1, IdleIsSound DEF WorkSound
<1>5. SeenIsCurrent'
  BY <1>1 DEF SeenIsCurrent, Current, Idle
<1> QED
  BY <1>3, <1>4, <1>5 DEF IInv

-----------------------------------------------------------------------------
LEMMA NextKeeps == IInv /\ [Next]_vars => IInv'
<1> SUFFICES ASSUME IInv, [Next]_vars PROVE IInv'
  OBVIOUS
<1>1. CASE \E w \in Workers, d \in Decisions : Dispatch(w, d)
  BY <1>1, DispatchKeeps
<1>2. CASE \E w \in Workers : WorkerStep(w)
  BY <1>2, RunNothingKeeps, ValidateCommandKeeps, RereadLevelKeeps, AwaitApprovalKeeps,
     ActKeeps, TeachKeeps, EndKeeps DEF WorkerStep
<1>3. CASE \E w \in Workers : ExecuteRaises(w)
  BY <1>3, EndKeeps
<1>4. CASE \E o \in Operators, kind \in {"set", "shadow"}, c \in Managed,
              level \in Levels, mode \in BOOLEAN : Command(o, kind, c, level, mode)
  BY <1>4, CommandKeeps
<1>5. CASE \E o \in Operators : SetLevel(o) \/ StartShadow(o)
  BY <1>5, SetLevelKeeps, StartShadowKeeps
<1>6. CASE \E mode \in BOOLEAN : Restart(mode)
  BY <1>6, RestartKeeps
<1>7. CASE UNCHANGED vars
  BY <1>7 DEF vars, IInv, TypeOK, WorkSound, SeenIsCurrent, Current, StoredLevel
<1> QED
  BY <1>1, <1>2, <1>3, <1>4, <1>5, <1>6, <1>7 DEF Next

\* IInv holds in every state the gate reaches.
THEOREM InductiveInvariant == Spec => []IInv
  BY InitIInv, NextKeeps, PTL DEF Spec

\* Every level, decision and result of the gate (executor.py) and of the store
\* (autonomy_store.py) is what its column or field may hold.
THEOREM TypeCorrect == Spec => []TypeOK
<1>1. IInv => TypeOK
  BY DEF IInv
<1> QED
  BY <1>1, InductiveInvariant, PTL

\* Whatever the operators change meanwhile, _dispatch and _execute_llm_command
\* run a decision only if a level its category had on the way licenses it, and
\* without an approval only after a review that did not fail.
THEOREM RunsLicensed == Spec => []RunsAreLicensed
<1>1. IInv => RunsAreLicensed
  <2> SUFFICES ASSUME IInv, NEW w \in Workers, Ran(w)
               PROVE  \/ /\ work[w].let = "auto"
                         /\ "auto" \in seen[w]
                         /\ work[w].decision.review \notin {"no", "failed"}
                      \/ /\ work[w].let = "approved"
                         /\ seen[w] \cap {"approve_then_execute", "auto"} # {}
    BY DEF RunsAreLicensed
  <2>1. work[w].let \in {"auto", "approved"}
    BY WorkerType DEF Sound, Ran, Records
  <2> QED
    BY <2>1, WorkerType DEF Sound
<1> QED
  BY <1>1, InductiveInvariant, PTL

\* In local mode nothing the local model proposed runs without an approval,
\* however its category came to be stored as AUTO.
THEOREM LocalAsks == Spec => []LocalModeAsks
<1>1. IInv => LocalModeAsks
  <2> SUFFICES ASSUME IInv, NEW w \in Workers, Ran(w), local, work[w].let # "approved"
               PROVE  work[w].decision.category \notin LOCAL_MODE_NO_AUTO_CATEGORIES
    BY DEF LocalModeAsks
  <2> QED
    BY WorkerType DEF Sound, Ran, Records
<1> QED
  BY <1>1, InductiveInvariant, PTL

\* trigger_agent_pipeline teaches the knowledge base only commands that were
\* run and succeeded.
THEOREM LearnedRan == Spec => []LearnedWasRun
<1>1. IInv => LearnedWasRun
  BY WorkerType DEF Sound, LearnedWasRun
<1> QED
  BY <1>1, InductiveInvariant, PTL

-----------------------------------------------------------------------------
(* The levels                                                              *)

\* A level that start_shadow read before there was a row is the one that counts
\* without a row, or what local mode makes of it.
ReadOfDefault(c, current) ==
    \/ current = DEFAULT_AUTONOMY_LEVEL
    \/ /\ DEFAULT_AUTONOMY_LEVEL = "auto" /\ c \in LOCAL_MODE_NO_AUTO_CATEGORIES
       /\ current = "approve_then_execute"

ShadowIsDefault ==
    \A o \in Operators :
        /\ cli[o].at = "write" /\ cli[o].kind = "shadow"
        /\ store[cli[o].category].level = Null
        => ReadOfDefault(cli[o].category, cli[o].current)

\* The two commands write one row, which then has a level.
LEMMA WritesAre ==
    ASSUME IInv, ShadowIsDefault, NEW o \in Operators, SetLevel(o) \/ StartShadow(o),
           NEW c, c = cli[o].category
    PROVE  /\ c \in Categories
           /\ \A e \in Categories \ {c} : store'[e] = store[e]
           /\ store'[c].level # Null
           /\ cli' = [cli EXCEPT ![o] = NoCommand]
           /\ SetLevel(o) => StoredLevel(c)' = cli[o].level
           /\ StartShadow(o) => StoredLevel(c)' = StoredLevel(c) \/ ClampedDefaultStored(o, c)
<1>1. cli[o] \in CommandRecords
  BY DEF IInv, TypeOK, CommandRecords
<1>2. c \in Categories /\ cli[o].level \in Levels /\ cli[o].current \in Levels
  BY <1>1 DEF CommandRecords
<1>3. store \in [Categories -> [level : Levels \cup {Null}, shadow : Levels \cup {Null}]]
  BY DEF IInv, TypeOK
<1>4. Null \notin Levels
  BY GateAssumption
<1>5. ASSUME SetLevel(o)
      PROVE  store'[c].level = cli[o].level
  BY <1>2, <1>3, <1>5 DEF SetLevel
<1>6. ASSUME StartShadow(o)
      PROVE  store'[c].level = IF store[c].level = Null THEN cli[o].current ELSE store[c].level
  BY <1>2, <1>3, <1>6 DEF StartShadow, ShadowRow
<1>7. \A e \in Categories \ {c} : store'[e] = store[e]
  BY <1>2, <1>3 DEF SetLevel, StartShadow
<1>8. cli' = [cli EXCEPT ![o] = NoCommand]
  BY DEF SetLevel, StartShadow
<1>9. SetLevel(o) => store'[c].level # Null /\ StoredLevel(c)' = cli[o].level
  BY <1>2, <1>4, <1>5 DEF StoredLevel
<1>10. StartShadow(o) => /\ store'[c].level # Null
                         /\ StoredLevel(c)' = StoredLevel(c) \/ ClampedDefaultStored(o, c)
  <2> SUFFICES ASSUME StartShadow(o)
               PROVE  /\ store'[c].level # Null
                      /\ StoredLevel(c)' = StoredLevel(c) \/ ClampedDefaultStored(o, c)
    OBVIOUS
  <2>1. CASE store[c].level = Null
    <3>1. cli[o].kind = "shadow" /\ ReadOfDefault(c, cli[o].current)
      BY <2>1 DEF StartShadow, ShadowIsDefault
    <3>2. store'[c].level = cli[o].current
      BY <1>6, <2>1
    <3>3. store'[c].level # Null /\ StoredLevel(c)' = cli[o].current
      BY <1>2, <1>4, <3>2 DEF StoredLevel
    <3>4. StoredLevel(c) = DEFAULT_AUTONOMY_LEVEL
      BY <2>1 DEF StoredLevel
    <3> QED
      BY <2>1, <3>1, <3>3, <3>4 DEF ReadOfDefault, ClampedDefaultStored
  <2>2. CASE store[c].level # Null
    BY <1>6, <2>2 DEF StoredLevel
  <2> QED
    BY <2>1, <2>2
<1> QED
  BY <1>2, <1>7, <1>8, <1>9, <1>10

\* set_level leaves a row with a level, and no level is taken away again.
LEMMA ShadowStays ==
    ASSUME IInv, ShadowIsDefault, [Next]_vars
    PROVE  ShadowIsDefault'
<1>1. CASE UNCHANGED <<store, cli>>
  BY <1>1 DEF ShadowIsDefault
<1>2. ASSUME NEW o \in Operators, NEW kind \in {"set", "shadow"}, NEW c \in Managed,
             NEW level \in Levels, NEW mode \in BOOLEAN, Command(o, kind, c, level, mode)
      PROVE  ShadowIsDefault'
  <2>1. store[c].level = Null => ReadOfDefault(c, Clamped(StoredLevel(c), c, mode))
    BY DEF Clamped, StoredLevel, BlocksAuto, ReadOfDefault
  <2>2. /\ store' = store
        /\ cli' = [cli EXCEPT ![o] =
              [at |-> "write", kind |-> kind, category |-> c, level |-> level,
               current |-> Clamped(StoredLevel(c), c, mode)]]
    BY <1>2 DEF Command
  <2>3. ASSUME NEW p \in Operators, cli'[p].at = "write", cli'[p].kind = "shadow",
               store'[cli'[p].category].level = Null
        PROVE  ReadOfDefault(cli'[p].category, cli'[p].current)
    <3>1. cli \in [Operators -> CommandRecords]
      BY DEF IInv, TypeOK, CommandRecords
    <3>2. CASE p = o
      BY <2>1, <2>2, <2>3, <3>1, <3>2
    <3>3. CASE p # o
      <4>1. cli'[p] = cli[p]
        BY <2>2, <3>1, <3>3
      <4> QED
        BY <2>2, <2>3, <4>1 DEF ShadowIsDefault
    <3> QED
      BY <3>2, <3>3
  <2> QED
    BY <2>3 DEF ShadowIsDefault
<1>3. ASSUME NEW o \in Operators, SetLevel(o) \/ StartShadow(o)
      PROVE  ShadowIsDefault'
  <2>0. PICK c : c = cli[o].category
    OBVIOUS
  <2>1. /\ c \in Categories
        /\ \A e \in Categories \ {c} : store'[e] = store[e]
        /\ store'[c].level # Null
        /\ cli' = [cli EXCEPT ![o] = NoCommand]
    BY <1>3, <2>0, WritesAre
  <2>2. ASSUME NEW p \in Operators, cli'[p].at = "write", cli'[p].kind = "shadow",
               store'[cli'[p].category].level = Null
        PROVE  ReadOfDefault(cli'[p].category, cli'[p].current)
    <3>1. cli \in [Operators -> CommandRecords]
      BY DEF IInv, TypeOK, CommandRecords
    <3>2. p # o
      BY <2>1, <2>2, <3>1 DEF NoCommand
    <3>3. cli'[p] = cli[p] /\ cli[p].category \in Categories
      BY <2>1, <3>1, <3>2 DEF CommandRecords
    <3>4. store[cli[p].category].level = Null
      BY <2>1, <2>2, <3>3
    <3> QED
      BY <2>2, <3>3, <3>4 DEF ShadowIsDefault
  <2> QED
    BY <2>2 DEF ShadowIsDefault
<1>4. [Next]_vars =>
         \/ UNCHANGED <<store, cli>>
         \/ \E o \in Operators, kind \in {"set", "shadow"}, c \in Managed,
               level \in Levels, mode \in BOOLEAN : Command(o, kind, c, level, mode)
         \/ \E o \in Operators : SetLevel(o) \/ StartShadow(o)
  BY DEF Next, vars, Dispatch, WorkerStep, RunNothing, ValidateCommand, RereadLevel,
     AwaitApproval, Act, Teach, Return, ExecuteRaises, Restart
<1> QED
  BY <1>1, <1>2, <1>3, <1>4

\* A level changes when set_level writes the one it was asked for.  Whatever is the
\* default, start_shadow changes none but a default AUTO that it read in local mode.
THEOREM LevelsBySetLevel == Spec => LevelChangesBySetLevel
<1>1. Init => ShadowIsDefault
  BY DEF Init, ShadowIsDefault, NoCommand
<1>2. IInv /\ ShadowIsDefault /\ [Next]_vars => ShadowIsDefault'
  BY ShadowStays
<1>3. IInv /\ ShadowIsDefault /\ [Next]_vars =>
         [\A c \in Categories :
            StoredLevel(c)' # StoredLevel(c) =>
               \E o \in Operators : /\ cli[o].at = "write" /\ cli[o].category = c
                                    /\ cli'[o].at = "idle"
                                    /\ SetAsAsked(o, c) \/ ClampedDefaultStored(o, c)]_vars
  <2> SUFFICES ASSUME IInv, ShadowIsDefault, Next, NEW c \in Categories,
                      StoredLevel(c)' # StoredLevel(c)
               PROVE  \E o \in Operators : /\ cli[o].at = "write" /\ cli[o].category = c
                                           /\ cli'[o].at = "idle"
                                           /\ SetAsAsked(o, c) \/ ClampedDefaultStored(o, c)
    OBVIOUS
  <2>1. store' # store
    BY DEF StoredLevel
  <2>2. PICK o \in Operators : SetLevel(o) \/ StartShadow(o)
    BY <2>1 DEF Next, Dispatch, WorkerStep, RunNothing, ValidateCommand, RereadLevel,
       AwaitApproval, Act, Teach, Return, ExecuteRaises, Restart, Command
  <2>3. c = cli[o].category
    <3>1. PICK e : e = cli[o].category
      OBVIOUS
    <3>2. e = c
      BY <2>2, <3>1, WritesAre DEF StoredLevel
    <3> QED
      BY <3>1, <3>2
  <2>4. cli'[o].at = "idle"
    <3>1. cli \in [Operators -> CommandRecords] /\ cli' = [cli EXCEPT ![o] = NoCommand]
      BY <2>2, WritesAre DEF IInv, TypeOK, CommandRecords
    <3> QED
      BY <3>1 DEF NoCommand
  <2>5. SetLevel(o) => SetAsAsked(o, c)
    BY <2>3, WritesAre DEF SetLevel, SetAsAsked
  <2>6. StartShadow(o) => ClampedDefaultStored(o, c)
    BY <2>3, WritesAre
  <2>7. cli[o].at = "write"
    BY <2>2 DEF SetLevel, StartShadow
  <2> QED
    BY <2>2, <2>3, <2>4, <2>5, <2>6, <2>7
<1> QED
  BY <1>1, <1>2, <1>3, InductiveInvariant, PTL DEF Spec, LevelChangesBySetLevel
===============================================================================
