----------------------------- MODULE AgentProofs -----------------------------
(***************************************************************************)
(* What is proved of the components holds of the agent, which MCAgent      *)
(* composes of them.                                                       *)
(***************************************************************************)
EXTENDS MCAgent, WatchingProofs, ResolutionProofs, SurroundingsProofs

\* A step of the agent is one of the component or leaves it alone.
LEMMA OneComponentMoves ==
    [Next]_vars => /\ DebNext \/ UNCHANGED debVars
                   /\ [TailNext]_tailVars
                   /\ [MonNext]_monVars
                   /\ LoopNext \/ UNCHANGED loopVars
                   /\ [EscNext]_escVars
                   /\ ExecNext \/ UNCHANGED execVars
                   /\ NotifyNext \/ UNCHANGED notifyVars
                   /\ PlayNext \/ UNCHANGED playVars
                   /\ CrawlNext \/ UNCHANGED crawlVars
                   /\ LogNext \/ UNCHANGED logVars
                   /\ EvidenceNext \/ UNCHANGED evidenceVars
                   /\ ConnNext \/ UNCHANGED connVars
                   /\ ChaosNext \/ UNCHANGED chaosVars
                   /\ [InstallNext]_installVars
                   /\ [MetricNext]_metricVars
BY DEF Next, vars, Alone, DebAlone, TailAlone, MonAlone, LoopAlone, EscAlone, ExecAlone,
       NotifyAlone, PlayAlone, CrawlAlone, LogAlone, EvAlone, ConnAlone, ChaosAlone,
       InstallAlone, MetricAlone, core, resolution, sources, aside, outside

\* Whatever threads, faults and requests there are, and whatever raises: the
\* process has one Chroma client, connections are created one at a time, faults
\* are injected one at a time, and no lock is left behind but by KeepsLock.
THEOREM OneAtATimeAlways == Spec => []OneAtATime
<1>1. Init => ConnInv /\ ChaosInv
  BY ConnInvInit, ChaosInvInit DEF Init
<1>2. ConnInv /\ ChaosInv /\ [Next]_vars => (ConnInv /\ ChaosInv)'
  BY OneComponentMoves, ConnInvStep, ConnInvStutter, ChaosInvStep, ChaosInvStutter
<1>3. ConnInv /\ ChaosInv => OneAtATime
  BY ConnInvGivesProperty, ChaosInvGivesProperty DEF OneAtATime
<1> QED
  BY <1>1, <1>2, <1>3, PTL DEF Spec

\* Whatever the order in which threads read the clock and get the lock of
\* should_process: a key that is not pushed out of the cache is let through once
\* per cooldown.
THEOREM OncePerCooldownAlways == Spec => []OncePerCooldown
<1>1. Init => DebInv
  BY DebInvInit DEF Init
<1>2. DebInv /\ [Next]_vars => DebInv'
  BY OneComponentMoves, DebInvStep, DebInvStutter
<1>3. DebInv => OncePerCooldown
  BY DEF DebInv
<1> QED
  BY <1>1, <1>2, <1>3, PTL DEF Spec

\* However channels fail and processes end: people see a message at most once, and
\* one that has a row only when the row was committed (log_event, create_request).
THEOREM ShownOnceAndStoredAlways == Spec => []ShownOnceAndStored
<1>1. Init => NotifyInv
  BY NotifyInvInit DEF Init
<1>2. NotifyInv /\ [Next]_vars => NotifyInv'
  BY OneComponentMoves, NotifyInvStep, NotifyInvStutter
<1>3. NotifyInv => ShownOnceAndStored
  BY DEF NotifyInv
<1> QED
  BY <1>1, <1>2, <1>3, PTL DEF Spec

\* Whatever the process table does while a command waits for its approval, and whichever
\* names are protected: what is protected and touched all the same is a process that
\* came or opened its port after _validate_command or that pkill -x only fits, the
\* container that stands in, or nginx when it reloads; and what _try_rollback stops was
\* named and is reported as failed.
THEOREM ExecutionIsSafeAlways == Spec => []ExecutionIsSafe
<1>1. Init => ExecInv
  BY ExecInvInit DEF Init
<1>2. ExecInv /\ [Next]_vars => ExecInv'
  BY OneComponentMoves, ExecInvStep, ExecInvStutter
<1>3. ExecInv => ExecutionIsSafe
  BY DEF ExecInv
<1> QED
  BY <1>1, <1>2, <1>3, PTL DEF Spec

\* Whatever restarts, failures and kills come between: no task is done twice within
\* its interval (MaintenanceRunner, ETLScheduler, VectorDBPurger), and a category
\* that stands announced is not announced again (ErrorClusterer).
THEOREM NothingTooSoonAlways == Spec => NothingTooSoon
<1>1. Init => LoopInv
  BY LoopInvInit DEF Init
<1>2. LoopInv /\ [Next]_vars => LoopInv'
  BY OneComponentMoves, LoopInvStep, LoopInvStutter
<1>3. LoopInv /\ [Next]_vars => [SpacingKept /\ NewsIsNew]_loopVars
  BY OneComponentMoves, LoopInvSpaces
<1> QED
  BY <1>1, <1>2, <1>3, PTL DEF Spec, NothingTooSoon

\* However the writer, rotations and restarts come between the steps of on_modified:
\* no error line is put to the debouncer twice, and none that the offset passes is
\* left out.
THEOREM EachErrorOnceAlways == Spec => []EachErrorOnce
<1>1. Init => TailInv
  BY TailInvInit DEF Init
<1>2. TailInv /\ [Next]_vars => TailInv'
  BY OneComponentMoves, TailInvStep
<1> QED
  BY <1>1, <1>2, TailInvGivesProperty, PTL DEF Spec

\* The monitor alerts at most once per cooldown, about the CPU only after as many
\* hot checks in a row, and about the GPU's memory only when it is full (or sysfs
\* has no file for its total), in the order of whatever readings and failures.
THEOREM AlertsAreDueAlways == Spec => AlertsAreDue
<1>1. Init => MonInv
  BY MonInvInit DEF Init
<1>2. MonInv /\ [Next]_vars => MonInv'
  BY OneComponentMoves, MonInvStep
<1>3. MonInv /\ [Next]_vars => [OneAlertPerCooldown /\ CpuAlertNeedsStreak /\ VramAlertIsReal]_monVars
  BY OneComponentMoves, AlertsAreDueInStep
<1> QED
  BY <1>1, <1>2, <1>3, PTL DEF Spec, AlertsAreDue

\* Whatever queries, batches and writings of the backup fail: what the sources offer
\* is collected under its query, filed under its category, kept until it is removed,
\* and shown as what it is when it answers.
THEOREM SourcesAreSoundAlways == Spec => []SourcesAreSound
<1> DEFINE SourcesInv == CrawlInv /\ LogInv /\ PlayInv /\ EvInv
<1>1. Init => SourcesInv
  BY CrawlInvInit, LogInvInit, PlayInvInit, EvInvInit DEF Init
<1>2. SourcesInv /\ [Next]_vars => SourcesInv'
  BY OneComponentMoves, CrawlInvStep, CrawlInvStutter, LogInvStep, LogInvStutter,
     PlayInvStep, PlayInvStutter, EvInvStep, EvInvStutter
<1>3. SourcesInv => SourcesAreSound
  BY LogInvGivesProperty, PlayInvGivesProperty, EvInvGivesProperty
  DEF CrawlInv, IssuesAreCollected, SourcesAreSound
<1> QED
  BY <1>1, <1>2, <1>3, PTL DEF Spec

\* What persons are told: texts go to the cloud only after the operator chose it and as
\* install.sh says in every spelling it knows; a category is said to be ready for AUTO
\* without what ran by leave of AUTO itself; and the dashboard tells as done what counts
\* as resolved: actions that were run, the demo's rows, escalations and alerts.
THEOREM ToldRightAlways == Spec => []ToldRight
<1>1. Init => InstallInv /\ MetricInv
  BY InstallInvInit, MetricInvInit DEF Init
<1>2. InstallInv /\ MetricInv /\ [Next]_vars => (InstallInv /\ MetricInv)'
  BY OneComponentMoves, InstallInvStep, MetricInvStep
<1>3. InstallInv /\ MetricInv => ToldRight
  BY InstallInvGivesProperty, MetricInvGivesProperty DEF ToldRight
<1> QED
  BY <1>1, <1>2, <1>3, PTL DEF Spec

\* The types of the sources are in their invariants.
LEMMA SourcesAreTyped ==
    ASSUME CrawlInv, LogInv, PlayInv, PlayTypes, EvInv
    PROVE  CrawlTypeOK /\ LogTypeOK /\ PlayTypeOK /\ EvidenceTypeOK
<1>1. CrawlTypeOK
  BY DEF CrawlInv
<1>2. LogTypeOK
  <2>1. phase \in {"reading", "asking", "sorting", "filing", "filed"} /\ needed \subseteq Cats
    BY DEF LogInv, LogPhases
  <2>2. \A i \in DOMAIN candidates : candidates[i] \in LogTexts
    <3>1. candidates \in Seq(LogTexts)
      BY DEF LogInv
    <3> QED
      BY <3>1
  <2>3. \A i \in DOMAIN modelBatch : modelBatch[i] \in LogTexts \X (0..NumCats)
    <3>1. modelBatch \in Seq(LogTexts \X (0..NumCats))
      BY DEF LogInv
    <3> QED
      BY <3>1
  <2>4. \A e \in filed : e.text \in LogTexts /\ e.cat \in Cats
    BY DEF LogInv
  <2> QED
    BY <2>1, <2>2, <2>3, <2>4 DEF LogTypeOK
<1>3. PlayTypeOK
  BY PlayIsTyped
<1>4. EvidenceTypeOK
  <2>1. \A i \in DOMAIN results : results[i] \in L1Result
    <3>1. results \in Seq(L1Result)
      BY DEF EvInv
    <3> QED
      BY <3>1
  <2>2. voted.at \in {"none", "hit", "escalated", "L2"}
    <3>1. Built(Best).at = "hit"
      BY DEF Built
    <3> QED
      BY <3>1 DEF EvInv, NotYet
  <2> QED
    BY <2>1, <2>2 DEF EvidenceTypeOK
<1> QED
  BY <1>1, <1>2, <1>3, <1>4

\* Every variable of the fifteen components keeps its type, whatever they do.
THEOREM AgentTypeCorrect == Spec => []AgentTypeOK
<1> DEFINE WatchingInv == DebInv /\ DebTypes /\ TailInv /\ MonInv /\ LoopInv /\ LoopTypes
           ResolutionInv == EscInv /\ ExecTypes /\ ExecInv /\ NotifyInv
           SourcesInv == CrawlInv /\ LogInv /\ PlayInv /\ PlayTypes /\ EvInv
           AroundInv == ConnInv /\ ChaosInv /\ InstallInv /\ MetricInv
<1>1. Init => WatchingInv /\ ResolutionInv /\ SourcesInv /\ AroundInv
  BY DebInvInit, DebTypesInit, TailInvInit, MonInvInit, LoopInvInit, LoopTypesInit,
     EscInitInv, ExecTypesInit, ExecInvInit, NotifyInvInit, CrawlInvInit, LogInvInit,
     PlayInvInit, PlayTypesInit, EvInvInit, ConnInvInit, ChaosInvInit, InstallInvInit,
     MetricInvInit DEF Init
<1>2. WatchingInv /\ [Next]_vars => WatchingInv'
  BY OneComponentMoves, DebInvStep, DebInvStutter, DebTypesStep, DebTypesStutter,
     TailInvStep, MonInvStep, LoopInvStep, LoopInvStutter, LoopTypesStep, LoopTypesStutter
<1>3. ResolutionInv /\ [Next]_vars => ResolutionInv'
  BY OneComponentMoves, EscNextInv, ExecTypesStep, ExecTypesStutter, ExecInvStep,
     ExecInvStutter, NotifyInvStep, NotifyInvStutter
<1>4. SourcesInv /\ [Next]_vars => SourcesInv'
  BY OneComponentMoves, CrawlInvStep, CrawlInvStutter, LogInvStep, LogInvStutter,
     PlayInvStep, PlayInvStutter, PlayTypesStep, PlayTypesStutter, EvInvStep, EvInvStutter
<1>5. AroundInv /\ [Next]_vars => AroundInv'
  BY OneComponentMoves, ConnInvStep, ConnInvStutter, ChaosInvStep, ChaosInvStutter,
     InstallInvStep, MetricInvStep
<1>6. WatchingInv => DebTypeOK /\ TailTypeOK /\ MonTypeOK /\ LoopTypeOK
  BY LoopIsTyped DEF DebTypes, TailInv, MonInv
<1>7. ResolutionInv => EscTypeOK /\ ExecTypeOK /\ NotifyTypeOK
  BY ExecIsTyped DEF EscInv, NotifyInv
<1>8. SourcesInv => CrawlTypeOK /\ LogTypeOK /\ PlayTypeOK /\ EvidenceTypeOK
  BY SourcesAreTyped
<1>9. AroundInv => ConnTypeOK /\ ChaosTypeOK /\ InstallTypeOK /\ MetricTypeOK
  BY DEF ConnInv, ChaosInv, InstallInv, MetricInv
<1>10. WatchingInv /\ ResolutionInv /\ SourcesInv /\ AroundInv => AgentTypeOK
  BY <1>6, <1>7, <1>8, <1>9 DEF AgentTypeOK
<1> QED
  BY <1>1, <1>2, <1>3, <1>4, <1>5, <1>10, PTL DEF Spec

\* Also within the agent: a process in local mode sends nothing to Groq, and no
\* command of a model is let out as passed that neither a reviewer nor a fixed rule
\* passed.
THEOREM AnswersAreSafeAlways == Spec => []AnswersAreSafe
<1>1. Init => EscInv
  BY EscInitInv DEF Init
<1>2. EscInv /\ [Next]_vars => EscInv'
  BY OneComponentMoves, EscNextInv
<1>3. EscInv => AnswersAreSafe
  BY DEF EscInv, AnswersAreSafe
<1> QED
  BY <1>1, <1>2, <1>3, PTL DEF Spec
=============================================================================
