---------------------------- MODULE CircuitBreaker ----------------------------
(***************************************************************************)
(* src/circuit_breaker.py as it is driven by trigger_agent_pipeline in     *)
(* src/log_watcher.py.                                                     *)
(*                                                                         *)
(* The breaker keeps one SQLite row per error signature.  A worker is a    *)
(* thread that runs the pipeline: watchdog's dispatch thread and the main  *)
(* thread that runs ProactiveMonitor's callback in one agent.  Each SQL    *)
(* statement or transaction is one step, so that what another worker       *)
(* commits between a SELECT and the write that depends on it is visible to *)
(* the checker.                                                            *)
(*                                                                         *)
(* opened_at is kept as its age, which saturates at OPEN_TIMEOUT_SEC: the  *)
(* code only asks whether that much time has passed.  consecutive_failures *)
(* saturates at MaxFailures, which is at least FAILURE_THRESHOLD: the code *)
(* only asks whether the threshold is reached.                             *)
(***************************************************************************)
EXTENDS Naturals

CONSTANTS
    Workers,            \* threads that run the pipeline
    Sigs,               \* error signatures (_sig)
    FAILURE_THRESHOLD,
    OPEN_TIMEOUT_SEC,   \* in ticks of the model's clock
    MaxFailures,        \* bound: where the failure counters saturate
    MaxRestarts,        \* bound: how often the process dies
    Null,               \* SQL NULL, Python None
    Nobody,             \* no probe is outstanding
    Lost                \* the outstanding probe will never report

ASSUME BreakerAssumption ==
    /\ FAILURE_THRESHOLD \in Nat \ {0}
    /\ OPEN_TIMEOUT_SEC \in Nat \ {0}
    /\ MaxFailures \in Nat
    /\ MaxFailures >= FAILURE_THRESHOLD
    /\ MaxRestarts \in Nat
    /\ Null \notin Nat \cup Sigs
    /\ Nobody \notin Workers
    /\ Lost \notin Workers
    /\ Nobody # Lost

VARIABLES
    row,      \* the circuit_breaker table
    pc,       \* where each worker is between two SQL statements
    sig,      \* the signature each worker handles
    snap,     \* the row as the worker last read it (the local `data`)
    ok,       \* exec_result["success"], about to be recorded
    restarts, \* how often the process died
    prober,   \* history: whose probe is outstanding for a signature
    streak,   \* history: failures recorded since the last recorded success
    forgotten \* history: maintenance has deleted some of them since

vars == <<row, pc, sig, snap, ok, restarts, prober, streak, forgotten>>

Ages == 0..OPEN_TIMEOUT_SEC
States == {"CLOSED", "OPEN", "HALF_OPEN"}
Rows == [state    : States \cup {"ABSENT"},
         failures : 0..MaxFailures,
         age      : Ages \cup {Null},
         tip      : {0, 1}]

RowOf(state, failures, age, tip) ==
    [state |-> state, failures |-> failures, age |-> age, tip |-> tip]

\* A signature without a row, and what _read returns for it.
NoRow == RowOf("ABSENT", 0, Null, 0)
Default == RowOf("CLOSED", 0, Null, 0)

\* _read
Read(s) == IF row[s].state = "ABSENT" THEN Default ELSE row[s]

\* The counters of the model saturate.
Bump(n) == IF n < MaxFailures THEN n + 1 ELSE n
Older(r) ==
    [r EXCEPT !.age = IF @ = Null \/ @ = OPEN_TIMEOUT_SEC THEN @ ELSE @ + 1]

-----------------------------------------------------------------------------
Init ==
    /\ row    = [s \in Sigs |-> NoRow]
    /\ pc     = [w \in Workers |-> "idle"]
    /\ sig    = [w \in Workers |-> Null]
    /\ snap   = [w \in Workers |-> Default]
    /\ ok     = [w \in Workers |-> FALSE]
    /\ restarts = 0
    /\ prober = [s \in Sigs |-> Nobody]
    /\ streak = [s \in Sigs |-> 0]
    /\ forgotten = [s \in Sigs |-> FALSE]

\* The pipeline returns to its caller; its locals are gone.
Return(w) ==
    /\ pc'   = [pc EXCEPT ![w] = "idle"]
    /\ sig'  = [sig EXCEPT ![w] = Null]
    /\ snap' = [snap EXCEPT ![w] = Default]
    /\ ok'   = [ok EXCEPT ![w] = FALSE]

\* can_proceed let the worker through to analyze_error and execute.
Admit(w) ==
    /\ pc' = [pc EXCEPT ![w] = "running"]
    /\ UNCHANGED <<sig, snap, ok>>

\* An error line reaches trigger_agent_pipeline: can_proceed reads the row.
CanProceedRead(w, s) ==
    /\ pc[w] = "idle"
    /\ pc'   = [pc EXCEPT ![w] = "judge"]
    /\ sig'  = [sig EXCEPT ![w] = s]
    /\ snap' = [snap EXCEPT ![w] = Read(s)]
    /\ UNCHANGED <<row, ok, restarts, prober, streak, forgotten>>

\* Wrong variant: the elapsed time is not looked at.
MayProbeAnyTime(data) == data.state \in {"OPEN", "HALF_OPEN"}

\* The states in which can_proceed goes on to _try_claim_half_open.
MayProbe(data) ==
    \/ data.state = "OPEN" /\ data.age # Null /\ data.age >= OPEN_TIMEOUT_SEC
    \/ data.state = "HALF_OPEN"

\* can_proceed decides on the row it read, whatever the row is by now.
CanProceedJudge(w) ==
    /\ pc[w] = "judge"
    /\ \/ snap[w].state = "CLOSED" /\ Admit(w)
       \/ /\ MayProbe(snap[w])
          /\ pc' = [pc EXCEPT ![w] = "claim"]
          /\ UNCHANGED <<sig, snap, ok>>
       \/ snap[w].state # "CLOSED" /\ ~MayProbe(snap[w]) /\ Return(w)
    /\ UNCHANGED <<row, restarts, prober, streak, forgotten>>

\* Wrong variant: the transaction does not look at test_in_progress.
ClaimRefusedNever(r) == r.state = "ABSENT"

\* The row is gone, or another probe is in progress.
ClaimRefused(r) == r.state = "ABSENT" \/ (r.state # "CLOSED" /\ r.tip = 1)

\* _try_claim_half_open, one exclusive transaction.
TryClaimHalfOpen(w) ==
    LET s == sig[w] IN
    /\ pc[w] = "claim"
    /\ \/ ClaimRefused(row[s]) /\ Return(w) /\ UNCHANGED <<row, prober>>
       \/ row[s].state = "CLOSED" /\ Admit(w) /\ UNCHANGED <<row, prober>>
       \/ /\ ~ClaimRefused(row[s])
          /\ row[s].state # "CLOSED"
          /\ row'    = [row EXCEPT ![s] = RowOf("HALF_OPEN", @.failures, @.age, 1)]
          /\ prober' = [prober EXCEPT ![s] = w]
          /\ Admit(w)
    /\ UNCHANGED <<restarts, streak, forgotten>>

\* analyze_error and execute returned; record_result reads the row.
RecordRead(w, success) ==
    /\ pc[w] = "running"
    /\ pc'   = [pc EXCEPT ![w] = "write"]
    /\ snap' = [snap EXCEPT ![w] = Read(sig[w])]
    /\ ok'   = [ok EXCEPT ![w] = success]
    /\ UNCHANGED <<row, sig, restarts, prober, streak, forgotten>>

\* Wrong variant: the failure that opens the circuit does not stamp opened_at.
RecordedWithoutStamp(data, success) ==
    LET f == Bump(data.failures) IN
    IF success THEN Default
    ELSE IF data.state = "HALF_OPEN" \/ f >= FAILURE_THRESHOLD
         THEN RowOf("OPEN", f, data.age, 0)
         ELSE RowOf("CLOSED", f, data.age, 0)

\* Wrong variant: opened_at and the failure count change places in the call of
\* _write.
RecordedSwapped(data, success) ==
    LET f == Bump(data.failures) IN
    IF success THEN Default
    ELSE IF data.state = "HALF_OPEN" \/ f >= FAILURE_THRESHOLD
         THEN RowOf("OPEN", 0, f, 0)
         ELSE RowOf("CLOSED", f, data.age, 0)

\* Wrong variant: a failed test request is simply tried again.
RecordedRetrying(data, success) ==
    LET f == Bump(data.failures) IN
    IF success THEN Default
    ELSE IF data.state = "HALF_OPEN" THEN data
    ELSE IF f >= FAILURE_THRESHOLD THEN RowOf("OPEN", f, 0, 0)
    ELSE RowOf("CLOSED", f, data.age, 0)

\* Wrong variant: a success in CLOSED does not reset the count.
RecordedKeepingCount(data, success) ==
    LET f == Bump(data.failures) IN
    IF success THEN IF data.state = "CLOSED" THEN data ELSE Default
    ELSE IF data.state = "HALF_OPEN" \/ f >= FAILURE_THRESHOLD
         THEN RowOf("OPEN", f, 0, 0)
         ELSE RowOf("CLOSED", f, data.age, 0)

\* The row record_result computes from the one it read.
Recorded(data, success) ==
    LET f == Bump(data.failures) IN
    IF success THEN Default
    ELSE IF data.state = "HALF_OPEN" \/ f >= FAILURE_THRESHOLD
         THEN RowOf("OPEN", f, 0, 0)
         ELSE RowOf("CLOSED", f, data.age, 0)

\* Wrong variant: a row whose test is in progress is not overwritten.
RecordWriteUnlessTesting(w) ==
    LET s == sig[w] IN
    /\ pc[w] = "write"
    /\ row'    = [row EXCEPT ![s] = IF @.tip = 1 THEN @ ELSE Recorded(snap[w], ok[w])]
    /\ prober' = [prober EXCEPT ![s] = Nobody]
    /\ streak' = [streak EXCEPT ![s] = IF ok[w] THEN 0 ELSE Bump(@)]
    /\ forgotten' = [forgotten EXCEPT ![s] = @ /\ ~ok[w]]
    /\ Return(w)
    /\ UNCHANGED restarts

\* _write: the upsert replaces whatever the row is by now.
RecordWrite(w) ==
    LET s == sig[w] IN
    /\ pc[w] = "write"
    /\ row'    = [row EXCEPT ![s] = Recorded(snap[w], ok[w])]
    /\ prober' = [prober EXCEPT ![s] = Nobody]
    /\ streak' = [streak EXCEPT ![s] = IF ok[w] THEN 0 ELSE Bump(@)]
    /\ forgotten' = [forgotten EXCEPT ![s] = @ /\ ~ok[w]]
    /\ Return(w)
    /\ UNCHANGED restarts

\* The probes of the workers in gone will never be reported.
LoseProbes(gone) ==
    prober' = [s \in Sigs |-> IF prober[s] \in gone THEN Lost ELSE prober[s]]

\* analyze_error or execute raised and the pipeline returned before
\* record_result, or a statement of the breaker itself raised (a locked
\* database), which nothing on the way catches.
PipelineRaises(w) ==
    /\ pc[w] \in {"claim", "running", "write"}
    /\ LoseProbes({w})
    /\ Return(w)
    /\ UNCHANGED <<row, restarts, streak, forgotten>>

\* The process dies and is restarted; only the table survives.
Restart ==
    /\ restarts < MaxRestarts
    /\ restarts' = restarts + 1
    /\ pc'   = [w \in Workers |-> "idle"]
    /\ sig'  = [w \in Workers |-> Null]
    /\ snap' = [w \in Workers |-> Default]
    /\ ok'   = [w \in Workers |-> FALSE]
    /\ LoseProbes(Workers)
    /\ UNCHANGED <<row, streak, forgotten>>

\* Wrong variant: old rows are deleted whatever their state.
MaintenanceDeleteAny(s) ==
    /\ row[s].state # "ABSENT"
    /\ row' = [row EXCEPT ![s] = NoRow]
    /\ forgotten' = [forgotten EXCEPT ![s] = @ \/ row[s].failures > 0]
    /\ UNCHANGED <<pc, sig, snap, ok, restarts, prober, streak>>

\* MaintenanceRunner deletes a CLOSED row nobody updated for 30 days, whatever
\* call is using it: the error may have come back just then.  last_updated is
\* not kept; a CLOSED row may be that old at any time.
MaintenanceDelete(s) ==
    /\ row[s].state = "CLOSED"
    /\ row' = [row EXCEPT ![s] = NoRow]
    /\ forgotten' = [forgotten EXCEPT ![s] = @ \/ row[s].failures > 0]
    /\ UNCHANGED <<pc, sig, snap, ok, restarts, prober, streak>>

\* The wall clock advances.
Tick ==
    /\ row'  = [s \in Sigs |-> Older(row[s])]
    /\ snap' = [w \in Workers |-> Older(snap[w])]
    /\ UNCHANGED <<pc, sig, ok, restarts, prober, streak, forgotten>>

\* What a worker does once an error has reached it.
WorkerStep(w) ==
    \/ CanProceedJudge(w)
    \/ TryClaimHalfOpen(w)
    \/ \E success \in BOOLEAN : RecordRead(w, success)
    \/ RecordWrite(w)

Next ==
    \/ \E w \in Workers, s \in Sigs : CanProceedRead(w, s)
    \/ \E w \in Workers : WorkerStep(w)
    \/ \E w \in Workers : PipelineRaises(w)
    \/ Restart
    \/ \E s \in Sigs : MaintenanceDelete(s)
    \/ Tick

Spec == Init /\ [][Next]_vars

\* A thread that is runnable runs and its pipeline ends (every wait in it has a
\* timeout); time passes.  Errors need not arrive, faults need not happen.
FairSpec ==
    /\ Spec
    /\ \A w \in Workers : WF_vars(WorkerStep(w))
    /\ WF_vars(Tick)

\* Every error keeps coming back, and the database is not locked every time.
RecurringErrorSpec ==
    /\ FairSpec
    /\ \A w \in Workers, s \in Sigs :
          SF_vars(CanProceedRead(w, s)) /\ SF_vars(sig[w] = s /\ TryClaimHalfOpen(w))

-----------------------------------------------------------------------------
TypeOK ==
    /\ row \in [Sigs -> Rows]
    /\ pc \in [Workers -> {"idle", "judge", "claim", "running", "write"}]
    /\ sig \in [Workers -> Sigs \cup {Null}]
    /\ snap \in [Workers -> Rows]
    /\ ok \in [Workers -> BOOLEAN]
    /\ restarts \in 0..MaxRestarts
    /\ prober \in [Sigs -> Workers \cup {Nobody, Lost}]
    /\ streak \in [Sigs -> 0..MaxFailures]
    /\ forgotten \in [Sigs -> BOOLEAN]
    /\ \A w \in Workers : pc[w] = "idle" <=> sig[w] = Null

\* What every row satisfies, however stale the data it was computed
\* from: a row is not CLOSED exactly when the threshold was reached, only such
\* a row has an opening time, and the probe flag is up exactly in HALF_OPEN.
ConsistentRow(r) ==
    /\ r.state \in {"OPEN", "HALF_OPEN"} <=> r.failures >= FAILURE_THRESHOLD
    /\ r.state \in {"OPEN", "HALF_OPEN"} <=> r.age # Null
    /\ r.state = "HALF_OPEN" <=> r.tip = 1

\* However the claims and the read-modify-writes of record_result interleave,
\* no row is stored, and none read earlier is still held by a worker, on which
\* can_proceed would block for ever: an OPEN row without opened_at, or one
\* whose probe flag is already up.
RowsConsistent ==
    /\ \A s \in Sigs : ConsistentRow(row[s])
    /\ \A w \in Workers : ConsistentRow(snap[w])

InFlight(w, s) == sig[w] = s /\ pc[w] \in {"running", "write"}

\* A HALF_OPEN row is there for one outstanding probe: the worker that claimed
\* it is still running the pipeline, or its probe was lost to an exception or
\* to a restart.
ProbeAccounted ==
    \A s \in Sigs :
        /\ row[s].state = "HALF_OPEN" <=> prober[s] # Nobody
        /\ prober[s] \in Workers => InFlight(prober[s], s)

\* _try_claim_half_open hands the probe to one worker at a time: nobody gets
\* it before a result was recorded for the signature, not even when several
\* workers read an expired OPEN row.
OneProbeAtATime ==
    [][\A s \in Sigs :
          prober'[s] \in Workers /\ prober'[s] # prober[s] => prober[s] = Nobody]_vars

\* A test request before the timeout has passed comes from a race only: the
\* circuit was closed, or opened anew, after the worker that gets the test had
\* read its row, so that what it judged was another opening.
EarlyTestsAreRaces ==
    [][\A w \in Workers, s \in Sigs :
          prober'[s] = w /\ prober[s] # w
             => row[s].age = OPEN_TIMEOUT_SEC \/ row[s] # snap[w]]_vars

\* A worker that was let through, or is about to be on a row it read as CLOSED.
Admitted(w, s) ==
    \/ InFlight(w, s)
    \/ sig[w] = s /\ pc[w] = "judge" /\ snap[w].state = "CLOSED"

\* Nothing in the code frees a probe that was lost: once no earlier call is
\* left to report for the signature, its row stays HALF_OPEN, and every later
\* call is refused, through any number of timeouts, restarts and maintenance.
Wedged(s) == prober[s] = Lost /\ \A w \in Workers : ~Admitted(w, s)
WedgedForGood ==
    [][\A s \in Sigs : Wedged(s) => Wedged(s)' /\ row'[s].state = "HALF_OPEN"]_vars

\* A probe that is not lost is reported, and the row leaves HALF_OPEN.
ProbeResolved ==
    \A s \in Sigs :
        row[s].state = "HALF_OPEN" ~> (row[s].state # "HALF_OPEN" \/ prober[s] = Lost)

=============================================================================
