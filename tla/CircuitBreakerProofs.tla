------------------------ MODULE CircuitBreakerProofs -------------------------
(***************************************************************************)
(* Proofs about CircuitBreaker for every set of workers and signatures and *)
(* every threshold and timeout; and that with one worker it implements its *)
(* documented state machine (BreakerRefinement).                           *)
(***************************************************************************)
EXTENDS BreakerRefinement, TLAPS

\* The inductive invariant: what is stored and what is held in the locals of
\* the workers is consistent, and every HALF_OPEN row has its probe.
IInv == TypeOK /\ RowsConsistent /\ ProbeAccounted

-----------------------------------------------------------------------------
\* What record_result computes from a consistent row is a consistent row that
\* is not HALF_OPEN (circuit_breaker.py:205-240).
LEMMA RecordedLemma ==
    ASSUME NEW d \in Rows, ConsistentRow(d), NEW b \in BOOLEAN
    PROVE  /\ Recorded(d, b) \in Rows
           /\ ConsistentRow(Recorded(d, b))
           /\ Recorded(d, b).state # "HALF_OPEN"
<1> USE BreakerAssumption
<1> DEFINE f == Bump(d.failures)
<1>1. f \in 0..MaxFailures /\ (d.failures >= FAILURE_THRESHOLD => f >= FAILURE_THRESHOLD)
  BY DEF Bump, Rows
<1>2. f < FAILURE_THRESHOLD => d.age = Null
  BY DEF Bump, Rows, ConsistentRow, States, Ages
<1>3. CASE b
  BY <1>3 DEF Recorded, Default, RowOf, Rows, ConsistentRow, States, Ages
<1>4. CASE ~b /\ (d.state = "HALF_OPEN" \/ f >= FAILURE_THRESHOLD)
  <2>1. Recorded(d, b) = RowOf("OPEN", f, 0, 0)
    BY <1>4 DEF Recorded
  <2>2. f >= FAILURE_THRESHOLD
    BY <1>1, <1>4 DEF ConsistentRow
  <2> QED
    BY <1>1, <2>1, <2>2 DEF RowOf, Rows, ConsistentRow, States, Ages
<1>5. CASE ~b /\ ~(d.state = "HALF_OPEN" \/ f >= FAILURE_THRESHOLD)
  <2>1. Recorded(d, b) = RowOf("CLOSED", f, Null, 0)
    BY <1>1, <1>2, <1>5 DEF Recorded
  <2> QED
    BY <1>1, <1>5, <2>1 DEF RowOf, Rows, ConsistentRow, States, Ages
<1> QED
  BY <1>3, <1>4, <1>5

\* _read returns a consistent row in the state of the stored one, CLOSED for a
\* missing one (circuit_breaker.py:79-91).
LEMMA ReadLemma ==
    ASSUME NEW s \in Sigs, row[s] \in Rows, ConsistentRow(row[s])
    PROVE  /\ Read(s) \in Rows
           /\ ConsistentRow(Read(s))
           /\ Read(s).state = "CLOSED" => row[s].state \in {"CLOSED", "ABSENT"}
  BY BreakerAssumption
  DEF Read, NoRow, Default, RowOf, Rows, ConsistentRow, States, Ages

\* Time leaves a row consistent and changes nothing but its age.
LEMMA OlderLemma ==
    ASSUME NEW r \in Rows, ConsistentRow(r)
    PROVE  /\ Older(r) \in Rows
           /\ ConsistentRow(Older(r))
           /\ Older(r).state = r.state
  BY BreakerAssumption DEF Older, Rows, ConsistentRow, States, Ages

\* A worker whose call returned holds nothing.
LEMMA ReturnLemma ==
    ASSUME TypeOK, RowsConsistent, NEW w \in Workers, Return(w)
    PROVE  /\ pc' \in [Workers -> {"idle", "judge", "claim", "running", "write"}]
           /\ sig' \in [Workers -> Sigs \cup {Null}]
           /\ snap' \in [Workers -> Rows]
           /\ ok' \in [Workers -> BOOLEAN]
           /\ \A v \in Workers : pc'[v] = "idle" <=> sig'[v] = Null
           /\ \A v \in Workers : ConsistentRow(snap'[v])
           /\ \A v \in Workers \ {w} :
                 pc'[v] = pc[v] /\ sig'[v] = sig[v] /\ snap'[v] = snap[v]
           /\ pc'[w] = "idle"
<1>1. Default \in Rows /\ ConsistentRow(Default)
  BY BreakerAssumption DEF Default, RowOf, Rows, ConsistentRow, States, Ages
<1> QED
  BY <1>1 DEF Return, TypeOK, RowsConsistent

-----------------------------------------------------------------------------
LEMMA InitIInv == Init => IInv
<1> SUFFICES ASSUME Init PROVE IInv
  OBVIOUS
<1>1. /\ NoRow \in Rows /\ ConsistentRow(NoRow) /\ NoRow.state = "ABSENT"
      /\ Default \in Rows /\ ConsistentRow(Default)
  BY BreakerAssumption
  DEF NoRow, Default, RowOf, Rows, ConsistentRow, States, Ages
<1>2. TypeOK
  BY <1>1, BreakerAssumption DEF Init, TypeOK
<1>3. RowsConsistent
  BY <1>1 DEF Init, RowsConsistent
<1>4. ProbeAccounted
  BY <1>1, BreakerAssumption DEF Init, ProbeAccounted
<1> QED
  BY <1>2, <1>3, <1>4 DEF IInv

LEMMA StepIInv == IInv /\ [Next]_vars => IInv'
<1> SUFFICES ASSUME IInv, [Next]_vars PROVE IInv'
  OBVIOUS
<1> USE BreakerAssumption
<1> USE DEF IInv
<1>1. ASSUME NEW w \in Workers, NEW s \in Sigs, CanProceedRead(w, s)
      PROVE  IInv'
  <2>1. Read(s) \in Rows /\ ConsistentRow(Read(s))
    BY ReadLemma DEF TypeOK, RowsConsistent
  <2>2. TypeOK'
    BY <1>1, <2>1 DEF CanProceedRead, TypeOK
  <2>3. RowsConsistent'
    BY <1>1, <2>1 DEF CanProceedRead, TypeOK, RowsConsistent
  <2>4. ProbeAccounted'
    BY <1>1 DEF CanProceedRead, TypeOK, ProbeAccounted, InFlight
  <2> QED
    BY <2>2, <2>3, <2>4
<1>2. ASSUME NEW w \in Workers, CanProceedJudge(w)
      PROVE  IInv'
  <2>1. CASE Return(w)
    <3>1. TypeOK'
      BY <1>2, <2>1, ReturnLemma DEF CanProceedJudge, TypeOK
    <3>2. RowsConsistent'
      BY <1>2, <2>1, ReturnLemma DEF CanProceedJudge, RowsConsistent
    <3>3. ProbeAccounted'
      BY <1>2, <2>1, ReturnLemma DEF CanProceedJudge, ProbeAccounted, InFlight
    <3> QED
      BY <3>1, <3>2, <3>3
  <2>2. CASE UNCHANGED <<sig, snap, ok>> /\ \E p \in {"claim", "running"} :
                pc' = [pc EXCEPT ![w] = p]
    <3>1. TypeOK'
      BY <1>2, <2>2 DEF CanProceedJudge, TypeOK
    <3>2. RowsConsistent'
      BY <1>2, <2>2 DEF CanProceedJudge, RowsConsistent
    <3>3. ProbeAccounted'
      BY <1>2, <2>2 DEF CanProceedJudge, ProbeAccounted, InFlight, TypeOK
    <3> QED
      BY <3>1, <3>2, <3>3
  <2> QED
    BY <1>2, <2>1, <2>2 DEF CanProceedJudge, Admit
<1>3. ASSUME NEW w \in Workers, TryClaimHalfOpen(w)
      PROVE  IInv'
  <2> DEFINE s == sig[w]
  <2>0. s \in Sigs
    BY <1>3 DEF TryClaimHalfOpen, TypeOK
  <2>1. CASE Return(w) /\ UNCHANGED <<row, prober>>
    <3>1. TypeOK'
      BY <1>3, <2>1, ReturnLemma DEF TryClaimHalfOpen, TypeOK
    <3>2. RowsConsistent'
      BY <1>3, <2>1, ReturnLemma DEF TryClaimHalfOpen, RowsConsistent
    <3>3. ProbeAccounted'
      BY <1>3, <2>1, ReturnLemma DEF TryClaimHalfOpen, ProbeAccounted, InFlight
    <3> QED
      BY <3>1, <3>2, <3>3
  <2>2. CASE Admit(w) /\ UNCHANGED <<row, prober>>
    <3>1. TypeOK'
      BY <1>3, <2>2 DEF TryClaimHalfOpen, Admit, TypeOK
    <3>2. RowsConsistent'
      BY <1>3, <2>2 DEF TryClaimHalfOpen, Admit, RowsConsistent
    <3>3. ProbeAccounted'
      BY <1>3, <2>2 DEF TryClaimHalfOpen, Admit, ProbeAccounted, InFlight, TypeOK
    <3> QED
      BY <3>1, <3>2, <3>3
  <2>3. CASE /\ ~ClaimRefused(row[s])
             /\ row[s].state # "CLOSED"
             /\ row' = [row EXCEPT ![s] = RowOf("HALF_OPEN", @.failures, @.age, 1)]
             /\ prober' = [prober EXCEPT ![s] = w]
             /\ Admit(w)
    <3> DEFINE r == RowOf("HALF_OPEN", row[s].failures, row[s].age, 1)
    <3>1. row' = [row EXCEPT ![s] = r]
      BY <2>0, <2>3 DEF TypeOK
    <3>2. row[s].state \in {"OPEN", "HALF_OPEN"}
      BY <2>0, <2>3 DEF TypeOK, ClaimRefused, Rows, States
    <3>3. r \in Rows /\ ConsistentRow(r) /\ r.state = "HALF_OPEN"
      BY <2>0, <3>2 DEF TypeOK, RowsConsistent, ConsistentRow, RowOf, Rows, States
    <3>4. TypeOK'
      BY <1>3, <2>0, <2>3, <3>1, <3>3 DEF TryClaimHalfOpen, Admit, TypeOK
    <3>5. RowsConsistent'
      BY <1>3, <2>0, <2>3, <3>1, <3>3 DEF TryClaimHalfOpen, Admit, TypeOK, RowsConsistent
    <3>6. ProbeAccounted'
      <4> SUFFICES ASSUME NEW q \in Sigs
                   PROVE  /\ (row[q].state = "HALF_OPEN" <=> prober[q] # Nobody)'
                          /\ (prober[q] \in Workers => InFlight(prober[q], q))'
        BY DEF ProbeAccounted
      <4>1. CASE q = s
        BY <1>3, <2>0, <2>3, <3>1, <3>3, <4>1 DEF TypeOK, Admit, InFlight
      <4>2. CASE q # s
        BY <1>3, <2>0, <2>3, <3>1, <4>2
        DEF TypeOK, Admit, InFlight, ProbeAccounted
      <4> QED
        BY <4>1, <4>2
    <3> QED
      BY <3>4, <3>5, <3>6
  <2> QED
    BY <1>3, <2>1, <2>2, <2>3 DEF TryClaimHalfOpen
<1>4. ASSUME NEW w \in Workers, NEW success \in BOOLEAN, RecordRead(w, success)
      PROVE  IInv'
  <2>0. sig[w] \in Sigs
    BY <1>4 DEF RecordRead, TypeOK
  <2>1. Read(sig[w]) \in Rows /\ ConsistentRow(Read(sig[w]))
    BY <2>0, ReadLemma DEF TypeOK, RowsConsistent
  <2>2. TypeOK'
    BY <1>4, <2>1 DEF RecordRead, TypeOK
  <2>3. RowsConsistent'
    BY <1>4, <2>1 DEF RecordRead, TypeOK, RowsConsistent
  <2>4. ProbeAccounted'
    BY <1>4 DEF RecordRead, TypeOK, ProbeAccounted, InFlight
  <2> QED
    BY <2>2, <2>3, <2>4
<1>5. ASSUME NEW w \in Workers, RecordWrite(w)
      PROVE  IInv'
  <2> DEFINE s == sig[w]
             r == Recorded(snap[w], ok[w])
  <2>0. s \in Sigs
    BY <1>5 DEF RecordWrite, TypeOK
  <2>1. r \in Rows /\ ConsistentRow(r) /\ r.state # "HALF_OPEN"
    BY RecordedLemma DEF TypeOK, RowsConsistent
  <2>2. \A n \in 0..MaxFailures : Bump(n) \in 0..MaxFailures
    BY DEF Bump
  <2>3. /\ row' = [row EXCEPT ![s] = r]
        /\ prober' = [prober EXCEPT ![s] = Nobody]
        /\ streak' = [streak EXCEPT ![s] = IF ok[w] THEN 0 ELSE Bump(@)]
        /\ forgotten' \in [Sigs -> BOOLEAN]
        /\ Return(w)
        /\ UNCHANGED restarts
    BY <1>5 DEF RecordWrite, TypeOK
  <2>4. TypeOK'
    BY <2>0, <2>1, <2>2, <2>3, ReturnLemma DEF TypeOK
  <2>5. RowsConsistent'
    BY <2>0, <2>1, <2>3, ReturnLemma DEF TypeOK, RowsConsistent
  <2>6. ProbeAccounted'
    <3> SUFFICES ASSUME NEW q \in Sigs
                 PROVE  /\ (row[q].state = "HALF_OPEN" <=> prober[q] # Nobody)'
                        /\ (prober[q] \in Workers => InFlight(prober[q], q))'
      BY DEF ProbeAccounted
    <3>1. CASE q = s
      BY <2>0, <2>1, <2>3, <3>1 DEF TypeOK
    <3>2. CASE q # s
      BY <2>0, <2>3, <3>2, ReturnLemma DEF TypeOK, InFlight, ProbeAccounted
    <3> QED
      BY <3>1, <3>2
  <2> QED
    BY <2>4, <2>5, <2>6
<1>6. ASSUME NEW w \in Workers, PipelineRaises(w)
      PROVE  IInv'
  <2>1. TypeOK'
    BY <1>6, ReturnLemma DEF PipelineRaises, LoseProbes, TypeOK
  <2>2. RowsConsistent'
    BY <1>6, ReturnLemma DEF PipelineRaises, RowsConsistent
  <2>3. ProbeAccounted'
    BY <1>6, ReturnLemma
    DEF PipelineRaises, LoseProbes, TypeOK, ProbeAccounted, InFlight
  <2> QED
    BY <2>1, <2>2, <2>3
<1>7. CASE Restart
  <2>0. Default \in Rows /\ ConsistentRow(Default)
    BY DEF Default, RowOf, Rows, ConsistentRow, States, Ages
  <2>1. TypeOK'
    BY <1>7, <2>0 DEF Restart, LoseProbes, TypeOK
  <2>2. RowsConsistent'
    BY <1>7, <2>0 DEF Restart, RowsConsistent
  <2>3. ProbeAccounted'
    BY <1>7 DEF Restart, LoseProbes, TypeOK, ProbeAccounted
  <2> QED
    BY <2>1, <2>2, <2>3
<1>8. ASSUME NEW s \in Sigs, MaintenanceDelete(s)
      PROVE  IInv'
  <2>0. NoRow \in Rows /\ ConsistentRow(NoRow) /\ NoRow.state = "ABSENT"
    BY DEF NoRow, RowOf, Rows, ConsistentRow, States, Ages
  <2>1. TypeOK'
    BY <1>8, <2>0 DEF MaintenanceDelete, TypeOK
  <2>2. RowsConsistent'
    BY <1>8, <2>0 DEF MaintenanceDelete, TypeOK, RowsConsistent
  <2>3. ProbeAccounted'
    BY <1>8, <2>0 DEF MaintenanceDelete, TypeOK, ProbeAccounted, InFlight
  <2> QED
    BY <2>1, <2>2, <2>3
<1>9. CASE Tick
  <2>1. /\ \A s \in Sigs : /\ Older(row[s]) \in Rows
                           /\ ConsistentRow(Older(row[s]))
                           /\ Older(row[s]).state = row[s].state
        /\ \A w \in Workers : Older(snap[w]) \in Rows /\ ConsistentRow(Older(snap[w]))
    BY OlderLemma DEF TypeOK, RowsConsistent
  <2>2. TypeOK'
    BY <1>9, <2>1 DEF Tick, TypeOK
  <2>3. RowsConsistent'
    BY <1>9, <2>1 DEF Tick, RowsConsistent
  <2>4. ProbeAccounted'
    BY <1>9, <2>1 DEF Tick, ProbeAccounted, InFlight
  <2> QED
    BY <2>2, <2>3, <2>4
<1>10. CASE UNCHANGED vars
  BY <1>10 DEF vars, TypeOK, RowsConsistent, ProbeAccounted, InFlight
<1> QED
  BY <1>1, <1>2, <1>3, <1>4, <1>5, <1>6, <1>7, <1>8, <1>9, <1>10 DEF Next, WorkerStep

\* The inductive invariant holds in every reachable state.
THEOREM InductiveInvariant == Spec => []IInv
  BY InitIInv, StepIInv, PTL DEF Spec

\* Every variable keeps its type.
THEOREM TypeCorrect == Spec => []TypeOK
  BY InductiveInvariant, PTL DEF IInv

\* No interleaving of claims, stale record_result writes, faults and restarts
\* stores an OPEN row without opened_at, a CLOSED row at the threshold, or a
\* probe flag outside HALF_OPEN.
THEOREM RowsStayConsistent == Spec => []RowsConsistent
  BY InductiveInvariant, PTL DEF IInv

\* A HALF_OPEN row always belongs to one outstanding probe.
THEOREM ProbesAccounted == Spec => []ProbeAccounted
  BY InductiveInvariant, PTL DEF IInv

-----------------------------------------------------------------------------
\* The step behind OneProbeAtATime: only a claim hands out a probe, and a claim
\* needs the flag down, so the row is not HALF_OPEN and no probe is out.
LEMMA OneProbeStep ==
    ASSUME IInv, Next, NEW s \in Sigs,
           prober'[s] \in Workers, prober'[s] # prober[s]
    PROVE  prober[s] = Nobody
<1> USE BreakerAssumption
<1> USE DEF IInv
<1>1. ASSUME NEW w \in Workers, TryClaimHalfOpen(w)
      PROVE  prober[s] = Nobody
  <2>1. /\ ~ClaimRefused(row[s])
        /\ row[s].state # "CLOSED"
    BY <1>1 DEF TryClaimHalfOpen, TypeOK
  <2>2. row[s].tip = 0
    BY <2>1 DEF ClaimRefused, TypeOK, Rows
  <2>3. row[s].state # "HALF_OPEN"
    BY <2>2 DEF RowsConsistent, ConsistentRow
  <2> QED
    BY <2>3 DEF ProbeAccounted
<1>2. ASSUME NEW w \in Workers, RecordWrite(w)
      PROVE  FALSE
  BY <1>2 DEF RecordWrite, TypeOK
<1>3. ASSUME NEW w \in Workers, PipelineRaises(w)
      PROVE  FALSE
  BY <1>3 DEF PipelineRaises, LoseProbes
<1>4. CASE Restart
  BY <1>4 DEF Restart, LoseProbes
<1>5. ASSUME NEW w \in Workers, NEW q \in Sigs, CanProceedRead(w, q)
      PROVE  FALSE
  BY <1>5 DEF CanProceedRead
<1>6. ASSUME NEW w \in Workers, CanProceedJudge(w)
      PROVE  FALSE
  BY <1>6 DEF CanProceedJudge
<1>7. ASSUME NEW w \in Workers, NEW success \in BOOLEAN, RecordRead(w, success)
      PROVE  FALSE
  BY <1>7 DEF RecordRead
<1>8. ASSUME NEW q \in Sigs, MaintenanceDelete(q)
      PROVE  FALSE
  BY <1>8 DEF MaintenanceDelete
<1>9. CASE Tick
  BY <1>9 DEF Tick
<1> QED
  BY <1>1, <1>2, <1>3, <1>4, <1>5, <1>6, <1>7, <1>8, <1>9 DEF Next, WorkerStep

\* The exclusive transaction of _try_claim_half_open gives the test request to
\* one worker until a result is recorded (circuit_breaker.py:15-17).
THEOREM ProbesAreExclusive == Spec => OneProbeAtATime
<1>1. IInv /\ [Next]_vars =>
        [\A s \in Sigs :
            prober'[s] \in Workers /\ prober'[s] # prober[s] => prober[s] = Nobody]_vars
  BY OneProbeStep
<1> QED
  BY <1>1, InductiveInvariant, PTL DEF Spec, OneProbeAtATime

-----------------------------------------------------------------------------
\* A wedged row is HALF_OPEN with its flag up, and no worker acts on an older
\* reading of it that would let it through.
LEMMA WedgedRow ==
    ASSUME IInv, NEW s \in Sigs, Wedged(s)
    PROVE  /\ row[s].state = "HALF_OPEN"
           /\ ClaimRefused(row[s])
           /\ Read(s).state = "HALF_OPEN"
           /\ \A w \in Workers : sig[w] = s =>
                 /\ pc[w] \in {"judge", "claim"}
                 /\ pc[w] = "judge" => snap[w].state # "CLOSED"
<1> USE BreakerAssumption
<1> USE DEF IInv
<1>1. row[s].state = "HALF_OPEN" /\ row[s].tip = 1
  BY DEF Wedged, ProbeAccounted, RowsConsistent, ConsistentRow
<1>2. ClaimRefused(row[s]) /\ Read(s).state = "HALF_OPEN"
  BY <1>1 DEF ClaimRefused, Read, NoRow, RowOf
<1>3. ASSUME NEW w \in Workers, sig[w] = s
      PROVE  /\ pc[w] \in {"judge", "claim"}
             /\ pc[w] = "judge" => snap[w].state # "CLOSED"
  <2>1. pc[w] # "idle"
    BY <1>3 DEF TypeOK
  <2> QED
    BY <1>3, <2>1 DEF Wedged, Admitted, InFlight, TypeOK
<1> QED
  BY <1>1, <1>2, <1>3

LEMMA WedgedStep ==
    ASSUME IInv, Next, NEW s \in Sigs, Wedged(s)
    PROVE  Wedged(s)' /\ row'[s].state = "HALF_OPEN"
<1> USE BreakerAssumption, WedgedRow
<1> USE DEF IInv
<1>0. prober[s] = Lost /\ \A v \in Workers : ~Admitted(v, s)
  BY DEF Wedged
<1>1. ASSUME NEW w \in Workers, NEW q \in Sigs, CanProceedRead(w, q)
      PROVE  Wedged(s)' /\ row'[s].state = "HALF_OPEN"
  BY <1>0, <1>1 DEF CanProceedRead, Wedged, Admitted, InFlight, TypeOK
<1>2. ASSUME NEW w \in Workers, CanProceedJudge(w)
      PROVE  Wedged(s)' /\ row'[s].state = "HALF_OPEN"
  <2>1. CASE Return(w)
    BY <1>0, <1>2, <2>1, ReturnLemma
    DEF CanProceedJudge, Wedged, Admitted, InFlight
  <2>2. CASE Admit(w) /\ snap[w].state = "CLOSED"
    <3>1. sig[w] # s
      BY <1>2, <2>2 DEF CanProceedJudge
    <3> QED
      BY <1>0, <1>2, <2>2, <3>1
      DEF CanProceedJudge, Admit, Wedged, Admitted, InFlight, TypeOK
  <2>3. CASE UNCHANGED <<sig, snap, ok>> /\ pc' = [pc EXCEPT ![w] = "claim"]
    BY <1>0, <1>2, <2>3
    DEF CanProceedJudge, Wedged, Admitted, InFlight, TypeOK
  <2> QED
    BY <1>2, <2>1, <2>2, <2>3 DEF CanProceedJudge
<1>3. ASSUME NEW w \in Workers, TryClaimHalfOpen(w)
      PROVE  Wedged(s)' /\ row'[s].state = "HALF_OPEN"
  <2>1. CASE Return(w) /\ UNCHANGED <<row, prober>>
    BY <1>0, <1>3, <2>1, ReturnLemma
    DEF TryClaimHalfOpen, Wedged, Admitted, InFlight
  <2>2. CASE sig[w] # s /\ Admit(w)
    BY <1>0, <1>3, <2>2, ReturnLemma
    DEF TryClaimHalfOpen, Admit, Wedged, Admitted, InFlight, TypeOK
  <2>3. sig[w] = s => ~Admit(w)
    BY <1>3 DEF TryClaimHalfOpen, Admit, Return, TypeOK
  <2> QED
    BY <1>3, <2>1, <2>2, <2>3 DEF TryClaimHalfOpen
<1>4. ASSUME NEW w \in Workers, NEW success \in BOOLEAN, RecordRead(w, success)
      PROVE  Wedged(s)' /\ row'[s].state = "HALF_OPEN"
  <2>1. sig[w] # s
    BY <1>4 DEF RecordRead
  <2> QED
    BY <1>0, <1>4, <2>1 DEF RecordRead, Wedged, Admitted, InFlight, TypeOK
<1>5. ASSUME NEW w \in Workers, RecordWrite(w)
      PROVE  Wedged(s)' /\ row'[s].state = "HALF_OPEN"
  <2>1. sig[w] # s
    BY <1>5 DEF RecordWrite
  <2> QED
    BY <1>0, <1>5, <2>1, ReturnLemma
    DEF RecordWrite, Wedged, Admitted, InFlight, TypeOK
<1>6. ASSUME NEW w \in Workers, PipelineRaises(w)
      PROVE  Wedged(s)' /\ row'[s].state = "HALF_OPEN"
  BY <1>0, <1>6, ReturnLemma
  DEF PipelineRaises, LoseProbes, Wedged, Admitted, InFlight
<1>7. CASE Restart
  BY <1>0, <1>7 DEF Restart, LoseProbes, Wedged, Admitted, InFlight
<1>8. ASSUME NEW q \in Sigs, MaintenanceDelete(q)
      PROVE  Wedged(s)' /\ row'[s].state = "HALF_OPEN"
  BY <1>0, <1>8 DEF MaintenanceDelete, Wedged, Admitted, InFlight, TypeOK
<1>9. CASE Tick
  <2>1. /\ \A q \in Sigs : Older(row[q]).state = row[q].state
        /\ \A w \in Workers : Older(snap[w]).state = snap[w].state
    BY OlderLemma DEF TypeOK, RowsConsistent
  <2> QED
    BY <1>0, <1>9, <2>1 DEF Tick, Wedged, Admitted, InFlight
<1> QED
  BY <1>1, <1>2, <1>3, <1>4, <1>5, <1>6, <1>7, <1>8, <1>9 DEF Next, WorkerStep

\* A lost test request blocks its signature for good: no timeout, restart,
\* maintenance run or later call ever takes the row out of HALF_OPEN.
THEOREM LostProbeWedges == Spec => WedgedForGood
<1>1. IInv /\ [Next]_vars =>
        [\A s \in Sigs : Wedged(s) => Wedged(s)' /\ row'[s].state = "HALF_OPEN"]_vars
  BY WedgedStep
<1> QED
  BY <1>1, InductiveInvariant, PTL DEF Spec, WedgedForGood

-----------------------------------------------------------------------------
\* Whoever goes on to _try_claim_half_open has judged its row due for a test.
ClaimsLookDue == \A w \in Workers : pc[w] = "claim" => MayProbe(snap[w])

LEMMA StepClaims == IInv /\ ClaimsLookDue /\ [Next]_vars => ClaimsLookDue'
<1> SUFFICES ASSUME IInv, ClaimsLookDue, [Next]_vars PROVE ClaimsLookDue'
  OBVIOUS
<1> USE BreakerAssumption
<1>0. TypeOK /\ RowsConsistent
  BY DEF IInv
<1>1. ASSUME NEW w \in Workers, NEW s \in Sigs, CanProceedRead(w, s)
      PROVE  ClaimsLookDue'
  BY <1>0, <1>1 DEF CanProceedRead, ClaimsLookDue, TypeOK, MayProbe
<1>2. ASSUME NEW w \in Workers, CanProceedJudge(w)
      PROVE  ClaimsLookDue'
  <2>1. CASE Return(w)
    BY <1>0, <1>2, <2>1, ReturnLemma DEF CanProceedJudge, ClaimsLookDue, MayProbe
  <2>2. CASE Admit(w)
    BY <1>0, <1>2, <2>2 DEF CanProceedJudge, Admit, ClaimsLookDue, TypeOK, MayProbe
  <2>3. CASE /\ MayProbe(snap[w])
             /\ pc' = [pc EXCEPT ![w] = "claim"]
             /\ UNCHANGED <<sig, snap, ok>>
    BY <1>0, <1>2, <2>3 DEF CanProceedJudge, ClaimsLookDue, TypeOK, MayProbe
  <2> QED
    BY <1>2, <2>1, <2>2, <2>3 DEF CanProceedJudge
<1>3. ASSUME NEW w \in Workers, Return(w)
      PROVE  ClaimsLookDue'
  BY <1>0, <1>3, ReturnLemma DEF ClaimsLookDue, MayProbe
<1>4. ASSUME NEW w \in Workers, Admit(w)
      PROVE  ClaimsLookDue'
  BY <1>0, <1>4 DEF Admit, ClaimsLookDue, TypeOK, MayProbe
<1>5. ASSUME NEW w \in Workers, NEW success \in BOOLEAN, RecordRead(w, success)
      PROVE  ClaimsLookDue'
  BY <1>0, <1>5 DEF RecordRead, ClaimsLookDue, TypeOK, MayProbe
<1>6. CASE Restart
  BY <1>6 DEF Restart, ClaimsLookDue
<1>7. ASSUME NEW s \in Sigs, MaintenanceDelete(s)
      PROVE  ClaimsLookDue'
  BY <1>7 DEF MaintenanceDelete, ClaimsLookDue, MayProbe
<1>8. CASE Tick
  <2>1. \A w \in Workers : MayProbe(snap[w]) => MayProbe(Older(snap[w]))
    BY <1>0 DEF MayProbe, Older, TypeOK, Rows, Ages
  <2> QED
    BY <1>8, <2>1 DEF Tick, ClaimsLookDue
<1>9. CASE UNCHANGED vars
  BY <1>9 DEF vars, ClaimsLookDue, MayProbe
<1>10. \A w \in Workers : TryClaimHalfOpen(w) => Return(w) \/ Admit(w)
  BY DEF TryClaimHalfOpen
<1>11. \A w \in Workers : RecordWrite(w) \/ PipelineRaises(w) => Return(w)
  BY DEF RecordWrite, PipelineRaises
<1> QED
  BY <1>1, <1>2, <1>3, <1>4, <1>5, <1>6, <1>7, <1>8, <1>9, <1>10, <1>11
  DEF Next, WorkerStep

\* A test request is given to the worker whose claim the transaction grants.
LEMMA TestIsClaimed ==
    ASSUME IInv, Next, NEW w \in Workers, NEW s \in Sigs, prober'[s] = w, prober[s] # w
    PROVE  TryClaimHalfOpen(w) /\ sig[w] = s /\ ~ClaimRefused(row[s])
<1> USE BreakerAssumption
<1>0. TypeOK /\ w # Nobody /\ w # Lost
  BY DEF IInv
<1>1. ASSUME NEW v \in Workers, TryClaimHalfOpen(v)
      PROVE  v = w /\ sig[w] = s /\ ~ClaimRefused(row[s])
  BY <1>0, <1>1 DEF TryClaimHalfOpen, TypeOK
<1>2. ASSUME NEW v \in Workers, RecordWrite(v)
      PROVE  FALSE
  BY <1>0, <1>2 DEF RecordWrite, TypeOK
<1>3. ASSUME NEW v \in Workers, PipelineRaises(v)
      PROVE  FALSE
  BY <1>0, <1>3 DEF PipelineRaises, LoseProbes
<1>4. ~Restart
  BY <1>0 DEF Restart, LoseProbes
<1>5. UNCHANGED prober => FALSE
  OBVIOUS
<1>6. /\ \A v \in Workers, q \in Sigs : ~CanProceedRead(v, q)
      /\ \A v \in Workers : ~CanProceedJudge(v)
      /\ \A v \in Workers, b \in BOOLEAN : ~RecordRead(v, b)
      /\ \A q \in Sigs : ~MaintenanceDelete(q)
      /\ ~Tick
  BY <1>5 DEF CanProceedRead, CanProceedJudge, RecordRead, MaintenanceDelete, Tick
<1> QED
  BY <1>1, <1>2, <1>3, <1>4, <1>6 DEF Next, WorkerStep

\* For any number of workers, a test request before OPEN_TIMEOUT_SEC goes only
\* to a worker whose row was rewritten after it had judged it
\* (circuit_breaker.py:130-158, 160-203): the transaction looks at the state and
\* at test_in_progress, the time was looked at before.
THEOREM EarlyTestsComeFromRaces == Spec => EarlyTestsAreRaces
<1>1. Init => ClaimsLookDue
  BY DEF Init, ClaimsLookDue
<1>2. IInv /\ ClaimsLookDue /\ [Next]_vars =>
        [\A w \in Workers, s \in Sigs :
            prober'[s] = w /\ prober[s] # w
              => row[s].age = OPEN_TIMEOUT_SEC \/ row[s] # snap[w]]_vars
  <2> SUFFICES ASSUME IInv, ClaimsLookDue, Next,
                      NEW w \in Workers, NEW s \in Sigs,
                      prober'[s] = w, prober[s] # w, row[s] = snap[w]
               PROVE  row[s].age = OPEN_TIMEOUT_SEC
    OBVIOUS
  <2>1. pc[w] = "claim" /\ ~ClaimRefused(row[s])
    BY TestIsClaimed DEF TryClaimHalfOpen
  <2>2. MayProbe(row[s])
    BY <2>1 DEF ClaimsLookDue
  <2>3. row[s] \in Rows /\ ConsistentRow(row[s])
    BY DEF IInv, TypeOK, RowsConsistent
  <2> QED
    BY <2>1, <2>2, <2>3, BreakerAssumption
    DEF MayProbe, ClaimRefused, ConsistentRow, Rows, Ages, States
<1> QED
  BY <1>1, <1>2, StepClaims, InductiveInvariant, PTL DEF Spec, EarlyTestsAreRaces

-----------------------------------------------------------------------------
(* One worker                                                              *)

OneWorker == \A v, w \in Workers : v = w

\* What a call has read is what is stored, unless maintenance deleted the row
\* meanwhile; and a call that was let through finds the circuit not OPEN.
Fresh(w) ==
    \/ snap[w] = Read(sig[w])
    \/ row[sig[w]].state = "ABSENT" /\ snap[w].state = "CLOSED"

\* n failures are recorded for s, or were before maintenance deleted some.
Counted(n, s) == n <= streak[s] /\ (~forgotten[s] => n = streak[s])

OneReader ==
    \A w \in Workers :
        /\ pc[w] \in {"judge", "claim", "write"} => Fresh(w)
        /\ pc[w] \in {"running", "write"} => Read(sig[w]).state # "OPEN"
        /\ pc[w] = "write" => Counted(snap[w].failures, sig[w])

\* The inductive invariant of a single worker.
SeqInv == IInv /\ ClaimsLookDue /\ OneReader /\ CountIsStreak

-----------------------------------------------------------------------------
\* Ageing a row and reading it commute, so that a fresh snapshot stays fresh.
LEMMA ReadOlder ==
    ASSUME NEW r \in Rows, ConsistentRow(r)
    PROVE  /\ (IF Older(r).state = "ABSENT" THEN Default ELSE Older(r))
                = Older(IF r.state = "ABSENT" THEN Default ELSE r)
           /\ Older(r).failures = r.failures
           /\ Older(r).tip = r.tip
           /\ Older(r).age = IF r.age = Null \/ r.age = OPEN_TIMEOUT_SEC
                             THEN r.age ELSE r.age + 1
<1>1. Older(Default) = Default
  BY BreakerAssumption DEF Older, Default, RowOf
<1>2. Older(r).state = r.state
  BY OlderLemma
<1>3. /\ Older(r).failures = r.failures
      /\ Older(r).tip = r.tip
      /\ Older(r).age = IF r.age = Null \/ r.age = OPEN_TIMEOUT_SEC
                        THEN r.age ELSE r.age + 1
  BY DEF Older, Rows
<1> QED
  BY <1>1, <1>2, <1>3

\* Every recorded count is Counted.
LEMMA StreakCounted == CountIsStreak <=> \A s \in Sigs : Counted(Read(s).failures, s)
  BY DEF CountIsStreak, Counted

\* Each step keeps what a single worker holds and the count.
LEMMA StepOneWorker == OneWorker /\ SeqInv /\ [Next]_vars => OneReader' /\ CountIsStreak'
<1> SUFFICES ASSUME OneWorker, SeqInv, [Next]_vars
             PROVE  OneReader' /\ CountIsStreak'
  OBVIOUS
<1> USE BreakerAssumption
<1>0. /\ IInv /\ TypeOK /\ RowsConsistent /\ ClaimsLookDue /\ OneReader
      /\ \A s \in Sigs : Counted(Read(s).failures, s)
  BY StreakCounted DEF SeqInv, IInv
<1>1. ASSUME NEW w \in Workers, NEW s \in Sigs, CanProceedRead(w, s)
      PROVE  OneReader' /\ CountIsStreak'
  <2>1. \A v \in Workers : v = w
    BY DEF OneWorker
  <2>2. OneReader'
    BY <1>0, <1>1, <2>1 DEF CanProceedRead, OneReader, Fresh, Read, TypeOK
  <2>3. CountIsStreak'
    BY <1>1 DEF SeqInv, CanProceedRead, CountIsStreak, Read
  <2> QED
    BY <2>2, <2>3
<1>2. ASSUME NEW w \in Workers, CanProceedJudge(w)
      PROVE  OneReader' /\ CountIsStreak'
  <2>1. \A v \in Workers : v = w
    BY DEF OneWorker
  <2>2. CountIsStreak'
    BY <1>2 DEF SeqInv, CanProceedJudge, CountIsStreak, Read
  <2>3. CASE Return(w)
    <3>1. pc'[w] = "idle"
      BY <1>0, <2>3, ReturnLemma
    <3> QED
      BY <2>1, <2>2, <3>1 DEF OneReader
  <2>4. CASE Admit(w) /\ snap[w].state = "CLOSED"
    <3>1. Read(sig[w]).state # "OPEN"
      BY <1>0, <1>2, <2>4 DEF OneReader, Fresh, CanProceedJudge, Read, Default, RowOf
    <3>2. OneReader'
      BY <1>0, <1>2, <2>1, <2>4, <3>1
      DEF CanProceedJudge, Admit, OneReader, Read, TypeOK
    <3> QED
      BY <2>2, <3>2
  <2>5. CASE /\ MayProbe(snap[w])
             /\ pc' = [pc EXCEPT ![w] = "claim"]
             /\ UNCHANGED <<sig, snap, ok>>
    <3>1. OneReader'
      BY <1>0, <1>2, <2>1, <2>5 DEF CanProceedJudge, OneReader, Fresh, Read, TypeOK
    <3> QED
      BY <2>2, <3>1
  <2> QED
    BY <1>2, <2>3, <2>4, <2>5 DEF CanProceedJudge
<1>3. ASSUME NEW w \in Workers, TryClaimHalfOpen(w)
      PROVE  OneReader' /\ CountIsStreak'
  <2>0. PICK s \in Sigs : s = sig[w]
    BY <1>0, <1>3 DEF TryClaimHalfOpen, TypeOK
  <2> DEFINE r == RowOf("HALF_OPEN", row[s].failures, row[s].age, 1)
  <2>1. \A v \in Workers : v = w
    BY DEF OneWorker
  <2>2. row[s] \in Rows
    BY <1>0 DEF TypeOK
  <2>3. CASE Return(w) /\ UNCHANGED <<row, prober>>
    <3>1. pc'[w] = "idle"
      BY <1>0, <2>3, ReturnLemma
    <3>2. CountIsStreak'
      BY <1>3, <2>3 DEF SeqInv, TryClaimHalfOpen, CountIsStreak, Read
    <3> QED
      BY <2>1, <3>1, <3>2 DEF OneReader
  <2>4. CASE row[s].state = "CLOSED" /\ Admit(w) /\ UNCHANGED <<row, prober>>
    <3>1. Read(s).state = "CLOSED"
      BY <2>4 DEF Read
    <3>2. OneReader'
      BY <1>0, <1>3, <2>0, <2>1, <2>4, <3>1
      DEF TryClaimHalfOpen, Admit, OneReader, Read, TypeOK
    <3>3. CountIsStreak'
      BY <1>3, <2>4 DEF SeqInv, TryClaimHalfOpen, CountIsStreak, Read
    <3> QED
      BY <3>2, <3>3
  <2>5. CASE /\ row' = [row EXCEPT ![s] = r]
             /\ row[s].state # "CLOSED" /\ ~ClaimRefused(row[s])
             /\ Admit(w)
    <3>1. r.state = "HALF_OPEN" /\ r.failures = row[s].failures /\ r.state # "ABSENT"
      BY DEF RowOf
    <3>2. row[s].state # "ABSENT"
      BY <2>5 DEF ClaimRefused
    <3>3. Read(s)' = r /\ \A q \in Sigs \ {s} : Read(q)' = Read(q)
      BY <1>0, <2>2, <2>5, <3>1 DEF Read, TypeOK
    <3>4. OneReader'
      <4>1. pc'[w] = "running" /\ sig'[w] = s
        BY <1>0, <1>3, <2>0, <2>5 DEF Admit, TypeOK
      <4>2. Read(s)'.state # "OPEN"
        BY <3>1, <3>3
      <4>3. Read(sig[w])' = Read(s)'
        BY <4>1 DEF Read
      <4> QED
        BY <2>1, <4>1, <4>2, <4>3 DEF OneReader
    <3>5. Read(s).failures = row[s].failures
      BY <3>2 DEF Read
    <3>6. UNCHANGED <<streak, forgotten>>
      BY <1>3 DEF TryClaimHalfOpen
    <3>7. CountIsStreak'
      BY <3>1, <3>3, <3>5, <3>6 DEF SeqInv, CountIsStreak
    <3> QED
      BY <3>4, <3>7
  <2> QED
    BY <1>3, <2>0, <2>3, <2>4, <2>5 DEF TryClaimHalfOpen
<1>4. ASSUME NEW w \in Workers, NEW success \in BOOLEAN, RecordRead(w, success)
      PROVE  OneReader' /\ CountIsStreak'
  <2>0. PICK s \in Sigs : s = sig[w]
    BY <1>0, <1>4 DEF RecordRead, TypeOK
  <2>1. \A v \in Workers : v = w
    BY DEF OneWorker
  <2>2. /\ pc'[w] = "write" /\ sig'[w] = s /\ snap'[w] = Read(s)
        /\ UNCHANGED <<row, streak, forgotten>>
    BY <1>0, <1>4, <2>0 DEF RecordRead, TypeOK
  <2>3. Read(sig[w])' = Read(s)
    BY <2>2 DEF Read
  <2>4. Read(s).state # "OPEN"
    BY <1>0, <1>4, <2>0 DEF RecordRead, OneReader
  <2>5. Fresh(w)'
    BY <2>2, <2>3 DEF Fresh
  <2>6. Counted(snap[w].failures, sig[w])'
    BY <1>0, <2>2 DEF Counted
  <2>7. OneReader'
    BY <2>1, <2>3, <2>4, <2>5, <2>6 DEF OneReader
  <2>8. CountIsStreak'
    BY <2>2 DEF SeqInv, CountIsStreak, Read
  <2> QED
    BY <2>7, <2>8
<1>5. ASSUME NEW w \in Workers, RecordWrite(w)
      PROVE  OneReader' /\ CountIsStreak'
  <2>0. PICK s \in Sigs : s = sig[w]
    BY <1>0, <1>5 DEF RecordWrite, TypeOK
  <2> DEFINE r == Recorded(snap[w], ok[w])
             n == snap[w].failures
  <2>1. \A v \in Workers : v = w
    BY DEF OneWorker
  <2>2. snap[w] \in Rows /\ ok[w] \in BOOLEAN
    BY <1>0 DEF TypeOK
  <2>3. /\ row' = [row EXCEPT ![s] = r]
        /\ streak' = [streak EXCEPT ![s] = IF ok[w] THEN 0 ELSE Bump(@)]
        /\ forgotten' = [forgotten EXCEPT ![s] = @ /\ ~ok[w]]
        /\ Return(w)
    BY <1>5, <2>0 DEF RecordWrite
  <2>4. /\ r.state # "ABSENT"
        /\ r.failures = IF ok[w] THEN 0 ELSE Bump(n)
    BY <2>2 DEF Recorded, Default, RowOf
  <2>5. Read(s)' = r /\ \A q \in Sigs \ {s} : Read(q)' = Read(q)
    BY <1>0, <2>2, <2>3, <2>4 DEF Read, TypeOK
  <2>6. Counted(n, s) /\ n \in 0..MaxFailures
    BY <1>0, <1>5, <2>0, <2>2 DEF RecordWrite, OneReader, Rows
  <2>7. OneReader'
    <3>1. pc'[w] = "idle"
      BY <1>0, <2>3, ReturnLemma
    <3> QED
      BY <2>1, <3>1 DEF OneReader
  <2>8. /\ streak'[s] = IF ok[w] THEN 0 ELSE Bump(streak[s])
        /\ forgotten'[s] = (forgotten[s] /\ ~ok[w])
        /\ \A q \in Sigs \ {s} : streak'[q] = streak[q] /\ forgotten'[q] = forgotten[q]
    BY <1>0, <2>3 DEF TypeOK
  <2>9. Counted(Read(s).failures, s)'
    <3>1. CASE ok[w]
      <4>1. Read(s)'.failures = 0 /\ streak'[s] = 0
        BY <2>4, <2>5, <2>8, <3>1
      <4> QED
        BY <4>1 DEF Counted
    <3>2. CASE ~ok[w]
      <4>1. Read(s)'.failures = Bump(n) /\ streak'[s] = Bump(streak[s])
        BY <2>4, <2>5, <2>8, <3>2
      <4>2. ~forgotten'[s] => ~forgotten[s]
        BY <2>8, <3>2
      <4>3. streak[s] \in 0..MaxFailures
        BY <1>0 DEF TypeOK
      <4>4. Bump(n) <= Bump(streak[s])
        BY <2>6, <4>3 DEF Counted, Bump
      <4>5. ~forgotten[s] => Bump(n) = Bump(streak[s])
        BY <2>6 DEF Counted
      <4> QED
        BY <4>1, <4>2, <4>4, <4>5 DEF Counted
    <3> QED
      BY <3>1, <3>2
  <2>10. ASSUME NEW q \in Sigs \ {s}
         PROVE  Counted(Read(q).failures, q)'
    BY <1>0, <2>5, <2>8 DEF Counted
  <2>11. CountIsStreak'
    BY <2>9, <2>10 DEF CountIsStreak, Counted
  <2> QED
    BY <2>7, <2>11
<1>6. ASSUME NEW w \in Workers, PipelineRaises(w)
      PROVE  OneReader' /\ CountIsStreak'
  <2>1. \A v \in Workers : v = w
    BY DEF OneWorker
  <2>2. pc'[w] = "idle"
    BY <1>0, <1>6, ReturnLemma DEF PipelineRaises
  <2>3. CountIsStreak'
    BY <1>6 DEF SeqInv, PipelineRaises, CountIsStreak, Read
  <2> QED
    BY <2>1, <2>2, <2>3 DEF OneReader
<1>7. CASE Restart
  BY <1>7 DEF SeqInv, Restart, OneReader, CountIsStreak, Read
<1>8. ASSUME NEW s \in Sigs, MaintenanceDelete(s)
      PROVE  OneReader' /\ CountIsStreak'
  <2>1. /\ row[s].state = "CLOSED" /\ row'[s] = NoRow
        /\ \A q \in Sigs \ {s} : row'[q] = row[q]
        /\ UNCHANGED <<pc, sig, snap, streak>>
    BY <1>0, <1>8 DEF MaintenanceDelete, TypeOK
  <2>2. /\ Read(s) = row[s] /\ Read(s)' = Default /\ row'[s].state = "ABSENT"
        /\ \A q \in Sigs \ {s} : Read(q)' = Read(q)
    BY <2>1 DEF Read, NoRow, RowOf
  <2>3. /\ ~forgotten'[s] => ~forgotten[s] /\ ~(row[s].failures > 0)
        /\ \A q \in Sigs \ {s} : forgotten'[q] = forgotten[q]
    BY <1>0, <1>8 DEF MaintenanceDelete, TypeOK
  <2>4. row[s].failures \in Nat /\ streak[s] \in Nat
    BY <1>0 DEF TypeOK, Rows
  <2>5. ASSUME NEW q \in Sigs, NEW n, Counted(n, q)
        PROVE  Counted(n, q)'
    BY <2>1, <2>3, <2>5 DEF Counted
  <2>6. ASSUME NEW w \in Workers, pc[w] # "idle"
        PROVE  /\ Fresh(w) => Fresh(w)'
               /\ Read(sig[w]).state # "OPEN" => Read(sig[w])'.state # "OPEN"
               /\ sig[w] \in Sigs
    <3>1. sig[w] \in Sigs
      BY <1>0, <2>6 DEF TypeOK
    <3>2. CASE sig[w] = s
      <4>1. Read(sig[w])' = Default
        BY <2>1, <2>2, <3>2 DEF Read
      <4> QED
        BY <2>1, <2>2, <3>1, <3>2, <4>1 DEF Fresh, Default, RowOf
    <3>3. CASE sig[w] # s
      <4>1. Read(sig[w])' = Read(sig[w])
        BY <2>1, <3>1, <3>3 DEF Read
      <4> QED
        BY <2>1, <3>1, <3>3, <4>1 DEF Fresh
    <3> QED
      BY <3>2, <3>3
  <2>7. OneReader'
    <3> SUFFICES ASSUME NEW w \in Workers
                 PROVE  /\ pc[w] \in {"judge", "claim", "write"} => Fresh(w)'
                        /\ pc[w] \in {"running", "write"} => Read(sig[w])'.state # "OPEN"
                        /\ pc[w] = "write" => Counted(snap[w].failures, sig[w])'
      BY <2>1 DEF OneReader
    <3>1. pc[w] = "write" => Counted(snap[w].failures, sig[w])'
      <4> SUFFICES ASSUME pc[w] = "write" PROVE Counted(snap[w].failures, sig[w])'
        OBVIOUS
      <4>1. sig[w] \in Sigs /\ Counted(snap[w].failures, sig[w])
        BY <1>0, <2>6 DEF OneReader
      <4>2. PICK q \in Sigs : q = sig[w]
        BY <4>1
      <4>3. snap'[w].failures = snap[w].failures /\ sig'[w] = q
        BY <2>1, <4>2
      <4>4. Counted(snap[w].failures, q)
        BY <4>1, <4>2
      <4>5. /\ snap[w].failures <= streak'[q]
            /\ ~forgotten'[q] => snap[w].failures = streak'[q]
        BY <2>1, <2>3, <4>4 DEF Counted
      <4> QED
        BY <4>3, <4>5 DEF Counted
    <3>2. pc[w] \in {"judge", "claim", "write"} => Fresh(w)'
      BY <1>0, <2>6 DEF OneReader
    <3>3. pc[w] \in {"running", "write"} => Read(sig[w])'.state # "OPEN"
      BY <1>0, <2>6 DEF OneReader
    <3> QED
      BY <3>1, <3>2, <3>3
  <2>8. Counted(Read(s).failures, s)'
    <3>1. Counted(row[s].failures, s)
      BY <1>0, <2>2
    <3>2. Read(s)'.failures = 0
      BY <2>2 DEF Default, RowOf
    <3> QED
      BY <2>1, <2>3, <2>4, <3>1, <3>2 DEF Counted
  <2>9. ASSUME NEW q \in Sigs \ {s}
        PROVE  Counted(Read(q).failures, q)'
    BY <1>0, <2>1, <2>2, <2>3 DEF Counted
  <2>10. CountIsStreak'
    BY <2>8, <2>9 DEF CountIsStreak, Counted
  <2> QED
    BY <2>7, <2>10
<1>9. CASE Tick
  <2>1. \A s \in Sigs : Read(s)' = Older(Read(s))
    BY <1>0, <1>9, ReadOlder DEF Tick, Read, TypeOK, RowsConsistent
  <2>2. \A s \in Sigs : /\ Older(Read(s)).failures = Read(s).failures
                        /\ Older(Read(s)).state = Read(s).state
    BY <1>0, ReadLemma, ReadOlder, OlderLemma DEF TypeOK, RowsConsistent
  <2>3. /\ \A w \in Workers : /\ snap'[w] = Older(snap[w])
                              /\ snap'[w].state = snap[w].state
                              /\ snap'[w].failures = snap[w].failures
        /\ \A s \in Sigs : row'[s].state = row[s].state
    BY <1>0, <1>9, ReadOlder, OlderLemma DEF Tick, TypeOK, RowsConsistent
  <2>4. \A w \in Workers : pc[w] # "idle" => sig[w] \in Sigs
    BY <1>0 DEF TypeOK
  <2>5. UNCHANGED <<pc, sig, streak, forgotten>>
    BY <1>9 DEF Tick
  <2>6. ASSUME NEW w \in Workers, pc[w] # "idle"
        PROVE  /\ Fresh(w) => Fresh(w)'
               /\ Read(sig[w])'.state = Read(sig[w]).state
    <3>1. PICK s \in Sigs : s = sig[w]
      BY <2>4, <2>6
    <3>2. Read(sig[w])' = Read(s)'
      BY <2>5, <3>1 DEF Read
    <3>3. row[sig[w]]' = row'[s]
      BY <2>5, <3>1
    <3> QED
      BY <2>1, <2>2, <2>3, <3>1, <3>2, <3>3 DEF Fresh
  <2>7. OneReader'
    BY <1>0, <2>3, <2>5, <2>6 DEF OneReader, Counted
  <2>8. CountIsStreak'
    BY <2>1, <2>2, <2>5 DEF SeqInv, CountIsStreak
  <2> QED
    BY <2>7, <2>8
<1>10. CASE UNCHANGED vars
  BY <1>10 DEF SeqInv, vars, OneReader, Fresh, Counted, CountIsStreak, Read
<1> QED
  BY <1>1, <1>2, <1>3, <1>4, <1>5, <1>6, <1>7, <1>8, <1>9, <1>10
  DEF Next, WorkerStep

LEMMA StepSeqInv == OneWorker /\ SeqInv /\ [Next]_vars => SeqInv'
  BY StepIInv, StepClaims, StepOneWorker DEF SeqInv

LEMMA InitSeqInv == Init => SeqInv
<1> SUFFICES ASSUME Init PROVE SeqInv
  OBVIOUS
<1>1. IInv
  BY InitIInv
<1>2. ClaimsLookDue /\ OneReader
  BY DEF Init, ClaimsLookDue, OneReader
<1>3. CountIsStreak
  BY DEF Init, CountIsStreak, Read, NoRow, Default, RowOf
<1> QED
  BY <1>1, <1>2, <1>3 DEF SeqInv

\* What one worker's steps keep.
LEMMA SeqInvariant ==
    ASSUME OneWorker
    PROVE  Spec => []SeqInv
<1>1. Init => SeqInv
  BY InitSeqInv
<1>2. SeqInv /\ [Next]_vars => SeqInv'
  BY StepSeqInv
<1> QED
  BY <1>1, <1>2, PTL DEF Spec

\* A single worker loses no failure and counts none twice (record_result of
\* circuit_breaker.py), whatever pipelines raise, however often the process is
\* restarted and whenever maintenance deletes the row: the counter is the number
\* of failures since the last success, less those that were deleted.
THEOREM OneWorkerCounts ==
    ASSUME OneWorker
    PROVE  Spec => []CountIsStreak
BY SeqInvariant, PTL DEF SeqInv

-----------------------------------------------------------------------------
(* The rows as the contract sees them                                      *)

\* A row nobody is about to overwrite is seen as it is read.
LEMMA SeenRead ==
    ASSUME NEW s \in Sigs, \A w \in Workers : ~Overwriter(w, s)
    PROVE  Seen(s) = Read(s)
  BY DEF Seen

LEMMA SeenReadNext ==
    ASSUME NEW s \in Sigs, \A w \in Workers : ~Overwriter(w, s)'
    PROVE  Seen(s)' = Read(s)'
  BY DEF Seen

\* A row the single worker is about to overwrite is seen as that worker read it.
LEMMA SeenSnap ==
    ASSUME OneWorker, OneReader, NEW s \in Sigs, NEW w \in Workers, Overwriter(w, s)
    PROVE  Seen(s) = snap[w]
<1>1. \A v \in Workers : v = w
  BY DEF OneWorker
<1>2. CASE row[s].state = "ABSENT"
  <2>1. (CHOOSE v \in Workers : Overwriter(v, s)) \in Workers
    OBVIOUS
  <2>2. Seen(s) = snap[CHOOSE v \in Workers : Overwriter(v, s)]
    BY <1>2 DEF Seen
  <2>3. (CHOOSE v \in Workers : Overwriter(v, s)) = w
    BY <1>1, <2>1
  <2> QED
    BY <2>2, <2>3
<1>3. CASE row[s].state # "ABSENT"
  BY <1>3 DEF Seen, Overwriter, OneReader, Fresh
<1> QED
  BY <1>2, <1>3

LEMMA SeenSnapNext ==
    ASSUME OneWorker, OneReader', NEW s \in Sigs, NEW w \in Workers, Overwriter(w, s)'
    PROVE  Seen(s)' = snap'[w]
<1>1. \A v \in Workers : v = w
  BY DEF OneWorker
<1>2. CASE row'[s].state = "ABSENT"
  <2>1. PICK v \in Workers : Seen(s)' = snap'[v]
    <3>1. (CHOOSE v \in Workers : Overwriter(v, s)') \in Workers
      OBVIOUS
    <3>2. Seen(s)' = snap'[CHOOSE v \in Workers : Overwriter(v, s)']
      BY <1>2 DEF Seen
    <3> QED
      BY <3>1, <3>2
  <2> QED
    BY <1>1, <2>1
<1>3. CASE row'[s].state # "ABSENT"
  BY <1>3 DEF Seen, Overwriter, OneReader, Fresh, Read
<1> QED
  BY <1>2, <1>3

\* A change of one row as the contract sees it.
LEMMA BecomeLemma ==
    ASSUME NEW s \in Sigs, NEW r,
           Seen(s)' = r, \A q \in Sigs \ {s} : Seen(q)' = Seen(q)
    PROVE  Contract!Become(s, r.state, r.failures, r.age)
<1>1. \A q \in Sigs : Seen(q)' = IF q = s THEN r ELSE Seen(q)
  OBVIOUS
<1>2. \A q \in Sigs :
         /\ Seen(q)'.state = IF q = s THEN r.state ELSE Seen(q).state
         /\ Seen(q)'.failures = IF q = s THEN r.failures ELSE Seen(q).failures
         /\ Seen(q)'.age = IF q = s THEN r.age ELSE Seen(q).age
  BY <1>1
<1> QED
  BY <1>2 DEF Contract!Become

LEMMA UnchangedRows == (\A q \in Sigs : Seen(q)' = Seen(q)) => UNCHANGED Contract!vars
  BY DEF Contract!vars

\* Forgetting a CLOSED row, for a row that is CLOSED already.
LEMMA CloseLemma ==
    ASSUME NEW s \in Sigs, Seen(s).state = "CLOSED", Seen(s)' = Default,
           \A q \in Sigs \ {s} : Seen(q)' = Seen(q)
    PROVE  Contract!Next
<1>1. Contract!Become(s, "CLOSED", 0, Null)
  BY BecomeLemma DEF Default, RowOf
<1>2. Contract!Close(s)
  BY <1>1 DEF Contract!Close
<1> QED
  BY <1>2 DEF Contract!Next

\* The end of a record_result that does not write, which maintenance may have
\* overtaken.
LEMMA AbandonLemma ==
    ASSUME OneWorker, IInv, OneReader, NEW w \in Workers,
           UNCHANGED row, pc'[w] = "idle"
    PROVE  [Contract!Next]_(Contract!vars)
<1>1. \A v \in Workers : v = w
  BY DEF OneWorker
<1>2. \A q \in Sigs : Seen(q)' = Read(q)
  <2>1. \A q \in Sigs, v \in Workers : ~Overwriter(v, q)'
    BY <1>1 DEF Overwriter
  <2>2. \A q \in Sigs : Read(q)' = Read(q)
    BY DEF Read
  <2> QED
    BY <2>1, <2>2, SeenReadNext
<1>3. \A q \in Sigs : ~Overwriter(w, q) => Seen(q) = Read(q)
  BY <1>1, SeenRead
<1>4. CASE \E s \in Sigs : Overwriter(w, s)
  <2>1. PICK s \in Sigs : Overwriter(w, s)
    BY <1>4
  <2>2. \A q \in Sigs \ {s} : Seen(q)' = Seen(q)
    BY <1>2, <1>3, <2>1 DEF Overwriter
  <2>3. Seen(s) = snap[w]
    BY <2>1, SeenSnap
  <2>4. CASE snap[w] = Read(s)
    BY <1>2, <2>2, <2>3, <2>4, UnchangedRows
  <2>5. CASE snap[w] # Read(s)
    <3>1. row[s].state = "ABSENT" /\ snap[w].state = "CLOSED"
      BY <2>1, <2>5 DEF Overwriter, OneReader, Fresh
    <3>2. Seen(s)' = Default
      BY <1>2, <3>1 DEF Read
    <3> QED
      BY <2>2, <2>3, <3>1, <3>2, CloseLemma
  <2> QED
    BY <2>4, <2>5
<1>5. CASE \A s \in Sigs : ~Overwriter(w, s)
  BY <1>2, <1>3, <1>5, UnchangedRows
<1> QED
  BY <1>4, <1>5

\* Steps that change neither the table nor who is about to overwrite it.
LEMMA QuietLemma ==
    ASSUME OneWorker, NEW w \in Workers,
           UNCHANGED row, pc[w] # "write", pc'[w] # "write"
    PROVE  \A q \in Sigs : Seen(q)' = Seen(q)
<1>1. \A v \in Workers : v = w
  BY DEF OneWorker
<1>2. \A q \in Sigs, v \in Workers : ~Overwriter(v, q) /\ ~Overwriter(v, q)'
  BY <1>1 DEF Overwriter
<1>3. \A q \in Sigs : Read(q)' = Read(q)
  BY DEF Read
<1> QED
  BY <1>2, <1>3, SeenRead, SeenReadNext

LEMMA ContractStep ==
    OneWorker /\ SeqInv /\ [Next]_vars => [Contract!Next]_(Contract!vars)
<1> SUFFICES ASSUME OneWorker, SeqInv, [Next]_vars
             PROVE  [Contract!Next]_(Contract!vars)
  OBVIOUS
<1> USE BreakerAssumption
<1>0. /\ IInv /\ TypeOK /\ RowsConsistent /\ ClaimsLookDue /\ OneReader
      /\ OneReader'
  BY StepSeqInv DEF SeqInv, IInv
<1>1. ASSUME NEW w \in Workers, TryClaimHalfOpen(w), row' # row
      PROVE  Contract!Next
  <2>0. PICK s \in Sigs : s = sig[w]
    BY <1>0, <1>1 DEF TryClaimHalfOpen, TypeOK
  <2> DEFINE r == RowOf("HALF_OPEN", row[s].failures, row[s].age, 1)
  <2>1. /\ row' = [row EXCEPT ![s] = r]
        /\ row[s].state # "CLOSED" /\ ~ClaimRefused(row[s])
        /\ pc[w] = "claim" /\ pc'[w] = "running"
    BY <1>0, <1>1, <2>0 DEF TryClaimHalfOpen, Admit, TypeOK
  <2>2. row[s] \in Rows /\ ConsistentRow(row[s])
    BY <1>0 DEF TypeOK, RowsConsistent
  <2>3. row[s].state # "ABSENT" /\ Read(s) = row[s]
    BY <2>1 DEF Read, ClaimRefused
  <2>4. MayProbe(row[s])
    BY <1>0, <2>0, <2>1, <2>3 DEF ClaimsLookDue, OneReader, Fresh
  <2>5. row[s].state = "OPEN" /\ row[s].age = OPEN_TIMEOUT_SEC
    BY <2>1, <2>2, <2>4 DEF MayProbe, ClaimRefused, ConsistentRow, Rows, Ages, States
  <2>6. Read(s)' = r /\ \A q \in Sigs \ {s} : Read(q)' = Read(q)
    BY <1>0, <2>1 DEF Read, RowOf, TypeOK
  <2>7. \A v \in Workers, q \in Sigs : ~Overwriter(v, q) /\ ~Overwriter(v, q)'
    BY <2>1 DEF OneWorker, Overwriter
  <2>8. /\ Seen(s) = row[s] /\ Seen(s)' = r
        /\ \A q \in Sigs \ {s} : Seen(q)' = Seen(q)
    BY <2>3, <2>6, <2>7, SeenRead, SeenReadNext
  <2>9. Contract!Become(s, "HALF_OPEN", row[s].failures, row[s].age)
    BY <2>8, BecomeLemma DEF RowOf
  <2>10. Contract!AdmitTest(s)
    BY <2>5, <2>8, <2>9 DEF Contract!AdmitTest
  <2> QED
    BY <2>10 DEF Contract!Next
<1>2. ASSUME NEW w \in Workers, RecordWrite(w)
      PROVE  Contract!Next
  <2>0. PICK s \in Sigs : s = sig[w]
    BY <1>0, <1>2 DEF RecordWrite, TypeOK
  <2> DEFINE d == snap[w]
             f == Bump(d.failures)
             r == Recorded(d, ok[w])
  <2>1. /\ row' = [row EXCEPT ![s] = r]
        /\ Overwriter(w, s) /\ pc'[w] = "idle"
        /\ d.state \in {"CLOSED", "HALF_OPEN"}
        /\ d \in Rows /\ ConsistentRow(d) /\ ok[w] \in BOOLEAN
    <3>1. Overwriter(w, s) /\ d \in Rows /\ ConsistentRow(d)
      BY <1>0, <1>2, <2>0 DEF RecordWrite, Overwriter, TypeOK, RowsConsistent
    <3>2. Fresh(w) /\ Read(s).state # "OPEN"
      BY <1>0, <3>1 DEF Overwriter, OneReader
    <3>3. Read(s).state # "ABSENT"
      BY DEF Read, Default, RowOf
    <3>4. d.state # "OPEN" /\ d.state # "ABSENT"
      BY <2>0, <3>2, <3>3 DEF Fresh
    <3>5. pc'[w] = "idle"
      BY <1>0, <1>2, ReturnLemma DEF RecordWrite
    <3> QED
      BY <1>0, <1>2, <2>0, <3>1, <3>4, <3>5 DEF RecordWrite, TypeOK, Rows, States
  <2>2. r.state # "ABSENT"
    BY <2>1 DEF Recorded, Default, RowOf
  <2>3. Read(s)' = r /\ \A q \in Sigs \ {s} : Read(q)' = Read(q)
    BY <1>0, <2>1, <2>2 DEF Read, TypeOK
  <2>4. /\ Seen(s) = d /\ Seen(s)' = r
        /\ \A q \in Sigs \ {s} : Seen(q)' = Seen(q)
    <3>1. \A v \in Workers, q \in Sigs :
             ~Overwriter(v, q)' /\ (q # s => ~Overwriter(v, q))
      BY <2>1 DEF OneWorker, Overwriter
    <3>2. Seen(s) = d
      BY <1>0, <2>1, SeenSnap
    <3> QED
      BY <2>3, <3>1, <3>2, SeenRead, SeenReadNext
  <2>5. Contract!Become(s, r.state, r.failures, r.age)
    BY <2>4, BecomeLemma
  <2>6. Contract!More(d.failures) = f
    BY DEF Contract!More, Bump
  <2>7. CASE ok[w]
    <3>1. r.state = "CLOSED" /\ r.failures = 0 /\ r.age = Null
      BY <2>7 DEF Recorded, Default, RowOf
    <3>2. Contract!Close(s)
      BY <2>1, <2>4, <2>5, <3>1 DEF Contract!Close
    <3> QED
      BY <3>2 DEF Contract!Next
  <2>8. CASE ~ok[w] /\ d.state = "HALF_OPEN"
    <3>1. r.state = "OPEN" /\ r.failures = f /\ r.age = 0
      BY <2>8 DEF Recorded, RowOf
    <3>2. Contract!Reopen(s)
      BY <2>4, <2>5, <2>6, <2>8, <3>1 DEF Contract!Reopen
    <3> QED
      BY <3>2 DEF Contract!Next
  <2>9. CASE ~ok[w] /\ d.state = "CLOSED" /\ f >= FAILURE_THRESHOLD
    <3>1. r.state = "OPEN" /\ r.failures = f /\ r.age = 0
      BY <2>9 DEF Recorded, RowOf
    <3>2. Contract!Trip(s)
      BY <2>4, <2>5, <2>6, <2>9, <3>1 DEF Contract!Trip
    <3> QED
      BY <3>2 DEF Contract!Next
  <2>10. CASE ~ok[w] /\ d.state = "CLOSED" /\ ~(f >= FAILURE_THRESHOLD)
    <3>1. d.age = Null
      BY <2>1, <2>10 DEF ConsistentRow
    <3>2. r.state = "CLOSED" /\ r.failures = f /\ r.age = Null
      BY <2>10, <3>1 DEF Recorded, RowOf
    <3>3. f < FAILURE_THRESHOLD
      BY <2>1, <2>10 DEF Bump, Rows
    <3>4. Contract!CountFailure(s)
      BY <2>4, <2>5, <2>6, <2>10, <3>2, <3>3 DEF Contract!CountFailure
    <3> QED
      BY <3>4 DEF Contract!Next
  <2> QED
    BY <2>1, <2>7, <2>8, <2>9, <2>10
<1>3. ASSUME NEW s \in Sigs, MaintenanceDelete(s)
      PROVE  [Contract!Next]_(Contract!vars)
  <2>1. /\ row[s].state = "CLOSED" /\ row'[s].state = "ABSENT"
        /\ Read(s) = row[s] /\ Read(s)' = Default
        /\ \A q \in Sigs \ {s} : Read(q)' = Read(q)
        /\ UNCHANGED <<pc, sig, snap>>
    BY <1>0, <1>3 DEF MaintenanceDelete, Read, NoRow, RowOf, TypeOK
  <2>2. \A w \in Workers, q \in Sigs : Overwriter(w, q)' = Overwriter(w, q)
    BY <2>1 DEF Overwriter
  <2>3. ASSUME NEW q \in Sigs, NEW w \in Workers, Overwriter(w, q)
        PROVE  Seen(q)' = Seen(q)
    <3>1. Seen(q) = snap[w]
      BY <1>0, <2>3, SeenSnap
    <3>2. Seen(q)' = snap'[w]
      BY <1>0, <2>2, <2>3, SeenSnapNext
    <3> QED
      BY <2>1, <3>1, <3>2
  <2>4. ASSUME NEW q \in Sigs, \A w \in Workers : ~Overwriter(w, q)
        PROVE  Seen(q) = Read(q) /\ Seen(q)' = Read(q)'
    BY <2>2, <2>4, SeenRead, SeenReadNext
  <2>5. \A q \in Sigs \ {s} : Seen(q)' = Seen(q)
    BY <2>1, <2>3, <2>4
  <2>6. CASE \E w \in Workers : Overwriter(w, s)
    <3>1. \A q \in Sigs : Seen(q)' = Seen(q)
      BY <2>3, <2>5, <2>6
    <3> QED
      BY <3>1, UnchangedRows
  <2>7. CASE \A w \in Workers : ~Overwriter(w, s)
    <3>1. Seen(s).state = "CLOSED" /\ Seen(s)' = Default
      BY <2>1, <2>4, <2>7
    <3> QED
      BY <2>5, <3>1, CloseLemma
  <2> QED
    BY <2>6, <2>7
<1>4. CASE Tick
  <2>1. /\ \A s \in Sigs : /\ row[s] \in Rows /\ ConsistentRow(row[s])
                           /\ Read(s) \in Rows /\ ConsistentRow(Read(s))
        /\ \A w \in Workers : snap[w] \in Rows /\ ConsistentRow(snap[w])
    BY <1>0, ReadLemma DEF TypeOK, RowsConsistent
  <2>2. /\ \A s \in Sigs : Read(s)' = Older(Read(s))
        /\ \A w \in Workers : snap'[w] = Older(snap[w])
    BY <1>0, <1>4, <2>1, ReadOlder DEF Tick, Read, TypeOK
  <2>3. \A w \in Workers, q \in Sigs : Overwriter(w, q)' = Overwriter(w, q)
    BY <1>4 DEF Tick, Overwriter
  <2>4. ASSUME NEW s \in Sigs
        PROVE  /\ Seen(s) \in Rows /\ ConsistentRow(Seen(s))
               /\ Seen(s)' = Older(Seen(s))
    <3>1. CASE \E w \in Workers : Overwriter(w, s)
      <4>1. PICK w \in Workers : Overwriter(w, s)
        BY <3>1
      <4>2. Seen(s) = snap[w] /\ Seen(s)' = snap'[w]
        BY <1>0, <2>3, <4>1, SeenSnap, SeenSnapNext
      <4> QED
        BY <2>1, <2>2, <4>2
    <3>2. CASE \A w \in Workers : ~Overwriter(w, s)
      <4>1. Seen(s) = Read(s) /\ Seen(s)' = Read(s)'
        BY <2>3, <3>2, SeenRead, SeenReadNext
      <4> QED
        BY <2>1, <2>2, <4>1
    <3> QED
      BY <3>1, <3>2
  <2>5. \A s \in Sigs :
           /\ Seen(s)'.state = Seen(s).state
           /\ Seen(s)'.failures = Seen(s).failures
           /\ Seen(s)'.age = IF Seen(s).age = Null \/ Seen(s).age = OPEN_TIMEOUT_SEC
                             THEN Seen(s).age ELSE Seen(s).age + 1
    BY <2>4, ReadOlder, OlderLemma
  <2>6. Contract!TimePasses
    BY <2>5 DEF Contract!TimePasses
  <2> QED
    BY <2>6 DEF Contract!Next
<1>5. ASSUME NEW w \in Workers, NEW success \in BOOLEAN, RecordRead(w, success)
      PROVE  [Contract!Next]_(Contract!vars)
  <2>0. PICK s \in Sigs : s = sig[w]
    BY <1>0, <1>5 DEF RecordRead, TypeOK
  <2>1. /\ Overwriter(w, s)' /\ snap'[w] = Read(s)
        /\ pc[w] = "running" /\ UNCHANGED row
    BY <1>0, <1>5, <2>0 DEF RecordRead, Overwriter, TypeOK
  <2>2. /\ \A v \in Workers, q \in Sigs : ~Overwriter(v, q)
        /\ \A v \in Workers, q \in Sigs \ {s} : ~Overwriter(v, q)'
    BY <2>1 DEF OneWorker, Overwriter
  <2>3. Seen(s)' = Read(s)
    BY <1>0, <2>1, SeenSnapNext
  <2>4. \A q \in Sigs : Read(q)' = Read(q)
    BY <2>1 DEF Read
  <2>5. \A q \in Sigs : Seen(q)' = Seen(q)
    BY <2>2, <2>3, <2>4, SeenRead, SeenReadNext
  <2> QED
    BY <2>5, UnchangedRows
<1>6. ASSUME NEW w \in Workers, PipelineRaises(w)
      PROVE  [Contract!Next]_(Contract!vars)
  <2>1. UNCHANGED row /\ pc'[w] = "idle"
    BY <1>0, <1>6, ReturnLemma DEF PipelineRaises
  <2> QED
    BY <1>0, <2>1, AbandonLemma
<1>7. CASE Restart
  <2>1. CASE Workers = {}
    <3>1. \A q \in Sigs : Read(q)' = Read(q)
      BY <1>7 DEF Restart, Read
    <3>2. \A q \in Sigs : Seen(q)' = Seen(q)
      BY <2>1, <3>1, SeenRead, SeenReadNext
    <3> QED
      BY <3>2, UnchangedRows
  <2>2. CASE Workers # {}
    <3>1. PICK w \in Workers : TRUE
      BY <2>2
    <3>2. UNCHANGED row /\ pc'[w] = "idle"
      BY <1>7 DEF Restart
    <3> QED
      BY <1>0, <3>2, AbandonLemma
  <2> QED
    BY <2>1, <2>2
<1>8. ASSUME NEW w \in Workers,
             \/ \E s \in Sigs : CanProceedRead(w, s)
             \/ CanProceedJudge(w)
             \/ TryClaimHalfOpen(w) /\ row' = row
      PROVE  [Contract!Next]_(Contract!vars)
  <2>1. UNCHANGED row /\ pc[w] # "write"
    BY <1>8 DEF CanProceedRead, CanProceedJudge, TryClaimHalfOpen
  <2>2. pc'[w] # "write"
    BY <1>0, <1>8
    DEF CanProceedRead, CanProceedJudge, TryClaimHalfOpen, Admit, Return, TypeOK
  <2> QED
    BY <2>1, <2>2, QuietLemma, UnchangedRows
<1>9. CASE UNCHANGED vars
  BY <1>9, UnchangedRows DEF vars, Seen, Overwriter, Read
<1> QED
  BY <1>1, <1>2, <1>3, <1>4, <1>5, <1>6, <1>7, <1>8, <1>9 DEF Next, WorkerStep

LEMMA ContractInit == Init => Contract!Init
<1> SUFFICES ASSUME Init PROVE Contract!Init
  OBVIOUS
<1>1. \A s \in Sigs : Seen(s) = Default
  BY DEF Init, Seen, Overwriter, Read, NoRow, RowOf
<1> QED
  BY <1>1 DEF Contract!Init, Default, RowOf

\* One worker's calls, each of several transactions, with exceptions, restarts
\* and deletions by maintenance between them, implement the state machine
\* documented at the head of circuit_breaker.py.
THEOREM OneWorkerHonoursContract ==
    ASSUME OneWorker
    PROVE  Spec => ContractHonoured
<1>1. Init => SeqInv /\ Contract!Init
  BY InitSeqInv, ContractInit
<1>2. SeqInv /\ [Next]_vars => SeqInv' /\ [Contract!Next]_(Contract!vars)
  BY StepSeqInv, ContractStep
<1> QED
  BY <1>1, <1>2, PTL DEF Spec, ContractHonoured, Contract!Spec
=============================================================================
