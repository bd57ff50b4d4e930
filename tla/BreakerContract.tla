---------------------------- MODULE BreakerContract ----------------------------
(***************************************************************************)
(* What the breaker promises, as the state machine at the head of          *)
(* src/circuit_breaker.py tells it: one step per recorded result or        *)
(* admitted test request, no reading ahead of writing.                     *)
(***************************************************************************)
EXTENDS Naturals

CONSTANTS Sigs, FAILURE_THRESHOLD, OPEN_TIMEOUT_SEC, MaxFailures, Null

VARIABLES
    state,     \* CLOSED, OPEN or HALF_OPEN, by signature
    failures,  \* consecutive failures, saturating at MaxFailures
    age        \* time since the circuit opened, Null when it is closed

vars == <<state, failures, age>>

More(n) == IF n < MaxFailures THEN n + 1 ELSE n

Init ==
    /\ state    = [s \in Sigs |-> "CLOSED"]
    /\ failures = [s \in Sigs |-> 0]
    /\ age      = [s \in Sigs |-> Null]

Become(s, st, n, t) ==
    /\ state'    = [state EXCEPT ![s] = st]
    /\ failures' = [failures EXCEPT ![s] = n]
    /\ age'      = [age EXCEPT ![s] = t]

\* A failure below the threshold is counted.
CountFailure(s) ==
    /\ state[s] = "CLOSED"
    /\ More(failures[s]) < FAILURE_THRESHOLD
    /\ Become(s, "CLOSED", More(failures[s]), Null)

\* The failure that reaches the threshold opens the circuit.
Trip(s) ==
    /\ state[s] = "CLOSED"
    /\ More(failures[s]) >= FAILURE_THRESHOLD
    /\ Become(s, "OPEN", More(failures[s]), 0)

\* One test request, and not before the timeout.
AdmitTest(s) ==
    /\ state[s] = "OPEN"
    /\ age[s] = OPEN_TIMEOUT_SEC
    /\ Become(s, "HALF_OPEN", failures[s], age[s])

\* The test request failed.
Reopen(s) ==
    /\ state[s] = "HALF_OPEN"
    /\ Become(s, "OPEN", More(failures[s]), 0)

\* A success, or forgetting a circuit nobody used for 30 days.
Close(s) ==
    /\ state[s] \in {"CLOSED", "HALF_OPEN"}
    /\ Become(s, "CLOSED", 0, Null)

TimePasses ==
    /\ age' = [s \in Sigs |-> IF age[s] = Null \/ age[s] = OPEN_TIMEOUT_SEC
                              THEN age[s] ELSE age[s] + 1]
    /\ UNCHANGED <<state, failures>>

Next ==
    \/ \E s \in Sigs :
          CountFailure(s) \/ Trip(s) \/ AdmitTest(s) \/ Reopen(s) \/ Close(s)
    \/ TimePasses

Spec == Init /\ [][Next]_vars

=============================================================================
