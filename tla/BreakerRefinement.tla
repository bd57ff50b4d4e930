--------------------------- MODULE BreakerRefinement ---------------------------
(***************************************************************************)
(* The rows of the breaker seen as the state machine its documentation     *)
(* describes, and what that documentation says of several workers.         *)
(***************************************************************************)
EXTENDS CircuitBreaker

\* Maintenance may delete the row under a record_result that has read it.  The
\* deletion takes effect when that call has ended; if it ends by writing, it
\* was as if the row had not been deleted.
Overwriter(w, s) == pc[w] = "write" /\ sig[w] = s
Seen(s) ==
    IF row[s].state = "ABSENT" /\ \E w \in Workers : Overwriter(w, s)
    THEN snap[CHOOSE w \in Workers : Overwriter(w, s)]
    ELSE Read(s)

Contract == INSTANCE BreakerContract WITH
    state    <- [s \in Sigs |-> Seen(s).state],
    failures <- [s \in Sigs |-> Seen(s).failures],
    age      <- [s \in Sigs |-> Seen(s).age]

\* Errors that one worker handles (all log files share watchdog's one dispatch
\* thread) move the breaker as documented, even though each call is several
\* transactions, pipelines may raise, the process may be restarted and
\* maintenance may delete the row between any two of them.
ContractHonoured == Contract!Spec

\* The circuit never opens too early: consecutive_failures does not exceed the
\* failures recorded since the last success, and falls behind them only if
\* maintenance deleted some.  No recorded result is lost or counted twice, not
\* even when the row is deleted between the reading and the writing of it.
CountIsStreak ==
    \A s \in Sigs :
        /\ Read(s).failures <= streak[s]
        /\ ~forgotten[s] => Read(s).failures = streak[s]

\* An OPEN circuit lets a test request through if its error keeps coming back.
OpenIsRetried ==
    \A s \in Sigs : row[s].state = "OPEN" ~> row[s].state = "HALF_OPEN"

\* circuit_breaker.py:5 says the circuit is OPEN once the consecutive failures
\* reach the threshold.  Failures that maintenance has deleted do not count.
ThresholdOpens ==
    \A s \in Sigs :
        streak[s] >= FAILURE_THRESHOLD /\ ~forgotten[s] => Read(s).state # "CLOSED"

\* log_watcher.py:207 tells the operator that a blocked error is retried after
\* 30 minutes.
BlockedIsRetried ==
    \A s \in Sigs :
        Read(s).state # "CLOSED" ~> \E w \in Workers : InFlight(w, s)

=============================================================================
