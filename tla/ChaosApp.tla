------------------------------- MODULE ChaosApp -------------------------------
(***************************************************************************)
(* The fault injector of deploy/target-app/main.py, whose evidence in the  *)
(* system log is what the agent is measured by, with its driver            *)
(* scripts/chaos_cron.sh.                                                  *)
(*                                                                         *)
(* The server has one event loop.  An "async def" handler runs on it and   *)
(* blocks it while the fault lasts; a plain "def" handler is handed to a   *)
(* thread.  One lock, taken without waiting, keeps injections apart.       *)
(***************************************************************************)
EXTENDS Naturals

CONSTANTS
    Faults,        \* the kinds of faults injected
    MaxRequests    \* bound: requests made

ASSUME ChaosAssumption ==
    /\ Faults \subseteq {"oom", "cpu", "diskfull", "process_crash", "permission_denied",
                         "path_not_found", "config_error", "db_connection",
                         "network_timeout", "auth_error", "memory_leak", "db_deadlock"}
    /\ MaxRequests \in Nat

VARIABLES
    lock,      \* the request that holds _injection_lock, or Nobody
    eventLoop, \* the request whose handler blocks the event loop, or Nobody
    req,       \* the requests: [fault, at]
    evidence,  \* whether each request has written its line to realtime_system.log
    curl,      \* the request chaos_cron.sh waits for, or Nobody
    audit      \* the last line of chaos_injector.log: "none", "OK" or "FAIL"

chaosVars == <<lock, eventLoop, req, evidence, curl, audit>>

Requests == 1..MaxRequests
Nobody == 0
NoRequest == [fault |-> "none", at |-> "none"]

ChaosInit ==
    /\ lock = Nobody
    /\ eventLoop = Nobody
    /\ req = [r \in Requests |-> NoRequest]
    /\ evidence = [r \in Requests |-> "none"]
    /\ curl = Nobody
    /\ audit = "none"

Is(r, at) == req[r].at = at
Becomes(r, at) == req' = [req EXCEPT ![r] = [fault |-> @.fault, at |-> at]]

\* A request reaches the server: that of the cron job, of which flock lets one
\* run at a time, or one made by hand.
Post(r, fault, byCron) ==
    /\ Is(r, "none")
    /\ \A q \in 1..(r - 1) : ~Is(q, "none")
    /\ byCron => curl = Nobody
    /\ curl' = IF byCron THEN r ELSE curl
    /\ req' = [req EXCEPT ![r] = [fault |-> fault, at |-> "queued"]]
    /\ UNCHANGED <<lock, eventLoop, evidence, audit>>

OnEventLoop(fault) == fault \notin {"auth_error", "db_deadlock"}

\* The head of every handler: the lock or an answer that says "skipped".  The
\* handler of process_crash leaves the loop again, its task keeps the lock.
Enter(r) ==
    IF lock # Nobody
    THEN Becomes(r, "skipped") /\ UNCHANGED <<lock, eventLoop>>
    ELSE /\ lock' = r
         /\ Becomes(r, IF req[r].fault = "process_crash" THEN "crashing" ELSE "fault")
         /\ eventLoop' = IF OnEventLoop(req[r].fault) /\ req[r].fault # "process_crash"
                         THEN r ELSE eventLoop

\* The loop accepts a request when no handler blocks it.
Accept(r) ==
    /\ Is(r, "queued")
    /\ eventLoop = Nobody
    /\ IF OnEventLoop(req[r].fault)
       THEN Enter(r)
       ELSE Becomes(r, "handed") /\ UNCHANGED <<lock, eventLoop>>
    /\ UNCHANGED <<evidence, curl, audit>>

EnterInThread(r) ==
    /\ Is(r, "handed")
    /\ Enter(r)
    /\ UNCHANGED <<evidence, curl, audit>>

\* Wrong variant: the lock is given back at the end of the handler, not in finally.
KeptOnError(r) == r

\* finally
Released(r) == Nobody

LoopFreed(r) == eventLoop' = IF eventLoop = r THEN Nobody ELSE eventLoop

\* The fault happened, CRITICAL, or did not, ERROR.  auth_error is a request to
\* this very server, which needs the loop.
FaultShown(r) ==
    /\ Is(r, "fault")
    /\ req[r].fault = "auth_error" => eventLoop = Nobody
    /\ evidence' = [evidence EXCEPT ![r] = "written"]
    /\ lock' = Nobody
    /\ LoopFreed(r)
    /\ Becomes(r, "injected")
    /\ UNCHANGED <<curl, audit>>

\* A timeout, a missing program or package, a log that cannot be written: 500.
FaultRaises(r) ==
    /\ Is(r, "fault")
    /\ lock' = Released(r)
    /\ LoopFreed(r)
    /\ Becomes(r, "failed")
    /\ UNCHANGED <<evidence, curl, audit>>

\* inject_db_deadlock starts the thread that holds the database before its try: when
\* that raises, the lock is given back by nobody.
HolderRaises(r) ==
    /\ Is(r, "fault")
    /\ req[r].fault = "db_deadlock"
    /\ Becomes(r, "stranded")
    /\ UNCHANGED <<lock, eventLoop, evidence, curl, audit>>

CrashEvidence(r) ==
    /\ Is(r, "crashing")
    /\ evidence[r] = "none"
    /\ evidence' = [evidence EXCEPT ![r] = "written"]
    /\ UNCHANGED <<lock, eventLoop, req, curl, audit>>

\* os._exit(137), also when the evidence could not be written; docker starts the
\* container again.  Requests under way are cut off.
Crash(r) ==
    /\ Is(r, "crashing")
    /\ lock' = Nobody
    /\ eventLoop' = Nobody
    /\ req' = [q \in Requests |->
                 IF q = r THEN [req[r] EXCEPT !.at = "crashed"]
                 ELSE IF req[q].at \in {"queued", "handed", "fault"}
                 THEN [req[q] EXCEPT !.at = "cut"] ELSE req[q]]
    /\ UNCHANGED <<evidence, curl, audit>>

\* chaos_cron.sh: HTTP 200 is OK, "skipped" included; a lost connection or the
\* 60 s of curl are OK for process_crash and FAIL for the others.
Line(r, code) == IF code = "200" \/ (code = "none" /\ req[r].fault = "process_crash")
                 THEN "OK" ELSE "FAIL"

CurlEnds ==
    /\ curl # Nobody
    /\ \E code \in {"200", "500", "none"} :
          /\ code = "200" => req[curl].at \in {"injected", "skipped", "crashing", "crashed"}
          /\ code = "500" => req[curl].at \in {"failed", "stranded"}
          /\ audit' = Line(curl, code)
    /\ curl' = Nobody
    /\ UNCHANGED <<lock, eventLoop, req, evidence>>

ChaosNext ==
    \/ \E r \in Requests :
          \/ \E f \in Faults, byCron \in BOOLEAN : Post(r, f, byCron)
          \/ Accept(r) \/ EnterInThread(r)
          \/ FaultShown(r) \/ FaultRaises(r) \/ HolderRaises(r)
          \/ CrashEvidence(r) \/ Crash(r)
    \/ CurlEnds

ChaosSpec == ChaosInit /\ [][ChaosNext]_chaosVars

-----------------------------------------------------------------------------
ChaosTypeOK ==
    /\ {lock, eventLoop, curl} \subseteq Requests \cup {Nobody}
    /\ req \in [Requests -> [fault : Faults \cup {"none"},
                             at : {"none", "queued", "handed", "fault", "crashing", "injected",
                                   "skipped", "failed", "stranded", "crashed", "cut"}]]
    /\ evidence \in [Requests -> {"none", "written"}]
    /\ audit \in {"none", "OK", "FAIL"}

Injecting(r) == req[r].at \in {"fault", "crashing"}

\* A handler of inject_db_deadlock that has ended with the lock.
KeepsLock(r) == req[r].fault = "db_deadlock" /\ Is(r, "stranded")

\* One injection at a time, so that its evidence is of this fault; no handler leaves
\* the lock behind, which would skip all that follow, but that of inject_db_deadlock
\* when its thread does not start; and the loop is free when auth_error calls its own
\* server.
InjectionsKeptApart ==
    /\ \A r, q \in Requests : Injecting(r) /\ Injecting(q) => r = q
    /\ lock # Nobody => Injecting(lock) \/ KeepsLock(lock)
    /\ \A r \in Requests :
          Is(r, "fault") /\ req[r].fault = "auth_error" => eventLoop = Nobody
    /\ \A r \in Requests : Is(r, "injected") => evidence[r] # "none"
=============================================================================
