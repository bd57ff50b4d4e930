------------------------------ MODULE Execution ------------------------------
(***************************************************************************)
(* What ActionExecutor of src/executor.py does with an action that has     *)
(* passed the autonomy gate (module AutonomyGate): _execute_llm_command    *)
(* with _validate_command and _try_rollback, and the structured actions    *)
(* _restart_service and _kill_process on systemd, docker and Kubernetes.   *)
(*                                                                         *)
(* A command is checked against the process table and then may wait for    *)
(* its approval while that table changes.  What it finally touches is      *)
(* recorded.  "malformed" stands for every command that its words alone    *)
(* condemn, and "reader" for those that change nothing.                    *)
(***************************************************************************)
EXTENDS Naturals, FiniteSets

CONSTANTS
    Pids,                \* process numbers above 1
    Names,               \* well-formed names of processes and services
    Comms,               \* those that processes have
    ProtectedNames,      \* those _is_protected_name knows; the agent's is one
    Fits,                \* the names that a name fits when it is read as an expression
    docker_target_app,
    k8s_target_app,
    Odd,                 \* a missing target, or one that _PROCESS_NAME_RE rejects
    PKILL_MAX_MATCHES

\* PROTECTED_PROCESSES may name nginx and the target apps as well.
ASSUME ExecutionAssumption ==
    /\ Comms \cup ProtectedNames \cup {docker_target_app, k8s_target_app, "nginx"} \subseteq Names
    /\ Odd \notin Names
    /\ Fits \in [Names -> SUBSET Names]
    /\ PKILL_MAX_MATCHES \in Nat

VARIABLES
    method,    \* exec_method
    fallback,  \* the target app is configured
    procs,     \* the process table
    stage,     \* where the execution is
    request,   \* the action as decided
    act,       \* the command it has become
    outcome,   \* the result's category
    touched,   \* history: what the commands of this execution acted on
    young      \* history: processes that changed since the command was checked

execVars == <<method, fallback, procs, stage, request, act, outcome, touched, young>>
config == <<method, fallback>>

NoProcess == [comm |-> Odd, pattern |-> Odd, bound |-> FALSE]
\* A process, the name that its command line mentions, which is what a pattern
\* hits, and whether the port that commands name is open in it.
Processes == {r \in [comm : Comms, pattern : Comms, bound : BOOLEAN] :
                 r.pattern \in {r.comm, "nginx"}}
             \cup {NoProcess}

Command(op, arg, target) == [op |-> op, arg |-> arg, target |-> target]
NoCommand == Command("none", "", Odd)
LlmCommands ==
    [op : {"systemctl"}, arg : {"restart", "status"}, target : Names \cup {Odd}]
    \cup [op : {"pkill"}, arg : {"-x", "-f"}, target : Names \cup {Odd}]
    \cup [op : {"kill"}, arg : {"-TERM"}, target : Pids]
    \cup [op : {"fuser"}, arg : {"-k"}, target : {Odd}]
    \cup [op : {"nginx"}, arg : {"-s", "-t"}, target : {"nginx"}]
    \cup [op : {"ulimit", "reader", "malformed"}, arg : {""}, target : {Odd}]
Structured ==
    [op : {"restart_service", "kill_process"}, arg : {""}, target : Names \cup {Odd}]
    \cup {Command("clear_memory", "", Odd)}

-----------------------------------------------------------------------------
(* Checks                                                                  *)

\* _validate_process_name
SafeName(n) == n \in Names \ ProtectedNames

\* _protected_pid_reason
Guarded(p) == procs[p].comm \in ProtectedNames

Alive(p) == procs[p] # NoProcess

\* pgrep and pkill read a name as a regular expression: with -x it must fit the whole
\* name of the process.  _PROCESS_NAME_RE leaves it one special character, the dot.
FitsName(n, name) == n \in Names /\ name \in Fits[n]

\* The processes that pgrep or fuser lists and pkill or fuser signals.
Matched(c) ==
    {p \in Pids : Alive(p) /\
        CASE c.op = "kill"                    -> p = c.target
          [] c.op = "pkill" /\ c.arg = "-x"   -> FitsName(c.target, procs[p].comm)
          [] c.op = "pkill" /\ c.arg = "-f"   -> FitsName(c.target, procs[p].pattern)
          [] c.op = "fuser"                   -> procs[p].bound
          [] OTHER                            -> FALSE}

\* _list_pids may fail; then the command is blocked.
Listable(c, listed) == c.op = "fuser" \/ c.arg = "-f" => listed

\* Wrong variant: a pattern or a port is judged without what it matches.
UnlistedHarmless(c) == TRUE

\* No protected process is among those listed, and of a pattern not too many.
ListedHarmless(c) ==
    /\ \A p \in Matched(c) : ~Guarded(p)
    /\ c.arg = "-f" => Cardinality(Matched(c)) <= PKILL_MAX_MATCHES

\* _validate_command
Admitted(c) ==
    CASE c.op = "kill"      -> Alive(c.target) /\ ~Guarded(c.target)
      [] c.op = "pkill"     -> SafeName(c.target) /\ (c.arg = "-f" => ListedHarmless(c))
      [] c.op = "fuser"     -> ListedHarmless(c)
      [] c.op = "systemctl" -> IF c.arg = "status" THEN c.target \in Names ELSE SafeName(c.target)
      [] OTHER              -> c.op # "malformed"

\* _try_rollback: at most one command.  The last word of whatever systemctl
\* command failed is stopped, also when it only asked for a status.
Rollback(c) ==
    CASE c.op = "systemctl" -> IF SafeName(c.target)
                               THEN {Command("systemctl", "stop", c.target)} ELSE {}
      [] c.op = "nginx"     -> IF SafeName("nginx")
                               THEN {Command("systemctl", "stop", "nginx")} ELSE {}
      [] c.op = "ulimit"    -> {Command("ulimit", "-n", Odd)}
      [] OTHER              -> {}

-----------------------------------------------------------------------------
(* Effects                                                                 *)

Touch(kind, name, undo, late) == [kind |-> kind, name |-> name, undo |-> undo, late |-> late]
TouchKinds == {"unit", "reload", "process", "fitting", "container", "deployment"}

\* A process with the name given or listed before, or one that its name only fits.
KindOf(c, p) ==
    IF c.op = "pkill" /\ c.arg = "-x" /\ procs[p].comm # c.target THEN "fitting" ELSE "process"

\* What running c acts on.
Touches(c, undo) ==
    {Touch(KindOf(c, p), procs[p].comm, undo, p \in young) : p \in Matched(c)}
    \cup (CASE c.op = "systemctl" /\ c.arg # "status" -> {Touch("unit", c.target, undo, FALSE)}
            [] c.op = "nginx" /\ c.arg = "-s"         -> {Touch("reload", "nginx", undo, FALSE)}
            [] c.op = "docker"                        -> {Touch("container", c.target, undo, FALSE)}
            [] c.op = "kubectl"                       -> {Touch("deployment", c.target, undo, FALSE)}
            [] OTHER                                  -> {})

Ended(ps) == [p \in Pids |-> IF p \in ps THEN NoProcess ELSE procs[p]]

\* A signal may end the processes at once, later or never.
Effect(c) ==
    /\ touched' = touched \cup Touches(c, FALSE)
    /\ procs' \in {procs, Ended(Matched(c))}

NoEffect == UNCHANGED <<touched, procs>>

Finish(category) ==
    /\ stage' = "done"
    /\ outcome' = category
    /\ young' = {}

Proceed(to) == stage' = to /\ UNCHANGED <<outcome, young>>

-----------------------------------------------------------------------------
ExecInit ==
    /\ method \in {"systemd", "k8s"}
    /\ fallback \in BOOLEAN
    /\ procs = [p \in Pids |-> NoProcess]
    /\ stage = "idle"
    /\ request = NoCommand
    /\ act = NoCommand
    /\ outcome = "none"
    /\ touched = {}
    /\ young = {}

\* A process starts, ends, executes another program, opens or closes its port.
\* Nothing looks at the table between a command's end and its result.
ProcessChanges(p) ==
    /\ procs' \in {[procs EXCEPT ![p] = r] : r \in Processes \ {procs[p]}}
    /\ stage \notin {"rollback", "done"}
    /\ young' = IF stage \in {"idle", "given"} THEN young ELSE young \cup {p}
    /\ UNCHANGED <<config, stage, request, act, outcome, touched>>

\* execute, behind the gate of _dispatch.
Execute(c) ==
    /\ stage = "idle"
    /\ request' = c
    /\ act' = c
    /\ Proceed("given")
    /\ UNCHANGED <<config, procs, touched>>

\* The result goes to the pipeline.
Return ==
    /\ stage = "done"
    /\ stage' = "idle"
    /\ request' = NoCommand
    /\ act' = NoCommand
    /\ outcome' = "none"
    /\ touched' = {}
    /\ UNCHANGED <<config, procs, young>>

IsLlm == request \in LlmCommands

-----------------------------------------------------------------------------
(* _execute_llm_command                                                    *)

SecurityBlock ==
    /\ stage = "given"
    /\ IsLlm
    /\ \E listed \in BOOLEAN : ~(Listable(act, listed) /\ Admitted(act))
    /\ Finish("FAILURE")
    /\ NoEffect
    /\ UNCHANGED <<config, request, act>>

\* In AUTO it runs at once, else it waits for its approval.
PassesChecks ==
    /\ stage = "given"
    /\ IsLlm
    /\ Admitted(act)
    /\ \E next \in {"approval", "approved"} : Proceed(next)
    /\ NoEffect
    /\ UNCHANGED <<config, request, act>>

Approved ==
    /\ stage = "approval"
    /\ Proceed("approved")
    /\ NoEffect
    /\ UNCHANGED <<config, request, act>>

\* Rejected or shut down, or expired.
NotApproved ==
    /\ stage = "approval"
    /\ \E category \in {"FAILURE", "IMPOSSIBLE"} : Finish(category)
    /\ NoEffect
    /\ UNCHANGED <<config, request, act>>

\* Return code 0.
CommandSucceeds ==
    /\ stage = "approved"
    /\ IsLlm
    /\ Effect(act)
    /\ Finish("SUCCESS")
    /\ UNCHANGED <<config, request, act>>

\* Another return code: it may have acted all the same.
CommandFails ==
    /\ stage = "approved"
    /\ IsLlm
    /\ Effect(act) \/ NoEffect
    /\ Proceed("rollback")
    /\ UNCHANGED <<config, request, act>>

\* The timeout of 15 s, or an exception: no rollback.  Without the permission or
\* the memory to run it the result is IMPOSSIBLE.
CommandRaises ==
    /\ stage = "approved"
    /\ IsLlm
    /\ \/ (Effect(act) \/ NoEffect) /\ Finish("FAILURE")
       \/ NoEffect /\ Finish("IMPOSSIBLE")
    /\ UNCHANGED <<config, request, act>>

\* The rollback command is checked like any other, and not approved.
RunRollback ==
    /\ stage = "rollback"
    /\ touched' = touched \cup UNION {Touches(c, TRUE) : c \in Rollback(act)}
    /\ Finish("FAILURE")
    /\ UNCHANGED <<config, procs, request, act>>

-----------------------------------------------------------------------------
(* _clear_memory, _restart_service, _kill_process                          *)

ClearMemory ==
    /\ stage = "given"
    /\ request.op = "clear_memory"
    /\ Finish("SUCCESS")
    /\ NoEffect
    /\ UNCHANGED <<config, request, act>>

\* _systemd_unit_exists: an odd or a protected name never is a loaded unit.
IsUnit(n, found) == SafeName(n) /\ found

\* The container stands in for what is no unit, before the name is validated.
InContainer(n, found) == method = "systemd" /\ fallback /\ ~IsUnit(n, found)

\* _resolve_k8s_target_name: the Deployment stands in for what is none.
Deployment(n, found) == IF ~fallback \/ (found /\ n # Odd) THEN n ELSE k8s_target_app

On(n) ==
    LET restart == request.op = "restart_service"
    IN  IF method = "k8s" THEN Command("kubectl", IF restart THEN "restart" ELSE "delete", n)
        ELSE IF restart THEN Command("systemctl", "restart", n)
        ELSE Command("pkill", "-x", n)

ResolveTarget ==
    /\ stage = "given"
    /\ request \in Structured
    /\ request.op # "clear_memory"
    /\ \E found \in BOOLEAN :
          LET n == IF method = "k8s" THEN Deployment(request.target, found) ELSE request.target
          IN  IF InContainer(n, found)
              THEN act' = Command("docker", request.op, docker_target_app) /\ Proceed("approved")
              ELSE IF SafeName(n)
              THEN act' = On(n) /\ Proceed("approved")
              ELSE act' = act /\ Finish("FAILURE")
    /\ NoEffect
    /\ UNCHANGED <<config, request>>

\* Return code 0: what was asked for is looked for.
ActionSent ==
    /\ stage = "approved"
    /\ ~IsLlm
    /\ Effect(act)
    /\ Proceed("verify")
    /\ UNCHANGED <<config, request, act>>

\* Another return code, a timeout, or an exception.
ActionFails ==
    /\ stage = "approved"
    /\ ~IsLlm
    /\ Effect(act) \/ NoEffect
    /\ Proceed("rollback") \/ Finish("FAILURE")
    /\ act.op # "systemctl" => stage' = "done"
    /\ UNCHANGED <<config, request, act>>

\* _verify_process_dead, _verify_service_active, _verify_container_running,
\* _verify_deployment_ready, _verify_pod_running
Verified ==
    /\ stage = "verify"
    /\ act.op = "pkill" => Matched(act) = {}
    /\ Finish("SUCCESS")
    /\ NoEffect
    /\ UNCHANGED <<config, request, act>>

Unverified == "FAILURE"

\* A Deployment that does not roll out is rolled back.
NotVerified ==
    /\ stage = "verify"
    /\ Finish(Unverified)
    /\ touched' = IF act.op = "kubectl" /\ act.arg = "restart"
                  THEN touched \cup Touches(act, TRUE) ELSE touched
    /\ UNCHANGED <<config, procs, request, act>>

ExecStep ==
    \/ SecurityBlock \/ PassesChecks \/ Approved \/ NotApproved
    \/ CommandSucceeds \/ CommandFails \/ CommandRaises \/ RunRollback
    \/ ClearMemory \/ ResolveTarget \/ ActionSent \/ ActionFails \/ Verified \/ NotVerified
    \/ Return

ExecNext ==
    \/ \E c \in LlmCommands \cup Structured : Execute(c)
    \/ ExecStep
    \/ \E p \in Pids : ProcessChanges(p)

ExecSpec == ExecInit /\ [][ExecNext]_execVars

-----------------------------------------------------------------------------
ExecTypeOK ==
    /\ method \in {"systemd", "k8s"}
    /\ fallback \in BOOLEAN
    /\ procs \in [Pids -> Processes]
    /\ stage \in {"idle", "given", "approval", "approved", "rollback", "verify", "done"}
    /\ request \in LlmCommands \cup Structured \cup {NoCommand}
    /\ act.op = "pkill" => act.target \in Names \cup {Odd}
    /\ outcome \in {"none", "SUCCESS", "FAILURE", "IMPOSSIBLE"}
    /\ touched \subseteq [kind : TouchKinds, name : Names \cup {Odd}, undo : BOOLEAN,
                          late : BOOLEAN]
    /\ young \subseteq Pids

\* What the list of protected names is not asked about: a process that started, or
\* opened the port, after the command had been checked, since a number can be taken over
\* during an approval; one whose name the target of pkill -x fits as an expression,
\* since only the names are compared and nothing is listed; the container that stands in
\* for what is no unit; and nginx, when it is only to read its configuration again.
Unasked(h) == h.late \/ h.kind \in {"fitting", "container", "reload"}

\* No command, no structured action and no rollback touches a protected process,
\* service or deployment, except where the code does not ask.
ProtectedUntouched ==
    \A h \in touched : h.name \in ProtectedNames => Unasked(h)

\* What is undone or stopped by a rollback was named by the action itself or
\* stands in for what it named, and no such execution is reported as a success,
\* on which the category's promotion and the breaker would count.
UndoneIsFailed ==
    \A h \in touched : h.undo =>
        /\ outcome \in {"none", "FAILURE"}
        /\ h.name \in {request.target, k8s_target_app}

\* What an execution acts on and what it says of it.
ExecutionIsSafe == ProtectedUntouched /\ UndoneIsFailed
=============================================================================
