------------------------------- MODULE MainLoop -------------------------------
(***************************************************************************)
(* The loop of start_watching in src/log_watcher.py and the schedules it   *)
(* asks each second: MaintenanceRunner, ProactiveMonitor, ETLScheduler,    *)
(* ErrorClusterer and, only after it, VectorDBPurger.  What these do to    *)
(* the breaker's rows and to the knowledge base is in CircuitBreaker and   *)
(* KnowledgeBase; here is when they do it, what is recorded of it, and     *)
(* which of their errors end the process.                                  *)
(*                                                                         *)
(* maintenance_log and purger_run_log are rows of SQLite and survive the   *)
(* process, _last_run of the ETL and _last_cluster do not.  Times are ages *)
(* that saturate at the interval they are compared with.                   *)
(***************************************************************************)
EXTENDS Naturals

CONSTANTS
    MAINTENANCE_INTERVAL, ETL_INTERVAL, CLUSTER_INTERVAL, PURGE_INTERVAL,
    Categories,       \* error categories a cluster can be named after
    MaxRuns,          \* bound: starts of the process
    Never             \* the row does not exist

ASSUME MainLoopAssumption ==
    /\ {MAINTENANCE_INTERVAL, ETL_INTERVAL, CLUSTER_INTERVAL, PURGE_INTERVAL}
           \subseteq Nat \ {0}
    /\ MaxRuns \in Nat
    /\ Never \notin Nat

VARIABLES
    pos,         \* where the loop is, or "down"
    stop,        \* _shutdown_event
    maintained,  \* age of maintenance_log.last_run, or Never
    purged,      \* age of purger_run_log.last_run, or Never
    sinceEtl,    \* age of ETLScheduler._last_run
    sinceCluster,\* age of _last_cluster
    current,     \* categories the clusters of the collection are named after
    saved,       \* cluster_state.json; an unreadable file counts as empty
    news,        \* new_patterns of the run that is being reported
    runs,        \* starts of the process
    quietSince,  \* history: ticks since each task last did its work
    standing     \* history: categories that were saved and announced, and that
                 \* every run since has found

loopVars == <<pos, stop, maintained, purged, sinceEtl, sinceCluster, current, saved,
              news, runs, quietSince, standing>>
rows == <<maintained, purged>>
timers == <<sinceEtl, sinceCluster>>
clusters == <<current, saved, standing>>

Tasks == {"maintenance", "etl", "purge"}
IntervalOf == [maintenance |-> MAINTENANCE_INTERVAL, etl |-> ETL_INTERVAL,
               purge |-> PURGE_INTERVAL]
Longest == [t \in Tasks |-> IntervalOf[t]]
Older(age, bound) == IF age = Never \/ age = bound THEN age ELSE age + 1

LoopInit ==
    /\ pos = "down"
    /\ stop = FALSE
    /\ maintained = Never
    /\ purged = Never
    /\ sinceEtl = 0
    /\ sinceCluster = 0
    /\ current = {}
    /\ saved = {}
    /\ news = {}
    /\ runs = 0
    /\ quietSince = Longest
    /\ standing = {}

Worked(t) == quietSince' = [quietSince EXCEPT ![t] = 0]

-----------------------------------------------------------------------------
\* start_watching up to its loop: the timers in memory start now.
StartLoop ==
    /\ pos = "down"
    /\ runs < MaxRuns
    /\ runs' = runs + 1
    /\ pos' = "wait"
    /\ stop' = FALSE
    /\ sinceEtl' = 0
    /\ sinceCluster' = 0
    /\ quietSince' = [quietSince EXCEPT !["etl"] = 0]
    /\ UNCHANGED <<rows, clusters, news>>

StopSignal ==
    /\ pos # "down"
    /\ ~stop
    /\ stop' = TRUE
    /\ UNCHANGED <<pos, rows, timers, clusters, news, runs, quietSince>>

\* The process is gone: after the loop, by an exception, or killed.  In memory
\* nothing is left.
Down ==
    /\ pos' = "down"
    /\ stop' = FALSE
    /\ sinceEtl' = 0
    /\ sinceCluster' = 0
    /\ news' = {}
    /\ UNCHANGED <<rows, runs, quietSince>>

LeaveLoop == pos = "wait" /\ stop /\ Down /\ UNCHANGED clusters

\* Killed while cluster_state.json is open for writing, it is left empty.
Killed ==
    /\ pos # "down"
    /\ Down
    /\ IF pos = "saving"
       THEN saved' = {} /\ standing' = {} /\ UNCHANGED current
       ELSE UNCHANGED clusters

\* SQLite fails in should_run of the maintenance or of the purger: nothing
\* catches it, and the process ends.
AskRaises == pos \in {"maintenance", "purge"} /\ Down /\ UNCHANGED clusters

Goto(p) == pos' = p /\ UNCHANGED <<stop, runs>>

Wake ==
    /\ pos = "wait"
    /\ ~stop
    /\ Goto("maintenance")
    /\ UNCHANGED <<rows, timers, clusters, news, quietSince>>

-----------------------------------------------------------------------------
(* maintenance.run_if_due                                                  *)

Due(age, interval) == age = Never \/ age = interval

\* Wrong variant: last_run is written behind the VACUUM, which may fail.
RecordedLate(vacuum) == IF vacuum THEN 0 ELSE maintained

\* The row is committed with the deletions, before the VACUUM.
Recorded(vacuum) == 0

Maintain ==
    /\ pos = "maintenance"
    /\ Due(maintained, MAINTENANCE_INTERVAL)
    /\ \E vacuum \in BOOLEAN : maintained' = Recorded(vacuum)
    /\ Worked("maintenance")
    /\ Goto("probes")
    /\ UNCHANGED <<purged, timers, clusters, news>>

\* Not due, or the transaction failed: then it is tried again in a second.
NoMaintenance ==
    /\ pos = "maintenance"
    /\ Goto("probes")
    /\ UNCHANGED <<rows, timers, clusters, news, quietSince>>

\* proactive.check_and_trigger, which may run a pipeline here.
ProbesDone ==
    /\ pos = "probes"
    /\ Goto("etl")
    /\ UNCHANGED <<rows, timers, clusters, news, quietSince>>

-----------------------------------------------------------------------------
(* etl_scheduler.run_if_due                                                *)

\* Wrong variant: the time is also noted when the task is not due.
AskedEtl(age) == 0

UnaskedEtl(age) == age

EtlNotDue ==
    /\ pos = "etl"
    /\ sinceEtl < ETL_INTERVAL
    /\ sinceEtl' = UnaskedEtl(sinceEtl)
    /\ Goto("cluster")
    /\ UNCHANGED <<rows, sinceCluster, clusters, news, quietSince>>

\* _last_run is set before the synchronisation, whether it succeeds or not.
RunEtl ==
    /\ pos = "etl"
    /\ sinceEtl = ETL_INTERVAL
    /\ sinceEtl' = 0
    /\ Worked("etl")
    /\ Goto("cluster")
    /\ UNCHANGED <<rows, sinceCluster, clusters, news>>

-----------------------------------------------------------------------------
(* clusterer.run, the notification, and purger.run_if_due behind it        *)

ClusterNotDue ==
    /\ pos = "cluster"
    /\ sinceCluster < CLUSTER_INTERVAL
    /\ Goto("wait")
    /\ UNCHANGED <<rows, timers, clusters, news, quietSince>>

\* run returns None: too few vectors, no scikit-learn, or an error.
ClusterFails ==
    /\ pos = "cluster"
    /\ sinceCluster = CLUSTER_INTERVAL
    /\ sinceCluster' = 0
    /\ Goto("purge")
    /\ UNCHANGED <<rows, sinceEtl, clusters, news, quietSince>>

Cluster ==
    /\ pos = "cluster"
    /\ sinceCluster = CLUSTER_INTERVAL
    /\ news' = current \ saved
    /\ standing' = standing \cap current
    /\ Goto("saving")
    /\ UNCHANGED <<rows, timers, current, saved, quietSince>>

ToSave == current

\* _save_categories; an error leaves the file as it was, or empty when it came
\* after the open.
SaveCategories ==
    /\ pos = "saving"
    /\ \/ saved' = ToSave /\ UNCHANGED standing
       \/ saved' \in {saved, {}} /\ standing' = {}
    /\ sinceCluster' = 0
    /\ Goto("announce")
    /\ UNCHANGED <<rows, sinceEtl, current, news, quietSince>>

Announce ==
    /\ pos = "announce"
    /\ news' = {}
    /\ standing' = standing \cup (news \cap saved)
    /\ Goto("purge")
    /\ UNCHANGED <<rows, timers, current, saved, quietSince>>

\* _record_run: when it fails, purger_run_log keeps its row.
RunRecorded ==
    \/ purged' = 0 /\ Worked("purge")
    \/ purged' = purged /\ quietSince' = [quietSince EXCEPT !["purge"] = PURGE_INTERVAL]

\* The run is recorded before anything is purged.
Purge ==
    /\ pos = "purge"
    /\ Due(purged, PURGE_INTERVAL)
    /\ RunRecorded
    /\ Goto("wait")
    /\ UNCHANGED <<maintained, timers, clusters, news>>

PurgeNotDue ==
    /\ pos = "purge"
    /\ ~Due(purged, PURGE_INTERVAL)
    /\ Goto("wait")
    /\ UNCHANGED <<rows, timers, clusters, news, quietSince>>

-----------------------------------------------------------------------------
\* The knowledge base changes; a clustering works on the copy it has read, so
\* what changes while it saves belongs to the next one.
CategoriesChange ==
    /\ pos # "saving"
    /\ \E c \in SUBSET Categories : current' = c
    /\ UNCHANGED <<pos, stop, rows, timers, saved, news, runs, quietSince, standing>>

LoopTick ==
    /\ maintained' = Older(maintained, MAINTENANCE_INTERVAL)
    /\ purged' = Older(purged, PURGE_INTERVAL)
    /\ sinceEtl' = IF pos = "down" THEN 0 ELSE Older(sinceEtl, ETL_INTERVAL)
    /\ sinceCluster' = IF pos = "down" THEN 0 ELSE Older(sinceCluster, CLUSTER_INTERVAL)
    /\ quietSince' = [t \in Tasks |-> Older(quietSince[t], IntervalOf[t])]
    /\ UNCHANGED <<pos, stop, clusters, news, runs>>

LoopStep == \/ LeaveLoop \/ Wake \/ Maintain \/ NoMaintenance \/ ProbesDone
            \/ EtlNotDue \/ RunEtl \/ ClusterNotDue \/ ClusterFails \/ Cluster
            \/ SaveCategories \/ Announce \/ Purge \/ PurgeNotDue

LoopNext == \/ StartLoop \/ StopSignal \/ Killed \/ AskRaises \/ LoopStep
            \/ CategoriesChange \/ LoopTick

LoopSpec == LoopInit /\ [][LoopNext]_loopVars /\ WF_loopVars(LoopStep) /\ WF_loopVars(LoopTick)

-----------------------------------------------------------------------------
LoopTypeOK ==
    /\ pos \in {"down", "wait", "maintenance", "probes", "etl", "cluster", "saving",
                "announce", "purge"}
    /\ stop \in BOOLEAN
    /\ maintained \in 0..MAINTENANCE_INTERVAL \cup {Never}
    /\ purged \in 0..PURGE_INTERVAL \cup {Never}
    /\ sinceEtl \in 0..ETL_INTERVAL
    /\ sinceCluster \in 0..CLUSTER_INTERVAL
    /\ {current, saved, news, standing} \subseteq SUBSET Categories
    /\ runs \in 0..MaxRuns
    /\ \A t \in Tasks : quietSince[t] \in 0..IntervalOf[t]

\* No task is done twice within its interval, however often the process is
\* restarted in between: maintenance counts from its last commit, the purger
\* from its last recorded run, the ETL from its last attempt or the start.
SpacingKept ==
    /\ Maintain => quietSince["maintenance"] = MAINTENANCE_INTERVAL
    /\ Purge    => quietSince["purge"] = PURGE_INTERVAL
    /\ RunEtl   => quietSince["etl"] = ETL_INTERVAL

\* The process runs on with nothing to stop it.
Undisturbed == pos # "down" /\ ~stop

\* While the process runs on undisturbed, the ETL is attempted again and again,
\* and so is the purge (recorded, or attempted with its row due).
SchedulesGoOn ==
    <>[]Undisturbed => /\ []<>(pos = "etl" /\ sinceEtl = ETL_INTERVAL)
                       /\ []<>(pos = "purge" /\ Due(purged, PURGE_INTERVAL))

\* A category is announced once for as long as every clustering finds it, unless
\* cluster_state.json could not be written in between.
NewsIsNew == Announce => news \cap standing = {}

\* What the loop does again it does in time, and says once.
NothingTooSoon == [][SpacingKept /\ NewsIsNew]_loopVars
=============================================================================
