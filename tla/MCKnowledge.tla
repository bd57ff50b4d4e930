----------------------------- MODULE MCKnowledge -----------------------------
(***************************************************************************)
(* Instances of KnowledgeBase for TLC: the watchdog thread meets one error *)
(* of the log, the main thread one synthetic alert of ProactiveMonitor.    *)
(* Each is nearest to the entry learned from it.                           *)
(***************************************************************************)
EXTENDS KnowledgeBase, TLC

CONSTANTS watchdog, main, oom, alert, doc1, far

\* The alert is also near the entry learned from the log, so both threads can
\* be at work on that entry; a curated document is near the log's error.
MCOwn == (watchdog :> {oom}) @@ (main :> {alert})
MCNear == (oom :> <<oom, doc1>>) @@ (alert :> <<alert, oom>>)
MCCuratedAction == (doc1 :> "restart_service") @@ (far :> "clear_memory")

\* One thread, one error, two documents near it.
OneNear == (oom :> <<oom, doc1>>)
OneOwn == (main :> {oom})
=============================================================================
