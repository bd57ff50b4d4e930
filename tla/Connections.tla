----------------------------- MODULE Connections -----------------------------
(***************************************************************************)
(* What the threads of the agent share to reach their two databases:       *)
(* the Chroma client of the process, created by whoever needs it first     *)
(* (_get_chroma_client of src/llm_engine.py, double-checked locking), and  *)
(* the SQLite connections, one for each thread, whose switch to the WAL    *)
(* journal takes turns (get_conn of src/utils/sqlite_pool.py).  Either     *)
(* creation may raise, and the next call tries again.                      *)
(***************************************************************************)
EXTENDS Naturals

CONSTANTS
    DbThreads,      \* the watcher's threads, the main loop, the polling loop
    MaxDbFailures   \* bound: creations that raise

ASSUME ConnectionsAssumption == MaxDbFailures \in Nat

VARIABLES
    chromaClient,  \* _chroma_client: 0 is None, else the number of the client
    clientsMade,   \* how many PersistentClients were created
    chromaLock,    \* the holder of _chroma_lock, or none: a set
    given,         \* the client that each thread was last given, 0 before
    poolConns,     \* the threads with a connection of their own
    poolLock,      \* the holder of _creation_lock, or none: a set
    dbPos,         \* where a thread is in the two functions
    dbFailures

connVars == <<chromaClient, clientsMade, chromaLock, given, poolConns, poolLock, dbPos, dbFailures>>
chromaVars == <<chromaClient, clientsMade, chromaLock, given>>
poolVars == <<poolConns, poolLock>>

ConnInit ==
    /\ chromaClient = 0
    /\ clientsMade = 0
    /\ chromaLock = {}
    /\ given = [t \in DbThreads |-> 0]
    /\ poolConns = {}
    /\ poolLock = {}
    /\ dbPos = [t \in DbThreads |-> "out"]
    /\ dbFailures = 0

DbGoto(t, to) == dbPos' = [dbPos EXCEPT ![t] = to]
DbFails == dbFailures < MaxDbFailures /\ dbFailures' = dbFailures + 1

-----------------------------------------------------------------------------
(* _get_chroma_client                                                      *)

\* The first check, without the lock.
AskClient(t) ==
    /\ dbPos[t] = "out"
    /\ IF chromaClient # 0
       THEN given' = [given EXCEPT ![t] = chromaClient] /\ UNCHANGED dbPos
       ELSE DbGoto(t, "chroma_waits") /\ UNCHANGED given
    /\ UNCHANGED <<chromaClient, clientsMade, chromaLock, poolVars, dbFailures>>

\* Wrong variant: the lock is taken and nothing is checked again.
UncheckedClient == TRUE

\* The second check, with the lock.
ClientIsMissing == chromaClient = 0

LockChroma(t) ==
    /\ dbPos[t] = "chroma_waits"
    /\ chromaLock = {}
    /\ chromaLock' = {t}
    /\ DbGoto(t, IF ClientIsMissing THEN "chroma_creates" ELSE "chroma_has")
    /\ UNCHANGED <<chromaClient, clientsMade, given, poolVars, dbFailures>>

CreateClient(t) ==
    /\ dbPos[t] = "chroma_creates"
    /\ clientsMade' = clientsMade + 1
    /\ chromaClient' = clientsMade'
    /\ DbGoto(t, "chroma_has")
    /\ UNCHANGED <<chromaLock, given, poolVars, dbFailures>>

\* The exception is logged and raised; _chroma_client stays None.
CreateClientRaises(t) ==
    /\ dbPos[t] = "chroma_creates"
    /\ DbFails
    /\ chromaLock' = {}
    /\ DbGoto(t, "out")
    /\ UNCHANGED <<chromaClient, clientsMade, given, poolVars>>

ReturnClient(t) ==
    /\ dbPos[t] = "chroma_has"
    /\ chromaLock' = {}
    /\ given' = [given EXCEPT ![t] = chromaClient]
    /\ DbGoto(t, "out")
    /\ UNCHANGED <<chromaClient, clientsMade, poolVars, dbFailures>>

-----------------------------------------------------------------------------
(* get_conn                                                                *)

\* A thread with a connection uses it; the others wait for the lock.
AskConnection(t) ==
    /\ dbPos[t] = "out"
    /\ t \notin poolConns
    /\ DbGoto(t, "pool_waits")
    /\ UNCHANGED <<chromaVars, poolVars, dbFailures>>

LockPool(t) ==
    /\ dbPos[t] = "pool_waits"
    /\ poolLock = {}
    /\ poolLock' = {t}
    /\ DbGoto(t, "pool_creates")
    /\ UNCHANGED <<chromaVars, poolConns, dbFailures>>

\* connect and PRAGMA journal_mode=WAL.
CreateConnection(t) ==
    /\ dbPos[t] = "pool_creates"
    /\ poolConns' = poolConns \cup {t}
    /\ poolLock' = {}
    /\ DbGoto(t, "out")
    /\ UNCHANGED <<chromaVars, dbFailures>>

\* Another process holds the database: nothing is kept for the thread.
CreateConnectionRaises(t) ==
    /\ dbPos[t] = "pool_creates"
    /\ DbFails
    /\ poolLock' = {}
    /\ DbGoto(t, "out")
    /\ UNCHANGED <<chromaVars, poolConns>>

ConnNext ==
    \E t \in DbThreads :
        \/ AskClient(t) \/ LockChroma(t)
        \/ CreateClient(t) \/ CreateClientRaises(t) \/ ReturnClient(t)
        \/ AskConnection(t) \/ LockPool(t)
        \/ CreateConnection(t) \/ CreateConnectionRaises(t)

ConnSpec == ConnInit /\ [][ConnNext]_connVars

-----------------------------------------------------------------------------
ConnTypeOK ==
    /\ chromaClient \in 0..clientsMade
    /\ chromaLock \cup poolLock \cup poolConns \subseteq DbThreads
    /\ given \in [DbThreads -> 0..clientsMade]
    /\ dbPos \in [DbThreads -> {"out", "chroma_waits", "chroma_creates", "chroma_has",
                                "pool_waits", "pool_creates"}]
    /\ dbFailures \in 0..MaxDbFailures

\* Whatever threads ask at once and whatever creations raise, the process has one
\* Chroma client, which every thread was given, and no two threads switch the
\* journal of the SQLite file at the same time.  A lock is held by a thread that
\* will give it back.
ConnectedOnce ==
    /\ clientsMade <= 1
    /\ \A t \in DbThreads : given[t] \in {0, chromaClient}
    /\ \A s, t \in DbThreads : dbPos[s] = "pool_creates" /\ dbPos[t] = "pool_creates" => s = t
    /\ chromaLock = {t \in DbThreads : dbPos[t] \in {"chroma_creates", "chroma_has"}}
    /\ poolLock = {t \in DbThreads : dbPos[t] = "pool_creates"}
=============================================================================
