------------------------------ MODULE Debouncer ------------------------------
(***************************************************************************)
(* LogDebouncer.should_process of src/utils/debouncer.py, called by        *)
(* several threads.  Each reads the wall clock first and takes the lock    *)
(* afterwards: a thread that waits for the lock judges with an old time.   *)
(***************************************************************************)
EXTENDS DebounceHistory

CONSTANTS
    Callers,         \* threads that share one debouncer
    DebKeys,         \* normalised first lines
    COOLDOWN,        \* cooldown_seconds
    MAX_CACHE_SIZE,
    MaxTime          \* bound on the clock

ASSUME DebouncerAssumption ==
    /\ DebKeys # {}
    /\ COOLDOWN \in Nat \ {0}
    /\ MAX_CACHE_SIZE \in Nat \ {0}
    /\ MaxTime \in Nat

VARIABLES
    clock,   \* time.time()
    history, \* self._history
    caller,  \* the call each thread is in: [key, at], at = Idle outside a call
    passed   \* history: recorded times of the calls that returned True for a
             \* key, since the key was last forgotten

debVars == <<clock, history, caller, passed>>

Outside == -1
AnyKey == CHOOSE k \in DebKeys : TRUE
NoCall == Entry(AnyKey, Outside)

DebInit ==
    /\ clock = 0
    /\ history = <<>>
    /\ caller = [t \in Callers |-> NoCall]
    /\ passed = [k \in DebKeys |-> <<>>]

\* The clock is read before the lock is taken.
ReadClock(t, key) ==
    /\ caller[t] = NoCall
    /\ caller' = [caller EXCEPT ![t] = Entry(key, clock)]
    /\ UNCHANGED <<clock, history, passed>>

\* Within the lock.
Judge(h, key, now) == Cooling(h, key, now, COOLDOWN)

\* return False
Suppress(t) ==
    /\ caller[t] # NoCall
    /\ Judge(history, caller[t].key, caller[t].at)
    /\ caller' = [caller EXCEPT ![t] = NoCall]
    /\ UNCHANGED <<clock, history, passed>>

\* return True.  What the trimming forgot, passed forgets.
LetThrough(t) ==
    LET key == caller[t].key
        now == caller[t].at
    IN  /\ caller[t] # NoCall
        /\ ~Judge(history, key, now)
        /\ history' = Remembered(history, key, now, MAX_CACHE_SIZE)
        /\ passed' = [k \in DebKeys |->
                        IF ~Known(history', k) THEN <<>>
                        ELSE IF k = key THEN Append(passed[k], now)
                        ELSE passed[k]]
        /\ caller' = [caller EXCEPT ![t] = NoCall]
        /\ UNCHANGED clock

DebTick ==
    /\ clock < MaxTime
    /\ clock' = clock + 1
    /\ UNCHANGED <<history, caller, passed>>

DebNext ==
    \/ \E t \in Callers :
          \/ \E key \in DebKeys : ReadClock(t, key)
          \/ Suppress(t)
          \/ LetThrough(t)
    \/ DebTick

DebSpec == DebInit /\ [][DebNext]_debVars

-----------------------------------------------------------------------------
DebTypeOK ==
    /\ clock \in 0..MaxTime
    /\ history \in Seq([key : DebKeys, at : 0..MaxTime])
    /\ Len(history) <= MAX_CACHE_SIZE
    /\ caller \in [Callers -> [key : DebKeys, at : 0..MaxTime \cup {Outside}]]
    /\ passed \in [DebKeys -> Seq(0..MaxTime)]

\* should_process lets a key through once per cooldown, in the times the calls
\* recorded, whatever the order in which the threads get the lock, as long as
\* the key has not been pushed out of the cache in between.
OncePerCooldown ==
    \A k \in DebKeys : \A i, j \in DOMAIN passed[k] :
        i < j => passed[k][j] - passed[k][i] >= COOLDOWN

\* A key that was let through and not pushed out is in the cache exactly once,
\* with the time of its last pass.
CacheMatchesPasses ==
    /\ \A i, j \in DOMAIN history : history[i].key = history[j].key => i = j
    /\ \A k \in DebKeys : passed[k] # <<>> <=> Known(history, k)
    /\ \A i \in DOMAIN history :
          LET p == passed[history[i].key] IN p[Len(p)] = history[i].at

OncePerCooldownInv == DebTypeOK /\ CacheMatchesPasses /\ OncePerCooldown
=============================================================================
