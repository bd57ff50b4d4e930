--------------------------- MODULE ProactiveMonitor ---------------------------
(***************************************************************************)
(* src/proactive_monitor.py as the main loop of src/log_watcher.py drives  *)
(* it: check_and_trigger once a second, four probes in a fixed order       *)
(* within one try, and an alert that runs the pipeline on the main thread, *)
(* for as long as the pipeline takes.                                      *)
(*                                                                         *)
(* Times are kept as ages that saturate at the interval they are compared  *)
(* with, so the clock needs no bound.  An entry absent from _last_fired    *)
(* counts as fired at the epoch: its age is saturated.                     *)
(***************************************************************************)
EXTENDS GpuStats, Sequences

CONSTANTS
    Varying,             \* probes whose reading changes; the others are always low
    CHECK_INTERVAL_SEC,  \* in ticks
    CPU_STREAK_TRIGGER,
    ALERT_COOLDOWN_SEC,  \* in ticks
    MaxMonRestarts       \* bound: restarts of the agent

Probes == {"cpu", "memory", "disk", "vram"}
\* The order in which check_and_trigger calls them.
Order == <<"cpu", "memory", "disk", "vram">>

ASSUME ProactiveAssumption ==
    /\ Varying \subseteq Probes
    /\ {CHECK_INTERVAL_SEC, CPU_STREAK_TRIGGER, ALERT_COOLDOWN_SEC} \subseteq Nat \ {0}
    /\ MaxMonRestarts \in Nat

VARIABLES
    reading,        \* what a probe would read: "low", "high", or "broken" (it raises)
    sinceCheck,  \* age of _last_check
    sinceFired,  \* age of each entry of _last_fired
    streak,      \* _cpu_streak
    probe,       \* the probe being made, or "idle"
    calling,     \* the callback of that probe is running
    monRestarts,
    vram,        \* history: whether the memory of the GPU is "full", "free", or "misread"
    hotChecks,   \* history: checks in a row that found the CPU over its threshold
    sinceAlert   \* history: age of the last callback of each probe

monVars == <<reading, sinceCheck, sinceFired, streak, probe, calling, monRestarts,
             vram, hotChecks, sinceAlert>>

Readings == {"low", "high", "broken"}
Aged(n, bound) == IF n < bound THEN n + 1 ELSE n
Position(p) == CHOOSE i \in DOMAIN Order : Order[i] = p
Following(p) == IF Position(p) = Len(Order) THEN "idle" ELSE Order[Position(p) + 1]
AllCold == [p \in Probes |-> ALERT_COOLDOWN_SEC]

MonInit ==
    /\ reading = [p \in Probes |-> "low"]
    /\ sinceCheck = CHECK_INTERVAL_SEC
    /\ sinceFired = AllCold
    /\ streak = 0
    /\ probe = "idle"
    /\ calling = FALSE
    /\ monRestarts = 0
    /\ vram = "free"
    /\ hotChecks = 0
    /\ sinceAlert = AllCold

-----------------------------------------------------------------------------
\* check_and_trigger returns at once within CHECK_INTERVAL_SEC of the last check.
BeginCheck ==
    /\ probe = "idle"
    /\ sinceCheck = CHECK_INTERVAL_SEC
    /\ sinceCheck' = 0
    /\ probe' = Order[1]
    /\ UNCHANGED <<reading, sinceFired, streak, calling, monRestarts, vram, hotChecks, sinceAlert>>

\* The exception leaves the try: the probes behind this one are not made.
ProbeRaises ==
    /\ probe # "idle"
    /\ ~calling
    /\ reading[probe] = "broken"
    /\ probe' = "idle"
    /\ UNCHANGED <<reading, sinceCheck, sinceFired, streak, calling, monRestarts,
                   vram, hotChecks, sinceAlert>>

\* Wrong variant: a normal reading leaves the streak.
StreakKept(p) == streak

CalmStreak(p) == IF p = "cpu" THEN 0 ELSE streak

ProbeLow ==
    /\ probe # "idle"
    /\ ~calling
    /\ reading[probe] = "low"
    /\ streak' = CalmStreak(probe)
    /\ hotChecks' = IF probe = "cpu" THEN 0 ELSE hotChecks
    /\ probe' = Following(probe)
    /\ UNCHANGED <<reading, sinceCheck, sinceFired, calling, monRestarts, vram, sinceAlert>>

\* The CPU is only reported when the streak is long enough, and then starts anew,
\* also when _fire finds the alert in its cooldown.
Reports(p) == p = "cpu" => streak + 1 >= CPU_STREAK_TRIGGER
HotStreak(p) ==
    CASE p # "cpu"  -> streak
      [] Reports(p) -> 0
      [] OTHER      -> streak + 1

\* Wrong variant: the stamp is renewed before the cooldown is tested.
StampedAlways(p) == [sinceFired EXCEPT ![p] = 0]

\* _last_fired[key] = now, before the callback; within the cooldown it stays.
Stamped(p) == [sinceFired EXCEPT ![p] = 0]

StampWithheld(p) == sinceFired

\* A reading over the threshold, up to the callback.
ProbeHigh ==
    /\ probe # "idle"
    /\ ~calling
    /\ reading[probe] = "high"
    /\ streak' = HotStreak(probe)
    /\ hotChecks' = IF probe = "cpu" THEN Aged(hotChecks, CPU_STREAK_TRIGGER) ELSE hotChecks
    /\ \/ /\ ~Reports(probe)
          /\ probe' = Following(probe)
          /\ UNCHANGED <<sinceFired, calling, sinceAlert>>
       \/ /\ Reports(probe)
          /\ sinceFired[probe] < ALERT_COOLDOWN_SEC
          /\ sinceFired' = StampWithheld(probe)
          /\ probe' = Following(probe)
          /\ UNCHANGED <<calling, sinceAlert>>
       \/ /\ Reports(probe)
          /\ sinceFired[probe] = ALERT_COOLDOWN_SEC
          /\ sinceFired' = Stamped(probe)
          /\ sinceAlert' = [sinceAlert EXCEPT ![probe] = 0]
          /\ calling' = TRUE
          /\ UNCHANGED probe
    /\ UNCHANGED <<reading, sinceCheck, monRestarts, vram>>

\* The pipeline returned, or raised what _fire swallows.
CallbackEnds ==
    /\ calling
    /\ calling' = FALSE
    /\ probe' = Following(probe)
    /\ UNCHANGED <<reading, sinceCheck, sinceFired, streak, monRestarts, vram, hotChecks, sinceAlert>>

-----------------------------------------------------------------------------
ReadingChanges ==
    /\ \/ /\ \E p \in Varying \ {"vram"}, l \in Readings : reading' = [reading EXCEPT ![p] = l]
          /\ UNCHANGED vram
       \/ \E r \in VramReadings :
             /\ "vram" \in Varying
             /\ reading' = [reading EXCEPT !["vram"] = r.reading]
             /\ vram' = r.truth
    /\ UNCHANGED <<sinceCheck, sinceFired, streak, probe, calling, monRestarts,
                   hotChecks, sinceAlert>>

MonTick ==
    /\ sinceCheck' = Aged(sinceCheck, CHECK_INTERVAL_SEC)
    /\ sinceFired' = [p \in Probes |-> Aged(sinceFired[p], ALERT_COOLDOWN_SEC)]
    /\ sinceAlert' = [p \in Probes |-> Aged(sinceAlert[p], ALERT_COOLDOWN_SEC)]
    /\ UNCHANGED <<reading, streak, probe, calling, monRestarts, vram, hotChecks>>

\* Everything the monitor knows is in memory.
MonRestart ==
    /\ monRestarts < MaxMonRestarts
    /\ monRestarts' = monRestarts + 1
    /\ sinceCheck' = CHECK_INTERVAL_SEC
    /\ sinceFired' = AllCold
    /\ streak' = 0
    /\ probe' = "idle"
    /\ calling' = FALSE
    /\ hotChecks' = 0
    /\ sinceAlert' = AllCold
    /\ UNCHANGED <<reading, vram>>

CheckStep == BeginCheck \/ ProbeRaises \/ ProbeLow \/ ProbeHigh \/ CallbackEnds

MonNext == CheckStep \/ ReadingChanges \/ MonTick \/ MonRestart

MonSpec == MonInit /\ [][MonNext]_monVars /\ WF_monVars(CheckStep) /\ WF_monVars(MonTick)

-----------------------------------------------------------------------------
MonTypeOK ==
    /\ reading \in [Probes -> Readings]
    /\ sinceCheck \in 0..CHECK_INTERVAL_SEC
    /\ sinceFired \in [Probes -> 0..ALERT_COOLDOWN_SEC]
    /\ streak \in 0..CPU_STREAK_TRIGGER
    /\ probe \in Probes \cup {"idle"}
    /\ calling \in BOOLEAN
    /\ calling => probe # "idle"
    /\ monRestarts \in 0..MaxMonRestarts
    /\ vram \in {"full", "free", "misread"}
    /\ hotChecks \in 0..CPU_STREAK_TRIGGER
    /\ sinceAlert \in [Probes -> 0..ALERT_COOLDOWN_SEC]

\* Within one life of the agent an overload that lasts calls the pipeline once
\* per ALERT_COOLDOWN_SEC, also when the pipeline raises or takes longer than
\* the check interval.
OneAlertPerCooldown ==
    \A p \in Probes : ~calling /\ calling' /\ probe = p =>
        sinceAlert[p] = ALERT_COOLDOWN_SEC

\* The CPU is only reported after CPU_STREAK_TRIGGER checks in a row found it
\* over its threshold, whatever alerts and failed probes lie between them.
CpuAlertNeedsStreak ==
    ~calling /\ calling' /\ probe = "cpu" => hotChecks' = CPU_STREAK_TRIGGER

\* An alert about the memory of the GPU is about a region that is full, whichever
\* source and unit its two numbers came from; but sysfs without a file for the
\* total has the used file taken for it, and always alerts.
VramAlertIsReal == ~calling /\ calling' /\ probe = "vram" => vram # "free"

\* The monitor alerts neither more often nor earlier than its thresholds say.
AlertsAreDue == [][OneAlertPerCooldown /\ CpuAlertNeedsStreak /\ VramAlertIsReal]_monVars

\* A probe that stays over its threshold is reported again and again, unless
\* a probe before it goes on raising.
Overloaded(p) ==
    /\ reading[p] = "high"
    /\ \A i \in 1..Position(p) : reading[Order[i]] # "broken"
OverloadIsReported ==
    \A p \in Varying : <>[]Overloaded(p) => []<>(calling /\ probe = p)
=============================================================================
