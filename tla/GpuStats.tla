------------------------------- MODULE GpuStats -------------------------------
(***************************************************************************)
(* get_intel_gpu_stats of src/monitor/vram_profiler.py: the load and the   *)
(* memory of the GPU, asked of intel_gpu_top, then of sysfs, then of       *)
(* PowerShell, and what _check_vram of src/proactive_monitor.py makes of   *)
(* them.  Of the load only matters whether it is known.                    *)
(*                                                                         *)
(* A region of memory is [used, total] in the unit of its source; a region *)
(* or a file that is missing or unreadable has nothing known.              *)
(***************************************************************************)
EXTENDS Naturals, FiniteSetsExt

CONSTANTS
    VRAM_THRESHOLD_PCT,
    Unknown              \* None

ASSUME GpuAssumption == VRAM_THRESHOLD_PCT \in 1..100 /\ Unknown \notin Nat

Nothing == [used |-> Unknown, total |-> Unknown]
Regions == {[used |-> u, total |-> t] : u \in {1, 4}, t \in {4, Unknown}}
           \cup {Nothing, [used |-> 0, total |-> 4]}

\* What the program prints last: a whole sample, or, of a cut output, an inner
\* object without any of the keys ("fragment") or a value that is no object
\* ("junk").  A sample has the regions local (or vram) and gtt, in that order,
\* and engines whose busy may be missing or null.
Samples == [kind : {"sample"}, engines : {"busy", "none", "null"},
            regions : [1..2 -> Regions], clients : BOOLEAN, factor : {1, 1024}]
TopAnswer(kind) == [kind |-> kind, engines |-> "none", regions |-> [i \in 1..2 |-> Nothing],
                 clients |-> FALSE, factor |-> 1]
TopAnswers == Samples \cup {TopAnswer("none"), TopAnswer("fragment"), TopAnswer("junk")}

\* The files mem_info_vram_used and vram/mem_used_bytes, with those beside them
\* that have the total; and xe_memory_stats.
Sysfs == [info : Regions, bytes : Regions, debugfs : BOOLEAN]

-----------------------------------------------------------------------------
\* The unit applies to both; an unknown one counts as MiB.
Mib(n, factor) == IF n = Unknown THEN Unknown ELSE n * factor

InMib(region, factor) == [used |-> Mib(region.used, factor), total |-> Mib(region.total, factor)]

\* _parse_vram_from_json: the first region that knows what is used; else the
\* sum over the clients, which has no total.
ParseVram(top) ==
    LET known == {i \in DOMAIN top.regions : top.regions[i].used # Unknown}
    IN  IF known # {} THEN InMib(top.regions[Min(known)], top.factor)
        ELSE [used |-> IF top.clients THEN 1 ELSE Unknown, total |-> Unknown]

\* Both suffixes are tried on the path, and one that does not occur in it leaves
\* it as it is: without a total file of its own the used file is read again.
FileTotal(file, hasTotal) == IF hasTotal /\ file.total # Unknown THEN file.total ELSE file.used

\* _read_sysfs_vram
SysfsVram(s) ==
    IF s.info.used # Unknown THEN [used |-> s.info.used, total |-> FileTotal(s.info, TRUE)]
    ELSE IF s.bytes.used # Unknown
         THEN [used |-> s.bytes.used, total |-> FileTotal(s.bytes, FALSE)]
    ELSE [used |-> IF s.debugfs THEN 1 ELSE Unknown, total |-> Unknown]

\* _parse_gpu_load and the parsers behind it raise on null and on what is no object.
Raises(top) == top.kind = "junk" \/ top.engines = "null"

\* _run_powershell_gpu: a total only, and nothing when PowerShell is missing, is
\* late, fails or prints no number.
PowerShell(answers) == [used |-> Unknown, total |-> IF answers THEN 4 ELSE Unknown]

\* get_intel_gpu_stats: used and total always come from one source; PowerShell is
\* asked when neither the load nor what is used is known.
Stats(top, s, shell) ==
    IF ParseVram(top).used # Unknown THEN ParseVram(top)
    ELSE IF SysfsVram(s).used # Unknown THEN SysfsVram(s)
    ELSE PowerShell(top.engines = "none" /\ shell)

Over(region) ==
    /\ Unknown \notin {region.used, region.total}
    /\ region.total # 0
    /\ region.used * 100 >= VRAM_THRESHOLD_PCT * region.total

\* What the probe _check_vram comes to.
Reading(top, s, shell) ==
    IF Raises(top) THEN "broken"
    ELSE IF Over(Stats(top, s, shell)) THEN "high"
    ELSE "low"

\* The used file of sysfs was taken for the total.
Misread(top, s) ==
    /\ ParseVram(top).used = Unknown
    /\ IF s.info.used # Unknown THEN s.info.total = Unknown ELSE s.bytes.used # Unknown

\* What is the case, whichever region is asked about.
Truth(top, s) ==
    IF \E r \in {top.regions[1], top.regions[2], s.info, s.bytes} : Over(r) THEN "full"
    ELSE IF Misread(top, s) THEN "misread"
    ELSE "free"

\* The outcomes of the probe together with the truth.
VramReadings ==
    {[reading |-> Reading(top, s, shell), truth |-> Truth(top, s)] :
        top \in TopAnswers, s \in Sysfs, shell \in BOOLEAN}
=============================================================================
