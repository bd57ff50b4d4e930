------------------------------- MODULE LogTail -------------------------------
(***************************************************************************)
(* How src/log_watcher.py follows one log file: LogTailHandler.__init__,   *)
(* on_modified and the parts of start_watching that create the handler,    *)
(* start the observer and end it.  The pipeline itself is in               *)
(* CircuitBreaker, AutonomyGate and KnowledgeBase; here it only returns,   *)
(* or ends watchdog's dispatch thread with an exception nobody catches.    *)
(*                                                                         *)
(* The file is a sequence of pieces and an offset is a number of pieces.   *)
(* A piece is a line or, when its writer has not finished it, the head of  *)
(* one that its tail completes later.  Lines are numbered as written.      *)
(***************************************************************************)
EXTENDS DebounceHistory

CONSTANTS
    LogKeys,               \* normalised texts of error lines
    DEBOUNCE_COOLDOWN,     \* _DEBOUNCE_COOLDOWN_SEC, in ticks
    DEBOUNCE_CACHE,        \* LogDebouncer's max_cache_size
    MaxLines,              \* bound: lines written
    MaxSplits,             \* bound: lines of one file written in two pieces
    MaxRotations,          \* bound: rotations of the log
    MaxStarts,             \* bound: starts of the agent
    MaxLogTime,            \* bound on the clock
    Gone                   \* the file does not exist

VARIABLES
    log,        \* the file: a sequence of pieces, or Gone
    written,    \* lines written so far
    event,      \* watchdog has a modification to report
    now,        \* time.time()
    agent,      \* "down", "built" (handlers created), "up" or "stopping"
    thread,     \* the dispatch thread: "idle", "stated", "lines", "pipeline", "dead"
    file_ptr,   \* self.file_ptr
    batch,      \* pieces read by this call of on_modified, still to be handled
    seenKeys,   \* the debouncer's history
    starts,     \* starts of the agent
    rotations,
    offered,    \* history: how often each half of a line was put to the debouncer
    foreign,    \* history: file_ptr was measured in an earlier file
    blind       \* history: pieces of this file that no read of the handler covers

tailVars == <<log, written, event, now, agent, thread, file_ptr, batch, seenKeys,
              starts, rotations, offered, foreign, blind>>
worldVars == <<written, now, starts, rotations>>

Lines == 1..MaxLines
\* Where error_pattern finds what it looks for in a line: in one half, in either
\* of them, or only across the two.  Of a line written at once only whether it is
\* there matters.
Marks == {"none", "head", "tail", "both", "across"}
Piece(line, part, mark, key) ==
    [line |-> line, part |-> part, mark |-> mark, key |-> key]
Pieces == [line : 0..MaxLines, part : {"whole", "head", "tail"}, mark : Marks,
           key : LogKeys]

\* The halves of its line that a piece holds.
Halves == {"head", "tail"}
HalvesOf(p) == IF p.part = "whole" THEN Halves ELSE {p.part}

ASSUME LogTailAssumption ==
    /\ LogKeys # {}
    /\ DEBOUNCE_COOLDOWN \in Nat \ {0}
    /\ DEBOUNCE_CACHE \in Nat \ {0}
    /\ {MaxLines, MaxSplits, MaxRotations, MaxStarts, MaxLogTime} \subseteq Nat
    /\ Gone \notin Seq(Pieces)

Size == IF log = Gone THEN 0 ELSE Len(log)
Splits == IF log = Gone THEN {} ELSE {i \in DOMAIN log : log[i].part = "head"}
HalfWritten == log # Gone /\ log # <<>> /\ log[Len(log)].part = "head"

\* error_pattern.search(line)
IsError(p) ==
    CASE p.part = "whole" -> p.mark # "none"
      [] p.part = "head"  -> p.mark \in {"head", "both"}
      [] p.part = "tail"  -> p.mark \in {"tail", "both"}

\* readlines(): a head and the tail behind it are one line.  Only the last piece
\* of a file can be a head without its tail, only the first one that is read a tail
\* without its head.
IsBroken(s) == s[1].part = "head" /\ Len(s) > 1
FirstLine(s) == IF IsBroken(s) THEN [s[1] EXCEPT !.part = "whole"] ELSE s[1]
OtherLines(s) == SubSeq(s, IF IsBroken(s) THEN 3 ELSE 2, Len(s))

-----------------------------------------------------------------------------
TailInit ==
    /\ log = Gone
    /\ written = 0
    /\ event = FALSE
    /\ now = 0
    /\ agent = "down"
    /\ thread = "idle"
    /\ file_ptr = 0
    /\ batch = <<>>
    /\ seenKeys = <<>>
    /\ starts = 0
    /\ rotations = 0
    /\ offered = [n \in Lines |-> [h \in Halves |-> 0]]
    /\ foreign = FALSE
    /\ blind = 0

-----------------------------------------------------------------------------
(* The program that writes the log, and logrotate.                         *)

Observed == agent \in {"up", "stopping"}

Write(p) ==
    /\ log' = IF log = Gone THEN <<p>> ELSE Append(log, p)
    /\ event' = (event \/ Observed)

AppendLine(mark, part, key) ==
    /\ ~HalfWritten
    /\ written < MaxLines
    /\ IF part = "whole" THEN mark \in {"none", "head"} ELSE Cardinality(Splits) < MaxSplits
    /\ written' = written + 1
    /\ Write(Piece(written', part, mark, key))
    /\ UNCHANGED <<now, agent, thread, file_ptr, batch, seenKeys, starts, rotations,
                   offered, foreign, blind>>

AppendTail(key) ==
    /\ HalfWritten
    /\ Write(Piece(written, "tail", log[Len(log)].mark, key))
    /\ UNCHANGED <<worldVars, agent, thread, file_ptr, batch, seenKeys, offered,
                   foreign, blind>>

\* copytruncate changes the file and is reported; a rename leaves no file until
\* the writer opens a new one.
Rotate(left) ==
    /\ log # Gone
    /\ ~HalfWritten
    /\ rotations < MaxRotations
    /\ rotations' = rotations + 1
    /\ log' = left
    /\ event' = (event \/ (Observed /\ left # Gone))
    /\ foreign' = (file_ptr > 0)
    /\ blind' = 0
    /\ UNCHANGED <<written, now, agent, thread, file_ptr, batch, seenKeys, starts, offered>>

-----------------------------------------------------------------------------
(* start_watching: the handlers measure their files, then the observer     *)
(* starts.  What is written before it starts is reported by nobody.        *)

BuildHandlers ==
    /\ agent = "down"
    /\ starts < MaxStarts
    /\ starts' = starts + 1
    /\ agent' = "built"
    /\ log' = IF log = Gone THEN <<Piece(0, "whole", "none", CHOOSE k \in LogKeys : TRUE)>>
              ELSE log
    /\ file_ptr' = Len(log')
    /\ blind' = Len(log')
    /\ UNCHANGED <<written, event, now, thread, batch, seenKeys, rotations, offered, foreign>>

StartObserver ==
    /\ agent = "built"
    /\ agent' = "up"
    /\ UNCHANGED <<log, worldVars, event, thread, file_ptr, batch, seenKeys, offered,
                   foreign, blind>>

\* _handle_shutdown
Signal ==
    /\ agent = "up"
    /\ agent' = "stopping"
    /\ UNCHANGED <<log, worldVars, event, thread, file_ptr, batch, seenKeys, offered,
                   foreign, blind>>

\* The end of start_watching, after join has seen the thread end or has waited
\* _OBSERVER_JOIN_TIMEOUT_SEC; or the process is killed.  The thread is a daemon.
End ==
    /\ agent # "down"
    /\ agent' = "down"
    /\ event' = FALSE
    /\ thread' = "idle"
    /\ batch' = <<>>
    /\ file_ptr' = 0
    /\ seenKeys' = <<>>
    /\ foreign' = FALSE
    /\ blind' = 0
    /\ UNCHANGED <<log, worldVars, offered>>

-----------------------------------------------------------------------------
(* on_modified, on the dispatch thread.                                    *)

\* Wrong variant: the size is not compared with the offset.
OffsetKept(size, ptr) == ptr

\* Wrong variant: <= for <.
OffsetAgain(size, ptr) == IF size <= ptr THEN 0 ELSE ptr

\* A file shorter than the offset has been rotated or truncated.
OffsetFor(size, ptr) == IF size < ptr THEN 0 ELSE ptr

\* os.path.getsize; without a file it raises OSError and the call returns.
Stat ==
    /\ Observed
    /\ thread = "idle"
    /\ event
    /\ event' = FALSE
    /\ IF log = Gone
       THEN UNCHANGED <<thread, file_ptr>>
       ELSE /\ file_ptr' = OffsetFor(Size, file_ptr)
            /\ thread' = "stated"
    /\ foreign' = (foreign /\ file_ptr' # 0)
    /\ UNCHANGED <<log, worldVars, agent, batch, seenKeys, offered, blind>>

Batch(ptr) == SubSeq(log, ptr + 1, Len(log))

\* open, seek, readlines, tell.  The file may have been rotated since Stat: then
\* the offset may lie behind its end, where nothing is read and tell() returns it.
ReadLines ==
    /\ thread = "stated"
    /\ IF log = Gone
       THEN /\ thread' = "idle"
            /\ UNCHANGED <<file_ptr, batch, foreign, blind>>
       ELSE /\ thread' = "lines"
            /\ batch' = Batch(file_ptr)
            /\ file_ptr' = IF file_ptr < Size THEN Size ELSE file_ptr
            /\ foreign' = (foreign /\ file_ptr > Size)
            /\ blind' = IF foreign /\ file_ptr <= Size THEN file_ptr ELSE blind
    /\ UNCHANGED <<log, worldVars, event, agent, seenKeys, offered>>

\* The end of the loop over the lines.
BatchDone ==
    /\ thread = "lines"
    /\ batch = <<>>
    /\ thread' = "idle"
    /\ UNCHANGED <<log, worldVars, event, agent, file_ptr, batch, seenKeys, offered,
                   foreign, blind>>

SkipLine ==
    /\ thread = "lines"
    /\ batch # <<>>
    /\ ~IsError(FirstLine(batch))
    /\ batch' = OtherLines(batch)
    /\ UNCHANGED <<log, worldVars, event, agent, thread, file_ptr, seenKeys, offered,
                   foreign, blind>>

AtError == thread = "lines" /\ batch # <<>> /\ IsError(FirstLine(batch))

\* The shutdown ends the call: the rest of the batch is behind the offset.
LeaveForShutdown ==
    /\ AtError
    /\ agent = "stopping"
    /\ thread' = "idle"
    /\ batch' = <<>>
    /\ UNCHANGED <<log, worldVars, event, agent, file_ptr, seenKeys, offered, foreign, blind>>

OfferedWith(p) ==
    [h \in Halves |-> IF h \in HalvesOf(p) THEN offered[p.line][h] + 1 ELSE offered[p.line][h]]

\* should_process, and trigger_agent_pipeline when it says so.
HandleError ==
    LET p == FirstLine(batch)
    IN  /\ AtError
        /\ agent = "up"
        /\ batch' = OtherLines(batch)
        /\ offered' = [offered EXCEPT ![p.line] = OfferedWith(p)]
        /\ IF Cooling(seenKeys, p.key, now, DEBOUNCE_COOLDOWN)
           THEN UNCHANGED <<thread, seenKeys>>
           ELSE /\ thread' = "pipeline"
                /\ seenKeys' = Remembered(seenKeys, p.key, now, DEBOUNCE_CACHE)
        /\ UNCHANGED <<log, worldVars, event, agent, file_ptr, foreign, blind>>

PipelineEnds ==
    /\ thread = "pipeline"
    /\ thread' = "lines"
    /\ UNCHANGED <<log, worldVars, event, agent, file_ptr, batch, seenKeys, offered,
                   foreign, blind>>

\* An SQLite error in can_proceed, record_result or log_event: the dispatch
\* thread ends, the main loop does not notice.
PipelineKillsThread ==
    /\ thread = "pipeline"
    /\ thread' = "dead"
    /\ batch' = <<>>
    /\ UNCHANGED <<log, worldVars, event, agent, file_ptr, seenKeys, offered, foreign, blind>>

LogTick ==
    /\ now < MaxLogTime
    /\ now' = now + 1
    /\ UNCHANGED <<log, written, event, agent, thread, file_ptr, batch, seenKeys, starts,
                   rotations, offered, foreign, blind>>

Dispatch == \/ Stat \/ ReadLines \/ BatchDone \/ SkipLine \/ LeaveForShutdown
            \/ HandleError \/ PipelineEnds

TailNext ==
    \/ \E mark \in Marks, key \in LogKeys, part \in {"whole", "head"} :
          AppendLine(mark, part, key)
    \/ \E key \in LogKeys : AppendTail(key)
    \/ \E left \in {<<>>, Gone} : Rotate(left)
    \/ BuildHandlers
    \/ StartObserver
    \/ Signal
    \/ End
    \/ Dispatch
    \/ PipelineKillsThread
    \/ LogTick

TailSpec == TailInit /\ [][TailNext]_tailVars /\ WF_tailVars(Dispatch)

-----------------------------------------------------------------------------
TailTypeOK ==
    /\ log = Gone \/ log \in Seq(Pieces)
    /\ written \in 0..MaxLines
    /\ event \in BOOLEAN
    /\ now \in 0..MaxLogTime
    /\ agent \in {"down", "built", "up", "stopping"}
    /\ thread \in {"idle", "stated", "lines", "pipeline", "dead"}
    /\ file_ptr \in 0..(2 * MaxLines + 1)
    /\ batch \in Seq(Pieces)
    /\ seenKeys \in Seq([key : LogKeys, at : 0..MaxLogTime])
    /\ starts \in 0..MaxStarts
    /\ rotations \in 0..MaxRotations
    /\ offered \in [Lines -> [Halves -> Nat]]
    /\ foreign \in BOOLEAN
    /\ blind \in Nat

\* No part of a line is handled twice, however the writer, rotations and restarts
\* of the agent come between the steps of on_modified.  The halves of a line that
\* are read apart are two lines to the handler, and are two errors if error_pattern
\* is found in either: it keeps no unfinished line for the next read.
HandledOnce == \A n \in Lines, h \in Halves : offered[n][h] <= 1

OfferedOnce(p) == \A h \in HalvesOf(p) : offered[p.line][h] = 1

\* When on_modified has returned, every error the offset has passed has been put
\* to the debouncer, unless the offset came from an earlier file or the agent
\* was not there (blind), or a shutdown or a dead thread dropped it.
NothingSkipped ==
    agent = "up" /\ thread = "idle" /\ log # Gone /\ ~foreign =>
        \A i \in DOMAIN log :
            blind < i /\ i <= file_ptr /\ IsError(log[i]) => OfferedOnce(log[i])

\* on_modified puts what it takes for an error line to the debouncer exactly once,
\* and no part of it a second time with another line.
EachErrorOnce == HandledOnce /\ NothingSkipped

\* The file holds line n, an error written at once, and nothing has read it.
Unread(n) == log # Gone /\ \E i \in DOMAIN log :
                /\ foreign \/ i > file_ptr
                /\ log[i].line = n /\ log[i].part = "whole" /\ IsError(log[i])
InFile(n) == log # Gone /\ \E i \in DOMAIN log : i > blind /\ log[i].line = n

\* An error line whose modification was reported is handled, unless the process
\* or its dispatch thread ends, or the file is rotated away before it is read.
ReportedErrorIsHandled ==
    \A n \in Lines :
        (Unread(n) /\ event /\ agent = "up" /\ thread # "dead")
            ~> (offered[n]["head"] > 0 \/ agent # "up" \/ thread = "dead" \/ ~InFile(n))
=============================================================================
