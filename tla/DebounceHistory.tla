--------------------------- MODULE DebounceHistory ---------------------------
(***************************************************************************)
(* The OrderedDict of src/utils/debouncer.py as a sequence, oldest first,  *)
(* of the keys that were let through and the times they were recorded      *)
(* with.  A key stands for the MD5 of a normalised first line.             *)
(***************************************************************************)
EXTENDS Integers, Sequences, SequencesExt

Entry(key, at) == [key |-> key, at |-> at]

Known(h, key) == \E i \in DOMAIN h : h[i].key = key

\* now - last_seen < cooldown_seconds; now was read before the lock was taken,
\* so the difference may be negative.
Cooling(h, key, now, cooldown) ==
    \E i \in DOMAIN h : h[i].key = key /\ now - h[i].at < cooldown

\* A key has one entry at most.
Place(h, key) == CHOOSE i \in DOMAIN h : h[i].key = key
Without(h, key) == IF Known(h, key) THEN RemoveAt(h, Place(h, key)) ELSE h

\* Wrong variant: setdefault in place of the assignment.
StoredOnce(h, key, now) == IF Known(h, key) THEN h ELSE Append(h, Entry(key, now))

\* self._history[key] = now and move_to_end.
Stored(h, key, now) == Append(Without(h, key), Entry(key, now))

\* Wrong variant: nothing is forgotten.
Untrimmed(h, capacity) == h

\* popitem(last=False) beyond max_cache_size.
Trimmed(h, capacity) == IF Len(h) > capacity THEN Tail(h) ELSE h

Remembered(h, key, now, capacity) == Trimmed(Stored(h, key, now), capacity)
=============================================================================
