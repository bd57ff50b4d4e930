--------------------------- MODULE WatchingProofs ----------------------------
(***************************************************************************)
(* Proofs about what watches: the debouncer, the log files' handlers, the  *)
(* monitor and the main loop's schedules, for any number of threads, lines,*)
(* rotations, restarts and failures.                                       *)
(***************************************************************************)
EXTENDS Debouncer, LogTail, ProactiveMonitor, MainLoop, SequenceTheorems, TLAPS

-----------------------------------------------------------------------------
(* Debouncer                                                               *)

\* A clock read before the lock was waited for may be older than what others
\* recorded.
HistoryEntries == [key : DebKeys, at : Int]

\* A key is recorded once, with the time of its last pass.
DebInv ==
    /\ clock \in Nat
    /\ history \in Seq(HistoryEntries)
    /\ \A t \in Callers : caller[t].at \in Int /\ (caller[t] # NoCall => caller[t].key \in DebKeys)
    /\ caller \in [Callers -> [key : {AnyKey} \cup DebKeys, at : Int]]
    /\ passed \in [DebKeys -> Seq(Int)]
    /\ \A i, j \in DOMAIN history : history[i].key = history[j].key => i = j
    /\ \A i \in DOMAIN history :
          /\ passed[history[i].key] # <<>>
          /\ passed[history[i].key][Len(passed[history[i].key])] = history[i].at
    /\ \A k \in DebKeys : passed[k] # <<>> => Known(history, k)
    /\ OncePerCooldown

\* Removing the entry of a key leaves the others, in their order.
LEMMA WithoutIs ==
    ASSUME NEW Kept, NEW h \in Seq(Kept), NEW key,
           \A i, j \in DOMAIN h : h[i].key = h[j].key => i = j
    PROVE  /\ Without(h, key) \in Seq(Kept)
           /\ Len(Without(h, key)) <= Len(h)
           /\ \A i \in DOMAIN Without(h, key) : Without(h, key)[i].key # key
           /\ \A i \in DOMAIN Without(h, key) : \E j \in DOMAIN h : Without(h, key)[i] = h[j]
           /\ \A i, j \in DOMAIN Without(h, key) :
                 Without(h, key)[i].key = Without(h, key)[j].key => i = j
           /\ \A k : k # key /\ Known(h, k) => Known(Without(h, key), k)
<1>1. CASE ~Known(h, key)
  <2>1. Without(h, key) = h /\ Len(h) \in Nat
    BY <1>1 DEF Without
  <2>2. Len(h) <= Len(h)
    BY <2>1
  <2> QED
    BY <1>1, <2>1, <2>2 DEF Known
<1>2. CASE Known(h, key)
  <2> DEFINE p == Place(h, key)
             w == RemoveAt(h, p)
  <2>1. p \in 1..Len(h) /\ h[p].key = key
    BY <1>2 DEF Known, Place
  <2>2. w \in Seq(Kept) /\ Len(w) = Len(h) - 1
    <3> DEFINE a == SubSeq(h, 1, p - 1)
               b == SubSeq(h, p + 1, Len(h))
    <3>1. a \in Seq(Kept) /\ Len(a) = p - 1
      BY <2>1
    <3>2. b \in Seq(Kept) /\ Len(b) = Len(h) - p
      BY <2>1
    <3>3. w = a \o b
      BY DEF RemoveAt
    <3>4. p \in Nat /\ Len(h) \in Nat
      BY <2>1
    <3> HIDE DEF p, a, b, w
    <3>5. a \o b \in Seq(Kept) /\ Len(a \o b) = Len(a) + Len(b)
      BY <3>1, <3>2, ConcatProperties
    <3> QED
      BY <3>1, <3>2, <3>3, <3>4, <3>5
  <2>3. /\ \A i \in 1..(p - 1) : w[i] = h[i]
        /\ \A i \in p..(Len(h) - 1) : w[i] = h[i + 1]
    <3>1. /\ SubSeq(h, 1, p - 1) \in Seq(Kept) /\ Len(SubSeq(h, 1, p - 1)) = p - 1
          /\ \A i \in 1..(p - 1) : SubSeq(h, 1, p - 1)[i] = h[i]
      BY <2>1
    <3>2. /\ SubSeq(h, p + 1, Len(h)) \in Seq(Kept) /\ Len(SubSeq(h, p + 1, Len(h))) = Len(h) - p
          /\ \A i \in 1..(Len(h) - p) : SubSeq(h, p + 1, Len(h))[i] = h[p + i]
      BY <2>1
    <3>3. \A i \in p..(Len(h) - 1) : i - (p - 1) \in 1..(Len(h) - p) /\ p + (i - (p - 1)) = i + 1
      BY <2>1
    <3> DEFINE a == SubSeq(h, 1, p - 1)
               b == SubSeq(h, p + 1, Len(h))
    <3>4. w = a \o b
      BY DEF RemoveAt
    <3>5. /\ a \in Seq(Kept) /\ Len(a) = p - 1 /\ \A i \in 1..(p - 1) : a[i] = h[i]
          /\ b \in Seq(Kept) /\ Len(b) = Len(h) - p
          /\ \A i \in 1..(Len(h) - p) : b[i] = h[p + i]
          /\ Len(h) \in Nat
      BY <3>1, <3>2
    <3> HIDE DEF p, a, b, w
    <3>6. /\ \A i \in 1..Len(a) : w[i] = a[i]
          /\ \A i \in 1..Len(b) : w[Len(a) + i] = b[i]
      BY <3>4, <3>5
    <3>7. \A i \in p..(Len(h) - 1) : w[i] = h[i + 1]
      <4> SUFFICES ASSUME NEW i \in p..(Len(h) - 1) PROVE w[i] = h[i + 1]
        OBVIOUS
      <4>1. i - (p - 1) \in 1..Len(b) /\ Len(a) + (i - (p - 1)) = i
        BY <2>1, <3>3, <3>5
      <4>2. w[i] = b[i - (p - 1)]
        BY <3>6, <4>1
      <4> QED
        BY <3>3, <3>5, <4>1, <4>2
    <3> QED
      BY <3>5, <3>6, <3>7
  <2>4. Without(h, key) = w
    BY <1>2 DEF Without
  <2> HIDE DEF w, p
  <2> DEFINE old(i) == IF i < p THEN i ELSE i + 1
  <2>a. \A i \in 1..Len(w) : old(i) \in 1..Len(h) /\ old(i) # p /\ w[i] = h[old(i)]
    <3> SUFFICES ASSUME NEW i \in 1..Len(w)
                 PROVE  old(i) \in 1..Len(h) /\ old(i) # p /\ w[i] = h[old(i)]
      OBVIOUS
    <3>1. CASE i < p
      BY <2>1, <2>2, <2>3, <3>1
    <3>2. CASE ~(i < p)
      BY <2>1, <2>2, <2>3, <3>2
    <3> QED
      BY <3>1, <3>2
  <2>b. \A i, j \in 1..Len(w) : old(i) = old(j) => i = j
    BY <2>1, <2>2
  <2> HIDE DEF old
  <2>5. \A i \in 1..Len(w) : w[i].key # key
    BY <2>1, <2>a
  <2>6. \A i, j \in 1..Len(w) : w[i].key = w[j].key => i = j
    BY <2>a, <2>b
  <2>7. \A i \in 1..Len(w) : \E j \in 1..Len(h) : w[i] = h[j]
    BY <2>a
  <2>8. ASSUME NEW k, k # key, Known(h, k) PROVE Known(w, k)
    <3>1. PICK j \in 1..Len(h) : h[j].key = k
      BY <2>8 DEF Known
    <3>2. j # p
      BY <2>1, <2>8, <3>1
    <3>3. CASE j < p
      BY <2>1, <2>2, <2>3, <3>1, <3>3 DEF Known
    <3>4. CASE j > p
      <4>1. j - 1 \in 1..Len(w) /\ j - 1 \in p..(Len(h) - 1) /\ (j - 1) + 1 = j
        BY <2>1, <2>2, <3>4
      <4>2. w[j - 1] = h[j]
        BY <2>3, <4>1
      <4> QED
        BY <2>2, <3>1, <4>1, <4>2 DEF Known
    <3> QED
      BY <2>1, <3>2, <3>3, <3>4
  <2>9. DOMAIN w = 1..Len(w) /\ DOMAIN h = 1..Len(h)
    BY <2>2
  <2>10. Len(w) <= Len(h)
    BY <2>2
  <2> QED
    BY <2>2, <2>4, <2>5, <2>6, <2>7, <2>8, <2>9, <2>10
<1> QED
  BY <1>1, <1>2

\* What is stored last is new, and only the oldest may be forgotten for it.
LEMMA RememberedIs ==
    ASSUME NEW Kept, NEW h \in Seq(Kept), NEW key, NEW moment, NEW most,
           Entry(key, moment) \in Kept,
           \A i, j \in DOMAIN h : h[i].key = h[j].key => i = j
    PROVE  LET r == Remembered(h, key, moment, most)
           IN  /\ r \in Seq(Kept)
               /\ most \in Nat /\ Len(h) <= most => Len(r) <= most
               /\ \A i, j \in DOMAIN r : r[i].key = r[j].key => i = j
               /\ \A i \in DOMAIN r : \/ r[i] = Entry(key, moment)
                                      \/ r[i].key # key /\ \E j \in DOMAIN h : r[i] = h[j]
<1> DEFINE w == Without(h, key)
           s == Stored(h, key, moment)
           r == Remembered(h, key, moment, most)
<1>1. /\ w \in Seq(Kept)
      /\ \A i \in DOMAIN w : w[i].key # key
      /\ \A i \in DOMAIN w : \E j \in DOMAIN h : w[i] = h[j]
      /\ \A i, j \in DOMAIN w : w[i].key = w[j].key => i = j
  BY WithoutIs
<1>0. Len(w) <= Len(h)
  BY WithoutIs
<1> HIDE DEF w
<1>2. Entry(key, moment) \in Kept /\ Entry(key, moment).key = key
  BY DEF Entry
<1>3. s = Append(w, Entry(key, moment))
  BY DEF s, Stored, w
<1>4. /\ s \in Seq(Kept) /\ Len(s) = Len(w) + 1
      /\ s[Len(s)] = Entry(key, moment)
      /\ \A i \in 1..Len(w) : s[i] = w[i]
  BY <1>1, <1>2, <1>3
<1> HIDE DEF s
<1>5. \A i, j \in 1..Len(s) : s[i].key = s[j].key => i = j
  <2>1. Len(w) \in Nat /\ DOMAIN w = 1..Len(w)
    BY <1>1
  <2>2. \A i \in 1..Len(s) : i = Len(s) \/ i \in 1..Len(w)
    BY <1>4, <2>1
  <2>3. \A i \in 1..Len(w) : s[i].key # key
    BY <1>1, <1>4, <2>1
  <2> SUFFICES ASSUME NEW i \in 1..Len(s), NEW j \in 1..Len(s), s[i].key = s[j].key PROVE i = j
    OBVIOUS
  <2>4. CASE i \in 1..Len(w) /\ j \in 1..Len(w)
    BY <1>1, <1>4, <2>1, <2>4
  <2>5. CASE i \in 1..Len(w) /\ j = Len(s)
    BY <1>2, <1>4, <2>3, <2>5
  <2>6. CASE i = Len(s) /\ j \in 1..Len(w)
    BY <1>2, <1>4, <2>3, <2>6
  <2> QED
    BY <2>2, <2>4, <2>5, <2>6
<1>6. \A i \in 1..Len(s) : \/ s[i] = Entry(key, moment)
                           \/ s[i].key # key /\ \E j \in DOMAIN h : s[i] = h[j]
  BY <1>1, <1>4
<1>7. r = s \/ r = Tail(s)
  BY DEF r, s, Remembered, Trimmed
<1>8. Tail(s) \in Seq(Kept) /\ Len(Tail(s)) = Len(s) - 1
      /\ \A i \in 1..Len(Tail(s)) : Tail(s)[i] = s[i + 1]
  BY <1>1, <1>4
<1>11. ASSUME most \in Nat, Len(h) <= most PROVE Len(r) <= most
  <2>1. Len(w) \in Nat /\ Len(h) \in Nat /\ Len(s) \in Nat
    BY <1>1, <1>4
  <2>2. r = IF Len(s) > most THEN Tail(s) ELSE s
    BY DEF r, s, Remembered, Trimmed
  <2>3. Len(s) <= most + 1 /\ Len(Tail(s)) <= most
    BY <1>4, <1>8, <1>11, <1>0, <2>1
  <2> QED
    BY <1>11, <2>1, <2>2, <2>3
<1> HIDE DEF r
<1>9. CASE r = s
  BY <1>4, <1>5, <1>6, <1>9, <1>11 DEF r
<1>10. CASE r = Tail(s)
  <2>1. r \in Seq(Kept) /\ Len(r) = Len(s) - 1 /\ \A i \in 1..Len(r) : r[i] = s[i + 1] /\ i + 1 \in 1..Len(s)
    BY <1>4, <1>8, <1>10
  <2>2. ASSUME NEW i \in 1..Len(r), NEW j \in 1..Len(r), r[i].key = r[j].key
        PROVE  i = j
    <3>1. /\ i + 1 \in 1..Len(s) /\ r[i] = s[i + 1]
          /\ j + 1 \in 1..Len(s) /\ r[j] = s[j + 1]
      BY <2>1
    <3>2. i + 1 = j + 1
      BY <1>5, <2>2, <3>1
    <3> QED
      BY <3>2
  <2>3. \A i \in 1..Len(r) : \/ r[i] = Entry(key, moment)
                             \/ r[i].key # key /\ \E j \in DOMAIN h : r[i] = h[j]
    BY <1>6, <2>1
  <2>4. DOMAIN r = 1..Len(r)
    BY <2>1
  <2> QED
    BY <1>11, <2>1, <2>2, <2>3, <2>4 DEF r
<1> QED
  BY <1>7, <1>9, <1>10

\* An empty history, and nobody in a call.
LEMMA DebInvInit == DebInit => DebInv
<1> SUFFICES ASSUME DebInit PROVE DebInv
  OBVIOUS
<1>1. \A t \in Callers : caller[t] = NoCall /\ NoCall = [key |-> AnyKey, at |-> -1]
  BY DEF DebInit, NoCall, Entry, Outside
<1>2. history = <<>> /\ passed = [k \in DebKeys |-> <<>>]
  BY DEF DebInit
<1>3. caller \in [Callers -> [key : {AnyKey} \cup DebKeys, at : Int]]
  BY <1>1 DEF DebInit
<1> QED
  BY <1>1, <1>2, <1>3 DEF DebInit, DebInv, OncePerCooldown, Known

\* A call that is let through comes a cooldown after every earlier one.
LEMMA LetThroughKeeps ==
    ASSUME DebInv, NEW t \in Callers, LetThrough(t)
    PROVE  DebInv'
<1> DEFINE key == caller[t].key
           moment == caller[t].at
           r == Remembered(history, key, moment, MAX_CACHE_SIZE)
<1>1. key \in DebKeys /\ moment \in Int
  BY DEF DebInv, LetThrough
<1>2. /\ r \in Seq(HistoryEntries)
      /\ \A i, j \in DOMAIN r : r[i].key = r[j].key => i = j
      /\ \A i \in DOMAIN r : \/ r[i] = Entry(key, moment)
                             \/ r[i].key # key /\ \E j \in DOMAIN history : r[i] = history[j]
  <2>1. Entry(key, moment) \in HistoryEntries
    BY <1>1 DEF Entry, HistoryEntries
  <2> QED
    BY <2>1, RememberedIs DEF DebInv
<1>3. /\ history' = r
      /\ passed' = [k \in DebKeys |-> IF ~Known(r, k) THEN <<>>
                                      ELSE IF k = key THEN Append(passed[k], moment)
                                      ELSE passed[k]]
      /\ caller' = [caller EXCEPT ![t] = NoCall]
      /\ clock' = clock
      /\ ~Cooling(history, key, moment, COOLDOWN)
  BY DEF LetThrough, Judge
<1> HIDE DEF r
<1>4. passed[key] \in Seq(Int) /\ \A i \in DOMAIN passed[key] : moment - passed[key][i] >= COOLDOWN
  <2>1. passed[key] \in Seq(Int)
    BY <1>1 DEF DebInv
  <2>2. CASE passed[key] = <<>>
    BY <2>2
  <2>3. CASE passed[key] # <<>>
    <3>1. PICK i \in DOMAIN history : history[i].key = key
      BY <1>1, <2>3 DEF DebInv, Known
    <3>a. history[i] \in HistoryEntries
      BY <3>1 DEF DebInv
    <3>2. history[i].at = passed[key][Len(passed[key])] /\ history[i].at \in Int
      BY <3>1, <3>a DEF DebInv, HistoryEntries
    <3>3. ~(moment - history[i].at < COOLDOWN)
      BY <1>3, <3>1 DEF Cooling
    <3>4. \A j \in 1..Len(passed[key]) : passed[key][Len(passed[key])] >= passed[key][j]
      <4> SUFFICES ASSUME NEW j \in 1..Len(passed[key])
                   PROVE  passed[key][Len(passed[key])] >= passed[key][j]
        OBVIOUS
      <4>1. passed[key][j] \in Int /\ Len(passed[key]) \in 1..Len(passed[key])
        BY <2>1
      <4>2. CASE j = Len(passed[key])
        BY <4>1, <4>2, <3>2
      <4>3. CASE j < Len(passed[key])
        <5>1. passed[key][Len(passed[key])] - passed[key][j] >= COOLDOWN
          BY <1>1, <2>1, <4>1, <4>3 DEF DebInv, OncePerCooldown
        <5> QED
          BY <3>2, <4>1, <5>1, DebouncerAssumption
      <4> QED
        BY <2>1, <4>2, <4>3
    <3>5. \A j \in 1..Len(passed[key]) : passed[key][j] \in Int
      BY <2>1
    <3>6. COOLDOWN \in Int /\ DOMAIN passed[key] = 1..Len(passed[key])
      BY <2>1, DebouncerAssumption
    <3> HIDE DEF moment, key
    <3>7. moment \in Int
      BY <1>1
    <3> QED
      BY <2>1, <3>2, <3>3, <3>4, <3>5, <3>6, <3>7
  <2> QED
    BY <2>1, <2>2, <2>3
<1>5. \A k \in DebKeys : k # key /\ Known(r, k) => Known(history, k)
  BY <1>2 DEF Known, Entry
<1>6. /\ Append(passed[key], moment) \in Seq(Int)
      /\ Append(passed[key], moment) # <<>>
      /\ Append(passed[key], moment)[Len(Append(passed[key], moment))] = moment
      /\ \A i, j \in DOMAIN Append(passed[key], moment) :
            i < j => Append(passed[key], moment)[j] - Append(passed[key], moment)[i] >= COOLDOWN
  <2> DEFINE a == Append(passed[key], moment)
  <2>1. /\ a \in Seq(Int) /\ Len(a) = Len(passed[key]) + 1 /\ a[Len(a)] = moment
        /\ \A i \in 1..Len(passed[key]) : a[i] = passed[key][i]
    BY <1>1, <1>4
  <2>2. \A i, j \in DOMAIN passed[key] : i < j => passed[key][j] - passed[key][i] >= COOLDOWN
    BY <1>1 DEF DebInv, OncePerCooldown
  <2> HIDE DEF a
  <2>a. Len(passed[key]) \in Nat /\ DOMAIN passed[key] = 1..Len(passed[key]) /\ DOMAIN a = 1..Len(a)
    BY <1>4, <2>1
  <2>3. \A i, j \in 1..Len(a) : i < j => a[j] - a[i] >= COOLDOWN
    <3> SUFFICES ASSUME NEW i \in 1..Len(a), NEW j \in 1..Len(a), i < j
                 PROVE  a[j] - a[i] >= COOLDOWN
      OBVIOUS
    <3>1. i \in 1..Len(passed[key]) /\ a[i] = passed[key][i]
      BY <2>1, <2>a
    <3>2. CASE j = Len(a)
      BY <1>4, <2>1, <2>a, <3>1, <3>2
    <3>3. CASE j # Len(a)
      <4>b. \A n \in Nat : \A m \in 1..(n + 1) : m # n + 1 => m \in 1..n
        OBVIOUS
      <4>1. j \in 1..Len(passed[key])
        BY <2>1, <2>a, <3>3, <4>b
      <4>a. a[j] = passed[key][j]
        BY <2>1, <4>1
      <4>2. i \in DOMAIN passed[key] /\ j \in DOMAIN passed[key]
        BY <2>a, <3>1, <4>1
      <4>3. passed[key][j] - passed[key][i] >= COOLDOWN
        BY <2>2, <4>2
      <4> QED
        BY <3>1, <4>a, <4>3
    <3> QED
      BY <3>2, <3>3
  <2>4. a # <<>>
    BY <2>1, <2>a
  <2> QED
    BY <2>1, <2>3, <2>4, <2>a DEF a
<1>7. \A k \in DebKeys : /\ passed'[k] \in Seq(Int)
                         /\ ~Known(r, k) => passed'[k] = <<>>
                         /\ Known(r, k) /\ k = key => passed'[k] = Append(passed[key], moment)
                         /\ Known(r, k) /\ k # key => passed'[k] = passed[k]
  BY <1>3, <1>6 DEF DebInv
<1>8. passed' \in [DebKeys -> Seq(Int)]
  BY <1>3, <1>7
<1>9. (\A i \in DOMAIN history : /\ passed[history[i].key] # <<>>
                                 /\ passed[history[i].key][Len(passed[history[i].key])] = history[i].at)'
  <2> SUFFICES ASSUME NEW i \in DOMAIN r
               PROVE  /\ passed'[r[i].key] # <<>>
                      /\ passed'[r[i].key][Len(passed'[r[i].key])] = r[i].at
    BY <1>3
  <2>a. r[i] \in HistoryEntries
    BY <1>2
  <2>1. Known(r, r[i].key) /\ r[i].key \in DebKeys
    BY <2>a DEF Known, HistoryEntries
  <2>2. CASE r[i] = Entry(key, moment)
    <3>1. r[i].key = key /\ r[i].at = moment
      BY <2>2 DEF Entry
    <3>2. passed'[r[i].key] = Append(passed[key], moment)
      BY <1>7, <2>1, <3>1
    <3> QED
      BY <1>6, <3>1, <3>2
  <2>3. CASE r[i].key # key /\ \E j \in DOMAIN history : r[i] = history[j]
    <3>1. passed'[r[i].key] = passed[r[i].key]
      BY <1>7, <2>1, <2>3
    <3>2. PICK j \in DOMAIN history : r[i] = history[j]
      BY <2>3
    <3> QED
      BY <3>1, <3>2 DEF DebInv
  <2> QED
    BY <1>2, <2>2, <2>3
<1>10. (\A k \in DebKeys : passed[k] # <<>> => Known(history, k))'
  BY <1>3, <1>7
<1>11. OncePerCooldown'
  <2> SUFFICES ASSUME NEW k \in DebKeys, NEW i \in DOMAIN passed'[k], NEW j \in DOMAIN passed'[k], i < j
               PROVE  passed'[k][j] - passed'[k][i] >= COOLDOWN
    BY DEF OncePerCooldown
  <2>1. CASE ~Known(r, k)
    BY <1>7, <2>1
  <2>2. CASE Known(r, k) /\ k = key
    <3>1. passed'[k] = Append(passed[key], moment)
      BY <1>7, <2>2
    <3> QED
      BY <1>6, <3>1
  <2>3. CASE Known(r, k) /\ k # key
    <3>1. passed'[k] = passed[k]
      BY <1>7, <2>3
    <3> QED
      BY <3>1 DEF DebInv, OncePerCooldown
  <2> QED
    BY <2>1, <2>2, <2>3
<1>12. /\ caller' \in [Callers -> [key : {AnyKey} \cup DebKeys, at : Int]]
       /\ \A s \in Callers : caller'[s].at \in Int /\ (caller'[s] # NoCall => caller'[s].key \in DebKeys)
  <2>1. NoCall \in [key : {AnyKey} \cup DebKeys, at : Int] /\ NoCall.at \in Int
    BY DEF NoCall, Entry, Outside
  <2>2. \A s \in Callers : caller'[s] = IF s = t THEN NoCall ELSE caller[s]
    BY <1>3 DEF DebInv
  <2> QED
    BY <1>3, <2>1, <2>2 DEF DebInv
<1>13. clock' \in Nat
  BY <1>3 DEF DebInv
<1> QED
  BY <1>2, <1>3, <1>8, <1>9, <1>10, <1>11, <1>12, <1>13 DEF DebInv

\* Every step of the threads and of the clock keeps the invariant.
LEMMA DebInvStep == DebInv /\ DebNext => DebInv'
<1> SUFFICES ASSUME DebInv, DebNext PROVE DebInv'
  OBVIOUS
<1>1. ASSUME NEW t \in Callers, NEW c, c.key \in {AnyKey} \cup DebKeys, c.at \in Int,
             c = [key |-> c.key, at |-> c.at], c # NoCall => c.key \in DebKeys,
             caller' = [caller EXCEPT ![t] = c], UNCHANGED <<clock, history, passed>>
      PROVE  DebInv'
  <2>1. \A s \in Callers : caller'[s] = IF s = t THEN c ELSE caller[s]
    BY <1>1 DEF DebInv
  <2>2. c \in [key : {AnyKey} \cup DebKeys, at : Int]
    BY <1>1
  <2>3. caller' \in [Callers -> [key : {AnyKey} \cup DebKeys, at : Int]]
    BY <1>1, <2>2 DEF DebInv
  <2> QED
    BY <1>1, <2>1, <2>3 DEF DebInv, OncePerCooldown, Known
<1>2. ASSUME NEW t \in Callers, NEW key \in DebKeys, ReadClock(t, key) PROVE DebInv'
  <2> DEFINE c == [key |-> key, at |-> clock]
  <2>1. c.key \in {AnyKey} \cup DebKeys /\ c.at \in Int /\ c = [key |-> c.key, at |-> c.at]
        /\ c.key \in DebKeys
    BY DEF DebInv
  <2>2. caller' = [caller EXCEPT ![t] = c] /\ UNCHANGED <<clock, history, passed>>
    BY <1>2 DEF ReadClock, Entry
  <2> HIDE DEF c
  <2> QED
    BY <1>1, <2>1, <2>2
<1>3. ASSUME NEW t \in Callers, Suppress(t) PROVE DebInv'
  <2>1. NoCall.key \in {AnyKey} \cup DebKeys /\ NoCall.at \in Int
        /\ NoCall = [key |-> NoCall.key, at |-> NoCall.at]
    BY DEF NoCall, Entry, Outside
  <2>2. caller' = [caller EXCEPT ![t] = NoCall] /\ UNCHANGED <<clock, history, passed>>
    BY <1>3 DEF Suppress
  <2> QED
    BY <1>1, <2>1, <2>2
<1>4. ASSUME NEW t \in Callers, LetThrough(t) PROVE DebInv'
  BY <1>4, LetThroughKeeps
<1>5. CASE DebTick
  <2>1. clock' \in Nat /\ UNCHANGED <<history, caller, passed>>
    BY <1>5 DEF DebTick, DebInv
  <2> QED
    BY <2>1 DEF DebInv, OncePerCooldown, Known
<1> QED
  BY <1>2, <1>3, <1>4, <1>5 DEF DebNext

LEMMA DebInvStutter == DebInv /\ UNCHANGED debVars => DebInv'
BY DEF DebInv, OncePerCooldown, Known, debVars

\* The types of the run, which bounds the clock.
DebTypes ==
    /\ DebTypeOK
    /\ \A t \in Callers : caller[t] # NoCall => caller[t].at \in 0..MaxTime

\* A key with the time at which it came.
TimedEntries == [key : DebKeys, at : 0..MaxTime]

\* No call is under way and nothing is remembered.
LEMMA DebTypesInit == DebInit => DebTypes
<1> SUFFICES ASSUME DebInit PROVE DebTypes
  OBVIOUS
<1>1. NoCall \in [key : DebKeys, at : 0..MaxTime \cup {Outside}]
  BY DebouncerAssumption DEF NoCall, Entry, AnyKey
<1>2. caller \in [Callers -> [key : DebKeys, at : 0..MaxTime \cup {Outside}]]
      /\ \A t \in Callers : caller[t] = NoCall
  BY <1>1 DEF DebInit
<1>3. clock \in 0..MaxTime /\ history = <<>> /\ Len(history) <= MAX_CACHE_SIZE
  BY DebouncerAssumption DEF DebInit
<1>4. passed \in [DebKeys -> Seq(0..MaxTime)]
  BY DEF DebInit
<1>5. history \in Seq([key : DebKeys, at : 0..MaxTime])
  BY <1>3
<1> QED
  BY <1>2, <1>3, <1>4, <1>5 DEF DebTypes, DebTypeOK

\* A thread keeps a time that was read from the clock.
LEMMA DebTypesStep == DebInv /\ DebTypes /\ DebNext => DebTypes'
<1> SUFFICES ASSUME DebInv, DebTypes, DebNext PROVE DebTypes'
  OBVIOUS
<1> DEFINE Calls == [key : DebKeys, at : 0..MaxTime \cup {Outside}]
<1>0. /\ clock \in 0..MaxTime /\ history \in Seq(TimedEntries) /\ Len(history) <= MAX_CACHE_SIZE
      /\ caller \in [Callers -> Calls] /\ passed \in [DebKeys -> Seq(0..MaxTime)]
      /\ MaxTime \in Nat /\ MAX_CACHE_SIZE \in Nat
  BY DebouncerAssumption DEF DebTypes, DebTypeOK, TimedEntries
<1>1. NoCall \in Calls
  BY DebouncerAssumption DEF NoCall, Entry, AnyKey
<1>2. ASSUME NEW t \in Callers, NEW c \in Calls, caller' = [caller EXCEPT ![t] = c],
             c # NoCall => c.at \in 0..MaxTime
      PROVE  /\ caller' \in [Callers -> Calls]
             /\ \A s \in Callers : caller'[s] # NoCall => caller'[s].at \in 0..MaxTime
  <2>1. caller' \in [Callers -> Calls]
    <3> HIDE DEF Calls
    <3> QED
      BY <1>0, <1>2
  <2>2. \A s \in Callers : caller'[s] = IF s = t THEN c ELSE caller[s]
    BY <1>0, <1>2
  <2> QED
    BY <1>2, <2>1, <2>2 DEF DebTypes
<1>3. ASSUME NEW t \in Callers, NEW key \in DebKeys, ReadClock(t, key) PROVE DebTypes'
  <2>1. Entry(key, clock) \in Calls /\ Entry(key, clock).at \in 0..MaxTime
    BY <1>0 DEF Entry
  <2>2. caller' = [caller EXCEPT ![t] = Entry(key, clock)] /\ UNCHANGED <<clock, history, passed>>
    BY <1>3 DEF ReadClock
  <2>3. /\ caller' \in [Callers -> Calls]
        /\ \A s \in Callers : caller'[s] # NoCall => caller'[s].at \in 0..MaxTime
    <3> HIDE DEF Calls
    <3> QED
      BY <1>2, <2>1, <2>2
  <2> QED
    BY <1>0, <2>2, <2>3 DEF DebTypes, DebTypeOK, TimedEntries
<1>4. ASSUME NEW t \in Callers, Suppress(t) PROVE DebTypes'
  <2>1. caller' = [caller EXCEPT ![t] = NoCall] /\ UNCHANGED <<clock, history, passed>>
    BY <1>4 DEF Suppress
  <2>2. /\ caller' \in [Callers -> Calls]
        /\ \A s \in Callers : caller'[s] # NoCall => caller'[s].at \in 0..MaxTime
    <3> HIDE DEF Calls
    <3> QED
      BY <1>1, <1>2, <2>1
  <2> QED
    BY <1>0, <2>1, <2>2 DEF DebTypes, DebTypeOK, TimedEntries
<1>5. ASSUME NEW t \in Callers, LetThrough(t) PROVE DebTypes'
  <2> DEFINE key == caller[t].key
             moment == caller[t].at
             r == Remembered(history, key, moment, MAX_CACHE_SIZE)
  <2>1. caller[t] # NoCall /\ caller' = [caller EXCEPT ![t] = NoCall] /\ clock' = clock
    BY <1>5 DEF LetThrough
  <2>2. key \in DebKeys /\ moment \in 0..MaxTime
    BY <1>0, <2>1 DEF DebTypes
  <2>3. Entry(key, moment) \in TimedEntries
    BY <2>2 DEF Entry, TimedEntries
  <2>4. r \in Seq(TimedEntries) /\ Len(r) <= MAX_CACHE_SIZE
    <3>1. \A i, j \in DOMAIN history : history[i].key = history[j].key => i = j
      BY DEF DebInv
    <3> HIDE DEF key, moment
    <3> QED
      BY <1>0, <2>3, <3>1, RememberedIs
  <2>5. history' = r
    BY <1>5 DEF LetThrough
  <2>6. passed' \in [DebKeys -> Seq(0..MaxTime)]
    <3>1. \A k \in DebKeys : passed[k] \in Seq(0..MaxTime)
      BY <1>0
    <3>2. \A k \in DebKeys : Append(passed[k], moment) \in Seq(0..MaxTime)
      BY <2>2, <3>1
    <3>3. passed' = [k \in DebKeys |-> IF ~Known(history', k) THEN <<>>
                                       ELSE IF k = key THEN Append(passed[k], moment)
                                       ELSE passed[k]]
      BY <1>5 DEF LetThrough
    <3> HIDE DEF key, moment
    <3>4. \A k \in DebKeys : <<>> \in Seq(0..MaxTime)
      OBVIOUS
    <3> QED
      BY <3>1, <3>2, <3>3, <3>4
  <2>7. /\ caller' \in [Callers -> Calls]
        /\ \A s \in Callers : caller'[s] # NoCall => caller'[s].at \in 0..MaxTime
    <3> HIDE DEF Calls
    <3> QED
      BY <1>1, <1>2, <2>1
  <2> HIDE DEF r
  <2> QED
    BY <1>0, <2>1, <2>4, <2>5, <2>6, <2>7 DEF DebTypes, DebTypeOK, TimedEntries
<1>6. CASE DebTick
  <2>1. clock' \in 0..MaxTime /\ UNCHANGED <<history, caller, passed>>
    BY <1>0, <1>6 DEF DebTick
  <2> QED
    BY <2>1 DEF DebTypes, DebTypeOK
<1> QED
  BY <1>3, <1>4, <1>5, <1>6 DEF DebNext

\* And a step of another component changes none of it.
LEMMA DebTypesStutter == DebTypes /\ UNCHANGED debVars => DebTypes'
BY DEF DebTypes, DebTypeOK, debVars

-----------------------------------------------------------------------------
(* LogTail                                                                 *)

\* What a file holds; nothing when it does not exist.
Content == IF log = Gone THEN <<>> ELSE log

\* A head and its tail.
SameLine(p, q) == p.part = "head" /\ q.part = "tail" /\ p.line = q.line /\ p.mark = q.mark

\* Pieces in the order of their lines, every head but the last with its tail, of at
\* most n lines.
OfLog(s, n) ==
    /\ \A i, j \in DOMAIN s : i < j =>
          s[i].line < s[j].line \/ (j = i + 1 /\ SameLine(s[i], s[j]))
    /\ \A i \in DOMAIN s : s[i].part = "head" /\ i < Len(s) => SameLine(s[i], s[i + 1])
    /\ \A i \in DOMAIN s : s[i].line <= n /\ (s[i].mark # "none" => s[i].line # 0)

\* No part of the piece has been put to the debouncer.
Ungiven(p) == p.line # 0 => \A h \in HalvesOf(p) : offered[p.line][h] = 0

\* The next read takes the piece, or one after a rotation may.
Untaken(i) == foreign \/ i > file_ptr

\* What is read comes before what is still to be read; a head that is read without
\* its tail is the last.
InOrder ==
    /\ OfLog(Content, written)
    /\ OfLog(batch, written)
    /\ \A j \in DOMAIN batch, i \in DOMAIN Content : Untaken(i) =>
          \/ batch[j].line < Content[i].line
          \/ j = Len(batch) /\ SameLine(batch[j], Content[i])
    /\ HalfWritten =>
          /\ log[Len(log)].line = written
          /\ \A j \in DOMAIN batch :
                batch[j].line < written \/ (j = Len(batch) /\ batch[j] = log[Len(log)])

\* Nothing that is still to be written, read or handled has been put to the debouncer.
Unoffered ==
    /\ \A n \in Lines : n > written => \A h \in Halves : offered[n][h] = 0
    /\ HalfWritten => offered[written]["tail"] = 0
    /\ \A j \in DOMAIN batch : Ungiven(batch[j])
    /\ agent # "down" => \A i \in DOMAIN Content : Untaken(i) => Ungiven(Content[i])

\* Where the handler is.
HandlerAt ==
    /\ ~foreign => file_ptr <= Len(Content)
    /\ agent = "down" => file_ptr = 0 /\ ~foreign
    /\ agent \in {"down", "built"} => thread = "idle"
    /\ thread \notin {"lines", "pipeline"} => batch = <<>>

\* An error that the offset has passed has been put to the debouncer, or is read and
\* still to be handled.
Taken ==
    agent \in {"built", "up"} /\ ~foreign => \A i \in DOMAIN Content :
        blind < i /\ i <= file_ptr /\ IsError(Content[i]) =>
            \/ OfferedOnce(Content[i])
            \/ thread = "dead"
            \/ \E j \in DOMAIN batch : batch[j] = Content[i]

RecordedOnce == \A i, j \in DOMAIN seenKeys : seenKeys[i].key = seenKeys[j].key => i = j
LogBounded == Len(Content) + (IF HalfWritten THEN 1 ELSE 0) <= 2 * written + 1

TailParts ==
    /\ RecordedOnce
    /\ LogBounded
    /\ HandledOnce
    /\ InOrder
    /\ Unoffered
    /\ HandlerAt
    /\ Taken

TailInv == TailTypeOK /\ TailParts

\* A suffix of what a log holds is in order too.
LEMMA SuffixIs ==
    ASSUME NEW s \in Seq(Pieces), NEW k \in Nat
    PROVE  LET o == SubSeq(s, k + 1, Len(s))
           IN  /\ o \in Seq(Pieces)
               /\ k <= Len(s) => Len(o) = Len(s) - k
               /\ k > Len(s) => Len(o) = 0
               /\ \A j \in 1..Len(o) : k + j \in 1..Len(s) /\ o[j] = s[k + j]
               /\ \A n : OfLog(s, n) => OfLog(o, n)
<1> DEFINE o == SubSeq(s, k + 1, Len(s))
<1>0. Len(s) \in Nat
  OBVIOUS
<1>1. \A i \in (k + 1)..Len(s) : s[i] \in Pieces
  OBVIOUS
<1>a. o \in Seq(Pieces)
  BY <1>0, <1>1, SubSeqProperties
<1>b. ASSUME k < Len(s)
      PROVE  Len(o) = Len(s) - k /\ \A j \in 1..Len(o) : k + j \in 1..Len(s) /\ o[j] = s[k + j]
  <2>1. k + 1 \in Int /\ Len(s) \in Int /\ k + 1 <= Len(s)
    BY <1>0, <1>b
  <2>2. Len(o) = Len(s) - (k + 1) + 1
    BY <1>1, <2>1, SubSeqProperties
  <2>3. \A j \in 1..(Len(s) - (k + 1) + 1) : o[j] = s[(k + 1) + j - 1]
    BY <1>1, <2>1, SubSeqProperties
  <2> HIDE DEF o
  <2>4. Len(s) - (k + 1) + 1 = Len(s) - k
    BY <1>0
  <2>5. \A j \in 1..(Len(s) - k) : (k + 1) + j - 1 = k + j /\ k + j \in 1..Len(s)
    BY <1>0
  <2> QED
    BY <1>0, <1>b, <2>2, <2>3, <2>4, <2>5
<1>c. ASSUME k >= Len(s)
      PROVE  Len(o) = 0 /\ (k = Len(s) => Len(s) - k = 0)
  <2>1. k + 1 \in Int /\ Len(s) \in Int /\ Len(s) < k + 1
    BY <1>0, <1>c
  <2>2. o = <<>>
    BY <2>1, SubSeqEmpty
  <2>3. k = Len(s) => Len(s) - k = 0
    BY <1>0
  <2> QED
    BY <1>0, <1>c, <2>2, <2>3
<1> HIDE DEF o
<1>2. /\ o \in Seq(Pieces)
      /\ k <= Len(s) => Len(o) = Len(s) - k
      /\ k > Len(s) => Len(o) = 0
      /\ \A j \in 1..Len(o) : k + j \in 1..Len(s) /\ o[j] = s[k + j]
  <2>1. CASE k < Len(s)
    <3>1. k <= Len(s) /\ ~(k > Len(s))
      BY <1>0, <2>1
    <3> QED
      BY <1>a, <1>b, <2>1, <3>1
  <2>2. CASE k >= Len(s)
    <3>1. \A j \in 1..Len(o) : FALSE
      BY <1>c, <2>2
    <3>2. k <= Len(s) => k = Len(s)
      BY <1>0, <2>2
    <3> QED
      BY <1>a, <1>c, <2>2, <3>1, <3>2
  <2> QED
    BY <1>0, <2>1, <2>2
<1>3. ASSUME NEW n, OfLog(s, n) PROVE OfLog(o, n)
  <2>0. DOMAIN o = 1..Len(o) /\ Len(o) \in Nat
    BY <1>2
  <2>1. \A i, j \in 1..Len(o) : i < j =>
           o[i].line < o[j].line \/ (j = i + 1 /\ SameLine(o[i], o[j]))
    <3> SUFFICES ASSUME NEW i \in 1..Len(o), NEW j \in 1..Len(o), i < j
                 PROVE  o[i].line < o[j].line \/ (j = i + 1 /\ SameLine(o[i], o[j]))
      OBVIOUS
    <3>1. /\ k + i \in DOMAIN s /\ o[i] = s[k + i]
          /\ k + j \in DOMAIN s /\ o[j] = s[k + j]
      BY <1>2
    <3>a. k + i < k + j /\ (k + j = k + i + 1 => j = i + 1)
      BY <2>0
    <3>2. s[k + i].line < s[k + j].line \/ (k + j = k + i + 1 /\ SameLine(s[k + i], s[k + j]))
      BY <1>3, <3>1, <3>a DEF OfLog
    <3> QED
      BY <3>1, <3>2, <3>a
  <2>2. \A i \in 1..Len(o) : o[i].part = "head" /\ i < Len(o) => SameLine(o[i], o[i + 1])
    <3> SUFFICES ASSUME NEW i \in 1..Len(o), o[i].part = "head", i < Len(o)
                 PROVE  SameLine(o[i], o[i + 1])
      OBVIOUS
    <3>1. i + 1 \in 1..Len(o)
      BY <2>0
    <3>2. /\ k + i \in DOMAIN s /\ o[i] = s[k + i]
          /\ k + (i + 1) \in DOMAIN s /\ o[i + 1] = s[k + (i + 1)]
      BY <1>2, <3>1
    <3>3. k + i < Len(s) /\ k + (i + 1) = (k + i) + 1
      BY <1>0, <3>2
    <3> QED
      BY <1>3, <3>2, <3>3 DEF OfLog
  <2>3. \A i \in 1..Len(o) : o[i].line <= n /\ (o[i].mark # "none" => o[i].line # 0)
    BY <1>2, <1>3 DEF OfLog
  <2> QED
    BY <2>0, <2>1, <2>2, <2>3 DEF OfLog
<1> QED
  BY <1>2, <1>3 DEF o

\* The first line of a batch, and the lines after it.
LEMMA LinesAre ==
    ASSUME NEW s \in Seq(Pieces), s # <<>>, NEW n, OfLog(s, n)
    PROVE  \E k \in {1, 2} :
              /\ k <= Len(s)
              /\ FirstLine(s) \in Pieces /\ FirstLine(s).line = s[1].line
              /\ Len(s) = 1 => FirstLine(s) = s[1]
              /\ IsError(FirstLine(s)) => s[1].mark # "none"
              /\ \A i \in 1..k : s[i].line = s[1].line /\ HalvesOf(s[i]) \subseteq HalvesOf(FirstLine(s))
              /\ \A h \in HalvesOf(FirstLine(s)) : \E i \in 1..k : h \in HalvesOf(s[i])
              /\ ~IsError(FirstLine(s)) => \A i \in 1..k : ~IsError(s[i])
              /\ OtherLines(s) \in Seq(Pieces) /\ OfLog(OtherLines(s), n)
              /\ Len(OtherLines(s)) = Len(s) - k
              /\ \A j \in 1..Len(OtherLines(s)) :
                    /\ k + j \in 1..Len(s) /\ OtherLines(s)[j] = s[k + j]
                    /\ s[1].line < OtherLines(s)[j].line
<1> DEFINE k == IF IsBroken(s) THEN 2 ELSE 1
           f == FirstLine(s)
           o == OtherLines(s)
<1>0. Len(s) \in Nat \ {0} /\ DOMAIN s = 1..Len(s) /\ \A i \in 1..Len(s) : s[i] \in Pieces
  OBVIOUS
<1>1. k \in {1, 2} /\ k <= Len(s)
  BY <1>0 DEF IsBroken
<1>2. o = SubSeq(s, k + 1, Len(s))
  BY DEF OtherLines
<1>3. /\ o \in Seq(Pieces) /\ OfLog(o, n)
      /\ Len(o) = Len(s) - k
      /\ \A j \in 1..Len(o) : k + j \in 1..Len(s) /\ o[j] = s[k + j]
  <2>1. k \in Nat
    BY <1>1
  <2>2. /\ o \in Seq(Pieces) /\ OfLog(o, n)
        /\ k <= Len(s) => Len(o) = Len(s) - k
        /\ \A j \in 1..Len(o) : k + j \in 1..Len(s) /\ o[j] = s[k + j]
    <3> HIDE DEF k, o
    <3> QED
      BY <1>2, <2>1, SuffixIs
  <2>3. Len(o) = Len(s) - k
    <3> HIDE DEF k, o
    <3> QED
      BY <1>0, <1>1, <2>1, <2>2
  <2> HIDE DEF k, o
  <2> QED
    BY <2>2, <2>3
<1>4. CASE IsBroken(s)
  <2>1. 2 \in 1..Len(s) /\ SameLine(s[1], s[2]) /\ k = 2
    BY <1>0, <1>4 DEF OfLog, IsBroken
  <2>a. s[1].part = "head"
    BY <1>4 DEF IsBroken
  <2>2. f = [s[1] EXCEPT !.part = "whole"] /\ s[1] \in Pieces
    BY <1>0, <1>4 DEF FirstLine
  <2>3. f \in Pieces /\ f.line = s[1].line /\ f.part = "whole" /\ f.mark = s[1].mark
    BY <2>2 DEF Pieces
  <2>4. IsError(f) <=> s[1].mark # "none"
    BY <2>3 DEF IsError
  <2>5. s[2].part = "tail" /\ s[2].line = s[1].line /\ s[2].mark = s[1].mark
    BY <2>1 DEF SameLine
  <2>6. IsError(f) => s[1].mark # "none"
    BY <2>4
  <2>9. /\ \A i \in 1..k : s[i].line = s[1].line /\ HalvesOf(s[i]) \subseteq HalvesOf(f)
        /\ \A h \in HalvesOf(f) : \E i \in 1..k : h \in HalvesOf(s[i])
    <3>1. HalvesOf(s[1]) = {"head"} /\ HalvesOf(s[2]) = {"tail"} /\ HalvesOf(f) = {"head", "tail"}
      BY <2>3, <2>5, <2>a DEF HalvesOf, Halves
    <3>2. \A i \in 1..k : i = 1 \/ i = 2
      BY <2>1
    <3>3. 1 \in 1..k /\ 2 \in 1..k
      BY <2>1
    <3> HIDE DEF k, f
    <3> QED
      BY <2>5, <3>1, <3>2, <3>3
  <2>7. ~IsError(f) => \A i \in 1..k : ~IsError(s[i])
    <3>1. IsError(s[1]) => s[1].mark \in {"head", "both"}
      BY <2>a DEF IsError
    <3>2. IsError(s[2]) => s[1].mark \in {"tail", "both"}
      BY <2>5 DEF IsError
    <3> QED
      BY <2>1, <2>4, <3>1, <3>2
  <2>8. \A j \in 1..Len(o) : s[1].line < o[j].line
    <3> SUFFICES ASSUME NEW j \in 1..Len(o) PROVE s[1].line < o[j].line
      OBVIOUS
    <3>a. k = 2 /\ 2 \in 1..Len(s) /\ \A i \in 1..Len(o) : 2 + i \in 1..Len(s) /\ o[i] = s[2 + i]
      BY <1>0, <1>3, <2>1
    <3>b. j \in Nat \ {0}
      BY <1>3
    <3> HIDE DEF k, o
    <3>1. 2 \in DOMAIN s /\ 2 + j \in DOMAIN s /\ o[j] = s[2 + j] /\ 2 < 2 + j
      BY <1>0, <3>a, <3>b
    <3>2. s[2].line < s[2 + j].line
      BY <2>5, <3>1 DEF OfLog, SameLine
    <3> QED
      BY <2>5, <3>1, <3>2
  <2> HIDE DEF f, o
  <2> QED
    BY <1>0, <1>1, <1>3, <1>4, <2>1, <2>3, <2>6, <2>7, <2>8, <2>9 DEF f, o, IsBroken
<1>5. CASE ~IsBroken(s)
  <2>1. k = 1 /\ f = s[1]
    BY <1>5 DEF FirstLine
  <2>2. IsError(f) => s[1].mark # "none"
    <3>1. s[1].part \in {"whole", "head", "tail"}
      BY <1>0 DEF Pieces
    <3> QED
      BY <2>1, <3>1 DEF IsError
  <2>3. \A h \in HalvesOf(f) : \E i \in 1..k : h \in HalvesOf(s[i])
    BY <2>1
  <2>4. \A j \in 1..Len(o) : s[1].line < o[j].line
    <3> SUFFICES ASSUME NEW j \in 1..Len(o) PROVE s[1].line < o[j].line
      OBVIOUS
    <3>c. k = 1 /\ \A i \in 1..Len(o) : k + i \in 1..Len(s) /\ o[i] = s[k + i]
      BY <1>3, <2>1
    <3>a. k = 1 /\ 1 \in 1..Len(s) /\ \A i \in 1..Len(o) : 1 + i \in 1..Len(s) /\ o[i] = s[1 + i]
      <4> HIDE DEF k, o
      <4> QED
        BY <1>0, <3>c
    <3>b. j \in Nat \ {0}
      BY <1>3
    <3> HIDE DEF k, o
    <3>1. 1 \in DOMAIN s /\ 1 + j \in DOMAIN s /\ o[j] = s[1 + j] /\ 1 < 1 + j
      BY <1>0, <3>a, <3>b
    <3>2. s[1].part # "head"
      BY <1>0, <1>5, <3>1 DEF IsBroken
    <3>3. s[1].line < s[1 + j].line
      BY <3>1, <3>2 DEF OfLog, SameLine
    <3> QED
      BY <3>1, <3>3
  <2>5. ~IsError(f) => \A i \in 1..k : ~IsError(s[i])
    BY <2>1
  <2>6. \A i \in 1..k : s[i].line = s[1].line /\ HalvesOf(s[i]) \subseteq HalvesOf(f)
    BY <2>1
  <2>7. f \in Pieces /\ f.line = s[1].line
    BY <1>0, <2>1
  <2> HIDE DEF k, f, o
  <2> QED
    BY <1>1, <1>3, <2>1, <2>2, <2>3, <2>4, <2>5, <2>6, <2>7 DEF f, o
<1> QED
  BY <1>4, <1>5

\* No file, no agent, nothing offered.
LEMMA TailInvInit == TailInit => TailInv
<1> SUFFICES ASSUME TailInit PROVE TailInv
  OBVIOUS
<1> USE DEF TailInit
<1>0. MaxLines \in Nat /\ MaxLogTime \in Nat /\ MaxStarts \in Nat /\ MaxRotations \in Nat
  BY LogTailAssumption
<1>1. TailTypeOK
  <2>1. written \in 0..MaxLines /\ now \in 0..MaxLogTime /\ file_ptr \in 0..(2 * MaxLines + 1)
        /\ starts \in 0..MaxStarts /\ rotations \in 0..MaxRotations /\ blind \in Nat
    BY <1>0
  <2>2. batch \in Seq(Pieces) /\ seenKeys \in Seq([key : LogKeys, at : 0..MaxLogTime])
    OBVIOUS
  <2>3. offered \in [Lines -> [Halves -> Nat]]
    OBVIOUS
  <2> QED
    BY <2>1, <2>2, <2>3 DEF TailTypeOK
<1>2. RecordedOnce /\ HandledOnce /\ HandlerAt /\ Taken
  BY DEF RecordedOnce, HandledOnce, HandlerAt, Taken, Content
<1>3. ~HalfWritten /\ Content = <<>>
  BY DEF HalfWritten, Content
<1>4. LogBounded
  BY <1>3 DEF LogBounded
<1>5. InOrder /\ Unoffered
  BY <1>3 DEF InOrder, OfLog, Unoffered
<1> QED
  BY <1>1, <1>2, <1>4, <1>5 DEF TailInv, TailParts

\* The pieces of the file, and the bound on them.
LEMMA ContentIs ==
    ASSUME TailInv
    PROVE  /\ Content \in Seq(Pieces)
           /\ log # Gone => Content = log /\ Size = Len(log)
           /\ log = Gone => Content = <<>> /\ Size = 0
           /\ Size = Len(Content)
           /\ Len(Content) \in Nat
           /\ Len(Content) <= 2 * MaxLines + 1
<1>1. /\ Content \in Seq(Pieces)
      /\ log # Gone => Content = log /\ Size = Len(log)
      /\ log = Gone => Content = <<>> /\ Size = 0
      /\ Size = Len(Content)
  BY DEF TailInv, TailTypeOK, Content, Size
<1>2. Len(Content) \in Nat
  BY <1>1
<1>3. written \in Nat /\ written <= MaxLines /\ MaxLines \in Nat
  BY LogTailAssumption DEF TailInv, TailTypeOK
<1>4. Len(Content) <= 2 * written + 1
  <2>1. CASE HalfWritten
    BY <1>2, <1>3, <2>1 DEF TailInv, TailParts, LogBounded
  <2>2. CASE ~HalfWritten
    BY <1>2, <1>3, <2>2 DEF TailInv, TailParts, LogBounded
  <2> QED
    BY <2>1, <2>2
<1> QED
  BY <1>1, <1>2, <1>3, <1>4

\* What is read of a file.
LEMMA BatchIs ==
    ASSUME TailInv, log # Gone
    PROVE  /\ Batch(file_ptr) \in Seq(Pieces)
           /\ OfLog(Batch(file_ptr), written)
           /\ file_ptr <= Len(log) => Len(Batch(file_ptr)) = Len(log) - file_ptr
           /\ file_ptr > Len(log) => Len(Batch(file_ptr)) = 0
           /\ \A j \in 1..Len(Batch(file_ptr)) :
                 /\ file_ptr + j \in 1..Len(log)
                 /\ Batch(file_ptr)[j] = log[file_ptr + j]
<1>1. log \in Seq(Pieces) /\ OfLog(log, written)
  BY ContentIs DEF TailInv, TailParts, InOrder
<1>2. file_ptr \in Nat
  BY DEF TailInv, TailTypeOK
<1> QED
  BY <1>1, <1>2, SuffixIs DEF Batch

\* The lines of a batch.
LEMMA BatchLinesAre ==
    ASSUME TailInv, batch # <<>>
    PROVE  \E k \in {1, 2} :
              /\ k <= Len(batch)
              /\ FirstLine(batch) \in Pieces /\ FirstLine(batch).line = batch[1].line
              /\ Len(batch) = 1 => FirstLine(batch) = batch[1]
              /\ IsError(FirstLine(batch)) => batch[1].mark # "none"
              /\ \A i \in 1..k : /\ batch[i].line = batch[1].line
                                /\ HalvesOf(batch[i]) \subseteq HalvesOf(FirstLine(batch))
              /\ \A h \in HalvesOf(FirstLine(batch)) : \E i \in 1..k : h \in HalvesOf(batch[i])
              /\ ~IsError(FirstLine(batch)) => \A i \in 1..k : ~IsError(batch[i])
              /\ OtherLines(batch) \in Seq(Pieces) /\ OfLog(OtherLines(batch), written)
              /\ Len(OtherLines(batch)) = Len(batch) - k
              /\ \A j \in 1..Len(OtherLines(batch)) :
                    /\ k + j \in 1..Len(batch) /\ OtherLines(batch)[j] = batch[k + j]
                    /\ batch[1].line < OtherLines(batch)[j].line
<1>1. batch \in Seq(Pieces) /\ OfLog(batch, written)
  BY DEF TailInv, TailParts, TailTypeOK, InOrder
<1> QED
  BY <1>1, LinesAre

\* What the debouncer keeps when it lets a line through.
LEMMA KeysAre ==
    ASSUME TailInv, batch # <<>>
    PROVE  LET r == Remembered(seenKeys, FirstLine(batch).key, now, DEBOUNCE_CACHE)
           IN  /\ r \in Seq([key : LogKeys, at : 0..MaxLogTime])
               /\ \A i, j \in DOMAIN r : r[i].key = r[j].key => i = j
<1>1. FirstLine(batch) \in Pieces
  BY BatchLinesAre
<1>2. FirstLine(batch).key \in LogKeys /\ now \in 0..MaxLogTime
  BY <1>1 DEF Pieces, TailInv, TailTypeOK
<1>3. Entry(FirstLine(batch).key, now) \in [key : LogKeys, at : 0..MaxLogTime]
  BY <1>2 DEF Entry
<1>4. /\ seenKeys \in Seq([key : LogKeys, at : 0..MaxLogTime])
      /\ \A i, j \in DOMAIN seenKeys : seenKeys[i].key = seenKeys[j].key => i = j
  BY DEF TailInv, TailParts, TailTypeOK, RecordedOnce
<1> DEFINE Kept == [key : LogKeys, at : 0..MaxLogTime]
           key == FirstLine(batch).key
<1>5. seenKeys \in Seq(Kept) /\ Entry(key, now) \in Kept
  BY <1>3, <1>4
<1>6. \A i, j \in DOMAIN seenKeys : seenKeys[i].key = seenKeys[j].key => i = j
  BY <1>4
<1> HIDE DEF Kept, key
<1>7. LET r == Remembered(seenKeys, key, now, DEBOUNCE_CACHE)
      IN  r \in Seq(Kept) /\ \A i, j \in DOMAIN r : r[i].key = r[j].key => i = j
  BY <1>5, <1>6, RememberedIs
<1> QED
  BY <1>7 DEF Kept, key

\* What is written is a piece.
LEMMA WrittenIs ==
    ASSUME TailInv, NEW p \in Pieces, Write(p)
    PROVE  /\ log' = Append(Content, p) /\ log' \in Seq(Pieces) /\ log' # Gone
           /\ Content' = log'
           /\ Len(log') = Len(Content) + 1
           /\ log'[Len(log')] = p
           /\ \A i \in 1..Len(Content) : log'[i] = Content[i]
<1>1. Content \in Seq(Pieces)
  BY ContentIs
<1>2. log' = Append(Content, p)
  <2>1. <<p>> = Append(<<>>, p)
    OBVIOUS
  <2> QED
    BY <2>1 DEF Write, Content
<1>3. /\ log' \in Seq(Pieces)
      /\ Len(log') = Len(Content) + 1
      /\ log'[Len(log')] = p
      /\ \A i \in 1..Len(Content) : log'[i] = Content[i]
  BY <1>1, <1>2
<1>4. log' # Gone
  BY <1>3, LogTailAssumption
<1> QED
  BY <1>2, <1>3, <1>4 DEF Content

\* The variables keep their types.
LEMMA TailTypeStep == TailInv /\ TailNext => TailTypeOK'
<1> SUFFICES ASSUME TailInv, TailNext PROVE TailTypeOK'
  OBVIOUS
<1> USE DEF TailTypeOK, worldVars
<1>0. /\ TailTypeOK
      /\ MaxLines \in Nat /\ MaxLogTime \in Nat /\ MaxStarts \in Nat /\ MaxRotations \in Nat
  BY LogTailAssumption DEF TailInv
<1>1. ASSUME NEW mark \in Marks, NEW key \in LogKeys, NEW part \in {"whole", "head"},
             AppendLine(mark, part, key)
      PROVE  TailTypeOK'
  <2>1. written' \in 0..MaxLines
    BY <1>0, <1>1 DEF AppendLine
  <2>2. Piece(written', part, mark, key) \in Pieces
    BY <1>1, <2>1 DEF Piece, Pieces
  <2>3. log' \in Seq(Pieces) /\ event' \in BOOLEAN
    BY <1>0, <1>1, <2>2, WrittenIs DEF AppendLine, Write
  <2> QED
    BY <1>0, <1>1, <2>1, <2>3 DEF AppendLine
<1>2. ASSUME NEW key \in LogKeys, AppendTail(key) PROVE TailTypeOK'
  <2>1. log \in Seq(Pieces) /\ log # <<>>
    BY <1>0, <1>2 DEF AppendTail, HalfWritten
  <2>2. log[Len(log)] \in Pieces
    BY <2>1
  <2>3. Piece(written, "tail", log[Len(log)].mark, key) \in Pieces
    BY <1>0, <1>2, <2>2 DEF Piece, Pieces
  <2>4. log' \in Seq(Pieces) /\ event' \in BOOLEAN
    BY <1>0, <1>2, <2>3, WrittenIs DEF AppendTail, Write
  <2> QED
    BY <1>0, <1>2, <2>4 DEF AppendTail
<1>3. ASSUME NEW left \in {<<>>, Gone}, Rotate(left) PROVE TailTypeOK'
  <2>1. log' = Gone \/ log' \in Seq(Pieces)
    <3>1. <<>> \in Seq(Pieces)
      OBVIOUS
    <3>2. log' = left
      BY <1>3 DEF Rotate
    <3> QED
      BY <3>1, <3>2
  <2>2. rotations' \in 0..MaxRotations
    BY <1>0, <1>3 DEF Rotate
  <2>3. event' \in BOOLEAN /\ foreign' \in BOOLEAN
    BY <1>0, <1>3 DEF Rotate
  <2> QED
    BY <1>0, <1>3, <2>1, <2>2, <2>3 DEF Rotate
<1>4. CASE BuildHandlers
  <2> DEFINE p == Piece(0, "whole", "none", CHOOSE k \in LogKeys : TRUE)
  <2>1. p \in Pieces
    BY <1>0, LogTailAssumption DEF Pieces, Piece, Marks
  <2>2. log' = (IF log = Gone THEN <<p>> ELSE log) /\ file_ptr' = Len(log')
    BY <1>4 DEF BuildHandlers
  <2> HIDE DEF p
  <2>3. log' \in Seq(Pieces)
    BY <1>0, <2>1, <2>2
  <2>4. file_ptr' \in 0..(2 * MaxLines + 1) /\ blind' \in Nat
    <3>1. CASE log = Gone
      BY <1>0, <1>4, <2>2, <3>1 DEF BuildHandlers
    <3>2. CASE log # Gone
      BY <1>0, <1>4, <2>2, <3>2, ContentIs DEF BuildHandlers
    <3> QED
      BY <3>1, <3>2
  <2> QED
    BY <1>0, <1>4, <2>3, <2>4 DEF BuildHandlers
<1>5. CASE StartObserver
  BY <1>0, <1>5 DEF StartObserver
<1>6. CASE Signal
  BY <1>0, <1>6 DEF Signal
<1>7. CASE End
  <2>1. <<>> \in Seq(Pieces) /\ <<>> \in Seq([key : LogKeys, at : 0..MaxLogTime])
    OBVIOUS
  <2>2. 0 \in 0..(2 * MaxLines + 1) /\ 0 \in Nat
    BY <1>0
  <2>3. /\ file_ptr' = 0 /\ blind' = 0 /\ batch' = <<>> /\ seenKeys' = <<>>
        /\ event' = FALSE /\ foreign' = FALSE /\ thread' = "idle" /\ agent' = "down"
        /\ UNCHANGED <<log, written, now, starts, rotations, offered>>
    BY <1>7 DEF End
  <2> QED
    BY <1>0, <2>1, <2>2, <2>3
<1>8. CASE Stat
  <2>1. file_ptr' \in 0..(2 * MaxLines + 1) /\ thread' \in {"idle", "stated", "lines", "pipeline", "dead"}
    BY <1>0, <1>8 DEF Stat, OffsetFor
  <2>2. event' = FALSE /\ foreign' \in BOOLEAN
    BY <1>0, <1>8 DEF Stat
  <2> QED
    BY <1>0, <1>8, <2>1, <2>2 DEF Stat
<1>9. CASE ReadLines
  <2>1. CASE log = Gone
    BY <1>0, <1>9, <2>1 DEF ReadLines
  <2>2. CASE log # Gone
    <3>1. batch' \in Seq(Pieces)
      BY <1>9, <2>2, BatchIs DEF ReadLines
    <3>a. Size \in Nat /\ Size <= 2 * MaxLines + 1
      BY ContentIs
    <3>b. file_ptr' = Size \/ file_ptr' = file_ptr
      BY <1>9, <2>2 DEF ReadLines
    <3>c. blind' = file_ptr \/ blind' = blind
      BY <1>9, <2>2 DEF ReadLines
    <3>2. file_ptr' \in 0..(2 * MaxLines + 1) /\ blind' \in Nat
      BY <1>0, <3>a, <3>b, <3>c
    <3>3. foreign' \in BOOLEAN
      BY <1>9, <2>2 DEF ReadLines
    <3>4. thread' = "lines"
      BY <1>9, <2>2 DEF ReadLines
    <3> QED
      BY <1>0, <1>9, <3>1, <3>2, <3>3, <3>4 DEF ReadLines
  <2> QED
    BY <2>1, <2>2
<1>10. CASE BatchDone
  BY <1>0, <1>10 DEF BatchDone
<1>11. CASE SkipLine
  BY <1>0, <1>11, BatchLinesAre DEF SkipLine
<1>12. CASE LeaveForShutdown
  BY <1>0, <1>12 DEF LeaveForShutdown
<1>13. CASE HandleError
  <2>1. batch' \in Seq(Pieces)
    BY <1>13, BatchLinesAre DEF HandleError, AtError
  <2>2. seenKeys' \in Seq([key : LogKeys, at : 0..MaxLogTime])
    BY <1>0, <1>13, KeysAre DEF HandleError, AtError
  <2>3. offered' \in [Lines -> [Halves -> Nat]]
    <3> DEFINE f == FirstLine(batch)
               n == f.line
    <3>1. /\ offered' = [offered EXCEPT ![n] = OfferedWith(f)]
          /\ offered \in [Lines -> [Halves -> Nat]]
      BY <1>0, <1>13 DEF HandleError
    <3>2. n \in Lines => OfferedWith(f) \in [Halves -> Nat]
      BY <3>1 DEF OfferedWith
    <3> HIDE DEF n, f
    <3> QED
      BY <3>1, <3>2
  <2>4. thread' \in {"idle", "stated", "lines", "pipeline", "dead"}
    BY <1>0, <1>13 DEF HandleError
  <2> QED
    BY <1>0, <1>13, <2>1, <2>2, <2>3, <2>4 DEF HandleError
<1>14. CASE PipelineEnds
  BY <1>0, <1>14 DEF PipelineEnds
<1>15. CASE PipelineKillsThread
  BY <1>0, <1>15 DEF PipelineKillsThread
<1>16. CASE LogTick
  BY <1>0, <1>16 DEF LogTick
<1> QED
  BY <1>1, <1>2, <1>3, <1>4, <1>5, <1>6, <1>7, <1>8, <1>9, <1>10, <1>11, <1>12, <1>13,
     <1>14, <1>15, <1>16 DEF TailNext, Dispatch

\* A piece written behind the others.
LEMMA AppendedIs ==
    ASSUME NEW s \in Seq(Pieces), NEW n \in Nat, NEW m \in Nat, OfLog(s, n), n <= m,
           NEW p \in Pieces, p.line <= m, p.mark # "none" => p.line # 0,
           \A i \in 1..Len(s) : s[i].line < p.line \/ (i = Len(s) /\ SameLine(s[i], p)),
           \A i \in 1..Len(s) : i = Len(s) /\ s[i].part = "head" => SameLine(s[i], p)
    PROVE  OfLog(Append(s, p), m)
<1> DEFINE d == Append(s, p)
<1>1. /\ d \in Seq(Pieces) /\ Len(d) = Len(s) + 1 /\ d[Len(d)] = p
      /\ \A i \in 1..Len(s) : d[i] = s[i]
  OBVIOUS
<1>2. Len(s) \in Nat
  OBVIOUS
<1> HIDE DEF d
<1>3. \A i \in 1..Len(d) : i = Len(d) \/ i \in 1..Len(s)
  BY <1>1, <1>2
<1>4. \A i, j \in DOMAIN d : i < j =>
         d[i].line < d[j].line \/ (j = i + 1 /\ SameLine(d[i], d[j]))
  <2> SUFFICES ASSUME NEW i \in 1..Len(d), NEW j \in 1..Len(d), i < j
               PROVE  d[i].line < d[j].line \/ (j = i + 1 /\ SameLine(d[i], d[j]))
    BY <1>1
  <2>1. i \in 1..Len(s)
    BY <1>1, <1>2
  <2>2. CASE j = Len(d)
    BY <1>1, <1>2, <2>1, <2>2
  <2>3. CASE j \in 1..Len(s)
    <3>1. i \in DOMAIN s /\ j \in DOMAIN s
      BY <2>1, <2>3
    <3> QED
      BY <1>1, <2>1, <2>3, <3>1 DEF OfLog
  <2> QED
    BY <1>3, <2>2, <2>3
<1>5. \A i \in DOMAIN d : d[i].part = "head" /\ i < Len(d) => SameLine(d[i], d[i + 1])
  <2> SUFFICES ASSUME NEW i \in 1..Len(d), d[i].part = "head", i < Len(d)
               PROVE  SameLine(d[i], d[i + 1])
    BY <1>1
  <2>1. i \in 1..Len(s) /\ d[i] = s[i]
    BY <1>1, <1>2
  <2>2. CASE i = Len(s)
    BY <1>1, <2>1, <2>2
  <2>3. CASE i < Len(s)
    <3>1. i + 1 \in 1..Len(s)
      BY <1>2, <2>1, <2>3
    <3>2. i \in DOMAIN s
      BY <2>1
    <3> QED
      BY <1>1, <2>1, <2>3, <3>1, <3>2 DEF OfLog
  <2> QED
    BY <1>2, <2>1, <2>2, <2>3
<1>6. \A i \in DOMAIN d : d[i].line <= m /\ (d[i].mark # "none" => d[i].line # 0)
  <2> SUFFICES ASSUME NEW i \in 1..Len(d)
               PROVE  d[i].line <= m /\ (d[i].mark # "none" => d[i].line # 0)
    BY <1>1
  <2>1. CASE i = Len(d)
    BY <1>1, <2>1
  <2>2. CASE i \in 1..Len(s)
    <3>1. s[i] \in Pieces /\ i \in DOMAIN s /\ d[i] = s[i]
      BY <1>1, <2>2
    <3>2. s[i].line \in Nat
      BY <3>1, LogTailAssumption DEF Pieces
    <3>3. s[i].line <= n /\ (s[i].mark # "none" => s[i].line # 0)
      BY <3>1 DEF OfLog
    <3> QED
      BY <3>1, <3>2, <3>3
  <2> QED
    BY <1>3, <2>1, <2>2
<1> QED
  BY <1>4, <1>5, <1>6 DEF OfLog, d

\* A new line, or the head of one.
LEMMA AppendLineKeeps ==
    ASSUME TailInv, NEW mark \in Marks, NEW key \in LogKeys, NEW part \in {"whole", "head"},
           AppendLine(mark, part, key)
    PROVE  TailParts'
<1> DEFINE c == Content
           p == Piece(written', part, mark, key)
<1>0. written \in Nat /\ written < MaxLines /\ MaxLines \in Nat /\ written' = written + 1
  BY LogTailAssumption DEF TailInv, TailTypeOK, AppendLine
<1>1. p \in Pieces /\ p.line = written + 1 /\ p.part = part /\ p.mark = mark
  BY <1>0 DEF Piece, Pieces
<1>2. /\ log' = Append(c, p) /\ log' \in Seq(Pieces) /\ log' # Gone
      /\ Content' = log'
      /\ Len(log') = Len(c) + 1
      /\ log'[Len(log')] = p
      /\ \A i \in 1..Len(c) : log'[i] = c[i]
  BY <1>1, WrittenIs DEF AppendLine
<1>3. c \in Seq(Pieces) /\ OfLog(c, written) /\ (log # Gone => c = log) /\ (log = Gone => c = <<>>)
  BY ContentIs DEF TailInv, TailParts, InOrder
<1>4. Len(c) \in Nat
  BY <1>3
<1>5. UNCHANGED <<now, agent, thread, file_ptr, batch, seenKeys, starts, rotations,
                  offered, foreign, blind>>
  BY DEF AppendLine
<1> HIDE DEF c, p
<1>6. \A i \in 1..Len(c) : /\ i \in DOMAIN c /\ c[i].line \in Nat /\ c[i].line <= written
                           /\ i = Len(c) => c[i].part # "head"
  <2> SUFFICES ASSUME NEW i \in 1..Len(c)
               PROVE  /\ i \in DOMAIN c /\ c[i].line \in Nat /\ c[i].line <= written
                      /\ i = Len(c) => c[i].part # "head"
    OBVIOUS
  <2>1. i \in DOMAIN c /\ c[i] \in Pieces
    BY <1>3
  <2>2. c[i].line \in Nat /\ c[i].line <= written
    BY <1>0, <1>3, <2>1 DEF OfLog, Pieces
  <2>3. i = Len(c) => c[i].part # "head"
    BY <1>3 DEF AppendLine, HalfWritten
  <2> QED
    BY <2>1, <2>2, <2>3
<1>7. OfLog(log', written')
  <2>1. \A i \in 1..Len(c) : c[i].line < p.line
    BY <1>0, <1>1, <1>6
  <2>2. written + 1 \in Nat /\ written <= written + 1 /\ p.line <= written + 1
        /\ (p.mark # "none" => p.line # 0)
    BY <1>0, <1>1
  <2> QED
    BY <1>0, <1>1, <1>2, <1>3, <1>6, <2>1, <2>2, AppendedIs
<1>8. HalfWritten' <=> part = "head"
  <2>1. log' # <<>>
    BY <1>2, <1>4
  <2> QED
    BY <1>1, <1>2, <2>1 DEF HalfWritten
<1>9. \A i \in DOMAIN log' : i = Len(c) + 1 \/ i \in 1..Len(c)
  BY <1>2, <1>4
<1>10. \A j \in DOMAIN batch : batch[j].line \in Nat /\ batch[j].line <= written
  <2> SUFFICES ASSUME NEW j \in DOMAIN batch PROVE batch[j].line \in Nat /\ batch[j].line <= written
    OBVIOUS
  <2>1. batch[j] \in Pieces
    BY DEF TailInv, TailTypeOK
  <2> QED
    BY <1>0, <2>1 DEF TailInv, TailParts, InOrder, OfLog, Pieces
<1>11. written + 1 \in Lines /\ \A h \in Halves : offered[written + 1][h] = 0
  BY <1>0 DEF TailInv, TailParts, Unoffered, Lines
<1>a. RecordedOnce' /\ HandledOnce'
  BY <1>5 DEF TailInv, TailParts, RecordedOnce, HandledOnce
<1>b. LogBounded'
  <2>1. Len(c) <= 2 * written + 1
    BY <1>4 DEF TailInv, TailParts, LogBounded, AppendLine, c
  <2> QED
    BY <1>0, <1>2, <1>4, <1>8, <2>1 DEF LogBounded
<1>c. InOrder'
  <2>1. OfLog(batch', written')
    BY <1>0, <1>5, <1>10 DEF TailInv, TailParts, InOrder, OfLog
  <2>2. ASSUME NEW j \in DOMAIN batch, NEW i \in DOMAIN log', Untaken(i)'
        PROVE  \/ batch[j].line < log'[i].line
               \/ j = Len(batch) /\ SameLine(batch[j], log'[i])
    <3>1. CASE i = Len(c) + 1
      BY <1>0, <1>1, <1>2, <1>10, <3>1
    <3>2. CASE i \in 1..Len(c)
      <4>1. Untaken(i)
        BY <1>5, <2>2 DEF Untaken
      <4> QED
        BY <1>2, <1>6, <3>2, <4>1 DEF TailInv, TailParts, InOrder, c
    <3> QED
      BY <1>9, <3>1, <3>2
  <2>3. log'[Len(log')].line = written' /\ \A j \in DOMAIN batch : batch[j].line < written'
    BY <1>0, <1>1, <1>2, <1>10
  <2> QED
    BY <1>2, <1>5, <1>7, <2>1, <2>2, <2>3 DEF InOrder
<1>d. Unoffered'
  <2>1. \A n \in Lines : n > written' => \A h \in Halves : offered'[n][h] = 0
    BY <1>0, <1>5 DEF TailInv, TailParts, Unoffered, Lines
  <2>2. \A h \in Halves : offered'[written'][h] = 0
    BY <1>0, <1>5, <1>11
  <2>3. \A j \in DOMAIN batch' : Ungiven(batch[j])
    BY <1>5 DEF TailInv, TailParts, Unoffered
  <2>4. ASSUME agent' # "down", NEW i \in DOMAIN log', Untaken(i)'
        PROVE  \A h \in HalvesOf(log'[i]) : log'[i].line # 0 => offered[log'[i].line][h] = 0
    <3>1. CASE i = Len(c) + 1
      <4>1. log'[i].line = written' /\ HalvesOf(log'[i]) \subseteq Halves
        BY <1>0, <1>1, <1>2, <3>1 DEF HalvesOf, Halves
      <4> QED
        BY <1>5, <2>2, <4>1
    <3>2. CASE i \in 1..Len(c)
      <4>1. Untaken(i) /\ log'[i] = c[i] /\ i \in DOMAIN c /\ agent # "down"
        BY <1>2, <1>5, <1>6, <2>4, <3>2 DEF Untaken
      <4> QED
        BY <4>1 DEF TailInv, TailParts, Unoffered, Ungiven, c
    <3> QED
      BY <1>9, <3>1, <3>2
  <2>5. HalfWritten' => offered'[written']["tail"] = 0
    BY <2>2 DEF Halves
  <2> QED
    BY <1>2, <1>5, <2>1, <2>3, <2>4, <2>5 DEF Unoffered, Ungiven
<1>e. HandlerAt'
  <2>1. ~foreign => file_ptr <= Len(c)
    BY DEF TailInv, TailParts, HandlerAt, c
  <2>2. file_ptr \in Nat
    BY DEF TailInv, TailTypeOK
  <2>3. ~foreign' => file_ptr' <= Len(log')
    BY <1>2, <1>4, <1>5, <2>1, <2>2
  <2> QED
    BY <1>2, <1>5, <2>3 DEF TailInv, TailParts, HandlerAt
<1>f. Taken'
  <2> SUFFICES ASSUME agent' \in {"built", "up"}, ~foreign', NEW i \in DOMAIN log',
                      blind' < i, i <= file_ptr', IsError(log'[i])
               PROVE  \/ \A h \in HalvesOf(log'[i]) : offered[log'[i].line][h] = 1
                      \/ thread' = "dead"
                      \/ \E j \in DOMAIN batch' : batch'[j] = log'[i]
    BY <1>2, <1>5 DEF Taken, OfferedOnce
  <2>1. file_ptr <= Len(c) /\ file_ptr \in Nat
    BY <1>5 DEF TailInv, TailParts, TailTypeOK, HandlerAt, c
  <2>2. i \in 1..Len(c)
    BY <1>4, <1>5, <1>9, <2>1
  <2>3. log'[i] = c[i] /\ i \in DOMAIN c
    BY <1>2, <1>6, <2>2
  <2> QED
    BY <1>5, <2>3 DEF TailInv, TailParts, Taken, OfferedOnce, c
<1> QED
  BY <1>a, <1>b, <1>c, <1>d, <1>e, <1>f DEF TailParts

\* The tail of the line whose head is the last piece.
LEMMA AppendTailKeeps ==
    ASSUME TailInv, NEW key \in LogKeys, AppendTail(key)
    PROVE  TailParts'
<1> DEFINE c == Content
           h == log[Len(log)]
           p == Piece(written, "tail", h.mark, key)
<1>0. /\ written \in Nat /\ written <= MaxLines /\ MaxLines \in Nat /\ written' = written
      /\ HalfWritten
  BY LogTailAssumption DEF TailInv, TailTypeOK, AppendTail, worldVars
<1>1. /\ c = log /\ c \in Seq(Pieces) /\ OfLog(c, written) /\ c # <<>>
      /\ h = c[Len(c)] /\ h.part = "head" /\ h.line = written
  BY <1>0, ContentIs DEF TailInv, TailParts, InOrder, HalfWritten
<1>2. Len(c) \in Nat \ {0}
  BY <1>1
<1>3. h \in Pieces
  BY <1>1
<1>4. p \in Pieces /\ SameLine(h, p) /\ p.line = written /\ p.part = "tail" /\ p.mark = h.mark
  BY <1>0, <1>1, <1>3 DEF Piece, Pieces, SameLine
<1>5. /\ log' = Append(c, p) /\ log' \in Seq(Pieces) /\ log' # Gone
      /\ Content' = log'
      /\ Len(log') = Len(c) + 1
      /\ log'[Len(log')] = p
      /\ \A i \in 1..Len(c) : log'[i] = c[i]
  BY <1>4, WrittenIs DEF AppendTail
<1>6. UNCHANGED <<written, now, starts, rotations, agent, thread, file_ptr, batch, seenKeys,
                  offered, foreign, blind>>
  BY DEF AppendTail, worldVars
<1> HIDE DEF c, p, h
<1>7. \A i \in 1..Len(c) : /\ i \in DOMAIN c
                           /\ i = Len(c) => SameLine(c[i], p)
                           /\ i < Len(c) => c[i].line < p.line
  <2> SUFFICES ASSUME NEW i \in 1..Len(c)
               PROVE  /\ i \in DOMAIN c
                      /\ i = Len(c) => SameLine(c[i], p)
                      /\ i < Len(c) => c[i].line < p.line
    OBVIOUS
  <2>1. i \in DOMAIN c /\ Len(c) \in DOMAIN c
    BY <1>1, <1>2
  <2>2. i = Len(c) => SameLine(c[i], p)
    BY <1>1, <1>4
  <2>3. i < Len(c) => c[i].line < p.line
    BY <1>1, <1>4, <2>1 DEF OfLog, SameLine
  <2> QED
    BY <2>1, <2>2, <2>3
<1>8. OfLog(log', written')
  <2>1. p.mark # "none" => p.line # 0
    <3>1. Len(c) \in DOMAIN c
      BY <1>1, <1>2
    <3> QED
      BY <1>1, <1>4, <3>1 DEF OfLog
  <2>2. \A i \in 1..Len(c) : c[i].line < p.line \/ (i = Len(c) /\ SameLine(c[i], p))
    BY <1>2, <1>7
  <2>3. written <= written /\ p.line <= written
        /\ \A i \in 1..Len(c) : i = Len(c) /\ c[i].part = "head" => SameLine(c[i], p)
    BY <1>0, <1>4, <1>7
  <2> QED
    BY <1>0, <1>1, <1>4, <1>5, <1>7, <2>1, <2>2, <2>3, AppendedIs
<1>9. ~HalfWritten'
  BY <1>4, <1>5 DEF HalfWritten
<1>10. \A i \in DOMAIN log' : i = Len(c) + 1 \/ i \in 1..Len(c)
  BY <1>2, <1>5
<1>a. RecordedOnce' /\ HandledOnce'
  BY <1>6 DEF TailInv, TailParts, RecordedOnce, HandledOnce
<1>b. LogBounded'
  <2>1. Len(c) + 1 <= 2 * written + 1
    BY <1>0 DEF TailInv, TailParts, LogBounded, c
  <2> QED
    BY <1>0, <1>2, <1>5, <1>9, <2>1 DEF LogBounded
<1>c. InOrder'
  <2>1. OfLog(batch', written')
    BY <1>6 DEF TailInv, TailParts, InOrder
  <2>2. ASSUME NEW j \in DOMAIN batch, NEW i \in DOMAIN log', Untaken(i)'
        PROVE  \/ batch[j].line < log'[i].line
               \/ j = Len(batch) /\ SameLine(batch[j], log'[i])
    <3>1. CASE i = Len(c) + 1
      <4>1. batch[j].line < written \/ (j = Len(batch) /\ batch[j] = h)
        BY <1>0 DEF TailInv, TailParts, InOrder, h
      <4> QED
        BY <1>4, <1>5, <3>1, <4>1
    <3>2. CASE i \in 1..Len(c)
      <4>1. Untaken(i)
        BY <1>6, <2>2 DEF Untaken
      <4> QED
        BY <1>5, <1>7, <3>2, <4>1 DEF TailInv, TailParts, InOrder, c
    <3> QED
      BY <1>10, <3>1, <3>2
  <2> QED
    BY <1>5, <1>6, <1>8, <1>9, <2>1, <2>2 DEF InOrder
<1>d. Unoffered'
  <2>1. ASSUME agent' # "down", NEW i \in DOMAIN log', Untaken(i)'
        PROVE  \A g \in HalvesOf(log'[i]) : log'[i].line # 0 => offered[log'[i].line][g] = 0
    <3>1. CASE i = Len(c) + 1
      <4>1. log'[i].line = written /\ HalvesOf(log'[i]) = {"tail"}
        BY <1>4, <1>5, <3>1 DEF HalvesOf
      <4>2. offered[written]["tail"] = 0
        BY <1>0 DEF TailInv, TailParts, Unoffered
      <4> QED
        BY <4>1, <4>2
    <3>2. CASE i \in 1..Len(c)
      <4>1. Untaken(i) /\ log'[i] = c[i] /\ i \in DOMAIN c /\ agent # "down"
        BY <1>5, <1>6, <1>7, <2>1, <3>2 DEF Untaken
      <4> QED
        BY <4>1 DEF TailInv, TailParts, Unoffered, Ungiven, c
    <3> QED
      BY <1>10, <3>1, <3>2
  <2> QED
    BY <1>5, <1>6, <1>9, <2>1 DEF TailInv, TailParts, Unoffered, Ungiven
<1>e. HandlerAt'
  <2>1. ~foreign => file_ptr <= Len(c)
    BY DEF TailInv, TailParts, HandlerAt, c
  <2>2. file_ptr \in Nat
    BY DEF TailInv, TailTypeOK
  <2>3. ~foreign' => file_ptr' <= Len(log')
    BY <1>2, <1>5, <1>6, <2>1, <2>2
  <2> QED
    BY <1>5, <1>6, <2>3 DEF TailInv, TailParts, HandlerAt
<1>f. Taken'
  <2> SUFFICES ASSUME agent' \in {"built", "up"}, ~foreign', NEW i \in DOMAIN log',
                      blind' < i, i <= file_ptr', IsError(log'[i])
               PROVE  \/ \A half \in HalvesOf(log'[i]) : offered[log'[i].line][half] = 1
                      \/ thread' = "dead"
                      \/ \E j \in DOMAIN batch' : batch'[j] = log'[i]
    BY <1>5, <1>6 DEF Taken, OfferedOnce
  <2>1. file_ptr <= Len(c) /\ file_ptr \in Nat
    BY <1>6 DEF TailInv, TailParts, TailTypeOK, HandlerAt, c
  <2>2. i \in 1..Len(c)
    BY <1>2, <1>6, <1>10, <2>1
  <2>3. log'[i] = c[i] /\ i \in DOMAIN c
    BY <1>5, <1>7, <2>2
  <2> QED
    BY <1>6, <2>3 DEF TailInv, TailParts, Taken, OfferedOnce, c
<1> QED
  BY <1>a, <1>b, <1>c, <1>d, <1>e, <1>f DEF TailParts

\* A rotation leaves an empty file or none.
LEMMA RotateKeeps ==
    ASSUME TailInv, NEW left \in {<<>>, Gone}, Rotate(left)
    PROVE  TailParts'
<1>1. Content' = <<>> /\ ~HalfWritten'
  BY DEF Rotate, Content, HalfWritten
<1>2. /\ UNCHANGED <<written, now, agent, thread, file_ptr, batch, seenKeys, starts, offered>>
      /\ foreign' = (file_ptr > 0) /\ blind' = 0
  BY DEF Rotate
<1>3. written \in Nat /\ file_ptr \in Nat
  BY DEF TailInv, TailTypeOK
<1>4. RecordedOnce' /\ HandledOnce'
  BY <1>2 DEF TailInv, TailParts, RecordedOnce, HandledOnce
<1>5. LogBounded' /\ Taken'
  BY <1>1, <1>2, <1>3 DEF LogBounded, Taken
<1>6. InOrder' /\ Unoffered'
  BY <1>1, <1>2 DEF TailInv, TailParts, InOrder, Unoffered, Ungiven, OfLog
<1>7. HandlerAt'
  <2>1. foreign' <=> file_ptr > 0
    BY <1>2
  <2>2. ~foreign' => file_ptr' <= Len(Content')
    <3>1. Len(Content') = 0 /\ file_ptr' = file_ptr
      BY <1>1, <1>2
    <3>2. ~(file_ptr > 0) => file_ptr <= 0
      BY <1>3
    <3> QED
      BY <2>1, <3>1, <3>2
  <2>3. agent' = "down" => file_ptr' = 0 /\ ~foreign'
    <3>1. agent = "down" => file_ptr = 0 /\ ~(file_ptr > 0)
      BY DEF TailInv, TailParts, HandlerAt
    <3> QED
      BY <1>2, <2>1, <3>1
  <2> QED
    BY <1>2, <2>2, <2>3 DEF TailInv, TailParts, HandlerAt
<1> QED
  BY <1>4, <1>5, <1>6, <1>7 DEF TailParts

\* The handler begins at the end of its file.
LEMMA BuildHandlersKeeps ==
    ASSUME TailInv, BuildHandlers
    PROVE  TailParts'
<1> DEFINE p == Piece(0, "whole", "none", CHOOSE k \in LogKeys : TRUE)
<1>0. written \in Nat
  BY DEF TailInv, TailTypeOK
<1>1. /\ agent = "down" /\ agent' = "built" /\ thread = "idle" /\ batch = <<>> /\ ~foreign
      /\ UNCHANGED <<written, event, now, thread, batch, seenKeys, rotations, offered, foreign>>
      /\ file_ptr' = Len(log') /\ blind' = Len(log')
  BY DEF BuildHandlers, TailInv, TailParts, HandlerAt
<1>2. p.line = 0 /\ p.part = "whole" /\ p.mark = "none"
  BY DEF Piece
<1>3. log' = IF log = Gone THEN <<p>> ELSE log
  BY DEF BuildHandlers
<1>4. <<p>> # Gone
  <2>1. p \in Pieces
    BY LogTailAssumption DEF Pieces, Piece, Marks
  <2>2. <<p>> \in Seq(Pieces)
    BY <2>1
  <2> QED
    BY <2>2, LogTailAssumption
<1> HIDE DEF p
<1>5. Content' = log' /\ log' # Gone
  BY <1>3, <1>4 DEF Content
<1>6. OfLog(log', written) /\ Len(log') \in Nat
  <2>1. CASE log = Gone
    BY <1>0, <1>2, <1>3, <2>1 DEF OfLog
  <2>2. CASE log # Gone
    BY <1>3, <2>2, ContentIs DEF TailInv, TailParts, InOrder
  <2> QED
    BY <2>1, <2>2
<1>7. HalfWritten' => HalfWritten /\ log' = log
  BY <1>2, <1>3 DEF HalfWritten
<1>a. RecordedOnce' /\ HandledOnce'
  BY <1>1 DEF TailInv, TailParts, RecordedOnce, HandledOnce
<1>b. LogBounded'
  <2>1. CASE log = Gone
    BY <1>0, <1>1, <1>3, <1>5, <1>7, <2>1 DEF LogBounded, HalfWritten
  <2>2. CASE log # Gone
    BY <1>1, <1>3, <2>2 DEF TailInv, TailParts, LogBounded, Content, HalfWritten
  <2> QED
    BY <2>1, <2>2
<1>c. InOrder'
  BY <1>1, <1>5, <1>6, <1>7 DEF TailInv, TailParts, InOrder, OfLog
<1>d. Unoffered'
  <2>1. \A i \in DOMAIN log' : ~Untaken(i)'
    <3>1. \A i \in DOMAIN log' : i <= Len(log') /\ i \in Nat
      <4>1. log' \in Seq(Pieces)
        <5>1. CASE log = Gone
          <6>1. p \in Pieces
            BY LogTailAssumption DEF Pieces, Piece, Marks, p
          <6> QED
            BY <1>3, <5>1, <6>1
        <5>2. CASE log # Gone
          BY <1>3, <5>2 DEF TailInv, TailTypeOK
        <5> QED
          BY <5>1, <5>2
      <4> QED
        BY <4>1
    <3> QED
      BY <1>1, <1>6, <3>1 DEF Untaken
  <2> QED
    BY <1>1, <1>5, <1>7, <2>1 DEF TailInv, TailParts, Unoffered, Ungiven
<1>e. HandlerAt'
  BY <1>1, <1>5, <1>6 DEF HandlerAt
<1>f. Taken'
  <2>1. \A i : ~(blind' < i /\ i <= file_ptr') \/ i \notin Nat
    BY <1>1, <1>6
  <2>2. log' \in Seq(Pieces)
    <3>1. CASE log = Gone
      <4>1. p \in Pieces
        BY LogTailAssumption DEF Pieces, Piece, Marks, p
      <4> QED
        BY <1>3, <3>1, <4>1
    <3>2. CASE log # Gone
      BY <1>3, <3>2 DEF TailInv, TailTypeOK
    <3> QED
      BY <3>1, <3>2
  <2>3. DOMAIN log' \subseteq Nat
    BY <2>2
  <2> QED
    BY <1>5, <2>1, <2>3 DEF Taken
<1> QED
  BY <1>a, <1>b, <1>c, <1>d, <1>e, <1>f DEF TailParts

\* The handler is gone.
LEMMA EndKeeps ==
    ASSUME TailInv, End
    PROVE  TailParts'
<1>1. /\ UNCHANGED <<log, written, now, starts, rotations, offered>>
      /\ agent' = "down" /\ thread' = "idle" /\ batch' = <<>> /\ file_ptr' = 0
      /\ seenKeys' = <<>> /\ foreign' = FALSE /\ blind' = 0
  BY DEF End, worldVars
<1>2. Content' = Content /\ HalfWritten' = HalfWritten
  BY <1>1 DEF Content, HalfWritten
<1>3. RecordedOnce' /\ HandledOnce'
  BY <1>1 DEF TailInv, TailParts, RecordedOnce, HandledOnce
<1>4. LogBounded' /\ Taken'
  BY <1>1, <1>2 DEF TailInv, TailParts, LogBounded, Taken, OfferedOnce
<1>5. InOrder'
  BY <1>1, <1>2 DEF TailInv, TailParts, InOrder, OfLog
<1>6. Unoffered'
  BY <1>1, <1>2 DEF TailInv, TailParts, Unoffered, Ungiven
<1>7. HandlerAt'
  BY <1>1, <1>2, ContentIs DEF HandlerAt
<1> QED
  BY <1>3, <1>4, <1>5, <1>6, <1>7 DEF TailParts

\* The steps that leave the file, what is read and what is offered alone.
LEMMA QuietKeeps ==
    ASSUME TailInv,
           UNCHANGED <<log, written, file_ptr, batch, seenKeys, offered, foreign, blind>>,
           agent = "down" <=> agent' = "down",
           agent' \in {"built", "up"} => agent \in {"built", "up"},
           thread = "dead" => thread' = "dead",
           agent' \in {"down", "built"} => thread' = "idle",
           thread' \notin {"lines", "pipeline"} => batch = <<>>
    PROVE  TailParts'
<1>1. Content' = Content /\ HalfWritten' = HalfWritten
  BY DEF Content, HalfWritten
<1>2. RecordedOnce' /\ HandledOnce'
  BY DEF TailInv, TailParts, RecordedOnce, HandledOnce
<1>3. LogBounded' /\ Taken'
  BY <1>1 DEF TailInv, TailParts, LogBounded, Taken, OfferedOnce
<1>4. InOrder' /\ Unoffered'
  BY <1>1 DEF TailInv, TailParts, InOrder, OfLog, Unoffered, Ungiven, Untaken
<1>5. HandlerAt'
  BY <1>1 DEF TailInv, TailParts, HandlerAt
<1> QED
  BY <1>2, <1>3, <1>4, <1>5 DEF TailParts

\* The rest of a batch is dropped by a shutdown, or with the thread.
LEMMA DroppedKeeps ==
    ASSUME TailInv,
           UNCHANGED <<log, written, agent, file_ptr, seenKeys, offered, foreign, blind>>,
           thread \in {"lines", "pipeline"}, batch' = <<>>,
           \/ agent = "stopping" /\ thread' = "idle"
           \/ thread' = "dead"
    PROVE  TailParts'
<1>1. Content' = Content /\ HalfWritten' = HalfWritten
  BY DEF Content, HalfWritten
<1>2. RecordedOnce' /\ HandledOnce'
  BY DEF TailInv, TailParts, RecordedOnce, HandledOnce
<1>3. LogBounded' /\ Taken'
  BY <1>1 DEF TailInv, TailParts, LogBounded, Taken, OfferedOnce
<1>4. InOrder' /\ Unoffered'
  BY <1>1 DEF TailInv, TailParts, InOrder, OfLog, Unoffered, Ungiven, Untaken
<1>5. HandlerAt'
  BY <1>1 DEF TailInv, TailParts, HandlerAt
<1> QED
  BY <1>2, <1>3, <1>4, <1>5 DEF TailParts

\* The size and the offset are compared.
LEMMA StatKeeps ==
    ASSUME TailInv, Stat
    PROVE  TailParts'
<1>1. /\ UNCHANGED <<log, written, now, starts, rotations, agent, batch, seenKeys, offered, blind>>
      /\ thread = "idle" /\ batch = <<>> /\ agent \notin {"down", "built"}
      /\ foreign' <=> (foreign /\ file_ptr' # 0)
      /\ thread' \in {"idle", "stated"}
  BY DEF Stat, worldVars, Observed, TailInv, TailParts, HandlerAt
<1>2. Content' = Content /\ HalfWritten' = HalfWritten
  BY <1>1 DEF Content, HalfWritten
<1>3. /\ Size = Len(Content) /\ Len(Content) \in Nat /\ file_ptr \in Nat
      /\ log = Gone => Len(Content) = 0
  BY ContentIs DEF TailInv, TailTypeOK
<1>4. ~foreign => file_ptr <= Len(Content)
  BY DEF TailInv, TailParts, HandlerAt
<1>5. file_ptr' = file_ptr \/ (foreign /\ file_ptr' = 0)
  <2>1. CASE log = Gone
    BY <2>1 DEF Stat
  <2>2. CASE log # Gone
    BY <1>3, <1>4, <2>2 DEF Stat, OffsetFor
  <2> QED
    BY <2>1, <2>2
<1>6. ~foreign' => file_ptr' <= Len(Content)
  <2>1. CASE foreign
    <3>1. ~foreign' => file_ptr' = 0
      BY <1>1, <2>1
    <3>2. 0 <= Len(Content)
      BY <1>3
    <3> QED
      BY <3>1, <3>2
  <2>2. CASE ~foreign
    BY <1>4, <1>5, <2>2
  <2> QED
    BY <2>1, <2>2
<1>7. \A i \in Nat : Untaken(i)' => Untaken(i)
  BY <1>1, <1>5 DEF Untaken
<1>a. RecordedOnce' /\ HandledOnce'
  BY <1>1 DEF TailInv, TailParts, RecordedOnce, HandledOnce
<1>b. LogBounded'
  BY <1>1, <1>2 DEF TailInv, TailParts, LogBounded
<1>c. DOMAIN Content \subseteq Nat
  BY ContentIs
<1>d. InOrder' /\ Unoffered'
  BY <1>1, <1>2, <1>7, <1>c DEF TailInv, TailParts, InOrder, OfLog, Unoffered, Ungiven
<1>e. HandlerAt'
  BY <1>1, <1>2, <1>6 DEF HandlerAt
<1>f. Taken'
  <2>1. CASE foreign
    <3>1. foreign' \/ file_ptr' = 0
      BY <1>1, <2>1
    <3>2. blind \in Nat
      BY DEF TailInv, TailTypeOK
    <3>3. \A i \in DOMAIN Content : ~(blind < i /\ i <= 0)
      BY <1>c, <3>2
    <3> QED
      BY <1>1, <1>2, <3>1, <3>3 DEF Taken
  <2>2. CASE ~foreign
    BY <1>1, <1>2, <1>5, <2>2 DEF TailInv, TailParts, Taken, OfferedOnce
  <2> QED
    BY <2>1, <2>2
<1> QED
  BY <1>a, <1>b, <1>d, <1>e, <1>f DEF TailParts

\* What lies behind the offset is read.
LEMMA ReadLinesKeeps ==
    ASSUME TailInv, ReadLines
    PROVE  TailParts'
<1>1. /\ UNCHANGED <<log, written, now, starts, rotations, event, agent, seenKeys, offered>>
      /\ thread = "stated" /\ batch = <<>> /\ agent \notin {"down", "built"}
  BY DEF ReadLines, worldVars, TailInv, TailParts, HandlerAt
<1>2. CASE log = Gone
  BY <1>1, <1>2, QuietKeeps DEF ReadLines
<1>3. CASE log # Gone
  <2> DEFINE b == Batch(file_ptr)
             L == Len(log)
  <2>0. /\ Content = log /\ Content' = log /\ HalfWritten' = HalfWritten /\ Size = L
        /\ L \in Nat /\ file_ptr \in Nat /\ blind \in Nat
    BY <1>1, <1>3, ContentIs DEF TailInv, TailTypeOK, Content, HalfWritten
  <2>1. /\ thread' = "lines" /\ batch' = b
        /\ file_ptr' = (IF file_ptr < L THEN L ELSE file_ptr)
        /\ foreign' <=> (foreign /\ file_ptr > L)
        /\ blind' = (IF foreign /\ file_ptr <= L THEN file_ptr ELSE blind)
    BY <1>3, <2>0 DEF ReadLines
  <2>2. /\ b \in Seq(Pieces) /\ OfLog(b, written)
        /\ file_ptr <= L => Len(b) = L - file_ptr
        /\ file_ptr > L => Len(b) = 0
        /\ \A j \in 1..Len(b) : file_ptr + j \in 1..L /\ b[j] = log[file_ptr + j]
    BY <1>3, BatchIs
  <2>3. log \in Seq(Pieces) /\ OfLog(log, written)
    BY <1>3, <2>0 DEF TailInv, TailParts, TailTypeOK, InOrder
  <2>4. ~foreign => file_ptr <= L
    BY <2>0 DEF TailInv, TailParts, HandlerAt
  <2> HIDE DEF b, L
  <2>5. /\ foreign' => Len(b) = 0 /\ b = <<>>
        /\ \A i \in 1..L : ~foreign' => i <= file_ptr'
    <3>1. CASE foreign /\ file_ptr > L
      <4>1. foreign' /\ Len(b) = 0
        BY <2>1, <2>2, <3>1
      <4>2. b = <<>>
        BY <2>2, <4>1
      <4> QED
        BY <4>1, <4>2
    <3>2. CASE ~(foreign /\ file_ptr > L)
      <4>1. ~foreign'
        BY <2>1, <3>2
      <4>2. file_ptr <= L
        BY <2>0, <2>4, <3>2
      <4>3. file_ptr' = L
        BY <2>0, <2>1, <4>2
      <4>4. \A i \in 1..L : i <= L
        BY <2>0
      <4> QED
        BY <4>1, <4>3, <4>4
    <3> QED
      BY <3>1, <3>2
  <2>g. ~foreign' => file_ptr <= L /\ file_ptr' = L
    <3>1. ~foreign' => ~foreign \/ ~(file_ptr > L)
      BY <2>1
    <3>2. ~(file_ptr > L) => file_ptr <= L
      BY <2>0
    <3>3. file_ptr <= L => file_ptr' = L
      BY <2>0, <2>1
    <3> QED
      BY <2>4, <3>1, <3>2, <3>3
  <2>6. DOMAIN log = 1..L /\ DOMAIN b = 1..Len(b)
    BY <2>2, <2>3 DEF L
  <2>7. \A j \in 1..Len(b) : Untaken(file_ptr + j)
    BY <2>0 DEF Untaken
  <2>a. RecordedOnce' /\ HandledOnce'
    BY <1>1 DEF TailInv, TailParts, RecordedOnce, HandledOnce
  <2>b. LogBounded'
    BY <1>1, <2>0 DEF TailInv, TailParts, LogBounded
  <2>c. InOrder'
    <3>1. \A j \in DOMAIN b, i \in DOMAIN log : ~Untaken(i)'
      <4>1. \A i \in 1..L : i <= file_ptr' \/ foreign'
        BY <2>5
      <4>2. \A j \in 1..Len(b) : ~foreign'
        BY <2>5
      <4>3. \A i \in 1..L : i <= file_ptr' => ~(i > file_ptr')
        BY <2>0, <2>1
      <4> QED
        BY <2>6, <4>1, <4>2, <4>3 DEF Untaken
    <3>2. ASSUME HalfWritten, NEW j \in DOMAIN b
          PROVE  b[j].line < written \/ (j = Len(b) /\ b[j] = log[Len(log)])
      <4>1. log[L].part = "head" /\ log[L].line = written /\ L # 0
        BY <2>3, <3>2 DEF TailInv, TailParts, InOrder, HalfWritten, L
      <4>2. file_ptr + j \in 1..L /\ b[j] = log[file_ptr + j] /\ j \in 1..Len(b)
        BY <2>2, <2>6
      <4>3. CASE file_ptr + j = L
        <5>1. j = Len(b)
          BY <2>0, <2>2, <4>2, <4>3
        <5> QED
          BY <4>2, <4>3, <5>1 DEF L
      <4>4. CASE file_ptr + j < L
        <5>1. L \in 1..L
          BY <2>0, <4>1
        <5>2. log[file_ptr + j].line < log[L].line \/ SameLine(log[file_ptr + j], log[L])
          BY <2>3, <2>6, <4>2, <4>4, <5>1 DEF OfLog
        <5> QED
          BY <4>1, <4>2, <5>2 DEF SameLine
      <4> QED
        BY <2>0, <4>2, <4>3, <4>4
    <3> QED
      BY <1>1, <2>0, <2>1, <2>2, <2>3, <3>1, <3>2 DEF TailInv, TailParts, InOrder
  <2>d. Unoffered'
    <3>1. ASSUME NEW j \in DOMAIN b PROVE Ungiven(b[j])
      <4>1. file_ptr + j \in DOMAIN log /\ b[j] = log[file_ptr + j] /\ Untaken(file_ptr + j)
        BY <2>2, <2>6, <2>7
      <4> QED
        BY <1>1, <2>0, <4>1 DEF TailInv, TailParts, Unoffered
    <3>2. \A i \in 1..L : Untaken(i)' => Untaken(i)
      <4>1. foreign' => foreign
        BY <2>1
      <4>2. ~foreign' => \A i \in 1..L : ~(i > file_ptr')
        <5>1. \A i \in 1..L : ~(i > L)
          BY <2>0
        <5> QED
          BY <2>g, <5>1
      <4> QED
        BY <4>1, <4>2 DEF Untaken
    <3> QED
      BY <1>1, <2>0, <2>1, <2>6, <3>1, <3>2 DEF TailInv, TailParts, Unoffered, Ungiven
  <2>e. HandlerAt'
    <3>1. ~foreign' => file_ptr' <= L
      <4>1. L <= L
        BY <2>0
      <4> QED
        BY <2>g, <4>1
    <3> QED
      BY <1>1, <2>0, <2>1, <3>1 DEF HandlerAt, L
  <2>f. Taken'
    <3> SUFFICES ASSUME agent \in {"built", "up"}, ~foreign', NEW i \in 1..L,
                        blind' < i, i <= file_ptr', IsError(log[i])
                 PROVE  OfferedOnce(log[i]) \/ \E j \in DOMAIN b : b[j] = log[i]
      BY <1>1, <2>0, <2>1, <2>6 DEF Taken, OfferedOnce
    <3>1. file_ptr <= L
      BY <2>g
    <3>2. CASE i > file_ptr
      <4>1. i - file_ptr \in 1..Len(b) /\ file_ptr + (i - file_ptr) = i
        BY <2>0, <2>2, <3>1, <3>2
      <4> QED
        BY <2>2, <2>6, <4>1
    <3>3. CASE i <= file_ptr
      <4>1. ~foreign /\ blind < i
        BY <2>0, <2>1, <3>1, <3>3
      <4> QED
        BY <1>1, <2>0, <2>6, <3>3, <4>1 DEF TailInv, TailParts, Taken
    <3> QED
      BY <2>0, <3>2, <3>3
  <2> QED
    BY <2>a, <2>b, <2>c, <2>d, <2>e, <2>f DEF TailParts
<1> QED
  BY <1>2, <1>3

\* The lines after the first one are what the rest of the invariant says of a batch.
LEMMA OthersKeep ==
    ASSUME TailInv, batch # <<>>, batch' = OtherLines(batch),
           UNCHANGED <<log, written, file_ptr, foreign>>
    PROVE  /\ InOrder'
           /\ \A j \in DOMAIN batch' : \E i \in DOMAIN batch :
                 batch'[j] = batch[i] /\ batch[1].line < batch'[j].line
<1>1. PICK k \in {1, 2} :
         /\ k <= Len(batch)
         /\ OtherLines(batch) \in Seq(Pieces) /\ OfLog(OtherLines(batch), written)
         /\ Len(OtherLines(batch)) = Len(batch) - k
         /\ \A j \in 1..Len(OtherLines(batch)) :
               /\ k + j \in 1..Len(batch) /\ OtherLines(batch)[j] = batch[k + j]
               /\ batch[1].line < OtherLines(batch)[j].line
  BY BatchLinesAre
<1>2. /\ batch' \in Seq(Pieces) /\ OfLog(batch', written)
      /\ Len(batch') = Len(batch) - k
      /\ \A j \in 1..Len(batch') :
            /\ k + j \in 1..Len(batch) /\ batch'[j] = batch[k + j]
            /\ batch[1].line < batch'[j].line
  BY <1>1
<1>3. Len(batch) \in Nat
  BY DEF TailInv, TailTypeOK
<1>4. \A j \in 1..Len(batch') : k + j = Len(batch) => j = Len(batch')
  BY <1>2, <1>3
<1>5. \A j \in DOMAIN batch' : j \in 1..Len(batch')
  BY <1>2
<1>6. \A j \in 1..Len(batch') : k + j \in DOMAIN batch
  <2>1. batch \in Seq(Pieces)
    BY DEF TailInv, TailTypeOK
  <2> QED
    BY <1>2, <2>1
<1>7. Content' = Content /\ (HalfWritten' <=> HalfWritten)
  BY DEF Content, HalfWritten
<1>8. \A i : Untaken(i)' <=> Untaken(i)
  BY DEF Untaken
<1>9. ASSUME NEW j \in DOMAIN batch', NEW i \in DOMAIN Content, Untaken(i)
      PROVE  \/ batch'[j].line < Content[i].line
             \/ j = Len(batch') /\ SameLine(batch'[j], Content[i])
  <2>1. j \in 1..Len(batch') /\ k + j \in DOMAIN batch /\ batch'[j] = batch[k + j]
    BY <1>2, <1>5, <1>6
  <2>2. \/ batch[k + j].line < Content[i].line
        \/ k + j = Len(batch) /\ SameLine(batch[k + j], Content[i])
    BY <1>9, <2>1 DEF TailInv, TailParts, InOrder
  <2> QED
    BY <1>4, <2>1, <2>2
<1>10. ASSUME HalfWritten, NEW j \in DOMAIN batch'
       PROVE  batch'[j].line < written \/ (j = Len(batch') /\ batch'[j] = log[Len(log)])
  <2>1. j \in 1..Len(batch') /\ k + j \in DOMAIN batch /\ batch'[j] = batch[k + j]
    BY <1>2, <1>5, <1>6
  <2>2. batch[k + j].line < written \/ (k + j = Len(batch) /\ batch[k + j] = log[Len(log)])
    BY <1>10, <2>1 DEF TailInv, TailParts, InOrder
  <2> QED
    BY <1>4, <2>1, <2>2
<1>11. InOrder'
  BY <1>2, <1>7, <1>8, <1>9, <1>10 DEF TailInv, TailParts, InOrder
<1>12. \A j \in DOMAIN batch' : /\ k + j \in DOMAIN batch /\ batch'[j] = batch[k + j]
                                /\ batch[1].line < batch'[j].line
  BY <1>2, <1>5, <1>6
<1> QED
  BY <1>11, <1>12

\* An error that was in the batch is the first line's, or is in what is left.
LEMMA LeftOf ==
    ASSUME TailInv, batch # <<>>, NEW j \in DOMAIN batch
    PROVE  \/ /\ batch[j].line = FirstLine(batch).line
              /\ HalvesOf(batch[j]) \subseteq HalvesOf(FirstLine(batch))
              /\ ~IsError(FirstLine(batch)) => ~IsError(batch[j])
           \/ \E i \in DOMAIN OtherLines(batch) : OtherLines(batch)[i] = batch[j]
<1>1. PICK k \in {1, 2} :
         /\ k <= Len(batch)
         /\ FirstLine(batch).line = batch[1].line
         /\ \A i \in 1..k : /\ batch[i].line = batch[1].line
                           /\ HalvesOf(batch[i]) \subseteq HalvesOf(FirstLine(batch))
         /\ ~IsError(FirstLine(batch)) => \A i \in 1..k : ~IsError(batch[i])
         /\ OtherLines(batch) \in Seq(Pieces)
         /\ Len(OtherLines(batch)) = Len(batch) - k
         /\ \A i \in 1..Len(OtherLines(batch)) :
               k + i \in 1..Len(batch) /\ OtherLines(batch)[i] = batch[k + i]
  BY BatchLinesAre
<1>2. batch \in Seq(Pieces)
  BY DEF TailInv, TailTypeOK
<1>3. Len(batch) \in Nat /\ j \in 1..Len(batch)
  BY <1>2
<1>4. CASE j \in 1..k
  BY <1>1, <1>4
<1>5. CASE j > k
  <2>1. j - k \in 1..Len(OtherLines(batch)) /\ k + (j - k) = j
    BY <1>1, <1>3, <1>5
  <2>2. j - k \in DOMAIN OtherLines(batch)
    BY <1>1, <2>1
  <2>3. OtherLines(batch)[j - k] = batch[j]
    BY <1>1, <2>1
  <2> QED
    BY <2>2, <2>3
<1> QED
  BY <1>1, <1>3, <1>4, <1>5

\* A line that is no error is passed over.
LEMMA SkipLineKeeps ==
    ASSUME TailInv, SkipLine
    PROVE  TailParts'
<1>1. /\ UNCHANGED <<log, written, now, starts, rotations, event, agent, thread, file_ptr,
                     seenKeys, offered, foreign, blind>>
      /\ thread = "lines" /\ batch # <<>> /\ batch' = OtherLines(batch)
      /\ ~IsError(FirstLine(batch))
  BY DEF SkipLine, worldVars
<1>2. Content' = Content /\ HalfWritten' = HalfWritten
  BY <1>1 DEF Content, HalfWritten
<1>3. /\ InOrder'
      /\ \A j \in DOMAIN batch' : \E i \in DOMAIN batch : batch'[j] = batch[i]
  BY <1>1, OthersKeep
<1>4. RecordedOnce' /\ HandledOnce'
  BY <1>1 DEF TailInv, TailParts, RecordedOnce, HandledOnce
<1>5. LogBounded'
  BY <1>1, <1>2 DEF TailInv, TailParts, LogBounded
<1>6. Unoffered'
  <2>1. \A j \in DOMAIN batch' : Ungiven(batch'[j])
    BY <1>3 DEF TailInv, TailParts, Unoffered
  <2> QED
    BY <1>1, <1>2, <2>1 DEF TailInv, TailParts, Unoffered, Ungiven, Untaken
<1>7. HandlerAt'
  BY <1>1, <1>2 DEF TailInv, TailParts, HandlerAt
<1>8. Taken'
  <2> SUFFICES ASSUME agent \in {"built", "up"}, ~foreign, NEW i \in DOMAIN Content,
                      blind < i, i <= file_ptr, IsError(Content[i])
               PROVE  \/ OfferedOnce(Content[i])
                      \/ thread = "dead"
                      \/ \E j \in DOMAIN batch' : batch'[j] = Content[i]
    BY <1>1, <1>2 DEF Taken, OfferedOnce
  <2>1. \/ OfferedOnce(Content[i])
        \/ \E j \in DOMAIN batch : batch[j] = Content[i]
    BY <1>1 DEF TailInv, TailParts, Taken
  <2>2. ASSUME NEW j \in DOMAIN batch, batch[j] = Content[i]
        PROVE  \E m \in DOMAIN batch' : batch'[m] = Content[i]
    BY <1>1, <2>2, LeftOf
  <2> QED
    BY <2>1, <2>2
<1> QED
  BY <1>3, <1>4, <1>5, <1>6, <1>7, <1>8 DEF TailParts

\* An error is put to the debouncer: for the first time.
LEMMA HandleErrorKeeps ==
    ASSUME TailInv, HandleError
    PROVE  TailParts'
<1> DEFINE f == FirstLine(batch)
           n == f.line
           r == Remembered(seenKeys, f.key, now, DEBOUNCE_CACHE)
<1>1. /\ UNCHANGED <<log, written, now, starts, rotations, event, agent, file_ptr,
                     foreign, blind>>
      /\ thread = "lines" /\ agent = "up" /\ batch # <<>> /\ batch' = OtherLines(batch)
      /\ IsError(f)
      /\ offered' = [offered EXCEPT ![n] = OfferedWith(f)]
      /\ \/ thread' = "lines" /\ seenKeys' = seenKeys
         \/ thread' = "pipeline" /\ seenKeys' = r
  BY DEF HandleError, AtError, worldVars
<1>2. Content' = Content /\ HalfWritten' = HalfWritten
  BY <1>1 DEF Content, HalfWritten
<1>3. /\ InOrder'
      /\ \A j \in DOMAIN batch' : \E i \in DOMAIN batch :
            batch'[j] = batch[i] /\ batch[1].line < batch'[j].line
  BY <1>1, OthersKeep
<1>5. batch \in Seq(Pieces) /\ 1 \in DOMAIN batch /\ batch[1] \in Pieces
  BY <1>1 DEF TailInv, TailTypeOK
<1>4. /\ f.line = batch[1].line /\ batch[1].mark # "none"
      /\ Len(batch) = 1 => f = batch[1]
      /\ \A h \in HalvesOf(f) : \E i \in DOMAIN batch :
            batch[i].line = batch[1].line /\ h \in HalvesOf(batch[i])
  <2>1. PICK k \in {1, 2} :
           /\ k <= Len(batch)
           /\ f.line = batch[1].line /\ batch[1].mark # "none"
           /\ Len(batch) = 1 => f = batch[1]
           /\ \A i \in 1..k : batch[i].line = batch[1].line
           /\ \A h \in HalvesOf(f) : \E i \in 1..k : h \in HalvesOf(batch[i])
    BY <1>1, BatchLinesAre
  <2>2. \A i \in 1..k : i \in DOMAIN batch
    BY <1>5, <2>1
  <2> HIDE DEF f
  <2> QED
    BY <2>1, <2>2
<1>6. written \in 0..MaxLines /\ MaxLines \in Nat /\ offered \in [Lines -> [Halves -> Nat]]
  BY LogTailAssumption DEF TailInv, TailTypeOK
<1>7. n \in Lines /\ n <= written /\ \A h \in HalvesOf(f) : offered[n][h] = 0
  <2>1. batch[1].line \in 0..MaxLines /\ batch[1].line <= written /\ batch[1].line # 0
    BY <1>4, <1>5 DEF TailInv, TailParts, InOrder, OfLog, Pieces
  <2>2. \A h \in HalvesOf(f) : offered[batch[1].line][h] = 0
    BY <1>4, <2>1 DEF TailInv, TailParts, Unoffered, Ungiven
  <2> QED
    BY <1>4, <1>6, <2>1, <2>2 DEF Lines
<1> HIDE DEF f, r, n
<1>8. /\ \A h \in Halves : offered'[n][h] = IF h \in HalvesOf(f) THEN 1 ELSE offered[n][h]
      /\ \A m \in Lines : m # n => offered'[m] = offered[m]
      /\ \A m : m # n => offered'[m] = offered[m]
  <2>1. offered'[n] = OfferedWith(f)
    BY <1>1, <1>6, <1>7
  <2>2. \A h \in Halves : OfferedWith(f)[h] = IF h \in HalvesOf(f) THEN 1 ELSE offered[n][h]
    BY <1>7 DEF OfferedWith, n
  <2>3. \A m : m # n => offered'[m] = offered[m]
    BY <1>1, <1>6, <1>7
  <2> QED
    BY <2>1, <2>2, <2>3
<1>n. n = batch[1].line /\ n \in Nat
  BY <1>4, <1>7 DEF n, Lines
<1>a. RecordedOnce'
  <2>1. \A i, j \in DOMAIN r : r[i].key = r[j].key => i = j
    BY <1>1, KeysAre DEF r, f
  <2> QED
    BY <1>1, <2>1 DEF TailInv, TailParts, RecordedOnce
<1>b. LogBounded' /\ HandledOnce'
  <2>1. \A m \in Lines, h \in Halves : offered'[m][h] <= 1
    BY <1>7, <1>8 DEF TailInv, TailParts, HandledOnce
  <2> QED
    BY <1>1, <1>2, <2>1 DEF TailInv, TailParts, LogBounded, HandledOnce
<1>c. Unoffered'
  <2>1. \A m \in Lines : m > written => \A h \in Halves : offered'[m][h] = 0
    <3> SUFFICES ASSUME NEW m \in Lines, m > written PROVE \A h \in Halves : offered'[m][h] = 0
      OBVIOUS
    <3>1. m # n
      BY <1>6, <1>7 DEF Lines
    <3> QED
      BY <1>8, <3>1 DEF TailInv, TailParts, Unoffered
  <2>2. ASSUME HalfWritten PROVE offered'[written]["tail"] = 0
    <3>1. batch[1].line < written \/ (1 = Len(batch) /\ batch[1] = log[Len(log)])
      BY <1>5, <2>2 DEF TailInv, TailParts, InOrder
    <3>2. CASE batch[1].line < written
      <4>1. written # n
        BY <1>6, <1>n, <3>2
      <4> QED
        BY <1>8, <2>2, <4>1 DEF TailInv, TailParts, Unoffered
    <3>3. CASE 1 = Len(batch) /\ batch[1] = log[Len(log)]
      <4>1. HalvesOf(f) = {"head"} /\ written = n
        BY <1>4, <1>n, <2>2, <3>3 DEF TailInv, TailParts, InOrder, HalfWritten, HalvesOf
      <4>2. offered[written]["tail"] = 0
        BY <2>2 DEF TailInv, TailParts, Unoffered
      <4> QED
        BY <1>8, <4>1, <4>2 DEF Halves
    <3> QED
      BY <3>1, <3>2, <3>3
  <2>3. ASSUME NEW j \in DOMAIN batch'
        PROVE  \A h \in HalvesOf(batch'[j]) : batch'[j].line # 0 => offered'[batch'[j].line][h] = 0
    <3>1. PICK i \in DOMAIN batch : batch'[j] = batch[i] /\ batch[1].line < batch'[j].line
      BY <1>3
    <3>2. \A h \in HalvesOf(batch'[j]) : batch'[j].line # 0 => offered[batch'[j].line][h] = 0
      BY <3>1 DEF TailInv, TailParts, Unoffered, Ungiven
    <3>a. batch[i] \in Pieces
      BY <1>5, <3>1
    <3>3. batch'[j].line # n
      BY <1>6, <1>n, <3>1, <3>a DEF Pieces
    <3> QED
      BY <1>8, <3>2, <3>3
  <2>4. ASSUME NEW i \in DOMAIN Content, Untaken(i)
        PROVE  \A h \in HalvesOf(Content[i]) :
                  Content[i].line # 0 => offered'[Content[i].line][h] = 0
    <3>1. \A h \in HalvesOf(Content[i]) : Content[i].line # 0 => offered[Content[i].line][h] = 0
      BY <1>1, <2>4 DEF TailInv, TailParts, Unoffered, Ungiven
    <3>2. \/ batch[1].line < Content[i].line
          \/ 1 = Len(batch) /\ SameLine(batch[1], Content[i])
      BY <1>5, <2>4 DEF TailInv, TailParts, InOrder
    <3>3. CASE 1 = Len(batch) /\ SameLine(batch[1], Content[i])
      <4>1. HalvesOf(f) = {"head"} /\ HalvesOf(Content[i]) = {"tail"} /\ Content[i].line = n
        BY <1>4, <1>n, <3>3 DEF SameLine, HalvesOf
      <4> QED
        BY <1>8, <3>1, <4>1 DEF Halves
    <3>4. CASE batch[1].line < Content[i].line
      <4>1. Content[i] \in Pieces
        BY ContentIs
      <4>2. Content[i].line # n
        BY <1>6, <1>n, <3>4, <4>1 DEF Pieces
      <4> QED
        BY <1>8, <3>1, <4>2
    <3> QED
      BY <3>2, <3>3, <3>4
  <2>5. \A i : Untaken(i)' <=> Untaken(i)
    BY <1>1 DEF Untaken
  <2> QED
    BY <1>1, <1>2, <2>1, <2>2, <2>3, <2>4, <2>5 DEF Unoffered, Ungiven
<1>d. HandlerAt'
  BY <1>1, <1>2 DEF TailInv, TailParts, HandlerAt
<1>e. Taken'
  <2> SUFFICES ASSUME ~foreign, NEW i \in DOMAIN Content,
                      blind < i, i <= file_ptr, IsError(Content[i])
               PROVE  \/ \A h \in HalvesOf(Content[i]) : offered'[Content[i].line][h] = 1
                      \/ \E j \in DOMAIN batch' : batch'[j] = Content[i]
    BY <1>1, <1>2 DEF Taken, OfferedOnce
  <2>1. HalvesOf(Content[i]) \subseteq Halves
    <3>1. Content[i] \in Pieces
      BY ContentIs
    <3> QED
      BY <3>1 DEF Pieces, HalvesOf, Halves
  <2>2. OfferedOnce(Content[i]) \/ \E j \in DOMAIN batch : batch[j] = Content[i]
    BY <1>1 DEF TailInv, TailParts, Taken
  <2>3. ASSUME OfferedOnce(Content[i]), NEW h \in HalvesOf(Content[i])
        PROVE  offered'[Content[i].line][h] = 1
    <3>1. offered[Content[i].line][h] = 1 /\ h \in Halves
      BY <2>1, <2>3 DEF OfferedOnce
    <3>2. CASE Content[i].line = n
      BY <1>7, <1>8, <3>1, <3>2
    <3>3. CASE Content[i].line # n
      BY <1>8, <3>1, <3>3
    <3> QED
      BY <3>2, <3>3
  <2>4. ASSUME NEW j \in DOMAIN batch, batch[j] = Content[i]
        PROVE  \/ \A h \in HalvesOf(Content[i]) : offered'[Content[i].line][h] = 1
               \/ \E m \in DOMAIN batch' : batch'[m] = Content[i]
    <3>1. \/ Content[i].line = n /\ HalvesOf(Content[i]) \subseteq HalvesOf(f)
          \/ \E m \in DOMAIN batch' : batch'[m] = Content[i]
      BY <1>1, <2>4, LeftOf DEF n, f
    <3> QED
      BY <1>8, <2>1, <3>1
  <2> QED
    BY <2>2, <2>3, <2>4
<1> QED
  BY <1>3, <1>a, <1>b, <1>c, <1>d, <1>e DEF TailParts

\* Every step of the writer, the rotation, the agent and its dispatch thread.
LEMMA TailInvStep == TailInv /\ [TailNext]_tailVars => TailInv'
<1>1. ASSUME TailInv, TailNext PROVE TailInv'
  <2>1. TailTypeOK'
    BY <1>1, TailTypeStep
  <2> USE <1>1
  <2>2. ASSUME NEW mark \in Marks, NEW key \in LogKeys, NEW part \in {"whole", "head"},
               AppendLine(mark, part, key)
        PROVE  TailParts'
    BY <2>2, AppendLineKeeps
  <2>3. ASSUME NEW key \in LogKeys, AppendTail(key) PROVE TailParts'
    BY <2>3, AppendTailKeeps
  <2>4. ASSUME NEW left \in {<<>>, Gone}, Rotate(left) PROVE TailParts'
    BY <2>4, RotateKeeps
  <2>5. ASSUME BuildHandlers PROVE TailParts'
    BY <2>5, BuildHandlersKeeps
  <2>h. HandlerAt
    BY DEF TailInv, TailParts
  <2>6. ASSUME StartObserver \/ Signal \/ BatchDone \/ PipelineEnds \/ LogTick PROVE TailParts'
    BY <2>6, <2>h, QuietKeeps
       DEF StartObserver, Signal, BatchDone, PipelineEnds, LogTick, worldVars, HandlerAt
  <2>7. ASSUME End PROVE TailParts'
    BY <2>7, EndKeeps
  <2>8. ASSUME Stat PROVE TailParts'
    BY <2>8, StatKeeps
  <2>9. ASSUME ReadLines PROVE TailParts'
    BY <2>9, ReadLinesKeeps
  <2>10. ASSUME SkipLine PROVE TailParts'
    BY <2>10, SkipLineKeeps
  <2>11. ASSUME LeaveForShutdown \/ PipelineKillsThread PROVE TailParts'
    BY <2>11, DroppedKeeps DEF LeaveForShutdown, PipelineKillsThread, AtError, worldVars
  <2>12. ASSUME HandleError PROVE TailParts'
    BY <2>12, HandleErrorKeeps
  <2>13. TailParts'
    BY <2>2, <2>3, <2>4, <2>5, <2>6, <2>7, <2>8, <2>9, <2>10, <2>11, <2>12
       DEF TailNext, Dispatch
  <2> QED
    BY <2>1, <2>13 DEF TailInv
<1>2. ASSUME TailInv, UNCHANGED tailVars PROVE TailInv'
  <2>1. TailTypeOK'
    BY <1>2 DEF TailInv, TailTypeOK, tailVars
  <2>2. HandlerAt
    BY <1>2 DEF TailInv, TailParts
  <2>3. TailParts'
    BY <1>2, <2>2, QuietKeeps DEF tailVars, HandlerAt
  <2> QED
    BY <2>1, <2>3 DEF TailInv
<1> QED
  BY <1>1, <1>2

\* What the invariant is for.
LEMMA TailInvGivesProperty == TailInv => EachErrorOnce
<1> SUFFICES ASSUME TailInv PROVE EachErrorOnce
  OBVIOUS
<1>1. HandledOnce
  BY DEF TailInv, TailParts
<1>2. NothingSkipped
  <2> SUFFICES ASSUME agent = "up", thread = "idle", log # Gone, ~foreign,
                      NEW i \in DOMAIN log, blind < i, i <= file_ptr, IsError(log[i])
               PROVE  OfferedOnce(log[i])
    BY DEF NothingSkipped
  <2>1. batch = <<>>
    BY DEF TailInv, TailParts, HandlerAt
  <2>2. Content = log
    BY DEF Content
  <2>3. \A j \in DOMAIN batch : FALSE
    BY <2>1
  <2> QED
    BY <2>2, <2>3 DEF TailInv, TailParts, Taken
<1> QED
  BY <1>1, <1>2 DEF EachErrorOnce

-----------------------------------------------------------------------------
(* ProactiveMonitor                                                        *)

\* A region is over the threshold in MiB if it is in the unit of its source.
LEMMA OverInMib ==
    ASSUME NEW r \in Regions, NEW f \in {1, 1024}, Over(InMib(r, f))
    PROVE  Over(r)
<1>1. r.used \in {0, 1, 4, Unknown} /\ r.total \in {4, Unknown}
  BY DEF Regions, Nothing
<1>2. r.used # Unknown /\ r.total # Unknown
  BY DEF Over, InMib, Mib
<1>3. InMib(r, f) = [used |-> r.used * f, total |-> r.total * f]
  BY <1>2 DEF InMib, Mib
<1>4. VRAM_THRESHOLD_PCT \in Int
  BY GpuAssumption
<1>5. r.used * f * 100 >= VRAM_THRESHOLD_PCT * (r.total * f)
  BY <1>3 DEF Over
<1>6. CASE f = 1
  BY <1>1, <1>2, <1>4, <1>5, <1>6 DEF Over
<1>7. CASE f = 1024
  <2>1. r.total = 4
    BY <1>1, <1>2
  <2>2. r.used * 100 >= VRAM_THRESHOLD_PCT * 4
    BY <1>1, <1>2, <1>4, <1>5, <1>7, <2>1
  <2> QED
    BY <1>2, <2>1, <2>2 DEF Over
<1> QED
  BY <1>6, <1>7

\* What intel_gpu_top prints about a region is about that region.
LEMMA TopTellsTruth ==
    ASSUME NEW top \in TopAnswers, Over(ParseVram(top))
    PROVE  Over(top.regions[1]) \/ Over(top.regions[2])
<1>1. top.regions \in [1..2 -> Regions] /\ top.factor \in {1, 1024}
  BY DEF TopAnswers, Samples, TopAnswer, Regions
<1> DEFINE known == {i \in DOMAIN top.regions : top.regions[i].used # Unknown}
<1>2. CASE known = {}
  <2>1. ParseVram(top).total = Unknown
    BY <1>2 DEF ParseVram
  <2> QED
    BY <2>1 DEF Over
<1>3. CASE known # {}
  <2>1. known \subseteq {1, 2}
    BY <1>1
  <2>2. Min(known) \in known
    <3>1. \E x \in known : \A y \in known : x <= y
      BY <1>3, <2>1
    <3> QED
      BY <3>1 DEF Min
  <2>3. Over(InMib(top.regions[Min(known)], top.factor))
    BY <1>3 DEF ParseVram
  <2>4. top.regions[Min(known)] \in Regions
    <3>1. Min(known) \in 1..2
      <4>1. Min(known) = 1 \/ Min(known) = 2
        BY <2>1, <2>2
      <4> QED
        BY <4>1
    <3> HIDE DEF known
    <3> QED
      BY <1>1, <3>1
  <2>5. Over(top.regions[Min(known)])
    BY <1>1, <2>3, <2>4, OverInMib
  <2> QED
    BY <2>1, <2>2, <2>5
<1> QED
  BY <1>2, <1>3

\* The probe of the GPU's memory is only high when a region is, or when sysfs has
\* no file for the total.
LEMMA HighIsNotFree ==
    ASSUME NEW r \in VramReadings, r.reading = "high"
    PROVE  r.truth # "free"
<1>1. PICK top \in TopAnswers, s \in Sysfs, shell \in BOOLEAN :
        r = [reading |-> Reading(top, s, shell), truth |-> Truth(top, s)]
  BY DEF VramReadings
<1>2. Over(Stats(top, s, shell))
  BY <1>1 DEF Reading
<1>3. SUFFICES ~(Over(top.regions[1]) \/ Over(top.regions[2]) \/ Over(s.info) \/ Over(s.bytes))
                 => Misread(top, s)
  BY <1>1 DEF Truth
<1>4. CASE ParseVram(top).used # Unknown
  BY <1>2, <1>4, TopTellsTruth DEF Stats
<1>5. CASE ParseVram(top).used = Unknown
  <2>1. Stats(top, s, shell).used # Unknown /\ Stats(top, s, shell).total # Unknown
    BY <1>2 DEF Over
  <2>2. SysfsVram(s).used # Unknown
    BY <1>5, <2>1 DEF Stats, PowerShell
  <2>3. Over(SysfsVram(s))
    BY <1>2, <1>5, <2>2 DEF Stats
  <2>4. CASE s.info.used # Unknown /\ s.info.total # Unknown
    <3>1. SysfsVram(s).used = s.info.used /\ SysfsVram(s).total = s.info.total
      BY <2>4 DEF SysfsVram, FileTotal
    <3> QED
      BY <2>3, <3>1 DEF Over
  <2>5. CASE s.info.used # Unknown /\ s.info.total = Unknown
    BY <1>5, <2>5 DEF Misread
  <2>6. CASE s.info.used = Unknown /\ s.bytes.used # Unknown
    BY <1>5, <2>6 DEF Misread
  <2>7. CASE s.info.used = Unknown /\ s.bytes.used = Unknown
    BY <2>3, <2>7 DEF SysfsVram, Over
  <2> QED
    BY <2>4, <2>5, <2>6, <2>7
<1> QED
  BY <1>4, <1>5

\* After a probe comes another one, or the end of the check.
LEMMA FollowingIsProbe == \A p \in Probes : Following(p) \in Probes \cup {"idle"}
<1>1. Len(Order) = 4 /\ DOMAIN Order = 1..4
  BY DEF Order
<1>2. \A i \in 1..4 : Order[i] \in Probes
  BY DEF Order, Probes
<1>3. ASSUME NEW p \in Probes PROVE Position(p) \in 1..4
  <2>1. \E i \in DOMAIN Order : Order[i] = p
    BY <1>1 DEF Order, Probes
  <2> QED
    BY <1>1, <2>1 DEF Position
<1> QED
  BY <1>1, <1>2, <1>3 DEF Following

\* The stamp is the last callback's, a streak is one of checks in a row, and the
\* GPU's memory is not read as over its threshold while it is free.
MonInv ==
    /\ MonTypeOK
    /\ sinceAlert = sinceFired
    /\ streak <= hotChecks
    /\ reading["vram"] = "high" => vram # "free"

LEMMA ColdType == AllCold \in [Probes -> 0..ALERT_COOLDOWN_SEC]
BY ProactiveAssumption DEF AllCold

LEMMA MonInvInit == MonInit => MonInv
<1>1. /\ CHECK_INTERVAL_SEC \in Nat \ {0} /\ CPU_STREAK_TRIGGER \in Nat \ {0}
      /\ ALERT_COOLDOWN_SEC \in Nat \ {0} /\ MaxMonRestarts \in Nat
  BY ProactiveAssumption
<1> SUFFICES ASSUME MonInit PROVE MonInv
  OBVIOUS
<1>2. /\ monRestarts \in 0..MaxMonRestarts /\ sinceCheck \in 0..CHECK_INTERVAL_SEC
      /\ streak \in 0..CPU_STREAK_TRIGGER /\ hotChecks \in 0..CPU_STREAK_TRIGGER
      /\ sinceFired \in [Probes -> 0..ALERT_COOLDOWN_SEC] /\ sinceAlert = sinceFired
      /\ probe \in Probes \cup {"idle"} /\ streak <= hotChecks
      /\ reading \in [Probes -> Readings] /\ reading["vram"] # "high"
      /\ vram \in {"full", "free", "misread"}
  BY <1>1, ColdType DEF MonInit, Probes, Readings
<1>3. calling = FALSE
  BY DEF MonInit
<1> QED
  BY <1>2, <1>3, Zenon DEF MonInv, MonTypeOK

\* The truth about a reading is one of three.
LEMMA ReadingType ==
    \A r \in VramReadings : r.reading \in Readings /\ r.truth \in {"full", "free", "misread"}
BY DEF VramReadings, Reading, Truth, Readings

\* Every step of the monitor keeps the invariant.
LEMMA MonInvStep == MonInv /\ [MonNext]_monVars => MonInv'
<1> SUFFICES ASSUME MonInv, [MonNext]_monVars PROVE MonInv'
  OBVIOUS
<1>0. /\ CHECK_INTERVAL_SEC \in Nat \ {0} /\ CPU_STREAK_TRIGGER \in Nat \ {0}
      /\ ALERT_COOLDOWN_SEC \in Nat \ {0} /\ MaxMonRestarts \in Nat
  BY ProactiveAssumption
<1> USE <1>0 DEF MonInv, MonTypeOK
<1>1. CASE BeginCheck
  BY <1>1 DEF BeginCheck, Order, Probes
<1>2. CASE ProbeRaises
  BY <1>2 DEF ProbeRaises
<1>3. CASE ProbeLow
  BY <1>3, FollowingIsProbe DEF ProbeLow, CalmStreak
<1>4. CASE ProbeHigh
  <2>1. probe \in Probes
    BY <1>4 DEF ProbeHigh
  <2>2. /\ streak' \in 0..CPU_STREAK_TRIGGER
        /\ hotChecks' \in 0..CPU_STREAK_TRIGGER
        /\ streak' <= hotChecks'
    BY <1>4, <2>1 DEF ProbeHigh, HotStreak, Reports, Aged
  <2>3. sinceFired' \in [Probes -> 0..ALERT_COOLDOWN_SEC] /\ sinceAlert' = sinceFired'
    BY <1>4, <2>1 DEF ProbeHigh, Stamped, StampWithheld
  <2>4. /\ probe' \in Probes \cup {"idle"}
        /\ calling' \in BOOLEAN
        /\ calling' => probe' # "idle"
    <3>1. CASE calling' = TRUE /\ probe' = probe
      BY <2>1, <3>1, Zenon DEF Probes
    <3>2. CASE calling' = calling /\ probe' = Following(probe)
      <4>1. calling = FALSE
        BY <1>4 DEF ProbeHigh
      <4> QED
        BY <2>1, <3>2, <4>1, FollowingIsProbe, Zenon
    <3> QED
      BY <1>4, <3>1, <3>2 DEF ProbeHigh
  <2>5. UNCHANGED <<reading, sinceCheck, monRestarts, vram>>
    BY <1>4 DEF ProbeHigh
  <2>6. /\ reading' \in [Probes -> Readings] /\ sinceCheck' \in 0..CHECK_INTERVAL_SEC
        /\ monRestarts' \in 0..MaxMonRestarts /\ vram' \in {"full", "free", "misread"}
        /\ sinceAlert' \in [Probes -> 0..ALERT_COOLDOWN_SEC]
        /\ reading'["vram"] = "high" => vram' # "free"
    BY <2>3, <2>5
  <2> QED
    BY <2>2, <2>3, <2>4, <2>6, Zenon
<1>5. CASE CallbackEnds
  BY <1>5, FollowingIsProbe DEF CallbackEnds
<1>6. CASE ReadingChanges
  <2>1. CASE /\ \E p \in Varying \ {"vram"}, l \in Readings : reading' = [reading EXCEPT ![p] = l]
             /\ UNCHANGED vram
    BY <1>6, <2>1, ProactiveAssumption DEF ReadingChanges
  <2>2. ASSUME NEW r \in VramReadings,
               reading' = [reading EXCEPT !["vram"] = r.reading], vram' = r.truth
        PROVE  MonInv'
    BY <1>6, <2>2, HighIsNotFree, ReadingType DEF ReadingChanges, Probes
  <2> QED
    BY <1>6, <2>1, <2>2 DEF ReadingChanges
<1>7. CASE MonTick
  <2>1. sinceCheck' \in 0..CHECK_INTERVAL_SEC
    BY <1>7 DEF MonTick, Aged
  <2>2. sinceFired' \in [Probes -> 0..ALERT_COOLDOWN_SEC]
    BY <1>7 DEF MonTick, Aged
  <2>3. sinceAlert' = sinceFired'
    BY <1>7 DEF MonTick
  <2>4. UNCHANGED <<reading, streak, probe, calling, monRestarts, vram, hotChecks>>
    BY <1>7 DEF MonTick
  <2> QED
    BY <2>1, <2>2, <2>3, <2>4
<1>8. CASE MonRestart
  <2>1. /\ monRestarts' \in 0..MaxMonRestarts /\ sinceCheck' \in 0..CHECK_INTERVAL_SEC
        /\ streak' \in 0..CPU_STREAK_TRIGGER /\ hotChecks' \in 0..CPU_STREAK_TRIGGER
        /\ sinceFired' \in [Probes -> 0..ALERT_COOLDOWN_SEC] /\ sinceAlert' = sinceFired'
        /\ probe' \in Probes \cup {"idle"} /\ streak' <= hotChecks'
    BY <1>8, ColdType DEF MonRestart
  <2>2. calling' = FALSE /\ UNCHANGED <<reading, vram>>
    BY <1>8 DEF MonRestart
  <2> QED
    BY <2>1, <2>2, Zenon
<1>9. CASE UNCHANGED monVars
  BY <1>9 DEF monVars
<1> QED
  BY <1>1, <1>2, <1>3, <1>4, <1>5, <1>6, <1>7, <1>8, <1>9 DEF MonNext, CheckStep

\* A callback starts in ProbeHigh alone.
LEMMA AlertsAreDueInStep ==
    ASSUME MonInv, [MonNext]_monVars
    PROVE  [OneAlertPerCooldown /\ CpuAlertNeedsStreak /\ VramAlertIsReal]_monVars
<1> USE DEF MonInv, MonTypeOK
<1>1. CASE ~calling /\ calling'
  <2>1. ProbeHigh
    BY <1>1 DEF MonNext, CheckStep, BeginCheck, ProbeRaises, ProbeLow, CallbackEnds,
                ReadingChanges, MonTick, MonRestart, monVars
  <2>2. Reports(probe) /\ sinceFired[probe] = ALERT_COOLDOWN_SEC /\ probe \in Probes
    BY <1>1, <2>1 DEF ProbeHigh
  <2>3. OneAlertPerCooldown
    BY <2>2 DEF OneAlertPerCooldown
  <2>4. CpuAlertNeedsStreak
    BY <2>1, <2>2, ProactiveAssumption DEF ProbeHigh, CpuAlertNeedsStreak, Reports, Aged
  <2>5. VramAlertIsReal
    BY <2>1 DEF VramAlertIsReal, ProbeHigh
  <2> QED
    BY <2>3, <2>4, <2>5
<1>2. CASE ~(~calling /\ calling')
  BY <1>2 DEF OneAlertPerCooldown, CpuAlertNeedsStreak, VramAlertIsReal
<1> QED
  BY <1>1, <1>2

-----------------------------------------------------------------------------
(* The main loop                                                           *)

\* A task is as long at rest as its row or its timer says, or longer: what survives a
\* restart is never younger than the work it stands for.
Rested(duty, row, interval) ==
    /\ quietSince[duty] \in 0..interval
    /\ row # Never => row \in Nat /\ quietSince[duty] >= row
    /\ row = Never => quietSince[duty] = interval

\* What stands announced is in the file, and no run announces it again.
LoopInv ==
    /\ quietSince = [t \in Tasks |-> quietSince[t]]
    /\ Rested("maintenance", maintained, MAINTENANCE_INTERVAL)
    /\ Rested("purge", purged, PURGE_INTERVAL)
    /\ quietSince["etl"] \in 0..ETL_INTERVAL
    /\ sinceEtl \in 0..ETL_INTERVAL
    /\ pos # "down" => quietSince["etl"] >= sinceEtl
    /\ pos = "down" => sinceEtl = 0
    /\ standing \subseteq saved
    /\ pos = "saving" => standing \subseteq current
    /\ pos \in {"saving", "announce"} => news \cap standing = {}

LEMMA LoopInvInit == LoopInit => LoopInv
BY MainLoopAssumption DEF LoopInit, LoopInv, Rested, Longest, IntervalOf, Tasks

\* The work of a task is recorded in the step that does it, if at all.
LEMMA WorkedKeeps ==
    ASSUME LoopInv, NEW t \in Tasks, NEW n \in Nat,
           quietSince' = [quietSince EXCEPT ![t] = n]
    PROVE  /\ quietSince' = [s \in Tasks |-> quietSince'[s]]
           /\ quietSince'[t] = n
           /\ \A s \in Tasks : s # t => quietSince'[s] = quietSince[s]
BY DEF LoopInv

LEMMA LoopInvTick == LoopInv /\ LoopTick => LoopInv'
<1> SUFFICES ASSUME LoopInv, LoopTick PROVE LoopInv'
  OBVIOUS
<1>1. /\ MAINTENANCE_INTERVAL \in Nat \ {0} /\ PURGE_INTERVAL \in Nat \ {0}
      /\ ETL_INTERVAL \in Nat \ {0} /\ Never \notin Nat
  BY MainLoopAssumption
<1>2. /\ quietSince' = [t \in Tasks |-> quietSince'[t]]
      /\ quietSince'["maintenance"] = Older(quietSince["maintenance"], MAINTENANCE_INTERVAL)
      /\ quietSince'["purge"] = Older(quietSince["purge"], PURGE_INTERVAL)
      /\ quietSince'["etl"] = Older(quietSince["etl"], ETL_INTERVAL)
      /\ maintained' = Older(maintained, MAINTENANCE_INTERVAL)
      /\ purged' = Older(purged, PURGE_INTERVAL)
      /\ sinceEtl' = IF pos = "down" THEN 0 ELSE Older(sinceEtl, ETL_INTERVAL)
      /\ UNCHANGED <<pos, current, saved, standing, news>>
  BY DEF LoopTick, IntervalOf, Tasks, clusters
<1>3. Rested("maintenance", maintained, MAINTENANCE_INTERVAL)'
  BY <1>1, <1>2 DEF LoopInv, Rested, Older
<1>4. Rested("purge", purged, PURGE_INTERVAL)'
  BY <1>1, <1>2 DEF LoopInv, Rested, Older
<1>5. /\ (quietSince["etl"] \in 0..ETL_INTERVAL)'
      /\ (sinceEtl \in 0..ETL_INTERVAL)'
      /\ (pos # "down" => quietSince["etl"] >= sinceEtl)'
      /\ (pos = "down" => sinceEtl = 0)'
  BY <1>1, <1>2 DEF LoopInv, Older
<1> QED
  BY <1>2, <1>3, <1>4, <1>5 DEF LoopInv

\* Every step of the loop and of its world keeps it.
LEMMA LoopInvStep == LoopInv /\ LoopNext => LoopInv'
<1> SUFFICES ASSUME LoopInv, LoopNext PROVE LoopInv'
  OBVIOUS
<1> USE DEF Goto, rows, timers, clusters
<1>0. /\ MAINTENANCE_INTERVAL \in Nat \ {0} /\ PURGE_INTERVAL \in Nat \ {0}
      /\ ETL_INTERVAL \in Nat \ {0} /\ Never \notin Nat
  BY MainLoopAssumption
<1>1. CASE LoopTick
  BY <1>1, LoopInvTick
<1>2. CASE StartLoop
  <2>1. /\ pos' = "wait" /\ sinceEtl' = 0
        /\ quietSince' = [quietSince EXCEPT !["etl"] = 0]
        /\ UNCHANGED <<maintained, purged, current, saved, standing, news>>
    BY <1>2 DEF StartLoop
  <2>2. /\ quietSince' = [s \in Tasks |-> quietSince'[s]] /\ quietSince'["etl"] = 0
        /\ quietSince'["maintenance"] = quietSince["maintenance"]
        /\ quietSince'["purge"] = quietSince["purge"]
    BY <2>1, WorkedKeeps DEF Tasks
  <2> QED
    BY <1>0, <2>1, <2>2 DEF LoopInv, Rested
<1>3. CASE StopSignal
  BY <1>3 DEF StopSignal, LoopInv, Rested
<1>4. CASE Killed \/ LeaveLoop \/ AskRaises
  <2>1. /\ pos' = "down" /\ sinceEtl' = 0 /\ news' = {}
        /\ UNCHANGED <<maintained, purged, quietSince>>
    BY <1>4 DEF Killed, LeaveLoop, AskRaises, Down
  <2>2. (saved' = {} /\ standing' = {}) \/ UNCHANGED <<saved, standing>>
    BY <1>4 DEF Killed, LeaveLoop, AskRaises
  <2> QED
    BY <1>0, <2>1, <2>2 DEF LoopInv, Rested
<1>5. CASE Wake \/ NoMaintenance \/ ProbesDone \/ ClusterNotDue \/ PurgeNotDue
  <2>1. /\ pos' \in {"maintenance", "probes", "etl", "wait"} /\ pos # "down"
        /\ UNCHANGED <<rows, timers, clusters, news, quietSince>>
    BY <1>5 DEF Wake, NoMaintenance, ProbesDone, ClusterNotDue, PurgeNotDue
  <2> QED
    BY <2>1 DEF LoopInv, Rested
<1>6. CASE Maintain
  <2>1. /\ pos # "down" /\ pos' = "probes" /\ maintained' = 0
        /\ quietSince' = [quietSince EXCEPT !["maintenance"] = 0]
        /\ UNCHANGED <<purged, sinceEtl, current, saved, standing, news>>
    BY <1>6 DEF Maintain, Recorded, Worked
  <2>2. /\ quietSince' = [s \in Tasks |-> quietSince'[s]] /\ quietSince'["maintenance"] = 0
        /\ quietSince'["etl"] = quietSince["etl"]
        /\ quietSince'["purge"] = quietSince["purge"]
    BY <2>1, WorkedKeeps DEF Tasks
  <2> QED
    BY <1>0, <2>1, <2>2 DEF LoopInv, Rested
<1>7. CASE EtlNotDue
  BY <1>7 DEF EtlNotDue, UnaskedEtl, LoopInv, Rested
<1>8. CASE RunEtl
  <2>1. /\ pos # "down" /\ pos' = "cluster" /\ sinceEtl' = 0
        /\ quietSince' = [quietSince EXCEPT !["etl"] = 0]
        /\ UNCHANGED <<maintained, purged, current, saved, standing, news>>
    BY <1>8 DEF RunEtl, Worked
  <2>2. /\ quietSince' = [s \in Tasks |-> quietSince'[s]] /\ quietSince'["etl"] = 0
        /\ quietSince'["maintenance"] = quietSince["maintenance"]
        /\ quietSince'["purge"] = quietSince["purge"]
    BY <2>1, WorkedKeeps DEF Tasks
  <2> QED
    BY <1>0, <2>1, <2>2 DEF LoopInv, Rested
<1>9. CASE ClusterFails
  BY <1>9 DEF ClusterFails, LoopInv, Rested
<1>10. CASE Cluster
  BY <1>10 DEF Cluster, LoopInv, Rested
<1>11. CASE SaveCategories
  BY <1>11 DEF SaveCategories, ToSave, LoopInv, Rested
<1>12. CASE Announce
  BY <1>12 DEF Announce, LoopInv, Rested
<1>13. CASE Purge
  <2>1. /\ pos # "down" /\ pos' = "wait"
        /\ UNCHANGED <<maintained, sinceEtl, current, saved, standing, news>>
    BY <1>13 DEF Purge
  <2>2. PICK n \in {0, PURGE_INTERVAL} :
           /\ quietSince' = [quietSince EXCEPT !["purge"] = n]
           /\ \/ n = 0 /\ purged' = 0
              \/ n = PURGE_INTERVAL /\ purged' = purged
    BY <1>13 DEF Purge, RunRecorded, Worked
  <2>3. /\ quietSince' = [s \in Tasks |-> quietSince'[s]] /\ quietSince'["purge"] = n
        /\ quietSince'["etl"] = quietSince["etl"]
        /\ quietSince'["maintenance"] = quietSince["maintenance"]
    BY <1>0, <2>2, WorkedKeeps DEF Tasks
  <2>4. Rested("purge", purged, PURGE_INTERVAL)'
    BY <1>0, <2>2, <2>3 DEF LoopInv, Rested
  <2> QED
    BY <1>0, <2>1, <2>3, <2>4 DEF LoopInv, Rested
<1>14. CASE CategoriesChange
  BY <1>14 DEF CategoriesChange, LoopInv, Rested
<1> QED
  BY <1>1, <1>2, <1>3, <1>4, <1>5, <1>6, <1>7, <1>8, <1>9, <1>10, <1>11, <1>12, <1>13, <1>14
     DEF LoopNext, LoopStep

LEMMA LoopInvStutter == LoopInv /\ UNCHANGED loopVars => LoopInv'
BY DEF LoopInv, Rested, loopVars

\* Nothing that the loop does comes before its time.
LEMMA LoopInvSpaces == LoopInv => SpacingKept /\ NewsIsNew
<1> SUFFICES ASSUME LoopInv PROVE SpacingKept /\ NewsIsNew
  OBVIOUS
<1>0. /\ MAINTENANCE_INTERVAL \in Nat \ {0} /\ PURGE_INTERVAL \in Nat \ {0}
      /\ ETL_INTERVAL \in Nat \ {0} /\ Never \notin Nat
  BY MainLoopAssumption
<1>1. Maintain => quietSince["maintenance"] = MAINTENANCE_INTERVAL
  BY <1>0 DEF Maintain, Due, LoopInv, Rested
<1>2. Purge => quietSince["purge"] = PURGE_INTERVAL
  BY <1>0 DEF Purge, Due, LoopInv, Rested
<1>3. RunEtl => quietSince["etl"] = ETL_INTERVAL
  BY <1>0 DEF RunEtl, LoopInv
<1>4. NewsIsNew
  BY DEF NewsIsNew, Announce, LoopInv
<1> QED
  BY <1>1, <1>2, <1>3, <1>4 DEF SpacingKept

\* What the invariant does not say of the types.
LoopPlaces == {"down", "wait", "maintenance", "probes", "etl", "cluster", "saving",
               "announce", "purge"}
LoopTypes ==
    /\ pos \in LoopPlaces
    /\ stop \in BOOLEAN
    /\ sinceCluster \in 0..CLUSTER_INTERVAL
    /\ current \subseteq Categories /\ saved \subseteq Categories
    /\ news \subseteq Categories /\ standing \subseteq Categories
    /\ runs \in 0..MaxRuns

\* The process has not been started.
LEMMA LoopTypesInit == LoopInit => LoopTypes
<1>1. 0 \in 0..CLUSTER_INTERVAL /\ 0 \in 0..MaxRuns
  <2>1. CLUSTER_INTERVAL \in Nat /\ MaxRuns \in Nat
    BY MainLoopAssumption
  <2> QED
    BY <2>1
<1> QED
  BY <1>1 DEF LoopInit, LoopTypes, LoopPlaces

\* The loop goes from place to place, and categories come from the errors.
LEMMA LoopTypesStep == LoopTypes /\ LoopNext => LoopTypes'
<1> SUFFICES ASSUME LoopTypes, LoopNext PROVE LoopTypes'
  OBVIOUS
<1>0. CLUSTER_INTERVAL \in Nat \ {0} /\ MaxRuns \in Nat /\ Never \notin Nat
  BY MainLoopAssumption
<1>10. 0 \in 0..CLUSTER_INTERVAL
  BY <1>0
<1> USE DEF LoopTypes, LoopPlaces, Goto, rows, timers, clusters
<1>1. CASE LoopTick
  <2>1. sinceCluster' \in 0..CLUSTER_INTERVAL
    BY <1>0, <1>1 DEF LoopTick, Older
  <2>2. UNCHANGED <<pos, stop, current, saved, standing, news, runs>>
    BY <1>1 DEF LoopTick
  <2> QED
    BY <2>1, <2>2
<1>2. CASE StartLoop
  <2>1. runs' \in 0..MaxRuns
    BY <1>0, <1>2 DEF StartLoop
  <2>2. pos' = "wait" /\ stop' = FALSE /\ sinceCluster' = 0 /\ UNCHANGED <<clusters, news>>
    BY <1>2 DEF StartLoop
  <2> QED
    BY <1>10, <2>1, <2>2
<1>3. CASE StopSignal
  BY <1>3 DEF StopSignal
<1>9. CASE CategoriesChange
  <2>1. current' \subseteq Categories /\ UNCHANGED <<pos, stop, sinceCluster, saved, news, runs, standing>>
    BY <1>9 DEF CategoriesChange
  <2> QED
    BY <2>1
<1>4. CASE Killed \/ LeaveLoop \/ AskRaises
  <2>1. Down /\ current' = current
    BY <1>4 DEF Killed, LeaveLoop, AskRaises
  <2>2. /\ pos' = "down" /\ stop' = FALSE /\ sinceCluster' = 0 /\ news' = {}
        /\ runs' = runs
    BY <2>1 DEF Down
  <2>3. saved' \in {saved, {}} /\ standing' \in {standing, {}}
    BY <1>4 DEF Killed, LeaveLoop, AskRaises
  <2> QED
    BY <1>10, <2>1, <2>2, <2>3
<1>5. CASE Wake \/ Maintain \/ NoMaintenance \/ ProbesDone \/ EtlNotDue \/ RunEtl
  BY <1>5 DEF Wake, Maintain, NoMaintenance, ProbesDone, EtlNotDue, RunEtl
<1>6. CASE ClusterNotDue \/ ClusterFails \/ Cluster
  BY <1>0, <1>6 DEF ClusterNotDue, ClusterFails, Cluster
<1>7. CASE SaveCategories
  BY <1>0, <1>7 DEF SaveCategories, ToSave
<1>8. CASE Announce \/ Purge \/ PurgeNotDue
  BY <1>8 DEF Announce, Purge, PurgeNotDue
<1> QED
  BY <1>1, <1>2, <1>3, <1>4, <1>5, <1>6, <1>7, <1>8, <1>9 DEF LoopNext, LoopStep

\* A step of another component changes none of it.
LEMMA LoopTypesStutter == LoopTypes /\ UNCHANGED loopVars => LoopTypes'
BY DEF LoopTypes, loopVars

\* The ages of the rows are in the invariant.
LEMMA LoopIsTyped == LoopInv /\ LoopTypes => LoopTypeOK
<1> SUFFICES ASSUME LoopInv, LoopTypes PROVE LoopTypeOK
  OBVIOUS
<1>1. \A t \in Tasks : quietSince[t] \in 0..IntervalOf[t]
  <2>1. /\ quietSince["maintenance"] \in 0..MAINTENANCE_INTERVAL
        /\ quietSince["purge"] \in 0..PURGE_INTERVAL
        /\ quietSince["etl"] \in 0..ETL_INTERVAL
    BY DEF LoopInv, Rested
  <2>2. /\ IntervalOf["maintenance"] = MAINTENANCE_INTERVAL
        /\ IntervalOf["purge"] = PURGE_INTERVAL
        /\ IntervalOf["etl"] = ETL_INTERVAL
    BY DEF IntervalOf
  <2> QED
    BY <2>1, <2>2 DEF Tasks
<1>2. maintained \in 0..MAINTENANCE_INTERVAL \cup {Never} /\ purged \in 0..PURGE_INTERVAL \cup {Never}
  <2>1. MAINTENANCE_INTERVAL \in Nat /\ PURGE_INTERVAL \in Nat
    BY MainLoopAssumption
  <2> QED
    BY <2>1 DEF LoopInv, Rested
<1> QED
  BY <1>1, <1>2 DEF LoopInv, LoopTypes, LoopPlaces, LoopTypeOK
=============================================================================
