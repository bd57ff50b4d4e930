------------------------- MODULE KnowledgeBaseProofs -------------------------
(***************************************************************************)
(* Proofs about the learned entries of KnowledgeBase, for every set of     *)
(* workers, texts and commands, every relation of nearness and every       *)
(* threshold of removal.  Nothing is assumed of which document a lookup    *)
(* chooses or which documents the purger dooms; the counters are exact if  *)
(* no two threads learn from the same text and a text is near itself.      *)
(***************************************************************************)
EXTENDS KnowledgeBase, TLAPS, FiniteSetTheorems, WellFoundedInduction

\* What a worker's record says: what is read of an entry, or is about to be
\* written to it, is no entry that should be removed.
Sound(p) ==
    /\ p.cmd \in Commands \cup {NoCommand}
    /\ p.meta \in Entries
    /\ ~ Removable(p.meta)
    /\ p.at \in {"execute", "learn", "upsert"} => p.text \in Texts
    /\ p.at \in {"learn", "upsert"} => p.cmd \in Commands /\ p.ok = TRUE
    /\ p.at \in {"outcome", "update"} => p.doc \in Texts
    /\ p.at = "update" => p.meta.cmd # NoCommand

EntriesSound ==
    /\ learned \in [Texts -> Entries]
    /\ \A t \in Texts : ~ Removable(learned[t])

WorkSound ==
    /\ work = [w \in Workers |-> work[w]]
    /\ \A w \in Workers : Sound(work[w])

\* A removable entry can be stored by two pipelines that overwrite each other's
\* counters, so what they hold must be as sound as what is stored.
IInv == EntriesSound /\ WorkSound

-----------------------------------------------------------------------------
(* Entries *)

LEMMA MissingIsSound == Missing \in Entries /\ ~ Removable(Missing)
  BY KnowledgeAssumption DEF Missing, Entries, Removable

LEMMA EntryFields ==
    ASSUME NEW e \in Entries
    PROVE  /\ e = [cmd |-> e.cmd, succ |-> e.succ, fail |-> e.fail]
           /\ e.cmd \in Commands \cup {NoCommand}
           /\ e.succ \in Nat
           /\ e.fail \in Nat
           /\ e.cmd # NoCommand => e.succ \in Nat \ {0}
  BY DEF Entries, Missing

\* One success more lowers the rate of failures.
LEMMA SuccessLowersRate ==
    ASSUME NEW s \in Nat, NEW f \in Nat, NEW r \in Nat,
           ~ (f * 100 > r * (s + f))
    PROVE  ~ (f * 100 > r * ((s + 1) + f))
<1>1. r * ((s + 1) + f) = r * (s + f) + r
  OBVIOUS
<1>2. r * (s + f) \in Nat
  OBVIOUS
<1> QED
  BY <1>1, <1>2

\* learn_from_feedback stores no entry that should be removed.
LEMMA LessonIsSound ==
    ASSUME NEW e \in Entries, ~ Removable(e), NEW c \in Commands
    PROVE  /\ Lesson(e, c) \in Entries
           /\ ~ Removable(Lesson(e, c))
           /\ Lesson(e, c).cmd = c
<1>0. c # NoCommand /\ LEARNED_ENTRY_MAX_FAILURES \in Nat \ {0} /\ LEARNED_ENTRY_FAILURE_RATE \in Nat
  BY KnowledgeAssumption
<1>1. CASE e.cmd = c
  <2>1. Lesson(e, c) = [cmd |-> c, succ |-> e.succ + 1, fail |-> e.fail]
    BY <1>1, EntryFields DEF Lesson
  <2>2. ~ Removable([cmd |-> c, succ |-> e.succ + 1, fail |-> e.fail])
    BY <1>0, EntryFields, SuccessLowersRate DEF Removable
  <2> QED
    BY <2>1, <2>2, EntryFields DEF Entries
<1>2. CASE e.cmd # c
  <2>1. Lesson(e, c) = [cmd |-> c, succ |-> 1, fail |-> 0]
    BY <1>2 DEF Lesson
  <2> QED
    BY <2>1, <1>0 DEF Entries, Removable
<1> QED
  BY <1>1, <1>2

\* record_learned_outcome stores no entry that should be removed, and none
\* where there was none.
LEMMA AfterIsSound ==
    ASSUME NEW e \in Entries, e.cmd # NoCommand, NEW ok, NEW d
    PROVE  /\ After(d, Counted(e, ok)) \in Entries
           /\ ~ Removable(After(d, Counted(e, ok)))
           /\ ~ IsLearned(d) => After(d, Counted(e, ok)) = Missing
<1>1. Counted(e, ok) \in Entries
  <2>1. CASE ok
    BY <2>1, EntryFields DEF Counted, Entries
  <2>2. CASE ~ ok
    BY <2>2, EntryFields DEF Counted, Entries
  <2> QED
    BY <2>1, <2>2
<1> QED
  BY <1>1, MissingIsSound DEF After

-----------------------------------------------------------------------------
(* Steps *)

LEMMA IdleIsSound == Sound(Idle)
  BY MissingIsSound DEF Idle, Sound

LEMMA DoneIsSound ==
    ASSUME NEW p, NEW ok
    PROVE  Sound(Done(p, ok))
  BY MissingIsSound DEF Done, Moved, Sound

LEMMA InitIInv == Init => IInv
  BY MissingIsSound, IdleIsSound DEF Init, IInv, EntriesSound, WorkSound

\* A step that stores sound entries and changes one worker's record soundly.
LEMMA WorkerKeeps ==
    ASSUME IInv, EntriesSound', NEW w \in Workers, NEW p, Sound(p),
           work' = [work EXCEPT ![w] = p]
    PROVE  IInv'
  BY DEF IInv, WorkSound

LEMMA EntriesStay ==
    ASSUME IInv, UNCHANGED learned
    PROVE  EntriesSound'
  BY DEF IInv, EntriesSound

LEMMA LookupKeeps ==
    ASSUME IInv, NEW w \in Workers, NEW t \in Texts, Lookup(w, t)
    PROVE  IInv'
<1> DEFINE P(a) == [at |-> "execute", text |-> t, doc |-> a.doc, cmd |-> a.cmd,
                    meta |-> Missing, ok |-> FALSE]
<1>1. PICK a \in Answers(t) : work' = [work EXCEPT ![w] = P(a)]
  BY DEF Lookup
<1>2. a.cmd \in Commands \cup {NoCommand}
  <2>1. CASE Candidates(t) # {}
    BY <2>1, EntryFields DEF Answers, IInv, EntriesSound
  <2>2. CASE Candidates(t) = {}
    BY <2>2 DEF Answers
  <2> QED
    BY <2>1, <2>2
<1>3. Sound(P(a))
  BY <1>2, MissingIsSound DEF Sound
<1>4. EntriesSound'
  BY EntriesStay DEF Lookup
<1> HIDE DEF P
<1> QED
  BY <1>1, <1>3, <1>4, WorkerKeeps

LEMMA ExecuteKeeps ==
    ASSUME IInv, NEW w \in Workers, NEW ok \in BOOLEAN, NEW fed \in BOOLEAN,
           Execute(w, ok, fed)
    PROVE  IInv'
<1> DEFINE p == work[w]
           Next1 == IF Teaches(p, ok, fed) THEN Moved(p, "learn", p.cmd, Missing, ok)
                    ELSE IF FeedsBack(p, ok, fed) THEN Moved(p, "outcome", NoCommand, Missing, ok)
                    ELSE Done(p, ok)
<1>1. work' = [work EXCEPT ![w] = Next1]
  BY DEF Execute
<1>2. Sound(p)
  BY DEF IInv, WorkSound
<1>3. Sound(Next1)
  <2>1. CASE Teaches(p, ok, fed)
    <3>1. p.at = "execute"
      BY DEF Execute
    <3> QED
      BY <2>1, <3>1, <1>2, MissingIsSound DEF Teaches, Moved, Sound
  <2>2. CASE ~ Teaches(p, ok, fed) /\ FeedsBack(p, ok, fed)
    BY <2>2, <1>2, MissingIsSound DEF FeedsBack, Moved, Sound
  <2>3. CASE ~ Teaches(p, ok, fed) /\ ~ FeedsBack(p, ok, fed)
    BY <2>3, DoneIsSound
  <2> QED
    BY <2>1, <2>2, <2>3
<1>4. EntriesSound'
  BY EntriesStay DEF Execute
<1> HIDE DEF Next1
<1> QED
  BY <1>1, <1>3, <1>4, WorkerKeeps

LEMMA LearnReadKeeps ==
    ASSUME IInv, NEW w \in Workers, LearnRead(w)
    PROVE  IInv'
<1> DEFINE p == work[w]
<1>1. p.at = "learn"
  BY DEF LearnRead
<1>2. Sound(p)
  BY DEF IInv, WorkSound
<1>3. PICK meta \in {learned[p.text], Missing} :
         work' = [work EXCEPT ![w] = Moved(p, "upsert", p.cmd, meta, p.ok)]
  BY DEF LearnRead
<1>4. p.text \in Texts
  BY <1>1, <1>2 DEF Sound
<1>5. meta \in Entries /\ ~ Removable(meta)
  BY <1>3, <1>4, MissingIsSound DEF IInv, EntriesSound
<1>6. Sound(Moved(p, "upsert", p.cmd, meta, p.ok))
  BY <1>1, <1>2, <1>5 DEF Moved, Sound
<1>7. EntriesSound'
  BY EntriesStay DEF LearnRead
<1> QED
  BY <1>3, <1>6, <1>7, WorkerKeeps

LEMMA LearnWriteKeeps ==
    ASSUME IInv, NEW w \in Workers, LearnWrite(w)
    PROVE  IInv'
<1> DEFINE p == work[w]
<1>1. /\ p.at = "upsert"
      /\ learned' = [learned EXCEPT ![p.text] = Lesson(p.meta, p.cmd)]
      /\ work' = [work EXCEPT ![w] = Done(p, p.ok)]
  BY DEF LearnWrite
<1>2. Sound(p)
  BY DEF IInv, WorkSound
<1>3. Lesson(p.meta, p.cmd) \in Entries /\ ~ Removable(Lesson(p.meta, p.cmd))
  BY <1>1, <1>2, LessonIsSound DEF Sound
<1>4. EntriesSound'
  BY <1>1, <1>3 DEF IInv, EntriesSound
<1> QED
  BY <1>1, <1>4, DoneIsSound, WorkerKeeps

LEMMA OutcomeReadKeeps ==
    ASSUME IInv, NEW w \in Workers, OutcomeRead(w)
    PROVE  IInv'
<1> DEFINE p == work[w]
<1>1. p.at = "outcome"
  BY DEF OutcomeRead
<1>2. Sound(p)
  BY DEF IInv, WorkSound
<1>3. p.doc \in Texts
  BY <1>1, <1>2 DEF Sound
<1>4. EntriesSound'
  BY EntriesStay DEF OutcomeRead
<1>5. CASE IsLearned(p.doc)
  <2>1. work' = [work EXCEPT ![w] = Moved(p, "update", NoCommand, learned[p.doc], p.ok)]
    BY <1>5 DEF OutcomeRead
  <2>2. /\ learned[p.doc] \in Entries
        /\ ~ Removable(learned[p.doc])
        /\ learned[p.doc].cmd # NoCommand
    BY <1>3, <1>5 DEF IInv, EntriesSound, IsLearned
  <2>3. Sound(Moved(p, "update", NoCommand, learned[p.doc], p.ok))
    BY <1>3, <2>2 DEF Moved, Sound
  <2> QED
    BY <2>1, <2>3, <1>4, WorkerKeeps
<1>6. CASE ~ IsLearned(p.doc)
  <2>1. work' = [work EXCEPT ![w] = Done(p, p.ok)]
    BY <1>6 DEF OutcomeRead
  <2> QED
    BY <2>1, <1>4, DoneIsSound, WorkerKeeps
<1> QED
  BY <1>5, <1>6

LEMMA OutcomeWriteKeeps ==
    ASSUME IInv, NEW w \in Workers, OutcomeWrite(w)
    PROVE  IInv'
<1> DEFINE p == work[w]
           new == After(p.doc, Counted(p.meta, p.ok))
<1>1. /\ p.at = "update"
      /\ learned' = [learned EXCEPT ![p.doc] = new]
      /\ work' = [work EXCEPT ![w] = Done(p, p.ok)]
  BY DEF OutcomeWrite
<1>2. Sound(p)
  BY DEF IInv, WorkSound
<1>3. new \in Entries /\ ~ Removable(new)
  <2>1. p.meta \in Entries /\ p.meta.cmd # NoCommand
    BY <1>1, <1>2 DEF Sound
  <2> QED
    BY <2>1, AfterIsSound
<1> HIDE DEF new
<1>4. EntriesSound'
  BY <1>1, <1>3 DEF IInv, EntriesSound
<1> QED
  BY <1>1, <1>4, DoneIsSound, WorkerKeeps

\* The steps of a pipeline that touch no entry.
LEMMA EndKeeps ==
    ASSUME IInv, NEW w \in Workers,
           PipelineRaises(w) \/ CollectionFails(w) \/ LogEvent(w)
    PROVE  IInv'
<1>1. EntriesSound'
  BY EntriesStay DEF PipelineRaises, CollectionFails, LogEvent
<1>2. CASE PipelineRaises(w) \/ LogEvent(w)
  <2>1. work' = [work EXCEPT ![w] = Idle]
    BY <1>2 DEF PipelineRaises, LogEvent
  <2> QED
    BY <2>1, <1>1, IdleIsSound, WorkerKeeps
<1>3. CASE CollectionFails(w)
  <2>1. work' = [work EXCEPT ![w] = Done(work[w], work[w].ok)]
    BY <1>3 DEF CollectionFails
  <2> QED
    BY <2>1, <1>1, DoneIsSound, WorkerKeeps
<1> QED
  BY <1>2, <1>3

LEMMA WorkStays ==
    ASSUME IInv, EntriesSound', UNCHANGED work
    PROVE  IInv'
  BY DEF IInv, WorkSound

LEMMA PurgeDeleteKeeps ==
    ASSUME IInv, NEW d \in Docs, PurgeDelete(d)
    PROVE  IInv'
<1>1. CASE UNCHANGED learned
  BY <1>1, EntriesStay, WorkStays DEF PurgeDelete
<1>2. CASE learned' = [t \in Texts |-> IF t = d THEN Missing ELSE learned[t]]
  <2>1. EntriesSound'
    BY <1>2, MissingIsSound DEF IInv, EntriesSound
  <2> QED
    BY <2>1, WorkStays DEF PurgeDelete
<1> QED
  BY <1>1, <1>2 DEF PurgeDelete

\* Three steps write learned entries.
LEMMA Writers ==
    ASSUME [Next]_vars
    PROVE  \/ UNCHANGED learned
           \/ \E w \in Workers : LearnWrite(w) \/ OutcomeWrite(w)
           \/ \E d \in Docs : PurgeDelete(d)
<1>1. ASSUME NEW w \in Workers, WorkerStep(w), ~ LearnWrite(w), ~ OutcomeWrite(w)
      PROVE  UNCHANGED learned
  BY <1>1 DEF WorkerStep, Lookup, Execute, PipelineRaises, LearnRead, OutcomeRead,
              CollectionFails, LogEvent
<1>2. CASE PurgeStep
  BY <1>2 DEF PurgeStep, PurgeStart, PurgeQuery, PurgeJudge, PurgeEnd
<1>3. CASE Sync \/ (\E t \in Texts, d \in Docs : RowExpires(t, d)) \/ (\E c \in Commands : Breaks(c))
  BY <1>3 DEF Sync, RowExpires, Breaks
<1>4. CASE UNCHANGED vars
  BY <1>4 DEF vars
<1> QED
  BY <1>1, <1>2, <1>3, <1>4 DEF Next

LEMMA NextKeeps ==
    ASSUME IInv, [Next]_vars
    PROVE  IInv'
<1>1. ASSUME NEW w \in Workers, WorkerStep(w)
      PROVE  IInv'
  BY <1>1, LookupKeeps, ExecuteKeeps, LearnReadKeeps, LearnWriteKeeps,
     OutcomeReadKeeps, OutcomeWriteKeeps, EndKeeps DEF WorkerStep
<1>2. CASE PurgeStep
  <2>1. CASE \E d \in Docs : PurgeDelete(d)
    BY <2>1, PurgeDeleteKeeps
  <2>2. CASE PurgeStart \/ (\E t \in Texts : PurgeQuery(t)) \/ PurgeJudge \/ PurgeEnd
    BY <2>2, EntriesStay, WorkStays DEF PurgeStart, PurgeQuery, PurgeJudge, PurgeEnd
  <2> QED
    BY <1>2, <2>1, <2>2 DEF PurgeStep
<1>3. CASE Sync \/ (\E t \in Texts, d \in Docs : RowExpires(t, d)) \/ (\E c \in Commands : Breaks(c))
  BY <1>3, EntriesStay, WorkStays DEF Sync, RowExpires, Breaks
<1>4. CASE UNCHANGED vars
  BY <1>4, EntriesStay, WorkStays DEF vars
<1> QED
  BY <1>1, <1>2, <1>3, <1>4 DEF Next

-----------------------------------------------------------------------------
\* IInv holds in every state of the knowledge base.
THEOREM InductiveInvariant == Spec => []IInv
  BY InitIInv, NextKeeps, PTL DEF Spec

\* Whatever two pipelines read and write of an entry at once, none that
\* record_learned_outcome should have removed is stored.
THEOREM NoDeadWeightStored == Spec => []NoDeadWeight
<1>1. IInv => NoDeadWeight
  BY DEF IInv, EntriesSound, NoDeadWeight
<1> QED
  BY <1>1, InductiveInvariant, PTL

\* An entry appears only when learn_from_feedback stores a command that just
\* worked: neither record_learned_outcome nor the purger brings one back.
THEOREM NothingComesBack == Spec => RemovedStaysRemoved
<1> DEFINE Relearned(t) ==
        \E w \in Workers : /\ work[w].at = "upsert" /\ work[w].text = t /\ work[w].ok
                           /\ learned'[t].cmd = work[w].cmd
           Step == \A t \in Texts : ~ IsLearned(t) /\ IsLearned(t)' => Relearned(t)
<1>1. ASSUME IInv, [Next]_vars PROVE [Step]_vars
  <2> SUFFICES ASSUME NEW t \in Texts, ~ IsLearned(t), IsLearned(t)'
               PROVE  Relearned(t)
    OBVIOUS
  <2>1. learned' # learned
    BY DEF IsLearned
  <2>2. ASSUME NEW w \in Workers, LearnWrite(w)
        PROVE  Relearned(t)
    <3> DEFINE p == work[w]
    <3>1. /\ p.at = "upsert"
          /\ learned' = [learned EXCEPT ![p.text] = Lesson(p.meta, p.cmd)]
      BY <2>2 DEF LearnWrite
    <3>2. Sound(p)
      BY <1>1 DEF IInv, WorkSound
    <3>3. p.text = t
      BY <3>1, <1>1 DEF IInv, EntriesSound, IsLearned
    <3>4. Lesson(p.meta, p.cmd).cmd = p.cmd /\ p.ok
      BY <3>1, <3>2, LessonIsSound DEF Sound
    <3>5. learned'[t].cmd = p.cmd
      BY <3>1, <3>3, <3>4, <1>1 DEF IInv, EntriesSound
    <3> QED
      BY <3>1, <3>3, <3>4, <3>5
  <2>3. ASSUME NEW w \in Workers, OutcomeWrite(w)
        PROVE  FALSE
    <3> DEFINE p == work[w]
               new == After(p.doc, Counted(p.meta, p.ok))
    <3>1. p.at = "update" /\ learned' = [learned EXCEPT ![p.doc] = new]
      BY <2>3 DEF OutcomeWrite
    <3>2. p.doc = t
      BY <3>1, <1>1 DEF IInv, EntriesSound, IsLearned
    <3>3. new = Missing
      BY <3>2 DEF After
    <3> QED
      BY <3>1, <3>2, <3>3, <1>1 DEF IInv, EntriesSound, IsLearned, Missing
  <2>4. ASSUME NEW d \in Docs, PurgeDelete(d)
        PROVE  FALSE
    <3>1. learned' = [x \in Texts |-> IF x = d THEN Missing ELSE learned[x]]
      BY <2>1, <2>4 DEF PurgeDelete
    <3> QED
      BY <3>1 DEF IsLearned, Missing
  <2> QED
    BY <1>1, <2>1, <2>2, <2>3, <2>4, Writers
<1> QED
  BY <1>1, InductiveInvariant, PTL DEF Spec, RemovedStaysRemoved

-----------------------------------------------------------------------------
(* The vote                                                                *)

\* A nonempty set of numbers has a least one.
LEMMA LeastNumber ==
    ASSUME NEW T, T \subseteq Nat, T # {}
    PROVE  \E x \in T : \A y \in T : x <= y
<1> DEFINE R == OpToRel(<, Nat)
<1>1. PICK x \in T : \A y \in T : ~ (<<y, x>> \in R)
  <2>1. IsWellFoundedOn(R, Nat)
    BY NatLessThanWellFounded
  <2> HIDE DEF R
  <2> QED
    BY <2>1, WFMin
<1>2. \A y \in T : <<y, x>> \in Nat \X Nat
  BY <1>1
<1>3. \A y \in T : ~ (y < x)
  BY <1>1, <1>2 DEF OpToRel
<1>4. \A y \in T : x <= y
  <2> SUFFICES ASSUME NEW y \in T PROVE x <= y
    OBVIOUS
  <2>1. x \in Nat /\ y \in Nat /\ ~ (y < x)
    BY <1>1, <1>3
  <2> QED
    BY <2>1
<1> QED
  BY <1>1, <1>4

\* The ranks of the candidates, and how many votes one can have.
LEMMA RanksAreNumbers ==
    ASSUME NEW t \in Texts
    PROVE  /\ Candidates(t) \subseteq DOMAIN Near[t]
           /\ Candidates(t) \subseteq Nat
           /\ \A i \in Candidates(t) : Near[t][i] \in Present
           /\ IsFiniteSet(Candidates(t))
           /\ Cardinality(Candidates(t)) \in Nat
<1>1. Near[t] \in Seq(Docs) /\ Len(Near[t]) \in Nat /\ DOMAIN Near[t] = 1..Len(Near[t])
  BY KnowledgeAssumption DEF Docs
<1>2. /\ Candidates(t) \subseteq DOMAIN Near[t]
      /\ \A i \in Candidates(t) : Near[t][i] \in Present
  BY DEF Candidates
<1>3. IsFiniteSet(1..Len(Near[t]))
  <2>1. 1 \in Int /\ Len(Near[t]) \in Int
    BY <1>1
  <2> QED
    BY <2>1, FS_Interval
<1>4. IsFiniteSet(Candidates(t))
  BY <1>1, <1>2, <1>3, FS_Subset
<1> QED
  BY <1>1, <1>2, <1>4, FS_CardinalityType

LEMMA VotesAreBounded ==
    ASSUME NEW t \in Texts, NEW i
    PROVE  Votes(t, i) \in Nat /\ Votes(t, i) <= Cardinality(Candidates(t))
<1> DEFINE S == {j \in Candidates(t) : ActionOf(Near[t][j]) = ActionOf(Near[t][i])}
<1>1. S \in SUBSET Candidates(t)
  OBVIOUS
<1>2. IsFiniteSet(S) /\ Cardinality(S) <= Cardinality(Candidates(t))
  BY <1>1, RanksAreNumbers, FS_Subset
<1>3. Cardinality(S) \in Nat
  BY <1>2, FS_CardinalityType
<1> QED
  BY <1>2, <1>3 DEF Votes

\* The vote has a winner, so a hit names a document.
LEMMA ChosenIsDocument ==
    ASSUME NEW t \in Texts, Candidates(t) # {}
    PROVE  Chosen(t) \in Docs
<1> DEFINE C == Candidates(t)
           n == Cardinality(C)
           lost == {n - Votes(t, i) : i \in C}
<1>1. n \in Nat /\ C \subseteq Nat
  BY RanksAreNumbers
<1>2. \A i \in C : Votes(t, i) \in Nat /\ Votes(t, i) <= n
  BY VotesAreBounded
<1>3. lost \subseteq Nat /\ lost # {}
  BY <1>1, <1>2
<1>4. PICK m \in lost : \A k \in lost : m <= k
  BY <1>3, LeastNumber
<1> DEFINE first == {i \in C : n - Votes(t, i) = m}
<1>5. PICK i \in first : \A j \in first : i <= j
  <2>1. first \subseteq Nat /\ first # {}
    BY <1>1, <1>4
  <2> HIDE DEF first
  <2> QED
    BY <2>1, LeastNumber
<1>6. \A j \in C : Votes(t, j) < Votes(t, i) \/ (Votes(t, j) = Votes(t, i) /\ i <= j)
  <2> SUFFICES ASSUME NEW j \in C
               PROVE  Votes(t, j) < Votes(t, i) \/ (Votes(t, j) = Votes(t, i) /\ i <= j)
    OBVIOUS
  <2>1. n - Votes(t, i) = m /\ m <= n - Votes(t, j)
    BY <1>4, <1>5
  <2>2. n - Votes(t, j) = m => i <= j
    BY <1>5
  <2> QED
    BY <1>1, <1>2, <1>5, <2>1, <2>2
<1>7. i \in Candidates(t) /\ Wins(t, i)
  BY <1>5, <1>6 DEF Wins
<1>8. (CHOOSE k \in Candidates(t) : Wins(t, k)) \in Candidates(t)
  BY <1>7
<1>9. Near[t] \in Seq(Docs)
  BY KnowledgeAssumption DEF Docs
<1> QED
  BY <1>8, <1>9, RanksAreNumbers DEF Chosen

\* Of the ranks with a document that is there the least is a candidate.
LEMMA PresentIsCandidate ==
    ASSUME NEW t \in Texts, NEW i \in DOMAIN Near[t], Near[t][i] \in Present
    PROVE  Candidates(t) # {}
<1> DEFINE here == {k \in DOMAIN Near[t] : Near[t][k] \in Present}
<1>1. here \subseteq Nat /\ here # {}
  <2>1. Near[t] \in Seq(Docs) /\ DOMAIN Near[t] = 1..Len(Near[t])
    BY KnowledgeAssumption DEF Docs
  <2> QED
    BY <2>1
<1> HIDE DEF here
<1>2. PICK k \in here : \A j \in here : k <= j
  BY <1>1, LeastNumber
<1>3. {j \in here : j < k} = {}
  <2> SUFFICES ASSUME NEW j \in here PROVE ~ (j < k)
    OBVIOUS
  <2>1. j \in Nat /\ k \in Nat /\ k <= j
    BY <1>1, <1>2
  <2> QED
    BY <2>1
<1>4. Cardinality({j \in here : j < k}) < N_RESULTS
  BY <1>3, FS_EmptySet DEF N_RESULTS
<1> QED
  BY <1>2, <1>4 DEF here, Candidates

-----------------------------------------------------------------------------
(* Counters                                                                *)

\* An error of the log is met by the thread that watches it, an alert by the main
\* one: no two threads learn the same entry.
OwnTexts == \A v, w \in Workers : v # w => Own[v] \cap Own[w] = {}

\* A text is at distance 0 of the entry learned from it.
NearItself == \A t \in Texts : \E i \in DOMAIN Near[t] : Near[t][i] = t

\* A pipeline that no other shares its entry with: as long as it may teach one there
\* is none, and what it has read of one is what is stored.
Exact(w) ==
    /\ Busy(w) => work[w].text \in Own[w]
    /\ work[w].at \in {"learn", "upsert"} => work[w].doc = NoDoc
    /\ work[w].at \in {"execute", "learn", "upsert"} /\ work[w].doc = NoDoc
       => ~ IsLearned(work[w].text)
    /\ work[w].at = "upsert" => work[w].meta = Missing
    /\ work[w].at = "update" /\ work[w].doc \notin shared /\ IsLearned(work[w].doc)
       => work[w].meta = learned[work[w].doc]

Alone == \A t \in Texts \ shared : \A v, w \in Workers :
    Busy(v) /\ Busy(w) /\ Subject(work[v]) = t /\ Subject(work[w]) = t => v = w

CInv ==
    /\ truth = [t \in Texts |-> truth[t]]
    /\ \A w \in Workers : Exact(w)
    /\ Alone
    /\ CountersExact

LEMMA NoCommandIsMissing ==
    ASSUME NEW e \in Entries, e.cmd = NoCommand
    PROVE  e = Missing
  BY KnowledgeAssumption DEF Entries, Missing

LEMMA InitCInv == Init => CInv
  BY DEF Init, CInv, Exact, Alone, CountersExact, Busy, Idle, IsLearned, Missing

\* A pipeline goes on, or ends, and no entry changes.
LEMMA MoveKeeps ==
    ASSUME IInv, CInv, NEW w \in Workers, NEW q, work' = [work EXCEPT ![w] = q],
           UNCHANGED <<learned, truth, shared>>,
           q.at = "idle" \/ (Busy(w) /\ Subject(q) = Subject(work[w])),
           Exact(w)'
    PROVE  CInv'
<1>1. work'[w] = q /\ \A v \in Workers : v # w => work'[v] = work[v]
  BY DEF IInv, WorkSound
<1>2. \A v \in Workers : Exact(v)'
  BY <1>1 DEF CInv, Exact, Busy, IsLearned
<1>3. \A v \in Workers : Busy(v)' => Busy(v) /\ Subject(work'[v]) = Subject(work[v])
  BY <1>1 DEF Busy
<1>4. Alone'
  BY <1>3 DEF CInv, Alone
<1>5. CountersExact'
  BY DEF CInv, CountersExact, IsLearned
<1> QED
  BY <1>2, <1>4, <1>5 DEF CInv

\* A lookup counts as alone only when no other pipeline is at work on the entry.
LEMMA LookupCounts ==
    ASSUME NearItself, IInv, CInv, NEW w \in Workers, NEW t \in Texts, Lookup(w, t)
    PROVE  CInv'
<1> DEFINE P(a) == [at |-> "execute", text |-> t, doc |-> a.doc, cmd |-> a.cmd,
                    meta |-> Missing, ok |-> FALSE]
           Others(s) == \E v \in Workers \ {w} : Busy(v) /\ Subject(work[v]) = s
<1>1. PICK a \in Answers(t) :
         /\ work' = [work EXCEPT ![w] = P(a)]
         /\ shared' = IF Others(Subject(P(a))) /\ Subject(P(a)) \in Texts
                      THEN shared \cup {Subject(P(a))} ELSE shared
         /\ truth' = IF Others(Subject(P(a))) /\ Subject(P(a)) \in Texts
                     THEN [truth EXCEPT ![Subject(P(a))] = Zero] ELSE truth
  BY DEF Lookup
<1>2. a.doc = NoDoc => ~ IsLearned(t)
  <2> SUFFICES ASSUME a.doc = NoDoc, IsLearned(t) PROVE FALSE
    OBVIOUS
  <2>1. PICK i \in DOMAIN Near[t] : Near[t][i] = t
    BY DEF NearItself
  <2>2. Candidates(t) # {}
    BY <2>1, PresentIsCandidate DEF Present
  <2>3. a.doc = Chosen(t)
    BY <2>2 DEF Answers
  <2>4. NoDoc \in Docs
    BY <2>2, <2>3, ChosenIsDocument
  <2> QED
    BY <2>4, KnowledgeAssumption DEF Docs
<1> DEFINE p == P(a)
           s == Subject(p)
<1>3. p.at = "execute" /\ p.text = t /\ p.doc = a.doc
  OBVIOUS
<1>4. /\ work' = [work EXCEPT ![w] = p] /\ learned' = learned /\ ~ Busy(w) /\ t \in Own[w]
      /\ shared' = IF Others(s) /\ s \in Texts THEN shared \cup {s} ELSE shared
      /\ truth' = IF Others(s) /\ s \in Texts THEN [truth EXCEPT ![s] = Zero] ELSE truth
  BY <1>1 DEF Lookup
<1> HIDE DEF p, P
<1>5. work'[w] = p /\ \A v \in Workers : v # w => work'[v] = work[v]
  BY <1>4 DEF IInv, WorkSound
<1>6. \A v \in Workers : Exact(v)'
  <2>1. Exact(w)'
    BY <1>2, <1>3, <1>4, <1>5 DEF Exact, IsLearned
  <2>2. ASSUME NEW v \in Workers, v # w PROVE Exact(v)'
    BY <1>4, <1>5, <2>2 DEF CInv, Exact, Busy, IsLearned
  <2> QED
    BY <2>1, <2>2
<1>7. Alone'
  <2> SUFFICES ASSUME NEW x \in Texts \ shared', NEW u \in Workers, NEW v \in Workers,
                      Busy(u)', Busy(v)', Subject(work'[u]) = x, Subject(work'[v]) = x, u # v
               PROVE  FALSE
    BY DEF Alone
  <2>1. x \in Texts \ shared
    BY <1>4
  <2>2. CASE u # w /\ v # w
    BY <1>5, <2>1, <2>2 DEF CInv, Alone, Busy
  <2>3. ASSUME NEW y \in {u, v}, y # w, w \in {u, v} PROVE FALSE
    <3>1. s = x
      BY <1>5, <2>3
    <3>2. Busy(y) /\ Subject(work[y]) = x
      BY <1>5, <2>3 DEF Busy
    <3>3. Others(s)
      BY <3>1, <3>2, <2>3
    <3> QED
      BY <1>4, <3>1, <3>3
  <2> QED
    BY <2>2, <2>3
<1>8. truth' = [x \in Texts |-> truth'[x]] /\ \A x \in Texts \ shared' : truth'[x] = truth[x]
  BY <1>4 DEF CInv
<1>9. CountersExact'
  BY <1>4, <1>8 DEF CInv, CountersExact, IsLearned
<1> QED
  BY <1>6, <1>7, <1>8, <1>9 DEF CInv


LEMMA MovedIs ==
    ASSUME NEW p, NEW at, NEW cmd, NEW meta, NEW ok
    PROVE  /\ Moved(p, at, cmd, meta, ok).at = at
           /\ Moved(p, at, cmd, meta, ok).text = p.text
           /\ Moved(p, at, cmd, meta, ok).doc = p.doc
           /\ Moved(p, at, cmd, meta, ok).meta = meta
  BY DEF Moved

\* A pipeline that goes on is about to teach only an entry that is not there, and
\* what it has read of one is what is stored.
LEMMA GoingOnKeeps ==
    ASSUME IInv, CInv, NEW w \in Workers, Busy(w),
           NEW at, NEW cmd, NEW meta, NEW ok,
           work' = [work EXCEPT ![w] = Moved(work[w], at, cmd, meta, ok)],
           UNCHANGED <<learned, truth, shared>>,
           at \in {"learn", "upsert"} =>
               work[w].doc = NoDoc /\ work[w].at \in {"execute", "learn"},
           at # "execute",
           at = "upsert" => meta = Missing,
           at = "update" => meta = learned[work[w].doc]
    PROVE  CInv'
<1> DEFINE q == Moved(work[w], at, cmd, meta, ok)
<1>1. q.at = at /\ q.text = work[w].text /\ q.doc = work[w].doc /\ q.meta = meta
  BY MovedIs
<1> HIDE DEF q
<1>2. work'[w] = q
  BY DEF IInv, WorkSound, q
<1>3. Exact(w)
  BY DEF CInv
<1>4. Exact(w)'
  BY <1>1, <1>2, <1>3 DEF Exact, Busy, IsLearned
<1>5. Subject(q) = Subject(work[w])
  BY <1>1 DEF Subject
<1> QED
  BY <1>4, <1>5, MoveKeeps DEF q

\* The steps of a pipeline between its lookup and its write.
LEMMA StepCounts ==
    ASSUME IInv, CInv, NEW w \in Workers,
           \/ \E ok, fed \in BOOLEAN : Execute(w, ok, fed)
           \/ PipelineRaises(w) \/ LearnRead(w) \/ OutcomeRead(w)
           \/ CollectionFails(w) \/ LogEvent(w)
    PROVE  CInv'
<1> DEFINE p == work[w]
<1>0. /\ Sound(p) /\ Exact(w) /\ work = [v \in Workers |-> work[v]]
      /\ NoDoc \notin Texts
  BY KnowledgeAssumption DEF IInv, CInv, WorkSound
<1>1. ASSUME NEW ok, Busy(w), work' = [work EXCEPT ![w] = Done(p, ok)],
             UNCHANGED <<learned, truth, shared>>
      PROVE  CInv'
  <2>1. work' = [work EXCEPT ![w] = Moved(work[w], "log", NoCommand, Missing, ok)]
    BY <1>1 DEF Done
  <2>2. "log" \notin {"learn", "upsert"} /\ "log" # "execute" /\ "log" # "upsert" /\ "log" # "update"
    OBVIOUS
  <2> QED
    BY <1>1, <2>1, <2>2, GoingOnKeeps, Zenon
<1>2. ASSUME NEW ok \in BOOLEAN, NEW fed \in BOOLEAN, Execute(w, ok, fed)
      PROVE  CInv'
  <2>1. p.at = "execute" /\ Busy(w) /\ UNCHANGED <<learned, truth, shared>>
    BY <1>2 DEF Execute, Busy
  <2>2. CASE Teaches(p, ok, fed)
    <3>1. work' = [work EXCEPT ![w] = Moved(p, "learn", p.cmd, Missing, ok)]
      BY <1>2, <2>2 DEF Execute
    <3> QED
      BY <2>1, <2>2, <3>1, GoingOnKeeps DEF Teaches
  <2>3. CASE ~ Teaches(p, ok, fed) /\ FeedsBack(p, ok, fed)
    <3>1. work' = [work EXCEPT ![w] = Moved(p, "outcome", NoCommand, Missing, ok)]
      BY <1>2, <2>3 DEF Execute
    <3>2. "outcome" \notin {"learn", "upsert"} /\ "outcome" # "execute" /\ "outcome" # "upsert"
          /\ "outcome" # "update"
      OBVIOUS
    <3> QED
      BY <2>1, <3>1, <3>2, GoingOnKeeps, Zenon
  <2>4. CASE ~ Teaches(p, ok, fed) /\ ~ FeedsBack(p, ok, fed)
    <3>1. work' = [work EXCEPT ![w] = Done(p, ok)]
      BY <1>2, <2>4 DEF Execute
    <3> QED
      BY <1>1, <2>1, <3>1
  <2> QED
    BY <2>2, <2>3, <2>4
<1>3. CASE PipelineRaises(w) \/ LogEvent(w)
  <2>1. work' = [work EXCEPT ![w] = Idle] /\ UNCHANGED <<learned, truth, shared>>
    BY <1>3 DEF PipelineRaises, LogEvent
  <2>2. work'[w] = Idle
    BY <1>0, <2>1
  <2>3. Idle.at = "idle"
    BY DEF Idle
  <2>4. Exact(w)'
    BY <2>2, <2>3 DEF Exact, Busy
  <2> QED
    BY <2>1, <2>3, <2>4, MoveKeeps
<1>4. CASE LearnRead(w)
  <2>1. PICK meta \in {learned[p.text], Missing} :
           work' = [work EXCEPT ![w] = Moved(p, "upsert", p.cmd, meta, p.ok)]
    BY <1>4 DEF LearnRead
  <2>2. p.at = "learn" /\ Busy(w) /\ UNCHANGED <<learned, truth, shared>>
    BY <1>4 DEF LearnRead, Busy
  <2>3. p.text \in Texts /\ p.doc = NoDoc /\ ~ IsLearned(p.text)
    BY <1>0, <2>2 DEF Sound, Exact
  <2>4. meta = Missing
    BY <2>1, <2>3, NoCommandIsMissing DEF IInv, EntriesSound, IsLearned
  <2> QED
    <3>1. work[w].at \in {"execute", "learn"} /\ "upsert" # "execute" /\ "upsert" # "update"
      BY <2>2
    <3> QED
      BY <2>1, <2>2, <2>3, <2>4, <3>1, GoingOnKeeps, Zenon
<1>5. CASE OutcomeRead(w)
  <2>1. p.at = "outcome" /\ Busy(w) /\ UNCHANGED <<learned, truth, shared>>
    BY <1>5 DEF OutcomeRead, Busy
  <2>2. CASE IsLearned(p.doc)
    <3>1. work' = [work EXCEPT ![w] = Moved(p, "update", NoCommand, learned[p.doc], p.ok)]
      BY <1>5, <2>2 DEF OutcomeRead
    <3> QED
      BY <2>1, <3>1, GoingOnKeeps
  <2>3. CASE ~ IsLearned(p.doc)
    <3>1. work' = [work EXCEPT ![w] = Done(p, p.ok)]
      BY <1>5, <2>3 DEF OutcomeRead
    <3> QED
      BY <1>1, <2>1, <3>1
  <2> QED
    BY <2>2, <2>3
<1>6. CASE CollectionFails(w)
  <2>1. /\ Busy(w) /\ UNCHANGED <<learned, truth, shared>>
        /\ work' = [work EXCEPT ![w] = Done(p, p.ok)]
    BY <1>6 DEF CollectionFails, Busy
  <2> QED
    BY <1>1, <2>1
<1> QED
  BY <1>2, <1>3, <1>4, <1>5, <1>6

\* A worker writes entry t, which no pipeline that is alone at work on it will teach.
LEMMA WritersLeave ==
    ASSUME IInv, CInv, NEW w \in Workers, NEW t \in Texts, Busy(w), Subject(work[w]) = t,
           work' = [work EXCEPT ![w] = Done(work[w], work[w].ok)],
           \A u \in Texts : u # t => learned'[u] = learned[u] /\ (u \in shared' <=> u \in shared),
           t \notin shared' =>
               \A v \in Workers \ {w} : ~ (Busy(v) /\ Subject(work[v]) = t),
           \A v \in Workers \ {w} : work[v].at \in {"execute", "learn", "upsert"}
               /\ work[v].doc = NoDoc /\ work[v].text = t => ~ IsLearned(t)'
    PROVE  (\A v \in Workers : Exact(v)') /\ Alone'
<1>1. work'[w] = Done(work[w], work[w].ok) /\ \A v \in Workers : v # w => work'[v] = work[v]
  BY DEF IInv, WorkSound
<1>2. /\ work'[w].at = "log" /\ work'[w].text = work[w].text /\ work'[w].doc = work[w].doc
      /\ Subject(work'[w]) = Subject(work[w])
  BY <1>1 DEF Done, Moved, Subject
<1>3. Exact(w)'
  BY <1>2 DEF CInv, Exact, Busy
<1>4. ASSUME NEW v \in Workers, v # w PROVE Exact(v)'
  <2>1. Exact(v) /\ Sound(work[v]) /\ work'[v] = work[v] /\ NoDoc \notin Texts
    BY <1>1, <1>4, KnowledgeAssumption DEF CInv, IInv, WorkSound
  <2>2. Own[v] \subseteq Texts
    BY KnowledgeAssumption
  <2>3. work[v].at \in {"execute", "learn", "upsert"} /\ work[v].doc = NoDoc
        => ~ IsLearned(work[v].text)'
    <3>1. CASE work[v].text = t
      BY <1>4, <3>1
    <3>2. CASE work[v].text # t
      BY <2>1, <2>2, <3>2 DEF Exact, Busy, IsLearned
    <3> QED
      BY <3>1, <3>2
  <2>4. work[v].at = "update" /\ work[v].doc \notin shared' /\ IsLearned(work[v].doc)'
        => work[v].meta = learned'[work[v].doc]
    <3> SUFFICES ASSUME work[v].at = "update", work[v].doc \notin shared', IsLearned(work[v].doc)'
                 PROVE  work[v].meta = learned'[work[v].doc]
      OBVIOUS
    <3>1. work[v].doc \in Texts /\ Busy(v) /\ Subject(work[v]) = work[v].doc
      BY <2>1 DEF Sound, Busy, Subject
    <3>2. work[v].doc # t
      BY <1>4, <3>1
    <3> QED
      BY <2>1, <3>1, <3>2 DEF Exact, IsLearned
  <2> QED
    BY <2>1, <2>3, <2>4 DEF Exact, Busy
<1>5. Alone'
  <2> SUFFICES ASSUME NEW x \in Texts \ shared', NEW u \in Workers, NEW v \in Workers,
                      Busy(u)', Busy(v)', Subject(work'[u]) = x, Subject(work'[v]) = x
               PROVE  u = v
    BY DEF Alone
  <2>1. Busy(u) /\ Busy(v) /\ Subject(work[u]) = x /\ Subject(work[v]) = x
    BY <1>1, <1>2 DEF Busy
  <2>2. CASE x = t
    BY <2>1, <2>2
  <2>3. CASE x # t
    BY <2>1, <2>3 DEF CInv, Alone
  <2> QED
    BY <2>2, <2>3
<1> QED
  BY <1>3, <1>4, <1>5

\* An entry is learned when it is not there, so its counters begin at one success.
LEMMA LearnWriteCounts ==
    ASSUME OwnTexts, IInv, CInv, NEW w \in Workers, LearnWrite(w)
    PROVE  CInv'
<1>0. PICK p, t : p = work[w] /\ t = p.text
  OBVIOUS
<1> DEFINE Others == \E v \in Workers \ {w} : Busy(v) /\ Subject(work[v]) = t
<1>1. /\ p.at = "upsert"
      /\ learned' = [learned EXCEPT ![t] = Lesson(p.meta, p.cmd)]
      /\ work' = [work EXCEPT ![w] = Done(p, p.ok)]
      /\ shared' = IF Others THEN shared \cup {t} ELSE shared \ {t}
      /\ truth' = [truth EXCEPT ![t] = IF Others THEN Zero ELSE [succ |-> 1, fail |-> 0]]
  BY <1>0 DEF LearnWrite
<1>2. /\ p.doc = NoDoc /\ p.meta = Missing /\ t \in Texts /\ t \in Own[w] /\ p.cmd \in Commands
      /\ NoCommand \notin Commands
  BY <1>0, <1>1, KnowledgeAssumption DEF CInv, IInv, WorkSound, Exact, Sound, Busy
<1>3. Lesson(p.meta, p.cmd) = [cmd |-> p.cmd, succ |-> 1, fail |-> 0]
  BY <1>2 DEF Lesson, Missing
<1>4. Busy(w) /\ Subject(work[w]) = t
  BY <1>0, <1>1, <1>2 DEF Busy, Subject
<1>5. /\ learned'[t] = [cmd |-> p.cmd, succ |-> 1, fail |-> 0]
      /\ \A u \in Texts : u # t => learned'[u] = learned[u]
  BY <1>1, <1>2, <1>3 DEF IInv, EntriesSound
<1>6. ASSUME NEW v \in Workers \ {w}, work[v].at \in {"execute", "learn", "upsert"},
             work[v].text = t
      PROVE  FALSE
  <2>1. t \in Own[v]
    BY <1>6 DEF CInv, Exact, Busy
  <2> QED
    BY <1>2, <2>1 DEF OwnTexts
<1>7. (\A v \in Workers : Exact(v)') /\ Alone'
  <2>1. /\ \A u \in Texts : u # t => (u \in shared' <=> u \in shared)
        /\ t \notin shared' => ~ Others
    BY <1>1
  <2> QED
    BY <1>0, <1>1, <1>2, <1>4, <1>5, <1>6, <2>1, WritersLeave
<1>8. /\ truth' = [x \in Texts |-> truth'[x]]
      /\ \A x \in Texts : x # t => truth'[x] = truth[x]
      /\ ~ Others => truth'[t] = [succ |-> 1, fail |-> 0]
  BY <1>1, <1>2 DEF CInv
<1>9. CountersExact'
  <2> SUFFICES ASSUME NEW x \in Texts \ shared', IsLearned(x)'
               PROVE  truth'[x] = [succ |-> learned'[x].succ, fail |-> learned'[x].fail]
    BY DEF CountersExact
  <2>1. CASE x = t
    BY <1>1, <1>5, <1>8, <2>1
  <2>2. CASE x # t
    BY <1>1, <1>5, <1>8, <2>2 DEF CInv, CountersExact, IsLearned
  <2> QED
    BY <2>1, <2>2
<1> QED
  BY <1>7, <1>8, <1>9 DEF CInv

\* A result is counted on what is stored, unless it was read before another one.
LEMMA OutcomeWriteCounts ==
    ASSUME IInv, CInv, NEW w \in Workers, OutcomeWrite(w)
    PROVE  CInv'
<1>0. PICK p, t, new : p = work[w] /\ t = p.doc /\ new = After(t, Counted(p.meta, p.ok))
  OBVIOUS
<1>1. /\ p.at = "update"
      /\ learned' = [learned EXCEPT ![t] = new]
      /\ truth' = [truth EXCEPT ![t] =
             IF t \in shared \/ learned'[t] = Missing THEN Zero ELSE Counted(@, p.ok)]
      /\ work' = [work EXCEPT ![w] = Done(p, p.ok)]
      /\ shared' = shared
  BY <1>0 DEF OutcomeWrite
<1>2. t \in Texts /\ p.meta \in Entries /\ p.meta.cmd # NoCommand /\ Exact(w) /\ NoDoc \notin Texts
  BY <1>0, <1>1, KnowledgeAssumption DEF CInv, IInv, WorkSound, Sound
<1>3. Busy(w) /\ Subject(work[w]) = t
  BY <1>0, <1>1, <1>2 DEF Busy, Subject
<1>4. learned'[t] = new /\ \A u \in Texts : u # t => learned'[u] = learned[u]
  BY <1>1, <1>2 DEF IInv, EntriesSound
<1>5. ~ IsLearned(t) => new = Missing
  BY <1>0, <1>2, AfterIsSound
<1>6. (\A v \in Workers : Exact(v)') /\ Alone'
  <2>1. t \notin shared' => \A v \in Workers \ {w} : ~ (Busy(v) /\ Subject(work[v]) = t)
    BY <1>1, <1>2, <1>3 DEF CInv, Alone
  <2>2. ASSUME NEW v \in Workers \ {w}, work[v].at \in {"execute", "learn", "upsert"},
               work[v].doc = NoDoc, work[v].text = t
        PROVE  ~ IsLearned(t)'
    <3>1. ~ IsLearned(t)
      BY <2>2 DEF CInv, Exact
    <3> QED
      BY <1>4, <1>5, <3>1 DEF IsLearned, Missing
  <2> QED
    BY <1>0, <1>1, <1>2, <1>3, <1>4, <2>1, <2>2, WritersLeave
<1>7. /\ truth' = [x \in Texts |-> truth'[x]]
      /\ \A x \in Texts : x # t => truth'[x] = truth[x]
      /\ t \notin shared /\ learned'[t] # Missing => truth'[t] = Counted(truth[t], p.ok)
  BY <1>1, <1>2 DEF CInv
<1>8. ASSUME t \notin shared, IsLearned(t)'
      PROVE  truth'[t] = [succ |-> learned'[t].succ, fail |-> learned'[t].fail]
  <2>1. new # Missing
    BY <1>4, <1>8 DEF IsLearned, Missing
  <2>2. IsLearned(t) /\ p.meta = learned[t]
    BY <1>0, <1>1, <1>2, <1>5, <1>8, <2>1 DEF Exact
  <2>3. new = Counted(p.meta, p.ok)
    BY <1>0, <2>1 DEF After
  <2>4. truth[t] = [succ |-> p.meta.succ, fail |-> p.meta.fail]
    BY <1>2, <1>8, <2>2 DEF CInv, CountersExact
  <2>5. p.meta = [cmd |-> p.meta.cmd, succ |-> p.meta.succ, fail |-> p.meta.fail]
    BY <1>2, EntryFields
  <2>6. truth'[t] = Counted([succ |-> p.meta.succ, fail |-> p.meta.fail], p.ok)
    BY <1>4, <1>7, <1>8, <2>1, <2>4
  <2>7. learned'[t] = Counted([cmd |-> p.meta.cmd, succ |-> p.meta.succ, fail |-> p.meta.fail], p.ok)
    BY <1>4, <2>3, <2>5
  <2> QED
    BY <2>6, <2>7 DEF Counted
<1>9. CountersExact'
  <2> SUFFICES ASSUME NEW x \in Texts \ shared', IsLearned(x)'
               PROVE  truth'[x] = [succ |-> learned'[x].succ, fail |-> learned'[x].fail]
    BY DEF CountersExact
  <2>1. CASE x = t
    BY <1>1, <1>8, <2>1
  <2>2. CASE x # t
    BY <1>1, <1>4, <1>7, <2>2 DEF CInv, CountersExact, IsLearned
  <2> QED
    BY <2>1, <2>2
<1> QED
  BY <1>6, <1>7, <1>9 DEF CInv

\* A deletion leaves nothing to count.
LEMMA PurgeDeleteCounts ==
    ASSUME IInv, CInv, NEW d \in Docs, PurgeDelete(d)
    PROVE  CInv'
<1>1. /\ work' = work /\ shared' = shared
      /\ learned' = learned \/ learned' = [t \in Texts |-> IF t = d THEN Missing ELSE learned[t]]
      /\ truth' = [t \in Texts |-> IF learned'[t] = Missing THEN Zero ELSE truth[t]]
  BY DEF PurgeDelete
<1>2. \A t \in Texts : IsLearned(t)' => learned'[t] = learned[t] /\ IsLearned(t)
  BY <1>1 DEF IsLearned, Missing
<1>3. \A t \in Texts : IsLearned(t)' => truth'[t] = truth[t]
  BY <1>1 DEF IsLearned, Missing
<1>4. ASSUME NEW v \in Workers PROVE Exact(v)'
  <2>1. Exact(v) /\ Sound(work[v]) /\ Own[v] \subseteq Texts
    BY KnowledgeAssumption DEF CInv, IInv, WorkSound
  <2>2. Busy(v) => work[v].text \in Texts
    BY <2>1 DEF Exact
  <2>3. work[v].at = "update" => work[v].doc \in Texts
    BY <2>1 DEF Sound
  <2> QED
    BY <1>1, <1>2, <2>1, <2>2, <2>3 DEF Exact, Busy
<1>5. Alone'
  BY <1>1 DEF CInv, Alone, Busy
<1>6. CountersExact'
  BY <1>1, <1>2, <1>3 DEF CInv, CountersExact
<1> QED
  BY <1>1, <1>4, <1>5, <1>6 DEF CInv

LEMMA CountStays ==
    ASSUME CInv, UNCHANGED <<learned, work, truth, shared>>
    PROVE  CInv'
  BY DEF CInv, Exact, Alone, CountersExact, Busy, IsLearned

LEMMA NextCounts ==
    ASSUME OwnTexts, NearItself, IInv, CInv, [Next]_vars
    PROVE  CInv'
<1>1. ASSUME NEW w \in Workers, WorkerStep(w)
      PROVE  CInv'
  BY <1>1, LookupCounts, StepCounts, LearnWriteCounts, OutcomeWriteCounts DEF WorkerStep
<1>2. CASE PurgeStep
  <2>1. CASE \E d \in Docs : PurgeDelete(d)
    BY <2>1, PurgeDeleteCounts
  <2>2. CASE PurgeStart \/ (\E t \in Texts : PurgeQuery(t)) \/ PurgeJudge \/ PurgeEnd
    BY <2>2, CountStays DEF PurgeStart, PurgeQuery, PurgeJudge, PurgeEnd
  <2> QED
    BY <1>2, <2>1, <2>2 DEF PurgeStep
<1>3. CASE Sync \/ (\E t \in Texts, d \in Docs : RowExpires(t, d)) \/ (\E c \in Commands : Breaks(c))
  BY <1>3, CountStays DEF Sync, RowExpires, Breaks
<1>4. CASE UNCHANGED vars
  BY <1>4, CountStays DEF vars
<1> QED
  BY <1>1, <1>2, <1>3, <1>4 DEF Next

\* However pipelines and the purger interleave: the counters of an entry are its
\* results since it was learned, unless two pipelines were at work on it at once
\* (learn_from_feedback, record_learned_outcome).
THEOREM CountersStayExact ==
    ASSUME OwnTexts, NearItself
    PROVE  Spec => []CountersExact
<1>1. Init => CInv
  BY InitCInv
<1>2. IInv /\ CInv /\ [Next]_vars => CInv'
  BY NextCounts
<1>3. CInv => CountersExact
  BY DEF CInv
<1> QED
  BY <1>1, <1>2, <1>3, InductiveInvariant, PTL DEF Spec

-----------------------------------------------------------------------------
(* The sums over the rows                                                  *)

\* g adds up the numbers of f over the subsets of S, taking one element at a time.
AddsUp(g, f, pick, S) ==
    \A s \in SUBSET S : g[s] = IF s = {} THEN 0 ELSE f[pick[s]] + g[s \ {pick[s]}]
Picks(pick, S) == \A s \in SUBSET S : s # {} => pick[s] \in s

\* The sums over a finite set that FiniteSetsExt folds: what it folds with exists,
\* level by level of the sizes of the subsets.
LEMMA SumsExist ==
    ASSUME NEW S, IsFiniteSet(S), NEW f \in [S -> Nat],
           NEW pick, Picks(pick, S)
    PROVE  \E g \in [SUBSET S -> Nat] : AddsUp(g, f, pick, S)
<1> DEFINE Small(n) == {s \in SUBSET S : Cardinality(s) <= n}
           Sums(g, n) == \A s \in Small(n) :
                            g[s] = IF s = {} THEN 0 ELSE f[pick[s]] + g[s \ {pick[s]}]
           Bad == {n \in Nat : ~ \E g \in [Small(n) -> Nat] : Sums(g, n)}
<1>1. \A s \in SUBSET S : IsFiniteSet(s) /\ Cardinality(s) \in Nat /\ Cardinality(s) <= Cardinality(S)
  BY FS_Subset, FS_CardinalityType
<1>2. \A s \in SUBSET S : s # {} =>
         /\ s \ {pick[s]} \in SUBSET S
         /\ Cardinality(s \ {pick[s]}) = Cardinality(s) - 1
  BY <1>1, FS_RemoveElement DEF Picks
<1>3. \A s \in SUBSET S : s # {} <=> Cardinality(s) # 0
  BY <1>1, FS_EmptySet
<1>4. 0 \notin Bad
  <2> DEFINE g == [s \in Small(0) |-> 0]
  <2>1. \A s \in Small(0) : s = {}
    BY <1>1, <1>3
  <2>2. g \in [Small(0) -> Nat]
    OBVIOUS
  <2>3. Sums(g, 0)
    BY <2>1
  <2> QED
    BY <2>2, <2>3
<1>5. ASSUME NEW n \in Nat, n # 0, n - 1 \notin Bad
      PROVE  n \notin Bad
  <2>1. n - 1 \in Nat
    BY <1>5
  <2>2. PICK h \in [Small(n - 1) -> Nat] : Sums(h, n - 1)
    BY <1>5, <2>1
  <2> DEFINE g == [s \in Small(n) |->
                     IF s = {} THEN 0 ELSE f[pick[s]] + h[s \ {pick[s]}]]
  <2>3. ASSUME NEW s \in Small(n), s # {}
        PROVE  s \ {pick[s]} \in Small(n - 1) /\ s \ {pick[s]} \in Small(n)
    <3>1. Cardinality(s) \in Nat /\ Cardinality(s) <= n
      BY <1>1
    <3>2. s \ {pick[s]} \in SUBSET S /\ Cardinality(s \ {pick[s]}) = Cardinality(s) - 1
      BY <1>2, <2>3
    <3> QED
      BY <3>1, <3>2
  <2>4. g \in [Small(n) -> Nat]
    <3>1. ASSUME NEW s \in Small(n), s # {}
          PROVE  f[pick[s]] \in Nat /\ h[s \ {pick[s]}] \in Nat
      <4>1. s \in SUBSET S /\ pick[s] \in s
        BY <3>1 DEF Picks
      <4> QED
        BY <2>2, <2>3, <3>1, <4>1
    <3> QED
      BY <3>1
  <2>5. ASSUME NEW s \in Small(n - 1) PROVE g[s] = h[s]
    <3>1. s \in Small(n)
      <4>1. Cardinality(s) \in Nat /\ Cardinality(s) <= n - 1
        BY <1>1
      <4> QED
        BY <4>1
    <3> QED
      BY <2>2, <3>1
  <2>6. Sums(g, n)
    <3> SUFFICES ASSUME NEW s \in Small(n)
                 PROVE  g[s] = IF s = {} THEN 0 ELSE f[pick[s]] + g[s \ {pick[s]}]
      OBVIOUS
    <3>1. s # {} => g[s \ {pick[s]}] = h[s \ {pick[s]}]
      BY <2>3, <2>5
    <3> QED
      BY <3>1
  <2> HIDE DEF g
  <2> QED
    BY <2>4, <2>6
<1>6. Bad = {}
  <2> SUFFICES ASSUME Bad # {} PROVE FALSE
    OBVIOUS
  <2>1. PICK n \in Bad : \A k \in Bad : n <= k
    <3>1. Bad \subseteq Nat
      OBVIOUS
    <3> HIDE DEF Bad
    <3> QED
      BY <3>1, LeastNumber
  <2>2. n \in Nat /\ n # 0
    BY <1>4
  <2>3. n - 1 \in Nat /\ ~ (n <= n - 1)
    BY <2>2
  <2>4. n - 1 \notin Bad
    BY <2>1, <2>3
  <2> HIDE DEF Bad
  <2> QED
    BY <1>5, <2>1, <2>2, <2>4
<1>7. Cardinality(S) \in Nat
  BY FS_CardinalityType
<1>8. Small(Cardinality(S)) = SUBSET S
  BY <1>1
<1>9. PICK g \in [Small(Cardinality(S)) -> Nat] : Sums(g, Cardinality(S))
  BY <1>6, <1>7
<1> QED
  BY <1>8, <1>9 DEF AddsUp

\* And whatever is folded with gives numbers.
LEMMA SumsAreNumbers ==
    ASSUME NEW S, IsFiniteSet(S), NEW f \in [S -> Nat],
           NEW pick, Picks(pick, S), NEW g, AddsUp(g, f, pick, S)
    PROVE  g[S] \in Nat
<1> DEFINE Bad == {s \in SUBSET S : g[s] \notin Nat}
           sizes == {Cardinality(s) : s \in Bad}
<1>1. \A s \in SUBSET S : IsFiniteSet(s) /\ Cardinality(s) \in Nat
  BY FS_Subset, FS_CardinalityType
<1>2. \A s \in SUBSET S : s # {} =>
         /\ s \ {pick[s]} \in SUBSET S
         /\ Cardinality(s \ {pick[s]}) = Cardinality(s) - 1
  BY <1>1, FS_RemoveElement DEF Picks
<1>3. Bad = {}
  <2> SUFFICES ASSUME Bad # {} PROVE FALSE
    OBVIOUS
  <2>1. PICK n \in sizes : \A k \in sizes : n <= k
    <3>1. sizes \subseteq Nat /\ sizes # {}
      BY <1>1
    <3> HIDE DEF sizes
    <3> QED
      BY <3>1, LeastNumber
  <2>2. PICK s \in Bad : Cardinality(s) = n
    BY <2>1
  <2>3. s # {} /\ s \in SUBSET S
    <3>1. g[{}] = 0
      BY DEF AddsUp
    <3>2. s \in SUBSET S /\ g[s] \notin Nat
      BY <2>2
    <3> QED
      BY <3>1, <3>2
  <2>4. pick[s] \in S /\ s \ {pick[s]} \in SUBSET S /\ f[pick[s]] \in Nat
    BY <2>3 DEF Picks
  <2>5. g[s \ {pick[s]}] \in Nat
    <3>1. n \in Nat /\ Cardinality(s \ {pick[s]}) = n - 1
      BY <1>1, <1>2, <2>2, <2>3
    <3>2. ~ (n <= n - 1)
      BY <3>1
    <3>3. Cardinality(s \ {pick[s]}) \notin sizes
      BY <2>1, <3>1, <3>2
    <3> QED
      BY <2>4, <3>3
  <2>6. g[s] = f[pick[s]] + g[s \ {pick[s]}]
    BY <2>3 DEF AddsUp
  <2>7. g[s] \in Nat
    BY <2>4, <2>5, <2>6
  <2> QED
    BY <2>2, <2>7
<1> QED
  BY <1>3

\* So the sum of numbers over a finite set is a number.
LEMMA SumIsNumber ==
    ASSUME NEW S, IsFiniteSet(S), NEW f \in [S -> Nat]
    PROVE  MapThenSumSet(LAMBDA x : f[x], S) \in Nat
<1> DEFINE pick == [s \in SUBSET S |-> CHOOSE x \in s : TRUE]
           Fold(g) == [s \in SUBSET S |->
                         IF s = {} THEN 0 ELSE f[CHOOSE x \in s : TRUE] + g[s \ {CHOOSE x \in s : TRUE}]]
           iter == CHOOSE g : g = Fold(g)
<1>1. Picks(pick, S)
  BY DEF Picks
<1>2. \E g \in [SUBSET S -> Nat] : AddsUp(g, f, pick, S)
  <2> HIDE DEF pick
  <2> QED
    BY <1>1, SumsExist
<1>3. PICK g : g \in [SUBSET S -> Nat] /\ AddsUp(g, f, pick, S)
  BY <1>2
<1>4. g = Fold(g)
  BY <1>3 DEF AddsUp
<1>5. iter = Fold(iter)
  BY <1>4
<1>6. AddsUp(iter, f, pick, S)
  <2> HIDE DEF iter
  <2> QED
    BY <1>5 DEF AddsUp
<1>7. iter[S] \in Nat
  <2> HIDE DEF pick, iter
  <2> QED
    BY <1>1, <1>6, SumsAreNumbers
<1>8. MapThenSumSet(LAMBDA x : f[x], S) = iter[S]
  BY DEF MapThenSumSet, MapThenFoldSet
<1> QED
  BY <1>7, <1>8

\* The sums of the rows: of a text, of a document, of all.
LEMMA SumOfRow ==
    ASSUME NEW r \in Bags, NEW t \in Texts
    PROVE  RowsOf(r, t) \in Nat
<1>1. r[t] \in [Docs -> Nat]
  BY DEF Bags
<1>2. MapThenSumSet(LAMBDA d : r[t][d], Docs) \in Nat
  BY <1>1, KnowledgeAssumption, SumIsNumber DEF Docs
<1> QED
  BY <1>2 DEF RowsOf

-----------------------------------------------------------------------------
(* Types                                                                   *)

\* A pipeline on its way is that of a text.
OnItsWay(p) == p \in Pipelines /\ (p.at # "idle" => p.text \in Texts)

\* What the steps need of the types beyond TypeOK.
TypeInv == TypeOK /\ \A w \in Workers : OnItsWay(work[w])

\* A step of a pipeline leaves one.
LEMMA StepsOfWork ==
    ASSUME TypeInv, IInv, NEW w \in Workers, WorkerStep(w)
    PROVE  \E p : OnItsWay(p) /\ work' = [work EXCEPT ![w] = p]
<1> DEFINE q == work[w]
<1>1. /\ q.text \in Texts \cup {NoDoc} /\ q.doc \in Docs \cup {NoDoc}
      /\ q.cmd \in Commands \cup {NoCommand} /\ q.meta \in Entries /\ q.ok \in BOOLEAN
  BY DEF TypeInv, OnItsWay, Pipelines
<1>2. q.at # "idle" => q.text \in Texts
  BY DEF TypeInv, OnItsWay
<1>3. Missing \in Entries /\ NoCommand \in Commands \cup {NoCommand}
  BY MissingIsSound
<1>4. ASSUME NEW at \in {"learn", "upsert", "outcome", "update", "log"}, NEW cmd \in Commands \cup {NoCommand},
             NEW meta \in Entries, NEW ok \in BOOLEAN, q.at # "idle"
      PROVE  OnItsWay(Moved(q, at, cmd, meta, ok))
  BY <1>1, <1>2, <1>4 DEF Moved, OnItsWay, Pipelines
<1>5. ASSUME NEW ok \in BOOLEAN, q.at # "idle"
      PROVE  OnItsWay(Done(q, ok))
  BY <1>3, <1>4, <1>5 DEF Done
<1>6. OnItsWay(Idle)
  BY <1>3 DEF Idle, OnItsWay, Pipelines
<1>7. \A t \in Texts : learned[t] \in Entries
  BY DEF IInv, EntriesSound
<1>8. ASSUME NEW t \in Texts, Lookup(w, t)
      PROVE  \E p : OnItsWay(p) /\ work' = [work EXCEPT ![w] = p]
  <2>1. PICK a \in Answers(t) :
           work' = [work EXCEPT ![w] = [at |-> "execute", text |-> t, doc |-> a.doc, cmd |-> a.cmd,
                                        meta |-> Missing, ok |-> FALSE]]
    BY <1>8 DEF Lookup
  <2>2. a.doc \in Docs \cup {NoDoc} /\ a.cmd \in Commands \cup {NoCommand}
    <3>1. CASE Candidates(t) # {}
      <4>1. Chosen(t) \in Docs
        BY <3>1, ChosenIsDocument
      <4>2. \A d \in Texts : learned[d].cmd \in Commands \cup {NoCommand}
        BY <1>7, EntryFields
      <4> QED
        BY <3>1, <4>1, <4>2 DEF Answers
    <3>2. CASE Candidates(t) = {}
      BY <3>2 DEF Answers
    <3> QED
      BY <3>1, <3>2
  <2>3. OnItsWay([at |-> "execute", text |-> t, doc |-> a.doc, cmd |-> a.cmd,
                  meta |-> Missing, ok |-> FALSE])
    BY <1>3, <2>2 DEF OnItsWay, Pipelines
  <2> QED
    BY <2>1, <2>3
<1>9. ASSUME NEW ok \in BOOLEAN, NEW fed \in BOOLEAN, Execute(w, ok, fed)
      PROVE  \E p : OnItsWay(p) /\ work' = [work EXCEPT ![w] = p]
  <2>1. q.at # "idle"
    BY <1>9 DEF Execute
  <2>2. CASE Teaches(q, ok, fed)
    BY <1>1, <1>3, <1>4, <1>9, <2>1, <2>2 DEF Execute
  <2>3. CASE ~ Teaches(q, ok, fed) /\ FeedsBack(q, ok, fed)
    BY <1>1, <1>3, <1>4, <1>9, <2>1, <2>3 DEF Execute
  <2>4. CASE ~ Teaches(q, ok, fed) /\ ~ FeedsBack(q, ok, fed)
    BY <1>5, <1>9, <2>1, <2>4 DEF Execute
  <2> QED
    BY <2>2, <2>3, <2>4
<1>10. ASSUME PipelineRaises(w) \/ LogEvent(w)
       PROVE  \E p : OnItsWay(p) /\ work' = [work EXCEPT ![w] = p]
  BY <1>6, <1>10 DEF PipelineRaises, LogEvent
<1>11. ASSUME LearnRead(w)
       PROVE  \E p : OnItsWay(p) /\ work' = [work EXCEPT ![w] = p]
  <2>1. q.at # "idle" /\ q.text \in Texts
    BY <1>2, <1>11 DEF LearnRead
  <2>2. PICK meta \in {learned[q.text], Missing} :
           work' = [work EXCEPT ![w] = Moved(q, "upsert", q.cmd, meta, q.ok)]
    BY <1>11 DEF LearnRead
  <2>3. meta \in Entries
    BY <1>3, <1>7, <2>1
  <2> QED
    BY <1>1, <1>4, <2>1, <2>2, <2>3
<1>12. ASSUME LearnWrite(w) \/ OutcomeWrite(w) \/ CollectionFails(w)
       PROVE  \E p : OnItsWay(p) /\ work' = [work EXCEPT ![w] = p]
  <2>1. q.at # "idle" /\ work' = [work EXCEPT ![w] = Done(q, q.ok)]
    BY <1>12 DEF LearnWrite, OutcomeWrite, CollectionFails
  <2> QED
    BY <1>1, <1>5, <2>1
<1>13. ASSUME OutcomeRead(w)
       PROVE  \E p : OnItsWay(p) /\ work' = [work EXCEPT ![w] = p]
  <2>1. q.at # "idle" /\ q.doc \in Texts
    BY <1>13 DEF OutcomeRead, IInv, WorkSound, Sound
  <2>2. CASE IsLearned(q.doc)
    BY <1>1, <1>3, <1>4, <1>7, <1>13, <2>1, <2>2 DEF OutcomeRead
  <2>3. CASE ~ IsLearned(q.doc)
    BY <1>1, <1>5, <1>13, <2>1, <2>3 DEF OutcomeRead
  <2> QED
    BY <2>2, <2>3
<1> QED
  BY <1>8, <1>9, <1>10, <1>11, <1>12, <1>13 DEF WorkerStep

\* What a step of a pipeline leaves alone.
LEMMA PipelineLeaves ==
    ASSUME NEW w \in Workers, WorkerStep(w)
    PROVE  /\ UNCHANGED <<stock, purge, broken>>
           /\ UNCHANGED lessons \/ (lessons < MaxLessons /\ lessons' = lessons + 1)
           /\ UNCHANGED rows \/ LogEvent(w)
           /\ \/ UNCHANGED <<truth, shared>>
              \/ LearnWrite(w) \/ OutcomeWrite(w) \/ \E t \in Texts : Lookup(w, t)
<1>1. CASE \E t \in Texts : Lookup(w, t)
  BY <1>1 DEF Lookup
<1>2. CASE \E ok, fed \in BOOLEAN : Execute(w, ok, fed)
  BY <1>2 DEF Execute
<1>3. CASE PipelineRaises(w) \/ LearnRead(w) \/ OutcomeRead(w) \/ CollectionFails(w)
  BY <1>3 DEF PipelineRaises, LearnRead, OutcomeRead, CollectionFails
<1>4. CASE LearnWrite(w)
  BY <1>4 DEF LearnWrite
<1>5. CASE OutcomeWrite(w)
  BY <1>5 DEF OutcomeWrite
<1>6. CASE LogEvent(w)
  BY <1>6 DEF LogEvent
<1> QED
  BY <1>1, <1>2, <1>3, <1>4, <1>5, <1>6 DEF WorkerStep

\* What the main loop's steps and the system around them leave alone.
LEMMA OthersLeave ==
    ASSUME [Next]_vars, \A w \in Workers : ~ WorkerStep(w)
    PROVE  /\ UNCHANGED <<work, lessons, shared>>
           /\ UNCHANGED broken \/ \E c \in Commands : broken' = broken \cup {c}
           /\ UNCHANGED rows \/ \E t \in Texts, d \in Docs : RowExpires(t, d)
           /\ UNCHANGED truth \/ \E d \in Docs : PurgeDelete(d)
           /\ UNCHANGED purge \/ PurgeStep
           /\ UNCHANGED stock \/ stock' = stock \cup Synced \/ \E d \in Docs : stock' = stock \ {d}
<1>1. CASE PurgeStart \/ PurgeJudge \/ PurgeEnd
  BY <1>1 DEF PurgeStart, PurgeJudge, PurgeEnd, PurgeStep
<1>2. CASE \E t \in Texts : PurgeQuery(t)
  BY <1>2 DEF PurgeQuery, PurgeStep
<1>3. CASE \E d \in Docs : PurgeDelete(d)
  BY <1>3 DEF PurgeDelete, PurgeStep
<1>4. CASE Sync
  BY <1>4 DEF Sync
<1>5. CASE \E t \in Texts, d \in Docs : RowExpires(t, d)
  BY <1>5 DEF RowExpires
<1>6. CASE \E c \in Commands : Breaks(c)
  BY <1>6 DEF Breaks
<1>7. CASE UNCHANGED vars
  BY <1>7 DEF vars
<1> QED
  BY <1>1, <1>2, <1>3, <1>4, <1>5, <1>6, <1>7 DEF Next, PurgeStep

\* The histories count, and so do the lessons.
LEMMA HistoryTypes ==
    ASSUME TypeInv, IInv, [Next]_vars
    PROVE  /\ stock' \subseteq Curated
           /\ broken' \subseteq Commands
           /\ lessons' \in 0..MaxLessons
           /\ truth' \in [Texts -> [succ : Nat, fail : Nat]]
           /\ shared' \subseteq Texts
<1> DEFINE Histories == [Texts -> [succ : Nat, fail : Nat]]
<1>1. /\ stock \subseteq Curated /\ broken \subseteq Commands /\ shared \subseteq Texts
      /\ lessons \in 0..MaxLessons /\ truth \in Histories
  BY DEF TypeInv, TypeOK
<1>2. stock' \subseteq Curated
  <2>1. UNCHANGED stock \/ stock' = stock \cup Synced \/ \E d \in Docs : stock' = stock \ {d}
    BY PipelineLeaves, OthersLeave
  <2> QED
    BY <1>1, <2>1, KnowledgeAssumption
<1>3. broken' \subseteq Commands
  <2>1. UNCHANGED broken \/ \E c \in Commands : broken' = broken \cup {c}
    BY PipelineLeaves, OthersLeave
  <2> QED
    BY <1>1, <2>1
<1>4. lessons' \in 0..MaxLessons
  <2>1. UNCHANGED lessons \/ (lessons < MaxLessons /\ lessons' = lessons + 1)
    BY PipelineLeaves, OthersLeave
  <2> QED
    BY <1>1, <2>1, KnowledgeAssumption
<1>5. truth' \in Histories /\ shared' \subseteq Texts
  <2>1. CASE UNCHANGED <<truth, shared>>
    BY <1>1, <2>1
  <2>2. ASSUME NEW w \in Workers, NEW t \in Texts, Lookup(w, t)
        PROVE  truth' \in Histories /\ shared' \subseteq Texts
    <3>1. \/ UNCHANGED <<truth, shared>>
          \/ \E s \in Texts : truth' = [truth EXCEPT ![s] = Zero] /\ shared' = shared \cup {s}
      BY <2>2 DEF Lookup
    <3> QED
      BY <1>1, <3>1 DEF Zero
  <2>3. ASSUME NEW w \in Workers, LearnWrite(w)
        PROVE  truth' \in Histories /\ shared' \subseteq Texts
    <3>1. PICK t : t = work[w].text
      OBVIOUS
    <3>2. t \in Texts
      BY <2>3, <3>1 DEF LearnWrite, IInv, WorkSound, Sound
    <3>3. \E n \in [succ : Nat, fail : Nat] : truth' = [truth EXCEPT ![t] = n]
      <4>1. Zero \in [succ : Nat, fail : Nat] /\ [succ |-> 1, fail |-> 0] \in [succ : Nat, fail : Nat]
        BY DEF Zero
      <4>2. \/ truth' = [truth EXCEPT ![t] = Zero]
            \/ truth' = [truth EXCEPT ![t] = [succ |-> 1, fail |-> 0]]
        BY <2>3, <3>1 DEF LearnWrite
      <4> QED
        BY <4>1, <4>2
    <3>4. shared' = shared \cup {t} \/ shared' = shared \ {t}
      BY <2>3, <3>1 DEF LearnWrite
    <3> QED
      BY <1>1, <3>2, <3>3, <3>4
  <2>4. ASSUME NEW w \in Workers, OutcomeWrite(w)
        PROVE  truth' \in Histories /\ shared' \subseteq Texts
    <3>1. PICK d : d = work[w].doc
      OBVIOUS
    <3>2. d \in Texts
      BY <2>4, <3>1 DEF OutcomeWrite, IInv, WorkSound, Sound
    <3>3. Counted(truth[d], work[w].ok) \in [succ : Nat, fail : Nat]
      <4>1. truth[d] \in [succ : Nat, fail : Nat]
        BY <1>1, <3>2
      <4> QED
        BY <4>1 DEF Counted
    <3>4. \E n \in [succ : Nat, fail : Nat] : truth' = [truth EXCEPT ![d] = n]
      BY <1>1, <2>4, <3>1, <3>2, <3>3 DEF OutcomeWrite, Zero
    <3> QED
      BY <1>1, <2>4, <3>4 DEF OutcomeWrite
  <2>5. ASSUME NEW d \in Docs, PurgeDelete(d)
        PROVE  truth' \in Histories /\ shared' \subseteq Texts
    BY <1>1, <2>5 DEF PurgeDelete, Zero
  <2>6. \/ UNCHANGED <<truth, shared>>
        \/ \E w \in Workers : LearnWrite(w) \/ OutcomeWrite(w) \/ \E t \in Texts : Lookup(w, t)
        \/ \E d \in Docs : PurgeDelete(d)
    BY PipelineLeaves, OthersLeave
  <2> QED
    BY <2>1, <2>2, <2>3, <2>4, <2>5, <2>6
<1> QED
  BY <1>2, <1>3, <1>4, <1>5

\* One row more or less is a number of rows.
LEMMA RowTypes ==
    ASSUME TypeInv, [Next]_vars
    PROVE  rows' \in Bags
<1>1. rows \in Bags
  BY DEF TypeInv, TypeOK
<1>2. ASSUME NEW t \in Texts, NEW d \in Docs, NEW n \in Nat, rows' = [rows EXCEPT ![t][d] = n]
      PROVE  rows' \in Bags
  <2>1. rows[t] \in [Docs -> Nat]
    BY <1>1 DEF Bags
  <2>2. [rows[t] EXCEPT ![d] = n] \in [Docs -> Nat]
    BY <2>1
  <2> QED
    BY <1>1, <1>2, <2>2 DEF Bags
<1>3. \A t \in Texts, d \in Docs : rows[t][d] \in Nat
  BY <1>1 DEF Bags
<1>4. ASSUME NEW w \in Workers, LogEvent(w)
      PROVE  rows' \in Bags
  <2>1. CASE UNCHANGED rows
    BY <1>1, <2>1
  <2>2. CASE work[w].doc # NoDoc /\ rows' = [rows EXCEPT ![work[w].text][work[w].doc] = @ + 1]
    <3>1. work[w].text \in Texts /\ work[w].doc \in Docs
      BY <1>4, <2>2 DEF LogEvent, TypeInv, OnItsWay, Pipelines
    <3>2. PICK t \in Texts, d \in Docs : t = work[w].text /\ d = work[w].doc
      BY <3>1
    <3>3. rows[t][d] + 1 \in Nat
      BY <1>3
    <3>4. rows' = [rows EXCEPT ![t][d] = rows[t][d] + 1]
      BY <2>2, <3>2
    <3> QED
      BY <1>2, <3>3, <3>4
  <2> QED
    BY <1>4, <2>1, <2>2 DEF LogEvent
<1>5. ASSUME NEW t \in Texts, NEW d \in Docs, RowExpires(t, d)
      PROVE  rows' \in Bags
  <2>1. rows[t][d] - 1 \in Nat
    BY <1>3, <1>5 DEF RowExpires
  <2>2. rows' = [rows EXCEPT ![t][d] = rows[t][d] - 1]
    BY <1>5 DEF RowExpires
  <2> QED
    BY <1>2, <2>1, <2>2
<1>6. \/ UNCHANGED rows
      \/ \E w \in Workers : LogEvent(w)
      \/ \E t \in Texts, d \in Docs : RowExpires(t, d)
  BY PipelineLeaves, OthersLeave
<1> QED
  BY <1>1, <1>4, <1>5, <1>6

\* As in TypeOK.
PurgeRuns == [at : {"idle", "query", "delete"}, rows : Bags, left : SUBSET Texts,
              hits : [Docs -> Nat], doomed : SUBSET Docs]

\* The purger counts the rows of a text for the document that is nearest to it.
LEMMA PurgeTypes ==
    ASSUME TypeInv, [Next]_vars
    PROVE  purge' \in PurgeRuns
<1>1. purge \in PurgeRuns /\ rows \in Bags
  BY DEF TypeInv, TypeOK, PurgeRuns
<1>2. NoPurge \in PurgeRuns
  BY DEF NoPurge, NoRows, PurgeRuns, Bags
<1>3. CASE PurgeStart
  BY <1>1, <1>2, <1>3 DEF PurgeStart, PurgeRuns
<1>4. ASSUME NEW t \in Texts, PurgeQuery(t)
      PROVE  purge' \in PurgeRuns
  <2> DEFINE n == RowsOf(purge.rows, t)
             d == Near[t][Min(Candidates(t))]
  <2>1. n \in Nat
    BY <1>1, SumOfRow DEF PurgeRuns
  <2>2. Candidates(t) # {} => d \in Docs
    <3>1. Near[t] \in Seq(Docs)
      BY KnowledgeAssumption DEF Docs
    <3>2. Candidates(t) # {} => Min(Candidates(t)) \in DOMAIN Near[t]
      <4>1. Candidates(t) \subseteq Nat /\ Candidates(t) \subseteq DOMAIN Near[t]
        BY RanksAreNumbers
      <4>2. Candidates(t) # {} => \E x \in Candidates(t) : \A y \in Candidates(t) : x <= y
        BY <4>1, LeastNumber
      <4> QED
        BY <4>1, <4>2 DEF Min
    <3> QED
      BY <3>1, <3>2
  <2>3. purge.hits \in [Docs -> Nat]
    BY <1>1 DEF PurgeRuns
  <2>4. d \in Docs => [purge.hits EXCEPT ![d] = purge.hits[d] + n] \in [Docs -> Nat]
    BY <2>1, <2>3
  <2> HIDE DEF n, d
  <2>5. \E h \in [Docs -> Nat] : purge' = [purge EXCEPT !.left = purge.left \ {t}, !.hits = h]
    <3>1. PICK found \in BOOLEAN :
             purge' = [purge EXCEPT
                         !.left = @ \ {t},
                         !.hits = IF found /\ Candidates(t) # {}
                                  THEN [purge.hits EXCEPT ![d] = @ + n] ELSE purge.hits]
      BY <1>4 DEF PurgeQuery, n, d
    <3>2. PICK h : h = IF found /\ Candidates(t) # {}
                       THEN [purge.hits EXCEPT ![d] = @ + n] ELSE purge.hits
      OBVIOUS
    <3>3. purge' = [purge EXCEPT !.left = purge.left \ {t}, !.hits = h]
      BY <3>1, <3>2
    <3>4. h \in [Docs -> Nat]
      BY <2>2, <2>3, <2>4, <3>2
    <3> QED
      BY <3>3, <3>4
  <2> QED
    BY <1>1, <2>5 DEF PurgeRuns
<1>5. CASE PurgeJudge
  BY <1>1, <1>5 DEF PurgeJudge, PurgeRuns
<1>6. ASSUME NEW d \in Docs, PurgeDelete(d)
      PROVE  purge' \in PurgeRuns
  BY <1>1, <1>6 DEF PurgeDelete, PurgeRuns
<1>7. CASE PurgeEnd
  BY <1>2, <1>7 DEF PurgeEnd
<1>8. \/ UNCHANGED purge
      \/ PurgeStart \/ PurgeJudge \/ PurgeEnd
      \/ \E t \in Texts : PurgeQuery(t)
      \/ \E d \in Docs : PurgeDelete(d)
  BY PipelineLeaves, OthersLeave DEF PurgeStep
<1> QED
  BY <1>1, <1>3, <1>4, <1>5, <1>6, <1>7, <1>8

\* The collection holds the curated documents, and nothing is under way.
LEMMA TypeInvInit == Init => TypeInv
<1> SUFFICES ASSUME Init PROVE TypeInv
  OBVIOUS
<1>1. OnItsWay(Idle)
  BY MissingIsSound DEF Idle, OnItsWay, Pipelines
<1>2. /\ work \in [Workers -> Pipelines] /\ \A w \in Workers : OnItsWay(work[w])
      /\ learned \in [Texts -> Entries]
  BY <1>1, MissingIsSound DEF Init, OnItsWay
<1>3. rows \in Bags /\ purge \in PurgeRuns
  BY DEF Init, NoRows, NoPurge, Bags, PurgeRuns
<1>4. lessons \in 0..MaxLessons
  BY KnowledgeAssumption DEF Init
<1>5. /\ stock \subseteq Curated /\ broken \subseteq Commands /\ shared \subseteq Texts
      /\ truth \in [Texts -> [succ : Nat, fail : Nat]]
  BY DEF Init, Zero
<1> QED
  BY <1>2, <1>3, <1>4, <1>5 DEF TypeInv, TypeOK, PurgeRuns

\* The parts are put together.
LEMMA TypeInvStep ==
    ASSUME TypeInv, IInv, IInv', [Next]_vars
    PROVE  TypeInv'
<1>1. learned' \in [Texts -> Entries]
  BY DEF IInv, EntriesSound
<1>2. work' \in [Workers -> Pipelines] /\ \A w \in Workers : OnItsWay(work'[w])
  <2>1. work \in [Workers -> Pipelines] /\ \A w \in Workers : OnItsWay(work[w])
    BY DEF TypeInv, TypeOK
  <2>2. \/ UNCHANGED work
        \/ \E w \in Workers : WorkerStep(w)
    BY OthersLeave
  <2>3. \/ UNCHANGED work
        \/ \E w \in Workers : \E p : OnItsWay(p) /\ work' = [work EXCEPT ![w] = p]
    BY <2>2, StepsOfWork
  <2> QED
    BY <2>1, <2>3 DEF OnItsWay
<1> QED
  BY <1>1, <1>2, HistoryTypes, RowTypes, PurgeTypes DEF TypeInv, TypeOK, PurgeRuns, OnItsWay

\* Whatever the threads and the purger do: a stored entry has a command that worked at
\* least once, and what is read, counted and doomed is of the texts and documents.
THEOREM TypeCorrect == Spec => []TypeOK
<1>1. Init => IInv /\ TypeInv
  BY InitIInv, TypeInvInit
<1>2. IInv /\ TypeInv /\ [Next]_vars => (IInv /\ TypeInv)'
  BY NextKeeps, TypeInvStep
<1>3. TypeInv => TypeOK
  BY DEF TypeInv
<1> QED
  BY <1>1, <1>2, <1>3, PTL DEF Spec
=============================================================================
