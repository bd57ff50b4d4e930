------------------------- MODULE SurroundingsProofs --------------------------
(***************************************************************************)
(* Proofs about what the agent lives on and in: the sources of its knowledge*)
(* base, the clients of its databases, the fault injector, its installation*)
(* and its metrics.                                                        *)
(***************************************************************************)
EXTENDS Playbook, GithubCrawl, LoghubPipeline, L1Evidence, Connections, ChaosApp,
        Installation, Metrics, SequenceTheorems, FiniteSetTheorems,
        WellFoundedInduction, TLAPS

\* A nonempty set of numbers has a least one.
LEMMA LeastNumber ==
    ASSUME NEW T, T \subseteq Nat, T # {}
    PROVE  \E x \in T : \A y \in T : x <= y
<1> DEFINE R == OpToRel(<, Nat)
<1>1. PICK x \in T : \A y \in T : ~ (<<y, x>> \in R)
  <2>1. IsWellFoundedOn(R, Nat)
    BY NatLessThanWellFounded
  <2> HIDE DEF R
  <2> QED
    BY <2>1, WFMin
<1>2. \A y \in T : <<y, x>> \in Nat \X Nat
  BY <1>1
<1>3. \A y \in T : ~ (y < x)
  BY <1>1, <1>2 DEF OpToRel
<1>4. \A y \in T : x <= y
  <2> SUFFICES ASSUME NEW y \in T PROVE x <= y
    OBVIOUS
  <2>1. x \in Nat /\ y \in Nat /\ ~ (y < x)
    BY <1>1, <1>3
  <2> QED
    BY <2>1
<1> QED
  BY <1>1, <1>4

-----------------------------------------------------------------------------
(* Playbook                                                                *)

\* The entry that a script upserts for a text, and those of others.
ScriptEntry(s, t) == [id |-> EntryId(s, t), text |-> t, source |-> Label(s)]
OfNoScript(e) == e.id[1] \in {"row", "md5"} /\ e.source = "none" /\ e.text \in Texts
OfScript(e) == \E s \in Sources, t \in Texts : e = ScriptEntry(s, t)

\* What is loaded is somewhere, and what a script owns has its entry; what a
\* synchronisation is about to write belongs to no script, and what a script is about
\* to remove belongs to no other.
PlayInv ==
    /\ \A r \in pg : r.text \in Texts
    /\ backup \in Bags \cup {Absent, Torn}
    /\ train \in Bags \cup {Absent, Torn}
    /\ load \in [at : {"idle", "pg", "backup"}, data : Bags]
    /\ loaded \subseteq PgTexts \cup TextsOf(backup)
    /\ \A r \in sync.rows : OfNoScript(r)
    /\ \A e \in vectors : OfNoScript(e) \/ OfScript(e)
    /\ work \in [Sources -> [texts : SUBSET Texts, ids : SUBSET (Sources \X Texts)]]
    /\ \A s \in Sources : \A id \in work[s].ids : id[1] = s
    /\ owned \subseteq Sources \X Texts
    /\ \A s \in Sources, t \in Texts : <<s, t>> \in owned => ScriptEntry(s, t) \in vectors

\* Empty tables, no files, nobody at work.
LEMMA PlayInvInit == PlayInit => PlayInv
<1> SUFFICES ASSUME PlayInit PROVE PlayInv
  OBVIOUS
<1>1. /\ work \in [Sources -> [texts : SUBSET Texts, ids : SUBSET (Sources \X Texts)]]
      /\ \A s \in Sources : work[s].ids = {}
  BY DEF PlayInit, NoWork
<1>2. load = [at |-> "idle", data |-> NoTexts] /\ NoTexts \in Bags /\ sync.rows = {}
  BY DEF PlayInit, NotLoading, NotSyncing, NoTexts, Bags
<1>3. pg = {} /\ backup = Absent /\ train = Absent /\ vectors = {} /\ loaded = {} /\ owned = {}
  BY DEF PlayInit
<1> QED
  BY <1>1, <1>2, <1>3 DEF PlayInv

\* The texts of a file that holds a bag.
LEMMA TextsOfBag ==
    ASSUME NEW b \in Bags
    PROVE  TextsOf(b) = {t \in Texts : b[t] > 0}
BY PlaybookAssumption DEF TextsOf

\* What load_data_to_pg leaves in the table.
LEMMA PgCommitsKeeps ==
    ASSUME PlayInv, PgCommits
    PROVE  PlayInv'
<1>1. PICK rows \in SUBSET NewRows : Inserted(rows)
  BY DEF PgCommits
<1>2. /\ load' = NotLoading /\ loaded' = loaded \cup Collected
      /\ UNCHANGED <<backup, train, vectors, sync, work, owned>>
  BY DEF PgCommits, Loaded, files
<1>3. pg' = pg \cup rows /\ {r.text : r \in rows} = Collected \ PgTexts
  BY <1>1 DEF Inserted
<1>4. PgTexts' = PgTexts \cup Collected
  BY <1>3 DEF PgTexts
<1>5. \A r \in pg' : r.text \in Texts
  BY <1>3 DEF PlayInv, Collected
<1>6. load' \in [at : {"idle", "pg", "backup"}, data : Bags]
  BY <1>2 DEF NotLoading, NoTexts, Bags
<1>7. loaded' \subseteq PgTexts' \cup TextsOf(backup')
  BY <1>2, <1>4 DEF PlayInv
<1> QED
  BY <1>2, <1>5, <1>6, <1>7 DEF PlayInv

\* What it leaves in the backup: what was there, and what it collected.
LEMMA WriteBackupKeeps ==
    ASSUME PlayInv, WriteBackup
    PROVE  PlayInv'
<1> DEFINE old == IF backup \in {Absent, Torn} THEN NoTexts ELSE backup
<1>1. /\ backup' = Merged(old, load.data)
      /\ load' = NotLoading /\ loaded' = loaded \cup Collected
      /\ UNCHANGED <<pg, train, vectors, sync, work, owned>>
  BY DEF WriteBackup, Loaded, tables
<1>2. old \in Bags /\ load.data \in Bags
  BY DEF PlayInv, NoTexts, Bags
<1>3. TextsOf(backup) \subseteq {t \in Texts : old[t] > 0}
  BY DEF TextsOf
<1> HIDE DEF old
<1>4. backup' \in Bags
  BY <1>1, <1>2 DEF Merged, Bags
<1>5. {t \in Texts : old[t] > 0} \cup Collected \subseteq {t \in Texts : backup'[t] > 0}
  BY <1>1 DEF Merged, Collected
<1>6. loaded' \subseteq PgTexts' \cup TextsOf(backup')
  <2>1. PgTexts' = PgTexts
    BY <1>1 DEF PgTexts
  <2>2. TextsOf(backup') = {t \in Texts : backup'[t] > 0}
    BY <1>4, TextsOfBag
  <2>3. Collected \subseteq Texts
    BY DEF Collected
  <2> QED
    BY <1>1, <1>3, <1>5, <2>1, <2>2, <2>3 DEF PlayInv
<1>7. load' \in [at : {"idle", "pg", "backup"}, data : Bags]
  BY <1>1 DEF NotLoading, NoTexts, Bags
<1> QED
  BY <1>1, <1>4, <1>6, <1>7 DEF PlayInv

\* The other steps of the load, of the table and of the files.
LEMMA LoadStepKeeps ==
    ASSUME PlayInv,
           \/ \E bag \in Bags : Crawl(bag)
           \/ PgFails \/ WriteBackupDies \/ ResetDb \/ Split
    PROVE  PlayInv'
<1>1. load \in [at : {"idle", "pg", "backup"}, data : Bags]
  BY DEF PlayInv
<1>2. ASSUME NEW bag \in Bags, Crawl(bag) PROVE PlayInv'
  <2>1. /\ load' = [at |-> "pg", data |-> bag]
        /\ UNCHANGED <<pg, serial, backup, train, vectors, sync, work, loaded, owned>>
    BY <1>2 DEF Crawl, tables, files
  <2>2. PgTexts' = PgTexts /\ TextsOf(backup') = TextsOf(backup)
    BY <2>1 DEF PgTexts
  <2> QED
    BY <2>1, <2>2 DEF PlayInv
<1>3. CASE PgFails
  <2>1. /\ load' = [load EXCEPT !.at = "backup"]
        /\ UNCHANGED <<pg, backup, train, vectors, sync, work, loaded, owned>>
    BY <1>3 DEF PgFails, files
  <2>2. PgTexts' = PgTexts /\ TextsOf(backup') = TextsOf(backup)
    BY <2>1 DEF PgTexts
  <2> QED
    BY <1>1, <2>1, <2>2 DEF PlayInv
<1>4. CASE WriteBackupDies
  <2>1. /\ backup' = Torn /\ load' = NotLoading /\ loaded' = loaded \cap PgTexts
        /\ UNCHANGED <<pg, train, vectors, sync, work, owned>>
    BY <1>4 DEF WriteBackupDies, tables
  <2>2. PgTexts' = PgTexts
    BY <2>1 DEF PgTexts
  <2>3. load' \in [at : {"idle", "pg", "backup"}, data : Bags]
    BY <2>1 DEF NotLoading, NoTexts, Bags
  <2> QED
    BY <2>1, <2>2, <2>3 DEF PlayInv
<1>5. CASE ResetDb
  <2>1. /\ pg' = {} /\ loaded' = loaded \cap TextsOf(backup)
        /\ UNCHANGED <<backup, train, vectors, load, sync, work, owned>>
    BY <1>5 DEF ResetDb, files
  <2> QED
    BY <2>1 DEF PlayInv
<1>6. CASE Split
  <2>1. /\ train' \in Bags \cup {Torn}
        /\ UNCHANGED <<pg, backup, vectors, load, sync, work, loaded, owned>>
    BY <1>6 DEF Split, tables
  <2>2. PgTexts' = PgTexts /\ TextsOf(backup') = TextsOf(backup)
    BY <2>1 DEF PgTexts
  <2> QED
    BY <2>1, <2>2 DEF PlayInv
<1> QED
  BY <1>2, <1>3, <1>4, <1>5, <1>6

\* The entries of the scripts are told from all others by their ids.
LEMMA ScriptEntryIs ==
    ASSUME NEW s \in Sources, NEW t
    PROVE  /\ ScriptEntry(s, t).id = <<s, t>> /\ ScriptEntry(s, t).id[1] = s
           /\ ScriptEntry(s, t).text = t /\ ScriptEntry(s, t).source = Label(s)
           /\ s \notin {"row", "md5", "none"}
BY PlaybookAssumption DEF ScriptEntry, EntryId

\* The steps of a synchronisation.
LEMMA SyncStepKeeps ==
    ASSUME PlayInv, SyncPg \/ SyncFile \/ SyncUpserts \/ SyncFails
    PROVE  PlayInv'
<1>0. SyncPg \/ SyncFile \/ SyncUpserts \/ SyncFails =>
         UNCHANGED <<pg, backup, train, load, work, loaded, owned>>
  BY DEF SyncPg, SyncFile, SyncUpserts, SyncFails, tables, files
<1>1. /\ UNCHANGED <<pg, backup, train, load, work, loaded, owned>>
      /\ PgTexts' = PgTexts /\ TextsOf(backup') = TextsOf(backup)
  BY <1>0 DEF PgTexts
<1>2. CASE SyncPg
  <2>1. /\ vectors' = vectors
        /\ sync'.rows = {[id |-> <<"row", r.id>>, text |-> r.text, source |-> "none"] : r \in pg}
    BY <1>2 DEF SyncPg
  <2>2. \A r \in sync'.rows : OfNoScript(r)
    BY <2>1 DEF PlayInv, OfNoScript
  <2> QED
    BY <1>1, <2>1, <2>2 DEF PlayInv
<1>3. CASE SyncFile
  <2> DEFINE held == TextsOf(IF train # Absent THEN train ELSE backup)
  <2>1. /\ vectors' = vectors
        /\ sync'.rows = {[id |-> <<"md5", t>>, text |-> t, source |-> "none"] : t \in held}
    BY <1>3 DEF SyncFile
  <2>2. held \subseteq Texts
    BY DEF TextsOf
  <2> HIDE DEF held
  <2>3. \A r \in sync'.rows : OfNoScript(r)
    BY <2>1, <2>2 DEF OfNoScript
  <2> QED
    BY <1>1, <2>1, <2>3 DEF PlayInv
<1>4. CASE SyncUpserts
  <2>1. vectors' = Upserted(sync.rows) /\ sync'.rows = {}
    BY <1>4 DEF SyncUpserts, NotSyncing
  <2>2. \A e \in vectors' : OfNoScript(e) \/ OfScript(e)
    BY <2>1 DEF PlayInv, Upserted
  <2>3. ASSUME NEW s \in Sources, NEW t \in Texts, <<s, t>> \in owned
        PROVE  ScriptEntry(s, t) \in vectors'
    <3>1. ScriptEntry(s, t) \in vectors
      BY <2>3 DEF PlayInv
    <3>2. \A r \in sync.rows : r.id[1] \in {"row", "md5"}
      BY DEF PlayInv, OfNoScript
    <3>3. \A r \in sync.rows : r.id # ScriptEntry(s, t).id
      BY <3>2, ScriptEntryIs
    <3> QED
      BY <2>1, <3>1, <3>3 DEF Upserted
  <2> QED
    BY <1>1, <2>1, <2>2, <2>3 DEF PlayInv
<1>5. CASE SyncFails
  <2>1. vectors' = vectors /\ sync'.rows = {}
    BY <1>5 DEF SyncFails, NotSyncing
  <2> QED
    BY <1>1, <2>1 DEF PlayInv
<1> QED
  BY <1>2, <1>3, <1>4, <1>5

\* An upsert of a script: its own entries are replaced, the others stay.
LEMMA UpsertOwnKeeps ==
    ASSUME PlayInv, NEW s \in Sources, NEW texts, texts \subseteq work[s].texts,
           UpsertOwn(s, texts)
    PROVE  PlayInv'
<1> DEFINE rows == {ScriptEntry(s, t) : t \in texts}
<1>1. /\ UNCHANGED <<pg, backup, train, load, sync, loaded>>
      /\ PgTexts' = PgTexts /\ TextsOf(backup') = TextsOf(backup)
  BY DEF UpsertOwn, tables, files, PgTexts
<1>2. /\ vectors' = Upserted(rows)
      /\ owned' = owned \cup {<<s, t>> : t \in texts}
      /\ work' = [work EXCEPT ![s].texts = @ \ texts]
  BY DEF UpsertOwn, ScriptEntry
<1>3. work[s].texts \subseteq Texts
  BY DEF PlayInv
<1>4. texts \subseteq Texts
  BY <1>3
<1>5. /\ work' \in [Sources -> [texts : SUBSET Texts, ids : SUBSET (Sources \X Texts)]]
      /\ \A q \in Sources : work'[q].ids = work[q].ids
  BY <1>2, <1>3 DEF PlayInv
<1>6. \A e \in vectors' : OfNoScript(e) \/ OfScript(e)
  <2>1. \A e \in rows : OfScript(e)
    BY <1>4 DEF OfScript
  <2> HIDE DEF rows
  <2> QED
    BY <1>2, <2>1 DEF PlayInv, Upserted
<1>7. owned' \subseteq Sources \X Texts
  BY <1>2, <1>4 DEF PlayInv
<1>8. ASSUME NEW q \in Sources, NEW t \in Texts, <<q, t>> \in owned'
      PROVE  ScriptEntry(q, t) \in vectors'
  <2>1. CASE q = s /\ t \in texts
    BY <1>2, <2>1 DEF Upserted
  <2>2. CASE ~(q = s /\ t \in texts)
    <3>1. <<q, t>> \in owned
      BY <1>2, <1>8, <2>2
    <3>2. ScriptEntry(q, t) \in vectors
      BY <3>1 DEF PlayInv
    <3>3. \A r \in rows : r.id # ScriptEntry(q, t).id
      <4> SUFFICES ASSUME NEW u \in texts PROVE ScriptEntry(s, u).id # ScriptEntry(q, t).id
        OBVIOUS
      <4>1. ScriptEntry(s, u).id = <<s, u>> /\ ScriptEntry(q, t).id = <<q, t>>
        BY ScriptEntryIs
      <4> QED
        BY <2>2, <4>1
    <3> QED
      BY <1>2, <3>2, <3>3 DEF Upserted
  <2> QED
    BY <2>1, <2>2
<1>9. \A q \in Sources : \A id \in work'[q].ids : id[1] = q
  BY <1>5 DEF PlayInv
<1> QED
  BY <1>1, <1>5, <1>6, <1>7, <1>8, <1>9 DEF PlayInv

\* What a script finds as its own is its own.
LEMMA OwnIs ==
    ASSUME PlayInv, NEW s \in Sources, NEW e \in Own(s)
    PROVE  e.id[1] = s /\ e.id \in Sources \X Texts
<1>1. e \in vectors /\ (OfNoScript(e) \/ OfScript(e))
  BY DEF Own, PlayInv
<1>2. s \notin {"row", "md5", "none"}
  BY ScriptEntryIs
<1>3. CASE OfNoScript(e)
  BY <1>2, <1>3 DEF Own, OfNoScript
<1>4. CASE OfScript(e)
  <2>1. PICK q \in Sources, t \in Texts : e = ScriptEntry(q, t)
    BY <1>4 DEF OfScript
  <2>2. e.id = <<q, t>> /\ e.id[1] = q /\ e.source = Label(q)
    BY <2>1, ScriptEntryIs
  <2>3. q = s
    <3>1. CASE s \in Unlabelled
      BY <2>2, <3>1 DEF Own
    <3>2. CASE s \notin Unlabelled
      <4>1. e.source = s
        BY <3>2 DEF Own
      <4> QED
        BY <1>2, <2>2, <4>1 DEF Label
    <3> QED
      BY <3>1, <3>2
  <2> QED
    BY <2>2, <2>3
<1> QED
  BY <1>1, <1>3, <1>4

\* The removal of what a script owns leaves what the others own.
LEMMA RemoveDeletesKeeps ==
    ASSUME PlayInv, NEW s \in Sources, RemoveDeletes(s)
    PROVE  PlayInv'
<1>1. /\ UNCHANGED <<pg, backup, train, load, sync, loaded>>
      /\ PgTexts' = PgTexts /\ TextsOf(backup') = TextsOf(backup)
  BY DEF RemoveDeletes, tables, files, PgTexts
<1>2. /\ vectors' = {e \in vectors : e.id \notin work[s].ids}
      /\ owned' = {o \in owned : o[1] # s}
      /\ work' = [work EXCEPT ![s] = NoWork]
  BY DEF RemoveDeletes
<1>3. NoWork = [texts |-> {}, ids |-> {}]
  BY DEF NoWork
<1>4. /\ work' \in [Sources -> [texts : SUBSET Texts, ids : SUBSET (Sources \X Texts)]]
      /\ \A q \in Sources : work'[q].ids \subseteq work[q].ids
  BY <1>2, <1>3 DEF PlayInv
<1>5. ASSUME NEW q \in Sources, NEW t \in Texts, <<q, t>> \in owned'
      PROVE  ScriptEntry(q, t) \in vectors'
  <2>1. <<q, t>> \in owned /\ q # s
    BY <1>2, <1>5
  <2>2. ScriptEntry(q, t) \in vectors
    BY <2>1 DEF PlayInv
  <2>3. ScriptEntry(q, t).id[1] = q
    BY ScriptEntryIs
  <2>4. ScriptEntry(q, t).id \notin work[s].ids
    BY <2>1, <2>3 DEF PlayInv
  <2> QED
    BY <1>2, <2>2, <2>4
<1>6. \A q \in Sources : \A id \in work'[q].ids : id[1] = q
  BY <1>4 DEF PlayInv
<1> QED
  BY <1>1, <1>2, <1>4, <1>5, <1>6 DEF PlayInv

\* The other steps of a script.
LEMMA ScriptStepKeeps ==
    ASSUME PlayInv, NEW s \in Sources,
           \/ \E texts \in SUBSET Texts : ScriptStarts(s, texts)
           \/ ScriptDies(s) \/ RemoveReads(s)
    PROVE  PlayInv'
<1>1. /\ UNCHANGED <<pg, backup, train, vectors, load, sync, loaded, owned>>
      /\ PgTexts' = PgTexts /\ TextsOf(backup') = TextsOf(backup)
  BY DEF ScriptStarts, ScriptDies, RemoveReads, tables, files, PgTexts
<1>2. work \in [Sources -> [texts : SUBSET Texts, ids : SUBSET (Sources \X Texts)]]
      /\ \A q \in Sources : \A id \in work[q].ids : id[1] = q
  BY DEF PlayInv
<1>3. ASSUME NEW texts \in SUBSET Texts, ScriptStarts(s, texts)
      PROVE  /\ work' \in [Sources -> [texts : SUBSET Texts, ids : SUBSET (Sources \X Texts)]]
             /\ \A q \in Sources : work'[q].ids = work[q].ids
  BY <1>2, <1>3 DEF ScriptStarts
<1>4. ASSUME ScriptDies(s)
      PROVE  /\ work' \in [Sources -> [texts : SUBSET Texts, ids : SUBSET (Sources \X Texts)]]
             /\ \A q \in Sources : work'[q].ids \subseteq work[q].ids
  BY <1>2, <1>4 DEF ScriptDies, NoWork
<1>5. ASSUME RemoveReads(s)
      PROVE  /\ work' \in [Sources -> [texts : SUBSET Texts, ids : SUBSET (Sources \X Texts)]]
             /\ \A q \in Sources : \A id \in work'[q].ids : id[1] = q
  <2> DEFINE found == {e.id : e \in Own(s)}
  <2>1. work' = [work EXCEPT ![s].ids = found]
    BY <1>5 DEF RemoveReads
  <2>2. found \subseteq Sources \X Texts /\ \A id \in found : id[1] = s
    BY OwnIs
  <2> HIDE DEF found
  <2>3. /\ work' \in [Sources -> [texts : SUBSET Texts, ids : SUBSET (Sources \X Texts)]]
        /\ work'[s].ids = found
        /\ \A q \in Sources : q # s => work'[q] = work[q]
    BY <1>2, <2>1, <2>2
  <2> QED
    BY <1>2, <2>2, <2>3
<1>6. /\ work' \in [Sources -> [texts : SUBSET Texts, ids : SUBSET (Sources \X Texts)]]
      /\ \A q \in Sources : \A id \in work'[q].ids : id[1] = q
  BY <1>2, <1>3, <1>4, <1>5
<1> QED
  BY <1>1, <1>6 DEF PlayInv

\* Every step of the loads, the synchronisations and the scripts.
LEMMA PlayInvStep == PlayInv /\ PlayNext => PlayInv'
<1> SUFFICES ASSUME PlayInv, PlayNext PROVE PlayInv'
  OBVIOUS
<1>1. ASSUME NEW s \in Sources, NEW texts \in SUBSET Texts, UpsertBatch(s, texts)
      PROVE  PlayInv'
  BY <1>1, UpsertOwnKeeps DEF UpsertBatch
<1>2. ASSUME NEW s \in Sources, UpsertAll(s) PROVE PlayInv'
  BY <1>2, UpsertOwnKeeps DEF UpsertAll
<1> QED
  BY <1>1, <1>2, PgCommitsKeeps, WriteBackupKeeps, LoadStepKeeps, SyncStepKeeps,
     RemoveDeletesKeeps, ScriptStepKeeps DEF PlayNext

\* Nothing happens to the playbook.
LEMMA PlayInvStutter == PlayInv /\ UNCHANGED playVars => PlayInv'
BY DEF PlayInv, playVars, PgTexts

\* What the invariant is for.
LEMMA PlayInvGivesProperty == PlayInv => LoadedIsKept
<1> SUFFICES ASSUME PlayInv PROVE LoadedIsKept
  OBVIOUS
<1>1. ASSUME NEW s \in Sources, NEW t \in Texts, <<s, t>> \in owned
      PROVE  \E e \in Own(s) : e.text = t
  <2>1. ScriptEntry(s, t) \in vectors
    BY <1>1 DEF PlayInv
  <2>2. ScriptEntry(s, t) \in Own(s)
    BY <2>1, ScriptEntryIs DEF Own, Label
  <2>3. ScriptEntry(s, t).text = t
    BY ScriptEntryIs
  <2> QED
    BY <2>2, <2>3
<1> QED
  BY <1>1 DEF PlayInv, LoadedIsKept

\* What the invariant does not say of the types: a number is drawn for each row that
\* is put in, also for those that are left out.
PlayTypes ==
    /\ serial \in Nat
    /\ \A r \in pg : r.id \in 1..serial
    /\ sync.at \in {"idle", "upsert"}
    /\ jobs \in 0..MaxJobs

\* No row has been put in.
LEMMA PlayTypesInit == PlayInit => PlayTypes
<1> SUFFICES ASSUME PlayInit PROVE PlayTypes
  OBVIOUS
<1>1. jobs \in 0..MaxJobs
  BY PlaybookAssumption DEF PlayInit
<1> QED
  BY <1>1 DEF PlayInit, PlayTypes, NotSyncing

\* As many numbers are drawn as there are rows in the files.
LEMMA LastNumberIs ==
    ASSUME PlayInv, PlayTypes
    PROVE  LastNumber \in Nat /\ serial <= LastNumber
<1> DEFINE drawn == UNION {{t} \X (1..load.data[t]) : t \in Texts}
<1>1. load.data \in Bags
  BY DEF PlayInv
<1>2. drawn \subseteq Texts \X (1..2)
  <2> SUFFICES ASSUME NEW t \in Texts, NEW d \in {t} \X (1..load.data[t])
               PROVE  d \in Texts \X (1..2)
    OBVIOUS
  <2>1. load.data[t] \in 0..2
    BY <1>1 DEF Bags
  <2>2. 1..load.data[t] \subseteq 1..2
    BY <2>1
  <2> QED
    BY <2>2
<1>3. IsFiniteSet(Texts \X (1..2))
  <2>1. IsFiniteSet(1..2)
    <3>1. 1 \in Int /\ 2 \in Int
      OBVIOUS
    <3> QED
      BY <3>1, FS_Interval
  <2> QED
    BY <2>1, FS_Product, PlaybookAssumption
<1>4. Cardinality(drawn) \in Nat
  <2> HIDE DEF drawn
  <2> QED
    BY <1>2, <1>3, FS_Subset, FS_CardinalityType
<1>5. LastNumber = serial + Cardinality(drawn)
  BY DEF LastNumber
<1> HIDE DEF drawn
<1> QED
  BY <1>4, <1>5 DEF PlayTypes

\* Numbers are drawn upwards, so that they stay numbers of rows.
LEMMA PlayTypesStep == PlayInv /\ PlayTypes /\ PlayNext => PlayTypes'
<1> SUFFICES ASSUME PlayInv, PlayTypes, PlayNext PROVE PlayTypes'
  OBVIOUS
<1>0. serial \in Nat /\ LastNumber \in Nat /\ serial <= LastNumber /\ MaxJobs \in Nat
  BY LastNumberIs, PlaybookAssumption DEF PlayTypes
<1>1. ASSUME serial' \in {serial, LastNumber}, pg' = pg, sync'.at \in {"idle", "upsert"},
             jobs' = jobs \/ (jobs < MaxJobs /\ jobs' = jobs + 1)
      PROVE  PlayTypes'
  <2>1. \A r \in pg : r.id \in 1..serial
    BY DEF PlayTypes
  <2>2. \A r \in pg' : r.id \in 1..serial'
    BY <1>0, <1>1, <2>1
  <2>3. jobs' \in 0..MaxJobs
    BY <1>0, <1>1 DEF PlayTypes
  <2> QED
    BY <1>0, <1>1, <2>2, <2>3 DEF PlayTypes
<1>2. ASSUME PgFails \/ WriteBackup \/ WriteBackupDies \/ Split
      PROVE  PlayTypes'
  BY <1>1, <1>2 DEF PlayTypes, PgFails, WriteBackup, WriteBackupDies, Split, Start, tables
<1>3. CASE PgCommits
  <2>1. PICK new \in SUBSET NewRows : pg' = pg \cup new
    BY <1>3 DEF PgCommits, Inserted
  <2>2. \A r \in new : r.id \in (serial + 1)..LastNumber
    BY DEF NewRows
  <2>3. serial' = LastNumber /\ UNCHANGED <<sync, jobs>>
    BY <1>3 DEF PgCommits
  <2>4. \A r \in pg : r.id \in 1..serial
    BY DEF PlayTypes
  <2>5. \A r \in pg' : r.id \in 1..serial'
    <3>1. 1..serial \subseteq 1..LastNumber /\ (serial + 1)..LastNumber \subseteq 1..LastNumber
      BY <1>0
    <3> QED
      BY <2>1, <2>2, <2>3, <2>4, <3>1
  <2> QED
    BY <1>0, <2>3, <2>5 DEF PlayTypes
<1>4. CASE ResetDb
  <2>1. pg' = {} /\ serial' = 0 /\ sync' = sync /\ jobs' \in 0..MaxJobs
    BY <1>0, <1>4 DEF ResetDb, Start, PlayTypes
  <2> QED
    BY <2>1 DEF PlayTypes
<1>5. CASE SyncPg \/ SyncFile \/ SyncUpserts \/ SyncFails
  <2>1. sync'.at \in {"idle", "upsert"} /\ UNCHANGED tables
    BY <1>5 DEF SyncPg, SyncFile, SyncUpserts, SyncFails, NotSyncing
  <2>2. Start \/ jobs' = jobs
    BY <1>5 DEF SyncPg, SyncFile, SyncUpserts, SyncFails
  <2> QED
    BY <1>1, <2>1, <2>2 DEF Start, tables
<1>6. ASSUME NEW s \in Sources, NEW texts \in SUBSET Texts,
             \/ ScriptStarts(s, texts) \/ UpsertBatch(s, texts) \/ UpsertAll(s)
             \/ ScriptDies(s) \/ RemoveReads(s) \/ RemoveDeletes(s)
      PROVE  PlayTypes'
  <2>1. UNCHANGED <<tables, sync>>
    BY <1>6 DEF ScriptStarts, UpsertBatch, UpsertAll, UpsertOwn, ScriptDies, RemoveReads, RemoveDeletes
  <2>2. Start \/ jobs' = jobs
    BY <1>6 DEF ScriptStarts, UpsertBatch, UpsertAll, UpsertOwn, ScriptDies, RemoveReads, RemoveDeletes
  <2> QED
    BY <1>1, <2>1, <2>2 DEF Start, tables, PlayTypes
<1>7. ASSUME NEW bag \in Bags, Crawl(bag) PROVE PlayTypes'
  BY <1>1, <1>7 DEF PlayTypes, Crawl, Start, tables
<1> QED
  BY <1>2, <1>3, <1>4, <1>5, <1>6, <1>7 DEF PlayNext

\* A step of another component changes none of it.
LEMMA PlayTypesStutter == PlayTypes /\ UNCHANGED playVars => PlayTypes'
BY DEF PlayTypes, playVars

\* The rest of the types is in the invariant.
LEMMA PlayIsTyped == PlayInv /\ PlayTypes => PlayTypeOK
<1> SUFFICES ASSUME PlayInv, PlayTypes PROVE PlayTypeOK
  OBVIOUS
<1>1. \A e \in vectors : e.text \in Texts /\ e.source \in Sources \cup {"none"}
  <2> SUFFICES ASSUME NEW e \in vectors
               PROVE  e.text \in Texts /\ e.source \in Sources \cup {"none"}
    OBVIOUS
  <2>1. CASE OfNoScript(e)
    BY <2>1 DEF OfNoScript
  <2>2. CASE OfScript(e)
    BY <2>2 DEF OfScript, ScriptEntry, Label
  <2> QED
    BY <2>1, <2>2 DEF PlayInv
<1>2. loaded \subseteq Texts
  <2>1. PgTexts \subseteq Texts
    BY DEF PgTexts, PlayInv
  <2>2. TextsOf(backup) \subseteq Texts
    BY DEF TextsOf
  <2> QED
    BY <2>1, <2>2 DEF PlayInv
<1>3. \A s \in Sources : work[s].texts \subseteq Texts
  BY DEF PlayInv
<1>4. {backup, train} \subseteq Bags \cup {Absent, Torn}
  BY DEF PlayInv
<1>5. \A r \in pg : r.id \in 1..serial /\ r.text \in Texts
  BY DEF PlayInv, PlayTypes
<1>6. load \in [at : {"idle", "pg", "backup"}, data : Bags] /\ owned \subseteq Sources \X Texts
  BY DEF PlayInv
<1> QED
  BY <1>1, <1>2, <1>3, <1>4, <1>5, <1>6 DEF PlayTypes, PlayTypeOK

-----------------------------------------------------------------------------
(* GithubCrawl                                                             *)

\* The texts met in a query are under it among what is gathered, and an issue that
\* had a text has one there.
CrawlInv ==
    /\ CrawlTypeOK
    /\ client \in {"crawler", "script"}
    /\ token \in BOOLEAN
    /\ client = "script" => crawl.at # "raised"
    /\ ~token => ~crawl.auth
    /\ crawl.at = "issues" => \A t \in seen : <<crawl.query, t>> \in gathered
    /\ crawl.at # "raised" =>
          \A o \in issueTexts : o[2] = {} \/ \E t \in o[2] : <<o[1], t>> \in gathered

\* The first request of the first query.
LEMMA CrawlInvInit == CrawlInit => CrawlInv
<1> SUFFICES ASSUME CrawlInit PROVE CrawlInv
  OBVIOUS
<1>1. 1 \in 1..MaxQueries /\ 1 \in 1..MAX_ATTEMPTS /\ 0 \in 0..MaxIssues
  BY GithubCrawlAssumption
<1>2. crawl = [at |-> "asking", query |-> 1, attempt |-> 1, auth |-> token] /\ token \in BOOLEAN
  BY DEF CrawlInit, Asking
<1>3. crawl \in [at : {"asking", "issues", "returned", "raised"}, query : 1..MaxQueries,
                 attempt : 1..MAX_ATTEMPTS, auth : BOOLEAN]
  BY <1>1, <1>2
<1>4. CrawlTypeOK
  BY <1>1, <1>3 DEF CrawlInit, CrawlTypeOK
<1> QED
  BY <1>2, <1>4 DEF CrawlInit, CrawlInv

\* What every step finds.
LEMMA CrawlIs ==
    ASSUME CrawlInv
    PROVE  /\ crawl.at \in {"asking", "issues", "returned", "raised"}
           /\ crawl.query \in 1..MaxQueries /\ crawl.attempt \in 1..MAX_ATTEMPTS
           /\ crawl.auth \in BOOLEAN /\ token \in BOOLEAN
           /\ MaxQueries \in Nat \ {0} /\ MAX_ATTEMPTS \in Nat \ {0} /\ MaxIssues \in Nat
BY GithubCrawlAssumption DEF CrawlInv, CrawlTypeOK

\* The next query, or the end of the list.
LEMMA NextQueryKeeps ==
    ASSUME CrawlInv, NextQuery, seen' = seen, crawl.at \in {"asking", "issues"}
    PROVE  CrawlInv'
<1>1. /\ UNCHANGED <<client, token, gathered, issueTexts, seen>> /\ issues' = 0
      /\ crawl' = IF crawl.query = MaxQueries THEN [crawl EXCEPT !.at = "returned"]
                  ELSE Asking(crawl.query + 1)
  BY DEF NextQuery
<1>2. crawl' \in [at : {"returned", "asking"}, query : 1..MaxQueries,
                  attempt : 1..MAX_ATTEMPTS, auth : BOOLEAN]
      /\ (~token => ~crawl'.auth)
  <2>1. CASE crawl.query = MaxQueries
    <3>1. crawl' = [crawl EXCEPT !.at = "returned"]
      BY <1>1, <2>1
    <3>2. crawl \in [at : {"asking", "issues", "returned", "raised"}, query : 1..MaxQueries,
                     attempt : 1..MAX_ATTEMPTS, auth : BOOLEAN]
      BY DEF CrawlInv, CrawlTypeOK
    <3>3. crawl'.auth = crawl.auth
      BY <3>1, <3>2
    <3>4. crawl' \in [at : {"returned", "asking"}, query : 1..MaxQueries,
                      attempt : 1..MAX_ATTEMPTS, auth : BOOLEAN]
      BY <3>1, <3>2
    <3> QED
      BY <3>3, <3>4 DEF CrawlInv
  <2>2. CASE crawl.query # MaxQueries
    <3>1. crawl' = [at |-> "asking", query |-> crawl.query + 1, attempt |-> 1, auth |-> token]
      BY <1>1, <2>2 DEF Asking
    <3>2. crawl.query + 1 \in 1..MaxQueries /\ 1 \in 1..MAX_ATTEMPTS /\ token \in BOOLEAN
      BY <2>2, CrawlIs
    <3> QED
      BY <3>1, <3>2
  <2> QED
    BY <2>1, <2>2
<1>3. 0 \in 0..MaxIssues
  BY CrawlIs
<1>4. crawl'.at \in {"returned", "asking"}
  BY <1>2
<1>5. CrawlTypeOK'
  BY <1>1, <1>2, <1>3 DEF CrawlInv, CrawlTypeOK
<1> QED
  BY <1>1, <1>2, <1>4, <1>5 DEF CrawlInv

\* Another attempt, or the next query.
LEMMA TryAgainKeeps ==
    ASSUME CrawlInv, NEW auth \in BOOLEAN, TryAgain(auth), crawl.at = "asking",
           auth => crawl.auth
    PROVE  CrawlInv'
<1>1. CASE crawl.attempt = MAX_ATTEMPTS /\ GiveUp
  BY <1>1, NextQueryKeeps DEF GiveUp
<1>2. CASE /\ crawl.attempt < MAX_ATTEMPTS
           /\ crawl' = [crawl EXCEPT !.attempt = @ + 1, !.auth = auth]
           /\ UNCHANGED <<client, token, seen, issues, gathered, issueTexts>>
  <2>1. crawl.attempt + 1 \in 1..MAX_ATTEMPTS
    BY <1>2, CrawlIs
  <2>2. crawl \in [at : {"asking", "issues", "returned", "raised"}, query : 1..MaxQueries,
                   attempt : 1..MAX_ATTEMPTS, auth : BOOLEAN]
    BY DEF CrawlInv, CrawlTypeOK
  <2>3. /\ crawl' \in [at : {"asking", "issues", "returned", "raised"}, query : 1..MaxQueries,
                       attempt : 1..MAX_ATTEMPTS, auth : BOOLEAN]
        /\ crawl'.at = crawl.at /\ crawl'.query = crawl.query /\ crawl'.auth = auth
    BY <1>2, <2>1, <2>2
  <2>4. CrawlTypeOK'
    BY <1>2, <2>3 DEF CrawlInv, CrawlTypeOK
  <2> QED
    BY <1>2, <2>3, <2>4 DEF CrawlInv
<1> QED
  BY <1>1, <1>2 DEF TryAgain

\* An issue that had a text has one in what is gathered: a new one, or one that was
\* met before in this query.
LEMMA TakeIssueKeeps ==
    ASSUME CrawlInv, NEW body \in Extracts, NEW title \in Extracts, TakeIssue(body, title)
    PROVE  CrawlInv'
<1> DEFINE q == crawl.query
           u == Usable(body, title)
           texts == ({body} \cup IF client = "script" THEN {title} ELSE {}) \ {"none"}
<1>1. /\ crawl.at = "issues" /\ issues < MaxIssues /\ issues' = issues + 1
      /\ seen' = seen \cup u
      /\ gathered' = gathered \cup ({q} \X u)
      /\ issueTexts' = issueTexts \cup {<<q, texts>>}
      /\ UNCHANGED <<client, token, crawl>>
  BY DEF TakeIssue
<1>2. u \subseteq Snippets
  BY DEF Usable
<1>3. \A t \in u : <<q, t>> \in gathered'
  BY <1>1
<1>4. texts = {} \/ \E t \in texts : <<q, t>> \in gathered'
  <2>1. ASSUME texts # {} PROVE \E t \in texts : t \in u \/ t \in seen
    <3>1. \A t \in texts : t \in Snippets
      BY DEF Extracts
    <3>2. body # "none" => body \in texts
      OBVIOUS
    <3>3. client = "script" /\ title # "none" => title \in texts
      OBVIOUS
    <3>4. CASE body \in Snippets /\ body # "none"
      BY <3>2, <3>4 DEF Usable
    <3>5. CASE ~(body \in Snippets /\ body # "none")
      <4>1. body = "none"
        BY <3>5 DEF Extracts
      <4>2. client = "script" /\ title # "none" /\ title \in Snippets
        BY <2>1, <4>1 DEF Extracts
      <4>3. title \in texts
        BY <3>3, <4>2
      <4>4. body \notin Snippets
        BY <4>1, GithubCrawlAssumption
      <4> QED
        BY <4>2, <4>3, <4>4 DEF Usable
    <3> QED
      BY <3>4, <3>5
  <2>2. \A t \in seen : <<q, t>> \in gathered'
    BY <1>1 DEF CrawlInv
  <2> QED
    BY <1>3, <2>1, <2>2
<1>5. \A o \in issueTexts' : o[2] = {} \/ \E t \in o[2] : <<o[1], t>> \in gathered'
  <2>1. ASSUME NEW o \in issueTexts PROVE o[2] = {} \/ \E t \in o[2] : <<o[1], t>> \in gathered'
    BY <1>1 DEF CrawlInv
  <2>2. <<q, texts>>[1] = q /\ <<q, texts>>[2] = texts
    OBVIOUS
  <2> HIDE DEF texts, q
  <2> QED
    BY <1>1, <1>4, <2>1, <2>2
<1>6. \A t \in seen' : <<crawl'.query, t>> \in gathered'
  BY <1>1, <1>3 DEF CrawlInv
<1>7. CrawlTypeOK'
  <2>1. issues' \in 0..MaxIssues
    BY <1>1, CrawlIs DEF CrawlInv, CrawlTypeOK
  <2>2. seen' \subseteq Snippets
    BY <1>1, <1>2 DEF CrawlInv, CrawlTypeOK
  <2>3. gathered' \subseteq (1..MaxQueries) \X Snippets
    <3>1. {q} \X u \subseteq (1..MaxQueries) \X Snippets
      BY <1>2, CrawlIs
    <3> QED
      BY <1>1, <3>1 DEF CrawlInv, CrawlTypeOK
  <2> QED
    BY <1>1, <2>1, <2>2, <2>3 DEF CrawlInv, CrawlTypeOK
<1> QED
  BY <1>1, <1>5, <1>6, <1>7 DEF CrawlInv

\* Every answer to a request, and every issue.
LEMMA CrawlInvStep == CrawlInv /\ CrawlNext => CrawlInv'
<1> SUFFICES ASSUME CrawlInv, CrawlNext PROVE CrawlInv'
  OBVIOUS
<1>0. crawl.auth \in BOOLEAN /\ FALSE \in BOOLEAN
  BY CrawlIs
<1>1. CASE Found
  <2>1. /\ crawl' = [crawl EXCEPT !.at = "issues"] /\ seen' = {}
        /\ UNCHANGED <<client, token, issues, gathered, issueTexts>> /\ crawl.at = "asking"
    BY <1>1 DEF Found, SeenAtFirst
  <2>2. crawl \in [at : {"asking", "issues", "returned", "raised"}, query : 1..MaxQueries,
                   attempt : 1..MAX_ATTEMPTS, auth : BOOLEAN]
    BY DEF CrawlInv, CrawlTypeOK
  <2>3. /\ crawl' \in [at : {"asking", "issues", "returned", "raised"}, query : 1..MaxQueries,
                       attempt : 1..MAX_ATTEMPTS, auth : BOOLEAN]
        /\ crawl'.at = "issues" /\ crawl'.auth = crawl.auth
    BY <2>1, <2>2
  <2>4. CrawlTypeOK'
    BY <2>1, <2>3 DEF CrawlInv, CrawlTypeOK
  <2> QED
    BY <2>1, <2>3, <2>4 DEF CrawlInv
<1>2. CASE Unreadable
  BY <1>0, <1>2, TryAgainKeeps, NextQueryKeeps DEF Unreadable, GiveUp
<1>3. CASE NoReply
  BY <1>0, <1>3, TryAgainKeeps DEF NoReply
<1>4. CASE Unauthorised
  BY <1>0, <1>4, TryAgainKeeps, NextQueryKeeps DEF Unauthorised, GiveUp
<1>5. CASE Forbidden
  BY <1>0, <1>5, TryAgainKeeps, NextQueryKeeps DEF Forbidden, GiveUp
<1>6. CASE Limited
  BY <1>0, <1>6, TryAgainKeeps DEF Limited
<1>7. CASE OddlyLimited
  <2>1. CASE client = "script"
    BY <1>0, <1>7, <2>1, TryAgainKeeps DEF OddlyLimited
  <2>2. CASE client # "script"
    <3>1. /\ crawl' = [crawl EXCEPT !.at = "raised"] /\ gathered' = {}
          /\ UNCHANGED <<client, token, seen, issues, issueTexts>>
      BY <1>7, <2>2 DEF OddlyLimited
    <3>2. crawl \in [at : {"asking", "issues", "returned", "raised"}, query : 1..MaxQueries,
                     attempt : 1..MAX_ATTEMPTS, auth : BOOLEAN]
      BY DEF CrawlInv, CrawlTypeOK
    <3>3. /\ crawl' \in [at : {"asking", "issues", "returned", "raised"}, query : 1..MaxQueries,
                         attempt : 1..MAX_ATTEMPTS, auth : BOOLEAN]
          /\ crawl'.at = "raised" /\ crawl'.auth = crawl.auth
      BY <3>1, <3>2
    <3>4. CrawlTypeOK'
      BY <3>1, <3>3 DEF CrawlInv, CrawlTypeOK
    <3> QED
      BY <2>2, <3>1, <3>3, <3>4 DEF CrawlInv
  <2> QED
    BY <2>1, <2>2
<1>8. CASE RefusedForGood
  BY <1>8, NextQueryKeeps DEF RefusedForGood, GiveUp
<1>9. CASE PageEnds
  BY <1>9, NextQueryKeeps DEF PageEnds
<1>10. ASSUME NEW body \in Extracts, NEW title \in Extracts, TakeIssue(body, title)
       PROVE  CrawlInv'
  BY <1>10, TakeIssueKeeps
<1> QED
  BY <1>1, <1>2, <1>3, <1>4, <1>5, <1>6, <1>7, <1>8, <1>9, <1>10 DEF CrawlNext

\* Nothing happens to the crawl.
LEMMA CrawlInvStutter == CrawlInv /\ UNCHANGED crawlVars => CrawlInv'
BY DEF CrawlInv, CrawlTypeOK, crawlVars

-----------------------------------------------------------------------------
(* LoghubPipeline                                                          *)

\* Where the sorting is: no category that has room has been taken off the list of
\* those needed.
LogPhases ==
    /\ phase \in {"reading", "asking", "sorting", "filing", "filed"}
    /\ needed \subseteq Cats
    /\ \A c \in Cats : phase = "reading" => llmHits[c] = <<>>
    /\ phase \in {"asking", "sorting"} => WithRoom \subseteq needed
    /\ phase \in {"filing", "filed"} => candidates = <<>> \/ WithRoom = {}
    /\ phase # "filed" => filed = {}

\* What was sorted where, and why: a line of hits has its keyword, a line of llmHits
\* has none and was given its category by the model.
LogInv ==
    /\ keywordOf \in KeywordRules
    /\ hits \in [Cats -> Seq(LogTexts)]
    /\ llmHits \in [Cats -> Seq(LogTexts)]
    /\ candidates \in Seq(LogTexts)
    /\ modelBatch \in Seq(LogTexts \X (0..NumCats))
    /\ LogPhases
    /\ \A c \in Cats : Len(hits[c]) + Len(llmHits[c]) <= MAX_PER_CAT
    /\ \A c \in Cats : \A i \in DOMAIN hits[c] : keywordOf[hits[c][i]] = c
    /\ \A c \in Cats : \A i \in DOMAIN llmHits[c] :
          keywordOf[llmHits[c][i]] = 0 /\ <<llmHits[c][i], c>> \in said
    /\ \A i \in DOMAIN candidates : keywordOf[candidates[i]] = 0
    /\ \A i \in DOMAIN modelBatch :
          /\ keywordOf[modelBatch[i][1]] = 0
          /\ modelBatch[i][2] # 0 => modelBatch[i] \in said
    /\ \A e \in filed :
          /\ e.text \in LogTexts /\ e.cat \in Cats
          /\ e.cat = keywordOf[e.text] \/ (keywordOf[e.text] = 0 /\ <<e.text, e.cat>> \in said)

\* What the bounds are.
LEMMA LogBounds ==
    NumCats \in Nat \ {0} /\ MAX_PER_CAT \in Nat \ {0} /\ BATCH_SIZE \in Nat \ {0} /\ 0 \notin Cats
BY LoghubAssumption DEF Cats

\* Nothing read.
LEMMA LogInvInit == LogInit => LogInv
<1> SUFFICES ASSUME LogInit PROVE LogInv
  OBVIOUS
<1>1. \A c \in Cats : hits[c] = <<>> /\ llmHits[c] = <<>>
  BY DEF LogInit
<1>2. hits \in [Cats -> Seq(LogTexts)] /\ llmHits \in [Cats -> Seq(LogTexts)]
  BY DEF LogInit
<1>3. \A c \in Cats : Len(hits[c]) + Len(llmHits[c]) <= MAX_PER_CAT
  <2>1. \A c \in Cats : Len(hits[c]) = 0 /\ Len(llmHits[c]) = 0
    BY <1>1
  <2>2. 0 + 0 <= MAX_PER_CAT
    BY LogBounds
  <2> QED
    BY <2>1, <2>2
<1> QED
  BY <1>1, <1>2, <1>3 DEF LogInit, LogInv, LogPhases

\* A line that has a keyword.
LEMMA ReadHitKeeps ==
    ASSUME LogInv, NEW t \in LogTexts, ReadHit(t)
    PROVE  LogInv'
<1> DEFINE k == keywordOf[t]
<1>1. k \in Cats
  BY DEF LogInv, LogPhases, ReadHit, KeywordRules, Cats
<1>2. /\ phase = "reading"
      /\ UNCHANGED <<keywordOf, keywordOnly, phase, llmHits, candidates, needed, modelBatch, filed, said>>
      /\ hits' = IF Len(hits[k]) < MAX_PER_CAT
                 THEN [hits EXCEPT ![k] = Append(@, t)] ELSE hits
  BY DEF ReadHit
<1>3. CASE ~(Len(hits[k]) < MAX_PER_CAT)
  <2>1. hits' = hits
    BY <1>2, <1>3
  <2> QED
    BY <1>2, <2>1 DEF LogInv, LogPhases, WithRoom, Room
<1>4. CASE Len(hits[k]) < MAX_PER_CAT
  <2>1. hits' = [hits EXCEPT ![k] = Append(@, t)] /\ hits \in [Cats -> Seq(LogTexts)]
    BY <1>2, <1>4 DEF LogInv, LogPhases
  <2>2. Append(hits[k], t) \in Seq(LogTexts)
    BY <1>1, <2>1
  <2>3. /\ hits' \in [Cats -> Seq(LogTexts)]
        /\ hits'[k] = Append(hits[k], t)
        /\ \A c \in Cats \ {k} : hits'[c] = hits[c]
    BY <1>1, <2>1, <2>2
  <2>4. /\ Len(hits'[k]) = Len(hits[k]) + 1
        /\ \A i \in DOMAIN hits'[k] :
              (i \in DOMAIN hits[k] /\ hits'[k][i] = hits[k][i]) \/ hits'[k][i] = t
    <3>1. hits[k] \in Seq(LogTexts)
      BY <1>1, <2>1
    <3> HIDE DEF k
    <3> QED
      BY <2>3, <3>1
  <2>5. \A c \in Cats : llmHits[c] = <<>> /\ llmHits'[c] = <<>>
    BY <1>2 DEF LogInv, LogPhases
  <2>6. \A c \in Cats : Len(hits'[c]) + Len(llmHits'[c]) <= MAX_PER_CAT
    <3> SUFFICES ASSUME NEW c \in Cats PROVE Len(hits'[c]) + Len(llmHits'[c]) <= MAX_PER_CAT
      OBVIOUS
    <3>1. CASE c = k
      <4>1. Len(hits[k]) \in Nat
        BY <1>1, <2>1
      <4>2. Len(hits'[k]) <= MAX_PER_CAT /\ Len(hits'[k]) \in Nat
        BY <1>4, <2>4, <4>1, LogBounds
      <4>3. Len(llmHits'[c]) = 0
        BY <2>5
      <4> QED
        BY <3>1, <4>2, <4>3
    <3>2. CASE c # k
      BY <1>2, <2>3, <3>2 DEF LogInv, LogPhases
    <3> QED
      BY <3>1, <3>2
  <2>7. \A c \in Cats : \A i \in DOMAIN hits'[c] : keywordOf[hits'[c][i]] = c
    <3> SUFFICES ASSUME NEW c \in Cats, NEW i \in DOMAIN hits'[c]
                 PROVE  keywordOf[hits'[c][i]] = c
      OBVIOUS
    <3>1. CASE c = k
      BY <1>1, <2>4, <3>1 DEF LogInv, LogPhases
    <3>2. CASE c # k
      BY <2>3, <3>2 DEF LogInv, LogPhases
    <3> QED
      BY <3>1, <3>2
  <2>8. phase' \notin {"asking", "sorting", "filing", "filed"}
    BY <1>2
  <2> QED
    <3>1. LogPhases'
      BY <1>2, <2>5, <2>8 DEF LogInv, LogPhases
    <3> QED
      <4>1. UNCHANGED <<keywordOf, llmHits, candidates, modelBatch, filed, said>>
        BY <1>2
      <4>2. hits' \in [Cats -> Seq(LogTexts)]
        BY <2>3
      <4> QED
        BY <2>6, <2>7, <3>1, <4>1, <4>2 DEF LogInv
<1> QED
  BY <1>3, <1>4

\* A line that has none.
LEMMA ReadAmbiguousKeeps ==
    ASSUME LogInv, NEW t \in LogTexts, ReadAmbiguous(t)
    PROVE  LogInv'
<1>1. /\ phase = "reading" /\ keywordOf[t] = 0
      /\ UNCHANGED <<keywordOf, keywordOnly, phase, hits, llmHits, needed, modelBatch, filed, said>>
      /\ candidates' = candidates \/ candidates' = Append(candidates, t)
  BY DEF ReadAmbiguous
<1>2. candidates \in Seq(LogTexts)
  BY DEF LogInv, LogPhases
<1>3. candidates' \in Seq(LogTexts)
      /\ \A i \in DOMAIN candidates' :
            (i \in DOMAIN candidates /\ candidates'[i] = candidates[i]) \/ candidates'[i] = t
  BY <1>1, <1>2
<1>4. \A i \in DOMAIN candidates' : keywordOf[candidates'[i]] = 0
  BY <1>1, <1>3 DEF LogInv, LogPhases
<1> QED
  BY <1>1, <1>3, <1>4 DEF LogInv, LogPhases

\* The rest of a batch and of the candidates.
LEMMA EndOfDataKeeps ==
    ASSUME LogInv, EndOfData
    PROVE  LogInv'
<1>1. /\ phase = "reading" /\ needed' = WithRoom /\ phase' = Onward
      /\ UNCHANGED <<keywordOf, keywordOnly, linesRead, hits, llmHits, candidates, modelBatch, filed, said>>
  BY DEF EndOfData
<1>2. WithRoom' = WithRoom /\ WithRoom \subseteq Cats
  BY <1>1 DEF WithRoom, Room
<1>3. /\ phase' \in {"filing", "asking"}
      /\ phase' = "filing" => candidates = <<>> \/ WithRoom = {}
  BY <1>1 DEF Onward
<1> QED
  BY <1>1, <1>2, <1>3 DEF LogInv, LogPhases

\* One reply for a batch: the i-th category is of the i-th line.
LEMMA AskModelKeeps ==
    ASSUME LogInv, NEW reply \in ModelReplies, AskModel(reply)
    PROVE  LogInv'
<1> DEFINE n == IF BATCH_SIZE < Len(candidates) THEN BATCH_SIZE ELSE Len(candidates)
           lines == SubSeq(candidates, 1, n)
<1>1. /\ phase = "asking"
      /\ modelBatch' = [i \in 1..n |-> <<lines[i], Aligned(reply, n)[i]>>]
      /\ candidates' = SubSeq(candidates, n + 1, Len(candidates))
      /\ said' = said \cup {<<lines[i], reply[i]>> : i \in 1..n \cap DOMAIN reply}
      /\ phase' = "sorting"
      /\ UNCHANGED <<keywordOf, keywordOnly, linesRead, hits, llmHits, needed, filed>>
  BY DEF AskModel
<1>2. candidates \in Seq(LogTexts) /\ Len(candidates) \in Nat
  BY DEF LogInv, LogPhases
<1>3. n \in Nat /\ n <= Len(candidates)
  BY <1>2, LogBounds
<1>4. PICK m \in 0..(BATCH_SIZE + 1) : reply \in [1..m -> 0..NumCats]
  BY DEF ModelReplies
<1> HIDE DEF n
<1>5. \A i \in 1..n : /\ lines[i] = candidates[i] /\ i \in DOMAIN candidates
                      /\ lines[i] \in LogTexts /\ keywordOf[lines[i]] = 0
  <2>1. \A i \in 1..n : i \in 1..Len(candidates) /\ i = 1 + i - 1 /\ i \in 1..(n - 1 + 1)
    BY <1>2, <1>3
  <2>2. \A i \in 1..n : i \in DOMAIN candidates /\ candidates[i] \in LogTexts
    BY <1>2, <2>1
  <2>3. 1 \in Int /\ n \in Int
    BY <1>3
  <2>4. \A i \in 1..n : lines[i] = candidates[i]
    BY <2>1, <2>2, <2>3, SubSeqProperties
  <2> QED
    BY <2>2, <2>4 DEF LogInv, LogPhases
<1>6. /\ candidates' \in Seq(LogTexts)
      /\ \A i \in DOMAIN candidates' : keywordOf[candidates'[i]] = 0
  <2>1. n + 1 \in Int /\ Len(candidates) \in Int
    BY <1>2, <1>3
  <2>2. \A i \in (n + 1)..Len(candidates) : i \in 1..Len(candidates)
    BY <1>2, <1>3
  <2>3. \A i \in (n + 1)..Len(candidates) : candidates[i] \in {t \in LogTexts : keywordOf[t] = 0}
    BY <1>2, <2>2 DEF LogInv, LogPhases
  <2>4. candidates' \in Seq({t \in LogTexts : keywordOf[t] = 0})
    BY <1>1, <2>1, <2>3, SubSeqProperties
  <2> QED
    BY <2>4
<1> HIDE DEF lines
<1>7. \A i \in 1..n : /\ Aligned(reply, n)[i] \in 0..NumCats
                      /\ Aligned(reply, n)[i] # 0 =>
                            i \in 1..n \cap DOMAIN reply /\ Aligned(reply, n)[i] = reply[i]
  <2> SUFFICES ASSUME NEW i \in 1..n
               PROVE  /\ Aligned(reply, n)[i] \in 0..NumCats
                      /\ Aligned(reply, n)[i] # 0 =>
                            i \in 1..n \cap DOMAIN reply /\ Aligned(reply, n)[i] = reply[i]
    OBVIOUS
  <2>1. Aligned(reply, n)[i] = IF i <= Len(reply) THEN reply[i] ELSE 0
    BY DEF Aligned
  <2>a. m \in Nat
    BY LogBounds
  <2>2. reply \in Seq(0..NumCats) /\ Len(reply) = m
    <3>1. reply \in Seq(0..NumCats)
      BY <1>4, <2>a, SeqDef
    <3>2. DOMAIN reply = 1..m
      BY <1>4
    <3> QED
      BY <2>a, <3>1, <3>2, LenProperties
  <2>3. i <= m => i \in 1..m
    BY <1>3
  <2>4. 0 \in 0..NumCats
    BY LogBounds
  <2> QED
    BY <1>4, <2>1, <2>2, <2>3, <2>4
<1>8. modelBatch' \in Seq(LogTexts \X (0..NumCats)) /\ DOMAIN modelBatch' = 1..n
  <2>1. \A i \in 1..n : <<lines[i], Aligned(reply, n)[i]>> \in LogTexts \X (0..NumCats)
    BY <1>5, <1>7
  <2> QED
    BY <1>1, <1>3, <2>1
<1>9. \A i \in DOMAIN modelBatch' :
         /\ keywordOf[modelBatch'[i][1]] = 0
         /\ modelBatch'[i][2] # 0 => modelBatch'[i] \in said'
  <2> SUFFICES ASSUME NEW i \in 1..n
               PROVE  /\ keywordOf[modelBatch'[i][1]] = 0
                      /\ modelBatch'[i][2] # 0 => modelBatch'[i] \in said'
    BY <1>8
  <2>1. modelBatch'[i] = <<lines[i], Aligned(reply, n)[i]>>
    BY <1>1
  <2>2. Aligned(reply, n)[i] # 0 => <<lines[i], Aligned(reply, n)[i]>> \in said'
    BY <1>1, <1>7
  <2> QED
    BY <1>5, <2>1, <2>2
<1>10. WithRoom' = WithRoom /\ said \subseteq said'
  BY <1>1 DEF WithRoom, Room
<1>11. filed' = {}
  BY <1>1 DEF LogInv, LogPhases
<1> QED
  BY <1>1, <1>6, <1>8, <1>9, <1>10, <1>11 DEF LogInv, LogPhases

\* A line of the batch that the model gave a category with room.
LEMMA SortLineKeeps ==
    ASSUME LogInv, SortLine
    PROVE  LogInv'
<1> DEFINE text == Head(modelBatch)[1]
           cat == Head(modelBatch)[2]
<1>1. /\ phase = "sorting" /\ modelBatch # <<>> /\ modelBatch' = Tail(modelBatch)
      /\ llmHits' = IF cat \in needed /\ Room(cat)
                    THEN [llmHits EXCEPT ![cat] = Append(@, text)] ELSE llmHits
      /\ UNCHANGED <<keywordOf, keywordOnly, phase, linesRead, hits, candidates, needed, filed, said>>
  BY DEF SortLine
<1>2. modelBatch \in Seq(LogTexts \X (0..NumCats))
  BY DEF LogInv, LogPhases
<1>3. /\ modelBatch' \in Seq(LogTexts \X (0..NumCats))
      /\ \A i \in DOMAIN modelBatch' : i + 1 \in DOMAIN modelBatch /\ modelBatch'[i] = modelBatch[i + 1]
  BY <1>1, <1>2
<1>a. \A i \in DOMAIN modelBatch :
         /\ keywordOf[modelBatch[i][1]] = 0
         /\ modelBatch[i][2] # 0 => modelBatch[i] \in said
  BY DEF LogInv, LogPhases
<1>4. \A i \in DOMAIN modelBatch' :
         /\ keywordOf[modelBatch'[i][1]] = 0
         /\ modelBatch'[i][2] # 0 => modelBatch'[i] \in said
  BY <1>3, <1>a
<1>5. 1 \in DOMAIN modelBatch /\ Head(modelBatch) = modelBatch[1]
      /\ modelBatch[1] \in LogTexts \X (0..NumCats)
  BY <1>1, <1>2
<1>6. /\ text \in LogTexts /\ cat \in 0..NumCats /\ <<text, cat>> = modelBatch[1]
      /\ keywordOf[text] = 0 /\ (cat # 0 => <<text, cat>> \in said)
  <2>1. text = modelBatch[1][1] /\ cat = modelBatch[1][2]
    BY <1>5
  <2>2. keywordOf[modelBatch[1][1]] = 0 /\ (modelBatch[1][2] # 0 => modelBatch[1] \in said)
    BY <1>5, <1>a
  <2>3. modelBatch[1][1] \in LogTexts /\ modelBatch[1][2] \in 0..NumCats
        /\ <<modelBatch[1][1], modelBatch[1][2]>> = modelBatch[1]
    BY <1>5
  <2> QED
    BY <2>1, <2>2, <2>3
<1> HIDE DEF text, cat
<1>7. CASE ~(cat \in needed /\ Room(cat))
  <2>1. llmHits' = llmHits
    BY <1>1, <1>7
  <2>2. WithRoom' = WithRoom
    BY <1>1, <2>1 DEF WithRoom, Room
  <2> QED
    BY <1>1, <1>3, <1>4, <2>1, <2>2 DEF LogInv, LogPhases
<1>8. CASE cat \in needed /\ Room(cat)
  <2>1. cat \in Cats /\ cat # 0 /\ llmHits \in [Cats -> Seq(LogTexts)] /\ hits \in [Cats -> Seq(LogTexts)]
    BY <1>8, LogBounds DEF LogInv, LogPhases
  <2>2. llmHits' = [llmHits EXCEPT ![cat] = Append(@, text)]
    BY <1>1, <1>8
  <2>3. /\ llmHits' \in [Cats -> Seq(LogTexts)]
        /\ llmHits'[cat] = Append(llmHits[cat], text)
        /\ \A c \in Cats \ {cat} : llmHits'[c] = llmHits[c]
    <3>1. Append(llmHits[cat], text) \in Seq(LogTexts)
      BY <1>6, <2>1
    <3> QED
      BY <2>1, <2>2, <3>1
  <2>9. Len(llmHits'[cat]) = Len(llmHits[cat]) + 1
    <3>1. llmHits[cat] \in Seq(LogTexts)
      BY <2>1
    <3> QED
      BY <1>6, <2>3, <3>1
  <2>4. /\ Len(llmHits'[cat]) = Len(llmHits[cat]) + 1
        /\ \A i \in DOMAIN llmHits'[cat] :
              (i \in DOMAIN llmHits[cat] /\ llmHits'[cat][i] = llmHits[cat][i])
              \/ llmHits'[cat][i] = text
    <3>1. llmHits[cat] \in Seq(LogTexts)
      BY <2>1
    <3> QED
      BY <1>6, <2>3, <3>1
  <2>5. \A c \in Cats : Len(hits'[c]) + Len(llmHits'[c]) <= MAX_PER_CAT
    <3> SUFFICES ASSUME NEW c \in Cats PROVE Len(hits'[c]) + Len(llmHits'[c]) <= MAX_PER_CAT
      OBVIOUS
    <3>1. CASE c = cat
      <4>1. Len(hits[cat]) \in Nat /\ Len(llmHits[cat]) \in Nat
        BY <2>1
      <4>2. Len(hits[cat]) + Len(llmHits[cat]) < MAX_PER_CAT
        BY <1>8 DEF Room
      <4>3. Len(hits[cat]) + (Len(llmHits[cat]) + 1) <= MAX_PER_CAT
        <5>1. \A x, y, z \in Nat : x + y < z => x + (y + 1) <= z
          OBVIOUS
        <5>2. MAX_PER_CAT \in Nat
          BY LogBounds
        <5> QED
          BY <4>1, <4>2, <5>1, <5>2
      <4>4. hits' = hits
        BY <1>1
      <4> QED
        BY <2>9, <3>1, <4>3, <4>4
    <3>2. CASE c # cat
      BY <1>1, <2>3, <3>2 DEF LogInv, LogPhases
    <3> QED
      BY <3>1, <3>2
  <2>6. \A c \in Cats : \A i \in DOMAIN llmHits'[c] :
           keywordOf[llmHits'[c][i]] = 0 /\ <<llmHits'[c][i], c>> \in said
    <3> SUFFICES ASSUME NEW c \in Cats, NEW i \in DOMAIN llmHits'[c]
                 PROVE  keywordOf[llmHits'[c][i]] = 0 /\ <<llmHits'[c][i], c>> \in said
      OBVIOUS
    <3>1. CASE c = cat
      <4>1. \A j \in DOMAIN llmHits[cat] :
               keywordOf[llmHits[cat][j]] = 0 /\ <<llmHits[cat][j], cat>> \in said
        BY <2>1 DEF LogInv, LogPhases
      <4>2. <<text, cat>> \in said
        BY <1>6, <2>1
      <4>3. i \in DOMAIN llmHits'[cat]
        BY <3>1
      <4>4. CASE llmHits'[cat][i] = text
        BY <1>6, <3>1, <4>2, <4>4
      <4>5. CASE i \in DOMAIN llmHits[cat] /\ llmHits'[cat][i] = llmHits[cat][i]
        BY <3>1, <4>1, <4>5
      <4> QED
        BY <2>4, <4>3, <4>4, <4>5
    <3>2. CASE c # cat
      BY <2>3, <3>2 DEF LogInv, LogPhases
    <3> QED
      BY <3>1, <3>2
  <2>7. WithRoom' \subseteq WithRoom
    <3> SUFFICES ASSUME NEW c \in Cats, Len(hits[c]) + Len(llmHits'[c]) < MAX_PER_CAT
                 PROVE  Len(hits[c]) + Len(llmHits[c]) < MAX_PER_CAT
      BY <1>1 DEF WithRoom, Room
    <3>1. CASE c = cat
      BY <1>8, <3>1 DEF Room
    <3>2. CASE c # cat
      BY <2>3, <3>2
    <3> QED
      BY <3>1, <3>2
  <2>8. WithRoom' \subseteq needed' /\ phase' = "sorting"
    BY <1>1, <2>7 DEF LogInv, LogPhases
  <2>a. LogPhases'
    BY <1>1, <2>8 DEF LogInv, LogPhases
  <2> QED
    BY <1>1, <1>3, <1>4, <2>3, <2>5, <2>6, <2>a DEF LogInv
<1> QED
  BY <1>7, <1>8

\* The end of a batch.
LEMMA EndBatchKeeps ==
    ASSUME LogInv, EndBatch
    PROVE  LogInv'
<1>1. /\ phase = "sorting" /\ needed' = needed \cap WithRoom
      /\ phase' = IF needed' = {} \/ candidates = <<>> THEN "filing" ELSE "asking"
      /\ UNCHANGED <<keywordOf, keywordOnly, linesRead, hits, llmHits, candidates, modelBatch, filed, said>>
  BY DEF EndBatch
<1>2. WithRoom' = WithRoom /\ WithRoom \subseteq needed
  BY <1>1 DEF LogInv, LogPhases, WithRoom, Room
<1>3. needed' = WithRoom
  BY <1>1, <1>2
<1>4. /\ phase' \in {"filing", "asking"}
      /\ phase' = "filing" => candidates = <<>> \/ WithRoom = {}
  BY <1>1, <1>3
<1>5. WithRoom \subseteq Cats
  BY DEF WithRoom
<1> QED
  BY <1>1, <1>2, <1>3, <1>4, <1>5 DEF LogInv, LogPhases

\* The entries are filed.
LEMMA FileKeeps ==
    ASSUME LogInv, File
    PROVE  LogInv'
<1> DEFINE Of(t) == CHOOSE c \in Classified(t) : \A d \in Classified(t) : c <= d
<1>1. /\ phase = "filing" /\ phase' = "filed"
      /\ filed' = {[text |-> t, cat |-> Of(t)] : t \in {u \in LogTexts : Classified(u) # {}}}
      /\ UNCHANGED <<keywordOf, keywordOnly, linesRead, hits, llmHits, candidates, needed, modelBatch, said>>
  BY DEF File
<1>2. ASSUME NEW t \in LogTexts, Classified(t) # {} PROVE Of(t) \in Classified(t)
  <2>1. Classified(t) \in SUBSET Nat
    BY LogBounds DEF Classified, Cats
  <2>2. \E c \in Classified(t) : \A d \in Classified(t) : c <= d
    BY <1>2, <2>1, LeastNumber
  <2> QED
    BY <2>2
<1>3. ASSUME NEW t \in LogTexts, NEW c \in Classified(t)
      PROVE  c \in Cats /\ (c = keywordOf[t] \/ (keywordOf[t] = 0 /\ <<t, c>> \in said))
  <2>1. c \in Cats /\ (Contains(hits[c], t) \/ Contains(llmHits[c], t))
    BY DEF Classified
  <2>2. hits[c] \in Seq(LogTexts) /\ llmHits[c] \in Seq(LogTexts)
    BY <2>1 DEF LogInv, LogPhases
  <2>3. CASE Contains(hits[c], t)
    <3>1. PICK i \in 1..Len(hits[c]) : hits[c][i] = t
      BY <2>3 DEF Contains
    <3>2. i \in DOMAIN hits[c]
      BY <2>2
    <3> QED
      BY <2>1, <3>1, <3>2 DEF LogInv, LogPhases
  <2>4. CASE Contains(llmHits[c], t)
    <3>1. PICK i \in 1..Len(llmHits[c]) : llmHits[c][i] = t
      BY <2>4 DEF Contains
    <3>2. i \in DOMAIN llmHits[c]
      BY <2>2
    <3> QED
      BY <2>1, <3>1, <3>2 DEF LogInv, LogPhases
  <2> QED
    BY <2>1, <2>3, <2>4
<1>4. ASSUME NEW e \in filed'
      PROVE  /\ e.text \in LogTexts /\ e.cat \in Cats
             /\ e.cat = keywordOf[e.text] \/ (keywordOf[e.text] = 0 /\ <<e.text, e.cat>> \in said)
  <2>1. PICK t \in {u \in LogTexts : Classified(u) # {}} : e = [text |-> t, cat |-> Of(t)]
    BY <1>1
  <2>2. e.text = t /\ e.cat = Of(t) /\ Of(t) \in Classified(t)
    BY <1>2, <2>1
  <2> HIDE DEF Of
  <2> QED
    BY <1>3, <2>1, <2>2
<1>5. WithRoom' = WithRoom
  BY <1>1 DEF WithRoom, Room
<1> HIDE DEF Of
<1> QED
  BY <1>1, <1>4, <1>5 DEF LogInv, LogPhases

\* Every line, batch and reply.
LEMMA LogInvStep == LogInv /\ LogNext => LogInv'
BY ReadHitKeeps, ReadAmbiguousKeeps, EndOfDataKeeps, AskModelKeeps, SortLineKeeps,
   EndBatchKeeps, FileKeeps DEF LogNext

\* Nothing happens to the pipeline.
LEMMA LogInvStutter == LogInv /\ UNCHANGED logVars => LogInv'
BY DEF LogInv, LogPhases, logVars, WithRoom, Room

\* The property that the run checks is part of the invariant.
LEMMA LogInvGivesProperty == LogInv => FiledAsClassified
BY DEF LogInv, LogPhases, FiledAsClassified

-----------------------------------------------------------------------------
(* L1Evidence                                                              *)

Sorted == \A i, j \in DOMAIN results : i < j => results[i].dist <= results[j].dist

\* The answer is built of the entries as they stand: nothing comes between the
\* query, the vote and the message.
EvInv ==
    /\ results \in Seq(L1Result)
    /\ Sorted
    /\ \/ voted = NotYet
       \/ voted = [at |-> "escalated"]
       \/ voted = [at |-> "L2"]
       \/ CandidatePlaces # {} /\ voted = Built(Best)

LEMMA EvInvInit == EvidenceInit => EvInv
BY DEF EvidenceInit, EvInv, Sorted

LEMMA EvInvStep == EvInv /\ EvidenceNext => EvInv'
<1> SUFFICES ASSUME EvInv, EvidenceNext PROVE EvInv'
  OBVIOUS
<1>1. ASSUME NEW n \in 1..MaxResults, NEW found \in [1..n -> L1Result], QueryL1(found), voted = NotYet
      PROVE  EvInv'
  <2>1. found \in Seq(L1Result) /\ results' = found /\ voted' = NotYet
    <3>1. n \in Nat
      BY <1>1, EvidenceAssumption
    <3> QED
      BY <3>1, <1>1, SeqDef DEF QueryL1
  <2>2. Sorted'
    BY <1>1 DEF QueryL1, Sorted
  <2> QED
    BY <2>1, <2>2 DEF EvInv
<1>2. ASSUME Analyze PROVE EvInv'
  <2>1. results' = results /\ Sorted' /\ results' \in Seq(L1Result)
    BY <1>2 DEF Analyze, EvInv, Sorted
  <2>2. CandidatePlaces' = CandidatePlaces /\ Built(Best)' = Built(Best)
    BY <2>1 DEF CandidatePlaces, Built, Best, Evidence, TopAction, Votes
  <2> QED
    BY <1>2, <2>1, <2>2 DEF Analyze, EvInv
<1>3. ASSUME Delivered PROVE EvInv'
  BY <1>3 DEF Delivered, EvInv, Sorted
<1> QED
  BY <1>1, <1>2, <1>3 DEF EvidenceNext

LEMMA EvInvStutter == EvInv /\ UNCHANGED evidenceVars => EvInv'
<1> SUFFICES ASSUME EvInv, UNCHANGED evidenceVars PROVE EvInv'
  OBVIOUS
<1>1. results' = results /\ voted' = voted
  BY DEF evidenceVars
<1>2. CandidatePlaces' = CandidatePlaces /\ Built(Best)' = Built(Best) /\ (Sorted <=> Sorted')
  BY <1>1 DEF CandidatePlaces, Built, Best, Evidence, TopAction, Votes, Sorted
<1> QED
  BY <1>1, <1>2 DEF EvInv

\* The places are numbers, and there are finitely many.
LEMMA PlacesAreNumbers ==
    ASSUME EvInv
    PROVE  /\ CandidatePlaces \subseteq DOMAIN results
           /\ CandidatePlaces \subseteq Nat \ {0}
           /\ CandidatePlaces # {} => 1 \in DOMAIN results
           /\ \A i \in DOMAIN results : results[i].dist \in Nat
           /\ IsFiniteSet(CandidatePlaces)
           /\ Cardinality(CandidatePlaces) \in Nat
<1>1. results \in Seq(L1Result) /\ Len(results) \in Nat /\ DOMAIN results = 1..Len(results)
  BY LenProperties DEF EvInv
<1>2. CandidatePlaces \subseteq DOMAIN results
  BY DEF CandidatePlaces
<1>3. \A i \in DOMAIN results : results[i].dist \in Nat
  <2>1. \A i \in DOMAIN results : results[i] \in L1Result
    BY <1>1
  <2> QED
    BY <2>1, EvidenceAssumption DEF L1Result
<1>4. IsFiniteSet(1..Len(results))
  <2>1. 1 \in Int /\ Len(results) \in Int
    BY <1>1
  <2> QED
    BY <2>1, FS_Interval
<1>5. IsFiniteSet(CandidatePlaces)
  BY <1>1, <1>2, <1>4, FS_Subset
<1>6. CandidatePlaces # {} => 1 \in DOMAIN results
  BY <1>1, <1>2
<1>7. CandidatePlaces \subseteq Nat \ {0}
  BY <1>1, <1>2
<1> QED
  BY <1>2, <1>3, <1>5, <1>6, <1>7, FS_CardinalityType

LEMMA VotesOfPlaces ==
    ASSUME EvInv, NEW a
    PROVE  Votes(a) \in Nat /\ Votes(a) <= Cardinality(CandidatePlaces)
<1> DEFINE S == {i \in CandidatePlaces : results[i].action = a}
<1>1. S \in SUBSET CandidatePlaces
  OBVIOUS
<1>2. IsFiniteSet(S) /\ Cardinality(S) <= Cardinality(CandidatePlaces)
  BY <1>1, PlacesAreNumbers, FS_Subset
<1>3. Cardinality(S) \in Nat
  BY <1>2, FS_CardinalityType
<1> QED
  BY <1>2, <1>3 DEF Votes

\* most_common(1) has an answer: an action of a candidate that none outvotes.
LEMMA TopActionIsVoted ==
    ASSUME EvInv, CandidatePlaces # {}
    PROVE  /\ \E i \in CandidatePlaces : results[i].action = TopAction
           /\ \A i \in CandidatePlaces : Votes(results[i].action) <= Votes(TopAction)
<1> DEFINE C == CandidatePlaces
           n == Cardinality(C)
           First(a) == CHOOSE i \in C :
                          /\ results[i].action = a
                          /\ \A j \in C : results[j].action = a => i <= j
           Met == {results[i].action : i \in C}
           Beats(a, b) == Votes(a) > Votes(b) \/ (Votes(a) = Votes(b) /\ First(a) < First(b))
           Lost == {n - Votes(results[i].action) : i \in C}
<1>1. n \in Nat /\ C \subseteq Nat
  BY PlacesAreNumbers
<1>2. \A a : Votes(a) \in Nat /\ Votes(a) <= n
  BY VotesOfPlaces
<1>3. ASSUME NEW a \in Met
      PROVE  /\ First(a) \in C
             /\ results[First(a)].action = a
             /\ \A j \in C : results[j].action = a => First(a) <= j
  <2> DEFINE T == {i \in C : results[i].action = a}
  <2>1. T \subseteq Nat /\ T # {}
    BY <1>1, <1>3
  <2>2. \E i \in T : \A j \in T : i <= j
    <3> HIDE DEF T
    <3> QED
      BY <2>1, LeastNumber
  <2>3. \E i \in C : /\ results[i].action = a
                     /\ \A j \in C : results[j].action = a => i <= j
    BY <2>2
  <2> QED
    BY <2>3
<1>4. Lost \subseteq Nat /\ Lost # {}
  <2>1. \A i \in C : n - Votes(results[i].action) \in Nat
    <3> HIDE DEF C, n
    <3> QED
      BY <1>1, <1>2
  <2>2. C # {}
    OBVIOUS
  <2> HIDE DEF C, n
  <2> QED
    BY <2>1, <2>2
<1>5. PICK m \in Lost : \A k \in Lost : m <= k
  BY <1>4, LeastNumber
<1> DEFINE Fewest == {i \in C : n - Votes(results[i].action) = m}
<1>6. PICK i \in Fewest : \A j \in Fewest : i <= j
  <2>1. Fewest \subseteq Nat /\ Fewest # {}
    BY <1>1, <1>5
  <2> HIDE DEF Fewest
  <2> QED
    BY <2>1, LeastNumber
<1> DEFINE top == results[i].action
<1>7. ASSUME NEW b \in Met, b # top
      PROVE  Beats(top, b)
  <2>1. PICK j \in C : b = results[j].action
    BY <1>7
  <2>2. n - Votes(b) \in Lost /\ n - Votes(top) = m /\ i \in C
    BY <2>1, <1>6
  <2>3. m <= n - Votes(b)
    BY <2>2, <1>5
  <2>4. First(b) \in C /\ results[First(b)].action = b
    BY <1>3, <1>7
  <2>5. Votes(b) = Votes(top) => i <= First(b)
    <3> SUFFICES ASSUME Votes(b) = Votes(top) PROVE i <= First(b)
      OBVIOUS
    <3>1. First(b) \in Fewest
      BY <2>2, <2>4
    <3> HIDE DEF Fewest, First
    <3> QED
      BY <3>1, <1>6
  <2>6. top \in Met
    BY <2>2
  <2>7. First(top) \in C /\ results[First(top)].action = top /\ First(top) <= i
    BY <2>2, <2>6, <1>3
  <2>8. First(top) # First(b)
    BY <2>4, <2>7, <1>7
  <2> DEFINE ft == First(top)
             fb == First(b)
             vt == Votes(top)
             vb == Votes(b)
  <2>9. /\ vt \in Nat /\ vb \in Nat /\ ft \in Nat /\ fb \in Nat /\ i \in Nat /\ n \in Nat
        /\ n - vt <= n - vb /\ ft <= i /\ (vb = vt => i <= fb) /\ ft # fb
    <3> HIDE DEF First, n
    <3> QED
      BY <1>1, <1>2, <2>2, <2>3, <2>4, <2>5, <2>7, <2>8
  <2>10. vt > vb \/ (vt = vb /\ ft < fb)
    <3> HIDE DEF n, ft, fb, vt, vb
    <3> QED
      BY <2>9
  <2> QED
    BY <2>10
<1>8. \E a \in Met : \A b \in Met \ {a} : Beats(a, b)
  <2>1. top \in Met
    BY <1>6
  <2> HIDE DEF Beats, Met
  <2> QED
    BY <2>1, <1>7
<1>9. TopAction = CHOOSE a \in Met : \A b \in Met \ {a} : Beats(a, b)
  BY Zenon DEF TopAction
<1>10. TopAction \in Met /\ \A b \in Met \ {TopAction} : Beats(TopAction, b)
  <2> HIDE DEF Beats, Met
  <2> QED
    BY <1>8, <1>9, Zenon
<1>11. \A b \in Met : Votes(b) <= Votes(TopAction)
  <2> SUFFICES ASSUME NEW b \in Met PROVE Votes(b) <= Votes(TopAction)
    OBVIOUS
  <2>1. Votes(b) \in Nat /\ Votes(TopAction) \in Nat
    BY <1>2
  <2>2. b # TopAction => Votes(TopAction) > Votes(b) \/ Votes(TopAction) = Votes(b)
    BY <1>10
  <2> HIDE DEF Met
  <2> QED
    BY <2>1, <2>2
<1> QED
  BY <1>10, <1>11

\* The entry that answers is the nearest of the candidates with that action.
LEMMA BestIsNearest ==
    ASSUME EvInv, CandidatePlaces # {}
    PROVE  /\ Best \in CandidatePlaces
           /\ results[Best].action = TopAction
           /\ \A j \in CandidatePlaces : results[j].action = TopAction => Best <= j
<1> DEFINE its == {i \in CandidatePlaces : results[i].action = TopAction}
<1>1. its \subseteq Nat /\ its # {}
  BY PlacesAreNumbers, TopActionIsVoted
<1>2. \E i \in its : \A j \in its : i <= j
  <2> HIDE DEF its
  <2> QED
    BY <1>1, LeastNumber
<1>3. Best \in its /\ \A j \in its : Best <= j
  <2>1. Best = CHOOSE i \in its : \A j \in its : i <= j
    BY DEF Best
  <2> HIDE DEF its
  <2> QED
    BY <1>2, <2>1
<1> QED
  BY <1>3

LEMMA NearerIsSurer ==
    ASSUME NEW x \in Nat, NEW y \in Nat, x <= y
    PROVE  Confidence(y) <= Confidence(x)
<1>1. /\ Confidence(x) \in 0..3 /\ Confidence(y) \in 0..3
  BY DEF Confidence
<1> QED
  BY DEF Confidence

\* The first entry is a nearest one, and later ones are no nearer.
LEMMA LaterIsFarther ==
    ASSUME EvInv, NEW i \in DOMAIN results, NEW j \in DOMAIN results, i <= j
    PROVE  results[i].dist <= results[j].dist
<1>1. i \in Nat /\ j \in Nat
  BY LenProperties DEF EvInv
<1>2. results[i].dist \in Nat /\ results[j].dist \in Nat
  BY PlacesAreNumbers
<1>3. i < j => results[i].dist <= results[j].dist
  BY DEF EvInv, Sorted
<1> QED
  BY <1>1, <1>2, <1>3

LEMMA EvInvGivesProperty == EvInv => EvidenceIsOfAnswer
<1> SUFFICES ASSUME EvInv, voted.at = "hit" PROVE EvidenceIsOfAnswer
  BY DEF EvidenceIsOfAnswer
<1>1. CandidatePlaces # {} /\ voted = Built(Best)
  BY DEF EvInv, NotYet
<1> DEFINE e == Evidence(Best)
           C == CandidatePlaces
           Lines(a) == {i \in DOMAIN e.lines : e.lines[i].action = a}
           Marked == {i \in DOMAIN e.lines : e.lines[i].marked}
<1>2. /\ voted.doc = Best /\ voted.evidence = e
      /\ voted.action \in {results[Best].action, "escalate_to_human"}
  BY <1>1 DEF Built
<1>3. /\ e.votes = Votes(TopAction)
      /\ e.confidence = Confidence(results[Best].dist)
      /\ e.lines = [i \in C |-> [marked |-> i = Best, action |-> results[i].action,
                                 record |-> TrackRecord(results[i])]]
  BY DEF Evidence
<1>4. /\ DOMAIN e.lines = C
      /\ \A i \in C : /\ e.lines[i].action = results[i].action
                      /\ e.lines[i].marked <=> (i = Best)
                      /\ e.lines[i].record <=> results[i].learned
  <2>1. DOMAIN e.lines = C
    BY <1>3, Zenon
  <2>2. \A i \in C : e.lines[i] = [marked |-> i = Best, action |-> results[i].action,
                                 record |-> TrackRecord(results[i])]
    BY <1>3, Zenon
  <2>3. ASSUME NEW i \in C
        PROVE  /\ e.lines[i].action = results[i].action
               /\ e.lines[i].marked = (i = Best)
               /\ e.lines[i].record = results[i].learned
    <3>1. e.lines[i] = [marked |-> i = Best, action |-> results[i].action,
                        record |-> results[i].learned]
      BY <2>2, Zenon DEF TrackRecord
    <3>2. e.lines[i].action = results[i].action
      BY <3>1
    <3> DEFINE b == i = Best
               r == results[i].learned
    <3>3. e.lines[i] = [marked |-> b, action |-> results[i].action, record |-> r]
      BY <3>1
    <3>4. e.lines[i].marked = b /\ e.lines[i].record = r
      <4> HIDE DEF b, r, e
      <4> QED
        BY <3>3
    <3> QED
      BY <3>2, <3>4, Zenon
  <2> QED
    BY <2>1, <2>3, Zenon
<1>5. Best \in C /\ results[Best].action = TopAction
  BY <1>1, BestIsNearest
<1>6. \A a : Votes(a) = Cardinality(Lines(a))
  <2> SUFFICES ASSUME NEW a PROVE Votes(a) = Cardinality(Lines(a))
    OBVIOUS
  <2>1. Lines(a) = {i \in C : results[i].action = a}
    <3> HIDE DEF e
    <3> QED
      BY <1>4
  <2> QED
    BY <2>1 DEF Votes
<1> HIDE DEF e
<1>7. Marked = {voted.doc}
  BY <1>2, <1>4, <1>5
<1>8. voted.action \in {e.lines[voted.doc].action, "escalate_to_human"}
  BY <1>2, <1>4, <1>5
<1>9. \A i \in Lines(e.lines[voted.doc].action) : results[voted.doc].dist <= results[i].dist
  <2> SUFFICES ASSUME NEW i \in C, results[i].action = TopAction
               PROVE  results[Best].dist <= results[i].dist
    BY <1>2, <1>4, <1>5
  <2>1. Best <= i
    BY <1>1, BestIsNearest
  <2> QED
    BY <2>1, <1>5, PlacesAreNumbers, LaterIsFarther
<1>10. e.votes = Cardinality(Lines(e.lines[voted.doc].action))
  <2>1. e.lines[voted.doc].action = TopAction
    BY <1>2, <1>4, <1>5
  <2> HIDE DEF Lines
  <2> QED
    BY <1>3, <1>6, <2>1
<1>11. \A i \in DOMAIN e.lines : Cardinality(Lines(e.lines[i].action)) <= e.votes
  <2> SUFFICES ASSUME NEW i \in C PROVE Votes(results[i].action) <= Votes(TopAction)
    <3> HIDE DEF Lines
    <3> QED
      BY <1>3, <1>4, <1>6
  <2> QED
    BY <1>1, TopActionIsVoted
<1>12. \A i \in DOMAIN e.lines :
          /\ e.lines[i].record <=> results[i].learned
          /\ results[i].dist = results[1].dist => e.confidence <= Confidence(results[i].dist)
  <2> SUFFICES ASSUME NEW i \in C, results[i].dist = results[1].dist
               PROVE  e.confidence <= Confidence(results[i].dist)
    BY <1>4
  <2>1. 1 \in DOMAIN results /\ Best \in DOMAIN results /\ 1 <= Best
    BY <1>1, <1>5, PlacesAreNumbers
  <2>2. results[1].dist <= results[Best].dist
    BY <2>1, LaterIsFarther
  <2>3. results[1].dist \in Nat /\ results[Best].dist \in Nat
    BY <2>1, PlacesAreNumbers
  <2> QED
    BY <1>3, <2>2, <2>3, NearerIsSurer
<1> QED
  BY <1>2, <1>7, <1>8, <1>9, <1>10, <1>11, <1>12 DEF EvidenceIsOfAnswer

-----------------------------------------------------------------------------
(* Connections                                                             *)

AtChroma(t) == dbPos[t] \in {"chroma_creates", "chroma_has"}
AtPool(t) == dbPos[t] = "pool_creates"

\* Whoever is to create the client does so because there is none: that is what the
\* second check under the lock is for.
ConnInv ==
    /\ ConnTypeOK
    /\ clientsMade \in {0, 1}
    /\ chromaClient = clientsMade
    /\ \A t \in DbThreads : given[t] \in {0, chromaClient}
    /\ \A t \in DbThreads : dbPos[t] = "chroma_creates" => clientsMade = 0
    /\ \A s, t \in DbThreads : AtChroma(s) /\ AtChroma(t) => s = t
    /\ \A s, t \in DbThreads : AtPool(s) /\ AtPool(t) => s = t
    /\ chromaLock = {t \in DbThreads : AtChroma(t)}
    /\ poolLock = {t \in DbThreads : AtPool(t)}

\* No client, no connection and no thread on its way.
LEMMA ConnInvInit == ConnInit => ConnInv
BY ConnectionsAssumption DEF ConnInit, ConnInv, ConnTypeOK, AtChroma, AtPool

\* Every step of a thread keeps the invariant.
LEMMA ConnInvStep == ConnInv /\ ConnNext => ConnInv'
<1> SUFFICES ASSUME ConnInv, NEW t \in DbThreads,
                    \/ AskClient(t) \/ LockChroma(t)
                    \/ CreateClient(t) \/ CreateClientRaises(t) \/ ReturnClient(t)
                    \/ AskConnection(t) \/ LockPool(t)
                    \/ CreateConnection(t) \/ CreateConnectionRaises(t)
             PROVE  ConnInv'
  BY DEF ConnNext
<1> USE ConnectionsAssumption DEF ConnInv, ConnTypeOK, AtChroma, AtPool, DbGoto, chromaVars, poolVars
<1>1. CASE AskClient(t)
  BY <1>1 DEF AskClient
<1>2. CASE LockChroma(t)
  BY <1>2 DEF LockChroma, ClientIsMissing
<1>3. CASE CreateClient(t)
  BY <1>3 DEF CreateClient
<1>4. CASE CreateClientRaises(t)
  BY <1>4 DEF CreateClientRaises, DbFails
<1>5. CASE ReturnClient(t)
  BY <1>5 DEF ReturnClient
<1>6. CASE AskConnection(t)
  BY <1>6 DEF AskConnection
<1>7. CASE LockPool(t)
  BY <1>7 DEF LockPool
<1>8. CASE CreateConnection(t)
  BY <1>8 DEF CreateConnection
<1>9. CASE CreateConnectionRaises(t)
  BY <1>9 DEF CreateConnectionRaises, DbFails
<1> QED
  BY <1>1, <1>2, <1>3, <1>4, <1>5, <1>6, <1>7, <1>8, <1>9

\* The invariant speaks of these variables only.
LEMMA ConnInvStutter == ConnInv /\ UNCHANGED connVars => ConnInv'
BY DEF ConnInv, ConnTypeOK, AtChroma, AtPool, connVars

\* The property that the run checks is part of the invariant.
LEMMA ConnInvGivesProperty == ConnInv => ConnectedOnce
BY DEF ConnInv, ConnectedOnce, AtChroma, AtPool

-----------------------------------------------------------------------------
(* ChaosApp                                                                *)

\* Who injects holds the lock, and nobody else but a handler that keeps it; who blocks the event loop is an injection of a
\* fault that runs on the loop, and no such fault is handed to a thread.
ChaosInv ==
    /\ ChaosTypeOK
    /\ \A r \in Requests : Injecting(r) => lock = r
    /\ lock # Nobody => Injecting(lock) \/ KeepsLock(lock)
    /\ eventLoop # Nobody => Is(eventLoop, "fault") /\ OnEventLoop(req[eventLoop].fault)
    /\ \A r \in Requests : Is(r, "handed") => ~OnEventLoop(req[r].fault)
    /\ \A r \in Requests : Is(r, "injected") => evidence[r] # "none"

\* No request has been made.
LEMMA ChaosInvInit == ChaosInit => ChaosInv
BY ChaosAssumption DEF ChaosInit, ChaosInv, ChaosTypeOK, Injecting, KeepsLock, Is, OnEventLoop, NoRequest, Nobody, Requests

\* The head of a handler: whoever is let in found the lock free.
LEMMA EnterKeeps ==
    ASSUME ChaosInv, NEW r \in Requests, req[r].at \in {"queued", "handed"}, Enter(r),
           eventLoop = Nobody \/ ~OnEventLoop(req[r].fault),
           UNCHANGED <<evidence, curl, audit>>
    PROVE  ChaosInv'
<1> USE ChaosAssumption DEF ChaosInv, ChaosTypeOK, Injecting, KeepsLock, Is, Nobody, Requests, Becomes, OnEventLoop
<1>1. CASE lock # Nobody
  <2>1. req' = [req EXCEPT ![r] = [fault |-> req[r].fault, at |-> "skipped"]]
    BY <1>1 DEF Enter
  <2>2. UNCHANGED <<lock, eventLoop, evidence, curl, audit>>
    BY <1>1 DEF Enter
  <2>3. lock # r /\ eventLoop # r
    OBVIOUS
  <2>4. \A q \in Requests : q # r => req'[q] = req[q]
    BY <2>1
  <2>5. req'[r] = [fault |-> req[r].fault, at |-> "skipped"]
    BY <2>1
  <2>6. ChaosTypeOK'
    BY <2>1, <2>2
  <2> HIDE DEF ChaosTypeOK
  <2>7. (\A q \in Requests : Injecting(q) => lock = q)'
    BY <2>2, <2>4, <2>5
  <2>8. (lock # Nobody => Injecting(lock) \/ KeepsLock(lock))'
    <3>1. lock \in Requests
      BY <1>1 DEF ChaosTypeOK
    <3> QED
      BY <1>1, <2>2, <2>3, <2>4, <3>1
  <2>9. (eventLoop # Nobody => Is(eventLoop, "fault") /\ OnEventLoop(req[eventLoop].fault))'
    BY <2>2, <2>3, <2>4 DEF ChaosTypeOK
  <2> QED
    BY <2>2, <2>4, <2>5, <2>6, <2>7, <2>8, <2>9
<1>2. CASE lock = Nobody
  <2> DEFINE to == IF req[r].fault = "process_crash" THEN "crashing" ELSE "fault"
  <2>1. req' = [req EXCEPT ![r] = [fault |-> req[r].fault, at |-> to]]
    BY <1>2 DEF Enter
  <2>2. lock' = r /\ UNCHANGED <<evidence, curl, audit>>
    BY <1>2 DEF Enter
  <2>3. eventLoop' = IF OnEventLoop(req[r].fault) /\ req[r].fault # "process_crash"
                     THEN r ELSE eventLoop
    BY <1>2 DEF Enter
  <2>4. \A q \in Requests : q # r => req'[q] = req[q]
    BY <2>1
  <2>5. req'[r] = [fault |-> req[r].fault, at |-> to]
    BY <2>1
  <2>6. eventLoop = Nobody
    BY <1>2
  <2>7. ChaosTypeOK'
    BY <2>1, <2>2, <2>3
  <2> HIDE DEF ChaosTypeOK
  <2>8. (\A q \in Requests : Injecting(q) => lock = q)'
    BY <1>2, <2>2, <2>4
  <2>9. (eventLoop # Nobody => Is(eventLoop, "fault") /\ OnEventLoop(req[eventLoop].fault))'
    BY <2>3, <2>5, <2>6
  <2> QED
    BY <2>2, <2>4, <2>5, <2>7, <2>8, <2>9
<1> QED
  BY <1>1, <1>2

\* Every step of a request and of the cron job keeps the invariant.
LEMMA ChaosInvStep == ChaosInv /\ ChaosNext => ChaosInv'
<1> SUFFICES ASSUME ChaosInv, ChaosNext PROVE ChaosInv'
  OBVIOUS
<1> USE ChaosAssumption DEF ChaosInv, ChaosTypeOK, Injecting, KeepsLock, Is, Nobody, Requests
<1>1. ASSUME NEW r \in Requests, NEW f \in Faults, NEW byCron \in BOOLEAN, Post(r, f, byCron)
      PROVE  ChaosInv'
  BY <1>1 DEF Post, OnEventLoop
<1>2. ASSUME NEW r \in Requests, Accept(r) PROVE ChaosInv'
  <2>1. CASE OnEventLoop(req[r].fault)
    BY <1>2, <2>1, EnterKeeps DEF Accept
  <2>2. CASE ~OnEventLoop(req[r].fault)
    <3>1. req' = [req EXCEPT ![r] = [fault |-> req[r].fault, at |-> "handed"]]
      BY <1>2, <2>2 DEF Accept, Becomes
    <3>2. UNCHANGED <<lock, eventLoop, evidence, curl, audit>> /\ eventLoop = Nobody
      BY <1>2, <2>2 DEF Accept
    <3>3. lock # r
      BY <1>2 DEF Accept
    <3>4. \A q \in Requests : q # r => req'[q] = req[q]
      BY <3>1
    <3>5. req'[r] = [fault |-> req[r].fault, at |-> "handed"]
      BY <3>1
    <3>6. ChaosTypeOK'
      BY <3>1, <3>2
    <3> QED
      <4>1. ~OnEventLoop(req'[r].fault)
        BY <2>2, <3>5
      <4> HIDE DEF ChaosTypeOK
      <4>2. (\A q \in Requests : Injecting(q) => lock = q)'
        BY <3>2, <3>4, <3>5
      <4>3. (lock # Nobody => Injecting(lock) \/ KeepsLock(lock))'
        BY <3>2, <3>3, <3>4 DEF ChaosTypeOK
      <4>4. (eventLoop # Nobody => Is(eventLoop, "fault") /\ OnEventLoop(req[eventLoop].fault))'
        BY <3>2
      <4>5. (\A q \in Requests : Is(q, "handed") => ~OnEventLoop(req[q].fault))'
        BY <3>4, <3>5, <4>1 DEF OnEventLoop
      <4>6. (\A q \in Requests : Is(q, "injected") => evidence[q] # "none")'
        BY <3>2, <3>4, <3>5
      <4> QED
        BY <3>6, <4>2, <4>3, <4>4, <4>5, <4>6
  <2> QED
    BY <2>1, <2>2
<1>3. ASSUME NEW r \in Requests, EnterInThread(r) PROVE ChaosInv'
  <2>1. Is(r, "handed") /\ Enter(r) /\ UNCHANGED <<evidence, curl, audit>>
    BY <1>3 DEF EnterInThread
  <2> QED
    BY <2>1, EnterKeeps
<1>4. ASSUME NEW r \in Requests, FaultShown(r) PROVE ChaosInv'
  BY <1>4 DEF FaultShown, Becomes, LoopFreed, OnEventLoop
<1>5. ASSUME NEW r \in Requests, FaultRaises(r) PROVE ChaosInv'
  BY <1>5 DEF FaultRaises, Becomes, LoopFreed, Released, OnEventLoop
<1>6. ASSUME NEW r \in Requests, CrashEvidence(r) PROVE ChaosInv'
  BY <1>6 DEF CrashEvidence, OnEventLoop
<1>7. ASSUME NEW r \in Requests, Crash(r) PROVE ChaosInv'
  BY <1>7 DEF Crash, OnEventLoop
<1>8. ASSUME CurlEnds PROVE ChaosInv'
  BY <1>8 DEF CurlEnds, Line, OnEventLoop
<1>9. ASSUME NEW r \in Requests, HolderRaises(r) PROVE ChaosInv'
  BY <1>9 DEF HolderRaises, Becomes, OnEventLoop
<1> QED
  BY <1>1, <1>2, <1>3, <1>4, <1>5, <1>6, <1>7, <1>8, <1>9 DEF ChaosNext

\* The invariant speaks of these variables only.
LEMMA ChaosInvStutter == ChaosInv /\ UNCHANGED chaosVars => ChaosInv'
BY DEF ChaosInv, ChaosTypeOK, Injecting, KeepsLock, Is, OnEventLoop, chaosVars

\* auth_error does not run on the loop, so that whoever blocks the loop is another,
\* and two cannot inject.
LEMMA ChaosInvGivesProperty == ChaosInv => InjectionsKeptApart
BY DEF ChaosInv, ChaosTypeOK, InjectionsKeptApart, Injecting, KeepsLock, Is, OnEventLoop, Nobody, Requests

-----------------------------------------------------------------------------
(* Installation                                                            *)

Written == IF mode = "cloud" THEN "groq" ELSE "ollama"

\* MODE is the cloud only by the operator's choice, also when it was taken from
\* .env; and from the writing of LLM_PROVIDER on, MODE and .env agree.
InstallInv ==
    /\ InstallTypeOK
    /\ AgentReads(dotenv.provider) = "cloud" => cloudAsked
    /\ mode = "cloud" => cloudAsked
    /\ at \notin {"off", "unit", "done"} => scriptsRun < 3
    /\ at \notin {"off", "packages", "dotenv", "mode"} => mode # "none"
    /\ at \in {"profiles", "key"} => dotenv.provider = Written
    /\ at = "key" => mode = "cloud"
    /\ at \in {"containers", "load", "unit", "done"} => mode = InstallerReads(dotenv.provider)
    /\ at = "done" => told = mode
    /\ dotenv.provider = "ollama" /\ ~unfinished /\ at # "profiles" => dotenv.profiles

\* The bounds are numbers.
LEMMA InstallBounds == MaxInstalls \in Nat /\ MaxEdits \in Nat
BY InstallationAssumption

\* Before the first installation there is no .env.
LEMMA InstallInvInit == InstallInit => InstallInv
<1> SUFFICES ASSUME InstallInit PROVE InstallInv
  OBVIOUS
<1>1. dotenv.provider = "none" /\ ~dotenv.profiles
  BY DEF InstallInit, NoFile
<1>2. InstallTypeOK
  <2>1. installs \in 0..MaxInstalls /\ edits \in 0..MaxEdits /\ scriptsRun \in 0..3
    BY InstallBounds DEF InstallInit
  <2> QED
    BY <2>1 DEF InstallInit, InstallTypeOK, NoFile, Spellings
<1> QED
  BY <1>1, <1>2 DEF InstallInit, InstallInv, AgentReads

\* Every step of install.sh, its end at any of them, and every change by hand
\* keeps the invariant.
LEMMA InstallInvStep == InstallInv /\ [InstallNext]_installVars => InstallInv'
<1> SUFFICES ASSUME InstallInv, [InstallNext]_installVars PROVE InstallInv'
  OBVIOUS
<1> USE InstallBounds
    DEF InstallInv, InstallTypeOK, AgentReads, InstallerReads, Written, Spellings,
        EnvFile, environment, counted
<1>1. ASSUME NEW flag \in {"none", "local", "cloud"}, NEW tty \in BOOLEAN,
             StartInstall(flag, tty)
      PROVE  InstallInv'
  <2>1. installs' \in 0..MaxInstalls /\ scriptsRun' = 0 /\ at' = "packages" /\ at \in {"off", "done"}
    BY <1>1 DEF StartInstall
  <2>2. cloudAsked' \in BOOLEAN /\ terminal' \in BOOLEAN /\ fresh' \in BOOLEAN
    BY <1>1 DEF StartInstall
  <2>3. UNCHANGED <<dotenv, containers, unit, unfinished, edits>>
    BY <1>1 DEF StartInstall
  <2>4. mode' = flag /\ told' = "none" /\ (cloudAsked' <=> cloudAsked \/ flag = "cloud")
    BY <1>1 DEF StartInstall
  <2>5. InstallTypeOK'
    BY <2>1, <2>2, <2>3, <2>4
  <2> HIDE DEF InstallTypeOK
  <2> QED
    BY <2>1, <2>3, <2>4, <2>5
<1>2. CASE Packages
  BY <1>2 DEF Packages
<1>3. CASE PrepareDotenv
  BY <1>3 DEF PrepareDotenv, Template
<1>4. CASE KeepMode
  BY <1>4 DEF KeepMode, Keeps
<1>5. CASE ChooseMode
  BY <1>5 DEF ChooseMode, Answers
<1>6. CASE SetProvider
  BY <1>6 DEF SetProvider
<1>7. CASE SetProfiles
  BY <1>7 DEF SetProfiles
<1>8. ASSUME NEW entered \in BOOLEAN, SetKey(entered) PROVE InstallInv'
  BY <1>8 DEF SetKey
<1>9. ASSUME NEW docker \in BOOLEAN, StartContainers(docker) PROVE InstallInv'
  BY <1>9 DEF StartContainers
<1>10. CASE LoadNext
  BY <1>10 DEF LoadNext
<1>11. ASSUME NEW systemd \in BOOLEAN, FinishInstall(systemd) PROVE InstallInv'
  BY <1>11 DEF FinishInstall
<1>12. ASSUME NEW torn \in BOOLEAN, Stop(torn) PROVE InstallInv'
  <2>1. dotenv' = dotenv \/ (dotenv'.provider = "none" /\ InstallTypeOK')
    BY <1>12 DEF Stop, Truncated
  <2>2. CASE dotenv' = dotenv
    <3>1. InstallTypeOK'
      BY <1>12, <2>2 DEF Stop
    <3> HIDE DEF InstallTypeOK
    <3> QED
      BY <1>12, <2>2, <3>1 DEF Stop
  <2>3. CASE dotenv'.provider = "none" /\ InstallTypeOK'
    BY <1>12, <2>3 DEF Stop
  <2> QED
    BY <2>1, <2>2, <2>3
<1>13. ASSUME NEW provider \in Spellings, NEW profiles \in BOOLEAN, Edit(provider, profiles)
       PROVE  InstallInv'
  BY <1>13 DEF Edit
<1>14. CASE UNCHANGED installVars
  BY <1>14 DEF installVars
<1> QED
  BY <1>1, <1>2, <1>3, <1>4, <1>5, <1>6, <1>7, <1>8, <1>9, <1>10, <1>11, <1>12, <1>13, <1>14
  DEF InstallNext

\* The only spelling that the agent and install.sh read differently is "spelled".
LEMMA InstallInvGivesProperty == InstallInv => ModeIsAsTold
BY DEF InstallInv, InstallTypeOK, ModeIsAsTold, AgentReads, InstallerReads, Spellings

\* Texts go to the cloud only after the operator chose it, and the last lines of
\* an installation say where they go, however it was repeated or interrupted.
THEOREM ModeAsTold == InstallSpec => []ModeIsAsTold
<1>1. InstallInv => ModeIsAsTold
  BY InstallInvGivesProperty
<1> QED
  BY InstallInvInit, InstallInvStep, <1>1, PTL DEF InstallSpec

-----------------------------------------------------------------------------
(* Metrics                                                                 *)

\* What a row may say: it is of one of the kinds of leave; what was not attempted is stored as a success, and what was
\* attempted is one only if it was run or did nothing.
IsHonest(e) ==
    /\ e.leave \in CountedLeaves \cup {"level"}
    /\ e.result \in NotAttempted => e.success
    /\ e.result \notin NotAttempted /\ e.success => e.ran \/ e.leave \in {"ungated", "demo"}

\* Who may run an action by leave of the level alone is at AUTO still, unless the
\* operator ran the tool; so a review that stands at a lower level began after all
\* the rows of such actions.
MetricInv ==
    /\ MetricTypeOK
    /\ report.at \in {"none", "judging"}
    /\ IsFiniteSet(metrics)
    /\ \A r \in metrics : /\ IsHonest(r.event)
                          /\ r.event.leave = "level" => r.at < rowCount
    /\ carrying = "auto" /\ ~moved => level = "auto"
    /\ review.target # "none" /\ level # "auto" =>
          \A r \in metrics : r.at >= review.since => r.event.leave # "level"
    /\ report.at = "judging" =>
          /\ report.upTo <= rowCount
          /\ \A r \in metrics :
                r.at >= report.since /\ r.at < report.upTo => r.event.leave # "level"

\* What the bounds are.
LEMMA MetricBounds == MaxRows \in Nat /\ MaxCommands \in Nat /\ ReviewTargets \subseteq AutonomyLevels
BY MetricsAssumption

\* No row, or one of an older version.
LEMMA MetricInvInit == MetricInit => MetricInv
<1> SUFFICES ASSUME MetricInit PROVE MetricInv
  OBVIOUS
<1>1. metrics \in {{}, {Legacy}} /\ rowCount = 0 /\ report = NoReport
  BY DEF MetricInit
<1>2. IsFiniteSet(metrics)
  <2>1. IsFiniteSet({})
    BY FS_EmptySet
  <2>2. IsFiniteSet({Legacy})
    BY FS_Singleton
  <2> QED
    BY <1>1, <2>1, <2>2
<1>3. \A r \in metrics : /\ r.id = 0 /\ r.at = 0
                         /\ IsHonest(r.event)
                         /\ r.event.leave # "level"
  BY <1>1 DEF Legacy, Row, IsHonest, NotAttempted, CountedLeaves
<1>4. MetricTypeOK
  <2>1. 0 \in 0..MaxRows /\ 0 \in 0..MaxCommands /\ 0 \in 0..0
    BY MetricBounds
  <2>2. review \in [target : AutonomyLevels \cup {"none"}, since : 0..MaxRows]
    BY <2>1 DEF MetricInit, NoReview
  <2> QED
    <3>1. level \in AutonomyLevels /\ carrying = "none" /\ moved = FALSE /\ commands = 0
      BY DEF MetricInit, AutonomyLevels
    <3>2. report.since = 0 /\ report.upTo = 0
      BY <1>1 DEF NoReport
    <3>3. \A r \in metrics : r.id \in 0..rowCount /\ r.at \in 0..MaxRows
      BY <1>1, <1>3, <2>1
    <3> QED
      BY <1>1, <2>1, <2>2, <3>1, <3>2, <3>3 DEF MetricTypeOK
<1> QED
  BY <1>1, <1>2, <1>3, <1>4 DEF MetricInit, MetricInv, NoReport

\* What the executor returns is honest, and by leave of the level at AUTO only.
LEMMA ReturnedIs ==
    ASSUME MetricInv, carrying # "none", NEW e \in Returned(carrying, Leave)
    PROVE  /\ IsHonest(e)
           /\ e.leave = "level" => carrying = "auto" /\ ~moved
<1> USE DEF Row, IsHonest, NotAttempted, CountedLeaves
<1>1. CASE carrying = "ungated"
  BY <1>1 DEF Returned
<1>2. CASE carrying = "read_only"
  BY <1>2 DEF Returned
<1>3. CASE carrying = "propose"
  BY <1>3 DEF Returned
<1>4. CASE carrying \in {"approve_then_execute", "auto"}
  <2>1. e \in Refused \cup Tried(Leave)
    BY <1>4 DEF Returned
  <2>2. /\ Leave = "level" => carrying = "auto" /\ ~moved
        /\ Leave \in {"unclear", "level", "person"}
    BY DEF Leave
  <2>3. CASE e \in Refused
    BY <2>3 DEF Refused
  <2>4. CASE e \in Tried(Leave)
    BY <2>2, <2>4 DEF Tried
  <2> QED
    BY <2>1, <2>3, <2>4
<1> QED
  BY <1>1, <1>2, <1>3, <1>4 DEF MetricInv, MetricTypeOK, AutonomyLevels

\* A row that is stored: an action by leave of the level is stamped last, and
\* while there is no review that began below AUTO.
LEMMA InsertKeeps ==
    ASSUME MetricInv, NEW e, NEW stamp \in 0..rowCount, Insert(e, stamp),
           IsHonest(e), e.leave = "level" => stamp = rowCount /\ level = "auto",
           UNCHANGED <<autonomy, commands, report>>,
           \/ UNCHANGED <<carrying, moved>>
           \/ carrying' = "none" /\ moved' = FALSE
    PROVE  MetricInv'
<1> DEFINE row == [id |-> rowCount', at |-> stamp, event |-> e]
<1>1. /\ rowCount \in Nat /\ rowCount' \in Nat /\ stamp \in Nat /\ MaxRows \in Nat
      /\ rowCount' = rowCount + 1 /\ rowCount' <= MaxRows /\ stamp <= rowCount
  BY MetricBounds DEF Insert, MetricInv, MetricTypeOK
<1>2. metrics' = metrics \cup {row} /\ IsFiniteSet(metrics')
  BY FS_AddElement DEF Insert, MetricInv
<1>3. UNCHANGED <<level, review, commands, report>>
  BY DEF autonomy
<1>4. row.id = rowCount' /\ row.at = stamp /\ row.event = e
  OBVIOUS
<1> HIDE DEF row
<1>5. \A r \in metrics : r.id \in 0..rowCount /\ r.at \in 0..MaxRows
  BY DEF MetricInv, MetricTypeOK
<1>6. \A r \in metrics' : r.id \in 0..rowCount' /\ r.at \in 0..MaxRows
  BY <1>1, <1>2, <1>4, <1>5
<1>7. MetricTypeOK'
  <2>1. carrying' \in AutonomyLevels \cup {"none", "ungated"} /\ moved' \in BOOLEAN
    BY DEF MetricInv, MetricTypeOK
  <2>2. rowCount' \in 0..MaxRows
    BY <1>1
  <2> QED
    BY <1>3, <1>6, <2>1, <2>2 DEF MetricInv, MetricTypeOK
<1>8. \A r \in metrics' : /\ IsHonest(r.event)
                          /\ r.event.leave = "level" => r.at < rowCount'
  <2> SUFFICES ASSUME NEW r \in metrics'
               PROVE  /\ IsHonest(r.event)
                      /\ r.event.leave = "level" => r.at < rowCount'
    OBVIOUS
  <2>1. CASE r \in metrics
    <3>1. IsHonest(r.event) /\ (r.event.leave = "level" => r.at < rowCount)
      BY <2>1 DEF MetricInv
    <3>2. r.at \in 0..MaxRows
      BY <2>1, <1>5
    <3> QED
      BY <1>1, <3>1, <3>2
  <2>2. CASE r = row
    BY <1>1, <1>4, <2>2
  <2> QED
    BY <1>2, <2>1, <2>2
<1>9. (carrying = "auto" /\ ~moved => level = "auto")'
  BY <1>3 DEF MetricInv
<1>10. (review.target # "none" /\ level # "auto" =>
          \A r \in metrics : r.at >= review.since => r.event.leave # "level")'
  <2> SUFFICES ASSUME review.target # "none", level # "auto",
                      NEW r \in metrics', r.at >= review.since
               PROVE  r.event.leave # "level"
    BY <1>3
  <2> QED
    BY <1>2, <1>4 DEF MetricInv
<1>11. (report.at = "judging" =>
          /\ report.upTo <= rowCount
          /\ \A r \in metrics :
                r.at >= report.since /\ r.at < report.upTo => r.event.leave # "level")'
  <2> SUFFICES ASSUME report.at = "judging"
               PROVE  /\ report.upTo <= rowCount'
                      /\ \A r \in metrics' :
                            r.at >= report.since /\ r.at < report.upTo => r.event.leave # "level"
    BY <1>3
  <2>1. /\ report.upTo <= rowCount
        /\ \A r \in metrics :
              r.at >= report.since /\ r.at < report.upTo => r.event.leave # "level"
    BY DEF MetricInv
  <2>2. report.upTo \in Nat
    BY <1>1 DEF MetricInv, MetricTypeOK
  <2>3. row.at < report.upTo => row.event.leave # "level"
    BY <1>1, <1>4, <2>1, <2>2
  <2> QED
    BY <1>1, <1>2, <2>1, <2>2, <2>3
<1>12. report'.at \in {"none", "judging"}
  BY <1>3 DEF MetricInv
<1> QED
  BY <1>2, <1>7, <1>8, <1>9, <1>10, <1>11, <1>12 DEF MetricInv

\* Where the table and its count stay.
LEMMA TableKeeps ==
    ASSUME MetricInv, metrics' \subseteq metrics, UNCHANGED <<autonomy, rowCount, commands, report>>,
           carrying' \in AutonomyLevels \cup {"none", "ungated"}, moved' \in BOOLEAN,
           carrying' = "auto" /\ ~moved' => level = "auto"
    PROVE  MetricInv'
<1>1. UNCHANGED <<level, review>> /\ IsFiniteSet(metrics')
  BY FS_Subset DEF autonomy, MetricInv
<1>2. MetricTypeOK'
  BY <1>1 DEF MetricInv, MetricTypeOK
<1> QED
  BY <1>1, <1>2 DEF MetricInv

\* Every step of the pipeline, the demo, the maintenance, the operator and the
\* reports keeps the invariant.
LEMMA MetricInvStep == MetricInv /\ [MetricNext]_metricVars => MetricInv'
<1> SUFFICES ASSUME MetricInv, [MetricNext]_metricVars PROVE MetricInv'
  OBVIOUS
<1>0. /\ level \in AutonomyLevels /\ rowCount \in Nat /\ rowCount \in 0..rowCount
      /\ rowCount \in 0..MaxRows
      /\ carrying \in AutonomyLevels \cup {"none", "ungated"} /\ moved \in BOOLEAN
  BY MetricBounds DEF MetricInv, MetricTypeOK
<1>1. ASSUME NEW ungated \in BOOLEAN, NEW passed \in BOOLEAN, Decide(ungated, passed)
      PROVE  MetricInv'
  <2>1. /\ carrying' \in AutonomyLevels \cup {"none", "ungated"}
        /\ carrying' = "auto" => level = "auto"
    BY <1>0, <1>1 DEF Decide, AutonomyLevels
  <2> QED
    BY <1>1, <2>1, TableKeeps DEF Decide
<1>2. CASE LogEvent
  <2>1. PICK e \in Returned(carrying, Leave) : Insert(e, rowCount)
    BY <1>2 DEF LogEvent
  <2>2. carrying # "none" /\ carrying' = "none" /\ moved' = FALSE /\ UNCHANGED <<autonomy, commands, report>>
    BY <1>2 DEF LogEvent
  <2>3. IsHonest(e) /\ (e.leave = "level" => level = "auto")
    BY <2>2, ReturnedIs DEF MetricInv
  <2> QED
    BY <1>0, <2>1, <2>2, <2>3, InsertKeeps
<1>3. CASE LogFails
  BY <1>3, TableKeeps DEF LogFails
<1>4. CASE Seed
  <2>1. PICK e \in Seeds, stamp \in 0..rowCount : Insert(e, stamp)
    BY <1>4 DEF Seed
  <2>2. IsHonest(e) /\ e.leave # "level"
    BY DEF Seeds, Row, IsHonest, NotAttempted, CountedLeaves
  <2>3. UNCHANGED <<autonomy, carrying, moved, commands, report>>
    BY <1>4 DEF Seed
  <2> QED
    BY <2>1, <2>2, <2>3, InsertKeeps
<1>5. CASE Delete
  <2>1. metrics' \subseteq metrics
    BY <1>5 DEF Delete
  <2>2. UNCHANGED <<autonomy, carrying, moved, rowCount, commands, report>>
    BY <1>5 DEF Delete
  <2>3. carrying' = "auto" /\ ~moved' => level = "auto"
    BY <2>2 DEF MetricInv
  <2> QED
    BY <1>0, <2>1, <2>2, <2>3, TableKeeps
<1>6. ASSUME NEW to \in AutonomyLevels,
             Run, level' \in AutonomyLevels,
             review' = NoReview \/ (review' = [target |-> to, since |-> rowCount] /\ level' = level),
             UNCHANGED <<carrying, metrics, rowCount, report>>
      PROVE  MetricInv'
  <2>1. commands' \in 0..MaxCommands
    BY <1>6, MetricBounds DEF Run, MetricInv, MetricTypeOK
  <2>2. moved' \in BOOLEAN /\ (carrying = "auto" => moved')
    <3>1. moved' = (carrying \in {"approve_then_execute", "auto"})
      BY <1>6 DEF Run
    <3> DEFINE b == carrying \in {"approve_then_execute", "auto"}
    <3>2. b \in BOOLEAN /\ (carrying = "auto" => b)
      OBVIOUS
    <3>3. moved' = b
      BY <3>1
    <3> HIDE DEF b
    <3> QED
      BY <3>2, <3>3
  <2>3. /\ review' \in [target : AutonomyLevels \cup {"none"}, since : 0..MaxRows]
        /\ review'.target # "none" => review'.since = rowCount
    <3>1. CASE review' = NoReview
      <4>1. 0 \in 0..MaxRows
        BY MetricBounds
      <4> QED
        BY <3>1, <4>1 DEF NoReview
    <3>2. CASE review' = [target |-> to, since |-> rowCount]
      BY <1>0, <1>6, <3>2
    <3> QED
      BY <1>6, <3>1, <3>2
  <2>4. MetricTypeOK'
    BY <1>6, <2>1, <2>2, <2>3 DEF MetricInv, MetricTypeOK
  <2>5. review'.target # "none" =>
           \A r \in metrics : r.at >= review'.since => r.event.leave # "level"
    <3> SUFFICES ASSUME NEW r \in metrics, r.at >= rowCount PROVE r.event.leave # "level"
      BY <2>3
    <3>1. r.at \in Nat /\ (r.event.leave = "level" => r.at < rowCount)
      BY MetricBounds DEF MetricInv, MetricTypeOK
    <3> QED
      BY <1>0, <3>1
  <2>6. report' = report /\ rowCount' = rowCount /\ metrics' = metrics /\ carrying' = carrying
    BY <1>6
  <2> QED
    BY <2>2, <2>4, <2>5, <2>6 DEF MetricInv
<1>7. ASSUME NEW to \in AutonomyLevels, SetLevel(to) PROVE MetricInv'
  BY <1>6, <1>7 DEF SetLevel, ReviewEnds
<1>8. ASSUME NEW to \in ReviewTargets, StartReview(to) PROVE MetricInv'
  <2>1. to \in AutonomyLevels
    BY MetricBounds
  <2> QED
    BY <1>0, <1>6, <1>8, <2>1 DEF StartReview
<1>9. CASE ReportBegins
  <2>1. /\ level # "auto" /\ review.target = "auto"
        /\ report' = [at |-> "judging", since |-> review.since, upTo |-> rowCount]
        /\ UNCHANGED <<level, review, carrying, moved, metrics, rowCount, commands>>
    BY <1>9 DEF ReportBegins, Listed, autonomy
  <2>2. review.since \in 0..MaxRows
    BY DEF MetricInv, MetricTypeOK
  <2>3. MetricTypeOK'
    BY <1>0, <2>1, <2>2 DEF MetricInv, MetricTypeOK
  <2>4. \A r \in metrics : r.at >= review.since => r.event.leave # "level"
    BY <2>1 DEF MetricInv
  <2>5. rowCount <= rowCount
    BY <1>0
  <2> QED
    BY <2>1, <2>3, <2>4, <2>5 DEF MetricInv
<1>10. CASE ReportEnds
  <2>1. /\ report' = NoReport
        /\ UNCHANGED <<level, review, carrying, moved, metrics, rowCount, commands>>
    BY <1>10 DEF ReportEnds, autonomy
  <2>2. MetricTypeOK'
    BY <1>0, <2>1, MetricBounds DEF MetricInv, MetricTypeOK, NoReport
  <2> QED
    BY <2>1, <2>2 DEF MetricInv, NoReport
<1>11. CASE UNCHANGED metricVars
  BY <1>11 DEF metricVars, MetricInv, MetricTypeOK
<1> QED
  BY <1>1, <1>2, <1>3, <1>4, <1>5, <1>7, <1>8, <1>9, <1>10, <1>11 DEF MetricNext

\* What is shown as done is what counts as resolved, and HEALTHY is more than no failure.
LEMMA DoneIsCounted == MetricInv => ToldAsCounted
<1> SUFFICES ASSUME MetricInv, NEW rows \in Filtered
             PROVE  /\ Resolved(rows) = {r \in rows : Story(r) = "done"}
                    /\ \A r \in Resolved(rows) : r.event.ran \/ r.event.leave \in {"ungated", "demo"}
                    /\ ReportedSuccesses(rows) \ Resolved(rows) = rows \ Acted(rows)
                    /\ Status(rows) = "HEALTHY" => Resolved(rows) # {}
  BY DEF ToldAsCounted
<1>1. rows \subseteq metrics
  BY DEF Filtered, LoadMetrics
<1>2. \A r \in rows : IsHonest(r.event)
  BY <1>1 DEF MetricInv
<1>3. Resolved(rows) = {r \in rows : Story(r) = "done"}
  <2>1. \A r \in rows : Story(r) = "done" <=> r.event.result \notin NotAttempted /\ r.event.success
    BY DEF Story, NotAttempted
  <2> QED
    BY <2>1 DEF Resolved, Acted
<1>4. \A r \in Resolved(rows) : r.event.ran \/ r.event.leave \in {"ungated", "demo"}
  BY <1>2 DEF Resolved, Acted, IsHonest
<1>5. ReportedSuccesses(rows) \ Resolved(rows) = rows \ Acted(rows)
  BY <1>2 DEF ReportedSuccesses, Resolved, Acted, IsHonest
<1>6. ASSUME Resolved(rows) = {} PROVE Status(rows) # "HEALTHY"
  <2> DEFINE rate == IF Acted(rows) = {} THEN 0
                     ELSE (Cardinality(Resolved(rows)) * 100) \div Cardinality(Acted(rows))
  <2>1. Cardinality(Resolved(rows)) = 0
    BY <1>6, FS_EmptySet
  <2>2. IsFiniteSet(Acted(rows))
    <3>1. Acted(rows) \subseteq metrics
      BY <1>1 DEF Acted
    <3> QED
      BY <3>1, FS_Subset DEF MetricInv
  <2>3. ASSUME Acted(rows) # {}
        PROVE  (0 * 100) \div Cardinality(Acted(rows)) = 0
    <3>1. Cardinality(Acted(rows)) \in Nat /\ Cardinality(Acted(rows)) # 0
      BY <2>2, <2>3, FS_CardinalityType, FS_EmptySet
    <3>2. \A n \in Nat : n # 0 => (0 * 100) \div n = 0
      OBVIOUS
    <3> QED
      BY <3>1, <3>2
  <2>4. rate = 0
    BY <2>1, <2>3
  <2>5. Status(rows) = IF rate >= 90 THEN "HEALTHY" ELSE IF rate >= 70 THEN "DEGRADED" ELSE "CRITICAL"
    BY DEF Status
  <2> HIDE DEF rate
  <2> QED
    BY <2>4, <2>5
<1> QED
  BY <1>3, <1>4, <1>5, <1>6

\* The property that the run checks.
LEMMA MetricInvGivesProperty == MetricInv => MetricsToldRight
<1>1. ASSUME MetricInv, report.at = "judging", NEW r \in Attempted, r.at < report.upTo
      PROVE  r.event.leave \in CountedLeaves
  <2>1. r \in metrics /\ r.at >= report.since
    BY <1>1 DEF Attempted
  <2>2. r.event.leave # "level" /\ IsHonest(r.event)
    BY <1>1, <2>1 DEF MetricInv
  <2> QED
    BY <2>2 DEF IsHonest, CountedLeaves
<1>2. MetricInv => LevelAloneIsNotCounted
  BY <1>1 DEF LevelAloneIsNotCounted
<1> QED
  BY <1>2, DoneIsCounted DEF MetricsToldRight
=============================================================================
