------------------------------- MODULE Playbook -------------------------------
(***************************************************************************)
(* Where the entries of the knowledge base come from: the playbook table   *)
(* of PostgreSQL with its JSON backup (src/etl_ingest.py), the train/test  *)
(* split of that backup (scripts/split_dataset.py), the synchronisation to *)
(* Chroma (src/etl_vector_sync.py), and the scripts that load and remove   *)
(* entries of their own: in batches, labelled with a source                *)
(* (scripts/load_syslog_train_v2.py and its like), or at once and told by  *)
(* the prefix of the id alone (demo/setup_demo_db.py).  How the texts are  *)
(* collected is in GithubCrawl and LoghubPipeline.                         *)
(*                                                                         *)
(* A file is Absent, Torn when its writer was killed or failed, or a bag   *)
(* of texts.  An id is a pair of a space and a key: a row number of the    *)
(* table, or the MD5 of a text, behind a prefix for the scripts.           *)
(***************************************************************************)
EXTENDS Naturals, FiniteSets

CONSTANTS
    Texts,       \* log texts
    Sources,     \* the loading scripts, by their id prefixes
    Unlabelled,  \* those whose entries have no metadata "source"
    Absent, Torn,
    MaxJobs      \* bound: jobs started

VARIABLES
    pg,       \* agent_error_playbook: [id, text], log_text UNIQUE
    serial,   \* the last value of its SERIAL
    backup,   \* etl_backup.json
    train,    \* train_set.json
    vectors,  \* the collection: [id, text, source]
    load,     \* load_data_to_pg: [at, data]
    sync,     \* what sync_to_chroma is about to upsert, [at, rows, twice]
    work,     \* the job of each script: texts to upsert, ids to delete
    jobs,
    loaded,   \* history: texts whose load has returned
    owned     \* history: <<script, text>> upserted by a script and not removed

playVars == <<pg, serial, backup, train, vectors, load, sync, work, jobs, loaded, owned>>
tables == <<pg, serial>>
files == <<backup, train>>

Bags == [Texts -> 0..2]

\* The prefixes of the scripts are those of no other ids, and no label is "none".
ASSUME PlaybookAssumption ==
    /\ IsFiniteSet(Texts)
    /\ MaxJobs \in Nat
    /\ Absent # Torn
    /\ {Absent, Torn} \cap Bags = {}
    /\ Unlabelled \subseteq Sources
    /\ {"row", "md5", "none"} \cap Sources = {}

NoTexts == [t \in Texts |-> 0]
TextsOf(file) == IF file \in {Absent, Torn} THEN {} ELSE {t \in Texts : file[t] > 0}
PgTexts == {r.text : r \in pg}
NotLoading == [at |-> "idle", data |-> NoTexts]
NotSyncing == [at |-> "idle", rows |-> {}, twice |-> FALSE]
NoWork == [texts |-> {}, ids |-> {}]

PlayInit ==
    /\ pg = {}
    /\ serial = 0
    /\ backup = Absent
    /\ train = Absent
    /\ vectors = {}
    /\ load = NotLoading
    /\ sync = NotSyncing
    /\ work = [s \in Sources |-> NoWork]
    /\ jobs = 0
    /\ loaded = {}
    /\ owned = {}

Start == jobs < MaxJobs /\ jobs' = jobs + 1

-----------------------------------------------------------------------------
(* load_data_to_pg                                                         *)

\* fetch_github_issues: a text is collected once per query, so twice when two
\* queries find it.
Crawl(bag) ==
    /\ load = NotLoading
    /\ bag # NoTexts
    /\ Start
    /\ load' = [at |-> "pg", data |-> bag]
    /\ UNCHANGED <<tables, files, vectors, sync, work, loaded, owned>>

Collected == {t \in Texts : load.data[t] > 0}
Loaded == load' = NotLoading /\ loaded' = loaded \cup Collected

\* ON CONFLICT DO NOTHING: a row that is left out has used up its number, and so
\* has one that is rolled back.
LastNumber == serial + Cardinality(UNION {{t} \X (1..load.data[t]) : t \in Texts})

Inserted(rows) ==
    /\ pg' = pg \cup rows
    /\ {r.text : r \in rows} = Collected \ PgTexts
    /\ \A q, r \in rows : q.text = r.text \/ q.id = r.id => q = r

NewRows == [id : (serial + 1)..LastNumber, text : Collected]

PgCommits ==
    /\ load.at = "pg"
    /\ \E rows \in SUBSET NewRows : Inserted(rows)
    /\ serial' = LastNumber
    /\ Loaded
    /\ UNCHANGED <<files, vectors, sync, work, jobs, owned>>

PgFails ==
    /\ load.at = "pg"
    /\ load' = [load EXCEPT !.at = "backup"]
    /\ serial' \in {serial, LastNumber}
    /\ UNCHANGED <<pg, files, vectors, sync, work, jobs, loaded, owned>>

\* Only what the old file holds is left out of the new items.
Merged(old, data) == [t \in Texts |-> IF old[t] > 0 THEN old[t] ELSE data[t]]

\* A file that cannot be parsed counts as empty, and is overwritten.
WriteBackup ==
    /\ load.at = "backup"
    /\ backup' = Merged(IF backup \in {Absent, Torn} THEN NoTexts ELSE backup, load.data)
    /\ Loaded
    /\ UNCHANGED <<tables, train, vectors, sync, work, jobs, owned>>

\* Killed, or the disk is full, while the file is open for writing.
WriteBackupDies ==
    /\ load.at = "backup"
    /\ backup' = Torn
    /\ load' = NotLoading
    /\ loaded' = loaded \cap PgTexts
    /\ UNCHANGED <<tables, train, vectors, sync, work, jobs, owned>>

\* TRUNCATE ... RESTART IDENTITY of reset_db.py.
ResetDb ==
    /\ Start
    /\ pg' = {}
    /\ serial' = 0
    /\ loaded' = loaded \cap TextsOf(backup)
    /\ UNCHANGED <<files, vectors, load, sync, work, owned>>

\* A part of each category goes to the train set, never none; the write may tear.
Split ==
    /\ TextsOf(backup) # {}
    /\ Start
    /\ \E part \in Bags \cup {Torn} :
          /\ part # Torn => part # NoTexts /\ \A t \in Texts : part[t] <= backup[t]
          /\ train' = part
    /\ UNCHANGED <<tables, backup, vectors, load, sync, work, loaded, owned>>

-----------------------------------------------------------------------------
(* Synchronisation to Chroma                                               *)

\* An upsert replaces the entries with the same ids.
Upserted(rows) == {e \in vectors : \A r \in rows : r.id # e.id} \cup rows

SyncPg ==
    /\ sync = NotSyncing
    /\ pg # {}
    /\ Start
    /\ sync' = [at |-> "upsert", twice |-> FALSE,
                rows |-> {[id |-> <<"row", r.id>>, text |-> r.text, source |-> "none"] : r \in pg}]
    /\ UNCHANGED <<tables, files, vectors, load, work, loaded, owned>>

\* get_data_from_backup: the train set if there is one, readable or not.
SyncFile ==
    LET file == IF train # Absent THEN train ELSE backup
    IN  /\ sync = NotSyncing
        /\ TextsOf(file) # {}
        /\ Start
        /\ sync' = [at |-> "upsert",
                    twice |-> \E t \in Texts : file[t] > 1,
                    rows |-> {[id |-> <<"md5", t>>, text |-> t, source |-> "none"] :
                                 t \in TextsOf(file)}]
        /\ UNCHANGED <<tables, files, vectors, load, work, loaded, owned>>

\* Chroma refuses ids that occur twice in one upsert.
SyncUpserts ==
    /\ sync.at = "upsert"
    /\ ~sync.twice
    /\ vectors' = Upserted(sync.rows)
    /\ sync' = NotSyncing
    /\ UNCHANGED <<tables, files, load, work, jobs, loaded, owned>>

SyncFails ==
    /\ sync.at = "upsert"
    /\ sync' = NotSyncing
    /\ UNCHANGED <<tables, files, vectors, load, work, jobs, loaded, owned>>

-----------------------------------------------------------------------------
(* The scripts                                                             *)

\* Wrong variant: the id has no prefix.
IdByText(s, t) == <<"md5", t>>

\* ID_PREFIX + _md5(text)
EntryId(s, t) == <<s, t>>

Label(s) == IF s \in Unlabelled THEN "none" ELSE s

\* What a script has collected, without repeated ids.
ScriptStarts(s, texts) ==
    /\ work[s] = NoWork
    /\ texts # {}
    /\ Start
    /\ work' = [work EXCEPT ![s].texts = texts]
    /\ UNCHANGED <<tables, files, vectors, load, sync, loaded, owned>>

UpsertOwn(s, texts) ==
    /\ vectors' = Upserted({[id |-> EntryId(s, t), text |-> t, source |-> Label(s)] : t \in texts})
    /\ owned' = owned \cup {<<s, t>> : t \in texts}
    /\ work' = [work EXCEPT ![s].texts = @ \ texts]
    /\ UNCHANGED <<tables, files, load, sync, jobs, loaded>>

\* One upsert of up to 100 entries.
UpsertBatch(s, texts) ==
    /\ s \notin Unlabelled
    /\ texts # {}
    /\ texts \subseteq work[s].texts
    /\ UpsertOwn(s, texts)

\* add_demo_entries: all of them or, when it fails, none.
UpsertAll(s) ==
    /\ s \in Unlabelled
    /\ work[s].texts # {}
    /\ UpsertOwn(s, work[s].texts)

\* The batches behind are not loaded.
ScriptDies(s) ==
    /\ work[s] # NoWork
    /\ work' = [work EXCEPT ![s] = NoWork]
    /\ UNCHANGED <<tables, files, vectors, load, sync, jobs, loaded, owned>>

\* remove_entries finds its own by their source, remove_demo_entries by the
\* prefix of their ids.
Own(s) == {e \in vectors : IF s \in Unlabelled THEN e.id[1] = s ELSE e.source = s}

\* All metadata are read, and then what is its own is deleted.
RemoveReads(s) ==
    /\ work[s] = NoWork
    /\ Own(s) # {}
    /\ Start
    /\ work' = [work EXCEPT ![s].ids = {e.id : e \in Own(s)}]
    /\ UNCHANGED <<tables, files, vectors, load, sync, loaded, owned>>

RemoveDeletes(s) ==
    /\ work[s].ids # {}
    /\ vectors' = {e \in vectors : e.id \notin work[s].ids}
    /\ owned' = {o \in owned : o[1] # s}
    /\ work' = [work EXCEPT ![s] = NoWork]
    /\ UNCHANGED <<tables, files, load, sync, jobs, loaded>>

PlayNext ==
    \/ \E bag \in Bags : Crawl(bag)
    \/ PgCommits \/ PgFails \/ WriteBackup \/ WriteBackupDies
    \/ ResetDb \/ Split
    \/ SyncPg \/ SyncFile \/ SyncUpserts \/ SyncFails
    \/ \E s \in Sources :
          \/ \E texts \in SUBSET Texts : ScriptStarts(s, texts) \/ UpsertBatch(s, texts)
          \/ UpsertAll(s) \/ ScriptDies(s) \/ RemoveReads(s) \/ RemoveDeletes(s)

PlaySpec == PlayInit /\ [][PlayNext]_playVars

-----------------------------------------------------------------------------
PlayTypeOK ==
    /\ \A r \in pg : r.id \in 1..serial /\ r.text \in Texts
    /\ serial \in Nat
    /\ {backup, train} \subseteq Bags \cup {Absent, Torn}
    /\ \A e \in vectors : e.text \in Texts /\ e.source \in Sources \cup {"none"}
    /\ load \in [at : {"idle", "pg", "backup"}, data : Bags]
    /\ sync.at \in {"idle", "upsert"}
    /\ \A s \in Sources : work[s].texts \subseteq Texts
    /\ jobs \in 0..MaxJobs
    /\ loaded \subseteq Texts
    /\ owned \subseteq Sources \X Texts

\* A text whose load has returned is in the table or in the backup, unless the
\* table was reset or a writing of the backup was cut off; and what a script has
\* loaded stays in the knowledge base, where its removal will find it, until then,
\* whatever texts the other scripts and the synchronisations bring along.
LoadedIsKept ==
    /\ loaded \subseteq PgTexts \cup TextsOf(backup)
    /\ \A s \in Sources, t \in Texts : <<s, t>> \in owned =>
          \E e \in Own(s) : e.text = t
=============================================================================
