------------------------------ MODULE SQLiteStore ------------------------------
(***************************************************************************)
(* The incremental SQLite store of sessions, run/conversation_sqlite.py,    *)
(* with the import of run/conversation_migration.py, the paged transcript   *)
(* of run/conversation_transcript.py and the pruning of one session or of   *)
(* several (run/conversation_prune.py, run/conversation_batch_prune.py).    *)
(* A snapshot is spread over an index record, one row per entry, and the    *)
(* artifacts its heavy entries refer to; a save writes only what differs    *)
(* from the checkpoint its handle has verified.                             *)
(*                                                                         *)
(* SQLite commits all of a transaction or nothing, and admits one writer; a *)
(* COMMIT may fail (a reader's lock, a full disk), and then is rolled back. *)
(***************************************************************************)
EXTENDS Integers, FiniteSets

CONSTANTS Session, Connection, Light, Heavy, \* entries without and with an artifact
          NoEntry, NoWriter,
          MaxEntries, Keep,              \* keep_newest of the retention policy
          Legacy,                        \* what an older version may have left
          MaxWrites                      \* bounds the runs only
ASSUME SQLiteAssumption ==
  /\ MaxEntries \in Nat /\ Keep \in Nat /\ MaxWrites \in Nat
  /\ NoEntry \notin Light \cup Heavy /\ Light \cap Heavy = {} /\ NoWriter \notin Connection
  /\ IsFiniteSet(Session)

Position == 1..MaxEntries
Row == Light \cup Heavy \cup {NoEntry}
Content == {c \in [Position -> Row] :
              \A p, q \in Position : p < q /\ c[p] = NoEntry => c[q] = NoEntry}
Artifacts(c) == {c[p] : p \in Position} \cap Heavy
Empty == [p \in Position |-> NoEntry]

(* The index record: what it says of the revision and of every entry, the   *)
(* page and resume indexes (an older store has none) and modified_ns.       *)
Index == [revision : Nat, entries : Content, prepared : BOOLEAN, modified : Nat]
NoIndex == [revision |-> -1, entries |-> Empty, prepared |-> FALSE, modified |-> 0]
ASSUME LegacyAssumption ==
  /\ Legacy \subseteq [Session -> Index \cup {NoIndex}]
  /\ \A i \in Legacy, s \in Session : ~i[s].prepared
Same(i, j) == i.revision = j.revision /\ i.entries = j.entries

VARIABLES db,        \* committed: index, rows and artifacts of each session; generation
          writer,    \* the handle in a write transaction
          work,      \* the database as that transaction has it
          mode, locks, \* of each handle; the sessions whose lock files it has flocked
          known,      \* _revision and _sha256
          cache,     \* _verified_checkpoint: an index and the artifacts in the store
          stale,     \* data_version or total_changes moved since the cache was taken
          preview,   \* the plan a prune was shown; its hash is what the user consents to
          page       \* a transcript being read page by page
sqliteVars == <<db, writer, work, mode, locks, known, cache, stale, preview, page>>

Database == [index : [Session -> Index \cup {NoIndex}], rows : [Session -> [Position -> Row]],
             artifacts : [Session -> SUBSET Heavy], generation : Nat]
NoCache == [index |-> NoIndex, artifacts |-> {}]
NoPlan == [targets |-> {}, index |-> [s \in Session |-> NoIndex], generation |-> 0, active |-> {}]
NoPage == [session |-> {}, index |-> NoIndex, generation |-> 0, got |-> Empty, next |-> 0]

SQLiteTypeOK ==
  /\ db \in Database /\ work \in Database /\ writer \in Connection \cup {NoWriter}
  /\ mode \in [Connection -> {"closed", "open", "saving", "importing", "preparing", "deleting",
                        "confirmed", "pruning"}]
  /\ locks \in [Connection -> SUBSET Session]
  /\ known \in [Connection -> Index \cup {NoIndex}]
  /\ cache \in [Connection -> [index : Index \cup {NoIndex}, artifacts : SUBSET Heavy]]
  /\ stale \in [Connection -> BOOLEAN]

Stored(i) == [index |-> i,
              rows |-> [s \in Session |-> i[s].entries],
              artifacts |-> [s \in Session |-> Artifacts(i[s].entries)],
              generation |-> 0]
(* An older store is whole, but without the page and resume indexes.        *)
SQLiteInit == /\ \E i \in Legacy : db = Stored(i)
              /\ writer = NoWriter /\ work = db
              /\ mode = [h \in Connection |-> "closed"] /\ locks = [h \in Connection |-> {}]
              /\ known = [h \in Connection |-> NoIndex] /\ cache = [h \in Connection |-> NoCache]
              /\ stale = [h \in Connection |-> FALSE]
              /\ preview = NoPlan /\ page = NoPage

-----------------------------------------------------------------------------
Proceed(h, l) == mode' = [mode EXCEPT ![h] = l]
Forgets(h) == cache' = [cache EXCEPT ![h] = NoCache]
Free(T) == \A g \in Connection : locks[g] \cap T = {}
Has(d, s) == d.index[s] # NoIndex

(* _load raises unless rows and artifacts are those the index describes.    *)
Loads(d, s) == /\ Has(d, s) /\ d.rows[s] = d.index[s].entries
               /\ d.artifacts[s] = Artifacts(d.index[s].entries)
Captured(d, s) == [index |-> d.index[s], artifacts |-> d.artifacts[s]]

(* _current_checkpoint, and what a save compares with otherwise.            *)
Current(h, s) == /\ cache[h].index.prepared /\ ~stale[h] /\ cache[h].index = db.index[s]
Previous(h, s) == IF Current(h, s) THEN cache[h] ELSE Captured(db, s)

(* The handle of one session; it is closed, or its process killed, at any   *)
(* place, and the transaction with it.                                      *)
Connect(h, s) == /\ mode[h] = "closed" /\ Free({s}) /\ Proceed(h, "open")
                 /\ locks' = [locks EXCEPT ![h] = {s}]
                 /\ UNCHANGED <<db, writer, work, known, cache, stale, preview, page>>
Disconnect(h) == /\ mode[h] # "closed" /\ Proceed(h, "closed") /\ locks' = [locks EXCEPT ![h] = {}]
                 /\ known' = [known EXCEPT ![h] = NoIndex] /\ Forgets(h)
                 /\ IF writer = h THEN writer' = NoWriter /\ work' = db
                                  ELSE UNCHANGED <<writer, work>>
                 /\ stale' = [stale EXCEPT ![h] = FALSE]
                 /\ UNCHANGED <<db, preview, page>>

(* load and load_working: one read transaction.                             *)
LoadWorking(h, s) == /\ mode[h] = "open" /\ locks[h] = {s} /\ Loads(db, s)
                     /\ known' = [known EXCEPT ![h] = db.index[s]]
                     /\ cache' = [cache EXCEPT ![h] = Captured(db, s)]
                     /\ stale' = [stale EXCEPT ![h] = FALSE]
                     /\ UNCHANGED <<db, writer, work, mode, locks, preview, page>>

-----------------------------------------------------------------------------
(* A write transaction: BEGIN IMMEDIATE, the checks, the statements.        *)
Begins(h, l, d) == /\ writer = NoWriter /\ writer' = h /\ Proceed(h, l)
                   /\ work' = [d EXCEPT !.generation = @ + 1]
                   /\ db.generation < MaxWrites

(* The statements skip an entry the previous index has, delete the tail it  *)
(* has too much, insert the artifacts it lacks and delete the others.       *)
TailStays(c, prev, old) ==                            \* mutant: only upserts
  [p \in Position |->
    IF c[p] = NoEntry \/ (prev.index.prepared /\ c[p] = prev.index.entries[p])
    THEN old[p] ELSE c[p]]
NewRows(c, prev, old) ==
  [p \in Position |->
    CASE c[p] = NoEntry -> IF prev.index.entries[p] # NoEntry THEN NoEntry ELSE old[p]
      [] c[p] # NoEntry /\ prev.index.prepared /\ c[p] = prev.index.entries[p] -> old[p]
      [] OTHER -> c[p]]
NewArtifacts(c, prev, old) ==
  (old \cup (Artifacts(c) \ prev.artifacts)) \ (prev.artifacts \ Artifacts(c))
Statements(s, i, prev) ==
  [db EXCEPT !.index[s] = i,
             !.rows[s] = NewRows(i.entries, prev, @),
             !.artifacts[s] = NewArtifacts(i.entries, prev, @)]

(* save and save_working: the next revision of what this handle knows; the  *)
(* whole snapshot is verified unless the checkpoint is current.             *)
SaveWorking(h, s) ==
  /\ mode[h] = "open" /\ locks[h] = {s}
  /\ \/ Has(db, s) /\ (Current(h, s) \/ Loads(db, s)) /\ Same(Previous(h, s).index, known[h])
     \/ /\ ~Has(db, s) /\ known[h] = NoIndex
        /\ db.rows[s] = Empty /\ db.artifacts[s] = {}
  /\ \E c \in Content :
       Begins(h, "saving",
         Statements(s, [revision |-> known[h].revision + 1, entries |-> c,
                        prepared |-> TRUE, modified |-> db.generation + 1], Previous(h, s)))
  /\ UNCHANGED <<db, locks, known, cache, stale, preview, page>>

(* import_snapshot: a session that is there is left alone; if it differs,   *)
(* the import raises.                                                       *)
ImportOver(h, s) ==                       \* mutant: an existing session is not compared
  /\ mode[h] = "open" /\ locks[h] = {s} /\ known[h] = NoIndex
  /\ \E r \in {0, 1}, c \in Content :
       Begins(h, "importing",
         Statements(s, [revision |-> r, entries |-> c, prepared |-> TRUE, modified |-> 0],
                    Captured(db, s)))
  /\ UNCHANGED <<db, locks, known, cache, stale, preview, page>>
ImportSnapshot(h, s) ==
  /\ mode[h] = "open" /\ locks[h] = {s} /\ known[h] = NoIndex
  /\ ~Has(db, s) /\ db.rows[s] = Empty /\ db.artifacts[s] = {}
  /\ \E r \in {0, 1}, c \in Content :
       Begins(h, "importing",
         Statements(s, [revision |-> r, entries |-> c, prepared |-> TRUE, modified |-> 0],
                    NoCache))
  /\ UNCHANGED <<db, locks, known, cache, stale, preview, page>>

(* prepare_transcript adds the indexes and nothing else.                    *)
Prepare(h, s) == /\ mode[h] = "open" /\ locks[h] = {s} /\ Loads(db, s) /\ ~db.index[s].prepared
                 /\ Begins(h, "preparing", [db EXCEPT !.index[s].prepared = TRUE]) /\ Forgets(h)
                 /\ UNCHANGED <<db, locks, known, stale, preview, page>>

(* DELETE FROM sessions; the foreign keys take rows and artifacts along.    *)
Without(T) == [db EXCEPT !.index = [s \in Session |-> IF s \in T THEN NoIndex ELSE @[s]],
                         !.rows = [s \in Session |-> IF s \in T THEN Empty ELSE @[s]],
                         !.artifacts = [s \in Session |-> IF s \in T THEN {} ELSE @[s]]]
DeleteSession(h, s) == /\ mode[h] = "open" /\ locks[h] = {s} /\ Loads(db, s)
                       /\ Begins(h, "deleting", Without({s})) /\ Forgets(h)
                       /\ UNCHANGED <<db, locks, known, stale, preview, page>>

-----------------------------------------------------------------------------
(* Pruning.  A plan is all the retention policy looked at: every index, the *)
(* generation, and which other sessions somebody has open.                  *)
Newer(d, s) == {t \in Session : Has(d, t) /\ d.index[t].modified > d.index[s].modified}
Candidate(d, s) == Has(d, s) /\ Cardinality(Newer(d, s)) >= Keep
Plan(T, me) == [targets |-> T, index |-> db.index, generation |-> db.generation,
                active |-> {s \in Session \ T : \E g \in Connection \ me : s \in locks[g]}]
Allowed(T) == T # {} /\ \A s \in T : Candidate(db, s) /\ Loads(db, s)

Preview(T) == /\ Free(T) /\ Allowed(T) /\ preview' = Plan(T, {})
              /\ \A h \in Connection : mode[h] \notin {"confirmed", "pruning"}
              /\ UNCHANGED <<db, writer, work, mode, locks, known, cache, stale, page>>
(* The run with --apply: it locks, reads the plan again, compares hashes.   *)
ConfirmPrune(h) == /\ mode[h] = "closed" /\ preview # NoPlan /\ Free(preview.targets)
                   /\ Plan(preview.targets, {h}) = preview
                   /\ Proceed(h, "confirmed") /\ locks' = [locks EXCEPT ![h] = preview.targets]
                   /\ UNCHANGED <<db, writer, work, known, cache, stale, preview, page>>
(* A writable reopen, and the plan once more under BEGIN IMMEDIATE.         *)
PruneUnread(h) == /\ mode[h] = "confirmed"                 \* mutant: the plan is not read again
                  /\ Begins(h, "pruning", Without(preview.targets))
                  /\ UNCHANGED <<db, locks, known, cache, stale, preview, page>>
Prune(h) == /\ mode[h] = "confirmed" /\ Plan(preview.targets, {h}) = preview
            /\ Allowed(preview.targets)
            /\ Begins(h, "pruning", Without(preview.targets))
            /\ UNCHANGED <<db, locks, known, cache, stale, preview, page>>

-----------------------------------------------------------------------------
(* COMMIT, and the call returns; every other connection has a new           *)
(* data_version.  A handle that removed its session is done.                *)
Commit(h) ==
  /\ writer = h /\ db' = work /\ writer' = NoWriter
  /\ stale' = [g \in Connection |-> g # h /\ cache[g] # NoCache]
  /\ IF mode[h] \in {"deleting", "pruning"}
     THEN /\ Proceed(h, "closed") /\ locks' = [locks EXCEPT ![h] = {}]
          /\ known' = [known EXCEPT ![h] = NoIndex] /\ UNCHANGED cache
     ELSE /\ Proceed(h, "open") /\ UNCHANGED locks
          /\ IF mode[h] = "preparing" THEN UNCHANGED <<known, cache>>
             ELSE \E s \in locks[h] : /\ known' = [known EXCEPT ![h] = work.index[s]]
                                      /\ cache' = [cache EXCEPT ![h] = Captured(work, s)]
  /\ UNCHANGED <<work, preview, page>>

(* A statement or COMMIT raises: ROLLBACK, and the checkpoint is forgotten. *)
RollBack(h) ==
  /\ writer = h /\ writer' = NoWriter /\ work' = db /\ Forgets(h)
  /\ IF mode[h] = "pruning" THEN Proceed(h, "closed") /\ locks' = [locks EXCEPT ![h] = {}]
                          ELSE Proceed(h, "open") /\ UNCHANGED locks
  /\ UNCHANGED <<db, known, stale, preview, page>>

(* The transcript, a page of one entry at a time, with or without a cursor. *)
ReadPage(s) ==
  /\ Has(db, s) /\ db.index[s].prepared
  /\ LET follows == /\ page.session = {s} /\ page.generation = db.generation
                    /\ Same(page.index, db.index[s])
         at == IF follows THEN page.next ELSE 1
         got == IF follows THEN page.got ELSE Empty
     IN /\ at \in Position /\ db.index[s].entries[at] # NoEntry
        /\ db.rows[s][at] # NoEntry
        /\ page' = [session |-> {s}, index |-> db.index[s], generation |-> db.generation,
                    got |-> [got EXCEPT ![at] = db.rows[s][at]], next |-> at + 1]
  /\ UNCHANGED <<db, writer, work, mode, locks, known, cache, stale, preview>>

SQLiteNext == \/ \E h \in Connection :
                   Disconnect(h) \/ ConfirmPrune(h) \/ Prune(h) \/ Commit(h) \/ RollBack(h)
              \/ \E h \in Connection, s \in Session :
                   \/ Connect(h, s) \/ LoadWorking(h, s) \/ SaveWorking(h, s)
                   \/ ImportSnapshot(h, s) \/ Prepare(h, s) \/ DeleteSession(h, s)
              \/ \E T \in SUBSET Session : Preview(T)
              \/ \E s \in Session : ReadPage(s)
SQLiteSpec == SQLiteInit /\ [][SQLiteNext]_sqliteVars

-----------------------------------------------------------------------------
(* A session's rows, artifacts and index are one revision of it, though     *)
(* each save wrote only differences.  The handle that has its lock knows    *)
(* that revision, a checkpoint that would be trusted is the truth, and the  *)
(* pages of one transcript come from one revision.                          *)
OneRevision ==
  /\ \A s \in Session : Has(db, s) => Loads(db, s)
  /\ \A s \in Session : ~Has(db, s) => db.rows[s] = Empty /\ db.artifacts[s] = {}
  /\ \A h \in Connection, s \in Session :
       locks[h] = {s} /\ mode[h] # "closed" =>
         /\ known[h] # NoIndex => Same(known[h], db.index[s])
         /\ Current(h, s) => cache[h] = Captured(db, s)
  /\ \A p \in Position : page.got[p] \in {NoEntry, page.index.entries[p]}

(* It is a catalog of whole snapshots: what the rows and artifacts decode   *)
(* to changes by next revisions, additions and removals alone.              *)
Decoded(s) ==
  IF ~Has(db, s) THEN [revision |-> 0, entries |-> <<>>]
  ELSE [revision |-> db.index[s].revision,
        entries |-> [p \in Position |-> IF db.rows[s][p] \in Heavy \ db.artifacts[s]
                                        THEN "lost" ELSE db.rows[s][p]]]
Catalog == INSTANCE SessionCatalog WITH saved <- [s \in Session |-> Decoded(s)]
ImplementsCatalog == Catalog!Spec

(* A prune removes exactly what the user consented to, and only while all   *)
(* the policy looked at is as it was shown: nothing was saved since by any  *)
(* process, nobody has a target open, and the newest sessions stay.         *)
PrunedAsShown ==
  [][\A h \in Connection : mode[h] = "pruning" /\ writer = h /\ db' # db =>
       /\ db.index = preview.index /\ db.generation = preview.generation
       /\ {s \in Session : Has(db, s) /\ db'.index[s] = NoIndex} = preview.targets
       /\ \A s \in preview.targets, g \in Connection \ {h} : s \notin locks[g]
       /\ Cardinality({s \in Session : db'.index[s] # NoIndex})
            >= (IF Cardinality({s \in Session : Has(db, s)}) < Keep
                THEN Cardinality({s \in Session : Has(db, s)}) ELSE Keep)]_sqliteVars
=============================================================================
