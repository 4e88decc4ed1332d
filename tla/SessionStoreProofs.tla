--------------------------- MODULE SessionStoreProofs ---------------------------
(***************************************************************************)
(* What the two stores of sessions promise holds for any number of          *)
(* handles, sessions, entries and revisions.                                *)
(*                                                                         *)
(* ConversationStore, one JSON file: the flock makes the one live handle    *)
(* the only one that touches the session (Exclusive); what a call in        *)
(* progress knows of the file (CallKnows) is then right until the call      *)
(* ends, and so the file changes as an entry of SessionCatalog does.        *)
(*                                                                         *)
(* SQLiteStore, the same over many tables: a transaction stays inside the   *)
(* sessions its handle has locked (WriterAlone), so what another handle     *)
(* took from the store stays true (HandlesKnow); and a save that writes     *)
(* differences from a true checkpoint writes the whole (StatementsWork).    *)
(***************************************************************************)
EXTENDS ConversationStore, SQLiteStore, FiniteSetTheorems, WellFoundedInduction, TLAPS

-----------------------------------------------------------------------------
(* The JSON store.                                                          *)

\* A live handle has the lock, and only one handle has it.
Exclusive == /\ lock # 0
             /\ \A h \in Handle : pc[h] # "closed" => held[h] = lock
             /\ \A g, h \in Handle : held[g] = lock /\ held[h] = lock => g = h

CallKnows ==
  \A h \in Handle :
    /\ pc[h] \in {"checked", "placed"} \cup Staging =>
         target[h] \in Target /\ target[h].kind \in {"save", "import"}
    /\ pc[h] \in {"checked"} \cup Staging /\ Saves(h) =>
         target[h].state.revision = seen[h].revision + 1
    /\ pc[h] = "staged" => temp[h] = "synced"
    /\ pc[h] = "deleting" => target[h] \in Target /\ target[h].kind = "delete"
    /\ pc[h] = "confirm" => target[h] \in Target
    /\ pc[h] \in {"placed", "confirm"} => file = target[h].state
    /\ pc[h] = "unlinked" => file = NoFile

StoreInv == /\ StoreTypeOK /\ Exclusive /\ CallKnows /\ CheckedStaysTrue /\ StagingKept
            /\ file \in mayBe /\ SnapshotsWhole /\ PromisesKept

-----------------------------------------------------------------------------
LEMMA SnapshotFacts ==
  /\ NoFile \notin Snapshot /\ Torn \notin Snapshot /\ Nothing \notin Snapshot
  /\ NoFile # Torn /\ NoFile # Nothing
  /\ \A s \in Snapshot : s.revision \in Nat
BY StoreAssumption DEF NoFile, Torn, Nothing, Snapshot

LEMMA TypeStep == StoreTypeOK /\ CallKnows /\ [Next]_vars => StoreTypeOK'
<1> SUFFICES ASSUME StoreTypeOK, CallKnows, [Next]_vars PROVE StoreTypeOK'
  OBVIOUS
<1> USE DEF StoreTypeOK, Staging
<1>1. ASSUME NEW h \in Handle, Open(h) PROVE StoreTypeOK'
  BY <1>1 DEF Open, Goto
<1>2. ASSUME NEW h \in Handle, OpenSweep(h) PROVE StoreTypeOK'
  BY <1>2 DEF OpenSweep, Goto
<1>3. ASSUME NEW h \in Handle, Close(h) PROVE StoreTypeOK'
  BY <1>3 DEF Close, Goto
<1>4. ASSUME NEW h \in Handle, Load(h) PROVE StoreTypeOK'
  BY <1>4 DEF Load
<1>5. ASSUME NEW h \in Handle, Save(h) PROVE StoreTypeOK'
  <2>1. seen[h].revision + 1 \in 0..MaxRevision
    BY <1>5, StoreAssumption DEF Save, Snapshot, NoFile
  <2>2. target' \in [Handle -> Target \cup {NoTarget}]
    BY <1>5, <2>1 DEF Save, Call, Target, Snapshot
  <2>3. pc' = [pc EXCEPT ![h] = "checked"] /\ temp[h] = "none"
    BY <1>5 DEF Save, Goto
  <2> QED BY <1>5, <2>2, <2>3 DEF Save
<1>6. ASSUME NEW h \in Handle, Import(h) PROVE StoreTypeOK'
  BY <1>6 DEF Import, Goto, Call, Target
<1>7. ASSUME NEW h \in Handle, Confirm(h) PROVE StoreTypeOK'
  BY <1>7 DEF Confirm, Goto, Target, CallKnows
<1>8. ASSUME NEW h \in Handle, Create(h) PROVE StoreTypeOK'
  BY <1>8 DEF Create, Goto
<1>9. ASSUME NEW h \in Handle, Write(h) PROVE StoreTypeOK'
  BY <1>9 DEF Write, Goto
<1>10. ASSUME NEW h \in Handle, Replace(h) PROVE StoreTypeOK'
  BY <1>10 DEF Replace, Goto, Target, CallKnows
<1>11. ASSUME NEW h \in Handle, Sync(h) PROVE StoreTypeOK'
  BY <1>11 DEF Sync, Goto, Target, CallKnows
<1>12. ASSUME NEW h \in Handle, Raises(h) PROVE StoreTypeOK'
  BY <1>12 DEF Raises, Goto
<1>13. ASSUME NEW h \in Handle, Delete(h) PROVE StoreTypeOK'
  BY <1>13 DEF Delete, Goto, Call, Target
<1>14. ASSUME NEW h \in Handle, Unlink(h) PROVE StoreTypeOK'
  BY <1>14 DEF Unlink, Goto
<1>15. ASSUME NEW h \in Handle, DeleteSync(h) PROVE StoreTypeOK'
  BY <1>15 DEF DeleteSync, Goto
<1>16. ASSUME NEW h \in Handle, SweepSync(h) PROVE StoreTypeOK'
  BY <1>16 DEF SweepSync
<1>17. ASSUME NEW h \in Handle, NEW g \in Handle, UnlinkTemp(h, g) PROVE StoreTypeOK'
  BY <1>17 DEF UnlinkTemp
<1>18. CASE PowerLoss
  BY <1>18 DEF PowerLoss
<1>19. CASE UNCHANGED vars
  BY <1>19 DEF vars
<1> QED BY <1>1, <1>2, <1>3, <1>4, <1>5, <1>6, <1>7, <1>8, <1>9, <1>10, <1>11, <1>12, <1>13, <1>14, <1>15, <1>16, <1>17, <1>18, <1>19 DEF Next

(* flock and the lock file that is never unlinked.                          *)
LEMMA ExclusiveStep == StoreTypeOK /\ Exclusive /\ [Next]_vars => Exclusive'
<1> SUFFICES ASSUME StoreTypeOK, Exclusive, [Next]_vars PROVE Exclusive'
  OBVIOUS
<1> USE DEF StoreTypeOK, Exclusive
<1>1. ASSUME NEW h \in Handle, Open(h) PROVE Exclusive'
  BY <1>1 DEF Open, Goto, Unlocked
<1>2. ASSUME NEW h \in Handle, OpenSweep(h) PROVE Exclusive'
  BY <1>2 DEF OpenSweep, Goto, Unlocked
<1>3. ASSUME NEW h \in Handle, Close(h) PROVE Exclusive'
  BY <1>3 DEF Close, Goto
<1>4. ASSUME NEW h \in Handle, Load(h) PROVE Exclusive'
  BY <1>4 DEF Load
<1>5. ASSUME NEW h \in Handle, Save(h) PROVE Exclusive'
  BY <1>5 DEF Save, Goto
<1>6. ASSUME NEW h \in Handle, Import(h) PROVE Exclusive'
  BY <1>6 DEF Import, Goto
<1>7. ASSUME NEW h \in Handle, Confirm(h) PROVE Exclusive'
  BY <1>7 DEF Confirm, Goto
<1>8. ASSUME NEW h \in Handle, Create(h) PROVE Exclusive'
  BY <1>8 DEF Create, Goto
<1>9. ASSUME NEW h \in Handle, Write(h) PROVE Exclusive'
  BY <1>9 DEF Write, Goto
<1>10. ASSUME NEW h \in Handle, Replace(h) PROVE Exclusive'
  BY <1>10 DEF Replace, Goto
<1>11. ASSUME NEW h \in Handle, Sync(h) PROVE Exclusive'
  BY <1>11 DEF Sync, Goto
<1>12. ASSUME NEW h \in Handle, Raises(h) PROVE Exclusive'
  BY <1>12 DEF Raises, Goto, Staging
<1>13. ASSUME NEW h \in Handle, Delete(h) PROVE Exclusive'
  BY <1>13 DEF Delete, Goto
<1>14. ASSUME NEW h \in Handle, Unlink(h) PROVE Exclusive'
  BY <1>14 DEF Unlink, Goto
<1>15. ASSUME NEW h \in Handle, DeleteSync(h) PROVE Exclusive'
  BY <1>15 DEF DeleteSync, Goto
<1>16. ASSUME NEW h \in Handle, SweepSync(h) PROVE Exclusive'
  BY <1>16 DEF SweepSync
<1>17. ASSUME NEW h \in Handle, NEW g \in Handle, UnlinkTemp(h, g) PROVE Exclusive'
  BY <1>17 DEF UnlinkTemp
<1>18. CASE PowerLoss
  BY <1>18 DEF PowerLoss
<1>19. CASE UNCHANGED vars
  BY <1>19 DEF vars
<1> QED BY <1>1, <1>2, <1>3, <1>4, <1>5, <1>6, <1>7, <1>8, <1>9, <1>10, <1>11, <1>12, <1>13, <1>14, <1>15, <1>16, <1>17, <1>18, <1>19 DEF Next

(* What a call knows and what it has checked: the other handles are closed. *)
LEMMA CallStep ==
  StoreInv /\ [Next]_vars => CallKnows' /\ CheckedStaysTrue' /\ StagingKept'
<1> DEFINE Knows == CallKnows /\ CheckedStaysTrue /\ StagingKept
<1> SUFFICES ASSUME StoreInv, [Next]_vars PROVE Knows'
  OBVIOUS
<1>0. \A g, h \in Handle : pc[g] # "closed" /\ pc[h] # "closed" => g = h
  BY DEF StoreInv, Exclusive
<1> USE DEF StoreInv, StoreTypeOK, CallKnows, CheckedStaysTrue, StagingKept, Staging, Saves, Expected
<1>1. ASSUME NEW h \in Handle, Open(h) PROVE Knows'
  BY <1>0, <1>1 DEF Open, Goto
<1>2. ASSUME NEW h \in Handle, OpenSweep(h) PROVE Knows'
  BY <1>0, <1>2 DEF OpenSweep, Goto
<1>3. ASSUME NEW h \in Handle, Close(h) PROVE Knows'
  BY <1>0, <1>3 DEF Close, Goto
<1>4. ASSUME NEW h \in Handle, Load(h) PROVE Knows'
  BY <1>0, <1>4 DEF Load
<1>5. ASSUME NEW h \in Handle, Save(h) PROVE Knows'
  <2>1. PICK b \in Body :
          target' = [target EXCEPT ![h] =
                       [kind |-> "save", state |-> [revision |-> seen[h].revision + 1, body |-> b]]]
    BY <1>5 DEF Save, Call
  <2>2. seen[h].revision + 1 \in 0..MaxRevision
    BY <1>5, StoreAssumption DEF Save, Snapshot, NoFile
  <2>3. target'[h] \in Target /\ target'[h].kind = "save"
        /\ target'[h].state.revision = seen[h].revision + 1
    BY <2>1, <2>2 DEF Target, Snapshot
  <2>4. pc' = [pc EXCEPT ![h] = "checked"] /\ \A g \in Handle : g # h => pc'[g] = "closed"
    BY <1>0, <1>5 DEF Save, Goto
  <2> QED BY <1>5, <2>3, <2>4 DEF Save
<1>6. ASSUME NEW h \in Handle, Import(h) PROVE Knows'
  BY <1>0, <1>6 DEF Import, Goto, Call, Target
<1>7. ASSUME NEW h \in Handle, Confirm(h) PROVE Knows'
  BY <1>0, <1>7 DEF Confirm, Goto
<1>8. ASSUME NEW h \in Handle, Create(h) PROVE Knows'
  BY <1>0, <1>8 DEF Create, Goto
<1>9. ASSUME NEW h \in Handle, Write(h) PROVE Knows'
  BY <1>0, <1>9 DEF Write, Goto
<1>10. ASSUME NEW h \in Handle, Replace(h) PROVE Knows'
  BY <1>0, <1>10 DEF Replace, Goto
<1>11. ASSUME NEW h \in Handle, Sync(h) PROVE Knows'
  BY <1>0, <1>11 DEF Sync, Goto
<1>12. ASSUME NEW h \in Handle, Raises(h) PROVE Knows'
  BY <1>0, <1>12 DEF Raises, Goto
<1>13. ASSUME NEW h \in Handle, Delete(h) PROVE Knows'
  BY <1>0, <1>13 DEF Delete, Goto, Call, Target
<1>14. ASSUME NEW h \in Handle, Unlink(h) PROVE Knows'
  BY <1>0, <1>14 DEF Unlink, Goto
<1>15. ASSUME NEW h \in Handle, DeleteSync(h) PROVE Knows'
  BY <1>0, <1>15 DEF DeleteSync, Goto
<1>16. ASSUME NEW h \in Handle, SweepSync(h) PROVE Knows'
  BY <1>0, <1>16 DEF SweepSync
<1>17. ASSUME NEW h \in Handle, NEW g \in Handle, UnlinkTemp(h, g) PROVE Knows'
  BY <1>0, <1>17 DEF UnlinkTemp
<1>18. CASE PowerLoss
  BY <1>18 DEF PowerLoss
<1>19. CASE UNCHANGED vars
  BY <1>19 DEF vars
<1> QED BY <1>1, <1>2, <1>3, <1>4, <1>5, <1>6, <1>7, <1>8, <1>9, <1>10, <1>11, <1>12, <1>13, <1>14, <1>15, <1>16, <1>17, <1>18, <1>19 DEF Next

(* What the disk may hold.                                                  *)
LEMMA DiskStep ==
  StoreInv /\ [Next]_vars => file' \in mayBe' /\ SnapshotsWhole' /\ PromisesKept'
<1> DEFINE Disk == file \in mayBe /\ SnapshotsWhole /\ PromisesKept
<1> SUFFICES ASSUME StoreInv, [Next]_vars PROVE Disk'
  OBVIOUS
<1>0. \A h \in Handle : pc[h] \in {"checked", "placed"} \cup Staging => target[h].state \in Snapshot
  BY DEF StoreInv, CallKnows, Target
<1> USE DEF StoreInv, SnapshotsWhole, PromisesKept
<1>1. ASSUME NEW h \in Handle, Open(h) PROVE Disk'
  BY <1>0, <1>1, SnapshotFacts DEF Open
<1>2. ASSUME NEW h \in Handle, OpenSweep(h) PROVE Disk'
  BY <1>0, <1>2, SnapshotFacts DEF OpenSweep
<1>3. ASSUME NEW h \in Handle, Close(h) PROVE Disk'
  BY <1>0, <1>3, SnapshotFacts DEF Close
<1>4. ASSUME NEW h \in Handle, Load(h) PROVE Disk'
  BY <1>0, <1>4, SnapshotFacts DEF Load
<1>5. ASSUME NEW h \in Handle, Save(h) PROVE Disk'
  BY <1>0, <1>5, SnapshotFacts DEF Save
<1>6. ASSUME NEW h \in Handle, Import(h) PROVE Disk'
  BY <1>0, <1>6, SnapshotFacts DEF Import
<1>7. ASSUME NEW h \in Handle, Confirm(h) PROVE Disk'
  BY <1>0, <1>7, SnapshotFacts DEF Confirm, CallKnows, Target
<1>8. ASSUME NEW h \in Handle, Create(h) PROVE Disk'
  BY <1>0, <1>8, SnapshotFacts DEF Create
<1>9. ASSUME NEW h \in Handle, Write(h) PROVE Disk'
  BY <1>0, <1>9, SnapshotFacts DEF Write
<1>10. ASSUME NEW h \in Handle, Replace(h) PROVE Disk'
  <2>1. target[h].state \in Snapshot /\ temp[h] = "synced"
    BY <1>0, <1>10 DEF Replace, Staging, CallKnows
  <2>2. file' = target[h].state /\ mayBe' = mayBe \cup {file'}
    BY <1>10, <2>1 DEF Replace
  <2>3. file = IF Saves(h) THEN seen[h] ELSE NoFile
    BY <1>10 DEF Replace, CheckedStaysTrue, Staging, Expected, Saves, CallKnows
  <2>4. ASSUME promised \in Snapshot
        PROVE  file \in Snapshot /\ file'.revision > promised.revision
    <3>1. file = promised \/ file.revision > promised.revision
      BY <2>4
    <3>2. file \in Snapshot
      BY <3>1, <2>4, SnapshotFacts DEF StoreTypeOK, Torn, NoFile
    <3>3. Saves(h) /\ file'.revision = file.revision + 1
      BY <1>10, <2>2, <2>3, <3>2, SnapshotFacts DEF Replace, CallKnows, Staging
    <3> QED BY <2>4, <3>1, <3>2, <3>3, SnapshotFacts
  <2>5. file' # Torn /\ file' # NoFile
    BY <2>1, <2>2, SnapshotFacts
  <2> QED BY <1>10, <2>2, <2>4, <2>5, SnapshotFacts DEF Replace
<1>11. ASSUME NEW h \in Handle, Sync(h) PROVE Disk'
  BY <1>0, <1>11, SnapshotFacts DEF Sync, CallKnows, Target
<1>12. ASSUME NEW h \in Handle, Raises(h) PROVE Disk'
  BY <1>0, <1>12, SnapshotFacts DEF Raises
<1>13. ASSUME NEW h \in Handle, Delete(h) PROVE Disk'
  BY <1>0, <1>13, SnapshotFacts DEF Delete
<1>14. ASSUME NEW h \in Handle, Unlink(h) PROVE Disk'
  BY <1>0, <1>14, SnapshotFacts DEF Unlink
<1>15. ASSUME NEW h \in Handle, DeleteSync(h) PROVE Disk'
  BY <1>0, <1>15, SnapshotFacts DEF DeleteSync, CallKnows
<1>16. ASSUME NEW h \in Handle, SweepSync(h) PROVE Disk'
  BY <1>0, <1>16, SnapshotFacts DEF SweepSync
<1>17. ASSUME NEW h \in Handle, NEW g \in Handle, UnlinkTemp(h, g) PROVE Disk'
  BY <1>17 DEF UnlinkTemp
<1>18. CASE PowerLoss
  BY <1>18 DEF PowerLoss
<1>19. CASE UNCHANGED vars
  BY <1>19 DEF vars
<1> QED BY <1>1, <1>2, <1>3, <1>4, <1>5, <1>6, <1>7, <1>8, <1>9, <1>10, <1>11, <1>12, <1>13, <1>14, <1>15, <1>16, <1>17, <1>18, <1>19 DEF Next

-----------------------------------------------------------------------------
LEMMA InvInit == Init => StoreInv
BY SnapshotFacts DEF Init, StoreInv, StoreTypeOK, Exclusive, CallKnows, CheckedStaysTrue,
   StagingKept, SnapshotsWhole, PromisesKept, Staging

(* One handle at a time, calls that stay right, and a disk that keeps what  *)
(* was promised: the invariant the properties follow from.                  *)
THEOREM StoreInvariant == Spec => []StoreInv
<1>1. StoreInv /\ [Next]_vars => StoreInv'
  BY TypeStep, ExclusiveStep, CallStep, DiskStep DEF StoreInv
<1> QED BY InvInit, <1>1, PTL DEF Spec

(* No reader and no power failure finds half a snapshot, and what save,     *)
(* publish_snapshot and delete promise survives a power failure.            *)
THEOREM PromisesSurvive == Spec => []DurableAsPromised
<1>1. StoreInv => DurableAsPromised
  BY DEF StoreInv, DurableAsPromised
<1> QED BY StoreInvariant, <1>1, PTL

(* A save loses no update, an import overwrites nothing, a delete removes   *)
(* what was selected, and no deletion or sweep takes the staging file of a  *)
(* save in progress.                                                        *)
THEOREM ChecksHold == Spec => []CallsStayRight
<1>1. StoreInv => CallsStayRight
  BY DEF StoreInv, CallsStayRight
<1> QED BY StoreInvariant, <1>1, PTL

(* The file as the one entry of a catalog, whatever a body says.            *)
Entry == IF file \in Snapshot THEN [revision |-> file.revision, entries |-> <<file.body>>]
         ELSE [revision |-> 0, entries |-> <<>>]
OneFile == INSTANCE SessionCatalog
             WITH Session <- {"session"}, Content <- {<<b>> : b \in Body},
                  saved <- [s \in {"session"} |-> Entry]

(* A rename of a save finds the revision before its own, that of an import  *)
(* finds nothing: both by what the call knows of the file.                  *)
LEMMA RenamesAre ==
  ASSUME StoreInv, NEW h \in Handle, Replace(h)
  PROVE  /\ file' \in Snapshot
         /\ file = NoFile \/ (file \in Snapshot /\ file'.revision = file.revision + 1)
<1>1. /\ pc[h] = "staged" /\ file' = target[h].state
      /\ target[h] \in Target /\ target[h].kind \in {"save", "import"}
      /\ Saves(h) => target[h].state.revision = seen[h].revision + 1
  BY DEF Replace, StoreInv, CallKnows, Staging
<1>2. file = IF Saves(h) THEN seen[h] ELSE NoFile
  BY <1>1 DEF StoreInv, CheckedStaysTrue, Staging, Expected, Saves
<1>3. file \in Snapshot \cup {NoFile}
  BY <1>2 DEF StoreInv, StoreTypeOK
<1> QED BY <1>1, <1>2, <1>3 DEF Target

LEMMA EntryFacts ==
  /\ file \in Snapshot => /\ Entry \in OneFile!Snapshot /\ Entry # OneFile!Missing
                          /\ Entry.revision = file.revision
  /\ file = NoFile => Entry = OneFile!Missing
<1>1. ASSUME file \in Snapshot
      PROVE  /\ Entry \in OneFile!Snapshot /\ Entry # OneFile!Missing
             /\ Entry.revision = file.revision
  <2>1. Entry = [revision |-> file.revision, entries |-> <<file.body>>]
    BY <1>1 DEF Entry
  <2>2. file.revision \in Nat /\ file.body \in Body
    BY <1>1, SnapshotFacts DEF Snapshot
  <2>3. <<file.body>> # <<>>
    OBVIOUS
  <2> QED BY <2>1, <2>2, <2>3 DEF OneFile!Snapshot, OneFile!Missing
<1>2. file = NoFile => Entry = OneFile!Missing
  BY SnapshotFacts DEF Entry, OneFile!Missing
<1> QED BY <1>1, <1>2

(* While the power holds, the file is a catalog with one session too: every *)
(* system call of every handle, sweep and kill leaves the snapshot alone,   *)
(* replaces it by its next revision, adds it where there was none, or       *)
(* removes it.  (A power failure may take the last rename back; see         *)
(* PromisesSurvive for what it may not.)                                    *)
THEOREM FileIsCatalog ==
  Spec => OneFile!Init /\ [][PowerLoss \/ [OneFile!Next]_Entry]_vars
<1>1. Init => OneFile!Init
  BY EntryFacts DEF Init, OneFile!Init
<1>2. StoreInv /\ StoreInv' /\ [Next]_vars => [PowerLoss \/ [OneFile!Next]_Entry]_vars
  <2> SUFFICES ASSUME StoreInv, StoreInv', Next, ~PowerLoss, file' # file
               PROVE  OneFile!Next
    BY DEF vars, Entry
  <2> DEFINE saved == [s \in {"session"} |-> Entry]
  <2>1. file \in Snapshot \cup {NoFile} /\ file' \in Snapshot \cup {NoFile}
    BY DEF StoreInv, StoreTypeOK, SnapshotsWhole
  <2>2. EntryFacts'
    BY EntryFacts, PTL
  <2>3. saved' \in [{"session"} -> OneFile!Snapshot \cup {OneFile!Missing}]
    BY <2>1, <2>2
  <2>4. ASSUME NEW h \in Handle, Replace(h) PROVE OneFile!Next
    BY <2>1, <2>2, <2>3, <2>4, RenamesAre, EntryFacts
       DEF OneFile!Next, OneFile!Replace, OneFile!Add, OneFile!Others
  <2>5. ASSUME NEW h \in Handle, Unlink(h) PROVE OneFile!Next
    <3>1. saved' = [s \in {"session"} |-> IF s \in {"session"} THEN OneFile!Missing ELSE saved[s]]
      BY <2>2, <2>5 DEF Unlink
    <3>2. OneFile!Remove({"session"})
      BY <3>1 DEF OneFile!Remove
    <3> QED BY <2>3, <3>2 DEF OneFile!Next
  <2>6. \E h \in Handle : Replace(h) \/ Unlink(h)
    BY Zenon DEF Next, Open, OpenSweep, Close, Load, Save, Import, Confirm, Create, Write, Sync,
       Raises, Delete, UnlinkTemp, SweepSync, DeleteSync
  <2> QED BY <2>4, <2>5, <2>6
<1> QED BY <1>1, <1>2, StoreInvariant, PTL DEF Spec

-----------------------------------------------------------------------------
(* The SQLite store.                                                        *)

(* Rows and artifacts are those the indexes describe; where there is no     *)
(* index, there are none.                                                   *)
Whole(d) == /\ d \in Database
            /\ \A s \in Session : /\ d.rows[s] = d.index[s].entries
                                  /\ d.artifacts[s] = Artifacts(d.index[s].entries)

Writing == {"saving", "importing", "preparing", "deleting", "pruning"}

ReadersTyped == /\ preview.targets \subseteq Session
                /\ page.index \in Index \cup {NoIndex} /\ page.got \in [Position -> Row]

(* What a handle holds: one session, the targets of its prune, or nothing.  *)
HandlesApart ==
  /\ \A g, h \in Connection : g # h => locks[g] \cap locks[h] = {}
  /\ \A h \in Connection :
       /\ mode[h] = "closed" => locks[h] = {}
       /\ mode[h] \in {"confirmed", "pruning"} => locks[h] = preview.targets
       /\ mode[h] \notin {"closed", "confirmed", "pruning"} => \E s \in Session : locks[h] = {s}
       /\ mode[h] \in {"closed", "confirmed", "pruning"} => known[h] = NoIndex
       /\ mode[h] \in {"closed", "confirmed", "pruning", "deleting"} => cache[h] = NoCache

(* Nobody else writes, and a transaction differs from the database only in  *)
(* the sessions its handle has locked.                                      *)
WriterAlone ==
  /\ \A h \in Connection : mode[h] \in Writing <=> writer = h
  /\ writer = NoWriter => work = db
  /\ writer # NoWriter => \A t \in Session \ locks[writer] : work.index[t] = db.index[t]

(* What its COMMIT will do to them.                                         *)
WorkGoesOn ==
  \A h \in Connection :
    /\ mode[h] = "saving" => \A s \in locks[h] :
         Has(work, s) /\ (Has(db, s) => work.index[s].revision = db.index[s].revision + 1)
    /\ mode[h] = "importing" => \A s \in locks[h] : Has(work, s) /\ ~Has(db, s)
    /\ mode[h] = "preparing" => \A s \in locks[h] :
         Has(work, s) /\ Has(db, s) /\ Same(work.index[s], db.index[s])
    /\ mode[h] \in {"deleting", "pruning"} => \A s \in locks[h] : ~Has(work, s)

(* What a handle took from the store is still so.                           *)
HandlesKnow ==
  \A h \in Connection :
    /\ known[h] # NoIndex => \A s \in locks[h] : Same(known[h], db.index[s])
    /\ cache[h].artifacts = Artifacts(cache[h].index.entries)

PagesAgree == \A p \in Position : page.got[p] \in {NoEntry, page.index.entries[p]}

(* The plan is read again once nobody else can write.                       *)
PlanHolds ==
  \A h \in Connection : mode[h] = "pruning" =>
    /\ preview.index = db.index /\ preview.generation = db.generation
    /\ preview.targets # {} /\ \A s \in preview.targets : Candidate(db, s)

SQLiteInv == /\ SQLiteTypeOK /\ ReadersTyped /\ Whole(db) /\ Whole(work) /\ HandlesApart
             /\ WriterAlone /\ WorkGoesOn /\ HandlesKnow /\ PagesAgree /\ PlanHolds

-----------------------------------------------------------------------------
(* Indexes, rows and artifacts.                                             *)

LEMMA ContentFacts ==
  /\ Content \subseteq [Position -> Row] /\ Empty \in Content /\ Artifacts(Empty) = {}
  /\ \A c \in Content : Artifacts(c) \subseteq Heavy
<1>1. NoEntry \in Row /\ NoEntry \notin Heavy
  BY SQLiteAssumption DEF Row
<1>2. Empty \in Content
  BY <1>1 DEF Empty, Content
<1>3. Artifacts(Empty) = {}
  BY <1>1 DEF Artifacts, Empty
<1> QED BY <1>2, <1>3 DEF Content, Artifacts

LEMMA IndexFacts ==
  /\ NoIndex \notin Index /\ NoIndex.revision = -1 /\ NoIndex.entries = Empty
  /\ ~NoIndex.prepared /\ NoIndex.modified = 0
  /\ \A i \in Index \cup {NoIndex} :
       /\ i.entries \in Content /\ i.modified \in Nat
       /\ i.revision \in Int /\ (i # NoIndex <=> i.revision \in Nat)
<1>1. /\ NoIndex.revision = -1 /\ NoIndex.entries = Empty /\ NoIndex.modified = 0
      /\ NoIndex.prepared = FALSE
  BY DEF NoIndex
<1>2. ASSUME NEW i \in Index
      PROVE  /\ i.entries \in Content /\ i.modified \in Nat
             /\ i.revision \in Nat /\ i # NoIndex
  <2>1. i.entries \in Content /\ i.modified \in Nat /\ i.revision \in Nat
    BY DEF Index
  <2>2. i # NoIndex
    BY <1>1, <2>1
  <2> QED BY <2>1, <2>2
<1> QED BY <1>1, <1>2, ContentFacts

(* A save that skips what its verified checkpoint has already is one that   *)
(* writes everything.                                                       *)
LEMMA DifferencesComplete ==
  ASSUME NEW c \in Content, NEW prev, prev.index.entries \in Content,
         prev.artifacts = Artifacts(prev.index.entries)
  PROVE  /\ NewRows(c, prev, prev.index.entries) = c
         /\ NewArtifacts(c, prev, prev.artifacts) = Artifacts(c)
<1>1. c \in [Position -> Row] /\ prev.index.entries \in [Position -> Row]
  BY ContentFacts
<1>2. NewRows(c, prev, prev.index.entries) = c
  <2>1. ASSUME NEW p \in Position
        PROVE  NewRows(c, prev, prev.index.entries)[p] = c[p]
    BY DEF NewRows
  <2> QED BY <1>1, <2>1 DEF NewRows
<1>3. NewArtifacts(c, prev, prev.artifacts) = Artifacts(c)
  BY DEF NewArtifacts
<1> QED BY <1>2, <1>3

LEMMA WholeParts ==
  ASSUME NEW d, Whole(d)
  PROVE  /\ d.index \in [Session -> Index \cup {NoIndex}] /\ d.generation \in Nat
         /\ d.rows \in [Session -> [Position -> Row]] /\ d.artifacts \in [Session -> SUBSET Heavy]
         /\ d = [index |-> d.index, rows |-> d.rows, artifacts |-> d.artifacts,
                 generation |-> d.generation]
         /\ \A s \in Session : d.rows[s] = d.index[s].entries
                               /\ d.artifacts[s] = Artifacts(d.index[s].entries)
BY DEF Whole, Database

(* The work of a transaction is what it has as indexes, and is whole.       *)
Works(w, index) == Whole(w) /\ w.index = index

LEMMA StatementsWork ==
  ASSUME Whole(db), NEW s \in Session, NEW i \in Index, NEW prev,
         prev.index.entries = db.index[s].entries,
         prev.artifacts = Artifacts(db.index[s].entries)
  PROVE  Works([Statements(s, i, prev) EXCEPT !.generation = @ + 1],
               [db.index EXCEPT ![s] = i])
<1> DEFINE w == [Statements(s, i, prev) EXCEPT !.generation = @ + 1]
<1> DEFINE x == db.index r == db.rows a == db.artifacts n == db.generation
<1>1. /\ x \in [Session -> Index \cup {NoIndex}] /\ n \in Nat
      /\ r \in [Session -> [Position -> Row]] /\ a \in [Session -> SUBSET Heavy]
      /\ db = [index |-> x, rows |-> r, artifacts |-> a, generation |-> n]
      /\ \A t \in Session : r[t] = x[t].entries /\ a[t] = Artifacts(x[t].entries)
  BY WholeParts
<1>0. db.index = x /\ db.rows = r /\ db.artifacts = a /\ db.generation = n
  OBVIOUS
<1> HIDE DEF x, r, a, n
<1>2. /\ i.entries \in Content /\ i.entries \in [Position -> Row]
      /\ Artifacts(i.entries) \subseteq Heavy /\ x[s].entries \in Content
  BY <1>1, IndexFacts, ContentFacts
<1>3. /\ NewRows(i.entries, prev, r[s]) = i.entries
      /\ NewArtifacts(i.entries, prev, a[s]) = Artifacts(i.entries)
  <2>1. r[s] = prev.index.entries /\ a[s] = prev.artifacts /\ prev.index.entries = x[s].entries
    BY <1>0, <1>1
  <2> QED BY <1>2, <2>1, DifferencesComplete
<1>4. w = [index |-> [x EXCEPT ![s] = i],
           rows |-> [r EXCEPT ![s] = i.entries],
           artifacts |-> [a EXCEPT ![s] = Artifacts(i.entries)],
           generation |-> n + 1]
  <2> DEFINE v == Statements(s, i, prev)
  <2>1. v = [f \in {"index", "rows", "artifacts", "generation"} |-> v[f]]
    BY <1>1 DEF Statements
  <2>2. /\ v.index = [x EXCEPT ![s] = i] /\ v.rows = [r EXCEPT ![s] = i.entries]
        /\ v.artifacts = [a EXCEPT ![s] = Artifacts(i.entries)] /\ v.generation = n
    BY <1>1, <1>3 DEF Statements
  <2> HIDE DEF v
  <2>3. v = [index |-> [x EXCEPT ![s] = i], rows |-> [r EXCEPT ![s] = i.entries],
             artifacts |-> [a EXCEPT ![s] = Artifacts(i.entries)], generation |-> n]
    BY <2>1, <2>2
  <2>4. w = [v EXCEPT !.generation = @ + 1]
    BY DEF v
  <2> HIDE DEF w
  <2> QED BY <2>3, <2>4
<1> HIDE DEF w
<1>5. w \in Database
  BY <1>1, <1>2, <1>4 DEF Database
<1>6. \A t \in Session : w.rows[t] = w.index[t].entries
                         /\ w.artifacts[t] = Artifacts(w.index[t].entries)
  BY <1>1, <1>4
<1>7. Works(w, [db.index EXCEPT ![s] = i])
  BY <1>0, <1>4, <1>5, <1>6 DEF Works, Whole
<1> QED BY <1>7 DEF w

LEMMA RemovalWorks ==
  ASSUME Whole(db), NEW T \in SUBSET Session
  PROVE  Works([Without(T) EXCEPT !.generation = @ + 1],
               [s \in Session |-> IF s \in T THEN NoIndex ELSE db.index[s]])
<1> DEFINE w == [Without(T) EXCEPT !.generation = @ + 1]
<1> DEFINE x == db.index r == db.rows a == db.artifacts n == db.generation
<1>1. /\ x \in [Session -> Index \cup {NoIndex}] /\ n \in Nat
      /\ r \in [Session -> [Position -> Row]] /\ a \in [Session -> SUBSET Heavy]
      /\ db = [index |-> x, rows |-> r, artifacts |-> a, generation |-> n]
      /\ \A t \in Session : r[t] = x[t].entries /\ a[t] = Artifacts(x[t].entries)
  BY WholeParts
<1>0. db.index = x /\ db.rows = r /\ db.artifacts = a /\ db.generation = n
  OBVIOUS
<1> HIDE DEF x, r, a, n
<1>2. Empty \in [Position -> Row] /\ Artifacts(Empty) = {} /\ NoIndex.entries = Empty
  BY ContentFacts, IndexFacts
<1>3. w = [index |-> [s \in Session |-> IF s \in T THEN NoIndex ELSE x[s]],
           rows |-> [s \in Session |-> IF s \in T THEN Empty ELSE r[s]],
           artifacts |-> [s \in Session |-> IF s \in T THEN {} ELSE a[s]],
           generation |-> n + 1]
  <2> DEFINE v == Without(T)
  <2>1. v = [f \in {"index", "rows", "artifacts", "generation"} |-> v[f]]
    BY <1>1 DEF Without
  <2>2. /\ v.index = [s \in Session |-> IF s \in T THEN NoIndex ELSE x[s]]
        /\ v.rows = [s \in Session |-> IF s \in T THEN Empty ELSE r[s]]
        /\ v.artifacts = [s \in Session |-> IF s \in T THEN {} ELSE a[s]]
        /\ v.generation = n
    BY <1>1 DEF Without
  <2> HIDE DEF v
  <2>3. v = [index |-> [s \in Session |-> IF s \in T THEN NoIndex ELSE x[s]],
             rows |-> [s \in Session |-> IF s \in T THEN Empty ELSE r[s]],
             artifacts |-> [s \in Session |-> IF s \in T THEN {} ELSE a[s]],
             generation |-> n]
    BY <2>1, <2>2
  <2>4. w = [v EXCEPT !.generation = @ + 1]
    BY DEF v
  <2> HIDE DEF w
  <2> QED BY <2>3, <2>4
<1> HIDE DEF w
<1>4. w \in Database
  <2>1. w.index \in [Session -> Index \cup {NoIndex}]
    BY <1>1, <1>3
  <2>2. w.rows \in [Session -> [Position -> Row]]
    BY <1>1, <1>2, <1>3
  <2>3. w.artifacts \in [Session -> SUBSET Heavy]
    BY <1>1, <1>3
  <2>4. w.generation \in Nat
    BY <1>1, <1>3
  <2>5. w = [index |-> w.index, rows |-> w.rows, artifacts |-> w.artifacts,
             generation |-> w.generation]
    BY <1>3
  <2> QED BY <2>1, <2>2, <2>3, <2>4, <2>5 DEF Database
<1>5. \A t \in Session : w.rows[t] = w.index[t].entries
                         /\ w.artifacts[t] = Artifacts(w.index[t].entries)
  BY <1>1, <1>2, <1>3
<1>6. Works(w, [s \in Session |-> IF s \in T THEN NoIndex ELSE db.index[s]])
  BY <1>0, <1>3, <1>4, <1>5 DEF Works, Whole
<1> QED BY <1>6 DEF w

LEMMA PreparedField ==
  ASSUME NEW R, NEW x \in [Session -> R], NEW s \in Session
  PROVE  [x EXCEPT ![s].prepared = TRUE] = [x EXCEPT ![s] = [x[s] EXCEPT !.prepared = TRUE]]
OBVIOUS

LEMMA PreparationWorks ==
  ASSUME Whole(db), NEW s \in Session, Has(db, s)
  PROVE  /\ Works([[db EXCEPT !.index[s].prepared = TRUE] EXCEPT !.generation = @ + 1],
                  [db.index EXCEPT ![s].prepared = TRUE])
         /\ [db.index EXCEPT ![s].prepared = TRUE][s] \in Index
         /\ Same([db.index EXCEPT ![s].prepared = TRUE][s], db.index[s])
<1> DEFINE x == db.index r == db.rows a == db.artifacts n == db.generation
           i == [x[s] EXCEPT !.prepared = TRUE]
           w == [[db EXCEPT !.index[s].prepared = TRUE] EXCEPT !.generation = @ + 1]
<1>1. /\ x \in [Session -> Index \cup {NoIndex}] /\ n \in Nat
      /\ r \in [Session -> [Position -> Row]] /\ a \in [Session -> SUBSET Heavy]
      /\ db = [index |-> x, rows |-> r, artifacts |-> a, generation |-> n]
      /\ \A t \in Session : r[t] = x[t].entries /\ a[t] = Artifacts(x[t].entries)
  BY WholeParts
<1>0. db.index = x /\ db.rows = r /\ db.artifacts = a /\ db.generation = n
  OBVIOUS
<1> HIDE DEF x, r, a, n
<1>2. i \in Index /\ i.entries = x[s].entries /\ i.revision = x[s].revision
  BY <1>0, <1>1, ZenonT(60) DEF Has, Index
<1>3. [x EXCEPT ![s].prepared = TRUE] = [x EXCEPT ![s] = i]
  BY <1>1, PreparedField, Zenon
<1>4. w = [index |-> [x EXCEPT ![s] = i], rows |-> r,
           artifacts |-> a, generation |-> n + 1]
  <2> DEFINE v == [db EXCEPT !.index[s].prepared = TRUE]
  <2>1. v = [f \in {"index", "rows", "artifacts", "generation"} |-> v[f]]
    BY <1>1
  <2>2. /\ v.index = [x EXCEPT ![s].prepared = TRUE] /\ v.rows = r
        /\ v.artifacts = a /\ v.generation = n
    BY <1>1
  <2> HIDE DEF v
  <2>3. v = [index |-> [x EXCEPT ![s] = i], rows |-> r, artifacts |-> a, generation |-> n]
    BY <1>3, <2>1, <2>2
  <2>4. w = [v EXCEPT !.generation = @ + 1]
    BY DEF v
  <2> HIDE DEF w
  <2> QED BY <2>3, <2>4
<1> HIDE DEF w, i
<1>5. w \in Database
  BY <1>1, <1>2, <1>4 DEF Database
<1>6. \A t \in Session : w.rows[t] = w.index[t].entries
                         /\ w.artifacts[t] = Artifacts(w.index[t].entries)
  BY <1>1, <1>2, <1>4
<1>7. Works(w, [db.index EXCEPT ![s] = i])
  BY <1>0, <1>4, <1>5, <1>6 DEF Works, Whole
<1>8. [x EXCEPT ![s] = i][s] \in Index /\ Same([x EXCEPT ![s] = i][s], x[s])
  BY <1>1, <1>2 DEF Same
<1> QED BY <1>0, <1>3, <1>7, <1>8 DEF w

-----------------------------------------------------------------------------
(* The steps.                                                               *)

LEMMA NoIndexHeld ==
  /\ NoIndex \in Index \cup {NoIndex}
  /\ NoCache \in [index : Index \cup {NoIndex}, artifacts : SUBSET Heavy]
  /\ NoCache.artifacts = Artifacts(NoCache.index.entries)
  /\ NoCache.index = NoIndex
BY ContentFacts, IndexFacts DEF NoCache

LEMMA CapturedHeld ==
  ASSUME NEW d, Whole(d), NEW s \in Session
  PROVE  /\ Captured(d, s) \in [index : Index \cup {NoIndex}, artifacts : SUBSET Heavy]
         /\ Captured(d, s).index = d.index[s]
         /\ Captured(d, s).artifacts = Artifacts(d.index[s].entries)
         /\ d.index[s] \in Index \cup {NoIndex}
<1>1. /\ d.index \in [Session -> Index \cup {NoIndex}] /\ d.artifacts \in [Session -> SUBSET Heavy]
      /\ d.artifacts[s] = Artifacts(d.index[s].entries)
  BY WholeParts
<1> QED BY <1>1 DEF Captured

LEMMA ConnectKeeps ==
  ASSUME SQLiteInv, NEW h \in Connection, NEW s \in Session, Connect(h, s)
  PROVE  SQLiteInv'
<1> USE DEF SQLiteInv
<1>1. /\ mode[h] = "closed" /\ locks' = [locks EXCEPT ![h] = {s}]
      /\ mode' = [mode EXCEPT ![h] = "open"] /\ Free({s})
      /\ UNCHANGED <<db, writer, work, known, cache, stale, preview, page>>
      /\ writer # h
  BY DEF Connect, Proceed, WriterAlone, Writing
<1>2. SQLiteTypeOK' /\ ReadersTyped' /\ PagesAgree'
  BY <1>1 DEF SQLiteTypeOK, ReadersTyped, PagesAgree
<1>3. Whole(db)' /\ Whole(work)'
  BY <1>1 DEF Whole
<1>4. HandlesApart'
  <2>1. ASSUME NEW f \in Connection, NEW g \in Connection, f # g
        PROVE  locks'[f] \cap locks'[g] = {}
    BY <1>1, <2>1 DEF SQLiteTypeOK, HandlesApart, Free
  <2> QED BY <1>1, <2>1 DEF SQLiteTypeOK, HandlesApart
<1>5. WriterAlone'
  BY <1>1 DEF SQLiteTypeOK, WriterAlone, Writing
<1>6. WorkGoesOn'
  BY <1>1 DEF SQLiteTypeOK, WorkGoesOn, Has
<1>7. HandlesKnow'
  BY <1>1 DEF SQLiteTypeOK, HandlesKnow, HandlesApart
<1>8. PlanHolds'
  BY <1>1 DEF SQLiteTypeOK, PlanHolds
<1> QED BY <1>2, <1>3, <1>4, <1>5, <1>6, <1>7, <1>8

LEMMA DisconnectKeeps ==
  ASSUME SQLiteInv, NEW h \in Connection, Disconnect(h)
  PROVE  SQLiteInv'
<1> USE DEF SQLiteInv
<1>1. /\ locks' = [locks EXCEPT ![h] = {}] /\ mode' = [mode EXCEPT ![h] = "closed"]
      /\ known' = [known EXCEPT ![h] = NoIndex] /\ cache' = [cache EXCEPT ![h] = NoCache]
      /\ stale' = [stale EXCEPT ![h] = FALSE]
      /\ UNCHANGED <<db, preview, page>>
      /\ \/ writer = h /\ writer' = NoWriter /\ work' = db
         \/ writer # h /\ UNCHANGED <<writer, work>>
  BY DEF Disconnect, Proceed, Forgets
<1>2. SQLiteTypeOK' /\ ReadersTyped' /\ PagesAgree'
  BY <1>1, NoIndexHeld DEF SQLiteTypeOK, ReadersTyped, PagesAgree
<1>3. Whole(db)' /\ Whole(work)'
  BY <1>1 DEF Whole
<1>4. HandlesApart'
  BY <1>1 DEF SQLiteTypeOK, HandlesApart
<1>5. WriterAlone'
  BY <1>1, SQLiteAssumption DEF SQLiteTypeOK, WriterAlone, Writing
<1>6. WorkGoesOn'
  <2>1. ASSUME NEW g \in Connection, mode'[g] \in Writing
        PROVE  g # h /\ mode'[g] = mode[g] /\ locks'[g] = locks[g] /\ work' = work
    BY <1>1, <2>1 DEF SQLiteTypeOK, WriterAlone, Writing
  <2> QED BY <1>1, <2>1 DEF WorkGoesOn, Has, Writing
<1>7. HandlesKnow'
  BY <1>1, NoIndexHeld DEF SQLiteTypeOK, HandlesKnow
<1>8. PlanHolds'
  BY <1>1 DEF SQLiteTypeOK, PlanHolds
<1> QED BY <1>2, <1>3, <1>4, <1>5, <1>6, <1>7, <1>8

LEMMA LoadWorkingKeeps ==
  ASSUME SQLiteInv, NEW h \in Connection, NEW s \in Session, LoadWorking(h, s)
  PROVE  SQLiteInv'
<1> USE DEF SQLiteInv
<1>1. /\ mode[h] = "open" /\ locks[h] = {s}
      /\ known' = [known EXCEPT ![h] = db.index[s]]
      /\ cache' = [cache EXCEPT ![h] = Captured(db, s)]
      /\ stale' = [stale EXCEPT ![h] = FALSE]
      /\ UNCHANGED <<db, writer, work, mode, locks, preview, page>>
  BY DEF LoadWorking
<1>2. SQLiteTypeOK' /\ ReadersTyped' /\ PagesAgree'
  BY <1>1, CapturedHeld DEF SQLiteTypeOK, ReadersTyped, PagesAgree
<1>3. Whole(db)' /\ Whole(work)'
  BY <1>1 DEF Whole
<1>4. HandlesApart' /\ WriterAlone'
  BY <1>1 DEF SQLiteTypeOK, HandlesApart, WriterAlone
<1>5. WorkGoesOn' /\ PlanHolds'
  BY <1>1 DEF WorkGoesOn, PlanHolds, Has
<1>6. HandlesKnow'
  BY <1>1, CapturedHeld DEF SQLiteTypeOK, HandlesKnow, Same
<1> QED BY <1>2, <1>3, <1>4, <1>5, <1>6

(* Every write transaction: what its statements make of the indexes is      *)
(* whole, and stays inside what its handle has locked.                      *)
LEMMA BeginsKeeps ==
  ASSUME SQLiteInv, NEW h \in Connection, NEW l \in Writing,
         NEW x \in [Session -> Index \cup {NoIndex}],
         writer = NoWriter, writer' = h, mode' = [mode EXCEPT ![h] = l], Works(work', x),
         UNCHANGED <<db, locks, known, stale, preview, page>>,
         cache' = cache \/ cache' = [cache EXCEPT ![h] = NoCache],
         l = "deleting" => cache'[h] = NoCache,
         (mode[h] = "open" /\ l # "pruning") \/ (mode[h] = "confirmed" /\ l = "pruning"),
         \A t \in Session \ locks[h] : x[t] = db.index[t],
         l = "saving" => \A s \in locks[h] :
           x[s] # NoIndex /\ (Has(db, s) => x[s].revision = db.index[s].revision + 1),
         l = "importing" => \A s \in locks[h] : x[s] # NoIndex /\ ~Has(db, s),
         l = "preparing" => \A s \in locks[h] :
           x[s] # NoIndex /\ Has(db, s) /\ Same(x[s], db.index[s]),
         l \in {"deleting", "pruning"} => \A s \in locks[h] : x[s] = NoIndex,
         l = "pruning" => /\ preview.index = db.index /\ preview.generation = db.generation
                          /\ preview.targets # {}
                          /\ \A s \in preview.targets : Candidate(db, s)
  PROVE  SQLiteInv'
<1> USE DEF SQLiteInv
<1>1. /\ work'.index = x /\ Whole(work')
      /\ \A g \in Connection : mode[g] \notin Writing
  BY SQLiteAssumption DEF Works, WriterAlone
<1>2. SQLiteTypeOK' /\ ReadersTyped' /\ PagesAgree'
  <2>1. work' \in Database
    BY <1>1 DEF Whole
  <2> QED BY <2>1, NoIndexHeld DEF SQLiteTypeOK, ReadersTyped, PagesAgree, Writing
<1>3. Whole(db)' /\ Whole(work)'
  BY <1>1 DEF Whole
<1>4. HandlesApart'
  BY DEF SQLiteTypeOK, HandlesApart, Writing
<1>5. WriterAlone'
  BY <1>1, SQLiteAssumption DEF SQLiteTypeOK, WriterAlone
<1>6. WorkGoesOn'
  <2>1. ASSUME NEW g \in Connection, mode'[g] \in Writing
        PROVE  g = h /\ mode'[g] = l
    BY <1>1, <2>1 DEF SQLiteTypeOK
  <2> QED BY <1>1, <2>1 DEF WorkGoesOn, Has, Writing
<1>7. HandlesKnow'
  BY NoIndexHeld DEF SQLiteTypeOK, HandlesKnow, Same
<1>8. PlanHolds'
  <2>1. ASSUME NEW g \in Connection, mode'[g] = "pruning"
        PROVE  g = h /\ l = "pruning"
    BY <1>1, <2>1 DEF SQLiteTypeOK, Writing
  <2> QED BY <2>1 DEF PlanHolds
<1> QED BY <1>2, <1>3, <1>4, <1>5, <1>6, <1>7, <1>8

(* What a save compares with is the revision in the store.                  *)
LEMMA PreviousTrue ==
  ASSUME SQLiteInv, NEW h \in Connection, NEW s \in Session
  PROVE  /\ Previous(h, s).index = db.index[s]
         /\ Previous(h, s).artifacts = Artifacts(db.index[s].entries)
BY CapturedHeld DEF SQLiteInv, HandlesKnow, Previous, Current

LEMMA SaveWorkingKeeps ==
  ASSUME SQLiteInv, NEW h \in Connection, NEW s \in Session, SaveWorking(h, s)
  PROVE  SQLiteInv'
<1>1. PICK c \in Content :
        Begins(h, "saving",
          Statements(s, [revision |-> known[h].revision + 1, entries |-> c,
                         prepared |-> TRUE, modified |-> db.generation + 1], Previous(h, s)))
  BY DEF SaveWorking
<1> DEFINE i == [revision |-> known[h].revision + 1, entries |-> c,
                 prepared |-> TRUE, modified |-> db.generation + 1]
           x == [db.index EXCEPT ![s] = i]
<1>2. /\ mode[h] = "open" /\ locks[h] = {s}
      /\ UNCHANGED <<db, locks, known, cache, stale, preview, page>>
      /\ Has(db, s) => Same(Previous(h, s).index, known[h])
  BY DEF SaveWorking
<1>3. Whole(db) /\ known[h] \in Index \cup {NoIndex}
  BY DEF SQLiteInv, SQLiteTypeOK
<1>4. i \in Index
  <2>1. known[h].revision + 1 \in Nat
    BY <1>3, IndexFacts
  <2>2. db.generation + 1 \in Nat
    BY <1>3, WholeParts
  <2> QED BY <2>1, <2>2 DEF Index
<1>5. i # NoIndex /\ (Has(db, s) => i.revision = db.index[s].revision + 1)
  BY <1>2, <1>4, IndexFacts, PreviousTrue DEF Same
<1> HIDE DEF i
<1>6. db.index \in [Session -> Index \cup {NoIndex}]
  BY <1>3, WholeParts
<1>7. x \in [Session -> Index \cup {NoIndex}] /\ x[s] = i /\ \A t \in Session \ {s} : x[t] = db.index[t]
  BY <1>4, <1>6
<1>8. Works(work', x)
  BY <1>1, <1>3, <1>4, PreviousTrue, StatementsWork DEF Begins, i
<1> HIDE DEF x
<1>9. writer = NoWriter /\ writer' = h /\ mode' = [mode EXCEPT ![h] = "saving"]
  BY <1>1 DEF Begins, Proceed
<1> QED BY <1>2, <1>5, <1>7, <1>8, <1>9, BeginsKeeps DEF Writing

LEMMA ImportSnapshotKeeps ==
  ASSUME SQLiteInv, NEW h \in Connection, NEW s \in Session, ImportSnapshot(h, s)
  PROVE  SQLiteInv'
<1>1. PICK r \in {0, 1}, c \in Content :
        Begins(h, "importing",
          Statements(s, [revision |-> r, entries |-> c, prepared |-> TRUE, modified |-> 0],
                     NoCache))
  BY DEF ImportSnapshot
<1> DEFINE i == [revision |-> r, entries |-> c, prepared |-> TRUE, modified |-> 0]
           x == [db.index EXCEPT ![s] = i]
<1>2. /\ mode[h] = "open" /\ locks[h] = {s} /\ ~Has(db, s) /\ db.index[s] = NoIndex
      /\ UNCHANGED <<db, locks, known, cache, stale, preview, page>>
  BY DEF ImportSnapshot, Has
<1>3. Whole(db)
  BY DEF SQLiteInv
<1>4. i \in Index
  BY DEF Index
<1>5. i # NoIndex
  BY <1>4, IndexFacts
<1> HIDE DEF i
<1>6. db.index \in [Session -> Index \cup {NoIndex}]
  BY <1>3, WholeParts
<1>7. x \in [Session -> Index \cup {NoIndex}] /\ x[s] = i /\ \A t \in Session \ {s} : x[t] = db.index[t]
  BY <1>4, <1>6
<1>8. Works(work', x)
  BY <1>1, <1>2, <1>3, <1>4, NoIndexHeld, StatementsWork DEF Begins, i
<1> HIDE DEF x
<1>9. writer = NoWriter /\ writer' = h /\ mode' = [mode EXCEPT ![h] = "importing"]
  BY <1>1 DEF Begins, Proceed
<1> QED BY <1>2, <1>5, <1>7, <1>8, <1>9, BeginsKeeps DEF Writing

LEMMA PrepareKeeps ==
  ASSUME SQLiteInv, NEW h \in Connection, NEW s \in Session, Prepare(h, s)
  PROVE  SQLiteInv'
<1> DEFINE x == [db.index EXCEPT ![s].prepared = TRUE]
<1>1. /\ mode[h] = "open" /\ locks[h] = {s} /\ Has(db, s)
      /\ Begins(h, "preparing", [db EXCEPT !.index[s].prepared = TRUE])
      /\ cache' = [cache EXCEPT ![h] = NoCache]
      /\ UNCHANGED <<db, locks, known, stale, preview, page>>
  BY DEF Prepare, Loads, Forgets
<1>2. Whole(db)
  BY DEF SQLiteInv
<1>3. db.index \in [Session -> Index \cup {NoIndex}]
  BY <1>2, WholeParts, SMTT(30)
<1>4. x[s] \in Index /\ Same(x[s], db.index[s]) /\ Works(work', x)
  BY <1>1, <1>2, PreparationWorks, Zenon DEF Begins
<1>5. x \in [Session -> Index \cup {NoIndex}] /\ \A t \in Session \ {s} : x[t] = db.index[t]
  <2>1. x = [db.index EXCEPT ![s] = x[s]]
    BY <1>3
  <2> HIDE DEF x
  <2> QED BY <1>3, <1>4, <2>1
<1> HIDE DEF x
<1>6. x[s] # NoIndex
  BY <1>4, IndexFacts
<1>7. writer = NoWriter /\ writer' = h /\ mode' = [mode EXCEPT ![h] = "preparing"]
  BY <1>1 DEF Begins, Proceed
<1> QED BY <1>1, <1>4, <1>5, <1>6, <1>7, BeginsKeeps DEF Writing

LEMMA DeleteSessionKeeps ==
  ASSUME SQLiteInv, NEW h \in Connection, NEW s \in Session, DeleteSession(h, s)
  PROVE  SQLiteInv'
<1> DEFINE x == [t \in Session |-> IF t \in {s} THEN NoIndex ELSE db.index[t]]
<1>1. /\ mode[h] = "open" /\ locks[h] = {s} /\ Begins(h, "deleting", Without({s}))
      /\ cache' = [cache EXCEPT ![h] = NoCache]
      /\ UNCHANGED <<db, locks, known, stale, preview, page>>
  BY DEF DeleteSession, Forgets
<1>2. Whole(db) /\ cache'[h] = NoCache
  BY <1>1 DEF SQLiteInv, SQLiteTypeOK
<1>3. db.index \in [Session -> Index \cup {NoIndex}]
  BY <1>2, WholeParts
<1>4. Works(work', x)
  BY <1>1, <1>2, RemovalWorks DEF Begins
<1>5. /\ x \in [Session -> Index \cup {NoIndex}] /\ x[s] = NoIndex
      /\ \A t \in Session \ {s} : x[t] = db.index[t]
  BY <1>3
<1> HIDE DEF x
<1>6. writer = NoWriter /\ writer' = h /\ mode' = [mode EXCEPT ![h] = "deleting"]
  BY <1>1 DEF Begins, Proceed
<1> QED BY <1>1, <1>2, <1>4, <1>5, <1>6, BeginsKeeps DEF Writing

LEMMA PruneKeeps ==
  ASSUME SQLiteInv, NEW h \in Connection, Prune(h)
  PROVE  SQLiteInv'
<1> DEFINE T == preview.targets
           x == [t \in Session |-> IF t \in T THEN NoIndex ELSE db.index[t]]
<1>1. /\ mode[h] = "confirmed" /\ Begins(h, "pruning", Without(T))
      /\ UNCHANGED <<db, locks, known, cache, stale, preview, page>>
      /\ T # {} /\ \A s \in T : Candidate(db, s)
      /\ preview.index = db.index /\ preview.generation = db.generation
  BY DEF Prune, Plan, Allowed
<1>2. Whole(db) /\ locks[h] = T /\ T \in SUBSET Session
  BY <1>1 DEF SQLiteInv, HandlesApart, ReadersTyped
<1>3. db.index \in [Session -> Index \cup {NoIndex}]
  BY <1>2, WholeParts
<1>4. Works(work', x)
  BY <1>1, <1>2, RemovalWorks DEF Begins
<1>5. /\ x \in [Session -> Index \cup {NoIndex}] /\ \A t \in locks[h] : x[t] = NoIndex
      /\ \A t \in Session \ locks[h] : x[t] = db.index[t]
  BY <1>2, <1>3
<1> HIDE DEF x
<1>6. writer = NoWriter /\ writer' = h /\ mode' = [mode EXCEPT ![h] = "pruning"]
  BY <1>1 DEF Begins, Proceed
<1> QED BY <1>1, <1>4, <1>5, <1>6, BeginsKeeps DEF Writing

LEMMA CommitKeeps ==
  ASSUME SQLiteInv, NEW h \in Connection, Commit(h)
  PROVE  SQLiteInv'
<1> USE DEF SQLiteInv
<1>1. /\ writer = h /\ db' = work /\ writer' = NoWriter
      /\ stale' = [g \in Connection |-> g # h /\ cache[g] # NoCache]
      /\ UNCHANGED <<work, preview, page>>
      /\ mode[h] \in Writing /\ \A g \in Connection \ {h} : mode[g] \notin Writing
  BY DEF Commit, WriterAlone
<1> DEFINE l == mode'[h] k == known'[h] c == cache'[h] L == locks'[h]
<1>2. /\ mode' = [mode EXCEPT ![h] = l] /\ known' = [known EXCEPT ![h] = k]
      /\ cache' = [cache EXCEPT ![h] = c] /\ locks' = [locks EXCEPT ![h] = L]
      /\ k \in Index \cup {NoIndex} /\ c \in [index : Index \cup {NoIndex}, artifacts : SUBSET Heavy]
      /\ c.artifacts = Artifacts(c.index.entries)
      /\ \/ l = "closed" /\ L = {} /\ k = NoIndex /\ c = NoCache
         \/ /\ l = "open" /\ \E s \in Session : L = {s} /\ L = locks[h]
            /\ k # NoIndex => \A s \in L : Same(k, work.index[s])
  <2> DEFINE Sorts == [index : Index \cup {NoIndex}, artifacts : SUBSET Heavy]
  <2>0. /\ DOMAIN mode = Connection /\ mode = [g \in Connection |-> mode[g]]
        /\ known \in [Connection -> Index \cup {NoIndex}]
        /\ cache \in [Connection -> Sorts] /\ locks \in [Connection -> SUBSET Session]
        /\ cache[h].artifacts = Artifacts(cache[h].index.entries)
    BY DEF SQLiteTypeOK, HandlesKnow
  <2>00. NoCache \in Sorts
    BY NoIndexHeld
  <2>01. \A s \in Session : Captured(work, s) \in Sorts
    BY CapturedHeld
  <2> HIDE DEF Sorts
  <2>1. CASE mode[h] \in {"deleting", "pruning"}
    <3>1. cache[h] = NoCache
      BY <2>1 DEF HandlesApart
    <3>2. /\ mode' = [mode EXCEPT ![h] = "closed"] /\ known' = [known EXCEPT ![h] = NoIndex]
          /\ locks' = [locks EXCEPT ![h] = {}] /\ cache' = cache
      BY <2>1 DEF Commit, Proceed
    <3>3. l = "closed" /\ L = {} /\ k = NoIndex /\ c = NoCache
      BY <2>0, <3>1, <3>2
    <3>4. cache' = [cache EXCEPT ![h] = c]
      BY <2>0, <3>2
    <3> HIDE DEF l, k, c, L
    <3> QED BY <2>00, <3>2, <3>3, <3>4, NoIndexHeld DEF Sorts
  <2>2. CASE mode[h] = "preparing"
    <3>1. known[h] # NoIndex => \A s \in locks[h] : Same(known[h], work.index[s])
      BY <2>2 DEF HandlesKnow, WorkGoesOn, Same
    <3>2. \E s \in Session : locks[h] = {s}
      BY <2>2 DEF HandlesApart
    <3>3. mode' = [mode EXCEPT ![h] = "open"] /\ known' = known /\ cache' = cache /\ locks' = locks
      BY <2>2 DEF Commit, Proceed
    <3>4. /\ l = "open" /\ known' = [known EXCEPT ![h] = k] /\ cache' = [cache EXCEPT ![h] = c]
          /\ locks' = [locks EXCEPT ![h] = L] /\ k \in Index \cup {NoIndex} /\ c \in Sorts
      BY <2>0, <3>3
    <3>5. k = known[h] /\ c = cache[h] /\ L = locks[h]
      BY <3>3
    <3> HIDE DEF l, k, c, L
    <3> QED BY <2>0, <3>1, <3>2, <3>3, <3>4, <3>5 DEF Sorts
  <2>3. CASE mode[h] \in {"saving", "importing"}
    <3>1. PICK s \in locks[h] : /\ known' = [known EXCEPT ![h] = work.index[s]]
                                /\ cache' = [cache EXCEPT ![h] = Captured(work, s)]
                                /\ mode' = [mode EXCEPT ![h] = "open"] /\ UNCHANGED locks
      BY <2>3 DEF Commit, Proceed
    <3>2. s \in Session /\ locks[h] = {s}
      BY <2>3, <3>1 DEF HandlesApart
    <3>3. /\ l = "open" /\ k = work.index[s] /\ c = Captured(work, s) /\ L = locks[h]
          /\ locks' = [locks EXCEPT ![h] = L]
      BY <2>0, <3>1
    <3> HIDE DEF l, k, c, L
    <3>4. /\ k \in Index \cup {NoIndex} /\ c \in Sorts /\ Same(k, work.index[s])
          /\ c.artifacts = Artifacts(c.index.entries)
      BY <2>01, <3>2, <3>3, CapturedHeld DEF Same
    <3>5. /\ mode' = [mode EXCEPT ![h] = l] /\ known' = [known EXCEPT ![h] = k]
          /\ cache' = [cache EXCEPT ![h] = c]
      BY <3>1, <3>3
    <3> QED BY <3>2, <3>3, <3>4, <3>5 DEF Sorts
  <2> QED BY <1>1, <2>1, <2>2, <2>3 DEF Writing
<1> HIDE DEF l, k, c, L
<1>3. \A g \in Connection \ {h} : \A s \in locks[g] : s \in Session /\ work.index[s] = db.index[s]
  BY <1>1, SQLiteAssumption DEF SQLiteTypeOK, HandlesApart, WriterAlone
<1>4. SQLiteTypeOK' /\ ReadersTyped' /\ PagesAgree'
  <2>1. L \in SUBSET Session
    BY <1>2
  <2>2. mode' \in [Connection -> {"closed", "open", "saving", "importing", "preparing",
                                  "deleting", "confirmed", "pruning"}]
    BY <1>2 DEF SQLiteTypeOK
  <2> QED BY <1>1, <1>2, <2>1, <2>2 DEF SQLiteTypeOK, ReadersTyped, PagesAgree
<1>5. Whole(db)' /\ Whole(work)'
  BY <1>1 DEF Whole
<1>6. \A g \in Connection : mode'[g] \notin Writing
  BY <1>1, <1>2 DEF SQLiteTypeOK, Writing
<1>7. HandlesApart'
  BY <1>1, <1>2 DEF SQLiteTypeOK, HandlesApart
<1>8. WriterAlone'
  BY <1>1, <1>6, SQLiteAssumption DEF WriterAlone
<1>9. WorkGoesOn' /\ PlanHolds'
  BY <1>6 DEF WorkGoesOn, PlanHolds, Writing
<1>10. HandlesKnow'
  <2>1. ASSUME NEW g \in Connection \ {h}
        PROVE  known'[g] = known[g] /\ cache'[g] = cache[g] /\ locks'[g] = locks[g]
    BY <1>2 DEF SQLiteTypeOK
  <2>2. known'[h] = k /\ cache'[h] = c /\ locks'[h] = L
    BY <1>2 DEF SQLiteTypeOK
  <2> QED BY <1>1, <1>2, <1>3, <2>1, <2>2 DEF HandlesKnow
<1> QED BY <1>4, <1>5, <1>7, <1>8, <1>9, <1>10

LEMMA RollBackKeeps ==
  ASSUME SQLiteInv, NEW h \in Connection, RollBack(h)
  PROVE  SQLiteInv'
<1> USE DEF SQLiteInv
<1>1. /\ writer = h /\ writer' = NoWriter /\ work' = db
      /\ cache' = [cache EXCEPT ![h] = NoCache]
      /\ UNCHANGED <<db, known, stale, preview, page>>
      /\ mode[h] \in Writing /\ \A g \in Connection \ {h} : mode[g] \notin Writing
      /\ \/ /\ mode[h] = "pruning" /\ mode' = [mode EXCEPT ![h] = "closed"]
            /\ locks' = [locks EXCEPT ![h] = {}]
         \/ mode[h] # "pruning" /\ mode' = [mode EXCEPT ![h] = "open"] /\ locks' = locks
  BY DEF RollBack, Forgets, Proceed, WriterAlone
<1>2. SQLiteTypeOK' /\ ReadersTyped' /\ PagesAgree'
  BY <1>1, NoIndexHeld DEF SQLiteTypeOK, ReadersTyped, PagesAgree
<1>3. Whole(db)' /\ Whole(work)'
  BY <1>1 DEF Whole
<1>4. \A g \in Connection : mode'[g] \notin Writing
  BY <1>1 DEF SQLiteTypeOK, Writing
<1>5. HandlesApart'
  <2>1. CASE mode[h] = "pruning"
    BY <1>1, <2>1, SMTT(30) DEF SQLiteTypeOK, HandlesApart
  <2>2. CASE mode[h] # "pruning"
    <3>1. mode[h] \notin {"closed", "confirmed", "pruning"}
      BY <1>1, <2>2 DEF Writing
    <3> QED BY <1>1, <2>2, <3>1 DEF SQLiteTypeOK, HandlesApart
  <2> QED BY <2>1, <2>2
<1>6. WriterAlone'
  BY <1>1, <1>4, SQLiteAssumption DEF WriterAlone
<1>7. WorkGoesOn' /\ PlanHolds'
  BY <1>4 DEF WorkGoesOn, PlanHolds, Writing
<1>8. HandlesKnow'
  BY <1>1, NoIndexHeld DEF SQLiteTypeOK, HandlesKnow
<1> QED BY <1>2, <1>3, <1>5, <1>6, <1>7, <1>8

LEMMA ConfirmPruneKeeps ==
  ASSUME SQLiteInv, NEW h \in Connection, ConfirmPrune(h)
  PROVE  SQLiteInv'
<1> USE DEF SQLiteInv
<1>1. /\ mode[h] = "closed" /\ mode' = [mode EXCEPT ![h] = "confirmed"]
      /\ locks' = [locks EXCEPT ![h] = preview.targets] /\ Free(preview.targets)
      /\ UNCHANGED <<db, writer, work, known, cache, stale, preview, page>>
      /\ writer # h
  BY DEF ConfirmPrune, Proceed, WriterAlone, Writing
<1>2. SQLiteTypeOK' /\ ReadersTyped' /\ PagesAgree'
  BY <1>1 DEF SQLiteTypeOK, ReadersTyped, PagesAgree
<1>3. Whole(db)' /\ Whole(work)'
  BY <1>1 DEF Whole
<1>4. HandlesApart'
  <2>1. ASSUME NEW f \in Connection, NEW g \in Connection, f # g
        PROVE  locks'[f] \cap locks'[g] = {}
    BY <1>1, <2>1 DEF SQLiteTypeOK, HandlesApart, Free
  <2> QED BY <1>1, <2>1 DEF SQLiteTypeOK, HandlesApart
<1>5. WriterAlone'
  BY <1>1 DEF SQLiteTypeOK, WriterAlone, Writing
<1>6. WorkGoesOn'
  BY <1>1 DEF SQLiteTypeOK, WorkGoesOn, Has
<1>7. HandlesKnow'
  BY <1>1 DEF SQLiteTypeOK, HandlesKnow, HandlesApart
<1>8. PlanHolds'
  BY <1>1 DEF SQLiteTypeOK, PlanHolds
<1> QED BY <1>2, <1>3, <1>4, <1>5, <1>6, <1>7, <1>8

LEMMA PreviewKeeps ==
  ASSUME SQLiteInv, NEW T \in SUBSET Session, Preview(T)
  PROVE  SQLiteInv'
<1> USE DEF SQLiteInv
<1>1. /\ preview'.targets = T /\ \A h \in Connection : mode[h] \notin {"confirmed", "pruning"}
      /\ UNCHANGED <<db, writer, work, mode, locks, known, cache, stale, page>>
  BY DEF Preview, Plan
<1>2. SQLiteTypeOK' /\ ReadersTyped' /\ PagesAgree'
  BY <1>1 DEF SQLiteTypeOK, ReadersTyped, PagesAgree
<1>3. Whole(db)' /\ Whole(work)'
  BY <1>1 DEF Whole
<1>4. HandlesApart' /\ PlanHolds'
  BY <1>1 DEF HandlesApart, PlanHolds
<1>5. WriterAlone' /\ WorkGoesOn' /\ HandlesKnow'
  BY <1>1 DEF WriterAlone, WorkGoesOn, HandlesKnow, Has
<1> QED BY <1>2, <1>3, <1>4, <1>5

LEMMA ReadPageKeeps ==
  ASSUME SQLiteInv, NEW s \in Session, ReadPage(s)
  PROVE  SQLiteInv'
<1> USE DEF SQLiteInv
<1>1. PICK at \in Position, got \in {Empty, page.got} :
        /\ page'.index = db.index[s] /\ page'.got = [got EXCEPT ![at] = db.rows[s][at]]
        /\ got = Empty \/ (got = page.got /\ Same(page.index, db.index[s]))
  <2> DEFINE follows == /\ page.session = {s} /\ page.generation = db.generation
                        /\ Same(page.index, db.index[s])
             at == IF follows THEN page.next ELSE 1
             got == IF follows THEN page.got ELSE Empty
  <2>1. /\ at \in Position
        /\ page' = [session |-> {s}, index |-> db.index[s], generation |-> db.generation,
                    got |-> [got EXCEPT ![at] = db.rows[s][at]], next |-> at + 1]
    BY DEF ReadPage
  <2>2. got = Empty \/ (got = page.got /\ Same(page.index, db.index[s]))
    OBVIOUS
  <2> HIDE DEF follows, at, got
  <2>3. page'.index = db.index[s] /\ page'.got = [got EXCEPT ![at] = db.rows[s][at]]
    BY <2>1
  <2> QED BY <2>1, <2>2, <2>3
<1>2. UNCHANGED <<db, writer, work, mode, locks, known, cache, stale, preview>>
  BY DEF ReadPage
<1>3. /\ db.index[s] \in Index \cup {NoIndex} /\ db.rows[s] \in [Position -> Row]
      /\ db.rows[s] = db.index[s].entries
  BY WholeParts
<1>4. got \in [Position -> Row] /\ \A p \in Position : got[p] \in {NoEntry, db.index[s].entries[p]}
  <2>1. CASE got = Empty
    BY <2>1, ContentFacts DEF Empty
  <2>2. CASE got = page.got /\ Same(page.index, db.index[s])
    BY <2>2 DEF ReadersTyped, PagesAgree, Same
  <2> QED BY <1>1, <2>1, <2>2
<1>5. SQLiteTypeOK' /\ ReadersTyped' /\ PagesAgree'
  <2>1. /\ page'.got \in [Position -> Row]
        /\ \A p \in Position : page'.got[p] \in {NoEntry, page'.index.entries[p]}
    BY <1>1, <1>3, <1>4
  <2> QED BY <1>1, <1>2, <1>3, <2>1 DEF SQLiteTypeOK, ReadersTyped, PagesAgree
<1>6. Whole(db)' /\ Whole(work)'
  BY <1>2 DEF Whole
<1>7. HandlesApart' /\ PlanHolds' /\ WriterAlone' /\ WorkGoesOn' /\ HandlesKnow'
  BY <1>2 DEF HandlesApart, PlanHolds, WriterAlone, WorkGoesOn, HandlesKnow, Has
<1> QED BY <1>5, <1>6, <1>7

LEMMA SQLiteInitHolds == SQLiteInit => SQLiteInv
<1> SUFFICES ASSUME SQLiteInit PROVE SQLiteInv
  OBVIOUS
<1>1. PICK i \in Legacy : db = Stored(i)
  BY DEF SQLiteInit
<1>2. i \in [Session -> Index \cup {NoIndex}]
  BY LegacyAssumption
<1>3. \A s \in Session : i[s].entries \in Content /\ i[s].entries \in [Position -> Row]
                         /\ Artifacts(i[s].entries) \subseteq Heavy
  BY <1>2, IndexFacts, ContentFacts
<1>4. Whole(db)
  BY <1>1, <1>2, <1>3 DEF Whole, Database, Stored
<1>5. /\ work = db /\ writer = NoWriter /\ preview = NoPlan /\ page = NoPage
      /\ mode = [h \in Connection |-> "closed"] /\ locks = [h \in Connection |-> {}]
      /\ known = [h \in Connection |-> NoIndex] /\ cache = [h \in Connection |-> NoCache]
      /\ stale = [h \in Connection |-> FALSE]
  BY DEF SQLiteInit
<1>6. SQLiteTypeOK
  BY <1>4, <1>5, NoIndexHeld DEF SQLiteTypeOK, Whole
<1>7. ReadersTyped /\ PagesAgree
  BY <1>5, ContentFacts, NoIndexHeld DEF ReadersTyped, PagesAgree, NoPlan, NoPage, Empty
<1>8. HandlesApart
  BY <1>5 DEF HandlesApart
<1>9. WriterAlone
  BY <1>5, SQLiteAssumption DEF WriterAlone, Writing
<1>10. WorkGoesOn /\ PlanHolds
  BY <1>5 DEF WorkGoesOn, PlanHolds
<1>11. HandlesKnow
  BY <1>5, NoIndexHeld DEF HandlesKnow
<1> QED BY <1>4, <1>5, <1>6, <1>7, <1>8, <1>9, <1>10, <1>11 DEF SQLiteInv

LEMMA SQLiteStep == SQLiteInv /\ [SQLiteNext]_sqliteVars => SQLiteInv'
<1> SUFFICES ASSUME SQLiteInv, [SQLiteNext]_sqliteVars PROVE SQLiteInv'
  OBVIOUS
<1>1. ASSUME NEW h \in Connection,
             Disconnect(h) \/ ConfirmPrune(h) \/ Prune(h) \/ Commit(h) \/ RollBack(h)
      PROVE  SQLiteInv'
  BY <1>1, DisconnectKeeps, ConfirmPruneKeeps, PruneKeeps, CommitKeeps, RollBackKeeps
<1>2. ASSUME NEW h \in Connection, NEW s \in Session,
             \/ Connect(h, s) \/ LoadWorking(h, s) \/ SaveWorking(h, s)
             \/ ImportSnapshot(h, s) \/ Prepare(h, s) \/ DeleteSession(h, s)
      PROVE  SQLiteInv'
  BY <1>2, ConnectKeeps, LoadWorkingKeeps, SaveWorkingKeeps, ImportSnapshotKeeps, PrepareKeeps,
     DeleteSessionKeeps
<1>3. CASE UNCHANGED sqliteVars
  BY <1>3 DEF sqliteVars, SQLiteInv, SQLiteTypeOK, ReadersTyped, Whole, HandlesApart,
     WriterAlone, WorkGoesOn, HandlesKnow, PagesAgree, PlanHolds, Has
<1> QED BY <1>1, <1>2, <1>3, PreviewKeeps, ReadPageKeeps DEF SQLiteNext

(* The inductive invariant of the SQLite store: types, whole databases, who *)
(* holds which session, what a transaction may differ in and will do, what  *)
(* handles and pages took from the store, the plan of a prune.              *)
THEOREM SQLiteInvariant == SQLiteSpec => []SQLiteInv
<1> QED BY SQLiteInitHolds, SQLiteStep, PTL DEF SQLiteSpec

(* _write_state and _capture_checkpoint: rows, artifacts and index are one  *)
(* revision, and a checkpoint that would be trusted is the truth.           *)
THEOREM RevisionsAreWhole == SQLiteSpec => []OneRevision
<1>1. SQLiteInv => OneRevision
  <2> SUFFICES ASSUME SQLiteInv PROVE OneRevision
    OBVIOUS
  <2>1. \A s \in Session : /\ db.rows[s] = db.index[s].entries
                           /\ db.artifacts[s] = Artifacts(db.index[s].entries)
    BY DEF SQLiteInv, Whole
  <2>2. \A s \in Session : Has(db, s) => Loads(db, s)
    BY <2>1 DEF Loads
  <2>3. \A s \in Session : ~Has(db, s) => db.rows[s] = Empty /\ db.artifacts[s] = {}
    BY <2>1, IndexFacts, ContentFacts DEF Has
  <2>4. ASSUME NEW h \in Connection, NEW s \in Session, locks[h] = {s}
        PROVE  /\ known[h] # NoIndex => Same(known[h], db.index[s])
               /\ Current(h, s) => cache[h] = Captured(db, s)
    <3>1. cache[h] \in [index : Index \cup {NoIndex}, artifacts : SUBSET Heavy]
      BY DEF SQLiteInv, SQLiteTypeOK
    <3>2. cache[h].artifacts = Artifacts(cache[h].index.entries)
      BY DEF SQLiteInv, HandlesKnow
    <3>3. Current(h, s) => cache[h] = Captured(db, s)
      BY <2>1, <3>1, <3>2 DEF Current, Captured
    <3> QED BY <2>4, <3>3 DEF SQLiteInv, HandlesKnow
  <2>5. \A p \in Position : page.got[p] \in {NoEntry, page.index.entries[p]}
    BY DEF SQLiteInv, PagesAgree
  <2> QED BY <2>2, <2>3, <2>4, <2>5 DEF OneRevision
<1> QED BY <1>1, SQLiteInvariant, PTL

-----------------------------------------------------------------------------
(* What the database changes by.                                            *)

LEMMA OnlyCommits ==
  ASSUME SQLiteInv, [SQLiteNext]_sqliteVars, db' # db
  PROVE  writer \in Connection /\ Commit(writer)
<1>1. PICK h \in Connection : Commit(h)
  BY ZenonT(60) DEF SQLiteNext, sqliteVars, Disconnect, ConfirmPrune, Prune, RollBack, Connect,
     LoadWorking, SaveWorking, ImportSnapshot, Prepare, DeleteSession, Preview, ReadPage
<1>2. writer = h
  BY <1>1 DEF Commit
<1> QED BY <1>1, <1>2, Zenon

(* It is a catalog.                                                         *)
Shown(i) == IF i = NoIndex THEN [revision |-> 0, entries |-> <<>>]
            ELSE [revision |-> i.revision, entries |-> i.entries]
Saved == [s \in Session |-> Decoded(s)]

LEMMA DecodedShown == SQLiteInv => Saved = [s \in Session |-> Shown(db.index[s])]
<1> SUFFICES ASSUME SQLiteInv, NEW s \in Session PROVE Decoded(s) = Shown(db.index[s])
  BY DEF Saved
<1>1. Whole(db)
  BY DEF SQLiteInv
<1>2. /\ db.index[s] \in Index \cup {NoIndex} /\ db.rows[s] = db.index[s].entries
      /\ db.artifacts[s] = Artifacts(db.index[s].entries)
  BY <1>1, WholeParts
<1>3. db.index[s].entries \in [Position -> Row]
  BY <1>2, IndexFacts, ContentFacts
<1>4. [p \in Position |-> IF db.rows[s][p] \in Heavy \ db.artifacts[s]
                          THEN "lost" ELSE db.rows[s][p]] = db.index[s].entries
  <2>1. \A p \in Position : db.rows[s][p] \notin Heavy \ db.artifacts[s]
    BY <1>2 DEF Artifacts
  <2> QED BY <1>2, <1>3, <2>1
<1> QED BY <1>4 DEF Decoded, Shown, Has

LEMMA ShownTyped ==
  \A i \in Index \cup {NoIndex} :
    /\ Shown(i) \in Catalog!Snapshot \cup {Catalog!Missing}
    /\ i = NoIndex => Shown(i) = Catalog!Missing
    /\ i # NoIndex => Shown(i) \in Catalog!Snapshot /\ Shown(i).revision = i.revision
BY IndexFacts DEF Shown, Catalog!Snapshot, Catalog!Missing

(* What rows and artifacts decode to changes as SessionCatalog allows: a    *)
(* commit replaces or adds the one session of its handle, or removes all    *)
(* that its handle locked; nothing else changes it.                         *)
THEOREM StoreIsCatalog == SQLiteSpec => ImplementsCatalog
<1>1. SQLiteInv => Saved \in [Session -> Catalog!Snapshot \cup {Catalog!Missing}]
  <2> SUFFICES ASSUME SQLiteInv PROVE Saved \in [Session -> Catalog!Snapshot \cup {Catalog!Missing}]
    OBVIOUS
  <2>1. db.index \in [Session -> Index \cup {NoIndex}]
    BY WholeParts DEF SQLiteInv
  <2> QED BY <2>1, DecodedShown, ShownTyped
<1>2. SQLiteInit => Catalog!Init
  BY <1>1, SQLiteInitHolds DEF Catalog!Init, Saved
<1>3. SQLiteInv /\ SQLiteInv' /\ [SQLiteNext]_sqliteVars => [Catalog!Next]_(Saved)
  <2> SUFFICES ASSUME SQLiteInv, SQLiteInv', [SQLiteNext]_sqliteVars
               PROVE  Catalog!Next \/ Saved' = Saved
    OBVIOUS
  <2>1. /\ Saved = [s \in Session |-> Shown(db.index[s])]
        /\ Saved' = [s \in Session |-> Shown(db'.index[s])]
        /\ Saved' \in [Session -> Catalog!Snapshot \cup {Catalog!Missing}]
    <3>1. (SQLiteInv => Saved = [s \in Session |-> Shown(db.index[s])])'
      BY DecodedShown, PTL
    <3>2. (SQLiteInv => Saved \in [Session -> Catalog!Snapshot \cup {Catalog!Missing}])'
      BY <1>1, PTL
    <3> QED BY <3>1, <3>2, DecodedShown
  <2>2. /\ db.index \in [Session -> Index \cup {NoIndex}]
        /\ db'.index \in [Session -> Index \cup {NoIndex}]
    BY WholeParts DEF SQLiteInv
  <2> DEFINE h == writer
  <2>3. SUFFICES ASSUME db' # db, h \in Connection, Commit(h)
                 PROVE  Catalog!Next \/ Saved' = Saved
    BY <2>1, OnlyCommits
  <2>4. db' = work /\ h # NoWriter /\ mode[h] \in Writing
    BY <2>3, SQLiteAssumption DEF Commit, SQLiteInv, WriterAlone
  <2>5. \A t \in Session \ locks[h] : Saved'[t] = Saved[t]
    BY <2>1, <2>4 DEF SQLiteInv, WriterAlone
  <2>6. locks[h] \subseteq Session
    BY <2>3 DEF SQLiteInv, SQLiteTypeOK
  <2> HIDE DEF h
  <2>7. CASE mode[h] \in {"deleting", "pruning"}
    <3>1. \A s \in locks[h] : Saved'[s] = Catalog!Missing
      BY <2>1, <2>2, <2>3, <2>4, <2>6, <2>7, ShownTyped DEF SQLiteInv, WorkGoesOn, Has
    <3>2. Saved' = [s \in Session |-> IF s \in locks[h] THEN Catalog!Missing ELSE Saved[s]]
      BY <2>1, <2>5, <3>1
    <3> QED BY <2>1, <2>6, <3>2 DEF Catalog!Next, Catalog!Remove, Saved
  <2>8. CASE mode[h] \notin {"deleting", "pruning"}
    <3>1. PICK s \in Session : locks[h] = {s}
      BY <2>3, <2>4, <2>8 DEF SQLiteInv, HandlesApart, Writing
    <3>2. Saved[s] = Shown(db.index[s]) /\ Saved'[s] = Shown(work.index[s])
      BY <2>1, <2>4
    <3>3. CASE mode[h] = "preparing"
      <4>1. Saved'[s] = Saved[s]
        BY <2>3, <3>1, <3>2, <3>3 DEF SQLiteInv, WorkGoesOn, Has, Same, Shown
      <4> QED BY <2>1, <2>5, <3>1, <4>1
    <3>4. CASE mode[h] \in {"saving", "importing"}
      <4>1. /\ work.index[s] # NoIndex
            /\ db.index[s] # NoIndex => work.index[s].revision = db.index[s].revision + 1
        BY <2>3, <3>1, <3>4 DEF SQLiteInv, WorkGoesOn, Has
      <4>2. Saved'[s] \in Catalog!Snapshot /\ Saved'[s].revision = work.index[s].revision
        BY <2>2, <2>4, <3>2, <4>1, ShownTyped
      <4>3. Saved[s] # Catalog!Missing => Saved'[s].revision = Saved[s].revision + 1
        BY <2>2, <3>2, <4>1, <4>2, ShownTyped
      <4>4. Catalog!Replace(s) \/ Catalog!Add(s)
        BY <2>5, <3>1, <4>2, <4>3 DEF Catalog!Replace, Catalog!Add, Catalog!Others, Saved
      <4> QED BY <2>1, <4>4 DEF Catalog!Next, Saved
    <3> QED BY <2>4, <2>8, <3>3, <3>4 DEF Writing
  <2> QED BY <2>7, <2>8
<1> QED BY <1>2, <1>3, SQLiteInvariant, PTL DEF SQLiteSpec, ImplementsCatalog, Catalog!Spec, Saved

-----------------------------------------------------------------------------
(* Pruning.                                                                 *)

LEMMA NewerFinite ==
  ASSUME NEW d, NEW s \in Session
  PROVE  IsFiniteSet(Newer(d, s)) /\ Cardinality(Newer(d, s)) \in Nat
<1>1. Newer(d, s) \in SUBSET Session
  BY DEF Newer
<1>2. IsFiniteSet(Newer(d, s))
  BY <1>1, SQLiteAssumption, FS_Subset
<1> QED BY <1>2, FS_CardinalityType

(* Of the targets, one has no newer target beside it; the sessions newer    *)
(* than it, of which the policy wants at least Keep, all stay.              *)
LEMMA NewestTarget ==
  ASSUME NEW d, Whole(d), NEW T \in SUBSET Session, T # {}, \A s \in T : Has(d, s)
  PROVE  \E s \in T : Newer(d, s) \cap T = {}
<1> DEFINE less == {n \in Nat \X Nat : n[1] < n[2]}
           Counts == {Cardinality(Newer(d, s)) : s \in T}
<1>1. IsWellFoundedOn(less, Nat)
  BY NatLessThanWellFounded DEF less, OpToRel
<1>2. Counts \subseteq Nat /\ Counts # {}
  BY NewerFinite
<1>3. PICK n \in Counts : \A m \in Counts : ~(<<m, n>> \in less)
  <2> HIDE DEF less, Counts
  <2> QED BY <1>1, <1>2, WFMin
<1>4. PICK s \in T : n = Cardinality(Newer(d, s))
  OBVIOUS
<1>5. SUFFICES ASSUME NEW t \in Newer(d, s) \cap T PROVE FALSE
  BY <1>4
<1>6. \A u \in Session : Has(d, u) => d.index[u].modified \in Nat
  <2>1. d.index \in [Session -> Index \cup {NoIndex}]
    BY WholeParts
  <2> QED BY <2>1, IndexFacts
<1>7. /\ Newer(d, t) \in SUBSET Newer(d, s) /\ t \in Newer(d, s) /\ t \notin Newer(d, t)
      /\ t \in Session /\ s \in Session
  BY <1>5, <1>6 DEF Newer
<1>8. Cardinality(Newer(d, t)) < Cardinality(Newer(d, s))
  <2>1. /\ Cardinality(Newer(d, t)) <= Cardinality(Newer(d, s))
        /\ Cardinality(Newer(d, s)) = Cardinality(Newer(d, t)) => Newer(d, s) = Newer(d, t)
    BY <1>7, NewerFinite, FS_Subset
  <2> QED BY <1>7, <2>1, NewerFinite
<1>9. Cardinality(Newer(d, t)) \in Counts
  BY <1>5
<1> QED BY <1>2, <1>3, <1>4, <1>8, <1>9

(* _apply_batch: a committed prune removes what was shown, from the store   *)
(* that was shown, while nobody has a target open, and leaves the newest.   *)
THEOREM PrunesAsShown == SQLiteSpec => PrunedAsShown
<1> DEFINE Left == {s \in Session : db'.index[s] # NoIndex}
           There == {s \in Session : Has(db, s)}
           Shows(h) ==
             /\ db.index = preview.index /\ db.generation = preview.generation
             /\ {s \in Session : Has(db, s) /\ db'.index[s] = NoIndex} = preview.targets
             /\ \A s \in preview.targets, g \in Connection \ {h} : s \notin locks[g]
             /\ Cardinality(Left) >= (IF Cardinality(There) < Keep THEN Cardinality(There) ELSE Keep)
<1>1. ASSUME SQLiteInv, [SQLiteNext]_sqliteVars,
             NEW h \in Connection, mode[h] = "pruning", writer = h, db' # db
      PROVE  Shows(h)
  <2>1. db' = work
    BY <1>1, OnlyCommits DEF Commit
  <2>2. /\ locks[h] = preview.targets /\ preview.targets \subseteq Session
        /\ preview.index = db.index /\ preview.generation = db.generation
        /\ preview.targets # {} /\ \A s \in preview.targets : Candidate(db, s)
    BY <1>1 DEF SQLiteInv, HandlesApart, PlanHolds, ReadersTyped
  <2>3. /\ \A t \in Session \ preview.targets : work.index[t] = db.index[t]
        /\ \A t \in preview.targets : work.index[t] = NoIndex
    BY <1>1, <2>2, SQLiteAssumption DEF SQLiteInv, WriterAlone, WorkGoesOn, Has
  <2>4. {s \in Session : Has(db, s) /\ db'.index[s] = NoIndex} = preview.targets
    BY <2>1, <2>2, <2>3 DEF Candidate, Has
  <2>5. \A s \in preview.targets, g \in Connection \ {h} : s \notin locks[g]
    BY <1>1, <2>2 DEF SQLiteInv, HandlesApart
  <2>6. PICK s \in preview.targets : Newer(db, s) \cap preview.targets = {}
    BY <1>1, <2>2, NewestTarget DEF SQLiteInv, Candidate
  <2>7. Newer(db, s) \in SUBSET Left
    BY <2>1, <2>3, <2>6 DEF Newer, Has
  <2>8. /\ IsFiniteSet(Left) /\ Cardinality(Left) \in Nat
        /\ IsFiniteSet(There) /\ Cardinality(There) \in Nat
    <3>1. Left \in SUBSET Session /\ There \in SUBSET Session
      OBVIOUS
    <3> HIDE DEF Left, There
    <3>2. IsFiniteSet(Left) /\ IsFiniteSet(There)
      BY <3>1, SQLiteAssumption, FS_Subset
    <3> QED BY <3>2, FS_CardinalityType
  <2>9. Cardinality(Newer(db, s)) <= Cardinality(Left)
    <3> HIDE DEF Left
    <3> QED BY <2>7, <2>8, FS_Subset
  <2>10. Cardinality(Newer(db, s)) >= Keep /\ Cardinality(Newer(db, s)) \in Nat
    BY <2>2, <2>6, NewerFinite DEF Candidate
  <2> HIDE DEF Left, There
  <2>11. Cardinality(Left) >= (IF Cardinality(There) < Keep THEN Cardinality(There) ELSE Keep)
    BY <2>8, <2>9, <2>10, SQLiteAssumption
  <2> QED BY <2>2, <2>4, <2>5, <2>11
<1>2. SQLiteInv /\ [SQLiteNext]_sqliteVars =>
        [\A h \in Connection : mode[h] = "pruning" /\ writer = h /\ db' # db => Shows(h)]_sqliteVars
  BY <1>1
<1> QED BY <1>2, SQLiteInvariant, PTL DEF SQLiteSpec, PrunedAsShown
=============================================================================
