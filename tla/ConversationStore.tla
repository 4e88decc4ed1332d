--------------------------- MODULE ConversationStore ---------------------------
(***************************************************************************)
(* The JSON file of one saved session, run/conversation_store.py, with the  *)
(* staging-file sweep of run/conversation_cleanup.py.  A handle is one      *)
(* ConversationStore object (or one sweep) in some process; several open,   *)
(* are killed and open again.  Every system call is a step.                 *)
(*                                                                         *)
(* The power may fail at any time.  The session's directory entry then has  *)
(* one of the values it had since the directory was last fsynced, and a     *)
(* file whose bytes were not fsynced is torn.                               *)
(* A snapshot is its revision and its body; its hash is itself.             *)
(***************************************************************************)
EXTENDS Integers, FiniteSets

CONSTANTS Handle, Body, MaxRevision      \* MaxRevision bounds the runs only
ASSUME StoreAssumption == MaxRevision \in Nat

Snapshot == [revision : 0..MaxRevision, body : Body]
NoFile == [revision |-> -1]
Torn == [revision |-> -2]
Nothing == [revision |-> -3]

VARIABLES file,       \* what <session>.json names
          mayBe,      \* what it may name after a power failure
          lock,       \* the inode <session>.lock names
          pc, held,   \* the place of a handle; the lock inode it has flocked
          seen,       \* _revision and _sha256
          target,     \* the call in progress: what it publishes or deletes
          temp,       \* the staging file of a handle, which may outlive it
          promised    \* what the last call that returned has promised

vars == <<file, mayBe, lock, pc, held, seen, target, temp, promised>>

NoTarget == [kind |-> "none", state |-> NoFile]
Target == [kind : {"save", "import", "delete"}, state : Snapshot]
Staging == {"staging", "staged"}

\* A live handle has a staging file only while it saves.
StoreTypeOK ==
  /\ file \in Snapshot \cup {NoFile, Torn} /\ mayBe \subseteq Snapshot \cup {NoFile, Torn}
  /\ lock \in Nat
  /\ pc \in [Handle -> {"closed", "open", "sweep", "checked", "placed", "confirm",
                        "deleting", "unlinked", "deleted"} \cup Staging]
  /\ held \in [Handle -> Nat]
  /\ seen \in [Handle -> Snapshot \cup {NoFile}]
  /\ target \in [Handle -> Target \cup {NoTarget}]
  /\ temp \in [Handle -> {"none", "unsynced", "synced"}]
  /\ promised \in Snapshot \cup {NoFile, Nothing}
  /\ \A h \in Handle : temp[h] # "none" => pc[h] \in {"closed"} \cup Staging

Init == /\ file = NoFile /\ mayBe = {NoFile} /\ lock = 1
        /\ pc = [h \in Handle |-> "closed"] /\ held = [h \in Handle |-> 0]
        /\ seen = [h \in Handle |-> NoFile] /\ target = [h \in Handle |-> NoTarget]
        /\ temp = [h \in Handle |-> "none"] /\ promised = Nothing

-----------------------------------------------------------------------------
Goto(h, l) == pc' = [pc EXCEPT ![h] = l]
Call(h, kind, s) == target' = [target EXCEPT ![h] = [kind |-> kind, state |-> s]]
Saves(h) == target[h].kind = "save"

(* flock, exclusive and not blocking.  A handle is the store's or a sweep's. *)
Unlocked == \A g \in Handle : held[g] # lock
Open(h) == /\ pc[h] = "closed" /\ temp[h] = "none" /\ Unlocked
           /\ Goto(h, "open") /\ held' = [held EXCEPT ![h] = lock]
           /\ UNCHANGED <<file, mayBe, lock, seen, target, temp, promised>>
OpenSweep(h) == /\ pc[h] = "closed" /\ temp[h] = "none" /\ Unlocked
                /\ Goto(h, "sweep") /\ held' = [held EXCEPT ![h] = lock]
                /\ UNCHANGED <<file, mayBe, lock, seen, target, temp, promised>>

(* close, or a kill anywhere: the lock goes, a staging file stays.          *)
Close(h) == /\ pc[h] # "closed" /\ Goto(h, "closed")
            /\ held' = [held EXCEPT ![h] = 0] /\ seen' = [seen EXCEPT ![h] = NoFile]
            /\ target' = [target EXCEPT ![h] = NoTarget]
            /\ UNCHANGED <<file, mayBe, lock, temp, promised>>

Load(h) == /\ pc[h] = "open" /\ file \in Snapshot
           /\ seen' = [seen EXCEPT ![h] = file]
           /\ UNCHANGED <<file, mayBe, lock, pc, held, target, temp, promised>>

(* save: the next revision of what this handle loaded or saved last.        *)
Save(h) == /\ pc[h] = "open" /\ file = seen[h] /\ seen[h].revision < MaxRevision
           /\ \E b \in Body : Call(h, "save", [revision |-> seen[h].revision + 1, body |-> b])
           /\ Goto(h, "checked")
           /\ UNCHANGED <<file, mayBe, lock, held, seen, temp, promised>>

(* publish_snapshot: any revision, into a fresh handle; one that is already *)
(* there is only confirmed.                                                 *)
Import(h) == /\ pc[h] = "open" /\ seen[h] = NoFile
             /\ \E s \in Snapshot : /\ file \in {s, NoFile} /\ Call(h, "import", s)
                                    /\ Goto(h, IF file = s THEN "confirm" ELSE "checked")
             /\ UNCHANGED <<file, mayBe, lock, held, seen, temp, promised>>
ConfirmUnsynced(h) ==                          \* mutant: already present, so nothing to do
  /\ pc[h] = "confirm" /\ Goto(h, "open")
  /\ promised' = target[h].state /\ target' = [target EXCEPT ![h] = NoTarget]
  /\ UNCHANGED <<file, mayBe, lock, held, seen, temp>>
Confirm(h) == /\ pc[h] = "confirm" /\ mayBe' = {file} /\ Goto(h, "open")
              /\ promised' = target[h].state /\ target' = [target EXCEPT ![h] = NoTarget]
              /\ UNCHANGED <<file, lock, held, seen, temp>>

(* The staging file: created O_EXCL, written and fsynced, renamed.          *)
Create(h) == /\ pc[h] = "checked" /\ temp' = [temp EXCEPT ![h] = "unsynced"]
             /\ Goto(h, "staging")
             /\ UNCHANGED <<file, mayBe, lock, held, seen, target, promised>>
Write(h) == /\ pc[h] = "staging" /\ temp' = [temp EXCEPT ![h] = "synced"]
            /\ Goto(h, "staged")
            /\ UNCHANGED <<file, mayBe, lock, held, seen, target, promised>>

Replace(h) == /\ pc[h] = "staged" /\ temp[h] # "none" /\ (Saves(h) \/ file = NoFile)
              /\ file' = target[h].state
              /\ mayBe' = mayBe \cup {file'} \cup (IF temp[h] = "synced" THEN {} ELSE {Torn})
              /\ temp' = [temp EXCEPT ![h] = "none"]
              /\ promised' = IF promised = NoFile THEN Nothing ELSE promised
              /\ Goto(h, "placed")
              /\ UNCHANGED <<lock, held, seen, target>>

(* fsync of the directory, and the call returns.                            *)
Sync(h) == /\ pc[h] = "placed" /\ mayBe' = {file} /\ Goto(h, "open")
           /\ promised' = target[h].state
           /\ seen' = [seen EXCEPT ![h] = target[h].state]
           /\ target' = [target EXCEPT ![h] = NoTarget]
           /\ UNCHANGED <<file, lock, held, temp>>

(* Any system call may fail; "finally" unlinks the staging file.            *)
Raises(h) ==
  /\ pc[h] \in {"checked", "placed", "confirm", "deleting", "unlinked"} \cup Staging
  /\ Goto(h, IF pc[h] = "unlinked" THEN "deleted" ELSE "open")
  /\ target' = [target EXCEPT ![h] = NoTarget]
  /\ temp' = [temp EXCEPT ![h] = "none"]
  /\ UNCHANGED <<file, mayBe, lock, held, seen, promised>>

-----------------------------------------------------------------------------
(* delete: the hash the caller selected, then the session's staging files,  *)
(* then the snapshot.  The lock's inode stays.                              *)
DeleteLockToo(h) == /\ pc[h] = "open" /\ file \in Snapshot      \* mutant: the lock file goes first
                    /\ Call(h, "delete", file) /\ Goto(h, "deleting") /\ lock' = lock + 1
                    /\ UNCHANGED <<file, mayBe, held, seen, temp, promised>>
Delete(h) == /\ pc[h] = "open" /\ file \in Snapshot
             /\ Call(h, "delete", file) /\ Goto(h, "deleting")
             /\ UNCHANGED <<file, mayBe, lock, held, seen, temp, promised>>
UnlinkTemp(h, g) == /\ pc[h] \in {"deleting", "sweep"} /\ temp[g] # "none"
                    /\ temp' = [temp EXCEPT ![g] = "none"]
                    /\ UNCHANGED <<file, mayBe, lock, pc, held, seen, target, promised>>
SweepSync(h) == /\ pc[h] = "sweep" /\ mayBe' = {file}
                /\ UNCHANGED <<file, lock, pc, held, seen, target, temp, promised>>
Unlink(h) == /\ pc[h] = "deleting" /\ \A g \in Handle : temp[g] = "none"
             /\ file' = NoFile /\ mayBe' = mayBe \cup {NoFile}
             /\ promised' = Nothing /\ Goto(h, "unlinked")
             /\ UNCHANGED <<lock, held, seen, target, temp>>
DeleteSync(h) == /\ pc[h] = "unlinked" /\ mayBe' = {file} /\ Goto(h, "deleted")
                 /\ promised' = NoFile /\ target' = [target EXCEPT ![h] = NoTarget]
                 /\ UNCHANGED <<file, lock, held, seen, temp>>

PowerLoss == /\ file' \in mayBe /\ mayBe' = {file'}
             /\ pc' = [h \in Handle |-> "closed"] /\ held' = [h \in Handle |-> 0]
             /\ seen' = [h \in Handle |-> NoFile] /\ target' = [h \in Handle |-> NoTarget]
             /\ temp' \in [Handle -> {"none", "unsynced", "synced"}]
             /\ \A h \in Handle : temp'[h] \in {temp[h], "none"}
             /\ UNCHANGED <<lock, promised>>

Next == \/ \E h \in Handle : \/ Open(h) \/ OpenSweep(h) \/ Close(h) \/ Load(h) \/ Save(h)
                             \/ Import(h) \/ Confirm(h) \/ Create(h) \/ Write(h) \/ Replace(h)
                             \/ Sync(h) \/ Raises(h) \/ Delete(h) \/ Unlink(h) \/ DeleteSync(h)
                             \/ SweepSync(h)
        \/ \E h, g \in Handle : UnlinkTemp(h, g)
        \/ PowerLoss

Spec == Init /\ [][Next]_vars

-----------------------------------------------------------------------------
(* No reader, lock or not, and no power failure finds half a snapshot.      *)
SnapshotsWhole == Torn \notin mayBe \cup {file}

(* What a call that returned has promised survives a power failure: a saved *)
(* or confirmed revision is there or a later one is, a deleted session does *)
(* not come back.                                                           *)
PromisesKept ==
  /\ promised \in Snapshot =>
       \A v \in mayBe : v = promised \/ v.revision > promised.revision
  /\ promised = NoFile => mayBe = {NoFile}

(* Both: whatever a power failure leaves of the renames is a whole snapshot *)
(* no older than what conversation_store.py promised.                       *)
DurableAsPromised == SnapshotsWhole /\ PromisesKept

(* Between its check and its effect a call stays right about the file: a    *)
(* save replaces what its handle knows, an import replaces nothing, a       *)
(* delete removes the snapshot that was selected.                           *)
Expected(h) == CASE target[h].kind = "save" -> seen[h]
                 [] target[h].kind = "import" -> NoFile
                 [] target[h].kind = "delete" -> target[h].state
CheckedStaysTrue ==
  \A h \in Handle : pc[h] \in {"checked", "deleting"} \cup Staging => file = Expected(h)

(* No deletion or sweep takes the staging file of a save in progress.       *)
StagingKept == \A h \in Handle : pc[h] \in Staging => temp[h] # "none"

(* So a call under way loses nothing to the others: what it checked and     *)
(* what it staged are still there when it renames.                          *)
CallsStayRight == CheckedStaysTrue /\ StagingKept
=============================================================================
