----------------------------- MODULE TaskCheckpoint -----------------------------
(***************************************************************************)
(* The checkpoint store of one task, run/task_checkpoint_store.py, and the  *)
(* sessions that close milestones into it and continue from it,             *)
(* conversation.py.  A task-state bundle names its predecessor by digest,   *)
(* so a bundle is its lineage: the sequence of the changes that led to it,  *)
(* one per revision.  A closure's reason is part of its last change.        *)
(*                                                                         *)
(* A process may be killed between any two system calls; in an outage,     *)
(* a directory entry that was not fsynced since it changed may have any of  *)
(* its values since.  A session's own record is saved by its conversation   *)
(* store, which has a specification of its own: here it is old or new.      *)
(***************************************************************************)
EXTENDS Naturals, Sequences, FiniteSets

CONSTANTS Session, Change, NoSession,
          MaxRevision               \* bounds the runs only
ASSUME CheckpointAssumption == NoSession \notin Session /\ MaxRevision \in Nat

NoBundle == <<>>
Bundle == UNION {[1..n -> Change] : n \in 1..MaxRevision}
Previous(b) == SubSeq(b, 1, Len(b) - 1)
LeadsTo(a, b) == Len(a) <= Len(b) /\ a = SubSeq(b, 1, Len(a))

VARIABLES head, headMay,      \* current.json, and what a power failure may leave of it
          archive, durable,   \* the archived bundles; those whose entry is on the disk
          claim, unsynced,    \* claims/<checkpoint>.json; those whose entry is not on the disk
          claims,             \* the claims directory itself
          at, work,           \* where a session's process is, and on which bundle
          link, continued,    \* a session's saved task_checkpoint and task_continuation
          fresh,              \* it has no messages yet
          publisher,          \* who put the head there
          sent,               \* the sessions that dispatched work from a checkpoint
          outage          \* history: the power has failed

disk == <<head, headMay, archive, durable, claim, unsynced, claims, publisher>>
sessions == <<link, continued, fresh>>
checkpointVars == <<disk, sessions, at, work, sent, outage>>

Storing == {"closing", "archived", "publish", "placed", "claiming", "claimed"}
Place == {"away", "idle", "broken", "closed", "claim held"} \cup Storing

CheckpointTypeOK ==
  /\ head \in Bundle \cup {NoBundle} /\ headMay \subseteq Bundle \cup {NoBundle}
  /\ archive \subseteq Bundle /\ durable \subseteq archive
  /\ claim \in [Bundle -> Session \cup {NoSession}]
  /\ unsynced \subseteq Bundle
  /\ claims \in {"absent", "unsynced", "synced"}
  /\ at \in [Session -> Place] /\ work \in [Session -> Bundle \cup {NoBundle}]
  /\ link \in [Session -> Bundle \cup {NoBundle}]
  /\ continued \in [Session -> Bundle \cup {NoBundle}]
  /\ fresh \in [Session -> BOOLEAN] /\ publisher \in Session \cup {NoSession}
  /\ sent \in [Bundle -> SUBSET Session] /\ outage \in BOOLEAN

CheckpointInit ==
  /\ head = NoBundle /\ headMay = {NoBundle} /\ archive = {} /\ durable = {}
  /\ claim = [b \in Bundle |-> NoSession]
  /\ unsynced = {} /\ claims = "absent"
  /\ at = [s \in Session |-> "away"] /\ work = [s \in Session |-> NoBundle]
  /\ link = [s \in Session |-> NoBundle] /\ continued = [s \in Session |-> NoBundle]
  /\ fresh = [s \in Session |-> TRUE] /\ publisher = NoSession
  /\ sent = [b \in Bundle |-> {}] /\ outage = FALSE

-----------------------------------------------------------------------------
Goto(s, p, b) == /\ at' = [at EXCEPT ![s] = p] /\ work' = [work EXCEPT ![s] = b]
Step(s, p) == Goto(s, p, work[s])

(* The store's lock: flock, exclusive, not blocking, held until close.      *)
LockFree(s) == \A t \in Session : at[t] = "away"
Open(s) == LockFree(s) /\ Goto(s, "idle", NoBundle) /\ UNCHANGED <<disk, sessions, sent>>

(* close, or a kill anywhere.                                               *)
Leave(s) == /\ at[s] # "away" /\ Goto(s, "away", NoBundle)
            /\ UNCHANGED <<disk, sessions, sent>>

Submit(s) == /\ at[s] = "idle" /\ fresh[s] /\ fresh' = [fresh EXCEPT ![s] = FALSE]
             /\ UNCHANGED <<disk, at, work, link, continued, sent>>

-----------------------------------------------------------------------------
(* close_milestone.  The caller expects the revision of the session's saved *)
(* head; the store compares it with its own head, which it loads with its   *)
(* archive.  A retry of the closure that made the head returns the head.    *)
Loads == head # NoBundle => head \in archive
ExpectedRevision(s, b) ==                                       \* mutant: no lineage
  Len(link[s]) = Len(head) /\ Len(b) = Len(head) + 1
Expected(s, b) == Len(link[s]) = Len(head) /\ Previous(b) = head
CloseMilestone(s, b) ==
  /\ at[s] = "idle" /\ Loads /\ b # head /\ Expected(s, b) /\ Goto(s, "closing", b)
  /\ UNCHANGED <<disk, sessions, sent>>
RetryClosure(s, b) ==
  /\ at[s] = "idle" /\ Loads /\ b = head /\ link[s] # b
  /\ Len(link[s]) \in {Len(head), Len(head) - 1}
  /\ Goto(s, "closed", b) /\ UNCHANGED <<disk, sessions, sent>>

(* save_task_state: an fsynced directory is renamed into the archive, whose *)
(* directory is then fsynced.  An archive that is there is read back.       *)
Archive(s) == /\ at[s] = "closing" /\ work[s] \notin archive
              /\ archive' = archive \cup {work[s]} /\ Step(s, "archived")
              /\ UNCHANGED <<head, headMay, durable, claim, unsynced, claims, publisher,
                             sessions, sent>>
SyncArchive(s) == /\ at[s] = "archived" /\ durable' = archive /\ Step(s, "publish")
                  /\ UNCHANGED <<head, headMay, archive, claim, unsynced, claims, publisher,
                                 sessions, sent>>
ArchiveExists(s) == /\ at[s] = "closing" /\ work[s] \in archive /\ Step(s, "publish")
                    /\ UNCHANGED <<disk, sessions, sent>>

(* _write_record of current.json: a staged file replaces it, and the store's *)
(* directory, which holds the claims directory too, is fsynced.             *)
ReplaceHead(s) == /\ at[s] = "publish" /\ head' = work[s] /\ publisher' = s
                  /\ headMay' = headMay \cup {work[s]} /\ Step(s, "placed")
                  /\ UNCHANGED <<archive, durable, claim, unsynced, claims, sessions, sent>>
SyncHead(s) == /\ at[s] = "placed" /\ headMay' = {head} /\ Step(s, "closed")
               /\ claims' = IF claims = "absent" THEN "absent" ELSE "synced"
               /\ UNCHANGED <<head, archive, durable, claim, unsynced, publisher,
                              sessions, sent>>

(* Any of these system calls may fail: the call raises, nothing is undone.  *)
Raises(s) == /\ at[s] \in Storing /\ Goto(s, "idle", NoBundle)
             /\ UNCHANGED <<disk, sessions, sent>>

-----------------------------------------------------------------------------
(* begin_continuation: a session without messages selects the current       *)
(* checkpoint.  A claim that is there is this session's or stops it.        *)
Selects(s) == at[s] = "idle" /\ fresh[s] /\ continued[s] = NoBundle /\ head # NoBundle /\ Loads
ClaimAgain(s) == /\ Selects(s) /\ claim[head] = s /\ Goto(s, "claim held", head)
                 /\ UNCHANGED <<disk, sessions, sent>>
BeginOverOther(s) ==                               \* mutant: another's claim is replaced
  /\ Selects(s) /\ claim[head] # s /\ Goto(s, "claiming", head)
  /\ UNCHANGED <<disk, sessions, sent>>
BeginContinuation(s) ==
  /\ Selects(s) /\ claim[head] = NoSession /\ Goto(s, "claiming", head)
  /\ UNCHANGED <<disk, sessions, sent>>

(* The claims directory is made, the claim placed in it, and it is fsynced: *)
(* the entry of the directory itself is not.                                *)
PlaceClaim(s) ==
  /\ at[s] = "claiming" /\ Step(s, "claimed")
  /\ claims' = IF claims = "absent" THEN "unsynced" ELSE claims
  /\ claim' = [claim EXCEPT ![work[s]] = s]
  /\ unsynced' = unsynced \cup {work[s]}
  /\ UNCHANGED <<head, headMay, archive, durable, publisher, sessions, sent>>
SyncClaim(s) ==
  /\ at[s] = "claimed" /\ Step(s, "claim held")
  /\ unsynced' = {}
  /\ UNCHANGED <<head, headMay, archive, durable, claim, claims, publisher, sessions, sent>>

(* The session saves what the store returned.  When its save raises, its    *)
(* record is the old or the new one and its controller is of no more use.   *)
Links(s) == /\ link' = [link EXCEPT ![s] = work[s]]
            /\ continued' = [continued EXCEPT ![s] =
                               IF at[s] = "claim held" THEN work[s] ELSE NoBundle]
CommitLink(s) == /\ at[s] \in {"closed", "claim held"} /\ Links(s) /\ Goto(s, "idle", NoBundle)
                 /\ UNCHANGED <<disk, fresh, sent>>
CommitRaises(s) == /\ at[s] \in {"closed", "claim held"} /\ Goto(s, "broken", NoBundle)
                   /\ Links(s) \/ UNCHANGED <<link, continued>>
                   /\ UNCHANGED <<disk, fresh, sent>>

(* resolve_continuation, before every dispatch of a continued session.      *)
Dispatch(s) == /\ at[s] = "idle" /\ continued[s] # NoBundle
               /\ head = continued[s] /\ Loads /\ claim[head] = s
               /\ sent' = [sent EXCEPT ![head] = @ \cup {s}]
               /\ fresh' = [fresh EXCEPT ![s] = FALSE]
               /\ UNCHANGED <<disk, at, work, link, continued>>

-----------------------------------------------------------------------------
PowerLoss ==
  /\ outage' = TRUE
  /\ head' \in headMay /\ headMay' = {head'}
  /\ \E kept \in SUBSET (archive \ durable) : archive' = durable \cup kept
  /\ durable' = archive'
  /\ \/ claims # "unsynced" /\ claims' = claims
     \/ claims = "unsynced" /\ claims' \in {"absent", "synced"}
  /\ \E lost \in IF claims' = "absent" THEN {Bundle} ELSE SUBSET unsynced :
       claim' = [b \in Bundle |-> IF b \in lost THEN NoSession ELSE claim[b]]
  /\ unsynced' = {}
  /\ publisher' = IF head' = head THEN publisher ELSE NoSession
  /\ at' = [s \in Session |-> "away"] /\ work' = [s \in Session |-> NoBundle]
  /\ UNCHANGED <<sessions, sent>>

Acts(s) == \/ Open(s) \/ Leave(s) \/ Submit(s)
           \/ \E b \in Bundle : CloseMilestone(s, b) \/ RetryClosure(s, b)
           \/ Archive(s) \/ SyncArchive(s) \/ ArchiveExists(s)
           \/ ReplaceHead(s) \/ SyncHead(s) \/ Raises(s)
           \/ ClaimAgain(s) \/ BeginContinuation(s) \/ PlaceClaim(s) \/ SyncClaim(s)
           \/ CommitLink(s) \/ CommitRaises(s) \/ Dispatch(s)

CheckpointNext ==
  \/ (\E s \in Session : Acts(s)) /\ UNCHANGED outage
  \/ PowerLoss

CheckpointSpec == CheckpointInit /\ [][CheckpointNext]_checkpointVars

-----------------------------------------------------------------------------
(* A checkpoint is continued by one session: no other ever dispatches work  *)
(* from it.  A power failure that takes the claims directory breaks this.   *)
OneContinuation == ~outage => \A b \in Bundle : \A s, t \in sent[b] : s = t

(* Whatever a power failure leaves of the head is a revision the head       *)
(* itself comes from: closures never fork the task.                         *)
SurvivorsOnLineage == \A b \in headMay : LeadsTo(b, head)

(* The head has its archive, what any session saved as its checkpoint is in *)
(* the head's lineage, and the session that put the head there can always   *)
(* repeat its closure: its link is the head or the revision before, which   *)
(* the store accepts.                                                       *)
LineageKept == ~outage =>
  /\ Loads
  /\ \A s \in Session : LeadsTo(link[s], head)
  /\ publisher # NoSession => link[publisher] \in {head, Previous(head)}
=============================================================================
