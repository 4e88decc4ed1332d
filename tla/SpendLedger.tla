---------------------------- MODULE SpendLedger ----------------------------
(***************************************************************************)
(* The spending ledger, run/spend_ledger.py: one private SQLite file shared *)
(* by processes.  Every public method is one serialized transaction, so one *)
(* action (SpendLedgerTx.tla opens the transactions up).  A call that       *)
(* raises changes nothing and is a disabled action here.                    *)
(*                                                                         *)
(* The table "entries" is kept as one function per column; "absent" is the  *)
(* status of an id with no row.  Ids, reservation hashes and the hashes of  *)
(* signed evidence are opaque.                                              *)
(***************************************************************************)
EXTENDS Amounts, Sequences

CONSTANTS EntryId,        \* entry_id digests
          Digest,         \* reservation_sha256 digests
          Evidence,       \* <evidence_sha256, authority_sha256> pairs
          Holder,         \* callers that may sit inside guard_held
          Ceiling,        \* ledger_policy.ceiling
          MaxBatch,       \* 64 in the code
          NoDigest, NoAudit, NoEntry, NoLimit

ASSUME LedgerAssumption ==
  /\ IsFiniteSet(EntryId) /\ NoEntry \notin EntryId
  /\ NoDigest \notin Digest
  /\ Ceiling \in Amount \ {0}
  /\ MaxBatch \in Nat \ {0}
  /\ NoAudit \notin [hash : Digest, previous : Amount, charged : Amount, evidence : Evidence]
  /\ NoLimit \notin Nat

VARIABLES status, hash, reserved, charged,   \* table entries, by column
          reconciliations,                   \* audit of released uncertain holds
          countOnly,                         \* audit of released violations
          guard                              \* the entry each holder read-locks

ledgerRows == <<status, hash, reserved, charged>>
audits == <<reconciliations, countOnly>>
vars == <<status, hash, reserved, charged, reconciliations, countOnly, guard>>

Outcome == {"settled", "uncertain", "violation"}
Status == {"absent", "held"} \cup Outcome
LedgerEntry == [id : EntryId, hash : Digest, amount : Amount]
Audit == [hash : Digest, previous : Amount, charged : Amount, evidence : Evidence]

TypeOK == /\ status \in [EntryId -> Status]
          /\ hash \in [EntryId -> Digest \cup {NoDigest}]
          /\ reserved \in [EntryId -> Amount]
          /\ charged \in [EntryId -> Amount]
          /\ reconciliations \in [EntryId -> Audit \cup {NoAudit}]
          /\ countOnly \in [EntryId -> Audit \cup {NoAudit}]
          /\ guard \in [Holder -> EntryId \cup {NoEntry}]

Init == /\ status = [e \in EntryId |-> "absent"]
        /\ hash = [e \in EntryId |-> NoDigest]
        /\ reserved = [e \in EntryId |-> 0]
        /\ charged = [e \in EntryId |-> 0]
        /\ reconciliations = [e \in EntryId |-> NoAudit]
        /\ countOnly = [e \in EntryId |-> NoAudit]
        /\ guard = [p \in Holder |-> NoEntry]

-----------------------------------------------------------------------------
(* _snapshot.                                                               *)
Charged == Total(EntryId, charged)
Settled == {e \in EntryId : status[e] = "settled"}
Unresolved == {e \in EntryId : status[e] \in {"held", "uncertain", "violation"}}
Blocked == \E e \in EntryId : status[e] = "violation"

(* The row of x.id is exactly x, still at its full amount in status st.     *)
ExactRow(x, st) == /\ status[x.id] = st
                   /\ hash[x.id] = x.hash
                   /\ reserved[x.id] = x.amount
                   /\ charged[x.id] = x.amount

(* A writer cannot commit while any connection keeps a read lock: it waits  *)
(* 250 ms and raises.                                                       *)
Writable == \A p \in Holder : guard[p] = NoEntry

SetOutcome(e, st, c) == /\ status' = [status EXCEPT ![e] = st]
                        /\ charged' = [charged EXCEPT ![e] = c]
                        /\ UNCHANGED <<hash, reserved>>

-----------------------------------------------------------------------------
(* reserve_many; reserve is a batch of one.                                 *)
BatchAmount(batch) == Total(DOMAIN batch, [i \in DOMAIN batch |-> batch[i].amount])

AdmittedOneByOne(batch, limit) ==                  \* mutant: the amounts are not added up
  /\ Len(batch) \in 1..MaxBatch
  /\ limit # NoLimit => Cardinality(Unresolved) + Len(batch) <= limit
  /\ ~Blocked
  /\ \A i \in DOMAIN batch : batch[i].amount <= Ceiling - Charged

AdmissionLimits(batch, limit) ==
  /\ Len(batch) \in 1..MaxBatch
  /\ limit # NoLimit => Cardinality(Unresolved) + Len(batch) <= limit
  /\ ~Blocked
  /\ BatchAmount(batch) <= Ceiling - Charged

(* The primary key rejects an id that was ever used, or used twice.         *)
Fresh(batch) == /\ \A i \in DOMAIN batch : status[batch[i].id] = "absent"
                /\ \A i, j \in DOMAIN batch : batch[i].id = batch[j].id => i = j

Admissible(batch, limit) == Fresh(batch) /\ AdmissionLimits(batch, limit)

Inserted(batch) == {batch[i].id : i \in DOMAIN batch}
EntryOf(batch, e) == batch[CHOOSE i \in DOMAIN batch : batch[i].id = e]

ReserveMany(batch, limit) ==
  /\ Admissible(batch, limit) /\ Writable
  /\ status' = [e \in EntryId |-> IF e \in Inserted(batch) THEN "held" ELSE status[e]]
  /\ hash' = [e \in EntryId |-> IF e \in Inserted(batch) THEN EntryOf(batch, e).hash ELSE hash[e]]
  /\ reserved' =
       [e \in EntryId |-> IF e \in Inserted(batch) THEN EntryOf(batch, e).amount ELSE reserved[e]]
  /\ charged' =
       [e \in EntryId |-> IF e \in Inserted(batch) THEN EntryOf(batch, e).amount ELSE charged[e]]
  /\ UNCHANGED <<reconciliations, countOnly, guard>>

(* transfer_held.                                                           *)
TransferWhileBlocked(source, replacement) ==              \* mutant: the block is not read
  /\ source.id # replacement.id /\ source.amount = replacement.amount /\ Writable
  /\ ExactRow(source, "held") /\ status[replacement.id] = "absent"
  /\ status' = [status EXCEPT ![replacement.id] = "held", ![source.id] = "settled"]
  /\ hash' = [hash EXCEPT ![replacement.id] = replacement.hash]
  /\ reserved' = [reserved EXCEPT ![replacement.id] = replacement.amount]
  /\ charged' = [charged EXCEPT ![replacement.id] = replacement.amount, ![source.id] = 0]
  /\ UNCHANGED <<reconciliations, countOnly, guard>>

TransferKeepsSource(source, replacement) ==               \* mutant: the source stays charged
  /\ source.id # replacement.id /\ source.amount = replacement.amount
  /\ ~Blocked /\ Writable
  /\ ExactRow(source, "held") /\ status[replacement.id] = "absent"
  /\ status' = [status EXCEPT ![replacement.id] = "held", ![source.id] = "settled"]
  /\ hash' = [hash EXCEPT ![replacement.id] = replacement.hash]
  /\ reserved' = [reserved EXCEPT ![replacement.id] = replacement.amount]
  /\ charged' = [charged EXCEPT ![replacement.id] = replacement.amount]
  /\ UNCHANGED <<reconciliations, countOnly, guard>>

TransferHeld(source, replacement) ==
  /\ source.id # replacement.id /\ source.amount = replacement.amount
  /\ ~Blocked /\ Writable
  /\ ExactRow(source, "held") /\ status[replacement.id] = "absent"
  /\ status' = [status EXCEPT ![replacement.id] = "held", ![source.id] = "settled"]
  /\ hash' = [hash EXCEPT ![replacement.id] = replacement.hash]
  /\ reserved' = [reserved EXCEPT ![replacement.id] = replacement.amount]
  /\ charged' = [charged EXCEPT ![replacement.id] = replacement.amount, ![source.id] = 0]
  /\ UNCHANGED <<reconciliations, countOnly, guard>>

(* retire_unused; the exact entry in another status returns False.          *)
RetireUnused(x) == /\ ExactRow(x, "held") /\ Writable
                   /\ SetOutcome(x.id, "settled", 0)
                   /\ UNCHANGED <<reconciliations, countOnly, guard>>

(* settle.                                                                  *)
SettleAgain(e, h, st, c) == /\ status[e] # "absent" /\ hash[e] = h   \* mutant: not only held rows
                            /\ Writable /\ c <= reserved[e]
                            /\ st # "settled" => c = reserved[e]
                            /\ SetOutcome(e, st, c)
                            /\ UNCHANGED <<reconciliations, countOnly, guard>>

Settle(e, h, st, c) == /\ status[e] = "held" /\ hash[e] = h /\ Writable
                       /\ c <= reserved[e]
                       /\ st # "settled" => c = reserved[e]
                       /\ SetOutcome(e, st, c)
                       /\ UNCHANGED <<reconciliations, countOnly, guard>>

(* reconcile_uncertain; an exact repeat returns False, any other repeat     *)
(* raises.                                                                  *)
ReconcileAnyAmount(e, a) ==                           \* mutant: previous amount not compared
  /\ a.previous > 0 /\ a.charged <= a.previous
  /\ reconciliations[e] = NoAudit /\ Writable
  /\ status[e] = "uncertain" /\ hash[e] = a.hash
  /\ reconciliations' = [reconciliations EXCEPT ![e] = a]
  /\ SetOutcome(e, "settled", a.charged)
  /\ UNCHANGED <<countOnly, guard>>

ReconcileUncertain(e, a) ==
  /\ a.previous > 0 /\ a.charged <= a.previous
  /\ reconciliations[e] = NoAudit /\ Writable
  /\ ExactRow([id |-> e, hash |-> a.hash, amount |-> a.previous], "uncertain")
  /\ reconciliations' = [reconciliations EXCEPT ![e] = a]
  /\ SetOutcome(e, "settled", a.charged)
  /\ UNCHANGED <<countOnly, guard>>

(* reconcile_count_only_violation.                                          *)
ReconcileCountOnly(e, a) ==
  /\ a.previous > 0 /\ a.charged = 0
  /\ countOnly[e] = NoAudit /\ Writable
  /\ ExactRow([id |-> e, hash |-> a.hash, amount |-> a.previous], "violation")
  /\ countOnly' = [countOnly EXCEPT ![e] = a]
  /\ SetOutcome(e, "settled", 0)
  /\ UNCHANGED <<reconciliations, guard>>

(* guard_held: entering the context checks the row, leaving it unlocks.     *)
GuardHeld(p, x) == /\ guard[p] = NoEntry
                   /\ ExactRow(x, "held")
                   /\ guard' = [guard EXCEPT ![p] = x.id]
                   /\ UNCHANGED <<ledgerRows, audits>>

GuardRelease(p) == /\ guard[p] # NoEntry
                   /\ guard' = [guard EXCEPT ![p] = NoEntry]
                   /\ UNCHANGED <<ledgerRows, audits>>

-----------------------------------------------------------------------------
Batches == UNION {[1..n -> LedgerEntry] : n \in 1..MaxBatch}

Next == \/ \E batch \in Batches, limit \in 1..Cardinality(EntryId) \cup {NoLimit} :
             ReserveMany(batch, limit)
        \/ \E x, y \in LedgerEntry : TransferHeld(x, y)
        \/ \E x \in LedgerEntry : RetireUnused(x)
        \/ \E e \in EntryId, h \in Digest, st \in Outcome, c \in Amount : Settle(e, h, st, c)
        \/ \E e \in EntryId, a \in Audit : ReconcileUncertain(e, a)
        \/ \E e \in EntryId, a \in Audit : ReconcileCountOnly(e, a)
        \/ \E p \in Holder, x \in LedgerEntry : GuardHeld(p, x)
        \/ \E p \in Holder : GuardRelease(p)

Spec == Init /\ [][Next]_vars

-----------------------------------------------------------------------------
(* Properties.                                                              *)

(* What the ledger counts never exceeds its ceiling: not after concurrent   *)
(* batches, transfers, partial settlements or reconciliations.              *)
ExposureWithinCeiling == Charged <= Ceiling

(* An entry that is not finally settled keeps its whole reservation charged *)
(* and its exact identity, so no path frees the exposure of a call whose    *)
(* cost is unknown.                                                         *)
UnresolvedFullyExposed ==
  \A e \in Unresolved : charged[e] = reserved[e] /\ hash[e] \in Digest

(* Both at once: batches, transfers, partial settlements and reconciliations *)
(* of any number of callers neither pass the ceiling nor make room under it  *)
(* by freeing a call whose cost is unknown (spend_ledger.py).                *)
ExposureSound == ExposureWithinCeiling /\ UnresolvedFullyExposed

(* An id is spent once: its identity never changes after admission, it never *)
(* becomes held again, and once settled its charge is final (no reset and    *)
(* no refund).                                                              *)
EntryMonotone ==
  \A e \in EntryId : status[e] # "absent" =>
     /\ status'[e] # "absent" /\ (status'[e] = "held" => status[e] = "held")
     /\ hash'[e] = hash[e] /\ reserved'[e] = reserved[e]
     /\ status[e] = "settled" => status'[e] = "settled" /\ charged'[e] = charged[e]
EntriesIrrevocable == [][EntryMonotone]_vars

(* Every audit row agrees with the entry it adjusted for ever after, and no *)
(* entry carries both audits: the "differs from retained entry" errors of   *)
(* the two reconciliations can only report another caller's conflict.       *)
AuditsAgree ==
  \A e \in EntryId :
    /\ \A a \in {reconciliations[e], countOnly[e]} \ {NoAudit} :
         /\ status[e] = "settled" /\ charged[e] = a.charged
         /\ hash[e] = a.hash /\ reserved[e] = a.previous
    /\ reconciliations[e] = NoAudit \/ countOnly[e] = NoAudit

(* The caller of guard_held commits its own files against a reservation     *)
(* that is still held: no settlement, transfer or retirement slips between. *)
GuardedStaysHeld == \A p \in Holder : guard[p] # NoEntry => status[guard[p]] = "held"

(* Total exposure grows only by an admission, and never while a violation   *)
(* blocks the ledger; a transfer moves a hold without changing the total.   *)
BlockedAdmitsNothing ==
  [][Blocked => /\ Charged' <= Charged
                /\ \A e \in EntryId : status[e] = "absent" => status'[e] = "absent"]_vars

(* The ledger keeps the promises of SpendBudget: a settled charge is spent   *)
(* for good, everything else on the books is exposure, a violation freezes  *)
(* admission.                                                               *)
Spent == Total(Settled, charged)
Exposed == Total(Unresolved, charged)
Budget == INSTANCE SpendBudget WITH spent <- Spent, exposed <- Exposed, frozen <- Blocked
ImplementsBudget == Budget!Spec
=============================================================================
