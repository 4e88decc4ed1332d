--------------------------- MODULE SpendLedgerTx ---------------------------
(***************************************************************************)
(* The ledger's methods statement by statement: several processes, each     *)
(* with a connection to the same rollback-journal database, run             *)
(* BEGIN IMMEDIATE, their reads, their row writes and COMMIT; guard_held    *)
(* keeps a read lock across its caller's work; any process may be killed    *)
(* anywhere.  The module shows that each method is the atomic action of     *)
(* SpendLedger.  SQLite's locks are those _connect asks for: one writer at  *)
(* a time, a commit waits for the readers and turns new ones away, and a    *)
(* transaction that does not commit leaves no trace.                        *)
(***************************************************************************)
EXTENDS SpendLedger

CONSTANT Calls          \* the calls processes make

VARIABLES stage,        \* where each process is in its transaction
          call,         \* the call it is executing
          done          \* how many of its row writes it has executed

txVars == <<stage, call, done>>
allTxVars == <<vars, txVars>>

NoCall == [op |-> "none"]

ReserveCall(batch, limit) == [op |-> "reserve", batch |-> batch, limit |-> limit]
TransferCall(x, y) == [op |-> "transfer", source |-> x, replacement |-> y]
RetireCall(x) == [op |-> "retire", source |-> x]
SettlementCall(e, h, st, c) == [op |-> "settle", id |-> e, hash |-> h, status |-> st, charge |-> c]
ReleaseCall(e, a) == [op |-> "reconcile", id |-> e, audit |-> a]
ForgiveCall(e, a) == [op |-> "forgive", id |-> e, audit |-> a]

(* Calls that pass the validation before the transaction.                   *)
CallSet ==
  {ReserveCall(batch, limit) : batch \in Batches, limit \in 1..Cardinality(EntryId) \cup {NoLimit}}
  \cup {TransferCall(z[1], z[2]) : z \in {z \in LedgerEntry \X LedgerEntry :
                                      z[1].id # z[2].id /\ z[1].amount = z[2].amount}}
  \cup {RetireCall(x) : x \in LedgerEntry}
  \cup {SettlementCall(e, h, st, c) : e \in EntryId, h \in Digest, st \in Outcome, c \in Amount}
  \cup {ReleaseCall(e, a) : e \in EntryId,
                        a \in {a \in Audit : a.previous > 0 /\ a.charged <= a.previous}}
  \cup {ForgiveCall(e, a) : e \in EntryId, a \in {a \in Audit : a.previous > 0 /\ a.charged = 0}}
ASSUME CallAssumption == Calls \subseteq CallSet

TxTypeOK == /\ stage \in [Holder -> {"idle", "begun", "writing", "pending"}]
            /\ call \in [Holder -> Calls \cup {NoCall}]
            /\ done \in [Holder -> Nat]

TxInit == /\ Init
          /\ stage = [p \in Holder |-> "idle"]
          /\ call = [p \in Holder |-> NoCall]
          /\ done = [p \in Holder |-> 0]

-----------------------------------------------------------------------------
(* What a method reads and compares before its first write.                 *)
Accepts(c) ==
  \/ c.op = "reserve" /\ AdmissionLimits(c.batch, c.limit)
  \/ c.op = "transfer" /\ ~Blocked /\ ExactRow(c.source, "held")
  \/ c.op = "retire" /\ ExactRow(c.source, "held")
  \/ /\ c.op = "settle" /\ status[c.id] = "held" /\ hash[c.id] = c.hash
     /\ c.charge <= reserved[c.id] /\ (c.status # "settled" => c.charge = reserved[c.id])
  \/ /\ c.op = "reconcile" /\ reconciliations[c.id] = NoAudit
     /\ ExactRow([id |-> c.id, hash |-> c.audit.hash, amount |-> c.audit.previous], "uncertain")
  \/ /\ c.op = "forgive" /\ countOnly[c.id] = NoAudit
     /\ ExactRow([id |-> c.id, hash |-> c.audit.hash, amount |-> c.audit.previous], "violation")

(* The row writes it then executes, in order.                               *)
Insert(x) == [kind |-> "insert", id |-> x.id, status |-> "held",
              hash |-> x.hash, reserved |-> x.amount, charged |-> x.amount]
Update(e, st, c) == [kind |-> "update", id |-> e, status |-> st, charged |-> c]
InsertAudit(e) == [kind |-> "audit", id |-> e]

Script(c) ==
  CASE c.op = "reserve"   -> [i \in DOMAIN c.batch |-> Insert(c.batch[i])]
    [] c.op = "transfer"  -> <<Insert(c.replacement), Update(c.source.id, "settled", 0)>>
    [] c.op = "retire"    -> <<Update(c.source.id, "settled", 0)>>
    [] c.op = "settle"    -> <<Update(c.id, c.status, c.charge)>>
    [] c.op = "reconcile" -> <<InsertAudit(c.id), Update(c.id, "settled", c.audit.charged)>>
    [] c.op = "forgive"   -> <<InsertAudit(c.id), Update(c.id, "settled", 0)>>

(* An insert fails on an id in the table or inserted earlier in the batch.  *)
KeyFree(p, w) ==
  w.kind = "insert" =>
    /\ status[w.id] = "absent"
    /\ \A i \in 1..done[p] : Script(call[p])[i].id # w.id

-----------------------------------------------------------------------------
(* BEGIN IMMEDIATE: one writer at a time, however many readers.             *)
BeginDeferred(p, c) == /\ stage[p] = "idle"                    \* mutant: plain BEGIN, no write lock
                       /\ stage' = [stage EXCEPT ![p] = "begun"]
                       /\ call' = [call EXCEPT ![p] = c]
                       /\ UNCHANGED <<vars, done>>

TxBegin(p, c) == /\ \A q \in Holder : stage[q] = "idle"
                 /\ stage' = [stage EXCEPT ![p] = "begun"]
                 /\ call' = [call EXCEPT ![p] = c]
                 /\ UNCHANGED <<vars, done>>

Rollback(p) == /\ stage' = [stage EXCEPT ![p] = "idle"]
               /\ call' = [call EXCEPT ![p] = NoCall]
               /\ done' = [done EXCEPT ![p] = 0]
               /\ UNCHANGED vars

Check(p) == /\ stage[p] = "begun"
            /\ \/ /\ Accepts(call[p])
                  /\ stage' = [stage EXCEPT ![p] = "writing"]
                  /\ UNCHANGED <<vars, call, done>>
               \/ ~Accepts(call[p]) /\ Rollback(p)

Exec(p) == LET script == Script(call[p]) IN
  /\ stage[p] = "writing" /\ done[p] < Len(script)
  /\ \/ /\ KeyFree(p, script[done[p] + 1])
        /\ done' = [done EXCEPT ![p] = @ + 1]
        /\ UNCHANGED <<vars, stage, call>>
     \/ ~KeyFree(p, script[done[p] + 1]) /\ Rollback(p)

CommitStart(p) == /\ stage[p] = "writing" /\ done[p] = Len(Script(call[p]))
                  /\ stage' = [stage EXCEPT ![p] = "pending"]
                  /\ UNCHANGED <<vars, call, done>>

(* The pages reach the file once no reader is left.                         *)
Written(p) == {Script(call[p])[i] : i \in 1..done[p]}
InsertsWritten(p) == {w \in Written(p) : w.kind = "insert"}
RowsWritten(p) == {w \in Written(p) : w.kind # "audit"}
Row(p, e) == CHOOSE w \in RowsWritten(p) : w.id = e

Install(p) ==
  LET ids == {w.id : w \in RowsWritten(p)}
      newIds == {w.id : w \in InsertsWritten(p)} IN
  /\ status' = [e \in EntryId |-> IF e \in ids THEN Row(p, e).status ELSE status[e]]
  /\ hash' = [e \in EntryId |-> IF e \in newIds THEN Row(p, e).hash ELSE hash[e]]
  /\ reserved' = [e \in EntryId |-> IF e \in newIds THEN Row(p, e).reserved ELSE reserved[e]]
  /\ charged' = [e \in EntryId |-> IF e \in ids THEN Row(p, e).charged ELSE charged[e]]
  /\ reconciliations' = IF call[p].op = "reconcile"
                        THEN [reconciliations EXCEPT ![call[p].id] = call[p].audit]
                        ELSE reconciliations
  /\ countOnly' = IF call[p].op = "forgive"
                  THEN [countOnly EXCEPT ![call[p].id] = call[p].audit]
                  ELSE countOnly
  /\ UNCHANGED guard

Finish(p) == /\ stage' = [stage EXCEPT ![p] = "idle"]
             /\ call' = [call EXCEPT ![p] = NoCall]
             /\ done' = [done EXCEPT ![p] = 0]

CommitEnd(p) == stage[p] = "pending" /\ Writable /\ Install(p) /\ Finish(p)

(* The busy timeout ends the wait for a reader, which may be this process   *)
(* itself, calling the ledger from inside its own guard.                    *)
NoBusyTimeout(p) == FALSE /\ Rollback(p)                  \* mutant: COMMIT waits for ever
BusyTimeout(p) == stage[p] = "pending" /\ ~Writable /\ Rollback(p)

(* A killed process loses its uncommitted writes and its locks.             *)
CrashAfterFirstWrite(p) == /\ stage[p] # "idle"          \* mutant: autocommitted writes survive
                           /\ Install(p) /\ Finish(p)
TxCrash(p) == /\ stage[p] # "idle" \/ guard[p] # NoEntry
              /\ guard' = [guard EXCEPT ![p] = NoEntry]
              /\ stage' = [stage EXCEPT ![p] = "idle"]
              /\ call' = [call EXCEPT ![p] = NoCall]
              /\ done' = [done EXCEPT ![p] = 0]
              /\ UNCHANGED <<ledgerRows, audits>>

(* guard_held takes a read lock unless a commit is pending.                 *)
Guard(p, x) == /\ \A q \in Holder : stage[q] # "pending"
               /\ GuardHeld(p, x)
               /\ UNCHANGED txVars
Unguard(p) == stage[p] = "idle" /\ GuardRelease(p) /\ UNCHANGED txVars

Work(p) == Check(p) \/ Exec(p) \/ CommitStart(p) \/ CommitEnd(p) \/ BusyTimeout(p)

TxNext == \E p \in Holder :
            \/ \E c \in Calls : TxBegin(p, c)
            \/ Check(p)
            \/ Exec(p)
            \/ CommitStart(p)
            \/ CommitEnd(p)
            \/ BusyTimeout(p)
            \/ TxCrash(p)
            \/ \E x \in LedgerEntry : stage[p] = "idle" /\ Guard(p, x)
            \/ Unguard(p)

TxSpec == /\ TxInit /\ [][TxNext]_allTxVars
          /\ \A p \in Holder : WF_allTxVars(Work(p))

-----------------------------------------------------------------------------
(* What a transaction checked still holds when it commits, whatever other   *)
(* processes tried in between: no limit is overrun by a stale snapshot.     *)
ChecksStayTrue == \A p \in Holder : stage[p] \in {"writing", "pending"} => Accepts(call[p])

(* Transactions, crashes and timeouts included, are the atomic calls of     *)
(* SpendLedger: no prefix of a batch and no half transfer is ever visible.  *)
TxImplementsLedger == Init /\ [][Next]_vars

(* No call waits for ever, not even one made from inside a guard.           *)
CallsEnd == \A p \in Holder : stage[p] # "idle" ~> stage[p] = "idle"
=============================================================================
