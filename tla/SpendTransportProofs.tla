------------------------ MODULE SpendTransportProofs ------------------------
(***************************************************************************)
(* A paid call is dispatched once, its bill is on the ledger, and its       *)
(* receipt tells the truth, for any number of attempts, calls and kinds of  *)
(* controller.  The argument: the O_EXCL reservation file makes one attempt *)
(* the owner of its call, and only the owner sends and settles; what the    *)
(* ledger guarantees by itself comes from SpendLedgerProofs.                *)
(***************************************************************************)
EXTENDS AnchoredTransport, SpendLedgerProofs

(* The attempt has created its call's reservation file.                     *)
Owner(a) == \/ pc[a] \in {"admit", "recheck", "send", "sent", "settle", "receipt"}
            \/ pc[a] = "count" /\ PreReserved(CallOf[a])

HasResult == \A a \in Attempt : pc[a] \in {"settle", "receipt"} => outcome[a] # NoOutcome

DispatchInv ==
  /\ \A a \in Attempt : pc[a] = "file" => amount[a] # 0
  /\ \A a \in Attempt : Owner(a) => artifact[CallOf[a]] # 0
  /\ \A a, b \in Attempt : Owner(a) /\ Owner(b) /\ CallOf[a] = CallOf[b] => a = b
  /\ \A c \in EntryId : sends[c] # 0 => sends[c] = 1 /\ artifact[c] # 0
  /\ \A a \in Attempt : Owner(a) /\ sends[CallOf[a]] # 0 => pc[a] \in {"sent", "settle", "receipt"}

BillInv ==
  /\ \A c \in EntryId : sends[c] = 0 => billed[c] = 0
  /\ \A a \in Attempt : pc[a] = "send" => status[CallOf[a]] = "held"
  /\ \A a \in Attempt : pc[a] = "settle" /\ outcome[a].status = "settled"
                          => outcome[a].charge = billed[CallOf[a]]
  /\ \A c \in EntryId : status[c] = "absent" => billed[c] = 0
  /\ \A c \in EntryId : status[c] = "settled" => billed[c] <= charged[c] \/ billed[c] > reserved[c]

Agrees(c, o) == \/ status[c] = o.status /\ charged[c] = o.charge
                \/ reconciliations[c] # NoAudit \/ countOnly[c] # NoAudit

ReceiptInv == /\ \A a \in Attempt : pc[a] = "receipt" => Agrees(CallOf[a], outcome[a])
              /\ \A c \in EntryId : receipt[c] # NoOutcome => Agrees(c, receipt[c])

CallInv == /\ CallTypeOK /\ HasResult
           /\ LedgerInv
           /\ DispatchInv
           /\ BillInv
           /\ ReceiptInv

-----------------------------------------------------------------------------
(* Whatever an attempt or an operator does to the ledger is a ledger call.  *)
LEMMA OneEntryBatch ==
  ASSUME NEW c \in EntryId, NEW n \in Amount
  PROVE  Entry(c, n) \in LedgerEntry /\ <<Entry(c, n)>> \in Batches
<1>1. Entry(c, n) \in LedgerEntry
  BY TransportAssumption DEF Entry, LedgerEntry
<1>2. <<Entry(c, n)>> \in [1..1 -> LedgerEntry] /\ 1 \in 1..MaxBatch
  BY <1>1, LedgerAssumption
<1> QED BY <1>1, <1>2 DEF Batches

LEMMA LedgerStep ==
  ASSUME CallTypeOK, HasResult, LedgerInv, CallNext
  PROVE  [Next]_vars
<1>1. \A a \in Attempt : CallOf[a] \in EntryId /\ amount[a] \in Amount /\ Full \in Amount
  BY TransportAssumption DEF CallTypeOK
<1>2. ASSUME NEW c \in EntryId, Admit(c) PROVE Next
  BY <1>2, OneEntryBatch, TransportAssumption DEF Admit, Next
<1>3. ASSUME NEW a \in Attempt, Reserve(a) PROVE [Next]_vars
  BY <1>1, <1>3, OneEntryBatch DEF Reserve, Fail, Next
<1>4. ASSUME NEW a \in Attempt, SettleCall(a) PROVE [Next]_vars
  <2>1. CASE UNCHANGED vars
    BY <2>1
  <2>2. CASE pc[a] = "settle" /\ Settle(CallOf[a], amount[a], outcome[a].status, outcome[a].charge)
    <3>1. outcome[a] \in [status : Outcome, charge : Amount]
      BY <2>2 DEF CallTypeOK, HasResult
    <3>2. amount[a] \in Digest /\ outcome[a].status \in Outcome /\ outcome[a].charge \in Amount
      BY <1>1, <3>1, TransportAssumption
    <3> QED BY <1>1, <2>2, <3>2 DEF Next
  <2> QED BY <1>4, <2>1, <2>2 DEF SettleCall, Fail
<1>5. ASSUME Operator PROVE Next
  <2>1. PICK c \in EntryId, n \in Amount, v \in Evidence :
          LET audit == [hash |-> hash[c], previous |-> reserved[c], charged |-> n, evidence |-> v] IN
            ReconcileUncertain(c, audit) \/ ReconcileCountOnly(c, audit)
    BY <1>5 DEF Operator
  <2> DEFINE audit == [hash |-> hash[c], previous |-> reserved[c], charged |-> n, evidence |-> v]
  <2>2. status[c] \in {"uncertain", "violation"}
    BY <2>1 DEF ReconcileUncertain, ReconcileCountOnly, ExactRow
  <2>3. hash[c] \in Digest /\ reserved[c] \in Amount
    BY <2>2 DEF LedgerInv, UnresolvedFullyExposed, Unresolved, TypeOK
  <2>4. audit \in Audit
    BY <2>3 DEF Audit
  <2> QED BY <2>1, <2>4 DEF Next
<1>6. ASSUME Guards PROVE Next
  <2>1. ASSUME NEW c \in EntryId PROVE Entry(c, reserved[c]) \in LedgerEntry
    BY OneEntryBatch DEF LedgerInv, TypeOK
  <2> QED BY <1>6, <2>1 DEF Guards, Next
<1>7. ASSUME NEW a \in Attempt,
             Start(a) \/ CountBudgeted(a) \/ CountHeld(a) \/ File(a) \/ Recheck(a) \/ Send(a)
               \/ Answer(a) \/ WriteReceipt(a) \/ Crash(a)
      PROVE  UNCHANGED vars
  BY <1>7 DEF Start, CountBudgeted, CountHeld, File, Recheck, Send, Leave, Unsent, Answer, WriteReceipt,
              Crash, Fail
<1>8. ASSUME Expire PROVE UNCHANGED vars
  BY <1>8 DEF Expire
<1> QED BY <1>2, <1>3, <1>4, <1>5, <1>6, <1>7, <1>8 DEF CallNext, Steps

-----------------------------------------------------------------------------
(* Types, and an attempt that settles or writes its receipt has a result.   *)
LEMMA CallTypeInit == CallInit => CallTypeOK /\ HasResult
<1> SUFFICES ASSUME CallInit PROVE CallTypeOK /\ HasResult
  OBVIOUS
<1>1. TypeOK
  BY TypeInit DEF CallInit
<1>2. 0 \in Amount
  BY MaxAmountAssumption DEF Amount
<1> QED BY <1>1, <1>2 DEF CallInit, CallTypeOK, HasResult

LEMMA CallTypeStep ==
  ASSUME CallTypeOK, HasResult, TypeOK', CallNext
  PROVE  CallTypeOK' /\ HasResult'
<1> USE DEF CallTypeOK, HasResult
<1>1. /\ 0 \in Amount /\ Full \in Amount /\ 1..Full \subseteq Amount
      /\ \A a \in Attempt : CallOf[a] \in EntryId
      /\ NoOutcome \notin [status : Outcome, charge : Amount]
  BY TransportAssumption, MaxAmountAssumption DEF Amount, NoOutcome, Outcome
<1> DEFINE Kept == CallTypeOK' /\ HasResult'
<1>2. ASSUME UNCHANGED callVars PROVE Kept
  BY <1>2 DEF callVars
<1>3. ASSUME NEW a \in Attempt, End(a), UNCHANGED <<artifact, sends, billed, expired>>,
             receipt' \in [EntryId -> [status : Outcome, charge : Amount] \cup {NoOutcome}]
      PROVE  Kept
  BY <1>1, <1>3 DEF End, Goto
<1>4. ASSUME NEW a \in Attempt, Fail(a) PROVE Kept
  BY <1>3, <1>4 DEF Fail
<1>5. ASSUME NEW a \in Attempt, NEW st \in Outcome, NEW c \in Amount, Resolve(a, st, c),
             UNCHANGED <<amount, artifact, receipt, sends, billed, expired>>
      PROVE  Kept
  <2>1. [status |-> st, charge |-> c] \in [status : Outcome, charge : Amount]
    BY <1>5
  <2> QED BY <1>1, <1>5, <2>1 DEF Resolve, Goto, Live
<1>6. ASSUME NEW a \in Attempt, NEW l \in Live, Goto(a, l), l \notin {"settle", "receipt"},
             UNCHANGED callKept
      PROVE  Kept
  BY <1>6 DEF Goto, Live, callKept
<1>7. ASSUME NEW a \in Attempt, Start(a) PROVE Kept
  BY <1>1, <1>4, <1>7 DEF Start, Goto, Live
<1>8. ASSUME NEW a \in Attempt, CountBudgeted(a) PROVE Kept
  BY <1>1, <1>4, <1>8 DEF CountBudgeted, Goto, Live
<1>9. ASSUME NEW a \in Attempt, CountHeld(a) PROVE Kept
  BY <1>4, <1>5, <1>6, <1>9 DEF CountHeld, Outcome, Live
<1>10. ASSUME NEW a \in Attempt, File(a) PROVE Kept
  BY <1>1, <1>4, <1>10 DEF File, Goto, Live
<1>11. ASSUME NEW a \in Attempt, Reserve(a) PROVE Kept
  BY <1>4, <1>11 DEF Reserve, Goto, Live
<1>12. ASSUME NEW a \in Attempt, Recheck(a) PROVE Kept
  BY <1>4, <1>5, <1>6, <1>12 DEF Recheck, Outcome, Live
<1>13. ASSUME NEW a \in Attempt, Send(a) PROVE Kept
  <2>0. CASE Unsent(a)
    BY <1>5, <2>0 DEF Unsent, Outcome
  <2> SUFFICES ASSUME Leave(a) PROVE Kept
    BY <1>13, <2>0 DEF Send
  <2>1. PICK n \in 0..Full + 1 : billed' = [billed EXCEPT ![CallOf[a]] = @ + n]
    BY DEF Leave
  <2>2. sends' \in [EntryId -> Nat] /\ billed' \in [EntryId -> Nat]
    <3>1. Full \in Nat /\ n \in Nat
      BY <1>1, MaxAmountAssumption DEF Amount
    <3>2. sends' = [sends EXCEPT ![CallOf[a]] = @ + 1]
      BY DEF Leave
    <3>3. sends[CallOf[a]] + 1 \in Nat /\ billed[CallOf[a]] + n \in Nat
      BY <1>1, <3>1
    <3> QED BY <1>1, <2>1, <3>2, <3>3
  <2> QED BY <2>2 DEF Leave, Goto, Live
<1>14. ASSUME NEW a \in Attempt, Answer(a) PROVE Kept
  <2>1. billed[CallOf[a]] <= amount[a] => billed[CallOf[a]] \in Amount
    <3>1. billed[CallOf[a]] \in Nat /\ amount[a] \in 0..MaxAmount /\ MaxAmount \in Nat
      BY <1>1, MaxAmountAssumption DEF Amount
    <3> QED BY <3>1 DEF Amount
  <2> QED BY <1>5, <1>14, <2>1 DEF Answer, Outcome
<1>15. ASSUME NEW a \in Attempt, SettleCall(a) PROVE Kept
  BY <1>4, <1>15 DEF SettleCall, Goto, Live
<1>16. ASSUME NEW a \in Attempt, WriteReceipt(a) PROVE Kept
  BY <1>1, <1>3, <1>4, <1>16 DEF WriteReceipt
<1>17. ASSUME NEW a \in Attempt, Crash(a) PROVE Kept
  BY <1>4, <1>17 DEF Crash
<1>18. ASSUME Expire PROVE Kept
  BY <1>18 DEF Expire
<1>19. ASSUME (\E c \in EntryId : Admit(c)) \/ Operator \/ Guards PROVE Kept
  BY <1>2, <1>19 DEF Admit, Operator, Guards
<1> QED BY <1>7, <1>8, <1>9, <1>10, <1>11, <1>12, <1>13, <1>14, <1>15, <1>16, <1>17, <1>18, <1>19
        DEF CallNext, Steps

-----------------------------------------------------------------------------
(* One owner per call: the file is created before anything else, and only   *)
(* by the attempt that finds it missing.                                    *)
LEMMA DispatchInit == CallInit => DispatchInv
BY DEF CallInit, DispatchInv, Owner

LEMMA DispatchStep ==
  ASSUME CallTypeOK, DispatchInv, CallNext
  PROVE  DispatchInv'
<1>0. \A a \in Attempt : PreReserved(CallOf[a])' <=> PreReserved(CallOf[a])
  BY DEF CallNext, PreReserved
<1> USE <1>0 DEF DispatchInv, Owner
<1>1. /\ \A a \in Attempt : CallOf[a] \in EntryId /\ pc[a] \in {"new", "ended"} \cup Live
      /\ pc \in [Attempt -> {"new", "ended"} \cup Live] /\ amount \in [Attempt -> Amount]
      /\ artifact \in [EntryId -> Amount] /\ sends \in [EntryId -> Nat]
      /\ 0 \in Amount /\ Full \in Amount \ {0}
  BY TransportAssumption, MaxAmountAssumption DEF CallTypeOK, Amount
<1>2. ASSUME UNCHANGED <<pc, amount, artifact, sends>> PROVE DispatchInv'
  BY <1>2
<1>3. ASSUME NEW a \in Attempt, End(a), UNCHANGED <<artifact, sends>> PROVE DispatchInv'
  BY <1>1, <1>3 DEF End, Goto
<1>4. ASSUME NEW a \in Attempt, Fail(a) PROVE DispatchInv'
  BY <1>3, <1>4 DEF Fail
<1>5. ASSUME NEW a \in Attempt, Owner(a), NEW l \in {"recheck", "send", "settle", "receipt"}, Goto(a, l),
             sends[CallOf[a]] # 0 => l \in {"sent", "settle", "receipt"},
             UNCHANGED <<amount, artifact, sends>>
      PROVE  DispatchInv'
  BY <1>1, <1>5 DEF Goto
<1>6. ASSUME NEW a \in Attempt, Start(a) PROVE DispatchInv'
  BY <1>1, <1>4, <1>6 DEF Start, Goto
<1>7. ASSUME NEW a \in Attempt, CountBudgeted(a) PROVE DispatchInv'
  <2>1. CASE pc[a] = "count" /\ ~PreReserved(CallOf[a]) /\ Goto(a, "file")
             /\ (\E n \in 1..Full : amount' = [amount EXCEPT ![a] = n])
             /\ UNCHANGED <<artifact, sends>>
    BY <1>1, <2>1 DEF Goto
  <2> QED BY <1>4, <1>7, <2>1 DEF CountBudgeted
<1>8. ASSUME NEW a \in Attempt, CountHeld(a) PROVE DispatchInv'
  BY <1>4, <1>5, <1>8 DEF CountHeld, Resolve, callKept
<1>9. ASSUME NEW a \in Attempt, File(a) PROVE DispatchInv'
  <2>1. CASE pc[a] = "file" /\ artifact[CallOf[a]] = 0
             /\ artifact' = [artifact EXCEPT ![CallOf[a]] = amount[a]]
             /\ Goto(a, IF PreReserved(CallOf[a]) THEN "count" ELSE "admit")
             /\ UNCHANGED <<amount, sends>>
    BY <1>1, <2>1 DEF Goto
  <2> QED BY <1>4, <1>9, <2>1 DEF File
<1>10. ASSUME NEW a \in Attempt, Reserve(a) PROVE DispatchInv'
  BY <1>4, <1>5, <1>10 DEF Reserve
<1>11. ASSUME NEW a \in Attempt, Recheck(a) PROVE DispatchInv'
  BY <1>4, <1>5, <1>11 DEF Recheck, Resolve, callKept
<1>12. ASSUME NEW a \in Attempt, Send(a) PROVE DispatchInv'
  <2>0. CASE Unsent(a)
    BY <1>5, <2>0 DEF Unsent, Resolve
  <2> SUFFICES ASSUME Leave(a) PROVE DispatchInv'
    BY <1>12, <2>0 DEF Send
  <2>1. pc[a] = "send" /\ Goto(a, "sent") /\ sends' = [sends EXCEPT ![CallOf[a]] = @ + 1]
        /\ UNCHANGED <<amount, artifact>>
    BY DEF Leave
  <2>2. sends[CallOf[a]] = 0
    BY <2>1
  <2> QED BY <1>1, <2>1, <2>2 DEF Goto
<1>13. ASSUME NEW a \in Attempt, Answer(a) PROVE DispatchInv'
  BY <1>5, <1>13 DEF Answer, Resolve
<1>14. ASSUME NEW a \in Attempt, SettleCall(a) PROVE DispatchInv'
  BY <1>4, <1>5, <1>14 DEF SettleCall
<1>15. ASSUME NEW a \in Attempt, WriteReceipt(a) PROVE DispatchInv'
  BY <1>3, <1>4, <1>15 DEF WriteReceipt
<1>16. ASSUME NEW a \in Attempt, Crash(a) PROVE DispatchInv'
  BY <1>4, <1>16 DEF Crash
<1>17. ASSUME (\E c \in EntryId : Admit(c)) \/ Expire \/ Operator \/ Guards PROVE DispatchInv'
  BY <1>2, <1>17 DEF Admit, Expire, Operator, Guards, callVars
<1> QED BY <1>6, <1>7, <1>8, <1>9, <1>10, <1>11, <1>12, <1>13, <1>14, <1>15, <1>16, <1>17
        DEF CallNext, Steps

-----------------------------------------------------------------------------
(* The bill of a call is on the ledger from its dispatch on.                *)
LEMMA OneEntryReserved ==
  ASSUME NEW c \in EntryId, NEW n \in Amount, ReserveMany(<<Entry(c, n)>>, NoLimit), TypeOK
  PROVE  /\ status[c] = "absent"
         /\ status' = [status EXCEPT ![c] = "held"]
         /\ reserved' = [reserved EXCEPT ![c] = n]
         /\ charged' = [charged EXCEPT ![c] = n]
         /\ UNCHANGED audits
<1> DEFINE batch == <<Entry(c, n)>>
<1>1. DOMAIN batch = {1} /\ batch[1] = Entry(c, n)
  OBVIOUS
<1>2. Inserted(batch) = {c} /\ status[c] = "absent"
  BY <1>1 DEF Inserted, Entry, ReserveMany, Admissible, Fresh
<1>3. EntryOf(batch, c).amount = n
  <2>1. (CHOOSE i \in DOMAIN batch : batch[i].id = c) = 1
    BY <1>1 DEF Entry
  <2> QED BY <1>1, <2>1 DEF EntryOf, Entry
<1>4. /\ status' = [e \in EntryId |-> IF e \in {c} THEN "held" ELSE status[e]]
      /\ reserved' = [e \in EntryId |-> IF e \in {c} THEN EntryOf(batch, e).amount ELSE reserved[e]]
      /\ charged' = [e \in EntryId |-> IF e \in {c} THEN EntryOf(batch, e).amount ELSE charged[e]]
      /\ UNCHANGED audits
  BY <1>2 DEF ReserveMany, audits
<1> QED BY <1>2, <1>3, <1>4 DEF TypeOK

LEMMA BillInit == CallInit => BillInv
BY DEF CallInit, Init, BillInv

LEMMA BillStep ==
  ASSUME CallTypeOK, HasResult, LedgerInv, DispatchInv, BillInv, CallNext
  PROVE  BillInv'
<1> USE DEF BillInv
<1>1. /\ \A a \in Attempt : CallOf[a] \in EntryId
      /\ pc \in [Attempt -> {"new", "ended"} \cup Live]
      /\ amount \in [Attempt -> Amount] /\ Full \in Amount
      /\ outcome \in [Attempt -> [status : Outcome, charge : Amount] \cup {NoOutcome}]
      /\ sends \in [EntryId -> Nat] /\ billed \in [EntryId -> Nat]
      /\ TypeOK
  BY TransportAssumption DEF CallTypeOK
<1>2. ASSUME UNCHANGED <<status, reserved, charged, pc, outcome, sends, billed>> PROVE BillInv'
  BY <1>2
<1>3. ASSUME NEW a \in Attempt, End(a), UNCHANGED <<vars, sends, billed>> PROVE BillInv'
  BY <1>1, <1>3 DEF End, Goto, vars
<1>4. ASSUME NEW a \in Attempt, Fail(a) PROVE BillInv'
  BY <1>3, <1>4 DEF Fail
<1>5. ASSUME NEW a \in Attempt, NEW l, Goto(a, l), l # "settle",
             l = "send" => status[CallOf[a]] = "held",
             UNCHANGED <<vars, outcome, sends, billed>>
      PROVE  BillInv'
  BY <1>1, <1>5 DEF Goto, vars
<1>6. ASSUME NEW a \in Attempt, NEW st, NEW c, Resolve(a, st, c),
             st = "settled" => c = billed[CallOf[a]],
             UNCHANGED <<vars, sends, billed>>
      PROVE  BillInv'
  BY <1>1, <1>6 DEF Resolve, Goto, vars
<1>7. ASSUME NEW a \in Attempt, Start(a) PROVE BillInv'
  BY <1>4, <1>5, <1>7 DEF Start
<1>8. ASSUME NEW a \in Attempt, CountBudgeted(a) PROVE BillInv'
  BY <1>4, <1>5, <1>8 DEF CountBudgeted
<1>9. ASSUME NEW a \in Attempt, CountHeld(a) PROVE BillInv'
  BY <1>4, <1>5, <1>6, <1>9 DEF CountHeld, callKept
<1>10. ASSUME NEW a \in Attempt, File(a) PROVE BillInv'
  <2>1. CASE Goto(a, IF PreReserved(CallOf[a]) THEN "count" ELSE "admit")
             /\ UNCHANGED <<vars, outcome, sends, billed>>
    <3>1. PICK l \in {"count", "admit"} : Goto(a, l)
      BY <2>1
    <3> QED BY <1>5, <2>1, <3>1
  <2> QED BY <1>4, <1>10, <2>1 DEF File
<1>11. ASSUME NEW a \in Attempt, Reserve(a) PROVE BillInv'
  <2>1. CASE ReserveMany(<<Entry(CallOf[a], amount[a])>>, NoLimit) /\ Goto(a, "send")
             /\ UNCHANGED <<outcome, sends, billed>>
    BY <1>1, <2>1, OneEntryReserved, SMTT(30) DEF Goto, TypeOK
  <2> QED BY <1>4, <1>11, <2>1 DEF Reserve
<1>12. ASSUME NEW a \in Attempt, Recheck(a) PROVE BillInv'
  <2>1. FullyHeld(CallOf[a]) => status[CallOf[a]] = "held"
    BY DEF FullyHeld, ExactRow, Entry
  <2> QED BY <1>4, <1>5, <1>6, <1>12, <2>1 DEF Recheck, callKept
<1>13. ASSUME NEW a \in Attempt, Send(a) PROVE BillInv'
  <2>0. CASE Unsent(a)
    BY <1>6, <2>0 DEF Unsent
  <2> SUFFICES ASSUME Leave(a) PROVE BillInv'
    BY <1>13, <2>0 DEF Send
  <2>1. PICK n \in 0..Full + 1 : billed' = [billed EXCEPT ![CallOf[a]] = @ + n]
    BY DEF Leave
  <2>2. /\ pc[a] = "send" /\ Goto(a, "sent") /\ sends' = [sends EXCEPT ![CallOf[a]] = @ + 1]
        /\ UNCHANGED <<vars, outcome>>
    BY DEF Leave
  <2>3. status[CallOf[a]] = "held" /\ Owner(a)
    BY <2>2 DEF Owner
  <2>4. \A b \in Attempt : pc[b] = "settle" => CallOf[b] # CallOf[a]
    BY <2>2, <2>3 DEF DispatchInv, Owner
  <2>5. sends'[CallOf[a]] # 0
    BY <1>1, <2>2
  <2>6. \A c \in EntryId : c # CallOf[a] => sends'[c] = sends[c] /\ billed'[c] = billed[c]
    BY <1>1, <2>1, <2>2
  <2>7. \A b \in Attempt : pc'[b] = IF b = a THEN "sent" ELSE pc[b]
    BY <1>1, <2>2 DEF Goto
  <2> QED BY <1>1, <2>2, <2>3, <2>4, <2>5, <2>6, <2>7 DEF vars
<1>14. ASSUME NEW a \in Attempt, Answer(a) PROVE BillInv'
  BY <1>6, <1>14 DEF Answer
<1>15. ASSUME NEW a \in Attempt, SettleCall(a) PROVE BillInv'
  <2>1. CASE /\ pc[a] = "settle" /\ Goto(a, "receipt")
             /\ Settle(CallOf[a], amount[a], outcome[a].status, outcome[a].charge)
             /\ UNCHANGED <<outcome, sends, billed>>
    <3>1. outcome[a].status \in Outcome
      BY <1>1, <2>1 DEF HasResult
    <3>2. \A b \in Attempt : pc[b] = "send" => CallOf[b] # CallOf[a]
      BY <2>1 DEF DispatchInv, Owner
    <3> QED BY <1>1, <2>1, <3>1, <3>2 DEF Settle, SetOutcome, Goto, TypeOK, Outcome
  <2> QED BY <1>4, <1>15, <2>1 DEF SettleCall
<1>16. ASSUME NEW a \in Attempt, WriteReceipt(a) PROVE BillInv'
  BY <1>3, <1>4, <1>16 DEF WriteReceipt
<1>17. ASSUME NEW a \in Attempt, Crash(a) PROVE BillInv'
  BY <1>4, <1>17 DEF Crash
<1>18. ASSUME NEW c \in EntryId, Admit(c) PROVE BillInv'
  BY <1>1, <1>18, OneEntryReserved DEF Admit, callVars, TypeOK
<1>19. ASSUME Expire \/ Guards PROVE BillInv'
  BY <1>2, <1>19 DEF Expire, Guards, GuardHeld, GuardRelease, ledgerRows, callVars, vars
<1>20. ASSUME Operator PROVE BillInv'
  <2>1. PICK c \in EntryId, n \in Amount, v \in Evidence :
          LET audit == [hash |-> hash[c], previous |-> reserved[c], charged |-> n, evidence |-> v] IN
            \/ n = billed[c] /\ ReconcileUncertain(c, audit)
            \/ sends[c] = 0 /\ ReconcileCountOnly(c, audit)
    BY <1>20 DEF Operator
  <2>2. /\ status[c] \in {"uncertain", "violation"} /\ UNCHANGED reserved
        /\ status' = [status EXCEPT ![c] = "settled"]
        /\ \E m \in Amount : m >= billed[c] /\ charged' = [charged EXCEPT ![c] = m]
    <3>1. CASE n = billed[c] /\ ReconcileUncertain(c,
                  [hash |-> hash[c], previous |-> reserved[c], charged |-> n, evidence |-> v])
      <4>1. /\ status[c] = "uncertain" /\ UNCHANGED reserved
            /\ status' = [status EXCEPT ![c] = "settled"] /\ charged' = [charged EXCEPT ![c] = n]
        BY <3>1 DEF ReconcileUncertain, SetOutcome, ExactRow
      <4>2. n >= billed[c]
        BY <1>1, <3>1
      <4> QED BY <4>1, <4>2
    <3>2. CASE sends[c] = 0 /\ ReconcileCountOnly(c,
                  [hash |-> hash[c], previous |-> reserved[c], charged |-> n, evidence |-> v])
      <4>1. /\ status[c] = "violation" /\ UNCHANGED reserved
            /\ status' = [status EXCEPT ![c] = "settled"] /\ charged' = [charged EXCEPT ![c] = 0]
        BY <3>2 DEF ReconcileCountOnly, SetOutcome, ExactRow
      <4>2. 0 \in Amount /\ 0 >= billed[c]
        BY <3>2, MaxAmountAssumption DEF Amount
      <4> QED BY <4>1, <4>2
    <3> QED BY <2>1, <3>1, <3>2
  <2>3. UNCHANGED callVars
    BY <1>20 DEF Operator
  <2> QED BY <1>1, <2>2, <2>3 DEF callVars, TypeOK
<1> QED BY <1>7, <1>8, <1>9, <1>10, <1>11, <1>12, <1>13, <1>14, <1>15, <1>16, <1>17, <1>18, <1>19, <1>20
        DEF CallNext, Steps

-----------------------------------------------------------------------------
(* What a result says of a resolved entry is undone by an audit only.       *)
LEMMA AgreesStep ==
  ASSUME LedgerInv, [Next]_vars, NEW c \in EntryId,
         NEW o \in [status : Outcome, charge : Amount], Agrees(c, o)
  PROVE  Agrees(c, o)'
<1> USE DEF Agrees
<1>1. TypeOK /\ o.status \in Outcome /\ "held" \notin Outcome /\ "absent" \notin Outcome
  BY DEF LedgerInv, Outcome
<1>2. ASSUME UNCHANGED <<status, charged, reconciliations, countOnly>> PROVE Agrees(c, o)'
  BY <1>2
<1>3. ASSUME NEW e \in EntryId, status[e] \in {"absent", "held"}, UNCHANGED audits,
             \A d \in EntryId : d # e => status'[d] = status[d] /\ charged'[d] = charged[d]
      PROVE  Agrees(c, o)'
  BY <1>1, <1>3 DEF audits
<1>4. ASSUME NEW batch \in Batches, NEW limit, ReserveMany(batch, limit) PROVE Agrees(c, o)'
  <2>1. \A e \in Inserted(batch) : status[e] = "absent"
    BY <1>4 DEF ReserveMany, Admissible, Fresh, Inserted
  <2>2. c \notin Inserted(batch) => status'[c] = status[c] /\ charged'[c] = charged[c]
    BY <1>4 DEF ReserveMany
  <2> QED BY <1>1, <1>4, <2>1, <2>2 DEF ReserveMany
<1>5. ASSUME NEW x \in LedgerEntry, NEW y \in LedgerEntry, TransferHeld(x, y) PROVE Agrees(c, o)'
  <2>1. c \notin {x.id, y.id} => status'[c] = status[c] /\ charged'[c] = charged[c]
    BY <1>1, <1>5 DEF TransferHeld, TypeOK
  <2> QED BY <1>1, <1>5, <2>1 DEF TransferHeld, ExactRow
<1>6. ASSUME NEW x \in LedgerEntry, RetireUnused(x) PROVE Agrees(c, o)'
  BY <1>1, <1>3, <1>6 DEF RetireUnused, ExactRow, SetOutcome, LedgerEntry, TypeOK, audits
<1>7. ASSUME NEW e \in EntryId, NEW h, NEW st, NEW n, Settle(e, h, st, n) PROVE Agrees(c, o)'
  BY <1>1, <1>3, <1>7 DEF Settle, SetOutcome, TypeOK, audits
<1>8. ASSUME NEW e \in EntryId, NEW a \in Audit, ReconcileUncertain(e, a) PROVE Agrees(c, o)'
  BY <1>1, <1>8, LedgerAssumption DEF ReconcileUncertain, SetOutcome, TypeOK, Audit
<1>9. ASSUME NEW e \in EntryId, NEW a \in Audit, ReconcileCountOnly(e, a) PROVE Agrees(c, o)'
  BY <1>1, <1>9, LedgerAssumption DEF ReconcileCountOnly, SetOutcome, TypeOK, Audit
<1>10. ASSUME NEW p \in Holder, NEW x \in LedgerEntry, GuardHeld(p, x) PROVE Agrees(c, o)'
  BY <1>2, <1>10 DEF GuardHeld, ledgerRows, audits
<1>11. ASSUME NEW p \in Holder, GuardRelease(p) PROVE Agrees(c, o)'
  BY <1>2, <1>11 DEF GuardRelease, ledgerRows, audits
<1>12. ASSUME UNCHANGED vars PROVE Agrees(c, o)'
  BY <1>2, <1>12 DEF vars
<1> QED BY <1>4, <1>5, <1>6, <1>7, <1>8, <1>9, <1>10, <1>11, <1>12 DEF Next

LEMMA ReceiptInit == CallInit => ReceiptInv
BY DEF CallInit, ReceiptInv, NoOutcome

LEMMA ReceiptStep ==
  ASSUME CallTypeOK, HasResult, LedgerInv, ReceiptInv, CallNext
  PROVE  ReceiptInv'
<1> DEFINE Result == [status : Outcome, charge : Amount]
<1>1. /\ \A a \in Attempt : CallOf[a] \in EntryId
      /\ pc \in [Attempt -> {"new", "ended"} \cup Live]
      /\ outcome \in [Attempt -> Result \cup {NoOutcome}]
      /\ receipt \in [EntryId -> Result \cup {NoOutcome}]
      /\ [Next]_vars
  BY TransportAssumption, LedgerStep DEF CallTypeOK
(* What is kept agrees after the step, whatever the step is.                *)
<1>2. ASSUME NEW a \in Attempt, pc[a] = "receipt", outcome'[a] = outcome[a]
      PROVE  Agrees(CallOf[a], outcome[a])'
  <2>1. PICK o \in Result : o = outcome[a]
    BY <1>1, <1>2 DEF HasResult
  <2>2. Agrees(CallOf[a], o)
    BY <1>2, <2>1 DEF ReceiptInv
  <2>3. Agrees(CallOf[a], o)'
    BY <1>1, <2>2, AgreesStep
  <2> QED BY <1>2, <2>1, <2>3 DEF Agrees
<1>3. ASSUME NEW c \in EntryId, receipt[c] # NoOutcome, receipt'[c] = receipt[c]
      PROVE  Agrees(c, receipt[c])'
  <2>1. PICK o \in Result : o = receipt[c]
    BY <1>1, <1>3
  <2>2. Agrees(c, o)
    BY <1>3, <2>1 DEF ReceiptInv
  <2>3. Agrees(c, o)'
    BY <1>1, <2>2, AgreesStep
  <2> QED BY <1>3, <2>1, <2>3 DEF Agrees
(* So only a step to "receipt" and the writing of a receipt matter.         *)
<1>4. ASSUME UNCHANGED receipt,
             \A a \in Attempt : pc'[a] = "receipt" => pc[a] = "receipt" /\ outcome'[a] = outcome[a]
      PROVE  ReceiptInv'
  BY <1>1, <1>2, <1>3, <1>4 DEF ReceiptInv
<1>5. ASSUME NEW a \in Attempt, End(a), UNCHANGED receipt PROVE ReceiptInv'
  BY <1>1, <1>4, <1>5 DEF End, Goto
<1>6. ASSUME NEW a \in Attempt, NEW l, l # "receipt", Goto(a, l), UNCHANGED <<receipt, outcome>>
      PROVE  ReceiptInv'
  BY <1>1, <1>4, <1>6 DEF Goto
<1>7. ASSUME NEW a \in Attempt, NEW st, NEW n, Resolve(a, st, n), UNCHANGED receipt PROVE ReceiptInv'
  BY <1>1, <1>4, <1>7 DEF Resolve, Goto
<1>8. ASSUME NEW a \in Attempt,
             Start(a) \/ CountBudgeted(a) \/ CountHeld(a) \/ Recheck(a) \/ Send(a) \/ Answer(a)
               \/ Reserve(a) \/ Crash(a)
      PROVE  ReceiptInv'
  BY <1>5, <1>6, <1>7, <1>8 DEF Start, CountBudgeted, CountHeld, Recheck, Send, Leave, Unsent, Answer,
                                Reserve, Crash, Fail, callKept
<1>9. ASSUME NEW a \in Attempt, File(a) PROVE ReceiptInv'
  <2>1. ASSUME Goto(a, IF PreReserved(CallOf[a]) THEN "count" ELSE "admit"),
               UNCHANGED <<receipt, outcome>>
        PROVE  ReceiptInv'
    <3>1. PICK l \in {"count", "admit"} : Goto(a, l)
      BY <2>1
    <3> QED BY <1>6, <2>1, <3>1
  <2> QED BY <1>5, <1>9, <2>1 DEF File, Fail
<1>10. ASSUME NEW a \in Attempt, SettleCall(a) PROVE ReceiptInv'
  <2>1. CASE /\ Settle(CallOf[a], amount[a], outcome[a].status, outcome[a].charge)
             /\ Goto(a, "receipt") /\ UNCHANGED <<outcome, receipt>>
    <3>1. Agrees(CallOf[a], outcome[a])'
      BY <1>1, <2>1 DEF Settle, SetOutcome, Agrees, LedgerInv, TypeOK
    <3>2. \A b \in Attempt : b # a => pc'[b] = pc[b] /\ outcome'[b] = outcome[b]
      BY <1>1, <2>1 DEF Goto
    <3> QED BY <1>2, <1>3, <2>1, <3>1, <3>2 DEF ReceiptInv
  <2> QED BY <1>5, <1>10, <2>1 DEF SettleCall, Fail
<1>11. ASSUME NEW a \in Attempt, WriteReceipt(a) PROVE ReceiptInv'
  <2>1. CASE /\ pc[a] = "receipt" /\ receipt' = [receipt EXCEPT ![CallOf[a]] = outcome[a]]
             /\ End(a) /\ UNCHANGED vars
    <3>1. Agrees(CallOf[a], receipt[CallOf[a]])'
      BY <1>1, <2>1 DEF ReceiptInv, Agrees, vars
    <3>2. \A b \in Attempt : pc'[b] = "receipt" => b # a /\ pc[b] = "receipt" /\ outcome'[b] = outcome[b]
      BY <1>1, <2>1 DEF End, Goto
    <3>3. \A c \in EntryId : c # CallOf[a] => receipt'[c] = receipt[c]
      BY <1>1, <2>1
    <3> QED BY <1>2, <1>3, <3>1, <3>2, <3>3 DEF ReceiptInv
  <2> QED BY <1>5, <1>11, <2>1 DEF WriteReceipt, Fail
<1>12. ASSUME (\E c \in EntryId : Admit(c)) \/ Expire \/ Operator \/ Guards PROVE ReceiptInv'
  BY <1>4, <1>12 DEF Admit, Expire, Operator, Guards, callVars
<1> QED BY <1>8, <1>9, <1>10, <1>11, <1>12 DEF CallNext, Steps

-----------------------------------------------------------------------------
(* The inductive invariant of the calls.                                    *)
LEMMA CallInvInit == CallInit => CallInv
BY CallTypeInit, DispatchInit, BillInit, ReceiptInit, InvInit DEF CallInv, CallInit

LEMMA CallInvStep == CallInv /\ [CallNext]_allVars => CallInv'
<1> SUFFICES ASSUME CallInv, [CallNext]_allVars PROVE CallInv'
  OBVIOUS
<1>1. CASE CallNext
  <2>1. [Next]_vars
    BY <1>1, LedgerStep DEF CallInv
  <2>2. LedgerInv'
    BY <2>1, InvStep DEF CallInv
  <2>3. TypeOK'
    BY <2>2 DEF LedgerInv
  <2> QED BY <1>1, <2>2, <2>3, CallTypeStep, DispatchStep, BillStep, ReceiptStep DEF CallInv
<1>2. CASE UNCHANGED allVars
  <2>1. LedgerInv'
    BY <1>2, InvStep DEF CallInv, allVars
  <2> QED BY <1>2, <2>1 DEF CallInv, allVars, vars, callVars, LedgerInv, CallTypeOK, HasResult, DispatchInv,
                            Owner, PreReserved, BillInv, ReceiptInv, Agrees
<1> QED BY <1>1, <1>2

(* The inductive invariant: one owner per call, the only one to send and    *)
(* settle; bills and receipts agree with the rows.                          *)
THEOREM CallInvariant == CallSpec => []CallInv
<1> QED BY CallInvInit, CallInvStep, PTL DEF CallSpec

(* Crashes, retries and duplicate runs never ask the provider twice.        *)
THEOREM DispatchedOnce == CallSpec => []OneDispatch
<1>1. CallInv => OneDispatch
  BY DEF CallInv, CallTypeOK, DispatchInv, OneDispatch
<1> QED BY <1>1, CallInvariant, PTL

(* No lost answer, kill or reconciliation frees money that was billed.      *)
THEOREM BillsAreCharged == CallSpec => []BilledIsCharged
<1>1. CallInv => BilledIsCharged
  <2> SUFFICES ASSUME CallInv, NEW c \in EntryId
               PROVE  billed[c] <= charged[c] \/ billed[c] > reserved[c]
    BY DEF BilledIsCharged
  <2>1. billed[c] \in Nat /\ charged[c] \in Nat /\ reserved[c] \in Nat /\ status[c] \in Status
    BY MaxAmountAssumption DEF CallInv, CallTypeOK, TypeOK, Amount
  <2>2. status[c] \in {"held", "uncertain", "violation"} => charged[c] = reserved[c]
    BY DEF CallInv, LedgerInv, UnresolvedFullyExposed, Unresolved
  <2>3. /\ status[c] = "absent" => billed[c] = 0
        /\ status[c] = "settled" => billed[c] <= charged[c] \/ billed[c] > reserved[c]
    BY DEF CallInv, BillInv
  <2> QED BY <2>1, <2>2, <2>3 DEF Status, Outcome
<1> QED BY <1>1, CallInvariant, PTL

(* Receipts say what the ledger says until an audit adjusts the entry.      *)
THEOREM ReceiptsAgree == CallSpec => []ReceiptAgrees
<1>1. CallInv => ReceiptAgrees
  BY DEF CallInv, ReceiptInv, Agrees, ReceiptAgrees
<1> QED BY <1>1, CallInvariant, PTL

(* The transports make ledger calls and nothing else: what is proved of the *)
(* ledger holds under them.                                                 *)
THEOREM TransportsUseLedger == CallSpec => Spec
<1>1. CallInit => Init
  BY DEF CallInit
<1>2. CallInv /\ [CallNext]_allVars => [Next]_vars
  BY LedgerStep DEF CallInv, allVars, vars
<1> QED BY <1>1, <1>2, CallInvariant, PTL DEF CallSpec, Spec

-----------------------------------------------------------------------------
(* The brokers.  Every step of theirs is a step of a paid call or none.     *)
LEMMA BrokerStep ==
  ASSUME AnchorNext
  PROVE  [CallNext]_allVars
<1>1. UNCHANGED kind
  BY DEF AnchorNext
<1>2. ASSUME NEW a \in Attempt, Ask(a) \/ Hear(a) \/ Sign(a) PROVE UNCHANGED allVars
  BY <1>2 DEF Ask, Hear, Sign
<1>3. ASSUME NEW a \in Attempt, IsBroker(a), pc[a] = "new", Fail(a) PROVE CallNext
  BY <1>1, <1>3 DEF IsBroker, Anchored, CallNext, Steps, Crash
<1>4. ASSUME NEW a \in Attempt, Doubt(a) PROVE CallNext
  BY <1>1, <1>3, <1>4 DEF Doubt, CallNext, Steps, Send
<1>5. ASSUME NEW a \in Attempt, Hold(a) PROVE CallNext
  <2>1. CASE Admit(CallOf[a])
    BY <1>1, <2>1, TransportAssumption DEF CallNext, Steps
  <2> QED BY <1>3, <1>5, <2>1 DEF Hold
<1>6. ASSUME NEW a \in Attempt, Open(a) PROVE [CallNext]_allVars
  BY <1>3, <1>6 DEF Open
<1>7. ASSUME NEW a \in Attempt, Controlled(a) \/ Plain(a) PROVE CallNext
  BY <1>1, <1>7 DEF Controlled, Plain, Step, CallNext, Steps
<1>8. ASSUME Others PROVE CallNext
  BY <1>1, <1>8 DEF Others, CallNext, Steps
<1> QED BY <1>2, <1>4, <1>5, <1>6, <1>7, <1>8 DEF AnchorNext, Broker

(* So whatever is proved of the paid calls holds for the brokers as well.   *)
THEOREM BrokersUseTransports == AnchorSpec => CallSpec
<1>1. AnchorInit => CallInit
  BY DEF AnchorInit
<1>2. [AnchorNext]_everything => [CallNext]_allVars
  BY BrokerStep DEF everything
<1> QED BY <1>1, <1>2, PTL DEF AnchorSpec, CallSpec

-----------------------------------------------------------------------------
(* A settled result says what was billed for a request that left.           *)
SentInv ==
  /\ \A a \in Attempt : pc[a] = "sent" => sends[CallOf[a]] # 0
  /\ \A a \in Attempt : pc[a] \in {"settle", "receipt"} /\ outcome[a].status = "settled"
       => sends[CallOf[a]] # 0 /\ outcome[a].charge = billed[CallOf[a]]
  /\ \A c \in EntryId : receipt[c].status = "settled"
       => sends[c] # 0 /\ receipt[c].charge = billed[c]

LEMMA SentInit == CallInit => SentInv
BY DEF CallInit, SentInv, NoOutcome

LEMMA SentStep ==
  ASSUME CallTypeOK, HasResult, DispatchInv, SentInv, CallNext
  PROVE  SentInv'
<1> USE DEF SentInv
<1>1. /\ \A a \in Attempt : CallOf[a] \in EntryId
      /\ pc \in [Attempt -> {"new", "ended"} \cup Live]
      /\ outcome \in [Attempt -> [status : Outcome, charge : Amount] \cup {NoOutcome}]
      /\ receipt \in [EntryId -> [status : Outcome, charge : Amount] \cup {NoOutcome}]
      /\ sends \in [EntryId -> Nat] /\ billed \in [EntryId -> Nat]
  BY TransportAssumption DEF CallTypeOK
<1>2. ASSUME UNCHANGED <<pc, outcome, receipt, sends, billed>> PROVE SentInv'
  BY <1>2
<1>3. ASSUME NEW a \in Attempt, End(a), UNCHANGED <<receipt, sends, billed>> PROVE SentInv'
  BY <1>1, <1>3 DEF End, Goto
<1>4. ASSUME NEW a \in Attempt, Fail(a) PROVE SentInv'
  BY <1>3, <1>4 DEF Fail
<1>5. ASSUME NEW a \in Attempt, NEW l \in {"file", "count", "admit", "recheck", "send"}, Goto(a, l),
             UNCHANGED <<outcome, receipt, sends, billed>>
      PROVE  SentInv'
  BY <1>1, <1>5 DEF Goto
<1>6. ASSUME NEW a \in Attempt, NEW st, NEW n, Resolve(a, st, n), UNCHANGED <<receipt, sends, billed>>,
             st = "settled" => sends[CallOf[a]] # 0 /\ n = billed[CallOf[a]]
      PROVE  SentInv'
  BY <1>1, <1>6 DEF Resolve, Goto
<1>7. ASSUME NEW a \in Attempt,
             Start(a) \/ CountBudgeted(a) \/ CountHeld(a) \/ Reserve(a) \/ Recheck(a) \/ Answer(a)
               \/ Unsent(a) \/ Crash(a)
      PROVE  SentInv'
  BY <1>4, <1>5, <1>6, <1>7 DEF Start, CountBudgeted, CountHeld, Reserve, Recheck, Answer, Unsent, Crash,
                                callKept
<1>8. ASSUME NEW a \in Attempt, File(a) PROVE SentInv'
  <2>1. ASSUME Goto(a, IF PreReserved(CallOf[a]) THEN "count" ELSE "admit"),
               UNCHANGED <<outcome, receipt, sends, billed>>
        PROVE  SentInv'
    <3>1. PICK l \in {"count", "admit"} : Goto(a, l)
      BY <2>1
    <3> QED BY <1>5, <2>1, <3>1
  <2> QED BY <1>4, <1>8, <2>1 DEF File
(* The one request of a call leaves: nothing was settled for it before.     *)
<1>9. ASSUME NEW a \in Attempt, Leave(a) PROVE SentInv'
  <2>1. PICK n \in 0..Full + 1 : billed' = [billed EXCEPT ![CallOf[a]] = @ + n]
    BY <1>9 DEF Leave
  <2>2. /\ pc[a] = "send" /\ Goto(a, "sent") /\ sends' = [sends EXCEPT ![CallOf[a]] = @ + 1]
        /\ UNCHANGED <<outcome, receipt>>
    BY <1>9 DEF Leave
  <2>3. sends[CallOf[a]] = 0
    BY <2>2 DEF DispatchInv, Owner
  <2>4. \A c \in EntryId : c # CallOf[a] => sends'[c] = sends[c] /\ billed'[c] = billed[c]
    BY <1>1, <2>1, <2>2
  <2>5. sends'[CallOf[a]] # 0
    BY <1>1, <2>2, <2>3
  <2>6. \A b \in Attempt : pc'[b] = IF b = a THEN "sent" ELSE pc[b]
    BY <1>1, <2>2 DEF Goto
  <2> QED BY <1>1, <2>2, <2>3, <2>4, <2>5, <2>6
<1>10. ASSUME NEW a \in Attempt, SettleCall(a) PROVE SentInv'
  <2>1. CASE pc[a] = "settle" /\ Goto(a, "receipt") /\ UNCHANGED <<outcome, receipt, sends, billed>>
    BY <1>1, <2>1 DEF Goto
  <2> QED BY <1>4, <1>10, <2>1 DEF SettleCall
<1>11. ASSUME NEW a \in Attempt, WriteReceipt(a) PROVE SentInv'
  <2>1. CASE /\ pc[a] = "receipt" /\ receipt' = [receipt EXCEPT ![CallOf[a]] = outcome[a]]
             /\ End(a) /\ UNCHANGED <<sends, billed>>
    BY <1>1, <2>1 DEF End, Goto, NoOutcome
  <2> QED BY <1>4, <1>11, <2>1 DEF WriteReceipt
<1>12. ASSUME (\E c \in EntryId : Admit(c)) \/ Expire \/ Operator \/ Guards PROVE SentInv'
  BY <1>2, <1>12 DEF Admit, Expire, Operator, Guards, callVars
<1> QED BY <1>7, <1>8, <1>9, <1>10, <1>11, <1>12 DEF CallNext, Steps, Send

(* What a guard has been admitted to is its own: the stages it has spent    *)
(* and, as long as it has no doubt, the place of its broker.                *)
Confirmed(a) == IF failed[a] THEN spent[a] - 1 ELSE spent[a]
Working == {"file", "count", "recheck", "send", "sent"}

StageAt(a) ==
  /\ failed[a] => spent[a] > 0
  /\ \A i \in 1..Confirmed(a) : i \in DOMAIN service[CallOf[a]] /\ service[CallOf[a]][i] = a
  /\ pc[a] = "new" => /\ spent[a] <= 1
                      /\ place[a] = "new" => Confirmed(a) = 0
                      /\ place[a] # "new" => Confirmed(a) = 1
                      /\ place[a] = "controller" => evidence[CallOf[a]] = 1
  /\ pc[a] \in Working => /\ place[a] = "controller" /\ Confirmed(a) > 0
                          /\ evidence[CallOf[a]] = Confirmed(a)
  /\ pc[a] = "file" => spent[a] = 1
  /\ pc[a] = "count" => Confirmed(a) \in {1, 2} /\ spent[a] <= 2
  /\ pc[a] = "recheck" => spent[a] = 2 /\ ~failed[a]
  /\ pc[a] = "send" => Confirmed(a) \in {2, 3}
  /\ pc[a] = "sent" => Confirmed(a) = 3
  /\ pc[a] # "admit"
StageInv == \A a \in Attempt : IsBroker(a) => StageAt(a)

LEMMA AnchorTypeStep ==
  ASSUME CallTypeOK, AnchorTypeOK, AnchorNext
  PROVE  AnchorTypeOK'
<1> USE DEF AnchorTypeOK
<1>1. \A a \in Attempt : CallOf[a] \in EntryId
  BY TransportAssumption
<1>2. ASSUME NEW a \in Attempt, Ask(a) PROVE AnchorTypeOK'
  <2>1. spent[a] + 1 \in 0..3
    BY <1>2 DEF Ask, Due
  <2>2. service' \in [EntryId -> Seq(Attempt)]
    <3>1. Append(service[CallOf[a]], a) \in Seq(Attempt)
      BY <1>1
    <3> QED BY <1>1, <1>2, <3>1 DEF Ask
  <2> QED BY <1>2, <2>1, <2>2 DEF Ask
<1>3. ASSUME NEW a \in Attempt, Hear(a) PROVE AnchorTypeOK'
  BY <1>1, <1>3 DEF Hear, Recorded, Places
<1>4. ASSUME NEW a \in Attempt, Hold(a) PROVE AnchorTypeOK'
  BY <1>4 DEF Hold, Places
<1>8. ASSUME NEW a \in Attempt, Open(a) PROVE AnchorTypeOK'
  <2>1. evidence' \in [EntryId -> 0..3]
    <3>1. evidence' = [evidence EXCEPT ![CallOf[a]] = 1] \/ evidence' = evidence
      BY <1>8 DEF Open
    <3>2. evidence \in [EntryId -> 0..3]
      OBVIOUS
    <3> HIDE DEF AnchorTypeOK
    <3> QED BY <3>1, <3>2
  <2>2. place' \in [Attempt -> Places]
    BY <1>8 DEF Open, Places
  <2> QED BY <1>8, <2>1, <2>2 DEF Open
<1>9. ASSUME NEW a \in Attempt, Controlled(a) PROVE AnchorTypeOK'
  <2>1. place' \in [Attempt -> Places]
    BY <1>9 DEF Controlled, Places
  <2> QED BY <1>9, <2>1 DEF Controlled
<1>7. ASSUME NEW a \in Attempt, Sign(a) PROVE AnchorTypeOK'
  <2>1. PICK b \in BOOLEAN : signed' = [signed EXCEPT ![CallOf[a]] = b]
    BY <1>7 DEF Sign
  <2> QED BY <1>1, <1>7, <2>1 DEF Sign, Places
<1>5. ASSUME NEW a \in Attempt, Doubt(a) \/ Plain(a) PROVE AnchorTypeOK'
  BY <1>5 DEF Doubt, Plain, anchorVars
<1>6. ASSUME Others PROVE AnchorTypeOK'
  BY <1>6 DEF Others, anchorVars
<1> QED BY <1>2, <1>3, <1>4, <1>5, <1>6, <1>7, <1>8, <1>9 DEF AnchorNext, Broker

(* Another guard's steps do not disturb a place: only the one admitted to   *)
(* the claim of a grant touches its records.                                *)
LEMMA StageKept ==
  ASSUME NEW b \in Attempt, StageAt(b), AnchorTypeOK, CallOf[b] \in EntryId,
         pc'[b] = pc[b], place'[b] = place[b], spent'[b] = spent[b], failed'[b] = failed[b],
         \/ service'[CallOf[b]] = service[CallOf[b]]
         \/ \E a \in Attempt : service'[CallOf[b]] = Append(service[CallOf[b]], a),
         Confirmed(b) > 0 => evidence'[CallOf[b]] = evidence[CallOf[b]]
  PROVE  StageAt(b)'
<1> DEFINE c == CallOf[b]
<1>1. service[c] \in Seq(Attempt) /\ c' = c /\ Confirmed(b)' = Confirmed(b)
  BY DEF AnchorTypeOK, Confirmed
<1>2. \A i \in DOMAIN service[c] : i \in DOMAIN service'[c] /\ service'[c][i] = service[c][i]
  <2>1. CASE service'[c] = service[c]
    BY <2>1
  <2>2. ASSUME NEW a \in Attempt, service'[c] = Append(service[c], a)
        PROVE  \A i \in DOMAIN service[c] : i \in DOMAIN service'[c] /\ service'[c][i] = service[c][i]
    BY <1>1, <2>2
  <2> QED BY <2>1, <2>2
<1>3. (\A i \in 1..Confirmed(b) : i \in DOMAIN service[c] /\ service[c][i] = b)'
  BY <1>1, <1>2 DEF StageAt
<1>4. Confirmed(b) > 0 => evidence'[c] = evidence[c]
  OBVIOUS
<1>5. Confirmed(b) = 1 => Confirmed(b) > 0
  OBVIOUS
<1>6. pc[b] = "new" /\ place[b] = "controller" => Confirmed(b) = 1
  BY DEF StageAt
<1>7. /\ pc[b] = "new" /\ place[b] = "controller" => evidence'[c] = 1
      /\ pc[b] \in Working => evidence'[c] = Confirmed(b)
  BY <1>4, <1>5, <1>6 DEF StageAt
<1> QED BY <1>1, <1>3, <1>7 DEF StageAt

LEMMA StageStep ==
  ASSUME CallTypeOK, AnchorTypeOK, StageInv, AnchorNext
  PROVE  StageInv'
<1> USE DEF StageInv
<1>1. /\ \A a \in Attempt : CallOf[a] \in EntryId /\ (IsBroker(a)' <=> IsBroker(a))
      /\ pc \in [Attempt -> {"new", "ended"} \cup Live]
      /\ AnchorTypeOK'
  BY TransportAssumption, AnchorTypeStep DEF CallTypeOK, IsBroker, Anchored, AnchorNext
<1>2. \A a, b \in Attempt : /\ IsBroker(a) /\ IsBroker(b) /\ CallOf[a] = CallOf[b]
                             /\ Confirmed(a) > 0 /\ Confirmed(b) > 0
                            => a = b
  <2>1. \A a \in Attempt : IsBroker(a) /\ Confirmed(a) > 0 => service[CallOf[a]][1] = a
    <3>1. \A a \in Attempt : Confirmed(a) \in Int
      BY DEF Confirmed, AnchorTypeOK
    <3> QED BY <3>1 DEF StageAt
  <2> QED BY <2>1
(* A step of attempt a that leaves the service and the records alone.       *)
<1>3. ASSUME NEW a \in Attempt, UNCHANGED <<spent, failed, service, evidence>>,
             \A b \in Attempt : b # a => pc'[b] = pc[b] /\ place'[b] = place[b],
             IsBroker(a) => StageAt(a)'
      PROVE  StageInv'
  <2>1. ASSUME NEW b \in Attempt, IsBroker(b), b # a PROVE StageAt(b)'
    BY <1>1, <1>3, <2>1, StageKept
  <2> QED BY <1>1, <1>3, <2>1
<1>4. ASSUME NEW a \in Attempt, Fail(a), UNCHANGED anchorVars PROVE StageInv'
  <2>1. pc' = [pc EXCEPT ![a] = "ended"]
    BY <1>4 DEF Fail, End, Goto
  <2>2. IsBroker(a) => StageAt(a)'
    BY <1>1, <1>4, <2>1 DEF StageAt, Confirmed, Working, anchorVars
  <2> QED BY <1>1, <1>3, <1>4, <2>1, <2>2 DEF anchorVars
<1>5. ASSUME NEW a \in Attempt, NEW l \in {"settle", "receipt", "ended"}, Goto(a, l),
             UNCHANGED <<spent, failed, service, evidence>>,
             \A b \in Attempt : b # a => place'[b] = place[b]
      PROVE  StageInv'
  <2>1. pc'[a] = l
    BY <1>1, <1>5 DEF Goto
  <2>2. IsBroker(a) => StageAt(a)'
    BY <1>1, <1>5, <2>1 DEF StageAt, Confirmed, Working
  <2> QED BY <1>1, <1>3, <1>5, <2>2 DEF Goto
<1>6. ASSUME NEW a \in Attempt, Ask(a) PROVE StageInv'
  <2>1. /\ IsBroker(a) /\ spent[a] = Due(a) - 1 /\ ~failed[a]
        /\ spent' = [spent EXCEPT ![a] = @ + 1] /\ failed' = [failed EXCEPT ![a] = TRUE]
        /\ UNCHANGED <<pc, place, evidence>>
    BY <1>6 DEF Ask, allVars, callVars
  <2>2. \A c \in EntryId : \/ service'[c] = service[c]
                            \/ service'[c] = Append(service[c], a)
    BY <1>1, <1>6 DEF Ask, AnchorTypeOK
  <2>3. ASSUME NEW b \in Attempt, IsBroker(b), b # a PROVE StageAt(b)'
    BY <1>1, <2>1, <2>2, <2>3, StageKept DEF AnchorTypeOK
  <2>4. StageAt(a)'
    <3> DEFINE c == CallOf[a]
    <3>1. spent'[a] = spent[a] + 1 /\ failed'[a] = TRUE /\ spent[a] \in 0..3
      BY <2>1 DEF AnchorTypeOK
    <3>2. Confirmed(a)' = Confirmed(a) /\ Confirmed(a) = spent[a]
      BY <2>1, <3>1 DEF Confirmed
    <3>3. service[c] \in Seq(Attempt) /\ (service'[c] = service[c] \/ service'[c] = Append(service[c], a))
      BY <1>1, <2>2 DEF AnchorTypeOK
    <3>4. \A i \in DOMAIN service[c] : i \in DOMAIN service'[c] /\ service'[c][i] = service[c][i]
      BY <3>3, SMTT(30)
    <3>5. (\A i \in 1..Confirmed(a) : i \in DOMAIN service[CallOf[a]] /\ service[CallOf[a]][i] = a)'
      BY <2>1, <3>2, <3>4 DEF StageAt
    <3> QED BY <2>1, <3>1, <3>2, <3>5 DEF StageAt, Due
  <2> QED BY <1>1, <2>3, <2>4
<1>7. ASSUME NEW a \in Attempt, Hear(a) PROVE StageInv'
  <2> DEFINE c == CallOf[a]
  <2>1. /\ IsBroker(a) /\ failed[a] /\ spent[a] = Due(a) /\ AnswerOf(a) /\ Recorded(a)
        /\ failed' = [failed EXCEPT ![a] = FALSE]
        /\ place' = [place EXCEPT ![a] = IF @ = "new" THEN "claimed" ELSE @]
        /\ UNCHANGED <<pc, spent, service>>
    BY <1>7 DEF Hear, allVars, callVars
  <2>2. /\ spent[a] \in 1..3 /\ Confirmed(a) = spent[a] - 1 /\ Confirmed(a)' = spent[a]
        /\ c \in EntryId
    BY <1>1, <2>1 DEF AnchorTypeOK, StageAt, Confirmed
  <2>3. \A d \in EntryId : evidence'[d] = IF d = c /\ spent[a] # 1 THEN spent[a] ELSE evidence[d]
    BY <2>1, <2>2 DEF Recorded, AnchorTypeOK
  <2>4. ASSUME NEW b \in Attempt, IsBroker(b), b # a PROVE StageAt(b)'
    <3>1. Confirmed(b) > 0 => evidence'[CallOf[b]] = evidence[CallOf[b]]
      BY <1>1, <1>2, <2>1, <2>2, <2>3, <2>4
    <3>2. pc'[b] = pc[b] /\ place'[b] = place[b] /\ spent'[b] = spent[b] /\ failed'[b] = failed[b]
      BY <2>1, <2>4 DEF AnchorTypeOK
    <3>3. StageAt(b) /\ CallOf[b] \in EntryId /\ service'[CallOf[b]] = service[CallOf[b]]
      BY <1>1, <2>1, <2>4
    <3> QED BY <3>1, <3>2, <3>3, StageKept
  <2>5. StageAt(a)'
    <3>1. /\ failed'[a] = FALSE /\ spent'[a] = spent[a] /\ pc'[a] = pc[a] /\ service' = service
          /\ place'[a] = IF place[a] = "new" THEN "claimed" ELSE place[a]
      BY <2>1 DEF AnchorTypeOK
    <3>2. (\A i \in 1..Confirmed(a) : i \in DOMAIN service[CallOf[a]] /\ service[CallOf[a]][i] = a)'
      BY <2>1, <2>2, <3>1 DEF StageAt, AnswerOf
    <3>3. /\ spent[a] # 1 => evidence'[c] = spent[a]
          /\ spent[a] = 1 => evidence'[c] = evidence[c]
      BY <2>2, <2>3
    <3>4. pc[a] \in {"new", "count", "send"} /\ (pc[a] = "new" <=> spent[a] = 1)
      BY <2>1, <2>2 DEF Due
    <3> QED BY <2>1, <2>2, <3>1, <3>2, <3>3, <3>4 DEF StageAt, Due, Working
  <2> QED BY <1>1, <2>4, <2>5
<1>8. ASSUME NEW a \in Attempt, Doubt(a) PROVE StageInv'
  <2>1. UNCHANGED anchorVars /\ (Goto(a, "ended") \/ Goto(a, "settle"))
    BY <1>8 DEF Doubt, Fail, End, Unsent, Resolve
  <2> QED BY <1>5, <2>1 DEF anchorVars
<1>9. ASSUME NEW a \in Attempt, Hold(a) PROVE StageInv'
  <2>1. CASE UNCHANGED callVars /\ place' = [place EXCEPT ![a] = "held"]
    <3>1. UNCHANGED <<pc, spent, failed, service, evidence>> /\ pc[a] = "new" /\ place[a] = "claimed"
      BY <1>9, <2>1 DEF Hold, callVars
    <3>2. place'[a] = "held" /\ \A b \in Attempt : b # a => place'[b] = place[b]
      BY <2>1 DEF AnchorTypeOK
    <3>3. IsBroker(a) => StageAt(a)'
      BY <3>1, <3>2 DEF StageAt, Confirmed, Working
    <3> QED BY <1>3, <3>1, <3>2, <3>3
  <2>2. CASE Fail(a) /\ UNCHANGED place
    BY <1>4, <1>9, <1>5, <2>2 DEF Hold, Fail, End
  <2> QED BY <1>9, <2>1, <2>2 DEF Hold, Admit
<1>10. ASSUME NEW a \in Attempt, Open(a) PROVE StageInv'
  <2> DEFINE c == CallOf[a]
  <2>1. CASE /\ evidence' = [evidence EXCEPT ![c] = 1] /\ evidence[c] = 0
             /\ place' = [place EXCEPT ![a] = "controller"] /\ UNCHANGED allVars
    <3>1. /\ UNCHANGED <<pc, spent, failed, service>> /\ IsBroker(a)
          /\ pc[a] = "new" /\ place[a] = "held"
      BY <1>10, <2>1 DEF Open, allVars, callVars
    <3>2. Confirmed(a) = 1 /\ c \in EntryId
      BY <1>1, <3>1 DEF StageAt
    <3>3. ASSUME NEW b \in Attempt, IsBroker(b), b # a PROVE StageAt(b)'
      <4>1. Confirmed(b) > 0 => evidence'[CallOf[b]] = evidence[CallOf[b]]
        BY <1>1, <1>2, <2>1, <3>1, <3>2, <3>3 DEF AnchorTypeOK
      <4>2. place'[b] = place[b] /\ StageAt(b) /\ CallOf[b] \in EntryId
        BY <1>1, <2>1, <3>3 DEF AnchorTypeOK
      <4> QED BY <3>1, <4>1, <4>2, StageKept
    <3>4. evidence'[c] = 1 /\ place'[a] = "controller"
      BY <2>1, <3>2 DEF AnchorTypeOK
    <3>5. StageAt(a)'
      BY <3>1, <3>2, <3>4 DEF StageAt, Confirmed, Working
    <3> QED BY <1>1, <3>3, <3>5
  <2>2. CASE Fail(a) /\ UNCHANGED <<evidence, place>>
    BY <1>5, <1>10, <2>2 DEF Open, Fail, End
  <2> QED BY <1>10, <2>1, <2>2 DEF Open
<1>11. ASSUME NEW a \in Attempt, Controlled(a) PROVE StageInv'
  <2>1. /\ IsBroker(a) /\ UNCHANGED <<spent, failed, service, evidence>>
        /\ \A b \in Attempt : b # a => place'[b] = place[b]
    BY <1>11 DEF Controlled, AnchorTypeOK
  <2>2. UNCHANGED receipt => UNCHANGED place
    BY <1>11 DEF Controlled, Returns
  <2>3. ASSUME NEW l, Goto(a, l), StageAt(a)' PROVE StageInv'
    BY <1>3, <2>1, <2>3 DEF Goto
  <2>4. ASSUME Goto(a, "ended") \/ Goto(a, "settle") \/ Goto(a, "receipt") PROVE StageInv'
    BY <1>5, <2>1, <2>4
  <2>5. CASE place[a] = "controller" /\ Start(a)
    <3>1. pc[a] = "new" /\ (Goto(a, "ended") \/ (Goto(a, "file") /\ UNCHANGED receipt))
      BY <2>1, <2>5 DEF Start, PreReserved, IsBroker, Anchored, Fail, End
    <3>2. ASSUME Goto(a, "file"), UNCHANGED place PROVE StageAt(a)'
      BY <1>1, <2>1, <2>5, <3>1, <3>2 DEF StageAt, Confirmed, Working, Goto, AnchorTypeOK
    <3> QED BY <2>2, <2>3, <2>4, <3>1, <3>2
  <2>6. CASE Admitted(a) /\ CountHeld(a)
    <3>1. pc[a] = "count" /\ spent[a] = 2 /\ ~failed[a]
      BY <2>6 DEF CountHeld, Admitted, Due
    <3>2. ASSUME Goto(a, "recheck"), UNCHANGED place PROVE StageAt(a)'
      BY <1>1, <2>1, <3>1, <3>2 DEF StageAt, Confirmed, Working, Goto
    <3> QED BY <2>2, <2>3, <2>4, <2>6, <3>2 DEF CountHeld, Resolve, Fail, End, callKept
  <2>7. CASE Admitted(a) /\ Send(a)
    <3>1. pc[a] = "send" /\ spent[a] = 3 /\ ~failed[a] /\ UNCHANGED receipt
      BY <2>7 DEF Send, Leave, Unsent, Admitted, Due
    <3>2. ASSUME Goto(a, "sent"), UNCHANGED place PROVE StageAt(a)'
      BY <1>1, <2>1, <3>1, <3>2 DEF StageAt, Confirmed, Working, Goto
    <3> QED BY <2>2, <2>3, <2>4, <2>7, <3>1, <3>2 DEF Send, Leave, Unsent, Resolve
  <2>8. CASE File(a)
    <3>1. PreReserved(CallOf[a])
      BY <2>1 DEF PreReserved, IsBroker, Anchored
    <3>2. pc[a] = "file" /\ (Goto(a, "ended") \/ (Goto(a, "count") /\ UNCHANGED receipt))
      BY <2>8, <3>1 DEF File, Fail, End
    <3>3. ASSUME Goto(a, "count"), UNCHANGED place PROVE StageAt(a)'
      BY <1>1, <2>1, <3>2, <3>3 DEF StageAt, Confirmed, Working, Goto, AnchorTypeOK
    <3> QED BY <2>2, <2>3, <2>4, <3>2, <3>3
  <2>9. CASE Recheck(a)
    <3>1. pc[a] = "recheck"
      BY <2>9 DEF Recheck
    <3>2. ASSUME Goto(a, "send"), UNCHANGED place PROVE StageAt(a)'
      BY <1>1, <2>1, <3>1, <3>2 DEF StageAt, Confirmed, Working, Goto, AnchorTypeOK
    <3> QED BY <2>2, <2>3, <2>4, <2>9, <3>2 DEF Recheck, Resolve, Fail, End, callKept
  <2>10. CASE Answer(a) \/ SettleCall(a) \/ WriteReceipt(a)
    BY <2>4, <2>10 DEF Answer, SettleCall, WriteReceipt, Resolve, Fail, End
  <2> QED BY <1>11, <2>5, <2>6, <2>7, <2>8, <2>9, <2>10 DEF Controlled
<1>12. ASSUME NEW a \in Attempt, Plain(a) PROVE StageInv'
  <2>1. ~IsBroker(a) /\ UNCHANGED anchorVars /\ (Start(a) \/ Step(a))
    BY <1>12 DEF Plain
  <2>2. \A b \in Attempt : b # a => pc'[b] = pc[b]
    BY <1>1, <2>1 DEF Start, Step, CountBudgeted, CountHeld, File, Reserve, Recheck, Send, Leave, Unsent,
                      Answer, SettleCall, WriteReceipt, Resolve, Fail, End, Goto
  <2> QED BY <1>3, <2>1, <2>2 DEF anchorVars
<1>13. ASSUME NEW a \in Attempt, Sign(a) PROVE StageInv'
  <2>1. /\ UNCHANGED <<pc, spent, failed, service, evidence>> /\ place[a] = "returned"
        /\ place' = [place EXCEPT ![a] = "signed"]
    BY <1>13 DEF Sign, allVars, callVars
  <2>2. place'[a] = "signed" /\ \A b \in Attempt : b # a => place'[b] = place[b]
    BY <2>1 DEF AnchorTypeOK
  <2>3. IsBroker(a) => StageAt(a)'
    BY <1>1, <2>1, <2>2 DEF StageAt, Confirmed, Working
  <2> QED BY <1>3, <2>1, <2>2, <2>3
<1>14. ASSUME Others PROVE StageInv'
  <2>1. ASSUME NEW a \in Attempt, Crash(a) PROVE StageInv'
    BY <1>4, <1>14, <2>1 DEF Others, Crash
  <2>2. CASE UNCHANGED <<pc, anchorVars>>
    BY <1>1, <2>2 DEF StageAt, Confirmed, anchorVars
  <2> QED BY <1>14, <2>1, <2>2 DEF Others, Admit, Expire, Operator, Guards, callVars
<1> QED BY <1>6, <1>7, <1>8, <1>9, <1>10, <1>11, <1>12, <1>13, <1>14 DEF AnchorNext, Broker

(* A grant is reserved, recorded and sent as far as its service admitted.   *)
Grant(c) ==
  /\ status[c] # "absent" => Len(service[c]) > 0
  /\ evidence[c] <= Len(service[c]) /\ Len(service[c]) <= 3
  /\ sends[c] # 0 => /\ evidence[c] = 3
                     /\ \E a \in Attempt : /\ CallOf[a] = c /\ service[c] = <<a, a, a>>
                                           /\ spent[a] = 3 /\ ~failed[a]
GrantInv == \A c \in EntryId : Anchored(c) => Grant(c)
Reserves(c) == status[c] = "absent" /\ status'[c] # "absent"

LEMMA GrantStep ==
  ASSUME CallTypeOK, AnchorTypeOK, StageInv, GrantInv, AnchorNext
  PROVE  GrantInv'
<1> USE DEF StageInv, GrantInv
<1>1. /\ \A a \in Attempt : CallOf[a] \in EntryId
      /\ \A c \in EntryId : Anchored(c)' <=> Anchored(c)
      /\ sends \in [EntryId -> Nat] /\ TypeOK /\ Full \in Amount /\ amount \in [Attempt -> Amount]
  BY TransportAssumption DEF CallTypeOK, Anchored, AnchorNext
<1>2. \A a \in Attempt : IsBroker(a) <=> Anchored(CallOf[a])
  BY DEF IsBroker
<1>3. ASSUME NEW c \in EntryId, Anchored(c), UNCHANGED <<spent, failed>>, service'[c] = service[c],
             evidence'[c] = evidence[c], sends'[c] = sends[c], ~Reserves(c)
      PROVE  Grant(c)'
  BY <1>3 DEF Grant, Reserves
<1>4. ASSUME UNCHANGED <<spent, failed, service, evidence, sends>>,
             \A c \in EntryId : Anchored(c) => ~Reserves(c)
      PROVE  GrantInv'
  BY <1>1, <1>3, <1>4
<1>5. ASSUME NEW a \in Attempt, Ask(a) PROVE GrantInv'
  <2>1. /\ spent[a] = Due(a) - 1 /\ UNCHANGED <<status, sends, evidence>>
        /\ spent' = [spent EXCEPT ![a] = @ + 1] /\ failed' = [failed EXCEPT ![a] = TRUE]
        /\ service' # service => /\ Len(service[CallOf[a]]) = spent[a]
                                 /\ service' = [service EXCEPT ![CallOf[a]] = Append(@, a)]
    BY <1>5 DEF Ask, allVars, callVars, vars, ledgerRows
  <2>2. spent[a] \in 0..2
    BY <2>1 DEF Due, AnchorTypeOK
  <2> SUFFICES ASSUME NEW c \in EntryId, Anchored(c) PROVE Grant(c)'
    BY <1>1
  <2>3. service[c] \in Seq(Attempt) /\ Grant(c)
    BY DEF AnchorTypeOK
  <2>4. CASE service'[c] = service[c]
    <3>1. ASSUME NEW b \in Attempt, spent[b] = 3 PROVE spent'[b] = 3 /\ failed'[b] = failed[b]
      <4>1. spent[a] # 3
        BY <2>2
      <4>2. b # a
        BY <3>1, <4>1
      <4> QED BY <2>1, <3>1, <4>2 DEF AnchorTypeOK
    <3> QED BY <2>1, <2>3, <2>4, <3>1 DEF Grant
  <2>5. CASE service'[c] # service[c]
    <3>1. c = CallOf[a] /\ service'[c] = Append(service[c], a) /\ Len(service[c]) = spent[a]
      BY <1>1, <2>1, <2>5 DEF AnchorTypeOK
    <3>2. Len(service'[c]) = Len(service[c]) + 1
      BY <2>3, <3>1
    <3>3. sends[c] = 0
      <4>1. \A b \in Attempt : Len(<<b, b, b>>) = 3
        OBVIOUS
      <4> QED BY <2>2, <2>3, <3>1, <4>1 DEF Grant
    <3>4. evidence[c] \in 0..3
      BY DEF AnchorTypeOK
    <3> QED BY <2>1, <2>2, <2>3, <3>1, <3>2, <3>3, <3>4 DEF Grant
  <2> QED BY <2>4, <2>5
<1>6. ASSUME NEW a \in Attempt, Hear(a) PROVE GrantInv'
  <2>1. /\ IsBroker(a) /\ failed[a] /\ spent[a] = Due(a) /\ AnswerOf(a) /\ Recorded(a)
        /\ failed' = [failed EXCEPT ![a] = FALSE] /\ UNCHANGED <<status, sends, spent, service>>
    BY <1>6 DEF Hear, allVars, callVars, vars, ledgerRows
  <2> SUFFICES ASSUME NEW c \in EntryId, Anchored(c) PROVE Grant(c)'
    BY <1>1
  <2>2. service[c] \in Seq(Attempt) /\ Grant(c) /\ spent[a] \in 0..3
    BY DEF AnchorTypeOK
  <2>3. \A b \in Attempt : ~failed[b] => ~failed'[b]
    BY <2>1 DEF AnchorTypeOK
  <2>4. CASE evidence'[c] = evidence[c]
    BY <2>1, <2>2, <2>3, <2>4 DEF Grant
  <2>5. CASE evidence'[c] # evidence[c]
    <3>1. c = CallOf[a] /\ evidence'[c] = spent[a]
      BY <1>1, <2>1, <2>5 DEF Recorded, AnchorTypeOK
    <3>2. spent[a] \in 1..Len(service[c]) /\ service[c][spent[a]] = a
      BY <2>1, <2>2, <3>1 DEF AnswerOf
    <3>3. sends[c] = 0
      <4>1. SUFFICES ASSUME NEW b \in Attempt, service[c] = <<b, b, b>>, ~failed[b] PROVE FALSE
        BY <2>2 DEF Grant
      <4>2. a = b
        BY <2>2, <3>2, <4>1
      <4> QED BY <2>1, <4>1, <4>2
    <3> QED BY <2>1, <2>2, <3>1, <3>2, <3>3 DEF Grant
  <2> QED BY <2>4, <2>5
<1>7. ASSUME NEW a \in Attempt, Hold(a) PROVE GrantInv'
  <2>1. UNCHANGED <<spent, failed, service, evidence, sends>>
    BY <1>7 DEF Hold, Admit, Fail, callVars
  <2>2. CASE UNCHANGED status
    BY <1>4, <2>1, <2>2 DEF Reserves
  <2>3. CASE ReserveMany(<<Entry(CallOf[a], Full)>>, NoLimit)
    <3>1. \A c \in EntryId : c # CallOf[a] => ~Reserves(c)
      BY <1>1, <2>3, OneEntryReserved DEF Reserves, TypeOK
    <3>2. IsBroker(a) /\ Confirmed(a) = 1
      BY <1>7 DEF Hold, StageAt
    <3>3. 1 \in DOMAIN service[CallOf[a]]
      BY <3>2 DEF StageAt
    <3>4. Len(service[CallOf[a]]) > 0
      BY <1>1, <3>3 DEF AnchorTypeOK
    <3>5. Grant(CallOf[a])'
      BY <1>1, <1>2, <2>1, <3>2, <3>4 DEF Grant
    <3> QED BY <1>1, <1>3, <2>1, <3>1, <3>5
  <2> QED BY <1>7, <2>2, <2>3 DEF Hold, Admit, Fail, vars, ledgerRows
<1>8. ASSUME NEW a \in Attempt, Open(a) PROVE GrantInv'
  <2>1. UNCHANGED <<status, spent, failed, service, sends>> /\ IsBroker(a) /\ pc[a] = "new" /\ place[a] = "held"
    BY <1>8 DEF Open, Fail, allVars, callVars, vars, ledgerRows
  <2>2. CASE UNCHANGED evidence
    BY <1>4, <2>1, <2>2 DEF Reserves
  <2>3. CASE evidence[CallOf[a]] = 0 /\ evidence' = [evidence EXCEPT ![CallOf[a]] = 1]
    <3>1. 1 \in DOMAIN service[CallOf[a]]
      BY <2>1 DEF StageAt
    <3>2. Len(service[CallOf[a]]) >= 1
      BY <1>1, <3>1 DEF AnchorTypeOK
    <3>3. evidence'[CallOf[a]] = 1 /\ \A c \in EntryId : c # CallOf[a] => evidence'[c] = evidence[c]
      BY <1>1, <2>3 DEF AnchorTypeOK
    <3>4. Grant(CallOf[a])'
      BY <1>1, <1>2, <2>1, <2>3, <3>2, <3>3 DEF Grant
    <3> QED BY <1>1, <1>3, <2>1, <3>3, <3>4 DEF Reserves
  <2> QED BY <1>8, <2>2, <2>3 DEF Open
<1>9. ASSUME NEW a \in Attempt, SettleCall(a) PROVE \A c \in EntryId : ~Reserves(c)
  BY <1>1, <1>9 DEF SettleCall, Settle, SetOutcome, Fail, vars, ledgerRows, Reserves, TypeOK
<1>10. ASSUME NEW a \in Attempt, Controlled(a) PROVE GrantInv'
  <2>1. IsBroker(a) /\ UNCHANGED <<spent, failed, service, evidence>>
    BY <1>10 DEF Controlled
  <2>2. CASE Admitted(a) /\ Leave(a)
    <3>1. /\ pc[a] = "send" /\ spent[a] = 3 /\ ~failed[a] /\ UNCHANGED status
          /\ sends' = [sends EXCEPT ![CallOf[a]] = @ + 1]
      BY <2>2 DEF Leave, Admitted, Due, vars, ledgerRows
    <3>2. Confirmed(a) = 3 /\ evidence[CallOf[a]] = 3
      BY <2>1, <3>1 DEF Confirmed, StageAt, Working
    <3>3. /\ service[CallOf[a]] \in Seq(Attempt) /\ Len(service[CallOf[a]]) <= 3
          /\ \A i \in 1..3 : i \in DOMAIN service[CallOf[a]] /\ service[CallOf[a]][i] = a
      BY <1>1, <2>1, <3>2 DEF StageAt, Grant, IsBroker, AnchorTypeOK
    <3>4. service[CallOf[a]] = <<a, a, a>>
      BY <3>3
    <3>5. Grant(CallOf[a])'
      BY <1>1, <1>2, <2>1, <3>1, <3>2, <3>4 DEF Grant
    <3>6. \A c \in EntryId : c # CallOf[a] => sends'[c] = sends[c]
      BY <1>1, <3>1
    <3> QED BY <1>1, <1>3, <2>1, <3>1, <3>5, <3>6 DEF Reserves
  <2>3. CASE Start(a) \/ CountHeld(a) \/ Unsent(a) \/ File(a) \/ Recheck(a) \/ Answer(a) \/ WriteReceipt(a)
    <3>1. UNCHANGED <<status, sends>>
      BY <2>3 DEF Start, CountHeld, Unsent, File, Recheck, Answer, WriteReceipt, Fail, vars, ledgerRows, callKept
    <3> QED BY <1>4, <2>1, <3>1 DEF Reserves
  <2>4. CASE SettleCall(a)
    <3>1. UNCHANGED sends
      BY <2>4 DEF SettleCall, Fail
    <3> QED BY <1>4, <1>9, <2>1, <2>4, <3>1
  <2> QED BY <1>10, <2>2, <2>3, <2>4 DEF Controlled, Send
<1>11. ASSUME NEW a \in Attempt, Plain(a) PROVE GrantInv'
  <2>1. ~Anchored(CallOf[a]) /\ UNCHANGED <<spent, failed, service, evidence>>
    BY <1>2, <1>11 DEF Plain, anchorVars
  <2>2. CASE Leave(a)
    <3>1. UNCHANGED status /\ \A c \in EntryId : c # CallOf[a] => sends'[c] = sends[c]
      BY <1>1, <2>2 DEF Leave, vars, ledgerRows
    <3> QED BY <1>1, <1>3, <2>1, <3>1 DEF Reserves
  <2>3. CASE Reserve(a)
    <3>1. UNCHANGED sends
      BY <2>3 DEF Reserve, Fail
    <3>2. CASE UNCHANGED status
      BY <1>4, <2>1, <3>1, <3>2 DEF Reserves
    <3>3. CASE ReserveMany(<<Entry(CallOf[a], amount[a])>>, NoLimit)
      <4>1. \A c \in EntryId : c # CallOf[a] => ~Reserves(c)
        BY <1>1, <3>3, OneEntryReserved DEF Reserves, TypeOK
      <4> QED BY <1>4, <2>1, <3>1, <4>1
    <3> QED BY <2>3, <3>2, <3>3 DEF Reserve, Fail, vars, ledgerRows
  <2>4. CASE Start(a) \/ CountBudgeted(a) \/ CountHeld(a) \/ Unsent(a) \/ File(a) \/ Recheck(a)
               \/ Answer(a) \/ WriteReceipt(a)
    <3>1. UNCHANGED <<status, sends>>
      BY <2>4 DEF Start, CountBudgeted, CountHeld, Unsent, File, Recheck, Answer, WriteReceipt, Fail, vars,
                  ledgerRows, callKept
    <3> QED BY <1>4, <2>1, <3>1 DEF Reserves
  <2>5. CASE SettleCall(a)
    <3>1. UNCHANGED sends
      BY <2>5 DEF SettleCall, Fail
    <3> QED BY <1>4, <1>9, <2>1, <2>5, <3>1
  <2> QED BY <1>11, <2>2, <2>3, <2>4, <2>5 DEF Plain, Step, Send
<1>12. ASSUME NEW a \in Attempt, Doubt(a) \/ Sign(a) PROVE GrantInv'
  <2>1. UNCHANGED <<status, spent, failed, service, evidence, sends>>
    BY <1>12 DEF Doubt, Sign, Fail, CountHeld, callKept, Unsent, anchorVars, allVars, callVars, vars, ledgerRows
  <2> QED BY <1>4, <2>1 DEF Reserves
<1>13. ASSUME Others PROVE GrantInv'
  <2>1. UNCHANGED <<spent, failed, service, evidence, sends>>
    BY <1>13 DEF Others, Admit, Crash, Fail, Expire, Operator, Guards, anchorVars, callVars
  <2>2. ASSUME NEW c \in EntryId, ~Anchored(c), Admit(c) PROVE GrantInv'
    <3>1. \A d \in EntryId : d # c => ~Reserves(d)
      BY <1>1, <2>2, OneEntryReserved DEF Admit, Reserves, TypeOK
    <3> QED BY <1>4, <2>1, <2>2, <3>1
  <2>3. ASSUME Operator PROVE \A c \in EntryId : ~Reserves(c)
    BY <1>1, <2>3 DEF Operator, ReconcileUncertain, ReconcileCountOnly, ExactRow, SetOutcome, Reserves, TypeOK
  <2>4. CASE UNCHANGED status
    BY <1>4, <2>1, <2>4 DEF Reserves
  <2> QED BY <1>4, <1>13, <2>1, <2>2, <2>3, <2>4
          DEF Others, Crash, Fail, Expire, Guards, GuardHeld, GuardRelease, vars, ledgerRows
<1> QED BY <1>5, <1>6, <1>7, <1>8, <1>10, <1>11, <1>12, <1>13 DEF AnchorNext, Broker

(* What was signed stays as it was when it was read.                        *)
SignedInv == \A c \in EntryId : signed[c] =>
  /\ sends[c] # 0 /\ receipt[c].status = "settled"
  /\ status[c] = "settled" /\ charged[c] = receipt[c].charge

LEMMA CallKept ==
  ASSUME CallTypeOK, CallNext, NEW c \in EntryId
  PROVE  /\ sends[c] # 0 => sends'[c] # 0
         /\ receipt[c] # NoOutcome => receipt'[c] = receipt[c]
<1>1. sends \in [EntryId -> Nat] /\ \A a \in Attempt : CallOf[a] \in EntryId
  BY TransportAssumption DEF CallTypeOK
<1>2. ASSUME NEW a \in Attempt, Leave(a)
      PROVE  (sends[c] # 0 => sends'[c] # 0) /\ UNCHANGED receipt
  BY <1>1, <1>2 DEF Leave
<1>3. ASSUME NEW a \in Attempt, WriteReceipt(a)
      PROVE  UNCHANGED sends /\ (receipt[c] # NoOutcome => receipt'[c] = receipt[c])
  BY <1>1, <1>3 DEF WriteReceipt, Fail, CallTypeOK
<1>4. ASSUME NEW a \in Attempt,
             Start(a) \/ CountBudgeted(a) \/ CountHeld(a) \/ File(a) \/ Reserve(a) \/ Recheck(a)
               \/ Unsent(a) \/ Answer(a) \/ SettleCall(a) \/ Crash(a)
      PROVE  UNCHANGED <<sends, receipt>>
  BY <1>4 DEF Start, CountBudgeted, CountHeld, File, Reserve, Recheck, Unsent, Answer, SettleCall, Crash,
              Fail, callKept
<1>5. ASSUME (\E d \in EntryId : Admit(d)) \/ Expire \/ Operator \/ Guards
      PROVE  UNCHANGED <<sends, receipt>>
  BY <1>5 DEF Admit, Expire, Operator, Guards, callVars
<1> QED BY <1>2, <1>3, <1>4, <1>5 DEF CallNext, Steps, Send

LEMMA SignedStep ==
  ASSUME CallInv, SentInv, AnchorTypeOK, SignedInv, AnchorNext
  PROVE  SignedInv'
<1> USE DEF SignedInv
<1> SUFFICES ASSUME NEW c \in EntryId, signed'[c]
             PROVE  (/\ sends[c] # 0 /\ receipt[c].status = "settled"
                     /\ status[c] = "settled" /\ charged[c] = receipt[c].charge)'
  OBVIOUS
<1>1. CASE signed[c]
  <2>1. receipt[c] # NoOutcome /\ status[c] = "settled"
    BY <1>1 DEF NoOutcome
  <2>2. CASE UNCHANGED allVars
    BY <1>1, <2>2 DEF allVars, callVars, vars, ledgerRows
  <2>3. CASE CallNext
    <3>1. [Next]_vars
      BY <2>3, LedgerStep DEF CallInv
    <3>2. status'[c] = "settled" /\ charged'[c] = charged[c]
      <4>1. CASE UNCHANGED vars
        BY <2>1, <4>1 DEF vars, ledgerRows
      <4>2. CASE Next
        BY <2>1, <4>2, MonotoneStep DEF CallInv, EntryMonotone
      <4> QED BY <3>1, <4>1, <4>2
    <3>3. sends'[c] # 0 /\ receipt'[c] = receipt[c]
      BY <1>1, <2>1, <2>3, CallKept DEF CallInv
    <3> QED BY <1>1, <2>1, <3>2, <3>3
  <2> QED BY <2>2, <2>3, BrokerStep
<1>2. CASE ~signed[c]
  <2>1. PICK a \in Attempt : Sign(a)
    BY <1>2 DEF AnchorNext, Broker, Ask, Hear, Doubt, Hold, Open, Controlled, Plain, Others, anchorVars
  <2>2. /\ c = CallOf[a] /\ receipt[c].status = "settled" /\ status[c] = "settled"
        /\ charged[c] = receipt[c].charge
    BY <1>2, <2>1, TransportAssumption DEF Sign, AnchorTypeOK
  <2> QED BY <2>1, <2>2 DEF Sign, SentInv, allVars, callVars, vars, ledgerRows
<1> QED BY <1>1, <1>2

AnchorInv == CallInv /\ SentInv /\ AnchorTypeOK /\ StageInv /\ GrantInv /\ SignedInv

LEMMA AnchorInvInit == AnchorInit => AnchorInv
<1> SUFFICES ASSUME AnchorInit PROVE AnchorInv
  OBVIOUS
<1>1. CallInv /\ SentInv
  BY CallInvInit, SentInit DEF AnchorInit
<1>2. AnchorTypeOK
  BY DEF AnchorInit, AnchorTypeOK, Places
<1>3. StageInv
  BY DEF AnchorInit, CallInit, StageInv, StageAt, Confirmed, Working
<1>4. GrantInv /\ SignedInv
  BY DEF AnchorInit, CallInit, Init, GrantInv, Grant, SignedInv
<1> QED BY <1>1, <1>2, <1>3, <1>4 DEF AnchorInv

LEMMA AnchorInvStep == AnchorInv /\ [AnchorNext]_everything => AnchorInv'
<1> SUFFICES ASSUME AnchorInv, [AnchorNext]_everything PROVE AnchorInv'
  OBVIOUS
<1>1. CallInv'
  BY CallInvStep, BrokerStep DEF AnchorInv, everything
<1>2. CASE AnchorNext
  <2>1. SentInv'
    <3>1. CASE CallNext
      BY <3>1, SentStep DEF AnchorInv, CallInv
    <3>2. CASE UNCHANGED allVars
      BY <3>2 DEF AnchorInv, SentInv, allVars, callVars
    <3> QED BY <1>2, <3>1, <3>2, BrokerStep
  <2>2. AnchorTypeOK' /\ StageInv' /\ GrantInv' /\ SignedInv'
    BY <1>2, AnchorTypeStep, StageStep, GrantStep, SignedStep DEF AnchorInv, CallInv
  <2> QED BY <1>1, <2>1, <2>2 DEF AnchorInv
<1>3. CASE UNCHANGED everything
  <2>1. SentInv' /\ AnchorTypeOK'
    BY <1>3 DEF AnchorInv, SentInv, AnchorTypeOK, everything, allVars, callVars, anchorVars
  <2>2. StageInv'
    BY <1>3 DEF AnchorInv, StageInv, StageAt, Confirmed, IsBroker, Anchored, everything, allVars, callVars,
                anchorVars
  <2>3. GrantInv' /\ SignedInv'
    BY <1>3 DEF AnchorInv, GrantInv, Grant, SignedInv, Anchored, everything, allVars, callVars, vars,
                ledgerRows, anchorVars
  <2> QED BY <1>1, <2>1, <2>2, <2>3 DEF AnchorInv
<1> QED BY <1>2, <1>3

(* The inductive invariant of the brokers: a guard's place goes with the    *)
(* stages the service gave to it alone, a grant's records with its guard.   *)
THEOREM AnchorInvariant == AnchorSpec => []AnchorInv
<1> QED BY AnchorInvInit, AnchorInvStep, PTL DEF AnchorSpec

(* Nothing is reserved, sent or signed for a coding grant beyond what the   *)
(* remote service admitted to one guard.                                    *)
THEOREM SentOnlyAdmitted == AnchorSpec => []AdmittedBeforeSent
<1>1. AnchorInv => AdmittedBeforeSent
  <2> SUFFICES ASSUME AnchorInv, NEW c \in EntryId, Anchored(c)
               PROVE  /\ status[c] # "absent" => Len(service[c]) > 0
                      /\ evidence[c] <= Len(service[c]) /\ Len(service[c]) <= 3
                      /\ sends[c] > 0 => /\ evidence[c] = 3
                                         /\ \E a \in Attempt : service[c] = <<a, a, a>> /\ ~failed[a]
                      /\ signed[c] => /\ sends[c] = 1 /\ evidence[c] = 3
                                      /\ status[c] = "settled" /\ charged[c] = receipt[c].charge
                                      /\ billed[c] <= charged[c]
    BY DEF AdmittedBeforeSent
  <2>1. Grant(c)
    BY DEF AnchorInv, GrantInv
  <2>2. /\ sends[c] # 0 => sends[c] = 1
        /\ billed[c] \in Nat /\ sends[c] \in Nat
    BY DEF AnchorInv, CallInv, DispatchInv, CallTypeOK
  <2>3. signed[c] => /\ sends[c] # 0 /\ status[c] = "settled" /\ charged[c] = receipt[c].charge
                     /\ receipt[c].charge = billed[c]
    BY DEF AnchorInv, SignedInv, SentInv
  <2> QED BY <2>1, <2>2, <2>3 DEF Grant
<1> QED BY <1>1, AnchorInvariant, PTL

-----------------------------------------------------------------------------
(* The price arithmetic: for every validated policy and every envelope, the *)
(* reservation covers every usage inside it.                                *)

(* More tokens at the same rate do not cost less.                           *)
LEMMA ProductMonotone ==
  ASSUME NEW a \in Nat, NEW b \in Nat, NEW r \in Nat, a <= b
  PROVE  a * r <= b * r /\ a * r \in Nat /\ b * r \in Nat
<1>1. PICK d \in Nat : b = a + d
  <2>1. b - a \in Nat /\ b = a + (b - a)
    OBVIOUS
  <2> QED BY <2>1
<1>2. b * r = a * r + d * r
  BY <1>1
<1>3. a * r \in Nat /\ d * r \in Nat /\ b * r \in Nat
  BY SMT
<1> QED BY <1>2, <1>3

(* The exact price grows with every part of the usage.                      *)
LEMMA NumeratorMonotone ==
  ASSUME NEW p \in Policies,
         NEW in \in Nat, NEW out \in Nat, NEW write \in Nat,
         NEW in2 \in Nat, NEW out2 \in Nat, NEW write2 \in Nat,
         in <= in2, out <= out2, write <= write2
  PROVE  /\ Numerator(p, in, out, write) <= Numerator(p, in2, out2, write2)
         /\ Numerator(p, in, out, write) \in Nat /\ Numerator(p, in2, out2, write2) \in Nat
<1>1. p.input \in Nat /\ p.output \in Nat /\ p.write - p.input \in Nat
  <2>1. p.input \in Nat /\ p.output \in Nat /\ p.write \in Nat
    BY PolicyAssumption DEF Policies
  <2>2. p.write >= p.input
    BY <2>1 DEF Policies
  <2> QED BY <2>1, <2>2
<1>2. in * p.input <= in2 * p.input /\ in * p.input \in Nat /\ in2 * p.input \in Nat
  BY <1>1, ProductMonotone
<1>3. out * p.output <= out2 * p.output /\ out * p.output \in Nat /\ out2 * p.output \in Nat
  BY <1>1, ProductMonotone
<1>4. /\ write * (p.write - p.input) <= write2 * (p.write - p.input)
      /\ write * (p.write - p.input) \in Nat /\ write2 * (p.write - p.input) \in Nat
  BY <1>1, ProductMonotone
<1> QED BY <1>2, <1>3, <1>4 DEF Numerator

(* Rounding up is monotone and loses nothing.                               *)
LEMMA RoundUp ==
  ASSUME NEW n \in Nat, NEW m \in Nat, n <= m
  PROVE  /\ (n + 999999) \div 1000000 <= (m + 999999) \div 1000000
         /\ n <= ((m + 999999) \div 1000000) * 1000000
         /\ (n + 999999) \div 1000000 \in Nat
BY SMT

(* cost of any accepted usage is at most reservation_cost of its envelope,  *)
(* and the reservation pays the exact price without rounding loss.          *)
THEOREM ReservationCovers ==
  ASSUME NEW p \in Policies, NEW t \in Nat, NEW c \in Nat,
         NEW in \in 0..t, NEW out \in 0..c, NEW write \in 0..in,
         p.schema = 1 => write = 0
  PROVE  /\ Cost(p, in, out, write) <= ReservationCost(p, t, c)
         /\ Numerator(p, in, out, write) <= ReservationCost(p, t, c) * 1000000
<1>0. in \in Nat /\ out \in Nat /\ write \in Nat /\ in <= t /\ out <= c /\ write <= t /\ 0 \in Nat
  OBVIOUS
<1>1. CASE p.schema = 1
  <2>0. write <= 0
    BY <1>1
  <2>1. /\ Numerator(p, in, out, write) <= Numerator(p, t, c, 0)
        /\ Numerator(p, in, out, write) \in Nat /\ Numerator(p, t, c, 0) \in Nat
    BY <1>0, <2>0, NumeratorMonotone
  <2> QED BY <1>1, <2>1, RoundUp DEF Cost, ReservationCost
<1>2. CASE p.schema = 2
  <2>1. /\ Numerator(p, in, out, write) <= Numerator(p, t, c, t)
        /\ Numerator(p, in, out, write) \in Nat /\ Numerator(p, t, c, t) \in Nat
    BY <1>0, NumeratorMonotone
  <2> QED BY <1>2, <2>1, RoundUp DEF Cost, ReservationCost
<1> QED BY <1>1, <1>2 DEF Policies

(* For all rates and token counts, every amount covers what it is reserved  *)
(* for.                                                                     *)
THEOREM EveryAmountCovers == \A n : Covers(n)
<1> SUFFICES ASSUME NEW p \in Policies, NEW t \in TokenCounts, NEW c \in TokenCounts \ {0},
                    NEW in \in TokenCounts, NEW out \in TokenCounts, NEW write \in TokenCounts,
                    Accepted(p, t, c, in, out, write)
             PROVE  /\ Cost(p, in, out, write) <= ReservationCost(p, t, c)
                    /\ Numerator(p, in, out, write) <= ReservationCost(p, t, c) * 1000000
  BY DEF Covers
<1>1. /\ t \in Nat /\ c \in Nat /\ in \in 0..t /\ out \in 0..c /\ write \in 0..in
      /\ p.schema = 1 => write = 0
  BY PolicyAssumption DEF Accepted
<1> QED BY <1>1, ReservationCovers

(* While a transport awaits its answer, whatever usage inside the envelope  *)
(* it will report costs no more than is held, so that the settlement is     *)
(* never refused for its amount.                                            *)
THEOREM ChargesFit == CallSpec => []ChargeWithinReservation
<1>1. CallTypeOK => ChargeWithinReservation
  BY EveryAmountCovers DEF CallTypeOK, ChargeWithinReservation, CoveredAmounts
<1> QED BY <1>1, CallInvariant, PTL DEF CallInv
=============================================================================
