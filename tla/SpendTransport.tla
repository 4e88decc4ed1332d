--------------------------- MODULE SpendTransport ---------------------------
(***************************************************************************)
(* One paid provider call behind the ledger.  A call is a directory and one *)
(* ledger entry; an attempt is one controller object working on a call, in  *)
(* some process: BudgetedOpenAITransport (kind "budgeted", which counts,    *)
(* then reserves what it counted), PreReservedOpenAITransport ("openai"),   *)
(* PreReservedAnthropicTransport ("anthropic") and                          *)
(* PreReservedAnthropicReviewTransport ("review"), whose full envelope is   *)
(* held beforehand; "anchored" is an "openai" controller made by a coding   *)
(* broker, whose further steps are in AnchoredTransport.tla.  Two attempts  *)
(* on one call are a retry after a crash, or the same run started twice.    *)
(* Every await, file write and ledger call is a step of its own.            *)
(*                                                                         *)
(* An exception, a kill and a normal return all end the attempt; what its   *)
(* object held is gone then, files and ledger rows stay.                    *)
(* A reservation is told apart by its amount, so its hash is its amount.    *)
(***************************************************************************)
EXTENDS SpendLedger, SpendPolicy

CONSTANTS Attempt, CallOf,      \* the call each attempt works on
          Kinds,                \* which controller class may serve each call
          Full                  \* the full envelope of one request
ASSUME TransportAssumption ==
  /\ CallOf \in [Attempt -> EntryId]
  /\ Kinds \subseteq [EntryId -> {"budgeted", "openai", "anthropic", "review", "anchored"}]
  /\ Full \in Amount \ {0}
  /\ Amount \subseteq Digest

VARIABLES pc,          \* where an attempt is
          amount,      \* what it holds for this request
          outcome,     \* the status and charge it is about to settle
          artifact,    \* spend-reservation.json of a call: its amount, 0 if absent
          receipt,     \* spend-receipt.json of a call
          sends,       \* generation requests that left this host
          billed,      \* what the provider bills for them
          expired,     \* the pricing window (or the grant) has ended
          kind         \* the controller class of each call

callKept == <<amount, outcome, artifact, receipt, sends, billed, expired>>
callVars == <<pc, amount, outcome, artifact, receipt, sends, billed, expired>>
allVars == <<vars, callVars, kind>>

NoOutcome == [status |-> "none", charge |-> 0]
Live == {"count", "file", "admit", "recheck", "send", "sent", "settle", "receipt"}

CallTypeOK == /\ TypeOK
              /\ pc \in [Attempt -> {"new", "ended"} \cup Live]
              /\ amount \in [Attempt -> Amount]
              /\ outcome \in [Attempt -> [status : Outcome, charge : Amount] \cup {NoOutcome}]
              /\ artifact \in [EntryId -> Amount]
              /\ receipt \in [EntryId -> [status : Outcome, charge : Amount] \cup {NoOutcome}]
              /\ sends \in [EntryId -> Nat]
              /\ billed \in [EntryId -> Nat]
              /\ expired \in BOOLEAN

CallInit == /\ Init
            /\ pc = [a \in Attempt |-> "new"]
            /\ amount = [a \in Attempt |-> 0]
            /\ outcome = [a \in Attempt |-> NoOutcome]
            /\ artifact = [c \in EntryId |-> 0]
            /\ receipt = [c \in EntryId |-> NoOutcome]
            /\ sends = [c \in EntryId |-> 0]
            /\ billed = [c \in EntryId |-> 0]
            /\ expired = FALSE
            /\ kind \in Kinds

-----------------------------------------------------------------------------
Goto(a, l) == pc' = [pc EXCEPT ![a] = l]
End(a) == /\ Goto(a, "ended")
          /\ amount' = [amount EXCEPT ![a] = 0]
          /\ outcome' = [outcome EXCEPT ![a] = NoOutcome]
Fail(a) == End(a) /\ UNCHANGED <<vars, artifact, receipt, sends, billed, expired>>
Resolve(a, st, c) == /\ Goto(a, "settle")
                     /\ outcome' = [outcome EXCEPT ![a] = [status |-> st, charge |-> c]]

PreReserved(c) == kind[c] # "budgeted"
Entry(c, n) == [id |-> c, hash |-> n, amount |-> n]

(* The owner of a pre-reserved call has its full envelope admitted.         *)
Admit(c) == /\ PreReserved(c)
            /\ ReserveMany(<<Entry(c, Full)>>, NoLimit)
            /\ UNCHANGED callVars

(* _require_held, _held.                                                    *)
FullyHeld(c) == ~Blocked /\ ExactRow(Entry(c, Full), "held")

(* create_response up to its first await or file.  An object serves one     *)
(* call: it is used up even when the window or the hold stops it here.      *)
Start(a) ==
  /\ pc[a] = "new"
  /\ \/ /\ ~PreReserved(CallOf[a]) /\ ~expired
        /\ Goto(a, "count") /\ UNCHANGED <<vars, amount>>
        /\ UNCHANGED <<outcome, artifact, receipt, sends, billed, expired>>
     \/ /\ PreReserved(CallOf[a]) /\ ~expired /\ FullyHeld(CallOf[a])
        /\ Goto(a, "file") /\ amount' = [amount EXCEPT ![a] = Full]
        /\ UNCHANGED <<vars, outcome, artifact, receipt, sends, billed, expired>>
     \/ /\ expired \/ (PreReserved(CallOf[a]) /\ ~FullyHeld(CallOf[a]))
        /\ Fail(a)

(* count_input_tokens answers, fails or answers nonsense.  A budgeted call  *)
(* has reserved nothing yet; a pre-reserved one resolves its hold.          *)
CountBudgeted(a) ==
  /\ pc[a] = "count" /\ ~PreReserved(CallOf[a])
  /\ \/ Fail(a)
     \/ /\ ~expired
        /\ \E n \in 1..Full : amount' = [amount EXCEPT ![a] = n]
        /\ Goto(a, "file")
        /\ UNCHANGED <<vars, outcome, artifact, receipt, sends, billed, expired>>

CountHeld(a) ==
  /\ pc[a] = "count" /\ PreReserved(CallOf[a])
  /\ \/ Goto(a, "recheck") /\ UNCHANGED <<vars, callKept>>
     \/ /\ \E st \in {"uncertain", "violation"} : Resolve(a, st, amount[a])
        /\ UNCHANGED <<vars, amount, artifact, receipt, sends, billed, expired>>
     \/ kind[CallOf[a]] = "review" /\ Fail(a)      \* its count observation was not written

(* private_write of spend-reservation.json creates the file or raises.      *)
File(a) ==
  /\ pc[a] = "file"
  /\ \/ artifact[CallOf[a]] # 0 /\ Fail(a)
     \/ /\ artifact[CallOf[a]] = 0
        /\ artifact' = [artifact EXCEPT ![CallOf[a]] = amount[a]]
        /\ Goto(a, IF PreReserved(CallOf[a]) THEN "count" ELSE "admit")
        /\ UNCHANGED <<vars, amount, outcome, receipt, sends, billed, expired>>

Reserve(a) ==
  /\ pc[a] = "admit"
  /\ LET batch == <<Entry(CallOf[a], amount[a])>> IN
     \/ /\ ReserveMany(batch, NoLimit)
        /\ Goto(a, "send")
        /\ UNCHANGED <<amount, outcome, artifact, receipt, sends, billed, expired>>
     \/ ~(Admissible(batch, NoLimit) /\ Writable) /\ Fail(a)

(* After the await: the window and the hold once more.  The OpenAI          *)
(* controller leaves a changed hold alone, the Anthropic one settles in its *)
(* "finally", the review one settles when its grant ran out.                *)
RecheckWaits(a) ==                             \* mutant: waits for a hold that is gone
  /\ pc[a] = "recheck" /\ ~expired /\ FullyHeld(CallOf[a])
  /\ Goto(a, "send")
  /\ UNCHANGED <<vars, callKept>>
Recheck(a) ==
  /\ pc[a] = "recheck"
  /\ \/ /\ ~expired /\ FullyHeld(CallOf[a])
        /\ Goto(a, "send")
        /\ UNCHANGED <<vars, callKept>>
     \/ /\ expired \/ ~FullyHeld(CallOf[a])
        /\ kind[CallOf[a]] \in {"openai", "review", "anchored"}
        /\ Fail(a)
     \/ /\ \/ kind[CallOf[a]] = "anthropic" /\ (expired \/ ~FullyHeld(CallOf[a]))
           \/ kind[CallOf[a]] = "review" /\ expired
        /\ Resolve(a, "uncertain", amount[a])
        /\ UNCHANGED <<vars, amount, artifact, receipt, sends, billed, expired>>

(* The generation request leaves this host: from here on the provider may   *)
(* bill it, whether or not anything comes back.  When its guard refuses, it *)
(* does not leave, which to the controller is a lost answer.                *)
Leave(a) == /\ pc[a] = "send"
            /\ sends' = [sends EXCEPT ![CallOf[a]] = @ + 1]
            /\ \E n \in 0..Full + 1 : billed' = [billed EXCEPT ![CallOf[a]] = @ + n]
            /\ Goto(a, "sent")
            /\ UNCHANGED <<vars, amount, outcome, artifact, receipt, expired>>
Unsent(a) == /\ pc[a] = "send" /\ kind[CallOf[a]] = "anchored"
             /\ Resolve(a, "uncertain", amount[a])
             /\ UNCHANGED <<vars, amount, artifact, receipt, sends, billed, expired>>
Send(a) == Leave(a) \/ Unsent(a)

(* What came back: nothing or unusable usage (uncertain), usage outside the *)
(* envelope or other pricing assumptions (violation), or valid usage.       *)
AnswerTrusted(a) == /\ pc[a] = "sent"          \* mutant: an error is settled as unbilled
                    /\ \/ billed[CallOf[a]] <= amount[a] /\ Resolve(a, "settled", billed[CallOf[a]])
                       \/ Resolve(a, "settled", 0)
                    /\ UNCHANGED <<vars, amount, artifact, receipt, sends, billed, expired>>
AnswerRetried(a) ==                            \* mutant: a lost answer is asked for again
  /\ pc[a] = "sent"
  /\ \/ Goto(a, "send") /\ UNCHANGED outcome
     \/ Resolve(a, "violation", amount[a])
     \/ billed[CallOf[a]] <= amount[a] /\ Resolve(a, "settled", billed[CallOf[a]])
  /\ UNCHANGED <<vars, amount, artifact, receipt, sends, billed, expired>>
Answer(a) ==
  /\ pc[a] = "sent"
  /\ \/ Resolve(a, "uncertain", amount[a])
     \/ Resolve(a, "violation", amount[a])
     \/ billed[CallOf[a]] <= amount[a] /\ Resolve(a, "settled", billed[CallOf[a]])
  /\ UNCHANGED <<vars, amount, artifact, receipt, sends, billed, expired>>

ReceiptFirst(a) == /\ pc[a] = "settle"                   \* mutant: receipt before the ledger
                   /\ receipt' = [receipt EXCEPT ![CallOf[a]] = outcome[a]]
                   /\ Goto(a, "receipt")
                   /\ UNCHANGED <<vars, amount, outcome, artifact, sends, billed, expired>>

(* _receipt: the ledger first, then spend-receipt.json.  A rejected or busy *)
(* settlement raises and leaves the entry as it is.                         *)
SettleCall(a) ==
  /\ pc[a] = "settle"
  /\ \/ /\ Settle(CallOf[a], amount[a], outcome[a].status, outcome[a].charge)
        /\ Goto(a, "receipt")
        /\ UNCHANGED <<amount, outcome, artifact, receipt, sends, billed, expired>>
     \/ /\ ~(Writable /\ status[CallOf[a]] = "held" /\ hash[CallOf[a]] = amount[a])
        /\ Fail(a)

WriteReceipt(a) ==
  /\ pc[a] = "receipt"
  /\ \/ /\ receipt[CallOf[a]] = NoOutcome
        /\ receipt' = [receipt EXCEPT ![CallOf[a]] = outcome[a]]
        /\ End(a)
        /\ UNCHANGED <<vars, artifact, sends, billed, expired>>
     \/ Fail(a)

(* A broker has work behind it before its controller starts.                *)
Crash(a) == /\ pc[a] \in Live \/ (pc[a] = "new" /\ kind[CallOf[a]] = "anchored")
            /\ Fail(a)

Expire == expired' = TRUE /\ UNCHANGED <<vars, pc, amount, outcome, artifact, receipt, sends, billed>>

(* Operators adjust unresolved entries on signed evidence only: of the      *)
(* provider's bill, or that no generation request was ever sent.            *)
Operator == \E c \in EntryId, n \in Amount, v \in Evidence :
  LET audit == [hash |-> hash[c], previous |-> reserved[c], charged |-> n, evidence |-> v] IN
  /\ \/ n = billed[c] /\ ReconcileUncertain(c, audit)
     \/ sends[c] = 0 /\ ReconcileCountOnly(c, audit)
  /\ UNCHANGED callVars

(* Another caller briefly locks a held entry against writers.               *)
Guards == /\ \E p \in Holder : \/ \E c \in EntryId : GuardHeld(p, Entry(c, reserved[c]))
                               \/ GuardRelease(p)
          /\ UNCHANGED callVars

Step(a) == \/ CountBudgeted(a) \/ CountHeld(a) \/ File(a) \/ Reserve(a) \/ Recheck(a)
           \/ Send(a) \/ Answer(a) \/ SettleCall(a) \/ WriteReceipt(a)

Steps == \/ \E c \in EntryId : Admit(c)
         \/ \E a \in Attempt : Start(a)
         \/ \E a \in Attempt : CountBudgeted(a)
         \/ \E a \in Attempt : CountHeld(a)
         \/ \E a \in Attempt : File(a)
         \/ \E a \in Attempt : Reserve(a)
         \/ \E a \in Attempt : Recheck(a)
         \/ \E a \in Attempt : Send(a)
         \/ \E a \in Attempt : Answer(a)
         \/ \E a \in Attempt : SettleCall(a)
         \/ \E a \in Attempt : WriteReceipt(a)
         \/ \E a \in Attempt : Crash(a)
         \/ Expire
         \/ Operator
         \/ Guards

CallNext == Steps /\ UNCHANGED kind

CallSpec == CallInit /\ [][CallNext]_allVars

-----------------------------------------------------------------------------
(* Whatever crashes, retries or duplicate runs do, one call reaches the     *)
(* provider once: the O_EXCL reservation file and the ledger's key together *)
(* make a dispatch unrepeatable.                                            *)
OneDispatch == \A c \in EntryId : sends[c] <= 1

(* What the provider may bill is on the ledger from before the request left *)
(* until it is resolved, so a lost answer never frees money that was spent. *)
(* Only a provider that bills more than the reservation escapes the books.  *)
BilledIsCharged == \A c \in EntryId : billed[c] <= charged[c] \/ billed[c] > reserved[c]

(* The receipt an operator reads says what the ledger says, unless an       *)
(* audited reconciliation adjusted the entry afterwards.                    *)
ReceiptAgrees ==
  \A c \in EntryId : receipt[c] # NoOutcome =>
     \/ status[c] = receipt[c].status /\ charged[c] = receipt[c].charge
     \/ reconciliations[c] # NoAudit \/ countOnly[c] # NoAudit

(* While an answer is awaited, no usage the transports accept for the       *)
(* envelope costs more than is held: the settlement the ledger requires     *)
(* (charged <= reserved) is always possible (openai_spend.py, both schemas).*)
CoveredAmounts == {n \in Amount : Covers(n)}
ChargeWithinReservation == \A a \in Attempt : pc[a] = "sent" => amount[a] \in CoveredAmounts
=============================================================================
