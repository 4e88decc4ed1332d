------------------------- MODULE AnchoredTransport -------------------------
(***************************************************************************)
(* The coding brokers (reviewer_coding_broker, reviewer_initial_coding_     *)
(* broker) beside the other paid calls.  A broker holds a guard             *)
(* (run/protected_spend_anchor) which asks a remote service to admit three  *)
(* stages of its grant: the claim before the ledger is asked, the count and *)
(* the send before the same requests of its transport.  A stage is spent by *)
(* asking: whatever comes back late, wrong or not at all ends the guard.    *)
(*                                                                         *)
(* The steps are those of SpendTransport, with what the broker and its      *)
(* guard add; an attempt is one broker with its own guard.  The service is  *)
(* external and taken from its protocol's docstring: a stage of a grant is  *)
(* admitted once and in order, and a refusal may have any reason (another   *)
(* epoch, a revocation, an exhausted scope).  Signatures, hashes, sequence  *)
(* numbers and the clock's thirty seconds are "the answer is the one to     *)
(* this request"; the isolated worker between the broker and its transport  *)
(* is in IsolatedExchange.                                                  *)
(***************************************************************************)
EXTENDS SpendTransport

VARIABLES place,      \* how far a broker's generate() is, outside create_response
          spent,      \* guard._stages: how many it has asked for
          failed,     \* guard._failed
          service,    \* the attempts whose guards spent the stages of a grant
          evidence,   \* protected-anchor-claim, -count and -send.json
          signed      \* coding-child-receipt.json

anchorVars == <<place, spent, failed, service, evidence, signed>>
everything == <<allVars, anchorVars>>

Places == {"new", "claimed", "held", "controller", "returned", "signed"}
AnchorTypeOK == /\ place \in [Attempt -> Places]
                /\ spent \in [Attempt -> 0..3] /\ failed \in [Attempt -> BOOLEAN]
                /\ service \in [EntryId -> Seq(Attempt)]
                /\ evidence \in [EntryId -> 0..3] /\ signed \in [EntryId -> BOOLEAN]

Anchored(c) == kind[c] = "anchored"
IsBroker(a) == Anchored(CallOf[a])

(* The stage an attempt has to be admitted to where it is.                  *)
Due(a) == CASE pc[a] = "new" -> 1 [] pc[a] = "count" -> 2 [] pc[a] = "send" -> 3 [] OTHER -> 0
Admitted(a) == spent[a] = Due(a) /\ ~failed[a]

-----------------------------------------------------------------------------
(* admit_stage up to the service: the guard is marked before the request.   *)
Ask(a) ==
  /\ IsBroker(a) /\ spent[a] = Due(a) - 1 /\ ~failed[a] /\ ~expired
  /\ pc[a] = "new" => place[a] = "new"
  /\ spent' = [spent EXCEPT ![a] = @ + 1] /\ failed' = [failed EXCEPT ![a] = TRUE]
  /\ \/ /\ Len(service[CallOf[a]]) = spent[a]
        /\ service' = [service EXCEPT ![CallOf[a]] = Append(@, a)]
     \/ UNCHANGED service
  /\ UNCHANGED <<allVars, place, evidence, signed>>

(* admit_stage from the answer on, and the record of an admitted count or   *)
(* send; the claim's record is written with the binding (Open).             *)
AnswerOf(a) == spent[a] \in DOMAIN service[CallOf[a]] /\ service[CallOf[a]][spent[a]] = a
Recorded(a) == evidence' = [evidence EXCEPT ![CallOf[a]] = IF spent[a] = 1 THEN @ ELSE spent[a]]

HearAny(a) ==                            \* mutant: an answer to another request counts
  /\ IsBroker(a) /\ failed[a] /\ spent[a] = Due(a)
  /\ ~expired /\ Len(service[CallOf[a]]) >= spent[a]
  /\ failed' = [failed EXCEPT ![a] = FALSE]
  /\ place' = [place EXCEPT ![a] = IF @ = "new" THEN "claimed" ELSE @]
  /\ Recorded(a)
  /\ UNCHANGED <<allVars, spent, service, signed>>
Hear(a) ==
  /\ IsBroker(a) /\ failed[a] /\ spent[a] = Due(a)
  /\ ~expired /\ AnswerOf(a)
  /\ failed' = [failed EXCEPT ![a] = FALSE]
  /\ place' = [place EXCEPT ![a] = IF @ = "new" THEN "claimed" ELSE @]
  /\ Recorded(a)
  /\ UNCHANGED <<allVars, spent, service, signed>>

(* No answer, a wrong one or a late one, or the guard does not ask at all:  *)
(* a claim ends the broker, a count or a send settles as uncertain.         *)
Doubt(a) ==
  /\ IsBroker(a)
  /\ (failed[a] /\ spent[a] = Due(a)) \/ (expired /\ spent[a] = Due(a) - 1)
  /\ \/ pc[a] = "new" /\ place[a] = "new" /\ Fail(a)
     \/ CountHeld(a) /\ Resolve(a, "uncertain", amount[a])
     \/ Unsent(a)
  /\ UNCHANGED anchorVars

-----------------------------------------------------------------------------
(* generate(), between the claim and create_response.                       *)
Hold(a) ==
  /\ IsBroker(a) /\ pc[a] = "new" /\ place[a] = "claimed"
  /\ \/ Admit(CallOf[a]) /\ place' = [place EXCEPT ![a] = "held"]
     \/ /\ ~(Admissible(<<Entry(CallOf[a], Full)>>, NoLimit) /\ Writable)
        /\ Fail(a) /\ UNCHANGED place
  /\ UNCHANGED <<spent, failed, service, evidence, signed>>

(* guard_held around a new audit directory, then wrap_transport.            *)
Open(a) ==
  LET c == CallOf[a] IN
  /\ IsBroker(a) /\ pc[a] = "new" /\ place[a] = "held"
  /\ \/ /\ ExactRow(Entry(c, Full), "held") /\ evidence[c] = 0 /\ ~expired
        /\ evidence' = [evidence EXCEPT ![c] = 1]
        /\ place' = [place EXCEPT ![a] = "controller"]
        /\ UNCHANGED allVars
     \/ /\ ~ExactRow(Entry(c, Full), "held") \/ evidence[c] # 0 \/ expired
        /\ Fail(a) /\ UNCHANGED <<evidence, place>>
  /\ UNCHANGED <<spent, failed, service, signed>>

(* create_response, with the guard around its two requests.  It returns     *)
(* when its answer was settled and its receipt is written.                  *)
Returns(a) == receipt' # receipt /\ receipt'[CallOf[a]].status = "settled"
Controlled(a) ==
  /\ IsBroker(a)
  /\ \/ place[a] = "controller" /\ Start(a)
     \/ Admitted(a) /\ (CountHeld(a) \/ Send(a))
     \/ File(a) \/ Recheck(a) \/ Answer(a) \/ SettleCall(a) \/ WriteReceipt(a)
  /\ place' = IF Returns(a) THEN [place EXCEPT ![a] = "returned"] ELSE place
  /\ UNCHANGED <<spent, failed, service, evidence, signed>>

(* The rest of generate(): the settlement and the audit are read again      *)
(* before the result is signed and kept.                                    *)
Sign(a) ==
  LET c == CallOf[a] IN
  /\ place[a] = "returned" /\ place' = [place EXCEPT ![a] = "signed"]
  /\ signed' = [signed EXCEPT ![c] =
       /\ receipt[c].status = "settled" /\ status[c] = "settled"
       /\ charged[c] = receipt[c].charge /\ evidence[c] = 3]
  /\ UNCHANGED <<allVars, spent, failed, service, evidence>>

-----------------------------------------------------------------------------
AnchorInit == /\ CallInit
              /\ place = [a \in Attempt |-> "new"] /\ spent = [a \in Attempt |-> 0]
              /\ failed = [a \in Attempt |-> FALSE] /\ service = [c \in EntryId |-> <<>>]
              /\ evidence = [c \in EntryId |-> 0] /\ signed = [c \in EntryId |-> FALSE]

Begun(a) == pc[a] \in Live \/ (pc[a] = "new" /\ spent[a] > 0)
Broker(a) == Hear(a) \/ Doubt(a) \/ Hold(a) \/ Open(a) \/ Controlled(a)
Plain(a) == ~IsBroker(a) /\ (Start(a) \/ Step(a)) /\ UNCHANGED anchorVars

Others == /\ \/ \E c \in EntryId : ~Anchored(c) /\ Admit(c)
             \/ \E a \in Attempt : Begun(a) /\ Crash(a)
             \/ Expire \/ Operator \/ Guards
          /\ UNCHANGED anchorVars

AnchorNext == /\ \/ \E a \in Attempt : Ask(a) \/ Broker(a) \/ Plain(a) \/ Sign(a)
                 \/ Others
              /\ UNCHANGED kind

(* While attempts are under way, one of them goes on; the remote service is *)
(* left no later than its timeout.                                          *)
Goes(a) == Begun(a) /\ (Ask(a) \/ Broker(a) \/ Plain(a)) /\ UNCHANGED kind
AnchorSpec == /\ AnchorInit /\ [][AnchorNext]_everything
              /\ WF_everything(\E a \in Attempt : Goes(a))

-----------------------------------------------------------------------------
(* Nothing is reserved for a grant before the service holds its price, and  *)
(* nothing is sent before one guard has spent all three stages and kept     *)
(* their records: not after a crash between an admission and its record,    *)
(* not by a second broker on the same grant, and not by a guard one of      *)
(* whose answers was lost.  A result that was signed was sent once, paid    *)
(* for, and has its whole story on record.                                  *)
AdmittedBeforeSent ==
  \A c \in EntryId : Anchored(c) =>
    /\ status[c] # "absent" => Len(service[c]) > 0
    /\ evidence[c] <= Len(service[c]) /\ Len(service[c]) <= 3
    /\ sends[c] > 0 => /\ evidence[c] = 3
                       /\ \E a \in Attempt : service[c] = <<a, a, a>> /\ ~failed[a]
    /\ signed[c] => /\ sends[c] = 1 /\ evidence[c] = 3
                    /\ status[c] = "settled" /\ charged[c] = receipt[c].charge
                    /\ billed[c] <= charged[c]

(* Every attempt that starts comes to an end without operator help, a       *)
(* broker whose service never answers included.  One that began leaves      *)
(* Begun by its end alone and never begins again, so it is the same that    *)
(* from some moment on none is under way.                                   *)
AttemptsEnd == <>[](\A a \in Attempt : ~Begun(a))
=============================================================================
