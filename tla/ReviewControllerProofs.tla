------------------------ MODULE ReviewControllerProofs ------------------------
(***************************************************************************)
(* Proofs about one approved review (ReviewController): its stages keep     *)
(* their order, the inspection of what a stopped run left is right, and     *)
(* nothing is paid for after the terminal record, for any number of         *)
(* controllers, critics and prices, whatever fails or dies.                 *)
(*                                                                         *)
(* At most one controller got past the reservation, since a batch is        *)
(* admitted once.  What it holds by its place is then stable: settled rows  *)
(* and whole files are final, and so is what a call left behind.            *)
(***************************************************************************)
EXTENDS ReviewController, SpendLedgerProofs

(* A controller past the batch's reservation, and a place of it.            *)
Runs(k) == owns[k] \/ pc[k] \notin {"prepared", "reserve", "ended"}
Early == {"prepared", "reserve", "mkdir", "envelope", "start", "issue", "critics"}
Moved == {"transfer", "issue_judge", "attest", "judging", "result"}
Closed == Ending \cup {"ended"}

OneRun ==
  /\ \A j, k \in Controller : Runs(j) /\ Runs(k) => j = k
  /\ \A k \in Controller : /\ Runs(k) => status[Allowance] # "absent"
                           /\ owns[k] \/ pc[k] \in {"prepared", "reserve", "mkdir", "envelope",
                                "ended"}
                           /\ pc[k] \in Ending => why[k] # "none"

(* What the ledger says of the judge's request, and of an allowance that    *)
(* was given back.                                                          *)
JudgeMoved == status[Judge] # "absent" =>
  status[Allowance] = "settled" /\ charged[Allowance] = 0 /\ JudgeAfterCritics
Unused == status[Allowance] = "settled" /\ status[Judge] = "absent"

(* What a controller has behind it by its place, and by how it ends.        *)
PlacesEarned == \A k \in Controller :
  /\ pc[k] \in {"move"} \cup Moved => CriticEvidence(k) /\ files["preview"] = "whole"
  /\ pc[k] \in Moved => status[Judge] # "absent"
  /\ pc[k] \in Moved \ {"transfer"} => Transferred
  /\ why[k] = "finished" => files["result"] = "whole" /\ Transferred
  /\ retired[k] => FormalCampaign /\ Unused

RecordsTrue ==
  /\ Transferred => files["preview"] = "whole" /\ status[Judge] # "absent"
  /\ terminal # NoTerminal =>
       /\ terminal.retired => FormalCampaign /\ Unused
       /\ terminal.phase = "finished" => files["result"] = "whole" /\ Transferred

(* Calls are in flight only while they are awaited.                         *)
ChildrenHeld == \A k \in Controller :
  /\ \A c \in Call : child[k][c] \in InFlight => pc[k] \in Waiting /\ c \in Awaited(k)
  /\ pc[k] \notin {"attest", "judging", "result", "ended"} \cup Ending => child[k][Judge] = "none"
  /\ pc[k] \in Working \cup Waiting \cup {"awaiting"} =>
       pc[k] \in Early \/ \A c \in Critic : child[k][c] \in Done

(* An allowance that was given back and a terminal record end the run.      *)
Closing ==
  /\ Unused => \A k \in Controller : Runs(k) => pc[k] \in Closed
  /\ files["terminal"] # "absent" =>
       /\ status[Allowance] # "absent"
       /\ \A k \in Controller : Runs(k) => /\ pc[k] \in Closed
                                           /\ pc[k] = "retire" => status[Allowance] = "settled"

ReviewInv == /\ LedgerInv /\ ReviewTypeOK /\ OneRun /\ JudgeMoved /\ PlacesEarned
             /\ RecordsTrue /\ ChildrenHeld /\ Closing

-----------------------------------------------------------------------------
(* The review's steps are the ledger's.                                     *)

(* The approved entries are entries of the ledger.                          *)
LEMMA Entries ==
  /\ \A e \in EntryId : Entry(e) \in LedgerEntry /\ Price[e] \in Nat /\ 0..Price[e] \subseteq Amount
  /\ Batch \in Batches /\ <<Entry(Other)>> \in Batches
  /\ Inserted(Batch) = Critic \cup {Allowance} /\ Inserted(<<Entry(Other)>>) = {Other}
<1>1. \A e \in EntryId : Entry(e) \in LedgerEntry /\ Price[e] \in Nat /\ 0..Price[e] \subseteq Amount
  <2> SUFFICES ASSUME NEW e \in EntryId
               PROVE  Entry(e) \in LedgerEntry /\ Price[e] \in Nat /\ 0..Price[e] \subseteq Amount
    OBVIOUS
  <2>1. Price[e] \in Amount /\ e \in Digest
    BY ReviewAssumption
  <2> QED BY <2>1, MaxAmountAssumption DEF Entry, LedgerEntry, Amount
<1>2. Batch \in Batches
  <2>1. Len(Batch) \in Nat /\ Batch \in [1..Len(Batch) -> LedgerEntry] /\ DOMAIN Batch = 1..Len(Batch)
    BY BatchAssumption
  <2>2. DOMAIN Batch # {}
    BY BatchAssumption
  <2>3. Len(Batch) \in 1..MaxBatch
    BY <2>1, <2>2, BatchAssumption, LedgerAssumption
  <2> QED BY <2>1, <2>3 DEF Batches
<1>3. <<Entry(Other)>> \in Batches
  <2>1. <<Entry(Other)>> \in [1..1 -> LedgerEntry]
    BY <1>1, ReviewAssumption
  <2>2. 1 \in 1..MaxBatch
    BY LedgerAssumption
  <2> QED BY <2>1, <2>2 DEF Batches
<1>4. Inserted(Batch) = Critic \cup {Allowance}
  <2>1. \A e \in Critic \cup {Allowance} : \E i \in DOMAIN Batch : Batch[i] = Entry(e)
    BY BatchAssumption
  <2>2. \A i \in DOMAIN Batch : \E e \in Critic \cup {Allowance} : Batch[i] = Entry(e)
    BY BatchAssumption
  <2> QED BY <2>1, <2>2 DEF Inserted, Entry
<1>5. Inserted(<<Entry(Other)>>) = {Other}
  BY DEF Inserted, Entry
<1> QED BY <1>1, <1>2, <1>3, <1>4, <1>5

LEMMA AnswersSettle ==
  ASSUME NEW c \in EntryId, NEW st, NEW amount,
         Settle(c, c, st, amount),
         \/ st \in {"uncertain", "violation"} /\ amount = Price[c]
         \/ st = "settled" /\ amount \in 0..Price[c]
  PROVE  Next
<1>1. c \in Digest /\ amount \in Amount /\ st \in Outcome
  BY ReviewAssumption, Entries DEF Outcome
<1> QED BY <1>1 DEF Next

LEMMA ReviewLedgerStep == [ReviewNext]_reviewVars => [Next]_vars
<1> SUFFICES ASSUME ReviewNext PROVE [Next]_vars
  BY DEF reviewVars
<1>1. /\ Entry(Allowance) \in LedgerEntry /\ Entry(Judge) \in LedgerEntry
      /\ NoLimit \in 1..Cardinality(EntryId) \cup {NoLimit}
      /\ Other \in EntryId /\ Call \subseteq EntryId
  BY Entries, ReviewAssumption DEF Call
<1>2. ASSUME NEW k \in Controller,
             Reserve(k) \/ Move(k) \/ Retire(k)
      PROVE  [Next]_vars
  <2>1. CASE Reserve(k)
    BY <1>1, <2>1, Entries DEF Reserve, Next
  <2>2. CASE Move(k)
    BY <1>1, <2>2 DEF Move, Next
  <2>3. CASE Retire(k)
    BY <1>1, <2>3 DEF Retire, Next
  <2> QED BY <1>2, <2>1, <2>2, <2>3
<1>3. ASSUME NEW k \in Controller, NEW c \in Call, Answer(k, c) \/ Cancelled(k, c)
      PROVE  [Next]_vars
  <2>1. ASSUME NEW st \in {"uncertain", "violation"}, Resolve(k, c, st, Price[c]) PROVE [Next]_vars
    BY <1>1, <2>1, AnswersSettle DEF Resolve
  <2>2. ASSUME NEW n \in 0..Price[c], Resolve(k, c, "settled", n) PROVE [Next]_vars
    BY <1>1, <2>2, AnswersSettle DEF Resolve
  <2> QED BY <1>3, <2>1, <2>2 DEF Answer, Cancelled
<1>4. CASE OtherRun
  <2>1. CASE ReserveMany(<<Entry(Other)>>, NoLimit)
    BY <1>1, <2>1, Entries DEF Next
  <2>2. CASE Settle(Other, Other, "violation", Price[Other])
    BY <1>1, <2>2, AnswersSettle
  <2> QED BY <1>4, <2>1, <2>2 DEF OtherRun
<1>5. ASSUME NEW k \in Controller,
             \/ RunCritics(k) \/ Mkdir(k) \/ KeepEnvelope(k) \/ KeepStart(k)
             \/ IssueCritic(k) \/ Stop(k) \/ Collect(k) \/ Assess(k) \/ KeepPreview(k)
             \/ CancelIdle(k) \/ Approve(k) \/ Verify(k) \/ KeepTransfer(k)
             \/ IssueJudge(k) \/ KeepAttest(k) \/ KeepResult(k) \/ KeepTerminal(k)
             \/ Raises(k) \/ WriteRaises(k) \/ TerminalRaises(k) \/ Crash(k)
      PROVE  UNCHANGED vars
  BY <1>5 DEF RunCritics, Mkdir, KeepEnvelope, KeepStart, Record, IssueCritic, Stop, Collect,
              Assess,
              KeepPreview, CancelIdle, Approve, Verify, KeepTransfer, IssueJudge, KeepAttest,
              KeepResult, KeepTerminal, Raises, WriteRaises, TerminalRaises, Crash
<1>6. ASSUME NEW k \in Controller, NEW c \in Call, Begin(k, c) \/ Ask(k, c) PROVE UNCHANGED vars
  BY <1>6 DEF Begin, Ask
<1> QED BY <1>2, <1>3, <1>4, <1>5, <1>6 DEF ReviewNext

(* The ledger's theorems are the review's: no critic, judge, controller or *)
(* crash gets around spend_ledger.py, so its ceiling, its audits and its    *)
(* block hold for every review (review_controller.py, review_broker.py).    *)
THEOREM ReviewUsesLedger == ReviewSpec => Spec
<1>1. ReviewInit => Init
  BY DEF ReviewInit
<1> QED BY <1>1, ReviewLedgerStep, PTL DEF ReviewSpec, Spec

-----------------------------------------------------------------------------
(* What never goes back: settled rows, whole files, the calls that ended.   *)

LEMMA RowsFinal ==
  ASSUME LedgerInv, [Next]_vars
  PROVE  LedgerInv' /\ EntryMonotone
<1>1. LedgerInv'
  BY InvStep
<1>2. CASE Next
  BY <1>1, <1>2, MonotoneStep
<1>3. CASE UNCHANGED vars
  BY <1>1, <1>3 DEF vars, EntryMonotone
<1> QED BY <1>1, <1>2, <1>3

LEMMA CriticsFinite == Critic \in SUBSET EntryId /\ IsFiniteSet(Critic)
BY ReviewAssumption, LedgerAssumption, FS_Subset

(* So what a controller once knew of its critics stays true.                *)
LEMMA EvidenceStays ==
  ASSUME LedgerInv, EntryMonotone, NEW k, CriticEvidence(k),
         \A c \in Critic : child[k][c] \in Done => child'[k][c] = child[k][c]
  PROVE  CriticEvidence(k)'
<1>1. \A c \in Critic : child'[k][c] = child[k][c]
  BY DEF CriticEvidence, Done
<1>2. {c \in Critic : child'[k][c] = "received"} = {c \in Critic : child[k][c] = "received"}
  BY <1>1
<1>3. \A c \in Critic : /\ status'[c] \notin {"absent", "held"}
                        /\ child[k][c] = "received" => status'[c] = "settled"
  BY CriticsFinite DEF CriticEvidence, EntryMonotone
<1>4. Cardinality({c \in Critic : child'[k][c] = "received"}) >= MinCritics
  BY <1>2 DEF CriticEvidence
<1>5. \A c \in Critic : child'[k][c] \in {"failed", "received"}
  BY <1>1 DEF CriticEvidence
<1> QED BY <1>1, <1>3, <1>4, <1>5 DEF CriticEvidence

(* A quorum of settled critics stays one.                                   *)
LEMMA QuorumStays ==
  ASSUME LedgerInv, EntryMonotone, JudgeAfterCritics, status[Judge] # "absent"
  PROVE  JudgeAfterCritics'
<1> DEFINE before == {c \in Critic : status[c] = "settled"}
           after == {c \in Critic : status'[c] = "settled"}
<1>1. before \subseteq after
  BY CriticsFinite DEF EntryMonotone
<1>2. IsFiniteSet(after) /\ IsFiniteSet(before)
  BY CriticsFinite, FS_Subset
<1>3. Cardinality(before) <= Cardinality(after)
  BY <1>1, <1>2, FS_Subset
<1>4. Cardinality(before) \in Nat /\ Cardinality(after) \in Nat /\ MinCritics \in Nat
  BY <1>2, CriticsFinite, FS_CardinalityType, ReviewAssumption
<1>5. Cardinality(after) >= MinCritics
  BY <1>3, <1>4 DEF JudgeAfterCritics
<1>6. \A c \in Critic : status'[c] \notin {"absent", "held"}
  BY CriticsFinite DEF EntryMonotone, JudgeAfterCritics
<1> QED BY <1>5, <1>6 DEF JudgeAfterCritics

-----------------------------------------------------------------------------
(* The initial state.                                                       *)
LEMMA InitHolds == ReviewInit => ReviewInv
<1> SUFFICES ASSUME ReviewInit PROVE ReviewInv
  OBVIOUS
<1>1. LedgerInv
  BY InvInit DEF ReviewInit
<1>2. ReviewTypeOK
  BY <1>1 DEF LedgerInv, ReviewInit, ReviewTypeOK, Files
<1>3. \A e \in EntryId : status[e] = "absent"
  BY DEF ReviewInit, Init
<1>4. Allowance \in EntryId /\ Judge \in EntryId
  BY ReviewAssumption
<1>5. OneRun /\ JudgeMoved /\ Closing
  BY <1>3, <1>4 DEF ReviewInit, OneRun, Runs, JudgeMoved, Closing, Unused, Ending, Files
<1>6. PlacesEarned /\ RecordsTrue
  BY <1>3, <1>4 DEF ReviewInit, PlacesEarned, RecordsTrue, Unused, Moved, Transferred, Files
<1>7. ChildrenHeld
  BY DEF ReviewInit, ChildrenHeld, InFlight, Early, Call
<1> QED BY <1>1, <1>2, <1>5, <1>6, <1>7 DEF ReviewInv

-----------------------------------------------------------------------------
(* What every step leaves as it was.                                        *)

(* The entries of a review are distinct.                                   *)
LEMMA Names ==
  /\ Allowance \in EntryId /\ Judge \in EntryId /\ Other \in EntryId /\ Critic \subseteq EntryId
  /\ Allowance # Judge /\ Allowance # Other /\ Judge # Other
  /\ Allowance \notin Critic /\ Judge \notin Critic /\ Other \notin Critic
BY ReviewAssumption

(* Settled rows, whole files, ended calls and the evidence they make stay.  *)
Stays == /\ EntryMonotone /\ LedgerInv'
         /\ \A k \in Controller, c \in Call : child[k][c] \in Done => child'[k][c] = child[k][c]
         /\ \A k \in Controller : CriticEvidence(k) => CriticEvidence(k)'
         /\ \A f \in Files : /\ files[f] = "whole" => files'[f] = "whole"
                             /\ files[f] # "absent" => files'[f] # "absent"

LEMMA FinalStays == ReviewInv /\ [ReviewNext]_reviewVars => Stays
<1> SUFFICES ASSUME ReviewInv, [ReviewNext]_reviewVars PROVE Stays
  OBVIOUS
<1>1. EntryMonotone /\ LedgerInv'
  BY ReviewLedgerStep, RowsFinal DEF ReviewInv
<1>2. \A k \in Controller, c \in Call : child[k][c] \in Done => child'[k][c] = child[k][c]
  <2>1. CASE UNCHANGED child
    BY <2>1
  <2>2. ASSUME NEW k \in Controller, IssueCritic(k) \/ IssueJudge(k) \/ Crash(k)
        PROVE  \A j \in Controller, c \in Call : child[j][c] \in Done => child'[j][c] = child[j][c]
    <3>1. CASE IssueCritic(k)
      BY <3>1 DEF ReviewInv, ReviewTypeOK, IssueCritic, Issue, Done
    <3>2. CASE IssueJudge(k)
      <4>1. child[k][Judge] = "none"
        BY <3>2 DEF ReviewInv, ChildrenHeld, IssueJudge, Ending
      <4> QED BY <3>2, <4>1 DEF ReviewInv, ReviewTypeOK, IssueJudge, Issue, Done
    <3>3. CASE Crash(k)
      BY <3>3 DEF ReviewInv, ReviewTypeOK, Crash, Done, InFlight
    <3> QED BY <2>2, <3>1, <3>2, <3>3
  <2>3. ASSUME NEW k \in Controller, NEW c \in Call, Begin(k, c) \/ Ask(k, c) \/ Answer(k,
       c) \/ Cancelled(k, c)
        PROVE  \A j \in Controller, d \in Call : child[j][d] \in Done => child'[j][d] = child[j][d]
    BY <2>3, SMTT(30) DEF ReviewInv, ReviewTypeOK, Begin, Ask, Answer, Cancelled, Resolve, Turn, Done,
                InFlight
  <2>4. ASSUME NEW k \in Controller,
             \/ RunCritics(k) \/ Reserve(k) \/ Mkdir(k) \/ KeepEnvelope(k) \/ KeepStart(k)
             \/ Stop(k) \/ Collect(k) \/ Assess(k) \/ KeepPreview(k)
             \/ CancelIdle(k) \/ Approve(k) \/ Verify(k) \/ Move(k) \/ KeepTransfer(k)
             \/ KeepAttest(k) \/ KeepResult(k) \/ Retire(k) \/ KeepTerminal(k)
             \/ Raises(k) \/ WriteRaises(k) \/ TerminalRaises(k)
        PROVE  UNCHANGED child
    BY <2>4 DEF RunCritics, Reserve, Mkdir, KeepEnvelope, KeepStart, Record, Stop, Collect, Assess,
                KeepPreview, CancelIdle, Approve, Verify, Move, KeepTransfer, KeepAttest,
                KeepResult, Retire, KeepTerminal, Raises, WriteRaises, TerminalRaises
  <2> QED BY <2>1, <2>2, <2>3, <2>4 DEF ReviewNext, OtherRun, reviewVars
<1>3. ASSUME NEW k \in Controller, CriticEvidence(k) PROVE CriticEvidence(k)'
  BY <1>1, <1>2, <1>3, EvidenceStays DEF ReviewInv, Call
<1>4. \A f \in Files : /\ files[f] = "whole" => files'[f] = "whole"
                       /\ files[f] # "absent" => files'[f] # "absent"
  <2> SUFFICES ASSUME NEW f \in Files, files[f] # "absent" PROVE files'[f] = files[f]
    BY DEF ReviewInv, ReviewTypeOK
  <2>1. ASSUME NEW g \in Files, files[g] = "absent", NEW left, files' = [files EXCEPT ![g] = left]
        PROVE  files'[f] = files[f]
    BY <2>1 DEF ReviewInv, ReviewTypeOK
  <2>2. ASSUME NEW k \in Controller,
             \/ KeepEnvelope(k) \/ KeepStart(k) \/ KeepPreview(k) \/ KeepTransfer(k)
             \/ KeepAttest(k) \/ KeepResult(k) \/ KeepTerminal(k)
             \/ WriteRaises(k) \/ TerminalRaises(k) \/ Crash(k)
        PROVE  files'[f] = files[f]
    <3>1. {"envelope", "start", "preview", "transfer", "attest", "result",
         "terminal"} \subseteq Files
      BY DEF Files
    <3> QED BY <2>1, <2>2, <3>1 DEF KeepEnvelope, KeepStart, KeepPreview, KeepTransfer, KeepAttest,
                KeepResult, KeepTerminal, Record, Write, WriteRaises, TerminalRaises, Crash, disk
  <2>3. ASSUME NEW k \in Controller,
             \/ RunCritics(k) \/ Reserve(k) \/ Mkdir(k) \/ IssueCritic(k) \/ Stop(k) \/ Collect(k)
             \/ Assess(k) \/ CancelIdle(k) \/ Approve(k) \/ Verify(k) \/ Move(k) \/ IssueJudge(k)
             \/ Retire(k) \/ Raises(k)
        PROVE  UNCHANGED files
    BY <2>3 DEF RunCritics, Reserve, Mkdir, IssueCritic, Stop, Collect, Assess, CancelIdle, Approve,
                Verify, Move, IssueJudge, Retire, Raises, disk
  <2>4. ASSUME NEW k \in Controller, NEW c \in Call,
             Begin(k, c) \/ Ask(k, c) \/ Answer(k, c) \/ Cancelled(k, c)
        PROVE  UNCHANGED files
    BY <2>4 DEF Begin, Ask, Answer, Cancelled, Resolve, disk
  <2> QED BY <2>2, <2>3, <2>4 DEF ReviewNext, OtherRun, reviewVars, disk
<1> QED BY <1>1, <1>2, <1>3, <1>4 DEF Stays

(* The judge's request moves the allowance, and nothing brings it back.     *)
LEMMA MovedStays ==
  ASSUME ReviewInv, Stays, status[Judge] = "absent" => status'[Judge] = "absent"
  PROVE  JudgeMoved'
<1> SUFFICES ASSUME status'[Judge] # "absent" PROVE JudgeMoved'
  BY DEF JudgeMoved
<1>1. /\ status[Judge] # "absent" /\ status[Allowance] = "settled" /\ charged[Allowance] = 0
      /\ JudgeAfterCritics
  BY DEF ReviewInv, JudgeMoved
<1>2. JudgeAfterCritics'
  BY <1>1, QuorumStays DEF ReviewInv, Stays
<1>3. status'[Allowance] = "settled" /\ charged'[Allowance] = 0
  BY <1>1, Names DEF Stays, EntryMonotone
<1> QED BY <1>2, <1>3 DEF JudgeMoved

LEMMA CallChanged ==
  ASSUME ReviewTypeOK, NEW k \in Controller, NEW c \in Call,
         \E s \in {"issued", "counting", "sent", "lost", "failed", "received"} :
           child' = [child EXCEPT ![k][c] = s]
  PROVE  \A j \in Controller, d \in Call : child'[j][d] # child[j][d] => j = k /\ d = c
BY DEF ReviewTypeOK

(* What a step of one call does to the calls.                              *)
LEMMA CallTyped ==
  ASSUME ReviewTypeOK, NEW k \in Controller, NEW c \in Call,
         NEW s \in {"issued", "counting", "sent", "lost", "failed", "received"},
         child' = [child EXCEPT ![k][c] = s]
  PROVE  child' \in [Controller -> [Call -> {"none", "issued"} \cup InFlight \cup Done]]
<1>1. s \in {"none", "issued"} \cup InFlight \cup Done
  BY DEF InFlight, Done
<1>2. child[k] \in [Call -> {"none", "issued"} \cup InFlight \cup Done]
  BY DEF ReviewTypeOK
<1>3. [child[k] EXCEPT ![c] = s] \in [Call -> {"none", "issued"} \cup InFlight \cup Done]
  BY <1>1, <1>2
<1>4. child' = [child EXCEPT ![k] = [child[k] EXCEPT ![c] = s]]
  BY DEF ReviewTypeOK
<1> QED BY <1>3, <1>4 DEF ReviewTypeOK

-----------------------------------------------------------------------------
(* The steps of a controller and of its calls that leave the ledger alone.  *)
LEMMA RunCriticsKeeps ==
  ASSUME ReviewInv, Stays, NEW k \in Controller, RunCritics(k)
  PROVE  ReviewInv'
<1> USE Names DEF ReviewInv, ReviewTypeOK, RunCritics, Goto, vars, disk
<1>1. LedgerInv' /\ TypeOK'
  BY DEF Stays, LedgerInv
<1>2. ReviewTypeOK'
  BY <1>1 DEF ReviewTypeOK, Files, Call, Working, Waiting, Ending, InFlight, Done
<1>3. OneRun'
  BY <1>1, <1>2 DEF OneRun, Runs, Ending, Waiting, Working, Stays, EntryMonotone
<1>4. JudgeMoved'
  BY MovedStays DEF vars
<1>5. PlacesEarned'
  BY <1>1, <1>2 DEF PlacesEarned, Moved, Unused, Transferred, Files, Stays, EntryMonotone
<1>6. RecordsTrue'
  BY <1>1, <1>2 DEF RecordsTrue, Unused, Transferred, Moved, PlacesEarned, Files, Stays,
                    EntryMonotone
<1>7. ChildrenHeld'
  BY <1>1, <1>2 DEF ChildrenHeld, InFlight, Done, Early, Waiting, Working, Ending, Awaited, Call,
                    Stays, EntryMonotone
<1>8. Closing'
  BY <1>1, <1>2 DEF Closing, Unused, Runs, Closed, Ending, Working, Waiting, Files, Stays,
                    EntryMonotone
<1> QED BY <1>1, <1>2, <1>3, <1>4, <1>5, <1>6, <1>7, <1>8

LEMMA MkdirKeeps ==
  ASSUME ReviewInv, Stays, NEW k \in Controller, Mkdir(k)
  PROVE  ReviewInv'
<1> USE Names DEF ReviewInv, ReviewTypeOK, Mkdir, Goto, vars, disk
<1>1. LedgerInv' /\ TypeOK'
  BY DEF Stays, LedgerInv
<1>2. ReviewTypeOK'
  BY <1>1 DEF ReviewTypeOK, Files, Call, Working, Waiting, Ending, InFlight, Done
<1>3. OneRun'
  BY <1>1, <1>2 DEF OneRun, Runs, Ending, Waiting, Working, Stays, EntryMonotone
<1>4. JudgeMoved'
  BY MovedStays DEF vars
<1>5. PlacesEarned'
  BY <1>1, <1>2 DEF PlacesEarned, Moved, Unused, Transferred, Files, Stays, EntryMonotone
<1>6. RecordsTrue'
  BY <1>1, <1>2 DEF RecordsTrue, Unused, Transferred, Moved, PlacesEarned, Files, Stays,
                    EntryMonotone
<1>7. ChildrenHeld'
  BY <1>1, <1>2 DEF ChildrenHeld, InFlight, Done, Early, Waiting, Working, Ending, Awaited, Call,
                    Stays, EntryMonotone
<1>8. Closing'
  BY <1>1, <1>2 DEF Closing, Unused, Runs, Closed, Ending, Working, Waiting, Files, Stays,
                    EntryMonotone
<1> QED BY <1>1, <1>2, <1>3, <1>4, <1>5, <1>6, <1>7, <1>8

LEMMA KeepEnvelopeKeeps ==
  ASSUME ReviewInv, Stays, NEW k \in Controller, KeepEnvelope(k)
  PROVE  ReviewInv'
<1> USE Names DEF ReviewInv, ReviewTypeOK, KeepEnvelope, Record, Write, Goto, vars
<1>1. LedgerInv' /\ TypeOK'
  BY DEF Stays, LedgerInv
<1>2. ReviewTypeOK'
  BY <1>1 DEF ReviewTypeOK, Files, Call, Working, Waiting, Ending, InFlight, Done
<1>3. OneRun'
  BY <1>1, <1>2 DEF OneRun, Runs, Ending, Waiting, Working, Stays, EntryMonotone
<1>4. JudgeMoved'
  BY MovedStays DEF vars
<1>5. PlacesEarned'
  BY <1>1, <1>2 DEF PlacesEarned, Moved, Unused, Transferred, Files, Stays, EntryMonotone
<1>6. RecordsTrue'
  BY <1>1, <1>2 DEF RecordsTrue, Unused, Transferred, Moved, PlacesEarned, Files, Stays,
                    EntryMonotone
<1>7. ChildrenHeld'
  BY <1>1, <1>2 DEF ChildrenHeld, InFlight, Done, Early, Waiting, Working, Ending, Awaited, Call,
                    Stays, EntryMonotone
<1>8. Closing'
  BY <1>1, <1>2 DEF Closing, Unused, Runs, Closed, Ending, Working, Waiting, Files, Stays,
                    EntryMonotone
<1> QED BY <1>1, <1>2, <1>3, <1>4, <1>5, <1>6, <1>7, <1>8

LEMMA KeepStartKeeps ==
  ASSUME ReviewInv, Stays, NEW k \in Controller, KeepStart(k)
  PROVE  ReviewInv'
<1> USE Names DEF ReviewInv, ReviewTypeOK, KeepStart, Record, Write, Goto, vars
<1>1. LedgerInv' /\ TypeOK'
  BY DEF Stays, LedgerInv
<1>2. ReviewTypeOK'
  BY <1>1 DEF ReviewTypeOK, Files, Call, Working, Waiting, Ending, InFlight, Done
<1>3. OneRun'
  BY <1>1, <1>2 DEF OneRun, Runs, Ending, Waiting, Working, Stays, EntryMonotone
<1>4. JudgeMoved'
  BY MovedStays DEF vars
<1>5. PlacesEarned'
  BY <1>1, <1>2 DEF PlacesEarned, Moved, Unused, Transferred, Files, Stays, EntryMonotone
<1>6. RecordsTrue'
  BY <1>1, <1>2 DEF RecordsTrue, Unused, Transferred, Moved, PlacesEarned, Files, Stays,
                    EntryMonotone
<1>7. ChildrenHeld'
  BY <1>1, <1>2 DEF ChildrenHeld, InFlight, Done, Early, Waiting, Working, Ending, Awaited, Call,
                    Stays, EntryMonotone
<1>8. Closing'
  BY <1>1, <1>2 DEF Closing, Unused, Runs, Closed, Ending, Working, Waiting, Files, Stays,
                    EntryMonotone
<1> QED BY <1>1, <1>2, <1>3, <1>4, <1>5, <1>6, <1>7, <1>8

LEMMA IssueCriticKeeps ==
  ASSUME ReviewInv, Stays, NEW k \in Controller, IssueCritic(k)
  PROVE  ReviewInv'
<1> USE Names DEF ReviewInv, ReviewTypeOK, IssueCritic, Issue, Goto, vars
<1>1. LedgerInv' /\ TypeOK'
  BY DEF Stays, LedgerInv
<1>2. ReviewTypeOK'
  <2>1. pc' \in [Controller -> {"prepared", "awaiting",
       "ended"} \cup Waiting \cup Working \cup Ending]
    BY DEF Waiting, Working, Ending
  <2>2. why' \in [Controller -> {"none", "finished", "failed",
       "cancelled"}] /\ owns' \in [Controller -> BOOLEAN]
        /\ retired' \in [Controller -> BOOLEAN] /\ directories' \subseteq Call \cup {Allowance}
    BY DEF Call
  <2>3. child' \in [Controller -> [Call -> {"none", "issued"} \cup InFlight \cup Done]]
    BY CallTyped DEF Call
  <2>4. files' \in [Files -> {"absent", "torn", "whole"}]
    BY DEF Files
  <2>5. terminal' \in [phase : {"finished", "failed", "cancelled"},
       retired : BOOLEAN] \cup {NoTerminal}
    OBVIOUS
  <2> QED BY <1>1, <2>1, <2>2, <2>3, <2>4, <2>5 DEF ReviewTypeOK
<1>3. OneRun'
  BY <1>1, <1>2 DEF OneRun, Runs, Ending, Waiting, Working, Stays, EntryMonotone
<1>4. JudgeMoved'
  BY MovedStays DEF vars
<1>5. PlacesEarned'
  BY <1>1, <1>2 DEF PlacesEarned, Moved, Unused, Transferred, Files, Stays, EntryMonotone
<1>6. RecordsTrue'
  BY <1>1, <1>2 DEF RecordsTrue, Unused, Transferred, Moved, PlacesEarned, Files, Stays,
                    EntryMonotone
<1>7. ChildrenHeld'
  BY <1>1, <1>2 DEF ChildrenHeld, InFlight, Done, Early, Waiting, Working, Ending, Awaited, Call,
                    Stays, EntryMonotone
<1>8. Closing'
  BY <1>1, <1>2 DEF Closing, Unused, Runs, Closed, Ending, Working, Waiting, Files, Stays,
                    EntryMonotone
<1> QED BY <1>1, <1>2, <1>3, <1>4, <1>5, <1>6, <1>7, <1>8

LEMMA StopKeeps ==
  ASSUME ReviewInv, Stays, NEW k \in Controller, Stop(k)
  PROVE  ReviewInv'
<1> USE Names DEF ReviewInv, ReviewTypeOK, Stop, Goto, vars, disk
<1>1. LedgerInv' /\ TypeOK'
  BY DEF Stays, LedgerInv
<1>2. ReviewTypeOK'
  <2>1. pc' \in [Controller -> {"prepared", "awaiting",
       "ended"} \cup Waiting \cup Working \cup Ending]
    BY DEF Waiting, Working, Ending
  <2>2. why' \in [Controller -> {"none", "finished", "failed",
       "cancelled"}] /\ owns' \in [Controller -> BOOLEAN]
        /\ retired' \in [Controller -> BOOLEAN] /\ directories' \subseteq Call \cup {Allowance}
    BY DEF Call
  <2>3. child' \in [Controller -> [Call -> {"none", "issued"} \cup InFlight \cup Done]]
    OBVIOUS
  <2>4. files' \in [Files -> {"absent", "torn", "whole"}]
    BY DEF Files
  <2>5. terminal' \in [phase : {"finished", "failed", "cancelled"},
       retired : BOOLEAN] \cup {NoTerminal}
    OBVIOUS
  <2> QED BY <1>1, <2>1, <2>2, <2>3, <2>4, <2>5 DEF ReviewTypeOK
<1>3. OneRun'
  BY <1>1, <1>2 DEF OneRun, Runs, Ending, Waiting, Working, Stays, EntryMonotone
<1>4. JudgeMoved'
  BY MovedStays DEF vars
<1>5. PlacesEarned'
  BY <1>1, <1>2 DEF PlacesEarned, Moved, Unused, Transferred, Files, Stays, EntryMonotone
<1>6. RecordsTrue'
  BY <1>1, <1>2 DEF RecordsTrue, Unused, Transferred, Moved, PlacesEarned, Files, Stays,
                    EntryMonotone
<1>7. ChildrenHeld'
  BY <1>1, <1>2 DEF ChildrenHeld, InFlight, Done, Early, Waiting, Working, Ending, Awaited, Call,
                    Stays, EntryMonotone
<1>8. Closing'
  BY <1>1, <1>2 DEF Closing, Unused, Runs, Closed, Ending, Working, Waiting, Files, Stays,
                    EntryMonotone
<1> QED BY <1>1, <1>2, <1>3, <1>4, <1>5, <1>6, <1>7, <1>8

LEMMA CollectKeeps ==
  ASSUME ReviewInv, Stays, NEW k \in Controller, Collect(k)
  PROVE  ReviewInv'
<1> USE Names DEF ReviewInv, ReviewTypeOK, Collect, End, Goto, vars, disk
<1>1. LedgerInv' /\ TypeOK'
  BY DEF Stays, LedgerInv
<1>2. ReviewTypeOK'
  <2>1. pc' \in [Controller -> {"prepared", "awaiting",
       "ended"} \cup Waiting \cup Working \cup Ending]
    BY DEF Waiting, Working, Ending
  <2>2. why' \in [Controller -> {"none", "finished", "failed",
       "cancelled"}] /\ owns' \in [Controller -> BOOLEAN]
        /\ retired' \in [Controller -> BOOLEAN] /\ directories' \subseteq Call \cup {Allowance}
    BY DEF Call
  <2>3. child' \in [Controller -> [Call -> {"none", "issued"} \cup InFlight \cup Done]]
    OBVIOUS
  <2>4. files' \in [Files -> {"absent", "torn", "whole"}]
    BY DEF Files
  <2>5. terminal' \in [phase : {"finished", "failed", "cancelled"},
       retired : BOOLEAN] \cup {NoTerminal}
    OBVIOUS
  <2> QED BY <1>1, <2>1, <2>2, <2>3, <2>4, <2>5 DEF ReviewTypeOK
<1>3. OneRun'
  <2>1. owns[k] /\ pc'[k] \in {"evidence", "result",
       "retire"} /\ (pc'[k] = "retire" => why'[k] # "none")
    BY DEF OneRun, Waiting
  <2>2. owns' = owns /\ status' = status /\ \A j \in Controller \ {k} : pc'[j] = pc[j] /\ why'[j] = why[j]
    OBVIOUS
  <2>3. \A j \in Controller : Runs(j)' => Runs(j)
    BY <2>1, <2>2 DEF Runs
  <2> QED BY <2>1, <2>2, <2>3 DEF OneRun, Ending
<1>4. JudgeMoved'
  BY MovedStays DEF vars
<1>5. PlacesEarned'
  <2> SUFFICES ASSUME NEW j \in Controller PROVE PlacesEarned!(j)'
    BY DEF PlacesEarned
  <2> QED BY <1>1, <1>2 DEF PlacesEarned, Moved, Unused, Transferred, Stays, EntryMonotone, Waiting
<1>6. RecordsTrue'
  BY <1>1, <1>2 DEF RecordsTrue, Unused, Transferred, Moved, PlacesEarned, Files, Stays,
                    EntryMonotone
<1>7. ChildrenHeld'
  <2>1. \A j \in Controller, c \in Call : child[j][c] \in InFlight => j # k
    BY DEF ChildrenHeld, Awaited, InFlight, Done
  <2>2. \A c \in Critic : child[k][c] \in Done
    BY DEF ChildrenHeld, Awaited, Waiting, Early
  <2>3. pc'[k] \notin {"attest", "judging", "result",
       "ended"} \cup Ending => child[k][Judge] = "none"
    BY DEF ChildrenHeld, Waiting, Ending
  <2>4. child' = child /\ \A j \in Controller \ {k} : pc'[j] = pc[j]
    OBVIOUS
  <2> QED BY <2>1, <2>2, <2>3, <2>4 DEF ChildrenHeld, Awaited
<1>8. Closing'
  BY <1>1, <1>2 DEF Closing, Unused, Runs, Closed, Ending, Working, Waiting, Files, Stays,
                    EntryMonotone
<1> QED BY <1>1, <1>2, <1>3, <1>4, <1>5, <1>6, <1>7, <1>8

LEMMA AssessKeeps ==
  ASSUME ReviewInv, Stays, NEW k \in Controller, Assess(k)
  PROVE  ReviewInv'
<1> USE Names DEF ReviewInv, ReviewTypeOK, Assess, Goto, vars, disk
<1>1. LedgerInv' /\ TypeOK'
  BY DEF Stays, LedgerInv
<1>2. ReviewTypeOK'
  BY <1>1 DEF ReviewTypeOK, Files, Call, Working, Waiting, Ending, InFlight, Done
<1>3. OneRun'
  BY <1>1, <1>2 DEF OneRun, Runs, Ending, Waiting, Working, Stays, EntryMonotone
<1>4. JudgeMoved'
  BY MovedStays DEF vars
<1>5. PlacesEarned'
  BY <1>1, <1>2 DEF PlacesEarned, Moved, Unused, Transferred, Files, Stays, EntryMonotone
<1>6. RecordsTrue'
  BY <1>1, <1>2 DEF RecordsTrue, Unused, Transferred, Moved, PlacesEarned, Files, Stays,
                    EntryMonotone
<1>7. ChildrenHeld'
  BY <1>1, <1>2 DEF ChildrenHeld, InFlight, Done, Early, Waiting, Working, Ending, Awaited, Call,
                    Stays, EntryMonotone
<1>8. Closing'
  BY <1>1, <1>2 DEF Closing, Unused, Runs, Closed, Ending, Working, Waiting, Files, Stays,
                    EntryMonotone
<1> QED BY <1>1, <1>2, <1>3, <1>4, <1>5, <1>6, <1>7, <1>8

LEMMA KeepPreviewKeeps ==
  ASSUME ReviewInv, Stays, NEW k \in Controller, KeepPreview(k)
  PROVE  ReviewInv'
<1> USE Names DEF ReviewInv, ReviewTypeOK, KeepPreview, Record, Write, Goto, vars
<1>1. LedgerInv' /\ TypeOK'
  BY DEF Stays, LedgerInv
<1>2. ReviewTypeOK'
  BY <1>1 DEF ReviewTypeOK, Files, Call, Working, Waiting, Ending, InFlight, Done
<1>3. OneRun'
  BY <1>1, <1>2 DEF OneRun, Runs, Ending, Waiting, Working, Stays, EntryMonotone
<1>4. JudgeMoved'
  BY MovedStays DEF vars
<1>5. PlacesEarned'
  BY <1>1, <1>2 DEF PlacesEarned, Moved, Unused, Transferred, Files, Stays, EntryMonotone
<1>6. RecordsTrue'
  BY <1>1, <1>2 DEF RecordsTrue, Unused, Transferred, Moved, PlacesEarned, Files, Stays,
                    EntryMonotone
<1>7. ChildrenHeld'
  BY <1>1, <1>2 DEF ChildrenHeld, InFlight, Done, Early, Waiting, Working, Ending, Awaited, Call,
                    Stays, EntryMonotone
<1>8. Closing'
  BY <1>1, <1>2 DEF Closing, Unused, Runs, Closed, Ending, Working, Waiting, Files, Stays,
                    EntryMonotone
<1> QED BY <1>1, <1>2, <1>3, <1>4, <1>5, <1>6, <1>7, <1>8

LEMMA CancelIdleKeeps ==
  ASSUME ReviewInv, Stays, NEW k \in Controller, CancelIdle(k)
  PROVE  ReviewInv'
<1> USE Names DEF ReviewInv, ReviewTypeOK, CancelIdle, End, Goto, vars, disk
<1>1. LedgerInv' /\ TypeOK'
  BY DEF Stays, LedgerInv
<1>2. ReviewTypeOK'
  BY <1>1 DEF ReviewTypeOK, Files, Call, Working, Waiting, Ending, InFlight, Done
<1>3. OneRun'
  BY <1>1, <1>2 DEF OneRun, Runs, Ending, Waiting, Working, Stays, EntryMonotone
<1>4. JudgeMoved'
  BY MovedStays DEF vars
<1>5. PlacesEarned'
  BY <1>1, <1>2 DEF PlacesEarned, Moved, Unused, Transferred, Files, Stays, EntryMonotone
<1>6. RecordsTrue'
  BY <1>1, <1>2 DEF RecordsTrue, Unused, Transferred, Moved, PlacesEarned, Files, Stays,
                    EntryMonotone
<1>7. ChildrenHeld'
  BY <1>1, <1>2 DEF ChildrenHeld, InFlight, Done, Early, Waiting, Working, Ending, Awaited, Call,
                    Stays, EntryMonotone
<1>8. Closing'
  BY <1>1, <1>2 DEF Closing, Unused, Runs, Closed, Ending, Working, Waiting, Files, Stays,
                    EntryMonotone
<1> QED BY <1>1, <1>2, <1>3, <1>4, <1>5, <1>6, <1>7, <1>8

LEMMA ApproveKeeps ==
  ASSUME ReviewInv, Stays, NEW k \in Controller, Approve(k)
  PROVE  ReviewInv'
<1> USE Names DEF ReviewInv, ReviewTypeOK, Approve, Goto, vars, disk
<1>1. LedgerInv' /\ TypeOK'
  BY DEF Stays, LedgerInv
<1>2. ReviewTypeOK'
  BY <1>1 DEF ReviewTypeOK, Files, Call, Working, Waiting, Ending, InFlight, Done
<1>3. OneRun'
  BY <1>1, <1>2 DEF OneRun, Runs, Ending, Waiting, Working, Stays, EntryMonotone
<1>4. JudgeMoved'
  BY MovedStays DEF vars
<1>5. PlacesEarned'
  BY <1>1, <1>2 DEF PlacesEarned, Moved, Unused, Transferred, Files, Stays, EntryMonotone
<1>6. RecordsTrue'
  BY <1>1, <1>2 DEF RecordsTrue, Unused, Transferred, Moved, PlacesEarned, Files, Stays,
                    EntryMonotone
<1>7. ChildrenHeld'
  BY <1>1, <1>2 DEF ChildrenHeld, InFlight, Done, Early, Waiting, Working, Ending, Awaited, Call,
                    Stays, EntryMonotone
<1>8. Closing'
  BY <1>1, <1>2 DEF Closing, Unused, Runs, Closed, Ending, Working, Waiting, Files, Stays,
                    EntryMonotone
<1> QED BY <1>1, <1>2, <1>3, <1>4, <1>5, <1>6, <1>7, <1>8

LEMMA VerifyKeeps ==
  ASSUME ReviewInv, Stays, NEW k \in Controller, Verify(k)
  PROVE  ReviewInv'
<1> USE Names DEF ReviewInv, ReviewTypeOK, Verify, Goto, vars, disk
<1>1. LedgerInv' /\ TypeOK'
  BY DEF Stays, LedgerInv
<1>2. ReviewTypeOK'
  BY <1>1 DEF ReviewTypeOK, Files, Call, Working, Waiting, Ending, InFlight, Done
<1>3. OneRun'
  BY <1>1, <1>2 DEF OneRun, Runs, Ending, Waiting, Working, Stays, EntryMonotone
<1>4. JudgeMoved'
  BY MovedStays DEF vars
<1>5. PlacesEarned'
  BY <1>1, <1>2 DEF PlacesEarned, Moved, Unused, Transferred, Files, Stays, EntryMonotone
<1>6. RecordsTrue'
  BY <1>1, <1>2 DEF RecordsTrue, Unused, Transferred, Moved, PlacesEarned, Files, Stays,
                    EntryMonotone
<1>7. ChildrenHeld'
  BY <1>1, <1>2 DEF ChildrenHeld, InFlight, Done, Early, Waiting, Working, Ending, Awaited, Call,
                    Stays, EntryMonotone
<1>8. Closing'
  BY <1>1, <1>2 DEF Closing, Unused, Runs, Closed, Ending, Working, Waiting, Files, Stays,
                    EntryMonotone
<1> QED BY <1>1, <1>2, <1>3, <1>4, <1>5, <1>6, <1>7, <1>8

LEMMA KeepTransferKeeps ==
  ASSUME ReviewInv, Stays, NEW k \in Controller, KeepTransfer(k)
  PROVE  ReviewInv'
<1> USE Names DEF ReviewInv, ReviewTypeOK, KeepTransfer, Record, Write, Goto, vars
<1>1. LedgerInv' /\ TypeOK'
  BY DEF Stays, LedgerInv
<1>2. ReviewTypeOK'
  BY <1>1 DEF ReviewTypeOK, Files, Call, Working, Waiting, Ending, InFlight, Done
<1>3. OneRun'
  BY <1>1, <1>2 DEF OneRun, Runs, Ending, Waiting, Working, Stays, EntryMonotone
<1>4. JudgeMoved'
  BY MovedStays DEF vars
<1>5. PlacesEarned'
  BY <1>1, <1>2 DEF PlacesEarned, Moved, Unused, Transferred, Files, Stays, EntryMonotone
<1>6. RecordsTrue'
  BY <1>1, <1>2 DEF RecordsTrue, Unused, Transferred, Moved, PlacesEarned, Files, Stays,
                    EntryMonotone
<1>7. ChildrenHeld'
  BY <1>1, <1>2 DEF ChildrenHeld, InFlight, Done, Early, Waiting, Working, Ending, Awaited, Call,
                    Stays, EntryMonotone
<1>8. Closing'
  BY <1>1, <1>2 DEF Closing, Unused, Runs, Closed, Ending, Working, Waiting, Files, Stays,
                    EntryMonotone
<1> QED BY <1>1, <1>2, <1>3, <1>4, <1>5, <1>6, <1>7, <1>8

LEMMA IssueJudgeKeeps ==
  ASSUME ReviewInv, Stays, NEW k \in Controller, IssueJudge(k)
  PROVE  ReviewInv'
<1> USE Names DEF ReviewInv, ReviewTypeOK, IssueJudge, Issue, Goto, vars
<1>1. LedgerInv' /\ TypeOK'
  BY DEF Stays, LedgerInv
<1>2. ReviewTypeOK'
  BY <1>1 DEF ReviewTypeOK, Files, Call, Working, Waiting, Ending, InFlight, Done
<1>3. OneRun'
  BY <1>1, <1>2 DEF OneRun, Runs, Ending, Waiting, Working, Stays, EntryMonotone
<1>4. JudgeMoved'
  BY MovedStays DEF vars
<1>5. PlacesEarned'
  BY <1>1, <1>2 DEF PlacesEarned, Moved, Unused, Transferred, Files, Stays, EntryMonotone
<1>6. RecordsTrue'
  BY <1>1, <1>2 DEF RecordsTrue, Unused, Transferred, Moved, PlacesEarned, Files, Stays,
                    EntryMonotone
<1>7. ChildrenHeld'
  BY <1>1, <1>2 DEF ChildrenHeld, InFlight, Done, Early, Waiting, Working, Ending, Awaited, Call,
                    Stays, EntryMonotone
<1>8. Closing'
  BY <1>1, <1>2 DEF Closing, Unused, Runs, Closed, Ending, Working, Waiting, Files, Stays,
                    EntryMonotone
<1> QED BY <1>1, <1>2, <1>3, <1>4, <1>5, <1>6, <1>7, <1>8

LEMMA KeepAttestKeeps ==
  ASSUME ReviewInv, Stays, NEW k \in Controller, KeepAttest(k)
  PROVE  ReviewInv'
<1> USE Names DEF ReviewInv, ReviewTypeOK, KeepAttest, Record, Write, Goto, vars
<1>1. LedgerInv' /\ TypeOK'
  BY DEF Stays, LedgerInv
<1>2. ReviewTypeOK'
  BY <1>1 DEF ReviewTypeOK, Files, Call, Working, Waiting, Ending, InFlight, Done
<1>3. OneRun'
  BY <1>1, <1>2 DEF OneRun, Runs, Ending, Waiting, Working, Stays, EntryMonotone
<1>4. JudgeMoved'
  BY MovedStays DEF vars
<1>5. PlacesEarned'
  BY <1>1, <1>2 DEF PlacesEarned, Moved, Unused, Transferred, Files, Stays, EntryMonotone
<1>6. RecordsTrue'
  BY <1>1, <1>2 DEF RecordsTrue, Unused, Transferred, Moved, PlacesEarned, Files, Stays,
                    EntryMonotone
<1>7. ChildrenHeld'
  BY <1>1, <1>2 DEF ChildrenHeld, InFlight, Done, Early, Waiting, Working, Ending, Awaited, Call,
                    Stays, EntryMonotone
<1>8. Closing'
  BY <1>1, <1>2 DEF Closing, Unused, Runs, Closed, Ending, Working, Waiting, Files, Stays,
                    EntryMonotone
<1> QED BY <1>1, <1>2, <1>3, <1>4, <1>5, <1>6, <1>7, <1>8

LEMMA KeepResultKeeps ==
  ASSUME ReviewInv, Stays, NEW k \in Controller, KeepResult(k)
  PROVE  ReviewInv'
<1> USE Names DEF ReviewInv, ReviewTypeOK, KeepResult, Write, Goto, vars
<1>1. LedgerInv' /\ TypeOK'
  BY DEF Stays, LedgerInv
<1>2. ReviewTypeOK'
  BY <1>1 DEF ReviewTypeOK, Files, Call, Working, Waiting, Ending, InFlight, Done
<1>3. OneRun'
  BY <1>1, <1>2 DEF OneRun, Runs, Ending, Waiting, Working, Stays, EntryMonotone
<1>4. JudgeMoved'
  BY MovedStays DEF vars
<1>5. PlacesEarned'
  BY <1>1, <1>2 DEF PlacesEarned, Moved, Unused, Transferred, Files, Stays, EntryMonotone
<1>6. RecordsTrue'
  BY <1>1, <1>2 DEF RecordsTrue, Unused, Transferred, Moved, PlacesEarned, Files, Stays,
                    EntryMonotone
<1>7. ChildrenHeld'
  BY <1>1, <1>2 DEF ChildrenHeld, InFlight, Done, Early, Waiting, Working, Ending, Awaited, Call,
                    Stays, EntryMonotone
<1>8. Closing'
  BY <1>1, <1>2 DEF Closing, Unused, Runs, Closed, Ending, Working, Waiting, Files, Stays,
                    EntryMonotone
<1> QED BY <1>1, <1>2, <1>3, <1>4, <1>5, <1>6, <1>7, <1>8

LEMMA KeepTerminalKeeps ==
  ASSUME ReviewInv, Stays, NEW k \in Controller, KeepTerminal(k)
  PROVE  ReviewInv'
<1> USE Names DEF ReviewInv, ReviewTypeOK, KeepTerminal, Says, Write, Goto, vars
<1>1. LedgerInv' /\ TypeOK'
  BY DEF Stays, LedgerInv
<1>2. ReviewTypeOK'
  <2>1. pc' \in [Controller -> {"prepared", "awaiting",
       "ended"} \cup Waiting \cup Working \cup Ending]
    BY DEF Waiting, Working, Ending
  <2>2. why' \in [Controller -> {"none", "finished", "failed",
       "cancelled"}] /\ owns' \in [Controller -> BOOLEAN]
        /\ retired' \in [Controller -> BOOLEAN] /\ directories' \subseteq Call \cup {Allowance}
    BY DEF Call
  <2>3. child' \in [Controller -> [Call -> {"none", "issued"} \cup InFlight \cup Done]]
    OBVIOUS
  <2>4. files' \in [Files -> {"absent", "torn", "whole"}]
    BY DEF Files
  <2>5. terminal' \in [phase : {"finished", "failed", "cancelled"},
       retired : BOOLEAN] \cup {NoTerminal}
    BY DEF OneRun, Ending
  <2> QED BY <1>1, <2>1, <2>2, <2>3, <2>4, <2>5 DEF ReviewTypeOK
<1>3. OneRun'
  BY <1>1, <1>2 DEF OneRun, Runs, Ending, Waiting, Working, Stays, EntryMonotone
<1>4. JudgeMoved'
  BY MovedStays DEF vars
<1>5. PlacesEarned'
  BY <1>1, <1>2 DEF PlacesEarned, Moved, Unused, Transferred, Files, Stays, EntryMonotone
<1>6. RecordsTrue'
  BY <1>1, <1>2 DEF RecordsTrue, Unused, Transferred, Moved, PlacesEarned, Files, Stays,
                    EntryMonotone
<1>7. ChildrenHeld'
  BY <1>1, <1>2 DEF ChildrenHeld, InFlight, Done, Early, Waiting, Working, Ending, Awaited, Call,
                    Stays, EntryMonotone
<1>8. Closing'
  <2>1. \A j \in Controller : Runs(j)' => j = k
    BY <1>2 DEF OneRun, Runs
  <2>2. status[Allowance] # "absent" /\ pc'[k] = "ended"
    BY <1>2, SMTT(30) DEF OneRun, Runs
  <2> QED BY <2>1, <2>2 DEF Closing, Closed
<1> QED BY <1>1, <1>2, <1>3, <1>4, <1>5, <1>6, <1>7, <1>8

LEMMA RaisesKeeps ==
  ASSUME ReviewInv, Stays, NEW k \in Controller, Raises(k)
  PROVE  ReviewInv'
<1> USE Names DEF ReviewInv, ReviewTypeOK, Raises, End, Goto, vars, disk
<1>1. LedgerInv' /\ TypeOK'
  BY DEF Stays, LedgerInv
<1>2. ReviewTypeOK'
  BY <1>1 DEF ReviewTypeOK, Files, Call, Working, Waiting, Ending, InFlight, Done
<1>3. OneRun'
  BY <1>1, <1>2 DEF OneRun, Runs, Ending, Waiting, Working, Stays, EntryMonotone
<1>4. JudgeMoved'
  BY MovedStays DEF vars
<1>5. PlacesEarned'
  BY <1>1, <1>2 DEF PlacesEarned, Moved, Unused, Transferred, Files, Stays, EntryMonotone
<1>6. RecordsTrue'
  BY <1>1, <1>2 DEF RecordsTrue, Unused, Transferred, Moved, PlacesEarned, Files, Stays,
                    EntryMonotone
<1>7. ChildrenHeld'
  BY <1>1, <1>2 DEF ChildrenHeld, InFlight, Done, Early, Waiting, Working, Ending, Awaited, Call,
                    Stays, EntryMonotone
<1>8. Closing'
  BY <1>1, <1>2 DEF Closing, Unused, Runs, Closed, Ending, Working, Waiting, Files, Stays,
                    EntryMonotone
<1> QED BY <1>1, <1>2, <1>3, <1>4, <1>5, <1>6, <1>7, <1>8

LEMMA WriteRaisesKeeps ==
  ASSUME ReviewInv, Stays, NEW k \in Controller, WriteRaises(k)
  PROVE  ReviewInv'
<1> USE Names DEF ReviewInv, ReviewTypeOK, WriteRaises, End, Goto, vars
<1>1. LedgerInv' /\ TypeOK'
  BY DEF Stays, LedgerInv
<1>2. ReviewTypeOK'
  <2>1. pc' \in [Controller -> {"prepared", "awaiting",
       "ended"} \cup Waiting \cup Working \cup Ending]
    BY DEF Waiting, Working, Ending
  <2>2. why' \in [Controller -> {"none", "finished", "failed",
       "cancelled"}] /\ owns' \in [Controller -> BOOLEAN]
        /\ retired' \in [Controller -> BOOLEAN] /\ directories' \subseteq Call \cup {Allowance}
    BY DEF Call
  <2>3. child' \in [Controller -> [Call -> {"none", "issued"} \cup InFlight \cup Done]]
    OBVIOUS
  <2>4. files' \in [Files -> {"absent", "torn", "whole"}]
    BY DEF Files, Working
  <2>5. terminal' \in [phase : {"finished", "failed", "cancelled"},
       retired : BOOLEAN] \cup {NoTerminal}
    OBVIOUS
  <2> QED BY <1>1, <2>1, <2>2, <2>3, <2>4, <2>5 DEF ReviewTypeOK
<1>3. OneRun'
  BY <1>1, <1>2 DEF OneRun, Runs, Ending, Waiting, Working, Stays, EntryMonotone
<1>4. JudgeMoved'
  BY MovedStays DEF vars
<1>5. PlacesEarned'
  BY <1>1, <1>2 DEF PlacesEarned, Moved, Unused, Transferred, Files, Stays, EntryMonotone
<1>6. RecordsTrue'
  BY <1>1, <1>2 DEF RecordsTrue, Unused, Transferred, Moved, PlacesEarned, Files, Stays,
                    EntryMonotone
<1>7. ChildrenHeld'
  BY <1>1, <1>2 DEF ChildrenHeld, InFlight, Done, Early, Waiting, Working, Ending, Awaited, Call,
                    Stays, EntryMonotone
<1>8. Closing'
  BY <1>1, <1>2 DEF Closing, Unused, Runs, Closed, Ending, Working, Waiting, Files, Stays,
                    EntryMonotone
<1> QED BY <1>1, <1>2, <1>3, <1>4, <1>5, <1>6, <1>7, <1>8

LEMMA TerminalRaisesKeeps ==
  ASSUME ReviewInv, Stays, NEW k \in Controller, TerminalRaises(k)
  PROVE  ReviewInv'
<1> USE Names DEF ReviewInv, ReviewTypeOK, TerminalRaises, Says, Goto, vars, disk
<1>1. LedgerInv' /\ TypeOK'
  BY DEF Stays, LedgerInv
<1>2. ReviewTypeOK'
  <2>1. pc' \in [Controller -> {"prepared", "awaiting",
       "ended"} \cup Waiting \cup Working \cup Ending]
    BY DEF Waiting, Working, Ending
  <2>2. why' \in [Controller -> {"none", "finished", "failed",
       "cancelled"}] /\ owns' \in [Controller -> BOOLEAN]
        /\ retired' \in [Controller -> BOOLEAN] /\ directories' \subseteq Call \cup {Allowance}
    BY DEF Call
  <2>3. child' \in [Controller -> [Call -> {"none", "issued"} \cup InFlight \cup Done]]
    OBVIOUS
  <2>4. files' \in [Files -> {"absent", "torn", "whole"}]
    BY DEF Files
  <2>5. terminal' \in [phase : {"finished", "failed", "cancelled"},
       retired : BOOLEAN] \cup {NoTerminal}
    BY DEF OneRun, Ending
  <2> QED BY <1>1, <2>1, <2>2, <2>3, <2>4, <2>5 DEF ReviewTypeOK
<1>3. OneRun'
  <2>1. owns[k] /\ why[k] # "none" /\ pc'[k] \in {"retire", "ended"}
    BY DEF OneRun, Ending
  <2>2. why'[k] # "none" /\ owns' = owns /\ status' = status
    BY <2>1 DEF vars
  <2>3. \A j \in Controller \ {k} : pc'[j] = pc[j] /\ why'[j] = why[j]
    OBVIOUS
  <2>4. \A j \in Controller : Runs(j)' => Runs(j)
    BY <2>1, <2>2, <2>3 DEF Runs
  <2> QED BY <2>1, <2>2, <2>3, <2>4 DEF OneRun
<1>4. JudgeMoved'
  BY MovedStays DEF vars
<1>5. PlacesEarned'
  BY <1>1, <1>2 DEF PlacesEarned, Moved, Unused, Transferred, Files, Stays, EntryMonotone
<1>6. RecordsTrue'
  BY <1>1, <1>2 DEF RecordsTrue, Unused, Transferred, Moved, PlacesEarned, Files, Stays,
                    EntryMonotone
<1>7. ChildrenHeld'
  <2>1. child' = child /\ pc'[k] \in {"retire",
       "ended"} /\ \A j \in Controller \ {k} : pc'[j] = pc[j]
    OBVIOUS
  <2>2. \A c \in Call : child[k][c] \notin InFlight
    BY DEF ChildrenHeld, Ending, Waiting
  <2> QED BY <2>1, <2>2 DEF ChildrenHeld, Working, Waiting, Ending, Awaited
<1>8. Closing'
  <2>0. pc'[k] \in Closed /\ \A j \in Controller \ {k} : pc'[j] = pc[j]
    BY DEF Ending, Closed
  <2>1. \A j \in Controller : Runs(j)' => j = k
    BY <1>3, <2>0 DEF OneRun, Runs, Ending
  <2>2. status[Allowance] # "absent"
    BY DEF OneRun, Runs, Ending
  <2>3. pc'[k] = "retire" => status[Allowance] = "settled"
    BY DEF PlacesEarned, RecordsTrue, JudgeMoved
  <2> QED BY <2>0, <2>1, <2>2, <2>3 DEF Closing
<1> QED BY <1>1, <1>2, <1>3, <1>4, <1>5, <1>6, <1>7, <1>8

LEMMA CrashKeeps ==
  ASSUME ReviewInv, Stays, NEW k \in Controller, Crash(k)
  PROVE  ReviewInv'
<1> USE Names DEF ReviewInv, ReviewTypeOK, Crash, Goto, vars
<1>1. LedgerInv' /\ TypeOK'
  BY DEF Stays, LedgerInv
<1>2. ReviewTypeOK'
  BY <1>1 DEF ReviewTypeOK, Files, Call, Working, Waiting, Ending, InFlight, Done
<1>3. OneRun'
  BY <1>1, <1>2 DEF OneRun, Runs, Ending, Waiting, Working, Stays, EntryMonotone
<1>4. JudgeMoved'
  BY MovedStays DEF vars
<1>5. PlacesEarned'
  BY <1>1, <1>2 DEF PlacesEarned, Moved, Unused, Transferred, Files, Stays, EntryMonotone
<1>6. RecordsTrue'
  BY <1>1, <1>2 DEF RecordsTrue, Unused, Transferred, Moved, PlacesEarned, Files, Stays,
                    EntryMonotone
<1>7. ChildrenHeld'
  BY <1>1, <1>2 DEF ChildrenHeld, InFlight, Done, Early, Waiting, Working, Ending, Awaited, Call,
                    Stays, EntryMonotone
<1>8. Closing'
  <2>1. pc'[k] = "ended" /\ \A j \in Controller \ {k} : pc'[j] = pc[j]
    OBVIOUS
  <2>2. Runs(k) => status[Allowance] # "absent" /\ \A j \in Controller : Runs(j) => j = k
    BY DEF OneRun
  <2>3. \A j \in Controller : Runs(j)' => Runs(j)
    BY <2>1 DEF Runs
  <2>4. files'["terminal"] # "absent" => files["terminal"] # "absent" \/ pc[k] = "terminal"
    BY DEF Files
  <2> QED BY <2>1, <2>2, <2>3, <2>4 DEF Closing, Closed, Unused, Runs
<1> QED BY <1>1, <1>2, <1>3, <1>4, <1>5, <1>6, <1>7, <1>8

LEMMA BeginKeeps ==
  ASSUME ReviewInv, Stays, NEW k \in Controller, NEW c \in Call, Begin(k, c)
  PROVE  ReviewInv'
<1> USE Names DEF ReviewInv, ReviewTypeOK, Begin, Turn, vars, own, disk
<1>1. LedgerInv' /\ TypeOK'
  BY DEF Stays, LedgerInv
<1>2. ReviewTypeOK'
  <2>1. pc' \in [Controller -> {"prepared", "awaiting",
       "ended"} \cup Waiting \cup Working \cup Ending]
    BY DEF Waiting, Working, Ending
  <2>2. why' \in [Controller -> {"none", "finished", "failed",
       "cancelled"}] /\ owns' \in [Controller -> BOOLEAN]
        /\ retired' \in [Controller -> BOOLEAN] /\ directories' \subseteq Call \cup {Allowance}
    BY DEF Call
  <2>3. child' \in [Controller -> [Call -> {"none", "issued"} \cup InFlight \cup Done]]
    BY CallTyped
  <2>4. files' \in [Files -> {"absent", "torn", "whole"}]
    BY DEF Files
  <2>5. terminal' \in [phase : {"finished", "failed", "cancelled"},
       retired : BOOLEAN] \cup {NoTerminal}
    OBVIOUS
  <2> QED BY <1>1, <2>1, <2>2, <2>3, <2>4, <2>5 DEF ReviewTypeOK
<1>3. OneRun'
  BY <1>1, <1>2 DEF OneRun, Runs, Ending, Waiting, Working, Stays, EntryMonotone
<1>4. JudgeMoved'
  BY MovedStays DEF vars
<1>5. PlacesEarned'
  BY <1>1, <1>2 DEF PlacesEarned, Moved, Unused, Transferred, Files, Stays, EntryMonotone
<1>6. RecordsTrue'
  BY <1>1, <1>2 DEF RecordsTrue, Unused, Transferred, Moved, PlacesEarned, Files, Stays,
                    EntryMonotone
<1>7. ChildrenHeld'
  <2>1. c \in Awaited(k)
    BY DEF ChildrenHeld, Awaited, Waiting, Done, Early, Working, Call, Ending
  <2>2. child[k][c] = "issued" /\ (pc[k] = "critics" => c \in Critic)
    BY <2>1 DEF Awaited
  <2>3. \A j \in Controller, d \in Call :
          child'[j][d] # child[j][d] => j = k /\ d = c
    <3>1. PICK s \in {"counting", "lost", "failed"} : child' = [child EXCEPT ![k][c] = s]
      OBVIOUS
    <3> QED BY <3>1, CallChanged
  <2>4. ASSUME NEW j \in Controller PROVE ChildrenHeld!(j)'
    <3>1. \A d \in Call : child'[j][d] \in InFlight => pc'[j] \in Waiting /\ d \in Awaited(j)'
      BY <2>3, <2>1 DEF ChildrenHeld, Awaited
    <3>2. child[j][Judge] = "none" => child'[j][Judge] = "none"
      BY <2>3, <2>2 DEF Call
    <3>3. \A d \in Critic : child[j][d] \in Done => child'[j][d] \in Done
      BY DEF Stays, Call
    <3> HIDE DEF InFlight, Done, Waiting, Call
    <3> QED BY <3>1, <3>2, <3>3 DEF ChildrenHeld
  <2> QED BY <2>4 DEF ChildrenHeld
<1>8. Closing'
  BY <1>1, <1>2 DEF Closing, Unused, Runs, Closed, Ending, Working, Waiting, Files, Stays,
                    EntryMonotone
<1> QED BY <1>1, <1>2, <1>3, <1>4, <1>5, <1>6, <1>7, <1>8

LEMMA AskKeeps ==
  ASSUME ReviewInv, Stays, NEW k \in Controller, NEW c \in Call, Ask(k, c)
  PROVE  ReviewInv'
<1> USE Names DEF ReviewInv, ReviewTypeOK, Ask, Turn, vars, own, disk
<1>1. LedgerInv' /\ TypeOK'
  BY DEF Stays, LedgerInv
<1>2. ReviewTypeOK'
  BY <1>1 DEF ReviewTypeOK, Files, Call, Working, Waiting, Ending, InFlight, Done
<1>3. OneRun'
  BY <1>1, <1>2 DEF OneRun, Runs, Ending, Waiting, Working, Stays, EntryMonotone
<1>4. JudgeMoved'
  BY MovedStays DEF vars
<1>5. PlacesEarned'
  BY <1>1, <1>2 DEF PlacesEarned, Moved, Unused, Transferred, Files, Stays, EntryMonotone
<1>6. RecordsTrue'
  BY <1>1, <1>2 DEF RecordsTrue, Unused, Transferred, Moved, PlacesEarned, Files, Stays,
                    EntryMonotone
<1>7. ChildrenHeld'
  BY <1>1, <1>2 DEF ChildrenHeld, InFlight, Done, Early, Waiting, Working, Ending, Awaited, Call,
                    Stays, EntryMonotone
<1>8. Closing'
  BY <1>1, <1>2 DEF Closing, Unused, Runs, Closed, Ending, Working, Waiting, Files, Stays,
                    EntryMonotone
<1> QED BY <1>1, <1>2, <1>3, <1>4, <1>5, <1>6, <1>7, <1>8

(* Enough critics were paid for, and none is on hold.                       *)
Quorum == /\ \A c \in Critic : status[c] \notin {"absent", "held"}
          /\ Cardinality({c \in Critic : status[c] = "settled"}) >= MinCritics

(* What a controller knows of its critics is what the judge's move needs.   *)
LEMMA EvidenceIsQuorum ==
  ASSUME LedgerInv, NEW k, CriticEvidence(k)
  PROVE  Quorum
<1> DEFINE got == {c \in Critic : child[k][c] = "received"}
           paid == {c \in Critic : status[c] = "settled"}
<1>1. got \subseteq paid
  BY DEF CriticEvidence
<1>2. IsFiniteSet(got) /\ IsFiniteSet(paid)
  BY CriticsFinite, FS_Subset
<1>3. Cardinality(got) <= Cardinality(paid)
  BY <1>1, <1>2, FS_Subset
<1>4. Cardinality(got) \in Nat /\ Cardinality(paid) \in Nat /\ MinCritics \in Nat
  BY <1>2, CriticsFinite, FS_CardinalityType, ReviewAssumption
<1>5. Cardinality(paid) >= MinCritics
  BY <1>3, <1>4 DEF CriticEvidence
<1> QED BY <1>5 DEF CriticEvidence, Quorum

-----------------------------------------------------------------------------
(* What the ledger's calls do to the rows of a review.                      *)
LEMMA BatchRows ==
  ASSUME ReviewTypeOK, NEW batch \in Batches, ReserveMany(batch, NoLimit)
  PROVE  /\ \A e \in Inserted(batch) : status[e] = "absent" /\ status'[e] = "held"
         /\ \A e \in EntryId \ Inserted(batch) : status'[e] = status[e] /\ charged'[e] = charged[e]
BY InsertedRows DEF ReviewTypeOK, TypeOK, ReserveMany, Admissible, Fresh, AdmissionLimits, Inserted

LEMMA TransferRows ==
  ASSUME ReviewTypeOK, TransferHeld(Entry(Allowance), Entry(Judge))
  PROVE  /\ status[Judge] = "absent" /\ status[Allowance] = "held" /\ status'[Judge] = "held"
         /\ status'[Allowance] = "settled" /\ charged'[Allowance] = 0
         /\ \A e \in EntryId \ {Allowance,
              Judge} : status'[e] = status[e] /\ charged'[e] = charged[e]
BY Names DEF ReviewTypeOK, TypeOK, TransferHeld, ExactRow, Entry

LEMMA RetiredRows ==
  ASSUME ReviewTypeOK, RetireUnused(Entry(Allowance))
  PROVE  /\ status[Allowance] = "held" /\ status'[Allowance] = "settled" /\ charged'[Allowance] = 0
         /\ \A e \in EntryId \ {Allowance} : status'[e] = status[e] /\ charged'[e] = charged[e]
BY Names DEF ReviewTypeOK, TypeOK, RetireUnused, SetOutcome, ExactRow, Entry

LEMMA SettledRows ==
  ASSUME ReviewTypeOK, NEW c \in EntryId, NEW st, NEW amount, Settle(c, c, st, amount)
  PROVE  /\ status[c] = "held"
         /\ \A e \in EntryId \ {c} : status'[e] = status[e] /\ charged'[e] = charged[e]
BY DEF ReviewTypeOK, TypeOK, Settle, SetOutcome

(* A call that is cancelled before it began leaves nothing.                 *)
LEMMA DropKeeps ==
  ASSUME ReviewInv, Stays, NEW k \in Controller, NEW c \in Call, pc[k] \in Waiting,
       child[k][c] = "issued", UNCHANGED <<vars, own, disk>>, Turn(k, c, "lost")
  PROVE  ReviewInv'
<1> USE Names DEF ReviewInv, ReviewTypeOK, Turn, vars, own, disk
<1>1. LedgerInv' /\ TypeOK'
  BY DEF Stays, LedgerInv
<1>2. ReviewTypeOK'
  BY <1>1 DEF ReviewTypeOK, Files, Call, Working, Waiting, Ending, InFlight, Done
<1>3. OneRun'
  BY <1>1, <1>2 DEF OneRun, Runs, Ending, Waiting, Working, Stays, EntryMonotone
<1>4. JudgeMoved'
  BY MovedStays DEF vars
<1>5. PlacesEarned'
  BY <1>1, <1>2 DEF PlacesEarned, Moved, Unused, Transferred, Files, Stays, EntryMonotone
<1>6. RecordsTrue'
  BY <1>1, <1>2 DEF RecordsTrue, Unused, Transferred, Moved, PlacesEarned, Files, Stays,
                    EntryMonotone
<1>7. ChildrenHeld'
  BY <1>1, <1>2 DEF ChildrenHeld, InFlight, Done, Early, Waiting, Working, Ending, Awaited, Call,
                    Stays, EntryMonotone
<1>8. Closing'
  BY <1>1, <1>2 DEF Closing, Unused, Runs, Closed, Ending, Working, Waiting, Files, Stays,
                    EntryMonotone
<1> QED BY <1>1, <1>2, <1>3, <1>4, <1>5, <1>6, <1>7, <1>8

LEMMA ReserveKeeps ==
  ASSUME ReviewInv, Stays, NEW k \in Controller, Reserve(k)
  PROVE  ReviewInv'
<1> USE Names DEF ReviewInv, ReviewTypeOK, Reserve, Goto, disk
<1>1. LedgerInv' /\ TypeOK'
  BY DEF Stays, LedgerInv
<1>2. /\ \A e \in Critic \cup {Allowance} : status[e] = "absent" /\ status'[e] = "held"
      /\ status'[Judge] = status[Judge] /\ charged'[Judge] = charged[Judge]
  BY BatchRows, Entries
<1>3. ReviewTypeOK'
  BY <1>1 DEF ReviewTypeOK, Files, Call, Working, Waiting, Ending, InFlight, Done
<1>4. OneRun'
  BY <1>1, <1>2, <1>3 DEF OneRun, Runs, Ending, Waiting, Working, Stays, EntryMonotone
<1>5. JudgeMoved'
  BY <1>1, <1>2, <1>3 DEF JudgeMoved, Stays, EntryMonotone
<1>6. PlacesEarned'
  BY <1>1, <1>2, <1>3 DEF PlacesEarned, Moved, Unused, Transferred, Files, Stays, EntryMonotone
<1>7. RecordsTrue'
  BY <1>1, <1>2, <1>3 DEF RecordsTrue, Unused, Transferred, Moved, PlacesEarned, Files, Stays,
                          EntryMonotone
<1>8. ChildrenHeld'
  BY <1>1, <1>2, <1>3 DEF ChildrenHeld, InFlight, Done, Early, Waiting, Working, Ending, Awaited,
                          Call, Stays, EntryMonotone
<1>9. Closing'
  BY <1>1, <1>2, <1>3 DEF Closing, Unused, Runs, Closed, Ending, Working, Waiting, Files, Stays,
                          EntryMonotone
<1> QED BY <1>1, <1>2, <1>3, <1>4, <1>5, <1>6, <1>7, <1>8, <1>9

LEMMA MoveKeeps ==
  ASSUME ReviewInv, Stays, NEW k \in Controller, Move(k)
  PROVE  ReviewInv'
<1> USE Names DEF ReviewInv, ReviewTypeOK, Move, Goto, disk
<1>1. LedgerInv' /\ TypeOK'
  BY DEF Stays, LedgerInv
<1>2. /\ status[Judge] = "absent" /\ status[Allowance] = "held" /\ status'[Judge] = "held"
      /\ status'[Allowance] = "settled" /\ charged'[Allowance] = 0
      /\ \A e \in Critic : status'[e] = status[e]
  BY TransferRows
<1>3. ReviewTypeOK'
  BY <1>1 DEF ReviewTypeOK, Files, Call, Working, Waiting, Ending, InFlight, Done
<1>4. OneRun'
  BY <1>1, <1>2, <1>3 DEF OneRun, Runs, Ending, Waiting, Working, Stays, EntryMonotone
<1>5. JudgeMoved'
  <2>1. Quorum
    BY EvidenceIsQuorum DEF PlacesEarned
  <2>2. {e \in Critic : status'[e] = "settled"} = {e \in Critic : status[e] = "settled"}
    BY <1>2
  <2>3. JudgeAfterCritics'
    BY <1>2, <2>1, <2>2 DEF Quorum, JudgeAfterCritics
  <2> QED BY <1>2, <2>3 DEF JudgeMoved
<1>6. PlacesEarned'
  BY <1>1, <1>2, <1>3 DEF PlacesEarned, Moved, Unused, Transferred, Files, Stays, EntryMonotone
<1>7. RecordsTrue'
  BY <1>1, <1>2, <1>3 DEF RecordsTrue, Unused, Transferred, Moved, PlacesEarned, Files, Stays,
                          EntryMonotone
<1>8. ChildrenHeld'
  BY <1>1, <1>2, <1>3 DEF ChildrenHeld, InFlight, Done, Early, Waiting, Working, Ending, Awaited,
                          Call, Stays, EntryMonotone
<1>9. Closing'
  BY <1>1, <1>2, <1>3 DEF Closing, Unused, Runs, Closed, Ending, Working, Waiting, Files, Stays,
                          EntryMonotone
<1> QED BY <1>1, <1>2, <1>3, <1>4, <1>5, <1>6, <1>7, <1>8, <1>9

LEMMA RetireKeeps ==
  ASSUME ReviewInv, Stays, NEW k \in Controller, Retire(k)
  PROVE  ReviewInv'
<1> USE Names DEF ReviewInv, ReviewTypeOK, Retire, Goto, disk
<1>1. LedgerInv' /\ TypeOK'
  BY DEF Stays, LedgerInv
<1>2. /\ status'[Judge] = status[Judge] /\ charged'[Judge] = charged[Judge]
      /\ \A e \in Critic : status'[e] = status[e]
      /\ \/ status[Allowance] = "held" /\ status'[Allowance] = "settled" /\ FormalCampaign
         \/ status' = status /\ charged' = charged /\ ~retired'[k]
  BY RetiredRows DEF vars
<1>3. ReviewTypeOK'
  BY <1>1 DEF ReviewTypeOK, Files, Call, Working, Waiting, Ending, InFlight, Done
<1>4. OneRun'
  BY <1>1, <1>2, <1>3 DEF OneRun, Runs, Ending, Waiting, Working, Stays, EntryMonotone
<1>5. JudgeMoved'
  BY <1>2, MovedStays
<1>6. PlacesEarned'
  <2>1. status[Allowance] = "held" => status[Judge] = "absent"
    BY DEF JudgeMoved
  <2>2. \A j \in Controller \ {k} : retired'[j] = retired[j] /\ pc'[j] = pc[j]
    OBVIOUS
  <2>3. pc'[k] = "terminal" /\ (retired'[k] => FormalCampaign /\ Unused')
    BY <1>2, <2>1 DEF Unused
  <2>4. \A j \in Controller \ {k} : retired[j] => Unused'
    BY <1>2 DEF PlacesEarned, Unused
  <2> QED BY <1>2, <2>2, <2>3, <2>4 DEF PlacesEarned, Moved, Transferred, Stays, EntryMonotone
<1>7. RecordsTrue'
  BY <1>1, <1>2, <1>3 DEF RecordsTrue, Unused, Transferred, Moved, PlacesEarned, Files, Stays,
                          EntryMonotone
<1>8. ChildrenHeld'
  BY <1>1, <1>2, <1>3 DEF ChildrenHeld, InFlight, Done, Early, Waiting, Working, Ending, Awaited,
                          Call, Stays, EntryMonotone
<1>9. Closing'
  <2>1. \A j \in Controller : Runs(j)' => j = k /\ pc'[j] = "terminal"
    BY <1>4 DEF OneRun, Runs
  <2>2. status'[Allowance] # "absent"
    BY DEF OneRun, Runs, Stays, EntryMonotone
  <2> QED BY <2>1, <2>2 DEF Closing, Closed, Ending
<1> QED BY <1>1, <1>2, <1>3, <1>4, <1>5, <1>6, <1>7, <1>8, <1>9

LEMMA ResolveKeeps ==
  ASSUME ReviewInv, Stays, NEW k \in Controller, NEW c \in Call, NEW st, NEW amount,
       pc[k] \in Waiting, child[k][c] \in InFlight, Resolve(k, c, st, amount)
  PROVE  ReviewInv'
<1> USE Names DEF ReviewInv, ReviewTypeOK, Resolve, Turn, own, disk
<1>1. LedgerInv' /\ TypeOK'
  BY DEF Stays, LedgerInv
<1>2. /\ \A e \in EntryId \ {c} : status'[e] = status[e] /\ charged'[e] = charged[e]
      /\ status[c] = "absent" => status'[c] = "absent"
      /\ Allowance # c
  BY SettledRows DEF vars, Call
<1>3. ReviewTypeOK'
  <2>1. PICK s \in {"lost", "failed", "received"} : child' = [child EXCEPT ![k][c] = s]
    OBVIOUS
  <2>2. child' \in [Controller -> [Call -> {"none", "issued"} \cup InFlight \cup Done]]
    BY <2>1, CallTyped
  <2> QED BY <1>1, <2>2 DEF ReviewTypeOK
<1>4. OneRun'
  BY <1>1, <1>2, <1>3 DEF OneRun, Runs, Ending, Waiting, Working, Stays, EntryMonotone
<1>5. JudgeMoved'
  BY <1>2, MovedStays
<1>6. PlacesEarned'
  <2> SUFFICES ASSUME NEW j \in Controller PROVE PlacesEarned!(j)'
    BY DEF PlacesEarned
  <2>1. Unused => Unused'
    BY <1>2 DEF Unused, Stays, EntryMonotone
  <2> QED BY <1>2, <2>1 DEF PlacesEarned, Moved, Transferred, Stays, EntryMonotone
<1>7. RecordsTrue'
  BY <1>1, <1>2, <1>3 DEF RecordsTrue, Unused, Transferred, Moved, PlacesEarned, Files, Stays,
                          EntryMonotone
<1>8. ChildrenHeld'
  <2>1. PICK s \in {"lost", "failed", "received"} : child' = [child EXCEPT ![k][c] = s]
    OBVIOUS
  <2>2. child'[k][c] \in Done
    BY <2>1 DEF Done
  <2>3. \A j \in Controller, d \in Call : child'[j][d] # child[j][d] => j = k /\ d = c
    BY <2>1, CallChanged
  <2>4. child[k][Judge] = "none" => child'[k][Judge] = "none"
    <3>1. Judge \in Call
      BY DEF Call
    <3>2. child[k][Judge] = "none" => Judge # c
      BY DEF InFlight
    <3> QED BY <2>3, <3>1, <3>2
  <2>5. ASSUME NEW j \in Controller PROVE ChildrenHeld!(j)'
    <3>1. \A d \in Call : child'[j][d] \in InFlight => pc'[j] \in Waiting /\ d \in Awaited(j)'
      BY <2>3, <2>2 DEF ChildrenHeld, Awaited, InFlight, Done
    <3>2. child[j][Judge] = "none" => child'[j][Judge] = "none"
      BY <2>3, <2>4 DEF Call
    <3>3. \A d \in Critic : child[j][d] \in Done => child'[j][d] \in Done
      BY DEF Stays, Call
    <3> HIDE DEF InFlight, Done, Waiting, Call
    <3> QED BY <3>1, <3>2, <3>3 DEF ChildrenHeld
  <2> QED BY <2>5 DEF ChildrenHeld
<1>9. Closing'
  BY <1>1, <1>2, <1>3 DEF Closing, Unused, Runs, Closed, Ending, Working, Waiting, Files, Stays,
                          EntryMonotone
<1> QED BY <1>1, <1>2, <1>3, <1>4, <1>5, <1>6, <1>7, <1>8, <1>9

LEMMA OtherRunKeeps ==
  ASSUME ReviewInv, Stays, OtherRun, TRUE
  PROVE  ReviewInv'
<1> USE Names DEF ReviewInv, ReviewTypeOK, OtherRun, own, disk
<1>1. LedgerInv' /\ TypeOK'
  BY DEF Stays, LedgerInv
<1>2. \A e \in EntryId \ {Other} : status'[e] = status[e] /\ charged'[e] = charged[e]
  BY BatchRows, SettledRows, Entries
<1>3. ReviewTypeOK'
  BY <1>1 DEF ReviewTypeOK, Files, Call, Working, Waiting, Ending, InFlight, Done
<1>4. OneRun'
  BY <1>1, <1>2, <1>3 DEF OneRun, Runs, Ending, Waiting, Working, Stays, EntryMonotone
<1>5. JudgeMoved'
  BY <1>2, MovedStays
<1>6. PlacesEarned'
  BY <1>1, <1>2, <1>3 DEF PlacesEarned, Moved, Unused, Transferred, Files, Stays, EntryMonotone
<1>7. RecordsTrue'
  BY <1>1, <1>2, <1>3 DEF RecordsTrue, Unused, Transferred, Moved, PlacesEarned, Files, Stays,
                          EntryMonotone
<1>8. ChildrenHeld'
  BY <1>1, <1>2, <1>3 DEF ChildrenHeld, InFlight, Done, Early, Waiting, Working, Ending, Awaited,
                          Call, Stays, EntryMonotone
<1>9. Closing'
  BY <1>1, <1>2, <1>3 DEF Closing, Unused, Runs, Closed, Ending, Working, Waiting, Files, Stays,
                          EntryMonotone
<1> QED BY <1>1, <1>2, <1>3, <1>4, <1>5, <1>6, <1>7, <1>8, <1>9

-----------------------------------------------------------------------------
(* Every step keeps the invariant.                                          *)
LEMMA AnswerKeeps ==
  ASSUME ReviewInv, Stays, NEW k \in Controller, NEW c \in Call, Answer(k, c)
  PROVE  ReviewInv'
<1>1. child[k][c] \in InFlight /\ pc[k] \in Waiting
  BY DEF ReviewInv, ChildrenHeld, Answer, InFlight
<1>2. PICK st, amount : Resolve(k, c, st, amount)
  BY DEF Answer
<1> QED BY <1>1, <1>2, ResolveKeeps

LEMMA CancelledKeeps ==
  ASSUME ReviewInv, Stays, NEW k \in Controller, NEW c \in Call, Cancelled(k, c)
  PROVE  ReviewInv'
<1>1. CASE child[k][c] = "issued" /\ Turn(k, c, "lost") /\ UNCHANGED <<vars, own, disk>>
  BY <1>1, DropKeeps DEF Cancelled
<1>2. CASE child[k][c] \in InFlight /\ Resolve(k, c, "uncertain", Price[c])
  BY <1>2, ResolveKeeps DEF Cancelled
<1> QED BY <1>1, <1>2 DEF Cancelled

LEMMA StutterKeeps == ReviewInv /\ UNCHANGED reviewVars => ReviewInv'
<1> SUFFICES ASSUME ReviewInv, UNCHANGED reviewVars PROVE ReviewInv'
  OBVIOUS
<1>1. Stays
  BY FinalStays
<1> USE DEF ReviewInv, reviewVars, own, disk, vars
<1>2. LedgerInv' /\ TypeOK'
  BY <1>1 DEF Stays, LedgerInv
<1>3. ReviewTypeOK'
  BY <1>2 DEF ReviewTypeOK
<1>4. OneRun' /\ Closing' /\ ChildrenHeld'
  BY DEF OneRun, Closing, ChildrenHeld, Runs, Awaited, Unused
<1>5. JudgeMoved' /\ PlacesEarned' /\ RecordsTrue'
  BY DEF JudgeMoved, PlacesEarned, RecordsTrue, Unused, Transferred, CriticEvidence,
         JudgeAfterCritics
<1> QED BY <1>2, <1>3, <1>4, <1>5

LEMMA NextKeeps == ReviewInv /\ [ReviewNext]_reviewVars => ReviewInv'
<1> SUFFICES ASSUME ReviewInv, [ReviewNext]_reviewVars PROVE ReviewInv'
  OBVIOUS
<1>1. Stays
  BY FinalStays
<1>2. ASSUME NEW k \in Controller,
             \/ RunCritics(k) \/ Reserve(k) \/ Mkdir(k) \/ KeepEnvelope(k) \/ KeepStart(k)
             \/ IssueCritic(k) \/ Stop(k) \/ Collect(k) \/ Assess(k) \/ KeepPreview(k)
             \/ CancelIdle(k) \/ Approve(k)
      PROVE  ReviewInv'
  BY <1>1, <1>2, RunCriticsKeeps, ReserveKeeps, MkdirKeeps, KeepEnvelopeKeeps, KeepStartKeeps,
     IssueCriticKeeps, StopKeeps, CollectKeeps, AssessKeeps, KeepPreviewKeeps, CancelIdleKeeps,
     ApproveKeeps
<1>3. ASSUME NEW k \in Controller,
             \/ Verify(k) \/ Move(k) \/ KeepTransfer(k)
             \/ IssueJudge(k) \/ KeepAttest(k) \/ KeepResult(k) \/ Retire(k) \/ KeepTerminal(k)
             \/ Raises(k) \/ WriteRaises(k) \/ TerminalRaises(k) \/ Crash(k)
      PROVE  ReviewInv'
  BY <1>1, <1>3, VerifyKeeps, MoveKeeps, KeepTransferKeeps, IssueJudgeKeeps, KeepAttestKeeps,
     KeepResultKeeps, RetireKeeps, KeepTerminalKeeps, RaisesKeeps, WriteRaisesKeeps,
     TerminalRaisesKeeps, CrashKeeps
<1>4. ASSUME NEW k \in Controller, NEW c \in Call,
             Begin(k, c) \/ Ask(k, c) \/ Answer(k, c) \/ Cancelled(k, c)
      PROVE  ReviewInv'
  BY <1>1, <1>4, BeginKeeps, AskKeeps, AnswerKeeps, CancelledKeeps
<1>5. OtherRun => ReviewInv'
  BY <1>1, OtherRunKeeps
<1> QED BY <1>2, <1>3, <1>4, <1>5, StutterKeeps DEF ReviewNext

(* What a review is in every state: one run, whose place says what the      *)
(* ledger, its files and its calls have come to.                            *)
THEOREM ReviewInvariant == ReviewSpec => []ReviewInv
<1> QED BY InitHolds, NextKeeps, PTL DEF ReviewSpec

(* The stages of review_controller.py keep their order: the judge's request *)
(* is on the ledger only after every critic is off its hold and a quorum of *)
(* them was paid for, and only the run that owns the allowance gives it     *)
(* back, at its end.                                                        *)
THEOREM StagesHold == ReviewSpec => []StagesInOrder
<1>1. ReviewInv => StagesInOrder
  <2> SUFFICES ASSUME ReviewInv PROVE StagesInOrder
    OBVIOUS
  <2>1. JudgeAfterCritics
    BY DEF ReviewInv, JudgeMoved, JudgeAfterCritics
  <2>2. ReleasedAtTheEnd
    BY DEF ReviewInv, Closing, ReleasedAtTheEnd, Unused, Runs, Closed
  <2> QED BY <2>1, <2>2 DEF StagesInOrder
<1> QED BY <1>1, ReviewInvariant, PTL

(* The inspection of a stopped run (review_evidence.py) accepts whatever    *)
(* records this code left, and an inventory it calls complete carries every *)
(* charge of the run.                                                       *)
THEOREM InspectionHolds == ReviewSpec => []InspectionTrue
<1>1. ReviewInv => InspectionTrue
  <2> SUFFICES ASSUME ReviewInv PROVE InspectionTrue
    OBVIOUS
  <2>1. Transferred => files["preview"] = "whole" /\ Retired
    BY DEF ReviewInv, RecordsTrue, JudgeMoved, Retired
  <2>2. InspectionAccepts
    BY <2>1 DEF ReviewInv, RecordsTrue, InspectionAccepts, Accepted
  <2>3. ASSUME Complete PROVE Total(Identified, charged) = Total(RunEntries, charged)
    <3>1. RunEntries = Critic \cup {Allowance, Judge}
      BY ReviewAssumption DEF RunEntries
    <3>2. CASE Transferred
      BY <3>1, <3>2 DEF Identified
    <3>3. CASE ~Transferred
      <4>1. status[Judge] = "absent"
        BY <2>3, <3>3 DEF ReviewInv, Complete, JudgeMoved, Retired, RecordsTrue, Unused
      <4>2. charged[Judge] = 0 /\ 0 \in Amount
        BY <4>1, Names, MaxAmountAssumption DEF ReviewInv, LedgerInv, AbsentChargesNothing, Amount
      <4>3. IsFiniteSet(RunEntries) /\ Judge \in RunEntries /\ RunEntries \ {Judge} = Identified
        BY <3>1, <3>3, Names, LedgerAssumption, FS_Subset DEF Identified, RunEntries
      <4>4. /\ Total(RunEntries, charged) = Total(RunEntries \ {Judge}, charged) + charged[Judge]
            /\ Total(RunEntries \ {Judge}, charged) \in Nat
        BY <4>2, <4>3, TotalSplit
      <4> QED BY <4>2, <4>3, <4>4
    <3> QED BY <3>2, <3>3
  <2> QED BY <2>2, <2>3 DEF InspectionTrue, InventoryComplete
<1> QED BY <1>1, ReviewInvariant, PTL

(* Once the terminal record exists, whole or torn, no step of any           *)
(* controller, critic or judge charges, settles or moves an entry of the    *)
(* run any more (review_controller.py _terminal).                           *)
THEOREM TerminalHolds == ReviewSpec => TerminalIsLast
<1> DEFINE Quiet == \A e \in RunEntries : status'[e] = status[e] /\ charged'[e] = charged[e]
<1>1. ASSUME ReviewInv, ReviewNext, files["terminal"] # "absent" PROVE Quiet
  <2> USE DEF ReviewInv
  <2>1. status[Allowance] # "absent"
        /\ \A k \in Controller : Runs(k) => /\ pc[k] \in Closed
                                            /\ pc[k] = "retire" => status[Allowance] = "settled"
    BY <1>1 DEF Closing
  <2>2. ASSUME NEW k \in Controller PROVE ~Reserve(k) /\ ~Move(k)
    <3>1. ~Reserve(k)
      BY <1>1, <2>1, BatchRows, Entries DEF Reserve
    <3>2. ~Move(k)
      BY <2>1 DEF Move, Runs, Closed, Ending
    <3> QED BY <3>1, <3>2
  <2>3. ASSUME NEW k \in Controller, Retire(k) PROVE UNCHANGED vars
    BY <1>1, <2>1, <2>3, RetiredRows DEF Retire, Runs
  <2>4. ASSUME NEW k \in Controller, NEW c \in Call, Answer(k, c) \/ Cancelled(k,
       c) PROVE UNCHANGED vars
    <3>1. child[k][c] \notin InFlight
      BY <1>1, <2>1 DEF ChildrenHeld, Runs, Closed, Ending, Waiting
    <3> QED BY <2>4, <3>1 DEF Answer, Cancelled, InFlight
  <2>5. OtherRun => Quiet
    BY <1>1, BatchRows, SettledRows, Entries, Names DEF OtherRun, RunEntries
  <2>6. ASSUME NEW k \in Controller,
             \/ RunCritics(k) \/ Mkdir(k) \/ KeepEnvelope(k) \/ KeepStart(k)
             \/ IssueCritic(k) \/ Stop(k) \/ Collect(k) \/ Assess(k) \/ KeepPreview(k)
             \/ CancelIdle(k) \/ Approve(k) \/ Verify(k) \/ KeepTransfer(k)
             \/ IssueJudge(k) \/ KeepAttest(k) \/ KeepResult(k) \/ KeepTerminal(k)
             \/ Raises(k) \/ WriteRaises(k) \/ TerminalRaises(k) \/ Crash(k)
        PROVE  UNCHANGED vars
    BY <2>6 DEF RunCritics, Mkdir, KeepEnvelope, KeepStart, Record, IssueCritic, Stop, Collect,
                Assess,
              KeepPreview, CancelIdle, Approve, Verify, KeepTransfer, IssueJudge, KeepAttest,
              KeepResult, KeepTerminal, Raises, WriteRaises, TerminalRaises, Crash
  <2>7. ASSUME NEW k \in Controller, NEW c \in Call, Begin(k, c) \/ Ask(k, c) PROVE UNCHANGED vars
    BY <2>7 DEF Begin, Ask
  <2>8. UNCHANGED vars => Quiet
    BY DEF vars
  <2> QED BY <1>1, <2>2, <2>3, <2>4, <2>5, <2>6, <2>7, <2>8 DEF ReviewNext
<1>2. ReviewInv /\ [ReviewNext]_reviewVars => [files["terminal"] # "absent" => Quiet]_reviewVars
  BY <1>1
<1> QED BY <1>2, ReviewInvariant, PTL DEF ReviewSpec, TerminalIsLast
=============================================================================
