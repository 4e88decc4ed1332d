-------------------------- MODULE ReviewController --------------------------
(***************************************************************************)
(* One approved review, run/review_controller.py over run/review_broker.py: *)
(* the critics and an allowance for the judge are reserved in one batch,    *)
(* the critics run as tasks, a human approves the judge, the allowance      *)
(* moves to the judge's exact request, the result and a terminal record are *)
(* retained.  A controller is one object in one process; two controllers    *)
(* are the same approved envelope run twice.  All share the ledger with an  *)
(* unrelated run.                                                           *)
(*                                                                         *)
(* pc is the place in run_critics, run_judge or _terminal; a pc that names  *)
(* a file is about to private_write it.  A call is known by its ledger      *)
(* entry; child is the task of a call (SpendTransport.tla opens it up).     *)
(***************************************************************************)
EXTENDS SpendLedger

CONSTANTS Controller, Critic,
          Allowance, Judge,       \* the judge's spend-only and exact entries
          Other,                  \* the entry of an unrelated run
          Batch,                  \* the envelope's entries, critics first
          Price,                  \* what a call reserves
          MinCritics,             \* policy.min_critics
          FormalCampaign,         \* schema 2: the allowance may be retired
          NoTerminal
ASSUME ReviewAssumption ==
  /\ EntryId = Critic \cup {Allowance, Judge, Other} /\ Digest = EntryId
  /\ Allowance # Judge /\ Other \notin {Allowance, Judge}
  /\ Critic \cap {Allowance, Judge, Other} = {}
  /\ Price \in [EntryId -> Amount \ {0}] /\ Price[Judge] = Price[Allowance]
  /\ FormalCampaign \in BOOLEAN /\ MinCritics \in 1..Cardinality(Critic)

VARIABLES pc, why,       \* the place of a controller; how its run is ending
          owns,          \* _owns_run
          retired,       \* the local of _terminal
          child,         \* the task of each call
          directories,   \* the run's directory (Allowance) and those of calls
          files,         \* the run's records
          terminal       \* what controller-terminal.json says

own == <<pc, why, owns, retired>>
disk == <<directories, files, terminal>>
reviewVars == <<vars, own, child, disk>>

Files == {"envelope", "start", "preview", "transfer", "attest", "result", "terminal"}
Waiting == {"critics", "judging"}
Working == {"reserve", "mkdir", "envelope", "start", "issue", "evidence", "preview",
            "verify", "move", "transfer", "issue_judge", "attest", "result"}
Ending == {"retire", "terminal"}
Call == Critic \cup {Judge}
InFlight == {"counting", "sent"}
Done == {"lost", "failed", "received"}    \* by what the call left on disk

ReviewTypeOK ==
  /\ TypeOK
  /\ pc \in [Controller -> {"prepared", "awaiting", "ended"} \cup Waiting \cup Working \cup Ending]
  /\ why \in [Controller -> {"none", "finished", "failed", "cancelled"}]
  /\ owns \in [Controller -> BOOLEAN] /\ retired \in [Controller -> BOOLEAN]
  /\ child \in [Controller -> [Call -> {"none", "issued"} \cup InFlight \cup Done]]
  /\ directories \subseteq Call \cup {Allowance}
  /\ files \in [Files -> {"absent", "torn", "whole"}]
  /\ terminal \in [phase : {"finished", "failed", "cancelled"}, retired : BOOLEAN] \cup {NoTerminal}

ReviewInit == /\ Init
              /\ pc = [k \in Controller |-> "prepared"]
              /\ why = [k \in Controller |-> "none"]
              /\ owns = [k \in Controller |-> FALSE]
              /\ retired = [k \in Controller |-> FALSE]
              /\ child = [k \in Controller |-> [c \in Call |-> "none"]]
              /\ directories = {}
              /\ files = [f \in Files |-> "absent"]
              /\ terminal = NoTerminal

-----------------------------------------------------------------------------
Entry(c) == [id |-> c, hash |-> c, amount |-> Price[c]]

(* The approved batch: the critics' calls and the judge's allowance.        *)
ASSUME BatchAssumption ==
  /\ Batch \in Seq(LedgerEntry) /\ Len(Batch) <= MaxBatch
  /\ {Batch[i] : i \in DOMAIN Batch} = {Entry(e) : e \in Critic \cup {Allowance}}

Held(c) == ~Blocked /\ ExactRow(Entry(c), "held")
Goto(k, l) == pc' = [pc EXCEPT ![k] = l]

(* The "except BaseException" of both coroutines: _terminal, which does     *)
(* nothing for a controller that does not own the run.                      *)
EndAnyway(k, reason) == /\ why' = [why EXCEPT ![k] = reason]     \* mutant: _owns_run not asked
                        /\ Goto(k, "retire")
                        /\ UNCHANGED <<owns, retired>>
End(k, reason) == /\ why' = [why EXCEPT ![k] = reason]
                  /\ Goto(k, IF owns[k] THEN "retire" ELSE "ended")
                  /\ UNCHANGED <<owns, retired>>

(* Any step may raise: expiry, the deadline, a failed check, a busy ledger. *)
Raises(k) == /\ pc[k] \in Working /\ End(k, "failed")
             /\ UNCHANGED <<vars, child, disk>>

(* private_write: O_EXCL, then write and fsync.                             *)
Write(f) == files[f] = "absent" /\ files' = [files EXCEPT ![f] = "whole"]
WriteRaises(k) ==
  /\ pc[k] \in Working \cap Files /\ files[pc[k]] = "absent"
  /\ \E left \in {"torn", "whole"} : files' = [files EXCEPT ![pc[k]] = left]
  /\ End(k, "failed")
  /\ UNCHANGED <<vars, child, directories, terminal>>
Record(k, f, next) == /\ pc[k] = f /\ Write(f) /\ Goto(k, next)
                      /\ UNCHANGED <<vars, why, retired, child, directories, terminal>>

-----------------------------------------------------------------------------
(* run_critics.                                                             *)
RunCritics(k) == /\ pc[k] = "prepared" /\ Goto(k, "reserve")
                 /\ UNCHANGED <<vars, why, owns, retired, child, disk>>

Reserve(k) == /\ pc[k] = "reserve" /\ ReserveMany(Batch, NoLimit) /\ Goto(k, "mkdir")
              /\ UNCHANGED <<why, owns, retired, child, disk>>

Mkdir(k) == /\ pc[k] = "mkdir" /\ Allowance \notin directories
            /\ directories' = directories \cup {Allowance} /\ Goto(k, "envelope")
            /\ UNCHANGED <<vars, why, owns, retired, child, files, terminal>>

KeepEnvelope(k) == Record(k, "envelope", "start") /\ owns' = [owns EXCEPT ![k] = TRUE]
KeepStart(k) == Record(k, "start", "issue") /\ UNCHANGED owns

(* issue_critic: both rows are read-guarded while the directory is made.    *)
Issue(k, c) == /\ ExactRow(Entry(c), "held") /\ c \notin directories
               /\ directories' = directories \cup {c}
               /\ child' = [child EXCEPT ![k][c] = "issued"]
IssueCritic(k) ==
  /\ pc[k] = "issue" /\ files["envelope"] = "whole"
  /\ ExactRow(Entry(Allowance), "held")
  /\ \E c \in Critic :
       /\ child[k][c] = "none" /\ Issue(k, c)
       /\ Goto(k, IF \E d \in Critic \ {c} : child[k][d] = "none" THEN "issue" ELSE "critics")
  /\ UNCHANGED <<vars, why, owns, retired, files, terminal>>

(* _complete_all: the tasks are owned until each has ended, also when the   *)
(* deadline or the caller (again and again) cancels.                        *)
Awaited(k) == IF pc[k] = "critics" THEN Critic ELSE {Judge}
Stop(k) == /\ pc[k] \in Waiting /\ why[k] = "none"
           /\ \E r \in {"failed", "cancelled"} : why' = [why EXCEPT ![k] = r]
           /\ UNCHANGED <<vars, pc, owns, retired, child, disk>>
CollectDetached(k) ==                        \* mutant: a cancelled caller leaves at once
  /\ pc[k] \in Waiting
  /\ \/ /\ why[k] = "none" /\ \A c \in Awaited(k) : child[k][c] \in Done
        /\ Goto(k, IF pc[k] = "critics" THEN "evidence" ELSE "result")
        /\ UNCHANGED <<why, owns, retired>>
     \/ why[k] # "none" /\ End(k, why[k])
  /\ UNCHANGED <<vars, child, disk>>
Collect(k) ==
  /\ pc[k] \in Waiting /\ \A c \in Awaited(k) : child[k][c] \in Done
  /\ \/ /\ why[k] = "none" /\ Goto(k, IF pc[k] = "critics" THEN "evidence" ELSE "result")
        /\ UNCHANGED <<why, owns, retired>>
     \/ why[k] # "none" /\ End(k, why[k])
  /\ UNCHANGED <<vars, child, disk>>

(* verify_review_evidence, _check_envelope: every critic is off its hold    *)
(* and has left complete records, enough of them a settled answer.          *)
CriticEvidence(k) ==
  /\ \A c \in Critic : /\ status[c] \notin {"absent", "held"}
                       /\ child[k][c] \in {"failed", "received"}
                       /\ child[k][c] = "received" => status[c] = "settled"
  /\ Cardinality({c \in Critic : child[k][c] = "received"}) >= MinCritics
Assess(k) == /\ pc[k] = "evidence" /\ CriticEvidence(k) /\ Held(Allowance)
             /\ Goto(k, "preview")
             /\ UNCHANGED <<vars, why, owns, retired, child, disk>>
KeepPreview(k) == Record(k, "preview", "awaiting") /\ UNCHANGED owns

CancelIdle(k) == /\ pc[k] \in {"prepared", "awaiting"} /\ End(k, "cancelled")
                 /\ UNCHANGED <<vars, child, disk>>

-----------------------------------------------------------------------------
(* run_judge.                                                               *)
Approve(k) == /\ pc[k] = "awaiting" /\ Goto(k, "verify")
              /\ UNCHANGED <<vars, why, owns, retired, child, disk>>
Verify(k) == /\ pc[k] = "verify" /\ files["start"] = "whole" /\ files["preview"] = "whole"
             /\ CriticEvidence(k) /\ Goto(k, "move")
             /\ UNCHANGED <<vars, why, owns, retired, child, disk>>
Move(k) == /\ pc[k] = "move" /\ TransferHeld(Entry(Allowance), Entry(Judge))
           /\ Goto(k, "transfer")
           /\ UNCHANGED <<why, owns, retired, child, disk>>
KeepTransfer(k) == Record(k, "transfer", "issue_judge") /\ UNCHANGED owns
IssueJudge(k) == /\ pc[k] = "issue_judge" /\ Issue(k, Judge) /\ Goto(k, "attest")
                 /\ UNCHANGED <<vars, why, owns, retired, files, terminal>>
KeepAttest(k) == Record(k, "attest", "judging") /\ UNCHANGED owns

(* retain_review_result, then _terminal("finished").                        *)
KeepResult(k) ==
  /\ pc[k] = "result" /\ CriticEvidence(k)
  /\ child[k][Judge] \in {"failed", "received"} /\ status[Judge] \notin {"absent", "held"}
  /\ child[k][Judge] = "received" => status[Judge] = "settled"
  /\ Write("result") /\ Goto(k, "retire") /\ why' = [why EXCEPT ![k] = "finished"]
  /\ UNCHANGED <<vars, owns, retired, child, directories, terminal>>

-----------------------------------------------------------------------------
(* _terminal: an admitted formal campaign gives back an allowance that was  *)
(* not moved; then the record.  Raising ends the run, except that a failed  *)
(* "finished" is followed by "failed".                                      *)
RetireMarked(k) ==                           \* mutant: marked whatever was retired
  /\ pc[k] = "retire" /\ Goto(k, "terminal")
  /\ retired' = [retired EXCEPT ![k] = FormalCampaign]
  /\ RetireUnused(Entry(Allowance)) \/ (status[Allowance] # "held" /\ UNCHANGED vars)
  /\ UNCHANGED <<why, owns, child, disk>>
Retire(k) ==
  /\ pc[k] = "retire" /\ Goto(k, "terminal")
  /\ \/ FormalCampaign /\ RetireUnused(Entry(Allowance)) /\ retired' = [retired EXCEPT ![k] = TRUE]
     \/ retired' = [retired EXCEPT ![k] = FALSE] /\ UNCHANGED vars   \* not admitted, or moved
  /\ UNCHANGED <<why, owns, child, disk>>

Says(k) == terminal' = [phase |-> why[k], retired |-> retired[k]]
KeepTerminal(k) == /\ pc[k] = "terminal" /\ Write("terminal") /\ Says(k)
                   /\ Goto(k, "ended")
                   /\ UNCHANGED <<vars, why, owns, retired, child, directories>>

TerminalRaises(k) ==
  /\ pc[k] \in Ending
  /\ \/ UNCHANGED disk
     \/ /\ pc[k] = "terminal" /\ files["terminal"] = "absent" /\ UNCHANGED directories
        /\ \/ files' = [files EXCEPT !["terminal"] = "torn"] /\ UNCHANGED terminal
           \/ files' = [files EXCEPT !["terminal"] = "whole"] /\ Says(k)
  /\ IF why[k] = "finished" THEN why' = [why EXCEPT ![k] = "failed"] /\ Goto(k, "retire")
                            ELSE Goto(k, "ended") /\ UNCHANGED why
  /\ UNCHANGED <<vars, owns, retired, child>>

-----------------------------------------------------------------------------
(* The tasks.                                                               *)
Turn(k, c, s) == child' = [child EXCEPT ![k][c] = s]

(* The worker redeems its grant, or dies or is refused before it does.      *)
Begin(k, c) == /\ pc[k] \in Waiting /\ why[k] = "none" /\ child[k][c] = "issued"
               /\ \/ Held(c) /\ Turn(k, c, "counting")
                  \/ Turn(k, c, "lost")
                  \/ ~Held(c) /\ Turn(k, c, "failed")
               /\ UNCHANGED <<vars, own, disk>>

Ask(k, c) == /\ child[k][c] = "counting" /\ Held(c) /\ Turn(k, c, "sent")
             /\ UNCHANGED <<vars, own, disk>>

(* The call resolves its entry and leaves its records, or loses either.     *)
Resolve(k, c, st, amount) ==
  /\ \/ Settle(c, c, st, amount)
     \/ UNCHANGED vars
  /\ \/ st = "settled" /\ status'[c] = "settled" /\ Turn(k, c, "received")
     \/ Turn(k, c, "failed")
     \/ Turn(k, c, "lost")
  /\ UNCHANGED <<own, disk>>
Answer(k, c) == \/ /\ child[k][c] = "counting"
                   /\ \E st \in {"uncertain", "violation"} : Resolve(k, c, st, Price[c])
                \/ /\ child[k][c] = "sent"
                   /\ \/ \E st \in {"uncertain", "violation"} : Resolve(k, c, st, Price[c])
                      \/ \E n \in 0..Price[c] : Resolve(k, c, "settled", n)

(* task.cancel.                                                             *)
CancelledLate(k, c) ==                       \* mutant: a started exchange is not interrupted
  /\ pc[k] \in Waiting /\ why[k] # "none"
  /\ child[k][c] = "issued" /\ Turn(k, c, "lost") /\ UNCHANGED <<vars, own, disk>>
Cancelled(k, c) ==
  /\ pc[k] \in Waiting /\ why[k] # "none"
  /\ \/ child[k][c] = "issued" /\ Turn(k, c, "lost") /\ UNCHANGED <<vars, own, disk>>
     \/ child[k][c] \in InFlight /\ Resolve(k, c, "uncertain", Price[c])

-----------------------------------------------------------------------------
(* The process dies, perhaps in the middle of a file.                       *)
Crash(k) ==
  /\ pc[k] \notin {"prepared", "ended"} /\ Goto(k, "ended")
  /\ child' = [child EXCEPT ![k] = [c \in Call |-> IF @[c] \in InFlight THEN "lost" ELSE @[c]]]
  /\ \/ UNCHANGED <<files, terminal>>
     \/ /\ pc[k] \in Files /\ files[pc[k]] = "absent"
        /\ files' = [files EXCEPT ![pc[k]] = "torn"] /\ UNCHANGED terminal
  /\ UNCHANGED <<vars, why, owns, retired, directories>>

(* An unrelated run takes its share and may block the ledger.               *)
OtherRun == /\ \/ ReserveMany(<<Entry(Other)>>, NoLimit)
               \/ Settle(Other, Other, "violation", Price[Other])
            /\ UNCHANGED <<own, child, disk>>

Step(k) == \/ Reserve(k) \/ Mkdir(k) \/ KeepEnvelope(k) \/ KeepStart(k) \/ IssueCritic(k)
           \/ Assess(k) \/ KeepPreview(k) \/ Verify(k) \/ Move(k) \/ KeepTransfer(k)
           \/ IssueJudge(k) \/ KeepAttest(k) \/ KeepResult(k) \/ Collect(k)
           \/ Retire(k) \/ KeepTerminal(k) \/ Raises(k) \/ WriteRaises(k) \/ TerminalRaises(k)

ReviewNext ==
  \/ \E k \in Controller :
       \/ RunCritics(k) \/ Reserve(k) \/ Mkdir(k) \/ KeepEnvelope(k) \/ KeepStart(k)
       \/ IssueCritic(k) \/ Stop(k) \/ Collect(k) \/ Assess(k) \/ KeepPreview(k)
       \/ CancelIdle(k) \/ Approve(k) \/ Verify(k) \/ Move(k) \/ KeepTransfer(k)
       \/ IssueJudge(k) \/ KeepAttest(k) \/ KeepResult(k) \/ Retire(k) \/ KeepTerminal(k)
       \/ Raises(k) \/ WriteRaises(k) \/ TerminalRaises(k) \/ Crash(k)
  \/ \E k \in Controller, c \in Call :
       Begin(k, c) \/ Ask(k, c) \/ Answer(k, c) \/ Cancelled(k, c)
  \/ OtherRun

(* Synchronous steps are taken, the deadline fires, a cancelled task ends;  *)
(* nothing is assumed of providers, workers and the human.                  *)
ReviewFairness ==
  \A k \in Controller : /\ WF_reviewVars(Step(k)) /\ WF_reviewVars(Stop(k))
                        /\ \A c \in Call : WF_reviewVars(Cancelled(k, c))
ReviewSpec == ReviewInit /\ [][ReviewNext]_reviewVars /\ ReviewFairness

-----------------------------------------------------------------------------
(* The judge's request exists on the ledger only after every critic is off  *)
(* its hold and a quorum of them was paid for.                              *)
JudgeAfterCritics ==
  status[Judge] # "absent" =>
     /\ \A c \in Critic : status[c] \notin {"absent", "held"}
     /\ Cardinality({c \in Critic : status[c] = "settled"}) >= MinCritics

(* The allowance is given back only by the run that owns it, and only when  *)
(* that run is over: a duplicate of a running review cannot take it away.   *)
ReleasedAtTheEnd ==
  status[Allowance] = "settled" /\ status[Judge] = "absent" =>
     \A k \in Controller : owns[k] => pc[k] \in Ending \cup {"ended"}

(* The stages of review_controller.py keep their order whatever the critics *)
(* do and however many controllers share the envelope.                      *)
StagesInOrder == JudgeAfterCritics /\ ReleasedAtTheEnd

(* Once the terminal record exists nothing of this run is dispatched,       *)
(* charged, settled or transferred any more.                                *)
RunEntries == EntryId \ {Other}
TerminalIsLast ==
  [][files["terminal"] # "absent" =>
       \A e \in RunEntries : status'[e] = status[e] /\ charged'[e] = charged[e]]_reviewVars

(* inspect_review_controller, which audits a stopped run from its records:  *)
(* an unreadable record makes it raise, which is where the bytes of a torn  *)
(* write end; no state the run itself can leave behind may.                 *)
Readable == /\ files["start"] = "whole" /\ files["envelope"] = "whole"
            /\ \A f \in {"preview", "transfer", "terminal"} : files[f] # "torn"
Transferred == files["transfer"] = "whole"
Retired == status[Allowance] = "settled" /\ charged[Allowance] = 0
Accepted ==
  /\ Transferred => files["preview"] = "whole" /\ Retired
  /\ terminal # NoTerminal =>
       /\ terminal.retired => FormalCampaign
       /\ terminal.phase = "finished" => files["result"] = "whole" /\ Transferred
InspectionAccepts == Readable => Accepted

(* When the inspection calls the spending inventory complete, the entries   *)
(* it identified carry every charge of the run, even if the record of the   *)
(* judge's transfer was lost.                                               *)
Identified == Critic \cup {Allowance} \cup (IF Transferred THEN {Judge} ELSE {})
Complete == /\ \A e \in Identified : status[e] # "absent"
            /\ ~Transferred /\ Retired => terminal # NoTerminal /\ terminal.retired
InventoryComplete ==
  Readable /\ Complete => Total(Identified, charged) = Total(RunEntries, charged)

(* After any crash or failed write the inspection of review_evidence.py     *)
(* neither refuses records this code wrote nor vouches for a spending       *)
(* inventory that misses a charge.                                          *)
InspectionTrue == InspectionAccepts /\ InventoryComplete

(* Whatever providers, workers and callers do, a running phase ends: in the *)
(* judge's preview or in the end of the run.                                *)
RunEnds == \A k \in Controller :
  pc[k] \in Waiting \cup Working \cup Ending ~> pc[k] \in {"awaiting", "ended"}
=============================================================================
