------------------------------- MODULE RunProofs -------------------------------
(***************************************************************************)
(* Proofs about two parts of the run layer that share nothing but the host. *)
(*                                                                         *)
(* IsolatedExchange, for any bound on frames and cancels: an exchange that  *)
(* ended owns nothing and its answer was earned, and what the launcher and  *)
(* the watchdog report of the container is so, however the tasks, the       *)
(* worker, the daemon and the kills interleave.  The two halves meet in one *)
(* launcher, but neither invariant needs the other: a step of the           *)
(* composition is a step of one half, and leaves the other alone or starts  *)
(* it afresh.                                                               *)
(*                                                                         *)
(* TaskCheckpoint, for any number of sessions, changes and revisions:       *)
(* however often the power fails, what it may leave of the head is in the   *)
(* head's lineage (HeadInv).  While it holds, one session continues a       *)
(* checkpoint, and a closure that returned stays in the head's lineage      *)
(* (CheckpointInv).  The lock makes the session that is at the store the    *)
(* only one (Exclusive), so what its call has checked stays so until it     *)
(* writes (CallHead, CallKnows).                                            *)
(***************************************************************************)
EXTENDS IsolatedExchange, TaskCheckpoint, TLAPS, SequenceTheorems

-----------------------------------------------------------------------------
(* The exchange.                                                            *)

(* Where the talk is says which of its tasks there are.                     *)
TalkAt(here) == talk \in here
TasksPlaced ==
  /\ TalkAt({"offer", "claim"}) => early = "none" /\ handler = "none"
  /\ TalkAt({"tick"}) => early \in {"reading", "done"} /\ handler = "none"
  /\ TalkAt({"wait"}) => /\ early \in {"reading", "done"}
                         /\ handler \in {"running", "replied", "failed"}
  /\ TalkAt({"settle"}) => early # "reading"
  /\ TalkAt({"result", "tail", "exit", "done"}) => early # "reading" /\ D!Finished(handler)

(* A handler that was cancelled cannot have replied.                        *)
Undisturbed == handler \in {"none", "running", "replied", "failed"} => hits = 0

(* A frame the talk did not ask for is seen, before the reply or after it.  *)
FramesCounted ==
  /\ frames <= written
  /\ TalkAt({"offer", "claim"}) => written = frames
  /\ TalkAt({"tick", "wait"}) /\ early = "reading" => written = frames + 1
  /\ TalkAt({"settle"}) /\ outcome = "reply" => handler = "replied" /\ written = frames + 1
  /\ TalkAt({"result", "tail", "exit"}) => handler = "replied" /\ replied
  /\ TalkAt({"result"}) => written = frames + 1
  /\ TalkAt({"tail"}) => written = frames + 2
  /\ TalkAt({"exit"}) => written = 2 /\ frames = 0 /\ worker # "alive"

AnswerEarned == outcome = "answer" => talk = "done" /\ D!Earned

(* bounded_exchange is past its finally only when its tasks are.            *)
Gathered == /\ bounded # "gather" => errors # "reading"
            /\ bounded = "ended" => talk = "done"

ExchangeInv == /\ D!DuplexTypeOK /\ TasksPlaced /\ Undisturbed /\ FramesCounted
               /\ AnswerEarned /\ Gathered

-----------------------------------------------------------------------------
(* The container.                                                           *)

(* It is created once: the request goes out first, and is carried out once. *)
CreatedOnce ==
  /\ launcher = "create" => box = "none" /\ requests = {}
  /\ launcher \in {"create", "creating", "arm"} => watchdog = "none" /\ record = "none"
  /\ "create" \in requests => box = "none"
  /\ watchdog # "none" \/ launcher \in {"arm", "arming", "start", "exchange", "inspect"}
       => box # "none"

(* It is started, and answers, only behind a watchdog that armed.           *)
WatchedFirst ==
  /\ launcher \in {"start", "exchange", "inspect"} \/ result = "answer" => guarded
  /\ guarded \/ watchdog \in {"armed", "removing"} \/ "start" \in requests \/ box = "running"
       => record # "none"

(* A receipt is the watchdog's last word.                                   *)
LastWord ==
  /\ record = "removed" => box = "gone" /\ watchdog = "ended"
  /\ launcher = "ended" /\ result = "answer" => record = "removed"

ContainerInv == C!ContainerTypeOK /\ CreatedOnce /\ WatchedFirst /\ LastWord

IsolationInv == ExchangeInv /\ ContainerInv
-----------------------------------------------------------------------------
(* Each step of the exchange.  Their proofs all look into the invariant.    *)
USE ExchangeAssumption
    DEF ExchangeInv, D!DuplexTypeOK, TasksPlaced, Undisturbed, FramesCounted, AnswerEarned,
        Gathered, TalkAt, D!Earned, D!Finished, D!Talking

LEMMA WritesKeeps == ExchangeInv /\ D!Writes => ExchangeInv'
  BY DEF D!Writes, D!io, D!owner

LEMMA ExitsKeeps == ExchangeInv /\ D!Exits => ExchangeInv'
  BY DEF D!Exits, D!io, D!owner

LEMMA ReadErrorsKeeps == ExchangeInv /\ D!ReadErrors => ExchangeInv'
  BY DEF D!ReadErrors, D!io, D!owner

LEMMA ReadEarlyKeeps == ExchangeInv /\ D!ReadEarly => ExchangeInv'
  BY DEF D!ReadEarly, D!Readable, D!owner

LEMMA HandlerEndsKeeps == ExchangeInv /\ D!HandlerEnds => ExchangeInv'
  BY DEF D!HandlerEnds, D!io, D!owner

LEMMA HandlerCleansKeeps == ExchangeInv /\ D!HandlerCleans => ExchangeInv'
  BY DEF D!HandlerCleans, D!io, D!owner

LEMMA OfferKeeps == ExchangeInv /\ D!Offer => ExchangeInv'
  BY DEF D!Offer, D!Speaks, D!TalkEnds, D!io, D!owner

LEMMA ClaimKeeps == ExchangeInv /\ D!Claim => ExchangeInv'
  BY DEF D!Claim, D!Speaks, D!Readable, D!TalkEnds, D!owner

LEMMA TickKeeps == ExchangeInv /\ D!Tick => ExchangeInv'
  BY DEF D!Tick, D!Speaks, D!Settle, D!CancelHandler, D!io, D!owner

LEMMA WaitKeeps == ExchangeInv /\ D!Wait => ExchangeInv'
  BY DEF D!Wait, D!Speaks, D!Settle, D!CancelHandler, D!io, D!owner

LEMMA SettledKeeps == ExchangeInv /\ D!Settled => ExchangeInv'
<1> SUFFICES ASSUME ExchangeInv, D!Settled PROVE ExchangeInv'
  OBVIOUS
<1>1. CASE outcome = "reply" /\ "talk" \notin cancelling
  BY <1>1 DEF D!Settled, D!TalkEnds, D!owner
<1>2. CASE ~(outcome = "reply" /\ "talk" \notin cancelling)
  BY <1>2 DEF D!Settled, D!TalkEnds, D!owner
<1> QED BY <1>1, <1>2

LEMMA ResultKeeps == ExchangeInv /\ D!Result => ExchangeInv'
  BY DEF D!Result, D!Speaks, D!Readable, D!TalkEnds, D!owner

LEMMA TailKeeps == ExchangeInv /\ D!Tail => ExchangeInv'
  BY DEF D!Tail, D!Speaks, D!Readable, D!TalkEnds, D!io, D!owner

LEMMA ExitKeeps == ExchangeInv /\ D!Exit => ExchangeInv'
  BY DEF D!Exit, D!Speaks, D!TalkEnds, D!io, D!owner

LEMMA TalkCancelledKeeps == ExchangeInv /\ D!TalkCancelled => ExchangeInv'
  BY DEF D!TalkCancelled, D!Settle, D!CancelHandler, D!TalkEnds, D!io, D!owner

LEMMA CancelBoundedKeeps ==
  ASSUME ExchangeInv, D!CancelBounded, UNCHANGED <<D!io, bounded, talk, early, outcome>>,
         deadline' \in BOOLEAN, forwarded' \in BOOLEAN, cancels' \in 0..MaxCancels
  PROVE  ExchangeInv'
BY DEF D!CancelBounded, D!CancelTalk, D!CancelHandler, D!io

LEMMA DeadlineKeeps == ExchangeInv /\ D!Deadline => ExchangeInv'
BY CancelBoundedKeeps DEF D!Deadline

LEMMA CallerCancelsKeeps == ExchangeInv /\ D!CallerCancels => ExchangeInv'
<1> SUFFICES ASSUME ExchangeInv, D!CallerCancels PROVE ExchangeInv'
  OBVIOUS
<1>1. /\ cancels' \in 0..MaxCancels /\ deadline' \in BOOLEAN
      /\ UNCHANGED <<D!io, bounded, talk, early, outcome, deadline>>
  BY DEF D!CallerCancels
<1>2. CASE forwarded
  <2>1. UNCHANGED <<forwarded, cancelling, errors, handler, hits>>
    BY <1>2 DEF D!CallerCancels
  <2> QED BY <1>1, <2>1 DEF D!io
<1>3. CASE ~forwarded
  <2>1. forwarded' = TRUE /\ D!CancelBounded
    BY <1>3 DEF D!CallerCancels
  <2> QED BY <1>1, <2>1, CancelBoundedKeeps
<1> QED BY <1>2, <1>3

LEMMA ClosingKeeps == ExchangeInv /\ D!Closing => ExchangeInv'
  BY DEF D!Closing, D!GatherEnds, D!Fails, D!CancelTalk, D!CancelHandler, D!io, D!owner

LEMMA EndedKeeps == ExchangeInv /\ D!Ended => ExchangeInv'
  BY DEF D!Ended, D!owner
HIDE ExchangeAssumption
    DEF ExchangeInv, D!DuplexTypeOK, TasksPlaced, Undisturbed, FramesCounted, AnswerEarned,
        Gathered, TalkAt, D!Earned, D!Finished, D!Talking

-----------------------------------------------------------------------------
(* Each step of the launcher, the watchdog and the daemon.                  *)
USE DEF ContainerInv, C!ContainerTypeOK, CreatedOnce, WatchedFirst, LastWord, C!MaxTries

LEMMA CarriesKeeps ==
  ASSUME ContainerInv, NEW r \in {"create", "start", "remove"}, C!Carries(r)
  PROVE  ContainerInv'
BY DEF C!Carries, C!Remove

LEMMA WorkerExitsKeeps == ContainerInv /\ C!WorkerExits => ContainerInv'
BY DEF C!WorkerExits

LEMMA StopsKeeps == ContainerInv /\ C!Stops => ContainerInv'
BY DEF C!Stops, C!Gives

LEMMA CreateKeeps == ContainerInv /\ C!Create => ContainerInv'
BY DEF C!Create

LEMMA CreatedKeeps == ContainerInv /\ C!Created => ContainerInv'
BY DEF C!Created

LEMMA SpawnKeeps == ContainerInv /\ C!Spawn => ContainerInv'
BY DEF C!Spawn

LEMMA ReadyKeeps == ContainerInv /\ C!Ready => ContainerInv'
BY DEF C!Ready

LEMMA NotReadyKeeps == ContainerInv /\ C!NotReady => ContainerInv'
BY DEF C!NotReady, C!Gives

LEMMA StartKeeps == ContainerInv /\ C!Start => ContainerInv'
BY DEF C!Start

LEMMA AnsweredKeeps == ContainerInv /\ C!Answered => ContainerInv'
BY DEF C!Answered

LEMMA InspectKeeps == ContainerInv /\ C!Inspect => ContainerInv'
BY DEF C!Inspect, C!Gives

LEMMA Removals ==
  ASSUME ContainerInv, NEW gone \in BOOLEAN, C!Removal(gone)
  PROVE  /\ box' = box \/ (gone /\ box' = "gone" /\ box # "none")
         /\ gone => requests' = requests /\ box' \in {"none", "gone"} /\ (box' = "none" => box = "none")
         /\ requests' \subseteq {"create", "start", "remove"}
         /\ "create" \in requests' <=> "create" \in requests
         /\ "start" \in requests' <=> "start" \in requests
<1>1. CASE gone
  BY <1>1 DEF C!Removal, C!Remove
<1>2. CASE ~gone
  BY <1>2 DEF C!Removal
<1> QED BY <1>1, <1>2

LEMMA RemoveBoxKeeps == ContainerInv /\ C!RemoveBox => ContainerInv'
<1> SUFFICES ASSUME ContainerInv, C!RemoveBox PROVE ContainerInv'
  OBVIOUS
<1>1. PICK gone \in BOOLEAN :
        /\ C!Removal(gone)
        /\ C!Gives(IF guarded THEN "finish" ELSE "ended", IF gone /\ known THEN result ELSE "raised")
  BY DEF C!RemoveBox
<1>2. launcher = "remove" /\ UNCHANGED <<known, guarded, lease, watchdog, tries, record>>
  BY DEF C!RemoveBox
<1>3. launcher' \in {"finish", "ended"} /\ (launcher' = "ended" => ~guarded) /\ result' \in {result, "raised"}
  BY <1>1 DEF C!Gives
<1> QED BY <1>1, <1>2, <1>3, Removals

LEMMA FinishLeaseKeeps == ContainerInv /\ C!FinishLease => ContainerInv'
BY DEF C!FinishLease

LEMMA FinishKeeps == ContainerInv /\ C!Finish => ContainerInv'
BY DEF C!Finish, C!Gives

LEMMA KilledKeeps == ContainerInv /\ C!Killed => ContainerInv'
BY DEF C!Killed

LEMMA ArmsKeeps == ContainerInv /\ C!Arms => ContainerInv'
BY DEF C!Arms

LEMMA RevokedKeeps == ContainerInv /\ C!Revoked => ContainerInv'
BY DEF C!Revoked

LEMMA ExpiresKeeps == ContainerInv /\ C!Expires => ContainerInv'
BY DEF C!Expires

LEMMA TriesKeeps == ContainerInv /\ C!Tries => ContainerInv'
<1> SUFFICES ASSUME ContainerInv, C!Tries PROVE ContainerInv'
  OBVIOUS
<1>1. PICK gone \in BOOLEAN :
        /\ C!Removal(gone)
        /\ \/ gone /\ C!WatchdogEnds("removed")
           \/ /\ ~gone /\ tries + 1 < C!MaxTries /\ tries' = tries + 1
              /\ UNCHANGED <<watchdog, record>>
           \/ ~gone /\ tries + 1 = C!MaxTries /\ C!WatchdogEnds("cleanup_failed")
  BY DEF C!Tries
<1>2. watchdog = "removing" /\ UNCHANGED <<launcher, known, guarded, result, lease>>
  BY DEF C!Tries
<1>3. box # "none" /\ record # "none" /\ record # "removed"
  BY <1>2
<1>4. /\ watchdog' \in {"removing", "ended"} /\ tries' \in 0..C!MaxTries
      /\ record' \in {record, "removed", "cleanup_failed"}
      /\ record' = "removed" => gone /\ watchdog' = "ended"
  BY <1>1, <1>2, <1>3 DEF C!WatchdogEnds
<1> QED BY <1>1, <1>2, <1>3, <1>4, Removals

LEMMA WatchdogDiesKeeps == ContainerInv /\ C!WatchdogDies => ContainerInv'
BY DEF C!WatchdogDies

HIDE DEF ContainerInv, C!ContainerTypeOK, CreatedOnce, WatchedFirst, LastWord, C!MaxTries

-----------------------------------------------------------------------------
(* Both together.                                                           *)

(* A step of the exchange is one of these, and every one keeps it.          *)
LEMMA DuplexKeeps ==
  ASSUME ExchangeInv,
         D!Tasks \/ D!HandlerEnds \/ D!Deadline \/ D!CallerCancels \/ D!Writes \/ D!Exits
  PROVE  ExchangeInv'
BY ReadErrorsKeeps, ReadEarlyKeeps, HandlerCleansKeeps, OfferKeeps, ClaimKeeps, TickKeeps,
   WaitKeeps, SettledKeeps, ResultKeeps, TailKeeps, ExitKeeps, TalkCancelledKeeps, ClosingKeeps,
   EndedKeeps, HandlerEndsKeeps, DeadlineKeeps, CallerCancelsKeeps, WritesKeeps, ExitsKeeps
DEF D!Tasks

(* A launcher that leaves the exchange forgets it: it is back at its start. *)
LEMMA ApartKeeps == ExchangeInv /\ Apart => ExchangeInv'
<1> SUFFICES ASSUME ExchangeInv, Apart PROVE ExchangeInv'
  OBVIOUS
<1>1. CASE launcher' = "exchange"
  <2>1. UNCHANGED exchange
    BY <1>1 DEF Apart
  <2> QED BY <2>1 DEF exchange, ExchangeInv, D!DuplexTypeOK, TasksPlaced, Undisturbed,
       FramesCounted, AnswerEarned, Gathered, TalkAt, D!Earned, D!Finished
<1>2. CASE launcher' # "exchange"
  <2>1. Forget
    BY <1>2 DEF Apart
  <2>2. D!DuplexTypeOK'
    <3>1. replied' \in BOOLEAN /\ deadline' \in BOOLEAN /\ forwarded' \in BOOLEAN
      BY <2>1, Zenon DEF Forget
    <3>2. /\ frames' \in 0..MaxFrames /\ written' \in 0..MaxFrames /\ cancels' \in 0..MaxCancels
          /\ hits' \in Nat /\ cancelling' \subseteq {"bounded", "talk"}
      BY <2>1, ExchangeAssumption DEF Forget
    <3> QED BY <2>1, <3>1, <3>2, Zenon DEF Forget, D!DuplexTypeOK, D!Talking
  <2>3. TasksPlaced' /\ Undisturbed' /\ FramesCounted' /\ AnswerEarned' /\ Gathered'
    BY <2>1 DEF Forget, TasksPlaced, Undisturbed, FramesCounted, AnswerEarned, Gathered, TalkAt
  <2> QED BY <2>2, <2>3 DEF ExchangeInv
<1> QED BY <1>1, <1>2

LEMMA LauncherKeeps ==
  ASSUME ContainerInv,
         C!Stops \/ C!Answered \/ C!Launches \/ C!Watches \/ C!Daemon \/ C!Killed \/ C!WatchdogDies
  PROVE  ContainerInv'
BY CarriesKeeps, WorkerExitsKeeps, StopsKeeps, CreateKeeps, CreatedKeeps, SpawnKeeps, ReadyKeeps,
   NotReadyKeeps, StartKeeps, AnsweredKeeps, InspectKeeps, RemoveBoxKeeps, FinishLeaseKeeps,
   FinishKeeps, KilledKeeps, ArmsKeeps, RevokedKeeps, ExpiresKeeps, TriesKeeps, WatchdogDiesKeeps
DEF C!Launches, C!Watches, C!Daemon

LEMMA IsolationInit == Init => IsolationInv
<1> SUFFICES ASSUME Init PROVE IsolationInv
  OBVIOUS
<1>1. ExchangeInv
  <2>1. D!DuplexTypeOK
    <3>1. replied \in BOOLEAN /\ deadline \in BOOLEAN /\ forwarded \in BOOLEAN
      BY Zenon DEF Init, D!Init
    <3>2. /\ frames \in 0..MaxFrames /\ written \in 0..MaxFrames /\ cancels \in 0..MaxCancels
          /\ hits \in Nat /\ cancelling \subseteq {"bounded", "talk"}
      BY ExchangeAssumption DEF Init, D!Init
    <3> QED BY <3>1, <3>2, Zenon DEF Init, D!Init, D!DuplexTypeOK, D!Talking
  <2>2. TasksPlaced /\ Undisturbed /\ FramesCounted /\ AnswerEarned /\ Gathered
    BY DEF Init, D!Init, TasksPlaced, Undisturbed, FramesCounted, AnswerEarned, Gathered, TalkAt
  <2> QED BY <2>1, <2>2 DEF ExchangeInv
<1>2. ContainerInv
  <2>1. C!ContainerTypeOK
    <3>1. known \in BOOLEAN /\ guarded \in BOOLEAN
      BY Zenon DEF Init, C!Init
    <3>2. tries \in 0..C!MaxTries /\ requests \subseteq {"create", "start", "remove"}
      BY DEF Init, C!Init, C!MaxTries
    <3> QED BY <3>1, <3>2, Zenon DEF Init, C!Init, C!ContainerTypeOK
  <2>2. CreatedOnce /\ WatchedFirst /\ LastWord
    BY DEF Init, C!Init, CreatedOnce, WatchedFirst, LastWord
  <2> QED BY <2>1, <2>2 DEF ContainerInv
<1> QED BY <1>1, <1>2 DEF IsolationInv

LEMMA IsolationStep == IsolationInv /\ [Next]_vars => IsolationInv'
<1> SUFFICES ASSUME ExchangeInv, ContainerInv, [Next]_vars PROVE ExchangeInv' /\ ContainerInv'
  BY DEF IsolationInv
<1>1. ASSUME UNCHANGED container PROVE ContainerInv'
  BY <1>1 DEF container, ContainerInv, C!ContainerTypeOK, CreatedOnce, WatchedFirst, LastWord
<1>2. CASE Tasks \/ Provider \/ Deadline \/ Cancel \/ Write \/ Detach
  <2>1. UNCHANGED container
    BY <1>2 DEF Tasks, Provider, Deadline, Cancel, Write, Detach, Exchanging
  <2>2. ExchangeInv'
    BY <1>2, DuplexKeeps DEF Tasks, Provider, Deadline, Cancel, Write, Detach
  <2> QED BY <1>1, <2>1, <2>2
<1>3. CASE Stop \/ Answered \/ Launch \/ Watch \/ Daemon \/ Kill \/ WatchdogDies
  <2>1. Apart
    BY <1>3 DEF Stop, Answered, Launch, Watch, Daemon, Kill, WatchdogDies
  <2>2. ContainerInv'
    BY <1>3, LauncherKeeps DEF Stop, Answered, Launch, Watch, Daemon, Kill, WatchdogDies
  <2> QED BY <2>1, <2>2, ApartKeeps
<1>4. CASE UNCHANGED vars
  <2>1. UNCHANGED exchange /\ UNCHANGED container
    BY <1>4 DEF vars
  <2>2. Apart \/ ExchangeInv'
    BY <2>1 DEF exchange, ExchangeInv, D!DuplexTypeOK, TasksPlaced, Undisturbed,
       FramesCounted, AnswerEarned, Gathered, TalkAt, D!Earned, D!Finished
  <2> QED BY <1>1, <2>1, <2>2, ApartKeeps
<1> QED BY <1>2, <1>3, <1>4 DEF Next

(* The inductive invariant of both halves, for any bounds on the exchange.  *)
THEOREM IsolationInvariant == Spec => []IsolationInv
<1> QED BY IsolationInit, IsolationStep, PTL DEF Spec

(* execute's finally and its asynchronous twin: no task of an exchange      *)
(* outlives it, and an answer it returns was earned.                        *)
THEOREM ExchangesAreOwned == Spec => []ExchangeOwned
<1>1. IsolationInv => ExchangeOwned
  BY DEF IsolationInv, ExchangeInv, TasksPlaced, AnswerEarned, Gathered, TalkAt,
     ExchangeOwned, D!ExchangeOwned, D!NothingLeft, D!Earned, D!DuplexTypeOK
<1> QED BY <1>1, IsolationInvariant, PTL

(* remove_exact and finish_watchdog: a receipt, or an answer the launcher   *)
(* returned, means that the container is gone; none ever ran unwatched.     *)
THEOREM RemovalsAreConfirmed == Spec => []ConfirmedGone
<1>1. IsolationInv => ConfirmedGone
  BY DEF IsolationInv, ContainerInv, WatchedFirst, LastWord, ConfirmedGone, C!ConfirmedGone
<1> QED BY <1>1, IsolationInvariant, PTL

-----------------------------------------------------------------------------
(* The checkpoints.                                                         *)

Exclusive == \A s, t \in Session : at[s] # "away" /\ at[t] # "away" => s = t

CallHead ==
  \A s \in Session :
    /\ at[s] \in {"closing", "archived", "publish"} =>
         work[s] \in Bundle /\ Expected(s, work[s])
    /\ at[s] \in {"placed", "closed", "claiming", "claimed", "claim held"} =>
         work[s] \in Bundle /\ work[s] = head

CallKnows ==
  \A s \in Session :
    /\ at[s] \in {"archived", "publish"} => work[s] \in archive
    /\ at[s] = "claiming" => claim[head] = NoSession
    /\ at[s] \in {"claimed", "claim held"} => claim[head] = s

\* A claim is its session's for ever; only that session dispatches on it.
ClaimsHeld == /\ \A s \in Session : continued[s] # NoBundle => claim[continued[s]] = s
              /\ \A b \in Bundle : \A s \in sent[b] : claim[b] = s

HeadInv == CheckpointTypeOK /\ Exclusive /\ CallHead /\ SurvivorsOnLineage
CheckpointInv == HeadInv /\ (~outage => CallKnows /\ ClaimsHeld /\ LineageKept)

\* What happens while the power holds.
Working == (\E s \in Session : Acts(s)) /\ UNCHANGED outage

-----------------------------------------------------------------------------
(* Bundles as lineages.                                                     *)
Lineage == Bundle \cup {NoBundle}

LEMMA LineageLen == \A b \in Lineage : Len(b) \in Nat /\ b \in [1..Len(b) -> Change]
<1> TAKE b \in Lineage
<1>1. CASE b = NoBundle
  BY <1>1 DEF NoBundle
<1>2. CASE b \in Bundle
  <2>1. PICK n \in 1..MaxRevision : b \in [1..n -> Change]
    BY <1>2 DEF Bundle
  <2>2. b \in Seq(Change) /\ Len(b) = n
    BY <2>1, CheckpointAssumption
  <2> QED BY <2>1, <2>2
<1> QED BY <1>1, <1>2 DEF Lineage

LEMMA BundleLen == \A b \in Bundle : Len(b) \in Nat \ {0} /\ b # NoBundle
<1> TAKE b \in Bundle
<1>1. PICK n \in 1..MaxRevision : b \in [1..n -> Change]
  BY DEF Bundle
<1>2. b \in Seq(Change) /\ Len(b) = n
  BY <1>1, CheckpointAssumption
<1> QED BY <1>1, <1>2, CheckpointAssumption DEF NoBundle

LEMMA Prefix ==
  ASSUME NEW b \in Lineage, NEW n \in 0..Len(b)
  PROVE  /\ SubSeq(b, 1, n) \in Seq(Change) /\ Len(SubSeq(b, 1, n)) = n
         /\ \A i \in 1..n : SubSeq(b, 1, n)[i] = b[i]
<1>1. Len(b) \in Nat /\ \A i \in 1..n : b[i] \in Change
  BY LineageLen
<1>2. n \in Int /\ n - 1 + 1 = n
  BY <1>1
<1>3. /\ SubSeq(b, 1, n) \in Seq(Change)
      /\ Len(SubSeq(b, 1, n)) = IF 1 <= n THEN n - 1 + 1 ELSE 0
      /\ \A i \in 1 .. n - 1 + 1 : SubSeq(b, 1, n)[i] = b[1 + i - 1]
  BY <1>1, <1>2, SubSeqProperties
<1> QED BY <1>1, <1>2, <1>3

LEMMA LeadsToPointwise ==
  ASSUME NEW a \in Lineage, NEW b \in Lineage
  PROVE  LeadsTo(a, b) <=> Len(a) <= Len(b) /\ \A i \in 1..Len(a) : a[i] = b[i]
<1>1. Len(a) \in Nat /\ Len(b) \in Nat /\ a \in Seq(Change)
  BY LineageLen
<1>2. ASSUME Len(a) <= Len(b)
      PROVE  a = SubSeq(b, 1, Len(a)) <=> \A i \in 1..Len(a) : a[i] = b[i]
  <2>1. Len(a) \in 0..Len(b)
    BY <1>1, <1>2
  <2>2. /\ SubSeq(b, 1, Len(a)) \in Seq(Change) /\ Len(SubSeq(b, 1, Len(a))) = Len(a)
        /\ \A i \in 1..Len(a) : SubSeq(b, 1, Len(a))[i] = b[i]
    BY <2>1, Prefix
  <2>3. ASSUME \A i \in 1..Len(a) : a[i] = b[i] PROVE a = SubSeq(b, 1, Len(a))
    BY <1>1, <2>2, <2>3, SeqEqual
  <2> QED BY <2>2, <2>3
<1> QED BY <1>2 DEF LeadsTo

LEMMA LeadsToOrder ==
  /\ \A a \in Lineage : LeadsTo(NoBundle, a) /\ LeadsTo(a, a)
  /\ \A a, b, c \in Lineage : LeadsTo(a, b) /\ LeadsTo(b, c) => LeadsTo(a, c)
  /\ \A a, b \in Lineage : LeadsTo(a, b) /\ Len(a) = Len(b) => a = b
<1>1. ASSUME NEW a \in Lineage PROVE LeadsTo(NoBundle, a) /\ LeadsTo(a, a)
  <2>1. NoBundle \in Lineage /\ Len(NoBundle) = 0 /\ Len(a) \in Nat
    BY LineageLen DEF Lineage, NoBundle
  <2> QED BY <2>1, LeadsToPointwise
<1>2. ASSUME NEW a \in Lineage, NEW b \in Lineage, NEW c \in Lineage,
             LeadsTo(a, b), LeadsTo(b, c)
      PROVE  LeadsTo(a, c)
  <2>1. Len(a) \in Nat /\ Len(b) \in Nat /\ Len(c) \in Nat
    BY LineageLen
  <2>2. /\ Len(a) <= Len(b) /\ \A i \in 1..Len(a) : a[i] = b[i]
        /\ Len(b) <= Len(c) /\ \A i \in 1..Len(b) : b[i] = c[i]
    BY <1>2, LeadsToPointwise
  <2>3. Len(a) <= Len(c) /\ \A i \in 1..Len(a) : a[i] = c[i]
    BY <2>1, <2>2
  <2> QED BY <2>3, LeadsToPointwise
<1>3. ASSUME NEW a \in Lineage, NEW b \in Lineage, LeadsTo(a, b), Len(a) = Len(b)
      PROVE  a = b
  <2>1. a \in Seq(Change) /\ b \in Seq(Change) /\ \A i \in 1..Len(a) : a[i] = b[i]
    BY <1>3, LineageLen, LeadsToPointwise
  <2> QED BY <1>3, <2>1, SeqEqual
<1> QED BY <1>1, <1>2, <1>3

LEMMA LeadsToPrevious ==
  ASSUME NEW b \in Bundle, Previous(b) \in Lineage
  PROVE  LeadsTo(Previous(b), b) /\ Len(Previous(b)) = Len(b) - 1
<1>1. b \in Lineage /\ Len(b) \in Nat \ {0} /\ Len(b) - 1 \in 0..Len(b)
  BY BundleLen DEF Lineage
<1>2. /\ Len(Previous(b)) = Len(b) - 1
      /\ \A i \in 1..Len(b) - 1 : Previous(b)[i] = b[i]
  BY <1>1, Prefix DEF Previous
<1> QED BY <1>1, <1>2, LeadsToPointwise

-----------------------------------------------------------------------------
(* One action at a time.                                                    *)
LEMMA TypeStep == CheckpointTypeOK /\ CallHead /\ [Working]_checkpointVars => CheckpointTypeOK'
<1> SUFFICES ASSUME CheckpointTypeOK, CallHead, [Working]_checkpointVars PROVE CheckpointTypeOK'
  OBVIOUS
<1>0. UNCHANGED outage
  BY DEF Working, checkpointVars
<1> USE <1>0 DEF CheckpointTypeOK, Place, Storing, CallHead
<1>1. ASSUME NEW s \in Session, Open(s) PROVE CheckpointTypeOK'
  BY <1>1 DEF Open, Goto, Step, disk, sessions, LockFree
<1>2. ASSUME NEW s \in Session, Leave(s) PROVE CheckpointTypeOK'
  BY <1>2 DEF Leave, Goto, Step, disk, sessions
<1>3. ASSUME NEW s \in Session, Submit(s) PROVE CheckpointTypeOK'
  BY <1>3 DEF Submit, Goto, Step, disk, sessions
<1>4. ASSUME NEW s \in Session, Archive(s) PROVE CheckpointTypeOK'
  BY <1>4 DEF Archive, Goto, Step, disk, sessions
<1>5. ASSUME NEW s \in Session, SyncArchive(s) PROVE CheckpointTypeOK'
  BY <1>5 DEF SyncArchive, Goto, Step, disk, sessions
<1>6. ASSUME NEW s \in Session, ArchiveExists(s) PROVE CheckpointTypeOK'
  BY <1>6 DEF ArchiveExists, Goto, Step, disk, sessions
<1>7. ASSUME NEW s \in Session, ReplaceHead(s) PROVE CheckpointTypeOK'
  BY <1>7 DEF ReplaceHead, Goto, Step, disk, sessions
<1>8. ASSUME NEW s \in Session, SyncHead(s) PROVE CheckpointTypeOK'
  BY <1>8 DEF SyncHead, Goto, Step, disk, sessions
<1>9. ASSUME NEW s \in Session, Raises(s) PROVE CheckpointTypeOK'
  BY <1>9 DEF Raises, Goto, Step, disk, sessions
<1>10. ASSUME NEW s \in Session, ClaimAgain(s) PROVE CheckpointTypeOK'
  BY <1>10 DEF ClaimAgain, Goto, Step, disk, sessions, Selects
<1>11. ASSUME NEW s \in Session, BeginContinuation(s) PROVE CheckpointTypeOK'
  BY <1>11 DEF BeginContinuation, Goto, Step, disk, sessions, Selects
<1>12. ASSUME NEW s \in Session, PlaceClaim(s) PROVE CheckpointTypeOK'
  BY <1>12 DEF PlaceClaim, Goto, Step, disk, sessions
<1>13. ASSUME NEW s \in Session, SyncClaim(s) PROVE CheckpointTypeOK'
  BY <1>13 DEF SyncClaim, Goto, Step, disk, sessions
<1>14. ASSUME NEW s \in Session, CommitLink(s) PROVE CheckpointTypeOK'
  BY <1>14 DEF CommitLink, Goto, Step, disk, sessions, Links
<1>15. ASSUME NEW s \in Session, CommitRaises(s) PROVE CheckpointTypeOK'
  BY <1>15 DEF CommitRaises, Goto, Step, disk, sessions, Links
<1>16. ASSUME NEW s \in Session, Dispatch(s) PROVE CheckpointTypeOK'
  <2>1. sent' = [sent EXCEPT ![head] = sent[head] \cup {s}] /\ fresh' = [fresh EXCEPT ![s] = FALSE]
    BY <1>16 DEF Dispatch
  <2>2. sent' \in [Bundle -> SUBSET Session] /\ fresh' \in [Session -> BOOLEAN]
    BY <2>1
  <2>3. UNCHANGED <<disk, at, work, link, continued>>
    BY <1>16 DEF Dispatch
  <2> QED BY <1>0, <2>2, <2>3 DEF disk
<1>17. ASSUME NEW s \in Session, NEW b \in Bundle, CloseMilestone(s, b) PROVE CheckpointTypeOK'
  BY <1>17 DEF CloseMilestone, Goto, Step, disk, sessions
<1>18. ASSUME NEW s \in Session, NEW b \in Bundle, RetryClosure(s, b) PROVE CheckpointTypeOK'
  BY <1>18 DEF RetryClosure, Goto, Step, disk, sessions
<1>19. CASE UNCHANGED checkpointVars
  BY <1>19 DEF checkpointVars, disk, sessions
<1> QED BY <1>1, <1>2, <1>3, <1>4, <1>5, <1>6, <1>7, <1>8, <1>9, <1>10, <1>11, <1>12, <1>13, <1>14, <1>15, <1>16, <1>17, <1>18, <1>19 DEF Working, Acts

LEMMA ExclusiveStep == CheckpointTypeOK /\ Exclusive /\ [Working]_checkpointVars => Exclusive'
<1> SUFFICES ASSUME CheckpointTypeOK, Exclusive, [Working]_checkpointVars PROVE Exclusive'
  OBVIOUS
<1>0. UNCHANGED outage
  BY DEF Working, checkpointVars
<1> USE <1>0 DEF CheckpointTypeOK, Exclusive, Storing
<1>1. ASSUME NEW s \in Session, Open(s) PROVE Exclusive'
  BY <1>1 DEF Open, Goto, Step, disk, sessions, LockFree
<1>2. ASSUME NEW s \in Session, Leave(s) PROVE Exclusive'
  BY <1>2 DEF Leave, Goto, Step, disk, sessions
<1>3. ASSUME NEW s \in Session, Submit(s) PROVE Exclusive'
  BY <1>3 DEF Submit, Goto, Step, disk, sessions
<1>4. ASSUME NEW s \in Session, Archive(s) PROVE Exclusive'
  BY <1>4 DEF Archive, Goto, Step, disk, sessions
<1>5. ASSUME NEW s \in Session, SyncArchive(s) PROVE Exclusive'
  BY <1>5 DEF SyncArchive, Goto, Step, disk, sessions
<1>6. ASSUME NEW s \in Session, ArchiveExists(s) PROVE Exclusive'
  BY <1>6 DEF ArchiveExists, Goto, Step, disk, sessions
<1>7. ASSUME NEW s \in Session, ReplaceHead(s) PROVE Exclusive'
  BY <1>7 DEF ReplaceHead, Goto, Step, disk, sessions
<1>8. ASSUME NEW s \in Session, SyncHead(s) PROVE Exclusive'
  BY <1>8 DEF SyncHead, Goto, Step, disk, sessions
<1>9. ASSUME NEW s \in Session, Raises(s) PROVE Exclusive'
  BY <1>9 DEF Raises, Goto, Step, disk, sessions
<1>10. ASSUME NEW s \in Session, ClaimAgain(s) PROVE Exclusive'
  BY <1>10 DEF ClaimAgain, Goto, Step, disk, sessions, Selects
<1>11. ASSUME NEW s \in Session, BeginContinuation(s) PROVE Exclusive'
  BY <1>11 DEF BeginContinuation, Goto, Step, disk, sessions, Selects
<1>12. ASSUME NEW s \in Session, PlaceClaim(s) PROVE Exclusive'
  BY <1>12 DEF PlaceClaim, Goto, Step, disk, sessions
<1>13. ASSUME NEW s \in Session, SyncClaim(s) PROVE Exclusive'
  BY <1>13 DEF SyncClaim, Goto, Step, disk, sessions
<1>14. ASSUME NEW s \in Session, CommitLink(s) PROVE Exclusive'
  BY <1>14 DEF CommitLink, Goto, Step, disk, sessions, Links
<1>15. ASSUME NEW s \in Session, CommitRaises(s) PROVE Exclusive'
  BY <1>15 DEF CommitRaises, Goto, Step, disk, sessions, Links
<1>16. ASSUME NEW s \in Session, Dispatch(s) PROVE Exclusive'
  BY <1>16 DEF Dispatch, Goto, Step, disk, sessions
<1>17. ASSUME NEW s \in Session, NEW b \in Bundle, CloseMilestone(s, b) PROVE Exclusive'
  BY <1>17 DEF CloseMilestone, Goto, Step, disk, sessions
<1>18. ASSUME NEW s \in Session, NEW b \in Bundle, RetryClosure(s, b) PROVE Exclusive'
  BY <1>18 DEF RetryClosure, Goto, Step, disk, sessions
<1>19. CASE UNCHANGED checkpointVars
  BY <1>19 DEF checkpointVars, disk, sessions
<1> QED BY <1>1, <1>2, <1>3, <1>4, <1>5, <1>6, <1>7, <1>8, <1>9, <1>10, <1>11, <1>12, <1>13, <1>14, <1>15, <1>16, <1>17, <1>18, <1>19 DEF Working, Acts

LEMMA CallHeadStep == CheckpointTypeOK /\ Exclusive /\ CallHead /\ [Working]_checkpointVars => CallHead'
<1> SUFFICES ASSUME CheckpointTypeOK, Exclusive, CallHead, [Working]_checkpointVars PROVE CallHead'
  OBVIOUS
<1>0. UNCHANGED outage
  BY DEF Working, checkpointVars
<1> USE <1>0 DEF CheckpointTypeOK, Exclusive, CallHead, Expected, Storing
<1>1. ASSUME NEW s \in Session, Open(s) PROVE CallHead'
  BY <1>1 DEF Open, Goto, Step, disk, sessions, LockFree
<1>2. ASSUME NEW s \in Session, Leave(s) PROVE CallHead'
  BY <1>2 DEF Leave, Goto, Step, disk, sessions
<1>3. ASSUME NEW s \in Session, Submit(s) PROVE CallHead'
  BY <1>3 DEF Submit, Goto, Step, disk, sessions
<1>4. ASSUME NEW s \in Session, Archive(s) PROVE CallHead'
  BY <1>4 DEF Archive, Goto, Step, disk, sessions
<1>5. ASSUME NEW s \in Session, SyncArchive(s) PROVE CallHead'
  BY <1>5 DEF SyncArchive, Goto, Step, disk, sessions
<1>6. ASSUME NEW s \in Session, ArchiveExists(s) PROVE CallHead'
  BY <1>6 DEF ArchiveExists, Goto, Step, disk, sessions
<1>7. ASSUME NEW s \in Session, ReplaceHead(s) PROVE CallHead'
  BY <1>7 DEF ReplaceHead, Goto, Step, disk, sessions
<1>8. ASSUME NEW s \in Session, SyncHead(s) PROVE CallHead'
  BY <1>8 DEF SyncHead, Goto, Step, disk, sessions
<1>9. ASSUME NEW s \in Session, Raises(s) PROVE CallHead'
  BY <1>9 DEF Raises, Goto, Step, disk, sessions
<1>10. ASSUME NEW s \in Session, ClaimAgain(s) PROVE CallHead'
  BY <1>10 DEF ClaimAgain, Goto, Step, disk, sessions, Selects
<1>11. ASSUME NEW s \in Session, BeginContinuation(s) PROVE CallHead'
  BY <1>11 DEF BeginContinuation, Goto, Step, disk, sessions, Selects
<1>12. ASSUME NEW s \in Session, PlaceClaim(s) PROVE CallHead'
  BY <1>12 DEF PlaceClaim, Goto, Step, disk, sessions
<1>13. ASSUME NEW s \in Session, SyncClaim(s) PROVE CallHead'
  BY <1>13 DEF SyncClaim, Goto, Step, disk, sessions
<1>14. ASSUME NEW s \in Session, CommitLink(s) PROVE CallHead'
  BY <1>14 DEF CommitLink, Goto, Step, disk, sessions, Links
<1>15. ASSUME NEW s \in Session, CommitRaises(s) PROVE CallHead'
  BY <1>15 DEF CommitRaises, Goto, Step, disk, sessions, Links
<1>16. ASSUME NEW s \in Session, Dispatch(s) PROVE CallHead'
  BY <1>16 DEF Dispatch, Goto, Step, disk, sessions
<1>17. ASSUME NEW s \in Session, NEW b \in Bundle, CloseMilestone(s, b) PROVE CallHead'
  BY <1>17, BundleLen DEF CloseMilestone, Goto, Step, disk, sessions
<1>18. ASSUME NEW s \in Session, NEW b \in Bundle, RetryClosure(s, b) PROVE CallHead'
  BY <1>18 DEF RetryClosure, Goto, Step, disk, sessions
<1>19. CASE UNCHANGED checkpointVars
  BY <1>19 DEF checkpointVars, disk, sessions
<1> QED BY <1>1, <1>2, <1>3, <1>4, <1>5, <1>6, <1>7, <1>8, <1>9, <1>10, <1>11, <1>12, <1>13, <1>14, <1>15, <1>16, <1>17, <1>18, <1>19 DEF Working, Acts

LEMMA CallStep == CheckpointTypeOK /\ Exclusive /\ CallHead /\ CallKnows /\ [Working]_checkpointVars => CallKnows'
<1> SUFFICES ASSUME CheckpointTypeOK, Exclusive, CallHead, CallKnows, [Working]_checkpointVars PROVE CallKnows'
  OBVIOUS
<1>0. UNCHANGED outage
  BY DEF Working, checkpointVars
<1> USE <1>0 DEF CheckpointTypeOK, Exclusive, CallHead, CallKnows, Expected, Storing
<1>1. ASSUME NEW s \in Session, Open(s) PROVE CallKnows'
  BY <1>1 DEF Open, Goto, Step, disk, sessions, LockFree
<1>2. ASSUME NEW s \in Session, Leave(s) PROVE CallKnows'
  BY <1>2 DEF Leave, Goto, Step, disk, sessions
<1>3. ASSUME NEW s \in Session, Submit(s) PROVE CallKnows'
  BY <1>3 DEF Submit, Goto, Step, disk, sessions
<1>4. ASSUME NEW s \in Session, Archive(s) PROVE CallKnows'
  BY <1>4 DEF Archive, Goto, Step, disk, sessions
<1>5. ASSUME NEW s \in Session, SyncArchive(s) PROVE CallKnows'
  BY <1>5 DEF SyncArchive, Goto, Step, disk, sessions
<1>6. ASSUME NEW s \in Session, ArchiveExists(s) PROVE CallKnows'
  BY <1>6 DEF ArchiveExists, Goto, Step, disk, sessions
<1>7. ASSUME NEW s \in Session, ReplaceHead(s) PROVE CallKnows'
  BY <1>7 DEF ReplaceHead, Goto, Step, disk, sessions
<1>8. ASSUME NEW s \in Session, SyncHead(s) PROVE CallKnows'
  BY <1>8 DEF SyncHead, Goto, Step, disk, sessions
<1>9. ASSUME NEW s \in Session, Raises(s) PROVE CallKnows'
  BY <1>9 DEF Raises, Goto, Step, disk, sessions
<1>10. ASSUME NEW s \in Session, ClaimAgain(s) PROVE CallKnows'
  BY <1>10 DEF ClaimAgain, Goto, Step, disk, sessions, Selects
<1>11. ASSUME NEW s \in Session, BeginContinuation(s) PROVE CallKnows'
  BY <1>11 DEF BeginContinuation, Goto, Step, disk, sessions, Selects
<1>12. ASSUME NEW s \in Session, PlaceClaim(s) PROVE CallKnows'
  BY <1>12 DEF PlaceClaim, Goto, Step, disk, sessions
<1>13. ASSUME NEW s \in Session, SyncClaim(s) PROVE CallKnows'
  BY <1>13 DEF SyncClaim, Goto, Step, disk, sessions
<1>14. ASSUME NEW s \in Session, CommitLink(s) PROVE CallKnows'
  BY <1>14 DEF CommitLink, Goto, Step, disk, sessions, Links
<1>15. ASSUME NEW s \in Session, CommitRaises(s) PROVE CallKnows'
  BY <1>15 DEF CommitRaises, Goto, Step, disk, sessions, Links
<1>16. ASSUME NEW s \in Session, Dispatch(s) PROVE CallKnows'
  BY <1>16 DEF Dispatch, Goto, Step, disk, sessions
<1>17. ASSUME NEW s \in Session, NEW b \in Bundle, CloseMilestone(s, b) PROVE CallKnows'
  BY <1>17, BundleLen DEF CloseMilestone, Goto, Step, disk, sessions
<1>18. ASSUME NEW s \in Session, NEW b \in Bundle, RetryClosure(s, b) PROVE CallKnows'
  BY <1>18 DEF RetryClosure, Goto, Step, disk, sessions
<1>19. CASE UNCHANGED checkpointVars
  BY <1>19 DEF checkpointVars, disk, sessions
<1> QED BY <1>1, <1>2, <1>3, <1>4, <1>5, <1>6, <1>7, <1>8, <1>9, <1>10, <1>11, <1>12, <1>13, <1>14, <1>15, <1>16, <1>17, <1>18, <1>19 DEF Working, Acts

LEMMA ClaimsStep == CheckpointTypeOK /\ Exclusive /\ CallHead /\ CallKnows /\ ClaimsHeld /\ [Working]_checkpointVars => ClaimsHeld'
<1> SUFFICES ASSUME CheckpointTypeOK, Exclusive, CallHead, CallKnows, ClaimsHeld, [Working]_checkpointVars PROVE ClaimsHeld'
  OBVIOUS
<1>0. UNCHANGED outage
  BY DEF Working, checkpointVars
<1> USE <1>0, CheckpointAssumption, BundleLen DEF CheckpointTypeOK, CallHead, CallKnows, ClaimsHeld, Storing
<1>1. ASSUME NEW s \in Session, Open(s) PROVE ClaimsHeld'
  BY <1>1 DEF Open, Goto, Step, disk, sessions, LockFree
<1>2. ASSUME NEW s \in Session, Leave(s) PROVE ClaimsHeld'
  BY <1>2 DEF Leave, Goto, Step, disk, sessions
<1>3. ASSUME NEW s \in Session, Submit(s) PROVE ClaimsHeld'
  BY <1>3 DEF Submit, Goto, Step, disk, sessions
<1>4. ASSUME NEW s \in Session, Archive(s) PROVE ClaimsHeld'
  BY <1>4 DEF Archive, Goto, Step, disk, sessions
<1>5. ASSUME NEW s \in Session, SyncArchive(s) PROVE ClaimsHeld'
  BY <1>5 DEF SyncArchive, Goto, Step, disk, sessions
<1>6. ASSUME NEW s \in Session, ArchiveExists(s) PROVE ClaimsHeld'
  BY <1>6 DEF ArchiveExists, Goto, Step, disk, sessions
<1>7. ASSUME NEW s \in Session, ReplaceHead(s) PROVE ClaimsHeld'
  BY <1>7 DEF ReplaceHead, Goto, Step, disk, sessions
<1>8. ASSUME NEW s \in Session, SyncHead(s) PROVE ClaimsHeld'
  BY <1>8 DEF SyncHead, Goto, Step, disk, sessions
<1>9. ASSUME NEW s \in Session, Raises(s) PROVE ClaimsHeld'
  BY <1>9 DEF Raises, Goto, Step, disk, sessions
<1>10. ASSUME NEW s \in Session, ClaimAgain(s) PROVE ClaimsHeld'
  BY <1>10 DEF ClaimAgain, Goto, Step, disk, sessions, Selects
<1>11. ASSUME NEW s \in Session, BeginContinuation(s) PROVE ClaimsHeld'
  BY <1>11 DEF BeginContinuation, Goto, Step, disk, sessions, Selects
<1>12. ASSUME NEW s \in Session, PlaceClaim(s)
      PROVE  ClaimsHeld'
  <2>1. work[s] \in Bundle /\ claim[work[s]] = NoSession
    BY <1>12 DEF PlaceClaim
  <2>2. claim' = [claim EXCEPT ![work[s]] = s] /\ UNCHANGED <<continued, sent>>
    BY <1>12 DEF PlaceClaim, sessions
  <2>3. ASSUME NEW t \in Session PROVE continued[t] # work[s]
    <3>1. t # NoSession /\ work[s] # NoBundle
      BY <2>1
    <3>2. continued[t] # NoBundle => claim[continued[t]] = t
      BY DEF ClaimsHeld
    <3> QED BY <2>1, <3>1, <3>2
  <2>4. \A t \in Session : t \notin sent[work[s]]
    BY <2>1
  <2> QED BY <2>1, <2>2, <2>3, <2>4, ZenonT(60)
<1>13. ASSUME NEW s \in Session, SyncClaim(s) PROVE ClaimsHeld'
  BY <1>13 DEF SyncClaim, Goto, Step, disk, sessions
<1>14. ASSUME NEW s \in Session, CommitLink(s) PROVE ClaimsHeld'
  BY <1>14 DEF CommitLink, Goto, Step, disk, sessions, Links
<1>15. ASSUME NEW s \in Session, CommitRaises(s) PROVE ClaimsHeld'
  BY <1>15, ZenonT(60) DEF CommitRaises, Goto, Step, disk, sessions, Links
<1>16. ASSUME NEW s \in Session, Dispatch(s) PROVE ClaimsHeld'
  BY <1>16 DEF Dispatch, Goto, Step, disk, sessions
<1>17. ASSUME NEW s \in Session, NEW b \in Bundle, CloseMilestone(s, b) PROVE ClaimsHeld'
  BY <1>17 DEF CloseMilestone, Goto, Step, disk, sessions
<1>18. ASSUME NEW s \in Session, NEW b \in Bundle, RetryClosure(s, b) PROVE ClaimsHeld'
  BY <1>18 DEF RetryClosure, Goto, Step, disk, sessions
<1>19. CASE UNCHANGED checkpointVars
  BY <1>19 DEF checkpointVars, disk, sessions
<1> QED BY <1>1, <1>2, <1>3, <1>4, <1>5, <1>6, <1>7, <1>8, <1>9, <1>10, <1>11, <1>12, <1>13, <1>14, <1>15, <1>16, <1>17, <1>18, <1>19 DEF Working, Acts

LEMMA LineageStep == CheckpointTypeOK /\ CallHead /\ CallKnows /\ LineageKept /\ ~outage /\ [Working]_checkpointVars => LineageKept'
<1> SUFFICES ASSUME CheckpointTypeOK, CallHead, CallKnows, LineageKept, ~outage, [Working]_checkpointVars PROVE LineageKept'
  OBVIOUS
<1>0. UNCHANGED outage
  BY DEF Working, checkpointVars
<1> USE <1>0 DEF CheckpointTypeOK, CallHead, CallKnows, LineageKept, Loads, Storing
<1>1. ASSUME NEW s \in Session, Open(s) PROVE LineageKept'
  BY <1>1 DEF Open, Goto, Step, disk, sessions, LockFree
<1>2. ASSUME NEW s \in Session, Leave(s) PROVE LineageKept'
  BY <1>2 DEF Leave, Goto, Step, disk, sessions
<1>3. ASSUME NEW s \in Session, Submit(s) PROVE LineageKept'
  BY <1>3 DEF Submit, Goto, Step, disk, sessions
<1>4. ASSUME NEW s \in Session, Archive(s) PROVE LineageKept'
  BY <1>4 DEF Archive, Goto, Step, disk, sessions
<1>5. ASSUME NEW s \in Session, SyncArchive(s) PROVE LineageKept'
  BY <1>5 DEF SyncArchive, Goto, Step, disk, sessions
<1>6. ASSUME NEW s \in Session, ArchiveExists(s) PROVE LineageKept'
  BY <1>6 DEF ArchiveExists, Goto, Step, disk, sessions
<1>7. ASSUME NEW s \in Session, ReplaceHead(s)
      PROVE  LineageKept'
  <2>1. work[s] \in Bundle /\ Expected(s, work[s]) /\ work[s] \in archive
    BY <1>7 DEF ReplaceHead
  <2>2. head \in Lineage /\ work[s] \in Lineage /\ \A t \in Session : link[t] \in Lineage
    BY <2>1 DEF Lineage
  <2>3. LeadsTo(head, work[s])
    BY <2>1, <2>2, LeadsToPrevious DEF Expected
  <2>4. ASSUME NEW t \in Session PROVE LeadsTo(link[t], work[s])
    <3>1. LeadsTo(link[t], head)
      BY DEF LineageKept
    <3> QED BY <2>2, <2>3, <3>1, LeadsToOrder, ZenonT(60)
  <2>5. link[s] = Previous(work[s])
    BY <2>1, <2>2, LeadsToOrder DEF Expected
  <2>6. UNCHANGED <<archive, link>> /\ head' = work[s] /\ publisher' = s
    BY <1>7 DEF ReplaceHead, sessions
  <2> QED BY <2>1, <2>4, <2>5, <2>6
<1>8. ASSUME NEW s \in Session, SyncHead(s) PROVE LineageKept'
  BY <1>8 DEF SyncHead, Goto, Step, disk, sessions
<1>9. ASSUME NEW s \in Session, Raises(s) PROVE LineageKept'
  BY <1>9 DEF Raises, Goto, Step, disk, sessions
<1>10. ASSUME NEW s \in Session, ClaimAgain(s) PROVE LineageKept'
  BY <1>10 DEF ClaimAgain, Goto, Step, disk, sessions, Selects
<1>11. ASSUME NEW s \in Session, BeginContinuation(s) PROVE LineageKept'
  BY <1>11 DEF BeginContinuation, Goto, Step, disk, sessions, Selects
<1>12. ASSUME NEW s \in Session, PlaceClaim(s) PROVE LineageKept'
  BY <1>12 DEF PlaceClaim, Goto, Step, disk, sessions
<1>13. ASSUME NEW s \in Session, SyncClaim(s) PROVE LineageKept'
  BY <1>13 DEF SyncClaim, Goto, Step, disk, sessions
<1>14. ASSUME NEW s \in Session, CommitLink(s)
      PROVE  LineageKept'
  <2>1. head \in Lineage /\ work[s] = head /\ UNCHANGED <<head, archive, publisher>>
    BY <1>14 DEF CommitLink, Lineage, disk
  <2>2. link' = [link EXCEPT ![s] = head]
    BY <1>14, <2>1 DEF CommitLink, Links
  <2>3. LeadsTo(head, head)
    BY <2>1, LeadsToOrder
  <2>4. \A t \in Session : link'[t] = link[t] \/ link'[t] = head
    BY <2>2
  <2> QED BY <2>1, <2>3, <2>4
<1>15. ASSUME NEW s \in Session, CommitRaises(s)
      PROVE  LineageKept'
  <2>1. head \in Lineage /\ work[s] = head /\ UNCHANGED <<head, archive, publisher>>
    BY <1>15 DEF CommitRaises, Lineage, disk
  <2>2. link' = [link EXCEPT ![s] = head] \/ link' = link
    BY <1>15, <2>1 DEF CommitRaises, Links
  <2>3. LeadsTo(head, head)
    BY <2>1, LeadsToOrder
  <2>4. \A t \in Session : link'[t] = link[t] \/ link'[t] = head
    BY <2>2
  <2> QED BY <2>1, <2>3, <2>4
<1>16. ASSUME NEW s \in Session, Dispatch(s) PROVE LineageKept'
  BY <1>16 DEF Dispatch, Goto, Step, disk, sessions
<1>17. ASSUME NEW s \in Session, NEW b \in Bundle, CloseMilestone(s, b) PROVE LineageKept'
  BY <1>17 DEF CloseMilestone, Goto, Step, disk, sessions
<1>18. ASSUME NEW s \in Session, NEW b \in Bundle, RetryClosure(s, b) PROVE LineageKept'
  BY <1>18 DEF RetryClosure, Goto, Step, disk, sessions
<1>19. CASE UNCHANGED checkpointVars
  BY <1>19 DEF checkpointVars, disk, sessions
<1> QED BY <1>1, <1>2, <1>3, <1>4, <1>5, <1>6, <1>7, <1>8, <1>9, <1>10, <1>11, <1>12, <1>13, <1>14, <1>15, <1>16, <1>17, <1>18, <1>19 DEF Working, Acts

LEMMA SurvivorsStep ==
  CheckpointTypeOK /\ CallHead /\ SurvivorsOnLineage /\ [Working]_checkpointVars => SurvivorsOnLineage'
<1> SUFFICES ASSUME CheckpointTypeOK, CallHead, SurvivorsOnLineage, [Working]_checkpointVars
             PROVE  SurvivorsOnLineage'
  OBVIOUS
<1>1. ASSUME NEW s \in Session, ReplaceHead(s) PROVE SurvivorsOnLineage'
  <2>1. work[s] \in Bundle /\ Expected(s, work[s])
    BY <1>1 DEF ReplaceHead, CallHead
  <2>2. head \in Lineage /\ work[s] \in Lineage /\ \A b \in headMay : b \in Lineage
    BY <2>1 DEF Lineage, CheckpointTypeOK
  <2>3. LeadsTo(head, work[s]) /\ LeadsTo(work[s], work[s])
    BY <2>1, <2>2, LeadsToPrevious, LeadsToOrder DEF Expected
  <2>4. \A b \in headMay : LeadsTo(b, work[s])
    BY <2>2, <2>3, LeadsToOrder DEF SurvivorsOnLineage
  <2>5. head' = work[s] /\ headMay' = headMay \cup {work[s]}
    BY <1>1 DEF ReplaceHead
  <2> QED BY <2>3, <2>4, <2>5 DEF SurvivorsOnLineage
<1>2. ASSUME NEW s \in Session, SyncHead(s) PROVE SurvivorsOnLineage'
  <2>1. head \in Lineage /\ head' = head /\ headMay' = {head}
    BY <1>2 DEF SyncHead, CheckpointTypeOK, Lineage
  <2>2. LeadsTo(head, head)
    BY <2>1, LeadsToOrder
  <2> QED BY <2>1, <2>2 DEF SurvivorsOnLineage
<1>3. ASSUME UNCHANGED <<head, headMay>> PROVE SurvivorsOnLineage'
  BY <1>3 DEF SurvivorsOnLineage
<1>4. ASSUME NEW s \in Session, Acts(s)
      PROVE  ReplaceHead(s) \/ SyncHead(s) \/ UNCHANGED <<head, headMay>>
  BY <1>4 DEF Acts, Open, Leave, Submit, CloseMilestone, RetryClosure, Archive, SyncArchive,
     ArchiveExists, Raises, ClaimAgain, BeginContinuation, PlaceClaim, SyncClaim, CommitLink,
     CommitRaises, Dispatch, disk
<1>5. CASE UNCHANGED checkpointVars
  BY <1>3, <1>5 DEF checkpointVars, disk
<1> QED BY <1>1, <1>2, <1>3, <1>4, <1>5 DEF Working

(* A power failure leaves a head in the lineage of the last one, and nobody *)
(* at the store.                                                            *)
LEMMA PowerLossStep == HeadInv /\ PowerLoss => HeadInv'
<1> SUFFICES ASSUME HeadInv, PowerLoss PROVE HeadInv'
  OBVIOUS
<1>1. CheckpointTypeOK'
  <2>1. /\ head' \in headMay /\ headMay' = {head'} /\ outage' = TRUE /\ unsynced' = {}
        /\ publisher' \in {publisher, NoSession} /\ UNCHANGED <<sessions, sent>>
        /\ at' = [s \in Session |-> "away"] /\ work' = [s \in Session |-> NoBundle]
    BY DEF PowerLoss
  <2>2. archive' \subseteq archive /\ durable' = archive'
    BY DEF PowerLoss, HeadInv, CheckpointTypeOK
  <2>3. claims' \in {"absent", "unsynced", "synced"}
    BY DEF PowerLoss, HeadInv, CheckpointTypeOK
  <2>4. claim' \in [Bundle -> Session \cup {NoSession}]
    <3>1. PICK lost : claim' = [b \in Bundle |-> IF b \in lost THEN NoSession ELSE claim[b]]
      BY DEF PowerLoss
    <3> QED BY <3>1 DEF HeadInv, CheckpointTypeOK
  <2> QED BY <2>1, <2>2, <2>3, <2>4 DEF HeadInv, CheckpointTypeOK, sessions, Place
<1>2. Exclusive' /\ CallHead'
  <2>1. \A s \in Session : at'[s] = "away"
    BY DEF PowerLoss
  <2> QED BY <2>1 DEF Exclusive, CallHead
<1>3. SurvivorsOnLineage'
  <2>1. headMay' = {head'} /\ head' \in Lineage
    BY DEF PowerLoss, HeadInv, CheckpointTypeOK, Lineage
  <2>2. LeadsTo(head', head')
    BY <2>1, LeadsToOrder
  <2> QED BY <2>1, <2>2 DEF SurvivorsOnLineage
<1> QED BY <1>1, <1>2, <1>3 DEF HeadInv

-----------------------------------------------------------------------------
LEMMA InvInit == CheckpointInit => CheckpointInv
<1> SUFFICES ASSUME CheckpointInit PROVE CheckpointInv
  OBVIOUS
<1>1. LeadsTo(NoBundle, NoBundle)
  BY LeadsToOrder DEF Lineage
<1>2. LineageKept
  BY <1>1 DEF CheckpointInit, LineageKept, Loads
<1>3. HeadInv
  BY <1>1 DEF CheckpointInit, HeadInv, CheckpointTypeOK, Exclusive, CallHead, SurvivorsOnLineage, Place
<1> QED BY <1>2, <1>3 DEF CheckpointInit, CheckpointInv, CallKnows, ClaimsHeld

(* The session at the store is alone and what it checked stays so: the      *)
(* invariant the properties follow from.                                    *)
THEOREM CheckpointInvariant == CheckpointSpec => []CheckpointInv
<1>1. CheckpointInv /\ [CheckpointNext]_checkpointVars => CheckpointInv'
  <2> SUFFICES ASSUME CheckpointInv, [CheckpointNext]_checkpointVars PROVE CheckpointInv'
    OBVIOUS
  <2>1. CASE PowerLoss
    <3>1. outage'
      BY <2>1 DEF PowerLoss
    <3> QED BY <2>1, <3>1, PowerLossStep DEF CheckpointInv
  <2>2. CASE [Working]_checkpointVars
    <3>1. HeadInv'
      BY <2>2, TypeStep, ExclusiveStep, CallHeadStep, SurvivorsStep DEF CheckpointInv, HeadInv
    <3>2. outage' = outage
      BY <2>2 DEF Working, checkpointVars
    <3>3. ASSUME ~outage PROVE CallKnows' /\ ClaimsHeld' /\ LineageKept'
      BY <2>2, <3>3, CallStep, ClaimsStep, LineageStep DEF CheckpointInv, HeadInv
    <3> QED BY <3>1, <3>2, <3>3 DEF CheckpointInv
  <2> QED BY <2>1, <2>2 DEF CheckpointNext, Working
<1> QED BY InvInit, <1>1, PTL DEF CheckpointSpec

(* close_milestone and current.json: the head comes from whatever a power    *)
(* failure may leave of it, after one outage and after the next.            *)
THEOREM SurvivorsHold == CheckpointSpec => []SurvivorsOnLineage
<1>1. CheckpointInv => SurvivorsOnLineage
  BY DEF CheckpointInv, HeadInv
<1> QED BY CheckpointInvariant, <1>1, PTL

(* claim_continuation and resolve_continuation: until a power failure, no   *)
(* two sessions dispatch work from one checkpoint.                          *)
THEOREM ContinuedOnce == CheckpointSpec => []OneContinuation
<1>1. CheckpointInv => OneContinuation
  BY DEF CheckpointInv, ClaimsHeld, OneContinuation
<1> QED BY CheckpointInvariant, <1>1, PTL

(* close_milestone: until a power failure, the head has its archive, every  *)
(* session's checkpoint is in its lineage, and who put it there can repeat  *)
(* the closure.                                                             *)
THEOREM LineageAlwaysKept == CheckpointSpec => []LineageKept
<1>1. CheckpointInv => LineageKept
  BY DEF CheckpointInv, LineageKept
<1> QED BY CheckpointInvariant, <1>1, PTL
=============================================================================
