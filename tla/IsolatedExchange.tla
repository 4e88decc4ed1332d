---------------------------- MODULE IsolatedExchange ----------------------------
(***************************************************************************)
(* exchange_in_container of run/async_isolation.py: the launcher's steps    *)
(* around one container (ContainerLife) and, while it awaits it, the broker *)
(* exchange (Duplex).  The exchange's worker is the docker client attached  *)
(* to the container: it writes while the container runs, ends with 0 only   *)
(* after the container did, and may fail by itself, or be killed while the  *)
(* container runs on.  A launcher that leaves the exchange, or dies, has    *)
(* forgotten its tasks: their variables are back at their initial values.   *)
(***************************************************************************)
EXTENDS Naturals

CONSTANTS MaxFrames, MaxCancels     \* bounds of the exchange
ASSUME ExchangeAssumption == MaxFrames \in Nat /\ MaxCancels \in Nat

VARIABLES worker, frames, written, replied, bounded, talk, early, handler, errors,
          cancelling, outcome, deadline, hits, cancels, forwarded
exchange == <<worker, frames, written, replied, bounded, talk, early, handler, errors,
              cancelling, outcome, deadline, hits, cancels, forwarded>>

VARIABLES box, requests, launcher, known, guarded, result, lease, watchdog, tries, record
container == <<box, requests, launcher, known, guarded, result, lease, watchdog, tries,
               record>>

vars == <<exchange, container>>

D == INSTANCE Duplex
C == INSTANCE ContainerLife

IsolationTypeOK == D!DuplexTypeOK /\ C!ContainerTypeOK

Init == D!Init /\ C!Init

-----------------------------------------------------------------------------
(* The exchange, while the launcher awaits it.                              *)
Exchanging == launcher = "exchange" /\ UNCHANGED container

Tasks == Exchanging /\ D!Tasks
Provider == Exchanging /\ D!HandlerEnds
Deadline == Exchanging /\ D!Deadline
Cancel == Exchanging /\ D!CallerCancels
Write == Exchanging /\ box = "running" /\ D!Writes
Detach == Exchanging /\ D!Exits /\ (worker' = "exited" => box = "exited")

(* Everything else leaves the exchange as it is, or forgets it.             *)
Forget == /\ worker' = "alive" /\ frames' = 0 /\ written' = 0 /\ replied' = FALSE
          /\ bounded' = "gather" /\ talk' = "offer" /\ early' = "none"
          /\ handler' = "none" /\ errors' = "reading" /\ cancelling' = {}
          /\ outcome' = "none" /\ deadline' = FALSE /\ hits' = 0
          /\ cancels' = 0 /\ forwarded' = FALSE
Apart == IF launcher' = "exchange" THEN UNCHANGED exchange ELSE Forget

(* owned.exchange waits until the exchange ended, cancelled or not; an      *)
(* answer is followed by the inspection, anything else by the finally       *)
(* clause.                                                                  *)
Stop == C!Stops /\ (launcher = "exchange" => bounded = "ended") /\ Apart
Answered == C!Answered /\ bounded = "ended" /\ outcome = "answer" /\ Apart
Launch == C!Launches /\ Apart
Watch == C!Watches /\ Apart
Daemon == C!Daemon /\ Apart
Kill == C!Killed /\ Apart
WatchdogDies == C!WatchdogDies /\ Apart

Launcher == Stop \/ Answered \/ Launch
Next == \/ Tasks \/ Provider \/ Deadline \/ Cancel \/ Write \/ Detach
        \/ Stop \/ Answered \/ Launch \/ Watch \/ Daemon \/ Kill \/ WatchdogDies

(* The event loop runs every task that can run and the deadline passes.     *)
(* Launcher and watchdog run while they live: every call they make has a    *)
(* timeout, and the watchdog's clock passes its deadline.  The worker, the  *)
(* provider and the daemon owe nothing.                                     *)
Fairness == WF_vars(Tasks) /\ WF_vars(Deadline) /\ WF_vars(Launcher) /\ WF_vars(Watch)
Spec == Init /\ [][Next]_vars /\ Fairness

-----------------------------------------------------------------------------
(* Duplex: an exchange that ended left nothing running, whatever worker,    *)
(* provider, deadline and caller did; and an answer was earned.             *)
ExchangeOwned == D!ExchangeOwned

(* It does end, so that the finally clause gets to run: neither a mute      *)
(* worker nor a provider that never answers can keep the launcher.          *)
ExchangeEnds == launcher = "exchange" ~> launcher # "exchange"

(* ContainerLife: a receipt of the watchdog, or a returned answer, means    *)
(* that the container is gone, and a worker runs only under a watchdog.     *)
ConfirmedGone == C!ConfirmedGone

(* A worker that runs is removed, or launcher and watchdog both failed.     *)
WorkerRemoved == C!WorkerRemoved
=============================================================================
