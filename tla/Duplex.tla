--------------------------------- MODULE Duplex ---------------------------------
(***************************************************************************)
(* One broker exchange over the pipes of an isolated worker, run/duplex.py, *)
(* as exchange_in_container owns it, run/async_isolation.py.  The tasks:    *)
(*   bounded   bounded_exchange, under its deadline                         *)
(*   talk      _conversation: offer, claim, handler, reply, result          *)
(*   early     the read that watches for output before the reply            *)
(*   handler   the provider call, with a finally block that awaits          *)
(*   errors    the reader of stderr                                         *)
(* A task runs to its next await in one step.  A cancellation is delivered  *)
(* to what a task awaits: asyncio.gather passes it on to every task it      *)
(* gathers, once for each cancel.  The worker writes what it likes.         *)
(***************************************************************************)
EXTENDS Naturals

CONSTANTS MaxFrames,         \* what a worker writes, and how often its caller
          MaxCancels         \* cancels: bounds of the runs

VARIABLES worker,            \* "alive", or how it ended
          frames, written,   \* frames not read yet; all it ever wrote
          replied,           \* the host's reply is in its pipe
          bounded, talk, early, handler, errors,
          cancelling,        \* which of bounded and talk were cancelled, and are
          outcome,           \* what the talk, and then the exchange, comes to
          deadline,          \* it has passed
          hits,              \* how often the handler was cancelled
          cancels, forwarded \* the caller's cancels; one was passed on
io == <<worker, frames, written, replied>>
owner == <<deadline, cancels, forwarded>>

Talking == {"offer", "claim", "tick", "wait", "settle", "result", "tail", "exit"}
Finished(t) == t \in {"none", "done", "replied", "failed", "cancelled", "interrupted"}

DuplexTypeOK ==
  /\ worker \in {"alive", "exited", "failed"}
  /\ frames \in 0..MaxFrames /\ written \in 0..MaxFrames /\ replied \in BOOLEAN
  /\ bounded \in {"gather", "closing", "ended"} /\ talk \in Talking \cup {"done"}
  /\ early \in {"none", "reading", "done", "cancelled"}
  /\ handler \in {"none", "running", "cleaning", "replied", "failed", "cancelled",
                  "interrupted"}
  /\ errors \in {"reading", "done", "failed", "cancelled"}
  /\ cancelling \subseteq {"bounded", "talk"}
  /\ outcome \in {"none", "reply", "answer", "error", "cancelled"}
  /\ deadline \in BOOLEAN /\ hits \in Nat
  /\ cancels \in 0..MaxCancels /\ forwarded \in BOOLEAN

Init == /\ worker = "alive" /\ frames = 0 /\ written = 0 /\ replied = FALSE
        /\ bounded = "gather" /\ talk = "offer" /\ early = "none" /\ handler = "none"
        /\ errors = "reading" /\ cancelling = {} /\ outcome = "none"
        /\ deadline = FALSE /\ hits = 0 /\ cancels = 0 /\ forwarded = FALSE

-----------------------------------------------------------------------------
(* The worker.                                                              *)
Writes == /\ worker = "alive" /\ written < MaxFrames
          /\ frames' = frames + 1 /\ written' = written + 1
          /\ UNCHANGED <<worker, replied, bounded, talk, early, handler, errors,
                         cancelling, outcome, hits, owner>>
Exits == /\ worker = "alive" /\ worker' \in {"exited", "failed"}
         /\ UNCHANGED <<frames, written, replied, bounded, talk, early, handler, errors,
                        cancelling, outcome, hits, owner>>
Readable == frames > 0 \/ worker # "alive"

(* _stderr: end of file, or more than it may say.                           *)
ReadErrors == /\ errors = "reading"
              /\ \/ worker # "alive" /\ errors' = "done"
                 \/ errors' = "failed"
              /\ UNCHANGED <<io, bounded, talk, early, handler, cancelling, outcome,
                             hits, owner>>

(* early: one byte, or end of file.                                         *)
ReadEarly == /\ early = "reading" /\ Readable /\ early' = "done"
             /\ frames' = IF frames > 0 THEN frames - 1 ELSE frames
             /\ UNCHANGED <<worker, written, replied, bounded, talk, handler, errors,
                            cancelling, outcome, hits, owner>>

(* The handler answers or fails; cancelled, it awaits its cleanup.          *)
HandlerEnds == /\ handler = "running" /\ handler' \in {"replied", "failed"}
               /\ UNCHANGED <<io, bounded, talk, early, errors, cancelling, outcome,
                              hits, owner>>
HandlerCleans == /\ handler = "cleaning" /\ handler' = "cancelled"
                 /\ UNCHANGED <<io, bounded, talk, early, errors, cancelling, outcome,
                                hits, owner>>
CancelHandler ==
  IF Finished(handler) THEN UNCHANGED <<handler, hits>>
  ELSE /\ hits' = hits + 1
       /\ handler' = IF handler = "running" THEN "cleaning" ELSE "interrupted"

-----------------------------------------------------------------------------
(* _conversation.                                                           *)
TalkEnds(o) == talk' = "done" /\ outcome' = o
Speaks == talk \in Talking \ {"settle"} /\ "talk" \notin cancelling

Offer == /\ talk = "offer" /\ Speaks
         /\ \/ talk' = "claim" /\ UNCHANGED outcome
            \/ worker # "alive" /\ TalkEnds("error")
         /\ UNCHANGED <<io, bounded, early, handler, errors, cancelling, hits, owner>>
Claim == /\ talk = "claim" /\ Speaks /\ Readable
         /\ IF frames > 0
            THEN talk' = "tick" /\ early' = "reading" /\ frames' = frames - 1
                 /\ UNCHANGED outcome
            ELSE TalkEnds("error") /\ UNCHANGED <<early, frames>>
         /\ UNCHANGED <<worker, written, replied, bounded, handler, errors, cancelling,
                        hits, owner>>

(* finally: cancel what is pending, and gather it.                          *)
Settle(o) == /\ talk' = "settle" /\ outcome' = o
             /\ early' = IF early = "reading" THEN "cancelled" ELSE early
             /\ CancelHandler
Tick == /\ talk = "tick" /\ Speaks
        /\ \/ early = "done" /\ Settle("error")
           \/ /\ early # "done" /\ talk' = "wait" /\ handler' = "running"
              /\ UNCHANGED <<early, outcome, hits>>
        /\ UNCHANGED <<io, bounded, errors, cancelling, owner>>
Wait == /\ talk = "wait" /\ Speaks /\ (early = "done" \/ Finished(handler))
        /\ Settle(IF early # "done" /\ handler = "replied" THEN "reply" ELSE "error")
        /\ UNCHANGED <<io, bounded, errors, cancelling, owner>>
SettledEarly == /\ talk = "settle" /\ early # "reading"       \* mutant: not gathered
                /\ IF outcome = "reply" /\ "talk" \notin cancelling
                   THEN talk' = "result" /\ replied' = TRUE /\ UNCHANGED outcome
                   ELSE replied' = replied
                        /\ TalkEnds(IF "talk" \in cancelling THEN "cancelled" ELSE "error")
                /\ UNCHANGED <<worker, frames, written, bounded, early, handler, errors,
                               cancelling, hits, owner>>
Settled == /\ talk = "settle" /\ early # "reading" /\ Finished(handler)
           /\ IF outcome = "reply" /\ "talk" \notin cancelling
              THEN talk' = "result" /\ replied' = TRUE /\ UNCHANGED outcome
              ELSE replied' = replied
                   /\ TalkEnds(IF "talk" \in cancelling THEN "cancelled" ELSE "error")
           /\ UNCHANGED <<worker, frames, written, bounded, early, handler, errors,
                          cancelling, hits, owner>>
Result == /\ talk = "result" /\ Speaks /\ Readable
          /\ IF frames > 0 THEN talk' = "tail" /\ frames' = frames - 1 /\ UNCHANGED outcome
                           ELSE TalkEnds("error") /\ UNCHANGED frames
          /\ UNCHANGED <<worker, written, replied, bounded, early, handler, errors,
                         cancelling, hits, owner>>
Tail == /\ talk = "tail" /\ Speaks /\ Readable
        /\ IF frames > 0 THEN TalkEnds("error") ELSE talk' = "exit" /\ UNCHANGED outcome
        /\ UNCHANGED <<io, bounded, early, handler, errors, cancelling, hits, owner>>
Exit == /\ talk = "exit" /\ Speaks
        /\ TalkEnds(IF worker = "exited" THEN "answer" ELSE "error")
        /\ UNCHANGED <<io, bounded, early, handler, errors, cancelling, hits, owner>>
(* CancelledError at the await it is at.                                    *)
TalkCancelled == /\ talk \in Talking \ {"settle"} /\ "talk" \in cancelling
                 /\ IF talk \in {"tick", "wait"} THEN Settle("cancelled")
                    ELSE TalkEnds("cancelled") /\ UNCHANGED <<early, handler, hits>>
                 /\ UNCHANGED <<io, bounded, errors, cancelling, owner>>

-----------------------------------------------------------------------------
(* task.cancel() on bounded: what it gathers is cancelled with it.          *)
CancelTalk == IF talk = "settle" THEN CancelHandler ELSE UNCHANGED <<handler, hits>>
CancelBounded ==
  /\ cancelling' = cancelling \cup {"bounded"} \cup (IF talk = "done" THEN {} ELSE {"talk"})
  /\ errors' = IF errors = "reading" THEN "cancelled" ELSE errors
  /\ CancelTalk

Deadline == /\ ~deadline /\ bounded = "gather" /\ deadline' = TRUE
            /\ CancelBounded
            /\ UNCHANGED <<io, bounded, talk, early, outcome, cancels, forwarded>>

(* _OwnedOperations.exchange: the first cancel of the caller is passed on.  *)
CallerCancels ==
  /\ bounded # "ended" /\ cancels < MaxCancels /\ cancels' = cancels + 1
  /\ IF forwarded THEN UNCHANGED <<forwarded, cancelling, errors, handler, hits>>
                  ELSE forwarded' = TRUE /\ CancelBounded
  /\ UNCHANGED <<io, bounded, talk, early, outcome, deadline>>

(* The gather ends with both tasks, or raises with the first that fails or  *)
(* is cancelled; finally, what is still running is cancelled, unless it was.*)
GatherEnds == talk = "done" /\ errors = "done"
Fails == \/ talk = "done" /\ outcome # "answer"
         \/ errors \in {"failed", "cancelled"}
ClosingWaits ==                 \* mutant: finally waits for a talk it did not cancel
  /\ bounded = "gather" /\ (GatherEnds \/ Fails) /\ bounded' = "closing"
  /\ cancelling' = cancelling \ {"bounded"}
  /\ errors' = IF errors = "reading" THEN "cancelled" ELSE errors
  /\ UNCHANGED <<io, talk, early, handler, outcome, hits, owner>>
Closing ==
  /\ bounded = "gather" /\ (GatherEnds \/ Fails) /\ bounded' = "closing"
  /\ cancelling' = (cancelling \ {"bounded"}) \cup (IF talk = "done" THEN {} ELSE {"talk"})
  /\ errors' = IF errors = "reading" THEN "cancelled" ELSE errors
  /\ IF "talk" \in cancelling \/ talk = "done" THEN UNCHANGED <<handler, hits>> ELSE CancelTalk
  /\ UNCHANGED <<io, talk, early, outcome, owner>>

(* The worker is killed, unless the closing was itself cancelled.           *)
Ended == /\ bounded = "closing" /\ talk = "done" /\ bounded' = "ended"
         /\ worker' = IF worker = "alive" /\ "bounded" \notin cancelling THEN "failed"
                      ELSE worker
         /\ outcome' = IF forwarded THEN "cancelled"
                       ELSE IF deadline \/ errors # "done" THEN "error" ELSE outcome
         /\ UNCHANGED <<frames, written, replied, talk, early, handler, errors,
                        cancelling, hits, owner>>

Tasks == \/ ReadErrors \/ ReadEarly \/ HandlerCleans \/ Offer \/ Claim \/ Tick \/ Wait
         \/ Settled \/ Result \/ Tail \/ Exit \/ TalkCancelled \/ Closing \/ Ended

-----------------------------------------------------------------------------
(* An exchange that ended owns nothing any more: its handler, with whatever *)
(* the handler's finally has to settle, ended before it.  And an answer is  *)
(* earned: the handler replied undisturbed, the worker got the reply, wrote *)
(* its claim and its result and nothing else, and exited with 0.            *)
NothingLeft == /\ talk = "done" /\ Finished(handler)
               /\ early # "reading" /\ errors # "reading"
Earned == /\ handler = "replied" /\ hits = 0 /\ replied
          /\ written = 2 /\ frames = 0 /\ worker = "exited"
ExchangeOwned == bounded = "ended" => NothingLeft /\ (outcome = "answer" => Earned)
=============================================================================
