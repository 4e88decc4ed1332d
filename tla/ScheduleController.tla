------------------------- MODULE ScheduleController -------------------------
(***************************************************************************)
(* The recorded schedules of a conversation: the pure schedule of          *)
(* conversation_schedule and its owner, conversation_schedule_controller.  *)
(*                                                                         *)
(* A schedule turns elapsed intervals and the notifications of its pinned  *)
(* source into wakeups of its goal: one commit reserves a fire and appends *)
(* the message, three checks stand between that message and the provider,  *)
(* and every way to stop (cancel, pause, expiry, a newer user message, a   *)
(* changed scope, a restart) retires a wakeup that is still queued.        *)
(*                                                                         *)
(* Controller methods run whole on the event loop.  What they observe from *)
(* outside changes freely between them and is an input of each step: what  *)
(* the clock reading means for the schedule, and whether the observed      *)
(* scope and the registered sources are the frozen ones (here).            *)
(* Abstracted: byte ceilings, so a fire costs one attempt; cadence bounds; *)
(* the goal, whose own rules are in GoalController: here it works, waits   *)
(* or is stopped (edited to another definition, too), has at most one      *)
(* unresolved operation, and is evaluated in one step; the read lane,      *)
(* whose refusals are steps not taken; branches, side chats and children.  *)
(***************************************************************************)
EXTENDS Integers, Sequences, FiniteSets

CONSTANTS
    Schedules,      \* schedule identities
    Pinned,         \* those with a pinned source; the others only have a timer
    MaxFires,       \* spec.maximum_fires
    Attempts,       \* the attempts the goal allows
    MaxEvents,      \* notifications a source may emit
    MaxEntries,     \* messages of the session
    User,           \* the author of an ordinary message
    None            \* a schedule not added yet

ASSUME ScheduleAssumption ==
    /\ IsFiniteSet(Schedules) /\ Pinned \subseteq Schedules /\ User \notin Schedules
    /\ {MaxFires, Attempts, MaxEvents, MaxEntries} \subseteq Nat

VARIABLES
    sched,      \* state.schedules
    entries,    \* state.entries
    goal,       \* the bound goal, as far as schedules read it
    at,         \* the process: its recovery and its turn
    judged,     \* history: evaluations of the goal
    sent,       \* history: messages given to the provider
    revoked     \* history: wakeups stopped before they were sent

vars == <<sched, entries, goal, at, judged, sent, revoked>>
history == <<judged, sent, revoked>>

Readings == {"back", "early", "due", "late"}
Statuses == {"active", "paused", "blocked", "expired", "cancelled", "exhausted", "uncertain"}
Terminal == {"cancelled", "expired", "exhausted", "uncertain"}
Fires == [state : {"reserved", "completed", "uncertain", "skipped"},
          at : 1..MaxEntries, events : 0..MaxEvents]
Records == [status : Statuses, timer : BOOLEAN, pending : 0..MaxEvents,
            cursor : 0..MaxEvents, fires : Seq(Fires), doubts : Nat,
            exposure : Nat, tainted : BOOLEAN]      \* aggregate_exposure

ASSUME NoneAssumption == None \notin Records

ScheduleTypeOK ==
    /\ sched \in [Schedules -> Records \cup {None}]
    /\ entries \in Seq([by : Schedules \cup {User}, ofGoal : BOOLEAN,
                        status : {"queued", "running", "completed", "failed",
                                  "interrupted", "cancelled"}])
    /\ Len(entries) <= MaxEntries
    /\ goal \in [status : {"working", "waiting", "stopped"}, attempts : Nat,
                 unsure : BOOLEAN]
    /\ at \in {"recovering", "idle", "started", "sent"}
    /\ judged \in Nat
    /\ sent \subseteq 1..MaxEntries /\ revoked \subseteq 1..MaxEntries

Added == {s \in Schedules : sched[s] # None}
Up == at # "recovering"
Queued(ents) == {i \in DOMAIN ents : ents[i].status = "queued"}
Running == {i \in DOMAIN entries : entries[i].status = "running"}
Upper(m, n) == IF m > n THEN m ELSE n

-----------------------------------------------------------------------------
(* conversation_schedule: the pure part.                                   *)

Observed(rec, reading) ==
    IF rec.status \in Terminal THEN rec
    ELSE IF reading = "back" THEN [rec EXCEPT !.status = "paused"]
    ELSE IF reading = "late"
    THEN [rec EXCEPT !.status = "expired", !.timer = FALSE, !.pending = 0]
    ELSE [rec EXCEPT !.timer = @ \/ (rec.status = "active" /\ reading = "due")]

(* observe_local_event, once the timer was observed. *)
Notified(rec, n) ==
    IF rec.status # "active" \/ n <= rec.cursor THEN rec
    ELSE [rec EXCEPT !.pending = @ + 1, !.cursor = n]

Held(rec) == {k \in DOMAIN rec.fires : rec.fires[k].state = "reserved"}
Settle(rec, K, state) ==
    [rec EXCEPT !.fires = [k \in DOMAIN rec.fires |->
        IF k \in K THEN [rec.fires[k] EXCEPT !.state = state] ELSE rec.fires[k]]]

(* skip_wakeup, for the fires K that are known not to be dispatched. *)
Skipped(rec, K) ==
    IF K = {} THEN rec
    ELSE [Settle(rec, K, "skipped") EXCEPT
             !.status = IF @ = "active" THEN "paused" ELSE @]

Completed(rec, K) ==
    [Settle(rec, K, "completed") EXCEPT
        !.status = IF @ = "active" /\ Len(rec.fires) >= MaxFires THEN "exhausted" ELSE @]

(* mutant: a skipped wakeup gives its allowance back *)
HoldsOfQueued(except) ==
    {hold \in Added \X (1..MaxFires) :
        LET fires == sched[hold[1]].fires  k == hold[2] IN
        /\ k \in DOMAIN fires /\ fires[k].at # except
        /\ fires[k].state = "reserved" /\ entries[fires[k].at].status = "queued"}

(* The exposure of the goal: its ledger and the wakeups that never entered *)
(* it, because they were skipped or are still queued.                      *)
HoldsOf(except) ==
    {hold \in Added \X (1..MaxFires) :
        LET fires == sched[hold[1]].fires  k == hold[2] IN
        /\ k \in DOMAIN fires /\ fires[k].at # except
        /\ \/ fires[k].state = "skipped"
           \/ fires[k].state = "reserved" /\ entries[fires[k].at].status = "queued"}
ExposureBut(i) == goal.attempts + Cardinality(HoldsOf(i))
Exposure == ExposureBut(0)

(* recover_schedule: a reserved fire becomes uncertain; anything that was  *)
(* not stopped for good waits for the user.                                *)
Recovered(rec, reading) ==
    LET seen == Observed(rec, reading)
        left == IF Held(seen) = {} THEN seen
                ELSE [Settle(seen, Held(seen), "uncertain") EXCEPT
                         !.doubts = @ + 1,
                         !.status = IF @ = "cancelled" THEN @ ELSE "uncertain"]
    IN IF left.status \in Terminal THEN left
       ELSE [left EXCEPT !.status = "paused",
                         !.exposure = Upper(@, Exposure),
                         !.tainted = @ \/ goal.unsure]

SafeBoundary == at = "idle" /\ ~goal.unsure

(* reserve_wakeup, in a matching scope, at a boundary with nothing queued. *)
Reservation(rec) ==
    IF rec.tainted THEN [rec EXCEPT !.status = "uncertain"]
    ELSE IF goal.status # "working" \/ rec.doubts > 0 THEN [rec EXCEPT !.status = "paused"]
    ELSE IF Held(rec) # {} THEN rec
    ELSE IF Len(rec.fires) >= MaxFires \/ Upper(rec.exposure, Exposure) + 1 > Attempts
    THEN [rec EXCEPT !.status = "exhausted", !.timer = FALSE, !.pending = 0]
    ELSE [rec EXCEPT !.timer = FALSE, !.pending = 0,
                     !.exposure = Upper(@, Exposure) + 1,
                     !.fires = Append(@, [state |-> "reserved", at |-> Len(entries) + 1,
                                          events |-> rec.pending])]

-----------------------------------------------------------------------------
(* conversation_schedule_controller.                                       *)

QueuedFires(rec, ents) == {k \in DOMAIN rec.fires : rec.fires[k].at \in Queued(ents)}
Positions(rec, K) == {rec.fires[k].at : k \in K}
CancelAt(ents, P) ==
    [i \in DOMAIN ents |-> IF i \in P THEN [ents[i] EXCEPT !.status = "cancelled"] ELSE ents[i]]

(* _retire_queued_schedule: the record and its queue entries together. *)
Retired(rec, ents) == Skipped(rec, QueuedFires(rec, ents))
Unqueued(rec, ents) == CancelAt(ents, Positions(rec, QueuedFires(rec, ents)))

Unsent(s) == Positions(sched[s], DOMAIN sched[s].fires) \ sent

(* A record that stops takes its queued wakeup with it, in one commit. *)
Stop(s, rec) ==
    /\ sched' = [sched EXCEPT ![s] = Retired(rec, entries)]
    /\ entries' = Unqueued(rec, entries)
    /\ revoked' = revoked \cup Unsent(s)

AddSchedule(s) ==
    /\ Up /\ sched[s] = None /\ goal.status = "working" /\ ~goal.unsure
    /\ sched' = [sched EXCEPT ![s] =
          [status |-> "active", timer |-> FALSE, pending |-> 0, cursor |-> 0,
           fires |-> <<>>, doubts |-> 0, exposure |-> Exposure, tainted |-> FALSE]]
    /\ UNCHANGED <<entries, goal, at, history>>

(* admit_schedule as the host tick: observe the clock, compare the scope,  *)
(* reserve a wakeup when something is pending, and retire the old one when *)
(* the schedule stops.                                                     *)
InScope(rec, here) == IF here THEN rec ELSE [rec EXCEPT !.status = "blocked"]

Admit(s, reading, here) ==
    /\ Up /\ s \in Added
    /\ LET seen == InScope(Observed(sched[s], reading), here)
           offers == /\ seen.status = "active" /\ SafeBoundary /\ Queued(entries) = {}
                     /\ seen.timer \/ seen.pending > 0
           rec == IF offers THEN Reservation(seen) ELSE seen
       IN /\ offers => Len(entries) < MaxEntries
          /\ IF rec.status # "active" THEN Stop(s, rec)
             ELSE /\ sched' = [sched EXCEPT ![s] = rec]
                  /\ entries' = IF Len(rec.fires) > Len(sched[s].fires)
                                THEN Append(entries, [by |-> s, ofGoal |-> TRUE, status |-> "queued"])
                                ELSE entries
                  /\ UNCHANGED revoked
    /\ UNCHANGED <<goal, at, judged, sent>>

(* poll_schedule_sources and receive_external_event: one notification of   *)
(* the source, new or delivered again, without dispatch.                   *)
Notify(s, n, reading) ==
    /\ Up /\ s \in Added \cap Pinned
    /\ goal.status \in {"working", "waiting"} /\ sched[s].status = "active"
    /\ LET rec == Notified(Observed(sched[s], reading), n) IN
       IF rec.status # "active" THEN Stop(s, rec)
       ELSE sched' = [sched EXCEPT ![s] = rec] /\ UNCHANGED <<entries, revoked>>
    /\ UNCHANGED <<goal, at, judged, sent>>

CancelSchedule(s) ==
    /\ Up /\ s \in Added
    /\ Stop(s, [sched[s] EXCEPT !.status = "cancelled", !.timer = FALSE, !.pending = 0])
    /\ UNCHANGED <<goal, at, judged, sent>>

(* pause_schedule: the timer driver when the clock, the goal, a source or  *)
(* an admission is not as it should be, and the host when it lets go.      *)
PauseSchedule(s) ==
    /\ Up /\ s \in Added /\ sched[s].status = "active"
    /\ Stop(s, [sched[s] EXCEPT !.status = "paused"])
    /\ UNCHANGED <<goal, at, judged, sent>>

(* mutant: a resume asks the goal about doubts, and not the schedule *)
ResumableAnyway(rec) ==
    /\ rec.status \in {"paused", "active"}
    /\ goal.status = "working" /\ ~rec.tainted
    /\ Upper(rec.exposure, Exposure) <= Attempts /\ Len(rec.fires) < MaxFires

Resumable(rec) ==
    /\ rec.status \in {"paused", "active"}
    /\ goal.status = "working" /\ ~rec.tainted /\ rec.doubts = 0
    /\ Upper(rec.exposure, Exposure) <= Attempts /\ Len(rec.fires) < MaxFires

ResumeSchedule(s, reading) ==
    /\ Up /\ s \in Added /\ reading # "back"
    /\ LET seen == Observed(sched[s], reading) IN
       /\ Resumable(seen)
       /\ SafeBoundary /\ Queued(entries) = {} /\ Held(seen) = {}
       /\ sched' = [sched EXCEPT ![s] = [seen EXCEPT
              !.status = "active", !.timer = FALSE, !.exposure = Upper(@, Exposure)]]
    /\ UNCHANGED <<entries, goal, at, history>>

(* A dynamic cadence: the timer is observed and starts again. *)
SetCadence(s, reading) ==
    /\ Up /\ s \in Added /\ goal.status = "working" /\ ~goal.unsure
    /\ LET seen == Observed(sched[s], reading) IN
       seen.status = "active" /\ sched' = [sched EXCEPT ![s] = seen]
    /\ UNCHANGED <<entries, goal, at, history>>

-----------------------------------------------------------------------------
(* The conversation: messages, turns and restarts.                         *)

(* A later message, or /cancel of the queue, supersedes the wakeups that   *)
(* are still queued.                                                       *)
QueuedWakeups == {i \in Queued(entries) : entries[i].by # User}
Superseded == [s \in Schedules |-> IF s \in Added THEN Retired(sched[s], entries) ELSE None]

Submit ==
    /\ Up /\ Len(entries) < MaxEntries
    /\ sched' = Superseded
    /\ entries' = Append(CancelAt(entries, QueuedWakeups),
                         [by |-> User, ofGoal |-> goal.status = "working", status |-> "queued"])
    /\ revoked' = revoked \cup QueuedWakeups
    /\ UNCHANGED <<goal, at, judged, sent>>

CancelQueued ==
    /\ Up /\ Queued(entries) # {}
    /\ sched' = Superseded
    /\ entries' = CancelAt(entries, Queued(entries))
    /\ revoked' = revoked \cup QueuedWakeups
    /\ UNCHANGED <<goal, at, judged, sent>>

CanDispatch(i) ==
    /\ entries[i].ofGoal => goal.status = "working" /\ ~goal.unsure
    /\ entries[i].by # User =>
         /\ sched[entries[i].by].status = "active"
         /\ \A j \in Queued(entries) : entries[j].by # User

FireAt(s, i) == CHOOSE k \in DOMAIN sched[s].fires : sched[s].fires[k].at = i

(* revalidate_schedule_dispatch: here stands for the scope, the sources    *)
(* and, at the second check, the prepared request.                         *)
Valid(i, reading, here) ==
    LET s == entries[i].by IN
    s # User =>
      /\ here
      /\ sched[s].status = "active"
      /\ sched[s].fires[FireAt(s, i)].state = "reserved"
      /\ goal.status = "working" /\ ~goal.unsure
      /\ reading # "late"

(* step up to the running save: a wakeup that is not valid at the first or *)
(* the second check is retired; a goal without allowance stops, and the    *)
(* message stays queued.                                                   *)
Start(i, reading, here) ==
    /\ at = "idle" /\ i \in Queued(entries) /\ CanDispatch(i)
    /\ \A j \in 1..(i - 1) : ~(j \in Queued(entries) /\ CanDispatch(j))
    /\ IF ~Valid(i, reading, here)
       THEN Stop(entries[i].by, sched[entries[i].by]) /\ UNCHANGED <<goal, at>>
       ELSE /\ IF entries[i].ofGoal /\ ExposureBut(i) + 1 > Attempts
               THEN goal' = [goal EXCEPT !.status = "stopped"] /\ UNCHANGED <<entries, at>>
               ELSE /\ entries' = [entries EXCEPT ![i].status = "running"]
                    /\ goal' = IF entries[i].ofGoal THEN [goal EXCEPT !.attempts = @ + 1] ELSE goal
                    /\ at' = "started"
            /\ UNCHANGED <<sched, revoked>>
    /\ UNCHANGED <<judged, sent>>

(* The end of a turn that is not known to have completed: the goal has an  *)
(* unresolved operation, the fire becomes uncertain.                       *)
Fails(i, reading, status) ==
    /\ entries' = [entries EXCEPT ![i].status = status]
    /\ sched' = IF entries[i].by = User THEN sched
                ELSE [sched EXCEPT ![entries[i].by] = Recovered(@, reading)]
    /\ goal' = IF entries[i].ofGoal
               THEN [goal EXCEPT !.unsure = TRUE, !.status = "stopped"] ELSE goal

(* The third check, after the running callback and before the provider. *)
Send(i, reading, here) ==
    /\ at = "started" /\ i \in Running
    /\ IF Valid(i, reading, here)
       THEN /\ at' = "sent" /\ sent' = sent \cup {i}
            /\ UNCHANGED <<sched, entries, goal>>
       ELSE Fails(i, reading, "failed") /\ at' = "idle" /\ UNCHANGED sent
    /\ UNCHANGED <<judged, revoked>>

TurnFails(i, reading, status) ==
    /\ at \in {"started", "sent"} /\ i \in Running
    /\ Fails(i, reading, status) /\ at' = "idle"
    /\ UNCHANGED history

TurnCompletes(i) ==
    /\ at = "sent" /\ i \in Running
    /\ entries' = [entries EXCEPT ![i].status = "completed"]
    /\ sched' = IF entries[i].by = User THEN sched
                ELSE [sched EXCEPT ![entries[i].by] = Completed(@, Held(@))]
    /\ at' = "idle"
    /\ UNCHANGED <<goal, history>>

(* The process dies and the session is opened again: a running message is  *)
(* interrupted before anything else, and nothing unsent may be sent later. *)
Restart(reading) ==
    /\ Up /\ at' = "recovering"
    /\ revoked' = revoked \cup UNION {Unsent(s) : s \in Added}
    /\ IF Running = {} THEN UNCHANGED <<sched, entries, goal>>
       ELSE \E i \in Running : Fails(i, reading, "interrupted")
    /\ UNCHANGED <<judged, sent>>

(* recover_schedules: the queued wakeups are known undispatched. *)
RecoverSchedules(reading) ==
    /\ at = "recovering" /\ at' = "idle"
    /\ sched' = [s \in Schedules |->
          IF s \in Added THEN Recovered(Retired(sched[s], entries), reading) ELSE None]
    /\ entries' = CancelAt(entries, QueuedWakeups)
    /\ UNCHANGED <<goal, history>>

-----------------------------------------------------------------------------
(* The goal, between its turns.                                            *)

(* decide, /goal commands, jobs and edits. *)
GoalMoves(status) ==
    /\ Up /\ status # goal.status
    /\ status = "working" => /\ ~goal.unsure /\ goal.attempts < Attempts
                             /\ \A i \in Running : ~entries[i].ofGoal
    /\ goal' = [goal EXCEPT !.status = status]
    /\ UNCHANGED <<sched, entries, at, history>>

(* evaluate_goal charges the goal's own ledger, and may leave its outcome  *)
(* unknown.                                                                *)
Evaluate(known) ==
    /\ SafeBoundary /\ goal.status = "working" /\ goal.attempts < Attempts
    /\ goal' = [goal EXCEPT !.attempts = @ + 1, !.unsure = ~known,
                            !.status = IF known THEN @ ELSE "stopped"]
    /\ judged' = judged + 1
    /\ UNCHANGED <<sched, entries, at, sent, revoked>>

Reconcile ==
    /\ at = "idle" /\ goal.unsure
    /\ goal' = [goal EXCEPT !.unsure = FALSE]
    /\ UNCHANGED <<sched, entries, at, history>>

Init ==
    /\ sched = [s \in Schedules |-> None] /\ entries = <<>>
    /\ goal = [status |-> "working", attempts |-> 0, unsure |-> FALSE]
    /\ at = "idle"
    /\ judged = 0 /\ sent = {} /\ revoked = {}

Control(s) ==
    \/ AddSchedule(s) \/ CancelSchedule(s) \/ PauseSchedule(s)
    \/ \E reading \in Readings :
         \/ ResumeSchedule(s, reading) \/ SetCadence(s, reading)
         \/ \E here \in BOOLEAN : Admit(s, reading, here)
         \/ \E n \in 1..MaxEvents : Notify(s, n, reading)

Turn == \/ Submit \/ CancelQueued
        \/ \E i \in DOMAIN entries, reading \in Readings :
             \/ \E here \in BOOLEAN : Start(i, reading, here) \/ Send(i, reading, here)
             \/ \E status \in {"failed", "cancelled"} : TurnFails(i, reading, status)
        \/ \E i \in DOMAIN entries : TurnCompletes(i)

Goal == \/ \E status \in {"working", "waiting", "stopped"} : GoalMoves(status)
        \/ \E known \in BOOLEAN : Evaluate(known)
        \/ Reconcile

Next == \/ \E s \in Schedules : Control(s)
        \/ Turn \/ Goal
        \/ \E reading \in Readings : Restart(reading) \/ RecoverSchedules(reading)

Spec == Init /\ [][Next]_vars

-----------------------------------------------------------------------------
(* Properties.                                                             *)

(* Every fire and its queue entry tell the same story after every commit   *)
(* (the state validator), a schedule has at most one fire in flight, a     *)
(* wakeup is queued only while its schedule may still send it, no source   *)
(* notification counts twice, and the operations of the goal with the      *)
(* wakeups that were reserved but never started stay within what the goal  *)
(* allows: skipping refunds nothing.  Evaluations look at the ledger alone *)
(* and may go beyond the reserved ones, never beyond the allowance.        *)
Tells(fire, status) ==
    /\ status \in {"queued", "running"} => fire.state = "reserved"
    /\ status = "completed" => fire.state = "completed"
    /\ status \in {"failed", "interrupted"} => fire.state = "uncertain"
    /\ status = "cancelled" => fire.state \in {"skipped", "uncertain"}

(* The notifications the fires took, one pair for each. *)
NotifiedBy(fires) ==
    Cardinality({took \in (DOMAIN fires) \X (1..MaxEvents) : took[2] <= fires[took[1]].events})

NeverStarted ==
    {i \in DOMAIN entries :
        /\ entries[i].by # User
        /\ \/ entries[i].status = "queued"
           \/ sched[entries[i].by].fires[FireAt(entries[i].by, i)].state = "skipped"}

FiresTell ==
    \A s \in Added :
        LET rec == sched[s] IN
        /\ \A k \in DOMAIN rec.fires : Tells(rec.fires[k], entries[rec.fires[k].at].status)
        /\ Cardinality(Held(rec)) <= 1 /\ Len(rec.fires) <= MaxFires
        /\ QueuedFires(rec, entries) # {} => rec.status = "active"

WakeupsAccounted ==
    /\ FiresTell
    /\ \A s \in Added : NotifiedBy(sched[s].fires) + sched[s].pending <= sched[s].cursor
    /\ goal.attempts + Cardinality(NeverStarted) <= Attempts + judged
    /\ goal.attempts <= Attempts

(* Stopping wins: a wakeup that was cancelled, paused, expired, blocked,   *)
(* superseded by a newer message or left behind by a restart before it was *)
(* sent is never sent, however the goal, the scope, the sources and the    *)
(* schedule move afterwards; and a schedule with a wakeup of unknown       *)
(* outcome is never active again, not even through a blocked scope, a      *)
(* restart and a resume after the goal's own doubt was reconciled.         *)
StopsHold ==
    /\ revoked \cap sent = {}
    /\ \A s \in Added :
         (\E k \in DOMAIN sched[s].fires : sched[s].fires[k].state = "uncertain")
           => sched[s].doubts > 0 /\ sched[s].status # "active"
=============================================================================
