----------------------------- MODULE MCSchedule -----------------------------
(* Two schedules of one goal, one with only a timer and one with a source. *)
EXTENDS ScheduleController

CONSTANTS clock, watch
MCSchedules == {clock, watch}
MCPinned == {watch}

Users == {i \in DOMAIN entries : entries[i].by = User}

(* Bound: one user message or one evaluation; the second schedule is       *)
(* followed, for one fire, while it is not stopped and no user interferes. *)
SecondPlain ==
    /\ Cardinality(Users) + judged <= 1
    /\ sched[clock] # None =>
         /\ sched[watch] # None /\ Users = {} /\ judged = 0
         /\ sched[clock].status \in {"active", "paused"}
         /\ Len(sched[clock].fires) <= 1
=============================================================================
