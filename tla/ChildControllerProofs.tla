------------------------- MODULE ChildControllerProofs -------------------------
(***************************************************************************)
(* ChildController keeps its books and its promises for any number of      *)
(* goals, messages and children.  The argument: goals replace one another, *)
(* so only the latest one is ever selected or has an operation in flight,  *)
(* and the books of the latest cover the session.                          *)
(***************************************************************************)
EXTENDS ChildController, FiniteSetTheorems, WellFoundedInduction, TLAPS

-----------------------------------------------------------------------------
(* The invariant.                                                           *)

Latest == Len(goals)
Going(g) == g.status \in {"working", "waiting"}

(* What the rest of the state may be, the goals and the selection apart.    *)
RestTypeOK ==
    /\ entries \in Seq([goal : 1..MaxGoals, defn : Definitions,
                        status : {"queued", "running", "ended"}])
    /\ Len(entries) <= MaxMessages
    /\ routine \in [at : {"none", "begin", "await", "apply"}, goal : 0..MaxGoals,
                    obs : Observations \cup {None},
                    verdict : {"passed", "failed", "blocked", None}]
    /\ stray \in BOOLEAN /\ inputs \in Inputs
    /\ begun \in Nat /\ spent \in Nat
    /\ passed \in [1..MaxGoals -> Observations \cup {None}]

(* The goals are replaced one after another: only the latest is selected or *)
(* has an operation in flight, and only the selected one goes on.           *)
LatestOnly ==
    /\ current \in {0, Latest}
    /\ \A i \in DOMAIN goals :
         /\ InFlight(goals[i]) => i = Latest
         /\ i # current => ~Going(goals[i])

(* A goal has one operation at a time, waits while it is evaluated, and     *)
(* stops when it has an uncertain effect.                                   *)
GoalHeld(g) ==
    /\ g.held = 0 \/ ~g.evaluating
    /\ g.evaluating => g.status # "working"
    /\ g.uncertain > 0 => ~Going(g)
GoalsHeld == \A i \in DOMAIN goals : GoalHeld(goals[i])

(* A message that runs is the one its goal holds a reservation for.         *)
MessagesHeld ==
    /\ \A m \in DOMAIN entries :
         /\ entries[m].goal \in DOMAIN goals
         /\ entries[m].status = "running" => goals[entries[m].goal].held = m
    /\ \A i \in DOMAIN goals : goals[i].held \in 0..Len(entries)

(* The evaluator works for a goal without doubts, no child of which is at   *)
(* work; a verdict that is applied found its goal as it was left.           *)
RoutineHeld ==
    /\ routine.at = "await" =>
         /\ routine.goal \in DOMAIN goals /\ goals[routine.goal].evaluating
         /\ goals[routine.goal].uncertain = 0 /\ routine.obs \in Observations
         /\ task.at # "none" => children[task.child].goal # routine.goal
    /\ routine.at = "apply" =>
         /\ routine.goal \in DOMAIN goals /\ routine.goal = current
         /\ ~InFlight(goals[current]) /\ goals[current].status = "waiting"
         /\ routine.obs \in Observations
         /\ routine.verdict = "passed" => passed[current] = routine.obs

(* Evidence that passes is what the evaluator last found to pass, and is    *)
(* remembered as judged; no goal has any while it is evaluated.             *)
Passing(g) == g.evidence # None /\ g.evidence.semantic = "passed"
EvidenceOf(g, found) ==
    Passing(g) => g.judged = g.evidence.obs /\ found = g.evidence.obs /\ ~g.evaluating
EvidenceHeld == \A i \in DOMAIN goals : EvidenceOf(goals[i], passed[i])

(* A goal with children has a job; a passed job says that every child is    *)
(* done, and any other that at most one is not.                             *)
JobsHeld ==
    \A c \in DOMAIN children :
      /\ children[c].goal \in DOMAIN goals
      /\ goals[children[c].goal].job # None
      /\ ~Done(children[c]) =>
           /\ goals[children[c].goal].job.state # "passed"
           /\ \A d \in DOMAIN children :
                children[d].goal = children[c].goal /\ ~Done(children[d]) => c = d

(* Where the task is, its child is.                                         *)
TaskPlaced ==
    /\ task.at # "none" => task.child \in DOMAIN children
    /\ task.at \in {"executing", "staging"} => children[task.child].integration = "pending"
                                               /\ children[task.child].state = "running"
    /\ task.at = "staging" => children[task.child].coding
    /\ task.at \in {"verifying", "merging", "confirming"} =>
         /\ children[task.child].integration = "integrating" /\ children[task.child].coding
         /\ children[task.child].state = "completed" /\ children[task.child].handoff = "passed"
    /\ task.at = "confirming" => merged[task.child] = 1
    /\ \A c \in staged : merged[c] = 0
    /\ \A c \in 1..MaxChildren : c \notin DOMAIN children => merged[c] = 0

(* What may still be charged, and the books of the latest goal.             *)
Exposed == (IF Busy THEN Reserve ELSE 0)
             + (IF routine.at = "await" THEN Reserve ELSE 0)
             + (IF Implementing THEN Reserve ELSE 0)
LatestCovers ==
    IF Latest = 0 THEN begun = 0 /\ spent = 0 /\ Exposed = 0
    ELSE /\ goals[Latest].attempts >= begun
         /\ goals[Latest].output >= spent + Exposed

DoubtsHeld ==
    \A i \in DOMAIN goals :
      /\ goals[i].uncertain >= Doubts(i)
      /\ i = 1 => goals[i].uncertain = Doubts(i)

GoalInv ==
    /\ ChildTypeOK /\ LatestOnly /\ GoalsHeld /\ MessagesHeld /\ RoutineHeld
    /\ EvidenceHeld /\ JobsHeld /\ TaskPlaced /\ LatestCovers /\ DoubtsHeld
    /\ PatchesHeld

-----------------------------------------------------------------------------
(* The fields of a goal.                                                    *)

Fields == {"defn", "revisions", "status", "attempts", "output", "uncertain", "held",
           "evaluating", "evidence", "judged", "job"}
Same(h, g, F) == \A f \in Fields \ F : h[f] = g[f]

LEMMA SameChain ==
    ASSUME NEW g, NEW h, NEW k, NEW F, NEW G, NEW H, F \cup G \subseteq H,
           Same(h, g, F), Same(k, h, G)
    PROVE  Same(k, g, H)
BY DEF Same

(* Each field may be given any value of its type.                           *)
LEMMA SetFields ==
    ASSUME NEW g \in DurableGoals
    PROVE  /\ \A x \in Statuses : LET h == [g EXCEPT !.status = x] IN
                 h \in DurableGoals /\ h.status = x /\ Same(h, g, {"status"})
           /\ \A x \in Definitions : LET h == [g EXCEPT !.defn = x] IN
                 h \in DurableGoals /\ h.defn = x /\ Same(h, g, {"defn"})
           /\ \A x \in Nat : LET h == [g EXCEPT !.revisions = x] IN
                 h \in DurableGoals /\ h.revisions = x /\ Same(h, g, {"revisions"})
           /\ \A x \in Nat : LET h == [g EXCEPT !.attempts = x] IN
                 h \in DurableGoals /\ h.attempts = x /\ Same(h, g, {"attempts"})
           /\ \A x \in Nat : LET h == [g EXCEPT !.output = x] IN
                 h \in DurableGoals /\ h.output = x /\ Same(h, g, {"output"})
           /\ \A x \in Nat : LET h == [g EXCEPT !.uncertain = x] IN
                 h \in DurableGoals /\ h.uncertain = x /\ Same(h, g, {"uncertain"})
           /\ \A x \in 0..MaxMessages : LET h == [g EXCEPT !.held = x] IN
                 h \in DurableGoals /\ h.held = x /\ Same(h, g, {"held"})
           /\ \A x \in BOOLEAN : LET h == [g EXCEPT !.evaluating = x] IN
                 h \in DurableGoals /\ h.evaluating = x /\ Same(h, g, {"evaluating"})
           /\ \A x \in Evidences \cup {None} : LET h == [g EXCEPT !.evidence = x] IN
                 h \in DurableGoals /\ h.evidence = x /\ Same(h, g, {"evidence"})
           /\ \A x \in Observations \cup {None} : LET h == [g EXCEPT !.judged = x] IN
                 h \in DurableGoals /\ h.judged = x /\ Same(h, g, {"judged"})
           /\ \A x \in Jobs \cup {None} : LET h == [g EXCEPT !.job = x] IN
                 h \in DurableGoals /\ h.job = x /\ Same(h, g, {"job"})
<1>2. \A x \in Statuses : LET h == [g EXCEPT !.status = x] IN
                 h \in DurableGoals /\ h.status = x /\ Same(h, g, {"status"})
  BY DEF DurableGoals, Same, Fields
<1>3. \A x \in Definitions : LET h == [g EXCEPT !.defn = x] IN
                 h \in DurableGoals /\ h.defn = x /\ Same(h, g, {"defn"})
  BY DEF DurableGoals, Same, Fields
<1>4. \A x \in Nat : LET h == [g EXCEPT !.revisions = x] IN
                 h \in DurableGoals /\ h.revisions = x /\ Same(h, g, {"revisions"})
  BY DEF DurableGoals, Same, Fields
<1>5. \A x \in Nat : LET h == [g EXCEPT !.attempts = x] IN
                 h \in DurableGoals /\ h.attempts = x /\ Same(h, g, {"attempts"})
  BY DEF DurableGoals, Same, Fields
<1>6. \A x \in Nat : LET h == [g EXCEPT !.output = x] IN
                 h \in DurableGoals /\ h.output = x /\ Same(h, g, {"output"})
  BY DEF DurableGoals, Same, Fields
<1>7. \A x \in Nat : LET h == [g EXCEPT !.uncertain = x] IN
                 h \in DurableGoals /\ h.uncertain = x /\ Same(h, g, {"uncertain"})
  BY DEF DurableGoals, Same, Fields
<1>8. \A x \in 0..MaxMessages : LET h == [g EXCEPT !.held = x] IN
                 h \in DurableGoals /\ h.held = x /\ Same(h, g, {"held"})
  BY DEF DurableGoals, Same, Fields
<1>9. \A x \in BOOLEAN : LET h == [g EXCEPT !.evaluating = x] IN
                 h \in DurableGoals /\ h.evaluating = x /\ Same(h, g, {"evaluating"})
  BY DEF DurableGoals, Same, Fields
<1>10. \A x \in Evidences \cup {None} : LET h == [g EXCEPT !.evidence = x] IN
                 h \in DurableGoals /\ h.evidence = x /\ Same(h, g, {"evidence"})
  BY DEF DurableGoals, Same, Fields
<1>11. \A x \in Observations \cup {None} : LET h == [g EXCEPT !.judged = x] IN
                 h \in DurableGoals /\ h.judged = x /\ Same(h, g, {"judged"})
  BY DEF DurableGoals, Same, Fields
<1>12. \A x \in Jobs \cup {None} : LET h == [g EXCEPT !.job = x] IN
                 h \in DurableGoals /\ h.job = x /\ Same(h, g, {"job"})
  BY DEF DurableGoals, Same, Fields
<1> QED BY <1>2, <1>3, <1>4, <1>5, <1>6, <1>7, <1>8, <1>9, <1>10, <1>11, <1>12

LEMMA ChargedFacts ==
    ASSUME GoalAssumption, NEW g \in DurableGoals
    PROVE  LET h == Charged(g) IN
           /\ h \in DurableGoals /\ h.attempts = g.attempts + 1 /\ h.output = g.output + Reserve
           /\ Same(h, g, {"attempts", "output"})
<1> DEFINE k == [g EXCEPT !.attempts = g.attempts + 1]
           h == [k EXCEPT !.output = k.output + Reserve]
<1>0. g.attempts + 1 \in Nat
  BY DEF DurableGoals
<1>1. k \in DurableGoals /\ k.attempts = g.attempts + 1 /\ Same(k, g, {"attempts"})
  BY <1>0, SetFields
<1>2. k.output = g.output
  BY <1>1 DEF Same, Fields
<1>3. Charged(g) = [[g EXCEPT !.attempts = g.attempts + 1] EXCEPT !.output = g.output + Reserve]
  BY SMT DEF Charged
<1>4. Charged(g) = h
  BY <1>2, <1>3
<1> HIDE DEF k
<1>5. k.output + Reserve \in Nat
  BY <1>1, GoalAssumption DEF DurableGoals, GoalAssumption
<1>6. h \in DurableGoals /\ h.output = k.output + Reserve /\ Same(h, k, {"output"})
  BY <1>1, <1>5, SetFields
<1>7. Same(h, g, {"attempts", "output"}) /\ h.attempts = k.attempts
  BY <1>1, <1>6 DEF Same, Fields
<1> QED BY <1>1, <1>2, <1>4, <1>6, <1>7

LEMMA DoubtedFacts ==
    ASSUME NEW g \in DurableGoals
    PROVE  LET h == Doubted(g) IN
           h \in DurableGoals /\ h.uncertain = g.uncertain + 1 /\ Same(h, g, {"uncertain"})
<1>1. g.uncertain + 1 \in Nat
  BY DEF DurableGoals
<1>2. Doubted(g) = [g EXCEPT !.uncertain = g.uncertain + 1]
  BY DEF Doubted
<1> QED BY <1>1, <1>2, SetFields

LEMMA SettledFacts ==
    ASSUME GoalAssumption, NEW g \in DurableGoals, NEW used \in 0..Reserve, g.output >= Reserve
    PROVE  LET h == Settled(g, used) IN
           /\ h \in DurableGoals /\ h.held = 0 /\ h.output = g.output - Reserve + used
           /\ Same(h, g, {"output", "held"})
<1> DEFINE k == [g EXCEPT !.output = g.output - Reserve + used]
           h == [k EXCEPT !.held = 0]
<1>0. g.output - Reserve + used \in Nat /\ 0 \in 0..MaxMessages
  BY GoalAssumption DEF DurableGoals, GoalAssumption
<1>1. k \in DurableGoals /\ k.output = g.output - Reserve + used /\ Same(k, g, {"output"})
  BY <1>0, SetFields
<1>2. Settled(g, used) = h
  BY SMT DEF Settled
<1> HIDE DEF k
<1>3. h \in DurableGoals /\ h.held = 0 /\ Same(h, k, {"held"})
  BY <1>0, <1>1, SetFields
<1>4. Same(h, g, {"output", "held"}) /\ h.output = k.output
  BY <1>1, <1>3 DEF Same, Fields
<1> QED BY <1>1, <1>2, <1>3, <1>4

(* The status and the evidence a decision gives.                            *)
StopStatuses == {"paused", "cancelled", "completed"}
Complete(g, evidence, where) ==
    /\ evidence # None /\ evidence.obs.good /\ evidence.semantic = "passed"
    /\ evidence.obs.defn = g.defn /\ evidence.obs.inputs = where
    /\ ~Unresolved(g) /\ g.uncertain = 0

LEMMA StatusFacts ==
    ASSUME NEW g \in DurableGoals, NEW ev, NEW where, NEW stalls \in BOOLEAN
    PROVE  LET s == Status(g, ev, where, stalls) IN
           /\ s \in Statuses
           /\ g.status \in {"paused", "cancelled"} => s = g.status
           /\ g.uncertain > 0 => s \notin {"working", "waiting", "completed"}
           /\ where = None /\ ~Going(g) /\ g.status # "completed" => s \notin {"working", "waiting"}
           /\ ev = None /\ g.status = "blocked" => s \notin {"working", "waiting"}
           /\ s = "completed" => Valid(g, ev, where) /\ Complete(g, ev, where)
           /\ s = "working" => ~Unresolved(g) /\ g.uncertain = 0
<1>1. g.status \in Statuses /\ g.uncertain \in Nat
  BY DEF DurableGoals
<1>2. Status(g, ev, where, stalls) \in Statuses
  BY <1>1 DEF Status, Statuses
<1>3. g.status \in {"paused", "cancelled"} => Status(g, ev, where, stalls) = g.status
  BY DEF Status
<1>4. g.uncertain > 0 => Status(g, ev, where, stalls) \notin {"working", "waiting", "completed"}
  BY DEF Status
<1>5. where = None /\ ~Going(g) /\ g.status # "completed"
        => Status(g, ev, where, stalls) \notin {"working", "waiting"}
  BY <1>1 DEF Status, Going, Valid, Statuses
<1>6. ev = None /\ g.status = "blocked" => Status(g, ev, where, stalls) \notin {"working", "waiting"}
  BY DEF Status, Valid
<1>7. Status(g, ev, where, stalls) = "completed" => Valid(g, ev, where) /\ Complete(g, ev, where)
  BY <1>1 DEF Status, Proven, Valid, Complete
<1>8. Status(g, ev, where, stalls) = "working" => ~Unresolved(g) /\ g.uncertain = 0
  BY <1>1 DEF Status
<1> QED BY <1>2, <1>3, <1>4, <1>5, <1>6, <1>7, <1>8

LEMMA DecidedFacts ==
    ASSUME NEW g \in DurableGoals, NEW given \in Evidences \cup {None}, NEW where,
           NEW stalls \in BOOLEAN
    PROVE  LET h == Decided(g, given, where, stalls) IN
           /\ h \in DurableGoals /\ Same(h, g, {"status", "evidence"})
           /\ h.evidence \in {None, given, g.evidence}
           /\ given # None /\ g.status # "completed" => h.evidence \in {None, given}
           /\ g.status \in StopStatuses => h.status = g.status
           /\ g.uncertain > 0 => ~Going(h) /\ (h.status = "completed" => g.status = "completed")
           /\ where = None /\ ~Going(g) => ~Going(h)
           /\ where = None /\ h.status = "completed" => g.status = "completed"
           /\ given = None /\ g.evidence = None /\ g.status = "blocked" => ~Going(h)
           /\ h.status = "completed" => g.status = "completed" \/ Complete(g, h.evidence, where)
           /\ h.status = "working" => ~Unresolved(g) /\ g.uncertain = 0
<1> DEFINE ev == IF given # None THEN given ELSE g.evidence
           s == Status(g, ev, where, stalls)
           kept == IF Valid(g, ev, where) THEN ev ELSE None
           k == [g EXCEPT !.status = s]
           h == [k EXCEPT !.evidence = kept]
<1>1. CASE g.status = "completed"
  <2>1. Decided(g, given, where, stalls) = g
    BY <1>1 DEF Decided
  <2>2. Same(g, g, {"status", "evidence"})
    BY DEF Same
  <2> QED BY <1>1, <2>1, <2>2 DEF Going
<1>2. CASE g.status # "completed"
  <2>1. g.evidence \in Evidences \cup {None}
    BY DEF DurableGoals
  <2>2. ev \in Evidences \cup {None}
    BY <2>1
  <2> HIDE DEF ev
  <2>3. kept \in Evidences \cup {None}
    BY <2>2
  <2>4. /\ s \in Statuses
        /\ g.status \in {"paused", "cancelled"} => s = g.status
        /\ g.uncertain > 0 => s \notin {"working", "waiting", "completed"}
        /\ where = None /\ ~Going(g) /\ g.status # "completed" => s \notin {"working", "waiting"}
        /\ ev = None /\ g.status = "blocked" => s \notin {"working", "waiting"}
        /\ s = "completed" => Valid(g, ev, where) /\ Complete(g, ev, where)
        /\ s = "working" => ~Unresolved(g) /\ g.uncertain = 0
    BY StatusFacts
  <2>5. Decided(g, given, where, stalls) = [[g EXCEPT !.status = s] EXCEPT !.evidence = kept]
    BY <1>2, SMT DEF Decided, ev
  <2> HIDE DEF s, kept
  <2>6. k \in DurableGoals /\ k.status = s /\ Same(k, g, {"status"})
    BY <2>4, SetFields
  <2>7. Decided(g, given, where, stalls) = h
    BY <2>5
  <2> HIDE DEF k
  <2>8. h \in DurableGoals /\ h.evidence = kept /\ Same(h, k, {"evidence"})
    BY <2>3, <2>6, SetFields
  <2>9. Same(h, g, {"status", "evidence"}) /\ h.status = s
    BY <2>6, <2>8 DEF Same, Fields
  <2> HIDE DEF h
  <2>10. kept \in {None, given, g.evidence} /\ (given # None => kept \in {None, given})
    BY DEF kept, ev
  <2>11. given = None /\ g.evidence = None => ev = None
    BY DEF ev
  <2>12. s = "completed" => kept = ev
    BY <2>4 DEF kept
  <2>13. where = None => s # "completed"
    BY <2>4 DEF Valid
  <2> QED BY <1>2, <2>4, <2>7, <2>8, <2>9, <2>10, <2>11, <2>12, <2>13 DEF Going, StopStatuses
<1> QED BY <1>1, <1>2

LEMMA DeadlineFacts ==
    ASSUME NEW g \in DurableGoals, NEW last \in BOOLEAN
    PROVE  LET h == AtDeadline(g, last) IN
           /\ h \in DurableGoals /\ Same(h, g, {"job"})
           /\ \/ h.job = g.job
              \/ /\ g.job # None /\ h.job \in Jobs
                 /\ g.job.state = "running" /\ h.job.state = "stuck"
<1> DEFINE j == [g.job EXCEPT !.state = "stuck"]
           h == [g EXCEPT !.job = j]
<1>1. CASE AtDeadline(g, last) = g
  <2>1. Same(g, g, {"job"})
    BY DEF Same
  <2> QED BY <1>1, <2>1
<1>2. CASE g.job # None /\ g.job.state = "running" /\ AtDeadline(g, last) = [g EXCEPT !.job.state = "stuck"]
  <2>1. g.job \in Jobs
    BY <1>2 DEF DurableGoals
  <2>2. j \in Jobs /\ j.state = "stuck"
    BY <2>1 DEF Jobs
  <2>3. AtDeadline(g, last) = h
    BY <1>2, SMT
  <2> HIDE DEF j
  <2>4. h \in DurableGoals /\ h.job = j /\ Same(h, g, {"job"})
    BY <2>2, SetFields
  <2> QED BY <1>2, <2>2, <2>3, <2>4
<1> QED BY <1>1, <1>2 DEF AtDeadline

LEMMA CheckedFacts ==
    ASSUME NoneAssumption, NEW g \in DurableGoals, g.status # "completed",
           NEW obs \in Observations \cup {None, AdapterError},
           NEW last \in BOOLEAN, NEW stalls \in BOOLEAN,
           NEW found, EvidenceOf(g, found)
    PROVE  LET h == Checked(g, obs, last, stalls) IN
           /\ h \in DurableGoals /\ Same(h, g, {"status", "evidence", "job"})
           /\ \/ h.job = g.job
              \/ /\ g.job # None /\ h.job \in Jobs
                 /\ g.job.state = "running" /\ h.job.state = "stuck"
           /\ Passing(h) => h.judged = h.evidence.obs /\ found = h.evidence.obs
           /\ g.status \in StopStatuses => ~Going(h)
           /\ g.uncertain > 0 => ~Going(h)
           /\ h.status = "completed" => Complete(h, h.evidence, inputs)
           /\ h.status = "working" => h.uncertain = 0
<1> DEFINE d == AtDeadline(g, last)
           again == d.evidence # None /\ d.judged = obs
           ev == IF obs \in {None, AdapterError} THEN None
                 ELSE [obs |-> obs,
                       semantic |-> IF again THEN d.evidence.semantic ELSE "unavailable",
                       cause |-> again /\ d.evidence.cause]
           b == [d EXCEPT !.status = "blocked"]
           e == [b EXCEPT !.evidence = None]
           k == IF obs = AdapterError THEN e ELSE d
           h == Decided(k, ev, inputs, stalls)
<1>1. /\ d \in DurableGoals /\ Same(d, g, {"job"})
      /\ \/ d.job = g.job
         \/ g.job # None /\ d.job \in Jobs /\ g.job.state = "running" /\ d.job.state = "stuck"
  BY DeadlineFacts
<1>2. Checked(g, obs, last, stalls)
        = Decided(IF obs = AdapterError
                  THEN [[d EXCEPT !.status = "blocked"] EXCEPT !.evidence = None] ELSE d,
                  ev, inputs, stalls)
  BY SMT DEF Checked
<1>3. Checked(g, obs, last, stalls) = h
  BY <1>2
<1> HIDE DEF d
<1>4. b \in DurableGoals /\ b.status = "blocked" /\ Same(b, d, {"status"})
  BY <1>1, SetFields DEF Statuses
<1> HIDE DEF b
<1>5. e \in DurableGoals /\ e.evidence = None /\ Same(e, b, {"evidence"})
  BY <1>4, SetFields
<1> HIDE DEF e
<1>6. k \in DurableGoals /\ Same(k, d, {"status", "evidence"}) /\ k.status # "completed"
  <2>1. Same(e, d, {"status", "evidence"}) /\ e.status = "blocked"
    BY <1>4, <1>5 DEF Same, Fields
  <2>2. Same(d, d, {"status", "evidence"}) /\ d.status # "completed"
    BY <1>1 DEF Same, Fields
  <2> QED BY <1>1, <1>5, <2>1, <2>2
<1>7. obs = AdapterError => k.status = "blocked" /\ k.evidence = None /\ ev = None
  BY <1>4, <1>5 DEF Same, Fields
<1>8. obs # AdapterError => k = d
  OBVIOUS
<1> HIDE DEF k
<1>9. d.evidence \in Evidences \cup {None}
  BY <1>1 DEF DurableGoals
<1>10. ev \in Evidences \cup {None}
  <2>1. CASE obs \in {None, AdapterError}
    BY <2>1
  <2>2. CASE obs \notin {None, AdapterError}
    <3>1. obs \in Observations
      BY <2>2
    <3>2. again => d.evidence.semantic \in {"unavailable", "passed", "failed"} /\ d.evidence.cause \in BOOLEAN
      BY <1>9 DEF Evidences
    <3>3. (IF again THEN d.evidence.semantic ELSE "unavailable") \in {"unavailable", "passed", "failed"}
      BY <3>2
    <3>4. (again /\ d.evidence.cause) \in BOOLEAN
      OBVIOUS
    <3> QED BY <2>2, <3>1, <3>3, <3>4 DEF Evidences
  <2> QED BY <2>1, <2>2
<1>11. ev # None /\ ev.semantic = "passed" => Passing(d) /\ ev.obs = obs /\ d.judged = obs
  BY DEF Passing
<1> HIDE DEF ev
<1>12. /\ h \in DurableGoals /\ Same(h, k, {"status", "evidence"})
       /\ h.evidence \in {None, ev, k.evidence}
       /\ k.status \in StopStatuses => h.status = k.status
       /\ k.uncertain > 0 => ~Going(h) /\ (h.status = "completed" => k.status = "completed")
       /\ ev = None /\ k.evidence = None /\ k.status = "blocked" => ~Going(h)
       /\ h.status = "completed" => k.status = "completed" \/ Complete(k, h.evidence, inputs)
       /\ h.status = "working" => ~Unresolved(k) /\ k.uncertain = 0
  BY <1>6, <1>10, DecidedFacts
<1> HIDE DEF h
<1>13. Same(h, d, {"status", "evidence"})
  BY <1>6, <1>12 DEF Same, Fields
<1>14. Same(h, g, {"status", "evidence", "job"}) /\ h.job = d.job
  BY <1>1, <1>13 DEF Same, Fields
<1>15. Passing(h) => h.judged = h.evidence.obs /\ found = h.evidence.obs
  <2> SUFFICES ASSUME Passing(h) PROVE h.judged = h.evidence.obs /\ found = h.evidence.obs
    OBVIOUS
  <2>1. d.evidence = g.evidence /\ d.judged = g.judged /\ h.judged = g.judged
    BY <1>1, <1>14 DEF Same, Fields
  <2>2. Passing(d) => g.judged = g.evidence.obs /\ found = g.evidence.obs
    BY <2>1 DEF Passing, EvidenceOf
  <2>3. CASE h.evidence = k.evidence
    BY <1>6, <1>7, <1>8, <2>1, <2>2, <2>3 DEF Passing
  <2>4. CASE h.evidence = ev
    BY <1>11, <2>1, <2>2, <2>4 DEF Passing
  <2> QED BY <1>12, <2>3, <2>4 DEF Passing
<1>16. g.status \in StopStatuses => ~Going(h)
  <2>1. d.status = g.status
    BY <1>1 DEF Same, Fields
  <2> QED BY <1>7, <1>8, <1>12, <2>1 DEF Going, StopStatuses
<1>17. k.uncertain = g.uncertain /\ h.uncertain = g.uncertain
  BY <1>1, <1>6, <1>13 DEF Same, Fields
<1>18. h.status = "completed" => Complete(h, h.evidence, inputs)
  <2>1. h.defn = k.defn /\ h.job = k.job /\ h.uncertain = k.uncertain
    BY <1>12 DEF Same, Fields
  <2> QED BY <1>6, <1>12, <2>1 DEF Complete, Unresolved
<1> QED BY <1>1, <1>3, <1>12, <1>14, <1>15, <1>16, <1>17, <1>18

(* What an interrupted turn, an unanswered evaluation, a restart and the    *)
(* outcome of a child leave in a goal.                                      *)
LEMMA InterruptedFacts ==
    ASSUME NEW g \in DurableGoals, NEW stalls \in BOOLEAN
    PROVE  LET h == Interrupted(g, stalls) IN
           /\ h \in DurableGoals /\ h.uncertain = g.uncertain + 1
           /\ Same(h, g, {"uncertain", "status", "evidence"})
           /\ ~Going(h) /\ (h.status = "completed" => g.status = "completed")
           /\ h.evidence \in {None, g.evidence}
<1> DEFINE k == Doubted(g)
           h == Decided(k, None, None, stalls)
<1>1. k \in DurableGoals /\ k.uncertain = g.uncertain + 1 /\ Same(k, g, {"uncertain"})
  BY DoubtedFacts
<1>2. k.uncertain > 0 /\ k.status = g.status /\ k.evidence = g.evidence
  BY <1>1 DEF Same, Fields, DurableGoals
<1>3. Interrupted(g, stalls) = h
  BY DEF Interrupted
<1> HIDE DEF k
<1>4. /\ h \in DurableGoals /\ Same(h, k, {"status", "evidence"})
      /\ h.evidence \in {None, k.evidence}
      /\ k.uncertain > 0 => ~Going(h) /\ (h.status = "completed" => k.status = "completed")
  BY <1>1, DecidedFacts
<1> HIDE DEF h
<1>5. Same(h, g, {"uncertain", "status", "evidence"}) /\ h.uncertain = k.uncertain
  BY <1>1, <1>4 DEF Same, Fields
<1> QED BY <1>1, <1>2, <1>3, <1>4, <1>5

LEMMA UnansweredFacts ==
    ASSUME NEW g \in DurableGoals, g.status # "working"
    PROVE  LET h == Unanswered(g) IN
           /\ h \in DurableGoals /\ h.uncertain = g.uncertain + 1
           /\ Same(h, g, {"uncertain", "status"})
           /\ ~Going(h) /\ (h.status = "completed" => g.status = "completed")
<1> DEFINE k == Doubted(g)
           s == IF k.status = "waiting" THEN "blocked" ELSE k.status
           h == [k EXCEPT !.status = s]
<1>1. k \in DurableGoals /\ k.uncertain = g.uncertain + 1 /\ Same(k, g, {"uncertain"})
  BY DoubtedFacts
<1>2. k.status = g.status /\ k.status \in Statuses
  BY <1>1 DEF Same, Fields, DurableGoals
<1>3. Unanswered(g) = h
  BY DEF Unanswered
<1> HIDE DEF k
<1>4. s \in Statuses
  BY <1>2 DEF Statuses
<1>5. h \in DurableGoals /\ h.status = s /\ Same(h, k, {"status"})
  BY <1>1, <1>4, SetFields
<1> HIDE DEF h
<1>6. Same(h, g, {"uncertain", "status"}) /\ h.uncertain = k.uncertain
  BY <1>1, <1>5 DEF Same, Fields
<1> QED BY <1>1, <1>2, <1>3, <1>5, <1>6 DEF Going

LEMMA RecoveredFacts ==
    ASSUME NEW g \in DurableGoals, g.evaluating => g.status # "working"
    PROVE  LET h == Recovered(g) IN
           /\ h \in DurableGoals /\ Same(h, g, {"uncertain", "status"})
           /\ h.uncertain = IF g.evaluating /\ g.uncertain = 0 THEN 1 ELSE g.uncertain
           /\ ~(g.evaluating /\ g.uncertain = 0) => h = g
           /\ g.evaluating /\ g.uncertain = 0 => ~Going(h)
           /\ h.status = "completed" => g.status = "completed"
           /\ Going(h) => Going(g)
<1>1. CASE ~(g.evaluating /\ g.uncertain = 0)
  <2>1. Recovered(g) = g
    BY <1>1 DEF Recovered
  <2>2. Same(g, g, {"uncertain", "status"})
    BY DEF Same
  <2> QED BY <1>1, <2>1, <2>2
<1>2. CASE g.evaluating /\ g.uncertain = 0
  <2> DEFINE k == [g EXCEPT !.uncertain = 1]
             s == IF g.status = "waiting" THEN "blocked" ELSE g.status
             h == [k EXCEPT !.status = s]
  <2>1. k \in DurableGoals /\ k.uncertain = 1 /\ Same(k, g, {"uncertain"})
    BY SetFields
  <2>2. Recovered(g) = [[g EXCEPT !.uncertain = 1] EXCEPT !.status = s]
    BY <1>2, SMT DEF Recovered
  <2>3. Recovered(g) = h
    BY <2>2
  <2> HIDE DEF k
  <2>4. s \in Statuses
    BY DEF Statuses, DurableGoals
  <2>5. h \in DurableGoals /\ h.status = s /\ Same(h, k, {"status"})
    BY <2>1, <2>4, SetFields
  <2> HIDE DEF h
  <2>6. Same(h, g, {"uncertain", "status"}) /\ h.uncertain = k.uncertain
    BY <2>1, <2>5 DEF Same, Fields
  <2> QED BY <1>2, <2>1, <2>3, <2>5, <2>6 DEF Going
<1> QED BY <1>1, <1>2

LEMMA ReflectedFacts ==
    ASSUME NoneAssumption, NEW g \in DurableGoals, g.job # None, NEW rec \in Records
    PROVE  LET h == Reflected(g, rec) IN
           /\ h \in DurableGoals /\ Same(h, g, {"uncertain", "status", "job"})
           /\ h.uncertain = g.uncertain + (IF Unknown(rec) THEN 1 ELSE 0)
           /\ h.job \in Jobs /\ h.job.state = JobState(rec, g.job.state)
           /\ h.status = IF Unknown(rec) /\ Going(g) THEN "paused" ELSE g.status
<1> DEFINE f == IF Unknown(rec) THEN Doubted(g) ELSE g
           j == [f.job EXCEPT !.state = JobState(rec, f.job.state)]
           k == [f EXCEPT !.job = j]
           s == IF Unknown(rec) /\ Going(g) THEN "paused" ELSE g.status
           h == [k EXCEPT !.status = s]
<1>1. /\ f \in DurableGoals /\ Same(f, g, {"uncertain"})
      /\ f.uncertain = g.uncertain + (IF Unknown(rec) THEN 1 ELSE 0)
  <2>1. Same(g, g, {"uncertain"}) /\ g.uncertain = g.uncertain + 0
    BY DEF Same, DurableGoals
  <2> QED BY <2>1, DoubtedFacts
<1>2. f.job = g.job /\ f.status = g.status
  BY <1>1 DEF Same, Fields
<1>3. Reflected(g, rec) = [[f EXCEPT !.job.state = JobState(rec, f.job.state)]
                              EXCEPT !.status = IF Unknown(rec) /\ f.status \in {"working", "waiting"}
                                                THEN "paused" ELSE f.status]
  BY SMT DEF Reflected
<1>4. [f EXCEPT !.job.state = JobState(rec, f.job.state)] = k
  BY SMT
<1>5. Reflected(g, rec) = h
  BY <1>2, <1>3, <1>4 DEF Going
<1> HIDE DEF f
<1>6. g.job \in Jobs
  BY DEF DurableGoals
<1>7. JobState(rec, f.job.state) \in {"running", "passed", "failed", "stuck"}
  BY DEF JobState
<1>8. j \in Jobs /\ j.state = JobState(rec, g.job.state)
  BY <1>2, <1>6, <1>7 DEF Jobs
<1> HIDE DEF j
<1>9. k \in DurableGoals /\ k.job = j /\ Same(k, f, {"job"})
  BY <1>1, <1>8, SetFields
<1> HIDE DEF k
<1>10. s \in Statuses
  BY DEF Statuses, DurableGoals
<1>11. h \in DurableGoals /\ h.status = s /\ Same(h, k, {"status"})
  BY <1>9, <1>10, SetFields
<1> HIDE DEF h
<1>12. /\ Same(h, g, {"uncertain", "status", "job"}) /\ h.job = k.job
       /\ h.uncertain = f.uncertain
  BY <1>1, <1>9, <1>11 DEF Same, Fields
<1> QED BY <1>1, <1>5, <1>8, <1>9, <1>11, <1>12

-----------------------------------------------------------------------------
(* A step that saves one goal.                                              *)

LEMMA SavedGoals ==
    ASSUME goals \in Seq(DurableGoals), NEW i \in DOMAIN goals, NEW h \in DurableGoals, Save(i, h)
    PROVE  /\ goals' \in Seq(DurableGoals) /\ Len(goals') = Len(goals)
           /\ DOMAIN goals' = DOMAIN goals /\ goals'[i] = h
           /\ \A j \in DOMAIN goals : j # i => goals'[j] = goals[j]
BY DEF Save

UnknownChildren(i) == Cardinality({c \in ChildrenOf(i) : Unknown(children[c])})
Loose(i) == IF Unattended(i) THEN 1 ELSE 0

LEMMA UnknownNat ==
    ASSUME children \in Seq(Records), NEW i
    PROVE  /\ IsFiniteSet({c \in ChildrenOf(i) : Unknown(children[c])})
           /\ UnknownChildren(i) \in Nat
<1>1. IsFiniteSet(1..Len(children))
  BY FS_Interval
<1>2. {c \in ChildrenOf(i) : Unknown(children[c])} \subseteq 1..Len(children)
  BY DEF ChildrenOf
<1>3. IsFiniteSet({c \in ChildrenOf(i) : Unknown(children[c])})
  BY <1>1, <1>2, FS_Subset
<1> QED BY <1>3, FS_CardinalityType DEF UnknownChildren

LEMMA DoubtsSum ==
    ASSUME NEW i
    PROVE  Doubts(i) = UnknownChildren(i) + Loose(i)
BY DEF Doubts, UnknownChildren, Loose

LEMMA SameUnknown ==
    ASSUME children' = children, NEW i
    PROVE  UnknownChildren(i)' = UnknownChildren(i)
<1>1. {c \in ChildrenOf(i) : Unknown(children[c])}' = {c \in ChildrenOf(i) : Unknown(children[c])}
  BY DEF ChildrenOf, Unknown
<1> QED BY <1>1 DEF UnknownChildren

LEMMA NotLoose ==
    ASSUME NEW i, ~InFlight(goals[i])
    PROVE  Loose(i) = 0
BY DEF Loose, Unattended, InFlight

(* What a step may do to the promises about late results.                   *)
LateStep ==
    \A i \in DOMAIN goals :
        /\ goals[i].status # "completed" /\ goals'[i].status = "completed" => Completes(i)
        /\ /\ goals[i].status \in {"paused", "cancelled", "completed"} \/ i # current
           /\ goals'[i].status \in {"working", "waiting"}
           => goals[i].status = "paused" /\ i = current /\ Resume

(* What is asked of the new value of the goal that a step saves.            *)
JobKept(i, h) ==
    ChildrenOf(i) # {} => /\ h.job # None
                          /\ h.job.state = "passed" => goals[i].job.state = "passed"

MayComplete(i, h) ==
    h.status = "completed" =>
      \/ goals[i].status = "completed"
      \/ /\ h.evidence # None /\ h.evidence.obs.good
         /\ h.evidence.obs.defn = h.defn /\ h.evidence.obs.inputs = inputs
         /\ passed[i] = h.evidence.obs
         /\ ~Unresolved(h) /\ ~InFlight(h) /\ h.uncertain = 0

(* Everything but the goal itself that the children and their task see.     *)
TaskLike ==
    /\ UNCHANGED <<children, staged, merged>>
    /\ task'.at = task.at /\ task'.child = task.child
    /\ task' \in [at : {"none", "executing", "staging", "verifying", "merging", "confirming"},
                  child : 0..MaxChildren, cancelled : BOOLEAN]

(* The goals as a step leaves them that saves h as goal i.                  *)
GoalKept(i, h) ==
    /\ GoalHeld(h) /\ EvidenceOf(h, passed'[i]) /\ JobKept(i, h) /\ MayComplete(i, h)
    /\ InFlight(h) => i = Latest
    /\ i # current' => ~Going(h)
    /\ goals[i].status \in StopStatuses /\ Going(h) => goals[i].status = "paused" /\ Resume

LEMMA SavedStep ==
    ASSUME GoalAssumption, ChildAssumption, GoalInv,
           NEW i \in DOMAIN goals, NEW h \in DurableGoals, Save(i, h),
           TaskLike, RestTypeOK', inputs' = inputs,
           current' = current \/ (i = current /\ current' = 0),
           i = Latest \/ UNCHANGED <<entries, routine>>,
           \A j \in DOMAIN goals \ {i} : passed'[j] = passed[j],
           GoalKept(i, h),
           MessagesHeld', RoutineHeld', LatestCovers',
           h.uncertain + Loose(i) = goals[i].uncertain + Loose(i)'
    PROVE  GoalInv' /\ LateStep
<1> USE DEF GoalInv
<1>0. goals \in Seq(DurableGoals) /\ children \in Seq(Records) /\ Len(goals) <= MaxGoals
  BY DEF ChildTypeOK, GoalTypeOK
<1>11. children' = children
  BY DEF TaskLike
<1>1. /\ goals' \in Seq(DurableGoals) /\ Len(goals') = Len(goals)
      /\ DOMAIN goals' = DOMAIN goals /\ goals'[i] = h
      /\ \A j \in DOMAIN goals : j # i => goals'[j] = goals[j]
  BY <1>0, SavedGoals
<1>2. ChildTypeOK'
  <2>1. current' \in 0..Len(goals')
    BY <1>1 DEF ChildTypeOK, GoalTypeOK
  <2>2. GoalTypeOK'
    BY <1>0, <1>1, <2>1 DEF GoalTypeOK, RestTypeOK
  <2> QED BY <2>2 DEF ChildTypeOK, TaskLike
<1>3. LatestOnly'
  BY <1>1 DEF LatestOnly, Latest, GoalKept
<1>4. GoalsHeld'
  BY <1>1 DEF GoalsHeld, GoalKept
<1>5. EvidenceHeld'
  BY <1>1 DEF EvidenceHeld, GoalKept
<1>6. JobsHeld'
  <2> SUFFICES ASSUME NEW c \in DOMAIN children
               PROVE  /\ children[c].goal \in DOMAIN goals
                      /\ goals'[children[c].goal].job # None
                      /\ ~Done(children[c]) =>
                           /\ goals'[children[c].goal].job.state # "passed"
                           /\ \A d \in DOMAIN children :
                                children[d].goal = children[c].goal /\ ~Done(children[d]) => c = d
    BY <1>1 DEF JobsHeld, TaskLike, Done
  <2>1. /\ children[c].goal \in DOMAIN goals
        /\ goals[children[c].goal].job # None
        /\ ~Done(children[c]) =>
             /\ goals[children[c].goal].job.state # "passed"
             /\ \A d \in DOMAIN children :
                  children[d].goal = children[c].goal /\ ~Done(children[d]) => c = d
    BY DEF JobsHeld
  <2>2. CASE children[c].goal = i
    <3>1. ChildrenOf(i) # {}
      BY <2>2 DEF ChildrenOf
    <3> QED BY <1>1, <2>1, <2>2, <3>1 DEF GoalKept, JobKept
  <2>3. CASE children[c].goal # i
    BY <1>1, <2>1, <2>3
  <2> QED BY <2>2, <2>3
<1>7. TaskPlaced'
  BY DEF TaskPlaced, TaskLike
<1>8. PatchesHeld'
  BY DEF PatchesHeld, TaskLike
<1>9. DoubtsHeld'
  <2> SUFFICES ASSUME NEW j \in DOMAIN goals
               PROVE  /\ goals'[j].uncertain >= Doubts(j)'
                      /\ j = 1 => goals'[j].uncertain = Doubts(j)'
    BY <1>1 DEF DoubtsHeld
  <2>1. goals[j].uncertain >= Doubts(j) /\ (j = 1 => goals[j].uncertain = Doubts(j))
    BY DEF DoubtsHeld
  <2>2. Doubts(j) = UnknownChildren(j) + Loose(j) /\ Doubts(j)' = UnknownChildren(j)' + Loose(j)'
    BY DEF Doubts, UnknownChildren, Loose
  <2>3. UnknownChildren(j)' = UnknownChildren(j)
    BY <1>11, SameUnknown
  <2>9. UnknownChildren(j) \in Nat
    BY <1>0, UnknownNat
  <2>4. Loose(j) \in 0..1 /\ Loose(j)' \in 0..1 /\ goals[j].uncertain \in Nat /\ goals'[j].uncertain \in Nat
    <3>1. goals[j] \in DurableGoals /\ goals'[j] \in DurableGoals
      BY <1>0, <1>1
    <3>2. goals[j].uncertain \in Nat /\ goals'[j].uncertain \in Nat
      BY <3>1 DEF DurableGoals
    <3> QED BY <3>2 DEF Loose
  <2>5. CASE j = i
    BY <1>1, <2>1, <2>2, <2>3, <2>4, <2>5, <2>9, SMTT(40)
  <2>6. CASE j # i
    <3>1. Loose(j)' = Loose(j)
      <4>1. goals'[j] = goals[j]
        BY <1>1, <2>6
      <4>2. CASE i = Latest
        <5>1. ~InFlight(goals[j])
          BY <2>6, <4>2 DEF LatestOnly
        <5>2. Loose(j) = 0
          BY <5>1, NotLoose
        <5>3. Loose(j)' = 0
          BY <4>1, <5>1 DEF Loose, Unattended, InFlight
        <5> QED BY <5>2, <5>3
      <4>3. CASE UNCHANGED <<entries, routine>>
        BY <4>1, <4>3 DEF Loose, Unattended
      <4> QED BY <4>2, <4>3
    <3> QED BY <1>1, <2>1, <2>2, <2>3, <2>4, <2>6, <2>9, <3>1
  <2> QED BY <2>5, <2>6
<1>10. LateStep
  <2> SUFFICES ASSUME NEW j \in DOMAIN goals
               PROVE  /\ goals[j].status # "completed" /\ goals'[j].status = "completed" => Completes(j)
                      /\ /\ goals[j].status \in {"paused", "cancelled", "completed"} \/ j # current
                         /\ goals'[j].status \in {"working", "waiting"}
                         => goals[j].status = "paused" /\ j = current /\ Resume
    BY DEF LateStep
  <2>1. j # current => goals'[j].status \notin {"working", "waiting"}
    BY <1>1, <1>3 DEF LatestOnly, Going
  <2>2. CASE j # i
    BY <1>1, <2>1, <2>2 DEF LatestOnly, Going
  <2>3. CASE j = i
    <3>1. /\ goals[j].status \in {"paused", "cancelled", "completed"} \/ j # current
          /\ goals'[j].status \in {"working", "waiting"}
          => goals[j].status = "paused" /\ j = current /\ Resume
      BY <1>1, <2>1, <2>3 DEF GoalKept, Going, StopStatuses
    <3>2. ASSUME goals[j].status # "completed", goals'[j].status = "completed" PROVE Completes(j)
      <4>1. /\ h.evidence # None /\ h.evidence.obs.good
            /\ h.evidence.obs.defn = h.defn /\ h.evidence.obs.inputs = inputs
            /\ passed[i] = h.evidence.obs
            /\ ~Unresolved(h) /\ ~InFlight(h) /\ h.uncertain = 0
        BY <1>1, <2>3, <3>2 DEF GoalKept, MayComplete
      <4>2. ASSUME NEW c \in ChildrenOf(i)
            PROVE  Done(children'[c]) /\ (children[c].coding => merged[c] = 1)
        <5>1. c \in DOMAIN children /\ children[c].goal = i /\ children' = children
          BY DEF ChildrenOf, TaskLike
        <5>2. h.job # None /\ h.job.state = "passed"
          BY <1>1, <1>6, <4>1, <5>1 DEF JobsHeld, Unresolved
        <5>3. Done(children'[c])
          BY <1>1, <1>6, <5>1, <5>2 DEF JobsHeld
        <5> QED BY <5>1, <5>3 DEF Done, PatchesHeld
      <4> QED BY <1>1, <2>3, <4>1, <4>2 DEF Completes
    <3> QED BY <3>1, <3>2
  <2> QED BY <2>2, <2>3
<1> QED BY <1>2, <1>3, <1>4, <1>5, <1>6, <1>7, <1>8, <1>9, <1>10

(* A step that saves one goal with its operation and its ledger as before.  *)
QuietFields == {"held", "evaluating", "uncertain", "attempts", "output"}
Quiet(h, g) == \A f \in QuietFields : h[f] = g[f]

LEMMA QuietStep ==
    ASSUME GoalAssumption, ChildAssumption, GoalInv,
           NEW i \in DOMAIN goals, NEW h \in DurableGoals, Save(i, h), TaskLike,
           UNCHANGED <<entries, stray, inputs, begun, spent, passed>>,
           current' = current \/ (i = current /\ current' = 0),
           \/ routine' = routine /\ Yielded
           \/ routine' = Idle /\ routine.at # "await" /\ i = Latest,
           Quiet(h, goals[i]), h.evaluating => h.status # "working",
           h.uncertain > 0 => ~Going(h),
           EvidenceOf(h, passed[i]), JobKept(i, h), MayComplete(i, h),
           i # current' => ~Going(h),
           goals[i].status \in StopStatuses /\ Going(h) => goals[i].status = "paused" /\ Resume
    PROVE  GoalInv' /\ LateStep
<1> USE DEF GoalInv
<1> DEFINE g == goals[i]
<1>0. goals \in Seq(DurableGoals)
  BY DEF ChildTypeOK, GoalTypeOK
<1>1. /\ goals' \in Seq(DurableGoals) /\ Len(goals') = Len(goals)
      /\ DOMAIN goals' = DOMAIN goals /\ goals'[i] = h
      /\ \A j \in DOMAIN goals : j # i => goals'[j] = goals[j]
  BY <1>0, SavedGoals
<1>2. /\ h.held = g.held /\ h.evaluating = g.evaluating /\ h.uncertain = g.uncertain
      /\ h.attempts = g.attempts /\ h.output = g.output
  BY DEF Quiet, QuietFields
<1>3. \A j \in DOMAIN goals :
        /\ goals'[j].held = goals[j].held /\ goals'[j].evaluating = goals[j].evaluating
        /\ goals'[j].uncertain = goals[j].uncertain
        /\ goals'[j].attempts = goals[j].attempts /\ goals'[j].output = goals[j].output
  BY <1>1, <1>2
<1>4. RestTypeOK'
  <2>1. RestTypeOK
    BY DEF ChildTypeOK, GoalTypeOK, RestTypeOK
  <2>2. Idle \in [at : {"none", "begin", "await", "apply"}, goal : 0..MaxGoals,
                  obs : Observations \cup {None},
                  verdict : {"passed", "failed", "blocked", None}]
    BY GoalAssumption DEF Idle, GoalAssumption
  <2> QED BY <2>1, <2>2 DEF RestTypeOK
<1>5. GoalKept(i, h)
  <2>1. GoalHeld(h)
    BY <1>2 DEF GoalHeld, GoalsHeld, InFlight
  <2>2. InFlight(h) => i = Latest
    BY <1>2 DEF LatestOnly, InFlight
  <2> QED BY <2>1, <2>2 DEF GoalKept
<1>6. MessagesHeld'
  BY <1>1, <1>3 DEF MessagesHeld
<1>7. (routine'.at = "await" => routine.at = "await" /\ routine' = routine) /\ routine'.at # "apply"
  BY DEF Yielded, Idle
<1>8. RoutineHeld'
  BY <1>1, <1>3, <1>7 DEF RoutineHeld, TaskLike
<1>9. LatestCovers'
  <2>1. Exposed' = Exposed
    <3>1. Busy' = Busy
      BY DEF Busy
    <3>2. (routine'.at = "await") = (routine.at = "await")
      BY DEF Yielded, Idle
    <3>3. Implementing' = Implementing
      BY DEF Implementing, TaskLike
    <3> QED BY <3>1, <3>2, <3>3 DEF Exposed
  <2>2. Latest # 0 => Latest \in DOMAIN goals
    BY <1>0 DEF Latest
  <2>3. Latest' = Latest
    BY <1>1 DEF Latest
  <2> QED BY <1>3, <2>1, <2>2, <2>3 DEF LatestCovers
<1>10. h.uncertain + Loose(i) = g.uncertain + Loose(i)'
  <2>1. Loose(i)' = Loose(i)
    BY <1>1, <1>2 DEF Loose, Unattended, Yielded, Idle
  <2> QED BY <1>2, <2>1
<1>11. i = Latest \/ UNCHANGED <<entries, routine>>
  OBVIOUS
<1> HIDE DEF GoalInv
<1> QED BY <1>4, <1>5, <1>6, <1>8, <1>9, <1>10, <1>11, SavedStep

LEMMA SelectedLatest ==
    ASSUME GoalInv, current # 0
    PROVE  /\ current = Latest /\ current \in DOMAIN goals /\ Selected = goals[current]
           /\ Selected \in DurableGoals /\ GoalHeld(Selected) /\ EvidenceOf(Selected, passed[current])
           /\ goals \in Seq(DurableGoals) /\ Selected.status \in Statuses
           /\ Selected.uncertain \in Nat /\ Selected.job \in Jobs \cup {None}
<1> USE DEF GoalInv
<1>1. goals \in Seq(DurableGoals) /\ current = Latest
  BY DEF ChildTypeOK, GoalTypeOK, LatestOnly
<1>2. current \in DOMAIN goals /\ Selected = goals[current]
  BY <1>1 DEF Latest, Selected
<1>3. Selected \in DurableGoals
  BY <1>1, <1>2
<1> QED BY <1>1, <1>2, <1>3 DEF GoalsHeld, EvidenceHeld, DurableGoals

LEMMA UnchangedTask ==
    ASSUME GoalInv, UNCHANGED childVars \/ CancelTask
    PROVE  TaskLike
BY DEF GoalInv, ChildTypeOK, childVars, CancelTask, TaskLike

(* A change of the selected goal that leaves its job and its evidence.      *)
LEMMA QuietSelected ==
    ASSUME GoalAssumption, ChildAssumption, GoalInv, Yielded, current # 0, TaskLike,
           NEW h \in DurableGoals, Save(current, h),
           UNCHANGED <<entries, routine, stray, inputs, begun, spent, passed>>,
           current' = current \/ current' = 0,
           Quiet(h, Selected), h.job = Selected.job \/ ChildrenOf(current) = {},
           h.evidence = None \/ (h.evidence = Selected.evidence /\ h.judged = Selected.judged),
           h.status = "completed" => Selected.status = "completed",
           h.evaluating => h.status # "working", h.uncertain > 0 => ~Going(h),
           current' = 0 => ~Going(h),
           Selected.status \in StopStatuses /\ Going(h) => Selected.status = "paused" /\ Resume
    PROVE  GoalInv' /\ LateStep
<1>1. /\ current = Latest /\ current \in DOMAIN goals /\ Selected = goals[current]
      /\ Selected \in DurableGoals /\ GoalHeld(Selected) /\ EvidenceOf(Selected, passed[current])
  BY SelectedLatest
<1>2. EvidenceOf(h, passed[current])
  BY <1>1 DEF EvidenceOf, Passing, Quiet, QuietFields
<1>3. JobKept(current, h)
  BY <1>1 DEF JobKept, GoalInv, JobsHeld, ChildrenOf
<1>4. MayComplete(current, h)
  BY <1>1 DEF MayComplete
<1>5. current # current' => ~Going(h)
  OBVIOUS
<1> QED BY <1>1, <1>2, <1>3, <1>4, <1>5, QuietStep

-----------------------------------------------------------------------------
(* The commands of the terminal and the reports of adapters.                *)

LEMMA SameQuiet ==
    ASSUME NEW g, NEW h, NEW F, Same(h, g, F),
           F \subseteq {"defn", "revisions", "status", "evidence", "judged", "job"}
    PROVE  /\ Quiet(h, g) /\ h.held = g.held /\ h.evaluating = g.evaluating
           /\ h.uncertain = g.uncertain /\ (InFlight(h) <=> InFlight(g))
BY DEF Same, Fields, Quiet, QuietFields, InFlight

LEMMA StatusKeeps ==
    ASSUME GoalAssumption, ChildAssumption, GoalInv,
           Yielded, current # 0, NEW s \in Statuses, TaskLike,
           Save(current, [Selected EXCEPT !.status = s]),
           UNCHANGED <<entries, routine, stray, inputs, begun, spent, passed>>,
           current' = current \/ current' = 0,
           s \notin {"working", "waiting"},
           s = "completed" => Selected.status = "completed"
    PROVE  GoalInv' /\ LateStep
<1> DEFINE h == [Selected EXCEPT !.status = s]
<1>1. Selected \in DurableGoals
  BY SelectedLatest
<1>2. h \in DurableGoals /\ h.status = s /\ Same(h, Selected, {"status"})
  BY <1>1, SetFields
<1>3. Save(current, h)
  OBVIOUS
<1> HIDE DEF h
<1>4. /\ Quiet(h, Selected) /\ h.job = Selected.job
      /\ h.evidence = Selected.evidence /\ h.judged = Selected.judged
  BY <1>2, SameQuiet DEF Same, Fields
<1> QED BY <1>2, <1>3, <1>4, QuietSelected DEF Going

LEMMA StopKeeps ==
    ASSUME GoalAssumption, ChildAssumption, GoalInv, Stop, CancelTask
    PROVE  GoalInv' /\ LateStep
<1>0. TaskLike
  BY UnchangedTask
<1>1. CASE Pause
  BY <1>0, <1>1, StatusKeeps DEF Pause, Statuses
<1>2. CASE Cancel
  BY <1>0, <1>2, StatusKeeps DEF Cancel, Statuses
<1>3. CASE Clear
  <2> DEFINE s == IF Selected.status \in {"completed", "cancelled", "budget_exhausted"}
                  THEN Selected.status ELSE "paused"
  <2>1. s \in Statuses /\ s \notin {"working", "waiting"}
        /\ (s = "completed" => Selected.status = "completed")
    BY DEF Statuses
  <2>2. /\ Yielded /\ current # 0 /\ Save(current, [Selected EXCEPT !.status = s]) /\ current' = 0
        /\ UNCHANGED <<entries, routine, stray, inputs, begun, spent, passed>>
    BY <1>3 DEF Clear
  <2> HIDE DEF s
  <2> QED BY <1>0, <2>1, <2>2, StatusKeeps
<1> QED BY <1>1, <1>2, <1>3 DEF Stop

LEMMA ReportFailureKeeps ==
    ASSUME GoalAssumption, ChildAssumption, GoalInv,
           NEW exhausts \in BOOLEAN, ReportFailure(exhausts), UNCHANGED childVars
    PROVE  GoalInv' /\ LateStep
<1> DEFINE s == IF Selected.status \in {"paused", "cancelled", "completed"} THEN Selected.status
                ELSE IF exhausts THEN "budget_exhausted" ELSE "blocked"
<1>0. TaskLike
  BY UnchangedTask
<1>1. s \in Statuses /\ s \notin {"working", "waiting"}
      /\ (s = "completed" => Selected.status = "completed")
  BY DEF Statuses
<1>2. /\ Yielded /\ current # 0 /\ Save(current, [Selected EXCEPT !.status = s])
      /\ UNCHANGED <<current, entries, routine, stray, inputs, begun, spent, passed>>
  BY DEF ReportFailure
<1> HIDE DEF s
<1> QED BY <1>0, <1>1, <1>2, StatusKeeps

LEMMA EditGoalKeeps ==
    ASSUME GoalAssumption, ChildAssumption, GoalInv,
           NEW d \in Definitions, EditGoal(d), UNCHANGED childVars
    PROVE  GoalInv' /\ LateStep
<1> DEFINE a == [Selected EXCEPT !.defn = d]
           b == [a EXCEPT !.revisions = a.revisions + 1]
           c == [b EXCEPT !.evidence = None]
           e == [c EXCEPT !.judged = None]
           h == [e EXCEPT !.status = "paused"]
<1>0. TaskLike
  BY UnchangedTask
<1>1. /\ Yielded /\ current # 0
      /\ UNCHANGED <<current, entries, routine, stray, inputs, begun, spent, passed>>
      /\ Save(current, [Selected EXCEPT !.defn = d, !.revisions = @ + 1,
                                        !.evidence = None, !.judged = None,
                                        !.status = "paused"])
  BY DEF EditGoal
<1>2. Selected \in DurableGoals
  BY <1>1, SelectedLatest
<1>3. a \in DurableGoals /\ Same(a, Selected, {"defn"})
  BY <1>2, SetFields
<1>4. a.revisions = Selected.revisions /\ a.revisions + 1 \in Nat
  BY <1>3 DEF Same, Fields, DurableGoals
<1>5. [Selected EXCEPT !.defn = d, !.revisions = @ + 1, !.evidence = None, !.judged = None,
                       !.status = "paused"]
        = [[[[[Selected EXCEPT !.defn = d] EXCEPT !.revisions = Selected.revisions + 1]
                 EXCEPT !.evidence = None] EXCEPT !.judged = None] EXCEPT !.status = "paused"]
  BY SMT
<1>6. Save(current, h)
  BY <1>1, <1>4, <1>5
<1> HIDE DEF a
<1>7. b \in DurableGoals /\ Same(b, a, {"revisions"})
  BY <1>3, <1>4, SetFields
<1> HIDE DEF b
<1>8. c \in DurableGoals /\ c.evidence = None /\ Same(c, b, {"evidence"})
  BY <1>7, SetFields
<1> HIDE DEF c
<1>9. e \in DurableGoals /\ Same(e, c, {"judged"})
  BY <1>8, SetFields
<1> HIDE DEF e
<1>10. h \in DurableGoals /\ h.status = "paused" /\ Same(h, e, {"status"})
  BY <1>9, SetFields DEF Statuses
<1> HIDE DEF h
<1>11. /\ Same(h, Selected, {"defn", "revisions", "evidence", "judged", "status"})
       /\ h.evidence = None
  BY <1>3, <1>7, <1>8, <1>9, <1>10 DEF Same, Fields
<1>12. Quiet(h, Selected) /\ h.job = Selected.job
  BY <1>11, SameQuiet DEF Same, Fields
<1> QED BY <1>0, <1>1, <1>6, <1>10, <1>11, <1>12, QuietSelected DEF Going

LEMMA ResumeKeeps ==
    ASSUME GoalAssumption, ChildAssumption, GoalInv, Resume, UNCHANGED childVars
    PROVE  GoalInv' /\ LateStep
<1> DEFINE s == IF Selected.job # None /\ Selected.job.state # "passed" THEN "waiting" ELSE "working"
           a == [Selected EXCEPT !.status = s]
           h == [a EXCEPT !.evidence = None]
<1>0. TaskLike
  BY UnchangedTask
<1>1. /\ Yielded /\ current # 0 /\ ~InFlight(Selected) /\ Selected.uncertain = 0
      /\ Selected.status \notin {"completed", "cancelled"}
      /\ UNCHANGED <<current, entries, routine, stray, inputs, begun, spent, passed>>
  BY DEF Resume
<1>2. Selected \in DurableGoals
  BY <1>1, SelectedLatest
<1>3. [Selected EXCEPT !.status = s, !.evidence = None]
        = [[Selected EXCEPT !.status = s] EXCEPT !.evidence = None]
  BY SMT
<1>4. Save(current, h)
  BY <1>3 DEF Resume
<1>5. s \in {"working", "waiting"} /\ s \in Statuses
  BY DEF Statuses
<1> HIDE DEF s
<1>6. a \in DurableGoals /\ a.status = s /\ Same(a, Selected, {"status"})
  BY <1>2, <1>5, SetFields
<1> HIDE DEF a
<1>7. h \in DurableGoals /\ h.evidence = None /\ Same(h, a, {"evidence"})
  BY <1>6, SetFields
<1> HIDE DEF h
<1>8. Same(h, Selected, {"status", "evidence"}) /\ h.status = s
  BY <1>6, <1>7 DEF Same, Fields
<1>9. /\ Quiet(h, Selected) /\ h.job = Selected.job
      /\ ~h.evaluating /\ h.uncertain = 0
  BY <1>1, <1>8, SameQuiet DEF Same, Fields, InFlight
<1>10. Selected.status \in StopStatuses => Selected.status = "paused"
  BY <1>1 DEF StopStatuses
<1> QED BY <1>0, <1>1, <1>4, <1>5, <1>7, <1>8, <1>9, <1>10, QuietSelected

LEMMA RegisterJobKeeps ==
    ASSUME GoalAssumption, ChildAssumption, NoneAssumption, GoalInv, RegisterJob, UNCHANGED childVars
    PROVE  GoalInv' /\ LateStep
<1> DEFINE j == [state |-> "running", committed |-> FALSE, defn |-> Selected.defn]
           a == [Selected EXCEPT !.job = j]
           h == [a EXCEPT !.status = "waiting"]
<1>0. TaskLike
  BY UnchangedTask
<1>1. /\ Yielded /\ current # 0 /\ Selected.status \in {"working", "waiting"} /\ Selected.job = None
      /\ UNCHANGED <<current, entries, routine, stray, inputs, begun, spent, passed>>
  BY DEF RegisterJob
<1>2. Selected \in DurableGoals /\ GoalHeld(Selected) /\ Selected.uncertain \in Nat
      /\ current \in DOMAIN goals /\ Selected = goals[current]
  BY <1>1, SelectedLatest
<1>3. [Selected EXCEPT !.job = j, !.status = "waiting"]
        = [[Selected EXCEPT !.job = j] EXCEPT !.status = "waiting"]
  BY SMT
<1>4. Save(current, h)
  BY <1>3 DEF RegisterJob
<1>5. j \in Jobs \cup {None}
  BY <1>2 DEF Jobs, DurableGoals
<1> HIDE DEF j
<1>6. a \in DurableGoals /\ Same(a, Selected, {"job"})
  BY <1>2, <1>5, SetFields
<1> HIDE DEF a
<1>7. h \in DurableGoals /\ h.status = "waiting" /\ Same(h, a, {"status"})
  BY <1>6, SetFields DEF Statuses
<1> HIDE DEF h
<1>8. Same(h, Selected, {"status", "job"})
  BY <1>6, <1>7 DEF Same, Fields
<1>9. /\ Quiet(h, Selected) /\ h.evidence = Selected.evidence /\ h.judged = Selected.judged
      /\ h.uncertain = Selected.uncertain
  BY <1>8, SameQuiet DEF Same, Fields
<1>10. Selected.uncertain = 0
  BY <1>1, <1>2 DEF GoalHeld, Going
<1>11. ChildrenOf(current) = {}
  BY <1>1, <1>2 DEF GoalInv, JobsHeld, ChildrenOf
<1>12. Selected.status \notin StopStatuses
  BY <1>1 DEF StopStatuses
<1> QED BY <1>0, <1>1, <1>4, <1>7, <1>9, <1>10, <1>11, <1>12, QuietSelected

LEMMA ReportJobKeeps ==
    ASSUME GoalAssumption, ChildAssumption, NoneAssumption, GoalInv,
           NEW i \in DOMAIN goals, ChildrenOf(i) = {}, Reports(i), UNCHANGED childVars
    PROVE  GoalInv' /\ LateStep
<1> SUFFICES ASSUME NEW withResult \in BOOLEAN, NEW state \in {"running", "passed", "failed"},
                    ReportJob(i, state, withResult)
             PROVE  GoalInv' /\ LateStep
  BY DEF Reports
<1> DEFINE g == goals[i]
           done == state = "passed" /\ g.status = "waiting" /\ ~InFlight(g)
           s == IF ~done THEN g.status
                ELSE IF Exhausted(g, 0, 1) THEN "budget_exhausted" ELSE "working"
           j == [g.job EXCEPT !.state = state]
           jj == [j EXCEPT !.committed = withResult /\ state \in {"passed", "failed"}]
           k == [g EXCEPT !.job = j]
           a == [k EXCEPT !.job = jj]
           h == [a EXCEPT !.status = s]
<1>0. TaskLike
  BY UnchangedTask
<1>1. /\ Yielded /\ g.job # None
      /\ UNCHANGED <<current, entries, routine, stray, inputs, begun, spent, passed>>
      /\ Save(i, [g EXCEPT !.job.state = state,
                           !.job.committed = withResult /\ state \in {"passed", "failed"},
                           !.status = s])
  BY DEF ReportJob
<1>2. /\ g \in DurableGoals /\ GoalHeld(g) /\ EvidenceOf(g, passed[i])
      /\ i # current => ~Going(g)
  BY DEF GoalInv, ChildTypeOK, GoalTypeOK, GoalsHeld, EvidenceHeld, LatestOnly
<1>3. g.job \in Jobs /\ g.status \in Statuses /\ g.uncertain \in Nat
  BY <1>1, <1>2 DEF DurableGoals
<1>4. s \in Statuses
  BY <1>3 DEF Statuses
<1>41. /\ s = "working" => g.status \in {"working", "waiting"} /\ (~InFlight(g) \/ g.status = "working")
       /\ s = "waiting" => g.status = "waiting"
       /\ s = "completed" => g.status = "completed"
  OBVIOUS
<1> HIDE DEF s
<1>5. [g EXCEPT !.job.state = state,
                !.job.committed = withResult /\ state \in {"passed", "failed"}, !.status = s]
        = [[[g EXCEPT !.job.state = state]
               EXCEPT !.job.committed = withResult /\ state \in {"passed", "failed"}]
               EXCEPT !.status = s]
  BY SMT
<1>6. [g EXCEPT !.job.state = state] = k
  BY SMT
<1>60. j \in Jobs
  BY <1>3 DEF Jobs
<1> HIDE DEF j
<1>61. k \in DurableGoals /\ k.job = j /\ Same(k, g, {"job"})
  BY <1>2, <1>60, SetFields
<1>62. [k EXCEPT !.job.committed = withResult /\ state \in {"passed", "failed"}] = a
  <2>1. [k EXCEPT !.job.committed = withResult /\ state \in {"passed", "failed"}]
          = [k EXCEPT !.job = [k.job EXCEPT !.committed = withResult /\ state \in {"passed", "failed"}]]
    BY SMT
  <2> QED BY <1>61, <2>1
<1>7. Save(i, h)
  BY <1>1, <1>5, <1>6, <1>62
<1> HIDE DEF k
<1>9. jj \in Jobs
  BY <1>60 DEF Jobs
<1> HIDE DEF jj
<1>10. a \in DurableGoals /\ Same(a, k, {"job"})
  BY <1>61, <1>9, SetFields
<1> HIDE DEF a
<1>11. h \in DurableGoals /\ h.status = s /\ Same(h, a, {"status"})
  BY <1>4, <1>10, SetFields
<1> HIDE DEF h
<1>12. Same(h, g, {"status", "job"})
  BY <1>61, <1>10, <1>11 DEF Same, Fields
<1>13. /\ Quiet(h, g) /\ h.evidence = g.evidence /\ h.judged = g.judged
       /\ h.uncertain = g.uncertain /\ h.evaluating = g.evaluating /\ (InFlight(h) <=> InFlight(g))
  <2>1. Quiet(h, g)
    BY <1>12, SameQuiet
  <2>2. /\ h.evidence = g.evidence /\ h.judged = g.judged /\ h.held = g.held
        /\ h.uncertain = g.uncertain /\ h.evaluating = g.evaluating
    BY <1>12 DEF Same, Fields
  <2> QED BY <2>1, <2>2 DEF InFlight
<1>14. Going(h) => Going(g)
  BY <1>11, <1>41 DEF Going
<1>15. h.evaluating => h.status # "working"
  BY <1>2, <1>11, <1>13, <1>41 DEF GoalHeld, InFlight
<1>16. h.uncertain > 0 => ~Going(h)
  BY <1>2, <1>13, <1>14 DEF GoalHeld
<1>17. EvidenceOf(h, passed[i])
  BY <1>2, <1>13 DEF EvidenceOf, Passing
<1>18. JobKept(i, h) /\ MayComplete(i, h)
  BY <1>11, <1>41 DEF JobKept, MayComplete
<1>19. g.status \in StopStatuses => ~Going(h)
  BY <1>14 DEF StopStatuses, Going
<1> QED BY <1>0, <1>1, <1>2, <1>7, <1>11, <1>13, <1>14, <1>15, <1>16, <1>17, <1>18, <1>19, QuietStep

-----------------------------------------------------------------------------
(* Completion checks and the evaluator.                                     *)

LEMMA RestNow ==
    ASSUME GoalInv
    PROVE  /\ RestTypeOK /\ goals \in Seq(DurableGoals) /\ Len(goals) <= MaxGoals
           /\ Len(goals) \in Nat /\ current \in 0..Len(goals)
BY DEF GoalInv, ChildTypeOK, GoalTypeOK, RestTypeOK

LEMMA CheckedKept ==
    ASSUME GoalAssumption, NoneAssumption, GoalInv,
           current # 0, Selected.status # "completed" => SafeBoundary,
           NEW obs \in Observations \cup {None, AdapterError},
           NEW last \in BOOLEAN, NEW stalls \in BOOLEAN
    PROVE  LET k == IF Selected.status = "completed" THEN Selected
                    ELSE Checked(Selected, obs, last, stalls) IN
           /\ k \in DurableGoals /\ Quiet(k, Selected)
           /\ k.evaluating => k.status # "working"
           /\ k.uncertain > 0 => ~Going(k)
           /\ EvidenceOf(k, passed[current]) /\ JobKept(current, k) /\ MayComplete(current, k)
           /\ Selected.status \in StopStatuses => ~Going(k)
           /\ k.status = "working" => k.uncertain = 0 /\ ~InFlight(k)
           /\ \/ k.job = Selected.job
              \/ Selected.job # None /\ k.job # None /\ k.job.state = "stuck"
<1> DEFINE k == Checked(Selected, obs, last, stalls)
<1>1. /\ current \in DOMAIN goals /\ Selected = goals[current] /\ Selected \in DurableGoals
      /\ GoalHeld(Selected) /\ EvidenceOf(Selected, passed[current])
  BY SelectedLatest
<1>2. ChildrenOf(current) # {} => Selected.job # None
  BY <1>1 DEF GoalInv, JobsHeld, ChildrenOf
<1>3. CASE Selected.status = "completed"
  <2>1. Quiet(Selected, Selected)
    BY DEF Quiet
  <2>2. JobKept(current, Selected) /\ MayComplete(current, Selected)
    BY <1>1, <1>2, <1>3 DEF JobKept, MayComplete
  <2>3. Selected.status # "working" /\ ~Going(Selected)
    BY <1>3 DEF Going
  <2> QED BY <1>1, <1>3, <2>1, <2>2, <2>3
<1>4. CASE Selected.status # "completed"
  <2>0. k = IF Selected.status = "completed" THEN Selected
            ELSE Checked(Selected, obs, last, stalls)
    BY <1>4
  <2>1. /\ k \in DurableGoals /\ Same(k, Selected, {"status", "evidence", "job"})
        /\ \/ k.job = Selected.job
           \/ /\ Selected.job # None /\ k.job \in Jobs
              /\ Selected.job.state = "running" /\ k.job.state = "stuck"
        /\ Passing(k) => k.judged = k.evidence.obs /\ passed[current] = k.evidence.obs
        /\ Selected.status \in StopStatuses => ~Going(k)
        /\ Selected.uncertain > 0 => ~Going(k)
        /\ k.status = "completed" => Complete(k, k.evidence, inputs)
        /\ k.status = "working" => k.uncertain = 0
    BY <1>1, <1>4, CheckedFacts
  <2> HIDE DEF k
  <2>2. /\ Quiet(k, Selected) /\ k.uncertain = Selected.uncertain /\ (InFlight(k) <=> InFlight(Selected))
        /\ k.evaluating = Selected.evaluating
    BY <2>1, SameQuiet
  <2>3. ~InFlight(Selected)
    BY <1>4 DEF SafeBoundary
  <2>4. ~InFlight(k) /\ ~k.evaluating
    BY <2>2, <2>3 DEF InFlight
  <2>5. EvidenceOf(k, passed[current])
    BY <2>1, <2>4 DEF EvidenceOf
  <2>6. k.job # Selected.job => k.job # None
    BY <2>1, NoneAssumption DEF NoneAssumption
  <2>7. JobKept(current, k)
    BY <1>1, <1>2, <2>1, <2>6 DEF JobKept
  <2>8. MayComplete(current, k)
    BY <2>1, <2>4 DEF MayComplete, Complete, Passing
  <2> QED BY <2>0, <2>1, <2>2, <2>4, <2>5, <2>6, <2>7, <2>8
<1> QED BY <1>3, <1>4

LEMMA CheckGoalKeeps ==
    ASSUME GoalAssumption, ChildAssumption, NoneAssumption, GoalInv,
           NEW obs \in Observations \cup {None, AdapterError},
           NEW last \in BOOLEAN, NEW stalls \in BOOLEAN,
           CheckGoal(obs, last, stalls), UNCHANGED childVars
    PROVE  GoalInv' /\ LateStep
<1> DEFINE h == Checked(Selected, obs, last, stalls)
<1>0. TaskLike
  BY UnchangedTask
<1>1. /\ Yielded /\ current # 0 /\ Selected.status # "completed" /\ SafeBoundary /\ Save(current, h)
      /\ UNCHANGED <<current, entries, routine, stray, inputs, begun, spent, passed>>
  BY DEF CheckGoal
<1>2. current \in DOMAIN goals /\ Selected = goals[current]
  BY <1>1, SelectedLatest
<1>3. /\ h \in DurableGoals /\ Quiet(h, Selected)
      /\ h.evaluating => h.status # "working"
      /\ h.uncertain > 0 => ~Going(h)
      /\ EvidenceOf(h, passed[current]) /\ JobKept(current, h) /\ MayComplete(current, h)
      /\ Selected.status \in StopStatuses => ~Going(h)
  BY <1>1, CheckedKept
<1> HIDE DEF h
<1> QED BY <1>0, <1>1, <1>2, <1>3, QuietStep

LEMMA EvaluateKeeps ==
    ASSUME GoalAssumption, ChildAssumption, NoneAssumption, GoalInv,
           NEW obs \in Observations \cup {None, AdapterError},
           NEW last \in BOOLEAN, NEW stalls \in BOOLEAN,
           Evaluate(obs, last, stalls), UNCHANGED childVars
    PROVE  GoalInv' /\ LateStep
<1> DEFINE k == IF Selected.status = "completed" THEN Selected
                ELSE Checked(Selected, obs, last, stalls)
<1>0. TaskLike
  BY UnchangedTask
<1>1. /\ routine.at \in {"none", "begin"} /\ current # 0
      /\ Selected.status # "completed" => SafeBoundary
      /\ IF ~Evaluable(k)
         THEN Save(current, k) /\ routine' = Idle /\ UNCHANGED begun
         ELSE IF Exhausted(k, Reserve, 1)
         THEN /\ Save(current, [k EXCEPT !.status = "budget_exhausted"])
              /\ routine' = Idle /\ UNCHANGED begun
         ELSE /\ Save(current, [Charged(k) EXCEPT !.status = "waiting", !.evaluating = TRUE])
              /\ routine' = [Idle EXCEPT !.at = "await", !.goal = current, !.obs = k.evidence.obs]
              /\ begun' = begun + 1
      /\ UNCHANGED <<current, entries, stray, inputs, spent, passed>>
  BY DEF Evaluate
<1>2. /\ current \in DOMAIN goals /\ Selected = goals[current] /\ current = Latest
      /\ Selected \in DurableGoals /\ goals \in Seq(DurableGoals)
  BY <1>1, SelectedLatest
<1>3. /\ k \in DurableGoals /\ Quiet(k, Selected)
      /\ k.evaluating => k.status # "working"
      /\ k.uncertain > 0 => ~Going(k)
      /\ EvidenceOf(k, passed[current]) /\ JobKept(current, k) /\ MayComplete(current, k)
      /\ Selected.status \in StopStatuses => ~Going(k)
      /\ k.status = "working" => k.uncertain = 0 /\ ~InFlight(k)
      /\ \/ k.job = Selected.job
         \/ Selected.job # None /\ k.job # None /\ k.job.state = "stuck"
  BY <1>1, CheckedKept
<1> HIDE DEF k
<1>4. CASE ~Evaluable(k)
  BY <1>0, <1>1, <1>2, <1>3, <1>4, QuietStep
<1>5. CASE Evaluable(k) /\ Exhausted(k, Reserve, 1)
  <2> DEFINE h == [k EXCEPT !.status = "budget_exhausted"]
  <2>1. h \in DurableGoals /\ h.status = "budget_exhausted" /\ Same(h, k, {"status"})
    BY <1>3, SetFields DEF Statuses
  <2>2. Save(current, h) /\ routine' = Idle /\ UNCHANGED begun
    BY <1>1, <1>5
  <2> HIDE DEF h
  <2>3. Quiet(h, k) /\ h.job = k.job /\ h.evidence = k.evidence /\ h.judged = k.judged
        /\ h.evaluating = k.evaluating
    BY <2>1, SameQuiet DEF Same, Fields
  <2>4. Quiet(h, Selected)
    BY <1>3, <2>3 DEF Quiet
  <2>5. EvidenceOf(h, passed[current]) /\ JobKept(current, h) /\ MayComplete(current, h) /\ ~Going(h)
    BY <1>3, <2>1, <2>3 DEF EvidenceOf, Passing, JobKept, MayComplete, Going
  <2> QED BY <1>0, <1>1, <1>2, <2>1, <2>2, <2>4, <2>5, QuietStep
<1>6. CASE Evaluable(k) /\ ~Exhausted(k, Reserve, 1)
  <2> DEFINE c == Charged(k)
             a == [c EXCEPT !.status = "waiting"]
             h == [a EXCEPT !.evaluating = TRUE]
  <2>1. c \in DurableGoals /\ c.attempts = k.attempts + 1 /\ c.output = k.output + Reserve
        /\ Same(c, k, {"attempts", "output"})
    BY <1>3, ChargedFacts
  <2>2. [Charged(k) EXCEPT !.status = "waiting", !.evaluating = TRUE]
          = [[Charged(k) EXCEPT !.status = "waiting"] EXCEPT !.evaluating = TRUE]
    BY SMT
  <2>3. Save(current, h)
    BY <1>1, <1>6, <2>2
  <2> HIDE DEF c
  <2>4. a \in DurableGoals /\ a.status = "waiting" /\ Same(a, c, {"status"})
    BY <2>1, SetFields DEF Statuses
  <2> HIDE DEF a
  <2>5. h \in DurableGoals /\ h.evaluating = TRUE /\ Same(h, a, {"evaluating"})
    BY <2>4, SetFields
  <2> HIDE DEF h
  <2>6. /\ h.status = "waiting" /\ h.held = k.held /\ h.uncertain = k.uncertain
        /\ h.evidence = k.evidence /\ h.judged = k.judged /\ h.job = k.job
        /\ h.attempts = k.attempts + 1 /\ h.output = k.output + Reserve
    BY <2>1, <2>4, <2>5 DEF Same, Fields
  <2>7. k.status = "working" /\ k.uncertain = 0 /\ k.held = 0 /\ ~k.evaluating
    BY <1>3, <1>6 DEF Evaluable, InFlight
  <2>8. /\ k.held = Selected.held /\ k.evaluating = Selected.evaluating /\ k.uncertain = Selected.uncertain
        /\ k.attempts = Selected.attempts /\ k.output = Selected.output
    BY <1>3 DEF Quiet, QuietFields
  <2>9. k.evidence # None /\ k.evidence.semantic = "unavailable" /\ k.evidence.obs \in Observations
    BY <1>3, <1>6 DEF Evaluable, DurableGoals, Evidences
  <2>10. /\ goals' \in Seq(DurableGoals) /\ Len(goals') = Len(goals)
         /\ DOMAIN goals' = DOMAIN goals /\ goals'[current] = h
         /\ \A j \in DOMAIN goals : j # current => goals'[j] = goals[j]
    BY <1>2, <2>3, <2>5, SavedGoals
  <2>11. routine' = [at |-> "await", goal |-> current, obs |-> k.evidence.obs, verdict |-> None]
    BY <1>1, <1>6 DEF Idle
  <2>12. RestTypeOK'
    <3>1. RestTypeOK /\ current \in 0..MaxGoals
      BY RestNow, GoalAssumption DEF GoalAssumption
    <3>2. begun' \in Nat
      BY <1>1, <1>6, <3>1 DEF RestTypeOK
    <3> QED BY <1>1, <2>9, <2>11, <3>1, <3>2 DEF RestTypeOK
  <2>13. Selected.status \notin StopStatuses
    BY <1>3, <2>7 DEF Going
  <2>14. GoalKept(current, h)
    <3>1. GoalHeld(h)
      BY <2>6, <2>7 DEF GoalHeld
    <3>2. EvidenceOf(h, passed'[current])
      BY <2>6, <2>9 DEF EvidenceOf, Passing
    <3>3. JobKept(current, h) /\ MayComplete(current, h)
      BY <1>3, <2>6 DEF JobKept, MayComplete
    <3> QED BY <1>1, <1>2, <2>13, <3>1, <3>2, <3>3 DEF GoalKept
  <2>15. MessagesHeld'
    <3>1. \A j \in DOMAIN goals : goals'[j].held = goals[j].held
      BY <1>2, <2>6, <2>8, <2>10
    <3> QED BY <1>1, <2>10, <3>1 DEF MessagesHeld, GoalInv
  <2>16. RoutineHeld'
    <3>1. ASSUME task.at # "none" PROVE children[task.child].goal # current
      <4>1. task.child \in DOMAIN children
            /\ (children[task.child].state = "running" \/ children[task.child].integration = "integrating")
        BY <3>1 DEF GoalInv, TaskPlaced, PatchesHeld
      <4>2. ~Done(children[task.child])
        <5>1. children[task.child].integration = "integrating" => children[task.child].coding
          <6>1. task.at \in {"none", "executing", "staging", "verifying", "merging", "confirming"}
            BY DEF GoalInv, ChildTypeOK
          <6> QED BY <3>1, <6>1 DEF GoalInv, TaskPlaced
        <5> QED BY <4>1, <5>1 DEF Done
      <4>3. goals[children[task.child].goal].job # None
            /\ goals[children[task.child].goal].job.state # "passed"
        BY <4>1, <4>2 DEF GoalInv, JobsHeld
      <4>4. k.job = None \/ k.job.state = "passed"
        BY <1>6 DEF Evaluable
      <4> QED BY <1>2, <1>3, <4>3, <4>4
    <3> QED BY <1>0, <1>2, <2>5, <2>6, <2>7, <2>9, <2>10, <2>11, <3>1 DEF RoutineHeld, TaskLike
  <2>17. LatestCovers'
    <3>1. Exposed' = Exposed + Reserve /\ Exposed \in Nat /\ Reserve \in Nat
      <4>1. Busy' = Busy
        BY <1>1 DEF Busy
      <4>2. Implementing' = Implementing
        BY <1>0 DEF Implementing, TaskLike
      <4>3. routine.at # "await" /\ routine'.at = "await" /\ Reserve \in Nat
        BY <1>1, <2>11, GoalAssumption DEF GoalAssumption
      <4> QED BY <4>1, <4>2, <4>3 DEF Exposed
    <3>2. Latest' = Latest /\ Latest # 0
      BY <1>1, <1>2, <2>10 DEF Latest
    <3>3. Selected.attempts >= begun /\ Selected.output >= spent + Exposed
      BY <1>2, <3>2 DEF GoalInv, LatestCovers
    <3>4. begun' = begun + 1 /\ spent' = spent
      BY <1>1, <1>6
    <3>5. begun \in Nat /\ spent \in Nat /\ Selected.attempts \in Nat /\ Selected.output \in Nat
      BY <1>2, RestNow DEF RestTypeOK, DurableGoals
    <3>6. h.attempts >= begun + 1 /\ h.output >= spent + (Exposed + Reserve)
      BY <2>6, <2>8, <3>1, <3>3, <3>5
    <3> QED BY <1>2, <2>10, <3>1, <3>2, <3>4, <3>6 DEF LatestCovers
  <2>18. Loose(current) = 0 /\ Loose(current)' = 0
    <3>1. Loose(current) = 0
      BY <1>2, <2>7, <2>8 DEF Loose, Unattended
    <3>2. ~Unattended(current)'
      BY <1>1, <2>6, <2>7, <2>10, <2>11 DEF Unattended
    <3>3. Loose(current)' = (IF Unattended(current) THEN 1 ELSE 0)'
      BY DEF Loose
    <3> QED BY <1>1, <3>1, <3>2, <3>3
  <2>19. h.uncertain + Loose(current) = goals[current].uncertain + Loose(current)'
    BY <1>2, <2>6, <2>8, <2>18
  <2> QED BY <1>0, <1>1, <1>2, <2>3, <2>5, <2>12, <2>14, <2>15, <2>16, <2>17, <2>19, SavedStep
<1> QED BY <1>4, <1>5, <1>6

LEMMA ApplyVerdictKeeps ==
    ASSUME GoalAssumption, ChildAssumption, NoneAssumption, GoalInv,
           NEW stalls \in BOOLEAN, ApplyVerdict(stalls), UNCHANGED childVars
    PROVE  GoalInv' /\ LateStep
<1> DEFINE i == routine.goal
           g == goals[i]
           ev == [obs |-> routine.obs,
                  semantic |-> IF routine.verdict = "passed" THEN "passed" ELSE "failed",
                  cause |-> routine.verdict = "blocked"]
           w == [g EXCEPT !.status = "working"]
           d == Decided(w, ev, inputs, stalls)
           s == IF routine.verdict = "blocked" /\ d.status \notin {"completed", "budget_exhausted"}
                THEN "blocked" ELSE d.status
           a == [d EXCEPT !.judged = routine.obs]
           h == [a EXCEPT !.status = s]
<1>0. TaskLike
  BY UnchangedTask
<1>1. routine.at = "apply" /\ routine' = Idle
      /\ UNCHANGED <<current, entries, stray, inputs, begun, spent, passed>>
  BY DEF ApplyVerdict
<1>2. /\ i \in DOMAIN goals /\ i = current /\ current # 0 /\ ~InFlight(g) /\ g.status = "waiting"
      /\ routine.obs \in Observations
      /\ routine.verdict = "passed" => passed[i] = routine.obs
  BY <1>1, RestNow DEF GoalInv, RoutineHeld
<1>3. g \in DurableGoals /\ i = Latest /\ GoalHeld(g) /\ g.uncertain \in Nat
  BY <1>2, SelectedLatest DEF Selected
<1>4. Save(i, [d EXCEPT !.judged = routine.obs,
                        !.status = IF routine.verdict = "blocked" /\ @ \notin {"completed", "budget_exhausted"}
                                   THEN "blocked" ELSE @])
  BY DEF ApplyVerdict
<1>5. [d EXCEPT !.judged = routine.obs,
                !.status = IF routine.verdict = "blocked" /\ @ \notin {"completed", "budget_exhausted"}
                           THEN "blocked" ELSE @]
        = [[d EXCEPT !.judged = routine.obs] EXCEPT !.status = s]
  BY SMT
<1>6. Save(i, h)
  BY <1>4, <1>5
<1>7. w \in DurableGoals /\ w.status = "working" /\ Same(w, g, {"status"})
  BY <1>3, SetFields DEF Statuses
<1> HIDE DEF w
<1>8. ev \in Evidences /\ ev # None
  <2>1. (IF routine.verdict = "passed" THEN "passed" ELSE "failed") \in {"unavailable", "passed", "failed"}
        /\ (routine.verdict = "blocked") \in BOOLEAN
    OBVIOUS
  <2>2. ev \in Evidences
    BY <1>2, <2>1 DEF Evidences
  <2> QED BY <2>2, NoneAssumption DEF NoneAssumption
<1>9. /\ ev.obs = routine.obs
      /\ ev.semantic = "passed" => routine.verdict = "passed"
  OBVIOUS
<1> HIDE DEF ev
<1>10. /\ d \in DurableGoals /\ Same(d, w, {"status", "evidence"})
       /\ d.evidence \in {None, ev}
       /\ d.status = "completed" => Complete(w, d.evidence, inputs)
  BY <1>7, <1>8, DecidedFacts
<1> HIDE DEF d
<1>11. a \in DurableGoals /\ a.judged = routine.obs /\ Same(a, d, {"judged"})
  BY <1>2, <1>10, SetFields
<1> HIDE DEF a
<1>12. s \in Statuses /\ (s = "completed" => d.status = "completed")
  BY <1>10 DEF Statuses, DurableGoals
<1> HIDE DEF s
<1>13. h \in DurableGoals /\ h.status = s /\ Same(h, a, {"status"})
  BY <1>11, <1>12, SetFields
<1> HIDE DEF h
<1>14. Same(h, g, {"status", "evidence", "judged"}) /\ h.judged = routine.obs /\ h.evidence = d.evidence
  BY <1>7, <1>10, <1>11, <1>13 DEF Same, Fields
<1>15. Quiet(h, g) /\ h.uncertain = g.uncertain /\ ~InFlight(h) /\ ~h.evaluating
       /\ h.job = g.job /\ h.defn = g.defn
  <2>1. Quiet(h, g) /\ h.uncertain = g.uncertain /\ h.held = g.held /\ h.evaluating = g.evaluating
    BY <1>14, SameQuiet
  <2>2. h.job = g.job /\ h.defn = g.defn
    BY <1>14 DEF Same, Fields
  <2> QED BY <1>2, <2>1, <2>2 DEF InFlight
<1>16. w.job = g.job /\ w.defn = g.defn
  BY <1>7 DEF Same, Fields
<1>17. EvidenceOf(h, passed[i])
  BY <1>2, <1>9, <1>10, <1>14, <1>15 DEF EvidenceOf, Passing
<1>18. MayComplete(i, h)
  <2> SUFFICES ASSUME h.status = "completed"
               PROVE  /\ h.evidence # None /\ h.evidence.obs.good
                      /\ h.evidence.obs.defn = h.defn /\ h.evidence.obs.inputs = inputs
                      /\ passed[i] = h.evidence.obs
                      /\ ~Unresolved(h) /\ ~InFlight(h) /\ h.uncertain = 0
    BY DEF MayComplete
  <2>1. Complete(w, h.evidence, inputs)
    BY <1>10, <1>12, <1>13, <1>14
  <2>2. Passing(h)
    BY <2>1 DEF Complete, Passing
  <2>3. g.uncertain = 0
    BY <1>2, <1>3 DEF GoalHeld, Going
  <2> QED BY <1>15, <1>16, <1>17, <2>1, <2>2, <2>3 DEF Complete, EvidenceOf, Unresolved
<1>19. JobKept(i, h)
  BY <1>2, <1>15 DEF JobKept, GoalInv, JobsHeld, ChildrenOf
<1>20. h.uncertain > 0 => ~Going(h)
  BY <1>2, <1>3, <1>15 DEF GoalHeld, Going
<1>21. g.status \notin StopStatuses
  BY <1>2 DEF StopStatuses
<1> QED BY <1>0, <1>1, <1>2, <1>3, <1>6, <1>13, <1>15, <1>17, <1>18, <1>19, <1>20, <1>21, QuietStep

(* The latest goal has a reservation for what is in flight.                 *)
LEMMA LatestBooks ==
    ASSUME GoalAssumption, GoalInv, Latest # 0
    PROVE  /\ Latest \in DOMAIN goals /\ goals[Latest] \in DurableGoals
           /\ goals[Latest].attempts \in Nat /\ goals[Latest].output \in Nat
           /\ goals[Latest].uncertain \in Nat
           /\ begun \in Nat /\ spent \in Nat /\ Reserve \in Nat /\ Exposed \in Nat
           /\ goals[Latest].attempts >= begun /\ goals[Latest].output >= spent + Exposed
           /\ Busy \/ routine.at = "await" \/ Implementing => goals[Latest].output >= Reserve
<1>1. Reserve \in Nat
  BY GoalAssumption DEF GoalAssumption
<1>2. Exposed \in Nat /\ (Busy \/ routine.at = "await" \/ Implementing => Exposed >= Reserve)
  BY <1>1 DEF Exposed
<1>3. begun \in Nat /\ spent \in Nat /\ goals \in Seq(DurableGoals)
  BY RestNow DEF RestTypeOK
<1>4. Latest \in DOMAIN goals
  BY <1>3 DEF Latest
<1>5. goals[Latest] \in DurableGoals
  BY <1>3, <1>4
<1>6. /\ goals[Latest].attempts \in Nat /\ goals[Latest].output \in Nat
      /\ goals[Latest].uncertain \in Nat
  BY <1>5 DEF DurableGoals
<1>7. goals[Latest].attempts >= begun /\ goals[Latest].output >= spent + Exposed
  BY DEF GoalInv, LatestCovers
<1> QED BY <1>1, <1>2, <1>3, <1>4, <1>5, <1>6, <1>7

LEMMA AwaitedGoal ==
    ASSUME GoalAssumption, GoalInv, routine.at = "await"
    PROVE  LET g == goals[routine.goal] IN
           /\ routine.goal \in DOMAIN goals /\ routine.goal = Latest
           /\ g \in DurableGoals /\ g.evaluating /\ g.held = 0 /\ g.uncertain = 0
           /\ ~Passing(g) /\ g.status # "working" /\ g.output >= Reserve
           /\ routine.obs \in Observations /\ Loose(routine.goal) = 0
           /\ routine.goal # current => ~Going(g)
<1> DEFINE g == goals[routine.goal]
<1>1. routine.goal \in DOMAIN goals /\ g.evaluating /\ g.uncertain = 0 /\ routine.obs \in Observations
  BY DEF GoalInv, RoutineHeld
<1>2. routine.goal = Latest /\ (routine.goal # current => ~Going(g))
  BY <1>1 DEF GoalInv, LatestOnly, InFlight
<1>3. GoalHeld(g) /\ EvidenceOf(g, passed[routine.goal])
  BY <1>1 DEF GoalInv, GoalsHeld, EvidenceHeld
<1>4. g.held = 0 /\ g.status # "working" /\ ~Passing(g)
  BY <1>1, <1>3 DEF GoalHeld, EvidenceOf
<1>5. Latest # 0
  BY <1>1, <1>2, RestNow DEF Latest
<1>6. g \in DurableGoals /\ g.output >= Reserve
  BY <1>2, <1>5, LatestBooks
<1>7. Loose(routine.goal) = 0
  BY <1>4 DEF Loose, Unattended
<1> QED BY <1>1, <1>2, <1>4, <1>6, <1>7

LEMMA ExposureEnds ==
    ASSUME GoalAssumption, routine.at = "await", routine'.at # "await",
           UNCHANGED <<entries>>, Implementing' = Implementing
    PROVE  Exposed = Exposed' + Reserve /\ Exposed' \in Nat
<1>1. Busy' = Busy
  BY DEF Busy
<1>2. Reserve \in Nat
  BY GoalAssumption DEF GoalAssumption
<1> QED BY <1>1, <1>2 DEF Exposed

LEMMA EvaluatorAnswersKeeps ==
    ASSUME GoalAssumption, ChildAssumption, GoalInv,
           NEW verdict \in {"passed", "failed", "blocked"}, NEW used \in 0..Reserve,
           EvaluatorAnswers(verdict, used), UNCHANGED childVars
    PROVE  GoalInv' /\ LateStep
<1> SUFFICES ASSUME NEW i, i = routine.goal PROVE GoalInv' /\ LateStep
  OBVIOUS
<1> DEFINE g == goals[i]
           a == [g EXCEPT !.evaluating = FALSE]
           h == [a EXCEPT !.output = a.output - Reserve + used]
<1>0. TaskLike
  BY UnchangedTask
<1>1. /\ routine.at = "await" /\ spent' = spent + used
      /\ UNCHANGED <<current, entries, stray, inputs, begun>>
      /\ passed' = IF verdict = "passed" THEN [passed EXCEPT ![i] = routine.obs] ELSE passed
      /\ Save(i, [g EXCEPT !.evaluating = FALSE, !.output = @ - Reserve + used])
      /\ routine' = IF Late([g EXCEPT !.evaluating = FALSE, !.output = @ - Reserve + used]) THEN Idle
                    ELSE [routine EXCEPT !.at = "apply", !.verdict = verdict]
  BY DEF EvaluatorAnswers
<1>2. /\ i \in DOMAIN goals /\ i = Latest
      /\ g \in DurableGoals /\ g.evaluating /\ g.held = 0 /\ g.uncertain = 0
      /\ ~Passing(g) /\ g.status # "working" /\ g.output >= Reserve
      /\ routine.obs \in Observations /\ Loose(i) = 0
      /\ i # current => ~Going(g)
  BY <1>1, AwaitedGoal
<1>3. a \in DurableGoals /\ a.evaluating = FALSE /\ Same(a, g, {"evaluating"})
  BY <1>2, SetFields
<1>4. a.output = g.output /\ g.output \in Nat /\ Reserve \in Nat
  BY <1>2, <1>3, GoalAssumption DEF Same, Fields, DurableGoals, GoalAssumption
<1>5. [g EXCEPT !.evaluating = FALSE, !.output = @ - Reserve + used]
        = [[g EXCEPT !.evaluating = FALSE] EXCEPT !.output = g.output - Reserve + used]
  BY SMT
<1>6. [g EXCEPT !.evaluating = FALSE, !.output = @ - Reserve + used] = h
  BY <1>4, <1>5
<1> HIDE DEF a
<1>7. a.output - Reserve + used \in Nat
  BY <1>2, <1>4
<1>8. h \in DurableGoals /\ h.output = a.output - Reserve + used /\ Same(h, a, {"output"})
  BY <1>3, <1>7, SetFields
<1> HIDE DEF h
<1>9. /\ Same(h, g, {"evaluating", "output"}) /\ h.evaluating = FALSE
      /\ h.output = g.output - Reserve + used
  BY <1>3, <1>4, <1>8 DEF Same, Fields
<1>10. /\ h.status = g.status /\ h.held = 0 /\ h.uncertain = 0 /\ h.job = g.job
       /\ h.evidence = g.evidence /\ h.attempts = g.attempts /\ h.defn = g.defn
  BY <1>2, <1>9 DEF Same, Fields
<1>11. ~InFlight(h)
  BY <1>9, <1>10 DEF InFlight
<1>12. Save(i, h) /\ routine' = IF Late(h) THEN Idle
                                ELSE [routine EXCEPT !.at = "apply", !.verdict = verdict]
  BY <1>1, <1>6
<1>13. /\ goals' \in Seq(DurableGoals) /\ Len(goals') = Len(goals)
       /\ DOMAIN goals' = DOMAIN goals /\ goals'[i] = h
       /\ \A j \in DOMAIN goals : j # i => goals'[j] = goals[j]
  BY <1>2, <1>8, <1>12, RestNow, SavedGoals
<1>14. RestTypeOK /\ i \in 1..MaxGoals
  BY <1>2, RestNow
<1>15. passed' \in [1..MaxGoals -> Observations \cup {None}]
       /\ (\A j \in DOMAIN goals \ {i} : passed'[j] = passed[j])
       /\ (verdict = "passed" => passed'[i] = routine.obs)
  BY <1>1, <1>2, <1>14 DEF RestTypeOK
<1>16. /\ routine'.at \in {"none", "apply"}
       /\ routine'.at = "apply" => /\ ~Late(h) /\ routine'.goal = i /\ routine'.obs = routine.obs
                                   /\ routine'.verdict = verdict
       /\ routine' \in [at : {"none", "begin", "await", "apply"}, goal : 0..MaxGoals,
                        obs : Observations \cup {None},
                        verdict : {"passed", "failed", "blocked", None}]
  <2>1. CASE Late(h)
    BY <1>12, <2>1, GoalAssumption DEF Idle, GoalAssumption
  <2>2. CASE ~Late(h)
    <3>1. routine \in [at : {"none", "begin", "await", "apply"}, goal : 0..MaxGoals,
                        obs : Observations \cup {None},
                        verdict : {"passed", "failed", "blocked", None}]
      BY <1>14 DEF RestTypeOK
    <3>2. routine' = [at |-> "apply", goal |-> i, obs |-> routine.obs, verdict |-> verdict]
      BY <1>12, <2>2, <3>1
    <3> QED BY <1>14, <2>2, <3>1, <3>2
  <2> QED BY <2>1, <2>2
<1>17. RestTypeOK'
  BY <1>1, <1>4, <1>14, <1>15, <1>16, SMTT(40) DEF RestTypeOK
<1>18. GoalKept(i, h)
  <2>1. GoalHeld(h)
    BY <1>9, <1>10 DEF GoalHeld
  <2>2. EvidenceOf(h, passed'[i])
    BY <1>2, <1>10 DEF EvidenceOf, Passing
  <2>3. JobKept(i, h)
    BY <1>2, <1>10 DEF JobKept, GoalInv, JobsHeld, ChildrenOf
  <2>4. MayComplete(i, h)
    BY <1>10 DEF MayComplete
  <2>5. i # current' => ~Going(h)
    BY <1>1, <1>2, <1>10 DEF Going
  <2>6. ~(goals[i].status \in StopStatuses /\ Going(h))
    BY <1>10 DEF StopStatuses, Going
  <2> QED BY <1>11, <2>1, <2>2, <2>3, <2>4, <2>5, <2>6 DEF GoalKept
<1>19. MessagesHeld'
  <2>1. \A j \in DOMAIN goals : goals'[j].held = goals[j].held
    BY <1>2, <1>10, <1>13
  <2> QED BY <1>1, <1>13, <2>1 DEF MessagesHeld, GoalInv
<1>20. RoutineHeld'
  BY <1>1, <1>2, <1>11, <1>13, <1>15, <1>16 DEF RoutineHeld, Late
<1>21. LatestCovers'
  <2>1. Implementing' = Implementing
    BY <1>0 DEF Implementing, TaskLike
  <2>2. Exposed = Exposed' + Reserve /\ Exposed' \in Nat
    BY <1>1, <1>16, <2>1, ExposureEnds
  <2>3. Latest' = Latest /\ Latest # 0
    BY <1>2, <1>13, RestNow DEF Latest
  <2>4. g.attempts >= begun /\ g.output >= spent + Exposed /\ begun \in Nat /\ spent \in Nat
        /\ g.attempts \in Nat
    BY <1>2, <2>3, LatestBooks
  <2>5. h.attempts >= begun /\ h.output >= (spent + used) + Exposed'
    BY <1>4, <1>9, <1>10, <2>2, <2>4
  <2> QED BY <1>1, <1>2, <1>13, <2>3, <2>5 DEF LatestCovers
<1>22. Loose(i)' = 0
  BY <1>1, <1>11, <1>13, <1>16 DEF Loose, Unattended, InFlight
<1> QED BY <1>0, <1>1, <1>2, <1>8, <1>10, <1>12, <1>15, <1>17, <1>18, <1>19, <1>20, <1>21, <1>22, SavedStep

LEMMA EvaluatorFailsKeeps ==
    ASSUME GoalAssumption, ChildAssumption, GoalInv,
           NEW runsOn \in BOOLEAN, EvaluatorFails(runsOn), UNCHANGED childVars
    PROVE  GoalInv' /\ LateStep
<1> SUFFICES ASSUME NEW i, i = routine.goal PROVE GoalInv' /\ LateStep
  OBVIOUS
<1> DEFINE g == goals[i]
           h == Unanswered(g)
<1>0. TaskLike
  BY UnchangedTask
<1>1. /\ routine.at = "await" /\ routine' = Idle /\ stray' = runsOn /\ spent' = spent + Reserve
      /\ UNCHANGED <<current, entries, inputs, begun, passed>> /\ Save(i, h)
  BY DEF EvaluatorFails
<1>2. /\ i \in DOMAIN goals /\ i = Latest
      /\ g \in DurableGoals /\ g.evaluating /\ g.held = 0 /\ g.uncertain = 0
      /\ ~Passing(g) /\ g.status # "working" /\ g.output >= Reserve /\ Loose(i) = 0
  BY <1>1, AwaitedGoal
<1>3. /\ h \in DurableGoals /\ h.uncertain = g.uncertain + 1
      /\ Same(h, g, {"uncertain", "status"})
      /\ ~Going(h) /\ (h.status = "completed" => g.status = "completed")
  BY <1>2, UnansweredFacts
<1> HIDE DEF h
<1>4. /\ h.held = 0 /\ h.evaluating = g.evaluating /\ h.job = g.job /\ h.judged = g.judged
      /\ h.evidence = g.evidence /\ h.attempts = g.attempts /\ h.output = g.output
  BY <1>2, <1>3 DEF Same, Fields
<1>5. /\ goals' \in Seq(DurableGoals) /\ Len(goals') = Len(goals)
      /\ DOMAIN goals' = DOMAIN goals /\ goals'[i] = h
      /\ \A j \in DOMAIN goals : j # i => goals'[j] = goals[j]
  BY <1>1, <1>2, <1>3, RestNow, SavedGoals
<1>6. /\ routine'.at = "none"
      /\ routine' \in [at : {"none", "begin", "await", "apply"}, goal : 0..MaxGoals,
                       obs : Observations \cup {None},
                       verdict : {"passed", "failed", "blocked", None}]
  BY <1>1, GoalAssumption DEF Idle, GoalAssumption
<1>7. RestTypeOK'
  <2>1. RestTypeOK /\ Reserve \in Nat
    BY RestNow, GoalAssumption DEF GoalAssumption
  <2> QED BY <1>1, <1>6, <2>1 DEF RestTypeOK
<1>8. GoalKept(i, h)
  <2>1. GoalHeld(h)
    BY <1>2, <1>3, <1>4 DEF GoalHeld, Going
  <2>2. EvidenceOf(h, passed'[i])
    BY <1>2, <1>4 DEF EvidenceOf, Passing
  <2>3. JobKept(i, h)
    BY <1>2, <1>4 DEF JobKept, GoalInv, JobsHeld, ChildrenOf
  <2>4. MayComplete(i, h)
    BY <1>3 DEF MayComplete
  <2> QED BY <1>2, <1>3, <2>1, <2>2, <2>3, <2>4 DEF GoalKept
<1>9. MessagesHeld'
  <2>1. \A j \in DOMAIN goals : goals'[j].held = goals[j].held
    BY <1>2, <1>4, <1>5
  <2> QED BY <1>1, <1>5, <2>1 DEF MessagesHeld, GoalInv
<1>10. RoutineHeld'
  BY <1>6 DEF RoutineHeld
<1>11. LatestCovers'
  <2>1. Implementing' = Implementing
    BY <1>0 DEF Implementing, TaskLike
  <2>2. Exposed = Exposed' + Reserve /\ Exposed' \in Nat
    BY <1>1, <1>6, <2>1, ExposureEnds
  <2>3. Latest' = Latest /\ Latest # 0
    BY <1>2, <1>5, RestNow DEF Latest
  <2>4. g.attempts >= begun /\ g.output >= spent + Exposed /\ begun \in Nat /\ spent \in Nat
        /\ Reserve \in Nat /\ g.output \in Nat
    BY <1>2, <2>3, LatestBooks
  <2>5. h.attempts >= begun /\ h.output >= (spent + Reserve) + Exposed'
    BY <1>4, <2>2, <2>4
  <2> QED BY <1>1, <1>2, <1>5, <2>3, <2>5 DEF LatestCovers
<1>12. Loose(i)' = 1
  BY <1>2, <1>4, <1>5, <1>6 DEF Loose, Unattended
<1> QED BY <1>0, <1>1, <1>2, <1>3, <1>7, <1>8, <1>9, <1>10, <1>11, <1>12, SavedStep

LEMMA ReconcileKeeps ==
    ASSUME GoalAssumption, ChildAssumption, GoalInv, Reconcile, UNCHANGED childVars
    PROVE  GoalInv' /\ LateStep
<1> SUFFICES ASSUME NEW i, i = current PROVE GoalInv' /\ LateStep
  OBVIOUS
<1> DEFINE g == goals[i]
           e == IF g.held # 0 THEN g.evaluating ELSE FALSE
           a == [g EXCEPT !.uncertain = g.uncertain - 1]
           b == [a EXCEPT !.held = 0]
           h == [b EXCEPT !.evaluating = e]
<1>0. TaskLike
  BY UnchangedTask
<1>1. /\ Yielded /\ ~Busy /\ routine.at # "await" /\ current # 0 /\ Selected.uncertain > 0
      /\ InFlight(Selected)
      /\ UNCHANGED <<current, entries, routine, stray, inputs, begun, spent, passed>>
      /\ Save(current, [Selected EXCEPT !.uncertain = @ - 1, !.held = 0,
                            !.evaluating = IF Selected.held # 0 THEN @ ELSE FALSE])
  BY DEF Reconcile
<1>2. /\ i \in DOMAIN goals /\ i = Latest /\ Selected = g /\ g \in DurableGoals
      /\ GoalHeld(g) /\ EvidenceOf(g, passed[i]) /\ g.uncertain \in Nat
  BY <1>1, SelectedLatest
<1>3. g.held \in 0..MaxMessages /\ g.evaluating \in BOOLEAN
  BY <1>2 DEF DurableGoals
<1>4. e = FALSE
  BY <1>2, <1>3 DEF GoalHeld
<1>5. [g EXCEPT !.uncertain = @ - 1, !.held = 0, !.evaluating = IF g.held # 0 THEN @ ELSE FALSE]
        = [[[g EXCEPT !.uncertain = g.uncertain - 1] EXCEPT !.held = 0] EXCEPT !.evaluating = e]
  BY SMT
<1>6. Save(i, h)
  BY <1>1, <1>2, <1>5
<1> HIDE DEF e
<1>7. a \in DurableGoals /\ a.uncertain = g.uncertain - 1 /\ Same(a, g, {"uncertain"})
  <2>1. g.uncertain - 1 \in Nat
    BY <1>1, <1>2
  <2> QED BY <1>2, <2>1, SetFields
<1> HIDE DEF a
<1>8. b \in DurableGoals /\ b.held = 0 /\ Same(b, a, {"held"})
  <2>1. 0 \in 0..MaxMessages
    BY GoalAssumption DEF GoalAssumption
  <2> QED BY <1>7, <2>1, SetFields
<1> HIDE DEF b
<1>9. h \in DurableGoals /\ h.evaluating = FALSE /\ Same(h, b, {"evaluating"})
  BY <1>4, <1>8, SetFields
<1> HIDE DEF h
<1>10. /\ h.held = 0 /\ h.uncertain = g.uncertain - 1 /\ h.status = g.status /\ h.job = g.job
       /\ h.evidence = g.evidence /\ h.judged = g.judged /\ h.attempts = g.attempts
       /\ h.output = g.output
  BY <1>7, <1>8, <1>9 DEF Same, Fields
<1>11. /\ goals' \in Seq(DurableGoals) /\ Len(goals') = Len(goals)
       /\ DOMAIN goals' = DOMAIN goals /\ goals'[i] = h
       /\ \A j \in DOMAIN goals : j # i => goals'[j] = goals[j]
  BY <1>2, <1>6, <1>9, RestNow, SavedGoals
<1>12. ~Going(g) /\ ~Going(h) /\ ~InFlight(h)
  BY <1>1, <1>2, <1>9, <1>10 DEF GoalHeld, Going, InFlight
<1>13. RestTypeOK'
  <2>1. RestTypeOK
    BY RestNow
  <2> QED BY <1>1, <2>1 DEF RestTypeOK
<1>14. GoalKept(i, h)
  <2>1. GoalHeld(h)
    BY <1>9, <1>10, <1>12 DEF GoalHeld
  <2>2. EvidenceOf(h, passed'[i])
    BY <1>1, <1>2, <1>9, <1>10 DEF EvidenceOf, Passing
  <2>3. JobKept(i, h)
    BY <1>2, <1>10 DEF JobKept, GoalInv, JobsHeld, ChildrenOf
  <2>4. MayComplete(i, h)
    BY <1>10 DEF MayComplete
  <2> QED BY <1>12, <2>1, <2>2, <2>3, <2>4 DEF GoalKept
<1>15. MessagesHeld'
  <2>1. \A j \in DOMAIN goals : goals'[j].held = goals[j].held \/ goals'[j].held = 0
    BY <1>2, <1>10, <1>11
  <2>2. \A m \in DOMAIN entries : entries[m].status # "running"
    BY <1>1 DEF Busy
  <2>3. Len(entries) \in Nat
    BY RestNow DEF RestTypeOK
  <2>4. \A j \in DOMAIN goals : goals'[j].held \in 0..Len(entries)
    BY <2>1, <2>3 DEF MessagesHeld, GoalInv
  <2> QED BY <1>1, <1>11, <2>2, <2>4 DEF MessagesHeld, GoalInv
<1>16. RoutineHeld'
  BY <1>1 DEF RoutineHeld, Yielded
<1>17. LatestCovers'
  <2>1. Implementing' = Implementing /\ Busy' = Busy
    BY <1>0, <1>1 DEF Implementing, TaskLike, Busy
  <2>2. Exposed' = Exposed
    BY <1>1, <2>1 DEF Exposed
  <2>3. Latest' = Latest /\ Latest # 0
    BY <1>2, <1>11, RestNow DEF Latest
  <2>4. g.attempts >= begun /\ g.output >= spent + Exposed
    BY <1>2, <2>3, LatestBooks
  <2> QED BY <1>1, <1>2, <1>10, <1>11, <2>2, <2>3, <2>4 DEF LatestCovers
<1>18. Loose(i) = 1
  <2>1. ASSUME g.held # 0 PROVE entries[g.held].status # "running"
    <3>1. g.held \in DOMAIN entries
      BY <1>2, <1>3, <2>1, RestNow DEF MessagesHeld, GoalInv, RestTypeOK
    <3> QED BY <1>1, <3>1 DEF Busy
  <2> QED BY <1>1, <1>2, <2>1 DEF Loose, Unattended, InFlight
<1>19. Loose(i)' = 0
  BY <1>11, <1>12 DEF Loose, Unattended, InFlight
<1>20. h.uncertain + Loose(i) = goals[i].uncertain + Loose(i)'
  BY <1>2, <1>10, <1>18, <1>19
<1> QED BY <1>0, <1>1, <1>2, <1>6, <1>9, <1>13, <1>14, <1>15, <1>16, <1>17, <1>20, SavedStep

-----------------------------------------------------------------------------
(* Messages.                                                                *)

Entries == [goal : 1..MaxGoals, defn : Definitions, status : {"queued", "running", "ended"}]

LEMMA EntryTypes ==
    ASSUME RestTypeOK
    PROVE  /\ entries \in Seq(Entries) /\ Len(entries) \in Nat /\ Len(entries) <= MaxMessages
           /\ DOMAIN entries = 1..Len(entries)
           /\ \A m \in DOMAIN entries : /\ entries[m] \in Entries /\ entries[m].goal \in 1..MaxGoals
                                       /\ m \in 1..Len(entries) /\ m # 0
<1>1. entries \in Seq(Entries) /\ Len(entries) <= MaxMessages
  BY DEF RestTypeOK, Entries
<1>2. \A m \in DOMAIN entries : entries[m] \in Entries /\ m \in 1..Len(entries) /\ m # 0
  BY <1>1
<1>3. \A m \in DOMAIN entries : entries[m].goal \in 1..MaxGoals
  BY <1>2 DEF Entries
<1> QED BY <1>1, <1>2, <1>3

LEMMA SetEntry ==
    ASSUME RestTypeOK, NEW m \in DOMAIN entries, NEW s \in {"queued", "running", "ended"},
           entries' = [entries EXCEPT ![m].status = s]
    PROVE  /\ entries' \in Seq(Entries)
           /\ Len(entries') = Len(entries) /\ DOMAIN entries' = DOMAIN entries
           /\ \A k \in DOMAIN entries : entries'[k].goal = entries[k].goal
           /\ entries'[m].status = s
           /\ \A k \in DOMAIN entries : k # m => entries'[k].status = entries[k].status
<1> DEFINE e == [entries[m] EXCEPT !.status = s]
<1>1. entries \in Seq(Entries) /\ entries[m] \in Entries
  BY EntryTypes
<1>2. e \in Entries /\ e.status = s /\ e.goal = entries[m].goal
  BY <1>1 DEF Entries
<1>3. entries' = [entries EXCEPT ![m] = e]
  BY SMT
<1> HIDE DEF e
<1>4. entries' \in Seq(Entries) /\ Len(entries') = Len(entries) /\ DOMAIN entries' = DOMAIN entries
      /\ entries'[m] = e /\ (\A k \in DOMAIN entries : k # m => entries'[k] = entries[k])
  BY <1>1, <1>2, <1>3
<1> QED BY <1>2, <1>4

(* The running message is the one of the latest goal.                       *)
LEMMA RunningMessage ==
    ASSUME GoalAssumption, GoalInv, NEW m \in DOMAIN entries, entries[m].status = "running"
    PROVE  LET i == entries[m].goal g == goals[i] IN
           /\ i \in DOMAIN goals /\ i = Latest /\ g \in DurableGoals
           /\ g.held = m /\ m # 0 /\ ~g.evaluating
           /\ GoalHeld(g) /\ EvidenceOf(g, passed[i]) /\ (i # current => ~Going(g))
           /\ g.output >= Reserve /\ Busy /\ routine.at # "await" /\ Loose(i) = 0
           /\ \A k \in DOMAIN entries : entries[k].status = "running" => k = m
<1> DEFINE i == entries[m].goal
           g == goals[i]
<1>1. i \in DOMAIN goals /\ g.held = m
  BY DEF GoalInv, MessagesHeld
<1>2. m # 0
  BY RestNow, EntryTypes
<1>3. i = Latest /\ (i # current => ~Going(g))
  BY <1>1, <1>2 DEF GoalInv, LatestOnly, InFlight
<1>4. GoalHeld(g) /\ EvidenceOf(g, passed[i])
  BY <1>1 DEF GoalInv, GoalsHeld, EvidenceHeld
<1>5. ~g.evaluating
  BY <1>1, <1>2, <1>4 DEF GoalHeld
<1>6. Latest # 0 /\ Busy
  BY <1>1, <1>3, RestNow DEF Latest, Busy
<1>7. g \in DurableGoals /\ g.output >= Reserve
  BY <1>3, <1>6, LatestBooks
<1>8. routine.at # "await"
  BY <1>3, <1>5, AwaitedGoal
<1>9. Loose(i) = 0
  BY <1>1, <1>5 DEF Loose, Unattended
<1>10. ASSUME NEW k \in DOMAIN entries, entries[k].status = "running" PROVE k = m
  <2>1. entries[k].goal \in DOMAIN goals /\ goals[entries[k].goal].held = k
    BY <1>10 DEF GoalInv, MessagesHeld
  <2>2. k # 0
    BY RestNow, EntryTypes
  <2>3. entries[k].goal = Latest
    BY <2>1, <2>2 DEF GoalInv, LatestOnly, InFlight
  <2> QED BY <1>1, <1>3, <2>1, <2>3
<1> QED BY <1>1, <1>2, <1>3, <1>4, <1>5, <1>6, <1>7, <1>8, <1>9, <1>10

LEMMA DispatchKeeps ==
    ASSUME GoalAssumption, ChildAssumption, GoalInv,
           NEW m \in DOMAIN entries, Dispatch(m), UNCHANGED childVars
    PROVE  GoalInv' /\ LateStep
<1> SUFFICES ASSUME NEW i, i = current PROVE GoalInv' /\ LateStep
  OBVIOUS
<1> DEFINE g == goals[i]
           c == Charged(g)
           h == [c EXCEPT !.held = m]
<1>0. TaskLike
  BY UnchangedTask
<1>1. /\ Yielded /\ ~Busy /\ entries[m].status = "queued" /\ CanDispatch(m)
      /\ IF Exhausted(Selected, Reserve, 1)
         THEN /\ Save(current, [Selected EXCEPT !.status = "budget_exhausted"])
              /\ UNCHANGED <<entries, begun>>
         ELSE /\ Save(current, [Charged(Selected) EXCEPT !.held = m])
              /\ entries' = [entries EXCEPT ![m].status = "running"]
              /\ begun' = begun + 1
      /\ UNCHANGED <<current, routine, stray, inputs, spent, passed>>
  BY DEF Dispatch
<1>2. /\ entries[m].goal = i /\ Selected.status = "working"
      /\ Selected.held = 0 /\ Selected.uncertain = 0
  BY <1>1 DEF CanDispatch
<1>3. current # 0 /\ m \in 1..Len(entries) /\ m # 0 /\ m \in 0..MaxMessages
  <2>1. entries[m].goal \in 1..MaxGoals /\ m \in 1..Len(entries) /\ Len(entries) <= MaxMessages
        /\ Len(entries) \in Nat /\ m # 0
    BY RestNow, EntryTypes
  <2> QED BY <1>2, <2>1, GoalAssumption DEF GoalAssumption
<1>4. /\ i \in DOMAIN goals /\ i = Latest /\ Selected = g /\ g \in DurableGoals
      /\ GoalHeld(g) /\ EvidenceOf(g, passed[i])
  BY <1>3, SelectedLatest
<1>5. CASE Exhausted(Selected, Reserve, 1)
  BY <1>0, <1>1, <1>3, <1>5, StatusKeeps DEF Statuses
<1>6. CASE ~Exhausted(Selected, Reserve, 1)
  <2>1. /\ c \in DurableGoals /\ c.attempts = g.attempts + 1 /\ c.output = g.output + Reserve
        /\ Same(c, g, {"attempts", "output"})
    BY <1>4, ChargedFacts
  <2>2. Save(i, h) /\ entries' = [entries EXCEPT ![m].status = "running"] /\ begun' = begun + 1
    BY <1>1, <1>4, <1>6
  <2> HIDE DEF c
  <2>3. h \in DurableGoals /\ h.held = m /\ Same(h, c, {"held"})
    BY <1>3, <2>1, SetFields
  <2> HIDE DEF h
  <2>4. /\ h.attempts = g.attempts + 1 /\ h.output = g.output + Reserve
        /\ h.status = "working" /\ h.uncertain = 0 /\ h.evaluating = g.evaluating
        /\ h.evidence = g.evidence /\ h.judged = g.judged /\ h.job = g.job
    BY <1>2, <1>4, <2>1, <2>3 DEF Same, Fields
  <2>5. ~g.evaluating /\ ~InFlight(g)
    BY <1>2, <1>4 DEF GoalHeld, InFlight
  <2>6. /\ goals' \in Seq(DurableGoals) /\ Len(goals') = Len(goals)
        /\ DOMAIN goals' = DOMAIN goals /\ goals'[i] = h
        /\ \A j \in DOMAIN goals : j # i => goals'[j] = goals[j]
    BY <1>4, <2>2, <2>3, RestNow, SavedGoals
  <2>7. RestTypeOK
    BY RestNow
  <2>8. /\ entries' \in Seq(Entries)
        /\ Len(entries') = Len(entries) /\ DOMAIN entries' = DOMAIN entries
        /\ \A k \in DOMAIN entries : entries'[k].goal = entries[k].goal
        /\ entries'[m].status = "running"
        /\ \A k \in DOMAIN entries : k # m => entries'[k].status = entries[k].status
    BY <2>2, <2>7, SetEntry
  <2>9. RestTypeOK'
    <3>0. begun \in Nat
      BY <2>7 DEF RestTypeOK
    <3>1. begun' \in Nat
      BY <2>2, <3>0
    <3>2. Len(entries') <= MaxMessages
      BY <2>7, <2>8, EntryTypes
    <3> QED BY <1>1, <2>7, <2>8, <3>1, <3>2 DEF RestTypeOK, Entries
  <2>10. GoalKept(i, h)
    <3>1. GoalHeld(h)
      BY <2>4, <2>5 DEF GoalHeld
    <3>2. EvidenceOf(h, passed'[i])
      BY <1>1, <1>4, <2>4 DEF EvidenceOf, Passing
    <3>3. JobKept(i, h)
      BY <1>4, <2>4 DEF JobKept, GoalInv, JobsHeld, ChildrenOf
    <3>4. MayComplete(i, h) /\ g.status \notin StopStatuses
      BY <1>2, <1>4, <2>4 DEF MayComplete, StopStatuses
    <3> QED BY <1>1, <1>4, <3>1, <3>2, <3>3, <3>4 DEF GoalKept
  <2>11. \A k \in DOMAIN entries : entries'[k].status = "running" => k = m
    BY <1>1, <2>8 DEF Busy
  <2>12. MessagesHeld'
    <3>1. \A j \in DOMAIN goals : goals'[j].held \in 0..Len(entries)
      BY <1>3, <2>3, <2>6 DEF MessagesHeld, GoalInv
    <3>2. ASSUME NEW k \in DOMAIN entries
          PROVE  /\ entries'[k].goal \in DOMAIN goals'
                 /\ entries'[k].status = "running" => goals'[entries'[k].goal].held = k
      <4>1. entries[k].goal \in DOMAIN goals
        BY DEF MessagesHeld, GoalInv
      <4> QED BY <1>2, <2>3, <2>6, <2>8, <2>11, <4>1
    <3> QED BY <2>6, <2>8, <3>1, <3>2 DEF MessagesHeld
  <2>13. routine.at = "none"
    BY <1>1, <1>4, <2>5, AwaitedGoal DEF Yielded
  <2>14. RoutineHeld'
    BY <1>1, <2>13 DEF RoutineHeld
  <2>15. LatestCovers'
    <3>1. Implementing' = Implementing /\ Busy'
      BY <1>0, <2>8 DEF Implementing, TaskLike, Busy
    <3>2. Latest' = Latest /\ Latest # 0
      BY <1>3, <1>4, <2>6 DEF Latest
    <3>3. /\ g.attempts >= begun /\ g.output >= spent + Exposed /\ begun \in Nat /\ spent \in Nat
          /\ g.attempts \in Nat /\ g.output \in Nat /\ Reserve \in Nat /\ Exposed \in Nat
      BY <1>4, <3>2, LatestBooks
    <3>4. Exposed' = Exposed + Reserve
      BY <1>1, <3>1, <3>3 DEF Exposed
    <3>5. h.attempts >= begun + 1 /\ h.output >= spent + (Exposed + Reserve)
      BY <2>4, <3>3
    <3> QED BY <1>1, <1>4, <2>2, <2>6, <3>2, <3>4, <3>5 DEF LatestCovers
  <2>16. Loose(i) = 0
    BY <2>5, NotLoose
  <2>17. Loose(i)' = 0
    BY <2>3, <2>4, <2>5, <2>6, <2>8 DEF Loose, Unattended
  <2>18. h.uncertain + Loose(i) = goals[i].uncertain + Loose(i)'
    BY <1>2, <1>4, <2>4, <2>16, <2>17
  <2> QED BY <1>0, <1>1, <1>4, <2>2, <2>3, <2>9, <2>10, <2>12, <2>14, <2>15, <2>18, SavedStep
<1> QED BY <1>5, <1>6

(* A running message ends, its goal settled or in doubt.                    *)
LEMMA MessageEnds ==
    ASSUME GoalAssumption, ChildAssumption, GoalInv,
           NEW m \in DOMAIN entries, entries[m].status = "running", Yielded,
           NEW i, i = entries[m].goal, NEW h \in DurableGoals, Save(i, h), UNCHANGED childVars,
           entries' = [entries EXCEPT ![m].status = "ended"],
           routine' = routine \/ routine' = [Idle EXCEPT !.at = "begin", !.goal = i],
           UNCHANGED <<current, stray, inputs, begun, passed>>,
           spent' \in Nat,
           h.held \in {0, m}, ~h.evaluating, h.job = goals[i].job,
           h.uncertain = goals[i].uncertain + (IF h.held = m THEN 1 ELSE 0),
           h.evidence \in {None, goals[i].evidence}, h.judged = goals[i].judged,
           h.attempts = goals[i].attempts, h.output + spent + Reserve >= goals[i].output + spent',
           goals[i].status \in StopStatuses => ~Going(h),
           h.uncertain > 0 => ~Going(h), i # current => ~Going(h),
           h.status = "completed" => goals[i].status = "completed"
    PROVE  GoalInv' /\ LateStep
<1> DEFINE g == goals[i]
<1>0. TaskLike
  BY UnchangedTask
<1>1. /\ i \in DOMAIN goals /\ i = Latest /\ g \in DurableGoals
      /\ g.held = m /\ m # 0 /\ ~g.evaluating
      /\ GoalHeld(g) /\ EvidenceOf(g, passed[i])
      /\ Busy /\ routine.at # "await" /\ Loose(i) = 0
      /\ \A k \in DOMAIN entries : entries[k].status = "running" => k = m
  BY RunningMessage
<1>2. /\ goals' \in Seq(DurableGoals) /\ Len(goals') = Len(goals)
      /\ DOMAIN goals' = DOMAIN goals /\ goals'[i] = h
      /\ \A j \in DOMAIN goals : j # i => goals'[j] = goals[j]
  BY <1>1, RestNow, SavedGoals
<1>3. RestTypeOK /\ i \in 1..MaxGoals /\ m \in 1..Len(entries)
  BY <1>1, RestNow, EntryTypes
<1>4. /\ entries' \in Seq(Entries)
      /\ Len(entries') = Len(entries) /\ DOMAIN entries' = DOMAIN entries
      /\ \A k \in DOMAIN entries : entries'[k].goal = entries[k].goal
      /\ entries'[m].status = "ended"
      /\ \A k \in DOMAIN entries : k # m => entries'[k].status = entries[k].status
  BY <1>3, SetEntry
<1>5. \A k \in DOMAIN entries : entries'[k].status # "running"
  BY <1>1, <1>4
<1>6. /\ routine'.at \in {"none", "begin"}
      /\ routine' \in [at : {"none", "begin", "await", "apply"}, goal : 0..MaxGoals,
                       obs : Observations \cup {None},
                       verdict : {"passed", "failed", "blocked", None}]
  <2>1. CASE routine' = routine
    BY <1>1, <1>3, <2>1 DEF RestTypeOK, Yielded
  <2>2. CASE routine' = [Idle EXCEPT !.at = "begin", !.goal = i]
    <3>1. routine' = [at |-> "begin", goal |-> i, obs |-> None, verdict |-> None]
      BY <2>2 DEF Idle
    <3> QED BY <1>3, <3>1
  <2> QED BY <2>1, <2>2
<1>7. RestTypeOK'
  <2>1. Len(entries') <= MaxMessages
    BY <1>3, <1>4, EntryTypes
  <2> QED BY <1>3, <1>4, <1>6, <2>1 DEF RestTypeOK, Entries
<1>8. GoalKept(i, h)
  <2>1. GoalHeld(h)
    BY DEF GoalHeld
  <2>2. EvidenceOf(h, passed'[i])
    BY <1>1 DEF EvidenceOf, Passing
  <2>3. JobKept(i, h)
    BY <1>1 DEF JobKept, GoalInv, JobsHeld, ChildrenOf
  <2>4. MayComplete(i, h)
    BY DEF MayComplete
  <2> QED BY <1>1, <2>1, <2>2, <2>3, <2>4 DEF GoalKept
<1>9. MessagesHeld'
  <2>1. \A j \in DOMAIN goals : goals'[j].held \in 0..Len(entries)
    <3>1. Len(entries) \in Nat
      BY <1>3, EntryTypes
    <3>2. h.held \in 0..Len(entries)
      BY <1>3, <3>1
    <3> QED BY <1>1, <1>2, <3>2 DEF MessagesHeld, GoalInv
  <2> QED BY <1>2, <1>4, <1>5, <2>1 DEF MessagesHeld, GoalInv
<1>10. RoutineHeld'
  BY <1>6 DEF RoutineHeld
<1>11. LatestCovers'
  <2>1. Implementing' = Implementing /\ ~Busy'
    BY <1>0, <1>4, <1>5 DEF Implementing, TaskLike, Busy
  <2>2. Latest' = Latest /\ Latest # 0
    BY <1>1, <1>2, RestNow DEF Latest
  <2>3. /\ g.attempts >= begun /\ g.output >= spent + Exposed /\ begun \in Nat /\ spent \in Nat
        /\ g.attempts \in Nat /\ g.output \in Nat /\ Reserve \in Nat /\ Exposed \in Nat
    BY <1>1, <2>2, LatestBooks
  <2>4. Exposed = Exposed' + Reserve /\ Exposed' \in Nat
    BY <1>1, <1>6, <2>1, <2>3 DEF Exposed
  <2>5. h.output \in Nat
    BY DEF DurableGoals
  <2>6. h.attempts >= begun /\ h.output >= spent' + Exposed'
    BY <2>3, <2>4, <2>5
  <2> QED BY <1>1, <1>2, <2>2, <2>6 DEF LatestCovers
<1>12. Loose(i)' = IF h.held = m THEN 1 ELSE 0
  BY <1>1, <1>2, <1>4 DEF Loose, Unattended
<1>13. h.uncertain + Loose(i) = goals[i].uncertain + Loose(i)'
  <2>1. h.uncertain \in Nat /\ g.uncertain \in Nat
    BY <1>1 DEF DurableGoals
  <2> QED BY <1>1, <1>12, <2>1
<1> QED BY <1>0, <1>1, <1>7, <1>8, <1>9, <1>10, <1>11, <1>13, SavedStep

LEMMA TurnCompletesKeeps ==
    ASSUME GoalAssumption, ChildAssumption, GoalInv,
           NEW m \in DOMAIN entries, NEW used \in 0..Reserve, NEW stalls \in BOOLEAN,
           TurnCompletes(m, used, stalls), UNCHANGED childVars
    PROVE  GoalInv' /\ LateStep
<1> SUFFICES ASSUME NEW i, i = entries[m].goal PROVE GoalInv' /\ LateStep
  OBVIOUS
<1> DEFINE g == goals[i]
           s == Settled(g, used)
           h == Decided(s, None, None, stalls)
<1>1. /\ Yielded /\ entries[m].status = "running" /\ Save(i, h)
      /\ routine' = routine \/ routine' = [Idle EXCEPT !.at = "begin", !.goal = i]
      /\ entries' = [entries EXCEPT ![m].status = "ended"] /\ spent' = spent + used
      /\ UNCHANGED <<current, stray, inputs, begun, passed>>
  BY DEF TurnCompletes
<1>2. /\ i \in DOMAIN goals /\ g \in DurableGoals /\ g.held = m /\ m # 0 /\ ~g.evaluating
      /\ GoalHeld(g) /\ (i # current => ~Going(g)) /\ g.output >= Reserve
  BY <1>1, RunningMessage
<1>3. /\ s \in DurableGoals /\ s.held = 0 /\ s.output = g.output - Reserve + used
      /\ Same(s, g, {"output", "held"})
  BY <1>2, SettledFacts
<1> HIDE DEF s
<1>4. /\ h \in DurableGoals /\ Same(h, s, {"status", "evidence"})
      /\ h.evidence \in {None, s.evidence}
      /\ s.status \in StopStatuses => h.status = s.status
      /\ s.uncertain > 0 => ~Going(h)
      /\ ~Going(s) => ~Going(h)
      /\ h.status = "completed" => s.status = "completed"
  BY <1>3, DecidedFacts
<1> HIDE DEF h
<1>5. /\ s.status = g.status /\ s.uncertain = g.uncertain /\ s.evidence = g.evidence
      /\ s.judged = g.judged /\ s.job = g.job /\ s.attempts = g.attempts
      /\ s.evaluating = g.evaluating
  BY <1>3 DEF Same, Fields
<1>6. /\ h.uncertain = s.uncertain /\ h.judged = s.judged /\ h.job = s.job
      /\ h.attempts = s.attempts /\ h.evaluating = s.evaluating /\ h.held = 0
      /\ h.output = s.output
  BY <1>3, <1>4 DEF Same, Fields
<1>7. g.uncertain \in Nat /\ g.output \in Nat /\ spent \in Nat /\ Reserve \in Nat
  BY <1>2, RestNow, GoalAssumption DEF DurableGoals, RestTypeOK, GoalAssumption
<1>8. spent' \in Nat /\ h.output + spent + Reserve >= g.output + spent'
  BY <1>1, <1>3, <1>6, <1>7
<1>9. h.uncertain = g.uncertain + (IF h.held = m THEN 1 ELSE 0)
  BY <1>2, <1>5, <1>6, <1>7
<1>10. /\ g.status \in StopStatuses => ~Going(h)
       /\ h.uncertain > 0 => ~Going(h)
       /\ i # current => ~Going(h)
       /\ h.status = "completed" => g.status = "completed"
  BY <1>2, <1>4, <1>5, <1>6 DEF StopStatuses, Going
<1>11. ~h.evaluating /\ h.held \in {0, m} /\ h.job = g.job /\ h.judged = g.judged
       /\ h.attempts = g.attempts /\ h.evidence \in {None, g.evidence}
  BY <1>2, <1>4, <1>5, <1>6
<1> QED BY <1>1, <1>4, <1>8, <1>9, <1>10, <1>11, MessageEnds

LEMMA TurnFailsKeeps ==
    ASSUME GoalAssumption, ChildAssumption, GoalInv,
           NEW m \in DOMAIN entries, NEW stalls \in BOOLEAN,
           TurnFails(m, stalls), UNCHANGED childVars
    PROVE  GoalInv' /\ LateStep
<1> SUFFICES ASSUME NEW i, i = entries[m].goal PROVE GoalInv' /\ LateStep
  OBVIOUS
<1> DEFINE g == goals[i]
           h == Interrupted(g, stalls)
<1>1. /\ Yielded /\ entries[m].status = "running" /\ Save(i, h)
      /\ entries' = [entries EXCEPT ![m].status = "ended"] /\ spent' = spent + Reserve
      /\ UNCHANGED <<current, routine, stray, inputs, begun, passed>>
  BY DEF TurnFails
<1>2. /\ i \in DOMAIN goals /\ g \in DurableGoals /\ g.held = m /\ m # 0 /\ ~g.evaluating
  BY <1>1, RunningMessage
<1>3. /\ h \in DurableGoals /\ h.uncertain = g.uncertain + 1
      /\ Same(h, g, {"uncertain", "status", "evidence"})
      /\ ~Going(h) /\ (h.status = "completed" => g.status = "completed")
      /\ h.evidence \in {None, g.evidence}
  BY <1>2, InterruptedFacts
<1> HIDE DEF h
<1>4. /\ h.judged = g.judged /\ h.job = g.job
      /\ h.attempts = g.attempts /\ h.evaluating = g.evaluating /\ h.held = m
      /\ h.output = g.output
  BY <1>2, <1>3 DEF Same, Fields
<1>5. g.output \in Nat /\ spent \in Nat /\ Reserve \in Nat
  BY <1>2, RestNow, GoalAssumption DEF DurableGoals, RestTypeOK, GoalAssumption
<1>6. spent' \in Nat /\ h.output + spent + Reserve >= g.output + spent'
  BY <1>1, <1>4, <1>5
<1> QED BY <1>1, <1>2, <1>3, <1>4, <1>6, MessageEnds

-----------------------------------------------------------------------------
(* Steps that save no goal.                                                 *)

LEMMA FrameStep ==
    ASSUME GoalInv, UNCHANGED <<goals, current, routine, begun, spent, passed, children, task, staged, merged>>,
           RestTypeOK', MessagesHeld', Busy' <=> Busy,
           \A i \in DOMAIN goals : Loose(i)' = Loose(i)
    PROVE  GoalInv' /\ LateStep
<1> USE DEF GoalInv
<1>1. ChildTypeOK'
  <2>1. GoalTypeOK'
    BY DEF ChildTypeOK, GoalTypeOK, RestTypeOK
  <2> QED BY <2>1 DEF ChildTypeOK
<1>2. LatestOnly' /\ GoalsHeld' /\ EvidenceHeld'
  BY DEF LatestOnly, Latest, GoalsHeld, EvidenceHeld
<1>3. RoutineHeld'
  BY DEF RoutineHeld
<1>4. JobsHeld' /\ TaskPlaced' /\ PatchesHeld'
  BY DEF JobsHeld, TaskPlaced, PatchesHeld
<1>5. LatestCovers'
  BY DEF LatestCovers, Latest, Exposed, Implementing
<1>6. DoubtsHeld'
  <2> SUFFICES ASSUME NEW i \in DOMAIN goals
               PROVE  /\ goals[i].uncertain >= Doubts(i)'
                      /\ i = 1 => goals[i].uncertain = Doubts(i)'
    BY DEF DoubtsHeld
  <2>1. UnknownChildren(i)' = UnknownChildren(i)
    BY SameUnknown
  <2>2. Doubts(i)' = Doubts(i)
    BY <2>1 DEF Doubts, UnknownChildren, Loose
  <2> QED BY <2>2 DEF DoubtsHeld
<1>7. LateStep
  BY DEF LateStep, LatestOnly, Going
<1> QED BY <1>1, <1>2, <1>3, <1>4, <1>5, <1>6, <1>7

LEMMA SubmitKeeps ==
    ASSUME GoalAssumption, GoalInv, Submit, UNCHANGED childVars
    PROVE  GoalInv' /\ LateStep
<1> DEFINE e == [goal |-> current, defn |-> Selected.defn, status |-> "queued"]
<1>1. /\ current # 0 /\ Len(entries) < MaxMessages /\ entries' = Append(entries, e)
      /\ UNCHANGED <<goals, current, routine, stray, inputs, begun, spent, passed, children, task, staged, merged>>
  BY DEF Submit, childVars
<1>2. current \in DOMAIN goals /\ Selected \in DurableGoals /\ current \in 1..MaxGoals
  BY <1>1, SelectedLatest, RestNow
<1>3. /\ RestTypeOK /\ entries \in Seq(Entries) /\ Len(entries) \in Nat
      /\ DOMAIN entries = 1..Len(entries)
  BY RestNow, EntryTypes
<1>4. e \in Entries /\ e.goal = current /\ e.status = "queued"
  BY <1>2 DEF Entries, DurableGoals
<1> HIDE DEF e
<1>5. /\ entries' \in Seq(Entries) /\ Len(entries') = Len(entries) + 1
      /\ DOMAIN entries' = 1..(Len(entries) + 1)
      /\ entries'[Len(entries) + 1] = e
      /\ \A m \in DOMAIN entries : entries'[m] = entries[m]
  BY <1>1, <1>3, <1>4
<1>6. RestTypeOK'
  <2>1. Len(entries') <= MaxMessages
    BY <1>1, <1>3, <1>5, GoalAssumption DEF GoalAssumption
  <2> QED BY <1>1, <1>3, <1>5, <2>1 DEF RestTypeOK, Entries
<1>7. MessagesHeld'
  <2>1. ASSUME NEW m \in DOMAIN entries'
        PROVE  /\ entries'[m].goal \in DOMAIN goals
               /\ entries'[m].status = "running" => goals[entries'[m].goal].held = m
    <3>1. CASE m \in DOMAIN entries
      BY <1>5, <3>1 DEF MessagesHeld, GoalInv
    <3>2. CASE m = Len(entries) + 1
      BY <1>2, <1>4, <1>5, <3>2
    <3> QED BY <1>3, <1>5, <3>1, <3>2
  <2>2. \A i \in DOMAIN goals : goals[i].held \in 0..Len(entries')
    BY <1>3, <1>5 DEF MessagesHeld, GoalInv
  <2> QED BY <1>1, <2>1, <2>2 DEF MessagesHeld
<1>8. Busy' <=> Busy
  <2>1. ASSUME NEW m \in DOMAIN entries', entries'[m].status = "running" PROVE Busy
    <3>1. m \in DOMAIN entries
      BY <1>3, <1>4, <1>5, <2>1
    <3> QED BY <1>5, <2>1, <3>1 DEF Busy
  <2>2. ASSUME NEW m \in DOMAIN entries, entries[m].status = "running" PROVE Busy'
    BY <1>3, <1>5, <2>2 DEF Busy
  <2> QED BY <2>1, <2>2 DEF Busy
<1>9. \A i \in DOMAIN goals : Loose(i)' = Loose(i)
  <2> SUFFICES ASSUME NEW i \in DOMAIN goals PROVE Loose(i)' = Loose(i)
    OBVIOUS
  <2>1. goals[i].held # 0 => goals[i].held \in DOMAIN entries
    BY <1>3 DEF MessagesHeld, GoalInv
  <2>2. goals[i].held # 0 => entries'[goals[i].held] = entries[goals[i].held]
    BY <1>5, <2>1
  <2> QED BY <1>1, <2>2 DEF Loose, Unattended
<1> QED BY <1>1, <1>6, <1>7, <1>8, <1>9, FrameStep

LEMMA IdleKeeps ==
    ASSUME GoalInv, StrayEnds \/ InputsChange, UNCHANGED childVars
    PROVE  GoalInv' /\ LateStep
<1>1. /\ UNCHANGED <<goals, current, routine, begun, spent, passed, children, task, staged, merged>>
      /\ UNCHANGED entries /\ stray' \in BOOLEAN /\ inputs' \in Inputs
  BY RestNow DEF StrayEnds, InputsChange, childVars, RestTypeOK
<1>2. RestTypeOK
  BY RestNow
<1>3. RestTypeOK'
  BY <1>1, <1>2 DEF RestTypeOK
<1>4. MessagesHeld'
  BY <1>1 DEF MessagesHeld, GoalInv
<1>5. Busy' <=> Busy
  BY <1>1 DEF Busy
<1>6. \A i \in DOMAIN goals : Loose(i)' = Loose(i)
  BY <1>1 DEF Loose, Unattended
<1> QED BY <1>1, <1>3, <1>4, <1>5, <1>6, FrameStep

(* The task of a child, and its broker, go on.                              *)
Tasks == [at : {"none", "executing", "staging", "verifying", "merging", "confirming"},
          child : 0..MaxChildren, cancelled : BOOLEAN]

LEMMA TaskTypes ==
    ASSUME ChildAssumption, GoalInv
    PROVE  /\ children \in Seq(Records) /\ Len(children) \in Nat /\ Len(children) <= MaxChildren
           /\ DOMAIN children = 1..Len(children) /\ task \in Tasks
           /\ staged \subseteq 1..MaxChildren /\ merged \in [1..MaxChildren -> Nat]
           /\ \A c \in DOMAIN children : children[c] \in Records
           /\ DOMAIN children \subseteq 1..MaxChildren
           /\ task.at # "none" => task.child \in DOMAIN children /\ task.child \in 1..MaxChildren
<1>1. /\ children \in Seq(Records) /\ Len(children) <= MaxChildren /\ task \in Tasks
      /\ staged \subseteq 1..MaxChildren /\ merged \in [1..MaxChildren -> Nat]
  BY DEF GoalInv, ChildTypeOK, Tasks
<1>2. task.at # "none" => task.child \in DOMAIN children
  BY DEF GoalInv, TaskPlaced
<1>3. Len(children) \in Nat /\ DOMAIN children = 1..Len(children)
  BY <1>1
<1>4. DOMAIN children \subseteq 1..MaxChildren
  BY <1>1, <1>3, ChildAssumption DEF ChildAssumption
<1> QED BY <1>1, <1>2, <1>3, <1>4

LEMMA TaskStep ==
    ASSUME ChildAssumption, GoalInv, UNCHANGED vars, children' = children, task' \in Tasks,
           staged' \subseteq 1..MaxChildren, merged' \in [1..MaxChildren -> Nat],
           (task'.at = "none") <=> (task.at = "none"), task'.child = task.child,
           Implementing' <=> Implementing, TaskPlaced', PatchesHeld'
    PROVE  GoalInv' /\ LateStep
<1> USE DEF GoalInv
<1>0. UNCHANGED <<goals, current, entries, routine, stray, inputs, begun, spent, passed>>
  BY DEF vars
<1>1. ChildTypeOK'
  <2>1. GoalTypeOK'
    BY <1>0 DEF ChildTypeOK, GoalTypeOK
  <2> QED BY <2>1 DEF ChildTypeOK, Tasks
<1>2. LatestOnly' /\ GoalsHeld' /\ EvidenceHeld'
  BY <1>0 DEF LatestOnly, Latest, GoalsHeld, EvidenceHeld
<1>3. RoutineHeld' /\ MessagesHeld'
  BY <1>0 DEF RoutineHeld, MessagesHeld
<1>4. JobsHeld'
  BY <1>0 DEF JobsHeld
<1>5. LatestCovers'
  <2>1. Exposed' = Exposed
    BY <1>0 DEF Exposed, Busy
  <2> QED BY <1>0, <2>1 DEF LatestCovers, Latest
<1>6. DoubtsHeld'
  <2> SUFFICES ASSUME NEW i \in DOMAIN goals
               PROVE  /\ goals[i].uncertain >= Doubts(i)'
                      /\ i = 1 => goals[i].uncertain = Doubts(i)'
    BY <1>0 DEF DoubtsHeld
  <2>1. UnknownChildren(i)' = UnknownChildren(i)
    BY SameUnknown
  <2>2. Loose(i)' = Loose(i)
    BY <1>0 DEF Loose, Unattended
  <2>3. Doubts(i)' = Doubts(i)
    BY <2>1, <2>2 DEF Doubts, UnknownChildren, Loose
  <2> QED BY <2>3 DEF DoubtsHeld
<1>7. LateStep
  BY <1>0 DEF LateStep, LatestOnly, Going
<1> QED BY <1>1, <1>2, <1>3, <1>4, <1>5, <1>6, <1>7

LEMMA StopChildKeeps ==
    ASSUME ChildAssumption, GoalInv, StopChild
    PROVE  GoalInv' /\ LateStep
<1>1. UNCHANGED vars /\ UNCHANGED <<children, staged, merged>>
      /\ task' = [task EXCEPT !.cancelled = TRUE]
  BY DEF StopChild, CancelTask
<1>2. /\ task \in Tasks /\ staged \subseteq 1..MaxChildren /\ merged \in [1..MaxChildren -> Nat]
  BY TaskTypes
<1>3. task' \in Tasks /\ task'.at = task.at /\ task'.child = task.child
  BY <1>1, <1>2 DEF Tasks
<1>4. Implementing' <=> Implementing
  BY <1>3 DEF Implementing
<1>5. TaskPlaced'
  BY <1>1, <1>3 DEF TaskPlaced, GoalInv
<1>6. PatchesHeld'
  BY <1>1, <1>3 DEF PatchesHeld, GoalInv
<1> QED BY <1>1, <1>2, <1>3, <1>4, <1>5, <1>6, TaskStep

LEMMA BrokerStagesKeeps ==
    ASSUME ChildAssumption, GoalInv, BrokerStages
    PROVE  GoalInv' /\ LateStep
<1>1. /\ UNCHANGED vars /\ UNCHANGED <<children, task, merged>>
      /\ task.at = "staging" /\ staged' = staged \cup {task.child}
  BY DEF BrokerStages
<1>2. /\ task \in Tasks /\ staged \subseteq 1..MaxChildren /\ merged \in [1..MaxChildren -> Nat]
      /\ task.child \in DOMAIN children /\ task.child \in 1..MaxChildren
  BY <1>1, TaskTypes
<1>3. staged' \subseteq 1..MaxChildren
  BY <1>1, <1>2
<1>4. Implementing' <=> Implementing
  BY <1>1 DEF Implementing
<1>5. merged[task.child] = 0
  <2>1. merged[task.child] <= 1 /\ merged[task.child] # 1
    BY <1>1, <1>2 DEF GoalInv, PatchesHeld, TaskPlaced
  <2>2. merged[task.child] \in Nat
    BY <1>2
  <2> QED BY <2>1, <2>2
<1>6. TaskPlaced'
  BY <1>1, <1>5 DEF TaskPlaced, GoalInv
<1>7. PatchesHeld'
  BY <1>1 DEF PatchesHeld, GoalInv
<1> QED BY <1>1, <1>2, <1>3, <1>4, <1>6, <1>7, TaskStep

LEMMA BrokerMergesKeeps ==
    ASSUME ChildAssumption, GoalInv, NEW merges \in BOOLEAN, BrokerMerges(merges)
    PROVE  GoalInv' /\ LateStep
<1> SUFFICES ASSUME NEW c, c = task.child PROVE GoalInv' /\ LateStep
  OBVIOUS
<1>1. /\ UNCHANGED vars /\ UNCHANGED <<children, task>>
      /\ task.at = "merging" /\ c \in staged /\ staged' = staged \ {c}
      /\ merged' = IF merges THEN [merged EXCEPT ![c] = @ + 1] ELSE merged
  BY DEF BrokerMerges
<1>2. /\ task \in Tasks /\ staged \subseteq 1..MaxChildren /\ merged \in [1..MaxChildren -> Nat]
      /\ c \in DOMAIN children /\ c \in 1..MaxChildren
  BY <1>1, TaskTypes
<1>3. /\ merged[c] = 0 /\ children[c].integration = "integrating" /\ children[c].handoff = "passed"
  BY <1>1 DEF GoalInv, TaskPlaced
<1>4. /\ merged' \in [1..MaxChildren -> Nat] /\ merged'[c] \in {0, 1}
      /\ \A d \in 1..MaxChildren : d # c => merged'[d] = merged[d]
  BY <1>1, <1>2, <1>3
<1>5. staged' \subseteq 1..MaxChildren
  BY <1>1, <1>2
<1>6. Implementing' <=> Implementing
  BY <1>1 DEF Implementing
<1>7. TaskPlaced'
  BY <1>1, <1>2, <1>4 DEF TaskPlaced, GoalInv
<1>8. PatchesHeld'
  <2>1. DOMAIN children \subseteq 1..MaxChildren
    BY TaskTypes
  <2> QED BY <1>1, <1>3, <1>4, <2>1 DEF PatchesHeld, GoalInv
<1> QED BY <1>1, <1>2, <1>4, <1>5, <1>6, <1>7, <1>8, TaskStep

(* A task that goes on: what is known of its child at the next place.       *)
LEMMA AdvancesKeeps ==
    ASSUME ChildAssumption, GoalInv, NEW at, Advances(at), UNCHANGED <<staged, merged>>,
           \/ task.at = "executing" /\ at = "staging" /\ children[task.child].coding
           \/ task.at = "verifying" /\ at = "merging"
           \/ task.at = "merging" /\ at = "confirming" /\ merged[task.child] > 0
    PROVE  GoalInv' /\ LateStep
<1>1. UNCHANGED vars /\ UNCHANGED <<children, staged, merged>> /\ task' = [task EXCEPT !.at = at]
  BY DEF Advances
<1>2. /\ task \in Tasks /\ staged \subseteq 1..MaxChildren /\ merged \in [1..MaxChildren -> Nat]
      /\ task.child \in DOMAIN children /\ task.child \in 1..MaxChildren
  BY TaskTypes
<1>3. task' \in Tasks /\ task'.at = at /\ task'.child = task.child
  BY <1>1, <1>2 DEF Tasks
<1>4. Implementing' <=> Implementing
  BY <1>3 DEF Implementing
<1>5. at = "confirming" => merged[task.child] = 1
  <2>1. merged[task.child] <= 1 /\ merged[task.child] \in Nat
    BY <1>2 DEF GoalInv, PatchesHeld
  <2> QED BY <2>1
<1>6. TaskPlaced'
  BY <1>1, <1>2, <1>3, <1>5 DEF TaskPlaced, GoalInv
<1>7. PatchesHeld'
  BY <1>1, <1>3 DEF PatchesHeld, GoalInv
<1> QED BY <1>1, <1>2, <1>3, <1>4, <1>6, <1>7, TaskStep

-----------------------------------------------------------------------------
(* Steps of a child that save its goal.                                     *)

Open(rec) == rec.state = "running" \/ rec.integration = "integrating"

(* Only record c is new or different.                                       *)
OneChild(c) ==
    /\ children' \in Seq(Records) /\ c \in DOMAIN children'
    /\ DOMAIN children \subseteq DOMAIN children' /\ DOMAIN children' \subseteq DOMAIN children \cup {c}
    /\ \A d \in DOMAIN children : d # c => children'[d] = children[d]
    /\ c \in DOMAIN children => children[c].goal = children'[c].goal

LEMMA UnknownChange ==
    ASSUME children \in Seq(Records), NEW c, OneChild(c),
           c \in DOMAIN children => ~Unknown(children[c]), NEW j
    PROVE  UnknownChildren(j)' = UnknownChildren(j)
             + (IF children'[c].goal = j /\ Unknown(children'[c]) THEN 1 ELSE 0)
<1> DEFINE S == {d \in ChildrenOf(j) : Unknown(children[d])}
           T == {d \in DOMAIN children' : children'[d].goal = j /\ Unknown(children'[d])}
<1>1. IsFiniteSet(S) /\ UnknownChildren(j) = Cardinality(S) /\ Cardinality(S) \in Nat
  BY UnknownNat DEF UnknownChildren
<1>2. S = {d \in DOMAIN children : children[d].goal = j /\ Unknown(children[d])}
  BY DEF ChildrenOf
<1>3. UnknownChildren(j)' = Cardinality(T)
  <2>1. {d \in ChildrenOf(j) : Unknown(children[d])}' = T
    BY DEF ChildrenOf, Unknown
  <2> QED BY <2>1 DEF UnknownChildren
<1>4. c \notin S
  BY <1>2
<1>5. CASE children'[c].goal = j /\ Unknown(children'[c])
  <2>1. T = S \cup {c}
    BY <1>2, <1>5 DEF OneChild
  <2>2. Cardinality(T) = Cardinality(S) + 1
    BY <1>1, <1>4, <2>1, FS_AddElement
  <2> QED BY <1>1, <1>3, <1>5, <2>2
<1>6. CASE ~(children'[c].goal = j /\ Unknown(children'[c]))
  <2>1. T \subseteq S
    BY <1>2, <1>6 DEF OneChild
  <2>2. S \subseteq T
    BY <1>2, <1>4 DEF OneChild
  <2>5. T = S
    BY <2>1, <2>2
  <2> HIDE DEF S, T
  <2>3. Cardinality(T) = Cardinality(S) + 0
    BY <1>1, <2>5
  <2>4. (IF children'[c].goal = j /\ Unknown(children'[c]) THEN 1 ELSE 0) = 0
    BY <1>6
  <2> QED BY <1>1, <1>3, <2>3, <2>4
<1> QED BY <1>5, <1>6

(* The step saves h as goal i and changes or adds its child c.              *)
ChildSaved(i, h, c) ==
    /\ i \in DOMAIN goals /\ h \in DurableGoals /\ Save(i, h)
    /\ c \in 1..MaxChildren /\ OneChild(c) /\ Len(children') <= MaxChildren
    /\ children'[c].goal = i
    /\ UNCHANGED <<current, entries, routine, stray, inputs, passed, staged, merged>>
    /\ Yielded /\ (routine.at = "await" => i # routine.goal /\ task'.at = "none")
    /\ task' \in Tasks /\ begun' \in Nat /\ spent' \in Nat
    /\ c \in DOMAIN children => ~Unknown(children[c])
    /\ Same(h, goals[i], {"status", "attempts", "output", "uncertain", "job"})
    /\ h.status = goals[i].status \/ h.status = "paused"
    /\ h.uncertain > 0 => ~Going(h)
    /\ h.uncertain = goals[i].uncertain + (IF Unknown(children'[c]) THEN 1 ELSE 0)
    /\ h.job # None /\ (~Done(children'[c]) => h.job.state # "passed")
    /\ \A d \in DOMAIN children : d # c /\ children[d].goal = i => Done(children[d])
    /\ task.at = "none" \/ task.child = c
    /\ task'.at # "none" => task'.child = c
    /\ Open(children'[c]) <=> task'.at # "none"
    /\ merged[c] = 1 => children'[c].handoff = "passed" /\ children'[c].integration # "pending"
    /\ children'[c].integration = "integrated" => merged[c] = 1

LEMMA ChildStep ==
    ASSUME GoalAssumption, ChildAssumption, GoalInv, NEW i, NEW h, NEW c, ChildSaved(i, h, c),
           TaskPlaced', LatestCovers'
    PROVE  GoalInv' /\ LateStep
<1> USE DEF GoalInv
<1> DEFINE g == goals[i]
<1>13. /\ i \in DOMAIN goals /\ h \in DurableGoals /\ Save(i, h)
       /\ c \in 1..MaxChildren /\ OneChild(c) /\ children'[c].goal = i
       /\ UNCHANGED <<current, entries, routine, stray, inputs, passed, staged, merged>>
  BY DEF ChildSaved
<1>14. /\ Same(h, g, {"status", "attempts", "output", "uncertain", "job"})
       /\ h.status = g.status \/ h.status = "paused"
       /\ h.uncertain > 0 => ~Going(h)
       /\ h.uncertain = g.uncertain + (IF Unknown(children'[c]) THEN 1 ELSE 0)
       /\ h.job # None /\ (~Done(children'[c]) => h.job.state # "passed")
  BY DEF ChildSaved
<1>15. /\ c \in DOMAIN children => ~Unknown(children[c])
       /\ \A d \in DOMAIN children : d # c /\ children[d].goal = i => Done(children[d])
  BY DEF ChildSaved
<1>16. /\ task' \in Tasks /\ begun' \in Nat /\ spent' \in Nat /\ Len(children') <= MaxChildren
       /\ Yielded /\ (routine.at = "await" => i # routine.goal /\ task'.at = "none")
  BY DEF ChildSaved
<1>17. /\ task.at = "none" \/ task.child = c
       /\ task'.at # "none" => task'.child = c
       /\ Open(children'[c]) <=> task'.at # "none"
       /\ merged[c] = 1 => children'[c].handoff = "passed" /\ children'[c].integration # "pending"
       /\ children'[c].integration = "integrated" => merged[c] = 1
  BY DEF ChildSaved
<1>0. RestTypeOK /\ goals \in Seq(DurableGoals) /\ children \in Seq(Records)
      /\ current \in 0..Len(goals) /\ g \in DurableGoals /\ Len(goals) <= MaxGoals
      /\ DOMAIN children \subseteq 1..MaxChildren
  BY <1>13, RestNow, TaskTypes
<1>1. /\ goals' \in Seq(DurableGoals) /\ Len(goals') = Len(goals)
      /\ DOMAIN goals' = DOMAIN goals /\ goals'[i] = h
      /\ \A j \in DOMAIN goals : j # i => goals'[j] = goals[j]
  BY <1>0, <1>13, SavedGoals
<1>2. /\ h.held = g.held /\ h.evaluating = g.evaluating /\ h.evidence = g.evidence
      /\ h.judged = g.judged /\ (InFlight(h) <=> InFlight(g)) /\ (Going(h) => Going(g))
  BY <1>14 DEF Same, Fields, InFlight, Going
<1>3. ChildTypeOK'
  <2>1. GoalTypeOK'
    BY <1>0, <1>1, <1>13, <1>16 DEF GoalTypeOK, RestTypeOK
  <2>2. staged' \subseteq 1..MaxChildren /\ merged' \in [1..MaxChildren -> Nat]
    BY <1>13, TaskTypes
  <2>3. children' \in Seq(Records)
    BY <1>13, SMTT(40) DEF OneChild
  <2> QED BY <1>16, <2>1, <2>2, <2>3 DEF ChildTypeOK, Tasks
<1>4. LatestOnly'
  BY <1>1, <1>2, <1>13 DEF LatestOnly, Latest
<1>5. GoalsHeld'
  <2>1. GoalHeld(h)
    BY <1>2, <1>13, <1>14 DEF GoalsHeld, GoalHeld, Going
  <2> QED BY <1>1, <2>1 DEF GoalsHeld
<1>6. EvidenceHeld'
  <2>1. EvidenceOf(h, passed[i])
    BY <1>2, <1>13 DEF EvidenceHeld, EvidenceOf, Passing
  <2> QED BY <1>1, <1>13, <2>1 DEF EvidenceHeld
<1>7. MessagesHeld'
  <2>1. \A j \in DOMAIN goals : goals'[j].held = goals[j].held
    BY <1>1, <1>2
  <2> QED BY <1>1, <1>13, <2>1 DEF MessagesHeld
<1>8. RoutineHeld'
  BY <1>1, <1>13, <1>16 DEF RoutineHeld, Yielded
<1>9. JobsHeld'
  <2> SUFFICES ASSUME NEW e \in DOMAIN children'
               PROVE  /\ children'[e].goal \in DOMAIN goals
                      /\ goals'[children'[e].goal].job # None
                      /\ ~Done(children'[e]) =>
                           /\ goals'[children'[e].goal].job.state # "passed"
                           /\ \A d \in DOMAIN children' :
                                children'[d].goal = children'[e].goal /\ ~Done(children'[d]) => e = d
    BY <1>1 DEF JobsHeld, Done
  <2>1. CASE e = c
    BY <1>1, <1>13, <1>14, <1>15, <2>1 DEF OneChild
  <2>2. CASE e # c
    <3>1. e \in DOMAIN children /\ children'[e] = children[e]
      BY <1>13, <2>2 DEF OneChild
    <3>2. /\ children[e].goal \in DOMAIN goals
          /\ goals[children[e].goal].job # None
          /\ ~Done(children[e]) =>
               /\ goals[children[e].goal].job.state # "passed"
               /\ \A d \in DOMAIN children :
                    children[d].goal = children[e].goal /\ ~Done(children[d]) => e = d
      BY <3>1 DEF JobsHeld
    <3>3. CASE children[e].goal = i
      BY <1>1, <1>14, <1>15, <2>2, <3>1, <3>2, <3>3
    <3>4. CASE children[e].goal # i
      <4>1. goals'[children[e].goal] = goals[children[e].goal]
        BY <1>1, <3>2, <3>4
      <4>2. \A d \in DOMAIN children' : children'[d].goal = children[e].goal
              => d \in DOMAIN children /\ children'[d] = children[d]
        BY <1>13, <3>4 DEF OneChild
      <4> QED BY <3>1, <3>2, <4>1, <4>2
    <3> QED BY <3>3, <3>4
  <2> QED BY <2>1, <2>2
<1>10. PatchesHeld'
  <2> SUFFICES ASSUME NEW d \in DOMAIN children'
               PROVE  /\ merged[d] <= 1
                      /\ merged[d] = 1 => children'[d].handoff = "passed"
                                          /\ children'[d].integration # "pending"
                      /\ children'[d].integration = "integrated" => merged[d] = 1
                      /\ Open(children'[d]) <=> task'.at # "none" /\ task'.child = d
    BY <1>13 DEF PatchesHeld, Open
  <2>1. CASE d = c
    <3>1. merged[c] <= 1
      <4>1. CASE c \in DOMAIN children
        BY <4>1 DEF PatchesHeld
      <4>2. CASE c \notin DOMAIN children
        BY <1>13, <4>2 DEF TaskPlaced
      <4> QED BY <4>1, <4>2
    <3> QED BY <1>17, <2>1, <3>1
  <2>2. CASE d # c
    <3>1. d \in DOMAIN children /\ children'[d] = children[d]
      BY <1>13, <2>2 DEF OneChild
    <3>2. ~Open(children[d])
      BY <1>17, <2>2, <3>1 DEF PatchesHeld, Open
    <3> QED BY <1>17, <2>2, <3>1, <3>2 DEF PatchesHeld, Open
  <2> QED BY <2>1, <2>2
<1>11. DoubtsHeld'
  <2> SUFFICES ASSUME NEW j \in DOMAIN goals
               PROVE  /\ goals'[j].uncertain >= Doubts(j)'
                      /\ j = 1 => goals'[j].uncertain = Doubts(j)'
    BY <1>1 DEF DoubtsHeld
  <2>1. goals[j].uncertain >= Doubts(j) /\ (j = 1 => goals[j].uncertain = Doubts(j))
    BY DEF DoubtsHeld
  <2>2. Doubts(j) = UnknownChildren(j) + Loose(j) /\ Doubts(j)' = UnknownChildren(j)' + Loose(j)'
    BY DEF Doubts, UnknownChildren, Loose
  <2>3. /\ UnknownChildren(j)' = UnknownChildren(j)
                + (IF children'[c].goal = j /\ Unknown(children'[c]) THEN 1 ELSE 0)
        /\ UnknownChildren(j) \in Nat
    BY <1>0, <1>13, <1>15, UnknownChange, UnknownNat
  <2>4. goals[j] \in DurableGoals /\ goals'[j] \in DurableGoals
    BY <1>0, <1>1
  <2>5. goals[j].uncertain \in Nat /\ goals'[j].uncertain \in Nat
    BY <2>4 DEF DurableGoals
  <2>6. Loose(j)' = Loose(j) /\ Loose(j) \in 0..1
    <3>1. goals'[j].held = goals[j].held /\ goals'[j].evaluating = goals[j].evaluating
      BY <1>1, <1>2
    <3>2. UNCHANGED <<entries, routine>>
      BY <1>13
    <3> QED BY <3>1, <3>2 DEF Loose, Unattended
  <2>7. CASE j = i
    <3>1. goals'[j].uncertain = goals[j].uncertain + (IF Unknown(children'[c]) THEN 1 ELSE 0)
      BY <1>1, <1>14, <2>7
    <3>2. UnknownChildren(j)' = UnknownChildren(j) + (IF Unknown(children'[c]) THEN 1 ELSE 0)
      BY <1>13, <2>3, <2>7
    <3> QED BY <2>1, <2>2, <2>3, <2>5, <2>6, <3>1, <3>2
  <2>8. CASE j # i
    BY <1>1, <1>13, <2>1, <2>2, <2>3, <2>5, <2>6, <2>8
  <2> QED BY <2>7, <2>8
<1>12. LateStep
  <2>1. \A j \in DOMAIN goals : /\ goals'[j].status = "completed" => goals[j].status = "completed"
                                /\ Going(goals'[j]) => goals'[j].status = goals[j].status
    BY <1>1, <1>2, <1>13, <1>14 DEF Going
  <2> QED BY <2>1 DEF LateStep, LatestOnly, Going
<1> QED BY <1>3, <1>4, <1>5, <1>6, <1>7, <1>8, <1>9, <1>10, <1>11, <1>12

(* The child of the task, as its goal and its broker see it.                *)
LEMMA TaskChild ==
    ASSUME GoalAssumption, ChildAssumption, GoalInv, task.at # "none"
    PROVE  LET c == task.child rec == children[c] i == rec.goal IN
           /\ c \in DOMAIN children /\ c \in 1..MaxChildren /\ rec \in Records
           /\ i \in DOMAIN goals /\ goals[i] \in DurableGoals /\ goals[i].job # None
           /\ GoalHeld(goals[i]) /\ ~Done(rec) /\ ~Unknown(rec)
           /\ \A d \in DOMAIN children : d # c /\ children[d].goal = i => Done(children[d])
           /\ task.at \in {"executing", "staging"} => rec.state = "running" /\ rec.integration = "pending"
           /\ task.at \in {"verifying", "merging", "confirming"} =>
                rec.state = "completed" /\ rec.integration = "integrating" /\ rec.coding
                /\ rec.handoff = "passed"
           /\ task.at \in {"executing", "staging", "verifying", "merging", "confirming"}
           /\ routine.at = "await" => i # routine.goal
<1> DEFINE c == task.child
           rec == children[c]
           i == rec.goal
<1>1. /\ c \in DOMAIN children /\ c \in 1..MaxChildren /\ rec \in Records
      /\ task.at \in {"executing", "staging", "verifying", "merging", "confirming"}
  BY TaskTypes DEF Tasks
<1>2. /\ task.at \in {"executing", "staging"} => rec.state = "running" /\ rec.integration = "pending"
      /\ task.at \in {"verifying", "merging", "confirming"} =>
                rec.state = "completed" /\ rec.integration = "integrating" /\ rec.coding
                /\ rec.handoff = "passed"
  BY DEF GoalInv, TaskPlaced
<1>3. ~Done(rec) /\ ~Unknown(rec)
  BY <1>1, <1>2 DEF Done, Unknown
<1>4. /\ i \in DOMAIN goals /\ goals[i].job # None
      /\ \A d \in DOMAIN children : d # c /\ children[d].goal = i => Done(children[d])
  BY <1>1, <1>3 DEF GoalInv, JobsHeld
<1>5. goals[i] \in DurableGoals /\ GoalHeld(goals[i])
  BY <1>4, RestNow DEF GoalInv, GoalsHeld
<1>6. routine.at = "await" => i # routine.goal
  BY DEF GoalInv, RoutineHeld
<1> QED BY <1>1, <1>2, <1>3, <1>4, <1>5, <1>6

(* The task ends with the record it leaves.                                 *)
LEMMA EndsKeeps ==
    ASSUME GoalAssumption, ChildAssumption, NoneAssumption, GoalInv, Yielded, task.at # "none",
           NEW rec \in Records, Ends(rec),
           rec.goal = children[task.child].goal, ~Open(rec),
           merged[task.child] = 1 => rec.handoff = "passed" /\ rec.integration # "pending",
           rec.integration = "integrated" => merged[task.child] = 1
    PROVE  GoalInv' /\ LateStep
<1> SUFFICES ASSUME NEW c, c = task.child, NEW i, i = rec.goal PROVE GoalInv' /\ LateStep
  OBVIOUS
<1> DEFINE g == goals[i]
           h == Reflected(g, rec)
<1>1. /\ children' = [children EXCEPT ![c] = rec] /\ Save(i, h) /\ task' = NoTask
      /\ spent' = spent + (IF Implementing THEN Reserve ELSE 0)
      /\ UNCHANGED <<current, entries, routine, stray, inputs, begun, passed, staged, merged>>
  BY DEF Ends, Finish
<1>2. /\ c \in DOMAIN children /\ c \in 1..MaxChildren /\ children[c] \in Records
      /\ i \in DOMAIN goals /\ g \in DurableGoals /\ g.job # None
      /\ GoalHeld(g) /\ ~Done(children[c]) /\ ~Unknown(children[c])
      /\ \A d \in DOMAIN children : d # c /\ children[d].goal = i => Done(children[d])
      /\ routine.at = "await" => i # routine.goal
  BY TaskChild
<1>3. /\ h \in DurableGoals /\ Same(h, g, {"uncertain", "status", "job"})
      /\ h.uncertain = g.uncertain + (IF Unknown(rec) THEN 1 ELSE 0)
      /\ h.job \in Jobs /\ h.job.state = JobState(rec, g.job.state)
      /\ h.status = IF Unknown(rec) /\ Going(g) THEN "paused" ELSE g.status
  BY <1>2, ReflectedFacts
<1> HIDE DEF h
<1>4. /\ children \in Seq(Records) /\ Len(children) <= MaxChildren
      /\ task \in Tasks /\ spent \in Nat /\ begun \in Nat /\ Reserve \in Nat
  BY TaskTypes, RestNow, GoalAssumption DEF RestTypeOK, GoalAssumption
<1>5. /\ children' \in Seq(Records) /\ Len(children') = Len(children)
      /\ DOMAIN children' = DOMAIN children /\ children'[c] = rec
      /\ \A d \in DOMAIN children : d # c => children'[d] = children[d]
  BY <1>1, <1>2, <1>4
<1>6. OneChild(c)
  BY <1>2, <1>5 DEF OneChild
<1>7. task' \in Tasks /\ task'.at = "none"
  BY <1>1, ChildAssumption DEF NoTask, Tasks, ChildAssumption
<1>8. h.job # None /\ (~Done(rec) => h.job.state # "passed")
  <2>1. h.job # None
    BY <1>3, NoneAssumption DEF NoneAssumption
  <2>2. ~Done(rec) => JobState(rec, g.job.state) # "passed"
    BY DEF JobState
  <2> QED BY <1>3, <2>1, <2>2
<1>9. h.uncertain > 0 => ~Going(h)
  <2>1. g.uncertain \in Nat
    BY <1>2 DEF DurableGoals
  <2> QED BY <1>2, <1>3, <2>1 DEF GoalHeld, Going
<1>10. TaskPlaced'
  BY <1>1, <1>5, <1>7 DEF TaskPlaced, GoalInv
<1>11. /\ goals' \in Seq(DurableGoals) /\ Len(goals') = Len(goals)
       /\ DOMAIN goals' = DOMAIN goals /\ goals'[i] = h
       /\ \A j \in DOMAIN goals : j # i => goals'[j] = goals[j]
  BY <1>1, <1>2, <1>3, RestNow, SavedGoals
<1>12. h.attempts = g.attempts /\ h.output = g.output
  BY <1>3 DEF Same, Fields
<1>13. LatestCovers'
  <2>1. Busy' = Busy /\ ~Implementing'
    BY <1>1, <1>7 DEF Busy, Implementing
  <2>2. Latest' = Latest /\ Latest # 0
    BY <1>2, <1>11, RestNow DEF Latest
  <2>3. /\ goals[Latest].attempts >= begun /\ goals[Latest].output >= spent + Exposed
        /\ Latest \in DOMAIN goals
    BY <2>2, LatestBooks
  <2>4. goals'[Latest].attempts = goals[Latest].attempts /\ goals'[Latest].output = goals[Latest].output
    BY <1>11, <1>12, <2>3
  <2>5. spent' + Exposed' = spent + Exposed
    BY <1>1, <1>4, <2>1 DEF Exposed
  <2> QED BY <1>1, <2>2, <2>3, <2>4, <2>5 DEF LatestCovers
<1>14. spent' \in Nat /\ begun' \in Nat
  BY <1>1, <1>4
<1>15. Same(h, g, {"status", "attempts", "output", "uncertain", "job"})
  BY <1>3 DEF Same
<1>16. h.status = g.status \/ h.status = "paused"
  BY <1>3
<1> HIDE DEF g
<1>19. g = goals[i]
  BY DEF g
<1>20. ChildSaved(i, h, c)
  BY <1>1, <1>2, <1>3, <1>4, <1>5, <1>6, <1>7, <1>8, <1>9, <1>14, <1>15, <1>16, <1>19, SMTT(30)
     DEF ChildSaved
<1> QED BY <1>10, <1>13, <1>20, ChildStep
-----------------------------------------------------------------------------
(* The answers of the executor and of the broker.                           *)

LEMMA InDoubtFacts ==
    ASSUME NEW rec \in Records, NEW cancelled \in BOOLEAN
    PROVE  LET r == InDoubt(rec, cancelled) IN
           /\ r \in Records /\ r.goal = rec.goal /\ r.handoff = rec.handoff /\ Unknown(r)
           /\ r.coding = rec.coding
           /\ rec.state # "running" => r.state = rec.state /\ r.integration = "uncertain"
           /\ rec.state = "running" => r.state \in {"cancelled", "uncertain"}
                                       /\ r.integration = rec.integration
<1> DEFINE s == IF cancelled THEN "cancelled" ELSE "uncertain"
           a == [rec EXCEPT !.integration = "uncertain"]
           b == [rec EXCEPT !.state = s]
<1>1. /\ a \in Records /\ a.goal = rec.goal /\ a.handoff = rec.handoff
      /\ a.state = rec.state /\ a.integration = "uncertain" /\ a.coding = rec.coding
  BY DEF Records
<1>2. /\ b \in Records /\ b.goal = rec.goal /\ b.handoff = rec.handoff
      /\ b.state \in {"cancelled", "uncertain"} /\ b.integration = rec.integration
      /\ b.coding = rec.coding
  BY DEF Records
<1>3. InDoubt(rec, cancelled) = IF rec.state # "running" THEN a ELSE b
  BY DEF InDoubt
<1> HIDE DEF a, b
<1> QED BY <1>1, <1>2, <1>3 DEF Unknown

LEMMA DoubtEndsKeeps ==
    ASSUME GoalAssumption, ChildAssumption, NoneAssumption, GoalInv, Yielded, task.at # "none",
           NEW cancelled \in BOOLEAN, Ends(InDoubt(children[task.child], cancelled))
    PROVE  GoalInv' /\ LateStep
<1> DEFINE rec == children[task.child]
           r == InDoubt(rec, cancelled)
<1>1. /\ task.child \in DOMAIN children /\ rec \in Records
      /\ \/ rec.state = "running" /\ rec.integration = "pending"
         \/ rec.state = "completed" /\ rec.integration = "integrating"
  BY TaskChild
<1>2. /\ r \in Records /\ r.goal = rec.goal /\ r.handoff = rec.handoff
      /\ rec.state # "running" => r.state = rec.state /\ r.integration = "uncertain"
      /\ rec.state = "running" => r.state \in {"cancelled", "uncertain"}
                                  /\ r.integration = rec.integration
  BY <1>1, InDoubtFacts
<1>3. /\ merged[task.child] = 1 => rec.handoff = "passed" /\ rec.integration # "pending"
  BY <1>1 DEF GoalInv, PatchesHeld
<1> HIDE DEF r
<1>4. /\ ~Open(r) /\ r.integration # "integrated"
      /\ merged[task.child] = 1 => r.handoff = "passed" /\ r.integration # "pending"
  BY <1>1, <1>2, <1>3 DEF Open
<1>5. Ends(r)
  BY DEF r
<1> QED BY <1>2, <1>4, <1>5, EndsKeeps

LEMMA ExecutorReturnsKeeps ==
    ASSUME GoalAssumption, ChildAssumption, NoneAssumption, GoalInv,
           NEW ok \in BOOLEAN, ExecutorReturns(ok)
    PROVE  GoalInv' /\ LateStep
<1> DEFINE rec == children[task.child]
           r == [rec EXCEPT !.state = "completed"]
<1>1. Yielded /\ task.at = "executing"
  BY DEF ExecutorReturns, Resumed
<1>2. /\ task.child \in DOMAIN children /\ rec \in Records
      /\ rec.state = "running" /\ rec.integration = "pending"
  BY <1>1, TaskChild
<1>3. \/ ~rec.coding /\ Ends(r)
      \/ Ends(InDoubt(rec, FALSE))
      \/ rec.coding /\ Advances("staging") /\ UNCHANGED <<staged, merged>>
  BY DEF ExecutorReturns
<1>4. CASE ~rec.coding /\ Ends(r)
  <2>1. r \in Records /\ r.goal = rec.goal /\ r.state = "completed" /\ r.integration = "pending"
    BY <1>2 DEF Records
  <2>2. merged[task.child] # 1
    BY <1>2 DEF GoalInv, PatchesHeld
  <2> HIDE DEF r
  <2> QED BY <1>1, <1>4, <2>1, <2>2, EndsKeeps DEF Open
<1>5. CASE Ends(InDoubt(rec, FALSE))
  BY <1>1, <1>5, DoubtEndsKeeps
<1>6. CASE rec.coding /\ Advances("staging") /\ UNCHANGED <<staged, merged>>
  BY <1>1, <1>6, AdvancesKeeps
<1> QED BY <1>3, <1>4, <1>5, <1>6

LEMMA StageReturnsKeeps ==
    ASSUME GoalAssumption, ChildAssumption, NoneAssumption, GoalInv,
           NEW ok \in BOOLEAN, NEW tests \in {"passed", "failed"}, StageReturns(ok, tests)
    PROVE  GoalInv' /\ LateStep
<1> DEFINE rec == children[task.child]
           r == [rec EXCEPT !.state = "completed", !.handoff = tests]
<1>1. Yielded /\ task.at = "staging" /\ (Ends(r) \/ Ends(InDoubt(rec, FALSE)))
  BY DEF StageReturns, Resumed
<1>2. /\ task.child \in DOMAIN children /\ rec \in Records
      /\ rec.state = "running" /\ rec.integration = "pending"
  BY <1>1, TaskChild
<1>3. CASE Ends(r)
  <2>1. r \in Records /\ r.goal = rec.goal /\ r.state = "completed" /\ r.integration = "pending"
    BY <1>2 DEF Records
  <2>2. merged[task.child] # 1
    BY <1>2 DEF GoalInv, PatchesHeld
  <2> HIDE DEF r
  <2> QED BY <1>1, <1>3, <2>1, <2>2, EndsKeeps DEF Open
<1>4. CASE Ends(InDoubt(rec, FALSE))
  BY <1>1, <1>4, DoubtEndsKeeps
<1> QED BY <1>1, <1>3, <1>4

LEMMA BrokerReturnsKeeps ==
    ASSUME GoalAssumption, ChildAssumption, NoneAssumption, GoalInv, NEW ok \in BOOLEAN,
           VerifierReturns(ok) \/ MergeReturns(ok) \/ ConfirmReturns(ok) \/ Cancelled
    PROVE  GoalInv' /\ LateStep
<1> DEFINE rec == children[task.child]
           r == [rec EXCEPT !.integration = "integrated"]
<1>1. Yielded /\ task.at # "none"
  BY DEF VerifierReturns, MergeReturns, ConfirmReturns, Cancelled, Resumed
<1>2. \/ \E b \in BOOLEAN : Ends(InDoubt(rec, b))
      \/ task.at = "verifying" /\ Advances("merging") /\ UNCHANGED <<staged, merged>>
      \/ /\ task.at = "merging" /\ Advances("confirming") /\ UNCHANGED <<staged, merged>>
         /\ merged[task.child] > 0
      \/ task.at = "confirming" /\ Ends(r)
  BY DEF VerifierReturns, MergeReturns, ConfirmReturns, Cancelled, Resumed
<1>3. CASE \E b \in BOOLEAN : Ends(InDoubt(rec, b))
  BY <1>1, <1>3, DoubtEndsKeeps
<1>4. CASE \/ task.at = "verifying" /\ Advances("merging") /\ UNCHANGED <<staged, merged>>
           \/ /\ task.at = "merging" /\ Advances("confirming") /\ UNCHANGED <<staged, merged>>
              /\ merged[task.child] > 0
  BY <1>4, AdvancesKeeps
<1>5. CASE task.at = "confirming" /\ Ends(r)
  <2>1. /\ task.child \in DOMAIN children /\ rec \in Records
        /\ rec.state = "completed" /\ rec.handoff = "passed"
    BY <1>5, TaskChild
  <2>2. /\ r \in Records /\ r.goal = rec.goal /\ r.state = "completed"
        /\ r.handoff = "passed" /\ r.integration = "integrated"
    BY <2>1 DEF Records
  <2>3. merged[task.child] = 1
    BY <1>5 DEF GoalInv, TaskPlaced
  <2> HIDE DEF r
  <2> QED BY <1>1, <1>5, <2>2, <2>3, EndsKeeps DEF Open
<1> QED BY <1>2, <1>3, <1>4, <1>5
-----------------------------------------------------------------------------
(* The two steps that begin an operation of a child.                        *)

LEMMA NotAwaited ==
    ASSUME GoalAssumption, GoalInv, current # 0, ~InFlight(Selected)
    PROVE  routine.at # "await"
<1> SUFFICES ASSUME routine.at = "await" PROVE FALSE
  OBVIOUS
<1>1. routine.goal = Latest /\ goals[routine.goal].evaluating
  BY AwaitedGoal
<1>2. current = Latest /\ Selected = goals[current]
  BY SelectedLatest
<1> QED BY <1>1, <1>2 DEF InFlight

LEMMA StartedTask ==
    ASSUME NEW at \in {"executing", "verifying"}, NEW c \in 1..MaxChildren
    PROVE  LET t == [NoTask EXCEPT !.at = at, !.child = c] IN
           t \in Tasks /\ t.at = at /\ t.child = c
<1> DEFINE a == [NoTask EXCEPT !.at = at]
           b == [a EXCEPT !.child = c]
<1>0. NoTask \in [at : {"none"}, child : {0}, cancelled : {FALSE}] /\ c \in 0..MaxChildren
  BY DEF NoTask
<1>1. a \in [at : {at}, child : {0}, cancelled : {FALSE}]
  BY <1>0
<1>2. [NoTask EXCEPT !.at = at, !.child = c] = b
  BY SMT
<1> HIDE DEF a
<1>3. b \in [at : {at}, child : {c}, cancelled : {FALSE}]
  BY <1>1
<1> HIDE DEF b
<1>4. b \in Tasks
  BY <1>0, <1>3 DEF Tasks
<1> QED BY <1>2, <1>3, <1>4

LEMMA IntegrateKeeps ==
    ASSUME GoalAssumption, ChildAssumption, NoneAssumption, GoalInv,
           NEW c \in DOMAIN children, Integrate(c)
    PROVE  GoalInv' /\ LateStep
<1> SUFFICES ASSUME NEW i, i = current PROVE GoalInv' /\ LateStep
  OBVIOUS
<1> DEFINE g == goals[i]
           rec == children[c]
           r == [rec EXCEPT !.integration = "integrating"]
           h == [g EXCEPT !.attempts = g.attempts + 1]
<1>1. /\ Yielded /\ task.at = "none" /\ current # 0
      /\ rec.coding /\ rec.state = "completed" /\ rec.handoff = "passed"
      /\ rec.integration = "pending" /\ ~InFlight(Selected) /\ current = rec.goal
  BY DEF Integrate, Integrable, Current
<1>2. /\ Save(i, h) /\ task' = [NoTask EXCEPT !.at = "verifying", !.child = c]
      /\ begun' = begun + 1
      /\ UNCHANGED <<current, entries, routine, stray, inputs, spent, passed, staged, merged>>
  BY DEF Integrate, Selected
<1>3. children' = [children EXCEPT ![c] = r]
  <2>1. children' = [children EXCEPT ![c].integration = "integrating"]
    BY DEF Integrate
  <2> QED BY <2>1, SMT
<1>4. /\ i = Latest /\ i \in DOMAIN goals /\ g \in DurableGoals /\ GoalHeld(g) /\ Selected = g
  BY <1>1, SelectedLatest
<1>5. /\ children \in Seq(Records) /\ Len(children) <= MaxChildren /\ rec \in Records
      /\ c \in 1..MaxChildren /\ merged \in [1..MaxChildren -> Nat]
      /\ begun \in Nat /\ spent \in Nat /\ RestTypeOK /\ goals \in Seq(DurableGoals)
  BY TaskTypes, RestNow DEF RestTypeOK
<1>6. /\ r \in Records /\ r.goal = i /\ r.coding /\ r.state = "completed" /\ r.handoff = "passed"
      /\ r.integration = "integrating"
  BY <1>1, <1>5 DEF Records
<1>7. ~Done(rec) /\ ~Unknown(rec) /\ ~Unknown(r) /\ ~Done(r) /\ Open(r)
  BY <1>1, <1>6 DEF Done, Unknown, Open
<1>8. /\ g.job # None /\ g.job.state # "passed"
      /\ \A d \in DOMAIN children : d # c /\ children[d].goal = i => Done(children[d])
  BY <1>1, <1>7 DEF GoalInv, JobsHeld
<1>9. merged[c] # 1
  BY <1>1 DEF GoalInv, PatchesHeld
<1>10. g.attempts \in Nat /\ g.attempts + 1 \in Nat /\ g.uncertain \in Nat
  BY <1>4 DEF DurableGoals
<1>11. h \in DurableGoals /\ h.attempts = g.attempts + 1 /\ Same(h, g, {"attempts"})
  BY <1>4, <1>10, SetFields
<1> HIDE DEF h, r
<1>12. /\ h.status = g.status /\ h.uncertain = g.uncertain /\ h.job = g.job /\ h.output = g.output
       /\ Same(h, g, {"status", "attempts", "output", "uncertain", "job"})
  BY <1>11 DEF Same, Fields
<1>13. /\ children' \in Seq(Records) /\ Len(children') = Len(children)
       /\ DOMAIN children' = DOMAIN children /\ children'[c] = r
       /\ \A d \in DOMAIN children : d # c => children'[d] = children[d]
  BY <1>3, <1>5, <1>6
<1>14. OneChild(c)
  BY <1>1, <1>6, <1>13 DEF OneChild
<1>15. task' \in Tasks /\ task'.at = "verifying" /\ task'.child = c
  BY <1>2, <1>5, StartedTask
<1>16. routine.at # "await"
  BY <1>1, NotAwaited
<1>17. h.uncertain = g.uncertain + (IF Unknown(r) THEN 1 ELSE 0)
  BY <1>7, <1>10, <1>12
<1>18. h.uncertain > 0 => ~Going(h)
  BY <1>4, <1>12 DEF GoalHeld, Going
<1> HIDE DEF g, rec
<1>19. g = goals[i] /\ rec = children[c]
  BY DEF g, rec
<1>20. ChildSaved(i, h, c)
  <2>1. begun' \in Nat /\ spent' \in Nat
    BY <1>2, <1>5
  <2> QED BY <1>1, <1>2, <1>4, <1>5, <1>6, <1>7, <1>8, <1>9, <1>11, <1>12, <1>13, <1>14, <1>15,
             <1>16, <1>17, <1>18, <1>19, <2>1, SMTT(30) DEF ChildSaved
<1>21. TaskPlaced'
  <2>1. \A d \in 1..MaxChildren : d \notin DOMAIN children' => merged'[d] = 0
    BY <1>2, <1>13 DEF GoalInv, TaskPlaced
  <2>2. \A d \in staged' : merged'[d] = 0
    BY <1>2 DEF GoalInv, TaskPlaced
  <2> QED BY <1>5, <1>6, <1>13, <1>15, <2>1, <2>2 DEF TaskPlaced
<1>22. LatestCovers'
  <2>1. Busy' = Busy /\ ~Implementing' /\ ~Implementing
    BY <1>1, <1>2, <1>15 DEF Busy, Implementing
  <2>2. Exposed' = Exposed
    BY <1>2, <2>1 DEF Exposed
  <2>3. Latest' = Latest /\ Latest # 0 /\ goals'[Latest] = h
    <3>1. Len(goals') = Len(goals) /\ goals'[i] = h
      BY <1>2, <1>4, <1>5, <1>11, SavedGoals
    <3> QED BY <1>1, <1>4, <3>1 DEF Latest
  <2>4. g.attempts >= begun /\ g.output >= spent + Exposed
    BY <1>4, <1>19, <2>3, LatestBooks
  <2>5. h.attempts >= begun'
    BY <1>2, <1>5, <1>10, <1>11, <2>4, SMTT(40)
  <2> QED BY <1>2, <1>12, <2>2, <2>3, <2>4, <2>5 DEF LatestCovers
<1> QED BY <1>20, <1>21, <1>22, ChildStep

LEMMA RunChildKeeps ==
    ASSUME GoalAssumption, ChildAssumption, NoneAssumption, GoalInv,
           NEW coding \in BOOLEAN, NEW ok \in BOOLEAN, RunChild(coding, ok)
    PROVE  GoalInv' /\ LateStep
<1> SUFFICES ASSUME NEW i, i = current, NEW c, c = Len(children) + 1 PROVE GoalInv' /\ LateStep
  OBVIOUS
<1> DEFINE g == goals[i]
           job == [state |-> "running", committed |-> FALSE, defn |-> g.defn]
           e == [Charged(g) EXCEPT !.job = job]
           rec == [goal |-> i, defn |-> g.defn, coding |-> coding,
                   state |-> "running", handoff |-> "none", integration |-> "pending"]
           r == IF ok THEN rec ELSE InDoubt(rec, FALSE)
           h == IF ok THEN e ELSE Reflected(e, r)
<1>1. /\ Yielded /\ current # 0 /\ g.status = "working" /\ ~Coding /\ ~InFlight(Selected)
      /\ Len(children) < MaxChildren /\ NoUnsettledJob(g) /\ Selected = g
      /\ \A d \in DOMAIN children : children[d].state = "completed"
  BY DEF RunChild, Admissible, Selected
<1>2. /\ children' = Append(children, r) /\ Save(i, h)
      /\ task' = IF ok THEN [NoTask EXCEPT !.at = "executing", !.child = c] ELSE NoTask
      /\ begun' = IF ok THEN begun + 1 ELSE begun
      /\ UNCHANGED <<current, entries, routine, stray, inputs, spent, passed, staged, merged>>
  BY DEF RunChild, Selected
<1>3. /\ i = Latest /\ i \in DOMAIN goals /\ g \in DurableGoals /\ GoalHeld(g)
  BY <1>1, SelectedLatest
<1>4. /\ children \in Seq(Records) /\ Len(children) \in Nat /\ DOMAIN children = 1..Len(children)
      /\ c \in 1..MaxChildren /\ c \notin DOMAIN children /\ merged \in [1..MaxChildren -> Nat]
      /\ begun \in Nat /\ spent \in Nat /\ goals \in Seq(DurableGoals) /\ Reserve \in Nat
      /\ i \in 1..MaxGoals
  <2>1. RestTypeOK /\ goals \in Seq(DurableGoals) /\ Len(goals) <= MaxGoals /\ MaxGoals \in Nat
    BY RestNow, GoalAssumption DEF GoalAssumption
  <2>2. i \in 1..MaxGoals
    BY <1>3, <2>1
  <2>3. c \in 1..MaxChildren /\ c \notin DOMAIN children
    BY <1>1, TaskTypes, ChildAssumption DEF ChildAssumption
  <2> QED BY <2>1, <2>2, <2>3, TaskTypes, GoalAssumption DEF RestTypeOK, GoalAssumption
<1>5. task.at = "none"
  <2> SUFFICES ASSUME task.at # "none" PROVE FALSE
    OBVIOUS
  <2>1. task.child \in DOMAIN children /\ children[task.child].state = "completed"
    BY <1>1, TaskTypes
  <2>2. children[task.child].coding
    BY <2>1, TaskChild
  <2> QED BY <1>1, <2>2 DEF Coding
<1>6. \A d \in DOMAIN children : children[d].goal = i => Done(children[d])
  <2> SUFFICES ASSUME NEW d \in DOMAIN children, children[d].goal = i PROVE Done(children[d])
    OBVIOUS
  <2>1. g.job # None /\ (~Done(children[d]) => g.job.state # "passed")
    BY DEF GoalInv, JobsHeld
  <2> QED BY <1>1, <2>1 DEF NoUnsettledJob
<1>7. merged[c] = 0
  BY <1>4 DEF GoalInv, TaskPlaced
<1>8. g.defn \in Definitions /\ g.attempts \in Nat /\ g.output \in Nat /\ g.uncertain \in Nat
  BY <1>3 DEF DurableGoals
<1>9. /\ e \in DurableGoals /\ e.job = job /\ e.attempts = g.attempts + 1
      /\ e.output = g.output + Reserve /\ e.status = "working" /\ e.uncertain = g.uncertain
      /\ Same(e, g, {"attempts", "output", "job"})
  <2> DEFINE k == Charged(g)
  <2>1. /\ k \in DurableGoals /\ k.attempts = g.attempts + 1 /\ k.output = g.output + Reserve
        /\ Same(k, g, {"attempts", "output"})
    BY <1>3, ChargedFacts
  <2> HIDE DEF k
  <2>2. job \in Jobs
    BY <1>8 DEF Jobs
  <2>3. [k EXCEPT !.job = job] \in DurableGoals /\ [k EXCEPT !.job = job].job = job
        /\ Same([k EXCEPT !.job = job], k, {"job"})
    BY <2>1, <2>2, SetFields
  <2>4. e = [k EXCEPT !.job = job]
    BY DEF k
  <2> HIDE DEF e
  <2> QED BY <1>1, <2>1, <2>3, <2>4 DEF Same, Fields
<1>10. /\ rec \in Records /\ rec.goal = i /\ rec.state = "running" /\ rec.integration = "pending"
       /\ job \in Jobs /\ job.state = "running"
  BY <1>4, <1>8 DEF Records, Jobs
<1> HIDE DEF e, rec, job
<1>11. /\ r \in Records /\ r.goal = i /\ r.integration = "pending"
       /\ ok => r.state = "running" /\ ~Unknown(r) /\ ~Done(r) /\ Open(r)
       /\ ~ok => Unknown(r) /\ ~Done(r) /\ ~Open(r)
  BY <1>10, InDoubtFacts DEF Unknown, Done, Open
<1> HIDE DEF r
<1>12. /\ h \in DurableGoals /\ Same(h, e, {"uncertain", "status", "job"})
       /\ h.uncertain = g.uncertain + (IF Unknown(r) THEN 1 ELSE 0)
       /\ h.job # None /\ h.job.state # "passed"
       /\ h.status = IF ok THEN "working" ELSE "paused"
  <2>1. e.job \in Jobs /\ e.job # None /\ e.job.state = "running"
    BY <1>9, <1>10, NoneAssumption DEF NoneAssumption
  <2>2. CASE ok
    <3>1. h = e /\ Same(e, e, {"uncertain", "status", "job"})
      BY <2>2 DEF Same
    <3> HIDE DEF h
    <3>2. h.uncertain = g.uncertain + 0
      BY <1>8, <1>9, <3>1
    <3> QED BY <1>9, <1>11, <2>1, <2>2, <3>1, <3>2
  <2>3. CASE ~ok
    <3>1. h = Reflected(e, r)
      BY <2>3
    <3> HIDE DEF h
    <3>2. /\ h \in DurableGoals /\ Same(h, e, {"uncertain", "status", "job"})
          /\ h.uncertain = e.uncertain + (IF Unknown(r) THEN 1 ELSE 0)
          /\ h.job \in Jobs /\ h.job.state = JobState(r, e.job.state)
          /\ h.status = IF Unknown(r) /\ Going(e) THEN "paused" ELSE e.status
      BY <1>9, <1>11, <2>1, <3>1, ReflectedFacts
    <3>3. JobState(r, e.job.state) # "passed"
      BY <1>11, <2>3 DEF JobState
    <3>4. h.job # None
      BY <3>2, NoneAssumption DEF NoneAssumption
    <3> QED BY <1>9, <1>11, <2>3, <3>2, <3>3, <3>4 DEF Going
  <2> QED BY <2>2, <2>3
<1> HIDE DEF h
<1>13. /\ Same(h, g, {"status", "attempts", "output", "uncertain", "job"})
       /\ h.attempts = g.attempts + 1 /\ h.output = g.output + Reserve
  BY <1>9, <1>12 DEF Same, Fields
<1>14. h.uncertain > 0 => ~Going(h)
  BY <1>1, <1>3, <1>8, <1>11, <1>12 DEF GoalHeld, Going
<1>15. /\ children' \in Seq(Records) /\ Len(children') <= MaxChildren
       /\ DOMAIN children' = DOMAIN children \cup {c} /\ children'[c] = r
       /\ \A d \in DOMAIN children : d # c => children'[d] = children[d]
  BY <1>1, <1>2, <1>4, <1>11, ChildAssumption DEF ChildAssumption
<1>16. OneChild(c)
  BY <1>4, <1>15 DEF OneChild
<1>17. /\ task' \in Tasks /\ (task'.at # "none" => task'.child = c)
       /\ ok => task'.at = "executing"
       /\ ~ok => task'.at = "none"
  <2>1. CASE ok
    BY <1>2, <1>4, <2>1, StartedTask
  <2>2. CASE ~ok
    <3>1. task' = NoTask /\ 0 \in 0..MaxChildren
      BY <1>2, <1>4, <2>2
    <3> QED BY <2>2, <3>1 DEF Tasks, NoTask
  <2> QED BY <2>1, <2>2
<1>18. routine.at # "await"
  BY <1>1, NotAwaited
<1> HIDE DEF g
<1>19. g = goals[i]
  BY DEF g
<1>20. ChildSaved(i, h, c)
  <2>1. begun' \in Nat /\ spent' \in Nat
    BY <1>2, <1>4
  <2>2. h.status = g.status \/ h.status = "paused"
    BY <1>1, <1>12
  <2> QED BY <1>1, <1>2, <1>3, <1>4, <1>5, <1>6, <1>7, <1>11, <1>12, <1>13, <1>14, <1>15,
             <1>16, <1>17, <1>18, <1>19, <2>1, <2>2, SMTT(30) DEF ChildSaved
<1>21. TaskPlaced'
  <2>1. \A d \in 1..MaxChildren : d \notin DOMAIN children' => merged'[d] = 0
    BY <1>2, <1>15 DEF GoalInv, TaskPlaced
  <2>2. \A d \in staged' : merged'[d] = 0
    BY <1>2 DEF GoalInv, TaskPlaced
  <2> QED BY <1>11, <1>15, <1>17, <2>1, <2>2 DEF TaskPlaced
<1>22. LatestCovers'
  <2>1. Busy' = Busy /\ ~Implementing /\ (Implementing' <=> ok)
    BY <1>2, <1>5, <1>17 DEF Busy, Implementing
  <2>2. Exposed' = Exposed + (IF ok THEN Reserve ELSE 0) /\ Exposed \in Nat
    BY <1>2, <1>4, <2>1 DEF Exposed
  <2>3. Latest' = Latest /\ Latest # 0 /\ goals'[Latest] = h
    <3>1. Len(goals') = Len(goals) /\ goals'[i] = h
      BY <1>2, <1>3, <1>4, <1>12, SavedGoals
    <3> QED BY <1>1, <1>3, <3>1 DEF Latest
  <2>4. g.attempts >= begun /\ g.output >= spent + Exposed
    BY <1>3, <1>19, <2>3, LatestBooks
  <2>5. h.attempts >= begun'
    <3>1. begun' <= begun + 1 /\ begun' \in Nat
      BY <1>2, <1>4
    <3>2. h.attempts = g.attempts + 1 /\ g.attempts \in Nat /\ begun \in Nat
      BY <1>4, <1>8, <1>13
    <3> QED BY <2>4, <3>1, <3>2
  <2>6. h.output >= spent' + Exposed'
    <3>1. Exposed' <= Exposed + Reserve /\ Exposed' \in Nat
      BY <1>4, <2>2
    <3>2. spent' = spent
      BY <1>2
    <3>3. /\ h.output = g.output + Reserve /\ g.output \in Nat
          /\ Reserve \in Nat /\ spent \in Nat /\ Exposed \in Nat
      BY <1>4, <1>8, <1>13, <2>2
    <3> QED BY <2>4, <3>1, <3>2, <3>3
  <2> QED BY <2>3, <2>5, <2>6 DEF LatestCovers
<1> QED BY <1>20, <1>21, <1>22, ChildStep
-----------------------------------------------------------------------------
(* A new goal starts from the totals of the earlier ones.                   *)

LEMMA MaxFacts ==
    ASSUME NEW S \in SUBSET Nat, IsFiniteSet(S), S # {}
    PROVE  MaxOf(S) \in S /\ \A m \in S : m <= MaxOf(S)
<1> DEFINE less == {n \in Nat \X Nat : n[1] < n[2]}
           Above(n) == {m \in S : m > n}
           Counts == {Cardinality(Above(n)) : n \in S}
<1>1. IsWellFoundedOn(less, Nat)
  BY NatLessThanWellFounded DEF less, OpToRel
<1>2. \A n \in S : IsFiniteSet(Above(n)) /\ Cardinality(Above(n)) \in Nat
  <2> SUFFICES ASSUME NEW n \in S PROVE IsFiniteSet(Above(n)) /\ Cardinality(Above(n)) \in Nat
    OBVIOUS
  <2>1. Above(n) \subseteq S
    OBVIOUS
  <2> HIDE DEF Above
  <2> QED BY <2>1, FS_Subset, FS_CardinalityType
<1>3. Counts \subseteq Nat /\ Counts # {}
  BY <1>2
<1>4. PICK k \in Counts : \A m \in Counts : ~(<<m, k>> \in less)
  <2> HIDE DEF less, Counts
  <2> QED BY <1>1, <1>3, WFMin
<1>5. PICK n \in S : k = Cardinality(Above(n))
  OBVIOUS
<1>6. \A m \in S : m <= n
  <2> SUFFICES ASSUME NEW m \in S, ~(m <= n) PROVE FALSE
    OBVIOUS
  <2>1. m \in Above(n) /\ m \notin Above(m) /\ Above(m) \in SUBSET Above(n)
    <3>1. m \in Nat /\ n \in Nat /\ m > n
      OBVIOUS
    <3>2. m \in Above(n)
      BY <3>1
    <3>3. m \notin Above(m)
      BY <3>1
    <3>4. \A x \in S : x > m => x > n
      BY <3>1
    <3>5. Above(m) \subseteq Above(n)
      BY <3>4
    <3> QED BY <3>2, <3>3, <3>5
  <2>2. Cardinality(Above(m)) \in Counts
    OBVIOUS
  <2> HIDE DEF Above, Counts
  <2>3. /\ Cardinality(Above(m)) <= Cardinality(Above(n))
        /\ Cardinality(Above(m)) = Cardinality(Above(n)) => Above(m) = Above(n)
    BY <1>2, <2>1, FS_Subset
  <2>4. Cardinality(Above(m)) < k
    BY <1>2, <1>5, <2>1, <2>3
  <2> QED BY <1>3, <1>4, <2>2, <2>4
<1> QED BY <1>6 DEF MaxOf

LEMMA TotalFacts ==
    ASSUME goals \in Seq(DurableGoals), NEW f \in {"attempts", "output", "uncertain"}
    PROVE  /\ Total(f) \in Nat /\ \A i \in DOMAIN goals : goals[i][f] <= Total(f)
           /\ goals = <<>> => Total(f) = 0
<1> DEFINE T == {goals[i][f] : i \in DOMAIN goals}
           S == {0} \cup T
<1>1. \A i \in DOMAIN goals : goals[i][f] \in Nat
  <2>1. \A i \in DOMAIN goals : goals[i] \in DurableGoals
    OBVIOUS
  <2>2. \A g \in DurableGoals : g.attempts \in Nat /\ g.output \in Nat /\ g.uncertain \in Nat
    BY DEF DurableGoals
  <2> QED BY <2>1, <2>2
<1>2. IsFiniteSet(T)
  <2>1. IsFiniteSet(1..Len(goals)) /\ DOMAIN goals = 1..Len(goals)
    BY FS_Interval
  <2>2. IsFiniteSet(DOMAIN goals)
    BY <2>1
  <2> DEFINE F == [i \in DOMAIN goals |-> goals[i][f]]
  <2>3. F \in Surjection(DOMAIN goals, T)
    BY DEF Surjection
  <2> HIDE DEF F, T
  <2> QED BY <2>2, <2>3, FS_Surjection
<1>3. S \in SUBSET Nat /\ IsFiniteSet(S) /\ S # {}
  <2>1. S \in SUBSET Nat /\ S # {}
    BY <1>1
  <2>2. IsFiniteSet(S)
    <3>1. S = T \cup {0}
      OBVIOUS
    <3>2. IsFiniteSet(T \cup {0})
      <4> HIDE DEF T
      <4> QED BY <1>2, FS_AddElement
    <3> QED BY <3>1, <3>2
  <2> QED BY <2>1, <2>2
<1>4. Total(f) = MaxOf(S)
  BY DEF Total
<1>5. MaxOf(S) \in S /\ \A m \in S : m <= MaxOf(S)
  <2> HIDE DEF S
  <2> QED BY <1>3, MaxFacts
<1>6. goals = <<>> => S = {0}
  OBVIOUS
<1> QED BY <1>3, <1>4, <1>5, <1>6

LEMMA CreateGoalKeeps ==
    ASSUME GoalAssumption, ChildAssumption, GoalInv, NEW d \in Definitions, CreateGoal(d),
           UNCHANGED childVars
    PROVE  GoalInv' /\ LateStep
<1> USE DEF GoalInv
<1> DEFINE b == Carried(d)
           s == IF b.uncertain > 0 THEN "blocked"
                ELSE IF Exhausted(b, 0, 1) THEN "budget_exhausted" ELSE "working"
           h == [b EXCEPT !.status = s]
           n == Len(goals) + 1
<1>1. /\ Yielded /\ current = 0 /\ Len(goals) < MaxGoals
      /\ \A i \in DOMAIN goals : ~InFlight(goals[i])
      /\ goals' = Append(goals, h) /\ current' = n
      /\ UNCHANGED <<entries, routine, stray, inputs, begun, spent, passed>>
      /\ UNCHANGED <<children, task, staged, merged>>
  BY DEF CreateGoal, MayCreate, childVars
<1>2. /\ RestTypeOK /\ goals \in Seq(DurableGoals) /\ Len(goals) \in Nat /\ MaxGoals \in Nat
      /\ DOMAIN goals = 1..Len(goals)
  BY RestNow, GoalAssumption DEF GoalAssumption
<1>3. /\ b \in DurableGoals /\ b.attempts = Total("attempts") /\ b.output = Total("output")
      /\ b.uncertain = Total("uncertain") /\ b.held = 0 /\ b.evaluating = FALSE /\ b.evidence = None
  <2>1. 0 \in 0..MaxMessages
    BY GoalAssumption DEF GoalAssumption
  <2>2. Total("attempts") \in Nat /\ Total("output") \in Nat /\ Total("uncertain") \in Nat
    BY <1>2, TotalFacts
  <2> QED BY <2>1, <2>2 DEF Carried, DurableGoals, Statuses
<1> HIDE DEF b
<1>4. h \in DurableGoals /\ h.status = s /\ Same(h, b, {"status"})
  <2>1. s \in Statuses
    BY DEF Statuses
  <2> HIDE DEF s
  <2> QED BY <1>3, <2>1, SetFields
<1>5. b.uncertain > 0 => ~Going(h)
  BY <1>4 DEF Going
<1> HIDE DEF h
<1>6. /\ h.held = 0 /\ ~h.evaluating /\ h.evidence = None
      /\ h.attempts = Total("attempts") /\ h.output = Total("output") /\ h.uncertain = Total("uncertain")
  BY <1>3, <1>4 DEF Same, Fields
<1>7. /\ goals' \in Seq(DurableGoals) /\ Len(goals') = n /\ DOMAIN goals' = DOMAIN goals \cup {n}
      /\ goals'[n] = h /\ n \notin DOMAIN goals
      /\ \A i \in DOMAIN goals : goals'[i] = goals[i]
  BY <1>1, <1>2, <1>4
<1>8. ~InFlight(h) /\ GoalHeld(h) /\ EvidenceOf(h, passed[n])
  <2>1. h.uncertain > 0 => ~Going(h)
    BY <1>3, <1>5, <1>6
  <2> QED BY <1>6, <2>1 DEF InFlight, GoalHeld, EvidenceOf, Passing
<1>9. routine.at = "none"
  BY <1>1 DEF Yielded, RoutineHeld, InFlight
<1>10. ChildTypeOK'
  <2>1. Len(goals') <= MaxGoals /\ current' \in 0..Len(goals')
    BY <1>1, <1>2, <1>7
  <2>2. GoalTypeOK'
    BY <1>1, <1>2, <1>7, <2>1 DEF GoalTypeOK, RestTypeOK
  <2> QED BY <1>1, <2>2 DEF ChildTypeOK
<1>11. LatestOnly'
  BY <1>1, <1>7, <1>8 DEF LatestOnly, Latest
<1>12. GoalsHeld' /\ EvidenceHeld'
  BY <1>1, <1>7, <1>8 DEF GoalsHeld, EvidenceHeld
<1>13. MessagesHeld'
  <2>1. 0 \in 0..Len(entries)
    BY <1>2, EntryTypes
  <2> QED BY <1>1, <1>6, <1>7, <2>1 DEF MessagesHeld
<1>14. RoutineHeld'
  BY <1>1, <1>9 DEF RoutineHeld
<1>15. JobsHeld' /\ TaskPlaced' /\ PatchesHeld'
  BY <1>1, <1>7 DEF JobsHeld, TaskPlaced, PatchesHeld
<1>16. LatestCovers'
  <2>1. Exposed' = Exposed
    BY <1>1 DEF Exposed, Busy, Implementing
  <2>2. /\ Total("attempts") \in Nat /\ Total("output") \in Nat
        /\ \A i \in DOMAIN goals : goals[i].attempts <= Total("attempts")
                                   /\ goals[i].output <= Total("output")
    BY <1>2, TotalFacts
  <2>3. Total("attempts") >= begun /\ Total("output") >= spent + Exposed
    <3>1. CASE Latest = 0
      <4>1. begun = 0 /\ spent = 0 /\ Exposed = 0
        BY <3>1 DEF LatestCovers
      <4> QED BY <2>2, <4>1
    <3>2. CASE Latest # 0
      <4>1. /\ Latest \in DOMAIN goals
            /\ goals[Latest].attempts \in Nat /\ goals[Latest].output \in Nat
            /\ begun \in Nat /\ spent \in Nat /\ Exposed \in Nat
            /\ goals[Latest].attempts >= begun /\ goals[Latest].output >= spent + Exposed
        BY <3>2, LatestBooks
      <4>2. /\ goals[Latest].attempts <= Total("attempts")
            /\ goals[Latest].output <= Total("output")
        BY <2>2, <4>1
      <4> QED BY <2>2, <4>1, <4>2
    <3> QED BY <3>1, <3>2
  <2>4. Latest' = n /\ n # 0
    BY <1>2, <1>7 DEF Latest
  <2> QED BY <1>1, <1>6, <1>7, <2>1, <2>3, <2>4 DEF LatestCovers
<1>17. DoubtsHeld'
  <2> SUFFICES ASSUME NEW i \in DOMAIN goals'
               PROVE  /\ goals'[i].uncertain >= Doubts(i)'
                      /\ i = 1 => goals'[i].uncertain = Doubts(i)'
    BY DEF DoubtsHeld
  <2>1. UnknownChildren(i)' = UnknownChildren(i)
    BY <1>1, SameUnknown
  <2>2. Doubts(i) = UnknownChildren(i) + Loose(i) /\ Doubts(i)' = UnknownChildren(i)' + Loose(i)'
    BY DEF Doubts, UnknownChildren, Loose
  <2>3. CASE i \in DOMAIN goals
    <3>1. Loose(i)' = Loose(i)
      BY <1>1, <1>7, <2>3 DEF Loose, Unattended
    <3> QED BY <1>7, <2>1, <2>2, <2>3, <3>1 DEF DoubtsHeld
  <2>4. CASE i = n
    <3>1. Loose(i)' = 0
      BY <1>6, <1>7, <2>4 DEF Loose, Unattended
    <3>2. UnknownChildren(i) = 0
      <4>1. {c \in ChildrenOf(i) : Unknown(children[c])} = {}
        BY <1>7, <2>4 DEF ChildrenOf, JobsHeld
      <4> QED BY <4>1, FS_EmptySet DEF UnknownChildren
    <3>3. Doubts(i)' = 0
      BY <2>1, <2>2, <3>1, <3>2
    <3>4. Total("uncertain") \in Nat /\ (i = 1 => Total("uncertain") = 0)
      <4>1. i = 1 => goals = <<>>
        BY <1>2, <2>4
      <4> QED BY <1>2, <4>1, TotalFacts
    <3> QED BY <1>6, <1>7, <2>4, <3>3, <3>4
  <2> QED BY <1>7, <2>3, <2>4
<1>18. LateStep
  BY <1>7 DEF LateStep, LatestOnly, Going
<1> QED BY <1>10, <1>11, <1>12, <1>13, <1>14, <1>15, <1>16, <1>17, <1>18
-----------------------------------------------------------------------------
(* The session opens again: what was left over is a doubt.                  *)

Reborn(i, stalls) ==
    Recovered(IF goals[i].held # 0 /\ entries[goals[i].held].status = "running"
              THEN Interrupted(goals[i], stalls) ELSE goals[i])

(* What counts once more against goal i: its operation and its open child.  *)
Flying(i) == IF InFlight(goals[i]) THEN 1 ELSE 0
Mine(i) == task.at # "none" /\ children[task.child].goal = i
Opened(i) == IF Mine(i) THEN 1 ELSE 0

(* One goal, before its child is reflected: its operation is a doubt once.  *)
LEMMA RebornFacts ==
    ASSUME GoalAssumption, GoalInv, NEW i \in DOMAIN goals, NEW stalls \in BOOLEAN
    PROVE  LET g == goals[i] k == Reborn(i, stalls) IN
           /\ k \in DurableGoals /\ Same(k, g, {"uncertain", "status", "evidence"})
           /\ k.evidence \in {None, g.evidence}
           /\ k.status = "completed" => g.status = "completed"
           /\ Going(k) => Going(g)
           /\ k.uncertain > 0 => ~Going(k)
           /\ k.uncertain + Loose(i) = g.uncertain + Flying(i)
<1> DEFINE g == goals[i]
           k == Reborn(i, stalls)
<1>1. g \in DurableGoals /\ GoalHeld(g) /\ g.uncertain \in Nat
  <2>1. g \in DurableGoals
    BY RestNow
  <2> QED BY <2>1 DEF GoalInv, GoalsHeld, DurableGoals
<1>2. RestTypeOK /\ (g.held # 0 => g.held \in DOMAIN entries)
  <2>1. g.held \in 0..Len(entries)
    BY DEF GoalInv, MessagesHeld
  <2> QED BY <2>1, RestNow, EntryTypes
<1>3. CASE g.held # 0 /\ entries[g.held].status = "running"
  <2> DEFINE f == Interrupted(g, stalls)
  <2>1. /\ f \in DurableGoals /\ f.uncertain = g.uncertain + 1
        /\ Same(f, g, {"uncertain", "status", "evidence"})
        /\ ~Going(f) /\ (f.status = "completed" => g.status = "completed")
        /\ f.evidence \in {None, g.evidence}
    BY <1>1, InterruptedFacts
  <2>2. k = Recovered(f)
    BY <1>3 DEF Reborn
  <2> HIDE DEF f
  <2>3. ~g.evaluating /\ f.evaluating = g.evaluating
    BY <1>1, <1>3, <2>1 DEF GoalHeld, Same, Fields
  <2>4. k = f
    BY <2>2, <2>3 DEF Recovered
  <2>5. Loose(i) = 0 /\ Flying(i) = 1
    BY <1>3, <2>3 DEF Loose, Unattended, Flying, InFlight
  <2> QED BY <1>1, <2>1, <2>4, <2>5
<1>4. CASE ~(g.held # 0 /\ entries[g.held].status = "running")
  <2>1. k = Recovered(g)
    BY <1>4 DEF Reborn
  <2>2. /\ k \in DurableGoals /\ Same(k, g, {"uncertain", "status"})
        /\ k.uncertain = IF g.evaluating /\ g.uncertain = 0 THEN 1 ELSE g.uncertain
        /\ ~(g.evaluating /\ g.uncertain = 0) => k = g
        /\ g.evaluating /\ g.uncertain = 0 => ~Going(k)
        /\ k.status = "completed" => g.status = "completed"
        /\ Going(k) => Going(g)
    BY <1>1, <2>1, RecoveredFacts DEF GoalHeld
  <2> HIDE DEF k
  <2>6. k = Reborn(i, stalls)
    BY DEF k
  <2>3. Same(k, g, {"uncertain", "status", "evidence"}) /\ k.evidence = g.evidence
    BY <2>2 DEF Same, Fields
  <2>4. k.uncertain > 0 => ~Going(k)
    BY <1>1, <2>2 DEF GoalHeld
  <2>5. k.uncertain + Loose(i) = g.uncertain + Flying(i)
    <3>1. CASE g.evaluating
      <4>1. g.held = 0 /\ Flying(i) = 1
        BY <1>1, <3>1 DEF GoalHeld, Flying, InFlight
      <4>2. Loose(i) = IF routine.at = "await" /\ routine.goal = i THEN 0 ELSE 1
        BY <3>1, <4>1 DEF Loose, Unattended
      <4>3. CASE routine.at = "await" /\ routine.goal = i
        <5>1. g.uncertain = 0
          BY <4>3, AwaitedGoal
        <5>2. k.uncertain = 1 /\ Loose(i) = 0
          BY <2>2, <3>1, <4>2, <4>3, <5>1
        <5> QED BY <4>1, <5>1, <5>2
      <4>4. CASE ~(routine.at = "await" /\ routine.goal = i)
        <5>1. Loose(i) = 1
          BY <4>2, <4>4
        <5>2. g.uncertain # 0
          <6>1. g.uncertain >= Doubts(i) /\ Doubts(i) = UnknownChildren(i) + Loose(i)
            BY DoubtsSum DEF GoalInv, DoubtsHeld
          <6>2. UnknownChildren(i) \in Nat
            BY UnknownNat DEF GoalInv, ChildTypeOK
          <6> QED BY <1>1, <5>1, <6>1, <6>2
        <5>3. k.uncertain = g.uncertain
          BY <2>2, <5>2
        <5> QED BY <1>1, <4>1, <5>1, <5>3
      <4> QED BY <4>3, <4>4
    <3>2. CASE ~g.evaluating
      <4>1. k.uncertain = g.uncertain
        BY <2>2, <3>2
      <4>2. Loose(i) = Flying(i)
        BY <1>4, <3>2 DEF Loose, Unattended, Flying, InFlight
      <4> QED BY <4>1, <4>2
    <3> QED BY <3>1, <3>2
  <2> QED BY <2>2, <2>3, <2>4, <2>5, <2>6
<1> QED BY <1>3, <1>4

(* The records after a restart: the one of the task, if any, is in doubt.   *)
LEMMA LeftOpenFacts ==
    ASSUME ChildAssumption, GoalInv, NEW stalls \in BOOLEAN, RestartSession(stalls)
    PROVE  /\ task.at = "none" => children' = children /\ goals' = Reopened(stalls)
           /\ task.at # "none" =>
                LET c == task.child r == InDoubt(children[c], FALSE) IN
                /\ children' = [children EXCEPT ![c] = r]
                /\ goals' = [Reopened(stalls) EXCEPT ![children[c].goal] = Reflected(@, r)]
<1>1. \A d \in DOMAIN children : LeftOpen(children[d]) <=> task.at # "none" /\ task.child = d
  BY DEF GoalInv, PatchesHeld, LeftOpen
<1>2. children' = [d \in DOMAIN children |->
          IF LeftOpen(children[d]) THEN InDoubt(children[d], FALSE) ELSE children[d]]
  BY DEF RestartSession
<1>3. children \in Seq(Records)
  BY TaskTypes
<1>4. CASE task.at = "none"
  <2>1. \A d \in DOMAIN children : ~LeftOpen(children[d])
    BY <1>1, <1>4
  <2>2. children' = [d \in DOMAIN children |-> children[d]]
    BY <1>2, <2>1
  <2>3. children' = children
    BY <1>3, <2>2
  <2>4. goals' = Reopened(stalls)
    BY <2>1 DEF RestartSession
  <2> QED BY <1>4, <2>3, <2>4
<1>5. CASE task.at # "none"
  <2> DEFINE c == task.child
             r == InDoubt(children[c], FALSE)
  <2>1. c \in DOMAIN children /\ LeftOpen(children[c])
    BY <1>1, <1>5, TaskTypes
  <2>2. \A d \in DOMAIN children : LeftOpen(children[d]) => d = c
    BY <1>1
  <2>3. children' = [children EXCEPT ![c] = r]
    BY <1>2, <1>3, <2>1, <2>2
  <2>4. (CHOOSE d \in DOMAIN children : LeftOpen(children[d])) = c
    BY <2>1, <2>2
  <2>5. goals' = Recovering(Reopened(stalls), c)
    BY <2>1, <2>4 DEF RestartSession
  <2> QED BY <1>5, <2>3, <2>5 DEF Recovering
<1> QED BY <1>4, <1>5

(* The goals after a restart.                                               *)
LEMMA RestartedGoals ==
    ASSUME GoalAssumption, ChildAssumption, NoneAssumption, GoalInv,
           NEW stalls \in BOOLEAN, RestartSession(stalls), NEW i \in DOMAIN goals
    PROVE  LET g == goals[i]
               h == goals'[i] IN
           /\ h \in DurableGoals /\ Same(h, g, {"uncertain", "status", "evidence", "job"})
           /\ h.evidence \in {None, g.evidence}
           /\ h.status = "completed" => g.status = "completed"
           /\ Going(h) => Going(g)
           /\ h.uncertain > 0 => ~Going(h)
           /\ h.uncertain + Loose(i) = g.uncertain + Flying(i) + Opened(i)
           /\ ~Mine(i) => h.job = g.job
           /\ Mine(i) => h.job # None /\ h.job.state # "passed"
<1> DEFINE g == goals[i]
           h == goals'[i]
           k == Reborn(i, stalls)
<1>1. /\ k \in DurableGoals /\ Same(k, g, {"uncertain", "status", "evidence"})
      /\ k.evidence \in {None, g.evidence}
      /\ k.status = "completed" => g.status = "completed"
      /\ Going(k) => Going(g)
      /\ k.uncertain > 0 => ~Going(k)
      /\ k.uncertain + Loose(i) = g.uncertain + Flying(i)
  BY RebornFacts
<1>2. Reopened(stalls)[i] = k /\ DOMAIN Reopened(stalls) = DOMAIN goals
  BY DEF Reopened, Reborn
<1>3. g.uncertain \in Nat /\ k.uncertain \in Nat /\ Loose(i) \in Nat
      /\ Flying(i) \in Nat
  <2>1. g \in DurableGoals
    BY RestNow
  <2> HIDE DEF k
  <2> QED BY <1>1, <2>1 DEF DurableGoals, Loose, Flying
<1> HIDE DEF k
<1>4. k.job = g.job
  BY <1>1 DEF Same, Fields
<1>5. Same(k, g, {"uncertain", "status", "evidence", "job"})
  BY <1>1 DEF Same
<1>6. CASE ~Mine(i)
  <2>1. h = k
    BY <1>2, <1>6, LeftOpenFacts DEF Mine
  <2> HIDE DEF h
  <2>4. h = goals'[i]
    BY DEF h
  <2>2. h.uncertain + Loose(i) = g.uncertain + Flying(i) + 0
    BY <1>1, <1>3, <2>1
  <2>3. Opened(i) = 0
    BY <1>6 DEF Opened
  <2> QED BY <1>1, <1>4, <1>5, <1>6, <2>1, <2>2, <2>3, <2>4
<1>7. CASE Mine(i)
  <2> DEFINE r == InDoubt(children[task.child], FALSE)
  <2>1. /\ children[task.child] \in Records /\ g.job # None
        /\ \/ children[task.child].state = "running"
           \/ children[task.child].state = "completed" /\ children[task.child].coding
    BY <1>7, TaskChild DEF Mine
  <2>2. r \in Records /\ Unknown(r) /\ ~Done(r)
    <3>1. /\ r \in Records /\ Unknown(r) /\ r.coding = children[task.child].coding
          /\ children[task.child].state # "running" => r.integration = "uncertain"
          /\ children[task.child].state = "running" => r.state \in {"cancelled", "uncertain"}
      BY <2>1, InDoubtFacts
    <3> HIDE DEF r
    <3> QED BY <2>1, <3>1 DEF Done
  <2>3. h = Reflected(k, r)
    BY <1>2, <1>7, LeftOpenFacts DEF Mine
  <2> HIDE DEF h, r
  <2>11. h = goals'[i]
    BY DEF h
  <2>4. /\ h \in DurableGoals /\ Same(h, k, {"uncertain", "status", "job"})
        /\ h.uncertain = k.uncertain + (IF Unknown(r) THEN 1 ELSE 0)
        /\ h.job \in Jobs /\ h.job.state = JobState(r, k.job.state)
        /\ h.status = IF Unknown(r) /\ Going(k) THEN "paused" ELSE k.status
    BY <1>1, <1>4, <2>1, <2>2, <2>3, ReflectedFacts
  <2>5. h.uncertain = k.uncertain + 1
    BY <2>2, <2>4
  <2>6. ~Going(h) /\ (h.status = "completed" => g.status = "completed")
    BY <1>1, <2>2, <2>4 DEF Going
  <2>7. h.job # None /\ h.job.state # "passed"
    <3>1. JobState(r, k.job.state) # "passed"
      BY <2>2 DEF JobState
    <3> QED BY <2>4, <3>1, NoneAssumption DEF NoneAssumption
  <2>8. /\ Same(h, g, {"uncertain", "status", "evidence", "job"}) /\ h.evidence = k.evidence
    BY <1>1, <2>4 DEF Same, Fields
  <2>9. Opened(i) = 1
    BY <1>7 DEF Opened
  <2>10. h.uncertain + Loose(i) = g.uncertain + Flying(i) + 1
    BY <1>1, <1>3, <2>5
  <2> QED BY <1>1, <1>7, <2>4, <2>6, <2>7, <2>8, <2>9, <2>10, <2>11
<1> QED BY <1>6, <1>7

(* The other parts of the state after a restart.                            *)
LEMMA RestartedRest ==
    ASSUME GoalAssumption, ChildAssumption, NoneAssumption, GoalInv,
           NEW stalls \in BOOLEAN, RestartSession(stalls)
    PROVE  /\ goals' \in Seq(DurableGoals) /\ Len(goals') = Len(goals) /\ DOMAIN goals' = DOMAIN goals
           /\ routine' = Idle /\ task' = NoTask /\ stray' = FALSE /\ staged' = {}
           /\ UNCHANGED <<current, inputs, begun, passed, merged>>
           /\ RestTypeOK' /\ Len(entries') = Len(entries) /\ DOMAIN entries' = DOMAIN entries
           /\ \A m \in DOMAIN entries : /\ entries'[m].goal = entries[m].goal
                                        /\ entries'[m].status # "running"
           /\ Exposed' = 0 /\ spent' = spent + Exposed
<1>1. /\ routine' = Idle /\ task' = NoTask /\ stray' = FALSE /\ staged' = {}
      /\ UNCHANGED <<current, inputs, begun, passed, merged>>
      /\ entries' = [m \in DOMAIN entries |->
              IF entries[m].status = "running" THEN [entries[m] EXCEPT !.status = "ended"]
              ELSE entries[m]]
      /\ spent' = spent + (IF Busy THEN Reserve ELSE 0)
                        + (IF routine.at = "await" THEN Reserve ELSE 0)
                        + (IF Implementing THEN Reserve ELSE 0)
  BY DEF RestartSession, Interrupts
<1>2. /\ RestTypeOK /\ goals \in Seq(DurableGoals) /\ Len(goals) \in Nat /\ DOMAIN goals = 1..Len(goals)
      /\ spent \in Nat /\ Reserve \in Nat
  BY RestNow, GoalAssumption DEF RestTypeOK, GoalAssumption
<1>3. goals' \in Seq(DurableGoals) /\ Len(goals') = Len(goals) /\ DOMAIN goals' = DOMAIN goals
  <2>1. goals' = [i \in 1..Len(goals) |-> goals'[i]]
    <3>1. Reopened(stalls) = [i \in 1..Len(goals) |-> Reopened(stalls)[i]]
      BY <1>2 DEF Reopened
    <3> QED BY <3>1, LeftOpenFacts
  <2>2. \A i \in 1..Len(goals) : goals'[i] \in DurableGoals
    BY <1>2, RestartedGoals
  <2> QED BY <1>2, <2>1, <2>2, SMTT(40)
<1>4. /\ entries \in Seq(Entries) /\ Len(entries) \in Nat /\ DOMAIN entries = 1..Len(entries)
      /\ Len(entries) <= MaxMessages /\ \A m \in DOMAIN entries : entries[m] \in Entries
  BY <1>2, EntryTypes
<1>5. \A m \in DOMAIN entries :
        LET e == IF entries[m].status = "running" THEN [entries[m] EXCEPT !.status = "ended"]
                 ELSE entries[m] IN
        e \in Entries /\ e.goal = entries[m].goal /\ e.status # "running"
  BY <1>4 DEF Entries
<1>6. /\ entries' \in Seq(Entries) /\ Len(entries') = Len(entries) /\ DOMAIN entries' = DOMAIN entries
      /\ \A m \in DOMAIN entries : /\ entries'[m].goal = entries[m].goal
                                   /\ entries'[m].status # "running"
  <2>1. \A m \in DOMAIN entries : entries'[m] = IF entries[m].status = "running"
                                                THEN [entries[m] EXCEPT !.status = "ended"]
                                                ELSE entries[m]
    BY <1>1
  <2>2. \A m \in DOMAIN entries : /\ entries'[m] \in Entries
                                  /\ entries'[m].goal = entries[m].goal
                                  /\ entries'[m].status # "running"
    BY <1>5, <2>1
  <2>3. entries' = [m \in 1..Len(entries) |-> entries'[m]]
    BY <1>1, <1>4
  <2>4. \A m \in 1..Len(entries) : entries'[m] \in Entries
    BY <1>4, <2>2
  <2>5. entries' \in Seq(Entries) /\ Len(entries') = Len(entries) /\ DOMAIN entries' = DOMAIN entries
    BY <1>4, <2>3, <2>4, SMTT(40)
  <2> QED BY <2>2, <2>5
<1>7. ~Busy' /\ routine'.at # "await" /\ ~Implementing'
  BY <1>1, <1>6 DEF Busy, Idle, Implementing, NoTask
<1>8. Exposed' = 0 /\ spent' = spent + Exposed /\ spent' \in Nat
  <2>1. Exposed' = 0
    BY <1>7 DEF Exposed
  <2>2. spent' = spent + Exposed /\ spent' \in Nat
    BY <1>1, <1>2, SMTT(40) DEF Exposed
  <2> QED BY <2>1, <2>2
<1>9. RestTypeOK'
  <2>1. Idle \in [at : {"none", "begin", "await", "apply"}, goal : 0..MaxGoals,
                  obs : Observations \cup {None},
                  verdict : {"passed", "failed", "blocked", None}]
    BY GoalAssumption DEF Idle, GoalAssumption
  <2> QED BY <1>1, <1>2, <1>4, <1>6, <1>8, <2>1 DEF RestTypeOK, Entries
<1> QED BY <1>1, <1>3, <1>6, <1>8, <1>9

LEMMA RestartKeeps ==
    ASSUME GoalAssumption, ChildAssumption, NoneAssumption, GoalInv,
           NEW stalls \in BOOLEAN, RestartSession(stalls)
    PROVE  GoalInv' /\ LateStep
<1> SUFFICES ASSUME NEW c, c = task.child PROVE GoalInv' /\ LateStep
  OBVIOUS
<1> USE DEF GoalInv
<1> DEFINE r == InDoubt(children[c], FALSE)
<1>1. /\ goals' \in Seq(DurableGoals) /\ Len(goals') = Len(goals) /\ DOMAIN goals' = DOMAIN goals
      /\ routine' = Idle /\ task' = NoTask /\ stray' = FALSE /\ staged' = {}
      /\ UNCHANGED <<current, inputs, begun, passed, merged>>
      /\ RestTypeOK' /\ Len(entries') = Len(entries) /\ DOMAIN entries' = DOMAIN entries
      /\ \A m \in DOMAIN entries : /\ entries'[m].goal = entries[m].goal
                                   /\ entries'[m].status # "running"
      /\ Exposed' = 0 /\ spent' = spent + Exposed
  BY RestartedRest
<1>2. \A i \in DOMAIN goals :
        /\ goals'[i] \in DurableGoals /\ Same(goals'[i], goals[i], {"uncertain", "status", "evidence", "job"})
        /\ goals'[i].evidence \in {None, goals[i].evidence}
        /\ goals'[i].status = "completed" => goals[i].status = "completed"
        /\ Going(goals'[i]) => Going(goals[i])
        /\ goals'[i].uncertain > 0 => ~Going(goals'[i])
        /\ goals'[i].uncertain + Loose(i) = goals[i].uncertain + Flying(i) + Opened(i)
        /\ ~Mine(i) => goals'[i].job = goals[i].job
        /\ Mine(i) => goals'[i].job # None /\ goals'[i].job.state # "passed"
  BY RestartedGoals
<1>3. \A i \in DOMAIN goals :
        /\ goals'[i].held = goals[i].held /\ goals'[i].evaluating = goals[i].evaluating
        /\ goals'[i].judged = goals[i].judged
        /\ goals'[i].attempts = goals[i].attempts /\ goals'[i].output = goals[i].output
        /\ (InFlight(goals'[i]) <=> InFlight(goals[i]))
  BY <1>2 DEF Same, Fields, InFlight
<1>4. \A i \in DOMAIN goals :
        /\ goals[i].uncertain \in Nat /\ goals'[i].uncertain \in Nat
        /\ Loose(i) \in 0..1 /\ Flying(i) \in 0..1 /\ Opened(i) \in 0..1 /\ UnknownChildren(i) \in Nat
        /\ goals[i].uncertain >= UnknownChildren(i) + Loose(i)
        /\ i = 1 => goals[i].uncertain = UnknownChildren(i) + Loose(i)
  <2> SUFFICES ASSUME NEW i \in DOMAIN goals
               PROVE  /\ goals[i].uncertain \in Nat /\ goals'[i].uncertain \in Nat
                      /\ Loose(i) \in 0..1 /\ Flying(i) \in 0..1 /\ Opened(i) \in 0..1
                      /\ UnknownChildren(i) \in Nat
                      /\ goals[i].uncertain >= UnknownChildren(i) + Loose(i)
                      /\ i = 1 => goals[i].uncertain = UnknownChildren(i) + Loose(i)
    OBVIOUS
  <2>1. goals[i] \in DurableGoals /\ goals'[i] \in DurableGoals
    BY <1>2, RestNow
  <2>2. goals[i].uncertain \in Nat /\ goals'[i].uncertain \in Nat
    BY <2>1 DEF DurableGoals
  <2>3. Loose(i) \in 0..1 /\ Flying(i) \in 0..1 /\ Opened(i) \in 0..1
    BY DEF Loose, Flying, Opened
  <2>4. UnknownChildren(i) \in Nat /\ Doubts(i) = UnknownChildren(i) + Loose(i)
    BY UnknownNat, DoubtsSum, TaskTypes
  <2> QED BY <2>2, <2>3, <2>4 DEF DoubtsHeld
<1>5. \A i \in DOMAIN goals : InFlight(goals[i]) => ~Going(goals'[i])
  <2> SUFFICES ASSUME NEW i \in DOMAIN goals, InFlight(goals[i]) PROVE ~Going(goals'[i])
    OBVIOUS
  <2>1. Flying(i) = 1
    BY DEF Flying
  <2>2. goals'[i].uncertain > 0
    BY <1>2, <1>4, <2>1
  <2> QED BY <1>2, <2>2
<1>6. /\ task.at = "none" => children' = children
      /\ task.at # "none" =>
           /\ children' = [children EXCEPT ![c] = r] /\ c \in DOMAIN children
           /\ children[c] \in Records /\ ~Done(children[c]) /\ ~Unknown(children[c])
           /\ r \in Records /\ Unknown(r) /\ ~Open(r) /\ r.goal = children[c].goal
           /\ r.handoff = children[c].handoff /\ r.integration # "integrated"
           /\ children[c].integration # "pending" => r.integration # "pending"
  <2>1. CASE task.at = "none"
    BY <2>1, LeftOpenFacts
  <2>2. CASE task.at # "none"
    <3>1. children' = [children EXCEPT ![c] = r]
      BY <2>2, LeftOpenFacts
    <3>2. /\ c \in DOMAIN children /\ children[c] \in Records /\ ~Done(children[c]) /\ ~Unknown(children[c])
          /\ \/ children[c].state = "running" /\ children[c].integration = "pending"
             \/ children[c].state = "completed" /\ children[c].integration = "integrating"
      BY <2>2, TaskChild
    <3>3. /\ r \in Records /\ r.goal = children[c].goal /\ r.handoff = children[c].handoff /\ Unknown(r)
          /\ children[c].state # "running" => r.state = children[c].state /\ r.integration = "uncertain"
          /\ children[c].state = "running" => r.state \in {"cancelled", "uncertain"}
                                      /\ r.integration = children[c].integration
      BY <3>2, InDoubtFacts
    <3> HIDE DEF r
    <3> QED BY <2>2, <3>1, <3>2, <3>3 DEF Open
  <2> QED BY <2>1, <2>2
<1> HIDE DEF r
<1>7. /\ children \in Seq(Records) /\ children' \in Seq(Records)
      /\ Len(children') = Len(children) /\ DOMAIN children' = DOMAIN children
      /\ \A d \in DOMAIN children : ~(task.at # "none" /\ d = c) => children'[d] = children[d]
      /\ \A d \in DOMAIN children : children'[d].goal = children[d].goal
      /\ task.at # "none" => children'[c] = r
  <2>1. children \in Seq(Records)
    BY TaskTypes
  <2>2. CASE task.at = "none"
    BY <1>6, <2>1, <2>2
  <2>3. CASE task.at # "none"
    <3>1. /\ children' = [children EXCEPT ![c] = r] /\ c \in DOMAIN children
          /\ r \in Records /\ r.goal = children[c].goal
      BY <1>6, <2>3
    <3> QED BY <2>1, <2>3, <3>1
  <2> QED BY <2>1, <2>2, <2>3
<1>8. ChildTypeOK'
  <2>1. GoalTypeOK'
    BY <1>1, RestNow DEF GoalTypeOK, RestTypeOK
  <2>2. NoTask \in Tasks
    BY ChildAssumption DEF NoTask, Tasks, ChildAssumption
  <2>3. Len(children) <= MaxChildren /\ merged \in [1..MaxChildren -> Nat]
    BY TaskTypes, SMTT(40)
  <2> QED BY <1>1, <1>7, <2>1, <2>2, <2>3 DEF ChildTypeOK, Tasks
<1>9. LatestOnly'
  BY <1>1, <1>2, <1>3 DEF LatestOnly, Latest
<1>10. GoalsHeld'
  <2>1. \A i \in DOMAIN goals : GoalHeld(goals'[i])
    BY <1>2, <1>3, <1>5 DEF GoalsHeld, GoalHeld, Going, InFlight
  <2> QED BY <1>1, <2>1 DEF GoalsHeld
<1>11. MessagesHeld'
  BY <1>1, <1>3 DEF MessagesHeld
<1>12. RoutineHeld'
  BY <1>1 DEF RoutineHeld, Idle
<1>13. EvidenceHeld'
  <2>1. \A i \in DOMAIN goals : EvidenceOf(goals'[i], passed[i])
    BY <1>2, <1>3 DEF EvidenceHeld, EvidenceOf, Passing
  <2> QED BY <1>1, <2>1 DEF EvidenceHeld
<1>14. JobsHeld'
  <2> SUFFICES ASSUME NEW e \in DOMAIN children
               PROVE  /\ children[e].goal \in DOMAIN goals
                      /\ goals'[children[e].goal].job # None
                      /\ ~Done(children'[e]) =>
                           /\ goals'[children[e].goal].job.state # "passed"
                           /\ \A d \in DOMAIN children :
                                children[d].goal = children[e].goal /\ ~Done(children'[d]) => e = d
    BY <1>1, <1>7 DEF JobsHeld, Done
  <2>1. /\ children[e].goal \in DOMAIN goals
        /\ goals[children[e].goal].job # None
        /\ ~Done(children[e]) =>
             /\ goals[children[e].goal].job.state # "passed"
             /\ \A d \in DOMAIN children :
                  children[d].goal = children[e].goal /\ ~Done(children[d]) => e = d
    BY DEF JobsHeld
  <2>2. \A d \in DOMAIN children : ~Done(children'[d]) => ~Done(children[d])
    BY <1>6, <1>7
  <2>3. CASE Mine(children[e].goal)
    BY <1>2, <2>1, <2>2, <2>3
  <2>4. CASE ~Mine(children[e].goal)
    BY <1>2, <2>1, <2>2, <2>4
  <2> QED BY <2>3, <2>4
<1>15. TaskPlaced'
  BY <1>1, <1>7 DEF TaskPlaced, NoTask
<1>16. PatchesHeld'
  <2> SUFFICES ASSUME NEW d \in DOMAIN children
               PROVE  /\ merged[d] <= 1
                      /\ merged[d] = 1 => children'[d].handoff = "passed"
                                          /\ children'[d].integration # "pending"
                      /\ children'[d].integration = "integrated" => merged[d] = 1
                      /\ ~Open(children'[d])
    BY <1>1, <1>7 DEF PatchesHeld, Open, NoTask
  <2>1. /\ merged[d] <= 1
        /\ merged[d] = 1 => children[d].handoff = "passed" /\ children[d].integration # "pending"
        /\ children[d].integration = "integrated" => merged[d] = 1
        /\ Open(children[d]) <=> task.at # "none" /\ task.child = d
    BY DEF PatchesHeld, Open
  <2>2. CASE task.at # "none" /\ d = c
    BY <1>6, <1>7, <2>1, <2>2
  <2>3. CASE ~(task.at # "none" /\ d = c)
    <3>1. children'[d] = children[d]
      BY <1>7, <2>3
    <3> QED BY <2>1, <2>3, <3>1
  <2> QED BY <2>2, <2>3
<1>17. LatestCovers'
  <2>1. Latest' = Latest /\ goals \in Seq(DurableGoals)
    BY <1>1, RestNow DEF Latest
  <2>2. spent \in Nat /\ spent' \in Nat
    BY <1>1, RestNow DEF RestTypeOK
  <2>3. Latest # 0 => Latest \in DOMAIN goals
    BY <2>1 DEF Latest
  <2>4. spent' + Exposed' = spent + Exposed
    BY <1>1, <2>2
  <2>5. Latest = 0 => spent' = 0
    BY <1>1 DEF LatestCovers
  <2> QED BY <1>1, <1>3, <2>1, <2>3, <2>4, <2>5 DEF LatestCovers
<1>18. DoubtsHeld'
  <2> SUFFICES ASSUME NEW i \in DOMAIN goals
               PROVE  /\ goals'[i].uncertain >= Doubts(i)'
                      /\ i = 1 => goals'[i].uncertain = Doubts(i)'
    BY <1>1 DEF DoubtsHeld
  <2>1. Doubts(i)' = UnknownChildren(i)' + Loose(i)'
    BY DEF Doubts, UnknownChildren, Loose
  <2>2. Loose(i)' = Flying(i)
    <3>1. goals[i].held # 0 => goals[i].held \in DOMAIN entries
      BY RestNow, EntryTypes DEF MessagesHeld
    <3>2. routine'.at # "await"
      BY <1>1 DEF Idle
    <3>3. goals[i].held # 0 => entries'[goals[i].held].status # "running"
      BY <1>1, <3>1
    <3> QED BY <1>3, <3>2, <3>3 DEF Loose, Unattended, Flying, InFlight
  <2>3. UnknownChildren(i)' = UnknownChildren(i) + Opened(i)
    <3>1. CASE task.at = "none"
      <4>1. Opened(i) = 0
        BY <3>1 DEF Opened, Mine
      <4>2. UnknownChildren(i)' = UnknownChildren(i)
        BY <1>6, <3>1, SameUnknown
      <4> QED BY <1>4, <4>1, <4>2
    <3>2. CASE task.at # "none"
      <4>1. OneChild(c)
        BY <1>6, <1>7, <3>2 DEF OneChild
      <4>2. UnknownChildren(i)' = UnknownChildren(i)
              + (IF children'[c].goal = i /\ Unknown(children'[c]) THEN 1 ELSE 0)
        BY <1>6, <1>7, <3>2, <4>1, UnknownChange
      <4>3. Opened(i) = IF children'[c].goal = i /\ Unknown(children'[c]) THEN 1 ELSE 0
        BY <1>6, <1>7, <3>2 DEF Opened, Mine
      <4> QED BY <4>2, <4>3
    <3> QED BY <3>1, <3>2
  <2> QED BY <1>2, <1>4, <2>1, <2>2, <2>3
<1>19. LateStep
  <2>1. \A i \in DOMAIN goals : /\ goals'[i].status = "completed" => goals[i].status = "completed"
                                /\ Going(goals'[i]) => Going(goals[i])
    BY <1>2
  <2> QED BY <2>1 DEF LateStep, LatestOnly, Going
<1> QED BY <1>8, <1>9, <1>10, <1>11, <1>12, <1>13, <1>14, <1>15, <1>16, <1>17, <1>18, <1>19
-----------------------------------------------------------------------------
(* The theorems.                                                            *)

LEMMA InitInv ==
    ASSUME GoalAssumption, ChildAssumption, NoneAssumption, ChildInit
    PROVE  GoalInv
<1>1. /\ goals = <<>> /\ current = 0 /\ entries = <<>> /\ routine = Idle /\ stray = FALSE
      /\ inputs \in Inputs /\ begun = 0 /\ spent = 0
      /\ passed = [i \in 1..MaxGoals |-> None]
      /\ children = <<>> /\ task = NoTask /\ staged = {}
      /\ merged = [c \in 1..MaxChildren |-> 0]
  BY DEF ChildInit, Init
<1>2. /\ MaxGoals \in Nat /\ MaxMessages \in Nat /\ MaxChildren \in Nat
  BY GoalAssumption, ChildAssumption DEF GoalAssumption, ChildAssumption
<1>3. GoalTypeOK
  <2>1. goals \in Seq(DurableGoals) /\ Len(goals) <= MaxGoals /\ current \in 0..Len(goals)
    BY <1>1, <1>2
  <2>2. entries \in Seq(Entries) /\ Len(entries) <= MaxMessages
    BY <1>1, <1>2
  <2>3. routine \in [at : {"none", "begin", "await", "apply"}, goal : 0..MaxGoals,
                     obs : Observations \cup {None},
                     verdict : {"passed", "failed", "blocked", None}]
    BY <1>1, <1>2 DEF Idle
  <2>4. passed \in [1..MaxGoals -> Observations \cup {None}]
    BY <1>1
  <2>5. stray \in BOOLEAN /\ inputs \in Inputs /\ begun \in Nat /\ spent \in Nat
    BY <1>1
  <2> QED BY <2>1, <2>2, <2>3, <2>4, <2>5 DEF GoalTypeOK, Entries
<1>4. ChildTypeOK
  BY <1>1, <1>2, <1>3 DEF ChildTypeOK, NoTask
<1>5. LatestOnly /\ GoalsHeld /\ MessagesHeld /\ EvidenceHeld /\ JobsHeld /\ DoubtsHeld /\ PatchesHeld
  BY <1>1 DEF LatestOnly, Latest, GoalsHeld, MessagesHeld, EvidenceHeld, JobsHeld, DoubtsHeld, PatchesHeld
<1>6. RoutineHeld
  BY <1>1 DEF RoutineHeld, Idle
<1>7. TaskPlaced
  BY <1>1 DEF TaskPlaced, NoTask
<1>8. LatestCovers
  <2>1. ~Busy /\ routine.at # "await" /\ ~Implementing
    BY <1>1 DEF Busy, Idle, Implementing, NoTask
  <2>2. Exposed = 0
    BY <2>1 DEF Exposed
  <2>3. Latest = 0
    BY <1>1 DEF Latest
  <2> QED BY <1>1, <2>2, <2>3 DEF LatestCovers
<1> QED BY <1>4, <1>5, <1>6, <1>7, <1>8 DEF GoalInv

(* A step that changes nothing.                                             *)
LEMMA StutterKeeps ==
    ASSUME ChildAssumption, GoalInv, UNCHANGED allVars
    PROVE  GoalInv' /\ LateStep
<1>1. UNCHANGED vars /\ UNCHANGED <<children, task, staged, merged>>
  BY DEF allVars, childVars
<1>2. /\ task \in Tasks /\ staged \subseteq 1..MaxChildren /\ merged \in [1..MaxChildren -> Nat]
  BY TaskTypes
<1>3. Implementing' <=> Implementing
  BY <1>1 DEF Implementing
<1>4. TaskPlaced' /\ PatchesHeld'
  BY <1>1 DEF TaskPlaced, PatchesHeld, GoalInv
<1> QED BY <1>1, <1>2, <1>3, <1>4, TaskStep

LEMMA GoalStepsKeep ==
    ASSUME GoalAssumption, ChildAssumption, NoneAssumption, GoalInv, GoalSteps
    PROVE  GoalInv' /\ LateStep
<1>1. CASE Stop /\ CancelTask
  BY <1>1, StopKeeps
<1>2. CASE AtBoundary(Checkins) /\ ~Coding /\ UNCHANGED childVars
  <2>1. Checkins \subseteq BOOLEAN
    BY DEF Checkins, LastCheckin
  <2>2. Offered \subseteq Observations \cup {None, AdapterError}
    BY DEF Offered
  <2>3. ASSUME NEW m \in DOMAIN entries, Dispatch(m) PROVE GoalInv' /\ LateStep
    BY <1>2, <2>3, DispatchKeeps
  <2>4. ASSUME NEW obs \in Offered, NEW last \in Checkins, NEW stalls \in BOOLEAN,
               CheckGoal(obs, last, stalls) \/ Evaluate(obs, last, stalls)
        PROVE  GoalInv' /\ LateStep
    <3>1. obs \in Observations \cup {None, AdapterError} /\ last \in BOOLEAN
      BY <2>1, <2>2
    <3> QED BY <1>2, <2>4, <3>1, CheckGoalKeeps, EvaluateKeeps
  <2>5. CASE Reconcile
    BY <1>2, <2>5, ReconcileKeeps
  <2> QED BY <1>2, <2>3, <2>4, <2>5 DEF AtBoundary
<1>3. CASE Steer /\ UNCHANGED childVars
  <2>1. ASSUME NEW d \in Definitions, CreateGoal(d) \/ EditGoal(d) PROVE GoalInv' /\ LateStep
    BY <1>3, <2>1, CreateGoalKeeps, EditGoalKeeps
  <2>2. CASE Resume
    BY <1>3, <2>2, ResumeKeeps
  <2> QED BY <1>3, <2>1, <2>2 DEF Steer
<1>4. CASE Proceed /\ UNCHANGED childVars
  <2>1. CASE Submit
    BY <1>4, <2>1, SubmitKeeps
  <2>2. ASSUME NEW m \in DOMAIN entries, NEW stalls \in BOOLEAN, NEW used \in 0..Reserve,
               TurnCompletes(m, used, stalls)
        PROVE  GoalInv' /\ LateStep
    BY <1>4, <2>2, TurnCompletesKeeps
  <2>3. ASSUME NEW m \in DOMAIN entries, NEW stalls \in BOOLEAN, TurnFails(m, stalls)
        PROVE  GoalInv' /\ LateStep
    BY <1>4, <2>3, TurnFailsKeeps
  <2>4. ASSUME NEW verdict \in {"passed", "failed", "blocked"}, NEW used \in 0..Reserve,
               EvaluatorAnswers(verdict, used)
        PROVE  GoalInv' /\ LateStep
    BY <1>4, <2>4, EvaluatorAnswersKeeps
  <2>5. ASSUME NEW stalls \in BOOLEAN, ApplyVerdict(stalls) PROVE GoalInv' /\ LateStep
    BY <1>4, <2>5, ApplyVerdictKeeps
  <2>6. ASSUME NEW runsOn \in BOOLEAN, EvaluatorFails(runsOn) PROVE GoalInv' /\ LateStep
    BY <1>4, <2>6, EvaluatorFailsKeeps
  <2>7. CASE StrayEnds \/ InputsChange
    BY <1>4, <2>7, IdleKeeps
  <2>8. CASE RegisterJob
    BY <1>4, <2>8, RegisterJobKeeps
  <2>9. ASSUME NEW exhausts \in BOOLEAN, ReportFailure(exhausts) PROVE GoalInv' /\ LateStep
    BY <1>4, <2>9, ReportFailureKeeps
  <2> QED BY <1>4, <2>1, <2>2, <2>3, <2>4, <2>5, <2>6, <2>7, <2>8, <2>9 DEF Proceed
<1>5. ASSUME NEW i \in DOMAIN goals, ChildrenOf(i) = {}, Reports(i), UNCHANGED childVars
      PROVE  GoalInv' /\ LateStep
  BY <1>5, ReportJobKeeps DEF Reports
<1> QED BY <1>1, <1>2, <1>3, <1>4, <1>5 DEF GoalSteps

LEMMA ChildStepsKeep ==
    ASSUME GoalAssumption, ChildAssumption, NoneAssumption, GoalInv, ChildSteps
    PROVE  GoalInv' /\ LateStep
<1>1. ASSUME NEW c \in DOMAIN children, Integrate(c) PROVE GoalInv' /\ LateStep
  BY <1>1, IntegrateKeeps
<1>2. ASSUME NEW ok \in BOOLEAN, NEW coding \in BOOLEAN, RunChild(coding, ok)
      PROVE  GoalInv' /\ LateStep
  BY <1>2, RunChildKeeps
<1>3. ASSUME NEW ok \in BOOLEAN, NEW tests \in {"passed", "failed"}, StageReturns(ok, tests)
      PROVE  GoalInv' /\ LateStep
  BY <1>3, StageReturnsKeeps
<1>4. ASSUME NEW ok \in BOOLEAN, ExecutorReturns(ok) PROVE GoalInv' /\ LateStep
  BY <1>4, ExecutorReturnsKeeps
<1>5. ASSUME NEW ok \in BOOLEAN, VerifierReturns(ok) \/ MergeReturns(ok) \/ ConfirmReturns(ok)
      PROVE  GoalInv' /\ LateStep
  BY <1>5, BrokerReturnsKeeps
<1>6. CASE Cancelled
  BY <1>6, BrokerReturnsKeeps
<1>7. CASE BrokerStages
  BY <1>7, BrokerStagesKeeps
<1>8. ASSUME NEW merges \in BOOLEAN, BrokerMerges(merges) PROVE GoalInv' /\ LateStep
  BY <1>8, BrokerMergesKeeps
<1>9. CASE StopChild
  BY <1>9, StopChildKeeps
<1> QED BY <1>1, <1>2, <1>3, <1>4, <1>5, <1>6, <1>7, <1>8, <1>9 DEF ChildSteps

LEMMA StepKeeps ==
    ASSUME GoalAssumption, ChildAssumption, NoneAssumption, GoalInv, [ChildNext]_allVars
    PROVE  GoalInv' /\ LateStep
<1>1. CASE GoalSteps
  BY <1>1, GoalStepsKeep
<1>2. CASE ChildSteps
  BY <1>2, ChildStepsKeep
<1>3. ASSUME NEW stalls \in BOOLEAN, RestartSession(stalls) PROVE GoalInv' /\ LateStep
  BY <1>3, RestartKeeps
<1>4. CASE UNCHANGED allVars
  BY <1>4, StutterKeeps
<1> QED BY <1>1, <1>2, <1>3, <1>4 DEF ChildNext

(* The goals and the children of a session keep the invariant.              *)
THEOREM GoalInvariant == ChildSpec => []GoalInv
<1>1. ChildInit => GoalInv
  BY InitInv, GoalAssumption, ChildAssumption, NoneAssumption
<1>2. GoalInv /\ [ChildNext]_allVars => GoalInv'
  BY StepKeeps, GoalAssumption, ChildAssumption, NoneAssumption
<1> QED BY <1>1, <1>2, PTL DEF ChildSpec

(* Every value has its type.                                                *)
THEOREM ChildTypes == ChildSpec => []ChildTypeOK
<1>1. GoalInv => ChildTypeOK
  BY DEF GoalInv
<1> QED BY <1>1, GoalInvariant, PTL

(* What runs is a turn of the latest goal, its evaluation, or its child.    *)
LEMMA ExposedNow ==
    ASSUME GoalAssumption, GoalInv
    PROVE  Exposed = Reserve * RunningNow
<1> DEFINE R == {m \in DOMAIN entries : entries[m].status = "running"}
           A == IF routine.at = "await" THEN 1 ELSE 0
           I == IF Implementing THEN 1 ELSE 0
           B == IF Busy THEN 1 ELSE 0
<1>1. Cardinality(R) = B
  <2>1. CASE Busy
    <3>1. PICK m \in DOMAIN entries : entries[m].status = "running"
      BY <2>1 DEF Busy
    <3>2. R = {m}
      BY <3>1, RunningMessage
    <3>3. Cardinality({m}) = 1
      BY FS_Singleton
    <3> QED BY <2>1, <3>2, <3>3
  <2>2. CASE ~Busy
    <3>1. R = {}
      BY <2>2 DEF Busy
    <3> QED BY <2>2, <3>1, FS_EmptySet
  <2> QED BY <2>1, <2>2
<1>2. RunningNow = B + A + I
  BY <1>1 DEF RunningNow
<1>3. A \in 0..1 /\ B \in 0..1 /\ I \in 0..1 /\ Reserve \in Nat
  BY GoalAssumption DEF GoalAssumption
<1>4. /\ (IF Busy THEN Reserve ELSE 0) = Reserve * B
      /\ (IF routine.at = "await" THEN Reserve ELSE 0) = Reserve * A
      /\ (IF Implementing THEN Reserve ELSE 0) = Reserve * I
  BY <1>3
<1>5. Exposed = Reserve * B + Reserve * A + Reserve * I
  BY <1>4 DEF Exposed
<1> HIDE DEF A, B, I
<1>6. \A a, b, i \in 0..1 : Reserve * b + Reserve * a + Reserve * i = Reserve * (b + a + i)
  <2> SUFFICES ASSUME NEW a \in 0..1, NEW b \in 0..1, NEW i \in 0..1
               PROVE  Reserve * b + Reserve * a + Reserve * i = Reserve * (b + a + i)
    OBVIOUS
  <2>1. CASE b = 0
    BY <1>3, <2>1
  <2>2. CASE b = 1
    BY <1>3, <2>2
  <2> QED BY <2>1, <2>2
<1> QED BY <1>2, <1>3, <1>5, <1>6

(* reserve_goal_operation, charge_goal_operation and create_goal: the books *)
(* of the goals cover every operation the session began, whatever was       *)
(* cleared, replaced, interrupted or answered late.                         *)
THEOREM ChargesAreCovered == ChildSpec => []ChargesCover
<1>1. ASSUME GoalInv PROVE ChargesCover
  <2> SUFFICES ASSUME goals # <<>> 
               PROVE  /\ \E g \in Chargeable : g.attempts >= begun
                      /\ \E g \in Chargeable : g.output >= spent + Reserve * RunningNow
    BY DEF ChargesCover
  <2>1. Latest # 0
    BY <1>1, RestNow DEF Latest
  <2>2. /\ Latest \in DOMAIN goals /\ goals[Latest].attempts >= begun
        /\ goals[Latest].output >= spent + Exposed
    BY <1>1, <2>1, LatestBooks, GoalAssumption
  <2>3. goals[Latest] \in Chargeable
    <3>1. current # 0 => Selected = goals[Latest]
      BY <1>1, SelectedLatest
    <3> QED BY <2>2, <3>1 DEF Chargeable
  <2>4. Exposed = Reserve * RunningNow
    BY <1>1, ExposedNow, GoalAssumption
  <2> QED BY <2>2, <2>3, <2>4
<1> QED BY <1>1, GoalInvariant, PTL

(* reserve, recover and reconcile: at most one operation is unresolved,     *)
(* every unknown outcome stops its goal and is counted, and a patch is      *)
(* merged at most once, with tests passed and its integration on record.    *)
THEOREM UnresolvedIsHeld == ChildSpec => []UnresolvedHeld
<1>1. ASSUME GoalInv PROVE UnresolvedHeld
  <2> DEFINE F == {i \in DOMAIN goals : InFlight(goals[i])}
  <2>1. Cardinality(F) <= 1
    <3>1. F \subseteq {Latest}
      BY <1>1 DEF GoalInv, LatestOnly
    <3> HIDE DEF F
    <3>2. F = {} \/ F = {Latest}
      BY <3>1
    <3>3. Cardinality({}) = 0 /\ Cardinality({Latest}) = 1
      BY FS_EmptySet, FS_Singleton
    <3> QED BY <3>2, <3>3
  <2>2. \A i \in DOMAIN goals :
          /\ ~(goals[i].held # 0 /\ goals[i].evaluating)
          /\ goals[i].uncertain >= Doubts(i)
          /\ i = 1 => goals[i].uncertain = Doubts(i)
          /\ goals[i].uncertain > 0 => goals[i].status \notin {"working", "waiting"}
    BY <1>1 DEF GoalInv, GoalsHeld, GoalHeld, Going, DoubtsHeld
  <2>3. OperationsHeld
    BY <2>1, <2>2 DEF OperationsHeld
  <2> QED BY <1>1, <2>3 DEF UnresolvedHeld, GoalInv
<1> QED BY <1>1, GoalInvariant, PTL

(* evaluate_goal, report_goal_job, the children and recovery: a goal        *)
(* completes only on what the evaluator found for it as it is now, and no   *)
(* late result makes a stopped goal work again.                             *)
THEOREM LateResultsAreHeld == ChildSpec => LateResultsHeld
<1>1. GoalInv /\ [ChildNext]_allVars => [LateStep]_allVars
  BY StepKeeps, GoalAssumption, ChildAssumption, NoneAssumption
<1> QED BY <1>1, GoalInvariant, PTL DEF ChildSpec, LateResultsHeld, LateStep
=============================================================================
