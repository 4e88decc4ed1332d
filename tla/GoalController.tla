--------------------------- MODULE GoalController ---------------------------
(***************************************************************************)
(* The durable objectives of a conversation: conversation_goal_controller  *)
(* and the pure decision procedure of conversation_goal.                   *)
(*                                                                         *)
(* A session keeps its goals in a list, one of them selected.  A message   *)
(* of the selected goal and a semantic evaluation are the two operations   *)
(* that spend the goal's budget: each reserves its worst case before it    *)
(* starts, and settles or stays reserved, and uncertain, when it ends.     *)
(* While an evaluator is awaited the terminal still takes /goal commands,  *)
(* jobs still report, and the process may die.                             *)
(*                                                                         *)
(* Kept: every status, guard and save.  Abstracted: a budget is attempts   *)
(* and output units (input, cost and review rounds are charged the same    *)
(* way); a goal has at most one required job; an observation is "good"     *)
(* when every mechanical obligation is met; the stall and check-in counts  *)
(* are free choices; an uncertain job is a failed one without a result;    *)
(* the wall clock is left out, as are task-scoped ledgers and branch budgets.  *)
(* Evidence adapters leave the semantic verdict to the evaluator.          *)
(***************************************************************************)
EXTENDS Integers, Sequences, FiniteSets

CONSTANTS
    Definitions,    \* goal definitions (an edit may return to an earlier one)
    Attempts,       \* Attempts[d], Outputs[d]: the ceilings of definition d
    Outputs,
    Inputs,         \* identities of the workspace and the inputs
    Reserve,        \* output units reserved for one operation
    MaxGoals, MaxEdits, MaxJobs, MaxMessages,
    None            \* no evidence, no job, no verdict
CONSTANT AdapterError   \* the evidence adapter raised

ASSUME GoalAssumption ==
    /\ Attempts \in [Definitions -> Nat]
    /\ Outputs \in [Definitions -> Nat]
    /\ {Reserve, MaxGoals, MaxEdits, MaxJobs, MaxMessages} \subseteq Nat

VARIABLES
    goals,      \* state.goals
    current,    \* the index of state.active_goal_id, 0 when no goal is selected
    entries,    \* the goal messages of the conversation
    routine,    \* where the coroutine evaluate_goal is, and its locals
    stray,      \* an evaluator given up on has not ended yet
    inputs,     \* what observe_goal_inputs returns
    begun,      \* history: operations started in this session
    spent,      \* history: output of the ended ones, at worst when unknown
    passed      \* history: what the evaluator last found to pass, for each goal

vars == <<goals, current, entries, routine, stray, inputs, begun, spent, passed>>

Statuses == {"working", "waiting", "paused", "cancelled", "blocked",
             "stalled", "budget_exhausted", "completed"}
Observations == [defn : Definitions, inputs : Inputs, good : BOOLEAN]
Evidences == [obs : Observations, semantic : {"unavailable", "passed", "failed"},
              cause : BOOLEAN]
Jobs == [state : {"running", "passed", "failed", "stuck"},
         committed : BOOLEAN, defn : Definitions]

ASSUME NoneAssumption == None \notin Jobs \cup Evidences

DurableGoals ==
    [defn : Definitions, revisions : Nat, status : Statuses,
     attempts : Nat, output : Nat, uncertain : Nat,
     held : 0..MaxMessages,                    \* the message reserved for
     evaluating : BOOLEAN, evidence : Evidences \cup {None},
     judged : Observations \cup {None},        \* semantic_evidence_sha256
     job : Jobs \cup {None}]

Idle == [at |-> "none", goal |-> 0, obs |-> None, verdict |-> None]

GoalTypeOK ==
    /\ goals \in Seq(DurableGoals) /\ Len(goals) <= MaxGoals
    /\ current \in 0..Len(goals)
    /\ entries \in Seq([goal : 1..MaxGoals, defn : Definitions,
                        status : {"queued", "running", "ended"}])
    /\ Len(entries) <= MaxMessages
    /\ routine \in [at : {"none", "begin", "await", "apply"}, goal : 0..MaxGoals,
                    obs : Observations \cup {None},
                    verdict : {"passed", "failed", "blocked", None}]
    /\ stray \in BOOLEAN /\ inputs \in Inputs
    /\ begun \in Nat /\ spent \in Nat
    /\ passed \in [1..MaxGoals -> Observations \cup {None}]

-----------------------------------------------------------------------------
(* conversation_goal: the pure part.                                       *)

Exhausted(g, output, attempts) ==
    \/ g.output + output > Outputs[g.defn]
    \/ g.attempts + attempts > Attempts[g.defn]

Unresolved(g) == g.job # None /\ (g.job.state # "passed" \/ g.job.defn # g.defn)

Valid(g, ev, where) ==
    ev # None /\ ev.obs.defn = g.defn /\ where # None /\ ev.obs.inputs = where

Proven(g, ev, where) ==
    Valid(g, ev, where) /\ ev.obs.good /\ ev.semantic = "passed" /\ ~Unresolved(g)

(* The status decide gives, its branches in the code's order. *)
Status(g, ev, where, stalls) ==
    LET valid == Valid(g, ev, where) IN
    IF g.status \in {"paused", "cancelled"} THEN g.status
    ELSE IF g.uncertain > 0 THEN "blocked"
    ELSE IF Exhausted(g, 0, 0) THEN "budget_exhausted"
    ELSE IF g.status = "blocked" /\ valid /\ ev.cause /\ ev.semantic # "passed" THEN "blocked"
    ELSE IF g.status \in {"blocked", "stalled", "budget_exhausted"} /\ ~valid THEN g.status
    ELSE IF Unresolved(g)
         THEN IF g.job.state \in {"failed", "stuck"} THEN "blocked" ELSE "waiting"
    ELSE IF Proven(g, ev, where) THEN "completed"
    ELSE IF g.attempts >= Attempts[g.defn] THEN "budget_exhausted"
    ELSE IF stalls THEN "stalled" ELSE "working"

Decided(g, given, where, stalls) ==
    LET ev == IF given # None THEN given ELSE g.evidence IN
    IF g.status = "completed" THEN g
    ELSE [g EXCEPT !.status = Status(g, ev, where, stalls),
                   !.evidence = IF Valid(g, ev, where) THEN ev ELSE None]

(* check_job_deadlines: the last check-in shows the job as stuck; the      *)
(* earlier ones only count.                                                *)
AtDeadline(g, last) ==
    IF last /\ g.status = "waiting" /\ ~g.evaluating
         /\ g.job # None /\ g.job.state = "running"
    THEN [g EXCEPT !.job.state = "stuck"]
    ELSE g

(* check_goal: the verdict on an unchanged observation is used again; an   *)
(* adapter that raises blocks the goal before the decision.                *)
Checked(g0, obs, last, stalls) ==
    LET g == AtDeadline(g0, last)
        again == g.evidence # None /\ g.judged = obs
        ev == IF obs \in {None, AdapterError} THEN None
              ELSE [obs |-> obs,
                    semantic |-> IF again THEN g.evidence.semantic ELSE "unavailable",
                    cause |-> again /\ g.evidence.cause]
    IN Decided(IF obs = AdapterError
               THEN [g EXCEPT !.status = "blocked", !.evidence = None] ELSE g,
               ev, inputs, stalls)

Charged(g) == [g EXCEPT !.attempts = @ + 1, !.output = @ + Reserve]
Doubted(g) == [g EXCEPT !.uncertain = @ + 1]

-----------------------------------------------------------------------------
(* Between awaits the event loop runs one handler at a time.               *)
Yielded == routine.at \in {"none", "await"}
Busy == \E m \in DOMAIN entries : entries[m].status = "running"
Selected == goals[current]
InFlight(g) == g.held # 0 \/ g.evaluating
Save(i, g) == goals' = [goals EXCEPT ![i] = g]
MaxOf(S) == CHOOSE n \in S : \A m \in S : m <= n
(* mutant: a replacement starts from the goals that were not cancelled *)
TotalOfOpen(field) ==
    MaxOf({0} \cup {goals[i][field] : i \in {j \in DOMAIN goals : goals[j].status # "cancelled"}})

Total(field) == MaxOf({0} \cup {goals[i][field] : i \in DOMAIN goals})

Init ==
    /\ goals = <<>> /\ current = 0 /\ entries = <<>>
    /\ routine = Idle /\ stray = FALSE
    /\ inputs \in Inputs
    /\ begun = 0 /\ spent = 0
    /\ passed = [i \in 1..MaxGoals |-> None]

MayCreate(d) ==
    /\ current = 0
    /\ \A i \in DOMAIN goals : ~InFlight(goals[i])
    /\ Len(goals) < MaxGoals
    /\ \A i \in DOMAIN goals :
         Attempts[d] <= Attempts[goals[i].defn] /\ Outputs[d] <= Outputs[goals[i].defn]

(* The ledger a new goal starts from: the totals of every retained goal. *)
Carried(d) ==
    [defn |-> d, revisions |-> 1, status |-> "working",
     attempts |-> Total("attempts"), output |-> Total("output"),
     uncertain |-> Total("uncertain"), held |-> 0, evaluating |-> FALSE,
     evidence |-> None, judged |-> None, job |-> None]

CreateGoal(d) ==
    /\ Yielded /\ MayCreate(d)
    /\ LET g == Carried(d)
           status == IF g.uncertain > 0 THEN "blocked"
                     ELSE IF Exhausted(g, 0, 1) THEN "budget_exhausted" ELSE "working"
       IN goals' = Append(goals, [g EXCEPT !.status = status])
    /\ current' = Len(goals) + 1
    /\ UNCHANGED <<entries, routine, stray, inputs, begun, spent, passed>>

EditGoal(d) ==
    /\ Yielded /\ current # 0
    /\ Cardinality({e \in (DOMAIN goals) \X (2..MaxEdits + 1) : e[2] <= goals[e[1]].revisions}) < MaxEdits
    /\ Attempts[d] <= Attempts[Selected.defn] /\ Outputs[d] <= Outputs[Selected.defn]
    /\ Selected.status \notin {"completed", "cancelled"}
    /\ Save(current, [Selected EXCEPT !.defn = d, !.revisions = @ + 1,
                                      !.evidence = None, !.judged = None,
                                      !.status = "paused"])
    /\ UNCHANGED <<current, entries, routine, stray, inputs, begun, spent, passed>>

(* goal_control: the four commands of /goal. *)
Resume ==
    /\ Yielded /\ current # 0
    /\ Selected.status \notin {"completed", "cancelled"}
    /\ ~InFlight(Selected) /\ Selected.uncertain = 0
    /\ ~Exhausted(Selected, 0, 1)
    /\ Save(current, [Selected EXCEPT
            !.status = IF Selected.job # None /\ Selected.job.state # "passed"
                       THEN "waiting" ELSE "working",
            !.evidence = None])
    /\ UNCHANGED <<current, entries, routine, stray, inputs, begun, spent, passed>>

Pause ==
    /\ Yielded /\ current # 0
    /\ Selected.status \notin {"completed", "cancelled"}
    /\ Save(current, [Selected EXCEPT !.status = "paused"])
    /\ UNCHANGED <<current, entries, routine, stray, inputs, begun, spent, passed>>

Cancel ==
    /\ Yielded /\ current # 0
    /\ Selected.status # "completed"
    /\ Save(current, [Selected EXCEPT !.status = "cancelled"])
    /\ UNCHANGED <<current, entries, routine, stray, inputs, begun, spent, passed>>

Clear ==
    /\ Yielded /\ current # 0
    /\ Save(current, [Selected EXCEPT
            !.status = IF @ \in {"completed", "cancelled", "budget_exhausted"}
                       THEN @ ELSE "paused"])
    /\ current' = 0
    /\ UNCHANGED <<entries, routine, stray, inputs, begun, spent, passed>>

-----------------------------------------------------------------------------
(* Messages: reserve before dispatch, charge at completion.                *)

Submit ==
    /\ Yielded /\ current # 0 /\ Len(entries) < MaxMessages
    /\ Selected.status = "working"
    /\ entries' = Append(entries, [goal |-> current, defn |-> Selected.defn,
                                   status |-> "queued"])
    /\ UNCHANGED <<goals, current, routine, stray, inputs, begun, spent, passed>>

CanDispatch(m) ==
    /\ entries[m].goal = current
    /\ Selected.status = "working"
    /\ Selected.held = 0 /\ Selected.uncertain = 0
    /\ entries[m].defn = Selected.defn

Dispatch(m) ==
    /\ Yielded /\ ~Busy /\ entries[m].status = "queued" /\ CanDispatch(m)
    /\ \A k \in 1..(m - 1) : ~(entries[k].status = "queued" /\ CanDispatch(k))
    /\ IF Exhausted(Selected, Reserve, 1)
       THEN /\ Save(current, [Selected EXCEPT !.status = "budget_exhausted"])
            /\ UNCHANGED <<entries, begun>>
       ELSE /\ Save(current, [Charged(Selected) EXCEPT !.held = m])
            /\ entries' = [entries EXCEPT ![m].status = "running"]
            /\ begun' = begun + 1
    /\ UNCHANGED <<current, routine, stray, inputs, spent, passed>>

Settled(g, used) == [g EXCEPT !.output = @ - Reserve + used, !.held = 0]

(* A turn that completes is charged what it used; the evaluation that      *)
(* follows starts before the event loop regains control.                   *)
TurnCompletes(m, used, stalls) ==
    /\ Yielded /\ entries[m].status = "running"
    /\ LET i == entries[m].goal IN
       /\ goals[i].held = m
       /\ Save(i, Decided(Settled(goals[i], used), None, None, stalls))
       /\ routine' = IF i = current THEN [Idle EXCEPT !.at = "begin", !.goal = i] ELSE routine
    /\ entries' = [entries EXCEPT ![m].status = "ended"]
    /\ spent' = spent + used
    /\ UNCHANGED <<current, stray, inputs, begun, passed>>

(* A failed or cancelled turn keeps its reservation and counts as an       *)
(* uncertain effect.                                                       *)
Interrupted(g, stalls) == Decided(Doubted(g), None, None, stalls)

TurnFails(m, stalls) ==
    /\ Yielded /\ entries[m].status = "running"
    /\ Save(entries[m].goal, Interrupted(goals[entries[m].goal], stalls))
    /\ entries' = [entries EXCEPT ![m].status = "ended"]
    /\ spent' = spent + Reserve
    /\ UNCHANGED <<current, routine, stray, inputs, begun, passed>>

-----------------------------------------------------------------------------
(* Completion checks and the semantic evaluator.                           *)

SafeBoundary == ~Busy /\ ~InFlight(Selected)

CheckGoal(obs, last, stalls) ==
    /\ Yielded /\ current # 0 /\ Selected.status # "completed" /\ SafeBoundary
    /\ Save(current, Checked(Selected, obs, last, stalls))
    /\ UNCHANGED <<current, entries, routine, stray, inputs, begun, spent, passed>>

Evaluable(g) ==
    /\ g.evidence # None /\ g.evidence.semantic = "unavailable"
    /\ g.status = "working"
    /\ g.job = None \/ g.job.state = "passed"
    /\ g.evidence.obs.good

(* evaluate_goal up to its await, after a turn or on its own. *)
Evaluate(obs, last, stalls) ==
    /\ routine.at \in {"none", "begin"} /\ current # 0
    /\ Selected.status # "completed" => SafeBoundary
    /\ LET g == IF Selected.status = "completed" THEN Selected
                ELSE Checked(Selected, obs, last, stalls)
       IN IF ~Evaluable(g)
          THEN Save(current, g) /\ routine' = Idle /\ UNCHANGED begun
          ELSE IF Exhausted(g, Reserve, 1)
          THEN /\ Save(current, [g EXCEPT !.status = "budget_exhausted"])
               /\ routine' = Idle /\ UNCHANGED begun
          ELSE /\ Save(current, [Charged(g) EXCEPT !.status = "waiting", !.evaluating = TRUE])
               /\ routine' = [Idle EXCEPT !.at = "await", !.goal = current, !.obs = g.evidence.obs]
               /\ begun' = begun + 1
    /\ UNCHANGED <<current, entries, stray, inputs, spent, passed>>

(* mutant: a late verdict is told by the definition and the selection only *)
LateByIdentity(g) == g.defn # routine.obs.defn \/ routine.goal # current

(* The goal a verdict arrives for may have moved on. *)
Late(g) ==
    \/ g.defn # routine.obs.defn
    \/ g.status # "waiting"
    \/ routine.goal # current

(* The verdict arrives: the first save settles the reservation, and a late *)
(* verdict goes no further.                                                *)
EvaluatorAnswers(verdict, used) ==
    /\ routine.at = "await"
    /\ LET i == routine.goal
           g == [goals[i] EXCEPT !.evaluating = FALSE, !.output = @ - Reserve + used]
       IN /\ Save(i, g)
          /\ routine' = IF Late(g) THEN Idle
                        ELSE [routine EXCEPT !.at = "apply", !.verdict = verdict]
    /\ spent' = spent + used
    /\ passed' = IF verdict = "passed" THEN [passed EXCEPT ![routine.goal] = routine.obs]
                 ELSE passed
    /\ UNCHANGED <<current, entries, stray, inputs, begun>>

(* The second save decides on the evidence the evaluator was given. *)
ApplyVerdict(stalls) ==
    /\ routine.at = "apply"
    /\ LET i == routine.goal
           ev == [obs |-> routine.obs,
                  semantic |-> IF routine.verdict = "passed" THEN "passed" ELSE "failed",
                  cause |-> routine.verdict = "blocked"]
           g == Decided([goals[i] EXCEPT !.status = "working"], ev, inputs, stalls)
       IN Save(i, [g EXCEPT
              !.judged = routine.obs,
              !.status = IF routine.verdict = "blocked" /\ @ \notin {"completed", "budget_exhausted"}
                         THEN "blocked" ELSE @])
    /\ routine' = Idle
    /\ UNCHANGED <<current, entries, stray, inputs, begun, spent, passed>>

(* Timeout, cancellation or a failure: the exposure stays reserved.  The   *)
(* evaluator may ignore its cancellation for a while.                      *)
Unanswered(g) == [Doubted(g) EXCEPT !.status = IF @ = "waiting" THEN "blocked" ELSE @]

EvaluatorFails(runsOn) ==
    /\ routine.at = "await"
    /\ Save(routine.goal, Unanswered(goals[routine.goal]))
    /\ routine' = Idle
    /\ stray' = runsOn
    /\ spent' = spent + Reserve
    /\ UNCHANGED <<current, entries, inputs, begun, passed>>

StrayEnds ==
    /\ stray /\ stray' = FALSE
    /\ UNCHANGED <<goals, current, entries, routine, inputs, begun, spent, passed>>

(* A qualified receipt for the one uncertain operation of the selected     *)
(* goal; the charges stay.                                                 *)
Reconcile ==
    /\ Yielded /\ ~Busy /\ routine.at # "await" /\ ~stray
    /\ current # 0 /\ Selected.uncertain > 0 /\ InFlight(Selected)
    /\ Save(current, [Selected EXCEPT
            !.uncertain = @ - 1,
            !.held = 0,
            !.evaluating = IF Selected.held # 0 THEN @ ELSE FALSE])
    /\ UNCHANGED <<current, entries, routine, stray, inputs, begun, spent, passed>>

-----------------------------------------------------------------------------
(* Jobs and failure reports of trusted adapters.                           *)

RegisterJob ==
    /\ Yielded /\ current # 0 /\ Selected.status \in {"working", "waiting"}
    /\ Selected.job = None
    /\ Cardinality({i \in DOMAIN goals : goals[i].job # None}) < MaxJobs
    /\ Save(current, [Selected EXCEPT
            !.job = [state |-> "running", committed |-> FALSE,
                     defn |-> Selected.defn],
            !.status = "waiting"])
    /\ UNCHANGED <<current, entries, routine, stray, inputs, begun, spent, passed>>

(* A report may concern a goal that was cleared.  A committed result stays; *)
(* the last required result lets a waiting goal work again.                 *)
ReportJob(i, state, withResult) ==
    /\ Yielded /\ goals[i].job # None /\ ~goals[i].job.committed
    /\ state = "passed" => withResult
    /\ LET g == goals[i]
           done == state = "passed" /\ g.status = "waiting" /\ ~InFlight(g)
       IN Save(i, [g EXCEPT
              !.job.state = state,
              !.job.committed = withResult /\ state \in {"passed", "failed"},
              !.status = IF ~done THEN @
                         ELSE IF Exhausted(g, 0, 1) THEN "budget_exhausted" ELSE "working"])
    /\ UNCHANGED <<current, entries, routine, stray, inputs, begun, spent, passed>>

ReportFailure(exhausts) ==
    /\ Yielded /\ current # 0
    /\ Save(current, [Selected EXCEPT
            !.status = IF @ \in {"paused", "cancelled", "completed"} THEN @
                       ELSE IF exhausts THEN "budget_exhausted" ELSE "blocked"])
    /\ UNCHANGED <<current, entries, routine, stray, inputs, begun, spent, passed>>

-----------------------------------------------------------------------------
(* The process dies and the session is opened again: running messages are  *)
(* interrupted, then recover_goal_evaluations runs.                        *)
Recovered(g) ==
    IF g.evaluating /\ g.uncertain = 0
    THEN [g EXCEPT !.uncertain = 1, !.status = IF @ = "waiting" THEN "blocked" ELSE @]
    ELSE g

Reopened(stalls) ==
    [i \in DOMAIN goals |->
        Recovered(IF goals[i].held # 0 /\ entries[goals[i].held].status = "running"
                  THEN Interrupted(goals[i], stalls) ELSE goals[i])]

Interrupts(unknown) ==
    /\ entries' = [m \in DOMAIN entries |->
          IF entries[m].status = "running" THEN [entries[m] EXCEPT !.status = "ended"]
          ELSE entries[m]]
    /\ spent' = spent + (IF Busy THEN Reserve ELSE 0)
                      + (IF routine.at = "await" THEN Reserve ELSE 0) + unknown
    /\ routine' = Idle /\ stray' = FALSE
    /\ UNCHANGED <<current, inputs, begun, passed>>

Restart(stalls) == goals' = Reopened(stalls) /\ Interrupts(0)

(* The workspace or the inputs change. *)
InputsChange ==
    /\ inputs' \in Inputs \ {inputs}
    /\ UNCHANGED <<goals, current, entries, routine, stray, begun, spent, passed>>

Steer == \/ \E d \in Definitions : CreateGoal(d) \/ EditGoal(d)
         \/ Resume

Stop == Pause \/ Cancel \/ Clear

LastCheckin ==
    IF \E i \in DOMAIN goals : goals[i].job # None /\ goals[i].job.state = "running"
    THEN BOOLEAN ELSE {FALSE}

(* An observation has the same effect whatever makes it stale, so good     *)
(* ones of another definition stand for the stale ones.                    *)
Offered ==
    IF current = 0 THEN {}
    ELSE {None, AdapterError}
           \cup {o \in Observations : /\ o.inputs = inputs
                                      /\ o.good \/ o.defn = Selected.defn}

(* What the controller refuses while it is busy. *)
AtBoundary(Checkins) ==
    \/ \E m \in DOMAIN entries : Dispatch(m)
    \/ \E obs \in Offered, last \in Checkins, stalls \in BOOLEAN :
         CheckGoal(obs, last, stalls) \/ Evaluate(obs, last, stalls)
    \/ Reconcile

Proceed ==
    \/ Submit
    \/ \E m \in DOMAIN entries, stalls \in BOOLEAN :
         \/ \E used \in 0..Reserve : TurnCompletes(m, used, stalls)
         \/ TurnFails(m, stalls)
    \/ \E verdict \in {"passed", "failed", "blocked"}, used \in 0..Reserve :
         EvaluatorAnswers(verdict, used)
    \/ \E stalls \in BOOLEAN : ApplyVerdict(stalls)
    \/ \E runsOn \in BOOLEAN : EvaluatorFails(runsOn)
    \/ StrayEnds
    \/ RegisterJob
    \/ \E exhausts \in BOOLEAN : ReportFailure(exhausts)
    \/ InputsChange

Reports(i) == \E withResult \in BOOLEAN, state \in {"running", "passed", "failed"} :
                 ReportJob(i, state, withResult)

Next == \/ Steer \/ Stop \/ AtBoundary(LastCheckin) \/ Proceed
        \/ \E i \in DOMAIN goals : Reports(i)
        \/ \E stalls \in BOOLEAN : Restart(stalls)

Spec == Init /\ [][Next]_vars

-----------------------------------------------------------------------------
(* Properties.                                                             *)

(* conversation_goal.py:281 and conversation_goal_controller.py:218: stop  *)
(* states never reopen, and a cancelled goal cannot resume.                *)
CancelledStays ==
    [][\A i \in DOMAIN goals :
         goals[i].status = "cancelled" => goals'[i].status = "cancelled"]_vars
=============================================================================
