--------------------------- MODULE ChildController ---------------------------
(***************************************************************************)
(* The implementation children of a goal, beside its turns and             *)
(* evaluations: conversation_local_child_controller (a child that only     *)
(* reads and reports) and conversation_coding_controller (one whose patch  *)
(* is staged and, after a second approval, integrated into the user's      *)
(* repository by the broker of run/coding_vcs).                            *)
(*                                                                         *)
(* A session runs one child at a time, as one task with several awaits.    *)
(* Pausing, cancelling or clearing the goal cancels that task; what the    *)
(* broker does on its own thread may still happen.                         *)
(*                                                                         *)
(* Kept: every save, status and recheck.  Abstracted: a child and its      *)
(* integration are the goal's one required job, as bad as the worse of the *)
(* two, so a child needs a goal without unsettled jobs; approvals, recipe, *)
(* workspace and patch are a free choice at every recheck; a report of a   *)
(* child, and its use as a wakeup, are left out.  A child ends long before *)
(* the last check-in of its own job (10 s of at least 70).                 *)
(***************************************************************************)
EXTENDS GoalController

CONSTANT MaxChildren

ASSUME ChildAssumption == MaxChildren \in Nat

VARIABLES
    children,   \* state.local_children
    task,       \* the task of the running child, and whether it was cancelled
    staged,     \* stages the broker of this process has not consumed
    merged      \* how often the patch of each child was merged

childVars == <<children, task, staged, merged>>
allVars == <<vars, childVars>>

Records == [goal : 1..MaxGoals, defn : Definitions, coding : BOOLEAN,
            state : {"running", "completed", "cancelled", "uncertain"},
            handoff : {"none", "passed", "failed"},
            integration : {"pending", "integrating", "integrated", "uncertain"}]

NoTask == [at |-> "none", child |-> 0, cancelled |-> FALSE]

ChildTypeOK ==
    /\ GoalTypeOK
    /\ children \in Seq(Records) /\ Len(children) <= MaxChildren
    /\ task \in [at : {"none", "executing", "staging", "verifying", "merging", "confirming"},
                 child : 0..MaxChildren, cancelled : BOOLEAN]
    /\ staged \subseteq 1..MaxChildren
    /\ merged \in [1..MaxChildren -> Nat]

Coding == task.at # "none" /\ children[task.child].coding     \* holds _busy
Implementing == task.at \in {"executing", "staging"}
ChildrenOf(i) == {c \in DOMAIN children : children[c].goal = i}

-----------------------------------------------------------------------------
(* Records, and what they make of their goal.                              *)

Unknown(rec) == rec.state \in {"cancelled", "uncertain"} \/ rec.integration = "uncertain"
Done(rec) == rec.state = "completed" /\ (rec.coding => rec.integration = "integrated")

JobState(rec, before) ==
    CASE Unknown(rec) \/ rec.handoff = "failed" -> "failed"
      [] Done(rec) -> "passed"
      [] OTHER -> IF before = "stuck" THEN "stuck" ELSE "running"

(* The job follows the record; an unknown outcome counts once and stops a  *)
(* goal that was going on.                                                 *)
Reflected(g, rec) ==
    LET f == IF Unknown(rec) THEN Doubted(g) ELSE g IN
    [f EXCEPT !.job.state = JobState(rec, @),
              !.status = IF Unknown(rec) /\ @ \in {"working", "waiting"} THEN "paused" ELSE @]

Finish(c, rec) ==
    /\ children' = [children EXCEPT ![c] = rec]
    /\ Save(rec.goal, Reflected(goals[rec.goal], rec))
    /\ task' = NoTask

InDoubt(rec, cancelled) ==
    IF rec.state # "running" THEN [rec EXCEPT !.integration = "uncertain"]
    ELSE [rec EXCEPT !.state = IF cancelled THEN "cancelled" ELSE "uncertain"]

(* _require_current: ok stands for approvals, workspace and recipe. *)
Current(c, ok, statuses) ==
    /\ ok /\ current = children[c].goal
    /\ Selected.defn = children[c].defn
    /\ Selected.status \in statuses
    /\ ~Exhausted(Selected, 0, 0)

-----------------------------------------------------------------------------
(* Admission: the reservation, the record and the running job are one save, *)
(* and approvals are compared again after it.                              *)

NoUnsettledJob(g) == g.job # None => g.job.state = "passed" /\ g.job.defn = g.defn

Admissible(coding) ==
    /\ Yielded /\ current # 0 /\ Selected.status = "working"
    /\ ~Busy /\ ~Coding /\ ~InFlight(Selected)
    /\ Len(children) < MaxChildren
    /\ \A c \in DOMAIN children : children[c].state = "completed"
    /\ coding => /\ \A m \in DOMAIN entries : entries[m].status = "ended"
                 /\ \A c \in DOMAIN children :
                      children[c].integration \notin {"integrating", "uncertain"}
    /\ ~Exhausted(Selected, Reserve, 1)
    /\ NoUnsettledJob(Selected)

RunChild(coding, ok) ==
    /\ Admissible(coding)
    /\ LET rec == [goal |-> current, defn |-> Selected.defn, coding |-> coding,
                   state |-> "running", handoff |-> "none", integration |-> "pending"]
           g == [Charged(Selected) EXCEPT
                    !.job = [state |-> "running", committed |-> FALSE, defn |-> Selected.defn]]
       IN IF ok
          THEN /\ children' = Append(children, rec)
               /\ Save(current, g)
               /\ task' = [NoTask EXCEPT !.at = "executing", !.child = Len(children) + 1]
          ELSE /\ children' = Append(children, InDoubt(rec, FALSE))
               /\ Save(current, Reflected(g, InDoubt(rec, FALSE)))
               /\ task' = NoTask
    /\ begun' = IF ok THEN begun + 1 ELSE begun
    /\ UNCHANGED <<current, entries, routine, stray, inputs, spent, passed, staged, merged>>

-----------------------------------------------------------------------------
(* The task goes on after an await; a cancelled one ends there.            *)

Resumed(at) == Yielded /\ task.at = at

Ends(rec) ==
    /\ Finish(task.child, rec)
    /\ spent' = spent + (IF Implementing THEN Reserve ELSE 0)
    /\ UNCHANGED <<current, entries, routine, stray, inputs, begun, passed, staged, merged>>

Advances(at) ==
    /\ task' = [task EXCEPT !.at = at]
    /\ UNCHANGED <<vars, children>>

(* The executor answers: a reading child is done when its goal is still    *)
(* the selected one; a coding child goes on to be staged.                  *)
ReportCurrent(c, ok) ==
    ok /\ current = children[c].goal /\ Selected.defn = children[c].defn

ExecutorReturns(ok) ==
    /\ Resumed("executing") /\ ~task.cancelled
    /\ LET rec == children[task.child] IN
       IF ~rec.coding
       THEN Ends(IF ReportCurrent(task.child, ok)
                 THEN [rec EXCEPT !.state = "completed"] ELSE InDoubt(rec, FALSE))
       ELSE IF Current(task.child, ok, {"working"})
            THEN Advances("staging") /\ UNCHANGED <<staged, merged>>
            ELSE Ends(InDoubt(rec, FALSE))

(* The broker stages the patch; whether the creator's tests passed is kept *)
(* with it.                                                                *)
BrokerStages ==
    /\ task.at = "staging" /\ task.child \notin staged
    /\ staged' = staged \cup {task.child}
    /\ UNCHANGED <<vars, children, task, merged>>

StageReturns(ok, tests) ==
    /\ Resumed("staging") /\ ~task.cancelled
    /\ ok => task.child \in staged
    /\ LET rec == children[task.child] IN
       Ends(IF Current(task.child, ok, {"working"})
            THEN [rec EXCEPT !.state = "completed", !.handoff = tests] ELSE InDoubt(rec, FALSE))

(* integrate_coding_child up to its first await. *)
Integrable(c) ==
    /\ Yielded /\ task.at = "none" /\ current # 0
    /\ children[c].coding /\ children[c].state = "completed"
    /\ children[c].handoff = "passed" /\ children[c].integration = "pending"
    /\ \A m \in DOMAIN entries : entries[m].status = "ended"
    /\ ~InFlight(Selected)
    /\ Current(c, TRUE, {"working", "waiting"})
    /\ Selected.job.state \notin {"failed", "stuck"}
    /\ ~Exhausted(Selected, 0, 1)

Integrate(c) ==
    /\ Integrable(c)
    /\ children' = [children EXCEPT ![c].integration = "integrating"]
    /\ Save(current, [Selected EXCEPT !.attempts = @ + 1])
    /\ task' = [NoTask EXCEPT !.at = "verifying", !.child = c]
    /\ begun' = begun + 1
    /\ UNCHANGED <<current, entries, routine, stray, inputs, spent, passed, staged, merged>>

VerifierReturns(ok) ==
    /\ Resumed("verifying") /\ ~task.cancelled
    /\ IF Current(task.child, ok, {"working", "waiting"})
       THEN Advances("merging") /\ UNCHANGED <<staged, merged>>
       ELSE Ends(InDoubt(children[task.child], FALSE))

(* The broker consumes its stage and merges, or fails before the merge. *)
BrokerMerges(merges) ==
    /\ task.at = "merging" /\ task.child \in staged
    /\ staged' = staged \ {task.child}
    /\ merged' = IF merges THEN [merged EXCEPT ![task.child] = @ + 1] ELSE merged
    /\ UNCHANGED <<vars, children, task>>

(* The commit is known (and saved in the record) or the answer was lost. *)
MergeReturns(ok) ==
    /\ Resumed("merging") /\ ~task.cancelled
    /\ ok => task.child \notin staged /\ merged[task.child] > 0
    /\ IF ok THEN Advances("confirming") /\ UNCHANGED <<staged, merged>>
       ELSE Ends(InDoubt(children[task.child], FALSE))

(* The integrated tree was read back and verified in a fresh container. *)
ConfirmReturns(ok) ==
    /\ Resumed("confirming") /\ ~task.cancelled
    /\ LET rec == children[task.child] IN
       Ends(IF ok THEN [rec EXCEPT !.integration = "integrated"] ELSE InDoubt(rec, FALSE))

Cancelled ==
    /\ Yielded /\ task.at # "none" /\ task.cancelled
    /\ Ends(InDoubt(children[task.child], TRUE))

-----------------------------------------------------------------------------
(* What stops a child: /goal, the end of the terminal, and the process.    *)

CancelTask ==
    /\ task' = IF task.at = "none" THEN task ELSE [task EXCEPT !.cancelled = TRUE]
    /\ UNCHANGED <<children, staged, merged>>

StopChild == task.at # "none" /\ ~task.cancelled /\ CancelTask /\ UNCHANGED vars

(* recover_local_children, after the recovery of the goals: what was        *)
(* running or integrating is in doubt.                                     *)
(* mutant: only a child that was running is *)
LeftRunning(rec) == rec.state = "running"

LeftOpen(rec) == rec.state = "running" \/ rec.integration = "integrating"

Recovering(gs, c) == [gs EXCEPT ![children[c].goal] = Reflected(@, InDoubt(children[c], FALSE))]

RestartSession(stalls) ==
    /\ children' = [c \in DOMAIN children |->
          IF LeftOpen(children[c]) THEN InDoubt(children[c], FALSE) ELSE children[c]]
    /\ goals' = IF \E c \in DOMAIN children : LeftOpen(children[c])
                THEN Recovering(Reopened(stalls), CHOOSE c \in DOMAIN children : LeftOpen(children[c]))
                ELSE Reopened(stalls)
    /\ Interrupts(IF Implementing THEN Reserve ELSE 0)
    /\ task' = NoTask /\ staged' = {}
    /\ UNCHANGED merged

ChildInit ==
    /\ Init
    /\ children = <<>> /\ task = NoTask
    /\ staged = {} /\ merged = [c \in 1..MaxChildren |-> 0]

Checkins == IF task.at = "none" THEN LastCheckin ELSE {FALSE}

GoalSteps ==
    \/ Stop /\ CancelTask
    \/ AtBoundary(Checkins) /\ ~Coding /\ UNCHANGED childVars
    \/ (Steer \/ Proceed) /\ UNCHANGED childVars
    \/ \E i \in DOMAIN goals : ChildrenOf(i) = {} /\ Reports(i) /\ UNCHANGED childVars

ChildSteps ==
    \/ \E c \in DOMAIN children : Integrate(c)
    \/ \E ok \in BOOLEAN :
         \/ \E coding \in BOOLEAN : RunChild(coding, ok)
         \/ \E tests \in {"passed", "failed"} : StageReturns(ok, tests)
         \/ ExecutorReturns(ok) \/ VerifierReturns(ok)
         \/ MergeReturns(ok) \/ ConfirmReturns(ok)
    \/ BrokerStages
    \/ \E merges \in BOOLEAN : BrokerMerges(merges)
    \/ Cancelled \/ StopChild

ChildNext == GoalSteps \/ ChildSteps \/ \E stalls \in BOOLEAN : RestartSession(stalls)

ChildSpec == ChildInit /\ [][ChildNext]_allVars

-----------------------------------------------------------------------------
(* Properties.                                                             *)

(* Whatever is cleared, replaced, edited, interrupted or answered late,    *)
(* the ledgers of the session cover every operation it ever started: each  *)
(* ended one by what it used, each unanswered one by its reservation, each *)
(* running one by its reservation; a child's reservation is never given    *)
(* back, and its integration is an attempt of its own.  A replacement goal *)
(* inherits the total (merge_ledger in create_goal), so no refund may      *)
(* reach a goal that was already replaced.                                 *)
RunningNow == Cardinality({m \in DOMAIN entries : entries[m].status = "running"})
                + (IF routine.at = "await" THEN 1 ELSE 0)
                + (IF Implementing THEN 1 ELSE 0)

Chargeable == IF current # 0 THEN {Selected} ELSE {goals[i] : i \in DOMAIN goals}

ChargesCover ==
    goals # <<>> =>
      /\ \E g \in Chargeable : g.attempts >= begun
      /\ \E g \in Chargeable : g.output >= spent + Reserve * RunningNow

(* At most one turn or evaluation of the session is unresolved.  One that  *)
(* nobody is running any more, and every child whose outcome is unknown,   *)
(* counts as an uncertain effect of its goal: at least once through        *)
(* clears, edits, late answers and restarts, and exactly once in the first *)
(* goal, which inherits none.  A goal with uncertain effects is stopped:   *)
(* that is what keeps dispatch, children and the evaluator from repeating  *)
(* work that may have happened.                                            *)
Unattended(i) ==
    \/ goals[i].held # 0 /\ entries[goals[i].held].status # "running"
    \/ goals[i].evaluating /\ ~(routine.at = "await" /\ routine.goal = i)

Doubts(i) == Cardinality({c \in ChildrenOf(i) : Unknown(children[c])})
               + (IF Unattended(i) THEN 1 ELSE 0)

OperationsHeld ==
    /\ Cardinality({i \in DOMAIN goals : InFlight(goals[i])}) <= 1
    /\ \A i \in DOMAIN goals :
         /\ ~(goals[i].held # 0 /\ goals[i].evaluating)
         /\ goals[i].uncertain >= Doubts(i)
         /\ i = 1 => goals[i].uncertain = Doubts(i)
         /\ goals[i].uncertain > 0 => goals[i].status \notin {"working", "waiting"}

(* A patch reaches the user's repository at most once, only after the      *)
(* creator's tests passed and the integration was recorded as begun; it is *)
(* called integrated only if it is there; and a record says "running" or   *)
(* "integrating" exactly while its task is alive, so that a death in       *)
(* between cannot leave a merge nobody accounts for.                       *)
PatchesHeld ==
    \A c \in DOMAIN children :
      LET rec == children[c] IN
      /\ merged[c] <= 1
      /\ merged[c] = 1 => rec.handoff = "passed" /\ rec.integration # "pending"
      /\ rec.integration = "integrated" => merged[c] = 1
      /\ rec.state = "running" \/ rec.integration = "integrating"
           <=> task.at # "none" /\ task.child = c

UnresolvedHeld == OperationsHeld /\ PatchesHeld

(* A goal completes only on an observation of the current definition and   *)
(* of the inputs as they are now, which the evaluator itself found to      *)
(* pass for this goal, with no required job, reservation or uncertain      *)
(* effect left and every patch of its children merged and confirmed; and   *)
(* no late verdict, report, child, turn or restart makes a paused,         *)
(* cancelled, cleared or completed goal work again: only the user's resume *)
(* of a paused one does.                                                   *)
Completes(i) ==
    LET g == goals'[i] IN
    /\ g.evidence # None /\ g.evidence.obs.good
    /\ g.evidence.obs.defn = g.defn /\ g.evidence.obs.inputs = inputs
    /\ passed[i] = g.evidence.obs
    /\ ~Unresolved(g) /\ ~InFlight(g) /\ g.uncertain = 0
    /\ \A c \in ChildrenOf(i) : Done(children'[c]) /\ (children[c].coding => merged[c] = 1)

LateResultsHeld ==
    [][\A i \in DOMAIN goals :
        /\ goals[i].status # "completed" /\ goals'[i].status = "completed" => Completes(i)
        /\ /\ goals[i].status \in {"paused", "cancelled", "completed"} \/ i # current
           /\ goals'[i].status \in {"working", "waiting"}
           => goals[i].status = "paused" /\ i = current /\ Resume]_allVars
=============================================================================
