----------------------- MODULE ConversationController -----------------------
(***************************************************************************)
(* One saved conversation, conversation.py with the side questions and      *)
(* forks of conversation_branch_controller.py and the operation journal of  *)
(* conversation_recovery.py.  The controller is one object on one event     *)
(* loop; it holds the session's lock file, so there is one at a time.       *)
(* Messages, sides and forks are appended to a session record that is saved *)
(* before and after every operation.  mem is the controller's state, disk   *)
(* the saved record.  Control passes to another task only at an await: a    *)
(* turn awaits the Git scope of a review, then the provider or reviewers; a *)
(* side question awaits its own provider.  A save may fail before or after  *)
(* the new record is in place; the process may end anywhere.                *)
(*                                                                         *)
(* Goals, schedules and local children, whose records ride in the same      *)
(* session, and the byte columns of the branch budget are not here.         *)
(***************************************************************************)
EXTENDS Naturals, Sequences, FiniteSets

CONSTANTS Kinds,                             \* chat, review, git: a review with a Git scope
          MaxEntries, MaxSides, MaxForks,    \* 16, 16 and 8 in the code
          Exchanges,                         \* len(cassette.exchanges)
          Attempts                           \* ceiling.attempts of a new branch budget
ASSUME SessionAssumption ==
  /\ "chat" \in Kinds /\ Kinds \subseteq {"chat", "review", "git"}
  /\ {MaxEntries, MaxSides, MaxForks, Exchanges, Attempts} \subseteq Nat

VARIABLES mem, disk,     \* the session record in memory and saved
          alive, broken, \* is there a controller; _broken
          recovering,    \* the part of __init__ that recovers is not done
          turn,          \* the task of step()
          side,          \* the task of ask_side()
          provider,      \* _side_provider_task is not done
          answers,       \* _side_answers
          pending,       \* the second half of attach_side or create_fork
          sent,          \* calls made, each with its exchange: the outside world
          children       \* the saved sessions of forks

vars == <<mem, disk, alive, broken, recovering, turn, side, provider, answers, pending,
          sent, children>>

Turns == {<<"turn", i>> : i \in 1..MaxEntries}
Sides == {<<"side", j>> : j \in 1..MaxSides}
Forks == {<<"fork", f>> : f \in 1..MaxForks}
Operations == Turns \cup Sides \cup Forks

None == 0                                 \* no exchange, no steering target
Exchange == 1..Exchanges
Terminal == {"completed", "failed", "cancelled", "interrupted"}
Entry == [kind : Kinds, status : {"queued", "running"} \cup Terminal,
          steering : 0..MaxEntries, attached : 0..MaxSides,
          exchange : {None} \cup Exchange, result : BOOLEAN]
SideReceipt == [state : {"running", "completed", "cancelled", "uncertain", "reconciled"},
                exchange : Exchange, marked : BOOLEAN]
BranchBudget == [on : BOOLEAN, attempts : Nat, uncertain : Nat, pending : SUBSET Operations]
Phases == {<<>>, <<"dispatch">>, <<"dispatch", "completed">>, <<"dispatch", "uncertain">>}
SessionRecord ==
  [entries : Seq(Entry), sides : Seq(SideReceipt), forks : Seq({"reserved", "published", "uncertain"}),
   consumed : 0..Exchanges, budget : BranchBudget, journal : [Operations -> Phases]]
NoBudget == [on |-> FALSE, attempts |-> 0, uncertain |-> 0, pending |-> {}]

Idle == [at |-> "idle", entry |-> 0, exchange |-> None]
NoPending == [what |-> "nothing", id |-> 0]

Init ==
  /\ disk = [entries |-> <<>>, sides |-> <<>>, forks |-> <<>>, consumed |-> 0,
             budget |-> NoBudget, journal |-> [k \in Operations |-> <<>>]]
  /\ mem = disk /\ alive = TRUE /\ broken = FALSE /\ recovering = FALSE
  /\ turn = Idle /\ side = Idle /\ provider = FALSE /\ answers = {}
  /\ pending = NoPending /\ sent = [k \in Operations |-> <<>>] /\ children = {}

SessionTypeOK ==
  /\ \A s \in {mem, disk} :
       /\ s \in SessionRecord
       /\ Len(s.entries) <= MaxEntries /\ Len(s.sides) <= MaxSides /\ Len(s.forks) <= MaxForks
  /\ {alive, broken, recovering, provider} \subseteq BOOLEAN
  /\ turn \in [at : {"idle", "scope", "admitted", "sent"}, entry : 0..MaxEntries,
               exchange : {None} \cup Exchange]
  /\ side \in [at : {"idle", "admitted", "sent"}, entry : 0..MaxSides,
               exchange : {None} \cup Exchange]
  /\ answers \subseteq 1..MaxSides /\ children \subseteq 1..MaxForks
  /\ pending \in [what : {"nothing", "attach", "publish", "published", "unpublished"},
                  id : 0..MaxSides + MaxForks]

---------------------------------------------------------------------------
\* An operation is open from its dispatch to its outcome.
Open(s, k) == \/ k[1] = "turn" /\ k[2] <= Len(s.entries) /\ s.entries[k[2]].status = "running"
              \/ k[1] = "side" /\ k[2] <= Len(s.sides) /\ s.sides[k[2]].state = "running"
              \/ k[1] = "fork" /\ k[2] <= Len(s.forks) /\ s.forks[k[2]] = "reserved"
Succeeded(s, k) == \/ k[1] = "turn" /\ s.entries[k[2]].result
                   \/ k[1] = "side" /\ s.sides[k[2]].state = "completed"
                   \/ k[1] = "fork" /\ s.forks[k[2]] = "published"

ClosesSuccesses(before, after) ==          \* mutant: an operation without result stays open
  [k \in Operations |->
     IF Open(after, k) /\ ~Open(before, k) THEN Append(before.journal[k], "dispatch")
     ELSE IF Open(before, k) /\ ~Open(after, k) /\ Succeeded(after, k)
     THEN Append(before.journal[k], "completed")
     ELSE before.journal[k]]
\* The events a change adds to the journal: a dispatch, and one close of it.
TransitionJournal(before, after) ==
  [k \in Operations |->
     LET events == before.journal[k] IN
     IF Open(after, k) /\ ~Open(before, k) THEN Append(events, "dispatch")
     ELSE IF Open(before, k) /\ ~Open(after, k) /\ events = <<"dispatch">>
     THEN Append(events, IF Succeeded(after, k) THEN "completed" ELSE "uncertain")
     ELSE events]

\* _commit: the journal and the change are saved together; a save that fails,
\* even after the record is in place, leaves the controller unusable.
Saved(s) == LET new == [s EXCEPT !.journal = TransitionJournal(mem, s)] IN
  ~broken /\ mem' = new /\ disk' = new /\ UNCHANGED broken
Unsaved(s) == LET new == [s EXCEPT !.journal = TransitionJournal(mem, s)] IN
  ~broken /\ broken' = TRUE /\ disk' \in {disk, new} /\ UNCHANGED mem
Refuses == broken /\ UNCHANGED <<mem, disk, broken>>
Usable == alive /\ ~recovering /\ pending = NoPending

---------------------------------------------------------------------------
\* Branch accounting.
Reserve(b, k) == [b EXCEPT !.attempts = @ + 1, !.pending = @ \cup {k}]
Reservable(b) == b.uncertain = 0 /\ b.attempts < Attempts
SettleUsage(b, k) == [b EXCEPT !.pending = @ \ {k}]
SettleUncertain(b) == [b EXCEPT !.uncertain = @ + 1]

\* _branch_budget: a session without one starts from what it already did.
CurrentBudget(s) ==
  LET admitted == {i \in 1..Len(s.entries) : s.entries[i].exchange # None}
      with(status) == {i \in admitted : s.entries[i].status \in status} IN
  IF s.budget.on THEN s.budget
  ELSE [on |-> TRUE, attempts |-> s.consumed,
        uncertain |-> Cardinality(with({"failed", "cancelled", "interrupted"})),
        pending |-> {<<"turn", i>> : i \in with({"running"})}]

ReleasesExposure(i, status, result, exchange) ==  \* mutant: a failed turn gives its hold back
  LET was == mem.entries[i].status
      k == <<"turn", i>>
  IN [mem EXCEPT !.entries[i] = [@ EXCEPT !.status = status, !.result = result,
                                          !.exchange = exchange],
                 !.budget = IF ~mem.budget.on \/ mem.entries[i].kind # "chat" THEN @
                            ELSE IF was = "queued" /\ status = "running" THEN Reserve(@, k)
                            ELSE IF was = "running" THEN SettleUsage(@, k) ELSE @]
\* replace(), with _branch_transitions: whatever the entry has become meanwhile.
Replaced(i, status, result, exchange) ==
  LET was == mem.entries[i].status
      k == <<"turn", i>>
      budget == IF ~mem.budget.on \/ mem.entries[i].kind # "chat" THEN mem.budget
                ELSE IF was = "queued" /\ status = "running" THEN Reserve(mem.budget, k)
                ELSE IF was = "running" /\ status = "completed" THEN SettleUsage(mem.budget, k)
                ELSE IF was = "running" THEN SettleUncertain(mem.budget)
                ELSE mem.budget
  IN [mem EXCEPT !.entries[i] = [@ EXCEPT !.status = status, !.result = result,
                                          !.exchange = exchange],
                 !.budget = budget]

ActiveChat == {i \in 1..Len(mem.entries) :
                 mem.entries[i].status = "running" /\ mem.entries[i].kind = "chat"}
NewEntry(kind, attached) ==
  [kind |-> kind, status |-> "queued",
   steering |-> IF kind = "chat" /\ ActiveChat # {} THEN CHOOSE i \in ActiveChat : TRUE ELSE None,
   attached |-> attached, exchange |-> None, result |-> FALSE]
WithEntry(e) == [mem EXCEPT !.entries = Append(@, e)]

Submit(kind) ==
  /\ Usable /\ Len(mem.entries) < MaxEntries
  /\ LET s == WithEntry(NewEntry(kind, 0)) IN Saved(s) \/ Unsaved(s)
  /\ UNCHANGED <<alive, recovering, turn, side, provider, answers, pending, sent, children>>

CancelWithoutWaiting ==                    \* mutant: the turn is not awaited
  /\ Usable /\ \E i \in 1..Len(mem.entries) : mem.entries[i].status = "queued"
  /\ LET s == [mem EXCEPT !.entries = [i \in DOMAIN @ |->
                 IF @[i].status = "queued" THEN [@[i] EXCEPT !.status = "cancelled"] ELSE @[i]]]
     IN Saved(s) \/ Unsaved(s)
  /\ UNCHANGED <<alive, recovering, turn, side, provider, answers, pending, sent, children>>
\* /stop awaits the tasks it cancels before it cancels the queue.
CancelQueued ==
  /\ Usable /\ turn = Idle /\ side = Idle
  /\ \E i \in 1..Len(mem.entries) : mem.entries[i].status = "queued"
  /\ LET s == [mem EXCEPT !.entries = [i \in DOMAIN @ |->
                 IF @[i].status = "queued" THEN [@[i] EXCEPT !.status = "cancelled"] ELSE @[i]]]
     IN Saved(s) \/ Unsaved(s)
  /\ UNCHANGED <<alive, recovering, turn, side, provider, answers, pending, sent, children>>

---------------------------------------------------------------------------
\* step(): select, check the Git scope, persist the dispatch, call, persist the outcome.
Queued == {i \in 1..Len(mem.entries) : mem.entries[i].status = "queued"}
First == CHOOSE i \in Queued : \A j \in Queued : i <= j
CanDispatch == ~mem.budget.on \/ Reservable(mem.budget)
Selects == Usable /\ turn = Idle /\ Queued # {} /\ CanDispatch

CheckScope ==
  /\ Selects /\ mem.entries[First].kind = "git"
  /\ turn' = [at |-> "scope", entry |-> First, exchange |-> None]
  /\ UNCHANGED <<mem, disk, alive, broken, recovering, side, provider, answers, pending,
                 sent, children>>

ScopeChanged ==
  /\ Usable /\ turn.at = "scope" /\ turn' = Idle
  /\ UNCHANGED <<mem, disk, alive, broken, recovering, side, provider, answers, pending,
                 sent, children>>

Dispatch(i) ==
  LET chat == mem.entries[i].kind = "chat"
      exchange == IF chat THEN mem.consumed + 1 ELSE None
      s == [Replaced(i, "running", FALSE, exchange) EXCEPT
              !.consumed = IF chat THEN @ + 1 ELSE @]
  IN /\ chat => mem.consumed < Exchanges
     /\ \/ Saved(s) /\ turn' = [at |-> "admitted", entry |-> i, exchange |-> exchange]
        \/ (Unsaved(s) \/ Refuses) /\ turn' = Idle
     /\ UNCHANGED <<alive, recovering, side, provider, answers, pending, sent, children>>
Step ==
  \/ Selects /\ mem.entries[First].kind # "git" /\ Dispatch(First)
  \/ Usable /\ turn.at = "scope" /\ Dispatch(turn.entry)

Send ==
  /\ Usable /\ turn.at = "admitted"
  /\ turn' = [turn EXCEPT !.at = "sent"]
  /\ sent' = [sent EXCEPT ![<<"turn", turn.entry>>] = Append(@, turn.exchange)]
  /\ UNCHANGED <<mem, disk, alive, broken, recovering, side, provider, answers, pending, children>>

TurnEnds(status, result) ==
  /\ LET s == Replaced(turn.entry, status, result, turn.exchange) IN
     Saved(s) \/ Unsaved(s) \/ Refuses
  /\ turn' = Idle
  /\ UNCHANGED <<alive, recovering, side, provider, answers, pending, sent, children>>
\* A review that failed its policy keeps its result and is failed.
Complete ==
  /\ Usable /\ turn.at = "sent"
  /\ \/ TurnEnds("completed", TRUE)
     \/ mem.entries[turn.entry].kind # "chat" /\ TurnEnds("failed", TRUE)
Fail == Usable /\ turn.at \in {"admitted", "sent"} /\ TurnEnds("failed", FALSE)
CancelTurn ==
  \/ ScopeChanged
  \/ Usable /\ turn.at \in {"admitted", "sent"} /\ TurnEnds("cancelled", FALSE)

---------------------------------------------------------------------------
\* ask_side(): one question at a time, beside a turn.
AskSide ==
  LET j == Len(mem.sides) + 1
      budget == CurrentBudget(mem)
      s == [mem EXCEPT !.sides = Append(@, [state |-> "running", exchange |-> mem.consumed + 1,
                                            marked |-> FALSE]),
                       !.consumed = @ + 1, !.budget = Reserve(budget, <<"side", j>>)]
  IN /\ Usable /\ side = Idle /\ j <= MaxSides /\ mem.consumed < Exchanges /\ Reservable(budget)
     /\ \/ Saved(s) /\ side' = [at |-> "admitted", entry |-> j, exchange |-> mem.consumed + 1]
        \/ Unsaved(s) /\ UNCHANGED side
     /\ UNCHANGED <<alive, recovering, turn, provider, answers, pending, sent, children>>

SendSide ==
  /\ Usable /\ side.at = "admitted"
  /\ side' = [side EXCEPT !.at = "sent"] /\ provider' = TRUE
  /\ sent' = [sent EXCEPT ![<<"side", side.entry>>] = Append(@, side.exchange)]
  /\ UNCHANGED <<mem, disk, alive, broken, recovering, turn, answers, pending, children>>

WithSide(j, state, budget) == [mem EXCEPT !.sides[j].state = state, !.budget = budget]
AnswerSide ==
  LET s == WithSide(side.entry, "completed", SettleUsage(CurrentBudget(mem), <<"side", side.entry>>))
  IN /\ Usable /\ side.at = "sent"
     /\ \/ Saved(s) /\ answers' = answers \cup {side.entry}
        \/ (Unsaved(s) \/ Refuses) /\ UNCHANGED answers
     /\ side' = Idle /\ provider' = FALSE
     /\ UNCHANGED <<alive, recovering, turn, pending, sent, children>>
SideAwaitsProvider(state) ==               \* mutant: the cancelled provider is awaited
  LET s == WithSide(side.entry, state, SettleUncertain(CurrentBudget(mem)))
  IN /\ Usable /\ side.at # "idle" /\ ~provider
     /\ Saved(s) \/ Unsaved(s) \/ Refuses
     /\ side' = Idle
     /\ UNCHANGED <<alive, recovering, turn, provider, answers, pending, sent, children>>
SideEnds(state) ==
  LET s == WithSide(side.entry, state, SettleUncertain(CurrentBudget(mem)))
  IN /\ Usable /\ side.at # "idle"
     /\ Saved(s) \/ Unsaved(s) \/ Refuses
     /\ side' = Idle
     /\ UNCHANGED <<alive, recovering, turn, provider, answers, pending, sent, children>>
\* Side timeout, provider error, /side cancel: the provider task may go on.
SideFails == SideEnds("uncertain")
CancelSide == SideEnds("cancelled")
ProviderEnds ==
  /\ Usable /\ provider /\ side = Idle /\ provider' = FALSE
  /\ UNCHANGED <<mem, disk, alive, broken, recovering, turn, side, answers, pending, sent, children>>

ReconcileSide(j) ==
  LET b == mem.budget
      s == WithSide(j, "reconciled", [SettleUsage(b, <<"side", j>>) EXCEPT
                                        !.uncertain = IF @ = 0 THEN 0 ELSE @ - 1])
  IN /\ Usable /\ side = Idle /\ ~provider
     /\ mem.sides[j].state \in {"cancelled", "uncertain"} /\ <<"side", j>> \in b.pending
     /\ Saved(s) \/ Unsaved(s)
     /\ UNCHANGED <<alive, recovering, turn, side, provider, answers, pending, sent, children>>

\* attach_side(): the message is saved first, the receipt is marked after it.
AttachSide(j) ==
  /\ Usable /\ j \in answers /\ mem.sides[j].state = "completed" /\ ~mem.sides[j].marked
  /\ Len(mem.entries) < MaxEntries
  /\ LET s == WithEntry(NewEntry("chat", j)) IN
     \/ Saved(s) /\ pending' = [what |-> "attach", id |-> j]
     \/ Unsaved(s) /\ UNCHANGED pending
  /\ UNCHANGED <<alive, recovering, turn, side, provider, answers, sent, children>>
MarkSide ==
  LET s == [mem EXCEPT !.sides[pending.id].marked = TRUE] IN
  /\ alive /\ pending.what = "attach"
  /\ \/ Saved(s) /\ answers' = answers \ {pending.id}
     \/ Unsaved(s) /\ UNCHANGED answers
  /\ pending' = NoPending
  /\ UNCHANGED <<alive, recovering, turn, side, provider, sent, children>>

---------------------------------------------------------------------------
\* create_fork(): the parent pays the allowance of one attempt before the
\* session of the fork exists.
CreateFork ==
  LET f == Len(mem.forks) + 1
      budget == CurrentBudget(mem)
      s == [mem EXCEPT !.forks = Append(@, "reserved"),
                       !.budget = [budget EXCEPT !.attempts = @ + 1]]
  IN /\ Usable /\ turn = Idle /\ side = Idle /\ f <= MaxForks
     /\ \E i \in 1..Len(mem.entries) :
          mem.entries[i].kind = "chat" /\ mem.entries[i].status = "completed"
     /\ mem.consumed + 1 <= Exchanges /\ Reservable(budget)
     /\ \/ Saved(s) /\ pending' = [what |-> "publish", id |-> f]
        \/ Unsaved(s) /\ UNCHANGED pending
     /\ UNCHANGED <<alive, recovering, turn, side, provider, answers, sent, children>>

\* The save of the child's session may also fail after the file is in place.
PublishFork ==
  /\ alive /\ pending.what = "publish"
  /\ \/ children' = children \cup {pending.id} /\ pending' = [pending EXCEPT !.what = "published"]
     \/ /\ children' \in {children, children \cup {pending.id}}
        /\ pending' = [pending EXCEPT !.what = "unpublished"]
  /\ UNCHANGED <<mem, disk, alive, broken, recovering, turn, side, provider, answers, sent>>
RecordFork ==
  /\ alive /\ pending.what \in {"published", "unpublished"}
  /\ LET s == [mem EXCEPT !.forks[pending.id] =
                 IF pending.what = "published" THEN "published" ELSE "uncertain"]
     IN Saved(s) \/ Unsaved(s)
  /\ pending' = NoPending
  /\ UNCHANGED <<alive, recovering, turn, side, provider, answers, sent, children>>

---------------------------------------------------------------------------
\* The process ends: a crash, /quit, an error nothing catches.
Exit ==
  /\ alive /\ alive' = FALSE /\ broken' = FALSE /\ recovering' = FALSE /\ mem' = disk
  /\ turn' = Idle /\ side' = Idle /\ provider' = FALSE /\ answers' = {} /\ pending' = NoPending
  /\ UNCHANGED <<disk, sent, children>>

Reopen ==
  /\ ~alive /\ alive' = TRUE /\ recovering' = TRUE
  /\ UNCHANGED <<mem, disk, broken, turn, side, provider, answers, pending, sent, children>>

\* __init__ closes what was open, one save for each kind of operation.
OpenAs(kind) == {k \in Operations : k[1] = kind /\ Open(mem, k)}
Requeued == [mem EXCEPT                    \* mutant: interrupted work is queued again
  !.entries = [i \in DOMAIN @ |-> IF @[i].status = "running"
                                  THEN [@[i] EXCEPT !.status = "queued"] ELSE @[i]]]
Interrupted == [mem EXCEPT
  !.entries = [i \in DOMAIN @ |-> IF @[i].status = "running"
                                  THEN [@[i] EXCEPT !.status = "interrupted"] ELSE @[i]],
  !.budget = IF \E i \in DOMAIN mem.entries : <<"turn", i>> \in OpenAs("turn")
                                              /\ mem.entries[i].kind = "chat" /\ mem.budget.on
             THEN SettleUncertain(@) ELSE @]
Abandoned == [mem EXCEPT
  !.sides = [j \in DOMAIN @ |-> IF @[j].state = "running"
                                THEN [@[j] EXCEPT !.state = "uncertain"] ELSE @[j]],
  !.budget = SettleUncertain(CurrentBudget(mem))]
Unconfirmed == [mem EXCEPT
  !.forks = [f \in DOMAIN @ |-> IF @[f] = "reserved" THEN "uncertain" ELSE @[f]]]
Recover ==
  /\ alive /\ recovering
  /\ IF OpenAs("turn") \cup OpenAs("side") \cup OpenAs("fork") = {}
     THEN recovering' = FALSE /\ UNCHANGED <<mem, disk, alive, broken>>
     ELSE LET s == IF OpenAs("turn") # {} THEN Interrupted
                   ELSE IF OpenAs("side") # {} THEN Abandoned ELSE Unconfirmed
          IN (Saved(s) \/ Unsaved(s)) /\ UNCHANGED <<alive, recovering>>
  /\ UNCHANGED <<turn, side, provider, answers, pending, sent, children>>

SessionNext ==
  \/ \E kind \in Kinds : Submit(kind)
  \/ CancelQueued \/ CheckScope \/ ScopeChanged \/ Step \/ Send \/ Complete \/ Fail \/ CancelTurn
  \/ AskSide \/ SendSide \/ AnswerSide \/ SideFails \/ CancelSide \/ ProviderEnds
  \/ \E j \in 1..Len(mem.sides) : ReconcileSide(j) \/ AttachSide(j)
  \/ MarkSide \/ CreateFork \/ PublishFork \/ RecordFork \/ Exit \/ Reopen \/ Recover

\* asyncio.wait times the side out; what does not await runs to its end.
Fairness == WF_vars(SideFails) /\ WF_vars(MarkSide \/ PublishFork \/ RecordFork)
SessionSpec == Init /\ [][SessionNext]_vars /\ Fairness

---------------------------------------------------------------------------
\* Operations whose effect is not known, and what each saved status means.
Admitted(s) == {i \in DOMAIN s.entries : s.entries[i].exchange # None}
Unresolved(s) ==
  {<<"turn", i>> : i \in {i \in Admitted(s) :
      s.entries[i].status \in {"failed", "cancelled", "interrupted"}}}
  \cup {<<"side", j>> : j \in {j \in DOMAIN s.sides : s.sides[j].state \in {"cancelled", "uncertain"}}}
OpenCharges(s) ==
  {<<"turn", i>> : i \in {i \in Admitted(s) : s.entries[i].status = "running"}}
  \cup {<<"side", j>> : j \in {j \in DOMAIN s.sides : s.sides[j].state = "running"}}
Unsent(s, k) ==
  \/ /\ k[1] = "turn"
     /\ \/ k[2] > Len(s.entries)
        \/ s.entries[k[2]].status = "queued"
        \/ /\ s.entries[k[2]].status = "cancelled"
           /\ s.entries[k[2]].kind = "chat" => s.entries[k[2]].exchange = None
  \/ k[1] = "side" /\ k[2] > Len(s.sides)
  \/ k[1] = "fork" /\ k[2] > Len(s.forks)

\* Across crashes, failed saves and reopenings no operation is sent twice, and
\* no two operations use the same recorded exchange (conversation.py:1633,
\* "resume never retries it").
NeverReplayed ==
  /\ \A k \in Operations : Len(sent[k]) <= 1
  /\ \A k, l \in Operations : sent[k] # <<>> /\ sent[k] = sent[l] /\ sent[k] # <<None>> => k = l

\* Whatever was sent or published is in the saved record first, with its
\* exchange consumed, and a saved success was really obtained.
WrittenAhead ==
  /\ \A k \in Operations : sent[k] # <<>> =>
       disk.journal[k] # <<>> /\ sent[k][1] <= disk.consumed
  /\ children \subseteq {f \in DOMAIN disk.forks : disk.budget.on}
  /\ \A i \in DOMAIN disk.entries : disk.entries[i].result => sent[<<"turn", i>>] # <<>>
  /\ \A j \in DOMAIN disk.sides : disk.sides[j].state = "completed" => sent[<<"side", j>>] # <<>>
  /\ \A f \in DOMAIN disk.forks : disk.forks[f] = "published" => f \in children

\* The journal of every saved record says of each operation what the record
\* says: nothing before its dispatch, open while it runs, completed with a
\* result, uncertain otherwise (docs/SESSION_RECOVERY.md, "Failures and continuation").
OutcomesAgree ==
  \A k \in Operations :
    \/ disk.journal[k] = <<>> /\ Unsent(disk, k)
    \/ disk.journal[k] = <<"dispatch">> /\ Open(disk, k)
    \/ /\ disk.journal[k] = <<"dispatch", "completed">>
       /\ ~Open(disk, k) /\ Succeeded(disk, k)
    \/ /\ disk.journal[k] = <<"dispatch", "uncertain">>
       /\ k[1] = "turn" => disk.entries[k[2]].status \in {"failed", "cancelled", "interrupted"}
       /\ ~Open(disk, k) /\ ~Succeeded(disk, k)

\* The saved record is ahead of what was done and its journal agrees with it.
RecordTrue == WrittenAhead /\ OutcomesAgree

\* conversation_state.py valid_progress accepts every record the controller
\* builds: a record it refused could never be reopened.
ValidatorAccepts ==
  \A s \in {mem, disk} :
    LET chats == {i \in DOMAIN s.entries : s.entries[i].kind = "chat"}
        started == {i \in chats : s.entries[i].status # "queued"}
        targets == {s.entries[i].steering : i \in DOMAIN s.entries}
        dispatched == {i \in started : s.entries[i].status # "cancelled"
                                       \/ i \in targets \/ i \in Admitted(s)}
        used == [k \in Admitted(s) |-> s.entries[k].exchange]
    IN /\ Cardinality(dispatched) + Len(s.sides) <= s.consumed
       /\ s.consumed <= Cardinality(started) + Len(s.sides)
       /\ Cardinality({i \in DOMAIN s.entries : s.entries[i].status = "running"}) <= 1
       /\ \A i \in DOMAIN s.entries : s.entries[i].steering # None =>
            /\ s.entries[i].steering < i
            /\ s.entries[i].steering \in started
       /\ \A i \in Admitted(s) :
            /\ used[i] <= s.consumed
            /\ \A l \in Admitted(s) : used[i] = used[l] => i = l
            /\ \A j \in DOMAIN s.sides : used[i] # s.sides[j].exchange
       /\ \A j, l \in DOMAIN s.sides : s.sides[j].exchange = s.sides[l].exchange => j = l

\* Once a session keeps a branch budget, it charges one attempt for every
\* exchange and fork, never above the ceiling, and what is unresolved stays
\* held and counted until it is reconciled.
ExposureAccounted ==
  \A s \in {mem, disk} : s.budget.on =>
    /\ s.budget.attempts = s.consumed + Len(s.forks) /\ s.budget.attempts <= Attempts
    /\ s.budget.uncertain = Cardinality(Unresolved(s))
    /\ s.budget.pending = OpenCharges(s) \cup Unresolved(s)

\* The record and its budget add up, in memory and on disk: its own validator
\* opens it again, and no unresolved attempt is forgotten.
RecordAddsUp == ValidatorAccepts /\ ExposureAccounted

\* A side answer enters the conversation once, though its message is saved
\* before its receipt is marked.
AttachedOnce ==
  \A i, l \in DOMAIN disk.entries :
    disk.entries[i].attached # 0 /\ disk.entries[i].attached = disk.entries[l].attached => i = l

\* Every operation reaches its provider once and every side answer its
\* conversation once, whatever ends, fails to save or is opened again.
SentOnce == NeverReplayed /\ AttachedOnce

\* No save, crash or late task changes an outcome that was saved: a cancelled
\* message never runs, an answer is never withdrawn, exchanges are not given
\* back, uncertainty ends by reconciliation alone.
OutcomesFinal ==
  [][/\ \A i \in DOMAIN disk.entries :
          /\ i \in DOMAIN disk'.entries
          /\ disk.entries[i].status \in Terminal => disk'.entries[i] = disk.entries[i]
          /\ disk.entries[i].status = "running" => disk'.entries[i].status # "queued"
     /\ \A j \in DOMAIN disk.sides :
          /\ disk.sides[j].state \in {"completed", "reconciled"} => disk'.sides[j].state = disk.sides[j].state
          /\ disk.sides[j].state \in {"cancelled", "uncertain"} =>
               disk'.sides[j].state \in {disk.sides[j].state, "reconciled"}
     /\ disk'.consumed >= disk.consumed]_disk

\* A side question ends within its timeout, whatever its provider does.
SideResolves == side # Idle ~> side = Idle
=============================================================================
