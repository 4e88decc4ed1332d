# Mos Eisley: TLA+ models, checks and proofs

Mos Eisley (`src/mos_eisley`) is a local command-line harness around paid language
models: it keeps conversations in private files, runs critics and a judge over a frozen
review context, and spends money under one shared ceiling. This directory holds TLA+
models of the parts where the order of steps matters: who may spend what, what is on
disk when a process dies, what may be sent twice, and what two processes do to one file.
TLC checks the models on small instances; TLAPS proves some of the results for every
value of the constants. `PROJECT.json` lists for every definition the source lines it
stands for, and for every property a *mutant*, a plausible bug whose model violates it.

File names below are relative to `src/mos_eisley`.

## 1. The parts of the system

| part | state it keeps | operations | what is hard | what makes it correct |
|---|---|---|---|---|
| spending ledger, `run/spend_ledger.py` | one private SQLite file: `entries`, two audit tables, a policy row | reserve(_many), transfer_held, retire_unused, settle, two reconciliations, guard_held, audit | several processes on one allowance; batches of several rows; a reader that blocks writers; kills | charges stay below the ceiling; ids and settled charges are final; a violation stops admission; audits match rows; every method is atomic |
| spend-controlled transports, `providers/*_spend.py` | `spend-reservation.json`, `spend-receipt.json` per call, one ledger entry | count, reserve, send, settle, receipt | a kill or a lost answer between any two awaits; a retry; an expired window | one dispatch per call; what may be billed is charged; receipt and ledger agree |
| price arithmetic, `providers/openai_spend.py` | none | valid_window, cost, reservation_cost | rounding, cache-write rates | the reservation covers every accepted usage |
| review controller, `run/review_controller.py`, `run/review_broker.py`, `run/review_evidence.py` | O_EXCL records in the run directory, one ledger entry per critic, an allowance and the judge's entry | run_critics, run_judge, _terminal, inspect | cancellation while children settle; crash between ledger move and its record; the same envelope run twice | the judge is paid for only after every critic; the terminal record is last; the inspection of a stopped run tells the truth |
| conversation controller, `conversation.py`, `conversation_branch_controller.py`, `conversation_recovery.py` | one session record in memory and on disk: messages, side questions, forks, exchange counter, branch budget, operation journal | submit, step, cancel, ask_side, attach_side, reconcile_side, create_fork, recovery on open | save failures that leave the new record in place; two tasks on one counter; late provider tasks | nothing is sent twice or before it is saved; journal, record and budget agree; outcomes are final |
| conversation JSON store, `run/conversation_store.py`, `run/conversation_cleanup.py` | `<session>.json`, `<session>.lock`, staging files | open, load, save, publish_snapshot, delete, sweep | power loss around rename and fsync; several handles; failing system calls | the file is whole; promises survive; no lost update |
| conversation SQLite store, `run/conversation_sqlite.py` and its migrations, transfers, backups | rows, artifacts, page index, checkpoint cell | the same interface, incrementally | one revision over many tables | same promises as the JSON store |
| goals, `conversation_goal*.py` | a list of goals inside the session, one selected; their ledgers, evidence, jobs | create, edit, pause, resume, cancel, clear, check, evaluate, reconcile, report | an evaluator awaited while commands, jobs and the workspace move on; a crash between reservation and charge | the ledgers cover all that was started; nothing unresolved is repeated; no late result completes or reopens a goal |
| schedules, `conversation_schedule*.py` | schedules inside the session, each with its fires and queue bindings; timers; sources | add, admit, poll, cancel, pause, resume, cadence, three dispatch checks, recover | a stop between the commit that queues a wakeup and the provider call; two books of one wakeup | what was stopped is not sent; fires, queue and allowance agree |
| local children and coding turns (`conversation_local_child*`, `conversation_coding_controller.py`, `run/coding_vcs.py`) | records inside the session; staged worktrees and the user's repository | run, stage, integrate, stop, recover a child | a goal stopped or replaced under a running child; a merge whose answer is lost | every child is charged; an unknown outcome holds its goal; a patch is merged at most once and never unaccounted for |
| context and compaction (`conversation_context`, `conversation_compaction`) | derived views | select, compact, admit a request | bounds | originals are retained, only a settled prefix is replaced |
| task state and checkpoints (`run/task_*_store.py`) | a head file, checkpoints, claims | save, claim_continuation | read-then-write of a claim | one checkpoint continues in one session |
| request broker and isolation (`run/duplex.py`, `run/isolation.py`, `run/watchdog.py`, ...) | a container, two pipes, an audit | launch, exchange, cancel, remove | worker output, broker and cancellation race; launcher and watchdog remove one container | one request, one answer, one cancellation; the container ends |
| coding brokers and the protected spend anchor (`reviewer_coding_broker.py`, `reviewer_initial_coding_broker.py`, `run/protected_spend_anchor.py`) | a guard in memory, three retained stages, a signed receipt; a remote counter | claim, reserve, count, send, sign | an answer of the remote service is lost or late; a crash between an admission and its record; two brokers on one grant | nothing is reserved, sent or signed beyond what the service admitted to one guard |
| review campaign, launch authority | signed frozen files | verify, bind, admit | none beyond order | hashes and signatures match |
| routing transaction and witnessed admission (`routing_*`) | an append-only store of intents | record, send, admit | crash between intent and send | no send without intent; three scopes agree |
| skills (`core/skill*`, `run/skill_*`) | immutable records and one moving head | stage, install, revoke, roll back | head moves past a revocation | a revoked release is never the head again |
| agent loop and recorded pipeline (`core`) | budget, transcript | bounded turns, dispatch | budget at its limit | no tool call over budget |
| providers' wire formats, tools and MCP, platform layer, Git reading, guidance, reviewed-implementation workflow, cohort assessment, evaluation, data analysis, memory, subscription routes, installation, terminal | mostly files written once, or none | parsing, checks, presentation | data rather than control | schema checks |

How they meet. A *review* reserves its critics and an allowance in one ledger batch, lets
each critic and then the judge be one *transport* call, and moves the allowance to the
judge's exact request in between. Independent runs share nothing but the ledger file, so
a violation recorded by one stops all others. A *conversation* saves its record through a
*store* before and after every dispatch; the store holds the session's lock file for the
life of the controller. Goals, schedules and local children append to the same record: a
wakeup of a schedule is a message of a goal, charged to it when it starts and held beside it
until then. A *task checkpoint* is closed and continued by sessions through their own saves.
An *isolated exchange* is the process a critic's or worker's broker talks to.
Everything paid goes through the ledger; the anchor and the launch authority add refusals
in front of it but no other way to pay.

`PROJECT.json` lists 32 components and the 40 hazards of this code with their lines, each with
the properties that would catch it.

## 2. Modules

```
Amounts                                               money and sums
   │
SpendLedger ──INSTANCE── SpendBudget                  the ledger and what it promises
   ├── SpendLedgerTx (+ MC) ── SpendLedgerProofs      the same methods, statement by statement
   ├── SpendTransport ──EXTENDS── SpendPolicy         paid calls on the ledger, their prices
   │      └── AnchoredTransport (+ MC)                the coding brokers among them
   │             └── SpendTransportProofs
   └── ReviewController (+ MC) ── ReviewControllerProofs   a review on the ledger
ConversationController ── ConversationControllerProofs   one session, its tasks and recovery
GoalController (+ MC)                                 the goals of a session
   └── ChildController (+ MC) ── ChildControllerProofs   their implementation children
ScheduleController (+ MC) ── ScheduleControllerProofs the schedules of one goal
ConversationStore (+ MC) ─┐                           the JSON file under a session
SQLiteStore (+ MC) ───────┴─ SessionStoreProofs       the SQLite store
   └──INSTANCE── SessionCatalog                       and what it promises
TaskCheckpoint (+ MC) ─┐                              checkpoints of a task and their sessions
IsolatedExchange ──────┴─ RunProofs                   one exchange in a container
   ├──INSTANCE── ContainerLife                        launcher, watchdog, daemon
   └──INSTANCE── Duplex                               the broker's tasks
```

**Amounts, SpendBudget.** `Amount` is the validated integer type of the ledger's contracts.
`Total` counts micro-dollars as a cardinality rather than by recursion, so that sums can
be proved about. `SpendBudget` is what `docs/SHARED_SPENDING.md` promises of a scope, in three
variables: `spent`, `exposed`, `frozen`.

**SpendLedger.** `entries` is one function per column (`status`, `hash`, `reserved`,
`charged`), an id without a row has status "absent". One action per public method; a call
that raises changes nothing and is a disabled action. `guard` is the entry each caller of
`guard_held` read-locks; while it is taken no commit can finish (`Writable`).

**SpendLedgerTx.** The same methods as BEGIN IMMEDIATE, reads and comparisons (`Accepts`),
row writes in the code's order (`Script`), COMMIT in two parts (pending, then the readers
are gone), the 250 ms busy timeout, read guards, and kills anywhere. A transaction that does
not commit leaves nothing: that is SQLite's rollback journal and is assumed, everything
above it is checked to be the atomic actions of `SpendLedger`.

**SpendTransport.** `pc` is the place in `create_response` of the four controller classes;
every await, every `private_write` and every ledger call is a step, so that a kill, another
attempt on the same call, an operator's reconciliation, an expiring window or a blocked
ledger can come between any two. A provider bills any amount for a request that left,
also more than the reservation; what it *reports* as usage is believed, as in the code.
The class chosen decides what happens when the hold has changed at `Recheck`: the OpenAI
controller leaves it, the Anthropic one settles in its `finally`, the review one settles when
its grant ran out. `kind` is the assignment of classes to calls, drawn from `Kinds` when the
run begins and constant after that. `Expire` merges the end of the pricing window and of
the grant.

**AnchoredTransport.** `generate` of the two coding brokers around a paid call of kind
"anchored": claim, reservation, guarded audit and wrapped transport, the call itself (the
steps of SpendTransport, its count and its send only after their stage), checks, signed
receipt. `Ask` is `admit_stage` up to the service, which marks the guard first, `Hear` the
answer to that very request, `Doubt` everything else. `spent` and `failed` are the guard's
memory and die with it, `service` is what the remote side has given away, `evidence` the
records on disk. A count or send the guard refuses is a lost answer to the controller, so
the hold is settled as uncertain.

**SpendPolicy.** `valid_window`, `cost`, `reservation_cost` as operators. The transports draw
their reservations and their answers' prices from it, and it is where the proofs about
prices are.

**ReviewController.** Two controllers are the same approved envelope run twice (in two
processes, or again after a crash). `pc` is the place in `run_critics`, `run_judge` or
`_terminal`; a `pc` that names a file is about to write it, and writing may leave it torn.
A child is a short task (`Begin`, `Ask`, `Answer`, `Cancelled`), which SpendTransport opens
up: its two checks of the hold and the request itself are one step here. Every working
step may raise; the deadline and the caller cancel; the caller may cancel again.

**ConversationController.** `mem` is the controller's record, `disk` the saved one. Control
passes to another task only at an `await`: a turn awaits the Git revalidation and then the
provider, a side question awaits its provider, and everything else runs to its end in one step.
`attach_side` and `create_fork` save twice and the process may end between the two; this is
`pending`. `Saved` and `Unsaved` are `_commit`: the journal is derived and saved with the
change, and a save that raises (before or after the new record is in place) leaves the
controller broken. `Exit` is a crash, `/quit`, or an error nothing catches; `Reopen` and `Recover`
are `__init__`. `sent` is the outside world: the calls that were made.

**ConversationStore.** A handle is one `ConversationStore` object or one sweep. Every system
call is a step. `file` is what the directory entry names now, `mayBe` what it may name after
a power failure: everything it was since the directory was last fsynced, torn if the bytes
were not fsynced. `promised` is what the last call that returned has promised.

The two conversation modules meet in `_commit`: `Saved` is a `save` that returned, `Unsaved`
one that raised, with the old or the new record in place. A power loss that undoes an
unconfirmed rename leaves the old record and no process; that is the state `Unsaved` with the
old record reaches, so the session's invariants cover it.

**GoalController.** `goals`, `current` and `entries` are fields of the session; `routine` is the
coroutine `evaluate_goal`, which has one await. Between awaits the event loop runs one handler,
so each command, report and turn is one step, taken also while the evaluator is awaited.
`Status` is `decide` with its branches in the code's order. `stray` is an evaluator that
ignores its cancellation. A goal cleared or replaced stays in the list, and `Total` is what
a new goal starts from.

**ChildController.** Extends GoalController by `children` (`local_children` of the session), the one
`task` that runs or integrates a child, and what the broker has `staged` and `merged`. Each
await of `run_local_child`, `run_coding_child` and `integrate_coding_child` is a place of `task`; the
broker's own steps (`BrokerStages`, `BrokerMerges`) run on a thread and may come after the task
was cancelled. `GoalSteps` says what the goal's operations do to a child: `/goal` pause, cancel and clear
cancel the task, a coding child holds the turn, a required job is not reported from outside. A
child and its integration are one required job. `RestartSession` is `__init__` with
`recover_local_children`.

**ScheduleController.** A record is a schedule with its fires; a fire names the queue entry it is
bound to. Clock, scope and sources are inputs of each step, because the code reads them
again each time and nothing in it keeps them from changing. `Admit` is the whole of
`admit_schedule`; `Start` has the first two dispatch checks of `step` (nothing else runs
between them), `Send` the third, after the callback that announces the turn. `Stop` is the one
commit in which a record stops and its queued wakeup is retired. `goal` keeps only what
schedules read of a goal; an evaluation is one step here and opened up in GoalController.

**SQLiteStore, SessionCatalog.** A handle is an open connection with the checkpoint it has
verified (`data_version`). A save is: check, compare with the checkpoint, write rows and
artifacts that differ, commit. COMMIT may fail; a kill loses the transaction. Pruning plans on
one connection and removes on another, after the locks. `SessionCatalog` is one variable,
`saved`: whole snapshots, one revision at a time, and removals of what was selected; the JSON
file is proved to be one of its entries (`FileIsCatalog`).

**TaskCheckpoint.** A bundle is its lineage. A closure writes an archive, then a head, then the
session's link, each by a private file, fsync, rename, fsync of the directory; a continuation
writes a claim and then the session. Every system call is a step, a kill may come between
any two, and a power loss gives each unsynced entry any of its values since.

**Duplex, ContainerLife, IsolatedExchange.** `Duplex` has the tasks of one exchange and
how asyncio hands out cancellations; `ContainerLife` the launcher, the detached watchdog
and a daemon that may carry out a request after its client gave up. `IsolatedExchange`
composes them: the exchange runs while the launcher awaits it, its worker is the client
attached to the container.

## 3. Runs

| run | instance | size | asks |
|---|---|---|---|
| `ledger` | 3 ids, 2 hashes, ceiling 2, batches of 2, 1 guard | 6 thousand states | every sequence of calls: ceiling with full exposure of unresolved entries, audits, finality, blocking, refinement of `SpendBudget` |
| `ledger_tx` | 2 processes, 11 calls over 3 ids | 4 thousand | no check goes stale before its commit; transactions, kills and timeouts are the atomic calls; no call hangs |
| `transport` | two attempts on one call, one on another, in three assignments of the controller classes: the two OpenAI ones, the two Anthropic ones, two coding brokers on one grant beside an OpenAI call; a ledger too small for both; a caller that takes guards | 367 thousand | one dispatch, nothing beyond what the remote service admitted, billed is charged and within the reservation, receipt agrees, attempts end |
| `review` | 2 critics, 2 controllers, quorum 1, an unrelated run | 329 thousand | order of the stages, terminal record last, truth of the inspection, the run ends |
| `conversation` | 2 messages (chat, Git review), 2 sides, 1 fork, 4 exchanges, 4 attempts | 426 thousand | sent once and after the save, journal agrees, record and budget add up, finality, sides resolve |
| `goals` | 3 definitions, 2 goals, 1 edit, 1 job, 1 message, 2 children, 2 identities of the inputs | 157 thousand | ledgers cover, unresolved held, late results held |
| `goals_reopened` | 2 definitions, no children | found in seconds | violated: a cancelled goal stays cancelled |
| `schedules` | 2 schedules (one with a source), 2 fires, 3 messages, 2 attempts | 576 thousand | fires, queue and allowance agree; what was stopped is not sent |
| `store` | 3 handles, 2 bodies, 3 revisions | 17 thousand | promises survive power loss; no stale check, staging files |
| `sqlite` | 2 connections, 2 sessions, a light and a heavy entry, 2 writes | 403 thousand | rows, artifacts and index are one revision; refinement of `SessionCatalog`; a prune removes what was shown |
| `checkpoint` | 2 sessions, 2 changes, 2 revisions, kills and an outage | 976 thousand | one continuation of a checkpoint; head, archives and links are one lineage; what survives an outage lies on it |
| `isolation` | one exchange, 3 frames, 1 cancellation | 335 thousand | a begun handler is owned to its end; what was confirmed is gone; the exchange ends; the worker is removed |

What each property says is in the comment above it in its module.

**Bounds, and why they are enough.** The ledger compares sums, counts rows and looks for one
violation: three ids let two callers compete for what is left, with a transfer target to
spare, and two micro-dollars let a batch fit one by one but not together. Two processes and a guard
suffice for SQLite's locks, which exclude pairwise. A call's attempts interact through one file
and one row, so two attempts on it and one attempt on another call show every race between
retry, crash and shared ceiling. Two critics with quorum 1 allow one to fail; the second
controller is the duplicate, the unrelated run the blocker. Two messages allow steering,
queueing and a message beside a running one; two sides a sequence with an unresolved first one; one
fork its three states; four exchanges run out only after all of them (three messages were
also checked, with one side: 837 thousand states). `Attempts` equals what two messages
and two sides need, so the fork makes the budget run out. Three handles are a saver, a
concurrent opener or sweeper, and the remains of a killed one; revisions above two repeat.
`MaxBatch` is 64, `MaxEntries` and `MaxSides` 16 and `MaxForks` 8 in the code;
`MaxRevision` bounds the run only.

In `goals` (`Bounded`) the second goal joins only in histories without jobs, edits or a changed
workspace: those are explored with one goal, the replacement with charges, holds and
restarts, after a goal that was cancelled, or paused if it had a child. A goal that starts with a child has
ceilings for the child, its integration and the evaluation of both; beside it comes one of a message, an
edit, a second goal and another child. In `schedules` (`SecondPlain`) one user message or one evaluation comes beside a schedule
of two fires, and the second schedule is followed for one fire while it is not stopped and no user
interferes: enough for two schedules to compete for the goal's last attempt and for a
stop, a message, a failure or a restart at every point of a wakeup. In `checkpoint` both sessions act
while the power holds, and one acts before and after an outage, because a session that never
acted adds nothing to what an outage undoes. Three frames let a worker write early,
answer, and write on; one cancellation is what the caller promises to make (the second is among
the divergences below).

The journal's limit of 96 events cannot be met:
an operation adds at most two, and the record holds at most 48 operations.

Deadlock is checked in `ledger_tx`, `conversation`, `goals`, `checkpoint` and `store`. The others stop:
all ids are settled (`ledger`), all attempts have ended (`transport`), the runs have ended
(`review`), no write or message is left (`sqlite`, `schedules`), the container is gone (`isolation`).
Symmetry is used in `ledger`, `store`, `sqlite`, `checkpoint` and `goals`, which check no liveness.

**Fairness.** Weak, and only where the code schedules. `ledger_tx`: a process that is alive goes
on with its transaction, and SQLite's busy handler gives up. `transport`: while attempts are under
way one of them goes on, an event loop's promise; that `Answer` comes is the client's own timeout,
which is one of its outcomes, and a broker leaves the remote service at its timeout (`Doubt`). `review`:
synchronous steps are taken, the deadline fires (`Stop`), a cancelled task ends (it settles and
returns); nothing is assumed of providers, workers or the human, so a run waiting for approval
may wait. `conversation`: `asyncio.wait` times the side question out (`SideFails`), and code
without an await runs to its end. A kill is never forced and never prevented. `isolation`: a task that can run runs,
the deadline fires, the launcher and the watchdog go on while they live, and the daemon answers
or its client gives up; the worker is never assumed to write, answer or end.
## 4. Proofs

All are checked by tlapm with no assumption but the named ones on constants
(`LedgerAssumption`, `MaxAmountAssumption`, `CallAssumption`, `TransportAssumption`,
`PolicyAssumption`, `StoreAssumption`, `CheckpointAssumption`, `ScheduleAssumption`,
`NoneAssumption`, `SessionAssumption`, `ReviewAssumption`, `BatchAssumption`, `SQLiteAssumption`,
`LegacyAssumption`, `ExchangeAssumption`, `GoalAssumption`, `ChildAssumption`).

**The ledger** (`SpendLedgerProofs`, which begins with the facts about sums). `ExposureWithinCeiling` is not
inductive: from it alone nothing says that a settlement lowers the sum, or that an id that
is admitted adds exactly its amount. `LedgerInv` adds that absent rows charge nothing,
that unresolved rows carry their full reservation, and what audits and guards say of their rows. Money is handled by
splitting the sum: `MoneyParts` says `Charged = Spent + Exposed`, and one lemma per kind of
step (`ReserveMoney`, `TransferMoney`, `ResolveMoney`, `MarkMoney`) says how the parts change;
`TotalReindex` carries the sum of a batch over to the rows it inserts. The same lemmas give
`LedgerImplementsBudget`: every call is a step of `SpendBudget` or a stutter, and from it
`BlockAdmitsNothing`: while a violation is on record no id gets a row and charges only shrink.

**The transactions** (also `SpendLedgerProofs`). `TransactionsAreAtomic` is the refinement
`TxSpec => TxImplementsLedger` for any number of processes and any set of validated calls.
`TxInv` says that one process is past its BEGIN (`OneWriter`), so the rows cannot change
between what it compared (`ChecksStayTrue`) and found free (`KeysFree`) and its commit. A
commit is then exactly one ledger call (one lemma per method: the rows the script wrote are
the rows of the atomic action), a kill is at most the release of a guard, and everything
else leaves the ledger alone.

**The paid calls** (`SpendTransportProofs`). `OneDispatch` alone is not inductive: nothing in
it keeps a second attempt out. `DispatchInv` adds that the reservation file, once created,
makes one attempt the owner of its call, and that a call that was sent has its file;
`BillInv` that only the owner settles, at the bill it saw, and that an absent row was never
billed; `ReceiptInv` that receipts agree with their rows. `TransportsUseLedger` carries the
ledger's theorems over to the transports, and `BrokersUseTransports` (every step of a broker is
a step of a paid call or none) carries the transports' over to the brokers. For
`SentOnlyAdmitted` the brokers need an invariant of their own: the property says nothing of a
broker that has not sent yet. `StageInv` ties the place of a broker to the stages its guard has
been given, all of them recorded as its own by the service, so that two brokers past their claim
on one grant would be one; `GrantInv` says how far a grant is; `SignedInv` that what a signature
was given for stays so, from `EntriesIrrevocable` of the ledger.

**The transports' arithmetic** (also `SpendTransportProofs`). For all rates and counts the rounded
reservation covers every usage of the envelope (`ReservationCovers`, `EveryAmountCovers`), and so a
settlement is never refused for its amount (`ChargesFit`).

**The review** (`ReviewControllerProofs`). `StagesInOrder` speaks of the ledger alone, and a step of a controller
is right only because of what that controller did before. `ReviewInv` says that at most one controller
got past the reservation, since a batch is admitted once (`OneRun`), and what its place has behind it: from the
judge's approval on the critics' evidence is complete, from the move on the judge's row exists and the
allowance is settled at zero, a run that ends as finished has its result (`PlacesEarned`, `JudgeMoved`,
`RecordsTrue`). This lasts because settled rows, whole files and ended calls are final (`FinalStays`, from
`EntriesIrrevocable`). `ChildrenHeld` keeps calls in flight to the places that await them, which with `Closing` is why nothing
is paid after the terminal record (`TerminalIsLast`). `InventoryComplete` needs one fact about sums, that a
row at zero may be left out. The proofs assume that the batch is the critics' entries and the
allowance, as the envelope of `review_broker.py` is.

**The JSON store** (`SessionStoreProofs`). `StoreInv` strengthens the four properties by two
facts: at most one live handle is under the lock (`Exclusive`; the lock's inode never
changes, since a delete leaves it), and what a call between its check and its effect knows of
`file` and `mayBe` (`CallKnows`). It holds for any number of handles, bodies and revisions.
With it the file implements `SessionCatalog` with one session (`FileIsCatalog`): a rename of a save finds the revision
before its own and that of an import finds nothing (`RenamesAre`). Power failures are excepted, because one may take back a
rename whose directory was not yet fsynced, that is a step back to an older revision; `PromisesSurvive` bounds it by
what the last call that returned promised. No run checks this refinement.

**The SQLite store** (also `SessionStoreProofs`), for any number of connections, sessions and entries. `OneRevision` says
nothing of a transaction in progress, nor of what a handle holds when its turn comes. `SQLiteInv` says that the
transaction's copy is whole as well, differs only in the sessions its handle has locked (`WriterAlone`) and, mode by
mode, in what (`WorkGoesOn`). Locks are disjoint (`HandlesApart`), so a commit leaves true what other handles took
(`HandlesKnow`). A checkpoint may be stale, but its artifacts are always those of its index; it is used only if the index is the
store's, and then a save that writes differences writes the whole (`DifferencesComplete`, `StatementsWork`).
`ImplementsCatalog` follows: only a commit changes the database (`OnlyCommits`), and what rows and artifacts decode to is
what the index says (`DecodedShown`). For `PrunedAsShown` the plan still holds inside the transaction (`PlanHolds`); that the
newest sessions stay takes the target with the fewest newer sessions: none of those is a target (`NewestTarget`).

**The isolated exchange** (`RunProofs`), for any bound on frames and cancels. `ExchangeInv` says which tasks there
are at each place of the talk (`TasksPlaced`), how many frames were written when it got there (`FramesCounted`),
and that a handler that was cancelled has not replied (`Undisturbed`); `ContainerInv` that the container is created
once (`CreatedOnce`), started and answered for only behind a watchdog that armed (`WatchedFirst`), and that "removed" is
the watchdog's last word (`LastWord`). A step of the composition is a step of one half, which
leaves the other alone or starts it afresh.

**The checkpoints** (also `RunProofs`), for any number of sessions, changes and power failures. At most
one session is inside the store's lock (`Exclusive`), and the head it read there is still the head (`CallHead`).
With the types this makes `SurvivorsOnLineage` inductive across outages (`HeadInv`): what an outage may leave of the head
is in its lineage. The rest of `CheckpointInv` holds while the power does: what a call knows of claim and archive
(`CallKnows`), and that a claim, once written, is its session's (`ClaimsHeld`), from which `OneContinuation` follows, and
`LineageKept`. A power failure may lose a claim, so neither is stated after one. A few lemmas on lineages
(`LeadsToOrder`, `LeadsToPrevious`) replace induction.

**The schedules** (`ScheduleControllerProofs`). `StopsHold` looks at one step, a wakeup that is sent,
and is not inductive: nothing in it says that the message about to be sent belongs to the fire the
checks read. `IInv` ties the two books together: a schedule has at most one unsettled fire, the newest
(`SchedulesSound`); a queued or running wakeup and an unsettled fire name each other and nobody else
(`Linked`); at most one message runs, and it is the turn's (`TurnAlone`); a schedule that
was revoked has nothing left to send (`RevokedStay`). `FiresTell`, that each fire says what its message
says, follows from it. The rest of `WakeupsAccounted` is about counts. The notifications a record took are counted
as a set of pairs, which only a reservation makes larger, by what was pending (`NotifiedMore`); so `Sound` can
bound them by the cursor. Of the allowance `Accounted` says that the goal's exposure, its attempts and its holds, exceeds
it by evaluations only. A step that settles fires or stops schedules adds no hold (`HoldsLeft`, `HoldsShrink`); a
reservation adds one after comparing the same exposure with the allowance; a start takes an attempt and gives up the
hold of its own message, which is why `Start` counts the holds of all the others; an evaluation looks at the attempts
alone. Each wakeup that never started is a hold of its own (`NeverStartedHeld`, an injection), so their number is
bounded too. The proofs assume finitely many schedules and that no record is `None`.

**The session** (`ConversationControllerProofs`). `SentOnce` and `RecordTrue` relate the outside world to
the saved record and say nothing of the tasks that are between the two; from them alone a turn could
send what was sent before. `SessionInv` adds what each task holds: an admitted turn or side question is
running on record, under the exchange it has, and went out only if it is past its send (`TurnHeld`,
`SideHeld`); a fork being published is reserved (`ForkHeld`); while the controller can save, memory is what
was saved (`Kept`), and a broken controller saves nothing. Of the record it says that the
journal of an operation is the one its status calls for (`Logged`), that what went out is on record
with that exchange (`SentAsLogged`), that exchanges are used once (`ExchangesApart`), that successes were obtained
(`Obtained`) and answers attached once (`AnswersApart`). The controller has many handlers, and they change
the record in few ways: a message, side question or fork is added, or moves along its life (`Moves`). That a
move which was saved keeps the journal right, the calls on record and finished outcomes final is
proved once, and each handler is then shown to be a move. `OutcomesFinal` follows from the moves
directly.

`RecordAddsUp` compares counts taken over the whole record, and is not inductive: a side question that ends
takes its own charge from the budget, which is right only if it had one and no other operation is open under it. `BooksInv`
adds what the handlers rely on. A chat message has an exchange from its admission on (`ChatsCharged`), a
steering message names one that has (`SteersCalls`), one turn and one side question run at a time (`OneAtATime`), `consumed`
is the number of admitted messages and sides, and a budget tells open and unresolved operations exactly (`Tells`); a
session without a budget has no side and no fork, so the budget `_branch_budget` makes up for it tells the truth as well
(`CurrentTells`). Between two handlers, what runs on record is what the tasks wait for (`TasksAlone`); this is void after
a failed save and during recovery, which is why recovery may find one of each kind open and closes each.
Settling one operation moves one element between two finite sets (`TallyMoves`, `OneCharge`). From `BooksInv` the validator's counts
follow as inclusions of sets: every dispatched message was admitted, every admitted one started. The proofs assume that chat messages exist (`"chat" \in Kinds`), because `attach_side` adds one.

**The goals and their children** (`ChildControllerProofs`), for any number of goals, edits, messages and children.
`ChargesCover` asks of some goal that its books cover the session, and is not inductive: a goal that is replaced takes its
books with it. `GoalInv` says which goal it is. Goals replace one another, so only the latest is ever selected or has an
operation in flight (`LatestOnly`), and its ledger covers all that began and the worst case of what runs (`LatestCovers`);
a new goal starts from the merged ledgers of the retained ones, the latest among them. An operation, the goal that reserved
for it and the task that serves it agree: a running message is the one its goal holds (`MessagesHeld`), an awaited
evaluator works for a goal that is marked so (`RoutineHeld`), a child at work is its goal's unfinished job (`JobsHeld`,
`TaskPlaced`). Doubts are counted for the goal whose operation it was (`DoubtsHeld`), evidence that passes is what the evaluator last
found (`EvidenceHeld`). The handlers change goals through few operators, and what each does to the fields of a goal is
proved once (`SetFields`, `ChargedFacts` and their like). `LateResultsHeld` is proved with the invariant, step by step.
The proofs assume that `None` is no job and no evidence (`NoneAssumption`).

**Only model-checked.** Liveness and everything under fairness, out of the prover's reach. Every
invariant and every action property of the passing runs is a theorem.

## 5. What the models leave out

* *Transports.* `BudgetedOpenAITransport` without a ledger shares no state and is left out.
  A provider that under-reports usage is believed. The audit files of the review broker and
  the request hashes are not told apart.
* *Brokers.* Signatures, sequence numbers, the thirty-second clock window and the scope's cap are one
  fact, whether the answer is the one to this request. A record that cannot be written is a crash.
  The worker between broker and transport is in `isolation`; approvals and the proposal are data.
* *Ledger.* A call that was admitted before another run's violation may still complete; that is
  what `docs/SHARED_SPENDING.md` says, and no property claims more. The signatures of evidence
  are opaque.
* *Review.* The pin `expect_preview` of the inspector and the files inside call directories are not
  told apart; the unrelated run only reserves and records a violation. A crash ends one
  controller at a time.
* *Conversation.* Recorded mode (the mode with exchanges, sides and forks). The journal is kept per
  operation, its global sequence and cursor are abstracted. An `on_started` callback
  or provider that raises what nothing catches ends the process (`Exit`). Goals, children and schedules
  have modules of their own; compaction and the byte columns of the branch budget are not modelled. `reconcile_side` is an API without a caller in the command line.
* *Goals.* The wall clock, stall and check-in counts are free choices; optional jobs, task-scoped
  ledgers, branch budgets and the milestone guard are left out.
* *Children.* Patch, tests, approvals, recipe and workspace are a free choice at every recheck. A report of
  a finished child, its inspection and its use as a wakeup are left out, as are the live variant's
  admission and a child in a goal with other unsettled jobs.
* *Schedules.* The read lane (a refused or late read is a step not taken), the driver's polling times,
  credentials, TLS ingress and its rates, byte ceilings, cadence bounds. A legacy fixture's event, which
  may reserve in the same call, is a notification followed by a tick.
* *SQLite.* Moving batches between two stores, listing pages, artifact reads, byte limits.
* *Checkpoints.* The content of a task state; the session's own store, whose save is old or new here.
* *Isolation.* The bytes of a frame; the launcher's audit text; image checks before creation.
* *Store.* The hash of a snapshot is the snapshot itself; a sweep's preview and its hash list
  become removal of any staging file under the one lock; `list_conversations` and byte limits only
  read. The snapshot that `publish_snapshot` imports is arbitrary.

Components listed `not_modelled` in `PROJECT.json` say why or when. Those that only verify
signatures, parse, render or write a file once have no interleaving for TLC to explore.

## 6. Divergences observed

Checked by a run, and listed under "findings": `/goal check` reopens a cancelled goal
(`goals_reopened`).

Met while modelling, and described here only; each is in the model as the code does it, and the
properties are stated so that they hold all the same.

* `conversation_schedule_controller.py:520`: `admit_schedule` on a schedule whose scope changed sets
  "blocked" whatever the status was, "cancelled" included, and `recover_schedule` turns "blocked" into
  "paused" at the next start, from where `/loop resume` activates it; `docs/CONVERSATION_SCHEDULING.md:68`
  says "Cancelled, expired, exhausted, blocked or uncertain work cannot be reopened by the command."
  `StopsHold` shows what remains true: no stopped wakeup is sent, and an uncertain schedule stays stopped.
* `conversation_goal_controller.py:568` with `:121`: an operation left unresolved by a goal that was then
  cleared can never be reconciled, and no new goal can be created in that session;
  `docs/CONVERSATION_GOALS.md:97` describes reconciliation without this case.
* `conversation_goal_controller.py:119`: `create_goal` looks at reservations and evaluations of retained goals
  only, so a goal can be replaced while its cancelled child is still ending, and the new goal does not inherit
  that child's doubt; `docs/CONVERSATION_GOALS.md:97` asks for retained operations in flight to be
  reconciled first. `OperationsHeld` therefore counts a doubt for the child's own goal.
* `conversation_goal_controller.py:650`: `evaluate_goal` compares the goal's own ledger with its ceiling and
  does not see the wakeups held beside it, which `step` and the branch budget do see; `WakeupsAccounted`
  is stated with this difference.
* `run/task_checkpoint_store.py:429`: the claims directory itself is not fsynced into its parent, so a power
  failure may lose a confirmed claim, against `docs/G1_FRESH_CONTEXT_CONTINUATION.md:28`.
* `run/task_checkpoint_store.py:530` with `:477`: a retry confirms a head that an earlier call renamed and never
  fsynced, against `docs/G1_CHECKPOINT_CLOSURE.md:50`.
* `run/duplex.py:135`: a second cancellation of the exchange reaches the handler's `finally`, which
  `run/async_isolation.py:56` says it does not; the run allows one.

## 7. Plan

Done: the ledger and its callers with the coding brokers, the session with its goals, their children and its schedules, both stores, the
checkpoints, the isolated exchange. Left, in this order:

1. **RoutingTransaction**, **SkillRelease**, **AgentLoop**: append-only stores and bounded loops.
2. The child of ReviewController composed from IsolatedExchange and SpendTransport.

Runs: two or three actors each, one value per distinction the property makes, below
a million states; properties already proved may give up their place in a run.

Proofs left: none of the safety properties above; each new module brings its own.
