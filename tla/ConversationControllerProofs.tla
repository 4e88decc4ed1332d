--------------------- MODULE ConversationControllerProofs ---------------------
(***************************************************************************)
(* Proofs about one saved conversation (ConversationController): nothing is *)
(* sent twice, the saved record is ahead of what was done and its journal   *)
(* agrees with it, saved outcomes are final, and the record and its branch  *)
(* budget add up, for any number of messages, side questions, forks,        *)
(* exchanges, crashes and failed saves.                                     *)
(*                                                                         *)
(* While the controller is not broken, memory is what was saved, and a      *)
(* broken one saves nothing: so the invariant is about the saved record and *)
(* the tasks.  Every change the controller saves is one of a few moves of   *)
(* messages, sides and forks (Moves); what a move does to the journal, to   *)
(* what was sent and to finished outcomes is proved once for all of them.   *)
(* The books (BooksInv) come second, on top of that invariant: what a move  *)
(* does to the tally of the budget is again proved once for each kind of    *)
(* move, and the handlers only say which one they are.                      *)
(***************************************************************************)
EXTENDS ConversationController, TLAPS, FiniteSetTheorems, SequenceTheorems, WellFoundedInduction

-----------------------------------------------------------------------------
(* What a record says of one operation, and what its journal then says.    *)

TurnLog(e, events) ==
    \/ e.status = "queued" /\ e.exchange = None /\ events = <<>>
    \/ e.status = "running" /\ events = <<"dispatch">>
    \/ e.status = "cancelled" /\ e.exchange = None /\ events = <<>>
    \/ e.status \in Terminal /\ e.result /\ events = <<"dispatch", "completed">>
    \/ /\ e.status \in {"failed", "cancelled", "interrupted"} /\ ~e.result
       /\ events = <<"dispatch", "uncertain">>
SideLog(e, events) ==
    \/ e.state = "running" /\ events = <<"dispatch">>
    \/ e.state = "completed" /\ events = <<"dispatch", "completed">>
    \/ e.state \in {"cancelled", "uncertain", "reconciled"} /\ events = <<"dispatch", "uncertain">>
ForkLog(e, events) ==
    \/ e = "reserved" /\ events = <<"dispatch">>
    \/ e = "published" /\ events = <<"dispatch", "completed">>
    \/ e = "uncertain" /\ events = <<"dispatch", "uncertain">>

Logged(s) ==
    /\ \A i \in 1..MaxEntries : IF i <= Len(s.entries)
                                THEN TurnLog(s.entries[i], s.journal[<<"turn", i>>])
                                ELSE s.journal[<<"turn", i>>] = <<>>
    /\ \A j \in 1..MaxSides : IF j <= Len(s.sides)
                              THEN SideLog(s.sides[j], s.journal[<<"side", j>>])
                              ELSE s.journal[<<"side", j>>] = <<>>
    /\ \A f \in 1..MaxForks : IF f <= Len(s.forks)
                              THEN ForkLog(s.forks[f], s.journal[<<"fork", f>>])
                              ELSE s.journal[<<"fork", f>>] = <<>>

(* out is sent, kids is children.  A call that was made is on record, and  *)
(* went out once, with the exchange its operation has.                     *)
SentAsLogged(s, out) ==
    /\ \A i \in 1..MaxEntries : out[<<"turn", i>>] # <<>> =>
         /\ i <= Len(s.entries) /\ s.journal[<<"turn", i>>] # <<>>
         /\ out[<<"turn", i>>] = <<s.entries[i].exchange>>
    /\ \A j \in 1..MaxSides : out[<<"side", j>>] # <<>> =>
         j <= Len(s.sides) /\ out[<<"side", j>>] = <<s.sides[j].exchange>>
    /\ \A f \in 1..MaxForks : out[<<"fork", f>>] = <<>>

(* No two operations have one exchange, and none has one to come.          *)
ExchangesApart(s) ==
    /\ \A i \in DOMAIN s.entries : s.entries[i].exchange <= s.consumed
    /\ \A j \in DOMAIN s.sides : s.sides[j].exchange <= s.consumed
    /\ \A i, l \in DOMAIN s.entries :
         s.entries[i].exchange # None /\ s.entries[i].exchange = s.entries[l].exchange => i = l
    /\ \A j, l \in DOMAIN s.sides : s.sides[j].exchange = s.sides[l].exchange => j = l
    /\ \A i \in DOMAIN s.entries, j \in DOMAIN s.sides : s.entries[i].exchange # s.sides[j].exchange

(* Every success on record was obtained.                                   *)
Obtained(s, out, kids) ==
    /\ \A i \in DOMAIN s.entries : s.entries[i].result => out[<<"turn", i>>] # <<>>
    /\ \A j \in DOMAIN s.sides : s.sides[j].state = "completed" => out[<<"side", j>>] # <<>>
    /\ \A f \in DOMAIN s.forks : s.forks[f] = "published" => f \in kids
    /\ \A f \in kids : f \in DOMAIN s.forks /\ s.budget.on

(* A side answer is in the conversation once.                              *)
AnswersApart(s) ==
    /\ \A i \in DOMAIN s.entries : s.entries[i].attached # 0 =>
         /\ s.entries[i].attached \in DOMAIN s.sides
         /\ s.sides[s.entries[i].attached].state = "completed"
    /\ \A i, l \in DOMAIN s.entries :
         s.entries[i].attached # 0 /\ s.entries[i].attached = s.entries[l].attached => i = l

SoundRecord(s, out, kids) ==
    /\ Logged(s) /\ SentAsLogged(s, out) /\ ExchangesApart(s)
    /\ Obtained(s, out, kids) /\ AnswersApart(s)

-----------------------------------------------------------------------------
(* What the tasks hold, on record.                                         *)

ScopeHeld(s) ==
    turn.at = "scope" =>
      turn.entry \in DOMAIN s.entries /\ s.entries[turn.entry].status = "queued"
TurnHeld(s, out) ==
    turn.at \in {"admitted", "sent"} =>
         /\ turn.entry \in DOMAIN s.entries
         /\ s.entries[turn.entry].status = "running"
         /\ s.entries[turn.entry].exchange = turn.exchange
         /\ out[<<"turn", turn.entry>>] = IF turn.at = "sent" THEN <<turn.exchange>> ELSE <<>>
SideHeld(s, out) ==
    side.at # "idle" =>
      /\ side.entry \in DOMAIN s.sides
      /\ s.sides[side.entry].state = "running" /\ s.sides[side.entry].exchange = side.exchange
      /\ out[<<"side", side.entry>>] = IF side.at = "sent" THEN <<side.exchange>> ELSE <<>>
ForkHeld(s, kids) ==
    /\ pending.what \in {"publish", "published", "unpublished"} =>
         pending.id \in DOMAIN s.forks /\ s.forks[pending.id] = "reserved" /\ s.budget.on
    /\ pending.what = "published" => pending.id \in kids
AnswersHeld(s) ==
    \A i \in DOMAIN s.entries : s.entries[i].attached # 0 =>
      \/ s.entries[i].attached \notin answers
      \/ s.sides[s.entries[i].attached].marked
      \/ pending = [what |-> "attach", id |-> s.entries[i].attached]

Kept == ~broken => mem = disk /\ AnswersHeld(disk) /\ ScopeHeld(disk)
Quiet == ~alive \/ recovering => turn = Idle /\ side = Idle /\ pending = NoPending
OutsideTyped == sent \in [Operations -> Seq({None} \cup Exchange)]

SessionInv ==
    /\ SessionTypeOK /\ OutsideTyped /\ Kept /\ Quiet
    /\ SoundRecord(disk, sent, children)
    /\ TurnHeld(disk, sent) /\ SideHeld(disk, sent) /\ ForkHeld(disk, children)

-----------------------------------------------------------------------------
(* The moves of a record: what any handler may change.                     *)

EntryMove(e, f) ==
    \/ f = e
    \/ e.status = "queued" /\ f.status = "cancelled" /\ f.exchange = e.exchange
    \/ e.status = "queued" /\ f.status = "running"
    \/ /\ e.status = "running" /\ f.status \in Terminal /\ f.exchange = e.exchange
       /\ f.status = "completed" => f.result
SideMove(e, f) ==
    /\ f.exchange = e.exchange
    /\ \/ f.state = e.state
       \/ e.state = "running" /\ f.state \in {"completed", "cancelled", "uncertain"}
       \/ e.state \in {"cancelled", "uncertain"} /\ f.state = "reconciled"
ForkMove(e, f) == \/ f = e
                  \/ e = "reserved" /\ f \in {"published", "uncertain"}

EntriesMove(a, b) ==
    /\ Len(a.entries) <= Len(b.entries)
    /\ \A i \in 1..Len(b.entries) :
         IF i <= Len(a.entries) THEN EntryMove(a.entries[i], b.entries[i])
         ELSE b.entries[i].status = "queued" /\ b.entries[i].exchange = None
SidesMove(a, b) ==
    /\ Len(a.sides) <= Len(b.sides)
    /\ \A j \in 1..Len(b.sides) :
         IF j <= Len(a.sides) THEN SideMove(a.sides[j], b.sides[j]) ELSE b.sides[j].state = "running"
ForksMove(a, b) ==
    /\ Len(a.forks) <= Len(b.forks)
    /\ \A f \in 1..Len(b.forks) :
         IF f <= Len(a.forks) THEN ForkMove(a.forks[f], b.forks[f]) ELSE b.forks[f] = "reserved"
Moves(a, b) ==
    EntriesMove(a, b) /\ SidesMove(a, b) /\ ForksMove(a, b) /\ a.consumed <= b.consumed

(* The record that _commit saves for a change.                             *)
Log(a, b) == [b EXCEPT !.journal = TransitionJournal(a, b)]

Fits(s) == /\ s \in SessionRecord
           /\ Len(s.entries) <= MaxEntries /\ Len(s.sides) <= MaxSides /\ Len(s.forks) <= MaxForks

-----------------------------------------------------------------------------
(* Records, sequences and operations.                                      *)

LEMMA FitParts ==
    ASSUME NEW s, Fits(s)
    PROVE  /\ s.entries \in Seq(Entry) /\ s.sides \in Seq(SideReceipt)
           /\ s.forks \in Seq({"reserved", "published", "uncertain"})
           /\ s.consumed \in 0..Exchanges /\ s.budget \in BranchBudget
           /\ s.journal \in [Operations -> Phases]
           /\ Len(s.entries) \in 0..MaxEntries /\ DOMAIN s.entries = 1..Len(s.entries)
           /\ Len(s.sides) \in 0..MaxSides /\ DOMAIN s.sides = 1..Len(s.sides)
           /\ Len(s.forks) \in 0..MaxForks /\ DOMAIN s.forks = 1..Len(s.forks)
           /\ \A i \in 1..Len(s.entries) : s.entries[i] \in Entry
           /\ \A j \in 1..Len(s.sides) : s.sides[j] \in SideReceipt
           /\ \A f \in 1..Len(s.forks) : s.forks[f] \in {"reserved", "published", "uncertain"}
<1>1. /\ s.entries \in Seq(Entry) /\ s.sides \in Seq(SideReceipt)
      /\ s.forks \in Seq({"reserved", "published", "uncertain"})
      /\ s.consumed \in 0..Exchanges /\ s.budget \in BranchBudget
      /\ s.journal \in [Operations -> Phases]
      /\ Len(s.entries) <= MaxEntries /\ Len(s.sides) <= MaxSides /\ Len(s.forks) <= MaxForks
  BY DEF Fits, SessionRecord
<1>2. {MaxEntries, MaxSides, MaxForks, Exchanges} \subseteq Nat
  BY SessionAssumption
<1> QED BY <1>1, <1>2, SMTT(30)

LEMMA FitTypes ==
    ASSUME NEW s, Fits(s)
    PROVE  /\ DOMAIN s.entries = 1..Len(s.entries) /\ Len(s.entries) \in Nat
           /\ DOMAIN s.sides = 1..Len(s.sides) /\ Len(s.sides) \in Nat
           /\ DOMAIN s.forks = 1..Len(s.forks) /\ Len(s.forks) \in Nat
           /\ s.consumed \in Nat
           /\ \A i \in DOMAIN s.entries : s.entries[i].exchange \in Nat
           /\ \A j \in DOMAIN s.sides : s.sides[j].exchange \in Nat /\ s.sides[j].exchange # 0
<1>0. {MaxEntries, MaxSides, MaxForks, Exchanges} \subseteq Nat
  BY SessionAssumption
<1>1. /\ DOMAIN s.entries = 1..Len(s.entries) /\ Len(s.entries) \in Nat
      /\ DOMAIN s.sides = 1..Len(s.sides) /\ Len(s.sides) \in Nat
      /\ DOMAIN s.forks = 1..Len(s.forks) /\ Len(s.forks) \in Nat
  BY <1>0, FitParts
<1>2. s.consumed \in Nat
  BY <1>0, FitParts
<1>3. ASSUME NEW i \in DOMAIN s.entries PROVE s.entries[i].exchange \in Nat
  <2>1. s.entries[i] \in Entry
    BY <1>1, FitParts
  <2> QED BY <1>0, <2>1 DEF Entry, Exchange, None
<1>4. ASSUME NEW j \in DOMAIN s.sides PROVE s.sides[j].exchange \in Nat /\ s.sides[j].exchange # 0
  <2>1. s.sides[j] \in SideReceipt
    BY <1>1, FitParts
  <2> QED BY <1>0, <2>1 DEF SideReceipt, Exchange
<1> QED BY <1>1, <1>2, <1>3, <1>4

LEMMA OperationParts ==
    /\ \A i \in 1..MaxEntries : <<"turn", i>> \in Operations
    /\ \A j \in 1..MaxSides : <<"side", j>> \in Operations
    /\ \A f \in 1..MaxForks : <<"fork", f>> \in Operations
BY DEF Operations, Turns, Sides, Forks

LEMMA OperationKinds ==
    ASSUME NEW k \in Operations
    PROVE  \/ \E i \in 1..MaxEntries : k = <<"turn", i>>
           \/ \E j \in 1..MaxSides : k = <<"side", j>>
           \/ \E f \in 1..MaxForks : k = <<"fork", f>>
BY DEF Operations, Turns, Sides, Forks

LEMMA OpenParts ==
    ASSUME NEW s, NEW n
    PROVE  /\ Open(s, <<"turn", n>>) <=> n <= Len(s.entries) /\ s.entries[n].status = "running"
           /\ Open(s, <<"side", n>>) <=> n <= Len(s.sides) /\ s.sides[n].state = "running"
           /\ Open(s, <<"fork", n>>) <=> n <= Len(s.forks) /\ s.forks[n] = "reserved"
           /\ Succeeded(s, <<"turn", n>>) <=> s.entries[n].result = TRUE
           /\ Succeeded(s, <<"side", n>>) <=> s.sides[n].state = "completed"
           /\ Succeeded(s, <<"fork", n>>) <=> s.forks[n] = "published"
BY DEF Open, Succeeded

LEMMA TwoEvents ==
    ASSUME NEW x, NEW y
    PROVE  Append(<<x>>, y) = <<x, y>>
<1> DEFINE S == {x, y}
           s == Append(<<x>>, y)
<1>1. <<x>> \in Seq(S) /\ <<x, y>> \in Seq(S)
  OBVIOUS
<1>2. s \in Seq(S) /\ Len(s) = 2 /\ s[1] = x /\ s[2] = y
  BY <1>1, AppendProperties
<1> HIDE DEF s
<1>3. s = <<x, y>>
  BY <1>1, <1>2, SeqEqual
<1> QED BY <1>3 DEF s

LEMMA Events ==
    /\ Append(<<>>, "dispatch") = <<"dispatch">>
    /\ Append(<<"dispatch">>, "completed") = <<"dispatch", "completed">>
    /\ Append(<<"dispatch">>, "uncertain") = <<"dispatch", "uncertain">>
    /\ <<"dispatch">> # <<>> /\ <<"dispatch", "completed">> # <<>> /\ <<"dispatch", "uncertain">> # <<>>
    /\ <<"dispatch", "completed">> # <<"dispatch">> /\ <<"dispatch", "uncertain">> # <<"dispatch">>
    /\ <<"dispatch", "completed">> # <<"dispatch", "uncertain">>
<1>1. Append(<<>>, "dispatch") = <<"dispatch">>
  OBVIOUS
<1>2. /\ <<"dispatch">> # <<>> /\ <<"dispatch", "completed">> # <<>> /\ <<"dispatch", "uncertain">> # <<>>
      /\ <<"dispatch", "completed">> # <<"dispatch">> /\ <<"dispatch", "uncertain">> # <<"dispatch">>
      /\ <<"dispatch", "completed">> # <<"dispatch", "uncertain">>
  OBVIOUS
<1> QED BY <1>1, <1>2, TwoEvents

LEMMA LogParts ==
    ASSUME NEW a, NEW b \in SessionRecord
    PROVE  /\ Log(a, b).entries = b.entries /\ Log(a, b).sides = b.sides
           /\ Log(a, b).forks = b.forks /\ Log(a, b).consumed = b.consumed
           /\ Log(a, b).budget = b.budget /\ Log(a, b).journal = TransitionJournal(a, b)
BY DEF Log, SessionRecord

-----------------------------------------------------------------------------
(* The journal that is saved with a move says of every operation what the  *)
(* record then says (transition_journal).                                  *)

LEMMA JournalAt ==
    ASSUME NEW a, NEW b, NEW k \in Operations
    PROVE  /\ Open(b, k) /\ ~Open(a, k) =>
                TransitionJournal(a, b)[k] = Append(a.journal[k], "dispatch")
           /\ Open(a, k) /\ ~Open(b, k) /\ a.journal[k] = <<"dispatch">> =>
                TransitionJournal(a, b)[k] = IF Succeeded(b, k) THEN <<"dispatch", "completed">>
                                             ELSE <<"dispatch", "uncertain">>
           /\ (Open(a, k) <=> Open(b, k)) => TransitionJournal(a, b)[k] = a.journal[k]
<1> DEFINE oa == Open(a, k)
           ob == Open(b, k)
           sb == Succeeded(b, k)
           j == a.journal[k]
<1>1. TransitionJournal(a, b)[k] =
        IF ob /\ ~oa THEN Append(j, "dispatch")
        ELSE IF oa /\ ~ob /\ j = <<"dispatch">> THEN Append(j, IF sb THEN "completed" ELSE "uncertain")
        ELSE j
  BY DEF TransitionJournal
<1> HIDE DEF oa, ob, sb, j
<1>2. /\ ob /\ ~oa => TransitionJournal(a, b)[k] = Append(j, "dispatch")
      /\ oa /\ ~ob /\ j = <<"dispatch">> =>
            TransitionJournal(a, b)[k] = IF sb THEN <<"dispatch", "completed">>
                                         ELSE <<"dispatch", "uncertain">>
      /\ (oa <=> ob) => TransitionJournal(a, b)[k] = j
  BY <1>1, Events
<1> QED BY <1>2 DEF oa, ob, sb, j

LEMMA TurnLogged ==
    ASSUME NEW a, NEW b, Fits(a), Fits(b), Logged(a), EntriesMove(a, b), NEW i \in 1..MaxEntries
    PROVE  LET events == TransitionJournal(a, b)[<<"turn", i>>] IN
           /\ events \in Phases
           /\ IF i <= Len(b.entries) THEN TurnLog(b.entries[i], events) ELSE events = <<>>
           /\ a.journal[<<"turn", i>>] # <<>> => events # <<>>
<1> DEFINE k == <<"turn", i>>
           j == a.journal[k]
           events == TransitionJournal(a, b)[k]
           e == a.entries[i]
           f == b.entries[i]
<1>0. k \in Operations
  BY OperationParts
<1>1. /\ Open(a, k) <=> i <= Len(a.entries) /\ e.status = "running"
      /\ Open(b, k) <=> i <= Len(b.entries) /\ f.status = "running"
      /\ Succeeded(b, k) <=> f.result = TRUE
  BY OpenParts
<1>2. /\ Open(b, k) /\ ~Open(a, k) => events = Append(j, "dispatch")
      /\ Open(a, k) /\ ~Open(b, k) /\ j = <<"dispatch">> =>
           events = IF Succeeded(b, k) THEN <<"dispatch", "completed">> ELSE <<"dispatch", "uncertain">>
      /\ (Open(a, k) <=> Open(b, k)) => events = j
  BY <1>0, JournalAt
<1>3. /\ Len(a.entries) \in Nat /\ Len(b.entries) \in Nat /\ Len(a.entries) <= Len(b.entries)
      /\ i <= Len(a.entries) => e \in Entry
      /\ i <= Len(b.entries) => f \in Entry
      /\ j \in Phases
  BY <1>0, FitParts DEF EntriesMove
<1>4. IF i <= Len(a.entries) THEN TurnLog(e, j) ELSE j = <<>>
  BY DEF Logged
<1>5. i <= Len(b.entries) =>
        IF i <= Len(a.entries) THEN EntryMove(e, f) ELSE f.status = "queued" /\ f.exchange = None
  BY <1>3 DEF EntriesMove
<1> DEFINE Goal == /\ events \in Phases
                   /\ IF i <= Len(b.entries) THEN TurnLog(f, events) ELSE events = <<>>
                   /\ j # <<>> => events # <<>>
<1> SUFFICES Goal
  OBVIOUS
<1>p. <<>> \in Phases /\ <<"dispatch">> \in Phases /\ <<"dispatch", "completed">> \in Phases
      /\ <<"dispatch", "uncertain">> \in Phases
  BY DEF Phases
<1>6. ASSUME ~(i <= Len(b.entries)) PROVE Goal
  BY <1>1, <1>2, <1>3, <1>4, <1>6
<1>7. ASSUME i <= Len(b.entries), ~(i <= Len(a.entries)) PROVE Goal
  BY <1>1, <1>2, <1>3, <1>4, <1>5, <1>7, <1>p DEF TurnLog
<1>8. ASSUME i <= Len(b.entries), i <= Len(a.entries) PROVE Goal
  <2>0. TurnLog(e, j) /\ EntryMove(e, f) /\ e \in Entry /\ f \in Entry
    BY <1>3, <1>4, <1>5, <1>8
  <2>t. e.result \in BOOLEAN /\ f.result \in BOOLEAN
    BY <2>0 DEF Entry
  <2> HIDE DEF e, f, j, events, k
  <2>1. ASSUME f = e PROVE Goal
    BY <1>1, <1>2, <1>3, <1>8, <2>0, <2>1
  <2>2. ASSUME e.status = "queued", f.status = "cancelled", f.exchange = e.exchange PROVE Goal
    BY <1>1, <1>2, <1>3, <1>8, <2>0, <2>2 DEF TurnLog, Terminal
  <2>3. ASSUME e.status = "queued", f.status = "running" PROVE Goal
    BY <1>1, <1>2, <1>3, <1>8, <2>0, <2>3, Events, <1>p DEF TurnLog, Terminal
  <2>4. ASSUME e.status = "running", f.status \in Terminal, f.exchange = e.exchange,
               f.status = "completed" => f.result
        PROVE  Goal
    <3>1. j = <<"dispatch">>
      BY <2>0, <2>4 DEF TurnLog, Terminal
    <3>2. f.status # "running"
      BY <2>4 DEF Terminal
    <3>3. events = IF f.result = TRUE THEN <<"dispatch", "completed">> ELSE <<"dispatch", "uncertain">>
      BY <1>1, <1>2, <1>8, <2>4, <3>1, <3>2
    <3>4. TurnLog(f, events)
      BY <3>3, <2>4, <2>t DEF TurnLog, Terminal
    <3> QED BY <3>3, <3>4, <1>p, <1>8, Events
  <2> QED BY <2>0, <2>1, <2>2, <2>3, <2>4 DEF EntryMove
<1> QED BY <1>6, <1>7, <1>8

LEMMA SideLogged ==
    ASSUME NEW a, NEW b, Fits(a), Fits(b), Logged(a), SidesMove(a, b), NEW i \in 1..MaxSides
    PROVE  LET events == TransitionJournal(a, b)[<<"side", i>>] IN
           /\ events \in Phases
           /\ IF i <= Len(b.sides) THEN SideLog(b.sides[i], events) ELSE events = <<>>
<1> DEFINE k == <<"side", i>>
           j == a.journal[k]
           events == TransitionJournal(a, b)[k]
           e == a.sides[i]
           f == b.sides[i]
<1>0. k \in Operations
  BY OperationParts
<1>1. /\ Open(a, k) <=> i <= Len(a.sides) /\ e.state = "running"
      /\ Open(b, k) <=> i <= Len(b.sides) /\ f.state = "running"
      /\ Succeeded(b, k) <=> f.state = "completed"
  BY OpenParts
<1>2. /\ Open(b, k) /\ ~Open(a, k) => events = Append(j, "dispatch")
      /\ Open(a, k) /\ ~Open(b, k) /\ j = <<"dispatch">> =>
           events = IF Succeeded(b, k) THEN <<"dispatch", "completed">> ELSE <<"dispatch", "uncertain">>
      /\ (Open(a, k) <=> Open(b, k)) => events = j
  BY <1>0, JournalAt
<1>3. /\ Len(a.sides) \in Nat /\ Len(b.sides) \in Nat /\ Len(a.sides) <= Len(b.sides)
      /\ j \in Phases
  BY <1>0, FitParts DEF SidesMove
<1>4. IF i <= Len(a.sides) THEN SideLog(e, j) ELSE j = <<>>
  BY DEF Logged
<1>5. i <= Len(b.sides) => IF i <= Len(a.sides) THEN SideMove(e, f) ELSE f.state = "running"
  BY <1>3 DEF SidesMove
<1> DEFINE Goal == /\ events \in Phases
                   /\ IF i <= Len(b.sides) THEN SideLog(f, events) ELSE events = <<>>
<1> SUFFICES Goal
  OBVIOUS
<1>p. <<>> \in Phases /\ <<"dispatch">> \in Phases /\ <<"dispatch", "completed">> \in Phases
      /\ <<"dispatch", "uncertain">> \in Phases
  BY DEF Phases
<1> HIDE DEF e, f, j, events, k
<1>6. ASSUME ~(i <= Len(b.sides)) PROVE Goal
  BY <1>1, <1>2, <1>3, <1>4, <1>6
<1>7. ASSUME i <= Len(b.sides), ~(i <= Len(a.sides)) PROVE Goal
  BY <1>1, <1>2, <1>3, <1>4, <1>5, <1>7, <1>p, Events DEF SideLog
<1>8. ASSUME i <= Len(b.sides), i <= Len(a.sides) PROVE Goal
  <2>0. SideLog(e, j) /\ SideMove(e, f)
    BY <1>4, <1>5, <1>8
  <2>1. ASSUME f.state = e.state PROVE Goal
    BY <1>1, <1>2, <1>3, <1>8, <2>0, <2>1 DEF SideLog
  <2>2. ASSUME e.state = "running", f.state \in {"completed", "cancelled", "uncertain"} PROVE Goal
    <3>1. j = <<"dispatch">>
      BY <2>0, <2>2 DEF SideLog
    <3>2. events = IF f.state = "completed" THEN <<"dispatch", "completed">> ELSE <<"dispatch", "uncertain">>
      BY <1>1, <1>2, <1>8, <2>2, <3>1
    <3> QED BY <3>2, <2>2, <1>p, <1>8 DEF SideLog
  <2>3. ASSUME e.state \in {"cancelled", "uncertain"}, f.state = "reconciled" PROVE Goal
    BY <1>1, <1>2, <1>3, <1>8, <2>0, <2>3 DEF SideLog
  <2> QED BY <2>0, <2>1, <2>2, <2>3 DEF SideMove
<1> QED BY <1>6, <1>7, <1>8

LEMMA ForkLogged ==
    ASSUME NEW a, NEW b, Fits(a), Fits(b), Logged(a), ForksMove(a, b), NEW i \in 1..MaxForks
    PROVE  LET events == TransitionJournal(a, b)[<<"fork", i>>] IN
           /\ events \in Phases
           /\ IF i <= Len(b.forks) THEN ForkLog(b.forks[i], events) ELSE events = <<>>
<1> DEFINE k == <<"fork", i>>
           j == a.journal[k]
           events == TransitionJournal(a, b)[k]
           e == a.forks[i]
           f == b.forks[i]
<1>0. k \in Operations
  BY OperationParts
<1>1. /\ Open(a, k) <=> i <= Len(a.forks) /\ e = "reserved"
      /\ Open(b, k) <=> i <= Len(b.forks) /\ f = "reserved"
      /\ Succeeded(b, k) <=> f = "published"
  BY OpenParts, ZenonT(60)
<1>2. /\ Open(b, k) /\ ~Open(a, k) => events = Append(j, "dispatch")
      /\ Open(a, k) /\ ~Open(b, k) /\ j = <<"dispatch">> =>
           events = IF Succeeded(b, k) THEN <<"dispatch", "completed">> ELSE <<"dispatch", "uncertain">>
      /\ (Open(a, k) <=> Open(b, k)) => events = j
  BY <1>0, JournalAt
<1>3. /\ Len(a.forks) \in Nat /\ Len(b.forks) \in Nat /\ Len(a.forks) <= Len(b.forks)
      /\ j \in Phases
  BY <1>0, FitParts DEF ForksMove
<1>4. IF i <= Len(a.forks) THEN ForkLog(e, j) ELSE j = <<>>
  BY DEF Logged
<1>5. i <= Len(b.forks) => IF i <= Len(a.forks) THEN ForkMove(e, f) ELSE f = "reserved"
  BY <1>3 DEF ForksMove
<1> DEFINE Goal == /\ events \in Phases
                   /\ IF i <= Len(b.forks) THEN ForkLog(f, events) ELSE events = <<>>
<1> SUFFICES Goal
  OBVIOUS
<1>p. <<>> \in Phases /\ <<"dispatch">> \in Phases /\ <<"dispatch", "completed">> \in Phases
      /\ <<"dispatch", "uncertain">> \in Phases
  BY DEF Phases
<1> HIDE DEF e, f, j, events, k
<1>6. ASSUME ~(i <= Len(b.forks)) PROVE Goal
  BY <1>1, <1>2, <1>3, <1>4, <1>6
<1>7. ASSUME i <= Len(b.forks), ~(i <= Len(a.forks)) PROVE Goal
  BY <1>1, <1>2, <1>3, <1>4, <1>5, <1>7, <1>p, Events DEF ForkLog
<1>8. ASSUME i <= Len(b.forks), i <= Len(a.forks) PROVE Goal
  <2>0. ForkLog(e, j) /\ ForkMove(e, f)
    BY <1>4, <1>5, <1>8
  <2>1. ASSUME f = e PROVE Goal
    BY <1>1, <1>2, <1>3, <1>8, <2>0, <2>1 DEF ForkLog
  <2>2. ASSUME e = "reserved", f \in {"published", "uncertain"} PROVE Goal
    <3>1. j = <<"dispatch">>
      BY <2>0, <2>2 DEF ForkLog
    <3>2. events = IF f = "published" THEN <<"dispatch", "completed">> ELSE <<"dispatch", "uncertain">>
      BY <1>1, <1>2, <1>8, <2>2, <3>1
    <3> QED BY <3>2, <2>2, <1>p, <1>8 DEF ForkLog
  <2> QED BY <2>0, <2>1, <2>2 DEF ForkMove
<1> QED BY <1>6, <1>7, <1>8

LEMMA LoggedNext ==
    ASSUME NEW a, NEW b, Fits(a), Fits(b), Logged(a), Moves(a, b)
    PROVE  Fits(Log(a, b)) /\ Logged(Log(a, b))
<1> DEFINE c == Log(a, b)
           journal == TransitionJournal(a, b)
<1>0. EntriesMove(a, b) /\ SidesMove(a, b) /\ ForksMove(a, b) /\ b \in SessionRecord
  BY DEF Moves, Fits
<1>1. /\ c.entries = b.entries /\ c.sides = b.sides /\ c.forks = b.forks /\ c.consumed = b.consumed
      /\ c.budget = b.budget /\ c.journal = journal
  BY <1>0, LogParts
<1>2. journal \in [Operations -> Phases]
  <2>1. journal = [k \in Operations |-> journal[k]]
    BY DEF TransitionJournal
  <2>2. ASSUME NEW k \in Operations PROVE journal[k] \in Phases
    <3> HIDE DEF journal
    <3> QED BY OperationKinds, TurnLogged, SideLogged, ForkLogged, <1>0 DEF journal
  <2> QED BY <2>1, <2>2
<1>3. Fits(c)
  <2>1. Len(b.entries) <= MaxEntries /\ Len(b.sides) <= MaxSides /\ Len(b.forks) <= MaxForks
    BY DEF Fits
  <2>2. c \in SessionRecord
    <3> HIDE DEF journal
    <3> QED BY <1>0, <1>2 DEF Log, SessionRecord, journal
  <2> HIDE DEF c
  <2> QED BY <2>1, <2>2, <1>1 DEF Fits
<1>4. Logged(c)
  <2> HIDE DEF c, journal
  <2>1. \A i \in 1..MaxEntries : IF i <= Len(b.entries) THEN TurnLog(b.entries[i], journal[<<"turn", i>>])
                                 ELSE journal[<<"turn", i>>] = <<>>
    BY <1>0, TurnLogged DEF journal
  <2>2. \A i \in 1..MaxSides : IF i <= Len(b.sides) THEN SideLog(b.sides[i], journal[<<"side", i>>])
                               ELSE journal[<<"side", i>>] = <<>>
    BY <1>0, SideLogged DEF journal
  <2>3. \A i \in 1..MaxForks : IF i <= Len(b.forks) THEN ForkLog(b.forks[i], journal[<<"fork", i>>])
                               ELSE journal[<<"fork", i>>] = <<>>
    BY <1>0, ForkLogged DEF journal
  <2> QED BY <1>1, <2>1, <2>2, <2>3 DEF Logged
<1> QED BY <1>3, <1>4

LEMMA SentNext ==
    ASSUME NEW a, NEW b, NEW out, Fits(a), Fits(b), Logged(a), Moves(a, b), SentAsLogged(a, out)
    PROVE  SentAsLogged(Log(a, b), out)
<1>0. EntriesMove(a, b) /\ SidesMove(a, b) /\ b \in SessionRecord
  BY DEF Moves, Fits
<1>1. /\ Log(a, b).entries = b.entries /\ Log(a, b).sides = b.sides
      /\ Log(a, b).journal = TransitionJournal(a, b)
  BY <1>0, LogParts
<1>2. ASSUME NEW i \in 1..MaxEntries, out[<<"turn", i>>] # <<>>
      PROVE  /\ i <= Len(b.entries) /\ TransitionJournal(a, b)[<<"turn", i>>] # <<>>
             /\ out[<<"turn", i>>] = <<b.entries[i].exchange>>
  <2>1. /\ i <= Len(a.entries) /\ a.journal[<<"turn", i>>] # <<>>
        /\ out[<<"turn", i>>] = <<a.entries[i].exchange>>
    BY <1>2 DEF SentAsLogged
  <2>2. TransitionJournal(a, b)[<<"turn", i>>] # <<>>
    BY <1>0, <2>1, TurnLogged
  <2>3. i <= Len(b.entries) /\ EntryMove(a.entries[i], b.entries[i])
    BY <1>0, <2>1, FitParts DEF EntriesMove
  <2>4. a.entries[i].status # "queued"
    BY <2>1 DEF Logged, TurnLog, Terminal
  <2> QED BY <2>1, <2>2, <2>3, <2>4 DEF EntryMove
<1>3. ASSUME NEW j \in 1..MaxSides, out[<<"side", j>>] # <<>>
      PROVE  j <= Len(b.sides) /\ out[<<"side", j>>] = <<b.sides[j].exchange>>
  <2>1. j <= Len(a.sides) /\ out[<<"side", j>>] = <<a.sides[j].exchange>>
    BY <1>3 DEF SentAsLogged
  <2>2. j <= Len(b.sides) /\ SideMove(a.sides[j], b.sides[j])
    BY <1>0, <2>1, FitParts DEF SidesMove
  <2> QED BY <2>1, <2>2 DEF SideMove
<1>4. \A f \in 1..MaxForks : out[<<"fork", f>>] = <<>>
  BY DEF SentAsLogged
<1> QED BY <1>1, <1>2, <1>3, <1>4 DEF SentAsLogged

-----------------------------------------------------------------------------
(* Changes a handler may save, and what is saved of them.                  *)

Sanctioned(a, b, out, kids) ==
    Fits(b) /\ Moves(a, b) /\ ExchangesApart(b) /\ Obtained(b, out, kids) /\ AnswersApart(b)

LEMMA SoundNext ==
    ASSUME NEW a, NEW b, NEW out, NEW kids,
           Fits(a), SoundRecord(a, out, kids), Sanctioned(a, b, out, kids)
    PROVE  Fits(Log(a, b)) /\ SoundRecord(Log(a, b), out, kids)
<1>1. /\ Fits(b) /\ Moves(a, b) /\ ExchangesApart(b) /\ Obtained(b, out, kids) /\ AnswersApart(b)
      /\ Logged(a) /\ SentAsLogged(a, out) /\ b \in SessionRecord
  BY DEF Sanctioned, SoundRecord, Fits
<1>2. Fits(Log(a, b)) /\ Logged(Log(a, b)) /\ SentAsLogged(Log(a, b), out)
  BY <1>1, LoggedNext, SentNext
<1>3. /\ Log(a, b).entries = b.entries /\ Log(a, b).sides = b.sides /\ Log(a, b).forks = b.forks
      /\ Log(a, b).consumed = b.consumed /\ Log(a, b).budget = b.budget
  BY <1>1, LogParts
<1>4. ExchangesApart(Log(a, b))
  BY <1>1, <1>3 DEF ExchangesApart
<1>5. Obtained(Log(a, b), out, kids)
  BY <1>1, <1>3 DEF Obtained
<1>6. AnswersApart(Log(a, b))
  BY <1>1, <1>3 DEF AnswersApart
<1> QED BY <1>2, <1>4, <1>5, <1>6 DEF SoundRecord

(* What is final on record a is so on record c.                            *)
Finality(a, c) ==
    /\ \A i \in DOMAIN a.entries :
         /\ i \in DOMAIN c.entries
         /\ a.entries[i].status \in Terminal => c.entries[i] = a.entries[i]
         /\ a.entries[i].status = "running" => c.entries[i].status # "queued"
    /\ \A j \in DOMAIN a.sides :
         /\ a.sides[j].state \in {"completed", "reconciled"} => c.sides[j].state = a.sides[j].state
         /\ a.sides[j].state \in {"cancelled", "uncertain"} =>
              c.sides[j].state \in {a.sides[j].state, "reconciled"}
    /\ c.consumed >= a.consumed

LEMMA FinalNext ==
    ASSUME NEW a, NEW b, Fits(a), Fits(b), Moves(a, b)
    PROVE  Finality(a, Log(a, b))
<1>0. EntriesMove(a, b) /\ SidesMove(a, b) /\ a.consumed <= b.consumed /\ b \in SessionRecord
  BY DEF Moves, Fits
<1>1. /\ Log(a, b).entries = b.entries /\ Log(a, b).sides = b.sides /\ Log(a, b).consumed = b.consumed
  BY <1>0, LogParts
<1>2. /\ DOMAIN a.entries = 1..Len(a.entries) /\ Len(a.entries) \in Nat
      /\ DOMAIN b.entries = 1..Len(b.entries) /\ Len(b.entries) \in Nat
      /\ DOMAIN a.sides = 1..Len(a.sides) /\ Len(a.sides) \in Nat
      /\ Len(b.sides) \in Nat /\ a.consumed \in Int /\ b.consumed \in Int
  BY FitParts
<1>3. ASSUME NEW i \in DOMAIN a.entries
      PROVE  /\ i \in DOMAIN b.entries
             /\ a.entries[i].status \in Terminal => b.entries[i] = a.entries[i]
             /\ a.entries[i].status = "running" => b.entries[i].status # "queued"
  <2>1. i \in DOMAIN b.entries /\ EntryMove(a.entries[i], b.entries[i])
    BY <1>0, <1>2 DEF EntriesMove
  <2> QED BY <2>1 DEF EntryMove, Terminal
<1>4. ASSUME NEW j \in DOMAIN a.sides
      PROVE  /\ a.sides[j].state \in {"completed", "reconciled"} => b.sides[j].state = a.sides[j].state
             /\ a.sides[j].state \in {"cancelled", "uncertain"} =>
                  b.sides[j].state \in {a.sides[j].state, "reconciled"}
  <2>1. SideMove(a.sides[j], b.sides[j])
    BY <1>0, <1>2 DEF SidesMove
  <2> QED BY <2>1 DEF SideMove
<1> QED BY <1>0, <1>1, <1>2, <1>3, <1>4 DEF Finality

Commits(b) == Saved(b) \/ Unsaved(b) \/ Refuses

(* After a handler's commit the record is the old one or the new one, and  *)
(* memory agrees with it unless the controller is broken.                  *)
LEMMA Committed ==
    ASSUME SessionInv, NEW b, ~broken => Sanctioned(disk, b, sent, children), Commits(b)
    PROVE  /\ Fits(mem') /\ Fits(disk') /\ broken' \in BOOLEAN
           /\ SoundRecord(disk', sent, children)
           /\ \/ disk' = disk
              \/ /\ ~broken /\ disk'.entries = b.entries /\ disk'.sides = b.sides
                 /\ disk'.forks = b.forks /\ disk'.consumed = b.consumed /\ disk'.budget = b.budget
           /\ Saved(b) \/ ~broken' =>
                /\ mem' = disk' /\ disk'.entries = b.entries /\ disk'.sides = b.sides
                /\ disk'.forks = b.forks /\ disk'.consumed = b.consumed /\ disk'.budget = b.budget
           /\ disk' = disk \/ Finality(disk, disk')
<1>0. Fits(mem) /\ Fits(disk) /\ SoundRecord(disk, sent, children) /\ broken \in BOOLEAN
  BY DEF SessionInv, SessionTypeOK, Fits
<1>1. ASSUME ~broken
      PROVE  /\ mem = disk /\ Fits(Log(disk, b)) /\ SoundRecord(Log(disk, b), sent, children)
             /\ Log(disk, b).entries = b.entries /\ Log(disk, b).sides = b.sides
             /\ Log(disk, b).forks = b.forks /\ Log(disk, b).consumed = b.consumed
             /\ Log(disk, b).budget = b.budget
             /\ Finality(disk, Log(disk, b))
  <2>1. mem = disk
    BY <1>1 DEF SessionInv, Kept
  <2>2. Fits(b) /\ Moves(disk, b) /\ b \in SessionRecord
    BY <1>1 DEF Sanctioned, Fits
  <2>3. Fits(Log(disk, b)) /\ SoundRecord(Log(disk, b), sent, children)
    BY <1>0, <1>1, SoundNext
  <2>4. Finality(disk, Log(disk, b))
    BY <1>0, <2>2, FinalNext
  <2> QED BY <2>1, <2>2, <2>3, <2>4, LogParts
<1>2. CASE Saved(b)
  <2>1. ~broken /\ mem' = Log(mem, b) /\ disk' = Log(mem, b) /\ broken' = broken
    BY <1>2 DEF Saved, Log
  <2> QED BY <1>0, <1>1, <2>1
<1>3. CASE Unsaved(b)
  <2>1. ~broken /\ mem' = mem /\ disk' \in {disk, Log(mem, b)} /\ broken' = TRUE
    BY <1>3 DEF Unsaved, Log
  <2>2. ~Saved(b)
    BY <2>1 DEF Saved
  <2> QED BY <1>0, <1>1, <2>1, <2>2
<1>4. CASE Refuses
  <2>1. broken /\ mem' = mem /\ disk' = disk /\ broken' = broken
    BY <1>4 DEF Refuses
  <2>2. ~Saved(b)
    BY <2>1 DEF Saved
  <2> QED BY <1>0, <2>1, <2>2
<1> QED BY <1>2, <1>3, <1>4 DEF Commits

-----------------------------------------------------------------------------
(* Which changes may be saved: of messages in place, of sides and forks in *)
(* place, and one message, side or fork more.                              *)

LEMMA StillMoves ==
    ASSUME NEW a, NEW b, Fits(a)
    PROVE  /\ b.entries = a.entries => EntriesMove(a, b)
           /\ b.sides = a.sides => SidesMove(a, b)
           /\ b.forks = a.forks => ForksMove(a, b)
<1>1. Len(a.entries) \in Nat /\ Len(a.sides) \in Nat /\ Len(a.forks) \in Nat
  BY FitTypes
<1>2. /\ \A e : EntryMove(e, e)
      /\ \A e : SideMove(e, e)
      /\ \A e : ForkMove(e, e)
  BY DEF EntryMove, SideMove, ForkMove
<1>3. ASSUME b.entries = a.entries PROVE EntriesMove(a, b)
  BY <1>1, <1>2, <1>3 DEF EntriesMove
<1>4. ASSUME b.sides = a.sides PROVE SidesMove(a, b)
  BY <1>1, <1>2, <1>4 DEF SidesMove
<1>5. ASSUME b.forks = a.forks PROVE ForksMove(a, b)
  BY <1>1, <1>2, <1>5 DEF ForksMove
<1> QED BY <1>3, <1>4, <1>5

(* x is the message that takes the next exchange, if any.                  *)
MessageChange(a, b, out, i, x) ==
    /\ EntryMove(a.entries[i], b.entries[i]) /\ b.entries[i].attached = a.entries[i].attached
    /\ b.entries[i].result => out[<<"turn", i>>] # <<>>
    /\ \/ b.entries[i].exchange = a.entries[i].exchange
       \/ i = x /\ b.consumed = a.consumed + 1 /\ b.entries[i].exchange = b.consumed
MessagesChange(a, b, out, x) ==
    /\ Len(b.entries) = Len(a.entries) /\ b.sides = a.sides /\ b.forks = a.forks
    /\ b.consumed >= a.consumed /\ (a.budget.on => b.budget.on)
    /\ \A i \in 1..Len(a.entries) : MessageChange(a, b, out, i, x)

LEMMA MessagesSanctioned ==
    ASSUME NEW a, NEW b, NEW out, NEW kids, NEW x,
           Fits(a), Fits(b), SoundRecord(a, out, kids), MessagesChange(a, b, out, x)
    PROVE  Sanctioned(a, b, out, kids)
<1>0. /\ ExchangesApart(a) /\ Obtained(a, out, kids) /\ AnswersApart(a)
      /\ Len(b.entries) = Len(a.entries) /\ b.sides = a.sides /\ b.forks = a.forks
      /\ b.consumed >= a.consumed
  BY DEF SoundRecord, MessagesChange
<1>a. /\ DOMAIN a.entries = 1..Len(a.entries) /\ DOMAIN b.entries = 1..Len(b.entries)
      /\ DOMAIN a.sides = 1..Len(a.sides) /\ DOMAIN a.forks = 1..Len(a.forks)
      /\ Len(a.entries) \in Nat /\ Len(a.sides) \in Nat /\ Len(a.forks) \in Nat
      /\ a.consumed \in Nat /\ b.consumed \in Nat
  BY FitTypes
<1>1. DOMAIN b.entries = DOMAIN a.entries
  BY <1>0, <1>a
<1>t. /\ \A i \in DOMAIN a.entries : a.entries[i].exchange \in Nat
      /\ \A i \in DOMAIN b.entries : b.entries[i].exchange \in Nat
      /\ \A j \in DOMAIN a.sides : a.sides[j].exchange \in Nat /\ a.sides[j].exchange # 0
  BY FitTypes
<1>2. ASSUME NEW i \in DOMAIN a.entries
      PROVE  MessageChange(a, b, out, i, x)
  BY <1>a DEF MessagesChange
<1>m. \A i \in DOMAIN a.entries : EntryMove(a.entries[i], b.entries[i])
  BY <1>2 DEF MessageChange
<1>x. \A i \in DOMAIN a.entries :
        \/ b.entries[i].exchange = a.entries[i].exchange
        \/ i = x /\ b.consumed = a.consumed + 1 /\ b.entries[i].exchange = b.consumed
  BY <1>2 DEF MessageChange
<1>3. Moves(a, b)
  <2>1. EntriesMove(a, b)
    <3>1. Len(a.entries) <= Len(b.entries)
      BY <1>0, <1>a
    <3>2. ASSUME NEW i \in 1..Len(b.entries) PROVE i <= Len(a.entries) /\ EntryMove(a.entries[i], b.entries[i])
      BY <1>0, <1>a, <1>m
    <3> QED BY <3>1, <3>2 DEF EntriesMove
  <2>2. SidesMove(a, b) /\ ForksMove(a, b)
    BY <1>0, StillMoves
  <2> QED BY <1>0, <1>a, <2>1, <2>2 DEF Moves
<1>4. ExchangesApart(b)
  <2>1. \A i \in DOMAIN a.entries : a.entries[i].exchange <= a.consumed
    BY <1>0 DEF ExchangesApart
  <2>2. \A j \in DOMAIN a.sides : a.sides[j].exchange <= a.consumed
    BY <1>0 DEF ExchangesApart
  <2>3. ASSUME NEW i \in DOMAIN b.entries PROVE b.entries[i].exchange <= b.consumed
    <3>1. a.entries[i].exchange <= a.consumed /\ a.entries[i].exchange \in Nat
      BY <1>1, <1>t, <2>1
    <3>2. \/ b.entries[i].exchange = a.entries[i].exchange
          \/ b.entries[i].exchange = b.consumed
      BY <1>1, <1>x
    <3> QED BY <3>1, <3>2, <1>0, <1>a
  <2>4. ASSUME NEW j \in DOMAIN b.sides PROVE b.sides[j].exchange <= b.consumed
    <3>1. b.sides[j].exchange <= a.consumed /\ b.sides[j].exchange \in Nat
      BY <1>0, <1>t, <2>2
    <3> QED BY <3>1, <1>0, <1>a
  <2>5. ASSUME NEW i \in DOMAIN b.entries, NEW l \in DOMAIN b.entries,
               b.entries[i].exchange # None, b.entries[i].exchange = b.entries[l].exchange
        PROVE  i = l
    <3>1. a.entries[i].exchange # None /\ a.entries[i].exchange = a.entries[l].exchange => i = l
      BY <1>0, <1>1 DEF ExchangesApart
    <3>2. /\ a.entries[i].exchange <= a.consumed /\ a.entries[i].exchange \in Nat
          /\ a.entries[l].exchange <= a.consumed /\ a.entries[l].exchange \in Nat
      BY <1>1, <1>t, <2>1
    <3>3. /\ \/ b.entries[i].exchange = a.entries[i].exchange
             \/ i = x /\ b.consumed = a.consumed + 1 /\ b.entries[i].exchange = b.consumed
          /\ \/ b.entries[l].exchange = a.entries[l].exchange
             \/ l = x /\ b.consumed = a.consumed + 1 /\ b.entries[l].exchange = b.consumed
      BY <1>1, <1>x
    <3> QED BY <3>1, <3>2, <3>3, <2>5, <1>a, SMTT(30)
  <2>6. \A j, l \in DOMAIN b.sides : b.sides[j].exchange = b.sides[l].exchange => j = l
    BY <1>0 DEF ExchangesApart
  <2>7. ASSUME NEW i \in DOMAIN b.entries, NEW j \in DOMAIN b.sides
        PROVE  b.entries[i].exchange # b.sides[j].exchange
    <3>1. a.entries[i].exchange # a.sides[j].exchange /\ j \in DOMAIN a.sides /\ b.sides[j] = a.sides[j]
      BY <1>0, <1>1 DEF ExchangesApart
    <3>2. a.sides[j].exchange <= a.consumed /\ a.sides[j].exchange \in Nat
      BY <1>t, <2>2, <3>1
    <3>3. \/ b.entries[i].exchange = a.entries[i].exchange
          \/ b.consumed = a.consumed + 1 /\ b.entries[i].exchange = b.consumed
      BY <1>1, <1>x
    <3> QED BY <3>1, <3>2, <3>3, <1>a
  <2> QED BY <2>3, <2>4, <2>5, <2>6, <2>7 DEF ExchangesApart
<1>5. Obtained(b, out, kids)
  <2>1. \A i \in DOMAIN b.entries : b.entries[i].result => out[<<"turn", i>>] # <<>>
    BY <1>1, <1>2 DEF MessageChange
  <2>2. a.budget.on => b.budget.on
    BY DEF MessagesChange
  <2> QED BY <1>0, <2>1, <2>2 DEF Obtained
<1>6. AnswersApart(b)
  <2>1. \A i \in DOMAIN b.entries : b.entries[i].attached = a.entries[i].attached
    BY <1>1, <1>2 DEF MessageChange
  <2> QED BY <1>0, <1>1, <2>1 DEF AnswersApart
<1> QED BY <1>3, <1>4, <1>5, <1>6 DEF Sanctioned

SidesChange(a, b, out) ==
    /\ b.entries = a.entries /\ b.forks = a.forks /\ Len(b.sides) = Len(a.sides)
    /\ b.consumed = a.consumed /\ (a.budget.on => b.budget.on)
    /\ \A j \in 1..Len(a.sides) :
         /\ SideMove(a.sides[j], b.sides[j])
         /\ b.sides[j].state = "completed" => out[<<"side", j>>] # <<>>

LEMMA SidesSanctioned ==
    ASSUME NEW a, NEW b, NEW out, NEW kids,
           Fits(a), Fits(b), SoundRecord(a, out, kids), SidesChange(a, b, out)
    PROVE  Sanctioned(a, b, out, kids)
<1>0. /\ ExchangesApart(a) /\ Obtained(a, out, kids) /\ AnswersApart(a)
      /\ b.entries = a.entries /\ b.forks = a.forks /\ Len(b.sides) = Len(a.sides)
      /\ b.consumed = a.consumed
  BY DEF SoundRecord, SidesChange
<1>a. /\ DOMAIN a.entries = 1..Len(a.entries) /\ DOMAIN b.sides = 1..Len(b.sides)
      /\ DOMAIN a.sides = 1..Len(a.sides) /\ DOMAIN a.forks = 1..Len(a.forks)
      /\ Len(a.entries) \in Nat /\ Len(a.sides) \in Nat /\ Len(a.forks) \in Nat
      /\ a.consumed \in Nat
  BY FitTypes
<1>1. DOMAIN b.sides = DOMAIN a.sides
  BY <1>0, <1>a
<1>2. \A j \in DOMAIN a.sides : SideMove(a.sides[j], b.sides[j])
  BY <1>a DEF SidesChange
<1>x. \A j \in DOMAIN a.sides :
        /\ b.sides[j].exchange = a.sides[j].exchange
        /\ a.sides[j].state = "completed" => b.sides[j].state = "completed"
  BY <1>2 DEF SideMove
<1>3. Moves(a, b)
  <2>1. EntriesMove(a, b) /\ ForksMove(a, b)
    BY <1>0, StillMoves
  <2>2. SidesMove(a, b)
    <3>1. ASSUME NEW j \in 1..Len(b.sides) PROVE j <= Len(a.sides) /\ SideMove(a.sides[j], b.sides[j])
      BY <1>0, <1>a, <1>2
    <3> QED BY <1>0, <1>a, <3>1 DEF SidesMove
  <2> QED BY <1>0, <1>a, <2>1, <2>2 DEF Moves
<1>4. ExchangesApart(b)
  <2>1. /\ \A i \in DOMAIN a.entries : a.entries[i].exchange <= a.consumed
        /\ \A j \in DOMAIN a.sides : a.sides[j].exchange <= a.consumed
        /\ \A i, l \in DOMAIN a.entries :
             a.entries[i].exchange # None /\ a.entries[i].exchange = a.entries[l].exchange => i = l
        /\ \A j, l \in DOMAIN a.sides : a.sides[j].exchange = a.sides[l].exchange => j = l
        /\ \A i \in DOMAIN a.entries, j \in DOMAIN a.sides : a.entries[i].exchange # a.sides[j].exchange
    BY <1>0 DEF ExchangesApart
  <2> QED BY <1>0, <1>1, <1>x, <2>1 DEF ExchangesApart
<1>5. Obtained(b, out, kids)
  <2>1. \A j \in DOMAIN b.sides : b.sides[j].state = "completed" => out[<<"side", j>>] # <<>>
    BY <1>1, <1>a DEF SidesChange
  <2>2. a.budget.on => b.budget.on
    BY DEF SidesChange
  <2> QED BY <1>0, <2>1, <2>2 DEF Obtained
<1>6. AnswersApart(b)
  BY <1>0, <1>1, <1>x DEF AnswersApart
<1> QED BY <1>3, <1>4, <1>5, <1>6 DEF Sanctioned

ForksChange(a, b, kids) ==
    /\ b.entries = a.entries /\ b.sides = a.sides /\ b.consumed = a.consumed
    /\ Len(b.forks) >= Len(a.forks) /\ (a.budget.on => b.budget.on)
    /\ \A f \in 1..Len(b.forks) :
         IF f <= Len(a.forks)
         THEN ForkMove(a.forks[f], b.forks[f]) /\ (b.forks[f] = "published" => f \in kids)
         ELSE b.forks[f] = "reserved"

LEMMA ForksSanctioned ==
    ASSUME NEW a, NEW b, NEW out, NEW kids,
           Fits(a), Fits(b), SoundRecord(a, out, kids), ForksChange(a, b, kids)
    PROVE  Sanctioned(a, b, out, kids)
<1>0. /\ ExchangesApart(a) /\ Obtained(a, out, kids) /\ AnswersApart(a)
      /\ b.entries = a.entries /\ b.sides = a.sides /\ b.consumed = a.consumed
      /\ Len(b.forks) >= Len(a.forks) /\ (a.budget.on => b.budget.on)
  BY DEF SoundRecord, ForksChange
<1>1. /\ DOMAIN a.entries = 1..Len(a.entries) /\ DOMAIN b.forks = 1..Len(b.forks)
      /\ DOMAIN a.sides = 1..Len(a.sides) /\ DOMAIN a.forks = 1..Len(a.forks)
      /\ Len(a.entries) \in Nat /\ Len(a.sides) \in Nat /\ Len(a.forks) \in Nat
      /\ Len(b.forks) \in Nat /\ a.consumed \in Nat
  BY <1>0, FitParts, SessionAssumption
<1>2. ASSUME NEW f \in DOMAIN b.forks
      PROVE  IF f <= Len(a.forks)
             THEN ForkMove(a.forks[f], b.forks[f]) /\ (b.forks[f] = "published" => f \in kids)
             ELSE b.forks[f] = "reserved"
  BY <1>1 DEF ForksChange
<1>3. Moves(a, b)
  <2>1. EntriesMove(a, b) /\ SidesMove(a, b)
    BY <1>0, StillMoves
  <2>2. ForksMove(a, b)
    BY <1>0, <1>1, <1>2 DEF ForksMove
  <2> QED BY <1>0, <1>1, <2>1, <2>2 DEF Moves
<1>4. ExchangesApart(b)
  BY <1>0 DEF ExchangesApart
<1>5. Obtained(b, out, kids)
  BY <1>0, <1>1, <1>2 DEF Obtained
<1>6. AnswersApart(b)
  BY <1>0 DEF AnswersApart
<1> QED BY <1>3, <1>4, <1>5, <1>6 DEF Sanctioned

(* A message more: a new one, or a side answer that is in none yet.        *)
NewMessage(a, e) ==
    /\ e.status = "queued" /\ e.exchange = None /\ e.result = FALSE
    /\ e.attached # 0 =>
         /\ e.attached \in DOMAIN a.sides /\ a.sides[e.attached].state = "completed"
         /\ \A i \in DOMAIN a.entries : a.entries[i].attached # e.attached
MessageAdded(a, b) ==
    /\ Len(b.entries) = Len(a.entries) + 1 /\ \A i \in 1..Len(a.entries) : b.entries[i] = a.entries[i]
    /\ NewMessage(a, b.entries[Len(a.entries) + 1])
    /\ b.sides = a.sides /\ b.forks = a.forks /\ b.consumed = a.consumed /\ b.budget = a.budget

LEMMA MessageSanctioned ==
    ASSUME NEW a, NEW b, NEW out, NEW kids,
           Fits(a), Fits(b), SoundRecord(a, out, kids), MessageAdded(a, b)
    PROVE  Sanctioned(a, b, out, kids)
<1> DEFINE n == Len(a.entries) + 1
<1>0. /\ ExchangesApart(a) /\ Obtained(a, out, kids) /\ AnswersApart(a)
      /\ Len(b.entries) = n /\ NewMessage(a, b.entries[n])
      /\ b.sides = a.sides /\ b.forks = a.forks /\ b.consumed = a.consumed /\ b.budget = a.budget
  BY DEF SoundRecord, MessageAdded
<1>1. /\ DOMAIN a.entries = 1..Len(a.entries) /\ DOMAIN b.entries = 1..Len(b.entries)
      /\ DOMAIN a.sides = 1..Len(a.sides) /\ DOMAIN a.forks = 1..Len(a.forks)
      /\ Len(a.entries) \in Nat /\ Len(a.sides) \in Nat /\ Len(a.forks) \in Nat
      /\ a.consumed \in Nat
  BY FitTypes
<1>t. \A j \in DOMAIN a.sides : a.sides[j].exchange \in Nat /\ a.sides[j].exchange # 0
  BY FitTypes
<1>2. /\ \A i \in DOMAIN b.entries : i = n \/ (i \in DOMAIN a.entries /\ b.entries[i] = a.entries[i])
      /\ \A i \in 1..Len(a.entries) : i \in DOMAIN b.entries
  BY <1>0, <1>1 DEF MessageAdded
<1>3. /\ b.entries[n].status = "queued" /\ b.entries[n].exchange = None /\ b.entries[n].result = FALSE
      /\ b.entries[n].attached # 0 =>
           /\ b.entries[n].attached \in DOMAIN a.sides /\ a.sides[b.entries[n].attached].state = "completed"
           /\ \A i \in DOMAIN a.entries : a.entries[i].attached # b.entries[n].attached
  BY <1>0 DEF NewMessage
<1>4. Moves(a, b)
  <2>1. EntriesMove(a, b)
    <3>1. ASSUME NEW i \in 1..Len(b.entries)
          PROVE  IF i <= Len(a.entries) THEN EntryMove(a.entries[i], b.entries[i])
                 ELSE b.entries[i].status = "queued" /\ b.entries[i].exchange = None
      <4>1. CASE i <= Len(a.entries)
        <5>1. b.entries[i] = a.entries[i]
          BY <4>1, <1>1 DEF MessageAdded
        <5> QED BY <4>1, <5>1 DEF EntryMove
      <4>2. CASE ~(i <= Len(a.entries))
        <5>1. i = n
          BY <4>2, <1>0, <1>1
        <5> QED BY <4>2, <5>1, <1>3
      <4> QED BY <4>1, <4>2
    <3>2. Len(a.entries) <= Len(b.entries)
      BY <1>0, <1>1
    <3> QED BY <3>1, <3>2 DEF EntriesMove
  <2>2. SidesMove(a, b) /\ ForksMove(a, b)
    BY <1>0, StillMoves
  <2> QED BY <1>0, <1>1, <2>1, <2>2 DEF Moves
<1>5. ExchangesApart(b)
  <2>1. /\ \A i \in DOMAIN a.entries : a.entries[i].exchange <= a.consumed
        /\ \A j \in DOMAIN a.sides : a.sides[j].exchange <= a.consumed
        /\ \A i, l \in DOMAIN a.entries :
             a.entries[i].exchange # None /\ a.entries[i].exchange = a.entries[l].exchange => i = l
        /\ \A j, l \in DOMAIN a.sides : a.sides[j].exchange = a.sides[l].exchange => j = l
        /\ \A i \in DOMAIN a.entries, j \in DOMAIN a.sides : a.entries[i].exchange # a.sides[j].exchange
    BY <1>0 DEF ExchangesApart
  <2>2. b.entries[n].exchange = None /\ None <= b.consumed /\ \A j \in DOMAIN a.sides : a.sides[j].exchange # None
    BY <1>0, <1>1, <1>t, <1>3 DEF None
  <2> HIDE DEF n
  <2>3. \A i \in DOMAIN b.entries : b.entries[i].exchange <= b.consumed
    BY <1>0, <1>2, <2>1, <2>2
  <2>4. \A i, l \in DOMAIN b.entries :
          b.entries[i].exchange # None /\ b.entries[i].exchange = b.entries[l].exchange => i = l
    BY <1>2, <2>1, <2>2
  <2>5. \A i \in DOMAIN b.entries, j \in DOMAIN b.sides : b.entries[i].exchange # b.sides[j].exchange
    BY <1>0, <1>2, <2>1, <2>2
  <2> QED BY <1>0, <2>1, <2>3, <2>4, <2>5 DEF ExchangesApart
<1>6. Obtained(b, out, kids)
  <2>1. \A i \in DOMAIN b.entries : b.entries[i].result => i \in DOMAIN a.entries /\ a.entries[i].result
    BY <1>2, <1>3
  <2> QED BY <1>0, <2>1 DEF Obtained
<1>7. AnswersApart(b)
  <2>1. /\ \A i \in DOMAIN a.entries : a.entries[i].attached # 0 =>
             /\ a.entries[i].attached \in DOMAIN a.sides
             /\ a.sides[a.entries[i].attached].state = "completed"
        /\ \A i, l \in DOMAIN a.entries :
             a.entries[i].attached # 0 /\ a.entries[i].attached = a.entries[l].attached => i = l
    BY <1>0 DEF AnswersApart
  <2> HIDE DEF n
  <2>2. \A i \in DOMAIN b.entries : b.entries[i].attached # 0 =>
          /\ b.entries[i].attached \in DOMAIN b.sides
          /\ b.sides[b.entries[i].attached].state = "completed"
    <3> TAKE i \in DOMAIN b.entries
    <3>1. CASE i \in DOMAIN a.entries /\ b.entries[i] = a.entries[i]
      BY <3>1, <1>0, <2>1
    <3>2. CASE i = n
      BY <3>2, <1>0, <1>3
    <3> QED BY <1>2, <3>1, <3>2
  <2>3. ASSUME NEW i \in DOMAIN b.entries, NEW l \in DOMAIN b.entries,
               b.entries[i].attached # 0, b.entries[i].attached = b.entries[l].attached
        PROVE  i = l
    <3>1. CASE /\ i \in DOMAIN a.entries /\ b.entries[i] = a.entries[i]
               /\ l \in DOMAIN a.entries /\ b.entries[l] = a.entries[l]
      BY <3>1, <2>3, <2>1
    <3>2. CASE i = n
      BY <3>2, <2>3, <1>2, <1>3
    <3>3. CASE l = n
      BY <3>3, <2>3, <1>2, <1>3
    <3> QED BY <1>2, <3>1, <3>2, <3>3
  <2> QED BY <2>2, <2>3 DEF AnswersApart
<1> QED BY <1>4, <1>5, <1>6, <1>7 DEF Sanctioned

(* A side question more, with the next exchange.                           *)
SideAdded(a, b) ==
    /\ Len(b.sides) = Len(a.sides) + 1 /\ \A j \in 1..Len(a.sides) : b.sides[j] = a.sides[j]
    /\ b.sides[Len(a.sides) + 1].state = "running"
    /\ b.sides[Len(a.sides) + 1].exchange = a.consumed + 1 /\ b.consumed = a.consumed + 1
    /\ b.entries = a.entries /\ b.forks = a.forks /\ b.budget.on

LEMMA SideSanctioned ==
    ASSUME NEW a, NEW b, NEW out, NEW kids,
           Fits(a), Fits(b), SoundRecord(a, out, kids), SideAdded(a, b)
    PROVE  Sanctioned(a, b, out, kids)
<1> DEFINE n == Len(a.sides) + 1
<1>0. /\ ExchangesApart(a) /\ Obtained(a, out, kids) /\ AnswersApart(a)
      /\ Len(b.sides) = n /\ b.sides[n].state = "running"
      /\ b.sides[n].exchange = a.consumed + 1 /\ b.consumed = a.consumed + 1
      /\ b.entries = a.entries /\ b.forks = a.forks
  BY DEF SoundRecord, SideAdded
<1>1. /\ DOMAIN a.entries = 1..Len(a.entries) /\ DOMAIN b.sides = 1..Len(b.sides)
      /\ DOMAIN a.sides = 1..Len(a.sides) /\ DOMAIN a.forks = 1..Len(a.forks)
      /\ Len(a.entries) \in Nat /\ Len(a.sides) \in Nat /\ Len(a.forks) \in Nat
      /\ a.consumed \in Nat
  BY FitTypes
<1>t. /\ \A j \in DOMAIN a.sides : a.sides[j].exchange \in Nat /\ a.sides[j].exchange # 0
      /\ \A i \in DOMAIN a.entries : a.entries[i].exchange \in Nat
  BY FitTypes
<1>2. /\ \A j \in DOMAIN b.sides : j = n \/ (j \in DOMAIN a.sides /\ b.sides[j] = a.sides[j])
      /\ \A j \in DOMAIN a.sides : j \in DOMAIN b.sides /\ b.sides[j] = a.sides[j]
  BY <1>0, <1>1, SMTT(30) DEF SideAdded
<1>4. Moves(a, b)
  <2>1. EntriesMove(a, b) /\ ForksMove(a, b)
    BY <1>0, StillMoves
  <2>2. SidesMove(a, b)
    <3>1. ASSUME NEW j \in 1..Len(b.sides)
          PROVE  IF j <= Len(a.sides) THEN SideMove(a.sides[j], b.sides[j]) ELSE b.sides[j].state = "running"
      <4>1. CASE j <= Len(a.sides)
        BY <4>1, <1>0, <1>1, <1>2, SMTT(30) DEF SideMove
      <4>2. CASE ~(j <= Len(a.sides))
        <5>1. j = n
          BY <4>2, <1>0, <1>1
        <5> QED BY <4>2, <5>1, <1>0
      <4> QED BY <4>1, <4>2
    <3>2. Len(a.sides) <= Len(b.sides)
      BY <1>0, <1>1
    <3> QED BY <3>1, <3>2 DEF SidesMove
  <2> QED BY <1>0, <1>1, <2>1, <2>2 DEF Moves
<1>5. ExchangesApart(b)
  <2>1. /\ \A i \in DOMAIN a.entries : a.entries[i].exchange <= a.consumed
        /\ \A j \in DOMAIN a.sides : a.sides[j].exchange <= a.consumed
        /\ \A i, l \in DOMAIN a.entries :
             a.entries[i].exchange # None /\ a.entries[i].exchange = a.entries[l].exchange => i = l
        /\ \A j, l \in DOMAIN a.sides : a.sides[j].exchange = a.sides[l].exchange => j = l
        /\ \A i \in DOMAIN a.entries, j \in DOMAIN a.sides : a.entries[i].exchange # a.sides[j].exchange
    BY <1>0 DEF ExchangesApart
  <2> DEFINE m == a.consumed
             y == b.sides[n].exchange
  <2>2. m \in Nat /\ y = m + 1 /\ b.consumed = m + 1
    BY <1>0, <1>1
  <2>3. \A i \in DOMAIN b.entries : b.entries[i].exchange <= b.consumed /\ b.entries[i].exchange # y
    BY <1>0, <1>t, <2>1, <2>2
  <2>4. \A j \in DOMAIN a.sides : a.sides[j].exchange <= b.consumed /\ a.sides[j].exchange # y
    BY <1>t, <2>1, <2>2
  <2>5. y <= b.consumed
    BY <2>2
  <2> HIDE DEF n
  <2>6. \A j \in DOMAIN b.sides : b.sides[j].exchange <= b.consumed
    BY <1>2, <2>4, <2>5
  <2>7. ASSUME NEW j \in DOMAIN b.sides, NEW l \in DOMAIN b.sides,
               b.sides[j].exchange = b.sides[l].exchange
        PROVE  j = l
    BY <1>2, <2>1, <2>4, <2>7
  <2>8. ASSUME NEW i \in DOMAIN b.entries, NEW j \in DOMAIN b.sides
        PROVE  b.entries[i].exchange # b.sides[j].exchange
    BY <1>0, <1>2, <2>1, <2>3
  <2>9. \A i, l \in DOMAIN b.entries :
          b.entries[i].exchange # None /\ b.entries[i].exchange = b.entries[l].exchange => i = l
    BY <1>0, <2>1
  <2> QED BY <2>3, <2>6, <2>7, <2>8, <2>9 DEF ExchangesApart
<1>6. Obtained(b, out, kids)
  <2>1. \A j \in DOMAIN b.sides : b.sides[j].state = "completed" => j \in DOMAIN a.sides /\ a.sides[j].state = "completed"
    BY <1>0, <1>2
  <2>2. b.budget.on
    BY DEF SideAdded
  <2> QED BY <1>0, <2>1, <2>2 DEF Obtained
<1>7. AnswersApart(b)
  BY <1>0, <1>2 DEF AnswersApart
<1> QED BY <1>4, <1>5, <1>6, <1>7 DEF Sanctioned

-----------------------------------------------------------------------------
(* Steps: what a handler must show beside its change being sanctioned.     *)

TasksTyped ==
    /\ {alive, broken, recovering, provider} \subseteq BOOLEAN
    /\ turn \in [at : {"idle", "scope", "admitted", "sent"}, entry : 0..MaxEntries,
                 exchange : {None} \cup Exchange]
    /\ side \in [at : {"idle", "admitted", "sent"}, entry : 0..MaxSides,
                 exchange : {None} \cup Exchange]
    /\ answers \subseteq 1..MaxSides /\ children \subseteq 1..MaxForks
    /\ pending \in [what : {"nothing", "attach", "publish", "published", "unpublished"},
                    id : 0..MaxSides + MaxForks]

StepSound == SessionInv' /\ (disk' = disk \/ Finality(disk, disk'))

LEMMA InvParts ==
    ASSUME SessionInv
    PROVE  /\ Fits(mem) /\ Fits(disk) /\ TasksTyped /\ OutsideTyped /\ Quiet
           /\ SoundRecord(disk, sent, children)
           /\ TurnHeld(disk, sent) /\ SideHeld(disk, sent) /\ ForkHeld(disk, children)
           /\ ~broken => mem = disk /\ AnswersHeld(disk) /\ ScopeHeld(disk)
BY DEF SessionInv, SessionTypeOK, Fits, TasksTyped, Kept

LEMMA InvWhole ==
    ASSUME Fits(mem)', Fits(disk)', TasksTyped', OutsideTyped', Quiet',
           SoundRecord(disk, sent, children)',
           TurnHeld(disk, sent)', SideHeld(disk, sent)', ForkHeld(disk, children)',
           (~broken => mem = disk /\ AnswersHeld(disk) /\ ScopeHeld(disk))'
    PROVE  SessionInv'
BY DEF SessionInv, SessionTypeOK, Fits, TasksTyped, Kept

LEMMA StepConcluded ==
    ASSUME SessionInv, NEW b, ~broken => Sanctioned(disk, b, sent, children), Commits(b),
           sent' = sent, children' = children, TasksTyped', Quiet',
           TurnHeld(disk, sent)', SideHeld(disk, sent)', ForkHeld(disk, children)',
           (~broken => AnswersHeld(disk) /\ ScopeHeld(disk))'
    PROVE  StepSound
<1>1. /\ Fits(mem') /\ Fits(disk') /\ SoundRecord(disk', sent, children)
      /\ Saved(b) \/ ~broken' => mem' = disk'
      /\ disk' = disk \/ Finality(disk, disk')
  BY Committed
<1>2. OutsideTyped'
  BY DEF SessionInv, OutsideTyped
<1>3. SessionInv'
  BY <1>1, <1>2, InvWhole
<1> QED BY <1>1, <1>3 DEF StepSound

(* What a task holds stays when its message, side or fork does.            *)
RunningStays(a, c) ==
    \A i \in DOMAIN a.entries : a.entries[i].status = "running" =>
      /\ i \in DOMAIN c.entries
      /\ c.entries[i].status = "running" /\ c.entries[i].exchange = a.entries[i].exchange
AskingStays(a, c) ==
    \A j \in DOMAIN a.sides : a.sides[j].state = "running" =>
      /\ j \in DOMAIN c.sides
      /\ c.sides[j].state = "running" /\ c.sides[j].exchange = a.sides[j].exchange

LEMMA TurnStays ==
    ASSUME TurnHeld(disk, sent), turn' = turn, sent' = sent, disk' = disk \/ RunningStays(disk, disk')
    PROVE  TurnHeld(disk, sent)'
BY DEF TurnHeld, RunningStays

LEMMA SideStays ==
    ASSUME SideHeld(disk, sent), side' = side, sent' = sent, disk' = disk \/ AskingStays(disk, disk')
    PROVE  SideHeld(disk, sent)'
BY DEF SideHeld, AskingStays

(* Between its two saves the controller does nothing else.                 *)
LEMMA NothingPending ==
    ASSUME pending' = NoPending
    PROVE  ForkHeld(disk, children)'
BY DEF ForkHeld, NoPending

-----------------------------------------------------------------------------
(* Messages are submitted and side answers attached.                       *)

LEMMA NewEntryIs ==
    ASSUME Fits(mem), NEW kind \in Kinds, NEW j \in 0..MaxSides
    PROVE  /\ NewEntry(kind, j) \in Entry
           /\ NewEntry(kind, j).status = "queued" /\ NewEntry(kind, j).exchange = None
           /\ NewEntry(kind, j).result = FALSE /\ NewEntry(kind, j).attached = j
<1> DEFINE target == IF kind = "chat" /\ ActiveChat # {} THEN CHOOSE i \in ActiveChat : TRUE ELSE None
<1>1. target \in 0..MaxEntries
  <2>1. Len(mem.entries) \in Nat /\ Len(mem.entries) <= MaxEntries /\ MaxEntries \in Nat
    BY FitTypes, SessionAssumption DEF Fits
  <2>2. ActiveChat \subseteq 1..MaxEntries
    BY <2>1 DEF ActiveChat
  <2>3. ActiveChat # {} => (CHOOSE i \in ActiveChat : TRUE) \in ActiveChat
    OBVIOUS
  <2>4. target = None \/ target \in ActiveChat
    BY <2>3
  <2>5. None \in 0..MaxEntries /\ 1..MaxEntries \subseteq 0..MaxEntries
    BY <2>1 DEF None
  <2> HIDE DEF target
  <2> QED BY <2>2, <2>4, <2>5
<1>2. NewEntry(kind, j) = [kind |-> kind, status |-> "queued", steering |-> target,
                           attached |-> j, exchange |-> None, result |-> FALSE]
  BY DEF NewEntry
<1> HIDE DEF target
<1> QED BY <1>1, <1>2 DEF Entry

LEMMA WithEntryIs ==
    ASSUME Fits(mem), NEW e \in Entry, Len(mem.entries) < MaxEntries
    PROVE  /\ Fits(WithEntry(e))
           /\ WithEntry(e).sides = mem.sides /\ WithEntry(e).forks = mem.forks
           /\ WithEntry(e).consumed = mem.consumed /\ WithEntry(e).budget = mem.budget
           /\ Len(WithEntry(e).entries) = Len(mem.entries) + 1
           /\ \A i \in 1..Len(mem.entries) : WithEntry(e).entries[i] = mem.entries[i]
           /\ WithEntry(e).entries[Len(mem.entries) + 1] = e
<1> DEFINE b == WithEntry(e)
           ents == Append(mem.entries, e)
<1>1. /\ mem.entries \in Seq(Entry) /\ mem \in SessionRecord /\ Len(mem.entries) \in Nat /\ MaxEntries \in Nat
      /\ Len(mem.sides) <= MaxSides /\ Len(mem.forks) <= MaxForks
  BY FitParts, FitTypes, SessionAssumption DEF Fits
<1>2. /\ ents \in Seq(Entry) /\ Len(ents) = Len(mem.entries) + 1 /\ ents[Len(mem.entries) + 1] = e
      /\ \A i \in 1..Len(mem.entries) : ents[i] = mem.entries[i]
  BY <1>1, AppendProperties
<1>3. b = [mem EXCEPT !.entries = ents]
  BY DEF WithEntry
<1> HIDE DEF b, ents
<1>4. /\ b \in SessionRecord /\ b.entries = ents /\ b.sides = mem.sides /\ b.forks = mem.forks
      /\ b.consumed = mem.consumed /\ b.budget = mem.budget
  BY <1>1, <1>2, <1>3 DEF SessionRecord
<1>5. Fits(b)
  BY <1>1, <1>2, <1>4 DEF Fits
<1> QED BY <1>2, <1>4, <1>5 DEF b

(* Appending a message leaves the tasks what they hold.                    *)
LEMMA AddedStays ==
    ASSUME NEW a, NEW b, NEW c, Fits(a), Fits(c), MessageAdded(a, b), c.entries = b.entries, c.sides = b.sides
    PROVE  RunningStays(a, c) /\ AskingStays(a, c)
<1>1. /\ DOMAIN a.entries = 1..Len(a.entries) /\ DOMAIN c.entries = 1..Len(c.entries)
      /\ Len(a.entries) \in Nat /\ Len(c.entries) = Len(a.entries) + 1
      /\ \A i \in 1..Len(a.entries) : c.entries[i] = a.entries[i]
      /\ c.sides = a.sides
  BY FitTypes DEF MessageAdded
<1> QED BY <1>1 DEF RunningStays, AskingStays

LEMMA SubmitKeeps ==
    ASSUME SessionInv, NEW kind \in Kinds, Submit(kind)
    PROVE  StepSound
<1> DEFINE e == NewEntry(kind, 0)
           b == WithEntry(e)
<1>0. /\ Usable /\ Len(mem.entries) < MaxEntries /\ (Saved(b) \/ Unsaved(b))
      /\ UNCHANGED <<alive, recovering, turn, side, provider, answers, pending, sent, children>>
  BY DEF Submit
<1>1. /\ Fits(mem) /\ Fits(disk) /\ TasksTyped /\ SoundRecord(disk, sent, children)
      /\ Quiet /\ TurnHeld(disk, sent) /\ SideHeld(disk, sent)
      /\ ~broken /\ mem = disk /\ AnswersHeld(disk) /\ ScopeHeld(disk) /\ pending = NoPending
  BY <1>0, InvParts DEF Saved, Unsaved, Usable
<1>2. /\ e \in Entry /\ e.status = "queued" /\ e.exchange = None /\ e.result = FALSE /\ e.attached = 0
  <2>1. 0 \in 0..MaxSides
    BY SessionAssumption
  <2> QED BY <1>1, <2>1, NewEntryIs
<1> HIDE DEF e
<1>3. /\ Fits(b) /\ b.sides = mem.sides /\ b.forks = mem.forks
      /\ b.consumed = mem.consumed /\ b.budget = mem.budget
      /\ Len(b.entries) = Len(mem.entries) + 1
      /\ \A i \in 1..Len(mem.entries) : b.entries[i] = mem.entries[i]
      /\ b.entries[Len(mem.entries) + 1] = e
  BY <1>0, <1>1, <1>2, WithEntryIs
<1> HIDE DEF b
<1>4. MessageAdded(disk, b)
  BY <1>1, <1>2, <1>3 DEF MessageAdded, NewMessage
<1>5. Commits(b) /\ Sanctioned(disk, b, sent, children)
  BY <1>0, <1>1, <1>3, <1>4, MessageSanctioned DEF Commits
<1>6. /\ Fits(disk') /\ broken' \in BOOLEAN
      /\ disk' = disk \/ (disk'.entries = b.entries /\ disk'.sides = b.sides)
      /\ ~broken' => disk'.entries = b.entries /\ disk'.sides = b.sides
  BY <1>5, Committed
<1>7. disk' = disk \/ (RunningStays(disk, disk') /\ AskingStays(disk, disk'))
  BY <1>1, <1>4, <1>6, AddedStays
<1>8. TurnHeld(disk, sent)' /\ SideHeld(disk, sent)' /\ ForkHeld(disk, children)'
  BY <1>0, <1>1, <1>7, TurnStays, SideStays, NothingPending
<1>9. TasksTyped' /\ Quiet'
  BY <1>0, <1>1, <1>6 DEF TasksTyped, Quiet
<1>10. (~broken => AnswersHeld(disk) /\ ScopeHeld(disk))'
  <2> SUFFICES ASSUME ~broken' PROVE AnswersHeld(disk)' /\ ScopeHeld(disk)'
    OBVIOUS
  <2>1. /\ DOMAIN disk.entries = 1..Len(disk.entries) /\ DOMAIN disk'.entries = 1..Len(disk'.entries)
        /\ Len(disk.entries) \in Nat /\ Len(disk'.entries) = Len(disk.entries) + 1
        /\ \A i \in 1..Len(disk.entries) : disk'.entries[i] = disk.entries[i]
        /\ disk'.entries[Len(disk.entries) + 1].attached = 0 /\ disk'.sides = disk.sides
    BY <1>1, <1>2, <1>3, <1>6, FitTypes
  <2>2. \A i \in DOMAIN disk'.entries : disk'.entries[i].attached # 0 =>
          i \in DOMAIN disk.entries /\ disk'.entries[i] = disk.entries[i]
    BY <2>1
  <2>3. AnswersHeld(disk)'
    BY <1>0, <1>1, <2>1, <2>2 DEF AnswersHeld
  <2>4. ScopeHeld(disk)'
    BY <1>0, <1>1, <2>1 DEF ScopeHeld
  <2> QED BY <2>3, <2>4
<1> QED BY <1>0, <1>1, <1>5, <1>8, <1>9, <1>10, StepConcluded

LEMMA AttachKeeps ==
    ASSUME SessionInv, NEW j \in 1..Len(mem.sides), AttachSide(j)
    PROVE  StepSound
<1> DEFINE e == NewEntry("chat", j)
           b == WithEntry(e)
<1>0. /\ Usable /\ Len(mem.entries) < MaxEntries
      /\ j \in answers /\ mem.sides[j].state = "completed" /\ ~mem.sides[j].marked
      /\ \/ Saved(b) /\ pending' = [what |-> "attach", id |-> j]
         \/ Unsaved(b) /\ pending' = pending
      /\ UNCHANGED <<alive, recovering, turn, side, provider, answers, sent, children>>
  BY DEF AttachSide
<1>1. /\ Fits(mem) /\ Fits(disk) /\ TasksTyped /\ SoundRecord(disk, sent, children)
      /\ Quiet /\ TurnHeld(disk, sent) /\ SideHeld(disk, sent)
      /\ ~broken /\ mem = disk /\ AnswersHeld(disk) /\ ScopeHeld(disk)
      /\ pending = NoPending /\ alive /\ ~recovering
  BY <1>0, InvParts DEF Saved, Unsaved, Usable
<1>n. /\ j \in 0..MaxSides /\ j # 0 /\ j \in DOMAIN disk.sides /\ j \in 0..MaxSides + MaxForks
      /\ "chat" \in Kinds
  BY <1>1, FitTypes, SessionAssumption DEF Fits
<1>2. /\ e \in Entry /\ e.status = "queued" /\ e.exchange = None /\ e.result = FALSE /\ e.attached = j
  BY <1>1, <1>n, NewEntryIs
<1> HIDE DEF e
<1>3. /\ Fits(b) /\ b.sides = mem.sides /\ b.forks = mem.forks
      /\ b.consumed = mem.consumed /\ b.budget = mem.budget
      /\ Len(b.entries) = Len(mem.entries) + 1
      /\ \A i \in 1..Len(mem.entries) : b.entries[i] = mem.entries[i]
      /\ b.entries[Len(mem.entries) + 1] = e
  BY <1>0, <1>1, <1>2, WithEntryIs
<1> HIDE DEF b
<1>h. \A i \in DOMAIN disk.entries : disk.entries[i].attached # j
  <2>1. NoPending # [what |-> "attach", id |-> j]
    BY DEF NoPending
  <2> QED BY <2>1, <1>0, <1>1, <1>n DEF AnswersHeld
<1>4. MessageAdded(disk, b)
  <2>1. NewMessage(disk, e)
    BY <1>0, <1>1, <1>2, <1>n, <1>h DEF NewMessage
  <2> QED BY <2>1, <1>1, <1>3 DEF MessageAdded
<1>5. Commits(b) /\ Sanctioned(disk, b, sent, children)
  BY <1>0, <1>1, <1>3, <1>4, MessageSanctioned DEF Commits
<1>6. /\ Fits(disk') /\ broken' \in BOOLEAN
      /\ disk' = disk \/ (disk'.entries = b.entries /\ disk'.sides = b.sides)
      /\ ~broken' => disk'.entries = b.entries /\ disk'.sides = b.sides
  BY <1>5, Committed
<1>7. disk' = disk \/ (RunningStays(disk, disk') /\ AskingStays(disk, disk'))
  BY <1>1, <1>4, <1>6, AddedStays
<1>p. /\ pending' = [what |-> "attach", id |-> j] \/ pending' = NoPending
      /\ ~broken' => pending' = [what |-> "attach", id |-> j]
  BY <1>0, <1>1 DEF Unsaved
<1>8. TurnHeld(disk, sent)' /\ SideHeld(disk, sent)' /\ ForkHeld(disk, children)'
  <2>1. ForkHeld(disk, children)'
    BY <1>p DEF ForkHeld, NoPending
  <2> QED BY <1>0, <1>1, <1>7, <2>1, TurnStays, SideStays
<1>9. TasksTyped' /\ Quiet'
  <2>1. pending' \in [what : {"nothing", "attach", "publish", "published", "unpublished"},
                      id : 0..MaxSides + MaxForks]
    BY <1>0, <1>1, <1>n DEF TasksTyped
  <2> QED BY <1>0, <1>1, <1>6, <2>1 DEF TasksTyped, Quiet
<1>10. (~broken => AnswersHeld(disk) /\ ScopeHeld(disk))'
  <2> SUFFICES ASSUME ~broken' PROVE AnswersHeld(disk)' /\ ScopeHeld(disk)'
    OBVIOUS
  <2>1. /\ DOMAIN disk.entries = 1..Len(disk.entries) /\ DOMAIN disk'.entries = 1..Len(disk'.entries)
        /\ Len(disk.entries) \in Nat /\ Len(disk'.entries) = Len(disk.entries) + 1
        /\ \A i \in 1..Len(disk.entries) : disk'.entries[i] = disk.entries[i]
        /\ disk'.entries[Len(disk.entries) + 1].attached = j /\ disk'.sides = disk.sides
    BY <1>1, <1>2, <1>3, <1>6, FitTypes
  <2>2. \A i \in DOMAIN disk'.entries : \/ disk'.entries[i].attached = j
                                        \/ i \in DOMAIN disk.entries /\ disk'.entries[i] = disk.entries[i]
    BY <2>1
  <2>3. ASSUME NEW k PROVE pending # [what |-> "attach", id |-> k]
    BY <1>1 DEF NoPending
  <2>4. AnswersHeld(disk)'
    BY <1>0, <1>1, <1>p, <2>1, <2>2, <2>3 DEF AnswersHeld
  <2>5. ScopeHeld(disk)'
    BY <1>0, <1>1, <2>1 DEF ScopeHeld
  <2> QED BY <2>4, <2>5
<1> QED BY <1>0, <1>1, <1>5, <1>8, <1>9, <1>10, StepConcluded

LEMMA SequenceOf ==
    ASSUME NEW S, NEW n \in Nat, NEW f \in [1..n -> S]
    PROVE  f \in Seq(S) /\ Len(f) = n /\ DOMAIN f = 1..n
OBVIOUS

(* A side as attach_side's second save leaves it.                          *)
LEMMA MarkKeeps ==
    ASSUME SessionInv, MarkSide
    PROVE  StepSound
<1> DEFINE n == pending.id
           b == [mem EXCEPT !.sides[pending.id].marked = TRUE]
           sides == [mem.sides EXCEPT ![n] = [mem.sides[n] EXCEPT !.marked = TRUE]]
<1>0. /\ alive /\ pending.what = "attach"
      /\ \/ Saved(b) /\ answers' = answers \ {pending.id}
         \/ Unsaved(b) /\ answers' = answers
      /\ pending' = NoPending
      /\ UNCHANGED <<alive, recovering, turn, side, provider, sent, children>>
  BY DEF MarkSide
<1>1. /\ Fits(mem) /\ Fits(disk) /\ TasksTyped /\ SoundRecord(disk, sent, children)
      /\ Quiet /\ TurnHeld(disk, sent) /\ SideHeld(disk, sent)
      /\ ~broken /\ mem = disk /\ AnswersHeld(disk) /\ ScopeHeld(disk)
  BY <1>0, InvParts DEF Saved, Unsaved
<1>2. /\ mem \in SessionRecord /\ mem.sides \in Seq(SideReceipt) /\ Len(mem.sides) \in Nat
      /\ DOMAIN mem.sides = 1..Len(mem.sides)
      /\ \A j \in 1..Len(mem.sides) : mem.sides[j] \in SideReceipt
      /\ Len(mem.entries) <= MaxEntries /\ Len(mem.sides) <= MaxSides /\ Len(mem.forks) <= MaxForks
  BY <1>1, FitTypes, FitParts DEF Fits
<1>3. ASSUME NEW j \in 1..Len(mem.sides)
      PROVE  /\ sides[j] \in SideReceipt /\ sides[j].state = mem.sides[j].state
             /\ sides[j].exchange = mem.sides[j].exchange
             /\ mem.sides[j].marked = TRUE => sides[j].marked = TRUE
             /\ j = n => sides[j].marked = TRUE
  BY <1>2 DEF SideReceipt
<1>4. sides \in Seq(SideReceipt) /\ Len(sides) = Len(mem.sides)
  <2>1. DOMAIN sides = 1..Len(mem.sides) /\ sides = [j \in 1..Len(mem.sides) |-> sides[j]]
    BY <1>2
  <2> HIDE DEF sides
  <2>2. sides \in [1..Len(mem.sides) -> SideReceipt]
    BY <1>3, <2>1
  <2> QED BY <1>2, <2>2, SequenceOf
<1>5. b = [mem EXCEPT !.sides = sides]
  OBVIOUS
<1> HIDE DEF b, sides
<1>6. /\ b \in SessionRecord /\ b.entries = mem.entries /\ b.sides = sides /\ b.forks = mem.forks
      /\ b.consumed = mem.consumed /\ b.budget = mem.budget
  BY <1>2, <1>4, <1>5 DEF SessionRecord
<1>7. Fits(b)
  BY <1>2, <1>4, <1>6 DEF Fits
<1>8. SidesChange(disk, b, sent)
  <2>1. \A j \in 1..Len(disk.sides) : SideMove(disk.sides[j], b.sides[j])
    BY <1>1, <1>3, <1>6 DEF SideMove
  <2>2. \A j \in 1..Len(disk.sides) : b.sides[j].state = "completed" => sent[<<"side", j>>] # <<>>
    BY <1>1, <1>2, <1>3, <1>6 DEF SoundRecord, Obtained
  <2> QED BY <1>1, <1>4, <1>6, <2>1, <2>2 DEF SidesChange
<1>9. Commits(b) /\ Sanctioned(disk, b, sent, children)
  BY <1>0, <1>1, <1>7, <1>8, SidesSanctioned DEF Commits
<1>10. /\ Fits(disk') /\ broken' \in BOOLEAN
       /\ disk' = disk \/ (disk'.entries = b.entries /\ disk'.sides = b.sides)
       /\ ~broken' => disk'.entries = b.entries /\ disk'.sides = b.sides
  BY <1>9, Committed
<1>11. disk' = disk \/ (RunningStays(disk, disk') /\ AskingStays(disk, disk'))
  <2>1. ASSUME disk'.entries = b.entries, disk'.sides = b.sides
        PROVE  RunningStays(disk, disk') /\ AskingStays(disk, disk')
    <3>1. DOMAIN disk'.sides = DOMAIN disk.sides
      BY <1>1, <1>2, <1>4, <1>6, <1>10, <2>1, FitTypes
    <3> QED BY <1>1, <1>2, <1>3, <1>6, <2>1, <3>1, ZenonT(60) DEF RunningStays, AskingStays
  <2> QED BY <1>10, <2>1
<1>12. TurnHeld(disk, sent)' /\ SideHeld(disk, sent)' /\ ForkHeld(disk, children)'
  BY <1>0, <1>1, <1>11, TurnStays, SideStays, NothingPending
<1>13. TasksTyped' /\ Quiet'
  <2>1. pending' \in [what : {"nothing", "attach", "publish", "published", "unpublished"},
                      id : 0..MaxSides + MaxForks]
    BY <1>0, SessionAssumption DEF NoPending
  <2>2. pending # NoPending
    BY <1>0 DEF NoPending
  <2>3. Quiet'
    BY <1>0, <1>1, <2>2 DEF Quiet
  <2> QED BY <1>0, <1>1, <1>10, <2>1, <2>3 DEF TasksTyped
<1>14. (~broken => AnswersHeld(disk) /\ ScopeHeld(disk))'
  <2> SUFFICES ASSUME ~broken' PROVE AnswersHeld(disk)' /\ ScopeHeld(disk)'
    OBVIOUS
  <2>1. disk'.entries = disk.entries /\ disk'.sides = sides /\ answers' = answers \ {n}
    BY <1>0, <1>1, <1>6, <1>10 DEF Unsaved
  <2>2. ASSUME NEW i \in DOMAIN disk.entries, disk.entries[i].attached # 0,
               disk.entries[i].attached \in answers'
        PROVE  sides[disk.entries[i].attached].marked
    <3> DEFINE k == disk.entries[i].attached
    <3>1. k \in 1..Len(mem.sides)
      BY <1>1, <1>2, <2>2 DEF SoundRecord, AnswersApart
    <3>2. k \in answers /\ k # n
      BY <2>1, <2>2
    <3>3. mem.sides[k].marked
      <4>1. pending # [what |-> "attach", id |-> k]
        BY <3>2
      <4> QED BY <1>1, <2>2, <3>2, <4>1 DEF AnswersHeld
    <3> HIDE DEF k
    <3>4. mem.sides[k].marked = TRUE
      BY <1>2, <3>1, <3>3 DEF SideReceipt
    <3>5. sides[k].marked = TRUE
      BY <1>3, <3>1, <3>4
    <3> QED BY <3>5 DEF k
  <2>3. AnswersHeld(disk)'
    BY <2>1, <2>2 DEF AnswersHeld
  <2>4. ScopeHeld(disk)'
    BY <1>0, <1>1, <2>1 DEF ScopeHeld
  <2> QED BY <2>3, <2>4
<1> QED BY <1>0, <1>1, <1>9, <1>12, <1>13, <1>14, StepConcluded

-----------------------------------------------------------------------------
(* Messages are cancelled, dispatched, sent and concluded.                  *)

(* What is attached to which message, and which receipts are marked.       *)
AttachmentsStay(a, c) ==
    /\ DOMAIN c.entries = DOMAIN a.entries
    /\ \A i \in DOMAIN a.entries : c.entries[i].attached = a.entries[i].attached
    /\ \A j \in DOMAIN a.sides : c.sides[j].marked = a.sides[j].marked

LEMMA AnswersStay ==
    ASSUME AnswersHeld(disk), AnswersApart(disk), AttachmentsStay(disk, disk'),
           answers' = answers, pending' = pending
    PROVE  AnswersHeld(disk)'
BY DEF AnswersHeld, AnswersApart, AttachmentsStay

TurnType == [at : {"idle", "scope", "admitted", "sent"}, entry : 0..MaxEntries,
             exchange : {None} \cup Exchange]

LEMMA IdleTyped == Idle \in TurnType
<1>1. 0 \in 0..MaxEntries
  BY SessionAssumption
<1> QED BY <1>1 DEF Idle, TurnType

LEMMA MessagesStep ==
    ASSUME SessionInv, NEW b, NEW x, Commits(b),
           ~broken => Fits(b) /\ MessagesChange(disk, b, sent, x),
           UNCHANGED <<alive, recovering, side, provider, answers, pending, sent, children>>,
           pending = NoPending, turn' \in TurnType, turn'.at # "scope",
           Quiet', TurnHeld(disk, sent)'
    PROVE  StepSound
<1>1. /\ Fits(disk) /\ TasksTyped /\ SoundRecord(disk, sent, children) /\ SideHeld(disk, sent)
      /\ ~broken => mem = disk /\ AnswersHeld(disk)
  BY InvParts
<1>2. ~broken => Sanctioned(disk, b, sent, children)
  BY <1>1, MessagesSanctioned
<1>3. /\ Fits(disk') /\ broken' \in BOOLEAN
      /\ disk' = disk \/ (~broken /\ disk'.entries = b.entries /\ disk'.sides = b.sides)
      /\ ~broken' => disk'.entries = b.entries /\ disk'.sides = b.sides
  BY <1>2, Committed
<1>4. ~broken => b.sides = disk.sides /\ Len(b.entries) = Len(disk.entries)
  BY DEF MessagesChange
<1>5. SideHeld(disk, sent)' /\ ForkHeld(disk, children)'
  <2>1. disk'.sides = disk.sides
    BY <1>3, <1>4
  <2>2. AskingStays(disk, disk')
    BY <2>1 DEF AskingStays
  <2> QED BY <1>1, <2>2, SideStays, NothingPending
<1>6. TasksTyped'
  BY <1>1, <1>3 DEF TasksTyped, TurnType
<1>7. (~broken => AnswersHeld(disk) /\ ScopeHeld(disk))'
  <2> SUFFICES ASSUME ~broken' PROVE AnswersHeld(disk)' /\ ScopeHeld(disk)'
    OBVIOUS
  <2>1. ~broken
    BY DEF Commits, Saved, Unsaved, Refuses
  <2>2. AttachmentsStay(disk, disk')
    <3>1. /\ DOMAIN disk.entries = 1..Len(disk.entries) /\ DOMAIN disk'.entries = 1..Len(disk'.entries)
          /\ disk'.entries = b.entries /\ disk'.sides = disk.sides /\ Len(b.entries) = Len(disk.entries)
      BY <1>1, <1>3, <1>4, <2>1, FitTypes
    <3>2. \A i \in DOMAIN disk.entries : b.entries[i].attached = disk.entries[i].attached
      BY <2>1, <3>1 DEF MessagesChange, MessageChange
    <3> QED BY <3>1, <3>2 DEF AttachmentsStay
  <2>3. AnswersHeld(disk)'
    BY <1>1, <2>1, <2>2, AnswersStay DEF SoundRecord
  <2> QED BY <2>3 DEF ScopeHeld
<1> QED BY <1>2, <1>5, <1>6, <1>7, StepConcluded

LEMMA CancelKeeps ==
    ASSUME SessionInv, CancelQueued
    PROVE  StepSound
<1> DEFINE ents == [i \in DOMAIN mem.entries |->
                      IF mem.entries[i].status = "queued"
                      THEN [mem.entries[i] EXCEPT !.status = "cancelled"] ELSE mem.entries[i]]
           b == [mem EXCEPT !.entries = [i \in DOMAIN @ |->
                   IF @[i].status = "queued" THEN [@[i] EXCEPT !.status = "cancelled"] ELSE @[i]]]
<1>0. /\ Usable /\ turn = Idle /\ side = Idle /\ (Saved(b) \/ Unsaved(b))
      /\ UNCHANGED <<alive, recovering, turn, side, provider, answers, pending, sent, children>>
  BY DEF CancelQueued
<1>1. /\ Fits(mem) /\ Fits(disk) /\ TasksTyped /\ SoundRecord(disk, sent, children)
      /\ Quiet /\ ~broken /\ mem = disk /\ pending = NoPending
  BY <1>0, InvParts DEF Saved, Unsaved, Usable
<1>2. /\ mem \in SessionRecord /\ Len(mem.entries) \in Nat /\ DOMAIN mem.entries = 1..Len(mem.entries)
      /\ \A i \in 1..Len(mem.entries) : mem.entries[i] \in Entry
      /\ Len(mem.entries) <= MaxEntries /\ Len(mem.sides) <= MaxSides /\ Len(mem.forks) <= MaxForks
  BY <1>1, FitTypes, FitParts DEF Fits
<1>3. ASSUME NEW i \in 1..Len(mem.entries)
      PROVE  /\ ents[i] \in Entry
             /\ ents[i] = mem.entries[i] \/ (mem.entries[i].status = "queued" /\ ents[i].status = "cancelled")
             /\ ents[i].exchange = mem.entries[i].exchange /\ ents[i].attached = mem.entries[i].attached
             /\ ents[i].result = mem.entries[i].result
  BY <1>2 DEF Entry, Terminal
<1>4. ents \in Seq(Entry) /\ Len(ents) = Len(mem.entries)
  <2>1. ents = [i \in 1..Len(mem.entries) |-> ents[i]]
    BY <1>2
  <2> HIDE DEF ents
  <2>2. ents \in [1..Len(mem.entries) -> Entry]
    BY <1>3, <2>1
  <2> QED BY <1>2, <2>2, SequenceOf
<1>5. b = [mem EXCEPT !.entries = ents]
  BY <1>2 DEF SessionRecord
<1> HIDE DEF b, ents
<1>6. /\ b \in SessionRecord /\ b.entries = ents /\ b.sides = mem.sides /\ b.forks = mem.forks
      /\ b.consumed = mem.consumed /\ b.budget = mem.budget
  BY <1>2, <1>4, <1>5 DEF SessionRecord
<1>7. Fits(b)
  BY <1>2, <1>4, <1>6 DEF Fits
<1>8. MessagesChange(disk, b, sent, 0)
  <2>1. ASSUME NEW i \in 1..Len(disk.entries) PROVE MessageChange(disk, b, sent, i, 0)
    <3>1. b.entries[i].result => sent[<<"turn", i>>] # <<>>
      BY <1>1, <1>2, <1>3, <1>6 DEF SoundRecord, Obtained
    <3> QED BY <1>1, <1>3, <1>6, <3>1 DEF MessageChange, EntryMove
  <2>2. b.consumed >= disk.consumed
    BY <1>1, <1>6, FitTypes
  <2> QED BY <1>1, <1>4, <1>6, <2>1, <2>2 DEF MessagesChange
<1>9. Commits(b)
  BY <1>0 DEF Commits
<1>10. Quiet' /\ TurnHeld(disk, sent)' /\ turn' \in TurnType /\ turn'.at # "scope"
  BY <1>0, <1>1, IdleTyped DEF Quiet, TurnHeld, Idle
<1> QED BY <1>0, <1>1, <1>7, <1>8, <1>9, <1>10, MessagesStep

(* The branch budget, once kept, is kept.                                  *)
LEMMA BudgetParts ==
    ASSUME NEW b \in BranchBudget, NEW k \in Operations
    PROVE  /\ Reserve(b, k) \in BranchBudget /\ (b.on => Reserve(b, k).on)
           /\ SettleUsage(b, k) \in BranchBudget /\ (b.on => SettleUsage(b, k).on)
           /\ SettleUncertain(b) \in BranchBudget /\ (b.on => SettleUncertain(b).on)
<1>1. b.on \in BOOLEAN /\ b.attempts \in Nat /\ b.uncertain \in Nat /\ b.pending \in SUBSET Operations
  BY DEF BranchBudget
<1>2. /\ Reserve(b, k) = [b EXCEPT !.attempts = b.attempts + 1, !.pending = b.pending \cup {k}]
      /\ SettleUsage(b, k) = [b EXCEPT !.pending = b.pending \ {k}]
      /\ SettleUncertain(b) = [b EXCEPT !.uncertain = b.uncertain + 1]
  BY DEF Reserve, SettleUsage, SettleUncertain
<1>3. /\ b.attempts + 1 \in Nat /\ b.pending \cup {k} \in SUBSET Operations
      /\ b.pending \ {k} \in SUBSET Operations /\ b.uncertain + 1 \in Nat
  BY <1>1
<1>4. Reserve(b, k) \in BranchBudget /\ Reserve(b, k).on = b.on
  BY <1>2, <1>3 DEF BranchBudget
<1>5. SettleUsage(b, k) \in BranchBudget /\ SettleUsage(b, k).on = b.on
  BY <1>2, <1>3 DEF BranchBudget
<1>6. SettleUncertain(b) \in BranchBudget /\ SettleUncertain(b).on = b.on
  BY <1>2, <1>3 DEF BranchBudget
<1> QED BY <1>4, <1>5, <1>6

(* The record in which message i has a new status, result and exchange,    *)
(* and x exchanges are consumed.                                           *)
With(i, status, result, exchange, x) == [Replaced(i, status, result, exchange) EXCEPT !.consumed = x]

BudgetAfter(i, status) ==
    IF ~mem.budget.on \/ mem.entries[i].kind # "chat" THEN mem.budget
    ELSE IF mem.entries[i].status = "queued" /\ status = "running" THEN Reserve(mem.budget, <<"turn", i>>)
    ELSE IF mem.entries[i].status = "running" /\ status = "completed"
    THEN SettleUsage(mem.budget, <<"turn", i>>)
    ELSE IF mem.entries[i].status = "running" THEN SettleUncertain(mem.budget)
    ELSE mem.budget

ReplacedAs(b, i, status, result, exchange, x) ==
    /\ Fits(b) /\ b.sides = mem.sides /\ b.forks = mem.forks /\ b.consumed = x
    /\ Len(b.entries) = Len(mem.entries) /\ b.budget = BudgetAfter(i, status)
    /\ b.entries[i].status = status /\ b.entries[i].exchange = exchange
    /\ b.entries[i].attached = mem.entries[i].attached
    /\ b.entries[i].kind = mem.entries[i].kind /\ b.entries[i].steering = mem.entries[i].steering
    /\ \A l \in 1..Len(mem.entries) : l # i => b.entries[l] = mem.entries[l]
    /\ b.entries[i].result = result
    /\ mem.budget.on => b.budget.on

LEMMA ReplacedIs ==
    ASSUME Fits(mem), NEW i \in 1..Len(mem.entries), NEW status \in {"queued", "running"} \cup Terminal,
           NEW result \in BOOLEAN, NEW exchange \in {None} \cup Exchange, NEW x \in 0..Exchanges
    PROVE  /\ ReplacedAs(With(i, status, result, exchange, x), i, status, result, exchange, x)
           /\ Replaced(i, status, result, exchange).consumed = mem.consumed
           /\ x = mem.consumed => With(i, status, result, exchange, x) = Replaced(i, status, result, exchange)
<1> DEFINE k == <<"turn", i>>
           budget == BudgetAfter(i, status)
           e == [mem.entries[i] EXCEPT !.status = status, !.result = result, !.exchange = exchange]
           ents == [mem.entries EXCEPT ![i] = e]
           s == Replaced(i, status, result, exchange)
           b == With(i, status, result, exchange, x)
<1>1. /\ mem \in SessionRecord /\ Len(mem.entries) \in Nat /\ DOMAIN mem.entries = 1..Len(mem.entries)
      /\ mem.entries \in Seq(Entry) /\ mem.budget \in BranchBudget
      /\ Len(mem.entries) <= MaxEntries /\ Len(mem.sides) <= MaxSides /\ Len(mem.forks) <= MaxForks
  BY FitTypes, FitParts DEF Fits
<1>2. mem.entries[i] \in Entry /\ k \in Operations
  <2>1. i \in 1..MaxEntries
    BY <1>1, SessionAssumption
  <2> QED BY <2>1, FitParts, OperationParts
<1>3. budget \in BranchBudget /\ (mem.budget.on => budget.on)
  <2>1. budget \in {mem.budget, Reserve(mem.budget, k), SettleUsage(mem.budget, k), SettleUncertain(mem.budget)}
    BY DEF BudgetAfter
  <2> HIDE DEF budget, k
  <2>2. /\ Reserve(mem.budget, k) \in BranchBudget /\ (mem.budget.on => Reserve(mem.budget, k).on)
        /\ SettleUsage(mem.budget, k) \in BranchBudget /\ (mem.budget.on => SettleUsage(mem.budget, k).on)
        /\ SettleUncertain(mem.budget) \in BranchBudget /\ (mem.budget.on => SettleUncertain(mem.budget).on)
    BY <1>1, <1>2, BudgetParts
  <2>3. CASE budget = mem.budget
    BY <1>1, <2>3
  <2>4. CASE budget = Reserve(mem.budget, k)
    BY <2>2, <2>4
  <2>5. CASE budget = SettleUsage(mem.budget, k)
    BY <2>2, <2>5
  <2>6. CASE budget = SettleUncertain(mem.budget)
    BY <2>2, <2>6
  <2> QED BY <2>1, <2>3, <2>4, <2>5, <2>6
<1>4. /\ e \in Entry /\ e.status = status /\ e.exchange = exchange /\ e.attached = mem.entries[i].attached
  BY <1>2 DEF Entry
<1>5. e.result = result /\ e.kind = mem.entries[i].kind /\ e.steering = mem.entries[i].steering
  BY <1>2 DEF Entry
<1>6. s = [mem EXCEPT !.entries = ents, !.budget = budget]
  BY DEF Replaced, BudgetAfter
<1> HIDE DEF e, budget
<1>7. ents \in Seq(Entry) /\ Len(ents) = Len(mem.entries) /\ ents[i] = e
  BY <1>1, <1>4
<1>8. \A l \in 1..Len(mem.entries) : l # i => ents[l] = mem.entries[l]
  BY <1>1
<1> HIDE DEF ents, s
<1>9. /\ s \in SessionRecord /\ s.entries = ents /\ s.sides = mem.sides /\ s.forks = mem.forks
      /\ s.consumed = mem.consumed /\ s.budget = budget
  BY <1>1, <1>3, <1>6, <1>7 DEF SessionRecord
<1>10. b = [s EXCEPT !.consumed = x]
  BY DEF With, s
<1> HIDE DEF b
<1>11. /\ b \in SessionRecord /\ b.entries = ents /\ b.sides = mem.sides /\ b.forks = mem.forks
       /\ b.consumed = x /\ b.budget = budget
  BY <1>9, <1>10 DEF SessionRecord
<1>12. x = mem.consumed => b = s
  BY <1>9, <1>10 DEF SessionRecord
<1>13. Fits(b)
  BY <1>1, <1>7, <1>11 DEF Fits
<1>14. ReplacedAs(b, i, status, result, exchange, x)
  BY <1>3, <1>4, <1>5, <1>7, <1>8, <1>11, <1>13 DEF ReplacedAs, budget
<1> QED BY <1>9, <1>12, <1>14 DEF b, s

LEMMA FirstQueued ==
    ASSUME Fits(mem), Queued # {}
    PROVE  First \in Queued
<1>1. Queued \subseteq Nat
  BY FitTypes DEF Queued
<1>2. PICK m \in Queued : \A l \in Queued : m <= l
  <2> DEFINE less == {p \in Nat \X Nat : p[1] < p[2]}
  <2>1. \A x, y \in Nat : x < y => <<x, y>> \in less
    OBVIOUS
  <2> HIDE DEF less
  <2>2. IsWellFoundedOn(less, Nat)
    BY NatLessThanWellFounded DEF less, OpToRel
  <2>3. \E m \in Queued : \A l \in Queued : ~(<<l, m>> \in less)
    BY <1>1, <2>2, WFMin
  <2>4. PICK m \in Queued : \A l \in Queued : ~(<<l, m>> \in less)
    BY <2>3
  <2>5. ASSUME NEW l \in Queued PROVE m <= l
    <3>1. m \in Nat /\ l \in Nat
      BY <1>1
    <3>2. ~(l < m)
      BY <2>1, <2>4, <3>1
    <3> QED BY <3>1, <3>2
  <2> QED BY <2>5
<1> QED BY <1>2 DEF First

LEMMA RecordStays ==
    ASSUME SessionInv, UNCHANGED <<mem, disk, broken, children, answers, pending>>,
           TasksTyped', OutsideTyped', Quiet', SentAsLogged(disk, sent'), Obtained(disk, sent', children),
           TurnHeld(disk, sent)', SideHeld(disk, sent)', (~broken => ScopeHeld(disk))'
    PROVE  StepSound
<1>1. /\ Fits(mem)' /\ Fits(disk)' /\ SoundRecord(disk, sent, children)' /\ ForkHeld(disk, children)'
      /\ (~broken => mem = disk /\ AnswersHeld(disk))'
  BY InvParts DEF SoundRecord, ForkHeld, AnswersHeld
<1>2. SessionInv'
  BY <1>1, InvWhole
<1> QED BY <1>2 DEF StepSound

LEMMA CheckScopeKeeps ==
    ASSUME SessionInv, CheckScope
    PROVE  StepSound
<1>0. /\ Usable /\ turn = Idle /\ Queued # {}
      /\ turn' = [at |-> "scope", entry |-> First, exchange |-> None]
      /\ UNCHANGED <<mem, disk, alive, broken, recovering, side, provider, answers, pending,
                     sent, children>>
  BY DEF CheckScope, Selects
<1>1. /\ Fits(mem) /\ TasksTyped /\ OutsideTyped /\ Quiet /\ SideHeld(disk, sent)
      /\ SentAsLogged(disk, sent) /\ Obtained(disk, sent, children)
      /\ ~broken => mem = disk
  BY InvParts DEF SoundRecord
<1>2. First \in Queued
  BY <1>0, <1>1, FirstQueued
<1>3. First \in 1..Len(mem.entries) /\ First \in 0..MaxEntries /\ mem.entries[First].status = "queued"
  BY <1>1, <1>2, FitTypes, SessionAssumption DEF Queued, Fits
<1>4. TasksTyped'
  BY <1>0, <1>1, <1>3 DEF TasksTyped
<1>5. Quiet' /\ TurnHeld(disk, sent)' /\ SideHeld(disk, sent)' /\ OutsideTyped'
  BY <1>0, <1>1 DEF Quiet, Usable, TurnHeld, SideHeld, OutsideTyped
<1>6. (~broken => ScopeHeld(disk))'
  BY <1>0, <1>1, <1>3, FitTypes DEF ScopeHeld
<1> QED BY <1>0, <1>1, <1>4, <1>5, <1>6, RecordStays

LEMMA ScopeChangedKeeps ==
    ASSUME SessionInv, ScopeChanged
    PROVE  StepSound
<1>0. /\ Usable /\ turn' = Idle
      /\ UNCHANGED <<mem, disk, alive, broken, recovering, side, provider, answers, pending,
                     sent, children>>
  BY DEF ScopeChanged
<1>1. /\ TasksTyped /\ OutsideTyped /\ SideHeld(disk, sent)
      /\ SentAsLogged(disk, sent) /\ Obtained(disk, sent, children)
  BY InvParts DEF SoundRecord
<1>2. TasksTyped'
  BY <1>0, <1>1, IdleTyped DEF TasksTyped, TurnType
<1>3. Quiet' /\ TurnHeld(disk, sent)' /\ SideHeld(disk, sent)' /\ OutsideTyped' /\ ScopeHeld(disk)'
  BY <1>0, <1>1 DEF Quiet, Usable, TurnHeld, SideHeld, OutsideTyped, ScopeHeld, Idle
<1> QED BY <1>0, <1>1, <1>2, <1>3, RecordStays

(* A call goes out: it is the first of its operation.                      *)
LEMMA CallMade ==
    ASSUME OutsideTyped, NEW k \in Operations, NEW x \in {None} \cup Exchange, sent[k] = <<>>,
           sent' = [sent EXCEPT ![k] = Append(@, x)]
    PROVE  /\ OutsideTyped' /\ sent'[k] = <<x>> /\ <<x>> # <<>>
           /\ \A l \in Operations : l # k => sent'[l] = sent[l]
<1> DEFINE S == {None} \cup Exchange
<1>1. sent \in [Operations -> Seq(S)]
  BY DEF OutsideTyped
<1>2. <<x>> \in Seq(S) /\ Append(<<>>, x) = <<x>>
  OBVIOUS
<1>3. sent' = [sent EXCEPT ![k] = <<x>>]
  BY <1>1, <1>2
<1> HIDE DEF S
<1>4. sent' \in [Operations -> Seq(S)] /\ sent'[k] = <<x>> /\ \A l \in Operations : l # k => sent'[l] = sent[l]
  BY <1>1, <1>2, <1>3
<1>5. <<x>> # <<>>
  OBVIOUS
<1> QED BY <1>4, <1>5 DEF OutsideTyped, S

LEMMA StillObtained ==
    ASSUME Fits(disk), Obtained(disk, sent, children), NEW out,
           \A k \in Operations : sent[k] # <<>> => out[k] # <<>>
    PROVE  Obtained(disk, out, children)
<1>1. /\ \A i \in DOMAIN disk.entries : <<"turn", i>> \in Operations
      /\ \A j \in DOMAIN disk.sides : <<"side", j>> \in Operations
  <2>1. /\ DOMAIN disk.entries = 1..Len(disk.entries) /\ Len(disk.entries) \in 0..MaxEntries
        /\ DOMAIN disk.sides = 1..Len(disk.sides) /\ Len(disk.sides) \in 0..MaxSides
    BY FitParts
  <2>2. MaxEntries \in Nat /\ MaxSides \in Nat
    BY SessionAssumption
  <2>3. DOMAIN disk.entries \subseteq 1..MaxEntries /\ DOMAIN disk.sides \subseteq 1..MaxSides
    BY <2>1, <2>2
  <2> QED BY <2>3, OperationParts
<1> QED BY <1>1 DEF Obtained

LEMMA SendKeeps ==
    ASSUME SessionInv, Send
    PROVE  StepSound
<1> DEFINE n == turn.entry
           k == <<"turn", n>>
           x == turn.exchange
<1>0. /\ Usable /\ turn.at = "admitted" /\ turn' = [turn EXCEPT !.at = "sent"]
      /\ sent' = [sent EXCEPT ![k] = Append(@, x)]
      /\ UNCHANGED <<mem, disk, alive, broken, recovering, side, provider, answers, pending, children>>
  BY DEF Send
<1>1. /\ Fits(disk) /\ TasksTyped /\ OutsideTyped /\ SideHeld(disk, sent) /\ TurnHeld(disk, sent)
      /\ Logged(disk) /\ SentAsLogged(disk, sent) /\ Obtained(disk, sent, children)
  BY InvParts DEF SoundRecord
<1>2. /\ n \in DOMAIN disk.entries /\ disk.entries[n].status = "running"
      /\ disk.entries[n].exchange = x /\ sent[k] = <<>>
  BY <1>0, <1>1 DEF TurnHeld
<1>3. /\ n \in 1..MaxEntries /\ n <= Len(disk.entries) /\ x \in {None} \cup Exchange
      /\ turn \in TurnType /\ k \in Operations
  <2>1. /\ DOMAIN disk.entries = 1..Len(disk.entries) /\ Len(disk.entries) \in Nat
        /\ Len(disk.entries) <= MaxEntries /\ MaxEntries \in Nat /\ turn \in TurnType
    BY <1>1, FitTypes, SessionAssumption DEF Fits, TasksTyped, TurnType
  <2>2. n \in 1..MaxEntries /\ n <= Len(disk.entries) /\ x \in {None} \cup Exchange
    BY <1>2, <2>1 DEF TurnType
  <2> QED BY <2>1, <2>2, OperationParts
<1>4. turn' \in TurnType /\ turn'.at = "sent" /\ turn'.entry = n /\ turn'.exchange = x
  BY <1>0, <1>3 DEF TurnType
<1>5. /\ OutsideTyped' /\ sent'[k] = <<x>> /\ <<x>> # <<>>
      /\ \A l \in Operations : l # k => sent'[l] = sent[l]
  BY <1>0, <1>1, <1>2, <1>3, CallMade
<1>6. Obtained(disk, sent', children)
  <2>1. \A l \in Operations : sent[l] # <<>> => sent'[l] # <<>>
    BY <1>5
  <2> QED BY <1>1, <2>1, StillObtained
<1>7. SentAsLogged(disk, sent')
  <2>1. disk.journal[k] # <<>>
    <3>1. TurnLog(disk.entries[n], disk.journal[k])
      BY <1>1, <1>3 DEF Logged
    <3> QED BY <1>2, <3>1, Events DEF TurnLog, Terminal
  <2>2. ASSUME NEW i \in 1..MaxEntries, sent'[<<"turn", i>>] # <<>>
        PROVE  /\ i <= Len(disk.entries) /\ disk.journal[<<"turn", i>>] # <<>>
               /\ sent'[<<"turn", i>>] = <<disk.entries[i].exchange>>
    <3>1. CASE i = n
      BY <1>2, <1>3, <1>5, <2>1, <3>1
    <3>2. CASE i # n
      <4>1. <<"turn", i>> # k /\ <<"turn", i>> \in Operations
        BY <3>2, OperationParts
      <4> HIDE DEF k
      <4> QED BY <1>1, <1>5, <2>2, <4>1 DEF SentAsLogged
    <3> QED BY <3>1, <3>2
  <2>3. /\ \A j \in 1..MaxSides : sent'[<<"side", j>>] = sent[<<"side", j>>]
        /\ \A f \in 1..MaxForks : sent'[<<"fork", f>>] = sent[<<"fork", f>>]
    BY <1>5, OperationParts
  <2> QED BY <1>1, <2>2, <2>3 DEF SentAsLogged
<1>8. TasksTyped'
  BY <1>0, <1>1, <1>4 DEF TasksTyped, TurnType
<1>9. Quiet'
  BY <1>0, <1>4 DEF Quiet, Usable
<1>10. TurnHeld(disk, sent)'
  BY <1>0, <1>2, <1>4, <1>5 DEF TurnHeld
<1>11. SideHeld(disk, sent)'
  <2> SUFFICES ASSUME side.at # "idle" PROVE sent'[<<"side", side.entry>>] = sent[<<"side", side.entry>>]
    BY <1>0, <1>1 DEF SideHeld
  <2>1. side.entry \in 1..MaxSides
    <3>1. side.entry \in DOMAIN disk.sides
      BY <1>1 DEF SideHeld
    <3>2. DOMAIN disk.sides = 1..Len(disk.sides) /\ Len(disk.sides) \in 0..MaxSides /\ MaxSides \in Nat
      BY <1>1, FitParts, SessionAssumption
    <3> QED BY <3>1, <3>2
  <2> QED BY <1>5, <2>1, OperationParts
<1>12. (~broken => ScopeHeld(disk))'
  BY <1>4 DEF ScopeHeld
<1> QED BY <1>0, <1>5, <1>6, <1>7, <1>8, <1>9, <1>10, <1>11, <1>12, RecordStays

(* A queued message was not sent.                                          *)
LEMMA QueuedUnsent ==
    ASSUME Fits(disk), Logged(disk), SentAsLogged(disk, sent), NEW i \in DOMAIN disk.entries,
           disk.entries[i].status = "queued"
    PROVE  sent[<<"turn", i>>] = <<>> /\ disk.entries[i].exchange = None
<1>1. i \in 1..MaxEntries /\ i <= Len(disk.entries)
  BY FitParts, SessionAssumption
<1>2. TurnLog(disk.entries[i], disk.journal[<<"turn", i>>])
  BY <1>1 DEF Logged
<1>3. disk.journal[<<"turn", i>>] = <<>> /\ disk.entries[i].exchange = None
  BY <1>2 DEF TurnLog, Terminal
<1> QED BY <1>1, <1>3 DEF SentAsLogged

LEMMA DispatchKeeps ==
    ASSUME SessionInv, Usable, NEW i, Dispatch(i),
           ~broken => i \in DOMAIN disk.entries /\ disk.entries[i].status = "queued"
    PROVE  StepSound
<1> DEFINE chat == mem.entries[i].kind = "chat"
           exchange == IF chat THEN mem.consumed + 1 ELSE None
           x == IF chat THEN mem.consumed + 1 ELSE mem.consumed
           s == Replaced(i, "running", FALSE, exchange)
           b == [Replaced(i, "running", FALSE, exchange) EXCEPT !.consumed = IF chat THEN @ + 1 ELSE @]
<1>0. /\ chat => mem.consumed < Exchanges
      /\ \/ Saved(b) /\ turn' = [at |-> "admitted", entry |-> i, exchange |-> exchange]
         \/ (Unsaved(b) \/ Refuses) /\ turn' = Idle
      /\ UNCHANGED <<alive, recovering, side, provider, answers, pending, sent, children>>
      /\ alive /\ ~recovering /\ pending = NoPending
  BY DEF Dispatch, Usable
<1>1. /\ Fits(mem) /\ Fits(disk) /\ TasksTyped /\ SoundRecord(disk, sent, children)
      /\ Logged(disk) /\ SentAsLogged(disk, sent) /\ Quiet
  BY InvParts DEF SoundRecord
<1>b. ~broken => mem = disk
  BY InvParts
<1>2. ~broken => sent[<<"turn", i>>] = <<>> /\ disk.entries[i].exchange = None
  BY <1>1, QueuedUnsent
<1>3. exchange \in {None} \cup Exchange /\ x \in 0..Exchanges
  <2>1. mem.consumed \in 0..Exchanges /\ Exchanges \in Nat
    BY <1>1, FitParts, SessionAssumption
  <2> QED BY <1>0, <2>1 DEF Exchange
<1>4. ASSUME ~broken
      PROVE  /\ i \in 1..Len(mem.entries) /\ i \in 1..MaxEntries
             /\ b = With(i, "running", FALSE, exchange, x)
  <2>1. i \in 1..Len(mem.entries) /\ i \in 1..MaxEntries
    <3>1. /\ DOMAIN mem.entries = 1..Len(mem.entries) /\ Len(mem.entries) \in 0..MaxEntries
          /\ MaxEntries \in Nat
      BY <1>1, FitParts, SessionAssumption
    <3> QED BY <1>4, <1>b, <3>1
  <2>2. "running" \in {"queued", "running"} \cup Terminal /\ FALSE \in BOOLEAN /\ mem.consumed \in 0..Exchanges
    BY <1>1, FitParts
  <2> HIDE DEF exchange
  <2>3. s.consumed = mem.consumed
    BY <1>1, <1>3, <2>1, <2>2, ReplacedIs
  <2>4. b = [s EXCEPT !.consumed = x]
    BY <2>3
  <2> QED BY <2>1, <2>4 DEF With
<1> HIDE DEF b, s
<1>5. ASSUME ~broken
      PROVE  /\ Fits(b) /\ b.sides = mem.sides /\ b.forks = mem.forks /\ b.consumed = x
             /\ Len(b.entries) = Len(mem.entries)
             /\ b.entries[i].status = "running" /\ b.entries[i].exchange = exchange
             /\ b.entries[i].attached = mem.entries[i].attached
             /\ \A l \in 1..Len(mem.entries) : l # i => b.entries[l] = mem.entries[l]
  <2>1. "running" \in {"queued", "running"} \cup Terminal /\ FALSE \in BOOLEAN
    OBVIOUS
  <2>2. mem.consumed \in 0..Exchanges
    BY <1>1, FitParts
  <2> HIDE DEF exchange, x
  <2>3. ReplacedAs(b, i, "running", FALSE, exchange, x)
    BY <1>1, <1>3, <1>4, <1>5, <2>1, ReplacedIs
  <2> QED BY <2>3 DEF ReplacedAs
<1>6. ASSUME ~broken PROVE b.entries[i].result = FALSE /\ (mem.budget.on => b.budget.on)
  <2>1. "running" \in {"queued", "running"} \cup Terminal /\ FALSE \in BOOLEAN
    OBVIOUS
  <2> HIDE DEF exchange, x
  <2>3. ReplacedAs(b, i, "running", FALSE, exchange, x)
    BY <1>1, <1>3, <1>4, <1>6, <2>1, ReplacedIs
  <2> QED BY <2>3 DEF ReplacedAs
<1>7. ASSUME ~broken PROVE MessagesChange(disk, b, sent, i)
  <2>1. mem = disk
    BY <1>7, <1>b
  <2>2. ASSUME NEW l \in 1..Len(disk.entries) PROVE MessageChange(disk, b, sent, l, i)
    <3>1. CASE l = i
      <4>1. b.entries[l].exchange = disk.entries[l].exchange \/ (b.consumed = disk.consumed + 1 /\ b.entries[l].exchange = b.consumed)
        BY <1>2, <1>5, <1>7, <2>1, <3>1
      <4>2. EntryMove(disk.entries[l], b.entries[l])
        BY <1>5, <1>7, <3>1 DEF EntryMove
      <4> QED BY <1>5, <1>6, <1>7, <2>1, <3>1, <4>1, <4>2 DEF MessageChange
    <3>2. CASE l # i
      <4>1. b.entries[l] = disk.entries[l]
        BY <1>5, <1>7, <2>1, <3>2
      <4>2. b.entries[l].result => sent[<<"turn", l>>] # <<>>
        BY <1>1, <4>1, FitTypes DEF SoundRecord, Obtained
      <4> QED BY <4>1, <4>2 DEF MessageChange, EntryMove
    <3> QED BY <3>1, <3>2
  <2>3. b.consumed >= disk.consumed
    <3>1. mem.consumed \in Nat
      BY <1>1, FitTypes
    <3> QED BY <1>5, <1>7, <2>1, <3>1
  <2> HIDE DEF x, exchange
  <2> QED BY <1>5, <1>6, <1>7, <2>1, <2>2, <2>3 DEF MessagesChange
<1>8. Commits(b) /\ (~broken => Sanctioned(disk, b, sent, children))
  BY <1>0, <1>1, <1>5, <1>7, MessagesSanctioned DEF Commits
<1>9. Saved(b) => disk'.entries = b.entries /\ Fits(disk')
  BY <1>8, Committed
<1>10. TurnHeld(disk, sent)'
  <2>1. CASE turn' = Idle
    BY <2>1 DEF TurnHeld, Idle
  <2>2. CASE Saved(b) /\ turn' = [at |-> "admitted", entry |-> i, exchange |-> exchange]
    <3>1. ~broken
      BY <2>2 DEF Saved
    <3>2. i \in DOMAIN disk'.entries
      <4>1. DOMAIN disk'.entries = 1..Len(disk'.entries)
        BY <1>9, <2>2, FitTypes
      <4> HIDE DEF exchange, x
      <4>2. disk'.entries = b.entries
        BY <1>9, <2>2
      <4>3. Len(disk'.entries) = Len(mem.entries) /\ i \in 1..Len(mem.entries)
        BY <1>4, <1>5, <3>1, <4>2
      <4> QED BY <4>1, <4>3
    <3> HIDE DEF exchange
    <3>3. turn'.at = "admitted" /\ turn'.entry = i /\ turn'.exchange = exchange
      BY <2>2
    <3> QED BY <1>0, <1>2, <1>5, <1>9, <2>2, <3>1, <3>2, <3>3 DEF TurnHeld
  <2> QED BY <1>0, <2>1, <2>2
<1>11. turn' \in TurnType /\ turn'.at # "scope"
  <2>1. CASE turn' = Idle
    BY <2>1, IdleTyped DEF Idle
  <2>2. CASE Saved(b) /\ turn' = [at |-> "admitted", entry |-> i, exchange |-> exchange]
    <3>1. ~broken
      BY <2>2 DEF Saved
    <3>2. i \in 0..MaxEntries
      BY <1>4, <3>1, SessionAssumption
    <3> HIDE DEF exchange
    <3> QED BY <1>3, <2>2, <3>2 DEF TurnType
  <2> QED BY <1>0, <2>1, <2>2
<1>12. Quiet'
  BY <1>0 DEF Quiet
<1> QED BY <1>0, <1>5, <1>7, <1>8, <1>10, <1>11, <1>12, MessagesStep

LEMMA StepKeeps ==
    ASSUME SessionInv, Step
    PROVE  StepSound
<1>1. CASE Selects /\ mem.entries[First].kind # "git" /\ Dispatch(First)
  <2>1. Usable /\ Queued # {} /\ Dispatch(First) /\ Fits(mem)
    BY <1>1, InvParts DEF Selects
  <2>2. ~broken => mem = disk
    BY InvParts
  <2>3. First \in DOMAIN mem.entries /\ mem.entries[First].status = "queued"
    <3>1. First \in Queued
      BY <2>1, FirstQueued
    <3> HIDE DEF First
    <3> QED BY <2>1, <3>1, FitTypes DEF Queued
  <2>4. ~broken => First \in DOMAIN disk.entries /\ disk.entries[First].status = "queued"
    BY <2>2, <2>3
  <2> QED BY <2>1, <2>4, DispatchKeeps
<1>2. CASE Usable /\ turn.at = "scope" /\ Dispatch(turn.entry)
  <2>1. ~broken => turn.entry \in DOMAIN disk.entries /\ disk.entries[turn.entry].status = "queued"
    BY <1>2, InvParts DEF ScopeHeld
  <2> QED BY <1>2, <2>1, DispatchKeeps
<1> QED BY <1>1, <1>2 DEF Step

(* A turn ends: a saved success was sent.                                  *)
LEMMA TurnEndsKeeps ==
    ASSUME SessionInv, Usable, NEW status \in {"completed", "failed", "cancelled"}, NEW result \in BOOLEAN,
           TurnEnds(status, result), turn.at \in {"admitted", "sent"},
           status = "completed" => result = TRUE, result => turn.at = "sent"
    PROVE  StepSound
<1> DEFINE i == turn.entry
           b == Replaced(i, status, result, turn.exchange)
<1>0. /\ Commits(b) /\ turn' = Idle
      /\ UNCHANGED <<alive, recovering, side, provider, answers, pending, sent, children>>
      /\ alive /\ ~recovering /\ pending = NoPending
  BY DEF TurnEnds, Usable, Commits
<1>1. /\ Fits(mem) /\ Fits(disk) /\ TasksTyped /\ SoundRecord(disk, sent, children)
      /\ TurnHeld(disk, sent) /\ Quiet
  BY InvParts
<1>b. ~broken => mem = disk
  BY InvParts
<1>2. /\ i \in DOMAIN disk.entries /\ disk.entries[i].status = "running"
      /\ disk.entries[i].exchange = turn.exchange
      /\ turn.at = "sent" => sent[<<"turn", i>>] = <<turn.exchange>>
      /\ turn.exchange \in {None} \cup Exchange
  BY <1>1 DEF TurnHeld, TasksTyped
<1>3. ASSUME ~broken
      PROVE  /\ i \in 1..Len(mem.entries) /\ b = With(i, status, result, turn.exchange, mem.consumed)
             /\ mem.consumed \in 0..Exchanges /\ status \in {"queued", "running"} \cup Terminal
  <2>1. i \in 1..Len(mem.entries) /\ mem.consumed \in 0..Exchanges /\ status \in {"queued", "running"} \cup Terminal
    BY <1>1, <1>2, <1>3, <1>b, FitParts DEF Terminal
  <2> QED BY <1>1, <1>2, <2>1, ReplacedIs
<1> HIDE DEF b
<1>r. ASSUME ~broken PROVE ReplacedAs(b, i, status, result, turn.exchange, mem.consumed)
  BY <1>1, <1>2, <1>3, <1>r, ReplacedIs
<1>4. ASSUME ~broken
      PROVE  /\ Fits(b) /\ b.sides = mem.sides /\ b.forks = mem.forks /\ b.consumed = mem.consumed
             /\ Len(b.entries) = Len(mem.entries)
             /\ b.entries[i].status = status /\ b.entries[i].exchange = turn.exchange
             /\ b.entries[i].attached = mem.entries[i].attached
             /\ \A l \in 1..Len(mem.entries) : l # i => b.entries[l] = mem.entries[l]
  BY <1>r, <1>4 DEF ReplacedAs
<1>5. ASSUME ~broken PROVE b.entries[i].result = result /\ (mem.budget.on => b.budget.on)
  BY <1>r, <1>5 DEF ReplacedAs
<1>6. ASSUME ~broken PROVE MessagesChange(disk, b, sent, 0)
  <2>1. mem = disk
    BY <1>6, <1>b
  <2>2. ASSUME NEW l \in 1..Len(disk.entries) PROVE MessageChange(disk, b, sent, l, 0)
    <3>1. CASE l = i
      <4>1. b.entries[l].result => sent[<<"turn", l>>] # <<>>
        <5>1. <<turn.exchange>> # <<>>
          OBVIOUS
        <5> QED BY <1>2, <1>5, <1>6, <3>1, <5>1
      <4>2. EntryMove(disk.entries[l], b.entries[l])
        <5>1. b.entries[l].status = "completed" => b.entries[l].result
          BY <1>4, <1>5, <1>6, <3>1
        <5> QED BY <1>2, <1>4, <1>6, <3>1, <5>1 DEF EntryMove, Terminal
      <4> QED BY <1>2, <1>4, <1>6, <2>1, <3>1, <4>1, <4>2 DEF MessageChange
    <3>2. CASE l # i
      <4>1. b.entries[l] = disk.entries[l]
        BY <1>4, <1>6, <2>1, <3>2
      <4>2. b.entries[l].result => sent[<<"turn", l>>] # <<>>
        BY <1>1, <4>1, FitTypes DEF SoundRecord, Obtained
      <4> QED BY <4>1, <4>2 DEF MessageChange, EntryMove
    <3> QED BY <3>1, <3>2
  <2>3. b.consumed >= disk.consumed
    BY <1>1, <1>4, <1>6, <2>1, FitTypes
  <2> QED BY <1>4, <1>5, <1>6, <2>1, <2>2, <2>3 DEF MessagesChange
<1>7. Quiet' /\ TurnHeld(disk, sent)' /\ turn' \in TurnType /\ turn'.at # "scope"
  BY <1>0, IdleTyped DEF Quiet, TurnHeld, Idle
<1> QED BY <1>0, <1>4, <1>6, <1>7, MessagesStep

LEMMA EndKeeps ==
    ASSUME SessionInv, Complete \/ Fail \/ CancelTurn
    PROVE  StepSound
<1>1. CASE Complete
  <2>1. Usable /\ turn.at = "sent" /\ (TurnEnds("completed", TRUE) \/ TurnEnds("failed", TRUE))
    BY <1>1 DEF Complete
  <2> QED BY <2>1, TurnEndsKeeps
<1>2. CASE Fail
  <2>1. Usable /\ turn.at \in {"admitted", "sent"} /\ TurnEnds("failed", FALSE)
    BY <1>2 DEF Fail
  <2> QED BY <2>1, TurnEndsKeeps
<1>3. CASE CancelTurn
  <2>1. \/ ScopeChanged
        \/ Usable /\ turn.at \in {"admitted", "sent"} /\ TurnEnds("cancelled", FALSE)
    BY <1>3 DEF CancelTurn
  <2> QED BY <2>1, ScopeChangedKeeps, TurnEndsKeeps
<1> QED BY <1>1, <1>2, <1>3

-----------------------------------------------------------------------------
(* Side questions are asked, sent, answered, given up and reconciled.       *)

(* A session without a branch budget gets one from what it did.            *)
LEMMA CurrentBudgetIs ==
    ASSUME NEW s, Fits(s)
    PROVE  CurrentBudget(s) \in BranchBudget /\ CurrentBudget(s).on
<1> DEFINE admitted == {i \in 1..Len(s.entries) : s.entries[i].exchange # None}
           lost == {i \in admitted : s.entries[i].status \in {"failed", "cancelled", "interrupted"}}
           running == {i \in admitted : s.entries[i].status \in {"running"}}
           holds == {<<"turn", i>> : i \in running}
           new == [on |-> TRUE, attempts |-> s.consumed, uncertain |-> Cardinality(lost), pending |-> holds]
<1>1. /\ s.budget \in BranchBudget /\ s.consumed \in Nat /\ Len(s.entries) \in 0..MaxEntries
      /\ MaxEntries \in Nat
  BY FitParts, FitTypes, SessionAssumption
<1>2. CurrentBudget(s) = IF s.budget.on THEN s.budget ELSE new
  BY DEF CurrentBudget
<1>3. Cardinality(lost) \in Nat
  <2>1. IsFiniteSet(1..Len(s.entries))
    BY <1>1, FS_Interval
  <2>2. lost \subseteq 1..Len(s.entries)
    OBVIOUS
  <2>3. IsFiniteSet(lost)
    BY <2>1, <2>2, FS_Subset
  <2> QED BY <2>3, FS_CardinalityType
<1>4. holds \subseteq Operations
  <2>1. running \subseteq 1..MaxEntries
    BY <1>1
  <2> HIDE DEF running
  <2> QED BY <2>1, OperationParts
<1> HIDE DEF holds, lost
<1>5. new \in BranchBudget /\ new.on
  <2>1. new.on = TRUE
    OBVIOUS
  <2>2. new \in BranchBudget
    BY <1>1, <1>3, <1>4 DEF BranchBudget
  <2> QED BY <2>1, <2>2
<1> HIDE DEF new
<1>6. CASE s.budget.on
  <2>1. CurrentBudget(s) = s.budget
    BY <1>2, <1>6
  <2> QED BY <1>1, <1>6, <2>1
<1>7. CASE ~s.budget.on
  <2>1. CurrentBudget(s) = new
    BY <1>2, <1>7
  <2> QED BY <1>5, <2>1
<1> QED BY <1>6, <1>7

SideStates == {"running", "completed", "cancelled", "uncertain", "reconciled"}
SideType == [at : {"idle", "admitted", "sent"}, entry : 0..MaxSides, exchange : {None} \cup Exchange]

LEMMA IdleSideTyped == Idle \in SideType
<1>1. 0 \in 0..MaxSides
  BY SessionAssumption
<1> QED BY <1>1 DEF Idle, SideType

LEMMA SidesStep ==
    ASSUME SessionInv, NEW b, Commits(b),
           ~broken => Fits(b) /\ SidesChange(disk, b, sent),
           UNCHANGED <<alive, recovering, turn, pending, sent, children>>,
           pending = NoPending, side' \in SideType, provider' \in BOOLEAN, answers' \subseteq 1..MaxSides,
           Quiet', SideHeld(disk, sent)', (~broken => AnswersHeld(disk))'
    PROVE  StepSound
<1>1. /\ Fits(disk) /\ TasksTyped /\ SoundRecord(disk, sent, children) /\ TurnHeld(disk, sent)
      /\ ~broken => mem = disk /\ ScopeHeld(disk)
  BY InvParts
<1>2. ~broken => Sanctioned(disk, b, sent, children)
  BY <1>1, SidesSanctioned
<1>3. /\ broken' \in BOOLEAN
      /\ disk' = disk \/ (~broken /\ disk'.entries = b.entries)
  BY <1>2, Committed
<1>4. ~broken => b.entries = disk.entries
  BY DEF SidesChange
<1>5. disk'.entries = disk.entries
  BY <1>3, <1>4
<1>6. TurnHeld(disk, sent)' /\ ForkHeld(disk, children)'
  <2>1. RunningStays(disk, disk')
    BY <1>5 DEF RunningStays
  <2> QED BY <1>1, <2>1, TurnStays, NothingPending
<1>7. TasksTyped'
  BY <1>1, <1>3 DEF TasksTyped, SideType
<1>8. (~broken => AnswersHeld(disk) /\ ScopeHeld(disk))'
  <2> SUFFICES ASSUME ~broken' PROVE ScopeHeld(disk)'
    OBVIOUS
  <2>1. ~broken
    BY DEF Commits, Saved, Unsaved, Refuses
  <2> QED BY <1>1, <1>5, <2>1 DEF ScopeHeld
<1> QED BY <1>2, <1>6, <1>7, <1>8, StepConcluded

(* The record in which side j has a new state.                             *)
ConcludedAs(b, j, state) ==
    /\ Fits(b) /\ b.entries = mem.entries /\ b.forks = mem.forks /\ b.consumed = mem.consumed
    /\ Len(b.sides) = Len(mem.sides)
    /\ b.sides[j].state = state /\ b.sides[j].exchange = mem.sides[j].exchange
    /\ \A l \in 1..Len(mem.sides) : l # j => b.sides[l] = mem.sides[l]
    /\ \A l \in 1..Len(mem.sides) : b.sides[l].marked = mem.sides[l].marked
    /\ mem.budget.on => b.budget.on

LEMMA WithSideIs ==
    ASSUME Fits(mem), NEW j \in 1..Len(mem.sides), NEW state \in SideStates, NEW budget \in BranchBudget,
           mem.budget.on => budget.on
    PROVE  ConcludedAs(WithSide(j, state, budget), j, state) /\ WithSide(j, state, budget).budget = budget
<1> DEFINE e == [mem.sides[j] EXCEPT !.state = state]
           sides == [mem.sides EXCEPT ![j] = e]
           b == WithSide(j, state, budget)
<1>1. /\ mem \in SessionRecord /\ Len(mem.sides) \in Nat /\ DOMAIN mem.sides = 1..Len(mem.sides)
      /\ mem.sides \in Seq(SideReceipt) /\ mem.sides[j] \in SideReceipt
      /\ Len(mem.entries) <= MaxEntries /\ Len(mem.sides) <= MaxSides /\ Len(mem.forks) <= MaxForks
  BY FitTypes, FitParts DEF Fits
<1>2. /\ e \in SideReceipt /\ e.state = state /\ e.exchange = mem.sides[j].exchange
      /\ e.marked = mem.sides[j].marked
  BY <1>1 DEF SideReceipt, SideStates
<1>3. b = [mem EXCEPT !.sides = sides, !.budget = budget]
  BY DEF WithSide
<1> HIDE DEF e
<1>4. /\ sides \in Seq(SideReceipt) /\ Len(sides) = Len(mem.sides) /\ sides[j] = e
      /\ \A l \in 1..Len(mem.sides) : l # j => sides[l] = mem.sides[l]
  BY <1>1, <1>2
<1>5. \A l \in 1..Len(mem.sides) : sides[l].marked = mem.sides[l].marked
  BY <1>2, <1>4
<1> HIDE DEF b, sides
<1>6. /\ b \in SessionRecord /\ b.entries = mem.entries /\ b.sides = sides /\ b.forks = mem.forks
      /\ b.consumed = mem.consumed /\ b.budget = budget
  BY <1>1, <1>3, <1>4 DEF SessionRecord
<1>7. Fits(b)
  BY <1>1, <1>4, <1>6 DEF Fits
<1>8. ConcludedAs(b, j, state)
  BY <1>2, <1>4, <1>5, <1>6, <1>7 DEF ConcludedAs
<1> QED BY <1>6, <1>8 DEF b

(* Concluding one side is a change of sides, and receipts stay as marked.  *)
LEMMA OneConcluded ==
    ASSUME NEW j \in 1..Len(mem.sides), NEW state, NEW b, Fits(mem), ConcludedAs(b, j, state), mem = disk,
           SoundRecord(disk, sent, children), SideMove(disk.sides[j], b.sides[j]),
           state = "completed" => sent[<<"side", j>>] # <<>>
    PROVE  /\ Fits(b) /\ SidesChange(disk, b, sent)
           /\ \A c : c.entries = b.entries /\ c.sides = b.sides => AttachmentsStay(disk, c)
<1>1. /\ Fits(b) /\ b.entries = disk.entries /\ b.forks = disk.forks /\ b.consumed = disk.consumed
      /\ Len(b.sides) = Len(disk.sides) /\ b.sides[j].state = state
  BY DEF ConcludedAs
<1>2. ASSUME NEW l \in 1..Len(disk.sides)
      PROVE  /\ SideMove(disk.sides[l], b.sides[l])
             /\ b.sides[l].state = "completed" => sent[<<"side", l>>] # <<>>
  <2>1. CASE l = j
    BY <1>1, <2>1
  <2>2. CASE l # j
    <3>1. b.sides[l] = disk.sides[l]
      BY <2>2 DEF ConcludedAs
    <3> QED BY <3>1, FitTypes DEF SideMove, SoundRecord, Obtained
  <2> QED BY <2>1, <2>2
<1>3. disk.budget.on => b.budget.on
  BY DEF ConcludedAs
<1>4. SidesChange(disk, b, sent)
  BY <1>1, <1>2, <1>3 DEF SidesChange
<1>5. \A l \in DOMAIN disk.sides : b.sides[l].marked = disk.sides[l].marked
  BY FitTypes DEF ConcludedAs
<1> QED BY <1>1, <1>4, <1>5 DEF AttachmentsStay

LEMMA AnswerFirst ==
    ASSUME NEW j, AnswersApart(disk), disk.sides[j].state # "completed"
    PROVE  \A i \in DOMAIN disk.entries : disk.entries[i].attached # 0 => disk.entries[i].attached # j
BY DEF AnswersApart

(* What the task of a side question knows of its receipt.                  *)
LEMMA AskedSide ==
    ASSUME SessionInv, side.at # "idle"
    PROVE  /\ side.entry \in 1..Len(disk.sides) /\ side.entry \in 1..MaxSides
           /\ <<"side", side.entry>> \in Operations
           /\ disk.sides[side.entry].state = "running"
           /\ disk.sides[side.entry].exchange = side.exchange
           /\ side.at = "sent" => sent[<<"side", side.entry>>] # <<>>
           /\ side \in SideType
<1>1. SideHeld(disk, sent) /\ Fits(disk) /\ side \in SideType
  BY InvParts DEF TasksTyped, SideType
<1>2. /\ side.entry \in DOMAIN disk.sides
      /\ disk.sides[side.entry].state = "running" /\ disk.sides[side.entry].exchange = side.exchange
      /\ side.at = "sent" => sent[<<"side", side.entry>>] = <<side.exchange>>
  BY <1>1 DEF SideHeld
<1>3. DOMAIN disk.sides = 1..Len(disk.sides) /\ Len(disk.sides) \in 0..MaxSides /\ MaxSides \in Nat
  BY <1>1, FitParts, SessionAssumption
<1>4. side.entry \in 1..Len(disk.sides) /\ side.entry \in 1..MaxSides
  BY <1>2, <1>3
<1>5. <<side.exchange>> # <<>>
  OBVIOUS
<1> QED BY <1>1, <1>2, <1>4, <1>5, OperationParts

LEMMA SideEndsKeeps ==
    ASSUME SessionInv, NEW state \in {"cancelled", "uncertain"}, SideEnds(state)
    PROVE  StepSound
<1> DEFINE j == side.entry
           budget == SettleUncertain(CurrentBudget(mem))
           b == WithSide(j, state, budget)
<1>0. /\ Usable /\ side.at # "idle" /\ Commits(b) /\ side' = Idle
      /\ UNCHANGED <<alive, recovering, turn, provider, answers, pending, sent, children>>
  BY DEF SideEnds, Commits
<1>1. /\ Fits(mem) /\ TasksTyped /\ SoundRecord(disk, sent, children)
      /\ ~broken => mem = disk /\ AnswersHeld(disk)
  BY InvParts
<1>2. /\ j \in 1..Len(disk.sides) /\ j \in 1..MaxSides /\ disk.sides[j].state = "running"
      /\ <<"side", j>> \in Operations
  BY <1>0, AskedSide
<1>3. budget \in BranchBudget /\ budget.on
  BY <1>1, <1>2, CurrentBudgetIs, BudgetParts
<1>4. state \in SideStates
  BY DEF SideStates
<1>5. ~broken => ConcludedAs(b, j, state)
  <2> HIDE DEF budget
  <2> QED BY <1>1, <1>2, <1>3, <1>4, WithSideIs
<1> HIDE DEF b, budget
<1>6. ASSUME ~broken
      PROVE  /\ Fits(b) /\ SidesChange(disk, b, sent)
             /\ disk'.entries = b.entries /\ disk'.sides = b.sides => AttachmentsStay(disk, disk')
  <2>1. ConcludedAs(b, j, state) /\ mem = disk
    BY <1>1, <1>5, <1>6
  <2>2. SideMove(disk.sides[j], b.sides[j])
    BY <1>2, <2>1 DEF SideMove, ConcludedAs
  <2> QED BY <1>1, <1>2, <2>1, <2>2, OneConcluded
<1>7. (~broken => AnswersHeld(disk))'
  <2> SUFFICES ASSUME ~broken' PROVE AnswersHeld(disk)'
    OBVIOUS
  <2>1. ~broken
    BY <1>0 DEF Commits, Saved, Unsaved, Refuses
  <2>2. Sanctioned(disk, b, sent, children)
    BY <1>1, <1>6, <2>1, SidesSanctioned, InvParts
  <2>3. disk'.entries = b.entries /\ disk'.sides = b.sides
    BY <1>0, <2>2, Committed
  <2> QED BY <1>0, <1>1, <1>6, <2>1, <2>3, AnswersStay DEF SoundRecord
<1>8. side' \in SideType /\ provider' \in BOOLEAN /\ answers' \subseteq 1..MaxSides
  BY <1>0, <1>1, IdleSideTyped DEF TasksTyped
<1>9. Quiet' /\ SideHeld(disk, sent)' /\ pending = NoPending
  BY <1>0 DEF Quiet, SideHeld, Usable, Idle
<1> QED BY <1>0, <1>6, <1>7, <1>8, <1>9, SidesStep

LEMMA AnswerSideKeeps ==
    ASSUME SessionInv, AnswerSide
    PROVE  StepSound
<1> DEFINE j == side.entry
           budget == SettleUsage(CurrentBudget(mem), <<"side", j>>)
           b == WithSide(j, "completed", budget)
<1>0. /\ Usable /\ side.at = "sent" /\ side' = Idle /\ provider' = FALSE
      /\ \/ Saved(b) /\ answers' = answers \cup {j}
         \/ (Unsaved(b) \/ Refuses) /\ answers' = answers
      /\ UNCHANGED <<alive, recovering, turn, pending, sent, children>>
  BY DEF AnswerSide
<1>c. Commits(b)
  BY <1>0 DEF Commits
<1>1. /\ Fits(mem) /\ TasksTyped /\ SoundRecord(disk, sent, children)
      /\ ~broken => mem = disk /\ AnswersHeld(disk)
  BY InvParts
<1>2. /\ j \in 1..Len(disk.sides) /\ j \in 1..MaxSides /\ disk.sides[j].state = "running"
      /\ <<"side", j>> \in Operations /\ sent[<<"side", j>>] # <<>>
  BY <1>0, AskedSide DEF Idle
<1>3. budget \in BranchBudget /\ budget.on
  BY <1>1, <1>2, CurrentBudgetIs, BudgetParts
<1>4. "completed" \in SideStates
  BY DEF SideStates
<1>5. ~broken => ConcludedAs(b, j, "completed")
  <2> HIDE DEF budget
  <2> QED BY <1>1, <1>2, <1>3, <1>4, WithSideIs
<1> HIDE DEF b, budget
<1>6. ASSUME ~broken
      PROVE  /\ Fits(b) /\ SidesChange(disk, b, sent)
             /\ disk'.entries = b.entries /\ disk'.sides = b.sides => AttachmentsStay(disk, disk')
  <2>1. ConcludedAs(b, j, "completed") /\ mem = disk
    BY <1>1, <1>5, <1>6
  <2>2. SideMove(disk.sides[j], b.sides[j])
    BY <1>2, <2>1 DEF SideMove, ConcludedAs
  <2> QED BY <1>1, <1>2, <2>1, <2>2, OneConcluded
<1>7. (~broken => AnswersHeld(disk))'
  <2> SUFFICES ASSUME ~broken' PROVE AnswersHeld(disk)'
    OBVIOUS
  <2>1. ~broken
    BY <1>c DEF Commits, Saved, Unsaved, Refuses
  <2>2. Sanctioned(disk, b, sent, children)
    BY <1>1, <1>6, <2>1, SidesSanctioned, InvParts
  <2>3. disk'.entries = b.entries /\ disk'.sides = b.sides
    BY <1>c, <2>2, Committed
  <2>4. AttachmentsStay(disk, disk') /\ AnswersApart(disk) /\ AnswersHeld(disk)
    BY <1>1, <1>6, <2>1, <2>3 DEF SoundRecord
  <2>5. \A i \in DOMAIN disk.entries : disk.entries[i].attached # 0 => disk.entries[i].attached # j
    BY <1>2, <2>4, AnswerFirst
  <2>6. answers' \subseteq answers \cup {j} /\ pending' = pending
    BY <1>0
  <2> QED BY <2>4, <2>5, <2>6 DEF AnswersHeld, AnswersApart, AttachmentsStay
<1>8. side' \in SideType /\ provider' \in BOOLEAN /\ answers' \subseteq 1..MaxSides
  BY <1>0, <1>1, <1>2, IdleSideTyped DEF TasksTyped
<1>9. Quiet' /\ SideHeld(disk, sent)' /\ pending = NoPending
  BY <1>0 DEF Quiet, SideHeld, Usable, Idle
<1> QED BY <1>0, <1>c, <1>6, <1>7, <1>8, <1>9, SidesStep

LEMMA ReconcileKeeps ==
    ASSUME SessionInv, NEW j \in 1..Len(mem.sides), ReconcileSide(j)
    PROVE  StepSound
<1> DEFINE settled == SettleUsage(mem.budget, <<"side", j>>)
           budget == [settled EXCEPT !.uncertain = IF @ = 0 THEN 0 ELSE @ - 1]
           b == WithSide(j, "reconciled", budget)
<1>0. /\ Usable /\ side = Idle /\ Commits(b) /\ ~broken
      /\ mem.sides[j].state \in {"cancelled", "uncertain"}
      /\ UNCHANGED <<alive, recovering, turn, side, provider, answers, pending, sent, children>>
  BY DEF ReconcileSide, Commits, Saved, Unsaved
<1>1. /\ Fits(mem) /\ TasksTyped /\ SoundRecord(disk, sent, children)
      /\ mem = disk /\ AnswersHeld(disk)
  BY <1>0, InvParts
<1>2. mem.budget \in BranchBudget /\ <<"side", j>> \in Operations
  <2>1. j \in 1..MaxSides
    BY <1>1, FitParts, SessionAssumption
  <2> QED BY <1>1, <2>1, FitParts, OperationParts
<1>3. settled \in BranchBudget /\ (mem.budget.on => settled.on)
  BY <1>2, BudgetParts
<1> HIDE DEF settled
<1>4. budget \in BranchBudget /\ budget.on = settled.on
  <2>1. settled.uncertain \in Nat
    BY <1>3 DEF BranchBudget
  <2> DEFINE u == IF settled.uncertain = 0 THEN 0 ELSE settled.uncertain - 1
  <2>2. u \in Nat
    BY <2>1
  <2>3. budget = [settled EXCEPT !.uncertain = u]
    OBVIOUS
  <2> HIDE DEF u, budget
  <2> QED BY <1>3, <2>2, <2>3 DEF BranchBudget
<1> HIDE DEF budget
<1>5. mem.budget.on => budget.on
  BY <1>3, <1>4
<1>6. ConcludedAs(b, j, "reconciled")
  <2>1. "reconciled" \in SideStates
    BY DEF SideStates
  <2> QED BY <1>1, <1>4, <1>5, <2>1, WithSideIs
<1> HIDE DEF b
<1>7. SideMove(disk.sides[j], b.sides[j])
  BY <1>0, <1>1, <1>6 DEF SideMove, ConcludedAs
<1>8. /\ Fits(b) /\ SidesChange(disk, b, sent)
      /\ disk'.entries = b.entries /\ disk'.sides = b.sides => AttachmentsStay(disk, disk')
  BY <1>1, <1>6, <1>7, OneConcluded
<1>9. (~broken => AnswersHeld(disk))'
  <2> SUFFICES ASSUME ~broken' PROVE AnswersHeld(disk)'
    OBVIOUS
  <2>1. Sanctioned(disk, b, sent, children)
    BY <1>1, <1>8, SidesSanctioned, InvParts
  <2>2. disk'.entries = b.entries /\ disk'.sides = b.sides
    BY <1>0, <2>1, Committed
  <2> QED BY <1>0, <1>1, <1>8, <2>2, AnswersStay DEF SoundRecord
<1>10. side' \in SideType /\ provider' \in BOOLEAN /\ answers' \subseteq 1..MaxSides
  BY <1>0, <1>1 DEF TasksTyped, SideType
<1>11. Quiet' /\ SideHeld(disk, sent)' /\ pending = NoPending
  BY <1>0 DEF Quiet, SideHeld, Usable, Idle
<1> QED BY <1>0, <1>8, <1>9, <1>10, <1>11, SidesStep

LEMMA ProviderEndsKeeps ==
    ASSUME SessionInv, ProviderEnds
    PROVE  StepSound
<1>0. /\ provider' = FALSE
      /\ UNCHANGED <<mem, disk, alive, broken, recovering, turn, side, answers, pending, sent, children>>
  BY DEF ProviderEnds
<1>1. /\ TasksTyped /\ OutsideTyped /\ Quiet /\ SideHeld(disk, sent) /\ TurnHeld(disk, sent)
      /\ SentAsLogged(disk, sent) /\ Obtained(disk, sent, children)
      /\ ~broken => ScopeHeld(disk)
  BY InvParts DEF SoundRecord
<1>2. TasksTyped'
  BY <1>0, <1>1 DEF TasksTyped
<1>3. Quiet' /\ TurnHeld(disk, sent)' /\ SideHeld(disk, sent)' /\ OutsideTyped' /\ (~broken => ScopeHeld(disk))'
  BY <1>0, <1>1 DEF Quiet, TurnHeld, SideHeld, OutsideTyped, ScopeHeld
<1> QED BY <1>0, <1>1, <1>2, <1>3, RecordStays

LEMMA SendSideKeeps ==
    ASSUME SessionInv, SendSide
    PROVE  StepSound
<1> DEFINE n == side.entry
           k == <<"side", n>>
           x == side.exchange
<1>0. /\ Usable /\ side.at = "admitted" /\ side' = [side EXCEPT !.at = "sent"] /\ provider' = TRUE
      /\ sent' = [sent EXCEPT ![k] = Append(@, x)]
      /\ UNCHANGED <<mem, disk, alive, broken, recovering, turn, answers, pending, children>>
  BY DEF SendSide
<1>1. /\ Fits(disk) /\ TasksTyped /\ OutsideTyped /\ SideHeld(disk, sent) /\ TurnHeld(disk, sent)
      /\ SentAsLogged(disk, sent) /\ Obtained(disk, sent, children)
      /\ ~broken => ScopeHeld(disk)
  BY InvParts DEF SoundRecord
<1>2. /\ n \in 1..Len(disk.sides) /\ n \in 1..MaxSides /\ disk.sides[n].state = "running"
      /\ disk.sides[n].exchange = x /\ k \in Operations /\ side \in SideType
  BY <1>0, AskedSide
<1>3. sent[k] = <<>> /\ x \in {None} \cup Exchange
  BY <1>0, <1>1, <1>2 DEF SideHeld, SideType
<1>4. side' \in SideType /\ side'.at = "sent" /\ side'.entry = n /\ side'.exchange = x
  BY <1>0, <1>2 DEF SideType
<1>5. /\ OutsideTyped' /\ sent'[k] = <<x>> /\ <<x>> # <<>>
      /\ \A l \in Operations : l # k => sent'[l] = sent[l]
  BY <1>0, <1>1, <1>2, <1>3, CallMade
<1>6. Obtained(disk, sent', children)
  <2>1. \A l \in Operations : sent[l] # <<>> => sent'[l] # <<>>
    BY <1>5
  <2> QED BY <1>1, <2>1, StillObtained
<1>7. SentAsLogged(disk, sent')
  <2>1. ASSUME NEW j \in 1..MaxSides, sent'[<<"side", j>>] # <<>>
        PROVE  j <= Len(disk.sides) /\ sent'[<<"side", j>>] = <<disk.sides[j].exchange>>
    <3>1. CASE j = n
      BY <1>1, <1>2, <1>5, <3>1, FitTypes
    <3>2. CASE j # n
      <4>1. <<"side", j>> # k /\ <<"side", j>> \in Operations
        BY <3>2, OperationParts
      <4> HIDE DEF k
      <4> QED BY <1>1, <1>5, <2>1, <4>1 DEF SentAsLogged
    <3> QED BY <3>1, <3>2
  <2>2. /\ \A i \in 1..MaxEntries : sent'[<<"turn", i>>] = sent[<<"turn", i>>]
        /\ \A f \in 1..MaxForks : sent'[<<"fork", f>>] = sent[<<"fork", f>>]
    BY <1>5, OperationParts
  <2> QED BY <1>1, <2>1, <2>2 DEF SentAsLogged
<1>8. TasksTyped'
  BY <1>0, <1>1, <1>4 DEF TasksTyped, SideType
<1>9. Quiet'
  BY <1>0 DEF Quiet, Usable
<1>10. SideHeld(disk, sent)'
  <2>1. n \in DOMAIN disk.sides
    BY <1>1, <1>2, FitTypes
  <2> QED BY <1>0, <1>2, <1>4, <1>5, <2>1 DEF SideHeld
<1>11. TurnHeld(disk, sent)'
  <2> SUFFICES ASSUME turn.at \in {"admitted", "sent"}
               PROVE  sent'[<<"turn", turn.entry>>] = sent[<<"turn", turn.entry>>]
    BY <1>0, <1>1 DEF TurnHeld
  <2>1. turn.entry \in 1..MaxEntries
    <3>1. turn.entry \in DOMAIN disk.entries
      BY <1>1 DEF TurnHeld
    <3>2. DOMAIN disk.entries = 1..Len(disk.entries) /\ Len(disk.entries) \in 0..MaxEntries /\ MaxEntries \in Nat
      BY <1>1, FitParts, SessionAssumption
    <3> QED BY <3>1, <3>2
  <2> QED BY <1>5, <2>1, OperationParts
<1>12. (~broken => ScopeHeld(disk))'
  BY <1>0, <1>1 DEF ScopeHeld
<1> QED BY <1>0, <1>5, <1>6, <1>7, <1>8, <1>9, <1>10, <1>11, <1>12, RecordStays

LEMMA OneMore ==
    ASSUME NEW n \in Nat, NEW m \in Nat, n < m \/ n + 1 <= m
    PROVE  n + 1 \in 1..m /\ n + 1 \in 0..m
OBVIOUS

LEMMA AskSideKeeps ==
    ASSUME SessionInv, AskSide
    PROVE  StepSound
<1> DEFINE n == Len(mem.sides)
           j == Len(mem.sides) + 1
           k == <<"side", Len(mem.sides) + 1>>
           x == mem.consumed + 1
           budget == Reserve(CurrentBudget(mem), k)
           e == [state |-> "running", exchange |-> x, marked |-> FALSE]
           sides == Append(mem.sides, e)
           b == [mem EXCEPT !.sides = Append(@, e), !.consumed = @ + 1, !.budget = budget]
<1>0. /\ Usable /\ side = Idle /\ j <= MaxSides /\ mem.consumed < Exchanges
      /\ \/ Saved(b) /\ side' = [at |-> "admitted", entry |-> j, exchange |-> x]
         \/ Unsaved(b) /\ side' = side
      /\ UNCHANGED <<alive, recovering, turn, provider, answers, pending, sent, children>>
  BY DEF AskSide
<1>1. /\ Fits(mem) /\ Fits(disk) /\ TasksTyped /\ SoundRecord(disk, sent, children) /\ TurnHeld(disk, sent)
      /\ ~broken /\ mem = disk /\ AnswersHeld(disk) /\ ScopeHeld(disk) /\ SentAsLogged(disk, sent)
      /\ pending = NoPending /\ alive /\ ~recovering
  BY <1>0, InvParts DEF Saved, Unsaved, Usable, SoundRecord
<1>2. /\ mem \in SessionRecord /\ mem.sides \in Seq(SideReceipt) /\ n \in Nat /\ DOMAIN mem.sides = 1..n
      /\ mem.consumed \in 0..Exchanges /\ Exchanges \in Nat /\ MaxSides \in Nat
      /\ Len(mem.entries) <= MaxEntries /\ Len(mem.forks) <= MaxForks
  BY <1>1, FitTypes, FitParts, SessionAssumption DEF Fits
<1>3. x \in Exchange /\ x \in 0..Exchanges /\ j \in 1..MaxSides
  <2>1. mem.consumed < Exchanges /\ n + 1 <= MaxSides
    BY <1>0
  <2>2. mem.consumed \in Nat
    BY <1>1, FitTypes
  <2> QED BY <1>2, <2>1, <2>2, OneMore DEF Exchange
<1>4. budget \in BranchBudget /\ budget.on
  <2>1. k \in Operations
    BY <1>3, OperationParts
  <2> HIDE DEF k
  <2> QED BY <1>1, <2>1, CurrentBudgetIs, BudgetParts
<1>5. e \in SideReceipt /\ e.state = "running" /\ e.exchange = x
  BY <1>3 DEF SideReceipt
<1> HIDE DEF e, budget, k
<1>6. /\ sides \in Seq(SideReceipt) /\ Len(sides) = j /\ sides[j] = e
      /\ \A l \in 1..n : sides[l] = mem.sides[l]
  BY <1>2, <1>5, AppendProperties
<1>7. b = [mem EXCEPT !.sides = sides, !.consumed = x, !.budget = budget]
  OBVIOUS
<1> HIDE DEF sides, b
<1>8. /\ b \in SessionRecord /\ b.entries = mem.entries /\ b.sides = sides /\ b.forks = mem.forks
      /\ b.consumed = x /\ b.budget = budget
  BY <1>2, <1>3, <1>4, <1>6, <1>7 DEF SessionRecord
<1>9. Fits(b)
  BY <1>0, <1>2, <1>6, <1>8 DEF Fits
<1>10. SideAdded(disk, b)
  <2>1. b.budget.on
    BY <1>4, <1>8
  <2> QED BY <1>1, <1>5, <1>6, <1>8, <2>1 DEF SideAdded
<1>11. Commits(b) /\ Sanctioned(disk, b, sent, children)
  BY <1>0, <1>1, <1>9, <1>10, SideSanctioned DEF Commits
<1>12. /\ Fits(disk') /\ broken' \in BOOLEAN
       /\ disk' = disk \/ disk'.entries = b.entries
       /\ Saved(b) \/ ~broken' => disk'.entries = b.entries /\ disk'.sides = b.sides
  BY <1>11, Committed
<1>13. disk'.entries = disk.entries
  BY <1>1, <1>8, <1>12
<1>14. TurnHeld(disk, sent)' /\ ForkHeld(disk, children)'
  <2>1. RunningStays(disk, disk')
    BY <1>13 DEF RunningStays
  <2> QED BY <1>0, <1>1, <2>1, TurnStays, NothingPending
<1>15. SideHeld(disk, sent)'
  <2>1. CASE side' = Idle
    BY <2>1 DEF SideHeld, Idle
  <2>2. CASE Saved(b) /\ side' = [at |-> "admitted", entry |-> j, exchange |-> x]
    <3>1. disk'.sides = sides /\ DOMAIN disk'.sides = 1..Len(disk'.sides)
      BY <1>8, <1>12, <2>2, FitTypes
    <3>2. j \in DOMAIN disk'.sides /\ disk'.sides[j] = e
      <4>1. j \in 1..j
        BY <1>2
      <4> HIDE DEF j
      <4>2. Len(disk'.sides) = j /\ disk'.sides[j] = e
        BY <1>6, <3>1
      <4> QED BY <3>1, <4>1, <4>2
    <3>3. sent[<<"side", j>>] = <<>>
      <4>1. ~(j <= Len(disk.sides))
        BY <1>1, <1>2
      <4> QED BY <1>1, <1>3, <4>1 DEF SentAsLogged
    <3> HIDE DEF j, x
    <3>4. side'.at = "admitted" /\ side'.entry = j /\ side'.exchange = x
      BY <2>2
    <3> QED BY <1>0, <1>5, <3>2, <3>3, <3>4 DEF SideHeld
  <2> QED BY <1>0, <2>1, <2>2
<1>16. TasksTyped' /\ Quiet'
  <2>1. side' \in SideType
    <3>1. j \in 0..MaxSides /\ x \in {None} \cup Exchange
      BY <1>2, <1>3
    <3> HIDE DEF j, x
    <3> QED BY <1>0, <3>1, IdleSideTyped DEF SideType
  <2> QED BY <1>0, <1>1, <1>12, <2>1 DEF TasksTyped, Quiet, SideType
<1>17. (~broken => AnswersHeld(disk) /\ ScopeHeld(disk))'
  <2> SUFFICES ASSUME ~broken' PROVE AnswersHeld(disk)' /\ ScopeHeld(disk)'
    OBVIOUS
  <2>1. /\ DOMAIN disk'.entries = DOMAIN disk.entries /\ disk'.sides = sides
        /\ \A l \in DOMAIN disk.sides : sides[l] = disk.sides[l]
    BY <1>1, <1>2, <1>6, <1>8, <1>12, <1>13
  <2>2. AttachmentsStay(disk, disk')
    BY <1>13, <2>1 DEF AttachmentsStay
  <2>3. AnswersHeld(disk)'
    BY <1>0, <1>1, <2>2, AnswersStay DEF SoundRecord
  <2> QED BY <1>0, <1>1, <1>13, <2>3 DEF ScopeHeld
<1> QED BY <1>0, <1>1, <1>11, <1>14, <1>15, <1>16, <1>17, StepConcluded

-----------------------------------------------------------------------------
(* Forks are paid for, published and recorded.                              *)

PendingType == [what : {"nothing", "attach", "publish", "published", "unpublished"},
                id : 0..MaxSides + MaxForks]

LEMMA NoPendingTyped == NoPending \in PendingType
<1>1. 0 \in 0..MaxSides + MaxForks
  BY SessionAssumption
<1> QED BY <1>1 DEF NoPending, PendingType

LEMMA ForksStep ==
    ASSUME SessionInv, NEW b, Commits(b),
           ~broken => Fits(b) /\ ForksChange(disk, b, children),
           UNCHANGED <<alive, recovering, turn, side, provider, answers, sent, children>>,
           pending.what # "attach", pending' \in PendingType,
           Quiet', ForkHeld(disk, children)'
    PROVE  StepSound
<1>1. /\ Fits(disk) /\ TasksTyped /\ SoundRecord(disk, sent, children)
      /\ TurnHeld(disk, sent) /\ SideHeld(disk, sent)
      /\ ~broken => mem = disk /\ AnswersHeld(disk) /\ ScopeHeld(disk)
  BY InvParts
<1>2. ~broken => Sanctioned(disk, b, sent, children)
  BY <1>1, ForksSanctioned
<1>3. /\ broken' \in BOOLEAN
      /\ disk' = disk \/ (~broken /\ disk'.entries = b.entries /\ disk'.sides = b.sides)
  BY <1>2, Committed
<1>4. ~broken => b.entries = disk.entries /\ b.sides = disk.sides
  BY DEF ForksChange
<1>5. disk'.entries = disk.entries /\ disk'.sides = disk.sides
  BY <1>3, <1>4
<1>6. TurnHeld(disk, sent)' /\ SideHeld(disk, sent)'
  <2>1. RunningStays(disk, disk') /\ AskingStays(disk, disk')
    BY <1>5 DEF RunningStays, AskingStays
  <2> QED BY <1>1, <2>1, TurnStays, SideStays
<1>7. TasksTyped'
  BY <1>1, <1>3 DEF TasksTyped, PendingType
<1>8. (~broken => AnswersHeld(disk) /\ ScopeHeld(disk))'
  <2> SUFFICES ASSUME ~broken' PROVE AnswersHeld(disk)' /\ ScopeHeld(disk)'
    OBVIOUS
  <2>1. ~broken
    BY DEF Commits, Saved, Unsaved, Refuses
  <2>2. \A j : pending # [what |-> "attach", id |-> j]
    OBVIOUS
  <2>3. AnswersHeld(disk)'
    BY <1>1, <1>5, <2>1, <2>2 DEF AnswersHeld
  <2> QED BY <1>1, <1>5, <2>1, <2>3 DEF ScopeHeld
<1> QED BY <1>2, <1>6, <1>7, <1>8, StepConcluded

LEMMA CreateForkKeeps ==
    ASSUME SessionInv, CreateFork
    PROVE  StepSound
<1> DEFINE n == Len(mem.forks)
           f == Len(mem.forks) + 1
           current == CurrentBudget(mem)
           budget == [current EXCEPT !.attempts = @ + 1]
           forks == Append(mem.forks, "reserved")
           b == [mem EXCEPT !.forks = Append(@, "reserved"),
                            !.budget = [CurrentBudget(mem) EXCEPT !.attempts = @ + 1]]
<1>0. /\ Usable /\ f <= MaxForks
      /\ \/ Saved(b) /\ pending' = [what |-> "publish", id |-> f]
         \/ Unsaved(b) /\ pending' = pending
      /\ UNCHANGED <<alive, recovering, turn, side, provider, answers, sent, children>>
  BY DEF CreateFork
<1>1. /\ Fits(mem) /\ Fits(disk) /\ SoundRecord(disk, sent, children) /\ Obtained(disk, sent, children)
      /\ ~broken /\ mem = disk /\ pending = NoPending /\ alive /\ ~recovering
  BY <1>0, InvParts DEF Saved, Unsaved, Usable, SoundRecord
<1>2. /\ mem \in SessionRecord /\ mem.forks \in Seq({"reserved", "published", "uncertain"})
      /\ n \in Nat /\ DOMAIN mem.forks = 1..n /\ MaxForks \in Nat /\ MaxSides \in Nat
      /\ Len(mem.entries) <= MaxEntries /\ Len(mem.sides) <= MaxSides
  BY <1>1, FitTypes, FitParts, SessionAssumption DEF Fits
<1>3. budget \in BranchBudget /\ budget.on
  <2>1. current \in BranchBudget /\ current.on
    BY <1>1, CurrentBudgetIs
  <2> HIDE DEF current
  <2>2. current \in BranchBudget /\ current.attempts + 1 \in Nat
    BY <2>1 DEF BranchBudget
  <2>3. budget = [current EXCEPT !.attempts = current.attempts + 1]
    OBVIOUS
  <2> HIDE DEF budget
  <2>4. budget \in BranchBudget /\ budget.on = current.on
    BY <2>2, <2>3 DEF BranchBudget
  <2> QED BY <2>1, <2>4
<1> HIDE DEF budget
<1>4. /\ forks \in Seq({"reserved", "published", "uncertain"}) /\ Len(forks) = f /\ forks[f] = "reserved"
      /\ \A l \in 1..n : forks[l] = mem.forks[l]
  BY <1>2, AppendProperties
<1>5. b = [mem EXCEPT !.forks = forks, !.budget = budget]
  BY DEF budget
<1> HIDE DEF forks, b
<1>6. /\ b \in SessionRecord /\ b.entries = mem.entries /\ b.sides = mem.sides /\ b.forks = forks
      /\ b.consumed = mem.consumed /\ b.budget = budget
  BY <1>2, <1>3, <1>4, <1>5 DEF SessionRecord
<1>7. Fits(b)
  BY <1>0, <1>2, <1>4, <1>6 DEF Fits
<1>8. ForksChange(disk, b, children)
  <2>1. ASSUME NEW l \in 1..Len(b.forks)
        PROVE  IF l <= Len(disk.forks)
               THEN ForkMove(disk.forks[l], b.forks[l]) /\ (b.forks[l] = "published" => l \in children)
               ELSE b.forks[l] = "reserved"
    <3>1. CASE l <= Len(disk.forks)
      <4>1. l \in 1..n /\ b.forks[l] = disk.forks[l]
        BY <1>1, <1>4, <1>6, <3>1
      <4> QED BY <1>1, <1>2, <3>1, <4>1 DEF ForkMove, Obtained
    <3>2. CASE ~(l <= Len(disk.forks))
      <4>1. l = f
        <5>1. l \in 1..n + 1 /\ ~(l <= n)
          BY <1>1, <1>4, <1>6, <3>2
        <5> QED BY <1>2, <5>1
      <4> QED BY <1>4, <1>6, <3>2, <4>1
    <3> QED BY <3>1, <3>2
  <2>2. Len(b.forks) >= Len(disk.forks)
    BY <1>1, <1>2, <1>4, <1>6
  <2>3. b.budget.on
    BY <1>3, <1>6
  <2> QED BY <1>1, <1>6, <2>1, <2>2, <2>3 DEF ForksChange
<1>9. Commits(b) /\ Sanctioned(disk, b, sent, children)
  BY <1>0, <1>1, <1>7, <1>8, ForksSanctioned DEF Commits
<1>10. Saved(b) => Fits(disk') /\ disk'.forks = b.forks /\ disk'.budget = b.budget
  BY <1>9, Committed
<1>11. ForkHeld(disk, children)'
  <2>1. CASE pending' = NoPending
    BY <2>1, NothingPending
  <2>2. CASE Saved(b) /\ pending' = [what |-> "publish", id |-> f]
    <3>1. disk'.forks = forks /\ disk'.budget.on /\ DOMAIN disk'.forks = 1..Len(disk'.forks)
      BY <1>3, <1>6, <1>10, <2>2, FitTypes
    <3>2. f \in 1..f
      BY <1>2
    <3>3. pending'.what = "publish" /\ pending'.id = f
      BY <2>2
    <3> HIDE DEF f
    <3>4. f \in DOMAIN disk'.forks /\ disk'.forks[f] = "reserved"
      <4>1. Len(disk'.forks) = f /\ disk'.forks[f] = "reserved"
        BY <1>4, <3>1
      <4> QED BY <3>1, <3>2, <4>1
    <3> QED BY <3>1, <3>3, <3>4 DEF ForkHeld
  <2> QED BY <1>0, <1>1, <2>1, <2>2
<1>12. pending' \in PendingType /\ Quiet'
  <2>1. f \in 0..MaxSides + MaxForks
    BY <1>0, <1>2
  <2> HIDE DEF f
  <2> QED BY <1>0, <1>1, <2>1, NoPendingTyped DEF PendingType, Quiet
<1>13. pending.what # "attach"
  BY <1>1 DEF NoPending
<1> QED BY <1>0, <1>7, <1>8, <1>9, <1>11, <1>12, <1>13, ForksStep

LEMMA PublishKeeps ==
    ASSUME SessionInv, PublishFork
    PROVE  StepSound
<1> DEFINE f == pending.id
<1>0. /\ alive /\ pending.what = "publish"
      /\ \/ children' = children \cup {f} /\ pending' = [pending EXCEPT !.what = "published"]
         \/ /\ children' \in {children, children \cup {f}}
            /\ pending' = [pending EXCEPT !.what = "unpublished"]
      /\ UNCHANGED <<mem, disk, alive, broken, recovering, turn, side, provider, answers, sent>>
  BY DEF PublishFork
<1>1. /\ Fits(mem) /\ Fits(disk) /\ TasksTyped /\ OutsideTyped /\ Quiet /\ SoundRecord(disk, sent, children)
      /\ TurnHeld(disk, sent) /\ SideHeld(disk, sent) /\ ForkHeld(disk, children)
      /\ ~broken => mem = disk /\ AnswersHeld(disk) /\ ScopeHeld(disk)
  BY InvParts
<1>2. /\ f \in DOMAIN disk.forks /\ disk.forks[f] = "reserved" /\ disk.budget.on
  BY <1>0, <1>1 DEF ForkHeld
<1>3. f \in 1..MaxForks
  BY <1>1, <1>2, FitParts, SessionAssumption
<1>4. /\ pending' \in PendingType /\ pending'.id = f
      /\ pending'.what = "unpublished" \/ (pending'.what = "published" /\ f \in children')
      /\ children' = children \/ children' = children \cup {f}
  <2>1. pending \in PendingType
    BY <1>1 DEF TasksTyped, PendingType
  <2> QED BY <1>0, <2>1 DEF PendingType
<1>5. TasksTyped'
  BY <1>0, <1>1, <1>3, <1>4 DEF TasksTyped, PendingType
<1>6. SoundRecord(disk, sent, children')
  <2>1. Obtained(disk, sent, children)
    BY <1>1 DEF SoundRecord
  <2>2. Obtained(disk, sent, children')
    BY <1>2, <1>4, <2>1 DEF Obtained
  <2> QED BY <1>1, <2>2 DEF SoundRecord
<1>7. ForkHeld(disk, children)'
  BY <1>0, <1>2, <1>4 DEF ForkHeld
<1>8. Quiet'
  BY <1>0, <1>1 DEF Quiet, NoPending
<1>9. (~broken => mem = disk /\ AnswersHeld(disk) /\ ScopeHeld(disk))'
  <2> SUFFICES ASSUME ~broken' PROVE mem' = disk' /\ AnswersHeld(disk)' /\ ScopeHeld(disk)'
    OBVIOUS
  <2>1. \A j : pending # [what |-> "attach", id |-> j]
    BY <1>0
  <2>2. AnswersHeld(disk)'
    BY <1>0, <1>1, <2>1 DEF AnswersHeld
  <2> QED BY <1>0, <1>1, <2>2 DEF ScopeHeld
<1>10. TurnHeld(disk, sent)' /\ SideHeld(disk, sent)' /\ OutsideTyped'
  BY <1>0, <1>1 DEF TurnHeld, SideHeld, OutsideTyped
<1>11. SessionInv'
  BY <1>0, <1>1, <1>5, <1>6, <1>7, <1>8, <1>9, <1>10, InvWhole
<1> QED BY <1>0, <1>11 DEF StepSound

LEMMA RecordForkKeeps ==
    ASSUME SessionInv, RecordFork
    PROVE  StepSound
<1> DEFINE f == pending.id
           outcome == IF pending.what = "published" THEN "published" ELSE "uncertain"
           forks == [mem.forks EXCEPT ![f] = outcome]
           b == [mem EXCEPT !.forks[pending.id] =
                   IF pending.what = "published" THEN "published" ELSE "uncertain"]
<1>0. /\ alive /\ pending.what \in {"published", "unpublished"} /\ (Saved(b) \/ Unsaved(b))
      /\ pending' = NoPending
      /\ UNCHANGED <<alive, recovering, turn, side, provider, answers, sent, children>>
  BY DEF RecordFork
<1>1. /\ Fits(mem) /\ Fits(disk) /\ SoundRecord(disk, sent, children) /\ Obtained(disk, sent, children)
      /\ ~broken /\ mem = disk /\ ForkHeld(disk, children) /\ Quiet
  BY <1>0, InvParts DEF Saved, Unsaved, SoundRecord
<1>2. /\ mem \in SessionRecord /\ mem.forks \in Seq({"reserved", "published", "uncertain"})
      /\ Len(mem.forks) \in Nat /\ DOMAIN mem.forks = 1..Len(mem.forks)
      /\ Len(mem.entries) <= MaxEntries /\ Len(mem.sides) <= MaxSides /\ Len(mem.forks) <= MaxForks
  BY <1>1, FitTypes, FitParts DEF Fits
<1>3. /\ f \in 1..Len(mem.forks) /\ mem.forks[f] = "reserved"
      /\ outcome \in {"published", "uncertain"} /\ (outcome = "published" => f \in children)
  BY <1>0, <1>1, <1>2 DEF ForkHeld
<1>4. b = [mem EXCEPT !.forks = forks]
  OBVIOUS
<1> HIDE DEF outcome, b
<1>5. /\ forks \in Seq({"reserved", "published", "uncertain"}) /\ Len(forks) = Len(mem.forks)
      /\ forks[f] = outcome /\ \A l \in 1..Len(mem.forks) : l # f => forks[l] = mem.forks[l]
  BY <1>2, <1>3
<1> HIDE DEF forks
<1>6. /\ b \in SessionRecord /\ b.entries = mem.entries /\ b.sides = mem.sides /\ b.forks = forks
      /\ b.consumed = mem.consumed /\ b.budget = mem.budget
  BY <1>2, <1>4, <1>5 DEF SessionRecord
<1>7. Fits(b)
  BY <1>2, <1>5, <1>6 DEF Fits
<1>8. ForksChange(disk, b, children)
  <2>1. ASSUME NEW l \in 1..Len(b.forks)
        PROVE  /\ l <= Len(disk.forks)
               /\ ForkMove(disk.forks[l], b.forks[l]) /\ (b.forks[l] = "published" => l \in children)
    <3>1. l \in 1..Len(disk.forks) /\ l <= Len(disk.forks)
      BY <1>1, <1>2, <1>5, <1>6
    <3>2. CASE l = f
      BY <1>1, <1>3, <1>5, <1>6, <3>1, <3>2 DEF ForkMove
    <3>3. CASE l # f
      <4>1. b.forks[l] = disk.forks[l]
        BY <1>1, <1>5, <1>6, <3>1, <3>3
      <4> QED BY <1>1, <1>2, <3>1, <4>1 DEF ForkMove, Obtained
    <3> QED BY <3>1, <3>2, <3>3
  <2>2. Len(b.forks) >= Len(disk.forks)
    BY <1>1, <1>2, <1>5, <1>6
  <2> QED BY <1>1, <1>6, <2>1, <2>2 DEF ForksChange
<1>9. Commits(b)
  BY <1>0 DEF Commits
<1>10. ForkHeld(disk, children)' /\ pending' \in PendingType /\ Quiet'
  BY <1>0, <1>1, NothingPending, NoPendingTyped DEF Quiet, NoPending
<1>11. pending.what # "attach"
  BY <1>0
<1> QED BY <1>0, <1>7, <1>8, <1>9, <1>10, <1>11, ForksStep

-----------------------------------------------------------------------------
(* The process ends, is started again and closes what was open.             *)

LEMMA ExitKeeps ==
    ASSUME SessionInv, Exit
    PROVE  StepSound
<1>0. /\ alive' = FALSE /\ broken' = FALSE /\ recovering' = FALSE /\ mem' = disk
      /\ turn' = Idle /\ side' = Idle /\ provider' = FALSE /\ answers' = {} /\ pending' = NoPending
      /\ UNCHANGED <<disk, sent, children>>
  BY DEF Exit
<1>1. /\ Fits(disk) /\ TasksTyped /\ OutsideTyped /\ SoundRecord(disk, sent, children)
  BY InvParts
<1>2. Idle \in TurnType /\ Idle \in SideType /\ NoPending \in PendingType
  BY IdleTyped, IdleSideTyped, NoPendingTyped
<1>3. TasksTyped'
  BY <1>0, <1>1, <1>2 DEF TasksTyped, TurnType, SideType, PendingType
<1>4. Quiet' /\ OutsideTyped' /\ TurnHeld(disk, sent)' /\ SideHeld(disk, sent)' /\ ForkHeld(disk, children)'
  BY <1>0, <1>1, NothingPending DEF Quiet, OutsideTyped, TurnHeld, SideHeld, Idle
<1>5. AnswersHeld(disk)' /\ ScopeHeld(disk)'
  BY <1>0 DEF AnswersHeld, ScopeHeld, Idle
<1>6. SessionInv'
  BY <1>0, <1>1, <1>3, <1>4, <1>5, InvWhole
<1> QED BY <1>0, <1>6 DEF StepSound

LEMMA ReopenKeeps ==
    ASSUME SessionInv, Reopen
    PROVE  StepSound
<1>0. /\ ~alive /\ alive' = TRUE /\ recovering' = TRUE
      /\ UNCHANGED <<mem, disk, broken, turn, side, provider, answers, pending, sent, children>>
  BY DEF Reopen
<1>1. /\ TasksTyped /\ OutsideTyped /\ Quiet /\ SideHeld(disk, sent) /\ TurnHeld(disk, sent)
      /\ SentAsLogged(disk, sent) /\ Obtained(disk, sent, children)
      /\ ~broken => ScopeHeld(disk)
  BY InvParts DEF SoundRecord
<1>2. TasksTyped'
  BY <1>0, <1>1 DEF TasksTyped
<1>3. Quiet' /\ TurnHeld(disk, sent)' /\ SideHeld(disk, sent)' /\ OutsideTyped' /\ (~broken => ScopeHeld(disk))'
  BY <1>0, <1>1 DEF Quiet, TurnHeld, SideHeld, OutsideTyped, ScopeHeld
<1> QED BY <1>0, <1>1, <1>2, <1>3, RecordStays

LEMMA InterruptedIs ==
    ASSUME Fits(mem), mem = disk, SoundRecord(disk, sent, children), OpenAs("turn") # {}
    PROVE  /\ Fits(Interrupted) /\ MessagesChange(disk, Interrupted, sent, 0)
           /\ Interrupted.budget = IF \E i \in DOMAIN mem.entries : <<"turn", i>> \in OpenAs("turn")
                                         /\ mem.entries[i].kind = "chat" /\ mem.budget.on
                                    THEN SettleUncertain(mem.budget) ELSE mem.budget
           /\ Interrupted.consumed = mem.consumed
           /\ \A i \in 1..Len(mem.entries) :
                /\ Interrupted.entries[i].kind = mem.entries[i].kind
                /\ Interrupted.entries[i].steering = mem.entries[i].steering
                /\ Interrupted.entries[i].exchange = mem.entries[i].exchange
                /\ IF mem.entries[i].status = "running" THEN Interrupted.entries[i].status = "interrupted"
                   ELSE Interrupted.entries[i] = mem.entries[i]
<1> DEFINE ents == [i \in DOMAIN mem.entries |->
                      IF mem.entries[i].status = "running"
                      THEN [mem.entries[i] EXCEPT !.status = "interrupted"] ELSE mem.entries[i]]
           budget == IF \E i \in DOMAIN mem.entries : <<"turn", i>> \in OpenAs("turn")
                                                      /\ mem.entries[i].kind = "chat" /\ mem.budget.on
                     THEN SettleUncertain(mem.budget) ELSE mem.budget
           b == Interrupted
<1>1. /\ mem \in SessionRecord /\ Len(mem.entries) \in Nat /\ DOMAIN mem.entries = 1..Len(mem.entries)
      /\ \A i \in 1..Len(mem.entries) : mem.entries[i] \in Entry
      /\ Len(mem.entries) <= MaxEntries /\ Len(mem.sides) <= MaxSides /\ Len(mem.forks) <= MaxForks
      /\ mem.budget \in BranchBudget
  BY FitTypes, FitParts DEF Fits
<1>2. budget \in BranchBudget /\ (mem.budget.on => budget.on)
  <2>1. budget = mem.budget \/ budget = SettleUncertain(mem.budget)
    OBVIOUS
  <2> HIDE DEF budget
  <2>2. PICK k \in Operations : TRUE
    BY DEF OpenAs
  <2>3. SettleUncertain(mem.budget) \in BranchBudget /\ (mem.budget.on => SettleUncertain(mem.budget).on)
    BY <1>1, <2>2, BudgetParts
  <2>4. CASE budget = mem.budget
    BY <1>1, <2>4
  <2>5. CASE budget = SettleUncertain(mem.budget)
    BY <2>3, <2>5
  <2> QED BY <2>1, <2>4, <2>5
<1>3. ASSUME NEW i \in 1..Len(mem.entries)
      PROVE  /\ ents[i] \in Entry
             /\ ents[i] = mem.entries[i] \/ (mem.entries[i].status = "running" /\ ents[i].status = "interrupted")
             /\ ents[i].exchange = mem.entries[i].exchange /\ ents[i].attached = mem.entries[i].attached
             /\ ents[i].result = mem.entries[i].result
             /\ ents[i].kind = mem.entries[i].kind /\ ents[i].steering = mem.entries[i].steering
             /\ IF mem.entries[i].status = "running" THEN ents[i].status = "interrupted"
                ELSE ents[i] = mem.entries[i]
  <2> DEFINE e == [mem.entries[i] EXCEPT !.status = "interrupted"]
  <2>1. mem.entries[i] \in Entry
    BY <1>1
  <2>2. /\ e \in Entry /\ e.status = "interrupted" /\ e.exchange = mem.entries[i].exchange
        /\ e.attached = mem.entries[i].attached
    BY <2>1 DEF Entry, Terminal
  <2>3. /\ e.result = mem.entries[i].result /\ e.kind = mem.entries[i].kind
        /\ e.steering = mem.entries[i].steering
    BY <2>1 DEF Entry
  <2>4. ents[i] = IF mem.entries[i].status = "running" THEN e ELSE mem.entries[i]
    BY <1>1
  <2> HIDE DEF e, ents
  <2>5. CASE mem.entries[i].status = "running"
    BY <2>2, <2>3, <2>4, <2>5
  <2>6. CASE mem.entries[i].status # "running"
    BY <2>1, <2>4, <2>6
  <2> QED BY <2>5, <2>6
<1>4. ents \in Seq(Entry) /\ Len(ents) = Len(mem.entries)
  <2>1. ents = [i \in 1..Len(mem.entries) |-> ents[i]]
    BY <1>1
  <2> HIDE DEF ents
  <2>2. ents \in [1..Len(mem.entries) -> Entry]
    BY <1>3, <2>1
  <2> QED BY <1>1, <2>2, SequenceOf
<1>5. b = [mem EXCEPT !.entries = ents, !.budget = budget]
  BY DEF Interrupted
<1> HIDE DEF b, ents, budget
<1>6. /\ b \in SessionRecord /\ b.entries = ents /\ b.sides = mem.sides /\ b.forks = mem.forks
      /\ b.consumed = mem.consumed /\ b.budget = budget
  BY <1>1, <1>2, <1>4, <1>5 DEF SessionRecord
<1>7. Fits(b)
  BY <1>1, <1>4, <1>6 DEF Fits
<1>8. MessagesChange(disk, b, sent, 0)
  <2>1. ASSUME NEW i \in 1..Len(disk.entries) PROVE MessageChange(disk, b, sent, i, 0)
    <3>1. b.entries[i].result => sent[<<"turn", i>>] # <<>>
      BY <1>1, <1>3, <1>6 DEF SoundRecord, Obtained
    <3>2. EntryMove(disk.entries[i], b.entries[i])
      BY <1>3, <1>6 DEF EntryMove, Terminal
    <3> QED BY <1>3, <1>6, <3>1, <3>2 DEF MessageChange
  <2>2. b.consumed >= disk.consumed
    BY <1>6, FitTypes
  <2>3. disk.budget.on => b.budget.on
    BY <1>2, <1>6
  <2> QED BY <1>4, <1>6, <2>1, <2>2, <2>3 DEF MessagesChange
<1>9. \A i \in 1..Len(mem.entries) :
        /\ b.entries[i].kind = mem.entries[i].kind /\ b.entries[i].steering = mem.entries[i].steering
        /\ b.entries[i].exchange = mem.entries[i].exchange
        /\ IF mem.entries[i].status = "running" THEN b.entries[i].status = "interrupted"
           ELSE b.entries[i] = mem.entries[i]
  BY <1>3, <1>6
<1> QED BY <1>6, <1>7, <1>8, <1>9 DEF b, budget

LEMMA AbandonedIs ==
    ASSUME Fits(mem), mem = disk, SoundRecord(disk, sent, children), OpenAs("side") # {}
    PROVE  /\ Fits(Abandoned) /\ SidesChange(disk, Abandoned, sent)
           /\ \A c : c.entries = Abandoned.entries /\ c.sides = Abandoned.sides => AttachmentsStay(disk, c)
           /\ Abandoned.budget = SettleUncertain(CurrentBudget(mem))
           /\ \A j \in 1..Len(mem.sides) :
                Abandoned.sides[j].state = IF mem.sides[j].state = "running" THEN "uncertain"
                                           ELSE mem.sides[j].state
<1> DEFINE sides == [j \in DOMAIN mem.sides |->
                       IF mem.sides[j].state = "running"
                       THEN [mem.sides[j] EXCEPT !.state = "uncertain"] ELSE mem.sides[j]]
           budget == SettleUncertain(CurrentBudget(mem))
           b == Abandoned
<1>1. /\ mem \in SessionRecord /\ Len(mem.sides) \in Nat /\ DOMAIN mem.sides = 1..Len(mem.sides)
      /\ \A j \in 1..Len(mem.sides) : mem.sides[j] \in SideReceipt
      /\ Len(mem.entries) <= MaxEntries /\ Len(mem.sides) <= MaxSides /\ Len(mem.forks) <= MaxForks
  BY FitTypes, FitParts DEF Fits
<1>2. budget \in BranchBudget /\ budget.on
  <2>1. PICK k \in Operations : TRUE
    BY DEF OpenAs
  <2> QED BY <2>1, CurrentBudgetIs, BudgetParts
<1>3. ASSUME NEW j \in 1..Len(mem.sides)
      PROVE  /\ sides[j] \in SideReceipt /\ sides[j].exchange = mem.sides[j].exchange
             /\ \/ sides[j] = mem.sides[j]
                \/ mem.sides[j].state = "running" /\ sides[j].state = "uncertain"
             /\ sides[j].marked = mem.sides[j].marked
             /\ sides[j].state = IF mem.sides[j].state = "running" THEN "uncertain" ELSE mem.sides[j].state
  BY <1>1 DEF SideReceipt
<1>4. sides \in Seq(SideReceipt) /\ Len(sides) = Len(mem.sides)
  <2>1. sides = [j \in 1..Len(mem.sides) |-> sides[j]]
    BY <1>1
  <2> HIDE DEF sides
  <2>2. sides \in [1..Len(mem.sides) -> SideReceipt]
    BY <1>3, <2>1
  <2> QED BY <1>1, <2>2, SequenceOf
<1>5. b = [mem EXCEPT !.sides = sides, !.budget = budget]
  BY DEF Abandoned
<1> HIDE DEF b, sides, budget
<1>6. /\ b \in SessionRecord /\ b.entries = mem.entries /\ b.sides = sides /\ b.forks = mem.forks
      /\ b.consumed = mem.consumed /\ b.budget = budget
  BY <1>1, <1>2, <1>4, <1>5 DEF SessionRecord
<1>7. Fits(b)
  BY <1>1, <1>4, <1>6 DEF Fits
<1>8. SidesChange(disk, b, sent)
  <2>1. ASSUME NEW j \in 1..Len(disk.sides)
        PROVE  /\ SideMove(disk.sides[j], b.sides[j])
               /\ b.sides[j].state = "completed" => sent[<<"side", j>>] # <<>>
    <3>1. SideMove(disk.sides[j], b.sides[j])
      BY <1>3, <1>6 DEF SideMove
    <3>2. b.sides[j].state = "completed" => disk.sides[j].state = "completed"
      BY <1>3, <1>6
    <3> QED BY <1>1, <3>1, <3>2 DEF SoundRecord, Obtained
  <2>2. b.budget.on
    BY <1>2, <1>6
  <2> QED BY <1>4, <1>6, <2>1, <2>2 DEF SidesChange
<1>9. \A j \in DOMAIN disk.sides : b.sides[j].marked = disk.sides[j].marked
  BY <1>1, <1>3, <1>6
<1>10. \A c : c.entries = b.entries /\ c.sides = b.sides => AttachmentsStay(disk, c)
  BY <1>6, <1>9 DEF AttachmentsStay
<1>11. \A j \in 1..Len(mem.sides) :
         b.sides[j].state = IF mem.sides[j].state = "running" THEN "uncertain" ELSE mem.sides[j].state
  BY <1>3, <1>6
<1> QED BY <1>6, <1>7, <1>8, <1>10, <1>11 DEF b, budget

LEMMA UnconfirmedIs ==
    ASSUME Fits(mem), mem = disk, SoundRecord(disk, sent, children)
    PROVE  /\ Fits(Unconfirmed) /\ ForksChange(disk, Unconfirmed, children)
           /\ Len(Unconfirmed.forks) = Len(mem.forks) /\ Unconfirmed.budget = mem.budget
<1> DEFINE S == {"reserved", "published", "uncertain"}
           forks == [f \in DOMAIN mem.forks |-> IF mem.forks[f] = "reserved" THEN "uncertain" ELSE mem.forks[f]]
           b == Unconfirmed
<1>1. /\ mem \in SessionRecord /\ Len(mem.forks) \in Nat /\ DOMAIN mem.forks = 1..Len(mem.forks)
      /\ \A f \in 1..Len(mem.forks) : mem.forks[f] \in S
      /\ Len(mem.entries) <= MaxEntries /\ Len(mem.sides) <= MaxSides /\ Len(mem.forks) <= MaxForks
  BY FitTypes, FitParts DEF Fits
<1>3. ASSUME NEW f \in 1..Len(mem.forks)
      PROVE  /\ forks[f] \in S
             /\ forks[f] = mem.forks[f] \/ (mem.forks[f] = "reserved" /\ forks[f] = "uncertain")
  BY <1>1
<1>4. forks \in Seq(S) /\ Len(forks) = Len(mem.forks)
  <2>1. forks = [f \in 1..Len(mem.forks) |-> forks[f]]
    BY <1>1
  <2> HIDE DEF forks, S
  <2>2. forks \in [1..Len(mem.forks) -> S]
    BY <1>3, <2>1
  <2> QED BY <1>1, <2>2, SequenceOf
<1>5. b = [mem EXCEPT !.forks = forks]
  BY DEF Unconfirmed
<1> HIDE DEF b, forks
<1>6. /\ b \in SessionRecord /\ b.entries = mem.entries /\ b.sides = mem.sides /\ b.forks = forks
      /\ b.consumed = mem.consumed /\ b.budget = mem.budget
  BY <1>1, <1>4, <1>5 DEF SessionRecord
<1>7. Fits(b)
  BY <1>1, <1>4, <1>6 DEF Fits
<1>8. ForksChange(disk, b, children)
  <2>1. ASSUME NEW f \in 1..Len(b.forks)
        PROVE  /\ f <= Len(disk.forks)
               /\ ForkMove(disk.forks[f], b.forks[f]) /\ (b.forks[f] = "published" => f \in children)
    <3>1. f \in 1..Len(mem.forks) /\ f <= Len(disk.forks)
      BY <1>1, <1>4, <1>6
    <3>2. ForkMove(disk.forks[f], b.forks[f])
      BY <1>3, <1>6, <3>1 DEF ForkMove
    <3>3. b.forks[f] = "published" => disk.forks[f] = "published"
      BY <1>3, <1>6, <3>1
    <3> QED BY <1>1, <3>1, <3>2, <3>3 DEF SoundRecord, Obtained
  <2>2. Len(b.forks) >= Len(disk.forks)
    BY <1>1, <1>4, <1>6
  <2> QED BY <1>6, <2>1, <2>2 DEF ForksChange
<1> QED BY <1>4, <1>6, <1>7, <1>8 DEF b

LEMMA RecoverKeeps ==
    ASSUME SessionInv, Recover
    PROVE  StepSound
<1> DEFINE none == OpenAs("turn") \cup OpenAs("side") \cup OpenAs("fork") = {}
           b == IF OpenAs("turn") # {} THEN Interrupted
                ELSE IF OpenAs("side") # {} THEN Abandoned ELSE Unconfirmed
<1>0. /\ alive /\ recovering
      /\ IF none THEN recovering' = FALSE /\ UNCHANGED <<mem, disk, alive, broken>>
         ELSE (Saved(b) \/ Unsaved(b)) /\ UNCHANGED <<alive, recovering>>
      /\ UNCHANGED <<turn, side, provider, answers, pending, sent, children>>
  BY DEF Recover
<1>1. /\ Fits(mem) /\ Fits(disk) /\ TasksTyped /\ OutsideTyped /\ SoundRecord(disk, sent, children)
      /\ SentAsLogged(disk, sent) /\ Obtained(disk, sent, children) /\ AnswersApart(disk)
      /\ TurnHeld(disk, sent) /\ SideHeld(disk, sent) /\ Quiet
      /\ ~broken => mem = disk /\ AnswersHeld(disk) /\ ScopeHeld(disk)
  BY InvParts DEF SoundRecord
<1>2. turn = Idle /\ side = Idle /\ pending = NoPending
  BY <1>0, <1>1 DEF Quiet
<1>3. CASE none
  <2>0. recovering' = FALSE /\ alive' = alive
        /\ UNCHANGED <<mem, disk, broken, turn, side, provider, answers, pending, sent, children>>
    BY <1>0, <1>3
  <2>1. TasksTyped' /\ Quiet'
    BY <1>0, <1>1, <2>0 DEF TasksTyped, Quiet
  <2>2. TurnHeld(disk, sent)' /\ SideHeld(disk, sent)' /\ OutsideTyped' /\ (~broken => ScopeHeld(disk))'
    BY <1>1, <2>0 DEF TurnHeld, SideHeld, OutsideTyped, ScopeHeld
  <2> QED BY <1>1, <2>0, <2>1, <2>2, RecordStays
<1>4. CASE ~none
  <2>0. /\ Saved(b) \/ Unsaved(b)
        /\ UNCHANGED <<alive, recovering, turn, side, provider, answers, pending, sent, children>>
    BY <1>0, <1>4
  <2>1. Commits(b) /\ ~broken /\ mem = disk /\ AnswersHeld(disk)
    BY <1>1, <2>0 DEF Commits, Saved, Unsaved
  <2>2. Quiet' /\ TurnHeld(disk, sent)' /\ SideHeld(disk, sent)' /\ ForkHeld(disk, children)'
    BY <1>2, <2>0, NothingPending DEF Quiet, TurnHeld, SideHeld, Idle
  <2>3. CASE OpenAs("turn") # {}
    <3>1. b = Interrupted
      BY <2>3
    <3>2. Fits(b) /\ MessagesChange(disk, b, sent, 0)
      BY <1>1, <2>1, <2>3, <3>1, InterruptedIs
    <3>3. turn' \in TurnType /\ turn'.at # "scope"
      BY <1>2, <2>0, IdleTyped DEF Idle
    <3> HIDE DEF b
    <3> QED BY <1>2, <2>0, <2>1, <2>2, <3>2, <3>3, MessagesStep
  <2>4. CASE OpenAs("turn") = {} /\ OpenAs("side") # {}
    <3>1. b = Abandoned
      BY <2>4
    <3>2. /\ Fits(b) /\ SidesChange(disk, b, sent)
          /\ disk'.entries = b.entries /\ disk'.sides = b.sides => AttachmentsStay(disk, disk')
      BY <1>1, <2>1, <2>4, <3>1, AbandonedIs
    <3> HIDE DEF b
    <3>3. (~broken => AnswersHeld(disk))'
      <4> SUFFICES ASSUME ~broken' PROVE AnswersHeld(disk)'
        OBVIOUS
      <4>1. Sanctioned(disk, b, sent, children)
        BY <1>1, <3>2, SidesSanctioned
      <4>2. disk'.entries = b.entries /\ disk'.sides = b.sides
        BY <2>1, <4>1, Committed
      <4> QED BY <1>1, <2>0, <2>1, <3>2, <4>2, AnswersStay
    <3>4. side' \in SideType /\ provider' \in BOOLEAN /\ answers' \subseteq 1..MaxSides
      BY <1>1, <1>2, <2>0, IdleSideTyped DEF TasksTyped
    <3> QED BY <1>2, <2>0, <2>1, <2>2, <3>2, <3>3, <3>4, SidesStep
  <2>5. CASE OpenAs("turn") = {} /\ OpenAs("side") = {}
    <3>1. b = Unconfirmed
      BY <2>5
    <3>2. Fits(b) /\ ForksChange(disk, b, children)
      BY <1>1, <2>1, <3>1, UnconfirmedIs
    <3>3. pending.what # "attach" /\ pending' \in PendingType
      BY <1>2, <2>0, NoPendingTyped DEF NoPending
    <3> HIDE DEF b
    <3> QED BY <2>0, <2>1, <2>2, <3>2, <3>3, ForksStep
  <2> QED BY <2>3, <2>4, <2>5
<1> QED BY <1>3, <1>4

-----------------------------------------------------------------------------
(* The session keeps its invariant.                                        *)

LEMMA InitHolds ==
    ASSUME Init
    PROVE  SessionInv
<1>0. /\ disk.entries = <<>> /\ disk.sides = <<>> /\ disk.forks = <<>> /\ disk.consumed = 0
      /\ disk.budget = NoBudget /\ disk.journal = [k \in Operations |-> <<>>]
      /\ mem = disk /\ alive = TRUE /\ broken = FALSE /\ recovering = FALSE
      /\ turn = Idle /\ side = Idle /\ provider = FALSE /\ answers = {}
      /\ pending = NoPending /\ sent = [k \in Operations |-> <<>>] /\ children = {}
  BY DEF Init
<1>1. Fits(disk)
  <2>1. NoBudget \in BranchBudget /\ [k \in Operations |-> <<>>] \in [Operations -> Phases]
    BY DEF NoBudget, BranchBudget, Phases
  <2>2. 0 \in 0..Exchanges /\ 0 <= MaxEntries /\ 0 <= MaxSides /\ 0 <= MaxForks
    BY SessionAssumption
  <2>3. <<>> \in Seq(Entry) /\ <<>> \in Seq(SideReceipt) /\ <<>> \in Seq({"reserved", "published", "uncertain"})
    OBVIOUS
  <2>4. disk = [entries |-> <<>>, sides |-> <<>>, forks |-> <<>>, consumed |-> 0,
                budget |-> NoBudget, journal |-> [k \in Operations |-> <<>>]]
    BY DEF Init
  <2> DEFINE journal == [k \in Operations |-> <<>>]
  <2> HIDE DEF journal
  <2>5. disk \in SessionRecord
    BY <2>1, <2>2, <2>3, <2>4 DEF SessionRecord, journal
  <2> QED BY <1>0, <2>2, <2>5 DEF Fits
<1>2. Len(disk.entries) = 0 /\ Len(disk.sides) = 0 /\ Len(disk.forks) = 0
  BY <1>0
<1>3. DOMAIN disk.entries = {} /\ DOMAIN disk.sides = {} /\ DOMAIN disk.forks = {}
  BY <1>0
<1>4. \A k \in Operations : disk.journal[k] = <<>> /\ sent[k] = <<>>
  BY <1>0
<1>5. Logged(disk)
  <2>1. ASSUME NEW i \in 1..MaxEntries
        PROVE  ~(i <= Len(disk.entries)) /\ disk.journal[<<"turn", i>>] = <<>>
    <3>1. ~(i <= Len(disk.entries))
      BY <1>2
    <3>2. disk.journal[<<"turn", i>>] = <<>>
      BY <1>4, OperationParts
    <3> QED BY <3>1, <3>2
  <2>2. ASSUME NEW j \in 1..MaxSides
        PROVE  ~(j <= Len(disk.sides)) /\ disk.journal[<<"side", j>>] = <<>>
    <3>1. ~(j <= Len(disk.sides))
      BY <1>2
    <3>2. disk.journal[<<"side", j>>] = <<>>
      BY <1>4, OperationParts
    <3> QED BY <3>1, <3>2
  <2>3. ASSUME NEW f \in 1..MaxForks
        PROVE  ~(f <= Len(disk.forks)) /\ disk.journal[<<"fork", f>>] = <<>>
    <3>1. ~(f <= Len(disk.forks))
      BY <1>2
    <3>2. disk.journal[<<"fork", f>>] = <<>>
      BY <1>4, OperationParts
    <3> QED BY <3>1, <3>2
  <2> QED BY <2>1, <2>2, <2>3 DEF Logged
<1>6. SentAsLogged(disk, sent)
  BY <1>4, OperationParts DEF SentAsLogged
<1>7. ExchangesApart(disk) /\ AnswersApart(disk) /\ AnswersHeld(disk)
  BY <1>3 DEF ExchangesApart, AnswersApart, AnswersHeld
<1>8. Obtained(disk, sent, children)
  BY <1>0, <1>3 DEF Obtained
<1>9. TasksTyped
  BY <1>0, IdleTyped, IdleSideTyped, NoPendingTyped DEF TasksTyped, TurnType, SideType, PendingType
<1>10. OutsideTyped
  <2>1. <<>> \in Seq({None} \cup Exchange)
    OBVIOUS
  <2> QED BY <1>0, <2>1 DEF OutsideTyped
<1>11. TurnHeld(disk, sent) /\ SideHeld(disk, sent) /\ ForkHeld(disk, children) /\ ScopeHeld(disk) /\ Quiet
  BY <1>0 DEF TurnHeld, SideHeld, ForkHeld, ScopeHeld, Quiet, Idle, NoPending
<1> QED BY <1>0, <1>1, <1>5, <1>6, <1>7, <1>8, <1>9, <1>10, <1>11
        DEF SessionInv, SessionTypeOK, Fits, TasksTyped, Kept, SoundRecord

LEMMA StutterKeeps ==
    ASSUME SessionInv, UNCHANGED vars
    PROVE  StepSound
<1>0. UNCHANGED <<mem, disk, alive, broken, recovering, turn, side, provider, answers, pending,
                  sent, children>>
  BY DEF vars
<1>1. /\ TasksTyped /\ OutsideTyped /\ Quiet /\ SideHeld(disk, sent) /\ TurnHeld(disk, sent)
      /\ SentAsLogged(disk, sent) /\ Obtained(disk, sent, children)
      /\ ~broken => ScopeHeld(disk)
  BY InvParts DEF SoundRecord
<1>2. TasksTyped' /\ Quiet'
  BY <1>0, <1>1 DEF TasksTyped, Quiet
<1>3. TurnHeld(disk, sent)' /\ SideHeld(disk, sent)' /\ OutsideTyped' /\ (~broken => ScopeHeld(disk))'
  BY <1>0, <1>1 DEF TurnHeld, SideHeld, OutsideTyped, ScopeHeld
<1> QED BY <1>0, <1>1, <1>2, <1>3, RecordStays

(* Every step keeps the invariant, and changes the saved record, if it     *)
(* does, without taking back an outcome.                                   *)
LEMMA NextKeeps ==
    ASSUME SessionInv, [SessionNext]_vars
    PROVE  StepSound
<1>1. ASSUME NEW kind \in Kinds, Submit(kind) PROVE StepSound
  BY <1>1, SubmitKeeps
<1>2. CASE CancelQueued
  BY <1>2, CancelKeeps
<1>3. CASE CheckScope
  BY <1>3, CheckScopeKeeps
<1>4. CASE ScopeChanged
  BY <1>4, ScopeChangedKeeps
<1>5. CASE Step
  BY <1>5, StepKeeps
<1>6. CASE Send
  BY <1>6, SendKeeps
<1>7. CASE Complete \/ Fail \/ CancelTurn
  BY <1>7, EndKeeps
<1>8. CASE AskSide
  BY <1>8, AskSideKeeps
<1>9. CASE SendSide
  BY <1>9, SendSideKeeps
<1>10. CASE AnswerSide
  BY <1>10, AnswerSideKeeps
<1>11. CASE SideFails
  BY <1>11, SideEndsKeeps DEF SideFails
<1>12. CASE CancelSide
  BY <1>12, SideEndsKeeps DEF CancelSide
<1>13. CASE ProviderEnds
  BY <1>13, ProviderEndsKeeps
<1>14. ASSUME NEW j \in 1..Len(mem.sides), ReconcileSide(j) PROVE StepSound
  BY <1>14, ReconcileKeeps
<1>15. ASSUME NEW j \in 1..Len(mem.sides), AttachSide(j) PROVE StepSound
  BY <1>15, AttachKeeps
<1>16. CASE MarkSide
  BY <1>16, MarkKeeps
<1>17. CASE CreateFork
  BY <1>17, CreateForkKeeps
<1>18. CASE PublishFork
  BY <1>18, PublishKeeps
<1>19. CASE RecordFork
  BY <1>19, RecordForkKeeps
<1>20. CASE Exit
  BY <1>20, ExitKeeps
<1>21. CASE Reopen
  BY <1>21, ReopenKeeps
<1>22. CASE Recover
  BY <1>22, RecoverKeeps
<1>23. CASE UNCHANGED vars
  BY <1>23, StutterKeeps
<1> QED BY <1>1, <1>2, <1>3, <1>4, <1>5, <1>6, <1>7, <1>8, <1>9, <1>10, <1>11, <1>12, <1>13,
           <1>14, <1>15, <1>16, <1>17, <1>18, <1>19, <1>20, <1>21, <1>22, <1>23 DEF SessionNext

(* The invariant of the session: what its tasks hold is on record, memory  *)
(* is what was saved while the controller may still save, and the saved    *)
(* record is true of what went out, whatever fails or ends.                *)
THEOREM SessionInvariant == SessionSpec => []SessionInv
<1>1. Init => SessionInv
  BY InitHolds
<1>2. SessionInv /\ [SessionNext]_vars => SessionInv'
  BY NextKeeps DEF StepSound
<1> QED BY <1>1, <1>2, PTL DEF SessionSpec

(* The session's variables keep their types: no handler goes past the      *)
(* limits on messages, side questions, forks and exchanges.                *)
THEOREM SessionTypes == SessionSpec => []SessionTypeOK
<1>1. SessionInv => SessionTypeOK
  BY DEF SessionInv
<1> QED BY <1>1, SessionInvariant, PTL

(* No message or side question is sent twice, no two of them use the same  *)
(* recorded exchange, and a side answer enters the conversation once,      *)
(* across failed saves, crashes and recoveries (conversation.py step and   *)
(* recovery; conversation_branch_controller.py attach_side).               *)
THEOREM SentOnceHolds == SessionSpec => []SentOnce
<1>1. ASSUME SessionInv PROVE SentOnce
  <2>1. /\ Fits(disk) /\ OutsideTyped /\ SentAsLogged(disk, sent) /\ ExchangesApart(disk) /\ AnswersApart(disk)
    BY <1>1, InvParts DEF SoundRecord
  <2> DEFINE ex(k) == IF k[1] = "turn" THEN disk.entries[k[2]].exchange ELSE disk.sides[k[2]].exchange
  <2>2. ASSUME NEW k \in Operations, sent[k] # <<>>
        PROVE  /\ sent[k] = <<ex(k)>>
               /\ \/ k[1] = "turn" /\ k[2] \in DOMAIN disk.entries /\ k = <<"turn", k[2]>>
                  \/ k[1] = "side" /\ k[2] \in DOMAIN disk.sides /\ k = <<"side", k[2]>>
    <3>1. ASSUME NEW i \in 1..MaxEntries, k = <<"turn", i>>
          PROVE  sent[k] = <<disk.entries[i].exchange>> /\ i \in DOMAIN disk.entries
      BY <2>1, <2>2, <3>1, FitTypes DEF SentAsLogged
    <3>2. ASSUME NEW j \in 1..MaxSides, k = <<"side", j>>
          PROVE  sent[k] = <<disk.sides[j].exchange>> /\ j \in DOMAIN disk.sides
      BY <2>1, <2>2, <3>2, FitTypes DEF SentAsLogged
    <3>3. ASSUME NEW f \in 1..MaxForks, k = <<"fork", f>> PROVE FALSE
      BY <2>1, <2>2, <3>3 DEF SentAsLogged
    <3> QED BY <3>1, <3>2, <3>3, OperationKinds
  <2>3. ASSUME NEW k \in Operations PROVE Len(sent[k]) <= 1
    <3>1. CASE sent[k] = <<>>
      BY <3>1
    <3>2. CASE sent[k] # <<>>
      <4>1. sent[k] = <<ex(k)>>
        BY <2>2, <3>2
      <4> HIDE DEF ex
      <4> QED BY <4>1
    <3> QED BY <3>1, <3>2
  <2>4. ASSUME NEW k \in Operations, NEW l \in Operations, sent[k] # <<>>, sent[k] = sent[l], sent[k] # <<None>>
        PROVE  k = l
    <3>1. sent[k] = <<ex(k)>> /\ sent[l] = <<ex(l)>>
      BY <2>2, <2>4
    <3>2. ex(k) = ex(l) /\ ex(k) # None
      <4> DEFINE x == ex(k)
                 y == ex(l)
      <4>1. <<x>> = <<y>> /\ <<x>> # <<None>>
        BY <2>4, <3>1
      <4> HIDE DEF x, y
      <4>2. x = y /\ x # None
        BY <4>1
      <4> QED BY <4>2 DEF x, y
    <3>3. /\ \/ k[1] = "turn" /\ k[2] \in DOMAIN disk.entries /\ k = <<"turn", k[2]>>
             \/ k[1] = "side" /\ k[2] \in DOMAIN disk.sides /\ k = <<"side", k[2]>>
          /\ \/ l[1] = "turn" /\ l[2] \in DOMAIN disk.entries /\ l = <<"turn", l[2]>>
             \/ l[1] = "side" /\ l[2] \in DOMAIN disk.sides /\ l = <<"side", l[2]>>
      BY <2>2, <2>4
    <3>4. CASE k[1] = "turn" /\ l[1] = "turn"
      <4>1. k[2] = l[2]
        BY <2>1, <3>2, <3>3, <3>4 DEF ExchangesApart
      <4> QED BY <3>3, <3>4, <4>1
    <3>5. CASE k[1] = "side" /\ l[1] = "side"
      <4>1. k[2] = l[2]
        BY <2>1, <3>2, <3>3, <3>5 DEF ExchangesApart
      <4> QED BY <3>3, <3>5, <4>1
    <3>6. CASE k[1] = "turn" /\ l[1] = "side"
      BY <2>1, <3>2, <3>3, <3>6 DEF ExchangesApart
    <3>7. CASE k[1] = "side" /\ l[1] = "turn"
      BY <2>1, <3>2, <3>3, <3>7 DEF ExchangesApart
    <3> QED BY <3>3, <3>4, <3>5, <3>6, <3>7
  <2>5. AttachedOnce
    BY <2>1 DEF AttachedOnce, AnswersApart
  <2> QED BY <2>3, <2>4, <2>5 DEF SentOnce, NeverReplayed
<1> QED BY <1>1, SessionInvariant, PTL

(* What went out or was published is on record first, every success on     *)
(* record was obtained, and the journal says of each operation what the    *)
(* record says (conversation.py _commit, conversation_recovery.py          *)
(* transition_journal).                                                    *)
THEOREM RecordIsTrue == SessionSpec => []RecordTrue
<1>1. ASSUME SessionInv PROVE RecordTrue
  <2>1. /\ Fits(disk) /\ OutsideTyped /\ SentAsLogged(disk, sent) /\ ExchangesApart(disk)
        /\ Logged(disk) /\ Obtained(disk, sent, children)
    BY <1>1, InvParts DEF SoundRecord
  <2>2. ASSUME NEW k \in Operations, sent[k] # <<>>
        PROVE  disk.journal[k] # <<>> /\ sent[k][1] <= disk.consumed
    <3>1. ASSUME NEW i \in 1..MaxEntries, k = <<"turn", i>>
          PROVE  disk.journal[k] # <<>> /\ sent[k][1] <= disk.consumed
      <4>1. i <= Len(disk.entries) /\ disk.journal[k] # <<>> /\ sent[k] = <<disk.entries[i].exchange>>
        BY <2>1, <2>2, <3>1 DEF SentAsLogged
      <4>2. disk.entries[i].exchange <= disk.consumed
        BY <2>1, <4>1, FitTypes DEF ExchangesApart
      <4> QED BY <4>1, <4>2
    <3>2. ASSUME NEW j \in 1..MaxSides, k = <<"side", j>>
          PROVE  disk.journal[k] # <<>> /\ sent[k][1] <= disk.consumed
      <4>1. j <= Len(disk.sides) /\ sent[k] = <<disk.sides[j].exchange>>
        BY <2>1, <2>2, <3>2 DEF SentAsLogged
      <4>2. disk.sides[j].exchange <= disk.consumed
        BY <2>1, <4>1, FitTypes DEF ExchangesApart
      <4>3. SideLog(disk.sides[j], disk.journal[k])
        BY <2>1, <3>2, <4>1 DEF Logged
      <4>4. disk.journal[k] # <<>>
        BY <4>3, Events DEF SideLog
      <4> QED BY <4>1, <4>2, <4>4
    <3>3. ASSUME NEW f \in 1..MaxForks, k = <<"fork", f>> PROVE FALSE
      BY <2>1, <2>2, <3>3 DEF SentAsLogged
    <3> QED BY <3>1, <3>2, <3>3, OperationKinds
  <2>3. WrittenAhead
    BY <2>1, <2>2 DEF WrittenAhead, Obtained
  <2>4. ASSUME NEW i \in 1..MaxEntries
        PROVE  LET k == <<"turn", i>> IN
               \/ disk.journal[k] = <<>> /\ Unsent(disk, k)
               \/ disk.journal[k] = <<"dispatch">> /\ Open(disk, k)
               \/ /\ disk.journal[k] = <<"dispatch", "completed">>
                  /\ ~Open(disk, k) /\ Succeeded(disk, k)
               \/ /\ disk.journal[k] = <<"dispatch", "uncertain">>
                  /\ disk.entries[i].status \in {"failed", "cancelled", "interrupted"}
                  /\ ~Open(disk, k) /\ ~Succeeded(disk, k)
    <3> DEFINE k == <<"turn", i>>
               e == disk.entries[i]
    <3>1. Len(disk.entries) \in Nat /\ (Open(disk, k) <=> i <= Len(disk.entries) /\ e.status = "running")
      BY <2>1, FitTypes, OpenParts
    <3>2. Succeeded(disk, k) <=> e.result
      BY DEF Succeeded
    <3>3. Unsent(disk, k) <=> \/ i > Len(disk.entries)
                              \/ e.status = "queued"
                              \/ /\ e.status = "cancelled"
                                 /\ e.kind = "chat" => e.exchange = None
      BY DEF Unsent
    <3>4. CASE ~(i <= Len(disk.entries))
      <4>1. disk.journal[k] = <<>>
        BY <2>1, <3>4 DEF Logged
      <4>2. i > Len(disk.entries)
        BY <3>1, <3>4
      <4> QED BY <3>3, <4>1, <4>2
    <3>5. CASE i <= Len(disk.entries)
      <4>1. TurnLog(e, disk.journal[k])
        BY <2>1, <3>5 DEF Logged
      <4> HIDE DEF e, k
      <4>2. \/ disk.journal[k] = <<>> /\ Unsent(disk, k)
            \/ disk.journal[k] = <<"dispatch">> /\ Open(disk, k)
            \/ /\ disk.journal[k] = <<"dispatch", "completed">>
               /\ ~Open(disk, k) /\ Succeeded(disk, k)
            \/ /\ disk.journal[k] = <<"dispatch", "uncertain">>
               /\ e.status \in {"failed", "cancelled", "interrupted"}
               /\ ~Open(disk, k) /\ ~Succeeded(disk, k)
        <5>1. CASE e.status = "queued" /\ disk.journal[k] = <<>>
          BY <3>3, <5>1
        <5>2. CASE e.status = "running" /\ disk.journal[k] = <<"dispatch">>
          BY <3>1, <3>5, <5>2
        <5>3. CASE e.status = "cancelled" /\ e.exchange = None /\ disk.journal[k] = <<>>
          BY <3>3, <5>3
        <5>4. CASE e.status \in Terminal /\ e.result /\ disk.journal[k] = <<"dispatch", "completed">>
          BY <3>1, <3>2, <5>4 DEF Terminal
        <5>5. CASE /\ e.status \in {"failed", "cancelled", "interrupted"} /\ ~e.result
                   /\ disk.journal[k] = <<"dispatch", "uncertain">>
          BY <3>1, <3>2, <5>5
        <5> QED BY <4>1, <5>1, <5>2, <5>3, <5>4, <5>5 DEF TurnLog
      <4> QED BY <4>2 DEF e, k
    <3> QED BY <3>4, <3>5
  <2>5. ASSUME NEW j \in 1..MaxSides
        PROVE  LET k == <<"side", j>> IN
               \/ disk.journal[k] = <<>> /\ Unsent(disk, k)
               \/ disk.journal[k] = <<"dispatch">> /\ Open(disk, k)
               \/ /\ disk.journal[k] = <<"dispatch", "completed">>
                  /\ ~Open(disk, k) /\ Succeeded(disk, k)
               \/ /\ disk.journal[k] = <<"dispatch", "uncertain">>
                  /\ ~Open(disk, k) /\ ~Succeeded(disk, k)
    <3>1. Len(disk.sides) \in Nat
      BY <2>1, FitTypes
    <3>2. CASE ~(j <= Len(disk.sides))
      <4>1. disk.journal[<<"side", j>>] = <<>> /\ j > Len(disk.sides)
        BY <2>1, <3>1, <3>2 DEF Logged
      <4> QED BY <4>1 DEF Unsent
    <3>3. CASE j <= Len(disk.sides)
      <4>1. SideLog(disk.sides[j], disk.journal[<<"side", j>>])
        BY <2>1, <3>3 DEF Logged
      <4> QED BY <3>3, <4>1, OpenParts DEF SideLog
    <3> QED BY <3>2, <3>3
  <2>6. ASSUME NEW f \in 1..MaxForks
        PROVE  LET k == <<"fork", f>> IN
               \/ disk.journal[k] = <<>> /\ Unsent(disk, k)
               \/ disk.journal[k] = <<"dispatch">> /\ Open(disk, k)
               \/ /\ disk.journal[k] = <<"dispatch", "completed">>
                  /\ ~Open(disk, k) /\ Succeeded(disk, k)
               \/ /\ disk.journal[k] = <<"dispatch", "uncertain">>
                  /\ ~Open(disk, k) /\ ~Succeeded(disk, k)
    <3>1. Len(disk.forks) \in Nat
      BY <2>1, FitTypes
    <3>2. CASE ~(f <= Len(disk.forks))
      <4>1. disk.journal[<<"fork", f>>] = <<>> /\ f > Len(disk.forks)
        BY <2>1, <3>1, <3>2 DEF Logged
      <4> QED BY <4>1 DEF Unsent
    <3>3. CASE f <= Len(disk.forks)
      <4>1. ForkLog(disk.forks[f], disk.journal[<<"fork", f>>])
        BY <2>1, <3>3 DEF Logged
      <4> QED BY <3>3, <4>1, OpenParts DEF ForkLog
    <3> QED BY <3>2, <3>3
  <2>7. ASSUME NEW k \in Operations
        PROVE  \/ disk.journal[k] = <<>> /\ Unsent(disk, k)
               \/ disk.journal[k] = <<"dispatch">> /\ Open(disk, k)
               \/ /\ disk.journal[k] = <<"dispatch", "completed">>
                  /\ ~Open(disk, k) /\ Succeeded(disk, k)
               \/ /\ disk.journal[k] = <<"dispatch", "uncertain">>
                  /\ k[1] = "turn" => disk.entries[k[2]].status \in {"failed", "cancelled", "interrupted"}
                  /\ ~Open(disk, k) /\ ~Succeeded(disk, k)
    BY <2>4, <2>5, <2>6, OperationKinds
  <2>8. OutcomesAgree
    BY <2>7 DEF OutcomesAgree
  <2> QED BY <2>3, <2>8 DEF RecordTrue
<1> QED BY <1>1, SessionInvariant, PTL

(* No save, crash, recovery or late task changes a saved outcome, runs     *)
(* what was cancelled, queues again what began or gives an exchange back   *)
(* (conversation.py replace, conversation_branch_controller.py).           *)
THEOREM OutcomesAreFinal == SessionSpec => OutcomesFinal
<1> DEFINE Final == /\ \A i \in DOMAIN disk.entries :
                         /\ i \in DOMAIN disk'.entries
                         /\ disk.entries[i].status \in Terminal => disk'.entries[i] = disk.entries[i]
                         /\ disk.entries[i].status = "running" => disk'.entries[i].status # "queued"
                    /\ \A j \in DOMAIN disk.sides :
                         /\ disk.sides[j].state \in {"completed", "reconciled"} =>
                              disk'.sides[j].state = disk.sides[j].state
                         /\ disk.sides[j].state \in {"cancelled", "uncertain"} =>
                              disk'.sides[j].state \in {disk.sides[j].state, "reconciled"}
                    /\ disk'.consumed >= disk.consumed
<1>1. SessionInv /\ [SessionNext]_vars => [Final]_disk
  <2> SUFFICES ASSUME SessionInv, [SessionNext]_vars PROVE Final \/ disk' = disk
    OBVIOUS
  <2>1. disk' = disk \/ Finality(disk, disk')
    BY NextKeeps DEF StepSound
  <2> QED BY <2>1 DEF Finality
<1> QED BY <1>1, SessionInvariant, PTL DEF SessionSpec, OutcomesFinal

-----------------------------------------------------------------------------
(* The books: exchanges, messages and budget of a record add up.            *)

(* A chat message has an exchange once it was admitted, and only then runs  *)
(* or ends otherwise than cancelled in the queue.                           *)
ChatsCharged(s) ==
    \A i \in DOMAIN s.entries :
      /\ s.entries[i].exchange # None =>
           s.entries[i].kind = "chat" /\ s.entries[i].status # "queued"
      /\ s.entries[i].exchange = None /\ s.entries[i].kind = "chat" =>
           s.entries[i].status \in {"queued", "cancelled"}
SteersCalls(s) ==
    \A i \in DOMAIN s.entries : s.entries[i].steering # None =>
      /\ s.entries[i].steering < i
      /\ s.entries[s.entries[i].steering].exchange # None
OneAtATime(s) ==
    /\ \A i, l \in DOMAIN s.entries :
         s.entries[i].status = "running" /\ s.entries[l].status = "running" => i = l
    /\ \A j, l \in DOMAIN s.sides :
         s.sides[j].state = "running" /\ s.sides[l].state = "running" => j = l

(* b accounts for n attempts, with the operations O open and U unresolved.  *)
Tally(b, n, O, U) ==
    /\ b.on /\ b.attempts = n /\ n <= Attempts
    /\ b.uncertain = Cardinality(U) /\ b.pending = O \cup U
Tells(b, s) == Tally(b, s.consumed + Len(s.forks), OpenCharges(s), Unresolved(s))
Counted(s) ==
    /\ s.consumed = Cardinality(Admitted(s)) + Len(s.sides)
    /\ Len(s.sides) > 0 \/ Len(s.forks) > 0 => s.budget.on
    /\ s.budget.on => Tells(s.budget, s)

AddsUp(s) == ChatsCharged(s) /\ SteersCalls(s) /\ OneAtATime(s) /\ Counted(s)

(* What runs on record is what the tasks wait for; a scope is checked for   *)
(* a review.                                                                *)
TasksAlone(s) ==
    /\ \A i \in DOMAIN s.entries : s.entries[i].status = "running" =>
         turn.at \in {"admitted", "sent"} /\ turn.entry = i
    /\ \A j \in DOMAIN s.sides : s.sides[j].state = "running" =>
         side.at # "idle" /\ side.entry = j
    /\ turn.at = "scope" => s.entries[turn.entry].kind # "chat"

BooksInv ==
    /\ AddsUp(mem) /\ AddsUp(disk) /\ ExchangesApart(mem)
    /\ alive /\ ~recovering /\ ~broken => TasksAlone(disk)

-----------------------------------------------------------------------------
(* How the budget follows one operation.                                    *)

LEMMA TallyMoves ==
    ASSUME NEW b \in BranchBudget, NEW n \in Nat, NEW O, NEW U, Tally(b, n, O, U), IsFiniteSet(U), NEW k
    PROVE  /\ b.attempts < Attempts => Tally(Reserve(b, k), n + 1, O \cup {k}, U)
           /\ b.attempts < Attempts => Tally([b EXCEPT !.attempts = @ + 1], n + 1, O, U)
           /\ k \in O /\ k \notin U => Tally(SettleUsage(b, k), n, O \ {k}, U)
           /\ k \in O /\ k \notin U => Tally(SettleUncertain(b), n, O \ {k}, U \cup {k})
           /\ k \in U /\ k \notin O =>
                Tally([SettleUsage(b, k) EXCEPT !.uncertain = IF @ = 0 THEN 0 ELSE @ - 1], n, O, U \ {k})
<1>1. /\ b.on = TRUE /\ b.attempts = n /\ n <= Attempts /\ b.uncertain = Cardinality(U) /\ b.pending = O \cup U
      /\ b.uncertain \in Nat /\ Attempts \in Nat
  BY SessionAssumption DEF Tally, BranchBudget
<1>2. ASSUME b.attempts < Attempts PROVE Tally(Reserve(b, k), n + 1, O \cup {k}, U)
  <2>1. /\ Reserve(b, k).on = b.on /\ Reserve(b, k).attempts = b.attempts + 1
        /\ Reserve(b, k).uncertain = b.uncertain /\ Reserve(b, k).pending = b.pending \cup {k}
    BY DEF Reserve, BranchBudget
  <2>2. n + 1 <= Attempts /\ (O \cup U) \cup {k} = (O \cup {k}) \cup U
    BY <1>1, <1>2
  <2> QED BY <1>1, <2>1, <2>2 DEF Tally
<1>3. ASSUME b.attempts < Attempts PROVE Tally([b EXCEPT !.attempts = @ + 1], n + 1, O, U)
  <2> DEFINE c == [b EXCEPT !.attempts = @ + 1]
  <2>1. c.on = b.on /\ c.attempts = b.attempts + 1 /\ c.uncertain = b.uncertain /\ c.pending = b.pending
    BY DEF BranchBudget
  <2>2. n + 1 <= Attempts
    BY <1>1, <1>3
  <2> HIDE DEF c
  <2>3. Tally(c, n + 1, O, U)
    BY <1>1, <2>1, <2>2 DEF Tally
  <2> QED BY <2>3 DEF c
<1>4. /\ SettleUsage(b, k).on = b.on /\ SettleUsage(b, k).attempts = b.attempts
      /\ SettleUsage(b, k).uncertain = b.uncertain /\ SettleUsage(b, k).pending = b.pending \ {k}
  BY DEF SettleUsage, BranchBudget
<1>5. ASSUME k \in O, k \notin U PROVE Tally(SettleUsage(b, k), n, O \ {k}, U)
  <2>1. (O \cup U) \ {k} = (O \ {k}) \cup U
    BY <1>5
  <2> QED BY <1>1, <1>4, <2>1 DEF Tally
<1>6. ASSUME k \in O, k \notin U PROVE Tally(SettleUncertain(b), n, O \ {k}, U \cup {k})
  <2>1. /\ SettleUncertain(b).on = b.on /\ SettleUncertain(b).attempts = b.attempts
        /\ SettleUncertain(b).uncertain = b.uncertain + 1 /\ SettleUncertain(b).pending = b.pending
    BY DEF SettleUncertain, BranchBudget
  <2>2. (O \cup U) = (O \ {k}) \cup (U \cup {k})
    BY <1>6
  <2>3. Cardinality(U \cup {k}) = Cardinality(U) + 1
    BY <1>6, FS_AddElement
  <2> QED BY <1>1, <2>1, <2>2, <2>3 DEF Tally
<1>7. ASSUME k \in U, k \notin O
      PROVE  Tally([SettleUsage(b, k) EXCEPT !.uncertain = IF @ = 0 THEN 0 ELSE @ - 1], n, O, U \ {k})
  <2> DEFINE u == b.uncertain - 1
             c == [SettleUsage(b, k) EXCEPT !.uncertain = IF @ = 0 THEN 0 ELSE @ - 1]
  <2>1. Cardinality(U \ {k}) = Cardinality(U) - 1
    BY <1>7, FS_RemoveElement
  <2>2. b.uncertain # 0
    BY <1>1, <1>7, FS_EmptySet
  <2>3. (O \cup U) \ {k} = O \cup (U \ {k})
    BY <1>7
  <2>4. c = [[b EXCEPT !.pending = @ \ {k}] EXCEPT !.uncertain = u]
    BY <1>4, <2>2 DEF SettleUsage
  <2>5. c.on = b.on /\ c.attempts = b.attempts /\ c.uncertain = u /\ c.pending = b.pending \ {k}
    BY <2>4 DEF BranchBudget
  <2> HIDE DEF c
  <2>6. Tally(c, n, O, U \ {k})
    BY <1>1, <2>1, <2>3, <2>5 DEF Tally
  <2> QED BY <2>6 DEF c
<1> QED BY <1>2, <1>3, <1>5, <1>6, <1>7

-----------------------------------------------------------------------------
(* Which operations a record charges.                                       *)

LEMMA ChargeParts ==
    ASSUME NEW s, Fits(s)
    PROVE  /\ \A i : i \in Admitted(s) <=> i \in 1..Len(s.entries) /\ s.entries[i].exchange # None
           /\ \A i : <<"turn", i>> \in Unresolved(s) <=>
                i \in Admitted(s) /\ s.entries[i].status \in {"failed", "cancelled", "interrupted"}
           /\ \A i : <<"turn", i>> \in OpenCharges(s) <=>
                i \in Admitted(s) /\ s.entries[i].status = "running"
           /\ \A j : <<"side", j>> \in Unresolved(s) <=>
                j \in 1..Len(s.sides) /\ s.sides[j].state \in {"cancelled", "uncertain"}
           /\ \A j : <<"side", j>> \in OpenCharges(s) <=>
                j \in 1..Len(s.sides) /\ s.sides[j].state = "running"
           /\ \A k \in Unresolved(s) \cup OpenCharges(s) :
                (\E i \in Admitted(s) : k = <<"turn", i>>) \/ (\E j \in 1..Len(s.sides) : k = <<"side", j>>)
<1>1. DOMAIN s.entries = 1..Len(s.entries) /\ DOMAIN s.sides = 1..Len(s.sides)
  BY FitTypes
<1>2. \A i, j : <<"turn", i>> # <<"side", j>>
  OBVIOUS
<1>3. \A i : i \in Admitted(s) <=> i \in 1..Len(s.entries) /\ s.entries[i].exchange # None
  BY <1>1 DEF Admitted
<1>4. \A k : k \in Unresolved(s) <=>
         \/ \E i \in Admitted(s) : k = <<"turn", i>> /\ s.entries[i].status \in {"failed", "cancelled", "interrupted"}
         \/ \E j \in 1..Len(s.sides) : k = <<"side", j>> /\ s.sides[j].state \in {"cancelled", "uncertain"}
  BY <1>1 DEF Unresolved
<1>5. \A k : k \in OpenCharges(s) <=>
         \/ \E i \in Admitted(s) : k = <<"turn", i>> /\ s.entries[i].status = "running"
         \/ \E j \in 1..Len(s.sides) : k = <<"side", j>> /\ s.sides[j].state = "running"
  BY <1>1 DEF OpenCharges
<1> QED BY <1>2, <1>3, <1>4, <1>5

LEMMA ChargesFinite ==
    ASSUME NEW s, Fits(s)
    PROVE  /\ IsFiniteSet(Admitted(s)) /\ Cardinality(Admitted(s)) \in Nat
           /\ IsFiniteSet(Unresolved(s)) /\ Cardinality(Unresolved(s)) \in Nat
           /\ \A k : ~(k \in Unresolved(s) /\ k \in OpenCharges(s))
<1>0. Len(s.entries) \in Nat /\ Len(s.sides) \in Nat
  BY FitTypes
<1>1. IsFiniteSet(1..Len(s.entries)) /\ IsFiniteSet(1..Len(s.sides))
  <2>1. 1 \in Int /\ Len(s.entries) \in Int /\ Len(s.sides) \in Int
    BY <1>0
  <2>2. IsFiniteSet(1..Len(s.entries))
    BY <2>1, FS_Interval
  <2>3. IsFiniteSet(1..Len(s.sides))
    BY <2>1, FS_Interval
  <2> QED BY <2>2, <2>3
<1>2. IsFiniteSet(Admitted(s))
  <2>1. Admitted(s) \subseteq 1..Len(s.entries)
    BY ChargeParts
  <2> QED BY <1>1, <2>1, FS_Subset
<1>3. IsFiniteSet(Unresolved(s))
  <2> DEFINE T == {"turn"} \X (1..Len(s.entries))
             S == {"side"} \X (1..Len(s.sides))
  <2>1. IsFiniteSet(T) /\ IsFiniteSet(S)
    BY <1>1, FS_Singleton, FS_Product
  <2>2. IsFiniteSet(T \cup S)
    BY <2>1, FS_Union
  <2>3. Unresolved(s) \subseteq T \cup S
    <3>1. ASSUME NEW k \in Unresolved(s) PROVE k \in T \cup S
      <4>1. (\E i \in Admitted(s) : k = <<"turn", i>>) \/ (\E j \in 1..Len(s.sides) : k = <<"side", j>>)
        BY ChargeParts
      <4>2. Admitted(s) \subseteq 1..Len(s.entries)
        BY ChargeParts
      <4> QED BY <4>1, <4>2
    <3> QED BY <3>1
  <2> QED BY <2>2, <2>3, FS_Subset
<1>4. \A k : ~(k \in Unresolved(s) /\ k \in OpenCharges(s))
  <2> SUFFICES ASSUME NEW k, k \in Unresolved(s), k \in OpenCharges(s) PROVE FALSE
    OBVIOUS
  <2>1. (\E i \in Admitted(s) : k = <<"turn", i>>) \/ (\E j \in 1..Len(s.sides) : k = <<"side", j>>)
    BY ChargeParts
  <2>2. ASSUME NEW i, k = <<"turn", i>> PROVE FALSE
    <3>1. s.entries[i].status = "running" /\ s.entries[i].status \in {"failed", "cancelled", "interrupted"}
      BY <2>2, ChargeParts
    <3> QED BY <3>1
  <2>3. ASSUME NEW j, k = <<"side", j>> PROVE FALSE
    <3>1. s.sides[j].state = "running" /\ s.sides[j].state \in {"cancelled", "uncertain"}
      BY <2>3, ChargeParts
    <3> QED BY <3>1
  <2> QED BY <2>1, <2>2, <2>3
<1> QED BY <1>2, <1>3, <1>4, FS_CardinalityType

(* Two records charge the same, except for one operation.                   *)
SameCharge(a, b, K) ==
    /\ \A i : <<"turn", i>> \notin K =>
         /\ i \in Admitted(a) <=> i \in Admitted(b)
         /\ i \in Admitted(a) => b.entries[i].status = a.entries[i].status
    /\ \A j : <<"side", j>> \notin K =>
         /\ j \in 1..Len(a.sides) <=> j \in 1..Len(b.sides)
         /\ j \in 1..Len(a.sides) => b.sides[j].state = a.sides[j].state

LEMMA ChargedAs ==
    ASSUME NEW a, NEW b, NEW K, Fits(a), Fits(b), SameCharge(a, b, K)
    PROVE  \A k : k \notin K => /\ k \in Unresolved(a) <=> k \in Unresolved(b)
                                /\ k \in OpenCharges(a) <=> k \in OpenCharges(b)
<1> SUFFICES ASSUME NEW k, k \notin K
             PROVE  /\ k \in Unresolved(a) <=> k \in Unresolved(b)
                    /\ k \in OpenCharges(a) <=> k \in OpenCharges(b)
  OBVIOUS
<1>1. CASE \E i : k = <<"turn", i>>
  <2>1. PICK i : k = <<"turn", i>>
    BY <1>1
  <2>2. /\ i \in Admitted(a) <=> i \in Admitted(b)
        /\ i \in Admitted(a) => b.entries[i].status = a.entries[i].status
    BY <2>1 DEF SameCharge
  <2> QED BY <2>1, <2>2, ChargeParts
<1>2. CASE \E j : k = <<"side", j>>
  <2>1. PICK j : k = <<"side", j>>
    BY <1>2
  <2>2. /\ j \in 1..Len(a.sides) <=> j \in 1..Len(b.sides)
        /\ j \in 1..Len(a.sides) => b.sides[j].state = a.sides[j].state
    BY <2>1 DEF SameCharge
  <2> QED BY <2>1, <2>2, ChargeParts
<1>3. CASE ~(\E i : k = <<"turn", i>>) /\ ~(\E j : k = <<"side", j>>)
  <2>1. k \notin Unresolved(a) \cup OpenCharges(a)
    BY <1>3, ChargeParts
  <2>2. k \notin Unresolved(b) \cup OpenCharges(b)
    BY <1>3, ChargeParts
  <2> QED BY <2>1, <2>2
<1> QED BY <1>1, <1>2, <1>3

LEMMA OneCharge ==
    ASSUME NEW a, NEW b, NEW k, Fits(a), Fits(b), SameCharge(a, b, {k})
    PROVE  /\ Unresolved(b) = IF k \in Unresolved(b) THEN Unresolved(a) \cup {k} ELSE Unresolved(a) \ {k}
           /\ OpenCharges(b) = IF k \in OpenCharges(b) THEN OpenCharges(a) \cup {k} ELSE OpenCharges(a) \ {k}
<1>1. \A l : l \notin {k} => /\ l \in Unresolved(a) <=> l \in Unresolved(b)
                             /\ l \in OpenCharges(a) <=> l \in OpenCharges(b)
  BY ChargedAs
<1>2. \A l : l # k => (l \in Unresolved(a) <=> l \in Unresolved(b))
  BY <1>1
<1>3. \A l : l # k => (l \in OpenCharges(a) <=> l \in OpenCharges(b))
  BY <1>1
<1> DEFINE Ua == Unresolved(a)
           Ub == Unresolved(b)
           Oa == OpenCharges(a)
           Ob == OpenCharges(b)
<1> HIDE DEF Ua, Ub, Oa, Ob
<1>4. Ub = IF k \in Ub THEN Ua \cup {k} ELSE Ua \ {k}
  BY <1>2 DEF Ua, Ub
<1>5. Ob = IF k \in Ob THEN Oa \cup {k} ELSE Oa \ {k}
  BY <1>3 DEF Oa, Ob
<1> QED BY <1>4, <1>5 DEF Ua, Ub, Oa, Ob

-----------------------------------------------------------------------------
(* Changes under which a record still adds up: of messages that were never  *)
(* admitted, receipts marked and forks settled; of one call; of one side    *)
(* question; of one fork more.                                              *)

Quietly(a, b) ==
    /\ Len(a.entries) <= Len(b.entries)
    /\ \A i \in 1..Len(b.entries) :
         IF i <= Len(a.entries)
         THEN /\ b.entries[i].kind = a.entries[i].kind /\ b.entries[i].steering = a.entries[i].steering
              /\ b.entries[i].exchange = a.entries[i].exchange
              /\ \/ b.entries[i].status = a.entries[i].status
                 \/ /\ a.entries[i].exchange = None
                    /\ a.entries[i].kind = "chat" => b.entries[i].status = "cancelled"
         ELSE /\ b.entries[i].status = "queued" /\ b.entries[i].exchange = None
              /\ b.entries[i].steering # None =>
                   /\ b.entries[i].steering \in 1..Len(a.entries)
                   /\ a.entries[b.entries[i].steering].exchange # None
    /\ Len(b.sides) = Len(a.sides) /\ \A j \in 1..Len(a.sides) : b.sides[j].state = a.sides[j].state
    /\ Len(b.forks) = Len(a.forks) /\ b.consumed = a.consumed /\ b.budget = a.budget

LEMMA EntryNumbers ==
    ASSUME NEW s, Fits(s), NEW i \in 1..Len(s.entries)
    PROVE  i \in Nat /\ s.entries[i].steering \in Nat /\ s.entries[i].exchange \in Nat
<1>1. s.entries[i] \in Entry /\ MaxEntries \in Nat
  BY FitParts, SessionAssumption
<1>2. s.entries[i].steering \in Nat
  BY <1>1 DEF Entry
<1> QED BY <1>2, FitTypes

LEMMA QuietBooks ==
    ASSUME NEW a, NEW b, Fits(a), Fits(b), AddsUp(a), Quietly(a, b), OneAtATime(b)
    PROVE  AddsUp(b)
<1>0. /\ DOMAIN a.entries = 1..Len(a.entries) /\ DOMAIN b.entries = 1..Len(b.entries)
      /\ Len(a.entries) \in Nat /\ Len(b.entries) \in Nat /\ Len(a.entries) <= Len(b.entries)
      /\ Len(a.sides) \in Nat /\ Len(b.sides) \in Nat
  BY FitTypes DEF Quietly
<1>1. ASSUME NEW i \in 1..Len(b.entries)
      PROVE  IF i <= Len(a.entries)
             THEN /\ i \in 1..Len(a.entries)
                  /\ b.entries[i].kind = a.entries[i].kind /\ b.entries[i].steering = a.entries[i].steering
                  /\ b.entries[i].exchange = a.entries[i].exchange
                  /\ \/ b.entries[i].status = a.entries[i].status
                     \/ /\ a.entries[i].exchange = None
                        /\ a.entries[i].kind = "chat" => b.entries[i].status = "cancelled"
             ELSE /\ b.entries[i].status = "queued" /\ b.entries[i].exchange = None
                  /\ b.entries[i].steering # None =>
                       /\ b.entries[i].steering \in 1..Len(a.entries)
                       /\ a.entries[b.entries[i].steering].exchange # None
  BY <1>0 DEF Quietly
<1>2. ChatsCharged(b)
  <2> SUFFICES ASSUME NEW i \in 1..Len(b.entries)
               PROVE  /\ b.entries[i].exchange # None =>
                           b.entries[i].kind = "chat" /\ b.entries[i].status # "queued"
                      /\ b.entries[i].exchange = None /\ b.entries[i].kind = "chat" =>
                           b.entries[i].status \in {"queued", "cancelled"}
    BY <1>0 DEF ChatsCharged
  <2>1. CASE i <= Len(a.entries)
    <3>1. /\ a.entries[i].exchange # None =>
               a.entries[i].kind = "chat" /\ a.entries[i].status # "queued"
          /\ a.entries[i].exchange = None /\ a.entries[i].kind = "chat" =>
               a.entries[i].status \in {"queued", "cancelled"}
      BY <1>0, <1>1, <2>1 DEF AddsUp, ChatsCharged
    <3> QED BY <1>1, <2>1, <3>1
  <2>2. CASE ~(i <= Len(a.entries))
    BY <1>1, <2>2
  <2> QED BY <2>1, <2>2
<1>3. SteersCalls(b)
  <2> SUFFICES ASSUME NEW i \in 1..Len(b.entries), b.entries[i].steering # None
               PROVE  /\ b.entries[i].steering < i
                      /\ b.entries[b.entries[i].steering].exchange # None
    BY <1>0 DEF SteersCalls
  <2> DEFINE t == b.entries[i].steering
  <2>1. t \in 1..Len(a.entries) /\ t < i /\ a.entries[t].exchange # None
    <3>1. CASE i <= Len(a.entries)
      <4>1. t = a.entries[i].steering /\ i \in 1..Len(a.entries)
        BY <1>1, <3>1
      <4>2. t < i /\ a.entries[t].exchange # None
        BY <1>0, <4>1 DEF AddsUp, SteersCalls
      <4>3. t \in Nat /\ t # 0
        BY EntryNumbers DEF None
      <4> HIDE DEF t
      <4> QED BY <1>0, <4>1, <4>2, <4>3
    <3>2. CASE ~(i <= Len(a.entries))
      <4>1. t \in 1..Len(a.entries) /\ a.entries[t].exchange # None
        BY <1>1, <3>2
      <4> HIDE DEF t
      <4> QED BY <1>0, <3>2, <4>1
    <3> QED BY <3>1, <3>2
  <2> HIDE DEF t
  <2>2. b.entries[t].exchange = a.entries[t].exchange
    <3>1. t \in 1..Len(b.entries) /\ t <= Len(a.entries)
      BY <1>0, <2>1
    <3> QED BY <1>1, <3>1
  <2> QED BY <2>1, <2>2 DEF t
<1>4. SameCharge(a, b, {})
  <2>1. ASSUME NEW i
        PROVE  /\ i \in Admitted(a) <=> i \in Admitted(b)
               /\ i \in Admitted(a) => b.entries[i].status = a.entries[i].status
    <3>1. ASSUME i \in Admitted(a)
          PROVE  i \in Admitted(b) /\ b.entries[i].status = a.entries[i].status
      <4>1. i \in 1..Len(a.entries) /\ a.entries[i].exchange # None
        BY <3>1, ChargeParts
      <4>2. i \in 1..Len(b.entries) /\ i <= Len(a.entries)
        BY <1>0, <4>1
      <4> QED BY <1>1, <4>1, <4>2, ChargeParts
    <3>2. ASSUME i \in Admitted(b) PROVE i \in Admitted(a)
      <4>1. i \in 1..Len(b.entries) /\ b.entries[i].exchange # None
        BY <3>2, ChargeParts
      <4> QED BY <1>1, <4>1, ChargeParts
    <3> QED BY <3>1, <3>2
  <2>2. \A j : /\ j \in 1..Len(a.sides) <=> j \in 1..Len(b.sides)
               /\ j \in 1..Len(a.sides) => b.sides[j].state = a.sides[j].state
    BY DEF Quietly
  <2> QED BY <2>1, <2>2 DEF SameCharge
<1>5. Unresolved(b) = Unresolved(a) /\ OpenCharges(b) = OpenCharges(a)
  <2>1. \A k : k \notin {} => /\ k \in Unresolved(a) <=> k \in Unresolved(b)
                              /\ k \in OpenCharges(a) <=> k \in OpenCharges(b)
    BY <1>4, ChargedAs
  <2>2. \A k : k \in Unresolved(a) <=> k \in Unresolved(b)
    BY <2>1
  <2>3. \A k : k \in OpenCharges(a) <=> k \in OpenCharges(b)
    BY <2>1
  <2>4. Unresolved(b) = Unresolved(a)
    BY <2>2
  <2>5. OpenCharges(b) = OpenCharges(a)
    BY <2>3
  <2> QED BY <2>4, <2>5
<1>6. Admitted(b) = Admitted(a)
  BY <1>4 DEF SameCharge
<1>7. Counted(b)
  <2>1. Len(b.sides) = Len(a.sides) /\ Len(b.forks) = Len(a.forks) /\ b.consumed = a.consumed /\ b.budget = a.budget
    BY DEF Quietly
  <2> QED BY <1>5, <1>6, <2>1 DEF AddsUp, Counted, Tells
<1> QED BY <1>2, <1>3, <1>7 DEF AddsUp

(* A session without a branch budget has no side question and no fork; the  *)
(* budget it starts with is used where nothing is unresolved.               *)
LEMMA CurrentTells ==
    ASSUME NEW s, Fits(s), AddsUp(s), s.budget.on \/ Reservable(CurrentBudget(s))
    PROVE  Tells(CurrentBudget(s), s)
<1>1. CASE s.budget.on
  BY <1>1 DEF CurrentBudget, AddsUp, Counted
<1>2. CASE ~s.budget.on
  <2> DEFINE lost == {i \in 1..Len(s.entries) : s.entries[i].exchange # None
                        /\ s.entries[i].status \in {"failed", "cancelled", "interrupted"}}
             running == {i \in 1..Len(s.entries) : s.entries[i].exchange # None
                           /\ s.entries[i].status \in {"running"}}
             B == CurrentBudget(s)
  <2>1. /\ Len(s.sides) = 0 /\ Len(s.forks) = 0 /\ s.consumed \in Nat /\ Len(s.entries) \in Nat
    BY <1>2, FitTypes DEF AddsUp, Counted
  <2>2. B = [on |-> TRUE, attempts |-> s.consumed, uncertain |-> Cardinality(lost),
             pending |-> {<<"turn", i>> : i \in running}]
    <3> DEFINE admitted == {i \in 1..Len(s.entries) : s.entries[i].exchange # None}
    <3>1. {i \in admitted : s.entries[i].status \in {"failed", "cancelled", "interrupted"}} = lost
      OBVIOUS
    <3>2. {i \in admitted : s.entries[i].status \in {"running"}} = running
      OBVIOUS
    <3> HIDE DEF lost, running
    <3> QED BY <1>2, <3>1, <3>2 DEF CurrentBudget
  <2>3. /\ B.on /\ B.attempts = s.consumed /\ B.uncertain = Cardinality(lost)
        /\ B.pending = {<<"turn", i>> : i \in running}
    <3> HIDE DEF lost, running
    <3> QED BY <2>2
  <2>4. B.uncertain = 0 /\ B.attempts < Attempts
    BY <1>2 DEF Reservable
  <2>5. lost = {}
    <3>1. IsFiniteSet(1..Len(s.entries))
      BY <2>1, FS_Interval
    <3>2. IsFiniteSet(lost)
      <4>1. lost \subseteq 1..Len(s.entries)
        OBVIOUS
      <4> HIDE DEF lost
      <4> QED BY <3>1, <4>1, FS_Subset
    <3> HIDE DEF lost
    <3> QED BY <2>3, <2>4, <3>2, FS_EmptySet
  <2>6. Unresolved(s) = {}
    <3> SUFFICES ASSUME NEW k \in Unresolved(s) PROVE FALSE
      OBVIOUS
    <3>1. (\E i \in Admitted(s) : k = <<"turn", i>>) \/ (\E j \in 1..Len(s.sides) : k = <<"side", j>>)
      BY ChargeParts
    <3>2. PICK i \in Admitted(s) : k = <<"turn", i>>
      BY <2>1, <3>1
    <3>3. /\ i \in 1..Len(s.entries) /\ s.entries[i].exchange # None
          /\ s.entries[i].status \in {"failed", "cancelled", "interrupted"}
      BY <3>2, ChargeParts
    <3> QED BY <2>5, <3>3
  <2>7. OpenCharges(s) = {<<"turn", i>> : i \in running}
    <3>1. ASSUME NEW k \in OpenCharges(s) PROVE k \in {<<"turn", i>> : i \in running}
      <4>1. (\E i \in Admitted(s) : k = <<"turn", i>>) \/ (\E j \in 1..Len(s.sides) : k = <<"side", j>>)
        BY ChargeParts
      <4>2. PICK i \in Admitted(s) : k = <<"turn", i>>
        BY <2>1, <4>1
      <4>3. i \in running
        BY <4>2, ChargeParts
      <4> QED BY <4>2, <4>3
    <3>2. ASSUME NEW k \in {<<"turn", i>> : i \in running} PROVE k \in OpenCharges(s)
      <4>1. PICK i \in running : k = <<"turn", i>>
        OBVIOUS
      <4>2. i \in Admitted(s) /\ s.entries[i].status = "running"
        BY ChargeParts
      <4> QED BY <4>1, <4>2, ChargeParts
    <3> QED BY <3>1, <3>2
  <2> HIDE DEF lost, running, B
  <2>8. Tally(B, s.consumed + Len(s.forks), OpenCharges(s), Unresolved(s))
    <3>1. s.consumed + Len(s.forks) = s.consumed /\ s.consumed <= Attempts
      BY <2>1, <2>3, <2>4, SessionAssumption
    <3>2. Cardinality(Unresolved(s)) = 0 /\ B.pending = OpenCharges(s) \cup Unresolved(s)
      BY <2>3, <2>6, <2>7, FS_EmptySet
    <3> QED BY <2>3, <2>4, <3>1, <3>2 DEF Tally
  <2> QED BY <2>8 DEF Tells, B
<1> QED BY <1>1, <1>2

(* One call: chat message i is admitted, or ends.                           *)
TurnTo(a, b, i) ==
    /\ i \in 1..Len(a.entries) /\ Len(b.entries) = Len(a.entries)
    /\ \A l \in 1..Len(a.entries) : l # i => b.entries[l] = a.entries[l]
    /\ b.entries[i].kind = "chat" /\ b.entries[i].steering = a.entries[i].steering
    /\ b.entries[i].exchange # None /\ b.entries[i].status # "queued"
    /\ b.sides = a.sides /\ b.forks = a.forks

LEMMA TurnCharges ==
    ASSUME NEW a, NEW b, NEW i, Fits(a), Fits(b), AddsUp(a), TurnTo(a, b, i)
    PROVE  /\ ChatsCharged(b) /\ SteersCalls(b) /\ SameCharge(a, b, {<<"turn", i>>})
           /\ Admitted(b) = Admitted(a) \cup {i}
<1>0. /\ DOMAIN a.entries = 1..Len(a.entries) /\ DOMAIN b.entries = 1..Len(a.entries)
      /\ Len(a.entries) \in Nat /\ i \in 1..Len(a.entries)
      /\ \A l \in 1..Len(a.entries) : l # i => b.entries[l] = a.entries[l]
      /\ b.entries[i].kind = "chat" /\ b.entries[i].steering = a.entries[i].steering
      /\ b.entries[i].exchange # None /\ b.entries[i].status # "queued"
      /\ b.sides = a.sides /\ Len(b.entries) = Len(a.entries)
  BY FitTypes DEF TurnTo
<1>1. ChatsCharged(b)
  BY <1>0 DEF AddsUp, ChatsCharged
<1>2. SteersCalls(b)
  <2> SUFFICES ASSUME NEW l \in 1..Len(a.entries), b.entries[l].steering # None
               PROVE  /\ b.entries[l].steering < l
                      /\ b.entries[b.entries[l].steering].exchange # None
    BY <1>0 DEF SteersCalls
  <2> DEFINE t == a.entries[l].steering
  <2>1. b.entries[l].steering = t /\ t # None
    BY <1>0
  <2>2. t < l /\ a.entries[t].exchange # None /\ t \in Nat /\ t # 0
    BY <1>0, <2>1, EntryNumbers DEF AddsUp, SteersCalls, None
  <2> HIDE DEF t
  <2>3. t \in 1..Len(a.entries)
    BY <1>0, <2>2
  <2>4. b.entries[t].exchange # None
    BY <1>0, <2>2, <2>3
  <2> QED BY <2>1, <2>2, <2>4
<1>3. \A l : l # i => /\ l \in Admitted(a) <=> l \in Admitted(b)
                      /\ l \in Admitted(a) => b.entries[l].status = a.entries[l].status
  BY <1>0, ChargeParts
<1>4. SameCharge(a, b, {<<"turn", i>>})
  <2>1. ASSUME NEW l, <<"turn", l>> \notin {<<"turn", i>>} PROVE l # i
    BY <2>1
  <2> QED BY <1>0, <1>3, <2>1 DEF SameCharge
<1>5. Admitted(b) = Admitted(a) \cup {i}
  <2>1. i \in Admitted(b)
    BY <1>0, ChargeParts
  <2> QED BY <1>3, <2>1
<1> QED BY <1>1, <1>2, <1>4, <1>5

LEMMA AdmitBooks ==
    ASSUME NEW a, NEW b, NEW i, Fits(a), Fits(b), AddsUp(a), OneAtATime(b), TurnTo(a, b, i),
           a.entries[i].exchange = None, b.entries[i].status = "running", b.consumed = a.consumed + 1,
           IF a.budget.on THEN Reservable(a.budget) /\ b.budget = Reserve(a.budget, <<"turn", i>>)
           ELSE b.budget = a.budget
    PROVE  AddsUp(b)
<1> DEFINE k == <<"turn", i>>
<1>1. /\ ChatsCharged(b) /\ SteersCalls(b) /\ SameCharge(a, b, {k})
      /\ Admitted(b) = Admitted(a) \cup {i}
  BY TurnCharges
<1>2. i \notin Admitted(a) /\ k \notin Unresolved(b) /\ k \in OpenCharges(b) /\ k \notin Unresolved(a)
  <2>1. i \in Admitted(b)
    BY <1>1
  <2> QED BY <2>1, ChargeParts
<1>3. Unresolved(b) = Unresolved(a) /\ OpenCharges(b) = OpenCharges(a) \cup {k}
  <2> HIDE DEF k
  <2>1. Unresolved(b) = Unresolved(a) \ {k} /\ OpenCharges(b) = OpenCharges(a) \cup {k}
    BY <1>1, <1>2, OneCharge
  <2> QED BY <1>2, <2>1
<1>4. Cardinality(Admitted(b)) = Cardinality(Admitted(a)) + 1 /\ Cardinality(Admitted(a)) \in Nat
  BY <1>1, <1>2, ChargesFinite, FS_AddElement
<1>5. /\ a.consumed \in Nat /\ Len(a.sides) \in Nat /\ Len(a.forks) \in Nat /\ a.budget \in BranchBudget
      /\ b.sides = a.sides /\ b.forks = a.forks
      /\ a.consumed = Cardinality(Admitted(a)) + Len(a.sides)
      /\ Len(a.sides) > 0 \/ Len(a.forks) > 0 => a.budget.on
      /\ a.budget.on => Tells(a.budget, a)
  BY FitTypes, FitParts DEF TurnTo, AddsUp, Counted
<1> HIDE DEF k
<1>6. a.budget.on => Tells(b.budget, b)
  <2> SUFFICES ASSUME a.budget.on PROVE Tells(b.budget, b)
    OBVIOUS
  <2> DEFINE n == a.consumed + Len(a.forks)
  <2>1. n \in Nat /\ b.consumed + Len(b.forks) = n + 1 /\ a.budget.attempts < Attempts
    BY <1>5 DEF Reservable
  <2>2. Tally(a.budget, n, OpenCharges(a), Unresolved(a))
    BY <1>5 DEF Tells
  <2> HIDE DEF n
  <2>3. Tally(Reserve(a.budget, k), n + 1, OpenCharges(a) \cup {k}, Unresolved(a))
    BY <1>5, <2>1, <2>2, ChargesFinite, TallyMoves
  <2> QED BY <1>3, <2>1, <2>3 DEF Tells, k
<1>7. Counted(b)
  <2>1. b.consumed = Cardinality(Admitted(b)) + Len(b.sides)
    BY <1>4, <1>5
  <2>2. a.budget.on => b.budget.on
    BY <1>6 DEF Tells, Tally
  <2>3. ~a.budget.on => ~b.budget.on
    OBVIOUS
  <2> QED BY <1>5, <1>6, <2>1, <2>2, <2>3 DEF Counted
<1> QED BY <1>1, <1>7 DEF AddsUp

LEMMA EndBooks ==
    ASSUME NEW a, NEW b, NEW i, Fits(a), Fits(b), AddsUp(a), OneAtATime(b), TurnTo(a, b, i),
           a.entries[i].exchange # None, a.entries[i].status = "running",
           b.entries[i].status \in Terminal, b.consumed = a.consumed,
           b.budget = IF ~a.budget.on THEN a.budget
                      ELSE IF b.entries[i].status = "completed" THEN SettleUsage(a.budget, <<"turn", i>>)
                      ELSE SettleUncertain(a.budget)
    PROVE  AddsUp(b)
<1> DEFINE k == <<"turn", i>>
           done == b.entries[i].status = "completed"
<1>1. /\ ChatsCharged(b) /\ SteersCalls(b) /\ SameCharge(a, b, {k})
      /\ Admitted(b) = Admitted(a) \cup {i}
  BY TurnCharges
<1>2. /\ i \in Admitted(a) /\ k \in OpenCharges(a) /\ k \notin Unresolved(a)
      /\ k \notin OpenCharges(b) /\ (k \in Unresolved(b) <=> ~done)
  <2>1. i \in Admitted(b) /\ i \in 1..Len(a.entries)
    BY <1>1 DEF TurnTo
  <2>2. i \in Admitted(a)
    BY <2>1, ChargeParts
  <2> QED BY <2>1, <2>2, ChargeParts DEF Terminal
<1> HIDE DEF k, done
<1>3. /\ OpenCharges(b) = OpenCharges(a) \ {k}
      /\ Unresolved(b) = IF done THEN Unresolved(a) ELSE Unresolved(a) \cup {k}
  <2>1. /\ Unresolved(b) = IF ~done THEN Unresolved(a) \cup {k} ELSE Unresolved(a) \ {k}
        /\ OpenCharges(b) = OpenCharges(a) \ {k}
    BY <1>1, <1>2, OneCharge
  <2> QED BY <1>2, <2>1
<1>4. Admitted(b) = Admitted(a)
  BY <1>1, <1>2
<1>5. /\ a.consumed \in Nat /\ Len(a.sides) \in Nat /\ Len(a.forks) \in Nat /\ a.budget \in BranchBudget
      /\ b.sides = a.sides /\ b.forks = a.forks
      /\ a.consumed = Cardinality(Admitted(a)) + Len(a.sides)
      /\ Len(a.sides) > 0 \/ Len(a.forks) > 0 => a.budget.on
      /\ a.budget.on => Tells(a.budget, a)
  BY FitTypes, FitParts DEF TurnTo, AddsUp, Counted
<1>6. a.budget.on => Tells(b.budget, b)
  <2> SUFFICES ASSUME a.budget.on PROVE Tells(b.budget, b)
    OBVIOUS
  <2> DEFINE n == a.consumed + Len(a.forks)
  <2>1. n \in Nat /\ b.consumed + Len(b.forks) = n
    BY <1>5
  <2>2. Tally(a.budget, n, OpenCharges(a), Unresolved(a))
    BY <1>5 DEF Tells
  <2> HIDE DEF n
  <2>3. CASE done
    <3>1. Tally(SettleUsage(a.budget, k), n, OpenCharges(a) \ {k}, Unresolved(a))
      BY <1>2, <1>5, <2>1, <2>2, ChargesFinite, TallyMoves
    <3>2. b.budget = SettleUsage(a.budget, k)
      BY <2>3 DEF k, done
    <3> QED BY <1>3, <2>1, <2>3, <3>1, <3>2 DEF Tells
  <2>4. CASE ~done
    <3>1. Tally(SettleUncertain(a.budget), n, OpenCharges(a) \ {k}, Unresolved(a) \cup {k})
      BY <1>2, <1>5, <2>1, <2>2, ChargesFinite, TallyMoves
    <3>2. b.budget = SettleUncertain(a.budget)
      BY <2>4 DEF done
    <3> QED BY <1>3, <2>1, <2>4, <3>1, <3>2 DEF Tells
  <2> QED BY <2>3, <2>4
<1>7. Counted(b)
  <2>1. b.consumed = Cardinality(Admitted(b)) + Len(b.sides)
    BY <1>4, <1>5
  <2>2. a.budget.on => b.budget.on
    BY <1>6 DEF Tells, Tally
  <2>3. ~a.budget.on => ~b.budget.on
    OBVIOUS
  <2> QED BY <1>5, <1>6, <2>1, <2>2, <2>3 DEF Counted
<1> QED BY <1>1, <1>7 DEF AddsUp

(* One side question: j is asked, or goes on.                               *)
SideTo(a, b, j) ==
    /\ b.entries = a.entries /\ Len(b.forks) = Len(a.forks)
    /\ \/ Len(b.sides) = Len(a.sides) /\ j \in 1..Len(a.sides)
       \/ Len(b.sides) = Len(a.sides) + 1 /\ j = Len(b.sides)
    /\ \A l \in 1..Len(a.sides) : l # j => b.sides[l].state = a.sides[l].state

LEMMA SideCharges ==
    ASSUME NEW a, NEW b, NEW j, Fits(a), Fits(b), AddsUp(a), SideTo(a, b, j)
    PROVE  /\ ChatsCharged(b) /\ SteersCalls(b) /\ SameCharge(a, b, {<<"side", j>>})
           /\ Admitted(b) = Admitted(a) /\ j \in 1..Len(b.sides)
<1>0. /\ b.entries = a.entries /\ Len(a.sides) \in Nat /\ Len(b.sides) \in Nat
      /\ \/ Len(b.sides) = Len(a.sides) /\ j \in 1..Len(a.sides)
         \/ Len(b.sides) = Len(a.sides) + 1 /\ j = Len(b.sides)
      /\ \A l \in 1..Len(a.sides) : l # j => b.sides[l].state = a.sides[l].state
  BY FitTypes DEF SideTo
<1>1. ChatsCharged(b) /\ SteersCalls(b) /\ Admitted(b) = Admitted(a)
  BY <1>0 DEF AddsUp, ChatsCharged, SteersCalls, Admitted
<1>2. ASSUME NEW l, <<"side", l>> \notin {<<"side", j>>}
      PROVE  /\ l \in 1..Len(a.sides) <=> l \in 1..Len(b.sides)
             /\ l \in 1..Len(a.sides) => b.sides[l].state = a.sides[l].state
  <2>1. l # j
    BY <1>2
  <2> QED BY <1>0, <2>1
<1>3. SameCharge(a, b, {<<"side", j>>})
  BY <1>0, <1>1, <1>2 DEF SameCharge
<1> QED BY <1>0, <1>1, <1>3

LEMMA AskBooks ==
    ASSUME NEW a, NEW b, NEW j, NEW B \in BranchBudget, Fits(a), Fits(b), AddsUp(a), OneAtATime(b),
           SideTo(a, b, j), Len(b.sides) = Len(a.sides) + 1, b.sides[j].state = "running",
           b.consumed = a.consumed + 1, Tells(B, a), B.attempts < Attempts,
           b.budget = Reserve(B, <<"side", j>>)
    PROVE  AddsUp(b)
<1> DEFINE k == <<"side", j>>
           n == a.consumed + Len(a.forks)
<1>1. /\ ChatsCharged(b) /\ SteersCalls(b) /\ SameCharge(a, b, {k})
      /\ Admitted(b) = Admitted(a) /\ j \in 1..Len(b.sides)
  BY SideCharges
<1>2. /\ a.consumed \in Nat /\ Len(a.sides) \in Nat /\ Len(a.forks) \in Nat /\ Len(b.forks) = Len(a.forks)
      /\ a.consumed = Cardinality(Admitted(a)) + Len(a.sides) /\ Cardinality(Admitted(a)) \in Nat
  BY FitTypes, ChargesFinite DEF SideTo, AddsUp, Counted
<1>3. k \in OpenCharges(b) /\ k \notin Unresolved(b) /\ k \notin Unresolved(a)
  <2>1. j \notin 1..Len(a.sides)
    BY <1>2, SMTT(30) DEF SideTo
  <2> QED BY <1>1, <2>1, ChargeParts
<1> HIDE DEF k
<1>4. Unresolved(b) = Unresolved(a) /\ OpenCharges(b) = OpenCharges(a) \cup {k}
  <2>1. Unresolved(b) = Unresolved(a) \ {k} /\ OpenCharges(b) = OpenCharges(a) \cup {k}
    BY <1>1, <1>3, OneCharge
  <2> QED BY <1>3, <2>1
<1>5. n \in Nat /\ b.consumed + Len(b.forks) = n + 1
  <2>1. b.consumed + Len(b.forks) = (a.consumed + 1) + Len(a.forks)
    BY <1>2
  <2>2. \A x, y \in Nat : x + y \in Nat /\ (x + 1) + y = (x + y) + 1
    OBVIOUS
  <2> QED BY <1>2, <2>1, <2>2
<1>6. Tally(B, n, OpenCharges(a), Unresolved(a))
  BY DEF Tells
<1> HIDE DEF n
<1>7. Tally(Reserve(B, k), n + 1, OpenCharges(a) \cup {k}, Unresolved(a))
  BY <1>5, <1>6, ChargesFinite, TallyMoves
<1>8. Tells(b.budget, b) /\ b.budget.on
  BY <1>4, <1>5, <1>7 DEF Tells, Tally, k
<1>9. b.consumed = Cardinality(Admitted(b)) + Len(b.sides)
  BY <1>1, <1>2
<1> QED BY <1>1, <1>8, <1>9 DEF AddsUp, Counted

LEMMA SettleBooks ==
    ASSUME NEW a, NEW b, NEW j, Fits(a), Fits(b), AddsUp(a), OneAtATime(b),
           SideTo(a, b, j), Len(b.sides) = Len(a.sides), b.consumed = a.consumed,
           \/ /\ a.sides[j].state = "running" /\ b.sides[j].state = "completed"
              /\ b.budget = SettleUsage(a.budget, <<"side", j>>)
           \/ /\ a.sides[j].state = "running" /\ b.sides[j].state \in {"cancelled", "uncertain"}
              /\ b.budget = SettleUncertain(a.budget)
           \/ /\ a.sides[j].state \in {"cancelled", "uncertain"} /\ b.sides[j].state = "reconciled"
              /\ b.budget = [SettleUsage(a.budget, <<"side", j>>) EXCEPT
                               !.uncertain = IF @ = 0 THEN 0 ELSE @ - 1]
    PROVE  AddsUp(b)
<1> DEFINE k == <<"side", j>>
           n == a.consumed + Len(a.forks)
           B == a.budget
<1>1. /\ ChatsCharged(b) /\ SteersCalls(b) /\ SameCharge(a, b, {k})
      /\ Admitted(b) = Admitted(a) /\ j \in 1..Len(a.sides) /\ j \in 1..Len(b.sides)
  BY SideCharges
<1>2. /\ a.consumed \in Nat /\ Len(a.sides) \in Nat /\ Len(a.forks) \in Nat /\ Len(b.forks) = Len(a.forks)
      /\ a.consumed = Cardinality(Admitted(a)) + Len(a.sides) /\ Cardinality(Admitted(a)) \in Nat
      /\ B \in BranchBudget
  BY FitTypes, FitParts, ChargesFinite DEF SideTo, AddsUp, Counted
<1>3. B.on /\ Tells(B, a)
  <2>1. Len(a.sides) > 0
    BY <1>1, <1>2
  <2> QED BY <2>1 DEF AddsUp, Counted
<1>5. n \in Nat /\ b.consumed + Len(b.forks) = n
  BY <1>2
<1>6. Tally(B, n, OpenCharges(a), Unresolved(a))
  BY <1>3 DEF Tells
<1> HIDE DEF n
<1>7. Tally(b.budget, n, OpenCharges(b), Unresolved(b))
  <2>1. CASE /\ a.sides[j].state = "running" /\ b.sides[j].state = "completed"
             /\ b.budget = SettleUsage(B, k)
    <3>1. /\ k \in OpenCharges(a) /\ k \notin Unresolved(a) /\ k \notin OpenCharges(b) /\ k \notin Unresolved(b)
      BY <1>1, <2>1, ChargeParts
    <3> HIDE DEF k, B
    <3>2. Unresolved(b) = Unresolved(a) \ {k} /\ OpenCharges(b) = OpenCharges(a) \ {k}
      BY <1>1, <3>1, OneCharge
    <3>3. Unresolved(b) = Unresolved(a)
      BY <3>1, <3>2
    <3>4. Tally(SettleUsage(B, k), n, OpenCharges(a) \ {k}, Unresolved(a))
      BY <1>2, <1>5, <1>6, <3>1, ChargesFinite, TallyMoves
    <3> QED BY <2>1, <3>2, <3>3, <3>4
  <2>2. CASE /\ a.sides[j].state = "running" /\ b.sides[j].state \in {"cancelled", "uncertain"}
             /\ b.budget = SettleUncertain(B)
    <3>1. /\ k \in OpenCharges(a) /\ k \notin Unresolved(a) /\ k \notin OpenCharges(b) /\ k \in Unresolved(b)
      BY <1>1, <2>2, ChargeParts
    <3> HIDE DEF k, B
    <3>2. Unresolved(b) = Unresolved(a) \cup {k} /\ OpenCharges(b) = OpenCharges(a) \ {k}
      BY <1>1, <3>1, OneCharge
    <3>4. Tally(SettleUncertain(B), n, OpenCharges(a) \ {k}, Unresolved(a) \cup {k})
      BY <1>2, <1>5, <1>6, <3>1, ChargesFinite, TallyMoves
    <3> QED BY <2>2, <3>2, <3>4
  <2>3. CASE /\ a.sides[j].state \in {"cancelled", "uncertain"} /\ b.sides[j].state = "reconciled"
             /\ b.budget = [SettleUsage(B, k) EXCEPT !.uncertain = IF @ = 0 THEN 0 ELSE @ - 1]
    <3>1. /\ k \notin OpenCharges(a) /\ k \in Unresolved(a) /\ k \notin OpenCharges(b) /\ k \notin Unresolved(b)
      BY <1>1, <2>3, ChargeParts
    <3> HIDE DEF k, B
    <3>2. Unresolved(b) = Unresolved(a) \ {k} /\ OpenCharges(b) = OpenCharges(a) \ {k}
      BY <1>1, <3>1, OneCharge
    <3>3. OpenCharges(b) = OpenCharges(a)
      BY <3>1, <3>2
    <3>4. Tally([SettleUsage(B, k) EXCEPT !.uncertain = IF @ = 0 THEN 0 ELSE @ - 1],
                n, OpenCharges(a), Unresolved(a) \ {k})
      BY <1>2, <1>5, <1>6, <3>1, ChargesFinite, TallyMoves
    <3> QED BY <2>3, <3>2, <3>3, <3>4
  <2> QED BY <2>1, <2>2, <2>3
<1>8. Tells(b.budget, b) /\ b.budget.on
  BY <1>5, <1>7 DEF Tells, Tally
<1>9. b.consumed = Cardinality(Admitted(b)) + Len(b.sides)
  BY <1>1, <1>2
<1> QED BY <1>1, <1>8, <1>9 DEF AddsUp, Counted

(* One fork more, paid for as one attempt.                                  *)
LEMMA ForkBooks ==
    ASSUME NEW a, NEW b, NEW B \in BranchBudget, Fits(a), Fits(b), AddsUp(a),
           b.entries = a.entries, b.sides = a.sides, b.consumed = a.consumed,
           Len(b.forks) = Len(a.forks) + 1, Tells(B, a), B.attempts < Attempts,
           b.budget = [B EXCEPT !.attempts = @ + 1]
    PROVE  AddsUp(b)
<1> DEFINE n == a.consumed + Len(a.forks)
           c == [B EXCEPT !.attempts = @ + 1]
<1>1. /\ a.consumed \in Nat /\ Len(a.sides) \in Nat /\ Len(a.forks) \in Nat
      /\ a.consumed = Cardinality(Admitted(a)) + Len(a.sides)
  BY FitTypes DEF AddsUp, Counted
<1>2. ChatsCharged(b) /\ SteersCalls(b) /\ OneAtATime(b)
  BY DEF AddsUp, ChatsCharged, SteersCalls, OneAtATime
<1>3. Unresolved(b) = Unresolved(a) /\ OpenCharges(b) = OpenCharges(a) /\ Admitted(b) = Admitted(a)
  BY DEF Unresolved, OpenCharges, Admitted
<1>4. n \in Nat /\ b.consumed + Len(b.forks) = n + 1
  BY <1>1
<1>5. Tally(B, n, OpenCharges(a), Unresolved(a))
  BY DEF Tells
<1> HIDE DEF n
<1>6. Tally(c, n + 1, OpenCharges(a), Unresolved(a))
  BY <1>4, <1>5, ChargesFinite, TallyMoves
<1>7. Tells(b.budget, b) /\ b.budget.on
  <2> HIDE DEF c
  <2>1. b.budget = c
    BY DEF c
  <2> QED BY <1>3, <1>4, <1>6, <2>1 DEF Tells, Tally
<1> QED BY <1>1, <1>2, <1>3, <1>7 DEF AddsUp, Counted

-----------------------------------------------------------------------------
(* Steps: a handler whose change adds up keeps the books.                   *)

LEMMA OneStill ==
    ASSUME NEW a, NEW b, Fits(a), Fits(b), OneAtATime(a),
           \A i \in 1..Len(b.entries) : b.entries[i].status = "running" =>
             i \in 1..Len(a.entries) /\ a.entries[i].status = "running",
           \A j \in 1..Len(b.sides) : b.sides[j].state = "running" =>
             j \in 1..Len(a.sides) /\ a.sides[j].state = "running"
    PROVE  OneAtATime(b)
<1>1. /\ DOMAIN a.entries = 1..Len(a.entries) /\ DOMAIN b.entries = 1..Len(b.entries)
      /\ DOMAIN a.sides = 1..Len(a.sides) /\ DOMAIN b.sides = 1..Len(b.sides)
  BY FitTypes
<1>2. ASSUME NEW i \in DOMAIN b.entries, NEW l \in DOMAIN b.entries,
             b.entries[i].status = "running", b.entries[l].status = "running"
      PROVE  i = l
  <2>1. /\ i \in DOMAIN a.entries /\ a.entries[i].status = "running"
        /\ l \in DOMAIN a.entries /\ a.entries[l].status = "running"
    BY <1>1, <1>2
  <2> QED BY <2>1 DEF OneAtATime
<1>3. ASSUME NEW j \in DOMAIN b.sides, NEW l \in DOMAIN b.sides,
             b.sides[j].state = "running", b.sides[l].state = "running"
      PROVE  j = l
  <2>1. /\ j \in DOMAIN a.sides /\ a.sides[j].state = "running"
        /\ l \in DOMAIN a.sides /\ a.sides[l].state = "running"
    BY <1>1, <1>3
  <2> QED BY <2>1 DEF OneAtATime
<1> QED BY <1>2, <1>3 DEF OneAtATime

Recorded(b) == ~broken /\ mem = disk /\ disk' = Log(disk, b) /\ Fits(disk')

LEMMA BooksStep ==
    ASSUME SessionInv, SessionInv', BooksInv, NEW b, Commits(b),
           Recorded(b) => AddsUp(disk'),
           Recorded(b) /\ alive' /\ ~recovering' /\ ~broken' => TasksAlone(disk)'
    PROVE  BooksInv'
<1>1. Fits(disk') /\ ExchangesApart(disk') /\ broken \in BOOLEAN
  BY InvParts DEF SessionInv, SessionTypeOK, SoundRecord, Fits
<1>2. ~broken => mem = disk
  BY InvParts
<1>3. \/ disk' = disk /\ mem' = mem /\ broken'
      \/ Recorded(b) /\ (mem' = disk' \/ mem' = mem) /\ (~broken' => mem' = disk')
  <2>1. CASE Saved(b)
    BY <1>1, <1>2, <2>1 DEF Saved, Log, Recorded
  <2>2. CASE Unsaved(b)
    BY <1>1, <1>2, <2>2 DEF Unsaved, Log, Recorded
  <2>3. CASE Refuses
    BY <2>3 DEF Refuses
  <2> QED BY <2>1, <2>2, <2>3 DEF Commits
<1>4. CASE disk' = disk /\ mem' = mem /\ broken'
  BY <1>4 DEF BooksInv
<1>5. CASE Recorded(b) /\ (mem' = disk' \/ mem' = mem) /\ (~broken' => mem' = disk')
  BY <1>1, <1>5 DEF BooksInv
<1> QED BY <1>3, <1>4, <1>5

LEMMA BooksStay ==
    ASSUME BooksInv, mem' = mem \/ mem' = disk, disk' = disk, ExchangesApart(disk),
           alive' /\ ~recovering' /\ ~broken' => TasksAlone(disk)'
    PROVE  BooksInv'
BY DEF BooksInv

(* What a handler that reads memory finds there.                            *)
LEMMA BooksParts ==
    ASSUME SessionInv, BooksInv
    PROVE  /\ Fits(mem) /\ Fits(disk) /\ AddsUp(mem) /\ AddsUp(disk) /\ ExchangesApart(disk)
           /\ mem \in SessionRecord /\ mem.budget \in BranchBudget
           /\ alive /\ ~recovering /\ ~broken => TasksAlone(disk) /\ ScopeHeld(disk)
BY InvParts, FitParts DEF BooksInv, SoundRecord, Fits

LEMMA QuietStep ==
    ASSUME SessionInv, SessionInv', BooksInv, NEW b, Commits(b),
           UNCHANGED <<alive, recovering, turn, side>>,
           Recorded(b) => /\ Quietly(disk, disk')
                          /\ \A i \in 1..Len(disk.entries) :
                               disk'.entries[i].status = "running" => disk.entries[i].status = "running"
    PROVE  BooksInv'
<1>0. /\ Fits(disk) /\ AddsUp(disk)
      /\ alive /\ ~recovering /\ ~broken => TasksAlone(disk) /\ ScopeHeld(disk)
  BY BooksParts
<1>1. ASSUME Recorded(b)
      PROVE  /\ Fits(disk') /\ Quietly(disk, disk') /\ ~broken
             /\ DOMAIN disk.entries = 1..Len(disk.entries) /\ DOMAIN disk'.entries = 1..Len(disk'.entries)
             /\ DOMAIN disk.sides = 1..Len(disk.sides) /\ DOMAIN disk'.sides = 1..Len(disk.sides)
             /\ Len(disk.entries) \in Nat /\ Len(disk.entries) <= Len(disk'.entries)
             /\ Len(disk'.sides) = Len(disk.sides)
  BY <1>0, <1>1, FitTypes DEF Recorded, Quietly
<1>2. ASSUME Recorded(b)
      PROVE  /\ \A i \in 1..Len(disk'.entries) : disk'.entries[i].status = "running" =>
                  i \in 1..Len(disk.entries) /\ disk.entries[i].status = "running"
             /\ \A j \in 1..Len(disk.sides) : disk'.sides[j].state = disk.sides[j].state
             /\ \A i \in 1..Len(disk.entries) : disk'.entries[i].kind = disk.entries[i].kind
  <2>1. ASSUME NEW i \in 1..Len(disk'.entries), disk'.entries[i].status = "running"
        PROVE  i \in 1..Len(disk.entries) /\ disk.entries[i].status = "running"
    <3>1. i <= Len(disk.entries)
      BY <1>1, <1>2, <2>1 DEF Quietly
    <3>2. i \in 1..Len(disk.entries)
      BY <1>1, <1>2, <3>1
    <3> QED BY <1>2, <2>1, <3>2
  <2>2. ASSUME NEW i \in 1..Len(disk.entries) PROVE disk'.entries[i].kind = disk.entries[i].kind
    <3>1. i \in 1..Len(disk'.entries) /\ i <= Len(disk.entries)
      BY <1>1, <1>2
    <3> QED BY <1>1, <1>2, <3>1 DEF Quietly
  <2> QED BY <1>1, <1>2, <2>1, <2>2 DEF Quietly
<1>3. ASSUME Recorded(b) PROVE AddsUp(disk')
  <2>1. OneAtATime(disk')
    BY <1>0, <1>1, <1>2, <1>3, OneStill DEF AddsUp
  <2> QED BY <1>0, <1>1, <1>3, <2>1, QuietBooks
<1>4. ASSUME Recorded(b), alive', ~recovering', ~broken' PROVE TasksAlone(disk)'
  <2>1. TasksAlone(disk) /\ ScopeHeld(disk)
    BY <1>0, <1>1, <1>4
  <2> QED BY <1>1, <1>2, <1>4, <2>1 DEF TasksAlone, ScopeHeld
<1> QED BY <1>3, <1>4, BooksStep

-----------------------------------------------------------------------------
(* Messages are added and cancelled, receipts marked, forks settled.        *)

LEMMA AddedBooks ==
    ASSUME SessionInv, SessionInv', BooksInv, NEW kind \in Kinds, NEW j \in 0..MaxSides,
           Len(mem.entries) < MaxEntries, Commits(WithEntry(NewEntry(kind, j))),
           UNCHANGED <<alive, recovering, turn, side>>
    PROVE  BooksInv'
<1> DEFINE e == NewEntry(kind, j)
           b == WithEntry(e)
           n == Len(mem.entries)
<1>0. Fits(mem) /\ AddsUp(mem)
  BY BooksParts
<1>1. e \in Entry /\ e.status = "queued" /\ e.exchange = None
  BY <1>0, NewEntryIs
<1>2. e.steering # None => e.steering \in 1..n /\ mem.entries[e.steering].exchange # None
  <2>1. e.steering = IF kind = "chat" /\ ActiveChat # {} THEN CHOOSE i \in ActiveChat : TRUE ELSE None
    BY DEF NewEntry
  <2>2. ActiveChat # {} => (CHOOSE i \in ActiveChat : TRUE) \in ActiveChat
    OBVIOUS
  <2> HIDE DEF e
  <2>3. SUFFICES ASSUME e.steering \in ActiveChat
                 PROVE  e.steering \in 1..n /\ mem.entries[e.steering].exchange # None
    BY <2>1, <2>2
  <2> DEFINE t == e.steering
  <2>4. t \in 1..n /\ mem.entries[t].status = "running" /\ mem.entries[t].kind = "chat"
    BY <2>3 DEF ActiveChat
  <2> HIDE DEF t
  <2>5. mem.entries[t].exchange # None
    BY <1>0, <2>4, FitTypes DEF AddsUp, ChatsCharged
  <2> QED BY <2>4, <2>5 DEF t
<1> HIDE DEF e
<1>3. /\ Fits(b) /\ b.sides = mem.sides /\ b.forks = mem.forks
      /\ b.consumed = mem.consumed /\ b.budget = mem.budget
      /\ Len(b.entries) = n + 1 /\ n \in Nat
      /\ \A i \in 1..n : b.entries[i] = mem.entries[i]
      /\ b.entries[n + 1] = e
  BY <1>0, <1>1, WithEntryIs, FitTypes
<1> HIDE DEF b
<1>4. ASSUME Recorded(b)
      PROVE  /\ Quietly(disk, disk')
             /\ \A i \in 1..Len(disk.entries) :
                  disk'.entries[i].status = "running" => disk.entries[i].status = "running"
  <2>1. /\ mem = disk /\ disk'.entries = b.entries /\ disk'.sides = b.sides /\ disk'.forks = b.forks
        /\ disk'.consumed = b.consumed /\ disk'.budget = b.budget
    BY <1>3, <1>4, LogParts DEF Recorded, Fits
  <2>2. ASSUME NEW i \in 1..n + 1
        PROVE  IF i <= n THEN i \in 1..n /\ b.entries[i] = mem.entries[i] ELSE b.entries[i] = e
    BY <1>3
  <2> QED BY <1>1, <1>2, <1>3, <2>1, <2>2, SMTT(30) DEF Quietly
<1>5. Commits(b)
  BY DEF b, e
<1> QED BY <1>4, <1>5, QuietStep

LEMMA SubmitBooks ==
    ASSUME SessionInv, SessionInv', BooksInv, NEW kind \in Kinds, Submit(kind)
    PROVE  BooksInv'
<1>1. 0 \in 0..MaxSides
  BY SessionAssumption
<1>2. /\ Len(mem.entries) < MaxEntries /\ Commits(WithEntry(NewEntry(kind, 0)))
      /\ UNCHANGED <<alive, recovering, turn, side>>
  BY DEF Submit, Commits
<1> QED BY <1>1, <1>2, AddedBooks

LEMMA AttachBooks ==
    ASSUME SessionInv, SessionInv', BooksInv, NEW j \in 1..Len(mem.sides), AttachSide(j)
    PROVE  BooksInv'
<1>1. "chat" \in Kinds /\ j \in 0..MaxSides
  BY BooksParts, FitTypes, SessionAssumption DEF Fits
<1>2. /\ Len(mem.entries) < MaxEntries /\ Commits(WithEntry(NewEntry("chat", j)))
      /\ UNCHANGED <<alive, recovering, turn, side>>
  BY DEF AttachSide, Commits
<1> QED BY <1>1, <1>2, AddedBooks

LEMMA CancelBooks ==
    ASSUME SessionInv, SessionInv', BooksInv, CancelQueued
    PROVE  BooksInv'
<1> DEFINE ents == [i \in DOMAIN mem.entries |->
                      IF mem.entries[i].status = "queued"
                      THEN [mem.entries[i] EXCEPT !.status = "cancelled"] ELSE mem.entries[i]]
           b == [mem EXCEPT !.entries = [i \in DOMAIN @ |->
                   IF @[i].status = "queued" THEN [@[i] EXCEPT !.status = "cancelled"] ELSE @[i]]]
<1>0. Commits(b) /\ UNCHANGED <<alive, recovering, turn, side>>
  BY DEF CancelQueued, Commits
<1>1. /\ Fits(mem) /\ AddsUp(mem) /\ mem \in SessionRecord
      /\ DOMAIN mem.entries = 1..Len(mem.entries) /\ Len(mem.entries) \in Nat
      /\ \A i \in 1..Len(mem.entries) : mem.entries[i] \in Entry
  BY BooksParts, FitTypes, FitParts
<1>2. ASSUME NEW i \in 1..Len(mem.entries)
      PROVE  /\ ents[i].kind = mem.entries[i].kind /\ ents[i].steering = mem.entries[i].steering
             /\ ents[i].exchange = mem.entries[i].exchange
             /\ ents[i].status = IF mem.entries[i].status = "queued" THEN "cancelled" ELSE mem.entries[i].status
  BY <1>1 DEF Entry
<1>3. b = [mem EXCEPT !.entries = ents]
  BY <1>1 DEF SessionRecord
<1>4. DOMAIN ents = 1..Len(mem.entries)
  BY <1>1
<1> HIDE DEF ents, b
<1>5. ASSUME Recorded(b)
      PROVE  /\ Quietly(disk, disk')
             /\ \A i \in 1..Len(disk.entries) :
                  disk'.entries[i].status = "running" => disk.entries[i].status = "running"
  <2>1. /\ mem = disk /\ disk'.entries = ents /\ disk'.sides = mem.sides /\ disk'.forks = mem.forks
        /\ disk'.consumed = mem.consumed /\ disk'.budget = mem.budget /\ Fits(disk')
    BY <1>1, <1>3, <1>5 DEF Recorded, Log, SessionRecord
  <2>2. Len(disk'.entries) = Len(disk.entries)
    BY <1>1, <1>4, <2>1, FitTypes
  <2>3. \A i \in 1..Len(disk.entries) : disk.entries[i].status = "queued" => disk.entries[i].exchange = None
    BY <1>1, <2>1 DEF AddsUp, ChatsCharged
  <2> QED BY <1>1, <1>2, <2>1, <2>2, <2>3 DEF Quietly
<1> QED BY <1>0, <1>5, QuietStep

LEMMA MarkBooks ==
    ASSUME SessionInv, SessionInv', BooksInv, MarkSide
    PROVE  BooksInv'
<1> DEFINE sides == [mem.sides EXCEPT ![pending.id].marked = TRUE]
           b == [mem EXCEPT !.sides[pending.id].marked = TRUE]
<1>0. Commits(b) /\ UNCHANGED <<alive, recovering, turn, side>>
  BY DEF MarkSide, Commits
<1>1. /\ mem \in SessionRecord /\ DOMAIN mem.sides = 1..Len(mem.sides) /\ Fits(mem)
      /\ Len(mem.entries) \in Nat
      /\ \A j \in 1..Len(mem.sides) : mem.sides[j] \in SideReceipt
  BY BooksParts, FitTypes, FitParts
<1>2. \A j \in 1..Len(mem.sides) : sides[j].state = mem.sides[j].state
  BY <1>1 DEF SideReceipt
<1>3. DOMAIN sides = 1..Len(mem.sides)
  BY <1>1
<1>4. b = [mem EXCEPT !.sides = sides]
  OBVIOUS
<1> HIDE DEF sides, b
<1>5. ASSUME Recorded(b)
      PROVE  /\ Quietly(disk, disk')
             /\ \A i \in 1..Len(disk.entries) :
                  disk'.entries[i].status = "running" => disk.entries[i].status = "running"
  <2>1. /\ mem = disk /\ disk'.entries = mem.entries /\ disk'.sides = sides /\ disk'.forks = mem.forks
        /\ disk'.consumed = mem.consumed /\ disk'.budget = mem.budget /\ Fits(disk')
    BY <1>1, <1>4, <1>5 DEF Recorded, Log, SessionRecord
  <2>2. Len(disk'.sides) = Len(disk.sides)
    BY <1>1, <1>3, <2>1, FitTypes
  <2> QED BY <1>1, <1>2, <2>1, <2>2 DEF Quietly
<1> QED BY <1>0, <1>5, QuietStep

LEMMA ForkSettledBooks ==
    ASSUME SessionInv, SessionInv', BooksInv, NEW forks, DOMAIN forks = DOMAIN mem.forks,
           Commits([mem EXCEPT !.forks = forks]), UNCHANGED <<alive, recovering, turn, side>>
    PROVE  BooksInv'
<1> DEFINE b == [mem EXCEPT !.forks = forks]
<1>1. /\ mem \in SessionRecord /\ DOMAIN mem.forks = 1..Len(mem.forks) /\ Fits(mem)
      /\ Len(mem.entries) \in Nat /\ Len(mem.forks) \in Nat
  BY BooksParts, FitTypes
<1>2. ASSUME Recorded(b)
      PROVE  /\ Quietly(disk, disk')
             /\ \A i \in 1..Len(disk.entries) :
                  disk'.entries[i].status = "running" => disk.entries[i].status = "running"
  <2>1. /\ mem = disk /\ disk'.entries = mem.entries /\ disk'.sides = mem.sides /\ disk'.forks = forks
        /\ disk'.consumed = mem.consumed /\ disk'.budget = mem.budget /\ Fits(disk')
    BY <1>1, <1>2 DEF Recorded, Log, SessionRecord
  <2>2. Len(disk'.forks) = Len(disk.forks)
    BY <1>1, <2>1, FitTypes
  <2> QED BY <1>1, <2>1, <2>2 DEF Quietly
<1> HIDE DEF b
<1>3. Commits(b)
  BY DEF b
<1> QED BY <1>2, <1>3, QuietStep

LEMMA RecordForkBooks ==
    ASSUME SessionInv, SessionInv', BooksInv, RecordFork
    PROVE  BooksInv'
<1> DEFINE outcome == IF pending.what = "published" THEN "published" ELSE "uncertain"
           forks == [mem.forks EXCEPT ![pending.id] = outcome]
           b == [mem EXCEPT !.forks[pending.id] =
                   IF pending.what = "published" THEN "published" ELSE "uncertain"]
<1>1. Commits(b) /\ UNCHANGED <<alive, recovering, turn, side>>
  BY DEF RecordFork, Commits
<1>2. b = [mem EXCEPT !.forks = forks]
  OBVIOUS
<1>3. DOMAIN forks = DOMAIN mem.forks
  OBVIOUS
<1> HIDE DEF b, forks
<1> QED BY <1>1, <1>2, <1>3, ForkSettledBooks

-----------------------------------------------------------------------------
(* A message is dispatched and its turn ends.                               *)

LEMMA DispatchBooks ==
    ASSUME SessionInv, SessionInv', BooksInv, Usable, turn.at \notin {"admitted", "sent"},
           NEW i, Dispatch(i),
           ~broken => /\ i \in 1..Len(mem.entries) /\ mem.entries[i].status = "queued"
                      /\ mem.entries[i].kind = "chat" => CanDispatch
    PROVE  BooksInv'
<1> DEFINE chat == mem.entries[i].kind = "chat"
           exchange == IF chat THEN mem.consumed + 1 ELSE None
           x == IF chat THEN mem.consumed + 1 ELSE mem.consumed
           s == Replaced(i, "running", FALSE, exchange)
           b == [Replaced(i, "running", FALSE, exchange) EXCEPT !.consumed = IF chat THEN @ + 1 ELSE @]
<1>0. /\ chat => mem.consumed < Exchanges
      /\ \/ Saved(b) /\ turn' = [at |-> "admitted", entry |-> i, exchange |-> exchange]
         \/ (Unsaved(b) \/ Refuses) /\ turn' = Idle
      /\ UNCHANGED <<alive, recovering, side>> /\ alive /\ ~recovering
  BY DEF Dispatch, Usable
<1>1. /\ Fits(mem) /\ Fits(disk) /\ AddsUp(mem) /\ AddsUp(disk)
      /\ ~broken => TasksAlone(disk)
  BY <1>0, BooksParts
<1>2. /\ mem.consumed \in 0..Exchanges /\ mem.consumed \in Nat
      /\ exchange \in {None} \cup Exchange /\ x \in 0..Exchanges
  <2>1. mem.consumed \in 0..Exchanges /\ Exchanges \in Nat
    BY <1>1, FitParts, SessionAssumption
  <2> QED BY <1>0, <2>1 DEF Exchange
<1>3. ASSUME ~broken PROVE b = With(i, "running", FALSE, exchange, x)
  <2>1. "running" \in {"queued", "running"} \cup Terminal /\ FALSE \in BOOLEAN
    OBVIOUS
  <2> HIDE DEF exchange
  <2>2. s.consumed = mem.consumed
    BY <1>1, <1>2, <1>3, <2>1, ReplacedIs
  <2>3. b = [s EXCEPT !.consumed = x]
    BY <2>2
  <2> QED BY <2>3 DEF With
<1>4. /\ chat => exchange = mem.consumed + 1 /\ exchange # None /\ x = mem.consumed + 1
      /\ ~chat => exchange = None /\ x = mem.consumed
  BY <1>2 DEF None
<1>5. Commits(b)
  BY <1>0 DEF Commits
<1>6. Saved(b) /\ ~broken' => turn'.at = "admitted" /\ turn'.entry = i
  BY <1>0 DEF Saved, Unsaved, Refuses
<1>7. ~Saved(b) => broken'
  BY <1>0 DEF Unsaved, Refuses
<1> HIDE DEF b, s, exchange, x
<1>8. ASSUME ~broken
      PROVE  ReplacedAs(b, i, "running", FALSE, exchange, x)
  <2>1. "running" \in {"queued", "running"} \cup Terminal /\ FALSE \in BOOLEAN
    OBVIOUS
  <2> QED BY <1>1, <1>2, <1>3, <1>8, <2>1, ReplacedIs
<1>9. ASSUME Recorded(b)
      PROVE  /\ ~broken /\ mem = disk /\ Fits(disk') /\ i \in 1..Len(disk.entries)
             /\ disk.entries[i].status = "queued" /\ disk.entries[i].exchange = None
             /\ disk'.sides = disk.sides /\ disk'.forks = disk.forks /\ disk'.consumed = x
             /\ disk'.budget = BudgetAfter(i, "running") /\ Len(disk'.entries) = Len(disk.entries)
             /\ disk'.entries[i].status = "running" /\ disk'.entries[i].exchange = exchange
             /\ disk'.entries[i].kind = disk.entries[i].kind
             /\ disk'.entries[i].steering = disk.entries[i].steering
             /\ \A l \in 1..Len(disk.entries) : l # i => disk'.entries[l] = disk.entries[l]
  <2>1. ~broken /\ mem = disk /\ Fits(disk') /\ disk' = Log(disk, b)
    BY <1>9 DEF Recorded
  <2>2. ReplacedAs(b, i, "running", FALSE, exchange, x)
    BY <1>8, <2>1
  <2>3. Fits(b)
    BY <2>2 DEF ReplacedAs
  <2>4. /\ disk'.entries = b.entries /\ disk'.sides = b.sides /\ disk'.forks = b.forks
        /\ disk'.consumed = b.consumed /\ disk'.budget = b.budget
    BY <2>1, <2>3, LogParts DEF Fits
  <2>5. i \in 1..Len(disk.entries) /\ disk.entries[i].status = "queued"
    BY <2>1
  <2>6. disk.entries[i].exchange = None
    BY <1>1, <2>5, FitTypes DEF AddsUp, ChatsCharged
  <2> QED BY <2>1, <2>2, <2>4, <2>5, <2>6 DEF ReplacedAs
<1>10. ASSUME Recorded(b)
       PROVE  /\ \A l \in 1..Len(disk.entries) : disk.entries[l].status # "running"
              /\ OneAtATime(disk')
  <2>1. \A l \in 1..Len(disk.entries) : disk.entries[l].status # "running"
    BY <1>1, <1>9, <1>10, FitTypes DEF TasksAlone
  <2>2. \A l \in 1..Len(disk.entries) : disk'.entries[l].status = "running" => l = i
    BY <1>9, <1>10, <2>1
  <2>3. DOMAIN disk'.entries = 1..Len(disk.entries)
    BY <1>9, <1>10, FitTypes
  <2> QED BY <1>1, <1>9, <1>10, <2>1, <2>2, <2>3 DEF OneAtATime, AddsUp
<1>11. ASSUME Recorded(b) PROVE AddsUp(disk')
  <2>1. CASE chat
    <3>1. TurnTo(disk, disk', i)
      BY <1>4, <1>9, <1>11, <2>1 DEF TurnTo
    <3>2. disk'.consumed = disk.consumed + 1
      BY <1>4, <1>9, <1>11, <2>1
    <3>3. IF disk.budget.on THEN Reservable(disk.budget) /\ disk'.budget = Reserve(disk.budget, <<"turn", i>>)
          ELSE disk'.budget = disk.budget
      BY <1>9, <1>11, <2>1 DEF BudgetAfter, CanDispatch
    <3> QED BY <1>1, <1>9, <1>10, <1>11, <3>1, <3>2, <3>3, AdmitBooks
  <2>2. CASE ~chat
    <3>1. disk'.budget = disk.budget /\ disk'.consumed = disk.consumed /\ disk'.entries[i].exchange = None
      BY <1>4, <1>9, <1>11, <2>2 DEF BudgetAfter
    <3>2. Len(disk.entries) \in Nat
      BY <1>1, FitTypes
    <3>3. ASSUME NEW l \in 1..Len(disk.entries)
          PROVE  /\ disk'.entries[l].kind = disk.entries[l].kind /\ disk'.entries[l].steering = disk.entries[l].steering
                 /\ disk'.entries[l].exchange = disk.entries[l].exchange
                 /\ \/ disk'.entries[l].status = disk.entries[l].status
                    \/ disk.entries[l].exchange = None /\ disk.entries[l].kind # "chat"
      <4>1. CASE l = i
        BY <1>9, <1>11, <2>2, <3>1, <4>1
      <4>2. CASE l # i
        BY <1>9, <1>11, <4>2
      <4> QED BY <4>1, <4>2
    <3>4. Quietly(disk, disk')
      BY <1>9, <1>11, <3>1, <3>2, <3>3 DEF Quietly
    <3> QED BY <1>1, <1>9, <1>10, <1>11, <3>4, QuietBooks
  <2> QED BY <2>1, <2>2
<1>12. ASSUME Recorded(b), alive', ~recovering', ~broken' PROVE TasksAlone(disk)'
  <2>1. turn'.at = "admitted" /\ turn'.entry = i /\ side' = side
    BY <1>0, <1>6, <1>7, <1>12
  <2>2. \A l \in 1..Len(disk.entries) : disk'.entries[l].status = "running" => l = i
    BY <1>9, <1>10, <1>12
  <2>3. DOMAIN disk'.entries = 1..Len(disk.entries) /\ disk'.sides = disk.sides
    BY <1>9, <1>12, FitTypes
  <2> QED BY <1>1, <1>9, <1>12, <2>1, <2>2, <2>3 DEF TasksAlone
<1> QED BY <1>5, <1>11, <1>12, BooksStep

LEMMA StepBooks ==
    ASSUME SessionInv, SessionInv', BooksInv, Step
    PROVE  BooksInv'
<1>0. Fits(mem) /\ (~broken => mem = disk /\ ScopeHeld(disk))
  BY InvParts
<1>1. CASE Selects /\ mem.entries[First].kind # "git" /\ Dispatch(First)
  <2>1. Usable /\ Queued # {} /\ Dispatch(First) /\ CanDispatch /\ turn = Idle
    BY <1>1 DEF Selects
  <2>2. First \in 1..Len(mem.entries) /\ mem.entries[First].status = "queued"
    <3>1. First \in Queued
      BY <1>0, <2>1, FirstQueued
    <3> HIDE DEF First
    <3> QED BY <3>1 DEF Queued
  <2>3. turn.at \notin {"admitted", "sent"}
    BY <2>1 DEF Idle
  <2> QED BY <2>1, <2>2, <2>3, DispatchBooks
<1>2. CASE Usable /\ turn.at = "scope" /\ Dispatch(turn.entry)
  <2>1. ASSUME ~broken
        PROVE  /\ turn.entry \in 1..Len(mem.entries) /\ mem.entries[turn.entry].status = "queued"
               /\ mem.entries[turn.entry].kind # "chat"
    <3>1. alive /\ ~recovering
      BY <1>2 DEF Usable
    <3>2. TasksAlone(disk)
      BY <2>1, <3>1, BooksParts
    <3> QED BY <1>0, <1>2, <2>1, <3>2, FitTypes DEF ScopeHeld, TasksAlone
  <2>2. turn.at \notin {"admitted", "sent"}
    BY <1>2
  <2> QED BY <1>2, <2>1, <2>2, DispatchBooks
<1> QED BY <1>1, <1>2 DEF Step

LEMMA TurnEndsBooks ==
    ASSUME SessionInv, SessionInv', BooksInv, Usable,
           NEW status \in {"completed", "failed", "cancelled"}, NEW result \in BOOLEAN,
           TurnEnds(status, result), turn.at \in {"admitted", "sent"}
    PROVE  BooksInv'
<1> DEFINE i == turn.entry
           b == Replaced(turn.entry, status, result, turn.exchange)
<1>0. /\ Commits(b) /\ turn' = Idle /\ UNCHANGED <<alive, recovering, side>>
      /\ alive /\ ~recovering
  BY DEF TurnEnds, Usable, Commits
<1>1. /\ Fits(mem) /\ Fits(disk) /\ AddsUp(disk)
      /\ ~broken => TasksAlone(disk)
  BY <1>0, BooksParts
<1>2. /\ i \in 1..Len(disk.entries) /\ disk.entries[i].status = "running"
      /\ disk.entries[i].exchange = turn.exchange /\ turn.exchange \in {None} \cup Exchange
  <2>1. TurnHeld(disk, sent) /\ TasksTyped
    BY InvParts
  <2> QED BY <1>1, <2>1, FitTypes DEF TurnHeld, TasksTyped
<1>3. ASSUME Recorded(b)
      PROVE  ReplacedAs(b, i, status, result, turn.exchange, mem.consumed)
  <2>1. mem = disk
    BY <1>3 DEF Recorded
  <2>2. i \in 1..Len(mem.entries) /\ mem.consumed \in 0..Exchanges /\ status \in {"queued", "running"} \cup Terminal
    BY <1>1, <1>2, <2>1, FitParts DEF Terminal
  <2> QED BY <1>1, <1>2, <2>2, ReplacedIs
<1> HIDE DEF b
<1>9. ASSUME Recorded(b)
      PROVE  /\ ~broken /\ mem = disk /\ Fits(disk')
             /\ disk'.sides = disk.sides /\ disk'.forks = disk.forks /\ disk'.consumed = disk.consumed
             /\ disk'.budget = BudgetAfter(i, status) /\ Len(disk'.entries) = Len(disk.entries)
             /\ disk'.entries[i].status = status /\ disk'.entries[i].exchange = disk.entries[i].exchange
             /\ disk'.entries[i].kind = disk.entries[i].kind
             /\ disk'.entries[i].steering = disk.entries[i].steering
             /\ \A l \in 1..Len(disk.entries) : l # i => disk'.entries[l] = disk.entries[l]
  <2>1. ~broken /\ mem = disk /\ Fits(disk') /\ disk' = Log(disk, b)
    BY <1>9 DEF Recorded
  <2>2. ReplacedAs(b, i, status, result, turn.exchange, mem.consumed)
    BY <1>3, <1>9
  <2>3. Fits(b)
    BY <2>2 DEF ReplacedAs
  <2>4. /\ disk'.entries = b.entries /\ disk'.sides = b.sides /\ disk'.forks = b.forks
        /\ disk'.consumed = b.consumed /\ disk'.budget = b.budget
    BY <2>1, <2>3, LogParts DEF Fits
  <2> QED BY <1>2, <2>1, <2>2, <2>4 DEF ReplacedAs
<1> HIDE DEF i
<1>10. ASSUME Recorded(b)
       PROVE  \A l \in 1..Len(disk.entries) : disk'.entries[l].status # "running"
  <2>1. \A l \in 1..Len(disk.entries) : disk.entries[l].status = "running" => l = i
    BY <1>1, <1>9, <1>10, FitTypes DEF TasksAlone, i
  <2>2. ASSUME NEW l \in 1..Len(disk.entries) PROVE disk'.entries[l].status # "running"
    <3>1. CASE l = i
      BY <1>9, <1>10, <3>1
    <3>2. CASE l # i
      BY <1>9, <1>10, <2>1, <3>2
    <3> QED BY <3>1, <3>2
  <2> QED BY <2>2
<1>11. ASSUME Recorded(b) PROVE AddsUp(disk')
  <2>0. DOMAIN disk'.entries = 1..Len(disk.entries) /\ DOMAIN disk.entries = 1..Len(disk.entries)
    BY <1>1, <1>9, <1>11, FitTypes
  <2>1. OneAtATime(disk')
    BY <1>1, <1>9, <1>10, <1>11, <2>0 DEF OneAtATime, AddsUp
  <2>2. CASE disk.entries[i].kind = "chat"
    <3>1. disk.entries[i].exchange # None
      BY <1>1, <1>2, <2>0, <2>2 DEF AddsUp, ChatsCharged
    <3>2. TurnTo(disk, disk', i)
      BY <1>2, <1>9, <1>11, <2>2, <3>1 DEF TurnTo
    <3>3. disk'.entries[i].status \in Terminal
      BY <1>9, <1>11 DEF Terminal
    <3>4. disk'.budget = IF ~disk.budget.on THEN disk.budget
                         ELSE IF disk'.entries[i].status = "completed" THEN SettleUsage(disk.budget, <<"turn", i>>)
                         ELSE SettleUncertain(disk.budget)
      BY <1>2, <1>9, <1>11, <2>2 DEF BudgetAfter
    <3> QED BY <1>1, <1>2, <1>9, <1>11, <2>1, <3>1, <3>2, <3>3, <3>4, EndBooks
  <2>3. CASE disk.entries[i].kind # "chat"
    <3>1. disk'.budget = disk.budget /\ disk.entries[i].exchange = None
      BY <1>1, <1>2, <1>9, <1>11, <2>0, <2>3 DEF BudgetAfter, AddsUp, ChatsCharged
    <3>2. Len(disk.entries) \in Nat
      BY <1>1, FitTypes
    <3>3. ASSUME NEW l \in 1..Len(disk.entries)
          PROVE  /\ disk'.entries[l].kind = disk.entries[l].kind /\ disk'.entries[l].steering = disk.entries[l].steering
                 /\ disk'.entries[l].exchange = disk.entries[l].exchange
                 /\ \/ disk'.entries[l].status = disk.entries[l].status
                    \/ disk.entries[l].exchange = None /\ disk.entries[l].kind # "chat"
      <4>1. CASE l = i
        BY <1>9, <1>11, <2>3, <3>1, <4>1
      <4>2. CASE l # i
        BY <1>9, <1>11, <4>2
      <4> QED BY <4>1, <4>2
    <3>4. Quietly(disk, disk')
      BY <1>9, <1>11, <3>1, <3>2, <3>3 DEF Quietly
    <3> QED BY <1>1, <1>9, <1>11, <2>1, <3>4, QuietBooks
  <2> QED BY <2>2, <2>3
<1>12. ASSUME Recorded(b), alive', ~recovering', ~broken' PROVE TasksAlone(disk)'
  <2>1. DOMAIN disk'.entries = 1..Len(disk.entries) /\ disk'.sides = disk.sides
    BY <1>9, <1>12, FitTypes
  <2>2. turn'.at = "idle" /\ side' = side
    BY <1>0 DEF Idle
  <2> QED BY <1>1, <1>9, <1>10, <1>12, <2>1, <2>2 DEF TasksAlone
<1> QED BY <1>0, <1>11, <1>12, BooksStep

-----------------------------------------------------------------------------
(* A side question is asked, ends and is reconciled.                        *)

LEMMA AskSideBooks ==
    ASSUME SessionInv, SessionInv', BooksInv, AskSide
    PROVE  BooksInv'
<1> DEFINE n == Len(mem.sides)
           j == Len(mem.sides) + 1
           k == <<"side", Len(mem.sides) + 1>>
           B == CurrentBudget(mem)
           e == [state |-> "running", exchange |-> mem.consumed + 1, marked |-> FALSE]
           sides == Append(mem.sides, e)
           budget == Reserve(B, k)
           b == [mem EXCEPT !.sides = Append(@, e), !.consumed = @ + 1,
                            !.budget = Reserve(CurrentBudget(mem), k)]
<1>0. /\ Usable /\ side = Idle /\ Reservable(B)
      /\ \/ Saved(b) /\ side' = [at |-> "admitted", entry |-> j, exchange |-> mem.consumed + 1]
         \/ Unsaved(b) /\ side' = side
      /\ UNCHANGED <<alive, recovering, turn>>
  BY DEF AskSide
<1>1. /\ alive /\ ~recovering /\ ~broken /\ mem = disk
      /\ Fits(mem) /\ Fits(disk) /\ AddsUp(mem) /\ AddsUp(disk) /\ TasksAlone(disk)
  <2>1. alive /\ ~recovering /\ ~broken
    BY <1>0 DEF Usable, Saved, Unsaved
  <2> QED BY <2>1, BooksParts, InvParts
<1>2. /\ mem \in SessionRecord /\ mem.sides \in Seq(SideReceipt) /\ n \in Nat /\ DOMAIN mem.sides = 1..n
      /\ mem.consumed \in Nat /\ Len(mem.entries) \in Nat
  BY <1>1, FitTypes, FitParts DEF Fits
<1>3. B \in BranchBudget /\ Tells(B, mem) /\ B.attempts < Attempts
  BY <1>0, <1>1, CurrentBudgetIs, CurrentTells DEF Reservable
<1>4. Commits(b)
  BY <1>0 DEF Commits
<1>5. ~broken' => side'.at = "admitted" /\ side'.entry = j
  BY <1>0 DEF Unsaved
<1>6. e.state = "running"
  OBVIOUS
<1> HIDE DEF e, B
<1>7. /\ Len(sides) = n + 1 /\ sides[n + 1] = e
      /\ \A l \in 1..n : sides[l] = mem.sides[l]
  BY <1>2
<1>8. b = [mem EXCEPT !.sides = sides, !.consumed = mem.consumed + 1, !.budget = budget]
  BY DEF B
<1> HIDE DEF b, sides, budget
<1>9. ASSUME Recorded(b)
      PROVE  /\ Fits(disk') /\ disk'.entries = disk.entries /\ disk'.forks = disk.forks
             /\ disk'.consumed = disk.consumed + 1 /\ disk'.budget = budget
             /\ Len(disk'.sides) = n + 1 /\ DOMAIN disk'.sides = 1..(n + 1)
             /\ disk'.sides[n + 1].state = "running"
             /\ \A l \in 1..n : disk'.sides[l] = disk.sides[l]
  <2>1. /\ disk'.entries = mem.entries /\ disk'.sides = sides /\ disk'.forks = mem.forks
        /\ disk'.consumed = mem.consumed + 1 /\ disk'.budget = budget /\ Fits(disk')
    BY <1>2, <1>8, <1>9 DEF Recorded, Log, SessionRecord
  <2>2. Len(disk'.sides) = n + 1 /\ DOMAIN disk'.sides = 1..(n + 1)
    BY <1>7, <2>1, FitTypes
  <2> QED BY <1>1, <1>6, <1>7, <2>1, <2>2
<1>10. \A l \in 1..n : disk.sides[l].state # "running"
  BY <1>0, <1>1, <1>2 DEF TasksAlone, Idle
<1>11. ASSUME Recorded(b), NEW l \in 1..(n + 1), disk'.sides[l].state = "running" PROVE l = n + 1
  <2>1. l \in 1..n \/ l = n + 1
    BY <1>2
  <2> QED BY <1>9, <1>10, <1>11, <2>1
<1>12. ASSUME Recorded(b) PROVE AddsUp(disk')
  <2>1. OneAtATime(disk')
    BY <1>1, <1>9, <1>11, <1>12 DEF OneAtATime, AddsUp
  <2>2. SideTo(disk, disk', n + 1)
    BY <1>1, <1>9, <1>12 DEF SideTo
  <2>3. disk'.budget = Reserve(B, <<"side", n + 1>>)
    BY <1>9, <1>12 DEF budget
  <2> HIDE DEF n
  <2>4. Len(disk'.sides) = Len(disk.sides) + 1 /\ disk'.sides[n + 1].state = "running"
    BY <1>1, <1>9, <1>12 DEF n
  <2> QED BY <1>1, <1>3, <1>9, <1>12, <2>1, <2>2, <2>3, <2>4, AskBooks
<1>13. ASSUME Recorded(b), alive', ~recovering', ~broken' PROVE TasksAlone(disk)'
  <2>1. disk'.entries = disk.entries /\ turn' = turn /\ side'.at = "admitted" /\ side'.entry = n + 1
    BY <1>0, <1>5, <1>9, <1>13
  <2>2. \A l \in DOMAIN disk'.sides : disk'.sides[l].state = "running" => l = n + 1
    BY <1>9, <1>11, <1>13
  <2> QED BY <1>1, <2>1, <2>2 DEF TasksAlone
<1> QED BY <1>4, <1>12, <1>13, BooksStep

(* One receipt changes its state, and the budget with it.                   *)
SettledTo(b, j, state) ==
    /\ b.entries = mem.entries /\ b.forks = mem.forks /\ b.consumed = mem.consumed
    /\ Len(b.sides) = Len(mem.sides) /\ b.sides[j].state = state
    /\ \A l \in 1..Len(mem.sides) : l # j => b.sides[l].state = mem.sides[l].state
    /\ \/ /\ mem.sides[j].state = "running" /\ state = "completed"
          /\ b.budget = SettleUsage(mem.budget, <<"side", j>>)
       \/ /\ mem.sides[j].state = "running" /\ state \in {"cancelled", "uncertain"}
          /\ b.budget = SettleUncertain(mem.budget)
       \/ /\ mem.sides[j].state \in {"cancelled", "uncertain"} /\ state = "reconciled"
          /\ b.budget = [SettleUsage(mem.budget, <<"side", j>>) EXCEPT
                           !.uncertain = IF @ = 0 THEN 0 ELSE @ - 1]

LEMMA SettledStep ==
    ASSUME SessionInv, SessionInv', BooksInv, NEW b, NEW j, NEW state,
           Commits(b), UNCHANGED <<alive, recovering, turn>>, side' = Idle, side = Idle \/ side.entry = j,
           Recorded(b) => Fits(b) /\ j \in 1..Len(mem.sides) /\ SettledTo(b, j, state)
    PROVE  BooksInv'
<1>1. /\ Fits(disk) /\ AddsUp(disk)
      /\ alive /\ ~recovering /\ ~broken => TasksAlone(disk)
  BY BooksParts
<1>2. ASSUME Recorded(b)
      PROVE  /\ ~broken /\ mem = disk /\ Fits(disk') /\ SettledTo(disk', j, state) /\ j \in 1..Len(disk.sides)
             /\ DOMAIN disk.sides = 1..Len(disk.sides) /\ DOMAIN disk'.sides = 1..Len(disk.sides)
             /\ disk'.entries = disk.entries /\ Len(disk'.sides) = Len(disk.sides)
             /\ state # "running" /\ disk'.sides[j].state = state
             /\ \A l \in 1..Len(disk.sides) : l # j => disk'.sides[l].state = disk.sides[l].state
  <2>1. ~broken /\ mem = disk /\ Fits(disk') /\ disk' = Log(disk, b) /\ Fits(b)
    BY <1>2 DEF Recorded
  <2>2. /\ disk'.entries = b.entries /\ disk'.sides = b.sides /\ disk'.forks = b.forks
        /\ disk'.consumed = b.consumed /\ disk'.budget = b.budget
    BY <2>1, LogParts DEF Fits
  <2>3. SettledTo(b, j, state) /\ j \in 1..Len(disk.sides)
    BY <1>2, <2>1
  <2>4. SettledTo(disk', j, state)
    BY <2>2, <2>3 DEF SettledTo
  <2>5. state # "running" /\ disk'.sides[j].state = state /\ Len(disk'.sides) = Len(disk.sides)
        /\ disk'.entries = disk.entries
        /\ \A l \in 1..Len(disk.sides) : l # j => disk'.sides[l].state = disk.sides[l].state
    BY <2>1, <2>4 DEF SettledTo
  <2> QED BY <1>1, <2>1, <2>3, <2>4, <2>5, FitTypes
<1>3. ASSUME Recorded(b), NEW l \in 1..Len(disk.sides)
      PROVE  l # j => disk'.sides[l].state = disk.sides[l].state
  BY <1>2, <1>3
<1>4. ASSUME Recorded(b), NEW l \in 1..Len(disk.sides), disk'.sides[l].state = "running"
      PROVE  disk.sides[l].state = "running" /\ l # j
  <2>1. l # j
    BY <1>2, <1>4
  <2> QED BY <1>3, <1>4, <2>1
<1>5. ASSUME Recorded(b) PROVE AddsUp(disk')
  <2>1. OneAtATime(disk')
    BY <1>1, <1>2, <1>4, <1>5 DEF AddsUp, OneAtATime
  <2>2. SideTo(disk, disk', j)
    BY <1>2, <1>3, <1>5 DEF SideTo, SettledTo
  <2>3. /\ disk'.consumed = disk.consumed
        /\ \/ /\ disk.sides[j].state = "running" /\ disk'.sides[j].state = "completed"
              /\ disk'.budget = SettleUsage(disk.budget, <<"side", j>>)
           \/ /\ disk.sides[j].state = "running" /\ disk'.sides[j].state \in {"cancelled", "uncertain"}
              /\ disk'.budget = SettleUncertain(disk.budget)
           \/ /\ disk.sides[j].state \in {"cancelled", "uncertain"} /\ disk'.sides[j].state = "reconciled"
              /\ disk'.budget = [SettleUsage(disk.budget, <<"side", j>>) EXCEPT
                                   !.uncertain = IF @ = 0 THEN 0 ELSE @ - 1]
    BY <1>2, <1>5 DEF SettledTo
  <2> QED BY <1>1, <1>2, <1>5, <2>1, <2>2, <2>3, SettleBooks
<1>6. ASSUME Recorded(b), alive', ~recovering', ~broken' PROVE TasksAlone(disk)'
  <2>1. TasksAlone(disk) /\ disk'.entries = disk.entries /\ turn' = turn
    BY <1>1, <1>2, <1>6
  <2>2. ASSUME NEW l \in DOMAIN disk'.sides, disk'.sides[l].state = "running" PROVE FALSE
    <3>1. l \in DOMAIN disk.sides /\ disk.sides[l].state = "running" /\ l # j
      BY <1>2, <1>4, <1>6, <2>2
    <3>2. side.at # "idle" /\ side.entry = l
      BY <2>1, <3>1 DEF TasksAlone
    <3> QED BY <3>1, <3>2 DEF Idle
  <2> QED BY <2>1, <2>2 DEF TasksAlone
<1> QED BY <1>5, <1>6, BooksStep

(* A session with a side question keeps a budget.                           *)
LEMMA BudgetKept ==
    ASSUME SessionInv, BooksInv, NEW j \in 1..Len(mem.sides)
    PROVE  mem.budget.on /\ CurrentBudget(mem) = mem.budget
<1>1. AddsUp(mem) /\ Len(mem.sides) > 0
  BY BooksParts, FitTypes
<1> QED BY <1>1 DEF AddsUp, Counted, CurrentBudget

LEMMA SideEndsBooks ==
    ASSUME SessionInv, SessionInv', BooksInv, NEW state \in {"cancelled", "uncertain"}, SideEnds(state)
    PROVE  BooksInv'
<1> DEFINE j == side.entry
           budget == SettleUncertain(CurrentBudget(mem))
           b == WithSide(j, state, budget)
<1>0. /\ side.at # "idle" /\ Commits(b) /\ side' = Idle /\ alive /\ ~recovering
      /\ UNCHANGED <<alive, recovering, turn>>
  BY DEF SideEnds, Commits, Usable
<1>1. Fits(mem) /\ mem.budget \in BranchBudget
  BY BooksParts
<1>2. j \in 1..Len(disk.sides) /\ disk.sides[j].state = "running" /\ <<"side", j>> \in Operations
  BY <1>0, AskedSide
<1>3. ASSUME Recorded(b)
      PROVE  Fits(b) /\ j \in 1..Len(mem.sides) /\ SettledTo(b, j, state)
  <2>1. j \in 1..Len(mem.sides) /\ mem.sides[j].state = "running"
    BY <1>2, <1>3 DEF Recorded
  <2>2. budget = SettleUncertain(mem.budget) /\ budget \in BranchBudget /\ (mem.budget.on => budget.on)
    <3>1. CurrentBudget(mem) = mem.budget
      BY <2>1, BudgetKept
    <3> QED BY <1>1, <1>2, <3>1, BudgetParts
  <2> HIDE DEF budget
  <2>3. ConcludedAs(b, j, state) /\ b.budget = budget
    <3>1. state \in SideStates
      BY DEF SideStates
    <3> QED BY <1>1, <2>1, <2>2, <3>1, WithSideIs
  <2> QED BY <2>1, <2>2, <2>3 DEF ConcludedAs, SettledTo
<1> HIDE DEF b
<1>4. side = Idle \/ side.entry = j
  OBVIOUS
<1> HIDE DEF j
<1> QED BY <1>0, <1>3, <1>4, SettledStep

LEMMA AnswerBooks ==
    ASSUME SessionInv, SessionInv', BooksInv, AnswerSide
    PROVE  BooksInv'
<1> DEFINE j == side.entry
           budget == SettleUsage(CurrentBudget(mem), <<"side", side.entry>>)
           b == WithSide(j, "completed", budget)
<1>0. /\ side.at # "idle" /\ Commits(b) /\ side' = Idle /\ alive /\ ~recovering
      /\ UNCHANGED <<alive, recovering, turn>>
  BY DEF AnswerSide, Commits, Usable
<1>1. Fits(mem) /\ mem.budget \in BranchBudget
  BY BooksParts
<1>2. j \in 1..Len(disk.sides) /\ disk.sides[j].state = "running" /\ <<"side", j>> \in Operations
  BY <1>0, AskedSide
<1>3. ASSUME Recorded(b)
      PROVE  Fits(b) /\ j \in 1..Len(mem.sides) /\ SettledTo(b, j, "completed")
  <2>1. j \in 1..Len(mem.sides) /\ mem.sides[j].state = "running"
    BY <1>2, <1>3 DEF Recorded
  <2>2. budget = SettleUsage(mem.budget, <<"side", j>>) /\ budget \in BranchBudget /\ (mem.budget.on => budget.on)
    <3>1. CurrentBudget(mem) = mem.budget
      BY <2>1, BudgetKept
    <3> QED BY <1>1, <1>2, <3>1, BudgetParts
  <2> HIDE DEF budget
  <2>3. ConcludedAs(b, j, "completed") /\ b.budget = budget
    <3>1. "completed" \in SideStates
      BY DEF SideStates
    <3> QED BY <1>1, <2>1, <2>2, <3>1, WithSideIs
  <2> QED BY <2>1, <2>2, <2>3 DEF ConcludedAs, SettledTo
<1> HIDE DEF b
<1>4. side = Idle \/ side.entry = j
  OBVIOUS
<1> HIDE DEF j
<1> QED BY <1>0, <1>3, <1>4, SettledStep

LEMMA ReconcileBooks ==
    ASSUME SessionInv, SessionInv', BooksInv, NEW j \in 1..Len(mem.sides), ReconcileSide(j)
    PROVE  BooksInv'
<1> DEFINE settled == SettleUsage(mem.budget, <<"side", j>>)
           budget == [settled EXCEPT !.uncertain = IF @ = 0 THEN 0 ELSE @ - 1]
           b == WithSide(j, "reconciled", budget)
<1>0. /\ side = Idle /\ side' = Idle /\ Commits(b) /\ alive /\ ~recovering
      /\ mem.sides[j].state \in {"cancelled", "uncertain"}
      /\ UNCHANGED <<alive, recovering, turn>>
  BY DEF ReconcileSide, Commits, Usable
<1>1. /\ Fits(mem) /\ mem.budget \in BranchBudget /\ <<"side", j>> \in Operations
  <2>1. Fits(mem) /\ mem.budget \in BranchBudget
    BY BooksParts
  <2>2. j \in 1..MaxSides
    BY <2>1, FitParts, SessionAssumption
  <2> QED BY <2>1, <2>2, OperationParts
<1>2. settled \in BranchBudget /\ (mem.budget.on => settled.on)
  BY <1>1, BudgetParts
<1>3. budget \in BranchBudget /\ (mem.budget.on => budget.on)
  <2> HIDE DEF settled
  <2>1. settled.uncertain \in Nat
    BY <1>2 DEF BranchBudget
  <2> DEFINE u == IF settled.uncertain = 0 THEN 0 ELSE settled.uncertain - 1
  <2>2. u \in Nat
    BY <2>1
  <2>3. budget = [settled EXCEPT !.uncertain = u]
    OBVIOUS
  <2> HIDE DEF u, budget
  <2>4. budget \in BranchBudget /\ budget.on = settled.on
    BY <1>2, <2>2, <2>3 DEF BranchBudget
  <2> QED BY <1>2, <2>4
<1>4. budget = [SettleUsage(mem.budget, <<"side", j>>) EXCEPT !.uncertain = IF @ = 0 THEN 0 ELSE @ - 1]
  OBVIOUS
<1> HIDE DEF budget, settled
<1>5. ConcludedAs(b, j, "reconciled") /\ b.budget = budget
  <2>1. "reconciled" \in SideStates
    BY DEF SideStates
  <2> QED BY <1>1, <1>3, <2>1, WithSideIs
<1> HIDE DEF b
<1>6. Fits(b) /\ SettledTo(b, j, "reconciled")
  BY <1>0, <1>4, <1>5 DEF ConcludedAs, SettledTo
<1> QED BY <1>0, <1>6, SettledStep

-----------------------------------------------------------------------------
(* A fork is created.                                                       *)

LEMMA CreateForkBooks ==
    ASSUME SessionInv, SessionInv', BooksInv, CreateFork
    PROVE  BooksInv'
<1> DEFINE B == CurrentBudget(mem)
           budget == [B EXCEPT !.attempts = @ + 1]
           forks == Append(mem.forks, "reserved")
           b == [mem EXCEPT !.forks = Append(@, "reserved"),
                            !.budget = [CurrentBudget(mem) EXCEPT !.attempts = @ + 1]]
<1>0. /\ Usable /\ Reservable(B) /\ Commits(b) /\ ~broken
      /\ UNCHANGED <<alive, recovering, turn, side>>
  BY DEF CreateFork, Commits, Saved, Unsaved
<1>1. /\ alive /\ ~recovering /\ mem = disk
      /\ Fits(mem) /\ Fits(disk) /\ AddsUp(mem) /\ AddsUp(disk) /\ TasksAlone(disk)
  <2>1. alive /\ ~recovering /\ ~broken
    BY <1>0 DEF Usable
  <2> QED BY <2>1, BooksParts, InvParts
<1>2. mem \in SessionRecord /\ Len(mem.forks) \in Nat
  BY <1>1, FitTypes DEF Fits
<1>3. B \in BranchBudget /\ Tells(B, mem) /\ B.attempts < Attempts
  BY <1>0, <1>1, CurrentBudgetIs, CurrentTells DEF Reservable
<1>4. Len(forks) = Len(mem.forks) + 1
  <2>1. mem.forks \in Seq({"reserved", "published", "uncertain"})
    BY <1>1, FitParts
  <2> QED BY <2>1
<1>5. b = [mem EXCEPT !.forks = forks, !.budget = budget]
  OBVIOUS
<1> HIDE DEF b, forks, budget, B
<1>6. ASSUME Recorded(b)
      PROVE  /\ Fits(disk') /\ disk'.entries = disk.entries /\ disk'.sides = disk.sides
             /\ disk'.consumed = disk.consumed /\ disk'.budget = budget
             /\ Len(disk'.forks) = Len(disk.forks) + 1
  BY <1>1, <1>2, <1>4, <1>5, <1>6 DEF Recorded, Log, SessionRecord
<1>7. ASSUME Recorded(b) PROVE AddsUp(disk')
  <2>1. disk'.budget = [B EXCEPT !.attempts = @ + 1]
    BY <1>6, <1>7 DEF budget
  <2> QED BY <1>1, <1>3, <1>6, <1>7, <2>1, ForkBooks
<1>8. ASSUME Recorded(b) PROVE TasksAlone(disk)'
  BY <1>0, <1>1, <1>6, <1>8 DEF TasksAlone
<1> QED BY <1>0, <1>7, <1>8, BooksStep

-----------------------------------------------------------------------------
(* The process ends, is opened again and recovers.                          *)

LEMMA NothingOpen ==
    ASSUME Fits(mem)
    PROVE  /\ OpenAs("turn") = {} => \A i \in DOMAIN mem.entries : mem.entries[i].status # "running"
           /\ OpenAs("turn") # {} => \E i \in DOMAIN mem.entries : mem.entries[i].status = "running"
           /\ OpenAs("side") = {} => \A j \in DOMAIN mem.sides : mem.sides[j].state # "running"
           /\ OpenAs("side") # {} => \E j \in DOMAIN mem.sides : mem.sides[j].state = "running"
           /\ \A i \in DOMAIN mem.entries :
                mem.entries[i].status = "running" <=> <<"turn", i>> \in OpenAs("turn")
<1>1. /\ DOMAIN mem.entries = 1..Len(mem.entries) /\ DOMAIN mem.sides = 1..Len(mem.sides)
      /\ Len(mem.entries) \in 0..MaxEntries /\ Len(mem.sides) \in 0..MaxSides
      /\ MaxEntries \in Nat /\ MaxSides \in Nat
  BY FitParts, SessionAssumption
<1>2. ASSUME NEW i \in DOMAIN mem.entries
      PROVE  mem.entries[i].status = "running" <=> <<"turn", i>> \in OpenAs("turn")
  <2>1. i \in 1..MaxEntries /\ i <= Len(mem.entries)
    BY <1>1
  <2>2. <<"turn", i>> \in Operations /\ <<"turn", i>>[1] = "turn"
    BY <2>1, OperationParts
  <2> QED BY <2>1, <2>2, OpenParts DEF OpenAs
<1>3. ASSUME NEW j \in DOMAIN mem.sides
      PROVE  mem.sides[j].state = "running" <=> <<"side", j>> \in OpenAs("side")
  <2>1. j \in 1..MaxSides /\ j <= Len(mem.sides)
    BY <1>1
  <2>2. <<"side", j>> \in Operations /\ <<"side", j>>[1] = "side"
    BY <2>1, OperationParts
  <2> QED BY <2>1, <2>2, OpenParts, ZenonT(60) DEF OpenAs
<1>4. ASSUME NEW k \in OpenAs("turn") PROVE \E i \in DOMAIN mem.entries : mem.entries[i].status = "running"
  <2>1. k \in Operations /\ k[1] = "turn" /\ Open(mem, k)
    BY DEF OpenAs
  <2>2. PICK i \in 1..MaxEntries : k = <<"turn", i>>
    BY <2>1, OperationKinds
  <2>3. i <= Len(mem.entries) /\ mem.entries[i].status = "running"
    BY <2>1, <2>2, OpenParts, ZenonT(60)
  <2> QED BY <1>1, <2>3
<1>5. ASSUME NEW k \in OpenAs("side") PROVE \E j \in DOMAIN mem.sides : mem.sides[j].state = "running"
  <2>1. k \in Operations /\ k[1] = "side" /\ Open(mem, k)
    BY DEF OpenAs
  <2>2. PICK j \in 1..MaxSides : k = <<"side", j>>
    BY <2>1, OperationKinds
  <2>3. Open(mem, <<"side", j>>)
    BY <2>1, <2>2
  <2>4. j <= Len(mem.sides) /\ mem.sides[j].state = "running"
    BY <2>3, OpenParts
  <2> QED BY <1>1, <2>4
<1> QED BY <1>2, <1>3, <1>4, <1>5

LEMMA InterruptedBooks ==
    ASSUME SessionInv, SessionInv', BooksInv, recovering', Commits(Interrupted), OpenAs("turn") # {}
    PROVE  BooksInv'
<1> DEFINE b == Interrupted
<1>0. Fits(mem) /\ Fits(disk) /\ AddsUp(disk)
  BY BooksParts
<1>1. PICK i \in DOMAIN mem.entries : mem.entries[i].status = "running"
  BY <1>0, NothingOpen
<1>2. ASSUME Recorded(b)
      PROVE  /\ mem = disk /\ Fits(disk') /\ i \in 1..Len(disk.entries) /\ disk.entries[i].status = "running"
             /\ disk'.sides = disk.sides /\ disk'.forks = disk.forks /\ disk'.consumed = disk.consumed
             /\ Len(disk'.entries) = Len(disk.entries)
             /\ disk'.budget = IF disk.entries[i].kind = "chat" /\ disk.budget.on
                               THEN SettleUncertain(disk.budget) ELSE disk.budget
             /\ disk'.entries[i].status = "interrupted" /\ disk'.entries[i].exchange = disk.entries[i].exchange
             /\ disk'.entries[i].kind = disk.entries[i].kind
             /\ disk'.entries[i].steering = disk.entries[i].steering
             /\ \A l \in 1..Len(disk.entries) : l # i =>
                  disk.entries[l].status # "running" /\ disk'.entries[l] = disk.entries[l]
  <2>1. ~broken /\ mem = disk /\ Fits(disk') /\ disk' = Log(disk, b) /\ SoundRecord(disk, sent, children)
    BY <1>2, InvParts DEF Recorded
  <2>2. i \in 1..Len(mem.entries) /\ DOMAIN mem.entries = 1..Len(mem.entries)
    BY <1>0, FitTypes
  <2>3. \A l \in 1..Len(mem.entries) : mem.entries[l].status = "running" => l = i
    BY <1>0, <1>1, <2>1, <2>2 DEF AddsUp, OneAtATime
  <2>4. /\ Fits(b) /\ MessagesChange(disk, b, sent, 0) /\ b.consumed = mem.consumed
        /\ b.budget = IF \E l \in DOMAIN mem.entries : <<"turn", l>> \in OpenAs("turn")
                            /\ mem.entries[l].kind = "chat" /\ mem.budget.on
                      THEN SettleUncertain(mem.budget) ELSE mem.budget
        /\ \A l \in 1..Len(mem.entries) :
             /\ b.entries[l].kind = mem.entries[l].kind
             /\ b.entries[l].steering = mem.entries[l].steering
             /\ b.entries[l].exchange = mem.entries[l].exchange
             /\ IF mem.entries[l].status = "running" THEN b.entries[l].status = "interrupted"
                ELSE b.entries[l] = mem.entries[l]
    BY <1>0, <2>1, InterruptedIs
  <2> HIDE DEF b
  <2>5. b.budget = IF mem.entries[i].kind = "chat" /\ mem.budget.on
                   THEN SettleUncertain(mem.budget) ELSE mem.budget
    <3>1. \A l \in DOMAIN mem.entries : <<"turn", l>> \in OpenAs("turn") <=> l = i
      BY <1>0, <1>1, <2>2, <2>3, NothingOpen
    <3> QED BY <2>4, <3>1
  <2>6. /\ disk'.entries = b.entries /\ disk'.sides = b.sides /\ disk'.forks = b.forks
        /\ disk'.consumed = b.consumed /\ disk'.budget = b.budget
    <3>1. b \in SessionRecord
      BY <2>4 DEF Fits
    <3> QED BY <2>1, <3>1, LogParts
  <2>7. b.sides = disk.sides /\ b.forks = disk.forks /\ Len(b.entries) = Len(disk.entries)
    BY <2>4 DEF MessagesChange
  <2> QED BY <1>1, <2>1, <2>2, <2>3, <2>4, <2>5, <2>6, <2>7
<1> HIDE DEF b
<1>3. ASSUME Recorded(b) PROVE AddsUp(disk')
  <2>0. DOMAIN disk'.entries = 1..Len(disk.entries) /\ DOMAIN disk.entries = 1..Len(disk.entries)
    BY <1>0, <1>2, <1>3, FitTypes
  <2>1. OneAtATime(disk')
    <3>1. ASSUME NEW l \in 1..Len(disk.entries) PROVE disk'.entries[l].status # "running"
      <4>1. CASE l = i
        BY <1>2, <1>3, <4>1
      <4>2. CASE l # i
        BY <1>2, <1>3, <4>2
      <4> QED BY <4>1, <4>2
    <3> QED BY <1>0, <1>2, <1>3, <2>0, <3>1 DEF OneAtATime, AddsUp
  <2>2. CASE disk.entries[i].kind = "chat"
    <3>1. disk.entries[i].exchange # None
      BY <1>0, <1>2, <1>3, <2>0, <2>2 DEF AddsUp, ChatsCharged
    <3>2. TurnTo(disk, disk', i)
      BY <1>2, <1>3, <2>2, <3>1 DEF TurnTo
    <3>3. disk'.entries[i].status \in Terminal
      BY <1>2, <1>3 DEF Terminal
    <3>4. disk'.budget = IF ~disk.budget.on THEN disk.budget
                         ELSE IF disk'.entries[i].status = "completed" THEN SettleUsage(disk.budget, <<"turn", i>>)
                         ELSE SettleUncertain(disk.budget)
      BY <1>2, <1>3, <2>2
    <3> QED BY <1>0, <1>2, <1>3, <2>1, <3>1, <3>2, <3>3, <3>4, EndBooks
  <2>3. CASE disk.entries[i].kind # "chat"
    <3>1. disk'.budget = disk.budget /\ disk.entries[i].exchange = None
      BY <1>0, <1>2, <1>3, <2>0, <2>3 DEF AddsUp, ChatsCharged
    <3>2. Len(disk.entries) \in Nat
      BY <1>0, FitTypes
    <3>3. ASSUME NEW l \in 1..Len(disk.entries)
          PROVE  /\ disk'.entries[l].kind = disk.entries[l].kind /\ disk'.entries[l].steering = disk.entries[l].steering
                 /\ disk'.entries[l].exchange = disk.entries[l].exchange
                 /\ \/ disk'.entries[l].status = disk.entries[l].status
                    \/ disk.entries[l].exchange = None /\ disk.entries[l].kind # "chat"
      <4>1. CASE l = i
        BY <1>2, <1>3, <2>3, <3>1, <4>1
      <4>2. CASE l # i
        BY <1>2, <1>3, <4>2
      <4> QED BY <4>1, <4>2
    <3>4. Quietly(disk, disk')
      BY <1>2, <1>3, <3>1, <3>2, <3>3 DEF Quietly
    <3> QED BY <1>0, <1>2, <1>3, <2>1, <3>4, QuietBooks
  <2> QED BY <2>2, <2>3
<1>4. Commits(b)
  BY DEF b
<1> QED BY <1>3, <1>4, BooksStep

LEMMA RecoverBooks ==
    ASSUME SessionInv, SessionInv', BooksInv, Recover
    PROVE  BooksInv'
<1> DEFINE none == OpenAs("turn") \cup OpenAs("side") \cup OpenAs("fork") = {}
           b == IF OpenAs("turn") # {} THEN Interrupted
                ELSE IF OpenAs("side") # {} THEN Abandoned ELSE Unconfirmed
<1>0. /\ alive /\ recovering
      /\ IF none THEN recovering' = FALSE /\ UNCHANGED <<mem, disk, alive, broken>>
         ELSE (Saved(b) \/ Unsaved(b)) /\ UNCHANGED <<alive, recovering>>
      /\ UNCHANGED <<turn, side>>
  BY DEF Recover
<1>1. /\ Fits(mem) /\ ExchangesApart(disk) /\ AddsUp(mem) /\ (~broken => mem = disk)
      /\ turn = Idle /\ side = Idle
  BY <1>0, BooksParts, InvParts DEF Quiet
<1>2. CASE none
  <2>1. \A i \in DOMAIN mem.entries : mem.entries[i].status # "running"
    BY <1>1, <1>2, NothingOpen
  <2>2. \A j \in DOMAIN mem.sides : mem.sides[j].state # "running"
    BY <1>1, <1>2, NothingOpen
  <2>3. mem' = mem /\ disk' = disk /\ broken' = broken /\ turn' = turn
    BY <1>0, <1>2
  <2>4. ASSUME ~broken' PROVE TasksAlone(disk)'
    BY <1>1, <2>1, <2>2, <2>3, <2>4 DEF TasksAlone, Idle
  <2> QED BY <1>1, <2>3, <2>4, BooksStay
<1>3. CASE ~none
  <2>1. Commits(b) /\ recovering' /\ UNCHANGED <<alive, recovering, turn, side>>
    BY <1>0, <1>3 DEF Commits
  <2>2. CASE OpenAs("turn") # {}
    <3>1. Commits(Interrupted)
      BY <2>1, <2>2
    <3> QED BY <2>1, <2>2, <3>1, InterruptedBooks
  <2>3. CASE OpenAs("turn") = {} /\ OpenAs("side") # {}
    <3>1. b = Abandoned
      BY <2>3
    <3>2. PICK j \in DOMAIN mem.sides : mem.sides[j].state = "running"
      BY <1>1, <2>3, NothingOpen
    <3> HIDE DEF b
    <3>3. ASSUME Recorded(b) PROVE Fits(b) /\ j \in 1..Len(mem.sides) /\ SettledTo(b, j, "uncertain")
      <4>1. mem = disk /\ SoundRecord(disk, sent, children)
        BY <3>3, InvParts DEF Recorded
      <4>2. j \in 1..Len(mem.sides) /\ DOMAIN mem.sides = 1..Len(mem.sides)
        BY <1>1, FitTypes
      <4>3. CurrentBudget(mem) = mem.budget
        BY <4>2, BudgetKept
      <4>4. /\ Fits(b) /\ SidesChange(disk, b, sent)
            /\ b.budget = SettleUncertain(CurrentBudget(mem))
            /\ \A l \in 1..Len(mem.sides) :
                 b.sides[l].state = IF mem.sides[l].state = "running" THEN "uncertain" ELSE mem.sides[l].state
        BY <1>1, <2>3, <3>1, <4>1, AbandonedIs
      <4>5. /\ b.entries = mem.entries /\ b.forks = mem.forks /\ b.consumed = mem.consumed
            /\ Len(b.sides) = Len(mem.sides)
        BY <4>1, <4>4 DEF SidesChange
      <4>6. \A l \in 1..Len(mem.sides) : l # j => b.sides[l].state = mem.sides[l].state
        BY <1>1, <3>2, <4>2, <4>4 DEF AddsUp, OneAtATime
      <4> QED BY <3>2, <4>2, <4>3, <4>4, <4>5, <4>6 DEF SettledTo
    <3> QED BY <1>1, <2>1, <3>3, SettledStep
  <2>4. CASE OpenAs("turn") = {} /\ OpenAs("side") = {}
    <3> DEFINE forks == [f \in DOMAIN mem.forks |-> IF mem.forks[f] = "reserved" THEN "uncertain" ELSE mem.forks[f]]
    <3>1. Commits([mem EXCEPT !.forks = forks])
      BY <2>1, <2>4 DEF Unconfirmed
    <3>2. DOMAIN forks = DOMAIN mem.forks
      OBVIOUS
    <3> HIDE DEF forks
    <3> QED BY <2>1, <3>1, <3>2, ForkSettledBooks
  <2> QED BY <2>2, <2>3, <2>4
<1> QED BY <1>2, <1>3

(* The steps that save nothing.                                             *)
LEMMA QuietTasks ==
    ASSUME SessionInv, BooksInv, UNCHANGED <<mem, disk, broken>>,
           alive' /\ ~recovering' => alive /\ ~recovering,
           \/ turn' = turn
           \/ turn.at \in {"admitted", "sent"} /\ turn'.at \in {"admitted", "sent"} /\ turn'.entry = turn.entry
           \/ turn.at \notin {"admitted", "sent"} /\ turn'.at = "idle"
           \/ /\ turn.at \notin {"admitted", "sent"} /\ turn'.at = "scope"
              /\ ~broken => disk.entries[turn'.entry].kind # "chat",
           \/ side' = side
           \/ side.at # "idle" /\ side'.at # "idle" /\ side'.entry = side.entry
    PROVE  BooksInv'
<1>1. ExchangesApart(disk) /\ (alive /\ ~recovering /\ ~broken => TasksAlone(disk))
  BY BooksParts
<1>2. ASSUME alive', ~recovering', ~broken' PROVE TasksAlone(disk)'
  <2>1. TasksAlone(disk) /\ ~broken
    BY <1>1, <1>2
  <2> QED BY <2>1 DEF TasksAlone
<1> QED BY <1>1, <1>2, BooksStay

LEMMA UnsavedSteps ==
    ASSUME SessionInv, BooksInv,
           \/ CheckScope \/ ScopeChanged \/ Send \/ SendSide \/ ProviderEnds \/ PublishFork
           \/ Exit \/ Reopen \/ UNCHANGED vars
    PROVE  BooksInv'
<1>1. CASE CheckScope
  <2>1. /\ UNCHANGED <<mem, disk, broken, alive, recovering, side>> /\ turn = Idle /\ Queued # {}
        /\ turn' = [at |-> "scope", entry |-> First, exchange |-> None]
        /\ mem.entries[First].kind = "git"
    BY <1>1 DEF CheckScope, Selects
  <2>2. ~broken => mem = disk
    BY InvParts
  <2>3. turn'.at = "scope" /\ turn'.entry = First /\ turn.at \notin {"admitted", "sent"}
    BY <2>1 DEF Idle
  <2> HIDE DEF First
  <2>4. ~broken => disk.entries[turn'.entry].kind # "chat"
    BY <2>1, <2>2, <2>3
  <2> QED BY <2>1, <2>3, <2>4, QuietTasks
<1>2. CASE ScopeChanged
  <2>1. /\ UNCHANGED <<mem, disk, broken, alive, recovering, side>> /\ turn.at = "scope" /\ turn'.at = "idle"
    BY <1>2 DEF ScopeChanged, Idle
  <2> QED BY <2>1, QuietTasks
<1>3. CASE Send
  <2>1. /\ UNCHANGED <<mem, disk, broken, alive, recovering, side>> /\ turn.at = "admitted"
        /\ turn' = [turn EXCEPT !.at = "sent"] /\ TasksTyped
    BY <1>3, InvParts DEF Send
  <2>2. turn'.at = "sent" /\ turn'.entry = turn.entry
    BY <2>1 DEF TasksTyped
  <2> QED BY <2>1, <2>2, QuietTasks
<1>4. CASE SendSide
  <2>1. /\ UNCHANGED <<mem, disk, broken, alive, recovering, turn>> /\ side.at = "admitted"
        /\ side' = [side EXCEPT !.at = "sent"] /\ TasksTyped
    BY <1>4, InvParts DEF SendSide
  <2>2. side'.at = "sent" /\ side'.entry = side.entry
    BY <2>1 DEF TasksTyped
  <2> QED BY <2>1, <2>2, QuietTasks
<1>5. CASE ProviderEnds \/ PublishFork \/ UNCHANGED vars
  <2>1. UNCHANGED <<mem, disk, broken, alive, recovering, turn, side>>
    BY <1>5 DEF ProviderEnds, PublishFork, vars
  <2> QED BY <2>1, QuietTasks
<1>6. CASE Exit
  <2>1. mem' = disk /\ disk' = disk /\ alive' = FALSE
    BY <1>6 DEF Exit
  <2> QED BY <2>1, BooksParts, BooksStay
<1>7. CASE Reopen
  <2>1. mem' = mem /\ disk' = disk /\ recovering' = TRUE
    BY <1>7 DEF Reopen
  <2> QED BY <2>1, BooksParts, BooksStay
<1> QED BY <1>1, <1>2, <1>3, <1>4, <1>5, <1>6, <1>7

-----------------------------------------------------------------------------
(* The books are kept, and what they say is what RecordAddsUp asks.         *)

LEMMA InitBooks ==
    ASSUME Init, SessionInv
    PROVE  BooksInv
<1>1. /\ disk.entries = <<>> /\ disk.sides = <<>> /\ disk.forks = <<>> /\ disk.consumed = 0
      /\ disk.budget = NoBudget /\ mem = disk /\ turn = Idle /\ side = Idle
  BY DEF Init
<1>2. DOMAIN disk.entries = {} /\ DOMAIN disk.sides = {} /\ Len(disk.sides) = 0 /\ Len(disk.forks) = 0
  BY <1>1
<1>3. ChatsCharged(disk) /\ SteersCalls(disk) /\ OneAtATime(disk) /\ ExchangesApart(disk)
  BY <1>2 DEF ChatsCharged, SteersCalls, OneAtATime, ExchangesApart
<1>4. TasksAlone(disk)
  BY <1>1, <1>2 DEF TasksAlone, Idle
<1>5. Counted(disk)
  <2>1. Admitted(disk) = {}
    BY <1>2 DEF Admitted
  <2>2. Cardinality(Admitted(disk)) = 0
    BY <2>1, FS_EmptySet
  <2>3. ~disk.budget.on
    BY <1>1 DEF NoBudget
  <2> QED BY <1>1, <1>2, <2>2, <2>3 DEF Counted
<1> QED BY <1>1, <1>3, <1>4, <1>5 DEF BooksInv, AddsUp

LEMMA NextBooks ==
    ASSUME SessionInv, BooksInv, [SessionNext]_vars
    PROVE  BooksInv'
<1>0. SessionInv'
  BY NextKeeps DEF StepSound
<1>1. ASSUME NEW kind \in Kinds, Submit(kind) PROVE BooksInv'
  BY <1>0, <1>1, SubmitBooks
<1>2. CASE CancelQueued
  BY <1>0, <1>2, CancelBooks
<1>3. CASE \/ CheckScope \/ ScopeChanged \/ Send \/ SendSide \/ ProviderEnds \/ PublishFork
           \/ Exit \/ Reopen \/ UNCHANGED vars
  BY <1>3, UnsavedSteps
<1>4. CASE Step
  BY <1>0, <1>4, StepBooks
<1>5. CASE Complete
  <2>1. Usable /\ turn.at = "sent" /\ (TurnEnds("completed", TRUE) \/ TurnEnds("failed", TRUE))
    BY <1>5 DEF Complete
  <2> QED BY <1>0, <2>1, TurnEndsBooks
<1>6. CASE Fail
  <2>1. Usable /\ turn.at \in {"admitted", "sent"} /\ TurnEnds("failed", FALSE)
    BY <1>6 DEF Fail
  <2> QED BY <1>0, <2>1, TurnEndsBooks
<1>7. CASE CancelTurn
  <2>1. ScopeChanged \/ (Usable /\ turn.at \in {"admitted", "sent"} /\ TurnEnds("cancelled", FALSE))
    BY <1>7 DEF CancelTurn
  <2> QED BY <1>0, <2>1, TurnEndsBooks, UnsavedSteps
<1>8. CASE AskSide
  BY <1>0, <1>8, AskSideBooks
<1>9. CASE AnswerSide
  BY <1>0, <1>9, AnswerBooks
<1>10. CASE SideFails
  BY <1>0, <1>10, SideEndsBooks DEF SideFails
<1>11. CASE CancelSide
  BY <1>0, <1>11, SideEndsBooks DEF CancelSide
<1>12. ASSUME NEW j \in 1..Len(mem.sides), ReconcileSide(j) PROVE BooksInv'
  BY <1>0, <1>12, ReconcileBooks
<1>13. ASSUME NEW j \in 1..Len(mem.sides), AttachSide(j) PROVE BooksInv'
  BY <1>0, <1>13, AttachBooks
<1>14. CASE MarkSide
  BY <1>0, <1>14, MarkBooks
<1>15. CASE CreateFork
  BY <1>0, <1>15, CreateForkBooks
<1>16. CASE RecordFork
  BY <1>0, <1>16, RecordForkBooks
<1>17. CASE Recover
  BY <1>0, <1>17, RecoverBooks
<1> QED BY <1>1, <1>2, <1>3, <1>4, <1>5, <1>6, <1>7, <1>8, <1>9, <1>10, <1>11, <1>12, <1>13,
           <1>14, <1>15, <1>16, <1>17 DEF SessionNext

(* The books of the session: in memory and on disk a record adds up, and    *)
(* what runs on record is what the tasks of the controller wait for.        *)
THEOREM BooksAreKept == SessionSpec => []BooksInv
<1>1. Init => SessionInv /\ BooksInv
  BY InitHolds, InitBooks
<1>2. SessionInv /\ BooksInv /\ [SessionNext]_vars => SessionInv' /\ BooksInv'
  BY NextKeeps, NextBooks DEF StepSound
<1>3. Init /\ [][SessionNext]_vars => [](SessionInv /\ BooksInv)
  BY <1>1, <1>2, PTL
<1> QED BY <1>3, PTL DEF SessionSpec

(* One record that adds up.                                                 *)
LEMMA Validates ==
    ASSUME NEW s, Fits(s), AddsUp(s), ExchangesApart(s)
    PROVE  LET chats == {i \in DOMAIN s.entries : s.entries[i].kind = "chat"}
               started == {i \in chats : s.entries[i].status # "queued"}
               targets == {s.entries[i].steering : i \in DOMAIN s.entries}
               dispatched == {i \in started : s.entries[i].status # "cancelled"
                                              \/ i \in targets \/ i \in Admitted(s)}
               used == [k \in Admitted(s) |-> s.entries[k].exchange]
           IN /\ Cardinality(dispatched) + Len(s.sides) <= s.consumed
              /\ s.consumed <= Cardinality(started) + Len(s.sides)
              /\ Cardinality({i \in DOMAIN s.entries : s.entries[i].status = "running"}) <= 1
              /\ \A i \in DOMAIN s.entries : s.entries[i].steering # None =>
                   /\ s.entries[i].steering < i
                   /\ s.entries[i].steering \in started
              /\ \A i \in Admitted(s) :
                   /\ used[i] <= s.consumed
                   /\ \A l \in Admitted(s) : used[i] = used[l] => i = l
                   /\ \A j \in DOMAIN s.sides : used[i] # s.sides[j].exchange
              /\ \A j, l \in DOMAIN s.sides : s.sides[j].exchange = s.sides[l].exchange => j = l
<1> DEFINE chats == {i \in DOMAIN s.entries : s.entries[i].kind = "chat"}
           started == {i \in chats : s.entries[i].status # "queued"}
           targets == {s.entries[i].steering : i \in DOMAIN s.entries}
           dispatched == {i \in started : s.entries[i].status # "cancelled"
                                          \/ i \in targets \/ i \in Admitted(s)}
           used == [k \in Admitted(s) |-> s.entries[k].exchange]
           running == {i \in DOMAIN s.entries : s.entries[i].status = "running"}
<1>1. /\ DOMAIN s.entries = 1..Len(s.entries) /\ Len(s.entries) \in Nat /\ Len(s.sides) \in Nat
      /\ s.consumed \in Nat /\ s.consumed = Cardinality(Admitted(s)) + Len(s.sides)
      /\ IsFiniteSet(Admitted(s)) /\ Cardinality(Admitted(s)) \in Nat
  BY FitTypes, ChargesFinite DEF AddsUp, Counted
<1>2. IsFiniteSet(DOMAIN s.entries)
  <2>1. 1 \in Int /\ Len(s.entries) \in Int
    BY <1>1
  <2>2. IsFiniteSet(1..Len(s.entries))
    BY <2>1, FS_Interval
  <2> QED BY <1>1, <2>2
<1>3. started \subseteq DOMAIN s.entries /\ IsFiniteSet(started)
  <2>1. started \subseteq DOMAIN s.entries
    OBVIOUS
  <2> HIDE DEF started
  <2> QED BY <1>2, <2>1, FS_Subset
<1>4. Admitted(s) \subseteq started
  BY ChargeParts DEF AddsUp, ChatsCharged, Admitted
<1>5. ASSUME NEW i \in DOMAIN s.entries, s.entries[i].steering # None
      PROVE  s.entries[i].steering < i /\ s.entries[i].steering \in Admitted(s)
  <2> DEFINE t == s.entries[i].steering
  <2>1. t < i /\ s.entries[t].exchange # None
    BY <1>5 DEF AddsUp, SteersCalls
  <2>2. t \in Nat /\ i \in 1..Len(s.entries)
    BY <1>1, EntryNumbers
  <2>3. t # 0
    BY <1>5 DEF None
  <2> HIDE DEF t
  <2>4. t \in DOMAIN s.entries
    BY <1>1, <2>1, <2>2, <2>3
  <2> QED BY <2>1, <2>4 DEF Admitted, t
<1>6. dispatched \subseteq Admitted(s)
  <2> SUFFICES ASSUME NEW i \in dispatched PROVE i \in Admitted(s)
    OBVIOUS
  <2>1. /\ i \in DOMAIN s.entries /\ s.entries[i].kind = "chat" /\ s.entries[i].status # "queued"
        /\ s.entries[i].status # "cancelled" \/ i \in targets \/ i \in Admitted(s)
    OBVIOUS
  <2>2. CASE s.entries[i].status # "cancelled"
    BY <2>1, <2>2 DEF AddsUp, ChatsCharged, Admitted
  <2>3. CASE i \in targets
    <3>1. PICK l \in DOMAIN s.entries : s.entries[l].steering = i
      BY <2>3
    <3>2. i # None
      BY <1>1, <2>1 DEF None
    <3> QED BY <1>5, <3>1, <3>2
  <2> QED BY <2>1, <2>2, <2>3
<1>7. Cardinality(running) <= 1
  <2>1. CASE running = {}
    <3>1. Cardinality(running) = 0
      BY <2>1, FS_EmptySet
    <3> QED BY <3>1
  <2>2. CASE running # {}
    <3>1. PICK i \in running : TRUE
      BY <2>2
    <3>2. running = {i}
      BY <3>1 DEF AddsUp, OneAtATime
    <3> HIDE DEF running
    <3>3. Cardinality(running) = 1
      BY <3>2, FS_Singleton
    <3> QED BY <3>3
  <2> QED BY <2>1, <2>2
<1>8. Cardinality(dispatched) + Len(s.sides) <= s.consumed /\ s.consumed <= Cardinality(started) + Len(s.sides)
  <2> HIDE DEF dispatched, started
  <2>1. Cardinality(dispatched) <= Cardinality(Admitted(s)) /\ IsFiniteSet(dispatched)
    BY <1>1, <1>6, FS_Subset
  <2>2. Cardinality(Admitted(s)) <= Cardinality(started)
    BY <1>3, <1>4, FS_Subset
  <2>3. Cardinality(dispatched) \in Nat /\ Cardinality(started) \in Nat
    BY <1>3, <2>1, FS_CardinalityType
  <2> QED BY <1>1, <2>1, <2>2, <2>3
<1>9. \A i \in Admitted(s) :
        /\ used[i] <= s.consumed
        /\ \A l \in Admitted(s) : used[i] = used[l] => i = l
        /\ \A j \in DOMAIN s.sides : used[i] # s.sides[j].exchange
  BY DEF ExchangesApart, Admitted
<1>10. \A j, l \in DOMAIN s.sides : s.sides[j].exchange = s.sides[l].exchange => j = l
  BY DEF ExchangesApart
<1>11. \A i \in DOMAIN s.entries : s.entries[i].steering # None =>
         s.entries[i].steering < i /\ s.entries[i].steering \in started
  BY <1>4, <1>5
<1> QED BY <1>7, <1>8, <1>9, <1>10, <1>11

(* The record and its budget add up, in memory and on disk, whatever fails  *)
(* to save or ends: the validator that opens a session accepts every record *)
(* the controller builds, and its branch budget counts every exchange, fork *)
(* and unresolved attempt, never above the ceiling (conversation_state.py   *)
(* valid_progress, conversation_branch_controller.py).                      *)
THEOREM RecordAlwaysAddsUp == SessionSpec => []RecordAddsUp
<1>1. ASSUME SessionInv, BooksInv PROVE RecordAddsUp
  <2>1. \A s \in {mem, disk} : Fits(s) /\ AddsUp(s) /\ ExchangesApart(s)
    BY <1>1, BooksParts DEF BooksInv
  <2>2. ValidatorAccepts
    BY <2>1, Validates DEF ValidatorAccepts
  <2>3. ExposureAccounted
    <3> SUFFICES ASSUME NEW s \in {mem, disk}, s.budget.on
                 PROVE  /\ s.budget.attempts = s.consumed + Len(s.forks) /\ s.budget.attempts <= Attempts
                        /\ s.budget.uncertain = Cardinality(Unresolved(s))
                        /\ s.budget.pending = OpenCharges(s) \cup Unresolved(s)
      BY DEF ExposureAccounted
    <3>1. Tells(s.budget, s)
      BY <2>1 DEF AddsUp, Counted
    <3> QED BY <3>1 DEF Tells, Tally
  <2> QED BY <2>2, <2>3 DEF RecordAddsUp
<1> QED BY <1>1, SessionInvariant, BooksAreKept, PTL
===============================================================================
