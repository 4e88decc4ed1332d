---------------------- MODULE ScheduleControllerProofs ----------------------
(***************************************************************************)
(* Stopping wins, and wakeups are accounted for, with any number of        *)
(* schedules, fires, attempts and messages: StopsHold and WakeupsAccounted *)
(* are invariants of ScheduleController.                                   *)
(*                                                                         *)
(* Neither is inductive.  That a revoked wakeup is never sent rests on     *)
(* three facts about the steps in between: after recovery no revoked       *)
(* wakeup is queued, a turn has one running message, and a message that    *)
(* was revoked after it started belongs to a schedule that is not active,  *)
(* which the third check sees.  The last one needs that no schedule is     *)
(* resumed during a turn.  That the wakeups which never started fit the    *)
(* allowance rests on the exposure a reservation is checked against: no    *)
(* step but a reservation adds a hold, and a start gives up the hold of    *)
(* the message whose attempt it takes.                                     *)
(***************************************************************************)
EXTENDS ScheduleController, TLAPS, SequenceTheorems, FiniteSetTheorems

-----------------------------------------------------------------------------
(* What a record says by itself.                                           *)

Doubtful(rec) == \E k \in DOMAIN rec.fires : rec.fires[k].state = "uncertain"

(* The record's own invariant. *)
Sound(rec) ==
    /\ rec \in Records
    /\ NotifiedBy(rec.fires) + rec.pending <= rec.cursor
    /\ Len(rec.fires) <= MaxFires
    /\ \A k, l \in Held(rec) : k = l
    /\ Doubtful(rec) => rec.doubts > 0 /\ rec.status # "active"

(* What no operation on a record takes back: its fires keep their number   *)
(* and place, and only AddSchedule and ResumeSchedule make one active.     *)
Placed(rec, new) ==
    /\ Len(new.fires) = Len(rec.fires)
    /\ \A k \in DOMAIN rec.fires : new.fires[k].at = rec.fires[k].at

Keeps(rec, new) ==
    /\ Placed(rec, new)
    /\ rec.status # "active" => new.status # "active"

LEMMA Constants ==
    /\ MaxFires \in Nat /\ Attempts \in Nat /\ MaxEvents \in Nat /\ MaxEntries \in Nat
    /\ User \notin Schedules /\ Pinned \subseteq Schedules /\ IsFiniteSet(Schedules)
BY ScheduleAssumption

LEMMA SequenceOf ==
    ASSUME NEW S, NEW n \in Nat, NEW f \in [1..n -> S]
    PROVE  f \in Seq(S) /\ Len(f) = n /\ DOMAIN f = 1..n
OBVIOUS

LEMMA Appended ==
    ASSUME NEW S, NEW q, q \in Seq(S), NEW x \in S
    PROVE  LET new == Append(q, x)  n == Len(q) + 1 IN
           /\ new \in Seq(S) /\ DOMAIN new = 1..n /\ DOMAIN q = 1..Len(q)
           /\ Len(q) \in Nat /\ Len(new) = n /\ new[n] = x
           /\ \A k \in DOMAIN q : new[k] = q[k]
           /\ \A k \in DOMAIN new : k = n \/ k \in DOMAIN q
BY AppendProperties, LenProperties

(* The notifications the fires took: a count that only the number of the   *)
(* fires and their events decide, and that a new fire raises by its own.   *)
Took(fires) ==
    {took \in (DOMAIN fires) \X (1..MaxEvents) : took[2] <= fires[took[1]].events}

LEMMA NotifiedCounts ==
    ASSUME NEW fires, fires \in Seq(Fires)
    PROVE  IsFiniteSet(Took(fires)) /\ NotifiedBy(fires) = Cardinality(Took(fires))
           /\ NotifiedBy(fires) \in Nat
<1>1. IsFiniteSet((DOMAIN fires) \X (1..MaxEvents))
  <2>1. DOMAIN fires = 1..Len(fires) /\ Len(fires) \in Nat
    BY LenProperties
  <2>2. IsFiniteSet(DOMAIN fires) /\ IsFiniteSet(1..MaxEvents)
    BY <2>1, Constants, FS_Interval
  <2> QED BY <2>2, FS_Product
<1>2. Took(fires) \subseteq (DOMAIN fires) \X (1..MaxEvents)
  BY DEF Took
<1>3. IsFiniteSet(Took(fires))
  BY <1>1, <1>2, FS_Subset
<1>4. NotifiedBy(fires) = Cardinality(Took(fires))
  BY DEF NotifiedBy, Took
<1> QED BY <1>3, <1>4, FS_CardinalityType

LEMMA UpTo ==
    ASSUME NEW n \in Nat
    PROVE  IsFiniteSet(1..n) /\ Cardinality(1..n) = n
<1>1. IsFiniteSet(1..n) /\ Cardinality(1..n) = IF 1 > n THEN 0 ELSE n - 1 + 1
  BY FS_Interval
<1> QED BY <1>1

LEMMA NotifiedNone == NotifiedBy(<<>>) = 0
<1>1. DOMAIN <<>> = {}
  OBVIOUS
<1>2. Took(<<>>) = {}
  BY <1>1 DEF Took
<1>3. NotifiedBy(<<>>) = Cardinality({})
  BY <1>2 DEF NotifiedBy, Took
<1> QED BY <1>3, FS_EmptySet

LEMMA NotifiedSame ==
    ASSUME NEW fires, NEW new, DOMAIN new = DOMAIN fires,
           \A k \in DOMAIN fires : new[k].events = fires[k].events
    PROVE  NotifiedBy(new) = NotifiedBy(fires)
<1>1. \A took \in (DOMAIN fires) \X (1..MaxEvents) : took[1] \in DOMAIN fires
  OBVIOUS
<1>2. Took(new) = Took(fires)
  BY <1>1 DEF Took
<1> QED BY <1>2 DEF NotifiedBy, Took

LEMMA NotifiedMore ==
    ASSUME NEW fires, fires \in Seq(Fires), NEW fire \in Fires
    PROVE  NotifiedBy(Append(fires, fire)) <= NotifiedBy(fires) + fire.events
<1> DEFINE new == Append(fires, fire)
           n == Len(fires) + 1
           own == {n} \X (1..fire.events)
<1>1. /\ new \in Seq(Fires) /\ DOMAIN new = 1..n /\ DOMAIN fires = 1..Len(fires)
      /\ Len(fires) \in Nat /\ new[n] = fire
      /\ \A k \in DOMAIN fires : new[k] = fires[k]
      /\ \A k \in DOMAIN new : k = n \/ k \in DOMAIN fires
  BY AppendProperties, LenProperties
<1>2. fire.events \in Nat /\ fire.events <= MaxEvents
  BY Constants DEF Fires
<1> HIDE DEF new
<1>3. ASSUME NEW took \in Took(new)
      PROVE  took \in Took(fires) \cup own
  <2>1. took \in (DOMAIN new) \X (1..MaxEvents) /\ took[2] <= new[took[1]].events
    BY DEF Took
  <2>2. PICK k \in DOMAIN new, e \in 1..MaxEvents : took = <<k, e>> /\ e <= new[k].events
    BY <2>1
  <2>3. CASE k = n
    BY <1>1, <1>2, <2>2, <2>3
  <2>4. CASE k \in DOMAIN fires
    BY <1>1, <2>2, <2>4 DEF Took
  <2> QED BY <1>1, <2>3, <2>4
<1>4. IsFiniteSet(own) /\ Cardinality(own) = fire.events
  <2>1. IsFiniteSet({n}) /\ Cardinality({n}) = 1
    BY FS_Singleton
  <2>2. IsFiniteSet(1..fire.events) /\ Cardinality(1..fire.events) = fire.events
    BY <1>2, UpTo
  <2>3. IsFiniteSet(own) /\ Cardinality(own) = Cardinality({n}) * Cardinality(1..fire.events)
    BY <2>1, <2>2, FS_Product
  <2> QED BY <1>2, <2>1, <2>2, <2>3
<1> HIDE DEF own
<1>5. IsFiniteSet(Took(fires)) /\ IsFiniteSet(Took(new))
      /\ NotifiedBy(fires) = Cardinality(Took(fires)) /\ NotifiedBy(fires) \in Nat
      /\ NotifiedBy(new) = Cardinality(Took(new)) /\ NotifiedBy(new) \in Nat
  BY <1>1, NotifiedCounts
<1>6. /\ IsFiniteSet(Took(fires) \cup own)
      /\ Cardinality(Took(fires) \cup own)
           = Cardinality(Took(fires)) + Cardinality(own) - Cardinality(Took(fires) \cap own)
  BY <1>4, <1>5, FS_Union
<1>7. Cardinality(Took(fires) \cap own) \in Nat
  <2>1. IsFiniteSet(Took(fires) \cap own)
    BY <1>5, FS_Subset
  <2> QED BY <2>1, FS_CardinalityType
<1>8. Cardinality(Took(new)) <= Cardinality(Took(fires) \cup own)
  BY <1>3, <1>6, FS_Subset
<1> QED BY <1>2, <1>4, <1>5, <1>6, <1>7, <1>8 DEF new

(* A sound record counts. *)
LEMMA SoundCounts ==
    ASSUME NEW rec, Sound(rec)
    PROVE  /\ NotifiedBy(rec.fires) \in Nat /\ rec.pending \in Nat /\ rec.cursor \in Nat
           /\ NotifiedBy(rec.fires) + rec.pending <= rec.cursor
<1>1. rec.fires \in Seq(Fires) /\ rec.pending \in Nat /\ rec.cursor \in Nat
  BY DEF Sound, Records
<1>2. NotifiedBy(rec.fires) \in Nat
  BY <1>1, NotifiedCounts
<1> QED BY <1>1, <1>2 DEF Sound

(* Settling fires gives a sequence of fires at the same places. *)
LEMMA SettleFires ==
    ASSUME NEW rec \in Records, NEW K,
           NEW state \in {"completed", "uncertain", "skipped"}
    PROVE  LET new == Settle(rec, K, state) IN
           /\ new \in Records
           /\ new = [rec EXCEPT !.fires = new.fires]
           /\ Len(new.fires) = Len(rec.fires)
           /\ DOMAIN new.fires = DOMAIN rec.fires
           /\ \A k \in DOMAIN rec.fires :
                /\ new.fires[k].at = rec.fires[k].at
                /\ new.fires[k].events = rec.fires[k].events
                /\ k \in K => new.fires[k].state = state
                /\ k \notin K => new.fires[k] = rec.fires[k]
           /\ NotifiedBy(new.fires) = NotifiedBy(rec.fires)
<1> DEFINE fires == [k \in DOMAIN rec.fires |->
               IF k \in K THEN [rec.fires[k] EXCEPT !.state = state] ELSE rec.fires[k]]
<1>1. rec.fires \in Seq(Fires)
  BY DEF Records
<1>2. DOMAIN rec.fires = 1..Len(rec.fires) /\ Len(rec.fires) \in Nat
  BY <1>1, LenProperties
<1>3. \A k \in DOMAIN rec.fires : rec.fires[k] \in Fires
  BY <1>1, <1>2, ElementOfSeq
<1>4. fires \in Seq(Fires) /\ Len(fires) = Len(rec.fires)
  <2>1. \A k \in DOMAIN rec.fires : [rec.fires[k] EXCEPT !.state = state] \in Fires
    BY <1>3 DEF Fires
  <2>2. fires \in [1..Len(rec.fires) -> Fires]
    BY <1>2, <1>3, <2>1
  <2> HIDE DEF fires
  <2> QED BY <1>2, <2>2, SequenceOf
<1>5. Len(fires) = Len(rec.fires)
  BY <1>4
<1>6. Settle(rec, K, state) = [rec EXCEPT !.fires = fires]
  BY DEF Settle
<1>7. [rec EXCEPT !.fires = fires].fires = fires
  BY DEF Records
<1>8. [rec EXCEPT !.fires = fires] \in Records
  BY <1>4 DEF Records
<1>9. \A k \in DOMAIN rec.fires :
          /\ fires[k].at = rec.fires[k].at
          /\ fires[k].events = rec.fires[k].events
          /\ k \in K => fires[k].state = state
          /\ k \notin K => fires[k] = rec.fires[k]
  BY <1>3 DEF Fires
<1>10. DOMAIN fires = DOMAIN rec.fires
  OBVIOUS
<1> HIDE DEF fires
<1>11. NotifiedBy(fires) = NotifiedBy(rec.fires)
  BY <1>9, <1>10, NotifiedSame
<1> QED BY <1>5, <1>6, <1>7, <1>8, <1>9, <1>10, <1>11

(* Looking at the clock. *)
LEMMA ObservedSound ==
    ASSUME NEW rec, Sound(rec), NEW reading
    PROVE  LET new == Observed(rec, reading) IN
           /\ Sound(new) /\ Keeps(rec, new)
           /\ new.fires = rec.fires /\ new.doubts = rec.doubts
           /\ rec.status \in Terminal => new = rec
<1>1. LET new == Observed(rec, reading) IN
      /\ new \in Records /\ new.fires = rec.fires /\ new.doubts = rec.doubts
      /\ NotifiedBy(rec.fires) + new.pending <= new.cursor
      /\ rec.status \in Terminal => new = rec
      /\ rec.status # "active" => new.status # "active"
  <2>1. CASE rec.status \in Terminal
    BY <2>1 DEF Observed, Sound
  <2>2. CASE rec.status \notin Terminal /\ reading = "back"
    BY <2>2 DEF Observed, Sound, Records, Statuses
  <2>3. CASE rec.status \notin Terminal /\ reading # "back" /\ reading = "late"
    <3>1. 0 \in 0..MaxEvents /\ FALSE \in BOOLEAN /\ "expired" \in Statuses
      BY Constants DEF Statuses
    <3>2. Observed(rec, reading) = [rec EXCEPT !.status = "expired", !.timer = FALSE, !.pending = 0]
      BY <2>3 DEF Observed
    <3>3. NotifiedBy(rec.fires) + 0 <= rec.cursor
      BY SoundCounts
    <3> QED BY <2>3, <3>1, <3>2, <3>3 DEF Sound, Records
  <2>4. CASE rec.status \notin Terminal /\ reading # "back" /\ reading # "late"
    <3> DEFINE timer == rec.timer \/ (rec.status = "active" /\ reading = "due")
    <3>1. Observed(rec, reading) = [rec EXCEPT !.timer = timer]
      BY <2>4 DEF Observed
    <3>2. timer \in BOOLEAN
      OBVIOUS
    <3> HIDE DEF timer
    <3> QED BY <2>4, <3>1, <3>2 DEF Sound, Records
  <2> QED BY <2>1, <2>2, <2>3, <2>4
<1> QED BY <1>1 DEF Sound, Keeps, Placed, Doubtful, Held

(* A notification. *)
LEMMA NotifiedSound ==
    ASSUME NEW rec, Sound(rec), NEW n \in 1..MaxEvents
    PROVE  LET new == Notified(rec, n) IN
           Sound(new) /\ Keeps(rec, new) /\ new.fires = rec.fires
<1>1. LET new == Notified(rec, n) IN
      /\ new \in Records /\ new.fires = rec.fires /\ new.doubts = rec.doubts
      /\ NotifiedBy(rec.fires) + new.pending <= new.cursor /\ new.status = rec.status
  <2>1. CASE rec.status # "active" \/ n <= rec.cursor
    BY <2>1 DEF Notified, Sound
  <2>2. CASE rec.status = "active" /\ n > rec.cursor
    <3>0. /\ NotifiedBy(rec.fires) \in Nat /\ rec.pending \in Nat /\ rec.cursor \in Nat
          /\ NotifiedBy(rec.fires) + rec.pending <= rec.cursor
      BY SoundCounts
    <3>1. /\ rec.pending + 1 \in 0..MaxEvents
          /\ NotifiedBy(rec.fires) + (rec.pending + 1) <= n
      BY <2>2, <3>0, Constants
    <3>2. n \in 0..MaxEvents
      BY Constants
    <3>3. Notified(rec, n) = [rec EXCEPT !.pending = rec.pending + 1, !.cursor = n]
      BY <2>2 DEF Notified, Sound, Records
    <3> QED BY <3>1, <3>2, <3>3 DEF Sound, Records
  <2>3. rec.cursor \in Int /\ n \in Int
    BY DEF Sound, Records
  <2> QED BY <2>1, <2>2, <2>3
<1> QED BY <1>1 DEF Sound, Keeps, Placed, Doubtful, Held

(* Settling some fires as known, and leaving the status or stopping. *)
LEMMA SettledSound ==
    ASSUME NEW rec, Sound(rec), NEW K,
           NEW state \in {"completed", "skipped"}, NEW status \in Statuses,
           status # rec.status => status # "active"
    PROVE  LET new == [Settle(rec, K, state) EXCEPT !.status = status] IN
           /\ Sound(new) /\ Keeps(rec, new)
           /\ new.fires = Settle(rec, K, state).fires /\ new.status = status
<1> DEFINE mid == Settle(rec, K, state)
           new == [mid EXCEPT !.status = status]
<1>0. rec \in Records
  BY DEF Sound
<1>1. /\ mid \in Records /\ mid = [rec EXCEPT !.fires = mid.fires]
      /\ Len(mid.fires) = Len(rec.fires) /\ DOMAIN mid.fires = DOMAIN rec.fires
      /\ \A k \in DOMAIN rec.fires :
           /\ mid.fires[k].at = rec.fires[k].at
           /\ k \in K => mid.fires[k].state = state
           /\ k \notin K => mid.fires[k] = rec.fires[k]
      /\ NotifiedBy(mid.fires) = NotifiedBy(rec.fires)
  BY <1>0, SettleFires
<1> HIDE DEF mid
<1>2. /\ new \in Records /\ new.fires = mid.fires /\ new.status = status
      /\ new.pending = mid.pending /\ new.cursor = mid.cursor /\ new.doubts = mid.doubts
  BY <1>1 DEF Records
<1>3. mid.pending = rec.pending /\ mid.cursor = rec.cursor /\ mid.doubts = rec.doubts
  BY <1>0, <1>1 DEF Records
<1> HIDE DEF new
<1>4. Held(new) \subseteq Held(rec)
  BY <1>1, <1>2 DEF Held
<1>5. Doubtful(new) => Doubtful(rec)
  BY <1>1, <1>2 DEF Doubtful
<1>6. rec.status # "active" => status # "active"
  OBVIOUS
<1>7. Sound(new)
  BY <1>1, <1>2, <1>3, <1>4, <1>5, <1>6 DEF Sound
<1>8. Keeps(rec, new)
  BY <1>1, <1>2, <1>6 DEF Keeps, Placed
<1> QED BY <1>2, <1>7, <1>8 DEF new, mid

LEMMA SkippedSound ==
    ASSUME NEW rec, Sound(rec), NEW K
    PROVE  LET new == Skipped(rec, K) IN
           /\ Sound(new) /\ Keeps(rec, new)
           /\ \A k \in DOMAIN rec.fires :
                /\ k \in K => new.fires[k].state = "skipped"
                /\ k \notin K => new.fires[k] = rec.fires[k]
           /\ K # {} => new.status # "active"
           /\ K = {} => new = rec
<1>1. CASE K = {}
  BY <1>1 DEF Skipped, Keeps, Placed, Sound
<1>2. CASE K # {}
  <2> DEFINE mid == Settle(rec, K, "skipped")
             status == IF rec.status = "active" THEN "paused" ELSE rec.status
             new == [mid EXCEPT !.status = status]
  <2>0. rec \in Records
    BY DEF Sound
  <2>1. /\ mid = [rec EXCEPT !.fires = mid.fires]
        /\ mid \in Records
        /\ \A k \in DOMAIN rec.fires :
             /\ k \in K => mid.fires[k].state = "skipped"
             /\ k \notin K => mid.fires[k] = rec.fires[k]
    BY <2>0, SettleFires
  <2>2. mid.status = rec.status
    <3> HIDE DEF mid
    <3> QED BY <2>0, <2>1 DEF Records
  <2>3. status \in Statuses /\ status # "active" /\ (status # rec.status => status # "active")
    BY <2>0 DEF Statuses, Records
  <2>4. Skipped(rec, K) = new
    BY <1>2, <2>2 DEF Skipped
  <2> HIDE DEF status
  <2>5. Sound(new) /\ Keeps(rec, new) /\ new.fires = mid.fires /\ new.status = status
    BY <2>3, SettledSound
  <2> HIDE DEF mid, new
  <2> QED BY <1>2, <2>1, <2>3, <2>4, <2>5
<1> QED BY <1>1, <1>2

LEMMA CompletedSound ==
    ASSUME NEW rec, Sound(rec)
    PROVE  LET new == Completed(rec, Held(rec)) IN
           /\ Sound(new) /\ Keeps(rec, new)
           /\ \A k \in DOMAIN rec.fires :
                /\ k \in Held(rec) => new.fires[k].state = "completed"
                /\ k \notin Held(rec) => new.fires[k] = rec.fires[k]
<1> DEFINE mid == Settle(rec, Held(rec), "completed")
           status == IF rec.status = "active" /\ Len(rec.fires) >= MaxFires
                     THEN "exhausted" ELSE rec.status
           new == [mid EXCEPT !.status = status]
<1>0. rec \in Records
  BY DEF Sound
<1>1. /\ mid = [rec EXCEPT !.fires = mid.fires]
      /\ mid \in Records
      /\ \A k \in DOMAIN rec.fires :
           /\ k \in Held(rec) => mid.fires[k].state = "completed"
           /\ k \notin Held(rec) => mid.fires[k] = rec.fires[k]
  BY <1>0, SettleFires
<1>2. mid.status = rec.status
  <2> HIDE DEF mid
  <2> QED BY <1>0, <1>1 DEF Records
<1>3. status \in Statuses /\ (status # rec.status => status # "active")
  BY <1>0 DEF Statuses, Records
<1>4. Completed(rec, Held(rec)) = new
  BY <1>2 DEF Completed
<1> HIDE DEF status
<1>5. Sound(new) /\ Keeps(rec, new) /\ new.fires = mid.fires
  BY <1>3, SettledSound
<1> HIDE DEF mid, new
<1> QED BY <1>1, <1>4, <1>5

(* Recovery, and the end of a turn that is not known to have completed. *)
LEMMA RecoveredSound ==
    ASSUME NEW rec, Sound(rec), NEW reading,
           Exposure \in Nat, goal.unsure \in BOOLEAN
    PROVE  LET new == Recovered(rec, reading) IN
           /\ Sound(new) /\ Keeps(rec, new) /\ new.status # "active"
           /\ \A k \in DOMAIN rec.fires :
                /\ k \in Held(rec) => new.fires[k].state = "uncertain"
                /\ k \notin Held(rec) => new.fires[k] = rec.fires[k]
<1> DEFINE seen == Observed(rec, reading)
           mid == Settle(seen, Held(seen), "uncertain")
           stopped == IF seen.status = "cancelled" THEN "cancelled" ELSE "uncertain"
           doubted == [mid EXCEPT !.doubts = mid.doubts + 1, !.status = stopped]
           left == IF Held(seen) = {} THEN seen ELSE doubted
           waits == [left EXCEPT !.status = "paused",
                                 !.exposure = Upper(left.exposure, Exposure),
                                 !.tainted = left.tainted \/ goal.unsure]
           new == IF left.status \in Terminal THEN left ELSE waits
<1>1. /\ Sound(seen) /\ Keeps(rec, seen) /\ seen.fires = rec.fires
      /\ Held(seen) = Held(rec)
  BY ObservedSound DEF Held
<1> HIDE DEF seen
<1>2. /\ mid \in Records /\ mid = [seen EXCEPT !.fires = mid.fires]
      /\ Len(mid.fires) = Len(rec.fires) /\ DOMAIN mid.fires = DOMAIN rec.fires
      /\ \A k \in DOMAIN rec.fires :
           /\ mid.fires[k].at = rec.fires[k].at
           /\ k \in Held(rec) => mid.fires[k].state = "uncertain"
           /\ k \notin Held(rec) => mid.fires[k] = rec.fires[k]
      /\ NotifiedBy(mid.fires) = NotifiedBy(rec.fires)
  <2>1. seen \in Records
    BY <1>1 DEF Sound
  <2> QED BY <1>1, <2>1, SettleFires
<1> HIDE DEF mid
<1>3. /\ mid.status = seen.status /\ mid.pending = seen.pending
      /\ mid.cursor = seen.cursor /\ mid.doubts = seen.doubts
  BY <1>1, <1>2 DEF Sound, Records
<1>4. stopped \in Statuses /\ stopped \in Terminal
  BY DEF Statuses, Terminal
<1>5. Recovered(rec, reading) = new
  BY <1>3 DEF Recovered, seen, mid
<1>6. CASE Held(rec) # {}
  <2> HIDE DEF stopped
  <2>1. /\ doubted \in Records /\ doubted.fires = mid.fires /\ doubted.status = stopped
        /\ doubted.pending = seen.pending /\ doubted.cursor = seen.cursor
        /\ doubted.doubts = seen.doubts + 1 /\ seen.doubts \in Nat
    <3>1. seen.doubts \in Nat /\ mid.doubts + 1 \in Nat /\ mid.doubts + 1 = seen.doubts + 1
      BY <1>1, <1>3 DEF Sound, Records
    <3> QED BY <1>2, <1>3, <1>4, <3>1 DEF Records
  <2>2. left = doubted
    BY <1>1, <1>6
  <2> HIDE DEF doubted, left
  <2>3. new = doubted /\ stopped # "active"
    BY <1>4, <2>1, <2>2 DEF Terminal
  <2>4. Held(doubted) = {}
    BY <1>1, <1>2, <2>1 DEF Held
  <2>5. Sound(doubted)
    BY <1>1, <1>2, <2>1, <2>3, <2>4 DEF Sound
  <2> HIDE DEF new
  <2>6. Keeps(rec, doubted)
    BY <1>2, <2>1, <2>3 DEF Keeps, Placed
  <2> QED BY <1>2, <1>5, <2>1, <2>3, <2>5, <2>6
<1>7. CASE Held(rec) = {}
  <2>1. left = seen
    BY <1>1, <1>7
  <2> HIDE DEF left
  <2>2. CASE seen.status \in Terminal
    <3>1. new = seen /\ seen.status # "active"
      BY <2>1, <2>2 DEF Terminal
    <3> HIDE DEF new
    <3> QED BY <1>1, <1>5, <1>7, <3>1
  <2>3. CASE seen.status \notin Terminal
    <3> DEFINE tainted == seen.tainted \/ goal.unsure
    <3>1. Upper(seen.exposure, Exposure) \in Nat
      BY <1>1 DEF Upper, Sound, Records
    <3>2. tainted \in BOOLEAN
      OBVIOUS
    <3>3. new = [seen EXCEPT !.status = "paused", !.exposure = Upper(seen.exposure, Exposure),
                             !.tainted = tainted]
      BY <2>1, <2>3
    <3> HIDE DEF new, tainted
    <3>4. /\ new \in Records /\ new.fires = rec.fires /\ new.status = "paused"
          /\ new.pending = seen.pending /\ new.cursor = seen.cursor
          /\ new.doubts = seen.doubts
      BY <1>1, <3>1, <3>2, <3>3 DEF Sound, Records, Statuses
    <3>5. Sound(new) /\ Keeps(rec, new)
      BY <1>1, <3>4 DEF Sound, Keeps, Placed, Doubtful, Held
    <3> QED BY <1>5, <1>7, <3>4, <3>5
  <2> QED BY <2>2, <2>3
<1> QED BY <1>6, <1>7

(* A reservation stops the record, leaves it, or adds one held fire for    *)
(* the next message.                                                       *)
LEMMA ReservationSound ==
    ASSUME NEW rec, Sound(rec), rec.status = "active",
           Exposure \in Nat, Len(entries) \in Nat, Len(entries) < MaxEntries
    PROVE  LET new == Reservation(rec) IN
           /\ Sound(new)
           /\ \/ new.fires = rec.fires
              \/ /\ Held(rec) = {} /\ new.status = "active"
                 /\ goal.status = "working" /\ Upper(rec.exposure, Exposure) + 1 <= Attempts
                 /\ new.fires = Append(rec.fires, [state |-> "reserved",
                                        at |-> Len(entries) + 1, events |-> rec.pending])
<1> DEFINE new == Reservation(rec)
           fire == [state |-> "reserved", at |-> Len(entries) + 1, events |-> rec.pending]
           fires == Append(rec.fires, fire)
<1>0. /\ rec \in Records /\ rec.fires \in Seq(Fires) /\ rec.pending \in 0..MaxEvents
      /\ 0 \in 0..MaxEvents /\ FALSE \in BOOLEAN /\ rec.cursor \in 0..MaxEvents
      /\ rec.exposure \in Nat /\ rec.cursor \in Nat
  BY Constants DEF Sound, Records
<1>6. NotifiedBy(rec.fires) \in Nat /\ NotifiedBy(rec.fires) + 0 <= rec.cursor
       /\ NotifiedBy(rec.fires) + rec.pending <= rec.cursor
  BY SoundCounts
<1>1. CASE rec.tainted
  <2>1. new = [rec EXCEPT !.status = "uncertain"]
    BY <1>1 DEF Reservation
  <2> HIDE DEF new
  <2>2. new \in Records /\ new.fires = rec.fires /\ new.status = "uncertain"
        /\ new.pending = rec.pending /\ new.cursor = rec.cursor /\ new.doubts = rec.doubts
    BY <1>0, <2>1 DEF Records, Statuses
  <2> QED BY <2>2 DEF Sound, Doubtful, Held, new
<1>2. CASE ~rec.tainted /\ (goal.status # "working" \/ rec.doubts > 0)
  <2>1. new = [rec EXCEPT !.status = "paused"]
    BY <1>2 DEF Reservation
  <2> HIDE DEF new
  <2>2. new \in Records /\ new.fires = rec.fires /\ new.status = "paused"
        /\ new.pending = rec.pending /\ new.cursor = rec.cursor /\ new.doubts = rec.doubts
    BY <1>0, <2>1 DEF Records, Statuses
  <2> QED BY <2>2 DEF Sound, Doubtful, Held, new
<1>3. CASE /\ ~rec.tainted /\ ~(goal.status # "working" \/ rec.doubts > 0)
           /\ Held(rec) # {}
  BY <1>3 DEF Reservation
<1>4. CASE /\ ~rec.tainted /\ ~(goal.status # "working" \/ rec.doubts > 0)
           /\ Held(rec) = {}
           /\ Len(rec.fires) >= MaxFires \/ Upper(rec.exposure, Exposure) + 1 > Attempts
  <2>1. new = [rec EXCEPT !.status = "exhausted", !.timer = FALSE, !.pending = 0]
    BY <1>4 DEF Reservation
  <2> HIDE DEF new
  <2>2. new \in Records /\ new.fires = rec.fires /\ new.status = "exhausted"
        /\ new.pending = 0 /\ new.cursor = rec.cursor /\ new.doubts = rec.doubts
    BY <1>0, <2>1 DEF Records, Statuses
  <2> QED BY <1>0, <1>6, <2>2 DEF Sound, Doubtful, Held, new
<1>5. CASE /\ ~rec.tainted /\ ~(goal.status # "working" \/ rec.doubts > 0)
           /\ Held(rec) = {}
           /\ ~(Len(rec.fires) >= MaxFires \/ Upper(rec.exposure, Exposure) + 1 > Attempts)
  <2>1. Upper(rec.exposure, Exposure) \in Nat
    BY <1>0 DEF Upper
  <2>2. fire \in Fires
    BY <1>0, Constants DEF Fires
  <2>3. new = [rec EXCEPT !.timer = FALSE, !.pending = 0,
                          !.exposure = Upper(rec.exposure, Exposure) + 1, !.fires = fires]
    BY <1>5 DEF Reservation
  <2> HIDE DEF fire
  <2>4. /\ fires \in Seq(Fires) /\ Len(fires) = Len(rec.fires) + 1
        /\ DOMAIN fires = 1..Len(rec.fires) + 1 /\ DOMAIN rec.fires = 1..Len(rec.fires)
        /\ fires[Len(rec.fires) + 1] = fire /\ Len(rec.fires) \in Nat
        /\ \A k \in DOMAIN rec.fires : fires[k] = rec.fires[k]
    BY <1>0, <2>2, AppendProperties, LenProperties
  <2> HIDE DEF fires, new
  <2>5. /\ new \in Records /\ new.fires = fires /\ new.status = "active"
        /\ new.pending = 0 /\ new.cursor = rec.cursor /\ new.doubts = rec.doubts
    <3> DEFINE exposure == Upper(rec.exposure, Exposure) + 1
    <3>1. exposure \in Nat
      BY <2>1
    <3>2. new = [rec EXCEPT !.timer = FALSE, !.pending = 0, !.exposure = exposure, !.fires = fires]
      BY <2>3
    <3> HIDE DEF exposure
    <3> QED BY <1>0, <2>4, <3>1, <3>2 DEF Records
  <2>6. fire.state = "reserved"
    BY DEF fire
  <2>7. \A k \in DOMAIN fires : k = Len(rec.fires) + 1 \/ k \in DOMAIN rec.fires
    BY <2>4
  <2>8. Held(new) \subseteq {Len(rec.fires) + 1}
    BY <1>5, <2>4, <2>5, <2>7 DEF Held
  <2>9. Doubtful(new) => Doubtful(rec)
    BY <2>4, <2>5, <2>6, <2>7 DEF Doubtful
  <2>10. Len(fires) <= MaxFires
    BY <1>5, <2>4, Constants
  <2>11. Sound(new)
    <3>1. NotifiedBy(new.fires) + 0 <= rec.cursor
      <4>1. NotifiedBy(fires) <= NotifiedBy(rec.fires) + rec.pending
        BY <1>0, <2>2, NotifiedMore DEF fires, fire
      <4>2. NotifiedBy(fires) \in Nat
        BY <2>4, NotifiedCounts
      <4> QED BY <1>0, <1>6, <2>5, <4>1, <4>2
    <3> QED BY <1>0, <2>4, <2>5, <2>8, <2>9, <2>10, <3>1 DEF Sound
  <2>12. Upper(rec.exposure, Exposure) + 1 <= Attempts
    BY <1>5, <2>1, Constants
  <2> QED BY <1>5, <2>5, <2>11, <2>12 DEF new, fires, fire
<1> QED BY <1>1, <1>2, <1>3, <1>4, <1>5

-----------------------------------------------------------------------------
(* The inductive invariant.                                                *)

SchedulesSound == \A s \in Added : Sound(sched[s])

(* Every fire has its message, every wakeup its fire, and a wakeup is      *)
(* queued only while its schedule is active.                               *)
Told(s, rec, ents) ==
    \A k \in DOMAIN rec.fires :
        /\ rec.fires[k].at \in DOMAIN ents
        /\ ents[rec.fires[k].at].by = s
        /\ Tells(rec.fires[k], ents[rec.fires[k].at].status)

Live(rec, ents) == QueuedFires(rec, ents) # {} => rec.status = "active"

Fired(i) == \E k \in DOMAIN sched[entries[i].by].fires : sched[entries[i].by].fires[k].at = i

Linked ==
    /\ \A s \in Added : Told(s, sched[s], entries) /\ Live(sched[s], entries)
    /\ \A i \in DOMAIN entries : entries[i].by # User => entries[i].by \in Added /\ Fired(i)

TurnAlone ==
    /\ at \in {"idle", "recovering"} => Running = {}
    /\ \A i, j \in Running : i = j

HistoryPlaced ==
    /\ sent \subseteq DOMAIN entries /\ sent \cap Queued(entries) = {}
    /\ \A i \in revoked : i \in DOMAIN entries /\ entries[i].by # User

RevokedStay ==
    /\ revoked \cap sent = {}
    /\ Up => revoked \cap Queued(entries) = {}
    /\ at = "started" =>
         \A i \in Running \cap revoked : sched[entries[i].by].status # "active"

IInv == /\ ScheduleTypeOK /\ SchedulesSound /\ Linked /\ TurnAlone
        /\ HistoryPlaced /\ RevokedStay

-----------------------------------------------------------------------------
(* The queue.                                                              *)

Entry == [by : Schedules \cup {User}, ofGoal : BOOLEAN,
          status : {"queued", "running", "completed", "failed", "interrupted", "cancelled"}]

LEMMA EntryTypes ==
    ASSUME NEW ents \in Seq(Entry)
    PROVE  /\ DOMAIN ents = 1..Len(ents) /\ Len(ents) \in Nat
           /\ \A i \in DOMAIN ents : ents[i] \in Entry
BY LenProperties, ElementOfSeq

(* Cancelling some messages keeps the others and their order. *)
LEMMA Cancelled ==
    ASSUME NEW ents \in Seq(Entry), NEW P
    PROVE  LET new == CancelAt(ents, P) IN
           /\ new \in Seq(Entry) /\ Len(new) = Len(ents) /\ DOMAIN new = DOMAIN ents
           /\ \A i \in DOMAIN ents :
                /\ new[i].by = ents[i].by
                /\ i \in P => new[i].status = "cancelled"
                /\ i \notin P => new[i] = ents[i]
<1> DEFINE new == [i \in DOMAIN ents |->
               IF i \in P THEN [ents[i] EXCEPT !.status = "cancelled"] ELSE ents[i]]
<1>1. /\ DOMAIN ents = 1..Len(ents) /\ Len(ents) \in Nat
      /\ \A i \in DOMAIN ents : ents[i] \in Entry
  BY EntryTypes
<1>2. \A i \in DOMAIN ents :
          LET set == [ents[i] EXCEPT !.status = "cancelled"] IN
          set \in Entry /\ set.by = ents[i].by /\ set.status = "cancelled"
  BY <1>1 DEF Entry
<1>3. new \in [1..Len(ents) -> Entry]
  BY <1>1, <1>2
<1>4. \A i \in DOMAIN ents :
          /\ new[i].by = ents[i].by
          /\ i \in P => new[i].status = "cancelled"
          /\ i \notin P => new[i] = ents[i]
  BY <1>2
<1>5. CancelAt(ents, P) = new
  BY DEF CancelAt
<1> HIDE DEF new
<1>6. new \in Seq(Entry) /\ Len(new) = Len(ents) /\ DOMAIN new = DOMAIN ents
  BY <1>1, <1>3, SequenceOf
<1> QED BY <1>4, <1>5, <1>6

(* The queue after one message changed its status. *)
Rewrites(ents, new, j, status) ==
    /\ new \in Seq(Entry) /\ Len(new) = Len(ents) /\ DOMAIN new = DOMAIN ents
    /\ \A i \in DOMAIN ents : new[i].by = ents[i].by /\ (i # j => new[i] = ents[i])
    /\ new[j].status = status

Marked(ents, j, status) == [ents EXCEPT ![j].status = status]

LEMMA Resettled ==
    ASSUME NEW ents \in Seq(Entry), NEW j \in DOMAIN ents,
           NEW status \in {"running", "completed", "failed", "interrupted", "cancelled"},
           NEW new, new = Marked(ents, j, status)
    PROVE  Rewrites(ents, new, j, status)
<1>1. /\ DOMAIN ents = 1..Len(ents) /\ Len(ents) \in Nat
      /\ \A i \in DOMAIN ents : ents[i] \in Entry
  BY EntryTypes
<1> DEFINE set == [ents[j] EXCEPT !.status = status]
<1>2. set \in Entry /\ set.by = ents[j].by /\ set.status = status
  BY <1>1 DEF Entry
<1>3. new = [ents EXCEPT ![j] = set]
  BY DEF Marked
<1> HIDE DEF set
<1>4. ents \in [1..Len(ents) -> Entry]
  BY LenProperties
<1>5. /\ new \in [1..Len(ents) -> Entry] /\ new[j] = set
      /\ \A i \in DOMAIN ents : i # j => new[i] = ents[i]
  BY <1>1, <1>2, <1>3, <1>4
<1>6. new \in Seq(Entry) /\ Len(new) = Len(ents) /\ DOMAIN new = DOMAIN ents
  BY <1>1, <1>5, SequenceOf
<1> QED BY <1>2, <1>5, <1>6 DEF Rewrites

(* A stopped record and its cancelled messages agree, and none is queued. *)
LEMMA RetiredTold ==
    ASSUME NEW s, NEW rec, Sound(rec), NEW ents \in Seq(Entry), Told(s, rec, ents),
           NEW P, Positions(rec, QueuedFires(rec, ents)) \subseteq P, P \subseteq Queued(ents)
    PROVE  LET new == Retired(rec, ents) IN
           /\ Sound(new) /\ Keeps(rec, new)
           /\ Told(s, new, CancelAt(ents, P))
           /\ QueuedFires(new, CancelAt(ents, P)) = {}
           /\ QueuedFires(rec, ents) = {} => new = rec
<1> DEFINE K == QueuedFires(rec, ents)
           new == Skipped(rec, K)
           cut == CancelAt(ents, P)
<1>1. /\ Sound(new) /\ Keeps(rec, new)
      /\ \A k \in DOMAIN rec.fires :
           /\ k \in K => new.fires[k].state = "skipped"
           /\ k \notin K => new.fires[k] = rec.fires[k]
      /\ K = {} => new = rec
  BY SkippedSound
<1>2. /\ cut \in Seq(Entry) /\ DOMAIN cut = DOMAIN ents
      /\ \A i \in DOMAIN ents :
           /\ cut[i].by = ents[i].by
           /\ i \in P => cut[i].status = "cancelled"
           /\ i \notin P => cut[i] = ents[i]
  BY Cancelled
<1>3. DOMAIN new.fires = DOMAIN rec.fires
  BY <1>1, LenProperties DEF Sound, Records, Keeps, Placed
<1>4. \A k \in DOMAIN rec.fires :
          /\ new.fires[k].at = rec.fires[k].at
          /\ rec.fires[k].at \in DOMAIN ents /\ ents[rec.fires[k].at].by = s
          /\ Tells(rec.fires[k], ents[rec.fires[k].at].status)
  BY <1>1 DEF Keeps, Placed, Told
<1>5. \A k \in DOMAIN rec.fires : k \in K <=> rec.fires[k].at \in P
  BY <1>4 DEF QueuedFires, Positions
<1>6. \A k \in DOMAIN rec.fires :
          k \notin K => ents[rec.fires[k].at].status # "queued"
  BY <1>4 DEF QueuedFires, Queued
<1> HIDE DEF K, new, cut
<1>7. Told(s, new, cut)
  <2> SUFFICES ASSUME NEW k \in DOMAIN rec.fires
               PROVE  Tells(new.fires[k], cut[new.fires[k].at].status)
    BY <1>2, <1>3, <1>4 DEF Told
  <2>1. CASE k \in K
    BY <1>1, <1>2, <1>4, <1>5, <2>1 DEF Tells
  <2>2. CASE k \notin K
    BY <1>1, <1>2, <1>4, <1>5, <2>2
  <2> QED BY <2>1, <2>2
<1>8. QueuedFires(new, cut) = {}
  <2> SUFFICES ASSUME NEW k \in DOMAIN rec.fires
               PROVE  cut[rec.fires[k].at].status # "queued"
    BY <1>2, <1>3, <1>4 DEF QueuedFires, Queued
  <2>1. CASE k \in K
    BY <1>2, <1>4, <1>5, <2>1
  <2>2. CASE k \notin K
    BY <1>2, <1>4, <1>5, <1>6, <2>2
  <2> QED BY <2>1, <2>2
<1> QED BY <1>1, <1>7, <1>8 DEF Retired, K, new, cut

(* What a step must show of the records and of the queue. *)
LEMMA Assembled ==
    ASSUME IInv,
           sched' \in [Schedules -> Records \cup {None}],
           entries' \in Seq(Entry), DOMAIN entries' = DOMAIN entries,
           \A i \in DOMAIN entries : entries'[i].by = entries[i].by,
           \A s \in Schedules : (sched'[s] = None) <=> (sched[s] = None),
           \A s \in Added :
               /\ Sound(sched'[s]) /\ Placed(sched[s], sched'[s])
               /\ Told(s, sched'[s], entries') /\ Live(sched'[s], entries')
    PROVE  SchedulesSound' /\ Linked' /\ Added' = Added
<1>1. Added' = Added
  BY DEF Added
<1>2. SchedulesSound'
  BY <1>1 DEF SchedulesSound
<1>3. \A i \in DOMAIN entries : entries[i].by # User => entries[i].by \in Added /\ Fired(i)
  BY DEF IInv, Linked
<1>4. ASSUME NEW i \in DOMAIN entries, entries[i].by # User
      PROVE  entries'[i].by \in Added /\ Fired(i)'
  <2> DEFINE s == entries[i].by
  <2>1. s \in Added /\ Fired(i)
    BY <1>3, <1>4
  <2>2. PICK k \in DOMAIN sched[s].fires : sched[s].fires[k].at = i
    BY <2>1 DEF Fired
  <2>3. sched[s].fires \in Seq(Fires) /\ sched'[s].fires \in Seq(Fires)
    BY <2>1 DEF IInv, SchedulesSound, Sound, Records
  <2>4. DOMAIN sched'[s].fires = DOMAIN sched[s].fires /\ sched'[s].fires[k].at = i
    BY <2>1, <2>2, <2>3, LenProperties DEF Keeps, Placed
  <2> QED BY <2>1, <2>2, <2>4 DEF Fired
<1>5. Linked'
  BY <1>1, <1>4 DEF Linked
<1> QED BY <1>1, <1>2, <1>5

(* The exposure counts. *)
LEMMA ExposureCounts ==
    ASSUME goal.attempts \in Nat
    PROVE  /\ \A i : IsFiniteSet(HoldsOf(i)) /\ ExposureBut(i) \in Nat
           /\ Exposure \in Nat
<1>1. IsFiniteSet(Added \X (1..MaxFires))
  <2>1. IsFiniteSet(Added)
    BY Constants, FS_Subset DEF Added
  <2>2. IsFiniteSet(1..MaxFires)
    BY Constants, FS_Interval
  <2> QED BY <2>1, <2>2, FS_Product
<1>2. ASSUME NEW i
      PROVE  IsFiniteSet(HoldsOf(i)) /\ ExposureBut(i) \in Nat
  <2>1. HoldsOf(i) \subseteq Added \X (1..MaxFires)
    BY DEF HoldsOf
  <2>2. IsFiniteSet(HoldsOf(i))
    BY <1>1, <2>1, FS_Subset
  <2>3. Cardinality(HoldsOf(i)) \in Nat
    BY <2>2, FS_CardinalityType
  <2> QED BY <2>2, <2>3 DEF ExposureBut
<1> QED BY <1>2 DEF Exposure

(* A record none of whose messages changed. *)
Retains(s, ents, new) ==
    /\ DOMAIN ents \subseteq DOMAIN new
    /\ \A i \in DOMAIN ents : ents[i].by = s => new[i] = ents[i]

LEMMA Undisturbed ==
    ASSUME NEW s, NEW rec, NEW ents, NEW new, Told(s, rec, ents), Live(rec, ents),
           Retains(s, ents, new)
    PROVE  Told(s, rec, new) /\ Live(rec, new)
<1>1. \A k \in DOMAIN rec.fires : rec.fires[k].at \in DOMAIN ents
                                /\ rec.fires[k].at \in DOMAIN new
                                /\ new[rec.fires[k].at] = ents[rec.fires[k].at]
  BY DEF Told, Retains
<1>2. Told(s, rec, new)
  BY <1>1 DEF Told
<1>3. QueuedFires(rec, new) = QueuedFires(rec, ents)
  BY <1>1 DEF QueuedFires, Queued
<1> QED BY <1>2, <1>3 DEF Live

(* Types of the next state, once the history is placed. *)
LEMMA NextTyped ==
    ASSUME sched' \in [Schedules -> Records \cup {None}],
           entries' \in Seq(Entry), Len(entries') <= MaxEntries,
           goal' \in [status : {"working", "waiting", "stopped"}, attempts : Nat,
                      unsure : BOOLEAN],
           at' \in {"recovering", "idle", "started", "sent"}, judged' \in Nat,
           HistoryPlaced'
    PROVE  ScheduleTypeOK'
<1>1. DOMAIN entries' = 1..Len(entries') /\ Len(entries') \in Nat
  BY EntryTypes
<1>2. DOMAIN entries' \subseteq 1..MaxEntries
  BY <1>1, Constants
<1> QED BY <1>2 DEF ScheduleTypeOK, HistoryPlaced, Entry

(* The types as the step lemmas use them. *)
LEMMA Typed ==
    ASSUME IInv
    PROVE  /\ sched \in [Schedules -> Records \cup {None}]
           /\ entries \in Seq(Entry) /\ Len(entries) <= MaxEntries
           /\ DOMAIN entries = 1..Len(entries) /\ Len(entries) \in Nat
           /\ \A i \in DOMAIN entries : entries[i] \in Entry
           /\ goal \in [status : {"working", "waiting", "stopped"}, attempts : Nat,
                        unsure : BOOLEAN]
           /\ goal.attempts \in Nat /\ goal.unsure \in BOOLEAN
           /\ at \in {"recovering", "idle", "started", "sent"} /\ judged \in Nat
           /\ \A s \in Added :
                /\ s \in Schedules /\ Sound(sched[s]) /\ sched[s] # None
                /\ Told(s, sched[s], entries) /\ Live(sched[s], entries)
           /\ Exposure \in Nat
<1>1. entries \in Seq(Entry)
  BY DEF IInv, ScheduleTypeOK, Entry
<1>2. /\ goal \in [status : {"working", "waiting", "stopped"}, attempts : Nat,
                  unsure : BOOLEAN]
      /\ goal.attempts \in Nat /\ goal.unsure \in BOOLEAN
  BY DEF IInv, ScheduleTypeOK
<1>3. \A s \in Added :
         /\ s \in Schedules /\ Sound(sched[s]) /\ sched[s] # None
         /\ Told(s, sched[s], entries) /\ Live(sched[s], entries)
  BY DEF IInv, SchedulesSound, Linked, Added
<1> QED BY <1>1, <1>2, <1>3, EntryTypes, ExposureCounts DEF IInv, ScheduleTypeOK

LEMMA SoundTyped ==
    ASSUME NEW rec, Sound(rec)
    PROVE  rec \in Records /\ rec # None /\ DOMAIN rec.fires = 1..Len(rec.fires)
<1>1. rec \in Records /\ rec.fires \in Seq(Fires)
  BY DEF Sound, Records
<1> QED BY <1>1, LenProperties, NoneAssumption

-----------------------------------------------------------------------------
(* Stopping a record and its queued wakeup. *)
LEMMA StopKeeps ==
    ASSUME IInv, NEW s \in Added, NEW rec, Sound(rec), Keeps(sched[s], rec),
           rec.fires = sched[s].fires, rec.status # "active" \/ at = "idle",
           Stop(s, rec), UNCHANGED <<goal, at, judged, sent>>
    PROVE  IInv'
<1> DEFINE P == Positions(rec, QueuedFires(rec, entries))
           new == Retired(rec, entries)
<1>1. /\ sched \in [Schedules -> Records \cup {None}]
      /\ entries \in Seq(Entry) /\ Len(entries) <= MaxEntries
      /\ s \in Schedules /\ Sound(sched[s]) /\ sched[s] # None
      /\ Told(s, sched[s], entries) /\ Live(sched[s], entries)
      /\ \A t \in Added : t \in Schedules /\ Sound(sched[t])
                         /\ Told(t, sched[t], entries) /\ Live(sched[t], entries)
  BY Typed
<1>2. Told(s, rec, entries)
  BY <1>1 DEF Told
<1>3. P \subseteq Queued(entries)
  BY DEF Positions, QueuedFires
<1>4. /\ Sound(new) /\ Keeps(rec, new) /\ Told(s, new, CancelAt(entries, P))
      /\ QueuedFires(new, CancelAt(entries, P)) = {}
  BY <1>1, <1>2, <1>3, RetiredTold
<1>5. /\ sched' = [sched EXCEPT ![s] = new] /\ entries' = CancelAt(entries, P)
      /\ revoked' = revoked \cup Unsent(s)
  BY DEF Stop, Unqueued
<1>6. /\ entries' \in Seq(Entry) /\ Len(entries') = Len(entries)
      /\ DOMAIN entries' = DOMAIN entries
      /\ \A i \in DOMAIN entries :
           /\ entries'[i].by = entries[i].by
           /\ i \in P => entries'[i].status = "cancelled"
           /\ i \notin P => entries'[i] = entries[i]
  BY <1>1, <1>5, Cancelled
<1>7. \A i \in P : i \in DOMAIN entries /\ entries[i].by = s
  BY <1>2 DEF Positions, QueuedFires, Told
<1>8. Keeps(sched[s], new)
  BY <1>1, <1>4, SoundTyped DEF Keeps, Placed
<1>9. new \in Records /\ new # None
  BY <1>4, SoundTyped
<1> HIDE DEF P, new
<1>10. /\ sched' \in [Schedules -> Records \cup {None}] /\ sched'[s] = new
       /\ \A t \in Schedules : t # s => sched'[t] = sched[t]
  BY <1>1, <1>5, <1>9
<1>11. ASSUME NEW t \in Added
       PROVE  /\ Sound(sched'[t]) /\ Keeps(sched[t], sched'[t])
              /\ Told(t, sched'[t], entries') /\ Live(sched'[t], entries')
  <2>1. CASE t = s
    BY <1>4, <1>5, <1>8, <1>10, <2>1 DEF Live
  <2>2. CASE t # s
    <3>1. sched'[t] = sched[t] /\ Sound(sched[t]) /\ Keeps(sched[t], sched'[t])
          /\ Told(t, sched[t], entries) /\ Live(sched[t], entries)
      BY <1>1, <1>10, <2>2 DEF Keeps, Placed
    <3>2. Retains(t, entries, entries')
      BY <1>6, <1>7, <2>2 DEF Retains
    <3>3. Told(t, sched[t], entries') /\ Live(sched[t], entries')
      BY <3>1, <3>2, Undisturbed
    <3> QED BY <3>1, <3>3
  <2> QED BY <2>1, <2>2
<1>12. SchedulesSound' /\ Linked' /\ Added' = Added
  <2>1. \A t \in Schedules : (sched'[t] = None) <=> (sched[t] = None)
    BY <1>1, <1>9, <1>10
  <2>2. \A t \in Added : /\ Sound(sched'[t]) /\ Placed(sched[t], sched'[t])
                         /\ Told(t, sched'[t], entries') /\ Live(sched'[t], entries')
    BY <1>11 DEF Keeps
  <2> QED BY <1>6, <1>10, <2>1, <2>2, Assembled
<1>13. ASSUME NEW i \in DOMAIN entries
       PROVE  /\ (entries'[i].status = "running") <=> (entries[i].status = "running")
              /\ (entries'[i].status = "queued") => (entries[i].status = "queued")
  <2>1. CASE i \in P
    BY <1>3, <1>6, <2>1 DEF Queued
  <2>2. CASE i \notin P
    BY <1>6, <2>2
  <2> QED BY <2>1, <2>2
<1>14. Running' = Running /\ Queued(entries') \subseteq Queued(entries)
  BY <1>6, <1>13 DEF Running, Queued
<1>15. \A i \in Unsent(s) : i \in DOMAIN entries /\ entries[i].by = s /\ i \notin sent
  BY <1>1 DEF Unsent, Positions, Told
<1>16. s # User
  BY <1>1, Constants
<1>17. HistoryPlaced'
  BY <1>5, <1>6, <1>14, <1>15, <1>16 DEF IInv, HistoryPlaced
<1>18. TurnAlone'
  BY <1>14 DEF IInv, TurnAlone
<1>19. Unsent(s) \cap Queued(entries') = {}
  <2> SUFFICES ASSUME NEW k \in DOMAIN rec.fires
               PROVE  entries'[rec.fires[k].at].status # "queued"
    BY DEF Unsent, Positions, Queued
  <2>1. rec.fires[k].at \in DOMAIN entries
    BY <1>2 DEF Told
  <2>2. CASE entries[rec.fires[k].at].status = "queued"
    <3>1. rec.fires[k].at \in P
      BY <2>1, <2>2 DEF P, Positions, QueuedFires, Queued
    <3> QED BY <1>6, <2>1, <3>1
  <2>3. CASE entries[rec.fires[k].at].status # "queued"
    BY <1>13, <2>1, <2>3
  <2> QED BY <2>2, <2>3
<1>20. ASSUME at' = "started", NEW i \in Running', i \in revoked'
       PROVE  sched'[entries'[i].by].status # "active"
  <2>1. at = "started" /\ i \in Running /\ i \in DOMAIN entries /\ entries'[i].by = entries[i].by
    BY <1>6, <1>14, <1>20 DEF Running
  <2>2. CASE i \in revoked
    <3>1. /\ sched[entries[i].by].status # "active"
          /\ entries[i].by \in Added
      BY <2>1, <2>2 DEF IInv, RevokedStay, HistoryPlaced, Linked
    <3>2. Keeps(sched[entries[i].by], sched'[entries[i].by])
      BY <1>11, <3>1
    <3> QED BY <2>1, <3>1, <3>2 DEF Keeps, Placed
  <2>3. CASE i \in Unsent(s)
    <3>1. rec.status # "active" /\ entries[i].by = s
      BY <1>15, <2>1, <2>3
    <3> QED BY <1>4, <1>10, <2>1, <3>1 DEF Keeps, Placed
  <2> QED BY <1>5, <1>20, <2>2, <2>3
<1>21. RevokedStay'
  <2>1. revoked' \cap sent' = {}
    BY <1>5, <1>15 DEF IInv, RevokedStay
  <2>2. Up' => revoked' \cap Queued(entries') = {}
    BY <1>5, <1>14, <1>19 DEF IInv, RevokedStay, Up
  <2> QED BY <1>20, <2>1, <2>2 DEF RevokedStay
<1>22. ScheduleTypeOK'
  <2>1. Len(entries') <= MaxEntries
    BY <1>1, <1>6
  <2>2. /\ goal' \in [status : {"working", "waiting", "stopped"}, attempts : Nat,
                    unsure : BOOLEAN]
        /\ at' \in {"recovering", "idle", "started", "sent"} /\ judged' \in Nat
    BY Typed
  <2> QED BY <1>6, <1>10, <1>17, <2>1, <2>2, NextTyped
<1> QED BY <1>12, <1>17, <1>18, <1>21, <1>22 DEF IInv

(* Rewriting a record that stays, or becomes, active. *)
LEMMA UpdateKeeps ==
    ASSUME IInv, NEW s \in Added, NEW rec, Sound(rec), rec.status = "active",
           rec.fires = sched[s].fires, sched[s].status = "active" \/ at = "idle",
           sched' = [sched EXCEPT ![s] = rec],
           UNCHANGED <<entries, goal, at, judged, sent, revoked>>
    PROVE  IInv'
<1>1. /\ sched \in [Schedules -> Records \cup {None}]
      /\ entries \in Seq(Entry) /\ Len(entries) <= MaxEntries
      /\ s \in Schedules /\ Sound(sched[s]) /\ sched[s] # None
      /\ \A t \in Added : t \in Schedules /\ Sound(sched[t])
                         /\ Told(t, sched[t], entries) /\ Live(sched[t], entries)
  BY Typed
<1>2. rec \in Records /\ rec # None
  BY SoundTyped
<1>3. /\ sched' \in [Schedules -> Records \cup {None}] /\ sched'[s] = rec
      /\ \A t \in Schedules : t # s => sched'[t] = sched[t]
  BY <1>1, <1>2
<1>4. ASSUME NEW t \in Added
      PROVE  /\ Sound(sched'[t]) /\ Placed(sched[t], sched'[t])
             /\ Told(t, sched'[t], entries') /\ Live(sched'[t], entries')
  <2>1. CASE t = s
    BY <1>1, <1>3, <2>1 DEF Told, Live, Placed
  <2>2. CASE t # s
    BY <1>1, <1>3, <2>2 DEF Placed
  <2> QED BY <2>1, <2>2
<1>5. SchedulesSound' /\ Linked' /\ Added' = Added
  <2>1. \A t \in Schedules : (sched'[t] = None) <=> (sched[t] = None)
    BY <1>1, <1>2, <1>3
  <2> QED BY <1>1, <1>3, <1>4, <2>1, Assembled
<1>6. HistoryPlaced' /\ TurnAlone'
  BY DEF IInv, HistoryPlaced, TurnAlone, Running
<1>7. RevokedStay'
  <2>1. ASSUME at' = "started", NEW i \in Running' \cap revoked'
        PROVE  sched'[entries'[i].by].status # "active"
    <3>1. at = "started" /\ i \in Running \cap revoked /\ entries'[i].by = entries[i].by
      BY <2>1 DEF Running
    <3>2. /\ sched[entries[i].by].status # "active" /\ entries[i].by \in Added
          /\ sched[s].status = "active"
      BY <3>1 DEF IInv, RevokedStay, HistoryPlaced, Linked
    <3> QED BY <1>1, <1>3, <3>1, <3>2
  <2>2. revoked' \cap sent' = {} /\ (Up' => revoked' \cap Queued(entries') = {})
    BY DEF IInv, RevokedStay, Up
  <2> QED BY <2>1, <2>2 DEF RevokedStay
<1>8. ScheduleTypeOK'
  BY <1>1, <1>3, <1>6, Typed, NextTyped
<1> QED BY <1>5, <1>6, <1>7, <1>8 DEF IInv

(* The records and the queue, when every queued wakeup is superseded. *)
LEMMA SupersededTold ==
    ASSUME IInv, NEW P, QueuedWakeups \subseteq P, P \subseteq Queued(entries)
    PROVE  LET cut == CancelAt(entries, P) IN
           /\ cut \in Seq(Entry) /\ Len(cut) = Len(entries) /\ DOMAIN cut = DOMAIN entries
           /\ \A i \in DOMAIN entries :
                /\ cut[i].by = entries[i].by
                /\ (cut[i].status = "running") <=> (entries[i].status = "running")
                /\ (cut[i].status = "queued") <=> (entries[i].status = "queued" /\ i \notin P)
           /\ \A s \in Added :
                LET new == Retired(sched[s], entries) IN
                /\ Sound(new) /\ Keeps(sched[s], new)
                /\ Told(s, new, cut) /\ QueuedFires(new, cut) = {}
<1> DEFINE cut == CancelAt(entries, P)
<1>1. /\ entries \in Seq(Entry)
      /\ \A s \in Added : s \in Schedules /\ Sound(sched[s]) /\ Told(s, sched[s], entries)
  BY Typed
<1>2. /\ cut \in Seq(Entry) /\ Len(cut) = Len(entries) /\ DOMAIN cut = DOMAIN entries
      /\ \A i \in DOMAIN entries :
           /\ cut[i].by = entries[i].by
           /\ i \in P => cut[i].status = "cancelled"
           /\ i \notin P => cut[i] = entries[i]
  BY <1>1, Cancelled
<1>3. ASSUME NEW s \in Added
      PROVE  Positions(sched[s], QueuedFires(sched[s], entries)) \subseteq P
  <2> SUFFICES ASSUME NEW k \in QueuedFires(sched[s], entries)
               PROVE  sched[s].fires[k].at \in QueuedWakeups
    BY DEF Positions
  <2>1. s # User
    BY <1>1, Constants
  <2> QED BY <1>1, <2>1 DEF QueuedFires, QueuedWakeups, Told
<1>4. ASSUME NEW s \in Added
      PROVE  LET new == Retired(sched[s], entries) IN
             /\ Sound(new) /\ Keeps(sched[s], new)
             /\ Told(s, new, cut) /\ QueuedFires(new, cut) = {}
  BY <1>1, <1>3, RetiredTold
<1> HIDE DEF cut
<1>5. ASSUME NEW i \in DOMAIN entries
      PROVE  /\ (cut[i].status = "running") <=> (entries[i].status = "running")
             /\ (cut[i].status = "queued") <=> (entries[i].status = "queued" /\ i \notin P)
  <2>1. CASE i \in P
    BY <1>2, <2>1 DEF Queued
  <2>2. CASE i \notin P
    BY <1>2, <2>2
  <2> QED BY <2>1, <2>2
<1> QED BY <1>2, <1>4, <1>5 DEF cut

(* The running message ends without being known to have completed. *)
LEMMA FailsTold ==
    ASSUME IInv, NEW i \in Running, NEW reading,
           NEW status \in {"failed", "cancelled", "interrupted"},
           Fails(i, reading, status)
    PROVE  /\ sched' \in [Schedules -> Records \cup {None}]
           /\ entries' \in Seq(Entry) /\ Len(entries') = Len(entries)
           /\ DOMAIN entries' = DOMAIN entries
           /\ \A j \in DOMAIN entries : entries'[j].by = entries[j].by
           /\ goal' \in [status : {"working", "waiting", "stopped"}, attempts : Nat,
                         unsure : BOOLEAN]
           /\ Running' = {} /\ Queued(entries') = Queued(entries)
           /\ SchedulesSound' /\ Linked' /\ Added' = Added
<1>1. /\ sched \in [Schedules -> Records \cup {None}]
      /\ entries \in Seq(Entry) /\ Len(entries) <= MaxEntries
      /\ \A t \in Added : t \in Schedules /\ Sound(sched[t]) /\ sched[t] # None
                         /\ Told(t, sched[t], entries) /\ Live(sched[t], entries)
      /\ goal \in [status : {"working", "waiting", "stopped"}, attempts : Nat,
                   unsure : BOOLEAN]
      /\ goal.unsure \in BOOLEAN /\ Exposure \in Nat
  BY Typed
<1>2. i \in DOMAIN entries /\ entries[i].status = "running"
  BY DEF Running
<1>3. entries' = [entries EXCEPT ![i].status = status]
  BY DEF Fails
<1>4. /\ entries' \in Seq(Entry) /\ Len(entries') = Len(entries)
      /\ DOMAIN entries' = DOMAIN entries
      /\ \A j \in DOMAIN entries : entries'[j].by = entries[j].by /\ (j # i => entries'[j] = entries[j])
      /\ entries'[i].status = status
  <2>1. status \in {"running", "completed", "failed", "interrupted", "cancelled"}
    OBVIOUS
  <2>2. entries \in Seq(Entry)
    BY <1>1
  <2>3. entries' = Marked(entries, i, status)
    BY <1>3 DEF Marked
  <2>4. Rewrites(entries, entries', i, status)
    BY <1>2, <2>1, <2>2, <2>3, Resettled
  <2> QED BY <2>4 DEF Rewrites
<1>5. goal' \in [status : {"working", "waiting", "stopped"}, attempts : Nat, unsure : BOOLEAN]
  <2>1. CASE entries[i].ofGoal
    <3>1. goal' = [goal EXCEPT !.unsure = TRUE, !.status = "stopped"]
      BY <2>1 DEF Fails
    <3>2. TRUE \in BOOLEAN
      OBVIOUS
    <3> QED BY <1>1, <3>1, <3>2
  <2>2. CASE ~entries[i].ofGoal
    BY <1>1, <2>2 DEF Fails
  <2> QED BY <2>1, <2>2
<1>6. Running' = {}
  <2>1. \A j \in Running : j = i
    BY DEF IInv, TurnAlone
  <2> QED BY <1>4, <2>1 DEF Running
<1>7. Queued(entries') = Queued(entries)
  BY <1>2, <1>4 DEF Queued
<1>8. CASE entries[i].by = User
  <2>1. sched' = sched
    BY <1>8 DEF Fails
  <2>2. ASSUME NEW t \in Added
        PROVE  /\ Sound(sched'[t]) /\ Placed(sched[t], sched'[t])
               /\ Told(t, sched'[t], entries') /\ Live(sched'[t], entries')
    <3>1. Retains(t, entries, entries')
      BY <1>1, <1>4, <1>8, Constants DEF Retains
    <3>2. Told(t, sched[t], entries) /\ Live(sched[t], entries) /\ Sound(sched[t])
      BY <1>1
    <3>3. Told(t, sched[t], entries') /\ Live(sched[t], entries')
      BY <3>1, <3>2, Undisturbed
    <3> QED BY <2>1, <3>2, <3>3 DEF Placed
  <2>3. SchedulesSound' /\ Linked' /\ Added' = Added
    BY <1>1, <1>4, <2>1, <2>2, Assembled
  <2> QED BY <1>1, <1>4, <1>5, <1>6, <1>7, <2>1, <2>3
<1>9. CASE entries[i].by # User
  <2> DEFINE s == entries[i].by
             rec == sched[s]
             new == Recovered(rec, reading)
  <2>1. s \in Added /\ Fired(i)
    BY <1>2, <1>9 DEF IInv, Linked
  <2>2. PICK m \in DOMAIN rec.fires : rec.fires[m].at = i
    BY <2>1 DEF Fired
  <2> HIDE DEF s, rec
  <2>3. /\ s \in Schedules /\ Sound(rec) /\ rec = sched[s] /\ s = entries[i].by
        /\ Told(s, rec, entries)
    BY <1>1, <2>1, SMTT(30) DEF s, rec
  <2>4. m \in Held(rec)
    BY <1>2, <2>2, <2>3 DEF Held, Told, Tells
  <2>5. \A k \in DOMAIN rec.fires : k \in Held(rec) <=> k = m
    BY <2>3, <2>4 DEF Sound
  <2>6. /\ Sound(new) /\ Keeps(rec, new) /\ new.status # "active"
        /\ \A k \in DOMAIN rec.fires :
             /\ k = m => new.fires[k].state = "uncertain"
             /\ k # m => new.fires[k] = rec.fires[k]
    BY <1>1, <2>3, <2>5, RecoveredSound
  <2>7. sched' = [sched EXCEPT ![s] = new]
    BY <1>9, <2>3 DEF Fails
  <2> HIDE DEF new
  <2>8. new \in Records /\ new # None /\ DOMAIN new.fires = DOMAIN rec.fires
    BY <2>3, <2>6, SoundTyped DEF Keeps, Placed
  <2>9. /\ sched' \in [Schedules -> Records \cup {None}] /\ sched'[s] = new
        /\ \A t \in Schedules : t # s => sched'[t] = sched[t]
    BY <1>1, <2>3, <2>7, <2>8, SMTT(30)
  <2>10. \A k \in DOMAIN rec.fires :
            /\ new.fires[k].at = rec.fires[k].at
            /\ rec.fires[k].at \in DOMAIN entries /\ entries[rec.fires[k].at].by = s
            /\ Tells(rec.fires[k], entries[rec.fires[k].at].status)
    BY <2>3, <2>6 DEF Keeps, Placed, Told
  <2>11. \A k \in DOMAIN rec.fires : k # m => rec.fires[k].at # i
    BY <1>2, <2>5, <2>10 DEF Tells, Held
  <2>12. Told(s, new, entries')
    <3> SUFFICES ASSUME NEW k \in DOMAIN rec.fires
                 PROVE  Tells(new.fires[k], entries'[rec.fires[k].at].status)
      BY <1>4, <2>8, <2>10 DEF Told
    <3>1. CASE k = m
      BY <1>4, <2>2, <2>6, <3>1 DEF Tells
    <3>2. CASE k # m
      BY <1>4, <2>6, <2>10, <2>11, <3>2
    <3> QED BY <3>1, <3>2
  <2>13. Live(new, entries')
    <3> SUFFICES ASSUME NEW k \in DOMAIN rec.fires
                 PROVE  entries[rec.fires[k].at].status # "queued"
      BY <1>7, <2>8, <2>10 DEF Live, QueuedFires, Queued
    <3>1. CASE k = m
      BY <1>2, <2>2, <3>1
    <3>2. CASE k # m
      BY <2>5, <2>10, <3>2 DEF Tells, Held
    <3> QED BY <3>1, <3>2
  <2>14. ASSUME NEW t \in Added
         PROVE  /\ Sound(sched'[t]) /\ Placed(sched[t], sched'[t])
                /\ Told(t, sched'[t], entries') /\ Live(sched'[t], entries')
    <3>1. CASE t = s
      BY <2>3, <2>6, <2>9, <2>12, <2>13, <3>1 DEF Keeps
    <3>2. CASE t # s
      <4>1. Retains(t, entries, entries')
        BY <1>4, <2>3, <3>2 DEF Retains
      <4>2. Told(t, sched[t], entries') /\ Live(sched[t], entries')
        BY <1>1, <4>1, Undisturbed
      <4> QED BY <1>1, <2>9, <3>2, <4>2 DEF Placed
    <3> QED BY <3>1, <3>2
  <2>15. SchedulesSound' /\ Linked' /\ Added' = Added
    <3>1. \A t \in Schedules : (sched'[t] = None) <=> (sched[t] = None)
      BY <1>1, <2>1, <2>3, <2>8, <2>9
    <3> QED BY <1>4, <2>9, <2>14, <3>1, Assembled
  <2> QED BY <1>4, <1>5, <1>6, <1>7, <2>9, <2>15
<1> QED BY <1>8, <1>9

-----------------------------------------------------------------------------
(* One lemma per action of a schedule. *)

LEMMA AddKeeps ==
    ASSUME IInv, NEW s \in Schedules, AddSchedule(s)
    PROVE  IInv'
<1> DEFINE rec == [status |-> "active", timer |-> FALSE, pending |-> 0, cursor |-> 0,
                   fires |-> <<>>, doubts |-> 0, exposure |-> Exposure, tainted |-> FALSE]
<1>1. /\ sched \in [Schedules -> Records \cup {None}] /\ Exposure \in Nat
      /\ entries \in Seq(Entry) /\ Len(entries) <= MaxEntries
      /\ \A t \in Added : t \in Schedules /\ Sound(sched[t])
                         /\ Told(t, sched[t], entries) /\ Live(sched[t], entries)
  BY Typed
<1>2. sched[s] = None /\ sched' = [sched EXCEPT ![s] = rec]
      /\ UNCHANGED <<entries, goal, at, judged, sent, revoked>>
  BY DEF AddSchedule, history
<1>3. Sound(rec) /\ DOMAIN rec.fires = {}
  <2>1. <<>> \in Seq(Fires) /\ Len(<<>>) = 0 /\ DOMAIN <<>> = {}
    OBVIOUS
  <2>2. rec \in Records
    BY <1>1, <2>1, Constants DEF Records, Statuses
  <2>3. Held(rec) = {} /\ ~Doubtful(rec)
    BY DEF Held, Doubtful
  <2>4. rec.fires = <<>> /\ rec.pending = 0 /\ rec.cursor = 0
    OBVIOUS
  <2>5. 0 <= MaxFires
    BY Constants
  <2> HIDE DEF rec
  <2> QED BY <2>1, <2>2, <2>3, <2>4, <2>5, NotifiedNone DEF Sound
<1>4. rec \in Records /\ rec # None
  BY <1>3, SoundTyped
<1> HIDE DEF rec
<1>5. /\ sched' \in [Schedules -> Records \cup {None}] /\ sched'[s] = rec
      /\ \A t \in Schedules : t # s => sched'[t] = sched[t]
  BY <1>1, <1>2, <1>4
<1>6. Added' = Added \cup {s} /\ s \notin Added
  BY <1>2, <1>4, <1>5 DEF Added
<1>7. SchedulesSound'
  BY <1>1, <1>3, <1>5, <1>6 DEF SchedulesSound
<1>8. \A t \in Added' : Told(t, sched'[t], entries') /\ Live(sched'[t], entries')
  <2>1. Told(s, rec, entries') /\ Live(rec, entries')
    BY <1>3 DEF Told, Live, QueuedFires
  <2> QED BY <1>1, <1>2, <1>5, <1>6, <2>1
<1>9. ASSUME NEW i \in DOMAIN entries', entries'[i].by # User
      PROVE  entries'[i].by \in Added' /\ Fired(i)' /\ sched'[entries'[i].by] = sched[entries[i].by]
  <2>1. entries[i].by \in Added /\ Fired(i) /\ entries'[i].by = entries[i].by
    BY <1>2, <1>9 DEF IInv, Linked
  <2>2. sched'[entries[i].by] = sched[entries[i].by]
    BY <1>1, <1>5, <1>6, <2>1
  <2> QED BY <1>6, <2>1, <2>2 DEF Fired
<1>10. Linked'
  BY <1>8, <1>9 DEF Linked
<1>11. HistoryPlaced' /\ TurnAlone'
  BY <1>2 DEF IInv, HistoryPlaced, TurnAlone, Running
<1>12. RevokedStay'
  <2>1. ASSUME at' = "started", NEW i \in Running' \cap revoked'
        PROVE  sched'[entries'[i].by].status # "active"
    <3>1. /\ at = "started" /\ i \in Running \cap revoked /\ entries'[i].by = entries[i].by
          /\ i \in DOMAIN entries' /\ entries'[i].by # User
      BY <1>2, <2>1 DEF Running, IInv, HistoryPlaced
    <3>2. sched[entries[i].by].status # "active"
      BY <3>1 DEF IInv, RevokedStay
    <3> QED BY <1>9, <3>1, <3>2
  <2>2. revoked' \cap sent' = {} /\ (Up' => revoked' \cap Queued(entries') = {})
    BY <1>2 DEF IInv, RevokedStay, Up
  <2> QED BY <2>1, <2>2 DEF RevokedStay
<1>13. ScheduleTypeOK'
  BY <1>1, <1>2, <1>5, <1>11, Typed, NextTyped
<1> QED BY <1>7, <1>10, <1>11, <1>12, <1>13 DEF IInv

LEMMA InScopeSound ==
    ASSUME NEW rec, Sound(rec), NEW here
    PROVE  LET new == InScope(rec, here) IN
           Sound(new) /\ Keeps(rec, new) /\ new.fires = rec.fires
<1>1. CASE here
  BY <1>1 DEF InScope, Keeps, Placed
<1>2. CASE ~here
  <2>1. LET new == InScope(rec, here) IN
        /\ new \in Records /\ new.fires = rec.fires /\ new.status = "blocked"
        /\ new.pending = rec.pending /\ new.cursor = rec.cursor /\ new.doubts = rec.doubts
    BY <1>2 DEF InScope, Sound, Records, Statuses
  <2> QED BY <2>1 DEF Sound, Keeps, Placed, Doubtful, Held
<1> QED BY <1>1, <1>2

LEMMA KeepsTransitive ==
    ASSUME NEW a, NEW b, NEW c, Sound(a), Sound(b), Keeps(a, b), Keeps(b, c)
    PROVE  Keeps(a, c)
BY SoundTyped DEF Keeps, Placed

(* A wakeup is reserved: the fire and its message arrive together. *)
LEMMA ReserveKeeps ==
    ASSUME IInv, NEW s \in Added, NEW rec, Sound(rec), rec.status = "active",
           NEW fire, fire.state = "reserved", fire.at = Len(entries) + 1,
           rec.fires = Append(sched[s].fires, fire), fire \in Fires,
           sched[s].status = "active", Len(entries) < MaxEntries,
           sched' = [sched EXCEPT ![s] = rec],
           entries' = Append(entries, [by |-> s, ofGoal |-> TRUE, status |-> "queued"]),
           UNCHANGED <<goal, at, judged, sent, revoked>>
    PROVE  IInv'
<1> DEFINE wakeup == [by |-> s, ofGoal |-> TRUE, status |-> "queued"]
           n == Len(entries) + 1
           old == sched[s].fires
<1>1. /\ sched \in [Schedules -> Records \cup {None}]
      /\ entries \in Seq(Entry) /\ Len(entries) <= MaxEntries
      /\ DOMAIN entries = 1..Len(entries) /\ Len(entries) \in Nat
      /\ s \in Schedules /\ Sound(sched[s]) /\ sched[s] # None
      /\ \A t \in Added : t \in Schedules /\ Sound(sched[t])
                         /\ Told(t, sched[t], entries) /\ Live(sched[t], entries)
  BY Typed
<1>2. rec \in Records /\ rec # None
  BY SoundTyped
<1>3. /\ sched' \in [Schedules -> Records \cup {None}] /\ sched'[s] = rec
      /\ \A t \in Schedules : t # s => sched'[t] = sched[t]
  BY <1>1, <1>2
<1>4. wakeup \in Entry
  BY <1>1 DEF Entry
<1>5. wakeup.by = s /\ wakeup.status = "queued"
  OBVIOUS
<1>6. entries' = Append(entries, wakeup)
  OBVIOUS
<1> HIDE DEF wakeup
<1>7. /\ entries' \in Seq(Entry) /\ Len(entries') = n
      /\ DOMAIN entries' = 1..n /\ entries'[n] = wakeup /\ n \notin DOMAIN entries
      /\ \A i \in DOMAIN entries : entries'[i] = entries[i]
      /\ \A i \in DOMAIN entries' : i = n \/ i \in DOMAIN entries
  BY <1>1, <1>4, <1>6, AppendProperties, LenProperties
<1>8. /\ old \in Seq(Fires) /\ DOMAIN old = 1..Len(old) /\ Len(old) \in Nat
      /\ DOMAIN rec.fires = 1..Len(old) + 1 /\ rec.fires[Len(old) + 1] = fire
      /\ \A k \in DOMAIN old : rec.fires[k] = old[k]
      /\ \A k \in DOMAIN rec.fires : k = Len(old) + 1 \/ k \in DOMAIN old
  <2>1. old \in Seq(Fires)
    BY <1>1 DEF Sound, Records
  <2> QED BY <2>1, AppendProperties, LenProperties
<1>9. Added' = Added
  BY <1>1, <1>2, <1>3 DEF Added
<1>10. SchedulesSound'
  BY <1>1, <1>3, <1>9, SMTT(30) DEF SchedulesSound
<1>11. Told(s, rec, entries') /\ Live(rec, entries')
  <2>1. ASSUME NEW k \in DOMAIN rec.fires
        PROVE  /\ rec.fires[k].at \in DOMAIN entries' /\ entries'[rec.fires[k].at].by = s
               /\ Tells(rec.fires[k], entries'[rec.fires[k].at].status)
    <3>1. CASE k = Len(old) + 1
      BY <1>1, <1>5, <1>7, <1>8, <3>1, SMTT(30) DEF Tells
    <3>2. CASE k \in DOMAIN old
      <4>1. Told(s, sched[s], entries)
        BY <1>1
      <4>2. /\ old[k].at \in DOMAIN entries /\ entries[old[k].at].by = s
            /\ Tells(old[k], entries[old[k].at].status)
        BY <3>2, <4>1 DEF Told
      <4> QED BY <1>1, <1>7, <1>8, <3>2, <4>2
    <3> QED BY <1>8, <3>1, <3>2
  <2> QED BY <2>1 DEF Told, Live
<1>12. ASSUME NEW t \in Added
       PROVE  Told(t, sched'[t], entries') /\ Live(sched'[t], entries')
  <2>1. CASE t = s
    BY <1>3, <1>11, <2>1
  <2>2. CASE t # s
    <3>1. Told(t, sched[t], entries) /\ Live(sched[t], entries) /\ sched'[t] = sched[t]
      BY <1>1, <1>3, <2>2
    <3>2. Retains(t, entries, entries')
      BY <1>1, <1>7 DEF Retains
    <3>3. Told(t, sched[t], entries') /\ Live(sched[t], entries')
      BY <3>1, <3>2, Undisturbed
    <3> QED BY <3>1, <3>3
  <2> QED BY <2>1, <2>2
<1>13. ASSUME NEW i \in DOMAIN entries', entries'[i].by # User
       PROVE  entries'[i].by \in Added' /\ Fired(i)'
  <2>1. CASE i = n
    <3>1. entries'[i].by = s /\ Len(old) + 1 \in DOMAIN rec.fires
          /\ rec.fires[Len(old) + 1].at = i
      BY <1>5, <1>7, <1>8, <2>1
    <3> QED BY <1>3, <1>9, <3>1 DEF Fired
  <2>2. CASE i \in DOMAIN entries
    <3>1. entries'[i] = entries[i]
      BY <1>7, <2>2
    <3>2. entries[i].by \in Added /\ Fired(i)
      BY <1>13, <2>2, <3>1 DEF IInv, Linked
    <3>3. CASE entries[i].by = s
      <4>1. PICK k \in DOMAIN old : old[k].at = i
        BY <3>2, <3>3 DEF Fired
      <4>2. k \in DOMAIN rec.fires /\ rec.fires[k].at = i
        BY <1>8, <4>1
      <4> QED BY <1>3, <1>9, <3>1, <3>2, <3>3, <4>2 DEF Fired
    <3>4. CASE entries[i].by # s
      <4>1. sched'[entries[i].by] = sched[entries[i].by]
        BY <1>1, <1>3, <3>2, <3>4
      <4> QED BY <1>9, <3>1, <3>2, <4>1 DEF Fired
    <3> QED BY <3>3, <3>4
  <2> QED BY <1>7, <2>1, <2>2
<1>14. Linked'
  BY <1>9, <1>12, <1>13 DEF Linked
<1>15. Running' = Running /\ Queued(entries') = Queued(entries) \cup {n}
  <2>1. n \in DOMAIN entries'
    BY <1>1, <1>7
  <2> QED BY <1>1, <1>5, <1>7, <2>1 DEF Running, Queued
<1>16. HistoryPlaced'
  <2>1. \A i \in DOMAIN entries : i \in DOMAIN entries'
    BY <1>1, <1>7
  <2> QED BY <1>7, <1>15, <2>1 DEF IInv, HistoryPlaced
<1>17. TurnAlone'
  BY <1>15 DEF IInv, TurnAlone
<1>18. RevokedStay'
  <2>1. n \notin revoked
    BY <1>7 DEF IInv, HistoryPlaced
  <2>2. revoked' \cap sent' = {} /\ (Up' => revoked' \cap Queued(entries') = {})
    BY <1>15, <2>1 DEF IInv, RevokedStay, Up
  <2>3. ASSUME at' = "started", NEW i \in Running' \cap revoked'
        PROVE  sched'[entries'[i].by].status # "active"
    <3>1. i \in Running \cap revoked /\ i \in DOMAIN entries /\ entries'[i] = entries[i]
      BY <1>7, <1>15, <2>3 DEF Running
    <3>2. sched[entries[i].by].status # "active" /\ entries[i].by \in Added
      BY <2>3, <3>1 DEF IInv, RevokedStay, HistoryPlaced, Linked
    <3> QED BY <1>1, <1>3, <3>1, <3>2
  <2> QED BY <2>2, <2>3 DEF RevokedStay
<1>19. ScheduleTypeOK'
  <2>1. Len(entries') <= MaxEntries
    BY <1>1, <1>7, Constants
  <2> QED BY <1>3, <1>7, <1>16, <2>1, Typed, NextTyped
<1> QED BY <1>10, <1>14, <1>16, <1>17, <1>18, <1>19 DEF IInv

LEMMA AdmitKeeps ==
    ASSUME IInv, NEW s \in Schedules, NEW reading \in Readings, NEW here \in BOOLEAN,
           Admit(s, reading, here)
    PROVE  IInv'
<1> DEFINE seen == InScope(Observed(sched[s], reading), here)
           offers == /\ seen.status = "active" /\ SafeBoundary /\ Queued(entries) = {}
                     /\ seen.timer \/ seen.pending > 0
           rec == IF offers THEN Reservation(seen) ELSE seen
           fire == [state |-> "reserved", at |-> Len(entries) + 1, events |-> seen.pending]
<1>1. /\ s \in Added /\ (offers => Len(entries) < MaxEntries)
      /\ UNCHANGED <<goal, at, judged, sent>>
      /\ IF rec.status # "active" THEN Stop(s, rec)
         ELSE /\ sched' = [sched EXCEPT ![s] = rec]
              /\ entries' = IF Len(rec.fires) > Len(sched[s].fires)
                            THEN Append(entries, [by |-> s, ofGoal |-> TRUE, status |-> "queued"])
                            ELSE entries
              /\ UNCHANGED revoked
  BY DEF Admit
<1>2. Sound(sched[s]) /\ Exposure \in Nat /\ Len(entries) \in Nat
  BY <1>1, Typed
<1>3. Sound(seen) /\ Keeps(sched[s], seen) /\ seen.fires = sched[s].fires
  <2> DEFINE mid == Observed(sched[s], reading)
  <2>1. Sound(mid) /\ Keeps(sched[s], mid) /\ mid.fires = sched[s].fires
    BY <1>2, ObservedSound
  <2> HIDE DEF mid
  <2>2. LET new == InScope(mid, here) IN
        Sound(new) /\ Keeps(mid, new) /\ new.fires = mid.fires
    BY <2>1, InScopeSound
  <2> QED BY <1>2, <2>1, <2>2, KeepsTransitive DEF mid
<1> HIDE DEF seen
<1>4. seen.status = "active" => sched[s].status = "active"
  BY <1>3 DEF Keeps
<1>5. CASE rec.fires = seen.fires
  <2>1. Sound(rec) /\ (seen.status # "active" => rec.status # "active")
    <3>1. CASE offers
      BY <1>1, <1>2, <1>3, <3>1, ReservationSound
    <3>2. CASE ~offers
      BY <1>3, <3>2
    <3> QED BY <3>1, <3>2
  <2> HIDE DEF rec, offers
  <2>2. Keeps(sched[s], rec) /\ rec.fires = sched[s].fires
    BY <1>3, <1>4, <1>5, <2>1 DEF Keeps, Placed
  <2>3. CASE rec.status # "active"
    BY <1>1, <2>1, <2>2, <2>3, StopKeeps
  <2>4. CASE rec.status = "active"
    <3>1. ~(Len(rec.fires) > Len(sched[s].fires))
      BY <1>2, <2>2 DEF Sound, Records
    <3>2. sched[s].status = "active"
      BY <1>4, <2>1, <2>4
    <3>3. sched' = [sched EXCEPT ![s] = rec] /\ UNCHANGED <<entries, goal, at, judged, sent, revoked>>
      BY <1>1, <2>4, <3>1
    <3> QED BY <1>1, <2>1, <2>2, <2>4, <3>2, <3>3, UpdateKeeps
  <2> QED BY <2>3, <2>4
<1>6. CASE rec.fires # seen.fires
  <2>1. offers
    BY <1>6
  <2>2. seen.status = "active" /\ Len(entries) < MaxEntries /\ rec = Reservation(seen)
    BY <1>1, <2>1
  <2>3. /\ Sound(rec) /\ rec.status = "active" /\ rec.fires = Append(seen.fires, fire)
    BY <1>2, <1>3, <1>6, <2>2, ReservationSound
  <2>4. fire \in Fires /\ fire.state = "reserved" /\ fire.at = Len(entries) + 1
    BY <1>2, <1>3, <2>2, Constants DEF Fires, Sound, Records
  <2> HIDE DEF rec, offers, fire
  <2>5. sched[s].fires \in Seq(Fires)
    BY <1>2 DEF Sound, Records
  <2>6. Len(rec.fires) > Len(sched[s].fires)
    BY <1>3, <2>3, <2>4, <2>5, AppendProperties, LenProperties
  <2>7. /\ sched' = [sched EXCEPT ![s] = rec]
        /\ entries' = Append(entries, [by |-> s, ofGoal |-> TRUE, status |-> "queued"])
        /\ UNCHANGED <<goal, at, judged, sent, revoked>>
    BY <1>1, <2>3, <2>6
  <2> QED BY <1>1, <1>3, <1>4, <2>2, <2>3, <2>4, <2>7, ReserveKeeps
<1> QED BY <1>5, <1>6

LEMMA NotifyKeeps ==
    ASSUME IInv, NEW s \in Schedules, NEW reading \in Readings, NEW n \in 1..MaxEvents,
           Notify(s, n, reading)
    PROVE  IInv'
<1> DEFINE seen == Observed(sched[s], reading)
           rec == Notified(seen, n)
<1>1. /\ s \in Added /\ sched[s].status = "active" /\ UNCHANGED <<goal, at, judged, sent>>
      /\ IF rec.status # "active" THEN Stop(s, rec)
         ELSE sched' = [sched EXCEPT ![s] = rec] /\ UNCHANGED <<entries, revoked>>
  BY DEF Notify
<1>2. Sound(sched[s])
  BY <1>1, Typed
<1>3. Sound(seen) /\ Keeps(sched[s], seen) /\ seen.fires = sched[s].fires
  BY <1>2, ObservedSound
<1> HIDE DEF seen
<1>4. Sound(rec) /\ Keeps(seen, rec) /\ rec.fires = seen.fires
  BY <1>3, NotifiedSound
<1> HIDE DEF rec
<1>5. Keeps(sched[s], rec) /\ rec.fires = sched[s].fires
  BY <1>2, <1>3, <1>4, KeepsTransitive
<1>6. CASE rec.status # "active"
  BY <1>1, <1>4, <1>5, <1>6, StopKeeps
<1>7. CASE rec.status = "active"
  <2>1. sched' = [sched EXCEPT ![s] = rec] /\ UNCHANGED <<entries, goal, at, judged, sent, revoked>>
    BY <1>1, <1>7
  <2> QED BY <1>1, <1>4, <1>5, <1>7, <2>1, UpdateKeeps
<1> QED BY <1>6, <1>7

(* What cancelling, pausing and resuming do to a record. *)
LEMMA CancelledSound ==
    ASSUME NEW old, Sound(old)
    PROVE  LET rec == [old EXCEPT !.status = "cancelled", !.timer = FALSE, !.pending = 0] IN
           /\ Sound(rec) /\ Keeps(old, rec)
           /\ rec.fires = old.fires /\ rec.status # "active"
<1> DEFINE rec == [old EXCEPT !.status = "cancelled", !.timer = FALSE, !.pending = 0]
<1>1. /\ rec \in Records /\ rec.fires = old.fires /\ rec.status = "cancelled"
      /\ rec.pending = 0 /\ rec.cursor = old.cursor /\ rec.doubts = old.doubts
      /\ NotifiedBy(rec.fires) + 0 <= rec.cursor
  <2>1. 0 \in 0..MaxEvents /\ FALSE \in BOOLEAN /\ "cancelled" \in Statuses
    BY Constants DEF Statuses
  <2>2. old \in Records /\ NotifiedBy(old.fires) + 0 <= old.cursor
    BY SoundCounts DEF Sound
  <2> QED BY <2>1, <2>2 DEF Records
<1> HIDE DEF rec
<1>2. Sound(rec) /\ Keeps(old, rec)
  BY <1>1 DEF Sound, Keeps, Placed, Doubtful, Held
<1> QED BY <1>1, <1>2 DEF rec

LEMMA PausedSound ==
    ASSUME NEW old, Sound(old)
    PROVE  LET rec == [old EXCEPT !.status = "paused"] IN
           /\ Sound(rec) /\ Keeps(old, rec)
           /\ rec.fires = old.fires /\ rec.status # "active"
<1> DEFINE rec == [old EXCEPT !.status = "paused"]
<1>1. /\ rec \in Records /\ rec.fires = old.fires /\ rec.status = "paused"
      /\ rec.pending = old.pending /\ rec.cursor = old.cursor
      /\ rec.doubts = old.doubts
  BY DEF Sound, Records, Statuses
<1> HIDE DEF rec
<1>2. Sound(rec) /\ Keeps(old, rec)
  BY <1>1 DEF Sound, Keeps, Placed, Doubtful, Held
<1> QED BY <1>1, <1>2 DEF rec

LEMMA ResumedSound ==
    ASSUME NEW old, Sound(old), old.doubts = 0, Exposure \in Nat
    PROVE  LET rec == [old EXCEPT !.status = "active", !.timer = FALSE,
                                  !.exposure = Upper(old.exposure, Exposure)] IN
           Sound(rec) /\ rec.fires = old.fires /\ rec.status = "active"
<1> DEFINE rec == [old EXCEPT !.status = "active", !.timer = FALSE,
                              !.exposure = Upper(old.exposure, Exposure)]
<1>1. /\ rec \in Records /\ rec.fires = old.fires /\ rec.status = "active"
      /\ rec.pending = old.pending /\ rec.cursor = old.cursor
  <2>1. /\ Upper(old.exposure, Exposure) \in Nat /\ FALSE \in BOOLEAN
        /\ "active" \in Statuses /\ old \in Records
    BY DEF Upper, Sound, Records, Statuses
  <2> QED BY <2>1 DEF Records
<1> HIDE DEF rec
<1>2. ~Doubtful(rec)
  BY <1>1 DEF Sound, Doubtful
<1>3. Sound(rec)
  BY <1>1, <1>2 DEF Sound, Held
<1> QED BY <1>1, <1>3 DEF rec

LEMMA CancelKeeps ==
    ASSUME IInv, NEW s \in Schedules, CancelSchedule(s)
    PROVE  IInv'
<1> DEFINE rec == [sched[s] EXCEPT !.status = "cancelled", !.timer = FALSE, !.pending = 0]
<1>1. s \in Added /\ Stop(s, rec) /\ UNCHANGED <<goal, at, judged, sent>>
  BY DEF CancelSchedule
<1>2. Sound(sched[s])
  BY <1>1, Typed
<1>3. Sound(rec) /\ Keeps(sched[s], rec) /\ rec.fires = sched[s].fires /\ rec.status # "active"
  BY <1>2, CancelledSound, Zenon
<1> HIDE DEF rec
<1> QED BY <1>1, <1>3, StopKeeps

LEMMA PauseKeeps ==
    ASSUME IInv, NEW s \in Schedules, PauseSchedule(s)
    PROVE  IInv'
<1> DEFINE rec == [sched[s] EXCEPT !.status = "paused"]
<1>1. s \in Added /\ Stop(s, rec) /\ UNCHANGED <<goal, at, judged, sent>>
  BY DEF PauseSchedule
<1>2. Sound(sched[s])
  BY <1>1, Typed
<1>3. Sound(rec) /\ Keeps(sched[s], rec) /\ rec.fires = sched[s].fires /\ rec.status # "active"
  BY <1>2, PausedSound
<1> HIDE DEF rec
<1> QED BY <1>1, <1>3, StopKeeps

LEMMA ResumeKeeps ==
    ASSUME IInv, NEW s \in Schedules, NEW reading \in Readings, ResumeSchedule(s, reading)
    PROVE  IInv'
<1> DEFINE seen == Observed(sched[s], reading)
           rec == [seen EXCEPT !.status = "active", !.timer = FALSE,
                               !.exposure = Upper(seen.exposure, Exposure)]
<1>1. /\ s \in Added /\ at = "idle" /\ seen.doubts = 0
      /\ sched' = [sched EXCEPT ![s] = rec]
      /\ UNCHANGED <<entries, goal, at, judged, sent, revoked>>
  BY DEF ResumeSchedule, Resumable, SafeBoundary, history
<1>2. Sound(sched[s]) /\ Exposure \in Nat
  BY <1>1, Typed
<1>3. Sound(seen) /\ seen.fires = sched[s].fires
  BY <1>2, ObservedSound
<1> HIDE DEF seen
<1>4. Sound(rec) /\ rec.fires = seen.fires /\ rec.status = "active"
  BY <1>1, <1>2, <1>3, ResumedSound, Zenon
<1> HIDE DEF rec
<1> QED BY <1>1, <1>3, <1>4, UpdateKeeps

LEMMA CadenceKeeps ==
    ASSUME IInv, NEW s \in Schedules, NEW reading \in Readings, SetCadence(s, reading)
    PROVE  IInv'
<1> DEFINE seen == Observed(sched[s], reading)
<1>1. /\ s \in Added /\ seen.status = "active" /\ sched' = [sched EXCEPT ![s] = seen]
      /\ UNCHANGED <<entries, goal, at, judged, sent, revoked>>
  BY DEF SetCadence, history
<1>2. Sound(sched[s])
  BY <1>1, Typed
<1>3. Sound(seen) /\ Keeps(sched[s], seen) /\ seen.fires = sched[s].fires
  BY <1>2, ObservedSound
<1> HIDE DEF seen
<1>4. sched[s].status = "active"
  BY <1>1, <1>3 DEF Keeps
<1> QED BY <1>1, <1>3, <1>4, UpdateKeeps

-----------------------------------------------------------------------------
(* One lemma per action of the conversation. *)

(* Superseding without a new message: the queue is cancelled, or recovery  *)
(* settles the records on top of it.                                       *)
LEMMA CancelQueuedKeeps ==
    ASSUME IInv, CancelQueued
    PROVE  IInv'
<1> DEFINE P == Queued(entries)
           cut == CancelAt(entries, P)
<1>1. /\ sched \in [Schedules -> Records \cup {None}] /\ Len(entries) <= MaxEntries
      /\ \A t \in Added : t \in Schedules /\ sched[t] # None
  BY Typed
<1>2. QueuedWakeups \subseteq P
  BY DEF QueuedWakeups
<1>3. /\ cut \in Seq(Entry) /\ Len(cut) = Len(entries) /\ DOMAIN cut = DOMAIN entries
      /\ \A i \in DOMAIN entries :
           /\ cut[i].by = entries[i].by
           /\ (cut[i].status = "running") <=> (entries[i].status = "running")
           /\ (cut[i].status = "queued") <=> (entries[i].status = "queued" /\ i \notin P)
      /\ \A s \in Added :
           LET new == Retired(sched[s], entries) IN
           /\ Sound(new) /\ Keeps(sched[s], new)
           /\ Told(s, new, cut) /\ QueuedFires(new, cut) = {}
  BY <1>2, SupersededTold
<1>4. /\ sched' = Superseded /\ entries' = cut /\ revoked' = revoked \cup QueuedWakeups
      /\ UNCHANGED <<goal, at, judged, sent>>
  BY DEF CancelQueued
<1> HIDE DEF cut
<1>5. /\ \A s \in Schedules : s \in Added => sched'[s] = Retired(sched[s], entries)
      /\ \A s \in Schedules : s \notin Added => sched'[s] = None
      /\ DOMAIN sched' = Schedules /\ sched' = [s \in Schedules |-> sched'[s]]
  BY <1>4 DEF Superseded
<1>6. \A s \in Added :
         /\ Sound(sched'[s]) /\ Keeps(sched[s], sched'[s]) /\ sched'[s] # None
         /\ sched'[s] \in Records
         /\ Told(s, sched'[s], entries') /\ Live(sched'[s], entries')
  BY <1>1, <1>3, <1>4, <1>5, SoundTyped DEF Live
<1>7. sched' \in [Schedules -> Records \cup {None}]
  BY <1>5, <1>6
<1>8. SchedulesSound' /\ Linked' /\ Added' = Added
  <2>1. \A s \in Schedules : (sched'[s] = None) <=> (sched[s] = None)
    BY <1>5, <1>6 DEF Added
  <2>2. \A s \in Added : /\ Sound(sched'[s]) /\ Placed(sched[s], sched'[s])
                         /\ Told(s, sched'[s], entries') /\ Live(sched'[s], entries')
    BY <1>6 DEF Keeps
  <2>3. /\ entries' \in Seq(Entry) /\ DOMAIN entries' = DOMAIN entries
        /\ \A i \in DOMAIN entries : entries'[i].by = entries[i].by
    BY <1>3, <1>4
  <2> QED BY <1>7, <2>1, <2>2, <2>3, Assembled
<1>9. Running' = Running /\ Queued(entries') = {}
  BY <1>3, <1>4 DEF Running, Queued
<1>10. HistoryPlaced'
  BY <1>3, <1>4, <1>9 DEF IInv, HistoryPlaced, QueuedWakeups, Queued
<1>11. TurnAlone'
  BY <1>4, <1>9 DEF IInv, TurnAlone
<1>12. RevokedStay'
  <2>1. revoked' \cap sent' = {}
    BY <1>4 DEF IInv, RevokedStay, HistoryPlaced, QueuedWakeups
  <2>2. ASSUME at' = "started", NEW i \in Running' \cap revoked'
        PROVE  sched'[entries'[i].by].status # "active"
    <3>1. i \in Running \cap revoked /\ entries'[i].by = entries[i].by
      BY <1>3, <1>4, <1>9, <2>2 DEF Running, QueuedWakeups, Queued
    <3>2. sched[entries[i].by].status # "active" /\ entries[i].by \in Added
      BY <1>4, <2>2, <3>1 DEF IInv, RevokedStay, HistoryPlaced, Linked
    <3>3. Keeps(sched[entries[i].by], sched'[entries[i].by])
      BY <1>6, <3>2
    <3> QED BY <3>1, <3>2, <3>3 DEF Keeps
  <2> QED BY <1>9, <2>1, <2>2 DEF RevokedStay
<1>13. ScheduleTypeOK'
  <2>1. Len(entries') <= MaxEntries /\ entries' \in Seq(Entry)
    BY <1>1, <1>3, <1>4
  <2> QED BY <1>4, <1>7, <1>10, <2>1, Typed, NextTyped
<1> QED BY <1>8, <1>10, <1>11, <1>12, <1>13 DEF IInv

LEMMA SubmitKeeps ==
    ASSUME IInv, Submit
    PROVE  IInv'
<1> DEFINE cut == CancelAt(entries, QueuedWakeups)
           said == [by |-> User, ofGoal |-> goal.status = "working", status |-> "queued"]
           n == Len(entries) + 1
<1>1. /\ sched \in [Schedules -> Records \cup {None}] /\ Len(entries) \in Nat
      /\ DOMAIN entries = 1..Len(entries)
      /\ \A t \in Added : t \in Schedules /\ sched[t] # None
  BY Typed
<1>2. QueuedWakeups \subseteq Queued(entries)
  BY DEF QueuedWakeups
<1>3. /\ cut \in Seq(Entry) /\ Len(cut) = Len(entries) /\ DOMAIN cut = DOMAIN entries
      /\ \A i \in DOMAIN entries :
           /\ cut[i].by = entries[i].by
           /\ (cut[i].status = "running") <=> (entries[i].status = "running")
           /\ (cut[i].status = "queued") <=> (entries[i].status = "queued" /\ i \notin QueuedWakeups)
      /\ \A s \in Added :
           LET new == Retired(sched[s], entries) IN
           /\ Sound(new) /\ Keeps(sched[s], new)
           /\ Told(s, new, cut) /\ QueuedFires(new, cut) = {}
  BY <1>2, SupersededTold
<1>4. /\ sched' = Superseded /\ entries' = Append(cut, said)
      /\ revoked' = revoked \cup QueuedWakeups /\ Len(entries) < MaxEntries
      /\ UNCHANGED <<goal, at, judged, sent>>
  BY DEF Submit
<1> HIDE DEF cut
<1>5. said \in Entry /\ said.by = User /\ said.status = "queued"
  <2> DEFINE ofGoal == goal.status = "working"
  <2>1. ofGoal \in BOOLEAN
    OBVIOUS
  <2> HIDE DEF ofGoal
  <2> QED BY <2>1 DEF Entry
<1> HIDE DEF said
<1>6. /\ entries' \in Seq(Entry) /\ Len(entries') = n
      /\ DOMAIN entries' = 1..n /\ entries'[n] = said /\ n \notin DOMAIN entries
      /\ \A i \in DOMAIN entries : entries'[i] = cut[i] /\ i \in DOMAIN entries'
      /\ \A i \in DOMAIN entries' : i = n \/ i \in DOMAIN entries
  BY <1>1, <1>3, <1>4, <1>5, AppendProperties, LenProperties
<1>7. /\ \A s \in Schedules : s \in Added => sched'[s] = Retired(sched[s], entries)
      /\ \A s \in Schedules : s \notin Added => sched'[s] = None
      /\ DOMAIN sched' = Schedules /\ sched' = [s \in Schedules |-> sched'[s]]
  BY <1>4 DEF Superseded
<1>8. ASSUME NEW s \in Added
      PROVE  /\ Sound(sched'[s]) /\ Keeps(sched[s], sched'[s]) /\ sched'[s] # None
             /\ sched'[s] \in Records
             /\ Told(s, sched'[s], entries') /\ Live(sched'[s], entries')
  <2>1. /\ Sound(sched'[s]) /\ Keeps(sched[s], sched'[s])
        /\ Told(s, sched'[s], cut) /\ Live(sched'[s], cut)
    BY <1>1, <1>3, <1>7 DEF Live
  <2>2. Retains(s, cut, entries')
    BY <1>3, <1>6 DEF Retains
  <2> QED BY <2>1, <2>2, Undisturbed, SoundTyped
<1>9. sched' \in [Schedules -> Records \cup {None}]
  BY <1>7, <1>8
<1>10. Added' = Added
  BY <1>7, <1>8 DEF Added
<1>11. SchedulesSound'
  BY <1>8, <1>10 DEF SchedulesSound
<1>12. ASSUME NEW i \in DOMAIN entries', entries'[i].by # User
       PROVE  entries'[i].by \in Added' /\ Fired(i)'
  <2>1. i \in DOMAIN entries /\ entries'[i].by = entries[i].by
    BY <1>3, <1>5, <1>6, <1>12
  <2>2. entries[i].by \in Added /\ Fired(i)
    BY <1>12, <2>1 DEF IInv, Linked
  <2>3. PICK k \in DOMAIN sched[entries[i].by].fires : sched[entries[i].by].fires[k].at = i
    BY <2>2 DEF Fired
  <2>4. Placed(sched[entries[i].by], sched'[entries[i].by]) /\ Sound(sched'[entries[i].by])
        /\ Sound(sched[entries[i].by])
    BY <1>8, <2>2, Typed DEF Keeps
  <2>5. /\ DOMAIN sched'[entries[i].by].fires = DOMAIN sched[entries[i].by].fires
        /\ sched'[entries[i].by].fires[k].at = i
    BY <2>3, <2>4, SoundTyped DEF Placed
  <2> QED BY <1>10, <2>1, <2>2, <2>3, <2>5 DEF Fired
<1>13. Linked'
  BY <1>8, <1>10, <1>12 DEF Linked
<1>14. Running' = Running
  BY <1>3, <1>5, <1>6 DEF Running
<1>15. Queued(entries') \subseteq (Queued(entries) \ QueuedWakeups) \cup {n}
  BY <1>3, <1>6 DEF Queued
<1>16. n \notin sent /\ n \notin revoked
  BY <1>6 DEF IInv, HistoryPlaced
<1>17. HistoryPlaced'
  <2>1. sent' \subseteq DOMAIN entries' /\ sent' \cap Queued(entries') = {}
    BY <1>4, <1>6, <1>15, <1>16 DEF IInv, HistoryPlaced
  <2>2. ASSUME NEW i \in revoked'
        PROVE  i \in DOMAIN entries' /\ entries'[i].by # User
    <3>1. i \in DOMAIN entries /\ entries[i].by # User
      BY <1>4, <2>2 DEF IInv, HistoryPlaced, QueuedWakeups, Queued
    <3> QED BY <1>3, <1>6, <3>1
  <2> QED BY <2>1, <2>2 DEF HistoryPlaced
<1>18. TurnAlone'
  BY <1>4, <1>14 DEF IInv, TurnAlone
<1>19. RevokedStay'
  <2>1. revoked' \cap sent' = {}
    BY <1>4 DEF IInv, RevokedStay, HistoryPlaced, QueuedWakeups
  <2>2. Up' => revoked' \cap Queued(entries') = {}
    BY <1>4, <1>6, <1>15, <1>16 DEF IInv, RevokedStay, Up, QueuedWakeups, Queued
  <2>3. ASSUME at' = "started", NEW i \in Running' \cap revoked'
        PROVE  sched'[entries'[i].by].status # "active"
    <3>1. i \in Running \cap revoked /\ entries'[i].by = entries[i].by
      BY <1>3, <1>4, <1>6, <1>14, <2>3 DEF Running, QueuedWakeups, Queued
    <3>2. sched[entries[i].by].status # "active" /\ entries[i].by \in Added
      BY <1>4, <2>3, <3>1 DEF IInv, RevokedStay, HistoryPlaced, Linked
    <3>3. Keeps(sched[entries[i].by], sched'[entries[i].by])
      BY <1>8, <3>2
    <3> QED BY <3>1, <3>2, <3>3 DEF Keeps
  <2> QED BY <2>1, <2>2, <2>3 DEF RevokedStay
<1>20. ScheduleTypeOK'
  <2>1. Len(entries') <= MaxEntries
    BY <1>1, <1>4, <1>6, Constants
  <2> QED BY <1>4, <1>6, <1>9, <1>17, <2>1, Typed, NextTyped
<1> QED BY <1>11, <1>13, <1>17, <1>18, <1>19, <1>20 DEF IInv

(* A held fire has a message that is queued or runs. *)
LEMMA HeldMessage ==
    ASSUME NEW s, NEW rec, NEW ents \in Seq(Entry), Told(s, rec, ents), NEW k \in Held(rec)
    PROVE  ents[rec.fires[k].at].status \in {"queued", "running"}
<1>1. rec.fires[k].at \in DOMAIN ents /\ Tells(rec.fires[k], ents[rec.fires[k].at].status)
      /\ rec.fires[k].state = "reserved"
  BY DEF Told, Held
<1>2. ents[rec.fires[k].at] \in Entry
  BY <1>1, EntryTypes
<1> QED BY <1>1, <1>2 DEF Tells, Entry

LEMMA RecoverKeeps ==
    ASSUME IInv, NEW reading \in Readings, RecoverSchedules(reading)
    PROVE  IInv'
<1> DEFINE cut == CancelAt(entries, QueuedWakeups)
           Old(s) == Retired(sched[s], entries)
<1>1. /\ sched \in [Schedules -> Records \cup {None}] /\ Len(entries) <= MaxEntries
      /\ \A t \in Added : t \in Schedules /\ sched[t] # None
      /\ Exposure \in Nat /\ goal.unsure \in BOOLEAN
  BY Typed
<1>2. QueuedWakeups \subseteq Queued(entries)
  BY DEF QueuedWakeups
<1>3. /\ cut \in Seq(Entry) /\ Len(cut) = Len(entries) /\ DOMAIN cut = DOMAIN entries
      /\ \A i \in DOMAIN entries :
           /\ cut[i].by = entries[i].by
           /\ (cut[i].status = "running") <=> (entries[i].status = "running")
           /\ (cut[i].status = "queued") <=> (entries[i].status = "queued" /\ i \notin QueuedWakeups)
      /\ \A s \in Added :
           /\ Sound(Old(s)) /\ Keeps(sched[s], Old(s))
           /\ Told(s, Old(s), cut) /\ QueuedFires(Old(s), cut) = {}
  BY <1>2, SupersededTold
<1>4. /\ at = "recovering" /\ at' = "idle" /\ entries' = cut
      /\ UNCHANGED <<goal, judged, sent, revoked>>
      /\ sched' = [s \in Schedules |-> IF s \in Added THEN Recovered(Old(s), reading) ELSE None]
  BY DEF RecoverSchedules, history
<1> HIDE DEF cut, Old
<1>5. /\ \A s \in Schedules : s \in Added => sched'[s] = Recovered(Old(s), reading)
      /\ \A s \in Schedules : s \notin Added => sched'[s] = None
      /\ DOMAIN sched' = Schedules /\ sched' = [s \in Schedules |-> sched'[s]]
  BY <1>4
<1>6. Running = {} /\ Running' = {}
  BY <1>3, <1>4 DEF IInv, TurnAlone, Running
<1>7. ASSUME NEW s \in Added
      PROVE  /\ Sound(sched'[s]) /\ Keeps(sched[s], sched'[s]) /\ sched'[s] # None
             /\ sched'[s] \in Records
             /\ Told(s, sched'[s], entries') /\ Live(sched'[s], entries')
  <2> DEFINE old == Old(s)
             new == Recovered(old, reading)
  <2>1. /\ Sound(old) /\ Keeps(sched[s], old) /\ Told(s, old, cut)
        /\ QueuedFires(old, cut) = {}
    BY <1>3
  <2>2. Held(old) = {}
    <3> SUFFICES ASSUME NEW k \in Held(old) PROVE FALSE
      OBVIOUS
    <3>1. cut[old.fires[k].at].status \in {"queued", "running"} /\ old.fires[k].at \in DOMAIN cut
          /\ k \in DOMAIN old.fires
      BY <1>3, <2>1, HeldMessage DEF Told, Held
    <3> QED BY <1>3, <1>6, <2>1, <3>1 DEF QueuedFires, Queued, Running
  <2> HIDE DEF old
  <2>3. /\ Sound(new) /\ Keeps(old, new)
        /\ \A k \in DOMAIN old.fires : new.fires[k] = old.fires[k]
    BY <1>1, <2>1, <2>2, RecoveredSound
  <2>4. sched'[s] = new
    BY <1>1, <1>5 DEF old
  <2> HIDE DEF new
  <2>5. DOMAIN new.fires = DOMAIN old.fires
    BY <2>1, <2>3, SoundTyped DEF Keeps, Placed
  <2>6. Told(s, new, cut) /\ QueuedFires(new, cut) = {}
    BY <2>1, <2>3, <2>5 DEF Told, QueuedFires
  <2>7. Sound(sched[s])
    BY Typed
  <2>8. Keeps(sched[s], new)
    BY <2>1, <2>3, <2>7, KeepsTransitive
  <2> QED BY <1>4, <2>3, <2>4, <2>6, <2>8, SoundTyped DEF Live
<1>8. sched' \in [Schedules -> Records \cup {None}]
  BY <1>5, <1>7
<1>9. SchedulesSound' /\ Linked' /\ Added' = Added
  <2>1. \A s \in Schedules : (sched'[s] = None) <=> (sched[s] = None)
    BY <1>5, <1>7 DEF Added
  <2>2. \A s \in Added : /\ Sound(sched'[s]) /\ Placed(sched[s], sched'[s])
                         /\ Told(s, sched'[s], entries') /\ Live(sched'[s], entries')
    BY <1>7 DEF Keeps
  <2>3. /\ entries' \in Seq(Entry) /\ DOMAIN entries' = DOMAIN entries
        /\ \A i \in DOMAIN entries : entries'[i].by = entries[i].by
    BY <1>3, <1>4
  <2> QED BY <1>8, <2>1, <2>2, <2>3, Assembled
<1>10. Queued(entries') \subseteq Queued(entries) \ QueuedWakeups
  BY <1>3, <1>4 DEF Queued
<1>11. HistoryPlaced'
  BY <1>3, <1>4, <1>10 DEF IInv, HistoryPlaced
<1>12. TurnAlone'
  BY <1>4, <1>6 DEF TurnAlone
<1>13. RevokedStay'
  <2>1. revoked \cap Queued(entries) \subseteq QueuedWakeups
    BY DEF IInv, HistoryPlaced, QueuedWakeups
  <2> QED BY <1>4, <1>10, <2>1 DEF IInv, RevokedStay
<1>14. ScheduleTypeOK'
  <2>1. Len(entries') <= MaxEntries /\ entries' \in Seq(Entry)
    BY <1>1, <1>3, <1>4
  <2> QED BY <1>4, <1>8, <1>11, <2>1, Typed, NextTyped
<1> QED BY <1>9, <1>11, <1>12, <1>13, <1>14 DEF IInv

(* The end of a turn, and the restart that interrupts one. *)
LEMMA FailsKeeps ==
    ASSUME IInv, NEW i \in Running, NEW reading,
           NEW status \in {"failed", "cancelled", "interrupted"},
           Fails(i, reading, status), UNCHANGED <<judged, sent>>,
           \A j \in revoked' : j \in DOMAIN entries /\ entries[j].by # User,
           revoked' \cap sent = {},
           \/ at' = "recovering"
           \/ at' = "idle" /\ revoked' = revoked /\ Up
    PROVE  IInv'
<1>1. /\ sched' \in [Schedules -> Records \cup {None}]
      /\ entries' \in Seq(Entry) /\ Len(entries') = Len(entries)
      /\ DOMAIN entries' = DOMAIN entries
      /\ \A j \in DOMAIN entries : entries'[j].by = entries[j].by
      /\ goal' \in [status : {"working", "waiting", "stopped"}, attempts : Nat,
                    unsure : BOOLEAN]
      /\ Running' = {} /\ Queued(entries') = Queued(entries)
      /\ SchedulesSound' /\ Linked'
  BY FailsTold
<1>2. HistoryPlaced'
  BY <1>1 DEF IInv, HistoryPlaced
<1>3. TurnAlone'
  BY <1>1 DEF TurnAlone
<1>4. RevokedStay'
  BY <1>1 DEF IInv, RevokedStay, Up
<1>5. ScheduleTypeOK'
  <2>1. Len(entries') <= MaxEntries /\ judged' \in Nat
    BY <1>1, Typed
  <2>2. at' \in {"recovering", "idle", "started", "sent"}
    OBVIOUS
  <2> QED BY <1>1, <1>2, <2>1, <2>2, NextTyped
<1> QED BY <1>1, <1>2, <1>3, <1>4, <1>5 DEF IInv

LEMMA StartKeeps ==
    ASSUME IInv, NEW i \in DOMAIN entries, NEW reading \in Readings, NEW here \in BOOLEAN,
           Start(i, reading, here)
    PROVE  IInv'
<1>1. /\ entries \in Seq(Entry) /\ Len(entries) <= MaxEntries
      /\ sched \in [Schedules -> Records \cup {None}]
      /\ \A t \in Added : t \in Schedules /\ Sound(sched[t]) /\ sched[t] # None
                         /\ Told(t, sched[t], entries) /\ Live(sched[t], entries)
      /\ goal \in [status : {"working", "waiting", "stopped"}, attempts : Nat,
                   unsure : BOOLEAN]
      /\ goal.attempts \in Nat
  BY Typed
<1>2. at = "idle" /\ i \in Queued(entries) /\ UNCHANGED <<judged, sent>>
  BY DEF Start
<1>3. CASE ~Valid(i, reading, here)
  <2>1. Stop(entries[i].by, sched[entries[i].by]) /\ UNCHANGED <<goal, at, judged, sent>>
    BY <1>3 DEF Start
  <2>2. entries[i].by \in Added
    BY <1>3 DEF Valid, IInv, Linked
  <2>3. Sound(sched[entries[i].by]) /\ Keeps(sched[entries[i].by], sched[entries[i].by])
    BY <1>1, <2>2 DEF Keeps, Placed
  <2> QED BY <1>2, <2>1, <2>2, <2>3, StopKeeps
<1>4. CASE Valid(i, reading, here) /\ entries[i].ofGoal /\ ExposureBut(i) + 1 > Attempts
  <2>1. goal' = [goal EXCEPT !.status = "stopped"]
        /\ UNCHANGED <<sched, entries, at, judged, sent, revoked>>
    BY <1>4 DEF Start
  <2>2. goal' \in [status : {"working", "waiting", "stopped"}, attempts : Nat, unsure : BOOLEAN]
    BY <1>1, <2>1
  <2> QED BY <2>1, <2>2 DEF IInv, ScheduleTypeOK, SchedulesSound, Linked, TurnAlone,
             HistoryPlaced, RevokedStay, Added, Running, Up, Fired
<1>5. CASE Valid(i, reading, here) /\ ~(entries[i].ofGoal /\ ExposureBut(i) + 1 > Attempts)
  <2>1. /\ entries' = [entries EXCEPT ![i].status = "running"] /\ at' = "started"
        /\ goal' = IF entries[i].ofGoal THEN [goal EXCEPT !.attempts = @ + 1] ELSE goal
        /\ UNCHANGED <<sched, revoked>>
    BY <1>5 DEF Start
  <2>2. /\ entries' \in Seq(Entry) /\ Len(entries') = Len(entries)
        /\ DOMAIN entries' = DOMAIN entries
        /\ \A j \in DOMAIN entries : entries'[j].by = entries[j].by /\ (j # i => entries'[j] = entries[j])
        /\ entries'[i].status = "running"
    <3>1. entries' = Marked(entries, i, "running")
      BY <2>1 DEF Marked
    <3>2. Rewrites(entries, entries', i, "running")
      BY <1>1, <3>1, Resettled
    <3> QED BY <3>2 DEF Rewrites
  <2>3. goal' \in [status : {"working", "waiting", "stopped"}, attempts : Nat, unsure : BOOLEAN]
    <3>1. goal.attempts + 1 \in Nat
      BY <1>1
    <3> QED BY <1>1, <2>1, <3>1
  <2>4. entries[i].status = "queued"
    BY <1>2 DEF Queued
  <2>5. Running' = {i}
    BY <1>2, <2>2 DEF IInv, TurnAlone, Running
  <2>6. Queued(entries') \subseteq Queued(entries) /\ i \notin Queued(entries')
    BY <2>2 DEF Queued
  <2>7. ASSUME NEW s \in Added
        PROVE  /\ Sound(sched'[s]) /\ Placed(sched[s], sched'[s])
               /\ Told(s, sched'[s], entries') /\ Live(sched'[s], entries')
    <3>1. /\ Sound(sched[s]) /\ sched'[s] = sched[s]
          /\ Told(s, sched[s], entries) /\ Live(sched[s], entries)
      BY <1>1, <2>1
    <3>2. ASSUME NEW k \in DOMAIN sched[s].fires
          PROVE  LET fire == sched[s].fires[k] IN
                 /\ fire.at \in DOMAIN entries' /\ entries'[fire.at].by = s
                 /\ Tells(fire, entries'[fire.at].status)
      <4>1. LET fire == sched[s].fires[k] IN
            /\ fire.at \in DOMAIN entries /\ entries[fire.at].by = s
            /\ Tells(fire, entries[fire.at].status)
        BY <3>1 DEF Told
      <4>2. CASE sched[s].fires[k].at = i
        BY <2>2, <2>4, <4>1, <4>2 DEF Tells
      <4>3. CASE sched[s].fires[k].at # i
        BY <2>2, <4>1, <4>3
      <4> QED BY <4>2, <4>3
    <3>3. Told(s, sched[s], entries')
      BY <3>2 DEF Told
    <3>4. Live(sched[s], entries')
      BY <2>6, <3>1 DEF Live, QueuedFires
    <3> QED BY <3>1, <3>3, <3>4 DEF Placed
  <2>8. SchedulesSound' /\ Linked'
    BY <1>1, <2>1, <2>2, <2>7, Assembled
  <2>9. HistoryPlaced'
    BY <1>2, <2>1, <2>2, <2>6 DEF IInv, HistoryPlaced
  <2>10. TurnAlone'
    BY <2>1, <2>5 DEF TurnAlone
  <2>11. RevokedStay'
    BY <1>2, <2>1, <2>5, <2>6 DEF IInv, RevokedStay, Up
  <2>12. ScheduleTypeOK'
    <3>1. Len(entries') <= MaxEntries /\ judged' \in Nat
      BY <1>1, <1>2, <2>2, Typed
    <3> QED BY <1>1, <2>1, <2>2, <2>3, <2>9, <3>1, NextTyped
  <2> QED BY <2>8, <2>9, <2>10, <2>11, <2>12 DEF IInv
<1> QED BY <1>3, <1>4, <1>5

LEMMA SendKeeps ==
    ASSUME IInv, NEW i \in DOMAIN entries, NEW reading \in Readings, NEW here \in BOOLEAN,
           Send(i, reading, here)
    PROVE  IInv'
<1>1. at = "started" /\ i \in Running /\ UNCHANGED <<judged, revoked>>
  BY DEF Send
<1>2. CASE Valid(i, reading, here)
  <2>1. at' = "sent" /\ sent' = sent \cup {i} /\ UNCHANGED <<sched, entries, goal>>
    BY <1>2 DEF Send
  <2>2. i \notin revoked
    <3>1. CASE entries[i].by = User
      BY <3>1 DEF IInv, HistoryPlaced
    <3>2. CASE entries[i].by # User
      <4>1. sched[entries[i].by].status = "active"
        BY <1>2, <3>2 DEF Valid
      <4> QED BY <1>1, <4>1 DEF IInv, RevokedStay
    <3> QED BY <3>1, <3>2
  <2>3. i \notin Queued(entries)
    BY <1>1 DEF Running, Queued
  <2>4. HistoryPlaced'
    BY <1>1, <2>1, <2>3 DEF IInv, HistoryPlaced
  <2>5. TurnAlone' /\ RevokedStay'
    BY <1>1, <2>1, <2>2 DEF IInv, TurnAlone, RevokedStay, Running, Up
  <2>6. SchedulesSound' /\ Linked'
    BY <2>1 DEF IInv, SchedulesSound, Linked, Added, Fired
  <2>7. ScheduleTypeOK'
    BY <1>1, <2>1, <2>4, Typed, NextTyped
  <2> QED BY <2>4, <2>5, <2>6, <2>7 DEF IInv
<1>3. CASE ~Valid(i, reading, here)
  <2>1. Fails(i, reading, "failed") /\ at' = "idle" /\ UNCHANGED sent
    BY <1>3 DEF Send
  <2>2. /\ \A j \in revoked' : j \in DOMAIN entries /\ entries[j].by # User
        /\ revoked' \cap sent = {} /\ Up
    BY <1>1 DEF IInv, HistoryPlaced, RevokedStay, Up
  <2> QED BY <1>1, <2>1, <2>2, FailsKeeps
<1> QED BY <1>2, <1>3

LEMMA TurnFailsKeeps ==
    ASSUME IInv, NEW i \in DOMAIN entries, NEW reading \in Readings,
           NEW status \in {"failed", "cancelled"}, TurnFails(i, reading, status)
    PROVE  IInv'
<1>1. /\ at \in {"started", "sent"} /\ i \in Running /\ Fails(i, reading, status)
      /\ at' = "idle" /\ UNCHANGED <<judged, sent, revoked>>
  BY DEF TurnFails, history
<1>2. /\ \A j \in revoked' : j \in DOMAIN entries /\ entries[j].by # User
      /\ revoked' \cap sent = {} /\ Up
  BY <1>1 DEF IInv, HistoryPlaced, RevokedStay, Up
<1>3. status \in {"failed", "cancelled", "interrupted"}
  OBVIOUS
<1> QED BY <1>1, <1>2, <1>3, FailsKeeps

LEMMA RestartKeeps ==
    ASSUME IInv, NEW reading \in Readings, Restart(reading)
    PROVE  IInv'
<1> DEFINE left == UNION {Unsent(s) : s \in Added}
<1>1. at' = "recovering" /\ revoked' = revoked \cup left /\ UNCHANGED <<judged, sent>>
  BY DEF Restart
<1>2. \A j \in left : j \in DOMAIN entries /\ entries[j].by # User /\ j \notin sent
  <2> SUFFICES ASSUME NEW s \in Added, NEW j \in Unsent(s)
               PROVE  j \in DOMAIN entries /\ entries[j].by # User /\ j \notin sent
    OBVIOUS
  <2>1. s \in Schedules /\ Told(s, sched[s], entries) /\ s # User
    BY Typed, Constants
  <2> QED BY <2>1 DEF Unsent, Positions, Told
<1> HIDE DEF left
<1>3. /\ \A j \in revoked' : j \in DOMAIN entries /\ entries[j].by # User
      /\ revoked' \cap sent = {}
  BY <1>1, <1>2 DEF IInv, HistoryPlaced, RevokedStay
<1>4. CASE Running = {}
  <2>1. UNCHANGED <<sched, entries, goal>>
    BY <1>4 DEF Restart
  <2>2. HistoryPlaced'
    BY <1>1, <1>3, <2>1 DEF IInv, HistoryPlaced
  <2>3. TurnAlone' /\ RevokedStay'
    BY <1>1, <1>3, <1>4, <2>1 DEF TurnAlone, RevokedStay, Running, Up
  <2>4. SchedulesSound' /\ Linked'
    BY <2>1 DEF IInv, SchedulesSound, Linked, Added, Fired
  <2>5. ScheduleTypeOK'
    BY <1>1, <2>1, <2>2, Typed, NextTyped
  <2> QED BY <2>2, <2>3, <2>4, <2>5 DEF IInv
<1>5. CASE Running # {}
  <2>1. PICK i \in Running : Fails(i, reading, "interrupted")
    BY <1>5 DEF Restart
  <2> QED BY <1>1, <1>3, <2>1, FailsKeeps
<1> QED BY <1>4, <1>5

LEMMA CompletesKeeps ==
    ASSUME IInv, NEW i \in DOMAIN entries, TurnCompletes(i)
    PROVE  IInv'
<1>1. /\ sched \in [Schedules -> Records \cup {None}]
      /\ entries \in Seq(Entry) /\ Len(entries) <= MaxEntries
      /\ \A t \in Added : t \in Schedules /\ Sound(sched[t]) /\ sched[t] # None
                         /\ Told(t, sched[t], entries) /\ Live(sched[t], entries)
  BY Typed
<1>2. /\ at = "sent" /\ i \in Running /\ entries[i].status = "running"
      /\ entries' = [entries EXCEPT ![i].status = "completed"] /\ at' = "idle"
      /\ UNCHANGED <<goal, judged, sent, revoked>>
  BY DEF TurnCompletes, history, Running
<1>3. /\ entries' \in Seq(Entry) /\ Len(entries') = Len(entries)
      /\ DOMAIN entries' = DOMAIN entries
      /\ \A j \in DOMAIN entries : entries'[j].by = entries[j].by /\ (j # i => entries'[j] = entries[j])
      /\ entries'[i].status = "completed"
  <2>1. entries' = Marked(entries, i, "completed")
    BY <1>2 DEF Marked
  <2>2. Rewrites(entries, entries', i, "completed")
    BY <1>1, <2>1, Resettled
  <2> QED BY <2>2 DEF Rewrites
<1>4. Running' = {} /\ Queued(entries') = Queued(entries)
  <2>1. \A j \in Running : j = i
    BY <1>2 DEF IInv, TurnAlone
  <2> QED BY <1>2, <1>3, <2>1 DEF Running, Queued
<1>5. SchedulesSound' /\ Linked' /\ sched' \in [Schedules -> Records \cup {None}]
  <2>1. CASE entries[i].by = User
    <3>1. sched' = sched
      BY <2>1 DEF TurnCompletes
    <3>2. ASSUME NEW t \in Added
          PROVE  /\ Sound(sched'[t]) /\ Placed(sched[t], sched'[t])
                 /\ Told(t, sched'[t], entries') /\ Live(sched'[t], entries')
      <4>1. Retains(t, entries, entries')
        BY <1>1, <1>3, <2>1, Constants DEF Retains
      <4>2. Told(t, sched[t], entries) /\ Live(sched[t], entries) /\ Sound(sched[t])
        BY <1>1
      <4>3. Told(t, sched[t], entries') /\ Live(sched[t], entries')
        BY <4>1, <4>2, Undisturbed
      <4> QED BY <3>1, <4>2, <4>3 DEF Placed
    <3> QED BY <1>1, <1>3, <3>1, <3>2, Assembled
  <2>2. CASE entries[i].by # User
    <3> DEFINE s == entries[i].by
               rec == sched[s]
               new == Completed(rec, Held(rec))
    <3>1. s \in Added /\ Fired(i)
      BY <2>2 DEF IInv, Linked
    <3>2. PICK m \in DOMAIN rec.fires : rec.fires[m].at = i
      BY <3>1 DEF Fired
    <3> HIDE DEF s, rec
    <3>3. /\ s \in Schedules /\ Sound(rec) /\ rec = sched[s] /\ s = entries[i].by
          /\ Told(s, rec, entries)
      BY <1>1, <3>1, SMTT(30) DEF s, rec
    <3>4. m \in Held(rec)
      BY <1>2, <3>2, <3>3 DEF Held, Told, Tells
    <3>5. \A k \in DOMAIN rec.fires : k \in Held(rec) <=> k = m
      BY <3>3, <3>4 DEF Sound
    <3>6. /\ Sound(new) /\ Keeps(rec, new)
          /\ \A k \in DOMAIN rec.fires :
               /\ k = m => new.fires[k].state = "completed"
               /\ k # m => new.fires[k] = rec.fires[k]
      BY <3>3, <3>5, CompletedSound
    <3>7. sched' = [sched EXCEPT ![s] = new]
      BY <2>2, <3>3 DEF TurnCompletes
    <3> HIDE DEF new
    <3>8. new \in Records /\ new # None /\ DOMAIN new.fires = DOMAIN rec.fires
      BY <3>3, <3>6, SoundTyped DEF Keeps, Placed
    <3>9. /\ sched' \in [Schedules -> Records \cup {None}] /\ sched'[s] = new
          /\ \A t \in Schedules : t # s => sched'[t] = sched[t]
      BY <1>1, <3>3, <3>7, <3>8
    <3>10. \A k \in DOMAIN rec.fires :
              /\ new.fires[k].at = rec.fires[k].at
              /\ rec.fires[k].at \in DOMAIN entries /\ entries[rec.fires[k].at].by = s
              /\ Tells(rec.fires[k], entries[rec.fires[k].at].status)
      BY <3>3, <3>6 DEF Keeps, Placed, Told
    <3>11. \A k \in DOMAIN rec.fires : k # m => rec.fires[k].at # i
      BY <1>2, <3>5, <3>10 DEF Tells, Held
    <3>12. Told(s, new, entries')
      <4> SUFFICES ASSUME NEW k \in DOMAIN rec.fires
                   PROVE  Tells(new.fires[k], entries'[rec.fires[k].at].status)
        BY <1>3, <3>8, <3>10 DEF Told
      <4>1. CASE k = m
        BY <1>3, <3>2, <3>6, <4>1 DEF Tells
      <4>2. CASE k # m
        BY <1>3, <3>6, <3>10, <3>11, <4>2
      <4> QED BY <4>1, <4>2
    <3>13. Live(new, entries')
      <4> SUFFICES ASSUME NEW k \in DOMAIN rec.fires
                   PROVE  entries[rec.fires[k].at].status # "queued"
        BY <1>4, <3>8, <3>10 DEF Live, QueuedFires, Queued
      <4>1. CASE k = m
        BY <1>2, <3>2, <4>1
      <4>2. CASE k # m
        BY <3>5, <3>10, <4>2 DEF Tells, Held
      <4> QED BY <4>1, <4>2
    <3>14. ASSUME NEW t \in Added
           PROVE  /\ Sound(sched'[t]) /\ Placed(sched[t], sched'[t])
                  /\ Told(t, sched'[t], entries') /\ Live(sched'[t], entries')
      <4>1. CASE t = s
        BY <3>3, <3>6, <3>9, <3>12, <3>13, <4>1 DEF Keeps
      <4>2. CASE t # s
        <5>1. Retains(t, entries, entries')
          BY <1>3, <3>3, <4>2 DEF Retains
        <5>2. Told(t, sched[t], entries') /\ Live(sched[t], entries')
          BY <1>1, <5>1, Undisturbed
        <5> QED BY <1>1, <3>9, <4>2, <5>2 DEF Placed
      <4> QED BY <4>1, <4>2
    <3>15. \A t \in Schedules : (sched'[t] = None) <=> (sched[t] = None)
      BY <1>1, <3>1, <3>3, <3>8, <3>9
    <3> QED BY <1>3, <3>9, <3>14, <3>15, Assembled
  <2> QED BY <2>1, <2>2
<1>6. HistoryPlaced'
  BY <1>2, <1>3, <1>4 DEF IInv, HistoryPlaced
<1>7. TurnAlone'
  BY <1>4 DEF TurnAlone
<1>8. RevokedStay'
  BY <1>2, <1>4 DEF IInv, RevokedStay, Up
<1>9. ScheduleTypeOK'
  BY <1>1, <1>2, <1>3, <1>5, <1>6, Typed, NextTyped
<1> QED BY <1>5, <1>6, <1>7, <1>8, <1>9 DEF IInv

-----------------------------------------------------------------------------
(* The goal's own steps leave schedules, queue and turn alone. *)
LEMMA GoalKeeps ==
    ASSUME IInv, Goal
    PROVE  IInv'
<1>1. UNCHANGED <<sched, entries, at, sent, revoked>>
  BY DEF Goal, GoalMoves, Evaluate, Reconcile, history
<1> DEFINE Counted ==
             /\ goal' \in [status : {"working", "waiting", "stopped"}, attempts : Nat,
                          unsure : BOOLEAN]
             /\ judged' \in Nat
<1>2. Counted
  <2>1. /\ goal \in [status : {"working", "waiting", "stopped"}, attempts : Nat,
                    unsure : BOOLEAN]
        /\ goal.attempts \in Nat /\ judged \in Nat
    BY Typed
  <2>2. ASSUME NEW status \in {"working", "waiting", "stopped"}, GoalMoves(status)
        PROVE  Counted
    BY <2>1, <2>2 DEF GoalMoves, history
  <2>3. ASSUME NEW known \in BOOLEAN, Evaluate(known)
        PROVE  Counted
    <3> DEFINE unsure == ~known
               status == IF known THEN goal.status ELSE "stopped"
               spent == goal.attempts + 1
    <3>1. /\ goal' = [goal EXCEPT !.attempts = spent, !.unsure = unsure, !.status = status]
          /\ judged' = judged + 1
      BY <2>3 DEF Evaluate
    <3>2. /\ unsure \in BOOLEAN /\ status \in {"working", "waiting", "stopped"}
          /\ spent \in Nat
      BY <2>1
    <3> HIDE DEF unsure, status, spent
    <3>3. goal' \in [status : {"working", "waiting", "stopped"}, attempts : Nat,
                     unsure : BOOLEAN]
      BY <2>1, <3>1, <3>2
    <3>4. judged' \in Nat
      BY <2>1, <3>1
    <3> QED BY <3>3, <3>4
  <2>4. ASSUME Reconcile
        PROVE  Counted
    <3>1. goal' = [goal EXCEPT !.unsure = FALSE] /\ judged' = judged /\ FALSE \in BOOLEAN
      BY <2>4 DEF Reconcile, history
    <3> QED BY <2>1, <3>1
  <2> QED BY <2>2, <2>3, <2>4 DEF Goal
<1> QED BY <1>1, <1>2 DEF IInv, ScheduleTypeOK, SchedulesSound, Linked, TurnAlone,
           HistoryPlaced, RevokedStay, Added, Running, Up, Fired

-----------------------------------------------------------------------------
(* The allowance.  The exposure of the goal, its ledger and the wakeups    *)
(* that never entered it, stays below what the goal allows and what its    *)
(* evaluations took on top.  A step keeps that when it leaves the ledger   *)
(* alone, turns no settled fire into a hold, and queues no message again.  *)

Accounted ==
    /\ goal.attempts <= Attempts
    /\ Exposure <= Attempts + judged

(* The fires a record keeps: as they were, settled, or those whose message *)
(* is queued, which are holds already.                                     *)
Settles(rec, new, ents) ==
    /\ DOMAIN new.fires = DOMAIN rec.fires
    /\ \A k \in DOMAIN rec.fires :
         /\ new.fires[k].at = rec.fires[k].at
         /\ \/ new.fires[k] = rec.fires[k]
            \/ rec.fires[k].at \in Queued(ents)
            \/ new.fires[k].state \in {"completed", "uncertain"}

NoneRequeued ==
    \A i \in DOMAIN entries : entries'[i].status = "queued" => entries[i].status = "queued"

HoldsLeft ==
    /\ \A s \in Added' : \/ s \in Added /\ Settles(sched[s], sched'[s], entries)
                         \/ DOMAIN sched'[s].fires = {}
    /\ NoneRequeued

HoldsAs(fire, ents) ==
    \/ fire.state = "skipped"
    \/ fire.state = "reserved" /\ ents[fire.at].status = "queued"

(* A fire that is a hold after the step was one before it. *)
LEMMA HoldBefore ==
    ASSUME NEW old, NEW fire, NEW ents, NEW new,
           old.at \in DOMAIN ents, Tells(old, ents[old.at].status), fire.at = old.at,
           \/ fire = old
           \/ old.at \in Queued(ents)
           \/ fire.state \in {"completed", "uncertain"},
           new[old.at].status = "queued" => ents[old.at].status = "queued",
           HoldsAs(fire, new)
    PROVE  HoldsAs(old, ents)
<1>1. CASE old.at \in Queued(ents)
  BY <1>1 DEF Queued, Tells, HoldsAs
<1>2. CASE fire = old
  BY <1>2 DEF HoldsAs
<1>3. CASE fire.state \in {"completed", "uncertain"}
  BY <1>3 DEF HoldsAs
<1> QED BY <1>1, <1>2, <1>3

LEMMA HoldsShrink ==
    ASSUME IInv, HoldsLeft
    PROVE  HoldsOf(0)' \subseteq HoldsOf(0)
<1> SUFFICES ASSUME NEW hold \in HoldsOf(0)' PROVE hold \in HoldsOf(0)
  OBVIOUS
<1>1. PICK s \in Added', k \in 1..MaxFires :
           /\ hold = <<s, k>> /\ k \in DOMAIN sched'[s].fires
           /\ HoldsAs(sched'[s].fires[k], entries')
  <2>1. /\ hold \in Added' \X (1..MaxFires) /\ hold[2] \in DOMAIN sched'[hold[1]].fires
        /\ HoldsAs(sched'[hold[1]].fires[hold[2]], entries')
    BY DEF HoldsOf, HoldsAs
  <2>2. PICK s \in Added', k \in 1..MaxFires : hold = <<s, k>>
    BY <2>1
  <2> QED BY <2>1, <2>2
<1>2. s \in Added /\ Settles(sched[s], sched'[s], entries) /\ NoneRequeued
  BY <1>1 DEF HoldsLeft
<1>3. k \in DOMAIN sched[s].fires
  BY <1>1, <1>2 DEF Settles
<1>4. Told(s, sched[s], entries) /\ DOMAIN entries = 1..Len(entries) /\ Len(entries) \in Nat
  BY <1>2, Typed
<1> DEFINE old == sched[s].fires[k]
           fire == sched'[s].fires[k]
<1>5. /\ old.at \in DOMAIN entries /\ Tells(old, entries[old.at].status)
  BY <1>3, <1>4 DEF Told
<1>6. /\ fire.at = old.at
      /\ \/ fire = old
         \/ old.at \in Queued(entries)
         \/ fire.state \in {"completed", "uncertain"}
  BY <1>2, <1>3 DEF Settles
<1>7. entries'[old.at].status = "queued" => entries[old.at].status = "queued"
  BY <1>2, <1>5 DEF NoneRequeued
<1>8. HoldsAs(fire, entries')
  BY <1>1
<1>9. old.at # 0
  BY <1>4, <1>5
<1> HIDE DEF old, fire
<1>10. HoldsAs(old, entries)
  BY <1>5, <1>6, <1>7, <1>8, HoldBefore
<1>11. /\ hold \in Added \X (1..MaxFires) /\ hold[1] = s /\ hold[2] = k
  BY <1>1, <1>2
<1> QED BY <1>3, <1>9, <1>10, <1>11, Zenon DEF HoldsOf, HoldsAs, old

(* The exposure of the next state, from a bound on its holds. *)
LEMMA HoldsCount ==
    ASSUME IInv, NEW T, T \subseteq HoldsOf(0)
    PROVE  /\ IsFiniteSet(T) /\ Cardinality(T) \in Nat
           /\ Cardinality(T) <= Cardinality(HoldsOf(0))
<1>1. IsFiniteSet(HoldsOf(0)) /\ Cardinality(HoldsOf(0)) \in Nat
  BY Typed, ExposureCounts, FS_CardinalityType
<1> QED BY <1>1, FS_Subset, FS_CardinalityType

LEMMA Steady ==
    ASSUME IInv, Accounted, HoldsLeft, goal'.attempts = goal.attempts,
           judged' \in Nat, judged <= judged'
    PROVE  Accounted'
<1>1. /\ goal.attempts \in Nat /\ judged \in Nat /\ Attempts \in Nat
  BY Typed, Constants
<1>2. Cardinality(HoldsOf(0)') <= Cardinality(HoldsOf(0)) /\ Cardinality(HoldsOf(0)') \in Nat
      /\ Cardinality(HoldsOf(0)) \in Nat
  BY HoldsShrink, HoldsCount
<1>3. /\ Exposure = goal.attempts + Cardinality(HoldsOf(0))
      /\ Exposure' = goal'.attempts + Cardinality(HoldsOf(0)')
  BY DEF Exposure, ExposureBut
<1> QED BY <1>1, <1>2, <1>3 DEF Accounted

-----------------------------------------------------------------------------
(* The steps that change one record.                                       *)

LEMMA SettlesSame ==
    ASSUME NEW rec, NEW new, NEW ents, new.fires = rec.fires
    PROVE  Settles(rec, new, ents)
BY DEF Settles

LEMMA RetiredSettles ==
    ASSUME NEW rec, Sound(rec), NEW ents
    PROVE  LET new == Retired(rec, ents) IN
           Sound(new) /\ Settles(rec, new, ents)
<1> DEFINE K == QueuedFires(rec, ents)
           new == Skipped(rec, K)
<1>1. /\ Sound(new) /\ Keeps(rec, new)
      /\ \A k \in DOMAIN rec.fires : k \notin K => new.fires[k] = rec.fires[k]
  BY SkippedSound
<1>2. DOMAIN new.fires = DOMAIN rec.fires
  BY <1>1, SoundTyped DEF Keeps, Placed
<1>3. \A k \in DOMAIN rec.fires : k \in K => rec.fires[k].at \in Queued(ents)
  BY DEF QueuedFires
<1> HIDE DEF K, new
<1>4. Settles(rec, new, ents)
  BY <1>1, <1>2, <1>3 DEF Settles, Keeps, Placed
<1> QED BY <1>1, <1>4 DEF Retired, K, new

LEMMA RecoveredSettles ==
    ASSUME NEW rec, Sound(rec), NEW reading, NEW ents,
           Exposure \in Nat, goal.unsure \in BOOLEAN
    PROVE  LET new == Recovered(rec, reading) IN
           Sound(new) /\ Settles(rec, new, ents)
<1> DEFINE new == Recovered(rec, reading)
<1>1. /\ Sound(new) /\ Keeps(rec, new)
      /\ \A k \in DOMAIN rec.fires :
           /\ k \in Held(rec) => new.fires[k].state = "uncertain"
           /\ k \notin Held(rec) => new.fires[k] = rec.fires[k]
  BY RecoveredSound
<1> HIDE DEF new
<1>2. DOMAIN new.fires = DOMAIN rec.fires
  BY <1>1, SoundTyped DEF Keeps, Placed
<1>3. Settles(rec, new, ents)
  BY <1>1, <1>2 DEF Settles, Keeps, Placed
<1> QED BY <1>1, <1>3 DEF new

LEMMA CompletedSettles ==
    ASSUME NEW rec, Sound(rec), NEW ents
    PROVE  LET new == Completed(rec, Held(rec)) IN
           Sound(new) /\ Settles(rec, new, ents)
<1> DEFINE new == Completed(rec, Held(rec))
<1>1. /\ Sound(new) /\ Keeps(rec, new)
      /\ \A k \in DOMAIN rec.fires :
           /\ k \in Held(rec) => new.fires[k].state = "completed"
           /\ k \notin Held(rec) => new.fires[k] = rec.fires[k]
  BY CompletedSound
<1> HIDE DEF new
<1>2. DOMAIN new.fires = DOMAIN rec.fires
  BY <1>1, SoundTyped DEF Keeps, Placed
<1>3. Settles(rec, new, ents)
  BY <1>1, <1>2 DEF Settles, Keeps, Placed
<1> QED BY <1>1, <1>3 DEF new

(* One record is settled, and no message is queued again. *)
LEMMA OneSettles ==
    ASSUME IInv, NEW s \in Added, NEW rec, rec # None, Settles(sched[s], rec, entries),
           sched' = [sched EXCEPT ![s] = rec], NoneRequeued
    PROVE  HoldsLeft
<1>1. s \in Schedules /\ sched \in [Schedules -> Records \cup {None}]
  BY Typed
<1>2. sched'[s] = rec /\ \A t \in Schedules : t # s => sched'[t] = sched[t]
  BY <1>1
<1>3. ASSUME NEW t \in Added' PROVE t \in Added /\ Settles(sched[t], sched'[t], entries)
  <2>1. t \in Schedules /\ sched'[t] # None
    BY <1>3 DEF Added
  <2>2. CASE t = s
    BY <1>2, <2>2
  <2>3. CASE t # s
    <3>1. sched'[t] = sched[t] /\ t \in Added
      BY <1>2, <2>1, <2>3 DEF Added
    <3> QED BY <3>1, SettlesSame
  <2> QED BY <2>2, <2>3
<1> QED BY <1>3 DEF HoldsLeft

(* Nothing happens to the records. *)
LEMMA UnchangedSettles ==
    ASSUME sched' = sched, NoneRequeued
    PROVE  HoldsLeft
<1>1. Added' = Added
  BY DEF Added
<1> QED BY <1>1, SettlesSame DEF HoldsLeft

(* Cancelling queues nothing. *)
LEMMA CancelledQueuesNone ==
    ASSUME IInv, NEW P, \A i \in DOMAIN entries : entries'[i] = CancelAt(entries, P)[i]
    PROVE  NoneRequeued
<1>1. entries \in Seq(Entry)
  BY Typed
<1>2. \A i \in DOMAIN entries :
        /\ i \in P => CancelAt(entries, P)[i].status = "cancelled"
        /\ i \notin P => CancelAt(entries, P)[i] = entries[i]
  BY <1>1, Cancelled
<1> QED BY <1>2 DEF NoneRequeued

LEMMA StopAccounts ==
    ASSUME IInv, Accounted, NEW s \in Added, NEW rec, Sound(rec),
           rec.fires = sched[s].fires, Stop(s, rec), UNCHANGED <<goal, judged>>
    PROVE  Accounted'
<1> DEFINE new == Retired(rec, entries)
<1>1. /\ sched' = [sched EXCEPT ![s] = new]
      /\ entries' = CancelAt(entries, Positions(rec, QueuedFires(rec, entries)))
  BY DEF Stop, Unqueued
<1>2. NoneRequeued
  BY <1>1, CancelledQueuesNone
<1>3. Sound(new) /\ Settles(rec, new, entries)
  BY RetiredSettles
<1> HIDE DEF new
<1>4. Settles(sched[s], new, entries) /\ new # None
  BY <1>3, SoundTyped DEF Settles
<1>5. HoldsLeft
  BY <1>1, <1>2, <1>4, OneSettles
<1> QED BY <1>5, Steady, Typed

LEMMA UpdateAccounts ==
    ASSUME IInv, Accounted, NEW s \in Added, NEW rec, Sound(rec),
           rec.fires = sched[s].fires, sched' = [sched EXCEPT ![s] = rec],
           UNCHANGED <<entries, goal, judged>>
    PROVE  Accounted'
<1>1. rec # None /\ Settles(sched[s], rec, entries)
  BY SoundTyped, SettlesSame
<1>2. NoneRequeued
  BY DEF NoneRequeued
<1>3. HoldsLeft
  BY <1>1, <1>2, OneSettles
<1> QED BY <1>3, Steady, Typed

LEMMA SettlesTwice ==
    ASSUME NEW a, NEW b, NEW c, NEW ents, Settles(a, b, ents), Settles(b, c, ents)
    PROVE  Settles(a, c, ents)
<1>1. DOMAIN c.fires = DOMAIN a.fires /\ DOMAIN b.fires = DOMAIN a.fires
  BY DEF Settles
<1>2. ASSUME NEW k \in DOMAIN a.fires
      PROVE  /\ c.fires[k].at = a.fires[k].at
             /\ \/ c.fires[k] = a.fires[k]
                \/ a.fires[k].at \in Queued(ents)
                \/ c.fires[k].state \in {"completed", "uncertain"}
  <2>1. /\ b.fires[k].at = a.fires[k].at
        /\ \/ b.fires[k] = a.fires[k]
           \/ a.fires[k].at \in Queued(ents)
           \/ b.fires[k].state \in {"completed", "uncertain"}
    BY DEF Settles
  <2>2. /\ c.fires[k].at = b.fires[k].at
        /\ \/ c.fires[k] = b.fires[k]
           \/ b.fires[k].at \in Queued(ents)
           \/ c.fires[k].state \in {"completed", "uncertain"}
    BY <1>1 DEF Settles
  <2> QED BY <2>1, <2>2
<1> QED BY <1>1, <1>2 DEF Settles

(* Every record is settled, and no message is queued again. *)
LEMMA AllSettle ==
    ASSUME IInv, NoneRequeued,
           \A s \in Added : Settles(sched[s], sched'[s], entries),
           \A s \in Schedules : s \notin Added => sched'[s] = None
    PROVE  HoldsLeft
<1>1. \A s \in Added' : s \in Added
  BY DEF Added
<1> QED BY <1>1 DEF HoldsLeft

LEMMA MarkedQueuesNone ==
    ASSUME IInv, NEW j \in DOMAIN entries,
           NEW status \in {"running", "completed", "failed", "interrupted", "cancelled"},
           entries' = [entries EXCEPT ![j].status = status]
    PROVE  /\ NoneRequeued /\ entries'[j].status = status
           /\ \A i \in DOMAIN entries : i # j => entries'[i] = entries[i]
<1>1. entries \in Seq(Entry) /\ entries' = Marked(entries, j, status)
  BY Typed DEF Marked
<1>2. Rewrites(entries, entries', j, status)
  BY <1>1, Resettled
<1>3. \A i \in DOMAIN entries : i # j => entries'[i] = entries[i]
  BY <1>2 DEF Rewrites
<1>4. entries'[j].status = status /\ status # "queued"
  BY <1>2 DEF Rewrites
<1> QED BY <1>3, <1>4 DEF NoneRequeued

(* Clock, source, user and cadence: one record, nothing reserved. *)
LEMMA AddAccounts ==
    ASSUME IInv, Accounted, NEW s \in Schedules, AddSchedule(s)
    PROVE  Accounted'
<1> DEFINE rec == [status |-> "active", timer |-> FALSE, pending |-> 0, cursor |-> 0,
                   fires |-> <<>>, doubts |-> 0, exposure |-> Exposure, tainted |-> FALSE]
<1>1. /\ sched' = [sched EXCEPT ![s] = rec] /\ UNCHANGED <<entries, goal, judged>>
      /\ DOMAIN rec.fires = {}
  BY DEF AddSchedule, history
<1> HIDE DEF rec
<1>2. sched \in [Schedules -> Records \cup {None}]
  BY Typed
<1>3. ASSUME NEW t \in Added'
      PROVE  \/ t \in Added /\ Settles(sched[t], sched'[t], entries)
             \/ DOMAIN sched'[t].fires = {}
  <2>1. CASE t = s
    BY <1>1, <1>2, <2>1
  <2>2. CASE t # s
    <3>1. sched'[t] = sched[t] /\ t \in Added
      BY <1>1, <1>2, <1>3, <2>2 DEF Added
    <3> QED BY <3>1, SettlesSame
  <2> QED BY <2>1, <2>2
<1>4. HoldsLeft
  BY <1>1, <1>3 DEF HoldsLeft, NoneRequeued
<1> QED BY <1>1, <1>4, Steady, Typed

(* A reservation takes one hold more, and was allowed one more. *)
LEMMA ReserveAccounts ==
    ASSUME IInv, Accounted, NEW s \in Added, NEW rec, Sound(rec), NEW fire \in Fires,
           rec.fires = Append(sched[s].fires, fire), NEW wakeup \in Entry,
           sched' = [sched EXCEPT ![s] = rec], entries' = Append(entries, wakeup),
           UNCHANGED <<goal, judged>>, Exposure + 1 <= Attempts
    PROVE  Accounted'
<1> DEFINE n == Len(sched[s].fires) + 1
           T == HoldsOf(0)' \ {<<s, n>>}
<1>1. /\ s \in Schedules /\ sched \in [Schedules -> Records \cup {None}]
      /\ entries \in Seq(Entry) /\ DOMAIN entries = 1..Len(entries) /\ Len(entries) \in Nat
      /\ \A t \in Added : Told(t, sched[t], entries) /\ Sound(sched[t])
  BY Typed
<1>2. rec # None /\ sched[s].fires \in Seq(Fires)
  BY <1>1, SoundTyped DEF Sound, Records
<1>3. sched'[s] = rec /\ \A t \in Schedules : t # s => sched'[t] = sched[t]
  BY <1>1
<1>4. Added' = Added
  BY <1>1, <1>2, <1>3 DEF Added
<1>5. /\ \A k \in DOMAIN sched[s].fires : rec.fires[k] = sched[s].fires[k]
      /\ \A k \in DOMAIN rec.fires : k = n \/ k \in DOMAIN sched[s].fires
  BY ONLY <1>2, fire \in Fires, rec.fires = Append(sched[s].fires, fire), Appended
<1>6. \A i \in DOMAIN entries : entries'[i] = entries[i]
  BY <1>1, Appended
<1> HIDE DEF n
<1>7. T \subseteq HoldsOf(0)
  <2> SUFFICES ASSUME NEW hold \in T PROVE hold \in HoldsOf(0)
    OBVIOUS
  <2>1. /\ hold \in Added' \X (1..MaxFires) /\ hold[2] \in DOMAIN sched'[hold[1]].fires
        /\ HoldsAs(sched'[hold[1]].fires[hold[2]], entries') /\ hold # <<s, n>>
    <3>1. hold \in HoldsOf(0)' /\ hold # <<s, n>>
      OBVIOUS
    <3> QED BY ONLY <3>1, Zenon DEF HoldsOf, HoldsAs
  <2>2. PICK t \in Added, k \in 1..MaxFires : hold = <<t, k>>
    BY <1>4, <2>1
  <2>3. k \in DOMAIN sched[t].fires /\ sched'[t].fires[k] = sched[t].fires[k]
    <3>1. CASE t = s
      BY <1>3, <1>5, <2>1, <2>2, <3>1
    <3>2. CASE t # s
      <4>1. sched'[t] = sched[t]
        BY <1>1, <1>3, <3>2 DEF Added
      <4> QED BY <2>1, <2>2, <4>1
    <3> QED BY <3>1, <3>2
  <2> DEFINE old == sched[t].fires[k]
  <2>4. old.at \in DOMAIN entries /\ HoldsAs(old, entries')
    <3>1. Told(t, sched[t], entries)
      BY <1>1
    <3> QED BY <2>1, <2>2, <2>3, <3>1 DEF Told
  <2> HIDE DEF old
  <2>5. old.at # 0 /\ HoldsAs(old, entries)
    BY <1>1, <1>6, <2>4 DEF HoldsAs
  <2>6. hold \in Added \X (1..MaxFires) /\ hold[1] = t /\ hold[2] = k
    BY <2>2
  <2> QED BY <2>3, <2>5, <2>6, Zenon DEF HoldsOf, HoldsAs, old
<1>8. /\ IsFiniteSet(T) /\ Cardinality(T) \in Nat
      /\ Cardinality(T) <= Cardinality(HoldsOf(0)) /\ Cardinality(HoldsOf(0)) \in Nat
  BY <1>7, HoldsCount
<1>9. HoldsOf(0)' \subseteq T \cup {<<s, n>>}
  OBVIOUS
<1>10. /\ IsFiniteSet(T \cup {<<s, n>>})
       /\ Cardinality(T \cup {<<s, n>>}) \in {Cardinality(T), Cardinality(T) + 1}
  BY <1>8, FS_AddElement
<1>11. /\ Cardinality(HoldsOf(0)') \in Nat
       /\ Cardinality(HoldsOf(0)') <= Cardinality(T \cup {<<s, n>>})
  BY <1>9, <1>10, FS_Subset, FS_CardinalityType
<1>12. Cardinality(HoldsOf(0)') <= Cardinality(HoldsOf(0)) + 1
  BY <1>8, <1>10, <1>11
<1>13. /\ Exposure = goal.attempts + Cardinality(HoldsOf(0))
       /\ Exposure' = goal.attempts + Cardinality(HoldsOf(0)')
  BY DEF Exposure, ExposureBut
<1>14. goal.attempts \in Nat /\ judged \in Nat /\ Attempts \in Nat
  BY Typed, Constants
<1>15. Exposure' <= Attempts + judged
  BY <1>8, <1>11, <1>12, <1>13, <1>14
<1> QED BY <1>15 DEF Accounted

LEMMA AdmitAccounts ==
    ASSUME IInv, Accounted, NEW s \in Schedules, NEW reading \in Readings,
           NEW here \in BOOLEAN, Admit(s, reading, here)
    PROVE  Accounted'
<1> DEFINE seen == InScope(Observed(sched[s], reading), here)
           offers == /\ seen.status = "active" /\ SafeBoundary /\ Queued(entries) = {}
                     /\ seen.timer \/ seen.pending > 0
           rec == IF offers THEN Reservation(seen) ELSE seen
           fire == [state |-> "reserved", at |-> Len(entries) + 1, events |-> seen.pending]
           wakeup == [by |-> s, ofGoal |-> TRUE, status |-> "queued"]
<1>1. /\ s \in Added /\ (offers => Len(entries) < MaxEntries)
      /\ UNCHANGED <<goal, judged>>
      /\ IF rec.status # "active" THEN Stop(s, rec)
         ELSE /\ sched' = [sched EXCEPT ![s] = rec]
              /\ entries' = IF Len(rec.fires) > Len(sched[s].fires)
                            THEN Append(entries, wakeup) ELSE entries
  BY DEF Admit
<1>2. Sound(sched[s]) /\ Exposure \in Nat /\ Len(entries) \in Nat
  BY <1>1, Typed
<1>3. Sound(seen) /\ seen.fires = sched[s].fires
  BY <1>2, ObservedSound, InScopeSound
<1> HIDE DEF seen
<1>4. CASE rec.fires = seen.fires
  <2>1. Sound(rec)
    <3>1. CASE offers
      BY <1>1, <1>2, <1>3, <3>1, ReservationSound
    <3>2. CASE ~offers
      BY <1>3, <3>2
    <3> QED BY <3>1, <3>2
  <2> HIDE DEF rec, offers
  <2>2. CASE rec.status # "active"
    BY <1>1, <1>3, <1>4, <2>1, <2>2, StopAccounts
  <2>3. CASE rec.status = "active"
    <3>1. ~(Len(rec.fires) > Len(sched[s].fires))
      BY <1>2, <1>3, <1>4 DEF Sound, Records
    <3>2. sched' = [sched EXCEPT ![s] = rec] /\ UNCHANGED <<entries, goal, judged>>
      BY <1>1, <2>3, <3>1
    <3> QED BY <1>1, <1>3, <1>4, <2>1, <3>2, UpdateAccounts
  <2> QED BY <2>2, <2>3
<1>5. CASE rec.fires # seen.fires
  <2>1. seen.status = "active" /\ Len(entries) < MaxEntries /\ rec = Reservation(seen)
    BY <1>1, <1>5
  <2>2. /\ Sound(rec) /\ rec.status = "active" /\ rec.fires = Append(seen.fires, fire)
        /\ Upper(seen.exposure, Exposure) + 1 <= Attempts
    BY <1>2, <1>3, <1>5, <2>1, ReservationSound
  <2>3. fire \in Fires
    BY <1>2, <1>3, <2>1, Constants DEF Fires, Sound, Records
  <2>4. wakeup \in Entry
    BY DEF Entry
  <2> HIDE DEF rec, offers, fire, wakeup
  <2>5. sched[s].fires \in Seq(Fires) /\ seen.exposure \in Nat
    BY <1>2, <1>3 DEF Sound, Records
  <2>6. Len(rec.fires) > Len(sched[s].fires)
    BY <1>3, <2>2, <2>3, <2>5, AppendProperties, LenProperties
  <2>7. sched' = [sched EXCEPT ![s] = rec] /\ entries' = Append(entries, wakeup)
    BY <1>1, <2>2, <2>6
  <2>8. Exposure + 1 <= Attempts
    BY <1>2, <2>2, <2>5, Constants DEF Upper
  <2> QED BY <1>1, <1>3, <2>2, <2>3, <2>4, <2>7, <2>8, ReserveAccounts
<1> QED BY <1>4, <1>5

LEMMA ControlAccounts ==
    ASSUME IInv, Accounted, NEW s \in Schedules, Control(s)
    PROVE  Accounted'
<1>1. CASE CancelSchedule(s)
  <2> DEFINE rec == [sched[s] EXCEPT !.status = "cancelled", !.timer = FALSE, !.pending = 0]
  <2>1. s \in Added /\ Stop(s, rec) /\ UNCHANGED <<goal, judged>> /\ Sound(sched[s])
    BY <1>1, Typed DEF CancelSchedule
  <2>2. Sound(rec) /\ rec.fires = sched[s].fires
    BY <2>1, CancelledSound, Zenon
  <2> HIDE DEF rec
  <2> QED BY <2>1, <2>2, StopAccounts
<1>2. CASE PauseSchedule(s)
  <2> DEFINE rec == [sched[s] EXCEPT !.status = "paused"]
  <2>1. s \in Added /\ Stop(s, rec) /\ UNCHANGED <<goal, judged>> /\ Sound(sched[s])
    BY <1>2, Typed DEF PauseSchedule
  <2>2. Sound(rec) /\ rec.fires = sched[s].fires
    BY <2>1, PausedSound
  <2> HIDE DEF rec
  <2> QED BY <2>1, <2>2, StopAccounts
<1>3. ASSUME NEW reading \in Readings, ResumeSchedule(s, reading)
      PROVE  Accounted'
  <2> DEFINE seen == Observed(sched[s], reading)
             rec == [seen EXCEPT !.status = "active", !.timer = FALSE,
                                 !.exposure = Upper(seen.exposure, Exposure)]
  <2>1. /\ s \in Added /\ seen.doubts = 0 /\ sched' = [sched EXCEPT ![s] = rec]
        /\ UNCHANGED <<entries, goal, judged>> /\ Sound(sched[s]) /\ Exposure \in Nat
    BY <1>3, Typed DEF ResumeSchedule, Resumable, history
  <2>2. Sound(seen) /\ seen.fires = sched[s].fires
    BY <2>1, ObservedSound
  <2> HIDE DEF seen
  <2>3. Sound(rec) /\ rec.fires = seen.fires
    BY <2>1, <2>2, ResumedSound, Zenon
  <2> HIDE DEF rec
  <2> QED BY <2>1, <2>2, <2>3, UpdateAccounts
<1>4. ASSUME NEW reading \in Readings, SetCadence(s, reading)
      PROVE  Accounted'
  <2>1. /\ s \in Added /\ sched' = [sched EXCEPT ![s] = Observed(sched[s], reading)]
        /\ UNCHANGED <<entries, goal, judged>> /\ Sound(sched[s])
    BY <1>4, Typed DEF SetCadence, history
  <2>2. Sound(Observed(sched[s], reading)) /\ Observed(sched[s], reading).fires = sched[s].fires
    BY <2>1, ObservedSound
  <2> QED BY <2>1, <2>2, UpdateAccounts
<1>5. ASSUME NEW reading \in Readings, NEW n \in 1..MaxEvents, Notify(s, n, reading)
      PROVE  Accounted'
  <2> DEFINE seen == Observed(sched[s], reading)
             rec == Notified(seen, n)
  <2>1. /\ s \in Added /\ UNCHANGED <<goal, judged>> /\ Sound(sched[s])
        /\ IF rec.status # "active" THEN Stop(s, rec)
           ELSE sched' = [sched EXCEPT ![s] = rec] /\ UNCHANGED entries
    BY <1>5, Typed DEF Notify
  <2>2. Sound(seen) /\ seen.fires = sched[s].fires
    BY <2>1, ObservedSound
  <2> HIDE DEF seen
  <2>3. Sound(rec) /\ rec.fires = sched[s].fires
    BY <2>2, NotifiedSound
  <2> HIDE DEF rec
  <2> QED BY <2>1, <2>3, StopAccounts, UpdateAccounts
<1> QED BY <1>1, <1>2, <1>3, <1>4, <1>5, AddAccounts, AdmitAccounts DEF Control

(* The conversation and the process. *)
LEMMA SupersededAccounts ==
    ASSUME IInv, Accounted, sched' = Superseded, NEW P,
           \A i \in DOMAIN entries : entries'[i] = CancelAt(entries, P)[i],
           UNCHANGED <<goal, judged>>
    PROVE  Accounted'
<1>1. \A s \in Schedules :
        /\ s \in Added => sched'[s] = Retired(sched[s], entries)
        /\ s \notin Added => sched'[s] = None
  BY DEF Superseded
<1>2. \A s \in Added : Settles(sched[s], sched'[s], entries)
  BY <1>1, Typed, RetiredSettles
<1>3. NoneRequeued
  BY CancelledQueuesNone
<1>4. HoldsLeft
  BY <1>1, <1>2, <1>3, AllSettle
<1> QED BY <1>4, Steady, Typed

LEMMA RecoverAccounts ==
    ASSUME IInv, Accounted, NEW reading \in Readings, RecoverSchedules(reading)
    PROVE  Accounted'
<1>1. /\ entries' = CancelAt(entries, QueuedWakeups) /\ UNCHANGED <<goal, judged>>
      /\ \A s \in Schedules :
           /\ s \in Added => sched'[s] = Recovered(Retired(sched[s], entries), reading)
           /\ s \notin Added => sched'[s] = None
  BY DEF RecoverSchedules, history
<1>2. ASSUME NEW s \in Added PROVE Settles(sched[s], sched'[s], entries)
  <2> DEFINE old == Retired(sched[s], entries)
  <2>1. Sound(sched[s]) /\ s \in Schedules /\ Exposure \in Nat /\ goal.unsure \in BOOLEAN
    BY Typed
  <2>2. Sound(old) /\ Settles(sched[s], old, entries)
    BY <2>1, RetiredSettles
  <2>3. sched'[s] = Recovered(old, reading)
    BY <1>1, <2>1
  <2> HIDE DEF old
  <2>4. Settles(old, sched'[s], entries)
    BY <2>1, <2>2, <2>3, RecoveredSettles
  <2> QED BY <2>2, <2>4, SettlesTwice
<1>3. NoneRequeued
  BY <1>1, CancelledQueuesNone
<1>4. HoldsLeft
  BY <1>1, <1>2, <1>3, AllSettle
<1> QED BY <1>1, <1>4, Steady, Typed

LEMMA FailsAccounts ==
    ASSUME IInv, Accounted, NEW i \in Running, NEW reading,
           NEW status \in {"failed", "cancelled", "interrupted"},
           Fails(i, reading, status), UNCHANGED judged
    PROVE  Accounted'
<1>1. i \in DOMAIN entries /\ entries' = [entries EXCEPT ![i].status = status]
  BY DEF Running, Fails
<1>2. NoneRequeued
  BY <1>1, MarkedQueuesNone
<1>3. goal'.attempts = goal.attempts
  <2>1. goal \in [status : {"working", "waiting", "stopped"}, attempts : Nat, unsure : BOOLEAN]
    BY Typed
  <2> QED BY <2>1 DEF Fails
<1>4. HoldsLeft
  <2>1. CASE entries[i].by = User
    <3>1. sched' = sched
      BY <2>1 DEF Fails
    <3> QED BY <1>2, <3>1, UnchangedSettles
  <2>2. CASE entries[i].by # User
    <3> DEFINE s == entries[i].by
               new == Recovered(sched[s], reading)
    <3>1. sched' = [sched EXCEPT ![s] = new]
      BY <2>2 DEF Fails
    <3>2. s \in Added
      BY <1>1, <2>2 DEF IInv, Linked
    <3>3. Sound(sched[s]) /\ Exposure \in Nat /\ goal.unsure \in BOOLEAN
      BY <3>2, Typed
    <3>4. Sound(new) /\ Settles(sched[s], new, entries)
      BY <3>3, RecoveredSettles
    <3> HIDE DEF s, new
    <3> QED BY <1>2, <3>1, <3>2, <3>4, SoundTyped, OneSettles
  <2> QED BY <2>1, <2>2
<1> QED BY <1>3, <1>4, Steady, Typed

LEMMA CompletesAccounts ==
    ASSUME IInv, Accounted, NEW i \in DOMAIN entries, TurnCompletes(i)
    PROVE  Accounted'
<1>1. entries' = [entries EXCEPT ![i].status = "completed"] /\ UNCHANGED <<goal, judged>>
  BY DEF TurnCompletes, history
<1>2. NoneRequeued
  BY <1>1, MarkedQueuesNone
<1>3. HoldsLeft
  <2>1. CASE entries[i].by = User
    <3>1. sched' = sched
      BY <2>1 DEF TurnCompletes
    <3> QED BY <1>2, <3>1, UnchangedSettles
  <2>2. CASE entries[i].by # User
    <3> DEFINE s == entries[i].by
               new == Completed(sched[s], Held(sched[s]))
    <3>1. sched' = [sched EXCEPT ![s] = new]
      BY <2>2 DEF TurnCompletes
    <3>2. s \in Added
      BY <2>2 DEF IInv, Linked
    <3>3. Sound(sched[s])
      BY <3>2, Typed
    <3>4. Sound(new) /\ Settles(sched[s], new, entries)
      BY <3>3, CompletedSettles
    <3> HIDE DEF s, new
    <3> QED BY <1>2, <3>1, <3>2, <3>4, SoundTyped, OneSettles
  <2> QED BY <2>1, <2>2
<1> QED BY <1>1, <1>3, Steady, Typed

(* A message that starts was counted among the holds, if it is a wakeup,   *)
(* and leaves them as the ledger takes its attempt.                        *)
LEMMA StartAccounts ==
    ASSUME IInv, Accounted, NEW i \in DOMAIN entries, NEW reading \in Readings,
           NEW here \in BOOLEAN, Start(i, reading, here)
    PROVE  Accounted'
<1>1. i \in Queued(entries) /\ UNCHANGED judged
  BY DEF Start
<1>2. /\ goal \in [status : {"working", "waiting", "stopped"}, attempts : Nat, unsure : BOOLEAN]
      /\ goal.attempts \in Nat /\ judged \in Nat /\ Attempts \in Nat
  BY Typed, Constants
<1>3. CASE ~Valid(i, reading, here)
  <2>1. Stop(entries[i].by, sched[entries[i].by]) /\ UNCHANGED <<goal, judged>>
    BY <1>1, <1>3 DEF Start
  <2>2. entries[i].by \in Added
    BY <1>3 DEF Valid, IInv, Linked
  <2>3. Sound(sched[entries[i].by])
    BY <2>2, Typed
  <2> QED BY <2>1, <2>2, <2>3, StopAccounts
<1>4. CASE Valid(i, reading, here) /\ entries[i].ofGoal /\ ExposureBut(i) + 1 > Attempts
  <2>1. goal' = [goal EXCEPT !.status = "stopped"] /\ UNCHANGED <<sched, entries>>
    BY <1>4 DEF Start
  <2>2. goal'.attempts = goal.attempts
    BY <1>2, <2>1
  <2>3. HoldsLeft
    BY <2>1, UnchangedSettles DEF NoneRequeued
  <2> QED BY <1>1, <2>2, <2>3, Steady, Typed
<1>5. CASE Valid(i, reading, here) /\ ~(entries[i].ofGoal /\ ExposureBut(i) + 1 > Attempts)
  <2>1. /\ entries' = [entries EXCEPT ![i].status = "running"] /\ sched' = sched
        /\ goal' = IF entries[i].ofGoal THEN [goal EXCEPT !.attempts = @ + 1] ELSE goal
    BY <1>5 DEF Start
  <2>2. NoneRequeued /\ entries'[i].status = "running"
    BY <2>1, MarkedQueuesNone
  <2>3. HoldsLeft
    BY <2>1, <2>2, UnchangedSettles
  <2>4. CASE ~entries[i].ofGoal
    BY <1>1, <2>1, <2>3, <2>4, Steady, Typed
  <2>5. CASE entries[i].ofGoal
    <3>1. ExposureBut(i) + 1 <= Attempts /\ goal'.attempts = goal.attempts + 1
      <4>1. ExposureBut(i) \in Nat
        BY <1>2, ExposureCounts, Zenon
      <4> QED BY <1>2, <1>5, <2>1, <2>5, <4>1
    <3>2. HoldsOf(0)' \subseteq HoldsOf(i)
      <4> SUFFICES ASSUME NEW hold \in HoldsOf(0)' PROVE hold \in HoldsOf(i)
        BY Zenon
      <4> DEFINE fire == sched[hold[1]].fires[hold[2]]
      <4>1. /\ hold \in HoldsOf(0) /\ hold[1] \in Added
            /\ hold[2] \in DOMAIN sched[hold[1]].fires
        BY <2>3, HoldsShrink, Zenon DEF HoldsOf
      <4>2. HoldsAs(fire, entries)
        BY <4>1, Zenon DEF HoldsOf, HoldsAs
      <4>3. HoldsAs(fire, entries')
        BY <2>1 DEF HoldsOf, HoldsAs
      <4>4. Tells(fire, entries[fire.at].status)
        <5>1. Told(hold[1], sched[hold[1]], entries)
          BY <4>1, Typed
        <5> QED BY <4>1, <5>1 DEF Told
      <4> HIDE DEF fire
      <4>5. fire.at # i
        <5>1. entries[i].status = "queued"
          BY <1>1 DEF Queued
        <5> QED BY <2>2, <4>3, <4>4, <5>1 DEF HoldsAs, Tells
      <4> QED BY <4>1, <4>2, <4>5, Zenon DEF HoldsOf, HoldsAs, fire
    <3>3. /\ Cardinality(HoldsOf(0)') \in Nat /\ Cardinality(HoldsOf(i)) \in Nat
          /\ Cardinality(HoldsOf(0)') <= Cardinality(HoldsOf(i))
      <4>1. IsFiniteSet(HoldsOf(i))
        BY <1>2, ExposureCounts
      <4> QED BY <3>2, <4>1, FS_Subset, FS_CardinalityType
    <3>4. /\ ExposureBut(i) = goal.attempts + Cardinality(HoldsOf(i))
          /\ Exposure' = goal'.attempts + Cardinality(HoldsOf(0)')
      BY DEF Exposure, ExposureBut
    <3>5. goal'.attempts <= Attempts /\ Exposure' <= Attempts + judged
      BY <1>2, <3>1, <3>3, <3>4
    <3> QED BY <1>1, <3>5 DEF Accounted
  <2> QED BY <2>4, <2>5
<1> QED BY <1>3, <1>4, <1>5

LEMMA TurnAccounts ==
    ASSUME IInv, Accounted, Turn
    PROVE  Accounted'
<1>1. CASE Submit
  <2> DEFINE cut == CancelAt(entries, QueuedWakeups)
             said == [by |-> User, ofGoal |-> goal.status = "working", status |-> "queued"]
  <2>1. /\ sched' = Superseded /\ entries' = Append(cut, said) /\ UNCHANGED <<goal, judged>>
    BY <1>1 DEF Submit
  <2>2. cut \in Seq(Entry) /\ DOMAIN cut = DOMAIN entries
    <3>1. entries \in Seq(Entry)
      BY Typed
    <3> QED BY <3>1, Cancelled
  <2> HIDE DEF cut, said
  <2>3. \A i \in DOMAIN entries : entries'[i] = cut[i]
    BY <2>1, <2>2, LenProperties
  <2> QED BY <2>1, <2>3, SupersededAccounts DEF cut
<1>2. CASE CancelQueued
  <2>1. /\ sched' = Superseded /\ entries' = CancelAt(entries, Queued(entries))
        /\ UNCHANGED <<goal, judged>>
    BY <1>2 DEF CancelQueued
  <2> QED BY <2>1, SupersededAccounts
<1>3. ASSUME NEW i \in DOMAIN entries, NEW reading \in Readings, NEW here \in BOOLEAN,
             Send(i, reading, here)
      PROVE  Accounted'
  <2>1. i \in Running /\ UNCHANGED judged
    BY <1>3 DEF Send
  <2>2. CASE Valid(i, reading, here)
    <3>1. UNCHANGED <<sched, entries, goal>>
      BY <1>3, <2>2 DEF Send
    <3>2. HoldsLeft
      BY <3>1, UnchangedSettles DEF NoneRequeued
    <3> QED BY <2>1, <3>1, <3>2, Steady, Typed
  <2>3. CASE ~Valid(i, reading, here)
    <3>1. Fails(i, reading, "failed")
      BY <1>3, <2>3 DEF Send
    <3> QED BY <2>1, <3>1, FailsAccounts
  <2> QED BY <2>2, <2>3
<1>4. ASSUME NEW i \in DOMAIN entries, NEW reading \in Readings,
             NEW status \in {"failed", "cancelled"}, TurnFails(i, reading, status)
      PROVE  Accounted'
  <2>1. i \in Running /\ Fails(i, reading, status) /\ UNCHANGED judged
    BY <1>4 DEF TurnFails, history
  <2> QED BY <2>1, FailsAccounts
<1> QED BY <1>1, <1>2, <1>3, <1>4, StartAccounts, CompletesAccounts DEF Turn

LEMMA RestartAccounts ==
    ASSUME IInv, Accounted, NEW reading \in Readings, Restart(reading)
    PROVE  Accounted'
<1>1. UNCHANGED judged
  BY DEF Restart
<1>2. CASE Running = {}
  <2>1. UNCHANGED <<sched, entries, goal>>
    BY <1>2 DEF Restart
  <2>2. HoldsLeft
    BY <2>1, UnchangedSettles DEF NoneRequeued
  <2> QED BY <1>1, <2>1, <2>2, Steady, Typed
<1>3. CASE Running # {}
  <2>1. PICK i \in Running : Fails(i, reading, "interrupted")
    BY <1>3 DEF Restart
  <2> QED BY <1>1, <2>1, FailsAccounts
<1> QED BY <1>2, <1>3

(* An evaluation takes its attempt from the ledger alone, and only below   *)
(* the allowance: judged is what it may take beyond the reserved ones.     *)
LEMMA GoalAccounts ==
    ASSUME IInv, Accounted, Goal
    PROVE  Accounted'
<1>1. /\ goal \in [status : {"working", "waiting", "stopped"}, attempts : Nat, unsure : BOOLEAN]
      /\ goal.attempts \in Nat /\ judged \in Nat /\ Attempts \in Nat
  BY Typed, Constants
<1>2. sched' = sched /\ entries' = entries
  BY Zenon DEF Goal, GoalMoves, Evaluate, Reconcile
<1>3. HoldsLeft
  BY <1>2, UnchangedSettles DEF NoneRequeued
<1>4. ASSUME NEW known \in BOOLEAN, Evaluate(known)
      PROVE  Accounted'
  <2>1. /\ goal.attempts < Attempts /\ goal'.attempts = goal.attempts + 1
        /\ judged' = judged + 1
    BY <1>1, <1>4 DEF Evaluate
  <2>2. /\ Cardinality(HoldsOf(0)) \in Nat /\ Cardinality(HoldsOf(0)') \in Nat
        /\ Cardinality(HoldsOf(0)') <= Cardinality(HoldsOf(0))
    BY <1>3, HoldsShrink, HoldsCount
  <2>3. /\ Exposure = goal.attempts + Cardinality(HoldsOf(0))
        /\ Exposure' = goal'.attempts + Cardinality(HoldsOf(0)')
    BY DEF Exposure, ExposureBut
  <2> QED BY <1>1, <2>1, <2>2, <2>3 DEF Accounted
<1>5. ASSUME NEW status \in {"working", "waiting", "stopped"}, GoalMoves(status)
      PROVE  goal'.attempts = goal.attempts /\ judged' = judged
  BY <1>1, <1>5 DEF GoalMoves, history
<1>6. ASSUME Reconcile
      PROVE  goal'.attempts = goal.attempts /\ judged' = judged
  BY <1>1, <1>6 DEF Reconcile, history
<1>7. ASSUME goal'.attempts = goal.attempts, judged' = judged
      PROVE  Accounted'
  BY <1>1, <1>3, <1>7, Steady
<1> QED BY <1>4, <1>5, <1>6, <1>7 DEF Goal

-----------------------------------------------------------------------------
(* The theorems.                                                           *)

LEMMA InitSound == Init => IInv
<1> SUFFICES ASSUME Init PROVE IInv
  OBVIOUS
<1>1. Added = {} /\ DOMAIN entries = {} /\ entries = <<>>
  BY DEF Init, Added
<1>2. ScheduleTypeOK
  <2>1. /\ sched \in [Schedules -> Records \cup {None}]
        /\ entries \in Seq(Entry) /\ Len(entries) = 0
    BY <1>1 DEF Init
  <2>2. Len(entries) <= MaxEntries
    BY <2>1, Constants
  <2>3. goal \in [status : {"working", "waiting", "stopped"}, attempts : Nat, unsure : BOOLEAN]
    <3>1. FALSE \in BOOLEAN
      OBVIOUS
    <3> QED BY <3>1 DEF Init
  <2> QED BY <2>1, <2>2, <2>3 DEF ScheduleTypeOK, Entry, Init
<1> QED BY <1>1, <1>2 DEF Init, IInv, SchedulesSound, Linked, TurnAlone, HistoryPlaced,
           RevokedStay, Running, Queued

LEMMA NextSound == IInv /\ [Next]_vars => IInv'
<1> SUFFICES ASSUME IInv, [Next]_vars PROVE IInv'
  OBVIOUS
<1>1. ASSUME NEW s \in Schedules, Control(s) PROVE IInv'
  BY <1>1, AddKeeps, CancelKeeps, PauseKeeps, ResumeKeeps, CadenceKeeps, AdmitKeeps,
     NotifyKeeps DEF Control
<1>2. ASSUME Turn PROVE IInv'
  BY <1>2, SubmitKeeps, CancelQueuedKeeps, StartKeeps, SendKeeps, TurnFailsKeeps,
     CompletesKeeps DEF Turn
<1>3. ASSUME NEW reading \in Readings, Restart(reading) \/ RecoverSchedules(reading)
      PROVE  IInv'
  BY <1>3, RestartKeeps, RecoverKeeps
<1>4. CASE UNCHANGED vars
  BY <1>4 DEF vars, IInv, ScheduleTypeOK, SchedulesSound, Linked, TurnAlone,
     HistoryPlaced, RevokedStay, Added, Running, Up, Fired
<1> QED BY <1>1, <1>2, <1>3, <1>4, GoalKeeps DEF Next

LEMMA NextAccounts == IInv /\ Accounted /\ [Next]_vars => Accounted'
<1> SUFFICES ASSUME IInv, Accounted, [Next]_vars PROVE Accounted'
  OBVIOUS
<1>1. ASSUME NEW reading \in Readings, Restart(reading) \/ RecoverSchedules(reading)
      PROVE  Accounted'
  BY <1>1, RestartAccounts, RecoverAccounts
<1>2. CASE UNCHANGED vars
  <2>1. UNCHANGED <<sched, entries, goal, judged>>
    BY <1>2 DEF vars
  <2>2. HoldsLeft
    BY <2>1, UnchangedSettles DEF NoneRequeued
  <2> QED BY <2>1, <2>2, Steady, Typed
<1> QED BY <1>1, <1>2, ControlAccounts, TurnAccounts, GoalAccounts DEF Next

LEMMA InitAccounts == Init => Accounted
<1> SUFFICES ASSUME Init PROVE Accounted
  OBVIOUS
<1>1. Added = {} /\ goal.attempts = 0 /\ judged = 0
  BY DEF Init, Added
<1>2. HoldsOf(0) = {}
  BY <1>1 DEF HoldsOf
<1>3. Exposure = 0
  BY <1>1, <1>2, FS_EmptySet DEF Exposure, ExposureBut
<1> QED BY <1>1, <1>3, Constants DEF Accounted

LEMMA BooksAgree ==
    ASSUME IInv
    PROVE  FiresTell
<1> SUFFICES ASSUME NEW s \in Added
             PROVE  /\ \A k \in DOMAIN sched[s].fires :
                         Tells(sched[s].fires[k], entries[sched[s].fires[k].at].status)
                    /\ Cardinality(Held(sched[s])) <= 1 /\ Len(sched[s].fires) <= MaxFires
                    /\ QueuedFires(sched[s], entries) # {} => sched[s].status = "active"
  BY DEF FiresTell
<1>1. Sound(sched[s]) /\ Told(s, sched[s], entries) /\ Live(sched[s], entries)
  BY Typed
<1>2. Cardinality(Held(sched[s])) <= 1
  <2>1. CASE Held(sched[s]) = {}
    <3>1. Cardinality({}) = 0
      BY FS_EmptySet
    <3> QED BY <2>1, <3>1
  <2>2. CASE Held(sched[s]) # {}
    <3>1. PICK k \in Held(sched[s]) : TRUE
      BY <2>2
    <3>2. Held(sched[s]) = {k}
      BY <1>1, <3>1 DEF Sound
    <3>3. Cardinality({k}) = 1
      BY FS_Singleton
    <3> QED BY <3>2, <3>3
  <2> QED BY <2>1, <2>2
<1> QED BY <1>1, <1>2 DEF Sound, Told, Live

(* Each wakeup that never started is a hold of its own. *)
LEMMA NeverStartedHeld ==
    ASSUME IInv
    PROVE  /\ Cardinality(NeverStarted) \in Nat
           /\ Cardinality(NeverStarted) <= Cardinality(HoldsOf(0))
<1> DEFINE hold == [i \in NeverStarted |-> <<entries[i].by, FireAt(entries[i].by, i)>>]
<1>1. ASSUME NEW i \in NeverStarted
      PROVE  LET s == entries[i].by  k == FireAt(s, i) IN
             /\ s \in Added /\ k \in DOMAIN sched[s].fires /\ sched[s].fires[k].at = i
             /\ <<s, k>> \in HoldsOf(0)
  <2> DEFINE s == entries[i].by
             k == FireAt(s, i)
             fire == sched[s].fires[k]
  <2>1. /\ i \in DOMAIN entries /\ entries[i].by # User
        /\ entries[i].status = "queued" \/ fire.state = "skipped"
    BY DEF NeverStarted
  <2>2. s \in Added /\ Fired(i)
    BY <2>1 DEF IInv, Linked
  <2>3. k \in DOMAIN sched[s].fires /\ fire.at = i
    BY <2>2 DEF Fired, FireAt
  <2>4. /\ Sound(sched[s]) /\ Told(s, sched[s], entries)
        /\ DOMAIN entries = 1..Len(entries) /\ Len(entries) \in Nat
    BY <2>2, Typed, Zenon
  <2>5. Tells(fire, entries[i].status)
    BY <2>3, <2>4, Zenon DEF Told
  <2>6. k \in 1..MaxFires
    <3>1. /\ DOMAIN sched[s].fires = 1..Len(sched[s].fires) /\ Len(sched[s].fires) \in Nat
          /\ Len(sched[s].fires) <= MaxFires
      BY <2>4, LenProperties DEF Sound, Records
    <3> QED BY <2>3, <3>1, Constants
  <2> HIDE DEF s, k
  <2>7. HoldsAs(fire, entries) /\ fire.at # 0
    BY <2>1, <2>3, <2>4, <2>5 DEF HoldsAs, Tells
  <2>8. <<s, k>> \in HoldsOf(0)
    BY <2>2, <2>3, <2>6, <2>7 DEF HoldsOf, HoldsAs
  <2> QED BY <2>2, <2>3, <2>8 DEF s, k
<1>2. hold \in [NeverStarted -> HoldsOf(0)]
  BY <1>1
<1>3. ASSUME NEW i \in NeverStarted, NEW j \in NeverStarted, hold[i] = hold[j]
      PROVE  i = j
  <2>1. /\ entries[i].by = entries[j].by
        /\ FireAt(entries[i].by, i) = FireAt(entries[j].by, j)
    BY <1>3
  <2> QED BY <1>1, <2>1
<1>4. hold \in Injection(NeverStarted, HoldsOf(0))
  BY <1>2, <1>3 DEF Injection, IsInjective
<1> HIDE DEF hold
<1>5. IsFiniteSet(HoldsOf(0))
  BY HoldsCount
<1> QED BY <1>4, <1>5, FS_Injection, FS_CardinalityType

(* The inductive invariant holds of every behaviour: the types, and what a *)
(* record says, how fires and messages agree, and what a stop revoked.     *)
THEOREM InvariantHolds == Spec => []IInv
<1>1. Init => IInv
  BY InitSound
<1>2. IInv /\ [Next]_vars => IInv'
  BY NextSound
<1> QED BY <1>1, <1>2, PTL DEF Spec

(* Stopping wins (_retire_queued_schedule, revalidate_schedule_dispatch    *)
(* and recover_schedules): no revoked wakeup is ever sent, and a schedule  *)
(* with a wakeup of unknown outcome is never active again.                 *)
THEOREM StopsWin == Spec => []StopsHold
<1>1. IInv => StopsHold
  BY DEF IInv, RevokedStay, SchedulesSound, Sound, Doubtful, StopsHold
<1> QED BY <1>1, InvariantHolds, PTL

(* Fires and queue entries tell the same story after every commit, and a   *)
(* schedule has at most one fire in flight (the state validator).          *)
THEOREM FiresAgree == Spec => []FiresTell
<1>1. IInv => FiresTell
  BY BooksAgree
<1> QED BY <1>1, InvariantHolds, PTL

(* Skipping refunds nothing (_with_schedule_holds, scheduled_goal_exposure *)
(* and reserve_wakeup): what the goal has spent and the wakeups that were  *)
(* reserved and never started stay within what the goal allows and its     *)
(* evaluations took, no notification counts twice, and both books agree.   *)
THEOREM WakeupsAreAccounted == Spec => []WakeupsAccounted
<1>1. Init => IInv /\ Accounted
  BY InitSound, InitAccounts
<1>2. IInv /\ Accounted /\ [Next]_vars => (IInv /\ Accounted)'
  BY NextSound, NextAccounts
<1>3. IInv /\ Accounted => WakeupsAccounted
  <2> SUFFICES ASSUME IInv, Accounted PROVE WakeupsAccounted
    OBVIOUS
  <2>1. FiresTell
    BY BooksAgree
  <2>2. \A s \in Added : NotifiedBy(sched[s].fires) + sched[s].pending <= sched[s].cursor
    BY DEF IInv, SchedulesSound, Sound
  <2>3. goal.attempts + Cardinality(NeverStarted) <= Attempts + judged
    <3>1. /\ Cardinality(NeverStarted) \in Nat
          /\ Cardinality(NeverStarted) <= Cardinality(HoldsOf(0))
          /\ Cardinality(HoldsOf(0)) \in Nat
      BY NeverStartedHeld, HoldsCount
    <3>2. Exposure = goal.attempts + Cardinality(HoldsOf(0))
      BY DEF Exposure, ExposureBut
    <3>3. goal.attempts \in Nat /\ judged \in Nat /\ Attempts \in Nat
      BY Typed, Constants
    <3> QED BY <3>1, <3>2, <3>3 DEF Accounted
  <2> QED BY <2>1, <2>2, <2>3 DEF WakeupsAccounted, Accounted
<1> QED BY <1>1, <1>2, <1>3, PTL DEF Spec
=============================================================================
