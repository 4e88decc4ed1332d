-------------------------- MODULE SpendLedgerProofs --------------------------
(***************************************************************************)
(* The spending ledger is correct for every number of entries, every batch  *)
(* bound and every ceiling.  The inductive invariant adds to the checked    *)
(* ones that an absent row charges nothing; the money arguments all go      *)
(* through what one call does to Spent and to Exposed.                      *)
(***************************************************************************)
EXTENDS SpendLedgerTx, FiniteSetTheorems, TLAPS

-----------------------------------------------------------------------------
(* Facts about Total: it is additive over disjoint sets of rows, depends   *)
(* only on the amounts of its rows, and does not depend on how the rows    *)
(* are named.                                                              *)

(* A finite set of rows holds finitely many micro-dollars.                  *)
LEMMA UnitsFinite ==
  ASSUME NEW D, IsFiniteSet(D), NEW f
  PROVE  IsFiniteSet(Units(D, f)) /\ Total(D, f) \in Nat
<1>1. IsFiniteSet(1..MaxAmount)
  BY FS_Interval, MaxAmountAssumption
<1>2. IsFiniteSet(D \X (1..MaxAmount))
  BY <1>1, FS_Product
<1>3. IsFiniteSet(Units(D, f))
  <2>1. Units(D, f) \in SUBSET (D \X (1..MaxAmount))
    BY DEF Units
  <2> QED BY <1>2, <2>1, FS_Subset
<1> QED BY <1>3, FS_CardinalityType DEF Total

(* No rows hold no money.                                                   *)
LEMMA TotalEmpty == \A f : Total({}, f) = 0
<1> SUFFICES ASSUME NEW f PROVE Total({}, f) = 0
  OBVIOUS
<1>1. Units({}, f) = {}
  BY DEF Units
<1> QED BY <1>1, FS_EmptySet DEF Total

(* Nor do rows that hold nothing.                                           *)
LEMMA TotalZero ==
  ASSUME NEW D, NEW f, \A x \in D : f[x] = 0
  PROVE  Total(D, f) = 0
<1>1. Units(D, f) = {}
  BY DEF Units
<1> QED BY <1>1, FS_EmptySet DEF Total

(* One row holds its amount.                                                *)
LEMMA TotalSingleton ==
  ASSUME NEW x, NEW f, f[x] \in Amount
  PROVE  Total({x}, f) = f[x]
<1>1. PICK n \in Nat : n = f[x] /\ n <= MaxAmount
  BY MaxAmountAssumption DEF Amount
<1> DEFINE b == [k \in 1..n |-> <<x, k>>]
<1>2. IsFiniteSet(1..n) /\ Cardinality(1..n) = n
  <2>1. IsFiniteSet(1..n) /\ Cardinality(1..n) = IF 1 > n THEN 0 ELSE n - 1 + 1
    BY FS_Interval, 1 \in Int, n \in Int
  <2> QED BY <2>1
<1>3. Units({x}, f) = {<<x, k>> : k \in 1..n}
  BY <1>1, MaxAmountAssumption DEF Units
<1>4. b \in Bijection(1..n, Units({x}, f))
  BY <1>3 DEF Bijection, Injection, Surjection, IsInjective
<1>5. ExistsBijection(1..n, Units({x}, f))
  BY <1>4 DEF ExistsBijection
<1> QED BY <1>1, <1>2, <1>5, FS_Bijection DEF Total

(* Disjoint sets of rows add up.                                            *)
LEMMA TotalUnion ==
  ASSUME NEW A, NEW B, IsFiniteSet(A), IsFiniteSet(B), A \cap B = {}, NEW f
  PROVE  Total(A \cup B, f) = Total(A, f) + Total(B, f)
<1>1. Units(A \cup B, f) = Units(A, f) \cup Units(B, f)
  BY DEF Units
<1>2. Units(A, f) \cap Units(B, f) = {}
  BY DEF Units
<1>3. IsFiniteSet(Units(A, f)) /\ IsFiniteSet(Units(B, f))
  BY UnitsFinite
<1>4. Total(A, f) \in Nat /\ Total(B, f) \in Nat
  BY UnitsFinite
<1>5. Cardinality(Units(A, f) \cup Units(B, f))
        = Cardinality(Units(A, f)) + Cardinality(Units(B, f)) - Cardinality(Units(A, f) \cap Units(B, f))
  BY <1>3, FS_Union
<1>6. Cardinality(Units(A, f) \cap Units(B, f)) = 0
  BY <1>2, FS_EmptySet
<1>7. Total(A \cup B, f) = Cardinality(Units(A, f) \cup Units(B, f))
  BY <1>1 DEF Total
<1>8. Total(A, f) = Cardinality(Units(A, f)) /\ Total(B, f) = Cardinality(Units(B, f))
  BY DEF Total
<1> QED BY <1>4, <1>5, <1>6, <1>7, <1>8

(* Only the amounts of the rows matter.                                     *)
LEMMA TotalAgree ==
  ASSUME NEW D, NEW f, NEW g, \A x \in D : f[x] = g[x]
  PROVE  Total(D, f) = Total(D, g)
<1>1. Units(D, f) = Units(D, g)
  BY DEF Units
<1> QED BY <1>1 DEF Total

(* A row can be counted apart.                                              *)
LEMMA TotalSplit ==
  ASSUME NEW D, IsFiniteSet(D), NEW x \in D, NEW f, f[x] \in Amount
  PROVE  /\ Total(D, f) = Total(D \ {x}, f) + f[x]
         /\ Total(D \ {x}, f) \in Nat
<1>1. IsFiniteSet(D \ {x}) /\ IsFiniteSet({x})
  BY FS_RemoveElement, FS_Singleton
<1>2. D = (D \ {x}) \cup {x} /\ (D \ {x}) \cap {x} = {}
  OBVIOUS
<1>3. Total(D, f) = Total(D \ {x}, f) + Total({x}, f)
  BY <1>1, <1>2, TotalUnion
<1> QED BY <1>1, <1>3, TotalSingleton, UnitsFinite

(* Renaming the rows one to one leaves the sum alone: a batch of entries    *)
(* with distinct ids adds up to what its ids hold once inserted.            *)
LEMMA TotalReindex ==
  ASSUME NEW D, IsFiniteSet(D), NEW E, NEW b \in Bijection(D, E),
         NEW f, NEW g, \A x \in D : g[b[x]] = f[x]
  PROVE  Total(E, g) = Total(D, f)
<1> DEFINE c == [u \in Units(D, f) |-> <<b[u[1]], u[2]>>]
<1>1. \A u \in Units(D, f) : /\ u = <<u[1], u[2]>> /\ u[1] \in D /\ u[2] \in 1..MaxAmount
                             /\ u[2] <= f[u[1]]
  BY DEF Units
<1>2. /\ \A x \in D : b[x] \in E
      /\ \A x, y \in D : b[x] = b[y] => x = y
      /\ \A e \in E : \E x \in D : b[x] = e
  BY DEF Bijection, Injection, Surjection, IsInjective
<1>3. c \in [Units(D, f) -> Units(E, g)]
  BY <1>1, <1>2 DEF Units
<1>4. ASSUME NEW u \in Units(D, f), NEW v \in Units(D, f), c[u] = c[v]
      PROVE  u = v
  BY <1>1, <1>2, <1>4
<1>5. ASSUME NEW w \in Units(E, g)
      PROVE  \E u \in Units(D, f) : c[u] = w
  <2>1. w = <<w[1], w[2]>> /\ w[1] \in E /\ w[2] \in 1..MaxAmount /\ w[2] <= g[w[1]]
    BY <1>5 DEF Units
  <2>2. PICK x \in D : b[x] = w[1]
    BY <1>2, <2>1
  <2>3. <<x, w[2]>> \in Units(D, f)
    BY <2>1, <2>2 DEF Units
  <2> QED BY <2>1, <2>2, <2>3
<1>6. c \in Bijection(Units(D, f), Units(E, g))
  BY <1>3, <1>4, <1>5 DEF Bijection, Injection, Surjection, IsInjective
<1>7. ExistsBijection(Units(D, f), Units(E, g))
  BY <1>6 DEF ExistsBijection
<1> QED BY <1>7, UnitsFinite, FS_Bijection DEF Total

-----------------------------------------------------------------------------
(* The inductive invariant.                                                *)
AbsentChargesNothing == \A e \in EntryId : status[e] = "absent" => charged[e] = 0

LedgerInv == /\ TypeOK
             /\ AbsentChargesNothing
             /\ UnresolvedFullyExposed
             /\ AuditsAgree
             /\ GuardedStaysHeld
             /\ ExposureWithinCeiling

-----------------------------------------------------------------------------
(* What a batch inserts: one exact row per entry.                           *)
LEMMA InsertedRows ==
  ASSUME NEW batch \in Batches
  PROVE  /\ Inserted(batch) \subseteq EntryId
         /\ \A e \in Inserted(batch) : /\ EntryOf(batch, e) \in LedgerEntry
                                       /\ EntryOf(batch, e).id = e
         /\ (\A i, j \in DOMAIN batch : batch[i].id = batch[j].id => i = j)
              => \A i \in DOMAIN batch : EntryOf(batch, batch[i].id) = batch[i]
<1>1. \A i \in DOMAIN batch : batch[i] \in LedgerEntry /\ batch[i].id \in EntryId
  BY DEF Batches, LedgerEntry
<1>2. ASSUME NEW e \in Inserted(batch)
      PROVE  /\ (CHOOSE i \in DOMAIN batch : batch[i].id = e) \in DOMAIN batch
             /\ batch[CHOOSE i \in DOMAIN batch : batch[i].id = e].id = e
  <2>1. \E i \in DOMAIN batch : batch[i].id = e
    BY DEF Inserted
  <2> QED BY <2>1
<1>3. ASSUME \A i, j \in DOMAIN batch : batch[i].id = batch[j].id => i = j,
             NEW i \in DOMAIN batch
      PROVE  EntryOf(batch, batch[i].id) = batch[i]
  <2>1. batch[i].id \in Inserted(batch)
    BY DEF Inserted
  <2>2. (CHOOSE k \in DOMAIN batch : batch[k].id = batch[i].id) = i
    BY <1>2, <1>3, <2>1
  <2> QED BY <2>2 DEF EntryOf
<1>4. Inserted(batch) \subseteq EntryId
  BY <1>1 DEF Inserted
<1>5. \A e \in Inserted(batch) : EntryOf(batch, e) \in LedgerEntry /\ EntryOf(batch, e).id = e
  BY <1>1, <1>2 DEF EntryOf
<1> QED BY <1>3, <1>4, <1>5

-----------------------------------------------------------------------------
(* The types hold in every reachable state.                                 *)
LEMMA TypeInit == Init => TypeOK
<1>1. 0 \in Amount
  BY MaxAmountAssumption DEF Amount
<1> QED BY <1>1 DEF Init, TypeOK, Status, Outcome

LEMMA SetOutcomeType ==
  ASSUME TypeOK, NEW e \in EntryId, NEW st \in Outcome, NEW c \in Amount, SetOutcome(e, st, c)
  PROVE  /\ status' \in [EntryId -> Status] /\ charged' \in [EntryId -> Amount]
         /\ hash' = hash /\ reserved' = reserved
<1>1. st \in Status
  BY DEF Status
<1> QED BY <1>1 DEF TypeOK, SetOutcome

LEMMA TypeStep == TypeOK /\ [Next]_vars => TypeOK'
<1> SUFFICES ASSUME TypeOK, [Next]_vars PROVE TypeOK'
  OBVIOUS
<1>0. 0 \in Amount /\ "held" \in Status /\ "settled" \in Status /\ "settled" \in Outcome
  BY MaxAmountAssumption DEF Amount, Status, Outcome
<1>1. ASSUME NEW batch \in Batches, NEW limit, ReserveMany(batch, limit) PROVE TypeOK'
  <2>1. \A e \in Inserted(batch) : /\ EntryOf(batch, e).hash \in Digest
                                   /\ EntryOf(batch, e).amount \in Amount
    BY InsertedRows DEF LedgerEntry
  <2>2. status' \in [EntryId -> Status]
    BY <1>0, <1>1 DEF TypeOK, ReserveMany
  <2>3. hash' \in [EntryId -> Digest \cup {NoDigest}]
    BY <1>1, <2>1 DEF TypeOK, ReserveMany
  <2>4. reserved' \in [EntryId -> Amount] /\ charged' \in [EntryId -> Amount]
    BY <1>1, <2>1 DEF TypeOK, ReserveMany
  <2> QED BY <1>1, <2>2, <2>3, <2>4 DEF TypeOK, ReserveMany
<1>2. ASSUME NEW x \in LedgerEntry, NEW y \in LedgerEntry, TransferHeld(x, y) PROVE TypeOK'
  <2>1. y.hash \in Digest /\ y.amount \in Amount
    BY DEF LedgerEntry
  <2> QED BY <1>0, <1>2, <2>1 DEF TypeOK, TransferHeld
<1>3. ASSUME NEW x \in LedgerEntry, RetireUnused(x) PROVE TypeOK'
  <2>1. x.id \in EntryId
    BY DEF LedgerEntry
  <2> QED BY <1>0, <1>3, <2>1, SetOutcomeType DEF TypeOK, RetireUnused
<1>4. ASSUME NEW e \in EntryId, NEW h, NEW st \in Outcome, NEW c \in Amount, Settle(e, h, st, c)
      PROVE  TypeOK'
  BY <1>4, SetOutcomeType DEF TypeOK, Settle
<1>5. ASSUME NEW e \in EntryId, NEW a \in Audit, ReconcileUncertain(e, a) PROVE TypeOK'
  <2>1. a.charged \in Amount
    BY DEF Audit
  <2> QED BY <1>0, <1>5, <2>1, SetOutcomeType DEF TypeOK, ReconcileUncertain
<1>6. ASSUME NEW e \in EntryId, NEW a \in Audit, ReconcileCountOnly(e, a) PROVE TypeOK'
  BY <1>0, <1>6, SetOutcomeType DEF TypeOK, ReconcileCountOnly
<1>7. ASSUME NEW p \in Holder, NEW x \in LedgerEntry, GuardHeld(p, x) PROVE TypeOK'
  <2>1. x.id \in EntryId
    BY DEF LedgerEntry
  <2> QED BY <1>7, <2>1 DEF TypeOK, GuardHeld, ledgerRows, audits
<1>8. ASSUME NEW p \in Holder, GuardRelease(p) PROVE TypeOK'
  BY <1>8 DEF TypeOK, GuardRelease, ledgerRows, audits
<1>9. CASE UNCHANGED vars
  BY <1>9 DEF vars, TypeOK
<1> QED BY <1>1, <1>2, <1>3, <1>4, <1>5, <1>6, <1>7, <1>8, <1>9 DEF Next

(* Every reachable state is well typed.                                     *)
THEOREM TypeCorrect == Spec => []TypeOK
<1> QED BY TypeInit, TypeStep, PTL DEF Spec

-----------------------------------------------------------------------------
(* Money.  Rows are settled, unresolved or absent, so what is charged is    *)
(* what is spent plus what is exposed.                                      *)
LEMMA SubsetsFinite ==
  ASSUME NEW D \in SUBSET EntryId
  PROVE  IsFiniteSet(D)
BY LedgerAssumption, FS_Subset

LEMMA MoneyParts ==
  TypeOK /\ AbsentChargesNothing =>
    /\ Charged = Spent + Exposed
    /\ Charged \in Nat /\ Spent \in Nat /\ Exposed \in Nat
<1> SUFFICES ASSUME TypeOK, AbsentChargesNothing
             PROVE  /\ Charged = Spent + Exposed
                    /\ Charged \in Nat /\ Spent \in Nat /\ Exposed \in Nat
  OBVIOUS
<1> DEFINE absent == {e \in EntryId : status[e] = "absent"}
<1>1. /\ EntryId = Settled \cup (Unresolved \cup absent)
      /\ Settled \cap (Unresolved \cup absent) = {}
      /\ Unresolved \cap absent = {}
  BY DEF TypeOK, Status, Outcome, Settled, Unresolved
<1>2. /\ IsFiniteSet(Settled) /\ IsFiniteSet(Unresolved) /\ IsFiniteSet(absent)
      /\ IsFiniteSet(Unresolved \cup absent) /\ IsFiniteSet(EntryId)
  BY <1>1, SubsetsFinite, LedgerAssumption DEF Settled, Unresolved
<1>3. Total(absent, charged) = 0
  BY <1>2, TotalZero DEF AbsentChargesNothing
<1>4. Total(EntryId, charged) = Total(Settled, charged) + Total(Unresolved \cup absent, charged)
  BY <1>1, <1>2, TotalUnion
<1>5. Total(Unresolved \cup absent, charged) = Total(Unresolved, charged) + Total(absent, charged)
  BY <1>1, <1>2, TotalUnion
<1>6. Spent \in Nat /\ Exposed \in Nat
  BY <1>2, UnitsFinite DEF Spent, Exposed
<1> QED BY <1>3, <1>4, <1>5, <1>6 DEF Charged, Spent, Exposed

(* An unresolved row resolved at c moves c from exposure to spend and frees *)
(* the rest.                                                                *)
LEMMA ResolveMoney ==
  ASSUME TypeOK, TypeOK', NEW e \in Unresolved, NEW c \in Amount,
         status' = [status EXCEPT ![e] = "settled"],
         charged' = [charged EXCEPT ![e] = c]
  PROVE  Spent' = Spent + c /\ Exposed' = Exposed - charged[e] /\ charged[e] <= Exposed
<1>1. e \in EntryId /\ charged[e] \in Amount /\ charged[e] \in Nat
  BY DEF Unresolved, TypeOK, Amount
<1>2. Settled' = Settled \cup {e} /\ e \notin Settled /\ Unresolved' = Unresolved \ {e}
  BY <1>1 DEF Settled, Unresolved, TypeOK
<1>3. IsFiniteSet(Settled) /\ IsFiniteSet(Unresolved) /\ IsFiniteSet({e})
  BY SubsetsFinite, <1>1 DEF Settled, Unresolved
<1>4. charged'[e] = c /\ \A x \in EntryId \ {e} : charged'[x] = charged[x]
  BY <1>1 DEF TypeOK
<1>5. Total(Settled \cup {e}, charged') = Total(Settled, charged') + Total({e}, charged')
  BY <1>2, <1>3, TotalUnion
<1>6. Total({e}, charged') = c
  BY <1>4, TotalSingleton
<1>7. Total(Settled, charged') = Total(Settled, charged)
  <2>1. \A x \in Settled : charged'[x] = charged[x]
    BY <1>2, <1>4 DEF Settled
  <2> QED BY <2>1, TotalAgree
<1>8. Total(Unresolved \ {e}, charged') = Total(Unresolved \ {e}, charged)
  BY <1>4, TotalAgree DEF Unresolved
<1>9. /\ Total(Unresolved, charged) = Total(Unresolved \ {e}, charged) + charged[e]
      /\ Total(Unresolved \ {e}, charged) \in Nat
  BY <1>1, <1>3, TotalSplit
<1> QED BY <1>1, <1>2, <1>5, <1>6, <1>7, <1>8, <1>9 DEF Spent, Exposed

(* A held row marked uncertain or violating at its full charge moves        *)
(* nothing.                                                                 *)
LEMMA MarkMoney ==
  ASSUME TypeOK, NEW e \in Unresolved, NEW st \in {"uncertain", "violation"},
         status' = [status EXCEPT ![e] = st],
         charged' = charged
  PROVE  Spent' = Spent /\ Exposed' = Exposed
<1>1. Settled' = Settled /\ Unresolved' = Unresolved
  BY DEF Settled, Unresolved, TypeOK
<1> QED BY <1>1 DEF Spent, Exposed

(* An admitted batch adds exactly its own amount to the exposure.           *)
LEMMA ReserveMoney ==
  ASSUME TypeOK, NEW batch \in Batches, NEW limit, ReserveMany(batch, limit)
  PROVE  Spent' = Spent /\ Exposed' = Exposed + BatchAmount(batch) /\ BatchAmount(batch) \in Nat
<1> DEFINE S == Inserted(batch)
<1> DEFINE amounts == [i \in DOMAIN batch |-> batch[i].amount]
<1> DEFINE b == [i \in DOMAIN batch |-> batch[i].id]
<1>1. PICK n \in 1..MaxBatch : batch \in [1..n -> LedgerEntry]
  BY DEF Batches
<1>2. IsFiniteSet(DOMAIN batch)
  <2>1. n \in Int /\ DOMAIN batch = 1..n
    BY <1>1, LedgerAssumption
  <2> QED BY <2>1, FS_Interval, 1 \in Int
<1>3. /\ S \subseteq EntryId
      /\ \A i \in DOMAIN batch : EntryOf(batch, batch[i].id) = batch[i] /\ batch[i].id \in S
  BY InsertedRows DEF ReserveMany, Admissible, Fresh, AdmissionLimits, Inserted
<1>4. b \in Bijection(DOMAIN batch, S)
  <2>1. \A i \in DOMAIN batch : batch[i].id \in S
    BY <1>3
  <2>2. b \in [DOMAIN batch -> S]
    BY <2>1
  <2>3. \A i, j \in DOMAIN batch : b[i] = b[j] => i = j
    BY DEF ReserveMany, Admissible, Fresh, AdmissionLimits
  <2>4. \A e \in S : \E i \in DOMAIN batch : b[i] = e
    BY DEF Inserted
  <2> QED BY <2>2, <2>3, <2>4 DEF Bijection, Injection, Surjection, IsInjective
<1>5. \A i \in DOMAIN batch : charged'[b[i]] = amounts[i]
  BY <1>3 DEF ReserveMany
<1>6. Total(S, charged') = BatchAmount(batch)
  <2> HIDE DEF b, amounts, S
  <2>1. Total(S, charged') = Total(DOMAIN batch, amounts)
    BY <1>2, <1>4, <1>5, TotalReindex
  <2> QED BY <2>1 DEF BatchAmount, amounts
<1>7. S \cap Settled = {} /\ S \cap Unresolved = {}
  BY DEF ReserveMany, Admissible, Fresh, AdmissionLimits, Inserted, Settled, Unresolved
<1>8. Settled' = Settled /\ Unresolved' = Unresolved \cup S
  BY <1>3, <1>7 DEF ReserveMany, Settled, Unresolved, TypeOK
<1>9. IsFiniteSet(Unresolved) /\ IsFiniteSet(S)
  BY SubsetsFinite, <1>3 DEF Unresolved
<1>10. \A e \in EntryId \ S : charged'[e] = charged[e]
  BY DEF ReserveMany, TypeOK
<1>11. Total(Settled, charged') = Total(Settled, charged)
  BY <1>7, <1>10, TotalAgree DEF Settled
<1>12. Total(Unresolved, charged') = Total(Unresolved, charged)
  BY <1>7, <1>10, TotalAgree DEF Unresolved
<1>13. Total(Unresolved \cup S, charged') = Total(Unresolved, charged') + Total(S, charged')
  BY <1>7, <1>9, TotalUnion
<1>14. BatchAmount(batch) \in Nat
  BY <1>6, <1>9, UnitsFinite
<1> QED BY <1>6, <1>8, <1>11, <1>12, <1>13, <1>14 DEF Spent, Exposed

(* A transfer settles its source at zero and exposes the same amount under  *)
(* the new id.                                                              *)
LEMMA TransferMoney ==
  ASSUME TypeOK, NEW x \in LedgerEntry, NEW y \in LedgerEntry, TransferHeld(x, y)
  PROVE  Spent' = Spent /\ Exposed' = Exposed
<1>1. /\ x.id \in EntryId /\ y.id \in EntryId /\ x.id # y.id
      /\ x.amount = y.amount /\ y.amount \in Amount
      /\ status[x.id] = "held" /\ status[y.id] = "absent" /\ charged[x.id] = x.amount
  BY DEF LedgerEntry, TransferHeld, ExactRow
<1> DEFINE rest == Unresolved \ {x.id}
<1>2. /\ Settled' = Settled \cup {x.id} /\ Settled \cap {x.id} = {}
      /\ Unresolved' = rest \cup {y.id} /\ rest \cap {y.id} = {} /\ x.id \in Unresolved
  BY <1>1 DEF Settled, Unresolved, TransferHeld, TypeOK
<1>3. /\ IsFiniteSet(Settled) /\ IsFiniteSet(Unresolved) /\ IsFiniteSet(rest)
      /\ IsFiniteSet({x.id}) /\ IsFiniteSet({y.id})
  BY SubsetsFinite, <1>1 DEF Settled, Unresolved
<1>4. /\ charged'[x.id] = 0 /\ charged'[y.id] = y.amount
      /\ \A e \in EntryId \ {x.id, y.id} : charged'[e] = charged[e]
  BY <1>1 DEF TransferHeld, TypeOK
<1>5. Total(Settled \cup {x.id}, charged') = Total(Settled, charged') + Total({x.id}, charged')
  BY <1>2, <1>3, TotalUnion
<1>6. 0 \in Amount
  BY MaxAmountAssumption DEF Amount
<1>7. Total({x.id}, charged') = 0 /\ Total({y.id}, charged') = y.amount
  BY <1>1, <1>4, <1>6, TotalSingleton
<1>8. Total(Settled, charged') = Total(Settled, charged)
  BY <1>1, <1>4, TotalAgree DEF Settled
<1>9. Total(rest \cup {y.id}, charged') = Total(rest, charged') + Total({y.id}, charged')
  BY <1>2, <1>3, TotalUnion
<1>10. Total(rest, charged') = Total(rest, charged)
  BY <1>1, <1>4, TotalAgree DEF Unresolved
<1>11. Total(Unresolved, charged) = Total(rest, charged) + charged[x.id]
  BY <1>1, <1>2, <1>3, TotalSplit
<1>12. Total(Settled, charged) \in Nat
  BY <1>3, UnitsFinite
<1> QED BY <1>1, <1>2, <1>5, <1>7, <1>8, <1>9, <1>10, <1>11, <1>12 DEF Spent, Exposed

-----------------------------------------------------------------------------
(* The local facts of LedgerInv: each call writes rows that satisfy them.   *)
LocalInv == AbsentChargesNothing /\ UnresolvedFullyExposed /\ AuditsAgree /\ GuardedStaysHeld

(* One unguarded row resolved or marked by SetOutcome.                      *)
LEMMA SetOutcomeLocal ==
  ASSUME TypeOK, AbsentChargesNothing, UnresolvedFullyExposed, Writable,
         NEW e \in Unresolved, NEW st \in Outcome, NEW c,
         st # "settled" => c = reserved[e],
         SetOutcome(e, st, c), UNCHANGED guard
  PROVE  AbsentChargesNothing' /\ UnresolvedFullyExposed' /\ GuardedStaysHeld'
<1>1. e \in EntryId
  BY DEF Unresolved
<1>2. AbsentChargesNothing'
  BY <1>1 DEF AbsentChargesNothing, SetOutcome, TypeOK, Outcome
<1>3. UnresolvedFullyExposed'
  BY <1>1 DEF UnresolvedFullyExposed, Unresolved, SetOutcome, TypeOK, Outcome
<1>4. GuardedStaysHeld'
  BY DEF GuardedStaysHeld, Writable
<1> QED BY <1>2, <1>3, <1>4

(* Resolving a row that carries no audit leaves every audit right.          *)
LEMMA AuditedAreSettled ==
  ASSUME AuditsAgree, NEW e \in Unresolved
  PROVE  reconciliations[e] = NoAudit /\ countOnly[e] = NoAudit
BY DEF AuditsAgree, Unresolved

LEMMA LocalStep ==
  ASSUME TypeOK, LocalInv, Next
  PROVE  LocalInv'
<1> USE DEF LocalInv
<1>1. ASSUME NEW batch \in Batches, NEW limit, ReserveMany(batch, limit) PROVE LocalInv'
  <2>1. \A e \in Inserted(batch) : /\ e \in EntryId /\ status[e] = "absent"
                                   /\ EntryOf(batch, e).hash \in Digest
    BY <1>1, InsertedRows DEF LedgerEntry, ReserveMany, Admissible, Fresh, AdmissionLimits, Inserted
  <2>2. AbsentChargesNothing'
    BY <1>1 DEF AbsentChargesNothing, ReserveMany
  <2>3. UnresolvedFullyExposed'
    BY <1>1, <2>1 DEF UnresolvedFullyExposed, Unresolved, ReserveMany
  <2>4. AuditsAgree'
    <3>1. \A e \in EntryId : status[e] = "settled" => e \notin Inserted(batch)
      BY <2>1
    <3> QED BY <1>1, <3>1 DEF AuditsAgree, ReserveMany
  <2>5. GuardedStaysHeld'
    BY <1>1 DEF GuardedStaysHeld, ReserveMany, Writable
  <2> QED BY <2>2, <2>3, <2>4, <2>5
<1>2. ASSUME NEW x \in LedgerEntry, NEW y \in LedgerEntry, TransferHeld(x, y) PROVE LocalInv'
  <2>1. /\ x.id \in EntryId /\ y.id \in EntryId /\ y.hash \in Digest /\ x.id # y.id
        /\ status[x.id] = "held" /\ status[y.id] = "absent"
    BY <1>2 DEF LedgerEntry, TransferHeld, ExactRow
  <2>2. AbsentChargesNothing'
    BY <1>2, <2>1 DEF AbsentChargesNothing, TransferHeld, TypeOK
  <2>3. UnresolvedFullyExposed'
    BY <1>2, <2>1 DEF UnresolvedFullyExposed, Unresolved, TransferHeld, TypeOK
  <2>4. AuditsAgree'
    BY <1>2, <2>1 DEF AuditsAgree, TransferHeld, TypeOK
  <2>5. GuardedStaysHeld'
    BY <1>2 DEF GuardedStaysHeld, TransferHeld, Writable
  <2> QED BY <2>2, <2>3, <2>4, <2>5
<1>3. ASSUME NEW x \in LedgerEntry, RetireUnused(x) PROVE LocalInv'
  <2>1. x.id \in Unresolved /\ "settled" \in Outcome
    BY <1>3 DEF LedgerEntry, RetireUnused, ExactRow, Unresolved, Outcome
  <2>2. AuditsAgree'
    BY <1>3, <2>1, AuditedAreSettled DEF AuditsAgree, RetireUnused, SetOutcome, TypeOK, Unresolved
  <2> QED BY <1>3, <2>1, <2>2, SetOutcomeLocal DEF RetireUnused
<1>4. ASSUME NEW e \in EntryId, NEW h, NEW st \in Outcome, NEW c \in Amount, Settle(e, h, st, c)
      PROVE  LocalInv'
  <2>1. e \in Unresolved
    BY <1>4 DEF Settle, Unresolved
  <2>2. AuditsAgree'
    BY <1>4, <2>1, AuditedAreSettled DEF AuditsAgree, Settle, SetOutcome, TypeOK, Unresolved
  <2> QED BY <1>4, <2>1, <2>2, SetOutcomeLocal DEF Settle
<1>5. ASSUME NEW e \in EntryId, NEW a \in Audit, ReconcileUncertain(e, a) PROVE LocalInv'
  <2>1. e \in Unresolved /\ "settled" \in Outcome
    BY <1>5 DEF ReconcileUncertain, ExactRow, Unresolved, Outcome
  <2>2. AuditsAgree'
    BY <1>5, <2>1, AuditedAreSettled, SMTT(30)
       DEF AuditsAgree, ReconcileUncertain, ExactRow, SetOutcome, TypeOK, Unresolved
  <2> QED BY <1>5, <2>1, <2>2, SetOutcomeLocal DEF ReconcileUncertain
<1>6. ASSUME NEW e \in EntryId, NEW a \in Audit, ReconcileCountOnly(e, a) PROVE LocalInv'
  <2>1. e \in Unresolved /\ "settled" \in Outcome
    BY <1>6 DEF ReconcileCountOnly, ExactRow, Unresolved, Outcome
  <2>2. AuditsAgree'
    BY <1>6, <2>1, AuditedAreSettled
       DEF AuditsAgree, ReconcileCountOnly, ExactRow, SetOutcome, TypeOK, Unresolved
  <2> QED BY <1>6, <2>1, <2>2, SetOutcomeLocal DEF ReconcileCountOnly
<1>7. ASSUME NEW p \in Holder, NEW x \in LedgerEntry, GuardHeld(p, x) PROVE LocalInv'
  <2>1. UNCHANGED <<status, hash, reserved, charged, reconciliations, countOnly>>
    BY <1>7 DEF GuardHeld, ledgerRows, audits
  <2>2. GuardedStaysHeld'
    BY <1>7, <2>1 DEF GuardedStaysHeld, GuardHeld, ExactRow, TypeOK
  <2> QED BY <2>1, <2>2 DEF AbsentChargesNothing, UnresolvedFullyExposed, AuditsAgree, Unresolved
<1>8. ASSUME NEW p \in Holder, GuardRelease(p) PROVE LocalInv'
  BY <1>8 DEF GuardRelease, ledgerRows, audits, AbsentChargesNothing, UnresolvedFullyExposed,
              AuditsAgree, Unresolved, GuardedStaysHeld, TypeOK
<1> QED BY <1>1, <1>2, <1>3, <1>4, <1>5, <1>6, <1>7, <1>8 DEF Next

-----------------------------------------------------------------------------
(* Refinement: every ledger call is a step of the abstract budget.          *)
LEMMA ThawedOrSame == \A b, c \in BOOLEAN : (c => b) => c \in {b, FALSE}
OBVIOUS

(* An unresolved row resolved at no more than its charge is Budget!Resolve. *)
LEMMA ResolveRefines ==
  ASSUME TypeOK, TypeOK', AbsentChargesNothing, NEW e \in Unresolved, NEW c \in Amount,
         c <= charged[e], SetOutcome(e, "settled", c)
  PROVE  Budget!Resolve
<1>1. Spent' = Spent + c /\ Exposed' = Exposed - charged[e] /\ charged[e] <= Exposed
  BY ResolveMoney DEF SetOutcome
<1>2. Spent \in Nat /\ Exposed \in Nat /\ charged[e] \in Nat /\ c \in Nat
  BY MoneyParts DEF TypeOK, Amount, Unresolved
<1>3. charged[e] \in 0..Exposed /\ c \in 0..charged[e]
  BY <1>1, <1>2
<1>4. Blocked' => Blocked
  BY DEF Blocked, SetOutcome, TypeOK, Unresolved
<1>5. Blocked \in BOOLEAN /\ Blocked' \in BOOLEAN
  BY DEF Blocked
<1>6. Blocked' \in {Blocked, FALSE}
  BY <1>4, <1>5, ThawedOrSame
<1> QED BY <1>1, <1>3, <1>6 DEF Budget!Resolve

LEMMA BudgetStep ==
  ASSUME TypeOK, TypeOK', LocalInv, ExposureWithinCeiling, Next
  PROVE  [Budget!Next]_(Budget!vars)
<1>1. AbsentChargesNothing /\ UnresolvedFullyExposed
  BY DEF LocalInv
<1>2. Spent \in Nat /\ Exposed \in Nat /\ Charged = Spent + Exposed /\ Ceiling \in Nat
  BY MoneyParts, LedgerAssumption, <1>1 DEF Amount
<1>3. 0 \in Amount
  BY MaxAmountAssumption DEF Amount
<1>4. ASSUME NEW batch \in Batches, NEW limit, ReserveMany(batch, limit) PROVE Budget!Admit
  <2>1. /\ Spent' = Spent /\ Exposed' = Exposed + BatchAmount(batch)
        /\ BatchAmount(batch) \in 0..(Ceiling - (Spent + Exposed))
    <3>1. BatchAmount(batch) <= Ceiling - Charged
      BY <1>4 DEF ReserveMany, Admissible, Fresh, AdmissionLimits
    <3> QED BY <1>2, <1>4, <3>1, ReserveMoney
  <2>2. ~Blocked /\ ~Blocked'
    BY <1>4 DEF ReserveMany, Admissible, Fresh, AdmissionLimits, Blocked
  <2>3. Blocked' = Blocked
    BY <2>2 DEF Blocked
  <2> QED BY <2>1, <2>2, <2>3 DEF Budget!Admit
<1>5. ASSUME NEW x \in LedgerEntry, NEW y \in LedgerEntry, TransferHeld(x, y)
      PROVE  UNCHANGED Budget!vars
  <2>1. ~Blocked /\ ~Blocked'
    BY <1>5 DEF TransferHeld, Blocked, LedgerEntry, TypeOK
  <2>2. Blocked' = Blocked
    BY <2>1 DEF Blocked
  <2> QED BY <1>5, <2>2, TransferMoney DEF Budget!vars
<1>6. ASSUME NEW x \in LedgerEntry, RetireUnused(x) PROVE Budget!Resolve
  <2>1. x.id \in Unresolved /\ charged[x.id] \in Nat
    BY <1>6 DEF LedgerEntry, RetireUnused, ExactRow, Unresolved, TypeOK, Amount
  <2> QED BY <1>1, <1>3, <1>6, <2>1, ResolveRefines DEF RetireUnused
<1>7. ASSUME NEW e \in EntryId, NEW h, NEW st \in Outcome, NEW c \in Amount, Settle(e, h, st, c)
      PROVE  Budget!Resolve \/ Budget!Freeze \/ UNCHANGED Budget!vars
  <2>1. e \in Unresolved /\ charged[e] = reserved[e] /\ status[e] = "held" /\ c <= reserved[e]
    BY <1>1, <1>7 DEF Settle, Unresolved, UnresolvedFullyExposed
  <2>2. CASE st = "settled"
    BY <1>1, <1>7, <2>1, <2>2, ResolveRefines DEF Settle
  <2>3. CASE st \in {"uncertain", "violation"}
    <3>1. charged' = charged /\ status' = [status EXCEPT ![e] = st]
      BY <1>7, <2>1, <2>3 DEF Settle, SetOutcome, TypeOK
    <3>2. Spent' = Spent /\ Exposed' = Exposed
      BY <2>1, <2>3, <3>1, MarkMoney
    <3>3. CASE st = "violation"
      <4>1. Blocked'
        BY <3>1, <3>3 DEF Blocked, TypeOK
      <4>2. Blocked' = TRUE
        BY <4>1 DEF Blocked
      <4> QED BY <3>2, <4>2 DEF Budget!Freeze
    <3>4. CASE st = "uncertain"
      <4>1. Blocked' <=> Blocked
        BY <2>1, <3>1, <3>4 DEF Blocked, TypeOK
      <4>2. Blocked' = Blocked
        BY <4>1 DEF Blocked
      <4> QED BY <3>2, <4>2 DEF Budget!vars
    <3> QED BY <2>3, <3>3, <3>4
  <2> QED BY <2>2, <2>3 DEF Outcome
<1>8. ASSUME NEW e \in EntryId, NEW a \in Audit, ReconcileUncertain(e, a) PROVE Budget!Resolve
  <2>1. e \in Unresolved /\ a.charged \in Amount /\ a.charged <= charged[e]
    BY <1>8 DEF Audit, ReconcileUncertain, ExactRow, Unresolved
  <2> QED BY <1>1, <1>8, <2>1, ResolveRefines DEF ReconcileUncertain
<1>9. ASSUME NEW e \in EntryId, NEW a \in Audit, ReconcileCountOnly(e, a) PROVE Budget!Resolve
  <2>1. e \in Unresolved /\ charged[e] \in Nat
    BY <1>9 DEF ReconcileCountOnly, ExactRow, Unresolved, TypeOK, Amount
  <2> QED BY <1>1, <1>3, <1>9, <2>1, ResolveRefines DEF ReconcileCountOnly
<1>10. ASSUME UNCHANGED <<status, charged>> PROVE UNCHANGED Budget!vars
  BY <1>10 DEF Budget!vars, Spent, Exposed, Settled, Unresolved, Blocked
<1>11. ASSUME NEW p \in Holder, NEW x \in LedgerEntry, GuardHeld(p, x) PROVE UNCHANGED Budget!vars
  BY <1>10, <1>11 DEF GuardHeld, ledgerRows
<1>12. ASSUME NEW p \in Holder, GuardRelease(p) PROVE UNCHANGED Budget!vars
  BY <1>10, <1>12 DEF GuardRelease, ledgerRows
<1> QED BY <1>4, <1>5, <1>6, <1>7, <1>8, <1>9, <1>11, <1>12 DEF Next, Budget!Next

(* A budget step keeps spend plus exposure under the ceiling.               *)
LEMMA CeilingStep ==
  ASSUME TypeOK, LocalInv, ExposureWithinCeiling, TypeOK', LocalInv', [Budget!Next]_(Budget!vars)
  PROVE  ExposureWithinCeiling'
<1>1. Spent \in Nat /\ Exposed \in Nat /\ Spent + Exposed <= Ceiling /\ Ceiling \in Nat
  BY MoneyParts, LedgerAssumption DEF Amount, LocalInv, ExposureWithinCeiling
<1>2. (TypeOK /\ AbsentChargesNothing => Charged = Spent + Exposed)'
  BY MoneyParts, PTL
<1>3. Charged' = Spent' + Exposed'
  BY <1>2 DEF LocalInv
<1>4. Spent' + Exposed' <= Ceiling
  <2>1. CASE Budget!Admit
    <3>1. PICK n \in 0..(Ceiling - (Spent + Exposed)) : Exposed' = Exposed + n
      BY <2>1 DEF Budget!Admit
    <3>2. Spent' = Spent
      BY <2>1 DEF Budget!Admit
    <3> QED BY <1>1, <3>1, <3>2
  <2>2. CASE Budget!Resolve
    <3>1. PICK n \in 0..Exposed : \E m \in 0..n : Exposed' = Exposed - n /\ Spent' = Spent + m
      BY <2>2 DEF Budget!Resolve
    <3>2. PICK m \in 0..n : Exposed' = Exposed - n /\ Spent' = Spent + m
      BY <3>1
    <3> QED BY <1>1, <3>2
  <2>3. CASE Budget!Freeze \/ UNCHANGED Budget!vars
    <3>1. Spent' = Spent /\ Exposed' = Exposed
      BY <2>3 DEF Budget!Freeze, Budget!vars
    <3> QED BY <1>1, <3>1
  <2> QED BY <2>1, <2>2, <2>3 DEF Budget!Next
<1> QED BY <1>3, <1>4 DEF ExposureWithinCeiling

-----------------------------------------------------------------------------
(* The initial ledger is empty.                                             *)
LEMMA InvInit == Init => LedgerInv /\ Budget!Init
<1> SUFFICES ASSUME Init PROVE LedgerInv /\ Budget!Init
  OBVIOUS
<1>1. TypeOK
  BY TypeInit
<1>2. LocalInv
  BY DEF Init, LocalInv, AbsentChargesNothing, UnresolvedFullyExposed, Unresolved, AuditsAgree,
         GuardedStaysHeld
<1>3. \A e \in EntryId : charged[e] = 0
  BY DEF Init
<1>4. Spent = 0 /\ Exposed = 0 /\ Charged = 0
  BY <1>3, TotalZero DEF Spent, Exposed, Charged, Settled, Unresolved
<1>5. Blocked = FALSE
  BY DEF Init, Blocked
<1>6. ExposureWithinCeiling
  BY <1>4, LedgerAssumption DEF ExposureWithinCeiling, Amount
<1> QED BY <1>1, <1>2, <1>4, <1>5, <1>6 DEF LedgerInv, LocalInv, Budget!Init

LEMMA InvStep == LedgerInv /\ [Next]_vars => LedgerInv' /\ [Budget!Next]_(Budget!vars)
<1> SUFFICES ASSUME LedgerInv, [Next]_vars PROVE LedgerInv' /\ [Budget!Next]_(Budget!vars)
  OBVIOUS
<1>1. TypeOK'
  BY TypeStep DEF LedgerInv
<1>2. CASE Next
  <2>1. TypeOK /\ LocalInv /\ ExposureWithinCeiling
    BY DEF LedgerInv, LocalInv
  <2>2. LocalInv'
    BY <1>2, <2>1, LocalStep
  <2>3. [Budget!Next]_(Budget!vars)
    BY <1>1, <1>2, <2>1, BudgetStep
  <2>4. ExposureWithinCeiling'
    BY <1>1, <2>1, <2>2, <2>3, CeilingStep
  <2> QED BY <1>1, <2>2, <2>3, <2>4 DEF LedgerInv, LocalInv
<1>3. CASE UNCHANGED vars
  <2>1. LedgerInv'
    BY <1>3 DEF vars, LedgerInv, TypeOK, AbsentChargesNothing, UnresolvedFullyExposed, Unresolved,
                AuditsAgree, GuardedStaysHeld, ExposureWithinCeiling, Charged
  <2>2. UNCHANGED Budget!vars
    BY <1>3 DEF vars, Budget!vars, Spent, Exposed, Settled, Unresolved, Blocked
  <2> QED BY <2>1, <2>2
<1> QED BY <1>2, <1>3

(* The inductive invariant.                                                 *)
THEOREM LedgerInvariant == Spec => []LedgerInv
<1> QED BY InvInit, InvStep, PTL DEF Spec

(* The ceiling is never exceeded, whatever batches, transfers, settlements  *)
(* and reconciliations interleave, and no call frees the exposure of an     *)
(* entry it does not finally settle.                                        *)
THEOREM ExposureHolds == Spec => []ExposureSound
<1>1. LedgerInv => ExposureSound
  BY DEF LedgerInv, ExposureSound
<1> QED BY <1>1, LedgerInvariant, PTL

(* The audit tables and the entries never disagree.                         *)
THEOREM AuditsConsistent == Spec => []AuditsAgree
<1>1. LedgerInv => AuditsAgree
  BY DEF LedgerInv
<1> QED BY <1>1, LedgerInvariant, PTL

(* A guarded reservation stays held until its guard is released.            *)
THEOREM GuardsHold == Spec => []GuardedStaysHeld
<1>1. LedgerInv => GuardedStaysHeld
  BY DEF LedgerInv
<1> QED BY <1>1, LedgerInvariant, PTL

(* The detailed ledger implements the abstract budget.                      *)
THEOREM LedgerImplementsBudget == Spec => ImplementsBudget
<1>1. Init => Budget!Init
  BY InvInit
<1>2. LedgerInv /\ [Next]_vars => [Budget!Next]_(Budget!vars)
  BY InvStep
<1> QED BY <1>1, <1>2, LedgerInvariant, PTL DEF Spec, ImplementsBudget, Budget!Spec

-----------------------------------------------------------------------------
(* Identities and settled charges are final.                                *)
LEMMA MonotoneStep ==
  ASSUME LedgerInv, Next
  PROVE  EntryMonotone
<1> USE DEF LedgerInv, EntryMonotone
<1>1. ASSUME NEW batch \in Batches, NEW limit, ReserveMany(batch, limit) PROVE EntryMonotone
  <2>1. \A e \in Inserted(batch) : status[e] = "absent"
    BY <1>1 DEF ReserveMany, Admissible, Fresh, AdmissionLimits, Inserted
  <2> QED BY <1>1, <2>1 DEF ReserveMany, TypeOK
<1>2. ASSUME NEW x \in LedgerEntry, NEW y \in LedgerEntry, TransferHeld(x, y) PROVE EntryMonotone
  BY <1>2 DEF TransferHeld, ExactRow, LedgerEntry, TypeOK
<1>3. ASSUME NEW x \in LedgerEntry, RetireUnused(x) PROVE EntryMonotone
  BY <1>3 DEF RetireUnused, SetOutcome, ExactRow, LedgerEntry, TypeOK
<1>4. ASSUME NEW e \in EntryId, NEW h, NEW st \in Outcome, NEW c, Settle(e, h, st, c)
      PROVE  EntryMonotone
  BY <1>4 DEF Settle, SetOutcome, Outcome, TypeOK
<1>5. ASSUME NEW e \in EntryId, NEW a, ReconcileUncertain(e, a) PROVE EntryMonotone
  BY <1>5 DEF ReconcileUncertain, SetOutcome, ExactRow, TypeOK
<1>6. ASSUME NEW e \in EntryId, NEW a, ReconcileCountOnly(e, a) PROVE EntryMonotone
  BY <1>6 DEF ReconcileCountOnly, SetOutcome, ExactRow, TypeOK
<1>7. ASSUME UNCHANGED ledgerRows PROVE EntryMonotone
  BY <1>7 DEF ledgerRows
<1>8. ASSUME NEW p \in Holder, NEW x \in LedgerEntry, GuardHeld(p, x) PROVE EntryMonotone
  BY <1>7, <1>8 DEF GuardHeld
<1>9. ASSUME NEW p \in Holder, GuardRelease(p) PROVE EntryMonotone
  BY <1>7, <1>9 DEF GuardRelease
<1> QED BY <1>1, <1>2, <1>3, <1>4, <1>5, <1>6, <1>8, <1>9 DEF Next

(* An entry is admitted once, keeps its identity, and its final charge is   *)
(* never refunded or raised.                                                *)
THEOREM IrrevocableEntries == Spec => EntriesIrrevocable
<1>1. LedgerInv /\ [Next]_vars => [EntryMonotone]_vars
  BY MonotoneStep
<1> QED BY <1>1, LedgerInvariant, PTL DEF Spec, EntriesIrrevocable

(* While a violation blocks the ledger no id gets a row ...                 *)
LEMMA BlockedRows ==
  ASSUME LedgerInv, Next, Blocked, NEW e \in EntryId, status[e] = "absent"
  PROVE  status'[e] = "absent"
<1> USE DEF LedgerInv
<1>1. ASSUME NEW batch \in Batches, NEW limit, ReserveMany(batch, limit) PROVE FALSE
  BY <1>1 DEF ReserveMany, Admissible, AdmissionLimits
<1>2. ASSUME NEW x \in LedgerEntry, NEW y \in LedgerEntry, TransferHeld(x, y) PROVE FALSE
  BY <1>2 DEF TransferHeld
<1>3. ASSUME NEW x \in LedgerEntry, RetireUnused(x) PROVE status'[e] = "absent"
  BY <1>3 DEF RetireUnused, SetOutcome, ExactRow, LedgerEntry, TypeOK
<1>4. ASSUME NEW f \in EntryId, NEW h, NEW st \in Outcome, NEW c, Settle(f, h, st, c)
      PROVE  status'[e] = "absent"
  BY <1>4 DEF Settle, SetOutcome, TypeOK
<1>5. ASSUME NEW f \in EntryId, NEW a, ReconcileUncertain(f, a) PROVE status'[e] = "absent"
  BY <1>5 DEF ReconcileUncertain, SetOutcome, ExactRow, TypeOK
<1>6. ASSUME NEW f \in EntryId, NEW a, ReconcileCountOnly(f, a) PROVE status'[e] = "absent"
  BY <1>6 DEF ReconcileCountOnly, SetOutcome, ExactRow, TypeOK
<1>7. ASSUME NEW p \in Holder, NEW x \in LedgerEntry, GuardHeld(p, x) PROVE status'[e] = "absent"
  BY <1>7 DEF GuardHeld, ledgerRows
<1>8. ASSUME NEW p \in Holder, GuardRelease(p) PROVE status'[e] = "absent"
  BY <1>8 DEF GuardRelease, ledgerRows
<1> QED BY <1>1, <1>2, <1>3, <1>4, <1>5, <1>6, <1>7, <1>8 DEF Next

(* ... and the budget's steps that a frozen scope can take charge no more.  *)
LEMMA BlockedMoney ==
  ASSUME LedgerInv, LedgerInv', [Budget!Next]_(Budget!vars), Blocked
  PROVE  Charged' <= Charged
<1>1. Charged = Spent + Exposed /\ Spent \in Nat /\ Exposed \in Nat
  BY MoneyParts DEF LedgerInv
<1>2. (TypeOK /\ AbsentChargesNothing => Charged = Spent + Exposed)'
  BY MoneyParts, PTL
<1>3. Charged' = Spent' + Exposed'
  BY <1>2 DEF LedgerInv
<1>4. Spent' + Exposed' <= Spent + Exposed
  <2>1. CASE Budget!Admit
    BY <2>1 DEF Budget!Admit
  <2>2. CASE Budget!Resolve
    <3>1. PICK n \in 0..Exposed : \E m \in 0..n : Exposed' = Exposed - n /\ Spent' = Spent + m
      BY <2>2 DEF Budget!Resolve
    <3>2. PICK m \in 0..n : Exposed' = Exposed - n /\ Spent' = Spent + m
      BY <3>1
    <3> QED BY <1>1, <3>1, <3>2
  <2>3. CASE Budget!Freeze \/ UNCHANGED Budget!vars
    <3>1. Spent' = Spent /\ Exposed' = Exposed
      BY <2>3 DEF Budget!Freeze, Budget!vars
    <3> QED BY <1>1, <3>1
  <2> QED BY <2>1, <2>2, <2>3 DEF Budget!Next
<1> QED BY <1>1, <1>3, <1>4

(* A violation stops admission at once for every run on the ledger, and     *)
(* exposure can only shrink until it is resolved.                           *)
THEOREM BlockAdmitsNothing == Spec => BlockedAdmitsNothing
<1> DEFINE Stopped == Blocked => /\ Charged' <= Charged
                                 /\ \A e \in EntryId : status[e] = "absent" => status'[e] = "absent"
<1>1. LedgerInv /\ [Next]_vars => [Stopped]_vars
  <2> SUFFICES ASSUME LedgerInv, Next, Blocked
               PROVE  /\ Charged' <= Charged
                      /\ \A e \in EntryId : status[e] = "absent" => status'[e] = "absent"
    OBVIOUS
  <2>1. LedgerInv' /\ [Budget!Next]_(Budget!vars)
    BY InvStep
  <2> QED BY <2>1, BlockedMoney, BlockedRows
<1> QED BY <1>1, LedgerInvariant, PTL DEF Spec, BlockedAdmitsNothing
-----------------------------------------------------------------------------
(* The ledger's transactions, run statement by statement by any number of   *)
(* processes that may be killed anywhere, are the atomic actions of         *)
(* SpendLedger.  One writer runs at a time, so the rows it compared and the *)
(* keys it found free are as it found them when its commit installs them.   *)

OneWriter == \A p, q \in Holder : stage[p] # "idle" /\ stage[q] # "idle" => p = q

Executing(p) == stage[p] \in {"writing", "pending"}

(* Where a process is in its transaction.                                   *)
Progress == \A p \in Holder :
  /\ stage[p] # "idle" => call[p] \in Calls
  /\ stage[p] \in {"idle", "begun"} => done[p] = 0
  /\ Executing(p) => done[p] \in 0..Len(Script(call[p]))
  /\ stage[p] = "pending" => done[p] = Len(Script(call[p]))

(* The inserts executed so far have free and distinct keys.                 *)
KeysFree == \A p \in Holder : Executing(p) =>
  \A i \in 1..done[p] : Script(call[p])[i].kind = "insert" =>
     /\ status[Script(call[p])[i].id] = "absent"
     /\ \A j \in 1..(i - 1) : Script(call[p])[j].id # Script(call[p])[i].id

(* The transactions' own part of the invariant, and the whole of it.        *)
TxLocal == TxTypeOK /\ OneWriter /\ Progress /\ ChecksStayTrue /\ KeysFree

TxInv == LedgerInv /\ TxLocal

-----------------------------------------------------------------------------
(* What the validation before the transaction leaves possible.              *)
LEMMA CallCases ==
  ASSUME NEW c \in Calls
  PROVE  \/ \E batch \in Batches, limit \in 1..Cardinality(EntryId) \cup {NoLimit} :
              c = ReserveCall(batch, limit)
         \/ \E x, y \in LedgerEntry : x.id # y.id /\ x.amount = y.amount /\ c = TransferCall(x, y)
         \/ \E x \in LedgerEntry : c = RetireCall(x)
         \/ \E e \in EntryId, h \in Digest, st \in Outcome, a \in Amount :
              c = SettlementCall(e, h, st, a)
         \/ \E e \in EntryId, a \in Audit :
              a.previous > 0 /\ a.charged <= a.previous /\ c = ReleaseCall(e, a)
         \/ \E e \in EntryId, a \in Audit :
              a.previous > 0 /\ a.charged = 0 /\ c = ForgiveCall(e, a)
<1>1. c \in CallSet
  BY CallAssumption
<1>2. CASE c \in {ReserveCall(batch, limit) :
                    batch \in Batches, limit \in 1..Cardinality(EntryId) \cup {NoLimit}}
  BY <1>2
<1>3. CASE c \in {TransferCall(z[1], z[2]) : z \in {z \in LedgerEntry \X LedgerEntry :
                                      z[1].id # z[2].id /\ z[1].amount = z[2].amount}}
  BY <1>3
<1>4. CASE c \in {RetireCall(x) : x \in LedgerEntry}
  BY <1>4
<1>5. CASE c \in {SettlementCall(e, h, st, a) : e \in EntryId, h \in Digest, st \in Outcome, a \in Amount}
  BY <1>5
<1>6. CASE c \in {ReleaseCall(e, a) : e \in EntryId,
                        a \in {a \in Audit : a.previous > 0 /\ a.charged <= a.previous}}
  BY <1>6
<1>7. CASE c \in {ForgiveCall(e, a) : e \in EntryId,
                        a \in {a \in Audit : a.previous > 0 /\ a.charged = 0}}
  BY <1>7
<1> QED BY <1>1, <1>2, <1>3, <1>4, <1>5, <1>6, <1>7 DEF CallSet

(* The checks and the statements of a call depend on the rows alone.        *)
LEMMA SameReads ==
  ASSUME NEW p, UNCHANGED <<ledgerRows, audits>>, call'[p] = call[p]
  PROVE  /\ (Accepts(call[p]))' <=> Accepts(call[p])
         /\ (Script(call[p]))' = Script(call[p])
<1>1. (Accepts(call[p]))' <=> Accepts(call[p])
  BY DEF ledgerRows, audits, Accepts, AdmissionLimits, Blocked, Unresolved, Charged, ExactRow
<1>2. (Script(call[p]))' = Script(call[p])
  OBVIOUS
<1> QED BY <1>1, <1>2

(* A commit that updates one row.                                           *)
LEMMA UpdateOne ==
  ASSUME TypeOK, NEW p, NEW e \in EntryId, NEW st, NEW c,
         RowsWritten(p) = {Update(e, st, c)}, InsertsWritten(p) = {}, Install(p)
  PROVE  SetOutcome(e, st, c)
<1>1. Row(p, e) = Update(e, st, c)
  BY DEF Row, Update
<1>2. {v.id : v \in RowsWritten(p)} = {e} /\ {v.id : v \in InsertsWritten(p)} = {}
  BY DEF Update
<1>3. /\ Update(e, st, c).status = st /\ Update(e, st, c).charged = c
  BY DEF Update
<1>4. /\ status' = [f \in EntryId |-> IF f \in {e} THEN Row(p, f).status ELSE status[f]]
      /\ hash' = [f \in EntryId |-> IF f \in {} THEN Row(p, f).hash ELSE hash[f]]
      /\ reserved' = [f \in EntryId |-> IF f \in {} THEN Row(p, f).reserved ELSE reserved[f]]
      /\ charged' = [f \in EntryId |-> IF f \in {e} THEN Row(p, f).charged ELSE charged[f]]
  BY <1>2 DEF Install
<1>5. status' = [status EXCEPT ![e] = st]
  BY <1>1, <1>3, <1>4 DEF TypeOK
<1>6. charged' = [charged EXCEPT ![e] = c]
  BY <1>1, <1>3, <1>4 DEF TypeOK
<1>7. hash' = hash /\ reserved' = reserved
  BY <1>4 DEF TypeOK
<1> QED BY <1>5, <1>6, <1>7 DEF SetOutcome

-----------------------------------------------------------------------------
(* What each method's commit does.                                          *)
LEMMA RetireCommits ==
  ASSUME TxInv, NEW p \in Holder, NEW x \in LedgerEntry, call[p] = RetireCall(x), CommitEnd(p)
  PROVE  RetireUnused(x)
<1> DEFINE u == Update(x.id, "settled", 0)
<1>1. Script(call[p]) = <<u>>
  BY DEF Script, RetireCall
<1>2. done[p] = 1
  BY <1>1 DEF CommitEnd, TxInv, TxLocal, TxTypeOK, Progress
<1>3. Written(p) = {u}
  BY <1>1, <1>2 DEF Written
<1>4. RowsWritten(p) = {u} /\ InsertsWritten(p) = {}
  BY <1>3 DEF RowsWritten, InsertsWritten, Update
<1>5. SetOutcome(x.id, "settled", 0)
  BY <1>4, UpdateOne DEF TxInv, TxLocal, TxTypeOK, LedgerInv, LedgerEntry, CommitEnd
<1>6. ExactRow(x, "held")
  <2>1. Accepts(call[p])
    BY DEF TxInv, TxLocal, TxTypeOK, ChecksStayTrue, CommitEnd
  <2>2. call[p].op = "retire" /\ call[p].source = x
    BY DEF RetireCall
  <2> QED BY <2>1, <2>2 DEF Accepts
<1>7. UNCHANGED <<reconciliations, countOnly, guard>>
  BY DEF CommitEnd, Install, RetireCall
<1> QED BY <1>5, <1>6, <1>7 DEF RetireUnused, CommitEnd

LEMMA SettleCommits ==
  ASSUME TxInv, NEW p \in Holder, CommitEnd(p), NEW e \in EntryId, NEW h \in Digest,
         NEW st \in Outcome, NEW c \in Amount, call[p] = SettlementCall(e, h, st, c)
  PROVE  Settle(e, h, st, c)
<1> DEFINE u == Update(e, st, c)
<1>1. Script(call[p]) = <<u>>
  BY DEF Script, SettlementCall
<1>2. done[p] = 1
  BY <1>1 DEF CommitEnd, TxInv, TxLocal, TxTypeOK, Progress
<1>3. Written(p) = {u}
  BY <1>1, <1>2 DEF Written
<1>4. RowsWritten(p) = {u} /\ InsertsWritten(p) = {}
  BY <1>3 DEF RowsWritten, InsertsWritten, Update
<1>5. SetOutcome(e, st, c)
  BY <1>4, UpdateOne DEF TxInv, TxLocal, TxTypeOK, LedgerInv, CommitEnd
<1>6. status[e] = "held" /\ hash[e] = h /\ c <= reserved[e] /\ (st # "settled" => c = reserved[e])
  <2>1. Accepts(call[p])
    BY DEF TxInv, TxLocal, TxTypeOK, ChecksStayTrue, CommitEnd
  <2>2. /\ call[p].op = "settle" /\ call[p].id = e /\ call[p].hash = h
        /\ call[p].status = st /\ call[p].charge = c
    BY DEF SettlementCall
  <2> QED BY <2>1, <2>2 DEF Accepts
<1>7. UNCHANGED <<reconciliations, countOnly, guard>>
  BY DEF CommitEnd, Install, SettlementCall
<1> QED BY <1>5, <1>6, <1>7 DEF Settle, CommitEnd

LEMMA ReleaseCommits ==
  ASSUME TxInv, NEW p \in Holder, CommitEnd(p), NEW e \in EntryId, NEW a \in Audit,
         a.previous > 0, a.charged <= a.previous, call[p] = ReleaseCall(e, a)
  PROVE  ReconcileUncertain(e, a)
<1> DEFINE u == Update(e, "settled", a.charged)
<1>1. Script(call[p]) = <<InsertAudit(e), u>>
  BY DEF Script, ReleaseCall
<1>2. done[p] = 2
  BY <1>1 DEF CommitEnd, TxInv, TxLocal, TxTypeOK, Progress
<1>3. Written(p) = {InsertAudit(e), u}
  BY <1>1, <1>2 DEF Written
<1>4. RowsWritten(p) = {u} /\ InsertsWritten(p) = {}
  BY <1>3 DEF RowsWritten, InsertsWritten, Update, InsertAudit
<1>5. SetOutcome(e, "settled", a.charged)
  BY <1>4, UpdateOne DEF TxInv, TxLocal, TxTypeOK, LedgerInv, CommitEnd
<1>6. /\ reconciliations[e] = NoAudit
      /\ ExactRow([id |-> e, hash |-> a.hash, amount |-> a.previous], "uncertain")
  BY DEF TxInv, TxLocal, TxTypeOK, ChecksStayTrue, CommitEnd, Accepts, ReleaseCall
<1>7. /\ reconciliations' = [reconciliations EXCEPT ![e] = a]
      /\ UNCHANGED <<countOnly, guard>>
  BY DEF CommitEnd, Install, ReleaseCall
<1> QED BY <1>5, <1>6, <1>7 DEF ReconcileUncertain, CommitEnd

LEMMA ForgiveCommits ==
  ASSUME TxInv, NEW p \in Holder, CommitEnd(p), NEW e \in EntryId, NEW a \in Audit,
         a.previous > 0, a.charged = 0, call[p] = ForgiveCall(e, a)
  PROVE  ReconcileCountOnly(e, a)
<1> DEFINE u == Update(e, "settled", 0)
<1>1. Script(call[p]) = <<InsertAudit(e), u>>
  BY DEF Script, ForgiveCall
<1>2. done[p] = 2
  BY <1>1 DEF CommitEnd, TxInv, TxLocal, TxTypeOK, Progress
<1>3. Written(p) = {InsertAudit(e), u}
  BY <1>1, <1>2 DEF Written
<1>4. RowsWritten(p) = {u} /\ InsertsWritten(p) = {}
  BY <1>3 DEF RowsWritten, InsertsWritten, Update, InsertAudit
<1>5. SetOutcome(e, "settled", 0)
  BY <1>4, UpdateOne DEF TxInv, TxLocal, TxTypeOK, LedgerInv, CommitEnd
<1>6. /\ countOnly[e] = NoAudit
      /\ ExactRow([id |-> e, hash |-> a.hash, amount |-> a.previous], "violation")
  BY DEF TxInv, TxLocal, TxTypeOK, ChecksStayTrue, CommitEnd, Accepts, ForgiveCall
<1>7. /\ countOnly' = [countOnly EXCEPT ![e] = a]
      /\ UNCHANGED <<reconciliations, guard>>
  BY DEF CommitEnd, Install, ForgiveCall
<1> QED BY <1>5, <1>6, <1>7 DEF ReconcileCountOnly, CommitEnd

LEMMA TransferCommits ==
  ASSUME TxInv, NEW p \in Holder, CommitEnd(p), NEW x \in LedgerEntry, NEW y \in LedgerEntry,
         x.id # y.id, x.amount = y.amount, call[p] = TransferCall(x, y)
  PROVE  TransferHeld(x, y)
<1> DEFINE i == Insert(y)
           u == Update(x.id, "settled", 0)
<1>1. Script(call[p]) = <<i, u>>
  BY DEF Script, TransferCall
<1>2. done[p] = 2
  BY <1>1 DEF CommitEnd, TxInv, TxLocal, TxTypeOK, Progress
<1>3. Written(p) = {i, u}
  BY <1>1, <1>2 DEF Written
<1>4. RowsWritten(p) = {i, u} /\ InsertsWritten(p) = {i}
  BY <1>3 DEF RowsWritten, InsertsWritten, Update, Insert
<1>5. i.id = y.id /\ u.id = x.id /\ x.id \in EntryId /\ y.id \in EntryId
  BY DEF Insert, Update, LedgerEntry
<1>6. Row(p, y.id) = i /\ Row(p, x.id) = u
  BY <1>4, <1>5 DEF Row
<1>7. ~Blocked /\ ExactRow(x, "held")
  <2>1. Accepts(call[p])
    BY DEF TxInv, TxLocal, TxTypeOK, ChecksStayTrue, CommitEnd
  <2>2. call[p].op = "transfer" /\ call[p].source = x
    BY DEF TransferCall
  <2> QED BY <2>1, <2>2 DEF Accepts
<1>8. status[y.id] = "absent"
  <2>1. Script(call[p])[1].kind = "insert" /\ Script(call[p])[1].id = y.id
    BY <1>1, <1>5 DEF Insert
  <2> QED BY <1>2, <2>1 DEF TxInv, TxLocal, TxTypeOK, KeysFree, Executing, CommitEnd
<1>9. {w.id : w \in RowsWritten(p)} = {x.id, y.id} /\ {w.id : w \in InsertsWritten(p)} = {y.id}
  BY <1>4, <1>5
<1>10. /\ status' = [f \in EntryId |-> IF f \in {x.id, y.id} THEN Row(p, f).status ELSE status[f]]
       /\ hash' = [f \in EntryId |-> IF f \in {y.id} THEN Row(p, f).hash ELSE hash[f]]
       /\ reserved' = [f \in EntryId |-> IF f \in {y.id} THEN Row(p, f).reserved ELSE reserved[f]]
       /\ charged' =
            [f \in EntryId |-> IF f \in {x.id, y.id} THEN Row(p, f).charged ELSE charged[f]]
  BY <1>9 DEF CommitEnd, Install
<1>11. /\ i.status = "held" /\ i.hash = y.hash /\ i.reserved = y.amount /\ i.charged = y.amount
       /\ u.status = "settled" /\ u.charged = 0
  BY DEF Insert, Update
<1>12. TypeOK
  BY DEF TxInv, TxLocal, TxTypeOK, LedgerInv
<1>13. status' = [status EXCEPT ![y.id] = "held", ![x.id] = "settled"]
  BY <1>5, <1>6, <1>10, <1>11, <1>12 DEF TypeOK
<1>14. hash' = [hash EXCEPT ![y.id] = y.hash]
  BY <1>5, <1>6, <1>10, <1>11, <1>12 DEF TypeOK
<1>15. reserved' = [reserved EXCEPT ![y.id] = y.amount]
  BY <1>5, <1>6, <1>10, <1>11, <1>12 DEF TypeOK
<1>16. charged' = [charged EXCEPT ![y.id] = y.amount, ![x.id] = 0]
  BY <1>5, <1>6, <1>10, <1>11, <1>12 DEF TypeOK
<1>17. UNCHANGED <<reconciliations, countOnly, guard>>
  BY DEF CommitEnd, Install, TransferCall
<1> QED BY <1>7, <1>8, <1>13, <1>14, <1>15, <1>16, <1>17 DEF TransferHeld, CommitEnd

LEMMA ReserveCommits ==
  ASSUME TxInv, NEW p \in Holder, CommitEnd(p), NEW batch \in Batches, NEW limit,
         call[p] = ReserveCall(batch, limit)
  PROVE  ReserveMany(batch, limit)
<1>1. PICK n \in 1..MaxBatch : batch \in [1..n -> LedgerEntry]
  BY DEF Batches
<1>2. n \in Nat /\ DOMAIN batch = 1..n
  BY <1>1, LedgerAssumption
<1>3. Script(call[p]) = [i \in 1..n |-> Insert(batch[i])]
  BY <1>2 DEF Script, ReserveCall
<1>4. done[p] = n
  <2>1. Len(Script(call[p])) = n
    BY <1>2, <1>3
  <2> QED BY <2>1 DEF CommitEnd, TxInv, TxLocal, TxTypeOK, Progress
<1>5. /\ Written(p) = {Insert(batch[i]) : i \in 1..n}
      /\ RowsWritten(p) = Written(p) /\ InsertsWritten(p) = Written(p)
  <2>1. Written(p) = {Insert(batch[i]) : i \in 1..n}
    BY <1>3, <1>4 DEF Written
  <2> QED BY <2>1 DEF RowsWritten, InsertsWritten, Insert
<1>6. \A i \in 1..n : Insert(batch[i]).kind = "insert" /\ Insert(batch[i]).id = batch[i].id
  BY DEF Insert
<1>7. /\ \A i \in 1..n : status[batch[i].id] = "absent"
      /\ \A i \in 1..n : \A j \in 1..(i - 1) : batch[j].id # batch[i].id
  <2>1. \A i \in 1..n : Script(call[p])[i] = Insert(batch[i])
    BY <1>3
  <2>2. \A i \in 1..n : Script(call[p])[i].kind = "insert" =>
          /\ status[Script(call[p])[i].id] = "absent"
          /\ \A j \in 1..(i - 1) : Script(call[p])[j].id # Script(call[p])[i].id
    BY <1>4 DEF TxInv, TxLocal, TxTypeOK, KeysFree, Executing, CommitEnd
  <2>3. \A i \in 1..n : \A j \in 1..(i - 1) : j \in 1..n
    BY <1>2
  <2> QED BY <1>6, <2>1, <2>2, <2>3
<1>8. \A i, j \in 1..n : batch[i].id = batch[j].id => i = j
  <2> SUFFICES ASSUME NEW i \in 1..n, NEW j \in 1..n, batch[i].id = batch[j].id, i # j PROVE FALSE
    OBVIOUS
  <2>1. i \in 1..(j - 1) \/ j \in 1..(i - 1)
    BY <1>2
  <2> QED BY <1>7, <2>1
<1>9. Fresh(batch)
  BY <1>2, <1>7, <1>8 DEF Fresh
<1>10. AdmissionLimits(batch, limit)
  <2>1. Accepts(call[p])
    BY DEF TxInv, TxLocal, TxTypeOK, ChecksStayTrue, CommitEnd
  <2>2. call[p].op = "reserve" /\ call[p].batch = batch /\ call[p].limit = limit
    BY DEF ReserveCall
  <2> QED BY <2>1, <2>2 DEF Accepts
<1>11. /\ {w.id : w \in RowsWritten(p)} = Inserted(batch)
       /\ {w.id : w \in InsertsWritten(p)} = Inserted(batch)
  BY <1>2, <1>5, <1>6 DEF Inserted
<1>12. ASSUME NEW e \in Inserted(batch)
       PROVE  /\ Row(p, e).status = "held" /\ Row(p, e).hash = EntryOf(batch, e).hash
              /\ Row(p, e).reserved = EntryOf(batch, e).amount
              /\ Row(p, e).charged = EntryOf(batch, e).amount
  <2>1. PICK i \in 1..n : batch[i].id = e
    BY <1>2 DEF Inserted
  <2>2. EntryOf(batch, e) = batch[i]
    BY <1>2, <1>8, <2>1 DEF EntryOf
  <2>3. \A w \in RowsWritten(p) : w.id = e => w = Insert(batch[i])
    BY <1>5, <1>6, <1>8, <2>1
  <2>4. Insert(batch[i]) \in RowsWritten(p) /\ Insert(batch[i]).id = e
    BY <1>5, <1>6, <2>1
  <2>5. Row(p, e) = Insert(batch[i])
    BY <2>3, <2>4 DEF Row
  <2> QED BY <2>2, <2>5 DEF Insert
<1>13. /\ status' =
            [f \in EntryId |-> IF f \in Inserted(batch) THEN Row(p, f).status ELSE status[f]]
       /\ hash' = [f \in EntryId |-> IF f \in Inserted(batch) THEN Row(p, f).hash ELSE hash[f]]
       /\ reserved' =
            [f \in EntryId |-> IF f \in Inserted(batch) THEN Row(p, f).reserved ELSE reserved[f]]
       /\ charged' =
            [f \in EntryId |-> IF f \in Inserted(batch) THEN Row(p, f).charged ELSE charged[f]]
  BY <1>11 DEF CommitEnd, Install
<1>14. UNCHANGED <<reconciliations, countOnly, guard>>
  BY DEF CommitEnd, Install, ReserveCall
<1> QED BY <1>9, <1>10, <1>12, <1>13, <1>14 DEF ReserveMany, Admissible, CommitEnd

-----------------------------------------------------------------------------
(* Every step of the transactions is a step of the ledger or leaves it      *)
(* alone.                                                                   *)
LEMMA CommitSimulates ==
  ASSUME TxInv, NEW p \in Holder, CommitEnd(p)
  PROVE  Next
<1>1. call[p] \in Calls
  BY DEF CommitEnd, TxInv, TxLocal, TxTypeOK, Progress
<1>2. ASSUME NEW batch \in Batches, NEW limit \in 1..Cardinality(EntryId) \cup {NoLimit},
             call[p] = ReserveCall(batch, limit)
      PROVE  Next
  BY <1>2, ReserveCommits DEF Next
<1>3. ASSUME NEW x \in LedgerEntry, NEW y \in LedgerEntry, x.id # y.id, x.amount = y.amount,
             call[p] = TransferCall(x, y)
      PROVE  Next
  BY <1>3, TransferCommits DEF Next
<1>4. ASSUME NEW x \in LedgerEntry, call[p] = RetireCall(x) PROVE Next
  BY <1>4, RetireCommits DEF Next
<1>5. ASSUME NEW e \in EntryId, NEW h \in Digest, NEW st \in Outcome, NEW c \in Amount,
             call[p] = SettlementCall(e, h, st, c)
      PROVE  Next
  BY <1>5, SettleCommits DEF Next
<1>6. ASSUME NEW e \in EntryId, NEW a \in Audit, a.previous > 0, a.charged <= a.previous,
             call[p] = ReleaseCall(e, a)
      PROVE  Next
  BY <1>6, ReleaseCommits DEF Next
<1>7. ASSUME NEW e \in EntryId, NEW a \in Audit, a.previous > 0, a.charged = 0,
             call[p] = ForgiveCall(e, a)
      PROVE  Next
  BY <1>7, ForgiveCommits DEF Next
<1> QED BY <1>1, <1>2, <1>3, <1>4, <1>5, <1>6, <1>7, CallCases

LEMMA CrashSimulates ==
  ASSUME TxInv, NEW p \in Holder, TxCrash(p)
  PROVE  [Next]_vars
<1>1. CASE guard[p] = NoEntry
  <2>1. guard' = guard
    BY <1>1 DEF TxCrash, TxInv, TxLocal, TxTypeOK, LedgerInv, TypeOK
  <2> QED BY <2>1 DEF TxCrash, vars, ledgerRows, audits
<1>2. CASE guard[p] # NoEntry
  <2>1. GuardRelease(p)
    BY <1>2 DEF TxCrash, GuardRelease
  <2> QED BY <2>1 DEF Next
<1> QED BY <1>1, <1>2

LEMMA TxSimulates ==
  ASSUME TxInv, [TxNext]_allTxVars
  PROVE  [Next]_vars
<1>1. ASSUME NEW p \in Holder, CommitEnd(p) PROVE Next
  BY <1>1, CommitSimulates
<1>2. ASSUME NEW p \in Holder, TxCrash(p) PROVE [Next]_vars
  BY <1>2, CrashSimulates
<1>3. ASSUME NEW p \in Holder, NEW x \in LedgerEntry, Guard(p, x) PROVE Next
  BY <1>3 DEF Guard, Next
<1>4. ASSUME NEW p \in Holder, Unguard(p) PROVE Next
  BY <1>4 DEF Unguard, Next
<1>5. ASSUME NEW p \in Holder,
             (\E c \in Calls : TxBegin(p, c)) \/ Check(p) \/ Exec(p) \/ CommitStart(p)
               \/ BusyTimeout(p)
      PROVE  UNCHANGED vars
  BY <1>5 DEF TxBegin, Check, Exec, CommitStart, BusyTimeout, Rollback
<1>6. CASE UNCHANGED allTxVars
  BY <1>6 DEF allTxVars
<1> QED BY <1>1, <1>2, <1>3, <1>4, <1>5, <1>6 DEF TxNext

-----------------------------------------------------------------------------
LEMMA TxBeginKeeps ==
  ASSUME TxInv, NEW p \in Holder, NEW c \in Calls, TxBegin(p, c)
  PROVE  TxLocal'
<1> USE DEF TxInv, TxLocal, TxTypeOK, TxBegin
<1>1. \A q \in Holder : stage'[q] = IF q = p THEN "begun" ELSE "idle"
  OBVIOUS
<1>2. OneWriter' /\ ChecksStayTrue' /\ KeysFree'
  BY <1>1 DEF OneWriter, ChecksStayTrue, KeysFree, Executing
<1>3. Progress'
  BY <1>1 DEF Progress, Executing
<1> QED BY <1>2, <1>3

(* A process that leaves its transaction; the others have none.             *)
LEMMA LeaveKeeps ==
  ASSUME TxInv, NEW p \in Holder, stage[p] # "idle", Finish(p)
  PROVE  TxLocal'
<1> USE DEF TxInv, TxLocal, TxTypeOK, Finish
<1>1. \A q \in Holder : stage'[q] = "idle"
  BY DEF OneWriter
<1>2. \A q \in Holder : done'[q] = 0
  BY DEF OneWriter, Progress
<1>3. OneWriter' /\ ChecksStayTrue' /\ KeysFree'
  BY <1>1 DEF OneWriter, ChecksStayTrue, KeysFree, Executing
<1>4. Progress'
  BY <1>1, <1>2 DEF Progress, Executing
<1> QED BY <1>3, <1>4

(* A step that touches neither the rows nor any transaction.                *)
LEMMA StillKeeps ==
  ASSUME TxInv, UNCHANGED <<ledgerRows, audits, txVars>>
  PROVE  TxLocal'
<1> USE DEF TxInv, TxLocal, TxTypeOK, txVars
<1>1. ASSUME NEW q \in Holder PROVE (Accepts(call[q]))' <=> Accepts(call[q])
  BY SameReads
<1>2. ChecksStayTrue'
  BY <1>1 DEF ChecksStayTrue
<1>3. OneWriter' /\ Progress'
  BY DEF OneWriter, Progress, Executing
<1>4. KeysFree'
  BY DEF KeysFree, Executing, ledgerRows
<1> QED BY <1>2, <1>3, <1>4

LEMMA LenScript ==
  ASSUME NEW c \in Calls
  PROVE  Len(Script(c)) \in Nat
<1>1. ASSUME NEW batch \in Batches, NEW limit, c = ReserveCall(batch, limit)
      PROVE  Len(Script(c)) \in Nat
  <2>1. PICK n \in 1..MaxBatch : batch \in [1..n -> LedgerEntry]
    BY DEF Batches
  <2>2. n \in Nat /\ DOMAIN batch = 1..n
    BY <2>1, LedgerAssumption
  <2>3. Script(c) = [i \in 1..n |-> Insert(batch[i])]
    BY <1>1, <2>2 DEF Script, ReserveCall
  <2> QED BY <2>2, <2>3
<1>2. ASSUME NEW x, NEW y, c = TransferCall(x, y) PROVE Len(Script(c)) = 2
  BY <1>2 DEF Script, TransferCall
<1>3. ASSUME NEW x, c = RetireCall(x) PROVE Len(Script(c)) = 1
  BY <1>3 DEF Script, RetireCall
<1>4. ASSUME NEW e, NEW h, NEW st, NEW a, c = SettlementCall(e, h, st, a) PROVE Len(Script(c)) = 1
  BY <1>4 DEF Script, SettlementCall
<1>5. ASSUME NEW e, NEW a, c = ReleaseCall(e, a) PROVE Len(Script(c)) = 2
  BY <1>5 DEF Script, ReleaseCall
<1>6. ASSUME NEW e, NEW a, c = ForgiveCall(e, a) PROVE Len(Script(c)) = 2
  BY <1>6 DEF Script, ForgiveCall
<1> QED BY <1>1, <1>2, <1>3, <1>4, <1>5, <1>6, CallCases

(* A killed process leaves; the others, which may be writing, go on.        *)
LEMMA TxCrashKeeps ==
  ASSUME TxInv, NEW p \in Holder, TxCrash(p)
  PROVE  TxLocal'
<1> USE DEF TxInv, TxLocal, TxTypeOK, TxCrash
<1>1. stage'[p] = "idle" /\ done'[p] = 0
  OBVIOUS
<1>2. \A q \in Holder \ {p} : stage'[q] = stage[q] /\ call'[q] = call[q] /\ done'[q] = done[q]
  OBVIOUS
<1>3. ASSUME NEW q \in Holder \ {p} PROVE (Accepts(call[q]))' <=> Accepts(call[q])
  BY <1>2, SameReads
<1>4. ChecksStayTrue'
  BY <1>1, <1>2, <1>3 DEF ChecksStayTrue
<1>5. OneWriter'
  BY <1>1, <1>2 DEF OneWriter
<1>6. Progress'
  BY <1>1, <1>2 DEF Progress, Executing
<1>7. KeysFree'
  BY <1>1, <1>2 DEF KeysFree, Executing, ledgerRows
<1> QED BY <1>4, <1>5, <1>6, <1>7

(* A process that goes on in its transaction.                               *)
LEMMA AdvanceKeeps ==
  ASSUME TxInv, NEW p \in Holder, NEW st \in {"writing", "pending"}, NEW n \in Nat,
         stage[p] # "idle", Accepts(call[p]),
         n <= Len(Script(call[p])), st = "pending" => n = Len(Script(call[p])),
         \A i \in 1..n : Script(call[p])[i].kind = "insert" =>
           /\ status[Script(call[p])[i].id] = "absent"
           /\ \A j \in 1..(i - 1) : Script(call[p])[j].id # Script(call[p])[i].id,
         stage' = [stage EXCEPT ![p] = st], done' = [done EXCEPT ![p] = n], UNCHANGED <<vars, call>>
  PROVE  TxLocal'
<1> USE DEF TxInv, TxLocal, TxTypeOK
<1>1. stage'[p] = st /\ done'[p] = n /\ call'[p] = call[p] /\ UNCHANGED <<ledgerRows, audits>>
  BY DEF vars, ledgerRows, audits
<1>2. \A q \in Holder \ {p} : stage'[q] = "idle" /\ done'[q] = 0
  BY DEF OneWriter, Progress
<1>3. (Accepts(call[p]))' <=> Accepts(call[p])
  BY <1>1, SameReads
<1>4. ChecksStayTrue'
  BY <1>1, <1>2, <1>3 DEF ChecksStayTrue
<1>5. OneWriter'
  BY <1>2 DEF OneWriter
<1>6. Progress'
  BY <1>1, <1>2 DEF Progress, Executing
<1>7. KeysFree'
  BY <1>1, <1>2 DEF KeysFree, Executing, ledgerRows
<1>8. /\ stage' \in [Holder -> {"idle", "begun", "writing", "pending"}]
      /\ call' \in [Holder -> Calls \cup {NoCall}] /\ done' \in [Holder -> Nat]
  OBVIOUS
<1> QED BY <1>4, <1>5, <1>6, <1>7, <1>8

LEMMA CheckKeeps ==
  ASSUME TxInv, NEW p \in Holder, Check(p)
  PROVE  TxLocal'
<1>1. CASE Rollback(p)
  <2>1. Finish(p) /\ stage[p] # "idle"
    BY <1>1 DEF Rollback, Finish, Check
  <2> QED BY <2>1, LeaveKeeps
<1>2. CASE ~Rollback(p)
  <2>1. /\ stage[p] = "begun" /\ Accepts(call[p]) /\ stage' = [stage EXCEPT ![p] = "writing"]
        /\ UNCHANGED <<vars, call, done>>
    BY <1>2 DEF Check
  <2>2. done[p] = 0 /\ done \in [Holder -> Nat]
    BY <2>1 DEF TxInv, TxLocal, TxTypeOK, Progress
  <2>3. done' = [done EXCEPT ![p] = 0] /\ 0 \in Nat
    BY <2>1, <2>2
  <2>4. 0 <= Len(Script(call[p]))
    BY <2>1, LenScript DEF TxInv, TxLocal, TxTypeOK, Progress
  <2>5. \A i \in 1..0 : Script(call[p])[i].kind = "insert" =>
          /\ status[Script(call[p])[i].id] = "absent"
          /\ \A j \in 1..(i - 1) : Script(call[p])[j].id # Script(call[p])[i].id
    OBVIOUS
  <2>6. stage[p] # "idle"
    BY <2>1
  <2> QED BY <2>1, <2>3, <2>4, <2>5, <2>6, AdvanceKeeps
<1> QED BY <1>1, <1>2

LEMMA ExecKeeps ==
  ASSUME TxInv, NEW p \in Holder, Exec(p)
  PROVE  TxLocal'
<1> DEFINE script == Script(call[p])
           n == done[p] + 1
<1>1. stage[p] = "writing" /\ done[p] < Len(script)
  BY DEF Exec
<1>2. CASE Rollback(p)
  <2>1. Finish(p) /\ stage[p] # "idle"
    BY <1>1, <1>2 DEF Rollback, Finish
  <2> QED BY <2>1, LeaveKeeps
<1>3. CASE ~Rollback(p)
  <2>1. KeyFree(p, script[n]) /\ done' = [done EXCEPT ![p] = n] /\ UNCHANGED <<vars, stage, call>>
    BY <1>3 DEF Exec
  <2>2. /\ stage \in [Holder -> {"idle", "begun", "writing", "pending"}]
        /\ done[p] \in Nat /\ Accepts(call[p])
    BY <1>1 DEF TxInv, TxLocal, TxTypeOK, ChecksStayTrue
  <2>3. stage' = [stage EXCEPT ![p] = "writing"] /\ n \in Nat
    BY <1>1, <2>1, <2>2
  <2>4. n <= Len(script)
    BY <1>1, <2>2, LenScript DEF TxInv, TxLocal, TxTypeOK, Progress
  <2>5. ASSUME NEW i \in 1..n, script[i].kind = "insert"
        PROVE  status[script[i].id] = "absent" /\ \A j \in 1..(i - 1) : script[j].id # script[i].id
    <3>1. CASE i = n
      BY <2>1, <2>2, <2>5, <3>1 DEF KeyFree
    <3>2. CASE i \in 1..done[p]
      BY <1>1, <2>5, <3>2 DEF TxInv, TxLocal, TxTypeOK, KeysFree, Executing
    <3> QED BY <2>2, <3>1, <3>2
  <2>6. \A i \in 1..n : script[i].kind = "insert" =>
          status[script[i].id] = "absent" /\ \A j \in 1..(i - 1) : script[j].id # script[i].id
    BY <2>5
  <2> HIDE DEF n
  <2> QED BY <1>1, <2>1, <2>2, <2>3, <2>4, <2>6, AdvanceKeeps
<1> QED BY <1>2, <1>3

LEMMA StartKeeps ==
  ASSUME TxInv, NEW p \in Holder, CommitStart(p)
  PROVE  TxLocal'
<1>1. /\ stage[p] = "writing" /\ done[p] = Len(Script(call[p]))
      /\ stage' = [stage EXCEPT ![p] = "pending"] /\ UNCHANGED <<vars, call, done>>
  BY DEF CommitStart
<1>2. done[p] \in Nat /\ done' = [done EXCEPT ![p] = done[p]] /\ Accepts(call[p])
  BY <1>1 DEF TxInv, TxLocal, TxTypeOK, ChecksStayTrue
<1>3. \A i \in 1..done[p] : Script(call[p])[i].kind = "insert" =>
        /\ status[Script(call[p])[i].id] = "absent"
        /\ \A j \in 1..(i - 1) : Script(call[p])[j].id # Script(call[p])[i].id
  BY <1>1 DEF TxInv, TxLocal, TxTypeOK, KeysFree, Executing
<1>4. done[p] <= Len(Script(call[p]))
  BY <1>1, <1>2
<1> QED BY <1>1, <1>2, <1>3, <1>4, AdvanceKeeps

-----------------------------------------------------------------------------
LEMMA TxInvInit == TxInit => TxInv
<1> SUFFICES ASSUME TxInit PROVE TxInv
  OBVIOUS
<1>1. LedgerInv
  BY InvInit DEF TxInit
<1> QED BY <1>1 DEF TxInit, TxInv, TxLocal, TxTypeOK, OneWriter, Progress, Executing,
                    ChecksStayTrue, KeysFree

LEMMA TxInvStep == TxInv /\ [TxNext]_allTxVars => TxInv' /\ [Next]_vars
<1> SUFFICES ASSUME TxInv, [TxNext]_allTxVars PROVE TxInv' /\ [Next]_vars
  OBVIOUS
<1>1. [Next]_vars
  BY TxSimulates
<1>2. LedgerInv'
  BY <1>1, InvStep DEF TxInv, TxLocal, TxTypeOK
<1>3. TxLocal'
  <2>1. ASSUME NEW p \in Holder, NEW c \in Calls, TxBegin(p, c) PROVE TxLocal'
    BY <2>1, TxBeginKeeps
  <2>2. ASSUME NEW p \in Holder, Check(p) PROVE TxLocal'
    BY <2>2, CheckKeeps
  <2>3. ASSUME NEW p \in Holder, Exec(p) PROVE TxLocal'
    BY <2>3, ExecKeeps
  <2>4. ASSUME NEW p \in Holder, CommitStart(p) PROVE TxLocal'
    BY <2>4, StartKeeps
  <2>5. ASSUME NEW p \in Holder, CommitEnd(p) \/ BusyTimeout(p) PROVE TxLocal'
    <3>1. stage[p] # "idle" /\ Finish(p)
      BY <2>5 DEF CommitEnd, BusyTimeout, Rollback, Finish
    <3> QED BY <3>1, LeaveKeeps
  <2>6. ASSUME NEW p \in Holder, TxCrash(p) PROVE TxLocal'
    BY <2>6, TxCrashKeeps
  <2>7. ASSUME NEW p \in Holder, (\E x \in LedgerEntry : Guard(p, x)) \/ Unguard(p) PROVE TxLocal'
    <3>1. UNCHANGED <<ledgerRows, audits, txVars>>
      BY <2>7 DEF Guard, Unguard, GuardHeld, GuardRelease
    <3> QED BY <3>1, StillKeeps
  <2>8. CASE UNCHANGED allTxVars
    <3>1. UNCHANGED <<ledgerRows, audits, txVars>>
      BY <2>8 DEF allTxVars, vars, ledgerRows, audits
    <3> QED BY <3>1, StillKeeps
  <2> QED BY <2>1, <2>2, <2>3, <2>4, <2>5, <2>6, <2>7, <2>8 DEF TxNext
<1> QED BY <1>1, <1>2, <1>3 DEF TxInv, TxLocal, TxTypeOK

(* One writer at a time, its checks and its free keys lasting to its commit. *)
THEOREM TxInvariant == TxSpec => []TxInv
<1> QED BY TxInvInit, TxInvStep, PTL DEF TxSpec

(* What a transaction compared before its first write still holds when its  *)
(* commit installs its rows, whatever the others tried in between.          *)
THEOREM ChecksNeverStale == TxSpec => []ChecksStayTrue
<1>1. TxInv => ChecksStayTrue
  BY DEF TxInv, TxLocal, TxTypeOK
<1> QED BY <1>1, TxInvariant, PTL

(* Transactions, kills and timeouts included, are the ledger's atomic calls: *)
(* no prefix of a batch and no half of a transfer is ever visible.          *)
THEOREM TransactionsAreAtomic == TxSpec => TxImplementsLedger
<1>1. TxInit => Init
  BY DEF TxInit
<1> QED BY <1>1, TxInvStep, TxInvariant, PTL DEF TxSpec, TxImplementsLedger
=============================================================================
