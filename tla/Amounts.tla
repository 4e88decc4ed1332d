------------------------------ MODULE Amounts ------------------------------
(***************************************************************************)
(* Money in micro-dollars.  Amount is the validated integer type of the     *)
(* ledger's contracts (run/spend_ledger.py); Total is SQL's SUM of a        *)
(* column over a set of rows.  A sum is counted, not folded: it is the      *)
(* number of micro-dollars <<row, k>> the rows hold, which gives the        *)
(* lemmas of SpendLedgerProofs.tla finite-set facts.                        *)
(***************************************************************************)
EXTENDS Naturals, FiniteSets

CONSTANT MaxAmount          \* 1_000_000_000_000 in the code

ASSUME MaxAmountAssumption == MaxAmount \in Nat \ {0}

Amount == 0..MaxAmount

Units(D, f) == {u \in D \X (1..MaxAmount) : u[2] <= f[u[1]]}

Total(D, f) == Cardinality(Units(D, f))
=============================================================================
