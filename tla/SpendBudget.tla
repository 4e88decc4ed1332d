---------------------------- MODULE SpendBudget ----------------------------
(***************************************************************************)
(* What one spending scope promises its users (docs/SHARED_SPENDING.md):    *)
(* money is exposed before it can be spent, exposure plus spend never       *)
(* exceeds the ceiling, spend is never given back, and nothing new is       *)
(* exposed while the scope is frozen.  SpendLedger implements it.           *)
(***************************************************************************)
EXTENDS Naturals

CONSTANT Ceiling

VARIABLES spent,        \* finally charged, never refunded
          exposed,      \* reserved and not yet resolved
          frozen        \* a pricing violation is on record

vars == <<spent, exposed, frozen>>

Init == spent = 0 /\ exposed = 0 /\ frozen = FALSE

Admit == /\ ~frozen
         /\ \E n \in 0 .. (Ceiling - (spent + exposed)) : exposed' = exposed + n
         /\ UNCHANGED <<spent, frozen>>

(* Part n of the exposure is resolved at a final charge m of at most n.     *)
(* Resolving the last violation may also thaw the scope.                    *)
Resolve == /\ \E n \in 0..exposed : \E m \in 0..n : /\ exposed' = exposed - n
                                                    /\ spent' = spent + m
           /\ frozen' \in {frozen, FALSE}

Freeze == frozen' = TRUE /\ UNCHANGED <<spent, exposed>>

Next == Admit \/ Resolve \/ Freeze

Spec == Init /\ [][Next]_vars
=============================================================================
