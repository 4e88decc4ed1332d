---------------------------- MODULE SpendPolicy ----------------------------
(***************************************************************************)
(* The price arithmetic of providers/openai_spend.py, shared by every       *)
(* spend-controlled transport: what a request may cost is reserved before   *)
(* it is sent, what it did cost is settled from the usage the provider      *)
(* reports.                                                                 *)
(***************************************************************************)
EXTENDS Integers

CONSTANTS Rates, TokenCounts      \* micro-dollars per million tokens; tokens

ASSUME PolicyAssumption == Rates \subseteq Nat \ {0} /\ TokenCounts \subseteq Nat

(* The policies valid_window accepts: schema 1 prices no cache writes,      *)
(* schema 2 prices them at no less than plain input.                        *)
Policies == {p \in [schema : {1, 2}, input : Rates, write : Rates, output : Rates] :
               IF p.schema = 1 THEN p.write = p.input ELSE p.write >= p.input}

Numerator(p, in, out, write) == in * p.input + write * (p.write - p.input) + out * p.output

Cost(p, in, out, write) == (Numerator(p, in, out, write) + 999999) \div 1000000

ReservationAtInputRate(p, in, out) == Cost(p, in, out, 0)       \* mutant: cache writes forgotten
ReservationCost(p, in, out) == Cost(p, in, out, IF p.schema = 2 THEN in ELSE 0)

(* A usage inside the envelope that the transports' checks let through:     *)
(* schema 1 reads or allows no cache writes.                                *)
Accepted(p, tokens, cap, in, out, write) ==
  /\ in <= tokens /\ out <= cap /\ write <= in
  /\ p.schema = 1 => write = 0

(* An amount n covers the usages it was reserved for: none the transports   *)
(* accept costs more, and rounding loses no fraction of a micro-dollar.     *)
Covers(n) ==
  \A p \in Policies : \A tokens \in TokenCounts, cap \in TokenCounts \ {0} :
    ReservationCost(p, tokens, cap) = n =>
      \A in, out, write \in TokenCounts : Accepted(p, tokens, cap, in, out, write) =>
        /\ Cost(p, in, out, write) <= n
        /\ Numerator(p, in, out, write) <= n * 1000000
=============================================================================
