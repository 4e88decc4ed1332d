-------------------------- MODULE MCSpendTransport --------------------------
(***************************************************************************)
(* Two calls in one scope whose ceiling cannot cover both in full; the      *)
(* first is attempted twice.  Their classes are the two OpenAI ones, the    *)
(* two Anthropic ones, or a coding broker beside a plain call.              *)
(***************************************************************************)
EXTENDS AnchoredTransport, TLC

CONSTANTS c1, c2, a1, a2, b1

MCCallOf == a1 :> c1 @@ a2 :> c1 @@ b1 :> c2
MCKinds == {c1 :> "budgeted" @@ c2 :> "openai", c1 :> "anthropic" @@ c2 :> "review",
            c1 :> "anchored" @@ c2 :> "openai"}
=============================================================================
