------------------------ MODULE MCReviewController ------------------------
(***************************************************************************)
(* Two critics and a judge at one micro-dollar each.                        *)
(***************************************************************************)
EXTENDS ReviewController, TLC

CONSTANTS c1, c2

MCBatch == <<Entry(c1), Entry(c2), Entry(Allowance)>>
MCPrice == [e \in EntryId |-> 1]
=============================================================================
