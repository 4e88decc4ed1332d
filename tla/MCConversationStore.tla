------------------------- MODULE MCConversationStore -------------------------
(***************************************************************************)
(* Three handles on a session of up to three revisions, each of which can   *)
(* say one of two things.                                                   *)
(***************************************************************************)
EXTENDS ConversationStore, TLC

Symmetry == Permutations(Handle) \cup Permutations(Body)
=============================================================================
