----------------------------- MODULE SessionCatalog -----------------------------
(***************************************************************************)
(* What a store of saved sessions promises (docs/CONVERSATION_SQLITE.md):   *)
(* each session has one whole snapshot or none; a save replaces it by its   *)
(* next revision, an import only adds a session, and a removal takes every  *)
(* session it selected.  SQLiteStore implements it, and ConversationStore   *)
(* does for its one session as long as the power holds.                     *)
(***************************************************************************)
EXTENDS Naturals

CONSTANTS Session, Content

Snapshot == [revision : Nat, entries : Content]
Missing == [revision |-> 0, entries |-> <<>>]

VARIABLE saved

Init == saved \in [Session -> Snapshot \cup {Missing}]

Others(s) == \A t \in Session \ {s} : saved'[t] = saved[t]
Replace(s) == /\ saved[s] # Missing /\ Others(s)
              /\ saved'[s] \in Snapshot /\ saved'[s].revision = saved[s].revision + 1
Add(s) == saved[s] = Missing /\ Others(s) /\ saved'[s] \in Snapshot
Remove(T) == saved' = [s \in Session |-> IF s \in T THEN Missing ELSE saved[s]]

Next == /\ saved' \in [Session -> Snapshot \cup {Missing}]
        /\ \/ \E s \in Session : Replace(s) \/ Add(s)
           \/ \E T \in SUBSET Session : Remove(T)
Spec == Init /\ [][Next]_saved
=============================================================================
