---------------------------- MODULE MCTaskCheckpoint ----------------------------
(***************************************************************************)
(* Two sessions while the power holds; once it fails, and before, one       *)
(* session only.  Sessions and changes are interchangeable.                 *)
(***************************************************************************)
EXTENDS TaskCheckpoint, TLC

Symmetry == Permutations(Session) \cup Permutations(Change)

Untouched(s) == /\ at[s] = "away" /\ fresh[s] /\ link[s] = NoBundle /\ publisher # s
                /\ \A b \in Bundle : claim[b] # s
Alone(s) == \A t \in Session \ {s} : Untouched(t)

MCNext == \/ \E s \in Session : (outage => Alone(s)) /\ Acts(s) /\ UNCHANGED outage
          \/ (\E s \in Session : Alone(s)) /\ PowerLoss
MCSpec == CheckpointInit /\ [][MCNext]_checkpointVars
====
