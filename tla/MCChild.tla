------------------------------- MODULE MCChild -------------------------------
(***************************************************************************)
(* Three definitions for ChildController: the second has lower ceilings     *)
(* than the first, and the third just allows a child, its integration and   *)
(* the evaluation of what it did.                                          *)
(***************************************************************************)
EXTENDS ChildController, TLC

MCAttempts == 1 :> 2 @@ 2 :> 1 @@ 3 :> 3
MCOutputs == 1 :> 2 @@ 2 :> 1 @@ 3 :> 2

MCSymmetry == Permutations(Inputs)

(* Jobs, edits and a changing workspace are explored with one goal; the     *)
(* second goal joins in histories without them, after a goal that was       *)
(* cancelled, or paused if it had a child, before it was cleared.  A goal   *)
(* of the third definition starts with a child, and beside that child there *)
(* is one of a message, an edit, a second goal and another child.           *)
Seen(i) == {goals[i].judged, passed[i], routine.obs}
             \cup (IF goals[i].evidence = None THEN {} ELSE {goals[i].evidence.obs})
Unchanged == \A i \in DOMAIN goals : \A o \in Seen(i) \ {None} : o.inputs = inputs
Edited == \E i \in DOMAIN goals : goals[i].revisions > 1
Jobless == \A i \in DOMAIN goals : goals[i].job = None

Plain == /\ Len(goals) = 2 => Unchanged /\ ~Edited /\ Jobless
         /\ Edited \/ ~Jobless => Unchanged

Fresh == begun = 0 /\ Len(goals) = 1 /\ ~Edited /\ Jobless /\ entries = <<>>

Replaced == {"completed", IF children = <<>> THEN "cancelled" ELSE "paused"}

Beside == Len(entries) + (IF Edited THEN 1 ELSE 0) + (IF Len(goals) = 2 THEN 1 ELSE 0)

Bounded ==
    /\ Len(goals) = 2 => goals[1].status \in Replaced
    /\ IF children # <<>>
       THEN (goals[1].defn = 3 \/ Edited) /\ Unchanged /\ Beside + Len(children) <= 2
       ELSE IF goals # <<>> /\ goals[1].defn = 3 THEN Fresh ELSE Plain
=============================================================================
