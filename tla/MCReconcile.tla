---------------------------- MODULE MCReconcile ----------------------------
(* Instances of Reconcile: the root holds the directories 1 and 3, with    *)
(* the objects 2 and 4, and the object 5.                                  *)
EXTENDS Reconcile

MCPath == 0..5
MCDirs == {0, 1, 3}
MCEnd == [d \in MCDirs |-> CASE d = 0 -> 5 [] d = 1 -> 2 [] d = 3 -> 4]

Only(S) == [p \in Objs |-> IF p \in S THEN 1 ELSE 0]
Two(S)  == [s \in Scopes |-> IF s = 0 THEN Only(S) ELSE Only({})]

Setup(conflict, auth, deletes, budget, kids, S, D) ==
    [rule |-> [conflict |-> conflict, authoritative |-> auth, deletes |-> deletes,
               budget |-> budget, maxKids |-> kids, scope |-> 0],
     src |-> Only(S), dst |-> Two(D)]

MCSetups ==
    { Setup("content-diff", Sides, TRUE, 40, 1, {2, 5}, {2, 4}),
      Setup("content-diff", {"src"}, TRUE, 40, 2, {4, 5}, {2, 5}),
      Setup("newer-wins", {}, FALSE, 8, 2, {2, 4, 5}, {2, 5}) }

(* A root of four objects, the first of them only at the destination. *)
FlatPath == 0..4
FlatDirs == {0}
FlatEnd == [d \in FlatDirs |-> 4]
FlatSetups == {Setup("content-diff", Sides, TRUE, 3, 2, {2, 3, 4}, {1})}

\* The cursor a run leaves never passes work still to be done, every open piece of the walk
\* is guarded in the tracker, and a walk with nothing in flight has ended (walk.rs).
WalkSound == CursorSound /\ WalkGuarded /\ NoStall
===========================================================================
