----------------------------- MODULE MCDeltaSpace -----------------------------
(* Small instances of DeltaSpace: one node, or two nodes with one of the      *)
(* requests on the second.                                                    *)
EXTENDS DeltaSpace, TLC

CONSTANTS n1, n2, r1, r2, r3, r4, r5

OneNode == [r \in Reqs |-> n1]
TwoNodes == [r \in Reqs |-> IF r \in {r1, r2} THEN n1 ELSE n2]

\* Requests of one node are interchangeable.
Symmetric == Permutations(Reqs)
=============================================================================
