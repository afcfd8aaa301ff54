------------------------------ MODULE MCLeases ------------------------------
(* Two nodes whose schedulers share an S3 lease; run-nows and the leases of  *)
(* a node's own database are parts of MCJobs.                                *)
EXTENDS RuleLease

CONSTANTS n1, n2, s1, s2

Placement == [w \in Workers |-> IF w = s2 THEN n2 ELSE n1]

\* Next without the actions of run-nows, of the node's own lease and of a deletion, none of
\* which this instance has.
SchedulersNext ==
    \/ Tick
    \/ \E w \in Scheds : \/ Due(w) \/ ReadLease(w) \/ PutLease(w) \/ AcquireError(w)
                         \/ Recheck(w) \/ BeginRun(w) \/ EndRun(w) \/ Release(w)
                         \/ DeleteLease(w) \/ BeatRead(w) \/ BeatPut(w) \/ BeatError(w)
    \/ \E n \in Nodes : Crash(n) \/ Boot(n)

SchedulersSpec == Init /\ [][SchedulersNext]_vars /\ Fairness
=============================================================================
