-------------------------- MODULE RuleLeaseProofs --------------------------
(***************************************************************************)
(* Theorems about RuleLease, for any number of nodes, schedulers, run-nows *)
(* and faults, any lease duration, with and without a coordination bucket. *)
(***************************************************************************)
EXTENDS RuleLease, TLAPS

TypeInv == TypeOK /\ \A w \in Workers : inc[w] <= faults

\* The steps at which a worker believes it holds its lease.
Holding == {"recheck", "start", "running"}

\* A worker at one of these steps knows until when, and decides with a clock it has
\* read; only the schedulers of a shared lease talk to S3; a dead node has no work under way.
Known == \A w \in Workers :
    /\ pc[w] \in Holding => held[w] \in Int
    /\ at[w] <= now
    /\ pc[w] \in {"read", "put", "delete"} => OnS3(w)
    /\ pc[w] = "gate" => w \in Clicks
    /\ pc[w] = "local" => Local(w)
    /\ ~up[NodeOf[w]] => pc[w] \in {"idle", "done"}
    /\ beat[w] # None => OnS3(w) /\ beat[w].at <= now

\* The row of a node names the worker that believes in it, and a rule with such a row
\* is there.
OnRow(w) == Local(w) /\ pc[w] \in Holding /\ held[w] >= now =>
    /\ row[NodeOf[w]] # None
    /\ row[NodeOf[w]].owner = Owner(w)
    /\ row[NodeOf[w]].expires >= held[w]
RuleThere(w) ==
    Local(w) /\ pc[w] \in Active /\ row[NodeOf[w]] # None /\ row[NodeOf[w]].owner = Owner(w)
        => exists[NodeOf[w]]
RowInv == \A w \in Workers : OnRow(w) /\ RuleThere(w)

\* A version is given out once: what was read under the version the object still has
\* is the object.
Versions ==
    /\ obj # None => obj.ver <= puts /\ obj.owner[1] \in Workers
                     /\ obj.node = NodeOf[obj.owner[1]]
    /\ \A w \in Workers :
          /\ seen[w] # None => seen[w].ver <= puts
          /\ seen[w] # None /\ obj # None /\ seen[w].ver = obj.ver => seen[w] = obj
          /\ beat[w] # None => beat[w].ver <= puts
          /\ beat[w] # None /\ obj # None /\ beat[w].ver = obj.ver
                => obj.owner = Owner(w) /\ pc[w] \notin {"recheck", "start"}

\* What the write or the delete of the lease object was decided on.
Decided == \A w \in Workers :
    /\ pc[w] = "put" /\ seen[w] # None => Lapsed(seen[w], at[w]) \/ seen[w].node = NodeOf[w]
    /\ pc[w] = "delete" => seen[w] # None /\ seen[w].owner = Owner(w)

\* The lease object names the worker that believes in it.
OnObject(w) == OnS3(w) /\ pc[w] \in Holding /\ held[w] >= now =>
    obj # None /\ obj.owner = Owner(w) /\ obj.expires >= held[w]
ObjectInv == \A w \in Workers : OnObject(w)

IInv == TypeInv /\ Known /\ RowInv /\ Versions /\ Decided /\ ObjectInv
-----------------------------------------------------------------------------
\* The state starts as the invariant says.
LEMMA InitInv == Init => IInv
  BY RuleLeaseConstants, NoneIsNoLease
     DEF Init, IInv, TypeInv, TypeOK, Known, RowInv, OnRow, RuleThere, Versions, Decided,
         ObjectInv, OnObject, Holding, Active, Owners, Workers

\* Every step keeps the state well typed; a process is restarted at most once per fault.
LEMMA NextTyped == TypeInv /\ [Next]_vars => TypeInv'
<1> SUFFICES ASSUME TypeInv, [Next]_vars PROVE TypeInv'
  OBVIOUS
<1> USE RuleLeaseConstants DEF TypeInv, TypeOK, Goto, Owner, Owners, Lease, Row
<1>1. CASE UNCHANGED vars
  BY <1>1 DEF vars, worker
<1>2. ASSUME Tick PROVE TypeInv'
  BY <1>2 DEF Tick, worker
<1>3. ASSUME NEW v \in Workers, Due(v) PROVE TypeInv'
  BY <1>3 DEF Due
<1>4. ASSUME NEW v \in Workers, ReadLease(v) PROVE TypeInv'
  <2>1. CASE MayTake(obj, NodeOf[v], at[v])
    <3>1. seen' = [seen EXCEPT ![v] = obj] /\ pc' = [pc EXCEPT ![v] = "put"]
      BY <1>4, <2>1 DEF ReadLease
    <3>2. seen' \in [Workers -> Lease \cup {None}]
      BY <3>1
    <3>3. QED
      BY <1>4, <3>1, <3>2 DEF ReadLease
  <2>2. CASE ~MayTake(obj, NodeOf[v], at[v])
    BY <1>4, <2>2 DEF ReadLease
  <2>3. QED
    BY <2>1, <2>2
<1>5. ASSUME NEW v \in Workers, PutLease(v) PROVE TypeInv'
  BY <1>5 DEF PutLease, Write, NextEpoch, Matches
<1>6. ASSUME NEW v \in Workers, Click(v) PROVE TypeInv'
  BY <1>6 DEF Click
<1>7. ASSUME NEW v \in Workers, Gate(v) PROVE TypeInv'
  BY <1>7 DEF Gate
<1>8. ASSUME NEW v \in Workers, AcquireRow(v) PROVE TypeInv'
  <2>1. NodeOf[v] \in Nodes /\ now + Ttl \in Int /\ at[v] + Ttl \in Int
    OBVIOUS
  <2>2. row' \in [Nodes -> Row \cup {None}] /\ held' \in [Workers -> Int \cup {None}]
    BY <1>8, <2>1 DEF AcquireRow
  <2>3. pc' \in [Workers -> {"idle", "read", "put", "gate", "local", "recheck", "start",
                            "running", "release", "delete", "done"}]
    BY <1>8 DEF AcquireRow
  <2>4. QED
    BY <1>8, <2>2, <2>3 DEF AcquireRow
<1>9. ASSUME NEW v \in Workers, Recheck(v) PROVE TypeInv'
  BY <1>9 DEF Recheck
<1>10. ASSUME NEW v \in Workers, BeginRun(v) PROVE TypeInv'
  BY <1>10 DEF BeginRun
<1>11. ASSUME NEW v \in Workers, EndRun(v) PROVE TypeInv'
  BY <1>11 DEF EndRun
<1>12. ASSUME NEW v \in Workers, Release(v) PROVE TypeInv'
  BY <1>12 DEF Release, Rest
<1>13. ASSUME NEW v \in Workers, DeleteLease(v) PROVE TypeInv'
  BY <1>13 DEF DeleteLease, Matches
<1>14. ASSUME NEW v \in Workers, RenewRow(v) PROVE TypeInv'
  <2>1. CASE RowRenewable(NodeOf[v], Owner(v), now)
    <3>1. row[NodeOf[v]] \in Row /\ now + Ttl \in Int
      BY <2>1 DEF RowRenewable
    <3>2. [row[NodeOf[v]] EXCEPT !.expires = now + Ttl] \in Row
      BY <3>1
    <3>3. row' = [row EXCEPT ![NodeOf[v]] = [row[NodeOf[v]] EXCEPT !.expires = now + Ttl]]
      BY <1>14, <2>1 DEF RenewRow
    <3>4. row' \in [Nodes -> Row \cup {None}]
      BY <3>2, <3>3
    <3>5. QED
      BY <1>14, <2>1, <3>1, <3>4 DEF RenewRow
  <2>2. CASE ~RowRenewable(NodeOf[v], Owner(v), now)
    BY <1>14, <2>2 DEF RenewRow
  <2>3. QED
    BY <2>1, <2>2
<1>15. ASSUME NEW v \in Workers, BeatRead(v) PROVE TypeInv'
  <2>1. CASE MayRenew(obj, Owner(v), now)
    <3>1. obj \in Lease
      BY <2>1 DEF MayRenew
    <3>2. [ver |-> obj.ver, at |-> now, epoch |-> obj.epoch]
             \in [ver: Nat, at: 0..MaxTime, epoch: Nat]
      BY <3>1
    <3>3. QED
      BY <1>15, <2>1, <3>2 DEF BeatRead
  <2>2. CASE ~MayRenew(obj, Owner(v), now)
    BY <1>15, <2>2 DEF BeatRead
  <2>3. QED
    BY <2>1, <2>2
<1>16. ASSUME NEW v \in Workers, BeatPut(v) PROVE TypeInv'
  BY <1>16 DEF BeatPut, Write
<1>17. ASSUME NEW v \in Workers, AcquireError(v) PROVE TypeInv'
  BY <1>17 DEF AcquireError, Write, NextEpoch, Matches
<1>18. ASSUME NEW v \in Workers, GateError(v) PROVE TypeInv'
  BY <1>18 DEF GateError
<1>19. ASSUME NEW v \in Workers, BeatError(v) PROVE TypeInv'
  BY <1>19 DEF BeatError
<1>20. ASSUME NEW n \in Nodes, DeleteGate(n) PROVE TypeInv'
  BY <1>20 DEF DeleteGate, worker
<1>21. ASSUME NEW n \in Nodes, DeleteRule(n) PROVE TypeInv'
  <2>1. row' \in [Nodes -> Row \cup {None}] /\ exists' \in [Nodes -> BOOLEAN]
    BY <1>21 DEF DeleteRule
  <2>2. deleting' \in [Nodes -> {"no", "gated", "done"}]
    BY <1>21 DEF DeleteRule
  <2>3. QED
    BY <1>21, <2>1, <2>2 DEF DeleteRule, worker
<1>22. ASSUME NEW n \in Nodes, Crash(n) PROVE TypeInv'
  <2>1. inc' \in [Workers -> 0..MaxFaults] /\ \A w \in Workers : inc'[w] <= faults'
    BY <1>22 DEF Crash
  <2>2. pc' \in [Workers -> {"idle", "read", "put", "gate", "local", "recheck", "start",
                            "running", "release", "delete", "done"}]
    BY <1>22 DEF Crash, Rest
  <2>3. /\ held' \in [Workers -> Int \cup {None}]
        /\ beat' \in [Workers -> [ver: Nat, at: 0..MaxTime, epoch: Nat] \cup {None}]
        /\ alive' \in [Workers -> BOOLEAN]
    BY <1>22 DEF Crash
  <2>4. /\ up' \in [Nodes -> BOOLEAN]
        /\ deleting' \in [Nodes -> {"no", "gated", "done"}]
        /\ faults' \in 0..MaxFaults
    BY <1>22 DEF Crash
  <2>5. UNCHANGED <<now, obj, puts, row, running, exists, seen, at>>
    BY <1>22 DEF Crash
  <2>6. QED
    BY <2>1, <2>2, <2>3, <2>4, <2>5
<1>23. ASSUME NEW n \in Nodes, Boot(n) PROVE TypeInv'
  <2>1. row' \in [Nodes -> Row \cup {None}]
    <3>1. CASE row[n] # None
      <4>1. [row[n] EXCEPT !.expires = -1] \in Row
        BY <3>1
      <4>2. row' = [row EXCEPT ![n] = [row[n] EXCEPT !.expires = -1]]
        BY <1>23, <3>1 DEF Boot
      <4>3. QED
        BY <4>1, <4>2
    <3>2. CASE row[n] = None
      BY <1>23, <3>2 DEF Boot
    <3>3. QED
      BY <3>1, <3>2
  <2>2. QED
    BY <1>23, <2>1 DEF Boot, worker
<1>24. QED
  BY <1>1, <1>2, <1>3, <1>4, <1>5, <1>6, <1>7, <1>8, <1>9, <1>10, <1>11, <1>12, <1>13,
     <1>14, <1>15, <1>16, <1>17, <1>18, <1>19, <1>20, <1>21, <1>22, <1>23 DEF Next, Step, Beat

\* A worker inside its lease knows its end and has read the clock.
LEMMA NextKnown == TypeInv /\ Known /\ [Next]_vars => Known'
<1> SUFFICES ASSUME TypeInv, Known, [Next]_vars PROVE Known'
  OBVIOUS
<1> USE RuleLeaseConstants DEF TypeInv, TypeOK, Known, Holding, Goto, OnS3, Local
<1>1. CASE UNCHANGED vars
  BY <1>1 DEF vars, worker
<1>2. ASSUME Tick PROVE Known'
  BY <1>2 DEF Tick, worker
<1>3. ASSUME NEW v \in Workers, Due(v) PROVE Known'
  BY <1>3 DEF Due
<1>4. ASSUME NEW v \in Workers, ReadLease(v) PROVE Known'
  BY <1>4 DEF ReadLease, MayTake, Lapsed
<1>5. ASSUME NEW v \in Workers, PutLease(v) PROVE Known'
  BY <1>5 DEF PutLease, Write, NextEpoch, Matches
<1>6. ASSUME NEW v \in Workers, Click(v) PROVE Known'
  BY <1>6 DEF Click
<1>7. ASSUME NEW v \in Workers, Gate(v) PROVE Known'
  BY <1>7 DEF Gate
<1>8. ASSUME NEW v \in Workers, AcquireRow(v) PROVE Known'
  BY <1>8 DEF AcquireRow, RowFree, Lapsed
<1>9. ASSUME NEW v \in Workers, Recheck(v) PROVE Known'
  BY <1>9 DEF Recheck
<1>10. ASSUME NEW v \in Workers, BeginRun(v) PROVE Known'
  BY <1>10 DEF BeginRun
<1>11. ASSUME NEW v \in Workers, EndRun(v) PROVE Known'
  BY <1>11 DEF EndRun
<1>12. ASSUME NEW v \in Workers, Release(v) PROVE Known'
  BY <1>12 DEF Release, Rest
<1>13. ASSUME NEW v \in Workers, DeleteLease(v) PROVE Known'
  BY <1>13 DEF DeleteLease, Matches
<1>14. ASSUME NEW v \in Workers, RenewRow(v) PROVE Known'
  BY <1>14 DEF RenewRow, RowRenewable, Lapsed
<1>15. ASSUME NEW v \in Workers, BeatRead(v) PROVE Known'
  BY <1>15 DEF BeatRead, MayRenew
<1>16. ASSUME NEW v \in Workers, BeatPut(v) PROVE Known'
  BY <1>16 DEF BeatPut, Write
<1>17. ASSUME NEW v \in Workers, AcquireError(v) PROVE Known'
  BY <1>17 DEF AcquireError, Write, NextEpoch, Matches
<1>18. ASSUME NEW v \in Workers, GateError(v) PROVE Known'
  BY <1>18 DEF GateError
<1>19. ASSUME NEW v \in Workers, BeatError(v) PROVE Known'
  BY <1>19 DEF BeatError
<1>20. ASSUME NEW n \in Nodes, DeleteGate(n) PROVE Known'
  BY <1>20 DEF DeleteGate, worker
<1>21. ASSUME NEW n \in Nodes, DeleteRule(n) PROVE Known'
  BY <1>21 DEF DeleteRule, RowHeld, Lapsed, worker
<1>22. ASSUME NEW n \in Nodes, Crash(n) PROVE Known'
  BY <1>22 DEF Crash, Rest
<1>23. ASSUME NEW n \in Nodes, Boot(n) PROVE Known'
  BY <1>23 DEF Boot, worker
<1>24. QED
  BY <1>1, <1>2, <1>3, <1>4, <1>5, <1>6, <1>7, <1>8, <1>9, <1>10, <1>11, <1>12, <1>13,
     <1>14, <1>15, <1>16, <1>17, <1>18, <1>19, <1>20, <1>21, <1>22, <1>23 DEF Next, Step, Beat

\* The row of a node changes hands only when it has lapsed, is released by its owner or goes
\* with the rule.
LEMMA NextRow == TypeInv /\ Known /\ RowInv /\ [Next]_vars => RowInv'
<1> SUFFICES ASSUME TypeInv, Known, RowInv, [Next]_vars PROVE RowInv'
  OBVIOUS
<1> USE RuleLeaseConstants, NoneIsNoLease DEF TypeInv, TypeOK, Known, RowInv, OnRow,
        RuleThere, Holding, Active, Goto, OnS3, Local, Owner, Owners, Row
<1>1. CASE UNCHANGED vars
  BY <1>1 DEF vars, worker
<1>2. ASSUME Tick PROVE RowInv'
  BY <1>2 DEF Tick, worker
<1>3. ASSUME NEW v \in Workers, Due(v) PROVE RowInv'
  BY <1>3 DEF Due
<1>4. ASSUME NEW v \in Workers, ReadLease(v) PROVE RowInv'
  BY <1>4 DEF ReadLease, MayTake, Lapsed
<1>5. ASSUME NEW v \in Workers, PutLease(v) PROVE RowInv'
  BY <1>5 DEF PutLease, Write, NextEpoch, Matches
<1>6. ASSUME NEW v \in Workers, Click(v) PROVE RowInv'
  BY <1>6 DEF Click
<1>7. ASSUME NEW v \in Workers, Gate(v) PROVE RowInv'
  BY <1>7 DEF Gate
<1>8. ASSUME NEW v \in Workers, AcquireRow(v) PROVE RowInv'
  <2> DEFINE t == IF v \in Clicks THEN now ELSE at[v]
             m == NodeOf[v]
  <2>1. t \in Int /\ t <= now /\ m \in Nodes
    BY DEF Workers
  <2>2. CASE RowFree(m, t)
    <3>1. /\ row' = [row EXCEPT ![m] = [owner |-> Owner(v), expires |-> t + Ttl]]
          /\ held' = [held EXCEPT ![v] = t + Ttl]
          /\ pc' = [pc EXCEPT ![v] = "recheck"]
          /\ UNCHANGED <<now, exists, inc>>
      BY <1>8, <2>2 DEF AcquireRow
    <3>2. row'[m] # None
      BY <3>1, <2>1
    <3>3. ASSUME NEW w \in Workers, w # v, Local(w), NodeOf[w] = m, pc[w] \in Holding
          PROVE  ~(held[w] >= now)
      BY <2>1, <2>2, <3>3 DEF RowFree, Lapsed
    <3>4. ASSUME NEW w \in Workers PROVE OnRow(w)' /\ RuleThere(w)'
      <4>1. CASE w = v
        BY <3>1, <3>2, <4>1
      <4>2. CASE w # v /\ NodeOf[w] = m
        BY <3>1, <3>3, <4>2, <2>1
      <4>3. CASE w # v /\ NodeOf[w] # m
        BY <3>1, <4>3
      <4>4. QED
        BY <4>1, <4>2, <4>3
    <3>5. QED
      BY <3>4
  <2>3. CASE ~RowFree(m, t)
    BY <1>8, <2>3 DEF AcquireRow
  <2>4. QED
    BY <2>2, <2>3
<1>9. ASSUME NEW v \in Workers, Recheck(v) PROVE RowInv'
  BY <1>9 DEF Recheck
<1>10. ASSUME NEW v \in Workers, BeginRun(v) PROVE RowInv'
  BY <1>10 DEF BeginRun
<1>11. ASSUME NEW v \in Workers, EndRun(v) PROVE RowInv'
  BY <1>11 DEF EndRun
<1>12. ASSUME NEW v \in Workers, Release(v) PROVE RowInv'
  BY <1>12 DEF Release, Rest
<1>13. ASSUME NEW v \in Workers, DeleteLease(v) PROVE RowInv'
  BY <1>13 DEF DeleteLease, Matches
<1>14. ASSUME NEW v \in Workers, RenewRow(v) PROVE RowInv'
  <2>1. CASE RowRenewable(NodeOf[v], Owner(v), now)
    <3>1. row[NodeOf[v]] # None /\ row[NodeOf[v]] \in Row /\ row[NodeOf[v]].owner = Owner(v)
      BY <2>1 DEF RowRenewable
    <3>2. row' = [row EXCEPT ![NodeOf[v]] = [row[NodeOf[v]] EXCEPT !.expires = now + Ttl]]
      BY <1>14, <2>1 DEF RenewRow
    <3>3. /\ row'[NodeOf[v]] \in Row
          /\ row'[NodeOf[v]].owner = Owner(v)
          /\ row'[NodeOf[v]].expires = now + Ttl
      BY <3>1, <3>2
    <3>4. \A m \in Nodes : m # NodeOf[v] => row'[m] = row[m]
      BY <3>2
    <3>5. UNCHANGED <<now, exists, pc, inc>> /\ held' = [held EXCEPT ![v] = now + Ttl]
      BY <1>14, <2>1 DEF RenewRow
    <3>6. ASSUME NEW w \in Workers PROVE OnRow(w)' /\ RuleThere(w)'
      <4>1. CASE NodeOf[w] = NodeOf[v]
        BY <3>1, <3>3, <3>5, <4>1
      <4>2. CASE NodeOf[w] # NodeOf[v]
        BY <3>4, <3>5, <4>2
      <4>3. QED
        BY <4>1, <4>2
    <3>7. QED
      BY <3>6
  <2>2. CASE ~RowRenewable(NodeOf[v], Owner(v), now)
    BY <1>14, <2>2 DEF RenewRow
  <2>3. QED
    BY <2>1, <2>2
<1>15. ASSUME NEW v \in Workers, BeatRead(v) PROVE RowInv'
  BY <1>15 DEF BeatRead, MayRenew
<1>16. ASSUME NEW v \in Workers, BeatPut(v) PROVE RowInv'
  BY <1>16 DEF BeatPut, Write
<1>17. ASSUME NEW v \in Workers, AcquireError(v) PROVE RowInv'
  BY <1>17 DEF AcquireError, Write, NextEpoch, Matches
<1>18. ASSUME NEW v \in Workers, GateError(v) PROVE RowInv'
  BY <1>18 DEF GateError
<1>19. ASSUME NEW v \in Workers, BeatError(v) PROVE RowInv'
  BY <1>19 DEF BeatError
<1>20. ASSUME NEW n \in Nodes, DeleteGate(n) PROVE RowInv'
  BY <1>20 DEF DeleteGate, worker
<1>21. ASSUME NEW n \in Nodes, DeleteRule(n) PROVE RowInv'
  BY <1>21 DEF DeleteRule, RowHeld, Lapsed, worker
<1>22. ASSUME NEW n \in Nodes, Crash(n) PROVE RowInv'
  BY <1>22 DEF Crash, Rest
<1>23. ASSUME NEW n \in Nodes, Boot(n) PROVE RowInv'
  BY <1>23 DEF Boot, worker
<1>24. QED
  BY <1>1, <1>2, <1>3, <1>4, <1>5, <1>6, <1>7, <1>8, <1>9, <1>10, <1>11, <1>12, <1>13,
     <1>14, <1>15, <1>16, <1>17, <1>18, <1>19, <1>20, <1>21, <1>22, <1>23 DEF Next, Step, Beat

\* A version is given out once, so a conditional write finds the object that was read.
LEMMA NextVersions == TypeInv /\ Known /\ Versions /\ [Next]_vars => Versions'
<1> SUFFICES ASSUME TypeInv, Known, Versions, [Next]_vars PROVE Versions'
  OBVIOUS
<1> USE RuleLeaseConstants, NoneIsNoLease DEF TypeInv, TypeOK, Known, Versions, Goto,
        OnS3, Local, Owner, Owners, Lease
<1>1. CASE UNCHANGED vars
  BY <1>1 DEF vars, worker
<1>2. ASSUME Tick PROVE Versions'
  BY <1>2 DEF Tick, worker
<1>3. ASSUME NEW v \in Workers, Due(v) PROVE Versions'
  BY <1>3 DEF Due
<1>4. ASSUME NEW v \in Workers, ReadLease(v) PROVE Versions'
  BY <1>4 DEF ReadLease, MayTake, Lapsed
<1>5. ASSUME NEW v \in Workers, PutLease(v) PROVE Versions'
  BY <1>5 DEF PutLease, Write, NextEpoch, Matches
<1>6. ASSUME NEW v \in Workers, Click(v) PROVE Versions'
  BY <1>6 DEF Click
<1>7. ASSUME NEW v \in Workers, Gate(v) PROVE Versions'
  BY <1>7 DEF Gate
<1>8. ASSUME NEW v \in Workers, AcquireRow(v) PROVE Versions'
  BY <1>8 DEF AcquireRow, RowFree, Lapsed
<1>9. ASSUME NEW v \in Workers, Recheck(v) PROVE Versions'
  BY <1>9 DEF Recheck
<1>10. ASSUME NEW v \in Workers, BeginRun(v) PROVE Versions'
  BY <1>10 DEF BeginRun
<1>11. ASSUME NEW v \in Workers, EndRun(v) PROVE Versions'
  BY <1>11 DEF EndRun
<1>12. ASSUME NEW v \in Workers, Release(v) PROVE Versions'
  BY <1>12 DEF Release, Rest
<1>13. ASSUME NEW v \in Workers, DeleteLease(v) PROVE Versions'
  BY <1>13 DEF DeleteLease, Matches
<1>14. ASSUME NEW v \in Workers, RenewRow(v) PROVE Versions'
  BY <1>14 DEF RenewRow, RowRenewable, Lapsed
<1>15. ASSUME NEW v \in Workers, BeatRead(v) PROVE Versions'
  BY <1>15 DEF BeatRead, MayRenew
<1>16. ASSUME NEW v \in Workers, BeatPut(v) PROVE Versions'
  BY <1>16 DEF BeatPut, Write
<1>17. ASSUME NEW v \in Workers, AcquireError(v) PROVE Versions'
  BY <1>17 DEF AcquireError, Write, NextEpoch, Matches
<1>18. ASSUME NEW v \in Workers, GateError(v) PROVE Versions'
  BY <1>18 DEF GateError
<1>19. ASSUME NEW v \in Workers, BeatError(v) PROVE Versions'
  BY <1>19 DEF BeatError
<1>20. ASSUME NEW n \in Nodes, DeleteGate(n) PROVE Versions'
  BY <1>20 DEF DeleteGate, worker
<1>21. ASSUME NEW n \in Nodes, DeleteRule(n) PROVE Versions'
  BY <1>21 DEF DeleteRule, RowHeld, Lapsed, worker
<1>22. ASSUME NEW n \in Nodes, Crash(n) PROVE Versions'
  BY <1>22 DEF Crash, Rest
<1>23. ASSUME NEW n \in Nodes, Boot(n) PROVE Versions'
  BY <1>23 DEF Boot, worker
<1>24. QED
  BY <1>1, <1>2, <1>3, <1>4, <1>5, <1>6, <1>7, <1>8, <1>9, <1>10, <1>11, <1>12, <1>13,
     <1>14, <1>15, <1>16, <1>17, <1>18, <1>19, <1>20, <1>21, <1>22, <1>23 DEF Next, Step, Beat

\* A put in flight was decided on a lapsed or own lease, a delete on the worker's own.
LEMMA NextDecided == TypeInv /\ Known /\ Decided /\ [Next]_vars => Decided'
<1> SUFFICES ASSUME TypeInv, Known, Decided, [Next]_vars PROVE Decided'
  OBVIOUS
<1> USE RuleLeaseConstants, NoneIsNoLease DEF TypeInv, TypeOK, Known, Decided, Lapsed,
        Goto, OnS3, Local, Owner, Owners, Lease
<1>1. CASE UNCHANGED vars
  BY <1>1 DEF vars, worker
<1>2. ASSUME Tick PROVE Decided'
  BY <1>2 DEF Tick, worker
<1>3. ASSUME NEW v \in Workers, Due(v) PROVE Decided'
  BY <1>3 DEF Due
<1>4. ASSUME NEW v \in Workers, ReadLease(v) PROVE Decided'
  BY <1>4 DEF ReadLease, MayTake, Lapsed
<1>5. ASSUME NEW v \in Workers, PutLease(v) PROVE Decided'
  BY <1>5 DEF PutLease, Write, NextEpoch, Matches
<1>6. ASSUME NEW v \in Workers, Click(v) PROVE Decided'
  BY <1>6 DEF Click
<1>7. ASSUME NEW v \in Workers, Gate(v) PROVE Decided'
  BY <1>7 DEF Gate
<1>8. ASSUME NEW v \in Workers, AcquireRow(v) PROVE Decided'
  BY <1>8 DEF AcquireRow, RowFree, Lapsed
<1>9. ASSUME NEW v \in Workers, Recheck(v) PROVE Decided'
  BY <1>9 DEF Recheck
<1>10. ASSUME NEW v \in Workers, BeginRun(v) PROVE Decided'
  BY <1>10 DEF BeginRun
<1>11. ASSUME NEW v \in Workers, EndRun(v) PROVE Decided'
  BY <1>11 DEF EndRun
<1>12. ASSUME NEW v \in Workers, Release(v) PROVE Decided'
  BY <1>12 DEF Release, Rest
<1>13. ASSUME NEW v \in Workers, DeleteLease(v) PROVE Decided'
  BY <1>13 DEF DeleteLease, Matches
<1>14. ASSUME NEW v \in Workers, RenewRow(v) PROVE Decided'
  BY <1>14 DEF RenewRow, RowRenewable, Lapsed
<1>15. ASSUME NEW v \in Workers, BeatRead(v) PROVE Decided'
  BY <1>15 DEF BeatRead, MayRenew
<1>16. ASSUME NEW v \in Workers, BeatPut(v) PROVE Decided'
  BY <1>16 DEF BeatPut, Write
<1>17. ASSUME NEW v \in Workers, AcquireError(v) PROVE Decided'
  BY <1>17 DEF AcquireError, Write, NextEpoch, Matches
<1>18. ASSUME NEW v \in Workers, GateError(v) PROVE Decided'
  BY <1>18 DEF GateError
<1>19. ASSUME NEW v \in Workers, BeatError(v) PROVE Decided'
  BY <1>19 DEF BeatError
<1>20. ASSUME NEW n \in Nodes, DeleteGate(n) PROVE Decided'
  BY <1>20 DEF DeleteGate, worker
<1>21. ASSUME NEW n \in Nodes, DeleteRule(n) PROVE Decided'
  BY <1>21 DEF DeleteRule, RowHeld, Lapsed, worker
<1>22. ASSUME NEW n \in Nodes, Crash(n) PROVE Decided'
  BY <1>22 DEF Crash, Rest
<1>23. ASSUME NEW n \in Nodes, Boot(n) PROVE Decided'
  BY <1>23 DEF Boot, worker
<1>24. QED
  BY <1>1, <1>2, <1>3, <1>4, <1>5, <1>6, <1>7, <1>8, <1>9, <1>10, <1>11, <1>12, <1>13,
     <1>14, <1>15, <1>16, <1>17, <1>18, <1>19, <1>20, <1>21, <1>22, <1>23 DEF Next, Step, Beat

\* The lease object is replaced or deleted only when its holder's time is over.
LEMMA NextObject == TypeInv /\ Known /\ Versions /\ Decided /\ ObjectInv /\ [Next]_vars
    => ObjectInv'
<1> SUFFICES ASSUME TypeInv, Known, Versions, Decided, ObjectInv, [Next]_vars PROVE
    ObjectInv'
  OBVIOUS
<1> USE RuleLeaseConstants, NoneIsNoLease DEF TypeInv, TypeOK, Known, Versions, Decided,
        ObjectInv, OnObject, Lapsed, Holding, Goto, OnS3, Local, Owner, Owners, Lease
<1>1. CASE UNCHANGED vars
  BY <1>1 DEF vars, worker
<1>2. ASSUME Tick PROVE ObjectInv'
  BY <1>2 DEF Tick, worker
<1>3. ASSUME NEW v \in Workers, Due(v) PROVE ObjectInv'
  BY <1>3 DEF Due
<1>4. ASSUME NEW v \in Workers, ReadLease(v) PROVE ObjectInv'
  BY <1>4 DEF ReadLease, MayTake, Lapsed
<1>5. ASSUME NEW v \in Workers, PutLease(v) PROVE ObjectInv'
  BY <1>5 DEF PutLease, Write, NextEpoch, Matches
<1>6. ASSUME NEW v \in Workers, Click(v) PROVE ObjectInv'
  BY <1>6 DEF Click
<1>7. ASSUME NEW v \in Workers, Gate(v) PROVE ObjectInv'
  BY <1>7 DEF Gate
<1>8. ASSUME NEW v \in Workers, AcquireRow(v) PROVE ObjectInv'
  BY <1>8 DEF AcquireRow, RowFree, Lapsed
<1>9. ASSUME NEW v \in Workers, Recheck(v) PROVE ObjectInv'
  BY <1>9 DEF Recheck
<1>10. ASSUME NEW v \in Workers, BeginRun(v) PROVE ObjectInv'
  BY <1>10 DEF BeginRun
<1>11. ASSUME NEW v \in Workers, EndRun(v) PROVE ObjectInv'
  BY <1>11 DEF EndRun
<1>12. ASSUME NEW v \in Workers, Release(v) PROVE ObjectInv'
  BY <1>12 DEF Release, Rest
<1>13. ASSUME NEW v \in Workers, DeleteLease(v) PROVE ObjectInv'
  BY <1>13 DEF DeleteLease, Matches
<1>14. ASSUME NEW v \in Workers, RenewRow(v) PROVE ObjectInv'
  BY <1>14 DEF RenewRow, RowRenewable, Lapsed
<1>15. ASSUME NEW v \in Workers, BeatRead(v) PROVE ObjectInv'
  BY <1>15 DEF BeatRead, MayRenew
<1>16. ASSUME NEW v \in Workers, BeatPut(v) PROVE ObjectInv'
  BY <1>16 DEF BeatPut, Write
<1>17. ASSUME NEW v \in Workers, AcquireError(v) PROVE ObjectInv'
  BY <1>17 DEF AcquireError, Write, NextEpoch, Matches
<1>18. ASSUME NEW v \in Workers, GateError(v) PROVE ObjectInv'
  BY <1>18 DEF GateError
<1>19. ASSUME NEW v \in Workers, BeatError(v) PROVE ObjectInv'
  BY <1>19 DEF BeatError
<1>20. ASSUME NEW n \in Nodes, DeleteGate(n) PROVE ObjectInv'
  BY <1>20 DEF DeleteGate, worker
<1>21. ASSUME NEW n \in Nodes, DeleteRule(n) PROVE ObjectInv'
  BY <1>21 DEF DeleteRule, RowHeld, Lapsed, worker
<1>22. ASSUME NEW n \in Nodes, Crash(n) PROVE ObjectInv'
  BY <1>22 DEF Crash, Rest
<1>23. ASSUME NEW n \in Nodes, Boot(n) PROVE ObjectInv'
  BY <1>23 DEF Boot, worker
<1>24. QED
  BY <1>1, <1>2, <1>3, <1>4, <1>5, <1>6, <1>7, <1>8, <1>9, <1>10, <1>11, <1>12, <1>13,
     <1>14, <1>15, <1>16, <1>17, <1>18, <1>19, <1>20, <1>21, <1>22, <1>23 DEF Next, Step, Beat

\* Within a lease there is one runner, on record, of a rule that is there.
LEMMA InvSound == IInv => LeaseSound
<1> SUFFICES ASSUME IInv PROVE LeaseSound
  OBVIOUS
<1> USE RuleLeaseConstants DEF IInv, TypeInv, TypeOK, Known, Holding, Active
<1>1. ASSUME NEW w \in Workers, pc[w] \in Active, held[w] >= now
      PROVE  IF OnS3(w)
               THEN obj # None /\ obj.owner = Owner(w) /\ obj.expires >= held[w]
               ELSE row[NodeOf[w]] # None /\ row[NodeOf[w]].owner = Owner(w)
  BY <1>1 DEF RowInv, OnRow, ObjectInv, OnObject, Local
<1>2. HolderOnRecord
  BY <1>1 DEF HolderOnRecord
<1>3. LocalNotDeleted
  BY <1>1 DEF LocalNotDeleted, RowInv, RuleThere, Local
<1>4. ASSUME NEW w \in Workers, NEW v \in Workers, w # v, SameLease(w, v),
             pc[w] \in Active, pc[v] \in Active
      PROVE  held[w] < now \/ held[v] < now
  <2>1. held[w] \in Int /\ held[v] \in Int /\ now \in Int
    BY <1>4
  <2>2. Owner(w) # Owner(v)
    BY <1>4 DEF Owner
  <2>3. ~(held[w] >= now /\ held[v] >= now)
    BY <1>1, <1>4, <2>2 DEF SameLease, Local
  <2>4. QED
    BY <2>1, <2>3
<1>5. ExclusiveLease
  BY <1>4 DEF ExclusiveLease
<1>6. QED
  BY <1>2, <1>3, <1>5 DEF LeaseSound

\* The inductive invariant.
THEOREM Invariant == Spec => []IInv
<1>1. IInv /\ [Next]_vars => IInv'
  BY NextTyped, NextKnown, NextRow, NextVersions, NextDecided, NextObject DEF IInv
<1>2. QED
  BY InitInv, <1>1, PTL DEF Spec

\* The lease state stays well typed.
THEOREM TypeCorrect == Spec => []TypeOK
<1>1. IInv => TypeOK
  BY DEF IInv, TypeInv
<1>2. QED
  BY Invariant, <1>1, PTL

\* Two workers that live by one lease never run a rule at once within it, a running worker
\* whose lease has not lapsed is its owner on record, and the rule is not deleted under a run
\* that holds the node's lease (S3Lease, LocalLease, run_due_rules, run_now, delete_rule).
THEOREM OneRunner == Spec => []LeaseSound
  BY Invariant, InvSound, PTL
=============================================================================
