------------------------------ MODULE RuleLease ------------------------------
(***************************************************************************)
(* The leader lease of one replication rule and the runs it admits: the    *)
(* scheduler of every node (replication/scheduler.rs), run-now requests    *)
(* and rule deletion (api/admin).  With a coordination bucket the          *)
(* scheduler's lease is one S3 object changed by conditional writes        *)
(* (coordination/s3_lease.rs), otherwise a row of the node's own SQLite    *)
(* file (config_db/job_store.rs), which run-now uses in both cases.        *)
(*                                                                         *)
(* An S3 call is a step of its own: a worker decides on what it read and   *)
(* on the clock it looked at before.  An ETag is a version number.         *)
(* The nodes have one clock, and a node's own SQLite file can be read.     *)
(***************************************************************************)
EXTENDS Integers, FiniteSets

CONSTANTS
    Nodes,       \* proxy instances
    Scheds,      \* scheduler loops, one per node
    Clicks,      \* run-now requests, one use each
    NodeOf,      \* the node of a scheduler or of a request
    Shared,      \* a coordination bucket is configured
    Ttl,         \* lease_ttl_secs
    MaxTime,     \* bound on the clock
    MaxPuts,     \* bound on the versions of the lease object
    MaxFaults,   \* bound on crashes and S3 errors
    Deletable,   \* the operator may delete the rule
    None

Workers == Scheds \cup Clicks

ASSUME RuleLeaseConstants ==
    /\ Scheds \cap Clicks = {}
    /\ NodeOf \in [Workers -> Nodes]
    /\ \A w, v \in Scheds : NodeOf[w] = NodeOf[v] => w = v
    /\ Shared \in BOOLEAN /\ Deletable \in BOOLEAN
    /\ Ttl \in Nat \ {0}
    /\ MaxTime \in Nat /\ MaxPuts \in Nat /\ MaxFaults \in Nat
    /\ None \notin Workers /\ None \notin Int

VARIABLES
    now,        \* seconds
    obj,        \* the lease object in the coordination bucket, or None
    puts,       \* versions given out
    row,        \* the lease columns of every node's rule row: [owner, expires], or None
    up,         \* the node's process is there
    running,    \* the latest run row of the node says 'running'
    exists,     \* the rule is in the node's config
    pc,         \* where the worker is
    inc,        \* process incarnation of every worker
    seen,       \* what the worker read of the lease object
    at,         \* the clock the worker decides with
    held,       \* until when the worker believes its lease to last, or None
    beat,       \* heartbeat of the worker: [ver, at] of the renewal under way, or None
    alive,      \* lease_alive
    deleting,   \* the DELETE request of the node: "no", "gated", "done"
    faults

worker == <<pc, inc, seen, at, held, beat, alive>>
vars == <<now, obj, puts, row, up, running, exists, worker, deleting, faults>>

Owner(w) == <<w, inc[w]>>
Owners == Workers \X (0..MaxFaults)
Lease == [owner: Owners, node: Nodes, epoch: Nat, expires: Int, ver: Nat]
Row == [owner: Owners, expires: Int]

ASSUME NoneIsNoLease == None \notin Lease /\ None \notin Row

Active == {"start", "running"}

TypeOK ==
    /\ now \in 0..MaxTime
    /\ obj \in Lease \cup {None}
    /\ puts \in 0..MaxPuts
    /\ row \in [Nodes -> Row \cup {None}]
    /\ up \in [Nodes -> BOOLEAN]
    /\ running \in [Nodes -> BOOLEAN]
    /\ exists \in [Nodes -> BOOLEAN]
    /\ pc \in [Workers -> {"idle", "read", "put", "gate", "local", "recheck", "start",
                           "running", "release", "delete", "done"}]
    /\ inc \in [Workers -> 0..MaxFaults]
    /\ seen \in [Workers -> Lease \cup {None}]
    /\ at \in [Workers -> 0..MaxTime]
    /\ held \in [Workers -> Int \cup {None}]
    /\ beat \in [Workers -> [ver: Nat, at: 0..MaxTime, epoch: Nat] \cup {None}]
    /\ alive \in [Workers -> BOOLEAN]
    /\ deleting \in [Nodes -> {"no", "gated", "done"}]
    /\ faults \in 0..MaxFaults

-----------------------------------------------------------------------------
(* The decisions *)

\* A lease lapses strictly after its last second.
Lapsed(l, t) == l.expires < t

\* plan_acquire: a free, lapsed or own (by node id) lease may be taken.
MayTakeOwn(l, n, t) == l = None \/ l.node = n                 \* mutant: no steal from a peer
MayTake(l, n, t) == l = None \/ Lapsed(l, t) \/ l.node = n

\* plan_renew: the same owner, and not lapsed.
MayRenew(l, o, t) == l # None /\ l.owner = o /\ ~Lapsed(l, t)

\* try_acquire_leader_lease, renew_leader_lease, lease_is_held on the node's row.
RowFreeAtInstant(n, t) == row[n] = None \/ row[n].expires <= t   \* mutant
RowFree(n, t) == row[n] = None \/ Lapsed(row[n], t)
RowRenewable(n, o, t) == row[n] # None /\ row[n].owner = o /\ ~Lapsed(row[n], t)
RowHeld(n, t) == row[n] # None /\ ~Lapsed(row[n], t)

\* Conditional write: If-None-Match:* or If-Match, by the version that was read.
MatchesAny(l) == TRUE                                         \* mutant: no precondition
Matches(l) == IF l = None THEN obj = None ELSE obj # None /\ obj.ver = l.ver

Goto(w, state) == pc' = [pc EXCEPT ![w] = state]
Write(w, epoch, expires) ==
    /\ puts < MaxPuts
    /\ puts' = puts + 1
    /\ obj' = [owner |-> Owner(w), node |-> NodeOf[w], epoch |-> epoch,
               expires |-> expires, ver |-> puts + 1]

\* Which lease the worker lives by.
OnS3(w) == Shared /\ w \in Scheds
Local(w) == ~OnS3(w)

-----------------------------------------------------------------------------

Init ==
    /\ now = 0
    /\ obj = None /\ puts = 0
    /\ row = [n \in Nodes |-> None]
    /\ up = [n \in Nodes |-> TRUE]
    /\ running = [n \in Nodes |-> FALSE]
    /\ exists = [n \in Nodes |-> TRUE]
    /\ pc = [w \in Workers |-> "idle"]
    /\ inc = [w \in Workers |-> 0]
    /\ seen = [w \in Workers |-> None]
    /\ at = [w \in Workers |-> 0]
    /\ held = [w \in Workers |-> None]
    /\ beat = [w \in Workers |-> None]
    /\ alive = [w \in Workers |-> FALSE]
    /\ deleting = [n \in Nodes |-> "no"]
    /\ faults = 0

Tick ==
    /\ now < MaxTime
    /\ now' = now + 1
    /\ UNCHANGED <<up, obj, puts, row, running, exists, worker, deleting, faults>>

\* run_due_rules finds the rule due in its copy of the config.
Due(w) ==
    /\ w \in Scheds /\ pc[w] = "idle" /\ up[NodeOf[w]] /\ exists[NodeOf[w]]
    /\ at' = [at EXCEPT ![w] = now]
    /\ Goto(w, IF OnS3(w) THEN "read" ELSE "local")
    /\ UNCHANGED <<up, now, obj, puts, row, running, exists, inc, seen, held, beat, alive,
                   deleting, faults>>

\* S3Lease::try_acquire, the read ...
ReadLease(w) ==
    /\ pc[w] = "read"
    /\ IF MayTake(obj, NodeOf[w], at[w])
         THEN seen' = [seen EXCEPT ![w] = obj] /\ Goto(w, "put")
         ELSE Goto(w, "idle") /\ UNCHANGED seen
    /\ UNCHANGED <<up, now, obj, puts, row, running, exists, inc, at, held, beat, alive,
                   deleting, faults>>

NextEpoch(l) == IF l = None THEN 1 ELSE l.epoch + 1

\* ... and the conditional write.
PutLease(w) ==
    /\ pc[w] = "put"
    /\ IF Matches(seen[w])
         THEN /\ Write(w, NextEpoch(seen[w]), at[w] + Ttl)
              /\ held' = [held EXCEPT ![w] = at[w] + Ttl]
              /\ Goto(w, "recheck")
         ELSE Goto(w, "idle") /\ UNCHANGED <<obj, puts, held>>
    /\ seen' = [seen EXCEPT ![w] = None]
    /\ UNCHANGED <<up, now, row, running, exists, inc, at, beat, alive, deleting, faults>>

\* An S3 error ends the attempt; a failed write may have been applied.
AcquireError(w) ==
    /\ pc[w] \in {"read", "put"} /\ faults < MaxFaults
    /\ faults' = faults + 1
    /\ Goto(w, "idle")
    /\ \/ UNCHANGED <<obj, puts>>
       \/ /\ pc[w] = "put" /\ Matches(seen[w])
          /\ Write(w, NextEpoch(seen[w]), at[w] + Ttl)
    /\ UNCHANGED <<up, now, row, running, exists, inc, seen, at, held, beat, alive, deleting>>

\* run_now: the request, then the liveness gate on the active lease.
Click(w) ==
    /\ w \in Clicks /\ pc[w] = "idle" /\ up[NodeOf[w]] /\ exists[NodeOf[w]]
    /\ at' = [at EXCEPT ![w] = now]
    /\ Goto(w, "gate")
    /\ UNCHANGED <<up, now, obj, puts, row, running, exists, inc, seen, held, beat, alive,
                   deleting, faults>>

\* CoordinationLease::is_held of the lease the schedulers use.
IsHeld(n, t) == IF Shared THEN obj # None /\ ~Lapsed(obj, t) ELSE RowHeld(n, t)

Gate(w) ==
    /\ pc[w] = "gate"
    /\ Goto(w, IF IsHeld(NodeOf[w], at[w]) THEN "done" ELSE "local")
    /\ UNCHANGED <<up, now, obj, puts, row, running, exists, inc, seen, at, held, beat, alive,
                   deleting, faults>>

\* unwrap_or(false): a gate that cannot be read is open.
GateError(w) ==
    /\ pc[w] = "gate" /\ Shared /\ faults < MaxFaults
    /\ faults' = faults + 1
    /\ Goto(w, "local")
    /\ UNCHANGED <<up, now, obj, puts, row, running, exists, inc, seen, at, held, beat, alive,
                   deleting>>

\* LocalLease::try_acquire, and run_now's own acquire under the DB lock.
AcquireRow(w) ==
    /\ pc[w] = "local"
    /\ LET t == IF w \in Clicks THEN now ELSE at[w]
           n == NodeOf[w]
       IN  IF RowFree(n, t)
             THEN /\ row' = [row EXCEPT ![n] = [owner |-> Owner(w), expires |-> t + Ttl]]
                  /\ held' = [held EXCEPT ![w] = t + Ttl]
                  /\ Goto(w, "recheck")
             ELSE /\ Goto(w, IF w \in Clicks THEN "done" ELSE "idle")
                  /\ UNCHANGED <<row, held>>
    /\ UNCHANGED <<up, now, obj, puts, running, exists, inc, seen, at, beat, alive, deleting,
                   faults>>

\* After the acquire: is the rule still there, and (scheduler) is the
\* destination free of maintenance?
Recheck(w) ==
    /\ pc[w] = "recheck"
    /\ \/ exists[NodeOf[w]] /\ Goto(w, "start") /\ UNCHANGED held
       \/ /\ ~exists[NodeOf[w]] \/ w \in Scheds
          /\ Goto(w, "release")
          /\ held' = [held EXCEPT ![w] = None]
    /\ UNCHANGED <<up, now, obj, puts, row, running, exists, inc, seen, at, beat, alive, deleting,
                   faults>>

\* run_rule: begin_run, then the heartbeat task.
BeginRun(w) ==
    /\ pc[w] = "start"
    /\ running' = [running EXCEPT ![NodeOf[w]] = TRUE]
    /\ alive' = [alive EXCEPT ![w] = TRUE]
    /\ Goto(w, "running")
    /\ UNCHANGED <<up, now, obj, puts, row, exists, inc, seen, at, held, beat, deleting, faults>>

\* Heartbeat or page check on the node's row.
RenewRow(w) ==
    /\ pc[w] = "running" /\ Local(w) /\ alive[w]
    /\ LET n == NodeOf[w]
       IN  IF RowRenewable(n, Owner(w), now)
             THEN /\ row' = [row EXCEPT ![n].expires = now + Ttl]
                  /\ held' = [held EXCEPT ![w] = now + Ttl]
                  /\ UNCHANGED alive
             ELSE alive' = [alive EXCEPT ![w] = FALSE] /\ UNCHANGED <<row, held>>
    /\ UNCHANGED <<up, now, obj, puts, running, exists, pc, inc, seen, at, beat, deleting, faults>>

\* S3Lease::renew, the read ...
BeatRead(w) ==
    /\ pc[w] = "running" /\ OnS3(w) /\ alive[w] /\ beat[w] = None
    /\ IF MayRenew(obj, Owner(w), now)
         THEN /\ beat' = [beat EXCEPT ![w] = [ver |-> obj.ver, at |-> now, epoch |-> obj.epoch]]
              /\ UNCHANGED alive
         ELSE alive' = [alive EXCEPT ![w] = FALSE] /\ UNCHANGED beat
    /\ UNCHANGED <<up, now, obj, puts, row, running, exists, pc, inc, seen, at, held, deleting,
                   faults>>

\* ... and the conditional write, which may land after the run has ended.
BeatPut(w) ==
    /\ beat[w] # None
    /\ IF obj # None /\ obj.ver = beat[w].ver
         THEN /\ Write(w, beat[w].epoch, beat[w].at + Ttl)
              /\ held' = IF pc[w] = "running"
                           THEN [held EXCEPT ![w] = beat[w].at + Ttl] ELSE held
         ELSE UNCHANGED <<obj, puts, held>>
    /\ beat' = [beat EXCEPT ![w] = None]
    /\ UNCHANGED <<up, now, row, running, exists, pc, inc, seen, at, alive, deleting, faults>>

\* The retries of renew are exhausted, or the DB lock is not to be had.
BeatError(w) ==
    /\ pc[w] = "running" /\ alive[w] /\ faults < MaxFaults
    /\ faults' = faults + 1
    /\ alive' = [alive EXCEPT ![w] = FALSE]
    /\ UNCHANGED <<up, now, obj, puts, row, running, exists, pc, inc, seen, at, held, beat,
                   deleting>>

\* The run settles: done, killed, paused, or its lease is lost.
EndRun(w) ==
    /\ pc[w] = "running"
    /\ running' = [running EXCEPT ![NodeOf[w]] = FALSE]
    /\ alive' = [alive EXCEPT ![w] = FALSE]
    /\ held' = [held EXCEPT ![w] = None]
    /\ Goto(w, "release")
    /\ UNCHANGED <<up, now, obj, puts, row, exists, inc, seen, at, beat, deleting, faults>>

Rest(w) == IF w \in Scheds THEN "idle" ELSE "done"

\* release, owner-scoped: on the row at once, on S3 a read and a delete If-Match.
Release(w) ==
    /\ pc[w] = "release"
    /\ LET n == NodeOf[w]
       IN  IF Local(w)
             THEN /\ row' = IF row[n] # None /\ row[n].owner = Owner(w)
                              THEN [row EXCEPT ![n] = None] ELSE row
                  /\ Goto(w, Rest(w))
                  /\ UNCHANGED seen
             ELSE /\ IF obj # None /\ obj.owner = Owner(w)
                       THEN seen' = [seen EXCEPT ![w] = obj] /\ Goto(w, "delete")
                       ELSE Goto(w, "idle") /\ UNCHANGED seen
                  /\ UNCHANGED row
    /\ UNCHANGED <<up, now, obj, puts, running, exists, inc, at, held, beat, alive, deleting,
                   faults>>

DeleteLease(w) ==
    /\ pc[w] = "delete"
    /\ obj' = IF Matches(seen[w]) THEN None ELSE obj
    /\ Goto(w, "idle")
    /\ seen' = [seen EXCEPT ![w] = None]
    /\ UNCHANGED <<up, now, puts, row, running, exists, inc, at, held, beat, alive, deleting,
                   faults>>

-----------------------------------------------------------------------------
(* Rule deletion: a gate on the active lease, then one critical section. *)

\* unwrap_or(false): an S3 lease that cannot be read does not stop the deletion.
DeleteGate(n) ==
    /\ Deletable /\ up[n] /\ deleting[n] = "no" /\ exists[n]
    /\ \/ ~IsHeld(n, now) /\ UNCHANGED faults
       \/ Shared /\ faults < MaxFaults /\ faults' = faults + 1
    /\ deleting' = [deleting EXCEPT ![n] = "gated"]
    /\ UNCHANGED <<now, obj, puts, row, up, running, exists, worker>>

\* Refused while the node has a live run row or a lease, and rolled back when the
\* config cannot be saved; else the rule and its rows go.
DeleteRule(n) ==
    /\ deleting[n] = "gated"
    /\ \/ /\ deleting' = [deleting EXCEPT ![n] = "no"]
          /\ UNCHANGED <<row, exists>>
       \/ /\ ~running[n] /\ ~RowHeld(n, now)
          /\ deleting' = [deleting EXCEPT ![n] = "done"]
          /\ exists' = [exists EXCEPT ![n] = FALSE]
          /\ row' = [row EXCEPT ![n] = None]
    /\ UNCHANGED <<now, obj, puts, up, running, worker, faults>>

\* The process dies with its tasks; its database stays as it is.
Crash(n) ==
    /\ up[n] /\ faults < MaxFaults
    /\ faults' = faults + 1
    /\ up' = [up EXCEPT ![n] = FALSE]
    /\ LET dead == {w \in Workers : NodeOf[w] = n /\ pc[w] \notin {"done"}}
       IN  /\ pc' = [w \in Workers |-> IF w \in dead /\ pc[w] # "idle" THEN Rest(w) ELSE pc[w]]
           /\ inc' = [w \in Workers |-> IF w \in dead THEN inc[w] + 1 ELSE inc[w]]
           /\ held' = [w \in Workers |-> IF w \in dead THEN None ELSE held[w]]
           /\ beat' = [w \in Workers |-> IF w \in dead THEN None ELSE beat[w]]
           /\ alive' = [w \in Workers |-> IF w \in dead THEN FALSE ELSE alive[w]]
    /\ deleting' = [deleting EXCEPT ![n] = IF deleting[n] = "gated" THEN "no" ELSE deleting[n]]
    /\ UNCHANGED <<now, obj, puts, row, running, exists, seen, at>>

\* It may be started again, with a new instance id: its row lapses
\* (lapse_all_leases) and its run rows are failed.
Boot(n) ==
    /\ ~up[n]
    /\ up' = [up EXCEPT ![n] = TRUE]
    /\ row' = IF row[n] # None THEN [row EXCEPT ![n].expires = -1] ELSE row
    /\ running' = [running EXCEPT ![n] = FALSE]
    /\ UNCHANGED <<now, obj, puts, exists, worker, deleting, faults>>

-----------------------------------------------------------------------------

Step(w) ==
    \/ Due(w) \/ ReadLease(w) \/ PutLease(w) \/ Click(w) \/ Gate(w) \/ AcquireRow(w)
    \/ Recheck(w) \/ BeginRun(w) \/ EndRun(w) \/ Release(w) \/ DeleteLease(w)

Beat(w) == RenewRow(w) \/ BeatRead(w) \/ BeatPut(w)

Next ==
    \/ Tick
    \/ \E w \in Workers : Step(w) \/ Beat(w) \/ AcquireError(w) \/ GateError(w) \/ BeatError(w)
    \/ \E n \in Nodes : DeleteGate(n) \/ DeleteRule(n) \/ Crash(n) \/ Boot(n)

Spec == Init /\ [][Next]_vars

\* Time passes and the scheduler loop of a node goes on ticking while the node is up;
\* nobody has to start a dead node again.
Fairness == WF_vars(Tick) /\ \A w \in Scheds : WF_vars(Step(w))
FairSpec == Spec /\ Fairness

-----------------------------------------------------------------------------
(* Properties *)

\* The schedulers of all nodes live by one lease when a bucket is configured; the
\* other workers by the row of their node.
SameLease(w, v) == OnS3(w) = OnS3(v) /\ (Local(w) => NodeOf[w] = NodeOf[v])

\* Two workers that live by one lease run the rule at once only when one of them
\* has outlived it and has not noticed yet.
ExclusiveLease ==
    \A w, v \in Workers :
        w # v /\ SameLease(w, v) /\ pc[w] \in Active /\ pc[v] \in Active
            => held[w] < now \/ held[v] < now

\* Two workers, whatever lease they live by, run the rule at once only when one of them has outlived its lease
\* and has not noticed yet.
ExclusiveRun ==
    \A w, v \in Workers :
        w # v /\ pc[w] \in Active /\ pc[v] \in Active => held[w] < now \/ held[v] < now

\* A running worker whose lease has not lapsed is the owner on record, so peers
\* and the boot of another node leave it alone and its own release finds it.
HolderOnRecord ==
    \A w \in Workers : pc[w] \in Active /\ held[w] >= now =>
        IF OnS3(w) THEN obj # None /\ obj.owner = Owner(w) /\ obj.expires >= held[w]
                   ELSE row[NodeOf[w]] # None /\ row[NodeOf[w]].owner = Owner(w)

\* A rule is not deleted on a node under a run that holds the node's own lease.
LocalNotDeleted ==
    \A w \in Workers : Local(w) /\ pc[w] \in Active /\ held[w] >= now => exists[NodeOf[w]]

\* Two workers that live by one lease run the rule at once only when one has outlived it
\* and has not noticed, a running worker whose lease has not lapsed is its owner on record,
\* and a rule is not deleted on a node under a run that holds the node's lease.
LeaseSound == ExclusiveLease /\ HolderOnRecord /\ LocalNotDeleted

\* A rule is not deleted under any run that holds its lease.
DeletedNotRunning ==
    \A w \in Workers : pc[w] \in Active /\ held[w] >= now => exists[NodeOf[w]]

\* A run-now whose look at the lease fails is refused: the caller of is_held
\* treats an error conservatively.
GateConservative ==
    [][\A w \in Clicks : pc[w] = "gate" /\ pc'[w] = "local" => ~IsHeld(NodeOf[w], at[w])]_vars

\* Failover: a lapsed lease object nobody lives by, because its holder died or because
\* the attempt that wrote it was told the write had failed, is taken by some scheduler,
\* of a peer when its own node stays dead (edge case E1).
LeftBehind ==
    /\ obj # None /\ Lapsed(obj, now) /\ puts < MaxPuts
    /\ \A w \in Scheds : Owner(w) = obj.owner => pc[w] \in {"idle", "read", "put"}
    /\ \E w \in Scheds : up[NodeOf[w]]
LeaseFailover == LeftBehind ~> ~LeftBehind
=============================================================================
