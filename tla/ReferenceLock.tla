---------------------------- MODULE ReferenceLock ----------------------------
(***************************************************************************)
(* The cross-instance, per-deltaspace mutex of coordination/               *)
(* reference_lock.rs: one lock object in a coordination bucket with        *)
(* conditional writes, a TTL as the crash backstop, and the in-process     *)
(* prefix mutex of the engine outside it.                                  *)
(*                                                                         *)
(* An owner token is fresh for every acquisition, so a token stands for    *)
(* one acquisition by one request on one node.  An ETag is a digest of the *)
(* body, so the body itself is used as the ETag.                           *)
(*                                                                         *)
(* One engine per node: the prefix mutexes belong to an engine, and a hot  *)
(* apply that rebuilds the engine while requests of the old one are still  *)
(* under way gives the node a second set of them with the same node_id,    *)
(* whose self-reclaim takes the lock of a request that is alive.  No       *)
(* engine is replaced in this model.                                       *)
(***************************************************************************)
EXTENDS Integers

CONSTANTS
    Nodes,     \* the proxy instances (durable node_id)
    Owners,    \* acquisition tokens, used once each
    NodeOf,    \* the node whose request uses the token
    Ttl,       \* ttl_secs
    Timeout,   \* acquire_timeout
    MaxSkew,   \* how far a node's clock may run ahead of the slowest one
    MaxTime,   \* bound on the clock
    MaxEpoch,  \* u64::MAX, where saturating_add stops
    NoLock     \* "no lock object" (a 404, or a body that does not parse)

\* One acquisition on a node of its own and the others together on another, so that a steal, a
\* self-reclaim and a race of two creators all happen: a value of NodeOf for model checking.
OneApart ==
    LET one == CHOOSE o \in Owners : TRUE
        home == CHOOSE n \in Nodes : TRUE
    IN  [o \in Owners |-> IF o = one THEN home ELSE CHOOSE n \in Nodes : n # home]

RefLock == [owner: Owners, node_id: Nodes, epoch: 1..MaxEpoch, expires_at: Nat]

ASSUME LockConstants ==
    /\ NodeOf \in [Owners -> Nodes]
    /\ Ttl \in Nat \ {0}
    /\ Timeout \in Nat
    /\ MaxSkew \in Nat
    /\ MaxTime \in Nat
    /\ MaxEpoch \in Nat \ {0}
    /\ NoLock \notin RefLock

VARIABLES
    obj,       \* the lock object in the coordination bucket
    now,       \* real time
    skew,      \* clock offset of every node, fixed
    pc,        \* control state of every acquisition
    snap,      \* what the acquisition last read (its body is its ETag)
    seen,      \* the `now` the attempt was started with, on the node's clock
    deadline,  \* when acquire_blocking gives up (monotonic clock)
    wrote      \* the expires_at of the body the acquisition wrote

vars == <<obj, now, skew, pc, snap, seen, deadline, wrote>>

\* States of an acquisition that hold the node's in-process prefix mutex.
InPrefixLock == {"read", "put", "poll", "held"}

States == InPrefixLock \cup {"idle", "failed", "rel_read", "rel_delete", "done",
                             "dead", "ghost"}

TypeOK ==
    /\ obj \in RefLock \cup {NoLock}
    /\ now \in 0..MaxTime
    /\ skew \in [Nodes -> 0..MaxSkew]
    /\ pc \in [Owners -> States]
    /\ snap \in [Owners -> RefLock \cup {NoLock}]
    /\ seen \in [Owners -> Nat]
    /\ deadline \in [Owners -> Nat]
    /\ wrote \in [Owners -> Nat]

Clock(o) == now + skew[NodeOf[o]]

Goto(o, state) == pc' = [pc EXCEPT ![o] = state]

-----------------------------------------------------------------------------
(* plan_lock_acquire *)

\* Mutant: the expiry instant itself counts as expired.
ExpiredAtInstant(lock, time) == lock.expires_at <= time

Expired(lock, time) == lock.expires_at < time

\* LockAction::Create and LockAction::Steal; anything else is Blocked.
Create(lock) == lock = NoLock

Steal(lock, time, node) ==
    lock # NoLock /\ (Expired(lock, time) \/ lock.node_id = node)

\* saturating_add(1)
NextEpoch(lock) == IF lock.epoch < MaxEpoch THEN lock.epoch + 1 ELSE MaxEpoch

\* body_for: the body this attempt would write.
Body(o) == [owner |-> o, node_id |-> NodeOf[o],
            epoch |-> IF Create(snap[o]) THEN 1 ELSE NextEpoch(snap[o]),
            expires_at |-> seen[o] + Ttl]

-----------------------------------------------------------------------------

Init ==
    /\ obj = NoLock
    /\ now = 0
    /\ skew \in [Nodes -> 0..MaxSkew]
    /\ pc = [o \in Owners |-> "idle"]
    /\ snap = [o \in Owners |-> NoLock]
    /\ seen = [o \in Owners |-> 0]
    /\ deadline = [o \in Owners |-> 0]
    /\ wrote = [o \in Owners |-> 0]

\* acquire_prefix_lock, then acquire_reference_lock up to the first attempt.
Begin(o) ==
    /\ pc[o] = "idle"
    /\ \A p \in Owners : NodeOf[p] = NodeOf[o] => pc[p] \notin InPrefixLock
    /\ now + Timeout <= MaxTime          \* bound: the deadline stays in reach
    /\ Goto(o, "read")
    /\ deadline' = [deadline EXCEPT ![o] = now + Timeout]
    /\ seen' = [seen EXCEPT ![o] = Clock(o)]
    /\ UNCHANGED <<obj, now, skew, snap, wrote>>

\* try_acquire, first half: read_lock.  A live foreign lock blocks the attempt.
ReadLock(o) ==
    /\ pc[o] = "read"
    /\ snap' = [snap EXCEPT ![o] = obj]
    /\ Goto(o, IF Create(obj) \/ Steal(obj, seen[o], NodeOf[o])
                 THEN "put" ELSE "poll")
    /\ UNCHANGED <<obj, now, skew, seen, deadline, wrote>>

\* try_acquire, second half: put_lock with If-None-Match:* or If-Match(etag).
\* Both preconditions say that the object is still what was read.
PutLock(o) ==
    /\ pc[o] = "put"
    /\ IF obj = snap[o]
         THEN /\ obj' = Body(o)
              /\ wrote' = [wrote EXCEPT ![o] = Body(o).expires_at]
              /\ Goto(o, "held")
         ELSE /\ Goto(o, "poll")
              /\ UNCHANGED <<obj, wrote>>
    /\ UNCHANGED <<now, skew, snap, seen, deadline>>

\* Mutant: no deadline.
PollForever(o) ==
    /\ pc[o] = "poll"
    /\ Goto(o, "read")
    /\ seen' = [seen EXCEPT ![o] = Clock(o)]
    /\ UNCHANGED <<obj, now, skew, snap, deadline, wrote>>

\* acquire_blocking: the deadline is looked at after a failed attempt only.
Poll(o) ==
    /\ pc[o] = "poll"
    /\ IF now >= deadline[o]
         THEN /\ Goto(o, "failed")
              /\ UNCHANGED seen
         ELSE /\ Goto(o, "read")
              /\ seen' = [seen EXCEPT ![o] = Clock(o)]
    /\ UNCHANGED <<obj, now, skew, snap, deadline, wrote>>

\* A transport error of the read or of the PUT fails the write closed.  The
\* PUT may have been applied although its answer was lost.
IoError(o) ==
    /\ pc[o] \in {"read", "put"}
    /\ Goto(o, "failed")
    /\ \/ UNCHANGED obj
       \/ /\ pc[o] = "put"
          /\ obj = snap[o]
          /\ obj' = Body(o)
    /\ UNCHANGED <<now, skew, snap, seen, deadline, wrote>>

\* The critical section ends: the guard's Drop spawns the release, and the
\* prefix mutex is free at once.
DropGuard(o) ==
    /\ pc[o] = "held"
    /\ Goto(o, "rel_read")
    /\ UNCHANGED <<obj, now, skew, snap, seen, deadline, wrote>>

\* release, first half: read, and stop unless the body is still ours.
ReleaseRead(o) ==
    /\ pc[o] = "rel_read"
    /\ snap' = [snap EXCEPT ![o] = obj]
    /\ Goto(o, IF obj # NoLock /\ obj.owner = o THEN "rel_delete" ELSE "done")
    /\ UNCHANGED <<obj, now, skew, seen, deadline, wrote>>

\* Mutant: delete without If-Match.
ReleaseDeleteBlind(o) ==
    /\ pc[o] = "rel_delete"
    /\ obj' = NoLock
    /\ Goto(o, "done")
    /\ UNCHANGED <<now, skew, snap, seen, deadline, wrote>>

\* release, second half: delete If-Match(etag).  The result is ignored, so a
\* transport error that did not delete (the second disjunct) looks the same.
ReleaseDelete(o) ==
    /\ pc[o] = "rel_delete"
    /\ \/ obj' = IF obj = snap[o] THEN NoLock ELSE obj
       \/ obj' = obj
    /\ Goto(o, "done")
    /\ UNCHANGED <<now, skew, snap, seen, deadline, wrote>>

\* The process of node n dies.  A PUT or a delete it had sent may still arrive.
Running == {"read", "put", "poll", "held", "rel_read"}

Crash(n) ==
    /\ \E o \in Owners : NodeOf[o] = n /\ pc[o] \in Running
    /\ pc' = [o \in Owners |->
                IF NodeOf[o] # n \/ pc[o] \notin Running THEN pc[o]
                ELSE IF pc[o] = "put" THEN "ghost" ELSE "dead"]
    /\ UNCHANGED <<obj, now, skew, snap, seen, deadline, wrote>>

\* The PUT of a dead process arrives, or is lost.
GhostPut(o) ==
    /\ pc[o] = "ghost"
    /\ \/ obj' = IF obj = snap[o] THEN Body(o) ELSE obj
       \/ obj' = obj
    /\ Goto(o, "dead")
    /\ UNCHANGED <<now, skew, snap, seen, deadline, wrote>>

Tick ==
    /\ now < MaxTime
    /\ now' = now + 1
    /\ UNCHANGED <<obj, skew, pc, snap, seen, deadline, wrote>>

\* Steps of the request's own control flow.
Work(o) == Begin(o) \/ ReadLock(o) \/ PutLock(o) \/ Poll(o) \/ DropGuard(o)
           \/ ReleaseRead(o) \/ ReleaseDelete(o)

Next ==
    \/ \E o \in Owners :
          \/ Begin(o) \/ ReadLock(o) \/ PutLock(o) \/ Poll(o) \/ IoError(o)
          \/ DropGuard(o) \/ ReleaseRead(o) \/ ReleaseDelete(o) \/ GhostPut(o)
    \/ \E n \in Nodes : Crash(n)
    \/ Tick

\* tokio keeps polling every live request, and time passes.
Fairness == /\ \A o \in Owners : WF_vars(Work(o))
            /\ WF_vars(Tick)

Spec == Init /\ [][Next]_vars /\ Fairness

-----------------------------------------------------------------------------
(* Properties *)

\* Live(o): the lock of o has not lapsed on any node's clock.
Live(o) == now + MaxSkew <= wrote[o]

Held(o) == pc[o] = "held"

\* Two requests are in the reference critical section at once only if one of
\* them has outlived its TTL (as the fastest clock sees it): create-if-absent,
\* steal-if-expired, self-reclaim, lost answers and late PUTs included.
ExclusiveWithinTtl ==
    \A a, b \in Owners :
        a # b /\ Held(a) /\ Held(b) => ~Live(a) \/ ~Live(b)

\* The inductive core: while o holds a live lock, the object is exactly the
\* body o wrote.
HolderOwnsObject ==
    \A o \in Owners :
        Held(o) /\ Live(o) =>
            obj # NoLock /\ obj.owner = o /\ obj.expires_at = wrote[o]

\* A release never removes the lock of another acquisition, whatever was
\* stolen between its read and its delete (reference_lock.rs release).
ReleaseIsOwnerScoped ==
    [][\A o \in Owners : obj # NoLock /\ obj' = NoLock /\ obj.owner = o
            => pc[o] = "rel_delete"]_vars

\* acquire_blocking returns: it holds the lock or fails by its deadline, even
\* when the holder died with the lock.
AcquireTerminates ==
    \A o \in Owners : (pc[o] \in {"read", "put", "poll"})
        ~> (pc[o] \notin {"read", "put", "poll"})
=============================================================================
