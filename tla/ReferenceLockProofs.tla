------------------------- MODULE ReferenceLockProofs -------------------------
(***************************************************************************)
(* Mutual exclusion of the cross-instance reference lock for any number of *)
(* nodes and acquisitions, any TTL and any bound on clock skew.            *)
(***************************************************************************)
EXTENDS ReferenceLock, TLAPS

-----------------------------------------------------------------------------
(* The inductive invariant *)

\* States after the acquisition wrote a body, other than holding the lock.
Spent == {"failed", "rel_read", "rel_delete", "done", "dead"}

\* The in-process mutex: one request per node between Begin and DropGuard.
PrefixExclusive ==
    \A a, b \in Owners :
        a # b /\ NodeOf[a] = NodeOf[b] /\ pc[a] \in InPrefixLock
            => pc[b] \notin InPrefixLock

\* A body in the bucket, or in a reader's hands, was written by its owner.
Written(lock) ==
    lock # NoLock => /\ lock.node_id = NodeOf[lock.owner]
                     /\ pc[lock.owner] \in Spent \cup {"held"}

BodiesWritten == Written(obj) /\ \A o \in Owners : Written(snap[o])

\* A pending PUT was planned on a lock that had lapsed on the planner's clock,
\* or on one left by an acquisition of its own node that is over.
PlanJustified ==
    \A o \in Owners :
        pc[o] \in {"put", "ghost"} /\ snap[o] # NoLock =>
            \/ snap[o].expires_at < seen[o]
            \/ pc[snap[o].owner] \in Spent

\* An attempt's clock reading lies in the past of the fastest clock.
SeenInPast == \A o \in Owners : seen[o] <= now + MaxSkew

\* A pending delete is for the body of the releasing acquisition itself.
DeletesOwnBody ==
    \A o \in Owners :
        pc[o] = "rel_delete" => snap[o] # NoLock /\ snap[o].owner = o

IInv == /\ TypeOK
        /\ PrefixExclusive
        /\ BodiesWritten
        /\ PlanJustified
        /\ SeenInPast
        /\ DeletesOwnBody
        /\ HolderOwnsObject

-----------------------------------------------------------------------------

\* What body_for builds is a lock body.
LEMMA BodyType ==
    ASSUME TypeOK, NEW o \in Owners
    PROVE  /\ Body(o) \in RefLock
           /\ Body(o) # NoLock
           /\ Body(o).owner = o
           /\ Body(o).node_id = NodeOf[o]
           /\ Body(o).expires_at = seen[o] + Ttl
  <1>1. (IF Create(snap[o]) THEN 1 ELSE NextEpoch(snap[o])) \in 1..MaxEpoch
    <2>1. CASE snap[o] = NoLock
      BY <2>1, LockConstants DEF Create
    <2>2. CASE snap[o] # NoLock
      <3>1. snap[o] \in RefLock
        BY <2>2 DEF TypeOK
      <3>2. snap[o].epoch \in 1..MaxEpoch
        BY <3>1 DEF RefLock
      <3> QED BY <2>2, <3>2, LockConstants DEF Create, NextEpoch
    <2> QED BY <2>1, <2>2
  <1>2. seen[o] + Ttl \in Nat
    BY LockConstants DEF TypeOK
  <1>3. NodeOf[o] \in Nodes
    BY LockConstants
  <1>4. Body(o) \in RefLock
    BY <1>1, <1>2, <1>3 DEF Body, RefLock
  <1> QED BY <1>4, LockConstants DEF Body

\* The type invariant is inductive.
LEMMA TypeStep ==
    ASSUME TypeOK, [Next]_vars
    PROVE  TypeOK'
  <1> USE LockConstants DEF TypeOK
  <1>1. ASSUME NEW o \in Owners, Begin(o) PROVE TypeOK'
    <2>1. Clock(o) \in Nat
      BY DEF Clock
    <2> QED BY <1>1, <2>1 DEF Begin, Goto, States, InPrefixLock
  <1>2. ASSUME NEW o \in Owners, ReadLock(o) PROVE TypeOK'
    BY <1>2 DEF ReadLock, Goto, States, InPrefixLock
  <1>3. ASSUME NEW o \in Owners, PutLock(o) PROVE TypeOK'
    <2>1. CASE obj = snap[o]
      <3>1. obj' \in RefLock
        BY <1>3, <2>1, BodyType DEF PutLock
      <3>2. wrote' \in [Owners -> Nat]
        BY <1>3, <2>1, BodyType DEF PutLock
      <3>3. pc' \in [Owners -> States]
        BY <1>3, <2>1 DEF PutLock, Goto, States, InPrefixLock
      <3> QED BY <1>3, <3>1, <3>2, <3>3 DEF PutLock
    <2>2. CASE obj # snap[o]
      BY <1>3, <2>2 DEF PutLock, Goto, States, InPrefixLock
    <2> QED BY <2>1, <2>2
  <1>4. ASSUME NEW o \in Owners, Poll(o) PROVE TypeOK'
    <2>1. Clock(o) \in Nat
      BY DEF Clock
    <2> QED BY <1>4, <2>1 DEF Poll, Goto, States, InPrefixLock
  <1>5. ASSUME NEW o \in Owners, IoError(o) PROVE TypeOK'
    <2>1. obj' \in RefLock \cup {NoLock}
      BY <1>5, BodyType DEF IoError
    <2> QED BY <1>5, <2>1 DEF IoError, Goto, States, InPrefixLock
  <1>6. ASSUME NEW o \in Owners, DropGuard(o) PROVE TypeOK'
    BY <1>6 DEF DropGuard, Goto, States, InPrefixLock
  <1>7. ASSUME NEW o \in Owners, ReleaseRead(o) PROVE TypeOK'
    BY <1>7 DEF ReleaseRead, Goto, States, InPrefixLock
  <1>8. ASSUME NEW o \in Owners, ReleaseDelete(o) PROVE TypeOK'
    BY <1>8 DEF ReleaseDelete, Goto, States, InPrefixLock
  <1>9. ASSUME NEW o \in Owners, GhostPut(o) PROVE TypeOK'
    <2>1. obj' \in RefLock \cup {NoLock}
      BY <1>9, BodyType DEF GhostPut
    <2> QED BY <1>9, <2>1 DEF GhostPut, Goto, States, InPrefixLock
  <1>10. ASSUME NEW n \in Nodes, Crash(n) PROVE TypeOK'
    BY <1>10 DEF Crash, States, InPrefixLock, Running
  <1>11. CASE Tick
    BY <1>11 DEF Tick
  <1>12. CASE UNCHANGED vars
    BY <1>12 DEF vars
  <1> QED BY <1>1, <1>2, <1>3, <1>4, <1>5, <1>6, <1>7, <1>8, <1>9, <1>10,
             <1>11, <1>12 DEF Next

\* Every step keeps an acquisition that is over, over.
LEMMA SpentStep ==
    ASSUME TypeOK, [Next]_vars, NEW o \in Owners, pc[o] \in Spent
    PROVE  pc'[o] \in Spent
  BY DEF TypeOK, Next, vars, Begin, ReadLock, PutLock, Poll, IoError, DropGuard,
         ReleaseRead, ReleaseDelete, GhostPut, Crash, Running, Tick, Goto, Spent

\* An acquisition that wrote a body stays so.
LEMMA WrittenStep ==
    ASSUME TypeOK, [Next]_vars, NEW o \in Owners, pc[o] \in Spent \cup {"held"}
    PROVE  pc'[o] \in Spent \cup {"held"}
  BY DEF TypeOK, Next, vars, Begin, ReadLock, PutLock, Poll, IoError, DropGuard,
         ReleaseRead, ReleaseDelete, GhostPut, Crash, Running, Tick, Goto, Spent

\* The prefix mutex is exclusive in every step.
LEMMA PrefixStep ==
    ASSUME TypeOK, PrefixExclusive, [Next]_vars
    PROVE  PrefixExclusive'
  <1> USE DEF TypeOK, PrefixExclusive, InPrefixLock
  <1>1. ASSUME NEW o \in Owners, Begin(o) PROVE PrefixExclusive'
    BY <1>1 DEF Begin, Goto
  <1>2. ASSUME NEW o \in Owners,
               ReadLock(o) \/ PutLock(o) \/ Poll(o) \/ IoError(o) \/ DropGuard(o)
        PROVE PrefixExclusive'
    BY <1>2 DEF ReadLock, PutLock, Poll, IoError, DropGuard, Goto
  <1>3. ASSUME NEW o \in Owners, ReleaseRead(o) \/ ReleaseDelete(o) \/ GhostPut(o)
        PROVE PrefixExclusive'
    BY <1>3 DEF ReleaseRead, ReleaseDelete, GhostPut, Goto
  <1>4. ASSUME NEW n \in Nodes, Crash(n) PROVE PrefixExclusive'
    BY <1>4 DEF Crash, Running
  <1>5. CASE Tick \/ UNCHANGED vars
    BY <1>5 DEF Tick, vars
  <1> QED BY <1>1, <1>2, <1>3, <1>4, <1>5 DEF Next

\* A step leaves the object, or removes it, or writes the body of an
\* acquisition whose read is still current; a delete is the owner's own.
LEMMA ObjStep ==
    ASSUME TypeOK, DeletesOwnBody, [Next]_vars
    PROVE  \/ obj' = obj
           \/ /\ obj' = NoLock
              /\ obj # NoLock
              /\ pc[obj.owner] = "rel_delete"
           \/ \E o \in Owners : /\ pc[o] \in {"put", "ghost"}
                                /\ obj = snap[o]
                                /\ obj' = Body(o)
                                /\ pc'[o] \in Spent \cup {"held"}
  <1> USE DEF TypeOK, DeletesOwnBody
  <1>1. ASSUME NEW o \in Owners,
               Begin(o) \/ ReadLock(o) \/ Poll(o) \/ DropGuard(o) \/ ReleaseRead(o)
        PROVE obj' = obj
    BY <1>1 DEF Begin, ReadLock, Poll, DropGuard, ReleaseRead
  <1>2. ASSUME NEW o \in Owners, PutLock(o), obj' # obj
        PROVE /\ pc[o] = "put"
              /\ obj = snap[o]
              /\ obj' = Body(o)
              /\ pc'[o] = "held"
    BY <1>2 DEF PutLock, Goto
  <1>3. ASSUME NEW o \in Owners, IoError(o), obj' # obj
        PROVE /\ pc[o] = "put"
              /\ obj = snap[o]
              /\ obj' = Body(o)
              /\ pc'[o] = "failed"
    BY <1>3 DEF IoError, Goto
  <1>4. ASSUME NEW o \in Owners, GhostPut(o), obj' # obj
        PROVE /\ pc[o] = "ghost"
              /\ obj = snap[o]
              /\ obj' = Body(o)
              /\ pc'[o] = "dead"
    BY <1>4 DEF GhostPut, Goto
  <1>5. ASSUME NEW o \in Owners, ReleaseDelete(o), obj' # obj
        PROVE obj' = NoLock /\ obj # NoLock /\ pc[obj.owner] = "rel_delete"
    BY <1>5 DEF ReleaseDelete
  <1>6. ASSUME NEW n \in Nodes, Crash(n) PROVE obj' = obj
    BY <1>6 DEF Crash
  <1>7. CASE Tick \/ UNCHANGED vars
    BY <1>7 DEF Tick, vars
  <1> QED BY <1>1, <1>2, <1>3, <1>4, <1>5, <1>6, <1>7 DEF Next, Spent

\* A read takes its snapshot from the object; nothing else changes one.
LEMMA SnapStep ==
    ASSUME TypeOK, [Next]_vars, NEW o \in Owners
    PROVE  snap'[o] = snap[o] \/ snap'[o] = obj
  BY DEF TypeOK, Next, vars, Begin, ReadLock, PutLock, Poll, IoError, DropGuard,
         ReleaseRead, ReleaseDelete, GhostPut, Crash, Running, Tick, Goto

\* Bodies stay attributable to the acquisition that wrote them.
LEMMA BodiesStep ==
    ASSUME TypeOK, DeletesOwnBody, BodiesWritten, [Next]_vars
    PROVE  BodiesWritten'
  <1>1. ASSUME NEW lock \in RefLock \cup {NoLock}, Written(lock)
        PROVE  Written(lock)'
    <2>1. CASE lock = NoLock
      BY <2>1 DEF Written
    <2>2. CASE lock # NoLock
      <3>1. lock.owner \in Owners
        BY <2>2 DEF RefLock
      <3> QED BY <1>1, <2>2, <3>1, WrittenStep DEF Written
    <2> QED BY <2>1, <2>2
  <1>2. Written(obj)'
    <2>1. CASE obj' = obj
      BY <1>1, <2>1 DEF BodiesWritten, TypeOK, Written
    <2>2. CASE obj' = NoLock
      BY <2>2 DEF Written
    <2>3. ASSUME NEW o \in Owners, obj' = Body(o), pc'[o] \in Spent \cup {"held"}
          PROVE  Written(obj)'
      BY <2>3, BodyType DEF Written
    <2> QED BY <2>1, <2>2, <2>3, ObjStep
  <1>3. ASSUME NEW o \in Owners PROVE Written(snap[o])'
    <2>1. Written(snap[o]) /\ Written(obj)
      BY DEF BodiesWritten
    <2>2. snap[o] \in RefLock \cup {NoLock} /\ obj \in RefLock \cup {NoLock}
      BY DEF TypeOK
    <2>3. CASE snap'[o] = snap[o]
      BY <1>1, <2>1, <2>2, <2>3 DEF Written
    <2>4. CASE snap'[o] = obj
      BY <1>1, <2>1, <2>2, <2>4 DEF Written
    <2> QED BY <2>3, <2>4, SnapStep
  <1> QED BY <1>2, <1>3 DEF BodiesWritten

\* Plans stay justified: only a read makes one, and it runs under the mutex.
LEMMA PlanStep ==
    ASSUME TypeOK, PrefixExclusive, BodiesWritten, PlanJustified, [Next]_vars
    PROVE  PlanJustified'
  <1> SUFFICES ASSUME NEW o \in Owners, pc'[o] \in {"put", "ghost"}, snap'[o] # NoLock
               PROVE  \/ snap'[o].expires_at < seen'[o]
                      \/ pc'[snap'[o].owner] \in Spent
    BY DEF PlanJustified
  <1>1. CASE ReadLock(o)
    <2>1. snap'[o] = obj /\ seen'[o] = seen[o] /\ pc[o] = "read"
      BY <1>1 DEF ReadLock, TypeOK
    <2>2. obj \in RefLock
      BY <2>1 DEF TypeOK
    <2>3. Steal(obj, seen[o], NodeOf[o])
      BY <1>1, <2>1 DEF ReadLock, Goto, Create, TypeOK
    <2>4. obj.owner \in Owners
      BY <2>2 DEF RefLock
    <2>5. CASE obj.node_id = NodeOf[o]
      <3>1. NodeOf[obj.owner] = NodeOf[o] /\ pc[obj.owner] \in Spent \cup {"held"}
        BY <2>1, <2>5 DEF BodiesWritten, Written
      <3>2. pc[obj.owner] # "held"
        BY <2>1, <2>4, <3>1 DEF PrefixExclusive, InPrefixLock, Spent
      <3> QED BY <2>1, <2>4, <3>1, <3>2, SpentStep
    <2> QED BY <2>1, <2>3, <2>5 DEF Steal, Expired
  <1>2. CASE ~ReadLock(o)
    <2>1. pc[o] \in {"put", "ghost"} /\ snap'[o] = snap[o] /\ seen'[o] = seen[o]
      BY <1>2 DEF TypeOK, Next, vars, Begin, ReadLock, PutLock, Poll, IoError,
         DropGuard, ReleaseRead, ReleaseDelete, GhostPut, Crash, Running, Tick, Goto
    <2>2. snap[o].owner \in Owners
      BY <2>1 DEF TypeOK, RefLock
    <2> QED BY <2>1, <2>2, SpentStep DEF PlanJustified
  <1> QED BY <1>1, <1>2

\* Clock readings stay in the past, and deletes stay the owner's own.
LEMMA SmallStep ==
    ASSUME TypeOK, SeenInPast, DeletesOwnBody, [Next]_vars
    PROVE  SeenInPast' /\ DeletesOwnBody'
  <1>1. SeenInPast'
    <2> SUFFICES ASSUME NEW o \in Owners PROVE seen'[o] <= now' + MaxSkew
      BY DEF SeenInPast
    <2>1. now' \in Nat /\ now \in Nat /\ now' >= now
      BY LockConstants DEF TypeOK, Next, vars, Begin, ReadLock, PutLock, Poll,
         IoError, DropGuard, ReleaseRead, ReleaseDelete, GhostPut, Crash, Tick
    <2>2. seen'[o] = seen[o] \/ seen'[o] = Clock(o)
      BY DEF TypeOK, Next, vars, Begin, ReadLock, PutLock, Poll, IoError,
         DropGuard, ReleaseRead, ReleaseDelete, GhostPut, Crash, Tick
    <2>3. Clock(o) <= now + MaxSkew /\ Clock(o) \in Nat
      BY LockConstants DEF Clock, TypeOK
    <2> QED BY <2>1, <2>2, <2>3, LockConstants DEF SeenInPast, TypeOK
  <1>2. DeletesOwnBody'
    BY DEF DeletesOwnBody, TypeOK, Next, vars, Begin, ReadLock, PutLock, Poll,
       IoError, DropGuard, ReleaseRead, ReleaseDelete, GhostPut, Crash, Running,
       Tick, Goto
  <1> QED BY <1>1, <1>2

\* The heart of the argument: nobody replaces or removes a live holder's body.
LEMMA HolderStep ==
    ASSUME IInv, [Next]_vars
    PROVE  HolderOwnsObject'
  <1> SUFFICES ASSUME NEW a \in Owners, Held(a)', Live(a)'
               PROVE  /\ obj' # NoLock
                      /\ obj'.owner = a
                      /\ obj'.expires_at = wrote'[a]
    BY DEF HolderOwnsObject
  <1>1. CASE PutLock(a)
    <2>1. obj' = Body(a) /\ wrote'[a] = Body(a).expires_at
      BY <1>1 DEF PutLock, Goto, Held, IInv, TypeOK
    <2> QED BY <2>1, BodyType DEF IInv
  <1>2. CASE ~PutLock(a)
    <2>1. Held(a) /\ wrote'[a] = wrote[a]
      BY <1>2 DEF Held, IInv, TypeOK, Next, vars, Begin, ReadLock, PutLock, Poll,
         IoError, DropGuard, ReleaseRead, ReleaseDelete, GhostPut, Crash, Running,
         Tick, Goto
    <2>2. now' \in Nat /\ now \in Nat /\ now' >= now
      BY LockConstants DEF IInv, TypeOK, Next, vars, Begin, ReadLock, PutLock, Poll,
         IoError, DropGuard, ReleaseRead, ReleaseDelete, GhostPut, Crash, Tick
    <2>3. Live(a)
      BY <2>1, <2>2, LockConstants DEF Live, IInv, TypeOK
    <2>4. obj # NoLock /\ obj.owner = a /\ obj.expires_at = wrote[a]
      BY <2>1, <2>3 DEF HolderOwnsObject, IInv
    <2>5. pc[a] = "held"
      BY <2>1 DEF Held
    <2>6. ASSUME NEW o \in Owners, pc[o] \in {"put", "ghost"}, obj = snap[o]
          PROVE  FALSE
      <3>1. seen[o] <= wrote[a]
        BY <2>3, LockConstants DEF Live, SeenInPast, IInv, TypeOK
      <3>2. ~(snap[o].expires_at < seen[o])
        BY <2>4, <2>6, <3>1 DEF IInv, TypeOK
      <3>3. pc[snap[o].owner] \in Spent
        BY <2>4, <2>6, <3>2 DEF PlanJustified, IInv
      <3> QED BY <2>4, <2>5, <2>6, <3>3 DEF Spent
    <2>7. obj' = obj
      BY <2>4, <2>5, <2>6, ObjStep DEF IInv
    <2> QED BY <2>1, <2>4, <2>7
  <1> QED BY <1>1, <1>2

-----------------------------------------------------------------------------
(* The theorems *)

\* The invariant holds at the start,
LEMMA IInvInit == Init => IInv
  <1> SUFFICES ASSUME Init PROVE IInv
    OBVIOUS
  <1>1. TypeOK
    BY LockConstants DEF Init, TypeOK, States
  <1>2. PrefixExclusive /\ BodiesWritten /\ PlanJustified /\ DeletesOwnBody
        /\ HolderOwnsObject
    BY DEF Init, PrefixExclusive, InPrefixLock, BodiesWritten, Written, Held,
           PlanJustified, DeletesOwnBody, HolderOwnsObject
  <1>3. SeenInPast
    BY LockConstants DEF Init, SeenInPast
  <1> QED BY <1>1, <1>2, <1>3 DEF IInv

\* every step keeps it,
LEMMA IInvStep == IInv /\ [Next]_vars => IInv'
  <1> SUFFICES ASSUME IInv, [Next]_vars PROVE IInv'
    OBVIOUS
  <1> QED BY TypeStep, PrefixStep, BodiesStep, PlanStep, SmallStep, HolderStep
          DEF IInv

\* so it always holds.
LEMMA IInvAlways == Spec => []IInv
  BY IInvInit, IInvStep, PTL DEF Spec

\* The lock's state stays well typed (reference_lock.rs RefLock, acquire_blocking).
THEOREM TypeCorrect == Spec => []TypeOK
  BY IInvAlways, PTL DEF IInv

\* A live holder's body is what the bucket holds.
THEOREM HolderSafe == Spec => []HolderOwnsObject
  BY IInvAlways, PTL DEF IInv

\* Two critical sections overlap only past a TTL: for every set of nodes and
\* acquisitions, every TTL, timeout and skew bound, with crashes, lost answers
\* and late PUTs.
THEOREM MutualExclusion == Spec => []ExclusiveWithinTtl
  <1>1. IInv => ExclusiveWithinTtl
    BY DEF IInv, HolderOwnsObject, ExclusiveWithinTtl
  <1> QED BY <1>1, IInvAlways, PTL

\* No release removes another acquisition's lock.
THEOREM OwnerScopedRelease == Spec => ReleaseIsOwnerScoped
  <1>1. IInv /\ [Next]_vars =>
          [\A o \in Owners : obj # NoLock /\ obj' = NoLock /\ obj.owner = o
                => pc[o] = "rel_delete"]_vars
    <2> SUFFICES ASSUME IInv, [Next]_vars, NEW o \in Owners,
                        obj # NoLock, obj' = NoLock, obj.owner = o
                 PROVE  pc[o] = "rel_delete"
      OBVIOUS
    <2>1. ASSUME NEW p \in Owners PROVE obj' # Body(p)
      BY BodyType DEF IInv
    <2> QED BY <2>1, ObjStep DEF IInv
  <1> QED BY <1>1, IInvAlways, PTL DEF Spec, ReleaseIsOwnerScoped
=============================================================================
