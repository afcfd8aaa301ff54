-------------------------- MODULE DeltaSpaceProofs --------------------------
(***************************************************************************)
(* Theorems about DeltaSpace, for any number of requests, keys, contents   *)
(* and faults.                                                             *)
(***************************************************************************)
EXTENDS DeltaSpace, TLAPS

\* The steps at which a request holds reference bytes.
Loaded == {"verify", "fill", "encode", "commit", "put_delta"}

BaseHeld == \A r \in Reqs : pc[r] \in Loaded => base[r] \in Contents

TypeInv == TypeOK /\ BaseHeld

\* The state starts well typed (Init, engine construction).
LEMMA InitTyped == Init => TypeInv
  BY DeltaSpaceConstants DEF Init, TypeInv, TypeOK, BaseHeld, Loaded, Ended, Steps, Waits,
     GetSteps, OpKinds

\* Every step of a request or of the environment keeps the state well typed; a
\* delta is only ever committed with the reference bytes that were loaded.
LEMMA NextTyped == TypeInv /\ [Next]_vars => TypeInv'
<1> SUFFICES ASSUME TypeInv, [Next]_vars PROVE TypeInv'
  OBVIOUS
<1> USE DeltaSpaceConstants DEF TypeInv, TypeOK, BaseHeld, Loaded, Ended, Steps, Waits,
        GetSteps, Node, Goto, store, locals
<1>1. CASE UNCHANGED vars
  BY <1>1 DEF vars
<1>2. ASSUME NEW r \in Reqs, Arrive(r) PROVE TypeInv'
  BY <1>2 DEF Arrive, OpKinds
<1>3. ASSUME NEW r \in Reqs, TakePrefix(r) PROVE TypeInv'
  BY <1>3 DEF TakePrefix
<1>4. ASSUME NEW r \in Reqs, TakeRef(r) PROVE TypeInv'
  BY <1>4 DEF TakeRef
<1>5. ASSUME NEW r \in Reqs, HasReference(r) PROVE TypeInv'
  BY <1>5 DEF HasReference
<1>6. ASSUME NEW r \in Reqs, RefMetadata(r) PROVE TypeInv'
  BY <1>6 DEF RefMetadata, FailPut, Finish, FreePrefix, FreeRef, KeepLocks, SetCache
<1>7. ASSUME NEW r \in Reqs, PutReference(r) PROVE TypeInv'
  BY <1>7 DEF PutReference
<1>8. ASSUME NEW r \in Reqs, CacheReference(r) PROVE TypeInv'
  BY <1>8 DEF CacheReference, SetCache
<1>9. ASSUME NEW r \in Reqs, LoadReference(r) PROVE TypeInv'
  BY <1>9 DEF LoadReference, FailPut, Finish, FreePrefix, FreeRef, KeepLocks, SetCache
<1>10. ASSUME NEW r \in Reqs, VerifyReference(r) PROVE TypeInv'
  BY <1>10 DEF VerifyReference, FailPut, Finish, FreePrefix, FreeRef, KeepLocks, SetCache
<1>11. ASSUME NEW r \in Reqs, FillCache(r) PROVE TypeInv'
  BY <1>11 DEF FillCache, SetCache
<1>12. ASSUME NEW r \in Reqs, Encode(r) PROVE TypeInv'
  BY <1>12 DEF Encode, Finish, FreePrefix, FreeRef, KeepLocks
<1>13. ASSUME NEW r \in Reqs, CommitStreamed(r) PROVE TypeInv'
  BY <1>13 DEF CommitStreamed, FailPut, Finish, FreePrefix, FreeRef, KeepLocks, SetCache
<1>14. ASSUME NEW r \in Reqs, PutDelta(r) PROVE TypeInv'
  BY <1>14 DEF PutDelta, Delta
<1>15. ASSUME NEW r \in Reqs, CleanPassthrough(r) PROVE TypeInv'
  BY <1>15 DEF CleanPassthrough, BestEffort, CanFail, Fail, Finish, FreePrefix, FreeRef
<1>16. ASSUME NEW r \in Reqs, PutPassthrough(r) PROVE TypeInv'
  BY <1>16 DEF PutPassthrough
<1>17. ASSUME NEW r \in Reqs, CleanDelta(r) PROVE TypeInv'
  BY <1>17 DEF CleanDelta, BestEffort, CanFail, Fail, Finish, FreePrefix, FreeRef,
     KeepLocks, SetCache
<1>18. ASSUME NEW r \in Reqs, UndoReference(r) PROVE TypeInv'
  BY <1>18 DEF UndoReference, BestEffort, CanFail, Fail, Finish, FreePrefix, FreeRef
<1>19. ASSUME NEW r \in Reqs, ResolveForDelete(r) PROVE TypeInv'
  BY <1>19 DEF ResolveForDelete, Resolved, Finish, FreePrefix, FreeRef, KeepLocks
<1>20. ASSUME NEW r \in Reqs, DeletePrimary(r) PROVE TypeInv'
  BY <1>20 DEF DeletePrimary, RemoveVariant
<1>21. ASSUME NEW r \in Reqs, DeleteSibling(r) PROVE TypeInv'
  BY <1>21 DEF DeleteSibling, BestEffort, CanFail, Fail, RemoveVariant, Finish, FreePrefix,
     FreeRef, KeepLocks
<1>22. ASSUME NEW r \in Reqs, ScanDeltaspace(r) PROVE TypeInv'
  BY <1>22 DEF ScanDeltaspace, Finish, FreePrefix, FreeRef, KeepLocks
<1>23. ASSUME NEW r \in Reqs, DeleteReference(r) PROVE TypeInv'
  BY <1>23 DEF DeleteReference, Finish, FreePrefix, FreeRef, KeepLocks
<1>24. ASSUME NEW r \in Reqs, InvalidateReference(r) PROVE TypeInv'
  BY <1>24 DEF InvalidateReference, Finish, FreePrefix, FreeRef, SetCache
<1>25. ASSUME NEW r \in Reqs, GetStep(r) PROVE TypeInv'
  BY <1>25 DEF GetStep, GetResolve, Resolved, GetLoad, GetVerify, GetFill, GetDelta,
     GetStream, SetCache
<1>26. ASSUME NEW r \in Reqs, RequestError(r) PROVE TypeInv'
  BY <1>26 DEF RequestError, CanFail, Fail, FailPut, Finish, FreePrefix, FreeRef, KeepLocks,
     SetCache
<1>27. ASSUME NEW r \in Reqs, Cancel(r) PROVE TypeInv'
  BY <1>27 DEF Cancel, CanFail, Fail, Finish, FreePrefix, FreeRef
<1>28. ASSUME NEW n \in Nodes, Crash(n) PROVE TypeInv'
  BY <1>28 DEF Crash, CanFail, Fail
<1>29. ASSUME NEW n \in Nodes, Evict(n) PROVE TypeInv'
  BY <1>29 DEF Evict
<1>30. QED
  BY <1>1, <1>2, <1>3, <1>4, <1>5, <1>6, <1>7, <1>8, <1>9, <1>10, <1>11, <1>12, <1>13,
     <1>14, <1>15, <1>16, <1>17, <1>18, <1>19, <1>20, <1>21, <1>22, <1>23, <1>24, <1>25,
     <1>26, <1>27, <1>28, <1>29
     DEF Next, Progress, PutStep, DeleteStep

\* The engine's state stays well typed: every stored delta names reference bytes.
THEOREM TypeCorrect == Spec => []TypeOK
<1>1. TypeInv => TypeOK
  BY DEF TypeInv
<1>2. QED
  BY InitTyped, NextTyped, <1>1, PTL DEF Spec
-----------------------------------------------------------------------------
(***************************************************************************)
(* DeltaDecodable and CacheCoherent.  They hold in two settings: one node  *)
(* on which no GET fills the cache and no request is cancelled, and any    *)
(* number of nodes that never delete.  Outside them they do not (README).  *)
(***************************************************************************)
OneNodeNoGet ==
    /\ \A n, m \in Nodes : n = m
    /\ "get" \notin Ops
    /\ "cancel" \notin Faults

NoDeletes == {"delete", "sweep"} \cap Ops = {}

Deletes == {"resolve", "del_primary", "del_sibling", "scan", "del_ref", "del_inval"}

\* The steps of a PUT under the reference lock.
RefSteps == {"has_ref", "ref_meta", "put_ref", "cache_ref", "undo_ref", "rollback"} \cup Loaded
              \cup {"load"}
InRef(r) ==
    \/ pc[r] \in RefSteps
    \/ op[r] = "put" /\ pc[r] \in {"clean_pass", "put_pass", "clean_delta"}

\* A PUT that may still undo the reference it created.
Undoable(r) ==
    /\ op[r] = "put" /\ fresh[r]
    /\ pc[r] \in {"cache_ref", "load", "put_pass", "clean_delta", "undo_ref", "rollback"} \cup Loaded

NoDelta == \A k \in Keys : delta[k] = None

\* Which requests there can be.
OpInv == \A r \in Reqs :
    /\ pc[r] \in {"wait_ref"} \cup RefSteps => op[r] \in {"put", "stream"}
    /\ pc[r] \in {"undo_ref", "rollback"} => op[r] = "put" /\ fresh[r]
    /\ pc[r] \in Deletes => op[r] \in {"delete", "sweep"}
    /\ pc[r] \in GetSteps => op[r] = "get"
    /\ pc[r] = "wait_prefix" => op[r] # "get"
    /\ pc[r] \in {"idle", "wait_prefix", "wait_ref", "ref_meta"} => ~fresh[r]
    /\ pc[r] = "wait_again" => op[r] = "stream"
    /\ pc[r] = "wait_reclaim" => op[r] = "sweep"
    /\ pc[r] # "idle" => op[r] \in Ops

\* The guards a request holds.
LockInv == \A r \in Reqs :
    /\ pc[r] \in Steps \cup {"wait_ref"} => prefixLock[Node(r)] = r
    /\ InRef(r) => refLock = r

\* What a PUT knows of the reference while it holds the lock.
PutInv == \A r \in Reqs :
    /\ pc[r] = "put_ref" => ref = None
    /\ pc[r] = "cache_ref" => ref = val[r]
    /\ pc[r] \in {"load"} \cup Loaded => ref # None
    /\ pc[r] \in Loaded => base[r] = ref

\* A reference that may be undone has no delta, no reader and no other cache.
UndoInv == \A r \in Reqs : Undoable(r) =>
    /\ NoDelta
    /\ \A q \in Reqs : pc[q] \notin {"g_load", "g_verify", "g_fill"}
    /\ \A n \in Nodes : n # Node(r) => refCache[n] = None
    /\ pc[r] \in {"undo_ref", "rollback"} => refCache[Node(r)] = None

\* A cache entry is the stored reference, but for the end of a reclaim.
CacheInv == \A n \in Nodes :
    \/ refCache[n] \in {None, ref}
    \/ \E r \in Reqs : Node(r) = n /\ pc[r] = "del_inval"

\* A reader of a delta found a reference that stays.
GetInv == \A r \in Reqs :
    /\ pc[r] \in {"g_load", "g_verify", "g_fill"} => ref # None
    /\ pc[r] \in {"g_verify", "g_fill"} => base[r] = ref

\* A reclaim has seen an empty deltaspace.
DelInv == \A r \in Reqs :
    /\ pc[r] \in {"del_ref", "del_inval"} => NoDelta
    /\ pc[r] = "del_inval" => ref = None

IInv ==
    /\ TypeInv
    /\ OpInv
    /\ LockInv
    /\ PutInv
    /\ UndoInv
    /\ CacheInv
    /\ GetInv
    /\ DelInv
    /\ DeltaDecodable

\* The settings make the reference's writers and reclaimers exclude each other:
\* by the prefix mutex on one node, by the reference lock where nobody deletes.
LEMMA Alone ==
  ASSUME OneNodeNoGet \/ NoDeletes, TypeInv, OpInv, LockInv,
         NEW r \in Reqs, NEW q \in Reqs, r # q,
         InRef(r) \/ pc[r] \in Deletes
  PROVE  ~InRef(q) /\ pc[q] \notin Deletes
<1> USE DeltaSpaceConstants DEF LockInv, OpInv, InRef, RefSteps, Loaded, Deletes, Node
<1>1. CASE OneNodeNoGet
  BY <1>1 DEF OneNodeNoGet, Steps
<1>2. CASE NoDeletes
  BY <1>2 DEF NoDeletes, GetSteps
<1>3. QED
  BY <1>1, <1>2

\* fresh records that has_reference found none.
LEMMA FreshSet ==
  ASSUME TypeOK, NEW r \in Reqs, HasReference(r) PROVE fresh'[r] <=> ref = None
<1>1. fresh \in [Reqs -> BOOLEAN] /\ fresh' = [fresh EXCEPT ![r] = (ref = None)]
  BY DEF TypeOK, HasReference
<1>2. QED
  BY <1>1, Zenon

\* The invariant holds at the start: nothing is stored, cached or held.
LEMMA InitInv == Init => IInv
<1>1. Init => TypeInv
  BY InitTyped
<1>2. QED
  BY <1>1, DeltaSpaceConstants
     DEF Init, IInv, OpInv, LockInv, PutInv, UndoInv, CacheInv, GetInv, DelInv, DeltaDecodable,
         InRef, RefSteps, Loaded, Undoable, Deletes, Steps, GetSteps

\* Every step keeps the invariant in both settings.
LEMMA NextInv ==
  ASSUME OneNodeNoGet \/ NoDeletes PROVE IInv /\ [Next]_vars => IInv'
<1> SUFFICES ASSUME IInv, [Next]_vars PROVE IInv'
  OBVIOUS
<1>0. TypeInv /\ TypeInv'
  BY NextTyped DEF IInv
<1>a. \A r, q \in Reqs : r # q /\ (InRef(r) \/ pc[r] \in Deletes)
                         => ~InRef(q) /\ pc[q] \notin Deletes
  BY Alone DEF IInv
<1>b. \/ \A n, m \in Nodes : n = m /\ \A r \in Reqs : pc[r] \notin GetSteps
      \/ \A r \in Reqs : pc[r] \notin Deletes
  BY DEF IInv, OpInv, OneNodeNoGet, NoDeletes, Deletes, GetSteps
<1>c. "cancel" \in Faults => \A r \in Reqs : pc[r] \notin Deletes
  BY DEF IInv, OpInv, OneNodeNoGet, NoDeletes, Deletes
<1> USE <1>0, <1>a, DeltaSpaceConstants
    DEF IInv, OpInv, LockInv, PutInv, UndoInv, CacheInv, GetInv, DelInv, DeltaDecodable, NoDelta,
        InRef, RefSteps, Loaded, Undoable, Deletes, TypeInv, TypeOK, Ended, Steps, Waits, GetSteps,
        Node, Goto, store, locals
<1>1. CASE UNCHANGED vars
  BY <1>1 DEF vars
<1>2. ASSUME NEW r \in Reqs, Arrive(r) PROVE IInv'
  BY <1>2 DEF Arrive, OpKinds
<1>3. ASSUME NEW r \in Reqs, TakePrefix(r) PROVE IInv'
  BY <1>3 DEF TakePrefix, OpKinds
<1>4. ASSUME NEW r \in Reqs, TakeRef(r) PROVE IInv'
  BY <1>4 DEF TakeRef
<1>5. ASSUME NEW r \in Reqs, HasReference(r) PROVE IInv'
  <2>f. fresh'[r] <=> ref = None
    BY <1>5, FreshSet
  <2>1. OpInv'
    BY <1>5, <2>f DEF HasReference
  <2>2. LockInv'
    BY <1>5, <2>f DEF HasReference
  <2>3. PutInv'
    BY <1>5, <2>f DEF HasReference
  <2>4. UndoInv'
    BY <1>5, <2>f DEF HasReference
  <2>5. CacheInv'
    BY <1>5, <2>f DEF HasReference
  <2>6. GetInv'
    BY <1>5, <2>f DEF HasReference
  <2>7. DelInv'
    BY <1>5, <2>f DEF HasReference
  <2>8. DeltaDecodable'
    BY <1>5, <2>f DEF HasReference
  <2>9. QED
    BY <2>1, <2>2, <2>3, <2>4, <2>5, <2>6, <2>7, <2>8
<1>6. ASSUME NEW r \in Reqs, RefMetadata(r) PROVE IInv'
  BY <1>6 DEF RefMetadata, FailPut, Finish, FreePrefix, FreeRef, KeepLocks, SetCache
<1>7. ASSUME NEW r \in Reqs, PutReference(r) PROVE IInv'
  BY <1>7 DEF PutReference, Delta
<1>8. ASSUME NEW r \in Reqs, CacheReference(r) PROVE IInv'
  BY <1>8 DEF CacheReference, SetCache
<1>9. ASSUME NEW r \in Reqs, LoadReference(r) PROVE IInv'
  <2>1. OpInv'
    BY <1>9 DEF LoadReference, FailPut, Finish, FreePrefix, FreeRef, KeepLocks, SetCache
  <2>2. LockInv'
    BY <1>9 DEF LoadReference, FailPut, Finish, FreePrefix, FreeRef, KeepLocks, SetCache
  <2>3. PutInv'
    BY <1>9 DEF LoadReference, FailPut, Finish, FreePrefix, FreeRef, KeepLocks, SetCache
  <2>4. UndoInv'
    BY <1>9 DEF LoadReference, FailPut, Finish, FreePrefix, FreeRef, KeepLocks, SetCache
  <2>5. CacheInv'
    BY <1>9 DEF LoadReference, FailPut, Finish, FreePrefix, FreeRef, KeepLocks, SetCache
  <2>6. GetInv'
    BY <1>9 DEF LoadReference, FailPut, Finish, FreePrefix, FreeRef, KeepLocks, SetCache
  <2>7. DelInv'
    BY <1>9 DEF LoadReference, FailPut, Finish, FreePrefix, FreeRef, KeepLocks, SetCache
  <2>8. DeltaDecodable'
    BY <1>9 DEF LoadReference, FailPut, Finish, FreePrefix, FreeRef, KeepLocks, SetCache
  <2>9. QED
    BY <2>1, <2>2, <2>3, <2>4, <2>5, <2>6, <2>7, <2>8
<1>10. ASSUME NEW r \in Reqs, VerifyReference(r) PROVE IInv'
  BY <1>10 DEF VerifyReference, FailPut, Finish, FreePrefix, FreeRef, KeepLocks, SetCache,
    Verified
<1>11. ASSUME NEW r \in Reqs, FillCache(r) PROVE IInv'
  BY <1>11 DEF FillCache, SetCache
<1>12. ASSUME NEW r \in Reqs, Encode(r) PROVE IInv'
  BY <1>12 DEF Encode, Finish, FreePrefix, FreeRef, KeepLocks
<1>13. ASSUME NEW r \in Reqs, CommitStreamed(r) PROVE IInv'
  BY <1>13 DEF CommitStreamed, FailPut, Finish, FreePrefix, FreeRef, KeepLocks, SetCache
<1>14. ASSUME NEW r \in Reqs, PutDelta(r) PROVE IInv'
  BY <1>14 DEF PutDelta
<1>15. ASSUME NEW r \in Reqs, CleanPassthrough(r) PROVE IInv'
  BY <1>15 DEF CleanPassthrough, BestEffort, CanFail, Fail, Finish, FreePrefix, FreeRef
<1>16. ASSUME NEW r \in Reqs, PutPassthrough(r) PROVE IInv'
  BY <1>16 DEF PutPassthrough
<1>17. ASSUME NEW r \in Reqs, CleanDelta(r) PROVE IInv'
  <2>1. OpInv'
    BY <1>17 DEF CleanDelta, BestEffort, CanFail, Fail, Finish, FreePrefix, FreeRef,
      KeepLocks, SetCache
  <2>2. LockInv'
    BY <1>17 DEF CleanDelta, BestEffort, CanFail, Fail, Finish, FreePrefix, FreeRef,
      KeepLocks, SetCache
  <2>3. PutInv'
    BY <1>17 DEF CleanDelta, BestEffort, CanFail, Fail, Finish, FreePrefix, FreeRef,
      KeepLocks, SetCache
  <2>4. UndoInv'
    BY <1>17 DEF CleanDelta, BestEffort, CanFail, Fail, Finish, FreePrefix, FreeRef,
      KeepLocks, SetCache
  <2>5. CacheInv'
    BY <1>17 DEF CleanDelta, BestEffort, CanFail, Fail, Finish, FreePrefix, FreeRef,
      KeepLocks, SetCache
  <2>6. GetInv'
    BY <1>17 DEF CleanDelta, BestEffort, CanFail, Fail, Finish, FreePrefix, FreeRef,
      KeepLocks, SetCache
  <2>7. DelInv'
    BY <1>17 DEF CleanDelta, BestEffort, CanFail, Fail, Finish, FreePrefix, FreeRef,
      KeepLocks, SetCache
  <2>8. DeltaDecodable'
    BY <1>17 DEF CleanDelta, BestEffort, CanFail, Fail, Finish, FreePrefix, FreeRef,
      KeepLocks, SetCache
  <2>9. QED
    BY <2>1, <2>2, <2>3, <2>4, <2>5, <2>6, <2>7, <2>8
<1>18. ASSUME NEW r \in Reqs, UndoReference(r) PROVE IInv'
  BY <1>18 DEF UndoReference, BestEffort, CanFail, Fail, Finish, FreePrefix, FreeRef
<1>19. ASSUME NEW r \in Reqs, ResolveForDelete(r) PROVE IInv'
  BY <1>19 DEF ResolveForDelete, Finish, FreePrefix, FreeRef, KeepLocks
<1>20. ASSUME NEW r \in Reqs, DeletePrimary(r) PROVE IInv'
  BY <1>20 DEF DeletePrimary, RemoveVariant
<1>21. ASSUME NEW r \in Reqs, DeleteSibling(r) PROVE IInv'
  <2>1. OpInv'
    BY <1>21 DEF DeleteSibling, BestEffort, CanFail, Fail, Finish, FreePrefix, FreeRef,
      RemoveVariant, KeepLocks
  <2>2. LockInv'
    BY <1>21 DEF DeleteSibling, BestEffort, CanFail, Fail, Finish, FreePrefix, FreeRef,
      RemoveVariant, KeepLocks
  <2>3. PutInv'
    BY <1>21 DEF DeleteSibling, BestEffort, CanFail, Fail, Finish, FreePrefix, FreeRef,
      RemoveVariant, KeepLocks
  <2>4. UndoInv'
    BY <1>21 DEF DeleteSibling, BestEffort, CanFail, Fail, Finish, FreePrefix, FreeRef,
      RemoveVariant, KeepLocks
  <2>5. CacheInv'
    BY <1>21 DEF DeleteSibling, BestEffort, CanFail, Fail, Finish, FreePrefix, FreeRef,
      RemoveVariant, KeepLocks
  <2>6. GetInv'
    BY <1>21 DEF DeleteSibling, BestEffort, CanFail, Fail, Finish, FreePrefix, FreeRef,
      RemoveVariant, KeepLocks
  <2>7. DelInv'
    BY <1>21 DEF DeleteSibling, BestEffort, CanFail, Fail, Finish, FreePrefix, FreeRef,
      RemoveVariant, KeepLocks
  <2>8. DeltaDecodable'
    BY <1>21 DEF DeleteSibling, BestEffort, CanFail, Fail, Finish, FreePrefix, FreeRef,
      RemoveVariant, KeepLocks
  <2>9. QED
    BY <2>1, <2>2, <2>3, <2>4, <2>5, <2>6, <2>7, <2>8
<1>22. ASSUME NEW r \in Reqs, ScanDeltaspace(r) PROVE IInv'
  BY <1>22 DEF ScanDeltaspace, Exists, Finish, FreePrefix, FreeRef, KeepLocks
<1>23. ASSUME NEW r \in Reqs, DeleteReference(r) PROVE IInv'
  <2>1. OpInv'
    BY <1>23, <1>b DEF DeleteReference, Finish, FreePrefix, FreeRef, KeepLocks
  <2>2. LockInv'
    BY <1>23, <1>b DEF DeleteReference, Finish, FreePrefix, FreeRef, KeepLocks
  <2>3. PutInv'
    BY <1>23, <1>b DEF DeleteReference, Finish, FreePrefix, FreeRef, KeepLocks
  <2>4. UndoInv'
    BY <1>23, <1>b DEF DeleteReference, Finish, FreePrefix, FreeRef, KeepLocks
  <2>5. CacheInv'
    BY <1>23, <1>b DEF DeleteReference, Finish, FreePrefix, FreeRef, KeepLocks
  <2>6. GetInv'
    BY <1>23, <1>b DEF DeleteReference, Finish, FreePrefix, FreeRef, KeepLocks
  <2>7. DelInv'
    BY <1>23, <1>b DEF DeleteReference, Finish, FreePrefix, FreeRef, KeepLocks
  <2>8. DeltaDecodable'
    BY <1>23, <1>b DEF DeleteReference, Finish, FreePrefix, FreeRef, KeepLocks
  <2>9. QED
    BY <2>1, <2>2, <2>3, <2>4, <2>5, <2>6, <2>7, <2>8
<1>24. ASSUME NEW r \in Reqs, InvalidateReference(r) PROVE IInv'
  BY <1>24 DEF InvalidateReference, Finish, FreePrefix, FreeRef, SetCache
<1>25. ASSUME NEW r \in Reqs, GetResolve(r) PROVE IInv'
  BY <1>25 DEF GetResolve, Exists, Resolved, Delta
<1>26. ASSUME NEW r \in Reqs, GetLoad(r) PROVE IInv'
  BY <1>26 DEF GetLoad
<1>27. ASSUME NEW r \in Reqs, GetVerify(r) PROVE IInv'
  BY <1>27 DEF GetVerify, Verified
<1>28. ASSUME NEW r \in Reqs, GetFill(r) PROVE IInv'
  BY <1>28 DEF GetFill, SetCache
<1>29. ASSUME NEW r \in Reqs, GetDelta(r) PROVE IInv'
  BY <1>29 DEF GetDelta, SetCache
<1>30. ASSUME NEW r \in Reqs, GetStream(r) PROVE IInv'
  BY <1>30 DEF GetStream
<1>31. ASSUME NEW r \in Reqs, RequestError(r) PROVE IInv'
  <2>1. OpInv'
    BY <1>31 DEF RequestError, CanFail, Fail, FailPut, Finish, FreePrefix, FreeRef, KeepLocks,
      SetCache
  <2>2. LockInv'
    BY <1>31 DEF RequestError, CanFail, Fail, FailPut, Finish, FreePrefix, FreeRef, KeepLocks,
      SetCache
  <2>3. PutInv'
    BY <1>31 DEF RequestError, CanFail, Fail, FailPut, Finish, FreePrefix, FreeRef, KeepLocks,
      SetCache
  <2>4. UndoInv'
    BY <1>31 DEF RequestError, CanFail, Fail, FailPut, Finish, FreePrefix, FreeRef, KeepLocks,
      SetCache
  <2>5. CacheInv'
    BY <1>31 DEF RequestError, CanFail, Fail, FailPut, Finish, FreePrefix, FreeRef, KeepLocks,
      SetCache
  <2>6. GetInv'
    BY <1>31 DEF RequestError, CanFail, Fail, FailPut, Finish, FreePrefix, FreeRef, KeepLocks,
      SetCache
  <2>7. DelInv'
    BY <1>31 DEF RequestError, CanFail, Fail, FailPut, Finish, FreePrefix, FreeRef, KeepLocks,
      SetCache
  <2>8. DeltaDecodable'
    BY <1>31 DEF RequestError, CanFail, Fail, FailPut, Finish, FreePrefix, FreeRef, KeepLocks,
      SetCache
  <2>9. QED
    BY <2>1, <2>2, <2>3, <2>4, <2>5, <2>6, <2>7, <2>8
<1>32. ASSUME NEW r \in Reqs, Cancel(r) PROVE IInv'
  BY <1>32, <1>c DEF Cancel, CanFail, Fail, Finish, FreePrefix, FreeRef
<1>33. ASSUME NEW n \in Nodes, Crash(n) PROVE IInv'
  BY <1>33 DEF Crash, CanFail, Fail
<1>34. ASSUME NEW n \in Nodes, Evict(n) PROVE IInv'
  BY <1>34 DEF Evict
<1>35. QED
  BY <1>1, <1>2, <1>3, <1>4, <1>5, <1>6, <1>7, <1>8, <1>9, <1>10, <1>11, <1>12, <1>13,
    <1>14, <1>15, <1>16, <1>17, <1>18, <1>19, <1>20, <1>21, <1>22, <1>23, <1>24, <1>25,
    <1>26, <1>27, <1>28, <1>29, <1>30, <1>31, <1>32, <1>33, <1>34 DEF Next, Progress,
    PutStep, DeleteStep, GetStep

\* Every stored delta decodes against the stored reference: on one node where no
\* GET fills the cache and nothing is cancelled, and on any nodes that never delete.
THEOREM Decodable ==
  ASSUME OneNodeNoGet \/ NoDeletes PROVE Spec => []DeltaDecodable
<1>1. IInv => DeltaDecodable
  BY DEF IInv
<1>2. QED
  BY InitInv, NextInv, <1>1, PTL DEF Spec

\* In the same settings, between mutations, a cached reference is the stored one.
THEOREM Coherent ==
  ASSUME OneNodeNoGet \/ NoDeletes PROVE Spec => []CacheCoherent
<1>1. IInv => CacheCoherent
  BY DeltaSpaceConstants
     DEF IInv, CacheInv, LockInv, Steps, Node, CacheCoherent, Quiet
<1>2. QED
  BY InitInv, NextInv, <1>1, PTL DEF Spec

-----------------------------------------------------------------------------
(***************************************************************************)
(* NoDeadlock, in every setting: a lock is only held by a request that     *)
(* goes on, or that waits for the reference lock with the mutex in hand.   *)
(***************************************************************************)
HoldInv ==
    /\ \A n \in Nodes : prefixLock[n] # None =>
          Node(prefixLock[n]) = n /\ pc[prefixLock[n]] \in Steps \cup {"wait_ref"}
    /\ refLock # None => pc[refLock] \in Steps

\* Every step that leaves the critical sections (an end, a drop of both guards by
\* the streaming path, a cancellation, a crash) gives the locks back.
LEMMA NextHolds == TypeInv /\ HoldInv /\ [Next]_vars => HoldInv'
<1> SUFFICES ASSUME TypeInv, HoldInv, [Next]_vars PROVE HoldInv'
  OBVIOUS
<1> USE DeltaSpaceConstants
    DEF TypeInv, TypeOK, HoldInv, Ended, Steps, Waits, GetSteps, Node, Goto, store, locals
<1>1. CASE UNCHANGED vars
  BY <1>1 DEF vars
<1>2. ASSUME NEW r \in Reqs, Arrive(r) PROVE HoldInv'
  BY <1>2 DEF Arrive
<1>3. ASSUME NEW r \in Reqs, TakePrefix(r) PROVE HoldInv'
  BY <1>3 DEF TakePrefix
<1>4. ASSUME NEW r \in Reqs, TakeRef(r) PROVE HoldInv'
  BY <1>4 DEF TakeRef
<1>5. ASSUME NEW r \in Reqs, HasReference(r) PROVE HoldInv'
  BY <1>5 DEF HasReference
<1>6. ASSUME NEW r \in Reqs, RefMetadata(r) PROVE HoldInv'
  BY <1>6 DEF RefMetadata, FailPut, Finish, FreePrefix, FreeRef, KeepLocks
<1>7. ASSUME NEW r \in Reqs, PutReference(r) PROVE HoldInv'
  BY <1>7 DEF PutReference
<1>8. ASSUME NEW r \in Reqs, CacheReference(r) PROVE HoldInv'
  BY <1>8 DEF CacheReference
<1>9. ASSUME NEW r \in Reqs, LoadReference(r) PROVE HoldInv'
  BY <1>9 DEF LoadReference, FailPut, Finish, FreePrefix, FreeRef, KeepLocks
<1>10. ASSUME NEW r \in Reqs, VerifyReference(r) PROVE HoldInv'
  BY <1>10 DEF VerifyReference, FailPut, Finish, FreePrefix, FreeRef, KeepLocks
<1>11. ASSUME NEW r \in Reqs, FillCache(r) PROVE HoldInv'
  BY <1>11 DEF FillCache
<1>12. ASSUME NEW r \in Reqs, Encode(r) PROVE HoldInv'
  BY <1>12 DEF Encode, Finish, FreePrefix, FreeRef, KeepLocks
<1>13. ASSUME NEW r \in Reqs, CommitStreamed(r) PROVE HoldInv'
  BY <1>13 DEF CommitStreamed, FailPut, Finish, FreePrefix, FreeRef, KeepLocks
<1>14. ASSUME NEW r \in Reqs, PutDelta(r) PROVE HoldInv'
  BY <1>14 DEF PutDelta
<1>15. ASSUME NEW r \in Reqs, CleanPassthrough(r) PROVE HoldInv'
  BY <1>15 DEF CleanPassthrough, BestEffort, Finish, FreePrefix, FreeRef
<1>16. ASSUME NEW r \in Reqs, PutPassthrough(r) PROVE HoldInv'
  BY <1>16 DEF PutPassthrough
<1>17. ASSUME NEW r \in Reqs, CleanDelta(r) PROVE HoldInv'
  BY <1>17 DEF CleanDelta, BestEffort, Finish, FreePrefix, FreeRef, KeepLocks
<1>18. ASSUME NEW r \in Reqs, UndoReference(r) PROVE HoldInv'
  BY <1>18 DEF UndoReference, BestEffort, Finish, FreePrefix, FreeRef
<1>19. ASSUME NEW r \in Reqs, ResolveForDelete(r) PROVE HoldInv'
  BY <1>19 DEF ResolveForDelete, Finish, FreePrefix, FreeRef, KeepLocks
<1>20. ASSUME NEW r \in Reqs, DeletePrimary(r) PROVE HoldInv'
  BY <1>20 DEF DeletePrimary
<1>21. ASSUME NEW r \in Reqs, DeleteSibling(r) PROVE HoldInv'
  BY <1>21 DEF DeleteSibling, BestEffort, Finish, FreePrefix, FreeRef, KeepLocks
<1>22. ASSUME NEW r \in Reqs, ScanDeltaspace(r) PROVE HoldInv'
  BY <1>22 DEF ScanDeltaspace, Finish, FreePrefix, FreeRef, KeepLocks
<1>23. ASSUME NEW r \in Reqs, DeleteReference(r) PROVE HoldInv'
  BY <1>23 DEF DeleteReference, Finish, FreePrefix, FreeRef, KeepLocks
<1>24. ASSUME NEW r \in Reqs, InvalidateReference(r) PROVE HoldInv'
  BY <1>24 DEF InvalidateReference, Finish, FreePrefix, FreeRef
<1>25. ASSUME NEW r \in Reqs, GetResolve(r) PROVE HoldInv'
  BY <1>25 DEF GetResolve
<1>26. ASSUME NEW r \in Reqs, GetLoad(r) PROVE HoldInv'
  BY <1>26 DEF GetLoad
<1>27. ASSUME NEW r \in Reqs, GetVerify(r) PROVE HoldInv'
  BY <1>27 DEF GetVerify
<1>28. ASSUME NEW r \in Reqs, GetFill(r) PROVE HoldInv'
  BY <1>28 DEF GetFill
<1>29. ASSUME NEW r \in Reqs, GetDelta(r) PROVE HoldInv'
  BY <1>29 DEF GetDelta
<1>30. ASSUME NEW r \in Reqs, GetStream(r) PROVE HoldInv'
  BY <1>30 DEF GetStream
<1>31. ASSUME NEW r \in Reqs, RequestError(r) PROVE HoldInv'
  BY <1>31 DEF RequestError, FailPut, Finish, FreePrefix, FreeRef, KeepLocks
<1>32. ASSUME NEW r \in Reqs, Cancel(r) PROVE HoldInv'
  BY <1>32 DEF Cancel, Finish, FreePrefix, FreeRef
<1>33. ASSUME NEW n \in Nodes, Crash(n) PROVE HoldInv'
  BY <1>33 DEF Crash
<1>34. ASSUME NEW n \in Nodes, Evict(n) PROVE HoldInv'
  BY <1>34 DEF Evict
<1>35. QED
  BY <1>1, <1>2, <1>3, <1>4, <1>5, <1>6, <1>7, <1>8, <1>9, <1>10, <1>11, <1>12, <1>13,
    <1>14, <1>15, <1>16, <1>17, <1>18, <1>19, <1>20, <1>21, <1>22, <1>23, <1>24, <1>25,
    <1>26, <1>27, <1>28, <1>29, <1>30, <1>31, <1>32, <1>33, <1>34 DEF Next, Progress,
    PutStep, DeleteStep, GetStep

\* Whoever waits, some request can go on: the mutex is taken before the reference
\* lock, and both are dropped before either is taken again.
THEOREM DeadlockFree == Spec => []NoDeadlock
<1>1. Init => HoldInv
  BY DEF Init, HoldInv
<1>2. TypeInv /\ HoldInv => NoDeadlock
  <2> SUFFICES ASSUME TypeInv, HoldInv, NEW r \in Reqs, Blocked(r)
               PROVE  \E q \in Reqs : pc[q] \notin Ended /\ ~Blocked(q)
    BY DEF NoDeadlock
  <2> USE DeltaSpaceConstants
      DEF TypeInv, TypeOK, HoldInv, Blocked, Steps, Ended, Node
  <2>1. CASE refLock # None
    BY <2>1
  <2>2. CASE refLock = None
    <3>1. prefixLock[NodeOf[r]] \in Reqs /\ prefixLock[NodeOf[r]] # None
      BY <2>2
    <3>2. QED
      BY <2>2, <3>1
  <2>3. QED
    BY <2>1, <2>2
<1>3. QED
  BY InitTyped, NextTyped, NextHolds, <1>1, <1>2, PTL DEF Spec

-----------------------------------------------------------------------------
(***************************************************************************)
(* ReadsLastWrite, on one node, with at most one fault or without deletes: *)
(* a second fault can leave the sibling variant of a deleted key behind.   *)
(***************************************************************************)
\* What resolve_object_metadata shows of key k: the newest of its variants.
Shown(k) == IF ~Exists(k) THEN None
            ELSE IF Resolved(k) = "pass" THEN pass[k] ELSE delta[k].val

\* What a request knows of the variants of its key.
VariantInv == \A r \in Reqs :
    /\ pc[r] = "clean_pass" => delta[key[r]] # None /\ newer[key[r]] = "delta"
    /\ pc[r] = "clean_delta" => pass[key[r]] # None /\ newer[key[r]] = "pass"
    /\ pc[r] = "del_primary" => Exists(key[r]) /\ found[r] = Resolved(key[r])
    /\ pc[r] = "del_sibling" =>
          /\ truth[key[r]] = None
          /\ found[r] = "delta" => delta[key[r]] = None
          /\ found[r] = "pass" => pass[key[r]] = None
          /\ Exists(key[r]) => faults # 0

\* Both variants are stored while one is being cleaned up, or since a clean-up failed.
BothInv == \A k \in Keys : delta[k] # None /\ pass[k] # None =>
    \/ faults # 0
    \/ \E r \in Reqs : key[r] = k /\ pc[r] \in {"clean_pass", "clean_delta"}

\* The shown variant is the last write, but between the two deletes of a DELETE.
ShownInv == \A k \in Keys :
    Shown(k) = truth[k] \/ \E r \in Reqs : pc[r] = "del_sibling" /\ key[r] = k

ReadInv == VariantInv /\ BothInv /\ ShownInv

\* On one node the prefix mutex keeps all mutations apart.
LEMMA Mutex ==
  ASSUME OneNodeNoGet, LockInv, NEW r \in Reqs, NEW q \in Reqs, r # q, pc[r] \in Steps
  PROVE  pc[q] \notin Steps
  BY DeltaSpaceConstants DEF OneNodeNoGet, LockInv, Node

\* Every step keeps the shown variant the last write.
LEMMA NextReads ==
  ASSUME OneNodeNoGet, MaxFaults <= 1 \/ NoDeletes PROVE IInv /\ ReadInv /\ [Next]_vars
         => ReadInv'
<1> SUFFICES ASSUME IInv, ReadInv, [Next]_vars PROVE ReadInv'
  OBVIOUS
<1>0. TypeInv /\ TypeInv'
  BY NextTyped DEF IInv
<1>a. \A r, q \in Reqs : r # q /\ pc[r] \in Steps => pc[q] \notin Steps
  BY Mutex DEF IInv
<1>b. \A r \in Reqs : pc[r] \notin GetSteps /\ op[r] \in OpKinds
  BY DEF IInv, OpInv, OneNodeNoGet, GetSteps, TypeInv, TypeOK
<1>c. MaxFaults <= 1 \/ \A r \in Reqs : pc[r] \notin Deletes
  BY DEF IInv, OpInv, NoDeletes, Deletes
<1>d. MaxFaults <= 1 /\ faults < MaxFaults => faults = 0
  <2>1. faults \in 0..MaxFaults /\ MaxFaults \in Nat
    BY <1>0, DeltaSpaceConstants DEF TypeInv, TypeOK
  <2>2. QED
    BY <2>1
<1> USE <1>0, <1>a, DeltaSpaceConstants
    DEF ReadInv, VariantInv, BothInv, ShownInv, Shown, Exists, Resolved, TypeInv, TypeOK, Ended,
        Steps, Waits, Delta, Node, Goto, store, locals
<1>1. CASE UNCHANGED vars
  BY <1>1 DEF vars
<1>2. ASSUME NEW r \in Reqs, Arrive(r) PROVE ReadInv'
  BY <1>2 DEF Arrive
<1>3. ASSUME NEW r \in Reqs, TakePrefix(r) PROVE ReadInv'
  BY <1>3 DEF TakePrefix
<1>4. ASSUME NEW r \in Reqs, TakeRef(r) PROVE ReadInv'
  BY <1>4 DEF TakeRef
<1>5. ASSUME NEW r \in Reqs, HasReference(r) PROVE ReadInv'
  BY <1>5 DEF HasReference
<1>6. ASSUME NEW r \in Reqs, RefMetadata(r) PROVE ReadInv'
  BY <1>6 DEF RefMetadata, FailPut, Finish, FreePrefix, FreeRef, KeepLocks
<1>7. ASSUME NEW r \in Reqs, PutReference(r) PROVE ReadInv'
  BY <1>7 DEF PutReference
<1>8. ASSUME NEW r \in Reqs, CacheReference(r) PROVE ReadInv'
  BY <1>8 DEF CacheReference
<1>9. ASSUME NEW r \in Reqs, LoadReference(r) PROVE ReadInv'
  BY <1>9 DEF LoadReference, FailPut, Finish, FreePrefix, FreeRef, KeepLocks
<1>10. ASSUME NEW r \in Reqs, VerifyReference(r) PROVE ReadInv'
  BY <1>10 DEF VerifyReference, FailPut, Finish, FreePrefix, FreeRef, KeepLocks,
     Verified
<1>11. ASSUME NEW r \in Reqs, FillCache(r) PROVE ReadInv'
  BY <1>11 DEF FillCache
<1>12. ASSUME NEW r \in Reqs, Encode(r) PROVE ReadInv'
  BY <1>12 DEF Encode, Finish, FreePrefix, FreeRef, KeepLocks
<1>13. ASSUME NEW r \in Reqs, CommitStreamed(r) PROVE ReadInv'
  BY <1>13 DEF CommitStreamed, FailPut, Finish, FreePrefix, FreeRef, KeepLocks
<1>14. ASSUME NEW r \in Reqs, PutDelta(r) PROVE ReadInv'
  <2>1. VariantInv'
    BY <1>14 DEF PutDelta, BaseHeld, Loaded
  <2>2. BothInv'
    BY <1>14 DEF PutDelta, BaseHeld, Loaded
  <2>3. ShownInv'
    BY <1>14 DEF PutDelta, BaseHeld, Loaded
  <2>4. QED
    BY <2>1, <2>2, <2>3
<1>15. ASSUME NEW r \in Reqs, CleanPassthrough(r) PROVE ReadInv'
  <2>1. VariantInv'
    BY <1>15, <1>c DEF CleanPassthrough, BestEffort, CanFail, Fail, Finish, FreePrefix,
       FreeRef, KeepLocks
  <2>2. BothInv'
    BY <1>15, <1>c DEF CleanPassthrough, BestEffort, CanFail, Fail, Finish, FreePrefix,
       FreeRef, KeepLocks
  <2>3. ShownInv'
    BY <1>15, <1>c DEF CleanPassthrough, BestEffort, CanFail, Fail, Finish, FreePrefix,
       FreeRef, KeepLocks
  <2>4. QED
    BY <2>1, <2>2, <2>3
<1>16. ASSUME NEW r \in Reqs, PutPassthrough(r) PROVE ReadInv'
  <2>1. VariantInv'
    BY <1>16 DEF PutPassthrough
  <2>2. BothInv'
    BY <1>16 DEF PutPassthrough
  <2>3. ShownInv'
    BY <1>16 DEF PutPassthrough
  <2>4. QED
    BY <2>1, <2>2, <2>3
<1>17. ASSUME NEW r \in Reqs, CleanDelta(r) PROVE ReadInv'
  <2>1. VariantInv'
    BY <1>17, <1>c DEF CleanDelta, BestEffort, CanFail, Fail, Finish, FreePrefix,
       FreeRef, KeepLocks
  <2>2. BothInv'
    BY <1>17, <1>c DEF CleanDelta, BestEffort, CanFail, Fail, Finish, FreePrefix,
       FreeRef, KeepLocks
  <2>3. ShownInv'
    BY <1>17, <1>c DEF CleanDelta, BestEffort, CanFail, Fail, Finish, FreePrefix,
       FreeRef, KeepLocks
  <2>4. QED
    BY <2>1, <2>2, <2>3
<1>18. ASSUME NEW r \in Reqs, UndoReference(r) PROVE ReadInv'
  <2>1. VariantInv'
    BY <1>18 DEF UndoReference, BestEffort, CanFail, Fail, Finish, FreePrefix, FreeRef,
       KeepLocks
  <2>2. BothInv'
    BY <1>18 DEF UndoReference, BestEffort, CanFail, Fail, Finish, FreePrefix, FreeRef,
       KeepLocks
  <2>3. ShownInv'
    BY <1>18 DEF UndoReference, BestEffort, CanFail, Fail, Finish, FreePrefix, FreeRef,
       KeepLocks
  <2>4. QED
    BY <2>1, <2>2, <2>3
<1>19. ASSUME NEW r \in Reqs, ResolveForDelete(r) PROVE ReadInv'
  <2>1. VariantInv'
    BY <1>19 DEF ResolveForDelete, Finish, FreePrefix, FreeRef, KeepLocks
  <2>2. BothInv'
    BY <1>19 DEF ResolveForDelete, Finish, FreePrefix, FreeRef, KeepLocks
  <2>3. ShownInv'
    BY <1>19 DEF ResolveForDelete, Finish, FreePrefix, FreeRef, KeepLocks
  <2>4. QED
    BY <2>1, <2>2, <2>3
<1>20. ASSUME NEW r \in Reqs, DeletePrimary(r) PROVE ReadInv'
  <2>1. VariantInv'
    BY <1>20, <1>c DEF DeletePrimary, RemoveVariant, RemoveVariant, Deletes
  <2>2. BothInv'
    BY <1>20, <1>c DEF DeletePrimary, RemoveVariant, RemoveVariant, Deletes
  <2>3. ShownInv'
    BY <1>20, <1>c DEF DeletePrimary, RemoveVariant, RemoveVariant, Deletes
  <2>4. QED
    BY <2>1, <2>2, <2>3
<1>21. ASSUME NEW r \in Reqs, DeleteSibling(r) PROVE ReadInv'
  <2>1. VariantInv'
    BY <1>21, <1>c DEF DeleteSibling, BestEffort, CanFail, Fail, RemoveVariant, Sibling,
       Finish, FreePrefix, FreeRef, KeepLocks, Deletes
  <2>2. BothInv'
    BY <1>21, <1>c DEF DeleteSibling, BestEffort, CanFail, Fail, RemoveVariant, Sibling,
       Finish, FreePrefix, FreeRef, KeepLocks, Deletes
  <2>3. ShownInv'
    <3>1. \A k \in Keys : k # key[r] => Shown(k) = truth[k]
      BY <1>21 DEF DeleteSibling
    <3>2. \A k \in Keys : k # key[r] => delta'[k] = delta[k] /\ pass'[k] = pass[k]
      BY <1>21 DEF DeleteSibling, BestEffort, RemoveVariant
    <3>3. newer' = newer /\ truth' = truth /\ truth[key[r]] = None
      BY <1>21 DEF DeleteSibling
    <3>4. delta'[key[r]] = None /\ pass'[key[r]] = None
      <4>1. CASE RemoveVariant(key[r], Sibling(found[r]))
        BY <1>21, <4>1 DEF DeleteSibling, RemoveVariant, Sibling
      <4>2. CASE UNCHANGED <<delta, pass>> /\ faults < MaxFaults
        <5>1. MaxFaults <= 1
          BY <1>21, <1>c DEF DeleteSibling, Deletes
        <5>2. faults = 0
          BY <4>2, <5>1, <1>d
        <5>3. QED
          BY <1>21, <4>2, <5>2 DEF DeleteSibling
      <4>3. QED
        BY <1>21, <4>1, <4>2 DEF DeleteSibling, BestEffort, CanFail
    <3>5. QED
      BY <3>1, <3>2, <3>3, <3>4
  <2>4. QED
    BY <2>1, <2>2, <2>3
<1>22. ASSUME NEW r \in Reqs, ScanDeltaspace(r) PROVE ReadInv'
  BY <1>22 DEF ScanDeltaspace, Finish, FreePrefix, FreeRef, KeepLocks
<1>23. ASSUME NEW r \in Reqs, DeleteReference(r) PROVE ReadInv'
  BY <1>23 DEF DeleteReference, Finish, FreePrefix, FreeRef, KeepLocks
<1>24. ASSUME NEW r \in Reqs, InvalidateReference(r) PROVE ReadInv'
  BY <1>24 DEF InvalidateReference, Finish, FreePrefix, FreeRef, KeepLocks
<1>25. ASSUME NEW r \in Reqs, GetResolve(r) PROVE ReadInv'
  BY <1>25, <1>b DEF GetResolve, GetSteps
<1>26. ASSUME NEW r \in Reqs, GetLoad(r) PROVE ReadInv'
  BY <1>26, <1>b DEF GetLoad, GetSteps
<1>27. ASSUME NEW r \in Reqs, GetVerify(r) PROVE ReadInv'
  BY <1>27, <1>b DEF GetVerify, GetSteps
<1>28. ASSUME NEW r \in Reqs, GetFill(r) PROVE ReadInv'
  BY <1>28, <1>b DEF GetFill, GetSteps
<1>29. ASSUME NEW r \in Reqs, GetDelta(r) PROVE ReadInv'
  BY <1>29, <1>b DEF GetDelta, GetSteps
<1>30. ASSUME NEW r \in Reqs, GetStream(r) PROVE ReadInv'
  BY <1>30, <1>b DEF GetStream, GetSteps
<1>31. ASSUME NEW r \in Reqs, RequestError(r) PROVE ReadInv'
  <2>1. VariantInv'
    BY <1>31 DEF RequestError, CanFail, Fail, FailPut, Finish, FreePrefix, FreeRef,
       KeepLocks
  <2>2. BothInv'
    BY <1>31 DEF RequestError, CanFail, Fail, FailPut, Finish, FreePrefix, FreeRef,
       KeepLocks
  <2>3. ShownInv'
    BY <1>31 DEF RequestError, CanFail, Fail, FailPut, Finish, FreePrefix, FreeRef,
       KeepLocks
  <2>4. QED
    BY <2>1, <2>2, <2>3
<1>32. ASSUME NEW r \in Reqs, Cancel(r) PROVE ReadInv'
  BY <1>32 DEF Cancel, CanFail, Fail, Finish, FreePrefix, FreeRef, KeepLocks,
     OneNodeNoGet
<1>33. ASSUME NEW n \in Nodes, Crash(n) PROVE ReadInv'
  <2>1. VariantInv'
    BY <1>33, <1>c DEF Crash, CanFail, Fail, Deletes
  <2>2. BothInv'
    BY <1>33, <1>c DEF Crash, CanFail, Fail, Deletes
  <2>3. ShownInv'
    <3>1. \A k \in Keys : Shown(k) = truth[k]
      <4> SUFFICES ASSUME NEW k \in Keys, NEW r \in Reqs, pc[r] = "del_sibling", key[r] = k
                   PROVE  Shown(k) = truth[k]
        OBVIOUS
      <4>1. MaxFaults <= 1
        BY <1>c DEF Deletes
      <4>2. faults = 0
        BY <1>33, <4>1, <1>d DEF Crash, CanFail
      <4>3. QED
        BY <4>2
    <3>2. QED
      BY <1>33, <3>1 DEF Crash
  <2>4. QED
    BY <2>1, <2>2, <2>3
<1>34. ASSUME NEW n \in Nodes, Evict(n) PROVE ReadInv'
  BY <1>34 DEF Evict
<1>35. QED
  BY <1>1, <1>2, <1>3, <1>4, <1>5, <1>6, <1>7, <1>8, <1>9, <1>10, <1>11, <1>12, <1>13,
     <1>14, <1>15, <1>16, <1>17, <1>18, <1>19, <1>20, <1>21, <1>22, <1>23, <1>24, <1>25,
     <1>26, <1>27, <1>28, <1>29, <1>30, <1>31, <1>32, <1>33, <1>34 DEF Next, Progress,
     PutStep, DeleteStep, GetStep

\* Between mutations a key reads as its last stored content, and as absent after
\* its deletion (resolve_object_metadata over the variants that store_inner,
\* store_passthrough and delete_inner leave): on one node whose requests are not
\* cancelled, with one fault at most, or with any number of faults and no deletes.
THEOREM LastWriteRead ==
  ASSUME OneNodeNoGet, MaxFaults <= 1 \/ NoDeletes PROVE Spec => []ReadsLastWrite
<1>1. Init => ReadInv
  BY DEF Init, ReadInv, VariantInv, BothInv, ShownInv, Shown, Exists
<1>2. IInv /\ ReadInv => ReadsLastWrite
  <2> SUFFICES ASSUME IInv, ReadInv, Quiet, NEW k \in Keys PROVE Visible(k) = truth[k]
    BY DEF ReadsLastWrite
  <2>1. \A r \in Reqs : pc[r] # "del_sibling"
    BY DeltaSpaceConstants DEF IInv, LockInv, Quiet, Node, Steps
  <2>2. Shown(k) = truth[k]
    BY <2>1 DEF ReadInv, ShownInv
  <2>3. Visible(k) = Shown(k)
    BY DEF IInv, DeltaDecodable, Visible, Shown, Exists, Resolved
  <2>4. QED
    BY <2>2, <2>3
<1>3. IInv /\ [Next]_vars => IInv'
  BY NextInv
<1>4. IInv /\ ReadInv /\ [Next]_vars => ReadInv'
  BY NextReads
<1>5. QED
  BY InitInv, <1>1, <1>2, <1>3, <1>4, PTL DEF Spec

-----------------------------------------------------------------------------
(***************************************************************************)
(* NoUnusedReference, where the best-effort deletes succeed.               *)
(***************************************************************************)
\* A request that undoes nothing: not a buffered PUT, or dropped before its end.
Mixed == \E r \in Reqs : op[r] \notin {"put", "get"} \/ pc[r] = "gone"

\* What a PUT knows of its reference and of the variant it wrote.
WriteInv == \A r \in Reqs :
    /\ pc[r] = "put_ref" => fresh[r]
    /\ pc[r] = "clean_pass" => delta[key[r]] # None
    /\ pc[r] = "clean_delta" => pass[key[r]] # None

\* The reference is used, or its creator will still undo it.
Used == ref # None => (\E k \in Keys : Exists(k)) \/ \E r \in Reqs : Undoable(r)

UnusedInv ==
    /\ \A r \in Reqs :
          /\ pc[r] = "idle" => op[r] = "get"
          /\ pc[r] \in {"put_pass", "clean_pass", "clean_delta"} => op[r] # "get"
    /\ Mixed \/ (WriteInv /\ Used)

\* Every step keeps the reference used: whoever created one and fails, or stores a
\* passthrough after all, comes by its rollback.
LEMMA NextUnused ==
  ASSUME OneNodeNoGet \/ NoDeletes, "cleanup" \notin Faults PROVE IInv /\ UnusedInv /\
         [Next]_vars => UnusedInv'
<1> SUFFICES ASSUME IInv, UnusedInv, [Next]_vars PROVE UnusedInv'
  OBVIOUS
<1>0. TypeInv /\ TypeInv'
  BY NextTyped DEF IInv
<1>a. \A r, q \in Reqs : r # q /\ (InRef(r) \/ pc[r] \in Deletes)
                         => ~InRef(q) /\ pc[q] \notin Deletes
  BY Alone DEF IInv
<1>b. OpInv /\ PutInv
  BY DEF IInv
<1> USE <1>0, <1>a, <1>b, DeltaSpaceConstants
    DEF UnusedInv, Mixed, WriteInv, Used, Undoable, InRef, RefSteps, Loaded, Deletes, Exists,
        OpInv, PutInv, TypeInv, TypeOK, Ended, Steps, Waits, GetSteps, Delta, Node, Goto, store,
        locals
<1>1. CASE UNCHANGED vars
  BY <1>1 DEF vars
<1>2. ASSUME NEW r \in Reqs, Arrive(r) PROVE UnusedInv'
  BY <1>2 DEF Arrive
<1>3. ASSUME NEW r \in Reqs, TakePrefix(r) PROVE UnusedInv'
  BY <1>3 DEF TakePrefix
<1>4. ASSUME NEW r \in Reqs, TakeRef(r) PROVE UnusedInv'
  BY <1>4 DEF TakeRef
<1>5. ASSUME NEW r \in Reqs, HasReference(r) PROVE UnusedInv'
  <2>1. fresh'[r] <=> ref = None
    BY <1>5, FreshSet
  <2>2. QED
    BY <1>5, <2>1 DEF HasReference
<1>6. ASSUME NEW r \in Reqs, RefMetadata(r) PROVE UnusedInv'
  BY <1>6 DEF RefMetadata, FailPut, Finish, FreePrefix, FreeRef, KeepLocks
<1>7. ASSUME NEW r \in Reqs, PutReference(r) PROVE UnusedInv'
  BY <1>7 DEF PutReference
<1>8. ASSUME NEW r \in Reqs, CacheReference(r) PROVE UnusedInv'
  BY <1>8 DEF CacheReference
<1>9. ASSUME NEW r \in Reqs, LoadReference(r) PROVE UnusedInv'
  BY <1>9 DEF LoadReference, FailPut, Finish, FreePrefix, FreeRef, KeepLocks
<1>10. ASSUME NEW r \in Reqs, VerifyReference(r) PROVE UnusedInv'
  BY <1>10 DEF VerifyReference, FailPut, Finish, FreePrefix, FreeRef, KeepLocks,
     Verified
<1>11. ASSUME NEW r \in Reqs, FillCache(r) PROVE UnusedInv'
  BY <1>11 DEF FillCache
<1>12. ASSUME NEW r \in Reqs, Encode(r) PROVE UnusedInv'
  BY <1>12 DEF Encode, Finish, FreePrefix, FreeRef, KeepLocks
<1>13. ASSUME NEW r \in Reqs, CommitStreamed(r) PROVE UnusedInv'
  BY <1>13 DEF CommitStreamed, FailPut, Finish, FreePrefix, FreeRef, KeepLocks
<1>14. ASSUME NEW r \in Reqs, PutDelta(r) PROVE UnusedInv'
  BY <1>14 DEF PutDelta, BaseHeld
<1>15. ASSUME NEW r \in Reqs, CleanPassthrough(r) PROVE UnusedInv'
  <2>1. CASE Mixed
    BY <1>15, <2>1 DEF CleanPassthrough, Finish
  <2>2. CASE ~Mixed
    <3>1. op[r] = "put" /\ InRef(r)
      BY <1>15, <2>2 DEF CleanPassthrough
    <3>2. \A q \in Reqs : q # r => pc[q] \notin {"put_ref", "clean_pass", "clean_delta"}
      BY <2>2, <3>1
    <3>3. delta'[key[r]] # None
      BY <1>15, <2>2 DEF CleanPassthrough
    <3>4. QED
      BY <1>15, <2>2, <3>1, <3>2, <3>3 DEF CleanPassthrough, Finish
  <2>3. QED
    BY <2>1, <2>2
<1>16. ASSUME NEW r \in Reqs, PutPassthrough(r) PROVE UnusedInv'
  BY <1>16 DEF PutPassthrough
<1>17. ASSUME NEW r \in Reqs, CleanDelta(r) PROVE UnusedInv'
  <2>1. CASE Mixed
    BY <1>17, <2>1 DEF CleanDelta, Finish
  <2>2. CASE ~Mixed
    <3>1. op[r] = "put" /\ InRef(r)
      BY <1>17, <2>2 DEF CleanDelta
    <3>2. \A q \in Reqs : q # r => pc[q] \notin {"put_ref", "clean_pass", "clean_delta"}
      BY <2>2, <3>1
    <3>3. pass'[key[r]] # None
      BY <1>17, <2>2 DEF CleanDelta
    <3>4. QED
      BY <1>17, <2>2, <3>1, <3>2, <3>3 DEF CleanDelta, Finish
  <2>3. QED
    BY <2>1, <2>2
<1>18. ASSUME NEW r \in Reqs, UndoReference(r) PROVE UnusedInv'
  BY <1>18 DEF UndoReference, BestEffort, CanFail, Fail, Finish, FreePrefix, FreeRef,
     KeepLocks
<1>19. ASSUME NEW r \in Reqs, ResolveForDelete(r) PROVE UnusedInv'
  BY <1>19 DEF ResolveForDelete, Finish, FreePrefix, FreeRef, KeepLocks
<1>20. ASSUME NEW r \in Reqs, DeletePrimary(r) PROVE UnusedInv'
  <2>1. op[r] \in {"delete", "sweep"} /\ op' = op
    BY <1>20 DEF DeletePrimary
  <2>2. Mixed'
    BY <2>1
  <2>3. QED
    BY <1>20, <2>2 DEF DeletePrimary
<1>21. ASSUME NEW r \in Reqs, DeleteSibling(r) PROVE UnusedInv'
  BY <1>21 DEF DeleteSibling, BestEffort, CanFail, Fail, RemoveVariant, Sibling, Finish,
     FreePrefix, FreeRef, KeepLocks
<1>22. ASSUME NEW r \in Reqs, ScanDeltaspace(r) PROVE UnusedInv'
  BY <1>22 DEF ScanDeltaspace, Finish, FreePrefix, FreeRef, KeepLocks
<1>23. ASSUME NEW r \in Reqs, DeleteReference(r) PROVE UnusedInv'
  BY <1>23 DEF DeleteReference, Finish, FreePrefix, FreeRef, KeepLocks
<1>24. ASSUME NEW r \in Reqs, InvalidateReference(r) PROVE UnusedInv'
  BY <1>24 DEF InvalidateReference, Finish, FreePrefix, FreeRef, KeepLocks
<1>25. ASSUME NEW r \in Reqs, GetResolve(r) PROVE UnusedInv'
  BY <1>25 DEF GetResolve
<1>26. ASSUME NEW r \in Reqs, GetLoad(r) PROVE UnusedInv'
  BY <1>26 DEF GetLoad
<1>27. ASSUME NEW r \in Reqs, GetVerify(r) PROVE UnusedInv'
  BY <1>27 DEF GetVerify
<1>28. ASSUME NEW r \in Reqs, GetFill(r) PROVE UnusedInv'
  BY <1>28 DEF GetFill
<1>29. ASSUME NEW r \in Reqs, GetDelta(r) PROVE UnusedInv'
  BY <1>29 DEF GetDelta
<1>30. ASSUME NEW r \in Reqs, GetStream(r) PROVE UnusedInv'
  BY <1>30 DEF GetStream
<1>31. ASSUME NEW r \in Reqs, RequestError(r) PROVE UnusedInv'
  BY <1>31 DEF RequestError, CanFail, Fail, FailPut, Finish, FreePrefix, FreeRef,
     KeepLocks
<1>32. ASSUME NEW r \in Reqs, Cancel(r) PROVE UnusedInv'
  BY <1>32 DEF Cancel, CanFail, Fail, Finish, FreePrefix, FreeRef, KeepLocks
<1>33. ASSUME NEW n \in Nodes, Crash(n) PROVE UnusedInv'
  BY <1>33 DEF Crash, CanFail, Fail
<1>34. ASSUME NEW n \in Nodes, Evict(n) PROVE UnusedInv'
  BY <1>34 DEF Evict
<1>35. QED
  BY <1>1, <1>2, <1>3, <1>4, <1>5, <1>6, <1>7, <1>8, <1>9, <1>10, <1>11, <1>12, <1>13,
     <1>14, <1>15, <1>16, <1>17, <1>18, <1>19, <1>20, <1>21, <1>22, <1>23, <1>24, <1>25,
     <1>26, <1>27, <1>28, <1>29, <1>30, <1>31, <1>32, <1>33, <1>34 DEF Next, Progress,
     PutStep, DeleteStep, GetStep

\* After buffered PUTs that succeed or fail, a reference remains only while some
\* object is stored (store_inner's rollback, the teardown after a lost ratio),
\* where the best-effort deletes themselves succeed.
THEOREM ReferenceUsed ==
  ASSUME OneNodeNoGet \/ NoDeletes, "cleanup" \notin Faults PROVE Spec => []NoUnusedReference
<1>1. Init => UnusedInv
  BY DEF Init, UnusedInv, WriteInv, Used
<1>2. IInv /\ UnusedInv => NoUnusedReference
  BY DeltaSpaceConstants
     DEF IInv, LockInv, UnusedInv, Mixed, Used, Undoable, Loaded, NoUnusedReference, Quiet, Node,
         Steps
<1>3. IInv /\ [Next]_vars => IInv'
  BY NextInv
<1>4. IInv /\ UnusedInv /\ [Next]_vars => UnusedInv'
  BY NextUnused
<1>5. QED
  BY InitInv, <1>1, <1>2, <1>3, <1>4, PTL DEF Spec
=============================================================================
