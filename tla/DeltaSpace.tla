------------------------------ MODULE DeltaSpace ------------------------------
(***************************************************************************)
(* One deltaspace of the engine (deltaglider/engine): the reference        *)
(* baseline, the delta and passthrough variants of its keys, the per-node  *)
(* reference cache, and the requests that read and change them.  A step is *)
(* one storage call or the synchronous code between two awaits.            *)
(*                                                                         *)
(* An object body is an abstract content.  A delta remembers the reference *)
(* bytes it was encoded against (base): decoding it against other bytes    *)
(* fails the SHA-256 check of the read path.                               *)
(*                                                                         *)
(* One engine per node: prefixLock is a mutex of the engine, and a hot     *)
(* apply that rebuilds the engine has two of them until the requests of    *)
(* the old one have ended.  No engine is replaced in this model.           *)
(***************************************************************************)
EXTENDS Integers, FiniteSets

CONSTANTS
    Nodes,      \* proxy instances
    Reqs,       \* requests, one use each
    NodeOf,     \* the node that serves the request
    Keys,       \* object names in the deltaspace
    Contents,   \* object bodies
    Ops,        \* the kinds of request in this instance
    Faults,     \* which faults happen: subset of FaultKinds
    MaxFaults,  \* bound on their number
    None

OpKinds == {"put", "stream", "pass", "delete", "sweep", "get"}

\* cleanup: a best-effort delete fails.  error: a storage call or the codec
\* fails the request.  cancel: the request's future is dropped at an await.
\* crash: the node's process dies.
FaultKinds == {"cleanup", "error", "cancel", "crash"}

ASSUME DeltaSpaceConstants ==
    /\ NodeOf \in [Reqs -> Nodes]
    /\ Ops \subseteq OpKinds
    /\ Faults \subseteq FaultKinds
    /\ MaxFaults \in Nat
    /\ None \notin Contents \cup [val: Contents, base: Contents]
    /\ None \notin Reqs
    /\ Keys # {} /\ Contents # {}

VARIABLES
    ref,         \* reference.bin, or None
    delta,       \* the delta variant of every key: [val, base], or None
    pass,        \* the passthrough variant of every key: its body, or None
    newer,       \* the variant of the key with the latest created_at
    refCache,    \* ReferenceCache entry of every node
    prefixLock,  \* in-process mutex of every node: its holder
    refLock,     \* cross-instance reference lock: its holder
    pc, op, key, val,   \* the requests
    base,        \* reference bytes a request holds
    fresh,       \* the request created the reference (not has_existing_reference)
    found,       \* the variant a DELETE or GET resolved
    truth,       \* the last content stored or deleted under every key
    faults       \* faults so far

store == <<ref, delta, pass, newer>>
locals == <<op, key, val, base, fresh, found>>
vars == <<store, refCache, prefixLock, refLock, pc, locals, truth, faults>>

Delta == [val: Contents, base: Contents]

Ended == {"idle", "ok", "failed", "gone"}

Steps == {"has_ref", "ref_meta", "put_ref", "cache_ref", "load", "verify", "fill",
          "encode", "commit", "put_delta", "clean_pass", "put_pass", "clean_delta", "undo_ref",
          "rollback", "resolve", "del_primary", "del_sibling", "scan", "del_ref",
          "del_inval"}

Waits == {"wait_prefix", "wait_ref", "wait_again", "wait_reclaim"}

GetSteps == {"g_resolve", "g_load", "g_verify", "g_fill", "g_delta", "g_stream"}

TypeOK ==
    /\ ref \in Contents \cup {None}
    /\ delta \in [Keys -> Delta \cup {None}]
    /\ pass \in [Keys -> Contents \cup {None}]
    /\ newer \in [Keys -> {"delta", "pass"}]
    /\ refCache \in [Nodes -> Contents \cup {None}]
    /\ prefixLock \in [Nodes -> Reqs \cup {None}]
    /\ refLock \in Reqs \cup {None}
    /\ pc \in [Reqs -> Ended \cup Steps \cup Waits \cup GetSteps]
    /\ op \in [Reqs -> OpKinds]
    /\ key \in [Reqs -> Keys]
    /\ val \in [Reqs -> Contents]
    /\ base \in [Reqs -> Contents \cup {None}]
    /\ fresh \in [Reqs -> BOOLEAN]
    /\ found \in [Reqs -> {"delta", "pass"}]
    /\ truth \in [Keys -> Contents \cup {None}]
    /\ faults \in 0..MaxFaults

-----------------------------------------------------------------------------
(* Helpers *)

Node(r) == NodeOf[r]
Goto(r, state) == pc' = [pc EXCEPT ![r] = state]
SetCache(r, c) == refCache' = [refCache EXCEPT ![Node(r)] = c]

CanFail(kind) == kind \in Faults /\ faults < MaxFaults
Fail == faults' = faults + 1

\* A best-effort step: it is done, or its error is only logged.
BestEffort(done, skipped) ==
    \/ done /\ UNCHANGED faults
    \/ skipped /\ CanFail("cleanup") /\ Fail

\* The guards are dropped: the locks r holds are free.
FreePrefix(r) ==
    prefixLock' = [n \in Nodes |-> IF prefixLock[n] = r THEN None ELSE prefixLock[n]]
FreeRef(r) == refLock' = IF refLock = r THEN None ELSE refLock

Finish(r, result) == Goto(r, result) /\ FreePrefix(r) /\ FreeRef(r)
KeepLocks == UNCHANGED <<prefixLock, refLock>>

\* resolve_object_metadata: both variants are looked up, the newest wins.
Exists(k) == delta[k] # None \/ pass[k] # None
ResolvedDeltaFirst(k) == IF delta[k] # None THEN "delta" ELSE "pass"  \* mutant: no created_at
Resolved(k) == IF delta[k] # None /\ (pass[k] = None \/ newer[k] = "delta")
                 THEN "delta" ELSE "pass"

-----------------------------------------------------------------------------

Init ==
    /\ ref = None
    /\ delta = [k \in Keys |-> None]
    /\ pass = [k \in Keys |-> None]
    /\ newer = [k \in Keys |-> "delta"]
    /\ refCache = [n \in Nodes |-> None]
    /\ prefixLock = [n \in Nodes |-> None]
    /\ refLock = None
    /\ pc = [r \in Reqs |-> "idle"]
    /\ op = [r \in Reqs |-> "get"]                          \* until it arrives
    /\ key = [r \in Reqs |-> CHOOSE k \in Keys : TRUE]
    /\ val = [r \in Reqs |-> CHOOSE v \in Contents : TRUE]
    /\ base = [r \in Reqs |-> None]
    /\ fresh = [r \in Reqs |-> FALSE]
    /\ found = [r \in Reqs |-> "delta"]
    /\ truth = [k \in Keys |-> None]
    /\ faults = 0

\* A request arrives: size, key and policy checks passed, before the first lock.
Arrive(r) ==
    /\ pc[r] = "idle"
    /\ \E o \in Ops : /\ op' = [op EXCEPT ![r] = o]
                     /\ Goto(r, IF o = "get" THEN "g_resolve" ELSE "wait_prefix")
    /\ \E k \in Keys : key' = [key EXCEPT ![r] = k]
    /\ \E v \in Contents : val' = [val EXCEPT ![r] = v]
    /\ UNCHANGED <<store, refCache, prefixLock, refLock, base, fresh, found, truth,
                   faults>>

\* Mutant: the sweep's reclaim trusts the scan of the last delete.
TakePrefixNoRescan(r) ==
    /\ pc[r] \in {"wait_prefix", "wait_again", "wait_reclaim"}
    /\ prefixLock[Node(r)] = None
    /\ prefixLock' = [prefixLock EXCEPT ![Node(r)] = r]
    /\ Goto(r, CASE pc[r] = "wait_again" -> "put_pass"
                 [] pc[r] = "wait_reclaim" -> "del_ref"
                 [] pc[r] = "wait_prefix" /\ op[r] \in {"put", "stream"} -> "wait_ref"
                 [] pc[r] = "wait_prefix" /\ op[r] = "pass" -> "put_pass"
                 [] OTHER -> "resolve")
    /\ UNCHANGED <<store, refCache, refLock, locals, truth, faults>>

\* acquire_prefix_lock: at the start, again for the passthrough store after a
\* streamed delta lost the ratio, and for reclaim_empty_deltaspace.
TakePrefix(r) ==
    /\ pc[r] \in {"wait_prefix", "wait_again", "wait_reclaim"}
    /\ prefixLock[Node(r)] = None
    /\ prefixLock' = [prefixLock EXCEPT ![Node(r)] = r]
    /\ Goto(r, CASE pc[r] = "wait_again" -> "put_pass"
                 [] pc[r] = "wait_reclaim" -> "scan"
                 [] pc[r] = "wait_prefix" /\ op[r] \in {"put", "stream"} -> "wait_ref"
                 [] pc[r] = "wait_prefix" /\ op[r] = "pass" -> "put_pass"
                 [] OTHER -> "resolve")
    /\ UNCHANGED <<store, refCache, refLock, locals, truth, faults>>

\* acquire_reference_lock (module ReferenceLock): exclusive among nodes.
TakeRef(r) ==
    /\ pc[r] = "wait_ref"
    /\ refLock = None
    /\ refLock' = r
    /\ Goto(r, "has_ref")
    /\ UNCHANGED <<store, refCache, prefixLock, locals, truth, faults>>

\* has_reference.
HasReference(r) ==
    /\ pc[r] = "has_ref"
    /\ fresh' = [fresh EXCEPT ![r] = ref = None]
    /\ Goto(r, IF ref = None THEN "put_ref" ELSE "ref_meta")
    /\ UNCHANGED <<store, refCache, prefixLock, refLock, op, key, val, base, found,
                   truth, faults>>

\* Mutants: no rollback of a fresh reference; a rollback that leaves the cache.
FailPutNoRollback(r) == Finish(r, "failed") /\ UNCHANGED refCache
FailPutKeepsCache(r) ==
    /\ IF op[r] = "put" /\ fresh[r] /\ pc[r] \notin {"has_ref", "put_ref"}
         THEN Goto(r, "rollback") /\ KeepLocks
         ELSE Finish(r, "failed")
    /\ UNCHANGED refCache

\* The request ends with an error.  store_inner undoes a reference it created
\* (cache first, then storage); the streaming path has no such rollback.
FailPut(r) ==
    IF op[r] = "put" /\ fresh[r] /\ pc[r] \notin {"has_ref", "put_ref"}
      THEN Goto(r, "rollback") /\ SetCache(r, None) /\ KeepLocks
      ELSE Finish(r, "failed") /\ UNCHANGED refCache

\* get_reference_metadata of an existing reference; gone meanwhile: an error.
RefMetadata(r) ==
    /\ pc[r] = "ref_meta"
    /\ IF ref # None
         THEN Goto(r, "load") /\ KeepLocks /\ UNCHANGED refCache
         ELSE FailPut(r)
    /\ UNCHANGED <<store, locals, truth, faults>>

\* set_reference_baseline and put_reference_from_file, the storage half.
PutReference(r) ==
    /\ pc[r] = "put_ref"
    /\ ref' = val[r]
    /\ Goto(r, "cache_ref")
    /\ UNCHANGED <<delta, pass, newer, refCache, prefixLock, refLock, locals, truth,
                   faults>>

\* ... and the cache half: the buffered path caches the body, the streaming
\* path invalidates.
CacheReference(r) ==
    /\ pc[r] = "cache_ref"
    /\ SetCache(r, IF op[r] = "put" THEN val[r] ELSE None)
    /\ Goto(r, "load")
    /\ UNCHANGED <<store, prefixLock, refLock, locals, truth, faults>>

\* get_reference_cached: a hit returns the cached bytes as they are.  The
\* streaming path reads the reference from storage into a spool.
LoadReference(r) ==
    /\ pc[r] = "load"
    /\ LET hit == op[r] = "put" /\ refCache[Node(r)] # None
           got == IF hit THEN refCache[Node(r)] ELSE ref
       IN  IF got = None
             THEN FailPut(r) /\ UNCHANGED base
             ELSE /\ base' = [base EXCEPT ![r] = got]
                  /\ Goto(r, IF hit \/ op[r] = "stream" THEN "encode" ELSE "verify")
                  /\ KeepLocks /\ UNCHANGED refCache
    /\ UNCHANGED <<store, op, key, val, fresh, found, truth, faults>>

\* The bytes agree with the reference metadata read beside them, or that read
\* found nothing ("cannot verify").
Verified(bytes) == ref \in {bytes, None}

\* get_reference_cached after a miss: the metadata that is read beside the
\* bytes has to agree with them ...
VerifyReference(r) ==
    /\ pc[r] = "verify"
    /\ IF Verified(base[r])
         THEN Goto(r, "fill") /\ KeepLocks /\ UNCHANGED refCache
         ELSE FailPut(r)
    /\ UNCHANGED <<store, locals, truth, faults>>

\* ... and some time after both answers were made the cache is filled.
FillCache(r) ==
    /\ pc[r] = "fill"
    /\ SetCache(r, base[r])
    /\ Goto(r, "encode")
    /\ UNCHANGED <<store, prefixLock, refLock, locals, truth, faults>>

\* Mutant: the streaming path goes for the mutex a second time while it holds it.
EncodeKeepsLocks(r) ==
    /\ pc[r] = "encode"
    /\ \/ Goto(r, IF op[r] = "stream" THEN "commit" ELSE "put_delta")
       \/ Goto(r, IF op[r] = "stream" THEN "wait_again" ELSE "put_pass")
    /\ KeepLocks
    /\ UNCHANGED <<store, refCache, locals, truth, faults>>

\* The codec: the delta is small enough, or the ratio is lost.  A lost ratio
\* makes the streaming path drop both locks and start over as a passthrough.
Encode(r) ==
    /\ pc[r] = "encode"
    /\ \/ /\ Goto(r, IF op[r] = "stream" THEN "commit" ELSE "put_delta")
          /\ KeepLocks
       \/ /\ op[r] = "put"
          /\ Goto(r, "put_pass")
          /\ KeepLocks
       \/ /\ op[r] = "stream"
          /\ Finish(r, "wait_again")
    /\ UNCHANGED <<store, refCache, locals, truth, faults>>

\* commit_streamed_delta reads the reference metadata once more.
CommitStreamed(r) ==
    /\ pc[r] = "commit"
    /\ IF ref # None
         THEN Goto(r, "put_delta") /\ KeepLocks /\ UNCHANGED refCache
         ELSE FailPut(r)
    /\ UNCHANGED <<store, locals, truth, faults>>

\* put_delta.
PutDelta(r) ==
    /\ pc[r] = "put_delta"
    /\ delta' = [delta EXCEPT ![key[r]] = [val |-> val[r], base |-> base[r]]]
    /\ newer' = [newer EXCEPT ![key[r]] = "delta"]
    /\ truth' = [truth EXCEPT ![key[r]] = val[r]]
    /\ Goto(r, "clean_pass")
    /\ UNCHANGED <<ref, pass, refCache, prefixLock, refLock, locals, faults>>

\* delete_passthrough_idempotent after a delta write, best effort; then done.
CleanPassthrough(r) ==
    /\ pc[r] = "clean_pass"
    /\ BestEffort(pass' = [pass EXCEPT ![key[r]] = None], UNCHANGED pass)
    /\ Finish(r, "ok")
    /\ UNCHANGED <<ref, delta, newer, refCache, locals, truth>>

\* store_passthrough and its streamed, relayed and multipart forms.
PutPassthrough(r) ==
    /\ pc[r] = "put_pass"
    /\ pass' = [pass EXCEPT ![key[r]] = val[r]]
    /\ newer' = [newer EXCEPT ![key[r]] = "pass"]
    /\ truth' = [truth EXCEPT ![key[r]] = val[r]]
    /\ Goto(r, "clean_delta")
    /\ UNCHANGED <<ref, delta, refCache, prefixLock, refLock, locals, faults>>

\* delete_delta_idempotent after a passthrough write, best effort.  A buffered
\* PUT that created the reference then tears it down, cache first.
CleanDelta(r) ==
    /\ pc[r] = "clean_delta"
    /\ BestEffort(delta' = [delta EXCEPT ![key[r]] = None], UNCHANGED delta)
    /\ IF op[r] = "put" /\ fresh[r]
         THEN Goto(r, "undo_ref") /\ SetCache(r, None) /\ KeepLocks
         ELSE Finish(r, "ok") /\ UNCHANGED refCache
    /\ UNCHANGED <<ref, pass, newer, locals, truth>>

\* delete_reference of the reference this PUT created, best effort.
UndoReference(r) ==
    /\ pc[r] \in {"undo_ref", "rollback"}
    /\ BestEffort(ref' = None, UNCHANGED ref)
    /\ Finish(r, IF pc[r] = "undo_ref" THEN "ok" ELSE "failed")
    /\ UNCHANGED <<delta, pass, newer, refCache, locals, truth>>

-----------------------------------------------------------------------------
(* DELETE: delete_inner, delete_in_sweep, reclaim_empty_deltaspace *)

ResolveForDelete(r) ==
    /\ pc[r] = "resolve"
    /\ IF Exists(key[r])
         THEN /\ found' = [found EXCEPT ![r] = Resolved(key[r])]
              /\ Goto(r, "del_primary")
              /\ KeepLocks
         ELSE Finish(r, "failed") /\ UNCHANGED found
    /\ UNCHANGED <<store, refCache, op, key, val, base, fresh, truth, faults>>

RemoveVariant(k, variant) ==
    /\ delta' = IF variant = "delta" THEN [delta EXCEPT ![k] = None] ELSE delta
    /\ pass' = IF variant = "pass" THEN [pass EXCEPT ![k] = None] ELSE pass

Sibling(variant) == IF variant = "delta" THEN "pass" ELSE "delta"

DeletePrimary(r) ==
    /\ pc[r] = "del_primary"
    /\ RemoveVariant(key[r], found[r])
    /\ truth' = [truth EXCEPT ![key[r]] = None]
    /\ Goto(r, "del_sibling")
    /\ UNCHANGED <<ref, newer, refCache, prefixLock, refLock, locals, faults>>

\* delete_sibling_variant_best_effort; a sweep leaves the reclaim for later.
DeleteSibling(r) ==
    /\ pc[r] = "del_sibling"
    /\ BestEffort(RemoveVariant(key[r], Sibling(found[r])), UNCHANGED <<delta, pass>>)
    /\ IF op[r] = "sweep" THEN Finish(r, "wait_reclaim")
                          ELSE Goto(r, "scan") /\ KeepLocks
    /\ UNCHANGED <<ref, newer, refCache, locals, truth>>

\* scan_deltaspace: the reference goes when no other object is left.  The scan sees every
\* file: one whose attributes cannot be read would be passed over (filesystem.rs), as would a
\* variant whose metadata read ends in an I/O error where a key is resolved; neither happens
\* here.
ScanDeltaspace(r) ==
    /\ pc[r] = "scan"
    /\ IF \E k \in Keys : Exists(k)
         THEN Finish(r, "ok")
         ELSE Goto(r, "del_ref") /\ KeepLocks
    /\ UNCHANGED <<store, refCache, locals, truth, faults>>

\* has_reference, delete_reference.
DeleteReference(r) ==
    /\ pc[r] = "del_ref"
    /\ IF ref = None
         THEN Finish(r, "ok") /\ UNCHANGED ref
         ELSE /\ ref' = None
              /\ Goto(r, "del_inval")
              /\ KeepLocks
    /\ UNCHANGED <<delta, pass, newer, refCache, locals, truth, faults>>

\* cache.invalidate, after the storage delete.
InvalidateReference(r) ==
    /\ pc[r] = "del_inval"
    /\ SetCache(r, None)
    /\ Finish(r, "ok")
    /\ UNCHANGED <<store, locals, truth, faults>>

-----------------------------------------------------------------------------
(* GET: retrieve_stream, retrieve_buffered.  No lock is held. *)

GetResolve(r) ==
    /\ pc[r] = "g_resolve"
    /\ found' = [found EXCEPT ![r] = Resolved(key[r])]
    /\ Goto(r, CASE ~Exists(key[r]) -> "failed"
                 [] Resolved(key[r]) = "delta" -> "g_load"
                 [] OTHER -> "g_stream")
    /\ UNCHANGED <<store, refCache, prefixLock, refLock, op, key, val, base, fresh,
                   truth, faults>>

GetLoad(r) ==
    /\ pc[r] = "g_load"
    /\ LET cached == refCache[Node(r)]
           got == IF cached # None THEN cached ELSE ref
       IN  /\ base' = [base EXCEPT ![r] = got]
           /\ Goto(r, CASE got = None -> "failed"
                        [] cached # None -> "g_delta"
                        [] OTHER -> "g_verify")
    /\ UNCHANGED <<store, refCache, prefixLock, refLock, op, key, val, fresh, found,
                   truth, faults>>

GetVerify(r) ==
    /\ pc[r] = "g_verify"
    /\ Goto(r, IF Verified(base[r]) THEN "g_fill" ELSE "failed")
    /\ UNCHANGED <<store, refCache, prefixLock, refLock, locals, truth, faults>>

GetFill(r) ==
    /\ pc[r] = "g_fill"
    /\ SetCache(r, base[r])
    /\ Goto(r, "g_delta")
    /\ UNCHANGED <<store, prefixLock, refLock, locals, truth, faults>>

\* get_delta, decode, verify: a mismatch evicts the cached reference.
GetDelta(r) ==
    /\ pc[r] = "g_delta"
    /\ LET d == delta[key[r]]
       IN  CASE d = None -> Goto(r, "failed") /\ UNCHANGED refCache
             [] d # None /\ d.base = base[r] -> Goto(r, "ok") /\ UNCHANGED refCache
             [] OTHER -> Goto(r, "failed") /\ SetCache(r, None)
    /\ UNCHANGED <<store, prefixLock, refLock, locals, truth, faults>>

GetStream(r) ==
    /\ pc[r] = "g_stream"
    /\ Goto(r, IF pass[key[r]] # None THEN "ok" ELSE "failed")
    /\ UNCHANGED <<store, refCache, prefixLock, refLock, locals, truth, faults>>

-----------------------------------------------------------------------------
(* Faults *)

\* A storage call of the request, the wait for the reference lock, or the codec
\* (no free slot, a panic) fails.
RequestError(r) ==
    /\ CanFail("error") /\ Fail
    /\ pc[r] \in {"wait_ref", "has_ref", "ref_meta", "put_ref", "load", "verify", "encode",
                  "commit", "put_delta", "put_pass", "resolve", "del_primary", "scan", "del_ref"}
    /\ FailPut(r)
    /\ UNCHANGED <<store, locals, truth>>

\* The client goes away: the request's future is dropped, its guards with it.
Cancel(r) ==
    /\ CanFail("cancel") /\ Fail
    /\ pc[r] \in Steps \cup Waits \cup GetSteps
    /\ Finish(r, "gone")
    /\ UNCHANGED <<store, refCache, locals, truth>>

\* The process of n dies: cache and mutexes are lost; the lock object of the
\* reference lock lapses by its TTL, which frees it here.
Crash(n) ==
    /\ CanFail("crash") /\ Fail
    /\ pc' = [r \in Reqs |-> IF Node(r) = n /\ pc[r] \notin Ended THEN "gone" ELSE pc[r]]
    /\ prefixLock' = [prefixLock EXCEPT ![n] = None]
    /\ refLock' = IF refLock # None /\ Node(refLock) = n THEN None ELSE refLock
    /\ refCache' = [refCache EXCEPT ![n] = None]
    /\ UNCHANGED <<store, locals, truth>>

\* ReferenceCache evicts by its byte budget at any time.
Evict(n) ==
    /\ refCache[n] # None
    /\ refCache' = [refCache EXCEPT ![n] = None]
    /\ UNCHANGED <<store, prefixLock, refLock, pc, locals, truth, faults>>

-----------------------------------------------------------------------------

PutStep(r) ==
    \/ HasReference(r) \/ RefMetadata(r) \/ PutReference(r) \/ CacheReference(r)
    \/ LoadReference(r) \/ VerifyReference(r) \/ FillCache(r) \/ Encode(r) \/ CommitStreamed(r)
    \/ PutDelta(r) \/ CleanPassthrough(r) \/ PutPassthrough(r) \/ CleanDelta(r)
    \/ UndoReference(r)

DeleteStep(r) ==
    \/ ResolveForDelete(r) \/ DeletePrimary(r) \/ DeleteSibling(r)
    \/ ScanDeltaspace(r) \/ DeleteReference(r) \/ InvalidateReference(r)

GetStep(r) ==
    GetResolve(r) \/ GetLoad(r) \/ GetVerify(r) \/ GetFill(r) \/ GetDelta(r) \/ GetStream(r)

Progress(r) ==
    Arrive(r) \/ TakePrefix(r) \/ TakeRef(r) \/ PutStep(r) \/ DeleteStep(r) \/ GetStep(r)

Next ==
    \/ \E r \in Reqs : Progress(r) \/ RequestError(r) \/ Cancel(r)
    \/ \E n \in Nodes : Crash(n) \/ Evict(n)

Spec == Init /\ [][Next]_vars

-----------------------------------------------------------------------------
(* Properties *)

Quiet == \A n \in Nodes : prefixLock[n] = None

\* Every stored delta can be decoded against the stored reference: no step, no
\* fault and no interleaving leaves an orphaned delta behind.
DeltaDecodable ==
    \A k \in Keys : delta[k] # None => delta[k].base = ref

\* What a fresh GET of key k would return; "lost" when the delta is orphaned.
Visible(k) ==
    CASE ~Exists(k) -> None
      [] Exists(k) /\ Resolved(k) = "pass" -> pass[k]
      [] OTHER -> IF delta[k].base = ref THEN delta[k].val ELSE "lost"

\* Between mutations a key reads as its last stored content and reads as
\* absent after its deletion, however the storage strategy changed and whatever
\* single fault happened on the way.
ReadsLastWrite == Quiet => \A k \in Keys : Visible(k) = truth[k]

\* After buffered PUTs that succeed or fail, a reference remains only while some
\* object is stored, so no later PUT is anchored to bytes nobody stored (the
\* S-P1-2 rollback of store_inner and the teardown after a lost ratio).  A
\* streamed PUT has no rollback, and a killed request cannot run its own.
NoUnusedReference ==
    /\ Quiet /\ ref # None
    /\ \A r \in Reqs : op[r] \in {"put", "get"} /\ pc[r] # "gone"
    => \E k \in Keys : Exists(k)

\* When no mutation is under way and there is a reference, a cached one is the
\* stored one: a PUT encodes against what later reads will decode with.
CacheCoherent ==
    Quiet /\ ref # None => \A n \in Nodes : refCache[n] \in {None, ref}

\* A key that was stored and not deleted stays stored: the variants that PUTs
\* write and clean up never cancel out.
StoredStays ==
    [][\A k \in Keys : Exists(k) /\ (\A r \in Reqs : op[r] \notin {"delete", "sweep"})
          => Exists(k)']_vars

\* r waits for a lock somebody has.
Blocked(r) ==
    \/ pc[r] \in {"wait_prefix", "wait_again", "wait_reclaim"} /\ prefixLock[Node(r)] # None
    \/ pc[r] = "wait_ref" /\ refLock # None

\* Behind every blocked request some request can go on: the two locks are taken in
\* one order, retaken only after they were dropped, and never left behind.
NoDeadlock ==
    (\E r \in Reqs : Blocked(r)) => \E r \in Reqs : pc[r] \notin Ended /\ ~Blocked(r)
=============================================================================
