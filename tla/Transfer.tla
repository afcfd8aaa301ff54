------------------------------ MODULE Transfer ------------------------------
(***************************************************************************)
(* Copies of one object from a source bucket to a destination              *)
(* (transfer.rs), as replication, lifecycle and the maintenance jobs make  *)
(* them, while clients overwrite the source and write to the destination.  *)
(*                                                                         *)
(* A large passthrough is streamed in parts into a multipart upload; a     *)
(* delta is shipped as it is when the destination's reference is the one   *)
(* it was made from; everything else is read and stored.  A version stands *)
(* for the bytes of one write, their size and their hash; the body of an   *)
(* object is the set of versions its bytes come from.  All actors are on   *)
(* one node, so its lock of the destination's deltaspace is enough.        *)
(***************************************************************************)
EXTENDS Naturals, FiniteSets, Functions

CONSTANTS
    Copies,             \* copies of the object, of several jobs
    Spans,              \* parts a large object is copied in
    Concurrency,        \* parts in flight
    MaxAttempts,        \* DEFAULT_COPY_MAX_ATTEMPTS
    Forms,              \* of "pass", "delta": what the source may be stored as
    MaxWrites,          \* bound: writes of clients to the source
    MaxTouches,         \* bound: writes of clients to the destination
    Faults,             \* of "part", "upload", "finish", "abort", "put", "strip",
                        \* "heal", "blip"
    MaxFaults,          \* bound
    CancelAt,           \* where a copy may be cancelled: of "begin", "parts", "finish"
    None

VARIABLES
    src,        \* the object: [form, v, base], or None
    sref,       \* the reference of its deltaspace
    dst,        \* the copy: [form, body, meta, base, bare, by], or None
    dref,       \* the reference there: [data, meta], or None
    sib,        \* the reference another delta there was made from, or None
    lock,       \* the copy that holds the lock of the destination's deltaspace, or None
    uploads,    \* multipart uploads that are neither completed nor aborted: <<copy, attempt>>
    c,          \* [Copies -> copy]
    version, writes, touches, faults,
    leaked      \* ghost: uploads whose abort failed

vars == <<src, sref, dst, dref, sib, lock, uploads, c, version, writes, touches, faults, leaked>>

Source == <<src, sref, version, writes>>
Dest == <<dst, dref, sib, touches>>

-----------------------------------------------------------------------------
(* Clients.                                                                *)

Fresh(f, v, b) == [form |-> f, v |-> v, base |-> IF f = "delta" THEN b ELSE None]

\* What a write of the source falls into: a part between its check and its read, or a shipped
\* delta between the HEAD and the read of the blob.
Shipping == {"ship", "gate", "seed", "seedmeta", "seedput", "fetch"}
Torn(e) == \/ e.pc \in Shipping
           \/ e.pc = "parts" /\ \E i \in Spans : e.part[i] = "checked"

\* The key is overwritten, on the old reference or, after its deltaspace was emptied, on a
\* new one.
SourceWrite ==
    /\ writes < MaxWrites /\ writes' = writes + 1
    /\ version' = version + 1
    /\ \E f \in Forms, b \in {sref, version'} :
        /\ sref' = IF f = "delta" THEN b ELSE sref
        /\ src' = Fresh(f, version', b)
    /\ c' = [x \in Copies |-> IF Torn(c[x]) THEN [c[x] EXCEPT !.torn = TRUE] ELSE c[x]]
    /\ UNCHANGED <<Dest, lock, uploads, faults, leaked>>

SourceDelete ==
    /\ writes < MaxWrites /\ writes' = writes + 1
    /\ src # None /\ src' = None
    /\ UNCHANGED <<Dest, sref, lock, uploads, c, version, faults, leaked>>

\* What a store of version v leaves at the destination, and of its reference.
Stored(f, v, by) ==
    /\ dref' = IF f = "delta" /\ dref = None THEN [data |-> v, meta |-> v] ELSE dref
    /\ dst' = [form |-> f, body |-> {v}, meta |-> v, bare |-> FALSE, by |-> by,
               base |-> IF f = "delta" THEN dref'.data ELSE None]

\* A client writes to the destination: the object itself, or another one beside it.
Touch ==
    /\ touches < MaxTouches /\ touches' = touches + 1 /\ lock = None
    /\ version' = version + 1
    /\ \/ \E f \in {"pass", "delta"} : Stored(f, version', None) /\ UNCHANGED sib
       \/ /\ dref' = IF dref = None THEN [data |-> version', meta |-> version'] ELSE dref
          /\ sib' = dref'.data /\ UNCHANGED dst
    /\ UNCHANGED <<src, sref, writes, lock, uploads, c, faults, leaked>>

\* The deltaspace of the destination is emptied; its reference goes with it.
Clear ==
    /\ touches < MaxTouches /\ touches' = touches + 1 /\ lock = None
    /\ dst' = None /\ dref' = None /\ sib' = None
    /\ UNCHANGED <<Source, lock, uploads, c, faults, leaked>>

-----------------------------------------------------------------------------
(* A copy: attempts, errors, cancellation.                                 *)

Idle == [pc |-> "idle", torn |-> FALSE, blind |-> FALSE, result |-> "none"]
Goto(x, pc) == c' = [c EXCEPT ![x].pc = pc]
Unlock(x) == lock' = IF lock = x THEN None ELSE lock
Fault(kind) == kind \in Faults /\ faults < MaxFaults /\ faults' = faults + 1

Start(x) ==
    /\ c[x].pc = "idle" /\ c[x].result = "none"
    /\ c' = [c EXCEPT ![x] = [pc |-> "head", attempt |-> 1, head |-> None, data |-> None,
                              part |-> [i \in Spans |-> "todo"], got |-> [i \in Spans |-> None],
                              again |-> FALSE, torn |-> FALSE, blind |-> FALSE,
                              unhealed |-> FALSE, result |-> "none"]]
    /\ UNCHANGED <<Source, Dest, lock, uploads, faults, leaked>>

\* is_transient_copy_error, copy_object_with_retries.
Failed(e, transient) ==
    IF transient /\ e.attempt < MaxAttempts
    THEN [e EXCEPT !.pc = "head", !.attempt = @ + 1, !.torn = FALSE,
                   !.part = [i \in Spans |-> "todo"], !.got = [i \in Spans |-> None]]
    ELSE [e EXCEPT !.pc = "idle", !.result = "error"]
Fail(x, transient) == c' = [c EXCEPT ![x] = Failed(@, transient)] /\ Unlock(x)

Head(x) ==
    /\ c[x].pc = "head"
    /\ IF src = None THEN Fail(x, FALSE)
       ELSE /\ c' = [c EXCEPT ![x].head = src,
                              ![x].pc = IF src.form = "pass" THEN "begin" ELSE "ship"]
            /\ UNCHANGED lock
    /\ UNCHANGED <<Source, Dest, uploads, faults, leaked>>

\* A small passthrough, or a destination without multipart uploads of its own.
Small(x) ==
    /\ c[x].pc = "begin" /\ lock # x
    /\ Goto(x, "retrieve") /\ UNCHANGED <<Source, Dest, lock, uploads, faults, leaked>>

-----------------------------------------------------------------------------
(* stream_copy_passthrough.                                                *)

Upload(x) == <<x, c[x].attempt>>

\* begin_passthrough_multipart: the lock of the deltaspace, held as long as the upload.
BeginLock(x) ==
    /\ c[x].pc = "begin" /\ lock = None
    /\ lock' = x /\ UNCHANGED <<Source, Dest, uploads, c, faults, leaked>>
Create(x) ==
    /\ c[x].pc = "begin" /\ lock = x
    /\ uploads' = uploads \cup {Upload(x)}
    /\ Goto(x, "parts") /\ UNCHANGED <<Source, Dest, lock, faults, leaked>>

InFlight(x) == {i \in Spans : c[x].part[i] \in {"checked", "read"}}

\* fetch_part_once: the source is resolved anew and must be the generation of the HEAD.
UnpinnedGeneration(head) == src # None /\ src.form = "pass"
same_generation(head) == src # None /\ src.form = "pass" /\ src.v = head.v
PartCheck(x, i) ==
    /\ c[x].pc = "parts" /\ c[x].part[i] = "todo" /\ Cardinality(InFlight(x)) < Concurrency
    /\ IF same_generation(c[x].head)
       THEN c' = [c EXCEPT ![x].part[i] = "checked"]
       ELSE c' = [c EXCEPT ![x].pc = "abort", ![x].again = src # None]
    /\ UNCHANGED <<Source, Dest, lock, uploads, faults, leaked>>

\* Then its range is read.
PartRead(x, i) ==
    /\ c[x].pc = "parts" /\ c[x].part[i] = "checked"
    /\ IF src # None /\ src.form = "pass"
       THEN c' = [c EXCEPT ![x].part[i] = "read", ![x].got[i] = src.v]
       ELSE c' = [c EXCEPT ![x].pc = "abort", ![x].again = FALSE]
    /\ UNCHANGED <<Source, Dest, lock, uploads, faults, leaked>>

\* A transient failure of a read is tried again, for this part alone.
PartRetry(x, i) ==
    /\ c[x].pc = "parts" /\ c[x].part[i] = "checked" /\ Fault("part")
    /\ c' = [c EXCEPT ![x].part[i] = "todo"]
    /\ UNCHANGED <<Source, Dest, lock, uploads, leaked>>

PartUpload(x, i) ==
    /\ c[x].pc = "parts" /\ c[x].part[i] = "read"
    /\ c' = [c EXCEPT ![x].part[i] = "up"]
    /\ UNCHANGED <<Source, Dest, lock, uploads, faults, leaked>>

PartUploadFails(x, i) ==
    /\ c[x].pc = "parts" /\ c[x].part[i] = "read" /\ Fault("upload")
    /\ c' = [c EXCEPT ![x].pc = "abort", ![x].again = TRUE]
    /\ UNCHANGED <<Source, Dest, lock, uploads, leaked>>

\* All parts are there: the guard is disarmed.
PartsUp(x) ==
    /\ c[x].pc = "parts" /\ \A i \in Spans : c[x].part[i] = "up"
    /\ Goto(x, "finish") /\ UNCHANGED <<Source, Dest, lock, uploads, faults, leaked>>

\* finish_passthrough_multipart: the metadata carry the hashes of the HEAD.
Finish(x) ==
    /\ c[x].pc = "finish"
    /\ dst' = [form |-> "pass", body |-> Range(c[x].got), meta |-> c[x].head.v, base |-> None,
               bare |-> FALSE, by |-> x]
    /\ uploads' = uploads \ {Upload(x)}
    /\ Unlock(x) /\ Goto(x, "verify")
    /\ UNCHANGED <<Source, dref, sib, touches, faults, leaked>>

FinishFails(x) ==
    /\ c[x].pc = "finish" /\ Fault("finish")
    /\ c' = [c EXCEPT ![x].pc = "abort", ![x].again = TRUE]
    /\ UNCHANGED <<Source, Dest, lock, uploads, leaked>>

\* abort_passthrough_multipart_ref; a failure is logged.  The attempt ends, or, when the copy
\* was cancelled, the task of its guard.
Abort(x) ==
    /\ c[x].pc \in {"abort", "detached"}
    /\ \/ uploads' = uploads \ {Upload(x)} /\ UNCHANGED <<faults, leaked>>
       \/ Fault("abort") /\ leaked' = leaked \cup {Upload(x)} /\ UNCHANGED uploads
    /\ IF c[x].pc = "abort" THEN Fail(x, c[x].again)
       ELSE c' = [c EXCEPT ![x].pc = "idle", ![x].result = "cancelled"] /\ Unlock(x)
    /\ UNCHANGED <<Source, Dest>>

\* The copy is dropped: while its guard is armed it leaves a task that aborts the upload.  The
\* call under way reaches the backend nevertheless.
Detached(x) ==
    /\ c[x].pc = "parts" /\ "parts" \in CancelAt
    /\ Goto(x, "detached")
    /\ UNCHANGED <<Source, Dest, lock, uploads, faults, leaked>>
Cancel(x) ==
    /\ c[x].pc \in {"begin", "finish"} \cap CancelAt
    /\ uploads' = IF c[x].pc = "begin" /\ lock = x THEN uploads \cup {Upload(x)} ELSE uploads
    /\ c' = [c EXCEPT ![x].pc = "idle", ![x].result = "cancelled"] /\ Unlock(x)
    /\ UNCHANGED <<Source, Dest, faults, leaked>>

-----------------------------------------------------------------------------
(* delta_passthrough_copy, under the lock of the destination.              *)

Ship(x) ==
    /\ c[x].pc = "ship" /\ lock = None
    /\ lock' = x /\ Goto(x, "gate") /\ UNCHANGED <<Source, Dest, uploads, faults, leaked>>

Fallback(x) == Goto(x, "retrieve") /\ Unlock(x)

\* can_delta_passthrough: another reference refuses the delta, none is seeded.
AnyReference(head) == dref # None
can_delta_passthrough(head) == dref # None /\ dref.meta = head.base
Gate(x) ==
    /\ c[x].pc = "gate"
    /\ \/ dref = None /\ Goto(x, "seed") /\ UNCHANGED <<lock, faults>>
       \/ can_delta_passthrough(c[x].head) /\ Goto(x, "fetch") /\ UNCHANGED <<lock, faults>>
       \/ /\ dref # None /\ ~can_delta_passthrough(c[x].head)
          /\ Fallback(x) /\ UNCHANGED faults
       \/ /\ dref # None /\ Fault("blip")          \* reference_meta: an error reads as None
          /\ c' = [c EXCEPT ![x].pc = "seed", ![x].blind = TRUE] /\ UNCHANGED lock
    /\ UNCHANGED <<Source, Dest, uploads, leaked>>

\* The reference's bytes, then its metadata, whose hash must be the one the delta names.
SeedData(x) ==
    /\ c[x].pc = "seed"
    /\ IF sref = None THEN Fail(x, FALSE)
       ELSE c' = [c EXCEPT ![x].data = sref, ![x].pc = "seedmeta"] /\ UNCHANGED lock
    /\ UNCHANGED <<Source, Dest, uploads, faults, leaked>>
SeedMeta(x) ==
    /\ c[x].pc = "seedmeta"
    /\ IF sref # c[x].head.base THEN Fallback(x)
       ELSE Goto(x, "seedput") /\ UNCHANGED lock
    /\ UNCHANGED <<Source, Dest, uploads, faults, leaked>>
SeedPut(x) ==
    /\ c[x].pc = "seedput"
    /\ dref' = [data |-> c[x].data, meta |-> c[x].head.base]
    /\ Goto(x, "fetch")
    /\ UNCHANGED <<Source, dst, sib, touches, lock, uploads, faults, leaked>>

\* The blob is read, and stored with the metadata of the HEAD.
Fetch(x) ==
    /\ c[x].pc = "fetch"
    /\ IF src = None \/ src.form # "delta" THEN Fail(x, FALSE)
       ELSE c' = [c EXCEPT ![x].data = src, ![x].pc = "put"] /\ UNCHANGED lock
    /\ UNCHANGED <<Source, Dest, uploads, faults, leaked>>

\* put_delta_raw; a backend may drop the metadata.
Put(x) ==
    /\ c[x].pc = "put"
    /\ \E bare \in BOOLEAN :
        /\ IF bare THEN Fault("strip") ELSE UNCHANGED faults
        /\ dst' = [form |-> "delta", body |-> {c[x].data.v}, base |-> c[x].data.base,
                   meta |-> c[x].head.v, bare |-> bare, by |-> x]
    /\ Goto(x, "verify") /\ Unlock(x)
    /\ UNCHANGED <<Source, dref, sib, touches, uploads, leaked>>

PutFails(x) ==
    /\ c[x].pc \in {"put", "seedput"} /\ Fault("put")
    /\ Fail(x, TRUE)
    /\ UNCHANGED <<Source, Dest, uploads, leaked>>

\* heal_stripped_dest_delta: under the lock again, and only what is still the stripped blob.
Heal(x) ==
    /\ c[x].pc = "heal" /\ lock = None
    /\ dst' = IF dst # None /\ dst.bare /\ dst.body = {c[x].head.v}
              THEN [dst EXCEPT !.bare = FALSE, !.meta = c[x].head.v] ELSE dst
    /\ c' = [c EXCEPT ![x].pc = "idle", ![x].result = "ok"]
    /\ UNCHANGED <<Source, dref, sib, touches, lock, uploads, faults, leaked>>

\* Its HEAD, its read or its write fails, or the backend drops the metadata once more: that
\* is logged, and the copy reports success all the same.
HealFails(x) ==
    /\ c[x].pc = "heal" /\ lock = None /\ Fault("heal")
    /\ c' = [c EXCEPT ![x].pc = "idle", ![x].result = "ok", ![x].unhealed = TRUE]
    /\ UNCHANGED <<Source, Dest, lock, uploads, leaked>>

-----------------------------------------------------------------------------
(* Reading and storing, spooled or in memory; and the last check.          *)

Retrieve(x) ==
    /\ c[x].pc = "retrieve"
    /\ IF src = None THEN Fail(x, FALSE)
       ELSE c' = [c EXCEPT ![x].data = src.v, ![x].pc = "store"] /\ UNCHANGED lock
    /\ UNCHANGED <<Source, Dest, uploads, faults, leaked>>

Store(x) ==
    /\ c[x].pc = "store" /\ lock = None
    /\ \E f \in {"pass", "delta"} : Stored(f, c[x].data, x)
    /\ Goto(x, "verify") /\ UNCHANGED <<Source, sib, touches, lock, uploads, faults, leaked>>

\* verify_destination_sized: an object of the right size, or a shipped blob without metadata.
Verify(x) ==
    /\ c[x].pc = "verify"
    /\ IF dst = None \/ (dst.bare /\ dst.body # {c[x].head.v}) THEN Fail(x, FALSE)
       ELSE /\ c' = IF dst.bare THEN [c EXCEPT ![x].pc = "heal"]
                    ELSE [c EXCEPT ![x].pc = "idle", ![x].result = "ok"]
            /\ UNCHANGED lock
    /\ UNCHANGED <<Source, Dest, uploads, faults, leaked>>

-----------------------------------------------------------------------------
Init ==
    /\ \E f \in Forms : src = Fresh(f, 1, 1)
    /\ sref = 1 /\ version = 1
    /\ dst = None /\ dref = None /\ sib = None
    /\ lock = None /\ uploads = {} /\ leaked = {}
    /\ c = [x \in Copies |-> Idle]
    /\ writes = 0 /\ touches = 0 /\ faults = 0

Next ==
    \/ SourceWrite \/ SourceDelete \/ Touch \/ Clear
    \/ \E x \in Copies :
        \/ Start(x) \/ Head(x) \/ Small(x)
        \/ BeginLock(x) \/ Create(x) \/ PartsUp(x) \/ Finish(x) \/ FinishFails(x)
        \/ Abort(x) \/ Detached(x) \/ Cancel(x)
        \/ \E i \in Spans : \/ PartCheck(x, i) \/ PartRead(x, i) \/ PartRetry(x, i)
                            \/ PartUpload(x, i) \/ PartUploadFails(x, i)
        \/ Ship(x) \/ Gate(x) \/ SeedData(x) \/ SeedMeta(x) \/ SeedPut(x) \/ Fetch(x)
        \/ Put(x) \/ PutFails(x) \/ Heal(x) \/ HealFails(x)
        \/ Retrieve(x) \/ Store(x) \/ Verify(x)

Spec == Init /\ [][Next]_vars

-----------------------------------------------------------------------------
\* An object can be read: its bytes are of the version its metadata name, and a delta's
\* reference is the one it was made from.
Whole(d) ==
    /\ d.body = {d.meta} /\ ~d.bare
    /\ d.form = "delta" => dref # None /\ dref.data = d.base

\* A copy that reports success has left an object that can be read, until another writer has
\* written there; unless the source changed under a read (Torn).  When the backend dropped the
\* metadata of a shipped delta and healing failed too, only they are missing: the blob and its
\* reference are the right ones.
CopyWhole == \A x \in Copies :
    c[x].result = "ok" /\ ~c[x].torn /\ dst # None /\ dst.by = x =>
        Whole(IF c[x].unhealed THEN [dst EXCEPT !.bare = FALSE] ELSE dst)

\* transfer.rs: "then heal the metadata so the object stays restorable".
AlwaysHealed == \A x \in Copies :
    c[x].result = "ok" /\ ~c[x].torn /\ dst # None /\ dst.by = x => Whole(dst)

\* No copy takes the reference from under another object of the destination.
NeighboursKept ==
    /\ sib # None => dref # None /\ dref.data = sib
    /\ dst # None /\ dst.by = None => Whole(dst)

\* ... but one whose look at the destination's reference failed: it took the error for the
\* absence of one (reference_meta).
NeighboursSafe == (\A x \in Copies : ~c[x].blind) => NeighboursKept

\* A copy that is over, or was cancelled, leaves no multipart upload behind whose abort the
\* backend has not refused.
NoneDangling == \A x \in Copies :
    c[x].pc = "idle" => {u \in uploads : u[1] = x} \subseteq leaked

\* transfer.rs: "a concurrent overwrite mid-copy must abort the copy, never mix generations
\* into the dest".
NeverMixed == dst # None => Cardinality(dst.body) = 1
=============================================================================
