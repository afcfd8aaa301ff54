------------------------------ MODULE Multipart ------------------------------
(***************************************************************************)
(* In-memory multipart uploads (multipart.rs) and the handlers that drive  *)
(* them (s3_adapter_s3s.rs): parts with their byte accounting and their    *)
(* promotion to relay files, the completion registry that makes Complete   *)
(* idempotent, the detached completion task, abort, bucket purge and the   *)
(* periodic sweeper.  A step is one critical section of the uploads or of  *)
(* the completions lock, or one engine or file-system call.                *)
(*                                                                         *)
(* A part's content is its size in bytes and is its own MD5; a completion  *)
(* list is a function from part numbers to the MD5s the client was given.  *)
(* A store that reports an error may have put the object all the same: by  *)
(* the time the error is reported it has landed or never will.             *)
(***************************************************************************)
EXTENDS Integers, FiniteSets, FiniteSetsExt, Functions

CONSTANTS
    Uploads,    \* upload ids, used once each
    Parts,      \* part numbers
    Contents,   \* sizes of parts
    Tasks,      \* CompleteMultipartUpload requests, one use each
    Eligible,   \* uploads whose key is delta-eligible
    MaxObject,  \* max_object_size
    MaxTotal,   \* max_total_multipart_bytes
    MaxUploads, \* max_uploads
    Relay,      \* relay threshold, also the limit of a buffered completion
    MaxAge,     \* the stricter of sweep max age and idle TTL
    Timeout,    \* completing_timeout
    TombTtl,    \* COMPLETION_TOMBSTONE_TTL_SECS
    MaxTime,    \* bound on the clock
    MaxFaults,  \* bound on store failures, panics and file errors
    None

ASSUME MultipartConstants ==
    /\ Uploads # {} /\ Parts # {} /\ Contents # {}
    /\ Contents \subseteq Nat \ {0}
    /\ Eligible \subseteq Uploads
    /\ {MaxObject, MaxTotal, MaxUploads, Relay, MaxTime, MaxFaults} \subseteq Nat
    /\ {MaxAge, Timeout, TombTtl} \subseteq Nat \ {0}
    /\ None \notin Nat \cup Tasks

VARIABLES
    now,
    uploads,   \* the uploads map
    made,      \* ids given out
    files,     \* relay files of every upload
    dirTime,   \* mtime of the relay directory, or None
    inflight,  \* in_flight_bytes
    owed,      \* bytes of removed uploads that are still counted; None: nothing to release
    slot,      \* completion registry
    pc, upl, list, mode, data,   \* the Complete requests
    owner,     \* whose outcome a joiner waits for
    outcome,   \* what was sent on the watch channel of the task
    active,    \* relay directories the orphan sweep took for live, or None
    object,    \* what is stored under the upload's key
    aborted,   \* ghost: an abort or purge answered success
    left,      \* ghost: what the last store that landed and did not report success has put
    faults

task == <<pc, upl, list, mode, data, owner, outcome>>
disk == <<files, dirTime>>
bytes == <<inflight, owed>>
ghost == <<aborted, left>>
vars == <<now, uploads, made, disk, bytes, slot, task, active, object, ghost, faults>>

Lists == UNION {[S -> Contents] : S \in (SUBSET Parts) \ {{}}}
Part == [content: Contents, at: {"mem", "file"}]
Upload == [parts: [Parts -> Part \cup {None}], state: {"Open", "Completing"},
           last: Nat, relayed: BOOLEAN, storing: BOOLEAN]
Slot == [kind: {"InFlight"}, list: Lists, at: Nat, owner: Tasks]
        \cup [kind: {"Done"}, list: Lists, at: Nat]

ASSUME NoneIsNoValue == None \notin Upload /\ None \notin Lists

TypeOK ==
    /\ now \in 0..MaxTime
    /\ uploads \in [Uploads -> Upload \cup {None}]
    /\ made \subseteq Uploads
    /\ files \in [Uploads -> [Parts -> Contents \cup {None}]]
    /\ dirTime \in [Uploads -> 0..MaxTime \cup {None}]
    /\ inflight \in Nat
    /\ owed \in [Uploads -> Nat \cup {None}]
    /\ \A u \in Uploads : slot[u] \in Slot \cup {None}
    /\ pc \in [Tasks -> {"idle", "owner", "run", "handoff", "store", "stored", "broken",
                         "finish", "rollback", "publish", "join", "done"}]
    /\ upl \in [Tasks -> Uploads]
    /\ \A t \in Tasks : list[t] \in Lists /\ data[t] \in Lists \cup {None}
    /\ mode \in [Tasks -> {"buffered", "chunks", "relayed"}]
    /\ owner \in [Tasks -> Tasks]
    /\ outcome \in [Tasks -> {"ok", "err", None}]
    /\ active \in (SUBSET Uploads) \cup {None}
    /\ \A u \in Uploads : object[u] \in Lists \cup {None}
    /\ aborted \subseteq Uploads
    /\ \A u \in Uploads : left[u] \in Lists \cup {None}
    /\ faults \in 0..MaxFaults

-----------------------------------------------------------------------------
(* Helpers *)

SizeOf(part) == IF part = None THEN 0 ELSE part.content
Total(parts) == MapThenSumSet(LAMBDA p : SizeOf(parts[p]), Parts)
ListTotal(l) == MapThenSumSet(LAMBDA p : l[p], DOMAIN l)

Goto(t, state) == pc' = [pc EXCEPT ![t] = state]
Fault == faults < MaxFaults /\ faults' = faults + 1

NoPart == [p \in Parts |-> None]

\* load_bytes: the part is in memory, or its relay file still has its MD5.
Readable(u, p) ==
    LET part == uploads[u].parts[p]
    IN  part # None /\ (part.at = "mem" \/ files[u][p] = part.content)

\* validate_parts: every part is there with the MD5 the client names, the sum is
\* within the object limit, and bytes that are read agree with their MD5.
Valid(u, l) ==
    /\ \A p \in DOMAIN l : /\ uploads[u].parts[p] # None
                          /\ uploads[u].parts[p].content = l[p]
                          /\ Readable(u, p)
    /\ ListTotal(l) <= MaxObject

Remove(gone) == uploads' = [u \in Uploads |-> IF u \in gone THEN None ELSE uploads[u]]

\* Bytes and relay directory of removed uploads are released after the lock.
Owe(gone) ==
    owed' = [u \in Uploads |-> IF u \in gone THEN Total(uploads[u].parts) ELSE owed[u]]

-----------------------------------------------------------------------------

Init ==
    /\ now = 0
    /\ uploads = [u \in Uploads |-> None]
    /\ made = {}
    /\ files = [u \in Uploads |-> NoPart]
    /\ dirTime = [u \in Uploads |-> None]
    /\ inflight = 0
    /\ owed = [u \in Uploads |-> None]
    /\ slot = [u \in Uploads |-> None]
    /\ pc = [t \in Tasks |-> "idle"]
    /\ upl = [t \in Tasks |-> CHOOSE u \in Uploads : TRUE]
    /\ list = [t \in Tasks |-> CHOOSE l \in Lists : TRUE]
    /\ mode = [t \in Tasks |-> "buffered"]
    /\ data = [t \in Tasks |-> None]
    /\ owner = [t \in Tasks |-> t]
    /\ outcome = [t \in Tasks |-> None]
    /\ active = None
    /\ object = [u \in Uploads |-> None]
    /\ aborted = {}
    /\ left = [u \in Uploads |-> None]
    /\ faults = 0

\* A tick is of the order of the sweeper's ages: none passes between two
\* adjacent statements of a task, or within one sweep.
Tick ==
    /\ now < MaxTime
    /\ active = None
    /\ \A t \in Tasks : pc[t] # "handoff"
    /\ now' = now + 1
    /\ UNCHANGED <<uploads, made, disk, bytes, slot, task, active, object, ghost, faults>>

\* create_with_relay_policy.
Create(u) ==
    /\ u \notin made
    /\ Cardinality({v \in Uploads : uploads[v] # None}) < MaxUploads
    /\ made' = made \cup {u}
    /\ uploads' = [uploads EXCEPT ![u] = [parts |-> NoPart, state |-> "Open", last |-> now,
                                          relayed |-> FALSE, storing |-> FALSE]]
    /\ UNCHANGED <<now, disk, bytes, slot, task, active, object, ghost, faults>>

\* What the counter grows by when part p becomes c; a re-upload replaces.
GrowthAdds(u, p, c) == c                             \* mutant: counts the old part too
Growth(u, p, c) == c - SizeOf(uploads[u].parts[p])

\* The two caps of upload_part: per object and over all uploads.
WithinCaps(u, growth) ==
    /\ Total(uploads[u].parts) + growth <= MaxObject
    /\ growth > 0 => inflight + growth <= MaxTotal

Promotes(u, growth) == ~uploads[u].relayed /\ Total(uploads[u].parts) + growth > Relay

\* Parts of S that are still in memory are written to the relay directory.
Spill(u, S) ==
    /\ files' = [files EXCEPT ![u] = [p \in Parts |->
            IF p \in S THEN uploads[u].parts[p].content ELSE files[u][p]]]
    /\ dirTime' = [dirTime EXCEPT ![u] = now]

InMemory(u) == {p \in Parts : uploads[u].parts[p] # None /\ uploads[u].parts[p].at = "mem"}

\* upload_part, promotion included.
UploadPart(u, p, c) ==
    LET growth == Growth(u, p, c)
        relay == uploads[u].relayed \/ Promotes(u, growth)
        spilled == IF relay THEN InMemory(u) ELSE {}
    IN  /\ uploads[u] # None /\ uploads[u].state = "Open"
        /\ WithinCaps(u, growth)
        /\ uploads' = [uploads EXCEPT ![u] = [@ EXCEPT !.parts = [q \in Parts |->
                  CASE q = p -> [content |-> c, at |-> IF relay THEN "file" ELSE "mem"]
                    [] q # p /\ q \in spilled -> [uploads[u].parts[q] EXCEPT !.at = "file"]
                    [] OTHER -> uploads[u].parts[q]],
                !.relayed = relay, !.last = now]]
        /\ IF relay
             THEN /\ files' = [files EXCEPT ![u] = [q \in Parts |->
                          CASE q = p -> c
                            [] q # p /\ q \in spilled -> uploads[u].parts[q].content
                            [] OTHER -> files[u][q]]]
                  /\ dirTime' = [dirTime EXCEPT ![u] = now]
             ELSE UNCHANGED disk
        /\ inflight' = inflight + growth
        /\ UNCHANGED <<now, made, owed, slot, task, active, object, ghost, faults>>

\* promote_upload_to_relay fails half way: the parts written so far are files
\* and the upload is still an in-memory one.
PromoteError(u, p, c, S) ==
    /\ uploads[u] # None /\ uploads[u].state = "Open"
    /\ WithinCaps(u, Growth(u, p, c)) /\ Promotes(u, Growth(u, p, c))
    /\ S \subseteq InMemory(u) /\ S # InMemory(u)
    /\ Fault
    /\ Spill(u, S)
    /\ uploads' = [uploads EXCEPT ![u] = [@ EXCEPT !.parts = [q \in Parts |->
            IF q \in S THEN [uploads[u].parts[q] EXCEPT !.at = "file"]
                       ELSE uploads[u].parts[q]]]]
    /\ UNCHANGED <<now, made, bytes, slot, task, active, object, ghost>>

\* Mutant: an abort during a completion.
AbortAnyState(u) ==
    /\ uploads[u] # None
    /\ Remove({u}) /\ Owe({u})
    /\ aborted' = aborted \cup {u}
    /\ UNCHANGED <<now, made, disk, inflight, slot, task, active, object, left, faults>>

\* abort.
Abort(u) ==
    /\ uploads[u] # None /\ uploads[u].state = "Open"
    /\ Remove({u}) /\ Owe({u})
    /\ aborted' = aborted \cup {u}
    /\ UNCHANGED <<now, made, disk, inflight, slot, task, active, object, left, faults>>

\* purge_uploads_for_bucket, from delete_bucket of a bucket without objects.
Purge ==
    LET gone == {u \in Uploads : uploads[u] # None}
    IN  /\ gone # {} /\ \A u \in Uploads : object[u] = None
        /\ \A u \in gone : uploads[u].state # "Completing"
        /\ Remove(gone) /\ Owe(gone)
        /\ aborted' = aborted \cup gone
        /\ UNCHANGED <<now, made, disk, inflight, slot, task, active, object, left, faults>>

DropRelayDir(u) ==
    /\ files' = [files EXCEPT ![u] = NoPart]
    /\ dirTime' = [dirTime EXCEPT ![u] = None]

\* release_bytes and cleanup_relay_dir_for_upload of a removed upload.
Release(u) ==
    /\ owed[u] # None
    /\ inflight' = inflight - owed[u]
    /\ owed' = [owed EXCEPT ![u] = None]
    /\ DropRelayDir(u)
    /\ UNCHANGED <<now, uploads, made, slot, task, active, object, ghost, faults>>

-----------------------------------------------------------------------------
(* CompleteMultipartUpload *)

\* A completion in flight is joined by a request for the same list.
Joins(s, l) == s # None /\ s.kind = "InFlight" /\ s.list = l

\* begin_complete: tombstone, join, owner, or a refusal.
BeginComplete(t, u, l) ==
    /\ pc[t] = "idle" /\ u \in made
    /\ upl' = [upl EXCEPT ![t] = u]
    /\ list' = [list EXCEPT ![t] = l]
    /\ \/ /\ slot[u] = None
          /\ slot' = [slot EXCEPT ![u] = [kind |-> "InFlight", list |-> l, at |-> now,
                                          owner |-> t]]
          /\ Goto(t, "owner")
          /\ UNCHANGED <<owner, outcome>>
       \/ /\ Joins(slot[u], l)
          /\ owner' = [owner EXCEPT ![t] = slot[u].owner]
          /\ Goto(t, "join")
          /\ UNCHANGED <<slot, outcome>>
       \/ /\ slot[u] # None /\ ~Joins(slot[u], l)
          /\ outcome' = [outcome EXCEPT ![t] =
                IF slot[u].kind = "Done" /\ slot[u].list = l THEN "ok" ELSE "err"]
          /\ Goto(t, "done")
          /\ UNCHANGED <<slot, owner>>
    /\ UNCHANGED <<now, uploads, made, disk, bytes, mode, data, active, object, ghost, faults>>

\* The sum of get_part_size over the list, with the sizes the upload has now.
ListedSize(u, l) ==
    MapThenSumSet(LAMBDA p : IF uploads[u] = None THEN 0 ELSE SizeOf(uploads[u].parts[p]),
                  DOMAIN l)

\* check_quota and the choice of the storage path, on the sizes of the moment.
\* A refusal drops the publisher, which frees the slot.
Admit(t) ==
    LET u == upl[t]
    IN  /\ pc[t] = "owner"
        /\ \/ /\ mode' = [mode EXCEPT ![t] =
                    IF u \in Eligible /\ ListedSize(u, list[t]) <= Relay THEN "buffered" ELSE "chunks"]
              /\ Goto(t, "run")
              /\ UNCHANGED <<slot, outcome>>
           \/ /\ slot' = [slot EXCEPT ![u] = None]
              /\ outcome' = [outcome EXCEPT ![t] = "err"]
              /\ Goto(t, "done")
              /\ UNCHANGED mode
        /\ UNCHANGED <<now, uploads, made, disk, bytes, upl, list, data, owner, active, object,
                       ghost, faults>>

\* complete and complete_passthrough: validate and flip to Completing.
Complete(t) ==
    LET u == upl[t]
    IN  /\ pc[t] = "run"
        /\ IF uploads[u] # None /\ uploads[u].state = "Open" /\ Valid(u, list[t])
             THEN /\ uploads' = [uploads EXCEPT ![u] = [@ EXCEPT !.state = "Completing", !.last = now]]
                  /\ data' = [data EXCEPT ![t] = list[t]]
                  /\ IF mode[t] = "chunks" /\ uploads[u].relayed
                       THEN mode' = [mode EXCEPT ![t] = "relayed"] /\ Goto(t, "handoff")
                       ELSE UNCHANGED mode /\ Goto(t, "store")
                  /\ UNCHANGED outcome
             ELSE /\ outcome' = [outcome EXCEPT ![t] = "err"]
                  /\ Goto(t, "publish")
                  /\ UNCHANGED <<uploads, data, mode>>
        /\ UNCHANGED <<now, made, disk, bytes, slot, upl, list, owner, active, object, ghost,
                       faults>>

SetStoring(u, flag) ==
    uploads' = IF uploads[u] = None THEN uploads ELSE [uploads EXCEPT ![u] = [@ EXCEPT !.storing = flag]]

\* store_guard, for relayed parts only.
StoreGuard(t) ==
    /\ pc[t] = "handoff"
    /\ SetStoring(upl[t], TRUE)
    /\ Goto(t, "store")
    /\ UNCHANGED <<now, made, disk, bytes, slot, upl, list, mode, data, owner, outcome, active,
                   object, ghost, faults>>

\* The engine's store: relayed parts are read from their files.
FilesPresent(u, l) == \A p \in DOMAIN l : files[u][p] # None
Payload(t) == IF mode[t] = "relayed" THEN [p \in DOMAIN data[t] |-> files[upl[t]][p]]
                                     ELSE data[t]

Readied(t) == mode[t] = "relayed" => FilesPresent(upl[t], data[t])

\* A store that does not report success: the PUT has landed, or not.
MayLand(t) ==
    \/ UNCHANGED <<object, left>>
    \/ /\ Readied(t)
       /\ object' = [object EXCEPT ![upl[t]] = Payload(t)]
       /\ left' = [left EXCEPT ![upl[t]] = Payload(t)]

EngineStore(t) ==
    LET u == upl[t]
        done == IF mode[t] = "relayed" THEN "stored" ELSE "finish"
        failed == IF mode[t] = "relayed" THEN "broken" ELSE "rollback"
    IN  /\ pc[t] = "store"
        /\ \/ /\ Readied(t)
              /\ object' = [object EXCEPT ![u] = Payload(t)]
              /\ Goto(t, done)
              /\ UNCHANGED <<left, faults>>
           \/ /\ IF Readied(t) THEN Fault ELSE UNCHANGED faults
              /\ MayLand(t)
              /\ Goto(t, failed)
        /\ UNCHANGED <<now, uploads, made, disk, bytes, slot, upl, list, mode, data, owner,
                       outcome, active, aborted>>

\* The guard goes out of scope before the outcome is looked at.
DropStoreGuard(t) ==
    /\ pc[t] \in {"stored", "broken"}
    /\ SetStoring(upl[t], FALSE)
    /\ Goto(t, IF pc[t] = "stored" THEN "finish" ELSE "rollback")
    /\ UNCHANGED <<now, made, disk, bytes, slot, upl, list, mode, data, owner, outcome, active,
                   object, ghost, faults>>

\* rollback_upload.
Rollback(t) ==
    /\ pc[t] = "rollback"
    /\ uploads' = IF uploads[upl[t]] = None THEN uploads
                  ELSE [uploads EXCEPT ![upl[t]] = [@ EXCEPT !.state = "Open"]]
    /\ outcome' = [outcome EXCEPT ![t] = "err"]
    /\ Goto(t, "publish")
    /\ UNCHANGED <<now, made, disk, bytes, slot, upl, list, mode, data, owner, active, object,
                   ghost, faults>>

\* finish_upload, which holds the lock to the end.
FinishUpload(t) ==
    LET u == upl[t]
    IN  /\ pc[t] = "finish"
        /\ IF uploads[u] = None THEN UNCHANGED <<uploads, disk, inflight>>
             ELSE /\ Remove({u})
                  /\ inflight' = inflight - Total(uploads[u].parts)
                  /\ DropRelayDir(u)
        /\ outcome' = [outcome EXCEPT ![t] = "ok"]
        /\ Goto(t, "publish")
        /\ UNCHANGED <<now, made, owed, slot, upl, list, mode, data, owner, active, object,
                       ghost, faults>>

\* publish_completion, then the watch channel.  The slot is not compared with the
\* publisher.
Publish(t) ==
    /\ pc[t] = "publish"
    /\ slot' = [slot EXCEPT ![upl[t]] = IF outcome[t] = "ok"
                  THEN [kind |-> "Done", list |-> list[t], at |-> now] ELSE None]
    /\ Goto(t, "done")
    /\ UNCHANGED <<now, uploads, made, disk, bytes, upl, list, mode, data, owner, outcome,
                   active, object, ghost, faults>>

\* Mutant: a panic says nothing to the joiners.
PanicSilent(t) ==
    /\ pc[t] = "store" /\ Fault /\ MayLand(t)
    /\ SetStoring(upl[t], FALSE)
    /\ slot' = [slot EXCEPT ![upl[t]] = None]
    /\ Goto(t, "done")
    /\ UNCHANGED <<now, made, disk, bytes, upl, list, mode, data, owner, outcome, active,
                   aborted>>

\* The detached task panics in the store: both guards are dropped, the upload
\* stays Completing.
Panic(t) ==
    /\ pc[t] = "store" /\ Fault /\ MayLand(t)
    /\ SetStoring(upl[t], FALSE)
    /\ slot' = [slot EXCEPT ![upl[t]] = None]
    /\ outcome' = [outcome EXCEPT ![t] = "err"]
    /\ Goto(t, "done")
    /\ UNCHANGED <<now, made, disk, bytes, upl, list, mode, data, owner, active, aborted>>

\* await_completion_outcome.
JoinOutcome(t) ==
    /\ pc[t] = "join" /\ pc[owner[t]] = "done" /\ outcome[owner[t]] # None
    /\ outcome' = [outcome EXCEPT ![t] = outcome[owner[t]]]
    /\ Goto(t, "done")
    /\ UNCHANGED <<now, uploads, made, disk, bytes, slot, upl, list, mode, data, owner, active,
                   object, ghost, faults>>

-----------------------------------------------------------------------------
(* The sweeper *)

\* prune_completion_tombstones.
SlotBound == IF 2 * Timeout > TombTtl THEN 2 * Timeout ELSE TombTtl
Pruned(s) ==
    s # None /\ now - s.at >= (IF s.kind = "Done" THEN TombTtl ELSE SlotBound)

\* cleanup_expired: which uploads are too old.
ExpiredUpload(u) ==
    LET up == uploads[u]
    IN  /\ up # None
        /\ IF up.state = "Completing" THEN now - up.last >= Timeout /\ ~up.storing
                                      ELSE now - up.last >= MaxAge

CleanupExpired ==
    LET gone == {u \in Uploads : ExpiredUpload(u)}
    IN  /\ active = None
        /\ gone # {} \/ \E u \in Uploads : Pruned(slot[u])
        /\ Remove(gone) /\ Owe(gone)
        /\ slot' = [u \in Uploads |-> IF Pruned(slot[u]) THEN None ELSE slot[u]]
        /\ UNCHANGED <<now, made, disk, inflight, task, active, object, ghost, faults>>

\* sweep_orphan_relay_artifacts: the live directories under the lock ...
SweepSnapshot ==
    /\ active = None /\ \E u \in Uploads : dirTime[u] # None
    /\ active' = {u \in Uploads : uploads[u] # None /\ uploads[u].relayed}
    /\ UNCHANGED <<now, uploads, made, disk, bytes, slot, task, object, ghost, faults>>

\* ... and the scan without it: directories that are old and not in the snapshot.
Orphan(u) == dirTime[u] # None /\ u \notin active /\ now - dirTime[u] >= Timeout

SweepScan ==
    LET gone == {u \in Uploads : Orphan(u)}
    IN  /\ active # None
        /\ active' = None
        /\ files' = [u \in Uploads |-> IF u \in gone THEN NoPart ELSE files[u]]
        /\ dirTime' = [u \in Uploads |-> IF u \in gone THEN None ELSE dirTime[u]]
        /\ UNCHANGED <<now, uploads, made, bytes, slot, task, object, ghost, faults>>

-----------------------------------------------------------------------------

TaskStep(t) ==
    \/ Admit(t) \/ Complete(t) \/ StoreGuard(t) \/ EngineStore(t) \/ DropStoreGuard(t)
    \/ Rollback(t) \/ FinishUpload(t) \/ Publish(t) \/ JoinOutcome(t)

Next ==
    \/ Tick \/ Purge \/ CleanupExpired \/ SweepSnapshot \/ SweepScan
    \/ \E u \in Uploads : \/ Create(u) \/ Abort(u) \/ Release(u)
                          \/ \E p \in Parts, c \in Contents :
                               \/ UploadPart(u, p, c)
                               \/ \E S \in SUBSET Parts : PromoteError(u, p, c, S)
    \/ \E t \in Tasks : \/ \E u \in Uploads, l \in Lists : BeginComplete(t, u, l)
                        \/ TaskStep(t) \/ Panic(t)

Spec == Init /\ [][Next]_vars

\* The runtime polls every task of a Complete request.
FairSpec == Spec /\ \A t \in Tasks : WF_vars(TaskStep(t))

-----------------------------------------------------------------------------
(* Properties *)

Held == MapThenSumSet(LAMBDA u : IF uploads[u] = None THEN 0 ELSE Total(uploads[u].parts),
                      Uploads)
Owed == MapThenSumSet(LAMBDA u : IF owed[u] = None THEN 0 ELSE owed[u], Uploads)

\* The global counter is what the map holds plus what removed uploads have not
\* given back yet, over re-uploads, aborts, purges, sweeps and completions ...
BytesAccounted == inflight = Held + Owed

\* ... so the buffered bytes of all uploads together stay under the cap.
BytesWithinCap == Held <= MaxTotal

\* Both: the counter is exact, over re-uploads, aborts, purges, sweeps and completions, and
\* the buffered bytes of all uploads together stay under the cap.
BytesExact == BytesAccounted /\ BytesWithinCap

\* An upload whose abort (or bucket purge) was acknowledged is stored no more (C4): under
\* its key there is at most what a store left that had reported a failure before.
AbortIsFinal == \A u \in aborted : object[u] = left[u]

\* A Complete that answered success, as owner, joiner or by the tombstone, has
\* stored exactly the parts its client listed, and they are still there.
CompletedAsListed ==
    \A t \in Tasks : pc[t] = "done" /\ outcome[t] = "ok" => object[upl[t]] = list[t]

\* The store of the request, or of the one it joined, has reported success.
Succeeded(t) == \/ pc[t] \in {"stored", "finish"}
                \/ pc[t] \in {"publish", "done"} /\ outcome[t] = "ok"

\* What is stored under the key of an upload changes only while no store of the upload has
\* reported success, however often Complete is retried, and what it replaces then is what a
\* store left that had reported a failure.
StoreChanges ==
    \A u \in Uploads : object'[u] # object[u] =>
        /\ object[u] = left[u]
        /\ \A t \in Tasks : upl[t] = u => ~Succeeded(t)
StoredOnce == [][StoreChanges]_vars

\* An aborted upload has no object, whatever its stores reported.
AbortedHasNone == \A u \in aborted : object[u] = None

\* While the engine reads relay files under the guard, they are there and are
\* what was validated: neither sweep takes them (H18, H19).
RelayIntact ==
    \A t \in Tasks : pc[t] = "store" /\ mode[t] = "relayed" =>
        \A p \in DOMAIN data[t] : files[upl[t]][p] = data[t][p]

\* An upload whose abort (or bucket purge) was acknowledged is stored no more, so that its
\* key has at most what a store left that had reported a failure (C4), a Complete that
\* answered success, as owner, joiner or by the tombstone, has stored exactly the parts its
\* client listed, and the relay files that the engine reads under the guard are the ones
\* that were validated: neither sweep takes them.
AnswersKept == AbortIsFinal /\ CompletedAsListed /\ RelayIntact

\* Every part of an open upload can still be read when no file error happened.
PartsReadable ==
    faults = 0 =>
        \A u \in Uploads : uploads[u] # None /\ uploads[u].state = "Open" =>
            \A p \in Parts : uploads[u].parts[p] # None => Readable(u, p)

\* A success tombstone answers retries until its TTL, however long a store took.
TombstoneAlways ==
    [][\A u \in Uploads : slot[u] # None /\ slot[u].kind = "Done" /\ slot'[u] # slot[u]
          => now - slot[u].at >= TombTtl]_vars

\* The sweeper reclaims no Completing upload whose store is in flight.
StoreNotSwept ==
    \A t \in Tasks : pc[t] = "store" => uploads[upl[t]] # None

\* After a failed store the client keeps the usual time to retry.
RetryAfterFailure ==
    [][\A t \in Tasks : pc[t] = "rollback" /\ pc'[t] # pc[t] /\ uploads'[upl[t]] # None
          => uploads'[upl[t]].last = now]_vars

\* Every Complete gets its answer, also when the owner panics or fails.
CompletesAnswered ==
    \A t \in Tasks : pc[t] # "idle" ~> pc[t] = "done"
=============================================================================
