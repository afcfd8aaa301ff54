------------------------------ MODULE FrontEnd ------------------------------
(* The S3 front end over one bucket: what a handler checks before it asks  *)
(* the engine for a write or a deletion, and what it owes afterwards, the  *)
(* usage counter and the event (s3_adapter_s3s.rs, object_helpers.rs,      *)
(* form_post.rs).  The checks are apart from the write: the policy of the  *)
(* bucket, the cached usage and the object itself may change in between.   *)
(* The cached usage is of a background scan (usage_scanner.rs); the        *)
(* counter is kept by differences and put right by Refresh                 *)
(* (bucket_usage.rs, scanner.rs).  A store of the engine under its lock is *)
(* one step here; DeltaSpace has it in full.                               *)
EXTENDS Naturals, Integers, FiniteSets, FiniteSetsExt, Sequences

CONSTANTS
    Clients, Keys,
    Sizes,          \* bytes a write may bring
    Ops,            \* operations, of those Steps names
    Paths,          \* of {"store", "relay", "spooled"}: how the engine is asked to store
    Policies,       \* [marked, quota], quota None or in Nat
    Faults,         \* of {"db", "head", "scan", "gone", "crash"}
    MaxRequests, MaxPolicies, MaxRefreshes, MaxFaults,
    None

VARIABLES
    obj,            \* of each key: None or [size, at], at the number of its change
    bucket,         \* the bucket exists
    policy,         \* the policy in force: replication_target_only and quota_bytes
    row,            \* the usage counter, [count, bytes], bytes as stored by differences
    usage,          \* the scanner's cache: None or [size, stale]
    scan,           \* the background scan: None or [left, size]
    refresh,        \* the administrator's Refresh: None or [left, count, bytes, clean]
    told,           \* of each key: the number of the last change before its last event
    changed,        \* of each key: the number of its last change
    req,            \* of each client: its request
    blur,           \* the counter may be off: requests crossed, one was cut off, the object
                    \* it replaced was not found, or its difference was not written
    changes, requests, policies, refreshes, faults

vars == <<obj, bucket, policy, row, usage, scan, refresh, told, changed, req, blur,
          changes, requests, policies, refreshes, faults>>

\* What a handler does, in order, deletions once for each of their keys.  A sweep is a
\* DELETE of a key that ends in "/".
Steps == [put      |-> <<"gate", "bucket", "quota", "condition", "prior", "write", "record",
                         "event">>,
          form     |-> <<"gate", "bucket", "quota", "prior", "write", "record", "event">>,
          complete |-> <<"gate", "bucket", "quota", "prior", "write", "record", "event">>,
          copy     |-> <<"gate", "bucket", "read", "quota", "prior", "write", "record",
                         "event">>,
          delete   |-> <<"gate", "remove", "record", "event">>,
          batch    |-> <<"gate", "remove", "record", "event">>,
          sweep    |-> <<"gate", "list", "remove", "record">>,
          drop     |-> <<"gate", "empty", "drop">>]

Idle == [op |-> "none", at |-> 1, key |-> None, from |-> None, size |-> 0, path |-> None,
         absent |-> FALSE, open |-> FALSE, crossed |-> FALSE, prior |-> None, todo |-> {},
         done |-> {}, owed |-> None]

Active(c) == req[c].op # "none"
Step(c) == IF Active(c) THEN Steps[req[c].op][req[c].at] ELSE "none"
Quiet == \A c \in Clients : ~Active(c)

Size(o) == IF o = None THEN 0 ELSE o.size
Count(o) == IF o = None THEN 0 ELSE 1
Total == [count |-> Cardinality({k \in Keys : obj[k] # None}),
          bytes |-> MapThenSumSet(LAMBDA k : Size(obj[k]), Keys)]

TypeOK ==
    /\ bucket \in BOOLEAN /\ blur \in BOOLEAN
    /\ policy \in Policies
    /\ row \in [count : Int, bytes : Int]
    /\ \A k \in Keys : told[k] <= changes /\ changed[k] <= changes
    /\ \A c \in Clients : Active(c) => req[c].at \in 1..Len(Steps[req[c].op])

-----------------------------------------------------------------------------
Init ==
    /\ obj \in [Keys -> {None} \cup [size : Sizes, at : {0}]]
    /\ bucket = TRUE
    /\ policy \in {p \in Policies : ~p.marked}
    /\ row = Total
    /\ usage = None
    /\ scan = None
    /\ refresh = None
    /\ told = [k \in Keys |-> 0]
    /\ changed = [k \in Keys |-> 0]
    /\ req = [c \in Clients |-> Idle]
    /\ blur = FALSE
    /\ changes = 0 /\ requests = 0 /\ policies = 0 /\ refreshes = 0 /\ faults = 0

Stored == <<obj, told, changed, changes>>
Books == <<row, usage, scan, refresh, blur>>
Bounds == <<requests, policies, refreshes>>

Arrive(c, op, k) ==
    /\ ~Active(c) /\ requests < MaxRequests
    /\ \E n \in Sizes, path \in Paths, absent \in BOOLEAN, from \in Keys :
         /\ absent => op = "put"
         /\ op \notin {"put", "form", "complete"} => n = CHOOSE m \in Sizes : TRUE
         /\ path = "spooled" => op \in {"put", "form"}
         /\ path = "relay" => op = "complete"
         /\ op # "copy" => from = k
         /\ req' = [req EXCEPT ![c] = [Idle EXCEPT
                !.op = op, !.key = k, !.from = from, !.size = n, !.path = path,
                !.absent = absent, !.open = ~policy.marked,
                !.todo = CASE op = "batch" -> Keys [] op = "delete" -> {k} [] OTHER -> {}]]
    /\ requests' = requests + 1
    /\ UNCHANGED <<Stored, Books, bucket, policy, policies, refreshes, faults>>

\* The request's next step: the next key's deletion, if one is left, or the end.
Onward(r) ==
    CASE Steps[r.op][r.at] = "record" /\ r.todo # {} -> [r EXCEPT !.at = @ - 1]
      [] Steps[r.op][r.at] = "list" /\ r.todo = {} -> Idle
      [] OTHER -> IF r.at = Len(Steps[r.op]) THEN Idle ELSE [r EXCEPT !.at = @ + 1]
Pass(c) == req' = [req EXCEPT ![c] = Onward(@)]
Refuse(c) == req' = [req EXCEPT ![c] = Idle]

\* Mutant: the handler does not ask for the bucket's mark.
AllowAll(c) ==
    /\ Step(c) = "gate" /\ Pass(c)
    /\ UNCHANGED <<Stored, Books, Bounds, bucket, policy, faults>>

check_client_write_allowed(c) ==
    /\ Step(c) = "gate"
    /\ IF policy.marked THEN Refuse(c) ELSE Pass(c)
    /\ UNCHANGED <<Stored, Books, Bounds, bucket, policy, faults>>

head_bucket(c) ==
    /\ Step(c) = "bucket"
    /\ IF bucket THEN Pass(c) ELSE Refuse(c)
    /\ UNCHANGED <<Stored, Books, Bounds, bucket, policy, faults>>

\* A copy reads its source in full, and brings that many bytes.
ReadSource(c) ==
    /\ Step(c) = "read"
    /\ IF obj[req[c].from] = None
       THEN Refuse(c)
       ELSE req' = [req EXCEPT ![c] = Onward([@ EXCEPT !.size = obj[req[c].from].size])]
    /\ UNCHANGED <<Stored, Books, Bounds, bucket, policy, faults>>

\* get_or_scan: a cold or stale entry starts a scan, unless one is running.
get_or_scan == IF scan = None /\ (usage = None \/ usage.stale)
               THEN [left |-> Keys, size |-> 0] ELSE scan

OverQuota(n) ==
    /\ policy.quota # None
    /\ policy.quota = 0 \/ (usage # None /\ usage.size + n > policy.quota)

check_quota(c) ==
    /\ Step(c) = "quota"
    /\ IF OverQuota(req[c].size) THEN Refuse(c) ELSE Pass(c)
    /\ scan' = IF policy.quota \in {None, 0} THEN scan ELSE get_or_scan
    /\ UNCHANGED <<Stored, Bounds, bucket, policy, row, usage, refresh, blur, faults>>

\* If-None-Match: *.  A HEAD that fails reads as "no such object".
evaluate_put_etag_conditionals(c) ==
    /\ Step(c) = "condition"
    /\ \/ /\ IF req[c].absent /\ obj[req[c].key] # None THEN Refuse(c) ELSE Pass(c)
          /\ UNCHANGED faults
       \/ /\ req[c].absent /\ "head" \in Faults /\ faults < MaxFaults
          /\ faults' = faults + 1
          /\ Pass(c)
    /\ UNCHANGED <<Stored, Books, Bounds, bucket, policy>>

\* The object that the write is going to replace, for the counter, before the lock; an error
\* reads as none.
prior_for_counter(c) ==
    /\ Step(c) = "prior"
    /\ \/ /\ req' = [req EXCEPT ![c] = Onward([@ EXCEPT !.prior = obj[req[c].key]])]
          /\ UNCHANGED faults
       \/ /\ "head" \in Faults /\ faults < MaxFaults /\ obj[req[c].key] # None
          /\ faults' = faults + 1
          /\ Pass(c)
    /\ UNCHANGED <<Stored, Books, Bounds, bucket, policy>>

\* Other requests and the Refresh notice that the object has changed under them.
Disturb(c, k, r) ==
    /\ req' = [d \in Clients |->
                 IF d = c THEN r
                 ELSE [req[d] EXCEPT !.crossed = @ \/ (Active(d) /\ req[d].key = k)]]
    /\ refresh' = IF refresh = None THEN None ELSE [refresh EXCEPT !.clean = FALSE]

Nothing == [count |-> 0, bytes |-> 0]
Removed(o) == [count |-> -1, bytes |-> -Size(o)]


\* What the counter is told of a store: the relayed parts of a multipart upload bring no
\* prior object, and the spooled delta is not recorded at all.
Counted(path, prior, o) ==
    CASE path = "store"   -> [count |-> 1 - Count(prior), bytes |-> Size(o) - Size(prior)]
      [] path = "relay"   -> [count |-> 1, bytes |-> Size(o)]
      [] path = "spooled" -> Nothing

Write(c) ==
    LET r == req[c]  k == r.key  o == [size |-> r.size, at |-> changes + 1] IN
    /\ Step(c) = "write"
    /\ IF ~bucket
       THEN Refuse(c) /\ UNCHANGED <<Stored, refresh, blur>>
       ELSE /\ obj' = [obj EXCEPT ![k] = o]
            /\ changes' = changes + 1
            /\ changed' = [changed EXCEPT ![k] = changes + 1]
            /\ blur' = (blur \/ obj[k] # r.prior)
            /\ Disturb(c, k, Onward([r EXCEPT !.owed = Counted(r.path, r.prior, o),
                                                 !.done = {k}]))
            /\ UNCHANGED told
    /\ UNCHANGED <<Bounds, bucket, policy, row, usage, scan, faults>>

\* What a listing of the prefix shows, at once: a sweep of one page.
List(c) ==
    /\ Step(c) = "list"
    /\ req' = [req EXCEPT ![c] = Onward([@ EXCEPT !.todo = {k \in Keys : obj[k] # None}])]
    /\ UNCHANGED <<Stored, Books, Bounds, bucket, policy, faults>>

\* Deletion of one key: what is deleted is read under the lock.  A key that is not there
\* is skipped without an event.
Remove(c) ==
    LET r == req[c] IN
    /\ Step(c) = "remove"
    /\ \E k \in r.todo :
         LET rest == [r EXCEPT !.todo = @ \ {k}] IN
         IF obj[k] = None
         THEN /\ req' = [req EXCEPT ![c] = Onward([rest EXCEPT !.owed = Nothing])]
              /\ UNCHANGED <<obj, changes, changed, refresh>>
         ELSE /\ obj' = [obj EXCEPT ![k] = None]
              /\ changes' = changes + 1
              /\ changed' = [changed EXCEPT ![k] = changes + 1]
              /\ Disturb(c, k, Onward([rest EXCEPT !.done = @ \cup {k},
                                                   !.owed = Removed(obj[k])]))
    /\ UNCHANGED <<Bounds, bucket, policy, told, row, usage, scan, blur, faults>>

\* apply_net: one difference for the whole change, after the lock is released; an error is
\* logged and dropped.
Record(c) ==
    /\ Step(c) = "record"
    /\ \/ /\ row' = [f \in DOMAIN row |-> row[f] + req[c].owed[f]]
          /\ UNCHANGED <<blur, faults>>
       \/ /\ "db" \in Faults /\ faults < MaxFaults /\ req[c].owed # Nothing
          /\ faults' = faults + 1 /\ blur' = TRUE
          /\ UNCHANGED row
    /\ refresh' = IF refresh = None THEN None ELSE [refresh EXCEPT !.clean = FALSE]
    /\ Pass(c)
    /\ UNCHANGED <<Stored, Bounds, bucket, policy, usage, scan>>

\* enqueue_object_events: one transaction for the request; a failure is logged and dropped.
emit_object_event(c) == told' = [k \in Keys |-> IF k \in req[c].done THEN changes ELSE told[k]]
Emit(c) ==
    /\ Step(c) = "event"
    /\ \/ /\ emit_object_event(c)
          /\ UNCHANGED faults
       \/ /\ "db" \in Faults /\ faults < MaxFaults /\ req[c].done # {}
          /\ faults' = faults + 1
          /\ UNCHANGED told
    /\ Pass(c)
    /\ UNCHANGED <<obj, changed, changes, Books, Bounds, bucket, policy>>

\* DELETE bucket: the front end looks for a visible object, and so does the backend.
IsEmpty == \A k \in Keys : obj[k] = None
LookEmpty(c) ==
    /\ Step(c) = "empty"
    /\ IF bucket /\ IsEmpty THEN Pass(c) ELSE Refuse(c)
    /\ UNCHANGED <<Stored, Books, Bounds, bucket, policy, faults>>
DropBucket(c) ==
    /\ Step(c) = "drop"
    /\ bucket' = (bucket /\ ~IsEmpty)
    /\ Pass(c)
    /\ UNCHANGED <<Stored, Books, Bounds, policy, faults>>
CreateBucket ==
    /\ ~bucket /\ bucket' = TRUE
    /\ UNCHANGED <<Stored, Books, Bounds, policy, req, faults>>

-----------------------------------------------------------------------------
\* do_scan, an object at a time; its entry replaces the cached one.
ScanObject ==
    /\ scan # None /\ scan.left # {}
    /\ \E k \in scan.left :
         scan' = [left |-> scan.left \ {k}, size |-> scan.size + Size(obj[k])]
    /\ UNCHANGED <<Stored, Bounds, bucket, policy, row, usage, refresh, blur, req, faults>>
ScanDone ==
    /\ scan # None
    /\ \/ /\ scan.left = {}
          /\ usage' = [size |-> scan.size, stale |-> FALSE]
          /\ UNCHANGED faults
       \/ /\ "scan" \in Faults /\ faults < MaxFaults
          /\ faults' = faults + 1
          /\ UNCHANGED usage
    /\ scan' = None
    /\ UNCHANGED <<Stored, Bounds, bucket, policy, row, refresh, blur, req>>
Expire ==
    /\ usage # None /\ ~usage.stale
    /\ usage' = [usage EXCEPT !.stale = TRUE]
    /\ UNCHANGED <<Stored, Bounds, bucket, policy, row, scan, refresh, blur, req, faults>>

\* Refresh: a full scan, whose totals replace the row.
refresh_bucket_usage ==
    /\ refresh = None /\ refreshes < MaxRefreshes
    /\ refresh' = [left |-> Keys, count |-> 0, bytes |-> 0,
                   clean |-> \A c \in Clients : Step(c) # "record"]
    /\ refreshes' = refreshes + 1
    /\ UNCHANGED <<Stored, bucket, policy, row, usage, scan, blur, req, requests, policies,
                   faults>>
scan_bucket_totals ==
    /\ refresh # None /\ refresh.left # {}
    /\ \E k \in refresh.left :
         refresh' = [refresh EXCEPT !.left = @ \ {k}, !.count = @ + Count(obj[k]),
                                    !.bytes = @ + Size(obj[k])]
    /\ UNCHANGED <<Stored, Bounds, bucket, policy, row, usage, scan, blur, req, faults>>
overwrite_from_scan ==
    /\ refresh # None /\ refresh.left = {}
    /\ \/ /\ row' = [count |-> refresh.count, bytes |-> refresh.bytes]
          /\ blur' = ~refresh.clean
          /\ UNCHANGED faults
       \/ /\ "db" \in Faults /\ faults < MaxFaults /\ faults' = faults + 1
          /\ UNCHANGED <<row, blur>>
    /\ refresh' = None
    /\ UNCHANGED <<Stored, Bounds, bucket, policy, usage, scan, req>>

\* A new configuration is published; a bucket may become a replication target.
Publish ==
    /\ policies < MaxPolicies
    /\ policies' = policies + 1
    /\ policy' \in Policies \ {policy}
    /\ req' = [c \in Clients |-> [req[c] EXCEPT !.open = @ \/ (Active(c) /\ ~policy'.marked)]]
    /\ UNCHANGED <<Stored, Books, bucket, requests, refreshes, faults>>

\* The client goes away and the handler is dropped where it waits, after the store and before
\* the event too.  A completion is a task of its own.
Disconnect(c) ==
    /\ Active(c) /\ req[c].op # "complete"
    /\ "gone" \in Faults /\ faults < MaxFaults /\ faults' = faults + 1
    /\ req' = [req EXCEPT ![c] = Idle]
    /\ blur' = (blur \/ Step(c) = "record")
    /\ UNCHANGED <<Stored, Bounds, bucket, policy, row, usage, scan, refresh>>

\* The process dies: requests, the scan and the cache go with it.
Crash ==
    /\ "crash" \in Faults /\ faults < MaxFaults
    /\ faults' = faults + 1
    /\ blur' = (blur \/ \E c \in Clients : Step(c) = "record")
    /\ req' = [c \in Clients |-> Idle]
    /\ usage' = None /\ scan' = None /\ refresh' = None
    /\ UNCHANGED <<Stored, Bounds, bucket, policy, row>>

Request(c) ==
    \/ check_client_write_allowed(c) \/ head_bucket(c) \/ ReadSource(c) \/ check_quota(c)
    \/ evaluate_put_etag_conditionals(c) \/ prior_for_counter(c) \/ Write(c)
    \/ List(c) \/ Remove(c) \/ Record(c) \/ Emit(c) \/ LookEmpty(c) \/ DropBucket(c)

Next ==
    \/ \E c \in Clients, op \in Ops, k \in Keys : Arrive(c, op, k)
    \/ \E c \in Clients : Request(c) \/ Disconnect(c)
    \/ CreateBucket \/ ScanObject \/ ScanDone \/ Expire
    \/ refresh_bucket_usage \/ scan_bucket_totals \/ overwrite_from_scan
    \/ Publish \/ Crash

Spec == Init /\ [][Next]_vars

-----------------------------------------------------------------------------
\* The counter is the bucket's truth whenever no request is under way, however the
\* differences were ordered: unless requests crossed on a key, one was cut off, the lookup of
\* the replaced object failed or a difference was not written; and again after a Refresh that
\* ran alone (apply_net, overwrite_from_scan).  This is of stores through store() alone
\* (Paths): relayed uploads and spooled deltas are miscounted.
CounterTrue == Quiet /\ ~blur => row = Total

\* Whenever no request is under way, the last change of every key is followed by an event
\* for it, so that a consumer that reads the key afterwards sees that change: unless an
\* append failed, the client went away or the process died (enqueue_object_events).
EventsFollow == Quiet /\ faults = 0 => \A k \in Keys : told[k] >= changed[k]

\* A request that is going to change a bucket found it open to clients at some moment since
\* it arrived (check_client_write_allowed in every handler).
OpenToClients == \A c \in Clients : Step(c) \in {"write", "remove", "drop"} => req[c].open

\* PUT with If-None-Match: * is not going to replace an object, unless another request
\* changes the key after the check, or the HEAD failed.
CreatesOnly ==
    \A c \in Clients :
      Step(c) \in {"prior", "write"} /\ req[c].absent /\ ~req[c].crossed /\ faults = 0
        => obj[req[c].key] = None

\* As a client of If-None-Match reads it: the object it creates was not there.
CreatedOnce ==
    \A c \in Clients : Step(c) = "write" /\ req[c].absent => obj[req[c].key] = None

\* As the documentation of the mark reads: no client writes to a replication target.
SingleWriter == \A c \in Clients : Step(c) \in {"write", "remove"} => ~policy.marked
=============================================================================
