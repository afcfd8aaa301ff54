------------------------------- MODULE Parity -------------------------------
(***************************************************************************)
(* The parity audit of a replication rule: the background job started by   *)
(* POST verify (api/admin/replication.rs), the scan, resolution and diff   *)
(* of both sides (replication/parity.rs), the advice attached to each      *)
(* finding (replication/remediation.rs) and the result row, lease and      *)
(* per-object cache in the configuration database (state_store.rs).        *)
(*                                                                         *)
(* A content is a number; two contents of the same parity have the same    *)
(* size.  An object is its content, the way it is stored and two times:    *)
(* at, the created_at of its metadata, and lm, the backend's modification  *)
(* time.  Keys are in the destination namespace on both sides.  Progress   *)
(* counters and rule ownership, which no verdict depends on, are left out. *)
(***************************************************************************)
EXTENDS Naturals, FiniteSets

CONSTANTS Keys,         \* numbered in listing order
          Sidecars,     \* the keys not eligible for deltas: .sha1, .sha256, .sha512
          GlobbedOut,   \* keys the rule's globs leave out of the source
          Kinds,        \* [form, own, parts]: how a write stores an object
          Starts,       \* the kinds of the objects that are there from the start
          Audits,       \* identities of the spawned audits
          Rules,        \* [auth, crypt, conflict, deletes, max]
          Revert,       \* clients may write a content a second time
          DeltaSize(_), \* the size of a content's delta
          MaxContent, MaxTrouble,    \* bounds
          None

VARIABLES rule, src, dst, top,      \* the buckets; the contents written so far
          busy,                     \* a replication run holds the rule's lease
          cache,                    \* replication_parity_objects
          row,                      \* the rule's row of replication_parity
          cancels,                  \* parity_cancels: the registered audit
          task,                     \* the audits
          trouble                   \* of failure, stall and crash, what there was so far

vars == <<rule, src, dst, top, busy, cache, row, cancels, task, trouble>>
buckets == <<rule, src, dst, top>>
Trouble(kind) == /\ kind \notin trouble /\ Cardinality(trouble) < MaxTrouble
                 /\ trouble' = trouble \cup {kind}

Sides == {"src", "dst"}
Bucket(s) == IF s = "src" THEN src ELSE dst

Size(c) == c % 2

-----------------------------------------------------------------------------
(* What a HEAD and a lite list tell of an object.                          *)

Facts(o, v) == [sha |-> IF o.kind.own THEN o.c ELSE 0, size |-> Size(o.c),
                etag |-> <<o.c, o.kind.parts>>, parts |-> o.kind.parts,
                at |-> o.at, ver |-> v]

(* ObjState::from_metadata: stored_version.  On a filesystem it is the     *)
(* size of the delta and the hash of the reference (the prefix's, which    *)
(* stays); on S3 the ETag of the delta is part of it.                      *)
StoredVersion(s, o) ==
    IF o.kind.form = "pass" THEN <<"pass", o.c, o.kind.parts>>
    ELSE IF s \in rule.auth THEN <<"delta", DeltaSize(o.c), 0>>
    ELSE <<"delta", DeltaSize(o.c), o.c>>

Sealed(s, o) == s \in rule.crypt /\ o.kind.own

(* A list without HEADs: authoritative on a filesystem; on S3 the size and *)
(* etag of the stored blob and its modification time.                      *)
Lite(s, o) ==
    LET f == Facts(o, StoredVersion(s, o))
    IN  IF s \in rule.auth THEN f
        ELSE [f EXCEPT !.sha = 0, !.at = o.lm,
                       !.size = IF o.kind.form = "delta" THEN DeltaSize(o.c)
                                ELSE IF Sealed(s, o) THEN @ + 10 ELSE @,
                       !.etag = IF o.kind.form = "delta" \/ Sealed(s, o)
                                THEN <<o.c, 9, s>> ELSE @]

PureMirror == rule.auth = Sides

NeedsLogical(k) ==
    /\ ~PureMirror
    /\ k \notin Sidecars       \* a verbatim sidecar is not eligible for deltas

-----------------------------------------------------------------------------
(* compare_pair, diff_parity and derive_verdict.                           *)

ComparePair(a, b) ==
    IF a.size # b.size THEN "mismatch"
    ELSE IF a.sha # 0 /\ b.sha # 0
         THEN IF a.sha = b.sha THEN "match" ELSE "mismatch"
    ELSE IF a.parts = b.parts
         THEN IF a.etag = b.etag THEN "match" ELSE "mismatch"
    ELSE "unverifiable"

Finding(m, k) ==
    CASE m.src[k] = None /\ m.dst[k] = None -> "absent"
      [] m.src[k] # None /\ m.dst[k] = None -> "missing"
      [] m.src[k] = None /\ m.dst[k] # None -> "orphan"
      [] OTHER -> ComparePair(m.src[k], m.dst[k])

DeriveVerdict(m, truncated) ==
    LET found == {Finding(m, k) : k \in Keys}
    IN  IF found \cap {"missing", "orphan", "mismatch"} # {} THEN "AtRisk"
        ELSE IF truncated \/ "unverifiable" \in found THEN "Incomplete"
        ELSE "Safe"

(* analyze_finding, for a key whose copies have not been failing.          *)

AnalyzeNewerWins(a, b) == IF a.at > b.at THEN "Yes" ELSE "No"

AnalyzeMismatch(a, b) ==
    CASE rule.conflict = "content-diff" -> "Yes"
      [] rule.conflict = "skip-if-dest-exists" -> "No"
      [] rule.conflict = "newer-wins" -> AnalyzeNewerWins(a, b)

AnalyzeFinding(m, k) ==
    CASE Finding(m, k) = "missing"  -> "Yes"
      [] Finding(m, k) = "mismatch" -> AnalyzeMismatch(m.src[k], m.dst[k])
      [] Finding(m, k) = "orphan"   -> IF rule.deletes THEN "Yes" ELSE "No"
      [] OTHER -> "none"

annotate_findings(m) == [k \in Keys |-> AnalyzeFinding(m, k)]

(* What a run of the rule does to a key, from the objects' own metadata:   *)
(* the planner's should_replicate, or the mirror delete.                   *)
RunActs(k) ==
    LET s == src[k]
        d == dst[k]
        f == Facts(s, 0)
        g == Facts(d, 0)
    IN  IF s = None \/ k \in GlobbedOut THEN d # None /\ s = None /\ rule.deletes
        ELSE IF d = None THEN TRUE
        ELSE CASE rule.conflict = "skip-if-dest-exists" -> FALSE
               [] rule.conflict = "newer-wins" -> s.at > d.at
               [] rule.conflict = "content-diff" ->
                    \/ f.size # g.size
                    \/ f.sha # 0 /\ g.sha # 0 /\ f.sha # g.sha
                    \/ f.parts = g.parts /\ f.etag # g.etag

-----------------------------------------------------------------------------
(* The job.                                                                *)

NoMap == [k \in Keys |-> None]
Off == [pc |-> "off", m |-> [src |-> NoMap, dst |-> NoMap],
        need |-> [src |-> {}, dst |-> {}], done |-> {}, unres |-> {},
        cut |-> FALSE, flag |-> FALSE, asked |-> FALSE, quiet |-> TRUE,
        res |-> None]

NoRow == [status |-> "idle", outcome |-> None, owner |-> None, lapsed |-> FALSE]
InFlight(r) == r.status \in {"running", "cancelling"}

Init ==
    /\ rule \in Rules
    /\ \E kd \in Starts, s \in SUBSET Keys, d \in SUBSET Keys :
         /\ d \subseteq s
         /\ src = [k \in Keys |-> IF k \in s
                    THEN [c |-> 1, kind |-> IF k \in Sidecars
                                            THEN [kd EXCEPT !.form = "pass"] ELSE kd,
                          at |-> 1, lm |-> 1] ELSE None]
         /\ dst = [k \in Keys |-> IF k \in d THEN src[k] ELSE None]
    /\ top = 1 /\ busy = FALSE
    /\ cache = [s \in Sides |-> NoMap]
    /\ row = NoRow /\ cancels = None
    /\ task = [a \in Audits |-> Off]
    /\ trouble = {}

Goto(a, pc) == task' = [task EXCEPT ![a].pc = pc]

-----------------------------------------------------------------------------
(* The rows of the database: the lease, the result and the cache.          *)

Leasable(r) == r.owner = None \/ r.lapsed
TryAcquire(r, a) == IF Leasable(r) THEN [r EXCEPT !.owner = a, !.lapsed = FALSE] ELSE r
Renewable(r, a) == r.owner = a /\ ~r.lapsed
ReleaseLease(r, a) == [r EXCEPT !.owner = IF @ = a THEN None ELSE @]

ResultRunning(r) == [r EXCEPT !.status = "running"]
ResultDone(r, outcome) == [r EXCEPT !.status = "done", !.outcome = outcome]
ResultFailed(r) == [r EXCEPT !.status = "failed"]
ResultCancelled(r) == [r EXCEPT !.status = "cancelled"]
RequestCancel(r) == [r EXCEPT !.status = IF @ = "running" THEN "cancelling" ELSE @]
ReapIfDead(r) ==
    IF InFlight(r) /\ Leasable(r)
    THEN [ResultFailed(r) EXCEPT !.owner = None, !.lapsed = FALSE] ELSE r

\* A row for each side and key.
CacheGet(s, keys, map) == [k \in Keys |-> IF k \in keys THEN cache[s][k] ELSE map[k]]
CachePut(s, keys, map) ==
    [cache EXCEPT ![s] = [k \in Keys |-> IF k \in keys THEN map[k] ELSE @[k]]]
CacheRetain(live) == [s \in Sides |-> [k \in Keys |->
                          IF k \in live[s] THEN cache[s][k] ELSE None]]

-----------------------------------------------------------------------------

(* POST verify: refused while a run holds the rule's lease ...             *)
Gate(a) ==
    /\ task[a].pc = "off" /\ ~busy
    /\ Goto(a, "gated")
    /\ UNCHANGED <<buckets, busy, cache, row, cancels, trouble>>

(* ... then the audit's own lease, the row and the cancel flag.            *)
Acquire(a) ==
    /\ task[a].pc = "gated"
    /\ row' = TryAcquire(row, a)
    /\ Goto(a, IF Leasable(row) THEN "leased" ELSE "off")
    /\ UNCHANGED <<buckets, busy, cache, cancels, trouble>>

SetRunning(a) ==
    /\ task[a].pc = "leased"
    /\ row' = ResultRunning(row)
    /\ Goto(a, "spawn")
    /\ UNCHANGED <<buckets, busy, cache, cancels, trouble>>

Spawn(a) ==
    /\ task[a].pc = "spawn"
    /\ cancels' = a
    /\ task' = [task EXCEPT ![a] = [Off EXCEPT !.pc = "scan_src"]]
    /\ UNCHANGED <<buckets, busy, cache, row, trouble>>

(* The terminal write, under one database lock: a pending cancel wins over *)
(* a result; the lease is released if it is still this audit's.            *)
CancelPending == row.status = "cancelling"

SettledAs(a, result) ==
    CASE result = "ok" /\ ~CancelPending -> ResultDone(row, task[a].res)
      [] result = "failed"               -> ResultFailed(row)
      [] OTHER                           -> ResultCancelled(row)

SettleAudit(a, result) ==
    /\ row' = ReleaseLease(SettledAs(a, result), a)
    /\ task' = [task EXCEPT ![a] = Off]
    /\ cancels' = IF cancels = a THEN None ELSE cancels
    /\ UNCHANGED <<buckets, busy>>

Working(a) == task[a].pc \notin {"off", "gated", "leased", "spawn"}

(* scan_prefix of one side, capped at max kept objects.  The in-process    *)
(* flag is read on every page.                                             *)
FirstOf(keys, n) == {k \in keys : Cardinality({j \in keys : j < k}) < n}

\* The closures of the two scans: the source's keeps what the rule's globs take.
Kept(s) == {k \in Keys : Bucket(s)[k] # None /\ (s = "src" => k \notin GlobbedOut)}

Scan(a, s) ==
    /\ task[a].pc = IF s = "src" THEN "scan_src" ELSE "scan_dst"
    /\ UNCHANGED <<cache, trouble>>
    /\ IF task[a].flag THEN SettleAudit(a, "cancelled")
       ELSE LET seen == FirstOf(Kept(s), rule.max)
            IN  /\ task' = [task EXCEPT
                     ![a].pc = IF s = "src" THEN "scan_dst" ELSE "prune",
                     ![a].m[s] = [k \in Keys |-> IF k \in seen
                                    THEN Lite(s, Bucket(s)[k]) ELSE None],
                     ![a].need[s] = {k \in seen : NeedsLogical(k)},
                     ![a].cut = @ \/ seen # Kept(s)]
                /\ UNCHANGED <<buckets, busy, row, cancels>>

(* A page that still fails after its retries ends the audit.               *)
ScanFails(a) ==
    /\ task[a].pc \in {"scan_src", "scan_dst"} /\ Trouble("failure")
    /\ SettleAudit(a, "failed")
    /\ UNCHANGED cache

CheckCancel(a) == task[a].flag \/ CancelPending


FreshHit(s, e, lite) == e # None /\ e.ver = lite.ver
Hit(a, s, k) == /\ s = "src" \/ "dst" \in rule.auth
                /\ FreshHit(s, cache[s][k], task[a].m[s][k])

Hits(a, s, keys) == {k \in keys : Hit(a, s, k)}

(* Phases 3 and 4: the keys whose logical facts change the verdict, then   *)
(* the cache, then one HEAD for each miss.                                 *)
StartResolve(a, s) ==
    LET t == task[a]
        keys == IF s = "src" THEN {k \in t.need.src : t.m.dst[k] # None}
                ELSE {k \in t.need.dst : t.m.src[k] # None \/ "dst" \notin rule.auth}
        hits == Hits(a, s, keys)
    IN  /\ t.pc = IF s = "src" THEN "prune" ELSE "next"
        /\ UNCHANGED <<cache, trouble>>
        /\ IF CheckCancel(a) THEN SettleAudit(a, "cancelled")
           ELSE /\ task' = [task EXCEPT
                     ![a].pc = IF s = "src" THEN "heads_src" ELSE "heads_dst",
                     ![a].m[s] = CacheGet(s, hits, @),
                     ![a].need[s] = keys \ hits,
                     ![a].done = {}]
                /\ UNCHANGED <<buckets, busy, row, cancels>>

HeadPc(s) == IF s = "src" THEN "heads_src" ELSE "heads_dst"

(* One answer of head_burst.  The overlay of apply_logical keeps the version the list recorded.       *)
Head(a, s, k) ==
    LET o == Bucket(s)[k]
    IN  /\ task[a].pc = HeadPc(s) /\ k \in task[a].need[s]
        /\ task' = [task EXCEPT
             ![a].need[s] = @ \ {k},
             ![a].m[s][k] = IF o = None THEN None ELSE Facts(o, @.ver),
             ![a].done = IF o = None THEN @ ELSE @ \cup {k}]
        /\ UNCHANGED <<buckets, busy, cache, row, cancels, trouble>>

(* A transient failure, or the throttle window that gives up on the rest.  *)
HeadsFail(a, s, ks) ==
    /\ task[a].pc = HeadPc(s) /\ ks # {} /\ ks \subseteq task[a].need[s]
    /\ Trouble("failure")
    /\ task' = [task EXCEPT
         ![a].need[s] = @ \ ks,
         ![a].m[s] = [k \in Keys |-> IF k \in ks THEN None ELSE @[k]],
         ![a].unres = @ \cup ks]
    /\ UNCHANGED <<buckets, busy, cache, row, cancels>>

EndResolve(a, s) ==
    /\ task[a].pc = HeadPc(s) /\ task[a].need[s] = {}
    /\ cache' = CachePut(s, task[a].done, task[a].m[s])
    /\ Goto(a, IF s = "src" THEN "next" ELSE "diff")
    /\ UNCHANGED <<buckets, busy, row, cancels, trouble>>

(* Phase 5: a key unresolved on one side leaves both maps; a complete scan *)
(* prunes the cache; then the diff and its verdict.                        *)
Compared(t) == [s \in Sides |-> [k \in Keys |-> IF k \in t.unres THEN None ELSE t.m[s][k]]]

Diff(a) ==
    LET t == task[a]
        m == Compared(t)
        truncated == t.cut \/ t.unres # {}
    IN  /\ t.pc = "diff"
        /\ cache' = IF truncated THEN cache
                    ELSE CacheRetain([s \in Sides |-> {k \in Keys : m[s][k] # None}])
        /\ task' = [task EXCEPT ![a].pc = "settle",
             ![a].res = [verdict |-> DeriveVerdict(m, truncated),
                         advice |-> annotate_findings(m)]]
        /\ UNCHANGED <<buckets, busy, row, cancels, trouble>>

Settle(a) ==
    /\ task[a].pc = "settle"
    /\ SettleAudit(a, "ok")
    /\ UNCHANGED <<cache, trouble>>

(* catch_unwind, and the heartbeat that finds the lease taken or lapsed.   *)
Panic(a) ==
    /\ Working(a) /\ Trouble("failure")
    /\ SettleAudit(a, "failed")
    /\ UNCHANGED cache

LeaseLost(a) ==
    /\ Working(a) /\ ~Renewable(row, a)
    /\ SettleAudit(a, "failed")
    /\ UNCHANGED <<cache, trouble>>

(* GET verify: reap_if_dead.                                               *)
Poll ==
    /\ InFlight(row) /\ Leasable(row)
    /\ row' = ReapIfDead(row)
    /\ UNCHANGED <<buckets, busy, cache, cancels, task, trouble>>

(* POST verify/cancel: the registered flag, then the row.  asked records   *)
(* that the cancel reached the audit that owned the row.                   *)
Cancel ==
    /\ row' = RequestCancel(row)
    /\ task' = [a \in Audits |->
         [task[a] EXCEPT !.flag = @ \/ cancels = a,
                         !.asked = @ \/ (row.status = "running" /\ row.owner = a
                                         /\ Working(a))]]
    /\ UNCHANGED <<buckets, busy, cache, cancels, trouble>>

(* The lease runs out: its owner is gone, or was suspended past the TTL.   *)
Lapse ==
    /\ row.owner # None /\ ~row.lapsed
    /\ IF task[row.owner].pc = "off" THEN UNCHANGED trouble ELSE Trouble("stall")
    /\ row' = [row EXCEPT !.lapsed = TRUE]
    /\ UNCHANGED <<buckets, busy, cache, cancels, task>>

(* parity_reconcile_on_boot.                                               *)
BootReconcile(r) ==
    IF InFlight(r)
    THEN [r EXCEPT !.status = "failed", !.owner = None, !.lapsed = FALSE]
    ELSE IF r.lapsed THEN [r EXCEPT !.owner = None, !.lapsed = FALSE]
    ELSE r

(* The process dies and boots.                                             *)
Crash ==
    /\ Trouble("crash")
    /\ task' = [a \in Audits |-> Off]
    /\ cancels' = None
    /\ row' = BootReconcile(row)
    /\ UNCHANGED <<buckets, busy, cache>>

-----------------------------------------------------------------------------
(* Clients and replication.                                                *)

Disturbed == task' = [a \in Audits |-> [task[a] EXCEPT !.quiet = FALSE]]

Fresh == IF Revert THEN {1, top + 1} ELSE {top + 1}

Write(s, k, kd) ==
    /\ top < MaxContent /\ top' = top + 1
    /\ kd.form = "delta" => k \notin Sidecars
    /\ \E c \in Fresh \cup (IF s = "dst" /\ src[k] # None THEN {src[k].c} ELSE {}),
          at \in {1, top + 1} :
         LET o == [c |-> c, kind |-> kd, at |-> at, lm |-> top + 1]
         IN  IF s = "src" THEN src' = [src EXCEPT ![k] = o] /\ UNCHANGED dst
             ELSE dst' = [dst EXCEPT ![k] = o] /\ UNCHANGED src
    /\ Disturbed
    /\ UNCHANGED <<rule, busy, cache, row, cancels, trouble>>

Remove(s, k) ==
    /\ top < MaxContent /\ top' = top + 1
    /\ Bucket(s)[k] # None
    /\ IF s = "src" THEN src' = [src EXCEPT ![k] = None] /\ UNCHANGED dst
       ELSE dst' = [dst EXCEPT ![k] = None] /\ UNCHANGED src
    /\ Disturbed
    /\ UNCHANGED <<rule, busy, cache, row, cancels, trouble>>

\* The lease of a run of the rule is taken and released; only Gate looks at it.
RunStartsOrEnds ==
    /\ busy' = ~busy
    /\ UNCHANGED <<buckets, cache, row, cancels, task, trouble>>

-----------------------------------------------------------------------------
Step(a) ==
    \/ Acquire(a) \/ SetRunning(a) \/ Spawn(a) \/ Diff(a) \/ Settle(a)
    \/ \E s \in Sides : Scan(a, s) \/ StartResolve(a, s) \/ EndResolve(a, s)
    \/ \E s \in Sides, k \in Keys : Head(a, s, k)
    \/ LeaseLost(a)

Fault(a) ==
    \/ ScanFails(a) \/ Panic(a)
    \/ \E s \in Sides : HeadsFail(a, s, task[a].need[s])
                        \/ \E k \in Keys : HeadsFail(a, s, {k})

Environment ==
    \/ Cancel \/ Lapse \/ Crash \/ RunStartsOrEnds
    \/ \E s \in Sides, k \in Keys : Remove(s, k) \/ \E kd \in Kinds : Write(s, k, kd)

Next == \/ \E a \in Audits : Gate(a) \/ Step(a) \/ Fault(a)
        \/ Poll \/ Environment

Spec == Init /\ [][Next]_vars

-----------------------------------------------------------------------------
TypeOK ==
    /\ row.status \in {"idle", "running", "cancelling", "cancelled", "done", "failed"}
    /\ row.owner \in Audits \cup {None} /\ cancels \in Audits \cup {None}
    /\ \A a \in Audits : \A s \in Sides : task[a].need[s] \subseteq Keys

Identical == \A k \in Keys : LET s == IF k \in GlobbedOut THEN None ELSE src[k]
                             IN  \/ s = None /\ dst[k] = None
                                 \/ s # None /\ dst[k] # None /\ s.c = dst[k].c

\* Two contents whose deltas have one size look the same to the cache of a filesystem
\* side: the audit has taken, under the version the object has now, what an earlier audit
\* cached of another content.
Collided(t) == \E s \in rule.auth, k \in Keys :
    LET o == Bucket(s)[k]
        f == t.m[s][k]
    IN  /\ o # None /\ f # None /\ o.kind.form = "delta"
        /\ f.ver = StoredVersion(s, o) /\ f # Facts(o, f.ver)

\* The verdict of an audit during which nobody wrote is right: Safe only for buckets
\* that hold the same contents, AtRisk only for buckets that do not, whatever earlier
\* audits cached and whichever HEADs failed, unless the cache of a filesystem side took one
\* content for another (Collided: their deltas have the same size).
VerdictTrue == \A a \in Audits : LET t == task[a] IN
    t.pc = "settle" /\ t.quiet /\ ~Collided(t) =>
        /\ t.res.verdict = "Safe" => Identical
        /\ t.res.verdict = "AtRisk" => t.cut \/ ~Identical

\* The advice on a finding is what a run would do: the planner, reading the objects
\* themselves, acts on the key exactly when the audit said that a re-run helps, with the
\* same exception.
AdviceTrue == \A a \in Audits : LET t == task[a] IN
    t.pc = "settle" /\ t.quiet /\ ~t.cut /\ ~Collided(t) =>
        \A k \in Keys \ (Sidecars \cup GlobbedOut) :
            t.res.advice[k] # "none" => (t.res.advice[k] = "Yes") = RunActs(k)

\* Whatever was written between two audits, the second says Safe only of identical
\* buckets.
NeverStale == \A a \in Audits : task[a].pc = "settle" /\ task[a].quiet =>
                  (task[a].res.verdict = "Safe" => Identical)

\* An audit that was told to cancel does not publish a result, however late in the
\* audit the cancel came, unless some audit outlived its lease.
CancelKept == \A a \in Audits :
    task[a].asked /\ "stall" \notin trouble /\ task'[a].pc = "off" => row'.outcome = row.outcome
CancelHonoured == [][CancelKept]_vars

\* A row that says an audit is in flight is settled: by the audit, by the boot that
\* follows a crash, or by a poll once the lease ran out.
RowSettles == InFlight(row) ~> ~InFlight(row)
=============================================================================
