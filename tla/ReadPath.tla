------------------------------ MODULE ReadPath ------------------------------
(***************************************************************************)
(* How a node answers HEAD, GET, ranged GET and LIST of one key, and the   *)
(* two caches each node keeps, of metadata (metadata_cache.rs) and of the  *)
(* deltaspace's reference (get_reference_cached), while the key is         *)
(* overwritten and deleted through any node.  A stored object is a         *)
(* passthrough or a delta; an overwrite may change its form, and then two  *)
(* forms exist for a moment, of which the newer one counts.                *)
(*                                                                         *)
(* A version number stands for the bytes of one write and for everything   *)
(* its metadata say: size, hash, ETag, creation time.  Every call of the   *)
(* storage backend is a step, and so is every access to the cache, because *)
(* nothing holds the two together.  A read takes no lock.                  *)
(***************************************************************************)
EXTENDS Naturals, FiniteSets

CONSTANTS
    Nodes,
    Readers, Writers,       \* requests of clients, reusable
    ReadKinds,              \* of "get", "range", "head", "list", "retrieve"
    WriteKinds,             \* of "pass", "delta", "ship", "delete"
    MaxWrites, MaxReads,    \* bounds
    Faults,                 \* of "write", "clean", "throttle"
    MaxFaults,              \* bound: writes, cleanups and HEADs that fail
    Unread, None

VARIABLES
    pass,       \* the passthrough form: the version of its bytes and metadata, or None
    delta,      \* the delta form: [v, base], or None
    ref,        \* the deltaspace's reference: which one, or None
    held,       \* [Nodes -> the reference in the node's cache, or None]
    cache,      \* [Nodes -> metadata or None]
    lock,       \* [Nodes -> the writer that holds the deltaspace's lock there, or None]
    xlock,      \* the writer that holds the reference lock of the deployment, or None
    w,          \* [Writers -> write]
    r,          \* [Readers -> read]
    last,       \* ghost: what the writes finished so far left, a version or None
    version,    \* number of writes stamped; versions are creation times too
    writes, reads, faults

vars == <<pass, delta, ref, held, cache, lock, xlock, w, r, last, version, writes, reads, faults>>

-----------------------------------------------------------------------------
(* Metadata.                                                               *)

\* What a HEAD of a stored form yields, and what LIST data alone yield: of a passthrough its
\* size and ETag, without hash and user metadata; of a delta only that it is one.
Meta(form, v) == [form |-> form, v |-> v, by |-> "head"]
Listed(v) == [form |-> "pass", v |-> v, by |-> "list"]
Stub == [form |-> "delta", v |-> None, by |-> "list"]

\* resolve_object_metadata: the newer one of the two forms.
Resolved(d, p) ==
    IF d = None THEN p
    ELSE IF p = None THEN d
    ELSE IF d.v >= p.v THEN d ELSE p

\* Stubs of deltas are listed, never cached: their size is the stored one.
is_unresolved_delta_stub(m) == m.form = "delta" /\ m.by = "list"

Newest == IF delta = None THEN pass
          ELSE IF pass = None \/ delta.v > pass THEN delta.v ELSE pass

-----------------------------------------------------------------------------
(* Writers.                                                                *)

IdleW == [pc |-> "idle"]
Running == {x \in Writers : w[x].pc # "idle"}

\* A write that is not over may have happened or not; every read in progress may see it.
Overlap(v) == r' = [q \in Readers |->
                      IF r[q].pc = "idle" THEN r[q]
                      ELSE [r[q] EXCEPT !.may = @ \cup {v}, !.quiet = FALSE]]

\* A PUT drops the cached metadata before anything else; a shipped delta and a DELETE do not.
BeginWrite(x) ==
    /\ w[x].pc = "idle" /\ writes < MaxWrites /\ writes' = writes + 1
    /\ \E n \in Nodes, kind \in WriteKinds :
        /\ w' = [w EXCEPT ![x] = [pc |-> "lock", n |-> n, kind |-> kind, v |-> None,
                                  base |-> None, seeded |-> FALSE, form |-> None]]
        /\ IF kind \in {"pass", "delta"} 
           THEN cache' = [cache EXCEPT ![n] = None] ELSE UNCHANGED cache
    /\ r' = [q \in Readers |-> IF r[q].pc = "idle" THEN r[q] ELSE [r[q] EXCEPT !.quiet = FALSE]]
    /\ UNCHANGED <<pass, delta, ref, held, lock, xlock, last, version, reads, faults>>

\* acquire_prefix_lock and, for a delta only, acquire_reference_lock; then the metadata
\* are stamped with their time of creation.
Lock(x) ==
    LET n == w[x].n  kind == w[x].kind IN
    /\ w[x].pc = "lock" /\ lock[n] = None
    /\ kind = "delta" => xlock = None
    /\ lock' = [lock EXCEPT ![n] = x]
    /\ xlock' = IF kind = "delta" THEN x ELSE xlock
    /\ IF kind = "delete"
       THEN /\ w' = [w EXCEPT ![x].pc = "resolve"] /\ UNCHANGED version /\ Overlap(None)
       ELSE /\ version' = version + 1
            /\ w' = [w EXCEPT ![x].pc = IF kind = "pass" THEN "write" ELSE "seed",
                              ![x].v = version']
            /\ Overlap(version')
    /\ UNCHANGED <<pass, delta, ref, held, cache, last, writes, reads, faults>>

\* set_reference_baseline stores and caches a reference, unless the deltaspace has one: then
\* a PUT is encoded against the cached one, or against the stored one, which is cached.  A
\* shipped delta comes with the stored reference (put_reference_raw), past the cache.
Seed(x) ==
    LET n == w[x].n
        base == IF ref = None THEN w[x].v
                ELSE IF w[x].kind = "delta" /\ held[n] # None THEN held[n] ELSE ref IN
    /\ w[x].pc = "seed"
    /\ ref' = IF ref = None THEN w[x].v ELSE ref
    /\ held' = IF w[x].kind = "delta" THEN [held EXCEPT ![n] = base] ELSE held
    /\ w' = [w EXCEPT ![x].pc = "write", ![x].seeded = ref = None, ![x].base = base]
    /\ UNCHANGED <<pass, delta, cache, lock, xlock, r, last, version, writes, reads, faults>>

WriteForm(x) ==
    /\ w[x].pc = "write"
    /\ IF w[x].kind = "pass"
       THEN pass' = w[x].v /\ UNCHANGED delta
       ELSE delta' = [v |-> w[x].v, base |-> w[x].base] /\ UNCHANGED pass
    /\ w' = [w EXCEPT ![x].pc = "clean"]
    /\ UNCHANGED <<ref, held, cache, lock, xlock, r, last, version, writes, reads, faults>>

Unlock(x) == /\ lock' = [lock EXCEPT ![w[x].n] = None]
             /\ xlock' = IF xlock = x THEN None ELSE xlock

\* The write fails: a reference it has just made is taken back, from the cache too.
FailWrite(x) ==
    /\ w[x].pc = "write" /\ "write" \in Faults /\ faults < MaxFaults /\ faults' = faults + 1
    /\ ref' = IF w[x].seeded THEN None ELSE ref
    /\ held' = IF w[x].seeded /\ w[x].kind = "delta"
               THEN [held EXCEPT ![w[x].n] = None] ELSE held
    /\ w' = [w EXCEPT ![x] = IdleW] /\ Unlock(x)
    /\ UNCHANGED <<pass, delta, cache, r, last, version, writes, reads>>

\* The other form is superseded; a failure to remove it is only logged.
CleanOther(x) ==
    /\ w[x].pc = "clean"
    /\ IF w[x].kind = "pass" THEN delta' = None /\ UNCHANGED pass
       ELSE pass' = None /\ UNCHANGED delta
    /\ w' = [w EXCEPT ![x].pc = "record"]
    /\ UNCHANGED <<ref, held, cache, lock, xlock, r, last, version, writes, reads, faults>>

CleanFails(x) ==
    /\ w[x].pc = "clean" /\ "clean" \in Faults /\ faults < MaxFaults /\ faults' = faults + 1
    /\ w' = [w EXCEPT ![x].pc = "record"]
    /\ UNCHANGED <<pass, delta, ref, held, cache, lock, xlock, r, last, version, writes, reads>>

\* The new metadata are cached; put_delta_raw only drops the old ones, and so does a DELETE,
\* with the cached reference when it has removed the stored one.
Record(x) ==
    /\ w[x].pc = "record"
    /\ held' = IF w[x].form = "reference" THEN [held EXCEPT ![w[x].n] = None] ELSE held
    /\ cache' = [cache EXCEPT ![w[x].n] =
                    CASE w[x].kind = "pass" -> Meta("pass", w[x].v)
                      [] w[x].kind = "delta" -> Meta("delta", w[x].v)
                      [] OTHER -> None]
    /\ last' = IF w[x].kind = "delete" THEN None ELSE w[x].v
    /\ w' = [w EXCEPT ![x] = IdleW] /\ Unlock(x)
    /\ UNCHANGED <<pass, delta, ref, r, version, writes, reads, faults>>

\* delete_inner: the form that counts is removed first, then the other one.
DeleteResolve(x) ==
    /\ w[x].pc = "resolve"
    /\ IF Newest = None
       THEN w' = [w EXCEPT ![x] = IdleW] /\ Unlock(x)
       ELSE /\ w' = [w EXCEPT ![x].pc = "remove",
                              ![x].form = IF Newest = pass THEN "pass" ELSE "delta"]
            /\ UNCHANGED <<lock, xlock>>
    /\ UNCHANGED <<pass, delta, ref, held, cache, r, last, version, writes, reads, faults>>

DeleteForms(x) ==
    /\ w[x].pc \in {"remove", "sibling"}
    /\ IF (w[x].form = "pass") = (w[x].pc = "remove")
       THEN pass' = None /\ UNCHANGED delta
       ELSE delta' = None /\ UNCHANGED pass
    /\ w' = [w EXCEPT ![x].pc = IF w[x].pc = "remove" THEN "sibling" ELSE "reclaim"]
    /\ UNCHANGED <<ref, held, cache, lock, xlock, r, last, version, writes, reads, faults>>

\* The last object of a deltaspace takes the reference with it.
Reclaim(x) ==
    LET empty == pass = None /\ delta = None /\ ref # None IN
    /\ w[x].pc = "reclaim"
    /\ ref' = IF empty THEN None ELSE ref
    /\ w' = [w EXCEPT ![x].pc = "record", ![x].form = IF empty THEN "reference" ELSE @]
    /\ UNCHANGED <<pass, delta, held, cache, lock, xlock, r, last, version, writes, reads, faults>>

-----------------------------------------------------------------------------
(* Readers.                                                                *)

IdleR == [pc |-> "idle"]

\* A request begins: it may be answered with what is there, or with a write in progress.
\* The last three fields are ghosts: no write has been under way; no other read under way has
\* met one; this node holds a reference that is not the stored one.
Begin(q) ==
    /\ r[q].pc = "idle" /\ reads < MaxReads /\ reads' = reads + 1
    /\ \E n \in Nodes, kind \in ReadKinds :
        r' = [r EXCEPT ![q] =
                [pc |-> CASE kind = "list" -> "list" [] kind = "retrieve" -> "lookup"
                          [] OTHER -> "resolve",
                 n |-> n, kind |-> kind, goal |-> IF kind = "retrieve" THEN "get" ELSE "head",
                 meta |-> None, d |-> Unread, p |-> Unread, cached |-> FALSE,
                 base |-> Unread, loaded |-> FALSE, body |-> Unread, answer |-> None, bytes |-> None,
                 may |-> {last} \cup {w[x].v : x \in {y \in Running : w[y].pc # "lock"}},
                 quiet |-> Running = {},
                 calm |-> \A p \in Readers : r[p].pc # "idle" => r[p].quiet,
                 stale |-> held[n] \notin {None, ref}]]
    /\ UNCHANGED <<pass, delta, ref, held, cache, lock, xlock, w, last, version, writes, faults>>

Others(q) == UNCHANGED <<pass, delta, ref, lock, xlock, w, last, version, writes, reads>>
Only(q) == Others(q) /\ UNCHANGED held
Step(q, e) == r' = [r EXCEPT ![q] = e]
Answer(q, a, m, b) ==
    Step(q, [r[q] EXCEPT !.pc = "done", !.answer = a, !.meta = m, !.bytes = b,
                         !.base = Unread, !.loaded = FALSE, !.body = Unread])

\* Two HEADs in parallel: one of the delta form, one of the passthrough form.
HeadDelta(q) ==
    /\ r[q].pc = "resolve" /\ r[q].d = Unread
    /\ Step(q, [r[q] EXCEPT !.d = IF delta = None THEN None ELSE Meta("delta", delta.v)])
    /\ Only(q) /\ UNCHANGED <<cache, faults>>

HeadPass(q) ==
    /\ r[q].pc = "resolve" /\ r[q].p = Unread
    /\ Step(q, [r[q] EXCEPT !.p = IF pass = None THEN None ELSE Meta("pass", pass)])
    /\ Only(q) /\ UNCHANGED <<cache, faults>>

\* resolve_metadata_with_migration returns; without metadata the caller tries the bare file.
Resolve(q) ==
    /\ r[q].pc = "resolve" /\ r[q].d # Unread /\ r[q].p # Unread
    /\ \E m \in {Resolved(r[q].d, r[q].p)} :
        Step(q, [r[q] EXCEPT !.pc = IF m = None THEN "bare" ELSE "fill", !.meta = m,
                             !.d = Unread, !.p = Unread])
    /\ Only(q) /\ UNCHANGED <<cache, faults>>

\* What follows once the metadata are in the cache: head() is over, a read goes on.
Filled(e) ==
    IF e.goal = "head" /\ e.kind = "head" THEN [e EXCEPT !.pc = "done", !.answer = "ok"]
    ELSE IF e.goal = "head"
    THEN [e EXCEPT !.pc = "lookup", !.goal = IF e.kind = "range" THEN "range" ELSE "get"]
    ELSE [e EXCEPT !.pc = "open"]

\* metadata_cache.insert, after a resolve and after a cache hit alike.
Fill(q) ==
    /\ r[q].pc = "fill"
    /\ cache' = [cache EXCEPT ![r[q].n] = r[q].meta]
    /\ Step(q, Filled(r[q]))
    /\ Only(q) /\ UNCHANGED faults

\* No metadata: the handler's HEAD and the retrieve path look for an unmanaged file.
Bare(q) ==
    /\ r[q].pc = "bare"
    /\ IF pass = None
       THEN Answer(q, "404", None, None) /\ UNCHANGED cache
       ELSE IF r[q].goal = "head"
       THEN /\ Step(q, [r[q] EXCEPT !.pc = "fill", !.meta = Meta("pass", pass)])
            /\ UNCHANGED cache
       ELSE IF r[q].goal = "range"                       \* Ok(None): the whole object is read
       THEN /\ Step(q, [r[q] EXCEPT !.pc = "lookup", !.goal = "get"]) /\ UNCHANGED cache
       ELSE Answer(q, "ok", Meta("pass", pass), pass) /\ UNCHANGED cache
    /\ Only(q) /\ UNCHANGED faults

Again(e) == [e EXCEPT !.pc = "resolve", !.d = Unread, !.p = Unread, !.base = Unread,
                      !.loaded = FALSE, !.body = Unread, !.meta = None]

\* metadata_cache.get: a hit saves the resolve.
Lookup(q) ==
    /\ r[q].pc = "lookup"
    /\ IF cache[r[q].n] # None
       THEN Step(q, [Again(r[q]) EXCEPT !.pc = "fill", !.meta = cache[r[q].n], !.cached = TRUE])
       ELSE Step(q, [Again(r[q]) EXCEPT !.cached = FALSE])
    /\ Only(q) /\ UNCHANGED <<cache, faults>>

RetryOnce(e) == e.cached
Missed(q) ==
    IF RetryOnce(r[q])
    THEN /\ cache' = [cache EXCEPT ![r[q].n] = None]
         /\ Step(q, [Again(r[q]) EXCEPT !.cached = FALSE])
    ELSE Answer(q, "404", None, None) /\ UNCHANGED cache

\* A passthrough is streamed as it is: its bytes are not compared with the metadata.
OpenPass(q) ==
    /\ r[q].pc = "open" /\ r[q].meta.form = "pass"
    /\ IF pass = None THEN Missed(q)
       ELSE Answer(q, "ok", r[q].meta, pass) /\ UNCHANGED cache
    /\ Only(q) /\ UNCHANGED faults

\* A range of a small delta is cut from the whole object.
RangeOfDelta(q) ==
    /\ r[q].pc = "open" /\ r[q].meta.form = "delta" /\ r[q].goal = "range"
    /\ Step(q, [r[q] EXCEPT !.pc = "lookup", !.goal = "get"])
    /\ Only(q) /\ UNCHANGED <<cache, faults>>

\* Reference and delta are fetched in parallel.  get_reference_cached: the node's own copy
\* as it is, else the stored one.
FetchReference(q) ==
    /\ r[q].pc = "open" /\ r[q].meta.form = "delta" /\ r[q].goal = "get"
    /\ r[q].base = Unread
    /\ Step(q, IF held[r[q].n] # None THEN [r[q] EXCEPT !.base = held[r[q].n]]
               ELSE [r[q] EXCEPT !.base = ref, !.loaded = ref # None])
    /\ Only(q) /\ UNCHANGED <<cache, faults>>

\* Bytes read from storage are cached, some time after they were read, unless the metadata
\* read beside them are those of another reference: that is the answer then.
FillReference(q) ==
    /\ r[q].pc = "open" /\ r[q].loaded
    /\ \/ /\ held' = [held EXCEPT ![r[q].n] = r[q].base]
          /\ Step(q, [r[q] EXCEPT !.loaded = FALSE])
       \/ /\ ref \notin {None, r[q].base}
          /\ Answer(q, "mismatch", None, None) /\ UNCHANGED held
    /\ Others(q) /\ UNCHANGED <<cache, faults>>

FetchDelta(q) ==
    /\ r[q].pc = "open" /\ r[q].meta.form = "delta" /\ r[q].goal = "get"
    /\ r[q].body = Unread
    /\ Step(q, [r[q] EXCEPT !.body = delta])
    /\ Only(q) /\ UNCHANGED <<cache, faults>>

\* The result is hashed before a byte of it is sent; a wrong one evicts the reference.
Verified(e) == e.base = e.body.base /\ e.body.v = e.meta.v
Decode(q) ==
    /\ r[q].pc = "open" /\ r[q].base # Unread /\ ~r[q].loaded /\ r[q].body # Unread
    /\ IF r[q].base = None THEN Answer(q, "missing", None, None) /\ UNCHANGED <<cache, held>>
       ELSE IF r[q].body = None THEN Missed(q) /\ UNCHANGED held
       ELSE IF Verified(r[q])
       THEN Answer(q, "ok", r[q].meta, r[q].body.v) /\ UNCHANGED <<cache, held>>
       ELSE /\ Answer(q, "mismatch", None, None) /\ UNCHANGED cache
            /\ held' = [held EXCEPT ![r[q].n] = None]
    /\ Others(q) /\ UNCHANGED faults

\* The page of a LIST with metadata: what it shows of the key, without HEAD.
List(q) ==
    /\ r[q].pc = "list"
    /\ IF Newest = None THEN Answer(q, "404", None, None)
       ELSE Step(q, [r[q] EXCEPT !.pc = "enrich",
                                 !.meta = IF Newest = pass THEN Listed(pass) ELSE Stub])
    /\ Only(q) /\ UNCHANGED <<cache, faults>>

\* The file the page saw is asked for with a HEAD; an entry whose HEAD found nothing stays
\* as the page had it.
enrich_list_metadata(m) ==
    CASE m.form = "pass" /\ pass # None -> Meta("pass", pass)
      [] m.form # "pass" /\ delta # None -> Meta("delta", delta.v)
      [] OTHER -> m

\* A cached entry is shown; otherwise the backend enriches it, and one whose HEAD was
\* throttled stays as the page had it; it is cached then, unless it is of a delta.
Enrich(q) ==
    /\ r[q].pc = "enrich"
    /\ \/ /\ cache[r[q].n] # None
          /\ Answer(q, "ok", cache[r[q].n], None) /\ UNCHANGED faults
       \/ /\ cache[r[q].n] = None
          /\ Step(q, [r[q] EXCEPT !.pc = "keep", !.meta = enrich_list_metadata(@)])
          /\ UNCHANGED faults
       \/ /\ cache[r[q].n] = None /\ "throttle" \in Faults
          /\ faults < MaxFaults /\ faults' = faults + 1
          /\ Step(q, [r[q] EXCEPT !.pc = "keep"])
    /\ Only(q) /\ UNCHANGED cache

Keep(q) ==
    /\ r[q].pc = "keep"
    /\ cache' = IF is_unresolved_delta_stub(r[q].meta) THEN cache
                ELSE [cache EXCEPT ![r[q].n] = r[q].meta]
    /\ Answer(q, "ok", r[q].meta, None)
    /\ Only(q) /\ UNCHANGED faults

Finish(q) ==
    /\ r[q].pc = "done"
    /\ Step(q, IdleR)
    /\ Only(q) /\ UNCHANGED <<cache, faults>>

\* The cache of metadata forgets an entry: ten minutes have passed, or it is full.
Expire(n) ==
    /\ cache[n] # None
    /\ cache' = [cache EXCEPT ![n] = None]
    /\ UNCHANGED <<pass, delta, ref, held, lock, xlock, w, r, last, version, writes, reads, faults>>

-----------------------------------------------------------------------------
Init ==
    /\ \/ pass = None /\ delta = None /\ ref = None /\ version = 0
       \/ pass = 1 /\ delta = None /\ ref = None /\ version = 1
       \/ pass = None /\ delta = [v |-> 1, base |-> 1] /\ ref = 1 /\ version = 1
    /\ last = Newest
    \* Nothing, the stored reference, or one since removed through another node (0).
    /\ held \in [Nodes -> {None, ref} \cup IF Cardinality(Nodes) > 1 THEN {0} ELSE {}]
    /\ cache = [n \in Nodes |-> None]
    /\ lock = [n \in Nodes |-> None] /\ xlock = None
    /\ w = [x \in Writers |-> IdleW] /\ r = [q \in Readers |-> IdleR]
    /\ writes = 0 /\ reads = 0 /\ faults = 0

Next ==
    \/ \E x \in Writers :
        \/ BeginWrite(x) \/ Lock(x) \/ Seed(x) \/ WriteForm(x) \/ FailWrite(x)
        \/ CleanOther(x) \/ CleanFails(x) \/ Record(x)
        \/ DeleteResolve(x) \/ DeleteForms(x) \/ Reclaim(x)
    \/ \E q \in Readers :
        \/ Begin(q) \/ HeadDelta(q) \/ HeadPass(q) \/ Resolve(q) \/ Fill(q) \/ Bare(q)
        \/ Lookup(q) \/ OpenPass(q) \/ RangeOfDelta(q) \/ FetchReference(q) \/ FillReference(q)
        \/ FetchDelta(q) \/ Decode(q) \/ List(q) \/ Enrich(q) \/ Keep(q) \/ Finish(q)
    \/ \E n \in Nodes : Expire(n)

Spec == Init /\ [][Next]_vars

-----------------------------------------------------------------------------
Answered(q) == r[q].pc = "done"
Undisturbed(q) == Answered(q) /\ r[q].quiet

\* The bytes a GET sends are those of the last write before it, or of one that overlapped it
\* (retrieve_buffered's checksum, the deletion of the superseded form).
BytesRegular == \A q \in Readers :
    Answered(q) /\ r[q].bytes # None => r[q].bytes \in r[q].may

\* A GET was refused for a reason: its node came to it with a reference that is not the
\* stored one and that it has given up by now, or the delta was encoded with such a one.
Refused(q) ==
    /\ r[q].kind # "head" /\ r[q].answer = "mismatch" /\ delta # None /\ delta.v = last
    /\ \/ r[q].stale /\ held[r[q].n] \in {None, ref}
       \/ delta.base # ref

\* A HEAD or GET that no write overlapped, and no read still under way that one did, is
\* answered with the object as it is, metadata and bytes of one version, or with 404 when
\* there is none: whatever this node's cache of metadata held (the GET handler asks with
\* HEAD first).  The exception is a GET of a delta on a node whose cached reference was
\* removed through another node: it is refused, never answered with other bytes, and the
\* reference is evicted, so that no second GET is refused unless the delta itself is wrong.
QuietExact == \A q \in Readers :
    Undisturbed(q) /\ r[q].calm /\ r[q].kind \in {"get", "range", "head"} =>
        IF last = None THEN r[q].answer = "404"
        ELSE \/ /\ r[q].answer = "ok" /\ r[q].meta.v = last
                /\ IF r[q].kind = "head" THEN r[q].meta.by = "head" ELSE r[q].bytes = last
             \/ Refused(q)

\* A reader that starts from the cache (copies, the command line) may be refused because its
\* metadata are of an overwritten delta, but never finds an existing object absent.
RetrieveFinds == \A q \in Readers :
    Undisturbed(q) /\ r[q].kind = "retrieve" /\ last # None =>
        \/ r[q].answer = "ok" /\ r[q].bytes = last
        \/ r[q].answer \in {"mismatch", "missing"}

\* Cached metadata name a version some write stored, and those of a delta are what a HEAD
\* found, never the stub of a listing.
CachedAreReal == \A n \in Nodes :
    cache[n] # None => /\ cache[n].v \in 1 .. version
                       /\ cache[n].form = "delta" => cache[n].by = "head"

\* engine/mod.rs: "Cache ONLY genuinely HEAD-resolved metadata."
OnlyResolved == \A n \in Nodes : cache[n] # None => cache[n].by = "head"

\* metadata_cache.rs: "stale metadata is harmless (worst case: one extra HEAD)".
StaleHarmless == \A q \in Readers :
    Undisturbed(q) /\ last # None => r[q].answer = "ok" /\ r[q].meta.v = last
=============================================================================
