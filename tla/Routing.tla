------------------------------ MODULE Routing ------------------------------
(***************************************************************************)
(* The multi-backend router (storage/routing.rs): how a virtual bucket is  *)
(* resolved to a backend and a real bucket, and how the listings of all    *)
(* backends are gathered, kept fresh, and kept off a backend that failed.  *)
(*                                                                         *)
(* A request runs one await at a time: a head_bucket, the operation, its   *)
(* answer, one LIST.  A backend call may fail before or after it took      *)
(* effect, and a request may be dropped at every await.                    *)
(***************************************************************************)
EXTENDS Naturals, Sequences, FiniteSets, SequencesExt

CONSTANTS
    Requests,       \* requests being served
    Others,         \* the other backends, in name order
    Default,        \* the default backend
    Names,          \* bucket names, virtual and real
    Routes,         \* virtual name -> [backend, real], the explicit routes
    Plumbing,       \* virtual names with the prefix of a staged migration
    Kinds,          \* the requests a client may send
    ListFresh, ListCooldown, ListTimeout,
    MaxTime,        \* bound: ticks of the clock
    MaxRequests,    \* bound: requests that arrive
    MaxErrors,      \* bound: backend calls that fail
    None

VARIABLES
    home,           \* backend -> the buckets it holds
    roster,         \* last_known: backend -> None or [stamp, list]
    cooldown,       \* backend -> None or the deadline
    epoch,          \* freshness_epoch
    now,
    req,            \* the requests' own state
    acked,          \* ghost: places whose last change has been acknowledged
    failed,         \* ghost: backend -> latest start of a failed probe
    probed,         \* ghost: backend -> start of the last probe
    arrived, errors

vars == <<home, roster, cooldown, epoch, now, req, acked, failed, probed, arrived, errors>>

Backends == {Default} \cup Range(Others)

Idle == [pc |-> "idle"]

TypeOK ==
    /\ home \in [Backends -> SUBSET Names]
    /\ \A b \in Backends : roster[b] = None \/ roster[b].list \subseteq Names
    /\ epoch \in 0 .. MaxRequests
    /\ \A r \in Requests :
        req[r].pc \in {"idle", "head", "op", "answer", "epoch", "decide", "probe", "listed"}

----------------------------------------------------------------------------
(* Resolution.                                                             *)

\* The backends in the order in which a name without a route is looked for.
Scan == <<Default>> \o Others

Place(b, n) == [backend |-> b, real |-> n]

\* Where a request for v goes when the HEADs answer `there`: the explicit
\* route, else the first backend that has the bucket, else the default.
Resolved(v, there) ==
    IF v \in DOMAIN Routes THEN Routes[v]
    ELSE Place(IF \E i \in DOMAIN Scan : Scan[i] \in there
               THEN Scan[CHOOSE i \in DOMAIN Scan :
                            /\ Scan[i] \in there
                            /\ \A j \in 1 .. i - 1 : Scan[j] \notin there]
               ELSE Default, v)

\* The virtual names under which a bucket found on a backend can be listed.
\* Two routes to one bucket leave the choice to a hash map's order.
reverse_lookup(b, n) == {v \in DOMAIN Routes : Routes[v] = Place(b, n)}

listed_bucket_virtual_name(b, n) ==
    IF reverse_lookup(b, n) = {} THEN {n} ELSE reverse_lookup(b, n)

----------------------------------------------------------------------------
(* Requests for one bucket.                                                *)

Goto(r, state) == req' = [req EXCEPT ![r] = state]

\* A request arrives.  An explicit route is taken without a HEAD.
Arrive(r) ==
    /\ req[r].pc = "idle"
    /\ arrived < MaxRequests
    /\ arrived' = arrived + 1
    /\ \E kind \in Kinds :
        IF kind = "list"
        THEN Goto(r, [pc |-> "epoch", must |-> acked])
        ELSE \E v \in Names :
            Goto(r, IF v \in DOMAIN Routes
                    THEN [pc |-> "op", kind |-> kind, place |-> Routes[v]]
                    ELSE [pc |-> "head", kind |-> kind, name |-> v, at |-> 1])
    /\ UNCHANGED <<home, roster, cooldown, epoch, now, acked, failed, probed, errors>>

\* One head_bucket of resolve_existing.  A failed HEAD is not an absent bucket:
\* the request goes to that backend and meets the error there.
resolve_existing(r) ==
    /\ req[r].pc = "head"
    /\ LET at == Scan[req[r].at]
           target(x) == [pc |-> "op", kind |-> req[r].kind, place |-> Place(x, req[r].name)]
       IN  \/ /\ req[r].name \in home[at]
              /\ Goto(r, target(at))
              /\ UNCHANGED errors
           \/ /\ errors < MaxErrors
              /\ errors' = errors + 1
              /\ Goto(r, target(at))
           \/ /\ req[r].name \notin home[at]
              /\ Goto(r, IF req[r].at < Len(Scan)
                         THEN [req[r] EXCEPT !.at = @ + 1]
                         ELSE target(Default))
              /\ UNCHANGED errors
    /\ UNCHANGED <<home, roster, cooldown, epoch, now, acked, failed, probed, arrived>>

\* What an operation leaves of a backend's buckets; None when it is refused.
Effect(kind, n, buckets) ==
    CASE kind = "create" /\ n \notin buckets -> buckets \cup {n}
      [] kind = "delete" /\ n \in buckets    -> buckets \ {n}
      [] kind = "put" /\ n \in buckets       -> buckets
      [] OTHER                               -> None

\* The operation takes effect at its backend (a listing in progress may show it
\* or not) ...
Operate(r) ==
    /\ req[r].pc = "op"
    /\ LET p == req[r].place
           after == Effect(req[r].kind, p.real, home[p.backend])
       IN  IF after = None
           THEN Goto(r, Idle) /\ UNCHANGED <<home, acked>>
           ELSE /\ home' = [home EXCEPT ![p.backend] = after]
                /\ acked' = IF req[r].kind = "put" THEN acked ELSE acked \ {p}
                /\ req' = [q \in Requests |->
                    IF q = r THEN [req[r] EXCEPT !.pc = "answer"]
                    ELSE IF "must" \in DOMAIN req[q] THEN [req[q] EXCEPT !.must = @ \ {p}]
                    ELSE req[q]]
    /\ UNCHANGED <<roster, cooldown, epoch, now, failed, probed, arrived, errors>>

\* Mutant: the cached rosters keep their freshness.
KeepFreshness == UNCHANGED <<roster, epoch>>

invalidate_listing_freshness ==
    /\ epoch' = epoch + 1
    /\ roster' = [b \in Backends |-> IF roster[b] = None THEN None
                                     ELSE [roster[b] EXCEPT !.stamp = None]]

\* ... and is answered: a created or deleted bucket ends the freshness of
\* every cached listing before the client hears of it.
Answer(r) ==
    /\ req[r].pc = "answer"
    /\ IF req[r].kind \in {"create", "delete"}
       THEN invalidate_listing_freshness /\ acked' = acked \cup {req[r].place}
       ELSE UNCHANGED <<epoch, roster, acked>>
    /\ Goto(r, Idle)
    /\ UNCHANGED <<home, cooldown, now, failed, probed, arrived, errors>>

\* The backend answers with an error, before or after the operation took
\* effect; or the client is gone and the request is dropped at an await.
Fail(r) ==
    /\ req[r].pc \in {"head", "op", "answer", "probe"}
    /\ errors < MaxErrors
    /\ errors' = errors + 1
    /\ Goto(r, Idle)
    /\ UNCHANGED <<home, roster, cooldown, epoch, now, acked, failed, probed, arrived>>

----------------------------------------------------------------------------
(* Listings.                                                               *)

\* The epoch is read before the plan is made, under a lock of its own.
ReadEpoch(r) ==
    /\ req[r].pc = "epoch"
    /\ Goto(r, [pc |-> "decide", must |-> req[r].must, epoch |-> epoch, start |-> now])
    /\ UNCHANGED <<home, roster, cooldown, epoch, now, acked, failed, probed, arrived, errors>>

IsFresh(b, t) ==
    /\ ListFresh > 0
    /\ roster[b] # None
    /\ roster[b].stamp # None
    /\ t < roster[b].stamp + ListFresh

IsCooling(b, t) == cooldown[b] # None /\ cooldown[b] > t

\* The request that probes a backend after its cooldown keeps the others away
\* for as long as the probe can take.
Rearmed(t) == t + ListTimeout + 1

\* Per backend: the fresh roster, the error of a cooling backend, or a probe.
Decide(r) ==
    /\ req[r].pc = "decide"
    /\ LET t == req[r].start
           plan == [b \in Backends |-> IF IsFresh(b, t) THEN "fresh"
                                       ELSE IF IsCooling(b, t) THEN "cooling" ELSE "probe"]
       IN  /\ Goto(r, [pc |-> "probe", must |-> req[r].must, epoch |-> req[r].epoch, start |-> t,
                       plan |-> plan,
                       got |-> [b \in Backends |->
                                  IF plan[b] = "fresh" THEN roster[b].list ELSE None]])
           /\ cooldown' = [b \in Backends |->
                IF plan[b] = "probe" /\ cooldown[b] # None THEN Rearmed(t) ELSE cooldown[b]]
           /\ probed' = [b \in Backends |-> IF plan[b] = "probe" THEN t ELSE probed[b]]
    /\ UNCHANGED <<home, roster, epoch, now, acked, failed, arrived, errors>>

\* One backend answers its LIST, or fails, or runs into list_timeout.
Probe(r, b) ==
    /\ req[r].pc = "probe"
    /\ req[r].plan[b] = "probe"
    /\ \/ /\ Goto(r, [req[r] EXCEPT !.plan[b] = "ok", !.got[b] = home[b]])
          /\ UNCHANGED errors
       \/ /\ errors < MaxErrors
          /\ errors' = errors + 1
          /\ Goto(r, [req[r] EXCEPT !.plan[b] = "error"])
    /\ UNCHANGED <<home, roster, cooldown, epoch, now, acked, failed, probed, arrived>>

\* A roster that may predate a change is kept, and is not fresh.
Stamp(r) == IF epoch # req[r].epoch THEN None ELSE req[r].start

\* All probes are back: the rosters and the cooldowns are brought up to date.
gather_listings(r) ==
    /\ req[r].pc = "probe"
    /\ \A b \in Backends : req[r].plan[b] # "probe"
    /\ LET outcome == req[r].plan
       IN  /\ roster' = [b \in Backends |->
                IF outcome[b] = "ok" THEN [stamp |-> Stamp(r), list |-> req[r].got[b]] ELSE roster[b]]
           /\ cooldown' = [b \in Backends |->
                CASE outcome[b] = "ok"    -> None
                  [] outcome[b] = "error" -> req[r].start + ListCooldown
                  [] OTHER                -> cooldown[b]]
           /\ failed' = [b \in Backends |->
                IF outcome[b] = "error" /\ (failed[b] = None \/ failed[b] < req[r].start)
                THEN req[r].start ELSE failed[b]]
    /\ Goto(r, [req[r] EXCEPT !.pc = "listed"])
    /\ UNCHANGED <<home, epoch, now, acked, probed, arrived, errors>>

\* The names of an S3 listing; None when no backend answered.
list_buckets(got, choice) ==
    IF \A b \in Backends : got[b] = None THEN None
    ELSE {choice[Place(b, n)] : <<b, n>> \in {<<b, n>> \in Backends \X Names : got[b] # None /\ n \in got[b]}}
            \ Plumbing

\* What the operator's listing may say of a name: where it comes from, and
\* whether that backend answered.  A silent backend is represented by its
\* routes and by the last roster it gave.
Candidates(got) ==
    {[name |-> v, backend |-> b, unavailable |-> FALSE,
      priority |-> IF reverse_lookup(b, n) # {} THEN 0 ELSE IF b = Default THEN 1 ELSE 2] :
        <<b, n, v>> \in {<<b, n, v>> \in Backends \X Names \X Names :
                            /\ got[b] # None
                            /\ n \in got[b]
                            /\ v \in listed_bucket_virtual_name(b, n) \ Plumbing}}
    \cup
    {[name |-> v, backend |-> b, unavailable |-> TRUE, priority |-> 3] :
        <<b, v>> \in {<<b, v>> \in Backends \X (Names \ Plumbing) :
                        /\ got[b] = None
                        /\ \/ v \in DOMAIN Routes /\ Routes[v].backend = b
                           \/ /\ roster[b] # None
                              /\ \E n \in roster[b].list : v \in listed_bucket_virtual_name(b, n)}}

Rank(b) == CHOOSE i \in 1 .. Len(Scan) : Scan[i] = b

\* The best candidate of every name: a route, the default, the name order.
list_bucket_origins(got) ==
    LET cs == Candidates(got)
        better(c, d) == \/ c.priority < d.priority
                        \/ c.priority = d.priority /\ Rank(c.backend) < Rank(d.backend)
    IN  {c \in cs : ~\E d \in cs : d.name = c.name /\ better(d, c)}

Reply(r) ==
    /\ req[r].pc = "listed"
    /\ Goto(r, Idle)
    /\ UNCHANGED <<home, roster, cooldown, epoch, now, acked, failed, probed, arrived, errors>>

Tick ==
    /\ now < MaxTime
    /\ now' = now + 1
    /\ UNCHANGED <<home, roster, cooldown, epoch, req, acked, failed, probed, arrived, errors>>

----------------------------------------------------------------------------

Init ==
    /\ home \in [Backends -> SUBSET Names]
    /\ roster = [b \in Backends |-> None]
    /\ cooldown = [b \in Backends |-> None]
    /\ epoch = 0
    /\ now = 0
    /\ req = [r \in Requests |-> Idle]
    /\ acked = {}
    /\ failed = [b \in Backends |-> None]
    /\ probed = [b \in Backends |-> None]
    /\ arrived = 0
    /\ errors = 0

Next ==
    \/ \E r \in Requests :
        \/ Arrive(r)
        \/ resolve_existing(r)
        \/ Operate(r)
        \/ Answer(r)
        \/ Fail(r)
        \/ ReadEpoch(r)
        \/ Decide(r)
        \/ \E b \in Backends : Probe(r, b)
        \/ gather_listings(r)
        \/ Reply(r)
    \/ Tick

Spec == Init /\ [][Next]_vars

----------------------------------------------------------------------------
(* Properties.                                                             *)

\* A listing that starts after a bucket was created or deleted through this
\* node, and acknowledged, shows that change, whichever probes and which
\* other listings were in progress: invalidate_listing_freshness and the
\* epoch that gather_listings compares before it stamps a roster.
ListsAcknowledged ==
    \A r \in Requests : req[r].pc = "listed" =>
        \A p \in req[r].must :
            req[r].got[p.backend] # None =>
                ((p.real \in req[r].got[p.backend]) = (p.real \in home[p.backend]))

\* A backend is reported as cooling only for list_cooldown after a listing of
\* it failed, or while a probe of it can still be under way: a prober whose
\* client went away does not keep a healthy backend out of the listings.
CoolingIsEarned ==
    \A r \in Requests : req[r].pc \in {"probe", "listed"} =>
        \A b \in Backends : req[r].plan[b] = "cooling" =>
            \/ failed[b] # None /\ req[r].start < failed[b] + ListCooldown
            \/ probed[b] # None /\ req[r].start < probed[b] + ListTimeout + 1

\* The operator's listing names the backend that requests for the bucket are
\* sent to, when every backend answered.
OriginServes ==
    \A r \in Requests :
        req[r].pc = "listed" /\ (\A b \in Backends : req[r].got[b] = home[b]) =>
            \A c \in list_bucket_origins(req[r].got) :
                c.backend = Resolved(c.name, {b \in Backends : c.name \in home[b]}).backend

\* A request never creates a bucket beside one of the same name that it would
\* otherwise have been sent to.
NoSecondHome ==
    [][\A b \in Backends, n \in Names \ DOMAIN Routes :
         n \in home'[b] \ home[b] => \A c \in Backends \ {b} : n \notin home[c]]_vars
=============================================================================
