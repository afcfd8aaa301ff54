------------------------------- MODULE Access -------------------------------
(* A client request on its way to its handler: the admission chain, the     *)
(* rate limiter, the identity, the replay cache, the permissions and the    *)
(* verification of the signature, each a stage that reads shared state of   *)
(* its own (the chain, the user index, the public prefixes) at a moment of  *)
(* its own, while configuration changes publish those one after the other.  *)
(* The index has users: the open and the locked gate let everything and     *)
(* nothing through.                                                         *)
EXTENDS Naturals, FiniteSets

CONSTANTS
    Clients,      \* requests in flight
    Kinds,        \* requests made: [op, key, id, sig, until]; id None is unsigned, until
                  \* the expiry of a presigned URL, None when the headers are signed
    Confs,        \* configurations: [public, block]
    Grants,       \* what the users of the index may do: pairs <<op, key>>
    Known,        \* the access keys of users, all of one address
    None,
    Window,       \* replay window and the limiter's window
    Lockout, MaxAttempts, MaxReplay,
    MaxTime, MaxConfs, MaxRequests

VARIABLES
    now,
    conf,         \* the configuration being published, or in force
    prefix,       \* the published public prefixes
    chain,        \* the published admission chain
    index,        \* the published user index
    replay,       \* signature -> time first seen
    limit,        \* [count, from, locked]: the limiter's entry of the address, or None
    req,          \* per client: [pc, what, seen, mark, scope, index]
    accepted,     \* ghost: <<signature, time, client>> of every write with signed headers let
                  \* through
    evicted,      \* ghost: entries that a replay cache over its cap has given up
    late,         \* ghost: attempts that failed during the lockout in force
    confs, requests

vars == <<now, conf, prefix, chain, index, replay, limit, req, accepted, evicted, late, confs,
          requests>>

Idle == [pc |-> "idle", what |-> None, seen |-> {}, mark |-> FALSE, scope |-> {},
         index |-> {}]

Goto(c, pc) == req' = [req EXCEPT ![c].pc = pc]
Refuse(c) == req' = [req EXCEPT ![c] = Idle]

-----------------------------------------------------------------------------
\* The admission chain of a configuration: the operator's blocks first, then one per
\* bucket with public prefixes, which reads the chain's own copy of the prefixes.
from_config_parts(cf) ==
    [blocks |-> (IF cf.block = "none" THEN <<>> ELSE <<cf.block>>) , public |-> cf.public]

match_public_prefix_grant(ch, what) ==
    what.op = "read" /\ what.id = None /\ what.key \in ch.public

\* Mutant: the public prefixes are tried before the operator's blocks.
PublicFirst(ch, what) ==
    IF match_public_prefix_grant(ch, what) THEN "allow"
    ELSE IF ch.blocks # <<>> /\ ch.blocks[1] = "deny" THEN "deny" ELSE "continue"

\* First match wins.  An allow-anonymous block leaves signed requests alone.
evaluate(ch, what) ==
    IF ch.blocks # <<>> /\ ch.blocks[1] = "deny" THEN "deny"
    ELSE IF ch.blocks # <<>> /\ ch.blocks[1] = "allow" /\ what.id = None THEN "allow"
    ELSE IF match_public_prefix_grant(ch, what) THEN "allow" ELSE "continue"

\* The configuration being published, and the one before until its chain is replaced.
InForce == {conf} \cup {cf \in Confs : from_config_parts(cf) = chain}

\* A request arrives and passes the admission chain.
admission_middleware(c) ==
    /\ req[c].pc = "idle"
    /\ requests < MaxRequests
    /\ requests' = requests + 1
    /\ \E what \in Kinds, ch \in {chain} :
          IF evaluate(ch, what) = "deny" THEN Refuse(c)
          ELSE req' = [req EXCEPT ![c] =
                   [Idle EXCEPT !.pc = "auth", !.what = what, !.seen = InForce,
                                !.mark = (evaluate(ch, what) = "allow")]]
    /\ UNCHANGED <<now, conf, prefix, chain, index, replay, limit, accepted, evicted, late, confs>>

-----------------------------------------------------------------------------
\* The limiter's entry for one address.
IsLockedAt(entry, t) == entry # None /\ entry.locked # None /\ t - entry.locked < Lockout

is_limited(t) == IsLockedAt(limit, t)

record_failure(t) ==
    LET fresh == [count |-> 0, from |-> t, locked |-> None]
        found == IF limit = None THEN fresh
                 ELSE IF limit.locked # None THEN fresh
                 ELSE IF t - limit.from >= Window THEN fresh ELSE limit
    IN  IF IsLockedAt(limit, t) THEN limit
        ELSE [found EXCEPT !.count = @ + 1,
                           !.locked = IF found.count + 1 >= MaxAttempts THEN t ELSE None]

should_keep_entry(t) == IsLockedAt(limit, t) \/ t - limit.from < Window

cleanup_expired ==
    /\ limit # None
    /\ ~should_keep_entry(now)
    /\ limit' = None
    /\ UNCHANGED <<now, conf, prefix, chain, index, replay, req, accepted, evicted, late, confs, requests>>

\* The first half of sigv4_auth_middleware: the user index is read, and kept; an address
\* that is locked out is refused; the others wait out their delay.
classify_auth_gate(c) ==
    /\ req[c].pc = "auth"
    /\ IF is_limited(now) THEN Refuse(c)
       ELSE req' = [req EXCEPT ![c].pc = "identify", ![c].index = index]
    /\ UNCHANGED <<now, conf, prefix, chain, index, replay, limit, accepted, evicted, late, confs, requests>>

-----------------------------------------------------------------------------
\* The replay cache: expired entries go, then the oldest beyond the cap.
Live(cache, t) == {e \in cache : t - e[2] < Window}

prune_replay_cache(cache, t) ==
    LET live == Live(cache, t)
        Older(s) == \A e \in s, f \in live \ s : e[2] <= f[2]
    IN  IF Cardinality(live) <= MaxReplay THEN {live}
        ELSE {live \ s : s \in {x \in SUBSET live :
                 Cardinality(x) = Cardinality(live) - MaxReplay /\ Older(x)}}

\* The entry of a signature is checked and inserted under one lock.
Seen(cache, sig) == \E e \in cache : e[1] = sig

replay_decision(op, duplicate) ==
    IF ~duplicate THEN "fresh" ELSE IF op = "read" THEN "tolerated" ELSE "reject"

Identified(c, cache) ==
    \E duplicate \in {Seen(cache, req[c].what.sig)} :
       /\ evicted' = IF Cardinality(Live(replay, now)) <= MaxReplay THEN evicted
                     ELSE evicted \cup (Live(replay, now) \ cache)
       /\ replay' = IF duplicate THEN cache ELSE cache \cup {<<req[c].what.sig, now>>}
       /\ \/ /\ replay_decision(req[c].what.op, duplicate) = "reject"
             /\ Refuse(c)
             /\ UNCHANGED accepted
          \/ /\ replay_decision(req[c].what.op, duplicate) # "reject"
             /\ Goto(c, "authz")
             /\ accepted' = IF req[c].what.op = "write"
                            THEN accepted \cup {<<req[c].what.sig, now, c>>} ELSE accepted

\* The prefixes an admitted anonymous request is scoped to.
build_anonymous_user(c) == prefix

\* The parameters of the signature: those of a presigned URL are refused when it expired.
from_headers(what) == what.id # None
from_query(what, t) == t <= what.until
Parsed(what, t) == IF what.until = None THEN from_headers(what) ELSE from_query(what, t)

\* The second half: an admitted request becomes the anonymous user; a signed one needs a
\* known access key, and its signature must be new unless it is a presigned URL's.
sigv4_auth_middleware(c) ==
    /\ req[c].pc = "identify"
    /\ \/ /\ req[c].mark
          /\ req' = [req EXCEPT ![c].pc = "authz", ![c].scope = build_anonymous_user(c)]
          /\ UNCHANGED <<replay, limit, late, accepted, evicted>>
       \/ /\ ~req[c].mark
          /\ ~Parsed(req[c].what, now) \/ req[c].what.id \notin req[c].index
          /\ limit' = record_failure(now)
          /\ late' = IF IsLockedAt(limit, now) THEN late + 1 ELSE 0
          /\ Refuse(c)
          /\ UNCHANGED <<replay, accepted, evicted>>
       \/ /\ ~req[c].mark
          /\ Parsed(req[c].what, now) /\ req[c].what.id \in req[c].index
          /\ limit' = None
          /\ IF req[c].what.until = None
             THEN \E cache \in prune_replay_cache(replay, now) : Identified(c, cache)
             ELSE Goto(c, "authz") /\ UNCHANGED <<replay, accepted, evicted>>
          /\ UNCHANGED late
    /\ UNCHANGED <<now, conf, prefix, chain, index, confs, requests>>

\* The permissions of the identity: an anonymous request reads under its prefixes.
evaluate_iam(c) ==
    IF req[c].mark THEN req[c].what.op = "read" /\ req[c].what.key \in req[c].scope
                   ELSE <<req[c].what.op, req[c].what.key>> \in Grants

authorization_middleware(c) ==
    /\ req[c].pc = "authz"
    /\ IF evaluate_iam(c) THEN Goto(c, "verify") ELSE Refuse(c)
    /\ UNCHANGED <<now, conf, prefix, chain, index, replay, limit, accepted, evicted, late, confs, requests>>

\* s3s looks the secret up in the index of this moment and verifies the signature.
get_secret_key(c) ==
    /\ req[c].pc = "verify"
    /\ IF req[c].mark \/ req[c].what.id \in index THEN Goto(c, "served") ELSE Refuse(c)
    /\ UNCHANGED <<now, conf, prefix, chain, index, replay, limit, accepted, evicted, late, confs, requests>>

Answer(c) ==
    /\ req[c].pc = "served"
    /\ Refuse(c)
    /\ UNCHANGED <<now, conf, prefix, chain, index, replay, limit, accepted, evicted, late, confs, requests>>

-----------------------------------------------------------------------------
\* A configuration is published: the prefixes first, then the chain.
publish_prefixes ==
    /\ prefix = conf.public /\ chain = from_config_parts(conf)
    /\ confs < MaxConfs
    /\ confs' = confs + 1
    /\ \E cf \in Confs \ {conf} :
          /\ conf' = cf
          /\ prefix' = cf.public
          /\ req' = [c \in Clients |-> IF req[c].pc = "idle" THEN req[c]
                                       ELSE [req[c] EXCEPT !.seen = @ \cup {cf}]]
    /\ UNCHANGED <<now, chain, index, replay, limit, accepted, evicted, late, requests>>

publish_chain ==
    /\ chain # from_config_parts(conf)
    /\ chain' = from_config_parts(conf)
    /\ UNCHANGED <<now, conf, prefix, index, replay, limit, req, accepted, evicted, late, confs, requests>>

\* A user is enabled or disabled: the index is swapped.
swap_index ==
    /\ confs < MaxConfs
    /\ confs' = confs + 1
    /\ \E i \in Known : index' = IF i \in index THEN index \ {i} ELSE index \cup {i}
    /\ UNCHANGED <<now, conf, prefix, chain, replay, limit, req, accepted, evicted, late, requests>>

Tick ==
    /\ now < MaxTime
    /\ now' = now + 1
    /\ UNCHANGED <<conf, prefix, chain, index, replay, limit, req, accepted, evicted, late, confs, requests>>

Init ==
    /\ now = 0
    /\ conf \in Confs
    /\ prefix = conf.public
    /\ chain = from_config_parts(conf)
    /\ index = Known
    /\ replay = {}
    /\ limit = None
    /\ req = [c \in Clients |-> Idle]
    /\ accepted = {} /\ evicted = {} /\ late = 0
    /\ confs = 0 /\ requests = 0

Serve(c) == \/ admission_middleware(c) \/ classify_auth_gate(c) \/ sigv4_auth_middleware(c)
            \/ authorization_middleware(c) \/ get_secret_key(c) \/ Answer(c)

Next == (\E c \in Clients : Serve(c)) \/ publish_prefixes \/ publish_chain \/ swap_index
        \/ cleanup_expired \/ Tick

Spec == Init /\ [][Next]_vars

-----------------------------------------------------------------------------
TypeOK ==
    /\ prefix \in {cf.public : cf \in Confs}
    /\ chain \in {from_config_parts(cf) : cf \in Confs}
    /\ index \subseteq Known
    /\ \A c \in Clients : req[c].pc \in {"idle", "auth", "identify", "authz", "verify", "served"}
    /\ \A e \in replay : e[2] <= now

\* A configuration lets anybody read a key: it is public, and no operator block denies it.
Opened(cf, k) == k \in cf.public /\ cf.block # "deny"

\* Torn reads grant nothing: what is served to nobody in particular was open to everybody
\* in one configuration that was in force while the request was under way.
GrantedByOne ==
    \A c \in Clients : (req[c].pc = "served" /\ req[c].mark) =>
        \E cf \in req[c].seen : Opened(cf, req[c].what.key)

\* A write with signed headers that is sent twice (a retry, a duplicate) is not let through
\* twice within the replay window, however the copies interleave, unless its entry
\* was given up by a cache over its cap.  Presigned writes are meant to be used again.
MutationOnce ==
    \A e, f \in accepted : (e # f /\ e[1] = f[1] /\ e[2] <= f[2]) =>
        f[2] - e[2] >= Window \/ <<e[1], e[2]>> \in evicted

\* The same without the exception: false, a full cache forgets signatures that are live.
NeverTwice ==
    \A e, f \in accepted : (e # f /\ e[1] = f[1] /\ e[2] <= f[2]) => f[2] - e[2] >= Window

\* A lockout stops the guessing: of those already past the check when it begins, each can
\* fail once more, and nobody else.
LateAttempts == late < Cardinality(Clients)
=============================================================================
