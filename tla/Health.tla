------------------------------- MODULE Health -------------------------------
(***************************************************************************)
(* What a node finds out about its storage backends and does about it: the *)
(* connection probe and its cache (coordination/health.rs), the probe for  *)
(* conditional writes and its cache (coordination/capability.rs), the gates *)
(* at boot (startup.rs), before a configuration is applied, before a       *)
(* migration and in front of every request, the re-probe loop (main.rs),   *)
(* the administrators' doors (api/admin/backends.rs), and the witness of   *)
(* the coordination bucket (config_db_sync.rs), which all nodes share.     *)
(*                                                                         *)
(* A definition (a member of Defs) is an endpoint with its credentials and *)
(* is its own fingerprint.  How the service behind it behaves is external  *)
(* and changes: how it answers ListBuckets and HeadBucket, and what it     *)
(* makes of a conditional PUT.  Applying a configuration holds the write   *)
(* lock from the first gate to the commit; probes of the other doors run   *)
(* without it, between a read of the configuration and the store of the    *)
(* verdict.                                                                *)
(***************************************************************************)
EXTENDS Integers, Sequences, FiniteSets

CONSTANTS
    Backends, Default,     \* the names, and the name of the singleton backend
    Defs, Local,           \* definitions; those of filesystem backends
    Buckets, Staging,      \* bucket names; the key of a migration's staging route
    Admins, Loops,         \* requests to the admin doors; ticks of the re-probe loop
    Node, Peers,           \* this node; others that validate the coordination bucket
    Conditions, Worlds,    \* how a service can be; how the services are at first
    First, Docs,           \* the configuration at first; the ones administrators apply
    BootMode,              \* DGP_BOOT_BACKEND_PROBE
    WitnessAge,            \* WITNESS_MAX_AGE_SECS
    MaxClock, MaxChanges, MaxCalls, MaxStarts,     \* bounds
    None

VARIABLES
    world,        \* world[d]: the service behind d
    setup,        \* the configuration, in memory and on disk
    latch,        \* who holds the write lock of the configuration
    health,       \* health[n]: BackendHealthCache
    capability,   \* capability[n]: BackendCapabilityCache
    boot,         \* how far the process has started
    chores,       \* chores[t]: what an admin request or a tick of the loop is doing
    checks,       \* checks[v]: a node's validation of the coordination bucket
    witness,      \* witness[d]: the stamp of the witness object kept at d
    clock,
    spent,        \* the bounds' counters
    ailed,        \* history: the definitions that could have failed a probe
    held,         \* history: when d was last seen to enforce conditions
    doubted,      \* history: the definitions some capability probe could not tell about
    moved,        \* history: the routes a migration made since the last vetting
    joined        \* history: the coordination bucket's definition and when it was validated

vars == <<world, setup, latch, health, capability, boot, chores, checks, witness, clock,
          spent, ailed, held, doubted, moved, joined>>

Names == Backends \cup {Default}
Tasks == Admins \cup Loops
Keys == Buckets \cup {Staging}
Nodes == Peers \cup {Node}

Answers == {"ok", "missing", "denied", "rejected", "failing", "silent"}
Puts == {"enforces", "ignores", "refuses", "fails"}
Verdicts == {"healthy", "auth", "unreachable", "erroring"}
Capabilities == {"cas", "non-cas", "unknown"}

Service == [list: Answers, head: Answers, put: Puts]
Listed == [name: Backends, def: Defs]
Config == [own: Defs, list: Seq(Listed), pick: Backends \cup {None},
           route: [Keys -> Names \cup {None}], only: SUBSET Keys, multi: BOOLEAN]

Found == [def: Defs, verdict: Verdicts]
Told == [def: Defs, verdict: Capabilities]
Checks == [at: {"read", "probe", "write"}, def: Defs, began: Nat, refresh: BOOLEAN]
Memberships == [def: Defs, at: Nat]

ASSUME HealthConstants ==
    /\ Default \notin Backends /\ None \notin Names /\ None \notin Defs
    /\ Staging \notin Buckets /\ Local \subseteq Defs
    /\ Admins \cap Loops = {} /\ None \notin Tasks /\ Node \notin Peers
    /\ Conditions \subseteq Service /\ Worlds \subseteq [Defs -> Service]
    /\ First \in Config /\ Docs \subseteq Config
    /\ BootMode \in {"enforce", "warn", "off"} /\ WitnessAge \in Nat \ {0}
    /\ None \notin Int /\ None \notin Verdicts \cup Capabilities
    /\ None \notin Found \cup Told \cup Checks \cup Memberships

-----------------------------------------------------------------------------
(* The connection probe.                                                   *)

\* classify_probe_signal; "denied" is AccessDenied or a bare 403, "rejected" a hard code.
classify_probe_signal(answer) ==
    CASE answer = "silent" -> "unreachable"
      [] answer \in {"denied", "rejected"} -> "auth"
      [] OTHER -> "erroring"

\* A soft denial of ListBuckets is settled by HeadBucket on a routed bucket.
FallbackVerdict(answer) ==
    CASE answer = "silent" -> "unreachable"
      [] answer = "rejected" -> "auth"
      [] answer = "failing" -> "erroring"
      [] OTHER -> "healthy"

probe_s3_once(w, fallback) ==
    CASE w.list = "ok" -> "healthy"
      [] w.list = "denied" -> IF fallback THEN FallbackVerdict(w.head) ELSE "healthy"
      [] OTHER -> classify_probe_signal(w.list)

Attempt(d, fallback) ==
    IF d \in Local THEN IF world[d].list = "ok" THEN "healthy" ELSE "unreachable"
    ELSE probe_s3_once(world[d], fallback)

\* probe_backend_health tries an S3 backend a second time unless the verdict is definitive.
Attempts == 2
Final(d, tries, verdict) ==
    \/ d \in Local \/ tries = Attempts
    \/ verdict \in {"healthy", "auth"}

is_gating(verdict) == verdict \in {"auth", "unreachable"}

-----------------------------------------------------------------------------
(* A configuration.                                                        *)

Named(c) == {c.list[i].name : i \in DOMAIN c.list}
DefOf(c, n) ==
    IF n = Default THEN c.own
    ELSE c.list[CHOOSE i \in DOMAIN c.list :
                   /\ c.list[i].name = n
                   /\ \A j \in DOMAIN c.list : c.list[j].name = n => i <= j].def

HasFallback(c, n) ==
    \E b \in Keys : c.route[b] = (IF n = Default THEN None ELSE n)

Target(c, n, d) == [name |-> n, def |-> d, fallback |-> HasFallback(c, n)]
probe_targets(c) ==
    <<Target(c, Default, c.own)>>
        \o [i \in DOMAIN c.list |-> Target(c, c.list[i].name, c.list[i].def)]

Duplicated(c) == \E i, j \in DOMAIN c.list : i # j /\ c.list[i].name = c.list[j].name
check_fatal(c) ==
    \/ Duplicated(c)
    \/ \E b \in Keys : c.route[b] \notin Named(c) \cup {Default, None}

\* A client-writable bucket routed to a named backend in the cloud.
ClientWritable(c, b) ==
    /\ b \notin c.only /\ c.route[b] \in Named(c) \ {Default}
    /\ DefOf(c, c.route[b]) \notin Local

client_writable_s3_backends(c) == {c.route[b] : b \in {k \in Keys : ClientWritable(c, k)}}

\* The names the capability gates look at.
ToVet(c) == IF c.multi THEN client_writable_s3_backends(c) ELSE {}

\* Where the engine puts a bucket: named backends, once there are any, hide the singleton.
EngineDefault(c) == IF c.pick # None THEN c.pick ELSE c.list[1].name
EngineDef(c, b) ==
    IF c.list = <<>> THEN c.own
    ELSE DefOf(c, IF c.route[b] # None THEN c.route[b] ELSE EngineDefault(c))

\* RoutingBackend::new accepts only routes to backends it has.
Buildable(c) ==
    c.list # <<>> => /\ EngineDefault(c) \in Named(c)
                     /\ \A b \in Keys : c.route[b] \in Named(c) \cup {None}

-----------------------------------------------------------------------------
(* The caches, keyed by name and trusted for one definition.               *)

Entry(d, verdict) == [def |-> d, verdict |-> verdict]

\* Mutant: a verdict is trusted whatever it was established against.
CachedByName(cache, n, d) == IF cache[n] = None THEN None ELSE cache[n].verdict

Cached(cache, n, d) ==
    IF cache[n] # None /\ cache[n].def = d THEN cache[n].verdict ELSE None

unhealthy_names == {n \in Names : health[n] # None /\ health[n].verdict # "healthy"}

\* backend_health_gate_middleware: is a request to b answered 503?  A held write lock, an
\* unknown route and a verdict about another definition let it pass.
GateName(b) == IF setup.route[b] = None THEN Default ELSE setup.route[b]
TurnedAway(b) ==
    /\ boot.at = "up" /\ latch = None
    /\ GateName(b) \in Named(setup) \cup {Default}
    /\ is_gating(Cached(health, GateName(b), DefOf(setup, GateName(b))))

-----------------------------------------------------------------------------
Idle == [kind |-> "idle"]
NoCaches == [n \in Names |-> None]

Enforcing(w) == {d \in Defs : w[d].put = "enforces"}
Ails(w) == {d \in Defs : IF d \in Local THEN w[d].list # "ok"
                         ELSE \E f \in BOOLEAN : is_gating(probe_s3_once(w[d], f))}

\* The process begins with empty caches, at the capability gate; an un-runnable
\* configuration ends it.
Starting(c) ==
    [at |-> IF check_fatal(c) THEN "exit" ELSE "capability", left |-> ToVet(c), dead |-> 0]

Init ==
    /\ world \in Worlds
    /\ setup = First
    /\ latch = None
    /\ health = NoCaches
    /\ capability = NoCaches
    /\ boot = Starting(First)
    /\ chores = [t \in Tasks |-> Idle]
    /\ checks = [v \in Nodes |-> None]
    /\ witness = [d \in Defs |-> None]
    /\ clock = 0
    /\ spent = [changes |-> 0, calls |-> 0, starts |-> 0]
    /\ ailed = Ails(world)
    /\ held = [d \in Defs |-> IF d \in Enforcing(world) THEN 0 ELSE None]
    /\ doubted = {}
    /\ moved = {}
    /\ joined = None

Up == boot.at = "up"
Goto(stage, names) == boot' = [at |-> stage, left |-> names, dead |-> 0]

-----------------------------------------------------------------------------
(* The probe for conditional writes (probe_conditional_write): a PUT and a *)
(* PUT that must be refused, on a key of its own.                          *)

CasVerdict(put) == CASE put = "enforces" -> "cas"
                     [] put = "fails"    -> "unknown"
                     [] OTHER            -> "non-cas"

\* establish_backend_verdict, for the definition d under the name n.
Vet(n, d) ==
    LET verdict == CasVerdict(world[d].put)
    IN  /\ capability' = [capability EXCEPT ![n] = Entry(d, verdict)]
        /\ doubted' = IF verdict = "unknown" THEN doubted \cup {d} ELSE doubted

\* A cached "unknown" is no verdict and is asked again.
Vetted(n, d) == Cached(capability, n, d) \in {"cas", "non-cas"}

\* The verdict of a gate: the cached one, or the probe's.
GateVerdict(n, d) ==
    IF Vetted(n, d) THEN capability[n].verdict ELSE CasVerdict(world[d].put)

LookAt(n, d) ==
    IF Vetted(n, d) THEN UNCHANGED <<capability, doubted>> ELSE Vet(n, d)

-----------------------------------------------------------------------------
(* Boot: the capability gate, the health gate, and the two validations of  *)
(* the coordination bucket (build_coordination_lease, init_config_sync).   *)

\* validate_backend_write_capability, one backend; a definitive "non-cas" ends the process.
BootCapability(n) ==
    /\ boot.at = "capability" /\ n \in boot.left
    /\ Vet(n, DefOf(setup, n))
    /\ IF CasVerdict(world[DefOf(setup, n)].put) = "non-cas" THEN Goto("exit", {})
       ELSE boot' = [boot EXCEPT !.left = @ \ {n}]
    /\ UNCHANGED <<world, setup, latch, health, chores, checks, witness, clock, spent, ailed,
                   held, moved, joined>>

BootCapable ==
    /\ boot.at = "capability" /\ boot.left = {}
    /\ Goto("health", IF BootMode = "off" THEN {} ELSE Named(setup) \cup {Default})
    /\ moved' = IF setup.multi THEN {} ELSE moved
    /\ UNCHANGED <<world, setup, latch, health, capability, chores, checks, witness, clock,
                   spent, ailed, held, doubted, joined>>

\* boot_backend_health_gate, one backend; both attempts fall into one step.
BootHealth(n) ==
    LET d == DefOf(setup, n)
        verdict == Attempt(d, HasFallback(setup, n))
    IN  /\ boot.at = "health" /\ n \in boot.left
        /\ health' = [health EXCEPT ![n] = Entry(d, verdict)]
        /\ boot' = [boot EXCEPT !.left = @ \ {n},
                                !.dead = IF is_gating(verdict) THEN @ + 1 ELSE @]
        /\ UNCHANGED <<world, setup, latch, capability, chores, checks, witness, clock, spent,
                       ailed, held, doubted, moved, joined>>

AllDead == boot.dead = Cardinality(Named(setup) \cup {Default})

BootHealthy ==
    /\ boot.at = "health" /\ boot.left = {}
    /\ Goto(IF AllDead /\ BootMode = "enforce" THEN "exit"
            ELSE IF setup.multi THEN "lease" ELSE "up", {})
    /\ UNCHANGED <<world, setup, latch, health, capability, chores, checks, witness, clock,
                   spent, ailed, held, doubted, moved, joined>>

\* A coordination client that cannot be built leaves the node without coordination.
BootAlone ==
    /\ boot.at \in {"lease", "sync"} /\ checks[Node] = None
    /\ Goto(IF boot.at = "lease" THEN "sync" ELSE "up", {})
    /\ UNCHANGED <<world, setup, latch, health, capability, chores, checks, witness, clock,
                   spent, ailed, held, doubted, moved, joined>>

-----------------------------------------------------------------------------
(* validate_cas_bucket: this node at its boot, and other nodes at theirs.  *)

\* The stamp is the time at which a validation begins.
Begin(v, d) ==
    checks' = [checks EXCEPT ![v] = [at |-> "read", def |-> d, began |-> clock,
                                     refresh |-> FALSE]]

BootValidate ==
    /\ boot.at \in {"lease", "sync"} /\ checks[Node] = None
    /\ Begin(Node, setup.own)
    /\ UNCHANGED <<world, setup, latch, health, capability, boot, chores, witness, clock,
                   spent, ailed, held, doubted, moved, joined>>

PeerValidate(v, d) ==
    /\ v \in Peers /\ checks[v] = None /\ spent.starts < MaxStarts
    /\ Begin(v, d)
    /\ spent' = [spent EXCEPT !.starts = @ + 1]
    /\ UNCHANGED <<world, setup, latch, health, capability, boot, chores, witness, clock,
                   ailed, held, doubted, moved, joined>>

\* What the end of a validation means for this node: a failed one ends the process.
Passes(v) ==
    /\ checks' = [checks EXCEPT ![v] = None]
    /\ IF v # Node THEN UNCHANGED <<boot, joined>>
       ELSE IF boot.at = "sync" THEN Goto("up", {}) /\ UNCHANGED joined
       ELSE /\ Goto("sync", {})
            /\ joined' = [def |-> checks[v].def, at |-> checks[v].began]

Fails(v) ==
    /\ checks' = [checks EXCEPT ![v] = None]
    /\ IF v # Node THEN UNCHANGED boot ELSE Goto("exit", {})
    /\ UNCHANGED joined

witness_is_fresh(stamp, now) == now >= stamp /\ now - stamp < WitnessAge

ReadWitness(v) ==
    LET x == checks[v]
        stamp == witness[x.def]
        readable == world[x.def].put # "fails" /\ stamp # None
    IN  /\ x # None /\ x.at = "read"
        /\ IF readable /\ witness_is_fresh(stamp, x.began) THEN Passes(v)
           ELSE /\ checks' = [checks EXCEPT ![v].at = "probe", ![v].refresh = readable]
                /\ UNCHANGED <<boot, joined>>
        /\ UNCHANGED <<world, setup, latch, health, capability, chores, witness, clock, spent,
                       ailed, held, doubted, moved>>

ProbeBucket(v) ==
    LET x == checks[v]
    IN  /\ x # None /\ x.at = "probe"
        /\ IF CasVerdict(world[x.def].put) # "cas" THEN Fails(v)
           ELSE /\ checks' = [checks EXCEPT ![v].at = "write"]
                /\ UNCHANGED <<boot, joined>>
        /\ UNCHANGED <<world, setup, latch, health, capability, chores, witness, clock, spent,
                       ailed, held, doubted, moved>>

\* write_witness creates the object, or overwrites a stale one; the result is ignored.
Lands(x) ==
    CASE world[x.def].put = "fails"    -> FALSE
      [] x.refresh                     -> TRUE
      [] world[x.def].put = "enforces" -> witness[x.def] = None
      [] OTHER                         -> world[x.def].put = "ignores"

WriteWitness(v) ==
    LET x == checks[v]
    IN  /\ x # None /\ x.at = "write"
        /\ witness' = IF Lands(x) THEN [witness EXCEPT ![x.def] = x.began] ELSE witness
        /\ Passes(v)
        /\ UNCHANGED <<world, setup, latch, health, capability, chores, clock, spent, ailed,
                       held, doubted, moved>>

-----------------------------------------------------------------------------
(* Applying a configuration.                                               *)

Call == Up /\ spent.calls < MaxCalls /\ spent' = [spent EXCEPT !.calls = @ + 1]
Becomes(t, chore) == chores' = [chores EXCEPT ![t] = chore]
Quits(t) == Becomes(t, Idle)

\* The gates of apply_config_transition follow each other without a pause.
Onward(x) ==
    IF x.at = "capability" /\ x.vet = {} THEN [x EXCEPT !.at = "health"] ELSE x

Apply(t, new) ==
    /\ t \in Admins /\ chores[t] = Idle /\ latch = None /\ Call
    /\ ~check_fatal(new)
    /\ latch' = t
    /\ Becomes(t, Onward([kind |-> "apply", new |-> new, at |-> "capability",
                          vet |-> ToVet(new), tries |-> 1,
                          left |-> IF BootMode = "off" THEN <<>> ELSE probe_targets(new)]))
    /\ UNCHANGED <<world, setup, health, capability, boot, checks, witness, clock, ailed, held,
                   doubted, moved, joined>>

Refuses(t) == Quits(t) /\ latch' = None

\* hot_apply_capability_gate, one backend.
ApplyCapability(t, n) ==
    LET x == chores[t]
        d == DefOf(x.new, n)
    IN  /\ x.kind = "apply" /\ x.at = "capability" /\ n \in x.vet
        /\ LookAt(n, d)
        /\ IF GateVerdict(n, d) = "non-cas" THEN Refuses(t)
           ELSE /\ Becomes(t, Onward([x EXCEPT !.vet = @ \ {n}]))
                /\ UNCHANGED latch
        /\ UNCHANGED <<world, setup, health, boot, checks, witness, clock, spent, ailed, held,
                       moved, joined>>

\* hot_apply_health_gate, one attempt at the next backend.
ApplyHealth(t) ==
    LET x == chores[t]
        g == Head(x.left)
        verdict == Attempt(g.def, g.fallback)
        next == [x EXCEPT !.left = Tail(@), !.tries = 1]
    IN  /\ x.kind = "apply" /\ x.at = "health" /\ x.left # <<>>
        /\ \/ /\ Cached(health, g.name, g.def) # None
              /\ Becomes(t, next)
              /\ UNCHANGED <<health, latch>>
           \/ /\ Cached(health, g.name, g.def) = None
              /\ IF ~Final(g.def, x.tries, verdict)
                 THEN Becomes(t, [x EXCEPT !.tries = @ + 1]) /\ UNCHANGED <<health, latch>>
                 ELSE IF verdict # "healthy" THEN Refuses(t) /\ UNCHANGED health
                 ELSE /\ health' = [health EXCEPT ![g.name] = Entry(g.def, verdict)]
                      /\ Becomes(t, next)
                      /\ UNCHANGED latch
        /\ UNCHANGED <<world, setup, capability, boot, checks, witness, clock, spent, ailed,
                       held, doubted, moved, joined>>

ApplyCommit(t) ==
    LET x == chores[t]
    IN  /\ x.kind = "apply" /\ x.at = "health" /\ x.left = <<>>
        /\ Buildable(x.new)
        /\ setup' = x.new
        /\ moved' = {}
        /\ Refuses(t)
        /\ UNCHANGED <<world, health, capability, boot, checks, witness, clock, spent, ailed,
                       held, doubted, joined>>

\* The engine cannot be built, or the client goes away at an await.
ApplyAbandoned(t) ==
    /\ chores[t].kind = "apply"
    /\ Refuses(t)
    /\ UNCHANGED <<world, setup, health, capability, boot, checks, witness, clock, spent, ailed,
                   held, doubted, moved, joined>>

-----------------------------------------------------------------------------
(* The other doors of the administrators.                                  *)

\* create_backend probes and stores the verdict before it takes the write lock.
Create(t, n, d, first) ==
    /\ t \in Admins /\ chores[t] = Idle /\ Call
    /\ Becomes(t, [kind |-> "create", name |-> n, def |-> d, first |-> first, tries |-> 1,
                   at |-> IF BootMode = "off" THEN "commit" ELSE "probe"])
    /\ UNCHANGED <<world, setup, latch, health, capability, boot, checks, witness, clock, ailed,
                   held, doubted, moved, joined>>

CreateProbe(t) ==
    LET x == chores[t]
        verdict == Attempt(x.def, FALSE)
    IN  /\ x.kind = "create" /\ x.at = "probe"
        /\ IF ~Final(x.def, x.tries, verdict)
           THEN Becomes(t, [x EXCEPT !.tries = @ + 1]) /\ UNCHANGED health
           ELSE IF verdict # "healthy" THEN Quits(t) /\ UNCHANGED health
           ELSE /\ health' = [health EXCEPT ![x.name] = Entry(x.def, verdict)]
                /\ Becomes(t, [x EXCEPT !.at = "commit"])
        /\ UNCHANGED <<world, setup, latch, capability, boot, checks, witness, clock, spent,
                       ailed, held, doubted, moved, joined>>

WithBackend(x) ==
    [setup EXCEPT !.list = Append(@, [name |-> x.name, def |-> x.def]),
                  !.pick = IF x.first \/ @ = None THEN x.name ELSE @]

CreateCommit(t) ==
    LET x == chores[t]
    IN  /\ x.kind = "create" /\ x.at = "commit" /\ latch = None
        /\ setup' = IF x.name \notin Named(setup) /\ Buildable(WithBackend(x))
                    THEN WithBackend(x) ELSE setup
        /\ Quits(t)
        /\ UNCHANGED <<world, latch, health, capability, boot, checks, witness, clock, spent,
                       ailed, held, doubted, moved, joined>>

\* Names are unique in a configuration that runs, so a backend has one place in the list.
WithoutBackend(n) ==
    LET place == CHOOSE i \in DOMAIN setup.list : setup.list[i].name = n
    IN  [setup EXCEPT !.list = [i \in 1..(Len(setup.list) - 1) |->
                                  setup.list[IF i < place THEN i ELSE i + 1]]]

Delete(n) ==
    /\ latch = None /\ Call
    /\ n \in Named(setup) /\ n # setup.pick
    /\ \A b \in Keys : setup.route[b] # n
    /\ Buildable(WithoutBackend(n))
    /\ setup' = WithoutBackend(n)
    /\ UNCHANGED <<world, latch, health, capability, boot, chores, checks, witness, clock,
                   ailed, held, doubted, moved, joined>>

\* probe_backend, "Test connection".
Test(t, i) ==
    /\ t \in Admins /\ chores[t] = Idle /\ latch = None /\ Call
    /\ i \in DOMAIN probe_targets(setup)
    /\ Becomes(t, [kind |-> "test", target |-> probe_targets(setup)[i], tries |-> 1])
    /\ UNCHANGED <<world, setup, latch, health, capability, boot, checks, witness, clock, ailed,
                   held, doubted, moved, joined>>

TestProbe(t) ==
    LET x == chores[t]
        g == x.target
        verdict == Attempt(g.def, g.fallback)
    IN  /\ x.kind = "test"
        /\ IF ~Final(g.def, x.tries, verdict)
           THEN Becomes(t, [x EXCEPT !.tries = @ + 1]) /\ UNCHANGED health
           ELSE /\ health' = [health EXCEPT ![g.name] = Entry(g.def, verdict)]
                /\ Quits(t)
        /\ UNCHANGED <<world, setup, latch, capability, boot, checks, witness, clock, spent,
                       ailed, held, doubted, moved, joined>>

-----------------------------------------------------------------------------
(* A migration: the gate of start_migrate, on a copy of the configuration, *)
(* and the worker's changes of the routes.                                 *)

Origin(b) == IF setup.route[b] # None THEN setup.route[b]
             ELSE IF setup.pick # None THEN setup.pick ELSE Default

Migrate(t, b, n) ==
    /\ t \in Admins /\ chores[t] = Idle /\ latch = None /\ Call
    /\ setup.list # <<>> => n \in Named(setup)
    /\ Origin(b) # n
    /\ setup.route[Staging] = None
    /\ \A u \in Tasks : chores[u].kind # "migrate"
    /\ Becomes(t, [kind |-> "migrate", bucket |-> b, target |-> n, seen |-> setup,
                   at |-> "gate"])
    /\ UNCHANGED <<world, setup, latch, health, capability, boot, checks, witness, clock, ailed,
                   held, doubted, moved, joined>>

\* migrate_target_capability_gate.
Exempt(x) == \/ ~x.seen.multi \/ x.bucket \in x.seen.only
             \/ x.target \notin Named(x.seen) \ {Default}
             \/ DefOf(x.seen, x.target) \in Local

MigrateGate(t) ==
    LET x == chores[t]
        d == DefOf(x.seen, x.target)
    IN  /\ x.kind = "migrate" /\ x.at = "gate"
        /\ IF Exempt(x) THEN UNCHANGED <<capability, doubted>> ELSE LookAt(x.target, d)
        /\ IF ~Exempt(x) /\ GateVerdict(x.target, d) = "non-cas" THEN Quits(t)
           ELSE Becomes(t, [x EXCEPT !.at = "stage"])
        /\ UNCHANGED <<world, setup, latch, health, boot, checks, witness, clock, spent, ailed,
                       held, moved, joined>>

\* ensure_route: the staging route has the default policy.
Staged(n) == [setup EXCEPT !.route[Staging] = n, !.only = @ \ {Staging}]
Unstaged == [setup EXCEPT !.route[Staging] = None]
Flipped(b, n) == [setup EXCEPT !.route[b] = n, !.route[Staging] = None]

MigrateStage(t) ==
    LET x == chores[t]
    IN  /\ Up /\ x.kind = "migrate" /\ x.at = "stage" /\ latch = None
        /\ Buildable(Staged(x.target))
        /\ setup' = Staged(x.target)
        /\ moved' = moved \cup {Staging}
        /\ Becomes(t, [x EXCEPT !.at = "flip"])
        /\ UNCHANGED <<world, latch, health, capability, boot, checks, witness, clock, spent,
                       ailed, held, doubted, joined>>

MigrateFlip(t) ==
    LET x == chores[t]
    IN  /\ Up /\ x.kind = "migrate" /\ x.at = "flip" /\ latch = None
        /\ Buildable(Flipped(x.bucket, x.target))
        /\ setup' = Flipped(x.bucket, x.target)
        /\ moved' = (moved \cup {x.bucket}) \ {Staging}
        /\ Quits(t)
        /\ UNCHANGED <<world, latch, health, capability, boot, checks, witness, clock, spent,
                       ailed, held, doubted, joined>>

\* A failed or cancelled job takes its staging route back.
MigrateUnwind(t) ==
    LET x == chores[t]
    IN  /\ Up /\ x.kind = "migrate" /\ x.at # "gate" /\ latch = None
        /\ setup' = Unstaged
        /\ Quits(t)
        /\ UNCHANGED <<world, latch, health, capability, boot, checks, witness, clock, spent,
                       ailed, held, doubted, moved, joined>>

-----------------------------------------------------------------------------
(* The re-probe loop: only what is unhealthy is asked again.               *)

LoopTick(t) ==
    /\ t \in Loops /\ Up /\ chores[t] = Idle /\ unhealthy_names # {}
    /\ Becomes(t, [kind |-> "loop", at |-> "look", seen |-> unhealthy_names, left |-> <<>>,
                   tries |-> 1])
    /\ UNCHANGED <<world, setup, latch, health, capability, boot, checks, witness, clock, spent,
                   ailed, held, doubted, moved, joined>>

\* retain_backends drops the entries of names that are gone.
LoopLook(t) ==
    LET x == chores[t]
    IN  /\ x.kind = "loop" /\ x.at = "look" /\ latch = None
        /\ health' = [n \in Names |-> IF n \in Named(setup) \cup {Default}
                                      THEN health[n] ELSE None]
        /\ Becomes(t, [x EXCEPT !.at = "probe", !.left = probe_targets(setup)])
        /\ UNCHANGED <<world, setup, latch, capability, boot, checks, witness, clock, spent,
                       ailed, held, doubted, moved, joined>>

LoopProbe(t) ==
    LET x == chores[t]
        g == Head(x.left)
        verdict == Attempt(g.def, g.fallback)
        next == [x EXCEPT !.left = Tail(@), !.tries = 1]
    IN  /\ x.kind = "loop" /\ x.at = "probe" /\ x.left # <<>>
        /\ IF g.name \notin x.seen THEN Becomes(t, next) /\ UNCHANGED health
           ELSE IF ~Final(g.def, x.tries, verdict)
           THEN Becomes(t, [x EXCEPT !.tries = @ + 1]) /\ UNCHANGED health
           ELSE /\ health' = [health EXCEPT ![g.name] = Entry(g.def, verdict)]
                /\ Becomes(t, next)
        /\ UNCHANGED <<world, setup, latch, capability, boot, checks, witness, clock, spent,
                       ailed, held, doubted, moved, joined>>

LoopDone(t) ==
    /\ chores[t].kind = "loop" /\ chores[t].at = "probe" /\ chores[t].left = <<>>
    /\ Quits(t)
    /\ UNCHANGED <<world, setup, latch, health, capability, boot, checks, witness, clock, spent,
                   ailed, held, doubted, moved, joined>>

-----------------------------------------------------------------------------
(* The services, the time, and the end of the process.                     *)

Change(d, condition) ==
    /\ spent.changes < MaxChanges
    /\ world' = [world EXCEPT ![d] = condition]
    /\ spent' = [spent EXCEPT !.changes = @ + 1]
    /\ ailed' = ailed \cup Ails(world')
    /\ held' = [held EXCEPT ![d] = IF condition.put = "enforces" THEN clock ELSE @]
    /\ UNCHANGED <<setup, latch, health, capability, boot, chores, checks, witness, clock,
                   doubted, moved, joined>>

Tick ==
    /\ clock < MaxClock
    /\ clock' = clock + 1
    /\ held' = [d \in Defs |-> IF d \in Enforcing(world) THEN clock + 1 ELSE held[d]]
    /\ UNCHANGED <<world, setup, latch, health, capability, boot, chores, checks, witness,
                   spent, ailed, doubted, moved, joined>>

\* A migration whose row is written survives; everything in memory does not.
Surviving(x) == IF x.kind = "migrate" /\ x.at # "gate" THEN x ELSE Idle

Restart ==
    /\ spent.starts < MaxStarts
    /\ spent' = [spent EXCEPT !.starts = @ + 1]
    /\ latch' = None
    /\ health' = NoCaches
    /\ capability' = NoCaches
    /\ boot' = Starting(setup)
    /\ chores' = [t \in Tasks |-> Surviving(chores[t])]
    /\ checks' = [checks EXCEPT ![Node] = None]
    /\ joined' = None
    /\ UNCHANGED <<world, setup, witness, clock, ailed, held, doubted, moved>>

-----------------------------------------------------------------------------
Booting == \/ \E n \in Names : BootCapability(n) \/ BootHealth(n)
           \/ BootCapable \/ BootHealthy \/ BootAlone \/ BootValidate

Validating == \/ \E v \in Peers, d \in Defs : PeerValidate(v, d)
              \/ \E v \in Nodes : ReadWitness(v) \/ ProbeBucket(v) \/ WriteWitness(v)

Applying(t) == \/ \E n \in Names : ApplyCapability(t, n)
               \/ ApplyHealth(t) \/ ApplyCommit(t)

Asking(t) == \/ \E new \in Docs : Apply(t, new)
             \/ \E n \in Backends, d \in Defs, f \in BOOLEAN : Create(t, n, d, f)
             \/ \E i \in 1..Cardinality(Names) : Test(t, i)
             \/ \E b \in Buckets, n \in Names : Migrate(t, b, n)

Working(t) == \/ ApplyAbandoned(t) \/ CreateProbe(t) \/ CreateCommit(t) \/ TestProbe(t)
              \/ MigrateGate(t) \/ MigrateStage(t) \/ MigrateFlip(t) \/ MigrateUnwind(t)

Looping(t) == LoopTick(t) \/ LoopLook(t) \/ LoopProbe(t) \/ LoopDone(t)

Surroundings == \/ \E d \in Defs, w \in Conditions : Change(d, w)
                \/ Tick \/ Restart

Next == \/ Booting \/ Validating
        \/ \E t \in Admins : Applying(t) \/ Asking(t) \/ Working(t)
        \/ \E n \in Backends : Delete(n)
        \/ \E t \in Loops : Looping(t)
        \/ Surroundings

Spec == Init /\ [][Next]_vars

-----------------------------------------------------------------------------
Targets == [name: Names, def: Defs, fallback: BOOLEAN]
Stages == [at: {"capability", "health", "lease", "sync", "up", "exit"}, left: SUBSET Names,
           dead: Nat]
Applies == [kind: {"apply"}, new: Config, at: {"capability", "health"}, vet: SUBSET Names,
            left: Seq(Targets), tries: Nat]
Creates == [kind: {"create"}, name: Backends, def: Defs, first: BOOLEAN, tries: Nat,
            at: {"probe", "commit"}]
Tests == [kind: {"test"}, target: Targets, tries: Nat]
Migrates == [kind: {"migrate"}, bucket: Buckets, target: Names, seen: Config,
             at: {"gate", "stage", "flip"}]
Rounds == [kind: {"loop"}, at: {"look", "probe"}, seen: SUBSET Names, left: Seq(Targets),
           tries: Nat]
Chores == {Idle} \cup Applies \cup Creates \cup Tests \cup Migrates \cup Rounds

\* The variables hold what the code's types say.
TypeOK ==
    /\ world \in [Defs -> Service] /\ setup \in Config /\ latch \in Tasks \cup {None}
    /\ health \in [Names -> Found \cup {None}]
    /\ capability \in [Names -> Told \cup {None}]
    /\ boot \in Stages
    /\ chores \in [Tasks -> Chores] /\ checks \in [Nodes -> Checks \cup {None}]
    /\ witness \in [Defs -> Nat \cup {None}] /\ clock \in Nat
    /\ spent \in [changes: Nat, calls: Nat, starts: Nat]
    /\ ailed \subseteq Defs /\ held \in [Defs -> Nat \cup {None}] /\ doubted \subseteq Defs
    /\ moved \subseteq Keys /\ joined \in Memberships \cup {None}

\* A request is answered 503 only for a backend that could have failed its probe: a verdict
\* about another definition, of a configuration refused, replaced or not yet committed, closes
\* no bucket (backend_health_gate_middleware).  A bucket without a route of its own is left out
\* where named backends hide the singleton the gate looks at.
HonestGate ==
    \A b \in Buckets :
        TurnedAway(b) /\ (setup.list = <<>> \/ setup.route[b] \in Backends)
            => EngineDef(setup, b) \in ailed

\* With several instances a serving node has client-writable buckets only on backends that
\* have enforced conditional writes, or of which a probe could not tell; a migration's own
\* routes are vetted by its gate alone, on an older configuration.
Proven(d) == held[d] # None \/ d \in doubted
WritesGuarded ==
    Up /\ setup.multi =>
        \A b \in Keys : ClientWritable(setup, b) /\ b \notin moved
                            => Proven(DefOf(setup, setup.route[b]))

\* A node that coordinates through S3 did so with a bucket that enforced conditional writes
\* less than WITNESS_MAX_AGE_SECS before, whoever wrote the witness and in whatever order.
CoordinationProven ==
    joined # None => /\ held[joined.def] # None
                     /\ joined.at - held[joined.def] < WitnessAge

GatesSound == HonestGate /\ WritesGuarded /\ CoordinationProven

\* A bucket refused although its backend is in order again is served after a while.
Reopening(b) ==
    TurnedAway(b) /\ Attempt(DefOf(setup, GateName(b)), HasFallback(setup, GateName(b))) = "healthy"
=============================================================================
