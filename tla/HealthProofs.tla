---------------------------- MODULE HealthProofs ----------------------------
(***************************************************************************)
(* Theorems about Health, for any backends, buckets, nodes, services and   *)
(* configurations: the gates are sound.                                    *)
(***************************************************************************)
EXTENDS Health, TLAPS

\* Whatever could fail a probe now is on record, and so is what a verdict closes.
HealthInv ==
    /\ Ails(world) \subseteq ailed
    /\ \A n \in Names : health[n] # None /\ is_gating(health[n].verdict) => health[n].def \in ailed

\* A service that enforces conditions is on record as doing so at this moment.
HeldInv ==
    \A d \in Defs : /\ d \in Enforcing(world) => held[d] = clock
                    /\ held[d] # None => held[d] <= clock

\* A cached "cas" was the truth about its definition once.
CapabilityInv ==
    \A n \in Names : capability[n] # None /\ capability[n].verdict = "cas"
                        => held[capability[n].def] # None

\* A booting process does nothing else, looks at names of its configuration, and has looked
\* at those it has crossed off; this node validates the coordination bucket in two stages.
Quiet(x) == x = Idle \/ (x \in Migrates /\ x.at # "gate")
BootInv ==
    /\ boot.at # "up" => \A t \in Tasks : Quiet(chores[t])
    /\ boot.at = "capability" =>
          /\ ~check_fatal(setup) /\ boot.left \subseteq ToVet(setup)
          /\ \A n \in ToVet(setup) \ boot.left : Proven(DefOf(setup, n))
    /\ boot.at = "health" => boot.left \subseteq Named(setup) \cup {Default}
    /\ checks[Node] # None => boot.at \in {"lease", "sync"}

\* Past the first gate of the boot: names are unique, routes lead to backends and, with several
\* instances, to proven ones, but for those a migration made.
Past == boot.at \in {"health", "lease", "sync", "up"}
Guarded(c, except) ==
    /\ \A b \in Keys \ except : c.route[b] \in Named(c) \cup {Default, None}
    /\ c.multi => \A b \in Keys \ except : ClientWritable(c, b) => Proven(DefOf(c, c.route[b]))
SetupInv == Past => ~Duplicated(setup) /\ Guarded(setup, moved)

\* A configuration being applied is runnable, and what is crossed off is proven; a migration's
\* copy of the configuration ran.
Vouched(x) ==
    /\ ~check_fatal(x.new) /\ x.vet \subseteq ToVet(x.new)
    /\ \A n \in ToVet(x.new) : Proven(DefOf(x.new, n)) \/ (x.at = "capability" /\ n \in x.vet)
Sound(x) == /\ x \in Applies => Vouched(x)
            /\ x \in Migrates => ~Duplicated(x.seen)
ChoreInv == \A t \in Tasks : Sound(chores[t])

\* A witness is no younger than the enforcement it testifies to; a validation about to write
\* one has seen enforcement since it began.
WitnessInv ==
    /\ \A d \in Defs : witness[d] # None => held[d] # None /\ witness[d] <= held[d]
    /\ \A v \in Nodes : checks[v] # None =>
          /\ checks[v].began <= clock
          /\ checks[v].at = "write" =>
                held[checks[v].def] # None /\ checks[v].began <= held[checks[v].def]

IInv == /\ TypeOK /\ HealthInv /\ HeldInv /\ CapabilityInv /\ BootInv /\ SetupInv /\ ChoreInv
        /\ WitnessInv /\ CoordinationProven

-----------------------------------------------------------------------------
(* What the definitions say of a configuration and of a probe.             *)

\* The backends of a configuration have names and definitions.
LEMMA Listings ==
  ASSUME NEW c \in Config
  PROVE  /\ DOMAIN c.list = 1..Len(c.list) /\ Len(c.list) \in Nat
         /\ \A i \in DOMAIN c.list :
               c.list[i] \in Listed /\ c.list[i].name \in Backends /\ c.list[i].def \in Defs
<1>1. c.list \in Seq(Listed)
  BY DEF Config
<1>2. \A i \in DOMAIN c.list : c.list[i] \in Listed
  BY <1>1
<1>3. QED
  BY <1>1, <1>2 DEF Listed

\* In a configuration without duplicates, a name leads to the definition beside it.
LEMMA Lookup ==
  ASSUME HealthConstants, NEW c \in Config, ~Duplicated(c), NEW i \in DOMAIN c.list
  PROVE  DefOf(c, c.list[i].name) = c.list[i].def
<1> DEFINE n == c.list[i].name
           First1(j) == /\ c.list[j].name = n
                        /\ \A k \in DOMAIN c.list : c.list[k].name = n => j <= k
           j == CHOOSE k \in DOMAIN c.list : First1(k)
<1>1. DOMAIN c.list = 1..Len(c.list) /\ c.list[i].name \in Backends
  BY Listings
<1>2. \A k \in DOMAIN c.list : c.list[k].name = n => k = i
  BY DEF Duplicated
<1>3. First1(i)
  BY <1>1, <1>2
<1>4. j \in DOMAIN c.list /\ First1(j)
  BY <1>3, Zenon
<1>5. j = i
  BY <1>2, <1>4
<1>6. n # Default
  BY <1>1 DEF HealthConstants
<1>7. QED
  BY <1>5, <1>6 DEF DefOf

\* Names and definitions of a configuration without duplicates have their types.
LEMMA Definitions ==
  ASSUME HealthConstants, NEW c \in Config, ~Duplicated(c)
  PROVE  /\ Named(c) \subseteq Backends
         /\ \A n \in Named(c) \cup {Default} : DefOf(c, n) \in Defs
<1>1. \A i \in DOMAIN c.list : c.list[i].name \in Backends /\ c.list[i].def \in Defs
  BY Listings
<1>2. ASSUME NEW n \in Named(c) PROVE n \in Backends /\ DefOf(c, n) \in Defs
  <2>1. PICK i \in DOMAIN c.list : n = c.list[i].name
    BY <1>2 DEF Named
  <2>2. DefOf(c, n) = c.list[i].def
    BY <2>1, Lookup
  <2>3. QED
    BY <1>1, <2>1, <2>2
<1>3. DefOf(c, Default) \in Defs
  BY DEF DefOf, Config
<1>4. QED
  BY <1>2, <1>3

\* The names the capability gates look at are names of backends.
LEMMA Vettable ==
  ASSUME NEW c \in Config PROVE ToVet(c) \subseteq Named(c)
  BY DEF ToVet, client_writable_s3_backends, ClientWritable

\* The probe targets of a configuration.
LEMMA TargetsTyped ==
  ASSUME HealthConstants, NEW c \in Config PROVE probe_targets(c) \in Seq(Targets)
<1>1. \A n \in Names, d \in Defs : Target(c, n, d) \in Targets
  BY DEF Target, Targets, HasFallback
<1>2. Target(c, Default, c.own) \in Targets
  BY <1>1 DEF Names, Config
<1>3. \A i \in DOMAIN c.list : c.list[i].name \in Names /\ c.list[i].def \in Defs
  BY Listings DEF Names
<1>4. [i \in DOMAIN c.list |-> Target(c, c.list[i].name, c.list[i].def)] \in Seq(Targets)
  <2>1. DOMAIN c.list = 1..Len(c.list) /\ Len(c.list) \in Nat
    BY Listings
  <2>2. QED
    BY <1>1, <1>3, <2>1
<1>5. <<Target(c, Default, c.own)>> \in Seq(Targets)
  BY <1>2
<1>6. QED
  BY <1>4, <1>5 DEF probe_targets

\* A probe answers with a verdict, and a gating one only for a service that can fail it.
LEMMA Probe ==
  ASSUME world \in [Defs -> Service], NEW d \in Defs, NEW f \in BOOLEAN
  PROVE  /\ Attempt(d, f) \in Verdicts
         /\ is_gating(Attempt(d, f)) => d \in Ails(world)
<1>1. world[d].list \in Answers /\ world[d].head \in Answers
  BY DEF Service
<1>2. probe_s3_once(world[d], f) \in Verdicts
  BY <1>1 DEF probe_s3_once, FallbackVerdict, classify_probe_signal, Verdicts, Answers
<1>3. QED
  BY <1>2 DEF Attempt, Ails, is_gating, Verdicts

\* A probe for conditional writes answers with a verdict.
LEMMA CasProbe ==
  ASSUME NEW put \in Puts PROVE CasVerdict(put) \in Capabilities
  BY DEF CasVerdict, Puts, Capabilities

-----------------------------------------------------------------------------
(* Types.                                                                  *)

\* A chore is what its kind says.
LEMMA Kinds ==
  ASSUME NEW x \in Chores
  PROVE  /\ x.kind = "apply" => x \in Applies
         /\ x.kind = "create" => x \in Creates
         /\ x.kind = "test" => x \in Tests
         /\ x.kind = "migrate" => x \in Migrates
         /\ x.kind = "loop" => x \in Rounds
         /\ x \in Applies => x.kind = "apply"
         /\ x \in Migrates => x.kind = "migrate"
  BY DEF Chores, Idle, Applies, Creates, Tests, Migrates, Rounds

\* A stage of the boot.
LEMMA StageTyped ==
  ASSUME NEW at \in {"capability", "health", "lease", "sync", "up", "exit"},
         NEW S \in SUBSET Names, Goto(at, S)
  PROVE  boot' \in Stages
  BY DEF Goto, Stages

\* The end of a validation of the coordination bucket.
LEMMA ValidationTyped ==
  ASSUME TypeOK, NEW v \in Nodes, checks[v] # None, Passes(v) \/ Fails(v)
  PROVE  /\ checks' \in [Nodes -> Checks \cup {None}] /\ boot' \in Stages
         /\ joined' \in Memberships \cup {None}
<1>1. checks[v] \in Checks
  BY DEF TypeOK
<1>2. checks[v].def \in Defs /\ checks[v].began \in Nat
  BY <1>1 DEF Checks
<1>3. checks' = [checks EXCEPT ![v] = None]
  BY DEF Passes, Fails
<1>4. checks' \in [Nodes -> Checks \cup {None}]
  BY <1>3 DEF TypeOK
<1>5. boot' = boot \/ (\E at \in {"up", "sync", "exit"} : Goto(at, {}))
  BY DEF Passes, Fails
<1>6. boot' \in Stages
  BY <1>5 DEF TypeOK, Goto, Stages
<1>7. joined' = joined \/ joined' = [def |-> checks[v].def, at |-> checks[v].began]
  BY DEF Passes, Fails
<1>8. joined' \in Memberships \cup {None}
  BY <1>2, <1>7 DEF TypeOK, Memberships
<1>9. QED
  BY <1>4, <1>6, <1>8

\* What the capability gates do to the cache.
LEMMA VetTyped ==
  ASSUME TypeOK, NEW n \in Names, NEW d \in Defs, Vet(n, d) \/ LookAt(n, d)
  PROVE  capability' \in [Names -> Told \cup {None}] /\ doubted' \in SUBSET Defs
<1>1. CasVerdict(world[d].put) \in Capabilities
  BY CasProbe DEF TypeOK, Service
<1>2. Entry(d, CasVerdict(world[d].put)) \in Told
  BY <1>1 DEF Entry, Told
<1>3. CASE Vet(n, d)
  BY <1>2, <1>3 DEF Vet, TypeOK
<1>4. CASE UNCHANGED <<capability, doubted>>
  BY <1>4 DEF TypeOK
<1>5. QED
  BY <1>3, <1>4 DEF LookAt

\* The boot keeps the types.
LEMMA BootingTypes ==
  ASSUME HealthConstants, IInv, Booting PROVE TypeOK'
<1> USE DEF IInv
<1>1. ASSUME NEW n \in Names, BootCapability(n) PROVE TypeOK'
  <2>1. n \in Named(setup) /\ DefOf(setup, n) \in Defs
    BY <1>1, Vettable, Definitions DEF BootCapability, BootInv, TypeOK, check_fatal
  <2>2. capability' \in [Names -> Told \cup {None}] /\ doubted' \in SUBSET Defs
    BY <1>1, <2>1, VetTyped DEF BootCapability
  <2>3. boot' \in Stages
    BY <1>1 DEF BootCapability, TypeOK, Goto, Stages
  <2>4. QED
    BY <1>1, <2>2, <2>3 DEF BootCapability, TypeOK
<1>2. ASSUME NEW n \in Names, BootHealth(n) PROVE TypeOK'
  <2> DEFINE d == DefOf(setup, n)
             f == HasFallback(setup, n)
  <2>1. d \in Defs
    BY <1>2, Definitions DEF BootHealth, BootInv, SetupInv, Past, TypeOK
  <2>2. Attempt(d, f) \in Verdicts
    BY <2>1, Probe DEF TypeOK, HasFallback
  <2>3. Entry(d, Attempt(d, f)) \in Found
    BY <2>1, <2>2 DEF Entry, Found
  <2>4. health' \in [Names -> Found \cup {None}]
    BY <1>2, <2>3 DEF BootHealth, TypeOK
  <2>5. boot' \in Stages
    <3>1. PICK k \in {0, 1} : boot' = [boot EXCEPT !.left = @ \ {n}, !.dead = @ + k]
      <4>1. boot.dead + 0 = boot.dead
        BY DEF TypeOK, Stages
      <4>2. QED
        BY <1>2, <4>1 DEF BootHealth
    <3>2. boot \in Stages /\ boot.left \ {n} \in SUBSET Names /\ boot.dead + k \in Nat
      BY DEF TypeOK, Stages
    <3>3. QED
      BY <3>1, <3>2 DEF Stages
  <2>6. QED
    BY <1>2, <2>4, <2>5 DEF BootHealth, TypeOK
<1>3. ASSUME BootCapable PROVE TypeOK'
  <2>1. Named(setup) \cup {Default} \in SUBSET Names
    <3>1. \A i \in DOMAIN setup.list : setup.list[i].name \in Backends
      BY Listings DEF TypeOK
    <3>2. QED
      BY <3>1 DEF Named, Names
  <2>2. boot' \in Stages
    BY <1>3, <2>1, StageTyped DEF BootCapable
  <2>3. QED
    BY <1>3, <2>2 DEF BootCapable, TypeOK
<1>4. ASSUME BootHealthy PROVE TypeOK'
  BY <1>4, StageTyped DEF BootHealthy, TypeOK
<1>5. ASSUME BootAlone PROVE TypeOK'
  BY <1>5, StageTyped DEF BootAlone, TypeOK
<1>6. ASSUME BootValidate PROVE TypeOK'
  <2>1. setup.own \in Defs
    BY DEF TypeOK, Config
  <2>2. checks' \in [Nodes -> Checks \cup {None}]
    BY <1>6, <2>1 DEF BootValidate, Begin, TypeOK, Checks
  <2>3. QED
    BY <1>6, <2>2 DEF BootValidate, TypeOK
<1>7. QED
  BY <1>1, <1>2, <1>3, <1>4, <1>5, <1>6 DEF Booting

\* Validations of the coordination bucket keep the types.
LEMMA ValidatingTypes ==
  ASSUME HealthConstants, IInv, Validating PROVE TypeOK'
<1> USE DEF IInv
<1>1. ASSUME NEW v \in Peers, NEW d \in Defs, PeerValidate(v, d) PROVE TypeOK'
  <2>1. checks' \in [Nodes -> Checks \cup {None}]
    BY <1>1 DEF PeerValidate, Begin, TypeOK, Checks
  <2>2. QED
    BY <1>1, <2>1 DEF PeerValidate, TypeOK
<1>2. ASSUME NEW v \in Nodes, ReadWitness(v) PROVE TypeOK'
  <2>1. CASE Passes(v)
    BY <1>2, <2>1, ValidationTyped DEF ReadWitness, TypeOK
  <2>2. CASE ~Passes(v)
    <3>1. checks[v] \in Checks
      BY <1>2 DEF ReadWitness, TypeOK
    <3>2. PICK f \in BOOLEAN : checks' = [checks EXCEPT ![v].at = "probe", ![v].refresh = f]
      BY <1>2, <2>2 DEF ReadWitness
    <3>3. [checks[v] EXCEPT !.at = "probe", !.refresh = f] \in Checks
      BY <3>1 DEF Checks
    <3>4. checks' = [checks EXCEPT ![v] = [checks[v] EXCEPT !.at = "probe", !.refresh = f]]
      BY <3>2 DEF TypeOK
    <3>5. checks' \in [Nodes -> Checks \cup {None}]
      BY <3>3, <3>4 DEF TypeOK
    <3>6. QED
      BY <1>2, <2>2, <3>5 DEF ReadWitness, TypeOK
  <2>3. QED
    BY <2>1, <2>2
<1>3. ASSUME NEW v \in Nodes, ProbeBucket(v) PROVE TypeOK'
  <2>1. CASE Fails(v)
    BY <1>3, <2>1, ValidationTyped DEF ProbeBucket, TypeOK
  <2>2. CASE ~Fails(v)
    <3>1. checks[v] \in Checks
      BY <1>3 DEF ProbeBucket, TypeOK
    <3>2. checks' = [checks EXCEPT ![v].at = "write"]
      BY <1>3, <2>2 DEF ProbeBucket
    <3>3. checks' \in [Nodes -> Checks \cup {None}]
      BY <3>1, <3>2 DEF TypeOK, Checks
    <3>4. QED
      BY <1>3, <2>2, <3>3 DEF ProbeBucket, TypeOK
  <2>3. QED
    BY <2>1, <2>2
<1>4. ASSUME NEW v \in Nodes, WriteWitness(v) PROVE TypeOK'
  <2>1. checks[v] \in Checks
    BY <1>4 DEF WriteWitness, TypeOK
  <2>2. witness' \in [Defs -> Nat \cup {None}]
    BY <1>4, <2>1 DEF WriteWitness, TypeOK, Checks
  <2>3. QED
    BY <1>4, <2>2, ValidationTyped DEF WriteWitness, TypeOK
<1>5. QED
  BY <1>1, <1>2, <1>3, <1>4 DEF Validating

\* A task goes on with a chore.
LEMMA ChoreTyped ==
  ASSUME TypeOK, NEW t \in Tasks, NEW y \in Chores, Becomes(t, y)
  PROVE  chores' \in [Tasks -> Chores]
  BY DEF TypeOK, Becomes

\* A task is done.
LEMMA QuitTyped ==
  ASSUME TypeOK, NEW t \in Tasks, Quits(t) PROVE chores' \in [Tasks -> Chores]
  BY DEF TypeOK, Quits, Becomes, Chores

\* A call is counted.
LEMMA CallTyped ==
  ASSUME TypeOK, Call PROVE spent' \in [changes: Nat, calls: Nat, starts: Nat]
  BY DEF TypeOK, Call

\* The gates that follow each other without a pause.
LEMMA OnwardTyped ==
  ASSUME NEW x \in Applies PROVE Onward(x) \in Applies
  BY DEF Onward, Applies

\* The first of the probe targets left, and the others.
LEMMA HeadTyped ==
  ASSUME NEW s \in Seq(Targets), s # <<>>
  PROVE  /\ Head(s).name \in Names /\ Head(s).def \in Defs /\ Head(s).fallback \in BOOLEAN
         /\ Tail(s) \in Seq(Targets)
<1>1. Head(s) \in Targets
  OBVIOUS
<1>2. QED
  BY <1>1 DEF Targets

\* A verdict of the connection probe in the cache.
LEMMA FoundTyped ==
  ASSUME TypeOK, NEW n \in Names, NEW d \in Defs, NEW f \in BOOLEAN,
         health' = [health EXCEPT ![n] = Entry(d, Attempt(d, f))]
  PROVE  health' \in [Names -> Found \cup {None}]
<1>1. Attempt(d, f) \in Verdicts
  BY Probe DEF TypeOK
<1>2. Entry(d, Attempt(d, f)) \in Found
  BY <1>1 DEF Entry, Found
<1>3. QED
  BY <1>2 DEF TypeOK

\* Applying a configuration keeps the types.
LEMMA ApplyingTypes ==
  ASSUME HealthConstants, IInv, NEW t \in Admins, Applying(t) PROVE TypeOK'
<1> USE DEF IInv
<1>0. t \in Tasks /\ chores[t] \in Chores /\ chores[t].kind = "apply" /\ chores[t] \in Applies
  <2>1. t \in Tasks /\ chores[t] \in Chores
    BY DEF TypeOK, Tasks
  <2>2. chores[t].kind = "apply"
    BY DEF Applying, ApplyCapability, ApplyHealth, ApplyCommit
  <2>3. QED
    BY <2>1, <2>2, Kinds
<1>1. ASSUME NEW n \in Names, ApplyCapability(t, n) PROVE TypeOK'
  <2> DEFINE x == chores[t]
  <2>1. n \in Named(x.new) /\ ~Duplicated(x.new) /\ x.new \in Config
    <3>1. x.new \in Config
      BY <1>0 DEF Applies
    <3>2. ~check_fatal(x.new) /\ x.vet \subseteq ToVet(x.new)
      <4>1. Vouched(x)
        BY <1>0 DEF ChoreInv, Sound
      <4>2. QED
        BY <4>1 DEF Vouched
    <3>3. n \in x.vet
      BY <1>1 DEF ApplyCapability
    <3>4. QED
      BY <3>1, <3>2, <3>3, Vettable DEF check_fatal
  <2>2. DefOf(x.new, n) \in Defs
    BY <2>1, Definitions
  <2>3. capability' \in [Names -> Told \cup {None}] /\ doubted' \in SUBSET Defs
    BY <1>1, <2>2, VetTyped DEF ApplyCapability
  <2>4. [x EXCEPT !.vet = @ \ {n}] \in Applies
    BY <1>0 DEF Applies
  <2>5. Onward([x EXCEPT !.vet = @ \ {n}]) \in Chores
    BY <2>4, OnwardTyped DEF Chores
  <2>6. chores' \in [Tasks -> Chores]
    BY <1>0, <1>1, <2>5, ChoreTyped, QuitTyped DEF ApplyCapability, Refuses
  <2>7. latch' \in Tasks \cup {None}
    BY <1>1 DEF ApplyCapability, Refuses, TypeOK
  <2>8. QED
    BY <1>1, <2>3, <2>6, <2>7 DEF ApplyCapability, TypeOK
<1>2. ASSUME ApplyHealth(t) PROVE TypeOK'
  <2> DEFINE x == chores[t]
             g == Head(x.left)
             verdict == Attempt(g.def, g.fallback)
             next == [x EXCEPT !.left = Tail(@), !.tries = 1]
  <2>1. x.left \in Seq(Targets) /\ x.left # <<>> /\ x.tries \in Nat
    BY <1>0, <1>2 DEF ApplyHealth, Applies
  <2>2. /\ g.name \in Names /\ g.def \in Defs /\ g.fallback \in BOOLEAN
        /\ Tail(x.left) \in Seq(Targets)
    BY <2>1, HeadTyped
  <2>3. next \in Chores /\ [x EXCEPT !.tries = @ + 1] \in Chores
    <3>1. next \in Applies
      BY <1>0, <2>1, <2>2 DEF Applies
    <3>2. [x EXCEPT !.tries = @ + 1] \in Applies
      BY <1>0, <2>1 DEF Applies
    <3>3. QED
      BY <3>1, <3>2 DEF Chores
  <2>4. /\ health' = health \/ health' = [health EXCEPT ![g.name] = Entry(g.def, verdict)]
        /\ Becomes(t, next) \/ Becomes(t, [x EXCEPT !.tries = @ + 1]) \/ Quits(t)
        /\ latch' \in {latch, None}
    BY <1>2 DEF ApplyHealth, Refuses
  <2>5. health' \in [Names -> Found \cup {None}]
    BY <2>2, <2>4, FoundTyped DEF TypeOK
  <2>6. chores' \in [Tasks -> Chores]
    BY <1>0, <2>3, <2>4, ChoreTyped, QuitTyped
  <2>7. QED
    BY <1>2, <2>4, <2>5, <2>6 DEF ApplyHealth, TypeOK
<1>3. ASSUME ApplyCommit(t) PROVE TypeOK'
  <2>1. chores[t].new \in Config
    BY <1>0 DEF Applies
  <2>2. chores' \in [Tasks -> Chores]
    BY <1>0, <1>3, QuitTyped DEF ApplyCommit, Refuses
  <2>3. QED
    BY <1>3, <2>1, <2>2 DEF ApplyCommit, Refuses, TypeOK
<1>4. QED
  BY <1>1, <1>2, <1>3 DEF Applying

\* Requests at the administrators' doors keep the types.
LEMMA AskingTypes ==
  ASSUME HealthConstants, IInv, NEW t \in Admins, Asking(t) PROVE TypeOK'
<1> USE DEF IInv
<1>0. t \in Tasks
  BY DEF Tasks
<1>1. ASSUME NEW new \in Docs, Apply(t, new) PROVE TypeOK'
  <2> DEFINE y == [kind |-> "apply", new |-> new, at |-> "capability", vet |-> ToVet(new),
                   tries |-> 1,
                   left |-> IF BootMode = "off" THEN <<>> ELSE probe_targets(new)]
  <2>1. new \in Config
    BY DEF HealthConstants
  <2>2. ToVet(new) \in SUBSET Names
    <3>1. \A i \in DOMAIN new.list : new.list[i].name \in Backends
      BY <2>1, Listings
    <3>2. QED
      BY <2>1, <3>1, Vettable DEF Named, Names
  <2>3. probe_targets(new) \in Seq(Targets) /\ <<>> \in Seq(Targets)
    BY <2>1, TargetsTyped
  <2>4. y \in Applies
    BY <2>1, <2>2, <2>3 DEF Applies
  <2>5. Onward(y) \in Chores
    BY <2>4, OnwardTyped DEF Chores
  <2>6. chores' \in [Tasks -> Chores]
    BY <1>0, <1>1, <2>5, ChoreTyped DEF Apply
  <2>7. QED
    BY <1>0, <1>1, <2>6, CallTyped DEF Apply, TypeOK
<1>2. ASSUME NEW n \in Backends, NEW d \in Defs, NEW f \in BOOLEAN, Create(t, n, d, f)
      PROVE  TypeOK'
  <2>1. [kind |-> "create", name |-> n, def |-> d, first |-> f, tries |-> 1,
         at |-> IF BootMode = "off" THEN "commit" ELSE "probe"] \in Chores
    BY DEF Chores, Creates
  <2>2. chores' \in [Tasks -> Chores]
    BY <1>0, <1>2, <2>1, ChoreTyped DEF Create
  <2>3. QED
    BY <1>2, <2>2, CallTyped DEF Create, TypeOK
<1>3. ASSUME NEW i \in 1..Cardinality(Names), Test(t, i) PROVE TypeOK'
  <2>1. probe_targets(setup)[i] \in Targets
    <3>1. probe_targets(setup) \in Seq(Targets)
      BY TargetsTyped DEF TypeOK
    <3>2. QED
      BY <1>3, <3>1 DEF Test
  <2>2. [kind |-> "test", target |-> probe_targets(setup)[i], tries |-> 1] \in Chores
    BY <2>1 DEF Chores, Tests
  <2>3. chores' \in [Tasks -> Chores]
    BY <1>0, <1>3, <2>2, ChoreTyped DEF Test
  <2>4. QED
    BY <1>3, <2>3, CallTyped DEF Test, TypeOK
<1>4. ASSUME NEW b \in Buckets, NEW n \in Names, Migrate(t, b, n) PROVE TypeOK'
  <2>1. [kind |-> "migrate", bucket |-> b, target |-> n, seen |-> setup, at |-> "gate"]
          \in Chores
    BY DEF Chores, Migrates, TypeOK
  <2>2. chores' \in [Tasks -> Chores]
    BY <1>0, <1>4, <2>1, ChoreTyped DEF Migrate
  <2>3. QED
    BY <1>4, <2>2, CallTyped DEF Migrate, TypeOK
<1>5. QED
  BY <1>1, <1>2, <1>3, <1>4 DEF Asking

\* A configuration with a backend more, with one less, and with changed routes.
LEMMA SetupTyped ==
  ASSUME HealthConstants, TypeOK
  PROVE  /\ \A x \in Creates : WithBackend(x) \in Config
         /\ \A n \in Named(setup) : WithoutBackend(n) \in Config
         /\ \A n \in Names : Staged(n) \in Config
         /\ \A b \in Buckets, n \in Names : Flipped(b, n) \in Config
         /\ Unstaged \in Config
<1>0. /\ setup \in Config /\ setup.list \in Seq(Listed) /\ setup.pick \in Backends \cup {None}
      /\ setup.route \in [Keys -> Names \cup {None}] /\ setup.only \in SUBSET Keys
  BY DEF TypeOK, Config
<1>1. ASSUME NEW x \in Creates PROVE WithBackend(x) \in Config
  <2>1. x.name \in Backends /\ x.def \in Defs
    BY DEF Creates
  <2>2. Append(setup.list, [name |-> x.name, def |-> x.def]) \in Seq(Listed)
    BY <1>0, <2>1 DEF Listed
  <2>3. QED
    BY <1>0, <2>1, <2>2 DEF WithBackend, Config
<1>2. ASSUME NEW n \in Named(setup) PROVE WithoutBackend(n) \in Config
  <2> DEFINE l == setup.list
             place == CHOOSE i \in DOMAIN l : l[i].name = n
             m == [i \in 1..(Len(l) - 1) |-> l[IF i < place THEN i ELSE i + 1]]
  <2>1. DOMAIN l = 1..Len(l) /\ Len(l) \in Nat /\ \A i \in DOMAIN l : l[i] \in Listed
    BY <1>0, Listings
  <2>2. place \in DOMAIN l
    BY <1>2 DEF Named
  <2>3. Len(l) - 1 \in Nat
    BY <2>1, <2>2
  <2>4. \A i \in 1..(Len(l) - 1) : (IF i < place THEN i ELSE i + 1) \in DOMAIN l
    BY <2>1, <2>2, <2>3
  <2>5. m \in [1..(Len(l) - 1) -> Listed]
    BY <2>1, <2>4
  <2>6. m \in Seq(Listed)
    <3>1. PICK k \in Nat : k = Len(l) - 1
      BY <2>3
    <3>2. m \in [1..k -> Listed]
      BY <2>5, <3>1
    <3> HIDE DEF m
    <3>3. QED
      BY <3>2
  <2>7. WithoutBackend(n) = [setup EXCEPT !.list = m]
    BY DEF WithoutBackend
  <2>8. QED
    BY <1>0, <2>6, <2>7 DEF Config
<1>3. ASSUME NEW n \in Names PROVE Staged(n) \in Config
  BY <1>0 DEF Staged, Config, Keys
<1>4. ASSUME NEW b \in Buckets, NEW n \in Names PROVE Flipped(b, n) \in Config
  BY <1>0 DEF Flipped, Config, Keys
<1>5. Unstaged \in Config
  BY <1>0 DEF Unstaged, Config, Keys
<1>6. QED
  BY <1>1, <1>2, <1>3, <1>4, <1>5

\* The administrators' requests under way keep the types.
LEMMA WorkingTypes ==
  ASSUME HealthConstants, IInv, NEW t \in Admins, Working(t) PROVE TypeOK'
<1> USE DEF IInv
<1> DEFINE x == chores[t]
<1>0. t \in Tasks /\ x \in Chores
  BY DEF TypeOK, Tasks
<1>1. ASSUME ApplyAbandoned(t) PROVE TypeOK'
  BY <1>0, <1>1, QuitTyped DEF ApplyAbandoned, Refuses, TypeOK
<1>2. ASSUME CreateProbe(t) PROVE TypeOK'
  <2>1. x \in Creates
    BY <1>0, <1>2, Kinds DEF CreateProbe
  <2>2. x.name \in Names /\ x.def \in Defs /\ FALSE \in BOOLEAN
    BY <2>1 DEF Creates, Names
  <2>3. [x EXCEPT !.tries = @ + 1] \in Chores
    BY <2>1 DEF Creates, Chores
  <2>4. [x EXCEPT !.at = "commit"] \in Chores
    BY <2>1 DEF Creates, Chores
  <2>5. /\ \/ health' = health
           \/ health' = [health EXCEPT ![x.name] = Entry(x.def, Attempt(x.def, FALSE))]
        /\ \/ Becomes(t, [x EXCEPT !.tries = @ + 1]) \/ Quits(t)
           \/ Becomes(t, [x EXCEPT !.at = "commit"])
    BY <1>2 DEF CreateProbe
  <2>6. health' \in [Names -> Found \cup {None}]
    BY <2>2, <2>5, FoundTyped DEF TypeOK
  <2>7. chores' \in [Tasks -> Chores]
    BY <1>0, <2>3, <2>4, <2>5, ChoreTyped, QuitTyped
  <2>8. QED
    BY <1>2, <2>6, <2>7 DEF CreateProbe, TypeOK
<1>3. ASSUME CreateCommit(t) PROVE TypeOK'
  <2>1. x \in Creates
    BY <1>0, <1>3, Kinds DEF CreateCommit
  <2>2. setup' \in Config
    BY <1>3, <2>1, SetupTyped DEF CreateCommit, TypeOK
  <2>3. chores' \in [Tasks -> Chores]
    BY <1>0, <1>3, QuitTyped DEF CreateCommit
  <2>4. QED
    BY <1>3, <2>2, <2>3 DEF CreateCommit, TypeOK
<1>4. ASSUME TestProbe(t) PROVE TypeOK'
  <2> DEFINE g == x.target
  <2>1. x \in Tests
    BY <1>0, <1>4, Kinds DEF TestProbe
  <2>2. g.name \in Names /\ g.def \in Defs /\ g.fallback \in BOOLEAN
    BY <2>1 DEF Tests, Targets
  <2>3. [x EXCEPT !.tries = @ + 1] \in Chores
    BY <2>1 DEF Tests, Chores
  <2>4. /\ \/ health' = health
           \/ health' = [health EXCEPT ![g.name] = Entry(g.def, Attempt(g.def, g.fallback))]
        /\ Becomes(t, [x EXCEPT !.tries = @ + 1]) \/ Quits(t)
    BY <1>4 DEF TestProbe
  <2>5. health' \in [Names -> Found \cup {None}]
    BY <2>2, <2>4, FoundTyped DEF TypeOK
  <2>6. chores' \in [Tasks -> Chores]
    BY <1>0, <2>3, <2>4, ChoreTyped, QuitTyped
  <2>7. QED
    BY <1>4, <2>5, <2>6 DEF TestProbe, TypeOK
<1>5. ASSUME MigrateGate(t) PROVE TypeOK'
  <2>1. x \in Migrates
    BY <1>0, <1>5, Kinds DEF MigrateGate
  <2>2. x.seen \in Config /\ ~Duplicated(x.seen) /\ x.target \in Names
    <3>1. ~Duplicated(x.seen)
      BY <1>0, <2>1 DEF ChoreInv, Sound
    <3>2. QED
      BY <2>1, <3>1 DEF Migrates
  <2>3. capability' \in [Names -> Told \cup {None}] /\ doubted' \in SUBSET Defs
    <3>1. CASE Exempt(x)
      BY <1>5, <3>1 DEF MigrateGate, TypeOK
    <3>2. CASE ~Exempt(x)
      <4>1. DefOf(x.seen, x.target) \in Defs
        BY <2>2, <3>2, Definitions DEF Exempt
      <4>2. QED
        BY <1>5, <2>2, <3>2, <4>1, VetTyped DEF MigrateGate
    <3>3. QED
      BY <3>1, <3>2
  <2>4. [x EXCEPT !.at = "stage"] \in Chores
    BY <2>1 DEF Migrates, Chores
  <2>5. chores' \in [Tasks -> Chores]
    BY <1>0, <1>5, <2>4, ChoreTyped, QuitTyped DEF MigrateGate
  <2>6. QED
    BY <1>5, <2>3, <2>5 DEF MigrateGate, TypeOK
<1>6. ASSUME MigrateStage(t) PROVE TypeOK'
  <2>1. x \in Migrates
    BY <1>0, <1>6, Kinds DEF MigrateStage
  <2>2. x.target \in Names /\ [x EXCEPT !.at = "flip"] \in Chores
    BY <2>1 DEF Migrates, Chores
  <2>3. setup' \in Config
    BY <1>6, <2>2, SetupTyped DEF MigrateStage
  <2>4. chores' \in [Tasks -> Chores]
    BY <1>0, <1>6, <2>2, ChoreTyped DEF MigrateStage
  <2>5. QED
    BY <1>6, <2>3, <2>4 DEF MigrateStage, TypeOK, Keys
<1>7. ASSUME MigrateFlip(t) PROVE TypeOK'
  <2>1. x \in Migrates
    BY <1>0, <1>7, Kinds DEF MigrateFlip
  <2>2. x.target \in Names /\ x.bucket \in Buckets
    BY <2>1 DEF Migrates
  <2>3. setup' \in Config
    BY <1>7, <2>2, SetupTyped DEF MigrateFlip
  <2>4. chores' \in [Tasks -> Chores]
    BY <1>0, <1>7, QuitTyped DEF MigrateFlip
  <2>5. QED
    BY <1>7, <2>2, <2>3, <2>4 DEF MigrateFlip, TypeOK, Keys
<1>8. ASSUME MigrateUnwind(t) PROVE TypeOK'
  BY <1>0, <1>8, SetupTyped, QuitTyped DEF MigrateUnwind, TypeOK
<1>9. QED
  BY <1>1, <1>2, <1>3, <1>4, <1>5, <1>6, <1>7, <1>8 DEF Working

\* The re-probe loop keeps the types.
LEMMA LoopingTypes ==
  ASSUME HealthConstants, IInv, NEW t \in Loops, Looping(t) PROVE TypeOK'
<1> USE DEF IInv
<1> DEFINE x == chores[t]
<1>0. t \in Tasks /\ x \in Chores
  BY DEF TypeOK, Tasks
<1>1. ASSUME LoopTick(t) PROVE TypeOK'
  <2>1. [kind |-> "loop", at |-> "look", seen |-> unhealthy_names, left |-> <<>>, tries |-> 1]
          \in Rounds
    BY DEF Rounds, unhealthy_names
  <2>2. chores' \in [Tasks -> Chores]
    BY <1>0, <1>1, <2>1, ChoreTyped DEF LoopTick, Chores
  <2>3. QED
    BY <1>1, <2>2 DEF LoopTick, TypeOK
<1>2. ASSUME LoopLook(t) PROVE TypeOK'
  <2>1. x \in Rounds
    BY <1>0, <1>2, Kinds DEF LoopLook
  <2>2. probe_targets(setup) \in Seq(Targets)
    BY TargetsTyped DEF TypeOK
  <2>3. [x EXCEPT !.at = "probe", !.left = probe_targets(setup)] \in Rounds
    BY <2>1, <2>2 DEF Rounds
  <2>4. chores' \in [Tasks -> Chores]
    BY <1>0, <1>2, <2>3, ChoreTyped DEF LoopLook, Chores
  <2>5. health' \in [Names -> Found \cup {None}]
    BY <1>2 DEF LoopLook, TypeOK
  <2>6. QED
    BY <1>2, <2>4, <2>5 DEF LoopLook, TypeOK
<1>3. ASSUME LoopProbe(t) PROVE TypeOK'
  <2> DEFINE g == Head(x.left)
             next == [x EXCEPT !.left = Tail(@), !.tries = 1]
  <2>1. x \in Rounds
    BY <1>0, <1>3, Kinds DEF LoopProbe
  <2>2. x.left \in Seq(Targets) /\ x.left # <<>> /\ x.tries \in Nat
    BY <1>3, <2>1 DEF LoopProbe, Rounds
  <2>3. /\ g.name \in Names /\ g.def \in Defs /\ g.fallback \in BOOLEAN
        /\ Tail(x.left) \in Seq(Targets)
    BY <2>2, HeadTyped
  <2>4. next \in Rounds
    BY <2>1, <2>3 DEF Rounds
  <2>5. [x EXCEPT !.tries = @ + 1] \in Rounds
    BY <2>1, <2>2 DEF Rounds
  <2>6. /\ \/ health' = health
           \/ health' = [health EXCEPT ![g.name] = Entry(g.def, Attempt(g.def, g.fallback))]
        /\ Becomes(t, [x EXCEPT !.tries = @ + 1]) \/ Becomes(t, next)
    BY <1>3 DEF LoopProbe
  <2>7. health' \in [Names -> Found \cup {None}]
    BY <2>3, <2>6, FoundTyped DEF TypeOK
  <2>8. chores' \in [Tasks -> Chores]
    BY <1>0, <2>4, <2>5, <2>6, ChoreTyped DEF Chores
  <2>9. QED
    BY <1>3, <2>7, <2>8 DEF LoopProbe, TypeOK
<1>4. ASSUME LoopDone(t) PROVE TypeOK'
  BY <1>0, <1>4, QuitTyped DEF LoopDone, TypeOK
<1>5. QED
  BY <1>1, <1>2, <1>3, <1>4 DEF Looping

\* Every step keeps the types.
LEMMA NextTypes ==
  ASSUME HealthConstants, IInv, [Next]_vars PROVE TypeOK'
<1> USE DEF IInv
<1>1. CASE UNCHANGED vars
  BY <1>1 DEF vars, TypeOK
<1>2. ASSUME NEW n \in Backends, Delete(n) PROVE TypeOK'
  BY <1>2, SetupTyped, CallTyped DEF Delete, TypeOK
<1>3. ASSUME NEW d \in Defs, NEW w \in Conditions, Change(d, w) PROVE TypeOK'
  <2>1. world' \in [Defs -> Service]
    BY <1>3 DEF Change, TypeOK, HealthConstants
  <2>2. spent' \in [changes: Nat, calls: Nat, starts: Nat]
    BY <1>3 DEF Change, TypeOK
  <2>3. ailed' \subseteq Defs
    BY <1>3 DEF Change, TypeOK, Ails
  <2>4. held' \in [Defs -> Nat \cup {None}]
    BY <1>3 DEF Change, TypeOK
  <2>5. QED
    BY <1>3, <2>1, <2>2, <2>3, <2>4 DEF Change, TypeOK
<1>4. ASSUME Tick PROVE TypeOK'
  <2>1. held' \in [Defs -> Nat \cup {None}] /\ clock' \in Nat
    BY <1>4 DEF Tick, TypeOK
  <2>2. QED
    BY <1>4, <2>1 DEF Tick, TypeOK
<1>5. ASSUME Restart PROVE TypeOK'
  <2>1. health' \in [Names -> Found \cup {None}] /\ capability' \in [Names -> Told \cup {None}]
    BY <1>5 DEF Restart, NoCaches
  <2>2. boot' \in Stages
    <3>1. \A i \in DOMAIN setup.list : setup.list[i].name \in Backends
      BY Listings DEF TypeOK
    <3>2. ToVet(setup) \in SUBSET Names
      BY <3>1, Vettable DEF Named, Names, TypeOK
    <3>3. QED
      BY <1>5, <3>2 DEF Restart, Starting, Stages
  <2>3. chores' \in [Tasks -> Chores]
    BY <1>5 DEF Restart, Surviving, TypeOK, Chores
  <2>4. checks' \in [Nodes -> Checks \cup {None}]
    BY <1>5 DEF Restart, TypeOK
  <2>5. spent' \in [changes: Nat, calls: Nat, starts: Nat]
    BY <1>5 DEF Restart, TypeOK
  <2>6. QED
    BY <1>5, <2>1, <2>2, <2>3, <2>4, <2>5 DEF Restart, TypeOK
<1>6. QED
  BY <1>1, <1>2, <1>3, <1>4, <1>5, BootingTypes, ValidatingTypes, ApplyingTypes, AskingTypes,
     WorkingTypes, LoopingTypes DEF Next, Surroundings

-----------------------------------------------------------------------------
(* The rest of the invariant, one conjunct after the other.                *)

\* What each group of actions leaves alone.
LEMMA Frames ==
  /\ Booting => UNCHANGED <<world, setup, chores, witness, clock, ailed, held>>
  /\ Validating => UNCHANGED <<world, setup, health, capability, chores, clock, ailed, held,
                               doubted, moved>>
  /\ \A t \in Admins : Applying(t) => UNCHANGED <<world, boot, checks, witness, clock, ailed,
                                                 held, joined>>
  /\ \A t \in Admins : Asking(t) => UNCHANGED <<world, setup, health, capability, boot, checks,
                                               witness, clock, ailed, held, doubted, moved,
                                               joined>>
  /\ \A t \in Admins : Working(t) => UNCHANGED <<world, boot, checks, witness, clock, ailed,
                                                held, joined>>
  /\ \A n \in Backends : Delete(n) => UNCHANGED <<world, health, capability, boot, chores, checks,
                                                 witness, clock, ailed, held, doubted, moved,
                                                 joined>>
  /\ \A t \in Loops : Looping(t) => UNCHANGED <<world, setup, capability, boot, checks, witness,
                                               clock, ailed, held, doubted, moved, joined>>
<1>1. Booting => UNCHANGED <<world, setup, chores, witness, clock, ailed, held>>
  BY DEF Booting, BootCapability, BootHealth, BootCapable, BootHealthy, BootAlone, BootValidate
<1>2. Validating => UNCHANGED <<world, setup, health, capability, chores, clock, ailed, held,
                                doubted, moved>>
  BY DEF Validating, PeerValidate, ReadWitness, ProbeBucket, WriteWitness
<1>3. \A t \in Admins : Applying(t) => UNCHANGED <<world, boot, checks, witness, clock, ailed,
                                                  held, joined>>
  BY DEF Applying, ApplyCapability, ApplyHealth, ApplyCommit
<1>4. \A t \in Admins : Asking(t) => UNCHANGED <<world, setup, health, capability, boot, checks,
                                                witness, clock, ailed, held, doubted, moved,
                                                joined>>
  BY DEF Asking, Apply, Create, Test, Migrate
<1>5. \A t \in Admins : Working(t) => UNCHANGED <<world, boot, checks, witness, clock, ailed,
                                                 held, joined>>
  BY DEF Working, ApplyAbandoned, CreateProbe, CreateCommit, TestProbe, MigrateGate,
         MigrateStage, MigrateFlip, MigrateUnwind
<1>6. \A n \in Backends : Delete(n) => UNCHANGED <<world, health, capability, boot, chores,
                                                  checks, witness, clock, ailed, held, doubted,
                                                  moved, joined>>
  BY DEF Delete
<1>7. \A t \in Loops : Looping(t) => UNCHANGED <<world, setup, capability, boot, checks, witness,
                                                clock, ailed, held, doubted, moved, joined>>
  BY DEF Looping, LoopTick, LoopLook, LoopProbe, LoopDone
<1>8. QED
  BY <1>1, <1>2, <1>3, <1>4, <1>5, <1>6, <1>7

\* The record of what enforced conditions, and when, only grows, and so does that of doubts.
Grown == \A d \in Defs : /\ held[d] # None => held'[d] # None /\ held[d] <= held'[d]
                         /\ Proven(d) => Proven(d)'

\* Every step lets the records grow.
LEMMA NextGrown ==
  ASSUME HealthConstants, IInv, [Next]_vars PROVE Grown
<1> USE DEF IInv
<1>1. doubted \subseteq doubted'
  <2>1. CASE UNCHANGED vars
    BY <2>1 DEF vars
  <2>2. CASE Booting
    BY <2>2 DEF Booting, BootCapability, BootHealth, BootCapable, BootHealthy, BootAlone,
                BootValidate, Vet
  <2>3. ASSUME NEW t \in Admins, Applying(t) PROVE doubted \subseteq doubted'
    BY <2>3 DEF Applying, ApplyCapability, ApplyHealth, ApplyCommit, LookAt, Vet
  <2>4. ASSUME NEW t \in Admins, Working(t) PROVE doubted \subseteq doubted'
    BY <2>4 DEF Working, ApplyAbandoned, CreateProbe, CreateCommit, TestProbe, MigrateGate,
                MigrateStage, MigrateFlip, MigrateUnwind, LookAt, Vet
  <2>5. CASE Surroundings
    BY <2>5 DEF Surroundings, Change, Tick, Restart
  <2>6. QED
    BY <2>1, <2>2, <2>3, <2>4, <2>5, Frames DEF Next
<1>2. \A d \in Defs : held[d] # None => held'[d] # None /\ held[d] <= held'[d]
  <2>0. \A d \in Defs : held[d] # None => held[d] \in Nat /\ held[d] <= clock
    BY DEF TypeOK, HeldInv
  <2>1. CASE held' = held
    BY <2>0, <2>1
  <2>2. ASSUME NEW e \in Defs, NEW w \in Conditions, Change(e, w)
        PROVE  \A d \in Defs : held[d] # None => held'[d] # None /\ held[d] <= held'[d]
    BY <2>0, <2>2 DEF Change, TypeOK, HealthConstants
  <2>3. ASSUME Tick
        PROVE  \A d \in Defs : held[d] # None => held'[d] # None /\ held[d] <= held'[d]
    BY <2>0, <2>3 DEF Tick, TypeOK, HealthConstants
  <2>4. CASE UNCHANGED vars \/ Restart
    BY <2>1, <2>4 DEF vars, Restart
  <2>5. QED
    BY <2>1, <2>2, <2>3, <2>4, Frames DEF Next, Surroundings
<1>3. QED
  BY <1>1, <1>2 DEF Grown, Proven

\* A verdict of the connection probe is on record if it closes anything.
LEMMA FoundTrue ==
  ASSUME IInv, NEW n \in Names, NEW d \in Defs, NEW f \in BOOLEAN, UNCHANGED <<world, ailed>>,
         \/ health' = health
         \/ health' = [health EXCEPT ![n] = Entry(d, Attempt(d, f))]
  PROVE  HealthInv'
<1> USE DEF IInv
<1>1. is_gating(Attempt(d, f)) => d \in ailed
  BY Probe DEF TypeOK, HealthInv
<1>2. CASE health' = health
  BY <1>2 DEF HealthInv, Ails
<1>3. CASE health' = [health EXCEPT ![n] = Entry(d, Attempt(d, f))]
  <2>1. \A m \in Names : health'[m] = IF m = n THEN Entry(d, Attempt(d, f)) ELSE health[m]
    BY <1>3 DEF TypeOK
  <2>2. \A m \in Names : health'[m] # None /\ is_gating(health'[m].verdict)
                            => health'[m].def \in ailed
    BY <1>1, <2>1 DEF Entry, HealthInv
  <2>3. QED
    BY <2>2 DEF HealthInv, Ails
<1>4. QED
  BY <1>2, <1>3

\* What a verdict closes is on record after every step.
LEMMA NextHealth ==
  ASSUME HealthConstants, IInv, [Next]_vars PROVE HealthInv'
<1> USE DEF IInv
<1>1. CASE UNCHANGED <<world, ailed, health>>
  BY <1>1 DEF HealthInv, Ails
<1>2. ASSUME NEW n \in Names, BootHealth(n) PROVE HealthInv'
  <2>1. DefOf(setup, n) \in Defs
    BY <1>2, Definitions DEF BootHealth, BootInv, SetupInv, Past, TypeOK
  <2>2. QED
    BY <1>2, <2>1, FoundTrue DEF BootHealth, HasFallback
<1>3. CASE Booting
  BY <1>1, <1>2, <1>3 DEF Booting, BootCapability, BootCapable, BootHealthy, BootAlone,
                          BootValidate
<1>4. ASSUME NEW t \in Admins, Applying(t) PROVE HealthInv'
  <2> DEFINE x == chores[t]
             g == Head(x.left)
  <2>1. ASSUME ApplyHealth(t) PROVE HealthInv'
    <3>1. x \in Chores /\ x.kind = "apply"
      BY <2>1 DEF ApplyHealth, TypeOK, Tasks
    <3>2. x \in Applies
      BY <3>1, Kinds
    <3>3. x.left \in Seq(Targets) /\ x.left # <<>>
      BY <2>1, <3>2 DEF ApplyHealth, Applies
    <3>4. g.name \in Names /\ g.def \in Defs /\ g.fallback \in BOOLEAN
      BY <3>3, HeadTyped
    <3>5. QED
      BY <2>1, <3>4, FoundTrue DEF ApplyHealth
  <2>2. QED
    BY <1>1, <1>4, <2>1 DEF Applying, ApplyCapability, ApplyCommit
<1>5. ASSUME NEW t \in Admins, Working(t) PROVE HealthInv'
  <2> DEFINE x == chores[t]
  <2>0. x \in Chores
    BY DEF TypeOK, Tasks
  <2>1. ASSUME CreateProbe(t) PROVE HealthInv'
    <3>1. x \in Creates
      BY <2>0, <2>1, Kinds DEF CreateProbe
    <3>2. x.name \in Names /\ x.def \in Defs
      BY <3>1 DEF Creates, Names
    <3>3. QED
      BY <2>1, <3>2, FoundTrue DEF CreateProbe
  <2>2. ASSUME TestProbe(t) PROVE HealthInv'
    <3>1. x \in Tests
      BY <2>0, <2>2, Kinds DEF TestProbe
    <3>2. x.target.name \in Names /\ x.target.def \in Defs /\ x.target.fallback \in BOOLEAN
      BY <3>1 DEF Tests, Targets
    <3>3. QED
      BY <2>2, <3>2, FoundTrue DEF TestProbe
  <2>3. QED
    BY <1>1, <1>5, <2>1, <2>2 DEF Working, ApplyAbandoned, CreateCommit, MigrateGate,
       MigrateStage, MigrateFlip, MigrateUnwind
<1>6. ASSUME NEW t \in Loops, Looping(t) PROVE HealthInv'
  <2> DEFINE x == chores[t]
             g == Head(x.left)
  <2>1. ASSUME LoopLook(t) PROVE HealthInv'
    BY <2>1 DEF LoopLook, HealthInv, Ails, TypeOK
  <2>2. ASSUME LoopProbe(t) PROVE HealthInv'
    <3>1. x \in Chores /\ x.kind = "loop"
      BY <2>2 DEF LoopProbe, TypeOK, Tasks
    <3>2. x \in Rounds
      BY <3>1, Kinds
    <3>3. x.left \in Seq(Targets) /\ x.left # <<>>
      BY <2>2, <3>2 DEF LoopProbe, Rounds
    <3>4. g.name \in Names /\ g.def \in Defs /\ g.fallback \in BOOLEAN
      BY <3>3, HeadTyped
    <3>5. QED
      BY <2>2, <3>4, FoundTrue DEF LoopProbe
  <2>3. QED
    BY <1>1, <1>6, <2>1, <2>2 DEF Looping, LoopTick, LoopDone
<1>7. ASSUME NEW d \in Defs, NEW w \in Conditions, Change(d, w) PROVE HealthInv'
  <2>1. ailed' = ailed \cup Ails(world') /\ health' = health
    BY <1>7 DEF Change
  <2>2. QED
    BY <2>1 DEF HealthInv
<1>8. ASSUME Restart PROVE HealthInv'
  BY <1>8 DEF Restart, NoCaches, HealthInv, Ails
<1>9. CASE UNCHANGED vars \/ Tick
  BY <1>1, <1>9 DEF vars, Tick
<1>10. QED
  BY <1>1, <1>3, <1>4, <1>5, <1>6, <1>7, <1>8, <1>9, Frames DEF Next, Surroundings

\* Only time and the services change when conditions are enforced.
LEMMA NextHeld ==
  ASSUME HealthConstants, IInv, [Next]_vars PROVE HeldInv'
<1> USE DEF IInv
<1>1. CASE UNCHANGED <<world, held, clock>>
  BY <1>1 DEF HeldInv, Enforcing
<1>2. ASSUME NEW d \in Defs, NEW w \in Conditions, Change(d, w) PROVE HeldInv'
  BY <1>2 DEF Change, HeldInv, Enforcing, TypeOK
<1>3. ASSUME Tick PROVE HeldInv'
  BY <1>3 DEF Tick, HeldInv, Enforcing, TypeOK
<1>4. CASE UNCHANGED vars \/ Restart
  BY <1>1, <1>4 DEF vars, Restart
<1>5. QED
  BY <1>1, <1>2, <1>3, <1>4, Frames DEF Next, Surroundings

\* What the capability gates learn is true, and a name they let pass is proven.
LEMMA VetTrue ==
  ASSUME HealthConstants, IInv, NEW n \in Names, NEW d \in Defs, UNCHANGED held,
         Vet(n, d) \/ LookAt(n, d)
  PROVE  /\ CapabilityInv'
         /\ Vet(n, d) /\ CasVerdict(world[d].put) # "non-cas" => Proven(d)'
         /\ LookAt(n, d) /\ GateVerdict(n, d) # "non-cas" => Proven(d)'
<1> USE DEF IInv
<1> DEFINE verdict == CasVerdict(world[d].put)
<1>1. verdict = "cas" => held[d] # None
  <2>1. verdict = "cas" => world[d].put = "enforces"
    BY DEF CasVerdict
  <2>2. QED
    BY <2>1 DEF HeldInv, Enforcing, TypeOK, HealthConstants
<1>2. verdict \in Capabilities
  BY CasProbe DEF TypeOK, Service
<1>3. ASSUME Vet(n, d) PROVE CapabilityInv' /\ (verdict # "non-cas" => Proven(d)')
  <2>1. \A m \in Names : capability'[m] = IF m = n THEN Entry(d, verdict) ELSE capability[m]
    BY <1>3 DEF Vet, TypeOK
  <2>2. CapabilityInv'
    BY <1>1, <2>1 DEF CapabilityInv, Entry
  <2>3. verdict = "unknown" => d \in doubted'
    BY <1>3 DEF Vet
  <2>4. QED
    BY <1>1, <1>2, <2>2, <2>3 DEF Proven, Capabilities
<1>4. ASSUME LookAt(n, d) PROVE CapabilityInv' /\ (GateVerdict(n, d) # "non-cas" => Proven(d)')
  <2>1. CASE Vetted(n, d)
    <3>1. UNCHANGED <<capability, doubted>>
      BY <1>4, <2>1 DEF LookAt
    <3>2. /\ capability[n] # None /\ capability[n].def = d
          /\ capability[n].verdict \in {"cas", "non-cas"}
      BY <2>1 DEF Vetted, Cached, HealthConstants, Capabilities
    <3>3. GateVerdict(n, d) = capability[n].verdict
      BY <2>1 DEF GateVerdict
    <3>4. QED
      BY <3>1, <3>2, <3>3 DEF CapabilityInv, Proven
  <2>2. CASE ~Vetted(n, d)
    <3>1. Vet(n, d) /\ GateVerdict(n, d) = verdict
      BY <1>4, <2>2 DEF LookAt, GateVerdict
    <3>2. QED
      BY <1>3, <3>1
  <2>3. QED
    BY <2>1, <2>2
<1>5. QED
  BY <1>3, <1>4

\* A process that is not up serves nobody and applies nothing.
LEMMA UpOnly ==
  ASSUME HealthConstants, IInv
  PROVE  /\ \A t \in Admins : Applying(t) \/ Asking(t) \/ Working(t) => boot.at = "up"
         /\ \A t \in Loops : Looping(t) => boot.at = "up"
         /\ \A n \in Backends : Delete(n) => boot.at = "up"
<1> USE DEF IInv
<1>0. \A t \in Tasks : chores[t] \in Chores
  BY DEF TypeOK
<1>1. \A t \in Tasks : chores[t].kind \in {"apply", "create", "test", "loop"} => boot.at = "up"
  <2> SUFFICES ASSUME NEW t \in Tasks, chores[t].kind \in {"apply", "create", "test", "loop"}
               PROVE  ~Quiet(chores[t])
    BY DEF BootInv
  <2>1. QED
    BY DEF Quiet, Idle, Migrates
<1>2. \A t \in Tasks : chores[t].kind = "migrate" /\ chores[t].at = "gate" => boot.at = "up"
  <2> SUFFICES ASSUME NEW t \in Tasks, chores[t].kind = "migrate", chores[t].at = "gate"
               PROVE  ~Quiet(chores[t])
    BY DEF BootInv
  <2>1. QED
    BY DEF Quiet, Idle
<1>3. ASSUME NEW t \in Admins, Applying(t) PROVE boot.at = "up"
  <2>1. t \in Tasks /\ chores[t].kind = "apply"
    BY <1>3 DEF Applying, ApplyCapability, ApplyHealth, ApplyCommit, Tasks
  <2>2. QED
    BY <1>1, <2>1
<1>4. ASSUME NEW t \in Admins, Asking(t) PROVE boot.at = "up"
  BY <1>4 DEF Asking, Apply, Create, Test, Migrate, Call, Up
<1>5. ASSUME NEW t \in Admins, Working(t) PROVE boot.at = "up"
  <2>1. \/ chores[t].kind \in {"apply", "create", "test"}
        \/ chores[t].kind = "migrate" /\ chores[t].at = "gate"
        \/ boot.at = "up"
    BY <1>5 DEF Working, ApplyAbandoned, CreateProbe, CreateCommit, TestProbe, MigrateGate,
                MigrateStage, MigrateFlip, MigrateUnwind, Up
  <2>2. QED
    BY <1>1, <1>2, <2>1 DEF Tasks
<1>6. ASSUME NEW t \in Loops, Looping(t) PROVE boot.at = "up"
  <2>1. chores[t].kind = "loop" \/ boot.at = "up"
    BY <1>6 DEF Looping, LoopTick, LoopLook, LoopProbe, LoopDone, Up
  <2>2. QED
    BY <1>1, <2>1 DEF Tasks
<1>7. ASSUME NEW n \in Backends, Delete(n) PROVE boot.at = "up"
  BY <1>7 DEF Delete, Call, Up
<1>8. QED
  BY <1>3, <1>4, <1>5, <1>6, <1>7

\* What the caches know of conditional writes was true once, after every step.
LEMMA NextCapability ==
  ASSUME HealthConstants, IInv, [Next]_vars, TypeOK' PROVE CapabilityInv'
<1> USE DEF IInv
<1>0. Grown
  BY NextGrown
<1>1. CASE UNCHANGED capability
  <2>1. \A n \in Names : capability[n] # None => capability[n].def \in Defs
    BY DEF TypeOK, Told
  <2>2. QED
    BY <1>0, <1>1, <2>1 DEF CapabilityInv, Grown
<1>2. ASSUME NEW n \in Names, BootCapability(n) PROVE CapabilityInv'
  <2>1. n \in Named(setup) /\ DefOf(setup, n) \in Defs
    BY <1>2, Vettable, Definitions DEF BootCapability, BootInv, TypeOK, check_fatal
  <2>2. QED
    BY <1>2, <2>1, VetTrue DEF BootCapability
<1>3. ASSUME NEW t \in Admins, NEW n \in Names, ApplyCapability(t, n) PROVE CapabilityInv'
  <2> DEFINE x == chores[t]
  <2>1. x \in Applies /\ t \in Tasks
    <3>1. x \in Chores /\ x.kind = "apply" /\ t \in Tasks
      BY <1>3 DEF ApplyCapability, TypeOK, Tasks
    <3>2. QED
      BY <3>1, Kinds
  <2>2. Vouched(x)
    BY <2>1 DEF ChoreInv, Sound
  <2>3. x.new \in Config /\ ~Duplicated(x.new) /\ n \in ToVet(x.new)
    BY <1>3, <2>1, <2>2 DEF ApplyCapability, Vouched, check_fatal, Applies
  <2>4. DefOf(x.new, n) \in Defs
    BY <2>3, Vettable, Definitions
  <2>5. QED
    BY <1>3, <2>4, VetTrue DEF ApplyCapability
<1>4. ASSUME NEW t \in Admins, MigrateGate(t) PROVE CapabilityInv'
  <2> DEFINE x == chores[t]
  <2>1. x \in Migrates /\ t \in Tasks
    <3>1. x \in Chores /\ x.kind = "migrate" /\ t \in Tasks
      BY <1>4 DEF MigrateGate, TypeOK, Tasks
    <3>2. QED
      BY <3>1, Kinds
  <2>2. ~Duplicated(x.seen)
    BY <2>1 DEF ChoreInv, Sound
  <2>3. x.seen \in Config /\ x.target \in Names
    BY <2>1 DEF Migrates
  <2>4. CASE ~Exempt(x)
    <3>1. DefOf(x.seen, x.target) \in Defs
      BY <2>2, <2>3, <2>4, Definitions DEF Exempt
    <3>2. QED
      BY <1>4, <2>3, <2>4, <3>1, VetTrue DEF MigrateGate
  <2>5. QED
    BY <1>1, <1>4, <2>4 DEF MigrateGate
<1>5. CASE Booting
  BY <1>1, <1>2, <1>5 DEF Booting, BootHealth, BootCapable, BootHealthy, BootAlone, BootValidate
<1>6. ASSUME NEW t \in Admins, Applying(t) PROVE CapabilityInv'
  BY <1>1, <1>3, <1>6 DEF Applying, ApplyHealth, ApplyCommit
<1>7. ASSUME NEW t \in Admins, Working(t) PROVE CapabilityInv'
  BY <1>1, <1>4, <1>7 DEF Working, ApplyAbandoned, CreateProbe, CreateCommit, TestProbe,
     MigrateStage, MigrateFlip, MigrateUnwind
<1>8. ASSUME Restart PROVE CapabilityInv'
  BY <1>8 DEF Restart, NoCaches, CapabilityInv
<1>9. ASSUME NEW d \in Defs, NEW w \in Conditions, Change(d, w) PROVE CapabilityInv'
  BY <1>1, <1>9 DEF Change
<1>10. CASE UNCHANGED vars \/ Tick
  BY <1>1, <1>10 DEF vars, Tick
<1>11. QED
  BY <1>1, <1>5, <1>6, <1>7, <1>8, <1>9, <1>10, Frames DEF Next, Surroundings

-----------------------------------------------------------------------------
(* The boot.                                                               *)

\* While the boot pauses, it only gets truer that its backends are proven.
LEMMA BootPauses ==
  ASSUME HealthConstants, IInv, Grown, UNCHANGED <<boot, setup, chores>>,
         checks'[Node] # None => boot.at \in {"lease", "sync"}
  PROVE  BootInv'
<1> USE DEF IInv
<1>1. ASSUME boot.at = "capability"
      PROVE  \A n \in ToVet(setup) \ boot.left : Proven(DefOf(setup, n))'
  <2> SUFFICES ASSUME NEW n \in ToVet(setup) \ boot.left PROVE Proven(DefOf(setup, n))'
    OBVIOUS
  <2>1. DefOf(setup, n) \in Defs /\ Proven(DefOf(setup, n))
    BY <1>1, Vettable, Definitions DEF BootInv, TypeOK, check_fatal
  <2>2. QED
    BY <2>1 DEF Grown
<1>2. \A t \in Tasks : Quiet(chores[t])' <=> Quiet(chores[t])
  BY DEF Quiet
<1>3. ToVet(setup)' = ToVet(setup) /\ check_fatal(setup)' = check_fatal(setup)
      /\ Named(setup)' = Named(setup)
  OBVIOUS
<1>4. QED
  BY <1>1, <1>2, <1>3 DEF BootInv

\* A process that serves stays up.
LEMMA StaysUp ==
  ASSUME IInv, boot.at = "up", UNCHANGED <<boot, checks>> PROVE BootInv'
  BY DEF IInv, BootInv

\* Past the first gate there is nothing to cross off but what the configuration names.
LEMMA BootAdvances ==
  ASSUME IInv, boot.at # "up", UNCHANGED <<setup, chores>>,
         NEW at \in {"health", "lease", "sync", "up", "exit"}, NEW S,
         boot'.at = at, boot'.left = S, at = "health" => S \subseteq Named(setup) \cup {Default},
         checks'[Node] = None
  PROVE  BootInv'
<1> USE DEF IInv
<1>1. \A t \in Tasks : Quiet(chores[t])' <=> Quiet(chores[t])
  BY DEF Quiet
<1>2. Named(setup)' = Named(setup)
  OBVIOUS
<1>3. QED
  BY <1>1, <1>2 DEF BootInv

\* The boot looks at every backend before it goes on.
LEMMA NextBoot ==
  ASSUME HealthConstants, IInv, [Next]_vars, TypeOK' PROVE BootInv'
<1> USE DEF IInv
<1>0. Grown /\ boot \in Stages
  BY NextGrown DEF TypeOK
<1>1. ASSUME NEW n \in Names, BootCapability(n) PROVE BootInv'
  <2> DEFINE d == DefOf(setup, n)
  <2>1. n \in Named(setup) /\ d \in Defs /\ UNCHANGED <<setup, chores, checks, held>>
        /\ boot.at = "capability" /\ Vet(n, d) /\ checks[Node] = None
    BY <1>1, Vettable, Definitions DEF BootCapability, BootInv, TypeOK, check_fatal
  <2>2. CASE CasVerdict(world[d].put) = "non-cas"
    <3>1. boot'.at = "exit"
      BY <1>1, <2>2 DEF BootCapability, Goto
    <3>2. QED
      BY <2>1, <3>1, BootAdvances
  <2>3. CASE CasVerdict(world[d].put) # "non-cas"
    <3>1. Proven(d)'
      BY <2>1, <2>3, VetTrue
    <3>2. boot'.at = boot.at /\ boot'.left = boot.left \ {n}
      BY <1>0, <1>1, <2>3 DEF BootCapability, Stages
    <3>3. ASSUME NEW m \in ToVet(setup) \ boot'.left PROVE Proven(DefOf(setup, m))'
      <4>1. CASE m = n
        BY <3>1, <4>1
      <4>2. CASE m # n
        <5>1. DefOf(setup, m) \in Defs /\ Proven(DefOf(setup, m))
          BY <2>1, <3>2, <3>3, <4>2, Vettable, Definitions DEF BootInv, TypeOK, check_fatal
        <5>2. QED
          BY <1>0, <2>1, <5>1 DEF Grown
      <4>3. QED
        BY <4>1, <4>2
    <3>4. \A t \in Tasks : Quiet(chores[t])' <=> Quiet(chores[t])
      BY <2>1 DEF Quiet
    <3>5. ToVet(setup)' = ToVet(setup) /\ check_fatal(setup)' = check_fatal(setup)
      BY <2>1
    <3>6. QED
      BY <2>1, <3>2, <3>3, <3>4, <3>5 DEF BootInv
  <2>4. QED
    BY <2>2, <2>3
<1>2. ASSUME NEW n \in Names, BootHealth(n) PROVE BootInv'
  <2>1. boot'.at = "health" /\ boot'.left = boot.left \ {n} /\ boot.at = "health"
        /\ UNCHANGED <<setup, chores, checks>>
    BY <1>0, <1>2 DEF BootHealth, Stages
  <2>2. checks[Node] = None /\ boot.left \subseteq Named(setup) \cup {Default}
    BY <2>1 DEF BootInv
  <2>3. QED
    BY <2>1, <2>2, BootAdvances
<1>3. ASSUME BootCapable PROVE BootInv'
  <2>1. /\ boot'.at = "health" /\ boot'.left \subseteq Named(setup) \cup {Default}
        /\ boot.at = "capability" /\ UNCHANGED <<setup, chores, checks>>
    BY <1>3 DEF BootCapable, Goto
  <2>2. checks[Node] = None
    BY <2>1 DEF BootInv
  <2>3. QED
    BY <2>1, <2>2, BootAdvances
<1>4. ASSUME BootHealthy PROVE BootInv'
  <2>1. /\ boot'.at \in {"exit", "lease", "up"} /\ boot.at = "health"
        /\ UNCHANGED <<setup, chores, checks>>
    BY <1>4 DEF BootHealthy, Goto
  <2>2. checks[Node] = None
    BY <2>1 DEF BootInv
  <2>3. QED
    BY <2>1, <2>2, BootAdvances
<1>5. ASSUME BootAlone PROVE BootInv'
  <2>1. /\ boot'.at \in {"sync", "up"} /\ boot.at # "up" /\ checks[Node] = None
        /\ UNCHANGED <<setup, chores, checks>>
    BY <1>5 DEF BootAlone, Goto
  <2>2. QED
    BY <2>1, BootAdvances
<1>6. ASSUME BootValidate PROVE BootInv'
  BY <1>0, <1>6, BootPauses DEF BootValidate
<1>7. ASSUME NEW v \in Peers, NEW d \in Defs, PeerValidate(v, d) PROVE BootInv'
  <2>1. checks'[Node] = checks[Node]
    BY <1>7 DEF PeerValidate, Begin, TypeOK, HealthConstants, Nodes
  <2>2. UNCHANGED <<boot, setup, chores>> /\ (checks[Node] # None => boot.at \in {"lease", "sync"})
    BY <1>7 DEF PeerValidate, BootInv
  <2>3. QED
    BY <1>0, <2>1, <2>2, BootPauses
<1>8. ASSUME NEW v \in Nodes, ReadWitness(v) \/ ProbeBucket(v) \/ WriteWitness(v) PROVE BootInv'
  <2>0. UNCHANGED <<setup, chores>> /\ checks[v] # None
    BY <1>8 DEF ReadWitness, ProbeBucket, WriteWitness
  <2>1. CASE v = Node
    <3>1. boot.at \in {"lease", "sync"}
      BY <2>0, <2>1 DEF BootInv
    <3>2. CASE Passes(v) \/ Fails(v)
      <4>1. checks'[Node] = None /\ boot'.at \in {"up", "sync", "exit"}
        BY <2>1, <3>2 DEF Passes, Fails, Goto, TypeOK
      <4>2. QED
        BY <2>0, <3>1, <4>1, BootAdvances
    <3>3. CASE ~(Passes(v) \/ Fails(v))
      <4>1. UNCHANGED boot
        BY <1>8, <3>3 DEF ReadWitness, ProbeBucket, WriteWitness
      <4>2. QED
        BY <1>0, <2>0, <3>1, <4>1, BootPauses
    <3>4. QED
      BY <3>2, <3>3
  <2>2. CASE v # Node
    <3>1. UNCHANGED boot /\ checks'[Node] = checks[Node]
      BY <1>8, <2>2 DEF ReadWitness, ProbeBucket, WriteWitness, Passes, Fails, TypeOK, Nodes
    <3>2. checks[Node] # None => boot.at \in {"lease", "sync"}
      BY DEF BootInv
    <3>3. QED
      BY <1>0, <2>0, <3>1, <3>2, BootPauses
  <2>3. QED
    BY <2>1, <2>2
<1>9. ASSUME UNCHANGED <<boot, setup, chores, checks>> PROVE BootInv'
  <2>1. checks[Node] # None => boot.at \in {"lease", "sync"}
    BY DEF BootInv
  <2>2. QED
    BY <1>0, <1>9, <2>1, BootPauses
<1>10. ASSUME Restart PROVE BootInv'
  <2>1. \A t \in Tasks : Quiet(chores'[t])
    <3> SUFFICES ASSUME NEW t \in Tasks PROVE Quiet(chores'[t])
      OBVIOUS
    <3>1. chores'[t] = Surviving(chores[t]) /\ chores[t] \in Chores
      BY <1>10 DEF Restart, TypeOK
    <3>2. chores[t].kind = "migrate" => chores[t] \in Migrates
      BY <3>1, Kinds
    <3>3. QED
      BY <3>1, <3>2 DEF Surviving, Quiet
  <2>2. /\ boot'.at = IF check_fatal(setup) THEN "exit" ELSE "capability"
        /\ boot'.left = ToVet(setup) /\ UNCHANGED setup /\ checks'[Node] = None
    BY <1>10 DEF Restart, Starting, TypeOK, Nodes
  <2>3. ToVet(setup)' = ToVet(setup) /\ check_fatal(setup)' = check_fatal(setup)
    BY <2>2
  <2>4. \A t \in Tasks : Quiet(chores[t])'
    BY <2>1 DEF Quiet
  <2>5. QED
    BY <2>2, <2>3, <2>4 DEF BootInv
<1>11. ASSUME NEW t \in Admins, Applying(t) \/ Asking(t) \/ Working(t) PROVE BootInv'
  BY <1>11, UpOnly, Frames, StaysUp
<1>12. ASSUME NEW t \in Loops, Looping(t) PROVE BootInv'
  BY <1>12, UpOnly, Frames, StaysUp
<1>13. ASSUME NEW n \in Backends, Delete(n) PROVE BootInv'
  BY <1>13, UpOnly, Frames, StaysUp
<1>14. CASE UNCHANGED vars \/ Tick
  BY <1>9, <1>14 DEF vars, Tick
<1>15. ASSUME NEW d \in Defs, NEW w \in Conditions, Change(d, w) PROVE BootInv'
  BY <1>9, <1>15 DEF Change
<1>16. CASE Booting
  BY <1>1, <1>2, <1>3, <1>4, <1>5, <1>6, <1>16 DEF Booting
<1>17. CASE Validating
  BY <1>7, <1>8, <1>17 DEF Validating
<1>18. QED
  BY <1>10, <1>11, <1>12, <1>13, <1>14, <1>15, <1>16, <1>17 DEF Next, Surroundings

-----------------------------------------------------------------------------
(* The chores.                                                             *)

\* What vouches for a chore does not go away.
LEMMA SoundStays ==
  ASSUME HealthConstants, Grown, NEW x \in Chores, Sound(x) PROVE Sound(x)'
<1>1. ASSUME x \in Applies PROVE Vouched(x)'
  <2>1. Vouched(x) /\ x.new \in Config
    BY <1>1 DEF Sound, Applies
  <2>2. \A n \in ToVet(x.new) : DefOf(x.new, n) \in Defs
    BY <2>1, Vettable, Definitions DEF Vouched, check_fatal
  <2>3. \A n \in ToVet(x.new) : Proven(DefOf(x.new, n)) => Proven(DefOf(x.new, n))'
    BY <2>2 DEF Grown
  <2>4. QED
    BY <2>1, <2>3 DEF Vouched
<1>2. QED
  BY <1>1 DEF Sound

\* Only the configurations of two kinds of chores need to be vouched for.
LEMMA OthersSound ==
  ASSUME NEW y \in Chores, y.kind \notin {"apply", "migrate"} PROVE Sound(y)'
  BY Kinds DEF Sound

\* A task goes on with a sound chore.
LEMMA SoundBecomes ==
  ASSUME HealthConstants, IInv, Grown, NEW t \in Tasks, NEW y \in Chores, Becomes(t, y), Sound(y)'
  PROVE  ChoreInv'
<1> SUFFICES ASSUME NEW u \in Tasks PROVE Sound(chores[u])'
  BY DEF ChoreInv
<1>1. CASE u = t
  <2>1. chores'[u] = y
    BY <1>1 DEF Becomes, IInv, TypeOK
  <2>2. QED
    BY <2>1
<1>2. CASE u # t
  <2>1. PICK x \in Chores : x = chores[u]
    BY DEF IInv, TypeOK
  <2>2. Sound(x)'
    BY <2>1, SoundStays DEF IInv, ChoreInv
  <2>3. chores'[u] = x
    BY <1>2, <2>1 DEF Becomes, IInv, TypeOK
  <2>4. QED
    BY <2>2, <2>3
<1>3. QED
  BY <1>1, <1>2

\* A task is done.
LEMMA SoundQuits ==
  ASSUME HealthConstants, IInv, Grown, NEW t \in Tasks, Quits(t) PROVE ChoreInv'
<1>1. Idle \in Chores /\ Idle.kind \notin {"apply", "migrate"} /\ Becomes(t, Idle)
  BY DEF Chores, Idle, Quits
<1>2. Sound(Idle)'
  BY <1>1, OthersSound
<1>3. QED
  BY <1>1, <1>2, SoundBecomes

\* The chores of others are left alone, or end.
LEMMA SoundSurvives ==
  ASSUME HealthConstants, IInv, Grown, \A t \in Tasks : chores'[t] \in {chores[t], Idle}
  PROVE  ChoreInv'
<1> SUFFICES ASSUME NEW t \in Tasks PROVE Sound(chores[t])'
  BY DEF ChoreInv
<1>1. Idle \in Chores /\ Idle.kind \notin {"apply", "migrate"}
  BY DEF Chores, Idle
<1>2. Sound(Idle)'
  BY <1>1, OthersSound
<1>3. PICK x \in Chores : x = chores[t]
  BY DEF IInv, TypeOK
<1>4. Sound(x)'
  BY <1>3, SoundStays DEF IInv, ChoreInv
<1>5. chores'[t] = x \/ chores'[t] = Idle
  BY <1>3
<1>6. QED
  BY <1>2, <1>4, <1>5

\* An administrator's request to apply a configuration is sound from its first gate to its last.
LEMMA ApplyingSound ==
  ASSUME HealthConstants, IInv, TypeOK', Grown, NEW t \in Admins, Applying(t) PROVE ChoreInv'
<1> USE DEF IInv
<1>0. t \in Tasks
  BY DEF Tasks
<1>1. PICK x \in Applies : x = chores[t]
  <2>1. chores[t] \in Chores /\ chores[t].kind = "apply"
    BY <1>0 DEF TypeOK, Applying, ApplyCapability, ApplyHealth, ApplyCommit
  <2>2. QED
    BY <2>1, Kinds
<1>2. Vouched(x) /\ x.new \in Config /\ x \in Chores /\ Sound(x)
  BY <1>0, <1>1 DEF ChoreInv, Sound, Applies, Chores
<1>3. ASSUME NEW n \in Names, ApplyCapability(t, n) PROVE ChoreInv'
  <2> DEFINE d == DefOf(x.new, n)
             z == [x EXCEPT !.vet = @ \ {n}]
             y == Onward(z)
  <2>1. n \in ToVet(x.new) /\ x.at = "capability" /\ LookAt(n, d) /\ UNCHANGED held
    BY <1>1, <1>2, <1>3 DEF ApplyCapability, Vouched
  <2>2. d \in Defs
    BY <1>2, <2>1, Vettable, Definitions DEF Vouched, check_fatal
  <2>3. CASE GateVerdict(n, d) = "non-cas"
    BY <1>0, <1>1, <1>3, <2>3, SoundQuits DEF ApplyCapability, Refuses
  <2>4. CASE GateVerdict(n, d) # "non-cas"
    <3>1. Proven(d)'
      BY <2>1, <2>2, <2>4, VetTrue
    <3>2. Becomes(t, y)
      BY <1>1, <1>3, <2>4 DEF ApplyCapability
    <3>3. z \in Applies /\ z.new = x.new /\ z.vet = x.vet \ {n} /\ z.at = "capability"
      BY <1>2, <2>1 DEF Applies
    <3>4. y \in Applies /\ y.new = x.new /\ y.vet = x.vet \ {n}
          /\ (y.vet # {} => y.at = "capability")
      BY <3>3, OnwardTyped DEF Onward, Applies
    <3>5. \A m \in ToVet(x.new) : Proven(DefOf(x.new, m))' \/ (y.at = "capability" /\ m \in y.vet)
      <4> SUFFICES ASSUME NEW m \in ToVet(x.new)
                   PROVE  Proven(DefOf(x.new, m))' \/ (y.at = "capability" /\ m \in y.vet)
        OBVIOUS
      <4>1. CASE m = n
        BY <3>1, <4>1
      <4>2. CASE m # n /\ m \in x.vet
        BY <3>4, <4>2
      <4>3. CASE m \notin x.vet
        <5>1. Proven(DefOf(x.new, m)) /\ DefOf(x.new, m) \in Defs
          BY <1>2, <4>3, Vettable, Definitions DEF Vouched, check_fatal
        <5>2. QED
          BY <5>1 DEF Grown
      <4>4. QED
        BY <4>1, <4>2, <4>3
    <3>6. y \in Chores /\ y \notin Migrates
      BY <3>4 DEF Chores, Applies, Migrates
    <3>7. Vouched(y)'
      BY <1>2, <3>4, <3>5 DEF Vouched
    <3>8. Sound(y)'
      BY <3>6, <3>7 DEF Sound
    <3>9. QED
      BY <1>0, <3>2, <3>6, <3>8, SoundBecomes
  <2>5. QED
    BY <2>3, <2>4
<1>4. ASSUME ApplyHealth(t) PROVE ChoreInv'
  <2>0. x.left # <<>> /\ x.left \in Seq(Targets)
    BY <1>1, <1>4 DEF ApplyHealth, Applies
  <2>1. CASE Quits(t)
    BY <1>0, <2>1, SoundQuits
  <2>2. ASSUME NEW y \in Applies, y.new = x.new, y.vet = x.vet, y.at = x.at, Becomes(t, y)
        PROVE  ChoreInv'
    <3>1. Vouched(y) /\ y \in Chores
      BY <1>2, <2>2 DEF Vouched, Chores
    <3>2. Sound(y)
      BY <2>2, <3>1 DEF Sound, Applies, Migrates
    <3>3. Sound(y)'
      BY <3>1, <3>2, SoundStays
    <3>4. QED
      BY <1>0, <2>2, <3>1, <3>3, SoundBecomes
  <2>3. CASE Becomes(t, [x EXCEPT !.left = Tail(@), !.tries = 1])
    <3> DEFINE y == [x EXCEPT !.left = Tail(@), !.tries = 1]
    <3>1. y \in Applies /\ y.new = x.new /\ y.vet = x.vet /\ y.at = x.at
      BY <2>0, HeadTyped DEF Applies
    <3>2. QED
      BY <2>2, <2>3, <3>1
  <2>4. CASE Becomes(t, [x EXCEPT !.tries = @ + 1])
    <3> DEFINE y == [x EXCEPT !.tries = @ + 1]
    <3>1. y \in Applies /\ y.new = x.new /\ y.vet = x.vet /\ y.at = x.at
      BY DEF Applies
    <3>2. QED
      BY <2>2, <2>4, <3>1
  <2>5. QED
    BY <1>1, <1>4, <2>1, <2>3, <2>4 DEF ApplyHealth, Refuses
<1>5. ASSUME ApplyCommit(t) PROVE ChoreInv'
  BY <1>0, <1>5, SoundQuits DEF ApplyCommit, Refuses
<1>6. QED
  BY <1>3, <1>4, <1>5 DEF Applying

\* A new request is sound: a migration looks at a configuration that runs.
LEMMA AskingSound ==
  ASSUME HealthConstants, IInv, TypeOK', Grown, NEW t \in Admins, Asking(t) PROVE ChoreInv'
<1> USE DEF IInv
<1>0. t \in Tasks
  BY DEF Tasks
<1>1. ASSUME NEW new \in Docs, Apply(t, new) PROVE ChoreInv'
  <2> DEFINE z == [kind |-> "apply", new |-> new, at |-> "capability", vet |-> ToVet(new),
                   tries |-> 1,
                   left |-> IF BootMode = "off" THEN <<>> ELSE probe_targets(new)]
             y == Onward(z)
  <2>1. new \in Config /\ ~check_fatal(new) /\ Becomes(t, y)
    BY <1>1 DEF Apply, HealthConstants
  <2>2. ToVet(new) \in SUBSET Names
    BY <2>1, Vettable, Definitions DEF check_fatal, Names
  <2>3. z.left \in Seq(Targets)
    BY <2>1, TargetsTyped
  <2>4. z \in Applies
    BY <2>1, <2>2, <2>3 DEF Applies
  <2>5. y \in Applies /\ y.new = new /\ y.vet = ToVet(new) /\ (y.vet # {} => y.at = "capability")
    BY <2>4, OnwardTyped DEF Onward, Applies
  <2>6. Vouched(y)' /\ y \in Chores /\ y \notin Migrates
    BY <2>1, <2>5 DEF Vouched, Chores, Applies, Migrates
  <2>7. Sound(y)'
    BY <2>6 DEF Sound
  <2>8. QED
    BY <1>0, <2>1, <2>6, <2>7, SoundBecomes
<1>2. ASSUME NEW n \in Backends, NEW d \in Defs, NEW f \in BOOLEAN, Create(t, n, d, f)
      PROVE  ChoreInv'
  <2> DEFINE y == [kind |-> "create", name |-> n, def |-> d, first |-> f, tries |-> 1,
                   at |-> IF BootMode = "off" THEN "commit" ELSE "probe"]
  <2>1. y \in Chores /\ y.kind \notin {"apply", "migrate"}
    BY DEF Chores, Creates
  <2>2. Becomes(t, y) /\ Sound(y)'
    BY <1>2, <2>1, OthersSound DEF Create
  <2>3. QED
    BY <1>0, <2>1, <2>2, SoundBecomes
<1>3. ASSUME NEW i \in 1..Cardinality(Names), Test(t, i) PROVE ChoreInv'
  <2>1. PICK g \in Targets : g = probe_targets(setup)[i]
    BY <1>3, TargetsTyped DEF Test, TypeOK
  <2> DEFINE y == [kind |-> "test", target |-> g, tries |-> 1]
  <2>2. y \in Chores /\ y.kind \notin {"apply", "migrate"}
    BY DEF Chores, Tests
  <2>3. Becomes(t, y) /\ Sound(y)'
    BY <1>3, <2>1, <2>2, OthersSound DEF Test
  <2>4. QED
    BY <1>0, <2>2, <2>3, SoundBecomes
<1>4. ASSUME NEW b \in Buckets, NEW n \in Names, Migrate(t, b, n) PROVE ChoreInv'
  <2>1. PICK c \in Config : c = setup
    BY DEF TypeOK
  <2> DEFINE y == [kind |-> "migrate", bucket |-> b, target |-> n, seen |-> c, at |-> "gate"]
  <2>2. ~Duplicated(c)
    BY <1>4, <2>1 DEF Migrate, Call, Up, SetupInv, Past
  <2>3. y \in Migrates /\ y \in Chores /\ y \notin Applies /\ Becomes(t, y) /\ y.seen = c
    BY <1>4, <2>1 DEF Migrate, Migrates, Applies, Chores
  <2>4. Sound(y)'
    BY <2>2, <2>3 DEF Sound
  <2>5. QED
    BY <1>0, <2>3, <2>4, SoundBecomes
<1>5. QED
  BY <1>1, <1>2, <1>3, <1>4 DEF Asking

\* Requests stay sound while they are worked on.
LEMMA WorkingSound ==
  ASSUME HealthConstants, IInv, TypeOK', Grown, NEW t \in Admins, Working(t) PROVE ChoreInv'
<1> USE DEF IInv
<1>0. t \in Tasks
  BY DEF Tasks
<1>1. CASE Quits(t)
  BY <1>0, <1>1, SoundQuits
<1>2. PICK x \in Chores : x = chores[t]
  BY <1>0 DEF TypeOK
<1>3. Sound(x)
  BY <1>0, <1>2 DEF ChoreInv
<1>4. ASSUME NEW y \in Chores, y.kind \notin {"apply", "migrate"}, Becomes(t, y) PROVE ChoreInv'
  BY <1>0, <1>4, OthersSound, SoundBecomes
<1>5. ASSUME CreateProbe(t) PROVE ChoreInv'
  <2>1. x \in Creates
    BY <1>2, <1>5, Kinds DEF CreateProbe
  <2>2. /\ [x EXCEPT !.tries = @ + 1] \in Creates /\ [x EXCEPT !.at = "commit"] \in Creates
        /\ \A y \in Creates : y \in Chores /\ y.kind \notin {"apply", "migrate"}
    BY <2>1 DEF Creates, Chores
  <2>3. \/ Quits(t)
        \/ Becomes(t, [x EXCEPT !.tries = @ + 1]) \/ Becomes(t, [x EXCEPT !.at = "commit"])
    BY <1>2, <1>5 DEF CreateProbe
  <2>4. QED
    BY <1>1, <1>4, <2>2, <2>3
<1>6. ASSUME TestProbe(t) PROVE ChoreInv'
  <2>1. x \in Tests
    BY <1>2, <1>6, Kinds DEF TestProbe
  <2>2. /\ [x EXCEPT !.tries = @ + 1] \in Tests
        /\ \A y \in Tests : y \in Chores /\ y.kind \notin {"apply", "migrate"}
    BY <2>1 DEF Tests, Chores
  <2>3. Quits(t) \/ Becomes(t, [x EXCEPT !.tries = @ + 1])
    BY <1>2, <1>6 DEF TestProbe
  <2>4. QED
    BY <1>1, <1>4, <2>2, <2>3
<1>7. ASSUME MigrateGate(t) \/ MigrateStage(t), ~Quits(t) PROVE ChoreInv'
  <2>1. x \in Migrates
    BY <1>2, <1>7, Kinds DEF MigrateGate, MigrateStage
  <2>2. PICK at \in {"stage", "flip"} : Becomes(t, [x EXCEPT !.at = at])
    BY <1>2, <1>7 DEF MigrateGate, MigrateStage
  <2> DEFINE y == [x EXCEPT !.at = at]
  <2>3. y \in Migrates /\ y.seen = x.seen /\ y \in Chores /\ y \notin Applies
    BY <2>1 DEF Migrates, Chores, Applies
  <2>4. Sound(y)'
    BY <1>3, <2>1, <2>3 DEF Sound
  <2>5. QED
    BY <1>0, <2>2, <2>3, <2>4, SoundBecomes
<1>8. QED
  BY <1>1, <1>5, <1>6, <1>7 DEF Working, ApplyAbandoned, Refuses, CreateCommit, MigrateFlip,
                                MigrateUnwind

\* Rounds of the re-probe loop vouch for nothing.
LEMMA LoopingSound ==
  ASSUME HealthConstants, IInv, TypeOK', Grown, NEW t \in Loops, Looping(t) PROVE ChoreInv'
<1> USE DEF IInv
<1>0. t \in Tasks
  BY DEF Tasks
<1>1. CASE Quits(t)
  BY <1>0, <1>1, SoundQuits
<1>2. PICK y \in Chores : y = chores'[t]
  BY <1>0 DEF TypeOK
<1>3. CASE ~Quits(t)
  <2>1. Becomes(t, y) /\ y.kind \notin {"apply", "migrate"}
    <3>1. CASE LoopTick(t)
      <4> DEFINE z == [kind |-> "loop", at |-> "look", seen |-> unhealthy_names, left |-> <<>>,
                       tries |-> 1]
      <4>1. chores' = [chores EXCEPT ![t] = z]
        BY <3>1 DEF LoopTick, Becomes
      <4>2. y = z
        BY <1>0, <1>2, <4>1 DEF TypeOK
      <4>3. QED
        BY <4>1, <4>2 DEF Becomes
    <3>2. CASE LoopLook(t) \/ LoopProbe(t)
      <4>1. chores[t] \in Rounds
        <5>1. chores[t] \in Chores /\ chores[t].kind = "loop"
          BY <1>0, <3>2 DEF LoopLook, LoopProbe, TypeOK
        <5>2. QED
          BY <5>1, Kinds
      <4> DEFINE x == chores[t]
                 z1 == [x EXCEPT !.at = "probe", !.left = probe_targets(setup)]
                 z2 == [x EXCEPT !.left = Tail(@), !.tries = 1]
                 z3 == [x EXCEPT !.tries = @ + 1]
      <4>2. z1.kind = "loop" /\ z2.kind = "loop" /\ z3.kind = "loop"
        BY <4>1 DEF Rounds
      <4>3. Becomes(t, z1) \/ Becomes(t, z2) \/ Becomes(t, z3)
        BY <3>2 DEF LoopLook, LoopProbe
      <4>4. PICK z : Becomes(t, z) /\ z.kind = "loop"
        BY <4>2, <4>3
      <4>5. y = z
        BY <1>0, <1>2, <4>4 DEF Becomes, TypeOK
      <4>6. QED
        BY <4>4, <4>5
    <3>3. QED
      BY <1>3, <3>1, <3>2 DEF Looping, LoopDone
  <2>2. Sound(y)'
    BY <2>1, OthersSound
  <2>3. QED
    BY <1>0, <2>1, <2>2, SoundBecomes
<1>4. QED
  BY <1>1, <1>3

\* Every chore is sound after every step.
LEMMA NextChores ==
  ASSUME HealthConstants, IInv, [Next]_vars, TypeOK' PROVE ChoreInv'
<1>0. Grown
  BY NextGrown
<1>1. CASE UNCHANGED chores
  BY <1>0, <1>1, SoundSurvives
<1>2. ASSUME Restart PROVE ChoreInv'
  BY <1>0, <1>2, SoundSurvives DEF Restart, Surviving
<1>3. ASSUME NEW t \in Admins, Applying(t) \/ Asking(t) \/ Working(t) PROVE ChoreInv'
  BY <1>0, <1>3, ApplyingSound, AskingSound, WorkingSound
<1>4. ASSUME NEW t \in Loops, Looping(t) PROVE ChoreInv'
  BY <1>0, <1>4, LoopingSound
<1>5. CASE UNCHANGED vars \/ Tick
  BY <1>1, <1>5 DEF vars, Tick
<1>6. ASSUME NEW d \in Defs, NEW w \in Conditions, Change(d, w) PROVE ChoreInv'
  BY <1>1, <1>6 DEF Change
<1>7. QED
  BY <1>1, <1>2, <1>3, <1>4, <1>5, <1>6, Frames DEF Next, Surroundings

-----------------------------------------------------------------------------
(* The coordination bucket.                                                *)

\* Validations that are under way, and their witnesses, stay true as time goes by.
LEMMA WitnessStays ==
  ASSUME HealthConstants, IInv, TypeOK', Grown, clock <= clock', UNCHANGED witness,
         \A v \in Nodes : checks'[v] \in {checks[v], None}
  PROVE  WitnessInv'
<1> USE DEF IInv
<1>1. ASSUME NEW d \in Defs, witness'[d] # None
      PROVE  held'[d] # None /\ witness'[d] <= held'[d]
  <2>1. witness[d] # None /\ held[d] # None /\ witness[d] <= held[d]
    BY <1>1 DEF WitnessInv
  <2>2. witness[d] \in Nat /\ held[d] \in Nat /\ held'[d] # None /\ held[d] <= held'[d]
    BY <2>1 DEF TypeOK, Grown
  <2>3. held'[d] \in Nat
    BY <2>2 DEF TypeOK
  <2>4. QED
    BY <2>1, <2>2, <2>3
<1>2. ASSUME NEW v \in Nodes, checks'[v] # None
      PROVE  /\ checks'[v].began <= clock'
             /\ checks'[v].at = "write" =>
                  held'[checks'[v].def] # None /\ checks'[v].began <= held'[checks'[v].def]
  <2>1. PICK x \in Checks : checks'[v] = x /\ checks[v] = x /\ checks[v] # None
    BY <1>2 DEF TypeOK
  <2>2. x.began <= clock /\ x.began \in Nat /\ x.def \in Defs
    BY <2>1 DEF WitnessInv, Checks
  <2>3. x.began <= clock'
    BY <2>2 DEF TypeOK
  <2>4. ASSUME x.at = "write" PROVE held'[x.def] # None /\ x.began <= held'[x.def]
    <3>1. held[x.def] # None /\ x.began <= held[x.def]
      BY <2>1, <2>4 DEF WitnessInv
    <3>2. held[x.def] \in Nat /\ held'[x.def] # None /\ held[x.def] <= held'[x.def]
      BY <2>2, <3>1 DEF TypeOK, Grown
    <3>3. held'[x.def] \in Nat
      BY <2>2, <3>2 DEF TypeOK
    <3>4. QED
      BY <2>2, <3>1, <3>2, <3>3
  <2>5. QED
    BY <2>1, <2>3, <2>4
<1>3. QED
  BY <1>1, <1>2 DEF WitnessInv

\* Membership stays proven.
LEMMA MembershipStays ==
  ASSUME HealthConstants, IInv, TypeOK', Grown, joined' \in {joined, None}
  PROVE  CoordinationProven'
<1> USE DEF IInv
<1>1. CASE joined' = None
  BY <1>1 DEF CoordinationProven
<1>2. CASE joined' # None
  <2>1. PICK m \in Memberships : joined = m /\ joined' = m /\ joined # None
    BY <1>2 DEF TypeOK
  <2>2. m.def \in Defs /\ m.at \in Nat
    BY DEF Memberships
  <2>3. held[m.def] # None /\ m.at - held[m.def] < WitnessAge
    BY <2>1 DEF CoordinationProven
  <2>4. held[m.def] \in Nat /\ held'[m.def] # None /\ held[m.def] <= held'[m.def]
    BY <2>2, <2>3 DEF TypeOK, Grown
  <2>5. held'[m.def] \in Nat /\ WitnessAge \in Nat
    BY <2>2, <2>4 DEF TypeOK, HealthConstants
  <2>6. m.at - held'[m.def] < WitnessAge
    BY <2>2, <2>3, <2>4, <2>5
  <2>7. QED
    BY <2>1, <2>4, <2>6 DEF CoordinationProven
<1>3. QED
  BY <1>1, <1>2

\* A validation that passes has seen, or was told of, enforcement not long before it began.
LEMMA PassingProven ==
  ASSUME HealthConstants, IInv, TypeOK', NEW v \in Nodes, checks[v] # None, Passes(v),
         UNCHANGED held, held[checks[v].def] # None,
         checks[v].began - held[checks[v].def] < WitnessAge
  PROVE  CoordinationProven'
<1>1. CASE joined' = joined
  BY <1>1 DEF IInv, CoordinationProven
<1>2. CASE joined' = [def |-> checks[v].def, at |-> checks[v].began]
  BY <1>2 DEF CoordinationProven
<1>3. QED
  BY <1>1, <1>2 DEF Passes

\* A validation that begins, or goes on.
LEMMA CheckBecomes ==
  ASSUME HealthConstants, IInv, TypeOK', UNCHANGED <<held, clock>>, NEW v \in Nodes,
         NEW x \in Checks,
         checks' = [checks EXCEPT ![v] = x], UNCHANGED witness, x.began <= clock,
         x.at = "write" => held[x.def] # None /\ x.began <= held[x.def]
  PROVE  WitnessInv'
<1> USE DEF IInv
<1>1. \A u \in Nodes : checks'[u] = IF u = v THEN x ELSE checks[u]
  BY DEF TypeOK
<1>2. QED
  BY <1>1 DEF WitnessInv

\* The witnesses testify to what was seen, after every step.
LEMMA NextWitness ==
  ASSUME HealthConstants, IInv, [Next]_vars, TypeOK' PROVE WitnessInv' /\ CoordinationProven'
<1> USE DEF IInv
<1>0. Grown
  BY NextGrown
<1>1. ASSUME clock <= clock', UNCHANGED witness, joined' \in {joined, None},
             \A v \in Nodes : checks'[v] \in {checks[v], None}
      PROVE  WitnessInv' /\ CoordinationProven'
  BY <1>0, <1>1, WitnessStays, MembershipStays
<1>2. clock <= clock
  BY DEF TypeOK
<1>3. ASSUME UNCHANGED <<clock, checks, witness, joined>>
      PROVE  WitnessInv' /\ CoordinationProven'
  BY <1>1, <1>2, <1>3
<1>4. ASSUME NEW v \in Nodes, NEW d \in Defs, Begin(v, d), UNCHANGED <<held, clock, witness, joined>>
      PROVE  WitnessInv' /\ CoordinationProven'
  <2>1. PICK x \in Checks : /\ x = [at |-> "read", def |-> d, began |-> clock, refresh |-> FALSE]
                            /\ checks' = [checks EXCEPT ![v] = x]
    BY <1>4 DEF Begin, Checks, TypeOK
  <2>2. WitnessInv'
    BY <1>2, <1>4, <2>1, CheckBecomes
  <2>3. QED
    BY <1>0, <1>4, <2>2, MembershipStays
<1>5. ASSUME BootValidate PROVE WitnessInv' /\ CoordinationProven'
  <2>1. setup.own \in Defs /\ Node \in Nodes
    BY DEF TypeOK, Config, Nodes
  <2>2. QED
    BY <1>4, <1>5, <2>1 DEF BootValidate
<1>6. CASE Booting
  <2>1. BootValidate \/ UNCHANGED <<clock, checks, witness, joined>>
    <3>1. \A n \in Names : BootCapability(n) \/ BootHealth(n)
                                => UNCHANGED <<clock, checks, witness, joined>>
      BY DEF BootCapability, BootHealth
    <3>2. BootCapable \/ BootHealthy \/ BootAlone => UNCHANGED <<clock, checks, witness, joined>>
      BY DEF BootCapable, BootHealthy, BootAlone
    <3>3. QED
      BY <1>6, <3>1, <3>2 DEF Booting
  <2>2. QED
    BY <1>3, <1>5, <2>1
<1>7. ASSUME NEW v \in Peers, NEW d \in Defs, PeerValidate(v, d)
      PROVE  WitnessInv' /\ CoordinationProven'
  BY <1>4, <1>7 DEF PeerValidate, Nodes
<1>8. ASSUME NEW v \in Nodes, ReadWitness(v) PROVE WitnessInv' /\ CoordinationProven'
  <2>1. PICK x \in Checks : x = checks[v] /\ checks[v] # None /\ x.at = "read"
    BY <1>8 DEF ReadWitness, TypeOK
  <2>2. x.def \in Defs /\ x.began \in Nat /\ x.began <= clock
    BY <2>1 DEF Checks, WitnessInv
  <2>3. UNCHANGED <<held, clock, witness>>
    BY <1>8 DEF ReadWitness
  <2> DEFINE told == /\ world[x.def].put # "fails" /\ witness[x.def] # None
                     /\ witness_is_fresh(witness[x.def], x.began)
  <2>4. CASE told
    <3>0. Passes(v)
      BY <1>8, <2>1, <2>4 DEF ReadWitness
    <3>1. held[x.def] # None /\ witness[x.def] <= held[x.def]
      BY <2>2, <2>4 DEF WitnessInv
    <3>2. x.began - witness[x.def] < WitnessAge
      BY <2>4 DEF witness_is_fresh
    <3>3. held[x.def] \in Nat /\ witness[x.def] \in Nat /\ WitnessAge \in Nat
      BY <2>2, <2>4, <3>1 DEF TypeOK, HealthConstants
    <3>4. x.began - held[x.def] < WitnessAge
      BY <2>2, <3>1, <3>2, <3>3
    <3>5. CoordinationProven'
      BY <2>1, <2>3, <3>0, <3>1, <3>4, PassingProven
    <3>6. \A u \in Nodes : checks'[u] \in {checks[u], None}
      BY <3>0 DEF Passes, TypeOK
    <3>7. QED
      BY <1>0, <1>2, <2>3, <3>5, <3>6, WitnessStays
  <2>5. CASE ~told
    <3>1. PICK f \in BOOLEAN : checks' = [checks EXCEPT ![v].at = "probe", ![v].refresh = f]
      BY <1>8, <2>1, <2>5 DEF ReadWitness
    <3>2. PICK y \in Checks : y = [x EXCEPT !.at = "probe", !.refresh = f]
      BY DEF Checks
    <3>3. checks' = [checks EXCEPT ![v] = y] /\ y.began = x.began /\ y.at = "probe"
      BY <2>1, <3>1, <3>2 DEF TypeOK, Checks
    <3>4. WitnessInv'
      BY <2>2, <2>3, <3>3, CheckBecomes
    <3>5. joined' = joined
      BY <1>8, <2>1, <2>5 DEF ReadWitness
    <3>6. QED
      BY <1>0, <3>4, <3>5, MembershipStays
  <2>6. QED
    BY <2>4, <2>5
<1>9. ASSUME NEW v \in Nodes, ProbeBucket(v) PROVE WitnessInv' /\ CoordinationProven'
  <2>1. PICK x \in Checks : x = checks[v] /\ checks[v] # None
    BY <1>9 DEF ProbeBucket, TypeOK
  <2>2. x.def \in Defs /\ x.began \in Nat /\ x.began <= clock
    BY <2>1 DEF Checks, WitnessInv
  <2>3. UNCHANGED <<held, clock, witness, joined>>
    BY <1>9 DEF ProbeBucket, Fails
  <2>4. CASE Fails(v)
    <3>1. \A u \in Nodes : checks'[u] \in {checks[u], None}
      BY <2>4 DEF Fails, TypeOK
    <3>2. QED
      BY <1>1, <1>2, <2>3, <3>1
  <2>5. CASE ~Fails(v)
    <3>1. world[x.def].put = "enforces" /\ checks' = [checks EXCEPT ![v].at = "write"]
      BY <1>9, <2>1, <2>5 DEF ProbeBucket, CasVerdict
    <3>2. held[x.def] = clock /\ clock \in Nat
      BY <2>2, <3>1 DEF HeldInv, Enforcing, TypeOK
    <3>3. held[x.def] # None
      BY <3>2 DEF HealthConstants
    <3>4. PICK y \in Checks : y = [x EXCEPT !.at = "write"]
      BY DEF Checks
    <3>5. checks' = [checks EXCEPT ![v] = y] /\ y.began = x.began /\ y.def = x.def
      BY <2>1, <3>1, <3>4 DEF TypeOK, Checks
    <3>6. WitnessInv'
      BY <2>2, <2>3, <3>2, <3>3, <3>5, CheckBecomes
    <3>7. QED
      BY <1>0, <2>3, <3>6, MembershipStays
  <2>6. QED
    BY <2>4, <2>5
<1>10. ASSUME NEW v \in Nodes, WriteWitness(v) PROVE WitnessInv' /\ CoordinationProven'
  <2>1. PICK x \in Checks : x = checks[v] /\ checks[v] # None /\ x.at = "write"
    BY <1>10 DEF WriteWitness, TypeOK
  <2>2. x.def \in Defs /\ x.began \in Nat /\ held[x.def] # None /\ x.began <= held[x.def]
    BY <2>1 DEF Checks, WitnessInv
  <2>3. UNCHANGED <<held, clock>> /\ Passes(v)
    BY <1>10 DEF WriteWitness
  <2>4. held[x.def] \in Nat /\ WitnessAge \in Nat \ {0}
    BY <2>2 DEF TypeOK, HealthConstants
  <2>5. x.began - held[x.def] < WitnessAge
    BY <2>2, <2>4
  <2>6. CoordinationProven'
    BY <2>1, <2>2, <2>3, <2>5, PassingProven
  <2>7. \A u \in Nodes : checks'[u] \in {checks[u], None}
    BY <2>3 DEF Passes, TypeOK
  <2>8. \A d \in Defs : witness'[d] = witness[d] \/ (d = x.def /\ witness'[d] = x.began)
    BY <1>10, <2>1 DEF WriteWitness, TypeOK
  <2>9. WitnessInv'
    BY <2>2, <2>3, <2>7, <2>8 DEF WitnessInv
  <2>10. QED
    BY <2>6, <2>9
<1>11. CASE Validating
  BY <1>7, <1>8, <1>9, <1>10, <1>11 DEF Validating
<1>12. ASSUME Tick PROVE WitnessInv' /\ CoordinationProven'
  <2>1. clock <= clock' /\ UNCHANGED <<checks, witness, joined>>
    BY <1>12 DEF Tick, TypeOK
  <2>2. QED
    BY <1>1, <2>1
<1>13. ASSUME Restart PROVE WitnessInv' /\ CoordinationProven'
  <2>1. \A u \in Nodes : checks'[u] \in {checks[u], None}
    BY <1>13 DEF Restart, TypeOK
  <2>2. QED
    BY <1>1, <1>2, <1>13, <2>1 DEF Restart
<1>14. ASSUME NEW d \in Defs, NEW w \in Conditions, Change(d, w)
       PROVE  WitnessInv' /\ CoordinationProven'
  BY <1>3, <1>14 DEF Change
<1>15. CASE UNCHANGED vars
  BY <1>3, <1>15 DEF vars
<1>16. QED
  BY <1>3, <1>6, <1>11, <1>12, <1>13, <1>14, <1>15, Frames DEF Next, Surroundings

-----------------------------------------------------------------------------
(* The configuration.                                                      *)

\* A configuration that is guarded stays so.
LEMMA SetupBecomes ==
  ASSUME HealthConstants, Grown, NEW e \in Config, NEW T, setup' = e, moved' = T, ~Duplicated(e),
         Guarded(e, T)
  PROVE  SetupInv'
<1>1. \A b \in Keys : ClientWritable(e, b) => DefOf(e, e.route[b]) \in Defs
  BY Definitions DEF ClientWritable
<1>2. \A b \in Keys : ClientWritable(e, b) /\ Proven(DefOf(e, e.route[b]))
                        => Proven(DefOf(e, e.route[b]))'
  BY <1>1 DEF Grown
<1>3. Guarded(e, T)'
  BY <1>2 DEF Guarded
<1>4. QED
  BY <1>3 DEF SetupInv

\* It does so while nobody touches it.
LEMMA SetupStays ==
  ASSUME HealthConstants, IInv, Grown, UNCHANGED <<setup, moved>>, Past' => Past
  PROVE  SetupInv'
<1>1. CASE ~Past
  BY <1>1 DEF SetupInv
<1>2. CASE Past
  <2>1. PICK e \in Config, T \in SUBSET Keys : setup = e /\ moved = T
    BY DEF IInv, TypeOK
  <2>2. ~Duplicated(e) /\ Guarded(e, T)
    BY <1>2, <2>1 DEF IInv, SetupInv
  <2>3. QED
    BY <2>1, <2>2, SetupBecomes
<1>3. QED
  BY <1>1, <1>2

\* A configuration whose gates have all been passed is guarded.
LEMMA VettedGuarded ==
  ASSUME NEW c \in Config, ~check_fatal(c), \A n \in ToVet(c) : Proven(DefOf(c, n)), NEW S
  PROVE  ~Duplicated(c) /\ Guarded(c, S)
<1>1. ~Duplicated(c) /\ \A b \in Keys : c.route[b] \in Named(c) \cup {Default, None}
  BY DEF check_fatal
<1>2. ASSUME c.multi, NEW b \in Keys, ClientWritable(c, b) PROVE Proven(DefOf(c, c.route[b]))
  <2>1. c.route[b] \in ToVet(c)
    BY <1>2 DEF ToVet, client_writable_s3_backends
  <2>2. QED
    BY <2>1
<1>3. QED
  BY <1>1, <1>2 DEF Guarded

\* New routes are those of a migration; the others are as well guarded as they were.
LEMMA RoutesGuarded ==
  ASSUME HealthConstants, NEW c \in Config, NEW e \in Config, NEW S, NEW T,
         ~Duplicated(c), Guarded(c, S), e.list = c.list, e.multi = c.multi,
         \A b \in Keys \ T : \/ e.route[b] = None
                             \/ /\ b \notin S /\ e.route[b] = c.route[b]
                                /\ b \in e.only <=> b \in c.only
  PROVE  ~Duplicated(e) /\ Guarded(e, T)
<1>1. ~Duplicated(e) /\ Named(e) = Named(c) /\ None \notin Named(e)
  BY Definitions DEF Duplicated, Named, HealthConstants, Names
<1>2. \A n \in Names : n # Default => DefOf(e, n) = DefOf(c, n)
  BY DEF DefOf
<1>3. \A b \in Keys \ T : e.route[b] \in Named(e) \cup {Default, None}
  BY <1>1 DEF Guarded
<1>4. ASSUME e.multi, NEW b \in Keys \ T, ClientWritable(e, b) PROVE Proven(DefOf(e, e.route[b]))
  <2>1. e.route[b] \in Named(e) \ {Default} /\ e.route[b] # None
    BY <1>1, <1>4 DEF ClientWritable
  <2>2. b \in Keys \ S /\ e.route[b] = c.route[b] /\ (b \in e.only <=> b \in c.only)
    BY <2>1
  <2>3. e.route[b] \in Names
    BY <1>1, <2>1, Definitions DEF Names
  <2>4. DefOf(e, e.route[b]) = DefOf(c, c.route[b])
    BY <1>2, <2>1, <2>2, <2>3
  <2>5. ClientWritable(c, b)
    BY <1>1, <1>4, <2>2, <2>4 DEF ClientWritable
  <2>6. QED
    BY <1>4, <2>2, <2>4, <2>5 DEF Guarded
<1>5. QED
  BY <1>1, <1>3, <1>4 DEF Guarded

\* Another list of backends, without duplicates, that agrees with the first one on what the
\* buckets are routed to.
LEMMA ListGuarded ==
  ASSUME HealthConstants, NEW c \in Config, NEW e \in Config, NEW S,
         ~Duplicated(c), Guarded(c, S), ~Duplicated(e),
         e.route = c.route, e.only = c.only, e.multi = c.multi,
         \A b \in Keys, i \in DOMAIN c.list :
            c.list[i].name = c.route[b] => \E j \in DOMAIN e.list : e.list[j] = c.list[i]
  PROVE  Guarded(e, S)
<1>1. ASSUME NEW b \in Keys \ S, c.route[b] \in Named(c)
      PROVE  c.route[b] \in Named(e) /\ DefOf(e, c.route[b]) = DefOf(c, c.route[b])
  <2>1. PICK i \in DOMAIN c.list : c.list[i].name = c.route[b]
    BY <1>1 DEF Named
  <2>2. PICK j \in DOMAIN e.list : e.list[j] = c.list[i]
    BY <2>1
  <2>3. DefOf(c, c.route[b]) = c.list[i].def /\ DefOf(e, c.route[b]) = e.list[j].def
    BY <2>1, <2>2, Lookup
  <2>4. QED
    BY <2>1, <2>2, <2>3 DEF Named
<1>2. \A b \in Keys \ S : e.route[b] \in Named(e) \cup {Default, None}
  BY <1>1 DEF Guarded
<1>3. Named(e) \subseteq Backends /\ Default \notin Backends /\ None \notin Backends
  BY Definitions DEF HealthConstants, Names
<1>4. ASSUME e.multi, NEW b \in Keys \ S, ClientWritable(e, b) PROVE Proven(DefOf(e, e.route[b]))
  <2>1. e.route[b] \in Named(e) /\ e.route[b] # Default /\ e.route[b] # None
    BY <1>3, <1>4 DEF ClientWritable
  <2>2. c.route[b] \in Named(c)
    BY <2>1 DEF Guarded
  <2>3. DefOf(e, e.route[b]) = DefOf(c, c.route[b])
    BY <1>1, <2>2
  <2>4. ClientWritable(c, b)
    BY <1>4, <2>1, <2>2, <2>3 DEF ClientWritable
  <2>5. QED
    BY <1>4, <2>3, <2>4 DEF Guarded
<1>5. QED
  BY <1>2, <1>4 DEF Guarded

\* create_backend appends a name the configuration does not have.
LEMMA AppendGuarded ==
  ASSUME HealthConstants, NEW c \in Config, NEW e \in Config, NEW S, NEW r \in Listed,
         ~Duplicated(c), Guarded(c, S), e.list = Append(c.list, r), r.name \notin Named(c),
         e.route = c.route, e.only = c.only, e.multi = c.multi
  PROVE  ~Duplicated(e) /\ Guarded(e, S)
<1>0. c.list \in Seq(Listed)
  BY DEF Config
<1>1. /\ Len(c.list) \in Nat /\ DOMAIN c.list = 1..Len(c.list)
      /\ DOMAIN e.list = 1..(Len(c.list) + 1)
      /\ \A i \in 1..Len(c.list) : e.list[i] = c.list[i]
      /\ e.list[Len(c.list) + 1] = r
  BY <1>0
<1>2. \A i \in 1..Len(c.list) : c.list[i].name # r.name
  BY <1>1 DEF Named
<1>3. ASSUME NEW i \in DOMAIN e.list, NEW j \in DOMAIN e.list, i # j
      PROVE  e.list[i].name # e.list[j].name
  <2>1. CASE i \in 1..Len(c.list) /\ j \in 1..Len(c.list)
    BY <1>1, <1>3, <2>1 DEF Duplicated
  <2>2. CASE i = Len(c.list) + 1 \/ j = Len(c.list) + 1
    BY <1>1, <1>2, <1>3, <2>2
  <2>3. QED
    BY <1>1, <2>1, <2>2
<1>4. ~Duplicated(e)
  BY <1>3 DEF Duplicated
<1>5. \A i \in DOMAIN c.list : \E j \in DOMAIN e.list : e.list[j] = c.list[i]
  BY <1>1
<1>6. QED
  BY <1>4, <1>5, ListGuarded

\* delete_backend takes out a name no bucket is routed to.
LEMMA RemoveGuarded ==
  ASSUME HealthConstants, NEW c \in Config, NEW e \in Config, NEW S, NEW p \in DOMAIN c.list,
         ~Duplicated(c), Guarded(c, S), \A b \in Keys : c.route[b] # c.list[p].name,
         e.list = [i \in 1..(Len(c.list) - 1) |-> c.list[IF i < p THEN i ELSE i + 1]],
         e.route = c.route, e.only = c.only, e.multi = c.multi
  PROVE  ~Duplicated(e) /\ Guarded(e, S)
<1>1. Len(c.list) \in Nat /\ DOMAIN c.list = 1..Len(c.list) /\ DOMAIN e.list = 1..(Len(c.list) - 1)
  BY Listings
<1> DEFINE from(i) == IF i < p THEN i ELSE i + 1
<1>2. \A i \in DOMAIN e.list : e.list[i] = c.list[from(i)] /\ from(i) \in DOMAIN c.list
  BY <1>1
<1>3. \A i, j \in DOMAIN e.list : i # j => from(i) # from(j)
  BY <1>1
<1>4. ~Duplicated(e)
  BY <1>2, <1>3 DEF Duplicated
<1>5. ASSUME NEW b \in Keys, NEW i \in DOMAIN c.list, c.list[i].name = c.route[b]
      PROVE  \E j \in DOMAIN e.list : e.list[j] = c.list[i]
  <2>1. i # p
    BY <1>5
  <2>2. CASE i < p
    <3>1. i \in DOMAIN e.list /\ from(i) = i
      BY <1>1, <2>2
    <3>2. QED
      BY <1>2, <3>1
  <2>3. CASE p < i
    <3>1. i - 1 \in DOMAIN e.list /\ from(i - 1) = i
      BY <1>1, <2>3
    <3>2. QED
      BY <1>2, <3>1
  <2>4. QED
    BY <1>1, <2>1, <2>2, <2>3
<1>6. QED
  BY <1>4, <1>5, ListGuarded

\* The configuration of a process past its first gate is guarded after every step.
LEMMA NextSetup ==
  ASSUME HealthConstants, IInv, [Next]_vars, TypeOK' PROVE SetupInv'
<1> USE DEF IInv
<1>0. Grown
  BY NextGrown
<1>1. PICK c \in Config, e \in Config, S \in SUBSET Keys, T \in SUBSET Keys :
         setup = c /\ setup' = e /\ moved = S /\ moved' = T
  BY DEF TypeOK
<1>2. ASSUME boot.at = "up" PROVE ~Duplicated(c) /\ Guarded(c, S)
  BY <1>1, <1>2 DEF SetupInv, Past
<1>3. ASSUME ~Duplicated(e), Guarded(e, T) PROVE SetupInv'
  BY <1>0, <1>1, <1>3, SetupBecomes
<1>4. ASSUME UNCHANGED <<setup, moved>>, boot' = boot PROVE SetupInv'
  BY <1>0, <1>4, SetupStays DEF Past
<1>5. ASSUME BootCapable PROVE SetupInv'
  <2>1. ~check_fatal(c) /\ c = e /\ \A n \in ToVet(c) : Proven(DefOf(c, n))
    BY <1>1, <1>5 DEF BootCapable, BootInv
  <2>2. QED
    BY <1>3, <2>1, VettedGuarded
<1>6. CASE Booting
  <2>1. CASE BootCapable
    BY <1>5, <2>1
  <2>2. ASSUME NEW n \in Names, BootCapability(n) PROVE SetupInv'
    <3>1. boot'.at \in {"capability", "exit"}
      BY <2>2 DEF BootCapability, Goto, TypeOK, Stages
    <3>2. QED
      BY <3>1 DEF SetupInv, Past
  <2>3. ASSUME NEW n \in Names, BootHealth(n) PROVE SetupInv'
    <3>1. Past /\ UNCHANGED <<setup, moved>>
      BY <2>3 DEF BootHealth, Past
    <3>2. QED
      BY <1>0, <3>1, SetupStays
  <2>4. CASE BootHealthy \/ BootAlone
    <3>1. Past /\ UNCHANGED <<setup, moved>>
      BY <2>4 DEF BootHealthy, BootAlone, Past
    <3>2. QED
      BY <1>0, <3>1, SetupStays
  <2>5. CASE BootValidate
    BY <1>4, <2>5 DEF BootValidate
  <2>6. QED
    BY <1>6, <2>1, <2>2, <2>3, <2>4, <2>5 DEF Booting
<1>7. CASE Validating
  <2>1. UNCHANGED <<setup, moved>>
    BY <1>7, Frames
  <2>2. ASSUME NEW v \in Nodes, ReadWitness(v) \/ ProbeBucket(v) \/ WriteWitness(v)
        PROVE  SetupInv'
    <3>1. CASE v = Node
      <4>1. boot.at \in {"lease", "sync"}
        BY <2>2, <3>1 DEF ReadWitness, ProbeBucket, WriteWitness, BootInv
      <4>2. QED
        BY <1>0, <2>1, <4>1, SetupStays DEF Past
    <3>2. CASE v # Node
      <4>1. boot' = boot
        BY <2>2, <3>2 DEF ReadWitness, ProbeBucket, WriteWitness, Passes, Fails
      <4>2. QED
        BY <1>4, <2>1, <4>1
    <3>3. QED
      BY <3>1, <3>2
  <2>3. ASSUME NEW v \in Peers, NEW d \in Defs, PeerValidate(v, d) PROVE SetupInv'
    BY <1>4, <2>1, <2>3 DEF PeerValidate
  <2>4. QED
    BY <1>7, <2>2, <2>3 DEF Validating
<1>8. ASSUME NEW t \in Admins, Applying(t) PROVE SetupInv'
  <2>1. CASE ApplyCommit(t)
    <3>1. PICK x \in Applies : x = chores[t]
      <4>1. chores[t] \in Chores /\ chores[t].kind = "apply"
        BY <2>1 DEF ApplyCommit, TypeOK, Tasks
      <4>2. QED
        BY <4>1, Kinds
    <3>2. Vouched(x) /\ x.at = "health" /\ e = x.new
      BY <1>1, <2>1, <3>1 DEF ApplyCommit, ChoreInv, Sound, Tasks
    <3>3. ~check_fatal(e) /\ \A n \in ToVet(e) : Proven(DefOf(e, n))
      BY <3>2 DEF Vouched
    <3>4. QED
      BY <1>3, <3>3, VettedGuarded
  <2>2. CASE ~ApplyCommit(t)
    <3>1. UNCHANGED <<setup, moved, boot>>
      BY <1>8, <2>2 DEF Applying, ApplyCapability, ApplyHealth
    <3>2. QED
      BY <1>4, <3>1
  <2>3. QED
    BY <2>1, <2>2
<1>9. ASSUME NEW t \in Admins, Working(t) PROVE SetupInv'
  <2>0. boot.at = "up" /\ boot' = boot /\ ~Duplicated(c) /\ Guarded(c, S)
    BY <1>2, <1>9, UpOnly, Frames
  <2>1. PICK x \in Chores : x = chores[t]
    BY DEF TypeOK, Tasks
  <2>2. CASE CreateCommit(t)
    <3>1. x \in Creates
      BY <2>1, <2>2, Kinds DEF CreateCommit
    <3>2. CASE setup' = setup
      BY <1>4, <2>0, <2>2, <3>2 DEF CreateCommit
    <3>3. CASE setup' # setup
      <4> DEFINE r == [name |-> x.name, def |-> x.def]
      <4>1. r \in Listed
        BY <3>1 DEF Creates, Listed
      <4>2. setup' = WithBackend(x) /\ x.name \notin Named(c) /\ T = S
        BY <1>1, <2>1, <2>2, <3>3 DEF CreateCommit
      <4>3. /\ e.list = Append(c.list, r)
            /\ e.route = c.route /\ e.only = c.only /\ e.multi = c.multi
        BY <1>1, <4>2 DEF WithBackend, Config
      <4>4. r.name \notin Named(c)
        BY <4>2
      <4>5. QED
        BY <1>3, <2>0, <4>1, <4>2, <4>3, <4>4, AppendGuarded
    <3>4. QED
      BY <3>2, <3>3
  <2>3. CASE MigrateStage(t)
    <3>1. e = Staged(x.target) /\ T = S \cup {Staging}
      BY <1>1, <2>1, <2>3 DEF MigrateStage
    <3>2. /\ e.list = c.list /\ e.multi = c.multi
          /\ \A b \in Keys : b # Staging => /\ e.route[b] = c.route[b]
                                            /\ b \in e.only <=> b \in c.only
      BY <1>1, <3>1 DEF Staged, Config
    <3>3. QED
      BY <1>3, <2>0, <3>1, <3>2, RoutesGuarded
  <2>4. CASE MigrateFlip(t)
    <3>1. x \in Migrates
      BY <2>1, <2>4, Kinds DEF MigrateFlip
    <3>2. x.bucket \in Keys /\ x.bucket # Staging /\ Staging \in Keys
      BY <3>1 DEF Migrates, Keys, HealthConstants
    <3>3. e = Flipped(x.bucket, x.target) /\ T = (S \cup {x.bucket}) \ {Staging}
      BY <1>1, <2>1, <2>4 DEF MigrateFlip
    <3>4. /\ e.list = c.list /\ e.multi = c.multi /\ e.only = c.only
          /\ e.route[Staging] = None
          /\ \A b \in Keys : b # Staging /\ b # x.bucket => e.route[b] = c.route[b]
      BY <1>1, <3>2, <3>3 DEF Flipped, Config
    <3>5. \A b \in Keys \ T : \/ e.route[b] = None
                              \/ /\ b \notin S /\ e.route[b] = c.route[b]
                                 /\ b \in e.only <=> b \in c.only
      BY <3>3, <3>4
    <3>6. QED
      BY <1>3, <2>0, <3>4, <3>5, RoutesGuarded
  <2>5. CASE MigrateUnwind(t)
    <3>1. e = Unstaged /\ T = S
      BY <1>1, <2>1, <2>5 DEF MigrateUnwind
    <3>2. /\ e.list = c.list /\ e.multi = c.multi /\ e.only = c.only
          /\ e.route[Staging] = None
          /\ \A b \in Keys : b # Staging => e.route[b] = c.route[b]
      BY <1>1, <3>1 DEF Unstaged, Config, Keys
    <3>3. \A b \in Keys \ T : \/ e.route[b] = None
                              \/ /\ b \notin S /\ e.route[b] = c.route[b]
                                 /\ b \in e.only <=> b \in c.only
      BY <3>1, <3>2
    <3>4. QED
      BY <1>3, <2>0, <3>2, <3>3, RoutesGuarded
  <2>6. CASE ApplyAbandoned(t) \/ CreateProbe(t) \/ TestProbe(t) \/ MigrateGate(t)
    BY <1>4, <2>0, <2>6 DEF ApplyAbandoned, CreateProbe, TestProbe, MigrateGate
  <2>7. QED
    BY <1>9, <2>2, <2>3, <2>4, <2>5, <2>6 DEF Working
<1>10. ASSUME NEW n \in Backends, Delete(n) PROVE SetupInv'
  <2>0. boot.at = "up" /\ ~Duplicated(c) /\ Guarded(c, S)
    BY <1>2, <1>10, UpOnly
  <2>1. PICK p : p = CHOOSE i \in DOMAIN c.list : c.list[i].name = n
    OBVIOUS
  <2>2. n \in Named(c)
    BY <1>1, <1>10 DEF Delete
  <2>3. p \in DOMAIN c.list /\ c.list[p].name = n
    BY <2>1, <2>2 DEF Named
  <2>4. T = S /\ \A b \in Keys : c.route[b] # n
    BY <1>1, <1>10 DEF Delete
  <2>5. /\ e.list = [i \in 1..(Len(c.list) - 1) |-> c.list[IF i < p THEN i ELSE i + 1]]
        /\ e.route = c.route /\ e.only = c.only /\ e.multi = c.multi
    BY <1>1, <1>10, <2>1 DEF Delete, WithoutBackend, Config
  <2>6. QED
    BY <1>3, <2>0, <2>3, <2>4, <2>5, RemoveGuarded
<1>11. ASSUME Restart PROVE SetupInv'
  BY <1>11 DEF Restart, Starting, SetupInv, Past
<1>12. CASE UNCHANGED vars \/ Tick
  BY <1>4, <1>12 DEF vars, Tick
<1>13. ASSUME NEW d \in Defs, NEW w \in Conditions, Change(d, w) PROVE SetupInv'
  BY <1>4, <1>13 DEF Change
<1>14. ASSUME NEW t \in Admins, Asking(t) PROVE SetupInv'
  BY <1>4, <1>14, Frames
<1>15. ASSUME NEW t \in Loops, Looping(t) PROVE SetupInv'
  BY <1>4, <1>15, Frames
<1>16. QED
  BY <1>6, <1>7, <1>8, <1>9, <1>10, <1>11, <1>12, <1>13, <1>14, <1>15 DEF Next, Surroundings

-----------------------------------------------------------------------------
(* The theorems.                                                           *)

\* A process that has just started.
LEMMA InitInv ==
  ASSUME HealthConstants, Init PROVE IInv
<1>1. First \in Config /\ world \in [Defs -> Service]
  BY DEF Init, HealthConstants
<1>2. boot \in Stages /\ boot.at \in {"exit", "capability"} /\ boot.left = ToVet(setup)
      /\ (boot.at = "capability" => ~check_fatal(setup))
  <2>1. ToVet(First) \in SUBSET Names
    <3>1. \A i \in DOMAIN First.list : First.list[i].name \in Backends
      BY <1>1, Listings
    <3>2. QED
      BY <1>1, <3>1, Vettable DEF Named, Names
  <2>2. QED
    BY <2>1 DEF Init, Starting, Stages
<1>3. \A t \in Tasks : chores[t] = Idle
  BY DEF Init
<1>4. TypeOK
  <2>1. Ails(world) \subseteq Defs /\ held \in [Defs -> Nat \cup {None}]
    BY DEF Init, Ails
  <2>2. chores \in [Tasks -> Chores]
    BY DEF Init, Chores
  <2>3. QED
    BY <1>1, <1>2, <2>1, <2>2 DEF Init, TypeOK, NoCaches
<1>5. HealthInv /\ CapabilityInv
  BY DEF Init, HealthInv, CapabilityInv, NoCaches
<1>6. HeldInv
  BY DEF Init, HeldInv, HealthConstants
<1>7. BootInv
  BY <1>2, <1>3 DEF BootInv, Quiet, Init, Nodes
<1>8. SetupInv
  BY <1>2 DEF SetupInv, Past
<1>9. ChoreInv
  BY <1>3 DEF ChoreInv, Sound, Idle, Applies, Migrates
<1>10. WitnessInv /\ CoordinationProven
  BY DEF Init, WitnessInv, CoordinationProven
<1>11. QED
  BY <1>4, <1>5, <1>6, <1>7, <1>8, <1>9, <1>10 DEF IInv

\* Every step keeps the invariant.
LEMMA NextInv ==
  ASSUME HealthConstants, IInv, [Next]_vars PROVE IInv'
<1>1. TypeOK'
  BY NextTypes
<1>2. QED
  BY <1>1, NextHealth, NextHeld, NextCapability, NextBoot, NextSetup, NextChores, NextWitness
  DEF IInv

\* The invariant says that the gates are sound.
LEMMA Gates ==
  ASSUME HealthConstants, IInv PROVE GatesSound
<1> USE DEF IInv
<1>1. HonestGate
  <2> SUFFICES ASSUME NEW b \in Buckets, TurnedAway(b),
                      setup.list = <<>> \/ setup.route[b] \in Backends
               PROVE  EngineDef(setup, b) \in ailed
    BY DEF HonestGate
  <2> DEFINE n == GateName(b)
             d == DefOf(setup, n)
  <2>1. n \in Names
    <3>1. \A i \in DOMAIN setup.list : setup.list[i].name \in Backends
      BY Listings DEF TypeOK
    <3>2. QED
      BY <3>1 DEF TurnedAway, Named, Names
  <2>2. health[n] # None /\ health[n].def = d /\ is_gating(health[n].verdict)
    BY DEF TurnedAway, Cached, is_gating, HealthConstants, Verdicts
  <2>3. d \in ailed
    BY <2>1, <2>2 DEF HealthInv
  <2>4. EngineDef(setup, b) = d
    <3>1. CASE setup.list = <<>>
      <4>1. Named(setup) = {}
        BY <3>1 DEF Named
      <4>2. n = Default
        BY <4>1 DEF TurnedAway
      <4>3. QED
        BY <3>1, <4>2 DEF EngineDef, DefOf
    <3>2. CASE setup.list # <<>>
      <4>1. setup.route[b] # None
        BY <3>2 DEF HealthConstants, Names
      <4>2. QED
        BY <3>2, <4>1 DEF EngineDef, GateName
    <3>3. QED
      BY <3>1, <3>2
  <2>5. QED
    BY <2>3, <2>4
<1>2. WritesGuarded
  BY DEF WritesGuarded, SetupInv, Guarded, Past, Up
<1>3. QED
  BY <1>1, <1>2 DEF GatesSound

\* The variables hold what the code's types say, whatever is configured, probed and restarted.
THEOREM TypeCorrect == Spec => []TypeOK
<1>1. Init => IInv
  BY InitInv, HealthConstants
<1>2. IInv /\ [Next]_vars => IInv'
  BY NextInv, HealthConstants
<1>3. IInv => TypeOK
  BY DEF IInv
<1>4. QED
  BY <1>1, <1>2, <1>3, PTL DEF Spec

\* A bucket is closed only for a backend that could have failed its probe, a serving node has
\* client-writable buckets only on backends that enforced conditional writes or could not be
\* told about, and it coordinates through a bucket that enforced them recently.
THEOREM GatesAreSound == Spec => []GatesSound
<1>1. Init => IInv
  BY InitInv, HealthConstants
<1>2. IInv /\ [Next]_vars => IInv'
  BY NextInv, HealthConstants
<1>3. IInv => GatesSound
  BY Gates, HealthConstants
<1>4. QED
  BY <1>1, <1>2, <1>3, PTL DEF Spec
=============================================================================
