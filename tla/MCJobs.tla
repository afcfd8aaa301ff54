------------------------------- MODULE MCJobs -------------------------------
(* The background jobs in one run, each in parts of its own: the parity    *)
(* audit (repeated audits over changing buckets; two audits with every way *)
(* the job can end), the lifecycle rules by age, with every way a run can  *)
(* stop, the maintenance jobs (that all three kinds come to an end),       *)
(* and the leases that admit the runs of a rule (a scheduler on the S3     *)
(* lease beside a run-now; a scheduler, two run-nows and a deletion on the *)
(* lease of one database).                                                 *)
(* A part leaves the variables of the other jobs at None.                  *)
EXTENDS Naturals

CONSTANTS a, b, sched, node, Parts, None

VARIABLES part,
          rule, dst, trouble, writes, jobs, now, obj, row, faults,      \* shared
          src, top, busy, cache, cancels, task,                         \* Parity
          cursor, scope, lease, paused, run, maint,                     \* Lifecycle
          disk, ref, enc, conf, file, gate, job, w, writer, acked, pages, migrates,
          applies, stalls, crashes,                                     \* Maintenance
          puts, up, running, exists, pc, inc, seen, at, held, beat, alive, deleting  \* RuleLease

ParityVars == <<src, top, busy, cache, cancels, task>>
LifeVars == <<cursor, scope, lease, paused, run, maint>>
MaintVars == <<disk, ref, enc, conf, file, gate, job, w, writer, acked, pages, migrates,
               applies, stalls, crashes>>
LeaseVars == <<puts, up, running, exists, pc, inc, seen, at, held, beat, alive, deleting>>
Shared == <<rule, dst, trouble, writes, jobs, now, obj, row, faults>>
all == <<part, Shared, ParityVars, LifeVars, MaintVars, LeaseVars>>

-----------------------------------------------------------------------------
Delta == [form |-> "delta", own |-> TRUE, parts |-> 0]
Foreign == [form |-> "pass", own |-> FALSE, parts |-> 2]
R(auth, conflict, deletes, max) ==
    [auth |-> auth, crypt |-> {}, conflict |-> conflict, deletes |-> deletes, max |-> max]
AllAlike(c) == 1                 \* every delta has the same size

V == INSTANCE Parity WITH
        Keys <- {1, 2}, Sidecars <- {2}, GlobbedOut <- {}, Kinds <- {Delta, Foreign},
        Starts <- {Delta}, Audits <- {a}, Revert <- FALSE, DeltaSize <- AllAlike,
        Rules <- {R({"src"}, "newer-wins", FALSE, 9), R({"dst"}, "content-diff", TRUE, 1)},
        MaxContent <- 2, MaxTrouble <- 0

J == INSTANCE Parity WITH
        Keys <- {1}, Sidecars <- {}, GlobbedOut <- {}, Kinds <- {Delta}, Starts <- {Delta},
        Audits <- {a, b}, Revert <- FALSE, DeltaSize <- AllAlike,
        Rules <- {R({"src", "dst"}, "content-diff", TRUE, 9)},
        MaxContent <- 1, MaxTrouble <- 1

AgeRule(action) == [action |-> action, age |-> 1, count |-> 0, minAge |-> 0, protect |-> 0]

G == INSTANCE Lifecycle WITH
        Keys <- {1, 2}, Skipped <- {}, Runs <- {a}, PageSize <- 1, Budget <- 1, Cap <- 3,
        Rules <- {AgeRule(act) : act \in {"delete", "move", "transition"}},
        MaxTime <- 2, MaxWrites <- 0, MaxTrouble <- 1, MaxScope <- 1, MaxMaint <- 1

S == INSTANCE Maintenance WITH
        Keys <- {1}, Writers <- {}, Unregistered <- {}, Budgets <- {1, 3},
        Kinds <- {"reencrypt", "backfill", "migrate"},
        MaxJobs <- 1, MaxWrites <- 0, MaxApplies <- 1, MaxFaults <- 1, MaxStalls <- 1,
        MaxCrashes <- 1, MaxTrouble <- 1

\* A scheduler on the S3 lease and two run-nows on the lease in the node's database; the
\* rule may go.
C == INSTANCE RuleLease WITH
        Nodes <- {node}, Scheds <- {sched}, Clicks <- {a, b},
        NodeOf <- [i \in {sched, a, b} |-> node],
        Shared <- TRUE, Deletable <- TRUE, Ttl <- 1, MaxTime <- 2, MaxPuts <- 1,
        MaxFaults <- 1

\* A scheduler and two run-nows on the lease in the node's database; the rule may go.
L == INSTANCE RuleLease WITH
        Nodes <- {node}, Scheds <- {sched}, Clicks <- {a, b},
        NodeOf <- [i \in {sched, a, b} |-> node],
        Shared <- FALSE, Deletable <- TRUE, Ttl <- 1, MaxTime <- 2, MaxPuts <- 0,
        MaxFaults <- 1

-----------------------------------------------------------------------------
NoParity == /\ src = None /\ top = None /\ busy = None /\ cache = None
            /\ cancels = None /\ task = None
NoLife == /\ cursor = None /\ scope = None /\ lease = None
          /\ paused = None /\ run = None /\ maint = None
NoMaint == /\ disk = None /\ ref = None /\ enc = None /\ conf = None /\ file = None
           /\ gate = None /\ job = None /\ w = None /\ writer = None /\ acked = None
           /\ pages = None /\ migrates = None /\ applies = None
           /\ stalls = None /\ crashes = None
NoLease == /\ puts = None /\ up = None /\ running = None /\ exists = None /\ pc = None /\ inc = None
           /\ seen = None /\ at = None /\ held = None /\ beat = None /\ alive = None
           /\ deleting = None
OnlyParity == /\ NoLife /\ NoMaint /\ NoLease /\ writes = None /\ jobs = None /\ now = None
              /\ obj = None /\ faults = None
OnlyLife == NoParity /\ NoMaint /\ NoLease /\ row = None /\ faults = None
OnlyMaint == /\ NoParity /\ NoLife /\ NoLease /\ rule = None /\ dst = None /\ trouble = None
             /\ now = None /\ obj = None /\ row = None
OnlyLease == /\ NoParity /\ NoLife /\ NoMaint /\ rule = None /\ dst = None /\ trouble = None
             /\ writes = None /\ jobs = None

JInit ==
    /\ part \in Parts
    /\ \/ part = "verdicts" /\ V!Init /\ OnlyParity
       \/ part = "audits" /\ J!Init /\ OnlyParity
       \/ part = "age" /\ G!Init /\ OnlyLife
       \/ part = "ends" /\ S!Init /\ OnlyMaint
       \/ part = "click" /\ C!Init /\ OnlyLease
       \/ part = "local" /\ L!Init /\ OnlyLease

InParity == UNCHANGED <<LifeVars, MaintVars, LeaseVars, writes, jobs, now, obj, faults, part>>
InLife == UNCHANGED <<ParityVars, MaintVars, LeaseVars, row, faults, part>>
InMaint == UNCHANGED <<ParityVars, LifeVars, LeaseVars, rule, dst, trouble, now, obj, row, part>>
InLease == UNCHANGED <<ParityVars, LifeVars, MaintVars, rule, dst, trouble, writes, jobs, part>>

JNext ==
    \/ part = "verdicts" /\ V!Next /\ InParity
    \/ part = "audits" /\ J!Next /\ InParity
    \/ part = "age" /\ G!Next /\ InLife
    \/ part = "ends" /\ S!Next /\ InMaint
    \/ part = "click" /\ C!Next /\ InLease
    \/ part = "local" /\ L!Next /\ InLease

JSpec ==
    /\ JInit /\ [][JNext]_all
    /\ WF_all(part = "age" /\ G!Work(a) /\ InLife)
    /\ SF_all(part = "age" /\ G!Start(a) /\ InLife)
    /\ WF_all(part = "age" /\ (G!ClearGate \/ G!Drained) /\ InLife)
    /\ []<>(paused # TRUE)
    /\ WF_all(part = "ends" /\ S!Work /\ InMaint)
    /\ WF_all(part = "ends" /\ S!Lapse /\ w.pc = "idle" /\ InMaint)

-----------------------------------------------------------------------------

\* What a lease admits, with run-nows, on either kind of lease: see LeaseSound.
RunsExclusive == /\ part = "click" => C!LeaseSound
                 /\ part = "local" => L!LeaseSound

\* What is begun gets done: the objects past an age rule's limit are deleted or moved, and
\* a maintenance job comes to an end, although runs stop at the page budget, are deferred
\* or redefined, fail, lose their lease or die.
Unfinished == \/ part = "age" /\ \E k \in {1, 2} : G!Due(k)
              \/ part = "ends" /\ S!Active(job)
JobsFinish == Unfinished ~> ~Unfinished
=============================================================================
