------------------------------- MODULE Node -------------------------------
(* What a node does beside serving requests, each in a part of its own: the *)
(* replication consumer, which turns events into copies and deletes; the    *)
(* dispatcher, which delivers events and prunes their table; the runs of a  *)
(* lifecycle rule that keeps the newest objects; its boots and changes of   *)
(* the password, which is the key of its database; the changes of its       *)
(* configuration; and the maintenance jobs on a bucket.  The variables of   *)
(* the dispatcher's part are those of EventOutbox; its table is empty in    *)
(* the other parts, and what belongs to them only is at None.               *)
EXTENDS EventOutbox

CONSTANTS Parts, None,
          Nodes, Clients, Keys, Policy, DeltaKeys, Seeded, DrainBatch, MaxOps,
          Ranked, Skipped, Runs, Rules, PageSize, Budget, Cap, MaxTime, MaxWrites, MaxTrouble,
          MaxScope, MaxMaint,
          Hashes, Admins, MaxBoots, MaxUsers, Failures, Blank,
          Editors, Edits, Installed, Users, Admin, MaxRequests, MaxCancels, MaxCrashes,
          Unregistered, Kinds, Budgets, MaxJobs, MaxApplies, MaxStalls

VARIABLES part,
          dst, file, req, writes, jobs, crashes,                           \* shared
          clock, src, outbox, client, lost, ops,                           \* EventConsumer
          rule, now, obj, scope, lease, paused, run, maint, trouble,       \* Lifecycle
          live, bak, discarded, env, used, phase, memory, hasDb, locked, created, boots, \* BootKey
          cfg, engine, prefix, chain, auth, users, lock, up, torn, requests,
          cancels,                                                         \* ConfigApply
          disk, ref, enc, conf, gate, job, w, writer, acked, pages, migrates, applies,
          stalls                                                           \* Maintenance

MirrorVars == <<clock, src, outbox, client, lost, ops>>
RetainVars == <<rule, now, obj, scope, lease, paused, run, maint, trouble>>
KeyVars == <<live, bak, discarded, env, used, phase, memory, hasDb, locked, created, boots>>
ApplyVars == <<cfg, engine, prefix, chain, auth, users, lock, up, torn, requests, cancels>>
MaintVars == <<disk, ref, enc, conf, gate, job, w, writer, acked, pages, migrates, applies,
               stalls>>
TableVars == <<rows, nextId, cursorAge, active, disp, sent, tried, purged>>
all == <<part, dst, file, req, writes, jobs, crashes, MirrorVars, RetainVars, KeyVars,
         ApplyVars, MaintVars, vars>>

-----------------------------------------------------------------------------
C == INSTANCE EventConsumer WITH History <- Seeded

K == INSTANCE Lifecycle WITH Keys <- Ranked

B == INSTANCE BootKey WITH MaxFaults <- Failures

P == INSTANCE ConfigApply WITH Clients <- Editors, Requests <- Edits, First <- Installed,
                            MaxFaults <- Failures

M == INSTANCE Maintenance WITH Keys <- Ranked, Writers <- Clients

Rule(count, minAge, protect) ==
    [action |-> "retain", age |-> 0, count |-> count, minAge |-> minAge, protect |-> protect]
RetainRules == {Rule(1, 0, 0), Rule(1, 1, 1)}

FirstConfig == [store |-> 0, public |-> {}, crypt |-> "proxy", key |-> 1, legacy |-> None,
                creds |-> 0, mode |-> "gui", iam |-> {}]
Request(door, edit) == [by |-> door, edit |-> edit]
AllEdits ==
    {Request("patch", [public |-> {1}]), Request("patch", [creds |-> None]),
     Request("section", [crypt |-> "none"]),
     Request("section", [key |-> 2, crypt |-> "proxy"]),
     Request("section", [mode |-> "declarative", iam |-> {2}]),
     Request("document", [public |-> {2}]), Request("document", [mode |-> "declarative"]),
     Request("mutate", [store |-> 1]), Request("strict", [store |-> 2]),
     Request("bucket", [store |-> 3])}

\* The parts are within what their theorems are proved for.
ASSUME NodeSettings == /\ Setting /\ C!Setting /\ K!Setting /\ B!Setting /\ P!Setting
                       /\ M!Setting

-----------------------------------------------------------------------------
NoMirror == /\ clock = None /\ src = None /\ outbox = None /\ client = None
            /\ lost = None /\ ops = None
NoRetain == /\ rule = None /\ now = None /\ obj = None /\ scope = None /\ lease = None
            /\ paused = None /\ run = None /\ maint = None /\ trouble = None
NoKey == /\ live = None /\ bak = None /\ discarded = None /\ env = None /\ used = None
         /\ phase = None /\ memory = None /\ hasDb = None /\ locked = None
         /\ created = None /\ boots = None
NoApply == /\ cfg = None /\ engine = None /\ prefix = None /\ chain = None /\ auth = None
           /\ users = None /\ lock = None /\ up = None /\ torn = None
           /\ requests = None /\ cancels = None
NoMaint == /\ disk = None /\ ref = None /\ enc = None /\ conf = None /\ gate = None
           /\ job = None /\ w = None /\ writer = None /\ acked = None /\ pages = None
           /\ migrates = None /\ applies = None /\ stalls = None
NoTable == /\ rows = [i \in Ids |-> NoRow] /\ active = FALSE
           /\ nextId = None /\ cursorAge = None /\ disp = None /\ sent = None
           /\ tried = None /\ purged = None
NoBucket == NoRetain /\ NoMaint /\ writes = None /\ jobs = None
NoAdmin == NoKey /\ NoApply /\ file = None /\ req = None /\ crashes = None
NoLoop == NoMirror /\ NoTable /\ dst = None /\ cursor = None /\ cons = None

NodeInit ==
    /\ part \in Parts
    /\ \/ part = "mirror" /\ C!Init /\ NoBucket /\ NoTable /\ NoAdmin
       \/ part = "outbox" /\ Init /\ NoMirror /\ NoBucket /\ NoAdmin /\ dst = None
       \/ part = "retain" /\ K!Init /\ NoMirror /\ NoTable /\ NoAdmin /\ NoMaint
                          /\ cons = None /\ faults = None
       \/ part = "key" /\ B!Init /\ NoLoop /\ NoBucket /\ NoApply /\ crashes = None
       \/ part = "apply" /\ P!Init /\ NoLoop /\ NoBucket /\ NoKey
       \/ part = "jobs" /\ M!Init /\ NoLoop /\ NoRetain /\ NoKey /\ NoApply /\ req = None

InMirror == UNCHANGED <<part, file, req, writes, jobs, crashes, RetainVars, KeyVars, ApplyVars,
                        MaintVars, TableVars>>
InTable == UNCHANGED <<part, dst, file, req, writes, jobs, crashes, MirrorVars, RetainVars,
                       KeyVars, ApplyVars, MaintVars>>
InRetain == UNCHANGED <<part, file, req, crashes, MirrorVars, KeyVars, ApplyVars, MaintVars,
                        TableVars, cons, faults>>
InKey == UNCHANGED <<part, dst, writes, jobs, crashes, MirrorVars, RetainVars, ApplyVars,
                     MaintVars, TableVars, cursor, cons>>
InApply == UNCHANGED <<part, dst, writes, jobs, MirrorVars, RetainVars, KeyVars, MaintVars,
                       TableVars, cursor, cons>>
InMaint == UNCHANGED <<part, dst, req, MirrorVars, RetainVars, KeyVars, ApplyVars, TableVars,
                       cursor, cons>>

NodeNext ==
    \/ part = "mirror" /\ C!Next /\ InMirror
    \/ part = "outbox" /\ Next /\ InTable
    \/ part = "retain" /\ K!Next /\ InRetain
    \/ part = "key" /\ B!Next /\ InKey
    \/ part = "apply" /\ P!Next /\ InApply
    \/ part = "jobs" /\ M!Next /\ InMaint

\* The consumer's loop, the clients' requests and the clock go on.  The dispatcher ends
\* every round and, while delivery is on, begins another: both follow from weak fairness
\* of its steps, of which a round has finitely many.
NodeSpec ==
    /\ NodeInit /\ [][NodeNext]_all
    /\ \A n \in Nodes : WF_all(part = "mirror" /\ C!Drain(n) /\ InMirror)
    /\ \A c \in Clients : WF_all(part = "mirror" /\ C!Enqueue(c) /\ InMirror)
    /\ []<>(part = "outbox" => disp.pc = "idle")
    /\ []<>(part = "outbox" => disp.pc # "idle" \/ ~active)
    /\ WF_all(part = "outbox" /\ Tick /\ InTable)

-----------------------------------------------------------------------------
\* A replica whose events are all consumed equals its source (event_consumer.rs).
SettledMirror == part = "mirror" => C!SettledMirror

\* What a retain-newest run deletes is never one of the newest objects to keep, although
\* clients upload and replace objects and runs overlap (lifecycle/worker.rs).
KeepsNewest == [][part = "retain" => K!NewestKept]_all

\* No boot, promotion, password change or crash loses a user of the database of record, the
\* one parked in .db.bak if there is one, and no boot serves from an empty user table beside
\* a backup it cannot open (startup.rs: init_config_db, promote_backup_db).
UsersKept == [][part = "key" => B!RecordKept /\ B!ParkedStaysLocked]_all

\* A change of the configuration touches what it names and loses no blanked secret, the key
\* that encrypts stays able to decrypt, and the configuration in memory, the engine and the
\* snapshots belong together after it (api/admin/config).
EditsKept == [][part = "apply" => P!EditsKept /\ P!KeyRetained /\ (P!AppliedTogether)']_all

\* No maintenance job loses an acknowledged write, and a job that ends as succeeded left
\* nothing of its kind to do (maintenance/worker.rs, migrate.rs, backfill.rs).
SweepSound == part = "jobs" => M!NoLostWrite /\ M!SweepComplete

\* No event is owed for ever: replicas that are behind their source catch up, and pending
\* rows are delivered or fail for good.
Owed == \/ part = "mirror" /\ C!Behind
        \/ part = "outbox" /\ Unresolved
EventsSettle == Owed ~> ~Owed
=============================================================================
