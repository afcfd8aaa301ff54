---------------------------- MODULE Maintenance ----------------------------
(***************************************************************************)
(* One-off maintenance jobs on a bucket (src/maintenance): re-encryption,  *)
(* metadata backfill and migration to another backend, the durable job row *)
(* they resume from, the write gate and its drain, and the admin calls     *)
(* that create and cancel them.  One process; a listing page is one key.   *)
(*                                                                         *)
(* An object is its content, the key it is encrypted under (0: plain) and  *)
(* the hash in its metadata (0: none).  "A" is the backend the bucket is   *)
(* on, "B" the migration's target.  Without its route the staging name is  *)
(* a bucket that does not exist: reads miss and writes fail.  Progress     *)
(* counters are left out but for the failures.  The node's own database    *)
(* takes what is written to it: a progress update that fails, which the    *)
(* worker logs and passes over, is left out.                               *)
(***************************************************************************)
EXTENDS Naturals, FiniteSets

CONSTANTS Keys,            \* numbered in listing order, from 1
          Writers,         \* concurrent requests
          Unregistered,    \* the writers that test the gate but do not register with it
          Kinds,           \* kinds of job: reencrypt, backfill, migrate
          Budgets,         \* page budgets (MAX_JOB_PAGES)
          MaxJobs, MaxWrites, MaxApplies, MaxFaults, MaxStalls, MaxCrashes,
          MaxTrouble,      \* bounds; the last one on the four before it together
          None

VARIABLES disk, ref,       \* the objects of each backend; the key of the reference blob
          enc,             \* the key of backend A's encryption mode
          conf, file,      \* the bucket's route and the two transient routes; as persisted
          gate,            \* MaintenanceGate.busy
          job,             \* the row of maintenance_jobs
          w,               \* the worker
          writer, acked,   \* requests; the last acknowledged content of each key
          pages,           \* the page budget
          jobs, writes, migrates, applies, faults, stalls, crashes

store == <<disk, ref, enc>>
config == <<conf, file>>
clients == <<writer, acked>>
counts == <<pages, jobs, writes, migrates, applies, faults, stalls, crashes>>
vars == <<store, config, gate, job, w, clients, counts>>

-----------------------------------------------------------------------------
Bounded == faults + stalls + crashes + applies < MaxTrouble
Fault == faults < MaxFaults /\ Bounded /\ faults' = faults + 1
NoFault == UNCHANGED faults
rest == <<pages, jobs, writes, migrates, applies, stalls, crashes>>   \* all counts but faults

Idle == [pc |-> "idle", phase |-> None, tok |-> 0, n |-> 0, resumed |-> FALSE,
         key |-> None, more |-> FALSE, eng |-> None, want |-> 0, obj |-> None,
         out |-> None, bad |-> 0]

NoJob == [status |-> "none", phase |-> None, tok |-> 0, lease |-> None,
          kind |-> None, drop |-> FALSE, bad |-> 0, key |-> 0]
Active(j) == j.status \in {"queued", "running", "cancelling"}

Quiet == [pc |-> "idle", key |-> None, c |-> None, eng |-> None]

Init ==
    /\ \E s \in SUBSET Keys, e \in {0, 1} :
         /\ disk = [A |-> [k \in Keys |-> IF k \in s THEN [c |-> 1, enc |-> e, sha |-> e]
                                          ELSE None],
                    B |-> [k \in Keys |-> None]]
         /\ ref = e
         /\ acked = [k \in Keys |-> IF k \in s THEN 1 ELSE 0]
    /\ enc = 1
    /\ conf = [bucket |-> "A", stage |-> FALSE, sweep |-> FALSE]
    /\ file = conf
    /\ gate = {} /\ job = NoJob /\ w = Idle
    /\ writer = [u \in Writers |-> Quiet]
    /\ pages \in Budgets
    /\ jobs = 0 /\ writes = 0 /\ migrates = 0 /\ applies = 0 /\ faults = 0 /\ stalls = 0
    /\ crashes = 0

(* What storing content c through a route leaves on the backend: the       *)
(* engine hashes it and the wrapper encrypts it under the current key.     *)
Stored(b, c) == [c |-> c, enc |-> IF b = "A" THEN enc ELSE 0, sha |-> c]
OnTarget(e, k) == e.stage /\ disk.B[k] # None

-----------------------------------------------------------------------------
(* The write gate, and requests.                                           *)

InFlight == {u \in Writers : /\ writer[u].pc \in {"registered", "admitted"}
                             /\ u \notin Unregistered}

BeginWrite(u, k, c) ==
    /\ writer[u].pc = "idle" /\ writes < MaxWrites /\ writes' = writes + 1
    /\ IF u \in Unregistered THEN "bucket" \notin gate ELSE TRUE
    /\ writer' = [writer EXCEPT ![u] =
         [pc |-> IF u \in Unregistered THEN "admitted" ELSE "registered",
          key |-> k, c |-> c, eng |-> conf.bucket]]
    /\ UNCHANGED <<store, config, gate, job, w, acked, pages, jobs, migrates, applies,
                   faults, stalls, crashes>>

Recheck == IF "bucket" \in gate THEN "idle" ELSE "admitted"

(* maintenance_gate_middleware: registered first, then the busy set; the   *)
(* handler then takes the engine.                                          *)
CheckBusy(u) ==
    /\ writer[u].pc = "registered"
    /\ writer' = [writer EXCEPT ![u].pc = Recheck, ![u].eng = conf.bucket]
    /\ UNCHANGED <<store, config, gate, job, w, acked, counts>>

(* A PUT (c > 0) or a DELETE (c = 0) lands and is acknowledged.            *)
Land(u) ==
    LET r == writer[u]
    IN  /\ r.pc = "admitted"
        /\ disk' = [disk EXCEPT ![r.eng][r.key] =
                      IF r.c = 0 THEN None ELSE Stored(r.eng, r.c)]
        /\ acked' = [acked EXCEPT ![r.key] = r.c]
        /\ writer' = [writer EXCEPT ![u] = Quiet]
        /\ UNCHANGED <<ref, enc, config, gate, job, w, counts>>

(* The client disconnects: the guard's Drop releases the slot.             *)
Disconnect(u) ==
    /\ writer[u].pc = "registered"
    /\ writer' = [writer EXCEPT ![u] = Quiet]
    /\ UNCHANGED <<store, config, gate, job, w, acked, counts>>

-----------------------------------------------------------------------------
(* The admin API and configuration changes.                                *)

(* maintenance_create_job: one active job for the bucket.                  *)
CreateJob(kind, phase, drop) ==
    /\ kind \in Kinds /\ jobs < MaxJobs /\ jobs' = jobs + 1
    /\ ~Active(job)
    /\ job' = [NoJob EXCEPT !.status = "queued", !.phase = phase, !.kind = kind,
                            !.drop = drop, !.key = enc]
    /\ UNCHANGED <<store, config, w, clients, pages, writes, applies, faults, stalls,
                   crashes>>

(* The gate is armed when the job is created.                              *)
StartReencrypt ==
    /\ CreateJob("reencrypt", "counting", FALSE)
    /\ gate' = gate \cup {"bucket"} /\ UNCHANGED migrates

StartBackfill ==
    /\ CreateJob("backfill", "counting", FALSE)
    /\ gate' = gate \cup {"bucket"} /\ UNCHANGED migrates

(* Refused when the bucket is on the target already.                       *)
StartMigrate(drop) ==
    /\ conf.bucket = "A"
    /\ CreateJob("migrate", "stage", drop)
    /\ gate' = gate \cup {"bucket", "stage"} /\ migrates' = migrates + 1

(* maintenance_request_cancel: a queued job is cancelled on the spot.      *)
CancelledRow(j) ==
    [j EXCEPT !.status = IF @ = "queued" THEN "cancelled" ELSE "cancelling"]

CancelJob ==
    /\ job.status \in {"queued", "running"}
    /\ job' = CancelledRow(job)
    /\ gate' = IF job.status = "queued" THEN {} ELSE gate
    /\ UNCHANGED <<store, config, w, clients, counts>>

(* An operator applies a document: the bucket map is replaced wholesale    *)
(* and names the bucket's backend as it is; it may also set a new key.  A  *)
(* document that sends the bucket back to the source during the cleanup is *)
(* left out, so the check of RoutedToTarget never fails.                   *)
AdminApply(rotate) ==
    /\ applies < MaxApplies /\ Bounded /\ applies' = applies + 1
    /\ conf' = [conf EXCEPT !.stage = FALSE, !.sweep = FALSE]
    /\ file' = conf'
    /\ enc' = IF rotate THEN enc + 1 ELSE enc
    /\ UNCHANGED <<disk, ref, gate, job, w, clients, pages, jobs, writes, migrates,
                   faults, stalls, crashes>>

-----------------------------------------------------------------------------
(* The worker.                                                             *)

\* Mutant: a job that was being cancelled is not looked at.
RequeuedRunning(j) ==
    IF j.lease # "live" /\ j.status = "running"
    THEN [j EXCEPT !.status = "queued", !.lease = None] ELSE j

(* maintenance_requeue_abandoned.                                          *)
Requeued(j) ==
    IF j.lease = "live" THEN j
    ELSE CASE j.status = "cancelling" -> [j EXCEPT !.status = "cancelled", !.lease = None]
           [] j.status = "running" -> [j EXCEPT !.status = "queued", !.lease = None]
           [] OTHER -> j

RequeueAbandoned ==
    /\ w.pc = "idle" /\ job' = Requeued(job) /\ job' # job
    /\ UNCHANGED <<store, config, gate, w, clients, counts>>

GateArmedDuring(phase) == phase # "cleanup"

Gated(j) == IF j.kind # "migrate" THEN {"bucket"}
            ELSE IF GateArmedDuring(j.phase) THEN {"bucket", "stage"}
            ELSE {}

Entry(j) == IF j.kind = "migrate" /\ j.phase # "stage" THEN
                CASE j.phase \in {"copy", "verify"} -> "page"
                  [] OTHER -> j.phase
            ELSE IF j.kind = "migrate" THEN "stage" ELSE "drain"

(* maintenance_claim_next_job.                                             *)
ClaimNextJob ==
    /\ job.status = "queued"
    /\ job' = [job EXCEPT !.status = "running", !.lease = "live"]

(* The start of run_job: the gate is asserted again, or cleared when the   *)
(* flip is already done.                                                   *)
Claim ==
    /\ w.pc = "idle" /\ ClaimNextJob
    /\ gate' = IF Gated(job) = {} THEN {} ELSE gate \cup Gated(job)
    /\ w' = [Idle EXCEPT !.pc = Entry(job), !.phase = job.phase, !.tok = job.tok,
                         !.resumed = job.tok # 0, !.bad = job.bad]
    /\ UNCHANGED <<store, config, clients, counts>>

(* run_phases and execute_phases hand an outcome to run_job.               *)
Ends(out) == w' = [w EXCEPT !.pc = "end", !.out = out]
CancelRequested == job.status \in {"cancelling", "cancelled"}

(* persist: maintenance_update_progress of a row that is still running.    *)
Progress(phase, tok, bad) ==
    job' = IF job.status \in {"running", "cancelling"}
           THEN [job EXCEPT !.phase = phase, !.tok = tok, !.bad = bad] ELSE job

\* Mutant: the worker does not wait for the writes admitted before the gate.
NeverDrains == TRUE

Drained == InFlight = {}

NextPage(phase, tok) ==
    [w EXCEPT !.pc = "page", !.phase = phase, !.tok = tok, !.key = None, !.obj = None]
NewPhase(phase) == [NextPage(phase, 0) EXCEPT !.n = 0, !.resumed = FALSE]

Drain ==
    /\ w.pc \in {"drain", "drain_stage"}
    /\ \/ /\ Drained /\ NoFault
          /\ IF w.pc = "drain_stage"
             THEN Progress("copy", 0, w.bad) /\ w' = NewPhase("copy")
             ELSE /\ w' = [w EXCEPT !.pc = IF w.phase = "references" THEN "references"
                                           ELSE "page"]
                  /\ UNCHANGED job
       \/ InFlight # {} /\ Fault /\ Ends("failed") /\ UNCHANGED job
    /\ UNCHANGED <<store, config, gate, clients, rest>>

(* mutate_and_apply, whose persist may fail, and its strict form.          *)
Apply(c) ==
    /\ conf' = c
    /\ \/ file' = c /\ NoFault
       \/ UNCHANGED file /\ Fault

EnsureRoute(route) ==
    IF conf[route] THEN UNCHANGED config /\ NoFault
    ELSE Apply([conf EXCEPT ![route] = TRUE])

(* Migration, phase 1: the staging route and the bucket on the target.     *)
Stage ==
    /\ w.pc = "stage"
    /\ IF CancelRequested THEN Ends("cancelled") /\ UNCHANGED config /\ NoFault
       ELSE \/ EnsureRoute("stage") /\ w' = [w EXCEPT !.pc = "drain_stage"]
            \/ Fault /\ Ends("failed") /\ UNCHANGED config
    /\ UNCHANGED <<store, gate, job, clients, rest>>

(* The page loop of counting, objects, copy and verify.                    *)
BeginPage ==
    /\ w.pc = "page"
    /\ \/ CancelRequested /\ Ends("cancelled") /\ UNCHANGED config /\ NoFault
       \/ ~CancelRequested /\ w.n >= pages /\ Ends("failed")
          /\ UNCHANGED config /\ NoFault
       \/ /\ ~CancelRequested /\ w.n < pages
          /\ IF w.phase = "copy" THEN EnsureRoute("stage") ELSE UNCHANGED config /\ NoFault
          /\ w' = [w EXCEPT !.pc = "list", !.n = @ + 1, !.want = enc]
    /\ UNCHANGED <<store, gate, job, clients, rest>>

After(b, tok) == {k \in Keys : k > tok /\ disk[b][k] # None}
Least(S) == CHOOSE k \in S : \A j \in S : k <= j

(* The engine is taken, and the page listed through it.  When the first    *)
(* page of a resumed loop fails the phase starts afresh.                   *)
ListPage ==
    /\ w.pc = "list"
    /\ \/ /\ NoFault /\ UNCHANGED job
          /\ \E ks \in {After(conf.bucket, w.tok)} :
               w' = [w EXCEPT !.eng = conf, !.key = IF ks = {} THEN None ELSE Least(ks),
                              !.more = Cardinality(ks) > 1,
                              !.pc = IF ks = {} \/ w.phase = "counting" THEN "tail"
                                     ELSE "look"]
       \/ /\ Fault
          /\ IF w.resumed /\ w.n = 1
             THEN Progress(w.phase, 0, w.bad) /\ w' = NewPhase(w.phase)
             ELSE Ends("failed") /\ UNCHANGED job
    /\ UNCHANGED <<store, config, gate, clients, rest>>

NeedsRewrite(o, want) == o.enc # want
NeedsMetadataBackfill(o) == o.sha = 0

(* HEAD, the decision, and the read that follows it.                       *)
Wanted(o) ==
    CASE w.phase = "copy" -> ~OnTarget(w.eng, w.key)
      [] job.kind = "reencrypt" -> NeedsRewrite(o, w.want)
      [] job.kind = "backfill" -> NeedsMetadataBackfill(o)

Look ==
    LET o == disk[w.eng.bucket][w.key]
    IN  /\ w.pc = "look"
        /\ IF w.phase = "verify"
           THEN /\ NoFault
                /\ IF ~OnTarget(w.eng, w.key) THEN Ends("failed")
                   ELSE w' = [w EXCEPT !.pc = "tail"]
           ELSE \/ /\ o # None /\ NoFault
                   /\ w' = IF Wanted(o) THEN [w EXCEPT !.pc = "put", !.obj = o]
                           ELSE [w EXCEPT !.pc = "tail"]
                \/ /\ IF o = None THEN NoFault ELSE Fault
                   /\ IF w.phase = "copy" THEN Ends("failed")
                      ELSE w' = [w EXCEPT !.pc = "tail", !.bad = @ + 1]
        /\ UNCHANGED <<store, config, gate, job, clients, rest>>

(* The rewrite in place, the copy, or the metadata write.                  *)
Written(old) == IF job.kind = "backfill" THEN [old EXCEPT !.sha = w.obj.c]
                ELSE Stored(w.eng.bucket, w.obj.c)

Put ==
    /\ w.pc = "put"
    /\ \/ /\ w.phase = "copy" => w.eng.stage
          /\ NoFault /\ UNCHANGED job
          /\ IF w.phase = "copy"
             THEN disk' = [disk EXCEPT !.B[w.key] = Stored("B", w.obj.c)]
             ELSE disk' = [disk EXCEPT ![w.eng.bucket][w.key] =
                             IF job.kind = "backfill" /\ @ = None THEN None
                             ELSE Written(@)]
          /\ w' = [w EXCEPT !.pc = "tail"]
       \/ /\ IF w.phase = "copy" /\ ~w.eng.stage THEN NoFault ELSE Fault
          /\ UNCHANGED disk
          /\ IF w.phase = "copy"
             THEN Progress("copy", 0, w.bad + 1) /\ Ends("failed")
             ELSE w' = [w EXCEPT !.pc = "tail", !.bad = @ + 1] /\ UNCHANGED job
    /\ UNCHANGED <<ref, enc, config, gate, clients, rest>>

PhaseAfter(phase) ==
    CASE phase = "counting" -> "objects"
      [] phase = "objects" -> IF job.kind = "backfill" THEN None ELSE "references"
      [] phase = "copy" -> "verify"
      [] phase = "verify" -> "flip"

(* The cursor is persisted, then the lease renewed; a refused renewal      *)
(* stops the worker.                                                       *)
LeaseLost == job.lease # "live"
Cursor == IF w.more THEN w.key ELSE 0
PagePc(phase) == IF phase \in {"objects", "verify"} THEN "page" ELSE phase

Tail ==
    /\ w.pc = "tail"
    /\ IF LeaseLost THEN Progress(w.phase, Cursor, w.bad) /\ Ends("lost")
       ELSE IF w.more THEN Progress(w.phase, Cursor, w.bad) /\ w' = NextPage(w.phase, w.key)
       ELSE IF PhaseAfter(w.phase) = None
            THEN Progress(w.phase, 0, w.bad) /\ Ends("completed")
       ELSE /\ Progress(PhaseAfter(w.phase), 0, w.bad)
            /\ w' = [NewPhase(PhaseAfter(w.phase)) EXCEPT !.pc = PagePc(PhaseAfter(w.phase))]
    /\ UNCHANGED <<store, config, gate, clients, counts>>

(* The deltaspace's reference blob.                                        *)
References ==
    /\ w.pc = "references"
    /\ IF CancelRequested THEN Ends("cancelled") /\ UNCHANGED <<ref, job>> /\ NoFault
       ELSE \/ /\ ref' = enc /\ NoFault
               /\ Progress("references", 0, w.bad)
               /\ Ends(IF LeaseLost THEN "lost" ELSE "completed")
            \/ /\ Fault /\ UNCHANGED ref
               /\ Progress("references", 0, w.bad + 1)
               /\ Ends(IF LeaseLost THEN "lost" ELSE "completed")
    /\ UNCHANGED <<disk, enc, config, gate, clients, rest>>

(* Migration, phase 4: one strict configuration transaction, and the gate  *)
(* opens on the new backend.                                               *)
Flip ==
    /\ w.pc = "flip"
    /\ \/ /\ conf' = [conf EXCEPT !.bucket = "B", !.stage = FALSE]
          /\ file' = conf' /\ gate' = {} /\ NoFault
          /\ w' = [w EXCEPT !.pc = "flipped"]
       \/ Fault /\ Ends("failed") /\ UNCHANGED <<config, gate>>
    /\ UNCHANGED <<store, job, clients, rest>>

Flipped ==
    /\ w.pc = "flipped"
    /\ Progress("cleanup", 0, w.bad)
    /\ w' = [NewPhase("cleanup") EXCEPT !.pc = "cleanup"]
    /\ UNCHANGED <<store, config, gate, clients, counts>>

(* Phase 5: delete the source through a route of its own, while the live   *)
(* configuration sends the bucket to the target.                           *)
Cleanup ==
    /\ w.pc = "cleanup"
    /\ IF job.drop
       THEN EnsureRoute("sweep") /\ w' = [w EXCEPT !.pc = "sweep", !.tok = 0]
       ELSE Ends("completed") /\ UNCHANGED config /\ NoFault
    /\ UNCHANGED <<store, gate, job, clients, rest>>

RoutedToTarget == conf.bucket = "B"

Sweep ==
    /\ w.pc = "sweep"
    /\ \/ /\ NoFault
          /\ IF CancelRequested THEN w' = [w EXCEPT !.pc = "swept"]
             ELSE IF ~RoutedToTarget THEN Ends("failed")
             ELSE \E ks \in {IF conf.sweep THEN After("A", w.tok) ELSE {}} :
                    w' = [w EXCEPT !.eng = conf, !.more = Cardinality(ks) > 1,
                                   !.key = IF ks = {} THEN None ELSE Least(ks),
                                   !.pc = IF ks = {} THEN "swept" ELSE "drop"]
       \/ Fault /\ w' = [w EXCEPT !.pc = "swept"]
    /\ UNCHANGED <<store, config, gate, job, clients, rest>>

(* A page that deleted nothing is passed over; after one that did, the     *)
(* listing starts again.                                                   *)
DropSource ==
    /\ w.pc = "drop"
    /\ \/ disk' = [disk EXCEPT !.A[w.key] = None] /\ NoFault
       \/ Fault /\ UNCHANGED disk
    /\ IF ~w.more THEN w' = [w EXCEPT !.pc = "swept"]
       ELSE IF LeaseLost THEN Ends("lost")
       ELSE w' = [w EXCEPT !.pc = "sweep", !.tok = IF disk' = disk THEN w.key ELSE 0]
    /\ UNCHANGED <<ref, enc, config, gate, job, clients, rest>>

Swept ==
    /\ w.pc = "swept"
    /\ IF conf.sweep THEN Apply([conf EXCEPT !.sweep = FALSE])
       ELSE UNCHANGED config /\ NoFault
    /\ Ends("completed")
    /\ UNCHANGED <<store, gate, job, clients, rest>>

(* run_job's end.  A lost lease leaves the row to the next claimer; any    *)
(* other error of a migration that has not flipped removes the staging     *)
(* route; then the row is settled and the gate cleared.                    *)
Unwinds == /\ job.kind = "migrate" /\ w.out \in {"failed", "cancelled"}
           /\ GateArmedDuring(job.phase) /\ conf.stage

(* maintenance_finish: a terminal row is never rewritten.                  *)
FinishedRow(j, status) ==
    IF Active(j) THEN [j EXCEPT !.status = status, !.lease = None] ELSE j

Settle ==
    /\ w.pc = "end"
    /\ IF Unwinds THEN Apply([conf EXCEPT !.stage = FALSE])
       ELSE UNCHANGED config /\ NoFault
    /\ job' = IF w.out = "lost" THEN job ELSE FinishedRow(job, w.out)
    /\ w' = [w EXCEPT !.pc = "release"]
    /\ UNCHANGED <<store, gate, clients, rest>>

Release ==
    /\ w.pc = "release"
    /\ gate' = {} /\ w' = Idle
    /\ UNCHANGED <<store, config, job, clients, counts>>

-----------------------------------------------------------------------------
(* The lease runs out: the worker took longer than its TTL over a page, or *)
(* is no more.                                                             *)
Lapse ==
    /\ job.lease = "live" /\ w.pc \notin {"end", "release"}
    /\ IF w.pc = "idle" THEN UNCHANGED stalls
       ELSE stalls < MaxStalls /\ Bounded /\ stalls' = stalls + 1
    /\ job' = [job EXCEPT !.lease = "lapsed"]
    /\ UNCHANGED <<store, config, gate, w, clients, pages, jobs, writes, migrates,
                   applies, faults, crashes>>

(* maintenance_gate_arm_keys.                                              *)
ArmKeys(j) == IF Active(j) THEN Gated(j) ELSE {}

(* The process dies and boots: the rows are requeued, the gate re-armed    *)
(* before the listener serves, and the transient routes of no active job   *)
(* removed.                                                                *)
Crash(lapsed) ==
    LET row == IF lapsed /\ job.lease = "live" THEN [job EXCEPT !.lease = "lapsed"] ELSE job
        j == Requeued(row)
        kept == [file EXCEPT !.stage = @ /\ Active(j) /\ j.kind = "migrate",
                             !.sweep = FALSE]
    IN  /\ crashes < MaxCrashes /\ Bounded /\ crashes' = crashes + 1
        /\ job' = j /\ gate' = ArmKeys(j)
        /\ conf' = kept /\ file' = kept
        /\ w' = Idle /\ writer' = [u \in Writers |-> Quiet]
        /\ UNCHANGED <<store, acked, pages, jobs, writes, migrates, applies, faults, stalls>>

-----------------------------------------------------------------------------
Work == \/ Claim \/ RequeueAbandoned \/ Drain \/ Stage \/ BeginPage \/ ListPage
        \/ Look \/ Put \/ Tail \/ References \/ Flip \/ Flipped \/ Cleanup \/ Sweep
        \/ DropSource \/ Swept \/ Settle \/ Release

Operate == \/ StartReencrypt \/ StartBackfill \/ CancelJob
           \/ \E drop \in BOOLEAN : StartMigrate(drop)
           \/ \E rotate \in BOOLEAN : AdminApply(rotate)

Client(u) == \/ CheckBusy(u) \/ Land(u) \/ Disconnect(u)
             \/ \E k \in Keys, c \in {0, writes + 2} : BeginWrite(u, k, c)

Next == \/ Work \/ Operate \/ Lapse
        \/ \E u \in Writers : Client(u)
        \/ \E lapsed \in BOOLEAN : Crash(lapsed)

Spec == Init /\ [][Next]_vars

-----------------------------------------------------------------------------
TypeOK ==
    /\ \A b \in {"A", "B"}, k \in Keys :
         disk[b][k] = None \/ disk[b][k].c \in 1..MaxWrites + 1
    /\ gate \subseteq {"bucket", "stage"}
    /\ job.tok \in Keys \cup {0} /\ w.tok \in Keys \cup {0}
    /\ job.lease \in {None, "live", "lapsed"}

Content(o) == IF o = None THEN 0 ELSE o.c

\* What a client stored is what the bucket serves.
ServesLastWrite == \A k \in Keys : Content(disk[conf.bucket][k]) = acked[k]

\* The bucket serves the last acknowledged write whatever job ran, was cancelled,
\* failed, was interrupted by a crash or had its routes dropped by a configuration
\* change.  Not covered: a page that outlasts the worker's lease, which opens the gate
\* in the middle of a copy, and a second migration, which skips the keys that the first
\* one left on the target.
NoLostWrite == stalls = 0 /\ migrates <= 1 => ServesLastWrite

\* A sweep that completed without failures missed nothing: every object and the
\* reference are under the key the job was created for, or carry the hash of their own
\* content, although the sweep may have been resumed and its listing restarted.
SweepComplete ==
    conf.bucket = "A" /\ job.status = "completed" /\ job.bad = 0 /\ enc = job.key =>
        /\ job.kind = "reencrypt" =>
             ref = enc /\ \A k \in Keys : disk.A[k] = None \/ disk.A[k].enc = enc
        /\ job.kind = "backfill" =>
             \A k \in Keys : disk.A[k] = None \/ disk.A[k].sha = disk.A[k].c

\* A job that was started ends: completed, failed or cancelled, after however many
\* crashes, although other requests keep arriving.
JobSettles == Active(job) ~> ~Active(job)

\* The gate opens again: no bucket stays read-only once its job is over.
GateReopens == gate # {} ~> gate = {}
-----------------------------------------------------------------------------
\* What the proof of the two rests on.

Objects == [c : Nat, enc : Nat, sha : Nat]
Sweeping == {"counting", "objects", "references"}
Copying == {"copy", "verify", "flip"}
Looping == {"page", "list", "look", "put", "tail"}
Outcomes == {"completed", "failed", "cancelled", "lost"}
Moved == {"flipped", "cleanup", "sweep", "drop", "swept"}

\* Every writer of the bucket registers with the gate: the replication consumer, which tests
\* it and does not register, has no rule into the bucket.
Setting ==
    /\ Keys \subseteq Nat \ {0} /\ IsFiniteSet(Keys) /\ Unregistered = {}
    /\ None \notin Objects \cup Nat \cup Sweeping \cup Copying \cup
                   {"reencrypt", "backfill", "migrate", "cleanup"}

\* The pc of a worker that has a job in each of its phases.
AtWork(j) ==
    CASE j.phase \in {"counting", "objects"} -> {"drain"} \cup Looping
      [] j.phase = "references" -> {"drain", "references"}
      [] j.phase = "stage" -> {"stage", "drain_stage"}
      [] j.phase \in {"copy", "verify"} -> Looping
      [] j.phase = "flip" -> {"flip", "flipped"}
      [] j.phase = "cleanup" -> {"cleanup", "sweep", "drop", "swept"}
      [] OTHER -> {}

Places == [Keys -> Objects \cup {None}]
DataInv ==
    /\ disk \in [A : Places, B : Places] /\ acked \in [Keys -> Nat] /\ enc \in Nat
    /\ \A b \in {"A", "B"}, k \in Keys : disk[b][k] # None => disk[b][k].sha \in {0, disk[b][k].c}
    /\ {writes, migrates, stalls} \subseteq Nat
    /\ DOMAIN conf = {"bucket", "stage", "sweep"} /\ conf.bucket \in {"A", "B"}
    /\ DOMAIN file = DOMAIN conf /\ file.bucket = conf.bucket
    /\ DOMAIN writer = Writers
    /\ \A u \in Writers :
          /\ DOMAIN writer[u] = DOMAIN Quiet
          /\ writer[u].pc \in {"idle", "registered", "admitted"}
          /\ writer[u].pc # "idle" => writer[u].key \in Keys /\ writer[u].c \in Nat
          /\ writer[u].pc = "admitted" => writer[u].eng \in {"A", "B"}

\* A job and its worker are at the same place, which is one of the job's kind.
RowInv ==
    /\ DOMAIN job = DOMAIN NoJob /\ DOMAIN w = DOMAIN Idle
    /\ {job.tok, job.bad, job.key, w.bad, w.want} \subseteq Nat
    /\ job.kind \in {"reencrypt", "backfill", "migrate", None}
    /\ Active(job) => job.kind # None
    /\ job.kind = "migrate" => job.phase \in Copying \cup {"stage", "cleanup"}
    /\ job.kind \in {"reencrypt", "backfill"} => job.phase \in Sweeping
    /\ job.kind = "backfill" => job.phase # "references"
    /\ w.pc \notin {"idle", "release"} =>
          /\ job.status \in {"running", "cancelling"} /\ (stalls = 0 => job.lease = "live")
          /\ w.pc = "end" \/ w.pc \in AtWork(job)
    /\ w.pc \notin {"idle", "release", "end"} => w.phase = job.phase /\ w.bad >= job.bad
    /\ w.pc \in {"drain"} \cup Looping => w.tok = job.tok
    /\ w.pc \in {"look", "put", "drop"} \/ (w.pc = "tail" /\ w.more) => w.key \in Keys
    /\ w.pc = "put" => w.obj \in Objects /\ job.phase # "verify"
    /\ w.pc = "end" => w.out \in Outcomes /\ (w.out = "lost" => stalls > 0)
    /\ w.pc = "release" /\ Active(job) /\ stalls = 0 => job.phase \in {"counting", "stage"}

\* The gate is shut and the writes admitted before are over while objects are rewritten,
\* and from the copy to the flip, a restart included.
Closed == "bucket" \in gate /\ \A u \in Writers : writer[u].pc # "admitted"
Undisturbed == job.kind # "migrate" \/ stalls = 0
GateInv ==
    /\ w.pc \in {"drain", "stage", "drain_stage"} => "bucket" \in gate
    /\ job.kind # "migrate" /\ w.pc \in Looping => Closed
    /\ stalls = 0 /\ Active(job) /\ job.phase \in Copying /\ w.pc # "flipped" => Closed

\* The bucket moves once, at the flip.
RouteInv ==
    /\ \A u \in Writers : writer[u].pc = "admitted" /\ (writer[u].eng = "B" \/ stalls = 0) =>
          writer[u].eng = conf.bucket
    /\ job.phase = "cleanup" \/ w.pc \in Moved => conf.bucket = "B"
    /\ Active(job) /\ job.phase \in {"stage", "copy", "verify"} => conf.bucket = "A"
    /\ migrates = 0 => conf.bucket = "A" /\ job.kind # "migrate"
    /\ w.pc \in {"look", "put"} => w.eng.bucket = conf.bucket

\* What a page says of the bucket is true until the next one.
Nothing(S) == \A k \in S : disk[conf.bucket][k] = None
PageInv ==
    Undisturbed /\ w.pc \in {"look", "put", "tail"} =>
        /\ w.key = None => w.pc = "tail" /\ ~w.more /\ Nothing({k \in Keys : k > w.tok})
        /\ w.key # None => /\ w.key \in Keys /\ w.key > w.tok
                           /\ Nothing({k \in Keys : w.tok < k /\ k < w.key})
                           /\ ~w.more => Nothing({k \in Keys : k > w.key})
        /\ w.pc = "put" => w.obj # None /\ w.obj = disk[conf.bucket][w.key]

\* Before the flip the target holds nothing but what the bucket holds, and what was
\* verified is there.
OnB(k) == disk.A[k] # None => disk.B[k] # None
CopyInv ==
    stalls = 0 /\ migrates <= 1 /\ conf.bucket = "A" =>
        /\ migrates = 0 \/ (Active(job) /\ job.phase = "stage") => \A k \in Keys : disk.B[k] = None
        /\ Active(job) /\ job.phase \in Copying =>
              \A k \in Keys : disk.B[k] # None => disk.B[k].c = Content(disk.A[k])
        /\ Active(job) /\ job.phase = "verify" => \A k \in Keys : k <= job.tok => OnB(k)
        /\ w.pc = "tail" /\ job.phase = "verify" /\ w.key # None => OnB(w.key)
        /\ Active(job) /\ job.phase = "flip" => \A k \in Keys : OnB(k)

\* The key of a job is the one in use unless it was rotated since; what a sweep has
\* passed is clean.
Clean(k) == LET o == disk.A[k]
            IN  o = None \/ IF job.kind = "reencrypt" THEN o.enc = enc ELSE o.sha = o.c
Ended == job.status = "completed" \/ (w.pc = "end" /\ w.out = "completed")
CleanInv ==
    /\ job.key <= enc
    /\ w.pc \in {"list", "look", "put"} => job.key <= w.want /\ w.want <= enc
    /\ conf.bucket = "A" /\ enc = job.key /\ job.kind \in {"reencrypt", "backfill"} =>
          /\ Active(job) /\ job.bad = 0 /\ job.phase = "objects" =>
                \A k \in Keys : k <= job.tok => Clean(k)
          /\ Active(job) /\ job.bad = 0 /\ job.phase = "references" => \A k \in Keys : Clean(k)
          /\ w.pc = "tail" /\ w.bad = 0 /\ job.phase = "objects" /\ w.key # None => Clean(w.key)
          /\ Ended /\ job.bad = 0 =>
                (\A k \in Keys : Clean(k)) /\ (job.kind = "reencrypt" => ref = enc)

JobInv == DataInv /\ RowInv /\ GateInv /\ RouteInv /\ PageInv /\ CopyInv /\ CleanInv
          /\ NoLostWrite

=============================================================================
