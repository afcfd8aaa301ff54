----------------------------- MODULE ConfigApply -----------------------------
(* How a change of the configuration reaches the running process: the        *)
(* administrators' field patches, section edits and whole documents, the     *)
(* backend and bucket forms and the background jobs' mutations all take the  *)
(* configuration's write lock, rebuild what is derived from the              *)
(* configuration, reconcile the user table in declarative mode, and save the *)
(* file.  Secrets are blanked in what is shown and restored in what comes    *)
(* back.  A client that disconnects cancels its handler at an await.         *)
EXTENDS Naturals, FiniteSets

CONSTANTS
    Clients,      \* administrators and jobs working at the same time
    Requests,     \* [by, edit]: the door taken, and the fields named with their values
    First,        \* the configuration, and the file, at the start
    Users,        \* rows of the user table an administrator may add
    Admin,        \* the row made of the configured credentials
    None,
    MaxRequests, MaxFaults, MaxCancels, MaxCrashes

Fields == {"store", "public", "crypt", "key", "legacy", "creds", "mode", "iam"}
Secrets == {"key", "legacy", "creds"}

\* Doors that change the configuration in place before anything is rebuilt.
InPlace == {"patch", "mutate", "strict", "bucket"}

\* Doors that go through apply_config_transition, and doors a client may leave.
Gated == {"patch", "section", "document"}
Cancellable == Gated \cup {"bucket"}

VARIABLES
    cfg,          \* the configuration in memory
    file,         \* the configuration file
    engine,       \* what the engine in service was built from
    prefix,       \* the published public prefixes
    chain,        \* the public blocks of the published admission chain
    auth,         \* [iam, creds] in force; neither: open
    users,        \* the user table
    lock,         \* the client that holds the write lock, or None
    req,          \* per client: [pc, by, edit, doc, old, new]
    up,           \* the process runs
    torn,         \* ghost: a change was cut off after its first effect
    requests, faults, cancels, crashes

vars == <<cfg, file, engine, prefix, chain, auth, users, lock, req, up, torn, requests,
          faults, cancels, crashes>>
runtime == <<engine, prefix, chain, auth>>
bounds == <<requests, cancels, crashes>>

Idle == [pc |-> "idle", by |-> None, edit |-> None, doc |-> None, old |-> None, new |-> None]

Fault == faults < MaxFaults /\ faults' = faults + 1

-----------------------------------------------------------------------------
\* What a configuration is turned into.

engine_affecting_fields_changed(old, new) ==
    \E f \in {"store", "public", "crypt", "key", "legacy"} : old[f] # new[f]

EngineOf(c) == [f \in {"store", "public", "crypt", "key", "legacy"} |-> c[f]]

build_iam_state(rows) == [iam |-> rows, creds |-> None]

startup_iam_state(rows, c) == IF rows # {} THEN build_iam_state(rows)
                                           ELSE [iam |-> {}, creds |-> c.creds]

\* The declarative reconciler has work: step 4c, and the gate before it.
NeedsReconcile(old, new) ==
    /\ new.mode = "declarative"
    /\ ~(old.mode = "declarative" /\ old.iam = new.iam)

declarative_iam_precommit_gate(old, new) ==
    NeedsReconcile(old, new) => ~(old.mode = "gui" /\ new.iam = {})

-----------------------------------------------------------------------------
\* Secrets: blanked on the way out, restored on the way in.

export_config(c) == [f \in Fields |-> IF f \in Secrets THEN None ELSE c[f]]

Nulls(edit, f) == f \in DOMAIN edit /\ edit[f] = None

preserve_sigv4_pair(new, old) == IF new.creds = None THEN old.creds ELSE new.creds

PreservedKey(new, old, edit) ==
    IF new.crypt # "proxy" THEN None
    ELSE IF new.key = None /\ ~Nulls(edit, "key") THEN old.key ELSE new.key

\* Leaving proxy encryption moves the key to the free decrypt-only slot.
PromotedKey(new, old, edit) ==
    IF old.crypt = "proxy" /\ new.crypt # "proxy" /\ ~Nulls(edit, "legacy")
       /\ new.legacy = None
    THEN old.key ELSE new.legacy

PreservedLegacy(promoted, old, edit) ==
    IF promoted = None /\ ~Nulls(edit, "legacy") THEN old.legacy ELSE promoted

preserve_runtime_secrets(new, old, edit) ==
    [new EXCEPT !.creds = preserve_sigv4_pair(new, old),
                !.key = PreservedKey(new, old, edit),
                !.legacy = PreservedLegacy(PromotedKey(new, old, edit), old, edit)]

\* The fields named, over the others.
Over(edit, c) == [f \in Fields |-> IF f \in DOMAIN edit THEN edit[f] ELSE c[f]]

\* Mutant: the section is merged into what its form was filled from.
MergeIntoShown(r, old) == preserve_runtime_secrets(Over(r.edit, r.doc), old, r.edit)

\* What a request makes of the configuration it finds under the lock: a section is
\* merged into it, a document replaces it, the other doors set their fields.
merge_patch_section(r, old) == preserve_runtime_secrets(Over(r.edit, old), old, r.edit)

Requested(r, old) ==
    CASE r.by = "section"  -> merge_patch_section(r, old)
      [] r.by = "document" -> preserve_runtime_secrets(Over(r.edit, r.doc), old, r.edit)
      [] OTHER             -> Over(r.edit, old)

-----------------------------------------------------------------------------
Step(c, r) == req' = [req EXCEPT ![c] = r]

\* The client reads the configuration (get_section, export_config) and prepares a change.
Prepare(c) ==
    /\ up
    /\ req[c].pc = "idle"
    /\ lock = None
    /\ requests < MaxRequests
    /\ requests' = requests + 1
    /\ \E r \in Requests :
          Step(c, [Idle EXCEPT !.pc = "ready", !.by = r.by, !.edit = r.edit,
                               !.doc = export_config(cfg)])
    /\ UNCHANGED <<cfg, file, runtime, users, lock, up, torn, faults, cancels, crashes>>

\* The handler takes the write lock and works out the new configuration.
Lock(c) ==
    /\ up
    /\ req[c].pc = "ready"
    /\ lock = None
    /\ lock' = c
    /\ \E new \in {Requested(req[c], cfg)} :
          /\ cfg' = IF req[c].by \in InPlace THEN new ELSE cfg
          /\ Step(c, [req[c] EXCEPT !.pc = IF req[c].by \in Gated THEN "gate" ELSE "build",
                                    !.old = cfg, !.new = new])
    /\ UNCHANGED <<file, runtime, users, up, torn, faults, bounds>>

\* The request ends with what it found back in memory.
GiveUp(c) == cfg' = req[c].old /\ lock' = None /\ Step(c, Idle)

\* The gates: fatal errors of the document, the capability and health of the backends,
\* the rows of the declarative user list.
Gate(c) ==
    /\ req[c].pc = "gate"
    /\ \/ GiveUp(c)
       \/ /\ declarative_iam_precommit_gate(req[c].old, req[c].new)
          /\ Step(c, [req[c] EXCEPT !.pc = "build"])
          /\ UNCHANGED <<cfg, lock>>
    /\ UNCHANGED <<file, runtime, users, up, torn, faults, bounds>>

\* Legacy credentials: swapped in, unless users are in force.
CredsInForce(old, new) ==
    IF old.creds # new.creds /\ auth.iam = {} THEN [iam |-> {}, creds |-> new.creds]
                                              ELSE auth

rebuild_bucket_derived_snapshots(new) == prefix' = new.public /\ chain' = new.public

\* apply_config_transition: the engine, the credentials, the snapshots.
apply_config_transition(c, old, new) ==
    /\ \/ /\ engine' = IF engine_affecting_fields_changed(old, new) THEN EngineOf(new)
                                                                    ELSE engine
          /\ auth' = CredsInForce(old, new)
          /\ IF old.public # new.public THEN rebuild_bucket_derived_snapshots(new)
                                        ELSE UNCHANGED <<prefix, chain>>
          /\ Step(c, [req[c] EXCEPT !.pc = IF NeedsReconcile(old, new) THEN "db" ELSE "save"])
          /\ UNCHANGED <<cfg, lock, faults>>
       \/ /\ engine_affecting_fields_changed(old, new)
          /\ Fault /\ GiveUp(c) /\ UNCHANGED runtime
    /\ UNCHANGED torn

\* Mutant: a failed rebuild leaves the mutated configuration in memory.
KeepMutation(c) == lock' = None /\ Step(c, Idle) /\ UNCHANGED cfg

RollBack(c) == GiveUp(c)

\* rebuild_engine_only, for the doors that only rebuild the engine.
rebuild_engine_only(c) ==
    /\ \/ /\ engine' = EngineOf(cfg)
          /\ Step(c, [req[c] EXCEPT !.pc = IF req[c].by = "bucket" THEN "create" ELSE "save"])
          /\ UNCHANGED <<cfg, lock, faults>>
       \/ Fault /\ RollBack(c) /\ UNCHANGED engine
    /\ UNCHANGED <<prefix, chain, auth, torn>>

Build(c) ==
    /\ req[c].pc = "build"
    /\ IF req[c].by \in Gated THEN apply_config_transition(c, req[c].old, req[c].new)
                              ELSE rebuild_engine_only(c)
    /\ UNCHANGED <<file, users, up, bounds>>

\* The old configuration comes back, and with it an engine built from it; a second
\* failure leaves the new engine in service.
Unwind(c) ==
    /\ GiveUp(c)
    /\ \/ engine' = EngineOf(req[c].old) /\ UNCHANGED <<torn, faults>>
       \/ Fault /\ torn' = TRUE /\ UNCHANGED engine

\* create_bucket_on_backend creates the bucket once its route is in service.
create_bucket(c) ==
    /\ req[c].pc = "create"
    /\ \/ /\ Step(c, [req[c] EXCEPT !.pc = "save"])
          /\ UNCHANGED <<cfg, lock, engine, torn, faults>>
       \/ Unwind(c)
    /\ UNCHANGED <<file, prefix, chain, auth, users, up, bounds>>

\* reconcile_declarative_iam: one transaction makes the table the declared one, and the
\* index is rebuilt from it.  When it fails, the effects before it stay.
reconcile_declarative_iam(c) ==
    /\ req[c].pc = "db"
    /\ \/ /\ users' = req[c].new.iam
          /\ auth' = build_iam_state(req[c].new.iam)
          /\ Step(c, [req[c] EXCEPT !.pc = "save"])
          /\ UNCHANGED <<cfg, lock, torn, faults>>
       \/ Fault /\ GiveUp(c) /\ torn' = TRUE /\ UNCHANGED <<users, auth>>
    /\ UNCHANGED <<file, engine, prefix, chain, up, bounds>>

\* The swap, and persist_to_file: a failure is reported and changes nothing else, but a
\* strict mutation is taken back.
persist_to_file(c) ==
    /\ req[c].pc = "save"
    /\ \/ /\ cfg' = req[c].new
          /\ file' = req[c].new
          /\ lock' = None /\ Step(c, Idle)
          /\ UNCHANGED <<engine, torn, faults>>
       \/ /\ req[c].by # "strict"
          /\ Fault
          /\ cfg' = req[c].new
          /\ lock' = None /\ Step(c, Idle)
          /\ UNCHANGED <<file, engine, torn>>
       \/ /\ req[c].by = "strict"
          /\ faults < MaxFaults
          /\ \/ /\ faults' = faults + 1
                /\ engine' = EngineOf(req[c].old)
                /\ UNCHANGED torn
             \/ /\ faults + 1 < MaxFaults
                /\ faults' = faults + 2
                /\ torn' = TRUE
                /\ UNCHANGED engine
          /\ GiveUp(c)
          /\ UNCHANGED file
    /\ UNCHANGED <<prefix, chain, auth, users, up, bounds>>

\* The client disconnects and its handler is dropped at an await.
Cancel(c) ==
    /\ cancels < MaxCancels
    /\ cancels' = cancels + 1
    /\ req[c].by \in Cancellable
    /\ req[c].pc \in {"gate", "build", "create", "db"}
    /\ lock' = None
    /\ torn' = (torn \/ req[c].by \in InPlace \/ req[c].pc = "db")
    /\ Step(c, Idle)
    /\ UNCHANGED <<cfg, file, runtime, users, up, requests, faults, crashes>>

-----------------------------------------------------------------------------
\* A user is added through the form: the mode is checked, then the row is written.
require_not_declarative(c) ==
    /\ up
    /\ req[c].pc = "idle"
    /\ lock = None
    /\ cfg.mode = "gui"
    /\ requests < MaxRequests
    /\ requests' = requests + 1
    /\ Step(c, [Idle EXCEPT !.pc = "row", !.by = "user"])
    /\ UNCHANGED <<cfg, file, runtime, users, lock, up, torn, faults, cancels, crashes>>

create_user(c) ==
    /\ req[c].pc = "row"
    /\ \E u \in Users \ users :
          LET rows == users \cup {u} \cup IF auth.creds # None THEN {Admin} ELSE {}
          IN  users' = rows /\ auth' = build_iam_state(rows)
    /\ Step(c, Idle)
    /\ UNCHANGED <<cfg, file, engine, prefix, chain, lock, up, torn, faults, bounds>>

-----------------------------------------------------------------------------
Crash ==
    /\ up
    /\ crashes < MaxCrashes
    /\ crashes' = crashes + 1
    /\ up' = FALSE
    /\ lock' = None
    /\ req' = [c \in Clients |-> Idle]
    /\ UNCHANGED <<cfg, file, runtime, users, torn, requests, faults, cancels>>

startup_declarative_action ==
    CASE file.mode # "declarative" \/ file.iam = {} -> "skip"
      [] users \ file.iam # {}                      -> "refuse"
      [] OTHER                                      -> "reconcile"

\* The process starts from the file; it exits when the declared users would delete rows.
Boot ==
    /\ ~up
    /\ startup_declarative_action # "refuse"
    /\ up' = TRUE
    /\ torn' = FALSE
    /\ cfg' = file
    /\ engine' = EngineOf(file)
    /\ prefix' = file.public /\ chain' = file.public
    /\ users' = IF startup_declarative_action = "reconcile" THEN file.iam ELSE users
    /\ auth' = startup_iam_state(users', file)
    /\ UNCHANGED <<file, lock, req, faults, bounds>>

Init ==
    /\ cfg = First /\ file = First /\ engine = EngineOf(First)
    /\ prefix = First.public /\ chain = First.public
    /\ users = {} /\ auth = startup_iam_state({}, First)
    /\ lock = None
    /\ req = [c \in Clients |-> Idle]
    /\ up = TRUE /\ torn = FALSE
    /\ requests = 0 /\ faults = 0 /\ cancels = 0 /\ crashes = 0

Handle(c) == \/ Prepare(c) \/ Lock(c) \/ Gate(c) \/ Build(c) \/ create_bucket(c)
             \/ reconcile_declarative_iam(c) \/ persist_to_file(c) \/ Cancel(c)
             \/ require_not_declarative(c) \/ create_user(c)

Next == (\E c \in Clients : Handle(c)) \/ Crash \/ Boot

Spec == Init /\ [][Next]_vars

-----------------------------------------------------------------------------
TypeOK ==
    /\ DOMAIN cfg = Fields /\ DOMAIN file = Fields
    /\ lock \in Clients \cup {None}
    /\ \A c \in Clients : req[c].pc \in {"idle", "ready", "gate", "build", "create", "db",
                                         "save", "row"}
    /\ up \in BOOLEAN /\ torn \in BOOLEAN

\* Whoever can read the configuration (the lock is free) finds it in service: the engine
\* and both snapshots are those of the configuration, whichever doors were taken, rebuilds
\* refused or failed and saves lost, unless a change was cut off in its middle.
AppliedTogether ==
    (up /\ lock = None /\ ~torn) =>
        engine = EngineOf(cfg) /\ prefix = cfg.public /\ chain = cfg.public

\* A change touches what it names: no door takes another's edit back, although a form or a
\* document may be old when it is sent, and no secret is lost because it was blanked in
\* what was shown.  A whole document replaces everything but the secrets.
Touches(r, f) ==
    \/ f \in DOMAIN r.edit
    \/ r.by = "document" /\ f \notin Secrets
    \/ f \in {"key", "legacy"} /\ "crypt" \in DOMAIN r.edit
    \/ f \in {"key", "legacy"} /\ r.by = "document" /\ r.doc.crypt # cfg.crypt

EditsKept ==
    \A f \in Fields : cfg'[f] # cfg[f] =>
        \/ ~up
        \/ lock # None /\ cfg' = req[lock].old
        \/ \E c \in Clients : lock \in {c, None} /\ req[c].pc \in {"ready", "save"}
                              /\ Touches(req[c], f)

\* The key that encrypts stays able to decrypt: a change that does not name it and finds
\* the decrypt-only slot free leaves it in one of the two places.
KeyRetained ==
    cfg' # cfg =>
        \/ ~up \/ cfg.key = None \/ cfg.legacy # None
        \/ cfg.key \in {cfg'.key, cfg'.legacy}
        \/ lock # None /\ cfg' = req[lock].old
        \/ \E c \in Clients : lock \in {c, None} /\ req[c].pc \in {"ready", "save"}
                              /\ {"key", "legacy"} \cap DOMAIN req[c].edit # {}

-----------------------------------------------------------------------------
\* What the proofs of the three rest on.

\* Encryption has its key in proxy mode only (BackendEncryptionConfig).  The patch and the
\* forms of backends and buckets have no field for it, and those that rebuild the engine
\* only have none for public prefixes.
Keyed(c) == c.crypt # "proxy" => c.key = None
Setting ==
    /\ None \notin Clients /\ Keyed(First)
    /\ \A r \in Requests :
          /\ r.by \in Gated \cup InPlace
          /\ r.by \in InPlace => {"crypt", "key"} \cap DOMAIN r.edit = {}
          /\ r.by \notin Gated => "public" \notin DOMAIN r.edit

\* A change that is worked at has the lock, and in memory is what it found, or made at once.
Holding == {"gate", "build", "create", "db", "save"}
Holds(c) ==
    /\ up /\ lock = c /\ Keyed(req[c].old)
    /\ req[c].new = Requested(req[c], req[c].old)
    /\ cfg = IF req[c].by \in InPlace THEN req[c].new ELSE req[c].old
    /\ req[c].pc = "create" => req[c].by = "bucket"
    /\ req[c].pc = "db" => req[c].by \in Gated
\* How far it got: what is in service is of the configuration it found, or of its own.
Built(c) == IF req[c].pc \in {"gate", "build"} THEN req[c].old ELSE req[c].new
Serves(c) == engine = EngineOf(c) /\ prefix = c.public /\ chain = c.public

ApplyInv ==
    /\ Keyed(cfg) /\ Keyed(file)
    /\ DOMAIN req = Clients
    /\ \A c \in Clients :
          /\ DOMAIN req[c] = DOMAIN Idle
          /\ req[c].pc \in {"idle", "ready", "row"} \cup Holding
          /\ req[c].pc \in Holding \cup {"ready"} =>
                /\ \E r \in Requests : req[c].by = r.by /\ req[c].edit = r.edit
                /\ \A f \in Secrets : req[c].doc[f] = None
          /\ req[c].pc \in Holding => Holds(c) /\ (torn \/ Serves(Built(c)))
    /\ ~up => lock = None
    /\ lock # None => lock \in Clients /\ req[lock].pc \in Holding
    /\ up /\ lock = None /\ ~torn => Serves(cfg)

-----------------------------------------------------------------------------
\* Statements of the code's comments and replies that do not hold.

\* "a concurrent state.config.read() sees the old config with the new engine": never.
NeverTorn == (up /\ lock = None) =>
                 engine = EngineOf(cfg) /\ prefix = cfg.public /\ chain = cfg.public

\* Leaving proxy encryption "preserves historical-read capability".
KeyAlwaysRetained ==
    [][cfg' # cfg =>
        \/ ~up \/ cfg.key = None
        \/ cfg.key \in {cfg'.key, cfg'.legacy}
        \/ \E c \in Clients : /\ lock \in {c, None}
                              /\ {"key", "legacy"} \cap DOMAIN req[c].edit # {}]_vars

\* "Server will revert to the on-disk config on next restart".
Restartable == ~up => startup_declarative_action # "refuse"

\* In declarative mode the rows are the declared ones.
DeclaredOnly == (up /\ lock = None /\ ~torn /\ cfg.mode = "declarative" /\ cfg.iam # {})
                    => users \subseteq cfg.iam
=============================================================================
