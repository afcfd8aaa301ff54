------------------------------ MODULE BootKey ------------------------------
(***************************************************************************)
(* The bootstrap password hash, which is also the key of the encrypted IAM *)
(* database: where a boot finds it (config/mod.rs), what a boot does with a *)
(* database it cannot open (startup.rs: preserve, lock, promote), and the  *)
(* change of the password while the node runs (admin/config/password.rs).  *)
(*                                                                         *)
(* A database file is its key and the users stored in it.  The process may *)
(* die between any two file operations, and the operator restarts it with  *)
(* whichever hash the environment then holds.                              *)
(***************************************************************************)
EXTENDS Naturals, FiniteSets

CONSTANTS
    Hashes,         \* password hashes
    Admins,         \* clients that change the password
    MaxBoots,       \* bound: starts of the process
    MaxUsers,       \* bound: users created through the admin API
    MaxFaults,      \* bound: crashes and failed file operations
    None, Blank     \* no file; a file that is truncated and not yet written

VARIABLES
    live,           \* the database file: None or [key, users]
    bak,            \* .db.bak
    discarded,      \* .db.discarded
    file,           \* .deltaglider_bootstrap_hash
    env,            \* the hash in the environment or the configuration file
    used,           \* the hashes that exist so far
    phase,          \* "down", "open", "promote" (half done) or "up"
    memory,         \* password_hash of the running process
    hasDb,          \* the process opened a database
    locked,         \* config_db_mismatch: the S3 API answers nothing
    req,            \* the password changes in progress
    created,        \* users created so far
    boots, faults

vars == <<live, bak, discarded, file, env, used, phase, memory, hasDb, locked, req,
          created, boots, faults>>
files == <<live, bak, discarded>>

Idle == [pc |-> "idle"]
Db(key, users) == [key |-> key, users |-> users]
Dbs == [key : Hashes, users : SUBSET (0 .. MaxUsers)]

TypeOK ==
    /\ {live, bak, discarded} \subseteq Dbs \cup {None}
    /\ file \in Hashes \cup {None, Blank}
    /\ env \in Hashes \cup {None}
    /\ phase \in {"down", "open", "promote", "up"}
    /\ memory \in Hashes \cup {None}
    /\ locked \in BOOLEAN /\ hasDb \in BOOLEAN
    /\ \A a \in Admins : req[a].pc \in {"idle", "rekey", "truncate", "write", "revert", "swap"}

Fault == faults < MaxFaults /\ faults' = faults + 1

----------------------------------------------------------------------------
(* Boot.                                                                   *)

\* open_or_create: a missing file is created, an existing one needs its key.
Opens(db, hash) == db # None => db.key = hash

\* The hash of the environment or the configuration, else the state file.  An
\* unreadable or empty file counts as none.
Configured == IF env # None THEN env ELSE IF file \in Hashes THEN file ELSE None

\* The process starts with the environment the operator left it.  Without a
\* configured hash it makes one up and tries to store it.
ensure_bootstrap_password_hash ==
    /\ phase = "down"
    /\ boots < MaxBoots
    /\ boots' = boots + 1
    /\ phase' = "open"
    /\ \/ /\ Configured # None
          /\ memory' = Configured
          /\ UNCHANGED <<file, used, faults>>
       \/ /\ Configured = None
          /\ \E h \in Hashes \ used :
                /\ memory' = h
                /\ used' = used \cup {h}
                /\ \/ file' = h /\ UNCHANGED faults
                   \/ Fault /\ UNCHANGED file
    /\ UNCHANGED <<live, bak, discarded, env, hasDb, locked, req, created>>

\* Mutant: the live file becomes the backup whatever the backup holds.
AlwaysPreserve(db, backup) == db # None

should_preserve_as_backup(db, backup) == db # None /\ backup = None

\* A backup that this hash does not open beside an empty database: the mismatch
\* is not resolved, and the node stays locked.
classify_lingering_bak(backup, hash, db) ==
    /\ backup # None
    /\ ~Opens(backup, hash)
    /\ db.users = {}

\* A backup that opens and has users: the operator is back with its password.
probe_bak_users(backup, hash) == backup # None /\ backup.key = hash /\ backup.users # {}

Running(isLocked, opened) == phase' = "up" /\ locked' = isLocked /\ hasDb' = opened

init_config_db ==
    /\ phase = "open"
    /\ \/ \* The database opens.
          /\ Opens(live, memory)
          /\ live' = IF live = None THEN Db(memory, {}) ELSE live
          /\ Running(classify_lingering_bak(bak, memory, live'), TRUE)
          /\ UNCHANGED <<bak, discarded, faults>>
       \/ \* The backup is the database of this hash: promote_backup_db parks the
          \* live file, moves the backup into its place, and opens it.
          /\ ~Opens(live, memory)
          /\ probe_bak_users(bak, memory)
          /\ \/ /\ discarded' = live
                /\ live' = None
                /\ phase' = "promote"
                /\ UNCHANGED <<bak, locked, hasDb, faults>>
             \/ /\ Fault
                /\ Running(TRUE, FALSE)
                /\ UNCHANGED <<live, bak, discarded>>
       \/ \* The live file is preserved as the backup, unless there is one, and a
          \* fresh database takes its place.
          /\ ~Opens(live, memory)
          /\ ~probe_bak_users(bak, memory)
          /\ IF should_preserve_as_backup(live, bak)
             THEN \/ /\ bak' = live
                     /\ live' = Db(memory, {})
                     /\ Running(TRUE, TRUE)
                     /\ UNCHANGED <<discarded, faults>>
                  \/ /\ Fault
                     /\ Running(TRUE, FALSE)
                     /\ UNCHANGED files
             ELSE Running(TRUE, FALSE) /\ UNCHANGED <<live, bak, discarded, faults>>
    /\ UNCHANGED <<file, env, used, memory, req, created, boots>>

\* The second rename of promote_backup_db; when it fails the first is undone.
promote_backup_db ==
    /\ phase = "promote"
    /\ \/ /\ live' = bak
          /\ bak' = None
          /\ phase' = "open"
          /\ UNCHANGED <<discarded, locked, hasDb, faults>>
       \/ /\ Fault
          /\ live' = discarded
          /\ discarded' = None
          /\ Running(TRUE, FALSE)
          /\ UNCHANGED bak
    /\ UNCHANGED <<file, env, used, memory, req, created, boots>>

----------------------------------------------------------------------------
(* The running node.                                                       *)

\* A user is created through the admin API, which is not locked.
AddUser ==
    /\ phase = "up"
    /\ hasDb
    /\ created < MaxUsers
    /\ created' = created + 1
    /\ live' = [live EXCEPT !.users = @ \cup {created'}]
    /\ UNCHANGED <<bak, discarded, file, env, used, phase, memory, hasDb, locked, req, boots, faults>>

Goto(a, state) == req' = [req EXCEPT ![a] = state]

\* The current password is verified against the hash of this moment, and the
\* new hash is made.
change_password(a) ==
    /\ phase = "up"
    /\ req[a].pc = "idle"
    /\ \E h \in Hashes \ used :
        /\ used' = used \cup {h}
        /\ Goto(a, [pc |-> IF hasDb THEN "rekey" ELSE "truncate", current |-> memory, new |-> h])
    /\ UNCHANGED <<live, bak, discarded, file, env, phase, memory, hasDb, locked, created, boots, faults>>

\* The database gets the new key first; when that fails nothing else changes.
Rekey(a) ==
    /\ req[a].pc = "rekey"
    /\ \/ /\ live' = [live EXCEPT !.key = req[a].new]
          /\ Goto(a, [req[a] EXCEPT !.pc = "truncate"])
          /\ UNCHANGED faults
       \/ /\ Fault
          /\ Goto(a, Idle)
          /\ UNCHANGED live
    /\ UNCHANGED <<bak, discarded, file, env, used, phase, memory, hasDb, locked, created, boots>>

\* write_bootstrap_hash_file truncates the file in place ...
Truncate(a) ==
    /\ req[a].pc = "truncate"
    /\ \/ /\ file' = Blank
          /\ Goto(a, [req[a] EXCEPT !.pc = "write"])
          /\ UNCHANGED faults
       \/ /\ Fault
          /\ Goto(a, [req[a] EXCEPT !.pc = "revert"])
          /\ UNCHANGED file
    /\ UNCHANGED <<live, bak, discarded, env, used, phase, memory, hasDb, locked, created, boots>>

\* ... and writes the new hash.
write_bootstrap_hash_file(a) ==
    /\ req[a].pc = "write"
    /\ \/ /\ file' = req[a].new
          /\ Goto(a, [req[a] EXCEPT !.pc = "swap"])
          /\ UNCHANGED faults
       \/ /\ Fault
          /\ Goto(a, [req[a] EXCEPT !.pc = "revert"])
          /\ UNCHANGED file
    /\ UNCHANGED <<live, bak, discarded, env, used, phase, memory, hasDb, locked, created, boots>>

Reverted(a) == IF hasDb THEN [live EXCEPT !.key = req[a].current] ELSE live

\* The hash was not stored: the database goes back to the old key.
Revert(a) ==
    /\ req[a].pc = "revert"
    /\ \/ live' = Reverted(a) /\ UNCHANGED faults
       \/ Fault /\ UNCHANGED live
    /\ Goto(a, Idle)
    /\ UNCHANGED <<bak, discarded, file, env, used, phase, memory, hasDb, locked, created, boots>>

\* The running process takes the new hash.
Swap(a) ==
    /\ req[a].pc = "swap"
    /\ memory' = req[a].new
    /\ Goto(a, Idle)
    /\ UNCHANGED <<live, bak, discarded, file, env, used, phase, hasDb, locked, created, boots, faults>>

\* The process ends, at any point, and is started with the same environment.
Crash ==
    /\ phase # "down"
    /\ Fault
    /\ phase' = "down"
    /\ memory' = None
    /\ hasDb' = FALSE
    /\ locked' = FALSE
    /\ req' = [a \in Admins |-> Idle]
    /\ UNCHANGED <<live, bak, discarded, file, env, used, created, boots>>

\* The operator stops the idle node and gives it another hash, or none.
Restart(h) ==
    /\ phase = "up"
    /\ \A a \in Admins : req[a].pc = "idle"
    /\ env' = h
    /\ used' = IF h = None THEN used ELSE used \cup {h}
    /\ phase' = "down"
    /\ memory' = None
    /\ hasDb' = FALSE
    /\ locked' = FALSE
    /\ UNCHANGED <<live, bak, discarded, file, req, created, boots, faults>>

Reconfigure == \E h \in Hashes \cup {None} : Restart(h)

\* recover_db tells the operator of a locked node whether a hash opens the preserved
\* backup, and changes nothing itself; the operator restarts with that hash.
recover_db ==
    /\ locked /\ bak # None
    /\ \E h \in used : Opens(bak, h) /\ Restart(h)

----------------------------------------------------------------------------

\* A node that has run before: one user, and the hash in the state file.
Init ==
    /\ \E h \in Hashes :
        /\ live = Db(h, {0})
        /\ file = h
        /\ used = {h}
    /\ bak = None
    /\ discarded = None
    /\ env = None
    /\ phase = "down"
    /\ memory = None
    /\ hasDb = FALSE
    /\ locked = FALSE
    /\ req = [a \in Admins |-> Idle]
    /\ created = 0
    /\ boots = 0
    /\ faults = 0

Next ==
    \/ ensure_bootstrap_password_hash
    \/ init_config_db
    \/ promote_backup_db
    \/ AddUser
    \/ \E a \in Admins :
        \/ change_password(a)
        \/ Rekey(a)
        \/ Truncate(a)
        \/ write_bootstrap_hash_file(a)
        \/ Revert(a)
        \/ Swap(a)
    \/ Crash
    \/ Reconfigure
    \/ recover_db

Spec == Init /\ [][Next]_vars

----------------------------------------------------------------------------
(* Properties.                                                             *)

\* The users of record: those put aside in .db.bak, else those of the database.
OfRecord == IF bak # None /\ bak.users # {} THEN bak.users
            ELSE IF live # None THEN live.users ELSE {}

\* No step loses one of them: a database that cannot be opened is put aside once, and the
\* backup only ever goes back to being the database, however often the node is started
\* with a wrong hash, or dies, in between.
RecordKept == OfRecord \subseteq OfRecord'

\* A boot that finds the users in a backup which its hash does not open never
\* serves S3 requests from an empty user database, after any sequence of
\* restarts and password changes: the node would be open, or fall back to the
\* legacy credentials.
ParkedStaysLocked ==
    /\ phase # "up" /\ phase' = "up" /\ ~locked'
    /\ bak' # None /\ bak'.users # {} /\ bak'.key # memory'
    => live'.users # {}

\* No node that serves S3 requests has an empty user database beside a backup
\* with users, the readable backups included.
ParkedIsNeverEmpty ==
    phase = "up" /\ ~locked /\ bak # None /\ bak.users # {} => live.users # {}

\* After a password change, successful or reverted, a restart finds the hash
\* that opens the database.
RestartOpens ==
    phase = "up" /\ hasDb /\ ~locked /\ (\A a \in Admins : req[a].pc = "idle") =>
        Configured = live.key

\* The parked database of promote_backup_db is kept.
DiscardedKept == [][discarded # None => discarded' = discarded]_vars

----------------------------------------------------------------------------
(* What the proof of RecordKept rests on.                                  *)

Setting == None \notin Dbs /\ MaxUsers \in Nat

\* A node that serves has a database unless it could not open one, changes its password
\* only while it runs, and moves a backup with users into an empty place.
Changes == [pc : {"rekey", "truncate", "write", "revert", "swap"}, current : Hashes, new : Hashes]
BootInv ==
    /\ {live, bak, discarded} \subseteq Dbs \cup {None}
    /\ used \subseteq Hashes /\ env \in Hashes \cup {None} /\ (phase # "down" => memory \in Hashes)
    /\ hasDb => phase = "up" /\ live # None
    /\ phase = "promote" => live = None /\ bak # None /\ bak.users # {}
    /\ created \in Nat
    /\ req \in [Admins -> {Idle} \cup Changes]
    /\ \A a \in Admins : (req[a] # Idle => phase = "up") /\ (req[a].pc = "rekey" => hasDb)
=============================================================================
