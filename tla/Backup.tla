------------------------------- MODULE Backup -------------------------------
(* Export and restore of a backup (api/admin/backup.rs).  A restore checks  *)
(* the archive, applies the configuration and its secrets, and then merges  *)
(* the IAM tables row by row under the database's lock: rows are matched by *)
(* name or access key, and the numbers by which rows refer to each other    *)
(* are translated through maps.  Each row is a transaction of its own, so a *)
(* row may fail, or the process die, with the rest of the rows not there;   *)
(* the operator then imports again.                                         *)
EXTENDS Naturals, FiniteSets, FiniteSetsExt, TLC

CONSTANTS
    Tables,         \* databases to export from
    Targets,        \* databases to restore into
    Ids,            \* of BOOLEAN: the backup carries the numbers of its users
    Refused,        \* access keys of users with a reserved name or invalid permissions, and
                    \* names of groups with invalid permissions
    Modes,          \* of {"full", "preserve-bootstrap", "iam-only", "config-only"}
    Hashes,         \* bootstrap hashes of backups and instances
    Faults,         \* of {"group", "user", "member", "provider", "rule", "identity", "config",
                    \* "secret", "crash"}
    MaxImports, MaxFaults, MaxPasswords,
    None

VARIABLES
    source,         \* the database the backup was taken from
    db,             \* the database here: groups, users, providers, rules, identities
    backup,         \* what the archive holds
    hash,           \* the bootstrap hash of the configuration
    dbKey,          \* the hash whose key encrypts the database
    imp,            \* the import under way: phase, rows left of the phase, maps
    before,         \* the database when the first import began
    past,           \* ghost: [whole: imports that ended without a failing row, sealed: secrets
                    \* were restored, widened: rules that lost their provider, raced: the
                    \* password was changed between the check and the write of a hash]
    imports, faults, passwords

vars == <<source, db, backup, hash, dbKey, imp, before, past, imports, faults, passwords>>

Idle == [phase |-> "idle", mode |-> None, left |-> {}, groups |-> <<>>, users |-> <<>>,
         providers |-> <<>>, joining |-> {}, clean |-> TRUE]

Next1(rows) == 1 + Max({0} \cup {r.id : r \in rows})
Fault(f) == f \in Faults /\ faults < MaxFaults /\ faults' = faults + 1
Bounds == <<imports, passwords>>

-----------------------------------------------------------------------------
\* build_iam_backup: users in the order of their numbers, groups with their members.
Position(u, users) == Cardinality({w \in users : w.id <= u.id})
build_iam_backup(d, withIds) ==
    [groups |-> {[id |-> g.id, name |-> g.name,
                  members |-> {u.id : u \in {w \in d.users : g.id \in w.groups}}]
                   : g \in d.groups},
     users |-> {[pos |-> Position(u, d.users), id |-> IF withIds THEN u.id ELSE None,
                 key |-> u.key, groups |-> u.groups] : u \in d.users},
     providers |-> d.providers, rules |-> d.rules, identities |-> d.identities]

\* Mutant: users are taken to be numbered one after the other.
ResolveByPosition(u) == u.pos

\* The number a user of the backup had: its own, or the one at its position among all
\* members of groups, or its position.
resolve_backup_user_id(u) ==
    LET members == UNION {g.members : g \in backup.groups}
        ranked == {m \in members : Cardinality({n \in members : n <= m}) = u.pos}
    IN IF u.id # None THEN u.id
       ELSE IF ranked # {} THEN CHOOSE m \in ranked : TRUE ELSE u.pos

Init ==
    /\ source \in Tables
    /\ db \in Targets
    /\ \E withIds \in Ids, h \in Hashes \cup {None} :
         backup = build_iam_backup(source, withIds) @@ [hash |-> h]
    /\ hash \in Hashes
    /\ dbKey = hash
    /\ imp = Idle
    /\ before = db
    /\ past = [whole |-> 0, sealed |-> FALSE, widened |-> {}, raced |-> FALSE]
    /\ imports = 0 /\ faults = 0 /\ passwords = 0

\* The rows a phase works on.
Rows(phase) ==
    CASE phase = "groups" -> backup.groups
      [] phase = "users" -> backup.users
      [] phase = "providers" -> backup.providers
      [] phase = "rules" -> backup.rules
      [] phase = "identities" -> backup.identities
      [] OTHER -> {}
Enter(i, phase) == [i EXCEPT !.phase = phase, !.left = Rows(phase)]

restores_config(mode) == mode \in {"full", "preserve-bootstrap", "config-only"}
restores_iam(mode) == mode \in {"full", "preserve-bootstrap", "iam-only"}
restores_bootstrap(mode) == mode \in {"full", "config-only"}

\* A hash cannot be restored over another one: it is tied to the key of the database.
backup_secret_conflict(mode) == restores_bootstrap(mode) /\ backup.hash \notin {None, hash}

\* Phase A: the archive is unpacked, verified and parsed, and a bootstrap hash that is not
\* the running one refused.
Begin(mode) ==
    /\ imp.phase = "idle" /\ imports < MaxImports
    /\ imports' = imports + 1
    /\ imp' = IF backup_secret_conflict(mode) THEN Idle
              ELSE Enter([Idle EXCEPT !.mode = mode],
                         IF restores_config(mode) THEN "config" ELSE "tables")
    /\ UNCHANGED <<source, db, backup, hash, dbKey, before, past, faults, passwords>>

\* Phase B.1: apply_config_inner, which keeps the running hash; see ConfigApply.
ApplyConfig ==
    /\ imp.phase = "config"
    /\ \/ imp' = [imp EXCEPT !.phase = "secrets"] /\ UNCHANGED faults
       \/ imp' = Idle /\ Fault("config")
    /\ UNCHANGED <<source, db, backup, hash, dbKey, before, past, Bounds>>

\* Phase B.2: the running configuration is read and checked, then changed under its lock;
\* the engine is rebuilt and the configuration persisted, either of which may fail.
ReadSecrets ==
    /\ imp.phase = "secrets"
    /\ imp' = IF backup_secret_conflict(imp.mode) THEN Idle ELSE [imp EXCEPT !.phase = "seal"]
    /\ UNCHANGED <<source, db, backup, hash, dbKey, before, past, Bounds, faults>>
WriteSecrets ==
    /\ imp.phase = "seal"
    /\ hash' = IF restores_bootstrap(imp.mode) /\ backup.hash # None THEN backup.hash ELSE hash
    /\ \/ imp' = [imp EXCEPT !.phase = "clients"] /\ UNCHANGED faults
       \/ imp' = Idle /\ Fault("secret")
    /\ UNCHANGED <<source, db, backup, dbKey, before, past, Bounds>>

\* The providers that are here are given the client secrets of the archive, by name; one
\* whose update fails keeps its own.
SecretOf(p) ==
    LET given == {q \in backup.providers : q.name = p.name}
    IN IF given = {} THEN p.secret ELSE (CHOOSE q \in given : TRUE).secret
WriteClientSecrets ==
    /\ imp.phase = "clients"
    /\ \E failed \in SUBSET db.providers :
         /\ db' = [db EXCEPT !.providers =
                     {IF p \in failed THEN p ELSE [p EXCEPT !.secret = SecretOf(p)] : p \in @}]
         /\ \/ failed = {} /\ UNCHANGED faults
            \/ failed # {} /\ Fault("secret")
    /\ past' = [past EXCEPT !.sealed = TRUE]
    /\ imp' = IF restores_iam(imp.mode) THEN Enter(imp, "tables") ELSE Idle
    /\ UNCHANGED <<source, backup, hash, dbKey, before, Bounds>>

\* Phase B.3: the database is locked, and users that are already there are mapped first.
Tabled ==
    LET known == {u \in backup.users : \E w \in db.users : w.key = u.key}
    IN [n \in {resolve_backup_user_id(u) : u \in known} |->
          (CHOOSE w \in db.users :
             \E u \in known : w.key = u.key /\ resolve_backup_user_id(u) = n).id]
LockTables ==
    /\ imp.phase = "tables"
    /\ imp' = Enter([imp EXCEPT !.users = Tabled], "groups")
    /\ UNCHANGED <<source, db, backup, hash, dbKey, before, past, Bounds, faults>>

\* The next row, by number: rows are imported in the order of the archive.
Order(r) == IF imp.phase = "users" THEN r.pos ELSE r.id
NextRow(r) == r \in imp.left /\ \A s \in imp.left : Order(r) <= Order(s)
Skip(r) == [imp EXCEPT !.left = @ \ {r}]
Failing(r) == [imp EXCEPT !.left = @ \ {r}, !.clean = FALSE]

\* Groups are matched by name; a new one with invalid permissions is left out.
ImportGroup ==
    /\ imp.phase = "groups"
    /\ \E g \in imp.left :
         LET there == {h \in db.groups : h.name = g.name}
             new == Next1(db.groups)
         IN /\ NextRow(g)
            /\ \/ /\ there # {}
                  /\ imp' = [Skip(g) EXCEPT !.groups = g.id :> (CHOOSE h \in there : TRUE).id @@ @]
                  /\ UNCHANGED <<db, faults>>
               \/ /\ there = {} /\ g.name \in Refused
                  /\ imp' = Skip(g)
                  /\ UNCHANGED <<db, faults>>
               \/ /\ there = {} /\ g.name \notin Refused
                  /\ db' = [db EXCEPT !.groups = @ \cup {[id |-> new, name |-> g.name]}]
                  /\ imp' = [Skip(g) EXCEPT !.groups = g.id :> new @@ @]
                  /\ UNCHANGED faults
               \/ /\ there = {} /\ g.name \notin Refused /\ Fault("group")
                  /\ imp' = Failing(g)
                  /\ UNCHANGED db
    /\ UNCHANGED <<source, backup, hash, dbKey, before, past, Bounds>>

\* Users are matched by access key; one that is there keeps its groups.  A new one is put
\* into its groups afterwards, one by one, and what fails of that is let be.
ImportUser ==
    /\ imp.phase = "users" /\ imp.joining = {}
    /\ \E u \in imp.left :
         LET new == Next1(db.users) IN
         /\ NextRow(u)
         /\ \/ /\ u.key \in Refused \/ \E w \in db.users : w.key = u.key
               /\ imp' = Skip(u)
               /\ UNCHANGED <<db, faults>>
            \/ /\ u.key \notin Refused /\ ~\E w \in db.users : w.key = u.key
               /\ \/ /\ db' = [db EXCEPT !.users = @ \cup
                                {[id |-> new, key |-> u.key, groups |-> {}]}]
                     /\ imp' = [Skip(u) EXCEPT
                                 !.users = resolve_backup_user_id(u) :> new @@ @,
                                 !.joining = {imp.groups[g] : g \in u.groups \cap DOMAIN imp.groups}]
                     /\ UNCHANGED faults
                  \/ Fault("user") /\ imp' = Failing(u) /\ UNCHANGED db
    /\ UNCHANGED <<source, backup, hash, dbKey, before, past, Bounds>>

\* add_user_to_group, for the user created last.
JoinGroup ==
    /\ imp.phase = "users"
    /\ \E g \in imp.joining, u \in db.users :
         /\ \A h \in imp.joining : g <= h
         /\ u.id = Max({w.id : w \in db.users})
         /\ \/ /\ db' = [db EXCEPT !.users = (@ \ {u}) \cup {[u EXCEPT !.groups = @ \cup {g}]}]
               /\ imp' = [imp EXCEPT !.joining = @ \ {g}]
               /\ UNCHANGED faults
            \/ /\ Fault("member")
               /\ imp' = [imp EXCEPT !.joining = @ \ {g}, !.clean = FALSE]
               /\ UNCHANGED db
    /\ UNCHANGED <<source, backup, hash, dbKey, before, past, Bounds>>

\* Providers are matched by name.
ImportProvider ==
    /\ imp.phase = "providers"
    /\ \E p \in imp.left :
         LET there == {q \in db.providers : q.name = p.name}
             new == Next1(db.providers)
         IN /\ NextRow(p)
            /\ \/ /\ there # {}
                  /\ imp' = [Skip(p) EXCEPT
                               !.providers = p.id :> (CHOOSE q \in there : TRUE).id @@ @]
                  /\ UNCHANGED <<db, faults>>
               \/ /\ there = {}
                  /\ db' = [db EXCEPT !.providers = @ \cup {[p EXCEPT !.id = new]}]
                  /\ imp' = [Skip(p) EXCEPT !.providers = p.id :> new @@ @]
                  /\ UNCHANGED faults
               \/ there = {} /\ Fault("provider") /\ imp' = Failing(p) /\ UNCHANGED db
    /\ UNCHANGED <<source, backup, hash, dbKey, before, past, Bounds>>

\* A mapping rule without a provider is for every provider, and so is one whose provider
\* was not restored.
ImportRule ==
    /\ imp.phase = "rules"
    /\ \E r \in imp.left :
         LET here == r.provider \in DOMAIN imp.providers
             row == [id |-> Next1(db.rules), group |-> imp.groups[r.group],
                     provider |-> IF here THEN imp.providers[r.provider] ELSE None]
         IN /\ NextRow(r)
            /\ \/ /\ r.group \notin DOMAIN imp.groups
                  /\ imp' = Skip(r)
                  /\ UNCHANGED <<db, past, faults>>
               \/ /\ r.group \in DOMAIN imp.groups
                  /\ imp' = Skip(r)
                  /\ db' = [db EXCEPT !.rules = @ \cup {row}]
                  /\ past' = IF here \/ r.provider = None THEN past
                             ELSE [past EXCEPT !.widened = @ \cup {row.id}]
                  /\ UNCHANGED faults
               \/ /\ r.group \in DOMAIN imp.groups /\ Fault("rule")
                  /\ imp' = Failing(r)
                  /\ UNCHANGED <<db, past>>
    /\ UNCHANGED <<source, backup, hash, dbKey, before, Bounds>>

\* An identity needs its user and its provider, and is added once.
ImportIdentity ==
    /\ imp.phase = "identities"
    /\ \E i \in imp.left :
         LET known == i.user \in DOMAIN imp.users /\ i.provider \in DOMAIN imp.providers
             row == [id |-> Next1(db.identities), sub |-> i.sub, user |-> imp.users[i.user],
                     provider |-> imp.providers[i.provider]]
             fresh == ~\E j \in db.identities : j.sub = i.sub /\ j.provider = row.provider
         IN /\ NextRow(i)
            /\ \/ /\ ~(known /\ fresh)
                  /\ imp' = Skip(i)
                  /\ UNCHANGED <<db, faults>>
               \/ /\ known /\ fresh
                  /\ db' = [db EXCEPT !.identities = @ \cup {row}]
                  /\ imp' = Skip(i)
                  /\ UNCHANGED faults
               \/ known /\ fresh /\ Fault("identity") /\ imp' = Failing(i) /\ UNCHANGED db
    /\ UNCHANGED <<source, backup, hash, dbKey, before, past, Bounds>>

Following == [groups |-> "users", users |-> "providers", providers |-> "rules",
              rules |-> "identities"]
PhaseDone ==
    /\ imp.phase \in DOMAIN Following \cup {"identities"} /\ imp.left = {}
    /\ imp.joining = {}
    /\ IF imp.phase = "identities"
       THEN imp' = Idle /\ past' = [past EXCEPT !.whole = @ + (IF imp.clean THEN 1 ELSE 0)]
       ELSE imp' = Enter(imp, Following[imp.phase]) /\ UNCHANGED past
    /\ UNCHANGED <<source, db, backup, hash, dbKey, before, Bounds, faults>>

\* The administrator changes the password: the database is rekeyed and the hash replaced.
ChangePassword(h) ==
    /\ passwords < MaxPasswords /\ h # hash
    /\ passwords' = passwords + 1
    /\ hash' = h /\ dbKey' = h
    /\ past' = [past EXCEPT !.raced = @ \/ imp.phase = "seal"]
    /\ UNCHANGED <<source, db, backup, imp, before, imports, faults>>

Crash ==
    /\ imp.phase # "idle" /\ Fault("crash")
    /\ imp' = Idle
    /\ UNCHANGED <<source, db, backup, hash, dbKey, before, past, Bounds>>

Next ==
    \/ \E mode \in Modes : Begin(mode)
    \/ ApplyConfig \/ ReadSecrets \/ WriteSecrets \/ WriteClientSecrets \/ LockTables
    \/ ImportGroup \/ ImportUser \/ JoinGroup \/ ImportProvider \/ ImportRule \/ ImportIdentity
    \/ PhaseDone \/ Crash
    \/ \E h \in Hashes : ChangePassword(h)

Spec == Init /\ [][Next]_vars

-----------------------------------------------------------------------------
KeyOf(d, n) == {u.key : u \in {w \in d.users : w.id = n}}
NameOf(rows, n) == {g.name : g \in {h \in rows : h.id = n}}

TypeOK ==
    /\ \A t \in {"groups", "users", "providers", "rules", "identities"} :
         Cardinality({r.id : r \in db[t]}) = Cardinality(db[t])
    /\ imp.left \subseteq Rows(imp.phase)
    /\ past.whole <= imports

\* A row here means what some row of the database the backup is from meant there.
SameIdentity(i) ==
    \E j \in source.identities :
      /\ j.sub = i.sub
      /\ KeyOf(db, i.user) = KeyOf(source, j.user)
      /\ NameOf(db.providers, i.provider) = NameOf(source.providers, j.provider)
SameRule(r, s) ==
    /\ NameOf(db.groups, r.group) = NameOf(source.groups, s.group)
    /\ NameOf(db.providers, r.provider) = NameOf(source.providers, s.provider)
GroupsOf(d, u) == UNION {NameOf(d.groups, g) : g \in u.groups}

\* The users of the archive can be told by number: it carries the numbers, or every user is
\* in a group that lists them.
Traceable ==
    \A u \in backup.users : u.id # None \/ u.groups # {}

\* The users that were not there before are in their groups again.
MembersBack ==
    \A u \in db.users \ before.users, w \in source.users :
      u.key = w.key => GroupsOf(source, w) \ Refused \subseteq GroupsOf(db, u)

\* Whatever fails and however often a restore is repeated, an imported login is bound to the
\* user it belonged to, if the archive's users can be told; a rule leads to its group, and for
\* its provider only, unless that was not restored; and a user is in no group that it was not
\* in.  What was there before stays as it was, but for the client secret of a provider that
\* the archive has too, once its secrets were restored.
NobodyElse ==
    /\ Traceable => \A i \in db.identities \ before.identities : SameIdentity(i)
    /\ \A r \in db.rules \ before.rules :
         \E s \in source.rules :
           SameRule(r, IF r.id \in past.widened THEN [s EXCEPT !.provider = None] ELSE s)
    /\ \A u \in db.users \ before.users :
         \E w \in source.users : w.key = u.key /\ GroupsOf(db, u) \subseteq GroupsOf(source, w)
    /\ \A t \in {"groups", "users", "rules", "identities"} : before[t] \subseteq db[t]
    /\ \A p \in before.providers :
         p \in db.providers \/ (past.sealed /\ [p EXCEPT !.secret = SecretOf(p)] \in db.providers)

\* After a restore without a failing row everything that could be imported is there: groups,
\* users, providers, rules for their group and provider, and logins; and, if nothing failed
\* or died before either, the new users are back in their groups.
Restored ==
    past.whole > 0 =>
      /\ {g.name : g \in source.groups} \ Refused \subseteq {g.name : g \in db.groups}
      /\ {u.key : u \in source.users} \ Refused \subseteq {u.key : u \in db.users}
      /\ {p.name : p \in source.providers} \subseteq {p.name : p \in db.providers}
      /\ \A s \in source.rules :
           NameOf(source.groups, s.group) \cap Refused = {} => \E r \in db.rules : SameRule(r, s)
      /\ Traceable => \A j \in source.identities :
           KeyOf(source, j.user) \cap Refused = {} =>
             \E i \in db.identities :
               /\ i.sub = j.sub
               /\ NameOf(db.providers, i.provider) = NameOf(source.providers, j.provider)
      /\ faults = 0 => MembersBack

\* The database opens with the hash of the configuration (apply_secrets refuses another),
\* unless the password was changed between that check and the write.
KeyFits == past.raced \/ hash = dbKey

-----------------------------------------------------------------------------
\* What does not hold: a login is bound to its user whatever the archive carries, a rule is
\* for its provider, the key fits, and a repeated restore adds no rule twice.
LoginsBound == \A i \in db.identities \ before.identities : SameIdentity(i)
RulesBound == \A r \in db.rules \ before.rules : \E s \in source.rules : SameRule(r, s)
KeyAlwaysFits == hash = dbKey
RulesOnce == \A r, s \in db.rules : r.group = s.group /\ r.provider = s.provider => r = s
=============================================================================
