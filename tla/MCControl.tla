----------------------------- MODULE MCControl -----------------------------
(* What administrators and clients do to the control plane, in one run of  *)
(* parts of their own: the synchronised configuration database with its    *)
(* sessions, and how far a revocation spreads; requests on their way to    *)
(* the handler, unsigned ones while configurations are published, signed   *)
(* ones under retries and lockouts; the restore of a backup, row by row;   *)
(* and people who sign in through a provider while administrators and      *)
(* documents change who they are; what blocks, public prefixes and         *)
(* permissions let through; and what a node finds out about its backends   *)
(* and the coordination bucket.  The last part's variables are those of    *)
(* Health, at rest in the others; theirs are at None in it and in each     *)
(* other's.                                                                *)
EXTENDS Health, TLC

CONSTANTS a, b, h1, h2, Blank, Parts

VARIABLES
    part,
    now, index, up, req, faults, prefix, chain, requests,             \* shared
    db, sess, revs, login, adm, etag, needs, waiting, poll, remote, lost, edits,
    logins, trouble,                                                          \* ConfigSync
    conf, replay, limit, accepted, evicted, late, confs,              \* Access
    source, backup, hash, dbKey, imp, before, past, imports, passwords,  \* Backup
    tables, manager, pending, visits, editors, mode, document, drifted, banned, culled,
    counts,                                                           \* Identity
    policy, blocks, user, team, told, writes                          \* Policy

Shared == <<now, index, up, req, faults, prefix, chain, requests>>
SyncVars == <<db, sess, revs, login, adm, etag, needs, waiting, poll, remote, lost,
              edits, logins, trouble>>
AccessVars == <<conf, replay, limit, accepted, evicted, late, confs>>
BackupVars == <<source, backup, hash, dbKey, imp, before, past, imports, passwords>>
PeopleVars == <<tables, manager, pending, visits, editors, mode, document, drifted, banned,
                culled, counts>>
PolicyVars == <<policy, blocks, user, team, told, writes>>
all == <<part, vars, PolicyVars, PeopleVars, Shared, SyncVars, AccessVars, BackupVars>>

-----------------------------------------------------------------------------
\* Backends: the service is in order, ignores conditions behind a key that may not list
\* buckets, is away, or refuses the key.
Behaves(list, head, put) == [list |-> list, head |-> head, put |-> put]
Good == Behaves("ok", "ok", "enforces")
Plain == Behaves("denied", "denied", "ignores")
Gone == Behaves("silent", "silent", "fails")
Barred == Behaves("rejected", "rejected", "fails")
AllConditions == {Good, Plain, Gone, Barred}
SomeWorlds == {("d1" :> Good) @@ ("d2" :> Plain), ("d1" :> Good) @@ ("d2" :> Gone)}

\* One bucket, routed to the backend "cold" or not, beside the singleton.
Doc(own, defs, pick, route, only, multi) ==
    [own |-> own, list |-> [i \in 1..Len(defs) |-> [name |-> "cold", def |-> defs[i]]],
     pick |-> pick, route |-> ("k" :> route) @@ ("staging" :> None), only |-> only,
     multi |-> multi]
FirstDoc == Doc("d1", <<"d1">>, "cold", "cold", {}, TRUE)
MoreDocs == {FirstDoc, Doc("d1", <<"d2">>, "cold", "cold", {}, TRUE),
             Doc("d1", <<"d2">>, "cold", "cold", {"k"}, TRUE),
             Doc("d1", <<"d2">>, None, None, {}, TRUE), Doc("d2", <<>>, None, None, {}, FALSE)}

\* Restarts beside a booting peer, over the age of the witness.
W == INSTANCE Health WITH
        Peers <- {h2}, Worlds <- {("d1" :> Good) @@ ("d2" :> Plain)}, Docs <- {},
        MaxClock <- 2, MaxChanges <- 1, MaxCalls <- 0, MaxStarts <- 1

\* Sessions of one key on two nodes, with logins, revocations and merges.
S == INSTANCE ConfigSync WITH
        Nodes <- {a, b}, Keys <- {1}, Legacy <- {}, Pollers <- {"poll"},
        Skew <- [n \in {a, b} |-> 0], Muted <- {}, Faults <- {"read"}, Attempts <- 2,
        MaxSessions <- 1, Ttl <- 2, MaxTime <- 2, MaxEdits <- 2, MaxLogins <- 1,
        MaxTrouble <- 1

\* Revocations and row changes on two nodes, one of which may not sync, with failing uploads
\* and merges, clients that go away, and crashes.
R == INSTANCE ConfigSync WITH
        Nodes <- {a, b}, Keys <- {1, 2}, Legacy <- {}, Pollers <- {"poll"},
        Skew <- [n \in {a, b} |-> 0], Muted <- {b},
        Faults <- {"store", "db", "read", "gone", "crash"}, Attempts <- 1,
        MaxSessions <- 1, Ttl <- 2, MaxTime <- 1, MaxEdits <- 2, MaxLogins <- 0,
        MaxTrouble <- 1

Kind(op, key, id, sig) == [op |-> op, key |-> key, id |-> id, sig |-> sig, until |-> None]
Presigned(op, key, id, until) ==
    [op |-> op, key |-> key, id |-> id, sig |-> None, until |-> until]
Conf(public, block) == [public |-> public, block |-> block]

\* Unsigned reads while configurations are published.
U == INSTANCE Access WITH
        Clients <- {a, b}, Known <- {1}, Window <- 2, Lockout <- 2, MaxAttempts <- 2,
        MaxReplay <- 4, MaxTime <- 0, MaxConfs <- 2, MaxRequests <- 2,
        Grants <- {<<"write", 1>>, <<"read", 1>>},
        Kinds <- {Kind("read", 1, None, None), Kind("read", 2, None, None)},
        Confs <- {Conf({}, "none"), Conf({1}, "none"), Conf({2}, "none"),
                  Conf({1, 2}, "deny")}

\* Signed requests: retries of writes beyond what the replay cache holds, attempts with an
\* unknown access key beyond the lockout, a presigned URL.
G == INSTANCE Access WITH
        Clients <- {a, b}, Known <- {1}, Window <- 2, Lockout <- 2, MaxAttempts <- 2,
        MaxReplay <- 1, MaxTime <- 3, MaxConfs <- 0, MaxRequests <- 4,
        Grants <- {<<"write", 1>>, <<"read", 1>>},
        Kinds <- {Kind("write", 1, 1, "s"), Kind("read", 1, 1, "r"),
                  Kind("write", 1, 2, "u"), Presigned("write", 1, 1, 1)},
        Confs <- {Conf({1}, "none")}

Allow(actions, resources) ==
    [effect |-> "allow", actions |-> actions, resources |-> resources, cond |-> None]
Deny(actions, resources) == [Allow(actions, resources) EXCEPT !.effect = "Deny"]
When(cond, permission) == [permission EXCEPT !.cond = cond]
Public(everything, prefixes) == [public |-> everything, prefixes |-> prefixes]
Block(method, glob, signed, flag, action) ==
    [method |-> method, bucket |-> None, glob |-> glob, signed |-> signed, flag |-> flag,
     action |-> action]
Home == Allow({"*"}, {<<"b", "/", "$name", "/", "*">>})

\* A bucket of two directories whose names begin alike, of objects with their bare names, and
\* of the homes of users with a separator and a wildcard for a name.
I == INSTANCE Policy WITH
        Bucket <- <<"b">>, Unreadable <- Blank, MaxWrites <- 2,
        Keys <- {<<"a">>, <<"a", "a">>, <<"a", "/", "a">>, <<"a", "/">>, <<"a", "a", "/", "a">>,
                 <<"c">>, <<"%2F", "/", "a">>, <<"%2A", "/", "a">>, <<"/", "/", "a">>},
        Asked <- {<<>>, <<"a">>, <<"a", "/">>, <<"c">>},
        Policies <-
            {Public(TRUE, {}), Public(TRUE, {<<"a", "/">>}), Public(FALSE, {<<"a", "/">>, <<"/">>}),
             Public(None, {<<"a">>, <<"c", "/">>}), Public(None, {<<"/", "/", "a", "/">>}),
             Public(None, {<<>>, <<"a", "/">>}), Public(None, {<<"a", "/", "/">>, <<"/">>}),
             Public(None, {<<>>})},
        BlockLists <-
            {<<Block({"GET"}, <<"a", "*">>, None, None, "deny")>>,
             <<Block(None, None, None, "maintenance_mode", "reject"),
               Block(None, <<"c">>, None, None, "allow")>>,
             <<Block({}, None, None, None, "deny")>>,
             <<Block({"PUT"}, None, FALSE, None, "reject"),
               Block({"GET"}, None, TRUE, None, "continue"),
               Block(None, None, None, None, "deny")>>},
        Names <- {<<"a">>, <<"/">>, <<"*">>},
        Grants <-
            {{Home}, {Allow({"read"}, {<<"b", "/", "a", "*">>})},
             {Allow({"read", "list"}, {<<"b", "/", "*">>}),
              Deny({"*"}, {<<"b", "/", "a", "/", "*">>})},
             {Allow({"list"}, {<<"b">>})},
             {When({<<"a">>, <<"a", "/", "*">>}, Allow({"list"}, {<<"b">>}))},
             {Allow({"*"}, {<<"*">>}), Deny({"read"}, {<<"b", "/", "c">>})},
             {Allow({"read"}, {<<"b", "/", "*", "/", "a">>})},
             {Allow({"read"}, {<<"b", "/", "$other">>})},
             {When(Blank, Allow({"read"}, {<<"*">>}))}, {Allow({"fly"}, {<<"*">>})},
             {Allow({"list"}, {<<"b", "/", "a", "/", "*">>}),
              Allow({"write"}, {<<"b", "/", "*">>})}},
        TeamGrants <-
            {{Home}, {Deny({"list"}, {<<"b", "/", "a", "a", "*">>})},
             {When({<<>>}, Allow({"list"}, {<<"b">>}))}, {Allow({"read"}, {<<"b", "/", "a">>})}}

Group(n, name) == [id |-> n, name |-> name]
User(n, name, member) == [id |-> n, key |-> name, groups |-> member]
Rule(n, group, provider) == [id |-> n, group |-> group, provider |-> provider]
Identity(n, sub, who, provider) ==
    [id |-> n, sub |-> sub, user |-> who, provider |-> provider]
Database(g, u, p, r, i) ==
    [groups |-> g, users |-> u, providers |-> p, rules |-> r, identities |-> i]

Vendor(n, name, secret) == [id |-> n, name |-> name, secret |-> secret]

\* Numbers with gaps: users 2, 5 and 6, of which the first may be in no group, and a group
\* that is refused.
Gaps(member, rules) ==
    Database({Group(3, "ops"), Group(4, "dev"), Group(8, "bad")},
             {User(2, "ann", member), User(5, "bob", {3, 8}), User(6, "sys", {4})},
             {Vendor(7, "corp", 1)}, rules, {Identity(1, "s1", 2, 7), Identity(2, "s2", 5, 7)})
Empty == Database({}, {}, {}, {}, {})
Lived == Database({Group(1, "dev"), Group(2, "web")},
                  {User(1, "bob", {2}), User(2, "cat", {1})},
                  {Vendor(1, "other", 3), Vendor(2, "corp", 2)}, {Rule(1, 2, 1)},
                  {Identity(1, "s1", 2, 1)})

\* A backup with a rule of one provider and one of all, restored with configuration, secrets
\* and rows over an empty database and over a used one; every step may fail.
B == INSTANCE Backup WITH
        Tables <- {Gaps({}, {Rule(1, 3, 7), Rule(2, 4, None)})}, Targets <- {Empty, Lived},
        Ids <- {TRUE}, Refused <- {"sys", "bad"},
        Modes <- {"full", "preserve-bootstrap", "iam-only", "config-only"}, Hashes <- {1, 2},
        Faults <- {"group", "user", "member", "provider", "rule", "identity", "config",
                   "secret", "crash"},
        MaxImports <- 2, MaxFaults <- 1, MaxPasswords <- 1

\* The rows alone, of backups without the numbers of the users too.
L == INSTANCE Backup WITH
        Tables <- {Gaps(member, {Rule(1, 3, 7), Rule(2, 4, None)}) : member \in {{}, {4}}},
        Targets <- {Empty, Lived}, Ids <- BOOLEAN, Refused <- {"sys", "bad"},
        Modes <- {"iam-only"}, Hashes <- {1},
        Faults <- {"group", "user", "member", "provider", "rule", "identity", "crash"},
        MaxImports <- 2, MaxFaults <- 2, MaxPasswords <- 0

\* One person known to a provider that speaks of it in two ways; one local user.
Info(verified, claim) ==
    [sub |-> "s", name |-> "ann", mail |-> "m", verified |-> verified, claim |-> claim]
Setting(on, strict, secret) == [enabled |-> on, strict |-> strict, secret |-> secret]
Mapping(provider, mail, value, group) ==
    [provider |-> provider, mail |-> mail, value |-> value, group |-> group]
ByMail == Mapping("corp", TRUE, "m", "ops")
ByClaim == Mapping(None, FALSE, "c", "dev")
Person(name, key, secret, member) ==
    [name |-> name, key |-> key, secret |-> secret, enabled |-> TRUE, perms |-> {"all"},
     groups |-> member]
Content(name, n) == [name |-> name, content |-> n]
Provider(name, setting) == [name |-> name, set |-> setting]
Start(ps) ==
    [users |-> [i \in 1..4 |-> IF i # 1 THEN None
                              ELSE [external |-> FALSE] @@ Person("root", 9, 1, {})],
     groups |-> [g \in {"ops", "dev"} |-> 1],
     providers |-> [p \in ps |-> Setting(TRUE, FALSE, 1)],
     rules |-> {ByMail}, idents |-> {}, next |-> 2]

\* A document that says what is there, and one with other users, groups and rules.
AsItIs == [users |-> {Person("root", 9, None, {})},
           groups |-> {Content("ops", 1), Content("dev", 1)},
           providers |-> {Provider("corp", Setting(TRUE, FALSE, None))}, rules |-> {ByMail}]
Otherwise == [users |-> {Person("eve", 8, 2, {"dev"})}, groups |-> {Content("dev", 2)},
              providers |-> {Provider("corp", Setting(FALSE, TRUE, None))}, rules |-> {ByClaim}]

\* Logins, edits, documents and restarts.
D == INSTANCE Identity WITH
        Visitors <- {a}, Editors <- {b}, Groups <- {"ops", "dev"}, Providers <- {"corp"},
        Infos <- {Info(TRUE, "c"), Info(FALSE, "d")},
        Rules <- {ByMail, ByClaim, Mapping("corp", FALSE, "c", "dev")},
        Settings <- {Setting(TRUE, FALSE, 1), Setting(FALSE, FALSE, 1)},
        Docs <- {AsItIs, Otherwise}, First <- Start({"corp"}), MaxUsers <- 4, MaxLogins <- 2,
        MaxEdits <- 1, MaxApplies <- 2, MaxBoots <- 1

\* Two administrators at the providers while somebody signs in.
O == INSTANCE Identity WITH
        Visitors <- {h1}, Editors <- {a, b}, Groups <- {"ops", "dev"},
        Providers <- {"corp", "other"}, Infos <- {Info(TRUE, "c"), Info(FALSE, "d")},
        Rules <- {ByMail, ByClaim, Mapping("corp", FALSE, "c", "dev")},
        Settings <- {Setting(TRUE, FALSE, 1), Setting(FALSE, FALSE, 1)}, Docs <- {},
        First <- Start({"corp", "other"}), MaxUsers <- 4, MaxLogins <- 1, MaxEdits <- 2,
        MaxApplies <- 0, MaxBoots <- 1

-----------------------------------------------------------------------------
AtRest == world = ("d1" :> Good) @@ ("d2" :> Gone) /\ Init
NoPeople == /\ tables = None /\ manager = None /\ pending = None /\ visits = None
            /\ editors = None /\ mode = None /\ document = None /\ drifted = None
            /\ banned = None /\ culled = None /\ counts = None
NoSync == /\ db = None /\ sess = None /\ revs = None /\ login = None /\ adm = None
          /\ etag = None /\ needs = None /\ waiting = None /\ poll = None /\ remote = None
          /\ lost = None /\ edits = None /\ logins = None /\ trouble = None
NoAccess == /\ conf = None /\ replay = None /\ limit = None /\ accepted = None
            /\ evicted = None /\ late = None /\ confs = None
NoPolicy == /\ policy = None /\ blocks = None /\ user = None /\ team = None
            /\ told = None /\ writes = None
NoBackup == /\ source = None /\ backup = None /\ hash = None /\ dbKey = None /\ imp = None
            /\ before = None /\ past = None /\ imports = None /\ passwords = None
OnlySync == /\ AtRest /\ NoPolicy /\ NoPeople /\ NoAccess /\ NoBackup
            /\ req = None /\ faults = None
            /\ prefix = None /\ chain = None /\ requests = None
OnlyAccess == /\ AtRest /\ NoPolicy /\ NoPeople /\ NoSync /\ NoBackup
              /\ up = None /\ faults = None
OnlyBackup == /\ AtRest /\ NoPolicy /\ NoPeople /\ sess = None /\ revs = None /\ login = None
              /\ adm = None /\ etag = None
              /\ needs = None /\ waiting = None /\ poll = None /\ remote = None
              /\ lost = None /\ edits = None /\ logins = None /\ trouble = None
              /\ NoAccess /\ now = None /\ index = None /\ up = None
              /\ req = None /\ prefix = None /\ chain = None /\ requests = None
OnlyPeople == /\ AtRest /\ NoPolicy /\ NoSync /\ NoAccess /\ NoBackup
              /\ now = None /\ index = None
              /\ up = None /\ req = None /\ faults = None /\ prefix = None
              /\ chain = None /\ requests = None
OnlyPolicy == /\ AtRest /\ NoPeople /\ NoSync /\ NoAccess /\ NoBackup
              /\ now = None
              /\ index = None /\ up = None /\ req = None /\ faults = None
              /\ prefix = None /\ chain = None /\ requests = None
OnlyGates == /\ NoPeople /\ NoSync /\ NoAccess /\ NoPolicy /\ NoBackup
             /\ now = None /\ index = None /\ up = None /\ req = None
             /\ faults = None /\ prefix = None /\ chain = None /\ requests = None

CInit ==
    /\ part \in Parts
    /\ \/ part = "sessions" /\ S!Init /\ OnlySync
       \/ part = "spread" /\ R!Init /\ OnlySync
       \/ part = "unsigned" /\ U!Init /\ OnlyAccess
       \/ part = "signed" /\ G!Init /\ OnlyAccess
       \/ part = "backup" /\ B!Init /\ OnlyBackup
       \/ part = "rows" /\ L!Init /\ OnlyBackup
       \/ part = "people" /\ D!Init /\ OnlyPeople
       \/ part = "providers" /\ O!Init /\ OnlyPeople
       \/ part = "policy" /\ I!Init /\ OnlyPolicy
       \/ part = "gates" /\ Init /\ OnlyGates
       \/ part = "witness" /\ W!Init /\ OnlyGates

InSync == UNCHANGED <<part, vars, PolicyVars, PeopleVars, AccessVars, BackupVars, req, faults,
                      prefix, chain, requests>>
InAccess == UNCHANGED <<part, vars, PolicyVars, PeopleVars, SyncVars, BackupVars, up, faults>>
InBackup == UNCHANGED <<part, vars, PolicyVars, PeopleVars, AccessVars, now, index, up, req,
                        prefix, chain, requests, sess, revs, login, adm, etag, needs, waiting, poll,
                        remote, lost, edits, logins, trouble>>
InPeople == UNCHANGED <<part, vars, PolicyVars, Shared, SyncVars, AccessVars, BackupVars>>
InPolicy == UNCHANGED <<part, vars, PeopleVars, Shared, SyncVars, AccessVars, BackupVars>>
InGates == UNCHANGED <<part, PolicyVars, PeopleVars, Shared, SyncVars, AccessVars, BackupVars>>

CNext ==
    \/ part = "sessions" /\ S!Next /\ InSync
    \/ part = "spread" /\ R!Next /\ InSync
    \/ part = "unsigned" /\ U!Next /\ InAccess
    \/ part = "signed" /\ G!Next /\ InAccess
    \/ part = "backup" /\ B!Next /\ InBackup
    \/ part = "rows" /\ L!Next /\ InBackup
    \/ part = "people" /\ D!Next /\ InPeople
    \/ part = "providers" /\ O!Next /\ InPeople
    \/ part = "policy" /\ I!Next /\ InPolicy
    \/ part = "gates" /\ Next /\ InGates
    \/ part = "witness" /\ W!Next /\ InGates

\* The poll loops and push tasks of the nodes keep running, and a request that revokes does
\* with its push until its client goes away; so do the re-probe loop and a configuration that
\* is being applied.
CSpec ==
    /\ CInit /\ [][CNext]_all
    /\ \A n \in {a, b} :
         /\ WF_all(part = "spread" /\ R!Revoking(n) /\ InSync)
         /\ WF_all(part = "spread" /\ R!Upload(n) /\ InSync)
         /\ WF_all(part = "spread" /\ R!Sync(n, "poll") /\ InSync)
    /\ WF_all(part = "gates" /\ (\E t \in Loops : Looping(t)) /\ InGates)
    /\ WF_all(part = "gates" /\ (\E t \in Admins : Applying(t)) /\ InGates)

-----------------------------------------------------------------------------
\* A revocation on record reaches every syncing node, through failing uploads and conflicts,
\* unless its push ends with the request or the process that made it, or a node cannot read
\* its revocations back (upload_with_reconcile, revoke_identities_everywhere); and a bucket
\* refused for a backend that is in order again is served (the re-probe loop).
Lagging == part = "spread" /\ ~R!Spread
Closed == part = "gates" /\ Reopening("k")

\* What was taken from somebody stays away: a session that was dead is never live again on its
\* node, and one older than a revocation in the node's database is not live there, unless the
\* last merge could not read the revocations back (SessionStore::entry_live,
\* reopen_and_rebuild_iam); a disabled person does not come back, whatever documents and
\* restarts do.  What was given stays: a person dropped by a reconcile has the same groups and
\* permissions after the next login, a document that was applied leaves no local row to
\* change, and a restart drops no local user (oauth_callback, diff_iam).
RightsKept ==
    [][/\ part = "sessions" => S!DeadStays /\ (S!RevokedIsDead)'
       /\ part = "people" => D!PeopleKept
       /\ part = "providers" => O!PeopleKept]_all

\* What nobody in particular is served, one configuration opened to everybody; a write with
\* signed headers (a presigned URL is meant to be used again) is let through once within the
\* replay window, unless the cache was over its cap and has forgotten it; and a lockout stops
\* the guessing, but for requests already past the check (sigv4_auth_middleware).  The chain and the permissions agree on what is
\* public, a home belongs to one name, and no listing shows what its filter would hide.
RequestsSound ==
    /\ part = "policy" => I!PolicySound
    /\ part = "unsigned" => U!GrantedByOne
    /\ part = "signed" => G!MutationOnce /\ G!LateAttempts

\* However often a restore is cut off and repeated, it binds no login to anybody else (if the
\* archive's users can be told by number) and no membership, widens a rule only where its
\* provider was not restored, and leaves what was there alone but for the client secrets of
\* providers; one without a failing row is complete, memberships too if nothing failed before;
\* and the database keeps the key of the configuration, unless the password is changed between
\* check and write (import_zip_full_backup, import_backup_iam).  Applying what the database exports as a
\* document changes nothing, and logins go to the providers on record.
RestoresSound ==
    /\ part = "backup" => B!NobodyElse /\ B!Restored /\ B!KeyFits
    /\ part = "rows" => L!NobodyElse /\ L!Restored
    /\ part = "people" => D!ExportIsNoop /\ D!ManagerFollows
    /\ part = "providers" => O!ManagerFollows
=============================================================================
