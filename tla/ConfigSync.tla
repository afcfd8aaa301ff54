----------------------------- MODULE ConfigSync -----------------------------
(* The configuration database of every node, its copy in the sync bucket,   *)
(* and what each node keeps in memory of it: the IAM index and the session  *)
(* store with its revocations.  An administrator's change is committed to   *)
(* the node's own database and pushed by upload_with_reconcile, a           *)
(* compare-and-swap of the whole file with a merge after a conflict; the    *)
(* other nodes learn of it by polling.  The IAM rows of a downloaded file   *)
(* replace the node's rows; revocations are merged by maximum.              *)
EXTENDS Naturals, FiniteSets, FiniteSetsExt

CONSTANTS
    Nodes,
    Keys,         \* access keys; a key names a user row and a revocation identity
    Legacy,       \* the keys of the credentials in the config file: none or one
    None,
    Pollers,      \* what downloads outside upload_lock: "poll", and "now" for sync-now
    Skew,         \* how far each node's clock is ahead
    Muted,        \* nodes that may be without a sync bucket, or blocked by a password mismatch
    Faults,       \* which of "store", "db", "read", "gone", "crash" can happen
    Attempts,     \* MAX_UPLOAD_ATTEMPTS
    MaxSessions,  \* MAX_SESSIONS
    Ttl,          \* the session lifetime
    MaxTime, MaxEdits, MaxLogins, MaxTrouble  \* bounds of the instance

VARIABLES
    now,
    db,       \* the database file: the users' rows and the revocations
    index,    \* SharedIamState: the rows, or None for the credentials of the config file
    sess,     \* SessionStore::sessions
    revs,     \* SessionStore::revocations
    login,    \* a key checked by browser_session_connect whose session is not made yet
    adm,      \* the admin request that is revoking
    etag,     \* ConfigDbSync::last_etag, 0 for none
    needs,    \* ConfigDbSync::needs_upload
    waiting,  \* pushes that wait for upload_lock, by whom
    up,       \* the push that holds upload_lock
    poll,     \* the downloads of the pollers
    remote,   \* the object in the sync bucket; etag 0 when there is none
    lost,     \* what keeps a node's revocations apart: [mute: it does not sync at all, stale:
              \* its last merge did not refresh its memory, push: keys whose revocations are
              \* on record but no longer being pushed]
    edits, logins, trouble

vars == <<now, db, index, sess, revs, login, adm, etag, needs, waiting, up, poll, remote,
          lost, edits, logins, trouble>>
mem == <<sess, revs, login>>
net == <<etag, needs, waiting, up, poll, remote, lost>>

-----------------------------------------------------------------------------
Rows == [Keys -> {"no", "on", "off"}]
Revs == [Keys -> 0..(MaxTime + 1)]
NoUsers == [k \in Keys |-> "no"]
NoRevs == [k \in Keys |-> 0]
Idle == [pc |-> "idle", by |-> None, n |-> 0, file |-> None, expect |-> 0, head |-> 0,
         body |-> None]
Rest == [pc |-> "idle", head |-> 0, body |-> None]
clock(n) == now + Skew[n]

SessionInfo == [key : Keys \cup {None}, unix : 0..(MaxTime + 1), at : 0..MaxTime]

TypeOK ==
    /\ now \in 1..MaxTime
    /\ \A n \in Nodes : db[n].users \in Rows /\ db[n].rev \in Revs
    /\ index \in [Nodes -> Rows \cup {None}]
    /\ \A n \in Nodes : sess[n] \subseteq SessionInfo /\ Cardinality(sess[n]) <= MaxSessions
    /\ revs \in [Nodes -> Revs]
    /\ login \in [Nodes -> Keys \cup {None}]
    /\ etag \in [Nodes -> Nat] /\ needs \in [Nodes -> BOOLEAN]

Init ==
    /\ now = 1 /\ edits = 0 /\ logins = 0 /\ trouble = 0
    /\ db = [n \in Nodes |-> [users |-> NoUsers, rev |-> NoRevs]]
    /\ index = [n \in Nodes |-> IF Legacy = {} THEN NoUsers ELSE None]
    /\ sess = [n \in Nodes |-> {}]
    /\ revs = [n \in Nodes |-> NoRevs]
    /\ login = [n \in Nodes |-> None]
    /\ adm = [n \in Nodes |-> [pc |-> "idle", key |-> None, at |-> 0]]
    /\ etag = [n \in Nodes |-> 0]
    /\ needs = [n \in Nodes |-> FALSE]
    /\ waiting = [n \in Nodes |-> {}]
    /\ up = [n \in Nodes |-> Idle]
    /\ poll = [n \in Nodes |-> [p \in Pollers |-> Rest]]
    /\ remote = [etag |-> 0, body |-> None]
    /\ lost \in {[n \in Nodes |-> [mute |-> n \in mute, stale |-> FALSE, push |-> {}]]
                   : mute \in SUBSET Muted}

Trouble(fault) == fault \in Faults /\ trouble < MaxTrouble /\ trouble' = trouble + 1
Later(f, g) == [k \in Keys |-> Max({f[k], g[k]})]

-----------------------------------------------------------------------------
\* IamIndex::build_iam_state: the rows; without a row the node is open (Disabled).
build_iam_state(users) == users

\* rebuild_iam_index: the first user of a node that ran on the config file's credentials
\* takes those credentials into the table.
Migrated(n, users) ==
    IF index[n] = None /\ users # NoUsers
    THEN [k \in Keys |-> IF k \in Legacy /\ users[k] = "no" THEN "on" ELSE users[k]]
    ELSE users

Commit(n, users) ==
    /\ edits < MaxEdits
    /\ edits' = edits + 1
    /\ db' = [db EXCEPT ![n].users = Migrated(n, users)]
    /\ index' = [index EXCEPT ![n] = build_iam_state(Migrated(n, users))]

\* push_config_sync_now, in a task of its own ("admin", trigger_config_sync), within the
\* request that revokes ("revoke") or within the poll loop.
Push(n, by) == waiting' = IF lost[n].mute THEN waiting
                          ELSE [waiting EXCEPT ![n] = @ \cup {by}]

\* The request that revokes awaits its push: one such request at a time.
Awaiting(n) == "revoke" \in waiting[n] \/ up[n].by = "revoke"
Free(n) == adm[n].pc = "idle" /\ ~Awaiting(n)

trigger_config_sync(n) == Push(n, "admin")

create_user(n, k) ==
    /\ db[n].users[k] = "no"
    /\ Commit(n, [db[n].users EXCEPT ![k] = "on"])
    /\ trigger_config_sync(n)
    /\ UNCHANGED <<now, mem, adm, etag, needs, up, poll, remote, lost, logins, trouble>>

update_user(n, k) ==
    /\ db[n].users[k] # "no"
    /\ \E s \in {"on", "off"} \ {db[n].users[k]} : Commit(n, [db[n].users EXCEPT ![k] = s])
    /\ trigger_config_sync(n)
    /\ UNCHANGED <<now, mem, adm, etag, needs, up, poll, remote, lost, logins, trouble>>

\* A deletion and a rotation have revoke_identities_everywhere push the file.
delete_user(n, k) ==
    /\ Free(n) /\ db[n].users[k] # "no"
    /\ Commit(n, [db[n].users EXCEPT ![k] = "no"])
    /\ adm' = [adm EXCEPT ![n] = [pc |-> "kill", key |-> k, at |-> 0]]
    /\ UNCHANGED <<now, mem, net, logins, trouble>>

rotate_user_keys(n, k, new) ==
    /\ Free(n) /\ db[n].users[k] # "no" /\ db[n].users[new] = "no"
    /\ Commit(n, [db[n].users EXCEPT ![new] = db[n].users[k], ![k] = "no"])
    /\ adm' = [adm EXCEPT ![n] = [pc |-> "kill", key |-> k, at |-> 0]]
    /\ UNCHANGED <<now, mem, net, logins, trouble>>

revoke_user_sessions(n, k) ==
    /\ Free(n) /\ edits < MaxEdits
    /\ edits' = edits + 1
    /\ adm' = [adm EXCEPT ![n] = [pc |-> "kill", key |-> k, at |-> 0]]
    /\ UNCHANGED <<now, db, index, mem, net, logins, trouble>>

\* revoke_identities_everywhere, first part: the node's own sessions and its epoch.
note_revocation(n, k, at) == [revs EXCEPT ![n][k] = Max({@, at})]

Kill(n) ==
    /\ adm[n].pc = "kill"
    /\ sess' = [sess EXCEPT ![n] = {s \in @ : s.key # adm[n].key}]
    /\ revs' = note_revocation(n, adm[n].key, clock(n))
    /\ adm' = [adm EXCEPT ![n].pc = "persist", ![n].at = clock(n)]
    /\ UNCHANGED <<now, db, index, login, net, edits, logins, trouble>>

\* Second part: the durable epoch, and only when it is written the push.
revoke_identity_sessions(n, k, at) == [db EXCEPT ![n].rev[k] = Max({@, at})]

Persist(n) ==
    /\ adm[n].pc = "persist"
    /\ adm' = [adm EXCEPT ![n].pc = "idle"]
    /\ \/ /\ db' = revoke_identity_sessions(n, adm[n].key, adm[n].at)
          /\ Push(n, "revoke")
          /\ UNCHANGED trouble
       \/ Trouble("db") /\ UNCHANGED <<db, waiting>>
    /\ UNCHANGED <<now, index, mem, etag, needs, up, poll, remote, lost, edits, logins>>

\* If-Match: last_etag, or If-None-Match: * when there is none.
Matches(n) == up[n].expect = remote.etag

Written(n) == remote' = [etag |-> remote.etag + 1, body |-> up[n].file]

\* The client of a request that revokes goes away: the request is dropped where it waits,
\* with its push, and a PUT that was sent may still be applied.
Disconnect(n) ==
    /\ Trouble("gone") /\ ~Free(n)
    /\ adm' = [adm EXCEPT ![n].pc = "idle"]
    /\ waiting' = [waiting EXCEPT ![n] = @ \ {"revoke"}]
    /\ up' = IF up[n].by = "revoke" THEN [up EXCEPT ![n] = Idle] ELSE up
    /\ \/ UNCHANGED remote
       \/ up[n].by = "revoke" /\ up[n].pc = "put" /\ Matches(n) /\ Written(n)
    /\ lost' = IF Awaiting(n) THEN [lost EXCEPT ![n].push = @ \cup {adm[n].key}] ELSE lost
    /\ UNCHANGED <<now, db, index, mem, etag, needs, poll, edits, logins>>

-----------------------------------------------------------------------------
\* upload, in three steps: read the file, read last_etag, and the conditional PUT.
Lock(n) ==
    /\ up[n].pc = "idle"
    /\ \E by \in waiting[n] :
         /\ up' = [up EXCEPT ![n] = [Idle EXCEPT !.pc = "file", !.by = by, !.n = 1]]
         /\ waiting' = [waiting EXCEPT ![n] = @ \ {by}]
    /\ UNCHANGED <<now, db, index, mem, adm, etag, needs, poll, remote, lost, edits, logins,
                   trouble>>

ReadFile(n) ==
    /\ up[n].pc = "file"
    /\ up' = [up EXCEPT ![n].pc = "etag", ![n].file = db[n]]
    /\ UNCHANGED <<now, db, index, mem, adm, etag, needs, waiting, poll, remote, lost, edits,
                   logins, trouble>>

ReadEtag(n) ==
    /\ up[n].pc = "etag"
    /\ up' = [up EXCEPT ![n].pc = "put", ![n].expect = etag[n]]
    /\ UNCHANGED <<now, db, index, mem, adm, etag, needs, waiting, poll, remote, lost, edits,
                   logins, trouble>>


\* upload_with_reconcile: another attempt, or the upload is left to the poll.
NextAttempt(n) ==
    IF up[n].n < Attempts
    THEN /\ up' = [up EXCEPT ![n] =
                     [Idle EXCEPT !.pc = "file", !.by = up[n].by, !.n = up[n].n + 1]]
         /\ UNCHANGED needs
    ELSE /\ up' = [up EXCEPT ![n] = Idle]
         /\ needs' = [needs EXCEPT ![n] = TRUE]

Put(n) ==
    /\ up[n].pc = "put"
    /\ \/ /\ Matches(n) /\ Written(n)
          /\ etag' = [etag EXCEPT ![n] = remote.etag + 1]
          /\ up' = [up EXCEPT ![n] = Idle]
          /\ lost' = [lost EXCEPT ![n].push = {k \in @ : up[n].file.rev[k] < db[n].rev[k]}]
          /\ UNCHANGED <<needs, trouble>>
       \/ /\ ~Matches(n)
          /\ etag' = [etag EXCEPT ![n] = 0]
          /\ up' = [up EXCEPT ![n].pc = "get", ![n].file = None, ![n].expect = 0]
          /\ UNCHANGED <<needs, remote, lost, trouble>>
       \/ /\ Trouble("store")                       \* an error, whether or not it was applied
          /\ \/ Matches(n) /\ Written(n)
             \/ UNCHANGED remote
          /\ NextAttempt(n) /\ UNCHANGED <<etag, lost>>
    /\ UNCHANGED <<now, db, index, mem, adm, waiting, poll, edits, logins>>

\* download_if_newer: HEAD and GET; a change between the two is an error.
Newer(n) == remote.etag # 0 /\ remote.etag # etag[n]

Get(n) ==
    /\ up[n].pc = "get"
    /\ \/ /\ Newer(n)
          /\ up' = [up EXCEPT ![n].pc = "merge", ![n].head = remote.etag,
                              ![n].body = remote.body]
          /\ UNCHANGED <<needs, trouble>>
       \/ ~Newer(n) /\ NextAttempt(n) /\ UNCHANGED trouble
       \/ Trouble("store") /\ NextAttempt(n)
    /\ UNCHANGED <<now, db, index, mem, adm, etag, waiting, poll, remote, lost, edits, logins>>

\* merge_iam_from and reopen_and_rebuild_iam, under the database lock.  Rows that cannot be
\* read back after the merge count as none, and revocations that cannot be are let be.
merge_iam_from(n, body) == [users |-> body.users, rev |-> Later(db[n].rev, body.rev)]

\* Mutant: the snapshot replaces what the node had noted.
ReplaceRevocations(n, rev) == [k \in Keys |-> rev[k]]

set_revocations(n, rev) == Later(revs[n], rev)

Refreshed(n, body, read) ==
    /\ revs' = IF read THEN [revs EXCEPT ![n] = set_revocations(n, merge_iam_from(n, body).rev)]
               ELSE revs
    /\ lost' = [lost EXCEPT ![n].stale = ~read]

reopen_and_rebuild_iam(n, body) ==
    /\ db' = [db EXCEPT ![n] = merge_iam_from(n, body)]
    /\ \/ /\ index' = [index EXCEPT ![n] = build_iam_state(body.users)]
          /\ Refreshed(n, body, TRUE)
          /\ UNCHANGED trouble
       \/ /\ Trouble("read")
          /\ \E users \in {NoUsers, body.users} : index' = [index EXCEPT ![n] = build_iam_state(users)]
          /\ \E read \in BOOLEAN : Refreshed(n, body, read)

UpMerge(n) ==
    /\ up[n].pc = "merge"
    /\ \/ /\ reopen_and_rebuild_iam(n, up[n].body)
          /\ up' = [up EXCEPT ![n].pc = "commit", ![n].body = None]
          /\ UNCHANGED needs
       \/ Trouble("db") /\ NextAttempt(n) /\ UNCHANGED <<db, index, revs, lost>>
    /\ UNCHANGED <<now, sess, login, adm, etag, waiting, poll, remote, edits, logins>>

UpCommit(n) ==
    /\ up[n].pc = "commit"
    /\ etag' = [etag EXCEPT ![n] = up[n].head]
    /\ NextAttempt(n)
    /\ UNCHANGED <<now, db, index, mem, adm, waiting, poll, remote, lost, edits, logins, trouble>>

-----------------------------------------------------------------------------
\* The periodic poll, and sync_now, which is the same download outside the loop.  A poll
\* ends by pushing again what ran out of attempts (take_needs_upload).
Finish(n, p) ==
    /\ poll' = [poll EXCEPT ![n][p] = Rest]
    /\ IF p = "poll" /\ needs[n]
       THEN Push(n, "poll") /\ needs' = [needs EXCEPT ![n] = FALSE]
       ELSE UNCHANGED <<waiting, needs>>

Download(n, p) ==
    /\ poll[n][p].pc = "idle"
    /\ ~lost[n].mute
    /\ p = "poll" => "poll" \notin waiting[n] /\ up[n].by # "poll"
    /\ \/ /\ Newer(n)
          /\ poll' = [poll EXCEPT ![n][p] = [pc |-> "merge", head |-> remote.etag,
                                             body |-> remote.body]]
          /\ UNCHANGED <<needs, waiting, trouble>>
       \/ ~Newer(n) /\ needs[n] /\ Finish(n, p) /\ UNCHANGED trouble
       \/ Trouble("store") /\ Finish(n, p)
    /\ UNCHANGED <<now, db, index, mem, adm, etag, up, remote, lost, edits, logins>>

Merge(n, p) ==
    /\ poll[n][p].pc = "merge"
    /\ \/ /\ reopen_and_rebuild_iam(n, poll[n][p].body)
          /\ poll' = [poll EXCEPT ![n][p].pc = "commit", ![n][p].body = None]
          /\ UNCHANGED <<needs, waiting>>
       \/ Trouble("db") /\ Finish(n, p) /\ UNCHANGED <<db, index, revs, lost>>
    /\ UNCHANGED <<now, sess, login, adm, etag, up, remote, edits, logins>>

commit_downloaded_etag(n, p) ==
    /\ poll[n][p].pc = "commit"
    /\ etag' = [etag EXCEPT ![n] = poll[n][p].head]
    /\ Finish(n, p)
    /\ UNCHANGED <<now, db, index, mem, adm, up, remote, lost, edits, logins, trouble>>

-----------------------------------------------------------------------------

\* SessionStore::entry_live.
entry_live(n, s) ==
    /\ now < s.at + Ttl
    /\ s.key # None => s.unix > revs[n][s.key]

\* create_session; the oldest make room.
Evicted(all) == IF Cardinality(all) < MaxSessions THEN {}
                ELSE {CHOOSE s \in all : \A t \in all : s.at <= t.at}

create_session(n, k) ==
    /\ logins < MaxLogins
    /\ logins' = logins + 1
    /\ sess' = [sess EXCEPT ![n] = (@ \ Evicted(@))
                     \cup {[key |-> k, unix |-> clock(n), at |-> now]}]

\* login (no identity to revoke) and login_as, which has no await after the check.
Login(n, k) ==
    /\ k \in Keys => index[n] # None /\ index[n][k] = "on"
    /\ create_session(n, k)
    /\ UNCHANGED <<now, db, index, revs, login, adm, net, edits, trouble>>

\* browser_session_connect waits for the configuration between the check and the session.
Check(n, k) ==
    /\ login[n] = None /\ logins < MaxLogins
    /\ index[n] # None /\ index[n][k] = "on"
    /\ login' = [login EXCEPT ![n] = k]
    /\ UNCHANGED <<now, db, index, sess, revs, adm, net, edits, logins, trouble>>

Connect(n) ==
    /\ login[n] # None
    /\ create_session(n, login[n])
    /\ login' = [login EXCEPT ![n] = None]
    /\ UNCHANGED <<now, db, index, revs, adm, net, edits, trouble>>

\* logout, and revoke_session by its short id.
remove(n, s) ==
    /\ sess' = [sess EXCEPT ![n] = @ \ {s}]
    /\ UNCHANGED <<now, db, index, revs, login, adm, net, edits, logins, trouble>>

cleanup_expired(n) ==
    /\ \E s \in sess[n] : ~entry_live(n, s)
    /\ sess' = [sess EXCEPT ![n] = {s \in @ : entry_live(n, s)}]
    /\ UNCHANGED <<now, db, index, revs, login, adm, net, edits, logins, trouble>>

-----------------------------------------------------------------------------
\* A crash, and the boot that follows: init_config_db, the revocations of the file, and
\* init_config_sync, which downloads and merges but uploads nothing.
Boot(n, body, tag) ==
    /\ db' = [db EXCEPT ![n] = body]
    /\ index' = [index EXCEPT ![n] = IF body.users = NoUsers /\ Legacy # {} /\ tag = 0
                                     THEN None ELSE build_iam_state(body.users)]
    /\ revs' = [revs EXCEPT ![n] = body.rev]
    /\ etag' = [etag EXCEPT ![n] = tag]

Crash(n) ==
    /\ Trouble("crash")
    /\ sess' = [sess EXCEPT ![n] = {}]
    /\ login' = [login EXCEPT ![n] = None]
    /\ adm' = [adm EXCEPT ![n].pc = "idle"]
    /\ needs' = [needs EXCEPT ![n] = FALSE]
    /\ waiting' = [waiting EXCEPT ![n] = {}]
    /\ up' = [up EXCEPT ![n] = Idle]
    /\ poll' = [poll EXCEPT ![n] = [p \in Pollers |-> Rest]]
    /\ lost' = [lost EXCEPT ![n].stale = FALSE,
                       ![n].push = IF needs[n] \/ waiting[n] # {} \/ up[n] # Idle THEN Keys ELSE @]
    /\ \/ /\ remote.etag # 0 /\ ~lost[n].mute
          /\ Boot(n, merge_iam_from(n, remote.body), remote.etag)
       \/ Boot(n, db[n], 0)                      \* nothing there, or not reached
    /\ UNCHANGED <<now, remote, edits, logins>>

Tick ==
    /\ now < MaxTime
    /\ now' = now + 1
    /\ UNCHANGED <<db, index, mem, adm, net, edits, logins, trouble>>

Admin(n) ==
    \E k \in Keys :
      \/ create_user(n, k) \/ update_user(n, k) \/ delete_user(n, k)
      \/ \E new \in Keys \ {k} : rotate_user_keys(n, k, new)
      \/ revoke_user_sessions(n, k)

Sessions(n) ==
    \/ \E k \in Keys \cup {None} : Login(n, k)
    \/ \E k \in Keys : Check(n, k)
    \/ Connect(n)
    \/ \E s \in sess[n] : remove(n, s)
    \/ cleanup_expired(n)

Revoking(n) == Kill(n) \/ Persist(n)
Upload(n) == Lock(n) \/ ReadFile(n) \/ ReadEtag(n) \/ Put(n) \/ Get(n) \/ UpMerge(n) \/ UpCommit(n)
Sync(n, p) == Download(n, p) \/ Merge(n, p) \/ commit_downloaded_etag(n, p)

Next ==
    \/ \E n \in Nodes :
         \/ Admin(n) \/ Revoking(n) \/ Upload(n) \/ Sessions(n) \/ Disconnect(n) \/ Crash(n)
         \/ \E p \in Pollers : Sync(n, p)
    \/ Tick

\* The admin task, the push task and the poll loop of every node keep running.
Fairness == \A n \in Nodes : /\ WF_vars(Revoking(n))
                             /\ WF_vars(Upload(n))
                             /\ WF_vars("poll" \in Pollers /\ Sync(n, "poll"))

Spec == Init /\ [][Next]_vars
FairSpec == Spec /\ Fairness

-----------------------------------------------------------------------------
\* A session that was dead (revoked, or past its lifetime) is never live again: no merge
\* of a snapshot that misses the revocation brings a cookie back.
DeadStays == \A n \in Nodes : \A s \in sess[n] \cap sess'[n] :
                 ~entry_live(n, s) => ~entry_live(n, s)'
DeadStaysDead == [][DeadStays]_vars

\* A session older than a revocation in the node's own database is not live there: neither
\* a boot nor a merge leaves the memory behind the file, unless the revocations could not be
\* read back after the merge.
RevokedIsDead ==
    \A n \in Nodes : ~lost[n].stale => \A s \in sess[n] :
        entry_live(n, s) /\ s.key # None => s.unix > db[n].rev[s.key]

\* The same without the exception: false.
MemoryFollows ==
    \A n \in Nodes : \A s \in sess[n] :
        entry_live(n, s) /\ s.key # None => s.unix > db[n].rev[s.key]

\* A revocation on record at one syncing node has reached another (revoke_user_sessions
\* answers with a bound), but for one whose push was given up with the request or the process
\* that made it, and for a node that could not read its revocations back.
Reached(n, m, k) == revs[m][k] >= db[n].rev[k]
Syncing == {n \in Nodes : ~lost[n].mute}
Spread ==
    \A n, m \in Syncing, k \in Keys :
        Reached(n, m, k) \/ k \in lost[n].push \/ lost[m].stale
RevocationSpreads == ~Spread ~> Spread

\* The same without the exceptions: "a revocation is never silently dropped".  False.
AllReached == \A n, m \in Syncing, k \in Keys : Reached(n, m, k)
SpreadEverywhere == ~AllReached ~> AllReached

\* When nothing is under way and every node has seen the object of the bucket, all nodes
\* have the same users: the compare-and-swap lets no upload undo another.
Settled ==
    /\ \A n \in Nodes : /\ up[n].pc = "idle" /\ adm[n].pc = "idle" /\ ~needs[n]
                        /\ waiting[n] = {} /\ etag[n] = remote.etag
                        /\ \A p \in Pollers : poll[n][p].pc = "idle"
Agreed == Settled /\ remote.etag # 0 => \A n \in Nodes : db[n].users = remote.body.users
=============================================================================
