------------------------------ MODULE Identity ------------------------------
(* Who may sign in, and what the tables of the configuration database say  *)
(* of them: users, groups, login providers, the rules that map a provider's *)
(* claims to groups, and the external identities a login leaves behind.    *)
(* Three parties change those tables: the OAuth callback                   *)
(* (api/admin/external_auth.rs), which creates a user at the first login    *)
(* and merges the groups the rules give; administrators, one handler at a   *)
(* time under the database's mutex, refused while the document is in force  *)
(* (require_not_declarative); and the declarative reconcile                *)
(* (iam/declarative.rs, config_db/declarative.rs), which makes the tables   *)
(* what a document says and culls the external users that a login would     *)
(* rebuild.  The login manager (iam/external_auth/mod.rs) works on a        *)
(* snapshot of the enabled providers of its own.                           *)
(* Providers and groups go by their names: deleting one deletes every row   *)
(* that refers to it, so a name never outlives its row.                     *)
EXTENDS Naturals, FiniteSets, FiniteSetsExt, SequencesExt

CONSTANTS
    None,
    Visitors,       \* browsers on their way through a login
    Editors,        \* administrators' requests in flight
    Groups, Providers,
    Infos,          \* what a provider may say of a subject: [sub, name, mail, verified, claim]
    Rules,          \* mapping rules an administrator may create
    Settings,       \* what a provider may be set to: [enabled, strict, secret]
    Docs,           \* documents that may be applied
    First,          \* the tables at the start
    MaxUsers, MaxLogins, MaxEdits, MaxApplies, MaxBoots

VARIABLES
    tables,         \* [users, groups, providers, rules, idents, next] of the database
    manager,        \* ExternalAuthManager.providers: the enabled ones, as last rebuilt
    pending,        \* ExternalAuthManager.pending: one state token per visitor
    visits,         \* each browser's way through authorize and callback
    editors,        \* each administrator's request
    mode, document, \* access.iam_mode, and its document when that is declarative
    drifted,        \* a document has changed providers since the manager was rebuilt
    banned,         \* subjects whose user an administrator has disabled
    culled,         \* subjects whose user a reconcile has dropped, with what they had
    counts

vars == <<tables, manager, pending, visits, editors, mode, document, drifted, banned, culled,
          counts>>

Ids == 1..MaxUsers
NoVisit == [pc |-> "idle", provider |-> None, conf |-> None, info |-> None, user |-> None]

\* The enabled providers, with what the login needs of them.
Enabled(t) == [p \in Providers |->
                  IF t.providers[p] # None /\ t.providers[p].enabled THEN t.providers[p] ELSE None]

Init ==
    /\ tables = First
    /\ manager = Enabled(First)
    /\ pending = {}
    /\ visits = [v \in Visitors |-> NoVisit]
    /\ editors = [e \in Editors |-> "idle"]
    /\ mode = "gui"
    /\ document = None
    /\ drifted = FALSE
    /\ banned = {}
    /\ culled = {}
    /\ counts = [logins |-> 0, edits |-> 0, applies |-> 0, boots |-> 0]

Count(what, limit) ==
    /\ counts[what] < limit
    /\ counts' = [counts EXCEPT ![what] = @ + 1]

\* rebuild_external_auth keeps the database locked while it swaps and clears.
Unlocked == \A e \in Editors : editors[e] # "clear"

-----------------------------------------------------------------------------
\* Mapping rules: an email rule counts for a verified address only, a rule with a provider
\* for that provider's identities.
matches_rule(r, info) == r.value = IF r.mail THEN info.mail ELSE info.claim
filter_rules_for_email_verification(rs, info) == {r \in rs : info.verified \/ ~r.mail}
evaluate_mappings(rs, info, p) ==
    {r.group : r \in {x \in rs : x.provider \in {None, p} /\ matches_rule(x, info)}}
RuleGroups(t, info, p) ==
    evaluate_mappings(filter_rules_for_email_verification(t.rules, info), info, p)

merge_group_memberships(existing, given) == existing \union given

\* Rows that go with the row they refer to (ON DELETE CASCADE).
WithoutUsers(t, us) ==
    [t EXCEPT !.users = [i \in Ids |-> IF i \in us THEN None ELSE @[i]],
              !.idents = {x \in @ : x.user \notin us}]
WithoutProviders(t, ps) ==
    [t EXCEPT !.providers = [p \in Providers |-> IF p \in ps THEN None ELSE @[p]],
              !.idents = {x \in @ : x.provider \notin ps},
              !.rules = {r \in @ : r.provider \notin ps}]
WithoutGroups(t, gs) ==
    [t EXCEPT !.groups = [g \in Groups |-> IF g \in gs THEN None ELSE @[g]],
              !.users = [i \in Ids |-> IF @[i] = None THEN None
                                       ELSE [@[i] EXCEPT !.groups = @ \ gs]],
              !.rules = {r \in @ : r.group \notin gs}]

Live(t) == {i \in Ids : t.users[i] # None}
Given(t) == {g \in Groups : t.groups[g] # None}
Offered(t) == {p \in Providers : t.providers[p] # None}
UserOf(t, p, sub) == {x \in t.idents : x.provider = p /\ x.sub = sub}

-----------------------------------------------------------------------------
\* The login.  oauth_authorize takes the provider from the manager, then leaves a state token;
\* a rebuild may come between the two.
oauth_authorize(v, p) ==
    /\ visits[v].pc = "idle"
    /\ Count("logins", MaxLogins)
    /\ manager[p] # None
    /\ visits' = [visits EXCEPT ![v] = [NoVisit EXCEPT !.pc = "asked", !.provider = p]]
    /\ UNCHANGED <<tables, manager, pending, editors, mode, document, drifted, banned, culled>>

initiate_auth(v) ==
    /\ visits[v].pc = "asked"
    /\ pending' = pending \union {v}
    /\ visits' = [visits EXCEPT ![v].pc = "away"]
    /\ UNCHANGED <<tables, manager, editors, mode, document, drifted, banned, culled, counts>>

\* The token is dropped after ten minutes.
cleanup_expired_pending(v) ==
    /\ v \in pending
    /\ pending' = pending \ {v}
    /\ UNCHANGED <<tables, manager, visits, editors, mode, document, drifted, banned, culled,
                   counts>>

\* The browser is back, perhaps with an error or never with its cookie: the token is good for
\* one callback.
consume_pending(v) ==
    /\ visits[v].pc = "away"
    /\ visits' = [visits EXCEPT ![v] = IF v \in pending THEN [@ EXCEPT !.pc = "back"] ELSE NoVisit]
    /\ pending' = pending \ {v}
    /\ UNCHANGED <<tables, manager, editors, mode, document, drifted, banned, culled, counts>>

get_provider(v) ==
    /\ visits[v].pc = "back"
    /\ visits' = [visits EXCEPT ![v] =
                     IF manager[@.provider] = None THEN NoVisit
                     ELSE [@ EXCEPT !.pc = "exchange", !.conf = manager[visits[v].provider]]]
    /\ UNCHANGED <<tables, manager, pending, editors, mode, document, drifted, banned, culled,
                   counts>>

\* The provider's answer, or none (no discovery yet, a token that does not validate), and the
\* check on the address when the provider asks for it.
exchange_code(v) ==
    /\ visits[v].pc = "exchange"
    /\ \E info \in Infos \union {None} :
         visits' = [visits EXCEPT ![v] =
                       IF info = None \/ (visits[v].conf.strict /\ ~info.verified) THEN NoVisit
                       ELSE [@ EXCEPT !.pc = "known", !.info = info]]
    /\ UNCHANGED <<tables, manager, pending, editors, mode, document, drifted, banned, culled,
                   counts>>

Ident(p, info, u) == [provider |-> p, sub |-> info.sub, user |-> u, mail |-> info.mail,
                      verified |-> info.verified, claim |-> info.claim]
Grown(t, u, gs) == [t EXCEPT !.users[u].groups = merge_group_memberships(@, gs)]

\* Under the database's mutex: the provider by its name, whether enabled or not; the user of
\* the identity or a new one, its row in external_identities brought up to date; a disabled
\* user goes no further; the groups of the rules are added to those it has.
Returning(t, p, info) ==
    LET x == CHOOSE x \in UserOf(t, p, info.sub) : TRUE
    IN  [tables |-> [t EXCEPT !.idents = (@ \ {x}) \union {Ident(p, info, x.user)}],
         user |-> x.user]
create_external_user(t, p, info) ==
    [tables |-> [t EXCEPT !.users[t.next] = [name |-> info.name, key |-> t.next, secret |-> t.next,
                                             external |-> TRUE, enabled |-> TRUE, perms |-> {},
                                             groups |-> {}],
                          !.idents = @ \union {Ident(p, info, t.next)},
                          !.next = @ + 1],
     user |-> t.next]
Found(t, p, info) ==
    IF UserOf(t, p, info.sub) # {} THEN Returning(t, p, info)
    ELSE create_external_user(t, p, info)

oauth_callback(v) ==
    LET p == visits[v].provider
        info == visits[v].info
        found == Found(tables, p, info)
        in == found.tables.users[found.user].enabled
    IN  /\ visits[v].pc = "known"
        /\ Unlocked
        /\ IF tables.providers[p] = None
           THEN visits' = [visits EXCEPT ![v] = NoVisit] /\ UNCHANGED <<tables, culled>>
           ELSE /\ UserOf(tables, p, info.sub) = {} => tables.next \in Ids
                /\ tables' = IF ~in THEN found.tables
                             ELSE Grown(found.tables, found.user, RuleGroups(tables, info, p))
                /\ visits' = [visits EXCEPT ![v] =
                                 IF in THEN [@ EXCEPT !.pc = "in", !.user = found.user] ELSE NoVisit]
                /\ culled' = {c \in culled : c.provider # p \/ c.sub # info.sub}
        /\ UNCHANGED <<manager, pending, editors, mode, document, drifted, banned, counts>>

\* The session is minted (ConfigSync) and the browser goes on.
mint_session(v) ==
    /\ visits[v].pc = "in"
    /\ visits' = [visits EXCEPT ![v] = NoVisit]
    /\ UNCHANGED <<tables, manager, pending, editors, mode, document, drifted, banned, culled,
                   counts>>

-----------------------------------------------------------------------------
\* Administrators.  The middleware looks at the mode, the handler runs later.
require_not_declarative(e) ==
    /\ editors[e] = "idle"
    /\ mode = "gui"
    /\ Count("edits", MaxEdits)
    /\ editors' = [editors EXCEPT ![e] = "allowed"]
    /\ UNCHANGED <<tables, manager, pending, visits, mode, document, drifted, banned, culled>>

Edit(e, t) ==
    /\ editors[e] = "allowed"
    /\ Unlocked
    /\ tables' = t
    /\ editors' = [editors EXCEPT ![e] = "idle"]
    /\ UNCHANGED <<manager, pending, visits, mode, document, drifted, counts>>

add_group_member(e) ==
    \E i \in Live(tables), g \in Given(tables) :
        /\ Edit(e, [tables EXCEPT !.users[i].groups = @ \union {g}])
        /\ UNCHANGED <<banned, culled>>

remove_group_member(e) ==
    \E i \in Live(tables) : \E g \in tables.users[i].groups :
        /\ Edit(e, [tables EXCEPT !.users[i].groups = @ \ {g}])
        /\ UNCHANGED <<banned, culled>>

create_group(e) ==
    \E g \in Groups \ Given(tables) :
        /\ Edit(e, [tables EXCEPT !.groups[g] = 1])
        /\ UNCHANGED <<banned, culled>>

\* Another content under the same name: no row refers to it.
update_group(e) ==
    \E g \in Given(tables) :
        /\ Edit(e, [tables EXCEPT !.groups[g] = 3 - @])
        /\ UNCHANGED <<banned, culled>>

delete_group(e) ==
    \E g \in Given(tables) :
        /\ Edit(e, WithoutGroups(tables, {g}))
        /\ culled' = {}
        /\ UNCHANGED banned

\* The subjects of user i.
Subjects(t, i) == {[provider |-> x.provider, sub |-> x.sub, name |-> t.users[i].name]
                     : x \in {y \in t.idents : y.user = i}}

\* update_user: a ban, its end, or a direct permission.
update_user(e) ==
    \E i \in Live(tables) :
        /\ \/ /\ Edit(e, [tables EXCEPT !.users[i].enabled = ~@])
              /\ banned' = IF tables.users[i].enabled THEN banned \union Subjects(tables, i)
                           ELSE banned \ Subjects(tables, i)
           \/ /\ Edit(e, [tables EXCEPT !.users[i].perms = {"all"} \ @])
              /\ UNCHANGED banned
        /\ UNCHANGED culled

delete_user(e) ==
    \E i \in Live(tables) :
        /\ Edit(e, WithoutUsers(tables, {i}))
        /\ banned' = banned \ Subjects(tables, i)
        /\ UNCHANGED culled

\* The rows of the rules and of the providers.
create_group_mapping_rule(t, r) == [t EXCEPT !.rules = @ \union {r}]
update_group_mapping_rule(t, r, new) == [t EXCEPT !.rules = (@ \ {r}) \union {new}]
create_auth_provider(t, p, s) == [t EXCEPT !.providers[p] = s]
update_auth_provider(t, p, s) == [t EXCEPT !.providers[p] = s]

create_mapping(e) ==
    \E r \in Rules \ tables.rules :
        /\ r.group \in Given(tables) /\ r.provider \in Offered(tables) \union {None}
        /\ Edit(e, create_group_mapping_rule(tables, r))
        /\ culled' = {}
        /\ UNCHANGED banned

update_mapping(e) ==
    \E r \in tables.rules, n \in Rules \ tables.rules :
        /\ n.group \in Given(tables) /\ n.provider \in Offered(tables) \union {r.provider}
        /\ Edit(e, update_group_mapping_rule(tables, r, n))
        /\ culled' = {}
        /\ UNCHANGED banned

delete_mapping(e) ==
    \E r \in tables.rules :
        /\ Edit(e, [tables EXCEPT !.rules = @ \ {r}])
        /\ culled' = {}
        /\ UNCHANGED banned

\* Every identity's groups once more, each merged into what its user has.
sync_memberships(e) ==
    LET gained(i) == UNION {RuleGroups(tables, x, x.provider) : x \in {y \in tables.idents : y.user = i}}
    IN  /\ Edit(e, [tables EXCEPT !.users = [i \in Ids |->
                       IF @[i] = None THEN None
                       ELSE [@[i] EXCEPT !.groups = merge_group_memberships(@, gained(i))]]])
        /\ UNCHANGED <<banned, culled>>

\* A provider created, changed or deleted: first its row, then the manager.
EditProvider(e, t) ==
    /\ editors[e] = "allowed"
    /\ Unlocked
    /\ tables' = t
    /\ editors' = [editors EXCEPT ![e] = "rebuild"]
    /\ culled' = {}
    /\ UNCHANGED <<manager, pending, visits, mode, document, drifted, counts>>

create_provider(e) ==
    \E p \in Providers \ Offered(tables), s \in Settings :
        /\ EditProvider(e, create_auth_provider(tables, p, s))
        /\ UNCHANGED banned

update_provider(e) ==
    \E p \in Offered(tables) : \E s \in Settings \ {tables.providers[p]} :
        /\ EditProvider(e, update_auth_provider(tables, p, s))
        /\ UNCHANGED banned

delete_provider(e) ==
    \E p \in Offered(tables) :
        /\ EditProvider(e, WithoutProviders(tables, {p}))
        /\ banned' = {s \in banned : s.provider # p}

\* rebuild_external_auth: the rows are read and the snapshot swapped with the database locked;
\* then every pending login is forgotten.

rebuild(e) ==
    /\ editors[e] = "rebuild"
    /\ Unlocked
    /\ manager' = Enabled(tables)
    /\ drifted' = FALSE
    /\ editors' = [editors EXCEPT ![e] = "clear"]
    /\ UNCHANGED <<tables, pending, visits, mode, document, banned, culled, counts>>

clear_pending(e) ==
    /\ editors[e] = "clear"
    /\ pending' = {}
    /\ editors' = [editors EXCEPT ![e] = "idle"]
    /\ UNCHANGED <<tables, manager, visits, mode, document, drifted, banned, culled, counts>>

-----------------------------------------------------------------------------
\* The declarative reconcile.  A document is [users, groups, providers, rules]: sets of users
\* [name, key, secret, enabled, perms, groups], of [name, content], of [name, set] and of rules.
Named(s, n) == CHOOSE x \in s : x.name = n
Names(s) == {x.name : x \in s}
DbNames(t) == {t.users[i].name : i \in Live(t)}
\* load_users gives the rows in the order of their numbers; the diff takes the first.
RowOf(t, n) == Min({i \in Live(t) : t.users[i].name = n})

is_empty(d) == d.users = {} /\ d.groups = {} /\ d.providers = {} /\ d.rules = {}

validate(d, t) ==
    /\ \A x, y \in d.users : x # y => x.name # y.name /\ x.key # y.key
    /\ \A x, y \in d.groups : x # y => x.name # y.name
    /\ \A x, y \in d.providers : x # y => x.name # y.name
    /\ \A x \in d.users : x.groups \subseteq Names(d.groups)
    /\ \A r \in d.rules : r.group \in Names(d.groups) /\ r.provider \in Names(d.providers) \union {None}
    /\ \A x \in d.users : x.name \notin DbNames(t) => x.secret # None
    /\ \A x \in d.providers : x.name \notin Offered(t) => x.set.secret # None
    /\ \A x \in d.users, i \in Live(t) : t.users[i].name # x.name => t.users[i].key # x.key

\* A secret that the document leaves out is the one on record.
desired_existing_user(row, x) == [x EXCEPT !.secret = IF @ = None THEN row.secret ELSE @]
desired_existing_provider(row, s) == [s EXCEPT !.secret = IF @ = None THEN row.secret ELSE @]

user_equal(row, x) ==
    /\ row.key = x.key /\ row.secret = x.secret /\ row.enabled = x.enabled
    /\ row.perms = x.perms /\ row.groups = x.groups

\* What the next login would give the user again: the groups of its identities at enabled
\* providers, by the rules on record.
compute_external_baseline_groups(t, i) ==
    UNION {RuleGroups(t, x, x.provider) :
             x \in {y \in t.idents : y.user = i /\ t.providers[y.provider].enabled}}

external_user_is_reconstructable(row, baseline) ==
    row.enabled /\ row.perms = {} /\ row.groups = baseline

diff_iam(d, t) ==
    LET gone == {i \in Live(t) : t.users[i].name \notin Names(d.users)}
        external == {i \in gone : /\ t.users[i].external
                                  /\ external_user_is_reconstructable(
                                         t.users[i], compute_external_baseline_groups(t, i))}
    IN  [groups_to_write |-> {g \in d.groups : t.groups[g.name] # g.content},
         groups_to_delete |-> Given(t) \ Names(d.groups),
         providers_to_write |->
             {p \in d.providers : \/ p.name \notin Offered(t)
                                  \/ t.providers[p.name] #
                                         desired_existing_provider(t.providers[p.name], p.set)},
         providers_to_delete |-> Offered(t) \ Names(d.providers),
         users_to_create |-> {x \in d.users : x.name \notin DbNames(t)},
         users_to_update |->
             {x \in d.users : x.name \in DbNames(t) /\
                 LET row == t.users[RowOf(t, x.name)]
                 IN  ~user_equal(row, desired_existing_user(row, x))},
         local_user_deletes |-> {i \in gone : ~t.users[i].external},
         external_user_deletes |-> external,
         mapping_rules |-> IF d.rules = t.rules THEN "Keep"
                           ELSE IF d.rules = {} THEN "ClearAll" ELSE "ReplaceWith"]

Row(x, external) == [name |-> x.name, key |-> x.key, secret |-> x.secret, external |-> external,
                     enabled |-> x.enabled, perms |-> x.perms, groups |-> x.groups]

\* One transaction: the rules go first, unless they are as the document says; then users,
\* providers and groups that it does not name, each with the rows that refer to it.
Pruned(diff, t) ==
    LET cleared == IF diff.mapping_rules = "Keep" THEN t ELSE [t EXCEPT !.rules = {}]
    IN  WithoutGroups(
            WithoutProviders(
                WithoutUsers(cleared, diff.local_user_deletes \union diff.external_user_deletes),
                diff.providers_to_delete),
            diff.groups_to_delete)

\* The rules come last, all of them or none.
Replaced(d, diff, pruned) ==
    IF diff.mapping_rules = "ReplaceWith" THEN d.rules ELSE pruned.rules

\* Then what it does name, groups before the users in them.
apply_iam_reconcile(d, diff, t) ==
    LET pruned == Pruned(diff, t)
        new == SetToSeq(diff.users_to_create)
        changed(i) == {x \in diff.users_to_update : RowOf(t, x.name) = i}
    IN  [users |-> [i \in Ids |->
             IF i \in t.next..(t.next + Len(new) - 1) THEN Row(new[i - t.next + 1], FALSE)
             ELSE IF changed(i) # {}
             THEN Row(desired_existing_user(t.users[i], CHOOSE x \in changed(i) : TRUE),
                      t.users[i].external)
             ELSE pruned.users[i]],
         groups |-> [g \in Groups |->
             IF g \in Names(diff.groups_to_write) THEN Named(d.groups, g).content ELSE pruned.groups[g]],
         providers |-> [p \in Providers |->
             IF p \notin Names(diff.providers_to_write) THEN pruned.providers[p]
             ELSE IF t.providers[p] = None THEN Named(d.providers, p).set
             ELSE desired_existing_provider(t.providers[p], Named(d.providers, p).set)],
         rules |-> Replaced(d, diff, pruned),
         idents |-> pruned.idents,
         next |-> t.next + Len(new)]

\* The transaction fails as a whole where two rows would have one access key.
KeysUnique(t) == \A i, j \in Live(t) : i # j => t.users[i].key # t.users[j].key
Reconciles(d, t) ==
    /\ validate(d, t)
    /\ t.next + Cardinality(diff_iam(d, t).users_to_create) - 1 \in Ids \union {0}
    /\ KeysUnique(apply_iam_reconcile(d, diff_iam(d, t), t))

\* The external users a reconcile drops, for whom it leaves rules and provider as they were.
Dropped(d, diff, t) ==
    {[provider |-> x.provider, sub |-> x.sub, mail |-> x.mail, verified |-> x.verified,
      claim |-> x.claim, groups |-> t.users[x.user].groups, perms |-> t.users[x.user].perms,
      enabled |-> t.users[x.user].enabled] :
        x \in {y \in t.idents : y.user \in diff.external_user_deletes}}
Untouched(diff) ==
    /\ diff.mapping_rules = "Keep" /\ diff.groups_to_delete = {}
    /\ diff.providers_to_write = {} /\ diff.providers_to_delete = {}

reconcile_declarative_iam(d) ==
    LET diff == diff_iam(d, tables)
    IN  /\ tables' = apply_iam_reconcile(d, diff, tables)
        /\ culled' = IF Untouched(diff) THEN culled \union Dropped(d, diff, tables) ELSE {}
        /\ banned' = {s \in banned : s.provider \in Names(d.providers) /\ s.name \notin Names(d.users)}

\* export_as_declarative: the tables as a document, secrets left out.
export_as_declarative(t) ==
    [users |-> {[name |-> u.name, key |-> u.key, secret |-> None, enabled |-> u.enabled,
                 perms |-> u.perms, groups |-> u.groups] : u \in {t.users[i] : i \in Live(t)}},
     groups |-> {[name |-> g, content |-> t.groups[g]] : g \in Given(t)},
     providers |-> {[name |-> p, set |-> [t.providers[p] EXCEPT !.secret = None]] : p \in Offered(t)},
     rules |-> t.rules]

\* A document is applied: not an empty one over tables kept by hand, and nothing is done for
\* the document in force.  Only a restart or a provider's handler tells the manager.
apply_config(d) ==
    /\ Unlocked
    /\ Count("applies", MaxApplies)
    /\ mode = "gui" => ~is_empty(d)
    /\ ~(mode = "declarative" /\ document = d)
    /\ Reconciles(d, tables)
    /\ reconcile_declarative_iam(d)
    /\ mode' = "declarative"
    /\ document' = d
    /\ drifted' = (drifted \/ Enabled(tables') # Enabled(tables))
    /\ UNCHANGED <<manager, pending, visits, editors>>

\* The mode goes back to the database; its rows stay.
back_to_gui ==
    /\ mode = "declarative"
    /\ Count("applies", MaxApplies)
    /\ mode' = "gui"
    /\ document' = None
    /\ UNCHANGED <<tables, manager, pending, visits, editors, drifted, banned, culled>>

\* A restart, perhaps with another document in the file: one with IAM in it is reconciled,
\* unless that would delete a local user, a group or a provider, and a refusal keeps the node
\* down; the manager is built from the rows.
startup_declarative_action(diff) ==
    diff.local_user_deletes = {} /\ diff.groups_to_delete = {} /\ diff.providers_to_delete = {}

Boot(d) ==
    /\ Count("boots", MaxBoots)
    /\ IF d = None \/ is_empty(d)
       THEN UNCHANGED <<tables, culled, banned>>
       ELSE /\ Reconciles(d, tables)
            /\ startup_declarative_action(diff_iam(d, tables))
            /\ reconcile_declarative_iam(d)
    /\ mode' = IF d = None THEN "gui" ELSE "declarative"
    /\ document' = d
    /\ manager' = Enabled(tables')
    /\ drifted' = FALSE
    /\ pending' = {}
    /\ visits' = [v \in Visitors |-> NoVisit]
    /\ editors' = [e \in Editors |-> "idle"]

-----------------------------------------------------------------------------
Login(v) ==
    \/ \E p \in Providers : oauth_authorize(v, p)
    \/ initiate_auth(v) \/ cleanup_expired_pending(v) \/ consume_pending(v) \/ get_provider(v)
    \/ exchange_code(v) \/ oauth_callback(v) \/ mint_session(v)

Administer(e) ==
    \/ require_not_declarative(e)
    \/ add_group_member(e) \/ remove_group_member(e) \/ create_group(e) \/ update_group(e)
    \/ delete_group(e) \/ update_user(e) \/ delete_user(e) \/ create_mapping(e)
    \/ update_mapping(e) \/ delete_mapping(e)
    \/ sync_memberships(e) \/ create_provider(e) \/ update_provider(e)
    \/ delete_provider(e) \/ rebuild(e)
    \/ clear_pending(e)

Next ==
    \/ \E v \in Visitors : Login(v)
    \/ \E e \in Editors : Administer(e)
    \/ \E d \in Docs \union {export_as_declarative(tables)} : apply_config(d)
    \/ back_to_gui
    \/ \E d \in {document} \union Docs : Boot(d)

Spec == Init /\ [][Next]_vars

-----------------------------------------------------------------------------
\* The login of v is let in by this step.
LetIn(v) == visits[v].pc = "known" /\ visits'[v].pc = "in"

\* Once an administrator has disabled a user, its subject does not get in, neither as that user
\* nor as a new one: no reconcile and no restart drops a disabled user so that the next login
\* makes it anew, enabled (external_user_is_reconstructable).
BanHolds ==
    \A v \in Visitors : LetIn(v) =>
        ~\E s \in banned : s.provider = visits[v].provider /\ s.sub = visits[v].info.sub

\* The user that a reconcile has dropped is the same again after its next login, in its groups,
\* its own permissions and being enabled, as long as rules, groups and providers are what they
\* were and the provider says the same of it.
Rebuilt ==
    \A v \in Visitors : LetIn(v) =>
        \A c \in culled :
            /\ c.provider = visits[v].provider /\ c.sub = visits[v].info.sub
            /\ c.mail = visits[v].info.mail /\ c.verified = visits[v].info.verified
            /\ c.claim = visits[v].info.claim
            => LET u == tables'.users[visits'[v].user]
               IN u.groups = c.groups /\ u.perms = c.perms /\ u.enabled = c.enabled

\* A login adds groups and takes none away, and gives each subject one user.
MembershipsKept ==
    \A v \in Visitors : LetIn(v) =>
        /\ \A i \in Live(tables) : tables.users[i].groups \subseteq tables'.users[i].groups
        /\ \A x, y \in tables'.idents : x.provider = y.provider /\ x.sub = y.sub => x = y

\* A document that has been applied has nothing more to do to local users, groups, providers
\* and rules; external users it may still drop, those that a login would rebuild.
Settles ==
    counts'.applies # counts.applies /\ mode' = "declarative" =>
        LET diff == diff_iam(document', tables')
        IN  /\ diff.groups_to_write = {} /\ diff.groups_to_delete = {}
            /\ diff.providers_to_write = {} /\ diff.providers_to_delete = {}
            /\ diff.users_to_create = {} /\ diff.users_to_update = {}
            /\ diff.local_user_deletes = {} /\ diff.mapping_rules = "Keep"

\* No restart loses a user that a document or an administrator has made.
LocalKept ==
    counts'.boots # counts.boots =>
        \A i \in Live(tables) : ~tables.users[i].external => i \in Live(tables')

\* All of it.
PeopleKept == BanHolds /\ Rebuilt /\ MembershipsKept /\ Settles /\ LocalKept

\* Applying what the database exports changes nothing, where no two users have one name.
ExportIsNoop ==
    LET d == export_as_declarative(tables)
    IN  (\A i, j \in Live(tables) : i # j => tables.users[i].name # tables.users[j].name) =>
            validate(d, tables) /\ apply_iam_reconcile(d, diff_iam(d, tables), tables) = tables

\* Once every provider's handler is through, logins go to the providers that are enabled on
\* record, however the handlers overlapped.
ManagerFollows ==
    (\A e \in Editors : editors[e] \in {"idle", "allowed"}) /\ ~drifted => manager = Enabled(tables)
=============================================================================
