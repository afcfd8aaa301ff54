------------------------------- MODULE Policy -------------------------------
(* Who may do what in one bucket: the admission blocks of the operator, the *)
(* public prefixes of the bucket and the permissions of a user, as they are *)
(* validated and compiled when they are written and evaluated when a        *)
(* request comes (admission/, bucket_policy.rs, iam/permissions.rs).        *)
(*                                                                          *)
(* A name, key or pattern is a sequence of atoms: "/" is the separator, "*" *)
(* the wildcard, "$name" the template of the user's name and "$other" one   *)
(* that does not exist; every other atom is a letter.  A resource is the    *)
(* bucket, or the bucket, "/" and a key.                                    *)
EXTENDS Naturals, Sequences, SequencesExt, FiniteSets

CONSTANTS
    Bucket,       \* the bucket's name
    Keys,         \* the keys it holds
    Asked,        \* prefixes that listings ask for
    Policies,     \* bucket policies written: [public, prefixes]
    BlockLists,   \* operator's admission blocks written: sequences of Blocks
    Names,        \* names of users
    Grants,       \* permission lists written for users
    TeamGrants,   \* permission lists written for the user's group
    None, Unreadable, MaxWrites

VARIABLES
    policy,       \* the bucket's policy in force
    blocks,       \* the operator's blocks in force
    user,         \* [name, perms]: the user's row
    team,         \* the permissions of the user's group
    told,         \* the last answer: [who, what, keys], or None
    writes

vars == <<policy, blocks, user, team, told, writes>>

Object(key) == Bucket \o <<"/">> \o key

\* The pattern language of iam-rs: "*" stands for any run of atoms.
RECURSIVE Like(_, _)
Like(p, s) ==
    IF p = <<>> THEN s = <<>>
    ELSE IF Head(p) = "*" THEN \E i \in 0..Len(s) : Like(Tail(p), SubSeq(s, i + 1, Len(s)))
    ELSE s # <<>> /\ Head(p) = Head(s) /\ Like(Tail(p), Tail(s))

EndsIn(s, atom) == s # <<>> /\ Last(s) = atom

-----------------------------------------------------------------------------
(* Permissions as they are written: [effect, actions, resources, cond],    *)
(* with cond None, Unreadable, or the patterns of a StringLike condition *)
(* on s3:prefix.                                                           *)
ValidActions == {"read", "write", "delete", "list", "admin", "*"}

validate_template_vars(s) == \A i \in DOMAIN s : s[i] # "$other"

\* Mutant: a wildcard is accepted anywhere.
StarsAnywhere(perm) ==
    /\ perm.effect \in {"Allow", "allow", "Deny", "deny"}
    /\ perm.actions # {} /\ perm.actions \subseteq ValidActions
    /\ perm.resources # {}

validate_permission(perm) ==
    /\ perm.effect \in {"Allow", "allow", "Deny", "deny"}
    /\ perm.actions # {} /\ perm.actions \subseteq ValidActions
    /\ perm.resources # {}
    /\ \A r \in perm.resources :
          /\ r # <<>>
          /\ validate_template_vars(r)
          /\ \A i \in 1..(Len(r) - 1) : r[i] # "*"
    /\ perm.cond # None =>
          /\ perm.cond # Unreadable
          /\ \A p \in perm.cond : validate_template_vars(p)

normalize_permission(perm) ==
    [perm EXCEPT !.effect = IF @ = "allow" THEN "Allow" ELSE IF @ = "deny" THEN "Deny" ELSE @]

\* The name as it stands in a pattern: separators and wildcards are escaped.
encode_template_value(s) ==
    [i \in DOMAIN s |-> CASE s[i] = "/" -> "%2F" [] s[i] = "*" -> "%2A" [] OTHER -> s[i]]

\* Mutant: the name is put in as it is.
ExpandRaw(s, name) ==
    FlattenSeq([i \in DOMAIN s |-> IF s[i] = "$name" THEN name ELSE <<s[i]>>])

expand_template_value(s, name) ==
    FlattenSeq([i \in DOMAIN s |->
                   IF s[i] = "$name" THEN encode_template_value(name) ELSE <<s[i]>>])

expand_condition_templates(cond, name) ==
    IF cond \in {None, Unreadable} THEN cond
    ELSE {expand_template_value(p, name) : p \in cond}

Expandable(perm) ==
    /\ \A r \in perm.resources : validate_template_vars(r)
    /\ perm.cond \notin {None, Unreadable} => \A p \in perm.cond : validate_template_vars(p)

expand_permission_templates(perms, name) ==
    {[perm EXCEPT !.resources = {expand_template_value(r, name) : r \in perm.resources},
                  !.cond = expand_condition_templates(@, name)] : perm \in perms}

\* What the index holds for a user: own and inherited permissions, expanded; one bad
\* template leaves none.
from_users_and_groups(u, inherited) ==
    LET perms == u.perms \cup inherited
    IN  IF \A perm \in perms : Expandable(perm)
        THEN expand_permission_templates(perms, u.name) ELSE {}

-----------------------------------------------------------------------------
(* Evaluation.  ctx is the s3:prefix of the request, or None.               *)
\* The policies of iam-rs: a statement whose condition cannot be read is dropped.
permission_to_iam_policy(perms) == {perm \in perms : perm.cond # Unreadable}

Applies(perm, action, resource, ctx) ==
    /\ perm.actions \cap {action, "*"} # {}
    /\ \E r \in perm.resources : Like(r, resource)
    /\ perm.cond # None => ctx # None /\ \E p \in perm.cond : Like(p, ctx)

Decide(perms, action, resource, ctx) ==
    LET hit == {perm.effect : perm \in {p \in permission_to_iam_policy(perms) :
                                            Applies(p, action, resource, ctx)}}
    IN  IF "Deny" \in hit THEN "Deny" ELSE IF "Allow" \in hit THEN "Allow" ELSE "none"

build_resource_arn(key) == IF key = <<>> THEN Bucket ELSE Object(key)

\* A request for the bucket that nothing decides is tried as "bucket/" too.
evaluate_iam(perms, action, key, ctx) ==
    LET first == Decide(perms, action, build_resource_arn(key), ctx)
    IN  \/ first = "Allow"
        \/ first = "none" /\ key = <<>> /\ Decide(perms, action, Object(<<>>), ctx) = "Allow"

is_explicitly_denied_iam(perms, action, key, ctx) ==
    Decide(perms, action, build_resource_arn(key), ctx) = "Deny"

\* The evaluator without conditions, for users without compiled policies.
matches_resource(pattern, resource) ==
    IF EndsIn(pattern, "*")
    THEN LET stem == Front(pattern)
         IN  \/ IsPrefix(stem, resource)
             \/ EndsIn(stem, "/") /\ resource = Front(stem)
    ELSE resource = pattern

matches_action_and_resource(perm, action, key) ==
    /\ perm.actions \cap {action, "*"} # {}
    /\ \E r \in perm.resources : matches_resource(r, build_resource_arn(key))

Matched(perms, effect, action, key) ==
    \E perm \in perms : perm.effect = effect /\ matches_action_and_resource(perm, action, key)

evaluate_legacy(perms, action, key) ==
    ~Matched(perms, "Deny", action, key) /\ Matched(perms, "Allow", action, key)

can_with_context(perms, action, key, ctx) ==
    IF perms # {} THEN evaluate_iam(perms, action, key, ctx)
                  ELSE evaluate_legacy(perms, action, key)

can(perms, action, key) == can_with_context(perms, action, key, None)

has_any_on_bucket(perms) ==
    \E perm \in perms : /\ perm.effect = "Allow"
                        /\ \E r \in perm.resources : \/ r \in {<<"*">>, Bucket}
                                                     \/ IsPrefix(Object(<<>>), r)

-----------------------------------------------------------------------------
(* Listings.                                                                *)
\* Some unconditional Allow covers all that the listing asks for.
has_unrestricted_allow(perms, prefix) ==
    LET path == IF prefix = <<>> THEN Bucket ELSE Object(prefix)
    IN  \E perm \in perms :
           /\ perm.effect = "Allow" /\ perm.cond = None
           /\ \E r \in perm.resources : \/ r \in {<<"*">>, Bucket, Object(<<"*">>), path}
                                        \/ EndsIn(r, "*") /\ IsPrefix(Front(r), path)

\* Mutant: a listed key is tested against the prefix asked for.
SeesWhatIsAsked(perms, key) ==
    \/ can(perms, "read", key) \/ can(perms, "list", key)
    \/ \E p \in Asked : IsPrefix(p, key) /\ can_with_context(perms, "list", <<>>, p)

user_can_see_listed_key(perms, key) ==
    \/ can(perms, "read", key) \/ can(perms, "list", key)
    \/ can_with_context(perms, "list", <<>>, key)

resource_descends_from_prefix(r, prefix) ==
    r = <<"*">> \/ IsPrefix(Object(prefix), IF EndsIn(r, "*") THEN Front(r) ELSE r)

allow_references_common_prefix(perms, prefix) ==
    \E perm \in perms : /\ perm.effect = "Allow" /\ perm.cond = None
                        /\ perm.actions \cap {"*", "read", "list"} # {}
                        /\ \E r \in perm.resources : resource_descends_from_prefix(r, prefix)

user_can_see_common_prefix(perms, prefix) ==
    user_can_see_listed_key(perms, prefix) \/ allow_references_common_prefix(perms, prefix)

\* The scope that the middleware gives a listing; nobody gets no fallback.
ListScope(perms, nobody, prefix) ==
    IF can_with_context(perms, "list", <<>>, prefix)
    THEN IF has_unrestricted_allow(perms, prefix) THEN "all" ELSE "filtered"
    ELSE IF is_explicitly_denied_iam(perms, "list", <<>>, prefix) \/ nobody THEN "none"
    ELSE IF has_any_on_bucket(perms) THEN "filtered" ELSE "none"

\* The directories of a listing with the delimiter "/": up to the first one after the prefix.
Directories(prefix) ==
    LET Cut(k) == {i \in (Len(prefix) + 1)..Len(k) : k[i] = "/"}
    IN  {SubSeq(k, 1, CHOOSE i \in Cut(k) : \A j \in Cut(k) : i <= j) :
            k \in {x \in Keys : IsPrefix(prefix, x) /\ Cut(x) # {}}}

\* The two list handlers.
list_objects(perms, nobody, prefix) ==
    LET scope == ListScope(perms, nobody, prefix)
    IN  {k \in Keys : /\ IsPrefix(prefix, k)
                      /\ \/ scope = "all"
                         \/ scope = "filtered" /\ user_can_see_listed_key(perms, k)}

ListedPrefixes(perms, nobody, prefix) ==
    LET scope == ListScope(perms, nobody, prefix)
        Sees(d) == user_can_see_common_prefix(perms, d)
    IN  {d \in Directories(prefix) : scope = "all" \/ (scope = "filtered" /\ Sees(d))}

-----------------------------------------------------------------------------
(* Public prefixes.                                                         *)
validate_public_prefix(p) ==
    \/ p = <<>>
    \/ /\ \A i \in 1..(Len(p) - 1) : ~(p[i] = "/" /\ p[i + 1] = "/")
       /\ EndsIn(p, "/")

Stripped(p) == IF \A i \in DOMAIN p : p[i] = "/" THEN <<>>
               ELSE SubSeq(p, CHOOSE i \in DOMAIN p : p[i] # "/" /\ \A j \in 1..(i - 1) : p[j] = "/",
                           Len(p))

\* Mutant: slashes alone are the whole bucket.
SlashIsAll(ps) == {q \in {Stripped(p) : p \in ps} : validate_public_prefix(q)}

\* The prefixes that count, without their leading slashes; slashes alone do not.
validate_and_normalize_prefix(ps) ==
    {q \in {Stripped(p) : p \in {x \in ps : x = <<>> \/ \E i \in DOMAIN x : x[i] # "/"}} :
        validate_public_prefix(q)}

\* public TRUE is short for the prefix that is empty; with other prefixes it is refused.
Normalizable(pol) == pol.public = TRUE => pol.prefixes \in {{}, {<<>>}}
normalize(pol) ==
    IF pol.public = TRUE THEN [pol EXCEPT !.prefixes = {<<>>}] ELSE [pol EXCEPT !.public = None]

collapse_to_shorthand(pol) ==
    IF pol.prefixes = {<<>>} THEN [public |-> TRUE, prefixes |-> {}] ELSE pol

\* The snapshot that the authentication and the admission chain read.
from_config(pol) == validate_and_normalize_prefix(pol.prefixes)

is_public_read(prefixes, key) == \E p \in prefixes : IsPrefix(p, key)

list_overlaps_public(prefixes, asked) ==
    \E p \in prefixes : IsPrefix(p, asked) \/ IsPrefix(asked, p)

\* The permissions of nobody in particular.
build_anonymous_user(prefixes) ==
    LET Allow(action, r, cond) ==
            [effect |-> "Allow", actions |-> {action}, resources |-> {r}, cond |-> cond]
    IN  UNION {{Allow("read", Object(p \o <<"*">>), None),
                Allow("list", Object(<<"*">>),
                      IF p = <<>> THEN None
                      ELSE IF EndsIn(p, "/") THEN {Front(p), p \o <<"*">>}
                      ELSE {p \o <<"*">>})} : p \in prefixes}

-----------------------------------------------------------------------------
(* The admission chain.  A block is [method, bucket, glob, signed, flag,     *)
(* action]; None in a field means any.                                      *)
validate_block(b) ==
    /\ b.method # None => b.method # {} /\ b.method \subseteq {"GET", "PUT"}
    /\ b.action \in {"allow", "deny", "continue", "reject"}

match_predicates(b, req) ==
    /\ b.method # None => req.method \in b.method
    /\ b.bucket # None => b.bucket = Bucket
    /\ b.glob # None => Like(b.glob, IF req.key # <<>> THEN req.key ELSE req.prefix)
    /\ IF b.signed # None THEN b.signed = req.signed ELSE b.action = "allow" => ~req.signed
    /\ b.flag = None

match_public_prefix_grant(prefixes, req) ==
    /\ req.method = "GET" /\ ~req.signed
    /\ IF req.key # <<>> THEN is_public_read(prefixes, req.key)
       ELSE list_overlaps_public(prefixes, req.prefix)

\* The first block that matches decides; those of the public prefixes come last.
Admit(chain, prefixes, req) ==
    LET hit == {i \in DOMAIN chain : match_predicates(chain[i], req)}
    IN  IF hit # {} THEN chain[CHOOSE i \in hit : \A j \in hit : i <= j].action
        ELSE IF match_public_prefix_grant(prefixes, req) THEN "allow" ELSE "continue"

-----------------------------------------------------------------------------
Edited == writes < MaxWrites /\ writes' = writes + 1 /\ told' = None

\* A bucket policy is written: it is expanded, or refused.
put_bucket_policy ==
    /\ Edited
    /\ \E pol \in Policies : /\ Normalizable(pol)
                             /\ policy' = normalize(pol)
    /\ UNCHANGED <<blocks, user, team>>

put_admission ==
    /\ Edited
    /\ \E bs \in BlockLists : /\ \A i \in DOMAIN bs : validate_block(bs[i])
                              /\ blocks' = bs
    /\ UNCHANGED <<policy, user, team>>

put_user ==
    /\ Edited
    /\ \E name \in Names, perms \in Grants :
          /\ \A perm \in perms : validate_permission(perm)
          /\ user' = [name |-> name, perms |-> {normalize_permission(perm) : perm \in perms}]
    /\ UNCHANGED <<policy, blocks, team>>

put_group ==
    /\ Edited
    /\ \E perms \in TeamGrants :
          /\ \A perm \in perms : validate_permission(perm)
          /\ team' = {normalize_permission(perm) : perm \in perms}
    /\ UNCHANGED <<policy, blocks, user>>

Effective == from_users_and_groups(user, team)

Request(method, key, prefix, signed) ==
    [method |-> method, key |-> key, prefix |-> prefix, signed |-> signed]

\* A request passes the chain, becomes somebody and is authorized.  An unsigned one that was
\* not admitted is refused.
Answer(req) ==
    LET prefixes == from_config(policy)
        verdict == Admit(blocks, prefixes, req)
        nobody == verdict = "allow"
        perms == IF nobody THEN build_anonymous_user(prefixes) ELSE Effective
        action == IF req.key = <<>> THEN "list" ELSE IF req.method = "GET" THEN "read" ELSE "write"
    IN  IF verdict \in {"deny", "reject"} \/ (~nobody /\ ~req.signed)
        THEN [req |-> req, nobody |-> nobody, keys |-> {}, prefixes |-> {}]
        ELSE IF action = "list"
        THEN [req |-> req, nobody |-> nobody, keys |-> list_objects(perms, nobody, req.prefix),
              prefixes |-> ListedPrefixes(perms, nobody, req.prefix)]
        ELSE [req |-> req, nobody |-> nobody,
              keys |-> IF can(perms, action, req.key) THEN {req.key} ELSE {}, prefixes |-> {}]

serve ==
    /\ told = None
    /\ \/ \E k \in Keys, m \in {"GET", "PUT"}, s \in BOOLEAN : told' = Answer(Request(m, k, <<>>, s))
       \/ \E p \in Asked, s \in BOOLEAN : told' = Answer(Request("GET", <<>>, p, s))
    /\ UNCHANGED <<policy, blocks, user, team, writes>>

Init ==
    /\ policy = [public |-> None, prefixes |-> {}]
    /\ blocks = <<>>
    /\ user \in [name: Names, perms: {{}}]
    /\ team = {}
    /\ told = None
    /\ writes = 0

Next == put_bucket_policy \/ put_admission \/ put_user \/ put_group \/ serve

Spec == Init /\ [][Next]_vars

-----------------------------------------------------------------------------
\* The admission chain and the permissions of nobody agree on the public keys, whatever was
\* written as a prefix; a public key lies in a directory that was named, or everything is.
SurfacesAgree ==
    LET prefixes == from_config(policy)
        perms == build_anonymous_user(prefixes)
    IN  \A k \in Keys :
           /\ can(perms, "read", k) <=> is_public_read(prefixes, k)
           /\ is_public_read(prefixes, k) =>
                 \/ <<>> \in policy.prefixes
                 \/ \E p \in policy.prefixes : EndsIn(p, "/") /\ IsPrefix(Stripped(p), k) /\ Stripped(p) # <<>>

\* What nobody in particular is shown is public, or is the bare name of a public directory;
\* and nothing is written for nobody.
NobodySeesPublic ==
    told # None /\ told.nobody =>
        /\ told.keys # {} => told.req.method = "GET"
        /\ \A k \in told.keys : \/ is_public_read(from_config(policy), k)
                                \/ k \o <<"/">> \in from_config(policy)

\* An operator's deny is final for those it matches first.
DenyFirst ==
    told # None /\ blocks # <<>> /\ blocks[1].action \in {"deny", "reject"}
        /\ match_predicates(blocks[1], told.req) => told.keys = {} /\ told.prefixes = {}

\* The export's shorthand means what it stands for, and expanding twice is expanding once.
ShorthandExact ==
    LET pol == collapse_to_shorthand(policy)
    IN  /\ Normalizable(pol) /\ normalize(pol).prefixes = policy.prefixes
        /\ Normalizable(policy) /\ normalize(policy) = policy

\* A template home belongs to one name: with the permissions of a home, no user reaches a key
\* in the home of another.
HomeOf(name) == encode_template_value(name) \o <<"/">>
HomesApart ==
    LET home == [effect |-> "Allow", actions |-> {"*"},
                 resources |-> {Object(<<"$name", "/", "*">>)}, cond |-> None]
    IN  (told # None /\ ~told.nobody /\ user.perms \cup team = {home}) =>
           /\ \A k \in told.keys : IsPrefix(HomeOf(user.name), k)
           /\ \A n \in Names \ {user.name}, k \in told.keys : ~IsPrefix(HomeOf(n), k)

\* The filter and the shortcut of a listing agree: a listing that is not filtered shows no key
\* that the filter would hide, for permissions in the documented patterns that allow looking.
Looks(perm) == /\ perm.effect = "Allow" /\ perm.actions \cap {"*", "read", "list"} # {}
               /\ \A r \in perm.resources : EndsIn(r, "*")
ShortcutAgrees ==
    (told # None /\ ~told.nobody /\ told.req.key = <<>> /\ \A perm \in Effective : Looks(perm)) =>
        \A k \in told.keys : user_can_see_listed_key(Effective, k)

\* A request served to a user is denied by none of the permissions that name its key.
NoDeniedKey ==
    (told # None /\ ~told.nobody /\ told.req.key # <<>> /\ told.keys # {}) =>
        \A perm \in Effective : perm.effect = "Deny" =>
            ~Applies(perm, IF told.req.method = "GET" THEN "read" ELSE "write",
                     Object(told.req.key), None)

\* The two evaluators agree on keys when no permission has a condition, but for the bare name
\* of a directory, which only the one without conditions counts as part of it.
BareName(k) == \E perm \in Effective : Object(k) \o <<"/", "*">> \in perm.resources
EvaluatorsAgree ==
    (\A perm \in Effective : perm.cond = None) =>
        \A k \in {x \in Keys : ~BareName(x)}, act \in {"read", "write", "list"} :
            evaluate_iam(Effective, act, k, None) <=> evaluate_legacy(Effective, act, k)

PolicySound == /\ SurfacesAgree /\ NobodySeesPublic /\ DenyFirst /\ ShorthandExact
               /\ HomesApart /\ ShortcutAgrees /\ NoDeniedKey /\ EvaluatorsAgree
=============================================================================
