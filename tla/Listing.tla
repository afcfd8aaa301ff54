------------------------------- MODULE Listing -------------------------------
(***************************************************************************)
(* A client pages through a bucket (engine list_objects over the delegated *)
(* listings of the S3 and the filesystem backend and over the bulk walk),  *)
(* while objects are written, deleted and change their stored form.  An    *)
(* object is stored under its own key or under its key with ".delta", so   *)
(* the order of the stored keys is not the order of the keys clients see.  *)
(*                                                                         *)
(* A key is a sequence of atoms, numbered in byte order; ".delta" is one   *)
(* of them.  One LIST request of the upstream store, one directory scan    *)
(* and one write are a step each.                                          *)
(***************************************************************************)
EXTENDS Naturals, Sequences, FiniteSets, SequencesExt

CONSTANTS
    Keys,           \* the keys clients use
    Delta, Slash,   \* the atoms ".delta" and "/"
    Reference,      \* the atom "reference.bin"
    Hidden,         \* stored keys of references
    Starts,         \* the stored keys a bucket may start with
    Queries,        \* [backend, prefix, delimiter]: the listings asked for
    PageSize,       \* entries in a page of the upstream store
    MaxKeys,        \* entries in a page of the client
    MaxWrites,      \* bound: writes that begin
    None

VARIABLES
    raw,            \* the stored keys
    write,          \* the write under way: the stored key still to be removed
    ask,            \* the client's query, its token, and how far its request is
    out,            \* what the client has been given, in order
    first,          \* ghost: keys visible when the listing began
    touched,        \* ghost: keys written or deleted since
    writes

vars == <<raw, write, ask, out, first, touched, writes>>

-----------------------------------------------------------------------------
(* Keys.                                                                   *)

Less(s, t) ==
    \/ IsStrictPrefix(s, t)
    \/ \E i \in DOMAIN s \cap DOMAIN t :
        /\ \A j \in 1 .. i - 1 : s[j] = t[j]
        /\ s[i] < t[i]

Sorted(S) == [i \in 1 .. Cardinality(S) |->
                CHOOSE k \in S : Cardinality({j \in S : Less(j, k)}) = i - 1]
Take(s, n) == SubSeq(s, 1, IF Len(s) < n THEN Len(s) ELSE n)

\* A file named reference.bin.
IsReference(k) == /\ k[Len(k)] = Reference
                  /\ Len(k) > 1 => k[Len(k) - 1] = Slash

\* The key a client knows a stored key by: all trailing ".delta" are cut.
UserKey(k) ==
    LET keep == {i \in DOMAIN k : k[i] # Delta}
    IN  IF keep = {} THEN <<>> ELSE SubSeq(k, 1, CHOOSE i \in keep : \A j \in keep : j <= i)

\* The common prefix a key collapses into, or the key itself.
Collapsed(k, prefix, delimiter) ==
    LET at == {i \in Len(prefix) + 1 .. Len(k) : k[i] = Slash}
    IN  IF ~delimiter \/ at = {} THEN k
        ELSE SubSeq(k, 1, CHOOSE i \in at : \A j \in at : i <= j)

IsCollapsed(k, prefix, delimiter) == Collapsed(k, prefix, delimiter) # k

Visible == {UserKey(k) : k \in {r \in raw : ~IsReference(r)}}

-----------------------------------------------------------------------------
(* One page of the S3 backend.                                             *)

Idle == [pc |-> "idle"]

\* list_objects of the engine: a page is asked for, with the last token.
Ask ==
    /\ ask.pc = "idle"
    /\ \E q \in Queries :
        ask' = [pc |-> IF q.backend = "s3" THEN "fetch" ELSE "scan", q |-> q, token |-> <<>>,
                objects |-> {}, prefixes |-> {}, last |-> <<>>, after |-> <<>>, skip |-> None,
                probes |-> {}]
    /\ first' = Visible
    /\ touched' = IF write = None THEN {} ELSE {UserKey(write)}
    /\ out' = <<>>
    /\ UNCHANGED <<raw, write, writes>>

\* ListObjectsV2: what is left after `after`, and after the prefix `skip`.
Remaining(a) ==
    {k \in raw : /\ IsPrefix(a.q.prefix, k)
                 /\ Less(a.after, k)
                 /\ a.skip # None => ~IsPrefix(a.skip, k)}
Entries(a) == {Collapsed(k, a.q.prefix, a.q.delimiter) : k \in Remaining(a)}

\* list_anchor: the entry after the last one of the page, once it is known.
list_anchor(objects, prefixes, token) ==
    LET keys == {UserKey(k) : k \in {r \in objects : ~IsReference(r)}}
        found == {k \in keys \cup prefixes : Less(token, k)}
    IN  IF Cardinality(found) <= MaxKeys THEN None ELSE Sorted(found)[MaxKeys + 1]

\* late_delta_candidates: stored keys above the anchor of objects below it.
late_delta_candidates(anchor) ==
    {k \in {Append(SubSeq(anchor, 1, n), Delta) : n \in 1 .. Len(anchor) - 1} :
        Less(anchor, k)}

confirmable_candidates(anchor, a) ==
    {k \in late_delta_candidates(anchor) :
        /\ IsPrefix(a.q.prefix, k)
        /\ ~IsCollapsed(UserKey(k), a.q.prefix, a.q.delimiter)
        /\ ~Less(k, a.last) \/ IsPrefix(k, a.last)}

\* One upstream page; the loop ends with the bucket or past the anchor.
FetchPage ==
    /\ ask.pc = "fetch"
    /\ \E page \in {Take(Sorted(Entries(ask)), PageSize)} :
        LET got == ToSet(page)
            new == got \cap raw
            objects == ask.objects \cup {k \in new : ~IsCollapsed(k, ask.q.prefix, ask.q.delimiter)}
            prefixes == ask.prefixes \cup {Collapsed(k, ask.q.prefix, ask.q.delimiter) :
                           k \in {r \in Remaining(ask) :
                                    /\ IsCollapsed(r, ask.q.prefix, ask.q.delimiter)
                                    /\ Collapsed(r, ask.q.prefix, ask.q.delimiter) \in got}}
            last == IF objects = ask.objects THEN ask.last ELSE Sorted(objects)[Cardinality(objects)]
            truncated == Cardinality(Entries(ask)) > PageSize
            anchor == list_anchor(objects, prefixes, ask.token)
            past == anchor # None /\ Less(anchor, last)
            tail == page[Len(page)]
            read == [ask EXCEPT !.objects = objects, !.prefixes = prefixes, !.last = last]
        IN  ask' = CASE ~truncated -> [read EXCEPT !.pc = "page"]
                     [] truncated /\ past ->
                          [read EXCEPT !.pc = "probe", !.probes = confirmable_candidates(anchor, read)]
                     [] OTHER ->
                          [read EXCEPT !.after = tail,
                                       !.skip = IF tail \in prefixes THEN tail ELSE None]
    /\ UNCHANGED <<raw, write, out, first, touched, writes>>

\* A probe asks for the first three keys that begin with the candidate; of these,
\* probe_hit_serves_candidate keeps the candidate, and it with more ".delta".
ProbeKeys == 3
Hits(k) == {r \in Range(Take(Sorted({s \in raw : IsPrefix(k, s)}), ProbeKeys)) :
              UserKey(r) = UserKey(k)}

\* The confirmation requests run side by side.
Probe(k) ==
    /\ ask.pc = "probe"
    /\ k \in ask.probes
    /\ ask' = [ask EXCEPT !.probes = @ \ {k}, !.objects = @ \cup Hits(k)]
    /\ UNCHANGED <<raw, write, out, first, touched, writes>>

Probed ==
    /\ ask.pc = "probe" /\ ask.probes = {}
    /\ ask' = [ask EXCEPT !.pc = "page"]
    /\ UNCHANGED <<raw, write, out, first, touched, writes>>

-----------------------------------------------------------------------------
(* One page of the filesystem backend.                                     *)

\* A directory scan begins: what is there now and is not removed before the
\* scan ends will be seen.
Scan ==
    /\ ask.pc = "scan"
    /\ ask' = [ask EXCEPT !.pc = "scanning", !.objects = raw]
    /\ UNCHANGED <<raw, write, out, first, touched, writes>>

\* The part of a prefix up to its last slash: the directory that is read.
DirPart(prefix) ==
    LET at == {i \in DOMAIN prefix : prefix[i] = Slash}
    IN  IF at = {} THEN <<>> ELSE SubSeq(prefix, 1, CHOOSE i \in at : \A j \in at : j <= i)

\* Without a delimiter the walk starts at the directory named by the prefix.
WalkRoot(prefix) ==
    IF prefix = <<>> \/ prefix[Len(prefix)] = Slash THEN prefix ELSE Append(prefix, Slash)

\* The scan ends: of what changed meanwhile, any part may have been seen.  A
\* walk that starts at a file fails.
ScanEnd ==
    /\ ask.pc = "scanning"
    /\ \E seen \in {S \cup (ask.objects \cap raw) :
                      S \in SUBSET ((ask.objects \cup raw) \ (ask.objects \cap raw))} :
        LET root == IF ask.q.delimiter THEN DirPart(ask.q.prefix) ELSE WalkRoot(ask.q.prefix)
            here == {k \in seen : IsPrefix(root, k) /\ ~IsReference(k)}
            named == {k \in here : IsPrefix(ask.q.prefix, UserKey(k))}
            flat == {k \in named : ~IsCollapsed(k, ask.q.prefix, ask.q.delimiter)}
        IN  ask' = IF ~ask.q.delimiter /\ ask.q.prefix \in seen THEN Idle
                   ELSE [ask EXCEPT !.pc = "page", !.objects = flat,
                           !.prefixes = {Collapsed(k, ask.q.prefix, ask.q.delimiter) :
                                           k \in named \ flat}]
    /\ UNCHANGED <<raw, write, out, first, touched, writes>>

-----------------------------------------------------------------------------
(* The page is answered.                                                   *)

\* classify, dedup_keep_latest, and interleave_and_paginate without its cut.
interleave_and_paginate(objects, prefixes, token) ==
    Sorted({k \in objects \cup prefixes : Less(token, k)})

\* The client takes the page; a truncated page has a token for the next one.
AnswerPage ==
    /\ ask.pc = "page"
    /\ \E entries \in {interleave_and_paginate(
                          {UserKey(k) : k \in {r \in ask.objects : ~IsReference(r)}},
                          ask.prefixes, ask.token)} :
        LET page == Take(entries, MaxKeys)
        IN  /\ out' = out \o page
            /\ ask' = IF Len(entries) <= MaxKeys THEN [pc |-> "done", q |-> ask.q]
                      ELSE [ask EXCEPT
                              !.pc = IF ask.q.backend = "s3" THEN "fetch" ELSE "scan",
                              !.token = page[MaxKeys], !.after = page[MaxKeys], !.skip = None,
                              !.objects = {}, !.prefixes = {}, !.last = <<>>]
    /\ UNCHANGED <<raw, write, first, touched, writes>>

-----------------------------------------------------------------------------
(* Writes of the engine: the new form first, then the other one goes.      *)

Form(u, delta) == IF delta THEN Append(u, Delta) ELSE u

Store(u, delta) ==
    /\ write = None /\ writes < MaxWrites
    /\ writes' = writes + 1
    /\ raw' = raw \cup {Form(u, delta)}
    /\ write' = Form(u, ~delta)
    /\ touched' = touched \cup {u}
    /\ UNCHANGED <<ask, out, first>>

Delete(u, delta) ==
    /\ write = None /\ writes < MaxWrites
    /\ Form(u, delta) \in raw
    /\ writes' = writes + 1
    /\ raw' = raw \ {Form(u, delta)}
    /\ write' = Form(u, ~delta)
    /\ touched' = touched \cup {u}
    /\ UNCHANGED <<ask, out, first>>

\* The other form is removed, or the removal fails and both forms stay.
Cleanup(fails) ==
    /\ write # None
    /\ raw' = IF fails THEN raw ELSE raw \ {write}
    /\ write' = None
    /\ UNCHANGED <<ask, out, first, touched, writes>>

-----------------------------------------------------------------------------
Init ==
    /\ raw \in {S \cup Hidden : S \in Starts}
    /\ write = None
    /\ ask = Idle
    /\ out = <<>>
    /\ first = {} /\ touched = {}
    /\ writes = 0

Next ==
    \/ Ask \/ FetchPage \/ Probed \/ Scan \/ ScanEnd \/ AnswerPage
    \/ \E k \in (IF ask.pc = "probe" THEN ask.probes ELSE {}) : Probe(k)
    \/ \E u \in Keys, delta \in BOOLEAN : Store(u, delta) \/ Delete(u, delta)
    \/ \E fails \in BOOLEAN : Cleanup(fails)

Spec == Init /\ [][Next]_vars

TypeOK ==
    /\ raw \subseteq {Form(u, delta) : u \in Keys, delta \in BOOLEAN} \cup Hidden
    /\ touched \subseteq Keys
    /\ writes \in 0 .. MaxWrites
    /\ ask.pc \in {"idle", "fetch", "probe", "scan", "scanning", "page", "done"}

-----------------------------------------------------------------------------
\* The entries of all pages come in strictly ascending order: none comes twice.
Ascending == \A i \in 1 .. Len(out) - 1 : Less(out[i], out[i + 1])

\* What an object of the bucket looks like in the listing.
Entry(u) == Collapsed(u, ask.q.prefix, ask.q.delimiter)

\* A listing that is done has every object under the prefix that nobody touched
\* meanwhile, and nothing else but what was written while it ran.
Complete ==
    ask.pc = "done" =>
        /\ \A u \in first \ touched : IsPrefix(ask.q.prefix, u) => Entry(u) \in ToSet(out)
        /\ \A e \in ToSet(out) :
              \E u \in first \cup touched : IsPrefix(ask.q.prefix, u) /\ Entry(u) = e

\* The token of a page never skips an untouched object.
PagesGapless ==
    ask.pc # "idle" /\ out # <<>> =>
        \A u \in first \ touched :
            /\ IsPrefix(ask.q.prefix, u)
            /\ Less(Entry(u), out[Len(out)])
            => Entry(u) \in ToSet(out)
=============================================================================
