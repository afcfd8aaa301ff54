----------------------------- MODULE ObjectStore -----------------------------
(* What a storage backend promises of one bucket: every operation of the      *)
(* StorageBackend trait takes effect at one instant between its call and its  *)
(* answer, or not at all; an object's bytes and metadata change together; a   *)
(* bucket comes into being by create_bucket only and goes away by             *)
(* delete_bucket only, with no visible object in it.  An internal file (the   *)
(* reference of a deltaspace) may also go while a deletion of the bucket is   *)
(* under way.  put_reference_from_file promises less ("link"): it replaces an *)
(* internal file in several steps, without metadata for a while, and it may   *)
(* bring a deleted bucket back.  A backend behind a network promises less in  *)
(* another way: an operation in Loose may take effect more than once before   *)
(* its answer, and also when that answer is an error.                         *)
CONSTANTS Actors,     \* the tasks that call the backend
          Names,      \* the files of the bucket
          Internal,   \* those of them no client sees: references
          Vals,       \* contents
          Loose,      \* kinds of operation that may take effect without an answer
          None

VARIABLES bucket,     \* whether the bucket exists
          store,      \* the object under each name: its data and metadata, or None
          call        \* what each actor has asked for, and how it stands

vars == <<bucket, store, call>>

Object == [data : Vals, meta : Vals \cup {None}]
Call == [kind : {"put", "link", "del", "meta", "mkb", "rmb", "has", "hasb"},
         name : Names \cup {None}, val : Vals \cup {None},
         st : {"asked", "ok", "failed", "yes", "no"}]

TypeOK == /\ bucket \in BOOLEAN
          /\ store \in [Names -> Object \cup {None}]
          /\ call \in [Actors -> Call \cup {None}]

Ask(a) ==
    /\ call[a] = None
    /\ call'[a] \in Call /\ call'[a].st = "asked"
    /\ call' = [call EXCEPT ![a] = call'[a]]
    /\ UNCHANGED <<bucket, store>>

Asked(a, kind) == call[a] # None /\ call[a].kind = kind /\ call[a].st = "asked"
Answer(a, st) == call' = [call EXCEPT ![a].st = st]

Write(n, v) == bucket /\ store' = [store EXCEPT ![n] = [data |-> v, meta |-> v]]
Remove(n) == store' = [store EXCEPT ![n] = None]
Label(n, v) == store[n] # None /\ store' = [store EXCEPT ![n].meta = v]
Vanish == bucket /\ bucket' = FALSE /\ \A n \in Names : store[n] = None

Put(a) == Asked(a, "put") /\ Write(call[a].name, call[a].val) /\ Answer(a, "ok") /\ UNCHANGED bucket

\* Success means that the object is gone at that instant.
Delete(a) == Asked(a, "del") /\ Remove(call[a].name) /\ Answer(a, "ok") /\ UNCHANGED bucket

SetMeta(a) == Asked(a, "meta") /\ Label(call[a].name, call[a].val) /\ Answer(a, "ok") /\ UNCHANGED bucket

\* An effect whose answer is still to come, or is an error.
Again(a) ==
    /\ call[a] # None /\ call[a].st = "asked" /\ call[a].kind \in Loose
    /\ \/ Asked(a, "put") /\ Write(call[a].name, call[a].val) /\ UNCHANGED bucket
       \/ Asked(a, "del") /\ Remove(call[a].name) /\ UNCHANGED bucket
       \/ Asked(a, "meta") /\ Label(call[a].name, call[a].val) /\ UNCHANGED bucket
       \/ Asked(a, "mkb") /\ bucket' = TRUE /\ UNCHANGED store
       \/ Asked(a, "rmb") /\ Vanish /\ UNCHANGED store
    /\ UNCHANGED call \/ Answer(a, "failed")

\* Existence is answered as of one instant, or not at all.
Look(a) ==
    /\ \/ Asked(a, "has") /\ Answer(a, IF store[call[a].name] # None THEN "yes" ELSE "no")
       \/ Asked(a, "hasb") /\ Answer(a, IF bucket THEN "yes" ELSE "no")
    /\ UNCHANGED <<bucket, store>>

\* The steps of put_reference_from_file.
Revive(a) == Asked(a, "link") /\ bucket' = TRUE /\ UNCHANGED <<store, call>>

Replace(a) ==
    /\ Asked(a, "link") /\ call[a].name \in Internal /\ bucket
    /\ \/ store' = [store EXCEPT ![call[a].name] = None] /\ UNCHANGED call
       \/ \E m \in Vals \cup {None} :
             /\ store' = [store EXCEPT ![call[a].name] = [data |-> call[a].val, meta |-> m]]
             /\ UNCHANGED call
       \/ /\ store[call[a].name] # None
          /\ store' = [store EXCEPT ![call[a].name].meta = call[a].val]
          /\ Answer(a, "ok")
    /\ UNCHANGED bucket

CreateBucket(a) ==
    /\ Asked(a, "mkb") /\ bucket' = TRUE /\ Answer(a, "ok") /\ UNCHANGED store

Drop(a) ==
    /\ Asked(a, "rmb")
    /\ \E n \in Internal : store[n] # None /\ store' = [store EXCEPT ![n] = None]
    /\ UNCHANGED <<bucket, call>>

DeleteBucket(a) == Asked(a, "rmb") /\ Vanish /\ Answer(a, "ok") /\ UNCHANGED store

Fail(a) ==
    /\ call[a] # None /\ call[a].st = "asked"
    /\ Answer(a, "failed") /\ UNCHANGED <<bucket, store>>

Return(a) ==
    /\ call[a] # None /\ call[a].st # "asked"
    /\ call' = [call EXCEPT ![a] = None] /\ UNCHANGED <<bucket, store>>

Crash == /\ call' = [a \in Actors |-> None] /\ UNCHANGED <<bucket, store>>

Init == /\ bucket \in BOOLEAN
        /\ store = [n \in Names |-> None]
        /\ call = [a \in Actors |-> None]

Next == \/ Crash
        \/ \E a \in Actors : \/ Ask(a) \/ Put(a) \/ Delete(a) \/ SetMeta(a) \/ Drop(a)
                             \/ Again(a) \/ Look(a)
                             \/ Revive(a) \/ Replace(a)
                             \/ CreateBucket(a) \/ DeleteBucket(a) \/ Fail(a) \/ Return(a)

Spec == Init /\ [][Next]_vars
=============================================================================
