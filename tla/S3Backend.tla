------------------------------ MODULE S3Backend ------------------------------
(* The S3 backend (src/storage/s3.rs): an operation is one request to the     *)
(* service, or the requests of a multipart upload, each tried again after a   *)
(* timeout or a refusal for load.  The service (external) serves a request at *)
(* one instant; its answer may be lost, so that the backend cannot tell       *)
(* whether the request was served.                                            *)
EXTENDS Naturals, FiniteSets, Sequences

CONSTANTS Actors, Names, Vals, None,
          Parts,       \* parts of a multipart upload: 1..Parts
          Programs,    \* what an actor may be given to do: sequences of [call, name, val]
          Faults,      \* of {"lost", "busy", "denied", "crash"}
          Attempts, MaxOps, MaxFaults

VARIABLES bucket, store,
          uploads,     \* the open multipart uploads: [id, name, meta, parts]
          op,          \* what each task is doing
          ids, ops, faults

vars == <<bucket, store, uploads, op, ids, ops, faults>>

Task(pc, kind, n, v, res, todo) ==
    [pc |-> pc, kind |-> kind, name |-> n, val |-> v, try |-> 1, id |-> 0, part |-> 0,
     source |-> None, res |-> res, todo |-> todo]
Rest(todo) == Task("idle", None, None, None, None, todo)
Idle == Rest(<<>>)

Object(v) == [data |-> v, meta |-> v]
Upload(id) == {u \in uploads : u.id = id}

\* The calls a program may make.
Step == ([call : {"put", "parts", "meta"}, name : Names, val : Vals]
           \cup [call : {"del", "has"}, name : Names, val : {None}])
          \cup [call : {"hasb", "mkb", "rmb"}, name : {None}, val : {None}]

ProgramsFit == Programs \in [Actors -> SUBSET (Seq(Step) \ {<<>>})]

-----------------------------------------------------------------------------
\* What the service answers to the request that o is at.
Status(o) ==
    CASE o.pc = "hasb" -> IF bucket THEN "200" ELSE "404"
      [] o.pc = "has"  -> IF store[o.name] # None THEN "200" ELSE "404"
      [] o.pc = "mkb"  -> IF bucket THEN "409" ELSE "200"
      [] o.pc \notin {"hasb", "has", "mkb"} /\ ~bucket -> "NoSuchBucket"
      [] o.pc = "rmb" /\ bucket -> IF \A n \in Names : store[n] = None THEN "200" ELSE "409"
      [] o.pc = "copy" /\ bucket -> IF store[o.name] # None THEN "200" ELSE "404"
      [] o.pc \in {"part", "complete", "abort"} /\ bucket ->
            IF Upload(o.id) # {} THEN "200" ELSE "404"
      [] OTHER -> "200"

\* The object a complete request makes of the parts: of one upload only.
Assembled(u) ==
    [data |-> IF \E v \in Vals : \A i \in 1..Parts : u.parts[i] = v
              THEN CHOOSE v \in Vals : \A i \in 1..Parts : u.parts[i] = v ELSE None,
     meta |-> u.meta]

\* What serving the request does.
Serve(o) ==
    /\ bucket' = CASE o.pc = "mkb" -> TRUE [] o.pc = "rmb" -> FALSE [] OTHER -> bucket
    /\ store' = CASE o.pc = "put"  -> [store EXCEPT ![o.name] = Object(o.val)]
                  [] o.pc = "del"  -> [store EXCEPT ![o.name] = None]
                  [] o.pc = "paste" -> [store EXCEPT ![o.name] =
                                          [data |-> o.source.data, meta |-> o.val]]
                  [] o.pc = "complete" -> [store EXCEPT ![o.name] =
                                             Assembled(CHOOSE u \in Upload(o.id) : TRUE)]
                  [] OTHER -> store
    /\ uploads' = CASE o.pc = "create" ->
                         uploads \cup {[id |-> ids, name |-> o.name, meta |-> o.val,
                                        parts |-> [i \in 1..Parts |-> None]]}
                    [] o.pc = "part" -> {IF u.id = o.id THEN [u EXCEPT !.parts[o.part] = o.val]
                                                        ELSE u : u \in uploads}
                    [] o.pc \in {"complete", "abort"} -> uploads \ Upload(o.id)
                    [] o.pc = "rmb" -> {}
                    [] OTHER -> uploads
    /\ ids' = IF o.pc = "create" THEN ids + 1 ELSE ids

Unserved == UNCHANGED <<bucket, store, uploads, ids>>

-----------------------------------------------------------------------------
\* S3Op::is_bucket_level, for the requests that are made here.
is_bucket_level(pc) == pc \in {"mkb", "hasb"}

\* Mutant: an answer that says nothing about the object reads as its absence.
ClassifyAllAbsent(pc, status) == IF pc = "has" THEN "NotFound" ELSE "S3"

classify_s3_error(pc, status) ==
    CASE status = "NoSuchBucket" -> "BucketNotFound"
      [] status = "404" -> IF is_bucket_level(pc) THEN "BucketNotFound" ELSE "NotFound"
      [] status = "403" /\ is_bucket_level(pc) -> "BucketNotFound"
      [] status = "503" -> "Throttled"
      [] OTHER -> "S3"

is_retryable(status) == status \in {"503", "timeout"}

Finish(o, res) == Task("done", o.kind, o.name, o.val, res, IF res = "ok" THEN o.todo ELSE <<>>)
At(o, pc) == [o EXCEPT !.pc = pc, !.try = 1]

\* has_reference and head_bucket: only what is classified as absence reads as absence.
Existence(o, status) ==
    IF status = "200" THEN "yes"
    ELSE IF classify_s3_error(o.pc, status) \in {"NotFound", "BucketNotFound"}
            /\ (o.pc = "has" => classify_s3_error(o.pc, status) = "NotFound")
         THEN "no" ELSE "failed"

\* What the backend does with the answer.
Answered(o, status) ==
    CASE is_retryable(status) /\ o.try < Attempts -> [o EXCEPT !.try = @ + 1]
      [] OTHER ->
           CASE o.pc \in {"has", "hasb"} -> Finish(o, Existence(o, status))
             [] o.pc = "copy" /\ status = "200" -> [o EXCEPT !.pc = "paste"]
             [] o.pc = "create" /\ status = "200" ->
                  [At(o, "part") EXCEPT !.id = ids, !.part = 1]
             [] o.pc = "part" /\ status = "200" ->
                  IF o.part = Parts THEN At(o, "complete")
                  ELSE [At(o, "part") EXCEPT !.part = @ + 1]
             [] o.pc \in {"part", "complete"} /\ status # "200" -> At(o, "abort")
             [] o.pc = "abort" -> Finish(o, "failed")
             [] o.pc \notin {"has", "hasb", "copy", "create", "part", "abort"} /\ status = "200"
                  -> Finish(o, "ok")
             [] OTHER -> Finish(o, "failed")

Busy(a) == op[a].pc \notin {"idle", "done"}

\* The request is served and answered.  A self-copy that replaces metadata reads its source
\* and writes it in two steps of the service.
Answer(a) ==
    /\ Busy(a)
    /\ \E s \in {Status(op[a])} :
         /\ IF s = "200" THEN Serve(op[a]) ELSE Unserved
         /\ op' = [op EXCEPT ![a] = [Answered(@, s) EXCEPT
                        !.source = IF op[a].pc = "copy" /\ s = "200" THEN store[op[a].name]
                                   ELSE None]]
    /\ UNCHANGED <<ops, faults>>

Fault(f) == f \in Faults /\ faults < MaxFaults /\ faults' = faults + 1

\* The request, or its answer, is lost.
Lose(a) ==
    /\ Busy(a) /\ Fault("lost")
    /\ \/ Status(op[a]) = "200" /\ op[a].pc # "copy" /\ Serve(op[a])
       \/ Unserved
    /\ op' = [op EXCEPT ![a] = Answered(IF @.pc = "paste" THEN [@ EXCEPT !.pc = "copy"] ELSE @,
                                        "timeout")]
    /\ UNCHANGED ops

\* The service refuses the request for load, or without saying why.
Refuse(a) ==
    /\ Busy(a) /\ op[a].pc # "paste"
    /\ \/ Fault("busy") /\ op' = [op EXCEPT ![a] = Answered(@, "503")]
       \/ Fault("denied") /\ op' = [op EXCEPT ![a] = Answered(@, "403")]
    /\ Unserved /\ UNCHANGED ops

-----------------------------------------------------------------------------
\* The request an operation of the backend opens with, and what kind of operation it is.
Do(pc, kind, n, v) == [pc |-> pc, kind |-> kind, name |-> n, val |-> v]
put_object_with_metadata(n, v) == Do("put", "put", n, v)
create_multipart_upload(n, v) == Do("create", "put", n, v)
delete_s3_object(n) == Do("del", "del", n, None)
replace_metadata_in_place(n, v) == Do("copy", "meta", n, v)
has_reference(n) == Do("has", "has", n, None)
head_bucket == Do("hasb", "hasb", None, None)
create_bucket == Do("mkb", "mkb", None, None)
delete_bucket == Do("rmb", "rmb", None, None)

Opening(o) ==
    CASE o.call = "put"    -> put_object_with_metadata(o.name, o.val)
      [] o.call = "parts"  -> create_multipart_upload(o.name, o.val)
      [] o.call = "del"    -> delete_s3_object(o.name)
      [] o.call = "meta"   -> replace_metadata_in_place(o.name, o.val)
      [] o.call = "has"    -> has_reference(o.name)
      [] o.call = "hasb"   -> head_bucket
      [] o.call = "mkb"    -> create_bucket
      [] o.call = "rmb"    -> delete_bucket

Begin(a, o, todo) ==
    op' = [op EXCEPT ![a] = LET f == Opening(o) IN Task(f.pc, f.kind, f.name, f.val, None, todo)]

Request(a) ==
    /\ op[a].pc = "idle" /\ op[a].todo = <<>> /\ ops < MaxOps
    /\ ops' = ops + 1
    /\ \E p \in Programs[a] : Begin(a, Head(p), Tail(p))
    /\ Unserved /\ UNCHANGED faults
Continue(a) ==
    /\ op[a].pc = "idle" /\ op[a].todo # <<>>
    /\ Begin(a, Head(op[a].todo), Tail(op[a].todo))
    /\ Unserved /\ UNCHANGED <<ops, faults>>
Return(a) ==
    /\ op[a].pc = "done"
    /\ op' = [op EXCEPT ![a] = Rest(op[a].todo)]
    /\ Unserved /\ UNCHANGED <<ops, faults>>
Crash ==
    /\ Fault("crash")
    /\ op' = [a \in Actors |-> Idle]
    /\ Unserved /\ UNCHANGED ops

Init == /\ bucket \in BOOLEAN
        /\ store = [n \in Names |-> None]
        /\ uploads = {}
        /\ op = [a \in Actors |-> Idle]
        /\ ids = 1 /\ ops = 0 /\ faults = 0

Next == \/ \E a \in Actors : \/ Request(a) \/ Continue(a) \/ Return(a)
                             \/ Answer(a) \/ Lose(a) \/ Refuse(a)
        \/ Crash

Spec == Init /\ [][Next]_vars

-----------------------------------------------------------------------------
\* The backend as its callers see it.
Seen(o) == IF o.kind = None THEN None
           ELSE [kind |-> o.kind, name |-> o.name, val |-> o.val,
                 st |-> IF o.pc = "done" THEN o.res ELSE "asked"]
CallOf(a) == Seen(op[a])

Loosely == INSTANCE ObjectStore WITH
              Internal <- {}, Loose <- {"put", "del", "meta", "mkb", "rmb"},
              call <- [a \in Actors |-> CallOf(a)]
Strictly == INSTANCE ObjectStore WITH
              Internal <- {}, Loose <- {}, call <- [a \in Actors |-> CallOf(a)]

Kinds == {"put", "del", "meta", "has", "hasb", "mkb", "rmb"}
PutStages == {"put", "create", "part", "complete", "abort"}
Stages == PutStages \cup {"del", "copy", "paste", "has", "hasb", "mkb", "rmb", "idle", "done"}
Stored == [data : Vals, meta : Vals]
Op == [pc : Stages, kind : Kinds \cup {None}, name : Names \cup {None}, val : Vals \cup {None},
       try : Nat, id : Nat, part : Nat, source : Stored \cup {None},
       res : {"ok", "failed", "yes", "no"} \cup {None}, todo : Seq(Step)]
Pending == [id : Nat, name : Names, meta : Vals, parts : [1..Parts -> Vals \cup {None}]]

TypeOK == /\ bucket \in BOOLEAN
          /\ store \in [Names -> Stored \cup {None}]
          /\ \A n \in Names : store[n] # None => bucket
          /\ uploads \in SUBSET Pending
          /\ \A u \in uploads : u.id < ids
          /\ op \in [Actors -> Op]
          /\ ids \in Nat

\* The calls a task may make, the names it changes and those it relabels.
StepsOf(a) == {s \in Step : \E p \in Programs[a] : \E i \in DOMAIN p : s = p[i]}
Changes(a) == {n \in Names : \E s \in StepsOf(a) :
                  s.name = n /\ s.call \in {"put", "parts", "del", "meta"}}
Relabels(a) == {n \in Names : \E s \in StepsOf(a) : s.name = n /\ s.call = "meta"}

\* replace_metadata_in_place reads and writes in two steps of the service: what is relabelled
\* is changed by nobody else (the write gate of the job that relabels).
SoleRelabeller == \A a, b \in Actors : a # b => Relabels(a) \cap Changes(b) = {}

\* head_bucket takes a refusal for absence.
NoDenial == "denied" \in Faults => \A a \in Actors : \A s \in StepsOf(a) : s.call # "hasb"

\* Where the backend implements ObjectStore.
Setting ==
    /\ ProgramsFit
    /\ SoleRelabeller
    /\ NoDenial
    /\ Parts \in Nat \ {0}
    /\ None \notin Vals /\ None \notin Names /\ None \notin Stored /\ None \notin Kinds
    /\ None \notin {"ok", "failed", "yes", "no"} /\ None \notin Loosely!Call

\* An object changes only by an operation that is under way, its bytes and metadata
\* together, whole uploads only; a bucket goes only when it is empty; success means that the
\* effect has happened, and an answer about existence is of an instant of the call.
AtLeastOnce == Loosely!Spec

\* As the trait is read: an operation takes effect once, or fails without a trace.
ExactlyOnce == Strictly!Spec
=============================================================================
