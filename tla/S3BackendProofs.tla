--------------------------- MODULE S3BackendProofs ---------------------------
(* The S3 backend implements ObjectStore, with operations that may take       *)
(* effect more than once: AtLeastOnce, for any tasks, programs, names,        *)
(* contents, number of parts, attempts and faults.                            *)
EXTENDS S3Backend, TLAPS

-----------------------------------------------------------------------------
Uploading == {"part", "complete", "abort"}

\* What a task is doing is a call of its program, at a stage of that call.
Fits(a, o) ==
    /\ o.todo \in Seq(StepsOf(a))
    /\ o.pc = "idle" <=> o.kind = None
    /\ o.pc = "done" => o.res # None
    /\ o.kind = "put"  => o.pc \in PutStages \cup {"done"} /\ o.val \in Vals
                          /\ o.name \in Changes(a)
    /\ o.kind = "del"  => o.pc \in {"del", "done"} /\ o.name \in Changes(a)
    /\ o.kind = "meta" => o.pc \in {"copy", "paste", "done"} /\ o.val \in Vals
                          /\ o.name \in Relabels(a) \cap Changes(a)
    /\ o.kind = "has"  => o.pc \in {"has", "done"} /\ o.name \in Names
    /\ o.kind = "hasb" => o.pc \in {"hasb", "done"} /\ "denied" \notin Faults
    /\ o.kind = "mkb"  => o.pc \in {"mkb", "done"}
    /\ o.kind = "rmb"  => o.pc \in {"rmb", "done"}

Known == \A a \in Actors : Fits(a, op[a])

\* An upload has one owner, and holds only what its owner has sent.
Holds(o, u) ==
    /\ u.meta = o.val
    /\ o.pc = "part" => \A i \in 1..Parts : i < o.part => u.parts[i] = o.val
    /\ o.pc = "complete" => \A i \in 1..Parts : u.parts[i] = o.val

Owned == \A a \in Actors : op[a].pc \in Uploading =>
    /\ op[a].id < ids
    /\ op[a].part \in 1..Parts
    /\ \A b \in Actors : b # a /\ op[b].pc \in Uploading => op[b].id # op[a].id
    /\ \A u \in uploads : u.id = op[a].id => Holds(op[a], u)

\* Between the two halves of a relabelling the object stays as it was read.
Unmoved == \A a \in Actors : op[a].pc = "paste" =>
    op[a].source # None /\ store[op[a].name] = op[a].source

IInv == TypeOK /\ Known /\ Owned /\ Unmoved

\* What is left of a program is made of the task's calls.
LEMMA StepsSeq ==
  ASSUME Setting, NEW a \in Actors, NEW p \in Programs[a]
  PROVE  Head(p) \in StepsOf(a) /\ Tail(p) \in Seq(StepsOf(a)) /\ p \in Seq(Step)
<1>1. p \in Seq(Step) /\ p # <<>>
  BY DEF Setting, ProgramsFit
<1>2. \A i \in 1..Len(p) : p[i] \in StepsOf(a)
  BY <1>1 DEF StepsOf
<1>3. p \in Seq(StepsOf(a))
  BY <1>1, <1>2
<1>4. QED
  BY <1>1, <1>3

\* The invariant holds at the start.
LEMMA InitInv == ASSUME Setting PROVE Init => IInv
<1> SUFFICES ASSUME Init PROVE IInv
  OBVIOUS
<1>1. TypeOK
  BY DEF Setting, Init, TypeOK, Op, Idle, Rest, Task, Stages, Kinds
<1>2. Known
  <2> SUFFICES ASSUME NEW a \in Actors PROVE Fits(a, op[a])
    BY DEF Known
  <2>1. op[a].pc = "idle" /\ op[a].kind = None /\ op[a].todo = <<>>
    BY DEF Init, Idle, Rest, Task
  <2>2. op[a].todo \in Seq(StepsOf(a))
    BY <2>1
  <2>3. QED
    BY <2>1, <2>2 DEF Setting, Kinds, Fits
<1>3. Owned /\ Unmoved
  BY DEF Init, Owned, Unmoved, Idle, Rest, Task, Uploading
<1>4. QED
  BY <1>1, <1>2, <1>3 DEF IInv

-----------------------------------------------------------------------------
\* What becomes of an operation when its request is answered.
Again(o) == [o EXCEPT !.try = @ + 1]
Sent == {"put", "del", "paste", "mkb", "rmb", "complete"}

\* The record of an operation that is done.
LEMMA FinishType ==
  ASSUME NEW o \in Op, NEW r \in {"ok", "failed", "yes", "no"}
  PROVE  /\ Finish(o, r) \in Op
         /\ Finish(o, r).pc = "done" /\ Finish(o, r).res = r
         /\ Finish(o, r).kind = o.kind /\ Finish(o, r).name = o.name /\ Finish(o, r).val = o.val
         /\ Finish(o, r).todo = (IF r = "ok" THEN o.todo ELSE <<>>)
<1>1. (IF r = "ok" THEN o.todo ELSE <<>>) \in Seq(Step)
  BY DEF Op
<1>2. QED
  BY <1>1 DEF Finish, Task, Op, Stages

\* The record of an operation that goes on to another request.
LEMMA AtType ==
  ASSUME NEW o \in Op, NEW pc \in Stages
  PROVE  /\ At(o, pc) \in Op
         /\ At(o, pc).pc = pc /\ At(o, pc).kind = o.kind /\ At(o, pc).name = o.name
         /\ At(o, pc).val = o.val /\ At(o, pc).todo = o.todo /\ At(o, pc).id = o.id
         /\ At(o, pc).part = o.part /\ At(o, pc).source = o.source
BY DEF At, Op

\* The ways an answer is taken.
Outcome(o, s, r) ==
    \/ is_retryable(s) /\ r = Again(o)
    \/ o.pc \in {"has", "hasb"} /\ r = Finish(o, Existence(o, s))
    \/ o.pc = "copy" /\ s = "200" /\ r = [o EXCEPT !.pc = "paste"]
    \/ o.pc = "create" /\ s = "200" /\ r = [At(o, "part") EXCEPT !.id = ids, !.part = 1]
    \/ o.pc = "part" /\ s = "200" /\ o.part = Parts /\ r = At(o, "complete")
    \/ o.pc = "part" /\ s = "200" /\ o.part # Parts /\ r = [At(o, "part") EXCEPT !.part = @ + 1]
    \/ o.pc \in {"part", "complete"} /\ s # "200" /\ r = At(o, "abort")
    \/ o.pc = "abort" /\ r = Finish(o, "failed")
    \/ o.pc \in Sent /\ s = "200" /\ r = Finish(o, "ok")
    \/ o.pc \in (Sent \ {"complete"}) \cup {"create", "copy"} /\ s # "200" /\ r = Finish(o, "failed")

\* Answered is one of those ways.
LEMMA AnsweredIs ==
  ASSUME NEW o \in Op, o.pc \notin {"idle", "done"}, NEW s
  PROVE  Outcome(o, s, Answered(o, s))
<1>1. CASE is_retryable(s) /\ o.try < Attempts
  BY <1>1 DEF Answered, Outcome, Again
<1>2. CASE ~(is_retryable(s) /\ o.try < Attempts)
  BY <1>2 DEF Answered, Outcome, Sent, Op, Stages, PutStages
<1>3. QED
  BY <1>1, <1>2

\* The operation goes on unseen, or it is done.
LEMMA OutcomeFits ==
  ASSUME Setting, NEW a \in Actors, NEW o \in Op, Fits(a, o), o.pc \notin {"idle", "done"},
         NEW s, NEW r, Outcome(o, s, r), ids \in Nat
  PROVE  /\ r \in Op
         /\ r.kind = o.kind /\ r.name = o.name /\ r.val = o.val
         /\ r.todo \in {o.todo, <<>>}
         /\ r.pc # "idle" /\ (r.pc = "done" => r.res # None)
<1>1. CASE is_retryable(s) /\ r = Again(o)
  BY <1>1 DEF Again, Op
<1>2. CASE o.pc \in {"has", "hasb"} /\ r = Finish(o, Existence(o, s))
  <2>1. Existence(o, s) \in {"yes", "no", "failed"}
    BY DEF Existence
  <2>2. QED
    BY <1>2, <2>1, FinishType DEF Setting
<1>3. CASE o.pc = "copy" /\ s = "200" /\ r = [o EXCEPT !.pc = "paste"]
  BY <1>3 DEF Op, Stages
<1>4. CASE o.pc = "create" /\ s = "200" /\ r = [At(o, "part") EXCEPT !.id = ids, !.part = 1]
  <2>1. PICK q \in Op : q = At(o, "part")
    BY AtType DEF Stages, PutStages
  <2>2. q.pc = "part" /\ q.kind = o.kind /\ q.name = o.name /\ q.val = o.val /\ q.todo = o.todo
    BY <2>1, AtType DEF Stages, PutStages
  <2>3. QED
    BY <1>4, <2>1, <2>2 DEF Op
<1>5. CASE o.pc = "part" /\ s = "200" /\ o.part = Parts /\ r = At(o, "complete")
  BY <1>5, AtType DEF Stages, PutStages
<1>6. CASE o.pc = "part" /\ s = "200" /\ o.part # Parts
           /\ r = [At(o, "part") EXCEPT !.part = @ + 1]
  <2>1. PICK q \in Op : q = At(o, "part")
    BY AtType DEF Stages, PutStages
  <2>2. q.pc = "part" /\ q.kind = o.kind /\ q.name = o.name /\ q.val = o.val /\ q.todo = o.todo
    BY <2>1, AtType DEF Stages, PutStages
  <2>3. QED
    BY <1>6, <2>1, <2>2 DEF Op
<1>7. CASE o.pc \in {"part", "complete"} /\ s # "200" /\ r = At(o, "abort")
  BY <1>7, AtType DEF Stages, PutStages
<1>8. CASE r = Finish(o, "failed") \/ r = Finish(o, "ok")
  BY <1>8, FinishType DEF Setting
<1>9. QED
  BY <1>1, <1>2, <1>3, <1>4, <1>5, <1>6, <1>7, <1>8 DEF Outcome
-----------------------------------------------------------------------------
\* An answer leaves the task at a stage of the same call.
LEMMA OutcomeKnown ==
  ASSUME Setting, NEW a \in Actors, NEW o \in Op, Fits(a, o), o.pc \notin {"idle", "done"},
         NEW s, NEW r, Outcome(o, s, r), ids \in Nat
  PROVE  Fits(a, r)
<1>1. r \in Op /\ r.kind = o.kind /\ r.name = o.name /\ r.val = o.val
      /\ r.todo \in {o.todo, <<>>} /\ r.pc # "idle" /\ (r.pc = "done" => r.res # None)
  BY OutcomeFits
<1>2. \/ r.pc \in {o.pc, "done"}
      \/ o.pc = "copy" /\ r.pc = "paste"
      \/ o.pc \in PutStages /\ r.pc \in PutStages
  <2>1. Finish(o, "ok").pc = "done" /\ Finish(o, "failed").pc = "done"
    BY FinishType
  <2>2. Finish(o, Existence(o, s)).pc = "done"
    BY FinishType DEF Existence
  <2>3. /\ At(o, "complete").pc = "complete" /\ At(o, "abort").pc = "abort"
        /\ At(o, "part") \in Op /\ At(o, "part").pc = "part"
    BY AtType DEF Stages, PutStages
  <2>4. [At(o, "part") EXCEPT !.id = ids, !.part = 1].pc = "part"
        /\ [At(o, "part") EXCEPT !.part = @ + 1].pc = "part"
    BY <2>3 DEF Op
  <2>5. Again(o).pc = o.pc /\ [o EXCEPT !.pc = "paste"].pc = "paste"
    BY DEF Again, Op
  <2>6. QED
    BY <2>1, <2>2, <2>3, <2>4, <2>5 DEF Outcome, PutStages
<1>3. r.todo \in Seq(StepsOf(a))
  <2>1. <<>> \in Seq(StepsOf(a))
    OBVIOUS
  <2>2. QED
    BY <1>1, <2>1 DEF Fits
<1>4. o.kind # None
  BY DEF Fits
<1>5. QED
  BY <1>1, <1>2, <1>3, <1>4 DEF Fits, PutStages, Setting

\* What serving a request does to the objects.
Effect(a) ==
    \/ /\ op[a].pc \in {"put", "complete"} /\ bucket
       /\ store' = [store EXCEPT ![op[a].name] = Object(op[a].val)] /\ bucket' = bucket
    \/ /\ op[a].pc = "del"
       /\ store' = [store EXCEPT ![op[a].name] = None] /\ bucket' = bucket
    \/ /\ op[a].pc = "paste" /\ store[op[a].name] # None
       /\ store' = [store EXCEPT ![op[a].name] =
                       [data |-> store[op[a].name].data, meta |-> op[a].val]]
       /\ bucket' = bucket
    \/ op[a].pc = "mkb" /\ bucket' = TRUE /\ store' = store
    \/ /\ op[a].pc = "rmb" /\ bucket /\ bucket' = FALSE
       /\ (\A n \in Names : store[n] = None) /\ store' = store
    \/ /\ op[a].pc \in {"create", "part", "abort", "copy", "has", "hasb"}
       /\ bucket' = bucket /\ store' = store

\* A completed upload is what its owner sent.
LEMMA WholeUpload ==
  ASSUME Setting, TypeOK, Owned, NEW a \in Actors, op[a].pc = "complete", op[a].val \in Vals,
         Upload(op[a].id) # {}
  PROVE  Assembled(CHOOSE u \in Upload(op[a].id) : TRUE) = Object(op[a].val)
<1>1. PICK u : u = (CHOOSE v \in Upload(op[a].id) : TRUE)
  OBVIOUS
<1>2. u \in uploads /\ u.id = op[a].id
  BY <1>1 DEF Upload
<1>3. u.meta = op[a].val /\ \A i \in 1..Parts : u.parts[i] = op[a].val
  BY <1>2 DEF Owned, Uploading, Holds
<1>4. 1 \in 1..Parts
  BY DEF Setting
<1>5. (CHOOSE v \in Vals : \A i \in 1..Parts : u.parts[i] = v) = op[a].val
  BY <1>3, <1>4
<1>6. QED
  BY <1>1, <1>3, <1>5 DEF Assembled, Object

\* A request that is served changes the objects only in those ways.
LEMMA ServeEffect ==
  ASSUME Setting, IInv, NEW a \in Actors, Busy(a), Status(op[a]) = "200", Serve(op[a])
  PROVE  Effect(a)
<1> USE DEF IInv
<1>1. Fits(a, op[a]) /\ op[a] \in Op
  BY DEF Known, TypeOK
<1>2. op[a].pc \in {"put", "create", "part", "complete", "abort", "del", "copy", "paste", "has",
                    "hasb", "mkb", "rmb"}
  BY <1>1 DEF Op, Stages, PutStages, Busy
<1>3. CASE op[a].pc = "complete"
  <2>1. bucket /\ Upload(op[a].id) # {}
    BY <1>3 DEF Status
  <2>2. op[a].val \in Vals
    BY <1>1, <1>3 DEF Fits, Kinds, Op
  <2>3. Assembled(CHOOSE u \in Upload(op[a].id) : TRUE) = Object(op[a].val)
    BY <1>3, <2>1, <2>2, WholeUpload
  <2>4. store' = [store EXCEPT ![op[a].name] = Assembled(CHOOSE u \in Upload(op[a].id) : TRUE)]
        /\ bucket' = bucket
    BY <1>3 DEF Serve
  <2>5. QED
    BY <1>3, <2>1, <2>3, <2>4 DEF Effect
<1>4. CASE op[a].pc = "paste"
  <2>1. op[a].source # None /\ store[op[a].name] = op[a].source
    BY <1>4 DEF Unmoved
  <2>2. store' = [store EXCEPT ![op[a].name] = [data |-> op[a].source.data, meta |-> op[a].val]]
        /\ bucket' = bucket
    BY <1>4 DEF Serve
  <2>3. QED
    BY <1>4, <2>1, <2>2 DEF Effect
<1>5. CASE op[a].pc = "rmb"
  BY <1>5 DEF Effect, Serve, Status
<1>6. CASE op[a].pc \in {"put", "del", "mkb"}
  BY <1>6 DEF Effect, Serve, Status
<1>7. CASE op[a].pc \in {"create", "part", "abort", "copy", "has", "hasb"}
  BY <1>7 DEF Effect, Serve, Status
<1>8. QED
  BY <1>2, <1>3, <1>4, <1>5, <1>6, <1>7
\* They keep the store well typed, and change names of the task's own calls only.
LEMMA EffectType ==
  ASSUME Setting, TypeOK, Known, NEW a \in Actors, Busy(a), Effect(a)
  PROVE  /\ bucket' \in BOOLEAN
         /\ store' \in [Names -> Stored \cup {None}]
         /\ \A n \in Names : store'[n] # None => bucket'
         /\ \A n \in Names : store'[n] # store[n] =>
               n = op[a].name /\ op[a].name \in Changes(a)
<1>1. Fits(a, op[a]) /\ op[a] \in Op
  BY DEF Known, TypeOK
<1>2. CASE op[a].pc \in {"put", "complete"} /\ Effect(a)!1
  <2>1. op[a].val \in Vals /\ op[a].name \in Changes(a) /\ op[a].name \in Names
    BY <1>1, <1>2 DEF Fits, Op, Kinds, Changes
  <2>2. QED
    BY <1>2, <2>1 DEF TypeOK, Object, Stored
<1>3. CASE op[a].pc = "del" /\ Effect(a)!2
  <2>1. op[a].name \in Changes(a) /\ op[a].name \in Names
    BY <1>1, <1>3 DEF Fits, Op, Kinds, Changes
  <2>2. QED
    BY <1>3, <2>1 DEF TypeOK
<1>4. CASE op[a].pc = "paste" /\ Effect(a)!3
  <2>1. op[a].val \in Vals /\ op[a].name \in Changes(a) /\ op[a].name \in Names
    BY <1>1, <1>4 DEF Fits, Op, Kinds, Changes
  <2>2. store[op[a].name] \in Stored
    BY <1>4, <2>1 DEF TypeOK
  <2>3. [data |-> store[op[a].name].data, meta |-> op[a].val] \in Stored
    BY <2>1, <2>2 DEF Stored
  <2>4. QED
    BY <1>4, <2>1, <2>3 DEF TypeOK
<1>5. CASE Effect(a)!4 \/ Effect(a)!5 \/ Effect(a)!6
  BY <1>5 DEF TypeOK
<1>6. QED
  BY <1>2, <1>3, <1>4, <1>5 DEF Effect

\* The open uploads stay well typed and their ids unused.
LEMMA UploadsType ==
  ASSUME Setting, TypeOK, Known, NEW a \in Actors, Busy(a), Serve(op[a])
  PROVE  ids' \in Nat /\ uploads' \in SUBSET Pending /\ \A u \in uploads' : u.id < ids'
<1>1. Fits(a, op[a]) /\ op[a] \in Op
  BY DEF Known, TypeOK
<1>2. CASE op[a].pc = "create"
  <2>1. op[a].val \in Vals /\ op[a].name \in Names
    BY <1>1, <1>2 DEF Fits, Op, Kinds, Changes
  <2>2. [id |-> ids, name |-> op[a].name, meta |-> op[a].val,
         parts |-> [i \in 1..Parts |-> None]] \in Pending
    BY <2>1 DEF Pending, TypeOK
  <2>3. QED
    BY <1>2, <2>2 DEF Serve, TypeOK, Pending
<1>3. CASE op[a].pc = "part"
  <2>1. op[a].val \in Vals
    BY <1>1, <1>3 DEF Fits, Op, Kinds
  <2>2. \A u \in Pending : [u EXCEPT !.parts[op[a].part] = op[a].val] \in Pending
                           /\ [u EXCEPT !.parts[op[a].part] = op[a].val].id = u.id
    BY <2>1 DEF Pending
  <2>3. uploads' = {IF u.id = op[a].id THEN [u EXCEPT !.parts[op[a].part] = op[a].val]
                                       ELSE u : u \in uploads} /\ ids' = ids
    BY <1>3 DEF Serve
  <2>4. QED
    BY <2>2, <2>3 DEF TypeOK
<1>4. CASE op[a].pc \notin {"create", "part"}
  BY <1>4 DEF Serve, TypeOK
<1>5. QED
  BY <1>2, <1>3, <1>4
-----------------------------------------------------------------------------
\* A request touches no upload of another task.
LEMMA OthersUploads ==
  ASSUME Setting, IInv, NEW a \in Actors, Busy(a), Serve(op[a]),
         NEW b \in Actors, b # a, op[b].pc \in Uploading,
         NEW u \in uploads', u.id = op[b].id
  PROVE  u \in uploads
<1> USE DEF IInv
<1>1. op[b].id < ids /\ op[b].id \in Nat /\ ids \in Nat
  BY DEF Owned, TypeOK, Op
<1>2. CASE op[a].pc = "create"
  BY <1>1, <1>2 DEF Serve
<1>3. CASE op[a].pc = "part"
  <2>1. op[a].id # op[b].id
    BY <1>3 DEF Owned, Uploading
  <2>2. PICK v \in uploads : u = IF v.id = op[a].id
                                 THEN [v EXCEPT !.parts[op[a].part] = op[a].val] ELSE v
    BY <1>3 DEF Serve
  <2>3. v \in Pending
    BY DEF TypeOK
  <2>4. [v EXCEPT !.parts[op[a].part] = op[a].val].id = v.id
    BY <2>3 DEF Pending
  <2>5. QED
    BY <2>1, <2>2, <2>4
<1>4. CASE op[a].pc \notin {"create", "part"}
  BY <1>4 DEF Serve
<1>5. QED
  BY <1>2, <1>3, <1>4

\* What a request leaves of the task's own upload.
LEMMA OwnUpload ==
  ASSUME Setting, IInv, NEW a \in Actors, Busy(a), Serve(op[a]), NEW u \in uploads'
  PROVE  /\ op[a].pc = "create" /\ u.id = ids => u.meta = op[a].val
         /\ op[a].pc = "part" /\ u.id = op[a].id =>
               u.meta = op[a].val /\ \A i \in 1..Parts : i <= op[a].part => u.parts[i] = op[a].val
         /\ op[a].pc \in {"complete", "abort"} => u.id # op[a].id
<1> USE DEF IInv
<1>1. CASE op[a].pc = "create"
  BY <1>1 DEF Serve, TypeOK, Pending
<1>2. CASE op[a].pc = "part"
  <2>1. PICK v \in uploads : u = IF v.id = op[a].id
                                 THEN [v EXCEPT !.parts[op[a].part] = op[a].val] ELSE v
    BY <1>2 DEF Serve
  <2>2. v \in Pending /\ op[a].part \in 1..Parts
    BY <1>2 DEF TypeOK, Owned, Uploading
  <2>3. CASE v.id = op[a].id
    <3>1. v.meta = op[a].val /\ \A i \in 1..Parts : i < op[a].part => v.parts[i] = op[a].val
      BY <1>2, <2>3 DEF Owned, Uploading, Holds
    <3>2. u = [v EXCEPT !.parts = [v.parts EXCEPT ![op[a].part] = op[a].val]]
      BY <2>1, <2>3
    <3>3. u.meta = v.meta /\ u.parts = [v.parts EXCEPT ![op[a].part] = op[a].val]
      BY <2>2, <3>2 DEF Pending
    <3>4. v.parts \in [1..Parts -> Vals \cup {None}]
      BY <2>2 DEF Pending
    <3>5. \A i \in 1..Parts : i <= op[a].part => u.parts[i] = op[a].val
      BY <2>2, <3>1, <3>3, <3>4 DEF Setting
    <3>6. QED
      BY <1>2, <3>1, <3>3, <3>5
  <2>4. CASE v.id # op[a].id
    BY <1>2, <2>1, <2>4
  <2>5. QED
    BY <2>3, <2>4
<1>3. CASE op[a].pc \in {"complete", "abort"}
  BY <1>3 DEF Serve, Upload
<1>4. QED
  BY <1>1, <1>2, <1>3

\* Ownership survives a step of a that leaves a with r.
LEMMA OwnedStep ==
  ASSUME Setting, IInv, NEW a \in Actors, Busy(a), Serve(op[a]) \/ Unserved,
         NEW r \in Op, op' = [op EXCEPT ![a] = r],
         r.pc \in Uploading =>
            /\ r.id < ids' /\ r.part \in 1..Parts
            /\ \/ op[a].pc \in Uploading /\ r.id = op[a].id
               \/ r.id = ids
            /\ \A u \in uploads' : u.id = r.id => Holds(r, u)
  PROVE  Owned'
<1> USE DEF IInv
<1>1. ids \in Nat /\ ids' \in Nat /\ ids <= ids'
  <2>1. ids' = ids + 1 \/ ids' = ids
    BY DEF Serve, Unserved
  <2>2. QED
    BY <2>1 DEF TypeOK
<1>2. \A b \in Actors : b # a => op'[b] = op[b]
  BY DEF TypeOK
<1>3. op'[a] = r
  BY DEF TypeOK
<1>4. \A b \in Actors : op[b] \in Op
  BY DEF TypeOK
<1>5. \A b \in Actors : b # a /\ op[b].pc \in Uploading => op[b].id < ids /\ op[b].part \in 1..Parts
  BY DEF Owned
<1>6. ASSUME r.pc \in Uploading, NEW b \in Actors, b # a, op[b].pc \in Uploading
      PROVE  op[b].id # r.id
  <2>1. op[b].id < ids /\ op[b].id \in Nat
    BY <1>4, <1>5, <1>6 DEF Op
  <2>2. op[a].pc \in Uploading => op[b].id # op[a].id
    BY <1>6 DEF Owned
  <2>3. QED
    BY <1>1, <1>6, <2>1, <2>2
<1>7. ASSUME NEW b \in Actors, b # a, op[b].pc \in Uploading, NEW u \in uploads', u.id = op[b].id
      PROVE  Holds(op[b], u)
  <2>1. u \in uploads
    BY <1>7, OthersUploads DEF Unserved
  <2>2. QED
    BY <1>7, <2>1 DEF Owned
<1>8. \A b \in Actors : op[b].id \in Nat
  BY <1>4 DEF Op
<1>9. ASSUME NEW c \in Actors, op'[c].pc \in Uploading
      PROVE  /\ op'[c].id < ids'
             /\ op'[c].part \in 1..Parts
             /\ \A b \in Actors : b # c /\ op'[b].pc \in Uploading => op'[b].id # op'[c].id
             /\ \A u \in uploads' : u.id = op'[c].id => Holds(op'[c], u)
  <2>1. CASE c = a
    BY <1>2, <1>3, <1>6, <1>9, <2>1
  <2>2. CASE c # a
    <3>1. op'[c] = op[c] /\ op[c].pc \in Uploading
      BY <1>2, <1>9, <2>2
    <3>2. op'[c].id < ids' /\ op'[c].part \in 1..Parts
      BY <1>1, <1>5, <1>8, <2>2, <3>1
    <3>3. ASSUME NEW b \in Actors, b # c, op'[b].pc \in Uploading PROVE op'[b].id # op'[c].id
      <4>1. CASE b = a
        BY <1>3, <1>6, <2>2, <3>1, <3>3, <4>1
      <4>2. CASE b # a
        BY <1>2, <2>2, <3>1, <3>3, <4>2 DEF Owned
      <4>3. QED
        BY <4>1, <4>2
    <3>4. \A u \in uploads' : u.id = op'[c].id => Holds(op'[c], u)
      BY <1>7, <2>2, <3>1
    <3>5. QED
      BY <3>2, <3>3, <3>4
  <2>3. QED
    BY <2>1, <2>2
<1>10. QED
  BY <1>9 DEF Owned, Holds
\* What is being relabelled is changed by nobody else.
LEMMA UnmovedStep ==
  ASSUME Setting, IInv, NEW a \in Actors, Busy(a), Effect(a) \/ UNCHANGED <<bucket, store>>,
         NEW r \in Op, op' = [op EXCEPT ![a] = r],
         r.pc = "paste" => r.source # None /\ store'[r.name] = r.source
  PROVE  Unmoved'
<1> USE DEF IInv
<1>1. ASSUME NEW c \in Actors, op'[c].pc = "paste"
      PROVE  op'[c].source # None /\ store'[op'[c].name] = op'[c].source
  <2>1. CASE c = a
    BY <1>1, <2>1 DEF TypeOK
  <2>2. CASE c # a
    <3>1. op'[c] = op[c] /\ op[c].pc = "paste"
      BY <1>1, <2>2 DEF TypeOK
    <3>2. op[c].source # None /\ store[op[c].name] = op[c].source
      BY <3>1 DEF Unmoved
    <3>3. op[c].kind = "meta"
      BY <3>1 DEF Known, Fits, Kinds, TypeOK, Op, PutStages
    <3>4. op[c].name \in Relabels(c) /\ op[c].name \in Names
      BY <3>3 DEF Known, Fits, Relabels
    <3>5. op[c].name \notin Changes(a)
      BY <3>4, <2>2 DEF Setting, SoleRelabeller
    <3>6. store'[op[c].name] = store[op[c].name]
      BY <3>4, <3>5, EffectType
    <3>7. QED
      BY <3>1, <3>2, <3>6
  <2>3. QED
    BY <2>1, <2>2
<1>2. QED
  BY <1>1 DEF Unmoved

\* The objects, uploads and numbers stay well typed.
ServiceOK == /\ bucket \in BOOLEAN
             /\ store \in [Names -> Stored \cup {None}]
             /\ \A n \in Names : store[n] # None => bucket
             /\ uploads \in SUBSET Pending
             /\ \A u \in uploads : u.id < ids
             /\ ids \in Nat

\* A step of one task that leaves it at a stage of one of its calls.
LEMMA KnownStep ==
  ASSUME TypeOK, Known, ServiceOK', NEW a \in Actors, NEW r \in Op, Fits(a, r),
         op' = [op EXCEPT ![a] = r]
  PROVE  TypeOK' /\ Known'
<1>1. op' \in [Actors -> Op]
  BY DEF TypeOK
<1>2. TypeOK'
  BY <1>1 DEF TypeOK, ServiceOK
<1>3. \A c \in Actors : Fits(c, op'[c])
  BY DEF TypeOK, Known
<1>4. QED
  BY <1>2, <1>3 DEF Known, Fits

\* A request that is served.
LEMMA Served ==
  ASSUME Setting, IInv, NEW a \in Actors, Busy(a), Status(op[a]) = "200", Serve(op[a])
  PROVE  Effect(a) /\ ServiceOK'
<1>1. Effect(a)
  BY ServeEffect
<1>2. QED
  BY <1>1, EffectType, UploadsType DEF IInv, ServiceOK

\* A request that is not.
LEMMA NotServed == ASSUME TypeOK, Unserved PROVE ServiceOK'
  BY DEF TypeOK, Unserved, ServiceOK

\* A task begins, ends or is given its next call.
LEMMA QuietStep ==
  ASSUME Setting, IInv, NEW a \in Actors, op[a].pc \in {"idle", "done"}, Unserved,
         NEW r \in Op, Fits(a, r), op' = [op EXCEPT ![a] = r], r.pc \notin Uploading \cup {"paste"}
  PROVE  IInv'
<1> USE DEF IInv
<1>1. TypeOK' /\ Known'
  BY KnownStep, NotServed
<1>2. \A c \in Actors : op'[c] = op[c] \/ op'[c].pc \notin Uploading \cup {"paste"}
  BY DEF TypeOK
<1>3. Owned'
  BY <1>2 DEF Owned, Unserved, Holds
<1>4. Unmoved'
  BY <1>2 DEF Unmoved, Unserved
<1>5. QED
  BY <1>1, <1>3, <1>4
\* What a call opens with.
LEMMA Opens ==
  ASSUME Setting, NEW a \in Actors, NEW s \in StepsOf(a), NEW todo \in Seq(StepsOf(a)),
         NEW r, r = (LET f == Opening(s) IN Task(f.pc, f.kind, f.name, f.val, None, todo))
  PROVE  /\ r \in Op /\ Fits(a, r)
         /\ r.pc \notin Uploading \cup {"paste", "done", "idle"} /\ r.kind \in Kinds
<1> DEFINE f == Opening(s)
<1>1. s \in Step /\ s.call \in {"put", "parts", "meta", "del", "has", "hasb", "mkb", "rmb"}
  BY DEF StepsOf, Step
<1>2. todo \in Seq(Step)
  BY DEF StepsOf
<1>3. /\ s.call \in {"put", "parts", "meta"} => s.name \in Names /\ s.val \in Vals
      /\ s.call \in {"del", "has"} => s.name \in Names /\ s.val = None
      /\ s.call \in {"hasb", "mkb", "rmb"} => s.name = None /\ s.val = None
  BY <1>1 DEF Step
<1>4. /\ s.call \in {"put", "parts", "meta", "del"} => s.name \in Changes(a)
      /\ s.call = "meta" => s.name \in Relabels(a)
      /\ s.call = "hasb" => "denied" \notin Faults
  BY <1>3 DEF Changes, Relabels, Setting, NoDenial
<1>5. /\ s.call = "put" => f = Do("put", "put", s.name, s.val)
      /\ s.call = "parts" => f = Do("create", "put", s.name, s.val)
      /\ s.call = "meta" => f = Do("copy", "meta", s.name, s.val)
      /\ s.call = "del" => f = Do("del", "del", s.name, None)
      /\ s.call = "has" => f = Do("has", "has", s.name, None)
      /\ s.call = "hasb" => f = Do("hasb", "hasb", None, None)
      /\ s.call = "mkb" => f = Do("mkb", "mkb", None, None)
      /\ s.call = "rmb" => f = Do("rmb", "rmb", None, None)
  BY DEF Opening, put_object_with_metadata, create_multipart_upload, replace_metadata_in_place,
         delete_s3_object, has_reference, head_bucket, create_bucket, delete_bucket
<1>6. r = Task(f.pc, f.kind, f.name, f.val, None, todo)
  OBVIOUS
<1> HIDE DEF f
<1>7. /\ r.pc = f.pc /\ r.kind = f.kind /\ r.name = f.name /\ r.val = f.val /\ r.todo = todo
      /\ (f.pc \in Stages /\ f.kind \in Kinds /\ f.name \in Names \cup {None}
            /\ f.val \in Vals \cup {None} => r \in Op)
  BY <1>2, <1>6 DEF Task, Op
<1>8. r \in Op /\ r.pc \notin Uploading \cup {"paste", "done", "idle"} /\ r.kind \in Kinds
  BY <1>1, <1>3, <1>5, <1>7 DEF Do, Stages, PutStages, Kinds, Uploading
<1>9. Fits(a, r)
  BY <1>1, <1>3, <1>4, <1>5, <1>7 DEF Fits, Do, PutStages, Setting, Kinds
<1>10. QED
  BY <1>8, <1>9

\* A call begins.
LEMMA BeginStep ==
  ASSUME Setting, IInv, NEW a \in Actors, Request(a) \/ Continue(a)
  PROVE  \E r \in Op : /\ Fits(a, r) /\ op' = [op EXCEPT ![a] = r] /\ r.kind \in Kinds
                       /\ r.pc \notin Uploading \cup {"paste", "done", "idle"}
<1>1. \E s \in StepsOf(a), todo \in Seq(StepsOf(a)) : Begin(a, s, todo)
  <2>1. CASE Request(a)
    BY <2>1, StepsSeq DEF Request
  <2>2. CASE Continue(a)
    <3>1. op[a].todo \in Seq(StepsOf(a)) /\ op[a].todo # <<>>
      BY <2>2 DEF Continue, IInv, Known, Fits
    <3>2. Head(op[a].todo) \in StepsOf(a) /\ Tail(op[a].todo) \in Seq(StepsOf(a))
      BY <3>1
    <3>3. QED
      BY <2>2, <3>2 DEF Continue
  <2>3. QED
    BY <2>1, <2>2
<1>2. PICK s \in StepsOf(a), todo \in Seq(StepsOf(a)) : Begin(a, s, todo)
  BY <1>1
<1>3. PICK r : r = (LET f == Opening(s) IN Task(f.pc, f.kind, f.name, f.val, None, todo))
  OBVIOUS
<1>4. op' = [op EXCEPT ![a] = r]
  BY <1>2, <1>3 DEF Begin
<1>5. QED
  BY <1>3, <1>4, Opens

\* A call returns.
LEMMA ReturnStep ==
  ASSUME Setting, IInv, NEW a \in Actors, Return(a)
  PROVE  \E r \in Op : /\ Fits(a, r) /\ op' = [op EXCEPT ![a] = r] /\ r.kind = None
                       /\ r.pc = "idle"
<1>1. op[a].todo \in Seq(StepsOf(a)) /\ op[a].todo \in Seq(Step)
  BY DEF IInv, Known, Fits, TypeOK, Op
<1>2. PICK r : r = Rest(op[a].todo)
  OBVIOUS
<1>3. r \in Op /\ r.pc = "idle" /\ r.kind = None /\ r.todo = op[a].todo
  BY <1>1, <1>2 DEF Rest, Task, Op, Stages
<1>4. Fits(a, r)
  BY <1>1, <1>3 DEF Fits, Setting, Kinds
<1>5. QED
  BY <1>2, <1>3, <1>4 DEF Return

\* A crash forgets every task.
LEMMA CrashStep == ASSUME Setting, IInv, Crash PROVE IInv'
<1>1. Idle \in Op /\ Idle.pc = "idle" /\ Idle.kind = None /\ Idle.todo = <<>>
  BY DEF Idle, Rest, Task, Op, Stages
<1>2. \A a \in Actors : <<>> \in Seq(StepsOf(a))
  OBVIOUS
<1>3. \A a \in Actors : Fits(a, Idle)
  BY <1>1, <1>2 DEF Fits, Setting, Kinds
<1>4. op' = [a \in Actors |-> Idle] /\ Unserved
  BY DEF Crash
<1>5. TypeOK'
  BY <1>1, <1>4, NotServed DEF TypeOK, ServiceOK, IInv
<1>6. Known'
  BY <1>3, <1>4 DEF Known, Fits
<1>7. Owned' /\ Unmoved'
  BY <1>1, <1>4 DEF Owned, Unmoved, Uploading
<1>8. QED
  BY <1>5, <1>6, <1>7 DEF IInv
-----------------------------------------------------------------------------
\* The upload a task is left with after its request was answered with s, or lost.
LEMMA OutcomeOwns ==
  ASSUME Setting, IInv, NEW a \in Actors, Busy(a), NEW o \in Op,
         o.pc = op[a].pc \/ (op[a].pc = "paste" /\ o.pc = "copy"),
         o.id = op[a].id, o.part = op[a].part, o.val = op[a].val,
         NEW s, NEW r, Outcome(o, s, r), r.pc \in Uploading,
         \/ (s = "200" /\ o = op[a] /\ Serve(op[a]))
         \/ (s # "200" /\ (Serve(op[a]) \/ Unserved))
  PROVE  /\ r.id < ids' /\ r.part \in 1..Parts
         /\ \/ op[a].pc \in Uploading /\ r.id = op[a].id
            \/ r.id = ids
         /\ \A u \in uploads' : u.id = r.id => Holds(r, u)
<1> USE DEF IInv
<1>0. op[a] \in Op /\ ids \in Nat /\ Parts \in Nat \ {0}
  BY DEF TypeOK, Setting
<1>1. CASE is_retryable(s) /\ r = Again(o)
  <2>1. r.pc = o.pc /\ r.id = o.id /\ r.part = o.part /\ r.val = o.val
    BY <1>1 DEF Again, Op
  <2>2. op[a].pc \in Uploading /\ r.pc = op[a].pc
    BY <2>1 DEF Uploading
  <2>3. op[a].id < ids /\ op[a].part \in 1..Parts
        /\ \A u \in uploads : u.id = op[a].id => Holds(op[a], u)
    BY <2>2 DEF Owned
  <2>4. s # "200"
    BY <1>1 DEF is_retryable
  <2>5. ids' = ids
    BY <2>2, <2>4 DEF Serve, Unserved, Uploading
  <2>6. ASSUME NEW u \in uploads', u.id = r.id PROVE Holds(r, u)
    <3>1. CASE Unserved
      BY <2>1, <2>2, <2>3, <2>6, <3>1 DEF Unserved, Holds
    <3>2. CASE Serve(op[a])
      <4>1. op[a].pc = "part"
        BY <2>1, <2>2, <2>6, <3>2, OwnUpload DEF Uploading
      <4>2. u.meta = op[a].val /\ \A i \in 1..Parts : i <= op[a].part => u.parts[i] = op[a].val
        BY <2>1, <2>6, <3>2, <4>1, OwnUpload
      <4>3. QED
        BY <2>1, <2>2, <2>3, <4>1, <4>2 DEF Holds
    <3>3. QED
      BY <2>4, <3>1, <3>2
  <2>7. QED
    BY <2>1, <2>2, <2>3, <2>5, <2>6
<1>2. CASE o.pc = "create" /\ s = "200" /\ r = [At(o, "part") EXCEPT !.id = ids, !.part = 1]
  <2>1. PICK q \in Op : q = At(o, "part")
    BY AtType DEF Stages, PutStages
  <2>2. q.val = o.val /\ q.pc = "part"
    BY <2>1, AtType DEF Stages, PutStages
  <2>3. r.id = ids /\ r.part = 1 /\ r.val = o.val /\ r.pc = "part"
    BY <1>2, <2>1, <2>2 DEF Op
  <2>4. Serve(op[a]) /\ op[a].pc = "create"
    BY <1>2
  <2>5. ids' = ids + 1
    BY <2>4 DEF Serve
  <2>6. ASSUME NEW u \in uploads', u.id = r.id PROVE Holds(r, u)
    <3>1. u.meta = op[a].val
      BY <2>3, <2>4, <2>6, OwnUpload
    <3>2. QED
      BY <2>3, <3>1 DEF Holds
  <2>7. QED
    BY <1>0, <2>3, <2>5, <2>6
<1>3. CASE o.pc = "part" /\ s = "200" /\ o.part = Parts /\ r = At(o, "complete")
  <2>1. r.pc = "complete" /\ r.val = o.val /\ r.id = o.id /\ r.part = o.part
    BY <1>3, AtType DEF Stages, PutStages
  <2>2. Serve(op[a]) /\ op[a].pc = "part"
    BY <1>3
  <2>3. op[a].id < ids /\ op[a].part \in 1..Parts /\ ids' = ids
    BY <2>2 DEF Owned, Serve, Uploading
  <2>4. ASSUME NEW u \in uploads', u.id = r.id PROVE Holds(r, u)
    <3>1. u.meta = op[a].val /\ \A i \in 1..Parts : i <= op[a].part => u.parts[i] = op[a].val
      BY <2>1, <2>2, <2>4, OwnUpload
    <3>2. QED
      BY <1>0, <1>3, <2>1, <3>1 DEF Holds
  <2>5. QED
    BY <2>1, <2>2, <2>3, <2>4 DEF Uploading
<1>4. CASE o.pc = "part" /\ s = "200" /\ o.part # Parts
           /\ r = [At(o, "part") EXCEPT !.part = @ + 1]
  <2>1. PICK q \in Op : q = At(o, "part")
    BY AtType DEF Stages, PutStages
  <2>2. q.val = o.val /\ q.pc = "part" /\ q.id = o.id /\ q.part = o.part
    BY <2>1, AtType DEF Stages, PutStages
  <2>3. r.id = o.id /\ r.part = o.part + 1 /\ r.val = o.val /\ r.pc = "part"
    BY <1>4, <2>1, <2>2 DEF Op
  <2>4. Serve(op[a]) /\ op[a].pc = "part"
    BY <1>4
  <2>5. op[a].id < ids /\ op[a].part \in 1..Parts /\ ids' = ids
    BY <2>4 DEF Owned, Serve, Uploading
  <2>6. ASSUME NEW u \in uploads', u.id = r.id PROVE Holds(r, u)
    <3>1. u.meta = op[a].val /\ \A i \in 1..Parts : i <= op[a].part => u.parts[i] = op[a].val
      BY <2>3, <2>4, <2>6, OwnUpload
    <3>2. QED
      BY <1>0, <2>3, <2>5, <3>1 DEF Holds
  <2>7. QED
    BY <1>0, <1>4, <2>3, <2>4, <2>5, <2>6 DEF Uploading
<1>5. CASE o.pc \in {"part", "complete"} /\ s # "200" /\ r = At(o, "abort")
  <2>1. r.pc = "abort" /\ r.val = o.val /\ r.id = o.id /\ r.part = o.part
    BY <1>5, AtType DEF Stages, PutStages
  <2>2. op[a].pc \in {"part", "complete"}
    BY <1>5
  <2>3. op[a].id < ids /\ op[a].part \in 1..Parts
        /\ \A u \in uploads : u.id = op[a].id => Holds(op[a], u)
    BY <2>2 DEF Owned, Uploading
  <2>4. ids' = ids
    BY <1>5, <2>2 DEF Serve, Unserved
  <2>5. ASSUME NEW u \in uploads', u.id = r.id PROVE Holds(r, u)
    <3>1. CASE Unserved
      BY <2>1, <2>3, <2>5, <3>1 DEF Unserved, Holds
    <3>2. CASE Serve(op[a])
      BY <2>1, <2>2, <2>5, <3>2, OwnUpload DEF Holds
    <3>3. QED
      BY <1>5, <3>1, <3>2
  <2>6. QED
    BY <2>1, <2>2, <2>3, <2>4, <2>5 DEF Uploading
<1>6. CASE r = Finish(o, "failed") \/ r = Finish(o, "ok")
  BY <1>6, FinishType DEF Uploading
<1>7. CASE o.pc \in {"has", "hasb"} /\ r = Finish(o, Existence(o, s))
  <2>1. Existence(o, s) \in {"yes", "no", "failed"}
    BY DEF Existence
  <2>2. QED
    BY <1>7, <2>1, FinishType DEF Uploading
<1>8. CASE r = [o EXCEPT !.pc = "paste"]
  BY <1>8 DEF Op, Uploading
<1>9. QED
  BY <1>1, <1>2, <1>3, <1>4, <1>5, <1>6, <1>7, <1>8 DEF Outcome
\* A relabelling is pasted right after its source was read, and never again.
LEMMA OutcomePaste ==
  ASSUME NEW o \in Op, NEW s, NEW r, Outcome(o, s, r), r.pc = "paste"
  PROVE  (o.pc = "copy" /\ s = "200") \/ (o.pc = "paste" /\ is_retryable(s))
<1>1. Finish(o, "ok").pc = "done" /\ Finish(o, "failed").pc = "done"
  BY FinishType
<1>2. Finish(o, Existence(o, s)).pc = "done"
  BY FinishType DEF Existence
<1>3. /\ At(o, "complete").pc = "complete" /\ At(o, "abort").pc = "abort"
      /\ At(o, "part") \in Op /\ At(o, "part").pc = "part"
  BY AtType DEF Stages, PutStages
<1>4. [At(o, "part") EXCEPT !.id = ids, !.part = 1].pc = "part"
      /\ [At(o, "part") EXCEPT !.part = @ + 1].pc = "part"
  BY <1>3 DEF Op
<1>5. Again(o).pc = o.pc
  BY DEF Again, Op
<1>6. QED
  BY <1>1, <1>2, <1>3, <1>4, <1>5 DEF Outcome

\* The step of an answered request, as far as the task is concerned.
Answers(a, s, q, r) ==
    /\ s = Status(op[a]) /\ ~is_retryable(s)
    /\ Outcome(op[a], s, q)
    /\ r \in Op /\ Fits(a, r) /\ op' = [op EXCEPT ![a] = r]
    /\ r.pc = q.pc /\ r.kind = op[a].kind /\ r.name = op[a].name /\ r.val = op[a].val
    /\ r.id = q.id /\ r.part = q.part /\ r.val = q.val /\ r.res = q.res /\ r.todo = q.todo
    /\ r.source = IF op[a].pc = "copy" /\ s = "200" THEN store[op[a].name] ELSE None
    /\ (s = "200" /\ Serve(op[a]) /\ Effect(a)) \/ (s # "200" /\ Unserved)
    /\ ServiceOK'

\* An answered request is such a step.
LEMMA AnswerShape ==
  ASSUME Setting, IInv, NEW a \in Actors, Answer(a)
  PROVE  \E s, q, r : Answers(a, s, q, r)
<1> USE DEF IInv
<1>1. Busy(a) /\ op[a] \in Op /\ Fits(a, op[a]) /\ op[a].pc \notin {"idle", "done"} /\ ids \in Nat
  BY DEF Answer, Busy, TypeOK, Known
<1>2. PICK s : /\ s = Status(op[a]) /\ (IF s = "200" THEN Serve(op[a]) ELSE Unserved)
              /\ op' = [op EXCEPT ![a] = [Answered(op[a], s) EXCEPT
                        !.source = IF op[a].pc = "copy" /\ s = "200" THEN store[op[a].name]
                                   ELSE None]]
  BY DEF Answer
<1>3. PICK q : q = Answered(op[a], s)
  OBVIOUS
<1>4. Outcome(op[a], s, q)
  BY <1>1, <1>3, AnsweredIs
<1>5. q \in Op /\ q.kind = op[a].kind /\ q.name = op[a].name /\ q.val = op[a].val /\ Fits(a, q)
  BY <1>1, <1>4, OutcomeFits, OutcomeKnown
<1>6. PICK x : x = IF op[a].pc = "copy" /\ s = "200" THEN store[op[a].name] ELSE None
  OBVIOUS
<1>7. x \in Stored \cup {None}
  <2>1. op[a].pc = "copy" => op[a].name \in Names
    BY <1>1 DEF Fits, Op, Kinds, Relabels, PutStages
  <2>2. QED
    BY <1>6, <2>1 DEF TypeOK
<1>8. PICK r : r = [q EXCEPT !.source = x]
  OBVIOUS
<1>9. /\ r \in Op /\ r.source = x /\ r.pc = q.pc /\ r.kind = q.kind /\ r.name = q.name
      /\ r.val = q.val /\ r.id = q.id /\ r.part = q.part /\ r.res = q.res /\ r.todo = q.todo
  BY <1>5, <1>7, <1>8 DEF Op
<1>10. Fits(a, r)
  BY <1>5, <1>9 DEF Fits
<1>11. ~is_retryable(s)
  BY <1>2 DEF Status, is_retryable
<1>12. op' = [op EXCEPT ![a] = r]
  BY <1>2, <1>3, <1>6, <1>8
<1>13. /\ (s = "200" /\ Serve(op[a]) /\ Effect(a)) \/ (s # "200" /\ Unserved)
       /\ ServiceOK'
  BY <1>1, <1>2, Served, NotServed
<1>14. Answers(a, s, q, r)
  BY <1>2, <1>4, <1>5, <1>6, <1>9, <1>10, <1>11, <1>12, <1>13 DEF Answers
<1>15. QED
  BY <1>14

\* An answered request keeps the invariant.
LEMMA AnswerStep == ASSUME Setting, IInv, NEW a \in Actors, Answer(a) PROVE IInv'
<1> USE DEF IInv
<1>1. PICK s, q, r : Answers(a, s, q, r)
  BY AnswerShape
<1>2. Busy(a) /\ op[a] \in Op /\ ids \in Nat
  BY DEF Answer, TypeOK
<1>3. TypeOK' /\ Known'
  BY <1>1, KnownStep DEF Answers
<1>4. ASSUME r.pc \in Uploading
      PROVE  /\ r.id < ids' /\ r.part \in 1..Parts
             /\ \/ op[a].pc \in Uploading /\ r.id = op[a].id
                \/ r.id = ids
             /\ \A u \in uploads' : u.id = r.id => Holds(r, u)
  <2>1. q.pc \in Uploading /\ Outcome(op[a], s, q)
    BY <1>1, <1>4 DEF Answers
  <2>2. (s = "200" /\ Serve(op[a])) \/ (s # "200" /\ Unserved)
    BY <1>1 DEF Answers
  <2>3. /\ q.id < ids' /\ q.part \in 1..Parts
        /\ \/ op[a].pc \in Uploading /\ q.id = op[a].id
           \/ q.id = ids
        /\ \A u \in uploads' : u.id = q.id => Holds(q, u)
    BY <1>2, <2>1, <2>2, OutcomeOwns
  <2>4. QED
    BY <1>1, <2>3 DEF Answers, Holds
<1>5. Owned'
  BY <1>1, <1>2, <1>4, OwnedStep DEF Answers
<1>6. ASSUME r.pc = "paste" PROVE r.source # None /\ store'[r.name] = r.source
  <2>1. op[a].pc = "copy" /\ s = "200"
    BY <1>1, <1>2, <1>6, OutcomePaste DEF Answers
  <2>2. store[op[a].name] # None
    BY <1>1, <2>1 DEF Answers, Status
  <2>3. store' = store
    BY <1>1, <2>1 DEF Answers, Serve
  <2>4. QED
    BY <1>1, <2>1, <2>2, <2>3 DEF Answers
<1>7. Unmoved'
  BY <1>1, <1>2, <1>6, UnmovedStep DEF Answers, Unserved
<1>8. QED
  BY <1>3, <1>5, <1>7
\* The step of a request that fails or whose answer is lost; o is where it is tried again.
Misses(a, o, s, r) ==
    /\ o \in Op /\ Fits(a, o) /\ o.pc \notin {"idle", "done", "paste"}
    /\ o.pc = op[a].pc \/ (op[a].pc = "paste" /\ o.pc = "copy")
    /\ o.id = op[a].id /\ o.part = op[a].part /\ o.val = op[a].val /\ o.kind = op[a].kind
    /\ o.name = op[a].name
    /\ s \in {"timeout", "503", "403"} /\ (s = "403" => "denied" \in Faults)
    /\ Outcome(o, s, r) /\ r \in Op /\ Fits(a, r) /\ op' = [op EXCEPT ![a] = r]
    /\ r.kind = op[a].kind /\ r.name = op[a].name /\ r.val = op[a].val
    /\ (Serve(op[a]) /\ Effect(a)) \/ Unserved
    /\ ServiceOK'

\* A lost or refused request is such a step.
LEMMA MissShape ==
  ASSUME Setting, IInv, NEW a \in Actors, Lose(a) \/ Refuse(a)
  PROVE  \E o, s, r : Misses(a, o, s, r)
<1> USE DEF IInv
<1>1. Busy(a) /\ op[a] \in Op /\ Fits(a, op[a]) /\ op[a].pc \notin {"idle", "done"} /\ ids \in Nat
  BY DEF Lose, Refuse, Busy, TypeOK, Known
<1>2. ASSUME NEW o \in Op, Fits(a, o), o.pc \notin {"idle", "done"}, NEW s
      PROVE  LET r == Answered(o, s) IN
             /\ Outcome(o, s, r) /\ r \in Op /\ Fits(a, r)
             /\ r.kind = o.kind /\ r.name = o.name /\ r.val = o.val
  BY <1>1, <1>2, AnsweredIs, OutcomeFits, OutcomeKnown
<1>3. CASE Lose(a)
  <2>1. PICK o : o = IF op[a].pc = "paste" THEN [op[a] EXCEPT !.pc = "copy"] ELSE op[a]
    OBVIOUS
  <2>2. /\ o \in Op /\ o.pc \notin {"idle", "done", "paste"}
        /\ o.pc = op[a].pc \/ (op[a].pc = "paste" /\ o.pc = "copy")
        /\ o.id = op[a].id /\ o.part = op[a].part /\ o.val = op[a].val /\ o.kind = op[a].kind
        /\ o.name = op[a].name /\ o.todo = op[a].todo /\ o.res = op[a].res
    BY <1>1, <2>1 DEF Op, Stages
  <2>3. Fits(a, o)
    BY <1>1, <2>2 DEF Fits, PutStages, Op, Kinds
  <2>4. PICK r : r = Answered(o, "timeout")
    OBVIOUS
  <2>5. op' = [op EXCEPT ![a] = r]
    BY <1>3, <2>1, <2>4 DEF Lose
  <2>6. (Serve(op[a]) /\ Effect(a) /\ ServiceOK') \/ (Unserved /\ ServiceOK')
    BY <1>1, <1>3, Served, NotServed DEF Lose
  <2>7. Misses(a, o, "timeout", r)
    BY <1>2, <2>2, <2>3, <2>4, <2>5, <2>6 DEF Misses
  <2>8. QED
    BY <2>7
<1>4. CASE Refuse(a)
  <2>1. PICK s \in {"503", "403"} : (s = "403" => "denied" \in Faults)
                                    /\ op' = [op EXCEPT ![a] = Answered(op[a], s)]
    BY <1>4 DEF Refuse, Fault
  <2>2. Unserved /\ ServiceOK' /\ op[a].pc # "paste"
    BY <1>4, NotServed DEF Refuse
  <2>3. PICK r : r = Answered(op[a], s)
    OBVIOUS
  <2>4. Misses(a, op[a], s, r)
    BY <1>1, <1>2, <2>1, <2>2, <2>3 DEF Misses
  <2>5. QED
    BY <2>4
<1>5. QED
  BY <1>3, <1>4

\* A lost or refused request keeps the invariant.
LEMMA MissStep == ASSUME Setting, IInv, NEW a \in Actors, Lose(a) \/ Refuse(a) PROVE IInv'
<1> USE DEF IInv
<1>1. PICK o, s, r : Misses(a, o, s, r)
  BY MissShape
<1>2. Busy(a) /\ op[a] \in Op /\ ids \in Nat
  BY DEF Lose, Refuse, TypeOK
<1>3. TypeOK' /\ Known'
  BY <1>1, KnownStep DEF Misses
<1>4. ASSUME r.pc \in Uploading
      PROVE  /\ r.id < ids' /\ r.part \in 1..Parts
             /\ \/ op[a].pc \in Uploading /\ r.id = op[a].id
                \/ r.id = ids
             /\ \A u \in uploads' : u.id = r.id => Holds(r, u)
  BY <1>1, <1>2, <1>4, OutcomeOwns DEF Misses
<1>5. Owned'
  BY <1>1, <1>2, <1>4, OwnedStep DEF Misses
<1>6. r.pc # "paste"
  BY <1>1, <1>2, OutcomePaste DEF Misses
<1>7. Unmoved'
  BY <1>1, <1>2, <1>6, UnmovedStep DEF Misses, Unserved
<1>8. QED
  BY <1>3, <1>5, <1>7

\* Every step keeps the invariant.
LEMMA NextInv == ASSUME Setting PROVE IInv /\ [Next]_vars => IInv'
<1> SUFFICES ASSUME IInv, [Next]_vars PROVE IInv'
  OBVIOUS
<1>1. CASE UNCHANGED vars
  BY <1>1 DEF vars, IInv, TypeOK, Known, Fits, Owned, Holds, Unmoved
<1>2. ASSUME NEW a \in Actors, Request(a) \/ Continue(a) PROVE IInv'
  <2>1. PICK r \in Op : /\ Fits(a, r) /\ op' = [op EXCEPT ![a] = r]
                        /\ r.pc \notin Uploading \cup {"paste"}
    BY <1>2, BeginStep
  <2>2. op[a].pc \in {"idle", "done"} /\ Unserved
    BY <1>2 DEF Request, Continue
  <2>3. QED
    BY <2>1, <2>2, QuietStep
<1>3. ASSUME NEW a \in Actors, Return(a) PROVE IInv'
  <2>1. PICK r \in Op : Fits(a, r) /\ op' = [op EXCEPT ![a] = r] /\ r.pc = "idle"
    BY <1>3, ReturnStep
  <2>2. op[a].pc \in {"idle", "done"} /\ Unserved
    BY <1>3 DEF Return
  <2>3. QED
    BY <2>1, <2>2, QuietStep DEF Uploading
<1>4. ASSUME NEW a \in Actors, Answer(a) PROVE IInv'
  BY <1>4, AnswerStep
<1>5. ASSUME NEW a \in Actors, Lose(a) \/ Refuse(a) PROVE IInv'
  BY <1>5, MissStep
<1>6. ASSUME Crash PROVE IInv'
  BY <1>6, CrashStep
<1>7. QED
  BY <1>1, <1>2, <1>3, <1>4, <1>5, <1>6 DEF Next
-----------------------------------------------------------------------------
(* The refinement. *)
Calls == [a \in Actors |-> CallOf(a)]

\* A step of one task changes what its caller sees, and no other's.
LEMMA CallStep ==
  ASSUME TypeOK, NEW a \in Actors, NEW r, op' = [op EXCEPT ![a] = r]
  PROVE  Calls[a] = Seen(op[a]) /\ Calls' = [Calls EXCEPT ![a] = Seen(r)]
<1>1. \A c \in Actors : op'[c] = IF c = a THEN r ELSE op[c]
  BY DEF TypeOK
<1>2. Calls' = [c \in Actors |-> Seen(op'[c])]
  BY DEF Calls, CallOf, Seen
<1>3. Calls = [c \in Actors |-> Seen(op[c])]
  BY DEF Calls, CallOf
<1>4. QED
  BY <1>1, <1>2, <1>3

\* A task that is busy has asked for something.
LEMMA BusySeen ==
  ASSUME Setting, NEW o \in Op, o.kind \in Kinds, o.pc # "done"
  PROVE  /\ Seen(o) = [kind |-> o.kind, name |-> o.name, val |-> o.val, st |-> "asked"]
         /\ Seen(o) \in Loosely!Call /\ Seen(o) # None
<1>1. Seen(o) = [kind |-> o.kind, name |-> o.name, val |-> o.val, st |-> "asked"]
  BY DEF Seen, Setting
<1>2. Seen(o) \in Loosely!Call
  BY <1>1 DEF Loosely!Call, Op, Kinds
<1>3. QED
  BY <1>1, <1>2 DEF Setting

\* The caller sees the answer, or nothing.
LEMMA SeenNext ==
  ASSUME Setting, NEW o \in Op, NEW r \in Op, o.kind \in Kinds, o.pc # "done",
         r.kind = o.kind, r.name = o.name, r.val = o.val
  PROVE  Seen(r) = [Seen(o) EXCEPT !.st = IF r.pc = "done" THEN r.res ELSE "asked"]
<1>1. Seen(o) = [kind |-> o.kind, name |-> o.name, val |-> o.val, st |-> "asked"]
  BY BusySeen
<1>2. Seen(r) = [kind |-> o.kind, name |-> o.name, val |-> o.val,
                 st |-> IF r.pc = "done" THEN r.res ELSE "asked"]
  BY DEF Seen, Setting
<1>3. QED
  BY <1>1, <1>2

\* What an answer lets the caller see.
LEMMA OutcomeResult ==
  ASSUME Setting, NEW o \in Op, o.pc \notin {"idle", "done"}, NEW s, NEW r, Outcome(o, s, r)
  PROVE  \/ r.pc # "done" /\ (s = "200" => o.pc \in {"copy", "create", "part"})
         \/ r.pc = "done" /\ r.res = "ok" /\ o.pc \in Sent /\ s = "200"
         \/ r.pc = "done" /\ r.res = "failed" /\ (s # "200" \/ o.pc = "abort")
         \/ r.pc = "done" /\ o.pc \in {"has", "hasb"} /\ r.res = Existence(o, s)
<1>1. Finish(o, "ok").pc = "done" /\ Finish(o, "failed").pc = "done"
      /\ Finish(o, "ok").res = "ok" /\ Finish(o, "failed").res = "failed"
  BY FinishType
<1>2. Finish(o, Existence(o, s)).pc = "done" /\ Finish(o, Existence(o, s)).res = Existence(o, s)
  BY FinishType DEF Existence
<1>3. /\ At(o, "complete").pc = "complete" /\ At(o, "abort").pc = "abort"
      /\ At(o, "part") \in Op /\ At(o, "part").pc = "part"
  BY AtType DEF Stages, PutStages
<1>4. [At(o, "part") EXCEPT !.id = ids, !.part = 1].pc = "part"
      /\ [At(o, "part") EXCEPT !.part = @ + 1].pc = "part"
  BY <1>3 DEF Op
<1>5. Again(o).pc = o.pc /\ [o EXCEPT !.pc = "paste"].pc = "paste"
  BY DEF Again, Op
<1>6. is_retryable(s) => s # "200"
  BY DEF is_retryable
<1>7. QED
  BY <1>1, <1>2, <1>3, <1>4, <1>5, <1>6 DEF Outcome

\* What the request did is an effect that ObjectStore allows to the call.
Allowed(a) ==
    \/ Loosely!Asked(a, "put") /\ Loosely!Write(Calls[a].name, Calls[a].val) /\ UNCHANGED bucket
    \/ Loosely!Asked(a, "del") /\ Loosely!Remove(Calls[a].name) /\ UNCHANGED bucket
    \/ Loosely!Asked(a, "meta") /\ Loosely!Label(Calls[a].name, Calls[a].val) /\ UNCHANGED bucket
    \/ Loosely!Asked(a, "mkb") /\ bucket' = TRUE /\ UNCHANGED store
    \/ Loosely!Asked(a, "rmb") /\ Loosely!Vanish /\ UNCHANGED store

\* It is such an effect, or none.
LEMMA EffectAllowed ==
  ASSUME Setting, IInv, NEW a \in Actors, Busy(a), Effect(a)
  PROVE  \/ op[a].pc \in Sent /\ Allowed(a)
         \/ op[a].pc \notin Sent /\ UNCHANGED <<bucket, store>>
<1> USE DEF IInv
<1>1. op[a] \in Op /\ Fits(a, op[a]) /\ op[a].kind \in Kinds /\ op[a].pc \notin {"idle", "done"}
  BY DEF TypeOK, Known, Busy, Fits, Op
<1>2. Seen(op[a]) = [kind |-> op[a].kind, name |-> op[a].name, val |-> op[a].val, st |-> "asked"]
      /\ Seen(op[a]) # None
  BY <1>1, BusySeen
<1>3. Calls[a] = Seen(op[a])
  BY DEF Calls, CallOf
<1>4. Loosely!Asked(a, op[a].kind)
  BY <1>2, <1>3 DEF Loosely!Asked, Calls
<1>5. Calls[a].name = op[a].name /\ Calls[a].val = op[a].val
  BY <1>2, <1>3
<1>6. CASE Effect(a)!1
  <2>1. op[a].kind = "put"
    BY <1>1, <1>6 DEF Fits, Kinds
  <2>2. Loosely!Write(op[a].name, op[a].val)
    BY <1>6 DEF Loosely!Write, Object
  <2>3. QED
    BY <1>4, <1>5, <1>6, <2>1, <2>2 DEF Allowed, Sent
<1>7. CASE Effect(a)!2
  <2>1. op[a].kind = "del"
    BY <1>1, <1>7 DEF Fits, Kinds, PutStages
  <2>2. Loosely!Remove(op[a].name)
    BY <1>7 DEF Loosely!Remove
  <2>3. QED
    BY <1>4, <1>5, <1>7, <2>1, <2>2 DEF Allowed, Sent
<1>8. CASE Effect(a)!3
  <2>1. op[a].kind = "meta"
    BY <1>1, <1>8 DEF Fits, Kinds, PutStages
  <2>2. op[a].name \in Names
    BY <1>1, <2>1 DEF Fits, Relabels
  <2>3. store[op[a].name] \in Stored
    BY <1>8, <2>2 DEF TypeOK
  <2>4. [data |-> store[op[a].name].data, meta |-> op[a].val]
           = [store[op[a].name] EXCEPT !.meta = op[a].val]
    BY <2>3 DEF Stored
  <2>5. Loosely!Label(op[a].name, op[a].val)
    BY <1>8, <2>4 DEF Loosely!Label
  <2>6. QED
    BY <1>4, <1>5, <1>8, <2>1, <2>5 DEF Allowed, Sent
<1>9. CASE Effect(a)!4
  <2>1. op[a].kind = "mkb"
    BY <1>1, <1>9 DEF Fits, Kinds, PutStages
  <2>2. QED
    BY <1>4, <1>9, <2>1 DEF Allowed, Sent
<1>10. CASE Effect(a)!5
  <2>1. op[a].kind = "rmb"
    BY <1>1, <1>10 DEF Fits, Kinds, PutStages
  <2>2. Loosely!Vanish
    BY <1>10 DEF Loosely!Vanish
  <2>3. QED
    BY <1>4, <1>10, <2>1, <2>2 DEF Allowed, Sent
<1>11. CASE Effect(a)!6
  BY <1>11 DEF Sent
<1>12. QED
  BY <1>6, <1>7, <1>8, <1>9, <1>10, <1>11 DEF Effect
\* A step of a busy task that leaves it with r, in the terms of ObjectStore.
LEMMA BusyCall ==
  ASSUME Setting, IInv, NEW a \in Actors, Busy(a), NEW r \in Op, op' = [op EXCEPT ![a] = r],
         r.kind = op[a].kind, r.name = op[a].name, r.val = op[a].val
  PROVE  /\ Calls[a] # None /\ Calls[a].st = "asked" /\ Calls[a].kind = op[a].kind
         /\ Calls[a].name = op[a].name
         /\ op[a].kind \in Kinds /\ Loosely!Asked(a, op[a].kind)
         /\ r.pc # "done" => Calls' = Calls
         /\ r.pc = "done" => Loosely!Answer(a, r.res)
<1> USE DEF IInv
<1>1. op[a] \in Op /\ op[a].kind \in Kinds /\ op[a].pc \notin {"idle", "done"}
  BY DEF TypeOK, Known, Busy, Fits, Op
<1>2. Seen(op[a]) = [kind |-> op[a].kind, name |-> op[a].name, val |-> op[a].val, st |-> "asked"]
      /\ Seen(op[a]) # None
  BY <1>1, BusySeen
<1>3. Calls[a] = Seen(op[a]) /\ Calls' = [Calls EXCEPT ![a] = Seen(r)]
  BY CallStep
<1>4. Seen(r) = [Seen(op[a]) EXCEPT !.st = IF r.pc = "done" THEN r.res ELSE "asked"]
  BY <1>1, SeenNext
<1>5. Loosely!Asked(a, op[a].kind)
  BY <1>2, <1>3 DEF Loosely!Asked, Calls
<1>6. ASSUME r.pc # "done" PROVE Calls' = Calls
  <2>1. Seen(r) = Seen(op[a])
    BY <1>2, <1>4, <1>6
  <2>2. Calls = [c \in Actors |-> Calls[c]]
    BY DEF Calls
  <2>3. QED
    BY <1>3, <2>1, <2>2
<1>7. ASSUME r.pc = "done" PROVE Loosely!Answer(a, r.res)
  <2>1. Calls' = [Calls EXCEPT ![a] = [Calls[a] EXCEPT !.st = r.res]]
    BY <1>3, <1>4, <1>7
  <2>2. QED
    BY <2>1 DEF Loosely!Answer, Calls
<1>8. QED
  BY <1>1, <1>2, <1>3, <1>5, <1>6, <1>7

\* An answered request is a step of ObjectStore.
LEMMA AnswerRefines ==
  ASSUME Setting, IInv, NEW a \in Actors, Answer(a)
  PROVE  [Loosely!Next]_(Loosely!vars)
<1> USE DEF IInv
<1>1. PICK s, q, r : Answers(a, s, q, r)
  BY AnswerShape
<1>2. Busy(a) /\ op[a] \in Op /\ op[a].pc \notin {"idle", "done"} /\ Fits(a, op[a])
  BY DEF Answer, TypeOK, Busy, Known
<1>3. /\ Calls[a] # None /\ Calls[a].st = "asked" /\ Calls[a].kind = op[a].kind
      /\ Calls[a].name = op[a].name
      /\ op[a].kind \in Kinds /\ Loosely!Asked(a, op[a].kind)
      /\ r.pc # "done" => Calls' = Calls
      /\ r.pc = "done" => Loosely!Answer(a, r.res)
  BY <1>1, <1>2, BusyCall DEF Answers
<1>4. \/ r.pc # "done" /\ (s = "200" => op[a].pc \in {"copy", "create", "part"})
      \/ r.pc = "done" /\ r.res = "ok" /\ op[a].pc \in Sent /\ s = "200"
      \/ r.pc = "done" /\ r.res = "failed" /\ (s # "200" \/ op[a].pc = "abort")
      \/ r.pc = "done" /\ op[a].pc \in {"has", "hasb"} /\ r.res = Existence(op[a], s)
  BY <1>1, <1>2, OutcomeResult DEF Answers
<1>5. (s = "200" /\ Effect(a)) \/ (s # "200" /\ UNCHANGED <<bucket, store>>)
  BY <1>1 DEF Answers, Unserved
<1>6. Effect(a) => \/ op[a].pc \in Sent /\ Allowed(a)
                   \/ op[a].pc \notin Sent /\ UNCHANGED <<bucket, store>>
  BY <1>2, EffectAllowed
<1>7. CASE r.pc # "done" /\ (s = "200" => op[a].pc \in {"copy", "create", "part"})
  BY <1>3, <1>5, <1>6, <1>7 DEF Loosely!vars, Calls, Sent
<1>8. CASE r.pc = "done" /\ r.res = "ok" /\ op[a].pc \in Sent /\ s = "200"
  <2>1. Allowed(a)
    BY <1>5, <1>6, <1>8
  <2>2. Loosely!Answer(a, "ok")
    BY <1>3, <1>8
  <2>3. \/ Loosely!Put(a) \/ Loosely!Delete(a) \/ Loosely!SetMeta(a)
        \/ Loosely!CreateBucket(a) \/ Loosely!DeleteBucket(a)
    BY <2>1, <2>2 DEF Allowed, Loosely!Put, Loosely!Delete, Loosely!SetMeta,
                      Loosely!CreateBucket, Loosely!DeleteBucket, Calls
  <2>4. QED
    BY <2>3 DEF Loosely!Next
<1>9. CASE r.pc = "done" /\ r.res = "failed" /\ (s # "200" \/ op[a].pc = "abort")
  <2>1. UNCHANGED <<bucket, store>>
    BY <1>5, <1>6, <1>9 DEF Sent
  <2>2. Loosely!Answer(a, "failed")
    BY <1>3, <1>9
  <2>3. Loosely!Fail(a)
    BY <1>3, <2>1, <2>2 DEF Loosely!Fail, Calls
  <2>4. QED
    BY <2>3 DEF Loosely!Next
<1>10. CASE r.pc = "done" /\ op[a].pc \in {"has", "hasb"} /\ r.res = Existence(op[a], s)
  <2>1. UNCHANGED <<bucket, store>>
    BY <1>5, <1>6, <1>10 DEF Sent
  <2>2. Loosely!Answer(a, r.res)
    BY <1>3, <1>10
  <2>3. CASE op[a].pc = "has"
    <3>1. op[a].kind = "has"
      BY <1>2, <1>3, <2>3 DEF Fits, Kinds, PutStages
    <3>2. s = IF store[op[a].name] # None THEN "200" ELSE "404"
      BY <1>1, <2>3 DEF Answers, Status
    <3>3. r.res = IF store[op[a].name] # None THEN "yes" ELSE "no"
      BY <1>10, <2>3, <3>2 DEF Existence, classify_s3_error, is_bucket_level
    <3>4. Loosely!Look(a)
      BY <1>3, <2>1, <2>2, <3>1, <3>3 DEF Loosely!Look, Calls
    <3>5. QED
      BY <3>4 DEF Loosely!Next
  <2>4. CASE op[a].pc = "hasb"
    <3>1. op[a].kind = "hasb"
      BY <1>2, <1>3, <2>4 DEF Fits, Kinds, PutStages
    <3>2. s = IF bucket THEN "200" ELSE "404"
      BY <1>1, <2>4 DEF Answers, Status
    <3>3. r.res = IF bucket THEN "yes" ELSE "no"
      BY <1>10, <2>4, <3>2 DEF Existence, classify_s3_error, is_bucket_level
    <3>4. Loosely!Look(a)
      BY <1>3, <2>1, <2>2, <3>1, <3>3 DEF Loosely!Look, Calls
    <3>5. QED
      BY <3>4 DEF Loosely!Next
  <2>5. QED
    BY <1>10, <2>3, <2>4
<1>11. QED
  BY <1>4, <1>7, <1>8, <1>9, <1>10

\* A lost or refused request is a step of ObjectStore: an effect without an answer, or a failure.
LEMMA MissRefines ==
  ASSUME Setting, IInv, NEW a \in Actors, Lose(a) \/ Refuse(a)
  PROVE  [Loosely!Next]_(Loosely!vars)
<1> USE DEF IInv
<1>1. PICK o, s, r : Misses(a, o, s, r)
  BY MissShape
<1>2. Busy(a) /\ op[a] \in Op /\ op[a].pc \notin {"idle", "done"} /\ Fits(a, op[a])
  BY DEF Lose, Refuse, TypeOK, Busy, Known
<1>3. /\ Calls[a] # None /\ Calls[a].st = "asked" /\ Calls[a].kind = op[a].kind
      /\ op[a].kind \in Kinds /\ Loosely!Asked(a, op[a].kind)
      /\ r.pc # "done" => Calls' = Calls
      /\ r.pc = "done" => Loosely!Answer(a, r.res)
  BY <1>1, <1>2, BusyCall DEF Misses
<1>4. r.pc # "done" \/ (r.pc = "done" /\ r.res = "failed")
  <2>1. \/ r.pc # "done"
        \/ r.pc = "done" /\ r.res = "failed"
        \/ r.pc = "done" /\ o.pc \in {"has", "hasb"} /\ r.res = Existence(o, s)
    BY <1>1, OutcomeResult DEF Misses
  <2>2. o.pc = "hasb" => s # "403"
    BY <1>1, <1>3 DEF Misses, Fits, Kinds, PutStages
  <2>3. o.pc \in {"has", "hasb"} => Existence(o, s) = "failed"
    BY <1>1, <2>2 DEF Misses, Existence, classify_s3_error, is_bucket_level
  <2>4. QED
    BY <2>1, <2>3
<1>5. \/ op[a].pc \in Sent /\ Allowed(a)
      \/ UNCHANGED <<bucket, store>>
  BY <1>1, <1>2, EffectAllowed DEF Misses, Unserved
<1>6. Calls' = Calls \/ Loosely!Answer(a, "failed")
  BY <1>3, <1>4
<1>7. CASE Allowed(a)
  <2>1. op[a].kind \in {"put", "del", "meta", "mkb", "rmb"}
    BY <1>3, <1>7 DEF Allowed, Loosely!Asked, Calls
  <2>2. Loosely!Again(a)
    BY <1>3, <1>6, <1>7, <2>1 DEF Loosely!Again, Allowed, Calls
  <2>3. QED
    BY <2>2 DEF Loosely!Next
<1>8. CASE UNCHANGED <<bucket, store>>
  <2>1. CASE Calls' = Calls
    BY <1>8, <2>1 DEF Loosely!vars, Calls
  <2>2. CASE Loosely!Answer(a, "failed")
    <3>1. Loosely!Fail(a)
      BY <1>3, <1>8, <2>2 DEF Loosely!Fail, Calls
    <3>2. QED
      BY <3>1 DEF Loosely!Next
  <2>3. QED
    BY <1>6, <2>1, <2>2
<1>9. QED
  BY <1>5, <1>7, <1>8

\* Every step of the backend is a step of ObjectStore, or changes nothing its callers see.
LEMMA NextRefines ==
  ASSUME Setting PROVE IInv /\ [Next]_vars => [Loosely!Next]_(Loosely!vars)
<1> SUFFICES ASSUME IInv, [Next]_vars PROVE [Loosely!Next]_(Loosely!vars)
  OBVIOUS
<1> USE DEF IInv
<1>1. CASE UNCHANGED vars
  BY <1>1 DEF vars, Loosely!vars, CallOf, Seen
<1>2. ASSUME NEW a \in Actors, Request(a) \/ Continue(a) PROVE [Loosely!Next]_(Loosely!vars)
  <2>1. PICK r \in Op : /\ op' = [op EXCEPT ![a] = r] /\ r.kind \in Kinds /\ r.pc # "done"
    BY <1>2, BeginStep
  <2>2. op[a].pc = "idle" /\ UNCHANGED <<bucket, store>>
    BY <1>2 DEF Request, Continue, Unserved
  <2>3. Calls[a] = None
    BY <2>2 DEF Calls, CallOf, Seen, Known, Fits
  <2>4. Calls' = [Calls EXCEPT ![a] = Seen(r)]
    BY <2>1, CallStep
  <2>5. Seen(r) \in Loosely!Call /\ Seen(r).st = "asked"
    BY <2>1, BusySeen
  <2>6. Calls'[a] = Seen(r)
    BY <2>4 DEF Calls
  <2>7. Loosely!Ask(a)
    BY <2>2, <2>3, <2>4, <2>5, <2>6 DEF Loosely!Ask, Calls
  <2>8. QED
    BY <2>7 DEF Loosely!Next
<1>3. ASSUME NEW a \in Actors, Return(a) PROVE [Loosely!Next]_(Loosely!vars)
  <2>1. PICK r \in Op : op' = [op EXCEPT ![a] = r] /\ r.kind = None
    BY <1>3, ReturnStep
  <2>2. op[a].pc = "done" /\ UNCHANGED <<bucket, store>>
    BY <1>3 DEF Return, Unserved
  <2>3. op[a] \in Op /\ op[a].kind # None /\ op[a].res # None
    BY <2>2 DEF TypeOK, Known, Fits
  <2>4. Seen(op[a]) = [kind |-> op[a].kind, name |-> op[a].name, val |-> op[a].val,
                       st |-> op[a].res]
    BY <2>2, <2>3 DEF Seen
  <2>5. Seen(op[a]) \in Loosely!Call /\ Seen(op[a]).st # "asked"
    BY <2>3, <2>4 DEF Loosely!Call, Op, Kinds
  <2>6. Calls[a] = Seen(op[a]) /\ Calls' = [Calls EXCEPT ![a] = None]
    BY <2>1, CallStep DEF Seen
  <2>7. Loosely!Return(a)
    BY <2>2, <2>5, <2>6 DEF Loosely!Return, Calls, Setting
  <2>8. QED
    BY <2>7 DEF Loosely!Next
<1>4. ASSUME NEW a \in Actors, Answer(a) PROVE [Loosely!Next]_(Loosely!vars)
  BY <1>4, AnswerRefines
<1>5. ASSUME NEW a \in Actors, Lose(a) \/ Refuse(a) PROVE [Loosely!Next]_(Loosely!vars)
  BY <1>5, MissRefines
<1>6. ASSUME Crash PROVE [Loosely!Next]_(Loosely!vars)
  <2>1. op' = [a \in Actors |-> Idle] /\ UNCHANGED <<bucket, store>> /\ Idle.kind = None
    BY <1>6 DEF Crash, Unserved, Idle, Rest, Task
  <2>2. Loosely!Crash
    BY <2>1 DEF Loosely!Crash, CallOf, Seen
  <2>3. QED
    BY <2>2 DEF Loosely!Next
<1>7. QED
  BY <1>1, <1>2, <1>3, <1>4, <1>5, <1>6 DEF Next

\* Through any losses, refusals, retries and crashes the S3 backend implements ObjectStore
\* with operations that may take effect more than once (storage/s3.rs), where what is
\* relabelled has one writer and head_bucket is not refused.
THEOREM Implements == ASSUME Setting PROVE Spec => AtLeastOnce
<1>1. Init => Loosely!Init
  BY DEF Init, Loosely!Init, CallOf, Seen, Idle, Rest, Task
<1>2. QED
  BY InitInv, NextInv, NextRefines, <1>1, PTL DEF Spec, AtLeastOnce, Loosely!Spec

\* The backend's own state stays well typed, and an object is only ever in a bucket.
THEOREM TypeCorrect == ASSUME Setting PROVE Spec => []TypeOK
<1>1. IInv => TypeOK
  BY DEF IInv
<1>2. QED
  BY InitInv, NextInv, <1>1, PTL DEF Spec
=============================================================================
