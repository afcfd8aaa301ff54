--------------------------- MODULE FsBackendProofs ---------------------------
(* The filesystem backend implements ObjectStore: Linearizable, for any       *)
(* tasks, programs, files, directory levels, operations and crashes.          *)
EXTENDS FsBackend, TLAPS

\* What a task is doing is a step of its operation.
Fits(o) ==
    /\ o.pc = "idle" <=> o.kind = None
    /\ o.pc = "done" => o.res # None
    /\ o.pc = "require" => o.kind \in {"put", "link", "meta"}
    /\ o.pc \in PutSteps => o.kind = "put"
    /\ o.pc \in LinkSteps => o.kind = "link"
    /\ o.pc = "attr" => o.kind \in {"link", "meta"}
    /\ o.pc \in DelSteps => o.kind = "del"
    /\ o.pc = "mkb" => o.kind = "mkb"
    /\ o.pc \in RmbSteps => o.kind = "rmb"
    /\ o.kind \in {"put", "link", "meta"} => o.name \in Names /\ o.val \in Vals
    /\ o.kind = "link" => o.name \in Internal
    /\ o.kind = "del" => o.name \in Names
    /\ o.tmp => o.pc = "persist"
    /\ o.pc = "mkdir" => o.at \in 2..Level[o.name]

Known == \A a \in Actors : Fits(op[a])

\* A walk never leaves deltaspaces/ upwards.
Walking ==
    /\ walk = [a \in Actors |-> walk[a]]
    /\ \A a \in Actors : op[a].pc \in {"look", "sweep", "rmsub"} =>
          walk[a].base \in Nat /\ walk[a].base >= 2

IInv == TypeOK /\ Known /\ Walking

-----------------------------------------------------------------------------
(* The record of an operation. *)

\* An operation that goes on.
LEMMA AtType ==
  ASSUME NEW o \in Op, NEW pc, NEW at \in Nat, [o EXCEPT !.pc = pc] \in Op
  PROVE  /\ At(o, pc, at) \in Op
         /\ At(o, pc, at).pc = pc /\ At(o, pc, at).at = at
         /\ At(o, pc, at).kind = o.kind /\ At(o, pc, at).name = o.name
         /\ At(o, pc, at).val = o.val /\ At(o, pc, at).tmp = o.tmp
         /\ At(o, pc, at).res = o.res /\ At(o, pc, at).todo = o.todo
  BY DEF At, Op

\* An operation that is done.
LEMMA DoneType ==
  ASSUME NEW o \in Op, NEW res \in Results
  PROVE  /\ Done(o, res) \in Op
         /\ Done(o, res).pc = "done" /\ Done(o, res).res = res /\ Done(o, res).tmp = FALSE
         /\ Done(o, res).kind = o.kind /\ Done(o, res).name = o.name /\ Done(o, res).val = o.val
<1>1. (IF res = "ok" THEN o.todo ELSE <<>>) \in Seq(Start)
  BY DEF Op
<1>2. QED
  BY <1>1 DEF Done, Task, Op

\* A done operation fits, whichever it was.
LEMMA DoneFits ==
  ASSUME Setting, NEW o \in Op, Fits(o), o.pc # "idle", NEW res \in Results
  PROVE  Fits(Done(o, res))
<1>1. PICK q \in Op : q = Done(o, res)
  BY DoneType
<1>2. /\ q.pc = "done" /\ q.res = res /\ q.tmp = FALSE
      /\ q.kind = o.kind /\ q.name = o.name /\ q.val = o.val
  BY <1>1, DoneType
<1>3. res # None
  BY DEF Setting
<1>4. Fits(q)
  BY <1>2, <1>3 DEF Fits, PutSteps, LinkSteps, DelSteps, RmbSteps
<1>5. QED
  BY <1>1, <1>4

\* An operation that goes on fits if the step is one of its kind's.
LEMMA AtFits ==
  ASSUME NEW o \in Op, Fits(o), NEW pc, NEW at \in Nat, ~o.tmp,
         o.kind # None, pc \notin {"idle", "done", "persist"},
         \/ o.kind = "put" /\ pc \in {"isdir", "temp"}
         \/ o.kind = "put" /\ pc = "mkdir" /\ at \in 2..Level[o.name]
         \/ o.kind = "link" /\ pc \in LinkSteps \cup {"attr"}
         \/ o.kind = "meta" /\ pc = "attr"
         \/ o.kind = "del" /\ pc \in DelSteps
         \/ o.kind = "rmb" /\ pc \in RmbSteps
  PROVE  /\ [o EXCEPT !.pc = pc] \in Op
         /\ At(o, pc, at) \in Op /\ Fits(At(o, pc, at))
<1>1. [o EXCEPT !.pc = pc] \in Op
  BY DEF Op, PutSteps, LinkSteps, DelSteps, RmbSteps
<1>2. PICK q \in Op : q = At(o, pc, at)
  BY <1>1, AtType
<1>3. /\ q.pc = pc /\ q.at = at /\ q.kind = o.kind /\ q.name = o.name
      /\ q.val = o.val /\ q.tmp = o.tmp
  BY <1>1, <1>2, AtType
<1>4. Fits(q)
  BY <1>3 DEF Fits, PutSteps, LinkSteps, DelSteps, RmbSteps
<1>5. QED
  BY <1>1, <1>2, <1>4

\* No task has a new temporary file.
Quiet == \A b \in Actors : op'[b].tmp => op[b].tmp /\ op'[b].name = op[b].name

\* A step of task a alone.
LEMMA OpStep ==
  ASSUME NEW a \in Actors, op \in [Actors -> Op], Known, NEW q \in Op, Fits(q),
         op' = [op EXCEPT ![a] = q]
  PROVE  /\ op' \in [Actors -> Op] /\ Known' /\ op'[a] = q
         /\ \A b \in Actors : b # a => op'[b] = op[b]
  BY DEF Known

\* A task goes on to another step of its operation.
LEMMA GotoStep ==
  ASSUME NEW a \in Actors, op \in [Actors -> Op], Known, NEW pc, NEW at \in Nat,
         GotoAt(a, pc, at), ~op[a].tmp, op[a].kind # None,
         pc \notin {"idle", "done", "persist"},
         \/ op[a].kind = "put" /\ pc \in {"isdir", "temp"}
         \/ op[a].kind = "put" /\ pc = "mkdir" /\ at \in 2..Level[op[a].name]
         \/ op[a].kind = "link" /\ pc \in LinkSteps \cup {"attr"}
         \/ op[a].kind = "meta" /\ pc = "attr"
         \/ op[a].kind = "del" /\ pc \in DelSteps
         \/ op[a].kind = "rmb" /\ pc \in RmbSteps
  PROVE  /\ op' \in [Actors -> Op] /\ Known' /\ Quiet
         /\ \A b \in Actors : b # a => op'[b] = op[b]
         /\ op'[a].pc = pc /\ op'[a].kind = op[a].kind /\ op'[a].name = op[a].name
         /\ op'[a].val = op[a].val /\ op'[a].tmp = FALSE
<1>1. PICK o \in Op : o = op[a]
  OBVIOUS
<1>2. Fits(o)
  BY <1>1 DEF Known
<1>3. [o EXCEPT !.pc = pc] \in Op /\ At(o, pc, at) \in Op /\ Fits(At(o, pc, at))
  BY <1>1, <1>2, AtFits
<1>4. PICK q \in Op : q = At(o, pc, at)
  BY <1>3
<1>6. /\ q.pc = pc /\ q.kind = o.kind /\ q.name = o.name /\ q.val = o.val /\ q.tmp = o.tmp
  BY <1>3, <1>4, AtType
<1>7. op' = [op EXCEPT ![a] = q]
  BY <1>1, <1>4 DEF GotoAt
<1>8. /\ op' \in [Actors -> Op] /\ Known' /\ op'[a] = q
      /\ \A b \in Actors : b # a => op'[b] = op[b]
  BY <1>3, <1>4, <1>7, OpStep
<1>9. o.tmp \in BOOLEAN
  BY DEF Op
<1>10. QED
  BY <1>1, <1>6, <1>8, <1>9 DEF Quiet

\* A task's operation ends.
LEMMA FinishStep ==
  ASSUME Setting, NEW a \in Actors, op \in [Actors -> Op], Known, NEW res \in Results,
         Finish(a, res), op[a].pc # "idle"
  PROVE  /\ op' \in [Actors -> Op] /\ Known' /\ Quiet
         /\ \A b \in Actors : b # a => op'[b] = op[b]
         /\ op'[a].pc = "done" /\ op'[a].kind = op[a].kind /\ op'[a].name = op[a].name
         /\ op'[a].val = op[a].val /\ op'[a].tmp = FALSE /\ op'[a].res = res
<1>1. PICK o \in Op : o = op[a]
  OBVIOUS
<1>2. Fits(o)
  BY <1>1 DEF Known
<1>3. Done(o, res) \in Op /\ Fits(Done(o, res))
  BY <1>1, <1>2, DoneType, DoneFits
<1>4. PICK q \in Op : q = Done(o, res)
  BY <1>3
<1>5. /\ q.pc = "done" /\ q.res = res /\ q.tmp = FALSE
      /\ q.kind = o.kind /\ q.name = o.name /\ q.val = o.val
  BY <1>4, DoneType
<1>6. op' = [op EXCEPT ![a] = q]
  BY <1>1, <1>4 DEF Finish
<1>7. /\ op' \in [Actors -> Op] /\ Known' /\ op'[a] = q
      /\ \A b \in Actors : b # a => op'[b] = op[b]
  BY <1>3, <1>4, <1>6, OpStep
<1>8. QED
  BY <1>1, <1>5, <1>7 DEF Quiet

-----------------------------------------------------------------------------
(* The tree. *)

\* Directories may be added below what is there.
LEMMA TreeKept ==
  ASSUME Setting, TypeOK, NEW a \in Actors, op' \in [Actors -> Op], Quiet,
         tree' \in 0..Depth, tree' >= tree, residue' \subseteq residue,
         file' \in [Names -> Inode \cup {None}],
         \A n \in Names : file'[n] # None => Level[n] <= tree
  PROVE  TypeOK'
  BY DEF TypeOK, Setting, Quiet

\* The deepest directory may go if it is empty.
LEMMA TreeCut ==
  ASSUME Setting, TypeOK, NEW a \in Actors, op' \in [Actors -> Op], Quiet,
         NEW l \in Nat, l >= 1, CanRemove(l), tree' = l - 1, UNCHANGED <<file, residue>>
  PROVE  TypeOK'
<1>1. tree = l /\ l \notin residue
  BY DEF CanRemove, EmptyDir
<1>2. \A n \in Names : Level[n] = l => file[n] = None
  BY DEF CanRemove, EmptyDir, FilesAt
<1>3. \A b \in Actors : op[b].tmp => Level[op[b].name] # l
  BY DEF CanRemove, EmptyDir, Temps
<1>4. \A n \in Names : Level[n] \in Nat
  BY DEF Setting
<1>5. \A n \in Names : file'[n] # None => Level[n] <= tree'
  BY <1>1, <1>2, <1>4 DEF TypeOK
<1>6. \A b \in Actors : op'[b].tmp => op'[b].name \in Names /\ Level[op'[b].name] <= tree'
  BY <1>1, <1>3, <1>4 DEF TypeOK, Quiet
<1>7. tree' \in 0..Depth /\ residue' \subseteq 1..tree'
  BY <1>1 DEF TypeOK, Setting
<1>8. QED
  BY <1>5, <1>6, <1>7 DEF TypeOK

\* The walks are where they were, or one has moved to a directory below the bucket's.
LEMMA WalkKept ==
  ASSUME Walking, NEW a \in Actors, UNCHANGED walk,
         \A b \in Actors : b # a => op'[b].pc = op[b].pc,
         op'[a].pc \in {"look", "sweep", "rmsub"} => walk[a].base \in Nat /\ walk[a].base >= 2
  PROVE  Walking'
  BY DEF Walking

LEMMA WalkMoved ==
  ASSUME Walking, NEW a \in Actors, NEW l, NEW left, NEW kept,
         walk' = [walk EXCEPT ![a] = Walk(l, left, kept)],
         \A b \in Actors : b # a => op'[b].pc = op[b].pc,
         op'[a].pc \in {"look", "sweep", "rmsub"} => l \in Nat /\ l >= 2
  PROVE  Walking'
<1>1. walk' = [b \in Actors |-> walk'[b]]
  BY DEF Walking
<1>2. walk'[a].base = l
  BY DEF Walking, Walk
<1>3. \A b \in Actors : b # a => walk'[b] = walk[b]
  BY DEF Walking
<1>4. QED
  BY <1>1, <1>2, <1>3 DEF Walking

-----------------------------------------------------------------------------
(* IInv is inductive. *)

LEMMA InitInv ==
  ASSUME Setting, Init
  PROVE  IInv
<1>1. <<>> \in Seq(Start)
  OBVIOUS
<1>2. Idle \in Op
  BY <1>1 DEF Idle, Rest, Task, Op
<1>3. Idle.pc = "idle" /\ Idle.kind = None /\ Idle.tmp = FALSE
  BY DEF Idle, Rest, Task
<1>4. Fits(Idle)
  BY <1>3 DEF Fits, Setting, Kinds, PutSteps, LinkSteps, DelSteps, RmbSteps
<1>5. PICK i \in Op : i = Idle
  BY <1>2
<1>6. op = [a \in Actors |-> i] /\ Fits(i) /\ i.pc = "idle" /\ i.tmp = FALSE
  BY <1>3, <1>4, <1>5 DEF Init
<1>7. tree \in 0..Depth
  BY DEF Init, Setting
<1>8. TypeOK
  BY <1>6, <1>7 DEF Init, TypeOK
<1>9. Known
  BY <1>6 DEF Known
<1>10. Walking
  BY <1>6 DEF Walking, Init
<1>11. QED
  BY <1>8, <1>9, <1>10 DEF IInv

\* What is known of a task.
LEMMA TaskFacts ==
  ASSUME Setting, IInv, NEW a \in Actors
  PROVE  /\ op \in [Actors -> Op] /\ Known /\ op[a] \in Op /\ Fits(op[a]) /\ op[a].at \in Nat
         /\ op[a].pc # "persist" => ~op[a].tmp
         /\ op[a].pc # "idle" => op[a].kind \in Kinds
  BY DEF IInv, TypeOK, Known, Fits, Op

\* The names and directories of the tasks that have one.
LEMMA NameFacts ==
  ASSUME Setting, IInv, NEW a \in Actors, op[a].kind \in {"put", "link", "meta", "del"}
  PROVE  op[a].name \in Names /\ Here(a) \in Nat /\ Here(a) >= 2 /\ Here(a) <= Depth
  BY DEF IInv, Known, Fits, Here, Setting

\* The bucket's files and directories in numbers.
LEMMA TreeFacts ==
  ASSUME Setting, IInv
  PROVE  /\ tree \in Nat /\ tree <= Depth /\ Depth \in Nat
         /\ file \in [Names -> Inode \cup {None}]
         /\ \A n \in Names : file[n] # None => Level[n] <= tree
         /\ \A n \in Names : Level[n] \in Nat /\ Level[n] >= 2 /\ Level[n] <= Depth
  BY DEF IInv, TypeOK, Setting

\* A step to pc, or to the end, that leaves walks and files alone and removes no directory.
LEMMA PlainInv ==
  ASSUME Setting, IInv, NEW a \in Actors, op' \in [Actors -> Op], Known', Quiet,
         \A b \in Actors : b # a => op'[b] = op[b],
         op'[a].pc \notin {"look", "sweep", "rmsub"}, UNCHANGED walk,
         tree' \in 0..Depth, tree' >= tree, residue' \subseteq residue,
         file' \in [Names -> Inode \cup {None}],
         \A n \in Names : file'[n] # None => Level[n] <= tree
  PROVE  IInv'
<1>1. TypeOK'
  BY TreeKept DEF IInv
<1>2. Walking'
  BY WalkKept DEF IInv
<1>3. QED
  BY <1>1, <1>2 DEF IInv

\* The same when nothing on disk changes.
LEMMA StillInv ==
  ASSUME Setting, IInv, NEW a \in Actors, op' \in [Actors -> Op], Known', Quiet,
         \A b \in Actors : b # a => op'[b] = op[b],
         op'[a].pc \notin {"look", "sweep", "rmsub"}, UNCHANGED <<walk, tree, residue, file>>
  PROVE  IInv'
<1>1. tree \in 0..Depth /\ tree >= tree /\ tree' = tree
  BY TreeFacts
<1>2. file' \in [Names -> Inode \cup {None}] /\ \A n \in Names : file'[n] # None => Level[n] <= tree
  BY TreeFacts
<1>3. QED
  BY <1>1, <1>2, PlainInv

\* A request or the next operation of one.
LEMMA BeginInv ==
  ASSUME Setting, IInv, NEW a \in Actors, NEW o \in Start, NEW todo \in Seq(Start),
         op[a].pc = "idle", Begin(a, o, todo)
  PROVE  IInv'
<1>1. PICK q : q = Task(o.pc, o.kind, o.name, o.val, None, todo)
  OBVIOUS
<1>2. /\ q.pc = o.pc /\ q.kind = o.kind /\ q.name = o.name /\ q.val = o.val
      /\ q.tmp = FALSE
  BY <1>1 DEF Task
<1>3. Internal \subseteq Names /\ None \notin Kinds
  BY DEF Setting
<1>4. /\ o.pc \in {"require", "find", "mkb", "rmb"} /\ o.kind \in Kinds
      /\ o.name \in Names \cup {None} /\ o.val \in Vals \cup {None}
  BY <1>3 DEF Start, Kinds
<1>5. q \in Op
  BY <1>1, <1>4 DEF Task, Op, DelSteps, RmbSteps
<1>6. Fits(q)
  <2>1. /\ o.pc = "require" => /\ o.kind \in {"put", "link", "meta"}
                               /\ o.name \in Names /\ o.val \in Vals
        /\ o.pc = "find" => o.kind = "del" /\ o.name \in Names
        /\ o.pc = "mkb" => o.kind = "mkb"
        /\ o.pc = "rmb" => o.kind = "rmb"
        /\ o.kind = "link" => o.name \in Internal
    BY <1>3 DEF Start
  <2>2. QED
    BY <1>2, <1>3, <1>4, <2>1 DEF Fits, PutSteps, LinkSteps, DelSteps, RmbSteps
<1>7. op' = [op EXCEPT ![a] = q] /\ UNCHANGED <<walk, tree, residue, file>>
  BY <1>1 DEF Begin
<1>8. /\ op' \in [Actors -> Op] /\ Known' /\ op'[a] = q
      /\ \A b \in Actors : b # a => op'[b] = op[b]
  BY <1>5, <1>6, <1>7, OpStep, TaskFacts
<1>9. Quiet
  BY <1>2, <1>8 DEF Quiet
<1>10. QED
  BY <1>2, <1>4, <1>7, <1>8, <1>9, StillInv

LEMMA AskInv ==
  ASSUME Setting, IInv, NEW a \in Actors, Request(a) \/ Continue(a)
  PROVE  IInv'
<1>1. CASE Request(a)
  <2>1. PICK p \in Programs[a] : Begin(a, Head(p), Tail(p))
    BY <1>1 DEF Request
  <2>2. p \in Seq(Start) /\ p # <<>>
    BY DEF Setting, ProgramsFit
  <2>3. Head(p) \in Start /\ Tail(p) \in Seq(Start)
    BY <2>2
  <2>4. QED
    BY <1>1, <2>1, <2>3, BeginInv DEF Request
<1>2. CASE Continue(a)
  <2>1. op[a].todo \in Seq(Start) /\ op[a].todo # <<>>
    BY <1>2, TaskFacts DEF Continue, Op
  <2>2. Head(op[a].todo) \in Start /\ Tail(op[a].todo) \in Seq(Start)
    BY <2>1
  <2>3. QED
    BY <1>2, <2>2, BeginInv DEF Continue
<1>3. QED
  BY <1>1, <1>2

\* The answer goes out.
LEMMA ReturnInv ==
  ASSUME Setting, IInv, NEW a \in Actors, Return(a)
  PROVE  IInv'
<1>1. op[a].todo \in Seq(Start)
  BY TaskFacts DEF Op
<1>2. PICK q : q = Rest(op[a].todo)
  OBVIOUS
<1>3. q.pc = "idle" /\ q.kind = None /\ q.tmp = FALSE
  BY <1>2 DEF Rest, Task
<1>4. q \in Op
  BY <1>1, <1>2 DEF Rest, Task, Op
<1>5. Fits(q)
  BY <1>3 DEF Fits, Setting, Kinds, PutSteps, LinkSteps, DelSteps, RmbSteps
<1>6. op' = [op EXCEPT ![a] = q] /\ UNCHANGED <<tree, residue, file>>
  BY <1>2 DEF Return
<1>7. /\ op' \in [Actors -> Op] /\ Known' /\ op'[a] = q
      /\ \A b \in Actors : b # a => op'[b] = op[b]
  BY <1>4, <1>5, <1>6, OpStep, TaskFacts
<1>8. Quiet
  BY <1>3, <1>7 DEF Quiet
<1>9. tree' \in 0..Depth /\ tree' >= tree /\ residue' \subseteq residue
      /\ file' \in [Names -> Inode \cup {None}]
      /\ \A n \in Names : file'[n] # None => Level[n] <= tree
  BY <1>6, TreeFacts
<1>10. TypeOK'
  BY <1>7, <1>8, <1>9, TreeKept DEF IInv
<1>11. Walking'
  BY <1>3, <1>7, WalkMoved DEF IInv, Return, NoWalk
<1>12. QED
  BY <1>7, <1>10, <1>11 DEF IInv

\* The bucket is there, or the operation fails.
LEMMA RequireInv ==
  ASSUME Setting, IInv, NEW a \in Actors, require_bucket_exists(a) \/ ensure_dir(a)
  PROVE  IInv'
<1> USE TaskFacts
<1>1. UNCHANGED <<walk, tree, residue, file>>
  BY DEF require_bucket_exists, ensure_dir, NoWalking
<1>2. CASE Finish(a, "nobucket")
  BY <1>1, <1>2, FinishStep, StillInv DEF require_bucket_exists, ensure_dir, Results
<1>3. CASE require_bucket_exists(a) /\ tree # 0
  <2>1. op[a].kind \in {"put", "link", "meta"} /\ ~op[a].tmp /\ op[a].kind # None
    BY <1>3 DEF require_bucket_exists, Fits, Setting, Kinds
  <2>2. PICK pc : /\ GotoAt(a, pc, op[a].at)
                  /\ \/ op[a].kind = "put" /\ pc = "isdir"
                     \/ op[a].kind = "link" /\ pc = "mkdirs"
                     \/ op[a].kind = "meta" /\ pc = "attr"
    BY <1>3, <2>1 DEF require_bucket_exists, Goto
  <2>3. QED
    BY <1>1, <2>1, <2>2, GotoStep, StillInv DEF LinkSteps
<1>4. CASE ensure_dir(a) /\ tree # 0
  <2>1. op[a].kind = "put" /\ ~op[a].tmp /\ op[a].kind # None /\ op \in [Actors -> Op] /\ Known
    BY <1>4 DEF ensure_dir, Fits, Setting, Kinds, PutSteps
  <2>2. 2 \in Nat /\ 2 \in 2..Level[op[a].name]
    BY <2>1, NameFacts DEF Here
  <2>3. PICK l \in Nat : l \in 2..Level[op[a].name] /\ GotoAt(a, "mkdir", l)
    BY <1>4, <2>2 DEF ensure_dir
  <2>4. /\ op' \in [Actors -> Op] /\ Known' /\ Quiet
        /\ \A b \in Actors : b # a => op'[b] = op[b]
        /\ op'[a].pc = "mkdir"
    BY <2>1, <2>3, GotoStep
  <2>5. QED
    BY <1>1, <2>4, StillInv
<1>5. QED
  BY <1>2, <1>3, <1>4 DEF require_bucket_exists, ensure_dir

\* One directory of put's path.
LEMMA CreateDirInv ==
  ASSUME Setting, IInv, NEW a \in Actors, create_dir(a)
  PROVE  IInv'
<1> USE TaskFacts
<1>1. /\ op[a].kind = "put" /\ ~op[a].tmp /\ op[a].kind # None /\ op[a].at \in 2..Here(a)
      /\ op[a].pc = "mkdir"
  BY DEF create_dir, Fits, Setting, Kinds, PutSteps, Here
<1>2. Here(a) \in Nat /\ Here(a) <= Depth
  BY <1>1, NameFacts
<1>3. UNCHANGED <<walk, residue, file>>
  BY DEF create_dir, NoWalking
<1>4. /\ file' \in [Names -> Inode \cup {None}] /\ residue' \subseteq residue
      /\ \A n \in Names : file'[n] # None => Level[n] <= tree
  BY <1>3, TreeFacts
<1>5. CASE Finish(a, "nobucket") /\ UNCHANGED tree
  BY <1>1, <1>3, <1>5, FinishStep, StillInv DEF Results
<1>6. CASE /\ op[a].at <= tree \/ MakeDir(op[a].at)
           /\ op[a].at <= tree => UNCHANGED tree
           /\ GotoAt(a, IF op[a].at = Here(a) THEN "temp" ELSE "mkdir", op[a].at + 1)
  <2>1. tree' \in 0..Depth /\ tree' >= tree
    BY <1>1, <1>2, <1>6, TreeFacts DEF MakeDir
  <2>2. PICK pc : /\ GotoAt(a, pc, op[a].at + 1)
                  /\ \/ pc = "temp"
                     \/ pc = "mkdir" /\ op[a].at + 1 \in 2..Level[op[a].name]
    BY <1>1, <1>2, <1>6 DEF Here
  <2>3. op[a].at + 1 \in Nat /\ pc \in {"temp", "mkdir"}
    BY <2>2
  <2>4. QED
    BY <1>1, <1>3, <1>4, <2>1, <2>2, <2>3, GotoStep, PlainInv
<1>7. QED
  BY <1>1, <1>2, <1>5, <1>6, TreeFacts DEF create_dir

\* The temporary file.
LEMMA TempInv ==
  ASSUME Setting, IInv, NEW a \in Actors, atomic_write_with_metadata(a)
  PROVE  IInv'
<1>1. /\ op[a].kind = "put" /\ ~op[a].tmp /\ op[a].kind # None /\ op[a].pc = "temp"
      /\ op[a] \in Op /\ Fits(op[a]) /\ op \in [Actors -> Op] /\ Known
  BY TaskFacts DEF atomic_write_with_metadata, Fits, Setting, Kinds, PutSteps
<1>2. UNCHANGED <<walk, tree, residue, file>>
  BY DEF atomic_write_with_metadata, NoWalking
<1>3. CASE Finish(a, "error")
  BY <1>1, <1>2, <1>3, FinishStep, StillInv DEF Results
<1>4. CASE /\ ~(tree < Here(a))
           /\ op' = [op EXCEPT ![a] = [op[a] EXCEPT !.pc = "persist", !.tmp = TRUE]]
  <2>1. PICK o \in Op : o = op[a]
    BY <1>1
  <2>2. PICK q \in Op : q = [o EXCEPT !.pc = "persist", !.tmp = TRUE]
    BY DEF Op, PutSteps
  <2>3. /\ q.pc = "persist" /\ q.tmp = TRUE /\ q.kind = o.kind /\ q.name = o.name
        /\ q.val = o.val
    BY <2>2 DEF Op
  <2>4. Fits(q)
    BY <1>1, <2>1, <2>3 DEF Fits, PutSteps, LinkSteps, DelSteps, RmbSteps
  <2>5. op' = [op EXCEPT ![a] = q]
    BY <1>4, <2>1, <2>2
  <2>6. /\ op' \in [Actors -> Op] /\ Known' /\ op'[a] = q
        /\ \A b \in Actors : b # a => op'[b] = op[b]
    BY <1>1, <2>4, <2>5, OpStep
  <2>7. op[a].name \in Names /\ Level[op[a].name] <= tree
    BY <1>1, <1>4, NameFacts, TreeFacts DEF Here
  <2>8. TypeOK'
    BY <1>2, <2>1, <2>3, <2>6, <2>7 DEF IInv, TypeOK
  <2>9. Walking'
    BY <1>2, <2>3, <2>6, WalkKept DEF IInv
  <2>10. QED
    BY <2>6, <2>8, <2>9 DEF IInv
<1>5. QED
  BY <1>3, <1>4 DEF atomic_write_with_metadata

\* A file is written, linked or relabelled in a directory that exists.
LEMMA WrittenFile ==
  ASSUME Setting, IInv, NEW n \in Names, NEW v \in Inode \cup {None},
         v # None => Level[n] <= tree, file' = [file EXCEPT ![n] = v]
  PROVE  /\ file' \in [Names -> Inode \cup {None}]
         /\ \A k \in Names : file'[k] # None => Level[k] <= tree
  BY TreeFacts

LEMMA PersistInv ==
  ASSUME Setting, IInv, NEW a \in Actors, persist(a)
  PROVE  IInv'
<1>1. /\ op[a].kind = "put" /\ op[a].pc = "persist" /\ op[a].val \in Vals
      /\ op[a] \in Op /\ Fits(op[a]) /\ op \in [Actors -> Op] /\ Known
  BY TaskFacts DEF persist, Fits, PutSteps
<1>2. UNCHANGED <<walk, tree, residue>>
  BY DEF persist, NoWalking
<1>3. CASE ~op[a].tmp
  BY <1>1, <1>2, <1>3, FinishStep, StillInv DEF persist, Results
<1>4. CASE op[a].tmp
  <2>1. op[a].name \in Names /\ Level[op[a].name] <= tree
    BY <1>4 DEF IInv, TypeOK
  <2>2. Persisted(a) \in Inode
    BY <1>1 DEF Persisted, Inode
  <2>3. file' = [file EXCEPT ![op[a].name] = Persisted(a)] /\ Finish(a, "ok")
    BY <1>4 DEF persist
  <2>4. /\ file' \in [Names -> Inode \cup {None}]
        /\ \A k \in Names : file'[k] # None => Level[k] <= tree
    BY <2>1, <2>2, <2>3, WrittenFile
  <2>5. tree' \in 0..Depth /\ tree' >= tree /\ residue' \subseteq residue
    BY <1>2, TreeFacts
  <2>6. QED
    BY <1>1, <1>2, <2>3, <2>4, <2>5, FinishStep, PlainInv DEF Results
<1>5. QED
  BY <1>3, <1>4

\* The steps of put_reference_from_file.
LEMMA LinkInv ==
  ASSUME Setting, IInv, NEW a \in Actors,
         create_dir_all(a) \/ unlink_destination(a) \/ hardlink_or_copy(a)
  PROVE  IInv'
<1>1. /\ op[a].kind = "link" /\ op[a].pc \in LinkSteps /\ op[a].val \in Vals
      /\ ~op[a].tmp /\ op[a].kind # None /\ op[a].at \in Nat
      /\ op[a] \in Op /\ op \in [Actors -> Op] /\ Known
  BY TaskFacts DEF create_dir_all, unlink_destination, hardlink_or_copy, Fits, LinkSteps,
                   Setting, Kinds
<1>2. op[a].name \in Names /\ Here(a) \in Nat /\ Here(a) >= 2 /\ Here(a) <= Depth
  BY <1>1, NameFacts
<1>3. UNCHANGED <<walk, residue>>
  BY DEF create_dir_all, unlink_destination, hardlink_or_copy, NoWalking
<1>4. CASE Finish(a, "error") /\ UNCHANGED <<tree, file>>
  BY <1>1, <1>3, <1>4, FinishStep, StillInv DEF Results, LinkSteps
<1>5. ASSUME NEW pc \in {"unlink", "link", "attr"}, Goto(a, pc),
             tree' \in 0..Depth, tree' >= tree,
             file' \in [Names -> Inode \cup {None}],
             \A n \in Names : file'[n] # None => Level[n] <= tree
      PROVE  IInv'
  <2>1. /\ op' \in [Actors -> Op] /\ Known' /\ Quiet
        /\ \A b \in Actors : b # a => op'[b] = op[b]
        /\ op'[a].pc = pc
    BY <1>1, <1>5, GotoStep DEF Goto, LinkSteps
  <2>2. QED
    BY <1>3, <1>5, <2>1, PlainInv
<1>6. CASE create_dir_all(a)
  <2>1. tree' \in 0..Depth /\ tree' >= tree
    BY <1>2, <1>6, TreeFacts DEF create_dir_all
  <2>2. /\ file' \in [Names -> Inode \cup {None}]
        /\ \A n \in Names : file'[n] # None => Level[n] <= tree
    BY <1>6, TreeFacts DEF create_dir_all
  <2>3. Goto(a, "unlink")
    BY <1>6 DEF create_dir_all
  <2>4. QED
    BY <1>5, <2>1, <2>2, <2>3
<1>7. CASE unlink_destination(a)
  <2>1. /\ file' \in [Names -> Inode \cup {None}]
        /\ \A n \in Names : file'[n] # None => Level[n] <= tree
    BY <1>2, <1>7, WrittenFile DEF unlink_destination
  <2>2. Goto(a, "link") /\ tree' \in 0..Depth /\ tree' >= tree
    BY <1>7, TreeFacts DEF unlink_destination
  <2>3. QED
    BY <1>5, <2>1, <2>2
<1>8. CASE hardlink_or_copy(a) /\ ~(tree < Here(a))
  <2>1. PICK v : /\ v = [data |-> op[a].val,
                         meta |-> IF file[op[a].name] = None THEN None
                                  ELSE file[op[a].name].meta]
                 /\ file' = [file EXCEPT ![op[a].name] = v] /\ Goto(a, "attr")
    BY <1>8 DEF hardlink_or_copy
  <2>2. v \in Inode
    BY <1>1, <1>2, <2>1, TreeFacts DEF Inode
  <2>3. Level[op[a].name] <= tree
    BY <1>2, <1>8, TreeFacts DEF Here
  <2>4. /\ file' \in [Names -> Inode \cup {None}]
        /\ \A n \in Names : file'[n] # None => Level[n] <= tree
    BY <1>2, <2>1, <2>2, <2>3, WrittenFile
  <2>5. tree' \in 0..Depth /\ tree' >= tree
    BY <1>8, TreeFacts DEF hardlink_or_copy
  <2>6. QED
    BY <1>5, <2>1, <2>4, <2>5
<1>9. QED
  BY <1>4, <1>6, <1>7, <1>8 DEF hardlink_or_copy

\* The attribute of a file that is there.
LEMMA Relabelled ==
  ASSUME Setting, IInv, NEW n \in Names, file[n] # None, NEW v \in Vals,
         file' = [file EXCEPT ![n].meta = v]
  PROVE  /\ file' = [file EXCEPT ![n] = [data |-> file[n].data, meta |-> v]]
         /\ file' \in [Names -> Inode \cup {None}]
         /\ \A k \in Names : file'[k] # None => Level[k] <= tree
<1>1. file[n] \in Inode /\ Level[n] <= tree
  BY TreeFacts
<1>2. [file[n] EXCEPT !.meta = v] = [data |-> file[n].data, meta |-> v]
  BY <1>1 DEF Inode
<1>3. PICK w \in Inode : w = [data |-> file[n].data, meta |-> v]
  BY <1>1 DEF Inode
<1>4. file' = [file EXCEPT ![n] = w]
  BY <1>2, <1>3
<1>5. QED
  BY <1>1, <1>3, <1>4, WrittenFile

LEMMA AttrInv ==
  ASSUME Setting, IInv, NEW a \in Actors, write_metadata(a)
  PROVE  IInv'
<1>1. /\ op[a].kind \in {"link", "meta"} /\ op[a].pc = "attr" /\ op[a].val \in Vals
      /\ op[a].name \in Names /\ op[a] \in Op /\ op \in [Actors -> Op] /\ Known
  BY TaskFacts DEF write_metadata, Fits
<1>2. UNCHANGED <<walk, tree, residue>>
  BY DEF write_metadata, NoWalking
<1>3. CASE file[op[a].name] = None
  BY <1>1, <1>2, <1>3, FinishStep, StillInv DEF write_metadata, Results
<1>4. CASE file[op[a].name] # None
  <2>1. file' = [file EXCEPT ![op[a].name].meta = op[a].val] /\ Finish(a, "ok")
    BY <1>4 DEF write_metadata
  <2>2. /\ file' \in [Names -> Inode \cup {None}]
        /\ \A n \in Names : file'[n] # None => Level[n] <= tree
    BY <1>1, <1>4, <2>1, Relabelled
  <2>3. tree' \in 0..Depth /\ tree' >= tree /\ residue' \subseteq residue
    BY <1>2, TreeFacts
  <2>4. QED
    BY <1>1, <1>2, <2>1, <2>2, <2>3, FinishStep, PlainInv DEF Results
<1>5. QED
  BY <1>3, <1>4

\* The deletion of a file.
LEMMA DeleteInv ==
  ASSUME Setting, IInv, NEW a \in Actors, delete_object_file(a)
  PROVE  IInv'
<1>1. /\ op[a].kind = "del" /\ op[a].pc \in {"find", "remove"} /\ op[a].name \in Names
      /\ ~op[a].tmp /\ op[a].kind # None /\ op[a].at \in Nat
      /\ op[a] \in Op /\ op \in [Actors -> Op] /\ Known
  BY TaskFacts DEF delete_object_file, Fits, DelSteps, Setting, Kinds
<1>2. UNCHANGED <<walk, tree, residue>> /\ tree' \in 0..Depth /\ tree' >= tree
  BY TreeFacts DEF delete_object_file, NoWalking
<1>3. CASE Finish(a, "nokey") /\ UNCHANGED file
  BY <1>1, <1>2, <1>3, FinishStep, StillInv DEF Results
<1>4. CASE Goto(a, "remove") /\ UNCHANGED file
  BY <1>1, <1>2, <1>4, GotoStep, StillInv DEF Goto, DelSteps
<1>5. CASE file' = [file EXCEPT ![op[a].name] = None] /\ GotoAt(a, "prune", Here(a))
  <2>1. /\ file' \in [Names -> Inode \cup {None}]
        /\ \A n \in Names : file'[n] # None => Level[n] <= tree
    BY <1>1, <1>5, WrittenFile
  <2>2. Here(a) \in Nat
    BY <1>1, NameFacts
  <2>3. /\ op' \in [Actors -> Op] /\ Known' /\ Quiet
        /\ \A b \in Actors : b # a => op'[b] = op[b]
        /\ op'[a].pc = "prune"
    BY <1>1, <1>5, <2>2, GotoStep DEF DelSteps
  <2>4. QED
    BY <1>2, <2>1, <2>3, PlainInv
<1>6. QED
  BY <1>1, <1>3, <1>4, <1>5 DEF delete_object_file

\* The directories that are empty after it.
LEMMA PruneInv ==
  ASSUME Setting, IInv, NEW a \in Actors, prune_empty_dirs(a)
  PROVE  IInv'
<1>1. /\ op[a].kind = "del" /\ op[a].pc = "prune" /\ op[a].name \in Names
      /\ ~op[a].tmp /\ op[a].kind # None /\ op[a].at \in Nat
      /\ op[a] \in Op /\ op \in [Actors -> Op] /\ Known
  BY TaskFacts DEF prune_empty_dirs, Fits, DelSteps, Setting, Kinds
<1>2. UNCHANGED <<walk, file, residue>>
  BY DEF prune_empty_dirs, NoWalking
<1>3. CASE (Finish(a, "ok") \/ Finish(a, "unpruned")) /\ UNCHANGED tree
  BY <1>1, <1>2, <1>3, FinishStep, StillInv DEF Results
<1>4. CASE /\ op[a].at > 2 /\ (tree < op[a].at \/ CanRemove(op[a].at))
           /\ tree' = IF tree < op[a].at THEN tree ELSE op[a].at - 1
           /\ GotoAt(a, "prune", op[a].at - 1)
  <2>1. op[a].at - 1 \in Nat
    BY <1>1, <1>4
  <2>2. /\ op' \in [Actors -> Op] /\ Known' /\ Quiet
        /\ \A b \in Actors : b # a => op'[b] = op[b]
        /\ op'[a].pc = "prune"
    BY <1>1, <1>4, <2>1, GotoStep DEF DelSteps
  <2>3. CASE tree < op[a].at
    BY <1>2, <1>4, <2>2, <2>3, StillInv
  <2>4. CASE ~(tree < op[a].at)
    <3>1. TypeOK'
      BY <1>1, <1>2, <1>4, <2>2, <2>4, TreeCut DEF IInv
    <3>2. Walking'
      BY <1>2, <2>2, WalkKept DEF IInv
    <3>3. QED
      BY <2>2, <3>1, <3>2 DEF IInv
  <2>5. QED
    BY <2>3, <2>4
<1>5. QED
  BY <1>3, <1>4 DEF prune_empty_dirs

LEMMA CreateBucketInv ==
  ASSUME Setting, IInv, NEW a \in Actors, create_bucket(a)
  PROVE  IInv'
<1>1. /\ op[a].pc = "mkb" /\ op \in [Actors -> Op] /\ Known
  BY TaskFacts DEF create_bucket
<1>2. UNCHANGED <<walk, file, residue>> /\ Finish(a, "ok")
  BY DEF create_bucket, NoWalking
<1>3. tree' \in 0..Depth /\ tree' >= tree
  BY TreeFacts DEF create_bucket, Setting
<1>4. file' \in [Names -> Inode \cup {None}] /\ \A n \in Names : file'[n] # None => Level[n] <= tree
  BY <1>2, TreeFacts
<1>5. QED
  BY <1>1, <1>2, <1>3, <1>4, FinishStep, PlainInv DEF Results

\* A step of a deletion of the bucket keeps its walk below the bucket's directory.
Roams(a) ==
    \/ UNCHANGED walk /\ op'[a].pc \notin {"look", "sweep", "rmsub"}
    \/ UNCHANGED walk /\ op[a].pc \in {"look", "sweep", "rmsub"}
    \/ \E l \in Nat : /\ op'[a].pc \in {"look", "sweep", "rmsub"} => l >= 2
                      /\ \E left, kept : walk' = [walk EXCEPT ![a] = Walk(l, left, kept)]

LEMMA RoamInv ==
  ASSUME IInv, NEW a \in Actors, Roams(a), TypeOK', Known',
         \A b \in Actors : b # a => op'[b].pc = op[b].pc
  PROVE  IInv'
<1>1. CASE UNCHANGED walk
  <2>1. op'[a].pc \in {"look", "sweep", "rmsub"} => walk[a].base \in Nat /\ walk[a].base >= 2
    <3>1. CASE op'[a].pc \notin {"look", "sweep", "rmsub"}
      BY <3>1
    <3>2. CASE op[a].pc \in {"look", "sweep", "rmsub"}
      BY <3>2 DEF IInv, Walking
    <3>3. CASE \E l \in Nat : /\ op'[a].pc \in {"look", "sweep", "rmsub"} => l >= 2
                              /\ \E left, kept : walk' = [walk EXCEPT ![a] = Walk(l, left, kept)]
      <4>1. PICK l \in Nat : /\ op'[a].pc \in {"look", "sweep", "rmsub"} => l >= 2
                             /\ \E left, kept : walk' = [walk EXCEPT ![a] = Walk(l, left, kept)]
        BY <3>3
      <4>2. PICK left, kept : walk' = [walk EXCEPT ![a] = Walk(l, left, kept)]
        BY <4>1
      <4>3. walk[a].base = l
        BY <1>1, <4>2 DEF IInv, Walking, Walk
      <4>4. QED
        BY <4>1, <4>3
    <3>4. QED
      BY <3>1, <3>2, <3>3 DEF Roams
  <2>2. Walking'
    BY <1>1, <2>1, WalkKept DEF IInv
  <2>3. QED
    BY <2>2 DEF IInv
<1>2. CASE \E l \in Nat : /\ op'[a].pc \in {"look", "sweep", "rmsub"} => l >= 2
                          /\ \E left, kept : walk' = [walk EXCEPT ![a] = Walk(l, left, kept)]
  <2>1. PICK l \in Nat : /\ op'[a].pc \in {"look", "sweep", "rmsub"} => l >= 2
                         /\ \E left, kept : walk' = [walk EXCEPT ![a] = Walk(l, left, kept)]
    BY <1>2
  <2>2. PICK left, kept : walk' = [walk EXCEPT ![a] = Walk(l, left, kept)]
    BY <2>1
  <2>3. Walking'
    BY <2>1, <2>2, WalkMoved DEF IInv
  <2>4. QED
    BY <2>3 DEF IInv
<1>3. QED
  BY <1>1, <1>2 DEF Roams

\* What a deletion of the bucket does to its own record and walk.
Deleting(a) ==
    /\ op' \in [Actors -> Op] /\ Known' /\ Quiet
    /\ \A b \in Actors : b # a => op'[b] = op[b]
    /\ op'[a].kind = op[a].kind /\ op'[a].name = op[a].name /\ op'[a].val = op[a].val
    /\ op'[a].pc = "done" => op'[a].res \notin {"ok", "unpruned"}
    /\ op'[a].pc # "prune" /\ Roams(a)

\* It is its own task.
LEMMA RmbFacts ==
  ASSUME Setting, IInv, NEW a \in Actors, op[a].pc \in RmbSteps
  PROVE  /\ op[a].kind = "rmb" /\ ~op[a].tmp /\ op[a].kind # None /\ op[a].at \in Nat
         /\ op \in [Actors -> Op] /\ Known
         /\ op[a].pc \in {"look", "sweep", "rmsub"} => walk[a].base \in Nat /\ walk[a].base >= 2
<1>1. op[a].pc # "persist"
  BY DEF RmbSteps
<1>2. QED
  BY <1>1, TaskFacts DEF Fits, Setting, Kinds, IInv, Walking

LEMMA RmbGoto ==
  ASSUME Setting, IInv, NEW a \in Actors, op[a].pc \in RmbSteps,
         NEW pc \in RmbSteps, NEW at \in Nat, GotoAt(a, pc, at),
         \/ UNCHANGED walk /\ pc \notin {"look", "sweep", "rmsub"}
         \/ UNCHANGED walk /\ op[a].pc \in {"look", "sweep", "rmsub"}
         \/ \E l \in Nat : /\ pc \in {"look", "sweep", "rmsub"} => l >= 2
                           /\ \E left, kept : walk' = [walk EXCEPT ![a] = Walk(l, left, kept)]
  PROVE  Deleting(a)
<1>1. pc \notin {"idle", "done", "persist", "prune"}
  BY DEF RmbSteps
<1>2. /\ op[a].kind = "rmb" /\ ~op[a].tmp /\ op[a].kind # None
      /\ op \in [Actors -> Op] /\ Known
  BY RmbFacts
<1>3. /\ op' \in [Actors -> Op] /\ Known' /\ Quiet
      /\ \A b \in Actors : b # a => op'[b] = op[b]
      /\ op'[a].pc = pc /\ op'[a].kind = op[a].kind /\ op'[a].name = op[a].name
      /\ op'[a].val = op[a].val
  BY <1>1, <1>2, GotoStep
<1>4. Roams(a)
  BY <1>3 DEF Roams
<1>5. QED
  BY <1>1, <1>3, <1>4 DEF Deleting

LEMMA RmbFinish ==
  ASSUME Setting, IInv, NEW a \in Actors, op[a].pc \in RmbSteps,
         NEW res \in Results \ {"ok", "unpruned"}, Finish(a, res), UNCHANGED walk
  PROVE  Deleting(a)
<1>1. op \in [Actors -> Op] /\ Known /\ op[a].pc # "idle" /\ res \in Results
  BY RmbFacts DEF RmbSteps
<1>2. /\ op' \in [Actors -> Op] /\ Known' /\ Quiet
      /\ \A b \in Actors : b # a => op'[b] = op[b]
      /\ op'[a].pc = "done" /\ op'[a].kind = op[a].kind /\ op'[a].name = op[a].name
      /\ op'[a].val = op[a].val /\ op'[a].res = res
  BY <1>1, FinishStep
<1>3. QED
  BY <1>2 DEF Deleting, Roams

\* The walk over one directory is over.
LEMMA WalkedSteps ==
  ASSUME Setting, IInv, NEW a \in Actors, op[a].pc \in {"look", "sweep"},
         NEW empty \in BOOLEAN, Walked(a, walk[a].base, empty)
  PROVE  Deleting(a)
<1>1. op[a].pc \in RmbSteps
  BY DEF RmbSteps
<1>2. PICK l \in Nat : l >= 2 /\ l = walk[a].base
  BY <1>1, RmbFacts
<1>3. op[a].at \in Nat
  BY <1>1, RmbFacts
<1>4. CASE l = 2 /\ Finish(a, "notempty") /\ UNCHANGED walk
  BY <1>1, <1>4, RmbFinish DEF Results
<1>5. CASE l = 2 /\ Goto(a, "rmds") /\ UNCHANGED walk
  <2>1. "rmds" \in RmbSteps /\ "rmds" \notin {"look", "sweep", "rmsub"}
    BY DEF RmbSteps
  <2>2. QED
    BY <1>1, <1>3, <1>5, <2>1, RmbGoto DEF Goto
<1>6. CASE l # 2
  <2>1. l - 1 \in Nat /\ l - 1 >= 2
    BY <1>2, <1>6
  <2>2. PICK pc \in {"rmsub", "sweep"} : Goto(a, pc)
    BY <1>2, <1>6 DEF Walked
  <2>3. \E left, kept : walk' = [walk EXCEPT ![a] = Walk(l - 1, left, kept)]
    BY <1>2, <1>6 DEF Walked
  <2>4. pc \in RmbSteps
    BY DEF RmbSteps
  <2>5. QED
    BY <1>1, <1>3, <2>1, <2>2, <2>3, <2>4, RmbGoto DEF Goto
<1>7. QED
  BY <1>2, <1>4, <1>5, <1>6 DEF Walked

\* A step of the deletion that takes away no file and no directory.
LEMMA DeletingInv ==
  ASSUME Setting, IInv, NEW a \in Actors, Deleting(a), UNCHANGED <<tree, file>>,
         residue' \subseteq residue
  PROVE  IInv'
<1>1. tree' \in 0..Depth /\ tree' >= tree /\ file' \in [Names -> Inode \cup {None}]
      /\ \A n \in Names : file'[n] # None => Level[n] <= tree
  BY TreeFacts
<1>2. TypeOK'
  BY <1>1, TreeKept DEF IInv, Deleting
<1>3. QED
  BY <1>2, RoamInv DEF Deleting

\* The steps of delete_bucket up to the walk, and the look into a directory.
LEMMA LookDeletes ==
  ASSUME Setting, IInv, NEW a \in Actors,
         delete_bucket(a) \/ dir_has_visible_data_recursive(a)
  PROVE  Deleting(a) /\ UNCHANGED <<tree, file, residue>>
<1>1. op[a].pc \in RmbSteps /\ UNCHANGED <<tree, file, residue>>
  BY DEF delete_bucket, dir_has_visible_data_recursive, RmbSteps
<1>2. /\ op[a].at \in Nat
      /\ op[a].pc \in {"look", "sweep", "rmsub"} => walk[a].base \in Nat /\ walk[a].base >= 2
  BY <1>1, RmbFacts
<1>3. "deltaspaces" \in RmbSteps /\ "root" \in RmbSteps /\ "look" \in RmbSteps /\ "sweep" \in RmbSteps
  BY DEF RmbSteps
<1>4. CASE Finish(a, "nobucket") /\ UNCHANGED walk
  BY <1>1, <1>4, RmbFinish DEF Results
<1>5. CASE Goto(a, "deltaspaces") /\ UNCHANGED walk
  BY <1>1, <1>2, <1>3, <1>5, RmbGoto DEF Goto
<1>6. CASE /\ GotoAt(a, IF tree < 2 THEN "root" ELSE "look", 2)
           /\ walk' = [walk EXCEPT ![a] = Walk(2, walk[a].left, walk[a].kept)]
  <2>1. PICK l \in Nat, pc \in RmbSteps : /\ l = 2 /\ GotoAt(a, pc, l)
    BY <1>3, <1>6
  <2>2. \E left, kept : walk' = [walk EXCEPT ![a] = Walk(l, left, kept)]
    BY <1>6, <2>1
  <2>3. l >= 2
    BY <2>1
  <2>4. QED
    BY <1>1, <2>1, <2>2, <2>3, RmbGoto
<1>7. CASE dir_has_visible_data_recursive(a)
  <2>1. op[a].pc = "look"
    BY <1>7 DEF dir_has_visible_data_recursive
  <2>2. CASE Walked(a, walk[a].base, TRUE) \/ Walked(a, walk[a].base, FALSE)
    BY <1>1, <2>1, <2>2, WalkedSteps
  <2>3. CASE GotoAt(a, "look", op[a].at + 1) /\ UNCHANGED walk
    <3>1. PICK m \in Nat : GotoAt(a, "look", m)
      BY <1>2, <2>3
    <3>2. QED
      BY <1>1, <1>3, <2>1, <2>3, <3>1, RmbGoto
  <2>4. CASE /\ Goto(a, "sweep")
             /\ \E left, kept : walk' = [walk EXCEPT ![a] = Walk(walk[a].base, left, kept)]
    <3>1. PICK l \in Nat : l = walk[a].base /\ l >= 2
      BY <1>2, <2>1
    <3>2. QED
      BY <1>1, <1>2, <1>3, <2>4, <3>1, RmbGoto DEF Goto
  <2>5. QED
    BY <1>7, <2>2, <2>3, <2>4 DEF dir_has_visible_data_recursive
<1>8. QED
  BY <1>4, <1>5, <1>6, <1>7 DEF delete_bucket

\* What a step of the sweep does: a step of the walk, or one entry of the directory.
Swept(a) ==
    \/ Deleting(a) /\ UNCHANGED <<file, residue>>
    \/ UNCHANGED op /\ residue' \subseteq residue /\ UNCHANGED file
    \/ UNCHANGED op /\ residue' = residue
       /\ \E e \in Names : file' = [file EXCEPT ![e] = IF e \in Internal THEN None ELSE @]
    \/ UNCHANGED <<file, residue>>
       /\ \E e \in Actors : op' = [op EXCEPT ![e] = [op[e] EXCEPT !.tmp = FALSE]]

LEMMA SweepSteps ==
  ASSUME Setting, IInv, NEW a \in Actors, prune_invisible_data_recursive(a)
  PROVE  /\ op[a].pc = "sweep" /\ UNCHANGED tree /\ Swept(a)
         /\ \/ Deleting(a)
            \/ \E l \in Nat : /\ l >= 2
                              /\ \E left, kept : walk' = [walk EXCEPT ![a] = Walk(l, left, kept)]
<1>1. op[a].pc = "sweep" /\ op[a].pc \in RmbSteps /\ "look" \in RmbSteps /\ UNCHANGED tree
  BY DEF prune_invisible_data_recursive, RmbSteps
<1>2. PICK l \in Nat : l = walk[a].base /\ l >= 2
  BY <1>1, RmbFacts
<1>3. CASE Walked(a, l, ~walk[a].kept[l]) /\ UNCHANGED <<file, residue>>
  <2>1. PICK e \in BOOLEAN : Walked(a, l, e)
    <3>1. (~walk[a].kept[l]) \in BOOLEAN
      OBVIOUS
    <3>2. QED
      BY <1>3, <3>1
  <2>2. Deleting(a)
    BY <1>1, <1>2, <2>1, WalkedSteps
  <2>3. QED
    BY <1>1, <1>3, <2>2 DEF Swept
<1>4. CASE /\ GotoAt(a, "look", l + 1)
           /\ walk' = [walk EXCEPT ![a] = Walk(l + 1, [walk[a].left EXCEPT ![l] = @ \ {"sub"}],
                                                walk[a].kept)]
           /\ UNCHANGED <<file, residue>>
  <2>1. PICK m \in Nat : m = l + 1 /\ m >= 2
    BY <1>2
  <2>2. GotoAt(a, "look", m) /\ \E left, kept : walk' = [walk EXCEPT ![a] = Walk(m, left, kept)]
    BY <1>4, <2>1
  <2>3. Deleting(a)
    BY <1>1, <2>1, <2>2, RmbGoto
  <2>4. QED
    BY <1>1, <1>4, <2>3 DEF Swept
<1>5. CASE \E e \in walk[a].left[l] \cup Entries(l) :
             \/ /\ e = "residue" /\ residue' = residue \ {l}
                /\ Ticked(a, l, e, FALSE) /\ UNCHANGED <<op, file>>
             \/ /\ e \in Names
                /\ file' = [file EXCEPT ![e] = IF e \in Internal THEN None ELSE @]
                /\ Ticked(a, l, e, e \notin Internal) /\ UNCHANGED <<op, residue>>
             \/ /\ e \in Actors /\ op' = [op EXCEPT ![e] = [op[e] EXCEPT !.tmp = FALSE]]
                /\ Ticked(a, l, e, FALSE) /\ UNCHANGED <<file, residue>>
  <2>1. \E left, kept : walk' = [walk EXCEPT ![a] = Walk(l, left, kept)]
    BY <1>5 DEF Ticked
  <2>2. Swept(a)
    BY <1>5 DEF Swept
  <2>3. QED
    BY <1>1, <1>2, <2>1, <2>2
<1>6. QED
  BY <1>2, <1>3, <1>4, <1>5 DEF prune_invisible_data_recursive

\* A temporary file is swept away.
LEMMA TempSwept ==
  ASSUME Setting, IInv, NEW e \in Actors, op' = [op EXCEPT ![e] = [op[e] EXCEPT !.tmp = FALSE]]
  PROVE  /\ op' \in [Actors -> Op] /\ Known' /\ Quiet
         /\ \A b \in Actors : /\ op'[b].pc = op[b].pc /\ op'[b].kind = op[b].kind
                              /\ op'[b].name = op[b].name /\ op'[b].val = op[b].val
                              /\ op'[b].res = op[b].res
<1>1. PICK o \in Op : o = op[e]
  BY TaskFacts
<1>2. PICK q \in Op : q = [o EXCEPT !.tmp = FALSE]
  BY DEF Op
<1>3. /\ q.pc = o.pc /\ q.kind = o.kind /\ q.name = o.name /\ q.val = o.val /\ q.res = o.res
      /\ q.at = o.at /\ q.tmp = FALSE
  BY <1>2 DEF Op
<1>4. Fits(o)
  BY <1>1, TaskFacts
<1>5. Fits(q)
  BY <1>3, <1>4 DEF Fits
<1>6. op' = [op EXCEPT ![e] = q]
  BY <1>1, <1>2
<1>7. /\ op' \in [Actors -> Op] /\ Known' /\ op'[e] = q
      /\ \A b \in Actors : b # e => op'[b] = op[b]
  BY <1>5, <1>6, OpStep, TaskFacts
<1>8. QED
  BY <1>1, <1>3, <1>7 DEF Quiet

LEMMA SweepInv ==
  ASSUME Setting, IInv, NEW a \in Actors, prune_invisible_data_recursive(a)
  PROVE  IInv'
<1>1. /\ op[a].pc = "sweep" /\ UNCHANGED tree /\ Swept(a)
      /\ \/ Deleting(a)
         \/ \E l \in Nat : /\ l >= 2
                           /\ \E left, kept : walk' = [walk EXCEPT ![a] = Walk(l, left, kept)]
  BY SweepSteps
<1>2. tree' \in 0..Depth /\ tree' >= tree
  BY <1>1, TreeFacts
<1>3. op' \in [Actors -> Op] /\ Known' /\ Quiet
      /\ \A b \in Actors : b # a => op'[b].pc = op[b].pc
  <2>1. CASE Deleting(a)
    BY <2>1 DEF Deleting
  <2>2. CASE UNCHANGED op
    BY <2>2, TaskFacts DEF Quiet, Known
  <2>3. CASE \E e \in Actors : op' = [op EXCEPT ![e] = [op[e] EXCEPT !.tmp = FALSE]]
    BY <2>3, TempSwept
  <2>4. QED
    BY <1>1, <2>1, <2>2, <2>3 DEF Swept
<1>4. residue' \subseteq residue /\ file' \in [Names -> Inode \cup {None}]
      /\ \A n \in Names : file'[n] # None => Level[n] <= tree
  BY <1>1, TreeFacts DEF Swept
<1>5. TypeOK'
  BY <1>2, <1>3, <1>4, TreeKept DEF IInv
<1>6. Roams(a)
  BY <1>1 DEF Roams, Deleting
<1>7. QED
  BY <1>3, <1>5, <1>6, RoamInv

\* The directories and the bucket itself.
LEMMA SubdirSteps ==
  ASSUME Setting, IInv, NEW a \in Actors, remove_subdir(a)
  PROVE  /\ Deleting(a) /\ UNCHANGED <<file, residue>>
         /\ \/ UNCHANGED tree
            \/ \E l \in Nat : l >= 3 /\ CanRemove(l) /\ tree' = l - 1
<1>1. op[a].pc = "rmsub" /\ op[a].pc \in RmbSteps /\ "sweep" \in RmbSteps
      /\ UNCHANGED <<file, residue>> /\ Goto(a, "sweep")
  BY DEF remove_subdir, RmbSteps
<1>2. PICK k \in Nat : k = walk[a].base /\ k >= 2
  BY <1>1, RmbFacts
<1>3. PICK l \in Nat : l = k + 1
  BY <1>2
<1>4. /\ tree' = IF CanRemove(l) THEN l - 1 ELSE tree
      /\ walk' = [walk EXCEPT ![a] = Walk(l - 1, walk[a].left,
              [walk[a].kept EXCEPT ![l - 1] = @ \/ tree > l \/ (tree = l /\ ~CanRemove(l))])]
  BY <1>2, <1>3 DEF remove_subdir
<1>5. l - 1 = k /\ l >= 3
  BY <1>2, <1>3
<1>6. \E left, kept : walk' = [walk EXCEPT ![a] = Walk(k, left, kept)]
  BY <1>4, <1>5
<1>7. op[a].at \in Nat
  BY <1>1, RmbFacts
<1>8. Deleting(a)
  BY <1>1, <1>2, <1>6, <1>7, RmbGoto DEF Goto
<1>9. QED
  BY <1>1, <1>4, <1>5, <1>8

LEMMA DeltaspacesSteps ==
  ASSUME Setting, IInv, NEW a \in Actors, remove_deltaspaces(a)
  PROVE  /\ Deleting(a) /\ UNCHANGED <<file, residue>>
         /\ \/ UNCHANGED tree
            \/ CanRemove(2) /\ tree' = 1
<1>1. op[a].pc \in RmbSteps /\ "root" \in RmbSteps /\ "root" \notin {"look", "sweep", "rmsub"}
      /\ UNCHANGED <<file, residue, walk>>
  BY DEF remove_deltaspaces, RmbSteps, NoWalking
<1>2. op[a].at \in Nat
  BY <1>1, RmbFacts
<1>3. CASE Finish(a, "notempty") /\ UNCHANGED tree
  BY <1>1, <1>3, RmbFinish DEF Results
<1>4. CASE /\ tree < 2 \/ CanRemove(2)
           /\ tree' = (IF tree < 2 THEN tree ELSE 1) /\ Goto(a, "root")
  <2>1. Deleting(a)
    BY <1>1, <1>2, <1>4, RmbGoto DEF Goto
  <2>2. QED
    BY <1>1, <1>4, <2>1
<1>5. QED
  BY <1>3, <1>4 DEF remove_deltaspaces

\* A directory of the chain goes, at the hands of a deletion of the bucket.
LEMMA CutInv ==
  ASSUME Setting, IInv, NEW a \in Actors, Deleting(a), UNCHANGED <<file, residue>>,
         NEW l \in Nat, l >= 1, CanRemove(l), tree' = l - 1
  PROVE  IInv'
<1>1. TypeOK'
  BY TreeCut DEF IInv, Deleting
<1>2. QED
  BY <1>1, RoamInv DEF Deleting

LEMMA RemoveDirsInv ==
  ASSUME Setting, IInv, NEW a \in Actors, remove_subdir(a) \/ remove_deltaspaces(a)
  PROVE  IInv'
<1>1. Deleting(a) /\ UNCHANGED <<file, residue>>
  BY SubdirSteps, DeltaspacesSteps
<1>2. UNCHANGED tree \/ \E l \in Nat : l >= 1 /\ CanRemove(l) /\ tree' = l - 1
  <2>1. CASE remove_subdir(a)
    BY <2>1, SubdirSteps
  <2>2. CASE remove_deltaspaces(a)
    <3>1. PICK l \in Nat : l = 2
      OBVIOUS
    <3>2. l >= 1 /\ l - 1 = 1
      BY <3>1
    <3>3. QED
      BY <2>2, <3>1, <3>2, DeltaspacesSteps
  <2>3. QED
    BY <2>1, <2>2
<1>3. QED
  BY <1>1, <1>2, DeletingInv, CutInv

LEMMA RootResidueSteps ==
  ASSUME Setting, IInv, NEW a \in Actors, prune_bucket_root_residue(a)
  PROVE  Deleting(a) /\ UNCHANGED <<tree, file>> /\ residue' \subseteq residue
<1>1. op[a].pc \in RmbSteps /\ "rmroot" \in RmbSteps /\ "rmroot" \notin {"look", "sweep", "rmsub"}
      /\ UNCHANGED <<tree, file, walk>> /\ residue' \subseteq residue /\ Goto(a, "rmroot")
  BY DEF prune_bucket_root_residue, RmbSteps, NoWalking
<1>2. op[a].at \in Nat
  BY <1>1, RmbFacts
<1>3. QED
  BY <1>1, <1>2, RmbGoto DEF Goto

\* The last step removes the bucket's own directory, or fails.
LEMMA RootSteps ==
  ASSUME Setting, IInv, NEW a \in Actors, remove_bucket_dir(a)
  PROVE  /\ UNCHANGED <<file, residue, walk>> /\ op[a].pc = "rmroot" /\ op[a].kind = "rmb"
         /\ op[a].kind # None
         /\ \/ Deleting(a) /\ UNCHANGED tree
            \/ /\ CanRemove(1) /\ tree' = 0 /\ Finish(a, "ok")
               /\ op' \in [Actors -> Op] /\ Known' /\ Quiet
               /\ \A b \in Actors : b # a => op'[b] = op[b]
               /\ op'[a].pc = "done" /\ op'[a].kind = op[a].kind /\ op'[a].name = op[a].name
               /\ op'[a].val = op[a].val /\ op'[a].res \in {"ok", "unpruned"}
<1>1. op[a].pc \in RmbSteps /\ op[a].pc = "rmroot" /\ UNCHANGED <<file, residue, walk>>
  BY DEF remove_bucket_dir, RmbSteps
<1>2. op[a].kind = "rmb" /\ op[a].kind # None /\ op \in [Actors -> Op] /\ Known
  BY <1>1, RmbFacts
<1>3. CASE (Finish(a, "nobucket") \/ Finish(a, "notempty")) /\ UNCHANGED tree
  BY <1>1, <1>2, <1>3, RmbFinish DEF Results
<1>4. CASE CanRemove(1) /\ tree' = 0 /\ Finish(a, "ok")
  BY <1>1, <1>2, <1>4, FinishStep DEF Results
<1>5. QED
  BY <1>3, <1>4 DEF remove_bucket_dir

LEMMA RootInv ==
  ASSUME Setting, IInv, NEW a \in Actors, prune_bucket_root_residue(a) \/ remove_bucket_dir(a)
  PROVE  IInv'
<1>1. CASE prune_bucket_root_residue(a)
  BY <1>1, RootResidueSteps, DeletingInv
<1>2. CASE remove_bucket_dir(a) /\ Deleting(a) /\ UNCHANGED tree
  BY <1>2, RootSteps, DeletingInv
<1>3. CASE remove_bucket_dir(a) /\ ~(Deleting(a) /\ UNCHANGED tree)
  <2>1. /\ CanRemove(1) /\ tree' = 0 /\ UNCHANGED <<file, residue, walk>>
        /\ op' \in [Actors -> Op] /\ Known' /\ Quiet
        /\ \A b \in Actors : b # a => op'[b] = op[b]
        /\ op'[a].pc = "done"
    BY <1>3, RootSteps
  <2>2. PICK l \in Nat : l = 1 /\ l >= 1 /\ tree' = l - 1
    BY <2>1
  <2>3. TypeOK'
    BY <2>1, <2>2, TreeCut DEF IInv
  <2>4. Walking'
    BY <2>1, WalkKept DEF IInv
  <2>5. QED
    BY <2>1, <2>3, <2>4 DEF IInv
<1>4. QED
  BY <1>1, <1>2, <1>3

\* The process dies.
LEMMA CrashInv ==
  ASSUME Setting, IInv, Crash
  PROVE  IInv'
<1>1. <<>> \in Seq(Start)
  OBVIOUS
<1>2. Idle \in Op
  BY <1>1 DEF Idle, Rest, Task, Op
<1>3. Idle.pc = "idle" /\ Idle.kind = None /\ Idle.tmp = FALSE
  BY DEF Idle, Rest, Task
<1>4. Fits(Idle)
  BY <1>3 DEF Fits, Setting, Kinds, PutSteps, LinkSteps, DelSteps, RmbSteps
<1>5. PICK i \in Op : i = Idle
  BY <1>2
<1>6. op' = [a \in Actors |-> i] /\ Fits(i) /\ i.pc = "idle" /\ i.tmp = FALSE
  BY <1>3, <1>4, <1>5 DEF Crash
<1>7. residue' \subseteq 1..tree
  <2>1. \A b \in Actors : op[b].tmp => op[b].name \in Names /\ Level[op[b].name] <= tree
    BY DEF IInv, TypeOK
  <2>2. \A b \in Actors : op[b].tmp => Level[op[b].name] \in 1..tree
    BY <2>1, TreeFacts
  <2>3. residue \subseteq 1..tree
    BY DEF IInv, TypeOK
  <2>4. QED
    BY <2>2, <2>3 DEF Crash
<1>8. TypeOK'
  BY <1>6, <1>7 DEF IInv, TypeOK, Crash
<1>9. Known'
  BY <1>6 DEF Known
<1>10. Walking'
  BY <1>6 DEF Walking, Crash
<1>11. QED
  BY <1>8, <1>9, <1>10 DEF IInv

LEMMA NextInv ==
  ASSUME Setting, IInv, [Next]_vars
  PROVE  IInv'
<1>1. CASE UNCHANGED vars
  BY <1>1 DEF vars, IInv, TypeOK, Known, Walking
<1>2. ASSUME NEW a \in Actors, Step(a) PROVE IInv'
  <2>1. \/ Request(a) \/ Continue(a) \/ Return(a)
        \/ require_bucket_exists(a) \/ ensure_dir(a) \/ create_dir(a)
        \/ atomic_write_with_metadata(a) \/ persist(a)
        \/ create_dir_all(a) \/ unlink_destination(a) \/ hardlink_or_copy(a)
        \/ write_metadata(a) \/ delete_object_file(a) \/ prune_empty_dirs(a)
        \/ create_bucket(a) \/ delete_bucket(a) \/ dir_has_visible_data_recursive(a)
        \/ prune_invisible_data_recursive(a) \/ remove_subdir(a) \/ remove_deltaspaces(a)
        \/ prune_bucket_root_residue(a) \/ remove_bucket_dir(a)
    BY <1>2 DEF Step
  <2>2. CASE delete_bucket(a) \/ dir_has_visible_data_recursive(a)
    BY <2>2, LookDeletes, DeletingInv
  <2>3. QED
    BY <2>1, <2>2, AskInv, ReturnInv, RequireInv, CreateDirInv, TempInv, PersistInv, LinkInv,
       AttrInv, DeleteInv, PruneInv, CreateBucketInv, SweepInv, RemoveDirsInv, RootInv
<1>3. QED
  BY <1>1, <1>2, CrashInv DEF Next

\* Whatever the tasks do, files and temporary files sit in directories that exist, and each
\* task is at a step of its operation: TypeOK always holds.
THEOREM TypeCorrect == ASSUME Setting PROVE Spec => []TypeOK
<1>1. Init => IInv
  BY InitInv
<1>2. IInv /\ [Next]_vars => IInv'
  BY NextInv
<1>3. IInv => TypeOK
  BY DEF IInv
<1>4. QED
  BY <1>1, <1>2, <1>3, PTL DEF Spec

-----------------------------------------------------------------------------
(* The refinement. *)

Calls == [a \in Actors |-> CallOf(a)]

\* A task under way has asked for something.
LEMMA BusySeen ==
  ASSUME Setting, NEW o \in Op, o.kind \in Kinds, o.pc \notin {"done", "prune"}
  PROVE  /\ Seen(o) = [kind |-> o.kind, name |-> o.name, val |-> o.val, st |-> "asked"]
         /\ Seen(o) \in Abs!Call /\ Seen(o) # None
<1>1. Seen(o) = [kind |-> o.kind, name |-> o.name, val |-> o.val, st |-> "asked"]
  BY DEF Seen, Setting
<1>2. Seen(o) \in Abs!Call
  BY <1>1 DEF Abs!Call, Op, Kinds
<1>3. QED
  BY <1>1, <1>2 DEF Setting

\* One that is done has its answer.
LEMMA DoneSeen ==
  ASSUME Setting, NEW o \in Op, o.kind \in Kinds, o.pc \in {"done", "prune"}
  PROVE  /\ Seen(o) = [kind |-> o.kind, name |-> o.name, val |-> o.val,
                       st |-> IF o.pc = "prune" \/ o.res \in {"ok", "unpruned"} THEN "ok" ELSE "failed"]
         /\ Seen(o) \in Abs!Call /\ Seen(o) # None
<1>1. Seen(o) = [kind |-> o.kind, name |-> o.name, val |-> o.val,
                 st |-> IF o.pc = "prune" \/ o.res \in {"ok", "unpruned"} THEN "ok" ELSE "failed"]
  BY DEF Seen, Setting
<1>2. Seen(o) \in Abs!Call
  BY <1>1 DEF Abs!Call, Op, Kinds
<1>3. QED
  BY <1>1, <1>2 DEF Setting

LEMMA CallsAre ==
  /\ Calls = [c \in Actors |-> Seen(op[c])]
  /\ Calls' = [c \in Actors |-> Seen(op'[c])]
  BY DEF Calls, CallOf, Seen

\* A step of task a that keeps what it was asked.
Keeps(a) ==
    /\ op' \in [Actors -> Op]
    /\ \A b \in Actors : b # a => op'[b] = op[b]
    /\ op'[a].kind = op[a].kind /\ op'[a].name = op[a].name /\ op'[a].val = op[a].val

\* A step of an operation under way, in the terms of ObjectStore.
LEMMA BusyCall ==
  ASSUME Setting, IInv, NEW a \in Actors, op[a].pc \notin {"idle", "done", "prune"}, Keeps(a)
  PROVE  /\ Calls[a] # None /\ Calls[a].st = "asked" /\ Calls[a].kind = op[a].kind
         /\ Calls[a].name = op[a].name /\ Calls[a].val = op[a].val
         /\ Abs!Asked(a, op[a].kind)
         /\ op'[a].pc \notin {"done", "prune"} => Calls' = Calls
         /\ op'[a].pc = "done" /\ op'[a].res \notin {"ok", "unpruned"} => Abs!Answer(a, "failed")
         /\ op'[a].pc = "prune" \/ (op'[a].pc = "done" /\ op'[a].res \in {"ok", "unpruned"}) => Abs!Answer(a, "ok")
<1>1. PICK o \in Op : o = op[a]
  BY TaskFacts
<1>2. PICK q \in Op : q = op'[a]
  BY DEF Keeps
<1>3. o.kind \in Kinds /\ q.kind = o.kind /\ q.name = o.name /\ q.val = o.val
  BY <1>1, <1>2, TaskFacts DEF Keeps
<1>4. Seen(o) = [kind |-> o.kind, name |-> o.name, val |-> o.val, st |-> "asked"] /\ Seen(o) # None
  BY <1>1, <1>3, BusySeen
<1>5. Calls[a] = Seen(o)
  BY <1>1, CallsAre
<1>6. Calls' = [Calls EXCEPT ![a] = Seen(q)] /\ Calls = [Calls EXCEPT ![a] = Seen(o)]
  BY <1>1, <1>2, CallsAre DEF Keeps
<1>7. /\ Calls[a] # None /\ Calls[a].st = "asked" /\ Calls[a].kind = op[a].kind
      /\ Calls[a].name = op[a].name /\ Calls[a].val = op[a].val
  BY <1>1, <1>4, <1>5
<1>8. Abs!Asked(a, op[a].kind)
  BY <1>7 DEF Abs!Asked, Calls
<1>9. ASSUME q.pc \notin {"done", "prune"} PROVE Calls' = Calls
  <2>1. Seen(q) = Seen(o)
    BY <1>3, <1>4, <1>9, BusySeen
  <2>2. QED
    BY <1>6, <2>1
<1>10. ASSUME NEW st, q.pc \in {"done", "prune"},
              st = IF q.pc = "prune" \/ q.res \in {"ok", "unpruned"} THEN "ok" ELSE "failed"
       PROVE  Abs!Answer(a, st)
  <2>1. Seen(q) = [kind |-> o.kind, name |-> o.name, val |-> o.val, st |-> st]
    BY <1>3, <1>10, DoneSeen
  <2>2. Seen(q) = [Calls[a] EXCEPT !.st = st]
    BY <1>4, <1>5, <2>1
  <2>3. Calls' = [Calls EXCEPT ![a] = [Calls[a] EXCEPT !.st = st]]
    BY <1>6, <2>2
  <2>4. QED
    BY <2>3 DEF Abs!Answer, Calls
<1>11. q.pc = "done" /\ q.res \notin {"ok", "unpruned"} => Abs!Answer(a, "failed")
  BY <1>10
<1>12. q.pc = "prune" \/ (q.pc = "done" /\ q.res \in {"ok", "unpruned"}) => Abs!Answer(a, "ok")
  BY <1>10
<1>13. QED
  BY <1>2, <1>7, <1>8, <1>9, <1>11, <1>12

\* The bucket and the files as ObjectStore has them.
Still == (tree > 0)' = (tree > 0) /\ UNCHANGED file

\* A step nobody sees.
LEMMA Silent ==
  ASSUME Setting, IInv, NEW a \in Actors, op[a].pc \notin {"idle", "done", "prune"}, Keeps(a),
         op'[a].pc \notin {"done", "prune"}, Still
  PROVE  UNCHANGED Abs!vars
<1>1. Calls' = Calls
  BY BusyCall
<1>2. QED
  BY <1>1 DEF Abs!vars, Calls, Still

\* A failure.
LEMMA Fails ==
  ASSUME Setting, IInv, NEW a \in Actors, op[a].pc \notin {"idle", "done", "prune"}, Keeps(a),
         op'[a].pc = "done", op'[a].res \notin {"ok", "unpruned"}, Still
  PROVE  Abs!Next
<1>1. Calls[a] # None /\ Calls[a].st = "asked" /\ Abs!Answer(a, "failed")
  BY BusyCall
<1>2. Abs!Fail(a)
  BY <1>1 DEF Abs!Fail, Calls, Still
<1>3. QED
  BY <1>2 DEF Abs!Next

\* A request, the next operation of one, and the answer.
LEMMA BeginRefines ==
  ASSUME Setting, IInv, NEW a \in Actors, NEW o \in Start, NEW todo \in Seq(Start),
         op[a].pc = "idle", Begin(a, o, todo)
  PROVE  Abs!Next
<1>1. op[a].kind = None
  BY TaskFacts DEF Fits
<1>2. PICK q : q = Task(o.pc, o.kind, o.name, o.val, None, todo)
  OBVIOUS
<1>3. Internal \subseteq Names
  BY DEF Setting
<1>4. /\ o.pc \in {"require", "find", "mkb", "rmb"} /\ o.kind \in Kinds
      /\ o.name \in Names \cup {None} /\ o.val \in Vals \cup {None}
  BY <1>3 DEF Start, Kinds
<1>5. q \in Op /\ q.kind \in Kinds /\ q.pc \notin {"done", "prune"}
  BY <1>2, <1>4 DEF Task, Op, DelSteps, RmbSteps
<1>6. op' = [op EXCEPT ![a] = q] /\ UNCHANGED <<tree, file>>
  BY <1>2 DEF Begin
<1>7. op'[a] = q /\ \A b \in Actors : b # a => op'[b] = op[b]
  BY <1>6, TaskFacts
<1>8. Calls[a] = None /\ Calls'[a] = Seen(q) /\ Calls' = [Calls EXCEPT ![a] = Calls'[a]]
  BY <1>1, <1>7, CallsAre DEF Seen
<1>9. Seen(q) \in Abs!Call /\ Seen(q).st = "asked"
  BY <1>5, BusySeen
<1>10. Abs!Ask(a)
  BY <1>6, <1>8, <1>9 DEF Abs!Ask, Calls
<1>11. QED
  BY <1>10 DEF Abs!Next

LEMMA AskRefines ==
  ASSUME Setting, IInv, NEW a \in Actors, Request(a) \/ Continue(a)
  PROVE  Abs!Next
<1>1. CASE Request(a)
  <2>1. PICK p \in Programs[a] : Begin(a, Head(p), Tail(p))
    BY <1>1 DEF Request
  <2>2. p \in Seq(Start) /\ p # <<>>
    BY DEF Setting, ProgramsFit
  <2>3. Head(p) \in Start /\ Tail(p) \in Seq(Start)
    BY <2>2
  <2>4. QED
    BY <1>1, <2>1, <2>3, BeginRefines DEF Request
<1>2. CASE Continue(a)
  <2>1. op[a].todo \in Seq(Start) /\ op[a].todo # <<>>
    BY <1>2, TaskFacts DEF Continue, Op
  <2>2. Head(op[a].todo) \in Start /\ Tail(op[a].todo) \in Seq(Start)
    BY <2>1
  <2>3. QED
    BY <1>2, <2>2, BeginRefines DEF Continue
<1>3. QED
  BY <1>1, <1>2

LEMMA ReturnRefines ==
  ASSUME Setting, IInv, NEW a \in Actors, Return(a)
  PROVE  Abs!Next
<1>1. PICK o \in Op : o = op[a] /\ o.pc = "done" /\ o.kind \in Kinds
  BY TaskFacts DEF Return
<1>2. Seen(o) # None /\ Seen(o).st # "asked"
  BY <1>1, DoneSeen
<1>3. PICK q : q = Rest(op[a].todo)
  OBVIOUS
<1>4. Seen(q) = None
  BY <1>3 DEF Seen, Rest, Task
<1>5. op' = [op EXCEPT ![a] = q] /\ UNCHANGED <<tree, file>>
  BY <1>3 DEF Return
<1>6. op'[a] = q /\ \A b \in Actors : b # a => op'[b] = op[b]
  BY <1>5, TaskFacts
<1>7. Calls[a] = Seen(o) /\ Calls' = [Calls EXCEPT ![a] = None]
  BY <1>1, <1>4, <1>6, CallsAre
<1>8. Abs!Return(a)
  BY <1>2, <1>5, <1>7 DEF Abs!Return, Calls
<1>9. QED
  BY <1>8 DEF Abs!Next

\* A step to another stage of the operation, or to its failure.
LEMMA GoesOn ==
  ASSUME Setting, IInv, NEW a \in Actors, op[a].pc \notin {"idle", "done", "prune"}, Still,
         Keeps(a), op'[a].pc # "prune", op'[a].pc = "done" => op'[a].res \notin {"ok", "unpruned"}
  PROVE  [Abs!Next]_(Abs!vars)
<1>1. CASE op'[a].pc = "done"
  BY <1>1, Fails
<1>2. CASE op'[a].pc # "done"
  BY <1>2, Silent
<1>3. QED
  BY <1>1, <1>2

\* The steps of a put before the rename.
LEMMA PrepareRefines ==
  ASSUME Setting, IInv, NEW a \in Actors,
         \/ require_bucket_exists(a) \/ ensure_dir(a) \/ create_dir(a)
         \/ atomic_write_with_metadata(a)
  PROVE  [Abs!Next]_(Abs!vars)
<1>1. /\ op \in [Actors -> Op] /\ Known /\ op[a] \in Op /\ Fits(op[a]) /\ op[a].at \in Nat
      /\ op[a].pc \in {"require", "isdir", "mkdir", "temp"} /\ op[a].kind \in {"put", "link", "meta"}
      /\ op[a].pc # "require" => op[a].kind = "put"
      /\ op[a].pc = "mkdir" => op[a].at \in 2..Here(a)
  BY TaskFacts DEF require_bucket_exists, ensure_dir, create_dir, atomic_write_with_metadata,
                   Fits, PutSteps, Here
<1>2. Still
  <2>1. UNCHANGED file
    BY DEF require_bucket_exists, ensure_dir, create_dir, atomic_write_with_metadata
  <2>2. CASE UNCHANGED tree
    BY <2>1, <2>2 DEF Still
  <2>3. CASE create_dir(a) /\ MakeDir(op[a].at)
    <3>1. op[a].at >= 2 /\ tree + 1 = op[a].at /\ tree' = op[a].at
      BY <1>1, <2>3 DEF MakeDir, create_dir
    <3>2. tree > 0 /\ tree' > 0
      BY <1>1, <3>1, TreeFacts
    <3>3. QED
      BY <2>1, <3>2 DEF Still
  <2>4. QED
    BY <2>2, <2>3 DEF require_bucket_exists, ensure_dir, create_dir, atomic_write_with_metadata
<1>3. /\ Keeps(a) /\ op'[a].pc # "prune" /\ (op'[a].pc = "done" => op'[a].res \notin {"ok", "unpruned"})
  <2>1. CASE Finish(a, "nobucket") \/ Finish(a, "error")
    BY <1>1, <2>1, FinishStep DEF Results, Keeps
  <2>2. ASSUME NEW pc \in {"isdir", "mkdirs", "attr", "mkdir", "temp"}, NEW at \in Nat, GotoAt(a, pc, at)
        PROVE  Keeps(a) /\ op'[a].pc = pc
    <3>1. PICK o \in Op : o = op[a]
      BY <1>1
    <3>2. [o EXCEPT !.pc = pc] \in Op
      BY DEF Op, PutSteps, LinkSteps
    <3>3. PICK q \in Op : q = At(o, pc, at)
      BY <3>2, AtType
    <3>4. q.pc = pc /\ q.kind = o.kind /\ q.name = o.name /\ q.val = o.val
      BY <3>2, <3>3, AtType
    <3>5. op' = [op EXCEPT ![a] = q]
      BY <2>2, <3>1, <3>3 DEF GotoAt
    <3>6. QED
      BY <1>1, <3>1, <3>4, <3>5 DEF Keeps
  <2>3. CASE require_bucket_exists(a) /\ tree # 0
    <3>1. PICK pc \in {"isdir", "mkdirs", "attr"} : GotoAt(a, pc, op[a].at)
      BY <1>1, <2>3 DEF require_bucket_exists, Goto
    <3>2. QED
      BY <1>1, <2>2, <3>1
  <2>4. CASE ensure_dir(a) /\ tree # 0
    <3>1. PICK l \in Nat : GotoAt(a, "mkdir", l)
      BY <2>4 DEF ensure_dir
    <3>2. QED
      BY <2>2, <3>1
  <2>5. CASE create_dir(a) /\ ~Finish(a, "nobucket")
    <3>1. PICK l \in Nat, pc \in {"temp", "mkdir"} : GotoAt(a, pc, l)
      BY <1>1, <2>5 DEF create_dir
    <3>2. QED
      BY <2>2, <3>1
  <2>6. CASE /\ atomic_write_with_metadata(a)
             /\ op' = [op EXCEPT ![a] = [op[a] EXCEPT !.pc = "persist", !.tmp = TRUE]]
    <3>1. PICK o \in Op : o = op[a]
      BY <1>1
    <3>2. PICK q \in Op : q = [o EXCEPT !.pc = "persist", !.tmp = TRUE]
      BY DEF Op, PutSteps
    <3>3. q.pc = "persist" /\ q.kind = o.kind /\ q.name = o.name /\ q.val = o.val
      BY <3>2 DEF Op
    <3>4. op' = [op EXCEPT ![a] = q]
      BY <2>6, <3>1, <3>2
    <3>5. QED
      BY <1>1, <3>1, <3>3, <3>4 DEF Keeps
  <2>7. QED
    BY <2>1, <2>3, <2>4, <2>5, <2>6
       DEF require_bucket_exists, ensure_dir, create_dir, atomic_write_with_metadata
<1>4. QED
  BY <1>1, <1>2, <1>3, GoesOn

\* A put takes effect when the temporary file is renamed, in a bucket that exists.
LEMMA PersistRefines ==
  ASSUME Setting, IInv, NEW a \in Actors, persist(a)
  PROVE  [Abs!Next]_(Abs!vars)
<1>1. /\ op[a].kind = "put" /\ op[a].pc = "persist" /\ op \in [Actors -> Op] /\ Known
  BY TaskFacts DEF persist, Fits, PutSteps
<1>2. UNCHANGED tree
  BY DEF persist
<1>3. CASE ~op[a].tmp
  <2>1. Finish(a, "error") /\ Still
    BY <1>2, <1>3 DEF persist, Still
  <2>2. Keeps(a) /\ op'[a].pc = "done" /\ op'[a].res \notin {"ok", "unpruned"}
    BY <1>1, <2>1, FinishStep DEF Keeps, Results
  <2>3. QED
    BY <1>1, <2>1, <2>2, GoesOn
<1>4. CASE op[a].tmp
  <2>1. Level[op[a].name] <= tree /\ op[a].name \in Names
    BY <1>4 DEF IInv, TypeOK
  <2>2. tree > 0
    BY <2>1, TreeFacts
  <2>3. file' = [file EXCEPT ![op[a].name] = Persisted(a)] /\ Finish(a, "ok")
    BY <1>4 DEF persist
  <2>4. Keeps(a) /\ op'[a].pc = "done" /\ op'[a].res \in {"ok", "unpruned"}
    BY <1>1, <2>3, FinishStep DEF Keeps, Results
  <2>5. /\ Abs!Asked(a, "put") /\ Abs!Answer(a, "ok")
        /\ Calls[a].name = op[a].name /\ Calls[a].val = op[a].val
    BY <1>1, <2>4, BusyCall
  <2>6. Abs!Put(a)
    BY <1>2, <2>2, <2>3, <2>5 DEF Abs!Put, Abs!Write, Persisted, Calls
  <2>7. QED
    BY <2>6 DEF Abs!Next
<1>5. QED
  BY <1>3, <1>4

\* put_reference_from_file replaces its file in steps, and may bring the bucket back.
LEMMA LinkRefines ==
  ASSUME Setting, IInv, NEW a \in Actors,
         create_dir_all(a) \/ unlink_destination(a) \/ hardlink_or_copy(a)
  PROVE  [Abs!Next]_(Abs!vars)
<1>1. /\ op[a].kind = "link" /\ op[a].pc \in LinkSteps /\ op[a].name \in Internal
      /\ op[a].val \in Vals /\ ~op[a].tmp /\ op[a].kind # None /\ op[a].at \in Nat
      /\ op[a].pc \notin {"idle", "done", "prune"} /\ op \in [Actors -> Op] /\ Known
  BY TaskFacts DEF create_dir_all, unlink_destination, hardlink_or_copy, Fits, LinkSteps,
                   Setting, Kinds
<1>2. op[a].name \in Names /\ Here(a) \in Nat /\ Here(a) >= 2 /\ Here(a) = Level[op[a].name]
  BY <1>1, NameFacts DEF Here
<1>3. ASSUME NEW pc \in {"unlink", "link", "attr"}, Goto(a, pc)
      PROVE  /\ Keeps(a) /\ op'[a].pc = pc
             /\ Calls' = Calls /\ Abs!Asked(a, "link")
             /\ Calls[a].name = op[a].name /\ Calls[a].val = op[a].val
  <2>1. Keeps(a) /\ op'[a].pc = pc
    BY <1>1, <1>3, GotoStep DEF Goto, LinkSteps, Keeps
  <2>2. pc \notin {"done", "prune"}
    OBVIOUS
  <2>3. QED
    BY <1>1, <2>1, <2>2, BusyCall
<1>4. CASE create_dir_all(a)
  <2>1. tree' > 0 /\ UNCHANGED file /\ Goto(a, "unlink")
    BY <1>2, <1>4, TreeFacts DEF create_dir_all
  <2>2. Abs!Revive(a)
    BY <1>3, <2>1 DEF Abs!Revive, Calls
  <2>3. QED
    BY <2>2 DEF Abs!Next
<1>5. CASE unlink_destination(a)
  <2>1. UNCHANGED tree /\ Goto(a, "link") /\ file' = [file EXCEPT ![op[a].name] = None]
    BY <1>5 DEF unlink_destination
  <2>2. CASE tree > 0
    <3>1. Abs!Replace(a)
      BY <1>1, <1>3, <2>1, <2>2 DEF Abs!Replace, Calls
    <3>2. QED
      BY <3>1 DEF Abs!Next
  <2>3. CASE ~(tree > 0)
    <3>1. file[op[a].name] = None
      BY <1>2, <2>3, TreeFacts
    <3>2. file' = file
      BY <1>2, <2>1, <3>1, TreeFacts
    <3>3. QED
      BY <1>3, <2>1, <3>2 DEF Abs!vars, Calls
  <2>4. QED
    BY <2>2, <2>3
<1>6. CASE hardlink_or_copy(a) /\ tree < Here(a)
  <2>1. Finish(a, "error") /\ Still
    BY <1>6 DEF hardlink_or_copy, Still
  <2>2. Keeps(a) /\ op'[a].pc = "done" /\ op'[a].res \notin {"ok", "unpruned"}
    BY <1>1, <2>1, FinishStep DEF Keeps, Results
  <2>3. QED
    BY <1>1, <2>1, <2>2, GoesOn
<1>7. CASE hardlink_or_copy(a) /\ ~(tree < Here(a))
  <2>1. UNCHANGED tree /\ Goto(a, "attr") /\ tree > 0
    BY <1>2, <1>7, TreeFacts DEF hardlink_or_copy
  <2>2. PICK m : /\ m = IF file[op[a].name] = None THEN None ELSE file[op[a].name].meta
                 /\ file' = [file EXCEPT ![op[a].name] = [data |-> op[a].val, meta |-> m]]
    BY <1>7 DEF hardlink_or_copy
  <2>3. m \in Vals \cup {None}
    BY <1>2, <2>2, TreeFacts DEF Inode
  <2>4. Abs!Replace(a)
    BY <1>1, <1>3, <2>1, <2>2, <2>3 DEF Abs!Replace, Calls
  <2>5. QED
    BY <2>4 DEF Abs!Next
<1>8. QED
  BY <1>4, <1>5, <1>6, <1>7

\* The attribute: the last step of a link, or the whole of put_metadata.
LEMMA AttrRefines ==
  ASSUME Setting, IInv, NEW a \in Actors, write_metadata(a)
  PROVE  [Abs!Next]_(Abs!vars)
<1>1. /\ op[a].kind \in {"link", "meta"} /\ op[a].pc = "attr" /\ op[a].val \in Vals
      /\ op[a].kind = "link" => op[a].name \in Internal
      /\ op[a].name \in Names /\ op \in [Actors -> Op] /\ Known
  BY TaskFacts DEF write_metadata, Fits
<1>2. UNCHANGED tree
  BY DEF write_metadata
<1>3. CASE file[op[a].name] = None
  <2>1. Finish(a, "error") /\ Still
    BY <1>2, <1>3 DEF write_metadata, Still
  <2>2. Keeps(a) /\ op'[a].pc = "done" /\ op'[a].res \notin {"ok", "unpruned"}
    BY <1>1, <2>1, FinishStep DEF Keeps, Results
  <2>3. QED
    BY <1>1, <2>1, <2>2, GoesOn
<1>4. CASE file[op[a].name] # None
  <2>1. file' = [file EXCEPT ![op[a].name].meta = op[a].val] /\ Finish(a, "ok")
    BY <1>4 DEF write_metadata
  <2>2. tree > 0
    BY <1>1, <1>4, TreeFacts
  <2>3. Keeps(a) /\ op'[a].pc = "done" /\ op'[a].res \in {"ok", "unpruned"}
    BY <1>1, <2>1, FinishStep DEF Keeps, Results
  <2>4. /\ Abs!Asked(a, op[a].kind) /\ Abs!Answer(a, "ok")
        /\ Calls[a].name = op[a].name /\ Calls[a].val = op[a].val
    BY <1>1, <2>3, BusyCall
  <2>5. CASE op[a].kind = "meta"
    <3>1. Abs!SetMeta(a)
      BY <1>2, <1>4, <2>1, <2>4, <2>5 DEF Abs!SetMeta, Abs!Label, Calls
    <3>2. QED
      BY <3>1 DEF Abs!Next
  <2>6. CASE op[a].kind = "link"
    <3>1. Abs!Replace(a)
      BY <1>1, <1>2, <1>4, <2>1, <2>2, <2>4, <2>6 DEF Abs!Replace, Calls
    <3>2. QED
      BY <3>1 DEF Abs!Next
  <2>7. QED
    BY <1>1, <2>5, <2>6
<1>5. QED
  BY <1>3, <1>4

\* A deletion takes effect when the file is unlinked.
LEMMA DeleteRefines ==
  ASSUME Setting, IInv, NEW a \in Actors, delete_object_file(a)
  PROVE  [Abs!Next]_(Abs!vars)
<1>1. /\ op[a].kind = "del" /\ op[a].pc \in {"find", "remove"} /\ op[a].name \in Names
      /\ ~op[a].tmp /\ op[a].kind # None /\ op[a].at \in Nat
      /\ op \in [Actors -> Op] /\ Known
  BY TaskFacts DEF delete_object_file, Fits, DelSteps, Setting, Kinds
<1>2. UNCHANGED tree
  BY DEF delete_object_file
<1>3. CASE Finish(a, "nokey") /\ UNCHANGED file
  <2>1. Keeps(a) /\ op'[a].pc = "done" /\ op'[a].res \notin {"ok", "unpruned"} /\ Still
    BY <1>1, <1>2, <1>3, FinishStep DEF Keeps, Results, Still
  <2>2. QED
    BY <1>1, <2>1, GoesOn
<1>4. CASE Goto(a, "remove") /\ UNCHANGED file
  <2>1. Keeps(a) /\ op'[a].pc = "remove" /\ Still
    BY <1>1, <1>2, <1>4, GotoStep DEF Goto, DelSteps, Keeps, Still
  <2>2. QED
    BY <1>1, <2>1, GoesOn
<1>5. CASE file' = [file EXCEPT ![op[a].name] = None] /\ GotoAt(a, "prune", Here(a))
  <2>1. Here(a) \in Nat
    BY <1>1, NameFacts
  <2>2. Keeps(a) /\ op'[a].pc = "prune"
    BY <1>1, <1>5, <2>1, GotoStep DEF DelSteps, Keeps
  <2>3. Abs!Asked(a, "del") /\ Abs!Answer(a, "ok") /\ Calls[a].name = op[a].name
    BY <1>1, <2>2, BusyCall
  <2>4. Abs!Delete(a)
    BY <1>2, <1>5, <2>3 DEF Abs!Delete, Abs!Remove, Calls
  <2>5. QED
    BY <2>4 DEF Abs!Next
<1>6. QED
  BY <1>1, <1>3, <1>4, <1>5 DEF delete_object_file

\* What follows it is out of the callers' sight.
LEMMA PruneRefines ==
  ASSUME Setting, IInv, NEW a \in Actors, prune_empty_dirs(a)
  PROVE  UNCHANGED Abs!vars
<1>1. /\ op[a].kind = "del" /\ op[a].pc = "prune" /\ op[a].kind \in Kinds
      /\ ~op[a].tmp /\ op[a].kind # None /\ op[a].at \in Nat
      /\ op[a] \in Op /\ op \in [Actors -> Op] /\ Known
  BY TaskFacts DEF prune_empty_dirs, Fits, DelSteps, Setting, Kinds
<1>2. UNCHANGED file
  BY DEF prune_empty_dirs
<1>3. Still /\ Keeps(a) /\ (op'[a].pc = "prune" \/ (op'[a].pc = "done" /\ op'[a].res \in {"ok", "unpruned"}))
  <2>1. CASE (Finish(a, "ok") \/ Finish(a, "unpruned")) /\ UNCHANGED tree
    BY <1>1, <1>2, <2>1, FinishStep DEF Keeps, Still, Results
  <2>2. CASE /\ op[a].at > 2 /\ (tree < op[a].at \/ CanRemove(op[a].at))
             /\ tree' = IF tree < op[a].at THEN tree ELSE op[a].at - 1
             /\ GotoAt(a, "prune", op[a].at - 1)
    <3>1. op[a].at - 1 \in Nat
      BY <1>1, <2>2
    <3>2. Keeps(a) /\ op'[a].pc = "prune"
      BY <1>1, <2>2, <3>1, GotoStep DEF DelSteps, Keeps
    <3>3. tree' > 0 <=> tree > 0
      BY <1>1, <2>2, TreeFacts DEF CanRemove, EmptyDir
    <3>4. QED
      BY <1>2, <3>2, <3>3 DEF Still
  <2>3. QED
    BY <2>1, <2>2 DEF prune_empty_dirs
<1>4. PICK o \in Op : o = op[a]
  BY <1>1
<1>5. PICK q \in Op : q = op'[a]
  BY <1>3 DEF Keeps
<1>6. Seen(q) = Seen(o)
  <2>1. q.kind = o.kind /\ q.name = o.name /\ q.val = o.val
    BY <1>3, <1>4, <1>5 DEF Keeps
  <2>2. QED
    BY <1>1, <1>3, <1>4, <1>5, <2>1, DoneSeen
<1>7. Calls' = Calls
  BY <1>3, <1>4, <1>5, <1>6, CallsAre DEF Keeps
<1>8. QED
  BY <1>3, <1>7 DEF Abs!vars, Calls, Still

LEMMA CreateBucketRefines ==
  ASSUME Setting, IInv, NEW a \in Actors, create_bucket(a)
  PROVE  Abs!Next
<1>1. op[a].kind = "mkb" /\ op[a].pc = "mkb" /\ op \in [Actors -> Op] /\ Known
  BY TaskFacts DEF create_bucket, Fits
<1>2. tree' > 0 /\ UNCHANGED file /\ Finish(a, "ok")
  BY TreeFacts DEF create_bucket
<1>3. Keeps(a) /\ op'[a].pc = "done" /\ op'[a].res \in {"ok", "unpruned"}
  BY <1>1, <1>2, FinishStep DEF Keeps, Results
<1>4. Abs!Asked(a, "mkb") /\ Abs!Answer(a, "ok")
  BY <1>1, <1>3, BusyCall
<1>5. Abs!CreateBucket(a)
  BY <1>2, <1>4 DEF Abs!CreateBucket, Calls
<1>6. QED
  BY <1>5 DEF Abs!Next

\* A step of delete_bucket that does not end it well.
LEMMA DeletingRefines ==
  ASSUME Setting, IInv, NEW a \in Actors, op[a].pc \in RmbSteps, Deleting(a), Still
  PROVE  [Abs!Next]_(Abs!vars)
<1>1. op[a].pc \notin {"idle", "done", "prune"} /\ Keeps(a)
  BY DEF RmbSteps, Deleting, Keeps
<1>2. QED
  BY <1>1, GoesOn DEF Deleting

\* The sweep of one entry: a reference may go.
LEMMA SweepRefines ==
  ASSUME Setting, IInv, NEW a \in Actors, prune_invisible_data_recursive(a)
  PROVE  [Abs!Next]_(Abs!vars)
<1>1. op[a].pc = "sweep" /\ op[a].pc \in RmbSteps /\ UNCHANGED tree /\ Swept(a)
  BY SweepSteps DEF RmbSteps
<1>2. CASE Deleting(a) /\ UNCHANGED file
  BY <1>1, <1>2, DeletingRefines DEF Still
<1>3. CASE UNCHANGED <<op, file>>
  <2>1. Calls' = Calls
    BY <1>3, CallsAre
  <2>2. QED
    BY <1>1, <1>3, <2>1 DEF Abs!vars, Calls
<1>4. CASE /\ UNCHANGED file
           /\ \E e \in Actors : op' = [op EXCEPT ![e] = [op[e] EXCEPT !.tmp = FALSE]]
  <2>1. \A b \in Actors : /\ op'[b].pc = op[b].pc /\ op'[b].kind = op[b].kind
                          /\ op'[b].name = op[b].name /\ op'[b].val = op[b].val
                          /\ op'[b].res = op[b].res
    BY <1>4, TempSwept
  <2>2. \A b \in Actors : Seen(op'[b]) = Seen(op[b])
    BY <2>1 DEF Seen
  <2>3. Calls' = Calls
    BY <2>2, CallsAre
  <2>4. QED
    BY <1>1, <1>4, <2>3 DEF Abs!vars, Calls
<1>5. CASE /\ UNCHANGED op
           /\ \E e \in Names : file' = [file EXCEPT ![e] = IF e \in Internal THEN None ELSE @]
  <2>1. PICK e \in Names : file' = [file EXCEPT ![e] = IF e \in Internal THEN None ELSE @]
    BY <1>5
  <2>2. CASE e \in Internal /\ file[e] # None
    <3>1. op[a].kind = "rmb" /\ Keeps(a)
      BY <1>1, <1>5, RmbFacts DEF Keeps
    <3>2. Abs!Asked(a, "rmb") /\ Calls' = Calls
      BY <1>1, <1>5, <3>1, BusyCall
    <3>3. file' = [file EXCEPT ![e] = None]
      BY <2>1, <2>2
    <3>4. Abs!Drop(a)
      BY <1>1, <2>2, <3>2, <3>3 DEF Abs!Drop, Calls
    <3>5. QED
      BY <3>4 DEF Abs!Next
  <2>3. CASE ~(e \in Internal /\ file[e] # None)
    <3>1. UNCHANGED file
      BY <2>1, <2>3, TreeFacts
    <3>2. QED
      BY <1>3, <1>5, <3>1
  <2>4. QED
    BY <2>2, <2>3
<1>6. QED
  BY <1>1, <1>2, <1>3, <1>4, <1>5 DEF Swept

\* A deletion of the bucket takes effect when its own directory, which is empty, goes.
LEMMA RootRefines ==
  ASSUME Setting, IInv, NEW a \in Actors, remove_bucket_dir(a)
  PROVE  [Abs!Next]_(Abs!vars)
<1>1. op[a].pc = "rmroot" /\ op[a].pc \in RmbSteps /\ op[a].kind = "rmb" /\ UNCHANGED file
  BY RootSteps DEF RmbSteps
<1>2. CASE Deleting(a) /\ UNCHANGED tree
  BY <1>1, <1>2, DeletingRefines DEF Still
<1>3. CASE ~(Deleting(a) /\ UNCHANGED tree)
  <2>1. /\ CanRemove(1) /\ tree' = 0 /\ Keeps(a)
        /\ op'[a].pc = "done" /\ op'[a].res \in {"ok", "unpruned"}
    BY <1>3, RootSteps DEF Keeps
  <2>2. tree = 1
    BY <2>1 DEF CanRemove, EmptyDir
  <2>3. \A n \in Names : file[n] = None
    BY <2>2, TreeFacts
  <2>4. Abs!Asked(a, "rmb") /\ Abs!Answer(a, "ok")
    BY <1>1, <2>1, BusyCall
  <2>5. Abs!DeleteBucket(a)
    BY <1>1, <2>1, <2>2, <2>3, <2>4 DEF Abs!DeleteBucket, Abs!Vanish, Calls
  <2>6. QED
    BY <2>5 DEF Abs!Next
<1>4. QED
  BY <1>2, <1>3

\* The steps before it.
LEMMA DeleteBucketRefines ==
  ASSUME Setting, IInv, NEW a \in Actors,
         \/ delete_bucket(a) \/ dir_has_visible_data_recursive(a)
         \/ remove_subdir(a) \/ remove_deltaspaces(a) \/ prune_bucket_root_residue(a)
  PROVE  [Abs!Next]_(Abs!vars)
<1>1. op[a].pc \in RmbSteps
  BY DEF delete_bucket, dir_has_visible_data_recursive, remove_subdir, remove_deltaspaces,
         prune_bucket_root_residue, RmbSteps
<1>2. Deleting(a) /\ UNCHANGED file
  BY LookDeletes, SubdirSteps, DeltaspacesSteps, RootResidueSteps
<1>3. tree' > 0 <=> tree > 0
  <2>1. CASE delete_bucket(a) \/ dir_has_visible_data_recursive(a) \/ prune_bucket_root_residue(a)
    BY <2>1, LookDeletes, RootResidueSteps
  <2>2. CASE remove_subdir(a)
    BY <2>2, SubdirSteps, TreeFacts DEF CanRemove, EmptyDir
  <2>3. CASE remove_deltaspaces(a)
    BY <2>3, DeltaspacesSteps, TreeFacts DEF CanRemove, EmptyDir
  <2>4. QED
    BY <2>1, <2>2, <2>3
<1>4. QED
  BY <1>1, <1>2, <1>3, DeletingRefines DEF Still

LEMMA CrashRefines ==
  ASSUME Setting, Crash
  PROVE  Abs!Next
<1>1. Seen(Idle) = None
  BY DEF Seen, Idle, Rest, Task
<1>2. Calls' = [a \in Actors |-> None]
  BY <1>1, CallsAre DEF Crash
<1>3. Abs!Crash
  BY <1>2 DEF Abs!Crash, Calls, Crash
<1>4. QED
  BY <1>3 DEF Abs!Next

LEMMA NextRefines ==
  ASSUME Setting, IInv, [Next]_vars
  PROVE  [Abs!Next]_(Abs!vars)
<1>1. CASE UNCHANGED vars
  <2>1. UNCHANGED <<op, tree, file>>
    BY <1>1 DEF vars
  <2>2. Calls' = Calls
    BY <2>1, CallsAre
  <2>3. QED
    BY <2>1, <2>2 DEF Abs!vars, Calls
<1>2. ASSUME NEW a \in Actors, Step(a) PROVE [Abs!Next]_(Abs!vars)
  <2>1. \/ Request(a) \/ Continue(a) \/ Return(a)
        \/ require_bucket_exists(a) \/ ensure_dir(a) \/ create_dir(a)
        \/ atomic_write_with_metadata(a) \/ persist(a)
        \/ create_dir_all(a) \/ unlink_destination(a) \/ hardlink_or_copy(a)
        \/ write_metadata(a) \/ delete_object_file(a) \/ prune_empty_dirs(a)
        \/ create_bucket(a) \/ delete_bucket(a) \/ dir_has_visible_data_recursive(a)
        \/ prune_invisible_data_recursive(a) \/ remove_subdir(a) \/ remove_deltaspaces(a)
        \/ prune_bucket_root_residue(a) \/ remove_bucket_dir(a)
    BY <1>2 DEF Step
  <2>2. QED
    BY <2>1, AskRefines, ReturnRefines, PrepareRefines, PersistRefines, LinkRefines,
       AttrRefines, DeleteRefines, PruneRefines, CreateBucketRefines, DeleteBucketRefines,
       SweepRefines, RootRefines
<1>3. QED
  BY <1>1, <1>2, CrashRefines DEF Next

LEMMA InitRefines ==
  ASSUME Setting, Init
  PROVE  Abs!Init
<1>1. Seen(Idle) = None
  BY DEF Seen, Idle, Rest, Task
<1>2. Calls = [a \in Actors |-> None]
  BY <1>1, CallsAre DEF Init
<1>3. QED
  BY <1>2 DEF Abs!Init, Calls, Init

\* Every operation of the filesystem backend takes effect at one instant, bytes and metadata
\* together, or fails without a trace; a bucket goes only when empty and comes back only by
\* create_bucket (or put_reference_from_file): Linearizable, whatever the tasks, their
\* programs, the files, the depth of the tree and the crashes.
THEOREM Implements == ASSUME Setting PROVE Spec => Linearizable
<1>1. Init => IInv /\ Abs!Init
  BY InitInv, InitRefines
<1>2. IInv /\ [Next]_vars => IInv'
  BY NextInv
<1>3. IInv /\ [Next]_vars => [Abs!Next]_(Abs!vars)
  BY NextRefines
<1>4. QED
  BY <1>1, <1>2, <1>3, PTL DEF Spec, Linearizable, Abs!Spec
=============================================================================
