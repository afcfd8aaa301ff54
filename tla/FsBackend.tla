------------------------------ MODULE FsBackend ------------------------------
(* The filesystem backend (src/storage/filesystem.rs): one bucket as a chain  *)
(* of directories - the bucket's own, deltaspaces/ below it, one prefix below *)
(* that and so on - of which the first `tree` exist.  A file sits in the      *)
(* directory of its level and carries its metadata in an extended attribute.  *)
(* Each system call is a step; the tasks interleave between them.             *)
EXTENDS Naturals, FiniteSets, Sequences

CONSTANTS Actors, Names, Internal, Vals, None,
          Depth,       \* directories in the chain; 1 is the bucket, 2 is deltaspaces/
          Level,       \* [Names -> 2..Depth], the directory of each file
          Programs,    \* what an actor may be given to do: sequences of operations
          MaxOps, MaxCrashes

VARIABLES tree,        \* how many directories of the chain exist
          file,        \* file[n]: the bytes and the attribute of the file n, or None
          residue,     \* directories that hold a hidden file no task owns
          op,          \* what each task is doing
          walk,        \* the walk of each delete_bucket over the directories
          gone,        \* tasks during whose operation the bucket was missing at some time
          ops, crashes

vars == <<tree, file, residue, op, walk, gone, ops, crashes>>

\* The directory the walk is in, what it has listed there and not looked at, and whether
\* it has left something in place.
Walk(base, left, kept) == [base |-> base, left |-> left, kept |-> kept]
NoWalk == Walk(0, [l \in 2..Depth |-> {}], [l \in 2..Depth |-> FALSE])

\* The operation, the level it has got to, its temporary file, the answer, and what the
\* request still has to do.
Task(pc, kind, name, val, res, todo) ==
    [pc |-> pc, kind |-> kind, name |-> name, val |-> val, at |-> 0, tmp |-> FALSE,
     res |-> res, todo |-> todo]
Rest(todo) == Task("idle", None, None, None, None, todo)
Idle == Rest(<<>>)

\* The operations a program may be made of, each with its first step.
Start == (([pc : {"require"}, kind : {"put", "meta"}, name : Names, val : Vals]
             \cup [pc : {"require"}, kind : {"link"}, name : Internal, val : Vals])
            \cup [pc : {"find"}, kind : {"del"}, name : Names, val : {None}])
           \cup ([pc : {"mkb"}, kind : {"mkb"}, name : {None}, val : {None}]
                   \cup [pc : {"rmb"}, kind : {"rmb"}, name : {None}, val : {None}])

ProgramsFit == Programs \in [Actors -> SUBSET (Seq(Start) \ {<<>>})]

Inode == [data : Vals, meta : Vals \cup {None}]

Kinds == {"put", "link", "meta", "del", "mkb", "rmb"}
Results == {"ok", "nobucket", "nokey", "notempty", "error", "unpruned"}
PutSteps == {"isdir", "mkdir", "temp", "persist"}
LinkSteps == {"mkdirs", "unlink", "link"}
DelSteps == {"find", "remove", "prune"}
RmbSteps == {"rmb", "deltaspaces", "look", "sweep", "rmsub", "rmds", "root", "rmroot"}
Op == [pc : {"idle", "done", "require", "attr", "mkb"} \cup PutSteps \cup LinkSteps
              \cup DelSteps \cup RmbSteps,
       kind : Kinds \cup {None}, name : Names \cup {None}, val : Vals \cup {None},
       at : Nat, tmp : BOOLEAN, res : Results \cup {None}, todo : Seq(Start)]

\* What the code relies on of the tree: a file or a temporary file only in a directory
\* that exists.
TypeOK == /\ tree \in 0..Depth
          /\ file \in [Names -> Inode \cup {None}]
          /\ op \in [Actors -> Op]
          /\ residue \subseteq 1..tree
          /\ \A n \in Names : file[n] # None => Level[n] <= tree
          /\ \A a \in Actors : op[a].tmp => op[a].name \in Names /\ Level[op[a].name] <= tree

-----------------------------------------------------------------------------
\* What the directory of level l holds.
Temps(l) == {a \in Actors : op[a].tmp /\ Level[op[a].name] = l}
FilesAt(l) == {n \in Names : Level[n] = l /\ file[n] # None}
EmptyDir(l) == tree = l /\ FilesAt(l) = {} /\ Temps(l) = {} /\ l \notin residue
Entries(l) == FilesAt(l) \cup Temps(l) \cup (IF l \in residue THEN {"residue"} ELSE {})
Subdir(l) == IF tree > l THEN {"sub"} ELSE {}

Here(a) == Level[op[a].name]
At(o, pc, at) == [o EXCEPT !.pc = pc, !.at = at]
GotoAt(a, pc, at) == op' = [op EXCEPT ![a] = At(op[a], pc, at)]
Goto(a, pc) == GotoAt(a, pc, op[a].at)
Done(o, res) == Task("done", o.kind, o.name, o.val, res, IF res = "ok" THEN o.todo ELSE <<>>)
Finish(a, res) == op' = [op EXCEPT ![a] = Done(op[a], res)]
Bookkept == UNCHANGED <<gone, ops, crashes>>
NoWalking == UNCHANGED walk /\ Bookkept

-----------------------------------------------------------------------------
\* A client's request, or the next operation of the one that is running.
Begin(a, o, todo) ==
    /\ op' = [op EXCEPT ![a] = Task(o.pc, o.kind, o.name, o.val, None, todo)]
    /\ gone' = IF tree = 0 THEN gone \cup {a} ELSE gone \ {a}
    /\ UNCHANGED <<tree, file, residue, walk, crashes>>

Request(a) ==
    /\ op[a].pc = "idle" /\ op[a].todo = <<>> /\ ops < MaxOps
    /\ ops' = ops + 1
    /\ \E p \in Programs[a] : Begin(a, Head(p), Tail(p))

Continue(a) ==
    /\ op[a].pc = "idle" /\ op[a].todo # <<>>
    /\ Begin(a, Head(op[a].todo), Tail(op[a].todo)) /\ UNCHANGED ops

Return(a) ==
    /\ op[a].pc = "done"
    /\ op' = [op EXCEPT ![a] = Rest(op[a].todo)]
    /\ walk' = [walk EXCEPT ![a] = NoWalk]
    /\ UNCHANGED <<tree, file, residue>> /\ Bookkept

require_bucket_exists(a) ==
    /\ op[a].pc = "require"
    /\ IF tree = 0 THEN Finish(a, "nobucket")
       ELSE Goto(a, CASE op[a].kind = "put" -> "isdir" [] op[a].kind = "link" -> "mkdirs"
                      [] op[a].kind = "meta" -> "attr")
    /\ UNCHANGED <<tree, file, residue>> /\ NoWalking

-----------------------------------------------------------------------------
\* ensure_dir looks for the bucket and then makes one directory after the other below it.
ensure_dir(a) ==
    /\ op[a].pc = "isdir"
    /\ IF tree = 0 THEN Finish(a, "nobucket")
       ELSE GotoAt(a, "mkdir", 2)
    /\ UNCHANGED <<tree, file, residue>> /\ NoWalking

MakeDir(l) == tree + 1 = l /\ tree' = l

create_dir(a) ==
    /\ op[a].pc = "mkdir"
    /\ \E l \in {op[a].at} :
       \/ /\ tree >= l \/ MakeDir(l)
          /\ tree >= l => UNCHANGED tree
          /\ GotoAt(a, IF l = Here(a) THEN "temp" ELSE "mkdir", l + 1)
       \/ /\ tree + 1 < l /\ Finish(a, "nobucket") /\ UNCHANGED tree
    /\ UNCHANGED <<file, residue>> /\ NoWalking

\* NamedTempFile::new_in, the bytes, the attribute and the sync: all on a hidden file.
atomic_write_with_metadata(a) ==
    /\ op[a].pc = "temp"
    /\ IF tree < Here(a) THEN Finish(a, "error")
       ELSE op' = [op EXCEPT ![a] = [op[a] EXCEPT !.pc = "persist", !.tmp = TRUE]]
    /\ UNCHANGED <<tree, file, residue>> /\ NoWalking

\* Mutant: the attribute is written to the final path, after the rename.
PersistBare(a) == [data |-> op[a].val, meta |-> None]

Persisted(a) == [data |-> op[a].val, meta |-> op[a].val]

persist(a) ==
    /\ op[a].pc = "persist"
    /\ IF op[a].tmp
       THEN file' = [file EXCEPT ![op[a].name] = Persisted(a)] /\ Finish(a, "ok")
       ELSE Finish(a, "error") /\ UNCHANGED file
    /\ UNCHANGED <<tree, residue>> /\ NoWalking

-----------------------------------------------------------------------------
\* put_reference_from_file: create_dir_all, then hardlink_or_copy - remove what is there,
\* link or copy the spooled file - and the attribute last.
create_dir_all(a) ==
    /\ op[a].pc = "mkdirs"
    /\ tree' = IF tree < Here(a) THEN Here(a) ELSE tree
    /\ Goto(a, "unlink") /\ UNCHANGED <<file, residue>> /\ NoWalking

unlink_destination(a) ==
    /\ op[a].pc = "unlink"
    /\ file' = [file EXCEPT ![op[a].name] = None]
    /\ Goto(a, "link") /\ UNCHANGED <<tree, residue>> /\ NoWalking

hardlink_or_copy(a) ==
    /\ op[a].pc = "link"
    /\ IF tree < Here(a) THEN Finish(a, "error") /\ UNCHANGED file
       ELSE \E old \in {file[op[a].name]} :
            /\ file' = [file EXCEPT ![op[a].name] =
                            [data |-> op[a].val, meta |-> IF old = None THEN None ELSE old.meta]]
            /\ Goto(a, "attr")
    /\ UNCHANGED <<tree, residue>> /\ NoWalking

write_metadata(a) ==
    /\ op[a].pc = "attr"
    /\ IF file[op[a].name] = None THEN Finish(a, "error") /\ UNCHANGED file
       ELSE file' = [file EXCEPT ![op[a].name].meta = op[a].val] /\ Finish(a, "ok")
    /\ UNCHANGED <<tree, residue>> /\ NoWalking

-----------------------------------------------------------------------------
delete_object_file(a) ==
    /\ \/ /\ op[a].pc = "find"
          /\ IF file[op[a].name] = None THEN Finish(a, "nokey") ELSE Goto(a, "remove")
          /\ UNCHANGED file
       \/ /\ op[a].pc = "remove"
          /\ IF file[op[a].name] = None THEN Finish(a, "nokey") /\ UNCHANGED file
             ELSE /\ file' = [file EXCEPT ![op[a].name] = None]
                  /\ GotoAt(a, "prune", Here(a))
    /\ UNCHANGED <<tree, residue>> /\ NoWalking

\* remove_dir succeeds on an empty directory.
CanRemove(l) == EmptyDir(l)

\* The file is gone by now: a directory that cannot be removed for any other reason than
\* what is in it answers an error for a deletion that has taken effect.
prune_empty_dirs(a) ==
    /\ op[a].pc = "prune"
    /\ \E l \in {op[a].at} :
       \/ /\ l > 2 /\ (tree < l \/ CanRemove(l))
          /\ tree' = IF tree < l THEN tree ELSE l - 1
          /\ GotoAt(a, "prune", l - 1)
       \/ /\ ~(l > 2 /\ (tree < l \/ CanRemove(l)))
          /\ Finish(a, "ok") /\ UNCHANGED tree
       \/ /\ l > 2 /\ Finish(a, "unpruned") /\ UNCHANGED tree
    /\ UNCHANGED <<file, residue>> /\ NoWalking

-----------------------------------------------------------------------------
create_bucket(a) ==
    /\ op[a].pc = "mkb"
    /\ tree' = IF tree = 0 THEN 1 ELSE tree
    /\ Finish(a, "ok") /\ UNCHANGED <<file, residue>> /\ NoWalking

\* delete_bucket: is it there, are there deltaspaces, and the walk over them.
delete_bucket(a) ==
    /\ \/ /\ op[a].pc = "rmb"
          /\ IF tree = 0 THEN Finish(a, "nobucket") ELSE Goto(a, "deltaspaces")
          /\ UNCHANGED walk
       \/ /\ op[a].pc = "deltaspaces"
          /\ GotoAt(a, IF tree < 2 THEN "root" ELSE "look", 2)
          /\ walk' = [walk EXCEPT ![a] = Walk(2, walk[a].left, walk[a].kept)]
    /\ UNCHANGED <<tree, file, residue>> /\ Bookkept

\* The walk over directory l is over: its parent goes on with the verdict.
Walked(a, l, empty) ==
    IF l = 2
    THEN /\ IF empty THEN Goto(a, "rmds") ELSE Finish(a, "notempty")
         /\ UNCHANGED walk
    ELSE /\ Goto(a, IF empty THEN "rmsub" ELSE "sweep")
         /\ walk' = [walk EXCEPT ![a] = Walk(l - 1, walk[a].left,
                                              [walk[a].kept EXCEPT ![l - 1] = @ \/ ~empty])]

dir_has_visible_data_recursive(a) ==
    /\ op[a].pc = "look"
    /\ \E l \in {walk[a].base}, m \in {op[a].at} :
       \/ tree < m /\ m = l /\ Walked(a, l, TRUE)
       \/ tree >= m /\ FilesAt(m) \ Internal # {} /\ Walked(a, l, FALSE)
       \/ /\ tree > m /\ FilesAt(m) \subseteq Internal
          /\ GotoAt(a, "look", m + 1) /\ UNCHANGED walk
       \/ /\ (tree = m /\ FilesAt(m) \subseteq Internal) \/ (tree < m /\ m # l)
          /\ Goto(a, "sweep")
          /\ walk' = [walk EXCEPT ![a] = Walk(l, [walk[a].left EXCEPT ![l] = Entries(l) \cup Subdir(l)],
                                               [walk[a].kept EXCEPT ![l] = FALSE])]
    /\ UNCHANGED <<tree, file, residue>> /\ Bookkept

\* Entry e of directory l is dealt with.
Ticked(a, l, e, keep) ==
    walk' = [walk EXCEPT ![a] = Walk(l, [walk[a].left EXCEPT ![l] = @ \ {e}],
                                        [walk[a].kept EXCEPT ![l] = @ \/ keep])]

\* One entry of the directory at a time, those that appear meanwhile or not: hidden files
\* and references are removed, a visible file is kept, a directory is walked in turn.
prune_invisible_data_recursive(a) ==
    /\ op[a].pc = "sweep"
    /\ \E l \in {walk[a].base} :
       \/ /\ walk[a].left[l] = {}
          /\ Walked(a, l, ~walk[a].kept[l]) /\ UNCHANGED <<file, residue>>
       \/ /\ "sub" \in walk[a].left[l]
          /\ GotoAt(a, "look", l + 1)
          /\ walk' = [walk EXCEPT ![a] = Walk(l + 1, [walk[a].left EXCEPT ![l] = @ \ {"sub"}],
                                               walk[a].kept)]
          /\ UNCHANGED <<file, residue>>
       \/ /\ walk[a].left[l] # {}
          /\ \E e \in walk[a].left[l] \cup Entries(l) :
             \/ /\ e = "residue" /\ residue' = residue \ {l}
                /\ Ticked(a, l, e, FALSE) /\ UNCHANGED <<op, file>>
             \/ /\ e \in Names
                /\ file' = [file EXCEPT ![e] = IF e \in Internal THEN None ELSE @]
                /\ Ticked(a, l, e, e \notin Internal) /\ UNCHANGED <<op, residue>>
             \/ /\ e \in Actors /\ op' = [op EXCEPT ![e] = [op[e] EXCEPT !.tmp = FALSE]]
                /\ Ticked(a, l, e, FALSE) /\ UNCHANGED <<file, residue>>
    /\ UNCHANGED tree /\ Bookkept

\* remove_dir of a directory the walk found empty; what came in meanwhile keeps it.
remove_subdir(a) ==
    /\ op[a].pc = "rmsub"
    /\ \E l \in {walk[a].base + 1} :
       /\ tree' = IF CanRemove(l) THEN l - 1 ELSE tree
       /\ walk' = [walk EXCEPT ![a] = Walk(l - 1, walk[a].left,
                        [walk[a].kept EXCEPT ![l - 1] = @ \/ tree > l \/ (tree = l /\ ~CanRemove(l))])]
    /\ Goto(a, "sweep")
    /\ UNCHANGED <<file, residue>> /\ Bookkept

remove_deltaspaces(a) ==
    /\ op[a].pc = "rmds"
    /\ IF tree < 2 \/ CanRemove(2)
       THEN tree' = (IF tree < 2 THEN tree ELSE 1) /\ Goto(a, "root")
       ELSE Finish(a, "notempty") /\ UNCHANGED tree
    /\ UNCHANGED <<file, residue>> /\ NoWalking

prune_bucket_root_residue(a) ==
    /\ op[a].pc = "root"
    /\ residue' = residue \ {1}
    /\ Goto(a, "rmroot") /\ UNCHANGED <<tree, file>> /\ NoWalking

remove_bucket_dir(a) ==
    /\ op[a].pc = "rmroot"
    /\ IF tree = 0 THEN Finish(a, "nobucket") /\ UNCHANGED <<tree, gone>>
       ELSE IF CanRemove(1)
       THEN /\ tree' = 0 /\ gone' = Actors /\ Finish(a, "ok")
       ELSE Finish(a, "notempty") /\ UNCHANGED <<tree, gone>>
    /\ UNCHANGED <<file, residue, walk, ops, crashes>>

-----------------------------------------------------------------------------
\* The process dies: what is on disk stays, the temporary files without an owner.
Crash ==
    /\ crashes < MaxCrashes /\ \E a \in Actors : op[a].pc # "idle"
    /\ crashes' = crashes + 1
    /\ residue' = residue \cup {Level[op[a].name] : a \in {b \in Actors : op[b].tmp}}
    /\ op' = [a \in Actors |-> Idle] /\ walk' = [a \in Actors |-> NoWalk] /\ gone' = {}
    /\ UNCHANGED <<tree, file, ops>>

Step(a) == \/ Request(a) \/ Continue(a) \/ Return(a)
           \/ require_bucket_exists(a) \/ ensure_dir(a) \/ create_dir(a)
           \/ atomic_write_with_metadata(a) \/ persist(a)
           \/ create_dir_all(a) \/ unlink_destination(a) \/ hardlink_or_copy(a)
           \/ write_metadata(a) \/ delete_object_file(a) \/ prune_empty_dirs(a)
           \/ create_bucket(a) \/ delete_bucket(a) \/ dir_has_visible_data_recursive(a)
           \/ prune_invisible_data_recursive(a) \/ remove_subdir(a) \/ remove_deltaspaces(a)
           \/ prune_bucket_root_residue(a) \/ remove_bucket_dir(a)

Init == /\ tree \in {0, 1} /\ residue \in SUBSET {l \in {1} : l <= tree}
        /\ file = [n \in Names |-> None]
        /\ op = [a \in Actors |-> Idle] /\ walk = [a \in Actors |-> NoWalk] /\ gone = {}
        /\ ops = 0 /\ crashes = 0

Next == (\E a \in Actors : Step(a)) \/ Crash
Spec == Init /\ [][Next]_vars

-----------------------------------------------------------------------------
\* The backend as its callers see it; an unpruned deletion counts as the deletion it is.
Seen(o) ==
    IF o.kind = None THEN None
    ELSE [kind |-> o.kind, name |-> o.name, val |-> o.val,
          st |-> CASE o.pc = "done" -> IF o.res \in {"ok", "unpruned"} THEN "ok" ELSE "failed"
                   [] o.pc = "prune" -> "ok"
                   [] OTHER -> "asked"]
CallOf(a) == Seen(op[a])

Abs == INSTANCE ObjectStore WITH bucket <- tree > 0, store <- file, Loose <- {},
                                 call <- [a \in Actors |-> CallOf(a)]

\* Every operation of the filesystem backend takes effect at one instant, with bytes and
\* metadata together, or fails without a trace - save a deletion that has taken effect, whose
\* answer is an error when the directories it leaves empty cannot be pruned; delete_bucket
\* removes only a bucket that is empty at that instant, and nothing but create_bucket makes one.
Linearizable == Abs!Spec

\* What the refinement is proved for: any tasks, programs of these operations, files and
\* directory levels.
Setting ==
    /\ ProgramsFit
    /\ Depth \in Nat /\ Depth >= 2 /\ Level \in [Names -> 2..Depth] /\ Internal \subseteq Names
    /\ None \notin Vals /\ None \notin Names /\ None \notin Inode /\ None \notin Kinds
    /\ None \notin Results
    /\ None \notin Abs!Call

\* A delta on disk has its reference beside it: the engine stores the reference before the
\* delta (store.rs) and nothing but the deletion of the last delta removes it.
DeltaHasReference == \A n \in Names \ Internal, r \in Internal :
                        file[n] # None /\ Level[n] = Level[r] => file[r] # None

\* Only create_bucket makes a bucket: a write that comes after its deletion fails.
NoResurrection == [][tree = 0 /\ tree' > 0 => \E a \in Actors : op[a].pc = "mkb"]_vars

\* NoSuchBucket is answered only if the bucket was missing at some time while the
\* operation ran.
NoFalseAlarm == \A a \in Actors : op[a].pc = "done" /\ op[a].res = "nobucket" => a \in gone
=============================================================================
