----------------------------- MODULE MCStorage -----------------------------
(* The engine's work on single objects and the layers below it, in one run *)
(* of parts of their own: the multi-backend router                         *)
(* with failing listings and with an aliased bucket; listings of objects,  *)
(* page by page, over both kinds of backend; reads and the metadata cache; *)
(* the spool budget; the calls of xdelta3; copies between buckets; and the *)
(* S3 backend, shown to implement ObjectStore.  The backend's variables are *)
(* those of S3Backend, at rest in the other parts; the others' are at None. *)
EXTENDS S3Backend, TLC

CONSTANTS a, b, c, d, e, x, y, Unread, InRun

VARIABLES
    part,
    home, roster, cooldown, epoch, now, req, acked, failed, probed, arrived, errors,
                                                                        \* Routing
    raw, write, ask, out, first, touched, pageWrites,                   \* Listing
    pass, delta, ref, held, cache, lock, xlock, w, r, last, version, puts, gets, slips,
                                                                        \* ReadPath
    free, queue, work, space, base, based, stray, count,                \* Spool
    child, pipe, shut, thread, sent, taken, done, signalled, result,    \* Codec
    src, sref, dst, dref, sib, hold, opened, copy, stamp, changes, touches, mishaps, leaked
                                                                        \* Transfer

RouteVars == <<home, roster, cooldown, epoch, now, req, acked, failed, probed, arrived,
               errors>>
PageVars == <<raw, write, ask, out, first, touched, pageWrites>>
ReadVars == <<pass, delta, ref, held, cache, lock, xlock, w, r, last, version, puts, gets,
              slips>>
SpoolVars == <<free, queue, work, space, base, based, stray, count>>
CodecVars == <<child, pipe, shut, thread, sent, taken, done, signalled, result>>
CopyVars == <<src, sref, dst, dref, sib, hold, opened, copy, stamp, changes, touches, mishaps,
              leaked>>
all == <<part, RouteVars, PageVars, ReadVars, SpoolVars, CodecVars, CopyVars, vars>>

-----------------------------------------------------------------------------
\* Two backends and one bucket name, created, deleted and listed while listings fail.
L == INSTANCE Routing WITH
        Requests <- {a, b}, Default <- d, Others <- <<e>>, Names <- {x}, Routes <- <<>>,
        Plumbing <- {}, Kinds <- {"create", "delete", "list"}, ListFresh <- 1,
        ListCooldown <- 2, ListTimeout <- 0, MaxTime <- 2, MaxRequests <- 3, MaxErrors <- 1

\* A name that is an alias of another backend's bucket.
T == INSTANCE Routing WITH
        Requests <- {a, b}, Default <- d, Others <- <<e>>, Names <- {x, y},
        Routes <- y :> [backend |-> e, real |-> x], Plumbing <- {},
        Kinds <- {"create", "delete", "put", "list"}, ListFresh <- 1, ListCooldown <- 2,
        ListTimeout <- 0, MaxTime <- 0, MaxRequests <- 2, MaxErrors <- 1

\* Stored keys, of atoms in byte order: "-" 1, ".0" 2, ".delta" 3, "/" 4, "1" 5,
\* "reference.bin" 6.  On a filesystem no key is a directory of another one.
S3Keys == {<<5>>, <<5, 1>>, <<5, 1, 5>>, <<5, 2>>, <<5, 4, 5>>}
FileKeys == S3Keys \ {<<5>>}
InForm(u, changed) == IF changed THEN Append(u, 3) ELSE u
OneForm(keys) == {{InForm(u, u \in D) : u \in keys} : D \in SUBSET keys}
Query(backend, prefix, delimiter) ==
    [backend |-> backend, prefix |-> prefix, delimiter |-> delimiter]

\* Pages over an S3 backend; one object may be there in both forms.
P == INSTANCE Listing WITH
        Keys <- S3Keys, Delta <- 3, Slash <- 4, Reference <- 6, Hidden <- {<<6>>},
        PageSize <- 3, MaxKeys <- 1, MaxWrites <- 1, writes <- pageWrites,
        Starts <- OneForm(S3Keys) \cup {S \cup {<<5>>, <<5, 3>>} : S \in OneForm(FileKeys)},
        Queries <- {Query("s3", <<>>, FALSE), Query("s3", <<5>>, TRUE)}

\* Pages over a filesystem backend.
F == INSTANCE Listing WITH
        Keys <- FileKeys, Delta <- 3, Slash <- 4, Reference <- 6, Hidden <- {<<6>>},
        PageSize <- 3, MaxKeys <- 1, MaxWrites <- 1, writes <- pageWrites,
        Starts <- OneForm(FileKeys),
        Queries <- {Query("fs", <<>>, TRUE), Query("fs", <<5, 4>>, FALSE)}

\* One reader and one writer, each on either of two nodes, with a write that fails.
R == INSTANCE ReadPath WITH
        Nodes <- {a, b}, Readers <- {x}, Writers <- {y},
        ReadKinds <- {"get", "range", "head", "list", "retrieve"},
        WriteKinds <- {"pass", "delta", "ship", "delete"},
        MaxWrites <- 1, MaxReads <- 2, Faults <- {"write", "throttle"}, MaxFaults <- 1,
        writes <- puts, reads <- gets, faults <- slips

\* Two readers at once on one node.
Q == INSTANCE ReadPath WITH
        Nodes <- {a}, Readers <- {x, y}, Writers <- {b},
        ReadKinds <- {"get", "list"}, WriteKinds <- {"pass", "delta", "delete"},
        MaxWrites <- 1, MaxReads <- 2, Faults <- {}, MaxFaults <- 0,
        writes <- puts, reads <- gets, faults <- slips

\* A superseded form stays where it is.
U == INSTANCE ReadPath WITH
        Nodes <- {a}, Readers <- {x}, Writers <- {y},
        ReadKinds <- {"get", "range", "head"}, WriteKinds <- {"pass", "delta", "delete"},
        MaxWrites <- 2, MaxReads <- 2, Faults <- {"clean"}, MaxFaults <- 1,
        writes <- puts, reads <- gets, faults <- slips

Job(kind, size) == [kind |-> kind, size |-> size]

\* Downloads alone, one of them as large as the budget.
G == INSTANCE Spool WITH
        Requests <- {a, b, c}, Work <- {Job("get", 1), Job("get", 2), Job("get", 4)},
        RefSize <- 1, Budget <- 4, Slots <- 1, Timeouts <- FALSE, Failing <- TRUE,
        MaxRequests <- 4, req <- work, lock <- space, ref <- base

\* Downloads, uploads and copies, which may time out and fail.
M == INSTANCE Spool WITH
        Requests <- {a, b, c},
        Work <- {Job("get", 2), Job("put", 1), Job("put", 2), Job("copy", 2)},
        RefSize <- 2, Budget <- 5, Slots <- 1, Timeouts <- TRUE, Failing <- TRUE,
        MaxRequests <- 3, req <- work, lock <- space, ref <- base

\* Three pipes' worth of input and output, and a reader that takes less than all of it.
B == INSTANCE Codec WITH
        Streaming <- FALSE, Input <- 3, Output <- 3, Messages <- 2, Pipe <- 1, Limit <- 2,
        Misbehaves <- {"hang", "die"}, Clock <- TRUE
S == INSTANCE Codec WITH
        Streaming <- TRUE, Input <- 3, Output <- 3, Messages <- 2, Pipe <- 1, Limit <- 3,
        Misbehaves <- {"hang", "die"}, Clock <- TRUE

\* One copy, with two changes of the source, one of the destination, and two faults; two at
\* once without faults; one that may be cancelled anywhere.
C == INSTANCE Transfer WITH
        Copies <- {a}, Spans <- {1, 2}, Concurrency <- 2, MaxAttempts <- 2,
        Forms <- {"pass", "delta"}, MaxWrites <- 2, MaxTouches <- 1,
        Faults <- {"part", "upload", "finish", "abort", "put", "strip", "heal", "blip"},
        MaxFaults <- 2,
        CancelAt <- {"parts"}, lock <- hold, uploads <- opened, c <- copy,
        version <- stamp, writes <- changes, faults <- mishaps
D == INSTANCE Transfer WITH
        Copies <- {a, b}, Spans <- {1, 2}, Concurrency <- 1, MaxAttempts <- 1,
        Forms <- {"pass", "delta"}, MaxWrites <- 1, MaxTouches <- 1,
        Faults <- {}, MaxFaults <- 0, CancelAt <- {}, lock <- hold, uploads <- opened, c <- copy,
        version <- stamp, writes <- changes, faults <- mishaps
K == INSTANCE Transfer WITH
        Copies <- {a}, Spans <- {1, 2}, Concurrency <- 2, MaxAttempts <- 2,
        Forms <- {"pass", "delta"}, MaxWrites <- 1, MaxTouches <- 1,
        Faults <- {"blip"}, MaxFaults <- 1, CancelAt <- {"begin", "parts", "finish"},
        lock <- hold, uploads <- opened, c <- copy, version <- stamp, writes <- changes,
        faults <- mishaps

\* An S3 service whose answers get lost.  Metadata is replaced by the task that wrote the
\* object, as under the write gate of the backfill job.
Ask(call, n, v) == [call |-> call, name |-> n, val |-> v]
ServicePrograms ==
    [i \in Actors |->
        CASE i = a -> {<<Ask("has", "r", None), Ask("put", "r", 1), Ask("meta", "r", 2)>>,
                       <<Ask("parts", "d", 1)>>, <<Ask("del", "d", None)>>}
          [] i = b -> {<<Ask("put", "d", 2)>>, <<Ask("parts", "d", 2)>>,
                       <<Ask("has", "d", None)>>}
          [] i = c -> {<<Ask("mkb", None, None)>>,
                       <<Ask("hasb", None, None), Ask("rmb", None, None)>>}]

\* An S3 service that denies a request now and then.
N == INSTANCE S3Backend WITH
        Faults <- {"denied"}, MaxFaults <- 1,
        Programs <- [i \in Actors |->
            CASE i = a -> {<<Ask("put", "r", 1), Ask("has", "r", None)>>}
              [] i = b -> {<<Ask("parts", "d", 2)>>}
              [] i = c -> {<<Ask("mkb", None, None)>>, <<Ask("rmb", None, None)>>}]

\* Both are within what the refinement is proved for.
ASSUME Setting /\ N!Setting

-----------------------------------------------------------------------------
NoRoute == /\ home = None /\ roster = None /\ cooldown = None /\ epoch = None /\ now = None
           /\ req = None /\ acked = None /\ failed = None /\ probed = None
           /\ arrived = None /\ errors = None
NoPage == /\ raw = None /\ write = None /\ ask = None /\ out = None /\ first = None
          /\ touched = None /\ pageWrites = None

NoRead == /\ pass = None /\ delta = None /\ ref = None /\ held = None /\ cache = None
          /\ lock = None
          /\ xlock = None /\ w = None /\ r = None /\ last = None /\ version = None
          /\ puts = None /\ gets = None /\ slips = None
NoSpool == /\ free = None /\ queue = None /\ work = None /\ space = None /\ base = None
           /\ based = None /\ stray = None /\ count = None
NoCodec == /\ child = None /\ pipe = None /\ shut = None /\ thread = None /\ sent = None
           /\ taken = None /\ done = None /\ signalled = None /\ result = None
NoCopy == /\ src = None /\ sref = None /\ dst = None /\ dref = None /\ sib = None
          /\ hold = None /\ opened = None /\ copy = None /\ stamp = None
          /\ changes = None /\ touches = None /\ mishaps = None /\ leaked = None

NoService == /\ bucket = FALSE /\ store = [n \in Names |-> None] /\ op = [i \in Actors |-> Idle]
             /\ uploads = None /\ ids = None /\ ops = None /\ faults = None

Below == NoRoute /\ NoPage

SInit ==
    /\ part \in InRun
    /\ \/ /\ Below /\ NoRead /\ NoSpool /\ NoCodec /\ NoCopy
          /\ \/ part = "s3" /\ Init
             \/ part = "denied" /\ N!Init
       \/ /\ NoService
          /\ \/ /\ NoRead /\ NoSpool /\ NoCodec /\ NoCopy
                /\ \/ part = "list" /\ L!Init /\ NoPage
                   \/ part = "alias" /\ T!Init /\ NoPage
                   \/ part = "pages" /\ P!Init /\ NoRoute
                   \/ part = "files" /\ F!Init /\ NoRoute
             \/ /\ Below /\ NoSpool /\ NoCodec /\ NoCopy
                /\ \/ part = "read" /\ R!Init
                   \/ part = "reads" /\ Q!Init
                   \/ part = "leftover" /\ U!Init
             \/ /\ Below /\ NoRead /\ NoCodec /\ NoCopy
                /\ \/ part = "downloads" /\ G!Init
                   \/ part = "spool" /\ M!Init
             \/ /\ Below /\ NoRead /\ NoSpool /\ NoCopy
                /\ \/ part = "codec" /\ B!Init
                   \/ part = "stream" /\ S!Init
             \/ /\ Below /\ NoRead /\ NoSpool /\ NoCodec
                /\ \/ part = "copy" /\ C!Init
                   \/ part = "copies" /\ D!Init
                   \/ part = "cancel" /\ K!Init

SNext ==
    \/ /\ UNCHANGED <<part, RouteVars, PageVars, ReadVars, SpoolVars, CodecVars, CopyVars>>
       /\ \/ part = "s3" /\ Next
          \/ part = "denied" /\ N!Next
    \/ /\ UNCHANGED vars
       /\ \/ /\ UNCHANGED <<part, ReadVars, SpoolVars, CodecVars, CopyVars>>
             /\ \/ part = "list" /\ L!Next /\ UNCHANGED PageVars
                \/ part = "alias" /\ T!Next /\ UNCHANGED PageVars
                \/ part = "pages" /\ P!Next /\ UNCHANGED RouteVars
                \/ part = "files" /\ F!Next /\ UNCHANGED RouteVars
          \/ /\ UNCHANGED <<part, RouteVars, PageVars>>
             /\ \/ /\ UNCHANGED <<SpoolVars, CodecVars, CopyVars>>
                   /\ \/ part = "read" /\ R!Next
                      \/ part = "reads" /\ Q!Next
                      \/ part = "leftover" /\ U!Next
                \/ /\ UNCHANGED <<ReadVars, CodecVars, CopyVars>>
                   /\ \/ part = "downloads" /\ G!Next
                      \/ part = "spool" /\ M!Next
                \/ /\ UNCHANGED <<ReadVars, SpoolVars, CopyVars>>
                   /\ \/ part = "codec" /\ B!Next
                      \/ part = "stream" /\ S!Next
                \/ /\ UNCHANGED <<ReadVars, SpoolVars, CodecVars>>
                   /\ \/ part = "copy" /\ C!Next
                      \/ part = "copies" /\ D!Next
                      \/ part = "cancel" /\ K!Next

SSpec == SInit /\ [][SNext]_all

-----------------------------------------------------------------------------
\* A listing of buckets shows every change that was acknowledged before it began, and reports
\* a backend as cooling only after a failure or while it is being probed.  The pages of a
\* listing of objects together hold every object nobody touched meanwhile, once and in order,
\* and no token of a page skips one.
ListingsSound ==
    /\ part = "list" => L!ListsAcknowledged /\ L!CoolingIsEarned
    /\ part = "alias" => T!ListsAcknowledged /\ T!CoolingIsEarned
    /\ part = "pages" => P!Ascending /\ P!Complete /\ P!PagesGapless
    /\ part = "files" => F!Ascending /\ F!Complete /\ F!PagesGapless


\* The spool budget is never lost or overdrawn, whatever fails or whoever leaves, and downloads never wait for each other in a
\* circle (acquire_pair).  A call of xdelta3 cannot hang on its pipes, returns all of the
\* output or an error, and kills no process but its own.
CodecSound ==
    /\ part = "downloads" => G!BudgetConserved /\ G!DiskBounded /\ G!NotStuck
    /\ part = "spool" => M!BudgetConserved /\ M!DiskBounded
    /\ part = "codec" => B!OkIsWhole /\ B!KillsItsOwn /\ B!PumpsMove
    /\ part = "stream" => S!OkIsWhole /\ S!KillsItsOwn /\ S!PumpsMove

\* A copy that succeeds leaves a readable object, or one that lacks only metadata which the
\* backend dropped and the heal could not put back; none takes a reference from under another
\* object unless a backend error hid it; and none leaves a multipart upload behind.
CopiesSound ==
    /\ part = "copy" => C!CopyWhole /\ C!NeighboursSafe /\ C!NoneDangling
    /\ part = "copies" => D!CopyWhole /\ D!NeighboursKept /\ D!NoneDangling
    /\ part = "cancel" => K!CopyWhole
=============================================================================
