----------------------------- MODULE MCObjects -----------------------------
(* Where requests enter and where objects end up, in one run of parts of    *)
(* their own: the handlers over one bucket, with the counter and the events *)
(* they owe, two multipart uploads that fill the byte budget, the registry  *)
(* of savings scans, the encryption wrapper over one object, and the        *)
(* filesystem backend, shown to implement ObjectStore.  The backend's       *)
(* variables are those of FsBackend, at rest in the other parts; the        *)
(* others' are at None.                                                     *)
EXTENDS FsBackend, TLC

CONSTANTS w, x, adm, c1, c2, k1, k2, Panicked, Error, Ciphertext, Parts

VARIABLES
    part,
    bucket, faults,                                                 \* shared
    obj, policy, row, usage, scan, refresh, told, changed, req, blur, changes, requests,
    policies, refreshes,                                            \* FrontEnd
    entry, saved, worker, forget, prior, cut, clean, kept, scans, forgets, \* BucketScan
    uploads, now, made, files, dirTime, inflight, owed, slot, pc, upl, list, mode, data, owner,
    outcome, active, object, aborted, left,                         \* Multipart
    isDelta, sealed, conf, orderly, writer, remark, reader, writes, swaps, reads
                                                                        \* Encrypting

FrontVars == <<obj, policy, row, usage, scan, refresh, told, changed, req, blur, changes,
               requests, policies, refreshes>>
ScanVars == <<entry, saved, worker, forget, prior, cut, clean, kept, scans, forgets>>
UploadVars == <<uploads, now, made, files, dirTime, inflight, owed, slot, pc, upl, list, mode,
                data, owner, outcome, active, object, aborted, left>>
EncVars == <<isDelta, sealed, conf, orderly, writer, remark, reader, writes, swaps, reads>>
all == <<part, bucket, faults, vars, FrontVars, ScanVars, UploadVars, EncVars>>

-----------------------------------------------------------------------------
\* A filesystem: two writers in a deltaspace, its reference, and an administrator.
Call(first, kind, n, v) == [pc |-> first, kind |-> kind, name |-> n, val |-> v]
Del(n) == Call("find", "del", n, None)
Buckets(i) == Call(i, i, None, None)
FileLevel == [n \in Names |-> Depth]
FilePrograms ==
    [i \in Actors |->
        CASE i = w -> {<<Call("require", "put", "r", 1), Call("require", "put", "d", 1)>>,
                       <<Call("require", "link", "r", 2), Call("require", "put", "d", 2)>>,
                       <<Del("d"), Del("r")>>}
          [] i = x -> {<<Call("require", "put", "d", 2)>>, <<Call("require", "meta", "d", 2)>>,
                       <<Del("d")>>}
          [] i = adm -> {<<Buckets("mkb")>>, <<Buckets("rmb")>>}]

\* It is within what the refinement is proved for.
ASSUME Setting

Policy(marked, quota) == [marked |-> marked, quota |-> quota]

\* Form uploads, deletions one by one and in batches, and a Refresh, over two keys.
V == INSTANCE FrontEnd WITH
        Clients <- {c1, c2}, Keys <- {1, 2}, Sizes <- {1}, Paths <- {"store"},
        Ops <- {"form", "delete", "batch"}, Policies <- {Policy(FALSE, None)},
        Faults <- {"db", "head", "gone", "crash"},
        MaxRequests <- 2, MaxPolicies <- 0, MaxRefreshes <- 1, MaxFaults <- 1

\* The other handlers over one key, under policies that change.
H == INSTANCE FrontEnd WITH
        Clients <- {c1, c2}, Keys <- {1}, Sizes <- {1, 2}, Paths <- {"store"},
        Ops <- {"put", "copy", "complete", "sweep", "drop"},
        Policies <- {Policy(FALSE, 2), Policy(TRUE, None)},
        Faults <- {"scan", "head"},
        MaxRequests <- 2, MaxPolicies <- 1, MaxRefreshes <- 0, MaxFaults <- 1

\* The registry of savings scans.
B == INSTANCE BucketScan WITH
        MaxPages <- 2, MaxScans <- 3, MaxForgets <- 2, MaxFaults <- 2,
        Faults <- {"list", "panic", "disk", "crash"}, file <- saved

\* Two uploads of two parts that fill the byte budget without being completed.
P == INSTANCE Multipart WITH
        Uploads <- {w, x}, Parts <- {1, 2}, Contents <- {1, 2}, Tasks <- {}, Eligible <- {w},
        MaxObject <- 3, MaxTotal <- 4, MaxUploads <- 2, Relay <- 1, MaxAge <- 1,
        Timeout <- 1, TombTtl <- 1, MaxTime <- 2, MaxFaults <- 0

\* Objects of an empty, an uneven and an even number of bytes, two keys, one rotation.
E == INSTANCE Encrypting WITH
        W <- 2, Sizes <- {0, 3, 4}, Keys <- {k1, k2}, Modes <- {"aes"},
        LegacyIds <- {"stamped"}, Writers <- {w}, Readers <- {x}, MaxWrites <- 2,
        MaxSwaps <- 1, MaxReads <- 1, Panic <- Panicked, obj <- sealed, clean <- orderly

Symmetry == Permutations({c1, c2})

-----------------------------------------------------------------------------
NoFs == /\ tree = 0 /\ file = [n \in Names |-> None] /\ op = [i \in Actors |-> Idle]
        /\ residue = None /\ walk = None /\ gone = None /\ ops = None /\ crashes = None
NoFront == /\ obj = None /\ policy = None /\ row = None /\ usage = None /\ scan = None
           /\ refresh = None /\ told = None /\ changed = None /\ req = None /\ blur = None
           /\ changes = None /\ requests = None /\ policies = None /\ refreshes = None
NoScan == /\ entry = None /\ saved = None /\ worker = None /\ forget = None /\ prior = None /\ cut = None
          /\ clean = None /\ kept = None /\ scans = None /\ forgets = None
NoUpload == /\ uploads = None /\ now = None /\ made = None /\ files = None /\ dirTime = None /\ inflight = None
            /\ owed = None /\ slot = None /\ pc = None /\ upl = None /\ list = None
            /\ mode = None /\ data = None /\ owner = None /\ outcome = None /\ active = None
            /\ object = None /\ aborted = None /\ left = None
NoEnc == /\ isDelta = None /\ sealed = None /\ conf = None /\ orderly = None /\ writer = None
         /\ remark = None
         /\ reader = None /\ writes = None /\ swaps = None /\ reads = None
OnlyFs == NoFront /\ NoScan /\ NoUpload /\ NoEnc /\ bucket = None /\ faults = None
OnlyFront == NoFs /\ NoScan /\ NoUpload /\ NoEnc
OnlyScan == NoFs /\ NoFront /\ NoUpload /\ NoEnc /\ bucket = None
OnlyUpload == NoFs /\ NoFront /\ NoScan /\ NoEnc /\ bucket = None
OnlyEnc == NoFs /\ NoFront /\ NoScan /\ NoUpload /\ bucket = None /\ faults = None

OInit ==
    /\ part \in Parts
    /\ \/ part = "fs" /\ Init /\ OnlyFs
       \/ part = "writes" /\ V!Init /\ OnlyFront
       \/ part = "handlers" /\ H!Init /\ OnlyFront
       \/ part = "scan" /\ B!Init /\ OnlyScan
       \/ part = "bytes" /\ P!Init /\ OnlyUpload
       \/ part = "encrypt" /\ E!Init /\ OnlyEnc

InFs == UNCHANGED <<part, FrontVars, ScanVars, UploadVars, EncVars, bucket, faults>>
InFront == UNCHANGED <<part, vars, ScanVars, UploadVars, EncVars>>
InScan == UNCHANGED <<part, vars, FrontVars, UploadVars, EncVars, bucket>>
InUpload == UNCHANGED <<part, vars, FrontVars, ScanVars, EncVars, bucket>>
InEnc == UNCHANGED <<part, vars, FrontVars, ScanVars, UploadVars, bucket, faults>>

ONext ==
    \/ part = "fs" /\ Next /\ InFs
    \/ part = "writes" /\ V!Next /\ InFront
    \/ part = "handlers" /\ H!Next /\ InFront
    \/ part = "scan" /\ B!Next /\ InScan
    \/ part = "bytes" /\ P!Next /\ InUpload
    \/ part = "encrypt" /\ E!Next /\ InEnc

OSpec == OInit /\ [][ONext]_all

-----------------------------------------------------------------------------

\* A GET answers with exactly the bytes asked for, of one version, or fails, and it does not
\* fail while the object stays as it was; and after a key rotation done as documented every
\* stored object can still be read.
ReadExact == part = "encrypt" => E!ReadExact /\ E!Readable

\* A handler's promises: the last change of a key has an event after it, a bucket is changed
\* by a client only if it was open to clients at some time in the request, and If-None-Match
\* replaces nothing that was there when the request began, unless a fault intervenes.
HandlersSound ==
    /\ part = "writes" => V!EventsFollow
    /\ part = "handlers" => H!OpenToClients /\ H!CreatesOnly
=============================================================================
