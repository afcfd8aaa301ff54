-------------------------------- MODULE Spool --------------------------------
(***************************************************************************)
(* Large objects go through temporary files whose bytes are reserved from  *)
(* a budget (spool.rs), and through a bounded number of codec slots.  A    *)
(* GET of a large delta reserves room for reference and result together; a *)
(* large PUT has its body in a spool already when it reserves room for     *)
(* reference and delta; a copy streams the spooled result of such a GET    *)
(* into a spool of its own and stores that one like a PUT.                 *)
(*                                                                         *)
(* The budget is a fair weighted semaphore: requests are served in order,  *)
(* and one that asks for more than there is in all asks for all of it.     *)
(* Sizes are in units of the semaphore (MiB).  A wait may be given up when *)
(* its time is over (Timeouts); a client may break off a download, or      *)
(* leave while the codec runs: the request's permits and files go then,    *)
(* the blocking thread goes on without them.                               *)
(***************************************************************************)
EXTENDS Naturals, Sequences, FiniteSets, FiniteSetsExt, SequencesExt

CONSTANTS
    Requests,       \* request slots
    Work,           \* what they may be: a set of [kind, size]
    RefSize,        \* size of the reference a deltaspace may start with
    Budget,         \* the budget, DGP_SPOOL_MAX_BYTES
    Slots,          \* codec slots
    Timeouts,       \* TRUE: waits may time out
    Failing,        \* TRUE: storage calls may fail
    MaxRequests     \* bound: requests that begin

VARIABLES
    free,           \* units of the budget nobody holds
    queue,          \* who waits for the budget, first come first served
    req,            \* [Requests -> request]
    lock,           \* the request that holds the deltaspace's lock, or "none"
    ref,            \* size of the deltaspace's reference, 0: there is none
    based,          \* some stored delta was made from it
    stray,          \* [Requests -> units on disk of a codec call whose request is gone]
    count

vars == <<free, queue, req, lock, ref, based, stray, count>>

Idle == [pc |-> "idle"]
Active == {x \in Requests : req[x].pc # "idle"}

-----------------------------------------------------------------------------
(* The budget.                                                             *)

Clamped(units) == IF units > Budget THEN Budget ELSE IF units = 0 THEN 1 ELSE units

\* acquire_pair: one reservation for both files, the reference's at its own size.
RefUnits(size) == IF ref = 0 THEN size ELSE ref
PairBySteps(size) == <<Clamped(RefUnits(size)), Clamped(size)>>
acquire_pair(size) == <<Clamped(RefUnits(size) + size)>>

\* A request asks for each of `wants` in turn and then goes on at `then`.
Reserve(x, wants, then) ==
    /\ queue' = Append(queue, x)
    /\ req' = [req EXCEPT ![x].pc = "wait", ![x].wants = wants, ![x].then = then]

\* The head of the queue gets its permits once there are enough; a wait that is the first of
\* several is followed by the next one.
Grant(x) ==
    /\ queue # <<>> /\ Head(queue) = x
    /\ \E want \in {Head(req[x].wants)} :
        /\ want <= free
        /\ free' = free - want
        /\ queue' = IF Len(req[x].wants) > 1 THEN Append(Tail(queue), x) ELSE Tail(queue)
        /\ req' = [req EXCEPT ![x].pc = IF Len(req[x].wants) > 1 THEN "wait" ELSE req[x].then,
                              ![x].wants = Tail(req[x].wants),
                              ![x].held = IF req[x].then = "body" THEN @ ELSE @ + want,
                              ![x].body = IF req[x].then = "body" THEN want ELSE @]
    /\ UNCHANGED <<lock, ref, based, stray, count>>

\* What a request holds when it ends: every spool is dropped, the lock with them.
Ended(x) ==
    /\ free' = free + req[x].held + req[x].body + req[x].src
    /\ req' = [req EXCEPT ![x] = Idle]
    /\ lock' = IF lock = x THEN "none" ELSE lock

\* with_spool_timeout: SlowDown; permits already held go back as the request unwinds.
GiveUp(x) ==
    /\ Timeouts /\ req[x].pc = "wait"
    /\ queue' = SelectSeq(queue, LAMBDA y : y # x)
    /\ Ended(x) /\ UNCHANGED <<ref, based, stray, count>>

-----------------------------------------------------------------------------
(* Requests.                                                               *)

Arrive(x) ==
    /\ req[x].pc = "idle" /\ count < MaxRequests /\ count' = count + 1
    /\ \E k \in {j \in Work : j.kind = "put" \/ based} :
        req' = [req EXCEPT ![x] = [pc |-> IF k.kind = "put" THEN "begin" ELSE "source",
                                   kind |-> k.kind, size |-> k.size, then |-> "none",
                                   wants |-> <<>>, held |-> 0, body |-> 0, src |-> 0,
                                   slot |-> FALSE,
                                   files |-> 0]]      \* on disk, besides the body
    /\ UNCHANGED <<free, queue, lock, ref, based, stray>>

\* reconstruct_delta_to_spool, for a GET and for the source of a copy.
Source(x) ==
    /\ req[x].pc = "source"
    /\ Reserve(x, acquire_pair(req[x].size), "fetch")
    /\ UNCHANGED <<free, lock, ref, based, stray, count>>

\* The reference is written to its spool; then the delta is fetched.
Fetch(x) ==
    /\ req[x].pc = "fetch"
    /\ req' = [req EXCEPT ![x].pc = IF req[x].body > 0 THEN "encode" ELSE "decode",
                          ![x].files = ref]
    /\ UNCHANGED <<free, queue, lock, ref, based, stray, count>>

FetchFails(x) ==
    /\ Failing /\ req[x].pc = "fetch"
    /\ Ended(x) /\ UNCHANGED <<queue, ref, based, stray, count>>

Busy == Cardinality({x \in Active : req[x].slot})

\* A GET waits up to a minute for a codec slot.
DecodeStart(x) ==
    /\ req[x].pc = "decode" /\ ~req[x].slot /\ Busy < Slots
    /\ req' = [req EXCEPT ![x].slot = TRUE, ![x].files = @ + req[x].size]
    /\ UNCHANGED <<free, queue, lock, ref, based, stray, count>>

DecodeTimeout(x) ==
    /\ Timeouts /\ req[x].pc = "decode" /\ ~req[x].slot
    /\ Ended(x) /\ UNCHANGED <<queue, ref, based, stray, count>>

\* The slot is free at the end of the decode; the file of the reference is gone, its share
\* of the reservation is not: both files share one permit.
DecodeEnd(x) ==
    /\ req[x].pc = "decode" /\ req[x].slot
    /\ req' = [req EXCEPT ![x].slot = FALSE, ![x].files = req[x].size,
                          ![x].pc = IF req[x].kind = "get" THEN "drain" ELSE "open"]
    /\ UNCHANGED <<free, queue, lock, ref, based, stray, count>>

\* The checksum does not match, or the output grew past its size.
DecodeFails(x) ==
    /\ Failing /\ req[x].pc = "decode" /\ req[x].slot
    /\ Ended(x) /\ UNCHANGED <<queue, ref, based, stray, count>>

\* The client has read the last byte, or has gone.
Drain(x) ==
    /\ req[x].pc = "drain"
    /\ Ended(x) /\ UNCHANGED <<queue, ref, based, stray, count>>

\* spooled_copy: the stream holds the source's reservation while it asks for its own spool.
CopyOpen(x) ==
    /\ req[x].pc = "open"
    /\ queue' = Append(queue, x)
    /\ req' = [req EXCEPT ![x].pc = "wait", ![x].wants = <<Clamped(req[x].size)>>,
                          ![x].then = "body", ![x].src = req[x].held, ![x].held = 0]
    /\ UNCHANGED <<free, lock, ref, based, stray, count>>

\* put_object, post_object: the body goes into a spool before anything else.
PutBegin(x) ==
    /\ req[x].pc = "begin"
    /\ Reserve(x, <<Clamped(req[x].size)>>, "body")
    /\ UNCHANGED <<free, lock, ref, based, stray, count>>

\* The body is in its spool; a copy has read its source to the end and drops it.
Body(x) ==
    /\ req[x].pc = "body"
    /\ free' = free + req[x].src
    /\ req' = [req EXCEPT ![x].pc = "lock", ![x].src = 0, ![x].files = 0]
    /\ UNCHANGED <<queue, lock, ref, based, stray, count>>

\* store_spooled_delta: under the deltaspace's lock the first object becomes the reference;
\* then room for the reference's copy and the delta is asked for, body in hand.
LockSpace(x) ==
    /\ req[x].pc = "lock" /\ lock = "none"
    /\ lock' = x
    /\ ref' = IF ref = 0 THEN req[x].size ELSE ref
    /\ Reserve(x, acquire_pair(req[x].size), "fetch")
    /\ UNCHANGED <<free, based, stray, count>>

\* A PUT does not wait for a codec slot.
EncodeStart(x) ==
    /\ req[x].pc = "encode" /\ ~req[x].slot
    /\ IF Busy < Slots
       THEN /\ req' = [req EXCEPT ![x].slot = TRUE, ![x].files = @ + req[x].size]
            /\ UNCHANGED <<free, lock>>
       ELSE Ended(x)
    /\ UNCHANGED <<queue, ref, based, stray, count>>

\* The delta is worth it: it is stored, then spools and locks go.
EncodeCommit(x) ==
    /\ req[x].pc = "encode" /\ req[x].slot
    /\ based' = TRUE
    /\ Ended(x) /\ UNCHANGED <<queue, ref, stray, count>>

\* The delta grew past its cap: spools and lock are dropped and the body is stored as it is,
\* under the lock again.
EncodeCapped(x) ==
    /\ req[x].pc = "encode" /\ req[x].slot
    /\ free' = free + req[x].held
    /\ lock' = "none"
    /\ req' = [req EXCEPT ![x].slot = FALSE, ![x].held = 0, ![x].files = 0, ![x].pc = "plain"]
    /\ UNCHANGED <<queue, ref, based, stray, count>>

EncodeFails(x) ==
    /\ Failing /\ req[x].pc = "encode" /\ req[x].slot
    /\ Ended(x) /\ UNCHANGED <<queue, ref, based, stray, count>>

StorePlain(x) ==
    /\ req[x].pc = "plain" /\ lock = "none"
    /\ Ended(x) /\ UNCHANGED <<queue, ref, based, stray, count>>

\* The client leaves while the codec runs: its future is dropped with the slot, the lock and
\* the reservation, and spawn_blocking's thread runs to its end on the unlinked files (at
\* most one such thread a slot here).
Leave(x) ==
    /\ Failing /\ req[x].pc \in {"decode", "encode"} /\ req[x].slot /\ stray[x] = 0
    /\ stray' = [stray EXCEPT ![x] = req[x].files]
    /\ Ended(x) /\ UNCHANGED <<queue, ref, based, count>>

StrayEnds(x) ==
    /\ stray[x] > 0 /\ stray' = [stray EXCEPT ![x] = 0]
    /\ UNCHANGED <<free, queue, req, lock, ref, based, count>>

-----------------------------------------------------------------------------
Init ==
    /\ free = Budget /\ queue = <<>> /\ req = [x \in Requests |-> Idle]
    /\ lock = "none" /\ ref \in {0, RefSize} /\ based = (ref > 0) /\ count = 0
    /\ stray = [x \in Requests |-> 0]

Work1(x) == \/ Grant(x) \/ Source(x) \/ Fetch(x) \/ DecodeStart(x) \/ DecodeEnd(x) \/ Drain(x)
            \/ CopyOpen(x) \/ PutBegin(x) \/ Body(x) \/ LockSpace(x) \/ EncodeStart(x)
            \/ EncodeCommit(x) \/ EncodeCapped(x) \/ StorePlain(x)

Next == \E x \in Requests :
    \/ Arrive(x) \/ Work1(x)
    \/ GiveUp(x) \/ FetchFails(x) \/ DecodeTimeout(x) \/ DecodeFails(x) \/ EncodeFails(x)
    \/ Leave(x) \/ StrayEnds(x)

Spec == Init /\ [][Next]_vars

-----------------------------------------------------------------------------
\* What is on disk for a request: the body's spool, and what its other spools hold.
Held(x) == req[x].held + req[x].body + req[x].src
OnDisk(x) == req[x].files + (IF req[x].body > 0 THEN req[x].size ELSE 0)
Total(f(_)) == MapThenSumSet(f, Active)

\* The permits in use are those of the requests under way, none lost and none given twice.
BudgetConserved == free + Total(Held) = Budget

\* The spool directory holds more than the budget only while one request has it to itself
\* (spool.rs: a request larger than the budget is clamped and runs alone) - besides the files
\* that codec calls without a request still write.
DiskBounded ==
    Total(OnDisk) > Budget =>
        Cardinality({x \in Active : Held(x) > 0}) = 1

\* Some request can go on without anybody's time running out.
Movable(x) ==
    CASE req[x].pc = "wait" -> Head(queue) = x /\ Head(req[x].wants) <= free
      [] req[x].pc = "decode" -> req[x].slot \/ Busy < Slots
      [] req[x].pc \in {"lock", "plain"} -> lock = "none"
      [] OTHER -> TRUE
NotStuck == Active # {} => \E x \in Active : Movable(x)

\* At most Slots calls of xdelta3 run (engine/mod.rs: the semaphore "limits concurrent xdelta3
\* subprocesses"); a client that leaves gives its slot back before its call has ended.
SlotsBounded == Busy + Cardinality({x \in Requests : stray[x] > 0}) <= Slots

\* A reference stays only with a delta made from it (store.rs: the rollback of S-P1-2).
NoOrphan == Active = {} /\ ref > 0 => based
=============================================================================
