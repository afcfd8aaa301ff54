---------------------------- MODULE EventConsumer ----------------------------
(***************************************************************************)
(* Event-driven replication (replication/event_consumer.rs): client writes *)
(* append object events to the outbox of the node that served them, and    *)
(* the node's consumer drains that outbox past its cursor, compacts the    *)
(* events of each key to one verdict and copies or deletes at the          *)
(* destination (transfer.rs).  A step is one critical section of the       *)
(* database lock or one engine call; what an engine call does inside is    *)
(* the subject of DeltaSpace.  The outbox is never pruned here: pruning    *)
(* and delivery are the subject of EventOutbox.  The rule is not deleted   *)
(* during a drain, which would skip its keys (deletion against the rule's  *)
(* lease is the subject of RuleLease).                                     *)
(*                                                                         *)
(* A source object is the time of its PUT, which stands for its bytes, its *)
(* SHA-256 and its created_at; 0 is no object.                             *)
(***************************************************************************)
EXTENDS Integers, Sequences, FiniteSets, FiniteSetsExt

CONSTANTS
    Nodes,
    Clients,    \* requests in flight at once
    Keys,       \* user keys of the source bucket, all matched by the rule
    Policy,     \* the rule's conflict policy
    DeltaKeys,  \* the keys stored as deltas, copied by delta passthrough
    History,    \* events the outboxes already hold, all consumed
    DrainBatch, \* DRAIN_BATCH
    MaxOps,     \* bound on client writes
    MaxFaults   \* bound on errors, deferrals and crashes

VARIABLES
    clock,    \* last time an object was stored
    src,      \* source object of every key
    dst,      \* destination object of every key
    outbox,   \* event_outbox of every node: the n-th event has id n
    cursor,   \* last_event_id of the replication listener on every node
    client,   \* the event a client's request has still to append
    cons,     \* the consumer task of every node
    lost,     \* ghost: keys with an event that was never appended
    ops, faults

vars == <<clock, src, dst, outbox, cursor, client, cons, lost, ops, faults>>

Absent == 0
NoReplica == [meta |-> Absent, bytes |-> Absent, created |-> 0]
Event(k, kind) == [key |-> k, kind |-> kind]
\* Events of the destination bucket match no rule.
Unrouted == Event("destination", "ReplicationObjectCopied")
NoEvent == [node |-> "none", key |-> "none", kind |-> "none"]
Idle == [pc |-> "idle", lo |-> 0, hi |-> 0, todo |-> {}, failed |-> {}, key |-> "none", head |-> 0, held |-> 0]

Init ==
    /\ clock = 1
    /\ \E S \in SUBSET Keys :
        /\ src = [k \in Keys |-> IF k \in S THEN 1 ELSE Absent]
        /\ dst = [k \in Keys |-> IF k \in S THEN [meta |-> 1, bytes |-> 1, created |-> 1] ELSE NoReplica]
    /\ outbox = [n \in Nodes |-> [i \in 1..History |-> Unrouted]]
    /\ cursor = [n \in Nodes |-> History]
    /\ client = [c \in Clients |-> NoEvent]
    /\ cons = [n \in Nodes |-> Idle]
    /\ lost = {}
    /\ ops = 0
    /\ faults = 0

(***************************************************************************)
(* Client writes.  The engine has released its locks when the handler      *)
(* appends the event; the client is answered after that.                   *)
(***************************************************************************)

Put(c, n, k) ==
    /\ client[c] = NoEvent
    /\ ops < MaxOps
    /\ ops' = ops + 1
    /\ clock' = clock + 1
    /\ src' = [src EXCEPT ![k] = clock + 1]
    /\ client' = [client EXCEPT ![c] = [node |-> n, key |-> k, kind |-> "ObjectCreated"]]
    /\ UNCHANGED <<dst, outbox, cursor, cons, lost, faults>>

\* A delete of nothing appends no event.
Delete(c, n, k) ==
    /\ client[c] = NoEvent
    /\ ops < MaxOps
    /\ src[k] # Absent
    /\ ops' = ops + 1
    /\ src' = [src EXCEPT ![k] = Absent]
    /\ client' = [client EXCEPT ![c] = [node |-> n, key |-> k, kind |-> "ObjectDeleted"]]
    /\ UNCHANGED <<clock, dst, outbox, cursor, cons, lost, faults>>

Enqueue(c) ==
    /\ client[c] # NoEvent
    /\ outbox' = [outbox EXCEPT ![client[c].node] = Append(@, Event(client[c].key, client[c].kind))]
    /\ client' = [client EXCEPT ![c] = NoEvent]
    /\ UNCHANGED <<clock, src, dst, cursor, cons, lost, ops, faults>>

\* The append fails: logged and dropped.
EnqueueError(c) ==
    /\ client[c] # NoEvent
    /\ faults < MaxFaults
    /\ faults' = faults + 1
    /\ lost' = lost \cup {client[c].key}
    /\ client' = [client EXCEPT ![c] = NoEvent]
    /\ UNCHANGED <<clock, src, dst, outbox, cursor, cons, ops>>

(***************************************************************************)
(* One tick of the consumer: seed, read a window, act on every key of it,  *)
(* advance.                                                                *)
(***************************************************************************)

\* The cursor to start from: the newest event when there is none yet.
SeedCursor(n) == IF cursor[n] = 0 THEN Len(outbox[n]) ELSE cursor[n]

Seed(n) ==
    /\ cons[n].pc = "idle"
    /\ cursor' = [cursor EXCEPT ![n] = SeedCursor(n)]
    /\ cons' = [cons EXCEPT ![n].pc = "drain"]
    /\ UNCHANGED <<clock, src, dst, outbox, client, lost, ops, faults>>

\* The consumer's lease (CONSUMER_LEASE_KEY) is its own process's, as the rows of a dead one
\* are lapsed at boot, so the tick is skipped only when the query fails.
SkipTick(n) ==
    /\ cons[n].pc = "idle"
    /\ faults < MaxFaults
    /\ faults' = faults + 1
    /\ cursor' = [cursor EXCEPT ![n] = SeedCursor(n)]
    /\ UNCHANGED <<clock, src, dst, outbox, client, cons, lost, ops>>

Window(n) == cons[n].lo + 1 .. cons[n].hi
IdsOf(n, k) == {i \in Window(n) : outbox[n][i].key = k}
LastOf(n, k) == Max(IdsOf(n, k))
Verdict(n, k) == IF outbox[n][LastOf(n, k)].kind = "ObjectDeleted" THEN "Delete" ELSE "Copy"

\* listener_cursor_load_full and event_outbox_since.
ReadWindow(n) ==
    LET hi == Min({Len(outbox[n]), cursor[n] + DrainBatch}) IN
    /\ cons[n].pc = "drain"
    /\ cons' = [cons EXCEPT ![n] = IF hi = cursor[n] THEN Idle
                  ELSE [Idle EXCEPT !.pc = "keys", !.lo = cursor[n], !.hi = hi,
                          !.todo = {outbox[n][i].key : i \in cursor[n] + 1 .. hi} \cap Keys]]
    /\ UNCHANGED <<clock, src, dst, outbox, cursor, client, lost, ops, faults>>

At(n, pc) == cons[n].pc = pc
Goto(n, pc) == cons' = [cons EXCEPT ![n].pc = pc]
\* The current key is dealt with.
Handled(n) == Goto(n, "keys")
\* Only the last id of the key is recorded.
MarkFailed(c, id) == [c EXCEPT !.pc = "keys", !.failed = @ \cup {id}]
FailKey(n) == cons' = [cons EXCEPT ![n] = MarkFailed(@, LastOf(n, @.key))]

\* The rule's lease is acquired and the verdict is acted upon.
PickKey(n, k) ==
    /\ At(n, "keys")
    /\ k \in cons[n].todo
    /\ cons' = [cons EXCEPT ![n].todo = @ \ {k}, ![n].key = k,
                            ![n].pc = IF Verdict(n, k) = "Copy" THEN "headSource" ELSE "confirmAbsent"]
    /\ UNCHANGED <<clock, src, dst, outbox, cursor, client, lost, ops, faults>>

\* The destination is under maintenance or another worker holds the lease.
DeferKey(n, k) ==
    /\ At(n, "keys")
    /\ k \in cons[n].todo
    /\ faults < MaxFaults
    /\ faults' = faults + 1
    /\ cons' = [cons EXCEPT ![n] = MarkFailed([cons[n] EXCEPT !.todo = @ \ {k}], LastOf(n, k))]
    /\ UNCHANGED <<clock, src, dst, outbox, cursor, client, lost, ops>>

\* The lease query fails: the drain ends with the cursor where it was.
AbortDrain(n) ==
    /\ At(n, "keys")
    /\ cons[n].todo # {}
    /\ faults < MaxFaults
    /\ faults' = faults + 1
    /\ cons' = [cons EXCEPT ![n] = Idle]
    /\ UNCHANGED <<clock, src, dst, outbox, cursor, client, lost, ops>>

\* Mutants: the last row of the window whatever failed; the id to read next.
WatermarkIgnoresFailed(n) == cons[n].hi
WatermarkNext(n) == cons[n].hi + 1

\* contiguous_watermark
Watermark(n) ==
    Max({cons[n].lo} \cup {i \in Window(n) : \A f \in cons[n].failed : f > i})

Advance(n) ==
    /\ At(n, "keys")
    /\ cons[n].todo = {}
    /\ cursor' = [cursor EXCEPT ![n] = Max({@, Watermark(n)})]
    /\ cons' = [cons EXCEPT ![n] = Idle]
    /\ UNCHANGED <<clock, src, dst, outbox, client, lost, ops, faults>>

(***************************************************************************)
(* apply_action for the current key.                                       *)
(***************************************************************************)

Source(n) == src[cons[n].key]
Replica(n) == dst[cons[n].key]

\* The source is gone: its own delete event is left to deal with it.
HeadSource(n) ==
    /\ At(n, "headSource")
    /\ IF Source(n) = Absent
         THEN Handled(n)
         ELSE cons' = [cons EXCEPT ![n].pc = "headDest", ![n].head = Source(n)]
    /\ UNCHANGED <<clock, src, dst, outbox, cursor, client, lost, ops, faults>>

should_replicate(s, d) ==
    \/ d = NoReplica
    \/ Policy = "ContentDiff" /\ s # d.meta
    \/ Policy = "NewerWins" /\ s > d.created

HeadDest(n) ==
    /\ At(n, "headDest")
    /\ IF should_replicate(cons[n].head, Replica(n)) THEN Goto(n, "copy") ELSE Handled(n)
    /\ UNCHANGED <<clock, src, dst, outbox, cursor, client, lost, ops, faults>>

\* engine.head(dest).ok(): an error reads as no destination object.
HeadDestError(n) ==
    /\ At(n, "headDest")
    /\ faults < MaxFaults
    /\ faults' = faults + 1
    /\ IF should_replicate(cons[n].head, NoReplica) THEN Goto(n, "copy") ELSE Handled(n)
    /\ UNCHANGED <<clock, src, dst, outbox, cursor, client, lost, ops>>

\* copy_object_once looks at the source again.
CopyHead(n) ==
    /\ At(n, "copy")
    /\ IF Source(n) = Absent
         THEN FailKey(n)
         ELSE cons' = [cons EXCEPT ![n].pc = "read", ![n].head = Source(n)]
    /\ UNCHANGED <<clock, src, dst, outbox, cursor, client, lost, ops, faults>>

\* The object is retrieved with its metadata.
CopyRead(n) ==
    /\ At(n, "read")
    /\ cons[n].key \notin DeltaKeys
    /\ IF Source(n) = Absent
         THEN FailKey(n)
         ELSE cons' = [cons EXCEPT ![n].pc = "store", ![n].held = Source(n), ![n].head = Source(n)]
    /\ UNCHANGED <<clock, src, dst, outbox, cursor, client, lost, ops, faults>>

\* A replica is an object created now.
CopyStore(n) ==
    /\ At(n, "store")
    /\ cons[n].key \notin DeltaKeys
    /\ clock' = clock + 1
    /\ dst' = [dst EXCEPT ![cons[n].key] = [meta |-> cons[n].head, bytes |-> cons[n].held, created |-> clock + 1]]
    /\ Goto(n, "verify")
    /\ UNCHANGED <<src, outbox, cursor, client, lost, ops, faults>>

\* delta_passthrough_copy reads the delta blob, without its metadata.
ShipRead(n) ==
    /\ At(n, "read")
    /\ cons[n].key \in DeltaKeys
    /\ IF Source(n) = Absent
         THEN FailKey(n)
         ELSE cons' = [cons EXCEPT ![n].pc = "store", ![n].held = Source(n)]
    /\ UNCHANGED <<clock, src, dst, outbox, cursor, client, lost, ops, faults>>

\* It is written with the metadata of the HEAD, created_at included.
ShipStore(n) ==
    /\ At(n, "store")
    /\ cons[n].key \in DeltaKeys
    /\ dst' = [dst EXCEPT ![cons[n].key] = [meta |-> cons[n].head, bytes |-> cons[n].held, created |-> cons[n].head]]
    /\ Goto(n, "verify")
    /\ UNCHANGED <<clock, src, outbox, cursor, client, lost, ops, faults>>

\* verify_destination: the replica is there, and has the length expected.
CopyVerify(n) ==
    /\ At(n, "verify")
    /\ IF Replica(n) = NoReplica THEN FailKey(n) ELSE Goto(n, "emit")
    /\ UNCHANGED <<clock, src, dst, outbox, cursor, client, lost, ops, faults>>

EmitCopied(n) ==
    /\ At(n, "emit")
    /\ outbox' = [outbox EXCEPT ![n] = Append(@, Unrouted)]
    /\ Handled(n)
    /\ UNCHANGED <<clock, src, dst, cursor, client, lost, ops, faults>>

\* Deletes are replicated; the source's absence is confirmed first.
ConfirmAbsent(n) ==
    /\ At(n, "confirmAbsent")
    /\ IF Source(n) = Absent THEN Goto(n, "deleteDest") ELSE Handled(n)
    /\ UNCHANGED <<clock, src, dst, outbox, cursor, client, lost, ops, faults>>

DeleteDest(n) ==
    /\ At(n, "deleteDest")
    /\ dst' = [dst EXCEPT ![cons[n].key] = NoReplica]
    /\ Handled(n)
    /\ UNCHANGED <<clock, src, outbox, cursor, client, lost, ops, faults>>

Copying == {"copy", "read", "store", "verify"}

\* An engine call fails.
ActionError(n) ==
    /\ cons[n].pc \in Copying \cup {"headSource", "confirmAbsent", "deleteDest"}
    /\ faults < MaxFaults
    /\ faults' = faults + 1
    /\ FailKey(n)
    /\ UNCHANGED <<clock, src, dst, outbox, cursor, client, lost, ops>>

\* A transient error: the copy starts over.
RetryCopy(n) ==
    /\ cons[n].pc \in Copying \ {"copy"}
    /\ faults < MaxFaults
    /\ faults' = faults + 1
    /\ Goto(n, "copy")
    /\ UNCHANGED <<clock, src, dst, outbox, cursor, client, lost, ops>>

\* The process dies: the requests it served and the drain are gone.
Crash(n) ==
    LET dying == {c \in Clients : client[c].node = n} IN
    /\ faults < MaxFaults
    /\ faults' = faults + 1
    /\ cons[n] # Idle \/ dying # {}
    /\ cons' = [cons EXCEPT ![n] = Idle]
    /\ client' = [c \in Clients |-> IF c \in dying THEN NoEvent ELSE client[c]]
    /\ lost' = lost \cup {client[c].key : c \in dying}
    /\ UNCHANGED <<clock, src, dst, outbox, cursor, ops>>

Drain(n) ==
    \/ Seed(n) \/ ReadWindow(n)
    \/ \E k \in Keys : PickKey(n, k)
    \/ HeadSource(n) \/ HeadDest(n)
    \/ CopyHead(n) \/ CopyRead(n) \/ CopyStore(n) \/ ShipRead(n) \/ ShipStore(n)
    \/ CopyVerify(n) \/ EmitCopied(n)
    \/ ConfirmAbsent(n) \/ DeleteDest(n)
    \/ Advance(n)

Next ==
    \/ \E c \in Clients, n \in Nodes, k \in Keys : Put(c, n, k) \/ Delete(c, n, k)
    \/ \E c \in Clients : Enqueue(c) \/ EnqueueError(c)
    \/ \E n \in Nodes : Drain(n)
    \/ \E n \in Nodes, k \in Keys : DeferKey(n, k)
    \/ \E n \in Nodes : SkipTick(n) \/ AbortDrain(n) \/ HeadDestError(n) \/ ActionError(n) \/ RetryCopy(n) \/ Crash(n)

Spec == Init /\ [][Next]_vars

\* The consumer loop ticks forever, and a request ends by appending its event.
FairSpec ==
    /\ Spec
    /\ \A n \in Nodes : WF_vars(Drain(n))
    /\ \A c \in Clients : WF_vars(Enqueue(c))

(***************************************************************************)
(* Properties.                                                             *)
(***************************************************************************)

Times == 0..clock
EventKinds == {"ObjectCreated", "ObjectDeleted", "ReplicationObjectCopied"}
Pcs == {"idle", "drain", "keys", "headSource", "headDest", "confirmAbsent", "deleteDest", "emit"} \cup Copying

\* The state is well formed and a window lies within the outbox.
TypeOK ==
    /\ clock \in Nat /\ ops \in 0..MaxOps /\ faults \in 0..MaxFaults
    /\ src \in [Keys -> Times]
    /\ dst \in [Keys -> [meta : Times, bytes : Times, created : Times]]
    /\ \A n \in Nodes :
        /\ \A i \in DOMAIN outbox[n] : outbox[n][i].key \in Keys \cup {"destination"} /\ outbox[n][i].kind \in EventKinds
        /\ cursor[n] \in 0..Len(outbox[n])
        /\ cons[n].pc \in Pcs
        /\ cons[n].hi <= Len(outbox[n])
        /\ cons[n].todo \subseteq Keys /\ cons[n].failed \subseteq Window(n)
        /\ {cons[n].head, cons[n].held} \subseteq Times
    /\ lost \subseteq Keys

\* No request is under way for k and every event of it is consumed.
Settled(k) ==
    /\ \A c \in Clients : client[c].key # k
    /\ \A n \in Nodes : cons[n] = Idle /\ \A i \in cursor[n] + 1 .. Len(outbox[n]) : outbox[n][i].key # k

\* Once its events are consumed a key's replica is its source object, present
\* or absent alike, whatever failed or was replayed on the way: compaction,
\* the contiguous watermark and the re-checks of apply_action lose nothing.
SettledMirror == \A k \in Keys \ lost : Settled(k) => {dst[k].meta, dst[k].bytes} = {src[k]}

\* Every replica ends up as its source once the clients stop writing: failing copies
\* and deferrals only delay the consumer.
Behind == \E k \in Keys \ lost : dst[k].meta # src[k]
Converges == Behind ~> ~Behind

\* The replica's metadata (its SHA-256 among them) describes its bytes, so a
\* read of it passes the checksum.
ReplicaConsistent == \A k \in Keys : dst[k].meta = dst[k].bytes

\* skip-if-dest-exists never replaces a destination object.
ExistingKept == [][\A k \in Keys : dst[k] # NoReplica => dst'[k] \in {dst[k], NoReplica}]_vars

\* A replica is deleted only while its source is absent.
LiveNotDeleted == [][\A k \in Keys : dst[k] # NoReplica /\ dst'[k] = NoReplica => src[k] = Absent]_vars

(***************************************************************************)
(* What the proof of SettledMirror rests on.                               *)
(***************************************************************************)

\* One node whose requests follow each other, a cursor that was seeded, and content-diff:
\* outside of it SettledMirror fails.  The two names are no keys.
Setting ==
    /\ Nodes # {} /\ \A n, m \in Nodes : n = m
    /\ \A c, d \in Clients : c = d
    /\ Policy = "ContentDiff"
    /\ History \in Nat \ {0} /\ DrainBatch \in Nat
    /\ "none" \notin Keys /\ "destination" \notin Keys

Events == [key: Keys \cup {"destination"}, kind: EventKinds]
Requests == [node: Nodes, key: Keys, kind: EventKinds]
Replicas == [meta: Nat, bytes: Nat, created: Nat]
Drains == [pc: Pcs, lo: Nat, hi: Nat, todo: SUBSET Keys, failed: SUBSET Nat,
           key: Keys \cup {"none"}, head: Nat, held: Nat]

MirrorType ==
    /\ clock \in Nat
    /\ src \in [Keys -> Nat] /\ dst \in [Keys -> Replicas]
    /\ client \in [Clients -> Requests \cup {NoEvent}]
    /\ outbox \in [Nodes -> Seq(Events)]
    /\ cursor \in [Nodes -> Nat \ {0}]
    /\ \A n \in Nodes : cursor[n] <= Len(outbox[n])
    /\ cons \in [Nodes -> Drains]

\* A drain is about a window that starts at the cursor, and about keys with events in it.
Working(n) == cons[n].pc \notin {"idle", "drain"}
Busy(n, k) == cons[n].pc # "keys" /\ cons[n].key = k
WindowInv ==
    \A n \in Nodes : Working(n) =>
        /\ cons[n].lo = cursor[n] /\ cons[n].hi <= Len(outbox[n])
        /\ \A k \in cons[n].todo : IdsOf(n, k) # {}
        /\ cons[n].pc # "keys" => cons[n].key \in Keys \ cons[n].todo /\ IdsOf(n, cons[n].key) # {}

\* Versions only grow: metadata are not younger than the bytes beside them, and those not
\* younger than the source while there is one.
Grown(k, v) == v <= clock /\ (src[k] # Absent => v <= src[k])
StoredInv == \A k \in Keys : src[k] <= clock /\ dst[k].meta <= dst[k].bytes /\ Grown(k, dst[k].bytes)
CarriedInv ==
    \A n \in Nodes :
        /\ At(n, "read") => Grown(cons[n].key, cons[n].head)
        /\ At(n, "store") => cons[n].head <= cons[n].held /\ Grown(cons[n].key, cons[n].held)

\* The last event of a key says whether its source is there.
Calm(k) == \A c \in Clients : client[c].key # k
NoneAfter(n, k, i) == \A j \in i + 1 .. Len(outbox[n]) : outbox[n][j].key # k
KindInv ==
    \A k \in Keys \ lost :
        /\ \A c \in Clients : client[c].key = k =>
              (client[c].kind = "ObjectDeleted" <=> src[k] = Absent)
        /\ Calm(k) =>
              \A n \in Nodes : \A i \in 1 .. Len(outbox[n]) :
                  outbox[n][i].key = k /\ NoneAfter(n, k, i) =>
                      (outbox[n][i].kind = "ObjectDeleted" <=> src[k] = Absent)

\* A source that has not changed since the window was read is what the consumer takes it
\* for, and its replica equals it when the key is done and did not fail.
Same(k) == dst[k].meta = src[k] /\ dst[k].bytes = src[k]
Quiet(n, k) == Calm(k) /\ NoneAfter(n, k, cons[n].hi)
Done(n, k) == /\ IdsOf(n, k) # {} /\ k \notin cons[n].todo /\ ~Busy(n, k)
              /\ LastOf(n, k) \notin cons[n].failed
WorkInv ==
    \A n \in Nodes : \A k \in Keys \ lost : Working(n) /\ Quiet(n, k) =>
        /\ Done(n, k) => Same(k)
        /\ Busy(n, k) =>
              /\ cons[n].pc \in {"confirmAbsent", "deleteDest"} <=> src[k] = Absent
              /\ cons[n].pc \in {"headDest", "read", "store"} => cons[n].head = src[k]
              /\ cons[n].pc = "store" => cons[n].held = src[k]
              /\ cons[n].pc \in {"verify", "emit"} => Same(k)

\* A key without events past the cursor has its replica.
CleanInv ==
    \A n \in Nodes : \A k \in Keys \ lost : Calm(k) /\ NoneAfter(n, k, cursor[n]) => Same(k)

MirrorInv == MirrorType /\ WindowInv /\ StoredInv /\ CarriedInv /\ KindInv /\ WorkInv /\ CleanInv
=============================================================================
