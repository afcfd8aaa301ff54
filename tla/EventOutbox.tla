----------------------------- MODULE EventOutbox -----------------------------
(***************************************************************************)
(* The event outbox of a node (event_outbox.rs), its webhook dispatcher    *)
(* (event_delivery.rs), the cursor of the replication listener and the     *)
(* operator's requeue and purge (api/admin/event_outbox.rs).  A step is    *)
(* one critical section of the database lock or one call to the target.    *)
(* Which rows of a drain the replication consumer gets done is left open   *)
(* here; EventConsumer models it.                                          *)
(*                                                                         *)
(* Time is kept as ages that stop at a ceiling, so it may pass for ever: a *)
(* timestamp t is modelled by now - t.                                     *)
(***************************************************************************)
EXTENDS Integers, FiniteSets

CONSTANTS
    MaxRows,       \* bound on the ids
    History,       \* ids used, consumed and pruned before
    Replication,   \* replication is enabled and has rules
    BatchSize,     \* claimed per tick
    PruneBatch,    \* deleted per prune
    MaxDelivered,  \* delivered_max_rows
    MaxAttempts,
    RetryBase, RetryMax,
    StaleClaim,    \* stale_claim_after
    Retention,     \* delivered_retention
    FailedAge,     \* FAILED_ROW_MAX_AGE_SECS
    StaleCursor,   \* LISTENER_CURSOR_STALE_SECS
    MaxLag,        \* bound on how long a dispatch takes
    MaxFaults      \* bound on lost answers, database errors, restarts and requeues

VARIABLES
    rows,      \* the table: id -> row, NoRow when deleted or not yet inserted
    nextId,    \* AUTOINCREMENT: an id is never used again
    cursor,    \* last_event_id of the replication listener, 0: no cursor row
    cursorAge, \* since its updated_at
    active,    \* event_delivery.is_active()
    disp,      \* the dispatcher task
    cons,      \* the consumer's drain: where it began, what it read, the age of its heartbeat
    sent,      \* ghost: ids the target accepted
    tried,     \* ghost: ids a delivery of which was answered with an error
    purged,    \* ghost: ids the operator's purge removed
    faults

vars == <<rows, nextId, cursor, cursorAge, active, disp, cons, sent, tried, purged, faults>>
ghosts == <<sent, tried, purged>>

Ids == 1..MaxRows
Unbounded == MaxRows + 1      \* i64::MAX, the floor when there is no listener
NoRow == [status |-> "none", attempts |-> 0, wait |-> 0, since |-> 0, age |-> 0]
Fresh == [NoRow EXCEPT !.status = "pending"]
Rows == {i \in Ids : rows[i] # NoRow}
InStatus(s) == {i \in Rows : rows[i].status = s}

Larger(a, b) == IF a > b THEN a ELSE b
Smaller(a, b) == IF a < b THEN a ELSE b
FailedWindow == Larger(Retention, FailedAge)
\* Ages beyond it are all alike.
Ceiling == Larger(Larger(FailedWindow, StaleClaim), StaleCursor) + MaxLag + 1

\* pc; the time since the tick began; what is left of the batch, and the row of it that
\* is being delivered; the prune floor
AtRest == [pc |-> "idle", lag |-> 0, batch |-> {}, row |-> 0, floor |-> 0]
NoDrain == [pc |-> "idle", lo |-> 0, read |-> {}, beat |-> 0]

Init ==
    /\ rows = [i \in Ids |-> NoRow]
    /\ nextId = History + 1
    /\ cursor = History /\ cursorAge = 0
    /\ active \in BOOLEAN
    /\ disp = AtRest
    /\ cons = NoDrain
    /\ sent = {} /\ tried = {} /\ purged = {}
    /\ faults = 0

event_outbox_insert ==
    /\ nextId \in Ids
    /\ rows' = [rows EXCEPT ![nextId] = Fresh]
    /\ nextId' = nextId + 1
    /\ UNCHANGED <<cursor, cursorAge, active, disp, cons, ghosts, faults>>

(***************************************************************************)
(* The floor: rows above it may be needed by a listener.                   *)
(***************************************************************************)

\* event_outbox_min_listener_cursor
MinCursor == IF cursor = 0 THEN Unbounded ELSE cursor

\* event_outbox_min_active_listener_cursor, as of lag ago
MinActiveCursor(lag) == IF cursor = 0 \/ cursorAge - lag > StaleCursor THEN Unbounded ELSE cursor

\* Any choice of at most n of the rows, those of the lowest ids first.
Lowest(S, n) == {i \in S : Cardinality({j \in S : j < i}) < n}

DeleteRows(S) == rows' = [i \in Ids |-> IF i \in S THEN NoRow ELSE rows[i]]

(***************************************************************************)
(* dispatch_once                                                           *)
(***************************************************************************)

Due(i) ==
    \/ rows[i].status = "pending" /\ rows[i].wait = 0
    \/ rows[i].status = "in_progress" /\ rows[i].since >= StaleClaim

Claimed(r) == [r EXCEPT !.status = "in_progress", !.attempts = @ + 1, !.since = 0]

Claim ==
    LET S == Lowest({i \in Rows : Due(i)}, BatchSize) IN
    /\ disp.pc = "idle"
    /\ active
    /\ rows' = [i \in Ids |-> IF i \in S THEN Claimed(rows[i]) ELSE rows[i]]
    /\ disp' = [AtRest EXCEPT !.pc = "deliver", !.batch = S]
    /\ UNCHANGED <<nextId, cursor, cursorAge, active, cons, ghosts, faults>>

\* The next row of the batch goes out.  The target answers; it may also accept an event
\* and the answer get lost.
Deliver(i, accepted, answered) ==
    /\ disp.pc = "deliver"
    /\ i \in disp.batch
    /\ \A j \in disp.batch : i <= j
    /\ answered => accepted
    /\ accepted /\ ~answered => faults < MaxFaults
    /\ faults' = IF accepted /\ ~answered THEN faults + 1 ELSE faults
    /\ sent' = IF accepted THEN sent \cup {i} ELSE sent
    /\ tried' = IF answered THEN tried ELSE tried \cup {i}
    /\ disp' = [disp EXCEPT !.pc = IF answered THEN "markDelivered" ELSE "markFailed", !.row = i]
    /\ UNCHANGED <<rows, nextId, cursor, cursorAge, active, cons, purged>>

NextInBatch == disp' = [disp EXCEPT !.pc = "deliver", !.batch = @ \ {disp.row}, !.row = 0]

event_outbox_mark_delivered ==
    /\ disp.pc = "markDelivered"
    /\ rows' = [rows EXCEPT ![disp.row] = [@ EXCEPT !.status = "delivered", !.since = 0, !.wait = 0]]
    /\ NextInBatch
    /\ UNCHANGED <<nextId, cursor, cursorAge, active, cons, ghosts, faults>>

\* Mutant: the attempt under way is counted twice.
ExhaustedEarly(attempts) == attempts + 1 >= MaxAttempts

Exhausted(attempts) == attempts >= MaxAttempts
\* next_attempt_after, counted from the start of the tick
Backoff(attempts) == Larger(0, Smaller(RetryBase * 2 ^ (attempts - 1), RetryMax) - disp.lag)

event_outbox_mark_failed ==
    /\ disp.pc = "markFailed"
    /\ rows' = [rows EXCEPT ![disp.row] =
                  IF Exhausted(@.attempts)
                    THEN [@ EXCEPT !.status = "failed", !.since = 0, !.wait = 0]
                    ELSE [@ EXCEPT !.status = "pending", !.since = 0, !.wait = Backoff(rows[disp.row].attempts)]]
    /\ NextInBatch
    /\ UNCHANGED <<nextId, cursor, cursorAge, active, cons, ghosts, faults>>

\* The update fails: the row stays in progress until its claim is stale.
MarkError ==
    /\ disp.pc \in {"markDelivered", "markFailed"}
    /\ faults < MaxFaults
    /\ faults' = faults + 1
    /\ NextInBatch
    /\ UNCHANGED <<rows, nextId, cursor, cursorAge, active, cons, ghosts>>

ReadFloor ==
    /\ disp.pc = "deliver"
    /\ disp.batch = {}
    /\ disp' = [disp EXCEPT !.pc = "pruneDelivered", !.floor = MinActiveCursor(disp.lag)]
    /\ UNCHANGED <<rows, nextId, cursor, cursorAge, active, cons, ghosts, faults>>

\* Rows of a status the listeners have passed.
BelowFloor(s) == {i \in InStatus(s) : i <= disp.floor}

event_outbox_prune_delivered_before ==
    LET Expired == {i \in BelowFloor("delivered") : Retention > 0 /\ rows[i].since - disp.lag > Retention} IN
    /\ disp.pc = "pruneDelivered"
    /\ \E S \in SUBSET Expired :
        Cardinality(S) = Smaller(PruneBatch, Cardinality(Expired)) /\ DeleteRows(S)
    /\ disp' = [disp EXCEPT !.pc = "pruneFailed"]
    /\ UNCHANGED <<nextId, cursor, cursorAge, active, cons, ghosts, faults>>

event_outbox_prune_failed_before ==
    /\ disp.pc = "pruneFailed"
    /\ DeleteRows(Lowest({i \in BelowFloor("failed") : rows[i].age - disp.lag > FailedWindow}, PruneBatch))
    /\ disp' = [disp EXCEPT !.pc = "pruneCount"]
    /\ UNCHANGED <<nextId, cursor, cursorAge, active, cons, ghosts, faults>>

\* Beyond the MaxDelivered newest deliveries; deliveries of one age are of any order.
event_outbox_prune_delivered_over_count ==
    /\ disp.pc = "pruneCount"
    /\ \E K \in SUBSET BelowFloor("delivered") :
        /\ Cardinality(K) = Smaller(MaxDelivered, Cardinality(BelowFloor("delivered")))
        /\ \A i \in K, j \in BelowFloor("delivered") \ K : rows[i].since <= rows[j].since
        /\ DeleteRows(Lowest(BelowFloor("delivered") \ K, PruneBatch))
    /\ disp' = AtRest
    /\ UNCHANGED <<nextId, cursor, cursorAge, active, cons, ghosts, faults>>

\* A tick while delivery is off; nothing is pruned when no cursor is active.
prune_below_floor ==
    LET floor == MinActiveCursor(0) IN
    /\ disp.pc = "idle"
    /\ ~active
    /\ floor # Unbounded
    /\ DeleteRows(Lowest({i \in Rows : i <= floor}, PruneBatch))
    /\ UNCHANGED <<nextId, cursor, cursorAge, active, disp, cons, ghosts, faults>>

(***************************************************************************)
(* The replication listener.                                               *)
(***************************************************************************)

\* listener_cursor_advance: monotonic, and updated_at moves only with it.
AdvanceTo(id) ==
    /\ cursor' = Larger(cursor, id)
    /\ cursorAge' = IF id > cursor THEN 0 ELSE cursorAge

\* The last id of the table, 0 when it is empty.
Newest(id) == IF Rows = {} THEN id = 0 ELSE id \in Rows /\ \A j \in Rows : j <= id

seed_cursor_if_absent ==
    /\ Replication
    /\ cons.pc = "idle"
    /\ IF cursor = 0 THEN \E id \in Ids \cup {0} : Newest(id) /\ AdvanceTo(id)
                     ELSE UNCHANGED <<cursor, cursorAge>>
    /\ cons' = [NoDrain EXCEPT !.pc = "seeded"]
    /\ UNCHANGED <<rows, nextId, active, disp, ghosts, faults>>

\* event_outbox_since
DrainRead ==
    LET S == {i \in Rows : i > cursor} IN
    /\ cons.pc = "seeded"
    /\ cons' = IF S = {} THEN NoDrain ELSE [pc |-> "drain", lo |-> cursor, read |-> S, beat |-> 0]
    /\ UNCHANGED <<rows, nextId, cursor, cursorAge, active, disp, ghosts, faults>>

\* After each action of the drain the cursor it started from is written again.
Heartbeat ==
    /\ cons.pc = "drain"
    /\ AdvanceTo(cons.lo)
    /\ cons' = [cons EXCEPT !.beat = 0]
    /\ UNCHANGED <<rows, nextId, active, disp, ghosts, faults>>

\* The rows before the first failed one are done.
DrainAdvance ==
    /\ cons.pc = "drain"
    /\ \E w \in cons.read \cup {cons.lo} : AdvanceTo(w)
    /\ cons' = NoDrain
    /\ UNCHANGED <<rows, nextId, active, disp, ghosts, faults>>

(***************************************************************************)
(* The operator, the configuration, restarts and time.                     *)
(***************************************************************************)

event_outbox_requeue_failed(i) ==
    /\ i \in InStatus("failed")
    /\ faults < MaxFaults
    /\ faults' = faults + 1
    /\ rows' = [rows EXCEPT ![i] = [@ EXCEPT !.status = "pending", !.wait = 0, !.since = 0]]
    /\ UNCHANGED <<nextId, cursor, cursorAge, active, disp, cons, ghosts>>

\* Any cursor pins the floor, unless replication is retired.
PurgeFloor == IF Replication THEN MinCursor ELSE MinActiveCursor(0)

purge_failed ==
    LET S == InStatus("failed") IN
    /\ S # {}
    /\ \A i \in S : i <= PurgeFloor
    /\ DeleteRows(S)
    /\ purged' = purged \cup S
    /\ UNCHANGED <<nextId, cursor, cursorAge, active, disp, cons, sent, tried, faults>>

\* The dispatcher reads its configuration at the start of a tick.
Reconfigure ==
    /\ disp.pc = "idle"
    /\ faults < MaxFaults
    /\ faults' = faults + 1
    /\ active' = ~active
    /\ UNCHANGED <<rows, nextId, cursor, cursorAge, disp, cons, ghosts>>

Restart ==
    /\ disp # AtRest \/ cons # NoDrain
    /\ faults < MaxFaults
    /\ faults' = faults + 1
    /\ disp' = AtRest
    /\ cons' = NoDrain
    /\ UNCHANGED <<rows, nextId, cursor, cursorAge, active, ghosts>>

Older(age) == Smaller(Ceiling, age + 1)

Tick ==
    /\ disp.pc # "idle" => disp.lag < MaxLag
    /\ rows' = [i \in Ids |-> IF i \notin Rows THEN NoRow
                  ELSE [rows[i] EXCEPT !.wait = Larger(0, @ - 1), !.age = Older(@),
                          !.since = IF rows[i].status \in {"in_progress", "delivered"} THEN Older(@) ELSE 0]]
    /\ cursorAge' = IF cursor = 0 THEN 0 ELSE Older(cursorAge)
    /\ disp' = IF disp.pc = "idle" THEN disp ELSE [disp EXCEPT !.lag = @ + 1]
    /\ cons' = IF cons.pc = "drain" THEN [cons EXCEPT !.beat = Older(@)] ELSE cons
    /\ UNCHANGED <<nextId, cursor, active, ghosts, faults>>

Dispatch ==
    \/ Claim \/ \E i \in Ids, a, b \in BOOLEAN : Deliver(i, a, b)
    \/ event_outbox_mark_delivered \/ event_outbox_mark_failed
    \/ ReadFloor \/ event_outbox_prune_delivered_before
    \/ event_outbox_prune_failed_before \/ event_outbox_prune_delivered_over_count
    \/ prune_below_floor

Consume == seed_cursor_if_absent \/ DrainRead \/ Heartbeat \/ DrainAdvance

Next ==
    \/ event_outbox_insert
    \/ Dispatch \/ MarkError
    \/ Consume
    \/ \E i \in Ids : event_outbox_requeue_failed(i)
    \/ purge_failed \/ Reconfigure \/ Restart \/ Tick

Spec == Init /\ [][Next]_vars

\* The dispatcher loop and the clock go on; the target may refuse for ever.
FairSpec == Spec /\ WF_vars(Dispatch) /\ WF_vars(Tick)

(***************************************************************************)
(* Properties.                                                             *)
(***************************************************************************)

\* What the theorems assume of the bounds.
Setting ==
    /\ MaxRows \in Nat /\ History \in 0..MaxRows
    /\ MaxAttempts \in Nat /\ MaxLag \in Nat
    /\ {StaleClaim, StaleCursor, Retention, FailedAge} \subseteq Nat

Statuses == {"pending", "in_progress", "delivered", "failed"}

\* The state is well formed, and only rows in progress are in a batch.
TypeOK ==
    /\ nextId \in 1..MaxRows + 1
    /\ cursor \in 0..nextId - 1 /\ cursorAge \in 0..Ceiling
    /\ \A i \in Rows : i < nextId /\ rows[i].status \in Statuses /\ rows[i].wait \in 0..RetryMax
    /\ disp.lag \in 0..MaxLag /\ disp.floor \in 0..Unbounded
    /\ \A i \in disp.batch : rows[i].status = "in_progress"
    /\ cons.read \subseteq Ids

Removed(i) == rows[i] # NoRow /\ rows'[i] = NoRow

\* While delivery is on an event leaves the outbox only if the target has it,
\* or after its last attempt failed: neither a prune nor a purge, a restart or
\* a lost answer takes an event that is still owed to the target.
OwedKept ==
    \A i \in Ids : active /\ Removed(i) => i \in sent \/ (i \in tried /\ rows[i].attempts >= MaxAttempts)

\* The dispatcher prunes without a floor: it found no live cursor when it looked.
Unpinned == disp.pc # "idle" /\ disp.floor = Unbounded

\* There is a listener: its cursor is alive, or replication is configured.
Listening == cursor # 0 /\ (Replication \/ cursorAge <= StaleCursor)

\* Under a floor no row the replication listener has still to consume is removed,
\* by any of the four prunes or the purge, although the cursor and the rows move
\* between the look at the floor and the deletes.
UnreadKept == \A i \in Ids : Removed(i) /\ Listening /\ ~Unpinned => i <= cursor

\* An event leaves the outbox only when it is owed to nobody.
RemovedIsSettled == [][OwedKept /\ UnreadKept]_vars

\* A row the listener has not consumed is removed only when the listener had the
\* whole stale window to consume it.
UnconsumedHadWindow == [][\A i \in Ids : Removed(i) /\ cursor \in 1..i - 1 => rows[i].age > StaleCursor]_vars

\* The operator's purge takes no unconsumed row even when the listener's cursor
\* has gone stale.
PurgeIsConsumed == [][\A i \in purged' \ purged : cursor # 0 => i <= cursor]_vars

\* Every event is delivered or fails for good, as long as delivery is on.
Unresolved == active /\ InStatus("pending") \cup InStatus("in_progress") # {}
Resolves == Unresolved ~> ~Unresolved

\* A drain that writes its heartbeat keeps the rows it has still to finish.
DrainPinsFloor ==
    [][\A i \in cons.read : cons.pc = "drain" /\ cons.beat <= StaleCursor /\ Removed(i) => i <= cursor]_vars
=============================================================================
