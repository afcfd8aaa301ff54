----------------------------- MODULE NodeProofs -----------------------------
(***************************************************************************)
(* Theorems about what a node does beside serving requests, for every      *)
(* value of the constants: the outbox and its dispatcher (EventOutbox),    *)
(* for any number of rows, attempts, faults and any retention, floor and   *)
(* staleness window; the replication consumer (C), for any keys, batch     *)
(* size, writes and faults; the runs of a retain-newest rule (K), for any  *)
(* keys, runs, rules, page size and budget; the boots (B), for any hashes, *)
(* password changes, restarts and faults; the changes of the configuration *)
(* (P), for any clients, requests, faults and crashes; and the maintenance *)
(* jobs (M), for any keys, requests, jobs, page budgets, faults and        *)
(* crashes.                                                                *)
(***************************************************************************)
EXTENDS Node, Sequences, FiniteSetTheorems, WellFoundedInduction, TLAPS

Fields == {"status", "attempts", "wait", "since", "age"}

\* Rows are records, and one without a status is no row.
RowInv ==
    /\ DOMAIN rows = Ids /\ rows = [i \in Ids |-> rows[i]]
    /\ \A i \in Ids :
          /\ DOMAIN rows[i] = Fields /\ rows[i] = [f \in Fields |-> rows[i][f]]
          /\ rows[i].status = "none" => rows[i] = NoRow

\* The tasks' states.
TaskInv ==
    /\ disp \in [pc: {"idle", "deliver", "markDelivered", "markFailed", "pruneDelivered",
                      "pruneFailed", "pruneCount"},
                 lag: Nat, batch: SUBSET Ids, row: Ids \cup {0}, floor: Nat]
    /\ disp.pc \in {"markDelivered", "markFailed"} => disp.row \in Ids
    /\ cons \in [pc: {"idle", "seeded", "drain"}, lo: Nat, read: SUBSET Ids, beat: Int]
    /\ cursor \in Nat /\ cursorAge \in Int /\ nextId \in Nat

\* A mark says what the target answered.
MarkInv ==
    /\ disp.pc = "markDelivered" => disp.row \in sent
    /\ disp.pc = "markFailed" => disp.row \in tried
    /\ \A i \in Ids :
          /\ rows[i].status = "delivered" => i \in sent
          /\ rows[i].status = "failed" => i \in tried /\ rows[i].attempts >= MaxAttempts

\* The floor was the cursor when it was read, and the cursor only moves on.
FloorInv == disp.floor = Unbounded \/ disp.floor <= cursor

IInv == RowInv /\ TaskInv /\ MarkInv /\ FloorInv

\* The empty outbox of a new node satisfies the invariant.
LEMMA InitInv == ASSUME Setting PROVE Init => IInv
  BY DEF Setting, Init, IInv, RowInv, TaskInv, MarkInv, FloorInv, Fields, NoRow, Ids, AtRest, NoDrain

\* The prunes under the floor take rows of one status up to it.
LEMMA Prunes ==
  ASSUME event_outbox_prune_delivered_before \/ event_outbox_prune_failed_before
           \/ event_outbox_prune_delivered_over_count
  PROVE  /\ \E S \in SUBSET Ids :
               /\ DeleteRows(S)
               /\ \A i \in S : rows[i].status \in {"delivered", "failed"} /\ i <= disp.floor
         /\ disp.pc # "idle"
         /\ UNCHANGED <<nextId, cursor, cursorAge, active, cons, ghosts, faults>>
         /\ disp' = [disp EXCEPT !.pc = "pruneFailed"] \/ disp' = [disp EXCEPT !.pc = "pruneCount"]
              \/ disp' = AtRest
<1>1. CASE event_outbox_prune_delivered_before
  <2>1. PICK S : S \subseteq BelowFloor("delivered") /\ DeleteRows(S)
    BY <1>1 DEF event_outbox_prune_delivered_before
  <2>2. S \in SUBSET Ids /\ \A i \in S : rows[i].status = "delivered" /\ i <= disp.floor
    BY <2>1 DEF BelowFloor, InStatus, Rows
  <2>3. QED
    BY <1>1, <2>1, <2>2 DEF event_outbox_prune_delivered_before
<1>2. CASE event_outbox_prune_failed_before
  <2>1. PICK S : S \subseteq BelowFloor("failed") /\ DeleteRows(S)
    BY <1>2 DEF event_outbox_prune_failed_before, Lowest
  <2>2. S \in SUBSET Ids /\ \A i \in S : rows[i].status = "failed" /\ i <= disp.floor
    BY <2>1 DEF BelowFloor, InStatus, Rows
  <2>3. QED
    BY <1>2, <2>1, <2>2 DEF event_outbox_prune_failed_before
<1>3. CASE event_outbox_prune_delivered_over_count
  <2>1. PICK S : S \subseteq BelowFloor("delivered") /\ DeleteRows(S)
    BY <1>3 DEF event_outbox_prune_delivered_over_count, Lowest
  <2>2. S \in SUBSET Ids /\ \A i \in S : rows[i].status = "delivered" /\ i <= disp.floor
    BY <2>1 DEF BelowFloor, InStatus, Rows
  <2>3. QED
    BY <1>3, <2>1, <2>2 DEF event_outbox_prune_delivered_over_count
<1>4. QED
  BY <1>1, <1>2, <1>3

\* Every statement on the table leaves rows or no rows.
LEMMA NextRows ==
  ASSUME Setting PROVE IInv /\ [Next]_vars => RowInv'
<1> SUFFICES ASSUME IInv, [Next]_vars PROVE RowInv'
  OBVIOUS
<1> USE DEF Setting, IInv, RowInv, TaskInv, Fields, NoRow, Ids, ghosts
<1>1. CASE UNCHANGED vars
  BY <1>1 DEF vars, ghosts
<1>2. ASSUME event_outbox_insert PROVE RowInv'
  BY <1>2 DEF event_outbox_insert, Fresh
<1>3. ASSUME Claim PROVE RowInv'
  BY <1>3 DEF Claim, Claimed, Due, Lowest, Rows, AtRest
<1>4. ASSUME NEW i \in Ids, NEW a \in BOOLEAN, NEW b \in BOOLEAN, Deliver(i, a, b) PROVE RowInv'
  BY <1>4 DEF Deliver
<1>5. ASSUME event_outbox_mark_delivered PROVE RowInv'
  BY <1>5 DEF event_outbox_mark_delivered, NextInBatch
<1>6. ASSUME event_outbox_mark_failed PROVE RowInv'
  BY <1>6 DEF event_outbox_mark_failed, NextInBatch, Exhausted
<1>7. ASSUME MarkError PROVE RowInv'
  BY <1>7 DEF MarkError, NextInBatch
<1>8. ASSUME ReadFloor PROVE RowInv'
  BY <1>8 DEF ReadFloor, MinActiveCursor
<1>9. ASSUME event_outbox_prune_delivered_before PROVE RowInv'
  BY <1>9 DEF event_outbox_prune_delivered_before, DeleteRows, BelowFloor, InStatus,
     Rows
<1>10. ASSUME event_outbox_prune_failed_before PROVE RowInv'
  BY <1>10 DEF event_outbox_prune_failed_before, DeleteRows, BelowFloor, InStatus, Rows,
     Lowest
<1>11. ASSUME event_outbox_prune_delivered_over_count PROVE RowInv'
  <2>1. PICK S \in SUBSET Ids :
               /\ DeleteRows(S)
               /\ \A i \in S : rows[i].status \in {"delivered", "failed"} /\ i <= disp.floor
    BY <1>11, Prunes
  <2>2. QED
    BY <1>11, <2>1, Prunes DEF DeleteRows, AtRest
<1>12. ASSUME prune_below_floor PROVE RowInv'
  BY <1>12 DEF prune_below_floor, DeleteRows, Rows, Lowest, MinActiveCursor
<1>13. ASSUME seed_cursor_if_absent PROVE RowInv'
  BY <1>13 DEF seed_cursor_if_absent, AdvanceTo, NoDrain, Larger
<1>14. ASSUME DrainRead PROVE RowInv'
  BY <1>14 DEF DrainRead, NoDrain, Rows
<1>15. ASSUME Heartbeat PROVE RowInv'
  BY <1>15 DEF Heartbeat, AdvanceTo, Larger
<1>16. ASSUME DrainAdvance PROVE RowInv'
  BY <1>16 DEF DrainAdvance, AdvanceTo, Larger, NoDrain
<1>17. ASSUME NEW i \in Ids, event_outbox_requeue_failed(i) PROVE RowInv'
  BY <1>17 DEF event_outbox_requeue_failed, InStatus, Rows
<1>18. ASSUME purge_failed PROVE RowInv'
  BY <1>18 DEF purge_failed, DeleteRows, InStatus, Rows, PurgeFloor, MinCursor,
     MinActiveCursor
<1>19. ASSUME Reconfigure PROVE RowInv'
  BY <1>19 DEF Reconfigure
<1>20. ASSUME Restart PROVE RowInv'
  BY <1>20 DEF Restart, AtRest, NoDrain
<1>21. ASSUME Tick PROVE RowInv'
  BY <1>21 DEF Tick, Rows, Older, Smaller, Ceiling, Larger, FailedWindow
<1> HIDE DEF Setting, IInv, RowInv, TaskInv, Fields, NoRow, Ids, ghosts
<1>22. QED
  BY <1>1, <1>2, <1>3, <1>4, <1>5, <1>6, <1>7, <1>8, <1>9, <1>10, <1>11, <1>12, <1>13,
     <1>14, <1>15, <1>16, <1>17, <1>18, <1>19, <1>20, <1>21 DEF Next, Dispatch, Consume

\* The dispatcher and the consumer stay in their loops.
LEMMA NextTasks ==
  ASSUME Setting PROVE IInv /\ [Next]_vars => TaskInv'
<1> SUFFICES ASSUME IInv, [Next]_vars PROVE TaskInv'
  OBVIOUS
<1> USE DEF Setting, IInv, TaskInv, Ids, Unbounded, ghosts
<1>1. CASE UNCHANGED vars
  BY <1>1 DEF vars, ghosts
<1>2. ASSUME event_outbox_insert PROVE TaskInv'
  BY <1>2 DEF event_outbox_insert, Fresh
<1>3. ASSUME Claim PROVE TaskInv'
  BY <1>3 DEF Claim, Claimed, Due, Lowest, Rows, AtRest
<1>4. ASSUME NEW i \in Ids, NEW a \in BOOLEAN, NEW b \in BOOLEAN, Deliver(i, a, b) PROVE TaskInv'
  BY <1>4 DEF Deliver
<1>5. ASSUME event_outbox_mark_delivered PROVE TaskInv'
  BY <1>5 DEF event_outbox_mark_delivered, NextInBatch
<1>6. ASSUME event_outbox_mark_failed PROVE TaskInv'
  BY <1>6 DEF event_outbox_mark_failed, NextInBatch, Exhausted
<1>7. ASSUME MarkError PROVE TaskInv'
  BY <1>7 DEF MarkError, NextInBatch
<1>8. ASSUME ReadFloor PROVE TaskInv'
  <2>1. MinActiveCursor(disp.lag) \in Nat
    BY DEF MinActiveCursor
  <2>2. QED
    BY <1>8, <2>1 DEF ReadFloor
<1>9. ASSUME event_outbox_prune_delivered_before PROVE TaskInv'
  BY <1>9 DEF event_outbox_prune_delivered_before, DeleteRows, BelowFloor, InStatus,
     Rows
<1>10. ASSUME event_outbox_prune_failed_before PROVE TaskInv'
  BY <1>10 DEF event_outbox_prune_failed_before, DeleteRows, BelowFloor, InStatus, Rows,
     Lowest
<1>11. ASSUME event_outbox_prune_delivered_over_count PROVE TaskInv'
  BY <1>11 DEF event_outbox_prune_delivered_over_count, DeleteRows, BelowFloor,
     InStatus, Rows, Lowest, AtRest
<1>12. ASSUME prune_below_floor PROVE TaskInv'
  BY <1>12 DEF prune_below_floor, DeleteRows, Rows, Lowest, MinActiveCursor
<1>13. ASSUME seed_cursor_if_absent PROVE TaskInv'
  BY <1>13 DEF seed_cursor_if_absent, AdvanceTo, NoDrain, Larger
<1>14. ASSUME DrainRead PROVE TaskInv'
  BY <1>14 DEF DrainRead, NoDrain, Rows
<1>15. ASSUME Heartbeat PROVE TaskInv'
  BY <1>15 DEF Heartbeat, AdvanceTo, Larger
<1>16. ASSUME DrainAdvance PROVE TaskInv'
  BY <1>16 DEF DrainAdvance, AdvanceTo, Larger, NoDrain
<1>17. ASSUME NEW i \in Ids, event_outbox_requeue_failed(i) PROVE TaskInv'
  BY <1>17 DEF event_outbox_requeue_failed, InStatus, Rows
<1>18. ASSUME purge_failed PROVE TaskInv'
  BY <1>18 DEF purge_failed, DeleteRows, InStatus, Rows, PurgeFloor, MinCursor,
     MinActiveCursor
<1>19. ASSUME Reconfigure PROVE TaskInv'
  BY <1>19 DEF Reconfigure
<1>20. ASSUME Restart PROVE TaskInv'
  BY <1>20 DEF Restart, AtRest, NoDrain
<1>21. ASSUME Tick PROVE TaskInv'
  <2>1. \A age \in Int : Older(age) \in Int
    <3>1. Ceiling \in Int
      BY DEF Ceiling, Larger, FailedWindow
    <3>2. QED
      BY <3>1 DEF Older, Smaller
  <2>2. cons' \in [pc: {"idle", "seeded", "drain"}, lo: Nat, read: SUBSET Ids, beat: Int]
    BY <1>21, <2>1 DEF Tick
  <2>3. cursorAge' \in Int
    <3>1. cursorAge' = 0 \/ cursorAge' = Older(cursorAge)
      BY <1>21 DEF Tick
    <3>2. cursorAge \in Int
      OBVIOUS
    <3>3. QED
      BY <3>1, <3>2, <2>1
  <2>4. disp' \in [pc: {"idle", "deliver", "markDelivered", "markFailed", "pruneDelivered",
                      "pruneFailed", "pruneCount"},
                 lag: Nat, batch: SUBSET Ids, row: Ids \cup {0}, floor: Nat]
           /\ disp'.pc = disp.pc /\ disp'.row = disp.row
    <3>1. disp' = disp \/ disp' = [disp EXCEPT !.lag = disp.lag + 1]
      BY <1>21 DEF Tick
    <3>2. disp.lag + 1 \in Nat
      OBVIOUS
    <3>3. QED
      BY <3>1, <3>2
  <2>5. QED
    BY <1>21, <2>2, <2>3, <2>4 DEF Tick
<1> HIDE DEF Setting, IInv, TaskInv, Ids, Unbounded, ghosts
<1>22. QED
  BY <1>1, <1>2, <1>3, <1>4, <1>5, <1>6, <1>7, <1>8, <1>9, <1>10, <1>11, <1>12, <1>13,
     <1>14, <1>15, <1>16, <1>17, <1>18, <1>19, <1>20, <1>21 DEF Next, Dispatch, Consume

\* A row is marked as the target answered.
LEMMA NextMarks ==
  ASSUME Setting PROVE IInv /\ [Next]_vars => MarkInv'
<1> SUFFICES ASSUME IInv, [Next]_vars PROVE MarkInv'
  OBVIOUS
<1> USE DEF Setting, IInv, RowInv, TaskInv, MarkInv, Fields, NoRow, Ids, ghosts
<1>1. CASE UNCHANGED vars
  BY <1>1 DEF vars, ghosts
<1>2. ASSUME event_outbox_insert PROVE MarkInv'
  BY <1>2 DEF event_outbox_insert, Fresh
<1>3. ASSUME Claim PROVE MarkInv'
  BY <1>3 DEF Claim, Claimed, Due, Lowest, Rows, AtRest
<1>4. ASSUME NEW i \in Ids, NEW a \in BOOLEAN, NEW b \in BOOLEAN, Deliver(i, a, b) PROVE MarkInv'
  BY <1>4 DEF Deliver
<1>5. ASSUME event_outbox_mark_delivered PROVE MarkInv'
  BY <1>5 DEF event_outbox_mark_delivered, NextInBatch
<1>6. ASSUME event_outbox_mark_failed PROVE MarkInv'
  BY <1>6 DEF event_outbox_mark_failed, NextInBatch, Exhausted
<1>7. ASSUME MarkError PROVE MarkInv'
  BY <1>7 DEF MarkError, NextInBatch
<1>8. ASSUME ReadFloor PROVE MarkInv'
  BY <1>8 DEF ReadFloor, MinActiveCursor
<1>9. ASSUME event_outbox_prune_delivered_before PROVE MarkInv'
  BY <1>9 DEF event_outbox_prune_delivered_before, DeleteRows, BelowFloor, InStatus,
     Rows
<1>10. ASSUME event_outbox_prune_failed_before PROVE MarkInv'
  BY <1>10 DEF event_outbox_prune_failed_before, DeleteRows, BelowFloor, InStatus, Rows,
     Lowest
<1>11. ASSUME event_outbox_prune_delivered_over_count PROVE MarkInv'
  BY <1>11 DEF event_outbox_prune_delivered_over_count, DeleteRows, BelowFloor,
     InStatus, Rows, Lowest, AtRest
<1>12. ASSUME prune_below_floor PROVE MarkInv'
  BY <1>12 DEF prune_below_floor, DeleteRows, Rows, Lowest, MinActiveCursor
<1>13. ASSUME seed_cursor_if_absent PROVE MarkInv'
  BY <1>13 DEF seed_cursor_if_absent, AdvanceTo, NoDrain, Larger
<1>14. ASSUME DrainRead PROVE MarkInv'
  BY <1>14 DEF DrainRead, NoDrain, Rows
<1>15. ASSUME Heartbeat PROVE MarkInv'
  BY <1>15 DEF Heartbeat, AdvanceTo, Larger
<1>16. ASSUME DrainAdvance PROVE MarkInv'
  BY <1>16 DEF DrainAdvance, AdvanceTo, Larger, NoDrain
<1>17. ASSUME NEW i \in Ids, event_outbox_requeue_failed(i) PROVE MarkInv'
  BY <1>17 DEF event_outbox_requeue_failed, InStatus, Rows
<1>18. ASSUME purge_failed PROVE MarkInv'
  BY <1>18 DEF purge_failed, DeleteRows, InStatus, Rows, PurgeFloor, MinCursor,
     MinActiveCursor
<1>19. ASSUME Reconfigure PROVE MarkInv'
  BY <1>19 DEF Reconfigure
<1>20. ASSUME Restart PROVE MarkInv'
  BY <1>20 DEF Restart, AtRest, NoDrain
<1>21. ASSUME Tick PROVE MarkInv'
  BY <1>21 DEF Tick, Rows, Older, Smaller, Ceiling, Larger, FailedWindow
<1> HIDE DEF Setting, IInv, RowInv, TaskInv, MarkInv, Fields, NoRow, Ids, ghosts
<1>22. QED
  BY <1>1, <1>2, <1>3, <1>4, <1>5, <1>6, <1>7, <1>8, <1>9, <1>10, <1>11, <1>12, <1>13,
     <1>14, <1>15, <1>16, <1>17, <1>18, <1>19, <1>20, <1>21 DEF Next, Dispatch, Consume

\* The cursor never falls behind the floor that was read from it.
LEMMA NextFloor ==
  ASSUME Setting PROVE IInv /\ [Next]_vars => FloorInv'
<1> SUFFICES ASSUME IInv, [Next]_vars PROVE FloorInv'
  OBVIOUS
<1> USE DEF Setting, IInv, TaskInv, FloorInv, Unbounded, ghosts
<1>1. CASE UNCHANGED vars
  BY <1>1 DEF vars, ghosts
<1>2. ASSUME event_outbox_insert PROVE FloorInv'
  BY <1>2 DEF event_outbox_insert, Fresh
<1>3. ASSUME Claim PROVE FloorInv'
  BY <1>3 DEF Claim, AtRest
<1>4. ASSUME NEW i \in Ids, NEW a \in BOOLEAN, NEW b \in BOOLEAN, Deliver(i, a, b) PROVE FloorInv'
  BY <1>4 DEF Deliver
<1>5. ASSUME event_outbox_mark_delivered PROVE FloorInv'
  BY <1>5 DEF event_outbox_mark_delivered, NextInBatch
<1>6. ASSUME event_outbox_mark_failed PROVE FloorInv'
  BY <1>6 DEF event_outbox_mark_failed, NextInBatch, Exhausted
<1>7. ASSUME MarkError PROVE FloorInv'
  BY <1>7 DEF MarkError, NextInBatch
<1>8. ASSUME ReadFloor PROVE FloorInv'
  BY <1>8 DEF ReadFloor, MinActiveCursor
<1>9. ASSUME event_outbox_prune_delivered_before PROVE FloorInv'
  BY <1>9 DEF event_outbox_prune_delivered_before, DeleteRows, BelowFloor, InStatus,
     Rows
<1>10. ASSUME event_outbox_prune_failed_before PROVE FloorInv'
  BY <1>10 DEF event_outbox_prune_failed_before, DeleteRows, BelowFloor, InStatus, Rows,
     Lowest
<1>11. ASSUME event_outbox_prune_delivered_over_count PROVE FloorInv'
  BY <1>11 DEF event_outbox_prune_delivered_over_count, DeleteRows, BelowFloor,
     InStatus, Rows, Lowest, AtRest
<1>12. ASSUME prune_below_floor PROVE FloorInv'
  BY <1>12 DEF prune_below_floor, DeleteRows, Rows, Lowest, MinActiveCursor
<1>13. ASSUME seed_cursor_if_absent PROVE FloorInv'
  <2>1. cursor <= cursor'
    BY <1>13 DEF seed_cursor_if_absent, AdvanceTo, Larger, Ids
  <2>2. cursor' \in Nat
    BY <1>13 DEF seed_cursor_if_absent, AdvanceTo, Larger, Ids
  <2>3. QED
    BY <1>13, <2>1, <2>2 DEF seed_cursor_if_absent
<1>14. ASSUME DrainRead PROVE FloorInv'
  BY <1>14 DEF DrainRead, NoDrain, Rows
<1>15. ASSUME Heartbeat PROVE FloorInv'
  BY <1>15 DEF Heartbeat, AdvanceTo, Larger
<1>16. ASSUME DrainAdvance PROVE FloorInv'
  BY <1>16 DEF DrainAdvance, AdvanceTo, Larger, NoDrain
<1>17. ASSUME NEW i \in Ids, event_outbox_requeue_failed(i) PROVE FloorInv'
  BY <1>17 DEF event_outbox_requeue_failed, InStatus, Rows
<1>18. ASSUME purge_failed PROVE FloorInv'
  BY <1>18 DEF purge_failed, DeleteRows, InStatus, Rows, PurgeFloor, MinCursor,
     MinActiveCursor
<1>19. ASSUME Reconfigure PROVE FloorInv'
  BY <1>19 DEF Reconfigure
<1>20. ASSUME Restart PROVE FloorInv'
  BY <1>20 DEF Restart, AtRest, NoDrain
<1>21. ASSUME Tick PROVE FloorInv'
  BY <1>21 DEF Tick, Rows, Older, Smaller, Ceiling, Larger, FailedWindow
<1> HIDE DEF Setting, IInv, TaskInv, FloorInv, Unbounded, ghosts
<1>22. QED
  BY <1>1, <1>2, <1>3, <1>4, <1>5, <1>6, <1>7, <1>8, <1>9, <1>10, <1>11, <1>12, <1>13,
     <1>14, <1>15, <1>16, <1>17, <1>18, <1>19, <1>20, <1>21 DEF Next, Dispatch, Consume

\* Every delete takes rows that are settled.
LEMMA NextSettled ==
  ASSUME Setting PROVE IInv /\ [Next]_vars => OwedKept /\ UnreadKept
<1> SUFFICES ASSUME IInv, [Next]_vars PROVE OwedKept /\ UnreadKept
  OBVIOUS
<1> USE DEF Setting, IInv, RowInv, TaskInv, MarkInv, FloorInv, OwedKept, UnreadKept,
        Listening, Unpinned, Removed, Fields, NoRow, Ids, Unbounded, ghosts
<1>1. CASE UNCHANGED vars
  BY <1>1 DEF vars, ghosts
<1>2. ASSUME event_outbox_insert PROVE OwedKept /\ UnreadKept
  BY <1>2 DEF event_outbox_insert, Fresh
<1>3. ASSUME Claim PROVE OwedKept /\ UnreadKept
  BY <1>3 DEF Claim, Claimed, Due, Lowest, Rows, AtRest
<1>4. ASSUME NEW i \in Ids, NEW a \in BOOLEAN, NEW b \in BOOLEAN, Deliver(i, a, b) PROVE OwedKept /\ UnreadKept
  BY <1>4 DEF Deliver
<1>5. ASSUME event_outbox_mark_delivered PROVE OwedKept /\ UnreadKept
  BY <1>5 DEF event_outbox_mark_delivered, NextInBatch
<1>6. ASSUME event_outbox_mark_failed PROVE OwedKept /\ UnreadKept
  BY <1>6 DEF event_outbox_mark_failed, NextInBatch, Exhausted
<1>7. ASSUME MarkError PROVE OwedKept /\ UnreadKept
  BY <1>7 DEF MarkError, NextInBatch
<1>8. ASSUME ReadFloor PROVE OwedKept /\ UnreadKept
  BY <1>8 DEF ReadFloor, MinActiveCursor
<1>9. ASSUME event_outbox_prune_delivered_before PROVE OwedKept /\ UnreadKept
  <2>1. PICK S \in SUBSET Ids :
               /\ DeleteRows(S)
               /\ \A i \in S : rows[i].status \in {"delivered", "failed"} /\ i <= disp.floor
    BY <1>9, Prunes
  <2>2. \A i \in Ids : Removed(i) => i \in S
    BY <2>1 DEF DeleteRows
  <2>3. disp.pc # "idle" /\ active' = active
    BY <1>9, Prunes
  <2>4. OwedKept
    BY <2>1, <2>2
  <2>5. UnreadKept
    <3> SUFFICES ASSUME NEW i \in Ids, Removed(i), ~Unpinned PROVE i <= cursor
      OBVIOUS
    <3>1. disp.floor \in Nat /\ disp.floor <= cursor /\ i <= disp.floor
      BY <2>1, <2>2, <2>3
    <3>2. QED
      BY <3>1
  <2>6. QED
    BY <2>4, <2>5
<1>10. ASSUME event_outbox_prune_failed_before PROVE OwedKept /\ UnreadKept
  <2>1. PICK S \in SUBSET Ids :
               /\ DeleteRows(S)
               /\ \A i \in S : rows[i].status \in {"delivered", "failed"} /\ i <= disp.floor
    BY <1>10, Prunes
  <2>2. \A i \in Ids : Removed(i) => i \in S
    BY <2>1 DEF DeleteRows
  <2>3. disp.pc # "idle" /\ active' = active
    BY <1>10, Prunes
  <2>4. OwedKept
    BY <2>1, <2>2
  <2>5. UnreadKept
    <3> SUFFICES ASSUME NEW i \in Ids, Removed(i), ~Unpinned PROVE i <= cursor
      OBVIOUS
    <3>1. disp.floor \in Nat /\ disp.floor <= cursor /\ i <= disp.floor
      BY <2>1, <2>2, <2>3
    <3>2. QED
      BY <3>1
  <2>6. QED
    BY <2>4, <2>5
<1>11. ASSUME event_outbox_prune_delivered_over_count PROVE OwedKept /\ UnreadKept
  <2>1. PICK S \in SUBSET Ids :
               /\ DeleteRows(S)
               /\ \A i \in S : rows[i].status \in {"delivered", "failed"} /\ i <= disp.floor
    BY <1>11, Prunes
  <2>2. \A i \in Ids : Removed(i) => i \in S
    BY <2>1 DEF DeleteRows
  <2>3. disp.pc # "idle" /\ active' = active
    BY <1>11, Prunes
  <2>4. OwedKept
    BY <2>1, <2>2
  <2>5. UnreadKept
    <3> SUFFICES ASSUME NEW i \in Ids, Removed(i), ~Unpinned PROVE i <= cursor
      OBVIOUS
    <3>1. disp.floor \in Nat /\ disp.floor <= cursor /\ i <= disp.floor
      BY <2>1, <2>2, <2>3
    <3>2. QED
      BY <3>1
  <2>6. QED
    BY <2>4, <2>5
<1>12. ASSUME prune_below_floor PROVE OwedKept /\ UnreadKept
  BY <1>12 DEF prune_below_floor, DeleteRows, Rows, Lowest, MinActiveCursor
<1>13. ASSUME seed_cursor_if_absent PROVE OwedKept /\ UnreadKept
  BY <1>13 DEF seed_cursor_if_absent, AdvanceTo, NoDrain, Larger
<1>14. ASSUME DrainRead PROVE OwedKept /\ UnreadKept
  BY <1>14 DEF DrainRead, NoDrain, Rows
<1>15. ASSUME Heartbeat PROVE OwedKept /\ UnreadKept
  BY <1>15 DEF Heartbeat, AdvanceTo, Larger
<1>16. ASSUME DrainAdvance PROVE OwedKept /\ UnreadKept
  BY <1>16 DEF DrainAdvance, AdvanceTo, Larger, NoDrain
<1>17. ASSUME NEW i \in Ids, event_outbox_requeue_failed(i) PROVE OwedKept /\ UnreadKept
  BY <1>17 DEF event_outbox_requeue_failed, InStatus, Rows
<1>18. ASSUME purge_failed PROVE OwedKept /\ UnreadKept
  <2>1. \A i \in Ids : Removed(i) => rows[i].status = "failed" /\ i <= PurgeFloor
    BY <1>18 DEF purge_failed, DeleteRows, InStatus, Rows
  <2>2. Listening => PurgeFloor = cursor
    BY DEF PurgeFloor, MinCursor, MinActiveCursor
  <2>3. QED
    BY <2>1, <2>2
<1>19. ASSUME Reconfigure PROVE OwedKept /\ UnreadKept
  BY <1>19 DEF Reconfigure
<1>20. ASSUME Restart PROVE OwedKept /\ UnreadKept
  BY <1>20 DEF Restart, AtRest, NoDrain
<1>21. ASSUME Tick PROVE OwedKept /\ UnreadKept
  BY <1>21 DEF Tick, Rows, Older, Smaller, Ceiling, Larger, FailedWindow
<1> HIDE DEF Setting, IInv, RowInv, TaskInv, MarkInv, FloorInv, OwedKept, UnreadKept,
        Listening, Unpinned, Removed, Fields, NoRow, Ids, Unbounded, ghosts
<1>22. QED
  BY <1>1, <1>2, <1>3, <1>4, <1>5, <1>6, <1>7, <1>8, <1>9, <1>10, <1>11, <1>12, <1>13,
     <1>14, <1>15, <1>16, <1>17, <1>18, <1>19, <1>20, <1>21 DEF Next, Dispatch, Consume

\* The invariant of the outbox, its dispatcher and its listener.
THEOREM Invariant == ASSUME Setting PROVE Spec => []IInv
<1>1. Init => IInv
  BY InitInv
<1>2. IInv /\ [Next]_vars => IInv'
  BY NextRows, NextTasks, NextMarks, NextFloor DEF IInv
<1>3. QED
  BY <1>1, <1>2, PTL DEF Spec

\* An event leaves the outbox only when the target has it or its last attempt failed
\* (delivery on), and under a floor only when the replication listener has read it:
\* through lost answers, failed updates, restarts, requeues and a cursor that moves
\* between the look at the floor and the deletes of dispatch_once.
THEOREM NothingOwedIsRemoved == ASSUME Setting PROVE Spec => RemovedIsSettled
<1>1. IInv /\ [Next]_vars => [OwedKept /\ UnreadKept]_vars
  BY NextSettled
<1>2. QED
  BY <1>1, Invariant, PTL DEF Spec, RemovedIsSettled

-----------------------------------------------------------------------------
(***************************************************************************)
(* EventConsumer.                                                          *)
(***************************************************************************)

\* A set of naturals has a least element.
LEMMA Least == ASSUME NEW T, T \subseteq Nat, T # {} PROVE \E x \in T : \A y \in T : x <= y
<1>1. PICK x \in T : \A y \in T : ~(<<y, x>> \in OpToRel(<, Nat))
  BY NatLessThanWellFounded, WFMin
<1>2. \A y \in T : y < x => <<y, x>> \in OpToRel(<, Nat)
  BY DEF OpToRel
<1>3. \A y \in T : ~(y < x)
  BY <1>1, <1>2
<1>4. \A y \in T : x <= y
  BY <1>3
<1> QED BY <1>4

\* Max and Min of bounded sets of naturals are what their names say.
LEMMA MaxIs ==
  ASSUME NEW S, S \subseteq Nat, S # {}, NEW b \in Nat, \A x \in S : x <= b
  PROVE  C!Max(S) \in S /\ \A y \in S : y <= C!Max(S)
<1> DEFINE T == {b - x : x \in S}
<1>1. \A x \in S : b - x \in Nat
  OBVIOUS
<1>2. T \subseteq Nat
  BY <1>1
<1>3. T # {}
  OBVIOUS
<1>4. PICK t \in T : \A u \in T : t <= u
  BY <1>2, <1>3, Least
<1>5. PICK x \in S : t = b - x
  BY <1>4
<1>6. ASSUME NEW y \in S PROVE x >= y
  <2>1. b - x <= b - y
    BY <1>4, <1>5
  <2>2. x \in Nat /\ y \in Nat /\ b \in Nat
    OBVIOUS
  <2>3. \A u, v, z \in Nat : z - u <= z - v => u >= v
    OBVIOUS
  <2> QED BY <2>1, <2>2, <2>3
<1>7. \E z \in S : \A y \in S : z >= y
  BY <1>6
<1>8. C!Max(S) \in S /\ \A y \in S : C!Max(S) >= y
  BY <1>7 DEF C!Max
<1> QED BY <1>8

\* The larger of a cursor and a watermark (listener_cursor_advance's max).
LEMMA MaxOfTwo == ASSUME NEW a \in Nat, NEW b \in Nat
                  PROVE  C!Max({a, b}) = IF a >= b THEN a ELSE b
<1>1. CASE a >= b
  <2>1. C!Max({a, b}) \in {a, b} /\ \A y \in {a, b} : y <= C!Max({a, b})
    BY <1>1, MaxIs
  <2> QED BY <1>1, <2>1
<1>2. CASE ~(a >= b)
  <2>1. C!Max({a, b}) \in {a, b} /\ \A y \in {a, b} : y <= C!Max({a, b})
    BY <1>2, MaxIs
  <2> QED BY <1>2, <2>1
<1> QED BY <1>1, <1>2

\* The end of a window: the batch limit or the last event.
LEMMA MinOfTwo == ASSUME NEW a \in Nat, NEW b \in Nat
                  PROVE  C!Min({a, b}) = IF a <= b THEN a ELSE b
BY DEF C!Min

\* The last event of a key in a window is one of its events, and none is later.
LEMMA LastIs ==
  ASSUME NEW n \in Nodes, NEW k, C!IdsOf(n, k) # {}, cons[n].lo \in Nat, cons[n].hi \in Nat
  PROVE  /\ C!LastOf(n, k) \in C!IdsOf(n, k)
         /\ \A i \in C!IdsOf(n, k) : i <= C!LastOf(n, k)
<1>1. C!IdsOf(n, k) \subseteq Nat /\ \A i \in C!IdsOf(n, k) : i <= cons[n].hi
  BY DEF C!IdsOf, C!Window
<1> QED BY <1>1, MaxIs DEF C!LastOf

\* The watermark lies in the window, below everything that failed.
LEMMA WatermarkIs ==
  ASSUME NEW n \in Nodes, cons[n].lo \in Nat, cons[n].hi \in Nat, cons[n].failed \subseteq Nat
  PROVE  \/ C!Watermark(n) = cons[n].lo
         \/ /\ C!Watermark(n) \in cons[n].lo + 1 .. cons[n].hi
            /\ \A f \in cons[n].failed : f > C!Watermark(n)
<1> DEFINE S == {cons[n].lo} \cup {i \in C!Window(n) : \A f \in cons[n].failed : f > i}
<1>1. S \subseteq Nat /\ S # {}
  BY DEF C!Window
<1>2. cons[n].lo + cons[n].hi \in Nat /\ \A i \in S : i <= cons[n].lo + cons[n].hi
  BY DEF C!Window
<1>3. C!Max(S) \in S
  BY <1>1, <1>2, MaxIs
<1> QED BY <1>3 DEF C!Watermark, C!Window
-----------------------------------------------------------------------------
\* The mirror starts in step: every event consumed, every replica equal to its source.
LEMMA MirrorInit == ASSUME C!Setting PROVE C!Init => C!MirrorInv
<1> SUFFICES ASSUME C!Init PROVE C!MirrorInv
  OBVIOUS
<1> USE DEF C!Setting, C!Init, C!Absent, C!NoReplica, C!NoEvent, C!Idle
<1>1. \A n \in Nodes : /\ outbox[n] = [i \in 1..Seeded |-> C!Unrouted] /\ Len(outbox[n]) = Seeded
                       /\ outbox[n] \in Seq(C!Events)
  BY DEF C!Events, C!Unrouted, C!Event, C!EventKinds
<1>2. \A n \in Nodes : cons[n] = C!Idle /\ cursor[n] = Seeded
  OBVIOUS
<1>i. C!Idle \in C!Drains
  BY DEF C!Drains, C!Pcs
<1>e. src \in [Keys -> Nat] /\ dst \in [Keys -> C!Replicas]
  BY DEF C!Replicas
<1>3. C!MirrorType
  <2>0. Seeded <= Seeded
    OBVIOUS
  <2>f. outbox = [n \in Nodes |-> outbox[n]]
    OBVIOUS
  <2>1. outbox \in [Nodes -> Seq(C!Events)] /\ \A n \in Nodes : cursor[n] <= Len(outbox[n])
    <3> HIDE DEF C!Init
    <3>1. outbox \in [Nodes -> Seq(C!Events)]
      BY <1>1, <2>f
    <3> QED BY <3>1, <1>1, <1>2, <2>0
  <2>2. cons \in [Nodes -> C!Drains]
    BY <1>i
  <2>3. clock \in Nat /\ cursor \in [Nodes -> Nat \ {0}]
    OBVIOUS
  <2>4. client \in [Clients -> C!Requests \cup {C!NoEvent}]
    OBVIOUS
  <2> QED BY <2>1, <2>2, <2>3, <2>4, <1>e DEF C!MirrorType
<1>4. C!WindowInv /\ C!WorkInv
  BY <1>2 DEF C!WindowInv, C!WorkInv, C!Working
<1>5. \A k \in Keys : /\ src[k] \in {0, 1} /\ dst[k].meta = src[k] /\ dst[k].bytes = src[k]
  OBVIOUS
<1>6. C!StoredInv /\ C!CarriedInv
  BY <1>2, <1>5 DEF C!StoredInv, C!CarriedInv, C!Grown, C!At
<1>7. C!KindInv
  BY <1>1 DEF C!KindInv, C!Unrouted, C!Event
<1>8. C!CleanInv
  BY <1>5 DEF C!CleanInv, C!Same
<1> QED BY <1>3, <1>4, <1>6, <1>7, <1>8 DEF C!MirrorInv

\* A step that moves neither the outbox nor the window leaves its events alone.
LEMMA SameWindow ==
  ASSUME NEW n \in Nodes, outbox' = outbox, cons'[n].lo = cons[n].lo, cons'[n].hi = cons[n].hi
  PROVE  \A k : C!IdsOf(n, k)' = C!IdsOf(n, k) /\ C!LastOf(n, k)' = C!LastOf(n, k)
<1>1. \A k : C!IdsOf(n, k)' = C!IdsOf(n, k)
  BY DEF C!IdsOf, C!Window
<1> QED BY <1>1 DEF C!LastOf

-----------------------------------------------------------------------------
(* Clients.                                                                *)

\* A PUT (put_object) makes its key restless, and no older version younger than it.
LEMMA PutKeeps ==
  ASSUME C!Setting, C!MirrorInv, NEW c \in Clients, NEW m \in Nodes, NEW p \in Keys, C!Put(c, m, p)
  PROVE  C!MirrorInv'
<1> USE DEF C!Setting, C!Put, C!Absent, C!NoEvent
<1>1. C!MirrorType'
  BY DEF C!MirrorInv, C!MirrorType, C!Drains, C!Replicas, C!Requests, C!EventKinds
<1>w. \A n \in Nodes : \A k : C!IdsOf(n, k)' = C!IdsOf(n, k) /\ C!LastOf(n, k)' = C!LastOf(n, k)
  BY SameWindow
<1>2. C!WindowInv'
  BY <1>w DEF C!MirrorInv, C!WindowInv, C!Working
<1>g. \A k \in Keys, v \in Nat : C!Grown(k, v) => C!Grown(k, v)'
  BY DEF C!Grown, C!MirrorInv, C!MirrorType, C!Drains, C!Replicas
<1>3. C!StoredInv' /\ C!CarriedInv'
  <2>1. C!StoredInv'
    BY <1>g DEF C!StoredInv, C!MirrorInv, C!MirrorType, C!Drains, C!Replicas
  <2>2. C!CarriedInv'
    BY <1>g DEF C!CarriedInv, C!At, C!MirrorInv, C!MirrorType, C!Drains, C!Replicas, C!WindowInv,
       C!Working
  <2> QED BY <2>1, <2>2
<1>c. /\ ~C!Calm(p)'
      /\ \A k \in Keys : k # p => /\ C!Calm(k)' <=> C!Calm(k)
                                  /\ src'[k] = src[k] /\ (C!Same(k)' <=> C!Same(k))
  BY DEF C!Calm, C!Same, C!MirrorInv, C!MirrorType, C!Drains, C!Replicas
<1>4. C!KindInv'
  <2> SUFFICES ASSUME NEW k \in Keys \ lost
               PROVE  /\ \A d \in Clients : client'[d].key = k =>
                            (client'[d].kind = "ObjectDeleted" <=> src'[k] = 0)
                      /\ C!Calm(k)' =>
                            \A n \in Nodes : \A i \in 1 .. Len(outbox[n]) :
                              outbox[n][i].key = k /\ C!NoneAfter(n, k, i) =>
                                (outbox[n][i].kind = "ObjectDeleted" <=> src'[k] = 0)
    BY DEF C!KindInv, C!NoneAfter
  <2>1. CASE k = p
    BY <2>1, <1>c DEF C!MirrorInv, C!MirrorType, C!Drains, C!Replicas
  <2>2. CASE k # p
    BY <2>2, <1>c DEF C!MirrorInv, C!KindInv, C!MirrorType, C!Drains, C!Replicas
  <2> QED BY <2>1, <2>2
<1>5. C!WorkInv'
  BY <1>w, <1>c DEF C!MirrorInv, C!WorkInv, C!Working, C!Quiet, C!NoneAfter, C!Done, C!Busy
<1>6. C!CleanInv'
  BY <1>c DEF C!MirrorInv, C!CleanInv, C!NoneAfter
<1> QED BY <1>1, <1>2, <1>3, <1>4, <1>5, <1>6 DEF C!MirrorInv

\* A DELETE (delete_object) makes its key restless; versions in flight may outlive the source.
LEMMA DeleteKeeps ==
  ASSUME C!Setting, C!MirrorInv, NEW c \in Clients, NEW m \in Nodes, NEW p \in Keys,
         C!Delete(c, m, p)
  PROVE  C!MirrorInv'
<1> USE DEF C!Setting, C!Delete, C!Absent, C!NoEvent
<1>1. C!MirrorType'
  BY DEF C!MirrorInv, C!MirrorType, C!Drains, C!Replicas, C!Requests, C!EventKinds
<1>w. \A n \in Nodes : \A k : C!IdsOf(n, k)' = C!IdsOf(n, k) /\ C!LastOf(n, k)' = C!LastOf(n, k)
  BY SameWindow
<1>2. C!WindowInv'
  BY <1>w DEF C!MirrorInv, C!WindowInv, C!Working
<1>g. \A k \in Keys, v \in Nat : C!Grown(k, v) => C!Grown(k, v)'
  BY DEF C!Grown, C!MirrorInv, C!MirrorType, C!Drains, C!Replicas
<1>3. C!StoredInv'
  BY <1>g DEF C!StoredInv, C!MirrorInv, C!MirrorType, C!Drains, C!Replicas
<1>4. C!CarriedInv'
  BY <1>g DEF C!CarriedInv, C!At, C!MirrorInv, C!MirrorType, C!Drains, C!Replicas, C!WindowInv,
     C!Working
<1>c. /\ ~C!Calm(p)'
      /\ \A k \in Keys : k # p => /\ C!Calm(k)' <=> C!Calm(k)
                                  /\ src'[k] = src[k] /\ (C!Same(k)' <=> C!Same(k))
  BY DEF C!Calm, C!Same, C!MirrorInv, C!MirrorType, C!Drains, C!Replicas
<1>5. C!KindInv'
  <2> SUFFICES ASSUME NEW k \in Keys \ lost
               PROVE  /\ \A d \in Clients : client'[d].key = k =>
                            (client'[d].kind = "ObjectDeleted" <=> src'[k] = 0)
                      /\ C!Calm(k)' =>
                            \A n \in Nodes : \A i \in 1 .. Len(outbox[n]) :
                              outbox[n][i].key = k /\ C!NoneAfter(n, k, i) =>
                                (outbox[n][i].kind = "ObjectDeleted" <=> src'[k] = 0)
    BY DEF C!KindInv, C!NoneAfter
  <2>1. CASE k = p
    BY <2>1, <1>c DEF C!MirrorInv, C!MirrorType, C!Drains, C!Replicas
  <2>2. CASE k # p
    BY <2>2, <1>c DEF C!MirrorInv, C!KindInv, C!MirrorType, C!Drains, C!Replicas
  <2> QED BY <2>1, <2>2
<1>6. C!WorkInv'
  BY <1>w, <1>c DEF C!MirrorInv, C!WorkInv, C!Working, C!Quiet, C!NoneAfter, C!Done, C!Busy
<1>7. C!CleanInv'
  BY <1>c DEF C!MirrorInv, C!CleanInv, C!NoneAfter
<1> QED BY <1>1, <1>2, <1>3, <1>4, <1>5, <1>6, <1>7 DEF C!MirrorInv

\* An event that is appended lies behind every window.
LEMMA Appended ==
  ASSUME C!MirrorInv, NEW m \in Nodes, NEW e \in C!Events,
         outbox' = [outbox EXCEPT ![m] = Append(@, e)]
  PROVE  /\ outbox' \in [Nodes -> Seq(C!Events)]
         /\ Len(outbox'[m]) = Len(outbox[m]) + 1 /\ outbox'[m][Len(outbox[m]) + 1] = e
         /\ \A n \in Nodes : Len(outbox[n]) \in Nat /\ Len(outbox[n]) <= Len(outbox'[n])
         /\ \A n \in Nodes : \A i \in 1..Len(outbox[n]) : outbox'[n][i] = outbox[n][i]
         /\ \A n \in Nodes : n # m => Len(outbox'[n]) = Len(outbox[n])
BY DEF C!MirrorInv, C!MirrorType, C!Drains, C!Replicas

\* So does every window's content, and the last event of each of its keys.
LEMMA AppendedWindow ==
  ASSUME C!MirrorInv, NEW m \in Nodes, NEW e \in C!Events,
         outbox' = [outbox EXCEPT ![m] = Append(@, e)],
         NEW n \in Nodes, cons'[n].lo = cons[n].lo, cons'[n].hi = cons[n].hi, C!Working(n)
  PROVE  \A k : C!IdsOf(n, k)' = C!IdsOf(n, k) /\ C!LastOf(n, k)' = C!LastOf(n, k)
<1>1. cons[n].lo \in Nat /\ cons[n].hi \in Nat /\ cons[n].hi <= Len(outbox[n])
  BY DEF C!MirrorInv, C!MirrorType, C!Drains, C!Replicas, C!WindowInv
<1>2. \A i \in C!Window(n) : i \in 1..Len(outbox[n])
  BY <1>1, Appended DEF C!Window
<1>3. \A i \in C!Window(n) : outbox'[n][i] = outbox[n][i]
  BY <1>2, Appended
<1>4. \A k : C!IdsOf(n, k)' = C!IdsOf(n, k)
  BY <1>3 DEF C!IdsOf, C!Window
<1> QED BY <1>4 DEF C!LastOf

\* The appended event (enqueue_object_event) says of its key what the source shows.
LEMMA EnqueueKeeps ==
  ASSUME C!Setting, C!MirrorInv, NEW c \in Clients, C!Enqueue(c)
  PROVE  C!MirrorInv'
<1>p. PICK p, m, e : /\ p = client[c].key /\ m = client[c].node
                     /\ e = C!Event(client[c].key, client[c].kind)
  OBVIOUS
<1> USE DEF C!Setting, C!Absent
<1>a. m \in Nodes /\ p \in Keys /\ e \in C!Events /\ e.key = p /\ e.kind = client[c].kind
  BY <1>p DEF C!Enqueue, C!MirrorInv, C!MirrorType, C!Drains, C!Replicas, C!Requests, C!Events, C!Event
<1>o. outbox' = [outbox EXCEPT ![m] = Append(@, e)]
  BY <1>p DEF C!Enqueue
<1>u. UNCHANGED <<clock, src, dst, cursor, cons, lost>>
  BY DEF C!Enqueue
<1>n. client' \in [Clients -> {C!NoEvent}] /\ C!NoEvent.key = "none"
  BY DEF C!Enqueue, C!MirrorInv, C!MirrorType, C!Drains, C!Replicas, C!NoEvent
<1>b. /\ outbox' \in [Nodes -> Seq(C!Events)]
      /\ Len(outbox'[m]) = Len(outbox[m]) + 1 /\ outbox'[m][Len(outbox[m]) + 1] = e
      /\ \A n \in Nodes : Len(outbox[n]) \in Nat /\ Len(outbox[n]) <= Len(outbox'[n])
      /\ \A n \in Nodes : \A i \in 1..Len(outbox[n]) : outbox'[n][i] = outbox[n][i]
  BY <1>a, <1>o, Appended
<1>1. C!MirrorType'
  BY <1>b, <1>u, <1>n DEF C!MirrorInv, C!MirrorType, C!Drains, C!Replicas
<1>w. \A n \in Nodes : C!Working(n) =>
         \A k : C!IdsOf(n, k)' = C!IdsOf(n, k) /\ C!LastOf(n, k)' = C!LastOf(n, k)
  BY <1>a, <1>o, <1>u, AppendedWindow
<1>2. C!WindowInv'
  BY <1>w, <1>u, <1>b DEF C!MirrorInv, C!MirrorType, C!Drains, C!Replicas, C!WindowInv, C!Working
<1>3. C!StoredInv' /\ C!CarriedInv'
  BY <1>u DEF C!StoredInv, C!CarriedInv, C!Grown, C!At, C!MirrorInv
\* Every other key is as calm as it was, and the appended event is not its own.
<1>c. \A k \in Keys : k # p => C!Calm(k)
  BY <1>p DEF C!Calm
<1>d. \A n \in Nodes, k \in Keys, i \in Nat : C!NoneAfter(n, k, i)' => C!NoneAfter(n, k, i)
  BY <1>b DEF C!NoneAfter
<1>e. \A n \in Nodes, i \in Nat : i <= Len(outbox[n]) => ~C!NoneAfter(n, p, i)'
  BY <1>a, <1>b DEF C!NoneAfter
<1>s. \A k : C!Same(k)' <=> C!Same(k)
  BY <1>u DEF C!Same
<1>4. C!KindInv'
  <2> SUFFICES ASSUME NEW k \in Keys \ lost, NEW n \in Nodes, NEW i \in 1..Len(outbox'[n]),
                      outbox'[n][i].key = k, C!NoneAfter(n, k, i)'
               PROVE  outbox'[n][i].kind = "ObjectDeleted" <=> src[k] = 0
    BY <1>n, <1>u DEF C!KindInv, C!NoneAfter
  <2>1. CASE k = p
    <3>1. ~(i <= Len(outbox[n]))
      BY <2>1, <1>e
    <3>2. i = Len(outbox[n]) + 1 /\ n = m
      BY <3>1, <1>b, <1>a
    <3>3. client[c].kind = "ObjectDeleted" <=> src[k] = 0
      BY <1>p, <2>1 DEF C!MirrorInv, C!KindInv
    <3> QED BY <3>2, <3>3, <1>a, <1>b
  <2>2. CASE k # p
    <3>1. i \in 1..Len(outbox[n])
      BY <2>2, <1>a, <1>b
    <3> QED BY <2>2, <3>1, <1>b, <1>c, <1>d DEF C!MirrorInv, C!KindInv
  <2> QED BY <2>1, <2>2
<1>5. C!WorkInv'
  <2> SUFFICES ASSUME NEW n \in Nodes, NEW k \in Keys \ lost, C!Working(n), C!Quiet(n, k)'
               PROVE  /\ C!Done(n, k) => C!Same(k)
                      /\ C!Busy(n, k) =>
                          /\ cons[n].pc \in {"confirmAbsent", "deleteDest"} <=> src[k] = 0
                          /\ cons[n].pc \in {"headDest", "read", "store"} => cons[n].head = src[k]
                          /\ cons[n].pc = "store" => cons[n].held = src[k]
                          /\ cons[n].pc \in {"verify", "emit"} => C!Same(k)
    BY <1>u, <1>w, <1>s DEF C!WorkInv, C!Working, C!Busy, C!Done
  <2>1. cons[n].hi \in Nat /\ cons[n].hi <= Len(outbox[n])
    BY DEF C!MirrorInv, C!MirrorType, C!Drains, C!Replicas, C!WindowInv
  <2>2. k # p
    BY <2>1, <1>e, <1>u DEF C!Quiet, C!NoneAfter
  <2>3. C!Quiet(n, k)
    BY <2>1, <2>2, <1>c, <1>d, <1>u DEF C!Quiet, C!NoneAfter
  <2> QED BY <2>3 DEF C!MirrorInv, C!WorkInv
<1>6. C!CleanInv'
  <2> SUFFICES ASSUME NEW n \in Nodes, NEW k \in Keys \ lost, C!NoneAfter(n, k, cursor[n])'
               PROVE  C!Same(k)
    BY <1>u, <1>s DEF C!CleanInv
  <2>1. cursor[n] \in Nat /\ cursor[n] <= Len(outbox[n])
    BY DEF C!MirrorInv, C!MirrorType, C!Drains, C!Replicas
  <2>2. \A j \in cursor[n] + 1 .. Len(outbox'[n]) : outbox'[n][j].key # k
    BY <1>u DEF C!NoneAfter
  <2>3. k # p
    <3>1. n = m /\ Len(outbox[n]) + 1 \in cursor[n] + 1 .. Len(outbox'[n])
      BY <2>1, <1>a, <1>b
    <3> QED BY <3>1, <2>2, <1>a, <1>b
  <2>4. C!NoneAfter(n, k, cursor[n])
    BY <2>1, <2>2, <1>b DEF C!NoneAfter
  <2> QED BY <2>3, <2>4, <1>c DEF C!MirrorInv, C!CleanInv
<1> QED BY <1>1, <1>2, <1>3, <1>4, <1>5, <1>6 DEF C!MirrorInv

\* A request whose event is lost takes its key out of what is claimed.
LEMMA Losing ==
  ASSUME C!Setting, C!MirrorInv, UNCHANGED <<clock, src, dst, outbox, cursor, cons>>,
         client' \in [Clients -> {C!NoEvent}], lost \subseteq lost',
         \A c \in Clients : client[c] # C!NoEvent => client[c].key \in lost'
  PROVE  C!MirrorInv'
<1> USE DEF C!Setting, C!Absent
<1>1. C!MirrorType'
  BY DEF C!MirrorInv, C!MirrorType, C!Drains, C!Replicas
<1>w. \A n \in Nodes : \A k : C!IdsOf(n, k)' = C!IdsOf(n, k) /\ C!LastOf(n, k)' = C!LastOf(n, k)
  BY SameWindow
<1>2. C!WindowInv'
  BY <1>w DEF C!MirrorInv, C!WindowInv, C!Working
<1>3. C!StoredInv' /\ C!CarriedInv'
  BY DEF C!StoredInv, C!CarriedInv, C!Grown, C!At, C!MirrorInv
<1>c. \A k \in Keys \ lost' : C!Calm(k)
  BY DEF C!Calm, C!NoEvent
<1>4. C!KindInv'
  BY <1>c DEF C!MirrorInv, C!KindInv, C!NoneAfter, C!NoEvent
<1>5. C!WorkInv'
  BY <1>w, <1>c DEF C!MirrorInv, C!WorkInv, C!Working, C!Quiet, C!NoneAfter, C!Done, C!Busy, C!Same
<1>6. C!CleanInv'
  BY <1>c DEF C!MirrorInv, C!CleanInv, C!NoneAfter, C!Same
<1> QED BY <1>1, <1>2, <1>3, <1>4, <1>5, <1>6 DEF C!MirrorInv

\* An append that fails (event_outbox_insert_many) is such a request.
LEMMA EnqueueErrorKeeps ==
  ASSUME C!Setting, C!MirrorInv, NEW c \in Clients, C!EnqueueError(c)
  PROVE  C!MirrorInv'
<1>1. client' \in [Clients -> {C!NoEvent}]
  BY DEF C!EnqueueError, C!Setting, C!MirrorInv, C!MirrorType, C!Drains, C!Replicas
<1>2. \A d \in Clients : client[d].key \in lost'
  BY DEF C!EnqueueError, C!Setting
<1>3. lost \subseteq lost' /\ UNCHANGED <<clock, src, dst, outbox, cursor, cons>>
  BY DEF C!EnqueueError
<1> QED BY <1>1, <1>2, <1>3, Losing

-----------------------------------------------------------------------------
(* The consumer.                                                           *)

\* A consumer that starts over claims nothing but CleanInv.
LEMMA Resting ==
  ASSUME C!Setting, C!MirrorInv, cons' \in [Nodes -> C!Drains],
         \A n \in Nodes : cons'[n].pc \in {"idle", "drain"},
         UNCHANGED <<clock, src, dst, outbox, cursor, client, lost>>
  PROVE  C!MirrorInv'
<1>1. C!MirrorType'
  BY DEF C!MirrorInv, C!MirrorType, C!Drains, C!Replicas
<1>2. C!WindowInv' /\ C!WorkInv' /\ C!CarriedInv'
  BY DEF C!WindowInv, C!WorkInv, C!CarriedInv, C!Working, C!At
<1>3. C!StoredInv' /\ C!CleanInv'
  BY DEF C!StoredInv, C!Grown, C!CleanInv, C!Calm, C!NoneAfter, C!Same, C!MirrorInv
<1>4. C!KindInv'
  BY DEF C!KindInv, C!Calm, C!NoneAfter, C!Absent, C!MirrorInv
<1> QED BY <1>1, <1>2, <1>3, <1>4 DEF C!MirrorInv

\* Seeding finds a cursor, and a skipped tick or an aborted drain leaves it where it was.
LEMMA RestKeeps ==
  ASSUME C!Setting, C!MirrorInv, NEW n \in Nodes, C!Seed(n) \/ C!SkipTick(n) \/ C!AbortDrain(n)
  PROVE  C!MirrorInv'
<1>0. C!Idle \in C!Drains
  BY DEF C!Idle, C!Drains, C!Pcs
<1>1. cons' \in [Nodes -> C!Drains]
  <2>1. CASE C!Seed(n)
    BY <2>1 DEF C!Seed, C!MirrorInv, C!MirrorType, C!Drains, C!Replicas, C!Pcs
  <2>2. CASE C!AbortDrain(n)
    BY <1>0, <2>2 DEF C!AbortDrain, C!MirrorInv, C!MirrorType, C!Drains, C!Replicas
  <2>3. CASE C!SkipTick(n)
    BY <2>3 DEF C!SkipTick, C!MirrorInv, C!MirrorType
  <2> QED BY <2>1, <2>2, <2>3
<1>2. \A m \in Nodes : cons'[m].pc \in {"idle", "drain"}
  BY DEF C!Setting, C!Seed, C!SkipTick, C!AbortDrain, C!Idle, C!MirrorInv, C!MirrorType, C!Drains, C!Replicas
<1>3. cursor' = cursor
  BY DEF C!Seed, C!SkipTick, C!AbortDrain, C!SeedCursor, C!MirrorInv, C!MirrorType, C!Drains, C!Replicas
<1>4. UNCHANGED <<clock, src, dst, outbox, client, lost>>
  BY DEF C!Seed, C!SkipTick, C!AbortDrain
<1> QED BY <1>1, <1>2, <1>3, <1>4, Resting

\* A step of the consumer on the key p it is busy with: what is to be shown of it.
LEMMA KeyStep ==
  ASSUME C!Setting, C!MirrorInv, NEW n \in Nodes, NEW p \in Keys,
         cons[n].pc \notin {"idle", "drain", "keys"}, p = cons[n].key,
         UNCHANGED <<src, outbox, cursor, client, lost>>,
         clock' \in Nat, clock <= clock', dst' \in [Keys -> C!Replicas],
         \A k \in Keys : k # p => dst'[k] = dst[k],
         dst'[p].meta <= dst'[p].bytes, C!Grown(p, dst'[p].bytes),
         cons' \in [Nodes -> C!Drains], cons'[n].pc \notin {"idle", "drain"},
         cons'[n].lo = cons[n].lo, cons'[n].hi = cons[n].hi, cons'[n].todo = cons[n].todo,
         cons'[n].key = p, cons[n].failed \subseteq cons'[n].failed,
         cons'[n].pc = "read" => C!Grown(p, cons'[n].head),
         cons'[n].pc = "store" => cons'[n].head <= cons'[n].held /\ C!Grown(p, cons'[n].held),
         p \notin lost /\ C!Quiet(n, p) =>
           IF cons'[n].pc = "keys" THEN C!Same(p)' \/ C!LastOf(n, p) \in cons'[n].failed
           ELSE /\ cons'[n].pc \in {"confirmAbsent", "deleteDest"} <=> src[p] = C!Absent
                /\ cons'[n].pc \in {"headDest", "read", "store"} => cons'[n].head = src[p]
                /\ cons'[n].pc = "store" => cons'[n].held = src[p]
                /\ cons'[n].pc \in {"verify", "emit"} => C!Same(p)'
  PROVE  C!MirrorInv'
<1>1. C!MirrorType'
  BY DEF C!MirrorInv, C!MirrorType
<1>o. \A m \in Nodes : m = n
  BY DEF C!Setting
<1>w. \A m \in Nodes : \A k : C!IdsOf(m, k)' = C!IdsOf(m, k) /\ C!LastOf(m, k)' = C!LastOf(m, k)
  BY <1>o, SameWindow
<1>i. /\ cons[n].lo = cursor[n] /\ cons[n].hi <= Len(outbox[n])
      /\ p \notin cons[n].todo /\ C!IdsOf(n, p) # {}
      /\ \A k \in cons[n].todo : C!IdsOf(n, k) # {}
      /\ cons[n].lo \in Nat /\ cons[n].hi \in Nat /\ Len(outbox[n]) \in Nat
  BY DEF C!MirrorInv, C!MirrorType, C!Drains, C!WindowInv, C!Working
<1>2. C!WindowInv'
  BY <1>o, <1>w, <1>i DEF C!WindowInv
<1>g. \A k \in Keys, v \in Nat : C!Grown(k, v) => C!Grown(k, v)'
  BY DEF C!Grown, C!MirrorInv, C!MirrorType
<1>3. C!StoredInv'
  <2> SUFFICES ASSUME NEW k \in Keys
               PROVE  src[k] <= clock' /\ dst'[k].meta <= dst'[k].bytes /\ dst'[k].bytes <= clock'
                      /\ (src[k] # C!Absent => dst'[k].bytes <= src[k])
    BY DEF C!StoredInv, C!Grown
  <2>1. src[k] \in Nat /\ src[k] <= clock /\ clock \in Nat
    BY DEF C!MirrorInv, C!MirrorType, C!StoredInv
  <2>2. dst'[k].bytes \in Nat
    BY DEF C!Replicas
  <2>3. dst'[k].meta <= dst'[k].bytes /\ C!Grown(k, dst'[k].bytes)
    BY DEF C!MirrorInv, C!StoredInv
  <2>4. dst'[k].bytes <= clock' /\ (src[k] # C!Absent => dst'[k].bytes <= src[k])
    BY <2>2, <2>3, <2>1 DEF C!Grown
  <2> QED BY <2>1, <2>3, <2>4
<1>4. C!CarriedInv'
  <2>1. cons'[n].head \in Nat /\ cons'[n].held \in Nat
    BY DEF C!Drains
  <2>2. \A v \in Nat : C!Grown(p, v) => v <= clock' /\ (src'[p] # C!Absent => v <= src'[p])
    BY DEF C!Grown, C!MirrorInv, C!MirrorType
  <2> QED BY <1>o, <2>1, <2>2 DEF C!CarriedInv, C!Grown, C!At
<1>c. \A k : C!Calm(k)' <=> C!Calm(k)
  BY DEF C!Calm
<1>s. \A k \in Keys : k # p => (C!Same(k)' <=> C!Same(k))
  BY DEF C!Same
<1>5. C!KindInv'
  BY <1>c DEF C!KindInv, C!NoneAfter, C!MirrorInv
<1>6. C!WorkInv'
  <2> SUFFICES ASSUME NEW k \in Keys \ lost, C!Quiet(n, k)
               PROVE  /\ C!Done(n, k)' => C!Same(k)'
                      /\ C!Busy(n, k)' =>
                           /\ cons'[n].pc \in {"confirmAbsent", "deleteDest"} <=> src[k] = C!Absent
                           /\ cons'[n].pc \in {"headDest", "read", "store"} => cons'[n].head = src[k]
                           /\ cons'[n].pc = "store" => cons'[n].held = src[k]
                           /\ cons'[n].pc \in {"verify", "emit"} => C!Same(k)'
    BY <1>o, <1>c DEF C!WorkInv, C!Quiet, C!NoneAfter
  <2>1. CASE k = p
    BY <2>1, <1>w DEF C!Done, C!Busy
  <2>2. CASE k # p
    <3>1. ~C!Busy(n, k)' /\ ~C!Busy(n, k)
      BY <2>2 DEF C!Busy
    <3>2. C!Done(n, k)' => C!Done(n, k)
      BY <3>1, <1>w DEF C!Done
    <3>3. C!Done(n, k) => C!Same(k)
      BY DEF C!MirrorInv, C!WorkInv, C!Working
    <3> QED BY <3>1, <3>2, <3>3, <2>2, <1>s
  <2> QED BY <2>1, <2>2
<1>7. C!CleanInv'
  <2>1. ~C!NoneAfter(n, p, cursor[n])
    BY <1>i DEF C!NoneAfter, C!IdsOf, C!Window
  <2>2. \A k : C!NoneAfter(n, k, cursor[n])' <=> C!NoneAfter(n, k, cursor[n])
    BY DEF C!NoneAfter
  <2> QED BY <2>1, <2>2, <1>o, <1>c, <1>s DEF C!CleanInv, C!MirrorInv
<1> QED BY <1>1, <1>2, <1>3, <1>4, <1>5, <1>6, <1>7 DEF C!MirrorInv

\* What is known of a consumer that is busy with a key.
LEMMA Current ==
  ASSUME C!MirrorInv, NEW n \in Nodes, cons[n].pc \notin {"idle", "drain", "keys"}
  PROVE  /\ cons[n].key \in Keys /\ C!LastOf(n, cons[n].key) \in Nat
         /\ cons[n] \in C!Drains /\ cons \in [Nodes -> C!Drains]
         /\ clock \in Nat /\ src \in [Keys -> Nat] /\ dst \in [Keys -> C!Replicas]
         /\ src[cons[n].key] \in Nat /\ dst[cons[n].key] \in C!Replicas
         /\ \A k \in Keys : src[k] <= clock /\ dst[k].meta <= dst[k].bytes /\ C!Grown(k, dst[k].bytes)
<1>1. cons[n].key \in Keys /\ C!IdsOf(n, cons[n].key) # {}
  BY DEF C!MirrorInv, C!WindowInv, C!Working
<1>2. cons[n] \in C!Drains /\ cons \in [Nodes -> C!Drains]
  BY DEF C!MirrorInv, C!MirrorType
<1>3. C!LastOf(n, cons[n].key) \in C!IdsOf(n, cons[n].key)
  BY <1>1, <1>2, LastIs DEF C!Drains
<1>4. C!LastOf(n, cons[n].key) \in Nat
  BY <1>2, <1>3 DEF C!IdsOf, C!Window, C!Drains
<1> QED BY <1>1, <1>2, <1>4 DEF C!MirrorInv, C!MirrorType, C!StoredInv

\* The same for a step that stores nothing.
LEMMA LookStep ==
  ASSUME C!Setting, C!MirrorInv, NEW n \in Nodes, NEW p \in Keys,
         cons[n].pc \notin {"idle", "drain", "keys"}, p = cons[n].key,
         UNCHANGED <<clock, src, dst, outbox, cursor, client, lost>>,
         cons' \in [Nodes -> C!Drains], cons'[n].pc \notin {"idle", "drain"},
         cons'[n].lo = cons[n].lo, cons'[n].hi = cons[n].hi, cons'[n].todo = cons[n].todo,
         cons'[n].key = p, cons[n].failed \subseteq cons'[n].failed,
         cons'[n].pc = "read" => C!Grown(p, cons'[n].head),
         cons'[n].pc = "store" => cons'[n].head <= cons'[n].held /\ C!Grown(p, cons'[n].held),
         p \notin lost /\ C!Quiet(n, p) =>
           IF cons'[n].pc = "keys" THEN C!Same(p) \/ C!LastOf(n, p) \in cons'[n].failed
           ELSE /\ cons'[n].pc \in {"confirmAbsent", "deleteDest"} <=> src[p] = C!Absent
                /\ cons'[n].pc \in {"headDest", "read", "store"} => cons'[n].head = src[p]
                /\ cons'[n].pc = "store" => cons'[n].held = src[p]
                /\ cons'[n].pc \in {"verify", "emit"} => C!Same(p)
  PROVE  C!MirrorInv'
<1>1. clock' \in Nat /\ clock <= clock' /\ dst' \in [Keys -> C!Replicas]
  BY Current
<1>2. \A k \in Keys : k # p => dst'[k] = dst[k]
  OBVIOUS
<1>3. dst'[p].meta <= dst'[p].bytes /\ C!Grown(p, dst'[p].bytes)
  BY Current
<1>4. C!Same(p)' <=> C!Same(p)
  BY DEF C!Same
<1>5. UNCHANGED <<src, outbox, cursor, client, lost>>
  OBVIOUS
<1> QED BY <1>1, <1>2, <1>3, <1>4, <1>5, KeyStep

\* A key that failed is marked and left.
LEMMA Failing ==
  ASSUME NEW n \in Nodes, NEW p, p = cons[n].key, C!LastOf(n, p) \in Nat,
         cons \in [Nodes -> C!Drains], C!FailKey(n)
  PROVE  /\ cons' \in [Nodes -> C!Drains] /\ cons'[n].pc = "keys"
         /\ cons'[n].lo = cons[n].lo /\ cons'[n].hi = cons[n].hi /\ cons'[n].todo = cons[n].todo
         /\ cons'[n].key = p /\ cons'[n].failed = cons[n].failed \cup {C!LastOf(n, p)}
BY DEF C!FailKey, C!MarkFailed, C!Drains, C!Pcs

\* apply_action finds a source to copy, or none and leaves the key to its delete event.
LEMMA HeadSourceKeeps ==
  ASSUME C!Setting, C!MirrorInv, NEW n \in Nodes, C!HeadSource(n)
  PROVE  C!MirrorInv'
<1>a. cons[n].pc \notin {"idle", "drain", "keys"} /\ UNCHANGED <<clock, src, dst, outbox, cursor, client, lost>>
  BY DEF C!HeadSource, C!At
<1>p. PICK p \in Keys : p = cons[n].key
  BY <1>a, Current
<1>t. /\ cons \in [Nodes -> C!Drains] /\ cons[n] \in C!Drains /\ C!LastOf(n, p) \in Nat
      /\ clock \in Nat /\ src[p] \in Nat /\ src[p] <= clock /\ dst[p] \in C!Replicas
      /\ dst[p].meta <= dst[p].bytes /\ C!Grown(p, dst[p].bytes)
  BY <1>a, <1>p, Current
<1>1. /\ cons' \in [Nodes -> C!Drains] /\ cons'[n].pc \notin {"idle", "drain"}
      /\ cons'[n].lo = cons[n].lo /\ cons'[n].hi = cons[n].hi /\ cons'[n].todo = cons[n].todo
      /\ cons'[n].key = p /\ cons[n].failed \subseteq cons'[n].failed
  BY <1>p, <1>t DEF C!HeadSource, C!At, C!Goto, C!Handled, C!Source, C!Drains, C!Pcs, C!Copying
<1>2. cons'[n].pc = "read" => C!Grown(p, cons'[n].head)
  BY <1>p, <1>t DEF C!HeadSource, C!At, C!Goto, C!Handled, C!Source, C!Drains, C!Grown
<1>3. cons'[n].pc = "store" => cons'[n].head <= cons'[n].held /\ C!Grown(p, cons'[n].held)
  BY <1>p, <1>t DEF C!HeadSource, C!At, C!Goto, C!Handled, C!Source, C!Drains, C!Grown,
     C!MirrorInv, C!CarriedInv
<1>4. ASSUME p \notin lost, C!Quiet(n, p)
      PROVE  IF cons'[n].pc = "keys" THEN C!Same(p) \/ C!LastOf(n, p) \in cons'[n].failed
             ELSE /\ cons'[n].pc \in {"confirmAbsent", "deleteDest"} <=> src[p] = C!Absent
                  /\ cons'[n].pc \in {"headDest", "read", "store"} => cons'[n].head = src[p]
                  /\ cons'[n].pc = "store" => cons'[n].held = src[p]
                  /\ cons'[n].pc \in {"verify", "emit"} => C!Same(p)
  <2>1. /\ cons[n].pc \in {"confirmAbsent", "deleteDest"} <=> src[p] = C!Absent
        /\ cons[n].pc \in {"headDest", "read", "store"} => cons[n].head = src[p]
        /\ cons[n].pc = "store" => cons[n].held = src[p]
        /\ cons[n].pc \in {"verify", "emit"} => C!Same(p)
    BY <1>a, <1>p, <1>4 DEF C!MirrorInv, C!WorkInv, C!Working, C!Busy
  <2> QED BY <1>a, <1>p, <1>t, <2>1 DEF C!HeadSource, C!At, C!Goto, C!Handled, C!Source, C!Drains,
             C!Same, C!Absent, C!Grown, C!Replicas
<1> QED BY <1>a, <1>p, <1>1, <1>2, <1>3, <1>4, LookStep

\* should_replicate skips a copy under content-diff only when the replica is the source: its
\* metadata equal those of the HEAD and its bytes are not older than they.
LEMMA HeadDestKeeps ==
  ASSUME C!Setting, C!MirrorInv, NEW n \in Nodes, C!HeadDest(n)
  PROVE  C!MirrorInv'
<1>a. cons[n].pc \notin {"idle", "drain", "keys"} /\ UNCHANGED <<clock, src, dst, outbox, cursor, client, lost>>
  BY DEF C!HeadDest, C!At
<1>p. PICK p \in Keys : p = cons[n].key
  BY <1>a, Current
<1>t. /\ cons \in [Nodes -> C!Drains] /\ cons[n] \in C!Drains /\ C!LastOf(n, p) \in Nat
      /\ clock \in Nat /\ src[p] \in Nat /\ src[p] <= clock /\ dst[p] \in C!Replicas
      /\ dst[p].meta <= dst[p].bytes /\ C!Grown(p, dst[p].bytes)
  BY <1>a, <1>p, Current
<1>1. /\ cons' \in [Nodes -> C!Drains] /\ cons'[n].pc \notin {"idle", "drain"}
      /\ cons'[n].lo = cons[n].lo /\ cons'[n].hi = cons[n].hi /\ cons'[n].todo = cons[n].todo
      /\ cons'[n].key = p /\ cons[n].failed \subseteq cons'[n].failed
  BY <1>p, <1>t DEF C!HeadDest, C!At, C!Goto, C!Handled, C!should_replicate, C!Replica, C!Drains,
     C!Pcs, C!Copying
<1>2. cons'[n].pc = "read" => C!Grown(p, cons'[n].head)
  BY <1>p, <1>t DEF C!HeadDest, C!At, C!Goto, C!Handled, C!should_replicate, C!Replica, C!Drains,
     C!Grown
<1>3. cons'[n].pc = "store" => cons'[n].head <= cons'[n].held /\ C!Grown(p, cons'[n].held)
  BY <1>p, <1>t DEF C!HeadDest, C!At, C!Goto, C!Handled, C!should_replicate, C!Replica, C!Drains,
     C!Grown, C!MirrorInv, C!CarriedInv
<1>4. ASSUME p \notin lost, C!Quiet(n, p)
      PROVE  IF cons'[n].pc = "keys" THEN C!Same(p) \/ C!LastOf(n, p) \in cons'[n].failed
             ELSE /\ cons'[n].pc \in {"confirmAbsent", "deleteDest"} <=> src[p] = C!Absent
                  /\ cons'[n].pc \in {"headDest", "read", "store"} => cons'[n].head = src[p]
                  /\ cons'[n].pc = "store" => cons'[n].held = src[p]
                  /\ cons'[n].pc \in {"verify", "emit"} => C!Same(p)
  <2>1. /\ cons[n].pc \in {"confirmAbsent", "deleteDest"} <=> src[p] = C!Absent
        /\ cons[n].pc \in {"headDest", "read", "store"} => cons[n].head = src[p]
        /\ cons[n].pc = "store" => cons[n].held = src[p]
        /\ cons[n].pc \in {"verify", "emit"} => C!Same(p)
    BY <1>a, <1>p, <1>4 DEF C!MirrorInv, C!WorkInv, C!Working, C!Busy
  <2> QED BY <1>a, <1>p, <1>t, <2>1 DEF C!HeadDest, C!At, C!Goto, C!Handled, C!should_replicate,
             C!Replica, C!Drains, C!Same, C!Absent, C!Grown, C!Replicas, C!Setting
<1> QED BY <1>a, <1>p, <1>1, <1>2, <1>3, <1>4, LookStep

\* A destination HEAD that fails leads to the copy.
LEMMA HeadDestErrorKeeps ==
  ASSUME C!Setting, C!MirrorInv, NEW n \in Nodes, C!HeadDestError(n)
  PROVE  C!MirrorInv'
<1>a. cons[n].pc \notin {"idle", "drain", "keys"} /\ UNCHANGED <<clock, src, dst, outbox, cursor, client, lost>>
  BY DEF C!HeadDestError, C!At
<1>p. PICK p \in Keys : p = cons[n].key
  BY <1>a, Current
<1>t. /\ cons \in [Nodes -> C!Drains] /\ cons[n] \in C!Drains /\ C!LastOf(n, p) \in Nat
      /\ clock \in Nat /\ src[p] \in Nat /\ src[p] <= clock /\ dst[p] \in C!Replicas
      /\ dst[p].meta <= dst[p].bytes /\ C!Grown(p, dst[p].bytes)
  BY <1>a, <1>p, Current
<1>1. /\ cons' \in [Nodes -> C!Drains] /\ cons'[n].pc \notin {"idle", "drain"}
      /\ cons'[n].lo = cons[n].lo /\ cons'[n].hi = cons[n].hi /\ cons'[n].todo = cons[n].todo
      /\ cons'[n].key = p /\ cons[n].failed \subseteq cons'[n].failed
  BY <1>p, <1>t DEF C!HeadDestError, C!At, C!Goto, C!Handled, C!should_replicate, C!NoReplica,
     C!Drains, C!Pcs, C!Copying
<1>2. cons'[n].pc = "read" => C!Grown(p, cons'[n].head)
  BY <1>p, <1>t DEF C!HeadDestError, C!At, C!Goto, C!Handled, C!should_replicate, C!NoReplica,
     C!Drains, C!Grown
<1>3. cons'[n].pc = "store" => cons'[n].head <= cons'[n].held /\ C!Grown(p, cons'[n].held)
  BY <1>p, <1>t DEF C!HeadDestError, C!At, C!Goto, C!Handled, C!should_replicate, C!NoReplica,
     C!Drains, C!Grown, C!MirrorInv, C!CarriedInv
<1>4. ASSUME p \notin lost, C!Quiet(n, p)
      PROVE  IF cons'[n].pc = "keys" THEN C!Same(p) \/ C!LastOf(n, p) \in cons'[n].failed
             ELSE /\ cons'[n].pc \in {"confirmAbsent", "deleteDest"} <=> src[p] = C!Absent
                  /\ cons'[n].pc \in {"headDest", "read", "store"} => cons'[n].head = src[p]
                  /\ cons'[n].pc = "store" => cons'[n].held = src[p]
                  /\ cons'[n].pc \in {"verify", "emit"} => C!Same(p)
  <2>1. /\ cons[n].pc \in {"confirmAbsent", "deleteDest"} <=> src[p] = C!Absent
        /\ cons[n].pc \in {"headDest", "read", "store"} => cons[n].head = src[p]
        /\ cons[n].pc = "store" => cons[n].held = src[p]
        /\ cons[n].pc \in {"verify", "emit"} => C!Same(p)
    BY <1>a, <1>p, <1>4 DEF C!MirrorInv, C!WorkInv, C!Working, C!Busy
  <2> QED BY <1>a, <1>p, <1>t, <2>1 DEF C!HeadDestError, C!At, C!Goto, C!Handled,
             C!should_replicate, C!NoReplica, C!Drains, C!Same, C!Absent, C!Grown, C!Replicas
<1> QED BY <1>a, <1>p, <1>1, <1>2, <1>3, <1>4, LookStep

\* copy_object_once sees the current source, or fails the key.
LEMMA CopyHeadKeeps ==
  ASSUME C!Setting, C!MirrorInv, NEW n \in Nodes, C!CopyHead(n)
  PROVE  C!MirrorInv'
<1>a. cons[n].pc \notin {"idle", "drain", "keys"} /\ UNCHANGED <<clock, src, dst, outbox, cursor, client, lost>>
  BY DEF C!CopyHead, C!At
<1>p. PICK p \in Keys : p = cons[n].key
  BY <1>a, Current
<1>t. /\ cons \in [Nodes -> C!Drains] /\ cons[n] \in C!Drains /\ C!LastOf(n, p) \in Nat
      /\ clock \in Nat /\ src[p] \in Nat /\ src[p] <= clock
  BY <1>a, <1>p, Current
<1>f. CASE C!FailKey(n)
  BY <1>a, <1>p, <1>t, <1>f, Failing, LookStep
<1>g. CASE ~C!FailKey(n)
  <2>0. src[p] # C!Absent /\ cons' = [cons EXCEPT ![n].pc = "read", ![n].head = src[p]]
    BY <1>g, <1>p DEF C!CopyHead, C!At, C!Source
  <2>1. /\ cons' \in [Nodes -> C!Drains] /\ cons'[n].pc \notin {"idle", "drain"}
        /\ cons'[n].lo = cons[n].lo /\ cons'[n].hi = cons[n].hi /\ cons'[n].todo = cons[n].todo
        /\ cons'[n].key = p /\ cons[n].failed \subseteq cons'[n].failed
    BY <2>0, <1>p, <1>t DEF C!Drains, C!Pcs, C!Copying
  <2>2. cons'[n].pc = "read" => C!Grown(p, cons'[n].head)
    BY <2>0, <1>t DEF C!Drains, C!Grown
  <2>3. cons'[n].pc = "store" => cons'[n].head <= cons'[n].held /\ C!Grown(p, cons'[n].held)
    BY <2>0, <1>p, <1>t DEF C!Drains, C!Grown, C!MirrorInv, C!CarriedInv, C!At
  <2>4. ASSUME p \notin lost, C!Quiet(n, p)
        PROVE  IF cons'[n].pc = "keys" THEN C!Same(p) \/ C!LastOf(n, p) \in cons'[n].failed
               ELSE /\ cons'[n].pc \in {"confirmAbsent", "deleteDest"} <=> src[p] = C!Absent
                    /\ cons'[n].pc \in {"headDest", "read", "store"} => cons'[n].head = src[p]
                    /\ cons'[n].pc = "store" => cons'[n].held = src[p]
                    /\ cons'[n].pc \in {"verify", "emit"} => C!Same(p)
    <3>1. /\ cons[n].pc \in {"confirmAbsent", "deleteDest"} <=> src[p] = C!Absent
          /\ cons[n].pc \in {"headDest", "read", "store"} => cons[n].head = src[p]
          /\ cons[n].pc \in {"verify", "emit"} => C!Same(p)
      BY <1>a, <1>p, <2>4 DEF C!MirrorInv, C!WorkInv, C!Working, C!Busy
    <3> QED BY <2>0, <1>t, <3>1 DEF C!Drains
  <2> QED BY <1>a, <1>p, <2>1, <2>2, <2>3, <2>4, LookStep
<1> QED BY <1>f, <1>g

\* A buffered copy reads bytes and metadata together.
LEMMA CopyReadKeeps ==
  ASSUME C!Setting, C!MirrorInv, NEW n \in Nodes, C!CopyRead(n)
  PROVE  C!MirrorInv'
<1>a. cons[n].pc \notin {"idle", "drain", "keys"} /\ UNCHANGED <<clock, src, dst, outbox, cursor, client, lost>>
  BY DEF C!CopyRead, C!At
<1>p. PICK p \in Keys : p = cons[n].key
  BY <1>a, Current
<1>t. /\ cons \in [Nodes -> C!Drains] /\ cons[n] \in C!Drains /\ C!LastOf(n, p) \in Nat
      /\ clock \in Nat /\ src[p] \in Nat /\ src[p] <= clock
  BY <1>a, <1>p, Current
<1>f. CASE C!FailKey(n)
  BY <1>a, <1>p, <1>t, <1>f, Failing, LookStep
<1>g. CASE ~C!FailKey(n)
  <2>0. cons[n].pc = "read" /\ src[p] # C!Absent /\ cons' = [cons EXCEPT ![n].pc = "store", ![n].held = src[p], ![n].head = src[p]]
    BY <1>g, <1>p DEF C!CopyRead, C!At, C!Source
  <2>1. /\ cons' \in [Nodes -> C!Drains] /\ cons'[n].pc \notin {"idle", "drain"}
        /\ cons'[n].lo = cons[n].lo /\ cons'[n].hi = cons[n].hi /\ cons'[n].todo = cons[n].todo
        /\ cons'[n].key = p /\ cons[n].failed \subseteq cons'[n].failed
    BY <2>0, <1>p, <1>t DEF C!Drains, C!Pcs, C!Copying
  <2>2. cons'[n].pc = "read" => C!Grown(p, cons'[n].head)
    BY <2>0, <1>t DEF C!Drains, C!Grown
  <2>3. cons'[n].pc = "store" => cons'[n].head <= cons'[n].held /\ C!Grown(p, cons'[n].held)
    BY <2>0, <1>p, <1>t DEF C!Drains, C!Grown, C!MirrorInv, C!CarriedInv, C!At
  <2>4. ASSUME p \notin lost, C!Quiet(n, p)
        PROVE  IF cons'[n].pc = "keys" THEN C!Same(p) \/ C!LastOf(n, p) \in cons'[n].failed
               ELSE /\ cons'[n].pc \in {"confirmAbsent", "deleteDest"} <=> src[p] = C!Absent
                    /\ cons'[n].pc \in {"headDest", "read", "store"} => cons'[n].head = src[p]
                    /\ cons'[n].pc = "store" => cons'[n].held = src[p]
                    /\ cons'[n].pc \in {"verify", "emit"} => C!Same(p)
    <3>1. /\ cons[n].pc \in {"confirmAbsent", "deleteDest"} <=> src[p] = C!Absent
          /\ cons[n].pc \in {"headDest", "read", "store"} => cons[n].head = src[p]
          /\ cons[n].pc \in {"verify", "emit"} => C!Same(p)
      BY <1>a, <1>p, <2>4 DEF C!MirrorInv, C!WorkInv, C!Working, C!Busy
    <3> QED BY <2>0, <1>t, <3>1 DEF C!Drains
  <2> QED BY <1>a, <1>p, <2>1, <2>2, <2>3, <2>4, LookStep
<1> QED BY <1>f, <1>g

\* Delta passthrough reads a blob that is not older than the HEAD beside it.
LEMMA ShipReadKeeps ==
  ASSUME C!Setting, C!MirrorInv, NEW n \in Nodes, C!ShipRead(n)
  PROVE  C!MirrorInv'
<1>a. cons[n].pc \notin {"idle", "drain", "keys"} /\ UNCHANGED <<clock, src, dst, outbox, cursor, client, lost>>
  BY DEF C!ShipRead, C!At
<1>p. PICK p \in Keys : p = cons[n].key
  BY <1>a, Current
<1>t. /\ cons \in [Nodes -> C!Drains] /\ cons[n] \in C!Drains /\ C!LastOf(n, p) \in Nat
      /\ clock \in Nat /\ src[p] \in Nat /\ src[p] <= clock
  BY <1>a, <1>p, Current
<1>f. CASE C!FailKey(n)
  BY <1>a, <1>p, <1>t, <1>f, Failing, LookStep
<1>g. CASE ~C!FailKey(n)
  <2>0. cons[n].pc = "read" /\ src[p] # C!Absent /\ cons' = [cons EXCEPT ![n].pc = "store", ![n].held = src[p]]
    BY <1>g, <1>p DEF C!ShipRead, C!At, C!Source
  <2>1. /\ cons' \in [Nodes -> C!Drains] /\ cons'[n].pc \notin {"idle", "drain"}
        /\ cons'[n].lo = cons[n].lo /\ cons'[n].hi = cons[n].hi /\ cons'[n].todo = cons[n].todo
        /\ cons'[n].key = p /\ cons[n].failed \subseteq cons'[n].failed
    BY <2>0, <1>p, <1>t DEF C!Drains, C!Pcs, C!Copying
  <2>2. cons'[n].pc = "read" => C!Grown(p, cons'[n].head)
    BY <2>0, <1>t DEF C!Drains, C!Grown
  <2>3. cons'[n].pc = "store" => cons'[n].head <= cons'[n].held /\ C!Grown(p, cons'[n].held)
    BY <2>0, <1>p, <1>t DEF C!Drains, C!Grown, C!MirrorInv, C!CarriedInv, C!At
  <2>4. ASSUME p \notin lost, C!Quiet(n, p)
        PROVE  IF cons'[n].pc = "keys" THEN C!Same(p) \/ C!LastOf(n, p) \in cons'[n].failed
               ELSE /\ cons'[n].pc \in {"confirmAbsent", "deleteDest"} <=> src[p] = C!Absent
                    /\ cons'[n].pc \in {"headDest", "read", "store"} => cons'[n].head = src[p]
                    /\ cons'[n].pc = "store" => cons'[n].held = src[p]
                    /\ cons'[n].pc \in {"verify", "emit"} => C!Same(p)
    <3>1. /\ cons[n].pc \in {"confirmAbsent", "deleteDest"} <=> src[p] = C!Absent
          /\ cons[n].pc \in {"headDest", "read", "store"} => cons[n].head = src[p]
          /\ cons[n].pc \in {"verify", "emit"} => C!Same(p)
      BY <1>a, <1>p, <2>4 DEF C!MirrorInv, C!WorkInv, C!Working, C!Busy
    <3> QED BY <2>0, <1>t, <3>1 DEF C!Drains
  <2> QED BY <1>a, <1>p, <2>1, <2>2, <2>3, <2>4, LookStep
<1> QED BY <1>f, <1>g

\* verify_destination lets a replica that is there go on, and fails the key otherwise.
LEMMA CopyVerifyKeeps ==
  ASSUME C!Setting, C!MirrorInv, NEW n \in Nodes, C!CopyVerify(n)
  PROVE  C!MirrorInv'
<1>a. cons[n].pc \notin {"idle", "drain", "keys"} /\ UNCHANGED <<clock, src, dst, outbox, cursor, client, lost>>
  BY DEF C!CopyVerify, C!At
<1>p. PICK p \in Keys : p = cons[n].key
  BY <1>a, Current
<1>t. /\ cons \in [Nodes -> C!Drains] /\ cons[n] \in C!Drains /\ C!LastOf(n, p) \in Nat
      /\ clock \in Nat /\ src[p] \in Nat /\ src[p] <= clock
  BY <1>a, <1>p, Current
<1>f. CASE C!FailKey(n)
  BY <1>a, <1>p, <1>t, <1>f, Failing, LookStep
<1>g. CASE ~C!FailKey(n)
  <2>0. cons[n].pc = "verify" /\ cons' = [cons EXCEPT ![n].pc = "emit"]
    BY <1>g, <1>p DEF C!CopyVerify, C!At, C!Replica, C!Goto
  <2>1. /\ cons' \in [Nodes -> C!Drains] /\ cons'[n].pc \notin {"idle", "drain"}
        /\ cons'[n].lo = cons[n].lo /\ cons'[n].hi = cons[n].hi /\ cons'[n].todo = cons[n].todo
        /\ cons'[n].key = p /\ cons[n].failed \subseteq cons'[n].failed
    BY <2>0, <1>p, <1>t DEF C!Drains, C!Pcs, C!Copying
  <2>2. cons'[n].pc = "read" => C!Grown(p, cons'[n].head)
    BY <2>0, <1>t DEF C!Drains, C!Grown
  <2>3. cons'[n].pc = "store" => cons'[n].head <= cons'[n].held /\ C!Grown(p, cons'[n].held)
    BY <2>0, <1>p, <1>t DEF C!Drains, C!Grown, C!MirrorInv, C!CarriedInv, C!At
  <2>4. ASSUME p \notin lost, C!Quiet(n, p)
        PROVE  IF cons'[n].pc = "keys" THEN C!Same(p) \/ C!LastOf(n, p) \in cons'[n].failed
               ELSE /\ cons'[n].pc \in {"confirmAbsent", "deleteDest"} <=> src[p] = C!Absent
                    /\ cons'[n].pc \in {"headDest", "read", "store"} => cons'[n].head = src[p]
                    /\ cons'[n].pc = "store" => cons'[n].held = src[p]
                    /\ cons'[n].pc \in {"verify", "emit"} => C!Same(p)
    <3>1. /\ cons[n].pc \in {"confirmAbsent", "deleteDest"} <=> src[p] = C!Absent
          /\ cons[n].pc \in {"headDest", "read", "store"} => cons[n].head = src[p]
          /\ cons[n].pc \in {"verify", "emit"} => C!Same(p)
      BY <1>a, <1>p, <2>4 DEF C!MirrorInv, C!WorkInv, C!Working, C!Busy
    <3> QED BY <2>0, <1>t, <3>1 DEF C!Drains
  <2> QED BY <1>a, <1>p, <2>1, <2>2, <2>3, <2>4, LookStep
<1> QED BY <1>f, <1>g

\* A delete goes on only while the source is absent.
LEMMA ConfirmAbsentKeeps ==
  ASSUME C!Setting, C!MirrorInv, NEW n \in Nodes, C!ConfirmAbsent(n)
  PROVE  C!MirrorInv'
<1>a. cons[n].pc \notin {"idle", "drain", "keys"} /\ UNCHANGED <<clock, src, dst, outbox, cursor, client, lost>>
  BY DEF C!ConfirmAbsent, C!At
<1>p. PICK p \in Keys : p = cons[n].key
  BY <1>a, Current
<1>t. /\ cons \in [Nodes -> C!Drains] /\ cons[n] \in C!Drains /\ C!LastOf(n, p) \in Nat
      /\ clock \in Nat /\ src[p] \in Nat /\ src[p] <= clock /\ dst[p] \in C!Replicas
      /\ dst[p].meta <= dst[p].bytes /\ C!Grown(p, dst[p].bytes)
  BY <1>a, <1>p, Current
<1>1. /\ cons' \in [Nodes -> C!Drains] /\ cons'[n].pc \notin {"idle", "drain"}
      /\ cons'[n].lo = cons[n].lo /\ cons'[n].hi = cons[n].hi /\ cons'[n].todo = cons[n].todo
      /\ cons'[n].key = p /\ cons[n].failed \subseteq cons'[n].failed
  BY <1>p, <1>t DEF C!ConfirmAbsent, C!At, C!Goto, C!Handled, C!Source, C!Drains, C!Pcs, C!Copying
<1>2. cons'[n].pc = "read" => C!Grown(p, cons'[n].head)
  BY <1>p, <1>t DEF C!ConfirmAbsent, C!At, C!Goto, C!Handled, C!Source, C!Drains, C!Grown
<1>3. cons'[n].pc = "store" => cons'[n].head <= cons'[n].held /\ C!Grown(p, cons'[n].held)
  BY <1>p, <1>t DEF C!ConfirmAbsent, C!At, C!Goto, C!Handled, C!Source, C!Drains, C!Grown,
     C!MirrorInv, C!CarriedInv
<1>4. ASSUME p \notin lost, C!Quiet(n, p)
      PROVE  IF cons'[n].pc = "keys" THEN C!Same(p) \/ C!LastOf(n, p) \in cons'[n].failed
             ELSE /\ cons'[n].pc \in {"confirmAbsent", "deleteDest"} <=> src[p] = C!Absent
                  /\ cons'[n].pc \in {"headDest", "read", "store"} => cons'[n].head = src[p]
                  /\ cons'[n].pc = "store" => cons'[n].held = src[p]
                  /\ cons'[n].pc \in {"verify", "emit"} => C!Same(p)
  <2>1. /\ cons[n].pc \in {"confirmAbsent", "deleteDest"} <=> src[p] = C!Absent
        /\ cons[n].pc \in {"headDest", "read", "store"} => cons[n].head = src[p]
        /\ cons[n].pc = "store" => cons[n].held = src[p]
        /\ cons[n].pc \in {"verify", "emit"} => C!Same(p)
    BY <1>a, <1>p, <1>4 DEF C!MirrorInv, C!WorkInv, C!Working, C!Busy
  <2> QED BY <1>a, <1>p, <1>t, <2>1 DEF C!ConfirmAbsent, C!At, C!Goto, C!Handled, C!Source,
             C!Drains, C!Same, C!Absent, C!Grown, C!Replicas
<1> QED BY <1>a, <1>p, <1>1, <1>2, <1>3, <1>4, LookStep

\* An engine call that fails marks the key's last event.
LEMMA ActionErrorKeeps ==
  ASSUME C!Setting, C!MirrorInv, NEW n \in Nodes, C!ActionError(n)
  PROVE  C!MirrorInv'
<1>a. cons[n].pc \notin {"idle", "drain", "keys"} /\ UNCHANGED <<clock, src, dst, outbox, cursor, client, lost>>
  BY DEF C!ActionError, C!At, C!Copying
<1>p. PICK p \in Keys : p = cons[n].key
  BY <1>a, Current
<1>t. /\ cons \in [Nodes -> C!Drains] /\ cons[n] \in C!Drains /\ C!LastOf(n, p) \in Nat
      /\ clock \in Nat /\ src[p] \in Nat /\ src[p] <= clock /\ dst[p] \in C!Replicas
      /\ dst[p].meta <= dst[p].bytes /\ C!Grown(p, dst[p].bytes)
  BY <1>a, <1>p, Current
<1>1. /\ cons' \in [Nodes -> C!Drains] /\ cons'[n].pc \notin {"idle", "drain"}
      /\ cons'[n].lo = cons[n].lo /\ cons'[n].hi = cons[n].hi /\ cons'[n].todo = cons[n].todo
      /\ cons'[n].key = p /\ cons[n].failed \subseteq cons'[n].failed
  BY <1>p, <1>t DEF C!ActionError, C!At, C!Goto, C!FailKey, C!MarkFailed, C!Copying, C!Drains, C!Pcs
<1>2. cons'[n].pc = "read" => C!Grown(p, cons'[n].head)
  BY <1>p, <1>t DEF C!ActionError, C!At, C!Goto, C!FailKey, C!MarkFailed, C!Copying, C!Drains, C!Grown
<1>3. cons'[n].pc = "store" => cons'[n].head <= cons'[n].held /\ C!Grown(p, cons'[n].held)
  BY <1>p, <1>t DEF C!ActionError, C!At, C!Goto, C!FailKey, C!MarkFailed, C!Copying, C!Drains,
     C!Grown, C!MirrorInv, C!CarriedInv
<1>4. ASSUME p \notin lost, C!Quiet(n, p)
      PROVE  IF cons'[n].pc = "keys" THEN C!Same(p) \/ C!LastOf(n, p) \in cons'[n].failed
             ELSE /\ cons'[n].pc \in {"confirmAbsent", "deleteDest"} <=> src[p] = C!Absent
                  /\ cons'[n].pc \in {"headDest", "read", "store"} => cons'[n].head = src[p]
                  /\ cons'[n].pc = "store" => cons'[n].held = src[p]
                  /\ cons'[n].pc \in {"verify", "emit"} => C!Same(p)
  <2>1. /\ cons[n].pc \in {"confirmAbsent", "deleteDest"} <=> src[p] = C!Absent
        /\ cons[n].pc \in {"headDest", "read", "store"} => cons[n].head = src[p]
        /\ cons[n].pc = "store" => cons[n].held = src[p]
        /\ cons[n].pc \in {"verify", "emit"} => C!Same(p)
    BY <1>a, <1>p, <1>4 DEF C!MirrorInv, C!WorkInv, C!Working, C!Busy
  <2> QED BY <1>a, <1>p, <1>t, <2>1 DEF C!ActionError, C!At, C!Goto, C!FailKey, C!MarkFailed,
             C!Copying, C!Drains, C!Same, C!Absent, C!Grown, C!Replicas
<1> QED BY <1>a, <1>p, <1>1, <1>2, <1>3, <1>4, LookStep

\* A retried copy starts over from the source.
LEMMA RetryCopyKeeps ==
  ASSUME C!Setting, C!MirrorInv, NEW n \in Nodes, C!RetryCopy(n)
  PROVE  C!MirrorInv'
<1>a. cons[n].pc \notin {"idle", "drain", "keys"} /\ UNCHANGED <<clock, src, dst, outbox, cursor, client, lost>>
  BY DEF C!RetryCopy, C!At, C!Copying
<1>p. PICK p \in Keys : p = cons[n].key
  BY <1>a, Current
<1>t. /\ cons \in [Nodes -> C!Drains] /\ cons[n] \in C!Drains /\ C!LastOf(n, p) \in Nat
      /\ clock \in Nat /\ src[p] \in Nat /\ src[p] <= clock /\ dst[p] \in C!Replicas
      /\ dst[p].meta <= dst[p].bytes /\ C!Grown(p, dst[p].bytes)
  BY <1>a, <1>p, Current
<1>1. /\ cons' \in [Nodes -> C!Drains] /\ cons'[n].pc \notin {"idle", "drain"}
      /\ cons'[n].lo = cons[n].lo /\ cons'[n].hi = cons[n].hi /\ cons'[n].todo = cons[n].todo
      /\ cons'[n].key = p /\ cons[n].failed \subseteq cons'[n].failed
  BY <1>p, <1>t DEF C!RetryCopy, C!At, C!Goto, C!Copying, C!Drains, C!Pcs
<1>2. cons'[n].pc = "read" => C!Grown(p, cons'[n].head)
  BY <1>p, <1>t DEF C!RetryCopy, C!At, C!Goto, C!Copying, C!Drains, C!Grown
<1>3. cons'[n].pc = "store" => cons'[n].head <= cons'[n].held /\ C!Grown(p, cons'[n].held)
  BY <1>p, <1>t DEF C!RetryCopy, C!At, C!Goto, C!Copying, C!Drains, C!Grown, C!MirrorInv, C!CarriedInv
<1>4. ASSUME p \notin lost, C!Quiet(n, p)
      PROVE  IF cons'[n].pc = "keys" THEN C!Same(p) \/ C!LastOf(n, p) \in cons'[n].failed
             ELSE /\ cons'[n].pc \in {"confirmAbsent", "deleteDest"} <=> src[p] = C!Absent
                  /\ cons'[n].pc \in {"headDest", "read", "store"} => cons'[n].head = src[p]
                  /\ cons'[n].pc = "store" => cons'[n].held = src[p]
                  /\ cons'[n].pc \in {"verify", "emit"} => C!Same(p)
  <2>1. /\ cons[n].pc \in {"confirmAbsent", "deleteDest"} <=> src[p] = C!Absent
        /\ cons[n].pc \in {"headDest", "read", "store"} => cons[n].head = src[p]
        /\ cons[n].pc = "store" => cons[n].held = src[p]
        /\ cons[n].pc \in {"verify", "emit"} => C!Same(p)
    BY <1>a, <1>p, <1>4 DEF C!MirrorInv, C!WorkInv, C!Working, C!Busy
  <2> QED BY <1>a, <1>p, <1>t, <2>1 DEF C!RetryCopy, C!At, C!Goto, C!Copying, C!Drains, C!Same,
             C!Absent, C!Grown, C!Replicas
<1> QED BY <1>a, <1>p, <1>1, <1>2, <1>3, <1>4, LookStep

\* What is stored or deleted at the destination is what was read of a source that is quiet.
LEMMA StoreKeeps ==
  ASSUME C!Setting, C!MirrorInv, NEW n \in Nodes,
         C!CopyStore(n) \/ C!ShipStore(n) \/ C!DeleteDest(n)
  PROVE  C!MirrorInv'
<1>a. /\ cons[n].pc \in {"store", "deleteDest"} /\ UNCHANGED <<src, outbox, cursor, client, lost>>
      /\ clock' \in {clock, clock + 1}
  BY DEF C!CopyStore, C!ShipStore, C!DeleteDest, C!At
<1>p. PICK p \in Keys : p = cons[n].key
  BY <1>a, Current
<1>t. /\ cons \in [Nodes -> C!Drains] /\ cons[n] \in C!Drains
      /\ clock \in Nat /\ src[p] \in Nat /\ dst \in [Keys -> C!Replicas]
  BY <1>a, <1>p, Current
<1>q. C!Same(p)' <=> dst'[p].meta = src[p] /\ dst'[p].bytes = src[p]
  BY <1>a DEF C!Same
<1>r. p \notin lost /\ C!Quiet(n, p) =>
        /\ cons[n].pc \in {"confirmAbsent", "deleteDest"} <=> src[p] = C!Absent
        /\ cons[n].pc = "store" => cons[n].head = src[p] /\ cons[n].held = src[p]
  BY <1>a, <1>p DEF C!MirrorInv, C!WorkInv, C!Working, C!Busy
<1>1. CASE C!CopyStore(n) \/ C!ShipStore(n)
  <2>1. /\ cons[n].pc = "store" /\ cons' = [cons EXCEPT ![n].pc = "verify"]
        /\ \E t \in {clock + 1, cons[n].head} :
             dst' = [dst EXCEPT ![p] = [meta |-> cons[n].head, bytes |-> cons[n].held, created |-> t]]
    BY <1>1, <1>p DEF C!CopyStore, C!ShipStore, C!Goto, C!At
  <2>2. /\ cons' \in [Nodes -> C!Drains] /\ cons'[n].pc = "verify"
        /\ cons'[n].lo = cons[n].lo /\ cons'[n].hi = cons[n].hi /\ cons'[n].todo = cons[n].todo
        /\ cons'[n].key = p /\ cons[n].failed \subseteq cons'[n].failed
    BY <2>1, <1>p, <1>t DEF C!Drains, C!Pcs, C!Copying
  <2>3. /\ dst' \in [Keys -> C!Replicas] /\ \A k \in Keys : k # p => dst'[k] = dst[k]
        /\ dst'[p].meta = cons[n].head /\ dst'[p].bytes = cons[n].held
    BY <2>1, <1>t DEF C!Replicas, C!Drains
  <2>4. cons[n].head <= cons[n].held /\ C!Grown(p, cons[n].held)
    BY <2>1, <1>p DEF C!MirrorInv, C!CarriedInv, C!At
  <2>5. p \notin lost /\ C!Quiet(n, p) => C!Same(p)' /\ src[p] # C!Absent
    BY <2>1, <2>3, <1>q, <1>r
  <2>6. clock' \in Nat /\ clock <= clock'
    BY <1>a, <1>t
  <2>7. dst'[p].meta <= dst'[p].bytes /\ C!Grown(p, dst'[p].bytes)
    BY <2>3, <2>4
  <2> QED BY <1>a, <1>p, <2>2, <2>3, <2>5, <2>6, <2>7, KeyStep
<1>2. CASE C!DeleteDest(n)
  <2>1. /\ cons[n].pc = "deleteDest" /\ cons' = [cons EXCEPT ![n].pc = "keys"]
        /\ dst' = [dst EXCEPT ![p] = C!NoReplica]
    BY <1>2, <1>p DEF C!DeleteDest, C!Handled, C!Goto, C!At
  <2>2. /\ cons' \in [Nodes -> C!Drains] /\ cons'[n].pc = "keys"
        /\ cons'[n].lo = cons[n].lo /\ cons'[n].hi = cons[n].hi /\ cons'[n].todo = cons[n].todo
        /\ cons'[n].key = p /\ cons[n].failed \subseteq cons'[n].failed
    BY <2>1, <1>p, <1>t DEF C!Drains, C!Pcs, C!Copying
  <2>3. /\ dst' \in [Keys -> C!Replicas] /\ \A k \in Keys : k # p => dst'[k] = dst[k]
        /\ dst'[p].meta = 0 /\ dst'[p].bytes = 0
    BY <2>1, <1>t DEF C!Replicas, C!NoReplica, C!Absent
  <2>4. dst'[p].meta <= dst'[p].bytes /\ C!Grown(p, dst'[p].bytes)
    BY <2>3, <1>t DEF C!Grown
  <2>5. p \notin lost /\ C!Quiet(n, p) => C!Same(p)'
    BY <2>1, <2>3, <1>q, <1>r DEF C!Absent
  <2>6. clock' \in Nat /\ clock <= clock'
    BY <1>a, <1>t
  <2> QED BY <1>a, <1>p, <2>2, <2>3, <2>4, <2>5, <2>6, KeyStep
<1> QED BY <1>1, <1>2

\* The event of a copy (emit_replication_copied) matches no rule and no window holds it.
LEMMA EmitKeeps ==
  ASSUME C!Setting, C!MirrorInv, NEW n \in Nodes, C!EmitCopied(n)
  PROVE  C!MirrorInv'
<1>a. /\ cons[n].pc = "emit" /\ cons' = [cons EXCEPT ![n].pc = "keys"]
      /\ outbox' = [outbox EXCEPT ![n] = Append(@, C!Unrouted)]
      /\ UNCHANGED <<clock, src, dst, cursor, client, lost>>
  BY DEF C!EmitCopied, C!Handled, C!Goto, C!At
<1>o. \A m \in Nodes : m = n
  BY DEF C!Setting
<1>t. cons \in [Nodes -> C!Drains] /\ cons[n] \in C!Drains
  BY <1>a, Current
<1>v. C!Unrouted \in C!Events /\ C!Unrouted.key \notin Keys
  BY DEF C!Unrouted, C!Event, C!Events, C!EventKinds, C!Setting
<1>b. /\ outbox' \in [Nodes -> Seq(C!Events)]
      /\ Len(outbox'[n]) = Len(outbox[n]) + 1 /\ outbox'[n][Len(outbox[n]) + 1] = C!Unrouted
      /\ Len(outbox[n]) \in Nat
      /\ \A i \in 1..Len(outbox[n]) : outbox'[n][i] = outbox[n][i]
  BY <1>a, <1>v, Appended
<1>c. /\ cons' \in [Nodes -> C!Drains] /\ cons'[n].pc = "keys" /\ cons'[n].lo = cons[n].lo
      /\ cons'[n].hi = cons[n].hi /\ cons'[n].todo = cons[n].todo /\ cons'[n].key = cons[n].key
      /\ cons'[n].failed = cons[n].failed
  BY <1>a, <1>t DEF C!Drains, C!Pcs
<1>1. C!MirrorType'
  BY <1>a, <1>b, <1>c, <1>o DEF C!MirrorInv, C!MirrorType
<1>i. /\ cons[n].lo = cursor[n] /\ cons[n].hi <= Len(outbox[n])
      /\ \A k \in cons[n].todo : C!IdsOf(n, k) # {}
      /\ cons[n].lo \in Nat /\ cons[n].hi \in Nat /\ C!Working(n)
  BY <1>a DEF C!MirrorInv, C!MirrorType, C!Drains, C!WindowInv, C!Working
<1>w. \A k : C!IdsOf(n, k)' = C!IdsOf(n, k) /\ C!LastOf(n, k)' = C!LastOf(n, k)
  BY <1>a, <1>c, <1>i, <1>v, AppendedWindow
<1>2. C!WindowInv'
  <2>1. \A k \in cons'[n].todo : C!IdsOf(n, k)' # {}
    BY <1>c, <1>i, <1>w
  <2>2. cons'[n].lo = cursor'[n] /\ cons'[n].hi <= Len(outbox'[n])
    BY <1>a, <1>b, <1>c, <1>i
  <2> QED BY <1>o, <1>c, <2>1, <2>2 DEF C!WindowInv
<1>3. C!StoredInv' /\ C!CarriedInv'
  BY <1>a, <1>o, <1>c DEF C!StoredInv, C!CarriedInv, C!Grown, C!At, C!MirrorInv
<1>d. ASSUME NEW k \in Keys, NEW i \in Nat, i <= Len(outbox[n])
      PROVE  C!NoneAfter(n, k, i)' <=> C!NoneAfter(n, k, i)
  <2>1. ASSUME C!NoneAfter(n, k, i), NEW j \in i + 1 .. Len(outbox'[n]) PROVE outbox'[n][j].key # k
    <3>1. CASE j = Len(outbox[n]) + 1
      BY <3>1, <1>b, <1>v
    <3>2. CASE j # Len(outbox[n]) + 1
      <4>1. j \in i + 1 .. Len(outbox[n]) /\ j \in 1 .. Len(outbox[n])
        BY <3>2, <1>b
      <4> QED BY <4>1, <2>1, <1>b DEF C!NoneAfter
    <3> QED BY <3>1, <3>2
  <2>2. ASSUME NEW j \in i + 1 .. Len(outbox[n]), outbox'[n][j].key # k PROVE outbox[n][j].key # k
    <3>1. j \in 1 .. Len(outbox[n])
      BY <1>b
    <3> QED BY <3>1, <2>2, <1>b
  <2>3. \A j \in i + 1 .. Len(outbox[n]) : j \in i + 1 .. Len(outbox'[n])
    BY <1>b
  <2> QED BY <2>1, <2>2, <2>3 DEF C!NoneAfter
<1>e. \A k \in Keys : (C!Calm(k)' <=> C!Calm(k)) /\ (C!Same(k)' <=> C!Same(k))
  BY <1>a DEF C!Calm, C!Same
<1>4. C!KindInv'
  <2> SUFFICES ASSUME NEW k \in Keys \ lost, C!Calm(k), NEW i \in 1..Len(outbox'[n]),
                      outbox'[n][i].key = k, C!NoneAfter(n, k, i)'
               PROVE  outbox'[n][i].kind = "ObjectDeleted" <=> src[k] = C!Absent
    BY <1>a, <1>o, <1>e DEF C!KindInv, C!MirrorInv
  <2>1. i \in 1..Len(outbox[n])
    BY <1>b, <1>v
  <2>2. C!NoneAfter(n, k, i)
    BY <2>1, <1>b, <1>d
  <2> QED BY <2>1, <2>2, <1>b DEF C!KindInv, C!MirrorInv
<1>5. C!WorkInv'
  <2> SUFFICES ASSUME NEW k \in Keys \ lost, C!Quiet(n, k)', C!Done(n, k)'
               PROVE  C!Same(k)
    BY <1>a, <1>o, <1>c, <1>e DEF C!WorkInv, C!Busy
  <2>1. C!Quiet(n, k)
    BY <1>c, <1>d, <1>e, <1>i DEF C!Quiet, C!NoneAfter
  <2>2. CASE k = cons[n].key
    BY <2>1, <2>2, <1>a, <1>i DEF C!MirrorInv, C!WorkInv, C!Busy
  <2>3. CASE k # cons[n].key
    <3>1. C!Done(n, k)
      BY <2>3, <1>c, <1>w DEF C!Done, C!Busy
    <3> QED BY <2>1, <3>1, <1>i DEF C!MirrorInv, C!WorkInv
  <2> QED BY <2>2, <2>3
<1>6. C!CleanInv'
  <2>1. cursor[n] \in Nat /\ cursor[n] <= Len(outbox[n])
    BY DEF C!MirrorInv, C!MirrorType
  <2>2. \A k \in Keys : C!NoneAfter(n, k, cursor[n])' => C!NoneAfter(n, k, cursor[n])
    BY <2>1, <1>a, <1>b DEF C!NoneAfter
  <2> QED BY <2>2, <1>a, <1>o, <1>e DEF C!CleanInv, C!MirrorInv
<1> QED BY <1>1, <1>2, <1>3, <1>4, <1>5, <1>6 DEF C!MirrorInv

-----------------------------------------------------------------------------
(* Windows.                                                                *)

\* A step within a window that only moves on to another of its keys.
LEMMA WindowStep ==
  ASSUME C!Setting, C!MirrorInv, NEW n \in Nodes, NEW p \in Keys,
         cons[n].pc = "keys", p \in cons[n].todo,
         UNCHANGED <<clock, src, dst, outbox, cursor, client, lost>>,
         cons' \in [Nodes -> C!Drains],
         cons'[n].pc \in {"keys", "headSource", "confirmAbsent"},
         cons'[n].lo = cons[n].lo, cons'[n].hi = cons[n].hi,
         cons'[n].todo = cons[n].todo \ {p}, cons[n].failed \subseteq cons'[n].failed,
         cons'[n].pc # "keys" => cons'[n].key = p,
         cons'[n].pc = "keys" => C!LastOf(n, p) \in cons'[n].failed,
         p \notin lost /\ C!Quiet(n, p) /\ cons'[n].pc # "keys" =>
           (cons'[n].pc = "confirmAbsent" <=> src[p] = C!Absent)
  PROVE  C!MirrorInv'
<1>1. C!MirrorType'
  BY DEF C!MirrorInv, C!MirrorType
<1>o. \A m \in Nodes : m = n
  BY DEF C!Setting
<1>w. \A k : C!IdsOf(n, k)' = C!IdsOf(n, k) /\ C!LastOf(n, k)' = C!LastOf(n, k)
  BY SameWindow
<1>i. /\ cons[n].lo = cursor[n] /\ cons[n].hi <= Len(outbox[n])
      /\ \A k \in cons[n].todo : C!IdsOf(n, k) # {}
  BY DEF C!MirrorInv, C!WindowInv, C!Working
<1>2. C!WindowInv'
  BY <1>o, <1>w, <1>i DEF C!WindowInv
<1>3. C!StoredInv' /\ C!CarriedInv'
  BY <1>o DEF C!StoredInv, C!CarriedInv, C!Grown, C!At, C!MirrorInv
<1>c. \A k : (C!Calm(k)' <=> C!Calm(k)) /\ (C!Same(k)' <=> C!Same(k))
  BY DEF C!Calm, C!Same
<1>4. C!KindInv'
  BY <1>c DEF C!KindInv, C!NoneAfter, C!MirrorInv
<1>5. C!WorkInv'
  <2> SUFFICES ASSUME NEW k \in Keys \ lost, C!Quiet(n, k)
               PROVE  /\ C!Done(n, k)' => C!Same(k)
                      /\ C!Busy(n, k)' => (cons'[n].pc = "confirmAbsent" <=> src[k] = C!Absent)
    BY <1>o, <1>c DEF C!WorkInv, C!Quiet, C!NoneAfter
  <2>1. CASE k = p
    BY <2>1, <1>w DEF C!Done, C!Busy
  <2>2. CASE k # p
    <3>1. ~C!Busy(n, k)' /\ ~C!Busy(n, k)
      BY <2>2 DEF C!Busy
    <3>2. C!Done(n, k)' => C!Done(n, k)
      BY <2>2, <3>1, <1>w DEF C!Done
    <3> QED BY <3>1, <3>2 DEF C!MirrorInv, C!WorkInv, C!Working
  <2> QED BY <2>1, <2>2
<1>6. C!CleanInv'
  BY <1>c DEF C!CleanInv, C!NoneAfter, C!MirrorInv
<1> QED BY <1>1, <1>2, <1>3, <1>4, <1>5, <1>6 DEF C!MirrorInv

\* The verdict on a key whose source has not changed since the window was read is right.
LEMMA VerdictRight ==
  ASSUME C!MirrorInv, NEW n \in Nodes, NEW p \in Keys \ lost, C!Working(n),
         C!IdsOf(n, p) # {}, C!Quiet(n, p)
  PROVE  C!Verdict(n, p) = "Delete" <=> src[p] = C!Absent
<1>t. cons[n] \in C!Drains /\ cons[n].lo \in Nat /\ cons[n].hi \in Nat /\ cons[n].hi <= Len(outbox[n])
      /\ Len(outbox[n]) \in Nat
  BY DEF C!MirrorInv, C!MirrorType, C!Drains, C!WindowInv
<1>1. /\ C!LastOf(n, p) \in C!IdsOf(n, p)
      /\ \A i \in C!IdsOf(n, p) : i <= C!LastOf(n, p)
  BY <1>t, LastIs
<1>l. PICK l : l = C!LastOf(n, p)
  OBVIOUS
<1>2. l \in 1..Len(outbox[n]) /\ l \in Nat /\ outbox[n][l].key = p /\ l >= cons[n].lo + 1
  BY <1>1, <1>t, <1>l DEF C!IdsOf, C!Window
<1>3. C!NoneAfter(n, p, l)
  <2> SUFFICES ASSUME NEW j \in l + 1 .. Len(outbox[n]), outbox[n][j].key = p PROVE FALSE
    BY DEF C!NoneAfter
  <2>1. CASE j <= cons[n].hi
    <3>1. j \in C!IdsOf(n, p)
      BY <2>1, <1>2, <1>t DEF C!IdsOf, C!Window
    <3> QED BY <3>1, <1>1, <1>2, <1>l
  <2>2. CASE ~(j <= cons[n].hi)
    BY <2>2, <1>2, <1>t DEF C!Quiet, C!NoneAfter
  <2> QED BY <2>1, <2>2
<1>4. outbox[n][l].kind = "ObjectDeleted" <=> src[p] = C!Absent
  BY <1>2, <1>3 DEF C!MirrorInv, C!KindInv, C!Quiet
<1> QED BY <1>4, <1>l DEF C!Verdict

\* The consumer turns to a key with the verdict of its last event (compact_key_events).
LEMMA PickKeyKeeps ==
  ASSUME C!Setting, C!MirrorInv, NEW n \in Nodes, NEW p \in Keys, C!PickKey(n, p)
  PROVE  C!MirrorInv'
<1>a. /\ cons[n].pc = "keys" /\ p \in cons[n].todo
      /\ UNCHANGED <<clock, src, dst, outbox, cursor, client, lost>>
  BY DEF C!PickKey, C!At
<1>t. cons \in [Nodes -> C!Drains] /\ cons[n] \in C!Drains /\ C!Working(n) /\ C!IdsOf(n, p) # {}
  BY <1>a DEF C!MirrorInv, C!MirrorType, C!WindowInv, C!Working
<1>v. C!Verdict(n, p) \in {"Delete", "Copy"}
  BY DEF C!Verdict
<1>p. PICK pc \in {"headSource", "confirmAbsent"} :
         /\ pc = "confirmAbsent" <=> C!Verdict(n, p) = "Delete"
         /\ cons' = [cons EXCEPT ![n].todo = @ \ {p}, ![n].key = p, ![n].pc = pc]
  BY <1>v DEF C!PickKey
<1>1. /\ cons' \in [Nodes -> C!Drains] /\ cons'[n].pc = pc
      /\ cons'[n].lo = cons[n].lo /\ cons'[n].hi = cons[n].hi
      /\ cons'[n].todo = cons[n].todo \ {p} /\ cons[n].failed \subseteq cons'[n].failed
      /\ cons'[n].key = p
  BY <1>p, <1>t DEF C!Drains, C!Pcs
<1>2. p \notin lost /\ C!Quiet(n, p) => (pc = "confirmAbsent" <=> src[p] = C!Absent)
  BY <1>p, <1>t, VerdictRight
<1> QED BY <1>a, <1>1, <1>2, WindowStep

\* A deferred key is marked as failed.
LEMMA DeferKeyKeeps ==
  ASSUME C!Setting, C!MirrorInv, NEW n \in Nodes, NEW p \in Keys, C!DeferKey(n, p)
  PROVE  C!MirrorInv'
<1>a. /\ cons[n].pc = "keys" /\ p \in cons[n].todo
      /\ UNCHANGED <<clock, src, dst, outbox, cursor, client, lost>>
  BY DEF C!DeferKey, C!At
<1>t. cons \in [Nodes -> C!Drains] /\ cons[n] \in C!Drains /\ C!IdsOf(n, p) # {}
  BY <1>a DEF C!MirrorInv, C!MirrorType, C!WindowInv, C!Working
<1>l. PICK l : l = C!LastOf(n, p)
  OBVIOUS
<1>n. l \in Nat
  <2>1. C!LastOf(n, p) \in C!IdsOf(n, p)
    BY <1>t, LastIs DEF C!Drains
  <2> QED BY <2>1, <1>l, <1>t DEF C!IdsOf, C!Window, C!Drains
<1>d. PICK d : d = [[cons[n] EXCEPT !.todo = @ \ {p}] EXCEPT !.pc = "keys", !.failed = @ \cup {l}]
  OBVIOUS
<1>p. cons' = [cons EXCEPT ![n] = d]
  BY <1>l, <1>d DEF C!DeferKey, C!MarkFailed
<1>e. /\ d \in C!Drains /\ d.pc = "keys" /\ d.lo = cons[n].lo /\ d.hi = cons[n].hi
      /\ d.todo = cons[n].todo \ {p} /\ d.failed = cons[n].failed \cup {l}
  BY <1>d, <1>n, <1>t DEF C!Drains, C!Pcs
<1>1. /\ cons' \in [Nodes -> C!Drains] /\ cons'[n].pc = "keys"
      /\ cons'[n].lo = cons[n].lo /\ cons'[n].hi = cons[n].hi
      /\ cons'[n].todo = cons[n].todo \ {p} /\ cons'[n].failed = cons[n].failed \cup {l}
  BY <1>p, <1>e, <1>t
<1>2. cons[n].failed \subseteq cons'[n].failed /\ C!LastOf(n, p) \in cons'[n].failed
  BY <1>1, <1>l
<1> QED BY <1>a, <1>1, <1>2, WindowStep

\* A window begins at the cursor with every one of its keys still to do.
LEMMA ReadWindowKeeps ==
  ASSUME C!Setting, C!MirrorInv, NEW n \in Nodes, C!ReadWindow(n)
  PROVE  C!MirrorInv'
<1>a. cons[n].pc = "drain" /\ UNCHANGED <<clock, src, dst, outbox, cursor, client, lost>>
  BY DEF C!ReadWindow
<1>o. \A m \in Nodes : m = n
  BY DEF C!Setting
<1>t. /\ cons \in [Nodes -> C!Drains] /\ cursor[n] \in Nat /\ Len(outbox[n]) \in Nat
      /\ cursor[n] <= Len(outbox[n]) /\ DrainBatch \in Nat
  BY DEF C!MirrorInv, C!MirrorType, C!Setting
<1>h. PICK hi : hi = C!Min({Len(outbox[n]), cursor[n] + DrainBatch})
  OBVIOUS
<1>b. hi \in Nat /\ cursor[n] <= hi /\ hi <= Len(outbox[n])
  BY <1>h, <1>t, MinOfTwo
<1>i. C!Idle \in C!Drains /\ C!Idle.pc = "idle"
  BY DEF C!Idle, C!Drains, C!Pcs
<1>1. CASE hi = cursor[n]
  <2>1. cons' = [cons EXCEPT ![n] = C!Idle]
    BY <1>1, <1>h DEF C!ReadWindow
  <2>2. cons' \in [Nodes -> C!Drains] /\ \A m \in Nodes : cons'[m].pc \in {"idle", "drain"}
    BY <2>1, <1>i, <1>o, <1>t
  <2> QED BY <2>2, <1>a, Resting
<1>2. CASE hi # cursor[n]
  <2>d. PICK T, d : /\ T = {outbox[n][i].key : i \in cursor[n] + 1 .. hi} \cap Keys
                    /\ d = [C!Idle EXCEPT !.pc = "keys", !.lo = cursor[n], !.hi = hi, !.todo = T]
    OBVIOUS
  <2>1. cons' = [cons EXCEPT ![n] = d]
    BY <1>2, <1>h, <2>d DEF C!ReadWindow
  <2>2. d \in C!Drains /\ d.pc = "keys" /\ d.lo = cursor[n] /\ d.hi = hi /\ d.todo = T
    BY <2>d, <1>b, <1>t DEF C!Idle, C!Drains, C!Pcs
  <2>3. cons' \in [Nodes -> C!Drains] /\ cons'[n] = d
    BY <2>1, <2>2, <1>t
  <2>4. \A k : C!IdsOf(n, k)' = {i \in cursor[n] + 1 .. hi : outbox[n][i].key = k}
    BY <2>2, <2>3, <1>a DEF C!IdsOf, C!Window
  <2>5. \A k \in Keys : k \in T <=> C!IdsOf(n, k)' # {}
    BY <2>4, <2>d
  <2>6. T \subseteq Keys
    BY <2>d
  <2>7. C!MirrorType'
    BY <1>a, <2>3 DEF C!MirrorInv, C!MirrorType
  <2>8. C!WindowInv'
    BY <1>a, <1>b, <1>o, <2>2, <2>3, <2>5, <2>6 DEF C!WindowInv
  <2>9. C!WorkInv'
    <3>1. \A k \in Keys : ~C!Done(n, k)' /\ ~C!Busy(n, k)'
      BY <2>2, <2>3, <2>5 DEF C!Done, C!Busy
    <3> QED BY <3>1, <1>a, <1>o DEF C!WorkInv
  <2>10. C!CarriedInv'
    BY <1>o, <2>2, <2>3 DEF C!CarriedInv, C!At
  <2>11. C!StoredInv' /\ C!CleanInv'
    BY <1>a DEF C!StoredInv, C!Grown, C!CleanInv, C!Calm, C!NoneAfter, C!Same, C!MirrorInv
  <2>12. C!KindInv'
    BY <1>a DEF C!KindInv, C!Calm, C!NoneAfter, C!Absent, C!MirrorInv
  <2> QED BY <2>7, <2>8, <2>9, <2>10, <2>11, <2>12 DEF C!MirrorInv
<1> QED BY <1>1, <1>2

\* The cursor moves past a key's events only when its replica is there.
LEMMA AdvanceKeeps ==
  ASSUME C!Setting, C!MirrorInv, NEW n \in Nodes, C!Advance(n)
  PROVE  C!MirrorInv'
<1>a. /\ cons[n].pc = "keys" /\ cons[n].todo = {} /\ cons' = [cons EXCEPT ![n] = C!Idle]
      /\ UNCHANGED <<clock, src, dst, outbox, client, lost>>
  BY DEF C!Advance, C!At
<1>o. \A m \in Nodes : m = n
  BY DEF C!Setting
<1>t. /\ cons \in [Nodes -> C!Drains] /\ cons[n] \in C!Drains /\ cursor \in [Nodes -> Nat \ {0}]
      /\ cursor[n] \in Nat \ {0} /\ Len(outbox[n]) \in Nat /\ cursor[n] <= Len(outbox[n])
      /\ cons[n].lo = cursor[n] /\ cons[n].hi <= Len(outbox[n])
      /\ cons[n].lo \in Nat /\ cons[n].hi \in Nat /\ cons[n].failed \subseteq Nat
  <2>1. /\ cons \in [Nodes -> C!Drains] /\ cursor \in [Nodes -> Nat \ {0}]
        /\ outbox \in [Nodes -> Seq(C!Events)] /\ cursor[n] <= Len(outbox[n])
    BY DEF C!MirrorInv, C!MirrorType
  <2>2. cons[n].lo = cursor[n] /\ cons[n].hi <= Len(outbox[n])
    BY <1>a DEF C!MirrorInv, C!WindowInv, C!Working
  <2>3. cons[n] \in C!Drains /\ cursor[n] \in Nat \ {0} /\ Len(outbox[n]) \in Nat
    BY <2>1
  <2>4. cons[n].lo \in Nat /\ cons[n].hi \in Nat /\ cons[n].failed \subseteq Nat
    BY <2>3 DEF C!Drains
  <2> QED BY <2>1, <2>2, <2>3, <2>4
<1>w. PICK mark : mark = C!Watermark(n)
  OBVIOUS
<1>x. \/ mark = cursor[n]
      \/ mark \in cursor[n] + 1 .. cons[n].hi /\ \A f \in cons[n].failed : f > mark
  BY <1>w, <1>t, WatermarkIs
<1>y. mark \in Nat /\ cursor[n] <= mark /\ mark <= Len(outbox[n])
  BY <1>x, <1>t
<1>c. cursor' = [cursor EXCEPT ![n] = mark]
  <2>1. C!Max({cursor[n], mark}) = mark
    BY <1>y, <1>t, MaxOfTwo
  <2> QED BY <2>1, <1>w DEF C!Advance
<1>d. cursor' \in [Nodes -> Nat \ {0}] /\ cursor'[n] = mark
  BY <1>c, <1>t, <1>y
<1>i. C!Idle \in C!Drains /\ C!Idle.pc = "idle"
  BY DEF C!Idle, C!Drains, C!Pcs
<1>j. cons' \in [Nodes -> C!Drains] /\ \A m \in Nodes : cons'[m].pc = "idle"
  BY <1>a, <1>i, <1>o, <1>t
<1>1. C!MirrorType'
  BY <1>a, <1>d, <1>j, <1>o, <1>y DEF C!MirrorInv, C!MirrorType
<1>2. C!WindowInv' /\ C!WorkInv' /\ C!CarriedInv'
  BY <1>j DEF C!WindowInv, C!WorkInv, C!CarriedInv, C!Working, C!At
<1>3. C!StoredInv'
  BY <1>a DEF C!StoredInv, C!Grown, C!MirrorInv
<1>4. C!KindInv'
  BY <1>a DEF C!KindInv, C!Calm, C!NoneAfter, C!Absent, C!MirrorInv
<1>5. C!CleanInv'
  <2> SUFFICES ASSUME NEW k \in Keys \ lost, C!Calm(k),
                      \A j \in mark + 1 .. Len(outbox[n]) : outbox[n][j].key # k
               PROVE  C!Same(k)
    BY <1>a, <1>d, <1>o DEF C!CleanInv, C!Calm, C!NoneAfter, C!Same
  <2>1. CASE C!IdsOf(n, k) = {}
    <3>1. \A j \in cursor[n] + 1 .. Len(outbox[n]) : outbox[n][j].key # k
      <4> SUFFICES ASSUME NEW j \in cursor[n] + 1 .. Len(outbox[n]), outbox[n][j].key = k PROVE FALSE
        OBVIOUS
      <4>1. j \in cursor[n] + 1 .. cons[n].hi
        BY <1>x, <1>t
      <4> QED BY <4>1, <2>1, <1>t DEF C!IdsOf, C!Window
    <3> QED BY <3>1 DEF C!MirrorInv, C!CleanInv, C!NoneAfter
  <2>2. CASE C!IdsOf(n, k) # {}
    <3>1. C!LastOf(n, k) \in C!IdsOf(n, k)
      BY <2>2, <1>t, LastIs
    <3>l. PICK l : l = C!LastOf(n, k)
      OBVIOUS
    <3>2. l \in cursor[n] + 1 .. cons[n].hi /\ outbox[n][l].key = k
      BY <3>1, <3>l, <1>t DEF C!IdsOf, C!Window
    <3>3. l <= mark
      BY <3>2, <1>t, <1>y
    <3>4. \A f \in cons[n].failed : f > mark
      BY <3>2, <3>3, <1>x, <1>t
    <3>5. l \notin cons[n].failed
      BY <3>2, <3>3, <3>4, <1>t, <1>y
    <3>6. C!Done(n, k)
      BY <2>2, <3>5, <3>l, <1>a DEF C!Done, C!Busy
    <3>7. C!Quiet(n, k)
      <4>1. mark <= cons[n].hi
        BY <3>2, <1>x, <1>t
      <4> QED BY <4>1, <1>t, <1>y DEF C!Quiet, C!NoneAfter
    <3> QED BY <3>6, <3>7, <1>a DEF C!MirrorInv, C!WorkInv, C!Working
  <2> QED BY <2>1, <2>2
<1> QED BY <1>1, <1>2, <1>3, <1>4, <1>5 DEF C!MirrorInv

\* A crash ends the drain and takes the requests under way with it.
LEMMA CrashKeeps ==
  ASSUME C!Setting, C!MirrorInv, NEW n \in Nodes, C!Crash(n)
  PROVE  C!MirrorInv'
<1>a. /\ cons' = [cons EXCEPT ![n] = C!Idle]
      /\ UNCHANGED <<clock, src, dst, outbox, cursor>>
      /\ client' = [c \in Clients |-> IF c \in {d \in Clients : client[d].node = n} THEN C!NoEvent ELSE client[c]]
      /\ lost' = lost \cup {client[c].key : c \in {d \in Clients : client[d].node = n}}
  BY DEF C!Crash
<1>o. \A m \in Nodes : m = n
  BY DEF C!Setting
<1>r. client \in [Clients -> C!Requests \cup {C!NoEvent}] /\ cons \in [Nodes -> C!Drains]
  BY DEF C!MirrorInv, C!MirrorType
<1>e. \A c \in Clients : client[c] # C!NoEvent => client[c].node = n
  BY <1>r, <1>o DEF C!Requests
<1>c. client' \in [Clients -> {C!NoEvent}] /\ C!NoEvent.key \notin Keys
  BY <1>a, <1>e DEF C!NoEvent, C!Setting
<1>l. lost \subseteq lost' /\ \A c \in Clients : client[c] # C!NoEvent => client[c].key \in lost'
  BY <1>a, <1>e
<1>k. \A k \in Keys \ lost' : k \in Keys \ lost /\ C!Calm(k)
  BY <1>l, <1>c DEF C!Calm
<1>i. C!Idle \in C!Drains /\ C!Idle.pc = "idle"
  BY DEF C!Idle, C!Drains, C!Pcs
<1>j. cons' \in [Nodes -> C!Drains] /\ \A m \in Nodes : cons'[m].pc = "idle"
  BY <1>a, <1>i, <1>o, <1>r
<1>1. C!MirrorType'
  BY <1>a, <1>c, <1>j DEF C!MirrorInv, C!MirrorType
<1>2. C!WindowInv' /\ C!WorkInv' /\ C!CarriedInv'
  BY <1>j DEF C!WindowInv, C!WorkInv, C!CarriedInv, C!Working, C!At
<1>3. C!StoredInv'
  BY <1>a DEF C!StoredInv, C!Grown, C!MirrorInv
<1>4. C!KindInv'
  BY <1>a, <1>c, <1>k DEF C!KindInv, C!NoneAfter, C!Absent, C!MirrorInv
<1>5. C!CleanInv'
  BY <1>a, <1>k DEF C!CleanInv, C!NoneAfter, C!Same, C!MirrorInv
<1> QED BY <1>1, <1>2, <1>3, <1>4, <1>5 DEF C!MirrorInv

\* Every step keeps the invariant.
LEMMA MirrorNext ==
  ASSUME C!Setting, C!MirrorInv, [C!Next]_(C!vars) PROVE C!MirrorInv'
<1>1. ASSUME NEW c \in Clients, NEW n \in Nodes, NEW k \in Keys, C!Put(c, n, k) \/ C!Delete(c, n, k)
      PROVE  C!MirrorInv'
  BY <1>1, PutKeeps, DeleteKeeps
<1>2. ASSUME NEW c \in Clients, C!Enqueue(c) \/ C!EnqueueError(c) PROVE C!MirrorInv'
  BY <1>2, EnqueueKeeps, EnqueueErrorKeeps
<1>3. ASSUME NEW n \in Nodes, C!Drain(n) PROVE C!MirrorInv'
  <2>1. CASE C!Seed(n) \/ C!ReadWindow(n) \/ C!Advance(n)
    BY <2>1, RestKeeps, ReadWindowKeeps, AdvanceKeeps
  <2>2. CASE \E k \in Keys : C!PickKey(n, k)
    BY <2>2, PickKeyKeeps
  <2>3. CASE C!HeadSource(n) \/ C!HeadDest(n) \/ C!CopyHead(n) \/ C!CopyRead(n) \/ C!ShipRead(n)
    BY <2>3, HeadSourceKeeps, HeadDestKeeps, CopyHeadKeeps, CopyReadKeeps, ShipReadKeeps
  <2>4. CASE C!CopyStore(n) \/ C!ShipStore(n) \/ C!DeleteDest(n)
    BY <2>4, StoreKeeps
  <2>5. CASE C!CopyVerify(n) \/ C!EmitCopied(n) \/ C!ConfirmAbsent(n)
    BY <2>5, CopyVerifyKeeps, EmitKeeps, ConfirmAbsentKeeps
  <2> QED BY <1>3, <2>1, <2>2, <2>3, <2>4, <2>5 DEF C!Drain
<1>4. ASSUME NEW n \in Nodes, NEW k \in Keys, C!DeferKey(n, k) PROVE C!MirrorInv'
  BY <1>4, DeferKeyKeeps
<1>5. ASSUME NEW n \in Nodes,
             \/ C!SkipTick(n) \/ C!AbortDrain(n) \/ C!HeadDestError(n) \/ C!ActionError(n)
             \/ C!RetryCopy(n) \/ C!Crash(n)
      PROVE  C!MirrorInv'
  BY <1>5, RestKeeps, HeadDestErrorKeeps, ActionErrorKeeps, RetryCopyKeeps, CrashKeeps
<1>6. CASE UNCHANGED C!vars
  <2> USE <1>6 DEF C!vars
  <2>1. C!MirrorType' /\ C!StoredInv' /\ C!CarriedInv'
    BY DEF C!MirrorInv, C!MirrorType, C!StoredInv, C!CarriedInv, C!Grown, C!At
  <2>w. \A n \in Nodes : \A k : C!IdsOf(n, k)' = C!IdsOf(n, k) /\ C!LastOf(n, k)' = C!LastOf(n, k)
    BY SameWindow
  <2>2. C!WindowInv'
    BY <2>w DEF C!MirrorInv, C!WindowInv, C!Working
  <2>3. C!KindInv' /\ C!CleanInv'
    BY DEF C!MirrorInv, C!KindInv, C!CleanInv, C!Calm, C!NoneAfter, C!Same
  <2>4. C!WorkInv'
    BY <2>w DEF C!MirrorInv, C!WorkInv, C!Working, C!Quiet, C!Calm, C!NoneAfter, C!Done, C!Busy, C!Same
  <2> QED BY <2>1, <2>2, <2>3, <2>4 DEF C!MirrorInv
<1> QED BY <1>1, <1>2, <1>3, <1>4, <1>5, <1>6 DEF C!Next

\* Once its events are consumed (drain_once has advanced the cursor past them) a key's
\* replica is its source object: for any keys, any batch size, any number of writes, errors,
\* deferrals and crashes, on one node whose writes follow each other.
THEOREM ReplicaFollows == NodeSpec => []SettledMirror
<1> DEFINE Inv == part = "mirror" => C!MirrorInv
<1>1. NodeInit => Inv
  BY MirrorInit, NodeSettings DEF NodeInit
<1>2. Inv /\ [NodeNext]_all => Inv'
  <2> SUFFICES ASSUME part = "mirror" => C!MirrorInv, [NodeNext]_all, part' = "mirror"
               PROVE  C!MirrorInv'
    OBVIOUS
  <2>1. CASE part = "mirror" /\ C!Next
    BY <2>1, MirrorNext, NodeSettings
  <2>2. CASE UNCHANGED all
    BY <2>2, MirrorNext, NodeSettings DEF all, MirrorVars, vars, C!vars
  <2> QED BY <2>1, <2>2 DEF NodeNext, InTable, InRetain, InKey, InApply, InMaint
<1>3. Inv => SettledMirror
  <2> SUFFICES ASSUME C!MirrorInv PROVE C!SettledMirror
    BY DEF SettledMirror
  <2> SUFFICES ASSUME NEW k \in Keys \ lost, C!Settled(k)
               PROVE  {dst[k].meta, dst[k].bytes} = {src[k]}
    BY DEF C!SettledMirror
  <2>1. PICK n \in Nodes : TRUE
    BY NodeSettings DEF C!Setting
  <2>2. C!Calm(k) /\ C!NoneAfter(n, k, cursor[n])
    BY DEF C!Settled, C!Calm, C!NoneAfter
  <2>3. C!Same(k)
    BY <2>2 DEF C!MirrorInv, C!CleanInv
  <2> QED BY <2>3 DEF C!Same
<1> QED BY <1>1, <1>2, <1>3, PTL DEF NodeSpec

-----------------------------------------------------------------------------
(***************************************************************************)
(* Lifecycle: the runs of a rule that keeps the newest objects.            *)
(***************************************************************************)

LEMMA CardIs == ASSUME NEW S PROVE K!Cardinality(S) = Cardinality(S)
  BY DEF K!Cardinality, Cardinality, K!IsFiniteSet, IsFiniteSet

\* The least of a set of keys is one of them (First).
LEMMA FirstIs == ASSUME NEW S, S \subseteq Nat, S # {} PROVE K!First(S) \in S
  BY Least DEF K!First

\* A larger set of keys has at least as many of them.
LEMMA MoreKeys == ASSUME K!Setting, NEW T, T \subseteq Ranked, NEW S, S \subseteq T
                  PROVE  /\ K!Cardinality(S) \in Nat /\ K!Cardinality(T) \in Nat
                         /\ K!Cardinality(S) <= K!Cardinality(T)
<1>1. IsFiniteSet(Ranked)
  BY DEF K!Setting, K!IsFiniteSet, IsFiniteSet
<1>2. IsFiniteSet(T)
  BY <1>1, FS_Subset
<1>3. IsFiniteSet(S) /\ Cardinality(S) <= Cardinality(T)
  BY <1>2, FS_Subset
<1>4. Cardinality(S) \in Nat /\ Cardinality(T) \in Nat
  BY <1>2, <1>3, FS_CardinalityType
<1> QED BY <1>3, <1>4, CardIs

\* The order of ranks is transitive, and an object that is as old or younger keeps its rank.
LEMMA NewerTrans ==
  ASSUME NEW x \in K!Objs, NEW y \in K!Objs, NEW z \in K!Objs,
         NEW i \in Nat, NEW j \in Nat, NEW k \in Nat
  PROVE  /\ K!Newer(x, i, y, j) /\ K!Newer(y, j, z, k) => K!Newer(x, i, z, k)
         /\ K!Newer(x, i, y, j) /\ y.at >= z.at => K!Newer(x, i, z, j)
         /\ K!Newer(x, i, y, j) /\ z.at >= x.at => K!Newer(z, i, y, j)
         /\ ~K!Newer(x, i, x, i)
  BY DEF K!Newer, K!Objs

\* Enough before y are enough before z, if all before y rank before z and are there.
LEMMA BackedMore ==
  ASSUME K!Setting, NEW x, NEW j, NEW y, NEW k, NEW g \in SUBSET Ranked,
         K!Better(x, j) \subseteq K!Better(y, k), rule.count \in Nat
  PROVE  K!Backed(x, j, g) => K!Backed(y, k, g)
<1>1. K!Better(y, k) \cup g \subseteq Ranked /\ K!Better(x, j) \cup g \subseteq K!Better(y, k) \cup g
  BY DEF K!Better
<1>2. /\ K!Cardinality(K!Better(x, j) \cup g) \in Nat /\ K!Cardinality(K!Better(y, k) \cup g) \in Nat
      /\ K!Cardinality(K!Better(x, j) \cup g) <= K!Cardinality(K!Better(y, k) \cup g)
  BY <1>1, MoreKeys
<1> QED BY <1>2 DEF K!Backed

\* What is enough stays enough in a step that leaves objects, clock and rule alone.
LEMMA SameWorld ==
  ASSUME rule' = rule, now' = now, obj' = obj, NEW x, NEW j
  PROVE  K!Better(x, j)' = K!Better(x, j) /\ K!Standing(j, x)' = K!Standing(j, x)
  BY DEF K!Better, K!Admits, K!Standing

\* A run whose plan is as it was, in a step that takes nothing from what stands before
\* an object, except what it counts as gone.
LEMMA CarryRun ==
  ASSUME NEW q \in Runs, K!CollectInv(q), K!RankInv(q), K!StateInv, K!StateInv',
         run'[q].pc = run[q].pc, run'[q].seen = run[q].seen, run'[q].todo = run[q].todo,
         run'[q].key = run[q].key, run'[q].head = run[q].head, run[q].gone \subseteq run'[q].gone,
         now' >= now,
         \A x \in K!Objs, j \in Ranked \ Skipped :
            /\ K!Backed(x, j, run[q].gone) => K!Backed(x, j, run[q].gone)'
            /\ K!Standing(j, x) => \/ K!Standing(j, x)' \/ j \in run'[q].gone
                                  \/ K!Backed(x, j, run[q].gone)'
  PROVE  K!CollectInv(q)' /\ K!RankInv(q)'
<1>1. K!Collected(q)' = K!Collected(q)
  BY DEF K!Collected
<1>2. run[q].pc \in K!Ranking =>
        \A j \in K!Collected(q) : j \in Ranked \ Skipped /\ run[q].seen[j] \in K!Objs
  BY DEF K!Collected, K!CollectInv, K!Listings
<1>3. now \in Nat /\ now' \in Nat
  BY DEF K!StateInv
<1>4. K!CollectInv(q)'
  <2> SUFFICES ASSUME run[q].pc \in K!Ranking
               PROVE  /\ run'[q].seen \in K!Listings
                      /\ \A j \in K!Collected(q) :
                           /\ j \notin Skipped /\ run'[q].seen[j].at <= now'
                           /\ run'[q].pc \in {"collect", "rank"} /\ run'[q].seen[j].big
                                => \/ K!Standing(j, run[q].seen[j])' \/ j \in run'[q].gone
                                   \/ K!Backed(run[q].seen[j], j, run[q].gone)'
    BY <1>1 DEF K!CollectInv, K!Ranking, K!Listings, K!Objs
  <2>1. run'[q].seen \in K!Listings
    BY DEF K!CollectInv
  <2> SUFFICES ASSUME NEW j \in K!Collected(q)
               PROVE  /\ j \notin Skipped /\ run'[q].seen[j].at <= now'
                      /\ run'[q].pc \in {"collect", "rank"} /\ run'[q].seen[j].big
                           => \/ K!Standing(j, run[q].seen[j])' \/ j \in run'[q].gone
                              \/ K!Backed(run[q].seen[j], j, run[q].gone)'
    BY <2>1
  <2>2. j \notin Skipped /\ run'[q].seen[j].at <= now'
    BY <1>2, <1>3 DEF K!CollectInv, K!Objs
  <2> QED BY <1>2, <2>2 DEF K!CollectInv
<1>5. K!RankInv(q)'
  BY <1>1, <1>2 DEF K!RankInv, K!Ranking
<1> QED BY <1>4, <1>5

\* A run that is off, or at its start, or on the age path claims nothing.
LEMMA NoPlan == ASSUME NEW q \in Runs, run'[q].pc \notin K!Ranking
                PROVE  K!CollectInv(q)' /\ K!RankInv(q)'
  BY DEF K!CollectInv, K!RankInv, K!Ranking

\* A step of one run that leaves objects, clock and rule alone.
LEMMA OneRun ==
  ASSUME K!NewestInv, K!StateInv', rule' = rule, now' = now, obj' = obj, NEW r \in Runs,
         \A q \in Runs \ {r} : run'[q] = run[q],
         K!CollectInv(r)' /\ K!RankInv(r)'
  PROVE  K!NewestInv'
<1>1. ASSUME NEW q \in Runs, q # r PROVE K!CollectInv(q)' /\ K!RankInv(q)'
  <2>1. run'[q] = run[q]
    BY <1>1
  <2>2. K!CollectInv(q) /\ K!RankInv(q) /\ K!StateInv
    BY <1>1 DEF K!NewestInv
  <2>3. now \in Nat
    BY <2>2 DEF K!StateInv
  <2>4. ASSUME NEW x \in K!Objs, NEW j \in Ranked \ Skipped
        PROVE  /\ K!Backed(x, j, run[q].gone) => K!Backed(x, j, run[q].gone)'
               /\ K!Standing(j, x) => K!Standing(j, x)'
    BY <2>1, SameWorld DEF K!Backed
  <2>5. now' >= now
    BY <2>3
  <2> QED BY <1>1, <2>1, <2>2, <2>4, <2>5, CarryRun
<1> QED BY <1>1 DEF K!NewestInv

\* Before its first run the rule's invariant holds.
LEMMA NewestInit == ASSUME K!Setting PROVE K!Init => K!NewestInv
<1> SUFFICES ASSUME K!Init PROVE K!NewestInv
  OBVIOUS
<1>1. K!StateInv
  <2>1. rule \in Rules /\ now \in Nat
    BY DEF K!Init
  <2>2. \A k \in Ranked : obj[k] = None \/ (obj[k] \in K!Objs /\ obj[k].at <= now)
    <3> SUFFICES ASSUME NEW k \in Ranked, obj[k] # None PROVE obj[k] \in K!Objs /\ obj[k].at <= now
      OBVIOUS
    <3>1. obj[k] \in [at : {1, 2}, big : {TRUE}]
      BY DEF K!Init
    <3>2. obj[k].at \in {1, 2} /\ obj[k].big \in {TRUE} /\ obj[k] = [at |-> obj[k].at, big |-> obj[k].big]
      BY <3>1
    <3>3. {TRUE} \subseteq BOOLEAN
      BY Zenon
    <3>4. obj[k].big \in BOOLEAN
      BY <3>2, <3>3
    <3>5. obj[k] \in K!Objs
      BY <3>2, <3>4 DEF K!Objs
    <3> QED BY <3>2, <3>5 DEF K!Init
  <2>3. obj \in K!Listings
    BY <2>2 DEF K!Init, K!Listings
  <2>4. DOMAIN run = Runs /\ \A r \in Runs : run[r] = K!Off
    BY DEF K!Init
  <2>5. /\ K!Off.gone \subseteq Ranked /\ K!Off.head = None /\ K!Off.key \in Ranked \cup {None}
        /\ K!Off.todo \subseteq Ranked /\ K!Off.pc = "off"
    BY DEF K!Off
  <2> QED BY <2>1, <2>2, <2>3, <2>4, <2>5 DEF K!StateInv
<1>2. \A r \in Runs : run[r].pc = "off"
  BY DEF K!Init, K!Off
<1> QED BY <1>1, <1>2 DEF K!NewestInv, K!CollectInv, K!RankInv, K!Ranking

\* A run's state as StateInv has it.
Fits(f) ==
    /\ DOMAIN f = DOMAIN K!Off /\ f.gone \subseteq Ranked
    /\ f.pc # "headed" => f.head = None
    /\ f.key \in Ranked \cup {None} /\ f.todo \subseteq Ranked
    /\ f.pc \in {"off", "start"} \cup
           (IF K!Retains THEN K!Ranking ELSE {"page", "list", "act", "moved"})

LEMMA OffFits == Fits(K!Off) /\ K!Off.pc \notin K!Ranking
  BY DEF Fits, K!Off, K!Ranking

LEMMA RunFits == ASSUME K!StateInv, NEW r \in Runs PROVE Fits(run[r])
  BY DEF K!StateInv, Fits

\* A run gets another state.
LEMMA SetRun ==
  ASSUME K!StateInv, rule' = rule, now' = now, obj' = obj, NEW r \in Runs, NEW f, Fits(f),
         run' = [run EXCEPT ![r] = f]
  PROVE  K!StateInv' /\ run'[r] = f /\ \A q \in Runs \ {r} : run'[q] = run[q]
<1>1. DOMAIN run = Runs
  BY DEF K!StateInv
<1>2. DOMAIN run' = Runs /\ run'[r] = f /\ \A q \in Runs \ {r} : run'[q] = run[q]
  BY <1>1
<1>3. ASSUME NEW q \in Runs PROVE Fits(run'[q])
  <2>1. CASE q = r BY <1>2, <2>1
  <2>2. CASE q # r BY <1>2, <2>2, RunFits
  <2> QED BY <2>1, <2>2
<1>4. K!Retains' = K!Retains
  BY DEF K!Retains
<1>5. \A q \in Runs :
        /\ DOMAIN run'[q] = DOMAIN K!Off /\ run'[q].gone \subseteq Ranked
        /\ run'[q].pc # "headed" => run'[q].head = None
        /\ run'[q].key \in Ranked \cup {None} /\ run'[q].todo \subseteq Ranked
        /\ run'[q].pc \in {"off", "start"} \cup
              (IF K!Retains' THEN K!Ranking ELSE {"page", "list", "act", "moved"})
  BY <1>3, <1>4 DEF Fits
<1>6. K!Off' = K!Off /\ K!Ranking' = K!Ranking /\ K!Listings' = K!Listings
  BY DEF K!Off, K!Ranking, K!Listings, K!Objs
<1>7. K!StateInv'
  BY <1>2, <1>5, <1>6 DEF K!StateInv
<1> QED BY <1>2, <1>7

\* A run that ends, starts or goes on along the age path.
LEMMA Leaves ==
  ASSUME K!NewestInv, rule' = rule, now' = now, obj' = obj, NEW r \in Runs, NEW f, Fits(f),
         f.pc \notin K!Ranking, run' = [run EXCEPT ![r] = f]
  PROVE  K!NewestInv'
<1>1. K!StateInv' /\ run'[r] = f /\ \A q \in Runs \ {r} : run'[q] = run[q]
  BY SetRun DEF K!NewestInv
<1>2. K!CollectInv(r)' /\ K!RankInv(r)'
  BY <1>1, NoPlan
<1> QED BY <1>1, <1>2, OneRun

\* The steps that start and end runs, and those of the age path that delete nothing.
LEMMA AgeKeeps ==
  ASSUME K!NewestInv, NEW r \in Runs,
         \/ K!Start(r) \/ K!BeginPage(r) \/ K!ListPage(r) \/ K!ActFails(r) \/ K!EndPage(r)
         \/ K!EndPrune(r) \/ \E k \in Ranked : K!Copy(r, k)
  PROVE  K!NewestInv'
<1>0. K!StateInv /\ Fits(run[r]) /\ Fits(K!Off) /\ K!Off.pc \notin K!Ranking
  BY RunFits, OffFits DEF K!NewestInv
<1>f. ASSUME K!Finish(r), rule' = rule, now' = now, obj' = obj PROVE K!NewestInv'
  BY <1>0, <1>f, Leaves DEF K!Finish, K!Set
<1>1. CASE K!Start(r)
  <2>1. Fits(K!Begin(r)) /\ K!Begin(r).pc \notin K!Ranking
    BY <1>0 DEF K!Begin, K!Off, Fits, K!Ranking
  <2> QED BY <1>1, <2>1, Leaves DEF K!Start, K!Set
<1>2. CASE K!BeginPage(r)
  <2> DEFINE f == [run[r] EXCEPT !.pc = "list", !.n = @ + 1, !.window = TRUE]
  <2>1. Fits(f) /\ f.pc \notin K!Ranking
    BY <1>0, <1>2 DEF K!BeginPage, K!Off, Fits, K!Ranking
  <2>2. CASE K!Finish(r) BY <1>2, <1>f, <2>2 DEF K!BeginPage
  <2>3. CASE K!Set(r, f) BY <1>2, <2>1, <2>3, Leaves DEF K!BeginPage, K!Set
  <2> QED BY <1>2, <2>2, <2>3 DEF K!BeginPage
<1>3. CASE K!ListPage(r)
  <2>1. CASE K!Finish(r) BY <1>3, <1>f, <2>1 DEF K!ListPage
  <2> DEFINE p == K!PageOf(run[r].tok)
             f == [run[r] EXCEPT !.pc = "act", !.page = p, !.seen = obj, !.more = K!More(run[r].tok),
                                 !.todo = {k \in p : K!PlanObject(k, obj[k], run[r].limit)}]
  <2>2. CASE K!Set(r, f)
    <3>1. p \subseteq Ranked
      BY DEF K!PageOf
    <3>2. Fits(f) /\ f.pc \notin K!Ranking
      BY <1>0, <1>3, <3>1 DEF K!ListPage, K!Off, Fits, K!Ranking
    <3> QED BY <1>3, <2>2, <3>2, Leaves DEF K!ListPage, K!Set
  <2> QED BY <1>3, <2>1, <2>2 DEF K!ListPage
<1>4. CASE K!ActFails(r)
  <2> DEFINE f == [run[r] EXCEPT !.todo = @ \ {K!First(@)}]
  <2>1. Fits(f) /\ f.pc \notin K!Ranking
    BY <1>0, <1>4 DEF K!ActFails, K!Off, Fits, K!Ranking
  <2> QED BY <1>4, <2>1, Leaves DEF K!ActFails, K!Set
<1>5. CASE K!EndPage(r)
  <2> DEFINE f == [run[r] EXCEPT !.pc = "page", !.window = FALSE, !.tok = K!Last(run[r].page)]
  <2>1. Fits(f) /\ f.pc \notin K!Ranking
    BY <1>0, <1>5 DEF K!EndPage, K!Off, Fits, K!Ranking
  <2>2. CASE K!Finish(r) BY <1>5, <1>f, <2>2 DEF K!EndPage
  <2>3. CASE K!Set(r, f) BY <1>5, <2>1, <2>3, Leaves DEF K!EndPage, K!Set
  <2> QED BY <1>5, <2>2, <2>3 DEF K!EndPage
<1>6. CASE K!EndPrune(r)
  BY <1>6, <1>f DEF K!EndPrune
<1>7. ASSUME NEW k \in Ranked, K!Copy(r, k) PROVE K!NewestInv'
  <2> DEFINE f == [run[r] EXCEPT !.pc = "moved", !.key = k]
             g == [run[r] EXCEPT !.todo = @ \ {k}]
  <2>1. Fits(f) /\ f.pc \notin K!Ranking /\ Fits(g) /\ g.pc \notin K!Ranking
    BY <1>0, <1>7 DEF K!Copy, K!Off, Fits, K!Ranking, K!Retains
  <2>2. CASE K!Set(r, f) BY <1>7, <2>1, <2>2, Leaves DEF K!Copy, K!Set
  <2>3. CASE K!Set(r, g) BY <1>7, <2>1, <2>3, Leaves DEF K!Copy, K!Set
  <2> QED BY <1>7, <2>2, <2>3 DEF K!Copy
<1> QED BY <1>1, <1>2, <1>3, <1>4, <1>5, <1>6, <1>7

\* A retain-newest run that begins has collected nothing.
LEMMA LoadKeeps == ASSUME K!NewestInv, NEW r \in Runs, K!LoadCursor(r) PROVE K!NewestInv'
<1>0. K!StateInv /\ Fits(run[r]) /\ run[r].pc = "start"
  BY RunFits DEF K!NewestInv, K!LoadCursor
<1> DEFINE f == [run[r] EXCEPT !.pc = "collect", !.seen = [k \in Ranked |-> None]]
           g == [run[r] EXCEPT !.pc = "page",
                         !.limit = IF now > rule.age THEN now - rule.age ELSE 0,
                         !.tok = IF K!ScopeMatches(r) THEN cursor.tok ELSE 0,
                         !.resumed = K!ScopeMatches(r) /\ cursor.tok # 0]
<1>1. CASE K!Retains
  <2>1. run' = [run EXCEPT ![r] = f] /\ UNCHANGED <<rule, now, obj>>
    BY <1>1 DEF K!LoadCursor, K!Set
  <2>2. Fits(f) /\ f.pc = "collect" /\ f.seen = [k \in Ranked |-> None]
    BY <1>0, <1>1 DEF K!Off, Fits, K!Ranking
  <2>3. K!StateInv' /\ run'[r] = f /\ \A q \in Runs \ {r} : run'[q] = run[q]
    BY <1>0, <2>1, <2>2, SetRun
  <2>4. K!Collected(r)' = {} /\ f.seen \in K!Listings
    BY <2>2, <2>3 DEF K!Collected, K!Listings
  <2>5. K!CollectInv(r)' /\ K!RankInv(r)'
    BY <2>2, <2>3, <2>4 DEF K!CollectInv, K!RankInv, K!Listings, K!Objs
  <2> QED BY <2>1, <2>3, <2>5, OneRun
<1>2. CASE ~K!Retains
  <2>1. run' = [run EXCEPT ![r] = g] /\ UNCHANGED <<rule, now, obj>>
    BY <1>2 DEF K!LoadCursor, K!Set
  <2>2. Fits(g) /\ g.pc \notin K!Ranking
    BY <1>0, <1>2 DEF K!Off, Fits, K!Ranking
  <2> QED BY <2>1, <2>2, Leaves
<1> QED BY <1>1, <1>2

\* What is collected stands: a page is collected as it is.
LEMMA CollectKeeps == ASSUME K!NewestInv, NEW r \in Runs, K!Collect(r) PROVE K!NewestInv'
<1>0. /\ K!StateInv /\ Fits(run[r]) /\ Fits(K!Off) /\ K!Off.pc \notin K!Ranking
      /\ K!CollectInv(r) /\ run[r].pc = "collect" /\ UNCHANGED <<rule, now, obj>>
  BY RunFits, OffFits DEF K!NewestInv, K!Collect
<1>1. CASE K!Finish(r)
  BY <1>0, <1>1, Leaves DEF K!Finish, K!Set
<1> DEFINE e == [run[r] EXCEPT !.pc = "rank", !.part = K!Busy \/ ~K!Holds(r), !.more = run[r].n >= Budget]
<1>2. CASE K!Set(r, e)
  <2>1. Fits(e) /\ e.pc = "rank" /\ e.seen = run[r].seen /\ e.gone = run[r].gone
    BY <1>0 DEF K!Off, Fits, K!Ranking
  <2>2. K!StateInv' /\ run'[r] = e /\ \A q \in Runs \ {r} : run'[q] = run[q]
    BY <1>0, <1>2, <2>1, SetRun DEF K!Set
  <2>3. K!Collected(r)' = K!Collected(r)
    BY <2>1, <2>2 DEF K!Collected
  <2>4. ASSUME NEW j \in K!Collected(r)
        PROVE  /\ K!Standing(j, run[r].seen[j]) => K!Standing(j, run[r].seen[j])'
               /\ K!Backed(run[r].seen[j], j, run[r].gone) => K!Backed(run[r].seen[j], j, run[r].gone)'
    <3>1. run'[r].seen = run[r].seen /\ run'[r].gone = run[r].gone
      BY <2>1, <2>2
    <3> QED BY <1>0, <3>1, SameWorld DEF K!Backed
  <2>5. K!CollectInv(r)' /\ K!RankInv(r)'
    BY <1>0, <2>1, <2>2, <2>3, <2>4 DEF K!CollectInv, K!RankInv, K!Ranking, K!Listings, K!Objs
  <2> QED BY <1>0, <2>2, <2>5, OneRun
<1>3. ASSUME NEW page \in {K!PageOf(run[r].tok)},
             K!Set(r, [run[r] EXCEPT
                    !.pc = IF K!More(run[r].tok) THEN "collect" ELSE "rank",
                    !.seen = [k \in Ranked |-> IF k \in page \ Skipped THEN obj[k] ELSE @[k]],
                    !.n = @ + 1,
                    !.tok = IF page = {} THEN @ ELSE K!Last(page)])
      PROVE K!NewestInv'
  <2> DEFINE s == [k \in Ranked |-> IF k \in page \ Skipped THEN obj[k] ELSE run[r].seen[k]]
             g == [run[r] EXCEPT
                    !.pc = IF K!More(run[r].tok) THEN "collect" ELSE "rank", !.seen = s,
                    !.n = @ + 1, !.tok = IF page = {} THEN @ ELSE K!Last(page)]
  <2>1. run' = [run EXCEPT ![r] = g]
    BY <1>3 DEF K!Set
  <2>2. Fits(g) /\ g.pc \in {"collect", "rank"} /\ g.seen = s /\ g.gone = run[r].gone
    BY <1>0 DEF K!Off, Fits, K!Ranking
  <2>3. K!StateInv' /\ run'[r] = g /\ \A q \in Runs \ {r} : run'[q] = run[q]
    BY <1>0, <2>1, <2>2, SetRun
  <2>4. run[r].seen \in K!Listings /\ obj \in K!Listings
    BY <1>0 DEF K!CollectInv, K!Ranking, K!StateInv
  <2>5. s \in K!Listings
    BY <2>4 DEF K!Listings
  <2>6. ASSUME NEW j \in Ranked, s[j] # None
        PROVE  /\ j \notin Skipped /\ s[j].at <= now
               /\ s[j].big => \/ K!Standing(j, s[j]) \/ j \in run[r].gone
                               \/ K!Backed(s[j], j, run[r].gone)
    <3>1. CASE j \in page \ Skipped
      <4>1. s[j] = obj[j] /\ obj[j] \in K!Objs
        BY <2>4, <2>6, <3>1 DEF K!Listings
      <4>2. obj[j].at <= now /\ obj[j].at \in Nat
        BY <1>0, <2>6, <4>1 DEF K!StateInv, K!Objs
      <4> QED BY <2>6, <3>1, <4>1, <4>2 DEF K!Standing
    <3>2. CASE j \notin page \ Skipped
      <4>1. s[j] = run[r].seen[j] /\ j \in K!Collected(r)
        BY <2>6, <3>2 DEF K!Collected
      <4> QED BY <1>0, <4>1 DEF K!CollectInv, K!Ranking
    <3> QED BY <3>1, <3>2
  <2>7. K!Collected(r)' = {j \in Ranked : s[j] # None}
    BY <2>2, <2>3 DEF K!Collected
  <2>8. \A j \in Ranked : /\ K!Standing(j, s[j]) => K!Standing(j, run[r].seen[j])'
                          /\ K!Backed(s[j], j, run[r].gone) => K!Backed(run[r].seen[j], j, run[r].gone)'
    <3>1. run'[r].seen = s /\ run'[r].gone = run[r].gone
      BY <2>2, <2>3
    <3> QED BY <1>0, <3>1, SameWorld DEF K!Backed
  <2>9. K!CollectInv(r)'
    <3> SUFFICES ASSUME NEW j \in K!Collected(r)'
                 PROVE  /\ j \notin Skipped /\ run'[r].seen[j].at <= now'
                        /\ run'[r].seen[j].big
                             => \/ K!Standing(j, run[r].seen[j])' \/ j \in run'[r].gone
                                \/ K!Backed(run[r].seen[j], j, run[r].gone)'
      BY <2>2, <2>3, <2>5 DEF K!CollectInv, K!Listings, K!Objs
    <3> QED BY <1>0, <2>2, <2>3, <2>6, <2>7, <2>8
  <2>10. K!RankInv(r)'
    BY <2>2, <2>3 DEF K!RankInv
  <2> QED BY <1>0, <2>3, <2>9, <2>10, OneRun
<1> QED BY <1>1, <1>2, <1>3 DEF K!Collect

\* The rule's count is a number.
LEMMA CountNat == ASSUME K!Setting, K!StateInv PROVE rule.count \in Nat
  BY DEF K!Setting, K!StateInv

\* What the planner selects has enough before it now: each object it counted stands, or is
\* gone, or the run that deleted it left enough before it.
LEMMA PlanBacked ==
  ASSUME K!Setting, K!NewestInv, NEW r \in Runs, run[r].pc = "rank",
         NEW k \in K!PlanRetainNewest(run[r].seen, K!Collected(r), now)
  PROVE  K!Backed(run[r].seen[k], k, run[r].gone)
<1> DEFINE seen == run[r].seen
           gone == run[r].gone
           eligible == {j \in K!Collected(r) : K!Admits(seen[j], now)}
           S == {j \in eligible : K!Newer(seen[j], j, seen[k], k)}
<1>1. K!StateInv /\ K!CollectInv(r)
  BY DEF K!NewestInv
<1>2. /\ seen \in K!Listings /\ obj \in K!Listings /\ now \in Nat /\ rule.count \in Nat
      /\ gone \in SUBSET Ranked
  BY <1>1, CountNat DEF K!CollectInv, K!Ranking, K!StateInv
<1>3. k \in eligible /\ K!Cardinality(S) >= rule.count
  BY DEF K!PlanRetainNewest
<1>4. \A j \in K!Collected(r) : j \in Ranked /\ j \in Nat /\ seen[j] \in K!Objs /\ j \notin Skipped
  BY <1>1, <1>2 DEF K!Collected, K!Listings, K!CollectInv, K!Ranking, K!Setting
<1>5. \A j \in S : K!Standing(j, seen[j]) \/ j \in gone \/ K!Backed(seen[j], j, gone)
  BY <1>1 DEF K!CollectInv, K!Ranking, K!Admits
<1>6. rule.minAge \in Nat
  BY <1>1 DEF K!Setting, K!StateInv
<1>7. CASE \A j \in S : K!Standing(j, seen[j]) \/ j \in gone
  <2>1. ASSUME NEW j \in S, j \notin gone PROVE j \in K!Better(seen[k], k)
    <3>1. /\ j \in Ranked /\ j \notin Skipped /\ j \in Nat /\ k \in Nat
          /\ seen[j] \in K!Objs /\ seen[k] \in K!Objs
      BY <1>3, <1>4
    <3>2. obj[j] # None /\ obj[j] \in K!Objs /\ obj[j].at >= seen[j].at
      BY <1>2, <1>7, <2>1, <3>1 DEF K!Standing, K!Listings
    <3>3. K!Admits(obj[j], now)
      BY <1>6, <1>7, <2>1, <3>1, <3>2 DEF K!Standing, K!Admits, K!Objs
    <3>4. K!Newer(obj[j], j, seen[k], k)
      BY <3>1, <3>2, NewerTrans
    <3> QED BY <3>1, <3>2, <3>3, <3>4 DEF K!Better
  <2> DEFINE T == K!Better(seen[k], k) \cup gone
  <2>2. S \subseteq T /\ T \subseteq Ranked
    BY <1>2, <2>1 DEF K!Better
  <2>3. /\ K!Cardinality(S) \in Nat /\ K!Cardinality(T) \in Nat
        /\ K!Cardinality(S) <= K!Cardinality(T)
    BY <2>2, MoreKeys
  <2> HIDE DEF S
  <2>4. K!Cardinality(T) >= rule.count
    BY <1>2, <1>3, <2>3
  <2> QED BY <2>4 DEF K!Backed
<1>8. CASE \E j \in S : K!Backed(seen[j], j, gone)
  <2>1. PICK j \in S : K!Backed(seen[j], j, gone)
    BY <1>8
  <2>2. j \in Nat /\ k \in Nat /\ seen[j] \in K!Objs /\ seen[k] \in K!Objs
    BY <1>3, <1>4
  <2>3. ASSUME NEW i \in K!Better(seen[j], j) PROVE i \in K!Better(seen[k], k)
    <3>1. i \in Nat /\ obj[i] \in K!Objs
      BY <1>2 DEF K!Better, K!Listings, K!Setting
    <3>2. K!Newer(obj[i], i, seen[k], k)
      BY <2>2, <3>1, NewerTrans DEF K!Better
    <3> QED BY <3>2 DEF K!Better
  <2> QED BY <1>2, <2>1, <2>3, BackedMore
<1> QED BY <1>5, <1>7, <1>8

LEMMA RankKeeps == ASSUME K!Setting, K!NewestInv, NEW r \in Runs, K!Rank(r) PROVE K!NewestInv'
<1>0. /\ K!StateInv /\ Fits(run[r]) /\ Fits(K!Off) /\ K!Off.pc \notin K!Ranking
      /\ K!CollectInv(r) /\ run[r].pc = "rank" /\ UNCHANGED <<rule, now, obj>>
  BY RunFits, OffFits DEF K!NewestInv, K!Rank
<1>1. CASE K!Finish(r)
  BY <1>0, <1>1, Leaves DEF K!Finish, K!Set
<1> DEFINE plan == K!PlanRetainNewest(run[r].seen, K!Collected(r), now)
           e == [run[r] EXCEPT !.pc = "open", !.todo = plan]
<1>2. CASE K!Set(r, e)
  <2>1. plan \subseteq K!Collected(r) /\ K!Collected(r) \subseteq Ranked
    BY DEF K!PlanRetainNewest, K!Collected
  <2>2. ASSUME NEW k \in plan PROVE K!Backed(run[r].seen[k], k, run[r].gone)
    BY <1>0, <2>2, PlanBacked
  <2> HIDE DEF plan
  <2>3. /\ Fits(e) /\ e.pc = "open" /\ e.seen = run[r].seen /\ e.gone = run[r].gone
        /\ e.todo = plan
    BY <1>0, <2>1 DEF K!Off, Fits, K!Ranking
  <2>4. K!StateInv' /\ run'[r] = e /\ \A q \in Runs \ {r} : run'[q] = run[q]
    BY <1>0, <1>2, <2>3, SetRun DEF K!Set
  <2>5. K!Collected(r)' = K!Collected(r)
    BY <2>3, <2>4 DEF K!Collected
  <2>6. \A k \in plan : K!Backed(run[r].seen[k], k, run[r].gone) => K!Backed(run[r].seen[k], k, run[r].gone)'
    <3>1. run'[r].seen = run[r].seen /\ run'[r].gone = run[r].gone
      BY <2>3, <2>4
    <3> QED BY <1>0, <3>1, SameWorld DEF K!Backed
  <2>7. K!CollectInv(r)'
    BY <1>0, <2>3, <2>4, <2>5 DEF K!CollectInv, K!Ranking, K!Listings, K!Objs
  <2>8. K!RankInv(r)'
    BY <2>1, <2>2, <2>3, <2>4, <2>5, <2>6 DEF K!RankInv
  <2> QED BY <1>0, <2>4, <2>7, <2>8, OneRun
<1> QED BY <1>1, <1>2 DEF K!Rank

\* A plan goes on: less to delete, and what a HEAD saw is what was ranked.
LEMMA PlanGoesOn ==
  ASSUME K!NewestInv, UNCHANGED <<rule, now, obj>>, NEW r \in Runs,
         run[r].pc \in {"open", "prune", "headed"},
         NEW f, Fits(f), run' = [run EXCEPT ![r] = f],
         f.pc \in {"prune", "headed"}, f.seen = run[r].seen, f.todo \subseteq run[r].todo,
         f.gone = run[r].gone,
         f.pc = "headed" =>
            /\ f.key \in f.todo
            /\ f.head # None => f.head.at = run[r].seen[f.key].at
  PROVE  K!NewestInv'
<1>1. K!StateInv /\ K!CollectInv(r) /\ K!RankInv(r)
  BY DEF K!NewestInv
<1>2. K!StateInv' /\ run'[r] = f /\ \A q \in Runs \ {r} : run'[q] = run[q]
  BY <1>1, SetRun
<1>3. K!Collected(r)' = K!Collected(r)
  BY <1>2 DEF K!Collected
<1>4. \A k \in f.todo : K!Backed(run[r].seen[k], k, run[r].gone) => K!Backed(run[r].seen[k], k, run[r].gone)'
  BY <1>2, SameWorld DEF K!Backed
<1>5. K!CollectInv(r)'
  BY <1>1, <1>2, <1>3 DEF K!CollectInv, K!Ranking, K!Listings, K!Objs
<1>6. K!RankInv(r)'
  BY <1>1, <1>2, <1>3, <1>4 DEF K!RankInv
<1> QED BY <1>2, <1>5, <1>6, OneRun

LEMMA OpenKeeps == ASSUME K!NewestInv, NEW r \in Runs, K!OpenWindow(r) PROVE K!NewestInv'
<1>0. /\ K!StateInv /\ Fits(run[r]) /\ Fits(K!Off) /\ K!Off.pc \notin K!Ranking
      /\ run[r].pc = "open" /\ UNCHANGED <<rule, now, obj>>
  BY RunFits, OffFits DEF K!NewestInv, K!OpenWindow
<1> DEFINE f == [run[r] EXCEPT !.pc = "prune", !.window = TRUE]
<1>1. CASE K!Finish(r)
  BY <1>0, <1>1, Leaves DEF K!Finish, K!Set
<1>2. CASE K!Set(r, f)
  <2>1. /\ Fits(f) /\ f.pc = "prune" /\ f.seen = run[r].seen /\ f.todo = run[r].todo
        /\ f.gone = run[r].gone
    BY <1>0 DEF K!Off, Fits, K!Ranking
  <2> QED BY <1>0, <1>2, <2>1, PlanGoesOn DEF K!Set
<1> QED BY <1>1, <1>2 DEF K!OpenWindow

\* A delete that fails leaves the rest of the plan, or ends the run.
LEMMA FailKeeps == ASSUME K!NewestInv, NEW r \in Runs, K!PruneFails(r) PROVE K!NewestInv'
<1>0. /\ K!StateInv /\ Fits(run[r]) /\ Fits(K!Off) /\ K!Off.pc \notin K!Ranking
      /\ run[r].pc = "headed" /\ UNCHANGED <<rule, now, obj>>
  BY RunFits, OffFits DEF K!NewestInv, K!PruneFails
<1>1. CASE K!Finish(r)
  BY <1>0, <1>1, Leaves DEF K!Finish, K!Set
<1>2. CASE K!Set(r, K!Settled(r))
  <2> DEFINE f == K!Settled(r)
  <2>1. /\ Fits(f) /\ f.pc = "prune" /\ f.seen = run[r].seen /\ f.todo \subseteq run[r].todo
        /\ f.gone = run[r].gone
    BY <1>0 DEF K!Off, Fits, K!Ranking, K!Settled
  <2> QED BY <1>0, <1>2, <2>1, PlanGoesOn DEF K!Set
<1> QED BY <1>1, <1>2 DEF K!PruneFails

\* The HEAD: it sees the object that was ranked, passes it over, or fails.
LEMMA HeadKeeps ==
  ASSUME K!Setting, K!NewestInv, NEW r \in Runs, NEW k \in Ranked, K!HeadCandidate(r, k)
  PROVE  K!NewestInv'
<1>0. /\ K!StateInv /\ Fits(run[r]) /\ run[r].pc = "prune" /\ UNCHANGED <<rule, now, obj>>
      /\ run[r].todo # {} /\ k = K!First(run[r].todo)
  BY RunFits DEF K!NewestInv, K!HeadCandidate
<1>1. k \in run[r].todo
  BY <1>0, FirstIs DEF K!Setting, Fits
<1> DEFINE e == [run[r] EXCEPT !.todo = @ \ {k}]
           f == [run[r] EXCEPT !.pc = "headed", !.key = k, !.head = obj[k]]
           g == [run[r] EXCEPT !.pc = "headed", !.key = k]
<1>2. CASE K!Set(r, e)
  <2>1. /\ Fits(e) /\ e.pc = "prune" /\ e.seen = run[r].seen /\ e.todo = run[r].todo \ {k}
        /\ e.gone = run[r].gone
    BY <1>0 DEF K!Off, Fits, K!Ranking
  <2> QED BY <1>0, <1>2, <2>1, PlanGoesOn DEF K!Set
<1>3. CASE K!Set(r, f) /\ ~K!Changed(r, k)
  <2>1. /\ Fits(f) /\ f.pc = "headed" /\ f.seen = run[r].seen /\ f.todo = run[r].todo
        /\ f.gone = run[r].gone /\ f.key = k /\ f.head = obj[k]
    BY <1>0 DEF K!Off, Fits, K!Ranking
  <2> QED BY <1>0, <1>1, <1>3, <2>1, PlanGoesOn DEF K!Set, K!Changed
<1>4. CASE K!Set(r, g)
  <2>1. /\ Fits(g) /\ g.pc = "headed" /\ g.seen = run[r].seen /\ g.todo = run[r].todo
        /\ g.gone = run[r].gone /\ g.key = k /\ g.head = None
    BY <1>0 DEF K!Off, Fits, K!Ranking
  <2> QED BY <1>0, <1>1, <1>4, <2>1, PlanGoesOn DEF K!Set
<1> QED BY <1>2, <1>3, <1>4 DEF K!HeadCandidate

\* The types of a step, from those of each run.
LEMMA StateStep ==
  ASSUME K!StateInv, rule' = rule, now' \in Nat, obj' \in K!Listings,
         \A k \in Ranked : obj'[k] # None => obj'[k].at <= now',
         DOMAIN run' = Runs, \A q \in Runs : Fits(run'[q])
  PROVE  K!StateInv'
<1>1. K!Retains' = K!Retains
  BY DEF K!Retains
<1>2. \A q \in Runs :
        /\ DOMAIN run'[q] = DOMAIN K!Off /\ run'[q].gone \subseteq Ranked
        /\ run'[q].pc # "headed" => run'[q].head = None
        /\ run'[q].key \in Ranked \cup {None} /\ run'[q].todo \subseteq Ranked
        /\ run'[q].pc \in {"off", "start"} \cup
              (IF K!Retains' THEN K!Ranking ELSE {"page", "list", "act", "moved"})
  BY <1>1 DEF Fits
<1>3. K!Off' = K!Off /\ K!Ranking' = K!Ranking /\ K!Listings' = K!Listings
  BY DEF K!Off, K!Ranking, K!Listings, K!Objs
<1> QED BY <1>2, <1>3 DEF K!StateInv

\* Enough before x are enough before y after a step, if all of them rank before y then.
LEMMA BackedStep ==
  ASSUME K!Setting, rule' = rule, rule.count \in Nat, NEW x, NEW j, NEW y, NEW k,
         NEW g \in SUBSET Ranked, NEW h \in SUBSET Ranked,
         K!Better(x, j) \cup g \subseteq K!Better(y, k)' \cup h
  PROVE  K!Backed(x, j, g) => K!Cardinality(K!Better(y, k)' \cup h) >= rule'.count
<1>1. K!Better(y, k)' \cup h \subseteq Ranked
  BY DEF K!Better
<1>2. /\ K!Cardinality(K!Better(x, j) \cup g) \in Nat /\ K!Cardinality(K!Better(y, k)' \cup h) \in Nat
      /\ K!Cardinality(K!Better(x, j) \cup g) <= K!Cardinality(K!Better(y, k)' \cup h)
  BY <1>1, MoreKeys
<1> QED BY <1>2 DEF K!Backed

\* A delete leaves enough before whatever had enough, and before whatever the deleted
\* object stood for, if it had enough before itself or is counted as gone.
LEMMA DeleteLeavesEnough ==
  ASSUME K!Setting, K!StateInv, rule' = rule, now' = now, NEW d \in Ranked,
         obj' = [obj EXCEPT ![d] = None], obj[d] # None,
         NEW g \in SUBSET Ranked, NEW h \in SUBSET Ranked, g \subseteq h,
         NEW e \in SUBSET h, d \in h \/ K!Backed(obj[d], d, e),
         NEW x \in K!Objs, NEW j \in Ranked
  PROVE  /\ K!Backed(x, j, g) => K!Cardinality(K!Better(x, j)' \cup h) >= rule'.count
         /\ K!Standing(j, x) => \/ K!Standing(j, x)' \/ j \in h
                               \/ K!Cardinality(K!Better(x, j)' \cup h) >= rule'.count
<1>1. /\ rule.count \in Nat /\ obj \in K!Listings /\ d \in Nat /\ j \in Nat
      /\ obj[d] \in K!Objs /\ e \in SUBSET Ranked
  BY CountNat DEF K!StateInv, K!Listings, K!Setting
<1>2. ASSUME NEW i \in Ranked, i # d PROVE obj'[i] = obj[i]
  BY <1>1, <1>2 DEF K!Listings
<1>3. ASSUME NEW i \in K!Better(obj[d], d) PROVE i # d /\ i \in Nat /\ obj[i] \in K!Objs
  <2>1. i \in Nat /\ obj[i] \in K!Objs
    BY <1>1 DEF K!Better, K!Listings, K!Setting
  <2> QED BY <1>1, <2>1, NewerTrans DEF K!Better
<1>4. ASSUME K!Backed(obj[d], d, e), NEW y \in K!Objs, NEW k \in Nat,
             \A i \in K!Better(obj[d], d) : K!Newer(obj[i], i, y, k)
      PROVE  K!Cardinality(K!Better(y, k)' \cup h) >= rule'.count
  <2>1. ASSUME NEW i \in K!Better(obj[d], d) PROVE i \in K!Better(y, k)'
    BY <1>2, <1>3, <1>4 DEF K!Better, K!Admits, K!Newer
  <2>2. K!Better(obj[d], d) \cup e \subseteq K!Better(y, k)' \cup h
    BY <2>1
  <2> QED BY <1>1, <1>4, <2>2, BackedStep
<1>5. ASSUME K!Backed(x, j, g) PROVE K!Cardinality(K!Better(x, j)' \cup h) >= rule'.count
  <2>1. CASE d \in K!Better(x, j) /\ d \notin h
    <3>1. \A i \in K!Better(obj[d], d) : K!Newer(obj[i], i, x, j)
      BY <1>1, <1>3, <2>1, NewerTrans DEF K!Better
    <3> QED BY <1>1, <1>4, <2>1, <3>1
  <2>2. CASE d \notin K!Better(x, j) \/ d \in h
    <3>1. ASSUME NEW i \in K!Better(x, j), i # d PROVE i \in K!Better(x, j)'
      <4>1. i \in Ranked /\ obj'[i] = obj[i]
        BY <1>2, <3>1 DEF K!Better
      <4> QED BY <4>1 DEF K!Better, K!Admits, K!Newer
    <3>2. K!Better(x, j) \cup g \subseteq K!Better(x, j)' \cup h
      BY <2>2, <3>1
    <3> QED BY <1>1, <1>5, <3>2, BackedStep
  <2> QED BY <2>1, <2>2
<1>6. ASSUME K!Standing(j, x), j \notin h
      PROVE  K!Standing(j, x)' \/ K!Cardinality(K!Better(x, j)' \cup h) >= rule'.count
  <2>1. CASE j = d
    <3>1. \A i \in K!Better(obj[d], d) : K!Newer(obj[i], i, x, j)
      BY <1>1, <1>3, <1>6, <2>1, NewerTrans DEF K!Better, K!Standing
    <3> QED BY <1>1, <1>4, <1>6, <2>1, <3>1
  <2>2. CASE j # d
    BY <1>2, <1>6, <2>2 DEF K!Standing, K!Admits
  <2> QED BY <2>1, <2>2
<1> QED BY <1>5, <1>6

\* The delete: the object that goes is the one ranked, which has enough before it, or is
\* counted as gone from now on.
LEMMA PruneKeeps == ASSUME K!Setting, K!NewestInv, NEW r \in Runs, K!Prune(r) PROVE K!NewestInv'
<1> DEFINE d == run[r].key
           taken == run[r].gone \cup K!Replaced(r)
<1>0. /\ K!StateInv /\ \A q \in Runs : K!CollectInv(q) /\ K!RankInv(q) /\ Fits(run[q])
      /\ run[r].pc = "headed" /\ UNCHANGED <<rule, now>> /\ obj' = [obj EXCEPT ![d] = None]
  BY RunFits DEF K!NewestInv, K!Prune
<1>1. /\ d \in run[r].todo /\ d \in Ranked /\ d \in K!Collected(r) /\ run[r].seen[d] \in K!Objs
      /\ now \in Nat /\ obj \in K!Listings /\ run[r].seen \in K!Listings
      /\ taken \in SUBSET Ranked
  <2>1. d \in run[r].todo /\ run[r].todo \subseteq K!Collected(r) /\ run[r].seen \in K!Listings
    BY <1>0 DEF K!RankInv, K!CollectInv, K!Ranking
  <2> QED BY <1>0, <2>1 DEF K!StateInv, K!Collected, K!Listings, K!Replaced
<1>2. /\ DOMAIN run' = Runs
      /\ run'[r] = [K!Settled(r) EXCEPT !.gone = @ \cup taken]
      /\ \A q \in Runs \ {r} : run'[q] = [run[q] EXCEPT !.gone = @ \cup taken]
  BY DEF K!Prune
<1> HIDE DEF taken
<1>3. /\ run'[r].pc = "prune" /\ run'[r].seen = run[r].seen /\ run'[r].todo = run[r].todo \ {d}
      /\ run'[r].gone = run[r].gone \cup taken /\ Fits(run'[r])
  BY <1>0, <1>1, <1>2 DEF Fits, K!Off, K!Ranking, K!Settled
<1>4. ASSUME NEW q \in Runs, q # r
      PROVE  /\ run'[q].pc = run[q].pc /\ run'[q].seen = run[q].seen /\ run'[q].todo = run[q].todo
             /\ run'[q].key = run[q].key /\ run'[q].head = run[q].head
             /\ run'[q].gone = run[q].gone \cup taken /\ Fits(run'[q])
  BY <1>0, <1>1, <1>2, <1>4 DEF Fits, K!Off
<1>5. \A k \in Ranked : obj'[k] = None \/ obj'[k] = obj[k]
  BY <1>0, <1>1 DEF K!Listings
<1>6. K!StateInv'
  <2>1. obj' \in K!Listings
    BY <1>0, <1>1 DEF K!Listings
  <2>2. \A k \in Ranked : obj'[k] # None => obj'[k].at <= now'
    BY <1>0, <1>5 DEF K!StateInv
  <2>3. \A q \in Runs : Fits(run'[q])
    BY <1>3, <1>4
  <2> QED BY <1>0, <1>1, <1>2, <2>1, <2>2, <2>3, StateStep
<1>7. ASSUME NEW q \in Runs, NEW x \in K!Objs, NEW j \in Ranked
      PROVE  /\ K!Backed(x, j, run[q].gone) => K!Backed(x, j, run[q].gone)'
             /\ K!Standing(j, x) => \/ K!Standing(j, x)' \/ j \in run'[q].gone
                                   \/ K!Backed(x, j, run[q].gone)'
  <2> DEFINE g == run[q].gone
             h == run'[q].gone
  <2>0. g \in SUBSET Ranked /\ h = g \cup taken /\ h \in SUBSET Ranked /\ rule.count \in Nat
    BY <1>0, <1>1, <1>3, <1>4, CountNat DEF Fits
  <2>1. K!Backed(x, j, run[q].gone)' = (K!Cardinality(K!Better(x, j)' \cup h) >= rule'.count)
    BY DEF K!Backed
  <2> HIDE DEF g, h
  <2>2. CASE obj[d] = None
    <3>1. obj' = obj
      BY <1>0, <1>1, <2>2 DEF K!Listings
    <3>2. K!Better(x, j) \cup g \subseteq K!Better(x, j)' \cup h
      BY <1>0, <2>0, <3>1 DEF K!Better, K!Admits
    <3>3. K!Backed(x, j, g) => K!Cardinality(K!Better(x, j)' \cup h) >= rule'.count
      BY <1>0, <2>0, <3>2, BackedStep
    <3> QED BY <1>0, <2>1, <3>1, <3>3, SameWorld DEF g
  <2>3. CASE obj[d] # None
    <3>1. d \in h \/ K!Backed(obj[d], d, run[r].gone)
      <4>1. CASE obj[d].at = run[r].seen[d].at
        <5>1. K!Backed(run[r].seen[d], d, run[r].gone)
          BY <1>0, <1>1 DEF K!RankInv
        <5>2. K!Better(run[r].seen[d], d) = K!Better(obj[d], d)
          BY <4>1 DEF K!Better, K!Newer
        <5> QED BY <5>1, <5>2 DEF K!Backed
      <4>2. CASE obj[d].at # run[r].seen[d].at
        BY <2>0, <2>3, <4>2 DEF K!Replaced, taken
      <4> QED BY <4>1, <4>2
    <3>2. run[r].gone \in SUBSET h /\ g \subseteq h
      BY <2>0 DEF taken
    <3>3. /\ K!Backed(x, j, g) => K!Cardinality(K!Better(x, j)' \cup h) >= rule'.count
          /\ K!Standing(j, x) => \/ K!Standing(j, x)' \/ j \in h
                                \/ K!Cardinality(K!Better(x, j)' \cup h) >= rule'.count
      BY <1>0, <1>1, <2>0, <2>3, <3>1, <3>2, DeleteLeavesEnough
    <3> QED BY <2>1, <3>3 DEF g, h
  <2> QED BY <2>2, <2>3
<1>8. K!CollectInv(r)' /\ K!RankInv(r)'
  <2>1. K!Collected(r)' = K!Collected(r)
    BY <1>3 DEF K!Collected
  <2>2. K!CollectInv(r)'
    BY <1>0, <1>3, <2>1 DEF K!CollectInv, K!Ranking, K!Listings, K!Objs
  <2>3. ASSUME NEW k \in run[r].todo PROVE K!Backed(run[r].seen[k], k, run[r].gone)'
    <3>1. K!Backed(run[r].seen[k], k, run[r].gone) /\ k \in K!Collected(r)
      BY <1>0, <2>3 DEF K!RankInv
    <3>2. k \in Ranked /\ run[r].seen[k] \in K!Objs
      BY <1>1, <3>1 DEF K!Collected, K!Listings
    <3>3. \A x \in K!Objs : K!Backed(x, k, run[r].gone) => K!Backed(x, k, run[r].gone)'
      BY <1>7, <3>2
    <3> QED BY <1>3, <3>1, <3>2, <3>3
  <2>4. K!RankInv(r)'
    BY <1>0, <1>3, <2>1, <2>3 DEF K!RankInv
  <2> QED BY <2>2, <2>4
<1>9. ASSUME NEW q \in Runs, q # r PROVE K!CollectInv(q)' /\ K!RankInv(q)'
  <2>1. now' >= now
    BY <1>0, <1>1
  <2>2. \A x \in K!Objs, j \in Ranked \ Skipped :
            /\ K!Backed(x, j, run[q].gone) => K!Backed(x, j, run[q].gone)'
            /\ K!Standing(j, x) => \/ K!Standing(j, x)' \/ j \in run'[q].gone
                                  \/ K!Backed(x, j, run[q].gone)'
    BY <1>7, <1>9
  <2> QED BY <1>0, <1>4, <1>6, <1>9, <2>1, <2>2, CarryRun
<1> QED BY <1>6, <1>8, <1>9 DEF K!NewestInv

\* A client's write leaves enough before whatever had enough, or what it takes away is
\* counted as gone.
LEMMA WriteLeavesEnough ==
  ASSUME K!Setting, K!StateInv, rule' = rule, now' = now, NEW k \in Ranked, NEW o \in K!Objects,
         obj' = [obj EXCEPT ![k] = o],
         NEW g \in SUBSET Ranked, NEW h \in SUBSET Ranked, g \subseteq h,
         K!Spoils(k, o) => k \in h,
         NEW x \in K!Objs, NEW j \in Ranked \ Skipped
  PROVE  /\ K!Backed(x, j, g) => K!Cardinality(K!Better(x, j)' \cup h) >= rule'.count
         /\ K!Standing(j, x) => K!Standing(j, x)' \/ j \in h
<1>1. /\ rule.count \in Nat /\ obj \in K!Listings /\ now \in Nat /\ j \in Nat
  BY CountNat DEF K!StateInv, K!Setting
<1>2. obj'[k] = o /\ \A i \in Ranked : i # k => obj'[i] = obj[i]
  BY <1>1 DEF K!Listings
<1>3. o # None => o.at = now
  BY DEF K!Objects
<1>4. obj[k] # None => obj[k].at \in Nat /\ obj[k].at <= now
  BY <1>1 DEF K!StateInv, K!Listings, K!Objs
<1>5. ASSUME NEW i \in K!Better(x, j), i \notin h PROVE i \in K!Better(x, j)'
  <2>1. CASE i = k
    <3>1. obj[k] # None /\ obj[k].big /\ K!Newer(obj[k], k, x, j) /\ k \notin Skipped
      BY <2>1 DEF K!Better, K!Admits
    <3>2. obj'[k] # None /\ K!Admits(obj'[k], now) /\ o.at >= obj[k].at /\ o.at \in Nat
      BY <1>1, <1>2, <1>3, <1>4, <1>5, <2>1, <3>1 DEF K!Spoils
    <3>3. K!Newer(obj'[k], k, x, j)
      BY <1>1, <1>2, <1>4, <3>1, <3>2 DEF K!Newer, K!Objs
    <3> QED BY <2>1, <3>1, <3>2, <3>3 DEF K!Better, K!Admits, K!Newer
  <2>2. CASE i # k
    <3>1. i \in Ranked /\ obj'[i] = obj[i]
      BY <1>2, <2>2 DEF K!Better
    <3> QED BY <3>1 DEF K!Better, K!Admits, K!Newer
  <2> QED BY <2>1, <2>2
<1>6. K!Backed(x, j, g) => K!Cardinality(K!Better(x, j)' \cup h) >= rule'.count
  <2>1. K!Better(x, j) \cup g \subseteq K!Better(x, j)' \cup h
    BY <1>5
  <2> QED BY <1>1, <2>1, BackedStep
<1>7. ASSUME K!Standing(j, x), j \notin h PROVE K!Standing(j, x)'
  <2>1. CASE j = k
    <3>1. obj'[k] # None /\ K!Admits(obj'[k], now) /\ o.at >= obj[k].at /\ o.at \in Nat
      BY <1>1, <1>2, <1>3, <1>4, <1>7, <2>1 DEF K!Standing, K!Spoils
    <3>2. x.at \in Nat /\ obj[k].at >= x.at /\ obj[k].at \in Nat
      BY <1>4, <1>7, <2>1 DEF K!Standing, K!Objs
    <3> QED BY <1>2, <2>1, <3>1, <3>2 DEF K!Standing, K!Admits
  <2>2. CASE j # k
    BY <1>2, <1>7, <2>2 DEF K!Standing, K!Admits
  <2> QED BY <2>1, <2>2
<1> QED BY <1>6, <1>7

LEMMA WriteKeeps ==
  ASSUME K!Setting, K!NewestInv, NEW k \in Ranked, NEW o \in K!Objects, K!ClientWrite(k, o)
  PROVE  K!NewestInv'
<1>0. /\ K!StateInv /\ \A q \in Runs : K!CollectInv(q) /\ K!RankInv(q) /\ Fits(run[q])
      /\ UNCHANGED <<rule, now>> /\ obj' = [obj EXCEPT ![k] = o]
      /\ now \in Nat /\ obj \in K!Listings
  BY RunFits DEF K!NewestInv, K!ClientWrite, K!StateInv
<1>1. DOMAIN run' = Runs /\ \A q \in Runs :
        run'[q] = [run[q] EXCEPT !.gone = IF K!Spoils(k, o) THEN @ \cup {k} ELSE @]
  BY DEF K!ClientWrite
<1>2. ASSUME NEW q \in Runs
      PROVE  /\ run'[q].pc = run[q].pc /\ run'[q].seen = run[q].seen /\ run'[q].todo = run[q].todo
             /\ run'[q].key = run[q].key /\ run'[q].head = run[q].head
             /\ run[q].gone \subseteq run'[q].gone /\ (K!Spoils(k, o) => k \in run'[q].gone)
             /\ Fits(run'[q])
  <2>1. PICK h : h = IF K!Spoils(k, o) THEN run[q].gone \cup {k} ELSE run[q].gone
    OBVIOUS
  <2>2. run'[q] = [run[q] EXCEPT !.gone = h]
    BY <1>1, <2>1
  <2>3. h \subseteq Ranked /\ run[q].gone \subseteq h /\ (K!Spoils(k, o) => k \in h)
    BY <1>0, <2>1 DEF Fits
  <2> QED BY <1>0, <2>2, <2>3 DEF Fits, K!Off
<1>3. o = None \/ (o \in K!Objs /\ o.at = now)
  <2>1. CASE o \in [at : {now}, big : BOOLEAN]
    BY <1>0, <2>1 DEF K!Objs
  <2> QED BY <2>1 DEF K!Objects
<1>4. K!StateInv'
  <2>1. obj' \in K!Listings
    BY <1>0, <1>3 DEF K!Listings
  <2>2. \A i \in Ranked : obj'[i] # None => obj'[i].at <= now'
    BY <1>0, <1>3 DEF K!StateInv, K!Listings
  <2>3. \A q \in Runs : Fits(run'[q])
    BY <1>2
  <2> QED BY <1>0, <1>1, <2>1, <2>2, <2>3, StateStep
<1>5. ASSUME NEW q \in Runs, NEW x \in K!Objs, NEW j \in Ranked \ Skipped
      PROVE  /\ K!Backed(x, j, run[q].gone) => K!Backed(x, j, run[q].gone)'
             /\ K!Standing(j, x) => K!Standing(j, x)' \/ j \in run'[q].gone
  <2> DEFINE g == run[q].gone
             h == run'[q].gone
  <2>1. g \in SUBSET Ranked /\ h \in SUBSET Ranked /\ g \subseteq h /\ (K!Spoils(k, o) => k \in h)
    BY <1>0, <1>2 DEF Fits
  <2>2. K!Backed(x, j, run[q].gone)' = (K!Cardinality(K!Better(x, j)' \cup h) >= rule'.count)
    BY DEF K!Backed
  <2> HIDE DEF g, h
  <2>3. /\ K!Backed(x, j, g) => K!Cardinality(K!Better(x, j)' \cup h) >= rule'.count
        /\ K!Standing(j, x) => K!Standing(j, x)' \/ j \in h
    BY <1>0, <2>1, WriteLeavesEnough
  <2> QED BY <2>2, <2>3 DEF g, h
<1>6. ASSUME NEW q \in Runs PROVE K!CollectInv(q)' /\ K!RankInv(q)'
  <2>1. now' >= now /\ run[q].gone \subseteq run'[q].gone
    BY <1>0, <1>2
  <2>2. \A x \in K!Objs, j \in Ranked \ Skipped :
            /\ K!Backed(x, j, run[q].gone) => K!Backed(x, j, run[q].gone)'
            /\ K!Standing(j, x) => \/ K!Standing(j, x)' \/ j \in run'[q].gone
                                  \/ K!Backed(x, j, run[q].gone)'
    BY <1>5
  <2> QED BY <1>0, <1>2, <1>4, <2>1, <2>2, CarryRun
<1> QED BY <1>4, <1>6 DEF K!NewestInv

\* Time only makes more objects qualify.
LEMMA TickKeeps == ASSUME K!Setting, K!NewestInv, K!Tick PROVE K!NewestInv'
<1>0. /\ K!StateInv /\ \A q \in Runs : K!CollectInv(q) /\ K!RankInv(q) /\ Fits(run[q])
      /\ UNCHANGED <<rule, obj, run>> /\ now' = now + 1
      /\ now \in Nat /\ obj \in K!Listings /\ rule.minAge \in Nat /\ rule.count \in Nat
  BY RunFits DEF K!NewestInv, K!Tick, K!StateInv, K!Setting
<1>1. \A k \in Ranked : obj[k] # None => obj[k].at \in Nat /\ obj[k].at <= now
  BY <1>0 DEF K!StateInv, K!Listings, K!Objs
<1>2. K!StateInv'
  <2>1. \A k \in Ranked : obj'[k] # None => obj'[k].at <= now'
    BY <1>0, <1>1
  <2>2. DOMAIN run' = Runs
    BY <1>0 DEF K!StateInv
  <2> QED BY <1>0, <2>1, <2>2, StateStep
<1>3. \A k \in Ranked : obj[k] # None /\ K!Admits(obj[k], now) => K!Admits(obj[k], now + 1)
  BY <1>0, <1>1 DEF K!Admits
<1>4. ASSUME NEW x \in K!Objs, NEW j \in Ranked, NEW g \in SUBSET Ranked
      PROVE  /\ K!Backed(x, j, g) => K!Cardinality(K!Better(x, j)' \cup g) >= rule'.count
             /\ K!Standing(j, x) => K!Standing(j, x)'
  <2>1. ASSUME NEW i \in K!Better(x, j) PROVE i \in K!Better(x, j)'
    <3>1. i \in Ranked /\ K!Admits(obj[i], now + 1)
      BY <1>3 DEF K!Better
    <3> QED BY <1>0, <3>1 DEF K!Better, K!Admits, K!Newer
  <2>2. K!Standing(j, x) => K!Standing(j, x)'
    BY <1>0, <1>3 DEF K!Standing, K!Admits
  <2>3. K!Better(x, j) \cup g \subseteq K!Better(x, j)' \cup g
    BY <2>1
  <2> QED BY <1>0, <2>2, <2>3, BackedStep
<1>5. ASSUME NEW q \in Runs PROVE K!CollectInv(q)' /\ K!RankInv(q)'
  <2>1. /\ now' >= now /\ run[q].gone \in SUBSET Ranked /\ run'[q] = run[q]
        /\ run[q].gone \subseteq run'[q].gone
    BY <1>0 DEF Fits
  <2>2. \A x \in K!Objs, j \in Ranked \ Skipped :
            /\ K!Backed(x, j, run[q].gone) => K!Backed(x, j, run[q].gone)'
            /\ K!Standing(j, x) => \/ K!Standing(j, x)' \/ j \in run'[q].gone
                                  \/ K!Backed(x, j, run[q].gone)'
    BY <1>4, <2>1 DEF K!Backed
  <2> QED BY <1>0, <1>2, <2>1, <2>2, CarryRun
<1> QED BY <1>2, <1>5 DEF K!NewestInv

\* The age path deletes only under a rule that keeps no newest objects.
LEMMA AgeDeletes ==
  ASSUME K!NewestInv, NEW r \in Runs, K!DeleteSource(r) \/ \E k \in Ranked : K!Delete(r, k)
  PROVE  K!NewestInv'
<1>0. /\ K!StateInv /\ \A q \in Runs : Fits(run[q]) /\ DOMAIN run = Runs
      /\ UNCHANGED <<rule, now>> /\ now \in Nat /\ obj \in K!Listings
  BY RunFits DEF K!NewestInv, K!DeleteSource, K!Delete, K!StateInv
<1>1. ~K!Retains
  BY <1>0 DEF K!DeleteSource, K!Delete, Fits, K!Ranking, K!Retains
<1>2. PICK d, f : /\ obj' = [obj EXCEPT ![d] = None] /\ run' = [run EXCEPT ![r] = f] /\ Fits(f)
  <2>1. ASSUME NEW k \in Ranked, K!Delete(r, k)
        PROVE  Fits([run[r] EXCEPT !.todo = @ \ {k}])
    BY <1>0 DEF Fits, K!Off
  <2>2. Fits([run[r] EXCEPT !.pc = "act", !.todo = @ \ {run[r].key}, !.key = None])
    BY <1>0, <1>1 DEF Fits, K!Off
  <2> QED BY <2>1, <2>2 DEF K!Delete, K!DeleteSource, K!Set
<1>3. DOMAIN run' = Runs /\ \A q \in Runs : Fits(run'[q])
  BY <1>0, <1>2
<1>4. obj' \in K!Listings /\ \A k \in Ranked : obj'[k] # None => obj'[k].at <= now'
  BY <1>0, <1>2 DEF K!Listings, K!StateInv
<1>5. K!StateInv'
  BY <1>0, <1>3, <1>4, StateStep
<1>6. \A q \in Runs : run'[q].pc \notin K!Ranking
  BY <1>1, <1>3 DEF Fits, K!Ranking
<1> QED BY <1>5, <1>6, NoPlan DEF K!NewestInv

LEMMA CrashEnds == ASSUME K!NewestInv, K!Crash PROVE K!NewestInv'
<1>1. /\ K!StateInv /\ UNCHANGED <<rule, now, obj>> /\ DOMAIN run' = Runs
      /\ \A q \in Runs : run'[q] = K!Off
  BY DEF K!NewestInv, K!Crash
<1>2. K!StateInv'
  BY <1>1, OffFits, StateStep DEF K!StateInv
<1> QED BY <1>1, <1>2, OffFits, NoPlan DEF K!NewestInv

\* Steps that change neither the bucket nor a run.
LEMMA IdleKeeps ==
  ASSUME K!NewestInv, UNCHANGED <<rule, now, obj, run>> PROVE K!NewestInv'
  BY DEF K!NewestInv, K!StateInv, K!CollectInv, K!RankInv, K!Collected, K!Backed, K!Better,
         K!Admits, K!Newer, K!Standing, K!Retains, K!Listings, K!Objs, K!Ranking, K!Off

LEMMA NewestNext == ASSUME K!Setting, K!NewestInv, K!Next PROVE K!NewestInv'
<1>1. ASSUME NEW r \in Runs, K!Start(r) \/ K!Work(r) PROVE K!NewestInv'
  BY <1>1, AgeKeeps, LoadKeeps, CollectKeeps, RankKeeps, OpenKeeps, HeadKeeps, PruneKeeps,
     FailKeeps, AgeDeletes DEF K!Work
<1>2. CASE \/ K!Redefine \/ K!SetPaused \/ K!ArmGate \/ K!Drained \/ K!ClearGate \/ K!Lapse
  BY <1>2, IdleKeeps DEF K!Redefine, K!SetPaused, K!ArmGate, K!Drained, K!ClearGate, K!Lapse
<1>3. ASSUME NEW k \in Ranked, NEW o \in K!Objects, K!ClientWrite(k, o) PROVE K!NewestInv'
  BY <1>3, WriteKeeps
<1> QED BY <1>1, <1>2, <1>3, TickKeeps, CrashEnds DEF K!Next

\* What a delete removes has enough before it, or is not what the HEAD before it saw.
LEMMA NewestStep == ASSUME K!NewestInv, K!Next PROVE K!NewestKept
<1> SUFFICES ASSUME NEW r \in Runs, K!Deletes(r)
             PROVE  IF obj[run[r].key].at = run[r].seen[run[r].key].at
                    THEN K!Backed(obj[run[r].key], run[r].key, run[r].gone)
                    ELSE run[r].head = None \/ run[r].head.at # obj[run[r].key].at
  BY DEF K!NewestKept
<1> DEFINE d == run[r].key
<1>1. K!RankInv(r) /\ run[r].pc = "headed"
  BY DEF K!NewestInv, K!Deletes
<1>2. /\ d \in run[r].todo /\ K!Backed(run[r].seen[d], d, run[r].gone)
      /\ run[r].head # None => run[r].head.at = run[r].seen[d].at
  BY <1>1 DEF K!RankInv
<1>3. obj[d].at = run[r].seen[d].at => K!Better(run[r].seen[d], d) = K!Better(obj[d], d)
  BY DEF K!Better, K!Newer
<1> QED BY <1>2, <1>3 DEF K!Backed

\* Whatever clients upload, replace and remove, whichever HEADs and deletes fail and however
\* runs overlap: the objects a retain-newest run deletes as ranked are none of the newest its
\* rule keeps, counting those taken away meanwhile, and another object than the ranked one
\* goes only if the HEAD before the delete failed or did not see it (lifecycle/worker.rs).
THEOREM NewestStays == NodeSpec => KeepsNewest
<1> DEFINE Inv == part = "retain" => K!NewestInv
<1>1. NodeInit => Inv
  BY NewestInit, NodeSettings DEF NodeInit
<1>2. Inv /\ [NodeNext]_all => Inv'
  <2> SUFFICES ASSUME part = "retain" => K!NewestInv, [NodeNext]_all, part' = "retain" PROVE K!NewestInv'
    OBVIOUS
  <2>1. CASE part = "retain" /\ K!Next /\ InRetain
    BY <2>1, NewestNext, NodeSettings
  <2>2. CASE UNCHANGED all
    BY <2>2, IdleKeeps DEF all, RetainVars
  <2> QED BY <2>1, <2>2 DEF NodeNext, InMirror, InTable, InKey, InApply, InMaint
<1>3. Inv /\ [NodeNext]_all => [part = "retain" => K!NewestKept]_all
  BY NewestStep DEF NodeNext
<1> QED BY <1>1, <1>2, <1>3, PTL DEF NodeSpec, KeepsNewest
-----------------------------------------------------------------------------
(* The boots of a node and the changes of its password (B).                *)

LEMMA BootStarts == ASSUME B!Setting, B!Init PROVE B!BootInv
<1>1. PICK h \in Hashes : live = B!Db(h, {0}) /\ file = h /\ used = {h}
  BY DEF B!Init
<1>2. live \in B!Dbs
  BY <1>1 DEF B!Db, B!Dbs, B!Setting
<1> QED BY <1>2 DEF B!Init, B!BootInv, B!Idle

\* A new hash is made up or the configured one taken; the databases stay.
LEMMA HashKeeps == ASSUME B!BootInv, B!ensure_bootstrap_password_hash PROVE B!BootInv'
<1>1. B!Configured # None => B!Configured \in Hashes
  BY DEF B!Configured, B!BootInv
<1>2. memory' \in Hashes /\ used' \subseteq Hashes
  BY <1>1 DEF B!ensure_bootstrap_password_hash, B!BootInv
<1> QED BY <1>2 DEF B!ensure_bootstrap_password_hash, B!BootInv

\* The boot opens, creates, parks or promotes a database.
LEMMA OpenDbKeeps == ASSUME B!Setting, B!BootInv, B!init_config_db PROVE B!BootInv'
<1>1. B!Db(memory, {}) \in B!Dbs /\ B!Db(memory, {}) # None
  BY DEF B!Db, B!Dbs, B!Setting, B!BootInv, B!init_config_db
<1>2. {live', bak', discarded'} \subseteq B!Dbs \cup {None}
  <2>1. /\ live' \in {live, None, B!Db(memory, {})} /\ bak' \in {bak, live}
        /\ discarded' \in {discarded, live}
    BY DEF B!init_config_db, B!files
  <2>2. {live, bak, discarded} \subseteq B!Dbs \cup {None}
    BY DEF B!BootInv
  <2> QED BY <1>1, <2>1, <2>2
<1>3. /\ phase' \in {"up", "promote"} /\ phase = "open"
      /\ hasDb' => phase' = "up" /\ live' # None
      /\ phase' = "promote" => live' = None /\ bak' # None /\ bak'.users # {}
  BY <1>1 DEF B!BootInv, B!init_config_db, B!files, B!Running, B!probe_bak_users, B!Opens
<1>4. UNCHANGED <<memory, req, created, used, env>>
  BY DEF B!init_config_db
<1>5. \A a \in Admins : req[a] = B!Idle
  BY <1>3 DEF B!BootInv
<1> QED BY <1>2, <1>3, <1>4, <1>5 DEF B!BootInv, B!Idle

LEMMA PromoteKeeps == ASSUME B!BootInv, B!promote_backup_db PROVE B!BootInv'
<1>1. \A a \in Admins : req[a] = B!Idle
  BY DEF B!BootInv, B!promote_backup_db
<1> QED BY <1>1 DEF B!promote_backup_db, B!BootInv, B!Running, B!Idle

LEMMA AddUserKeeps == ASSUME B!Setting, B!BootInv, B!AddUser PROVE B!BootInv'
<1>1. live \in B!Dbs /\ created + 1 \in 0..MaxUsers
  BY DEF B!BootInv, B!AddUser, B!Setting
<1>2. [live EXCEPT !.users = @ \cup {created + 1}] \in B!Dbs
  BY <1>1 DEF B!Dbs
<1>3. live' \in B!Dbs /\ live' # None
  BY <1>2 DEF B!AddUser, B!Setting
<1> QED BY <1>3 DEF B!AddUser, B!BootInv

\* What a step of a password change leaves: another key at most, and a change or none.
LEMMA ChangeKeeps ==
  ASSUME B!Setting, B!BootInv, NEW a \in Admins,
         B!change_password(a) \/ B!Rekey(a) \/ B!Truncate(a) \/ B!write_bootstrap_hash_file(a)
           \/ B!Revert(a) \/ B!Swap(a)
  PROVE  B!BootInv'
<1>0. used' \subseteq Hashes
  BY DEF B!change_password, B!Rekey, B!Truncate, B!write_bootstrap_hash_file, B!Revert, B!Swap,
         B!BootInv
<1>1. phase = "up" /\ UNCHANGED <<bak, discarded, phase, hasDb, created, env>>
  BY DEF B!change_password, B!Rekey, B!Truncate, B!write_bootstrap_hash_file, B!Revert, B!Swap,
         B!BootInv, B!Idle
<1>2. memory' \in Hashes
  BY DEF B!change_password, B!Rekey, B!Truncate, B!write_bootstrap_hash_file, B!Revert, B!Swap,
         B!BootInv, B!Idle, B!Changes
<1>3. \/ live' = live
      \/ \E h \in Hashes : hasDb /\ live' = [live EXCEPT !.key = h]
  BY DEF B!change_password, B!Rekey, B!Truncate, B!write_bootstrap_hash_file, B!Revert, B!Swap,
         B!BootInv, B!Idle, B!Changes, B!Reverted
<1>4. live' \in B!Dbs \cup {None} /\ (hasDb' => live' # None)
  BY <1>1, <1>3 DEF B!BootInv, B!Dbs, B!Setting
<1>5. \E x \in {B!Idle} \cup B!Changes :
         req' = [req EXCEPT ![a] = x] /\ (x.pc = "rekey" => hasDb)
  <2>1. CASE B!change_password(a)
    BY <2>1 DEF B!change_password, B!Goto, B!BootInv, B!Changes
  <2>2. CASE req[a] \in B!Changes /\ ~B!change_password(a)
    <3>1. \A p \in {"truncate", "write", "revert", "swap"} :
             [req[a] EXCEPT !.pc = p] \in B!Changes /\ [req[a] EXCEPT !.pc = p].pc # "rekey"
      BY <2>2 DEF B!Changes
    <3>2. \/ req' = [req EXCEPT ![a] = B!Idle]
          \/ \E p \in {"truncate", "write", "revert", "swap"} :
                req' = [req EXCEPT ![a] = [req[a] EXCEPT !.pc = p]]
      BY <2>2 DEF B!Rekey, B!Truncate, B!write_bootstrap_hash_file, B!Revert, B!Swap, B!Goto
    <3>3. CASE req' = [req EXCEPT ![a] = B!Idle]
      <4>1. B!Idle \in {B!Idle} \cup B!Changes /\ B!Idle.pc # "rekey"
        BY DEF B!Idle
      <4> QED BY <3>3, <4>1, Zenon
    <3>4. CASE \E p \in {"truncate", "write", "revert", "swap"} :
                 req' = [req EXCEPT ![a] = [req[a] EXCEPT !.pc = p]]
      BY <3>1, <3>4, Zenon
    <3> QED BY <3>2, <3>3, <3>4
  <2> QED BY <2>1, <2>2 DEF B!Rekey, B!Truncate, B!write_bootstrap_hash_file, B!Revert, B!Swap,
                            B!BootInv, B!Idle
<1> QED BY <1>0, <1>1, <1>2, <1>4, <1>5 DEF B!BootInv

LEMMA StopKeeps ==
  ASSUME B!BootInv, B!Crash \/ B!Reconfigure \/ B!recover_db PROVE B!BootInv'
<1>1. /\ phase' = "down" /\ hasDb' = FALSE /\ UNCHANGED <<live, bak, discarded, created>>
      /\ used' \subseteq Hashes /\ env' \in Hashes \cup {None}
  BY DEF B!Crash, B!Reconfigure, B!recover_db, B!Restart, B!BootInv
<1>2. req' \in [Admins -> {B!Idle} \cup B!Changes] /\ \A a \in Admins : req'[a] = B!Idle
  <2>1. \A x \in B!Changes : x.pc # "idle"
    BY DEF B!Changes
  <2> QED BY <2>1 DEF B!Crash, B!Reconfigure, B!recover_db, B!Restart, B!BootInv
<1> QED BY <1>1, <1>2 DEF B!BootInv, B!Idle

LEMMA BootNext == ASSUME B!Setting, B!BootInv, B!Next PROVE B!BootInv'
  BY HashKeeps, OpenDbKeeps, PromoteKeeps, AddUserKeeps, ChangeKeeps, StopKeeps DEF B!Next

\* No step loses a user of record.
LEMMA RecordStep == ASSUME B!Setting, B!BootInv, B!Next PROVE B!RecordKept
<1>1. CASE UNCHANGED <<live, bak>>
  BY <1>1 DEF B!RecordKept, B!OfRecord
<1>2. CASE B!init_config_db
  <2>2. B!Db(memory, {}).users = {}
    BY DEF B!Db
  <2>3. \/ bak' = bak /\ live' = live
        \/ bak' = bak /\ live = None
        \/ bak' = bak /\ bak # None /\ bak.users # {}
        \/ bak' = live /\ bak = None /\ live # None /\ live' = B!Db(memory, {})
    BY <1>2 DEF B!init_config_db, B!files, B!probe_bak_users, B!should_preserve_as_backup, B!BootInv
  <2> QED BY <2>2, <2>3 DEF B!RecordKept, B!OfRecord
<1>3. CASE B!promote_backup_db
  BY <1>3 DEF B!promote_backup_db, B!RecordKept, B!OfRecord, B!BootInv
<1>4. CASE B!AddUser
  <2>1. live \in B!Dbs /\ live # None
    BY <1>4 DEF B!AddUser, B!BootInv
  <2>2. live'.users = live.users \cup {created'} /\ live' # None
    <3>1. live' \in B!Dbs \cup {None} /\ (hasDb' => live' # None)
      BY <1>4, AddUserKeeps DEF B!BootInv
    <3> QED BY <1>4, <2>1, <3>1 DEF B!AddUser, B!Dbs
  <2> QED BY <1>4, <2>1, <2>2 DEF B!AddUser, B!RecordKept, B!OfRecord
<1>5. ASSUME NEW a \in Admins, B!Rekey(a) \/ B!Revert(a) PROVE B!RecordKept
  <2>1. \/ live' = live
        \/ \E h \in Hashes : hasDb /\ live' = [live EXCEPT !.key = h]
    BY <1>5 DEF B!Rekey, B!Revert, B!BootInv, B!Idle, B!Changes, B!Reverted
  <2>2. hasDb => live \in B!Dbs /\ live # None /\ live' # None
    BY <1>5, ChangeKeeps DEF B!BootInv, B!Rekey, B!Revert
  <2>3. (live' = None <=> live = None) /\ live'.users = live.users
    BY <2>1, <2>2 DEF B!Dbs
  <2>4. bak' = bak
    BY <1>5 DEF B!Rekey, B!Revert
  <2> QED BY <2>3, <2>4 DEF B!RecordKept, B!OfRecord
<1> QED BY <1>1, <1>2, <1>3, <1>4, <1>5
        DEF B!Next, B!ensure_bootstrap_password_hash, B!change_password, B!Truncate,
            B!write_bootstrap_hash_file, B!Swap, B!Crash, B!Reconfigure, B!recover_db, B!Restart

\* A boot that ends up unlocked has looked at the backup beside its database.
LEMMA LockedStep == ASSUME B!BootInv, B!Next PROVE B!ParkedStaysLocked
<1> SUFFICES ASSUME phase # "up", phase' = "up", ~locked', bak' # None, bak'.users # {},
                    bak'.key # memory'
             PROVE  live'.users # {}
  BY DEF B!ParkedStaysLocked
<1>1. B!init_config_db \/ B!promote_backup_db
  BY DEF B!Next, B!ensure_bootstrap_password_hash, B!AddUser, B!change_password, B!Rekey,
         B!Truncate, B!write_bootstrap_hash_file, B!Revert, B!Swap, B!Crash, B!Reconfigure,
         B!recover_db, B!Restart
<1> QED BY <1>1 DEF B!init_config_db, B!promote_backup_db, B!Running, B!classify_lingering_bak,
                    B!Opens

\* However often a node is started with a wrong hash, dies half-way through a boot, a promotion
\* or a password change, or gets its hash back, the users of record stay on disk, and it never
\* serves from an empty user table beside a backup it cannot open (startup.rs).
THEOREM UsersStay == NodeSpec => UsersKept
<1> DEFINE Inv == part = "key" => B!BootInv
<1>1. NodeInit => Inv
  BY BootStarts, NodeSettings DEF NodeInit
<1>2. Inv /\ [NodeNext]_all => Inv'
  <2> SUFFICES ASSUME part = "key" => B!BootInv, [NodeNext]_all, part' = "key" PROVE B!BootInv'
    OBVIOUS
  <2>1. CASE part = "key" /\ B!Next /\ InKey
    BY <2>1, BootNext, NodeSettings
  <2>2. CASE UNCHANGED all
    BY <2>2 DEF all, KeyVars, B!BootInv, B!Dbs, B!Changes, B!Idle
  <2> QED BY <2>1, <2>2 DEF NodeNext, InMirror, InTable, InRetain, InApply, InMaint
<1>3. Inv /\ [NodeNext]_all => [part = "key" => B!RecordKept /\ B!ParkedStaysLocked]_all
  BY RecordStep, LockedStep, NodeSettings DEF NodeNext
<1> QED BY <1>1, <1>2, <1>3, PTL DEF NodeSpec, UsersKept
-----------------------------------------------------------------------------
(* The changes of the configuration (P).                                   *)

LEMMA OverIs ==
  ASSUME NEW e, NEW c, NEW f \in P!Fields
  PROVE  P!Over(e, c)[f] = IF f \in DOMAIN e THEN e[f] ELSE c[f]
  BY DEF P!Over

\* What preserving the secrets makes of a configuration, field by field.
LEMMA PreservedIs ==
  ASSUME NEW e, NEW c, NEW old
  PROVE  /\ \A f \in P!Fields \ P!Secrets :
               P!preserve_runtime_secrets(P!Over(e, c), old, e)[f] = P!Over(e, c)[f]
         /\ P!preserve_runtime_secrets(P!Over(e, c), old, e).creds
              = P!preserve_sigv4_pair(P!Over(e, c), old)
         /\ P!preserve_runtime_secrets(P!Over(e, c), old, e).key
              = P!PreservedKey(P!Over(e, c), old, e)
         /\ P!preserve_runtime_secrets(P!Over(e, c), old, e).legacy
              = P!PreservedLegacy(P!PromotedKey(P!Over(e, c), old, e), old, e)
<1> DEFINE n == P!Over(e, c)
<1>1. DOMAIN n = P!Fields
  BY DEF P!Over
<1>2. P!preserve_runtime_secrets(n, old, e)
        = [n EXCEPT !.creds = P!preserve_sigv4_pair(n, old), !.key = P!PreservedKey(n, old, e),
                    !.legacy = P!PreservedLegacy(P!PromotedKey(n, old, e), old, e)]
  BY DEF P!preserve_runtime_secrets
<1> HIDE DEF n
<1>3. /\ \A f \in P!Fields \ P!Secrets : P!preserve_runtime_secrets(n, old, e)[f] = n[f]
      /\ P!preserve_runtime_secrets(n, old, e).creds = P!preserve_sigv4_pair(n, old)
      /\ P!preserve_runtime_secrets(n, old, e).key = P!PreservedKey(n, old, e)
      /\ P!preserve_runtime_secrets(n, old, e).legacy
           = P!PreservedLegacy(P!PromotedKey(n, old, e), old, e)
  BY <1>1, <1>2 DEF P!Fields, P!Secrets
<1> QED BY <1>3 DEF n

\* The secrets that a form or a document does not name survive.
LEMMA SecretsSurvive ==
  ASSUME NEW e, NEW c, NEW old, P!Keyed(old), NEW f \in P!Secrets, f \notin DOMAIN e,
         c[f] \in {None, old[f]},
         f \in {"key", "legacy"} => P!Over(e, c).crypt = old.crypt
  PROVE  P!preserve_runtime_secrets(P!Over(e, c), old, e)[f] = old[f]
<1>1. P!Over(e, c)[f] = c[f]
  BY OverIs DEF P!Secrets, P!Fields
<1>2. CASE f = "creds"
  BY <1>1, <1>2, PreservedIs DEF P!preserve_sigv4_pair
<1>3. CASE f = "key"
  BY <1>1, <1>3, PreservedIs DEF P!PreservedKey, P!Nulls, P!Keyed
<1>4. CASE f = "legacy"
  BY <1>1, <1>4, PreservedIs DEF P!PreservedLegacy, P!PromotedKey, P!Nulls
<1> QED BY <1>2, <1>3, <1>4 DEF P!Secrets

\* A request as the doors make them, and as it waits or is worked at.
Proper(r) ==
    /\ r.by \in P!Gated \cup P!InPlace
    /\ r.by \in P!InPlace => {"crypt", "key"} \cap DOMAIN r.edit = {}
    /\ r.by \notin P!Gated => "public" \notin DOMAIN r.edit
    /\ \A f \in P!Secrets : r.doc[f] = None

LEMMA ProperRequest ==
  ASSUME P!Setting, P!ApplyInv, NEW c \in Editors, req[c].pc \in P!Holding \cup {"ready"}
  PROVE  Proper(req[c])
  BY DEF P!ApplyInv, P!Setting, Proper

LEMMA RequestedInPlace ==
  ASSUME NEW r, NEW old, r.by \in P!InPlace, NEW f \in P!Fields, f \notin DOMAIN r.edit
  PROVE  P!Requested(r, old)[f] = old[f]
<1>1. P!Requested(r, old) = P!Over(r.edit, old)
  BY DEF P!Requested, P!InPlace
<1> QED BY <1>1, OverIs

LEMMA RequestedAsWhole ==
  ASSUME NEW r, NEW old, Proper(r), r.by \notin P!InPlace
  PROVE  \E c : /\ P!Requested(r, old) = P!preserve_runtime_secrets(P!Over(r.edit, c), old, r.edit)
                /\ \/ r.by = "section" /\ c = old
                   \/ r.by = "document" /\ c = r.doc
<1>1. r.by \in {"section", "document"}
  BY DEF Proper, P!Gated, P!InPlace
<1>2. CASE r.by = "section"
  BY <1>2 DEF P!Requested, P!merge_patch_section
<1>3. CASE r.by = "document"
  BY <1>3 DEF P!Requested
<1> QED BY <1>1, <1>2, <1>3

\* Whatever a request makes of a configuration has a key in proxy mode only.
LEMMA RequestedKeyed ==
  ASSUME NEW r, NEW old, Proper(r), P!Keyed(old) PROVE P!Keyed(P!Requested(r, old))
<1>1. CASE r.by \in P!InPlace
  <2>1. P!Requested(r, old).crypt = old.crypt /\ P!Requested(r, old).key = old.key
    BY <1>1, RequestedInPlace DEF Proper, P!Fields
  <2> QED BY <2>1 DEF P!Keyed
<1>2. CASE r.by \notin P!InPlace
  <2>1. PICK c : P!Requested(r, old) = P!preserve_runtime_secrets(P!Over(r.edit, c), old, r.edit)
    BY <1>2, RequestedAsWhole
  <2>2. /\ P!Requested(r, old).key = P!PreservedKey(P!Over(r.edit, c), old, r.edit)
        /\ P!Requested(r, old).crypt = P!Over(r.edit, c).crypt
    BY <2>1, PreservedIs DEF P!Fields, P!Secrets
  <2> QED BY <2>2 DEF P!Keyed, P!PreservedKey
<1> QED BY <1>1, <1>2

\* A request changes what it touches.
LEMMA RequestedTouches ==
  ASSUME NEW r, Proper(r), P!Keyed(cfg), NEW f \in P!Fields, P!Requested(r, cfg)[f] # cfg[f]
  PROVE  P!Touches(r, f)
<1>1. CASE r.by \in P!InPlace
  BY <1>1, RequestedInPlace DEF P!Touches
<1>2. CASE r.by \notin P!InPlace
  <2> SUFFICES ASSUME ~P!Touches(r, f) PROVE FALSE
    OBVIOUS
  <2>1. PICK c : /\ P!Requested(r, cfg) = P!preserve_runtime_secrets(P!Over(r.edit, c), cfg, r.edit)
                 /\ \/ r.by = "section" /\ c = cfg
                    \/ r.by = "document" /\ c = r.doc
    BY <1>2, RequestedAsWhole
  <2>2. f \notin DOMAIN r.edit /\ (r.by = "document" => f \in P!Secrets)
    BY DEF P!Touches
  <2>3. CASE f \notin P!Secrets
    BY <2>1, <2>2, <2>3, PreservedIs, OverIs
  <2>4. CASE f \in P!Secrets
    <3>1. c[f] \in {None, cfg[f]}
      BY <2>1, <2>4 DEF Proper
    <3>2. f \in {"key", "legacy"} => P!Over(r.edit, c).crypt = cfg.crypt
      <4>1. f \in {"key", "legacy"} => "crypt" \notin DOMAIN r.edit /\ c.crypt = cfg.crypt
        BY <2>1 DEF P!Touches
      <4> QED BY <4>1, OverIs DEF P!Fields
    <3> QED BY <2>1, <2>2, <2>4, <3>1, <3>2, SecretsSurvive
  <2> QED BY <2>3, <2>4
<1> QED BY <1>1, <1>2

\* The key moves to the decrypt-only slot, if it is free, or stays.
LEMMA RequestedRetains ==
  ASSUME NEW r, Proper(r), P!Keyed(cfg), cfg.key # None, cfg.legacy = None,
         {"key", "legacy"} \cap DOMAIN r.edit = {}
  PROVE  cfg.key \in {P!Requested(r, cfg).key, P!Requested(r, cfg).legacy}
<1>1. CASE r.by \in P!InPlace
  BY <1>1, RequestedInPlace DEF P!Fields
<1>2. CASE r.by \notin P!InPlace
  <2>1. PICK c : /\ P!Requested(r, cfg) = P!preserve_runtime_secrets(P!Over(r.edit, c), cfg, r.edit)
                 /\ \/ r.by = "section" /\ c = cfg
                    \/ r.by = "document" /\ c = r.doc
    BY <1>2, RequestedAsWhole
  <2>2. c.key \in {None, cfg.key} /\ c.legacy = None /\ cfg.crypt = "proxy"
    BY <2>1 DEF Proper, P!Secrets, P!Keyed
  <2>3. P!Over(r.edit, c).key = c.key /\ P!Over(r.edit, c).legacy = c.legacy
    BY OverIs DEF P!Fields
  <2>4. CASE P!Over(r.edit, c).crypt = "proxy"
    BY <2>1, <2>2, <2>3, <2>4, PreservedIs DEF P!PreservedKey, P!Nulls
  <2>5. CASE P!Over(r.edit, c).crypt # "proxy"
    BY <2>1, <2>2, <2>3, <2>5, PreservedIs DEF P!PreservedLegacy, P!PromotedKey, P!Nulls
  <2> QED BY <2>4, <2>5
<1> QED BY <1>1, <1>2

\* What an entry of req is, apart from what it has done.
Shape(x) ==
    /\ DOMAIN x = DOMAIN P!Idle
    /\ x.pc \in {"idle", "ready", "row"} \cup P!Holding
    /\ x.pc \in P!Holding \cup {"ready"} =>
          /\ \E r \in Edits : x.by = r.by /\ x.edit = r.edit
          /\ \A f \in P!Secrets : x.doc[f] = None

LEMMA IdleShape == Shape(P!Idle) /\ P!Idle.pc = "idle"
  BY DEF Shape, P!Idle, P!Holding

\* The requests of the others, when this one has the lock or nobody has.
LEMMA OnlyOne ==
  ASSUME P!ApplyInv, NEW c \in Editors, lock \in {c, None}, None \notin Editors,
         NEW d \in Editors, d # c
  PROVE  req[d].pc \notin P!Holding
  BY DEF P!ApplyInv, P!Holds

\* A request comes to its end.
LEMMA Released ==
  ASSUME P!Setting, P!ApplyInv, NEW c \in Editors, NEW x, req' = [req EXCEPT ![c] = x], Shape(x),
         x.pc \notin P!Holding, lock \in {c, None}, lock' = None, up' = up,
         P!Keyed(cfg'), P!Keyed(file'), ~torn' /\ up => P!Serves(cfg)'
  PROVE  P!ApplyInv'
<1>1. \A d \in Editors : d # c => req[d].pc \notin P!Holding
  BY OnlyOne DEF P!Setting
<1>2. DOMAIN req' = Editors /\ \A d \in Editors : req'[d] = IF d = c THEN x ELSE req[d]
  BY DEF P!ApplyInv
<1>3. ASSUME NEW d \in Editors PROVE Shape(req'[d]) /\ req'[d].pc \notin P!Holding
  BY <1>1, <1>2 DEF P!ApplyInv, Shape
<1> QED BY <1>2, <1>3 DEF P!ApplyInv, Shape

\* A request goes on with the lock.
LEMMA GoesOn ==
  ASSUME P!Setting, P!ApplyInv, NEW c \in Editors, NEW x, req' = [req EXCEPT ![c] = x], Shape(x),
         x.pc \in P!Holding, lock \in {c, None}, lock' = c,
         P!Keyed(cfg'), P!Keyed(file'), P!Holds(c)', torn' \/ P!Serves(P!Built(c))'
  PROVE  P!ApplyInv'
<1>1. \A d \in Editors : d # c => req[d].pc \notin P!Holding
  BY OnlyOne DEF P!Setting
<1>2. DOMAIN req' = Editors /\ \A d \in Editors : req'[d] = IF d = c THEN x ELSE req[d]
  BY DEF P!ApplyInv
<1>3. ASSUME NEW d \in Editors PROVE Shape(req'[d]) /\ (d # c => req'[d].pc \notin P!Holding)
  BY <1>1, <1>2 DEF P!ApplyInv, Shape
<1>4. up' /\ c # None
  BY DEF P!Holds, P!Setting
<1> QED BY <1>2, <1>3, <1>4 DEF P!ApplyInv, Shape

\* A request without the lock moves, and nothing else.
LEMMA Aside ==
  ASSUME P!ApplyInv, NEW c \in Editors, NEW x, req' = [req EXCEPT ![c] = x], Shape(x),
         req[c].pc \notin P!Holding, x.pc \notin P!Holding,
         UNCHANGED <<cfg, file, engine, prefix, chain, lock, up, torn>>
  PROVE  P!ApplyInv'
<1>1. DOMAIN req' = Editors /\ \A d \in Editors : req'[d] = IF d = c THEN x ELSE req[d]
  BY DEF P!ApplyInv
<1>2. ASSUME NEW d \in Editors PROVE Shape(req'[d])
  BY <1>1 DEF P!ApplyInv, Shape
<1>3. ASSUME NEW d \in Editors, req'[d].pc \in P!Holding
      PROVE  P!Holds(d)' /\ (torn' \/ P!Serves(P!Built(d))')
  <2>1. req'[d] = req[d]
    BY <1>1, <1>3
  <2>2. P!Holds(d) /\ (torn \/ P!Serves(P!Built(d)))
    BY <1>3, <2>1 DEF P!ApplyInv
  <2>3. P!Holds(d)'
    BY <2>1, <2>2 DEF P!Holds
  <2>4. (torn \/ P!Serves(P!Built(d))) => (torn' \/ P!Serves(P!Built(d))')
    BY <2>1 DEF P!Serves, P!Built
  <2> QED BY <2>2, <2>3, <2>4
<1>4. lock' # None => lock' \in Editors /\ req'[lock'].pc \in P!Holding
  <2>1. lock # None => lock # c
    BY DEF P!ApplyInv
  <2> QED BY <1>1, <2>1 DEF P!ApplyInv
<1>5. /\ P!Keyed(cfg') /\ P!Keyed(file') /\ (~up' => lock' = None)
      /\ up' /\ lock' = None /\ ~torn' => P!Serves(cfg)'
  BY DEF P!ApplyInv, P!Keyed, P!Serves, P!EngineOf
<1> QED BY <1>1, <1>2, <1>3, <1>4, <1>5 DEF P!ApplyInv, Shape

LEMMA ApplyStarts == ASSUME P!Setting, P!Init PROVE P!ApplyInv
<1>1. DOMAIN req = Editors /\ \A c \in Editors : Shape(req[c]) /\ req[c].pc = "idle"
  BY IdleShape DEF P!Init
<1> QED BY <1>1 DEF P!Init, P!Setting, P!ApplyInv, Shape, P!Serves, P!Holding

LEMMA PrepareKeeps == ASSUME P!ApplyInv, NEW c \in Editors, P!Prepare(c) PROVE P!ApplyInv'
<1>1. PICK r \in Edits :
        req' = [req EXCEPT ![c] = [P!Idle EXCEPT !.pc = "ready", !.by = r.by, !.edit = r.edit,
                                                 !.doc = P!export_config(cfg)]]
  BY DEF P!Prepare, P!Step
<1> DEFINE x == [P!Idle EXCEPT !.pc = "ready", !.by = r.by, !.edit = r.edit,
                               !.doc = P!export_config(cfg)]
<1>2. x.pc = "ready" /\ x.by = r.by /\ x.edit = r.edit /\ x.doc = P!export_config(cfg)
      /\ DOMAIN x = DOMAIN P!Idle
  BY DEF P!Idle
<1>3. \A f \in P!Secrets : P!export_config(cfg)[f] = None
  BY DEF P!export_config, P!Secrets, P!Fields
<1> HIDE DEF x
<1>4. Shape(x) /\ x.pc \notin P!Holding
  BY <1>2, <1>3 DEF Shape, P!Holding
<1>5. req' = [req EXCEPT ![c] = x]
  BY <1>1 DEF x
<1>6. /\ req[c].pc \notin P!Holding
      /\ UNCHANGED <<cfg, file, engine, prefix, chain, lock, up, torn>>
  BY DEF P!Prepare, P!Holding, P!runtime
<1> QED BY <1>4, <1>5, <1>6, Aside

LEMMA UserKeeps ==
  ASSUME P!ApplyInv, NEW c \in Editors, P!require_not_declarative(c) \/ P!create_user(c)
  PROVE  P!ApplyInv'
<1>1. /\ req[c].pc \notin P!Holding
      /\ UNCHANGED <<cfg, file, engine, prefix, chain, lock, up, torn>>
  BY DEF P!require_not_declarative, P!create_user, P!Holding, P!runtime
<1>2. CASE P!require_not_declarative(c)
  <2> DEFINE x == [P!Idle EXCEPT !.pc = "row", !.by = "user"]
  <2>1. Shape(x) /\ x.pc \notin P!Holding
    BY DEF Shape, P!Idle, P!Holding
  <2>2. req' = [req EXCEPT ![c] = x]
    BY <1>2 DEF P!require_not_declarative, P!Step
  <2> QED BY <1>1, <2>1, <2>2, Aside
<1>3. CASE P!create_user(c)
  <2>1. req' = [req EXCEPT ![c] = P!Idle]
    BY <1>3 DEF P!create_user, P!Step
  <2> QED BY <1>1, <2>1, Aside, IdleShape DEF P!Holding
<1> QED BY <1>2, <1>3

LEMMA RequestedSame ==
  ASSUME NEW r, NEW q, NEW old, r.by = q.by, r.edit = q.edit, r.doc = q.doc
  PROVE  P!Requested(r, old) = P!Requested(q, old)
  BY DEF P!Requested, P!merge_patch_section

\* What is known of the request that has the lock.
LEMMA AtWork ==
  ASSUME P!Setting, P!ApplyInv, NEW c \in Editors, req[c].pc \in P!Holding
  PROVE  /\ Shape(req[c]) /\ P!Holds(c) /\ Proper(req[c]) /\ lock = c
         /\ P!Keyed(req[c].old) /\ P!Keyed(req[c].new)
         /\ req[c].by \notin P!Gated => req[c].new.public = req[c].old.public
         /\ torn \/ P!Serves(P!Built(c))
<1>1. Shape(req[c]) /\ P!Holds(c) /\ (torn \/ P!Serves(P!Built(c)))
  BY DEF P!ApplyInv, Shape
<1>2. Proper(req[c])
  BY ProperRequest
<1>3. /\ req[c].new = P!Requested(req[c], req[c].old) /\ P!Keyed(req[c].old) /\ lock = c
  BY <1>1 DEF P!Holds
<1>4. req[c].by \notin P!Gated => req[c].new.public = req[c].old.public
  BY <1>2, <1>3, RequestedInPlace DEF Proper, P!Fields
<1> QED BY <1>1, <1>2, <1>3, <1>4, RequestedKeyed

\* It takes its next step.
LEMMA Moves ==
  ASSUME P!Setting, P!ApplyInv, NEW c \in Editors, req[c].pc \in P!Holding, NEW p \in P!Holding,
         req' = [req EXCEPT ![c] = [req[c] EXCEPT !.pc = p]], UNCHANGED <<cfg, file, lock, up>>,
         p = "create" => req[c].by = "bucket", p = "db" => req[c].by \in P!Gated,
         NEW b, b = IF p \in {"gate", "build"} THEN req[c].old ELSE req[c].new,
         torn' \/ (engine' = P!EngineOf(b) /\ prefix' = b.public /\ chain' = b.public)
  PROVE  P!ApplyInv'
<1> DEFINE x == [req[c] EXCEPT !.pc = p]
<1>1. Shape(req[c]) /\ P!Holds(c) /\ lock = c
  BY AtWork
<1>2. /\ DOMAIN x = DOMAIN req[c] /\ x.pc = p /\ x.by = req[c].by /\ x.edit = req[c].edit
      /\ x.doc = req[c].doc /\ x.old = req[c].old /\ x.new = req[c].new
  BY <1>1 DEF Shape, P!Idle
<1>3. req' = [req EXCEPT ![c] = x] /\ req'[c] = x
  BY DEF P!ApplyInv
<1> HIDE DEF x
<1>4. Shape(x) /\ x.pc \in P!Holding
  BY <1>1, <1>2 DEF Shape
<1>5. P!Holds(c)'
  <2>1. P!Requested(x, x.old) = P!Requested(req[c], req[c].old)
    BY <1>2, RequestedSame
  <2> QED BY <1>1, <1>2, <1>3, <2>1 DEF P!Holds
<1>6. torn' \/ P!Serves(P!Built(c))'
  BY <1>2, <1>3 DEF P!Serves, P!Built
<1>7. P!Keyed(cfg') /\ P!Keyed(file')
  BY DEF P!ApplyInv
<1> QED BY <1>1, <1>3, <1>4, <1>5, <1>6, <1>7, GoesOn

\* It ends with a configuration in memory that is in service.
LEMMA Ends ==
  ASSUME P!Setting, P!ApplyInv, NEW c \in Editors, req[c].pc \in P!Holding,
         req' = [req EXCEPT ![c] = P!Idle], lock' = None, up' = up, P!Keyed(cfg'), P!Keyed(file'),
         torn' \/ (engine' = P!EngineOf(cfg') /\ prefix' = cfg'.public /\ chain' = cfg'.public)
  PROVE  P!ApplyInv'
<1>1. lock = c
  BY AtWork
<1>2. ~torn' /\ up => P!Serves(cfg)'
  BY DEF P!Serves
<1> QED BY <1>1, <1>2, Released, IdleShape DEF P!Holding

LEMMA LockKeeps == ASSUME P!Setting, P!ApplyInv, NEW c \in Editors, P!Lock(c) PROVE P!ApplyInv'
<1> DEFINE n == P!Requested(req[c], cfg)
           p == IF req[c].by \in P!Gated THEN "gate" ELSE "build"
           x == [req[c] EXCEPT !.pc = p, !.old = cfg, !.new = n]
<1>1. /\ req' = [req EXCEPT ![c] = x] /\ cfg' = IF req[c].by \in P!InPlace THEN n ELSE cfg
      /\ up /\ lock = None /\ lock' = c /\ req[c].pc = "ready"
      /\ UNCHANGED <<file, engine, prefix, chain, up, torn>>
  BY DEF P!Lock, P!Step, P!runtime
<1>2. Proper(req[c]) /\ P!Keyed(cfg) /\ P!Keyed(file) /\ (torn \/ P!Serves(cfg))
      /\ Shape(req[c]) /\ DOMAIN req = Editors
  BY <1>1, ProperRequest DEF P!ApplyInv, Shape
<1>3. P!Keyed(n)
  BY <1>2, RequestedKeyed
<1>4. /\ DOMAIN x = DOMAIN req[c] /\ x.pc = p /\ x.by = req[c].by /\ x.edit = req[c].edit
      /\ x.doc = req[c].doc /\ x.old = cfg /\ x.new = n
  BY <1>2 DEF Shape, P!Idle
<1>5. p \in {"gate", "build"} /\ req'[c] = x
  BY <1>1, <1>2
<1> HIDE DEF n, p, x
<1>6. P!Requested(x, cfg) = n
  <2>1. P!Requested(x, cfg) = P!Requested(req[c], cfg)
    BY <1>4, RequestedSame
  <2> QED BY <2>1 DEF n
<1>7. Shape(x) /\ x.pc \in P!Holding
  BY <1>1, <1>2, <1>4, <1>5 DEF Shape, P!Holding
<1>8. P!Holds(c)'
  BY <1>1, <1>2, <1>4, <1>5, <1>6 DEF P!Holds
<1>9. torn' \/ P!Serves(P!Built(c))'
  BY <1>1, <1>2, <1>4, <1>5 DEF P!Serves, P!Built
<1> QED BY <1>1, <1>2, <1>3, <1>7, <1>8, <1>9, GoesOn

LEMMA GateKeeps == ASSUME P!Setting, P!ApplyInv, NEW c \in Editors, P!Gate(c) PROVE P!ApplyInv'
<1>1. /\ req[c].pc = "gate" /\ UNCHANGED <<file, engine, prefix, chain, up, torn>>
  BY DEF P!Gate, P!runtime
<1>2. req[c].pc \in P!Holding
  BY <1>1 DEF P!Holding
<1>3. /\ P!Keyed(req[c].old) /\ P!Keyed(file)
      /\ torn \/ (engine = P!EngineOf(req[c].old) /\ prefix = req[c].old.public /\ chain = req[c].old.public)
  BY <1>1, <1>2, AtWork DEF P!Serves, P!Built, P!ApplyInv
<1>4. CASE P!GiveUp(c)
  BY <1>1, <1>2, <1>3, <1>4, Ends DEF P!GiveUp, P!Step
<1>5. CASE req' = [req EXCEPT ![c] = [req[c] EXCEPT !.pc = "build"]] /\ UNCHANGED <<cfg, lock>>
  BY <1>1, <1>2, <1>3, <1>5, Moves DEF P!Holding
<1> QED BY <1>4, <1>5 DEF P!Gate, P!Step

\* The engine is rebuilt when a field that it depends on changed.
LEMMA SameEngine ==
  ASSUME NEW old, NEW n, ~P!engine_affecting_fields_changed(old, n)
  PROVE  P!EngineOf(old) = P!EngineOf(n)
  BY DEF P!engine_affecting_fields_changed, P!EngineOf

LEMMA BuildKeeps == ASSUME P!Setting, P!ApplyInv, NEW c \in Editors, P!Build(c) PROVE P!ApplyInv'
<1> DEFINE old == req[c].old
           n == req[c].new
<1>1. req[c].pc = "build" /\ UNCHANGED <<file, up>>
  BY DEF P!Build
<1>2. req[c].pc \in P!Holding
  BY <1>1 DEF P!Holding
<1>3. /\ P!Keyed(old) /\ P!Keyed(file) /\ (req[c].by \notin P!Gated => n.public = old.public)
      /\ torn \/ (engine = P!EngineOf(old) /\ prefix = old.public /\ chain = old.public)
      /\ req[c].by \notin P!Gated => cfg = n
  BY <1>1, <1>2, AtWork DEF P!Serves, P!Built, P!ApplyInv, P!Holds, Proper
<1>4. CASE req[c].by \in P!Gated
  <2>1. P!apply_config_transition(c, old, n) /\ torn' = torn
    BY <1>4 DEF P!Build, P!apply_config_transition
  <2>2. CASE P!GiveUp(c) /\ UNCHANGED <<engine, prefix, chain>>
    BY <1>1, <1>2, <1>3, <2>1, <2>2, Ends DEF P!GiveUp, P!Step
  <2>3. CASE ~(P!GiveUp(c) /\ UNCHANGED <<engine, prefix, chain>>)
    <3>1. /\ engine' = IF P!engine_affecting_fields_changed(old, n) THEN P!EngineOf(n) ELSE engine
          /\ old.public # n.public => prefix' = n.public /\ chain' = n.public
          /\ old.public = n.public => UNCHANGED <<prefix, chain>>
          /\ \E p \in {"db", "save"} : req' = [req EXCEPT ![c] = [req[c] EXCEPT !.pc = p]]
          /\ UNCHANGED <<cfg, lock>>
      BY <2>1, <2>3 DEF P!apply_config_transition, P!rebuild_bucket_derived_snapshots, P!Step, P!runtime
    <3>2. torn' \/ (engine' = P!EngineOf(n) /\ prefix' = n.public /\ chain' = n.public)
      BY <1>3, <2>1, <3>1, SameEngine
    <3>3. PICK p \in {"db", "save"} : req' = [req EXCEPT ![c] = [req[c] EXCEPT !.pc = p]]
      BY <3>1
    <3>4. p \in P!Holding /\ p # "create" /\ n = IF p \in {"gate", "build"} THEN old ELSE n
      BY DEF P!Holding
    <3> HIDE DEF n, old
    <3> QED BY <1>1, <1>2, <1>4, <3>1, <3>2, <3>3, <3>4, Moves DEF n, old
  <2> QED BY <2>2, <2>3
<1>5. CASE req[c].by \notin P!Gated
  <2>1. P!rebuild_engine_only(c) /\ UNCHANGED <<prefix, chain, torn>>
    BY <1>5 DEF P!Build, P!rebuild_engine_only
  <2>2. CASE P!RollBack(c) /\ UNCHANGED engine
    BY <1>1, <1>2, <1>3, <2>1, <2>2, Ends DEF P!RollBack, P!GiveUp, P!Step
  <2>3. CASE ~(P!RollBack(c) /\ UNCHANGED engine)
    <3>1. /\ engine' = P!EngineOf(cfg) /\ UNCHANGED <<cfg, lock>>
          /\ req' = [req EXCEPT ![c] = [req[c] EXCEPT !.pc =
                                           IF req[c].by = "bucket" THEN "create" ELSE "save"]]
      BY <2>1, <2>3 DEF P!rebuild_engine_only, P!Step
    <3> DEFINE p == IF req[c].by = "bucket" THEN "create" ELSE "save"
    <3>2. torn' \/ (engine' = P!EngineOf(n) /\ prefix' = n.public /\ chain' = n.public)
      BY <1>3, <1>5, <2>1, <3>1
    <3>3. /\ p \in P!Holding /\ (p = "create" => req[c].by = "bucket") /\ p # "db"
          /\ n = IF p \in {"gate", "build"} THEN old ELSE n
      BY DEF P!Holding
    <3>4. req' = [req EXCEPT ![c] = [req[c] EXCEPT !.pc = p]]
      BY <3>1
    <3> HIDE DEF n, old, p
    <3> QED BY <1>1, <1>2, <3>1, <3>2, <3>3, <3>4, Moves DEF n, old
  <2> QED BY <2>2, <2>3
<1> QED BY <1>4, <1>5

LEMMA CreateKeeps ==
  ASSUME P!Setting, P!ApplyInv, NEW c \in Editors, P!create_bucket(c) PROVE P!ApplyInv'
<1> DEFINE old == req[c].old
           n == req[c].new
<1>1. req[c].pc = "create" /\ UNCHANGED <<file, prefix, chain, up>>
  BY DEF P!create_bucket
<1>2. req[c].pc \in P!Holding
  BY <1>1 DEF P!Holding
<1>3. /\ P!Keyed(old) /\ P!Keyed(file) /\ n.public = old.public
      /\ torn \/ (engine = P!EngineOf(n) /\ prefix = n.public /\ chain = n.public)
  BY <1>1, <1>2, AtWork DEF P!Serves, P!Built, P!ApplyInv, P!Holds, P!Gated
<1>4. CASE P!Unwind(c)
  BY <1>1, <1>2, <1>3, <1>4, Ends DEF P!Unwind, P!GiveUp, P!Step
<1>5. CASE /\ req' = [req EXCEPT ![c] = [req[c] EXCEPT !.pc = "save"]]
           /\ UNCHANGED <<cfg, lock, engine, torn>>
  BY <1>1, <1>2, <1>3, <1>5, Moves DEF P!Holding
<1> QED BY <1>4, <1>5 DEF P!create_bucket, P!Step

LEMMA ReconcileKeeps ==
  ASSUME P!Setting, P!ApplyInv, NEW c \in Editors, P!reconcile_declarative_iam(c) PROVE P!ApplyInv'
<1>1. req[c].pc = "db" /\ UNCHANGED <<file, engine, prefix, chain, up>>
  BY DEF P!reconcile_declarative_iam
<1>2. req[c].pc \in P!Holding
  BY <1>1 DEF P!Holding
<1>3. /\ P!Keyed(req[c].old) /\ P!Keyed(file)
      /\ torn \/ (engine = P!EngineOf(req[c].new) /\ prefix = req[c].new.public
                    /\ chain = req[c].new.public)
  BY <1>1, <1>2, AtWork DEF P!Serves, P!Built, P!ApplyInv
<1>4. CASE P!GiveUp(c) /\ torn' = TRUE
  BY <1>1, <1>2, <1>3, <1>4, Ends DEF P!GiveUp, P!Step
<1>5. CASE /\ req' = [req EXCEPT ![c] = [req[c] EXCEPT !.pc = "save"]]
           /\ UNCHANGED <<cfg, lock, torn>>
  BY <1>1, <1>2, <1>3, <1>5, Moves DEF P!Holding
<1> QED BY <1>4, <1>5 DEF P!reconcile_declarative_iam, P!Step

LEMMA PersistKeeps ==
  ASSUME P!Setting, P!ApplyInv, NEW c \in Editors, P!persist_to_file(c) PROVE P!ApplyInv'
<1> DEFINE old == req[c].old
           n == req[c].new
<1>1. req[c].pc = "save" /\ UNCHANGED <<prefix, chain, up>>
  BY DEF P!persist_to_file
<1>2. req[c].pc \in P!Holding
  BY <1>1 DEF P!Holding
<1>3. /\ P!Keyed(old) /\ P!Keyed(n) /\ P!Keyed(file)
      /\ req[c].by \notin P!Gated => n.public = old.public
      /\ torn \/ (engine = P!EngineOf(n) /\ prefix = n.public /\ chain = n.public)
  BY <1>1, <1>2, AtWork DEF P!Serves, P!Built, P!ApplyInv
<1>4. CASE cfg' = n /\ UNCHANGED <<engine, torn>> /\ file' \in {n, file} /\ lock' = None /\ P!Step(c, P!Idle)
  BY <1>1, <1>2, <1>3, <1>4, Ends DEF P!Step
<1>5. CASE /\ req[c].by = "strict" /\ P!GiveUp(c) /\ UNCHANGED file
           /\ \/ engine' = P!EngineOf(old) /\ UNCHANGED torn
              \/ torn' = TRUE
  <2>1. n.public = old.public
    BY <1>3, <1>5 DEF P!Gated
  <2> QED BY <1>1, <1>2, <1>3, <1>5, <2>1, Ends DEF P!GiveUp, P!Step
<1> QED BY <1>4, <1>5 DEF P!persist_to_file

LEMMA CancelKeeps == ASSUME P!Setting, P!ApplyInv, NEW c \in Editors, P!Cancel(c) PROVE P!ApplyInv'
<1>1. /\ req[c].pc \in {"gate", "build", "create", "db"} /\ lock' = None
      /\ req' = [req EXCEPT ![c] = P!Idle]
      /\ torn' = (torn \/ req[c].by \in P!InPlace \/ req[c].pc = "db")
      /\ UNCHANGED <<cfg, file, engine, prefix, chain, up>>
  BY DEF P!Cancel, P!Step, P!runtime
<1>2. req[c].pc \in P!Holding
  BY <1>1 DEF P!Holding
<1>3. P!Keyed(cfg') /\ P!Keyed(file')
  BY <1>1 DEF P!ApplyInv
<1>4. torn' \/ (engine' = P!EngineOf(cfg') /\ prefix' = cfg'.public /\ chain' = cfg'.public)
  <2> SUFFICES ASSUME ~torn' PROVE P!Serves(cfg)
    BY <1>1 DEF P!Serves
  <2>1. ~torn /\ req[c].by \notin P!InPlace /\ req[c].pc # "db"
    BY <1>1
  <2>2. P!Holds(c) /\ P!Serves(P!Built(c))
    BY <1>2, <2>1, AtWork
  <2>3. req[c].pc \in {"gate", "build"} /\ cfg = req[c].old
    BY <1>1, <2>1, <2>2 DEF P!Holds, P!InPlace
  <2> QED BY <2>2, <2>3 DEF P!Built
<1> QED BY <1>1, <1>2, <1>3, <1>4, Ends

\* The process dies, and starts from the file.
LEMMA RestartKeeps == ASSUME P!ApplyInv, P!Crash \/ P!Boot PROVE P!ApplyInv'
<1>1. CASE P!Crash
  <2>1. DOMAIN req' = Editors /\ \A c \in Editors : Shape(req'[c]) /\ req'[c].pc = "idle"
    BY <1>1, IdleShape DEF P!Crash
  <2>2. P!Keyed(cfg') /\ P!Keyed(file') /\ ~up' /\ lock' = None
    BY <1>1 DEF P!Crash, P!ApplyInv
  <2> QED BY <2>1, <2>2 DEF P!ApplyInv, Shape, P!Holding
<1>2. CASE P!Boot
  <2>1. ~up /\ up' /\ UNCHANGED <<file, lock, req>> /\ cfg' = file
        /\ engine' = P!EngineOf(file) /\ prefix' = file.public /\ chain' = file.public
    BY <1>2 DEF P!Boot
  <2>2. lock = None /\ P!Keyed(file) /\ DOMAIN req = Editors
        /\ \A c \in Editors : Shape(req[c]) /\ req[c].pc \notin P!Holding
    BY <2>1 DEF P!ApplyInv, P!Holds, Shape
  <2>3. P!Serves(cfg)'
    BY <2>1 DEF P!Serves
  <2> QED BY <2>1, <2>2, <2>3 DEF P!ApplyInv, Shape
<1> QED BY <1>1, <1>2

LEMMA ApplyNext == ASSUME P!Setting, P!ApplyInv, P!Next PROVE P!ApplyInv'
  BY PrepareKeeps, LockKeeps, GateKeeps, BuildKeeps, CreateKeeps, ReconcileKeeps, PersistKeeps,
     CancelKeeps, UserKeeps, RestartKeeps DEF P!Next, P!Handle

\* Where the configuration in memory changes, and to what.
LEMMA MemoryChanges ==
  ASSUME P!Setting, P!ApplyInv, P!Next, cfg' # cfg
  PROVE  \/ ~up
         \/ lock # None /\ cfg' = req[lock].old
         \/ \E c \in Editors : /\ lock \in {c, None} /\ req[c].pc \in {"ready", "save"}
                                /\ Proper(req[c]) /\ cfg' = P!Requested(req[c], cfg)
<1>1. CASE P!Crash \/ P!Boot
  BY <1>1 DEF P!Crash, P!Boot
<1>2. ASSUME NEW c \in Editors, P!Lock(c)
      PROVE  lock = None /\ req[c].pc = "ready" /\ Proper(req[c]) /\ cfg' = P!Requested(req[c], cfg)
  BY <1>2, ProperRequest DEF P!Lock
<1>3. ASSUME NEW c \in Editors, req[c].pc \in P!Holding, cfg' = req[c].old
      PROVE  lock # None /\ cfg' = req[lock].old
  BY <1>3, AtWork DEF P!Setting
<1>4. ASSUME NEW c \in Editors, req[c].pc = "save", cfg' = req[c].new
      PROVE  lock = c /\ Proper(req[c]) /\ cfg' = P!Requested(req[c], cfg)
  <2>1. req[c].pc \in P!Holding
    BY <1>4 DEF P!Holding
  <2>2. P!Holds(c) /\ Proper(req[c])
    BY <2>1, AtWork
  <2> QED BY <1>4, <2>2 DEF P!Holds
<1>5. ASSUME NEW c \in Editors, P!Handle(c), ~P!Lock(c)
      PROVE  \/ req[c].pc \in P!Holding /\ cfg' = req[c].old
             \/ req[c].pc = "save" /\ cfg' = req[c].new
  BY <1>5 DEF P!Handle, P!Prepare, P!Gate, P!Build, P!apply_config_transition, P!rebuild_engine_only,
     P!RollBack, P!create_bucket, P!Unwind, P!reconcile_declarative_iam, P!persist_to_file, P!Cancel,
     P!require_not_declarative, P!create_user, P!GiveUp, P!Holding
<1> QED BY <1>1, <1>2, <1>3, <1>4, <1>5 DEF P!Next

\* A field changes because its request touches it, and the key that encrypts is not lost.
LEMMA EditStep == ASSUME P!Setting, P!ApplyInv, P!Next PROVE P!EditsKept /\ P!KeyRetained
<1>1. P!Keyed(cfg)
  BY DEF P!ApplyInv
<1>2. ASSUME NEW f \in P!Fields, cfg'[f] # cfg[f]
      PROVE  \/ ~up
             \/ lock # None /\ cfg' = req[lock].old
             \/ \E c \in Editors : lock \in {c, None} /\ req[c].pc \in {"ready", "save"}
                                    /\ P!Touches(req[c], f)
  <2>1. cfg' # cfg
    BY <1>2
  <2> QED BY <1>1, <1>2, <2>1, MemoryChanges, RequestedTouches
<1>3. P!KeyRetained
  <2> SUFFICES ASSUME cfg' # cfg, up, cfg.key # None, cfg.legacy = None,
                      ~(lock # None /\ cfg' = req[lock].old)
               PROVE  \/ cfg.key \in {cfg'.key, cfg'.legacy}
                      \/ \E c \in Editors : lock \in {c, None} /\ req[c].pc \in {"ready", "save"}
                                             /\ {"key", "legacy"} \cap DOMAIN req[c].edit # {}
    BY DEF P!KeyRetained
  <2>1. PICK c \in Editors : /\ lock \in {c, None} /\ req[c].pc \in {"ready", "save"}
                             /\ Proper(req[c]) /\ cfg' = P!Requested(req[c], cfg)
    BY MemoryChanges
  <2> QED BY <1>1, <2>1, RequestedRetains
<1> QED BY <1>2, <1>3 DEF P!EditsKept

\* Whichever doors are taken at the same time, however old a form or document is when it is
\* sent, whichever rebuild or save fails and wherever the process dies: a change touches what
\* it names, no blanked secret and no key in use is lost, and configuration, engine and
\* snapshots belong together unless a change was cut off in its middle (api/admin/config).
THEOREM EditsStay == NodeSpec => EditsKept
<1> DEFINE Inv == part = "apply" => P!ApplyInv
<1>1. NodeInit => Inv
  BY ApplyStarts, NodeSettings DEF NodeInit
<1>2. Inv /\ [NodeNext]_all => Inv'
  <2> SUFFICES ASSUME part = "apply" => P!ApplyInv, [NodeNext]_all, part' = "apply" PROVE P!ApplyInv'
    OBVIOUS
  <2>1. CASE part = "apply" /\ P!Next /\ InApply
    BY <2>1, ApplyNext, NodeSettings
  <2>2. CASE UNCHANGED all
    BY <2>2 DEF all, ApplyVars, P!ApplyInv, P!Holds, P!Serves, P!Built, P!Keyed
  <2> QED BY <2>1, <2>2 DEF NodeNext, InMirror, InTable, InRetain, InKey, InMaint
<1>3. Inv /\ [NodeNext]_all =>
        [part = "apply" => P!EditsKept /\ P!KeyRetained /\ (P!AppliedTogether)']_all
  <2> SUFFICES ASSUME P!ApplyInv, P!Next
               PROVE  P!EditsKept /\ P!KeyRetained /\ (P!AppliedTogether)'
    BY DEF NodeNext
  <2>1. P!ApplyInv'
    BY ApplyNext, NodeSettings
  <2>2. (P!AppliedTogether)'
    BY <2>1 DEF P!ApplyInv, P!AppliedTogether, P!Serves
  <2> QED BY <2>2, EditStep, NodeSettings
<1> QED BY <1>1, <1>2, <1>3, PTL DEF NodeSpec, EditsKept
-----------------------------------------------------------------------------
(***************************************************************************)
(* The maintenance jobs on a bucket (M).  Most steps of the worker are of  *)
(* one of four shapes, each with a lemma: it ends (Ending, Stopping), goes *)
(* on within a page (Going), or turns to another page or phase (Turning).  *)
(***************************************************************************)

\* The bucket stays where it is.
SameRoute == /\ DOMAIN conf' = DOMAIN conf /\ conf'.bucket = conf.bucket
             /\ DOMAIN file' = DOMAIN file /\ file'.bucket = file.bucket

\* The row is the same but for its progress.
SameJob == /\ DOMAIN job' = DOMAIN M!NoJob /\ job'.status = job.status /\ job'.lease = job.lease
           /\ job'.kind = job.kind /\ job'.key = job.key

\* Objects, gate, requests and counters stay as they are.
OthersSame == UNCHANGED <<disk, enc, gate, writer, acked, writes, migrates, stalls>>

\* A transient route does not move the bucket.
LEMMA RouteSame == ASSUME M!DataInv, NEW r \in {"stage", "sweep"}, M!EnsureRoute(r) PROVE SameRoute
  BY DEF M!DataInv, M!EnsureRoute, M!Apply, SameRoute, M!config

\* The worker hands an outcome to run_job, its last progress persisted.
LEMMA Ending ==
  ASSUME M!Setting, M!JobInv, NEW out \in M!Outcomes, M!Ends(out), SameRoute, OthersSame,
         w.pc \notin {"idle", "release", "end", "flipped"}, out = "lost" => stalls > 0,
         SameJob, job'.phase = job.phase, job'.tok \in Nat, job'.bad \in Nat,
         job'.bad >= job.bad, job.phase = "verify" => job'.tok = job.tok \/ stalls > 0,
         conf.bucket = "A" /\ enc = job.key /\ job'.bad = 0 =>
            /\ job.phase = "objects" => \A k \in Ranked : k <= job'.tok => M!Clean(k)
            /\ out = "completed" /\ job.kind # "migrate" =>
                  (\A k \in Ranked : M!Clean(k)) /\ (job.kind = "reencrypt" => ref' = enc)
  PROVE  M!JobInv'
<1>0. /\ M!DataInv /\ M!RowInv /\ M!GateInv /\ M!RouteInv /\ M!PageInv
      /\ M!CopyInv /\ M!CleanInv /\ M!NoLostWrite
  BY DEF M!JobInv
<1>w. /\ DOMAIN w' = DOMAIN M!Idle /\ w'.pc = "end" /\ w'.out = out
      /\ w'.bad = w.bad /\ w'.want = w.want
  BY <1>0 DEF M!RowInv, M!Ends, M!Idle
<1>s. job.status \in {"running", "cancelling"} /\ M!Active(job) /\ M!Active(job')
  BY <1>0 DEF M!RowInv, M!Active, SameJob
<1> USE DEF SameRoute, OthersSame, SameJob, M!Looping, M!Moved
<1>1. M!DataInv'
  BY <1>0 DEF M!DataInv
<1>2. M!RowInv'
  BY <1>0, <1>w DEF M!RowInv, M!Active
<1>3. M!GateInv'
  BY <1>0, <1>w, <1>s DEF M!GateInv, M!Closed
<1>4. M!RouteInv'
  BY <1>0, <1>w, <1>s DEF M!RouteInv, M!RowInv, M!AtWork
<1>5. M!PageInv'
  BY <1>w DEF M!PageInv
<1>6. M!CopyInv'
  BY <1>0, <1>w, <1>s DEF M!CopyInv, M!OnB, M!Content
<1>7. M!CleanInv'
  BY <1>0, <1>w, <1>s DEF M!CleanInv, M!Clean, M!Ended, M!RowInv
<1>8. M!NoLostWrite'
  BY <1>0 DEF M!NoLostWrite, M!ServesLastWrite, M!Content
<1> QED BY <1>1, <1>2, <1>3, <1>4, <1>5, <1>6, <1>7, <1>8 DEF M!JobInv

\* It fails or is cancelled with its row as it was.
LEMMA Stopping ==
  ASSUME M!Setting, M!JobInv, NEW out \in {"failed", "cancelled"}, M!Ends(out), SameRoute, OthersSame,
         job' = job,
         w.pc \notin {"idle", "release", "end", "flipped"}
  PROVE  M!JobInv'
<1>0. M!DataInv /\ M!RowInv /\ M!CleanInv
  BY DEF M!JobInv
<1>1. SameJob /\ M!Active(job) /\ job.bad \in Nat /\ job.tok \in Nat
  BY <1>0 DEF SameJob, M!RowInv, M!Active
<1>2. job.phase = "objects" => job.kind \in {"reencrypt", "backfill"}
  BY <1>0, <1>1 DEF M!RowInv, M!Copying
<1>3. conf.bucket = "A" /\ enc = job.key /\ job.bad = 0 /\ job.phase = "objects" =>
        \A k \in Ranked : k <= job.tok => M!Clean(k)
  BY <1>0, <1>1, <1>2 DEF M!CleanInv
<1> QED BY <1>1, <1>3, Ending DEF M!Outcomes

\* It goes on to another step of the same page.
LEMMA Going ==
  ASSUME M!Setting, M!JobInv, SameRoute, OthersSame, job' = job,
         DOMAIN w' = DOMAIN M!Idle, w'.phase = w.phase,
         w'.bad \in Nat, w'.bad >= w.bad, w'.want \in Nat,
         w.pc \notin {"idle", "release", "end", "flip", "flipped"},
         w'.pc \in M!AtWork(job), w'.pc \notin {"drain", "stage", "flip", "flipped"},
         w'.pc = "drain_stage" => w.pc = "stage",
         w'.pc \in M!Looping => w'.tok = job.tok /\ (w.pc \in M!Looping \/ M!Closed),
         w'.pc \in {"look", "put", "drop"} \/ (w'.pc = "tail" /\ w'.more) => w'.key \in Ranked,
         w'.pc = "put" => w'.obj \in M!Objects /\ job.phase # "verify",
         w'.pc \in {"list", "look", "put"} => job.key <= w'.want /\ w'.want <= enc,
         w'.pc \in {"look", "put"} => w'.eng.bucket = conf.bucket,
         M!PageInv',
         w'.pc = "tail" /\ w'.key # None =>
            /\ stalls = 0 /\ migrates <= 1 /\ conf.bucket = "A" /\ job.phase = "verify" => M!OnB(w'.key)
            /\ conf.bucket = "A" /\ enc = job.key /\ job.phase = "objects" /\ w'.bad = 0 => M!Clean(w'.key)
  PROVE  M!JobInv'
<1>0. /\ M!DataInv /\ M!RowInv /\ M!GateInv /\ M!RouteInv /\ M!PageInv
      /\ M!CopyInv /\ M!CleanInv /\ M!NoLostWrite
  BY DEF M!JobInv
<1>a. w'.pc \notin {"idle", "release", "end"}
  BY DEF M!AtWork, M!Looping
<1> USE DEF SameRoute, OthersSame
<1>1. M!DataInv'
  BY <1>0 DEF M!DataInv
<1>2. M!RowInv'
  BY <1>0, <1>a DEF M!RowInv, M!AtWork, M!Active
<1>3. M!GateInv'
  BY <1>0, <1>a DEF M!GateInv, M!Closed, M!Looping
<1>4. M!RouteInv'
  BY <1>0, <1>a DEF M!RouteInv, M!RowInv, M!AtWork, M!Looping, M!Moved
<1>6. M!CopyInv'
  BY <1>0, <1>a DEF M!CopyInv, M!OnB, M!Content
<1>7. M!CleanInv'
  BY <1>0, <1>a DEF M!CleanInv, M!Clean, M!Ended, M!RowInv
<1>8. M!NoLostWrite'
  BY <1>0 DEF M!NoLostWrite, M!ServesLastWrite, M!Content
<1> QED BY <1>1, <1>2, <1>3, <1>4, <1>6, <1>7, <1>8 DEF M!JobInv

\* It persists its progress and goes on with another page or phase.
LEMMA Turning ==
  ASSUME M!Setting, M!JobInv, SameRoute, OthersSame, SameJob, w.pc \notin {"idle", "release", "end"},
         DOMAIN w' = DOMAIN M!Idle, w'.want \in Nat, w'.phase = job'.phase, w'.tok = job'.tok,
         w'.bad = w.bad, job'.bad = w.bad, job'.tok \in Nat,
         w'.pc \in M!AtWork(job'), w'.pc \in {"page", "references", "flip", "cleanup"},
         job.kind = "migrate" => job'.phase \in M!Copying \cup {"cleanup"},
         job.kind # "migrate" => job'.phase \in M!Sweeping,
         job.kind = "backfill" => job'.phase # "references",
         job'.phase = "cleanup" => conf.bucket = "B",
         job'.phase \in {"copy", "verify"} => conf.bucket = "A",
         job'.phase \in M!Sweeping \/ (job'.phase \in M!Copying /\ stalls = 0) => M!Closed,
         stalls = 0 /\ migrates <= 1 /\ conf.bucket = "A" /\ job'.phase \in M!Copying =>
            /\ \A k \in Ranked : disk.B[k] # None => disk.B[k].c = M!Content(disk.A[k])
            /\ job'.phase = "verify" => \A k \in Ranked : k <= job'.tok => M!OnB(k)
            /\ job'.phase = "flip" => \A k \in Ranked : M!OnB(k),
         conf.bucket = "A" /\ enc = job.key /\ w.bad = 0 =>
            /\ job'.phase = "objects" => \A k \in Ranked : k <= job'.tok => M!Clean(k)
            /\ job'.phase = "references" => \A k \in Ranked : M!Clean(k)
  PROVE  M!JobInv'
<1>0. /\ M!DataInv /\ M!RowInv /\ M!GateInv /\ M!RouteInv /\ M!PageInv
      /\ M!CopyInv /\ M!CleanInv /\ M!NoLostWrite
  BY DEF M!JobInv
<1>s. job.status \in {"running", "cancelling"} /\ M!Active(job) /\ M!Active(job')
  BY <1>0 DEF M!RowInv, M!Active, SameJob
<1> USE DEF SameRoute, OthersSame, SameJob
<1>1. M!DataInv'
  BY <1>0 DEF M!DataInv
<1>2. M!RowInv'
  BY <1>0, <1>s DEF M!RowInv, M!Looping
<1>3. M!GateInv'
  BY <1>0, <1>s DEF M!GateInv, M!Closed, M!Looping, M!RowInv
<1>4. M!RouteInv'
  BY <1>0, <1>s DEF M!RouteInv, M!AtWork, M!Looping, M!Moved, M!Copying
<1>5. M!PageInv'
  BY DEF M!PageInv
<1>6. M!CopyInv'
  BY <1>0, <1>s DEF M!CopyInv, M!OnB, M!Content, M!Copying, M!Sweeping, M!RowInv, M!RouteInv
<1>7. M!CleanInv'
  BY <1>0, <1>s DEF M!CleanInv, M!Clean, M!Ended
<1>8. M!NoLostWrite'
  BY <1>0 DEF M!NoLostWrite, M!ServesLastWrite, M!Content
<1> QED BY <1>1, <1>2, <1>3, <1>4, <1>5, <1>6, <1>7, <1>8 DEF M!JobInv

\* No write is in flight once the drain is over, and none is admitted since.
LEMMA DrainKeeps == ASSUME M!Setting, M!JobInv, M!Drain PROVE M!JobInv'
<1>0. M!DataInv /\ M!RowInv /\ M!GateInv /\ M!RouteInv /\ M!CopyInv /\ M!CleanInv
  BY DEF M!JobInv
<1>f. SameRoute /\ OthersSame /\ ref' = ref
  BY <1>0 DEF M!Drain, SameRoute, OthersSame, M!store, M!config, M!clients, M!rest
<1>r. w.pc \in {"drain", "drain_stage"} /\ "bucket" \in gate /\ job.status \in {"running", "cancelling"}
      /\ w.pc \in M!AtWork(job) /\ w.phase = job.phase
  BY <1>0 DEF M!Drain, M!RowInv, M!GateInv
<1>1. CASE M!InFlight # {} /\ M!Ends("failed") /\ UNCHANGED job
  BY <1>1, <1>f, <1>r, Stopping
<1>c. CASE M!Drained
  <2>1. M!Closed
    BY <1>c, <1>r DEF M!Drained, M!InFlight, M!Closed, M!Setting
  <2>2. CASE w.pc = "drain_stage"
    <3>1. job.phase = "stage" /\ job.kind = "migrate"
      BY <1>0, <1>r, <2>2 DEF M!RowInv, M!AtWork, M!Looping, M!Sweeping, M!Active
    <3>2. M!Progress("copy", 0, w.bad) /\ w' = M!NewPhase("copy")
      BY <1>c, <1>r, <2>2, <1>0 DEF M!Drain, M!Drained
    <3>3. SameJob /\ job'.phase = "copy" /\ job'.tok = 0 /\ job'.bad = w.bad
      BY <3>2, <1>0, <1>r DEF M!Progress, SameJob, M!RowInv, M!NoJob
    <3>4. /\ DOMAIN w' = DOMAIN M!Idle /\ w'.pc = "page" /\ w'.phase = "copy" /\ w'.tok = 0
          /\ w'.bad = w.bad /\ w'.want = w.want
      BY <3>2, <1>0 DEF M!NewPhase, M!NextPage, M!RowInv, M!Idle
    <3>5. conf.bucket = "A" /\ (stalls = 0 /\ migrates <= 1 => \A k \in Ranked : disk.B[k] = None)
      BY <1>0, <3>1, <1>r DEF M!RouteInv, M!CopyInv, M!Active
    <3>6. w'.want \in Nat /\ w.bad \in Nat /\ "page" \in M!AtWork(job')
      BY <1>0, <3>3, <3>4 DEF M!RowInv, M!AtWork, M!Looping
    <3> QED BY <1>f, <1>r, <2>1, <3>1, <3>3, <3>4, <3>5, <3>6, Turning DEF M!Copying, M!Sweeping
  <2>3. CASE w.pc = "drain"
    <3>1. job' = job /\ w' = [w EXCEPT !.pc = IF w.phase = "references" THEN "references" ELSE "page"]
      BY <1>c, <1>r, <2>3 DEF M!Drain, M!Drained
    <3>2. DOMAIN w' = DOMAIN M!Idle /\ w'.pc = (IF w.phase = "references" THEN "references" ELSE "page")
          /\ w'.phase = w.phase /\ w'.tok = w.tok /\ w'.bad = w.bad /\ w'.want = w.want
      BY <3>1, <1>0 DEF M!RowInv, M!Idle
    <3>3. w'.pc \in M!AtWork(job) /\ w.tok = job.tok
      BY <1>0, <1>r, <2>3, <3>2 DEF M!AtWork, M!Looping, M!RowInv
    <3>4. M!PageInv'
      BY <3>2 DEF M!PageInv
    <3> QED BY <1>0, <1>f, <1>r, <2>1, <2>3, <3>1, <3>2, <3>3, <3>4, Going DEF M!RowInv
  <2> QED BY <1>r, <2>2, <2>3
<1> QED BY <1>1, <1>c DEF M!Drain

\* The staging route is made before anything is copied.
LEMMA StageKeeps == ASSUME M!Setting, M!JobInv, M!Stage PROVE M!JobInv'
<1>0. M!DataInv /\ M!RowInv /\ M!GateInv /\ M!RouteInv /\ M!CleanInv
  BY DEF M!JobInv
<1>f. SameRoute /\ OthersSame /\ ref' = ref /\ job' = job
  BY <1>0, RouteSame DEF M!Stage, SameRoute, OthersSame, M!store, M!config, M!clients, M!rest
<1>r. w.pc = "stage" /\ "stage" \in M!AtWork(job) /\ w.phase = job.phase
  BY <1>0 DEF M!Stage, M!RowInv
<1>1. CASE M!Ends("cancelled") \/ M!Ends("failed")
  BY <1>1, <1>f, <1>r, Stopping
<1>2. CASE w' = [w EXCEPT !.pc = "drain_stage"]
  <2>1. DOMAIN w' = DOMAIN M!Idle /\ w'.pc = "drain_stage" /\ w'.phase = w.phase /\ w'.bad = w.bad
        /\ w'.want = w.want
    BY <1>0, <1>2 DEF M!RowInv, M!Idle
  <2>2. "drain_stage" \in M!AtWork(job) /\ "drain_stage" \notin M!Looping
    BY <1>r DEF M!AtWork, M!Looping
  <2>3. M!PageInv'
    BY <2>1 DEF M!PageInv
  <2> QED BY <1>0, <1>f, <1>r, <2>1, <2>2, <2>3, Going DEF M!RowInv
<1> QED BY <1>1, <1>2 DEF M!Stage

\* A page begins with the key in use.
LEMMA BeginPageKeeps == ASSUME M!Setting, M!JobInv, M!BeginPage PROVE M!JobInv'
<1>0. M!DataInv /\ M!RowInv /\ M!CleanInv
  BY DEF M!JobInv
<1>f. SameRoute /\ OthersSame /\ ref' = ref /\ job' = job
  BY <1>0, RouteSame DEF M!BeginPage, SameRoute, OthersSame, M!store, M!config, M!clients, M!rest
<1>r. w.pc = "page" /\ "page" \in M!AtWork(job) /\ w.phase = job.phase
  BY <1>0 DEF M!BeginPage, M!RowInv
<1>1. CASE M!Ends("cancelled") \/ M!Ends("failed")
  BY <1>1, <1>f, <1>r, Stopping
<1>2. CASE w' = [w EXCEPT !.pc = "list", !.n = @ + 1, !.want = enc]
  <2>1. DOMAIN w' = DOMAIN M!Idle /\ w'.pc = "list" /\ w'.phase = w.phase /\ w'.bad = w.bad
        /\ w'.want = enc /\ w'.tok = w.tok
    BY <1>0, <1>2 DEF M!RowInv, M!Idle
  <2>2. "list" \in M!AtWork(job) /\ "page" \in M!Looping
    BY <1>r DEF M!AtWork, M!Looping
  <2>3. M!PageInv'
    BY <2>1 DEF M!PageInv
  <2>4. enc \in Nat /\ job.key <= enc /\ w.tok = job.tok /\ w.bad \in Nat /\ enc <= enc
    BY <1>0, <1>r DEF M!DataInv, M!CleanInv, M!RowInv, M!Looping
  <2> QED BY <1>f, <1>r, <2>1, <2>2, <2>3, <2>4, Going
<1> QED BY <1>1, <1>2 DEF M!BeginPage

\* The first key of a page, and whether there are more.
LEMMA PageIs ==
  ASSUME M!Setting, NEW S, S \subseteq Ranked
  PROVE  /\ S # {} => M!Least(S) \in S /\ \A k \in S : M!Least(S) <= k
         /\ ~(M!Cardinality(S) > 1) => \A j \in S, k \in S : j = k
         /\ S = {} => ~(M!Cardinality(S) > 1)
<1>1. S # {} => M!Least(S) \in S /\ \A k \in S : M!Least(S) <= k
  BY Least DEF M!Least, M!Setting
<1>2. IsFiniteSet(S)
  <2>1. IsFiniteSet(Ranked)
    BY DEF M!Setting, M!IsFiniteSet, IsFiniteSet
  <2> QED BY <2>1, FS_Subset
<1>3. S = {} => ~(Cardinality(S) > 1)
  BY FS_EmptySet
<1>4. ASSUME ~(Cardinality(S) > 1), NEW j \in S, NEW k \in S, j # k PROVE FALSE
  <2>1. IsFiniteSet({j, k}) /\ Cardinality({j, k}) <= Cardinality(S)
    BY <1>2, FS_Subset
  <2>2. Cardinality({j, k}) = 2
    <3>1. IsFiniteSet({k}) /\ Cardinality({k}) = 1
      BY FS_Singleton
    <3>2. Cardinality({k} \cup {j}) = Cardinality({k}) + 1
      BY <1>4, <3>1, FS_AddElement
    <3>3. {k} \cup {j} = {j, k}
      OBVIOUS
    <3> QED BY <3>1, <3>2, <3>3
  <2>3. Cardinality(S) \in Nat
    BY <1>2, FS_CardinalityType
  <2> QED BY <1>4, <2>1, <2>2, <2>3
<1>5. M!Cardinality(S) = Cardinality(S)
  BY DEF M!Cardinality, Cardinality, M!IsFiniteSet, IsFiniteSet
<1> QED BY <1>1, <1>3, <1>4, <1>5

\* The page is the first key after the token, and nothing is between the two.
LEMMA ListKeeps == ASSUME M!Setting, M!JobInv, M!ListPage PROVE M!JobInv'
<1>0. M!DataInv /\ M!RowInv /\ M!GateInv /\ M!RouteInv /\ M!CopyInv /\ M!CleanInv
  BY DEF M!JobInv
<1>f. SameRoute /\ OthersSame
  BY <1>0 DEF M!ListPage, SameRoute, OthersSame, M!store, M!config, M!clients, M!rest
<1>r. /\ w.pc = "list" /\ "list" \in M!AtWork(job) /\ w.phase = job.phase /\ w.tok = job.tok
      /\ job.status \in {"running", "cancelling"} /\ w.bad >= job.bad
      /\ job.phase \in {"counting", "objects", "copy", "verify"}
  BY <1>0 DEF M!ListPage, M!RowInv, M!Looping, M!AtWork
<1>1. CASE M!Ends("failed") /\ UNCHANGED job
  BY <1>1, <1>f, <1>r, Stopping
<1>2. CASE M!Progress(w.phase, 0, w.bad) /\ w' = M!NewPhase(w.phase)
  <2>1. SameJob /\ job'.phase = job.phase /\ job'.tok = 0 /\ job'.bad = w.bad
    BY <1>0, <1>2, <1>r DEF M!Progress, SameJob, M!RowInv, M!NoJob
  <2>2. /\ DOMAIN w' = DOMAIN M!Idle /\ w'.pc = "page" /\ w'.phase = w.phase /\ w'.tok = 0
        /\ w'.bad = w.bad /\ w'.want = w.want
    BY <1>0, <1>2 DEF M!NewPhase, M!NextPage, M!RowInv, M!Idle
  <2>3. w'.want \in Nat /\ "page" \in M!AtWork(job') /\ M!Active(job)
    BY <1>0, <1>r, <2>1, <2>2 DEF M!RowInv, M!AtWork, M!Looping, M!Active
  <2>4. \A k \in Ranked : ~(k <= 0)
    BY DEF M!Setting
  <2>5. /\ job.kind = "migrate" => job.phase \in M!Copying
        /\ job.kind # "migrate" => job.phase \in M!Sweeping /\ job.phase # "references"
        /\ job.phase \in {"copy", "verify"} => conf.bucket = "A"
        /\ job.phase \in M!Sweeping \/ (job.phase \in M!Copying /\ stalls = 0) => M!Closed
    BY <1>0, <1>r, <2>3 DEF M!RowInv, M!RouteInv, M!GateInv, M!Copying, M!Sweeping, M!Looping
  <2>6. stalls = 0 /\ migrates <= 1 /\ conf.bucket = "A" /\ job.phase \in M!Copying =>
          \A k \in Ranked : disk.B[k] # None => disk.B[k].c = M!Content(disk.A[k])
    BY <1>0, <2>3 DEF M!CopyInv
  <2> QED BY <1>f, <1>r, <2>1, <2>2, <2>3, <2>4, <2>5, <2>6, Turning DEF M!Copying, M!Sweeping
<1>3. CASE /\ UNCHANGED job
           /\ \E ks \in {M!After(conf.bucket, w.tok)} :
               w' = [w EXCEPT !.eng = conf, !.key = IF ks = {} THEN None ELSE M!Least(ks),
                              !.more = M!Cardinality(ks) > 1,
                              !.pc = IF ks = {} \/ w.phase = "counting" THEN "tail"
                                     ELSE "look"]
  <2> DEFINE ks == M!After(conf.bucket, w.tok)
  <2>1. ks \subseteq Ranked /\ \A k \in Ranked : k \in ks <=> k > w.tok /\ disk[conf.bucket][k] # None
    BY DEF M!After
  <2> HIDE DEF ks
  <2>2. /\ w'.eng = conf /\ w'.key = (IF ks = {} THEN None ELSE M!Least(ks))
        /\ w'.more = (M!Cardinality(ks) > 1) /\ DOMAIN w' = DOMAIN M!Idle
        /\ w'.pc = (IF ks = {} \/ w.phase = "counting" THEN "tail" ELSE "look")
        /\ w'.phase = w.phase /\ w'.tok = w.tok /\ w'.bad = w.bad /\ w'.want = w.want
    BY <1>0, <1>3 DEF M!RowInv, M!Idle, ks
  <2>3. /\ ks # {} => w'.key \in ks /\ \A k \in ks : w'.key <= k
        /\ ~w'.more => \A j \in ks, k \in ks : j = k
        /\ ks = {} => ~w'.more
    <3>1. w'.more <=> M!Cardinality(ks) > 1
      BY <2>2, Zenon
    <3>2. /\ ks # {} => M!Least(ks) \in ks /\ \A k \in ks : M!Least(ks) <= k
          /\ ~(M!Cardinality(ks) > 1) => \A j \in ks, k \in ks : j = k
          /\ ks = {} => ~(M!Cardinality(ks) > 1)
      BY <2>1, PageIs
    <3>3. ks # {} => w'.key = M!Least(ks)
      BY <2>2
    <3> QED BY <3>1, <3>2, <3>3
  <2>4. None \notin Ranked /\ Ranked \subseteq Nat /\ w.tok \in Nat
    <3>1. w.tok \in Nat
      BY <1>0, <1>r DEF M!RowInv
    <3>2. None \notin Ranked /\ Ranked \subseteq Nat
      BY DEF M!Setting
    <3> QED BY <3>1, <3>2
  <2>5. M!PageInv'
    <3>1. CASE ks = {}
      BY <1>f, <2>1, <2>2, <2>3, <2>4, <3>1 DEF M!PageInv, M!Nothing, SameRoute, OthersSame
    <3>2. CASE ks # {}
      <4>1. w'.key \in Ranked /\ w'.key > w.tok /\ w'.key # None
        BY <2>1, <2>3, <2>4, <3>2
      <4>2. \A k \in Ranked : w.tok < k /\ k < w'.key => disk[conf.bucket][k] = None
        <5> SUFFICES ASSUME NEW k \in Ranked, w.tok < k, k < w'.key PROVE k \notin ks
          BY <2>1, <2>4
        <5>1. k \in ks => w'.key <= k
          BY <2>3, <3>2
        <5>3. k \in Nat /\ w'.key \in Nat
          BY <2>4, <4>1
        <5> QED BY <5>1, <5>3
      <4>3. ~w'.more => \A k \in Ranked : k > w'.key => disk[conf.bucket][k] = None
        <5>4. w'.key \in Nat /\ w.tok \in Nat /\ w'.key > w.tok /\ \A k \in Ranked : k \in Nat
          BY <2>4, <4>1
        <5>2. \A k \in Ranked : k > w'.key => k > w.tok
          BY <5>4
        <5> SUFFICES ASSUME ~w'.more, NEW k \in Ranked, k > w'.key PROVE k \notin ks
          BY <2>1, <5>2
        <5>1. k \in ks => w'.key = k
          BY <2>3, <3>2
        <5>3. k \in Nat /\ w'.key \in Nat
          BY <2>4, <4>1
        <5> QED BY <5>1, <5>3
      <4> QED BY <1>f, <2>2, <4>1, <4>2, <4>3 DEF M!PageInv, M!Nothing, SameRoute, OthersSame
    <3> QED BY <3>1, <3>2
  <2>6. w'.pc \in M!AtWork(job) /\ "list" \in M!Looping
    BY <1>r, <2>2 DEF M!AtWork, M!Looping
  <2>7. w'.bad \in Nat /\ w'.bad >= w.bad /\ w'.want \in Nat
    BY <1>0, <2>2 DEF M!RowInv
  <2>8. w'.pc \in {"look"} \/ (w'.pc = "tail" /\ w'.more) => w'.key \in Ranked
    BY <2>1, <2>2, <2>3
  <2>9. w'.pc = "tail" /\ w'.key # None => job.phase = "counting"
    BY <1>r, <2>2
  <2>10. job.key <= w'.want /\ w'.want <= enc
    BY <1>0, <1>r, <2>2 DEF M!CleanInv
  <2> QED BY <1>3, <1>f, <1>r, <2>2, <2>5, <2>6, <2>7, <2>8, <2>9, <2>10, Going
<1> QED BY <1>1, <1>2, <1>3 DEF M!ListPage

\* An object that is passed over is clean, or on the target.
LEMMA LookKeeps == ASSUME M!Setting, M!JobInv, M!Look PROVE M!JobInv'
<1>0. M!DataInv /\ M!RowInv /\ M!RouteInv /\ M!PageInv /\ M!CleanInv
  BY DEF M!JobInv
<1>f. SameRoute /\ OthersSame /\ job' = job
  BY <1>0 DEF M!Look, SameRoute, OthersSame, M!store, M!config, M!clients, M!rest
<1>r. /\ w.pc = "look" /\ "look" \in M!AtWork(job) /\ w.phase = job.phase /\ w.tok = job.tok
      /\ w.key \in Ranked /\ w.eng.bucket = conf.bucket /\ M!Active(job)
      /\ job.key <= w.want /\ w.want <= enc /\ {w.want, w.bad, job.key} \subseteq Nat
  BY <1>0 DEF M!Look, M!RowInv, M!RouteInv, M!CleanInv, M!Looping, M!Active
<1> DEFINE o == disk[w.eng.bucket][w.key]
<1>o. o = disk[conf.bucket][w.key] /\ o \in M!Objects \cup {None} /\ (o # None => o.sha \in {0, o.c})
  BY <1>0, <1>r DEF M!DataInv, M!Places
<1> HIDE DEF o
<1>1. CASE M!Ends("failed")
  BY <1>1, <1>f, <1>r, Stopping
<1>2. CASE w' = [w EXCEPT !.pc = "tail"] \/ w' = [w EXCEPT !.pc = "tail", !.bad = @ + 1]
  <2>1. /\ DOMAIN w' = DOMAIN M!Idle /\ w'.pc = "tail" /\ w'.phase = w.phase /\ w'.tok = w.tok
        /\ w'.want = w.want /\ w'.key = w.key /\ w'.more = w.more
        /\ w'.bad \in {w.bad, w.bad + 1}
    BY <1>0, <1>2 DEF M!RowInv, M!Idle
  <2>2. "tail" \in M!AtWork(job) /\ w.pc \in M!Looping
    BY <1>r DEF M!AtWork, M!Looping
  <2>3. M!PageInv'
    BY <1>0, <1>f, <1>r, <2>1 DEF M!PageInv, M!Nothing, SameRoute, OthersSame, M!Undisturbed
  <2>4. job.phase = "verify" => M!OnB(w.key)
    <3>1. job.phase = "verify" => M!OnTarget(w.eng, w.key)
      BY <1>0, <1>2, <1>r, <2>1 DEF M!Look, M!Ends, M!RowInv, M!Idle
    <3> QED BY <3>1 DEF M!OnTarget, M!OnB
  <2>5. conf.bucket = "A" /\ enc = job.key /\ job.phase = "objects" /\ w'.bad = 0 => M!Clean(w.key)
    <3> SUFFICES ASSUME conf.bucket = "A", enc = job.key, job.phase = "objects", w'.bad = 0
                 PROVE  M!Clean(w.key)
      OBVIOUS
    <3>1. job.kind \in {"reencrypt", "backfill"} /\ w.bad = 0
      BY <1>0, <1>r, <2>1 DEF M!RowInv, M!Copying
    <3>2. ASSUME w' = [w EXCEPT !.pc = "tail", !.bad = @ + 1] PROVE FALSE
      <4>1. w'.bad = w.bad + 1
        BY <1>0, <3>2 DEF M!RowInv, M!Idle
      <4> QED BY <3>1, <4>1
    <3>3. o # None /\ ~M!Wanted(o)
      BY <1>0, <1>r, <2>1, <3>2 DEF M!Look, M!Ends, M!RowInv, M!Idle, o
    <3>4. w.want = enc
      BY <1>0, <1>r DEF M!DataInv
    <3> QED BY <1>o, <1>r, <3>1, <3>3, <3>4 DEF M!Wanted, M!NeedsRewrite, M!NeedsMetadataBackfill,
               M!Clean
  <2> QED BY <1>f, <1>r, <2>1, <2>2, <2>3, <2>4, <2>5, Going
<1>3. CASE o # None /\ w' = [w EXCEPT !.pc = "put", !.obj = o]
  <2>1. /\ DOMAIN w' = DOMAIN M!Idle /\ w'.pc = "put" /\ w'.phase = w.phase /\ w'.tok = w.tok
        /\ w'.want = w.want /\ w'.key = w.key /\ w'.more = w.more /\ w'.eng = w.eng
        /\ w'.bad = w.bad /\ w'.obj = o
    BY <1>0, <1>3 DEF M!RowInv, M!Idle
  <2>2. "put" \in M!AtWork(job) /\ w.pc \in M!Looping
    BY <1>r DEF M!AtWork, M!Looping
  <2>3. M!PageInv'
    BY <1>0, <1>3, <1>f, <1>o, <1>r, <2>1 DEF M!PageInv, M!Nothing, SameRoute, OthersSame, M!Undisturbed
  <2>4. job.phase # "verify"
    <3>1. job.phase = "verify" => M!Ends("failed") \/ w' = [w EXCEPT !.pc = "tail"]
      BY <1>r DEF M!Look
    <3>2. "pc" \in DOMAIN w
      BY <1>0 DEF M!RowInv, M!Idle
    <3> QED BY <2>1, <3>1, <3>2 DEF M!Ends
  <2> QED BY <1>3, <1>f, <1>o, <1>r, <2>1, <2>2, <2>3, <2>4, Going
<1> QED BY <1>1, <1>2, <1>3 DEF M!Look, o

\* An object is put where a page found it, or its copy on the target.
LEMMA Putting ==
  ASSUME M!Setting, M!JobInv, w.pc = "put", SameJob, job' = job, conf' = conf, file' = file,
         UNCHANGED <<enc, gate, writer, acked, writes, migrates, stalls>>,
         w' = [w EXCEPT !.pc = "tail"],
         NEW b \in {"A", "B"}, NEW new \in M!Objects, new.c = w.obj.c, new.sha = new.c,
         disk' \in [A : M!Places, B : M!Places],
         \A a \in {"A", "B"}, k \in Ranked : disk'[a][k] = IF a = b /\ k = w.key THEN new ELSE disk[a][k],
         IF job.phase = "copy" THEN b = "B" ELSE b = conf.bucket,
         job.kind = "reencrypt" /\ b = "A" => new.enc = enc
  PROVE  M!JobInv'
<1>0. /\ M!DataInv /\ M!RowInv /\ M!GateInv /\ M!RouteInv /\ M!PageInv
      /\ M!CopyInv /\ M!CleanInv /\ M!NoLostWrite
  BY DEF M!JobInv
<1>w. /\ DOMAIN w' = DOMAIN M!Idle /\ w'.pc = "tail" /\ w'.phase = w.phase /\ w'.tok = w.tok
      /\ w'.key = w.key /\ w'.more = w.more /\ w'.bad = w.bad /\ w'.want = w.want /\ w'.eng = w.eng
  BY <1>0 DEF M!RowInv, M!Idle
<1>r. /\ M!Active(job) /\ w.key \in Ranked /\ w.phase = job.phase /\ w.pc \in M!AtWork(job)
      /\ job.phase \in {"counting", "objects", "copy"} /\ new # None /\ w.key # None
      /\ job.phase = "copy" <=> job.kind = "migrate"
      /\ job.kind = "migrate" => conf.bucket = "A"
      /\ job.kind \in {"reencrypt", "backfill", "migrate"}
  BY <1>0 DEF M!RowInv, M!RouteInv, M!Active, M!AtWork, M!Looping, M!Setting, M!Copying, M!Sweeping
<1>p. M!Undisturbed => w.obj # None /\ w.obj = disk[conf.bucket][w.key] /\ M!Closed
  BY <1>0, <1>r DEF M!PageInv, M!GateInv, M!Undisturbed, M!Looping, M!Copying
<1>d. /\ \A k \in Ranked : k # w.key => disk'.A[k] = disk.A[k] /\ disk'.B[k] = disk.B[k]
      /\ b = "A" => disk'.A[w.key] = new /\ disk'.B[w.key] = disk.B[w.key]
      /\ b = "B" => disk'.B[w.key] = new /\ disk'.A[w.key] = disk.A[w.key]
  BY <1>r
<1>1. M!DataInv'
  BY <1>0, <1>d, <1>r DEF M!DataInv
<1>2. M!RowInv'
  BY <1>0, <1>r, <1>w DEF M!RowInv, M!AtWork, M!Looping, M!Active
<1>3. M!GateInv'
  BY <1>0, <1>w DEF M!GateInv, M!Closed, M!Looping
<1>4. M!RouteInv'
  BY <1>0, <1>w DEF M!RouteInv, M!Moved
<1>k. M!Undisturbed => \A k \in Ranked : disk'[conf.bucket][k] = None <=> disk[conf.bucket][k] = None
  BY <1>0, <1>p, <1>r DEF M!DataInv
<1>5. M!PageInv'
  BY <1>0, <1>k, <1>r, <1>w DEF M!PageInv, M!Nothing, M!Undisturbed
<1>6. M!CopyInv'
  <2> SUFFICES ASSUME stalls = 0, migrates <= 1, conf.bucket = "A" PROVE M!CopyInv'
    BY DEF M!CopyInv
  <2>1. CASE job.phase = "copy"
    BY <1>0, <1>d, <1>p, <1>r, <1>w, <2>1 DEF M!CopyInv, M!Content, M!Undisturbed, M!RouteInv, M!Copying
  <2>2. CASE job.phase # "copy"
    BY <1>0, <1>d, <1>p, <1>r, <1>w, <2>2 DEF M!CopyInv, M!OnB, M!Content, M!Undisturbed,
       M!RouteInv, M!Copying
  <2> QED BY <2>1, <2>2
<1>7. M!CleanInv'
  <2>1. job.kind \in {"reencrypt", "backfill"} /\ conf.bucket = "A" => M!Clean(w.key)'
    BY <1>d, <1>r DEF M!Clean
  <2>2. \A k \in Ranked : job.kind \in {"reencrypt", "backfill"} /\ conf.bucket = "A" => (M!Clean(k) => M!Clean(k)')
    BY <1>d, <2>1 DEF M!Clean
  <2>3. ~M!Ended'
    BY <1>0, <1>r, <1>w DEF M!Ended, M!RowInv
  <2> QED BY <1>0, <1>r, <1>w, <2>1, <2>2, <2>3 DEF M!CleanInv
<1>8. M!NoLostWrite'
  <2>1. stalls = 0 => \A k \in Ranked : M!Content(disk[conf.bucket][k])' = M!Content(disk[conf.bucket][k])
    BY <1>0, <1>p, <1>r DEF M!Content, M!Undisturbed, M!DataInv
  <2> QED BY <1>0, <2>1 DEF M!NoLostWrite, M!ServesLastWrite
<1> QED BY <1>1, <1>2, <1>3, <1>4, <1>5, <1>6, <1>7, <1>8 DEF M!JobInv

\* A rewrite, a copy or a metadata write, and its failure.
LEMMA RewriteKeeps == ASSUME M!Setting, M!JobInv, M!Put PROVE M!JobInv'
<1>0. M!DataInv /\ M!RowInv /\ M!RouteInv /\ M!GateInv /\ M!PageInv /\ M!CleanInv
  BY DEF M!JobInv
<1>f. /\ conf' = conf /\ file' = file /\ UNCHANGED <<enc, gate, writer, acked, writes, migrates, stalls>>
      /\ SameRoute
  BY DEF M!Put, SameRoute, M!config, M!clients, M!rest
<1>r. /\ w.pc = "put" /\ "put" \in M!AtWork(job) /\ w.phase = job.phase /\ w.tok = job.tok
      /\ w.key \in Ranked /\ w.eng.bucket = conf.bucket /\ M!Active(job) /\ w.obj \in M!Objects
      /\ job.phase # "verify"
      /\ {w.want, w.bad, job.key, job.bad} \subseteq Nat /\ w.bad >= job.bad /\ w.want <= enc /\ job.key <= w.want
      /\ job.status \in {"running", "cancelling"} /\ conf.bucket \in {"A", "B"}
  BY <1>0 DEF M!Put, M!DataInv, M!RowInv, M!RouteInv, M!CleanInv, M!Looping, M!Active
<1>1. CASE /\ job' = job /\ w' = [w EXCEPT !.pc = "tail"] /\ w.phase = "copy"
           /\ disk' = [disk EXCEPT !.B[w.key] = M!Stored("B", w.obj.c)]
  <2>1. /\ M!Stored("B", w.obj.c) \in M!Objects /\ M!Stored("B", w.obj.c).c = w.obj.c
        /\ M!Stored("B", w.obj.c).sha = w.obj.c
    BY <1>r DEF M!Stored, M!Objects
  <2>2. /\ disk' \in [A : M!Places, B : M!Places]
        /\ \A a \in {"A", "B"}, k \in Ranked :
              disk'[a][k] = IF a = "B" /\ k = w.key THEN M!Stored("B", w.obj.c) ELSE disk[a][k]
    BY <1>0, <1>1, <1>r, <2>1 DEF M!DataInv, M!Places
  <2>3. job.kind # "reencrypt"
    BY <1>0, <1>1, <1>r DEF M!RowInv, M!Sweeping
  <2> QED BY <1>1, <1>f, <1>r, <2>1, <2>2, <2>3, Putting, <1>0 DEF SameJob, M!RowInv
<1>2. CASE /\ job' = job /\ w' = [w EXCEPT !.pc = "tail"] /\ w.phase # "copy"
           /\ disk' = [disk EXCEPT ![w.eng.bucket][w.key] =
                         IF job.kind = "backfill" /\ @ = None THEN None ELSE M!Written(@)]
  <2> DEFINE old == disk[conf.bucket][w.key]
             new == IF job.kind = "backfill" /\ old = None THEN None ELSE M!Written(old)
  <2>1. job.kind = "backfill" => old = w.obj /\ old # None
    BY <1>0, <1>r DEF M!PageInv, M!Undisturbed
  <2>2. /\ new \in M!Objects /\ new.c = w.obj.c /\ new.sha = w.obj.c
        /\ job.kind = "reencrypt" /\ conf.bucket = "A" => new.enc = enc
    <3>1. CASE job.kind = "backfill"
      BY <1>r, <2>1, <3>1 DEF M!Written, M!Objects
    <3>2. CASE job.kind # "backfill"
      BY <1>0, <1>r, <3>2 DEF M!Written, M!Objects, M!Stored, M!DataInv
    <3> QED BY <3>1, <3>2
  <2>3. disk' = [disk EXCEPT ![conf.bucket][w.key] = new]
    BY <1>2, <1>r
  <2> HIDE DEF new
  <2>4. /\ disk' \in [A : M!Places, B : M!Places]
        /\ \A a \in {"A", "B"}, k \in Ranked :
              disk'[a][k] = IF a = conf.bucket /\ k = w.key THEN new ELSE disk[a][k]
    BY <1>0, <1>r, <2>2, <2>3 DEF M!DataInv, M!Places
  <2> QED BY <1>2, <1>f, <1>r, <2>2, <2>4, Putting, <1>0 DEF SameJob, M!RowInv
<1>3. CASE UNCHANGED disk /\ M!Progress("copy", 0, w.bad + 1) /\ M!Ends("failed") /\ w.phase = "copy"
  <2>1. /\ SameJob /\ job'.phase = job.phase /\ job'.tok = 0 /\ job'.bad = w.bad + 1
    BY <1>0, <1>3, <1>r DEF M!Progress, SameJob, M!RowInv, M!NoJob
  <2>2. OthersSame /\ job'.bad \in Nat /\ job'.bad >= job.bad
    BY <1>3, <1>f, <1>r, <2>1 DEF OthersSame
  <2> QED BY <1>3, <1>f, <1>r, <2>1, <2>2, Ending DEF M!Outcomes
<1>4. CASE /\ UNCHANGED disk /\ job' = job /\ w.phase # "copy"
           /\ w' = [w EXCEPT !.pc = "tail", !.bad = @ + 1]
  <2>1. /\ DOMAIN w' = DOMAIN M!Idle /\ w'.pc = "tail" /\ w'.phase = w.phase /\ w'.tok = w.tok
        /\ w'.want = w.want /\ w'.key = w.key /\ w'.more = w.more /\ w'.bad = w.bad + 1
    BY <1>0, <1>4 DEF M!RowInv, M!Idle
  <2>2. "tail" \in M!AtWork(job) /\ w.pc \in M!Looping
    BY <1>r DEF M!AtWork, M!Looping
  <2>3. M!PageInv'
    BY <1>0, <1>4, <1>f, <1>r, <2>1 DEF M!PageInv, M!Nothing, M!Undisturbed
  <2>4. OthersSame /\ w'.bad \in Nat /\ w'.bad >= w.bad /\ w'.bad # 0
    BY <1>4, <1>f, <1>r, <2>1 DEF OthersSame
  <2> QED BY <1>4, <1>f, <1>r, <2>1, <2>2, <2>3, <2>4, Going
<1> QED BY <1>1, <1>2, <1>3, <1>4 DEF M!Put

\* What is known of the keys that a page has passed.
LEMMA Passed ==
  ASSUME M!Setting, M!JobInv, w.pc = "tail"
  PROVE  /\ stalls = 0 /\ migrates <= 1 /\ conf.bucket = "A" /\ job.phase = "verify" =>
              /\ w.key # None => \A k \in Ranked : k <= w.key => M!OnB(k)
              /\ ~w.more => \A k \in Ranked : M!OnB(k)
         /\ conf.bucket = "A" /\ enc = job.key /\ w.bad = 0 /\ job.phase = "objects" =>
              /\ w.key # None => \A k \in Ranked : k <= w.key => M!Clean(k)
              /\ ~w.more => \A k \in Ranked : M!Clean(k)
<1>0. M!DataInv /\ M!RowInv /\ M!PageInv /\ M!CopyInv /\ M!CleanInv
  BY DEF M!JobInv
<1>r. /\ M!Active(job) /\ w.tok = job.tok /\ w.tok \in Nat /\ w.bad >= job.bad /\ {job.bad, w.bad} \subseteq Nat
      /\ \A k \in Ranked : k \in Nat
  BY <1>0 DEF M!RowInv, M!Active, M!Looping, M!Setting
<1>1. ASSUME stalls = 0, migrates <= 1, conf.bucket = "A", job.phase = "verify"
      PROVE  /\ w.key # None => \A k \in Ranked : k <= w.key => M!OnB(k)
             /\ ~w.more => \A k \in Ranked : M!OnB(k)
  <2>1. /\ \A k \in Ranked : k <= w.tok => M!OnB(k)
        /\ w.key # None => M!OnB(w.key)
    BY <1>0, <1>1, <1>r DEF M!CopyInv
  <2>2. \A k \in Ranked : disk[conf.bucket][k] = None => M!OnB(k)
    BY <1>1 DEF M!OnB
  <2>3. /\ w.key = None => \A k \in Ranked : k > w.tok => M!OnB(k)
        /\ w.key # None => /\ w.key \in Ranked /\ \A k \in Ranked : w.tok < k /\ k < w.key => M!OnB(k)
                           /\ ~w.more => \A k \in Ranked : k > w.key => M!OnB(k)
    BY <1>0, <1>1, <2>2 DEF M!PageInv, M!Undisturbed, M!Nothing
  <2> QED BY <1>r, <2>1, <2>3
<1>2. ASSUME conf.bucket = "A", enc = job.key, w.bad = 0, job.phase = "objects"
      PROVE  /\ w.key # None => \A k \in Ranked : k <= w.key => M!Clean(k)
             /\ ~w.more => \A k \in Ranked : M!Clean(k)
  <2>1. job.kind \in {"reencrypt", "backfill"} /\ job.bad = 0
    BY <1>0, <1>2, <1>r DEF M!RowInv, M!Copying
  <2>2. /\ \A k \in Ranked : k <= w.tok => M!Clean(k)
        /\ w.key # None => M!Clean(w.key)
    BY <1>0, <1>2, <1>r, <2>1 DEF M!CleanInv
  <2>3. \A k \in Ranked : disk[conf.bucket][k] = None => M!Clean(k)
    BY <1>2 DEF M!Clean
  <2>4. /\ w.key = None => \A k \in Ranked : k > w.tok => M!Clean(k)
        /\ w.key # None => /\ w.key \in Ranked /\ \A k \in Ranked : w.tok < k /\ k < w.key => M!Clean(k)
                           /\ ~w.more => \A k \in Ranked : k > w.key => M!Clean(k)
    BY <1>0, <2>1, <2>3 DEF M!PageInv, M!Undisturbed, M!Nothing
  <2> QED BY <1>r, <2>2, <2>4
<1> QED BY <1>1, <1>2

\* The token moves over keys that are clean, or on the target.
LEMMA TailKeeps == ASSUME M!Setting, M!JobInv, M!Tail PROVE M!JobInv'
<1>0. M!DataInv /\ M!RowInv /\ M!GateInv /\ M!RouteInv /\ M!CopyInv /\ M!CleanInv
  BY DEF M!JobInv
<1>f. SameRoute /\ OthersSame /\ ref' = ref
  BY DEF M!Tail, SameRoute, OthersSame, M!store, M!config, M!clients, M!counts
<1>r. /\ w.pc = "tail" /\ "tail" \in M!AtWork(job) /\ w.phase = job.phase /\ w.tok = job.tok
      /\ job.status \in {"running", "cancelling"} /\ w.bad >= job.bad /\ M!Active(job)
      /\ {w.want, w.bad, job.key, job.bad} \subseteq Nat
      /\ job.phase \in {"counting", "objects", "copy", "verify"}
      /\ w.more => w.key \in Ranked /\ w.key \in Nat /\ w.key # None
  BY <1>0 DEF M!Tail, M!RowInv, M!Looping, M!AtWork, M!Active, M!Setting
<1>k. /\ job.kind = "migrate" <=> job.phase \in {"copy", "verify"}
      /\ job.kind # "migrate" => job.kind \in {"reencrypt", "backfill"}
      /\ job.phase \in {"copy", "verify"} => conf.bucket = "A"
      /\ job.kind # "migrate" \/ stalls = 0 => M!Closed
      /\ stalls = 0 /\ migrates <= 1 /\ job.kind = "migrate" =>
            \A k \in Ranked : disk.B[k] # None => disk.B[k].c = M!Content(disk.A[k])
  BY <1>0, <1>r DEF M!RowInv, M!RouteInv, M!GateInv, M!CopyInv, M!Looping, M!Copying, M!Sweeping
<1>p. /\ stalls = 0 /\ migrates <= 1 /\ conf.bucket = "A" /\ job.phase = "verify" =>
              /\ w.key # None => \A k \in Ranked : k <= w.key => M!OnB(k)
              /\ ~w.more => \A k \in Ranked : M!OnB(k)
      /\ conf.bucket = "A" /\ enc = job.key /\ w.bad = 0 /\ job.phase = "objects" =>
              /\ w.key # None => \A k \in Ranked : k <= w.key => M!Clean(k)
              /\ ~w.more => \A k \in Ranked : M!Clean(k)
  BY <1>r, Passed
<1>z. \A k \in Ranked : ~(k <= 0)
  BY DEF M!Setting
<1>c. /\ w.more => M!Cursor = w.key
      /\ ~w.more => M!Cursor = 0
  BY DEF M!Cursor
<1>j. ASSUME NEW ph, NEW tok, M!Progress(ph, tok, w.bad)
      PROVE  SameJob /\ job'.phase = ph /\ job'.tok = tok /\ job'.bad = w.bad
  BY <1>0, <1>r, <1>j DEF M!Progress, SameJob, M!RowInv, M!NoJob
<1>1. CASE M!LeaseLost /\ M!Progress(w.phase, M!Cursor, w.bad) /\ M!Ends("lost")
  <2>1. SameJob /\ job'.phase = w.phase /\ job'.tok = M!Cursor /\ job'.bad = w.bad
    BY <1>1, <1>j
  <2>2. stalls > 0
    BY <1>0, <1>1, <1>r DEF M!LeaseLost, M!RowInv, M!DataInv
  <2>3. M!Cursor \in Nat
    BY <1>c, <1>r
  <2>4. conf.bucket = "A" /\ enc = job.key /\ w.bad = 0 /\ job.phase = "objects" =>
            \A k \in Ranked : k <= M!Cursor => M!Clean(k)
    BY <1>c, <1>p, <1>r, <1>z
  <2> QED BY <1>1, <1>f, <1>r, <2>1, <2>2, <2>3, <2>4, Ending DEF M!Outcomes
<1>2. CASE w.more /\ M!Progress(w.phase, M!Cursor, w.bad) /\ w' = M!NextPage(w.phase, w.key)
  <2>1. SameJob /\ job'.phase = w.phase /\ job'.tok = w.key /\ job'.bad = w.bad
    BY <1>2, <1>c, <1>j
  <2>2. /\ DOMAIN w' = DOMAIN M!Idle /\ w'.pc = "page" /\ w'.phase = w.phase /\ w'.tok = w.key
        /\ w'.bad = w.bad /\ w'.want = w.want
    BY <1>0, <1>2 DEF M!NextPage, M!RowInv, M!Idle
  <2>3. "page" \in M!AtWork(job')
    BY <1>r, <2>1 DEF M!AtWork, M!Looping
  <2> QED BY <1>2, <1>f, <1>k, <1>p, <1>r, <2>1, <2>2, <2>3, Turning DEF M!Copying, M!Sweeping
<1>3. CASE ~w.more /\ M!PhaseAfter(w.phase) = None /\ M!Progress(w.phase, 0, w.bad) /\ M!Ends("completed")
  <2>1. SameJob /\ job'.phase = w.phase /\ job'.tok = 0 /\ job'.bad = w.bad
    BY <1>3, <1>j
  <2>2. job.phase = "objects" /\ job.kind = "backfill"
    BY <1>3, <1>r DEF M!PhaseAfter, M!Setting, M!Copying, M!Sweeping
  <2> QED BY <1>3, <1>f, <1>p, <1>r, <1>z, <2>1, <2>2, Ending DEF M!Outcomes
<1>4. CASE /\ ~w.more /\ M!PhaseAfter(w.phase) # None /\ M!Progress(M!PhaseAfter(w.phase), 0, w.bad)
           /\ w' = [M!NewPhase(M!PhaseAfter(w.phase)) EXCEPT !.pc = M!PagePc(M!PhaseAfter(w.phase))]
  <2> DEFINE next == M!PhaseAfter(w.phase)
  <2>1. SameJob /\ job'.phase = next /\ job'.tok = 0 /\ job'.bad = w.bad
    BY <1>4, <1>j
  <2>2. /\ DOMAIN w' = DOMAIN M!Idle /\ w'.pc = M!PagePc(next) /\ w'.phase = next /\ w'.tok = 0
        /\ w'.bad = w.bad /\ w'.want = w.want
    BY <1>0, <1>4 DEF M!NewPhase, M!NextPage, M!RowInv, M!Idle
  <2>3. /\ job.phase = "counting" => next = "objects"
        /\ job.phase = "objects" => next = "references" /\ job.kind # "backfill"
        /\ job.phase = "copy" => next = "verify"
        /\ job.phase = "verify" => next = "flip"
    BY <1>4, <1>r DEF M!PhaseAfter
  <2> HIDE DEF next
  <2>4. M!PagePc(next) \in M!AtWork(job') /\ M!PagePc(next) \in {"page", "references", "flip"}
    BY <1>r, <2>1, <2>3 DEF M!AtWork, M!Looping, M!PagePc
  <2> QED BY <1>4, <1>f, <1>k, <1>p, <1>r, <1>z, <2>1, <2>2, <2>3, <2>4, Turning DEF M!Copying,
             M!Sweeping
<1> QED BY <1>1, <1>2, <1>3, <1>4 DEF M!Tail

\* The reference is rewritten last.
LEMMA ReferencesKeep == ASSUME M!Setting, M!JobInv, M!References PROVE M!JobInv'
<1>0. M!DataInv /\ M!RowInv /\ M!CleanInv
  BY DEF M!JobInv
<1>f. SameRoute /\ OthersSame
  BY DEF M!References, SameRoute, OthersSame, M!config, M!clients, M!rest
<1>r. /\ w.pc = "references" /\ w.phase = job.phase /\ job.phase = "references" /\ M!Active(job)
      /\ job.status \in {"running", "cancelling"} /\ w.bad >= job.bad
      /\ {w.bad, job.key, job.bad} \subseteq Nat /\ job.kind = "reencrypt"
  BY <1>0 DEF M!References, M!RowInv, M!Looping, M!AtWork, M!Active, M!Copying
<1>1. CASE M!Ends("cancelled") /\ UNCHANGED <<ref, job>>
  BY <1>1, <1>f, <1>r, Stopping
<1>2. CASE /\ \/ ref' = enc /\ M!Progress("references", 0, w.bad)
              \/ ref' = ref /\ M!Progress("references", 0, w.bad + 1)
           /\ M!Ends(IF M!LeaseLost THEN "lost" ELSE "completed")
  <2>1. /\ SameJob /\ job'.phase = "references" /\ job'.tok = 0
        /\ (job'.bad = w.bad /\ ref' = enc) \/ job'.bad = w.bad + 1
    BY <1>0, <1>2, <1>r DEF M!Progress, SameJob, M!RowInv, M!NoJob
  <2>2. job'.bad \in Nat /\ job'.bad >= job.bad /\ (job'.bad = 0 => job.bad = 0 /\ ref' = enc)
    BY <1>r, <2>1
  <2>3. conf.bucket = "A" /\ enc = job.key /\ job'.bad = 0 => \A k \in Ranked : M!Clean(k)
    BY <1>0, <1>r, <2>2 DEF M!CleanInv
  <2>5. M!LeaseLost => stalls > 0
    BY <1>0, <1>r DEF M!LeaseLost, M!RowInv, M!DataInv
  <2> QED BY <1>2, <1>f, <1>r, <2>1, <2>2, <2>3, <2>5, Ending DEF M!Outcomes
<1> QED BY <1>1, <1>2 DEF M!References

\* Everything is on the target when the bucket moves there.
LEMMA FlipKeeps == ASSUME M!Setting, M!JobInv, M!Flip PROVE M!JobInv'
<1>0. /\ M!DataInv /\ M!RowInv /\ M!GateInv /\ M!RouteInv /\ M!PageInv
      /\ M!CopyInv /\ M!CleanInv /\ M!NoLostWrite
  BY DEF M!JobInv
<1>r. /\ w.pc = "flip" /\ w.phase = job.phase /\ job.phase = "flip" /\ M!Active(job)
      /\ job.status \in {"running", "cancelling"} /\ job.kind = "migrate"
      /\ migrates # 0 /\ (stalls = 0 => M!Closed)
  BY <1>0 DEF M!Flip, M!RowInv, M!RouteInv, M!GateInv, M!Looping, M!AtWork, M!Active, M!Copying,
     M!Sweeping
<1>1. CASE M!Ends("failed") /\ UNCHANGED <<M!config, gate>>
  <2>1. SameRoute /\ OthersSame /\ job' = job
    BY <1>1 DEF M!Flip, SameRoute, OthersSame, M!config, M!store, M!clients, M!rest
  <2> QED BY <1>1, <1>r, <2>1, Stopping
<1>2. CASE /\ conf' = [conf EXCEPT !.bucket = "B", !.stage = FALSE]
           /\ file' = conf' /\ gate' = {} /\ w' = [w EXCEPT !.pc = "flipped"]
  <2>f. job' = job /\ UNCHANGED <<disk, ref, enc, writer, acked, writes, migrates, stalls>>
    BY DEF M!Flip, M!store, M!clients, M!rest
  <2>c. DOMAIN conf' = {"bucket", "stage", "sweep"} /\ conf'.bucket = "B"
    BY <1>0, <1>2 DEF M!DataInv
  <2>w. /\ DOMAIN w' = DOMAIN M!Idle /\ w'.pc = "flipped" /\ w'.phase = w.phase
        /\ w'.bad = w.bad /\ w'.want = w.want
    BY <1>0, <1>2 DEF M!RowInv, M!Idle
  <2>1. M!DataInv'
    BY <1>0, <1>2, <2>c, <2>f DEF M!DataInv
  <2>2. M!RowInv'
    BY <1>0, <1>r, <2>f, <2>w DEF M!RowInv, M!AtWork, M!Looping
  <2>3. M!GateInv'
    BY <1>r, <2>f, <2>w DEF M!GateInv, M!Looping
  <2>4. M!RouteInv'
    BY <1>0, <1>r, <2>c, <2>f, <2>w DEF M!RouteInv, M!Closed, M!DataInv
  <2>5. M!PageInv'
    BY <2>w DEF M!PageInv
  <2>6. M!CopyInv' /\ M!CleanInv'
    BY <1>0, <2>c, <2>f, <2>w DEF M!CopyInv, M!CleanInv, M!Clean, M!Ended
  <2>7. M!NoLostWrite'
    <3> SUFFICES ASSUME stalls = 0, migrates <= 1, NEW k \in Ranked
                 PROVE  M!Content(disk.B[k]) = acked[k]
      BY <2>c, <2>f DEF M!NoLostWrite, M!ServesLastWrite, M!Content
    <3>1. M!Content(disk[conf.bucket][k]) = acked[k]
      BY <1>0, <1>r DEF M!NoLostWrite, M!ServesLastWrite, M!Closed
    <3>2. CASE conf.bucket = "A"
      <4>1. /\ disk.B[k] # None => disk.B[k].c = M!Content(disk.A[k])
            /\ M!OnB(k)
        BY <1>0, <1>r, <3>2 DEF M!CopyInv, M!Copying
      <4> QED BY <3>1, <3>2, <4>1 DEF M!Content, M!OnB
    <3> QED BY <1>0, <3>1, <3>2 DEF M!DataInv
  <2> QED BY <2>1, <2>2, <2>3, <2>4, <2>5, <2>6, <2>7 DEF M!JobInv
<1> QED BY <1>1, <1>2 DEF M!Flip

\* The flip is recorded in the row after it is done.
LEMMA FlippedKeeps == ASSUME M!Setting, M!JobInv, M!Flipped PROVE M!JobInv'
<1>0. M!DataInv /\ M!RowInv /\ M!RouteInv
  BY DEF M!JobInv
<1>f. SameRoute /\ OthersSame
  BY DEF M!Flipped, SameRoute, OthersSame, M!store, M!config, M!clients, M!counts
<1>r. /\ w.pc = "flipped" /\ conf.bucket = "B" /\ job.kind = "migrate"
      /\ job.status \in {"running", "cancelling"} /\ w.bad \in Nat /\ w.want \in Nat
  BY <1>0 DEF M!Flipped, M!RowInv, M!RouteInv, M!Looping, M!AtWork, M!Moved, M!Sweeping, M!Active
<1>1. SameJob /\ job'.phase = "cleanup" /\ job'.tok = 0 /\ job'.bad = w.bad
  BY <1>0, <1>r DEF M!Flipped, M!Progress, SameJob, M!RowInv, M!NoJob
<1>2. /\ DOMAIN w' = DOMAIN M!Idle /\ w'.pc = "cleanup" /\ w'.phase = "cleanup" /\ w'.tok = 0
      /\ w'.bad = w.bad /\ w'.want = w.want
  BY <1>0 DEF M!Flipped, M!NewPhase, M!NextPage, M!RowInv, M!Idle
<1>3. "cleanup" \in M!AtWork(job')
  BY <1>1 DEF M!AtWork, M!Looping
<1> QED BY <1>f, <1>r, <1>1, <1>2, <1>3, Turning DEF M!Copying, M!Sweeping

\* The steps that delete the source, of which the bucket has moved away.
LEMMA CleanupKeeps ==
  ASSUME M!Setting, M!JobInv, M!Cleanup \/ M!Sweep \/ M!DropSource \/ M!Swept
  PROVE  M!JobInv'
<1>0. /\ M!DataInv /\ M!RowInv /\ M!GateInv /\ M!RouteInv /\ M!PageInv
      /\ M!CopyInv /\ M!CleanInv /\ M!NoLostWrite
  BY DEF M!JobInv
<1>f. /\ UNCHANGED <<enc, gate, writer, acked, writes, migrates, stalls>> /\ job' = job /\ SameRoute
      /\ disk' = disk \/ (w.pc = "drop" /\ disk' = [disk EXCEPT !.A[w.key] = None])
  <2>1. CASE M!Cleanup
    BY <1>0, <2>1, RouteSame DEF M!Cleanup, SameRoute, M!store, M!config, M!clients, M!rest
  <2>2. CASE M!Sweep
    BY <2>2 DEF M!Sweep, SameRoute, M!store, M!config, M!clients, M!rest
  <2>3. CASE M!DropSource
    BY <2>3 DEF M!DropSource, SameRoute, M!store, M!config, M!clients, M!rest
  <2>4. CASE M!Swept
    BY <1>0, <2>4 DEF M!Swept, M!Apply, SameRoute, M!store, M!config, M!clients, M!rest, M!DataInv
  <2> QED BY <2>1, <2>2, <2>3, <2>4
<1>r. /\ w.pc \in {"cleanup", "sweep", "drop", "swept"} /\ conf.bucket = "B" /\ job.kind = "migrate"
      /\ job.status \in {"running", "cancelling"} /\ job.phase = "cleanup"
  BY <1>0 DEF M!Cleanup, M!Sweep, M!DropSource, M!Swept, M!RowInv, M!RouteInv, M!Looping, M!AtWork,
     M!Moved, M!Sweeping, M!Active
<1>w. /\ DOMAIN w' = DOMAIN M!Idle /\ w'.phase = w.phase /\ w'.bad = w.bad /\ w'.want = w.want
      /\ w'.pc \in {"sweep", "drop", "swept", "end"}
      /\ w'.pc = "drop" => w'.key \in Ranked
      /\ w'.pc = "end" => w'.out \in M!Outcomes /\ (w'.out = "lost" => stalls > 0)
  <2>0. DOMAIN w = DOMAIN M!Idle
    BY <1>0 DEF M!RowInv
  <2>e. ASSUME NEW out \in M!Outcomes, M!Ends(out), out = "lost" => stalls > 0
        PROVE  /\ DOMAIN w' = DOMAIN M!Idle /\ w'.phase = w.phase /\ w'.bad = w.bad /\ w'.want = w.want
               /\ w'.pc = "end" /\ w'.out \in M!Outcomes /\ (w'.out = "lost" => stalls > 0)
    BY <2>0, <2>e DEF M!Ends, M!Idle
  <2>1. CASE M!Cleanup
    <3>1. M!Ends("completed") \/ w' = [w EXCEPT !.pc = "sweep", !.tok = 0]
      BY <2>1 DEF M!Cleanup
    <3>2. CASE w' = [w EXCEPT !.pc = "sweep", !.tok = 0]
      BY <2>0, <3>2 DEF M!Idle
    <3> QED BY <2>e, <3>1, <3>2 DEF M!Outcomes
  <2>2. CASE M!Sweep
    <3>1. PICK ks \in SUBSET Ranked :
            \/ M!Ends("failed") \/ w' = [w EXCEPT !.pc = "swept"]
            \/ w' = [w EXCEPT !.eng = conf, !.more = M!Cardinality(ks) > 1,
                              !.key = IF ks = {} THEN None ELSE M!Least(ks),
                              !.pc = IF ks = {} THEN "swept" ELSE "drop"]
      BY <2>2 DEF M!Sweep, M!After
    <3>2. ks # {} => M!Least(ks) \in Ranked
      BY PageIs
    <3>3. CASE w' = [w EXCEPT !.pc = "swept"]
      BY <2>0, <3>3 DEF M!Idle
    <3>4. CASE w' = [w EXCEPT !.eng = conf, !.more = M!Cardinality(ks) > 1,
                              !.key = IF ks = {} THEN None ELSE M!Least(ks),
                              !.pc = IF ks = {} THEN "swept" ELSE "drop"]
      BY <2>0, <3>2, <3>4 DEF M!Idle
    <3> QED BY <2>e, <3>1, <3>3, <3>4 DEF M!Outcomes
  <2>3. CASE M!DropSource
    <3>1. M!LeaseLost => stalls > 0
      BY <1>0, <1>r DEF M!LeaseLost, M!RowInv, M!DataInv
    <3>2. PICK tok :
            \/ w' = [w EXCEPT !.pc = "swept"] \/ (M!LeaseLost /\ M!Ends("lost"))
            \/ w' = [w EXCEPT !.pc = "sweep", !.tok = tok]
      BY <2>3 DEF M!DropSource
    <3>3. CASE w' = [w EXCEPT !.pc = "swept"]
      BY <2>0, <3>3 DEF M!Idle
    <3>4. CASE w' = [w EXCEPT !.pc = "sweep", !.tok = tok]
      BY <2>0, <3>4 DEF M!Idle
    <3> QED BY <2>e, <3>1, <3>2, <3>3, <3>4 DEF M!Outcomes
  <2>4. CASE M!Swept
    BY <2>e, <2>4 DEF M!Swept, M!Outcomes
  <2> QED BY <2>1, <2>2, <2>3, <2>4
<1>d. /\ disk' \in [A : M!Places, B : M!Places] /\ disk'.B = disk.B
      /\ \A k \in Ranked : disk'.A[k] \in {disk.A[k], None}
  BY <1>0, <1>f DEF M!DataInv, M!Places
<1>1. M!DataInv'
  BY <1>0, <1>f, <1>d DEF M!DataInv, SameRoute
<1>2. M!RowInv'
  BY <1>0, <1>f, <1>r, <1>w DEF M!RowInv, M!AtWork, M!Looping
<1>3. M!GateInv'
  BY <1>0, <1>f, <1>r, <1>w DEF M!GateInv, M!Looping, M!Copying
<1>4. M!RouteInv'
  BY <1>0, <1>f, <1>r, <1>w DEF M!RouteInv, SameRoute
<1>5. M!PageInv'
  BY <1>w DEF M!PageInv
<1>6. M!CopyInv' /\ M!CleanInv'
  BY <1>0, <1>f, <1>r, <1>w DEF M!CopyInv, M!CleanInv, M!Ended, SameRoute
<1>7. M!NoLostWrite'
  BY <1>0, <1>d, <1>f, <1>r DEF M!NoLostWrite, M!ServesLastWrite, SameRoute, M!Content
<1> QED BY <1>1, <1>2, <1>3, <1>4, <1>5, <1>6, <1>7 DEF M!JobInv

\* No job is there at first.
LEMMA JobStarts == ASSUME M!Setting, M!Init PROVE M!JobInv
<1>1. M!DataInv
  BY DEF M!Init, M!Setting, M!DataInv, M!Places, M!Objects, M!Quiet
<1>2. M!RowInv
  BY DEF M!Init, M!Setting, M!RowInv, M!Idle, M!NoJob, M!Active, M!Looping
<1>3. M!GateInv /\ M!RouteInv /\ M!PageInv
  BY DEF M!Init, M!Setting, M!GateInv, M!RouteInv, M!PageInv, M!Idle, M!NoJob, M!Active, M!Looping,
     M!Moved, M!Quiet, M!Copying
<1>4. M!CopyInv /\ M!CleanInv
  BY DEF M!Init, M!Setting, M!CopyInv, M!CleanInv, M!Ended, M!Idle, M!NoJob, M!Active
<1>5. M!NoLostWrite
  BY DEF M!Init, M!NoLostWrite, M!ServesLastWrite, M!Content, M!Setting, M!Objects
<1> QED BY <1>1, <1>2, <1>3, <1>4, <1>5 DEF M!JobInv

\* A request comes, is admitted or refused, or goes.
LEMMA RequestMoves ==
  ASSUME M!Setting, M!JobInv, NEW u \in Clients, NEW x, writer' = [writer EXCEPT ![u] = x],
         writer[u].pc # "admitted",
         DOMAIN x = DOMAIN M!Quiet, x.pc \in {"idle", "registered", "admitted"},
         x.pc # "idle" => x.key \in Ranked /\ x.c \in Nat,
         x.pc = "admitted" => "bucket" \notin gate /\ x.eng = conf.bucket,
         UNCHANGED <<disk, ref, enc, conf, file, gate, job, w, acked, migrates, stalls>>, writes' \in Nat
  PROVE  M!JobInv'
<1>0. /\ M!DataInv /\ M!RowInv /\ M!GateInv /\ M!RouteInv /\ M!PageInv
      /\ M!CopyInv /\ M!CleanInv /\ M!NoLostWrite
  BY DEF M!JobInv
<1>w. \A v \in Clients : writer'[v] = IF v = u THEN x ELSE writer[v]
  BY <1>0 DEF M!DataInv
<1>1. M!DataInv'
  BY <1>0, <1>w DEF M!DataInv
<1>2. M!RowInv'
  BY <1>0 DEF M!RowInv
<1>3. M!GateInv'
  BY <1>0, <1>w DEF M!GateInv, M!Closed
<1>4. M!RouteInv'
  BY <1>0, <1>w DEF M!RouteInv
<1>5. M!PageInv' /\ M!CopyInv' /\ M!CleanInv'
  BY <1>0 DEF M!PageInv, M!Nothing, M!Undisturbed, M!CopyInv, M!OnB, M!Content, M!CleanInv,
     M!Clean, M!Ended
<1>6. M!NoLostWrite'
  BY <1>0, <1>w DEF M!NoLostWrite, M!ServesLastWrite, M!Content
<1> QED BY <1>1, <1>2, <1>3, <1>4, <1>5, <1>6 DEF M!JobInv

\* A request registers, tests the gate or disconnects.
LEMMA RequestKeeps ==
  ASSUME M!Setting, M!JobInv, NEW u \in Clients,
         M!CheckBusy(u) \/ M!Disconnect(u) \/ \E k \in Ranked, c \in {0, writes + 2} : M!BeginWrite(u, k, c)
  PROVE  M!JobInv'
<1>0. M!DataInv
  BY DEF M!JobInv
<1>1. CASE M!CheckBusy(u)
  <2> DEFINE x == [writer[u] EXCEPT !.pc = M!Recheck, !.eng = conf.bucket]
  <2>1. DOMAIN x = DOMAIN M!Quiet /\ x.pc = M!Recheck /\ x.eng = conf.bucket /\ x.key = writer[u].key
        /\ x.c = writer[u].c
    BY <1>0 DEF M!DataInv, M!Quiet
  <2>2. writer' = [writer EXCEPT ![u] = x]
    BY <1>0, <1>1 DEF M!CheckBusy, M!DataInv
  <2>3. writer[u].pc = "registered" /\ writes' \in Nat
        /\ UNCHANGED <<disk, ref, enc, conf, file, gate, job, w, acked, migrates, stalls>>
    BY <1>0, <1>1 DEF M!CheckBusy, M!store, M!config, M!counts, M!DataInv
  <2> HIDE DEF x
  <2>4. writer[u].key \in Ranked /\ writer[u].c \in Nat
    BY <1>0, <2>3 DEF M!DataInv
  <2> QED BY <2>1, <2>2, <2>3, <2>4, RequestMoves DEF M!Recheck
<1>2. CASE M!Disconnect(u)
  BY <1>0, <1>2, RequestMoves DEF M!Disconnect, M!Quiet, M!store, M!config, M!counts, M!DataInv
<1>3. ASSUME NEW k \in Ranked, NEW c \in {0, writes + 2}, M!BeginWrite(u, k, c) PROVE M!JobInv'
  <2> DEFINE x == [pc |-> "registered", key |-> k, c |-> c, eng |-> conf.bucket]
  <2>1. DOMAIN x = DOMAIN M!Quiet /\ x.pc = "registered" /\ x.key = k /\ x.c = c
    BY DEF M!Quiet
  <2>2. writer' = [writer EXCEPT ![u] = x] /\ c \in Nat
    BY <1>0, <1>3 DEF M!BeginWrite, M!Setting, M!DataInv
  <2>3. writer[u].pc = "idle" /\ writes' \in Nat
        /\ UNCHANGED <<disk, ref, enc, conf, file, gate, job, w, acked, migrates, stalls>>
    BY <1>0, <1>3 DEF M!BeginWrite, M!store, M!config, M!DataInv
  <2> HIDE DEF x
  <2> QED BY <2>1, <2>2, <2>3, RequestMoves
<1> QED BY <1>1, <1>2, <1>3

\* A write lands where the bucket is, on no page of a worker.
LEMMA LandKeeps == ASSUME M!Setting, M!JobInv, NEW u \in Clients, M!Land(u) PROVE M!JobInv'
<1>0. /\ M!DataInv /\ M!RowInv /\ M!GateInv /\ M!RouteInv /\ M!PageInv
      /\ M!CopyInv /\ M!CleanInv /\ M!NoLostWrite
  BY DEF M!JobInv
<1> DEFINE b == writer[u].eng
           j == writer[u].key
           new == IF writer[u].c = 0 THEN None ELSE M!Stored(b, writer[u].c)
<1>r. /\ b \in {"A", "B"} /\ j \in Ranked /\ writer[u].c \in Nat /\ ~M!Closed /\ M!Stored(b, writer[u].c) # None
      /\ writer[u].pc = "admitted"
  BY <1>0 DEF M!Land, M!DataInv, M!Closed, M!Setting, M!Stored, M!Objects
<1>n. /\ new \in M!Objects \cup {None} /\ M!Content(new) = writer[u].c
      /\ new # None => new.sha = new.c /\ (b = "A" => new.enc = enc)
  BY <1>0, <1>r DEF M!Stored, M!Objects, M!Content, M!DataInv
<1>f. /\ disk' = [disk EXCEPT ![b][j] = new] /\ acked' = [acked EXCEPT ![j] = writer[u].c]
      /\ writer' = [writer EXCEPT ![u] = M!Quiet]
      /\ UNCHANGED <<ref, enc, conf, file, gate, job, w, writes, migrates, stalls>>
  BY DEF M!Land, M!config, M!counts
<1> HIDE DEF new, b, j
<1>w. \A v \in Clients : writer'[v] = IF v = u THEN M!Quiet ELSE writer[v]
  BY <1>0, <1>f DEF M!DataInv
<1>d. /\ disk' \in [A : M!Places, B : M!Places]
      /\ \A a \in {"A", "B"}, k \in Ranked : disk'[a][k] = IF a = b /\ k = j THEN new ELSE disk[a][k]
  BY <1>0, <1>f, <1>n, <1>r DEF M!DataInv, M!Places
<1>1. M!DataInv'
  BY <1>0, <1>d, <1>f, <1>n, <1>r, <1>w DEF M!DataInv, M!Quiet
<1>2. M!RowInv'
  BY <1>0, <1>f DEF M!RowInv
<1>3. M!GateInv'
  BY <1>0, <1>f, <1>w DEF M!GateInv, M!Closed, M!Quiet
<1>4. M!RouteInv'
  BY <1>0, <1>f, <1>w DEF M!RouteInv, M!Quiet
<1>5. M!PageInv'
  BY <1>0, <1>f, <1>r DEF M!PageInv, M!GateInv, M!RowInv, M!Undisturbed, M!AtWork, M!Looping,
     M!Copying, M!Sweeping, M!Active
<1>6. M!CopyInv'
  <2> SUFFICES ASSUME stalls = 0, migrates <= 1, conf.bucket = "A" PROVE M!CopyInv'
    BY <1>f DEF M!CopyInv
  <2>1. ~(M!Active(job) /\ job.phase \in M!Copying) \/ w.pc = "flipped"
    BY <1>0, <1>r DEF M!GateInv
  <2>2. w.pc # "flipped"
    BY <1>0 DEF M!RouteInv, M!Moved
  <2>3. disk'.B = disk.B
    BY <1>0, <1>f, <1>r DEF M!RouteInv, M!DataInv, b
  <2>4. ~(w.pc = "tail" /\ job.phase = "verify")
    BY <1>0, <2>1 DEF M!RowInv, M!Active, M!Copying
  <2> QED BY <1>0, <1>f, <2>1, <2>2, <2>3, <2>4 DEF M!CopyInv, M!Copying
<1>7. M!CleanInv'
  <2>1. \A k \in Ranked : conf.bucket = "A" => (M!Clean(k) => M!Clean(k)')
    BY <1>0, <1>d, <1>f, <1>n, <1>r DEF M!Clean
  <2> QED BY <1>0, <1>f, <2>1, <1>r DEF M!CleanInv, M!Ended, M!GateInv, M!Looping
<1>8. M!NoLostWrite'
  <2>1. ASSUME stalls = 0, migrates <= 1, NEW k \in Ranked
        PROVE  M!Content(disk'[conf.bucket][k]) = acked'[k]
    <3>1. CASE k = j
      BY <1>0, <1>d, <1>f, <1>n, <1>r, <2>1, <3>1 DEF M!RouteInv, M!DataInv, b
    <3>2. CASE k # j
      BY <1>0, <1>d, <1>f, <2>1, <3>2 DEF M!DataInv, M!NoLostWrite, M!ServesLastWrite
    <3> QED BY <3>1, <3>2
  <2> QED BY <1>f, <2>1 DEF M!NoLostWrite, M!ServesLastWrite, M!Content
<1> QED BY <1>1, <1>2, <1>3, <1>4, <1>5, <1>6, <1>7, <1>8 DEF M!JobInv

\* A job is created: the former one has ended, and the worker with it.
LEMMA StartKeeps ==
  ASSUME M!Setting, M!JobInv,
         M!StartReencrypt \/ M!StartBackfill \/ \E drop \in BOOLEAN : M!StartMigrate(drop)
  PROVE  M!JobInv'
<1>0. /\ M!DataInv /\ M!RowInv /\ M!GateInv /\ M!RouteInv /\ M!PageInv
      /\ M!CopyInv /\ M!CleanInv /\ M!NoLostWrite
  BY DEF M!JobInv
<1>f. /\ UNCHANGED <<disk, ref, enc, conf, file, w, writer, acked, writes, stalls>>
      /\ "bucket" \in gate' /\ w.pc \in {"idle", "release"}
  BY <1>0 DEF M!StartReencrypt, M!StartBackfill, M!StartMigrate, M!CreateJob, M!store, M!config,
     M!clients,
              M!RowInv, M!Active
<1>j. /\ DOMAIN job' = DOMAIN M!NoJob /\ job'.status = "queued" /\ job'.tok = 0 /\ job'.bad = 0
      /\ job'.key = enc
      /\ \/ job'.kind \in {"reencrypt", "backfill"} /\ job'.phase = "counting" /\ migrates' = migrates
         \/ /\ job'.kind = "migrate" /\ job'.phase = "stage" /\ conf.bucket = "A"
            /\ migrates' = migrates + 1
  BY DEF M!StartReencrypt, M!StartBackfill, M!StartMigrate, M!CreateJob, M!NoJob
<1>1. M!DataInv'
  BY <1>0, <1>f, <1>j DEF M!DataInv
<1>2. M!RowInv'
  <2>1. job'.kind # None /\ job'.key \in Nat
    BY <1>0, <1>j DEF M!Setting, M!DataInv
  <2> QED BY <1>0, <1>f, <1>j, <2>1 DEF M!RowInv, M!Looping, M!Copying, M!Sweeping
<1>3. M!GateInv' /\ M!RouteInv' /\ M!PageInv'
  BY <1>0, <1>f, <1>j DEF M!GateInv, M!RouteInv, M!PageInv, M!Looping, M!Copying, M!Moved, M!DataInv
<1>4. M!CopyInv'
  BY <1>0, <1>f, <1>j DEF M!CopyInv, M!Copying, M!DataInv
<1>5. M!CleanInv'
  BY <1>0, <1>f, <1>j DEF M!CleanInv, M!Ended, M!DataInv
<1>6. M!NoLostWrite'
  BY <1>0, <1>f, <1>j DEF M!NoLostWrite, M!ServesLastWrite, M!Content, M!DataInv
<1> QED BY <1>1, <1>2, <1>3, <1>4, <1>5, <1>6 DEF M!JobInv

\* The row of a job changes its status or its lease, and the worker is at rest or goes on.
LEMMA RowChanges ==
  ASSUME M!Setting, M!JobInv, UNCHANGED <<disk, ref, enc, conf, file, w, writer, acked, writes, migrates>>,
         DOMAIN job' = DOMAIN M!NoJob, job'.phase = job.phase, job'.tok = job.tok, job'.bad = job.bad,
         job'.kind = job.kind, job'.key = job.key, job'.status # "completed" \/ job.status = "completed",
         M!Active(job') => M!Active(job),
         stalls' \in Nat, stalls' >= stalls,
         w.pc \notin {"idle", "release"} =>
            job'.status \in {"running", "cancelling"} /\ (stalls' = 0 => job'.lease = "live"),
         gate' = gate \/ (w.pc \in {"idle", "release"} /\ ~M!Active(job'))
  PROVE  M!JobInv'
<1>0. /\ M!DataInv /\ M!RowInv /\ M!GateInv /\ M!RouteInv /\ M!PageInv
      /\ M!CopyInv /\ M!CleanInv /\ M!NoLostWrite
  BY DEF M!JobInv
<1>s. stalls' = 0 => stalls = 0
  BY <1>0 DEF M!DataInv
<1>1. M!DataInv'
  BY <1>0 DEF M!DataInv
<1>2. M!RowInv'
  BY <1>0, <1>s DEF M!RowInv, M!AtWork, M!DataInv
<1>3. M!GateInv'
  BY <1>0, <1>s DEF M!GateInv, M!Closed, M!Looping
<1>4. M!RouteInv'
  BY <1>0, <1>s DEF M!RouteInv
<1>5. M!PageInv'
  BY <1>0, <1>s DEF M!PageInv, M!Nothing, M!Undisturbed
<1>6. M!CopyInv'
  BY <1>0, <1>s DEF M!CopyInv, M!OnB, M!Content
<1>7. M!CleanInv'
  BY <1>0 DEF M!CleanInv, M!Clean, M!Ended
<1>8. M!NoLostWrite'
  BY <1>0, <1>s DEF M!NoLostWrite, M!ServesLastWrite, M!Content
<1> QED BY <1>1, <1>2, <1>3, <1>4, <1>5, <1>6, <1>7, <1>8 DEF M!JobInv

\* A job is cancelled, requeued, or its lease lapses.
LEMMA StatusKeeps ==
  ASSUME M!Setting, M!JobInv, M!CancelJob \/ M!RequeueAbandoned \/ M!Lapse PROVE M!JobInv'
<1>0. M!DataInv /\ M!RowInv
  BY DEF M!JobInv
<1>1. CASE M!CancelJob
  BY <1>0, <1>1, RowChanges DEF M!CancelJob, M!CancelledRow, M!RowInv, M!DataInv, M!Active, M!NoJob,
                                M!store, M!config, M!clients, M!counts
<1>2. CASE M!RequeueAbandoned
  BY <1>0, <1>2, RowChanges DEF M!RequeueAbandoned, M!Requeued, M!RowInv, M!DataInv, M!Active, M!NoJob,
                                M!store, M!config, M!clients, M!counts
<1>3. CASE M!Lapse
  <2>1. UNCHANGED <<disk, ref, enc, conf, file, w, writer, acked, writes, migrates, gate>>
    BY <1>3 DEF M!Lapse, M!store, M!config, M!clients
  <2>2. /\ DOMAIN job' = DOMAIN M!NoJob /\ job'.phase = job.phase /\ job'.tok = job.tok /\ job'.bad = job.bad
        /\ job'.kind = job.kind /\ job'.key = job.key /\ job'.status = job.status
    BY <1>0, <1>3 DEF M!Lapse, M!RowInv, M!NoJob
  <2>3. stalls' \in Nat /\ stalls' >= stalls /\ (w.pc # "idle" => stalls' # 0)
    BY <1>0, <1>3 DEF M!Lapse, M!DataInv
  <2> QED BY <1>0, <1>3, <2>1, <2>2, <2>3, RowChanges DEF M!RowInv, M!Active, M!Lapse
<1> QED BY <1>1, <1>2, <1>3

\* The bucket map is replaced: the transient routes go, and the key may be a later one.
LEMMA ApplyKeeps == ASSUME M!Setting, M!JobInv, NEW rotate \in BOOLEAN, M!AdminApply(rotate) PROVE M!JobInv'
<1>0. /\ M!DataInv /\ M!RowInv /\ M!GateInv /\ M!RouteInv /\ M!PageInv
      /\ M!CopyInv /\ M!CleanInv /\ M!NoLostWrite
  BY DEF M!JobInv
<1>f. /\ UNCHANGED <<disk, ref, gate, job, w, writer, acked, writes, migrates, stalls>>
      /\ enc' \in {enc, enc + 1} /\ SameRoute
  BY <1>0 DEF M!AdminApply, M!clients, M!DataInv, SameRoute
<1> USE DEF SameRoute
<1>1. M!DataInv'
  BY <1>0, <1>f DEF M!DataInv
<1>2. M!RowInv' /\ M!GateInv' /\ M!RouteInv'
  BY <1>0, <1>f DEF M!RowInv, M!GateInv, M!RouteInv, M!Closed
<1>3. M!PageInv' /\ M!CopyInv'
  BY <1>0, <1>f DEF M!PageInv, M!Nothing, M!Undisturbed, M!CopyInv, M!OnB, M!Content
<1>4. M!CleanInv'
  <2>1. CASE enc' = enc
    BY <1>0, <1>f, <2>1 DEF M!CleanInv, M!Clean, M!Ended
  <2>2. CASE enc' = enc + 1
    <3>1. enc' # job.key /\ job.key <= enc' /\ (w.want <= enc => w.want <= enc')
      BY <1>0, <2>2 DEF M!DataInv, M!RowInv, M!CleanInv
    <3> QED BY <1>0, <1>f, <3>1 DEF M!CleanInv
  <2> QED BY <1>f, <2>1, <2>2
<1>5. M!NoLostWrite'
  BY <1>0, <1>f DEF M!NoLostWrite, M!ServesLastWrite, M!Content
<1> QED BY <1>1, <1>2, <1>3, <1>4, <1>5 DEF M!JobInv

\* A claimed job is resumed in its phase, the gate shut before.
LEMMA ClaimKeeps == ASSUME M!Setting, M!JobInv, M!Claim PROVE M!JobInv'
<1>0. /\ M!DataInv /\ M!RowInv /\ M!GateInv /\ M!RouteInv /\ M!PageInv
      /\ M!CopyInv /\ M!CleanInv /\ M!NoLostWrite
  BY DEF M!JobInv
<1>f. /\ UNCHANGED <<disk, ref, enc, conf, file, writer, acked, writes, migrates, stalls>>
      /\ w.pc = "idle" /\ job.status = "queued"
  BY DEF M!Claim, M!ClaimNextJob, M!store, M!config, M!clients, M!counts
<1>j. /\ DOMAIN job' = DOMAIN M!NoJob /\ job'.status = "running" /\ job'.lease = "live"
      /\ job'.phase = job.phase /\ job'.tok = job.tok /\ job'.bad = job.bad
      /\ job'.kind = job.kind /\ job'.key = job.key /\ M!Active(job) /\ M!Active(job')
  BY <1>0 DEF M!Claim, M!ClaimNextJob, M!RowInv, M!NoJob, M!Active
<1>w. /\ DOMAIN w' = DOMAIN M!Idle /\ w'.pc = M!Entry(job) /\ w'.phase = job.phase /\ w'.tok = job.tok
      /\ w'.bad = job.bad /\ w'.want = 0
  BY DEF M!Claim, M!Idle
<1>k. /\ job.phase # "cleanup" => "bucket" \in gate'
      /\ job.phase \in M!Copying => gate \subseteq gate'
  BY DEF M!Claim, M!Gated, M!GateArmedDuring, M!Copying
<1>e. /\ M!Entry(job) \in M!AtWork(job')
      /\ job.phase \in M!Sweeping => M!Entry(job) = "drain"
      /\ job.phase = "stage" => M!Entry(job) = "stage"
      /\ job.phase \in {"copy", "verify"} => M!Entry(job) = "page"
      /\ job.phase \in {"flip", "cleanup"} => M!Entry(job) = job.phase
      /\ \/ job.kind \in {"reencrypt", "backfill"} /\ job.phase \in M!Sweeping
         \/ job.kind = "migrate" /\ job.phase \in M!Copying \cup {"stage", "cleanup"}
  <2>1. CASE job.kind = "migrate"
    BY <1>0, <1>j, <2>1 DEF M!RowInv, M!Entry, M!AtWork, M!Looping, M!Copying, M!Sweeping
  <2>2. CASE job.kind \in {"reencrypt", "backfill"}
    BY <1>0, <1>j, <2>2 DEF M!RowInv, M!Entry, M!AtWork, M!Looping, M!Copying, M!Sweeping
  <2> QED BY <1>0, <1>j, <2>1, <2>2 DEF M!RowInv
<1>1. M!DataInv'
  BY <1>0, <1>f DEF M!DataInv
<1>2. M!RowInv'
  BY <1>0, <1>e, <1>f, <1>j, <1>w DEF M!RowInv, M!Looping, M!Copying, M!Sweeping
<1>3. M!GateInv'
  BY <1>0, <1>e, <1>f, <1>j, <1>k, <1>w DEF M!GateInv, M!Closed, M!Looping, M!Copying, M!Sweeping
<1>4. M!RouteInv'
  BY <1>0, <1>e, <1>f, <1>j, <1>w DEF M!RouteInv, M!Moved, M!Copying, M!Sweeping
<1>5. M!PageInv'
  BY <1>e, <1>w DEF M!PageInv, M!Copying, M!Sweeping
<1>6. M!CopyInv'
  BY <1>0, <1>e, <1>f, <1>j, <1>w DEF M!CopyInv, M!OnB, M!Content, M!Copying, M!Sweeping
<1>7. M!CleanInv'
  BY <1>0, <1>e, <1>f, <1>j, <1>w DEF M!CleanInv, M!Clean, M!Ended, M!Copying, M!Sweeping
<1>8. M!NoLostWrite'
  BY <1>0, <1>f DEF M!NoLostWrite, M!ServesLastWrite, M!Content
<1> QED BY <1>1, <1>2, <1>3, <1>4, <1>5, <1>6, <1>7, <1>8 DEF M!JobInv

\* The end of a job: its row is settled and the staging route of a failed migration goes.
LEMMA SettleKeeps == ASSUME M!Setting, M!JobInv, M!Settle PROVE M!JobInv'
<1>0. /\ M!DataInv /\ M!RowInv /\ M!GateInv /\ M!RouteInv /\ M!PageInv
      /\ M!CopyInv /\ M!CleanInv /\ M!NoLostWrite
  BY DEF M!JobInv
<1>f. /\ UNCHANGED <<disk, ref, enc, gate, writer, acked, writes, migrates, stalls>>
      /\ w.pc = "end" /\ SameRoute
  BY <1>0 DEF M!Settle, M!Apply, M!store, M!config, M!clients, M!rest, M!DataInv, SameRoute
<1>w. DOMAIN w' = DOMAIN M!Idle /\ w'.pc = "release" /\ w'.bad = w.bad /\ w'.want = w.want
  BY <1>0 DEF M!Settle, M!RowInv, M!Idle
<1>j. /\ DOMAIN job' = DOMAIN M!NoJob /\ job'.phase = job.phase /\ job'.tok = job.tok /\ job'.bad = job.bad
      /\ job'.kind = job.kind /\ job'.key = job.key
      /\ \/ w.out = "lost" /\ stalls > 0 /\ job'.status = job.status
         \/ w.out # "lost" /\ job'.status = w.out /\ ~M!Active(job')
  BY <1>0 DEF M!Settle, M!FinishedRow, M!RowInv, M!NoJob, M!Active, M!Outcomes
<1>a. M!Active(job) /\ job.status # "completed" /\ job.kind # None
  BY <1>0, <1>f DEF M!RowInv, M!Active
<1> USE DEF SameRoute
<1>1. M!DataInv'
  BY <1>0, <1>f DEF M!DataInv
<1>2. M!RowInv'
  BY <1>0, <1>a, <1>f, <1>j, <1>w DEF M!RowInv, M!DataInv, M!Looping
<1>3. M!GateInv' /\ M!RouteInv' /\ M!PageInv'
  BY <1>0, <1>a, <1>f, <1>j, <1>w DEF M!GateInv, M!RouteInv, M!PageInv, M!Looping, M!Moved,
     M!Closed, M!DataInv
<1>4. M!CopyInv'
  BY <1>0, <1>a, <1>f, <1>j, <1>w DEF M!CopyInv, M!OnB, M!Content, M!DataInv
<1>5. M!CleanInv'
  BY <1>0, <1>a, <1>f, <1>j, <1>w DEF M!CleanInv, M!Clean, M!Ended
<1>6. M!NoLostWrite'
  BY <1>0, <1>f DEF M!NoLostWrite, M!ServesLastWrite, M!Content
<1> QED BY <1>1, <1>2, <1>3, <1>4, <1>5, <1>6 DEF M!JobInv

\* A job that was created since the row was settled has not copied anything yet.
LEMMA ReleaseKeeps == ASSUME M!Setting, M!JobInv, M!Release PROVE M!JobInv'
<1>0. /\ M!DataInv /\ M!RowInv /\ M!GateInv /\ M!RouteInv /\ M!PageInv
      /\ M!CopyInv /\ M!CleanInv /\ M!NoLostWrite
  BY DEF M!JobInv
<1>f. /\ UNCHANGED <<disk, ref, enc, conf, file, job, writer, acked, writes, migrates, stalls>>
      /\ w.pc = "release" /\ w' = M!Idle
  BY DEF M!Release, M!store, M!config, M!clients, M!counts
<1>w. w'.pc = "idle" /\ DOMAIN w' = DOMAIN M!Idle /\ w'.bad = 0 /\ w'.want = 0
  BY <1>f DEF M!Idle
<1>1. M!DataInv'
  BY <1>0, <1>f DEF M!DataInv
<1>2. M!RowInv'
  BY <1>0, <1>f, <1>w DEF M!RowInv, M!Looping
<1>3. M!GateInv' /\ M!RouteInv' /\ M!PageInv'
  BY <1>0, <1>f, <1>w DEF M!GateInv, M!RouteInv, M!PageInv, M!RowInv, M!Looping, M!Moved, M!Copying
<1>4. M!CopyInv' /\ M!CleanInv'
  BY <1>0, <1>f, <1>w DEF M!CopyInv, M!OnB, M!Content, M!CleanInv, M!Clean, M!Ended
<1>5. M!NoLostWrite'
  BY <1>0, <1>f DEF M!NoLostWrite, M!ServesLastWrite, M!Content
<1> QED BY <1>1, <1>2, <1>3, <1>4, <1>5 DEF M!JobInv

\* The gate is shut again at boot for a job that has not flipped.
LEMMA RebootKeeps == ASSUME M!Setting, M!JobInv, NEW lapsed \in BOOLEAN, M!Crash(lapsed) PROVE M!JobInv'
<1>0. /\ M!DataInv /\ M!RowInv /\ M!GateInv /\ M!RouteInv /\ M!PageInv
      /\ M!CopyInv /\ M!CleanInv /\ M!NoLostWrite
  BY DEF M!JobInv
<1>f. /\ UNCHANGED <<disk, ref, enc, acked, writes, migrates, stalls>> /\ w' = M!Idle
      /\ writer' = [u \in Clients |-> M!Quiet] /\ gate' = M!ArmKeys(job') /\ SameRoute
  BY <1>0 DEF M!Crash, M!store, M!DataInv, SameRoute
<1>w. w'.pc = "idle" /\ DOMAIN w' = DOMAIN M!Idle /\ w'.bad = 0 /\ w'.want = 0
  BY <1>f DEF M!Idle
<1>j. /\ DOMAIN job' = DOMAIN M!NoJob /\ job'.phase = job.phase /\ job'.tok = job.tok /\ job'.bad = job.bad
      /\ job'.kind = job.kind /\ job'.key = job.key /\ (M!Active(job') => M!Active(job))
      /\ job'.status = "completed" => job.status = "completed"
  BY <1>0 DEF M!Crash, M!Requeued, M!RowInv, M!NoJob, M!Active
<1>g. M!Active(job') /\ job.phase \in M!Copying => "bucket" \in gate'
  BY <1>f, <1>j DEF M!ArmKeys, M!Gated, M!GateArmedDuring, M!Copying
<1> USE DEF SameRoute
<1>1. M!DataInv'
  BY <1>0, <1>f DEF M!DataInv, M!Quiet
<1>2. M!RowInv'
  BY <1>0, <1>f, <1>j, <1>w DEF M!RowInv, M!Looping
<1>3. M!GateInv' /\ M!RouteInv' /\ M!PageInv'
  BY <1>0, <1>f, <1>g, <1>j, <1>w DEF M!GateInv, M!RouteInv, M!PageInv, M!Looping, M!Moved,
     M!Closed, M!Quiet
<1>4. M!CopyInv'
  BY <1>0, <1>f, <1>j, <1>w DEF M!CopyInv, M!OnB, M!Content
<1>5. M!CleanInv'
  BY <1>0, <1>f, <1>j, <1>w DEF M!CleanInv, M!Clean, M!Ended
<1>6. M!NoLostWrite'
  BY <1>0, <1>f DEF M!NoLostWrite, M!ServesLastWrite, M!Content
<1> QED BY <1>1, <1>2, <1>3, <1>4, <1>5, <1>6 DEF M!JobInv

\* Every step keeps the invariant.
LEMMA JobNext == ASSUME M!Setting, M!JobInv, M!Next PROVE M!JobInv'
<1>1. CASE M!Work
  BY <1>1, ClaimKeeps, StatusKeeps, DrainKeeps, StageKeeps, BeginPageKeeps, ListKeeps, LookKeeps,
     RewriteKeeps, TailKeeps, ReferencesKeep, FlipKeeps, FlippedKeeps, CleanupKeeps, SettleKeeps,
     ReleaseKeeps DEF M!Work
<1>2. CASE M!Operate
  BY <1>2, StartKeeps, StatusKeeps, ApplyKeeps DEF M!Operate
<1>3. ASSUME NEW u \in Clients, M!Client(u) PROVE M!JobInv'
  BY <1>3, RequestKeeps, LandKeeps DEF M!Client
<1> QED BY <1>1, <1>2, <1>3, StatusKeeps, RebootKeeps DEF M!Next

\* And so does a step of no part of it.
LEMMA JobStays == ASSUME M!Setting, M!JobInv, UNCHANGED M!vars PROVE M!JobInv'
<1>1. UNCHANGED <<disk, ref, enc, conf, file, gate, job, w, writer, acked, writes, migrates, stalls>>
  BY DEF M!vars, M!store, M!config, M!clients, M!counts
<1>2. M!DataInv /\ M!RowInv
  BY DEF M!JobInv
<1> QED BY <1>1, <1>2, RowChanges DEF M!DataInv, M!RowInv

\* Whatever is cancelled, fails, is resumed after a crash or meets a configuration change, a
\* maintenance job loses no acknowledged write, and a re-encryption or a backfill that ended
\* as succeeded without failures has missed nothing (src/maintenance).
THEOREM JobsLoseNothing == NodeSpec => []SweepSound
<1> DEFINE Inv == part = "jobs" => M!JobInv
<1>1. NodeInit => Inv
  BY JobStarts, NodeSettings DEF NodeInit
<1>2. Inv /\ [NodeNext]_all => Inv'
  <2> SUFFICES ASSUME part = "jobs" => M!JobInv, [NodeNext]_all, part' = "jobs" PROVE M!JobInv'
    OBVIOUS
  <2>1. CASE part = "jobs" /\ M!Next /\ InMaint
    BY <2>1, JobNext, NodeSettings
  <2>2. CASE UNCHANGED all
    BY <2>2, JobStays, NodeSettings DEF all, MaintVars, vars, M!vars, M!store, M!config, M!clients,
       M!counts
  <2> QED BY <2>1, <2>2 DEF NodeNext, InMirror, InTable, InRetain, InKey, InApply
<1>3. Inv => SweepSound
  <2> SUFFICES ASSUME M!JobInv PROVE M!NoLostWrite /\ M!SweepComplete
    BY DEF SweepSound
  <2>1. M!NoLostWrite /\ M!CleanInv
    BY DEF M!JobInv
  <2> QED BY <2>1 DEF M!CleanInv, M!SweepComplete, M!Ended, M!Clean
<1> QED BY <1>1, <1>2, <1>3, PTL DEF NodeSpec
=============================================================================
