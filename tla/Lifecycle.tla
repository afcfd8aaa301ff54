----------------------------- MODULE Lifecycle -----------------------------
(***************************************************************************)
(* Lifecycle rules (src/lifecycle): deleting or moving the objects that    *)
(* are older than a limit, page by page from a persisted cursor, and       *)
(* keeping the newest of a prefix, which collects the whole set before it  *)
(* deletes anything.  A run is started by the scheduler or by run-now      *)
(* under the rule's lease; maintenance jobs gate the bucket.               *)
(*                                                                         *)
(* An object is its creation time and whether its size qualifies it.       *)
(***************************************************************************)
EXTENDS Naturals, FiniteSets

CONSTANTS Keys,          \* numbered in listing order, from 1
          Skipped,       \* keys the globs, or their being internal names, leave out
          Runs,          \* identities of runs
          Rules,         \* [action, age, count, minAge, protect]
          PageSize, Budget, Cap,     \* batch_size, MAX_JOB_PAGES, candidate cap
          MaxTime, MaxWrites, MaxTrouble, MaxScope, MaxMaint,        \* bounds
          None

VARIABLES rule, now,
          obj, dst,      \* the bucket; the destination of a transition
          cursor,        \* continuation_token with its scope: 0 is none
          scope,         \* the bucket and prefix of the rule as it is now defined
          lease,         \* the rule's lease: owner, lapsed
          paused,        \* lifecycle_state.paused
          run,           \* the runs
          maint,         \* a maintenance job of the bucket: none, armed, working
          writes, trouble, jobs

state == <<cursor, scope, lease, paused>>
budget == <<writes, trouble, jobs>>
vars == <<rule, now, obj, dst, state, run, maint, budget>>

Retains == rule.action = "retain"
Free == [owner |-> None, lapsed |-> FALSE]
Off == [pc |-> "off", tok |-> 0, n |-> 0, resumed |-> FALSE, limit |-> 0, page |-> {},
        seen |-> None, more |-> FALSE, window |-> FALSE, part |-> FALSE, todo |-> {},
        key |-> None, head |-> None, scope |-> 0, gone |-> {}]

Init ==
    /\ rule \in Rules
    /\ now = 2
    /\ obj \in [Keys -> {None} \cup [at : {1, 2}, big : {TRUE}]]
    /\ dst = [k \in Keys |-> None]
    /\ cursor = [tok |-> 0, scope |-> 0] /\ scope = 0
    /\ lease = Free /\ paused = FALSE
    /\ run = [r \in Runs |-> Off]
    /\ maint = "none"
    /\ writes = 0 /\ trouble = 0 /\ jobs = 0

Set(r, f) == run' = [run EXCEPT ![r] = f]
Windows == {r \in Runs : run[r].window}
(* A failed call, a lease that lapses or a crash.                           *)
Trouble == trouble < MaxTrouble /\ trouble' = trouble + 1
Busy == maint # "none"

-----------------------------------------------------------------------------
(* The planner.                                                            *)

(* plan_object, for an object as it was listed.                            *)
Expired(o, limit) == o.at <= limit
PlanObject(k, o, limit) == k \notin Skipped /\ Expired(o, limit)

(* QualifySpec::admits and the ranking of plan_retain_newest: newest       *)
(* first, the greater key first among equals.                              *)
Admits(o, t) == o.big /\ o.at + rule.minAge <= t
Newer(a, j, b, k) == a.at > b.at \/ (a.at = b.at /\ j > k)

PlanRetainNewest(objs, ks, t) ==
    LET eligible == {k \in ks : Admits(objs[k], t)}
    IN  {k \in eligible :
           /\ Cardinality({j \in eligible : Newer(objs[j], j, objs[k], k)}) >= rule.count
           /\ objs[k].at + rule.protect <= t}

MayDelete(partial, truncated) == ~partial /\ ~truncated

-----------------------------------------------------------------------------
(* Starting a run.                                                         *)

TryAcquireLease(r) ==
    /\ lease.owner = None \/ lease.lapsed
    /\ lease' = [owner |-> r, lapsed |-> FALSE]
Begin(r) == [Off EXCEPT !.pc = "start", !.scope = scope]

(* run_due_rules and run_now: under the database lock the pause and the    *)
(* lease; the scheduler then looks at the gate and may give the lease      *)
(* back, run-now looked at it first.                                       *)
Start(r) ==
    /\ run[r].pc = "off"
    /\ ~paused
    /\ ~Busy
    /\ TryAcquireLease(r) /\ Set(r, Begin(r))
    /\ UNCHANGED <<rule, now, obj, dst, cursor, scope, paused, maint, budget>>

(* run_or_preview: the limit is taken once; the cursor is used when it was *)
(* issued for the rule as defined now, dropped otherwise.                  *)
ScopeMatches(r) == cursor.scope = run[r].scope

LoadCursor(r) ==
    /\ run[r].pc = "start"
    /\ IF Retains
       THEN /\ Set(r, [run[r] EXCEPT !.pc = "collect", !.seen = [k \in Keys |-> None]])
            /\ UNCHANGED cursor
       ELSE /\ Set(r, [run[r] EXCEPT !.pc = "page",
                         !.limit = IF now > rule.age THEN now - rule.age ELSE 0,
                         !.tok = IF ScopeMatches(r) THEN cursor.tok ELSE 0,
                         !.resumed = ScopeMatches(r) /\ cursor.tok # 0])
            /\ cursor' = IF ScopeMatches(r) THEN cursor ELSE [tok |-> 0, scope |-> 0]
    /\ UNCHANGED <<rule, now, obj, dst, scope, lease, paused, maint, budget>>

(* finish_run, then release_lease, which leaves another owner's alone.     *)
ReleaseLease(r) == lease' = IF lease.owner = r THEN Free ELSE lease
Finish(r) == Set(r, Off) /\ ReleaseLease(r)

-----------------------------------------------------------------------------
(* The age path.                                                           *)

Holds(r) == lease.owner = r /\ ~lease.lapsed
PageOf(tok) == LET ks == {k \in Keys : k > tok /\ obj[k] # None}
               IN  {k \in ks : Cardinality({j \in ks : j < k}) < PageSize}
More(tok) == PageOf(tok) # {k \in Keys : k > tok /\ obj[k] # None}
Last(ks) == CHOOSE k \in ks : \A j \in ks : j <= k
First(ks) == CHOOSE k \in ks : \A j \in ks : k <= j

(* begin_write_windows first, then the busy check; the lease.              *)
BeginPage(r) ==
    /\ run[r].pc = "page"
    /\ IF run[r].n >= Budget \/ Busy \/ ~Holds(r) THEN Finish(r)
       ELSE /\ Set(r, [run[r] EXCEPT !.pc = "list", !.n = @ + 1, !.window = TRUE])
            /\ UNCHANGED lease
    /\ UNCHANGED <<rule, now, obj, dst, cursor, scope, paused, maint, budget>>

Persist(r, tok) == cursor' = [tok |-> tok, scope |-> IF tok = 0 THEN 0 ELSE run[r].scope]

ListPage(r) ==
    /\ run[r].pc = "list"
    /\ \/ /\ Set(r, [run[r] EXCEPT !.pc = "act", !.page = PageOf(run[r].tok), !.seen = obj,
                       !.more = More(run[r].tok),
                       !.todo = {k \in PageOf(run[r].tok) :
                                   PlanObject(k, obj[k], run[r].limit)}])
          /\ UNCHANGED <<cursor, lease, trouble>>
       \/ /\ Trouble
          /\ IF run[r].resumed /\ run[r].n = 1 THEN Persist(r, 0) ELSE UNCHANGED cursor
          /\ Finish(r)
    /\ UNCHANGED <<rule, now, obj, dst, scope, paused, maint, writes, jobs>>

(* execute_action: the object as it is by now.                             *)
Delete(r, k) ==
    /\ run[r].pc = "act" /\ run[r].todo # {} /\ k = First(run[r].todo)
    /\ rule.action = "delete"
    /\ obj' = [obj EXCEPT ![k] = None]
    /\ Set(r, [run[r] EXCEPT !.todo = @ \ {k}])
    /\ UNCHANGED <<rule, now, dst, state, maint, budget>>

Copy(r, k) ==
    /\ run[r].pc = "act" /\ run[r].todo # {} /\ k = First(run[r].todo)
    /\ rule.action \in {"transition", "move"}
    /\ IF obj[k] = None THEN UNCHANGED dst ELSE dst' = [dst EXCEPT ![k] = obj[k]]
    /\ Set(r, IF rule.action = "move" /\ obj[k] # None
              THEN [run[r] EXCEPT !.pc = "moved", !.key = k]
              ELSE [run[r] EXCEPT !.todo = @ \ {k}])
    /\ UNCHANGED <<rule, now, obj, state, maint, budget>>

DeleteSource(r) ==
    /\ run[r].pc = "moved"
    /\ obj' = [obj EXCEPT ![run[r].key] = None]
    /\ Set(r, [run[r] EXCEPT !.pc = "act", !.todo = @ \ {run[r].key}, !.key = None])
    /\ UNCHANGED <<rule, now, dst, state, maint, budget>>

(* An action that fails is recorded and the page goes on.                  *)
ActFails(r) ==
    /\ run[r].pc = "act" /\ run[r].todo # {}
    /\ Trouble
    /\ Set(r, [run[r] EXCEPT !.todo = @ \ {First(@)}])
    /\ UNCHANGED <<rule, now, obj, dst, state, maint, writes, jobs>>

(* Pager::advance: the token after the page, none after the last page.     *)
Token(r) == IF run[r].more THEN Last(run[r].page) ELSE 0

EndPage(r) ==
    /\ run[r].pc = "act" /\ run[r].todo = {}
    /\ Persist(r, Token(r))
    /\ IF run[r].more
       THEN /\ Set(r, [run[r] EXCEPT !.pc = "page", !.window = FALSE, !.tok = Last(run[r].page)])
            /\ UNCHANGED lease
       ELSE Finish(r)
    /\ UNCHANGED <<rule, now, obj, dst, scope, paused, maint, budget>>

-----------------------------------------------------------------------------
(* The retain-newest path.                                                 *)

Collected(r) == {k \in Keys : run[r].seen[k] # None}

(* One page of the collection.  The busy bucket, the lost lease and the    *)
(* page budget end it with a partial set; a failed list or the cap end the *)
(* run.                                                                    *)
Collect(r) ==
    /\ run[r].pc = "collect"
    /\ IF run[r].n >= Budget \/ Busy \/ ~Holds(r)
       THEN /\ Set(r, [run[r] EXCEPT !.pc = "rank", !.part = Busy \/ ~Holds(r),
                                     !.more = run[r].n >= Budget])
            /\ UNCHANGED <<lease, trouble>>
       ELSE \/ /\ UNCHANGED trouble
               /\ \E page \in {PageOf(run[r].tok)} :
                    IF Cardinality(Collected(r) \cup (page \ Skipped)) > Cap THEN Finish(r)
                    ELSE /\ Set(r, [run[r] EXCEPT
                              !.pc = IF More(run[r].tok) THEN "collect" ELSE "rank",
                              !.seen = [k \in Keys |-> IF k \in page \ Skipped THEN obj[k]
                                                       ELSE @[k]],
                              !.n = @ + 1,
                              !.tok = IF page = {} THEN @ ELSE Last(page)])
                         /\ UNCHANGED lease
            \/ /\ Trouble
               /\ Finish(r)
    /\ UNCHANGED <<rule, now, obj, dst, cursor, scope, paused, maint, writes, jobs>>

Rank(r) ==
    /\ run[r].pc = "rank"
    /\ IF MayDelete(run[r].part, run[r].more)
       THEN /\ Set(r, [run[r] EXCEPT !.pc = "open", !.todo =
                         PlanRetainNewest(run[r].seen, Collected(r), now)])
            /\ UNCHANGED lease
       ELSE Finish(r)
    /\ UNCHANGED <<rule, now, obj, dst, cursor, scope, paused, maint, budget>>

(* The write window of the whole act phase, then the busy check.           *)
OpenWindow(r) ==
    /\ run[r].pc = "open"
    /\ IF Busy THEN Finish(r)
       ELSE Set(r, [run[r] EXCEPT !.pc = "prune", !.window = TRUE]) /\ UNCHANGED lease
    /\ UNCHANGED <<rule, now, obj, dst, cursor, scope, paused, maint, budget>>

(* The HEAD before a delete: an object that is gone, or was created at     *)
(* another time than the one ranked, is passed over.                       *)
\* Mutant: only an object that is gone is passed over.
ChangedIfGone(r, k) == obj[k] = None

Changed(r, k) == obj[k] = None \/ obj[k].at # run[r].seen[k].at

HeadCandidate(r, k) ==
    /\ run[r].pc = "prune" /\ run[r].todo # {} /\ k = First(run[r].todo)
    /\ \/ /\ Set(r, IF Changed(r, k) THEN [run[r] EXCEPT !.todo = @ \ {k}]
                    ELSE [run[r] EXCEPT !.pc = "headed", !.key = k, !.head = obj[k]])
          /\ UNCHANGED trouble
       \/ /\ Trouble
          /\ Set(r, [run[r] EXCEPT !.pc = "headed", !.key = k])
    /\ UNCHANGED <<rule, now, obj, dst, state, maint, writes, jobs>>

(* The delete takes what is there by now.  gone: since the run began,      *)
(* clients removed a qualifying object of these keys, or replaced it by    *)
(* one that does not qualify, or a run deleted another object than the one *)
(* it had ranked.                                                          *)
Replaced(r) == {k \in {run[r].key} : obj[k] # None /\ obj[k].at # run[r].seen[k].at}
Settled(r) == [run[r] EXCEPT !.pc = "prune", !.todo = @ \ {run[r].key},
                             !.key = None, !.head = None]

Prune(r) ==
    /\ run[r].pc = "headed"
    /\ obj' = [obj EXCEPT ![run[r].key] = None]
    /\ run' = [q \in Runs |-> [(IF q = r THEN Settled(r) ELSE run[q]) EXCEPT
                                  !.gone = @ \cup run[r].gone \cup Replaced(r)]]
    /\ UNCHANGED <<rule, now, dst, state, maint, budget>>

(* A delete that fails is recorded; the run ends if that fails as well.    *)
PruneFails(r) ==
    /\ run[r].pc = "headed"
    /\ Trouble
    /\ \/ Set(r, Settled(r)) /\ UNCHANGED lease
       \/ Finish(r)
    /\ UNCHANGED <<rule, now, obj, dst, cursor, scope, paused, maint, writes, jobs>>

EndPrune(r) ==
    /\ run[r].pc = "prune" /\ run[r].todo = {}
    /\ Finish(r)
    /\ UNCHANGED <<rule, now, obj, dst, cursor, scope, paused, maint, budget>>

-----------------------------------------------------------------------------
(* The environment.                                                        *)

(* A client writes or deletes.                                             *)
Spoils(k, o) == k \notin Skipped /\ obj[k] # None /\ obj[k].big /\ ~(o # None /\ Admits(o, now))

ClientWrite(k, o) ==
    /\ writes < MaxWrites /\ writes' = writes + 1
    /\ maint # "working"
    /\ obj' = [obj EXCEPT ![k] = o]
    /\ run' = [r \in Runs |-> [run[r] EXCEPT !.gone = IF Spoils(k, o) THEN @ \cup {k} ELSE @]]
    /\ UNCHANGED <<rule, now, dst, state, maint, trouble, jobs>>

Tick ==
    /\ now < MaxTime /\ now' = now + 1
    /\ UNCHANGED <<rule, obj, dst, state, run, maint, budget>>

(* The rule is redefined, under the same name, for another prefix; and     *)
(* paused or resumed.                                                      *)
Redefine ==
    /\ scope < MaxScope /\ scope' = scope + 1
    /\ UNCHANGED <<rule, now, obj, dst, cursor, lease, paused, run, maint, budget>>

SetPaused ==
    /\ paused' = ~paused
    /\ UNCHANGED <<rule, now, obj, dst, cursor, scope, lease, run, maint, budget>>

(* A maintenance job arms the gate, waits for the windows, works, clears.  *)
ArmGate == /\ maint = "none" /\ maint' = "armed"
           /\ jobs < MaxMaint /\ jobs' = jobs + 1
           /\ UNCHANGED <<rule, now, obj, dst, state, run, writes, trouble>>
Drained == /\ maint = "armed" /\ Windows = {} /\ maint' = "working"
           /\ UNCHANGED <<rule, now, obj, dst, state, run, budget>>
ClearGate == /\ maint = "working" /\ maint' = "none"
             /\ UNCHANGED <<rule, now, obj, dst, state, run, budget>>

Lapse ==
    /\ lease.owner # None /\ ~lease.lapsed /\ Trouble
    /\ lease' = [lease EXCEPT !.lapsed = TRUE]
    /\ UNCHANGED <<rule, now, obj, dst, cursor, scope, paused, run, maint, writes, jobs>>

(* The process dies and boots: lifecycle_reconcile_on_boot clears the      *)
(* lease and keeps the cursor.                                             *)
Crash ==
    /\ Trouble
    /\ run' = [r \in Runs |-> Off] /\ lease' = Free
    /\ maint' = "none"
    /\ UNCHANGED <<rule, now, obj, dst, cursor, scope, paused, writes, jobs>>

-----------------------------------------------------------------------------
Work(r) == \/ LoadCursor(r) \/ BeginPage(r) \/ ListPage(r) \/ DeleteSource(r)
           \/ ActFails(r) \/ EndPage(r) \/ Collect(r) \/ Rank(r) \/ OpenWindow(r)
           \/ Prune(r) \/ PruneFails(r) \/ EndPrune(r)
           \/ \E k \in Keys : Delete(r, k) \/ Copy(r, k) \/ HeadCandidate(r, k)

Objects == {None} \cup [at : {now}, big : BOOLEAN]

Next == \/ \E r \in Runs : Start(r) \/ Work(r)
        \/ Tick \/ Redefine \/ SetPaused \/ ArmGate \/ Drained \/ ClearGate \/ Lapse \/ Crash
        \/ \E k \in Keys : \E o \in Objects : ClientWrite(k, o)

Spec == Init /\ [][Next]_vars

-----------------------------------------------------------------------------
TypeOK ==
    /\ \A k \in Keys : obj[k] = None \/ obj[k].at \in 1..MaxTime
    /\ cursor.tok \in Keys \cup {0} /\ lease.owner \in Runs \cup {None}
    /\ \A r \in Runs : run[r].todo \subseteq Keys \ Skipped

\* What a retain-newest run deletes is never one of the newest objects to keep, although
\* clients upload and replace objects between the collection and the delete, HEADs and
\* deletes fail and runs overlap: when the object it ranked goes, at least count newer
\* qualifying ones are there, counting those that were taken away since the run began (by
\* clients, or by a run that deleted a replacement).  Another object than the one ranked
\* goes only if the HEAD before the delete failed, or the object was replaced after that
\* HEAD: one that the HEAD saw replaced is never deleted.
Better(o, k) == {j \in Keys \ Skipped : obj[j] # None /\ Admits(obj[j], now) /\ Newer(obj[j], j, o, k)}
Backed(o, k, gone) == Cardinality(Better(o, k) \cup gone) >= rule.count
Deletes(r) == run[r].pc = "headed" /\ run'[r].pc = "prune" /\ obj'[run[r].key] # obj[run[r].key]
NewestKept == \A r \in Runs : Deletes(r) =>
    \E k \in {run[r].key} :
        IF obj[k].at = run[r].seen[k].at THEN Backed(obj[k], k, run[r].gone)
        ELSE run[r].head = None \/ run[r].head.at # obj[k].at

\* As worker.rs has it: no object uploaded since the collection is ever deleted.  It is,
\* when the HEAD fails or the upload comes after it.
NeverReplaced == \A r \in Runs : Deletes(r) => Replaced(r) = {}
KeepsUploads == [][NeverReplaced]_vars

\* Nothing is deleted or moved in a bucket that a maintenance job works on: the job
\* waited for the window of the run, or the run saw the gate.
GateRespected == maint = "working" => Windows = {}

\* An object that is past the limit is deleted or moved some day, although runs stop at
\* the page budget, are deferred, fail, are redefined, lose their lease or die.
Due(k) == rule.action \in {"delete", "move"} /\ k \notin Skipped /\ obj[k] # None
          /\ obj[k].at + rule.age <= now
ExpiredGo == \A k \in Keys : Due(k) ~> ~Due(k)

\* An age rule deletes nothing that is not past the limit.  An object replaced after its
\* page was listed is deleted all the same.
ExpiredOnly == \A r \in Runs : \A k \in Keys :
    run[r].pc \in {"act", "moved"} /\ obj[k] # None /\ obj'[k] = None /\ run' # run
        /\ (\E j \in run[r].todo : j \notin run'[r].todo)
        => Expired(obj[k], run[r].limit)
DeletesExpiredOnly == [][ExpiredOnly]_vars
-----------------------------------------------------------------------------
(* What the proof of NewestKept rests on.                                  *)

Setting ==
    /\ Keys \subseteq Nat /\ IsFiniteSet(Keys)
    /\ None \notin Keys /\ None \notin [at : Nat, big : BOOLEAN]
    /\ \A x \in Rules : {x.count, x.minAge, x.protect} \subseteq Nat

Objs == [at : Nat, big : BOOLEAN]
Listings == [Keys -> Objs \cup {None}]

\* Objects are not younger than the clock, and a run is on the path of the rule.
Ranking == {"collect", "rank", "open", "prune", "headed"}
StateInv ==
    /\ rule \in Rules /\ now \in Nat
    /\ obj \in Listings /\ \A k \in Keys : obj[k] # None => obj[k].at <= now
    /\ DOMAIN run = Runs
    /\ \A r \in Runs :
          /\ DOMAIN run[r] = DOMAIN Off /\ run[r].gone \subseteq Keys
          /\ run[r].pc # "headed" => run[r].head = None
          /\ run[r].key \in Keys \cup {None} /\ run[r].todo \subseteq Keys
          /\ run[r].pc \in {"off", "start"} \cup
                (IF Retains THEN Ranking ELSE {"page", "list", "act", "moved"})

\* What was collected is still there, or was replaced by one that qualifies, or was taken
\* away; or an overlapping run that deleted it since has left enough of those before it.
Standing(j, o) == /\ obj[j] # None /\ obj[j].big /\ obj[j].at >= o.at
                  /\ obj[j].at = o.at \/ Admits(obj[j], now)
CollectInv(r) == run[r].pc \in Ranking =>
    /\ run[r].seen \in Listings
    /\ \A j \in Collected(r) :
          /\ j \notin Skipped /\ run[r].seen[j].at <= now
          /\ run[r].pc \in {"collect", "rank"} /\ run[r].seen[j].big
                => \/ Standing(j, run[r].seen[j]) \/ j \in run[r].gone
                   \/ Backed(run[r].seen[j], j, run[r].gone)

\* What is to be deleted has enough before it, and what a HEAD saw is what was ranked.
RankInv(r) == run[r].pc \in {"open", "prune", "headed"} =>
    /\ run[r].todo \subseteq Collected(r)
    /\ \A k \in run[r].todo : Backed(run[r].seen[k], k, run[r].gone)
    /\ run[r].pc = "headed" =>
          /\ run[r].key \in run[r].todo
          /\ run[r].head # None => run[r].head.at = run[r].seen[run[r].key].at

NewestInv == StateInv /\ \A r \in Runs : CollectInv(r) /\ RankInv(r)
=============================================================================
