------------------------------ MODULE Reconcile ------------------------------
(***************************************************************************)
(* The reconcile run of a replication rule: the pure walk machine          *)
(* (replication/walk.rs), the driver loop that executes its commands       *)
(* (replication/worker.rs, run_rule) and the persisted cursor and failure  *)
(* ledger (replication/state_store.rs).                                    *)
(*                                                                         *)
(* The relative paths are numbered in byte order, so a directory is        *)
(* followed by its whole subtree.  The machine is a record m; every        *)
(* operator of the first part maps a machine to the machine after one call *)
(* of the method it is named for.  The driver is one task, so a handler    *)
(* and the poll that follows it are one action; what interleaves is the    *)
(* order in which the commands in flight are answered, the clients of the  *)
(* source, a peer that writes the destination, and the end of the run.     *)
(***************************************************************************)
EXTENDS Integers, FiniteSets, Sequences, SequencesExt, FiniteSetsExt

CONSTANTS Path,          \* the relative paths; 0 is the empty one, the root
          Dirs,          \* the directories, 0 (the root) included
          End,            \* End[d]: the last path of the subtree of d
          Hidden,          \* directories named .deltaglider (skip_dir)
          Excluded,        \* objects the rule's globs leave out
          PageSize, DirWorkers, HeadBatch, MaxPendingDirs,
          Transfers, ActionBuffer,
          SkipAfter,       \* object_skip_after_failures, 0 for never
          Volatile,        \* the objects others write during the run
          MaxVersion, MaxFaults, MaxHalts,    \* bounds
          Setups           \* rules with the buckets a behaviour starts from

ASSUME PathIsNat == Path \subseteq Nat /\ 0 \in Path

-----------------------------------------------------------------------------
(* The contiguous-progress tracker (ContiguousTracker).  A path is a       *)
(* number in the byte order of the relative paths, and 0 is also "no       *)
(* watermark".  A tracker is a record: items and markers count the open    *)
(* entries at each path, ahead holds the settled paths the watermark has   *)
(* not passed yet, and wm is the watermark.                                *)

Trackers == [items: [Path -> Nat], markers: [Path -> Nat],
             ahead: SUBSET Path, wm: Path]

NewTracker == [items |-> [p \in Path |-> 0], markers |-> [p \in Path |-> 0],
               ahead |-> {}, wm |-> 0]

\* Mutant: the frontiers of the listings do not count.
BlockedByItems(t, p) == \E q \in Path : q <= p /\ t.items[q] > 0

(* promote pops settled paths, smallest first, until one is blocked: by an *)
(* open item at or below it, or by a marker strictly below it.             *)
Blocked(t, p) == \/ \E q \in Path : q <= p /\ t.items[q] > 0
                 \/ \E q \in Path : q < p /\ t.markers[q] > 0

Passed(t) == {p \in t.ahead : ~Blocked(t, p)}

Promote(t) ==
    IF Passed(t) = {} THEN t
    ELSE [t EXCEPT !.ahead = @ \ Passed(t),
                   !.wm = CHOOSE p \in Passed(t) : \A q \in Passed(t) : q <= p]

OpenItem(t, p)   == [t EXCEPT !.items[p] = @ + 1]
OpenMarker(t, p) == [t EXCEPT !.markers[p] = @ + 1]

Settle(t, p) ==
    Promote([t EXCEPT !.items[p] = @ - 1, !.ahead = @ \cup {p}])

CloseMarker(t, p) == Promote([t EXCEPT !.markers[p] = @ - 1])

AdvanceMarker(t, old, new) ==
    Promote([t EXCEPT !.markers[new] = @ + 1, !.markers[old] = @ - 1])

IsEmpty(t) == \A p \in Path : t.items[p] = 0 /\ t.markers[p] = 0

(* The contract the walk must keep: nothing is open, and nothing waits     *)
(* settled, below the watermark; and what waits settled is really blocked. *)
Guarded(t) == /\ \A p \in Path : t.items[p] + t.markers[p] > 0 => p >= t.wm
              /\ \A p \in t.ahead : p >= t.wm
              /\ Passed(t) = {}

-----------------------------------------------------------------------------
Objs == Path \ Dirs
Under(d, p) == d < p /\ p <= End[d]
Child(d, p) == Under(d, p) /\ ~ \E e \in Dirs : Under(d, e) /\ Under(e, p)
Covers(d, w) == w = d \/ Under(d, w)      \* w.starts_with(d)

SkipDir(d) == d \in Hidden
Internal(p) == \E h \in Hidden : Under(h, p)      \* is_dg_internal
GlobbedOut(p) == p \in Excluded                   \* compiled rule globs

Sides == {"src", "dst"}

-----------------------------------------------------------------------------
(* The planner.  An object is its version, 0 when it is absent; a version  *)
(* stands for the facts (size, hash, created_at) the policies compare.     *)

ShouldReplicate(rule, p, sv, dv) ==
    /\ ~GlobbedOut(p)
    /\ \/ dv = 0
       \/ rule.conflict = "content-diff" /\ sv # dv
       \/ rule.conflict = "newer-wins" /\ sv > dv

NeedHead(rule, side) ==
    rule.conflict # "skip-if-dest-exists" /\ side \notin rule.authoritative

-----------------------------------------------------------------------------
(* The walk machine.                                                       *)

NoStream == [live |-> FALSE, tok |-> 0, exh |-> TRUE, inf |-> FALSE,
             buf |-> <<>>, seen |-> 0, mark |-> 0, closed |-> TRUE]

Stream(tok, mark) == [live |-> TRUE, tok |-> tok, exh |-> FALSE, inf |-> FALSE,
                      buf |-> <<>>, seen |-> 0, mark |-> mark, closed |-> FALSE]

Drained(s) == s.exh /\ s.buf = <<>>
NeedsPage(s) == s.live /\ ~s.exh /\ ~s.inf /\ s.buf = <<>>
ListingsDone(k) == Drained(k.str["src"]) /\ Drained(k.str["dst"])

SidesOf(mode) == CASE mode = "Compare"  -> Sides
                   [] mode = "SrcOnly"  -> {"src"}
                   [] mode = "DestOnly" -> {"dst"}

Streams(mode, tok, mark) ==
    [s \in Sides |-> IF s \in SidesOf(mode) THEN Stream(tok, mark) ELSE NoStream]

Drop(f, x) == [y \in DOMAIN f \ {x} |-> f[y]]
Put(f, x, v) == [y \in DOMAIN f \cup {x} |-> IF y = x THEN v ELSE f[y]]
Empty == [x \in {} |-> 0]

(* Run f over the members of S in ascending order. *)
InOrder(S, m, f(_, _)) ==
    FoldLeft(f, m, SetToSortSeq(S, LAMBDA x, y : x < y))

WithTracker(m, t) == [m EXCEPT !.t = t]
SettlePath(m, p) == WithTracker(m, Settle(m.t, p))

Task(m, k) == m.active[k]

(* resume_list_token: the child of d that contains the watermark, minus    *)
(* its slash (so that the child itself is listed again), or the watermark. *)
ResumeToken(d, w) ==
    IF w = d THEN 0
    ELSE LET c == CHOOSE e \in Path : Child(d, e) /\ (e = w \/ (e \in Dirs /\ Covers(e, w)))
         IN  IF c \in Dirs THEN c - 1 ELSE c

(* Where a flat sweep restarts: the durable progress inside d, or d. *)
FlatStart(m, d) == Max({d, IF m.t.wm # 0 THEN m.t.wm ELSE m.resume})

(* Degrade a directory to a flat sweep that restarts at the watermark. *)
FlattenDir(m, d) ==
    IF d \notin DOMAIN m.active \/ m.active[d].flat THEN m
    ELSE
    LET k == m.active[d]
        mark == FlatStart(m, d)
        fresh == Streams(k.mode, IF mark > d THEN mark ELSE 0, mark)
        (* open the flat markers first, then unwind the old guards *)
        t1 == FoldSet(LAMBDA s, t : OpenMarker(t, mark), m.t, SidesOf(k.mode))
        t2 == FoldSet(LAMBDA s, t : IF k.str[s].closed THEN t
                                    ELSE CloseMarker(t, k.str[s].mark), t1, Sides)
        t3 == FoldSet(LAMBDA p, t : Settle(t, p), t2, DOMAIN k.pairs \cup k.cands)
        gone == {e \in DOMAIN m.pending : Covers(d, e)}
        t4 == FoldSet(LAMBDA e, t : CloseMarker(t, m.pending[e].guard), t3, gone)
    IN  [m EXCEPT
           !.t = t4,
           !.pending = [e \in DOMAIN @ \ gone |-> @[e]],
           !.routes = {r \in @ : ~(r.op = "list" /\ r.dir = d)},
           !.active[d] = [k EXCEPT
               !.flat = TRUE, !.str = fresh, !.pairs = Empty, !.cands = {},
               !.heads = [s \in Sides |-> {}], !.kids = 0, !.flushed = FALSE,
               !.out = @ - Cardinality(DOMAIN k.pairs) - Cardinality(k.cands),
               !.gen = @ + 1]]

(* max_by_key: the last of the directories with the most children.         *)
Worst(m, narrow) == CHOOSE e \in narrow : \A f \in narrow :
                        \/ m.active[f].kids < m.active[e].kids
                        \/ m.active[f].kids = m.active[e].kids /\ f <= e

NarrowPending(m) ==
    LET narrow == {e \in DOMAIN m.active : ~m.active[e].flat}
    IN  IF Cardinality(DOMAIN m.pending) > MaxPendingDirs /\ narrow # {}
        THEN FlattenDir(m, Worst(m, narrow)) ELSE m

EnqueueDir(m, d, mode) ==
    LET w == m.resume
        descend == w # 0 /\ Covers(d, w)
        guard == IF descend THEN w ELSE d
    IN  IF w # 0 /\ ~descend /\ d <= w THEN m
        ELSE NarrowPending([m EXCEPT
                !.t = OpenMarker(@, guard),
                !.pending = Put(@, d, [mode |-> mode, guard |-> guard])])

NewMachine(rule, resume) ==
    EnqueueDir([t |-> NewTracker, resume |-> resume, rule |-> rule,
                pending |-> Empty, active |-> Empty, copies |-> <<>>,
                deletes |-> <<>>, heads |-> <<>>, routes |-> {}, pages |-> 0,
                trunc |-> FALSE, drained |-> FALSE], 0, "Compare")

ActivateDir(m, d) ==
    LET pd == m.pending[d]
        resumed == m.resume # 0 /\ Covers(d, m.resume)
        mark == IF resumed THEN m.resume ELSE d
        tok == IF resumed THEN ResumeToken(d, m.resume) ELSE 0
        t1 == FoldSet(LAMBDA s, t : OpenMarker(t, mark), m.t, SidesOf(pd.mode))
        t2 == IF pd.guard = d THEN Settle(OpenItem(t1, d), d) ELSE t1
    IN  [m EXCEPT
           !.t = CloseMarker(t2, pd.guard),
           !.pending = Drop(@, d),
           !.active = Put(@, d, [mode |-> pd.mode, flat |-> FALSE,
                str |-> Streams(pd.mode, tok, mark), kids |-> 0, out |-> 0,
                errs |-> 0, cands |-> {}, pairs |-> Empty,
                heads |-> [s \in Sides |-> {}], flushed |-> FALSE, gen |-> 0])]

RECURSIVE ActivatePending(_)
ActivatePending(m) ==
    IF Cardinality(DOMAIN m.active) < DirWorkers /\ DOMAIN m.pending # {}
    THEN ActivatePending(ActivateDir(m, Min(DOMAIN m.pending)))
    ELSE m

Backpressured(m) == Len(m.copies) + Len(m.deletes) >= ActionBuffer

CopyOp(m, d, p) == [op |-> "copy", dir |-> d, rel |-> p, gen |-> m.active[d].gen]

EmitCopy(m, d, p) ==
    [m EXCEPT !.routes = @ \cup {CopyOp(m, d, p)},
              !.copies = Append(@, CopyOp(m, d, p)),
              !.active[d].out = @ + 1]

EmitDecision(m, d, p, copy) ==
    LET m1 == WithTracker(m, OpenItem(m.t, p))
    IN  IF copy THEN EmitCopy(m1, d, p) ELSE SettlePath(m1, p)

HeadsDue(b, force) == b # {} /\ (force \/ Cardinality(b) >= HeadBatch)

(* Send out a side's batch of HEADs when it is full, or when forced. *)
FlushHeads(m, d, force) ==
    LET Flush(mm, s) ==
          LET batch == mm.active[d].heads[s]
              op == [op |-> "head", dir |-> d, side |-> s, keys |-> batch,
                     gen |-> mm.active[d].gen]
          IN  IF ~HeadsDue(batch, force) THEN mm
              ELSE [mm EXCEPT !.active[d].heads[s] = {},
                              !.routes = @ \cup {op},
                              !.heads = Append(@, op)]
    IN  Flush(Flush(m, "src"), "dst")

ClassifyPair(m, d, p, sv, dv) ==
    LET need == {s \in Sides : NeedHead(m.rule, s)}
        open == [m EXCEPT !.t = OpenItem(@, p),
                   !.active[d].out = @ + 1,
                   !.active[d].pairs = Put(@, p,
                        [wait |-> need, facts |-> [src |-> sv, dst |-> dv]]),
                   !.active[d].heads =
                        [s \in Sides |-> IF s \in need THEN @[s] \cup {p} ELSE @[s]]]
    IN  IF need = {} THEN EmitDecision(m, d, p, ShouldReplicate(m.rule, p, sv, dv))
        ELSE FlushHeads(open, d, FALSE)

FlattenIfWide(m, d, wide) == IF wide THEN FlattenDir(m, d) ELSE m

DiscoverChild(m, d, c, mode) ==
    IF SkipDir(c) \/ (mode = "DestOnly" /\ ~m.rule.deletes) THEN m
    ELSE LET m1 == [m EXCEPT !.active[d].kids = @ + 1]
         IN  IF m.active[d].flat THEN m1
             ELSE FlattenIfWide(EnqueueDir(m1, c, mode), d,
                                m.active[d].kids + 1 > m.rule.maxKids)

Settled(m, p) == m.resume # 0 /\ p <= m.resume      \* resume_settled

ClassifySrc(m, d, e) ==
    IF Settled(m, e.path) THEN m
    ELSE EmitDecision(m, d, e.path, ShouldReplicate(m.rule, e.path, e.ver, 0))

ClassifyDestOnly(m, d, e) ==
    IF ~m.rule.deletes \/ Settled(m, e.path) \/ Internal(e.path)
         THEN m
    ELSE [m EXCEPT !.t = OpenItem(@, e.path),
                   !.active[d].out = @ + 1,
                   !.active[d].cands = @ \cup {e.path}]

ClassifyBoth(m, d, se, de) ==
    IF Settled(m, se.path) THEN m
    ELSE ClassifyPair(m, d, se.path, se.ver, de.ver)

(* pop_merge and pop_single: the sides whose head may be classified now.   *)
(* A head is safe when the other side has been listed past it.             *)
Pops(k) ==
    LET s == k.str["src"]
        d == k.str["dst"]
        Known(o, p) == ~o.live \/ o.exh \/ (o.seen # 0 /\ p <= o.seen)
    IN  CASE s.buf # <<>> /\ d.buf # <<>> ->
               {x \in Sides : /\ x = "src" => Head(s.buf).path <= Head(d.buf).path
                              /\ x = "dst" => Head(d.buf).path <= Head(s.buf).path}
          [] s.buf # <<>> /\ d.buf = <<>> ->
               IF Known(d, Head(s.buf).path) THEN {"src"} ELSE {}
          [] s.buf = <<>> /\ d.buf # <<>> ->
               IF Known(s, Head(d.buf).path) THEN {"dst"} ELSE {}
          [] OTHER -> {}

Take(m, d, sides) ==
    [m EXCEPT !.active[d].str =
        [s \in Sides |-> IF s \in sides THEN [@[s] EXCEPT !.buf = Tail(@)] ELSE @[s]]]

(* Classify first (opening items and guards), then move the frontiers. *)
ModeOf(sides) == CASE sides = Sides -> "Compare"
                   [] sides = {"src"} -> "SrcOnly"
                   [] sides = {"dst"} -> "DestOnly"

ApplyMerged(m, d, sides) ==
    LET k == m.active[d]
        m1 == Take(m, d, sides)
        p == Head(k.str[CHOOSE s \in sides : TRUE].buf).path
    IN  IF p \in Dirs THEN DiscoverChild(m1, d, p, ModeOf(sides))
        ELSE IF sides = Sides
        THEN ClassifyBoth(m1, d, Head(k.str["src"].buf), Head(k.str["dst"].buf))
        ELSE IF sides = {"src"} THEN ClassifySrc(m1, d, Head(k.str["src"].buf))
        ELSE ClassifyDestOnly(m1, d, Head(k.str["dst"].buf))

Advance(m, d, s, p) ==
    LET str == m.active[d].str[s]
    IN  IF p > str.mark /\ ~str.closed
        THEN [m EXCEPT !.t = AdvanceMarker(@, str.mark, p),
                       !.active[d].str[s].mark = p]
        ELSE m

AdvancePopped(m, d, sides, p) ==
    LET m1 == IF "src" \in sides THEN Advance(m, d, "src", p) ELSE m
    IN  IF "dst" \in sides THEN Advance(m1, d, "dst", p) ELSE m1

CloseStream(m, d, s) ==
    IF m.active[d].str[s].closed THEN m
    ELSE [m EXCEPT !.t = CloseMarker(@, m.active[d].str[s].mark),
                   !.active[d].str[s].closed = TRUE]

CloseIfDrained(m, d, s) ==
    IF Drained(m.active[d].str[s]) THEN CloseStream(m, d, s) ELSE m

RECURSIVE AdvanceDir(_, _)

(* A flatten replaces the streams, and the frontier belongs to the new     *)
(* ones.                                                                   *)
AdvanceOn(m, d, sides, gen, p) ==
    IF m.active[d].gen # gen THEN m ELSE AdvanceDir(AdvancePopped(m, d, sides, p), d)

AdvanceDir(m, d) ==
    IF Backpressured(m) \/ m.drained \/ d \notin DOMAIN m.active THEN m
    ELSE
    LET k == m.active[d]
        sides == Pops(k)
        p == Head(k.str[CHOOSE s \in sides : TRUE].buf).path
    IN  IF sides = {} THEN CloseIfDrained(CloseIfDrained(m, d, "src"), d, "dst")
        ELSE AdvanceOn(ApplyMerged(m, d, sides), d, sides, k.gen, p)

DeleteOp(m, d, p) == [op |-> "delete", dir |-> d, rel |-> p, gen |-> m.active[d].gen]

(* The candidates of a quiet directory: deletes when it was clean, else    *)
(* they are left for the next pass.                                        *)
FlushDeletes(m, d) ==
    LET k == m.active[d]
        clean == k.errs = 0 /\ ~m.trunc /\ ~m.drained
        m1 == [m EXCEPT !.active[d].flushed = TRUE, !.active[d].cands = {}]
        Send(mm, p) == [mm EXCEPT !.routes = @ \cup {DeleteOp(m, d, p)},
                                  !.deletes = Append(@, DeleteOp(m, d, p))]
        Keep(mm, p) == SettlePath([mm EXCEPT !.active[d].out = @ - 1], p)
    IN  IF k.flushed THEN m
        ELSE IF clean THEN InOrder(k.cands, m1, Send) ELSE InOrder(k.cands, m1, Keep)

MaybeCompleteDir(m, d) ==
    IF d \notin DOMAIN m.active \/ ~ListingsDone(m.active[d]) THEN m
    ELSE
    LET m1 == FlushHeads(m, d, TRUE)
        k == m1.active[d]
        quiet == k.pairs = Empty /\ k.out = Cardinality(k.cands)
        m2 == FlushDeletes(m1, d)
        m3 == CloseStream(CloseStream(m2, d, "src"), d, "dst")
    IN  IF ~quiet THEN m1
        ELSE IF m2.active[d].out > 0 THEN m2
        ELSE [m3 EXCEPT !.active = Drop(@, d)]

AdvanceAllDirs(m) ==
    InOrder(DOMAIN m.active, m,
            LAMBDA mm, d : MaybeCompleteDir(AdvanceDir(mm, d), d))

-----------------------------------------------------------------------------
(* on_event.                                                               *)

OnListPage(m, op, page, more) ==
    LET d == op.dir
        s == m.active[d].str[op.side]
        new == SelectSeq(page, LAMBDA e : e.path > s.seen)
        s1 == [s EXCEPT !.inf = FALSE, !.buf = @ \o new,
                        !.seen = IF new = <<>> THEN @ ELSE new[Len(new)].path,
                        !.exh = ~more,
                        !.tok = IF more THEN page[Len(page)].path ELSE 0]
        m1 == [m EXCEPT !.routes = @ \ {op}, !.active[d].str[op.side] = s1]
    IN  IF op \notin m.routes THEN m
        ELSE MaybeCompleteDir(AdvanceDir(m1, d), d)

OnListFailed(m, op) == [m EXCEPT !.routes = @ \ {op}, !.drained = TRUE]

OnSettled(m, op, ok) ==
    LET m1 == SettlePath([m EXCEPT !.routes = @ \ {op}], op.rel)
        m2 == [m1 EXCEPT !.active[op.dir].out = @ - 1,
                         !.active[op.dir].errs =
                             IF op.op = "copy" /\ ~ok THEN @ + 1 ELSE @]
    IN  IF op \notin m.routes THEN m
        ELSE MaybeCompleteDir(IF op.dir \in DOMAIN m.active THEN m2 ELSE m1, op.dir)

(* try_decide_pair, once every side that needs a HEAD has answered. *)
Decide(m, d, p) ==
    LET f == m.active[d].pairs[p].facts
        m1 == [m EXCEPT !.active[d].pairs = Drop(@, p), !.active[d].out = @ - 1]
    IN  IF ShouldReplicate(m.rule, p, f["src"], f["dst"]) THEN EmitCopy(m1, d, p)
        ELSE SettlePath(m1, p)

(* One answer of a HEAD batch, 0 for NoSuchKey: a source that vanished is  *)
(* settled without a copy, a destination without an answer counts absent.  *)
OnHead(m, op, p, r) ==
    LET d == op.dir
        m1 == [m EXCEPT !.active[d].pairs[p].facts[op.side] = r,
                        !.active[d].pairs[p].wait = @ \ {op.side}]
    IN  IF d \notin DOMAIN m.active \/ p \notin DOMAIN m.active[d].pairs THEN m
        ELSE IF op.side = "src" /\ r = 0
        THEN SettlePath([m EXCEPT !.active[d].pairs = Drop(@, p),
                                  !.active[d].out = @ - 1], p)
        ELSE IF m1.active[d].pairs[p].wait = {} THEN Decide(m1, d, p) ELSE m1

OnHeadsDone(m, op, res) ==
    LET m1 == [m EXCEPT !.routes = @ \ {op}]
    IN  IF op \notin m.routes \/ op.dir \notin DOMAIN m.active THEN m1
        ELSE MaybeCompleteDir(
                 InOrder(op.keys, m1, LAMBDA mm, p : OnHead(mm, op, p, res[p])),
                 op.dir)

-----------------------------------------------------------------------------
(* poll: at most the free slots of each kind.                              *)

ListOp(m, d, s) == [op |-> "list", dir |-> d, side |-> s, gen |-> m.active[d].gen]

(* One stream's turn in the listing loop: x = [m, out, stop]. *)
IssueList(x, d, s) ==
    LET str == x.m.active[d].str[s]
        op == ListOp(x.m, d, s)
    IN  IF x.stop \/ x.slots = 0 \/ ~NeedsPage(str) \/ Backpressured(x.m) THEN x
        ELSE IF x.m.pages >= x.m.rule.budget
        THEN [x EXCEPT !.m.trunc = TRUE, !.stop = TRUE]
        ELSE [x EXCEPT !.m.active[d].str[s].inf = TRUE,
                       !.m.routes = @ \cup {op}, !.m.pages = @ + 1,
                       !.out = @ \cup {op}, !.slots = @ - 1]

IssueLists(m, slots) ==
    InOrder(DOMAIN m.active, [m |-> m, out |-> {}, slots |-> slots, stop |-> FALSE],
            LAMBDA x, d : IssueList(IssueList(x, d, "src"), d, "dst"))

Free(cap, fl, kinds) ==
    LET n == Cardinality({o \in fl : o.op \in kinds})
    IN  IF cap > n THEN cap - n ELSE 0

FirstN(q, n) == SubSeq(q, 1, IF n < Len(q) THEN n ELSE Len(q))
RestN(q, n)  == SubSeq(q, n + 1, Len(q))

(* The lists that were issued, then the other queues' heads.               *)
TakeQueues(x, fl) ==
    LET h == Free(2, fl, {"head"})
        c == Free(Transfers, fl, {"copy"})
        e == Free(2, fl, {"delete"})
    IN  [m |-> [x.m EXCEPT !.heads = RestN(@, h), !.copies = RestN(@, c),
                           !.deletes = RestN(@, e)],
         out |-> x.out \cup Range(FirstN(x.m.heads, h))
                 \cup Range(FirstN(x.m.copies, c))
                 \cup Range(FirstN(x.m.deletes, e))]

Poll(m, fl) ==
    IF m.drained THEN [m |-> m, out |-> {}]
    ELSE TakeQueues(IssueLists(AdvanceAllDirs(ActivatePending(m)),
                               Free(2 * DirWorkers, fl, {"list"})), fl)

IsIdle(m) == m.routes = {} /\ m.heads = <<>> /\ m.copies = <<>> /\ m.deletes = <<>>
IsDone(m) == /\ ~m.drained /\ ~m.trunc /\ IsIdle(m)
             /\ m.pending = Empty /\ m.active = Empty

Cursor(m) == IF m.t.wm # 0 THEN m.t.wm ELSE m.resume

-----------------------------------------------------------------------------
(* The driver.                                                             *)

VARIABLES
    src,        \* the source bucket: object -> version
    dst,        \* the destination of each scope of the rule
    rule,       \* the configured rule
    m,          \* the machine of the run in progress, or Nil
    inflight,   \* commands in flight -> what they have seen so far
    run,        \* the driver's flags of the run in progress
    cursor,     \* replication_state.continuation_token
    fails, hot, \* the failure ledger: counts, and keys still in backoff
    halts, faults,   \* bounds used up
    excused,    \* ghost: keys changed or failed since this pass began
    absent      \* ghost: deletes whose key the source lacked since they were sent

db == <<cursor, fails, hot>>
vars == <<src, dst, rule, m, inflight, run, db, halts, faults, excused, absent>>

Nil == [idle |-> TRUE]
Walking == m # Nil
Version == 0..MaxVersion
Scopes == 0..1
NoCursor == [pos |-> 0, scope |-> 0]
IdleRun == [fatal |-> FALSE, err |-> FALSE, copied |-> FALSE, first |-> FALSE,
            resumed |-> FALSE, poison |-> FALSE, clear |-> {}, status |-> "none"]

LoadCursor == IF cursor.scope = rule.scope THEN cursor.pos ELSE 0
CursorOf(mm) == [pos |-> Cursor(mm), scope |-> IF Cursor(mm) = 0 THEN 0 ELSE mm.rule.scope]

\* The rows of the failure ledger, and the run row.
Poisoned(p) == SkipAfter > 0 /\ fails[p] >= SkipAfter /\ p \in hot
RecordFailure(p) == [fails EXCEPT ![p] = IF @ < MaxFaults THEN @ + 1 ELSE @]
ClearFailures(ledger, keys) == [p \in Objs |-> IF p \in keys THEN 0 ELSE ledger[p]]
FinishedRun(status) == [IdleRun EXCEPT !.status = status]

(* Poll and dispatch.  A copy of a poisoned object is settled on the spot; *)
(* the loop polls again until something is in flight or nothing is sent.   *)
Dispatch(x, fl, skip) ==
    [m |-> FoldSet(LAMBDA o, acc : OnSettled(acc, o, TRUE), x.m, skip),
     fl |-> [o \in DOMAIN fl \cup (x.out \ skip) |->
               IF o \in DOMAIN fl THEN fl[o]
               ELSE IF o.op = "copy" THEN src[o.rel] ELSE 0],
     skip |-> skip]

PoisonedOf(out) == {o \in out : o.op = "copy" /\ Poisoned(o.rel)}
DispatchAll(x, fl) == Dispatch(x, fl, PoisonedOf(x.out))
Excusing(y, skip) == [y EXCEPT !.skip = @ \cup skip]

RECURSIVE PumpOn(_)
PumpOn(x) ==
    IF x.skip # {} /\ DOMAIN x.fl = {}
    THEN Excusing(PumpOn(DispatchAll(Poll(x.m, {}), x.fl)), x.skip)
    ELSE x
Pump(mm, fl) == PumpOn(DispatchAll(Poll(mm, DOMAIN fl), fl))

(* The end of a loop round: m1 after the event, fl1 without the command    *)
(* that was answered, ck when the fused checkpoint is due; ex are the keys *)
(* this round excuses.                                                     *)
Install(x, fl1) ==
    /\ m' = x.m
    /\ inflight' = x.fl
    /\ absent' = (absent \cap DOMAIN x.fl)
                    \cup {o \in DOMAIN x.fl \ fl1 : o.op = "delete" /\ src[o.rel] = 0}

Checkpoint(m1, run1, fails1, ck) ==
    IF ck THEN /\ cursor' = CursorOf(m1)
               /\ fails' = ClearFailures(fails1, run1.clear)
               /\ run' = [run1 EXCEPT !.clear = {}]
    ELSE run' = run1 /\ fails' = fails1 /\ UNCHANGED cursor

Round(m1, fl1, run1, fails1, ex, ck) ==
    \E x \in {Pump(m1, fl1)} :
        /\ Install(x, DOMAIN fl1)
        /\ excused' = excused \cup ex \cup {o.rel : o \in x.skip}
        /\ Checkpoint(m1, run1, fails1, ck)

StartRun ==
    /\ ~Walking
    /\ \E x \in {Pump(NewMachine(rule, LoadCursor), Empty)} :
         /\ m' = x.m /\ inflight' = x.fl
         /\ run' = [IdleRun EXCEPT !.resumed = LoadCursor # 0]
         /\ excused' = (IF LoadCursor = 0 THEN {} ELSE excused)
                           \cup {o.rel : o \in x.skip}
    /\ UNCHANGED <<src, dst, rule, db, halts, faults, absent>>

(* What one side lists after a token, in order: objects, and directories   *)
(* that hold an object when the listing is delimited.                      *)
Listing(s, op) ==
    LET ver == IF s = "src" THEN src ELSE dst[m.rule.scope]
        k == m.active[op.dir]
        has(p) == IF p \in Dirs THEN \E q \in Objs : Under(p, q) /\ ver[q] # 0
                  ELSE ver[p] # 0
        all == {p \in Path : /\ has(p)
                             /\ IF k.flat THEN p \in Objs /\ Under(op.dir, p)
                                ELSE Child(op.dir, p)
                             /\ p > k.str[s].tok}
    IN  [i \in 1..Cardinality(all) |->
           LET p == SetToSortSeq(all, LAMBDA x, y : x < y)[i]
           IN  [path |-> p, ver |-> IF p \in Objs THEN ver[p] ELSE 0]]

Answered(op) == Drop(inflight, op)
Quiet == UNCHANGED <<src, dst, rule, hot, halts, faults>>

ListDone(op) ==
    /\ op.op = "list"
    /\ LET all == IF op \in m.routes THEN Listing(op.side, op) ELSE <<>>
           page == FirstN(all, PageSize)
       IN  \E ck \in BOOLEAN :
             Round(OnListPage(m, op, page, Len(all) > PageSize), Answered(op),
                   [run EXCEPT !.first = TRUE], fails, {}, ck)
    /\ Quiet

(* A failed listing is fatal; a resumed run whose first listing fails has  *)
(* its cursor cleared.                                                     *)
ListFailed(op) ==
    /\ op.op = "list" /\ faults < MaxFaults
    /\ faults' = faults + 1
    /\ \E x \in {Pump(OnListFailed(m, op), Answered(op))},
          stale \in {run.resumed /\ ~run.first} :
           /\ m' = x.m /\ inflight' = x.fl
           /\ run' = [run EXCEPT !.fatal = TRUE, !.poison = @ \/ stale]
           /\ cursor' = IF stale THEN NoCursor ELSE cursor
    /\ UNCHANGED <<src, dst, rule, fails, hot, halts, excused, absent>>

HeadsDone(op) ==
    /\ op.op = "head"
    /\ LET now == [p \in op.keys |-> IF op.side = "src" THEN src[p]
                                     ELSE dst[m.rule.scope][p]]
       IN  \E ck \in BOOLEAN :
             Round(OnHeadsDone(m, op, now), Answered(op), run, fails, {}, ck)
    /\ Quiet

(* A HEAD that fails: the source falls back to the listing's own facts,    *)
(* which compare any way, the destination counts as absent.                *)
HeadFailed(op, p) ==
    /\ op.op = "head" /\ p \in op.keys /\ faults < MaxFaults
    /\ faults' = faults + 1
    /\ \E v \in IF op.side = "src" THEN 1..MaxVersion ELSE {0} :
         LET now == [q \in op.keys |-> IF q = p THEN v
                                      ELSE IF op.side = "src" THEN src[q]
                                      ELSE dst[m.rule.scope][q]]
         IN  Round(OnHeadsDone(m, op, now), Answered(op), run, fails,
                   IF op.side = "src" THEN {p} ELSE {}, FALSE)
    /\ UNCHANGED <<src, dst, rule, hot, halts>>

(* A copy lands: it carries the version it found at the start or one       *)
(* written since.                                                          *)
CopyDone(op) ==
    /\ op.op = "copy"
    /\ \E v \in {inflight[op], src[op.rel]} \ {0} :
         dst' = [dst EXCEPT ![m.rule.scope][op.rel] = v]
    /\ \E ck \in BOOLEAN :
         Round(OnSettled(m, op, TRUE), Answered(op),
               [run EXCEPT !.copied = TRUE, !.clear = @ \cup {op.rel}], fails, {}, ck)
    /\ UNCHANGED <<src, rule, hot, halts, faults>>

CopyMissing(op) == op.op = "copy" /\ (inflight[op] = 0 \/ src[op.rel] = 0)

(* A copy fails.  A throttled one is not held against the object; a        *)
(* throttled or unusable destination drains the machine.                   *)
CopyFailed(op, throttled, fatal) ==
    /\ op.op = "copy"
    /\ IF CopyMissing(op) THEN ~throttled /\ ~fatal /\ UNCHANGED faults
       ELSE faults < MaxFaults /\ faults' = faults + 1
    /\ hot' = IF throttled THEN hot ELSE hot \cup {op.rel}
    /\ LET m1 == OnSettled(m, op, FALSE)
           m2 == IF fatal THEN [m1 EXCEPT !.drained = TRUE] ELSE m1
           f1 == IF throttled THEN fails ELSE RecordFailure(op.rel)
       IN  \E ck \in BOOLEAN :
             Round(m2, Answered(op), [run EXCEPT !.err = TRUE, !.fatal = @ \/ fatal],
                   f1, {op.rel}, ck)
    /\ UNCHANGED <<src, dst, rule, halts>>

\* Mutant: the listing's word is enough.
SourceAssumedGone(p) == TRUE
SourceGone(p) == src[p] = 0

(* execute_delete: the HEAD of the source, then the delete. *)
DeleteHead(op) ==
    /\ op.op = "delete" /\ inflight[op] = 0
    /\ IF SourceGone(op.rel)
       THEN /\ inflight' = [inflight EXCEPT ![op] = 1]
            /\ UNCHANGED <<m, run, cursor, fails, excused, absent>>
       ELSE \E ck \in BOOLEAN :
              Round(OnSettled(m, op, TRUE), Answered(op), run, fails, {}, ck)
    /\ Quiet

DeleteDone(op) ==
    /\ op.op = "delete" /\ inflight[op] = 1
    /\ dst' = [dst EXCEPT ![m.rule.scope][op.rel] = 0]
    /\ \E ck \in BOOLEAN :
         Round(OnSettled(m, op, TRUE), Answered(op), run, fails, {}, ck)
    /\ UNCHANGED <<src, rule, hot, halts, faults>>

DeleteFailed(op) ==
    /\ op.op = "delete" /\ faults < MaxFaults
    /\ faults' = faults + 1
    /\ Round(OnSettled(m, op, FALSE), Answered(op), [run EXCEPT !.err = TRUE],
             fails, {}, FALSE)
    /\ UNCHANGED <<src, dst, rule, hot, halts>>

-----------------------------------------------------------------------------
(* The end of a run.                                                       *)

\* Mutant: a truncated pass counts as complete.
ClearsOnTruncation(killed, paused, fatal, truncated) == ~killed /\ ~paused /\ ~fatal
ClearsCursor(killed, paused, fatal, truncated) ==
    ~killed /\ ~paused /\ ~fatal /\ ~truncated

SettleRun(killed, paused, fatal, err, copied, truncated) ==
    [status |-> IF killed THEN "cancelled"
                ELSE IF paused THEN "stopped"
                ELSE IF fatal \/ (err /\ ~copied) THEN "failed"
                ELSE IF truncated THEN "stopped"
                ELSE IF err THEN "completed_with_errors" ELSE "succeeded",
     clear |-> ClearsCursor(killed, paused, fatal, truncated)]

(* After the loop: the pending ledger clears, then the cursor and the run  *)
(* row under one lock.                                                     *)
EndRun(killed, paused, fatal) ==
    LET truncated == m.trunc \/ (~killed /\ ~paused /\ ~fatal /\ ~IsDone(m))
        v == SettleRun(killed, paused, fatal, run.err, run.copied, truncated)
    IN  /\ fails' = ClearFailures(fails, run.clear)
        /\ cursor' = IF v.clear THEN NoCursor
                     ELSE IF run.poison \/ Cursor(m) = 0 THEN cursor
                     ELSE CursorOf(m)
        /\ run' = FinishedRun(v.status)
        /\ m' = Nil
        /\ inflight' = Empty

(* Nothing in flight and nothing to send.  A kill asked for while the last *)
(* answers came in is still honoured.                                      *)
Finish(killed) ==
    /\ Walking /\ inflight = Empty
    /\ IF killed THEN halts < MaxHalts /\ halts' = halts + 1 ELSE UNCHANGED halts
    /\ EndRun(killed, FALSE, run.fatal)
    /\ UNCHANGED <<src, dst, rule, hot, faults, excused, absent>>

\* The arms of the control boundary.
Stop(why) == EndRun(why = "kill", why = "pause", run.fatal \/ why = "lease")

(* A control check stops the run: kill, pause (also a destination under    *)
(* maintenance), a lost lease.  The commands in flight are dropped; any of *)
(* them may have taken effect.                                             *)
Halt(why) ==
    /\ Walking /\ halts < MaxHalts
    /\ halts' = halts + 1
    /\ \E done \in SUBSET {o \in DOMAIN inflight : inflight[o] # 0 /\ o.op \in {"copy", "delete"}} :
         dst' = [dst EXCEPT ![m.rule.scope] =
                   [p \in Objs |-> IF \E o \in done : o.op = "delete" /\ o.rel = p THEN 0
                                   ELSE IF \E o \in done : o.rel = p
                                   THEN inflight[CHOOSE o \in done : o.rel = p]
                                   ELSE @[p]]]
    /\ Stop(why)
    /\ UNCHANGED <<src, rule, hot, faults, excused, absent>>

(* The process dies; at boot the run row is marked failed, the cursor and  *)
(* the ledger are what the last checkpoint left.                           *)
Crash ==
    /\ Walking /\ halts < MaxHalts
    /\ halts' = halts + 1
    /\ m' = Nil /\ inflight' = Empty /\ run' = [IdleRun EXCEPT !.status = "failed"]
    /\ UNCHANGED <<src, dst, rule, db, faults, excused, absent>>

-----------------------------------------------------------------------------
(* The others: clients of the source, the event consumer that copies on    *)
(* its own, an operator who retargets the rule, time.                      *)

ClientWrite(p, v) ==
    /\ faults < MaxFaults
    /\ v # src[p]
    /\ faults' = faults + 1
    /\ src' = [src EXCEPT ![p] = v]
    /\ excused' = excused \cup {p}
    /\ absent' = absent \cup {o \in DOMAIN inflight : o.op = "delete" /\ o.rel = p /\ v = 0}
    /\ UNCHANGED <<dst, rule, m, inflight, run, db, halts>>

PeerCopy(p) ==
    /\ faults < MaxFaults
    /\ src[p] # 0 /\ ~GlobbedOut(p) /\ dst[rule.scope][p] # src[p]
    /\ faults' = faults + 1
    /\ dst' = [dst EXCEPT ![rule.scope][p] = src[p]]
    /\ UNCHANGED <<src, rule, m, inflight, run, db, halts, excused, absent>>

EditRule ==
    /\ halts < MaxHalts /\ rule.scope = 0
    /\ halts' = halts + 1
    /\ rule' = [rule EXCEPT !.scope = 1]
    /\ UNCHANGED <<src, dst, m, inflight, run, db, faults, excused, absent>>

Cool(p) ==
    /\ p \in hot
    /\ hot' = hot \ {p}
    /\ UNCHANGED <<src, dst, rule, m, inflight, run, cursor, fails, halts, faults,
                   excused, absent>>

Init ==
    /\ \E u \in Setups : rule = u.rule /\ src = u.src /\ dst = u.dst
    /\ m = Nil /\ inflight = Empty /\ run = IdleRun
    /\ cursor = NoCursor /\ fails = [p \in Objs |-> 0] /\ hot = {}
    /\ halts = 0 /\ faults = 0 /\ excused = {} /\ absent = {}

Answer(op) == \/ ListDone(op) \/ HeadsDone(op) \/ CopyDone(op)
              \/ DeleteHead(op) \/ DeleteDone(op)
              \/ CopyMissing(op) /\ CopyFailed(op, FALSE, FALSE)

Fault(op) == \/ ListFailed(op) \/ DeleteFailed(op)
             \/ \E p \in Objs : HeadFailed(op, p)
             \/ \E th, fa \in BOOLEAN : op.op = "copy" /\ ~CopyMissing(op) /\ CopyFailed(op, th, fa)

Next ==
    \/ StartRun
    \/ \E op \in DOMAIN inflight : Answer(op) \/ Fault(op)
    \/ \E k \in BOOLEAN : Finish(k)
    \/ \E why \in {"kill", "pause", "lease"} : Halt(why)
    \/ Crash \/ EditRule
    \/ \E p \in Volatile : (\E v \in Version : ClientWrite(p, v)) \/ PeerCopy(p)
    \/ \E p \in Objs : Cool(p)

(* The scheduler starts due rules for ever (StartRun), the loop breaks     *)
(* when nothing is left (Finish), every request in flight ends (the object *)
(* timeout and the SDK's timeouts), and backoffs run out.  The first two   *)
(* actions disable themselves and are enabled in the states named, so weak *)
(* fairness of them is that those states are left again and again; only    *)
(* finitely many steps other than answers change inflight without emptying *)
(* it, so the third line is weak fairness of the answers.                  *)
Fairness ==
    /\ []<>Walking
    /\ []<>~(Walking /\ inflight = Empty)
    /\ []<>(inflight = Empty) \/ []<><<inflight' # inflight>>_vars
    /\ \A p \in Objs : WF_vars(Cool(p))

Spec == Init /\ [][Next]_vars /\ Fairness

-----------------------------------------------------------------------------
(* Properties.                                                             *)

(* The cursor on disk is a complete resume position ("everything <= pos is *)
(* settled"): whatever order copies, HEADs and pages came back in, and     *)
(* whether the run was halted, died or flattened a directory, a source     *)
(* object at or below it that nobody changed and whose copy did not fail   *)
(* in this pass is already in its place at the destination.                *)
CursorSound ==
    cursor.pos # 0 /\ cursor.scope = rule.scope =>
        \A p \in Objs :
            p <= cursor.pos /\ p \notin excused /\ src[p] # 0
                => ~ShouldReplicate(rule, p, src[p], dst[cursor.scope][p])

(* The walk keeps the tracker's contract: nothing is open below the        *)
(* watermark, so the watermark never moves back.                           *)
WalkGuarded == Walking => Guarded(m.t)

(* The walk cannot stall: with no command in flight and nothing to send,   *)
(* the pass is complete, or it was drained or ran out of pages.  (A pair   *)
(* whose HEAD batch is never sent, a directory whose count of outstanding  *)
(* work is off by one after a flatten, would stall it.)                    *)
NoStall == Walking /\ inflight = Empty => m.drained \/ m.trunc \/ IsDone(m)

(* The mirror delete is safe against a source object that comes back: the  *)
(* walk removes a destination object only if the source was without it at  *)
(* some time after the delete was sent out.                                *)
DeleteOnlyGone ==
    [][\A s \in Scopes, p \in Objs :
          dst[s][p] # 0 /\ dst'[s][p] = 0 => \E o \in absent : o.rel = p]_vars

InSync(p) == /\ src[p] # 0 => ~ShouldReplicate(rule, p, src[p], dst[rule.scope][p])
             /\ (src[p] = 0 /\ rule.deletes /\ ~Internal(p))
                    => dst[rule.scope][p] = 0

(* Once faults, halts and clients stop, the scheduled runs make the        *)
(* destination a mirror of the source, and it stays one.                   *)
Mirrored == <>[](\A p \in Objs : InSync(p))

(* A run that exhausts its page budget keeps its cursor "so the next tick  *)
(* resumes the tail": with no faults at all, every source object is        *)
(* brought over by some run.  It is not: a delete candidate stays open     *)
(* until its directory's listing is complete, so it pins the watermark,    *)
(* and every run lists the same pages again.                               *)
TailResumed == \A p \in Objs : <>(src[p] # 0 => dst[rule.scope][p] = src[p])
=============================================================================
