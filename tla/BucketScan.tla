----------------------------- MODULE BucketScan -----------------------------
(* The registry of a bucket's savings scans (api/admin/bucket_scan.rs): at *)
(* most one scan runs, its result is written to a file and then shown, a   *)
(* running scan can be cancelled, a result forgotten, and a restart loads  *)
(* the files.  A result is the number of its scan.  The worker publishes   *)
(* under the registry's lock; forget deletes the file after releasing it.  *)
EXTENDS Naturals

CONSTANTS
    MaxPages,       \* pages of the listing
    MaxScans, MaxForgets,
    Faults,         \* of {"list", "disk", "panic", "crash"}
    MaxFaults,
    None

VARIABLES
    entry,          \* None (idle), [state |-> "running"] or [state |-> "done", scan]
    file,           \* None, a scan's number, or 0 for a file cut short
    worker,         \* None or [scan, page, cancelled]
    forget,         \* a forget between the registry and the file
    prior,          \* the result that was shown when the running scan began
    cut,            \* the worker whose scan was cancelled and has ended
    clean,          \* the file was written, and by no forget crossed, since it was shown
    kept,           \* ghost: the latest scan whose result was written to the file
    scans, forgets, faults

vars == <<entry, file, worker, forget, prior, cut, clean, kept, scans, forgets, faults>>

Running == [state |-> "running", scan |-> 0]
Done(n) == [state |-> "done", scan |-> n]
Fault(f) == f \in Faults /\ faults < MaxFaults /\ faults' = faults + 1

TypeOK ==
    /\ entry \in {None, Running} \cup {Done(n) : n \in 1..MaxScans}
    /\ file \in {None} \cup 0..MaxScans
    /\ scans \in 0..MaxScans

Init ==
    /\ entry = None /\ file = None /\ worker = None
    /\ forget = FALSE /\ prior = None /\ cut = FALSE /\ clean = TRUE /\ kept = 0
    /\ scans = 0 /\ forgets = 0 /\ faults = 0

\* POST scan/start: a running scan is joined, otherwise the entry becomes Running.
start ==
    /\ entry # Running /\ scans < MaxScans
    /\ scans' = scans + 1
    /\ entry' = Running
    /\ worker' = [scan |-> scans + 1, page |-> 0, cancelled |-> FALSE]
    /\ prior' = entry
    /\ cut' = FALSE
    /\ UNCHANGED <<file, forget, clean, kept, forgets, faults>>

cancel ==
    /\ entry = Running /\ worker # None /\ ~worker.cancelled
    /\ worker' = [worker EXCEPT !.cancelled = TRUE]
    /\ UNCHANGED <<entry, file, forget, prior, cut, clean, kept, scans, forgets, faults>>

\* run_scan, a page of the listing at a time; the last page is of the references.
Page ==
    /\ worker # None /\ worker.page < MaxPages /\ ~worker.cancelled
    /\ worker' = [worker EXCEPT !.page = @ + 1]
    /\ UNCHANGED <<entry, file, forget, prior, cut, clean, kept, scans, forgets, faults>>

\* A cancelled or failed scan: its Running entry goes.
Drop ==
    /\ entry' = IF entry = Running THEN None ELSE entry
    /\ worker' = None
    /\ cut' = TRUE
    /\ UNCHANGED <<file, forget, prior, clean, kept, scans, forgets>>
Cancelled == worker # None /\ worker.cancelled /\ Drop /\ UNCHANGED faults
Failed == worker # None /\ ~worker.cancelled /\ Fault("list") /\ Drop

\* A cancel that comes after the last check is too late.
Finish ==
    /\ worker # None /\ worker.page = MaxPages
    /\ entry' = Done(worker.scan)
    /\ \/ /\ file' = worker.scan /\ clean' = ~forget /\ kept' = worker.scan
          /\ UNCHANGED faults
       \/ file' \in {file, 0} /\ clean' = FALSE /\ Fault("disk") /\ UNCHANGED kept
    /\ worker' = None
    /\ cut' = FALSE
    /\ UNCHANGED <<forget, prior, scans, forgets>>

Panic ==
    /\ worker # None /\ Fault("panic")
    /\ worker' = None
    /\ UNCHANGED <<entry, file, forget, prior, cut, clean, kept, scans, forgets>>

\* DELETE scan: the registry first, under its lock, then the file.
Forget ==
    /\ ~forget /\ forgets < MaxForgets
    /\ forgets' = forgets + 1
    /\ forget' = TRUE
    /\ entry' = IF entry # None /\ entry.state = "done" THEN None ELSE entry
    /\ prior' = None
    /\ UNCHANGED <<file, worker, cut, clean, kept, scans, faults>>
ForgetFile ==
    /\ forget
    /\ forget' = FALSE
    /\ \/ file' = None /\ UNCHANGED faults
       \/ Fault("disk") /\ UNCHANGED file
    /\ UNCHANGED <<entry, worker, prior, cut, clean, kept, scans, forgets>>

\* The process dies, perhaps while it writes the file, and load() reads what there is.
\* A file that cannot be parsed is removed.
Loaded(f) == IF f \in {None, 0} THEN None ELSE Done(f)
Restart ==
    /\ Fault("crash")
    /\ \E f \in {file} \cup (IF worker # None /\ worker.page = MaxPages THEN {0} ELSE {}) :
         /\ entry' = Loaded(f)
         /\ file' = IF f = 0 THEN None ELSE f
    /\ worker' = None /\ forget' = FALSE /\ prior' = None /\ cut' = FALSE /\ clean' = TRUE
    /\ UNCHANGED <<kept, scans, forgets>>

Next == start \/ cancel \/ Page \/ Cancelled \/ Failed \/ Finish \/ Panic
        \/ Forget \/ ForgetFile \/ Restart
Spec == Init /\ [][Next]_vars /\ WF_vars(Page) /\ WF_vars(Cancelled) /\ WF_vars(Finish)

-----------------------------------------------------------------------------
\* A result that is shown is in the file, to be shown again after a restart, unless the
\* write failed or a forget was under way when it was written (persist_scan, forget).
ShownIsKept ==
    entry # None /\ entry.state = "done" /\ clean /\ ~forget => file = entry.scan

\* Once a scan's result has been written to its file no result of an older scan is shown
\* any more, over failed writes, crossing forgets and restarts (persist_scan, load).
NothingOlder == entry # None /\ entry.state = "done" => entry.scan >= kept

\* A scan that works is shown as Running, so that nobody starts another beside it.
OneScan == worker # None => entry = Running

\* Running is shown only while somebody works.
NoneStuck == entry = Running => worker # None

\* As the module's head says: after a cancelled scan the result from before is shown.
FallsBack == cut /\ entry # Running => entry = prior
=============================================================================
