-------------------------------- MODULE Codec --------------------------------
(***************************************************************************)
(* One call of xdelta3 as a child process (codec.rs): a thread writes its  *)
(* input, one reads its output, one its messages, a watchdog kills it when *)
(* its time is over, and the caller joins them all and then waits for the  *)
(* child.  Pipes hold few bytes; who writes to a full one waits.           *)
(*                                                                         *)
(* The buffered call reads the output up to a limit and its watchdog waits *)
(* once for its deadline (pipe_stdin_stdout_stderr); the streaming call    *)
(* hands chunks to a sink that may refuse and its watchdog looks every     *)
(* second whether there was progress (pipe_streaming).  A byte stands for  *)
(* a pipe's worth of them.                                                 *)
(***************************************************************************)
EXTENDS Naturals

CONSTANTS
    Streaming,      \* TRUE: pipe_streaming
    Input, Output, Messages,    \* bytes the child reads and writes on its three pipes
    Pipe,           \* capacity of a pipe
    Limit,          \* bytes of output the reader, or its sink, takes
    Misbehaves,     \* what the child may do: of "hang", "die"
    Clock           \* TRUE: time may run out

VARIABLES
    child,          \* [state, got, put, said]: "run", "hung", "ok", "failed", "reaped"
    pipe,           \* bytes in [inp, out, err]
    shut,           \* closed by this process: [inp, out]
    thread,         \* [writer, reader, listener, watchdog, caller]: where each one is
    sent, taken,    \* bytes written to stdin, read from stdout
    done,           \* the flag that tells the watchdog to stand down
    signalled,      \* ghost: the state of the child when it was killed, or "none"
    result          \* of the call: "none", "ok", "error"

vars == <<child, pipe, shut, thread, sent, taken, done, signalled, result>>

Alive == child.state \in {"run", "hung"}
Step(t, at) == thread' = [thread EXCEPT ![t] = at]

-----------------------------------------------------------------------------
(* The child.                                                              *)

Reads == /\ child.state = "run" /\ pipe.inp > 0
         /\ pipe' = [pipe EXCEPT !.inp = @ - 1]
         /\ child' = [child EXCEPT !.got = @ + 1]
         /\ UNCHANGED <<shut, thread, sent, taken, done, signalled, result>>

\* Output may come at any time; the last of it after the end of the input.
AtEnd == pipe.inp = 0 /\ shut.inp
Emits == /\ child.state = "run" /\ child.put < Output
         /\ child.put + 1 = Output => AtEnd
         /\ IF shut.out
            THEN child' = [child EXCEPT !.state = "failed"] /\ UNCHANGED pipe      \* SIGPIPE
            ELSE /\ pipe.out < Pipe
                 /\ pipe' = [pipe EXCEPT !.out = @ + 1]
                 /\ child' = [child EXCEPT !.put = @ + 1]
         /\ UNCHANGED <<shut, thread, sent, taken, done, signalled, result>>

Says == /\ child.state = "run" /\ child.said < Messages /\ pipe.err < Pipe
        /\ pipe' = [pipe EXCEPT !.err = @ + 1]
        /\ child' = [child EXCEPT !.said = @ + 1]
        /\ UNCHANGED <<shut, thread, sent, taken, done, signalled, result>>

Exits == /\ child.state = "run" /\ AtEnd /\ child.put = Output /\ child.said = Messages
         /\ child' = [child EXCEPT !.state = IF child.got = Input THEN "ok" ELSE "failed"]
         /\ UNCHANGED <<pipe, shut, thread, sent, taken, done, signalled, result>>

Fails == /\ child.state = "run"
         /\ \/ "die" \in Misbehaves /\ child' = [child EXCEPT !.state = "failed"]
            \/ "hang" \in Misbehaves /\ child' = [child EXCEPT !.state = "hung"]
         /\ UNCHANGED <<pipe, shut, thread, sent, taken, done, signalled, result>>

-----------------------------------------------------------------------------
(* The threads.                                                            *)

Write == /\ thread.writer = "go"
         /\ IF ~Alive THEN Step("writer", "error") /\ shut' = [shut EXCEPT !.inp = TRUE]
                           /\ UNCHANGED <<pipe, sent>>                              \* EPIPE
            ELSE IF sent = Input
            THEN Step("writer", "ok") /\ shut' = [shut EXCEPT !.inp = TRUE]
                 /\ UNCHANGED <<pipe, sent>>
            ELSE /\ pipe.inp < Pipe
                 /\ pipe' = [pipe EXCEPT !.inp = @ + 1] /\ sent' = sent + 1
                 /\ UNCHANGED <<thread, shut>>
         /\ UNCHANGED <<child, taken, done, signalled, result>>

Read == /\ thread.reader = "go"
        /\ IF pipe.out > 0
           THEN /\ pipe' = [pipe EXCEPT !.out = @ - 1] /\ taken' = taken + 1
                /\ IF taken + 1 > Limit
                   THEN Step("reader", "error") /\ shut' = [shut EXCEPT !.out = TRUE]
                   ELSE UNCHANGED <<thread, shut>>
           ELSE /\ ~Alive /\ Step("reader", "ok") /\ UNCHANGED <<pipe, taken, shut>>
        /\ UNCHANGED <<child, sent, done, signalled, result>>

\* Messages are read while the other pipes are served, not after them.
ListensLast == thread.reader # "go"
Listens == TRUE
Listen == /\ thread.listener = "go" /\ Listens
          /\ IF pipe.err > 0
             THEN pipe' = [pipe EXCEPT !.err = @ - 1] /\ UNCHANGED thread
             ELSE ~Alive /\ Step("listener", "ok") /\ UNCHANGED pipe
          /\ UNCHANGED <<child, shut, sent, taken, done, signalled, result>>

\* The caller has joined the three threads: it sets the flag and then notifies, without
\* the mutex, whoever waits at that moment.
Joined == \A t \in {"writer", "reader", "listener"} : thread[t] # "go"
SetDone == /\ thread.caller = "join" /\ Joined
           /\ done' = TRUE /\ Step("caller", "notify")
           /\ UNCHANGED <<child, pipe, shut, sent, taken, signalled, result>>
Notify == /\ thread.caller = "notify"
          /\ thread' = [thread EXCEPT !.caller = "scope",
                                      !.watchdog = IF @ = "wait" THEN "check" ELSE @]
          /\ UNCHANGED <<child, pipe, shut, sent, taken, done, signalled, result>>

\* The watchdog looks at the flag and then goes to sleep.
Check == /\ thread.watchdog = "check"
         /\ Step("watchdog", IF done THEN "gone" ELSE "sleepy")
         /\ UNCHANGED <<child, pipe, shut, sent, taken, done, signalled, result>>
Sleep == /\ thread.watchdog = "sleepy"
         /\ Step("watchdog", "wait")
         /\ UNCHANGED <<child, pipe, shut, sent, taken, done, signalled, result>>

\* The streaming watchdog wakes up every second.
Wake == /\ Streaming /\ thread.watchdog = "wait"
        /\ Step("watchdog", "check")
        /\ UNCHANGED <<child, pipe, shut, sent, taken, done, signalled, result>>

\* The deadline, or a second without progress too many: unless the flag is up, SIGKILL.
TimeOut == /\ Clock /\ thread.watchdog = "wait"
           /\ Step("watchdog", "gone")
           /\ IF done THEN UNCHANGED <<child, signalled>>
              ELSE /\ signalled' = child.state
                   /\ child' = IF Alive THEN [child EXCEPT !.state = "failed"] ELSE child
           /\ UNCHANGED <<pipe, shut, sent, taken, done, result>>

-----------------------------------------------------------------------------
(* The caller.                                                             *)

\* A failure of the writer or the reader is returned at once, without a wait for the child.
Broken == "error" \in {thread.writer, thread.reader}

\* What both runners, run_xdelta3 and run_xdelta3_streaming, answer.
Outcome == IF ~Broken /\ child.state = "ok" THEN "ok" ELSE "error"

\* Otherwise the child is reaped, and killed first if that takes too long.
Return ==
    /\ thread.caller = "scope" /\ thread.watchdog = "gone"
    /\ result' = Outcome
    /\ IF Broken THEN UNCHANGED child
       ELSE /\ Alive => Clock
            /\ child' = [child EXCEPT !.state = "reaped"]
    /\ Step("caller", "back")
    /\ UNCHANGED <<pipe, shut, sent, taken, done, signalled>>

Init ==
    /\ child = [state |-> "run", got |-> 0, put |-> 0, said |-> 0]
    /\ pipe = [inp |-> 0, out |-> 0, err |-> 0] /\ shut = [inp |-> FALSE, out |-> FALSE]
    /\ thread = [writer |-> "go", reader |-> "go", listener |-> "go", watchdog |-> "check",
                 caller |-> "join"]
    /\ sent = 0 /\ taken = 0 /\ done = FALSE /\ signalled = "none" /\ result = "none"

Next == \/ Reads \/ Emits \/ Says \/ Exits \/ Fails
        \/ Write \/ Read \/ Listen \/ SetDone \/ Notify
        \/ Check \/ Sleep \/ Wake \/ TimeOut \/ Return

Spec == Init /\ [][Next]_vars

-----------------------------------------------------------------------------
\* A call that succeeds returns the whole output of a child that read the whole input.
OkIsWhole == result = "ok" => taken = Output /\ sent = Input /\ child.got = Input

\* A process that was reaped, whose number may be another's by then, is never killed.
KillsItsOwn == signalled # "reaped"

\* Without anybody's time running out, the three threads get to their end: they and the
\* child never all wait for a pipe.
PumpsMove ==
    \/ Joined
    \/ child.state = "hung"
    \/ pipe.inp > 0 /\ child.state = "run"
    \/ child.state = "run" /\ child.put < Output /\ (child.put + 1 = Output => AtEnd)
                           /\ (shut.out \/ pipe.out < Pipe)
    \/ child.state = "run" /\ child.said < Messages /\ pipe.err < Pipe
    \/ child.state = "run" /\ AtEnd /\ child.put = Output /\ child.said = Messages
    \/ thread.writer = "go" /\ (~Alive \/ sent = Input \/ pipe.inp < Pipe)
    \/ thread.reader = "go" /\ (pipe.out > 0 \/ ~Alive)
    \/ thread.listener = "go" /\ Listens /\ (pipe.err > 0 \/ ~Alive)

\* codec.rs: the condition variable lets the watchdog "wake immediately instead of sleeping
\* the full timeout".
WakesAtOnce == ~(done /\ thread.watchdog = "wait" /\ thread.caller = "scope")

\* The child is reaped when the call is over ("reap zombie").
Reaped == thread.caller = "back" => child.state = "reaped"
=============================================================================
