------------------------- MODULE SubprocessTransport -------------------------
(***************************************************************************)
(* SubprocessTransport: the CLI child process and the pipe to its stdin.   *)
(* Tasks that write() share one lock with end_input() and close(); the     *)
(* reader takes stdout to its end and then waits for the process; close()  *)
(* waits a bounded time for the lock and then ends the process, at first   *)
(* by the end of stdin, then by SIGTERM, then by SIGKILL.  The interpreter *)
(* may exit at any time and reaps what _ACTIVE_CHILDREN still holds.       *)
(*                                                                         *)
(* A write that is cancelled has handed its whole line to the event loop   *)
(* (asyncio); the CLI may stop reading, so a write may block.              *)
(***************************************************************************)
EXTENDS Naturals, Sequences

CONSTANTS
    Writers,       \* tasks, each of which writes once
    RawCancels     \* close() may meet a cancellation its shield cannot defer

ASSUME TransportAssumption == RawCancels \in BOOLEAN

Free == "free"
ASSUME WritersAssumption == Free \notin Writers

VARIABLES
    proc,        \* the child: "none", "running", "ok" or "error" (exited)
    signal,      \* the strongest signal it was sent
    attached,    \* _process is set
    tracked,     \* the child is in _ACTIVE_CHILDREN
    ready,       \* _ready
    exitError,   \* _exit_error is set
    stdinStream, \* _stdin_stream is set
    pipe,        \* the write end: "open" or "closed"
    lines,       \* what reached the pipe: "whole" and "partial" lines
    lock,        \* _write_lock: Free, or the writer that holds it
    wpc,         \* write()
    epc,         \* end_input()
    rpc,         \* read_messages()
    kpc,         \* close()
    halted       \* the interpreter has exited

child == <<proc, signal, tracked>>
flags == <<attached, ready, exitError>>
stdin == <<stdinStream, pipe>>
tasks == <<wpc, epc, rpc, kpc>>
vars == <<child, flags, stdin, lines, lock, tasks, halted>>

Init ==
    /\ proc = "none" /\ signal = "none" /\ tracked = FALSE
    /\ attached = FALSE /\ ready = FALSE /\ exitError = FALSE
    /\ stdinStream = FALSE /\ pipe = "closed"
    /\ lines = <<>> /\ lock = Free
    /\ wpc = [w \in Writers |-> "idle"]
    /\ epc = "idle" /\ rpc = "idle" /\ kpc = "idle"
    /\ halted = FALSE

Exited == proc \in {"ok", "error"}

-----------------------------------------------------------------------------
\* connect()

Connect ==
    /\ proc = "none" /\ kpc = "idle"
    /\ proc' = "running" /\ tracked' = TRUE
    /\ attached' = TRUE /\ ready' = TRUE
    /\ stdinStream' = TRUE /\ pipe' = "open"
    /\ rpc' = "reading"
    /\ UNCHANGED <<signal, exitError, lines, lock, wpc, epc, kpc, halted>>

ConnectFails ==
    /\ proc = "none" /\ kpc = "idle"
    /\ exitError' = TRUE
    /\ UNCHANGED <<child, attached, ready, stdin, lines, lock, tasks, halted>>

-----------------------------------------------------------------------------
\* write()

Write(w) ==
    /\ wpc[w] = "idle"
    /\ wpc' = [wpc EXCEPT ![w] = "queued"]
    /\ UNCHANGED <<child, flags, stdin, lines, lock, epc, rpc, kpc, halted>>

Usable ==
    /\ ready /\ stdinStream /\ ~exitError
    /\ attached => ~Exited

\* Mutant of Release: a waiter that gives up releases the lock of the holder.
ReleaseAny(w) == Free
Release(w) == IF lock = w THEN Free ELSE lock

WriteReturns(w, x) ==
    /\ wpc' = [wpc EXCEPT ![w] = x]
    /\ lock' = Release(w)
    /\ UNCHANGED <<child, attached, stdin, epc, rpc, kpc, halted>>

WriteRefused(w) ==
    /\ wpc[w] = "queued" /\ lock = Free /\ ~Usable
    /\ WriteReturns(w, "refused")
    /\ UNCHANGED <<ready, exitError, lines>>

WriteStarts(w) ==
    /\ wpc[w] = "queued" /\ lock = Free /\ Usable
    /\ wpc' = [wpc EXCEPT ![w] = "sending"]
    /\ lock' = w
    /\ UNCHANGED <<child, flags, stdin, lines, epc, rpc, kpc, halted>>

\* What is sent before the pipe closes still goes out.
WriteDone(w) ==
    /\ wpc[w] = "sending" /\ proc = "running"
    /\ lines' = Append(lines, "whole")
    /\ WriteReturns(w, "written")
    /\ UNCHANGED <<ready, exitError>>

\* Mutant of Spoiled: the failure is raised, and the transport stays usable.
StillUsable == UNCHANGED <<ready, exitError>>
Spoiled == ready' = FALSE /\ exitError' = TRUE

\* The pipe breaks, at either end; part of the line may have gone out.
WriteFails(w) ==
    /\ wpc[w] = "sending"
    /\ Spoiled
    /\ lines' \in {lines, Append(lines, "partial")}
    /\ WriteReturns(w, "failed")

WriteCancelled(w) ==
    /\ wpc[w] \in {"queued", "sending"}
    /\ lines' = IF wpc[w] = "sending" THEN Append(lines, "whole") ELSE lines
    /\ WriteReturns(w, "cancelled")
    /\ UNCHANGED <<ready, exitError>>

-----------------------------------------------------------------------------
\* end_input()

EndInput ==
    /\ epc = "idle"
    /\ epc' = "queued"
    /\ UNCHANGED <<child, flags, stdin, lines, lock, wpc, rpc, kpc, halted>>

CloseStdin ==
    /\ pipe' = "closed"
    /\ stdinStream' = FALSE

InputEnded ==
    /\ epc = "queued" /\ lock = Free
    /\ CloseStdin
    /\ epc' = "done"
    /\ UNCHANGED <<child, flags, lines, lock, wpc, rpc, kpc, halted>>

-----------------------------------------------------------------------------
\* _read_messages_impl()

StdoutEnds ==
    /\ rpc = "reading"
    /\ rpc' = "waiting"
    /\ UNCHANGED <<child, flags, stdin, lines, lock, wpc, epc, kpc, halted>>

\* Without a process, wait() fails and counts as exit code -1.
ReturnCode == IF ~attached THEN "error" ELSE proc

ReaderReturns ==
    /\ rpc = "waiting"
    /\ attached => Exited
    /\ rpc' = IF ReturnCode = "error" THEN "raised" ELSE "ended"
    /\ exitError' = (exitError \/ ReturnCode = "error")
    /\ UNCHANGED <<child, attached, ready, stdin, lines, lock, wpc, epc, kpc,
                   halted>>

\* A line that is too long or is not JSON ends the reader at once.
StdoutUnreadable ==
    /\ rpc = "reading"
    /\ rpc' = "broken"
    /\ UNCHANGED <<child, flags, stdin, lines, lock, wpc, epc, kpc, halted>>

ReaderCancelled ==
    /\ rpc \in {"reading", "waiting"}
    /\ rpc' = "cancelled"
    /\ UNCHANGED <<child, flags, stdin, lines, lock, wpc, epc, kpc, halted>>

-----------------------------------------------------------------------------
\* close()

\* Mutant of ReaderGone: Query.close() does not wait for the read task.
ReaderAnywhere == TRUE
ReaderGone == rpc \in {"idle", "ended", "raised", "broken", "cancelled"}

\* Query.close() ends the read task before it closes the transport.
Close ==
    /\ kpc = "idle" /\ ReaderGone /\ proc # "none"
    /\ kpc' = "locking"
    /\ UNCHANGED <<child, flags, stdin, lines, lock, wpc, epc, rpc, halted>>

CloseUnconnected ==
    /\ kpc = "idle" /\ proc = "none"
    /\ ready' = FALSE /\ kpc' = "done"
    /\ UNCHANGED <<child, attached, exitError, stdin, lines, lock, wpc, epc,
                   rpc, halted>>

\* Mutant of MayProceed: the lock is waited for without a deadline.
OnlyWithLock == lock = Free
MayProceed == TRUE

\* With the lock, or without it once 5 s have passed.
StopInput ==
    /\ kpc = "locking" /\ MayProceed
    /\ ready' = FALSE
    /\ CloseStdin
    /\ kpc' = IF Exited THEN "reaping" ELSE "graceful"
    /\ UNCHANGED <<child, attached, exitError, lines, lock, wpc, epc, rpc, halted>>

Waits == {"graceful", "terminating", "killing"}

\* Mutant of FirstWait: SIGTERM is sent without a grace period (#625).
NoGrace == "locking"
FirstWait == "graceful"

GraceExpires ==
    /\ kpc = FirstWait
    /\ signal' = IF Exited THEN signal ELSE "term"
    /\ kpc' = "terminating"
    /\ UNCHANGED <<proc, tracked, flags, stdin, lines, lock, wpc, epc, rpc,
                   halted>>

\* Mutant of LastSignal: the escalation ends with SIGTERM.
TermAgain == "term"
LastSignal == "kill"

TermExpires ==
    /\ kpc = "terminating"
    /\ signal' = IF Exited THEN signal ELSE LastSignal
    /\ kpc' = "killing"
    /\ UNCHANGED <<proc, tracked, flags, stdin, lines, lock, wpc, epc, rpc,
                   halted>>

\* The process has exited, or the wait after SIGKILL has expired as well.
WaitEnds ==
    /\ kpc \in Waits /\ (Exited \/ kpc = "killing")
    /\ kpc' = "reaping"
    /\ UNCHANGED <<child, flags, stdin, lines, lock, wpc, epc, rpc, halted>>

\* Mutant of StillTracked: close() drops the child whether it has exited or not.
DropChild == FALSE
StillTracked == tracked /\ ~Exited

Reap ==
    /\ kpc = "reaping"
    /\ tracked' = StillTracked
    /\ attached' = FALSE /\ exitError' = FALSE
    /\ CloseStdin
    /\ kpc' = "done"
    /\ UNCHANGED <<proc, signal, ready, lines, lock, wpc, epc, rpc, halted>>

\* A cancellation that is not anyio's: only the finally blocks still run.
CloseAborted ==
    /\ RawCancels /\ kpc \in {"locking"} \cup Waits
    /\ tracked' = IF kpc \in Waits THEN StillTracked ELSE tracked
    /\ kpc' = "aborted"
    /\ UNCHANGED <<proc, signal, flags, stdin, lines, lock, wpc, epc, rpc, halted>>

-----------------------------------------------------------------------------
\* The child, and _kill_active_children() at the exit of the interpreter

Exit(x) ==
    /\ proc = "running"
    /\ proc' = x
    /\ UNCHANGED <<signal, tracked, flags, stdin, lines, lock, tasks, halted>>

AtExit ==
    /\ ~halted
    /\ halted' = TRUE
    /\ signal' = IF tracked /\ signal = "none" THEN "term" ELSE signal
    /\ tracked' = FALSE
    /\ UNCHANGED <<proc, flags, stdin, lines, lock, tasks>>

WriteStep(w) ==
    \/ Write(w) \/ WriteRefused(w) \/ WriteStarts(w) \/ WriteDone(w)
    \/ WriteFails(w) \/ WriteCancelled(w)

Running ==
    \/ Connect \/ ConnectFails
    \/ \E w \in Writers : WriteStep(w)
    \/ EndInput \/ InputEnded
    \/ StdoutEnds \/ StdoutUnreadable \/ ReaderReturns \/ ReaderCancelled
    \/ Close \/ CloseUnconnected \/ StopInput \/ GraceExpires \/ TermExpires
    \/ WaitEnds \/ Reap \/ CloseAborted

Next ==
    \/ ~halted /\ Running
    \/ \E x \in {"ok", "error"} : Exit(x)
    \/ AtExit

Spec == Init /\ [][Next]_vars

(***************************************************************************)
(* Fairness: the tasks run as long as the interpreter does, the deadlines  *)
(* of close() pass, and SIGKILL ends the child.  A CLI that reads nothing  *)
(* may block a writer for ever, and SIGTERM may have no effect.            *)
(***************************************************************************)
Fairness ==
    /\ \A w \in Writers : /\ WF_vars(~halted /\ (WriteRefused(w) \/ WriteStarts(w)))
                          /\ WF_vars(~halted /\ Exited /\ WriteFails(w))
    /\ WF_vars(~halted /\ InputEnded)
    /\ WF_vars(~halted /\ (StopInput \/ GraceExpires \/ TermExpires \/ WaitEnds
                               \/ Reap))
    /\ WF_vars(signal = "kill" /\ \E x \in {"ok", "error"} : Exit(x))

FairSpec == Spec /\ Fairness

-----------------------------------------------------------------------------
TypeOK ==
    /\ proc \in {"none", "running", "ok", "error"}
    /\ signal \in {"none", "term", "kill"}
    /\ {attached, tracked, ready, exitError, stdinStream, halted} \subseteq BOOLEAN
    /\ pipe \in {"open", "closed"} /\ (stdinStream => pipe = "open")
    /\ lines \in Seq({"whole", "partial"})
    /\ lock \in Writers \cup {Free}
    /\ wpc \in [Writers -> {"idle", "queued", "sending", "written", "refused",
                            "failed", "cancelled"}]
    /\ epc \in {"idle", "queued", "done"}
    /\ rpc \in {"idle", "reading", "waiting", "ended", "raised", "broken", "cancelled"}
    /\ kpc \in {"idle", "locking", "reaping", "done", "aborted"} \cup Waits

(***************************************************************************)
(* One line at a time: at most the holder of the lock sends, also when     *)
(* close() has gone ahead without the lock.                                *)
(***************************************************************************)
OneSender == \A w \in Writers : wpc[w] = "sending" => lock = w

(***************************************************************************)
(* The CLI never gets a line glued to the rest of another: nothing is sent *)
(* after a line that may have been cut off.                                *)
(***************************************************************************)
LinesWhole == \A i \in DOMAIN lines : lines[i] = "partial" => i = Len(lines)

(***************************************************************************)
(* The CLI reads whole lines, one after the other, whatever writers and    *)
(* close() do to each other.                                               *)
(***************************************************************************)
StdinSound == OneSender /\ LinesWhole

(***************************************************************************)
(* No orphans: a child that runs is in _ACTIVE_CHILDREN or, once the       *)
(* interpreter has exited, was sent a signal, whatever close() ran into.   *)
(***************************************************************************)
ChildTracked == proc = "running" => IF halted THEN signal # "none" ELSE tracked

(***************************************************************************)
(* close() signals the CLI only after the end of its stdin and a wait, so  *)
(* that it can write its session file (#625).                              *)
(***************************************************************************)
InputEndsFirst == signal # "none" /\ ~halted => pipe = "closed" /\ ~ready

(***************************************************************************)
(* read_messages() raises an exit error only for a CLI that exited with    *)
(* one: close() does not take the process away from a reader.              *)
(***************************************************************************)
ExitFaithful == rpc = "raised" => proc = "error"

(***************************************************************************)
(* close() ends the CLI in order: its input first, then time, then         *)
(* signals; and what it does to the child is not reported as the child's   *)
(* failure.                                                                *)
(***************************************************************************)
CloseOrderly == InputEndsFirst /\ ExitFaithful

(***************************************************************************)
(* close() returns although a writer holds the lock on a full pipe and the *)
(* CLI ignores SIGTERM ("Every await in this scope is bounded").           *)
(***************************************************************************)
CloseReturns == kpc = "locking" ~> (kpc \in {"done", "aborted"} \/ halted)

(***************************************************************************)
(* Once close() has returned no writer and no end_input() stays blocked.   *)
(***************************************************************************)
BlockedReleased ==
    /\ \A w \in Writers :
           (kpc = "done" /\ wpc[w] \in {"queued", "sending"}) ~>
               (wpc[w] \notin {"queued", "sending"} \/ halted)
    /\ (kpc = "done" /\ epc = "queued") ~> (epc = "done" \/ halted)

(***************************************************************************)
(* close() ends, and ends what was waiting for the child's input.          *)
(***************************************************************************)
CloseReleases == CloseReturns /\ BlockedReleased
=============================================================================
