------------------------------- MODULE MCQuery -------------------------------
(***************************************************************************)
(* Values of the constants of Query for TLC.  A run has several sessions,  *)
(* each of which allows what one question is about, and not the rest.      *)
(***************************************************************************)
EXTENDS Query, TLC

CONSTANTS r1, r2, q1, t1, t2

\* A client whose prompts come one by one, and a query() with one prompt.
Client(parties, size, frames, prompts, events) ==
    [parties |-> parties, events |-> events, bufferSize |-> size,
     hasNeeds |-> FALSE, interactive |-> TRUE, lateWakes |-> FALSE,
     maxPrompts |-> prompts, maxFrames |-> frames]
Stream(parties, wakes, events) ==
    [parties |-> parties, events |-> events, bufferSize |-> 2,
     hasNeeds |-> TRUE, interactive |-> FALSE, lateWakes |-> wakes,
     maxPrompts |-> 1, maxFrames |-> 0]

\* Control requests: every way they end, with a stream that may be full.
Control == Client({r1, r2}, 1, 1, 1,
    {"message", "result", "error_result", "eof", "exit", "fault", "die", "close", "cancel"})

\* The stream and the mirror, all kinds of messages, all ends.
Messages == Client({}, 2, 3, 2,
    {"message", "session_state_changed", "result", "error_result", "mirror",
     "mirror_error", "eof", "exit", "close", "leave"})

\* Requests of the CLI and the end of stdin.
Input == Stream({q1, t1, t2}, FALSE,
    {"result", "error_result", "eof", "exit", "die", "close", "cancel"})

\* Liveness: a reader that may block on a full stream, and a session's turns.
Ending == Client({r2}, 1, 2, 1, {"message", "mirror", "eof", "exit", "fault", "close"})
Turns == Stream({q1, t1}, TRUE, {"result", "eof", "die", "exit", "close"})

SafetySetups == {Control, Messages, Input}
LiveSetups == {Ending, Turns}
=============================================================================
