-------------------------------- MODULE Query --------------------------------
(***************************************************************************)
(* Query: the control protocol and the message stream on top of the CLI    *)
(* process.  The tasks of one session are                                  *)
(*                                                                         *)
(*   reader     _read_messages(), which routes every frame of stdout;      *)
(*   requesters calls of _send_control_request();                          *)
(*   handlers   one _handle_control_request() per request of the CLI;      *)
(*   input      stream_input(), which writes the prompts and ends stdin;   *)
(*   consumer   the iterator over receive_messages();                      *)
(*   closer     close().                                                   *)
(*                                                                         *)
(* An action is what a task does between two awaits.  The CLI and its      *)
(* stdout are the reader's environment: what the reader takes from         *)
(* read_messages() is chosen when it reads, among the frames a CLI in that *)
(* state can have sent.  The mirror batcher is known by its contract only. *)
(***************************************************************************)
EXTENDS Naturals, Sequences

CONSTANTS
    Requesters,   \* control requests of the SDK
    FromConsumer, \* those made by the task that also consumes the messages
    Incoming,     \* control requests of the CLI
    Tasks,        \* tracked background tasks of the CLI
    Setups        \* the sessions of this instance

AllEvents == {"message", "session_state_changed", "result", "error_result",
              "mirror", "mirror_error", "eof", "exit", "fault", "die",
              "close", "leave", "cancel"}

(***************************************************************************)
(* How a session is set up, and what may happen in it.                     *)
(***************************************************************************)
Setup ==
    [parties : SUBSET (Requesters \cup Incoming \cup Tasks), \* who takes part
     events : SUBSET AllEvents, \* the optional events of the environment
     bufferSize : Nat \ {0},   \* max_buffer_size of the message stream
     hasNeeds : BOOLEAN,       \* _has_bidirectional_needs()
     interactive : BOOLEAN,    \* prompts come from ClaudeSDKClient.query()
     lateWakes : BOOLEAN,      \* tasks wake the CLI for turns, also late
     maxPrompts : Nat,         \* bound: user messages
     maxFrames : Nat]          \* bound: message, result and mirror frames

ASSUME QueryAssumption ==
    /\ FromConsumer \subseteq Requesters
    /\ Setups \subseteq Setup

VARIABLES
    \* the reader
    rpc, current, lastErrorResult, readerCancelled,
    \* outgoing control requests
    qpc, pendingResponses, pendingResults, outcome,
    \* incoming control requests
    hpc, inflightRequests, cancelRequested,
    \* stdin and the task that ends it
    ipc, stdin, firstResultEvent, inflightTasks,
    \* the message stream and its consumer
    buffer, sendOpen, cpc,
    \* close()
    closed, kpc,
    \* the CLI, and the session it was started for
    cli,
    \* the mirror, as its contract sees it
    path, outstanding, calling, horizon,
    \* history: frames read, messages routed, messages consumed
    nframes, routed, delivered

reader   == <<rpc, current, lastErrorResult, readerCancelled>>
requests == <<qpc, pendingResponses, pendingResults, outcome>>
handlers == <<hpc, inflightRequests, cancelRequested>>
input    == <<ipc, stdin, firstResultEvent, inflightTasks>>
stream   == <<buffer, sendOpen>>
consumer == <<cpc, delivered>>
closer   == <<closed, kpc>>
mirror   == <<path, outstanding, calling, horizon>>
history  == <<nframes, routed>>
vars == <<reader, requests, handlers, input, stream, consumer, closer, cli,
          mirror, history>>

Events == cli.setup.events
BufferSize == cli.setup.bufferSize
HasNeeds == cli.setup.hasNeeds
Interactive == cli.setup.interactive
LateWakes == cli.setup.lateWakes
MaxPrompts == cli.setup.maxPrompts
MaxFrames == cli.setup.maxFrames
TakesPart(x) == x \in cli.setup.parties

Mirror == INSTANCE MirrorContract WITH
    Paths <- {"transcript"}, Callers <- {"reader", "closer"}

(***************************************************************************)
(* A message of the stream: its type, its position among the SDK messages  *)
(* the reader routed, and the mirror frames that preceded it on stdout.    *)
(***************************************************************************)
Item(t) == [type |-> t, n |-> routed + 1, mirrored |-> Len(path)]
Special(t) == [type |-> t, n |-> 0, mirrored |-> 0]
Results == {"result", "error_result"}
Errors == {"ProcessError", "ResultError", "OtherError"}

(***************************************************************************)
(* The CLI: control requests it has read and answered, those it has sent,  *)
(* tasks it has started and that still run, whether it runs a turn, the    *)
(* turns it owes, the prompts it was sent, and whether it lives.           *)
(***************************************************************************)
CliInit(setup) ==
    [setup |-> setup, received |-> {}, answered |-> {}, asked |-> {},
     started |-> {}, running |-> {}, turn |-> FALSE, owed |-> 0, prompts |-> 0,
     alive |-> TRUE]

NoEntries == [r \in {} |-> FALSE]

Init ==
    /\ \E setup \in Setups : cli = CliInit(setup)
    /\ rpc = "reading" /\ current = Special("none")
    /\ lastErrorResult = FALSE /\ readerCancelled = FALSE
    /\ qpc = [r \in Requesters |-> "idle"]
    /\ pendingResponses = NoEntries /\ pendingResults = NoEntries
    /\ outcome = [r \in Requesters |-> "none"]
    /\ hpc = [q \in Incoming |-> "none"]
    /\ inflightRequests = {} /\ cancelRequested = {}
    /\ ipc = IF Interactive THEN "none" ELSE "streaming"
    /\ stdin = "open" /\ firstResultEvent = FALSE /\ inflightTasks = {}
    /\ buffer = <<>> /\ sendOpen = TRUE /\ cpc = "iterating"
    /\ closed = FALSE /\ kpc = "open"
    /\ Mirror!Init
    /\ nframes = 0 /\ routed = 0 /\ delivered = <<>>

-----------------------------------------------------------------------------
\* _send_control_request()

Without(f, r) == [x \in DOMAIN f \ {r} |-> f[x]]
Put(f, r, v) == [x \in DOMAIN f \cup {r} |-> IF x = r THEN v ELSE f[x]]

\* The entry is there before the request is on the wire.
SendRequest(r) ==
    /\ qpc[r] = "idle" /\ TakesPart(r)
    /\ qpc' = [qpc EXCEPT ![r] = "writing"]
    /\ pendingResponses' = Put(pendingResponses, r, FALSE)
    /\ UNCHANGED <<reader, pendingResults, outcome, handlers, input, stream,
                   consumer, closer, cli, mirror, history>>

RequestWritten(r) ==
    /\ qpc[r] = "writing" /\ stdin = "open"
    /\ qpc' = [qpc EXCEPT ![r] = "waiting"]
    /\ cli' = IF cli.alive THEN [cli EXCEPT !.received = @ \cup {r}] ELSE cli
    /\ UNCHANGED <<reader, pendingResponses, pendingResults, outcome, handlers,
                   input, stream, consumer, closer, mirror, history>>

Return(r, x) ==
    /\ qpc' = [qpc EXCEPT ![r] = "done"]
    /\ outcome' = [outcome EXCEPT ![r] = x]

Forget(r) ==
    /\ pendingResponses' = Without(pendingResponses, r)
    /\ pendingResults' = Without(pendingResults, r)

\* A write fails once stdin is closed or the CLI is gone, and a failed write
\* leaves the transport unusable.
WriteFails == stdin # "open" \/ ~cli.alive
StdinAfterFailure == IF stdin = "open" THEN "broken" ELSE stdin

\* The write is outside the try: the entry stays.
RequestNotWritten(r) ==
    /\ qpc[r] = "writing" /\ WriteFails
    /\ Return(r, "not_written")
    /\ stdin' = StdinAfterFailure
    /\ UNCHANGED <<reader, pendingResponses, pendingResults, handlers, ipc,
                   firstResultEvent, inflightTasks, stream, consumer, closer,
                   cli, mirror, history>>

RequestReturns(r) ==
    /\ qpc[r] = "waiting" /\ pendingResponses[r]
    /\ Return(r, pendingResults[r])
    /\ Forget(r)
    /\ UNCHANGED <<reader, handlers, input, stream, consumer, closer, cli,
                   mirror, history>>

\* Mutant of Expires: the wait has no deadline.
NeverExpires(r) == qpc[r] = "expired"
Expires(r) == qpc[r] = "waiting"

\* The deadline of fail_after passes; the task runs some time later, and an
\* answer that is routed in between goes away with the entry.
RequestExpires(r) ==
    /\ Expires(r)
    /\ qpc' = [qpc EXCEPT ![r] = "expired"]
    /\ UNCHANGED <<reader, pendingResponses, pendingResults, outcome, handlers,
                   input, stream, consumer, closer, cli, mirror, history>>

RequestTimesOut(r) ==
    /\ qpc[r] = "expired"
    /\ Return(r, "timeout")
    /\ Forget(r)
    /\ UNCHANGED <<reader, handlers, input, stream, consumer, closer, cli,
                   mirror, history>>

\* The caller is cancelled: neither entry is removed.
RequestCancelled(r) ==
    /\ "cancel" \in Events /\ qpc[r] \in {"writing", "waiting"}
    /\ Return(r, "cancelled")
    /\ UNCHANGED <<reader, pendingResponses, pendingResults, handlers, input,
                   stream, consumer, closer, cli, mirror, history>>

-----------------------------------------------------------------------------
\* _read_messages(): frames that do not go on the stream

Reading == rpc = "reading" /\ ~closed

\* Mutant of Expected: an answer is stored for any id.
ExpectedOrNot(r) == r \in Requesters
Expected(r) == r \in DOMAIN pendingResponses

ReadResponse(r) ==
    /\ Reading /\ r \in cli.received \ cli.answered
    /\ cli' = [cli EXCEPT !.answered = @ \cup {r}]
    /\ IF Expected(r)
       THEN /\ \E x \in {"success", "error"} :
                  pendingResults' = Put(pendingResults, r, x)
            /\ pendingResponses' = Put(pendingResponses, r, TRUE)
       ELSE UNCHANGED <<pendingResults, pendingResponses>>
    /\ UNCHANGED <<reader, qpc, outcome, handlers, input, stream, consumer,
                   closer, mirror, history>>

\* The CLI asks while a turn or a task runs; every request has an id of its own.
ReadRequest(q) ==
    /\ Reading /\ HasNeeds /\ TakesPart(q) /\ q \notin cli.asked
    /\ cli.turn \/ cli.running # {}
    /\ cli' = [cli EXCEPT !.asked = @ \cup {q}]
    /\ hpc' = [hpc EXCEPT ![q] = "callback"]
    /\ inflightRequests' = inflightRequests \cup {q}
    /\ UNCHANGED <<reader, requests, cancelRequested, input, stream, consumer,
                   closer, mirror, history>>

\* A cancel request for anything not in flight has no effect.
ReadCancelRequest(q) ==
    /\ Reading /\ "cancel" \in Events /\ q \in inflightRequests
    /\ inflightRequests' = inflightRequests \ {q}
    /\ cancelRequested' = cancelRequested \cup {q}
    /\ UNCHANGED <<reader, requests, hpc, input, stream, consumer, closer, cli,
                   mirror, history>>

ReadMirror ==
    /\ Reading /\ "mirror" \in Events /\ nframes < MaxFrames
    /\ Mirror!Accept("transcript")
    /\ nframes' = nframes + 1
    /\ UNCHANGED <<reader, requests, handlers, input, stream, consumer, closer,
                   cli, routed>>

-----------------------------------------------------------------------------
\* _read_messages(): SDK messages

\* Mutant of AfterMessage: only a result resets the last error result.
AfterMessageKept == lastErrorResult
\* A message other than session_state_changed: the conversation has moved on.
AfterMessage == FALSE

\* The reader is left in the send of x to the stream.
Route(x) ==
    /\ current' = x /\ rpc' = "sending" /\ routed' = routed + 1

ReadMessage ==
    /\ Reading /\ "message" \in Events /\ cli.turn /\ nframes < MaxFrames
    /\ nframes' = nframes + 1
    /\ lastErrorResult' = AfterMessage
    /\ Route(Item("message"))
    /\ UNCHANGED <<readerCancelled, requests, handlers, input, stream,
                   consumer, closer, cli, mirror>>

ReadSessionStateChanged ==
    /\ Reading /\ "session_state_changed" \in Events /\ ~cli.turn
    /\ nframes < MaxFrames
    /\ nframes' = nframes + 1
    /\ Route(Item("session_state_changed"))
    /\ UNCHANGED <<lastErrorResult, readerCancelled, requests, handlers, input,
                   stream, consumer, closer, cli, mirror>>

\* task_started of a tracked type (_track_task_lifecycle)
ReadTaskStarted(t) ==
    /\ Reading /\ cli.turn /\ TakesPart(t) /\ t \notin cli.started
    /\ cli' = [cli EXCEPT !.started = @ \cup {t}, !.running = @ \cup {t}]
    /\ inflightTasks' = inflightTasks \cup {t}
    /\ lastErrorResult' = AfterMessage
    /\ Route(Item("task_started"))
    /\ UNCHANGED <<readerCancelled, requests, handlers, ipc, stdin,
                   firstResultEvent, stream, consumer, closer, mirror, nframes>>

\* Requests the CLI waits for an answer to.
Open == {q \in cli.asked : hpc[q] \in {"callback", "writing", "writing_error"}}

\* Turns owed once a task has settled.  A task that outlives its turn wakes the
\* CLI for a follow-up turn, which tasks that settle before it starts share.
\* With LateWakes there is a follow-up turn for each, and possibly for a task
\* that settles within a turn, the gap _track_task_lifecycle() documents.
OwedAfterSettling ==
    IF LateWakes THEN {cli.owed + 1} \cup (IF cli.turn THEN {cli.owed} ELSE {})
    ELSE {IF cli.turn \/ cli.owed > 0 THEN cli.owed ELSE 1}

\* Mutant of StillRunning: a terminal frame is overlooked.
StillTracked(t) == inflightTasks
StillRunning(t) == inflightTasks \ {t}

\* task_notification, or task_updated with a terminal status
ReadTaskSettled(t) ==
    /\ Reading /\ t \in cli.running
    /\ ~cli.turn => Open = {}
    /\ \E n \in OwedAfterSettling :
           cli' = [cli EXCEPT !.running = @ \ {t}, !.owed = n]
    /\ inflightTasks' = StillRunning(t)
    /\ lastErrorResult' = AfterMessage
    /\ Route(Item("task_settled"))
    /\ UNCHANGED <<readerCancelled, requests, handlers, ipc, stdin,
                   firstResultEvent, stream, consumer, closer, mirror, nframes>>

\* Mutant of Flushed: a flush is started but not awaited.
NotAwaited(c) ==
    calling' = calling \ {c} /\ UNCHANGED <<path, outstanding, horizon>>
Flushed(c) == Mirror!ReturnFlush(c)

\* A result ends the turn.  The mirror is flushed before anything else.
ReadResult(x) ==
    /\ Reading /\ x \in Events /\ cli.turn
    /\ cli.running = {} => Open = {}
    /\ cli' = [cli EXCEPT !.turn = FALSE]
    /\ Mirror!CallFlush("reader")
    /\ current' = Item(x) /\ rpc' = "flushing"
    /\ UNCHANGED <<lastErrorResult, readerCancelled, requests, handlers, input,
                   stream, consumer, closer, history>>

\* Mutant of RunEnded: the first result ends the input (#1088).
AnyResultEnds == TRUE
RunEnded == inflightTasks = {}

ResultFlushed ==
    /\ rpc = "flushing" /\ ~readerCancelled
    /\ Flushed("reader")
    /\ firstResultEvent' = (firstResultEvent \/ RunEnded)
    /\ lastErrorResult' = (current.type = "error_result")
    /\ Route(current)
    /\ UNCHANGED <<readerCancelled, requests, handlers, ipc, stdin,
                   inflightTasks, stream, consumer, closer, cli, nframes>>

Room == Len(buffer) < BufferSize

SendMessage ==
    /\ rpc = "sending" /\ ~readerCancelled /\ Room
    /\ buffer' = Append(buffer, current)
    /\ rpc' = "reading"
    /\ UNCHANGED <<current, lastErrorResult, readerCancelled, requests,
                   handlers, input, sendOpen, consumer, closer, cli, mirror,
                   history>>

-----------------------------------------------------------------------------
\* _read_messages(): the end

Unwind ==
    /\ rpc' = "unwinding"
    /\ UNCHANGED <<current, lastErrorResult, readerCancelled, requests,
                   handlers, ipc, firstResultEvent, inflightTasks, stream,
                   consumer, closer, history>>

\* The transport has waited for the process: later writes are refused.
Exited ==
    /\ cli' = [cli EXCEPT !.alive = FALSE]
    /\ stdin' = StdinAfterFailure

\* stdout ends and the CLI exits with code 0
ReadEof ==
    /\ rpc = "reading" /\ "eof" \in Events
    /\ Exited /\ Unwind /\ UNCHANGED mirror

\* Any frame after close() has begun
ReadWhenClosed ==
    /\ rpc = "reading" /\ closed
    /\ Unwind /\ UNCHANGED <<stdin, cli, mirror>>

\* A non-zero exit ("exit") right after an error result is replaced by what the
\* result said; any other error of the transport ("fault") is passed on.
ErrorOf(x) ==
    CASE x = "fault" -> "OtherError"
      [] x = "exit" /\ lastErrorResult -> "ResultError"
      [] x = "exit" /\ ~lastErrorResult -> "ProcessError"

\* Mutant of CallError: calls get the error as it was before it was replaced.
RawCallError(x) == IF x = "fault" THEN "OtherError" ELSE "ProcessError"
CallError(x) == ErrorOf(x)

\* Mutant of Unanswered: only calls that have been answered are signalled.
AlreadyAnswered == DOMAIN pendingResults
Unanswered == DOMAIN pendingResponses \ DOMAIN pendingResults

ReadFails(x) ==
    /\ rpc = "reading" /\ x \in Events
    /\ pendingResults' = [r \in DOMAIN pendingResults \cup Unanswered |->
           IF r \in Unanswered THEN CallError(x) ELSE pendingResults[r]]
    /\ pendingResponses' = [r \in DOMAIN pendingResponses |->
           r \in Unanswered \/ pendingResponses[r]]
    /\ current' = Special(ErrorOf(x))
    /\ rpc' = "sending_error"
    /\ IF x = "exit" THEN Exited ELSE UNCHANGED <<cli, stdin>>
    /\ UNCHANGED <<lastErrorResult, readerCancelled, qpc, outcome, handlers,
                   ipc, firstResultEvent, inflightTasks, stream, consumer,
                   closer, mirror, history>>

SendError ==
    /\ rpc = "sending_error" /\ ~readerCancelled /\ Room
    /\ buffer' = Append(buffer, current)
    /\ rpc' = "unwinding"
    /\ UNCHANGED <<current, lastErrorResult, readerCancelled, requests,
                   handlers, input, sendOpen, consumer, closer, cli, mirror,
                   history>>

\* Cancellation is delivered at the await the reader is in.  It finds no flush
\* under way: close() has waited for the mirror, whose lock is first come first
\* served.
ReaderCancelled ==
    /\ readerCancelled /\ rpc \in {"reading", "flushing", "sending", "sending_error"}
    /\ Unwind /\ UNCHANGED <<stdin, cli>>
    /\ IF rpc = "flushing" THEN Flushed("reader") ELSE UNCHANGED mirror

\* finally: the shielded flush, then the sentinel if there is room for it
FinalFlush ==
    /\ rpc = "unwinding"
    /\ Mirror!CallFlush("reader")
    /\ rpc' = "final_flush"
    /\ UNCHANGED <<current, lastErrorResult, readerCancelled, requests,
                   handlers, input, stream, consumer, closer, cli, history>>

\* Mutant of Marked: the end marker is put without regard to the room.
MarkedAlways == Append(buffer, Special("end"))
Marked == IF Room THEN Append(buffer, Special("end")) ELSE buffer

\* Mutant of OpenAfterEnd: the end marker is all the consumer gets.
OpenUnlessMarked == ~Room
OpenAfterEnd == FALSE

ReaderDone ==
    /\ rpc = "final_flush"
    /\ Flushed("reader")
    /\ firstResultEvent' = TRUE
    /\ buffer' = Marked
    /\ sendOpen' = OpenAfterEnd
    /\ rpc' = "done"
    /\ UNCHANGED <<current, lastErrorResult, readerCancelled, requests,
                   handlers, ipc, stdin, inflightTasks, consumer, closer, cli,
                   history>>

-----------------------------------------------------------------------------
\* receive_messages()

\* A task that waits for the answer to its own request does not iterate.
Iterating ==
    /\ cpc = "iterating"
    /\ \A r \in FromConsumer : qpc[r] \in {"idle", "done"}

Receive ==
    /\ Iterating /\ buffer # <<>>
    /\ buffer' = Tail(buffer)
    /\ LET x == Head(buffer)
       IN  /\ cpc' = CASE x.type = "end" -> "ended"
                       [] x.type \in Errors -> x.type
                       [] OTHER -> "iterating"
           /\ delivered' = IF x.n = 0 THEN delivered ELSE Append(delivered, x)
    /\ UNCHANGED <<reader, requests, handlers, input, sendOpen, closer, cli,
                   mirror, history>>

EndOfStream ==
    /\ Iterating /\ buffer = <<>> /\ ~sendOpen
    /\ cpc' = "ended"
    /\ UNCHANGED <<reader, requests, handlers, input, stream, delivered,
                   closer, cli, mirror, history>>

\* The consumer breaks out of its loop.
Leave ==
    /\ "leave" \in Events /\ Iterating
    /\ cpc' = "left"
    /\ UNCHANGED <<reader, requests, handlers, input, stream, delivered,
                   closer, cli, mirror, history>>

-----------------------------------------------------------------------------
\* _handle_control_request()

\* The callback returns or raises; either way there is an answer to write.
CallbackReturns(q) ==
    /\ hpc[q] = "callback" /\ q \notin cancelRequested
    /\ hpc' = [hpc EXCEPT ![q] = "writing"]
    /\ UNCHANGED <<reader, requests, inflightRequests, cancelRequested, input,
                   stream, consumer, closer, cli, mirror, history>>

\* Mutant of Ended: the done callback is missing.
EndedTracked(q) == inflightRequests
Ended(q) == inflightRequests \ {q}

HandlerDone(q, x) ==
    /\ hpc' = [hpc EXCEPT ![q] = x]
    /\ inflightRequests' = Ended(q)
    /\ UNCHANGED <<reader, requests, cancelRequested, ipc, firstResultEvent,
                   inflightTasks, stream, consumer, closer, cli, mirror,
                   history>>

\* A write that has begun may end before the cancellation is delivered.
AnswerWritten(q) ==
    /\ hpc[q] \in {"writing", "writing_error"} /\ stdin = "open"
    /\ HandlerDone(q, "answered") /\ UNCHANGED stdin

\* The write of the answer failed: an error answer is tried.
AnswerFails(q) ==
    /\ hpc[q] = "writing" /\ q \notin cancelRequested /\ WriteFails
    /\ hpc' = [hpc EXCEPT ![q] = "writing_error"]
    /\ stdin' = StdinAfterFailure
    /\ UNCHANGED <<reader, requests, inflightRequests, cancelRequested, ipc,
                   firstResultEvent, inflightTasks, stream, consumer, closer,
                   cli, mirror, history>>

ErrorAnswerFails(q) ==
    /\ hpc[q] = "writing_error" /\ q \notin cancelRequested /\ WriteFails
    /\ HandlerDone(q, "failed") /\ stdin' = StdinAfterFailure

HandlerCancelled(q) ==
    /\ q \in cancelRequested
    /\ hpc[q] \in {"callback", "writing", "writing_error"}
    /\ HandlerDone(q, "cancelled") /\ UNCHANGED stdin

-----------------------------------------------------------------------------
\* stream_input(), wait_for_result_and_end_input(), ClaudeSDKClient.query()

WritePrompt ==
    /\ ipc \in {"none", "streaming"} /\ stdin = "open"
    /\ ipc = "streaming" => ~closed
    /\ cli.prompts < MaxPrompts
    /\ cli' = [cli EXCEPT !.prompts = @ + 1, !.owed = @ + 1]
    /\ UNCHANGED <<reader, requests, handlers, input, stream, consumer, closer,
                   mirror, history>>

\* Mutant of Hold: stdin is closed after the last prompt.
HoldNever == FALSE
Hold == cli.prompts > 0 /\ HasNeeds

\* The iterable ends or raises, a write fails, or close() has begun.
PromptsEnd ==
    /\ ipc = "streaming"
    /\ ipc' = IF Hold THEN "waiting" ELSE "ending"
    /\ UNCHANGED <<reader, requests, handlers, stdin, firstResultEvent,
                   inflightTasks, stream, consumer, closer, cli, mirror,
                   history>>

ResultSeen ==
    /\ ipc = "waiting" /\ firstResultEvent
    /\ ipc' = "ending"
    /\ UNCHANGED <<reader, requests, handlers, stdin, firstResultEvent,
                   inflightTasks, stream, consumer, closer, cli, mirror,
                   history>>

EndInput ==
    /\ ipc = "ending"
    /\ ipc' = "done" /\ stdin' = "closed"
    /\ UNCHANGED <<reader, requests, handlers, firstResultEvent, inflightTasks,
                   stream, consumer, closer, cli, mirror, history>>

-----------------------------------------------------------------------------
\* close()

Close ==
    /\ "close" \in Events /\ kpc = "open"
    /\ closed' = TRUE /\ kpc' = "flushing"
    /\ Mirror!CallFlush("closer")
    /\ UNCHANGED <<reader, requests, handlers, input, stream, consumer, cli,
                   history>>

\* Once the mirror is flushed the child tasks are cancelled.
CancelChildren ==
    /\ kpc = "flushing"
    /\ Flushed("closer")
    /\ cancelRequested' = cancelRequested \cup
           {q \in Incoming : hpc[q] \in {"callback", "writing", "writing_error"}}
    /\ ipc' = IF ipc \in {"streaming", "waiting", "ending"} THEN "cancelled" ELSE ipc
    /\ kpc' = "bridges"
    /\ UNCHANGED <<reader, requests, hpc, inflightRequests, stdin,
                   firstResultEvent, inflightTasks, stream, consumer, closed,
                   cli, history>>

\* Mutant of StopReader: the reader is awaited but not cancelled.
JoinReaderOnly == FALSE
StopReader == rpc # "done"

\* The SDK MCP bridges have stopped: the reader is cancelled if it still runs.
CancelReader ==
    /\ kpc = "bridges"
    /\ readerCancelled' = StopReader
    /\ kpc' = "joining"
    /\ UNCHANGED <<rpc, current, lastErrorResult, requests, handlers, input,
                   stream, consumer, closed, cli, mirror, history>>

\* Mutant of Receivable: close() closes the receive side as well (#859).
Discarded == <<>>
Receivable == buffer

ReaderJoined ==
    /\ kpc = "joining" /\ rpc = "done"
    /\ sendOpen' = FALSE /\ buffer' = Receivable
    /\ kpc' = "transport"
    /\ UNCHANGED <<reader, requests, handlers, input, consumer, closed, cli,
                   mirror, history>>

\* transport.close() ends stdin and the process.
CloseTransport ==
    /\ kpc = "transport"
    /\ stdin' = "closed"
    /\ cli' = [cli EXCEPT !.alive = FALSE]
    /\ kpc' = "closed"
    /\ UNCHANGED <<reader, requests, handlers, ipc, firstResultEvent,
                   inflightTasks, stream, consumer, closed, mirror, history>>

-----------------------------------------------------------------------------
\* The environment: the CLI's turns and its death, the mirror's progress

StartTurn ==
    /\ cli.alive /\ ~cli.turn /\ cli.owed > 0
    /\ cli' = [cli EXCEPT !.turn = TRUE, !.owed = @ - 1]
    /\ UNCHANGED <<reader, requests, handlers, input, stream, consumer, closer,
                   mirror, history>>

CliDies ==
    /\ "die" \in Events /\ cli.alive
    /\ cli' = [cli EXCEPT !.alive = FALSE]
    /\ UNCHANGED <<reader, requests, handlers, input, stream, consumer, closer,
                   mirror, history>>

\* report_mirror_error() when frames were given up on: only if there is room.
MirrorSettles ==
    /\ \E F \in SUBSET outstanding : F # {} /\ Mirror!Settle(F)
    /\ \/ UNCHANGED buffer
       \/ /\ "mirror_error" \in Events /\ Room /\ sendOpen
          /\ buffer' = Append(buffer, Special("mirror_error"))
    /\ UNCHANGED <<reader, requests, handlers, input, sendOpen, consumer,
                   closer, cli, history>>

-----------------------------------------------------------------------------
RequestStep(r) ==
    \/ SendRequest(r) \/ RequestWritten(r) \/ RequestNotWritten(r)
    \/ RequestReturns(r) \/ RequestExpires(r) \/ RequestTimesOut(r)
    \/ RequestCancelled(r) \/ ReadResponse(r)

HandlerStep(q) ==
    \/ ReadRequest(q) \/ ReadCancelRequest(q) \/ CallbackReturns(q)
    \/ AnswerWritten(q) \/ AnswerFails(q) \/ ErrorAnswerFails(q)
    \/ HandlerCancelled(q)

ReaderStep ==
    \/ ReadMirror \/ ReadMessage \/ ReadSessionStateChanged
    \/ \E t \in Tasks : ReadTaskStarted(t) \/ ReadTaskSettled(t)
    \/ \E x \in Results : ReadResult(x)
    \/ ResultFlushed \/ SendMessage
    \/ ReadEof \/ ReadWhenClosed \/ \E x \in {"exit", "fault"} : ReadFails(x)
    \/ SendError \/ ReaderCancelled \/ FinalFlush \/ ReaderDone

ConsumerStep == Receive \/ EndOfStream \/ Leave
InputStep == WritePrompt \/ PromptsEnd \/ ResultSeen \/ EndInput
CloseStep == \/ Close \/ CancelChildren \/ CancelReader \/ ReaderJoined
             \/ CloseTransport

Next ==
    \/ \E r \in Requesters : RequestStep(r)
    \/ \E q \in Incoming : HandlerStep(q)
    \/ ReaderStep \/ ConsumerStep \/ InputStep \/ CloseStep
    \/ StartTurn \/ CliDies \/ MirrorSettles

Spec == Init /\ [][Next]_vars

(***************************************************************************)
(* Fairness.  The event loop runs every task that can go on; a request     *)
(* waits at most for its timeout; the adapter settles what it is given.    *)
(***************************************************************************)
LoopFairness ==
    /\ \A r \in Requesters :
           /\ WF_vars(RequestWritten(r) \/ RequestNotWritten(r))
           /\ WF_vars(RequestReturns(r) \/ RequestExpires(r))
           /\ WF_vars(RequestTimesOut(r))
    /\ \A q \in Incoming :
           /\ WF_vars(AnswerWritten(q) \/ AnswerFails(q) \/ ErrorAnswerFails(q)
                          \/ HandlerCancelled(q))
    /\ WF_vars(ResultFlushed \/ SendMessage \/ SendError \/ ReaderCancelled
                   \/ FinalFlush \/ ReaderDone)
    /\ WF_vars(Receive \/ EndOfStream)
    /\ WF_vars(ResultSeen \/ EndInput)
    /\ WF_vars(CancelChildren \/ CancelReader \/ ReaderJoined \/ CloseTransport)
    /\ WF_vars(MirrorSettles)

\* The CLI has no turn, no task and no prompt left.
CliIdle == ~cli.turn /\ cli.owed = 0 /\ cli.running = {}

(***************************************************************************)
(* What the CLI and the application contribute: turns are run and end with *)
(* a result, tasks settle, callbacks return, the prompts end, and a CLI    *)
(* that is dead, or idle with its stdin closed, ends its stdout.           *)
(***************************************************************************)
SessionFairness ==
    /\ WF_vars(StartTurn)
    /\ WF_vars(\E x \in Results : ReadResult(x))
    /\ \A t \in Tasks : WF_vars(ReadTaskSettled(t))
    /\ \A q \in Incoming : WF_vars(CallbackReturns(q))
    /\ WF_vars(PromptsEnd)
    /\ WF_vars((~cli.alive \/ (stdin = "closed" /\ CliIdle))
                   /\ (ReadEof \/ \E x \in {"exit", "fault"} : ReadFails(x)))

FairSpec == Spec /\ LoopFairness /\ SessionFairness

-----------------------------------------------------------------------------
Outcomes == {"success", "error", "timeout"} \cup Errors
MessageTypes == {"message", "session_state_changed", "task_started",
                 "task_settled"} \cup Results
Items == [type : MessageTypes, n : Nat \ {0}, mirrored : Nat]
Specials == [type : {"none", "end", "mirror_error"} \cup Errors,
             n : {0}, mirrored : {0}]
Active == {"callback", "writing", "writing_error"}
CliStates ==
    [setup : Setups, received : SUBSET Requesters, answered : SUBSET Requesters,
     asked : SUBSET Incoming, started : SUBSET Tasks, running : SUBSET Tasks,
     turn : BOOLEAN, owed : Nat, prompts : Nat, alive : BOOLEAN]

TypeOK ==
    /\ rpc \in {"reading", "flushing", "sending", "sending_error", "unwinding",
                "final_flush", "done"}
    /\ current \in Items \cup Specials
    /\ {lastErrorResult, readerCancelled, firstResultEvent, sendOpen, closed}
           \subseteq BOOLEAN
    /\ qpc \in [Requesters ->
           {"idle", "writing", "waiting", "expired", "done"}]
    /\ DOMAIN pendingResponses \subseteq Requesters
    /\ \A r \in DOMAIN pendingResponses : pendingResponses[r] \in BOOLEAN
    /\ DOMAIN pendingResults \subseteq Requesters
    /\ \A r \in DOMAIN pendingResults :
           pendingResults[r] \in {"success", "error"} \cup Errors
    /\ outcome \in [Requesters ->
           {"none", "not_written", "cancelled"} \cup Outcomes]
    /\ hpc \in [Incoming ->
           {"none", "answered", "failed", "cancelled"} \cup Active]
    /\ inflightRequests \subseteq Incoming /\ cancelRequested \subseteq Incoming
    /\ ipc \in {"none", "streaming", "waiting", "ending", "cancelled", "done"}
    /\ stdin \in {"open", "broken", "closed"}
    /\ inflightTasks \subseteq Tasks
    /\ buffer \in Seq(Items \cup Specials) /\ Len(buffer) <= BufferSize
    /\ cpc \in {"iterating", "ended", "left"} \cup Errors
    /\ kpc \in {"open", "flushing", "bridges", "joining", "transport", "closed"}
    /\ cli \in CliStates
    /\ path \in Seq({"transcript"}) /\ outstanding \subseteq DOMAIN path
    /\ calling \subseteq {"reader", "closer"}
    /\ horizon \in [{"reader", "closer"} -> Nat]
    /\ nframes \in 0..MaxFrames /\ routed \in Nat
    /\ delivered \in Seq(Items)

(***************************************************************************)
(* The two tables of _send_control_request() and _read_messages() agree: a *)
(* result is there exactly when the event is set, only for a request that  *)
(* still has its entry, and a call that has taken an answer or run into    *)
(* its timeout leaves nothing behind, also when the answer comes late.     *)
(***************************************************************************)
EntriesMatchCalls ==
    /\ DOMAIN pendingResults = {r \in DOMAIN pendingResponses : pendingResponses[r]}
    /\ \A r \in Requesters :
           /\ outcome[r] \in Outcomes => r \notin DOMAIN pendingResponses
           /\ qpc[r] \in {"writing", "waiting", "expired"} =>
                  r \in DOMAIN pendingResponses

(***************************************************************************)
(* When the reader stops with an error, no call that is under way is left  *)
(* to its timeout ("so they fail fast instead of timing out").             *)
(***************************************************************************)
FailFast ==
    [][rpc = "reading" /\ rpc' = "sending_error" =>
           \A r \in Requesters : qpc[r] \in {"writing", "waiting"} =>
               pendingResponses'[r] /\ r \in DOMAIN pendingResults']_vars

(***************************************************************************)
(* A call the failure of the reader ended raises what the consumer of the  *)
(* messages raises ("so that path sees the same actionable text").         *)
(***************************************************************************)
SameError ==
    \A r \in Requesters : outcome[r] \in Errors =>
        /\ rpc # "reading" /\ current.type = outcome[r]
        /\ cpc \in Errors => cpc = outcome[r]

(***************************************************************************)
(* Messages: what was routed is delivered, buffered or in the reader's     *)
(* hand, once and in the order of stdout, before and after close().  A     *)
(* reader that was cancelled takes at most the message in its hand along.  *)
(***************************************************************************)
InStream(x) == x.n > 0
Waiting == {i \in DOMAIN buffer : InStream(buffer[i])}
MayBeLost == IF readerCancelled /\ rpc # "sending" THEN {0, 1} ELSE {0}
StreamConserved ==
    /\ \A i \in DOMAIN delivered : delivered[i].n = i
    /\ \A i, j \in Waiting : i < j => buffer[i].n < buffer[j].n
    /\ rpc = "sending" => current.n = routed
    /\ \E lost \in MayBeLost :
           LET last == routed - lost - (IF rpc = "sending" THEN 1 ELSE 0) IN
           /\ Len(delivered) <= last
           /\ {buffer[i].n : i \in Waiting} = (Len(delivered) + 1)..last

(***************************************************************************)
(* A consumer that has a result finds the store up to date for the turn:   *)
(* no mirror frame that preceded it on stdout is still on its way ("so     *)
(* consumers observing the result can rely on the SessionStore").          *)
(***************************************************************************)
ResultBarrier ==
    \A i \in DOMAIN delivered : delivered[i].type \in Results =>
        \A f \in outstanding : f > delivered[i].mirrored

(***************************************************************************)
(* No transcript frame is lost to close(): when it cancels the reader, and *)
(* when it ends the process, every frame the reader took is settled.       *)
(***************************************************************************)
CloseKeepsFrames ==
    readerCancelled \/ kpc \in {"bridges", "joining", "transport", "closed"} =>
        outstanding = {}

(***************************************************************************)
(* The mirror keeps ahead of everything that a user could take for the end *)
(* of a turn or of the session: a result, the cancelled reader, the end of *)
(* the process.                                                            *)
(***************************************************************************)
MirrorAhead == ResultBarrier /\ CloseKeepsFrames

(***************************************************************************)
(* The iteration raises ResultError exactly when the CLI exits non-zero    *)
(* right after an error result: the last message the consumer has got,     *)
(* apart from session_state_changed markers, is that result.               *)
(***************************************************************************)
Marker(x) == x.type = "session_state_changed"
LastIsErrorResult ==
    \E i \in DOMAIN delivered :
        /\ delivered[i].type = "error_result"
        /\ \A j \in DOMAIN delivered : j > i => Marker(delivered[j])
ErrorFaithful ==
    /\ cpc = "ResultError" => LastIsErrorResult
    /\ cpc = "ProcessError" => ~LastIsErrorResult

(***************************************************************************)
(* One failure of the reader, one error: every call under way gets it at   *)
(* once, and the callers and the consumer raise the same, which is a       *)
(* ResultError exactly when an error result came last.                     *)
(***************************************************************************)
ErrorsFaithful == [](SameError /\ ErrorFaithful) /\ FailFast

(***************************************************************************)
(* With one prompt, stdin is not ended while the CLI can still ask: not    *)
(* within a turn, with a task running, or with a turn owed.  A task that   *)
(* settles within its turn and wakes the CLI (LateWakes) and a second      *)
(* prompt are the documented exceptions.                                   *)
(***************************************************************************)
InputHeld ==
    HasNeeds /\ ~LateWakes /\ MaxPrompts <= 1 /\ ipc = "done" =>
        CliIdle \/ rpc \in {"unwinding", "final_flush", "done"} \/ closed
                \/ ~cli.alive

(***************************************************************************)
(* Under the same conditions no request of a running CLI goes without its  *)
(* answer because stdin was ended (#1088, "silently disables hooks").      *)
(***************************************************************************)
RequestsServed ==
    HasNeeds /\ ~LateWakes /\ MaxPrompts <= 1 =>
        \A q \in Incoming : hpc[q] \in {"writing_error", "failed"} =>
            rpc \in {"unwinding", "final_flush", "done"} \/ closed \/ ~cli.alive

(***************************************************************************)
(* stdin stays open for as long as the CLI can need it, and no request of  *)
(* the CLI loses its answer because it did not.                            *)
(***************************************************************************)
InputKept == InputHeld /\ RequestsServed

(***************************************************************************)
(* A cancel request finds every handler it can be meant for, and a handler *)
(* that has ended can no longer be found.                                  *)
(***************************************************************************)
InflightTracked ==
    /\ \A q \in Incoming : hpc[q] \in Active =>
           q \in inflightRequests \cup cancelRequested
    /\ \A q \in inflightRequests : hpc[q] \in Active

(***************************************************************************)
(* The tables through which the reader finds a party agree with what that  *)
(* party does, in both directions of the control protocol.                 *)
(***************************************************************************)
TablesMatch == EntriesMatchCalls /\ InflightTracked

(***************************************************************************)
(* Every control request ends, whatever the CLI, the consumer and close()  *)
(* do, also when its caller is the one that should empty the buffer.       *)
(***************************************************************************)
RequestReturnsEventually ==
    \A r \in Requesters : qpc[r] = "writing" ~> qpc[r] = "done"

(***************************************************************************)
(* A consumer that goes on iterating gets to the end, or to the error,     *)
(* once the reader has stopped, also when the buffer had no room for the   *)
(* end marker.                                                             *)
(***************************************************************************)
ConsumerTerminates ==
    rpc \in {"unwinding", "sending_error"} ~> cpc # "iterating"

(***************************************************************************)
(* close() returns, whatever the reader is doing.                          *)
(***************************************************************************)
CloseReturns == kpc = "flushing" ~> kpc = "closed"

(***************************************************************************)
(* The hold on stdin is released: a prompt that has ended is followed by   *)
(* the end of stdin ("The event is guaranteed to fire").                   *)
(***************************************************************************)
InputEnds == ipc = "waiting" ~> stdin = "closed"

(***************************************************************************)
(* Nobody waits for ever: control requests, the iteration over the         *)
(* messages, close() and the hold on stdin end, also when each of them     *)
(* waits for what another one holds.                                       *)
(***************************************************************************)
EverybodyReturns ==
    RequestReturnsEventually /\ ConsumerTerminates /\ CloseReturns /\ InputEnds
=============================================================================
