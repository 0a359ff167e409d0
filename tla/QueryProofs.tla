----------------------------- MODULE QueryProofs -----------------------------
(***************************************************************************)
(* Theorems about Query, for any requests, tasks and sessions.             *)
(*                                                                         *)
(* The invariant IInv says of each pair of tasks what one may rely on      *)
(* while the other runs: the tables and the calls (TablesInv), the mirror, *)
(* close() and the messages (MirrorInv), the reader's hand and the stream  *)
(* (HandInv, StreamConserved), the reader's error and whoever raises it    *)
(* (ErrorInv), the CLI and the end of its stdin (InputInv).                *)
(*                                                                         *)
(* Frame and effect lemmas say which steps change a group of variables,    *)
(* and how; each part of the invariant is then kept by the few steps that  *)
(* can disturb it.                                                         *)
(***************************************************************************)
EXTENDS Query, SequenceTheorems, TLAPS

\* Where the reader is on its way out.
Over == {"unwinding", "final_flush", "done"}
Stopped == Over \cup {"sending_error"}

\* A call that has not begun has no entry, and only a call that is over has an outcome.
CallsFresh ==
    \A r \in Requesters :
        /\ qpc[r] = "idle" => r \notin DOMAIN pendingResponses
        /\ qpc[r] # "done" => outcome[r] = "none"

TablesInv == CallsFresh /\ TablesMatch

\* close() has begun iff the query is closed; the mirror takes no frame then.
CloseInv ==
    /\ closed <=> kpc # "open"
    /\ readerCancelled => kpc \in {"joining", "transport", "closed"}
    /\ kpc # "open" => horizon["closer"] = Len(path)

\* What the reader has in its hand.
HandInv ==
    /\ rpc = "flushing" => current \in Items /\ current.type \in Results
                           /\ current.n = routed + 1
    /\ rpc = "sending" => current \in Items
    /\ rpc = "sending_error" => current.type \in Errors
    /\ rpc \notin Stopped => current.type \notin Errors

\* Every mirror frame that preceded the result x is settled.
SettledBefore(x) == x.type \in Results => \A f \in outstanding : f > x.mirrored
Barrier ==
    /\ \A i \in DOMAIN delivered :
           SettledBefore(delivered[i]) /\ delivered[i].mirrored <= Len(path)
    /\ \A i \in DOMAIN buffer :
           SettledBefore(buffer[i]) /\ buffer[i].mirrored <= Len(path)
    /\ current.mirrored <= Len(path)
    /\ rpc = "sending" => SettledBefore(current)
    /\ rpc = "flushing" => current.mirrored <= horizon["reader"]

MirrorInv == CloseInv /\ Barrier /\ CloseKeepsFrames

\* The messages that were routed and not lost.
Streamed == {delivered[i] : i \in DOMAIN delivered} \cup {buffer[i] : i \in Waiting}
InHand == IF rpc = "sending" THEN {current} ELSE {}
Routed == Streamed \cup InHand
LastIsError(M) ==
    \E x \in M : /\ x.type = "error_result"
                 /\ \A y \in M : y.n > x.n => Marker(y)

\* The error e says of the messages M what it should.
Truthful(e, M) ==
    /\ e = "ResultError" => LastIsError(M)
    /\ e = "ProcessError" => ~LastIsError(M)

\* While the reader runs it knows whether an error result came last; from then
\* on there is one error, in its hand, in the stream, with the consumer and with
\* the callers, and in the stream it comes after the last message.
LastErrorExact == rpc \notin Stopped => (lastErrorResult <=> LastIsError(Routed))
HandTruthful ==
    rpc \in Stopped /\ current.type \in Errors /\ ~readerCancelled =>
        Truthful(current.type, Routed)
StreamTruthful ==
    \A i \in DOMAIN buffer : buffer[i].type \in Errors =>
        /\ rpc \in Over /\ current.type = buffer[i].type
        /\ Truthful(buffer[i].type, Routed)
        /\ \A j \in Waiting : j < i
RaisedTruthful ==
    cpc \in Errors =>
        rpc \in Over /\ current.type = cpc /\ Truthful(cpc, Routed) /\ Waiting = {}
CallsTruthful ==
    \A r \in Requesters :
        /\ r \in DOMAIN pendingResults /\ pendingResults[r] \in Errors =>
               rpc \in Stopped /\ current.type = pendingResults[r]
        /\ outcome[r] \in Errors => rpc \in Stopped /\ current.type = outcome[r]
ErrorInv ==
    /\ LastErrorExact /\ HandTruthful /\ StreamTruthful /\ RaisedTruthful
    /\ CallsTruthful

\* A session of one prompt, without late wake-ups.
OnePrompt == ~LateWakes /\ MaxPrompts <= 1

\* The reader's count of tasks is the CLI's, and the CLI ends neither a turn nor
\* the last task with a request of its own open.
TasksTracked == inflightTasks = cli.running
AskedKnown == \A q \in Incoming : hpc[q] # "none" => q \in cli.asked
NoneOpen == ~cli.turn /\ cli.running = {} => Open = {}

\* stdin goes away only through the input task, with the CLI or with close().
StdinReason == stdin # "open" => ipc = "done" \/ ~cli.alive \/ closed

\* With one prompt there is one turn at a time, the CLI has nothing left to do
\* once a result leaves no task running, and stdin is not ended before.
OneTurn ==
    /\ cli.prompts = 0 => CliIdle
    /\ cli.owed <= 1 /\ (cli.turn => cli.owed = 0)
    /\ rpc = "flushing" => ~cli.turn /\ cli.owed = 0 /\ cli.prompts = 1
    /\ firstResultEvent => (CliIdle /\ cli.prompts = 1) \/ rpc \in Over
    /\ HasNeeds /\ ipc \in {"ending", "done"} => CliIdle \/ rpc \in Over
InputInv ==
    /\ cli.prompts <= MaxPrompts
    /\ TasksTracked /\ AskedKnown /\ NoneOpen /\ StdinReason
    /\ OnePrompt => OneTurn

IInv ==
    /\ TypeOK /\ TablesInv /\ MirrorInv /\ HandInv /\ StreamConserved /\ ErrorInv
    /\ InputInv /\ RequestsServed
\* The types of the variables, in the groups that change together.
ReaderTypes ==
    /\ rpc \in {"reading", "flushing", "sending", "sending_error"} \cup Over
    /\ current \in Items \cup Specials
    /\ lastErrorResult \in BOOLEAN /\ routed \in Nat
RequestTypes ==
    /\ qpc \in [Requesters -> {"idle", "writing", "waiting", "expired", "done"}]
    /\ DOMAIN pendingResponses \subseteq Requesters
    /\ \A r \in DOMAIN pendingResponses : pendingResponses[r] \in BOOLEAN
    /\ DOMAIN pendingResults \subseteq Requesters
    /\ \A r \in DOMAIN pendingResults :
           pendingResults[r] \in {"success", "error"} \cup Errors
    /\ outcome \in [Requesters -> {"none", "not_written", "cancelled"} \cup Outcomes]
HandlerTypes ==
    /\ hpc \in [Incoming -> {"none", "answered", "failed", "cancelled"} \cup Active]
    /\ inflightRequests \subseteq Incoming /\ cancelRequested \subseteq Incoming
InputTypes ==
    /\ ipc \in {"none", "streaming", "waiting", "ending", "cancelled", "done"}
    /\ stdin \in {"open", "broken", "closed"}
    /\ firstResultEvent \in BOOLEAN /\ inflightTasks \subseteq Tasks
StreamTypes ==
    /\ buffer \in Seq(Items \cup Specials) /\ Len(buffer) <= BufferSize
    /\ sendOpen \in BOOLEAN /\ cpc \in {"iterating", "ended", "left"} \cup Errors
    /\ delivered \in Seq(Items)
CloserTypes ==
    /\ closed \in BOOLEAN /\ readerCancelled \in BOOLEAN
    /\ kpc \in {"open", "flushing", "bridges", "joining", "transport", "closed"}
CliTypes == cli \in CliStates
MirrorTypes ==
    /\ path \in Seq({"transcript"}) /\ outstanding \subseteq DOMAIN path
    /\ calling \subseteq {"reader", "closer"}
    /\ horizon \in [{"reader", "closer"} -> Nat]
CountTypes == nframes \in 0..MaxFrames
Types ==
    /\ ReaderTypes /\ RequestTypes /\ HandlerTypes /\ InputTypes /\ StreamTypes
    /\ CloserTypes /\ CliTypes /\ MirrorTypes /\ CountTypes

\* The sequence t is s with x at its end; t is s without its head.
Longer(t, s, x) ==
    /\ Len(s) \in Nat /\ DOMAIN s = 1..Len(s)
    /\ Len(t) = Len(s) + 1 /\ DOMAIN t = 1..Len(s) + 1
    /\ \A i \in 1..Len(s) : t[i] = s[i]
    /\ t[Len(s) + 1] = x
Shorter(t, s) ==
    /\ Len(s) \in Nat \ {0} /\ DOMAIN s = 1..Len(s)
    /\ Len(t) = Len(s) - 1 /\ DOMAIN t = 1..Len(s) - 1
    /\ \A i \in 1..Len(s) - 1 : t[i] = s[i + 1]

-----------------------------------------------------------------------------
USE DEF reader, requests, handlers, input, stream, consumer, closer, mirror, history

\* The groups together are the types of the module.
LEMMA TypeParts == (TypeOK <=> Types) /\ (TypeOK' <=> Types')
<1>1. {lastErrorResult, readerCancelled, firstResultEvent, sendOpen, closed} \subseteq BOOLEAN
         <=> /\ lastErrorResult \in BOOLEAN /\ readerCancelled \in BOOLEAN
             /\ firstResultEvent \in BOOLEAN /\ sendOpen \in BOOLEAN /\ closed \in BOOLEAN
  OBVIOUS
<1>2. {lastErrorResult', readerCancelled', firstResultEvent', sendOpen', closed'} \subseteq BOOLEAN
         <=> /\ lastErrorResult' \in BOOLEAN /\ readerCancelled' \in BOOLEAN
             /\ firstResultEvent' \in BOOLEAN /\ sendOpen' \in BOOLEAN /\ closed' \in BOOLEAN
  OBVIOUS
<1>3. TypeOK <=> Types
  BY <1>1, Zenon DEF TypeOK, Types, ReaderTypes, RequestTypes, HandlerTypes,
     InputTypes,
      StreamTypes, CloserTypes, CliTypes, MirrorTypes, CountTypes, Over
<1>4. TypeOK' <=> Types'
  BY <1>2, Zenon DEF TypeOK, Types, ReaderTypes, RequestTypes, HandlerTypes,
     InputTypes,
      StreamTypes, CloserTypes, CliTypes, MirrorTypes, CountTypes, Over
<1>5. QED
  BY <1>3, <1>4

\* Who changes the tables of control requests.
LEMMA RequestFrame ==
    ASSUME [Next]_vars
    PROVE  \/ UNCHANGED <<requests>>
           \/ \E r \in Requesters : RequestStep(r)
           \/ \E x \in {"exit", "fault"} : ReadFails(x)
BY ZenonT(60) DEF Next, vars, HandlerStep, ReaderStep, ConsumerStep, InputStep,
    CloseStep, ReadRequest, ReadCancelRequest, CallbackReturns, AnswerWritten,
    AnswerFails, ErrorAnswerFails, HandlerCancelled, ReadMirror, ReadMessage,
    ReadSessionStateChanged, ReadTaskStarted, ReadTaskSettled, ReadResult,
    ResultFlushed, SendMessage, ReadEof, ReadWhenClosed, SendError,
    ReaderCancelled, FinalFlush, ReaderDone, Receive, EndOfStream, Leave,
    WritePrompt, PromptsEnd, ResultSeen, EndInput, Close, CancelChildren,
    CancelReader, ReaderJoined, CloseTransport, StartTurn, CliDies,
    MirrorSettles, HandlerDone, Unwind

\* Who changes the table of the CLI's requests.
LEMMA HandlerFrame ==
    ASSUME [Next]_vars
    PROVE  \/ UNCHANGED <<handlers>>
           \/ \E q \in Incoming : HandlerStep(q)
           \/ CancelChildren
BY ZenonT(60) DEF Next, vars, RequestStep, ReaderStep, ConsumerStep, InputStep,
    CloseStep, SendRequest, RequestWritten, RequestNotWritten, RequestReturns,
    RequestExpires, RequestTimesOut, RequestCancelled, ReadResponse,
    ReadMirror, ReadMessage, ReadSessionStateChanged, ReadTaskStarted,
    ReadTaskSettled, ReadResult, ResultFlushed, SendMessage, ReadEof,
    ReadWhenClosed, ReadFails, SendError, ReaderCancelled, FinalFlush,
    ReaderDone, Receive, EndOfStream, Leave, WritePrompt, PromptsEnd,
    ResultSeen, EndInput, Close, CancelReader, ReaderJoined, CloseTransport,
    StartTurn, CliDies, MirrorSettles, HandlerDone, Unwind

\* Who changes the mirror.
LEMMA MirrorFrame ==
    ASSUME [Next]_vars
    PROVE  \/ UNCHANGED <<mirror>>
           \/ ReadMirror \/ ResultFlushed \/ ReaderCancelled \/ FinalFlush \/ ReaderDone
           \/ Close \/ CancelChildren \/ MirrorSettles
           \/ \E x \in Results : ReadResult(x)
BY ZenonT(60) DEF Next, vars, RequestStep, HandlerStep, ReaderStep,
    ConsumerStep, InputStep, CloseStep, SendRequest, RequestWritten,
    RequestNotWritten, RequestReturns, RequestExpires, RequestTimesOut,
    RequestCancelled, ReadResponse, ReadRequest, ReadCancelRequest,
    CallbackReturns, AnswerWritten, AnswerFails, ErrorAnswerFails,
    HandlerCancelled, ReadMessage, ReadSessionStateChanged, ReadTaskStarted,
    ReadTaskSettled, SendMessage, ReadEof, ReadWhenClosed, ReadFails,
    SendError, Receive, EndOfStream, Leave, WritePrompt, PromptsEnd,
    ResultSeen, EndInput, CancelReader, ReaderJoined, CloseTransport,
    StartTurn, CliDies, HandlerDone, Unwind

\* Who changes what close() has done.
LEMMA CloserFrame ==
    ASSUME [Next]_vars
    PROVE  \/ UNCHANGED <<closer, readerCancelled>>
           \/ CloseStep
BY ZenonT(60) DEF Next, vars, RequestStep, HandlerStep, ReaderStep,
    ConsumerStep, InputStep, SendRequest, RequestWritten, RequestNotWritten,
    RequestReturns, RequestExpires, RequestTimesOut, RequestCancelled,
    ReadResponse, ReadRequest, ReadCancelRequest, CallbackReturns,
    AnswerWritten, AnswerFails, ErrorAnswerFails, HandlerCancelled, ReadMirror,
    ReadMessage, ReadSessionStateChanged, ReadTaskStarted, ReadTaskSettled,
    ReadResult, ResultFlushed, SendMessage, ReadEof, ReadWhenClosed, ReadFails,
    SendError, ReaderCancelled, FinalFlush, ReaderDone, Receive, EndOfStream,
    Leave, WritePrompt, PromptsEnd, ResultSeen, EndInput, StartTurn, CliDies,
    MirrorSettles, HandlerDone, Unwind

\* Who changes what the reader is doing.
LEMMA ReaderFrame ==
    ASSUME [Next]_vars
    PROVE  \/ UNCHANGED <<rpc, current, lastErrorResult, routed>>
           \/ ReadMessage \/ ReadSessionStateChanged
           \/ \E t \in Tasks : ReadTaskStarted(t) \/ ReadTaskSettled(t)
           \/ \E x \in Results : ReadResult(x)
           \/ ResultFlushed \/ SendMessage \/ ReadEof \/ ReadWhenClosed
           \/ \E x \in {"exit", "fault"} : ReadFails(x)
           \/ SendError \/ ReaderCancelled \/ FinalFlush \/ ReaderDone
BY ZenonT(60) DEF Next, vars, RequestStep, HandlerStep, ReaderStep,
    ConsumerStep, InputStep, CloseStep, SendRequest, RequestWritten,
    RequestNotWritten, RequestReturns, RequestExpires, RequestTimesOut,
    RequestCancelled, ReadResponse, ReadRequest, ReadCancelRequest,
    CallbackReturns, AnswerWritten, AnswerFails, ErrorAnswerFails,
    HandlerCancelled, ReadMirror, Receive, EndOfStream, Leave, WritePrompt,
    PromptsEnd, ResultSeen, EndInput, Close, CancelChildren, CancelReader,
    ReaderJoined, CloseTransport, StartTurn, CliDies, MirrorSettles,
    HandlerDone, Unwind

\* Who changes the message stream.
LEMMA StreamFrame ==
    ASSUME [Next]_vars
    PROVE  \/ UNCHANGED <<stream, consumer>>
           \/ SendMessage \/ SendError \/ ReaderDone
           \/ Receive \/ EndOfStream \/ Leave \/ ReaderJoined \/ MirrorSettles
BY ZenonT(60) DEF Next, vars, RequestStep, HandlerStep, ReaderStep,
    ConsumerStep, InputStep, CloseStep, SendRequest, RequestWritten,
    RequestNotWritten, RequestReturns, RequestExpires, RequestTimesOut,
    RequestCancelled, ReadResponse, ReadRequest, ReadCancelRequest,
    CallbackReturns, AnswerWritten, AnswerFails, ErrorAnswerFails,
    HandlerCancelled, ReadMirror, ReadMessage, ReadSessionStateChanged,
    ReadTaskStarted, ReadTaskSettled, ReadResult, ResultFlushed, ReadEof,
    ReadWhenClosed, ReadFails, ReaderCancelled, FinalFlush, WritePrompt,
    PromptsEnd, ResultSeen, EndInput, Close, CancelChildren, CancelReader,
    CloseTransport, StartTurn, CliDies, HandlerDone, Unwind

\* Who changes the CLI.
LEMMA CliFrame ==
    ASSUME [Next]_vars
    PROVE  \/ UNCHANGED <<cli>>
           \/ \E r \in Requesters : RequestWritten(r) \/ ReadResponse(r)
           \/ \E q \in Incoming : ReadRequest(q)
           \/ \E t \in Tasks : ReadTaskStarted(t) \/ ReadTaskSettled(t)
           \/ \E x \in Results : ReadResult(x)
           \/ \E x \in {"exit", "fault"} : ReadFails(x)
           \/ ReadEof \/ WritePrompt \/ CloseTransport \/ StartTurn \/ CliDies
BY ZenonT(60) DEF Next, vars, RequestStep, HandlerStep, ReaderStep,
    ConsumerStep, InputStep, CloseStep, SendRequest, RequestNotWritten,
    RequestReturns, RequestExpires, RequestTimesOut, RequestCancelled,
    ReadCancelRequest, CallbackReturns, AnswerWritten, AnswerFails,
    ErrorAnswerFails, HandlerCancelled, ReadMirror, ReadMessage,
    ReadSessionStateChanged, ResultFlushed, SendMessage, ReadWhenClosed,
    SendError, ReaderCancelled, FinalFlush, ReaderDone, Receive, EndOfStream,
    Leave, PromptsEnd, ResultSeen, EndInput, Close, CancelChildren,
    CancelReader, ReaderJoined, MirrorSettles, HandlerDone, Unwind

\* Who changes stdin and the task that ends it.
LEMMA InputFrame ==
    ASSUME [Next]_vars
    PROVE  \/ UNCHANGED <<input>>
           \/ \E r \in Requesters : RequestNotWritten(r)
           \/ \E q \in Incoming : AnswerFails(q) \/ ErrorAnswerFails(q)
           \/ \E t \in Tasks : ReadTaskStarted(t) \/ ReadTaskSettled(t)
           \/ \E x \in {"exit", "fault"} : ReadFails(x)
           \/ ResultFlushed \/ ReadEof \/ ReaderDone \/ CancelChildren
           \/ PromptsEnd \/ ResultSeen \/ EndInput \/ CloseTransport
BY ZenonT(60) DEF Next, vars, RequestStep, HandlerStep, ReaderStep,
    ConsumerStep, InputStep, CloseStep, SendRequest, RequestWritten,
    RequestReturns, RequestExpires, RequestTimesOut, RequestCancelled,
    ReadResponse, ReadRequest, ReadCancelRequest, CallbackReturns,
    AnswerWritten, HandlerCancelled, ReadMirror, ReadMessage,
    ReadSessionStateChanged, ReadResult, SendMessage, ReadWhenClosed,
    SendError, ReaderCancelled, FinalFlush, Receive, EndOfStream, Leave,
    WritePrompt, Close, CancelReader, ReaderJoined, StartTurn, CliDies,
    MirrorSettles, HandlerDone, Unwind

\* Who counts frames.
LEMMA CountFrame ==
    ASSUME [Next]_vars
    PROVE  \/ UNCHANGED <<nframes>>
           \/ ReadMirror \/ ReadMessage \/ ReadSessionStateChanged
BY ZenonT(60) DEF Next, vars, RequestStep, HandlerStep, ReaderStep,
    ConsumerStep, InputStep, CloseStep, SendRequest, RequestWritten,
    RequestNotWritten, RequestReturns, RequestExpires, RequestTimesOut,
    RequestCancelled, ReadResponse, ReadRequest, ReadCancelRequest,
    CallbackReturns, AnswerWritten, AnswerFails, ErrorAnswerFails,
    HandlerCancelled, ReadTaskStarted, ReadTaskSettled, ReadResult,
    ResultFlushed, SendMessage, ReadEof, ReadWhenClosed, ReadFails, SendError,
    ReaderCancelled, FinalFlush, ReaderDone, Receive, EndOfStream, Leave,
    WritePrompt, PromptsEnd, ResultSeen, EndInput, Close, CancelChildren,
    CancelReader, ReaderJoined, CloseTransport, StartTurn, CliDies,
    MirrorSettles, HandlerDone, Unwind

\* Steps keep the types of the request tables: the result a call takes is there.
LEMMA RequestTypesKept ==
    ASSUME RequestTypes, EntriesMatchCalls, [Next]_vars
    PROVE  RequestTypes'
<1>1. ASSUME UNCHANGED requests PROVE RequestTypes'
  BY <1>1 DEF RequestTypes, Outcomes, Errors
<1>2. ASSUME NEW r \in Requesters, SendRequest(r) PROVE RequestTypes'
  BY <1>2 DEF SendRequest, Put, RequestTypes, Outcomes, Errors
<1>3. ASSUME NEW r \in Requesters, RequestWritten(r) PROVE RequestTypes'
  BY <1>3 DEF RequestWritten, RequestTypes, Outcomes, Errors
<1>4. ASSUME NEW r \in Requesters, RequestNotWritten(r) PROVE RequestTypes'
  BY <1>4 DEF RequestNotWritten, Return, WriteFails, StdinAfterFailure,
      RequestTypes, Outcomes, Errors
<1>5. ASSUME NEW r \in Requesters, RequestReturns(r) PROVE RequestTypes'
  BY <1>5 DEF RequestReturns, Return, Forget, Without, RequestTypes, Outcomes,
      Errors, EntriesMatchCalls
<1>6. ASSUME NEW r \in Requesters, RequestExpires(r) PROVE RequestTypes'
  BY <1>6 DEF RequestExpires, Expires, RequestTypes, Outcomes, Errors
<1>7. ASSUME NEW r \in Requesters, RequestTimesOut(r) PROVE RequestTypes'
  BY <1>7 DEF RequestTimesOut, Return, Forget, Without, RequestTypes, Outcomes,
      Errors
<1>8. ASSUME NEW r \in Requesters, RequestCancelled(r) PROVE RequestTypes'
  BY <1>8 DEF RequestCancelled, Return, RequestTypes, Outcomes, Errors
<1>9. ASSUME NEW r \in Requesters, ReadResponse(r) PROVE RequestTypes'
  <2>1. CASE Expected(r)
    <3>1. PICK x \in {"success", "error"} : pendingResults' = Put(pendingResults, r, x)
      BY <1>9, <2>1 DEF ReadResponse
    <3>2. pendingResponses' = Put(pendingResponses, r, TRUE) /\ UNCHANGED <<qpc, outcome>>
      BY <1>9, <2>1 DEF ReadResponse
    <3>3. QED
      BY <3>1, <3>2 DEF Put, RequestTypes
  <2>2. CASE ~Expected(r)
    BY <1>9, <2>2 DEF ReadResponse, RequestTypes
  <2>3. QED
    BY <2>1, <2>2
<1>10. ASSUME NEW x \in {"exit", "fault"}, ReadFails(x) PROVE RequestTypes'
  BY <1>10 DEF ReadFails, ErrorOf, CallError, Unanswered, Special, Exited,
      StdinAfterFailure, RequestTypes, Outcomes, Errors
<1>11. QED
  BY <1>1, <1>2, <1>3, <1>4, <1>5, <1>6, <1>7, <1>8, <1>9, <1>10, RequestFrame
     DEF RequestTypes, Outcomes, Errors, RequestStep

\* Steps keep the types of the tables of the CLI's requests.
LEMMA HandlerTypesKept ==
    ASSUME HandlerTypes, [Next]_vars
    PROVE  HandlerTypes'
<1>1. ASSUME UNCHANGED handlers PROVE HandlerTypes'
  BY <1>1 DEF HandlerTypes, Active
<1>2. ASSUME NEW q \in Incoming, ReadRequest(q) PROVE HandlerTypes'
  BY <1>2 DEF ReadRequest, Reading, HandlerTypes, Active
<1>3. ASSUME NEW q \in Incoming, ReadCancelRequest(q) PROVE HandlerTypes'
  BY <1>3 DEF ReadCancelRequest, Reading, HandlerTypes, Active
<1>4. ASSUME NEW q \in Incoming, CallbackReturns(q) PROVE HandlerTypes'
  BY <1>4 DEF CallbackReturns, HandlerTypes, Active
<1>5. ASSUME NEW q \in Incoming, AnswerWritten(q) PROVE HandlerTypes'
  BY <1>5 DEF AnswerWritten, HandlerDone, Ended, HandlerTypes, Active
<1>6. ASSUME NEW q \in Incoming, AnswerFails(q) PROVE HandlerTypes'
  BY <1>6 DEF AnswerFails, WriteFails, StdinAfterFailure, HandlerTypes, Active
<1>7. ASSUME NEW q \in Incoming, ErrorAnswerFails(q) PROVE HandlerTypes'
  BY <1>7 DEF ErrorAnswerFails, HandlerDone, Ended, WriteFails, StdinAfterFailure,
      HandlerTypes, Active
<1>8. ASSUME NEW q \in Incoming, HandlerCancelled(q) PROVE HandlerTypes'
  BY <1>8 DEF HandlerCancelled, HandlerDone, Ended, HandlerTypes, Active
<1>9. ASSUME CancelChildren PROVE HandlerTypes'
  BY <1>9 DEF CancelChildren, Flushed, Mirror!ReturnFlush, HandlerTypes, Active
<1>10. QED
  BY <1>1, <1>2, <1>3, <1>4, <1>5, <1>6, <1>7, <1>8, <1>9, HandlerFrame
     DEF HandlerTypes, Active, HandlerStep

\* Steps keep the types of the mirror.
LEMMA MirrorTypesKept ==
    ASSUME MirrorTypes, [Next]_vars
    PROVE  MirrorTypes'
<1>1. ASSUME UNCHANGED mirror PROVE MirrorTypes'
  BY <1>1 DEF MirrorTypes
<1>2. ASSUME ReadMirror PROVE MirrorTypes'
  BY <1>2 DEF ReadMirror, Reading, Mirror!Accept, MirrorTypes
<1>3. ASSUME NEW x \in Results, ReadResult(x) PROVE MirrorTypes'
  BY <1>3 DEF ReadResult, Reading, Mirror!CallFlush, Item, MirrorTypes
<1>4. ASSUME ResultFlushed PROVE MirrorTypes'
  BY <1>4 DEF ResultFlushed, Flushed, Mirror!ReturnFlush, RunEnded, Route,
      MirrorTypes
<1>5. ASSUME ReaderCancelled PROVE MirrorTypes'
  BY <1>5 DEF ReaderCancelled, Unwind, Flushed, Mirror!ReturnFlush, MirrorTypes
<1>6. ASSUME FinalFlush PROVE MirrorTypes'
  BY <1>6 DEF FinalFlush, Mirror!CallFlush, MirrorTypes
<1>7. ASSUME ReaderDone PROVE MirrorTypes'
  BY <1>7 DEF ReaderDone, Flushed, Mirror!ReturnFlush, Marked, Room, Special,
      OpenAfterEnd, MirrorTypes
<1>8. ASSUME Close PROVE MirrorTypes'
  BY <1>8 DEF Close, Mirror!CallFlush, MirrorTypes
<1>9. ASSUME CancelChildren PROVE MirrorTypes'
  BY <1>9 DEF CancelChildren, Flushed, Mirror!ReturnFlush, MirrorTypes
<1>10. ASSUME MirrorSettles PROVE MirrorTypes'
  BY <1>10 DEF MirrorSettles, Mirror!Settle, Room, Special, MirrorTypes
<1>11. QED
  BY <1>1, <1>2, <1>3, <1>4, <1>5, <1>6, <1>7, <1>8, <1>9, <1>10, MirrorFrame
     DEF MirrorTypes

\* Steps keep the types of the CLI and leave its session alone.
LEMMA CliTypesKept ==
    ASSUME CliTypes, [Next]_vars
    PROVE  CliTypes' /\ cli'.setup = cli.setup
<1>1. ASSUME UNCHANGED cli PROVE CliTypes' /\ cli'.setup = cli.setup
  BY <1>1 DEF CliTypes, CliStates
<1>2. ASSUME NEW r \in Requesters, RequestWritten(r)
      PROVE  CliTypes' /\ cli'.setup = cli.setup
  BY <1>2 DEF RequestWritten, CliTypes, CliStates
<1>3. ASSUME NEW r \in Requesters, ReadResponse(r)
      PROVE  CliTypes' /\ cli'.setup = cli.setup
  BY <1>3 DEF ReadResponse, Put, Expected, Reading, CliTypes, CliStates
<1>4. ASSUME NEW q \in Incoming, ReadRequest(q)
      PROVE  CliTypes' /\ cli'.setup = cli.setup
  BY <1>4 DEF ReadRequest, Reading, CliTypes, CliStates
<1>5. ASSUME NEW t \in Tasks, ReadTaskStarted(t)
      PROVE  CliTypes' /\ cli'.setup = cli.setup
  BY <1>5 DEF ReadTaskStarted, Reading, AfterMessage, Route, Item, CliTypes,
      CliStates
<1>6. ASSUME NEW t \in Tasks, ReadTaskSettled(t)
      PROVE  CliTypes' /\ cli'.setup = cli.setup
  <2>1. PICK n \in OwedAfterSettling : cli' = [cli EXCEPT !.running = @ \ {t}, !.owed = n]
    BY <1>6 DEF ReadTaskSettled
  <2>2. n \in Nat
    BY DEF OwedAfterSettling, CliTypes, CliStates
  <2>3. QED
    BY <2>1, <2>2 DEF CliTypes, CliStates
<1>7. ASSUME NEW x \in Results, ReadResult(x)
      PROVE  CliTypes' /\ cli'.setup = cli.setup
  BY <1>7 DEF ReadResult, Reading, Mirror!CallFlush, Item, CliTypes, CliStates
<1>8. ASSUME ReadEof PROVE CliTypes' /\ cli'.setup = cli.setup
  BY <1>8 DEF ReadEof, Unwind, Exited, StdinAfterFailure, CliTypes, CliStates
<1>9. ASSUME NEW x \in {"exit", "fault"}, ReadFails(x)
      PROVE  CliTypes' /\ cli'.setup = cli.setup
  BY <1>9 DEF ReadFails, ErrorOf, CallError, Unanswered, Special, Exited,
      StdinAfterFailure, CliTypes, CliStates
<1>10. ASSUME WritePrompt PROVE CliTypes' /\ cli'.setup = cli.setup
  <2>1. cli' = [cli EXCEPT !.prompts = @ + 1, !.owed = @ + 1]
    BY <1>10 DEF WritePrompt
  <2>2. cli.owed + 1 \in Nat /\ cli.prompts + 1 \in Nat
    BY DEF CliTypes, CliStates
  <2>3. QED
    BY <2>1, <2>2 DEF CliTypes, CliStates
<1>11. ASSUME CloseTransport PROVE CliTypes' /\ cli'.setup = cli.setup
  BY <1>11 DEF CloseTransport, CliTypes, CliStates
<1>12. ASSUME StartTurn PROVE CliTypes' /\ cli'.setup = cli.setup
  <2>1. cli.owed \in Nat /\ cli.owed > 0 /\ cli' = [cli EXCEPT !.turn = TRUE, !.owed = @ - 1]
    BY <1>12 DEF StartTurn, CliTypes, CliStates
  <2>2. cli.owed - 1 \in Nat
    BY <2>1
  <2>3. QED
    BY <2>1, <2>2 DEF CliTypes, CliStates
<1>13. ASSUME CliDies PROVE CliTypes' /\ cli'.setup = cli.setup
  BY <1>13 DEF CliDies, CliTypes, CliStates
<1>14. QED
  BY <1>1, <1>2, <1>3, <1>4, <1>5, <1>6, <1>7, <1>8, <1>9, <1>10, <1>11, <1>12,
      <1>13, CliFrame DEF CliTypes, CliStates

\* What the reader routes is a message.
LEMMA ItemType ==
    ASSUME ReaderTypes, MirrorTypes, NEW t \in MessageTypes
    PROVE  Item(t) \in Items /\ routed + 1 \in Nat
BY DEF ReaderTypes, MirrorTypes, Items, Item

\* Steps keep the types of the reader.
LEMMA ReaderTypesKept ==
    ASSUME ReaderTypes, MirrorTypes, [Next]_vars
    PROVE  ReaderTypes'
<1>1. ASSUME UNCHANGED <<rpc, current, lastErrorResult, routed>> PROVE ReaderTypes'
  BY <1>1 DEF ReaderTypes
<1>2. ASSUME ReadMessage PROVE ReaderTypes'
  <2>1. lastErrorResult' = FALSE
    BY <1>2, Zenon DEF ReadMessage, AfterMessage
  <2>2. current' = Item("message") /\ rpc' = "sending" /\ routed' = routed + 1
    BY <1>2, Zenon DEF ReadMessage, Route
  <2>3. Item("message") \in Items /\ routed + 1 \in Nat
    BY ItemType DEF MessageTypes
  <2>4. lastErrorResult' \in BOOLEAN
    BY <2>1, Zenon
  <2>5. QED
    BY <2>2, <2>3, <2>4 DEF ReaderTypes, Over
<1>3. ASSUME ReadSessionStateChanged PROVE ReaderTypes'
  BY <1>3 DEF ReadSessionStateChanged, Reading, Route, Item, ReaderTypes, Over,
      Items, Specials, MessageTypes, Results, Errors
<1>4. ASSUME NEW t \in Tasks, ReadTaskStarted(t) PROVE ReaderTypes'
  <2>1. lastErrorResult' = FALSE
    BY <1>4, Zenon DEF ReadTaskStarted, AfterMessage
  <2>2. current' = Item("task_started") /\ rpc' = "sending" /\ routed' = routed + 1
    BY <1>4, Zenon DEF ReadTaskStarted, Route
  <2>3. Item("task_started") \in Items /\ routed + 1 \in Nat
    BY ItemType DEF MessageTypes
  <2>4. lastErrorResult' \in BOOLEAN
    BY <2>1, Zenon
  <2>5. QED
    BY <2>2, <2>3, <2>4 DEF ReaderTypes, Over
<1>5. ASSUME NEW t \in Tasks, ReadTaskSettled(t) PROVE ReaderTypes'
  <2>1. lastErrorResult' = FALSE
    BY <1>5, Zenon DEF ReadTaskSettled, AfterMessage
  <2>2. current' = Item("task_settled") /\ rpc' = "sending" /\ routed' = routed + 1
    BY <1>5, Zenon DEF ReadTaskSettled, Route
  <2>3. Item("task_settled") \in Items /\ routed + 1 \in Nat
    BY ItemType DEF MessageTypes
  <2>4. lastErrorResult' \in BOOLEAN
    BY <2>1, Zenon
  <2>5. QED
    BY <2>2, <2>3, <2>4 DEF ReaderTypes, Over
<1>6. ASSUME NEW x \in Results, ReadResult(x) PROVE ReaderTypes'
  BY <1>6 DEF ReadResult, Reading, Mirror!CallFlush, Item, ReaderTypes, Over,
      Items, Specials, MessageTypes, Results, Errors
<1>7. ASSUME ResultFlushed PROVE ReaderTypes'
  BY <1>7 DEF ResultFlushed, Flushed, Mirror!ReturnFlush, RunEnded, Route,
      ReaderTypes, Over, Items, Specials, MessageTypes, Results, Errors
<1>8. ASSUME SendMessage PROVE ReaderTypes'
  BY <1>8 DEF SendMessage, Room, ReaderTypes, Over, Items, Specials, MessageTypes,
      Results, Errors
<1>9. ASSUME ReadEof PROVE ReaderTypes'
  BY <1>9 DEF ReadEof, Unwind, Exited, StdinAfterFailure, ReaderTypes, Over,
      Items, Specials, MessageTypes, Results, Errors
<1>10. ASSUME ReadWhenClosed PROVE ReaderTypes'
  BY <1>10 DEF ReadWhenClosed, Unwind, ReaderTypes, Over, Items, Specials,
      MessageTypes, Results, Errors
<1>11. ASSUME NEW x \in {"exit", "fault"}, ReadFails(x) PROVE ReaderTypes'
  BY <1>11 DEF ReadFails, ErrorOf, CallError, Unanswered, Special, Exited,
      StdinAfterFailure, ReaderTypes, Over, Items, Specials, MessageTypes,
      Results, Errors
<1>12. ASSUME SendError PROVE ReaderTypes'
  BY <1>12 DEF SendError, Room, ReaderTypes, Over, Items, Specials, MessageTypes,
      Results, Errors
<1>13. ASSUME ReaderCancelled PROVE ReaderTypes'
  BY <1>13 DEF ReaderCancelled, Unwind, Flushed, Mirror!ReturnFlush, ReaderTypes,
      Over, Items, Specials, MessageTypes, Results, Errors
<1>14. ASSUME FinalFlush PROVE ReaderTypes'
  BY <1>14 DEF FinalFlush, Mirror!CallFlush, ReaderTypes, Over, Items, Specials,
      MessageTypes, Results, Errors
<1>15. ASSUME ReaderDone PROVE ReaderTypes'
  BY <1>15 DEF ReaderDone, Flushed, Mirror!ReturnFlush, Marked, Room, Special,
      OpenAfterEnd, ReaderTypes, Over, Items, Specials, MessageTypes, Results,
      Errors
<1>16. QED
  BY <1>1, <1>2, <1>3, <1>4, <1>5, <1>6, <1>7, <1>8, <1>9, <1>10, <1>11, <1>12,
      <1>13, <1>14, <1>15, ReaderFrame DEF ReaderTypes, Over, Items, Specials, MessageTypes, Results, Errors

\* Steps keep the types of close().
LEMMA CloserTypesKept ==
    ASSUME CloserTypes, [Next]_vars
    PROVE  CloserTypes'
<1>1. ASSUME UNCHANGED <<closer, readerCancelled>> PROVE CloserTypes'
  BY <1>1 DEF CloserTypes
<1>2. ASSUME Close PROVE CloserTypes'
  BY <1>2 DEF Close, Mirror!CallFlush, CloserTypes
<1>3. ASSUME CancelChildren PROVE CloserTypes'
  BY <1>3 DEF CancelChildren, Flushed, Mirror!ReturnFlush, CloserTypes
<1>4. ASSUME CancelReader PROVE CloserTypes'
  BY <1>4 DEF CancelReader, StopReader, CloserTypes
<1>5. ASSUME ReaderJoined PROVE CloserTypes'
  BY <1>5 DEF ReaderJoined, Receivable, CloserTypes
<1>6. ASSUME CloseTransport PROVE CloserTypes'
  BY <1>6 DEF CloseTransport, CloserTypes
<1>7. QED
  BY <1>1, <1>2, <1>3, <1>4, <1>5, <1>6, CloserFrame DEF CloserTypes, CloseStep

\* Steps keep the types of stdin and of the task that ends it.
LEMMA InputTypesKept ==
    ASSUME InputTypes, [Next]_vars
    PROVE  InputTypes'
<1>1. ASSUME UNCHANGED input PROVE InputTypes'
  BY <1>1 DEF InputTypes
<1>2. ASSUME NEW r \in Requesters, RequestNotWritten(r) PROVE InputTypes'
  BY <1>2 DEF RequestNotWritten, Return, WriteFails, StdinAfterFailure, InputTypes
<1>3. ASSUME NEW q \in Incoming, AnswerFails(q) PROVE InputTypes'
  BY <1>3 DEF AnswerFails, WriteFails, StdinAfterFailure, InputTypes
<1>4. ASSUME NEW q \in Incoming, ErrorAnswerFails(q) PROVE InputTypes'
  BY <1>4 DEF ErrorAnswerFails, HandlerDone, Ended, WriteFails, StdinAfterFailure,
      InputTypes
<1>5. ASSUME NEW t \in Tasks, ReadTaskStarted(t) PROVE InputTypes'
  BY <1>5 DEF ReadTaskStarted, Reading, AfterMessage, Route, Item, InputTypes
<1>6. ASSUME NEW t \in Tasks, ReadTaskSettled(t) PROVE InputTypes'
  BY <1>6 DEF ReadTaskSettled, Reading, AfterMessage, Route, Item, StillRunning,
      OwedAfterSettling, InputTypes
<1>7. ASSUME ResultFlushed PROVE InputTypes'
  BY <1>7 DEF ResultFlushed, Flushed, Mirror!ReturnFlush, RunEnded, Route,
      InputTypes
<1>8. ASSUME ReadEof PROVE InputTypes'
  BY <1>8 DEF ReadEof, Unwind, Exited, StdinAfterFailure, InputTypes
<1>9. ASSUME NEW x \in {"exit", "fault"}, ReadFails(x) PROVE InputTypes'
  BY <1>9 DEF ReadFails, ErrorOf, CallError, Unanswered, Special, Exited,
      StdinAfterFailure, InputTypes
<1>10. ASSUME ReaderDone PROVE InputTypes'
  BY <1>10 DEF ReaderDone, Flushed, Mirror!ReturnFlush, Marked, Room, Special,
      OpenAfterEnd, InputTypes
<1>11. ASSUME PromptsEnd PROVE InputTypes'
  BY <1>11 DEF PromptsEnd, Hold, InputTypes
<1>12. ASSUME ResultSeen PROVE InputTypes'
  BY <1>12 DEF ResultSeen, InputTypes
<1>13. ASSUME EndInput PROVE InputTypes'
  BY <1>13 DEF EndInput, InputTypes
<1>14. ASSUME CancelChildren PROVE InputTypes'
  BY <1>14 DEF CancelChildren, Flushed, Mirror!ReturnFlush, InputTypes
<1>15. ASSUME CloseTransport PROVE InputTypes'
  BY <1>15 DEF CloseTransport, InputTypes
<1>16. QED
  BY <1>1, <1>2, <1>3, <1>4, <1>5, <1>6, <1>7, <1>8, <1>9, <1>10, <1>11, <1>12,
      <1>13, <1>14, <1>15, InputFrame DEF InputTypes

\* An append to a stream that has room.
LEMMA AppendTypes ==
    ASSUME StreamTypes, CliTypes, NEW x \in Items \cup Specials, Room,
           buffer' = Append(buffer, x), cli'.setup = cli.setup
    PROVE  buffer' \in Seq(Items \cup Specials) /\ Len(buffer') <= BufferSize'
<1>1. Append(buffer, x) \in Seq(Items \cup Specials) /\ Len(Append(buffer, x)) = Len(buffer) + 1
  BY AppendProperties DEF StreamTypes
<1>2. BufferSize \in Nat /\ Len(buffer) \in Nat
  BY QueryAssumption, LenProperties DEF BufferSize, CliTypes, CliStates, Setup,
     StreamTypes
<1>3. QED
  BY <1>1, <1>2 DEF Room, BufferSize

\* Steps keep the types of the message stream.
LEMMA StreamTypesKept ==
    ASSUME StreamTypes, ReaderTypes, CliTypes, [Next]_vars
    PROVE  StreamTypes'
<1>1. ASSUME UNCHANGED <<stream, consumer>> PROVE StreamTypes'
  BY <1>1, CliTypesKept DEF StreamTypes, BufferSize
<1>2. ASSUME SendMessage PROVE StreamTypes'
  <2>1. current \in Items \cup Specials /\ buffer' = Append(buffer, current) /\ Room
    BY <1>2 DEF SendMessage, ReaderTypes
  <2>2. UNCHANGED <<sendOpen, cpc, delivered>>
    BY <1>2 DEF SendMessage
  <2>3. QED
    BY <2>1, <2>2, AppendTypes, CliTypesKept DEF StreamTypes
<1>3. ASSUME SendError PROVE StreamTypes'
  <2>1. current \in Items \cup Specials /\ buffer' = Append(buffer, current) /\ Room
    BY <1>3 DEF SendError, ReaderTypes
  <2>2. UNCHANGED <<sendOpen, cpc, delivered>>
    BY <1>3 DEF SendError
  <2>3. QED
    BY <2>1, <2>2, AppendTypes, CliTypesKept DEF StreamTypes
<1>4. ASSUME ReaderDone PROVE StreamTypes'
  <2>1. sendOpen' = FALSE /\ UNCHANGED <<cpc, delivered>>
    BY <1>4 DEF ReaderDone, OpenAfterEnd
  <2>2. CASE Room
    <3>1. buffer' = Append(buffer, Special("end"))
      BY <1>4, <2>2 DEF ReaderDone, Marked
    <3>2. Special("end") \in Items \cup Specials
      BY DEF Special, Specials
    <3>3. QED
      BY <2>1, <2>2, <3>1, <3>2, AppendTypes, CliTypesKept DEF StreamTypes
  <2>3. CASE ~Room
    <3>1. buffer' = buffer
      BY <1>4, <2>3 DEF ReaderDone, Marked
    <3>2. QED
      BY <2>1, <3>1, CliTypesKept DEF StreamTypes, BufferSize
  <2>4. QED
    BY <2>2, <2>3
<1>5. ASSUME Receive PROVE StreamTypes'
  <2>1. buffer # <<>> /\ buffer' = Tail(buffer) /\ UNCHANGED sendOpen
    BY <1>5 DEF Receive
  <2>2. Head(buffer) \in Items \cup Specials /\ Tail(buffer) \in Seq(Items \cup Specials)
          /\ Len(Tail(buffer)) = Len(buffer) - 1
    BY <2>1, HeadTailProperties DEF StreamTypes
  <2>3. cpc' \in {"iterating", "ended", "left"} \cup Errors
    BY <1>5 DEF Receive
  <2>4. delivered' \in Seq(Items)
    BY <1>5, <2>2, AppendProperties DEF Receive, StreamTypes, Specials
  <2>5. BufferSize \in Nat /\ Len(buffer) \in Nat
    BY QueryAssumption, LenProperties DEF BufferSize, CliTypes, CliStates, Setup,
       StreamTypes
  <2>6. QED
    BY <2>1, <2>2, <2>3, <2>4, <2>5, CliTypesKept DEF StreamTypes, BufferSize
<1>6. ASSUME EndOfStream PROVE StreamTypes'
  BY <1>6, CliTypesKept DEF EndOfStream, Iterating, StreamTypes, BufferSize
<1>7. ASSUME Leave PROVE StreamTypes'
  BY <1>7, CliTypesKept DEF Leave, Iterating, StreamTypes, BufferSize
<1>8. ASSUME ReaderJoined PROVE StreamTypes'
  BY <1>8, CliTypesKept DEF ReaderJoined, Receivable, StreamTypes, BufferSize
<1>9. ASSUME MirrorSettles PROVE StreamTypes'
  <2>1. UNCHANGED <<sendOpen, cpc, delivered>>
    BY <1>9 DEF MirrorSettles
  <2>2. CASE UNCHANGED buffer
    BY <2>1, <2>2, CliTypesKept DEF StreamTypes, BufferSize
  <2>3. CASE Room /\ buffer' = Append(buffer, Special("mirror_error"))
    <3>1. Special("mirror_error") \in Items \cup Specials
      BY DEF Special, Specials
    <3>2. QED
      BY <2>1, <2>3, <3>1, AppendTypes, CliTypesKept DEF StreamTypes
  <2>4. QED
    BY <1>9, <2>2, <2>3 DEF MirrorSettles
<1>10. QED
  BY <1>1, <1>2, <1>3, <1>4, <1>5, <1>6, <1>7, <1>8, <1>9, StreamFrame DEF StreamTypes

\* Steps keep the bound on the frames.
LEMMA CountTypesKept ==
    ASSUME CountTypes, CliTypes, [Next]_vars
    PROVE  CountTypes'
<1>1. ASSUME UNCHANGED nframes PROVE CountTypes'
  BY <1>1, CliTypesKept DEF CountTypes, MaxFrames
<1>2. ASSUME ReadMirror PROVE CountTypes'
  BY <1>2, CliTypesKept, QueryAssumption DEF ReadMirror, Reading, Mirror!Accept,
      CountTypes, MaxFrames, CliTypes, CliStates, Setup, QueryAssumption
<1>3. ASSUME ReadMessage PROVE CountTypes'
  BY <1>3, CliTypesKept, QueryAssumption DEF ReadMessage, Reading, AfterMessage,
      Route, Item, CountTypes, MaxFrames, CliTypes, CliStates, Setup,
      QueryAssumption
<1>4. ASSUME ReadSessionStateChanged PROVE CountTypes'
  BY <1>4, CliTypesKept, QueryAssumption DEF ReadSessionStateChanged, Reading,
      Route, Item, CountTypes, MaxFrames, CliTypes, CliStates, Setup,
      QueryAssumption
<1>5. QED
  BY <1>1, <1>2, <1>3, <1>4, CountFrame DEF CountTypes

\* Steps keep the types, given that the tables match.
LEMMA TypesKept ==
    ASSUME Types, EntriesMatchCalls, [Next]_vars
    PROVE  Types'
BY RequestTypesKept, HandlerTypesKept, MirrorTypesKept, CliTypesKept, ReaderTypesKept,
   CloserTypesKept, InputTypesKept, StreamTypesKept, CountTypesKept DEF Types

\* Steps keep the table of control requests.
LEMMA EntriesKept ==
    ASSUME RequestTypes, CallsFresh, EntriesMatchCalls, [Next]_vars
    PROVE  CallsFresh' /\ EntriesMatchCalls'
<1>1. ASSUME UNCHANGED requests PROVE CallsFresh' /\ EntriesMatchCalls'
  BY <1>1 DEF CallsFresh, EntriesMatchCalls
<1>2. ASSUME NEW r \in Requesters, SendRequest(r)
      PROVE  CallsFresh' /\ EntriesMatchCalls'
  <2>1. DOMAIN pendingResponses' = DOMAIN pendingResponses \cup {r}
          /\ \A q \in DOMAIN pendingResponses' :
                 pendingResponses'[q] = IF q = r THEN FALSE ELSE pendingResponses[q]
    BY <1>2 DEF SendRequest, Put
  <2>2. qpc[r] = "idle" /\ UNCHANGED <<pendingResults, outcome>>
          /\ \A q \in Requesters : qpc'[q] = IF q = r THEN "writing" ELSE qpc[q]
    BY <1>2 DEF SendRequest, RequestTypes
  <2>3. r \notin DOMAIN pendingResponses /\ outcome[r] = "none"
    BY <2>2 DEF CallsFresh
  <2>4. CallsFresh'
    BY <2>1, <2>2 DEF CallsFresh
  <2>5. DOMAIN pendingResults' = {q \in DOMAIN pendingResponses' : pendingResponses'[q]}
    <3>1. DOMAIN pendingResults = {q \in DOMAIN pendingResponses : pendingResponses[q]}
      BY DEF EntriesMatchCalls
    <3>2. QED
      BY <2>1, <2>2, <2>3, <3>1
  <2>6. \A q \in Requesters :
            /\ outcome'[q] \in Outcomes => q \notin DOMAIN pendingResponses'
            /\ qpc'[q] \in {"writing", "waiting", "expired"} => q \in DOMAIN pendingResponses'
    BY <2>1, <2>2, <2>3 DEF EntriesMatchCalls, Outcomes, Errors
  <2>7. QED
    BY <2>4, <2>5, <2>6 DEF EntriesMatchCalls
<1>3. ASSUME NEW r \in Requesters, RequestWritten(r)
      PROVE  CallsFresh' /\ EntriesMatchCalls'
  BY <1>3 DEF RequestWritten, CallsFresh, EntriesMatchCalls, RequestTypes,
      Outcomes, Errors
<1>4. ASSUME NEW r \in Requesters, RequestNotWritten(r)
      PROVE  CallsFresh' /\ EntriesMatchCalls'
  BY <1>4 DEF RequestNotWritten, Return, WriteFails, StdinAfterFailure,
      CallsFresh, EntriesMatchCalls, RequestTypes, Outcomes, Errors
<1>5. ASSUME NEW r \in Requesters, RequestReturns(r)
      PROVE  CallsFresh' /\ EntriesMatchCalls'
  BY <1>5 DEF RequestReturns, Return, Forget, Without, CallsFresh,
      EntriesMatchCalls, RequestTypes, Outcomes, Errors
<1>6. ASSUME NEW r \in Requesters, RequestExpires(r)
      PROVE  CallsFresh' /\ EntriesMatchCalls'
  BY <1>6 DEF RequestExpires, Expires, CallsFresh, EntriesMatchCalls,
      RequestTypes, Outcomes, Errors
<1>7. ASSUME NEW r \in Requesters, RequestTimesOut(r)
      PROVE  CallsFresh' /\ EntriesMatchCalls'
  BY <1>7 DEF RequestTimesOut, Return, Forget, Without, CallsFresh,
      EntriesMatchCalls, RequestTypes, Outcomes, Errors
<1>8. ASSUME NEW r \in Requesters, RequestCancelled(r)
      PROVE  CallsFresh' /\ EntriesMatchCalls'
  BY <1>8 DEF RequestCancelled, Return, CallsFresh, EntriesMatchCalls,
      RequestTypes, Outcomes, Errors
<1>9. ASSUME NEW r \in Requesters, ReadResponse(r)
      PROVE  CallsFresh' /\ EntriesMatchCalls'
  <2>1. UNCHANGED <<qpc, outcome>>
    BY <1>9 DEF ReadResponse
  <2>2. CASE Expected(r)
    <3>1. PICK x \in {"success", "error"} : pendingResults' = Put(pendingResults, r, x)
      BY <1>9, <2>2 DEF ReadResponse
    <3>2. pendingResponses' = Put(pendingResponses, r, TRUE)
      BY <1>9, <2>2 DEF ReadResponse
    <3>3. DOMAIN pendingResponses' = DOMAIN pendingResponses
            /\ \A q \in DOMAIN pendingResponses :
                   pendingResponses'[q] = IF q = r THEN TRUE ELSE pendingResponses[q]
      BY <2>2, <3>2 DEF Put, Expected
    <3>4. DOMAIN pendingResults' = DOMAIN pendingResults \cup {r}
      BY <3>1 DEF Put
    <3>5. QED
      BY <2>1, <2>2, <3>3, <3>4 DEF CallsFresh, EntriesMatchCalls, Expected
  <2>3. CASE ~Expected(r)
    BY <1>9, <2>1, <2>3 DEF ReadResponse, CallsFresh, EntriesMatchCalls
  <2>4. QED
    BY <2>2, <2>3
<1>10. ASSUME NEW x \in {"exit", "fault"}, ReadFails(x)
       PROVE  CallsFresh' /\ EntriesMatchCalls'
  BY <1>10 DEF ReadFails, ErrorOf, CallError, Unanswered, Special, Exited,
      StdinAfterFailure, CallsFresh, EntriesMatchCalls, RequestTypes, Outcomes,
      Errors
<1>11. QED
  BY <1>1, <1>2, <1>3, <1>4, <1>5, <1>6, <1>7, <1>8, <1>9, <1>10, RequestFrame
     DEF RequestStep

\* Steps keep the table of the CLI's requests.
LEMMA InflightKept ==
    ASSUME HandlerTypes, InflightTracked, [Next]_vars
    PROVE  InflightTracked'
<1>1. ASSUME UNCHANGED handlers PROVE InflightTracked'
  BY <1>1 DEF InflightTracked
<1>2. ASSUME NEW q \in Incoming, ReadRequest(q) PROVE InflightTracked'
  BY <1>2 DEF ReadRequest, Reading, InflightTracked, HandlerTypes, Active
<1>3. ASSUME NEW q \in Incoming, ReadCancelRequest(q) PROVE InflightTracked'
  BY <1>3 DEF ReadCancelRequest, Reading, InflightTracked, HandlerTypes, Active
<1>4. ASSUME NEW q \in Incoming, CallbackReturns(q) PROVE InflightTracked'
  BY <1>4 DEF CallbackReturns, InflightTracked, HandlerTypes, Active
<1>5. ASSUME NEW q \in Incoming, AnswerWritten(q) PROVE InflightTracked'
  BY <1>5 DEF AnswerWritten, HandlerDone, Ended, InflightTracked, HandlerTypes,
      Active
<1>6. ASSUME NEW q \in Incoming, AnswerFails(q) PROVE InflightTracked'
  BY <1>6 DEF AnswerFails, WriteFails, StdinAfterFailure, InflightTracked,
      HandlerTypes, Active
<1>7. ASSUME NEW q \in Incoming, ErrorAnswerFails(q) PROVE InflightTracked'
  BY <1>7 DEF ErrorAnswerFails, HandlerDone, Ended, WriteFails, StdinAfterFailure,
      InflightTracked, HandlerTypes, Active
<1>8. ASSUME NEW q \in Incoming, HandlerCancelled(q) PROVE InflightTracked'
  BY <1>8 DEF HandlerCancelled, HandlerDone, Ended, InflightTracked, HandlerTypes,
      Active
<1>9. ASSUME CancelChildren PROVE InflightTracked'
  BY <1>9 DEF CancelChildren, Flushed, Mirror!ReturnFlush, InflightTracked,
      HandlerTypes, Active
<1>10. QED
  BY <1>1, <1>2, <1>3, <1>4, <1>5, <1>6, <1>7, <1>8, <1>9, HandlerFrame
     DEF HandlerStep

\* An append makes a sequence longer by one.
LEMMA AppendIsLonger ==
    ASSUME NEW T, NEW s \in Seq(T), NEW x \in T
    PROVE  Longer(Append(s, x), s, x)
<1>1. Append(s, x) \in Seq(T) /\ Len(Append(s, x)) = Len(s) + 1
        /\ (\A i \in 1..Len(s) : Append(s, x)[i] = s[i]) /\ Append(s, x)[Len(s) + 1] = x
  BY AppendProperties
<1>2. Len(s) \in Nat /\ DOMAIN s = 1..Len(s)
        /\ DOMAIN Append(s, x) = 1..Len(Append(s, x))
  BY <1>1, LenProperties
<1>3. QED
  BY <1>1, <1>2 DEF Longer

\* A tail is the sequence without its head.
LEMMA TailIsShorter ==
    ASSUME NEW T, NEW s \in Seq(T), s # <<>>
    PROVE  Shorter(Tail(s), s) /\ Head(s) = s[1]
<1>1. Tail(s) \in Seq(T) /\ Len(Tail(s)) = Len(s) - 1
        /\ \A i \in 1..Len(Tail(s)) : Tail(s)[i] = s[i + 1]
  BY HeadTailProperties
<1>2. Len(s) \in Nat \ {0}
  BY EmptySeq
<1>3. DOMAIN s = 1..Len(s) /\ DOMAIN Tail(s) = 1..Len(Tail(s))
  BY <1>1, LenProperties
<1>4. QED
  BY <1>1, <1>2, <1>3 DEF Shorter

\* The consumer takes the first message; one is added to the stream.
Taken == IF buffer[1].n = 0 THEN delivered' = delivered
         ELSE Longer(delivered', delivered, buffer[1])
Added(x) ==
    \/ x = current /\ (SendMessage \/ SendError)
    \/ x = Special("end") /\ ReaderDone
    \/ x = Special("mirror_error") /\ MirrorSettles

\* A step leaves the messages of the stream alone, or the reader or the mirror
\* adds one at the end, or the consumer takes the first.
LEMMA StreamEffect ==
    ASSUME StreamTypes, ReaderTypes, [Next]_vars
    PROVE  \/ UNCHANGED <<buffer, delivered>>
           \/ \E x \in Items \cup Specials :
                  Longer(buffer', buffer, x) /\ UNCHANGED <<delivered, cpc>> /\ Added(x)
           \/ Receive /\ Shorter(buffer', buffer) /\ Taken
<1> DEFINE Append1 == \E x \in Items \cup Specials :
                  Longer(buffer', buffer, x) /\ UNCHANGED <<delivered, cpc>> /\ Added(x)
<1>1. ASSUME NEW x \in Items \cup Specials, buffer' = Append(buffer, x),
             UNCHANGED <<delivered, cpc>>, Added(x)
      PROVE  Append1
  BY <1>1, AppendIsLonger DEF StreamTypes
<1>2. ASSUME SendMessage \/ SendError PROVE Append1
  <2>1. current \in Items \cup Specials /\ buffer' = Append(buffer, current)
          /\ UNCHANGED <<delivered, cpc>>
    BY <1>2 DEF SendMessage, SendError, ReaderTypes
  <2>2. Added(current)
    BY <1>2 DEF Added
  <2>3. QED
    BY <1>1, <2>1, <2>2
<1>3. ASSUME ReaderDone PROVE Append1 \/ UNCHANGED <<buffer, delivered>>
  <2>1. UNCHANGED <<delivered, cpc>> /\ buffer' = Marked
    BY <1>3 DEF ReaderDone
  <2>2. Special("end") \in Items \cup Specials /\ Added(Special("end"))
    BY <1>3 DEF Special, Specials, Added
  <2>3. QED
    BY <1>1, <2>1, <2>2 DEF Marked
<1>4. ASSUME MirrorSettles PROVE Append1 \/ UNCHANGED <<buffer, delivered>>
  <2>1. UNCHANGED <<delivered, cpc>>
          /\ (UNCHANGED buffer \/ buffer' = Append(buffer, Special("mirror_error")))
    BY <1>4 DEF MirrorSettles
  <2>2. Special("mirror_error") \in Items \cup Specials /\ Added(Special("mirror_error"))
    BY <1>4 DEF Special, Specials, Added
  <2>3. QED
    BY <1>1, <2>1, <2>2
<1>5. ASSUME Receive PROVE Shorter(buffer', buffer) /\ Taken
  <2>1. buffer # <<>> /\ buffer' = Tail(buffer)
          /\ delivered' = IF Head(buffer).n = 0 THEN delivered
                          ELSE Append(delivered, Head(buffer))
    BY <1>5 DEF Receive
  <2>2. Shorter(Tail(buffer), buffer) /\ Head(buffer) = buffer[1]
    BY <2>1, TailIsShorter DEF StreamTypes
  <2>3. buffer[1].n # 0 => buffer[1] \in Items
    BY <2>1, <2>2, HeadTailProperties DEF StreamTypes, Specials
  <2>4. QED
    BY <2>1, <2>2, <2>3, AppendIsLonger DEF StreamTypes, Taken
<1>6. ASSUME EndOfStream \/ Leave \/ ReaderJoined PROVE UNCHANGED <<buffer, delivered>>
  BY <1>6 DEF EndOfStream, Leave, ReaderJoined, Receivable
<1>7. QED
  BY <1>2, <1>3, <1>4, <1>5, <1>6, StreamFrame

\* Only ReadMirror adds a frame to the mirror.
LEMMA MirrorEffect ==
    ASSUME MirrorTypes, [Next]_vars
    PROVE  ReadMirror \/ (UNCHANGED path /\ outstanding' \subseteq outstanding)
BY MirrorFrame DEF ReadResult, ResultFlushed, ReaderCancelled, FinalFlush,
   ReaderDone, Close,
      CancelChildren, MirrorSettles, Flushed, Mirror!CallFlush,
      Mirror!ReturnFlush, Mirror!Settle, Unwind

\* What was settled before a message stays so.
LEMMA SettledStays ==
    ASSUME MirrorTypes, [Next]_vars
    PROVE  \A x \in Items \cup Specials : x.mirrored <= Len(path) =>
               /\ x.mirrored <= Len(path')
               /\ SettledBefore(x) /\ x.type \in Results => \A f \in outstanding' : f > x.mirrored
<1>1. Len(path) \in Nat
  BY LenProperties DEF MirrorTypes
<1>2. CASE ReadMirror
  <2>1. path' = Append(path, "transcript") /\ outstanding' = outstanding \cup {Len(path) + 1}
    BY <1>2 DEF ReadMirror, Mirror!Accept
  <2>2. Len(path') = Len(path) + 1
    BY <2>1, AppendProperties DEF MirrorTypes
  <2>3. QED
    BY <1>1, <2>1, <2>2 DEF SettledBefore, Items, Specials
<1>3. CASE UNCHANGED path /\ outstanding' \subseteq outstanding
  BY <1>3 DEF SettledBefore
<1>4. QED
  BY <1>2, <1>3, MirrorEffect

\* Who calls flush, and what a call takes down.
LEMMA HorizonEffect ==
    ASSUME MirrorTypes, [Next]_vars
    PROVE  /\ \/ horizon'["closer"] = horizon["closer"]
              \/ Close /\ horizon'["closer"] = Len(path)
           /\ \/ horizon'["reader"] = horizon["reader"]
              \/ FinalFlush
              \/ \E x \in Results : ReadResult(x) /\ horizon'["reader"] = Len(path)
<1>1. CASE Close
  BY <1>1 DEF Close, Mirror!CallFlush, MirrorTypes
<1>2. CASE FinalFlush
  BY <1>2 DEF FinalFlush, Mirror!CallFlush, MirrorTypes
<1>3. ASSUME NEW x \in Results, ReadResult(x)
      PROVE  horizon'["closer"] = horizon["closer"] /\ horizon'["reader"] = Len(path)
  BY <1>3 DEF ReadResult, Mirror!CallFlush, MirrorTypes
<1>4. CASE ReadMirror \/ ResultFlushed \/ ReaderCancelled \/ ReaderDone \/ CancelChildren
           \/ MirrorSettles
  <2>1. UNCHANGED horizon
    BY <1>4 DEF ReadMirror, ResultFlushed, ReaderCancelled, ReaderDone,
       CancelChildren,
        MirrorSettles, Flushed, Mirror!Accept, Mirror!ReturnFlush, Mirror!Settle
  <2>2. QED
    BY <2>1
<1>5. QED
  BY <1>1, <1>2, <1>3, <1>4, MirrorFrame

\* Steps keep CloseInv.
LEMMA CloseInvKept ==
    ASSUME MirrorTypes, CloserTypes, CloseInv, [Next]_vars
    PROVE  CloseInv'
<1>1. (closed' <=> kpc' # "open")
        /\ (readerCancelled' => kpc' \in {"joining", "transport", "closed"})
        /\ (kpc = "open" /\ kpc' # "open" => Close)
  <2>1. CASE UNCHANGED <<closer, readerCancelled>>
    BY <2>1 DEF CloseInv
  <2>2. CASE CloseStep
    BY <2>2 DEF CloseStep, Close, CancelChildren, CancelReader, ReaderJoined,
       CloseTransport,
        CloseInv, CloserTypes
  <2>3. QED
    BY <2>1, <2>2, CloserFrame
<1>2. kpc' # "open" => horizon'["closer"] = Len(path')
  <2>1. SUFFICES ASSUME kpc' # "open" PROVE horizon'["closer"] = Len(path')
    OBVIOUS
  <2>2. CASE Close
    BY <2>2 DEF Close, Mirror!CallFlush, MirrorTypes
  <2>3. CASE ~Close
    <3>1. kpc # "open" /\ closed
      BY <1>1, <2>1, <2>3 DEF CloseInv
    <3>2. ~ReadMirror
      BY <3>1 DEF ReadMirror, Reading
    <3>3. UNCHANGED path /\ horizon'["closer"] = horizon["closer"]
      BY <2>3, <3>2, MirrorEffect, HorizonEffect
    <3>4. QED
      BY <3>1, <3>3 DEF CloseInv
  <2>4. QED
    BY <2>2, <2>3
<1>3. QED
  BY <1>1, <1>2 DEF CloseInv

\* close() stops taking frames before it flushes, so nothing is outstanding
\* once the flush has returned, and nothing can be again.
LEMMA CloseKeepsFramesKept ==
    ASSUME MirrorTypes, CloserTypes, CloseInv, CloseKeepsFrames, [Next]_vars
    PROVE  CloseKeepsFrames'
<1> DEFINE Past == {"bridges", "joining", "transport", "closed"}
<1>1. CASE CancelChildren
  <2>1. (\A f \in outstanding : f > horizon["closer"]) /\ UNCHANGED outstanding
    BY <1>1 DEF CancelChildren, Flushed, Mirror!ReturnFlush
  <2>2. horizon["closer"] = Len(path) /\ DOMAIN path = 1..Len(path) /\ Len(path) \in Nat
    BY <1>1, LenProperties DEF CancelChildren, CloseInv, MirrorTypes
  <2>3. outstanding = {}
    BY <2>1, <2>2 DEF MirrorTypes
  <2>4. QED
    BY <2>1, <2>3 DEF CloseKeepsFrames
<1>2. CASE ~CancelChildren /\ (readerCancelled' \/ kpc' \in Past)
  <2>1. readerCancelled \/ kpc \in Past
    <3>1. CASE UNCHANGED <<closer, readerCancelled>>
      BY <1>2, <3>1
    <3>2. CASE CloseStep
      BY <1>2, <3>2 DEF CloseStep, Close, CancelReader, ReaderJoined, CloseTransport
    <3>3. QED
      BY <3>1, <3>2, CloserFrame
  <2>2. ~ReadMirror
    BY <2>1 DEF ReadMirror, Reading, CloseInv
  <2>3. outstanding' = {}
    BY <2>1, <2>2, MirrorEffect DEF CloseKeepsFrames
  <2>4. QED
    BY <2>3 DEF CloseKeepsFrames
<1>3. CASE ~(readerCancelled' \/ kpc' \in Past)
  BY <1>3 DEF CloseKeepsFrames
<1>4. QED
  BY <1>1, <1>2, <1>3

\* Steps keep HandInv.
LEMMA HandInvKept ==
    ASSUME ReaderTypes, MirrorTypes, HandInv, [Next]_vars
    PROVE  HandInv'
<1>1. ASSUME UNCHANGED <<rpc, current, lastErrorResult, routed>> PROVE HandInv'
  BY <1>1 DEF HandInv
<1>2. ASSUME ReadMessage PROVE HandInv'
  BY <1>2 DEF ReadMessage, Reading, AfterMessage, Route, Item, ReaderTypes,
      MirrorTypes, HandInv, Over, Stopped, Items, Specials, Special,
      MessageTypes, Results, Errors
<1>3. ASSUME ReadSessionStateChanged PROVE HandInv'
  BY <1>3 DEF ReadSessionStateChanged, Reading, Route, Item, ReaderTypes,
      MirrorTypes, HandInv, Over, Stopped, Items, Specials, Special,
      MessageTypes, Results, Errors
<1>4. ASSUME NEW t \in Tasks, ReadTaskStarted(t) PROVE HandInv'
  BY <1>4 DEF ReadTaskStarted, Reading, AfterMessage, Route, Item, ReaderTypes,
      MirrorTypes, HandInv, Over, Stopped, Items, Specials, Special,
      MessageTypes, Results, Errors
<1>5. ASSUME NEW t \in Tasks, ReadTaskSettled(t) PROVE HandInv'
  BY <1>5 DEF ReadTaskSettled, Reading, AfterMessage, Route, Item, StillRunning,
      OwedAfterSettling, ReaderTypes, MirrorTypes, HandInv, Over, Stopped,
      Items, Specials, Special, MessageTypes, Results, Errors
<1>6. ASSUME NEW x \in Results, ReadResult(x) PROVE HandInv'
  BY <1>6 DEF ReadResult, Reading, Mirror!CallFlush, Item, ReaderTypes,
      MirrorTypes, HandInv, Over, Stopped, Items, Specials, Special,
      MessageTypes, Results, Errors
<1>7. ASSUME ResultFlushed PROVE HandInv'
  BY <1>7 DEF ResultFlushed, Flushed, Mirror!ReturnFlush, RunEnded, Route,
      ReaderTypes, MirrorTypes, HandInv, Over, Stopped, Items, Specials, Item,
      Special, MessageTypes, Results, Errors
<1>8. ASSUME SendMessage PROVE HandInv'
  BY <1>8 DEF SendMessage, Room, ReaderTypes, MirrorTypes, HandInv, Over, Stopped,
      Items, Specials, Item, Special, MessageTypes, Results, Errors
<1>9. ASSUME ReadEof PROVE HandInv'
  BY <1>9 DEF ReadEof, Unwind, Exited, StdinAfterFailure, ReaderTypes,
      MirrorTypes, HandInv, Over, Stopped, Items, Specials, Item, Special,
      MessageTypes, Results, Errors
<1>10. ASSUME ReadWhenClosed PROVE HandInv'
  BY <1>10 DEF ReadWhenClosed, Unwind, ReaderTypes, MirrorTypes, HandInv, Over,
      Stopped, Items, Specials, Item, Special, MessageTypes, Results, Errors
<1>11. ASSUME NEW x \in {"exit", "fault"}, ReadFails(x) PROVE HandInv'
  BY <1>11 DEF ReadFails, ErrorOf, CallError, Unanswered, Special, Exited,
      StdinAfterFailure, ReaderTypes, MirrorTypes, HandInv, Over, Stopped,
      Items, Specials, Item, MessageTypes, Results, Errors
<1>12. ASSUME SendError PROVE HandInv'
  BY <1>12 DEF SendError, Room, ReaderTypes, MirrorTypes, HandInv, Over, Stopped,
      Items, Specials, Item, Special, MessageTypes, Results, Errors
<1>13. ASSUME ReaderCancelled PROVE HandInv'
  BY <1>13 DEF ReaderCancelled, Unwind, Flushed, Mirror!ReturnFlush, ReaderTypes,
      MirrorTypes, HandInv, Over, Stopped, Items, Specials, Item, Special,
      MessageTypes, Results, Errors
<1>14. ASSUME FinalFlush PROVE HandInv'
  BY <1>14 DEF FinalFlush, Mirror!CallFlush, ReaderTypes, MirrorTypes, HandInv,
      Over, Stopped, Items, Specials, Item, Special, MessageTypes, Results,
      Errors
<1>15. ASSUME ReaderDone PROVE HandInv'
  BY <1>15 DEF ReaderDone, Flushed, Mirror!ReturnFlush, Marked, Room, Special,
      OpenAfterEnd, ReaderTypes, MirrorTypes, HandInv, Over, Stopped, Items,
      Specials, Item, MessageTypes, Results, Errors
<1>16. QED
  BY <1>1, <1>2, <1>3, <1>4, <1>5, <1>6, <1>7, <1>8, <1>9, <1>10, <1>11, <1>12,
      <1>13, <1>14, <1>15, ReaderFrame

\* The flush before a result is routed makes the reader's message a safe one.
LEMMA BarrierInHand ==
    ASSUME ReaderTypes, MirrorTypes, Barrier, [Next]_vars
    PROVE  /\ current'.mirrored <= Len(path')
           /\ rpc' = "sending" => SettledBefore(current)'
           /\ rpc' = "flushing" => current'.mirrored <= horizon'["reader"]
<1> DEFINE Goal == /\ current'.mirrored <= Len(path')
                   /\ rpc' = "sending" => SettledBefore(current)'
                   /\ rpc' = "flushing" => current'.mirrored <= horizon'["reader"]
<1>1. Len(path) \in Nat /\ current \in Items \cup Specials
  BY LenProperties DEF MirrorTypes, ReaderTypes
<1>2. ASSUME UNCHANGED <<rpc, current>> PROVE Goal
  <2>1. rpc = "flushing" => horizon'["reader"] = horizon["reader"]
    BY <1>2, HorizonEffect DEF FinalFlush, ReadResult, Reading
  <2>2. QED
    BY <1>1, <1>2, <2>1, SettledStays DEF Barrier, SettledBefore
<1>3. ASSUME ReadMessage \/ ReadSessionStateChanged
             \/ \E t \in Tasks : ReadTaskStarted(t) \/ ReadTaskSettled(t)
      PROVE  Goal
  <2>1. UNCHANGED path /\ rpc' = "sending"
    BY <1>3 DEF ReadMessage, ReadSessionStateChanged, ReadTaskStarted,
       ReadTaskSettled, Route
  <2>2. \E t \in MessageTypes \ Results : current' = Item(t)
    BY <1>3 DEF ReadMessage, ReadSessionStateChanged, ReadTaskStarted,
       ReadTaskSettled, Route,
        MessageTypes, Results
  <2>3. QED
    BY <1>1, <2>1, <2>2 DEF Item, SettledBefore
<1>4. ASSUME NEW x \in Results, ReadResult(x) PROVE Goal
  BY <1>1, <1>4 DEF ReadResult, Item, Mirror!CallFlush, MirrorTypes
<1>5. ASSUME ResultFlushed PROVE Goal
  <2>1. /\ UNCHANGED <<path, outstanding, current>> /\ rpc = "flushing" /\ rpc' = "sending"
        /\ \A f \in outstanding : f > horizon["reader"]
    BY <1>5 DEF ResultFlushed, Flushed, Mirror!ReturnFlush, Route
  <2>2. outstanding \subseteq Nat /\ horizon["reader"] \in Nat /\ current.mirrored \in Nat
    BY <1>1, LenProperties DEF MirrorTypes, Items, Specials
  <2>3. QED
    BY <2>1, <2>2 DEF Barrier, SettledBefore
<1>6. ASSUME SendMessage \/ SendError \/ ReadEof \/ ReadWhenClosed \/ ReaderCancelled \/ FinalFlush
             \/ ReaderDone
      PROVE  Goal
  <2>1. UNCHANGED current /\ rpc' \in {"reading", "unwinding", "final_flush", "done"}
    BY <1>6 DEF SendMessage, SendError, ReadEof, ReadWhenClosed, ReaderCancelled,
       FinalFlush,
        ReaderDone, Unwind
  <2>2. QED
    BY <1>1, <2>1, SettledStays DEF Barrier
<1>7. ASSUME NEW x \in {"exit", "fault"}, ReadFails(x) PROVE Goal
  BY <1>1, <1>7 DEF ReadFails, Special
<1>8. QED
  BY <1>2, <1>3, <1>4, <1>5, <1>6, <1>7, ReaderFrame

\* Steps keep Barrier.
LEMMA BarrierKept ==
    ASSUME ReaderTypes, StreamTypes, MirrorTypes, HandInv, Barrier, [Next]_vars
    PROVE  Barrier'
<1> DEFINE Now(x) == SettledBefore(x) /\ x.mirrored <= Len(path)
           Next1(x) == /\ x.type \in Results => \A f \in outstanding' : f > x.mirrored
                       /\ x.mirrored <= Len(path')
<1>1. \A x \in Items \cup Specials : Now(x) => Next1(x)
  BY SettledStays
<1>2. \A i \in DOMAIN buffer : buffer[i] \in Items \cup Specials /\ Now(buffer[i])
  BY ElementOfSeq, LenProperties DEF StreamTypes, Barrier
<1>3. \A i \in DOMAIN delivered : delivered[i] \in Items \cup Specials /\ Now(delivered[i])
  BY ElementOfSeq, LenProperties DEF StreamTypes, Barrier
<1>4. ASSUME NEW x \in Items \cup Specials, Added(x) PROVE Now(x)
  <2>1. CASE x = current /\ SendMessage
    BY <2>1 DEF SendMessage, Barrier
  <2>2. CASE x = current /\ SendError
    BY <2>2 DEF SendError, Barrier, HandInv, SettledBefore, Errors, Results
  <2>3. CASE x = Special("end") \/ x = Special("mirror_error")
    BY <2>3, LenProperties DEF Special, SettledBefore, Results, MirrorTypes
  <2>4. QED
    BY <1>4, <2>1, <2>2, <2>3 DEF Added
<1>5. \A i \in DOMAIN buffer' : Next1(buffer'[i])
  <2>1. CASE UNCHANGED buffer
    BY <1>1, <1>2, <2>1
  <2>2. ASSUME NEW x \in Items \cup Specials, Longer(buffer', buffer, x), Added(x)
        PROVE  \A i \in DOMAIN buffer' : Next1(buffer'[i])
    <3>1. Next1(x)
      BY <1>1, <1>4, <2>2
    <3> HIDE DEF Next1
    <3>2. QED
      BY <1>1, <1>2, <2>2, <3>1 DEF Longer
  <2>3. CASE Shorter(buffer', buffer)
    <3> HIDE DEF Next1
    <3>1. QED
      BY <1>1, <1>2, <2>3 DEF Shorter
  <2>4. QED
    BY <2>1, <2>2, <2>3, StreamEffect
<1>6. \A i \in DOMAIN delivered' : Next1(delivered'[i])
  <2>1. CASE UNCHANGED delivered
    BY <1>1, <1>3, <2>1
  <2>2. CASE Shorter(buffer', buffer) /\ Longer(delivered', delivered, buffer[1])
    <3>1. 1 \in DOMAIN buffer
      BY <2>2 DEF Shorter
    <3>2. Next1(buffer[1])
      BY <1>1, <1>2, <3>1
    <3> HIDE DEF Next1
    <3>3. QED
      BY <1>1, <1>3, <2>2, <3>2 DEF Longer
  <2>3. QED
    BY <2>1, <2>2, StreamEffect DEF Taken
<1>7. QED
  BY <1>5, <1>6, BarrierInHand DEF Barrier, SettledBefore

\* The numbers of the messages that wait in the buffer, and of those routed
\* that ought to be there or delivered.
Pending == {buffer[i].n : i \in Waiting}
Ordered == \A i, j \in Waiting : i < j => buffer[i].n < buffer[j].n
InFlight == IF rpc = "sending" THEN 1 ELSE 0
Last(lost) == routed - lost - InFlight

\* What an append to the buffer means for the messages that wait.
LEMMA WaitingGrows ==
    ASSUME StreamTypes, NEW x \in Items \cup Specials, Longer(buffer', buffer, x)
    PROVE  /\ Waiting \subseteq 1..Len(buffer) /\ Len(buffer) \in Nat
           /\ \A i : i \in Waiting' <=> (i \in Waiting \/ (i = Len(buffer) + 1 /\ x.n > 0))
           /\ \A i \in Waiting : buffer'[i] = buffer[i]
           /\ buffer'[Len(buffer) + 1] = x
<1>1. \A i \in DOMAIN buffer : buffer[i] \in Items \cup Specials
  BY ElementOfSeq, LenProperties DEF StreamTypes
<1>2. x.n \in Nat /\ \A i \in DOMAIN buffer : buffer[i].n \in Nat
  BY <1>1 DEF Items, Specials
<1>3. Waiting \subseteq 1..Len(buffer) /\ Waiting' \subseteq 1..Len(buffer) + 1 /\ Len(buffer) \in Nat
  BY DEF Waiting, Longer
<1>4. \A i : i \in Waiting' <=> (i \in Waiting \/ (i = Len(buffer) + 1 /\ x.n > 0))
  BY <1>2, <1>3 DEF Waiting, InStream, Longer
<1>5. QED
  BY <1>3, <1>4 DEF Longer

\* A message with a higher number joins those that wait in order.
LEMMA PendingGrows ==
    ASSUME StreamTypes, NEW x \in Items \cup Specials, Longer(buffer', buffer, x), Ordered
    PROVE  /\ Pending' = Pending \cup (IF x.n > 0 THEN {x.n} ELSE {})
           /\ (x.n > 0 => \A m \in Pending : m < x.n) => Ordered'
<1>1. Waiting \subseteq 1..Len(buffer) /\ Waiting' \subseteq 1..Len(buffer) + 1 /\ Len(buffer) \in Nat
  BY WaitingGrows DEF Waiting, Longer
<1>2. \A i : i \in Waiting' <=> (i \in Waiting \/ (i = Len(buffer) + 1 /\ x.n > 0))
  BY WaitingGrows
<1>3. \A i \in Waiting : buffer'[i] = buffer[i]
  BY WaitingGrows
<1>4. buffer'[Len(buffer) + 1] = x
  BY WaitingGrows
<1>5. Pending' = Pending \cup (IF x.n > 0 THEN {x.n} ELSE {})
  BY <1>2, <1>3, <1>4 DEF Pending
<1>6. ASSUME x.n > 0 => \A m \in Pending : m < x.n PROVE Ordered'
  <2>1. SUFFICES ASSUME NEW i \in Waiting', NEW j \in Waiting', i < j
                 PROVE  buffer'[i].n < buffer'[j].n
    BY DEF Ordered
  <2>2. i \in Waiting
    <3>1. i \in 1..Len(buffer) + 1 /\ j \in 1..Len(buffer) + 1
      BY <1>1, <2>1
    <3>2. i # Len(buffer) + 1
      BY <1>1, <2>1, <3>1
    <3>3. QED
      BY <1>2, <3>2
  <2>3. CASE j \in Waiting
    BY <1>3, <2>1, <2>2, <2>3 DEF Ordered
  <2>4. CASE j = Len(buffer) + 1 /\ x.n > 0
    BY <1>3, <1>4, <1>6, <2>2, <2>4 DEF Pending
  <2>5. QED
    BY <1>2, <2>1, <2>3, <2>4
<1>7. QED
  BY <1>5, <1>6

\* What a tail means for the messages that wait.
LEMMA WaitingShrinks ==
    ASSUME StreamTypes, Shorter(buffer', buffer)
    PROVE  /\ Waiting \subseteq 1..Len(buffer) /\ Len(buffer) \in Nat \ {0}
           /\ \A i : i \in Waiting' <=> (i \in 1..Len(buffer) - 1 /\ i + 1 \in Waiting)
           /\ \A i \in Waiting' : buffer'[i] = buffer[i + 1]
           /\ 1 \in Waiting <=> buffer[1].n # 0
           /\ \A i \in Waiting : buffer[i].n \in Nat
<1>1. \A i \in DOMAIN buffer : buffer[i] \in Items \cup Specials
  BY ElementOfSeq, LenProperties DEF StreamTypes
<1>2. \A i \in DOMAIN buffer : buffer[i].n \in Nat
  BY <1>1 DEF Items, Specials
<1>3. Waiting \subseteq 1..Len(buffer) /\ Len(buffer) \in Nat \ {0}
  BY DEF Waiting, Shorter
<1>4. \A i : i \in Waiting' <=> (i \in 1..Len(buffer) - 1 /\ i + 1 \in Waiting)
  BY <1>3 DEF Waiting, InStream, Shorter
<1>5. \A i \in Waiting' : buffer'[i] = buffer[i + 1]
  BY <1>4 DEF Shorter
<1>6. 1 \in Waiting <=> buffer[1].n # 0
  BY <1>2, <1>3 DEF Waiting, InStream, Shorter
<1>7. \A i \in Waiting : buffer[i].n \in Nat
  BY <1>2 DEF Waiting
<1>8. QED
  BY <1>3, <1>4, <1>5, <1>6, <1>7

\* What the consumer takes is the message that has waited longest.
LEMMA PendingShrinks ==
    ASSUME StreamTypes, Shorter(buffer', buffer), Ordered
    PROVE  /\ Ordered'
           /\ buffer[1].n = 0 => Pending' = Pending
           /\ buffer[1].n # 0 => /\ Pending' = Pending \ {buffer[1].n}
                                 /\ buffer[1].n \in Pending
                                 /\ \A m \in Pending : buffer[1].n <= m
<1>1. \A i \in Waiting : buffer[i].n \in Nat
  BY WaitingShrinks
<1>2. Waiting \subseteq 1..Len(buffer) /\ Len(buffer) \in Nat \ {0}
  BY WaitingShrinks
<1>3. \A i : i \in Waiting' <=> (i \in 1..Len(buffer) - 1 /\ i + 1 \in Waiting)
  BY WaitingShrinks
<1>4. \A i \in Waiting' : buffer'[i] = buffer[i + 1]
  BY WaitingShrinks
<1>5. Ordered'
  BY <1>2, <1>3, <1>4 DEF Ordered
<1>6. \A i \in Waiting : i # 1 => i - 1 \in Waiting' /\ buffer'[i - 1] = buffer[i]
  BY <1>2, <1>3, <1>4
<1>7. 1 \in Waiting <=> buffer[1].n # 0
  BY WaitingShrinks
<1>8. \A i \in Waiting : i # 1 /\ 1 \in Waiting => buffer[1].n < buffer[i].n
  BY <1>2 DEF Ordered
<1>9. \A m : m \in Pending' <=> \E i \in Waiting : i # 1 /\ m = buffer[i].n
  BY <1>2, <1>3, <1>4, <1>6 DEF Pending
<1>10. ASSUME buffer[1].n = 0 PROVE Pending' = Pending
  <2>1. 1 \notin Waiting
    BY <1>7, <1>10
  <2>2. \A m : m \in Pending' <=> m \in Pending
    BY <1>9, <2>1 DEF Pending
  <2>3. QED
    BY <2>2
<1>11. ASSUME buffer[1].n # 0
       PROVE  /\ Pending' = Pending \ {buffer[1].n} /\ buffer[1].n \in Pending
              /\ \A m \in Pending : buffer[1].n <= m
  <2>1. 1 \in Waiting
    BY <1>7, <1>11
  <2>2. \A i \in Waiting : buffer[i].n \in Nat
    BY <1>1
  <2>3. \A m : m \in Pending' <=> m \in Pending /\ m # buffer[1].n
    BY <1>8, <1>9, <2>1, <2>2 DEF Pending
  <2>4. buffer[1].n \in Pending
    BY <2>1 DEF Pending
  <2>5. \A m \in Pending : buffer[1].n <= m
    BY <1>8, <2>1, <2>2 DEF Pending
  <2>6. QED
    BY <2>3, <2>4, <2>5
<1>12. QED
  BY <1>5, <1>10, <1>11

\* A cancelled reader stays cancelled.
LEMMA CancelledStays ==
    ASSUME CloserTypes, CloseInv, [Next]_vars
    PROVE  readerCancelled => readerCancelled'
<1>1. CASE UNCHANGED readerCancelled
  BY <1>1
<1>2. CASE CloseStep
  BY <1>2 DEF CloseStep, Close, CancelChildren, CancelReader, ReaderJoined,
     CloseTransport, CloseInv
<1>3. QED
  BY <1>1, <1>2, CloserFrame

\* Whatever the reader does but send, the messages that ought to be in the
\* stream stay the same; it takes the one in its hand along when cancelled.
LEMMA LastEffect ==
    ASSUME ReaderTypes, CloserTypes, CloseInv, HandInv, rpc = "sending" => current.n = routed,
           [Next]_vars, ~SendMessage
    PROVE  /\ \A lost \in MayBeLost : \E now \in MayBeLost' : Last(now)' = Last(lost)
           /\ rpc' = "sending" => current'.n = routed'
<1> DEFINE Goal == /\ \A lost \in MayBeLost : \E now \in MayBeLost' : Last(now)' = Last(lost)
                   /\ rpc' = "sending" => current'.n = routed'
<1>1. routed \in Nat
  BY DEF ReaderTypes
<1>2. readerCancelled => closed /\ readerCancelled'
  BY CancelledStays DEF CloseInv
<1>3. ASSUME UNCHANGED <<rpc, current, routed>> PROVE Goal
  BY <1>2, <1>3 DEF MayBeLost, Last, InFlight
<1>4. ASSUME Reading, rpc' = "sending", routed' = routed + 1, current'.n = routed + 1 PROVE Goal
  BY <1>1, <1>2, <1>4 DEF Reading, MayBeLost, Last, InFlight
<1>5. ASSUME ResultFlushed PROVE Goal
  <2>1. rpc = "flushing" /\ ~readerCancelled /\ rpc' = "sending" /\ routed' = routed + 1
          /\ current' = current
    BY <1>5 DEF ResultFlushed, Route
  <2>2. QED
    BY <1>1, <2>1 DEF HandInv, MayBeLost, Last, InFlight
<1>6. ASSUME rpc # "sending", rpc' # "sending", routed' = routed PROVE Goal
  BY <1>1, <1>2, <1>6 DEF MayBeLost, Last, InFlight
<1>7. ASSUME ReaderCancelled PROVE Goal
  <2>1. readerCancelled /\ readerCancelled' /\ rpc' = "unwinding" /\ routed' = routed
    BY <1>2, <1>7 DEF ReaderCancelled, Unwind
  <2>2. QED
    BY <1>1, <2>1 DEF MayBeLost, Last, InFlight
<1>8. ASSUME ReadMessage \/ ReadSessionStateChanged
             \/ \E t \in Tasks : ReadTaskStarted(t) \/ ReadTaskSettled(t)
      PROVE  Goal
  <2>1. Reading /\ rpc' = "sending" /\ routed' = routed + 1 /\ current'.n = routed + 1
    <3>1. CASE ReadMessage \/ ReadSessionStateChanged
      BY <3>1 DEF ReadMessage, ReadSessionStateChanged, Route, Item
    <3>2. ASSUME NEW t \in Tasks, ReadTaskStarted(t) \/ ReadTaskSettled(t)
          PROVE  Reading /\ \E x : current' = Item(x) /\ Route(Item(x))
      BY <3>2 DEF ReadTaskStarted, ReadTaskSettled, Route
    <3>3. QED
      BY <1>8, <3>1, <3>2 DEF Route, Item
  <2>2. QED
    BY <1>4, <2>1
<1>9. ASSUME ReadEof \/ ReadWhenClosed \/ SendError \/ FinalFlush \/ ReaderDone
             \/ (\E x \in Results : ReadResult(x)) \/ \E x \in {"exit", "fault"} : ReadFails(x)
      PROVE  Goal
  BY <1>6, <1>9 DEF ReadEof, ReadWhenClosed, SendError, FinalFlush, ReaderDone,
     ReadResult,
      ReadFails, Unwind, Reading
<1>10. QED
  BY <1>3, <1>5, <1>7, <1>8, <1>9, ReaderFrame

\* Steps keep StreamConserved.
LEMMA StreamConservedKept ==
    ASSUME ReaderTypes, CloserTypes, StreamTypes, CloseInv, HandInv, StreamConserved, [Next]_vars
    PROVE  StreamConserved'
<1> DEFINE Numbered == \A i \in DOMAIN delivered : delivered[i].n = i
           InHandLast == rpc = "sending" => current.n = routed
           Adds(lost) == Len(delivered) <= Last(lost) /\ Pending = (Len(delivered) + 1)..Last(lost)
<1>1. /\ StreamConserved <=> Numbered /\ Ordered /\ InHandLast /\ \E lost \in MayBeLost : Adds(lost)
      /\ StreamConserved' <=> /\ Numbered' /\ Ordered' /\ InHandLast'
                              /\ \E now \in MayBeLost' : Adds(now)'
  BY DEF StreamConserved, Ordered, Last, Pending, InFlight
<1>2. Numbered /\ Ordered /\ InHandLast
  BY <1>1
<1>3. PICK lost \in MayBeLost : Adds(lost)
  BY <1>1
<1>4. Len(delivered) \in Nat /\ DOMAIN delivered = 1..Len(delivered)
        /\ routed \in Nat /\ Last(lost) \in Int
  BY LenProperties DEF StreamTypes, ReaderTypes, MayBeLost, Last, InFlight
<1>5. CASE SendMessage
  <2>1. PICK x \in Items \cup Specials :
            Longer(buffer', buffer, x) /\ UNCHANGED delivered /\ x = current
    <3>1. buffer' = Append(buffer, current) /\ UNCHANGED delivered
            /\ current \in Items \cup Specials
      BY <1>5 DEF SendMessage, ReaderTypes
    <3>2. QED
      BY <3>1, AppendIsLonger DEF StreamTypes
  <2>2. /\ rpc = "sending" /\ rpc' = "reading" /\ ~readerCancelled /\ UNCHANGED routed
        /\ 0 \in MayBeLost' /\ x.n = routed /\ lost = 0
    BY <1>2, <1>5, <2>1 DEF SendMessage, MayBeLost
  <2>3. x.n > 0
    BY <1>4, <2>1, <2>2 DEF HandInv, Items
  <2>4. Last(lost) = routed - 1 /\ Last(0)' = routed
    BY <1>4, <2>2 DEF Last, InFlight
  <2>5. Pending = (Len(delivered) + 1)..routed - 1
    BY <1>3, <2>4
  <2>6. Pending' = Pending \cup {routed} /\ Ordered'
    BY <1>2, <1>4, <2>1, <2>2, <2>3, <2>5, PendingGrows
  <2>7. Len(delivered) <= routed - 1
    BY <1>3, <2>4
  <2>8. Pending' = (Len(delivered) + 1)..routed
    BY <1>4, <2>5, <2>6, <2>7
  <2>9. Adds(0)'
    BY <1>4, <2>1, <2>4, <2>7, <2>8
  <2>10. QED
    BY <1>1, <1>2, <2>1, <2>2, <2>6, <2>9
<1>6. CASE ~SendMessage
  <2>1. /\ InHandLast'
        /\ \E now \in MayBeLost' : Last(now)' = Last(lost)
    BY <1>2, <1>6, LastEffect
  <2>2. SUFFICES /\ Numbered' /\ Ordered'
                 /\ Len(delivered') <= Last(lost)
                 /\ Pending' = (Len(delivered') + 1)..Last(lost)
    BY <1>1, <2>1
  <2>3. CASE UNCHANGED <<buffer, delivered>>
    BY <1>2, <1>3, <2>3 DEF Ordered, Pending, Waiting
  <2>4. ASSUME NEW x \in Items \cup Specials, Longer(buffer', buffer, x), UNCHANGED delivered,
               Added(x)
        PROVE  /\ Numbered' /\ Ordered'
               /\ Len(delivered') <= Last(lost)
               /\ Pending' = (Len(delivered') + 1)..Last(lost)
    <3>1. x.n = 0
      BY <1>6, <2>4 DEF Added, SendError, HandInv, ReaderTypes, Special, Specials,
         Items,
          MessageTypes, Errors, Results
    <3>2. Pending' = Pending /\ Ordered'
      BY <1>2, <2>4, <3>1, PendingGrows
    <3>3. QED
      BY <1>2, <1>3, <2>4, <3>2
  <2>5. CASE Shorter(buffer', buffer) /\ Taken
    <3>1. Ordered'
      BY <1>2, <2>5, PendingShrinks
    <3>2. CASE buffer[1].n = 0
      BY <1>2, <1>3, <2>5, <3>1, <3>2, PendingShrinks DEF Taken
    <3>3. CASE buffer[1].n # 0
      <4>1. Longer(delivered', delivered, buffer[1])
        BY <2>5, <3>3 DEF Taken
      <4>2. /\ Pending' = Pending \ {buffer[1].n}
            /\ buffer[1].n \in Pending
            /\ \A m \in Pending : buffer[1].n <= m
        BY <1>2, <2>5, <3>3, PendingShrinks
      <4>3. buffer[1].n = Len(delivered) + 1 /\ Len(delivered) + 1 <= Last(lost)
        BY <1>3, <1>4, <4>2
      <4>4. Len(delivered') = Len(delivered) + 1
        BY <4>1 DEF Longer
      <4>5. Pending' = (Len(delivered) + 1 + 1)..Last(lost)
        BY <1>3, <1>4, <4>2, <4>3
      <4>6. Numbered'
        BY <1>2, <1>4, <4>1, <4>3 DEF Longer
      <4>7. QED
        BY <3>1, <4>3, <4>4, <4>5, <4>6
    <3>4. QED
      BY <3>2, <3>3
  <2>6. QED
    BY <2>3, <2>4, <2>5, StreamEffect
<1>7. QED
  BY <1>5, <1>6

\* Only a send changes the set of the messages that are in the stream or delivered.
LEMMA StreamedEffect ==
    ASSUME StreamTypes, ReaderTypes, HandInv, [Next]_vars
    PROVE  Streamed' = Streamed \cup (IF SendMessage THEN {current} ELSE {})
<1>1. DOMAIN delivered = 1..Len(delivered) /\ Len(delivered) \in Nat
  BY LenProperties DEF StreamTypes
<1>2. CASE UNCHANGED <<buffer, delivered>>
  <2>1. Streamed' = Streamed
    BY <1>2 DEF Streamed, Waiting, InStream
  <2>2. ~SendMessage
    <3>1. SUFFICES ASSUME SendMessage PROVE FALSE
      OBVIOUS
    <3>2. buffer' = Append(buffer, current) /\ current \in Items \cup Specials
      BY <3>1 DEF SendMessage, ReaderTypes
    <3>3. Longer(buffer', buffer, current)
      BY <3>2, AppendIsLonger DEF StreamTypes
    <3>4. QED
      BY <1>2, <3>3 DEF Longer
  <2>3. QED
    BY <2>1, <2>2
<1>3. ASSUME NEW x \in Items \cup Specials, Longer(buffer', buffer, x), UNCHANGED delivered, Added(x)
      PROVE  Streamed' = Streamed \cup (IF SendMessage THEN {current} ELSE {})
  <2>1. SendMessage => x = current /\ x.n > 0
    <3>1. SUFFICES ASSUME SendMessage PROVE x = current /\ x.n > 0
      OBVIOUS
    <3>2. buffer' = Append(buffer, current) /\ current \in Items
      BY <3>1 DEF SendMessage, HandInv
    <3>3. Longer(buffer', buffer, current)
      BY <3>2, AppendIsLonger DEF StreamTypes
    <3>4. x = current
      BY <1>3, <3>3 DEF Longer
    <3>5. QED
      BY <3>2, <3>4 DEF Items
  <2>2. ~SendMessage => x.n = 0
    BY <1>3 DEF Added, SendError, HandInv, ReaderTypes, Special, Specials, Items,
        MessageTypes, Errors, Results
  <2>3. /\ Waiting \subseteq 1..Len(buffer) /\ Len(buffer) \in Nat
        /\ \A i : i \in Waiting' <=> (i \in Waiting \/ (i = Len(buffer) + 1 /\ x.n > 0))
        /\ \A i \in Waiting : buffer'[i] = buffer[i]
        /\ buffer'[Len(buffer) + 1] = x
    BY <1>3, WaitingGrows
  <2>4. {buffer'[i] : i \in Waiting'} = {buffer[i] : i \in Waiting} \cup (IF x.n > 0 THEN {x} ELSE {})
    BY <2>3
  <2>5. QED
    BY <1>3, <2>1, <2>2, <2>4 DEF Streamed
<1>4. CASE Receive /\ Shorter(buffer', buffer) /\ Taken
  <2>1. /\ Waiting \subseteq 1..Len(buffer) /\ Len(buffer) \in Nat \ {0}
        /\ \A i : i \in Waiting' <=> (i \in 1..Len(buffer) - 1 /\ i + 1 \in Waiting)
        /\ \A i \in Waiting' : buffer'[i] = buffer[i + 1]
        /\ 1 \in Waiting <=> buffer[1].n # 0
    BY <1>4, WaitingShrinks
  <2>2. \A i \in Waiting : i # 1 => i - 1 \in Waiting' /\ buffer'[i - 1] = buffer[i]
    BY <2>1
  <2>3. {buffer[i] : i \in Waiting}
          = {buffer'[i] : i \in Waiting'} \cup (IF buffer[1].n # 0 THEN {buffer[1]} ELSE {})
    <3>1. \A z : (\E i \in Waiting' : z = buffer'[i]) <=> (\E i \in Waiting : i # 1 /\ z = buffer[i])
      BY <2>1, <2>2
    <3>2. \A z : (\E i \in Waiting : z = buffer[i])
               <=> (\E i \in Waiting : i # 1 /\ z = buffer[i]) \/ (buffer[1].n # 0 /\ z = buffer[1])
      BY <2>1
    <3>3. QED
      BY <3>1, <3>2
  <2>4. {delivered'[i] : i \in DOMAIN delivered'}
          = {delivered[i] : i \in DOMAIN delivered} \cup (IF buffer[1].n # 0 THEN {buffer[1]} ELSE {})
    BY <1>1, <1>4 DEF Taken, Longer
  <2>5. Streamed' = Streamed
    BY <2>3, <2>4 DEF Streamed
  <2>6. ~SendMessage
    BY <1>4 DEF Receive, SendMessage
  <2>7. QED
    BY <2>5, <2>6
<1>5. QED
  BY <1>2, <1>3, <1>4, StreamEffect

\* The messages known so far have numbers up to the last one routed.
LEMMA StreamedNumbers ==
    ASSUME ReaderTypes, StreamTypes, StreamConserved
    PROVE  \A x \in Streamed : x.n \in Nat /\ x.n <= routed
<1>1. PICK lost \in MayBeLost :
          /\ Len(delivered) <= Last(lost)
          /\ {buffer[i].n : i \in Waiting} = (Len(delivered) + 1)..Last(lost)
  BY DEF StreamConserved, Last, InFlight
<1>2. Len(delivered) \in Nat /\ DOMAIN delivered = 1..Len(delivered) /\ routed \in Nat
        /\ lost \in {0, 1}
  BY LenProperties DEF StreamTypes, ReaderTypes, MayBeLost
<1>3. Last(lost) \in Int /\ Last(lost) <= routed
  BY <1>2 DEF Last, InFlight
<1>4. \A i \in DOMAIN delivered : delivered[i].n \in Nat /\ delivered[i].n <= routed
  BY <1>1, <1>2, <1>3 DEF StreamConserved
<1>5. \A i \in Waiting : buffer[i].n \in Nat /\ buffer[i].n <= routed
  <2>1. ASSUME NEW i \in Waiting PROVE buffer[i].n \in (Len(delivered) + 1)..Last(lost)
    BY <1>1
  <2>2. QED
    BY <1>2, <1>3, <2>1
<1>6. QED
  BY <1>4, <1>5 DEF Streamed

\* Once it has stopped, the reader has the same thing in its hand for ever.
LEMMA StoppedStays ==
    ASSUME ReaderTypes, [Next]_vars, rpc \in Stopped
    PROVE  /\ rpc' \in Stopped /\ current' = current
           /\ rpc \in Over => rpc' \in Over
<1>1. CASE UNCHANGED <<rpc, current, lastErrorResult, routed>>
  BY <1>1
<1>2. rpc \notin {"reading", "flushing", "sending"}
  BY DEF Stopped, Over
<1>3. CASE SendError \/ ReaderCancelled \/ FinalFlush \/ ReaderDone
  BY <1>3 DEF SendError, ReaderCancelled, FinalFlush, ReaderDone, Unwind, Stopped,
     Over
<1>4. ~(ReadMessage \/ ReadSessionStateChanged \/ ResultFlushed \/ SendMessage \/ ReadEof
          \/ ReadWhenClosed)
  BY <1>2 DEF ReadMessage, ReadSessionStateChanged, ResultFlushed, SendMessage,
     ReadEof,
      ReadWhenClosed, Reading
<1>5. /\ ~\E t \in Tasks : ReadTaskStarted(t) \/ ReadTaskSettled(t)
      /\ ~\E x \in Results : ReadResult(x)
      /\ ~\E x \in {"exit", "fault"} : ReadFails(x)
  BY <1>2 DEF ReadTaskStarted, ReadTaskSettled, ReadResult, ReadFails, Reading
<1>6. QED
  BY <1>1, <1>3, <1>4, <1>5, ReaderFrame

\* The reader routes one more message, or none.
RoutesOne ==
    /\ rpc \notin Stopped /\ rpc' = "sending" /\ current'.n \in Nat
    /\ Routed' = Routed \cup {current'}
    /\ \A x \in Routed : x.n \in Nat /\ x.n < current'.n
    /\ Marker(current') => lastErrorResult' = lastErrorResult
    /\ ~Marker(current') => (lastErrorResult' <=> current'.type = "error_result")
RoutesNone ==
    /\ Routed' = Routed
    /\ rpc' \notin Stopped => lastErrorResult' = lastErrorResult

\* A step leaves the messages routed and not lost as they are, or the reader
\* routes one more, or is cancelled with one in its hand.
LEMMA RoutedEffect ==
    ASSUME ReaderTypes, StreamTypes, HandInv, StreamConserved, [Next]_vars
    PROVE  RoutesNone \/ RoutesOne \/ (ReaderCancelled /\ rpc = "sending")
<1>1. routed \in Nat /\ Streamed' = Streamed \cup (IF SendMessage THEN {current} ELSE {})
  BY StreamedEffect DEF ReaderTypes
<1>2. \A x \in Streamed : x.n \in Nat /\ x.n <= routed
  BY StreamedNumbers
<1>3. rpc # "sending" => ~SendMessage /\ Routed = Streamed
  BY DEF SendMessage, Routed, InHand
<1>4. CASE UNCHANGED <<rpc, current, lastErrorResult, routed>>
  <2>1. ~SendMessage
    BY <1>4 DEF SendMessage
  <2>2. QED
    BY <1>1, <1>4, <2>1 DEF RoutesNone, Routed, InHand
<1>5. ASSUME rpc \in {"reading", "flushing"}, rpc' = "sending", current'.n = routed + 1,
             Marker(current') => lastErrorResult' = lastErrorResult,
             ~Marker(current') => (lastErrorResult' <=> current'.type = "error_result")
      PROVE  RoutesOne
  <2>1. Routed = Streamed /\ Routed' = Streamed \cup {current'}
    BY <1>1, <1>3, <1>5 DEF Routed, InHand
  <2>2. (\A x \in Routed : x.n \in Nat /\ x.n < current'.n) /\ current'.n \in Nat
    BY <1>1, <1>2, <1>5, <2>1
  <2>3. rpc \notin Stopped
    BY <1>5 DEF Stopped, Over
  <2>4. QED
    BY <1>5, <2>1, <2>2, <2>3, Zenon DEF RoutesOne
<1>6. CASE ReadMessage
  <2>1. Reading /\ lastErrorResult' = FALSE /\ Route(Item("message"))
    BY <1>6, Zenon DEF ReadMessage, AfterMessage
  <2>2. QED
    BY <1>5, <2>1 DEF Reading, Route, Item, Marker
<1>7. ASSUME NEW t \in Tasks, ReadTaskStarted(t) PROVE RoutesOne
  <2>1. Reading /\ lastErrorResult' = FALSE /\ Route(Item("task_started"))
    BY <1>7, Zenon DEF ReadTaskStarted, AfterMessage
  <2>2. QED
    BY <1>5, <2>1 DEF Reading, Route, Item, Marker
<1>8. ASSUME NEW t \in Tasks, ReadTaskSettled(t) PROVE RoutesOne
  <2>1. Reading /\ lastErrorResult' = FALSE /\ Route(Item("task_settled"))
    BY <1>8, Zenon DEF ReadTaskSettled, AfterMessage
  <2>2. QED
    BY <1>5, <2>1 DEF Reading, Route, Item, Marker
<1>9. CASE ReadSessionStateChanged
  <2>1. Reading /\ lastErrorResult' = lastErrorResult /\ Route(Item("session_state_changed"))
    BY <1>9 DEF ReadSessionStateChanged
  <2>2. QED
    BY <1>5, <2>1 DEF Reading, Route, Item, Marker
<1>10. CASE ResultFlushed
  <2>1. rpc = "flushing" /\ rpc' = "sending" /\ current' = current
    BY <1>10 DEF ResultFlushed, Route
  <2>2. current'.n = routed + 1 /\ ~Marker(current')
    BY <2>1 DEF HandInv, Results, Marker
  <2>3. lastErrorResult' = (current.type = "error_result")
    BY <1>10 DEF ResultFlushed
  <2>4. lastErrorResult' <=> current'.type = "error_result"
    BY <2>1, <2>3
  <2>5. QED
    BY <1>5, <2>1, <2>2, <2>4
<1>11. ASSUME NEW x \in Results, ReadResult(x) PROVE RoutesNone
  <2>1. rpc = "reading" /\ rpc' = "flushing" /\ lastErrorResult' = lastErrorResult
    BY <1>11 DEF ReadResult, Reading
  <2>2. QED
    BY <1>1, <1>3, <2>1 DEF RoutesNone, Routed, InHand
<1>12. CASE SendMessage
  <2>1. rpc = "sending" /\ rpc' = "reading" /\ lastErrorResult' = lastErrorResult
    BY <1>12 DEF SendMessage
  <2>2. QED
    BY <1>1, <1>12, <2>1 DEF RoutesNone, Routed, InHand
<1>13. ASSUME \/ ReadEof \/ ReadWhenClosed \/ SendError \/ FinalFlush \/ ReaderDone
              \/ ReaderCancelled /\ rpc # "sending"
              \/ \E x \in {"exit", "fault"} : ReadFails(x)
       PROVE  RoutesNone
  <2>1. rpc # "sending" /\ rpc' \in Stopped
    BY <1>13 DEF ReadEof, ReadWhenClosed, SendError, FinalFlush, ReaderDone,
       ReaderCancelled,
        ReadFails, Unwind, Stopped, Over
  <2>2. rpc' # "sending"
    BY <2>1 DEF Stopped, Over
  <2>3. QED
    BY <1>1, <1>3, <2>1, <2>2 DEF RoutesNone, Routed, InHand
<1>14. QED
  BY <1>4, <1>6, <1>7, <1>8, <1>9, <1>10, <1>11, <1>12, <1>13, ReaderFrame

\* What one more message means for the question which came last.
LEMMA LastIsErrorGrows ==
    ASSUME NEW M, NEW x, x.n \in Nat, \A y \in M : y.n \in Nat /\ y.n < x.n
    PROVE  /\ Marker(x) => (LastIsError(M \cup {x}) <=> LastIsError(M))
           /\ ~Marker(x) => (LastIsError(M \cup {x}) <=> x.type = "error_result")
<1>1. \A y \in M \cup {x} : y.n \in Nat /\ ~(y.n > x.n) /\ (y \in M => x.n > y.n)
  OBVIOUS
<1>2. ASSUME Marker(x) PROVE LastIsError(M \cup {x}) <=> LastIsError(M)
  <2>1. x.type # "error_result"
    BY <1>2 DEF Marker
  <2>2. QED
    BY <1>1, <1>2, <2>1 DEF LastIsError
<1>3. ASSUME ~Marker(x) PROVE LastIsError(M \cup {x}) <=> x.type = "error_result"
  BY <1>1, <1>3 DEF LastIsError
<1>4. QED
  BY <1>2, <1>3

\* Steps keep LastErrorExact: the reader's note says what came last.
LEMMA LastErrorExactKept ==
    ASSUME ReaderTypes, StreamTypes, HandInv, StreamConserved, LastErrorExact, [Next]_vars
    PROVE  LastErrorExact'
<1>1. SUFFICES ASSUME rpc' \notin Stopped PROVE lastErrorResult' <=> LastIsError(Routed')
  BY DEF LastErrorExact
<1>2. rpc \notin Stopped
  BY <1>1, StoppedStays
<1>3. lastErrorResult <=> LastIsError(Routed)
  BY <1>2 DEF LastErrorExact
<1>4. CASE RoutesNone
  BY <1>1, <1>3, <1>4 DEF RoutesNone
<1>5. CASE RoutesOne
  <2>1. /\ current'.n \in Nat /\ \A y \in Routed : y.n \in Nat /\ y.n < current'.n
        /\ Routed' = Routed \cup {current'}
    BY <1>5 DEF RoutesOne
  <2>2. /\ Marker(current') => (LastIsError(Routed') <=> LastIsError(Routed))
        /\ ~Marker(current') => (LastIsError(Routed') <=> current'.type = "error_result")
    BY <2>1, LastIsErrorGrows
  <2>3. QED
    BY <1>3, <1>5, <2>2 DEF RoutesOne
<1>6. ~ReaderCancelled
  BY <1>1 DEF ReaderCancelled, Unwind, Stopped, Over
<1>7. QED
  BY <1>4, <1>5, <1>6, RoutedEffect

\* Once the reader has stopped, the messages routed stay the same.
LEMMA RoutedStays ==
    ASSUME ReaderTypes, StreamTypes, HandInv, StreamConserved, [Next]_vars, rpc \in Stopped
    PROVE  Routed' = Routed
<1>1. ~RoutesOne /\ rpc # "sending"
  BY DEF RoutesOne, Stopped, Over
<1>2. QED
  BY <1>1, RoutedEffect DEF RoutesNone

\* The reader stops with what it has in its hand, or with an error of its own.
LEMMA Stops ==
    ASSUME ReaderTypes, HandInv, [Next]_vars, rpc \notin Stopped, rpc' \in Stopped
    PROVE  current'.type \notin Errors \/ \E x \in {"exit", "fault"} : ReadFails(x)
<1>1. ASSUME \/ UNCHANGED <<rpc, current, lastErrorResult, routed>>
             \/ ReadMessage \/ ReadSessionStateChanged
             \/ (\E t \in Tasks : ReadTaskStarted(t) \/ ReadTaskSettled(t))
             \/ (\E x \in Results : ReadResult(x)) \/ ResultFlushed \/ SendMessage
      PROVE  FALSE
  BY <1>1 DEF ReadMessage, ReadSessionStateChanged, ReadTaskStarted, ReadTaskSettled,
     ReadResult,
      ResultFlushed, SendMessage, Route, Stopped, Over
<1>2. ASSUME ReadEof \/ ReadWhenClosed \/ ReaderCancelled \/ SendError \/ FinalFlush \/ ReaderDone
      PROVE  current' = current
  BY <1>2 DEF ReadEof, ReadWhenClosed, ReaderCancelled, SendError, FinalFlush,
     ReaderDone, Unwind
<1>3. current.type \notin Errors
  BY DEF HandInv
<1>4. QED
  BY <1>1, <1>2, <1>3, ReaderFrame

\* Steps keep HandTruthful: the error is the right one for what has been routed.
LEMMA HandTruthfulKept ==
    ASSUME ReaderTypes, StreamTypes, CloserTypes, CloseInv, HandInv, StreamConserved,
           LastErrorExact, HandTruthful, [Next]_vars
    PROVE  HandTruthful'
<1>1. SUFFICES ASSUME rpc' \in Stopped, current'.type \in Errors, ~readerCancelled'
               PROVE  Truthful(current'.type, Routed')
  BY DEF HandTruthful, Truthful, LastIsError
<1>2. CASE rpc \in Stopped
  BY <1>1, <1>2, StoppedStays, RoutedStays, CancelledStays DEF HandTruthful
<1>3. CASE rpc \notin Stopped
  <2>1. PICK x \in {"exit", "fault"} : ReadFails(x)
    BY <1>1, <1>3, Stops
  <2>2. rpc' = "sending_error" /\ current'.type = ErrorOf(x) /\ ~ReaderCancelled
    BY <2>1 DEF ReadFails, Special, ReaderCancelled, Unwind
  <2>3. Routed' = Routed
    BY <2>2, RoutedEffect DEF RoutesOne, RoutesNone
  <2>4. lastErrorResult <=> LastIsError(Routed)
    BY <1>3 DEF LastErrorExact
  <2>5. CASE x = "fault"
    BY <2>2, <2>5 DEF ErrorOf, Truthful
  <2>6. CASE x = "exit" /\ lastErrorResult
    BY <2>2, <2>3, <2>4, <2>6 DEF ErrorOf, Truthful
  <2>7. CASE x = "exit" /\ ~lastErrorResult
    BY <2>2, <2>3, <2>4, <2>7 DEF ErrorOf, Truthful
  <2>8. QED
    BY <2>1, <2>5, <2>6, <2>7
<1>4. QED
  BY <1>2, <1>3

\* A message without a number is all that joins the stream once the reader has
\* stopped, and an error only from the reader's hand.
LEMMA AddedWhenStopped ==
    ASSUME ReaderTypes, HandInv, NEW x \in Items \cup Specials, Added(x)
    PROVE  /\ rpc \in Stopped => x.n = 0
           /\ x.type \in Errors => SendError /\ x = current /\ x.n = 0
<1>1. CASE x = current /\ SendMessage
  <2>1. rpc = "sending" /\ current \in Items
    BY <1>1 DEF SendMessage, HandInv
  <2>2. QED
    BY <1>1, <2>1 DEF Items, MessageTypes, Results, Errors, Stopped, Over
<1>2. CASE x = current /\ SendError
  BY <1>2 DEF SendError, HandInv, ReaderTypes, Items, Specials, MessageTypes,
     Results, Errors
<1>3. CASE x = Special("end") \/ x = Special("mirror_error")
  BY <1>3 DEF Special, Errors
<1>4. QED
  BY <1>1, <1>2, <1>3 DEF Added

\* Steps keep StreamTruthful.
LEMMA StreamTruthfulKept ==
    ASSUME ReaderTypes, StreamTypes, HandInv, StreamConserved, HandTruthful, StreamTruthful,
           [Next]_vars
    PROVE  StreamTruthful'
<1> DEFINE Said(e) == rpc \in Over /\ current.type = e /\ Truthful(e, Routed)
           SaidNext(e) == rpc' \in Over /\ current'.type = e /\ Truthful(e, Routed')
<1>1. \A e : Said(e) => SaidNext(e)
  BY StoppedStays, RoutedStays DEF Stopped
<1>2. SUFFICES ASSUME NEW i \in DOMAIN buffer', buffer'[i].type \in Errors
               PROVE  SaidNext(buffer'[i].type) /\ \A j \in Waiting' : j < i
  BY DEF StreamTruthful, Truthful, LastIsError
<1>3. \A k \in DOMAIN buffer : buffer[k].type \in Errors =>
          Said(buffer[k].type) /\ \A j \in Waiting : j < k
  BY DEF StreamTruthful
<1> HIDE DEF Said, SaidNext
<1>4. CASE UNCHANGED buffer
  <2>1. Waiting' = Waiting
    BY <1>4 DEF Waiting, InStream
  <2>2. QED
    BY <1>1, <1>2, <1>3, <1>4, <2>1
<1>5. ASSUME NEW x \in Items \cup Specials, Longer(buffer', buffer, x), Added(x)
      PROVE  SaidNext(buffer'[i].type) /\ \A j \in Waiting' : j < i
  <2>1. /\ Waiting \subseteq 1..Len(buffer) /\ Len(buffer) \in Nat
        /\ \A j : j \in Waiting' <=> (j \in Waiting \/ (j = Len(buffer) + 1 /\ x.n > 0))
    BY <1>5, WaitingGrows
  <2>2. CASE i = Len(buffer) + 1
    <3>1. buffer'[i] = x /\ x.type \in Errors
      BY <1>2, <1>5, <2>2 DEF Longer
    <3>2. SendError /\ x = current /\ x.n = 0
      BY <1>5, <3>1, AddedWhenStopped
    <3>3. rpc = "sending_error" /\ ~readerCancelled /\ rpc' = "unwinding" /\ current' = current
      BY <3>2 DEF SendError
    <3>4. Truthful(current.type, Routed) /\ Routed' = Routed
      BY <3>1, <3>2, <3>3, RoutedStays DEF HandTruthful, Stopped
    <3>5. SaidNext(buffer'[i].type)
      BY <3>1, <3>2, <3>3, <3>4 DEF SaidNext, Over
    <3>6. x.n = 0
      BY <3>2
    <3>7. Waiting' = Waiting
      BY <2>1, <3>6
    <3>8. QED
      BY <2>1, <2>2, <3>5, <3>7
  <2>3. CASE i # Len(buffer) + 1
    <3>1. i \in DOMAIN buffer /\ buffer'[i] = buffer[i]
      BY <1>2, <1>5, <2>3 DEF Longer
    <3>2. Said(buffer[i].type) /\ \A j \in Waiting : j < i
      BY <1>2, <1>3, <3>1
    <3>3. x.n = 0
      BY <1>5, <3>2, AddedWhenStopped DEF Said, Stopped
    <3>4. Waiting' = Waiting
      BY <2>1, <3>3
    <3>5. QED
      BY <1>1, <3>1, <3>2, <3>4
  <2>4. QED
    BY <2>2, <2>3
<1>6. CASE Shorter(buffer', buffer)
  <2>1. /\ Waiting \subseteq 1..Len(buffer) /\ Len(buffer) \in Nat \ {0}
        /\ \A j : j \in Waiting' <=> (j \in 1..Len(buffer) - 1 /\ j + 1 \in Waiting)
    BY <1>6, WaitingShrinks
  <2>2. i \in 1..Len(buffer) - 1 /\ i + 1 \in DOMAIN buffer /\ buffer'[i] = buffer[i + 1]
    BY <1>2, <1>6 DEF Shorter
  <2>3. Said(buffer[i + 1].type) /\ \A j \in Waiting : j < i + 1
    BY <1>2, <1>3, <2>2
  <2>4. \A j \in Waiting' : j < i
    BY <2>1, <2>2, <2>3
  <2>5. QED
    BY <1>1, <2>2, <2>3, <2>4
<1>7. QED
  BY <1>4, <1>5, <1>6, StreamEffect

\* Steps keep RaisedTruthful.
LEMMA RaisedTruthfulKept ==
    ASSUME ReaderTypes, StreamTypes, HandInv, StreamConserved, StreamTruthful, RaisedTruthful,
           [Next]_vars
    PROVE  RaisedTruthful'
<1> DEFINE Said(e) == rpc \in Over /\ current.type = e /\ Truthful(e, Routed)
           SaidNext(e) == rpc' \in Over /\ current'.type = e /\ Truthful(e, Routed')
<1>1. \A e : Said(e) => SaidNext(e)
  BY StoppedStays, RoutedStays DEF Stopped
<1>2. SUFFICES ASSUME cpc' \in Errors PROVE SaidNext(cpc') /\ Waiting' = {}
  BY DEF RaisedTruthful, Truthful, LastIsError
<1>3. cpc \in Errors => Said(cpc) /\ Waiting = {}
  BY DEF RaisedTruthful
<1>4. CASE Receive
  <2>1. buffer # <<>> /\ buffer' = Tail(buffer)
    BY <1>4 DEF Receive
  <2>2. Shorter(buffer', buffer)
    BY <2>1, TailIsShorter DEF StreamTypes
  <2>3. /\ Waiting \subseteq 1..Len(buffer) /\ Len(buffer) \in Nat \ {0}
        /\ \A j : j \in Waiting' <=> (j \in 1..Len(buffer) - 1 /\ j + 1 \in Waiting)
    BY <2>2, WaitingShrinks
  <2>4. Head(buffer) = buffer[1] /\ 1 \in DOMAIN buffer
    BY <2>1, <2>2, TailIsShorter DEF StreamTypes, Shorter
  <2>5. buffer[1].type \in Errors /\ cpc' = buffer[1].type
    BY <1>2, <1>4, <2>4 DEF Receive, Errors
  <2>6. Said(buffer[1].type) /\ \A j \in Waiting : j < 1
    BY <2>4, <2>5 DEF StreamTruthful
  <2>7. Waiting' = {}
    BY <2>3, <2>6
  <2> HIDE DEF Said, SaidNext
  <2>8. QED
    BY <1>1, <2>5, <2>6, <2>7
<1>5. CASE ~Receive
  <2>1. cpc' = cpc
    BY <1>2, <1>5, StreamFrame DEF SendMessage, SendError, ReaderDone, EndOfStream,
       Leave,
        ReaderJoined, MirrorSettles, Errors
  <2>2. Said(cpc) /\ Waiting = {}
    BY <1>2, <1>3, <2>1
  <2>3. Waiting' = {}
    <3>1. CASE UNCHANGED buffer
      BY <2>2, <3>1 DEF Waiting, InStream
    <3>2. ASSUME NEW x \in Items \cup Specials, Longer(buffer', buffer, x), Added(x)
          PROVE  Waiting' = {}
      BY <2>2, <3>2, WaitingGrows, AddedWhenStopped DEF Stopped
    <3>3. QED
      BY <1>5, <3>1, <3>2, StreamEffect
  <2> HIDE DEF Said, SaidNext
  <2>4. QED
    BY <1>1, <2>1, <2>2, <2>3
<1>6. QED
  BY <1>4, <1>5

\* Steps keep CallsTruthful: a call raises what the reader has in its hand.
LEMMA CallsTruthfulKept ==
    ASSUME ReaderTypes, RequestTypes, CallsFresh, EntriesMatchCalls, CallsTruthful, [Next]_vars
    PROVE  CallsTruthful'
<1>1. ASSUME rpc \in Stopped => rpc' \in Stopped /\ current' = current,
             NEW r \in Requesters,
             pendingResults'[r] \in Errors /\ r \in DOMAIN pendingResults' =>
                 r \in DOMAIN pendingResults /\ pendingResults'[r] = pendingResults[r],
             outcome'[r] \in Errors =>
                 \/ outcome'[r] = outcome[r]
                 \/ r \in DOMAIN pendingResults /\ outcome'[r] = pendingResults[r]
      PROVE  /\ r \in DOMAIN pendingResults' /\ pendingResults'[r] \in Errors =>
                    rpc' \in Stopped /\ current'.type = pendingResults'[r]
             /\ outcome'[r] \in Errors => rpc' \in Stopped /\ current'.type = outcome'[r]
  BY <1>1 DEF CallsTruthful
<1>2. rpc \in Stopped => rpc' \in Stopped /\ current' = current
  BY StoppedStays
<1>3. SUFFICES ASSUME NEW q \in Requesters
               PROVE  /\ q \in DOMAIN pendingResults' /\ pendingResults'[q] \in Errors =>
                             rpc' \in Stopped /\ current'.type = pendingResults'[q]
                      /\ outcome'[q] \in Errors => rpc' \in Stopped /\ current'.type = outcome'[q]
  BY DEF CallsTruthful
<1>4. CASE UNCHANGED requests
  BY <1>1, <1>2, <1>4
<1>5. ASSUME NEW r \in Requesters, RequestStep(r)
      PROVE  /\ pendingResults'[q] \in Errors /\ q \in DOMAIN pendingResults' =>
                    q \in DOMAIN pendingResults /\ pendingResults'[q] = pendingResults[q]
             /\ outcome'[q] \in Errors =>
                    \/ outcome'[q] = outcome[q]
                    \/ q \in DOMAIN pendingResults /\ outcome'[q] = pendingResults[q]
  <2>1. CASE SendRequest(r) \/ RequestWritten(r) \/ RequestExpires(r)
    BY <2>1 DEF SendRequest, RequestWritten, RequestExpires
  <2>2. CASE RequestNotWritten(r) \/ RequestCancelled(r)
    BY <2>2 DEF RequestNotWritten, RequestCancelled, Return, RequestTypes, Errors
  <2>3. CASE RequestReturns(r)
    <3>1. r \in DOMAIN pendingResults
      BY <2>3 DEF RequestReturns, EntriesMatchCalls
    <3>2. QED
      BY <2>3, <3>1 DEF RequestReturns, Return, Forget, Without, RequestTypes
  <2>4. CASE RequestTimesOut(r)
    BY <2>4 DEF RequestTimesOut, Return, Forget, Without, RequestTypes, Errors
  <2>5. CASE ReadResponse(r)
    <3>1. UNCHANGED outcome
      BY <2>5 DEF ReadResponse
    <3>2. CASE Expected(r)
      <4>1. PICK x \in {"success", "error"} : pendingResults' = Put(pendingResults, r, x)
        BY <2>5, <3>2 DEF ReadResponse
      <4>2. QED
        BY <3>1, <4>1 DEF Put, Errors
    <3>3. CASE ~Expected(r)
      BY <2>5, <3>1, <3>3 DEF ReadResponse
    <3>4. QED
      BY <3>2, <3>3
  <2>6. QED
    BY <1>5, <2>1, <2>2, <2>3, <2>4, <2>5 DEF RequestStep
<1>6. ASSUME NEW x \in {"exit", "fault"}, ReadFails(x)
      PROVE  /\ q \in DOMAIN pendingResults' /\ pendingResults'[q] \in Errors =>
                    rpc' \in Stopped /\ current'.type = pendingResults'[q]
             /\ outcome'[q] \in Errors => rpc' \in Stopped /\ current'.type = outcome'[q]
  <2>1. rpc \notin Stopped /\ rpc' \in Stopped /\ current'.type = ErrorOf(x) /\ UNCHANGED outcome
    BY <1>6 DEF ReadFails, Special, Stopped, Over
  <2>2. q \in DOMAIN pendingResults' =>
            pendingResults'[q] = IF q \in Unanswered THEN ErrorOf(x) ELSE pendingResults[q]
    BY <1>6 DEF ReadFails, CallError
  <2>3. q \in DOMAIN pendingResults' /\ q \notin Unanswered => q \in DOMAIN pendingResults
    BY <1>6 DEF ReadFails
  <2>4. QED
    BY <2>1, <2>2, <2>3 DEF CallsTruthful
<1>7. QED
  BY <1>1, <1>2, <1>4, <1>5, <1>6, RequestFrame

\* What a step does to the CLI's turns, tasks, prompts and requests.
CliKeeps(fields) == \A f \in fields : cli'[f] = cli[f]
CliEffects ==
    \/ CliKeeps({"turn", "owed", "running", "prompts", "asked"})
    \/ \E q \in Incoming :
           /\ ReadRequest(q) /\ cli'.asked = cli.asked \cup {q}
           /\ CliKeeps({"turn", "owed", "running", "prompts"})
    \/ \E t \in Tasks :
           /\ ReadTaskStarted(t) /\ cli'.running = cli.running \cup {t}
           /\ CliKeeps({"turn", "owed", "prompts", "asked"})
    \/ \E t \in Tasks :
           /\ ReadTaskSettled(t) /\ cli'.running = cli.running \ {t}
           /\ cli'.owed \in OwedAfterSettling
           /\ CliKeeps({"turn", "prompts", "asked"})
    \/ /\ \E x \in Results : ReadResult(x)
       /\ ~cli'.turn /\ CliKeeps({"owed", "running", "prompts", "asked"})
    \/ /\ WritePrompt /\ cli'.prompts = cli.prompts + 1 /\ cli'.owed = cli.owed + 1
       /\ CliKeeps({"turn", "running", "asked"})
    \/ /\ StartTurn /\ cli'.turn /\ cli'.owed = cli.owed - 1
       /\ CliKeeps({"running", "prompts", "asked"})

\* A step changes the CLI in one of these ways, and never brings it back to life.
LEMMA CliEffect ==
    ASSUME CliTypes, [Next]_vars
    PROVE  CliEffects /\ (cli'.alive => cli.alive)
<1> USE DEF CliTypes, CliStates, CliKeeps
<1>1. CASE UNCHANGED cli
  BY <1>1 DEF CliEffects
<1>2. ASSUME NEW r \in Requesters, RequestWritten(r) \/ ReadResponse(r)
      PROVE  CliEffects /\ (cli'.alive => cli.alive)
  BY <1>2 DEF RequestWritten, ReadResponse, CliEffects
<1>3. ASSUME ReadEof \/ CloseTransport \/ CliDies \/ \E x \in {"exit", "fault"} : ReadFails(x)
      PROVE  CliEffects /\ (cli'.alive => cli.alive)
  BY <1>3 DEF ReadEof, CloseTransport, CliDies, ReadFails, Exited, CliEffects
<1>4. ASSUME NEW q \in Incoming, ReadRequest(q)
      PROVE  /\ cli'.asked = cli.asked \cup {q} /\ cli'.alive = cli.alive
             /\ CliKeeps({"turn", "owed", "running", "prompts"})
  BY <1>4 DEF ReadRequest
<1>5. ASSUME NEW t \in Tasks, ReadTaskStarted(t)
      PROVE  /\ cli'.running = cli.running \cup {t} /\ cli'.alive = cli.alive
             /\ CliKeeps({"turn", "owed", "prompts", "asked"})
  BY <1>5 DEF ReadTaskStarted
<1>6. ASSUME NEW t \in Tasks, ReadTaskSettled(t)
      PROVE  /\ cli'.running = cli.running \ {t} /\ cli'.alive = cli.alive
             /\ cli'.owed \in OwedAfterSettling
             /\ CliKeeps({"turn", "prompts", "asked"})
  <2>1. PICK n \in OwedAfterSettling : cli' = [cli EXCEPT !.running = @ \ {t}, !.owed = n]
    BY <1>6 DEF ReadTaskSettled
  <2>2. QED
    BY <2>1
<1>7. ASSUME NEW x \in Results, ReadResult(x)
      PROVE  /\ ~cli'.turn /\ cli'.alive = cli.alive
             /\ CliKeeps({"owed", "running", "prompts", "asked"})
  BY <1>7 DEF ReadResult
<1>8. ASSUME WritePrompt
      PROVE  /\ cli'.prompts = cli.prompts + 1 /\ cli'.owed = cli.owed + 1
             /\ cli'.alive = cli.alive /\ CliKeeps({"turn", "running", "asked"})
  BY <1>8 DEF WritePrompt
<1>9. ASSUME StartTurn
      PROVE  /\ cli'.turn /\ cli'.owed = cli.owed - 1
             /\ cli'.alive = cli.alive /\ CliKeeps({"running", "prompts", "asked"})
  BY <1>9 DEF StartTurn
<1> HIDE DEF CliTypes, CliStates, CliKeeps
<1>10. QED
  BY <1>1, <1>2, <1>3, <1>4, <1>5, <1>6, <1>7, <1>8, <1>9, CliFrame DEF CliEffects

\* Steps keep TasksTracked.
LEMMA TasksTrackedKept ==
    ASSUME CliTypes, TasksTracked, [Next]_vars
    PROVE  TasksTracked'
<1>1. ASSUME NEW t \in Tasks, ReadTaskStarted(t) PROVE TasksTracked'
  BY <1>1 DEF ReadTaskStarted, TasksTracked, CliTypes, CliStates
<1>2. ASSUME NEW t \in Tasks, ReadTaskSettled(t) PROVE TasksTracked'
  <2>1. PICK n \in OwedAfterSettling : cli' = [cli EXCEPT !.running = @ \ {t}, !.owed = n]
    BY <1>2 DEF ReadTaskSettled
  <2>2. inflightTasks' = inflightTasks \ {t}
    BY <1>2 DEF ReadTaskSettled, StillRunning
  <2>3. QED
    BY <2>1, <2>2 DEF TasksTracked, CliTypes, CliStates
<1>3. CASE ~\E t \in Tasks : ReadTaskStarted(t) \/ ReadTaskSettled(t)
  <2>1. inflightTasks' = inflightTasks
    BY <1>3, InputFrame DEF RequestNotWritten, AnswerFails, ErrorAnswerFails,
       HandlerDone, ReadFails,
        ResultFlushed, ReadEof, Unwind, ReaderDone, CancelChildren, PromptsEnd, ResultSeen,
        EndInput, CloseTransport
  <2>2. cli'.running = cli.running
    BY <1>3, CliEffect DEF CliEffects, CliKeeps
  <2>3. QED
    BY <2>1, <2>2 DEF TasksTracked
<1>4. QED
  BY <1>1, <1>2, <1>3

\* Only a request the reader takes opens one.
LEMMA OpenEffect ==
    ASSUME CliTypes, HandlerTypes, AskedKnown, [Next]_vars
    PROVE  AskedKnown' /\ (Open' \subseteq Open \/ \E q \in Incoming : ReadRequest(q))
<1> DEFINE Goal == AskedKnown' /\ (Open' \subseteq Open \/ \E q \in Incoming : ReadRequest(q))
<1>1. cli.asked \subseteq cli'.asked
        /\ (cli'.asked = cli.asked \/ \E q \in Incoming : ReadRequest(q))
  BY CliEffect DEF CliEffects, CliKeeps
<1>2. ASSUME \A q \in Incoming : hpc[q] = "none" => hpc'[q] = "none",
             \A q \in Incoming : hpc'[q] \in Active => hpc[q] \in Active
      PROVE  Goal
  <2>1. AskedKnown'
    BY <1>1, <1>2 DEF AskedKnown
  <2>2. cli.asked \subseteq Incoming
    BY DEF CliTypes, CliStates
  <2>3. QED
    BY <1>1, <1>2, <2>1, <2>2 DEF Open, Active
<1>3. CASE UNCHANGED handlers
  BY <1>2, <1>3
<1>4. ASSUME NEW q \in Incoming, ReadRequest(q) PROVE Goal
  <2>1. cli' = [cli EXCEPT !.asked = @ \cup {q}] /\ hpc' = [hpc EXCEPT ![q] = "callback"]
    BY <1>4 DEF ReadRequest
  <2>2. cli'.asked = cli.asked \cup {q}
    BY <2>1 DEF CliTypes, CliStates
  <2>3. \A p \in Incoming : p # q => hpc'[p] = hpc[p]
    BY <2>1 DEF HandlerTypes
  <2>4. AskedKnown'
    BY <2>2, <2>3 DEF AskedKnown
  <2>5. QED
    BY <1>4, <2>4
<1>5. ASSUME NEW q \in Incoming,
             \/ ReadCancelRequest(q) \/ CallbackReturns(q) \/ AnswerWritten(q) \/ AnswerFails(q)
             \/ ErrorAnswerFails(q) \/ HandlerCancelled(q)
      PROVE  Goal
  <2>1. \A p \in Incoming : hpc[p] = "none" => hpc'[p] = "none"
    BY <1>5 DEF ReadCancelRequest, CallbackReturns, AnswerWritten, AnswerFails,
       ErrorAnswerFails,
        HandlerCancelled, HandlerDone, HandlerTypes
  <2>2. \A p \in Incoming : hpc'[p] \in Active => hpc[p] \in Active
    BY <1>5 DEF ReadCancelRequest, CallbackReturns, AnswerWritten, AnswerFails,
       ErrorAnswerFails,
        HandlerCancelled, HandlerDone, HandlerTypes, Active
  <2>3. QED
    BY <1>2, <2>1, <2>2
<1>6. CASE CancelChildren
  BY <1>2, <1>6 DEF CancelChildren
<1>7. QED
  BY <1>3, <1>4, <1>5, <1>6, HandlerFrame DEF HandlerStep

\* Steps keep NoneOpen: the CLI waits for its answers before it comes to rest.
LEMMA NoneOpenKept ==
    ASSUME CliTypes, HandlerTypes, AskedKnown, NoneOpen, [Next]_vars
    PROVE  NoneOpen'
<1>1. SUFFICES ASSUME ~cli'.turn, cli'.running = {} PROVE Open' = {}
  BY DEF NoneOpen
<1>2. ~\E q \in Incoming : ReadRequest(q)
  BY <1>1 DEF ReadRequest, CliTypes, CliStates
<1>3. Open' \subseteq Open
  BY <1>2, OpenEffect
<1>4. Open = {}
  <2>1. CASE CliKeeps({"turn", "owed", "running", "prompts", "asked"})
    BY <1>1, <2>1 DEF CliKeeps, NoneOpen
  <2>2. ASSUME NEW t \in Tasks, ReadTaskSettled(t), CliKeeps({"turn", "prompts", "asked"})
        PROVE  Open = {}
    BY <1>1, <2>2 DEF CliKeeps, ReadTaskSettled
  <2>3. ASSUME NEW x \in Results, ReadResult(x),
               CliKeeps({"owed", "running", "prompts", "asked"})
        PROVE  Open = {}
    BY <1>1, <2>3 DEF CliKeeps, ReadResult
  <2>4. ASSUME CliKeeps({"turn", "running", "asked"}) PROVE Open = {}
    BY <1>1, <2>4 DEF CliKeeps, NoneOpen
  <2>5. QED
    BY <1>1, <1>2, <2>1, <2>2, <2>3, <2>4, CliEffect DEF CliEffects
<1>5. QED
  BY <1>3, <1>4

\* A closed query stays closed.
LEMMA ClosedStays ==
    ASSUME [Next]_vars
    PROVE  closed => closed'
<1>1. CASE CloseStep
  BY <1>1 DEF CloseStep, Close, CancelChildren, CancelReader, ReaderJoined,
     CloseTransport
<1>2. QED
  BY <1>1, CloserFrame

\* Steps keep StdinReason.
LEMMA StdinReasonKept ==
    ASSUME CliTypes, InputTypes, StdinReason, [Next]_vars
    PROVE  StdinReason'
<1> DEFINE Goal == stdin' # "open" => ipc' = "done" \/ ~cli'.alive \/ closed'
<1>1. (~cli.alive => ~cli'.alive) /\ (closed => closed')
  BY CliEffect, ClosedStays
<1>2. ASSUME stdin' # "open" => stdin # "open" \/ ~cli.alive \/ ~cli'.alive,
             ipc = "done" => ipc' = "done"
      PROVE  Goal
  BY <1>1, <1>2 DEF StdinReason
<1>3. ASSUME UNCHANGED input PROVE Goal
  BY <1>2, <1>3
<1>4. ASSUME NEW r \in Requesters, RequestNotWritten(r) PROVE Goal
  BY <1>2, <1>4 DEF RequestNotWritten, WriteFails
<1>5. ASSUME NEW q \in Incoming, AnswerFails(q) \/ ErrorAnswerFails(q) PROVE Goal
  BY <1>2, <1>5 DEF AnswerFails, ErrorAnswerFails, HandlerDone, WriteFails
<1>6. ASSUME NEW t \in Tasks, ReadTaskStarted(t) \/ ReadTaskSettled(t) PROVE Goal
  BY <1>2, <1>6 DEF ReadTaskStarted, ReadTaskSettled
<1>7. ASSUME NEW x \in {"exit", "fault"}, ReadFails(x) PROVE Goal
  BY <1>2, <1>7 DEF ReadFails, Exited, CliTypes, CliStates
<1>8. ASSUME ReadEof \/ CloseTransport PROVE Goal
  BY <1>2, <1>8 DEF ReadEof, CloseTransport, Exited, Unwind, CliTypes, CliStates
<1>9. ASSUME ResultFlushed \/ ReaderDone \/ CancelChildren \/ PromptsEnd \/ ResultSeen PROVE Goal
  BY <1>2, <1>9 DEF ResultFlushed, ReaderDone, CancelChildren, PromptsEnd, ResultSeen
<1>10. ASSUME EndInput PROVE Goal
  BY <1>10 DEF EndInput
<1>11. QED
  BY <1>3, <1>4, <1>5, <1>6, <1>7, <1>8, <1>9, <1>10, InputFrame DEF StdinReason

\* A CLI at rest is woken by a prompt only.
LEMMA IdleStays ==
    ASSUME CliTypes, [Next]_vars, CliIdle
    PROVE  CliIdle' \/ WritePrompt
<1>1. ASSUME NEW t \in Tasks PROVE ~ReadTaskStarted(t) /\ ~ReadTaskSettled(t)
  BY DEF ReadTaskStarted, ReadTaskSettled, CliIdle
<1>2. ~StartTurn /\ ~\E x \in Results : ReadResult(x)
  BY DEF StartTurn, ReadResult, CliIdle
<1>3. CliKeeps({"turn", "owed", "running"}) \/ WritePrompt
  BY <1>1, <1>2, CliEffect DEF CliEffects, CliKeeps
<1>4. QED
  BY <1>3 DEF CliKeeps, CliIdle

\* Prompts are counted, up to their bound.
LEMMA PromptsEffect ==
    ASSUME CliTypes, cli.prompts <= MaxPrompts, [Next]_vars
    PROVE  /\ MaxPrompts' = MaxPrompts /\ MaxPrompts \in Nat /\ cli'.prompts <= MaxPrompts
           /\ WritePrompt => cli.prompts < MaxPrompts /\ cli'.prompts = cli.prompts + 1
           /\ ~WritePrompt => cli'.prompts = cli.prompts
<1>1. MaxPrompts' = MaxPrompts /\ MaxPrompts \in Nat /\ cli.prompts \in Nat
  BY CliTypesKept, QueryAssumption DEF MaxPrompts, CliTypes, CliStates, Setup
<1>2. ~WritePrompt => cli'.prompts = cli.prompts
  BY CliEffect DEF CliEffects, CliKeeps
<1>3. ASSUME WritePrompt PROVE cli.prompts < MaxPrompts /\ cli'.prompts = cli.prompts + 1
  <2>1. cli.prompts < MaxPrompts /\ cli' = [cli EXCEPT !.prompts = @ + 1, !.owed = @ + 1]
    BY <1>3 DEF WritePrompt
  <2>2. QED
    BY <2>1 DEF CliTypes, CliStates
<1>4. cli'.prompts <= MaxPrompts
  BY <1>1, <1>2, <1>3
<1>5. QED
  BY <1>1, <1>2, <1>3, <1>4

\* Who ends the input, and on what grounds.
LEMMA InputEffect ==
    ASSUME [Next]_vars
    PROVE  /\ firstResultEvent' => \/ firstResultEvent \/ ReaderDone
                                   \/ ResultFlushed /\ RunEnded
           /\ ipc' \in {"ending", "done"} => \/ ipc \in {"ending", "done"}
                                             \/ ResultSeen
                                             \/ PromptsEnd /\ ~Hold
<1> DEFINE Goal == /\ firstResultEvent' => \/ firstResultEvent \/ ReaderDone
                                           \/ ResultFlushed /\ RunEnded
                   /\ ipc' \in {"ending", "done"} => \/ ipc \in {"ending", "done"}
                                                     \/ ResultSeen
                                                     \/ PromptsEnd /\ ~Hold
<1>1. ASSUME UNCHANGED <<ipc, firstResultEvent>> PROVE Goal
  BY <1>1
<1>2. ASSUME NEW r \in Requesters, RequestNotWritten(r) PROVE Goal
  BY <1>1, <1>2 DEF RequestNotWritten
<1>3. ASSUME NEW q \in Incoming, AnswerFails(q) \/ ErrorAnswerFails(q) PROVE Goal
  BY <1>1, <1>3 DEF AnswerFails, ErrorAnswerFails, HandlerDone
<1>4. ASSUME NEW t \in Tasks, ReadTaskStarted(t) \/ ReadTaskSettled(t) PROVE Goal
  BY <1>1, <1>4 DEF ReadTaskStarted, ReadTaskSettled
<1>5. ASSUME NEW x \in {"exit", "fault"}, ReadFails(x) PROVE Goal
  BY <1>1, <1>5 DEF ReadFails
<1>6. ASSUME ReadEof \/ CloseTransport PROVE Goal
  BY <1>1, <1>6 DEF ReadEof, Unwind, CloseTransport
<1>7. ASSUME ResultFlushed PROVE Goal
  <2>1. firstResultEvent' = (firstResultEvent \/ RunEnded) /\ ipc' = ipc
    BY <1>7 DEF ResultFlushed
  <2>2. QED
    BY <1>7, <2>1
<1>8. ASSUME ReaderDone PROVE Goal
  BY <1>8 DEF ReaderDone
<1>9. ASSUME CancelChildren \/ EndInput \/ ResultSeen PROVE Goal
  BY <1>9 DEF CancelChildren, EndInput, ResultSeen
<1>10. ASSUME PromptsEnd PROVE Goal
  BY <1>10 DEF PromptsEnd
<1>11. QED
  BY <1>1, <1>2, <1>3, <1>4, <1>5, <1>6, <1>7, <1>8, <1>9, <1>10, InputFrame

\* Steps keep OneTurn.
LEMMA OneTurnKept ==
    ASSUME ReaderTypes, CliTypes, InputTypes, cli.prompts <= MaxPrompts, TasksTracked, OnePrompt,
           OneTurn, [Next]_vars
    PROVE  OneTurn'
<1>1. /\ cli.prompts \in Nat /\ cli.owed \in Nat /\ cli.turn \in BOOLEAN
      /\ cli.prompts \in {0, 1} /\ MaxPrompts \in {0, 1}
  BY PromptsEffect DEF CliTypes, CliStates, OnePrompt
<1>2. WritePrompt => cli.prompts = 0 /\ CliIdle
  BY <1>1, PromptsEffect DEF OneTurn
<1>3. (WritePrompt => cli'.prompts = cli.prompts + 1)
        /\ (~WritePrompt => cli'.prompts = cli.prompts)
  BY PromptsEffect
<1>4. CliIdle => CliIdle' \/ WritePrompt
  BY IdleStays
<1>5. cli'.prompts = 0 => CliIdle'
  <2>1. SUFFICES ASSUME cli'.prompts = 0 PROVE CliIdle'
    OBVIOUS
  <2>2. ~WritePrompt /\ cli.prompts = 0
    BY <1>1, <1>3, <2>1
  <2>3. QED
    BY <1>4, <2>2 DEF OneTurn
<1>6. cli'.owed <= 1 /\ (cli'.turn => cli'.owed = 0)
  <2>1. cli.owed <= 1 /\ (cli.turn => cli.owed = 0)
    BY DEF OneTurn
  <2>2. CASE CliKeeps({"turn", "owed"})
    BY <2>1, <2>2 DEF CliKeeps
  <2>3. CASE cli'.owed \in OwedAfterSettling /\ CliKeeps({"turn"})
    BY <1>1, <2>1, <2>3 DEF CliKeeps, OwedAfterSettling, OnePrompt
  <2>4. CASE ~cli'.turn /\ CliKeeps({"owed"})
    BY <2>1, <2>4 DEF CliKeeps
  <2>5. CASE WritePrompt /\ cli'.owed = cli.owed + 1 /\ CliKeeps({"turn"})
    BY <1>2, <2>5 DEF CliKeeps, CliIdle
  <2>6. CASE StartTurn /\ cli'.owed = cli.owed - 1
    BY <1>1, <2>1, <2>6 DEF StartTurn
  <2>7. QED
    BY <2>2, <2>3, <2>4, <2>5, <2>6, CliEffect DEF CliEffects, CliKeeps
<1>7. rpc' = "flushing" => ~cli'.turn /\ cli'.owed = 0 /\ cli'.prompts = 1
  <2>1. SUFFICES ASSUME rpc' = "flushing" PROVE ~cli'.turn /\ cli'.owed = 0 /\ cli'.prompts = 1
    OBVIOUS
  <2>2. ASSUME NEW x \in Results, ReadResult(x)
        PROVE  ~cli'.turn /\ cli'.owed = 0 /\ cli'.prompts = 1
    <3>1. cli.turn /\ cli' = [cli EXCEPT !.turn = FALSE]
      BY <2>2 DEF ReadResult
    <3>2. cli.prompts = 1 /\ cli.owed = 0
      BY <1>1, <3>1 DEF OneTurn, CliIdle
    <3>3. QED
      BY <3>1, <3>2 DEF CliTypes, CliStates
  <2>3. CASE ~\E x \in Results : ReadResult(x)
    <3>1. rpc = "flushing"
      BY <2>1, <2>3, ReaderFrame DEF ReadMessage, ReadSessionStateChanged,
         ReadTaskStarted,
          ReadTaskSettled, ResultFlushed, SendMessage, ReadEof, ReadWhenClosed, ReadFails, SendError,
          ReaderCancelled, FinalFlush, ReaderDone, Unwind, Route
    <3>2. ~cli.turn /\ cli.owed = 0 /\ cli.prompts = 1
      BY <3>1 DEF OneTurn
    <3>3. ~WritePrompt /\ ~StartTurn
      BY <1>2, <3>2 DEF StartTurn
    <3>4. CliKeeps({"turn", "owed", "prompts"})
      BY <2>3, <3>1, <3>3, CliEffect DEF CliEffects, CliKeeps, ReadRequest,
         ReadTaskStarted,
          ReadTaskSettled, Reading
    <3>5. QED
      BY <3>2, <3>4 DEF CliKeeps
  <2>4. QED
    BY <2>2, <2>3
<1>8. firstResultEvent' => (CliIdle' /\ cli'.prompts = 1) \/ rpc' \in Over
  <2>1. CASE firstResultEvent
    <3>1. (CliIdle /\ cli.prompts = 1) \/ rpc \in Over
      BY <2>1 DEF OneTurn
    <3>2. QED
      BY <1>2, <1>3, <1>4, <3>1, StoppedStays DEF Stopped
  <2>2. CASE ResultFlushed /\ RunEnded
    <3>1. rpc = "flushing" /\ cli' = cli /\ cli.running = {}
      BY <2>2 DEF ResultFlushed, RunEnded, TasksTracked
    <3>2. QED
      BY <3>1 DEF OneTurn, CliIdle
  <2>3. CASE ReaderDone
    BY <2>3 DEF ReaderDone, Over
  <2>4. QED
    BY <2>1, <2>2, <2>3, InputEffect
<1>9. HasNeeds' /\ ipc' \in {"ending", "done"} => CliIdle' \/ rpc' \in Over
  <2>1. SUFFICES ASSUME HasNeeds', ipc' \in {"ending", "done"} PROVE CliIdle' \/ rpc' \in Over
    OBVIOUS
  <2>2. HasNeeds
    BY <2>1, CliTypesKept DEF HasNeeds
  <2>3. CASE ipc \in {"ending", "done"}
    <3>1. ~WritePrompt
      BY <2>3 DEF WritePrompt
    <3>2. CliIdle \/ rpc \in Over
      BY <2>2, <2>3 DEF OneTurn
    <3>3. QED
      BY <1>4, <3>1, <3>2, StoppedStays DEF Stopped
  <2>4. CASE ResultSeen
    <3>1. CliIdle \/ rpc \in Over
      BY <2>4 DEF ResultSeen, OneTurn
    <3>2. cli' = cli /\ rpc' = rpc
      BY <2>4 DEF ResultSeen
    <3>3. QED
      BY <3>1, <3>2 DEF CliIdle
  <2>5. CASE PromptsEnd /\ ~Hold
    <3>1. cli.prompts = 0 /\ cli' = cli
      BY <1>1, <2>2, <2>5 DEF PromptsEnd, Hold
    <3>2. QED
      BY <3>1 DEF OneTurn, CliIdle
  <2>6. QED
    BY <2>1, <2>3, <2>4, <2>5, InputEffect
<1>10. QED
  BY <1>5, <1>6, <1>7, <1>8, <1>9 DEF OneTurn

\* Steps keep InputInv.
LEMMA InputInvKept ==
    ASSUME Types, InputInv, [Next]_vars
    PROVE  InputInv'
<1>1. TasksTracked' /\ AskedKnown' /\ NoneOpen' /\ StdinReason'
  BY TasksTrackedKept, OpenEffect, NoneOpenKept, StdinReasonKept DEF Types, InputInv
<1>2. cli'.prompts <= MaxPrompts'
  BY PromptsEffect DEF Types, InputInv
<1>3. OnePrompt' => OneTurn'
  <2>1. OnePrompt' <=> OnePrompt
    BY CliTypesKept DEF Types, OnePrompt, LateWakes, MaxPrompts
  <2>2. QED
    BY <2>1, OneTurnKept DEF Types, InputInv
<1>4. QED
  BY <1>1, <1>2, <1>3 DEF InputInv

\* Steps keep RequestsServed: an answer fails only when the CLI is at rest, and
\* then it waits for none.
LEMMA RequestsServedKept ==
    ASSUME Types, InputInv, RequestsServed, [Next]_vars
    PROVE  RequestsServed'
<1> DEFINE Excuse == rpc \in Over \/ closed \/ ~cli.alive
           Failing(q) == hpc[q] \in {"writing_error", "failed"}
<1>1. Excuse => Excuse'
  BY StoppedStays, ClosedStays, CliEffect DEF Types, Stopped
<1>2. SUFFICES ASSUME HasNeeds', OnePrompt', NEW q \in Incoming, Failing(q)' PROVE Excuse'
  BY DEF RequestsServed, OnePrompt, Over
<1>3. HasNeeds /\ OnePrompt
  BY <1>2, CliTypesKept DEF Types, OnePrompt, LateWakes, MaxPrompts, HasNeeds
<1>4. Failing(q) => Excuse
  BY <1>3 DEF RequestsServed, OnePrompt, Over
<1>5. CASE AnswerFails(q)
  <2>1. hpc[q] = "writing" /\ WriteFails
    BY <1>5 DEF AnswerFails
  <2>2. q \in Open
    BY <2>1 DEF InputInv, AskedKnown, Open
  <2>3. ~CliIdle
    BY <2>2 DEF InputInv, NoneOpen, CliIdle
  <2>4. ipc = "done" => rpc \in Over
    BY <1>3, <2>3 DEF InputInv, OneTurn
  <2>5. Excuse
    BY <2>1, <2>4 DEF WriteFails, InputInv, StdinReason
  <2>6. QED
    BY <1>1, <2>5
<1>6. CASE ~AnswerFails(q)
  <2>1. Failing(q)
    <3>1. CASE UNCHANGED handlers
      BY <1>2, <3>1
    <3>2. CASE CancelChildren
      BY <1>2, <3>2 DEF CancelChildren
    <3>3. ASSUME NEW p \in Incoming, HandlerStep(p) PROVE Failing(q)
      BY <1>2, <1>6, <3>3 DEF HandlerStep, ReadRequest, ReadCancelRequest,
         CallbackReturns,
          AnswerWritten, AnswerFails, ErrorAnswerFails, HandlerCancelled, HandlerDone, Types,
          HandlerTypes
    <3>4. QED
      BY <3>1, <3>2, <3>3, HandlerFrame
  <2>2. QED
    BY <1>1, <1>4, <2>1
<1>7. QED
  BY <1>5, <1>6

-----------------------------------------------------------------------------
\* The initial states have the types of the module.
LEMMA InitTypes == Init => Types
<1> SUFFICES ASSUME Init PROVE Types
  OBVIOUS
<1>1. PICK setup \in Setups : cli = CliInit(setup)
  BY DEF Init
<1>2. CliTypes
  BY <1>1 DEF CliTypes, CliStates, CliInit
<1>3. CountTypes /\ BufferSize \in Nat
  BY <1>2, QueryAssumption DEF Init, CountTypes, MaxFrames, BufferSize, CliTypes,
     CliStates, Setup
<1>4. ReaderTypes /\ CloserTypes /\ InputTypes
  BY DEF Init, ReaderTypes, CloserTypes, InputTypes, Special, Specials
<1>5. RequestTypes /\ HandlerTypes
  BY DEF Init, RequestTypes, HandlerTypes, NoEntries
<1>6. MirrorTypes
  BY EmptySeq DEF Init, Mirror!Init, MirrorTypes
<1>7. StreamTypes
  BY <1>3, EmptySeq DEF Init, StreamTypes
<1>8. QED
  BY <1>2, <1>3, <1>4, <1>5, <1>6, <1>7 DEF Types

\* The initial states satisfy the invariant.
LEMMA InitInv == Init => IInv
<1> SUFFICES ASSUME Init PROVE IInv
  OBVIOUS
<1>1. TypeOK
  BY InitTypes, TypeParts
<1>2. PICK setup \in Setups : cli = CliInit(setup)
  BY DEF Init
<1>3. buffer = <<>> /\ delivered = <<>> /\ Len(buffer) = 0 /\ Len(delivered) = 0
        /\ DOMAIN buffer = {} /\ DOMAIN delivered = {} /\ Waiting = {}
  <2>1. buffer = <<>> /\ delivered = <<>>
    BY DEF Init
  <2>2. Len(<<>>) = 0 /\ DOMAIN <<>> = {}
    OBVIOUS
  <2>3. QED
    BY <2>1, <2>2 DEF Waiting
<1>4. path = <<>> /\ Len(path) = 0 /\ outstanding = {}
  BY DEF Init, Mirror!Init
<1>5. TablesInv
  BY DEF Init, TablesInv, CallsFresh, TablesMatch, EntriesMatchCalls,
     InflightTracked, NoEntries,
      Outcomes, Errors, Active
<1>6. MirrorInv
  BY <1>3, <1>4 DEF Init, MirrorInv, CloseInv, Barrier, CloseKeepsFrames, Special
<1>7. HandInv
  BY DEF Init, HandInv, Special, Errors, Stopped, Over
<1>8. StreamConserved
  BY <1>3 DEF Init, StreamConserved, MayBeLost
<1>9. ErrorInv
  <2>1. Routed = {}
    BY <1>3 DEF Init, Routed, Streamed, InHand
  <2>2. ~LastIsError({})
    BY DEF LastIsError
  <2>3. LastErrorExact
    BY <2>1, <2>2 DEF Init, LastErrorExact
  <2>4. HandTruthful /\ StreamTruthful /\ RaisedTruthful
    BY <1>3 DEF Init, HandTruthful, StreamTruthful, RaisedTruthful, Stopped, Over,
       Errors
  <2>5. CallsTruthful
    BY DEF Init, CallsTruthful, NoEntries, Errors
  <2>6. QED
    BY <2>3, <2>4, <2>5 DEF ErrorInv
<1>10. InputInv
  <2>1. cli.prompts = 0 /\ cli.owed = 0 /\ ~cli.turn /\ cli.running = {} /\ cli.asked = {}
          /\ CliIdle
    BY <1>2 DEF CliInit, CliIdle
  <2>2. MaxPrompts \in Nat
    BY <1>2, QueryAssumption DEF MaxPrompts, CliInit, Setup
  <2>3. OneTurn
    BY <2>1 DEF Init, OneTurn
  <2>4. QED
    BY <2>1, <2>2, <2>3 DEF Init, InputInv, TasksTracked, AskedKnown, NoneOpen,
       StdinReason, Open
<1>11. RequestsServed
  BY DEF Init, RequestsServed
<1>12. QED
  BY <1>1, <1>5, <1>6, <1>7, <1>8, <1>9, <1>10, <1>11 DEF IInv

\* Every step keeps the invariant.
LEMMA StepInv == IInv /\ [Next]_vars => IInv'
<1> SUFFICES ASSUME IInv, [Next]_vars PROVE IInv'
  OBVIOUS
<1>1. /\ Types /\ TablesInv /\ CloseInv /\ Barrier /\ CloseKeepsFrames /\ HandInv
      /\ StreamConserved /\ ErrorInv /\ InputInv /\ RequestsServed
  BY TypeParts DEF IInv, MirrorInv
<1>2. CallsFresh /\ EntriesMatchCalls /\ InflightTracked
  BY <1>1 DEF TablesInv, TablesMatch
<1>3. Types' /\ TypeOK'
  BY <1>1, <1>2, TypesKept, TypeParts
<1>4. TablesInv'
  BY <1>1, <1>2, EntriesKept, InflightKept DEF TablesInv, TablesMatch, Types
<1>5. MirrorInv'
  BY <1>1, CloseInvKept, BarrierKept, CloseKeepsFramesKept DEF MirrorInv, Types
<1>6. HandInv' /\ StreamConserved'
  BY <1>1, HandInvKept, StreamConservedKept DEF Types
<1>7. ErrorInv'
  BY <1>1, <1>2, LastErrorExactKept, HandTruthfulKept, StreamTruthfulKept,
     RaisedTruthfulKept,
     CallsTruthfulKept DEF ErrorInv, Types
<1>8. InputInv' /\ RequestsServed'
  BY <1>1, InputInvKept, RequestsServedKept
<1>9. QED
  BY <1>3, <1>4, <1>5, <1>6, <1>7, <1>8 DEF IInv

\* The invariant holds in every reachable state of every instance.
THEOREM Invariance == Spec => []IInv
BY InitInv, StepInv, PTL DEF Spec

\* Every variable keeps its type; for a call that returns this rests on the
\* tables, which say that its result is there (_send_control_request()).
THEOREM TypeCorrect == Spec => []TypeOK
<1>1. IInv => TypeOK
  BY DEF IInv
<1>2. QED
  BY <1>1, Invariance, PTL

\* The tables of both directions of the control protocol agree with the calls
\* and the handlers, for any number of them.
THEOREM TablesCorrect == Spec => []TablesMatch
<1>1. IInv => TablesMatch
  BY DEF IInv, TablesInv
<1>2. QED
  BY <1>1, Invariance, PTL

\* What the reader routed is delivered once, in order and without a gap, also
\* when close() runs, for any buffer size and any number of messages.
THEOREM StreamCorrect == Spec => []StreamConserved
<1>1. IInv => StreamConserved
  BY DEF IInv
<1>2. QED
  BY <1>1, Invariance, PTL

\* A consumer that has a result finds every earlier frame of the transcript
\* settled, and close() loses none, whatever the mirror does within its contract.
THEOREM MirrorCorrect == Spec => []MirrorAhead
<1>1. IInv => MirrorAhead
  BY DEF IInv, MirrorInv, Barrier, MirrorAhead, ResultBarrier, SettledBefore
<1>2. QED
  BY <1>1, Invariance, PTL

\* With one prompt stdin outlives the CLI's need of it, for any number of tasks
\* and of requests of the CLI.
THEOREM InputCorrect == Spec => []InputKept
<1>1. IInv => InputKept
  BY DEF IInv, InputInv, OnePrompt, OneTurn, InputKept, InputHeld, Over
<1>2. QED
  BY <1>1, Invariance, PTL

\* A failure of the reader reaches every call under way at once.
LEMMA FailsFast ==
    ASSUME IInv, [Next]_vars, rpc = "reading", rpc' = "sending_error"
    PROVE  \A r \in Requesters : qpc[r] \in {"writing", "waiting"} =>
               pendingResponses'[r] /\ r \in DOMAIN pendingResults'
<1>1. PICK x \in {"exit", "fault"} : ReadFails(x)
  BY ReaderFrame DEF ReadMessage, ReadSessionStateChanged, ReadTaskStarted,
     ReadTaskSettled,
      ReadResult, ResultFlushed, SendMessage, ReadEof, ReadWhenClosed, SendError, ReaderCancelled,
      FinalFlush, ReaderDone, Unwind, Route
<1>2. SUFFICES ASSUME NEW r \in Requesters, qpc[r] \in {"writing", "waiting"}
               PROVE  pendingResponses'[r] /\ r \in DOMAIN pendingResults'
  OBVIOUS
<1>3. r \in DOMAIN pendingResponses /\ (pendingResponses[r] <=> r \in DOMAIN pendingResults)
  BY <1>2 DEF IInv, TablesInv, TablesMatch, EntriesMatchCalls
<1>4. /\ pendingResponses'[r] = (r \in Unanswered \/ pendingResponses[r])
      /\ DOMAIN pendingResults' = DOMAIN pendingResults \cup Unanswered
  BY <1>1, <1>3 DEF ReadFails
<1>5. QED
  BY <1>3, <1>4 DEF Unanswered

\* The callers and the consumer raise the same error, which says what came last.
LEMMA ErrorsTrue == IInv => SameError /\ ErrorFaithful
<1> SUFFICES ASSUME IInv PROVE SameError /\ ErrorFaithful
  OBVIOUS
<1>1. CallsTruthful /\ RaisedTruthful
  BY DEF IInv, ErrorInv
<1>2. SameError
  BY <1>1 DEF SameError, CallsTruthful, RaisedTruthful, Stopped, Over
<1>3. ASSUME cpc \in Errors PROVE LastIsErrorResult <=> LastIsError(Routed)
  <2>1. rpc \in Over /\ Waiting = {}
    BY <1>1, <1>3 DEF RaisedTruthful
  <2>2. Routed = {delivered[i] : i \in DOMAIN delivered}
    BY <2>1 DEF Routed, Streamed, InHand, Over
  <2>3. \A i \in DOMAIN delivered : delivered[i].n = i
    BY DEF IInv, StreamConserved
  <2>4. QED
    BY <2>2, <2>3 DEF LastIsErrorResult, LastIsError
<1>4. ErrorFaithful
  BY <1>1, <1>3 DEF ErrorFaithful, RaisedTruthful, Truthful, Errors
<1>5. QED
  BY <1>2, <1>4

\* One failure, one error, for any number of calls: it reaches every call under
\* way, callers and consumer raise the same, and it is a ResultError exactly
\* when an error result came last (_read_messages(), receive_messages()).
THEOREM ErrorsCorrect == Spec => ErrorsFaithful
<1>1. IInv /\ [Next]_vars =>
          [rpc = "reading" /\ rpc' = "sending_error" =>
              \A r \in Requesters : qpc[r] \in {"writing", "waiting"} =>
                  pendingResponses'[r] /\ r \in DOMAIN pendingResults']_vars
  BY FailsFast
<1>2. Spec => [](SameError /\ ErrorFaithful)
  BY ErrorsTrue, Invariance, PTL
<1>3. Spec => FailFast
  BY <1>1, Invariance, PTL DEF Spec, FailFast
<1>4. QED
  BY <1>2, <1>3 DEF ErrorsFaithful
=============================================================================
