----------------------------- MODULE McpBridge -----------------------------
(***************************************************************************)
(* McpBridge: the bridge between the CLI's mcp_message requests and one    *)
(* in-process MCP server.  A handler per message routes it to the current  *)
(* session, one Server.run over a pair of in-memory streams.  Responses    *)
(* are matched to waiting handlers by JSON-RPC id.  Sessions end under     *)
(* the CLI, are replaced on a new handshake, and are closed with a         *)
(* deadline, also when a tool does not react to being cancelled.           *)
(*                                                                         *)
(* The MCP server, a library object, is external: it reads, answers, asks  *)
(* and ends when it likes.  The streams hold one message each.             *)
(***************************************************************************)
EXTENDS Naturals, Sequences

CONSTANTS
    Handlers,     \* one task per message of the CLI
    Ids,          \* JSON-RPC ids
    MaxSessions,  \* bound on the number of sessions
    Servers,      \* can_cancel_requests(server) of the servers to consider
    Asks          \* the server sends requests to its client

None == "none"

ASSUME BridgeAssumption ==
    /\ MaxSessions \in Nat \ {0}
    /\ Servers \subseteq BOOLEAN /\ Asks \in BOOLEAN
    /\ Handlers \cap {None, "failed"} = {}

Sessions == 1..MaxSessions

VARIABLES
    \* the bridge
    closed,    \* _closed
    bridge,    \* _session: a session, or 0
    bpc,       \* aclose()
    canCancel, \* can_cancel_requests(server), the same throughout
    count,     \* sessions started so far
    \* handle(), one per message
    pc, kind, id,
    target,    \* the session it has chosen
    outcome,   \* its slot: None, "failed", or whose response it got
    \* sessions
    task,      \* _run()
    toServer,  \* _to_server: "unset", "open" or "closed"
    table,     \* _pending: the handler whose slot holds an id
    closing,   \* aclose() of the session
    asked,     \* requests that aclose() has yet to cancel
    \* the streams and the server
    inbox, wire, serving, held,
    caller     \* a request of the server to the client

bridgeVars == <<closed, bridge, bpc, canCancel>>
handlers == <<pc, kind, id, target, outcome>>
sessions == <<count, task, toServer, table, closing, asked>>
server == <<inbox, wire, serving, held, caller>>
vars == <<bridgeVars, handlers, sessions, server>>

NoSlots == [i \in Ids |-> None]

Init ==
    /\ closed = FALSE /\ bridge = 0 /\ bpc = "idle" /\ count = 0
    /\ canCancel \in Servers
    /\ pc = [h \in Handlers |-> "idle"]
    /\ kind = [h \in Handlers |-> None] /\ id = [h \in Handlers |-> None]
    /\ target = [h \in Handlers |-> 0]
    /\ outcome = [h \in Handlers |-> None]
    /\ task = [s \in Sessions |-> "none"]
    /\ toServer = [s \in Sessions |-> "unset"]
    /\ table = [s \in Sessions |-> NoSlots]
    /\ closing = [s \in Sessions |-> "no"]
    /\ asked = [s \in Sessions |-> {}]
    /\ inbox = [s \in Sessions |-> <<>>] /\ wire = [s \in Sessions |-> <<>>]
    /\ serving = [s \in Sessions |-> "no"]
    /\ held = [s \in Sessions |-> {}]
    /\ caller = [s \in Sessions |-> "none"]

Ready(s) == task[s] # "new"
OutputEnded(s) == task[s] \in {"grace", "unwinding"}
Finished(s) == OutputEnded(s) \/ task[s] = "done"
Room(stream) == stream = <<>>

\* Mutant of FailPending: the slots of the session are left to their waiters.
LeavePending(s) == UNCHANGED <<table, outcome>>
FailPending(s) ==
    /\ outcome' = [h \in Handlers |-> IF \E i \in Ids : table[s][i] = h
                                      THEN "failed" ELSE outcome[h]]
    /\ table' = [table EXCEPT ![s] = NoSlots]

-----------------------------------------------------------------------------
\* handle()

Message(h, k, i) ==
    /\ pc[h] = "idle"
    /\ kind' = [kind EXCEPT ![h] = k]
    /\ id' = [id EXCEPT ![h] = i]

Messages == ({"initialize", "request"} \X Ids) \cup {<<"note", None>>}

Goes(h, x) == pc' = [pc EXCEPT ![h] = x]

HandleRefused(h, k, i) ==
    /\ Message(h, k, i)
    /\ closed \/ (bridge # 0 /\ Finished(bridge) /\ k # "initialize")
    /\ Goes(h, "refused")
    /\ UNCHANGED <<bridgeVars, target, outcome, sessions, server>>

StartSession(h) ==
    /\ count < MaxSessions
    /\ count' = count + 1
    /\ bridge' = count + 1
    /\ target' = [target EXCEPT ![h] = count + 1]
    /\ task' = [task EXCEPT ![count + 1] = "new"]
    /\ UNCHANGED <<closed, bpc, canCancel, outcome, toServer, table, asked, server>>

HandleFirst(h, k, i) ==
    /\ Message(h, k, i)
    /\ ~closed /\ bridge = 0
    /\ StartSession(h)
    /\ Goes(h, "submitting")
    /\ UNCHANGED closing

\* Mutant of Restarts: every handshake starts the server again.
RestartsOnHandshake(k) == k = "initialize"
Restarts(k) == Finished(bridge) /\ k = "initialize"

HandleRestart(h, k, i) ==
    /\ Message(h, k, i)
    /\ ~closed /\ bridge # 0 /\ Restarts(k)
    /\ StartSession(h)
    /\ closing' = [closing EXCEPT ![bridge] = "asked"]
    /\ Goes(h, "stopping")

\* The session that a restart has replaced.
Stopped(h) == target[h] - 1

StoppedClosed(h) ==
    /\ pc[h] = "stopping" /\ closing[Stopped(h)] = "closed"
    /\ Goes(h, "submitting")
    /\ UNCHANGED <<bridgeVars, kind, id, target, outcome, sessions, server>>

HandleCurrent(h, k, i) ==
    /\ Message(h, k, i)
    /\ ~closed /\ bridge # 0 /\ ~Finished(bridge)
    /\ target' = [target EXCEPT ![h] = bridge]
    /\ Goes(h, "submitting")
    /\ UNCHANGED <<bridgeVars, outcome, sessions, server>>

-----------------------------------------------------------------------------
\* submit() and the wait for the response

IsRequest(h) == kind[h] # "note"
Registered(s, i) == table[s][i] # None
InputOpen(s) == serving[s] = "reading"

SubmitRefused(h) ==
    /\ pc[h] = "submitting" /\ Ready(target[h])
    /\ \/ toServer[target[h]] # "open"
       \/ (IsRequest(h) /\ Registered(target[h], id[h]))
    /\ Goes(h, "refused")
    /\ UNCHANGED <<bridgeVars, kind, id, target, outcome, sessions, server>>

\* A cancellation that this server cannot take.
SubmitDropped(h) ==
    /\ pc[h] = "submitting" /\ Ready(target[h])
    /\ toServer[target[h]] # "unset"
    /\ ~IsRequest(h) /\ ~canCancel
    /\ Goes(h, "replied")
    /\ UNCHANGED <<bridgeVars, kind, id, target, outcome, sessions, server>>

Submit(h) ==
    /\ pc[h] = "submitting" /\ Ready(target[h])
    /\ toServer[target[h]] = "open"
    /\ IsRequest(h) => ~Registered(target[h], id[h])
    /\ table' = IF IsRequest(h)
                THEN [table EXCEPT ![target[h]][id[h]] = h] ELSE table
    /\ Goes(h, "sending")
    /\ UNCHANGED <<bridgeVars, kind, id, target, outcome, count, task, toServer,
                   closing, asked, server>>

\* A sender that waits for room is served also after the stream was closed.
Sent(h) ==
    LET s == target[h] IN
    /\ pc[h] = "sending" /\ InputOpen(s) /\ Room(inbox[s])
    /\ inbox' = [inbox EXCEPT ![s] = Append(@, [type |-> "message", of |-> h])]
    /\ Goes(h, IF IsRequest(h) THEN "waiting" ELSE "replied")
    /\ UNCHANGED <<bridgeVars, kind, id, target, outcome, sessions, wire, serving,
                   held, caller>>

SendBroken(h) ==
    LET s == target[h] IN
    /\ pc[h] = "sending" /\ ~InputOpen(s)
    /\ table' = [table EXCEPT ![s] = [i \in Ids |-> IF @[i] = h THEN None ELSE @[i]]]
    /\ outcome' = [outcome EXCEPT ![h] = IF @ = None THEN "failed" ELSE @]
    /\ Goes(h, "refused")
    /\ UNCHANGED <<bridgeVars, kind, id, target, count, task, toServer, closing,
                   asked, server>>

Return(h) ==
    /\ pc[h] = "waiting" /\ outcome[h] # None
    /\ Goes(h, IF outcome[h] = "failed" THEN "refused" ELSE "replied")
    /\ UNCHANGED <<bridgeVars, kind, id, target, outcome, sessions, server>>

\* Mutant of Kept: a waiter that is cancelled takes its slot with it.
Freed(h) ==
    table' = [s \in Sessions |->
                 [i \in Ids |-> IF table[s][i] = h THEN None ELSE table[s][i]]]
Kept(h) == UNCHANGED table

\* The CLI cancels the request, or the Query is closed.
Cancelled(h) ==
    /\ pc[h] \in {"stopping", "submitting", "sending", "waiting"}
    /\ closing' = IF pc[h] = "stopping" /\ closing[Stopped(h)] # "closed"
                  THEN [closing EXCEPT ![Stopped(h)] = "abandoned"]
                  ELSE closing
    /\ Kept(h)
    /\ Goes(h, "cancelled")
    /\ UNCHANGED <<bridgeVars, kind, id, target, outcome, count, task, toServer,
                   asked, server>>

-----------------------------------------------------------------------------
\* _run()

SessionStarts(s) ==
    /\ task[s] = "new"
    /\ task' = [task EXCEPT ![s] = "running"]
    /\ toServer' = [toServer EXCEPT ![s] = "open"]
    /\ serving' = [serving EXCEPT ![s] = "reading"]
    /\ UNCHANGED <<bridgeVars, handlers, count, table, closing, asked, inbox, wire,
                   held, caller>>

\* The task is cancelled before its first step.
SessionNeverRuns(s) ==
    /\ task[s] = "new"
    /\ task' = [task EXCEPT ![s] = "done"]
    /\ UNCHANGED <<bridgeVars, handlers, count, toServer, table, closing, asked,
                   server>>

\* The response to request h reaches the slot that holds its id, if any.
Respond(s, h) ==
    LET slot == table[s][id[h]] IN
    /\ outcome' = IF slot = None THEN outcome ELSE [outcome EXCEPT ![slot] = h]
    /\ table' = [table EXCEPT ![s][id[h]] = None]

DeliverResponse(s) ==
    /\ task[s] = "running" /\ wire[s] # <<>> /\ Head(wire[s]).type = "response"
    /\ Respond(s, Head(wire[s]).of)
    /\ wire' = [wire EXCEPT ![s] = Tail(@)]
    /\ UNCHANGED <<bridgeVars, pc, kind, id, target, count, task, toServer,
                   closing, asked, inbox, serving, held, caller>>

\* Mutant of Noted: requests of the server are dropped, as notifications are.
Dropped == "asking"
Noted == "answering"

DeliverRequest(s) ==
    /\ task[s] = "running" /\ wire[s] # <<>> /\ Head(wire[s]).type = "request"
    /\ caller' = [caller EXCEPT ![s] = Noted]
    /\ wire' = [wire EXCEPT ![s] = Tail(@)]
    /\ UNCHANGED <<bridgeVars, handlers, sessions, inbox, serving, held>>

\* A task of its own refuses it, so that the reader never waits on the server.
AnswerServer(s) ==
    /\ caller[s] = "answering" /\ task[s] \in {"running", "grace"}
    /\ \/ /\ toServer[s] = "open" /\ InputOpen(s) /\ Room(inbox[s])
          /\ inbox' = [inbox EXCEPT ![s] = Append(@, [type |-> "refusal"])]
          /\ caller' = [caller EXCEPT ![s] = "answered"]
       \/ /\ toServer[s] = "closed" \/ ~InputOpen(s)
          /\ caller' = [caller EXCEPT ![s] = "over"]
          /\ UNCHANGED inbox
    /\ UNCHANGED <<bridgeVars, handlers, sessions, wire, serving, held>>

ReaderEnds(s) ==
    /\ task[s] = "running" /\ ~InputOpen(s) /\ wire[s] = <<>>
    /\ FailPending(s)
    /\ task' = [task EXCEPT ![s] = "grace"]
    /\ UNCHANGED <<bridgeVars, pc, kind, id, target, count, toServer, closing,
                   asked, server>>

\* run() has returned, or has not within the grace period: cancel it.
GraceEnds(s) ==
    /\ task[s] = "grace"
    /\ task' = [task EXCEPT ![s] = "unwinding"]
    /\ UNCHANGED <<bridgeVars, handlers, count, toServer, table, closing, asked,
                   server>>

SessionEnds(s) ==
    /\ task[s] \in {"unwinding", "aborting"} /\ serving[s] \in {"returned", "raised"}
    /\ FailPending(s)
    /\ task' = [task EXCEPT ![s] = "done"]
    /\ toServer' = [toServer EXCEPT ![s] = "closed"]
    /\ wire' = [wire EXCEPT ![s] = <<>>]
    /\ UNCHANGED <<bridgeVars, pc, kind, id, target, count, closing, asked, inbox,
                   serving, held, caller>>

-----------------------------------------------------------------------------
\* aclose() of a session

Cancellable == {h \in Handlers : kind[h] = "request"}

CloseBegins(s) ==
    /\ closing[s] = "asked" /\ Ready(s)
    /\ closing' = [closing EXCEPT ![s] = "stopping"]
    /\ asked' = [asked EXCEPT ![s] =
                    IF canCancel
                    THEN {h \in Cancellable : \E i \in Ids : table[s][i] = h}
                    ELSE {}]
    /\ UNCHANGED <<bridgeVars, handlers, count, task, toServer, table, server>>

CloseCancels(s) ==
    /\ closing[s] = "stopping" /\ toServer[s] = "open"
    /\ InputOpen(s) /\ Room(inbox[s])
    /\ \E h \in asked[s] :
           /\ inbox' = [inbox EXCEPT ![s] = Append(@, [type |-> "cancel", of |-> h])]
           /\ asked' = [asked EXCEPT ![s] = @ \ {h}]
    /\ UNCHANGED <<bridgeVars, handlers, count, task, toServer, table, closing,
                   wire, serving, held, caller>>

\* All cancellations are sent, or cannot be, or the deadline has passed.
CloseStops(s) ==
    /\ closing[s] = "stopping"
    /\ toServer' = [toServer EXCEPT ![s] = IF @ = "open" THEN "closed" ELSE @]
    /\ closing' = [closing EXCEPT ![s] = "joining"]
    /\ asked' = [asked EXCEPT ![s] = {}]
    /\ UNCHANGED <<bridgeVars, handlers, count, task, table, server>>

CloseJoined(s) ==
    /\ closing[s] = "joining" /\ task[s] = "done"
    /\ closing' = [closing EXCEPT ![s] = "closed"]
    /\ UNCHANGED <<bridgeVars, handlers, count, task, toServer, table, asked, server>>

\* Mutant of GivesUp: the task is waited for without a deadline.
NeverGivesUp(s) == FALSE
GivesUp(s) == task[s] # "done"

CloseGivesUp(s) ==
    /\ closing[s] = "joining" /\ GivesUp(s)
    /\ task' = [task EXCEPT ![s] = IF @ = "running" THEN "aborting"
                                   ELSE IF @ = "grace" THEN "unwinding" ELSE @]
    /\ FailPending(s)
    /\ closing' = [closing EXCEPT ![s] = "closed"]
    /\ UNCHANGED <<bridgeVars, pc, kind, id, target, count, toServer, asked, server>>

-----------------------------------------------------------------------------
\* aclose() of the bridge

\* Mutant of Shut: later messages find no session and start one.
StillOpen == closed
Shut == TRUE

BridgeClose ==
    /\ bpc = "idle"
    /\ closed' = Shut
    /\ bridge' = 0
    /\ bpc' = IF bridge = 0 THEN "done" ELSE "closing"
    /\ closing' = [s \in Sessions |-> IF s = bridge THEN "asked" ELSE closing[s]]
    /\ UNCHANGED <<canCancel, handlers, count, task, toServer, table, asked, server>>

BridgeClosed ==
    /\ bpc = "closing" /\ closing[count] = "closed"
    /\ bpc' = "done"
    /\ UNCHANGED <<closed, bridge, canCancel, handlers, sessions, server>>

-----------------------------------------------------------------------------
\* The MCP server

ServerReads(s) ==
    /\ InputOpen(s) /\ inbox[s] # <<>>
    /\ LET m == Head(inbox[s]) IN
       /\ held' = IF m.type = "message" /\ IsRequest(m.of)
                  THEN [held EXCEPT ![s] = @ \cup {m.of}] ELSE held
       /\ caller' = IF m.type = "refusal"
                    THEN [caller EXCEPT ![s] = "served"] ELSE caller
    /\ inbox' = [inbox EXCEPT ![s] = Tail(@)]
    /\ UNCHANGED <<bridgeVars, handlers, sessions, wire, serving>>

ServerAnswers(s) ==
    /\ InputOpen(s) /\ Room(wire[s])
    /\ \E h \in held[s] :
           /\ wire' = [wire EXCEPT ![s] = Append(@, [type |-> "response", of |-> h])]
           /\ held' = [held EXCEPT ![s] = @ \ {h}]
    /\ UNCHANGED <<bridgeVars, handlers, sessions, inbox, serving, caller>>

\* A request that was cancelled ends without a response on the stream.
ServerSettles(s) ==
    /\ InputOpen(s)
    /\ \E h \in held[s] :
           /\ Respond(s, h)
           /\ held' = [held EXCEPT ![s] = @ \ {h}]
    /\ UNCHANGED <<bridgeVars, pc, kind, id, target, count, task, toServer, closing,
                   asked, inbox, wire, serving, caller>>

ServerAsks(s) ==
    /\ Asks /\ InputOpen(s) /\ Room(wire[s]) /\ held[s] # {} /\ caller[s] = "none"
    /\ wire' = [wire EXCEPT ![s] = Append(@, [type |-> "request"])]
    /\ caller' = [caller EXCEPT ![s] = "asking"]
    /\ UNCHANGED <<bridgeVars, handlers, sessions, inbox, serving, held>>

\* It closes both its streams; run() returns or raises later, if ever.
ServerShuts(s) ==
    /\ InputOpen(s)
    /\ serving' = [serving EXCEPT ![s] = "shut"]
    /\ held' = [held EXCEPT ![s] = {}]
    /\ caller' = [caller EXCEPT ![s] = IF @ = "none" THEN @ ELSE "over"]
    /\ inbox' = [inbox EXCEPT ![s] = <<>>]
    /\ UNCHANGED <<bridgeVars, handlers, sessions, wire>>

ServerReturns(s) ==
    /\ serving[s] = "shut"
    /\ serving' = [serving EXCEPT ![s] = "returned"]
    /\ UNCHANGED <<bridgeVars, handlers, sessions, inbox, wire, held, caller>>

\* The exception cancels the reader, wherever it is.
ServerRaises(s) ==
    /\ serving[s] = "shut"
    /\ serving' = [serving EXCEPT ![s] = "raised"]
    /\ task' = [task EXCEPT ![s] = IF @ = "running" THEN "aborting"
                                   ELSE IF @ = "grace" THEN "unwinding" ELSE @]
    /\ UNCHANGED <<bridgeVars, handlers, count, toServer, table, closing, asked,
                   inbox, wire, held, caller>>

-----------------------------------------------------------------------------
HandlerStep(h) ==
    \/ \E m \in Messages :
           \/ HandleRefused(h, m[1], m[2]) \/ HandleFirst(h, m[1], m[2])
           \/ HandleRestart(h, m[1], m[2]) \/ HandleCurrent(h, m[1], m[2])
    \/ StoppedClosed(h)
    \/ SubmitRefused(h) \/ SubmitDropped(h) \/ Submit(h)
    \/ Sent(h) \/ SendBroken(h) \/ Return(h) \/ Cancelled(h)

SessionStep(s) ==
    \/ SessionStarts(s) \/ SessionNeverRuns(s)
    \/ DeliverResponse(s) \/ DeliverRequest(s) \/ AnswerServer(s)
    \/ ReaderEnds(s) \/ GraceEnds(s) \/ SessionEnds(s)
    \/ CloseBegins(s) \/ CloseCancels(s) \/ CloseStops(s)
    \/ CloseJoined(s) \/ CloseGivesUp(s)

ServerStep(s) ==
    \/ ServerReads(s) \/ ServerAnswers(s) \/ ServerSettles(s) \/ ServerAsks(s)
    \/ ServerShuts(s) \/ ServerReturns(s) \/ ServerRaises(s)

Next ==
    \/ \E h \in Handlers : HandlerStep(h)
    \/ \E s \in Sessions : SessionStep(s) \/ ServerStep(s)
    \/ BridgeClose \/ BridgeClosed

Spec == Init /\ [][Next]_vars

(***************************************************************************)
(* Fairness: the tasks of the SDK run and deadlines pass.  The server need *)
(* not do anything, except that one whose tool asks the client reads on.   *)
(***************************************************************************)
Fairness ==
    /\ \A h \in Handlers :
           /\ WF_vars(StoppedClosed(h) \/ Return(h))
           /\ WF_vars(SubmitRefused(h) \/ SubmitDropped(h) \/ Submit(h))
           /\ WF_vars(SendBroken(h))
    /\ \A s \in Sessions :
           /\ WF_vars(SessionStarts(s) \/ SessionNeverRuns(s))
           /\ WF_vars(DeliverResponse(s) \/ DeliverRequest(s) \/ ReaderEnds(s))
           /\ WF_vars(AnswerServer(s))
           /\ WF_vars(GraceEnds(s) \/ SessionEnds(s))
           /\ WF_vars(CloseBegins(s) \/ CloseStops(s) \/ CloseJoined(s)
                          \/ CloseGivesUp(s))
           /\ WF_vars(caller[s] # "none" /\ ServerReads(s))
    /\ WF_vars(BridgeClosed)

FairSpec == Spec /\ Fairness

-----------------------------------------------------------------------------
Stream(messages) == {<<>>} \cup {<<m>> : m \in messages}
Incoming == [type : {"message", "cancel"}, of : Handlers] \cup [type : {"refusal"}]
Outgoing == [type : {"response"}, of : Handlers] \cup [type : {"request"}]

TypeOK ==
    /\ closed \in BOOLEAN /\ count \in 0..MaxSessions /\ bridge \in {0, count}
    /\ bpc \in {"idle", "closing", "done"} /\ canCancel \in BOOLEAN
    /\ pc \in [Handlers -> {"idle", "stopping", "submitting", "sending", "waiting",
                            "replied", "refused", "cancelled"}]
    /\ kind \in [Handlers -> {None, "initialize", "request", "note"}]
    /\ id \in [Handlers -> Ids \cup {None}]
    /\ target \in [Handlers -> 0..count]
    /\ outcome \in [Handlers -> Handlers \cup {None, "failed"}]
    /\ task \in [Sessions -> {"none", "new", "running", "grace", "unwinding",
                              "aborting", "done"}]
    /\ toServer \in [Sessions -> {"unset", "open", "closed"}]
    /\ table \in [Sessions -> [Ids -> Handlers \cup {None}]]
    /\ closing \in [Sessions -> {"no", "asked", "stopping", "joining", "closed",
                                 "abandoned"}]
    /\ asked \in [Sessions -> SUBSET Handlers]
    /\ inbox \in [Sessions -> Stream(Incoming)]
    /\ wire \in [Sessions -> Stream(Outgoing)]
    /\ serving \in [Sessions -> {"no", "reading", "shut", "returned", "raised"}]
    /\ held \in [Sessions -> SUBSET Handlers]
    /\ caller \in [Sessions -> {"none", "asking", "answering", "answered", "served",
                                "over"}]

(***************************************************************************)
(* "A response can only ever belong to the request that registered the     *)
(* id": reused ids, cancelled waiters and late answers never mix up two    *)
(* requests.                                                               *)
(***************************************************************************)
OwnResponse == \A h \in Handlers : outcome[h] \in Handlers => outcome[h] = h

(***************************************************************************)
(* Nobody waits for what can no longer arrive: a handler that waits on an  *)
(* empty slot waits on a session whose output goes on and which aclose()   *)
(* has not given up.                                                       *)
(***************************************************************************)
NoneStranded ==
    \A h \in Handlers :
        pc[h] = "waiting" /\ outcome[h] = None =>
            /\ ~Finished(target[h])
            /\ closing[target[h]] # "closed"

(***************************************************************************)
(* Once the bridge is closed every session has been closed or is over: no  *)
(* message starts a server that nobody would stop.                         *)
(***************************************************************************)
ClosedForGood ==
    bpc = "done" => \A s \in 1..count : closing[s] # "no" \/ Finished(s)

(***************************************************************************)
(* The one Server object is never served twice at a time: the session that *)
(* a handshake replaces has stopped to read.                               *)
(***************************************************************************)
OneServerReads == \A s \in 1..count : s < count => ~InputOpen(s)

(***************************************************************************)
(* No server runs beside the one the bridge means: none after it was       *)
(* closed, and none beside the session of the last handshake.              *)
(***************************************************************************)
NoStrayServer == ClosedForGood /\ OneServerReads

(***************************************************************************)
(* aclose() returns, although a tool blocks outside the event loop or the  *)
(* server does not read.                                                   *)
(***************************************************************************)
AcloseReturns == bpc = "closing" ~> bpc = "done"

(***************************************************************************)
(* Requests to a server that has closed its output are answered, also when *)
(* its run() never returns.                                                *)
(***************************************************************************)
StoppedServerAnswered ==
    \A h \in Handlers :
        (pc[h] = "waiting" /\ ~InputOpen(target[h])) ~> pc[h] # "waiting"

(***************************************************************************)
(* A tool that asks the client is refused at once and need not wait, while *)
(* its session runs.                                                       *)
(***************************************************************************)
ServerRefused ==
    \A s \in Sessions :
        caller[s] = "asking" ~>
            (caller[s] \in {"served", "over"} \/ task[s] # "running"
                \/ toServer[s] = "closed")

(***************************************************************************)
(* Neither side of a session waits for the other when the other cannot     *)
(* answer: not a handler for a stopped server, not a tool for a client     *)
(* that takes no requests, and aclose() for none of them.                  *)
(***************************************************************************)
NobodyWaits == AcloseReturns /\ StoppedServerAnswered /\ ServerRefused
=============================================================================
