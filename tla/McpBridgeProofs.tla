--------------------------- MODULE McpBridgeProofs ---------------------------
(***************************************************************************)
(* Theorems about McpBridge, for any number of handlers, ids and sessions. *)
(***************************************************************************)
EXTENDS McpBridge, TLAPS

\* aclose() of the bridge has begun iff it is closed, and then has no session.
BridgeInv ==
    /\ bpc = "idle" => ~closed /\ bridge = count
    /\ bpc # "idle" => closed /\ bridge = 0
    /\ bpc = "closing" => count > 0

\* Sessions start in turn; one that was replaced is over and was asked to close.
Replaced ==
    \A s \in Sessions :
        /\ s > count => task[s] = "none" /\ closing[s] = "no"
        /\ s <= count => task[s] # "none"
        /\ s < count => Finished(s)
        /\ s <= count /\ (s < count \/ bpc # "idle") => closing[s] # "no"

\* What a session can no longer do as it ends.
Fresh(s) == task[s] \in {"none", "new"}
Ending ==
    \A s \in Sessions :
        /\ Fresh(s) => /\ serving[s] = "no" /\ toServer[s] = "unset"
                       /\ table[s] = NoSlots
                       /\ closing[s] \notin {"stopping", "joining", "closed"}
        /\ Finished(s) => ~InputOpen(s)
        /\ task[s] = "done" \/ closing[s] \in {"joining", "closed"} =>
               toServer[s] # "open"
        /\ task[s] = "done" \/ closing[s] = "closed" => table[s] = NoSlots

LifeInv == BridgeInv /\ Replaced /\ Ending

\* A handler on its way has a session, and a request an id.
Placed ==
    \A h \in Handlers :
        /\ pc[h] \in {"stopping", "submitting", "sending", "waiting"} =>
               /\ target[h] \in 1..count
               /\ IsRequest(h) => id[h] \in Ids
        /\ pc[h] = "stopping" => target[h] > 1
        /\ pc[h] = "waiting" => IsRequest(h)

\* An id in the table is that of the handler it is for, which has submitted.
Submitted(h) == pc[h] \notin {"idle", "stopping", "submitting"}
TableOwn ==
    \A s \in Sessions, i \in Ids :
        LET h == table[s][i] IN
        h # None => /\ h \in Handlers /\ target[h] = s /\ id[h] = i
                    /\ IsRequest(h) /\ Submitted(h)

\* A session in which no response can reach a slot any more.
Deaf(s) ==
    /\ ~Fresh(s)
    /\ \/ ~InputOpen(s) /\ task[s] # "running"
       \/ toServer[s] # "open" /\ table[s] = NoSlots

\* Where the message of h is, and its response.
InInbox(s, h) ==
    inbox[s] # <<>> /\ inbox[s][1].type = "message" /\ inbox[s][1].of = h
OnWire(s, h) == wire[s] # <<>> /\ wire[s][1].type = "response" /\ wire[s][1].of = h
InFlight(s, h) == InInbox(s, h) \/ h \in held[s] \/ OnWire(s, h)

\* It is in one place at most, and keeps its id until the response is there.
OnceInFlight ==
    \A s \in Sessions, h \in Handlers :
        /\ InInbox(s, h) => h \notin held[s] /\ ~OnWire(s, h)
        /\ h \in held[s] => ~OnWire(s, h)
Registers(s, h) == table[s][id[h]] = h \/ Deaf(s)
FlightInv ==
    \A s \in Sessions, h \in Handlers :
        InFlight(s, h) =>
            /\ target[h] = s /\ Submitted(h) /\ pc[h] # "sending"
            /\ IsRequest(h) => id[h] \in Ids /\ Registers(s, h)
            /\ IsRequest(h) \/ InInbox(s, h)
SendingInv ==
    \A s \in Sessions, h \in Handlers :
        pc[h] = "sending" /\ IsRequest(h) /\ target[h] = s => Registers(s, h)

TravelInv == OnceInFlight /\ FlightInv /\ SendingInv

\* Who still expects a response is in the table.
Awaited ==
    \A h \in Handlers :
        pc[h] \in {"sending", "waiting"} /\ IsRequest(h) /\ outcome[h] = None =>
            table[target[h]][id[h]] = h

RouteInv ==
    Placed /\ TableOwn /\ OnceInFlight /\ FlightInv /\ SendingInv /\ Awaited
        /\ OwnResponse /\ NoneStranded

IInv == TypeOK /\ LifeInv /\ RouteInv

-----------------------------------------------------------------------------
USE DEF bridgeVars, handlers, sessions, server

\* What a message is.
LEMMA MessageKinds ==
    ASSUME NEW m \in Messages
    PROVE  /\ m[1] \in {"initialize", "request", "note"}
           /\ m[2] \in Ids \cup {None}
           /\ m[1] # "note" => m[2] \in Ids
BY DEF Messages

\* A value of the type keeps the type of a function.
LEMMA Excepted ==
    ASSUME NEW S, NEW T, NEW f \in [S -> T], NEW x, NEW v, x \in S => v \in T
    PROVE  [f EXCEPT ![x] = v] \in [S -> T]
OBVIOUS

\* A stream that has room holds what is put into it, and nothing else.
LEMMA OneMore ==
    ASSUME NEW M, NEW q \in Stream(M), NEW m \in M, Room(q)
    PROVE  /\ Append(q, m) \in Stream(M)
           /\ Append(q, m) # <<>> /\ Append(q, m)[1] = m
<1>1. Append(q, m) = <<m>>
  BY DEF Room
<1>2. QED
  BY <1>1 DEF Stream

\* What is taken out of a stream leaves it empty.
LEMMA OneTaken ==
    ASSUME NEW M, NEW q \in Stream(M), q # <<>>
    PROVE  /\ Head(q) \in M /\ Head(q) = q[1]
           /\ Tail(q) = <<>> /\ Tail(q) \in Stream(M)
<1>1. PICK m \in M : q = <<m>>
  BY DEF Stream
<1>2. Head(q) = m /\ q[1] = m /\ Tail(q) = <<>>
  BY <1>1
<1>3. QED
  BY <1>2 DEF Stream

\* A response is to a handler.
LEMMA ResponseOf ==
    ASSUME NEW m \in Outgoing, m.type = "response"
    PROVE  m.of \in Handlers
<1>1. m \in [type : {"response"}, of : Handlers]
  BY DEF Outgoing
<1>2. QED
  BY <1>1

\* A response changes slots and the table, and not their types.
LEMMA RespondTypes ==
    ASSUME TypeOK, NEW s \in Sessions, NEW h \in Handlers, Respond(s, h)
    PROVE  /\ table' \in [Sessions -> [Ids -> Handlers \cup {None}]]
           /\ outcome' \in [Handlers -> Handlers \cup {None, "failed"}]
<1>1. table \in [Sessions -> [Ids -> Handlers \cup {None}]]
  BY DEF TypeOK
<1>2. [table[s] EXCEPT ![id[h]] = None] \in [Ids -> Handlers \cup {None}]
  BY <1>1
<1>3. table' = [table EXCEPT ![s] = [table[s] EXCEPT ![id[h]] = None]]
  BY DEF Respond
<1>4. table' \in [Sessions -> [Ids -> Handlers \cup {None}]]
  BY <1>1, <1>2, <1>3
<1>5. QED
  BY <1>4 DEF Respond, TypeOK

\* Every step keeps the types.
LEMMA TypeStep ==
    ASSUME TypeOK, [Next]_vars
    PROVE  TypeOK'
<1> USE BridgeAssumption, MessageKinds DEF TypeOK, Sessions, NoSlots
<1>1. ASSUME NEW h \in Handlers, NEW m \in Messages, HandleRefused(h, m[1], m[2])
      PROVE  TypeOK'
  BY <1>1 DEF HandleRefused, Message, Goes
<1>2. ASSUME NEW h \in Handlers, NEW m \in Messages, HandleFirst(h, m[1], m[2])
      PROVE  TypeOK'
  BY <1>2 DEF HandleFirst, Message, StartSession, Goes
<1>3. ASSUME NEW h \in Handlers, NEW m \in Messages, HandleRestart(h, m[1], m[2])
      PROVE  TypeOK'
  BY <1>3 DEF HandleRestart, Message, StartSession, Goes, Restarts, Finished,
              OutputEnded
<1>4. ASSUME NEW h \in Handlers, NEW m \in Messages, HandleCurrent(h, m[1], m[2])
      PROVE  TypeOK'
  BY <1>4 DEF HandleCurrent, Message, Goes
<1>5. ASSUME NEW h \in Handlers, StoppedClosed(h) PROVE TypeOK'
  BY <1>5 DEF StoppedClosed, Goes
<1>6. ASSUME NEW h \in Handlers, SubmitRefused(h) PROVE TypeOK'
  BY <1>6 DEF SubmitRefused, Goes
<1>7. ASSUME NEW h \in Handlers, SubmitDropped(h) PROVE TypeOK'
  BY <1>7 DEF SubmitDropped, Goes
<1>8. ASSUME NEW h \in Handlers, Submit(h) PROVE TypeOK'
  BY <1>8 DEF Submit, Goes
<1>9. ASSUME NEW h \in Handlers, Sent(h) PROVE TypeOK'
  <2> DEFINE more == Append(inbox[target[h]], [type |-> "message", of |-> h])
  <2>1. target[h] \in Sessions => more \in Stream(Incoming)
    <3>1. [type |-> "message", of |-> h] \in Incoming
      BY DEF Incoming
    <3>2. QED
      BY <1>9, <3>1, OneMore DEF Sent
  <2>2. inbox' = [inbox EXCEPT ![target[h]] = more]
    BY <1>9 DEF Sent
  <2> HIDE DEF more
  <2>3. /\ UNCHANGED <<bridgeVars, kind, id, target, outcome, sessions, wire, serving,
                       held, caller>>
        /\ \E x \in {"waiting", "replied"} : pc' = [pc EXCEPT ![h] = x]
    BY <1>9 DEF Sent, Goes
  <2>4. pc' \in [Handlers -> {"idle", "stopping", "submitting", "sending", "waiting",
                            "replied", "refused", "cancelled"}]
    BY <2>3
  <2>5. inbox' \in [Sessions -> Stream(Incoming)]
    <3>1. inbox \in [Sessions -> Stream(Incoming)]
      OBVIOUS
    <3> HIDE DEF TypeOK, Sessions
    <3>2. QED
      BY <2>1, <2>2, <3>1, Excepted
  <2>6. QED
    BY <2>3, <2>4, <2>5
<1>10. ASSUME NEW h \in Handlers, SendBroken(h) PROVE TypeOK'
  <2>1. table' \in [Sessions -> [Ids -> Handlers \cup {None}]]
    <3> DEFINE slots == [i \in Ids |-> IF table[target[h]][i] = h THEN None
                                        ELSE table[target[h]][i]]
    <3>1. target[h] \in Sessions => slots \in [Ids -> Handlers \cup {None}]
      OBVIOUS
    <3>2. table' = [table EXCEPT ![target[h]] = slots]
      BY <1>10 DEF SendBroken
    <3> HIDE DEF slots
    <3>3. QED
      BY <3>1, <3>2, Excepted
  <2>2. outcome' \in [Handlers -> Handlers \cup {None, "failed"}]
    BY <1>10 DEF SendBroken
  <2>3. pc' \in [Handlers -> {"idle", "stopping", "submitting", "sending", "waiting",
                            "replied", "refused", "cancelled"}]
    BY <1>10 DEF SendBroken, Goes
  <2>4. QED
    BY <1>10, <2>1, <2>2, <2>3 DEF SendBroken
<1>11. ASSUME NEW h \in Handlers, Return(h) PROVE TypeOK'
  BY <1>11 DEF Return, Goes
<1>12. ASSUME NEW h \in Handlers, Cancelled(h) PROVE TypeOK'
  BY <1>12 DEF Cancelled, Goes, Kept
<1>13. ASSUME NEW s \in Sessions, SessionStarts(s) PROVE TypeOK'
  BY <1>13 DEF SessionStarts
<1>14. ASSUME NEW s \in Sessions, SessionNeverRuns(s) PROVE TypeOK'
  BY <1>14 DEF SessionNeverRuns
<1>15. ASSUME NEW s \in Sessions, DeliverResponse(s) PROVE TypeOK'
  <2>1. wire[s] \in Stream(Outgoing) /\ Tail(wire[s]) \in Stream(Outgoing)
    BY <1>15, OneTaken DEF DeliverResponse
  <2>2. Head(wire[s]).of \in Handlers
    BY <1>15, <2>1, OneTaken, ResponseOf DEF DeliverResponse
  <2>3. /\ table' \in [Sessions -> [Ids -> Handlers \cup {None}]]
        /\ outcome' \in [Handlers -> Handlers \cup {None, "failed"}]
    BY <1>15, <2>2, RespondTypes DEF DeliverResponse
  <2>4. QED
    BY <1>15, <2>1, <2>3 DEF DeliverResponse
<1>16. ASSUME NEW s \in Sessions, DeliverRequest(s) PROVE TypeOK'
  <2>1. Tail(wire[s]) \in Stream(Outgoing)
    BY <1>16, OneTaken DEF DeliverRequest
  <2>2. QED
    BY <1>16, <2>1 DEF DeliverRequest, Noted
<1>17. ASSUME NEW s \in Sessions, AnswerServer(s) PROVE TypeOK'
  <2> DEFINE more == Append(inbox[s], [type |-> "refusal"])
  <2>1. Room(inbox[s]) => more \in Stream(Incoming)
    <3>1. [type |-> "refusal"] \in Incoming
      BY DEF Incoming
    <3>2. inbox[s] \in Stream(Incoming)
      OBVIOUS
    <3>3. QED
      BY <3>1, <3>2, OneMore
  <2>2. UNCHANGED <<bridgeVars, handlers, sessions, wire, serving, held>>
    BY <1>17 DEF AnswerServer
  <2>3. CASE Room(inbox[s]) /\ inbox' = [inbox EXCEPT ![s] = more]
                 /\ caller' = [caller EXCEPT ![s] = "answered"]
    <3>1. more \in Stream(Incoming)
      BY <2>1, <2>3
    <3> HIDE DEF more
    <3>2. QED
      BY <2>2, <2>3, <3>1
  <2>4. CASE inbox' = inbox /\ caller' = [caller EXCEPT ![s] = "over"]
    BY <2>2, <2>4
  <2>5. QED
    BY <1>17, <2>3, <2>4 DEF AnswerServer
<1>18. ASSUME NEW s \in Sessions, ReaderEnds(s) PROVE TypeOK'
  BY <1>18 DEF ReaderEnds, FailPending
<1>19. ASSUME NEW s \in Sessions, GraceEnds(s) PROVE TypeOK'
  BY <1>19 DEF GraceEnds
<1>20. ASSUME NEW s \in Sessions, SessionEnds(s) PROVE TypeOK'
  <2>1. <<>> \in Stream(Outgoing)
    BY DEF Stream
  <2>2. QED
    BY <1>20, <2>1 DEF SessionEnds, FailPending
<1>21. ASSUME NEW s \in Sessions, CloseBegins(s) PROVE TypeOK'
  BY <1>21 DEF CloseBegins, Cancellable
<1>22. ASSUME NEW s \in Sessions, CloseCancels(s) PROVE TypeOK'
  <2>1. PICK h \in asked[s] :
            /\ inbox' = [inbox EXCEPT ![s] = Append(@, [type |-> "cancel", of |-> h])]
            /\ asked' = [asked EXCEPT ![s] = @ \ {h}]
    BY <1>22 DEF CloseCancels
  <2>2. [type |-> "cancel", of |-> h] \in Incoming
    BY DEF Incoming
  <2>3. inbox' \in [Sessions -> Stream(Incoming)]
    <3>1. inbox[s] \in Stream(Incoming) /\ Room(inbox[s])
      BY <1>22 DEF CloseCancels
    <3>2. Append(inbox[s], [type |-> "cancel", of |-> h]) \in Stream(Incoming)
      BY <2>2, <3>1, OneMore
    <3>3. QED
      BY <2>1, <3>2
  <2>4. QED
    BY <1>22, <2>1, <2>3 DEF CloseCancels
<1>23. ASSUME NEW s \in Sessions, CloseStops(s) PROVE TypeOK'
  BY <1>23 DEF CloseStops
<1>24. ASSUME NEW s \in Sessions, CloseJoined(s) PROVE TypeOK'
  BY <1>24 DEF CloseJoined
<1>25. ASSUME NEW s \in Sessions, CloseGivesUp(s) PROVE TypeOK'
  BY <1>25 DEF CloseGivesUp, FailPending
<1>26. ASSUME NEW s \in Sessions, ServerReads(s) PROVE TypeOK'
  <2>1. Head(inbox[s]) \in Incoming /\ Tail(inbox[s]) \in Stream(Incoming)
    BY <1>26, OneTaken DEF ServerReads
  <2>2. held' \in [Sessions -> SUBSET Handlers]
    BY <1>26, <2>1 DEF ServerReads, Incoming
  <2>3. QED
    BY <1>26, <2>1, <2>2 DEF ServerReads
<1>27. ASSUME NEW s \in Sessions, ServerAnswers(s) PROVE TypeOK'
  <2>1. PICK h \in held[s] :
            /\ wire' = [wire EXCEPT ![s] = Append(@, [type |-> "response", of |-> h])]
            /\ held' = [held EXCEPT ![s] = @ \ {h}]
    BY <1>27 DEF ServerAnswers
  <2>2. [type |-> "response", of |-> h] \in Outgoing
    BY DEF Outgoing
  <2>3. wire' \in [Sessions -> Stream(Outgoing)]
    <3>1. wire[s] \in Stream(Outgoing) /\ Room(wire[s])
      BY <1>27 DEF ServerAnswers
    <3>2. Append(wire[s], [type |-> "response", of |-> h]) \in Stream(Outgoing)
      BY <2>2, <3>1, OneMore
    <3>3. QED
      BY <2>1, <3>2
  <2>4. QED
    BY <1>27, <2>1, <2>3 DEF ServerAnswers
<1>28. ASSUME NEW s \in Sessions, ServerSettles(s) PROVE TypeOK'
  <2>1. PICK h \in held[s] : Respond(s, h) /\ held' = [held EXCEPT ![s] = @ \ {h}]
    BY <1>28 DEF ServerSettles
  <2>2. h \in Handlers
    BY <2>1
  <2>3. /\ table' \in [Sessions -> [Ids -> Handlers \cup {None}]]
        /\ outcome' \in [Handlers -> Handlers \cup {None, "failed"}]
    BY <2>1, <2>2, RespondTypes
  <2>4. QED
    BY <1>28, <2>1, <2>3 DEF ServerSettles
<1>29. ASSUME NEW s \in Sessions, ServerAsks(s) PROVE TypeOK'
  <2>1. [type |-> "request"] \in Outgoing
    BY DEF Outgoing
  <2>2. wire' \in [Sessions -> Stream(Outgoing)]
    BY <1>29, <2>1, OneMore DEF ServerAsks
  <2>3. QED
    BY <1>29, <2>2 DEF ServerAsks
<1>30. ASSUME NEW s \in Sessions, ServerShuts(s) PROVE TypeOK'
  <2>1. <<>> \in Stream(Incoming)
    BY DEF Stream
  <2>2. QED
    BY <1>30, <2>1 DEF ServerShuts
<1>31. ASSUME NEW s \in Sessions, ServerReturns(s) PROVE TypeOK'
  BY <1>31 DEF ServerReturns
<1>32. ASSUME NEW s \in Sessions, ServerRaises(s) PROVE TypeOK'
  BY <1>32 DEF ServerRaises
<1>33. ASSUME BridgeClose PROVE TypeOK'
  BY <1>33 DEF BridgeClose, Shut
<1>34. ASSUME BridgeClosed PROVE TypeOK'
  BY <1>34 DEF BridgeClosed
<1>35. ASSUME UNCHANGED vars PROVE TypeOK'
  BY <1>35 DEF vars
<1>36. QED
  BY <1>1, <1>2, <1>3, <1>4, <1>5, <1>6, <1>7, <1>8, <1>9, <1>10, <1>11,
     <1>12, <1>13, <1>14, <1>15, <1>16, <1>17, <1>18, <1>19, <1>20, <1>21,
     <1>22, <1>23, <1>24, <1>25, <1>26, <1>27, <1>28, <1>29, <1>30, <1>31,
     <1>32, <1>33, <1>34, <1>35
  DEF Next, HandlerStep, SessionStep, ServerStep

\* A response leaves an empty table empty.
LEMMA RespondKeepsEmpty ==
    ASSUME TypeOK, NEW s \in Sessions, NEW h \in Handlers, Respond(s, h)
    PROVE  \A t \in Sessions : table[t] = NoSlots => table'[t] = NoSlots
<1>1. table' = [table EXCEPT ![s] = [table[s] EXCEPT ![id[h]] = None]]
  BY DEF Respond
<1>2. [NoSlots EXCEPT ![id[h]] = None] = NoSlots
  BY DEF NoSlots
<1>3. QED
  BY <1>1, <1>2 DEF TypeOK

\* Every step keeps the bridge and the order of its sessions.
LEMMA BridgeStep ==
    ASSUME TypeOK, LifeInv, [Next]_vars
    PROVE  (BridgeInv /\ Replaced)'
<1> USE BridgeAssumption
    DEF TypeOK, Sessions, LifeInv, BridgeInv, Replaced, Ending, Fresh,
        Finished, OutputEnded
<1>1. ASSUME NEW h \in Handlers, NEW m \in Messages, HandleRefused(h, m[1], m[2])
      PROVE  (BridgeInv /\ Replaced)'
  BY <1>1 DEF HandleRefused, Message, Goes
<1>2. ASSUME NEW h \in Handlers, NEW m \in Messages, HandleFirst(h, m[1], m[2])
      PROVE  (BridgeInv /\ Replaced)'
  BY <1>2 DEF HandleFirst, Message, StartSession, Goes
<1>3. ASSUME NEW h \in Handlers, NEW m \in Messages, HandleRestart(h, m[1], m[2])
      PROVE  (BridgeInv /\ Replaced)'
  BY <1>3 DEF HandleRestart, Message, StartSession, Goes, Restarts, Finished,
              OutputEnded
<1>4. ASSUME NEW h \in Handlers, NEW m \in Messages, HandleCurrent(h, m[1], m[2])
      PROVE  (BridgeInv /\ Replaced)'
  BY <1>4 DEF HandleCurrent, Message, Goes
<1>5. ASSUME NEW h \in Handlers, StoppedClosed(h)
      PROVE  (BridgeInv /\ Replaced)'
  BY <1>5 DEF StoppedClosed, Goes
<1>6. ASSUME NEW h \in Handlers, SubmitRefused(h)
      PROVE  (BridgeInv /\ Replaced)'
  BY <1>6 DEF SubmitRefused, Goes
<1>7. ASSUME NEW h \in Handlers, SubmitDropped(h)
      PROVE  (BridgeInv /\ Replaced)'
  BY <1>7 DEF SubmitDropped, Goes
<1>8. ASSUME NEW h \in Handlers, Submit(h) PROVE (BridgeInv /\ Replaced)'
  BY <1>8 DEF Submit, Goes
<1>9. ASSUME NEW h \in Handlers, Sent(h) PROVE (BridgeInv /\ Replaced)'
  BY <1>9 DEF Sent, Goes, Room
<1>10. ASSUME NEW h \in Handlers, SendBroken(h) PROVE (BridgeInv /\ Replaced)'
  BY <1>10 DEF SendBroken, Goes
<1>11. ASSUME NEW h \in Handlers, Return(h) PROVE (BridgeInv /\ Replaced)'
  BY <1>11 DEF Return, Goes
<1>12. ASSUME NEW h \in Handlers, Cancelled(h) PROVE (BridgeInv /\ Replaced)'
  BY <1>12 DEF Cancelled, Goes, Kept, Stopped
<1>13. ASSUME NEW s \in Sessions, SessionStarts(s)
       PROVE  (BridgeInv /\ Replaced)'
  <2>1. UNCHANGED <<closed, bridge, bpc, count, closing>>
    BY <1>13 DEF SessionStarts
  <2>2. task[s] = "new" /\ task' = [task EXCEPT ![s] = "running"]
    BY <1>13 DEF SessionStarts
  <2>3. BridgeInv'
    BY <2>1
  <2>4. ~Finished(s) /\ s \in 1..count
    BY <2>2
  <2>5. \A t \in Sessions : t # s => task'[t] = task[t]
    BY <2>2
  <2>6. task'[s] = "running"
    BY <2>2
  <2>7. Replaced'
    BY <2>1, <2>4, <2>5, <2>6
  <2>8. QED
    BY <2>3, <2>7
<1>14. ASSUME NEW s \in Sessions, SessionNeverRuns(s)
       PROVE  (BridgeInv /\ Replaced)'
  BY <1>14 DEF SessionNeverRuns
<1>15. ASSUME NEW s \in Sessions, DeliverResponse(s)
       PROVE  (BridgeInv /\ Replaced)'
  BY <1>15 DEF DeliverResponse, Respond
<1>16. ASSUME NEW s \in Sessions, DeliverRequest(s)
       PROVE  (BridgeInv /\ Replaced)'
  BY <1>16 DEF DeliverRequest, Noted
<1>17. ASSUME NEW s \in Sessions, AnswerServer(s)
       PROVE  (BridgeInv /\ Replaced)'
  BY <1>17 DEF AnswerServer, Room
<1>18. ASSUME NEW s \in Sessions, ReaderEnds(s) PROVE (BridgeInv /\ Replaced)'
  BY <1>18 DEF ReaderEnds, FailPending
<1>19. ASSUME NEW s \in Sessions, GraceEnds(s) PROVE (BridgeInv /\ Replaced)'
  BY <1>19 DEF GraceEnds
<1>20. ASSUME NEW s \in Sessions, SessionEnds(s) PROVE (BridgeInv /\ Replaced)'
  BY <1>20 DEF SessionEnds, FailPending
<1>21. ASSUME NEW s \in Sessions, CloseBegins(s) PROVE (BridgeInv /\ Replaced)'
  BY <1>21 DEF CloseBegins, Cancellable, Ready
<1>22. ASSUME NEW s \in Sessions, CloseCancels(s)
       PROVE  (BridgeInv /\ Replaced)'
  BY <1>22 DEF CloseCancels, Room
<1>23. ASSUME NEW s \in Sessions, CloseStops(s) PROVE (BridgeInv /\ Replaced)'
  BY <1>23 DEF CloseStops
<1>24. ASSUME NEW s \in Sessions, CloseJoined(s) PROVE (BridgeInv /\ Replaced)'
  BY <1>24 DEF CloseJoined
<1>25. ASSUME NEW s \in Sessions, CloseGivesUp(s)
       PROVE  (BridgeInv /\ Replaced)'
  BY <1>25 DEF CloseGivesUp, FailPending
<1>26. ASSUME NEW s \in Sessions, ServerReads(s) PROVE (BridgeInv /\ Replaced)'
  BY <1>26 DEF ServerReads
<1>27. ASSUME NEW s \in Sessions, ServerAnswers(s)
       PROVE  (BridgeInv /\ Replaced)'
  BY <1>27 DEF ServerAnswers, Room
<1>28. ASSUME NEW s \in Sessions, ServerSettles(s)
       PROVE  (BridgeInv /\ Replaced)'
  BY <1>28 DEF ServerSettles, Respond
<1>29. ASSUME NEW s \in Sessions, ServerAsks(s) PROVE (BridgeInv /\ Replaced)'
  BY <1>29 DEF ServerAsks, Room
<1>30. ASSUME NEW s \in Sessions, ServerShuts(s) PROVE (BridgeInv /\ Replaced)'
  BY <1>30 DEF ServerShuts
<1>31. ASSUME NEW s \in Sessions, ServerReturns(s)
       PROVE  (BridgeInv /\ Replaced)'
  BY <1>31 DEF ServerReturns
<1>32. ASSUME NEW s \in Sessions, ServerRaises(s)
       PROVE  (BridgeInv /\ Replaced)'
  BY <1>32 DEF ServerRaises
<1>33. ASSUME BridgeClose PROVE (BridgeInv /\ Replaced)'
  BY <1>33 DEF BridgeClose, Shut
<1>34. ASSUME BridgeClosed PROVE (BridgeInv /\ Replaced)'
  BY <1>34 DEF BridgeClosed
<1>35. ASSUME UNCHANGED vars PROVE (BridgeInv /\ Replaced)'
  BY <1>35 DEF vars
<1>36. QED
  BY <1>1, <1>2, <1>3, <1>4, <1>5, <1>6, <1>7, <1>8, <1>9, <1>10, <1>11,
     <1>12, <1>13, <1>14, <1>15, <1>16, <1>17, <1>18, <1>19, <1>20, <1>21,
     <1>22, <1>23, <1>24, <1>25, <1>26, <1>27, <1>28, <1>29, <1>30, <1>31,
     <1>32, <1>33, <1>34, <1>35
  DEF Next, HandlerStep, SessionStep, ServerStep

\* Every step keeps what a session can no longer do.
LEMMA EndingStep ==
    ASSUME TypeOK, LifeInv, [Next]_vars
    PROVE  Ending'
<1> USE BridgeAssumption
    DEF TypeOK, Sessions, LifeInv, BridgeInv, Replaced, Ending, Fresh, Finished,
        OutputEnded, InputOpen
<1>1. ASSUME NEW h \in Handlers, NEW m \in Messages, HandleRefused(h, m[1], m[2])
      PROVE  Ending'
  BY <1>1 DEF HandleRefused, Message, Goes
<1>2. ASSUME NEW h \in Handlers, NEW m \in Messages, HandleFirst(h, m[1], m[2])
      PROVE  Ending'
  BY <1>2 DEF HandleFirst, Message, StartSession, Goes
<1>3. ASSUME NEW h \in Handlers, NEW m \in Messages, HandleRestart(h, m[1], m[2])
      PROVE  Ending'
  BY <1>3 DEF HandleRestart, Message, StartSession, Goes, Restarts, Finished,
              OutputEnded
<1>4. ASSUME NEW h \in Handlers, NEW m \in Messages, HandleCurrent(h, m[1], m[2])
      PROVE  Ending'
  BY <1>4 DEF HandleCurrent, Message, Goes
<1>5. ASSUME NEW h \in Handlers, StoppedClosed(h) PROVE Ending'
  BY <1>5 DEF StoppedClosed, Goes
<1>6. ASSUME NEW h \in Handlers, SubmitRefused(h) PROVE Ending'
  BY <1>6 DEF SubmitRefused, Goes
<1>7. ASSUME NEW h \in Handlers, SubmitDropped(h) PROVE Ending'
  BY <1>7 DEF SubmitDropped, Goes
<1>8. ASSUME NEW h \in Handlers, Submit(h) PROVE Ending'
  BY <1>8 DEF Submit, Goes, NoSlots
<1>9. ASSUME NEW h \in Handlers, Sent(h) PROVE Ending'
  BY <1>9 DEF Sent, Goes, Room
<1>10. ASSUME NEW h \in Handlers, SendBroken(h) PROVE Ending'
  BY <1>10 DEF SendBroken, Goes, NoSlots
<1>11. ASSUME NEW h \in Handlers, Return(h) PROVE Ending'
  BY <1>11 DEF Return, Goes
<1>12. ASSUME NEW h \in Handlers, Cancelled(h) PROVE Ending'
  BY <1>12 DEF Cancelled, Goes, Kept, Stopped
<1>13. ASSUME NEW s \in Sessions, SessionStarts(s) PROVE Ending'
  BY <1>13 DEF SessionStarts
<1>14. ASSUME NEW s \in Sessions, SessionNeverRuns(s) PROVE Ending'
  BY <1>14 DEF SessionNeverRuns
<1>15. ASSUME NEW s \in Sessions, DeliverResponse(s) PROVE Ending'
  <2>1. Head(wire[s]).of \in Handlers
    BY <1>15, OneTaken, ResponseOf DEF DeliverResponse
  <2>2. \A t \in Sessions : table[t] = NoSlots => table'[t] = NoSlots
    BY <1>15, <2>1, RespondKeepsEmpty DEF DeliverResponse
  <2>3. QED
    BY <1>15, <2>2 DEF DeliverResponse
<1>16. ASSUME NEW s \in Sessions, DeliverRequest(s) PROVE Ending'
  BY <1>16 DEF DeliverRequest, Noted
<1>17. ASSUME NEW s \in Sessions, AnswerServer(s) PROVE Ending'
  BY <1>17 DEF AnswerServer, Room
<1>18. ASSUME NEW s \in Sessions, ReaderEnds(s) PROVE Ending'
  BY <1>18 DEF ReaderEnds, FailPending, NoSlots
<1>19. ASSUME NEW s \in Sessions, GraceEnds(s) PROVE Ending'
  BY <1>19 DEF GraceEnds
<1>20. ASSUME NEW s \in Sessions, SessionEnds(s) PROVE Ending'
  BY <1>20 DEF SessionEnds, FailPending, NoSlots
<1>21. ASSUME NEW s \in Sessions, CloseBegins(s) PROVE Ending'
  BY <1>21 DEF CloseBegins, Cancellable, Ready
<1>22. ASSUME NEW s \in Sessions, CloseCancels(s) PROVE Ending'
  BY <1>22 DEF CloseCancels, Room
<1>23. ASSUME NEW s \in Sessions, CloseStops(s) PROVE Ending'
  BY <1>23 DEF CloseStops
<1>24. ASSUME NEW s \in Sessions, CloseJoined(s) PROVE Ending'
  BY <1>24 DEF CloseJoined
<1>25. ASSUME NEW s \in Sessions, CloseGivesUp(s) PROVE Ending'
  BY <1>25 DEF CloseGivesUp, FailPending, NoSlots
<1>26. ASSUME NEW s \in Sessions, ServerReads(s) PROVE Ending'
  BY <1>26 DEF ServerReads
<1>27. ASSUME NEW s \in Sessions, ServerAnswers(s) PROVE Ending'
  BY <1>27 DEF ServerAnswers, Room
<1>28. ASSUME NEW s \in Sessions, ServerSettles(s) PROVE Ending'
  <2>1. PICK h \in held[s] : Respond(s, h)
    BY <1>28 DEF ServerSettles
  <2>2. \A t \in Sessions : table[t] = NoSlots => table'[t] = NoSlots
    BY <2>1, RespondKeepsEmpty
  <2>3. QED
    BY <1>28, <2>2 DEF ServerSettles
<1>29. ASSUME NEW s \in Sessions, ServerAsks(s) PROVE Ending'
  BY <1>29 DEF ServerAsks, Room
<1>30. ASSUME NEW s \in Sessions, ServerShuts(s) PROVE Ending'
  BY <1>30 DEF ServerShuts
<1>31. ASSUME NEW s \in Sessions, ServerReturns(s) PROVE Ending'
  BY <1>31 DEF ServerReturns
<1>32. ASSUME NEW s \in Sessions, ServerRaises(s) PROVE Ending'
  BY <1>32 DEF ServerRaises
<1>33. ASSUME BridgeClose PROVE Ending'
  BY <1>33 DEF BridgeClose, Shut
<1>34. ASSUME BridgeClosed PROVE Ending'
  BY <1>34 DEF BridgeClosed
<1>35. ASSUME UNCHANGED vars PROVE Ending'
  BY <1>35 DEF vars
<1>36. QED
  BY <1>1, <1>2, <1>3, <1>4, <1>5, <1>6, <1>7, <1>8, <1>9, <1>10, <1>11,
     <1>12, <1>13, <1>14, <1>15, <1>16, <1>17, <1>18, <1>19, <1>20, <1>21,
     <1>22, <1>23, <1>24, <1>25, <1>26, <1>27, <1>28, <1>29, <1>30, <1>31,
     <1>32, <1>33, <1>34, <1>35
  DEF Next, HandlerStep, SessionStep, ServerStep
\* A response takes its id out of the table, and goes to the slot found there.
LEMMA RespondFacts ==
    ASSUME TypeOK, NEW s \in Sessions, NEW h \in Handlers, Respond(s, h)
    PROVE  /\ \A t \in Sessions, i \in Ids :
                  table'[t][i] = IF t = s /\ i = id[h] THEN None ELSE table[t][i]
           /\ id[h] \in Ids => \A g \in Handlers :
                  outcome'[g] = IF table[s][id[h]] = g THEN h ELSE outcome[g]
<1>1. table' = [table EXCEPT ![s] = [table[s] EXCEPT ![id[h]] = None]]
  BY DEF Respond
<1>2. \A t \in Sessions, i \in Ids :
          table'[t][i] = IF t = s /\ i = id[h] THEN None ELSE table[t][i]
  BY <1>1 DEF TypeOK
<1>3. ASSUME id[h] \in Ids, NEW g \in Handlers
      PROVE  outcome'[g] = IF table[s][id[h]] = g THEN h ELSE outcome[g]
  <2>1. table[s][id[h]] \in Handlers \cup {None} /\ None \notin Handlers
    BY <1>3, BridgeAssumption DEF TypeOK
  <2>2. QED
    BY <1>3, <2>1 DEF Respond, TypeOK
<1>4. QED
  BY <1>2, <1>3

\* Every step keeps what a handler on its way has.
LEMMA PlacedStep ==
    ASSUME TypeOK, LifeInv, Placed, [Next]_vars
    PROVE  Placed'
<1> USE BridgeAssumption, MessageKinds
    DEF TypeOK, Sessions, LifeInv, BridgeInv, Replaced, Placed, IsRequest, None
<1>1. ASSUME NEW h \in Handlers, NEW m \in Messages, HandleRefused(h, m[1], m[2])
      PROVE  Placed'
  BY <1>1 DEF HandleRefused, Message, Goes
<1>2. ASSUME NEW h \in Handlers, NEW m \in Messages, HandleFirst(h, m[1], m[2])
      PROVE  Placed'
  BY <1>2 DEF HandleFirst, Message, StartSession, Goes
<1>3. ASSUME NEW h \in Handlers, NEW m \in Messages, HandleRestart(h, m[1], m[2])
      PROVE  Placed'
  BY <1>3 DEF HandleRestart, Message, StartSession, Goes, Restarts, Finished,
              OutputEnded
<1>4. ASSUME NEW h \in Handlers, NEW m \in Messages, HandleCurrent(h, m[1], m[2])
      PROVE  Placed'
  BY <1>4 DEF HandleCurrent, Message, Goes
<1>5. ASSUME NEW h \in Handlers, StoppedClosed(h) PROVE Placed'
  BY <1>5 DEF StoppedClosed, Goes
<1>6. ASSUME NEW h \in Handlers, SubmitRefused(h) PROVE Placed'
  BY <1>6 DEF SubmitRefused, Goes
<1>7. ASSUME NEW h \in Handlers, SubmitDropped(h) PROVE Placed'
  BY <1>7 DEF SubmitDropped, Goes
<1>8. ASSUME NEW h \in Handlers, Submit(h) PROVE Placed'
  BY <1>8 DEF Submit, Goes
<1>9. ASSUME NEW h \in Handlers, Sent(h) PROVE Placed'
  BY <1>9 DEF Sent, Goes, Room
<1>10. ASSUME NEW h \in Handlers, SendBroken(h) PROVE Placed'
  BY <1>10 DEF SendBroken, Goes
<1>11. ASSUME NEW h \in Handlers, Return(h) PROVE Placed'
  BY <1>11 DEF Return, Goes
<1>12. ASSUME NEW h \in Handlers, Cancelled(h) PROVE Placed'
  BY <1>12 DEF Cancelled, Goes, Kept, Stopped
<1>13. ASSUME NEW s \in Sessions, SessionStarts(s) PROVE Placed'
  BY <1>13 DEF SessionStarts
<1>14. ASSUME NEW s \in Sessions, SessionNeverRuns(s) PROVE Placed'
  BY <1>14 DEF SessionNeverRuns
<1>15. ASSUME NEW s \in Sessions, DeliverResponse(s) PROVE Placed'
  BY <1>15 DEF DeliverResponse, Respond
<1>16. ASSUME NEW s \in Sessions, DeliverRequest(s) PROVE Placed'
  BY <1>16 DEF DeliverRequest, Noted
<1>17. ASSUME NEW s \in Sessions, AnswerServer(s) PROVE Placed'
  BY <1>17 DEF AnswerServer, Room
<1>18. ASSUME NEW s \in Sessions, ReaderEnds(s) PROVE Placed'
  BY <1>18 DEF ReaderEnds, FailPending
<1>19. ASSUME NEW s \in Sessions, GraceEnds(s) PROVE Placed'
  BY <1>19 DEF GraceEnds
<1>20. ASSUME NEW s \in Sessions, SessionEnds(s) PROVE Placed'
  BY <1>20 DEF SessionEnds, FailPending
<1>21. ASSUME NEW s \in Sessions, CloseBegins(s) PROVE Placed'
  BY <1>21 DEF CloseBegins, Cancellable, Ready
<1>22. ASSUME NEW s \in Sessions, CloseCancels(s) PROVE Placed'
  BY <1>22 DEF CloseCancels, Room
<1>23. ASSUME NEW s \in Sessions, CloseStops(s) PROVE Placed'
  BY <1>23 DEF CloseStops
<1>24. ASSUME NEW s \in Sessions, CloseJoined(s) PROVE Placed'
  BY <1>24 DEF CloseJoined
<1>25. ASSUME NEW s \in Sessions, CloseGivesUp(s) PROVE Placed'
  BY <1>25 DEF CloseGivesUp, FailPending
<1>26. ASSUME NEW s \in Sessions, ServerReads(s) PROVE Placed'
  BY <1>26 DEF ServerReads
<1>27. ASSUME NEW s \in Sessions, ServerAnswers(s) PROVE Placed'
  BY <1>27 DEF ServerAnswers, Room
<1>28. ASSUME NEW s \in Sessions, ServerSettles(s) PROVE Placed'
  BY <1>28 DEF ServerSettles, Respond
<1>29. ASSUME NEW s \in Sessions, ServerAsks(s) PROVE Placed'
  BY <1>29 DEF ServerAsks, Room
<1>30. ASSUME NEW s \in Sessions, ServerShuts(s) PROVE Placed'
  BY <1>30 DEF ServerShuts
<1>31. ASSUME NEW s \in Sessions, ServerReturns(s) PROVE Placed'
  BY <1>31 DEF ServerReturns
<1>32. ASSUME NEW s \in Sessions, ServerRaises(s) PROVE Placed'
  BY <1>32 DEF ServerRaises
<1>33. ASSUME BridgeClose PROVE Placed'
  BY <1>33 DEF BridgeClose, Shut
<1>34. ASSUME BridgeClosed PROVE Placed'
  BY <1>34 DEF BridgeClosed
<1>35. ASSUME UNCHANGED vars PROVE Placed'
  BY <1>35 DEF vars
<1>36. QED
  BY <1>1, <1>2, <1>3, <1>4, <1>5, <1>6, <1>7, <1>8, <1>9, <1>10, <1>11,
     <1>12, <1>13, <1>14, <1>15, <1>16, <1>17, <1>18, <1>19, <1>20, <1>21,
     <1>22, <1>23, <1>24, <1>25, <1>26, <1>27, <1>28, <1>29, <1>30, <1>31,
     <1>32, <1>33, <1>34, <1>35
  DEF Next, HandlerStep, SessionStep, ServerStep

\* Every step keeps what the table of a session says.
LEMMA TableStep ==
    ASSUME TypeOK, Placed, TableOwn, [Next]_vars
    PROVE  TableOwn'
<1> USE BridgeAssumption, MessageKinds
    DEF TypeOK, Sessions, Placed, TableOwn, Submitted, IsRequest, NoSlots
<1>1. ASSUME NEW h \in Handlers, NEW m \in Messages, HandleRefused(h, m[1], m[2])
      PROVE  TableOwn'
  BY <1>1 DEF HandleRefused, Message, Goes
<1>2. ASSUME NEW h \in Handlers, NEW m \in Messages, HandleFirst(h, m[1], m[2])
      PROVE  TableOwn'
  BY <1>2 DEF HandleFirst, Message, StartSession, Goes
<1>3. ASSUME NEW h \in Handlers, NEW m \in Messages, HandleRestart(h, m[1], m[2])
      PROVE  TableOwn'
  BY <1>3 DEF HandleRestart, Message, StartSession, Goes, Restarts, Finished,
              OutputEnded
<1>4. ASSUME NEW h \in Handlers, NEW m \in Messages, HandleCurrent(h, m[1], m[2])
      PROVE  TableOwn'
  BY <1>4 DEF HandleCurrent, Message, Goes
<1>5. ASSUME NEW h \in Handlers, StoppedClosed(h) PROVE TableOwn'
  BY <1>5 DEF StoppedClosed, Goes
<1>6. ASSUME NEW h \in Handlers, SubmitRefused(h) PROVE TableOwn'
  BY <1>6 DEF SubmitRefused, Goes
<1>7. ASSUME NEW h \in Handlers, SubmitDropped(h) PROVE TableOwn'
  BY <1>7 DEF SubmitDropped, Goes
<1>8. ASSUME NEW h \in Handlers, Submit(h) PROVE TableOwn'
  BY <1>8 DEF Submit, Goes
<1>9. ASSUME NEW h \in Handlers, Sent(h) PROVE TableOwn'
  BY <1>9 DEF Sent, Goes, Room
<1>10. ASSUME NEW h \in Handlers, SendBroken(h) PROVE TableOwn'
  BY <1>10 DEF SendBroken, Goes
<1>11. ASSUME NEW h \in Handlers, Return(h) PROVE TableOwn'
  BY <1>11 DEF Return, Goes
<1>12. ASSUME NEW h \in Handlers, Cancelled(h) PROVE TableOwn'
  BY <1>12 DEF Cancelled, Goes, Kept, Stopped
<1>13. ASSUME NEW s \in Sessions, SessionStarts(s) PROVE TableOwn'
  BY <1>13 DEF SessionStarts
<1>14. ASSUME NEW s \in Sessions, SessionNeverRuns(s) PROVE TableOwn'
  BY <1>14 DEF SessionNeverRuns
<1>15. ASSUME NEW s \in Sessions, DeliverResponse(s) PROVE TableOwn'
  <2>1. Head(wire[s]).of \in Handlers
    BY <1>15, OneTaken, ResponseOf DEF DeliverResponse
  <2>2. \A t \in Sessions, i \in Ids : table'[t][i] \in {None, table[t][i]}
    BY <1>15, <2>1, RespondFacts DEF DeliverResponse
  <2>3. UNCHANGED <<pc, kind, id, target>>
    BY <1>15 DEF DeliverResponse
  <2>4. QED
    BY <2>2, <2>3
<1>16. ASSUME NEW s \in Sessions, DeliverRequest(s) PROVE TableOwn'
  BY <1>16 DEF DeliverRequest, Noted
<1>17. ASSUME NEW s \in Sessions, AnswerServer(s) PROVE TableOwn'
  BY <1>17 DEF AnswerServer, Room
<1>18. ASSUME NEW s \in Sessions, ReaderEnds(s) PROVE TableOwn'
  BY <1>18 DEF ReaderEnds, FailPending
<1>19. ASSUME NEW s \in Sessions, GraceEnds(s) PROVE TableOwn'
  BY <1>19 DEF GraceEnds
<1>20. ASSUME NEW s \in Sessions, SessionEnds(s) PROVE TableOwn'
  BY <1>20 DEF SessionEnds, FailPending
<1>21. ASSUME NEW s \in Sessions, CloseBegins(s) PROVE TableOwn'
  BY <1>21 DEF CloseBegins, Cancellable, Ready
<1>22. ASSUME NEW s \in Sessions, CloseCancels(s) PROVE TableOwn'
  BY <1>22 DEF CloseCancels, Room
<1>23. ASSUME NEW s \in Sessions, CloseStops(s) PROVE TableOwn'
  BY <1>23 DEF CloseStops
<1>24. ASSUME NEW s \in Sessions, CloseJoined(s) PROVE TableOwn'
  BY <1>24 DEF CloseJoined
<1>25. ASSUME NEW s \in Sessions, CloseGivesUp(s) PROVE TableOwn'
  BY <1>25 DEF CloseGivesUp, FailPending
<1>26. ASSUME NEW s \in Sessions, ServerReads(s) PROVE TableOwn'
  BY <1>26 DEF ServerReads
<1>27. ASSUME NEW s \in Sessions, ServerAnswers(s) PROVE TableOwn'
  BY <1>27 DEF ServerAnswers, Room
<1>28. ASSUME NEW s \in Sessions, ServerSettles(s) PROVE TableOwn'
  BY <1>28 DEF ServerSettles, Respond
<1>29. ASSUME NEW s \in Sessions, ServerAsks(s) PROVE TableOwn'
  BY <1>29 DEF ServerAsks, Room
<1>30. ASSUME NEW s \in Sessions, ServerShuts(s) PROVE TableOwn'
  BY <1>30 DEF ServerShuts
<1>31. ASSUME NEW s \in Sessions, ServerReturns(s) PROVE TableOwn'
  BY <1>31 DEF ServerReturns
<1>32. ASSUME NEW s \in Sessions, ServerRaises(s) PROVE TableOwn'
  BY <1>32 DEF ServerRaises
<1>33. ASSUME BridgeClose PROVE TableOwn'
  BY <1>33 DEF BridgeClose, Shut
<1>34. ASSUME BridgeClosed PROVE TableOwn'
  BY <1>34 DEF BridgeClosed
<1>35. ASSUME UNCHANGED vars PROVE TableOwn'
  BY <1>35 DEF vars
<1>36. QED
  BY <1>1, <1>2, <1>3, <1>4, <1>5, <1>6, <1>7, <1>8, <1>9, <1>10, <1>11,
     <1>12, <1>13, <1>14, <1>15, <1>16, <1>17, <1>18, <1>19, <1>20, <1>21,
     <1>22, <1>23, <1>24, <1>25, <1>26, <1>27, <1>28, <1>29, <1>30, <1>31,
     <1>32, <1>33, <1>34, <1>35
  DEF Next, HandlerStep, SessionStep, ServerStep

\* A handler that comes as far as sending leaves what is on its way alone.
LEMMA NewcomerFlight ==
    ASSUME TypeOK, RouteInv, NEW h \in Handlers,
           pc[h] \in {"idle", "stopping", "submitting"},
           \A g \in Handlers \ {h} :
               /\ pc'[g] = pc[g] /\ kind'[g] = kind[g]
               /\ id'[g] = id[g] /\ target'[g] = target[g],
           pc'[h] = "sending" /\ IsRequest(h)' => table'[target'[h]][id'[h]] = h,
           UNCHANGED <<inbox, wire, held>>,
           \A s \in Sessions, g \in Handlers :
               id[g] \in Ids /\ table[s][id[g]] = g => table'[s][id[g]] = g,
           \A s \in Sessions : Deaf(s) => Deaf(s)'
    PROVE  TravelInv'
<1>1. \A s \in Sessions : ~InFlight(s, h)
  BY DEF RouteInv, FlightInv, Submitted
<1>2. \A s \in Sessions, g \in Handlers :
          /\ InInbox(s, g)' <=> InInbox(s, g)
          /\ OnWire(s, g)' <=> OnWire(s, g)
          /\ InFlight(s, g)' <=> InFlight(s, g)
  BY DEF InFlight, InInbox, OnWire
<1>3. OnceInFlight'
  BY <1>2 DEF RouteInv, OnceInFlight
<1>4. \A g \in Handlers \ {h} : (IsRequest(g)' <=> IsRequest(g))
  BY DEF IsRequest
<1>5. FlightInv'
  BY <1>1, <1>2, <1>4 DEF RouteInv, FlightInv, Submitted, Registers
<1>6. ASSUME NEW t \in Sessions, NEW g \in Handlers,
             pc'[g] = "sending", IsRequest(g)', target'[g] = t
      PROVE  Registers(t, g)'
  <2>1. CASE g = h
    BY <1>6, <2>1 DEF Registers
  <2>2. CASE g # h
    <3>1. pc[g] = "sending" /\ IsRequest(g) /\ target[g] = t /\ id'[g] = id[g]
      BY <1>4, <1>6, <2>2
    <3>2. id[g] \in Ids
      BY <3>1 DEF RouteInv, Placed
    <3>3. Registers(t, g)
      BY <3>1 DEF RouteInv, SendingInv
    <3>4. QED
      BY <3>1, <3>2, <3>3 DEF Registers
  <2>3. QED
    BY <2>1, <2>2
<1>7. SendingInv'
  BY <1>6 DEF SendingInv
<1>8. QED
  BY <1>3, <1>5, <1>7 DEF TravelInv

\* A response takes only the id of its own request, whatever is on its way.
LEMMA RespondFlight ==
    ASSUME TypeOK, RouteInv, NEW s \in Sessions, NEW h \in Handlers,
           InFlight(s, h), IsRequest(h), Respond(s, h), Deaf(s) => table[s] = NoSlots,
           UNCHANGED <<pc, kind, id, target, task, toServer, serving>>,
           OnceInFlight',
           \A t \in Sessions, g \in Handlers :
               /\ InFlight(t, g)' => InFlight(t, g) /\ ~(t = s /\ g = h)
               /\ InInbox(t, g)' <=> InInbox(t, g)
    PROVE  TravelInv'
<1>1. /\ \A t \in Sessions, i \in Ids :
            table'[t][i] = IF t = s /\ i = id[h] THEN None ELSE table[t][i]
      /\ \A t \in Sessions : table[t] = NoSlots => table'[t] = NoSlots
  BY RespondFacts, RespondKeepsEmpty
<1>2. \A t \in Sessions : Deaf(t) => Deaf(t)'
  BY <1>1 DEF Deaf, Fresh, InputOpen
<1>3. Deaf(s) \/ table[s][id[h]] = h
  BY DEF RouteInv, FlightInv, Registers
<1>4. \A t \in Sessions, g \in Handlers :
          g # h /\ id[g] \in Ids /\ Registers(t, g) => Registers(t, g)'
  BY <1>1, <1>2, <1>3 DEF Registers
<1>5. FlightInv'
  BY <1>4 DEF RouteInv, FlightInv, Submitted, IsRequest
<1>6. pc[h] # "sending"
  BY DEF RouteInv, FlightInv
<1>7. ASSUME NEW t \in Sessions, NEW g \in Handlers,
             pc'[g] = "sending", IsRequest(g)', target'[g] = t
      PROVE  Registers(t, g)'
  <2>1. pc[g] = "sending" /\ IsRequest(g) /\ g # h /\ target[g] = t
    BY <1>6, <1>7 DEF IsRequest
  <2>2. id[g] \in Ids
    BY <2>1 DEF RouteInv, Placed
  <2>3. Registers(t, g)
    BY <2>1 DEF RouteInv, SendingInv
  <2>4. QED
    BY <1>4, <2>1, <2>2, <2>3
<1>8. QED
  BY <1>5, <1>7 DEF SendingInv, TravelInv

\* What only moves between the streams and the server keeps its id.
LEMMA MovedFlight ==
    ASSUME TypeOK, RouteInv, OnceInFlight',
           UNCHANGED <<pc, kind, id, target, table, task, toServer, serving>>,
           \A t \in Sessions, g \in Handlers :
               /\ InFlight(t, g)' => InFlight(t, g)
               /\ InFlight(t, g)' => InInbox(t, g)' \/ IsRequest(g)
    PROVE  TravelInv'
<1>1. FlightInv'
  BY DEF RouteInv, FlightInv, Submitted, IsRequest, Registers, Deaf, Fresh, InputOpen
<1>2. SendingInv'
  BY DEF RouteInv, SendingInv, IsRequest, Registers, Deaf, Fresh, InputOpen
<1>3. QED
  BY <1>1, <1>2 DEF TravelInv

\* Every step keeps a request on its way with its id.
LEMMA FlightStep ==
    ASSUME TypeOK, LifeInv, RouteInv, [Next]_vars
    PROVE  TravelInv'
<1>1. ASSUME NEW h \in Handlers, NEW m \in Messages, HandleRefused(h, m[1], m[2])
      PROVE  TravelInv'
  <2>1. /\ pc[h] \in {"idle", "stopping", "submitting"}
        /\ \A g \in Handlers \ {h} :
               /\ pc'[g] = pc[g] /\ kind'[g] = kind[g]
               /\ id'[g] = id[g] /\ target'[g] = target[g]
    BY <1>1 DEF HandleRefused, Message, Goes, TypeOK
  <2>2. /\ UNCHANGED <<inbox, wire, held, table, toServer, serving>>
        /\ pc'[h] # "sending"
    BY <1>1 DEF HandleRefused, Message, Goes, TypeOK
  <2>3. \A s \in Sessions : Deaf(s) => Deaf(s)'
    BY <1>1, <2>2 DEF HandleRefused, Message, Goes, TypeOK, Deaf, Fresh,
        InputOpen, Sessions, LifeInv, Replaced
  <2>4. QED
    BY <2>1, <2>2, <2>3, NewcomerFlight
<1>2. ASSUME NEW h \in Handlers, NEW m \in Messages, HandleFirst(h, m[1], m[2])
      PROVE  TravelInv'
  <2>1. /\ pc[h] \in {"idle", "stopping", "submitting"}
        /\ \A g \in Handlers \ {h} :
               /\ pc'[g] = pc[g] /\ kind'[g] = kind[g]
               /\ id'[g] = id[g] /\ target'[g] = target[g]
    BY <1>2 DEF HandleFirst, Message, StartSession, Goes, TypeOK
  <2>2. /\ UNCHANGED <<inbox, wire, held, table, toServer, serving>>
        /\ pc'[h] # "sending"
    BY <1>2 DEF HandleFirst, Message, StartSession, Goes, TypeOK
  <2>3. \A s \in Sessions : Deaf(s) => Deaf(s)'
    BY <1>2, <2>2 DEF HandleFirst, Message, StartSession, Goes, TypeOK, Deaf, Fresh,
        InputOpen, Sessions, LifeInv, Replaced
  <2>4. QED
    BY <2>1, <2>2, <2>3, NewcomerFlight
<1>3. ASSUME NEW h \in Handlers, NEW m \in Messages, HandleRestart(h, m[1], m[2])
      PROVE  TravelInv'
  <2>1. /\ pc[h] \in {"idle", "stopping", "submitting"}
        /\ \A g \in Handlers \ {h} :
               /\ pc'[g] = pc[g] /\ kind'[g] = kind[g]
               /\ id'[g] = id[g] /\ target'[g] = target[g]
    BY <1>3 DEF HandleRestart, Message, StartSession, Goes, TypeOK
  <2>2. /\ UNCHANGED <<inbox, wire, held, table, toServer, serving>>
        /\ pc'[h] # "sending"
    BY <1>3 DEF HandleRestart, Message, StartSession, Goes, TypeOK
  <2>3. \A s \in Sessions : Deaf(s) => Deaf(s)'
    BY <1>3, <2>2 DEF HandleRestart, Message, StartSession, Goes, TypeOK, Deaf, Fresh,
        InputOpen, Sessions, LifeInv, Replaced
  <2>4. QED
    BY <2>1, <2>2, <2>3, NewcomerFlight
<1>4. ASSUME NEW h \in Handlers, NEW m \in Messages, HandleCurrent(h, m[1], m[2])
      PROVE  TravelInv'
  <2>1. /\ pc[h] \in {"idle", "stopping", "submitting"}
        /\ \A g \in Handlers \ {h} :
               /\ pc'[g] = pc[g] /\ kind'[g] = kind[g]
               /\ id'[g] = id[g] /\ target'[g] = target[g]
    BY <1>4 DEF HandleCurrent, Message, Goes, TypeOK
  <2>2. /\ UNCHANGED <<inbox, wire, held, table, toServer, serving>>
        /\ pc'[h] # "sending"
    BY <1>4 DEF HandleCurrent, Message, Goes, TypeOK
  <2>3. \A s \in Sessions : Deaf(s) => Deaf(s)'
    BY <1>4, <2>2 DEF HandleCurrent, Message, Goes, TypeOK, Deaf, Fresh,
        InputOpen, Sessions, LifeInv, Replaced
  <2>4. QED
    BY <2>1, <2>2, <2>3, NewcomerFlight
<1>5. ASSUME NEW h \in Handlers, Submit(h) PROVE TravelInv'
  <2>1. /\ pc[h] = "submitting"
        /\ \A g \in Handlers \ {h} :
               /\ pc'[g] = pc[g] /\ kind'[g] = kind[g]
               /\ id'[g] = id[g] /\ target'[g] = target[g]
    BY <1>5 DEF Submit, Goes, TypeOK
  <2>2. UNCHANGED <<inbox, wire, held, task, toServer, serving, kind, id, target>>
    BY <1>5 DEF Submit
  <2>3. target[h] \in Sessions /\ (IsRequest(h) => id[h] \in Ids)
    BY <2>1, BridgeAssumption DEF RouteInv, Placed, TypeOK, Sessions
  <2>4. \A t \in Sessions, i \in Ids :
            table'[t][i] = IF IsRequest(h) /\ t = target[h] /\ i = id[h] THEN h
                           ELSE table[t][i]
    BY <1>5, <2>3 DEF Submit, TypeOK
  <2>5. IsRequest(h) => table[target[h]][id[h]] = None
    BY <1>5 DEF Submit, Registered
  <2>6. \A t \in Sessions, g \in Handlers :
            id[g] \in Ids /\ table[t][id[g]] = g => table'[t][id[g]] = g
    BY <2>3, <2>4, <2>5, BridgeAssumption
  <2>7. ASSUME NEW t \in Sessions, Deaf(t) PROVE Deaf(t)'
    <3>1. CASE t = target[h]
      BY <1>5, <2>2, <2>7, <3>1 DEF Submit, Deaf, Fresh, InputOpen
    <3>2. CASE t # target[h]
      <4>1. table'[t] = table[t]
        BY <1>5, <2>3, <3>2 DEF Submit, TypeOK
      <4>2. QED
        BY <2>2, <2>7, <4>1 DEF Deaf, Fresh, InputOpen
    <3>3. QED
      BY <3>1, <3>2
  <2>8. IsRequest(h)' => table'[target'[h]][id'[h]] = h
    BY <2>2, <2>3, <2>4 DEF IsRequest
  <2>9. QED
    BY <2>1, <2>2, <2>6, <2>7, <2>8, NewcomerFlight
<1>6. ASSUME NEW s \in Sessions, DeliverResponse(s) PROVE TravelInv'
  <2> DEFINE h == Head(wire[s]).of
  <2>1. h \in Handlers /\ OnWire(s, h)
    BY <1>6, OneTaken, ResponseOf DEF DeliverResponse, OnWire, TypeOK
  <2>2. /\ UNCHANGED <<pc, kind, id, target, task, toServer, serving, inbox, held>>
        /\ wire' = [wire EXCEPT ![s] = <<>>]
    <3>1. wire[s] \in Stream(Outgoing) /\ wire[s] # <<>>
      BY <1>6 DEF DeliverResponse, TypeOK
    <3>2. Tail(wire[s]) = <<>>
      BY <3>1, OneTaken
    <3>3. QED
      BY <1>6, <3>2 DEF DeliverResponse
  <2>3. Respond(s, h) /\ task[s] = "running"
    BY <1>6 DEF DeliverResponse
  <2> HIDE DEF h
  <2>4. \A t \in Sessions, g \in Handlers :
            /\ OnWire(t, g)' => OnWire(t, g) /\ t # s
            /\ InInbox(t, g)' <=> InInbox(t, g)
    BY <2>2 DEF OnWire, InInbox, TypeOK
  <2>5. InFlight(s, h) /\ IsRequest(h) /\ (Deaf(s) => table[s] = NoSlots)
    BY <2>1, <2>3 DEF InFlight, RouteInv, FlightInv, OnceInFlight, Deaf
  <2>6. OnceInFlight'
    BY <2>2, <2>4 DEF RouteInv, OnceInFlight
  <2>7. \A t \in Sessions, g \in Handlers :
            InFlight(t, g)' => InFlight(t, g) /\ ~(t = s /\ g = h)
    BY <2>1, <2>2, <2>4 DEF InFlight, RouteInv, OnceInFlight
  <2>8. QED
    BY <2>1, <2>2, <2>3, <2>4, <2>5, <2>6, <2>7, RespondFlight
<1>7. ASSUME NEW s \in Sessions, DeliverRequest(s) PROVE TravelInv'
  <2>1. /\ UNCHANGED <<pc, kind, id, target, table, task, toServer, serving, inbox, held>>
        /\ wire' = [wire EXCEPT ![s] = <<>>]
    <3>1. wire[s] \in Stream(Outgoing) /\ wire[s] # <<>>
      BY <1>7 DEF DeliverRequest, TypeOK
    <3>2. Tail(wire[s]) = <<>>
      BY <3>1, OneTaken
    <3>3. QED
      BY <1>7, <3>2 DEF DeliverRequest
  <2>2. \A t \in Sessions, g \in Handlers :
            /\ OnWire(t, g)' => OnWire(t, g)
            /\ InInbox(t, g)' <=> InInbox(t, g)
    BY <2>1 DEF OnWire, InInbox, TypeOK
  <2>3. OnceInFlight'
    BY <2>1, <2>2 DEF RouteInv, OnceInFlight
  <2>4. \A t \in Sessions, g \in Handlers :
            /\ InFlight(t, g)' => InFlight(t, g)
            /\ InFlight(t, g)' => InInbox(t, g)' \/ IsRequest(g)
    BY <2>1, <2>2 DEF InFlight, RouteInv, FlightInv
  <2>5. QED
    BY <2>1, <2>3, <2>4, MovedFlight
<1>8. ASSUME NEW s \in Sessions, AnswerServer(s) PROVE TravelInv'
  <2>1. UNCHANGED <<pc, kind, id, target, table, task, toServer, serving, wire, held>>
    BY <1>8 DEF AnswerServer
  <2>2. inbox' = inbox \/ inbox' = [inbox EXCEPT ![s] = <<[type |-> "refusal"]>>]
    <3>1. Room(inbox[s]) =>
              Append(inbox[s], [type |-> "refusal"]) = <<[type |-> "refusal"]>>
      BY DEF Room
    <3>2. QED
      BY <1>8, <3>1 DEF AnswerServer
  <2>3. \A t \in Sessions, g \in Handlers : InInbox(t, g)' => InInbox(t, g)
    <3>1. CASE inbox' = inbox
      BY <3>1 DEF InInbox
    <3>2. CASE inbox' = [inbox EXCEPT ![s] = <<[type |-> "refusal"]>>]
      <4>1. \A t \in Sessions :
                inbox'[t] = IF t = s THEN <<[type |-> "refusal"]>> ELSE inbox[t]
        BY <3>2 DEF TypeOK
      <4>2. <<[type |-> "refusal"]>>[1].type # "message"
        OBVIOUS
      <4>3. QED
        BY <4>1, <4>2 DEF InInbox
    <3>3. QED
      BY <2>2, <3>1, <3>2
  <2>4. OnceInFlight'
    BY <2>1, <2>3 DEF RouteInv, OnceInFlight, OnWire
  <2>5. \A t \in Sessions, g \in Handlers :
            /\ InFlight(t, g)' => InFlight(t, g)
            /\ InFlight(t, g)' => InInbox(t, g)' \/ IsRequest(g)
    BY <2>1, <2>3 DEF InFlight, OnWire, RouteInv, FlightInv, OnceInFlight
  <2>6. QED
    BY <2>1, <2>4, <2>5, MovedFlight
<1>9. ASSUME NEW s \in Sessions, ServerReads(s) PROVE TravelInv'
  <2> DEFINE m == Head(inbox[s])
  <2>0. inbox[s] \in Stream(Incoming) /\ inbox[s] # <<>>
    BY <1>9 DEF ServerReads, TypeOK
  <2>1. /\ m = inbox[s][1] /\ m \in Incoming /\ Tail(inbox[s]) = <<>>
    BY <2>0, OneTaken
  <2>2. /\ UNCHANGED <<pc, kind, id, target, table, task, toServer, serving, wire>>
        /\ inbox' = [inbox EXCEPT ![s] = <<>>]
    BY <1>9, <2>1 DEF ServerReads
  <2>3. held' = IF m.type = "message" /\ IsRequest(m.of)
                THEN [held EXCEPT ![s] = @ \cup {m.of}] ELSE held
    BY <1>9 DEF ServerReads
  <2>4. \A t \in Sessions, g \in Handlers :
            /\ g \in held'[t] /\ g \notin held[t] =>
                   t = s /\ InInbox(s, g) /\ IsRequest(g)
            /\ InInbox(t, g)' => InInbox(t, g) /\ t # s
            /\ OnWire(t, g)' <=> OnWire(t, g)
    <3>1. \A t \in Sessions : inbox'[t] = IF t = s THEN <<>> ELSE inbox[t]
      BY <2>2 DEF TypeOK
    <3>2. \A t \in Sessions, g \in Handlers : InInbox(t, g)' => InInbox(t, g) /\ t # s
      BY <3>1 DEF InInbox
    <3>3. ASSUME NEW t \in Sessions, NEW g \in held'[t], g \notin held[t]
          PROVE  t = s /\ InInbox(s, g) /\ IsRequest(g)
      <4> HIDE DEF m
      <4>1. t = s /\ m.type = "message" /\ IsRequest(m.of) /\ g = m.of
        BY <2>3, <3>3 DEF TypeOK
      <4>2. QED
        BY <1>9, <2>1, <4>1 DEF InInbox, ServerReads
    <3>4. \A t \in Sessions, g \in Handlers : OnWire(t, g)' <=> OnWire(t, g)
      BY <2>2 DEF OnWire
    <3>5. QED
      BY <3>2, <3>3, <3>4
  <2>5. OnceInFlight'
    BY <2>4 DEF RouteInv, OnceInFlight
  <2>6. \A t \in Sessions, g \in Handlers :
            /\ InFlight(t, g)' => InFlight(t, g)
            /\ InFlight(t, g)' => InInbox(t, g)' \/ IsRequest(g)
    BY <2>4 DEF InFlight, RouteInv, FlightInv, OnceInFlight
  <2>7. QED
    BY <2>2, <2>5, <2>6, MovedFlight
<1>10. ASSUME NEW s \in Sessions, ServerSettles(s) PROVE TravelInv'
  <2>1. PICK h \in held[s] : Respond(s, h) /\ held' = [held EXCEPT ![s] = @ \ {h}]
    BY <1>10 DEF ServerSettles
  <2>2. /\ UNCHANGED <<pc, kind, id, target, task, toServer, serving, inbox, wire>>
        /\ InputOpen(s)
    BY <1>10 DEF ServerSettles
  <2>3. h \in Handlers
    BY DEF TypeOK
  <2>4. \A t \in Sessions, g \in Handlers :
            /\ g \in held'[t] => g \in held[t] /\ ~(t = s /\ g = h)
            /\ OnWire(t, g)' <=> OnWire(t, g)
            /\ InInbox(t, g)' <=> InInbox(t, g)
    BY <2>1, <2>2 DEF OnWire, InInbox, TypeOK
  <2>5. InFlight(s, h) /\ IsRequest(h) /\ (Deaf(s) => table[s] = NoSlots)
    BY <2>2, <2>3 DEF InFlight, RouteInv, FlightInv, OnceInFlight, Deaf
  <2>6. OnceInFlight'
    BY <2>4 DEF RouteInv, OnceInFlight
  <2>7. \A t \in Sessions, g \in Handlers :
            InFlight(t, g)' => InFlight(t, g) /\ ~(t = s /\ g = h)
    BY <2>4 DEF InFlight, RouteInv, OnceInFlight
  <2>8. QED
    BY <2>1, <2>2, <2>3, <2>4, <2>5, <2>6, <2>7, RespondFlight
<1> USE DEF TravelInv, TypeOK, Sessions, LifeInv, BridgeInv, Replaced, Ending, Fresh,
        Finished, OutputEnded, InputOpen, Placed, TableOwn, Submitted, IsRequest,
        NoSlots, RouteInv, OnceInFlight, FlightInv, SendingInv, Registers, Deaf,
        InFlight, InInbox, OnWire
<1>11. ASSUME NEW h \in Handlers, StoppedClosed(h) PROVE TravelInv'
  BY <1>11 DEF StoppedClosed, Goes
<1>12. ASSUME NEW h \in Handlers, SubmitRefused(h) PROVE TravelInv'
  BY <1>12 DEF SubmitRefused, Goes
<1>13. ASSUME NEW h \in Handlers, SubmitDropped(h) PROVE TravelInv'
  BY <1>13 DEF SubmitDropped, Goes
<1>14. ASSUME NEW h \in Handlers, Sent(h) PROVE TravelInv'
  BY <1>14 DEF Sent, Goes, Room
<1>15. ASSUME NEW h \in Handlers, SendBroken(h) PROVE TravelInv'
  BY <1>15 DEF SendBroken, Goes
<1>16. ASSUME NEW h \in Handlers, Return(h) PROVE TravelInv'
  BY <1>16 DEF Return, Goes
<1>17. ASSUME NEW h \in Handlers, Cancelled(h) PROVE TravelInv'
  BY <1>17 DEF Cancelled, Goes, Kept, Stopped
<1>18. ASSUME NEW s \in Sessions, SessionStarts(s) PROVE TravelInv'
  BY <1>18 DEF SessionStarts
<1>19. ASSUME NEW s \in Sessions, SessionNeverRuns(s) PROVE TravelInv'
  BY <1>19 DEF SessionNeverRuns
<1>20. ASSUME NEW s \in Sessions, ReaderEnds(s) PROVE TravelInv'
  BY <1>20 DEF ReaderEnds, FailPending
<1>21. ASSUME NEW s \in Sessions, GraceEnds(s) PROVE TravelInv'
  BY <1>21 DEF GraceEnds
<1>22. ASSUME NEW s \in Sessions, SessionEnds(s) PROVE TravelInv'
  BY <1>22 DEF SessionEnds, FailPending
<1>23. ASSUME NEW s \in Sessions, CloseBegins(s) PROVE TravelInv'
  BY <1>23 DEF CloseBegins, Cancellable, Ready
<1>24. ASSUME NEW s \in Sessions, CloseCancels(s) PROVE TravelInv'
  BY <1>24 DEF CloseCancels, Room
<1>25. ASSUME NEW s \in Sessions, CloseStops(s) PROVE TravelInv'
  BY <1>25 DEF CloseStops
<1>26. ASSUME NEW s \in Sessions, CloseJoined(s) PROVE TravelInv'
  BY <1>26 DEF CloseJoined
<1>27. ASSUME NEW s \in Sessions, CloseGivesUp(s) PROVE TravelInv'
  BY <1>27 DEF CloseGivesUp, FailPending
<1>28. ASSUME NEW s \in Sessions, ServerAnswers(s) PROVE TravelInv'
  BY <1>28 DEF ServerAnswers, Room
<1>29. ASSUME NEW s \in Sessions, ServerAsks(s) PROVE TravelInv'
  BY <1>29 DEF ServerAsks, Room
<1>30. ASSUME NEW s \in Sessions, ServerShuts(s) PROVE TravelInv'
  BY <1>30 DEF ServerShuts
<1>31. ASSUME NEW s \in Sessions, ServerReturns(s) PROVE TravelInv'
  BY <1>31 DEF ServerReturns
<1>32. ASSUME NEW s \in Sessions, ServerRaises(s) PROVE TravelInv'
  BY <1>32 DEF ServerRaises
<1>33. ASSUME BridgeClose PROVE TravelInv'
  BY <1>33 DEF BridgeClose, Shut
<1>34. ASSUME BridgeClosed PROVE TravelInv'
  BY <1>34 DEF BridgeClosed
<1>35. ASSUME UNCHANGED vars PROVE TravelInv'
  BY <1>35 DEF vars
<1> HIDE DEF TravelInv, TypeOK, Sessions, LifeInv, BridgeInv, Replaced, Ending, Fresh,
        Finished, OutputEnded, InputOpen, Placed, TableOwn, Submitted, IsRequest,
        NoSlots, RouteInv, OnceInFlight, FlightInv, SendingInv, Registers, Deaf,
        InFlight, InInbox, OnWire
<1>36. QED
  BY <1>1, <1>2, <1>3, <1>4, <1>5, <1>6, <1>7, <1>8, <1>9, <1>10, <1>11,
     <1>12, <1>13, <1>14, <1>15, <1>16, <1>17, <1>18, <1>19, <1>20, <1>21,
     <1>22, <1>23, <1>24, <1>25, <1>26, <1>27, <1>28, <1>29, <1>30, <1>31,
     <1>32, <1>33, <1>34, <1>35
  DEF Next, HandlerStep, SessionStep, ServerStep

\* A response on its way reaches the slot of its own request, or none.
LEMMA RespondOwn ==
    ASSUME TypeOK, RouteInv, NEW s \in Sessions, NEW h \in Handlers,
           InFlight(s, h), IsRequest(h), Respond(s, h), Deaf(s) => table[s] = NoSlots
    PROVE  /\ \A g \in Handlers \ {h} : outcome'[g] = outcome[g]
           /\ outcome'[h] \in {h, outcome[h]}
           /\ \A t \in Sessions, i \in Ids :
                  table'[t][i] # table[t][i] => table[t][i] = h /\ outcome'[h] = h
<1>1. id[h] \in Ids /\ (table[s][id[h]] = h \/ Deaf(s))
  BY DEF RouteInv, FlightInv, Registers
<1>2. table[s][id[h]] \in {h, None}
  BY <1>1 DEF NoSlots
<1>3. /\ \A t \in Sessions, i \in Ids :
             table'[t][i] = IF t = s /\ i = id[h] THEN None ELSE table[t][i]
      /\ \A g \in Handlers :
             outcome'[g] = IF table[s][id[h]] = g THEN h ELSE outcome[g]
  BY <1>1, RespondFacts
<1>4. None \notin Handlers
  BY BridgeAssumption
<1>5. QED
  BY <1>2, <1>3, <1>4

\* What fails the slots of a session leaves those of the others alone.
LEMMA FailAwait ==
    ASSUME TypeOK, RouteInv, NEW s \in Sessions, FailPending(s),
           UNCHANGED <<pc, kind, id, target>>,
           \A t \in Sessions \ {s} : task'[t] = task[t] /\ closing'[t] = closing[t]
    PROVE  (Awaited /\ NoneStranded)'
<1>1. ASSUME NEW h \in Handlers, pc[h] \in {"sending", "waiting"}, IsRequest(h),
             outcome'[h] = None
      PROVE  /\ table'[target[h]][id[h]] = h
             /\ outcome[h] = None /\ target[h] \in Sessions \ {s}
  <2>1. outcome'[h] = IF \E i \in Ids : table[s][i] = h THEN "failed" ELSE outcome[h]
    BY DEF FailPending
  <2>2. outcome[h] = None /\ \A i \in Ids : table[s][i] # h
    BY <1>1, <2>1 DEF None
  <2>3. table[target[h]][id[h]] = h /\ id[h] \in Ids /\ target[h] \in 1..count
    BY <1>1, <2>2 DEF RouteInv, Awaited, Placed
  <2>4. target[h] \in Sessions \ {s}
    BY <2>2, <2>3, BridgeAssumption DEF TypeOK, Sessions
  <2>5. QED
    BY <2>2, <2>3, <2>4 DEF FailPending
<1>2. Awaited'
  BY <1>1 DEF Awaited, IsRequest
<1>3. NoneStranded'
  <2>1. \A h \in Handlers : pc[h] = "waiting" => IsRequest(h)
    BY DEF RouteInv, Placed
  <2>2. QED
    BY <1>1, <2>1 DEF RouteInv, NoneStranded, Finished, OutputEnded
<1>4. QED
  BY <1>2, <1>3

\* A response leaves those alone who still wait for theirs.
LEMMA RespondAwait ==
    ASSUME TypeOK, RouteInv, NEW s \in Sessions, NEW h \in Handlers,
           InFlight(s, h), IsRequest(h), Respond(s, h), Deaf(s) => table[s] = NoSlots,
           UNCHANGED <<pc, kind, id, target, task, closing>>
    PROVE  (Awaited /\ NoneStranded)'
<1>1. /\ \A g \in Handlers : outcome'[g] = None => outcome[g] = None
      /\ \A t \in Sessions, i \in Ids, g \in Handlers :
             outcome'[g] = None /\ table[t][i] = g => table'[t][i] = g
  BY RespondOwn, BridgeAssumption
<1>2. \A g \in Handlers :
          pc[g] \in {"sending", "waiting"} /\ IsRequest(g) =>
              id[g] \in Ids /\ target[g] \in Sessions
  BY BridgeAssumption DEF RouteInv, Placed, TypeOK, Sessions
<1>3. Awaited'
  BY <1>1, <1>2 DEF RouteInv, Awaited, IsRequest
<1>4. NoneStranded'
  BY <1>1 DEF RouteInv, NoneStranded, Finished, OutputEnded
<1>5. QED
  BY <1>3, <1>4

\* Every step leaves the waiting handlers in the table of a session that goes on.
LEMMA AwaitStep ==
    ASSUME TypeOK, LifeInv, RouteInv, [Next]_vars
    PROVE  (Awaited /\ NoneStranded)'
<1> USE BridgeAssumption, MessageKinds
<1>1. ASSUME NEW s \in Sessions, DeliverResponse(s)
      PROVE  (Awaited /\ NoneStranded)'
  <2> DEFINE h == Head(wire[s]).of
  <2>1. h \in Handlers /\ OnWire(s, h)
    BY <1>1, OneTaken, ResponseOf DEF DeliverResponse, OnWire, TypeOK
  <2>2. UNCHANGED <<pc, kind, id, target, task, closing>> /\ task[s] = "running"
    BY <1>1 DEF DeliverResponse
  <2>3. Respond(s, h)
    BY <1>1 DEF DeliverResponse
  <2> HIDE DEF h
  <2>4. InFlight(s, h) /\ IsRequest(h) /\ (Deaf(s) => table[s] = NoSlots)
    BY <2>1, <2>2 DEF InFlight, RouteInv, FlightInv, OnceInFlight, Deaf
  <2>5. QED
    BY <2>1, <2>2, <2>3, <2>4, RespondAwait
<1>2. ASSUME NEW s \in Sessions, ReaderEnds(s) PROVE (Awaited /\ NoneStranded)'
  <2>1. FailPending(s) /\ UNCHANGED <<pc, kind, id, target>>
    BY <1>2 DEF ReaderEnds
  <2>2. \A t \in Sessions \ {s} : task'[t] = task[t] /\ closing'[t] = closing[t]
    BY <1>2 DEF ReaderEnds, TypeOK
  <2>3. QED
    BY <2>1, <2>2, FailAwait
<1>3. ASSUME NEW s \in Sessions, SessionEnds(s)
      PROVE  (Awaited /\ NoneStranded)'
  <2>1. FailPending(s) /\ UNCHANGED <<pc, kind, id, target>>
    BY <1>3 DEF SessionEnds
  <2>2. \A t \in Sessions \ {s} : task'[t] = task[t] /\ closing'[t] = closing[t]
    BY <1>3 DEF SessionEnds, TypeOK
  <2>3. QED
    BY <2>1, <2>2, FailAwait
<1>4. ASSUME NEW s \in Sessions, CloseGivesUp(s)
      PROVE  (Awaited /\ NoneStranded)'
  <2>1. FailPending(s) /\ UNCHANGED <<pc, kind, id, target>>
    BY <1>4 DEF CloseGivesUp
  <2>2. \A t \in Sessions \ {s} : task'[t] = task[t] /\ closing'[t] = closing[t]
    BY <1>4 DEF CloseGivesUp, TypeOK
  <2>3. QED
    BY <2>1, <2>2, FailAwait
<1>5. ASSUME NEW s \in Sessions, ServerSettles(s)
      PROVE  (Awaited /\ NoneStranded)'
  <2>1. PICK h \in held[s] : Respond(s, h)
    BY <1>5 DEF ServerSettles
  <2>2. UNCHANGED <<pc, kind, id, target, task, closing>> /\ InputOpen(s)
    BY <1>5 DEF ServerSettles
  <2>3. h \in Handlers
    BY DEF TypeOK
  <2>4. InFlight(s, h) /\ IsRequest(h) /\ (Deaf(s) => table[s] = NoSlots)
    BY <2>2, <2>3 DEF InFlight, RouteInv, FlightInv, OnceInFlight, Deaf
  <2>5. QED
    BY <2>1, <2>2, <2>3, <2>4, RespondAwait
<1> USE DEF TypeOK, Sessions, LifeInv, Replaced, Ending, Fresh, Finished,
        OutputEnded, InputOpen, Placed, TableOwn, Submitted, IsRequest, NoSlots,
        RouteInv, Awaited, NoneStranded, Registered
<1>6. ASSUME NEW h \in Handlers, NEW m \in Messages, HandleRefused(h, m[1], m[2])
      PROVE  (Awaited /\ NoneStranded)'
  BY <1>6 DEF HandleRefused, Message, Goes
<1>7. ASSUME NEW h \in Handlers, NEW m \in Messages, HandleFirst(h, m[1], m[2])
      PROVE  (Awaited /\ NoneStranded)'
  BY <1>7 DEF HandleFirst, Message, StartSession, Goes
<1>8. ASSUME NEW h \in Handlers, NEW m \in Messages, HandleRestart(h, m[1], m[2])
      PROVE  (Awaited /\ NoneStranded)'
  BY <1>8 DEF HandleRestart, Message, StartSession, Goes, Restarts, Finished,
              OutputEnded
<1>9. ASSUME NEW h \in Handlers, NEW m \in Messages, HandleCurrent(h, m[1], m[2])
      PROVE  (Awaited /\ NoneStranded)'
  BY <1>9 DEF HandleCurrent, Message, Goes
<1>10. ASSUME NEW h \in Handlers, StoppedClosed(h)
       PROVE  (Awaited /\ NoneStranded)'
  BY <1>10 DEF StoppedClosed, Goes
<1>11. ASSUME NEW h \in Handlers, SubmitRefused(h)
       PROVE  (Awaited /\ NoneStranded)'
  BY <1>11 DEF SubmitRefused, Goes
<1>12. ASSUME NEW h \in Handlers, SubmitDropped(h)
       PROVE  (Awaited /\ NoneStranded)'
  BY <1>12 DEF SubmitDropped, Goes
<1>13. ASSUME NEW h \in Handlers, Submit(h) PROVE (Awaited /\ NoneStranded)'
  BY <1>13 DEF Submit, Goes
<1>14. ASSUME NEW h \in Handlers, Sent(h) PROVE (Awaited /\ NoneStranded)'
  BY <1>14 DEF Sent, Goes, Room
<1>15. ASSUME NEW h \in Handlers, SendBroken(h)
       PROVE  (Awaited /\ NoneStranded)'
  BY <1>15 DEF SendBroken, Goes
<1>16. ASSUME NEW h \in Handlers, Return(h) PROVE (Awaited /\ NoneStranded)'
  BY <1>16 DEF Return, Goes
<1>17. ASSUME NEW h \in Handlers, Cancelled(h) PROVE (Awaited /\ NoneStranded)'
  BY <1>17 DEF Cancelled, Goes, Kept, Stopped
<1>18. ASSUME NEW s \in Sessions, SessionStarts(s)
       PROVE  (Awaited /\ NoneStranded)'
  BY <1>18 DEF SessionStarts
<1>19. ASSUME NEW s \in Sessions, SessionNeverRuns(s)
       PROVE  (Awaited /\ NoneStranded)'
  BY <1>19 DEF SessionNeverRuns
<1>20. ASSUME NEW s \in Sessions, DeliverRequest(s)
       PROVE  (Awaited /\ NoneStranded)'
  BY <1>20 DEF DeliverRequest, Noted
<1>21. ASSUME NEW s \in Sessions, AnswerServer(s)
       PROVE  (Awaited /\ NoneStranded)'
  BY <1>21 DEF AnswerServer, Room
<1>22. ASSUME NEW s \in Sessions, GraceEnds(s) PROVE (Awaited /\ NoneStranded)'
  BY <1>22 DEF GraceEnds
<1>23. ASSUME NEW s \in Sessions, CloseBegins(s)
       PROVE  (Awaited /\ NoneStranded)'
  BY <1>23 DEF CloseBegins, Cancellable, Ready
<1>24. ASSUME NEW s \in Sessions, CloseCancels(s)
       PROVE  (Awaited /\ NoneStranded)'
  BY <1>24 DEF CloseCancels, Room
<1>25. ASSUME NEW s \in Sessions, CloseStops(s)
       PROVE  (Awaited /\ NoneStranded)'
  BY <1>25 DEF CloseStops
<1>26. ASSUME NEW s \in Sessions, CloseJoined(s)
       PROVE  (Awaited /\ NoneStranded)'
  BY <1>26 DEF CloseJoined
<1>27. ASSUME NEW s \in Sessions, ServerReads(s)
       PROVE  (Awaited /\ NoneStranded)'
  BY <1>27 DEF ServerReads
<1>28. ASSUME NEW s \in Sessions, ServerAnswers(s)
       PROVE  (Awaited /\ NoneStranded)'
  BY <1>28 DEF ServerAnswers, Room
<1>29. ASSUME NEW s \in Sessions, ServerAsks(s)
       PROVE  (Awaited /\ NoneStranded)'
  BY <1>29 DEF ServerAsks, Room
<1>30. ASSUME NEW s \in Sessions, ServerShuts(s)
       PROVE  (Awaited /\ NoneStranded)'
  BY <1>30 DEF ServerShuts
<1>31. ASSUME NEW s \in Sessions, ServerReturns(s)
       PROVE  (Awaited /\ NoneStranded)'
  BY <1>31 DEF ServerReturns
<1>32. ASSUME NEW s \in Sessions, ServerRaises(s)
       PROVE  (Awaited /\ NoneStranded)'
  BY <1>32 DEF ServerRaises
<1>33. ASSUME BridgeClose PROVE (Awaited /\ NoneStranded)'
  BY <1>33 DEF BridgeClose, Shut
<1>34. ASSUME BridgeClosed PROVE (Awaited /\ NoneStranded)'
  BY <1>34 DEF BridgeClosed
<1>35. ASSUME UNCHANGED vars PROVE (Awaited /\ NoneStranded)'
  BY <1>35 DEF vars
<1> HIDE DEF TypeOK, Sessions, LifeInv, Replaced, Ending, Fresh, Finished,
        OutputEnded, InputOpen, Placed, TableOwn, Submitted, IsRequest, NoSlots,
        RouteInv, Awaited, NoneStranded, Registered
<1>36. QED
  BY <1>1, <1>2, <1>3, <1>4, <1>5, <1>6, <1>7, <1>8, <1>9, <1>10, <1>11,
     <1>12, <1>13, <1>14, <1>15, <1>16, <1>17, <1>18, <1>19, <1>20, <1>21,
     <1>22, <1>23, <1>24, <1>25, <1>26, <1>27, <1>28, <1>29, <1>30, <1>31,
     <1>32, <1>33, <1>34, <1>35
  DEF Next, HandlerStep, SessionStep, ServerStep

\* Every step gives a handler its own response or none.
LEMMA OwnStep ==
    ASSUME TypeOK, RouteInv, [Next]_vars
    PROVE  OwnResponse'
<1> USE BridgeAssumption
<1>1. ASSUME NEW s \in Sessions, DeliverResponse(s) PROVE OwnResponse'
  <2> DEFINE h == Head(wire[s]).of
  <2>1. h \in Handlers /\ OnWire(s, h)
    BY <1>1, OneTaken, ResponseOf DEF DeliverResponse, OnWire, TypeOK
  <2>2. UNCHANGED <<pc, kind, id, target, task, closing>> /\ task[s] = "running"
    BY <1>1 DEF DeliverResponse
  <2>3. Respond(s, h)
    BY <1>1 DEF DeliverResponse
  <2> HIDE DEF h
  <2>4. InFlight(s, h) /\ IsRequest(h) /\ (Deaf(s) => table[s] = NoSlots)
    BY <2>1, <2>2 DEF InFlight, RouteInv, FlightInv, OnceInFlight, Deaf
  <2>5. QED
    BY <2>1, <2>2, <2>3, <2>4, RespondOwn, BridgeAssumption DEF RouteInv,
       OwnResponse
<1>2. ASSUME NEW s \in Sessions, ServerSettles(s) PROVE OwnResponse'
  <2>1. PICK h \in held[s] : Respond(s, h)
    BY <1>2 DEF ServerSettles
  <2>2. UNCHANGED <<pc, kind, id, target, task, closing>> /\ InputOpen(s)
    BY <1>2 DEF ServerSettles
  <2>3. h \in Handlers
    BY DEF TypeOK
  <2>4. InFlight(s, h) /\ IsRequest(h) /\ (Deaf(s) => table[s] = NoSlots)
    BY <2>2, <2>3 DEF InFlight, RouteInv, FlightInv, OnceInFlight, Deaf
  <2>5. QED
    BY <2>1, <2>2, <2>3, <2>4, RespondOwn, BridgeAssumption DEF RouteInv,
       OwnResponse
<1> USE DEF TypeOK, Sessions, RouteInv, OwnResponse
<1>3. ASSUME NEW h \in Handlers, NEW m \in Messages, HandleRefused(h, m[1], m[2])
      PROVE  OwnResponse'
  BY <1>3 DEF HandleRefused, Message, Goes
<1>4. ASSUME NEW h \in Handlers, NEW m \in Messages, HandleFirst(h, m[1], m[2])
      PROVE  OwnResponse'
  BY <1>4 DEF HandleFirst, Message, StartSession, Goes
<1>5. ASSUME NEW h \in Handlers, NEW m \in Messages, HandleRestart(h, m[1], m[2])
      PROVE  OwnResponse'
  BY <1>5 DEF HandleRestart, Message, StartSession, Goes, Restarts, Finished,
              OutputEnded
<1>6. ASSUME NEW h \in Handlers, NEW m \in Messages, HandleCurrent(h, m[1], m[2])
      PROVE  OwnResponse'
  BY <1>6 DEF HandleCurrent, Message, Goes
<1>7. ASSUME NEW h \in Handlers, StoppedClosed(h) PROVE OwnResponse'
  BY <1>7 DEF StoppedClosed, Goes
<1>8. ASSUME NEW h \in Handlers, SubmitRefused(h) PROVE OwnResponse'
  BY <1>8 DEF SubmitRefused, Goes
<1>9. ASSUME NEW h \in Handlers, SubmitDropped(h) PROVE OwnResponse'
  BY <1>9 DEF SubmitDropped, Goes
<1>10. ASSUME NEW h \in Handlers, Submit(h) PROVE OwnResponse'
  BY <1>10 DEF Submit, Goes
<1>11. ASSUME NEW h \in Handlers, Sent(h) PROVE OwnResponse'
  BY <1>11 DEF Sent, Goes, Room
<1>12. ASSUME NEW h \in Handlers, SendBroken(h) PROVE OwnResponse'
  BY <1>12 DEF SendBroken, Goes
<1>13. ASSUME NEW h \in Handlers, Return(h) PROVE OwnResponse'
  BY <1>13 DEF Return, Goes
<1>14. ASSUME NEW h \in Handlers, Cancelled(h) PROVE OwnResponse'
  BY <1>14 DEF Cancelled, Goes, Kept, Stopped
<1>15. ASSUME NEW s \in Sessions, SessionStarts(s) PROVE OwnResponse'
  BY <1>15 DEF SessionStarts
<1>16. ASSUME NEW s \in Sessions, SessionNeverRuns(s) PROVE OwnResponse'
  BY <1>16 DEF SessionNeverRuns
<1>17. ASSUME NEW s \in Sessions, DeliverRequest(s) PROVE OwnResponse'
  BY <1>17 DEF DeliverRequest, Noted
<1>18. ASSUME NEW s \in Sessions, AnswerServer(s) PROVE OwnResponse'
  BY <1>18 DEF AnswerServer, Room
<1>19. ASSUME NEW s \in Sessions, ReaderEnds(s) PROVE OwnResponse'
  BY <1>19 DEF ReaderEnds, FailPending
<1>20. ASSUME NEW s \in Sessions, GraceEnds(s) PROVE OwnResponse'
  BY <1>20 DEF GraceEnds
<1>21. ASSUME NEW s \in Sessions, SessionEnds(s) PROVE OwnResponse'
  BY <1>21 DEF SessionEnds, FailPending
<1>22. ASSUME NEW s \in Sessions, CloseBegins(s) PROVE OwnResponse'
  BY <1>22 DEF CloseBegins, Cancellable, Ready
<1>23. ASSUME NEW s \in Sessions, CloseCancels(s) PROVE OwnResponse'
  BY <1>23 DEF CloseCancels, Room
<1>24. ASSUME NEW s \in Sessions, CloseStops(s) PROVE OwnResponse'
  BY <1>24 DEF CloseStops
<1>25. ASSUME NEW s \in Sessions, CloseJoined(s) PROVE OwnResponse'
  BY <1>25 DEF CloseJoined
<1>26. ASSUME NEW s \in Sessions, CloseGivesUp(s) PROVE OwnResponse'
  BY <1>26 DEF CloseGivesUp, FailPending
<1>27. ASSUME NEW s \in Sessions, ServerReads(s) PROVE OwnResponse'
  BY <1>27 DEF ServerReads
<1>28. ASSUME NEW s \in Sessions, ServerAnswers(s) PROVE OwnResponse'
  BY <1>28 DEF ServerAnswers, Room
<1>29. ASSUME NEW s \in Sessions, ServerAsks(s) PROVE OwnResponse'
  BY <1>29 DEF ServerAsks, Room
<1>30. ASSUME NEW s \in Sessions, ServerShuts(s) PROVE OwnResponse'
  BY <1>30 DEF ServerShuts
<1>31. ASSUME NEW s \in Sessions, ServerReturns(s) PROVE OwnResponse'
  BY <1>31 DEF ServerReturns
<1>32. ASSUME NEW s \in Sessions, ServerRaises(s) PROVE OwnResponse'
  BY <1>32 DEF ServerRaises
<1>33. ASSUME BridgeClose PROVE OwnResponse'
  BY <1>33 DEF BridgeClose, Shut
<1>34. ASSUME BridgeClosed PROVE OwnResponse'
  BY <1>34 DEF BridgeClosed
<1>35. ASSUME UNCHANGED vars PROVE OwnResponse'
  BY <1>35 DEF vars
<1> HIDE DEF TypeOK, Sessions, RouteInv, OwnResponse
<1>36. QED
  BY <1>1, <1>2, <1>3, <1>4, <1>5, <1>6, <1>7, <1>8, <1>9, <1>10, <1>11,
     <1>12, <1>13, <1>14, <1>15, <1>16, <1>17, <1>18, <1>19, <1>20, <1>21,
     <1>22, <1>23, <1>24, <1>25, <1>26, <1>27, <1>28, <1>29, <1>30, <1>31,
     <1>32, <1>33, <1>34, <1>35
  DEF Next, HandlerStep, SessionStep, ServerStep

\* The invariant holds before the first message.
LEMMA InitInv == Init => IInv
<1> SUFFICES ASSUME Init PROVE IInv
  OBVIOUS
<1>1. TypeOK
  <2>1. <<>> \in Stream(Incoming) /\ <<>> \in Stream(Outgoing)
    BY DEF Stream
  <2>2. /\ inbox \in [Sessions -> Stream(Incoming)]
        /\ wire \in [Sessions -> Stream(Outgoing)]
    BY <2>1 DEF Init
  <2>3. NoSlots \in [Ids -> Handlers \cup {None}]
    BY DEF NoSlots
  <2>4. table \in [Sessions -> [Ids -> Handlers \cup {None}]]
    BY <2>3 DEF Init
  <2>5. /\ closed \in BOOLEAN /\ count \in 0..MaxSessions /\ bridge \in {0, count}
        /\ bpc \in {"idle", "closing", "done"} /\ canCancel \in BOOLEAN
        /\ target \in [Handlers -> 0..count]
    <3>1. canCancel \in BOOLEAN
      BY BridgeAssumption, Zenon DEF Init
    <3>2. /\ closed = FALSE /\ count = 0 /\ bridge = 0 /\ bpc = "idle"
          /\ target = [h \in Handlers |-> 0]
      BY DEF Init
    <3>3. count \in 0..MaxSessions
      BY <3>2, BridgeAssumption
    <3>4. target \in [Handlers -> 0..count]
      BY <3>2
    <3>5. QED
      BY <3>1, <3>2, <3>3, <3>4, Zenon
  <2>6. /\ held \in [Sessions -> SUBSET Handlers]
        /\ asked \in [Sessions -> SUBSET Handlers]
    BY DEF Init
  <2>7. /\ pc \in [Handlers -> {"idle", "stopping", "submitting", "sending", "waiting",
                               "replied", "refused", "cancelled"}]
        /\ kind \in [Handlers -> {None, "initialize", "request", "note"}]
        /\ id \in [Handlers -> Ids \cup {None}]
        /\ outcome \in [Handlers -> Handlers \cup {None, "failed"}]
    BY DEF Init
  <2>8. /\ task \in [Sessions -> {"none", "new", "running", "grace", "unwinding",
                                 "aborting", "done"}]
        /\ toServer \in [Sessions -> {"unset", "open", "closed"}]
        /\ closing \in [Sessions -> {"no", "asked", "stopping", "joining", "closed",
                                    "abandoned"}]
        /\ serving \in [Sessions -> {"no", "reading", "shut", "returned", "raised"}]
        /\ caller \in [Sessions -> {"none", "asking", "answering", "answered", "served",
                                   "over"}]
    BY DEF Init
  <2>9. QED
    BY <2>2, <2>4, <2>5, <2>6, <2>7, <2>8 DEF TypeOK
<1>2. LifeInv
  BY BridgeAssumption DEF Init, Sessions, LifeInv, BridgeInv, Replaced, Ending, Fresh,
      Finished, OutputEnded
<1>3. Placed /\ Awaited /\ OwnResponse /\ NoneStranded
  BY BridgeAssumption DEF Init, Placed, Awaited, OwnResponse, NoneStranded
<1>4. TableOwn
  BY DEF Init, TableOwn, NoSlots
<1>5. TravelInv
  BY DEF Init, TravelInv, OnceInFlight, FlightInv, SendingInv, InFlight, InInbox,
      OnWire
<1>6. QED
  BY <1>1, <1>2, <1>3, <1>4, <1>5 DEF IInv, RouteInv, TravelInv

\* Every step of the bridge keeps the invariant.
LEMMA StepInv == IInv /\ [Next]_vars => IInv'
<1> SUFFICES ASSUME TypeOK, LifeInv, RouteInv, [Next]_vars PROVE IInv'
  BY DEF IInv
<1>1. TypeOK'
  BY TypeStep
<1>2. LifeInv'
  BY BridgeStep, EndingStep DEF LifeInv
<1>3. Placed /\ TableOwn
  BY DEF RouteInv
<1>4. Placed' /\ TableOwn'
  BY <1>3, PlacedStep, TableStep
<1>5. TravelInv'
  BY FlightStep
<1>6. Awaited' /\ NoneStranded' /\ OwnResponse'
  BY AwaitStep, OwnStep
<1>7. QED
  BY <1>1, <1>2, <1>4, <1>5, <1>6 DEF IInv, RouteInv, TravelInv

\* The bridge, its sessions and the requests on their way agree at all times.
THEOREM Inductive == Spec => []IInv
  BY InitInv, StepInv, PTL DEF Spec

\* Every variable of the bridge keeps its type.
THEOREM TypeCorrect == Spec => []TypeOK
<1>1. IInv => TypeOK
  BY DEF IInv
<1>2. QED
  BY <1>1, Inductive, PTL

\* Whatever ids are reused, waiters cancelled and answers late: a handler
\* never gets the response to the request of another.
THEOREM ResponsesAreOwn == Spec => []OwnResponse
<1>1. IInv => OwnResponse
  BY DEF IInv, RouteInv
<1>2. QED
  BY <1>1, Inductive, PTL

\* No handler waits on an empty slot of a session whose output is over, or
\* which aclose() has given up.
THEOREM NobodyIsStranded == Spec => []NoneStranded
<1>1. IInv => NoneStranded
  BY DEF IInv, RouteInv
<1>2. QED
  BY <1>1, Inductive, PTL

\* A server reads only in the session of the last handshake, and every session
\* of a closed bridge was closed or is over.
THEOREM ServersAreStopped == Spec => []NoStrayServer
<1>1. ASSUME IInv PROVE ClosedForGood /\ OneServerReads
  <2>1. 1..count \subseteq Sessions
    BY <1>1, BridgeAssumption DEF IInv, TypeOK, Sessions
  <2>2. ClosedForGood
    BY <1>1, <2>1 DEF IInv, LifeInv, Replaced, ClosedForGood
  <2>3. OneServerReads
    BY <1>1, <2>1 DEF IInv, LifeInv, Replaced, Ending, OneServerReads
  <2>4. QED
    BY <2>2, <2>3
<1>2. QED
  BY <1>1, Inductive, PTL DEF NoStrayServer
=============================================================================
