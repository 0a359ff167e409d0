---------------------------- MODULE ClientSession ----------------------------
(***************************************************************************)
(* One client, its connections, and what they hold outside of the program: *)
(* the CLI process and the temporary CLAUDE_CONFIG_DIR, with a copy of the *)
(* credentials, that a resume from a SessionStore materializes.            *)
(*                                                                         *)
(* The client is a ClaudeSDKClient (connect(), receive_messages(),         *)
(* receive_response(), disconnect()) or a query(), whose generator         *)
(* InternalClient.process_query() is iterated and closed; kind says which. *)
(* Tasks share a ClaudeSDKClient: it may be connected again while it is    *)
(* connected or being disconnected, and two may disconnect it at once.     *)
(* What connect() makes is a connection, and the attributes of the client  *)
(* hold the number of the connection their value came from.                *)
(*                                                                         *)
(* An action is what a task does between two awaits, and every await may   *)
(* be cancelled: by an anyio scope, whose cancellation stays until the     *)
(* task has left the scope and is held off by a shield, or by a raw        *)
(* asyncio cancellation, which comes once and is not.  Query.close() is    *)
(* one step here; modules Query and SubprocessTransport have it in detail, *)
(* module Resume has the loading.                                          *)
(***************************************************************************)
EXTENDS MessageParser, Integers

CONSTANTS
    Tasks,       \* tasks of the program that may use the client
    Setups,      \* what may happen: faults, tasks, kinds, connects, streams
    Streams,     \* by name: what a CLI may send, a set of sequences of messages
    Retries,     \* retries of _rmtree_with_retry()
    MaxConnects  \* bound: calls of connect() or query()

AllFaults == {"load", "hang", "write", "subkeys", "spawn", "setup", "initialize",
              "locked", "denied", "cancel", "raw_cancel"}
\* A query() is a generator, which one task iterates.
ASSUME SessionAssumption ==
    /\ Retries \in Nat \ {0} /\ MaxConnects \in Nat
    /\ \A s \in Setups :
        /\ s.faults \subseteq AllFaults /\ s.tasks \subseteq Tasks
        /\ s.kinds \subseteq {"client", "query"} /\ s.connects \in 0..MaxConnects
        /\ s.streams \in DOMAIN Streams
        /\ "query" \in s.kinds => \E t \in Tasks : s.tasks = {t}
    /\ \A n \in DOMAIN Streams : \A s \in Streams[n] :
          s \in Seq({s[k] : k \in DOMAIN s})

None == 0
Connections == 1..MaxConnects

VARIABLES
    setup,     \* the member of Setups this behaviour is of
    kind,      \* client or query
    client,    \* _query, _transport and _materialized of the client
    task,      \* the call each task is in: where, at which connection
    conn,      \* the connections
    connects,  \* how many there are
    store,     \* the load under way: the store answers it, or hangs
    answer,    \* history: the last receive_response() that came to its end
    ended      \* history: connections that raised, or were disconnected

sessionVars == <<setup, kind, client, task, conn, connects, store, answer, ended>>

NoConnection ==
    [dir |-> "none", process |-> "none", files |-> "free", wired |-> FALSE, sent |-> <<>>,
     taken |-> 0, open |-> TRUE, abandoned |-> FALSE, cut |-> {}]

NoCall ==
    [pc |-> "idle", at |-> None, of |-> None, tries |-> 0, from |-> 0, given |-> <<>>,
     mode |-> "messages", cancelled |-> FALSE]

NoAnswer == [conn |-> None, from |-> 0, to |-> 0, given |-> <<>>]

Init ==
    /\ setup \in Setups /\ kind \in setup.kinds
    /\ client = [query |-> None, transport |-> None, materialized |-> None]
    /\ task = [t \in setup.tasks |-> NoCall]
    /\ conn = [i \in Connections |-> NoConnection]
    /\ connects = 0 /\ store = "answers" /\ answer = NoAnswer /\ ended = {}

-----------------------------------------------------------------------------
Moves(t, pc) == task' = [task EXCEPT ![t].pc = pc]

\* The end of a call: the scope that was cancelled is left with it.
Ends(t) ==
    /\ task' = [task EXCEPT ![t] = NoCall]
    /\ ended' = ended \cup ({task[t].of} \ {None})

Removing(t, i, next) ==
    task' = [task EXCEPT ![t] = [@ EXCEPT !.pc = next, !.at = i, !.tries = Retries]]

\* c with a reason why the connections in S need not be closed in order.
Cut(c, S, why) ==
    [i \in Connections |-> IF i \in S THEN [c[i] EXCEPT !.cut = @ \cup {why}] ELSE c[i]]

ConnectingOthers(t) ==
    {task[u].at : u \in {u \in setup.tasks \ {t} : task[u].pc = "connecting"}}

\* The second half of disconnect(): the transport is forgotten, then the
\* directory is removed, of whichever connection it is by now.
Release(t, q, c) ==
    LET m == client.materialized
        taken == ConnectingOthers(t) \cup ({m} \ {None, q, task[t].of})
    IN  /\ client' = [client EXCEPT !.query = None, !.transport = None]
        /\ conn' = Cut(c, taken, "taken")
        /\ IF m = None THEN Ends(t)
           ELSE Removing(t, m, "cleaning") /\ UNCHANGED ended

\* disconnect(), or the finally clauses of the two generators.
Closing(t, c) ==
    /\ task' = [task EXCEPT ![t] = [@ EXCEPT !.pc = "closing", !.at = client.query]]
    /\ conn' = c /\ UNCHANGED <<client, ended>>

\* Mutant of Unwind: the directory goes first.
UnwindDirFirst(t, c) ==
    IF client.materialized # None
    THEN Removing(t, client.materialized, "cleaning") /\ conn' = c
         /\ UNCHANGED <<client, ended>>
    ELSE IF client.query # None THEN Closing(t, c)
    ELSE Release(t, None, c)

Unwind(t, c) ==
    IF client.query # None THEN Closing(t, c)
    ELSE Release(t, None, c)

\* An exception in connect(), or in the generator, leads to its clean-up.
Raises(t, c) == Unwind(t, c)

\* What may end an await: its own fault, or a cancellation.
Fails(t, fault) == {fault, "raw_cancel"} \cap setup.faults # {} \/ task[t].cancelled

StoreCalled ==
    store' \in {"answers"} \cup (IF "hang" \in setup.faults THEN {"hangs"} ELSE {})

\* Mutant of TimesOut: nothing bounds a call of the store.
NeverTimesOut == FALSE
TimesOut == store = "hangs"

-----------------------------------------------------------------------------
\* connect() and query(): materialize_resume_session()

ConnectPcs == {"loading", "subkeys", "discarding", "connecting", "initializing"}

\* _materialized and _transport are assigned; the ones before are forgotten,
\* unless a task is just removing that directory.
Assigns(t, i, on) ==
    LET old == {j \in {client.materialized} \ {None} :
                    /\ conn[j].dir = "present"
                    /\ \A u \in setup.tasks : task[u].pc = "cleaning" => task[u].at # j}
    IN  /\ client' = [client EXCEPT !.materialized = IF on THEN i ELSE None,
                                    !.transport = i]
        /\ conn' = Cut(conn, old, "replaced")
        /\ task' = [task EXCEPT ![t] = [@ EXCEPT !.pc = "connecting", !.at = i, !.of = i]]

\* Without a store, or with nothing to resume, there is nothing to load.
\* One task connects at a time.
Connect(t) ==
    /\ task[t].pc = "idle" /\ connects < setup.connects
    /\ \A u \in setup.tasks : task[u].pc \notin ConnectPcs
    /\ \/ /\ task' = [task EXCEPT ![t] = [@ EXCEPT !.pc = "loading", !.at = connects + 1,
                                                  !.of = connects + 1]]
          /\ StoreCalled /\ UNCHANGED <<client, conn>>
       \/ Assigns(t, connects + 1, FALSE) /\ UNCHANGED store
    /\ connects' = connects + 1
    /\ UNCHANGED <<setup, kind, answer, ended>>

\* The store has no entries of the session.
LoadsNothing(t) ==
    /\ task[t].pc = "loading" /\ store = "answers"
    /\ Assigns(t, task[t].at, FALSE)
    /\ UNCHANGED <<setup, kind, connects, store, answer, ended>>

\* mkdtemp(), the transcript and the credentials are written without an
\* await; a scanner may look at the fresh files.
Made(i, files) == [conn EXCEPT ![i] = [@ EXCEPT !.dir = "present", !.files = files]]
Loads(t) ==
    LET i == task[t].at IN
    /\ task[t].pc = "loading" /\ store = "answers"
    /\ \E files \in {"free"} \cup (setup.faults \cap {"locked", "denied"}) :
          conn' = Made(i, files)
    /\ \/ Moves(t, "subkeys") /\ StoreCalled
       \/ "write" \in setup.faults /\ Removing(t, i, "discarding") /\ UNCHANGED store
    /\ UNCHANGED <<setup, kind, client, connects, answer, ended>>

\* A store call raised, timed out, or the caller was cancelled.
LoadFails(t) ==
    /\ task[t].pc = "loading" /\ (Fails(t, "load") \/ TimesOut)
    /\ Ends(t)
    /\ UNCHANGED <<setup, kind, client, conn, connects, store, answer>>

\* Also of a store that cannot list subkeys.
SubkeysLoaded(t) ==
    /\ task[t].pc = "subkeys" /\ store = "answers"
    /\ Assigns(t, task[t].at, TRUE)
    /\ UNCHANGED <<setup, kind, connects, store, answer, ended>>

\* Mutant of Discard: the exception leaves the directory behind.
DiscardNothing(t) == Ends(t)
Discard(t) == Removing(t, task[t].at, "discarding") /\ UNCHANGED ended

SubkeysFail(t) ==
    /\ task[t].pc = "subkeys" /\ (Fails(t, "subkeys") \/ TimesOut)
    /\ Discard(t)
    /\ UNCHANGED <<setup, kind, client, conn, connects, store, answer>>

-----------------------------------------------------------------------------
\* _rmtree_with_retry(), when materializing has failed and at the end

Spent(t) == task[t].tries = 0

\* Where the call goes on when the removal is over, or was interrupted: the
\* client forgets whichever directory it knows of by now.
Removed(t, dir, interrupted) ==
    LET i == task[t].at
        c == [conn EXCEPT ![i].dir = dir]
        forgets == task[t].pc = "cleaning" /\ ~(interrupted /\ kind = "client")
        taken == IF forgets THEN {client.materialized} \ {None, i} ELSE {}
    IN  /\ conn' = Cut(c, taken, "taken")
        /\ client' = IF forgets THEN [client EXCEPT !.materialized = None] ELSE client
        /\ Ends(t)

InRemoval(t) == task[t].pc \in {"discarding", "cleaning"}
Held(i) == conn[i].dir \in {"present", "left"}

\* The directory is removed, or has been before.
Removes(t) ==
    /\ InRemoval(t) /\ ~Spent(t)
    /\ conn[task[t].at].files = "free" \/ ~Held(task[t].at)
    /\ Removed(t, "removed", FALSE)
    /\ UNCHANGED <<setup, kind, connects, store, answer>>

\* rmtree() met a file that is held: wait and try again.
RemoveBlocked(t) ==
    /\ InRemoval(t) /\ ~Spent(t)
    /\ conn[task[t].at].files = "locked" /\ Held(task[t].at)
    /\ task' = [task EXCEPT ![t].tries = @ - 1]
    /\ UNCHANGED <<setup, kind, client, conn, connects, store, answer, ended>>

\* No attempt is left, the error is of another kind, or the wait was
\* interrupted: one last sweep that ignores what it cannot remove.
Sweep(t) ==
    LET files == conn[task[t].at].files
        held == Held(task[t].at)
    IN
    /\ InRemoval(t)
    /\ \E interrupted \in BOOLEAN :
          /\ IF interrupted
             THEN /\ task[t].tries < Retries
                  /\ task[t].cancelled \/ "raw_cancel" \in setup.faults
             ELSE Spent(t) \/ (files = "denied" /\ held)
          /\ Removed(t, IF held /\ files # "free" THEN "left" ELSE "removed", interrupted)
    /\ UNCHANGED <<setup, kind, connects, store, answer>>

\* The scanner lets go of the files.
FilesFreed(i) ==
    /\ conn[i].files = "locked"
    /\ conn' = [conn EXCEPT ![i].files = "free"]
    /\ UNCHANGED <<setup, kind, client, task, connects, store, answer, ended>>

-----------------------------------------------------------------------------
\* _connect_inner(), and the first half of the inner generator

\* The CLI that the connection has from now on, and what it will send.
Spawned(i, sent) ==
    [conn EXCEPT ![i] = [@ EXCEPT !.process = "alive", !.sent = sent,
                                  !.wired = client.transport # None]]

SpawnFails(t) ==
    /\ task[t].pc = "connecting" /\ Fails(t, "spawn")
    /\ Raises(t, conn)
    /\ UNCHANGED <<setup, kind, connects, store, answer>>

\* The Query is made, of _transport as it is by now, and replaces the one
\* there may be; nothing is awaited.
Spawns(t) ==
    LET i == task[t].at
        old == {j \in {client.query} \ {None} :
                    \A u \in setup.tasks : task[u].pc = "closing" => task[u].at # j}
    IN  /\ task[t].pc = "connecting"
        /\ \E sent \in Streams[setup.streams] :
              conn' = Cut(Spawned(i, sent), old, "replaced")
        /\ client' = [client EXCEPT !.query = i]
        /\ Moves(t, "initializing")
        /\ UNCHANGED <<setup, kind, connects, store, answer, ended>>

\* An option that does not convert: the transport is known to nobody yet.
SetUpFails(t) ==
    /\ task[t].pc = "connecting" /\ "setup" \in setup.faults
    /\ Raises(t, Cut(Spawned(task[t].at, <<>>), {task[t].at}, "setup"))
    /\ UNCHANGED <<setup, kind, connects, store, answer>>

BeingClosed(i) == \E u \in setup.tasks : task[u].pc = "closing" /\ task[u].at = i

Initialized(t) ==
    LET i == task[t].at IN
    /\ task[t].pc = "initializing" /\ conn[i].process = "alive" /\ conn[i].wired
    /\ IF kind = "query" THEN Moves(t, "iterating")
       ELSE task' = [task EXCEPT ![t] = NoCall]
    /\ UNCHANGED <<setup, kind, client, conn, connects, store, answer, ended>>

CannotInitialize(t) ==
    LET i == task[t].at IN
    /\ task[t].pc = "initializing"
    /\ conn[i].process = "exited" \/ ~conn[i].wired \/ BeingClosed(i)

InitializeFails(t) ==
    /\ task[t].pc = "initializing" /\ (Fails(t, "initialize") \/ CannotInitialize(t))
    /\ Raises(t, conn)
    /\ UNCHANGED <<setup, kind, connects, store, answer>>

-----------------------------------------------------------------------------
\* disconnect(), and the end of a generator

\* The caller disconnects, leaves the context or closes the generator; also
\* again, after a disconnect() that did not get to its end, and also while
\* another task does.
Disconnect(t) ==
    LET of == IF client.query # None THEN client.query ELSE client.materialized
        started == [task[t] EXCEPT !.of = of]
    IN  /\ task[t].pc = IF kind = "client" THEN "idle" ELSE "iterating"
        /\ IF client.query # None
           THEN /\ task' = [task EXCEPT ![t] = [started EXCEPT !.pc = "closing", !.at = of]]
                /\ UNCHANGED <<client, conn>>
           ELSE LET taken == ConnectingOthers(t) IN
                /\ client' = [client EXCEPT !.transport = None]
                /\ conn' = Cut(conn, taken, "taken")
                /\ task' = [task EXCEPT ![t] =
                      IF of = None THEN started
                      ELSE [started EXCEPT !.pc = "cleaning", !.at = of, !.tries = Retries]]
        /\ UNCHANGED <<setup, kind, connects, store, answer, ended>>

\* Mutant of ForgetQuery: the client forgets its Query whatever comes of it.
ForgetFirst == TRUE
ForgetQuery == kind = "query"

\* The process ends, and with it what it had not sent yet.
Exited(i, c) ==
    {[c EXCEPT ![i] = [@ EXCEPT !.process = "exited", !.sent = SubSeq(c[i].sent, 1, n)]] :
        n \in IF conn[i].process = "exited" THEN {Len(conn[i].sent)}
              ELSE conn[i].taken..Len(conn[i].sent)}

\* Query.close() is shielded and ends the process; then the stream is closed
\* of the Query that _query is by now, which may be another.
QueryCloses(t) ==
    LET q == task[t].at
        now == client.query
    IN  /\ task[t].pc = "closing" /\ conn[q].wired /\ now # None
        /\ \E c \in Exited(q, [conn EXCEPT ![now].open = FALSE]) :
              Release(t, q, IF now = q THEN c ELSE Cut(c, {now}, "taken"))
        /\ UNCHANGED <<setup, kind, connects, store, answer>>

\* _query, or the process in the transport, is None since another task was
\* faster; or the Query was made without a transport.
CloseBreaks(t) ==
    LET q == task[t].at IN
    /\ task[t].pc = "closing"
    /\ IF conn[q].wired THEN client.query # q /\ conn' \in Exited(q, conn)
       ELSE conn' = Cut(conn, {q, task[t].of}, "taken")
    /\ Ends(t)
    /\ UNCHANGED <<setup, kind, client, connects, store, answer>>

\* A raw cancellation inside of the shield: disconnect() stops there, the
\* generator still runs its outer finally clause.
CloseAborted(t) ==
    LET m == client.materialized IN
    /\ task[t].pc = "closing" /\ "raw_cancel" \in setup.faults
    /\ conn' = Cut(conn, {task[t].at, task[t].of}, "raw_cancel")
    /\ client' = IF ForgetQuery THEN [client EXCEPT !.query = None] ELSE client
    /\ IF kind = "query" /\ m # None
       THEN Removing(t, m, "cleaning") /\ UNCHANGED ended
       ELSE Ends(t)
    /\ UNCHANGED <<setup, kind, connects, store, answer>>

-----------------------------------------------------------------------------
\* receive_messages(), receive_response(), and the loop of a query()

\* One task iterates at a time; a receive_response() gives out a result last.
Receive(t) ==
    /\ task[t].pc = "idle" /\ kind = "client" /\ client.query # None
    /\ \A u \in setup.tasks : task[u].pc # "iterating"
    /\ conn[client.query].taken < Len(conn[client.query].sent)
    /\ \E mode \in {"messages", "response"} :
          task' = [task EXCEPT ![t] =
             [@ EXCEPT !.pc = "iterating", !.at = client.query,
                       !.from = conn[client.query].taken + 1, !.mode = mode]]
    /\ UNCHANGED <<setup, kind, client, conn, connects, store, answer, ended>>

Next1(i) == conn[i].sent[conn[i].taken + 1]

\* Mutant of Completes: the answer of the model ends a response.
CompletesEarly(t) ==
    /\ task[t].pc = "iterating" /\ task[t].given # <<>>
    /\ conn[task[t].at].sent[Last(task[t].given)].type \in {"assistant", "result"}
Completes(t) ==
    /\ task[t].pc = "iterating" /\ task[t].given # <<>>
    /\ IsResult(conn[task[t].at].sent[Last(task[t].given)])

CanTake(t) ==
    /\ task[t].pc = "iterating" /\ conn[task[t].at].open /\ ~Completes(t)
    /\ conn[task[t].at].taken < Len(conn[task[t].at].sent)

\* A message that is refused ends the iteration, and is gone.
TakesRefused(t) ==
    LET i == task[t].at
        c == [conn EXCEPT ![i] = [@ EXCEPT !.taken = conn[i].taken + 1, !.abandoned = TRUE]]
    IN  /\ CanTake(t) /\ Refused(Next1(i))
        /\ IF kind = "query" THEN Raises(t, c)
           ELSE conn' = c /\ Ends(t) /\ UNCHANGED client
        /\ UNCHANGED <<setup, kind, connects, store, answer>>

\* Mutant of Gives: what the SDK does not know is given out as well.
GivesAll(m) == TRUE
Gives(m) == Parsed(m)

Takes(t) ==
    LET i == task[t].at
        m == Next1(i)
    IN  /\ CanTake(t) /\ ~Refused(m)
        /\ conn' = [conn EXCEPT ![i].taken = @ + 1]
        /\ task' = IF Gives(m) /\ task[t].mode = "response"
                   THEN [task EXCEPT ![t].given = Append(@, conn[i].taken + 1)] ELSE task
        /\ UNCHANGED <<setup, kind, client, connects, store, answer, ended>>

\* receive_response() returns; receive_messages() would go on instead.
Answered(t) ==
    LET i == task[t].at IN
    /\ Completes(t)
    /\ answer' = [conn |-> i, from |-> task[t].from, to |-> conn[i].taken,
                  given |-> task[t].given]
    /\ Ends(t)
    /\ UNCHANGED <<setup, kind, client, conn, connects, store>>

\* The stream is over, or was closed by disconnect() with what it held; or
\* the caller leaves its loop.
Leaves(t) ==
    /\ task[t].pc = "iterating" /\ kind = "client"
    /\ conn' = [conn EXCEPT ![task[t].at].abandoned = TRUE]
    /\ Ends(t)
    /\ UNCHANGED <<setup, kind, client, connects, store, answer>>

-----------------------------------------------------------------------------
\* The scope around a call is cancelled; shielded awaits go on.
Cancel(t) ==
    /\ "cancel" \in setup.faults /\ task[t].pc # "idle" /\ ~task[t].cancelled
    /\ task' = [task EXCEPT ![t].cancelled = TRUE]
    /\ UNCHANGED <<setup, kind, client, conn, connects, store, answer, ended>>

ProcessExits(i) ==
    /\ conn[i].process = "alive"
    /\ conn' \in Exited(i, conn)
    /\ UNCHANGED <<setup, kind, client, task, connects, store, answer, ended>>

\* A task's own steps, whose awaits are all bounded: a call of the store by
\* load_timeout_ms, the handshake by initialize_timeout.
Progress(t) ==
    \/ LoadsNothing(t) \/ Loads(t) \/ (TimesOut /\ LoadFails(t))
    \/ SubkeysLoaded(t) \/ (TimesOut /\ SubkeysFail(t))
    \/ Removes(t) \/ RemoveBlocked(t) \/ Sweep(t)
    \/ Spawns(t) \/ Initialized(t)
    \/ (CannotInitialize(t) /\ InitializeFails(t))
    \/ QueryCloses(t) \/ CloseBreaks(t)

Failure(t) ==
    \/ LoadFails(t) \/ SubkeysFail(t) \/ SpawnFails(t) \/ SetUpFails(t)
    \/ InitializeFails(t) \/ CloseAborted(t) \/ Cancel(t)

Iteration(t) ==
    Receive(t) \/ Takes(t) \/ TakesRefused(t) \/ Answered(t) \/ Leaves(t)

SessionNext ==
    \/ \E t \in setup.tasks :
          Progress(t) \/ Failure(t) \/ Connect(t) \/ Disconnect(t) \/ Iteration(t)
    \/ \E i \in Connections : ProcessExits(i) \/ FilesFreed(i)

Spec == Init /\ [][SessionNext]_sessionVars
FairSpec ==
    Spec /\ \A t \in Tasks : WF_sessionVars(t \in setup.tasks /\ Progress(t))

-----------------------------------------------------------------------------
AllIdle == \A t \in setup.tasks : task[t].pc \in {"idle", "iterating"}
Busy(i) == \E t \in setup.tasks : task[t].pc # "idle" /\ i \in {task[t].at, task[t].of}

(* The CLI never runs on a temporary CLAUDE_CONFIG_DIR that the SDK has      *)
(* removed, or has given up on: on every path of connect(), disconnect()    *)
(* and the two generators, and with two tasks in them, the process is       *)
(* closed first.  Three things break the order and only they do: an option  *)
(* that does not convert once the CLI runs, a raw asyncio cancellation      *)
(* inside of query(), and a disconnect() that began before or during the    *)
(* connect() and takes what that has made.                                  *)
DirOutlivesProcess ==
    \A i \in Connections :
        conn[i].dir \in {"removed", "left"} /\ conn[i].process = "alive" =>
            \/ conn[i].cut \cap {"setup", "taken"} # {}
            \/ "raw_cancel" \in conn[i].cut /\ kind = "query"

(* A connection is cut off in four ways, which cut records: its set-up      *)
(* failed once the CLI ran (SpawnedIsClosed is about that), a raw asyncio   *)
(* cancellation hit close(), a connect() on a connected client replaced it, *)
(* or another's disconnect() took it. No other one is lost sight of: while  *)
(* its process runs, _query or a call under way knows of it, and while its  *)
(* directory is there with the credentials, _materialized or a call does.   *)
NothingForgotten ==
    \A i \in Connections : conn[i].cut = {} =>
        /\ conn[i].process = "alive" => client.query = i \/ Busy(i)
        /\ conn[i].dir = "present" => client.materialized = i \/ Busy(i)

(* However a connection ended that was not cut off in one of these ways, by *)
(* an exception wherever connect() or a query() failed or was cancelled     *)
(* outside of close(), or by disconnect(), also one whose scope had been    *)
(* cancelled, or two at once, nothing of it stays when the calls are over:  *)
(* no process, no Query, no directory with credentials that was not swept.  *)
EndReleases ==
    /\ NothingForgotten
    /\ \A i \in ended : AllIdle /\ conn[i].cut = {} =>
          client.query # i /\ conn[i].process # "alive" /\ conn[i].dir # "present"

(* connect(), query() up to its first message, and disconnect() end, though *)
(* the store hangs, the files of the directory stay locked, or another task *)
(* disconnects or connects the client meanwhile.                            *)
CallsEnd ==
    \A t \in Tasks :
        t \in setup.tasks /\ task[t].pc \notin {"idle", "iterating"}
            ~> t \notin setup.tasks \/ task[t].pc \in {"idle", "iterating"}

Increasing(s) == \A j, k \in DOMAIN s : j < k => s[j] < s[k]

(* A receive_response() that came to its end gave out one whole turn: every *)
(* message the CLI sent since the last result that this version knows, in   *)
(* order, up to and including the next result.  Only an iteration that was  *)
(* left, or ended by a message that was refused, puts the responses out of  *)
(* step with the turns, on its own connection.                              *)
ResponsesWhole ==
    answer # NoAnswer =>
        LET sent == conn[answer.conn].sent
            turn == SubSeq(sent, answer.from, answer.to)
            known == {n \in answer.from..answer.to : Class(sent[n]) # "unknown"}
        IN  /\ Increasing(answer.given) /\ Range(answer.given) = known
            /\ \A n \in DOMAIN turn : IsResult(turn[n]) <=> n = Len(turn)
            /\ \/ conn[answer.conn].abandoned
               \/ answer.from = 1 \/ IsResult(sent[answer.from - 1])

\* The fields a message of the class cannot be without, by types.py; a
\* task_updated is given defaults.
FieldsOf(class) ==
    Declared[class] \ (IF class = "TaskUpdatedMessage" THEN {"task_id", "patch"} ELSE {})
Whole(m) ==
    /\ FieldsOf(Class(m)) \subseteq Has(m)
    /\ m.type \in {"user", "assistant"} /\ m.listed => \A n \in DOMAIN m.content :
          LET b == m.content[n] IN
          /\ b.type \notin {Odd, Absent}
          /\ KnownBlock(m, b) => DeclaredBlocks[BlocksOf(m)[b.type]] \subseteq b.has
    /\ m.type = "assistant" => m.listed
    /\ m.type = "result" /\ "deferred_tool_use" \in m.has
        => Declared.DeferredToolUse \subseteq m.has

(* A message is given out if and only if it has every field that its class  *)
(* in types.py declares without a default, and so has every block of it     *)
(* that the class keeps: an attribute is never missing or made up, and no   *)
(* whole message of a known type is refused.                                *)
TypedMessages ==
    \A i \in Connections : conn[i].taken < Len(conn[i].sent) =>
        LET m == Next1(i) IN
        /\ Refused(m) \/ Class(m) = "unknown" \/ Whole(m)
        /\ m.type \notin {Odd, Absent} /\ Class(m) # "unknown" /\ Whole(m) => Parsed(m)

(* The comment in connect(): if it fails after the subprocess has spawned,  *)
(* the subprocess is closed before the directory it points at is removed.   *)
SpawnedIsClosed ==
    \A i \in ended : conn[i].dir \in {"removed", "left"} => conn[i].process # "alive"
=============================================================================
