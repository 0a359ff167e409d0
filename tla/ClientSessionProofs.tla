------------------------- MODULE ClientSessionProofs -------------------------
(***************************************************************************)
(* Theorems about ClientSession: the CLI process is closed before its      *)
(* directory is removed, and when the calls on a connection are over there *)
(* is neither process nor directory, whatever tasks share the client; a    *)
(* response is a whole turn, and a message has the fields of its class.    *)
(***************************************************************************)
EXTENDS ClientSession, TLAPS

Making == {"loading", "subkeys", "discarding"}
Pcs == ConnectPcs \cup {"idle", "closing", "cleaning", "iterating"}
Reasons == {"setup", "taken", "replaced", "raw_cancel"}
MaybeConnection == {None} \cup Connections

\* The messages that any CLI may send.
Sendable == UNION {{s[n] : n \in DOMAIN s} : s \in UNION {Streams[k] : k \in DOMAIN Streams}}

TaskType ==
    [pc : Pcs, at : MaybeConnection, of : MaybeConnection, tries : 0..Retries,
     from : Nat, given : Seq(Nat), mode : {"messages", "response"}, cancelled : BOOLEAN]
ConnectionType ==
    [dir : {"none", "present", "removed", "left"},
     process : {"none", "alive", "exited"}, files : {"free", "locked", "denied"},
     wired : BOOLEAN, sent : Seq(Sendable), taken : Nat, open : BOOLEAN,
     abandoned : BOOLEAN, cut : SUBSET Reasons]
ClientType ==
    [query : MaybeConnection, transport : MaybeConnection, materialized : MaybeConnection]

VarTypes ==
    /\ setup \in Setups /\ kind \in setup.kinds
    /\ client \in ClientType
    /\ task \in [setup.tasks -> TaskType]
    /\ conn \in [Connections -> ConnectionType]
    /\ connects \in 0..MaxConnects /\ store \in {"answers", "hangs"}
    /\ answer \in [conn : MaybeConnection, from : Nat, to : Nat, given : Seq(Nat)]
    /\ ended \subseteq Connections

\* What a task is at, and of, where it is.
Places ==
    \A t \in setup.tasks :
        /\ task[t].pc # "idle" => task[t].at # None
        /\ task[t].pc \in ConnectPcs => task[t].of = task[t].at
        /\ task[t].pc \in {"closing", "cleaning"} => task[t].of # None
        /\ task[t].pc = "idle" => task[t].at = None /\ task[t].of = None
        /\ task[t].pc = "iterating" /\ kind = "client" => task[t].of = None
        /\ kind = "query" => task[t].mode = "messages" /\ task[t].given = <<>>

\* No more is taken than was sent, and nothing is sent before a process is.
Fits(c) ==
    \A i \in Connections :
        /\ c[i].taken <= Len(c[i].sent)
        /\ c[i].process = "none" => c[i].sent = <<>>

\* What there is to be known of connections that are not made yet.
Fresh ==
    /\ \A i \in Connections : i > connects => i \notin ended /\ conn[i] = NoConnection
    /\ client.query <= connects /\ client.materialized <= connects
    /\ \A t \in setup.tasks : task[t].at <= connects /\ task[t].of <= connects

TypeOK == VarTypes /\ Places /\ Fits(conn) /\ Fresh

-----------------------------------------------------------------------------
(***************************************************************************)
(* Types, and what the helpers do                                          *)
(***************************************************************************)
LEMMA Bounds ==
    /\ Retries \in Nat \ {0} /\ 0 \in 0..Retries /\ Retries \in 0..Retries
    /\ MaxConnects \in Nat /\ None = 0 /\ None \notin Connections
    /\ None \in MaybeConnection /\ Connections \subseteq MaybeConnection
    /\ \A i \in MaybeConnection \ {None} : i \in Connections
    /\ \A i \in MaybeConnection : i \in Nat
  BY SessionAssumption DEF None, Connections, MaybeConnection

LEMMA TaskFields ==
    ASSUME NEW r \in TaskType
    PROVE  /\ r.pc \in Pcs /\ r.at \in MaybeConnection /\ r.of \in MaybeConnection
           /\ r.tries \in 0..Retries /\ r.from \in Nat /\ r.given \in Seq(Nat)
           /\ r.mode \in {"messages", "response"} /\ r.cancelled \in BOOLEAN
  BY DEF TaskType

\* t is now at this await, of these connections; the other tasks are where they were.
Goes(t, pc, at, of) ==
    /\ task' \in [setup.tasks -> TaskType]
    /\ task'[t].pc = pc /\ task'[t].at = at /\ task'[t].of = of
    /\ task'[t].mode = task[t].mode \/ task'[t].mode = "messages"
    /\ task'[t].given = task[t].given \/ task'[t].given = <<>>
    /\ \A u \in setup.tasks \ {t} : task'[u] = task[u]

Typed(c) == c \in [Connections -> ConnectionType]

\* d differs from c by reasons, of which those in S have a new one.
Reasoned(c, d, S, why) ==
    /\ Typed(d)
    /\ \A i \in Connections :
          /\ d[i].dir = c[i].dir /\ d[i].process = c[i].process
          /\ d[i].sent = c[i].sent /\ d[i].taken = c[i].taken
          /\ d[i].abandoned = c[i].abandoned
          /\ d[i].files = c[i].files /\ d[i].wired = c[i].wired
          /\ d[i].cut = IF i \in S THEN c[i].cut \cup {why} ELSE c[i].cut
          /\ i \notin S => d[i] = c[i]

LEMMA CutReasons ==
    ASSUME NEW c, Typed(c), NEW S, NEW why \in Reasons
    PROVE  Reasoned(c, Cut(c, S, why), S, why)
<1>. DEFINE d == Cut(c, S, why)
<1>1. ASSUME NEW i \in Connections PROVE d[i] \in ConnectionType
  <2>1. c[i] \in ConnectionType /\ c[i].cut \cup {why} \in SUBSET Reasons
    BY <1>1 DEF Typed, ConnectionType
  <2>2. d[i] = IF i \in S THEN [c[i] EXCEPT !.cut = c[i].cut \cup {why}] ELSE c[i]
    BY <1>1 DEF Cut
  <2>. HIDE DEF d
  <2>. QED
    BY <2>1, <2>2 DEF ConnectionType
<1>2. Typed(d)
  BY <1>1 DEF Typed, Cut
<1>3. ASSUME NEW i \in Connections
      PROVE  /\ d[i].dir = c[i].dir /\ d[i].process = c[i].process
             /\ d[i].sent = c[i].sent /\ d[i].taken = c[i].taken
             /\ d[i].abandoned = c[i].abandoned
             /\ d[i].files = c[i].files /\ d[i].wired = c[i].wired
             /\ d[i].cut = IF i \in S THEN c[i].cut \cup {why} ELSE c[i].cut
             /\ i \notin S => d[i] = c[i]
  BY <1>3 DEF Typed, Cut, ConnectionType
<1>. QED
  BY <1>2, <1>3 DEF Reasoned

LEMMA EndsGoes ==
    ASSUME VarTypes, NEW t \in setup.tasks, Ends(t)
    PROVE  /\ Goes(t, "idle", None, None)
           /\ ended' = ended \cup ({task[t].of} \ {None}) /\ ended' \subseteq Connections
<1>1. task \in [setup.tasks -> TaskType]
  BY DEF VarTypes
<1>2. NoCall \in TaskType
  BY Bounds DEF TaskType, Pcs, NoCall
<1>3. task[t].of \in MaybeConnection
  BY <1>1, TaskFields
<1>4. ended' \subseteq Connections
  BY <1>3, Bounds DEF Ends, VarTypes
<1>. QED
  BY <1>1, <1>2, <1>4 DEF Goes, Ends, NoCall

LEMMA MovesGoes ==
    ASSUME VarTypes, NEW t \in setup.tasks, NEW pc \in Pcs, Moves(t, pc)
    PROVE  Goes(t, pc, task[t].at, task[t].of)
<1>1. task \in [setup.tasks -> TaskType]
  BY DEF VarTypes
<1>. QED
  BY <1>1 DEF Moves, Goes, TaskType

LEMMA RemovingGoes ==
    ASSUME VarTypes, NEW t \in setup.tasks, NEW pc \in Pcs, NEW i \in Connections,
           Removing(t, i, pc)
    PROVE  Goes(t, pc, i, task[t].of)
<1>. DEFINE r == [task[t] EXCEPT !.pc = pc, !.at = i, !.tries = Retries]
<1>1. task \in [setup.tasks -> TaskType]
  BY DEF VarTypes
<1>2. /\ r \in TaskType /\ r.pc = pc /\ r.at = i /\ r.of = task[t].of
      /\ r.mode = task[t].mode /\ r.given = task[t].given
  BY <1>1, Bounds DEF TaskType
<1>3. task' = [task EXCEPT ![t] = r]
  BY <1>1 DEF Removing, TaskType
<1>. QED
  BY <1>1, <1>2, <1>3 DEF Goes

\* What was taken of a connection is what it was.
Reads(c, d) ==
    \A i \in Connections :
        /\ d[i].taken = c[i].taken /\ d[i].abandoned = c[i].abandoned
        /\ \A n \in 1..c[i].taken : d[i].sent[n] = c[i].sent[n]

\* d differs from c in the process of i and what it sent, and keeps what was taken.
Runs(c, d, i, process) ==
    /\ Typed(d) /\ Reads(c, d) /\ \A j \in Connections \ {i} : d[j] = c[j]
    /\ d[i].process = process /\ d[i].dir = c[i].dir /\ d[i].cut = c[i].cut
    /\ d[i].taken = c[i].taken /\ d[i].taken <= Len(d[i].sent)

LEMMA SpawnedRuns ==
    ASSUME VarTypes, NEW i \in Connections, NEW sent \in Seq(Sendable),
           conn[i].taken = 0
    PROVE  Runs(conn, Spawned(i, sent), i, "alive") /\ Spawned(i, sent)[i].sent = sent
<1>. DEFINE r == [conn[i] EXCEPT !.process = "alive", !.sent = sent,
                                 !.wired = client.transport # None]
<1>1. conn \in [Connections -> ConnectionType]
  BY DEF VarTypes
<1>2. /\ r \in ConnectionType /\ r.process = "alive" /\ r.sent = sent
      /\ r.dir = conn[i].dir /\ r.cut = conn[i].cut /\ r.taken = conn[i].taken
      /\ r.abandoned = conn[i].abandoned
  <2>1. conn[i] \in ConnectionType
    BY <1>1
  <2>. QED
    BY <2>1 DEF ConnectionType
<1>3. Spawned(i, sent) = [conn EXCEPT ![i] = r]
  BY <1>1 DEF Spawned
<1>. HIDE DEF r
<1>4. Reads(conn, Spawned(i, sent))
  BY <1>1, <1>2, <1>3 DEF Reads
<1>5. Len(sent) \in Nat
  OBVIOUS
<1>. QED
  BY <1>1, <1>2, <1>3, <1>4, <1>5 DEF Runs, Typed

LEMMA StreamTyped ==
    ASSUME VarTypes, NEW sent \in Streams[setup.streams]
    PROVE  sent \in Seq(Sendable)
<1>1. setup.streams \in DOMAIN Streams
  BY SessionAssumption DEF VarTypes
<1>2. sent \in Seq({sent[k] : k \in DOMAIN sent})
  BY <1>1, SessionAssumption
<1>3. {sent[k] : k \in DOMAIN sent} \subseteq Sendable
  BY <1>1 DEF Sendable
<1>4. \A A, B : A \subseteq B => Seq(A) \subseteq Seq(B)
  OBVIOUS
<1>. QED
  BY <1>2, <1>3, <1>4

LEMMA ExitedRuns ==
    ASSUME VarTypes, Fits(conn), NEW c, Typed(c), NEW i \in Connections,
           c[i].taken = conn[i].taken, c[i].sent = conn[i].sent, NEW d \in Exited(i, c)
    PROVE  Runs(c, d, i, "exited")
<1>1. PICK n \in (conn[i].taken)..Len(conn[i].sent) :
         d = [c EXCEPT ![i] = [@ EXCEPT !.process = "exited", !.sent = SubSeq(c[i].sent, 1, n)]]
  <2>1. conn[i].sent \in Seq(Sendable) /\ conn[i].taken \in Nat
    BY DEF VarTypes, ConnectionType
  <2>2. Len(conn[i].sent) \in (conn[i].taken)..Len(conn[i].sent)
    BY <2>1 DEF Fits
  <2>. QED
    BY <2>2 DEF Exited
<1>. DEFINE sent == SubSeq(c[i].sent, 1, n)
            r == [c[i] EXCEPT !.process = "exited", !.sent = sent]
<1>2. c \in [Connections -> ConnectionType]
  BY DEF Typed
<1>3. c[i].sent \in Seq(Sendable) /\ c[i].taken \in Nat /\ n \in 0..Len(c[i].sent)
  BY <1>2 DEF ConnectionType
<1>4. sent \in Seq(Sendable) /\ Len(sent) = n /\ \A k \in 1..n : sent[k] = c[i].sent[k]
  BY <1>3
<1>. HIDE DEF sent
<1>5. /\ r \in ConnectionType /\ r.process = "exited" /\ r.sent = sent
      /\ r.dir = c[i].dir /\ r.cut = c[i].cut /\ r.taken = c[i].taken
      /\ r.abandoned = c[i].abandoned
  <2>1. c[i] \in ConnectionType
    BY <1>2
  <2>. QED
    BY <1>4, <2>1 DEF ConnectionType
<1>6. d = [c EXCEPT ![i] = r]
  BY <1>1 DEF sent
<1>. HIDE DEF r
<1>7. /\ d \in [Connections -> ConnectionType] /\ d[i] = r
      /\ \A j \in Connections \ {i} : d[j] = c[j]
  BY <1>2, <1>5, <1>6
<1>8. c[i].taken <= n
  BY <1>1, <1>3
<1>9. Reads(c, d)
  BY <1>3, <1>4, <1>5, <1>7, <1>8 DEF Reads
<1>. QED
  BY <1>4, <1>5, <1>7, <1>8, <1>9 DEF Runs, Typed

-----------------------------------------------------------------------------
(***************************************************************************)
(* What the parts of the actions do                                        *)
(***************************************************************************)
\* Of the client, query and materialized matter.
Knows(query, materialized) ==
    /\ client' \in ClientType
    /\ client'.query = query /\ client'.materialized = materialized

EndsTo(t) ==
    /\ Goes(t, "idle", None, None)
    /\ ended' = ended \cup ({task[t].of} \ {None}) /\ ended' \subseteq Connections

AssignsTo(t, i, on) ==
    /\ Goes(t, "connecting", i, i)
    /\ Knows(client.query, IF on THEN i ELSE None)
    /\ \E old \in SUBSET {client.materialized} :
          /\ Reasoned(conn, conn', old, "replaced") /\ None \notin old
          /\ client.materialized # None /\ conn[client.materialized].dir = "present" =>
                \/ client.materialized \in old
                \/ \E u \in setup.tasks :
                      task[u].pc = "cleaning" /\ task[u].at = client.materialized

Taken(t, q) ==
    ConnectingOthers(t) \cup ({client.materialized} \ {None, q, task[t].of})

ReleaseTo(t, q, c) ==
    /\ Knows(None, client.materialized)
    /\ Reasoned(c, conn', Taken(t, q), "taken")
    /\ \/ client.materialized = None /\ EndsTo(t)
       \/ /\ client.materialized # None /\ ended' = ended
          /\ Goes(t, "cleaning", client.materialized, task[t].of)

ClosingTo(t, c) ==
    /\ client.query # None /\ Goes(t, "closing", client.query, task[t].of)
    /\ conn' = c /\ client' = client /\ ended' = ended

UnwindTo(t, c) == ClosingTo(t, c) \/ (client.query = None /\ ReleaseTo(t, None, c))

LEMMA ClientFields ==
    ASSUME VarTypes
    PROVE  /\ client.query \in MaybeConnection /\ client.materialized \in MaybeConnection
           /\ conn \in [Connections -> ConnectionType] /\ Typed(conn)
           /\ \A t \in setup.tasks : task[t] \in TaskType
           /\ task \in [setup.tasks -> TaskType]
  BY DEF VarTypes, ClientType, Typed

LEMMA Counts ==
    ASSUME VarTypes
    PROVE  connects \in Nat /\ \A i \in MaybeConnection : i \in Nat
<1>1. connects \in 0..MaxConnects
  BY DEF VarTypes
<1>. QED
  BY <1>1, Bounds

LEMMA AssignsDoes ==
    ASSUME VarTypes, NEW t \in setup.tasks, NEW i \in Connections, NEW on \in BOOLEAN,
           Assigns(t, i, on)
    PROVE  AssignsTo(t, i, on)
<1>. DEFINE m == client.materialized
            old == {j \in {m} \ {None} :
                       /\ conn[j].dir = "present"
                       /\ \A u \in setup.tasks : task[u].pc = "cleaning" => task[u].at # j}
            r == [task[t] EXCEPT !.pc = "connecting", !.at = i, !.of = i]
<1>1. Reasoned(conn, conn', old, "replaced")
  <2>1. conn' = Cut(conn, old, "replaced")
    BY DEF Assigns
  <2>. QED
    BY <2>1, CutReasons, ClientFields DEF Reasons
<1>2. Knows(client.query, IF on THEN i ELSE None)
  <2>1. client' = [client EXCEPT !.materialized = IF on THEN i ELSE None, !.transport = i]
    BY DEF Assigns
  <2>. QED
    BY <2>1, Bounds DEF Knows, VarTypes, ClientType
<1>3. Goes(t, "connecting", i, i)
  <2>1. /\ r \in TaskType /\ r.pc = "connecting" /\ r.at = i /\ r.of = i
        /\ r.mode = task[t].mode /\ r.given = task[t].given
    <3>1. task[t] \in TaskType /\ i \in MaybeConnection /\ "connecting" \in Pcs
      BY ClientFields, Bounds DEF Pcs, ConnectPcs
    <3>. QED
      BY <3>1 DEF TaskType
  <2>2. task' = [task EXCEPT ![t] = r]
    BY DEF Assigns
  <2>. HIDE DEF r
  <2>. QED
    BY <2>1, <2>2, ClientFields DEF Goes
<1>4. old \in SUBSET {m} /\ None \notin old
  OBVIOUS
<1>5. m # None /\ conn[m].dir = "present" =>
          m \in old \/ \E u \in setup.tasks : task[u].pc = "cleaning" /\ task[u].at = m
  OBVIOUS
<1>. QED
  BY <1>1, <1>2, <1>3, <1>4, <1>5 DEF AssignsTo

LEMMA ReleaseDoes ==
    ASSUME VarTypes, NEW t \in setup.tasks, NEW q, NEW c, Typed(c), Release(t, q, c)
    PROVE  ReleaseTo(t, q, c)
<1>1. Knows(None, client.materialized)
  BY Bounds DEF Release, Knows, VarTypes, ClientType
<1>2. Reasoned(c, conn', Taken(t, q), "taken")
  <2>1. conn' = Cut(c, Taken(t, q), "taken")
    BY DEF Release, Taken
  <2>. QED
    BY <2>1, CutReasons DEF Reasons
<1>3. CASE client.materialized = None
  BY <1>1, <1>2, <1>3, EndsGoes DEF Release, ReleaseTo, EndsTo
<1>4. CASE client.materialized # None
  <2>1. client.materialized \in Connections
    BY <1>4, Bounds, ClientFields
  <2>2. Removing(t, client.materialized, "cleaning") /\ ended' = ended
    BY <1>4 DEF Release
  <2>3. "cleaning" \in Pcs
    BY DEF Pcs
  <2>. QED
    BY <1>1, <1>2, <1>4, <2>1, <2>2, <2>3, RemovingGoes DEF ReleaseTo
<1>. QED
  BY <1>3, <1>4

LEMMA UnwindDoes ==
    ASSUME VarTypes, NEW t \in setup.tasks, NEW c, Typed(c), Unwind(t, c)
    PROVE  UnwindTo(t, c)
<1>1. CASE client.query # None
  <2>. DEFINE r == [task[t] EXCEPT !.pc = "closing", !.at = client.query]
  <2>1. /\ r \in TaskType /\ r.pc = "closing" /\ r.at = client.query
        /\ r.of = task[t].of /\ r.mode = task[t].mode /\ r.given = task[t].given
    BY ClientFields DEF TaskType, Pcs
  <2>2. /\ task' = [task EXCEPT ![t] = r]
        /\ conn' = c /\ client' = client /\ ended' = ended
    BY <1>1 DEF Unwind, Closing
  <2>. HIDE DEF r
  <2>. QED
    BY <1>1, <2>1, <2>2, ClientFields DEF UnwindTo, ClosingTo, Goes
<1>2. CASE client.query = None
  BY <1>2, ReleaseDoes DEF Unwind, UnwindTo
<1>. QED
  BY <1>1, <1>2

-----------------------------------------------------------------------------
(***************************************************************************)
(* What the actions do                                                     *)
(***************************************************************************)
\* d differs from c in nothing that a directory or a process depends on.
Alike(c, d) ==
    /\ Typed(d) /\ Fits(d)
    /\ \A i \in Connections :
          /\ d[i].dir = c[i].dir /\ d[i].process = c[i].process /\ d[i].cut = c[i].cut
          /\ i > connects => d[i] = c[i]

ConnectsTo(t) ==
    /\ task[t].pc = "idle" /\ \A u \in setup.tasks : task[u].pc \notin ConnectPcs
    /\ connects' = connects + 1 /\ connects + 1 \in Connections /\ ended' = ended
    /\ \/ Goes(t, "loading", connects + 1, connects + 1) /\ client' = client /\ conn' = conn
       \/ AssignsTo(t, connects + 1, FALSE)

LEMMA ConnectDoes ==
    ASSUME TypeOK, NEW t \in setup.tasks, Connect(t)
    PROVE  ConnectsTo(t) /\ store' \in {"answers", "hangs"}
<1>. DEFINE n == connects + 1
            r == [task[t] EXCEPT !.pc = "loading", !.at = n, !.of = n]
<1>1. VarTypes /\ connects < setup.connects /\ setup.connects \in 0..MaxConnects
  BY SessionAssumption DEF TypeOK, VarTypes, Connect
<1>2. n \in Connections
  BY <1>1, Bounds DEF VarTypes, Connections
<1>3. store' \in {"answers", "hangs"}
  BY <1>1 DEF Connect, StoreCalled, VarTypes
<1>4. /\ task[t].pc = "idle" /\ \A u \in setup.tasks : task[u].pc \notin ConnectPcs
      /\ connects' = n /\ ended' = ended
  BY DEF Connect
<1>5. CASE task' = [task EXCEPT ![t] = r] /\ UNCHANGED <<client, conn>>
  <2>1. /\ r \in TaskType /\ r.pc = "loading" /\ r.at = n /\ r.of = n
        /\ r.mode = task[t].mode /\ r.given = task[t].given
    <3>1. task[t] \in TaskType /\ n \in MaybeConnection /\ "loading" \in Pcs
      BY <1>1, <1>2, ClientFields, Bounds DEF Pcs, ConnectPcs
    <3>. HIDE DEF n
    <3>. QED
      BY <3>1 DEF TaskType
  <2>. HIDE DEF r, n
  <2>2. Goes(t, "loading", n, n)
    BY <1>1, <1>5, <2>1, ClientFields DEF Goes
  <2>. QED
    BY <1>2, <1>3, <1>4, <1>5, <2>2 DEF ConnectsTo, n
<1>6. CASE Assigns(t, n, FALSE)
  <2>1. AssignsTo(t, n, FALSE)
    BY <1>1, <1>2, <1>6, AssignsDoes
  <2>. QED
    BY <1>2, <1>3, <1>4, <2>1 DEF ConnectsTo
<1>. QED
  BY <1>5, <1>6 DEF Connect

\* Where a task in a call is, is a connection.
LEMMA AtConnection ==
    ASSUME TypeOK, NEW t \in setup.tasks, task[t].pc # "idle"
    PROVE  task[t].at \in Connections
  BY ClientFields, TaskFields, Bounds DEF TypeOK, Places

LEMMA LoadsNothingDoes ==
    ASSUME TypeOK, NEW t \in setup.tasks, LoadsNothing(t)
    PROVE  task[t].pc = "loading" /\ AssignsTo(t, task[t].at, FALSE) /\ ended' = ended
<1>1. task[t].pc = "loading" /\ Assigns(t, task[t].at, FALSE) /\ ended' = ended
  BY DEF LoadsNothing
<1>. QED
  BY <1>1, AtConnection, AssignsDoes DEF TypeOK

LEMMA SubkeysLoadedDoes ==
    ASSUME TypeOK, NEW t \in setup.tasks, SubkeysLoaded(t)
    PROVE  task[t].pc = "subkeys" /\ AssignsTo(t, task[t].at, TRUE) /\ ended' = ended
<1>1. task[t].pc = "subkeys" /\ Assigns(t, task[t].at, TRUE) /\ ended' = ended
  BY DEF SubkeysLoaded
<1>. QED
  BY <1>1, AtConnection, AssignsDoes DEF TypeOK

\* The directory is made, and the copy goes on or is given up.
LoadsTo(t) ==
    LET i == task[t].at IN
    /\ task[t].pc = "loading" /\ ended' = ended /\ client' = client
    /\ \E pc \in {"subkeys", "discarding"} : Goes(t, pc, i, task[t].of)
    /\ Typed(conn') /\ \A j \in Connections \ {i} : conn'[j] = conn[j]
    /\ conn'[i].dir = "present" /\ conn'[i].process = conn[i].process
    /\ conn'[i].cut = conn[i].cut /\ conn'[i].taken = conn[i].taken
    /\ conn'[i].sent = conn[i].sent /\ conn'[i].abandoned = conn[i].abandoned

LEMMA LoadsDoes ==
    ASSUME TypeOK, NEW t \in setup.tasks, Loads(t)
    PROVE  LoadsTo(t) /\ store' \in {"answers", "hangs"}
<1>. DEFINE i == task[t].at
<1>1. VarTypes /\ i \in Connections
  BY AtConnection DEF Loads, TypeOK
<1>2. task[t].pc = "loading" /\ ended' = ended /\ client' = client
  BY DEF Loads
<1>3. /\ Typed(conn') /\ \A j \in Connections \ {i} : conn'[j] = conn[j]
      /\ conn'[i].dir = "present" /\ conn'[i].process = conn[i].process
      /\ conn'[i].cut = conn[i].cut /\ conn'[i].taken = conn[i].taken
      /\ conn'[i].sent = conn[i].sent /\ conn'[i].abandoned = conn[i].abandoned
  <2>1. PICK files \in {"free", "locked", "denied"} :
           conn' = [conn EXCEPT ![i] = [@ EXCEPT !.dir = "present", !.files = files]]
    BY DEF Loads, Made
  <2>. DEFINE r == [conn[i] EXCEPT !.dir = "present", !.files = files]
  <2>2. /\ r \in ConnectionType /\ r.dir = "present" /\ r.process = conn[i].process
        /\ r.cut = conn[i].cut /\ r.taken = conn[i].taken /\ r.sent = conn[i].sent
        /\ r.abandoned = conn[i].abandoned
    <3>1. conn[i] \in ConnectionType
      BY <1>1, ClientFields
    <3>. QED
      BY <3>1 DEF ConnectionType
  <2>3. conn' = [conn EXCEPT ![i] = r]
    BY <2>1
  <2>. HIDE DEF r
  <2>. QED
    BY <1>1, <2>2, <2>3, ClientFields DEF Typed
<1>4. (\E pc \in {"subkeys", "discarding"} : Goes(t, pc, i, task[t].of))
      /\ store' \in {"answers", "hangs"}
  <2>1. CASE Moves(t, "subkeys") /\ StoreCalled
    BY <1>1, <2>1, MovesGoes DEF Pcs, ConnectPcs, StoreCalled
  <2>2. CASE Removing(t, i, "discarding") /\ UNCHANGED store
    BY <1>1, <2>2, RemovingGoes DEF Pcs, ConnectPcs, VarTypes
  <2>. QED
    BY <2>1, <2>2 DEF Loads
<1>. QED
  BY <1>2, <1>3, <1>4 DEF LoadsTo

LEMMA LoadFailsDoes ==
    ASSUME TypeOK, NEW t \in setup.tasks, LoadFails(t)
    PROVE  task[t].pc = "loading" /\ EndsTo(t) /\ UNCHANGED <<client, conn>>
  BY EndsGoes DEF LoadFails, EndsTo, TypeOK

LEMMA SubkeysFailDoes ==
    ASSUME TypeOK, NEW t \in setup.tasks, SubkeysFail(t)
    PROVE  /\ task[t].pc = "subkeys" /\ UNCHANGED <<client, conn, ended>>
           /\ Goes(t, "discarding", task[t].at, task[t].of)
<1>1. /\ task[t].pc = "subkeys" /\ Removing(t, task[t].at, "discarding")
      /\ UNCHANGED <<client, conn, ended>>
  BY DEF SubkeysFail, Discard
<1>2. task[t].at \in Connections /\ "discarding" \in Pcs /\ VarTypes
  BY <1>1, AtConnection DEF Pcs, ConnectPcs, TypeOK
<1>. QED
  BY <1>1, <1>2, RemovingGoes

\* The removal of a directory is over.
RemovedTo(t, forgets) ==
    LET i == task[t].at
        m == client.materialized
    IN  /\ InRemoval(t) /\ EndsTo(t)
        /\ task[t].pc = "discarding" => ~forgets
        /\ \E c : /\ Typed(c) /\ \A j \in Connections \ {i} : c[j] = conn[j]
                  /\ c[i].dir \in {"removed", "left"} /\ c[i].process = conn[i].process
                  /\ c[i].cut = conn[i].cut /\ c[i].taken = conn[i].taken
                  /\ c[i].sent = conn[i].sent /\ c[i].abandoned = conn[i].abandoned
                  /\ Reasoned(c, conn', IF forgets THEN {m} \ {None, i} ELSE {}, "taken")
        /\ Knows(client.query, IF forgets THEN None ELSE m)

LEMMA RemovedDoes ==
    ASSUME TypeOK, NEW t \in setup.tasks, NEW dir \in {"removed", "left"},
           NEW interrupted \in BOOLEAN, InRemoval(t), Removed(t, dir, interrupted)
    PROVE  \E forgets \in BOOLEAN : RemovedTo(t, forgets)
<1>. DEFINE i == task[t].at
            m == client.materialized
            c == [conn EXCEPT ![i].dir = dir]
            forgets == task[t].pc = "cleaning" /\ ~(interrupted /\ kind = "client")
            taken == IF forgets THEN {m} \ {None, i} ELSE {}
            r == [conn[i] EXCEPT !.dir = dir]
<1>1. VarTypes /\ i \in Connections
  BY AtConnection DEF InRemoval, TypeOK
<1>2. /\ conn' = Cut(c, taken, "taken") /\ Ends(t)
      /\ client' = IF forgets THEN [client EXCEPT !.materialized = None] ELSE client
  BY DEF Removed
<1>3. EndsTo(t)
  BY <1>1, <1>2, EndsGoes DEF EndsTo
<1>4. /\ Typed(c) /\ \A j \in Connections \ {i} : c[j] = conn[j]
      /\ c[i].dir \in {"removed", "left"} /\ c[i].process = conn[i].process
      /\ c[i].cut = conn[i].cut /\ c[i].taken = conn[i].taken /\ c[i].sent = conn[i].sent
      /\ c[i].abandoned = conn[i].abandoned
  <2>1. conn[i] \in ConnectionType
    BY <1>1, ClientFields
  <2>2. /\ r \in ConnectionType /\ r.dir = dir /\ r.process = conn[i].process
        /\ r.cut = conn[i].cut /\ r.taken = conn[i].taken /\ r.sent = conn[i].sent
        /\ r.abandoned = conn[i].abandoned
    BY <2>1 DEF ConnectionType
  <2>3. c = [conn EXCEPT ![i] = r]
    OBVIOUS
  <2>. HIDE DEF r, c
  <2>. QED
    BY <1>1, <2>2, <2>3, ClientFields DEF Typed
<1>. HIDE DEF c
<1>5. Reasoned(c, conn', taken, "taken")
  BY <1>2, <1>4, CutReasons DEF Reasons
<1>6. Knows(client.query, IF forgets THEN None ELSE m)
  BY <1>1, <1>2, Bounds DEF Knows, VarTypes, ClientType
<1>7. task[t].pc = "discarding" => ~forgets
  OBVIOUS
<1>. HIDE DEF forgets
<1>8. forgets \in BOOLEAN
  BY DEF forgets
<1>9. RemovedTo(t, forgets)
  BY <1>3, <1>4, <1>5, <1>6, <1>7 DEF RemovedTo
<1>. QED
  BY <1>8, <1>9

LEMMA RemovesDoes ==
    ASSUME TypeOK, NEW t \in setup.tasks, Removes(t)
    PROVE  \E forgets \in BOOLEAN : RemovedTo(t, forgets)
<1>1. InRemoval(t) /\ Removed(t, "removed", FALSE)
  BY DEF Removes
<1>. QED
  BY <1>1, RemovedDoes

LEMMA SweepDoes ==
    ASSUME TypeOK, NEW t \in setup.tasks, Sweep(t)
    PROVE  \E forgets \in BOOLEAN : RemovedTo(t, forgets)
<1>1. PICK interrupted \in BOOLEAN :
         \/ Removed(t, "left", interrupted)
         \/ Removed(t, "removed", interrupted)
  BY DEF Sweep
<1>2. InRemoval(t)
  BY DEF Sweep
<1>. QED
  BY <1>1, <1>2, RemovedDoes

\* The CLI is there, and is the client's now.
SpawnsTo(t) ==
    LET i == task[t].at
        q == client.query
    IN  /\ task[t].pc = "connecting" /\ ended' = ended
        /\ Goes(t, "initializing", i, task[t].of) /\ Knows(i, client.materialized)
        /\ \E c : \E old \in SUBSET {q} :
              /\ Runs(conn, c, i, "alive") /\ Reasoned(c, conn', old, "replaced")
              /\ None \notin old /\ (q # None => q \in old \/ BeingClosed(q))

\* A connection that is not spawned has taken nothing.
LEMMA NothingTaken ==
    ASSUME TypeOK, NEW i \in Connections, conn[i].process = "none"
    PROVE  conn[i].taken = 0
<1>1. conn[i].taken <= Len(conn[i].sent) /\ conn[i].sent = <<>> /\ conn[i].taken \in Nat
  BY DEF TypeOK, Fits, VarTypes, ConnectionType
<1>. QED
  BY <1>1

LEMMA SpawnsDoes ==
    ASSUME TypeOK, NEW t \in setup.tasks, Spawns(t), conn[task[t].at].process = "none"
    PROVE  SpawnsTo(t)
<1>. DEFINE i == task[t].at
            q == client.query
            old == {j \in {q} \ {None} :
                       \A u \in setup.tasks : task[u].pc = "closing" => task[u].at # j}
<1>1. VarTypes /\ i \in Connections /\ task[t].pc = "connecting" /\ ended' = ended
  BY AtConnection DEF Spawns, TypeOK
<1>2. PICK sent \in Streams[setup.streams] :
         conn' = Cut(Spawned(i, sent), old, "replaced")
  BY DEF Spawns
<1>3. sent \in Seq(Sendable) /\ conn[i].taken = 0
  BY <1>1, StreamTyped, NothingTaken
<1>4. Runs(conn, Spawned(i, sent), i, "alive")
  BY <1>1, <1>3, SpawnedRuns
<1>5. Reasoned(Spawned(i, sent), conn', old, "replaced")
  BY <1>2, <1>4, CutReasons DEF Runs, Reasons
<1>6. Knows(i, client.materialized)
  BY <1>1, Bounds DEF Spawns, Knows, VarTypes, ClientType
<1>7. Goes(t, "initializing", i, task[t].of)
  BY <1>1, MovesGoes DEF Spawns, Pcs, ConnectPcs
<1>8. old \in SUBSET {q} /\ None \notin old /\ (q # None => q \in old \/ BeingClosed(q))
  BY DEF BeingClosed
<1>. HIDE DEF old
<1>. QED
  BY <1>1, <1>4, <1>5, <1>6, <1>7, <1>8 DEF SpawnsTo

LEMMA SpawnFailsDoes ==
    ASSUME TypeOK, NEW t \in setup.tasks, SpawnFails(t)
    PROVE  task[t].pc = "connecting" /\ UnwindTo(t, conn)
  BY UnwindDoes, ClientFields DEF SpawnFails, Raises, TypeOK

LEMMA InitializeFailsDoes ==
    ASSUME TypeOK, NEW t \in setup.tasks, InitializeFails(t)
    PROVE  task[t].pc = "initializing" /\ UnwindTo(t, conn)
  BY UnwindDoes, ClientFields DEF InitializeFails, Raises, TypeOK

SetsUpTo(t, c) ==
    /\ task[t].pc = "connecting"
    /\ \E d : /\ Runs(conn, d, task[t].at, "alive") /\ d[task[t].at].sent = <<>>
              /\ Reasoned(d, c, {task[t].at}, "setup")
    /\ UnwindTo(t, c)

LEMMA SetUpFailsDoes ==
    ASSUME TypeOK, NEW t \in setup.tasks, SetUpFails(t), conn[task[t].at].process = "none"
    PROVE  \E c : SetsUpTo(t, c)
<1>. DEFINE i == task[t].at
            d == Spawned(i, <<>>)
            c == Cut(d, {i}, "setup")
<1>1. VarTypes /\ i \in Connections /\ task[t].pc = "connecting" /\ Unwind(t, c)
  BY AtConnection DEF SetUpFails, Raises, TypeOK
<1>2. <<>> \in Seq(Sendable) /\ conn[i].taken = 0
  BY <1>1, NothingTaken
<1>3. Runs(conn, d, i, "alive") /\ d[i].sent = <<>>
  BY <1>1, <1>2, SpawnedRuns
<1>4. Reasoned(d, c, {i}, "setup")
  BY <1>3, CutReasons DEF Runs, Reasons
<1>5. UnwindTo(t, c)
  BY <1>1, <1>4, UnwindDoes DEF Reasoned
<1>. QED
  BY <1>1, <1>3, <1>4, <1>5 DEF SetsUpTo

\* disconnect() closes the Query, or removes the directory, or does nothing.
DisconnectsTo(t) ==
    LET q == client.query
        m == client.materialized
    IN  /\ task[t].pc = IF kind = "client" THEN "idle" ELSE "iterating"
        /\ ended' = ended /\ Knows(q, m)
        /\ \/ q # None /\ Goes(t, "closing", q, q) /\ conn' = conn
           \/ /\ q = None /\ Reasoned(conn, conn', ConnectingOthers(t), "taken")
              /\ \/ m # None /\ Goes(t, "cleaning", m, m)
                 \/ m = None /\ Goes(t, task[t].pc, task[t].at, None)

LEMMA DisconnectDoes ==
    ASSUME TypeOK, NEW t \in setup.tasks, Disconnect(t)
    PROVE  DisconnectsTo(t)
<1>. DEFINE q == client.query
            m == client.materialized
            of == IF q # None THEN q ELSE m
            started == [task[t] EXCEPT !.of = of]
            closing == [started EXCEPT !.pc = "closing", !.at = of]
            cleaning == [started EXCEPT !.pc = "cleaning", !.at = of, !.tries = Retries]
<1>1. /\ VarTypes /\ task[t] \in TaskType /\ of \in MaybeConnection
      /\ q \in MaybeConnection /\ m \in MaybeConnection
  BY ClientFields DEF TypeOK
<1>2. task[t].pc = (IF kind = "client" THEN "idle" ELSE "iterating") /\ ended' = ended
  BY DEF Disconnect
<1>. HIDE DEF of
<1>3. /\ started \in TaskType /\ started.pc = task[t].pc /\ started.at = task[t].at
      /\ started.of = of /\ started.mode = task[t].mode /\ started.given = task[t].given
  BY <1>1 DEF TaskType
<1>. HIDE DEF started
<1>4. /\ closing \in TaskType /\ closing.pc = "closing" /\ closing.at = of
      /\ closing.of = of /\ closing.mode = task[t].mode /\ closing.given = task[t].given
  BY <1>1, <1>3 DEF TaskType, Pcs
<1>5. /\ cleaning \in TaskType /\ cleaning.pc = "cleaning" /\ cleaning.at = of
      /\ cleaning.of = of /\ cleaning.mode = task[t].mode
      /\ cleaning.given = task[t].given
  BY <1>1, <1>3, Bounds DEF TaskType, Pcs
<1>. HIDE DEF closing, cleaning
<1>6. CASE q # None
  <2>1. task' = [task EXCEPT ![t] = closing] /\ UNCHANGED <<client, conn>>
    BY <1>6 DEF Disconnect, closing, started, of
  <2>2. of = q
    BY <1>6 DEF of
  <2>3. Goes(t, "closing", q, q)
    BY <1>1, <1>4, <2>1, <2>2, ClientFields DEF Goes
  <2>4. Knows(q, m)
    BY <1>1, <2>1 DEF Knows, VarTypes
  <2>. QED
    BY <1>2, <1>6, <2>1, <2>3, <2>4 DEF DisconnectsTo
<1>7. CASE q = None
  <2>1. /\ client' = [client EXCEPT !.transport = None]
        /\ conn' = Cut(conn, ConnectingOthers(t), "taken")
    BY <1>7 DEF Disconnect
  <2>2. of = m
    BY <1>7 DEF of
  <2>3. Knows(q, m)
    BY <1>1, <2>1, Bounds DEF Knows, VarTypes, ClientType
  <2>4. Reasoned(conn, conn', ConnectingOthers(t), "taken")
    BY <1>1, <2>1, CutReasons, ClientFields DEF Reasons
  <2>5. CASE m = None
    <3>1. task' = [task EXCEPT ![t] = started]
      BY <1>7, <2>5 DEF Disconnect, started, of
    <3>2. Goes(t, task[t].pc, task[t].at, None)
      BY <1>1, <1>3, <2>2, <2>5, <3>1, ClientFields DEF Goes
    <3>. QED
      BY <1>2, <1>7, <2>3, <2>4, <2>5, <3>2 DEF DisconnectsTo
  <2>6. CASE m # None
    <3>1. task' = [task EXCEPT ![t] = cleaning]
      BY <1>7, <2>6 DEF Disconnect, cleaning, started, of
    <3>2. Goes(t, "cleaning", m, m)
      BY <1>1, <1>5, <2>2, <3>1, ClientFields DEF Goes
    <3>. QED
      BY <1>2, <1>7, <2>3, <2>4, <2>6, <3>2 DEF DisconnectsTo
  <2>. QED
    BY <2>5, <2>6
<1>. QED
  BY <1>6, <1>7

\* The process has ended, the client has forgotten its Query.
QueryClosesTo(t) ==
    LET q == task[t].at
        now == client.query
    IN  /\ task[t].pc = "closing" /\ now # None
        /\ \E b, d, c : /\ Alike(conn, b) /\ Reads(conn, b) /\ Runs(b, d, q, "exited")
                        /\ IF now = q THEN c = d ELSE Reasoned(d, c, {now}, "taken")
                        /\ ReleaseTo(t, q, c)

LEMMA QueryClosesDoes ==
    ASSUME TypeOK, NEW t \in setup.tasks, QueryCloses(t)
    PROVE  QueryClosesTo(t)
<1>. DEFINE q == task[t].at
            now == client.query
            b == [conn EXCEPT ![now].open = FALSE]
            r == [conn[now] EXCEPT !.open = FALSE]
<1>1. VarTypes /\ q \in Connections /\ now \in Connections
  BY AtConnection, ClientFields, Bounds DEF QueryCloses, TypeOK
<1>2. task[t].pc = "closing" /\ now # None
  BY DEF QueryCloses
<1>3. PICK d \in Exited(q, b) :
         Release(t, q, IF now = q THEN d ELSE Cut(d, {now}, "taken"))
  BY DEF QueryCloses
<1>4. /\ Alike(conn, b) /\ Typed(b) /\ Reads(conn, b)
      /\ b[q].taken = conn[q].taken /\ b[q].sent = conn[q].sent
  <2>1. conn[now] \in ConnectionType /\ ~(now > connects)
    BY <1>1, ClientFields, Bounds DEF TypeOK, Fresh, VarTypes
  <2>2. /\ r \in ConnectionType /\ r.dir = conn[now].dir /\ r.process = conn[now].process
        /\ r.cut = conn[now].cut /\ r.taken = conn[now].taken /\ r.sent = conn[now].sent
        /\ r.abandoned = conn[now].abandoned
    BY <2>1 DEF ConnectionType
  <2>3. b = [conn EXCEPT ![now] = r]
    OBVIOUS
  <2>. HIDE DEF r, b
  <2>. QED
    BY <1>1, <2>1, <2>2, <2>3, ClientFields DEF Typed, Alike, Fits, TypeOK, Reads
<1>5. Runs(b, d, q, "exited")
  BY <1>1, <1>3, <1>4, ExitedRuns DEF TypeOK
<1>6. CASE now = q
  BY <1>1, <1>2, <1>3, <1>4, <1>5, <1>6, ReleaseDoes DEF QueryClosesTo, Runs
<1>7. CASE now # q
  <2>1. Reasoned(d, Cut(d, {now}, "taken"), {now}, "taken")
    BY <1>5, CutReasons DEF Runs, Reasons
  <2>2. ReleaseTo(t, q, Cut(d, {now}, "taken"))
    BY <1>1, <1>3, <1>7, <2>1, ReleaseDoes DEF Reasoned
  <2>. QED
    BY <1>2, <1>4, <1>5, <1>7, <2>1, <2>2 DEF QueryClosesTo
<1>. QED
  BY <1>6, <1>7

\* close() of the Query breaks off, or is aborted.
BreaksTo(t) ==
    LET q == task[t].at IN
    /\ task[t].pc = "closing" /\ EndsTo(t) /\ client' = client
    /\ \/ client.query # q /\ Runs(conn, conn', q, "exited")
       \/ Reasoned(conn, conn', {q, task[t].of}, "taken")

LEMMA CloseBreaksDoes ==
    ASSUME TypeOK, NEW t \in setup.tasks, CloseBreaks(t)
    PROVE  BreaksTo(t)
<1>. DEFINE q == task[t].at
<1>1. VarTypes /\ q \in Connections /\ task[t].pc = "closing" /\ client' = client
  BY AtConnection DEF CloseBreaks, TypeOK
<1>2. EndsTo(t)
  BY <1>1, EndsGoes DEF CloseBreaks, EndsTo
<1>3. CASE client.query # q /\ conn' \in Exited(q, conn)
  BY <1>1, <1>2, <1>3, ExitedRuns, ClientFields DEF BreaksTo, TypeOK
<1>4. CASE conn' = Cut(conn, {q, task[t].of}, "taken")
  <2>1. Reasoned(conn, conn', {q, task[t].of}, "taken")
    BY <1>1, <1>4, CutReasons, ClientFields DEF Reasons
  <2>. QED
    BY <1>1, <1>2, <2>1 DEF BreaksTo
<1>. QED
  BY <1>3, <1>4 DEF CloseBreaks

AbortsTo(t) ==
    LET m == client.materialized IN
    /\ task[t].pc = "closing"
    /\ Reasoned(conn, conn', {task[t].at, task[t].of}, "raw_cancel")
    /\ \/ kind = "client" /\ client' = client /\ EndsTo(t)
       \/ kind = "query" /\ Knows(None, m) /\
             \/ m = None /\ EndsTo(t)
             \/ m # None /\ Goes(t, "cleaning", m, task[t].of) /\ ended' = ended

LEMMA CloseAbortedDoes ==
    ASSUME TypeOK, NEW t \in setup.tasks, CloseAborted(t)
    PROVE  AbortsTo(t)
<1>. DEFINE m == client.materialized
<1>1. VarTypes /\ task[t].pc = "closing" /\ kind \in {"client", "query"}
  BY SessionAssumption DEF CloseAborted, TypeOK, VarTypes
<1>2. Reasoned(conn, conn', {task[t].at, task[t].of}, "raw_cancel")
  <2>1. conn' = Cut(conn, {task[t].at, task[t].of}, "raw_cancel")
    BY DEF CloseAborted
  <2>. QED
    BY <1>1, <2>1, CutReasons, ClientFields DEF Reasons
<1>3. CASE kind = "client"
  BY <1>1, <1>2, <1>3, EndsGoes DEF CloseAborted, ForgetQuery, AbortsTo, EndsTo
<1>4. CASE kind = "query"
  <2>1. Knows(None, m)
    BY <1>1, <1>4, Bounds DEF CloseAborted, ForgetQuery, Knows, VarTypes, ClientType
  <2>2. CASE m = None
    BY <1>1, <1>2, <1>4, <2>1, <2>2, EndsGoes DEF CloseAborted, AbortsTo, EndsTo
  <2>3. CASE m # None
    <3>1. m \in Connections /\ "cleaning" \in Pcs
      BY <1>1, <2>3, Bounds, ClientFields DEF Pcs
    <3>2. Removing(t, m, "cleaning") /\ ended' = ended
      BY <1>4, <2>3 DEF CloseAborted
    <3>. QED
      BY <1>1, <1>2, <1>4, <2>1, <2>3, <3>1, <3>2, RemovingGoes DEF AbortsTo
  <2>. QED
    BY <2>2, <2>3
<1>. QED
  BY <1>1, <1>3, <1>4

\* Nobody goes anywhere; a process may end.
RestsTo ==
    /\ task' \in [setup.tasks -> TaskType] /\ client' = client /\ ended' = ended
    /\ \A u \in setup.tasks :
          /\ task'[u].pc = task[u].pc /\ task'[u].at = task[u].at /\ task'[u].of = task[u].of
          /\ kind = "query" => task'[u].mode = task[u].mode /\ task'[u].given = task[u].given
    /\ \/ Alike(conn, conn')
       \/ \E i \in Connections : conn[i].process = "alive" /\ Runs(conn, conn', i, "exited")

LEMMA AlikeSame == ASSUME TypeOK, conn' = conn PROVE Alike(conn, conn')
  BY ClientFields DEF Alike, TypeOK

LEMMA AlikeNow == ASSUME TypeOK PROVE Alike(conn, conn)
  BY ClientFields DEF Alike, TypeOK

LEMMA RemoveBlockedDoes ==
    ASSUME TypeOK, NEW t \in setup.tasks, RemoveBlocked(t)
    PROVE  RestsTo
<1>. DEFINE r == [task[t] EXCEPT !.tries = @ - 1]
<1>1. /\ task' = [task EXCEPT ![t].tries = @ - 1] /\ task[t].tries # 0
      /\ UNCHANGED <<client, conn, ended>> /\ task[t] \in TaskType
      /\ task \in [setup.tasks -> TaskType]
  BY ClientFields DEF RemoveBlocked, Spent, TypeOK
<1>2. /\ r \in TaskType /\ r.pc = task[t].pc /\ r.at = task[t].at
      /\ r.of = task[t].of /\ r.mode = task[t].mode /\ r.given = task[t].given
  <2>1. task[t].tries - 1 \in 0..Retries
    BY <1>1, Bounds, TaskFields
  <2>. QED
    BY <1>1, <2>1 DEF TaskType
<1>3. task' = [task EXCEPT ![t] = r]
  BY <1>1
<1>. HIDE DEF r
<1>. QED
  BY <1>1, <1>2, <1>3, AlikeSame DEF RestsTo

LEMMA CancelDoes ==
    ASSUME TypeOK, NEW t \in setup.tasks, Cancel(t)
    PROVE  RestsTo
<1>. DEFINE r == [task[t] EXCEPT !.cancelled = TRUE]
<1>1. /\ task' = [task EXCEPT ![t].cancelled = TRUE]
      /\ UNCHANGED <<client, conn, ended>> /\ task[t] \in TaskType
      /\ task \in [setup.tasks -> TaskType]
  BY ClientFields DEF Cancel, TypeOK
<1>2. /\ r \in TaskType /\ r.pc = task[t].pc /\ r.at = task[t].at
      /\ r.of = task[t].of /\ r.mode = task[t].mode /\ r.given = task[t].given
  BY <1>1 DEF TaskType
<1>3. task' = [task EXCEPT ![t] = r]
  BY <1>1
<1>. HIDE DEF r
<1>. QED
  BY <1>1, <1>2, <1>3, AlikeSame DEF RestsTo

LEMMA FilesFreedDoes ==
    ASSUME TypeOK, NEW i \in Connections, FilesFreed(i)
    PROVE  RestsTo
<1>. DEFINE r == [conn[i] EXCEPT !.files = "free"]
<1>1. /\ conn' = [conn EXCEPT ![i].files = "free"] /\ conn[i].files = "locked"
      /\ UNCHANGED <<client, task, ended>> /\ VarTypes
  BY DEF FilesFreed, TypeOK
<1>2. conn[i] \in ConnectionType /\ ~(i > connects)
  BY <1>1, ClientFields DEF TypeOK, Fresh, NoConnection
<1>3. /\ r \in ConnectionType /\ r.dir = conn[i].dir /\ r.process = conn[i].process
      /\ r.cut = conn[i].cut /\ r.taken = conn[i].taken /\ r.sent = conn[i].sent
  BY <1>2 DEF ConnectionType
<1>4. conn' = [conn EXCEPT ![i] = r]
  BY <1>1
<1>. HIDE DEF r
<1>5. Alike(conn, conn')
  BY <1>1, <1>2, <1>3, <1>4, ClientFields DEF Alike, Typed, Fits, TypeOK
<1>. QED
  BY <1>1, <1>5, ClientFields DEF RestsTo

LEMMA ProcessExitsDoes ==
    ASSUME TypeOK, NEW i \in Connections, ProcessExits(i)
    PROVE  RestsTo
<1>1. Runs(conn, conn', i, "exited")
  BY ExitedRuns, ClientFields DEF ProcessExits, TypeOK
<1>. QED
  BY <1>1, ClientFields DEF RestsTo, ProcessExits, TypeOK

\* t is given what comes next, or is back at where its program calls from.
TurnsTo(t) ==
    /\ task[t].pc \in {"idle", "initializing", "iterating"}
    /\ client' = client /\ ended' = ended /\ Alike(conn, conn')
    /\ task' \in [setup.tasks -> TaskType]
    /\ \A u \in setup.tasks \ {t} : task'[u] = task[u]
    /\ \/ kind = "client" /\ Goes(t, "idle", None, None)
       \/ /\ kind = "client" /\ client.query # None
          /\ task'[t].pc = "iterating" /\ task'[t].at = client.query /\ task'[t].of = None
       \/ /\ kind = "query" /\ task[t].pc = "initializing"
          /\ Goes(t, "iterating", task[t].at, task[t].of)

LEMMA ReadAlike ==
    ASSUME TypeOK, NEW t \in setup.tasks, task[t].pc = "iterating",
           NEW n \in {0, 1}, NEW abandoned \in BOOLEAN,
           conn[task[t].at].taken + n <= Len(conn[task[t].at].sent)
    PROVE  Alike(conn, [conn EXCEPT ![task[t].at] =
                          [conn[task[t].at] EXCEPT !.taken = conn[task[t].at].taken + n,
                                                   !.abandoned = abandoned]])
<1>. DEFINE i == task[t].at
            r == [conn[i] EXCEPT !.taken = conn[i].taken + n, !.abandoned = abandoned]
            c == [conn EXCEPT ![i] = r]
<1>1. conn[i] \in ConnectionType /\ ~(i > connects) /\ i \in Connections /\ VarTypes
  <2>1. i \in Connections /\ VarTypes
    BY AtConnection DEF TypeOK
  <2>2. i <= connects /\ i \in Nat /\ connects \in Nat
    <3>1. connects \in Nat /\ i \in Nat
      BY <2>1, Counts, Bounds
    <3>2. i <= connects
      BY DEF TypeOK, Fresh
    <3>. QED
      BY <3>1, <3>2
  <2>. QED
    BY <2>1, <2>2, ClientFields
<1>2. conn[i].taken \in Nat /\ conn[i].taken + n \in Nat
  BY <1>1 DEF ConnectionType
<1>3. /\ r \in ConnectionType /\ r.dir = conn[i].dir /\ r.process = conn[i].process
      /\ r.cut = conn[i].cut /\ r.taken = conn[i].taken + n /\ r.sent = conn[i].sent
  BY <1>1, <1>2 DEF ConnectionType
<1>. HIDE DEF r
<1>4. Alike(conn, c)
  BY <1>1, <1>3, ClientFields DEF Alike, Typed, Fits, TypeOK
<1>. QED
  BY <1>4 DEF r

LEMMA TakesDoes ==
    ASSUME TypeOK, NEW t \in setup.tasks, Takes(t)
    PROVE  RestsTo
<1>. DEFINE i == task[t].at
            given == Append(task[t].given, conn[i].taken + 1)
            r == [task[t] EXCEPT !.given = given]
<1>1. /\ VarTypes /\ i \in Connections /\ task[t].pc = "iterating"
      /\ conn[i].taken < Len(conn[i].sent) /\ UNCHANGED <<client, ended>>
      /\ task[t] \in TaskType /\ task \in [setup.tasks -> TaskType]
      /\ conn[i] \in ConnectionType
  BY AtConnection, ClientFields DEF Takes, CanTake, TypeOK
<1>2. Alike(conn, conn')
  <2>1. conn[i].abandoned \in BOOLEAN /\ conn[i].taken \in Nat
        /\ Len(conn[i].sent) \in Nat
    BY <1>1 DEF ConnectionType
  <2>2. Alike(conn, [conn EXCEPT ![i] = [conn[i] EXCEPT !.taken = conn[i].taken + 1,
                                                 !.abandoned = conn[i].abandoned]])
    <3>1. conn[i].taken + 1 <= Len(conn[i].sent)
      BY <1>1, <2>1
    <3>. HIDE DEF given, r
    <3>. QED
      BY <1>1, <2>1, <3>1, ReadAlike
  <2>3. [conn[i] EXCEPT !.taken = conn[i].taken + 1, !.abandoned = conn[i].abandoned]
            = [conn[i] EXCEPT !.taken = conn[i].taken + 1]
    BY <1>1 DEF ConnectionType
  <2>4. conn' = [conn EXCEPT ![i] = [conn[i] EXCEPT !.taken = conn[i].taken + 1,
                                             !.abandoned = conn[i].abandoned]]
    BY <1>1, <2>3 DEF Takes
  <2>. QED
    BY <2>2, <2>4
<1>3. \/ task' = task
      \/ task[t].mode = "response" /\ task' = [task EXCEPT ![t].given = given]
  BY DEF Takes
<1>4. CASE task' = task
  BY <1>1, <1>2, <1>4 DEF RestsTo
<1>5. CASE task[t].mode = "response" /\ task' = [task EXCEPT ![t].given = given]
  <2>1. kind # "query"
    BY <1>5 DEF TypeOK, Places
  <2>2. given \in Seq(Nat)
    BY <1>1 DEF TaskType, ConnectionType
  <2>. HIDE DEF given
  <2>3. /\ r \in TaskType /\ r.pc = task[t].pc /\ r.at = task[t].at /\ r.of = task[t].of
    BY <1>1, <2>2 DEF TaskType
  <2>4. task' = [task EXCEPT ![t] = r]
    BY <1>1, <1>5
  <2>. HIDE DEF r
  <2>. QED
    BY <1>1, <1>2, <2>1, <2>3, <2>4 DEF RestsTo
<1>. QED
  BY <1>3, <1>4, <1>5

\* A message that is refused ends the iteration, or a query().
RefusedTo(t) ==
    \/ TurnsTo(t)
    \/ /\ kind = "query" /\ task[t].pc = "iterating"
       /\ \E c : Alike(conn, c) /\ UnwindTo(t, c)

LEMMA KindIs == ASSUME VarTypes PROVE kind \in {"client", "query"}
  BY SessionAssumption DEF VarTypes

\* An iteration of a client is not of a connection.
LEMMA IterationEnds ==
    ASSUME TypeOK, NEW t \in setup.tasks, task[t].pc = "iterating", kind = "client", Ends(t),
           client' = client, Alike(conn, conn')
    PROVE  TurnsTo(t)
<1>1. Goes(t, "idle", None, None) /\ ended' = ended \cup ({task[t].of} \ {None})
  BY EndsGoes DEF TypeOK
<1>2. task[t].of = None
  BY DEF TypeOK, Places
<1>. QED
  BY <1>1, <1>2 DEF TurnsTo, Goes

LEMMA TakesRefusedDoes ==
    ASSUME TypeOK, NEW t \in setup.tasks, TakesRefused(t)
    PROVE  RefusedTo(t)
<1>. DEFINE i == task[t].at
            c == [conn EXCEPT ![i] = [conn[i] EXCEPT !.taken = conn[i].taken + 1,
                                                     !.abandoned = TRUE]]
<1>1. /\ VarTypes /\ i \in Connections /\ task[t].pc = "iterating"
      /\ conn[i].taken < Len(conn[i].sent) /\ conn[i] \in ConnectionType
  BY AtConnection, ClientFields DEF TakesRefused, CanTake, TypeOK
<1>2. Alike(conn, c)
  <2>1. conn[i].taken + 1 <= Len(conn[i].sent)
    BY <1>1 DEF ConnectionType
  <2>. QED
    BY <1>1, <2>1, ReadAlike
<1>. HIDE DEF c
<1>3. CASE kind = "query"
  <2>1. Unwind(t, c)
    BY <1>3 DEF TakesRefused, Raises, c
  <2>2. UnwindTo(t, c)
    BY <1>1, <1>2, <2>1, UnwindDoes DEF Alike
  <2>. QED
    BY <1>1, <1>2, <1>3, <2>2 DEF RefusedTo
<1>4. CASE kind # "query"
  <2>1. conn' = c /\ Ends(t) /\ client' = client
    BY <1>4 DEF TakesRefused, c
  <2>2. kind = "client"
    BY <1>1, <1>4, KindIs
  <2>3. Alike(conn, conn')
    BY <1>2, <2>1
  <2>. QED
    BY <1>1, <2>1, <2>2, <2>3, IterationEnds DEF RefusedTo
<1>. QED
  BY <1>3, <1>4

LEMMA LeavesDoes ==
    ASSUME TypeOK, NEW t \in setup.tasks, Leaves(t)
    PROVE  TurnsTo(t)
<1>. DEFINE i == task[t].at
<1>1. /\ task[t].pc = "iterating" /\ kind = "client" /\ Ends(t) /\ client' = client
      /\ conn' = [conn EXCEPT ![i].abandoned = TRUE] /\ i \in Connections
      /\ conn[i] \in ConnectionType
  BY AtConnection, ClientFields DEF Leaves, TypeOK
<1>2. conn[i].taken + 0 <= Len(conn[i].sent) /\ conn[i].taken + 0 = conn[i].taken
  BY <1>1 DEF ConnectionType, TypeOK, Fits
<1>3. Alike(conn, [conn EXCEPT ![i] = [conn[i] EXCEPT !.taken = conn[i].taken + 0,
                                                      !.abandoned = TRUE]])
  BY <1>1, <1>2, ReadAlike
<1>4. [conn[i] EXCEPT !.taken = conn[i].taken + 0, !.abandoned = TRUE]
          = [conn[i] EXCEPT !.abandoned = TRUE]
  BY <1>1, <1>2 DEF ConnectionType
<1>5. Alike(conn, conn')
  BY <1>1, <1>3, <1>4
<1>. QED
  BY <1>1, <1>5, IterationEnds

LEMMA AnsweredDoes ==
    ASSUME TypeOK, NEW t \in setup.tasks, Answered(t)
    PROVE  /\ TurnsTo(t)
           /\ answer' \in [conn : MaybeConnection, from : Nat, to : Nat, given : Seq(Nat)]
<1>1. /\ VarTypes /\ task[t].pc = "iterating" /\ task[t].given # <<>> /\ Ends(t)
      /\ UNCHANGED <<client, conn>>
      /\ answer' = [conn |-> task[t].at, from |-> task[t].from,
                    to |-> conn[task[t].at].taken, given |-> task[t].given]
  BY DEF Answered, Completes, TypeOK
<1>2. kind = "client"
  BY <1>1, KindIs DEF TypeOK, Places
<1>3. task[t].at \in Connections /\ task[t] \in TaskType
      /\ conn[task[t].at] \in ConnectionType
  BY <1>1, AtConnection, ClientFields
<1>4. conn[task[t].at].taken \in Nat
  BY <1>3 DEF ConnectionType
<1>5. answer' \in [conn : MaybeConnection, from : Nat, to : Nat, given : Seq(Nat)]
  BY <1>1, <1>3, <1>4, TaskFields
<1>. QED
  BY <1>1, <1>2, <1>5, AlikeSame, IterationEnds

LEMMA ReceiveDoes ==
    ASSUME TypeOK, NEW t \in setup.tasks, Receive(t)
    PROVE  TurnsTo(t)
<1>. DEFINE q == client.query
<1>1. PICK mode \in {"messages", "response"} :
         task' = [task EXCEPT ![t] =
                    [@ EXCEPT !.pc = "iterating", !.at = q,
                              !.from = conn[q].taken + 1, !.mode = mode]]
  BY DEF Receive
<1>2. /\ VarTypes /\ task[t].pc = "idle" /\ kind = "client" /\ q # None
      /\ UNCHANGED <<client, conn, ended>> /\ task[t].of = None
  BY DEF Receive, TypeOK, Places
<1>3. /\ q \in Connections /\ task[t] \in TaskType /\ conn[q] \in ConnectionType
      /\ task \in [setup.tasks -> TaskType] /\ q \in MaybeConnection
  BY <1>2, ClientFields, Bounds
<1>. DEFINE from == conn[q].taken + 1
            r == [task[t] EXCEPT !.pc = "iterating", !.at = q, !.from = from, !.mode = mode]
<1>4. from \in Nat
  BY <1>3 DEF ConnectionType
<1>5. task' = [task EXCEPT ![t] = r]
  BY <1>1
<1>. HIDE DEF from
<1>6. r \in TaskType /\ r.pc = "iterating" /\ r.at = q /\ r.of = None
  BY <1>2, <1>3, <1>4 DEF TaskType, Pcs
<1>. HIDE DEF r
<1>. QED
  BY <1>2, <1>3, <1>5, <1>6, AlikeSame DEF TurnsTo

LEMMA InitializedDoes ==
    ASSUME TypeOK, NEW t \in setup.tasks, Initialized(t)
    PROVE  TurnsTo(t)
<1>1. /\ VarTypes /\ task[t].pc = "initializing" /\ UNCHANGED <<client, conn, ended>>
      /\ kind \in {"client", "query"} /\ task \in [setup.tasks -> TaskType]
      /\ "iterating" \in Pcs
  BY ClientFields, KindIs DEF Initialized, TypeOK, Pcs
<1>2. CASE kind = "query"
  <2>1. Goes(t, "iterating", task[t].at, task[t].of)
    BY <1>1, <1>2, MovesGoes DEF Initialized
  <2>. QED
    BY <1>1, <1>2, <2>1, AlikeSame DEF TurnsTo, Goes
<1>3. CASE kind = "client"
  <2>1. task' = [task EXCEPT ![t] = NoCall] /\ NoCall \in TaskType
    BY <1>3, Bounds DEF Initialized, NoCall, TaskType, Pcs
  <2>2. Goes(t, "idle", None, None)
    BY <1>1, <2>1 DEF Goes, NoCall
  <2>. QED
    BY <1>1, <1>3, <2>2, AlikeSame DEF TurnsTo, Goes
<1>. QED
  BY <1>1, <1>2, <1>3

-----------------------------------------------------------------------------
(***************************************************************************)
(* The steps, and the types                                                *)
(***************************************************************************)
\* What is known of connections at any point of a step.
Sound(c) ==
    /\ Typed(c) /\ Fits(c)
    /\ \A i \in Connections : i > connects => c[i] = NoConnection

LEMMA SoundNow == ASSUME TypeOK PROVE Sound(conn)
  BY ClientFields DEF Sound, TypeOK, Fresh

LEMMA SoundReasoned ==
    ASSUME NEW c, Sound(c), NEW d, NEW S, NEW why, Reasoned(c, d, S, why),
           \A i \in S : ~(i > connects)
    PROVE  Sound(d)
  BY DEF Sound, Reasoned, Fits

LEMMA SoundRuns ==
    ASSUME NEW c, Sound(c), NEW d, NEW i \in Connections,
           NEW process \in {"alive", "exited"}, Runs(c, d, i, process), ~(i > connects)
    PROVE  Sound(d)
  BY DEF Sound, Runs, Fits

LEMMA SoundAlike ==
    ASSUME NEW c, Sound(c), NEW d, Alike(c, d)
    PROVE  Sound(d)
  BY DEF Sound, Alike

\* An exception in connect() or in a query().
FailsTo(t) ==
    \E c : /\ UnwindTo(t, c)
           /\ \/ /\ Alike(conn, c)
                 /\ \/ task[t].pc \in {"connecting", "initializing"}
                    \/ kind = "query" /\ task[t].pc = "iterating"
              \/ /\ task[t].pc = "connecting"
                 /\ \E d : /\ Runs(conn, d, task[t].at, "alive")
                           /\ Reasoned(d, c, {task[t].at}, "setup")

LoadFailsTo(t) == task[t].pc = "loading" /\ EndsTo(t) /\ UNCHANGED <<client, conn>>

DiscardsTo(t) ==
    /\ task[t].pc = "subkeys" /\ UNCHANGED <<client, conn, ended>>
    /\ Goes(t, "discarding", task[t].at, task[t].of)

LoadedTo(t) ==
    /\ ended' = ended
    /\ \/ task[t].pc = "loading" /\ AssignsTo(t, task[t].at, FALSE)
       \/ task[t].pc = "subkeys" /\ AssignsTo(t, task[t].at, TRUE)

TaskStep(t) ==
    \/ LoadedTo(t) \/ LoadsTo(t) \/ LoadFailsTo(t) \/ DiscardsTo(t)
    \/ (\E forgets \in BOOLEAN : RemovedTo(t, forgets))
    \/ SpawnsTo(t) \/ FailsTo(t) \/ DisconnectsTo(t)
    \/ QueryClosesTo(t) \/ BreaksTo(t) \/ AbortsTo(t) \/ TurnsTo(t) \/ RestsTo

Step ==
    /\ setup' = setup /\ kind' = kind
    /\ store' \in {"answers", "hangs"}
    /\ answer' \in [conn : MaybeConnection, from : Nat, to : Nat, given : Seq(Nat)]
    /\ \/ \E t \in setup.tasks : ConnectsTo(t)
       \/ connects' = connects /\ \E t \in setup.tasks : TaskStep(t)
       \/ connects' = connects /\ RestsTo

-----------------------------------------------------------------------------
(***************************************************************************)
(* The invariant                                                           *)
(***************************************************************************)
\* Before it is spawned a connection has no process, and its directory is
\* there once the transcript is; what _query holds or held was spawned.
Unspawned ==
    /\ \A t \in setup.tasks : task[t].pc \in Making \cup {"connecting"} =>
          conn[task[t].at].process = "none"
    /\ \A t \in setup.tasks :
          /\ task[t].pc = "loading" => conn[task[t].at].dir = "none"
          /\ task[t].pc = "subkeys" => conn[task[t].at].dir = "present"
          /\ task[t].pc = "closing" => conn[task[t].at].process # "none"
    /\ client.query # None => conn[client.query].process # "none"

OneConnects ==
    \A t, u \in setup.tasks :
        task[t].pc \in ConnectPcs /\ task[u].pc \in ConnectPcs => t = u

\* What is being made is known to nobody else, as long as it is not taken.
Own ==
    \A t \in setup.tasks :
        task[t].pc \in Making \/ (task[t].pc = "connecting" /\ conn[task[t].at].cut = {}) =>
            /\ task[t].at \notin ended
            /\ \A u \in setup.tasks \ {t} : task[u].at # task[t].at /\ task[u].of # task[t].at

Unassigned ==
    \A t \in setup.tasks : task[t].pc \in Making => client.materialized # task[t].at

Newest ==
    \A t \in setup.tasks : task[t].pc \in {"connecting", "initializing"} =>
        client.materialized \in {task[t].at, None}

\* What a task is removing, and what the removal may not be in order for.
Remover(i) ==
    \E t \in setup.tasks : task[t].pc \in {"discarding", "cleaning"} /\ task[t].at = i
Excused(i) ==
    conn[i].cut \cap {"setup", "taken"} # {} \/ ("raw_cancel" \in conn[i].cut /\ kind = "query")

\* A directory that is removed has no process, nor is one about to be spawned.
DirSafe ==
    \A i \in Connections : conn[i].dir \in {"removed", "left"} \/ Remover(i) =>
        \/ Excused(i)
        \/ /\ conn[i].process # "alive"
           /\ \A u \in setup.tasks : task[u].pc = "connecting" => task[u].at # i

\* The process on the directory that disconnect() would remove is the one
\* that it would close before.
HeldRuns ==
    \A i \in Connections : client.materialized = i /\ conn[i].process = "alive" =>
        client.query = i \/ Excused(i)
InitRuns ==
    \A t \in setup.tasks :
        task[t].pc = "initializing" /\ conn[task[t].at].process = "alive" =>
            client.query = task[t].at \/ conn[task[t].at].cut # {}

\* Who knows of a directory, and of a process.
DirKnown ==
    \A i \in Connections : conn[i].dir = "present" /\ conn[i].cut = {} =>
        \/ client.materialized = i \/ Remover(i)
        \/ \E t \in setup.tasks : task[t].pc = "subkeys" /\ task[t].at = i
ProcessKnown ==
    \A i \in Connections : conn[i].process = "alive" /\ conn[i].cut = {} =>
        client.query = i \/ BeingClosed(i)

\* The one task of a query() is always at the Query of the client.
QueryKind ==
    kind = "query" => \A t \in setup.tasks :
        /\ task[t].pc \in {"initializing", "iterating", "closing"} => client.query = task[t].at
        /\ task[t].pc = "iterating" => task[t].of = task[t].at

\* What a call that leaves has done for its connection so far.
Gone(i) == conn[i].process # "alive" /\ client.query # i
Cleared(i) == conn[i].dir = "present" => Remover(i)
Leaving ==
    \A t \in setup.tasks :
        task[t].pc \in {"closing", "cleaning"} /\ conn[task[t].of].cut = {} =>
            LET i == task[t].of IN
            IF task[t].pc = "cleaning" THEN Gone(i) /\ Cleared(i)
            ELSE (i = task[t].at \/ Gone(i)) /\ (client.query = task[t].at \/ Cleared(i))
EndedGone == \A i \in ended : conn[i].cut = {} => Gone(i) /\ Cleared(i)

SessionInv ==
    /\ TypeOK
    /\ Unspawned /\ OneConnects /\ Own /\ Unassigned /\ Newest
    /\ DirSafe /\ HeldRuns /\ InitRuns
    /\ DirKnown /\ ProcessKnown /\ QueryKind /\ Leaving /\ EndedGone

-----------------------------------------------------------------------------
(***************************************************************************)
(* The steps                                                               *)
(***************************************************************************)
LEMMA StoreTypes == ASSUME VarTypes
    PROVE /\ store \in {"answers", "hangs"}
          /\ answer \in [conn : MaybeConnection, from : Nat, to : Nat, given : Seq(Nat)]
  BY DEF VarTypes

LEMMA ProgressSteps ==
    ASSUME TypeOK, Unspawned, NEW t \in setup.tasks, Progress(t)
    PROVE  Step
<1>1. CASE LoadsNothing(t)
  BY <1>1, LoadsNothingDoes, StoreTypes DEF LoadsNothing, Step, TaskStep, LoadedTo, TypeOK
<1>2. CASE Loads(t)
  BY <1>2, LoadsDoes, StoreTypes DEF Loads, Step, TaskStep, TypeOK
<1>3. CASE LoadFails(t)
  BY <1>3, LoadFailsDoes, StoreTypes DEF LoadFails, Step, TaskStep, LoadFailsTo, TypeOK
<1>4. CASE SubkeysLoaded(t)
  BY <1>4, SubkeysLoadedDoes, StoreTypes
     DEF SubkeysLoaded, Step, TaskStep, LoadedTo, TypeOK
<1>5. CASE SubkeysFail(t)
  BY <1>5, SubkeysFailDoes, StoreTypes DEF SubkeysFail, Step, TaskStep, DiscardsTo, TypeOK
<1>6. CASE Removes(t)
  BY <1>6, RemovesDoes, StoreTypes DEF Removes, Step, TaskStep, TypeOK
<1>7. CASE RemoveBlocked(t)
  BY <1>7, RemoveBlockedDoes, StoreTypes DEF RemoveBlocked, Step, TypeOK
<1>8. CASE Sweep(t)
  BY <1>8, SweepDoes, StoreTypes DEF Sweep, Step, TaskStep, TypeOK
<1>9. CASE Spawns(t)
  <2>1. task[t].pc = "connecting"
    BY <1>9 DEF Spawns
  <2>2. SpawnsTo(t)
    BY <1>9, <2>1, SpawnsDoes DEF Unspawned
  <2>. QED
    BY <1>9, <2>2, StoreTypes DEF Spawns, Step, TaskStep, TypeOK
<1>10. CASE Initialized(t)
  BY <1>10, InitializedDoes, StoreTypes DEF Initialized, Step, TaskStep, TypeOK
<1>11. CASE InitializeFails(t)
  <2>1. FailsTo(t)
    BY <1>11, InitializeFailsDoes, SoundNow, AlikeNow DEF FailsTo
  <2>. QED
    BY <1>11, <2>1, StoreTypes DEF InitializeFails, Step, TaskStep, TypeOK
<1>12. CASE QueryCloses(t)
  BY <1>12, QueryClosesDoes, StoreTypes DEF QueryCloses, Step, TaskStep, TypeOK
<1>13. CASE CloseBreaks(t)
  BY <1>13, CloseBreaksDoes, StoreTypes DEF CloseBreaks, Step, TaskStep, TypeOK
<1>. QED
  BY <1>1, <1>2, <1>3, <1>4, <1>5, <1>6, <1>7, <1>8, <1>9, <1>10, <1>11, <1>12, <1>13
     DEF Progress

LEMMA FailureSteps ==
    ASSUME TypeOK, Unspawned, NEW t \in setup.tasks, Failure(t)
    PROVE  Step
<1>1. CASE LoadFails(t)
  BY <1>1, LoadFailsDoes, StoreTypes DEF LoadFails, Step, TaskStep, LoadFailsTo, TypeOK
<1>2. CASE SubkeysFail(t)
  BY <1>2, SubkeysFailDoes, StoreTypes DEF SubkeysFail, Step, TaskStep, DiscardsTo, TypeOK
<1>3. CASE SpawnFails(t)
  <2>1. FailsTo(t)
    BY <1>3, SpawnFailsDoes, AlikeNow DEF FailsTo
  <2>. QED
    BY <1>3, <2>1, StoreTypes DEF SpawnFails, Step, TaskStep, TypeOK
<1>4. CASE SetUpFails(t)
  <2>1. task[t].pc = "connecting"
    BY <1>4 DEF SetUpFails
  <2>2. PICK c : SetsUpTo(t, c)
    BY <1>4, <2>1, SetUpFailsDoes DEF Unspawned
  <2>3. FailsTo(t)
    BY <2>2 DEF SetsUpTo, FailsTo
  <2>. QED
    BY <1>4, <2>3, StoreTypes DEF SetUpFails, Step, TaskStep, TypeOK
<1>5. CASE InitializeFails(t)
  <2>1. FailsTo(t)
    BY <1>5, InitializeFailsDoes, AlikeNow DEF FailsTo
  <2>. QED
    BY <1>5, <2>1, StoreTypes DEF InitializeFails, Step, TaskStep, TypeOK
<1>6. CASE CloseAborted(t)
  BY <1>6, CloseAbortedDoes, StoreTypes DEF CloseAborted, Step, TaskStep, TypeOK
<1>7. CASE Cancel(t)
  BY <1>7, CancelDoes, StoreTypes DEF Cancel, Step, TypeOK
<1>. QED
  BY <1>1, <1>2, <1>3, <1>4, <1>5, <1>6, <1>7 DEF Failure

LEMMA IterationSteps ==
    ASSUME TypeOK, NEW t \in setup.tasks, Iteration(t)
    PROVE  Step
<1>1. CASE Receive(t)
  BY <1>1, ReceiveDoes, StoreTypes DEF Receive, Step, TaskStep, TypeOK
<1>2. CASE Takes(t)
  BY <1>2, TakesDoes, StoreTypes DEF Takes, Step, TypeOK
<1>3. CASE TakesRefused(t)
  <2>1. TurnsTo(t) \/ FailsTo(t)
    BY <1>3, TakesRefusedDoes DEF RefusedTo, FailsTo
  <2>. QED
    BY <1>3, <2>1, StoreTypes DEF TakesRefused, Step, TaskStep, TypeOK
<1>4. CASE Answered(t)
  BY <1>4, AnsweredDoes, StoreTypes DEF Answered, Step, TaskStep, TypeOK
<1>5. CASE Leaves(t)
  BY <1>5, LeavesDoes, StoreTypes DEF Leaves, Step, TaskStep, TypeOK
<1>. QED
  BY <1>1, <1>2, <1>3, <1>4, <1>5 DEF Iteration

LEMMA NextSteps ==
    ASSUME TypeOK, Unspawned, [SessionNext]_sessionVars
    PROVE  Step
<1>1. ASSUME NEW t \in setup.tasks, Connect(t) PROVE Step
  BY <1>1, ConnectDoes, StoreTypes DEF Connect, Step, TypeOK
<1>2. ASSUME NEW t \in setup.tasks, Disconnect(t) PROVE Step
  BY <1>2, DisconnectDoes, StoreTypes DEF Disconnect, Step, TaskStep, TypeOK
<1>3. ASSUME NEW i \in Connections, ProcessExits(i) PROVE Step
  BY <1>3, ProcessExitsDoes, StoreTypes DEF ProcessExits, Step, TypeOK
<1>4. ASSUME NEW i \in Connections, FilesFreed(i) PROVE Step
  BY <1>4, FilesFreedDoes, StoreTypes DEF FilesFreed, Step, TypeOK
<1>5. CASE UNCHANGED sessionVars
  <2>1. RestsTo
    BY <1>5, AlikeSame, ClientFields DEF RestsTo, sessionVars, TypeOK
  <2>. QED
    BY <1>5, <2>1, StoreTypes DEF sessionVars, Step, TypeOK
<1>. QED
  BY <1>1, <1>2, <1>3, <1>4, <1>5, ProgressSteps, FailureSteps, IterationSteps
     DEF SessionNext

LEMMA NumbersKnown ==
    ASSUME TypeOK
    PROVE  /\ connects \in Nat /\ ~(client.query > connects)
           /\ ~(client.materialized > connects)
           /\ \A t \in setup.tasks : ~(task[t].at > connects) /\ ~(task[t].of > connects)
           /\ \A t \in setup.tasks :
                 task[t].at \in MaybeConnection /\ task[t].of \in MaybeConnection
           /\ client.query \in MaybeConnection /\ client.materialized \in MaybeConnection
           /\ \A i \in MaybeConnection : i \in Nat
           /\ VarTypes
<1>1. VarTypes
  BY DEF TypeOK
<1>2. /\ \A t \in setup.tasks :
            task[t].at \in MaybeConnection /\ task[t].of \in MaybeConnection
      /\ client.query \in MaybeConnection /\ client.materialized \in MaybeConnection
      /\ \A i \in MaybeConnection : i \in Nat
      /\ connects \in Nat
  BY <1>1, ClientFields, TaskFields, Counts
<1>. QED
  BY <1>1, <1>2 DEF TypeOK, Fresh

\* Where a task may be: the conditions of Places and Fresh.
PlaceOK(pc, at, of) ==
    /\ pc # "idle" => at # None
    /\ pc \in ConnectPcs => of = at
    /\ pc \in {"closing", "cleaning"} => of # None
    /\ pc = "idle" => at = None /\ of = None
    /\ pc = "iterating" /\ kind = "client" => of = None
    /\ at <= connects' /\ of <= connects'

\* All that a step does to the types but where the tasks are.
Keeps ==
    /\ client' \in ClientType /\ Sound(conn')
    /\ client'.query <= connects' /\ client'.materialized <= connects'
    /\ connects' \in 0..MaxConnects /\ connects' >= connects
    /\ ended' \subseteq Connections /\ \A i \in ended' : i <= connects'

LEMMA CountsGrow ==
    ASSUME TypeOK, Keeps, NEW n \in MaybeConnection
    PROVE  /\ n \in Nat /\ connects \in Nat /\ connects' \in Nat /\ connects' >= connects
           /\ n > connects' => n > connects
           /\ ~(n > connects) => n <= connects'
<1>1. n \in Nat /\ connects \in Nat
  BY NumbersKnown
<1>2. connects' \in Nat /\ connects' >= connects
  BY Bounds DEF Keeps
<1>. QED
  BY <1>1, <1>2

LEMMA TypeKeeps ==
    ASSUME TypeOK, Step, Keeps, Places', task' \in [setup.tasks -> TaskType],
           \A t \in setup.tasks : task'[t].at <= connects' /\ task'[t].of <= connects'
    PROVE  TypeOK'
<1>1. VarTypes'
  BY DEF VarTypes, TypeOK, Step, Keeps, Sound, Typed
<1>2. Fits(conn)'
  BY DEF Keeps, Sound, Fits
<1>3. Fresh'
  <2>1. \A i \in Connections : i > connects' => conn'[i] = NoConnection
    BY CountsGrow, Bounds DEF Keeps, Sound
  <2>2. \A i \in Connections : i > connects' => i \notin ended'
    <3>. SUFFICES ASSUME NEW i \in Connections, i > connects', i \in ended' PROVE FALSE
      OBVIOUS
    <3>1. i <= connects' /\ i \in Nat /\ connects' \in Nat
      BY CountsGrow, Bounds DEF Keeps
    <3>. QED
      BY <3>1
  <2>. QED
    BY <2>1, <2>2 DEF Fresh, Keeps, Step
<1>. QED
  BY <1>1, <1>2, <1>3 DEF TypeOK

LEMMA TypeGoes ==
    ASSUME TypeOK, Step, Keeps, NEW t \in setup.tasks, NEW pc, NEW at, NEW of,
           Goes(t, pc, at, of), PlaceOK(pc, at, of)
    PROVE  TypeOK'
<1>1. Places'
  <2>1. Places /\ setup' = setup /\ kind' = kind
    BY DEF TypeOK, Step
  <2>. QED
    BY <2>1 DEF Places, Goes, PlaceOK
<1>2. ASSUME NEW u \in setup.tasks PROVE task'[u].at <= connects' /\ task'[u].of <= connects'
  <2>1. CASE u = t
    BY <2>1 DEF Goes, PlaceOK
  <2>2. CASE u # t
    <3>1. task'[u].at = task[u].at /\ task'[u].of = task[u].of
      BY <2>2 DEF Goes
    <3>. QED
      BY <3>1, NumbersKnown, CountsGrow
  <2>. QED
    BY <2>1, <2>2
<1>. QED
  BY <1>1, <1>2, TypeKeeps DEF Goes

-----------------------------------------------------------------------------
(***************************************************************************)
(* Each kind of step keeps the invariant                                   *)
(***************************************************************************)
\* Only reasons are added, or what is not of directories and processes.
Same(c, d) ==
    \A i \in Connections :
        d[i].dir = c[i].dir /\ d[i].process = c[i].process /\ c[i].cut \subseteq d[i].cut

LEMMA ReasonedSame ==
    ASSUME NEW c, NEW d, NEW S, NEW why, Reasoned(c, d, S, why)
    PROVE  Same(c, d) /\ \A i \in Connections : i \in S => why \in d[i].cut
  BY DEF Same, Reasoned

LEMMA AlikeSameToo == ASSUME NEW c, NEW d, Alike(c, d) PROVE Same(c, d)
  BY DEF Same, Alike

LEMMA SameExcuses ==
    ASSUME Same(conn, conn'), kind' = kind
    PROVE  \A i \in Connections :
              /\ Excused(i) => Excused(i)'
              /\ conn'[i].cut = {} => conn[i].cut = {}
  BY DEF Same, Excused

\* A query() has one task.
LEMMA OneTask ==
    ASSUME VarTypes, kind = "query"
    PROVE  \A t, u \in setup.tasks : t = u
  BY SessionAssumption DEF VarTypes

LEMMA Here ==
    ASSUME TypeOK
    PROVE  /\ \A t \in setup.tasks : task[t].pc # "idle" => task[t].at \in Connections
           /\ \A t \in setup.tasks :
                 task[t].pc \in {"closing", "cleaning"} => task[t].of \in Connections
           /\ client.query # None => client.query \in Connections
           /\ client.materialized # None => client.materialized \in Connections
           /\ None \notin Connections /\ ended \subseteq Connections
           /\ \A t \in setup.tasks :
                 task[t].pc = "idle" => task[t].at = None /\ task[t].of = None
           /\ \A t \in setup.tasks : task[t].pc \in ConnectPcs => task[t].of = task[t].at
  BY ClientFields, TaskFields, Bounds DEF TypeOK, Places, VarTypes

\* What is known of is known of still.
LEMMA KnownStill ==
    ASSUME TypeOK, connects' \in 0..MaxConnects, connects' >= connects
    PROVE  /\ connects' \in Nat /\ None <= connects'
           /\ \A n \in MaybeConnection : ~(n > connects) => n <= connects'
<1>1. connects \in Nat /\ connects' \in Nat
  BY NumbersKnown, Bounds
<1>. QED
  BY <1>1, NumbersKnown, Bounds

\* A connection that no call but t's knows of.
Unknown(t, i) ==
    /\ conn[i].process = "none" /\ i \notin ended /\ client.query # i
    /\ client.materialized # i /\ ~Remover(i)
    /\ \A u \in setup.tasks \ {t} : task[u].at # i /\ task[u].of # i

LEMMA AssignsKeeps ==
    ASSUME SessionInv, Step, NEW t \in setup.tasks, NEW i \in Connections,
           NEW on \in BOOLEAN, AssignsTo(t, i, on), ended' = ended, Unknown(t, i),
           task[t].pc \in {"idle", "loading", "subkeys"},
           \A u \in setup.tasks \ {t} : task[u].pc \notin ConnectPcs,
           conn[i].dir = IF on THEN "present" ELSE "none",
           task[t].pc = "subkeys" => task[t].at = i /\ on,
           i <= connects', connects' >= connects, connects' \in 0..MaxConnects
    PROVE  SessionInv'
<1>. DEFINE m == client.materialized
            m2 == IF on THEN i ELSE None
<1>1. /\ TypeOK /\ VarTypes /\ setup' = setup /\ kind' = kind
      /\ Goes(t, "connecting", i, i) /\ Knows(client.query, m2)
  BY DEF SessionInv, TypeOK, Step, AssignsTo
<1>2. PICK old \in SUBSET {m} :
         /\ Reasoned(conn, conn', old, "replaced") /\ None \notin old
         /\ m # None /\ conn[m].dir = "present" =>
               m \in old \/ \E u \in setup.tasks : task[u].pc = "cleaning" /\ task[u].at = m
  BY DEF AssignsTo
<1>3. /\ Same(conn, conn') /\ \A j \in Connections : j \in old => conn'[j].cut # {}
      /\ \A j \in Connections : Excused(j) => Excused(j)'
      /\ \A j \in Connections : conn'[j].cut = {} => conn[j].cut = {}
  BY <1>1, <1>2, ReasonedSame, SameExcuses
<1>4. /\ task'[t].pc = "connecting" /\ task'[t].at = i /\ task'[t].of = i
      /\ \A u \in setup.tasks \ {t} : task'[u] = task[u]
      /\ client'.query = client.query /\ client'.materialized = m2
  BY <1>1 DEF Goes, Knows
<1>5. TypeOK'
  <2>1. Keeps
    <3>1. Sound(conn')
      BY <1>1, <1>2, SoundNow, SoundReasoned, NumbersKnown
    <3>2. client'.query <= connects' /\ client'.materialized <= connects'
      <4>1. client'.query <= connects' /\ connects' \in Nat
        BY <1>1, <1>4, NumbersKnown, KnownStill
      <4>2. m2 <= connects'
        BY <4>1, Bounds
      <4>. QED
        BY <1>4, <4>1, <4>2
    <3>3. ended' \subseteq Connections /\ \A j \in ended' : j <= connects'
      BY <1>1, CountsGrow, Bounds DEF VarTypes, TypeOK, Fresh
    <3>. QED
      BY <1>1, <3>1, <3>2, <3>3 DEF Keeps, Knows
  <2>2. PlaceOK("connecting", i, i)
    BY Bounds DEF PlaceOK, ConnectPcs
  <2>. QED
    BY <1>1, <2>1, <2>2, TypeGoes
<1>6. \A j \in Connections : Remover(j)' <=> Remover(j)
  BY <1>1, <1>4 DEF Remover
<1>7. \A j \in Connections : BeingClosed(j)' <=> BeingClosed(j)
  BY <1>1, <1>4 DEF BeingClosed
<1>8. \A u \in setup.tasks : task'[u].pc \in ConnectPcs => u = t
  BY <1>4
<1>9. (Unspawned /\ OneConnects /\ Own /\ Unassigned /\ Newest)'
  <2>1. Unspawned'
    BY <1>1, <1>3, <1>4, <1>8, Here
       DEF Unspawned, Unknown, Making, ConnectPcs, Same, SessionInv
  <2>2. OneConnects'
    BY <1>1, <1>8 DEF OneConnects
  <2>3. Own' /\ Unassigned' /\ Newest'
    BY <1>1, <1>4, <1>8 DEF Own, Unassigned, Newest, Unknown, Making, ConnectPcs
  <2>. QED
    BY <2>1, <2>2, <2>3
<1>10. DirSafe'
  BY <1>1, <1>3, <1>4, <1>6, <1>8 DEF DirSafe, Unknown, Same, ConnectPcs, SessionInv
<1>11. HeldRuns' /\ InitRuns'
  BY <1>3, <1>1, <1>4, <1>8, Bounds DEF HeldRuns, InitRuns, Unknown, Same, ConnectPcs
<1>12. DirKnown'
  BY <1>1, <1>2, <1>3, <1>4, <1>6, Bounds
     DEF DirKnown, Remover, Same, ConnectPcs, SessionInv
<1>13. ProcessKnown'
  BY <1>3, <1>4, <1>7 DEF ProcessKnown, Same, SessionInv
<1>14. QueryKind'
  BY <1>1, <1>4, OneTask DEF QueryKind, SessionInv
<1>15. Leaving' /\ EndedGone'
  BY <1>1, <1>3, <1>4, <1>6, Here
     DEF Leaving, EndedGone, Gone, Cleared, Same, SessionInv
<1>. QED
  BY <1>5, <1>9, <1>10, <1>11, <1>12, <1>13, <1>14, <1>15 DEF SessionInv

\* Nobody knows of the next connection.
LEMMA NextUnknown ==
    ASSUME TypeOK, NEW t \in setup.tasks, connects + 1 \in Connections, task[t].pc = "idle"
    PROVE  LET n == connects + 1 IN
           /\ Unknown(t, n) /\ conn[n] = NoConnection /\ n # None
           /\ task[t].at # n /\ task[t].of # n
           /\ connects + 1 \in 0..MaxConnects /\ connects + 1 >= connects
           /\ connects + 1 <= connects + 1 /\ connects <= connects + 1
<1>. DEFINE n == connects + 1
<1>1. connects \in Nat /\ MaxConnects \in Nat
  BY NumbersKnown, Bounds
<1>2. /\ n > connects /\ n \in 0..MaxConnects /\ n >= connects /\ n <= n
      /\ connects <= n /\ n # None
  BY <1>1 DEF Connections, None
<1>. HIDE DEF n
<1>3. conn[n] = NoConnection /\ n \notin ended
  BY <1>2 DEF TypeOK, Fresh, n
<1>4. /\ client.query # n /\ client.materialized # n
      /\ \A u \in setup.tasks : task[u].at # n /\ task[u].of # n
  BY <1>2, NumbersKnown
<1>. QED
  BY <1>2, <1>3, <1>4 DEF Unknown, Remover, NoConnection, n

LEMMA ConnectsKeeps ==
    ASSUME SessionInv, Step, NEW t \in setup.tasks, ConnectsTo(t)
    PROVE  SessionInv'
<1>. DEFINE n == connects + 1
<1>1. /\ TypeOK /\ VarTypes /\ setup' = setup /\ kind' = kind /\ task[t].pc = "idle"
      /\ \A u \in setup.tasks : task[u].pc \notin ConnectPcs
      /\ connects' = n /\ n \in Connections /\ ended' = ended
  BY DEF SessionInv, TypeOK, Step, ConnectsTo
<1>2. /\ Unknown(t, n) /\ conn[n] = NoConnection /\ n # None
      /\ n \in 0..MaxConnects /\ n >= connects /\ n <= n /\ connects <= n
  BY <1>1, NextUnknown
<1>3. CASE AssignsTo(t, n, FALSE)
  <2>. HIDE DEF n
  <2>1. conn[n].dir = "none"
    BY <1>2 DEF NoConnection
  <2>. QED
    BY <1>1, <1>2, <1>3, <2>1, AssignsKeeps
<1>4. CASE Goes(t, "loading", n, n) /\ client' = client /\ conn' = conn
  <2>. HIDE DEF n
  <2>1. /\ task'[t].pc = "loading" /\ task'[t].at = n /\ task'[t].of = n
        /\ \A u \in setup.tasks \ {t} : task'[u] = task[u]
    BY <1>4 DEF Goes
  <2>2. TypeOK'
    <3>1. \A i \in Connections : i > connects' => conn'[i] = NoConnection
      <4>1. connects \in Nat /\ n \in Nat /\ n >= connects
        BY <1>1, NumbersKnown DEF n
      <4>2. ASSUME NEW i \in Connections, i > n PROVE i > connects
        BY <4>1, <4>2 DEF Connections
      <4>. QED
        BY <1>1, <1>4, <4>2, SoundNow DEF Sound
    <3>2. Sound(conn')
      BY <1>1, <1>4, <3>1, SoundNow DEF Sound
    <3>3. client'.query <= connects' /\ client'.materialized <= connects'
      BY <1>1, <1>2, <1>4, NumbersKnown, KnownStill
    <3>4. ended' \subseteq Connections /\ \A j \in ended' : j <= connects'
      BY <1>1, <1>2, KnownStill, Bounds DEF VarTypes, TypeOK, Fresh
    <3>5. Keeps
      BY <1>1, <1>2, <1>4, <3>2, <3>3, <3>4 DEF Keeps, VarTypes
    <3>6. PlaceOK("loading", n, n)
      BY <1>1, <1>2 DEF PlaceOK, ConnectPcs
    <3>. QED
      BY <1>1, <1>4, <3>5, <3>6, TypeGoes
  <2>3. \A u \in setup.tasks : task'[u].pc \in ConnectPcs => u = t
    BY <1>1, <2>1
  <2>4. \A j : (Remover(j)' <=> Remover(j)) /\ (BeingClosed(j)' <=> BeingClosed(j))
    BY <1>1, <2>1 DEF Remover, BeingClosed
  <2>5. Unspawned' /\ OneConnects' /\ Own' /\ Unassigned' /\ Newest'
    BY <1>1, <1>2, <1>4, <2>1, <2>3
       DEF SessionInv, Unspawned, OneConnects, Own, Unassigned, Newest, Unknown, Making,
           ConnectPcs, NoConnection
  <2>6. DirSafe' /\ HeldRuns' /\ InitRuns'
    BY <1>1, <1>4, <2>1, <2>3, <2>4
       DEF SessionInv, DirSafe, HeldRuns, InitRuns, Excused, ConnectPcs
  <2>7. DirKnown' /\ ProcessKnown'
    BY <1>1, <1>4, <2>1, <2>4 DEF SessionInv, DirKnown, ProcessKnown, ConnectPcs
  <2>8. QueryKind'
    BY <1>1, <1>4, <2>1, OneTask DEF SessionInv, QueryKind
  <2>9. Leaving' /\ EndedGone'
    BY <1>1, <1>4, <2>1, <2>4 DEF SessionInv, Leaving, EndedGone, Gone, Cleared
  <2>. QED
    BY <2>2, <2>5, <2>6, <2>7, <2>8, <2>9 DEF SessionInv
<1>. QED
  BY <1>1, <1>3, <1>4 DEF ConnectsTo

\* The connection of a task that is making it.
LEMMA MakingUnknown ==
    ASSUME SessionInv, NEW t \in setup.tasks, task[t].pc \in Making
    PROVE  /\ task[t].at \in Connections /\ task[t].of = task[t].at
           /\ task[t].pc # "discarding" => Unknown(t, task[t].at)
           /\ \A u \in setup.tasks \ {t} : task[u].pc \notin ConnectPcs
           /\ task[t].at <= connects /\ ~(task[t].at > connects)
           /\ conn[task[t].at].process = "none" /\ task[t].at \notin ended
           /\ client.query # task[t].at /\ client.materialized # task[t].at
           /\ \A u \in setup.tasks \ {t} : task[u].at # task[t].at /\ task[u].of # task[t].at
<1>1. TypeOK
  BY DEF SessionInv
<1>2. task[t].at \in Connections /\ task[t].of = task[t].at
  BY <1>1, Here DEF Making, ConnectPcs
<1>3. task[t].at <= connects /\ ~(task[t].at > connects)
  BY <1>1, NumbersKnown DEF TypeOK, Fresh
<1>4. \A u \in setup.tasks \ {t} : task[u].pc \notin ConnectPcs
  BY DEF SessionInv, OneConnects, Making, ConnectPcs
<1>5. conn[task[t].at].process = "none" /\ client.query # task[t].at
  BY <1>1, <1>2, Here DEF SessionInv, Unspawned
<1>6. /\ task[t].at \notin ended /\ client.materialized # task[t].at
      /\ \A u \in setup.tasks \ {t} : task[u].at # task[t].at /\ task[u].of # task[t].at
  BY DEF SessionInv, Own, Unassigned
<1>7. task[t].pc # "discarding" => ~Remover(task[t].at)
  BY <1>6 DEF Remover, Making
<1>. QED
  BY <1>2, <1>3, <1>4, <1>5, <1>6, <1>7 DEF Unknown

LEMMA CountSame ==
    ASSUME TypeOK, connects' = connects
    PROVE  connects' \in 0..MaxConnects /\ connects' >= connects
<1>1. connects \in Nat
  BY NumbersKnown
<1>. QED
  BY <1>1 DEF TypeOK, VarTypes

LEMMA LoadedKeeps ==
    ASSUME SessionInv, Step, connects' = connects, NEW t \in setup.tasks, LoadedTo(t)
    PROVE  SessionInv'
<1>. DEFINE i == task[t].at
<1>1. PICK on \in BOOLEAN :
         /\ task[t].pc = IF on THEN "subkeys" ELSE "loading"
         /\ AssignsTo(t, i, on) /\ ended' = ended
  BY DEF LoadedTo
<1>2. /\ i \in Connections /\ Unknown(t, i) /\ i <= connects
      /\ \A u \in setup.tasks \ {t} : task[u].pc \notin ConnectPcs
  BY <1>1, MakingUnknown DEF Making
<1>3. conn[i].dir = IF on THEN "present" ELSE "none"
  BY <1>1 DEF SessionInv, Unspawned
<1>4. connects' \in 0..MaxConnects /\ connects' >= connects /\ i <= connects'
  BY <1>2, CountSame DEF SessionInv
<1>. QED
  BY <1>1, <1>2, <1>3, <1>4, AssignsKeeps

LEMMA KeepsStill ==
    ASSUME TypeOK, connects' = connects, NEW query \in MaybeConnection,
           NEW materialized \in MaybeConnection, Knows(query, materialized), Sound(conn'),
           ~(query > connects), ~(materialized > connects),
           ended' \subseteq Connections, \A i \in ended' : ~(i > connects)
    PROVE  Keeps
  BY CountSame, KnownStill, Bounds DEF Keeps, Knows

LEMMA LoadsKeeps ==
    ASSUME SessionInv, Step, connects' = connects, NEW t \in setup.tasks, LoadsTo(t)
    PROVE  SessionInv'
<1>. DEFINE i == task[t].at
<1>1. /\ TypeOK /\ VarTypes /\ setup' = setup /\ kind' = kind /\ task[t].pc = "loading"
      /\ client' = client /\ ended' = ended /\ task[t].of = i
  BY Here DEF SessionInv, TypeOK, Step, LoadsTo, ConnectPcs
<1>2. PICK pc \in {"subkeys", "discarding"} : Goes(t, pc, i, i)
  BY <1>1 DEF LoadsTo
<1>3. /\ i \in Connections /\ Unknown(t, i) /\ ~(i > connects) /\ i \notin ended
      /\ \A u \in setup.tasks \ {t} : task[u].pc \notin ConnectPcs
  BY <1>1, MakingUnknown DEF Making, Unknown
<1>4. /\ Typed(conn') /\ \A j \in Connections \ {i} : conn'[j] = conn[j]
      /\ conn'[i].dir = "present" /\ conn'[i].process = "none"
      /\ conn'[i].cut = conn[i].cut /\ conn'[i].taken = conn[i].taken
      /\ conn'[i].sent = conn[i].sent /\ conn'[i].abandoned = conn[i].abandoned
  BY <1>3 DEF LoadsTo, Unknown
<1>5. /\ task'[t].pc = pc /\ task'[t].at = i /\ task'[t].of = i
      /\ \A u \in setup.tasks \ {t} : task'[u] = task[u]
  BY <1>2 DEF Goes
<1>6. TypeOK'
  <2>1. Sound(conn')
    BY <1>1, <1>3, <1>4, SoundNow DEF Sound, Fits, Unknown
  <2>2. Keeps
    BY <1>1, <2>1, NumbersKnown, KeepsStill, Here DEF Knows, VarTypes, TypeOK, Fresh
  <2>3. PlaceOK(pc, i, i)
    BY <1>1, <1>3, CountSame, KnownStill, Bounds DEF PlaceOK, ConnectPcs
  <2>. QED
    BY <1>1, <1>2, <2>2, <2>3, TypeGoes
<1>7. \A u \in setup.tasks : task'[u].pc \in ConnectPcs => u = t
  BY <1>3, <1>5
<1>8. \A j : (Remover(j) => Remover(j)') /\ (BeingClosed(j)' <=> BeingClosed(j))
  BY <1>1, <1>5 DEF Remover, BeingClosed
<1>9. \A j : Remover(j)' => Remover(j) \/ j = i
  BY <1>1, <1>5 DEF Remover
<1>10. Unspawned' /\ OneConnects' /\ Own' /\ Unassigned' /\ Newest'
  <2>1. Unspawned'
    BY <1>1, <1>3, <1>4, <1>5, <1>7, Here DEF SessionInv, Unspawned, Making, ConnectPcs
  <2>2. OneConnects' /\ Own'
    BY <1>1, <1>3, <1>5, <1>7 DEF OneConnects, Own, Unknown, Making, ConnectPcs
  <2>3. Unassigned' /\ Newest'
    BY <1>1, <1>3, <1>5, <1>7 DEF Unassigned, Newest, Unknown, Making, ConnectPcs
  <2>. QED
    BY <2>1, <2>2, <2>3
<1>11. DirSafe'
  BY <1>1, <1>3, <1>4, <1>5, <1>7, <1>9 DEF SessionInv, DirSafe, Excused, ConnectPcs
<1>12. HeldRuns' /\ InitRuns' /\ ProcessKnown'
  BY <1>1, <1>3, <1>4, <1>5, <1>7, <1>8
     DEF SessionInv, HeldRuns, InitRuns, ProcessKnown, Excused, ConnectPcs
<1>13. DirKnown'
  BY <1>1, <1>4, <1>5, <1>8 DEF SessionInv, DirKnown, Remover
<1>14. QueryKind'
  BY <1>1, <1>5, OneTask DEF SessionInv, QueryKind
<1>15. Leaving' /\ EndedGone'
  BY <1>1, <1>3, <1>4, <1>5, <1>8, Here
     DEF SessionInv, Leaving, EndedGone, Gone, Cleared, Unknown
<1>. QED
  BY <1>6, <1>10, <1>11, <1>12, <1>13, <1>14, <1>15 DEF SessionInv

\* A call ends and knows of nothing any more.
LEMMA TypeEnds ==
    ASSUME SessionInv, Step, connects' = connects, NEW t \in setup.tasks, EndsTo(t),
           NEW query \in MaybeConnection, NEW materialized \in MaybeConnection,
           Knows(query, materialized), Sound(conn'),
           ~(query > connects), ~(materialized > connects)
    PROVE  TypeOK'
<1>1. TypeOK /\ VarTypes
  BY DEF SessionInv, TypeOK
<1>2. \A i \in ended' : ~(i > connects)
  BY <1>1, NumbersKnown, Here DEF EndsTo, TypeOK, Fresh
<1>3. Keeps
  BY <1>1, <1>2, KeepsStill DEF EndsTo
<1>4. PlaceOK("idle", None, None)
  BY <1>1, CountSame, KnownStill DEF PlaceOK, ConnectPcs
<1>. QED
  BY <1>1, <1>3, <1>4, TypeGoes DEF EndsTo

LEMMA LoadFailsKeeps ==
    ASSUME SessionInv, Step, connects' = connects, NEW t \in setup.tasks, LoadFailsTo(t)
    PROVE  SessionInv'
<1>. DEFINE i == task[t].at
<1>1. /\ TypeOK /\ VarTypes /\ setup' = setup /\ kind' = kind /\ task[t].pc = "loading"
      /\ client' = client /\ conn' = conn /\ task[t].of = i /\ EndsTo(t)
  BY Here DEF SessionInv, TypeOK, Step, LoadFailsTo, ConnectPcs
<1>2. /\ i \in Connections /\ Unknown(t, i)
      /\ \A u \in setup.tasks \ {t} : task[u].pc \notin ConnectPcs
  BY <1>1, MakingUnknown DEF Making
<1>3. /\ task'[t].pc = "idle" /\ task'[t].at = None /\ task'[t].of = None
      /\ \A u \in setup.tasks \ {t} : task'[u] = task[u]
      /\ ended' = ended \cup {i}
  BY <1>1, <1>2, Bounds DEF EndsTo, Goes
<1>4. TypeOK'
  BY <1>1, SoundNow, NumbersKnown, TypeEnds DEF Knows, VarTypes
<1>5. \A j : (Remover(j)' <=> Remover(j)) /\ (BeingClosed(j)' <=> BeingClosed(j))
  BY <1>1, <1>3 DEF Remover, BeingClosed
<1>6. \A u \in setup.tasks : task'[u].pc \notin ConnectPcs
  BY <1>2, <1>3 DEF ConnectPcs
<1>7. Unspawned' /\ OneConnects' /\ Own' /\ Unassigned' /\ Newest'
  BY <1>1, <1>3, <1>6
     DEF SessionInv, Unspawned, OneConnects, Own, Unassigned, Newest, Making, ConnectPcs
<1>8. DirSafe' /\ HeldRuns' /\ InitRuns' /\ ProcessKnown'
  BY <1>1, <1>5, <1>6
     DEF SessionInv, DirSafe, HeldRuns, InitRuns, ProcessKnown, Excused, ConnectPcs
<1>9. DirKnown'
  BY <1>1, <1>3, <1>5 DEF SessionInv, DirKnown
<1>10. QueryKind'
  BY <1>1, <1>3, OneTask DEF SessionInv, QueryKind
<1>11. Leaving' /\ EndedGone'
  <2>1. \A j : (Gone(j) => Gone(j)') /\ (Cleared(j) => Cleared(j)')
    BY <1>1, <1>5 DEF Gone, Cleared
  <2>2. Gone(i) /\ Cleared(i)
    BY <1>1, <1>2 DEF SessionInv, Unspawned, Gone, Cleared, Unknown
  <2>3. Leaving'
    BY <1>1, <1>3, <2>1 DEF SessionInv, Leaving
  <2>4. EndedGone'
    BY <1>1, <1>3, <2>1, <2>2 DEF SessionInv, EndedGone
  <2>. QED
    BY <2>3, <2>4
<1>. QED
  BY <1>4, <1>7, <1>8, <1>9, <1>10, <1>11 DEF SessionInv

LEMMA DiscardsKeeps ==
    ASSUME SessionInv, Step, connects' = connects, NEW t \in setup.tasks, DiscardsTo(t)
    PROVE  SessionInv'
<1>. DEFINE i == task[t].at
<1>1. /\ TypeOK /\ VarTypes /\ setup' = setup /\ kind' = kind /\ task[t].pc = "subkeys"
      /\ client' = client /\ conn' = conn /\ ended' = ended /\ task[t].of = i
      /\ Goes(t, "discarding", i, i)
  BY Here DEF SessionInv, TypeOK, Step, DiscardsTo, ConnectPcs
<1>2. /\ i \in Connections /\ Unknown(t, i) /\ ~(i > connects)
      /\ \A u \in setup.tasks \ {t} : task[u].pc \notin ConnectPcs
  BY <1>1, MakingUnknown DEF Making
<1>3. /\ task'[t].pc = "discarding" /\ task'[t].at = i /\ task'[t].of = i
      /\ \A u \in setup.tasks \ {t} : task'[u] = task[u]
  BY <1>1 DEF Goes
<1>4. TypeOK'
  <2>1. Keeps
    BY <1>1, SoundNow, NumbersKnown, KeepsStill, Here DEF Knows, VarTypes, TypeOK, Fresh
  <2>2. PlaceOK("discarding", i, i)
    BY <1>1, <1>2, CountSame, KnownStill, Bounds DEF PlaceOK, ConnectPcs
  <2>. QED
    BY <1>1, <2>1, <2>2, TypeGoes
<1>5. \A u \in setup.tasks : task'[u].pc \in ConnectPcs => u = t
  BY <1>2, <1>3
<1>6. \A j : (Remover(j) => Remover(j)') /\ (BeingClosed(j)' <=> BeingClosed(j))
  BY <1>1, <1>3 DEF Remover, BeingClosed
<1>7. Remover(i)' /\ \A j : Remover(j)' => Remover(j) \/ j = i
  BY <1>1, <1>3 DEF Remover
<1>8. Unspawned' /\ OneConnects' /\ Own' /\ Unassigned' /\ Newest'
  BY <1>1, <1>2, <1>3, <1>5
     DEF SessionInv, Unspawned, OneConnects, Own, Unassigned, Newest, Unknown, Making,
         ConnectPcs
<1>9. DirSafe'
  BY <1>1, <1>2, <1>3, <1>5, <1>7 DEF SessionInv, DirSafe, Excused, Unknown, ConnectPcs
<1>10. HeldRuns' /\ InitRuns' /\ ProcessKnown'
  BY <1>1, <1>3, <1>5, <1>6
     DEF SessionInv, HeldRuns, InitRuns, ProcessKnown, Excused, ConnectPcs
<1>11. DirKnown'
  BY <1>1, <1>3, <1>6, <1>7 DEF SessionInv, DirKnown
<1>12. QueryKind'
  BY <1>1, <1>3, OneTask DEF SessionInv, QueryKind
<1>13. Leaving' /\ EndedGone'
  BY <1>1, <1>3, <1>6 DEF SessionInv, Leaving, EndedGone, Gone, Cleared
<1>. QED
  BY <1>4, <1>8, <1>9, <1>10, <1>11, <1>12, <1>13 DEF SessionInv

LEMMA RemovedKeeps ==
    ASSUME SessionInv, Step, connects' = connects, NEW t \in setup.tasks,
           NEW forgets \in BOOLEAN, RemovedTo(t, forgets)
    PROVE  SessionInv'
<1>. DEFINE i == task[t].at
            m == client.materialized
            S == IF forgets THEN {m} \ {None, i} ELSE {}
<1>1. /\ TypeOK /\ VarTypes /\ setup' = setup /\ kind' = kind /\ EndsTo(t)
      /\ task[t].pc \in {"discarding", "cleaning"} /\ i \in Connections
      /\ ~(i > connects) /\ ~(m > connects)
      /\ task[t].of \in Connections /\ (task[t].pc = "discarding" => task[t].of = i)
  BY Here, NumbersKnown DEF SessionInv, TypeOK, Step, RemovedTo, InRemoval, ConnectPcs
<1>2. PICK c :
         /\ Typed(c) /\ \A j \in Connections \ {i} : c[j] = conn[j]
         /\ c[i].dir \in {"removed", "left"} /\ c[i].process = conn[i].process
         /\ c[i].cut = conn[i].cut /\ c[i].taken = conn[i].taken
         /\ c[i].sent = conn[i].sent /\ Reasoned(c, conn', S, "taken")
  BY DEF RemovedTo
<1>3. /\ task'[t].pc = "idle" /\ task'[t].at = None /\ task'[t].of = None
      /\ \A u \in setup.tasks \ {t} : task'[u] = task[u]
      /\ ended' = ended \cup {task[t].of}
  BY <1>1, Bounds DEF EndsTo, Goes
<1>4. /\ Knows(client.query, IF forgets THEN None ELSE m)
      /\ client'.query = client.query
      /\ client'.materialized = IF forgets THEN None ELSE m
  BY DEF RemovedTo, Knows
<1>5. TypeOK'
  <2>1. Sound(c)
    BY <1>1, <1>2, SoundNow DEF Sound, Fits
  <2>2. Sound(conn')
    BY <1>1, <1>2, <2>1, SoundReasoned
  <2>3. ~(None > connects)
    BY <1>1, NumbersKnown DEF None
  <2>. QED
    BY <1>1, <1>4, <2>2, <2>3, NumbersKnown, TypeEnds, Bounds
<1>6. /\ \A j \in Connections : /\ conn'[j].process = conn[j].process
                                /\ conn[j].cut \subseteq conn'[j].cut
                                /\ j # i => conn'[j].dir = conn[j].dir
                                /\ conn'[j].cut = {} => conn[j].cut = {}
                                /\ Excused(j) => Excused(j)'
      /\ conn'[i].dir \in {"removed", "left"}
      /\ \A j \in Connections : j \in S => conn'[j].cut # {}
  <2>. HIDE DEF S, i
  <2>1. Same(c, conn') /\ \A j \in Connections : j \in S => conn'[j].cut # {}
    BY <1>2, ReasonedSame
  <2>2. ASSUME NEW j \in Connections
        PROVE  /\ conn'[j].process = conn[j].process
               /\ conn[j].cut \subseteq conn'[j].cut
               /\ j # i => conn'[j].dir = conn[j].dir
    <3>1. /\ c[j].process = conn[j].process /\ c[j].cut = conn[j].cut
          /\ j # i => c[j].dir = conn[j].dir
      BY <1>2
    <3>. QED
      BY <2>1, <3>1 DEF Same
  <2>3. ASSUME NEW j \in Connections
        PROVE  /\ conn'[j].cut = {} => conn[j].cut = {}
               /\ Excused(j) => Excused(j)'
    BY <1>1, <2>2 DEF Excused
  <2>4. conn'[i].dir \in {"removed", "left"}
    BY <1>1, <1>2, <2>1 DEF Same
  <2>. QED
    BY <2>1, <2>2, <2>3, <2>4
<1>7. /\ Remover(i) /\ \A j : Remover(j)' => Remover(j)
      /\ \A j : j # i /\ Remover(j) => Remover(j)'
      /\ \A j : BeingClosed(j)' <=> BeingClosed(j)
  BY <1>1, <1>3 DEF Remover, BeingClosed
<1>8. \A u \in setup.tasks : task'[u].pc \in ConnectPcs \cup {"closing", "cleaning"} =>
          u # t /\ task'[u] = task[u]
  BY <1>3 DEF ConnectPcs
<1>9. Unspawned'
  BY <1>1, <1>4, <1>6, <1>8, MakingUnknown, Here
     DEF SessionInv, Unspawned, Making, ConnectPcs
<1>10. OneConnects' /\ Unassigned' /\ Newest'
  BY <1>1, <1>4, <1>8, Here
     DEF SessionInv, OneConnects, Unassigned, Newest, Making, ConnectPcs
<1>11. Own'
  <2>1. ASSUME NEW u \in setup.tasks,
               \/ task'[u].pc \in Making
               \/ task'[u].pc = "connecting" /\ conn'[task'[u].at].cut = {}
        PROVE  /\ task'[u].at \notin ended'
               /\ \A v \in setup.tasks \ {u} :
                     task'[v].at # task'[u].at /\ task'[v].of # task'[u].at
    <3>1. task'[u] = task[u] /\ u # t /\ task[u].at \in Connections
      BY <1>1, <1>8, <2>1, Here DEF Making, ConnectPcs
    <3>2. /\ task[u].at \notin ended
          /\ \A v \in setup.tasks \ {u} : task[v].at # task[u].at /\ task[v].of # task[u].at
      BY <1>6, <2>1, <3>1 DEF SessionInv, Own
    <3>. QED
      BY <1>3, <3>1, <3>2, Bounds
  <2>. QED
    BY <1>1, <2>1 DEF Own
<1>12. DirSafe'
  BY <1>1, <1>6, <1>7, <1>8 DEF SessionInv, DirSafe, ConnectPcs
<1>13. HeldRuns' /\ InitRuns' /\ ProcessKnown'
  BY <1>1, <1>4, <1>6, <1>7, <1>8, Here
     DEF SessionInv, HeldRuns, InitRuns, ProcessKnown, ConnectPcs
<1>14. DirKnown'
  BY <1>1, <1>3, <1>4, <1>6, <1>7 DEF SessionInv, DirKnown
<1>15. QueryKind'
  BY <1>1, <1>3, <1>4, OneTask DEF SessionInv, QueryKind
<1>16. \A j \in Connections : (Gone(j) => Gone(j)') /\ (Cleared(j) => Cleared(j)')
  BY <1>4, <1>6, <1>7 DEF Gone, Cleared
<1>17. Leaving'
  BY <1>1, <1>4, <1>6, <1>8, <1>16, Here DEF SessionInv, Leaving
<1>18. EndedGone'
  <2>1. ASSUME NEW j \in Connections, j = task[t].of, conn'[j].cut = {}
        PROVE  Gone(j)' /\ Cleared(j)'
    <3>1. CASE task[t].pc = "cleaning"
      BY <1>6, <1>16, <2>1, <3>1 DEF SessionInv, Leaving
    <3>2. CASE task[t].pc = "discarding"
      <4>1. conn[j].process = "none" /\ client.query # j /\ j = i
        BY <1>1, <2>1, <3>2, MakingUnknown DEF Making
      <4>. QED
        BY <1>4, <1>6, <4>1 DEF Gone, Cleared
    <3>. QED
      BY <1>1, <3>1, <3>2
  <2>2. ASSUME NEW j \in ended, conn'[j].cut = {} PROVE Gone(j)' /\ Cleared(j)'
    BY <1>1, <1>6, <1>16, <2>2, Here DEF SessionInv, EndedGone
  <2>. QED
    BY <1>1, <1>3, <2>1, <2>2 DEF EndedGone
<1>. QED
  BY <1>5, <1>9, <1>10, <1>11, <1>12, <1>13, <1>14, <1>15, <1>17, <1>18 DEF SessionInv

\* What is not spawned is neither the Query of the client nor being closed.
LEMMA SpawnedKnown ==
    ASSUME SessionInv, NEW t \in setup.tasks, task[t].pc \in Making \cup {"connecting"}
    PROVE  /\ task[t].at \in Connections /\ client.query # task[t].at
           /\ \A u \in setup.tasks : task[u].pc = "closing" => task[u].at # task[t].at
           /\ \A u \in setup.tasks \ {t} : task[u].pc \notin ConnectPcs
<1>1. task[t].at \in Connections /\ None \notin Connections
  BY Here DEF SessionInv, Making, ConnectPcs
<1>2. /\ client.query # task[t].at
      /\ \A u \in setup.tasks : task[u].pc = "closing" => task[u].at # task[t].at
  BY <1>1 DEF SessionInv, Unspawned
<1>. QED
  BY <1>1, <1>2 DEF SessionInv, OneConnects, Making, ConnectPcs

\* The directory of a call that leaves is the client's, or is being removed.
LEMMA LeavingKnown ==
    ASSUME SessionInv, NEW t \in setup.tasks, task[t].pc \in {"closing", "cleaning"},
           conn[task[t].of].cut = {}
    PROVE  /\ task[t].of \in Connections
           /\ client.materialized = task[t].of \/ Cleared(task[t].of)
<1>1. task[t].of \in Connections
  BY Here DEF SessionInv
<1>2. \A u \in setup.tasks : task[u].pc = "subkeys" => task[u].at # task[t].of
  BY DEF SessionInv, Own, Making
<1>. QED
  BY <1>1, <1>2 DEF SessionInv, DirKnown, Cleared

LEMMA SpawnsKeeps ==
    ASSUME SessionInv, Step, connects' = connects, NEW t \in setup.tasks, SpawnsTo(t)
    PROVE  SessionInv'
<1>. DEFINE q == client.query
            m == client.materialized
<1>0. PICK i : i = task[t].at
  OBVIOUS
<1>1. /\ TypeOK /\ VarTypes /\ setup' = setup /\ kind' = kind /\ task[t].pc = "connecting"
      /\ ended' = ended /\ Goes(t, "initializing", i, i) /\ Knows(i, m)
  BY <1>0, Here DEF SessionInv, TypeOK, Step, SpawnsTo, ConnectPcs
<1>2. PICK c : \E old \in SUBSET {q} :
         /\ Runs(conn, c, i, "alive") /\ Reasoned(c, conn', old, "replaced")
         /\ None \notin old /\ (q # None => q \in old \/ BeingClosed(q))
  BY <1>0 DEF SpawnsTo
<1>old. PICK old \in SUBSET {q} :
         /\ Runs(conn, c, i, "alive") /\ Reasoned(c, conn', old, "replaced")
         /\ None \notin old /\ (q # None => q \in old \/ BeingClosed(q))
  BY <1>2
<1>3. /\ i \in Connections /\ q # i /\ m \in {i, None} /\ ~(i > connects) /\ ~(q > connects)
      /\ \A u \in setup.tasks \ {t} : task[u].pc \notin ConnectPcs
      /\ conn[i].process = "none"
  <2>1. i \in Connections /\ q # i /\ \A u \in setup.tasks \ {t} : task[u].pc \notin ConnectPcs
    BY <1>0, <1>1, SpawnedKnown
  <2>2. m \in {i, None} /\ conn[i].process = "none"
    BY <1>0, <1>1 DEF SessionInv, Newest, Unspawned
  <2>. QED
    BY <1>0, <1>1, <2>1, <2>2, NumbersKnown
<1>4. /\ task'[t].pc = "initializing" /\ task'[t].at = i /\ task'[t].of = i
      /\ \A u \in setup.tasks \ {t} : task'[u] = task[u]
      /\ client'.query = i /\ client'.materialized = m
  BY <1>1 DEF Goes, Knows
<1>5. /\ conn'[i].process = "alive" /\ \A j \in Connections : j \in old => conn'[j].cut # {}
      /\ \A j \in Connections :
            /\ conn'[j].dir = conn[j].dir
            /\ j # i => conn'[j].process = conn[j].process
            /\ conn[j].cut \subseteq conn'[j].cut
  <2>1. Same(c, conn') /\ \A j \in Connections : j \in old => conn'[j].cut # {}
    BY <1>old, ReasonedSame
  <2>2. ASSUME NEW j \in Connections
        PROVE  /\ conn'[j].dir = conn[j].dir
               /\ j # i => conn'[j].process = conn[j].process
               /\ conn[j].cut \subseteq conn'[j].cut
    <3>1. /\ c[j].dir = conn[j].dir /\ c[j].cut = conn[j].cut
          /\ j # i => c[j].process = conn[j].process
      BY <1>old DEF Runs
    <3>. QED
      BY <2>1, <3>1 DEF Same
  <2>3. conn'[i].process = "alive"
    BY <1>old, <1>3, <2>1 DEF Same, Runs
  <2>. QED
    BY <2>1, <2>2, <2>3
<1>6. \A j \in Connections : /\ Excused(j) => Excused(j)'
                             /\ conn'[j].cut = {} => conn[j].cut = {}
  BY <1>1, <1>5 DEF Excused
<1>7. TypeOK'
  <2>1. Sound(c)
    BY <1>1, <1>old, <1>3, SoundNow, SoundRuns
  <2>2. Sound(conn')
    BY <1>old, <1>3, <2>1, SoundReasoned
  <2>3. Keeps
    BY <1>1, <1>3, <2>2, NumbersKnown, KeepsStill, Here, Bounds DEF TypeOK, Fresh
  <2>4. PlaceOK("initializing", i, i)
    BY <1>1, <1>3, CountSame, KnownStill, Bounds DEF PlaceOK, ConnectPcs
  <2>. QED
    BY <1>1, <2>3, <2>4, TypeGoes
<1>8. \A j : (Remover(j)' <=> Remover(j)) /\ (BeingClosed(j)' <=> BeingClosed(j))
  BY <1>1, <1>4 DEF Remover, BeingClosed
<1>9. \A u \in setup.tasks : task'[u].pc \in ConnectPcs => u = t
  BY <1>3, <1>4
<1>10. Unspawned'
  BY <1>1, <1>3, <1>4, <1>5, <1>9, Here
     DEF SessionInv, Unspawned, Making, ConnectPcs
<1>11. OneConnects' /\ Own' /\ Unassigned' /\ Newest'
  BY <1>1, <1>3, <1>4, <1>9 DEF OneConnects, Own, Unassigned, Newest, Making, ConnectPcs
<1>12. DirSafe'
  <2>1. conn[i].dir \in {"removed", "left"} \/ Remover(i) => Excused(i)
    BY <1>0, <1>1, <1>3 DEF SessionInv, DirSafe
  <2>. QED
    BY <1>1, <1>3, <1>4, <1>5, <1>6, <1>8, <1>9, <2>1 DEF SessionInv, DirSafe, ConnectPcs
<1>13. HeldRuns' /\ InitRuns'
  BY <1>1, <1>3, <1>4, <1>9, Bounds DEF HeldRuns, InitRuns, ConnectPcs
<1>14. DirKnown'
  BY <1>1, <1>3, <1>4, <1>5, <1>6, <1>8 DEF SessionInv, DirKnown, ConnectPcs
<1>15. ProcessKnown'
  BY <1>1, <1>old, <1>3, <1>4, <1>5, <1>6, <1>8, Here DEF SessionInv, ProcessKnown
<1>16. QueryKind'
  BY <1>1, <1>4, OneTask DEF SessionInv, QueryKind
<1>17. \A j \in Connections \ {i} : (Gone(j) => Gone(j)') /\ (Cleared(j) => Cleared(j)')
  BY <1>4, <1>5, <1>8 DEF Gone, Cleared
<1>18. Leaving'
  <2>. SUFFICES ASSUME NEW u \in setup.tasks, task'[u].pc \in {"closing", "cleaning"},
                       NEW j, j = task'[u].of, conn'[j].cut = {}
                PROVE  IF task'[u].pc = "cleaning" THEN Gone(j)' /\ Cleared(j)'
                       ELSE /\ j = task'[u].at \/ Gone(j)'
                            /\ client'.query = task'[u].at \/ Cleared(j)'
    BY <1>1 DEF Leaving
  <2>1. task'[u] = task[u] /\ u # t
    BY <1>4
  <2>2. j \in Connections /\ (m = j \/ Cleared(j)) /\ conn[j].cut = {}
    BY <1>1, <1>6, <2>1, LeavingKnown, Here
  <2>3. j # i
    BY <1>0, <1>1, <2>1, <2>2 DEF SessionInv, Own
  <2>4. Cleared(j)
    BY <1>3, <2>2, <2>3, Bounds
  <2>. QED
    BY <1>17, <2>1, <2>2, <2>3, <2>4 DEF SessionInv, Leaving
<1>19. EndedGone'
  <2>. SUFFICES ASSUME NEW j \in ended, conn'[j].cut = {}
                PROVE  Gone(j)' /\ Cleared(j)'
    BY <1>1 DEF EndedGone
  <2>1. j \in Connections /\ conn[j].cut = {}
    BY <1>1, <1>6, Here
  <2>2. j # i
    BY <1>0, <1>1, <2>1 DEF SessionInv, Own
  <2>. QED
    BY <1>17, <2>1, <2>2 DEF SessionInv, EndedGone
<1>. QED
  BY <1>7, <1>10, <1>11, <1>12, <1>13, <1>14, <1>15, <1>16, <1>18, <1>19 DEF SessionInv

\* What an exception leaves for the clean-up: nobody else is connecting, and
\* at most a process has been started on a connection with a reason.
Raised(t, i, c) ==
    /\ task[t].at = i /\ task[t].of = i /\ i \in Connections /\ ~(i > connects)
    /\ task[t].pc \in {"connecting", "initializing", "iterating"}
    /\ task[t].pc = "iterating" => client.query = i
    /\ \A u \in setup.tasks \ {t} : task[u].pc \notin ConnectPcs
    /\ client.query # i => conn[i].process # "alive" \/ conn[i].cut # {}
    /\ client.query # None => client.query # i \/ task[t].pc # "connecting"
    /\ client.query = None => client.materialized \in {i, None}
    /\ Sound(c)
    /\ \A j \in Connections :
          /\ c[j].dir = conn[j].dir /\ conn[j].cut \subseteq c[j].cut
          /\ c[j].process = "none" => conn[j].process = "none"
          /\ \/ c[j].process = conn[j].process
             \/ j = i /\ "setup" \in c[j].cut

LEMMA FailsRaised ==
    ASSUME SessionInv, Step, NEW t \in setup.tasks, FailsTo(t)
    PROVE  \E c : UnwindTo(t, c) /\ Raised(t, task[t].at, c)
<1>. DEFINE i == task[t].at
<1>1. PICK c :
         /\ UnwindTo(t, c)
         /\ \/ /\ Alike(conn, c)
               /\ \/ task[t].pc \in {"connecting", "initializing"}
                  \/ kind = "query" /\ task[t].pc = "iterating"
            \/ /\ task[t].pc = "connecting"
               /\ \E d : Runs(conn, d, i, "alive") /\ Reasoned(d, c, {i}, "setup")
  BY DEF FailsTo
<1>2. /\ TypeOK /\ VarTypes /\ i \in Connections /\ ~(i > connects)
      /\ task[t].pc \in {"connecting", "initializing", "iterating"}
      /\ task[t].pc = "iterating" => kind = "query"
  BY <1>1, Here, NumbersKnown DEF SessionInv, TypeOK
<1>3. task[t].of = i /\ (task[t].pc = "iterating" => client.query = i)
  BY <1>2, Here DEF SessionInv, QueryKind, ConnectPcs
<1>4. \A u \in setup.tasks \ {t} : task[u].pc \notin ConnectPcs
  BY <1>2, OneTask DEF SessionInv, OneConnects, ConnectPcs
<1>5. /\ client.query # i => conn[i].process # "alive" \/ conn[i].cut # {}
      /\ client.query = None => client.materialized \in {i, None}
  BY <1>2, <1>3, Bounds DEF SessionInv, Unspawned, InitRuns, Newest
<1>6. client.query # None => client.query # i \/ task[t].pc # "connecting"
  BY SpawnedKnown
<1>7. /\ Sound(c)
      /\ \A j \in Connections :
            /\ c[j].dir = conn[j].dir /\ conn[j].cut \subseteq c[j].cut
            /\ c[j].process = "none" => conn[j].process = "none"
            /\ \/ c[j].process = conn[j].process
               \/ j = i /\ "setup" \in c[j].cut
  <2>1. CASE Alike(conn, c)
    BY <1>2, <2>1, SoundNow, SoundAlike DEF Alike
  <2>2. ASSUME NEW d, Runs(conn, d, i, "alive"), Reasoned(d, c, {i}, "setup")
        PROVE  /\ Sound(c)
               /\ \A j \in Connections :
                     /\ c[j].dir = conn[j].dir /\ conn[j].cut \subseteq c[j].cut
                     /\ c[j].process = "none" => conn[j].process = "none"
                     /\ \/ c[j].process = conn[j].process
                        \/ j = i /\ "setup" \in c[j].cut
    <3>. HIDE DEF i
    <3>1. Sound(c)
      BY <1>2, <2>2, SoundNow, SoundRuns, SoundReasoned
    <3>2. Same(d, c) /\ "setup" \in c[i].cut
      BY <1>2, <2>2, ReasonedSame
    <3>3. ASSUME NEW j \in Connections
          PROVE  /\ c[j].dir = conn[j].dir /\ conn[j].cut \subseteq c[j].cut
                 /\ c[j].process = "none" => conn[j].process = "none"
                 /\ \/ c[j].process = conn[j].process
                    \/ j = i /\ "setup" \in c[j].cut
      <4>1. /\ d[j].dir = conn[j].dir /\ d[j].cut = conn[j].cut
            /\ d[i].process = "alive" /\ (j # i => d[j].process = conn[j].process)
        BY <2>2 DEF Runs
      <4>. QED
        BY <1>2, <3>2, <4>1 DEF Same
    <3>. QED
      BY <3>1, <3>3
  <2>. QED
    BY <1>1, <2>1, <2>2
<1>. QED
  BY <1>1, <1>2, <1>3, <1>4, <1>5, <1>6, <1>7 DEF Raised

LEMMA ClosingKeeps ==
    ASSUME SessionInv, Step, connects' = connects, NEW t \in setup.tasks, NEW c,
           NEW i, Raised(t, i, c), ClosingTo(t, c)
    PROVE  SessionInv'
<1>. DEFINE q == client.query
<1>1. /\ TypeOK /\ VarTypes /\ setup' = setup /\ kind' = kind /\ client' = client
      /\ ended' = ended /\ q # None /\ conn' = c /\ Goes(t, "closing", q, i)
      /\ q \in Connections /\ i \in Connections /\ task[t].at = i /\ task[t].of = i
  BY Here DEF SessionInv, TypeOK, Step, ClosingTo, Raised
<1>2. /\ task[t].pc \in {"connecting", "initializing", "iterating"}
      /\ \A u \in setup.tasks \ {t} : task[u].pc \notin ConnectPcs
      /\ q # i => conn[i].process # "alive" \/ conn[i].cut # {}
      /\ q = i => task[t].pc # "connecting"
      /\ Sound(c) /\ ~(i > connects)
  BY <1>1 DEF Raised
<1>3. \A j \in Connections :
          /\ conn'[j].dir = conn[j].dir /\ conn[j].cut \subseteq conn'[j].cut
          /\ conn'[j].process = "none" => conn[j].process = "none"
          /\ conn'[j].process = conn[j].process \/ (j = i /\ "setup" \in conn'[j].cut)
  BY <1>1 DEF Raised
<1>4. /\ task'[t].pc = "closing" /\ task'[t].at = q /\ task'[t].of = i
      /\ \A u \in setup.tasks \ {t} : task'[u] = task[u]
  BY <1>1 DEF Goes
<1>5. TypeOK'
  <2>1. Keeps
    BY <1>1, <1>2, NumbersKnown, KeepsStill, Here DEF Knows, VarTypes, TypeOK, Fresh
  <2>2. PlaceOK("closing", q, i)
    BY <1>1, <1>2, NumbersKnown, CountSame, KnownStill, Bounds DEF PlaceOK, ConnectPcs
  <2>. QED
    BY <1>1, <2>1, <2>2, TypeGoes
<1>6. \A j \in Connections : /\ conn'[j].cut = {} => conn[j].cut = {}
                             /\ Excused(j) => Excused(j)'
                             /\ conn'[j].process = conn[j].process \/ Excused(j)'
                             /\ conn'[j].cut = {} => conn'[j].process = conn[j].process
  BY <1>1, <1>3 DEF Excused
<1>7. \A j : (Remover(j)' <=> Remover(j)) /\ (BeingClosed(j) => BeingClosed(j)')
  BY <1>1, <1>2, <1>4 DEF Remover, BeingClosed
<1>8. \A u \in setup.tasks : task'[u].pc \notin ConnectPcs
  BY <1>2, <1>4 DEF ConnectPcs
<1>9. Unspawned' /\ OneConnects' /\ Own' /\ Unassigned' /\ Newest'
  <2>1. Unspawned'
    BY <1>1, <1>3, <1>4, <1>8, Here DEF SessionInv, Unspawned, Making, ConnectPcs
  <2>. QED
    BY <2>1, <1>1, <1>8 DEF OneConnects, Own, Unassigned, Newest, Making, ConnectPcs
<1>10. DirSafe'
  BY <1>1, <1>3, <1>6, <1>7, <1>8 DEF SessionInv, DirSafe, ConnectPcs
<1>11. HeldRuns' /\ InitRuns'
  BY <1>1, <1>6, <1>8, Here DEF SessionInv, HeldRuns, InitRuns, ConnectPcs
<1>12. DirKnown'
  BY <1>1, <1>2, <1>3, <1>6, <1>7, <1>8 DEF SessionInv, DirKnown, ConnectPcs
<1>13. ProcessKnown'
  BY <1>1, <1>6, <1>7 DEF SessionInv, ProcessKnown
<1>14. QueryKind'
  BY <1>1, <1>4, OneTask DEF SessionInv, QueryKind
<1>15. \A j \in Connections : conn'[j].cut = {} =>
           (Gone(j) => Gone(j)') /\ (Cleared(j) => Cleared(j)')
  BY <1>1, <1>3, <1>6, <1>7 DEF Gone, Cleared
<1>16. Leaving'
  <2>. SUFFICES ASSUME NEW u \in setup.tasks, task'[u].pc \in {"closing", "cleaning"},
                       NEW j, j = task'[u].of, conn'[j].cut = {}
                PROVE  IF task'[u].pc = "cleaning" THEN Gone(j)' /\ Cleared(j)'
                       ELSE /\ j = task'[u].at \/ Gone(j)'
                            /\ client'.query = task'[u].at \/ Cleared(j)'
    BY <1>1 DEF Leaving
  <2>1. CASE u # t
    <3>1. task'[u] = task[u] /\ j \in Connections
      BY <1>1, <1>4, <2>1, Here
    <3>. QED
      BY <1>1, <1>6, <1>15, <3>1 DEF SessionInv, Leaving
  <2>2. CASE u = t
    <3>1. j = i /\ (q # i => Gone(i))
      BY <1>1, <1>2, <1>4, <1>6, <2>2 DEF Gone
    <3>. QED
      BY <1>1, <1>4, <1>15, <2>2, <3>1
  <2>. QED
    BY <2>1, <2>2
<1>17. EndedGone'
  BY <1>1, <1>6, <1>15, Here DEF SessionInv, EndedGone
<1>. QED
  BY <1>5, <1>9, <1>10, <1>11, <1>12, <1>13, <1>14, <1>16, <1>17 DEF SessionInv

LEMMA RaisedKeeps ==
    ASSUME SessionInv, Step, connects' = connects, NEW t \in setup.tasks, NEW c,
           NEW i, Raised(t, i, c), client.query = None, ReleaseTo(t, None, c)
    PROVE  SessionInv'
<1>. DEFINE m == client.materialized
<1>1. /\ TypeOK /\ VarTypes /\ setup' = setup /\ kind' = kind
      /\ Knows(None, m) /\ client'.query = None /\ client'.materialized = m
      /\ i \in Connections /\ task[t].at = i /\ task[t].of = i /\ ~(i > connects)
      /\ client.query = None /\ m \in {i, None} /\ i # None
  BY Here DEF SessionInv, TypeOK, Step, ReleaseTo, Raised, Knows
<1>2. /\ task[t].pc \in {"connecting", "initializing"}
      /\ \A u \in setup.tasks \ {t} : task[u].pc \notin ConnectPcs
      /\ conn[i].process # "alive" \/ conn[i].cut # {}
  BY <1>1 DEF Raised
<1>3. Taken(t, None) = {}
  BY <1>1, <1>2 DEF Taken, ConnectingOthers, ConnectPcs
<1>4. Same(c, conn') /\ Sound(conn')
  BY <1>3, ReasonedSame, SoundReasoned DEF ReleaseTo, Raised
<1>5. \A j \in Connections :
          /\ conn'[j].dir = conn[j].dir /\ conn[j].cut \subseteq conn'[j].cut
          /\ conn'[j].process = "none" => conn[j].process = "none"
          /\ conn'[j].process = conn[j].process \/ (j = i /\ "setup" \in conn'[j].cut)
  <2>. SUFFICES ASSUME NEW j \in Connections
                PROVE  /\ conn'[j].dir = conn[j].dir /\ conn[j].cut \subseteq conn'[j].cut
                       /\ conn'[j].process = "none" => conn[j].process = "none"
                       /\ \/ conn'[j].process = conn[j].process
                          \/ j = i /\ "setup" \in conn'[j].cut
    OBVIOUS
  <2>1. /\ c[j].dir = conn[j].dir /\ conn[j].cut \subseteq c[j].cut
        /\ c[j].process = "none" => conn[j].process = "none"
        /\ c[j].process = conn[j].process \/ (j = i /\ "setup" \in c[j].cut)
    BY DEF Raised
  <2>2. /\ conn'[j].dir = c[j].dir /\ conn'[j].process = c[j].process
        /\ c[j].cut \subseteq conn'[j].cut
    BY <1>4 DEF Same
  <2>. QED
    BY <2>1, <2>2
<1>6. \/ m = None /\ EndsTo(t)
      \/ m = i /\ ended' = ended /\ Goes(t, "cleaning", i, i)
  BY <1>1 DEF ReleaseTo
<1>7. /\ \/ /\ m = None /\ ended' = ended \cup {i}
            /\ task'[t].pc = "idle" /\ task'[t].at = None /\ task'[t].of = None
         \/ /\ m = i /\ ended' = ended
            /\ task'[t].pc = "cleaning" /\ task'[t].at = i /\ task'[t].of = i
      /\ \A u \in setup.tasks \ {t} : task'[u] = task[u]
  BY <1>1, <1>6 DEF EndsTo, Goes
<1>8. TypeOK'
  <2>1. CASE m = None /\ EndsTo(t)
    BY <1>1, <1>4, <2>1, NumbersKnown, TypeEnds
  <2>2. CASE m = i /\ ended' = ended /\ Goes(t, "cleaning", i, i)
    <3>1. Keeps
      BY <1>1, <1>4, <2>2, NumbersKnown, KeepsStill, Here DEF VarTypes, TypeOK, Fresh
    <3>2. PlaceOK("cleaning", i, i)
      BY <1>1, CountSame, KnownStill, Bounds DEF PlaceOK, ConnectPcs
    <3>. QED
      BY <1>1, <2>2, <3>1, <3>2, TypeGoes
  <2>. QED
    BY <1>6, <2>1, <2>2
<1>9. \A j \in Connections : /\ conn'[j].cut = {} => conn[j].cut = {}
                             /\ Excused(j) => Excused(j)'
                             /\ conn'[j].process = conn[j].process \/ Excused(j)'
                             /\ conn'[j].cut = {} => conn'[j].process = conn[j].process
  BY <1>1, <1>5 DEF Excused
<1>10. /\ \A j : (Remover(j) => Remover(j)') /\ (BeingClosed(j) => BeingClosed(j)')
       /\ \A j : Remover(j)' => Remover(j) \/ (j = i /\ m = i)
       /\ m = i => \A j : j = i => Remover(j)'
  BY <1>1, <1>2, <1>7 DEF Remover, BeingClosed
<1>11. \A u \in setup.tasks : task'[u].pc \notin ConnectPcs
  BY <1>2, <1>7 DEF ConnectPcs
<1>12. \A u \in setup.tasks : task'[u].pc = "closing" => u # t /\ task'[u] = task[u]
  BY <1>7
<1>13. Unspawned' /\ OneConnects' /\ Own' /\ Unassigned' /\ Newest'
  <2>1. Unspawned'
    BY <1>1, <1>5, <1>11, <1>12, Here DEF SessionInv, Unspawned, Making, ConnectPcs
  <2>. QED
    BY <2>1, <1>1, <1>11 DEF OneConnects, Own, Unassigned, Newest, Making, ConnectPcs
<1>14. DirSafe'
  <2>1. m = i => Excused(i) \/ conn[i].process # "alive"
    BY <1>1 DEF SessionInv, HeldRuns
  <2>. QED
    BY <1>1, <1>5, <1>9, <1>10, <1>11, <2>1 DEF SessionInv, DirSafe, ConnectPcs
<1>15. HeldRuns' /\ InitRuns'
  BY <1>1, <1>9, <1>11, Here DEF SessionInv, HeldRuns, InitRuns, ConnectPcs
<1>16. DirKnown'
  BY <1>1, <1>2, <1>5, <1>9, <1>10, <1>11 DEF SessionInv, DirKnown, ConnectPcs
<1>17. ProcessKnown'
  BY <1>1, <1>9, <1>10 DEF SessionInv, ProcessKnown
<1>18. QueryKind'
  BY <1>1, <1>7, OneTask DEF SessionInv, QueryKind
<1>19. \A j \in Connections : conn'[j].cut = {} =>
           (Gone(j) => Gone(j)') /\ (Cleared(j) => Cleared(j)')
  BY <1>1, <1>5, <1>9, <1>10 DEF Gone, Cleared
<1>20. ASSUME conn'[i].cut = {} PROVE Gone(i) /\ (Cleared(i) \/ m = i)
  <2>1. conn[i].cut = {} /\ conn[i].process # "alive"
    BY <1>1, <1>2, <1>9, <1>20
  <2>2. \A u \in setup.tasks : task[u].pc # "subkeys"
    BY <1>2 DEF ConnectPcs
  <2>. QED
    BY <1>1, <2>1, <2>2 DEF SessionInv, DirKnown, Gone, Cleared
<1>21. Leaving'
  <2>. SUFFICES ASSUME NEW u \in setup.tasks, task'[u].pc \in {"closing", "cleaning"},
                       NEW j, j = task'[u].of, conn'[j].cut = {}
                PROVE  IF task'[u].pc = "cleaning" THEN Gone(j)' /\ Cleared(j)'
                       ELSE /\ j = task'[u].at \/ Gone(j)'
                            /\ client'.query = task'[u].at \/ Cleared(j)'
    BY <1>1 DEF Leaving
  <2>1. CASE u # t
    <3>1. task'[u] = task[u] /\ j \in Connections
      BY <1>1, <1>7, <2>1, Here
    <3>. QED
      BY <1>1, <1>9, <1>19, <3>1 DEF SessionInv, Leaving
  <2>2. CASE u = t
    <3>1. j = i /\ m = i /\ task'[u].pc = "cleaning"
      BY <1>1, <1>7, <2>2
    <3>2. Remover(j)'
      BY <1>10, <3>1
    <3>. QED
      BY <1>1, <1>19, <1>20, <3>1, <3>2 DEF Cleared
  <2>. QED
    BY <2>1, <2>2
<1>22. EndedGone'
  <2>. SUFFICES ASSUME NEW j \in ended', conn'[j].cut = {}
                PROVE  Gone(j)' /\ Cleared(j)'
    BY DEF EndedGone
  <2>1. CASE j \in ended
    BY <1>1, <1>9, <1>19, <2>1, Here DEF SessionInv, EndedGone
  <2>2. CASE j = i /\ m = None
    BY <1>1, <1>19, <1>20, <2>2
  <2>. QED
    BY <1>7, <2>1, <2>2
<1>. QED
  BY <1>8, <1>13, <1>14, <1>15, <1>16, <1>17, <1>18, <1>21, <1>22 DEF SessionInv

LEMMA FailsKeeps ==
    ASSUME SessionInv, Step, connects' = connects, NEW t \in setup.tasks, FailsTo(t)
    PROVE  SessionInv'
<1>1. PICK c : UnwindTo(t, c) /\ Raised(t, task[t].at, c)
  BY FailsRaised
<1>. QED
  BY <1>1, ClosingKeeps, RaisedKeeps DEF UnwindTo

\* A call starts to close the Query, which is known to it from now on.
LEMMA DisconnectCloses ==
    ASSUME SessionInv, Step, connects' = connects, NEW t \in setup.tasks,
           task[t].pc \in {"idle", "iterating"}, ended' = ended,
           NEW q, q = client.query, Knows(q, client.materialized), q # None,
           Goes(t, "closing", q, q), conn' = conn
    PROVE  SessionInv'
<1>1. /\ TypeOK /\ VarTypes /\ setup' = setup /\ kind' = kind /\ q \in Connections
      /\ client'.query = q /\ client'.materialized = client.materialized
      /\ ~(q > connects)
  BY Here, NumbersKnown DEF SessionInv, TypeOK, Step, Knows
<1>2. /\ task'[t].pc = "closing" /\ task'[t].at = q /\ task'[t].of = q
      /\ \A u \in setup.tasks \ {t} : task'[u] = task[u]
  BY DEF Goes
<1>3. TypeOK'
  <2>1. Keeps
    BY <1>1, NumbersKnown, SoundNow, KeepsStill, Here DEF TypeOK, Fresh
  <2>2. PlaceOK("closing", q, q)
    BY <1>1, CountSame, KnownStill, Bounds DEF PlaceOK, ConnectPcs
  <2>. QED
    BY <1>1, <2>1, <2>2, TypeGoes
<1>4. \A j : (Remover(j)' <=> Remover(j)) /\ (BeingClosed(j) => BeingClosed(j)')
  BY <1>1, <1>2 DEF Remover, BeingClosed
<1>5. \A u \in setup.tasks : task'[u].pc \in ConnectPcs => u # t /\ task'[u] = task[u]
  BY <1>2 DEF ConnectPcs
<1>6. Unspawned'
  BY <1>1, <1>2, <1>5 DEF SessionInv, Unspawned, Making, ConnectPcs
<1>7. OneConnects' /\ Unassigned' /\ Newest'
  BY <1>1, <1>5 DEF SessionInv, OneConnects, Unassigned, Newest, Making, ConnectPcs
<1>8. Own'
  BY <1>1, <1>2, <1>5, SpawnedKnown DEF SessionInv, Own, Making, ConnectPcs
<1>9. DirSafe'
  BY <1>1, <1>4, <1>5 DEF SessionInv, DirSafe, Excused, ConnectPcs
<1>10. HeldRuns' /\ InitRuns'
  BY <1>1, <1>5 DEF SessionInv, HeldRuns, InitRuns, Excused, ConnectPcs
<1>11. DirKnown' /\ ProcessKnown'
  BY <1>1, <1>2, <1>4 DEF SessionInv, DirKnown, ProcessKnown
<1>12. QueryKind'
  BY <1>1, <1>2, OneTask DEF SessionInv, QueryKind
<1>13. \A j : (Gone(j) => Gone(j)') /\ (Cleared(j) => Cleared(j)')
  BY <1>1, <1>4 DEF Gone, Cleared
<1>14. Leaving' /\ EndedGone'
  BY <1>1, <1>2, <1>13 DEF SessionInv, Leaving, EndedGone
<1>. QED
  BY <1>3, <1>6, <1>7, <1>8, <1>9, <1>10, <1>11, <1>12, <1>14 DEF SessionInv

LEMMA DisconnectsKeeps ==
    ASSUME SessionInv, Step, connects' = connects, NEW t \in setup.tasks, DisconnectsTo(t)
    PROVE  SessionInv'
<1>. DEFINE q == client.query
<1>0. PICK m : m = client.materialized
  OBVIOUS
<1>1. /\ TypeOK /\ VarTypes /\ setup' = setup /\ kind' = kind /\ ended' = ended
      /\ task[t].pc \in {"idle", "iterating"} /\ Knows(q, m)
      /\ client'.query = q /\ client'.materialized = m
  BY <1>0 DEF SessionInv, TypeOK, Step, DisconnectsTo, Knows
<1>2. CASE q # None /\ Goes(t, "closing", q, q) /\ conn' = conn
  BY <1>0, <1>1, <1>2, DisconnectCloses
<1>3. CASE /\ q = None /\ Reasoned(conn, conn', ConnectingOthers(t), "taken")
           /\ \/ m # None /\ Goes(t, "cleaning", m, m)
              \/ m = None /\ Goes(t, task[t].pc, task[t].at, None)
  <2>1. task[t].pc = "idle"
    <3>1. task[t].pc = "iterating" => kind = "query"
      BY <1>1, KindIs DEF DisconnectsTo
    <3>2. kind = "query" /\ task[t].pc = "iterating" => client.query = task[t].at
      BY DEF SessionInv, QueryKind
    <3>. QED
      BY <1>1, <1>3, <3>1, <3>2, Here
  <2>2. task[t].at = None /\ task[t].of = None /\ (m # None => m \in Connections)
    BY <1>0, <1>1, <2>1, Here
  <2>3. \/ m # None /\ Goes(t, "cleaning", m, m)
        \/ m = None /\ Goes(t, "idle", None, None)
    BY <1>3, <2>1, <2>2
  <2>4. /\ \/ m # None /\ task'[t].pc = "cleaning" /\ task'[t].at = m /\ task'[t].of = m
           \/ m = None /\ task'[t].pc = "idle" /\ task'[t].at = None /\ task'[t].of = None
        /\ \A u \in setup.tasks \ {t} : task'[u] = task[u]
    BY <2>3 DEF Goes
  <2>5. ASSUME NEW j \in ConnectingOthers(t) PROVE j \in Connections /\ ~(j > connects)
    BY <1>1, <2>5, Here, NumbersKnown DEF ConnectingOthers
  <2>6. TypeOK'
    <3>1. Sound(conn')
      BY <1>1, <1>3, <2>5, SoundNow, SoundReasoned
    <3>2. Keeps
      BY <1>0, <1>1, <3>1, NumbersKnown, KeepsStill, Here DEF TypeOK, Fresh
    <3>3. CASE m # None /\ Goes(t, "cleaning", m, m)
      <4>1. PlaceOK("cleaning", m, m)
        BY <1>0, <1>1, <2>2, <3>3, NumbersKnown, CountSame, KnownStill, Bounds
           DEF PlaceOK, ConnectPcs
      <4>. QED
        BY <1>1, <3>2, <3>3, <4>1, TypeGoes
    <3>4. CASE m = None /\ Goes(t, "idle", None, None)
      <4>1. PlaceOK("idle", None, None)
        BY <1>1, CountSame, KnownStill, Bounds DEF PlaceOK, ConnectPcs
      <4>. QED
        BY <1>1, <3>2, <3>4, <4>1, TypeGoes
    <3>. QED
      BY <2>3, <3>3, <3>4
  <2>7. /\ Same(conn, conn')
        /\ \A j \in Connections : j \in ConnectingOthers(t) => "taken" \in conn'[j].cut
    BY <1>3, ReasonedSame
  <2>8. \A j \in Connections : /\ conn'[j].cut = {} => conn[j].cut = {}
                               /\ Excused(j) => Excused(j)'
                               /\ j \in ConnectingOthers(t) => Excused(j)'
    BY <1>1, <2>7 DEF Same, Excused
  <2>9. /\ \A j : (Remover(j) => Remover(j)') /\ (BeingClosed(j)' <=> BeingClosed(j))
        /\ \A j : Remover(j)' => Remover(j) \/ j = m
        /\ m # None => Remover(m)'
    BY <1>1, <2>1, <2>4 DEF Remover, BeingClosed
  <2>10. \A u \in setup.tasks : task'[u].pc \in ConnectPcs => u # t /\ task'[u] = task[u]
    BY <2>4 DEF ConnectPcs
  <2>11. Unspawned'
    BY <1>1, <1>3, <2>4, <2>7, <2>10, Here DEF SessionInv, Unspawned, Making, ConnectPcs, Same
  <2>12. OneConnects' /\ Unassigned' /\ Newest'
    BY <1>0, <1>1, <2>10 DEF SessionInv, OneConnects, Unassigned, Newest, Making, ConnectPcs
  <2>13. \A u \in setup.tasks : task'[u].pc = "connecting" =>
             task[u].at \in ConnectingOthers(t) /\ task'[u].at \in Connections
    BY <1>1, <2>10, Here DEF ConnectPcs, ConnectingOthers
  <2>14. Own'
    <3>1. ASSUME NEW u \in setup.tasks, task'[u].pc = "connecting"
          PROVE  conn'[task'[u].at].cut # {}
      BY <2>7, <2>10, <2>13, <3>1 DEF ConnectPcs
    <3>2. \A u \in setup.tasks : task'[u].pc \in Making => u # t /\ task'[u] = task[u]
      BY <2>10 DEF Making, ConnectPcs
    <3>3. ASSUME NEW u \in setup.tasks, task'[u].pc \in Making
          PROVE  /\ task'[u].at \notin ended
                 /\ \A v \in setup.tasks \ {u} :
                       task'[v].at # task'[u].at /\ task'[v].of # task'[u].at
      <4>1. task[u].at # m /\ task[u].at \in Connections
        BY <1>0, <1>1, <3>2, <3>3, Here DEF SessionInv, Unassigned, Making, ConnectPcs
      <4>2. /\ task[u].at \notin ended
            /\ \A v \in setup.tasks \ {u} : task[v].at # task[u].at /\ task[v].of # task[u].at
        BY <3>2, <3>3 DEF SessionInv, Own
      <4>. QED
        BY <2>4, <3>2, <3>3, <4>1, <4>2, Bounds
    <3>. QED
      BY <1>1, <3>1, <3>3 DEF Own
  <2>15. DirSafe'
    <3>1. \A j \in Connections :
              conn'[j].dir = conn[j].dir /\ conn'[j].process = conn[j].process
      BY <2>7 DEF Same
    <3>2. m # None => Excused(m) \/ conn[m].process # "alive"
      BY <1>0, <1>3, <2>2, Here DEF SessionInv, HeldRuns
    <3>3. ASSUME NEW j \in Connections, conn'[j].dir \in {"removed", "left"} \/ Remover(j)',
                 ~Excused(j)'
          PROVE  /\ conn'[j].process # "alive"
                 /\ \A u \in setup.tasks : task'[u].pc = "connecting" => task'[u].at # j
      <4>1. ~Excused(j) /\ j \notin ConnectingOthers(t)
        BY <2>8, <3>3
      <4>2. conn[j].process # "alive"
        <5>1. CASE j = m
          BY <3>2, <4>1, <5>1, Bounds
        <5>2. CASE j # m
          BY <2>9, <3>1, <3>3, <4>1, <5>2 DEF SessionInv, DirSafe
        <5>. QED
          BY <5>1, <5>2
      <4>. QED
        BY <2>10, <2>13, <3>1, <4>1, <4>2 DEF ConnectPcs
    <3>. QED
      BY <1>1, <3>3 DEF DirSafe
  <2>16. HeldRuns' /\ InitRuns'
    BY <1>0, <1>1, <2>7, <2>8, <2>10, Here DEF SessionInv, HeldRuns, InitRuns, ConnectPcs, Same
  <2>17. DirKnown'
    BY <1>0, <1>1, <2>1, <2>4, <2>7, <2>8, <2>9 DEF SessionInv, DirKnown, Same
  <2>18. ProcessKnown'
    BY <1>1, <2>7, <2>8, <2>9 DEF SessionInv, ProcessKnown, Same
  <2>19. QueryKind'
    BY <1>1, <2>4, OneTask DEF SessionInv, QueryKind
  <2>20. \A j \in Connections : (Gone(j) => Gone(j)') /\ (Cleared(j) => Cleared(j)')
    BY <1>1, <2>7, <2>9 DEF Gone, Cleared, Same
  <2>21. Leaving'
    <3>. SUFFICES ASSUME NEW u \in setup.tasks, task'[u].pc \in {"closing", "cleaning"},
                         NEW j, j = task'[u].of, conn'[j].cut = {}
                  PROVE  IF task'[u].pc = "cleaning" THEN Gone(j)' /\ Cleared(j)'
                         ELSE /\ j = task'[u].at \/ Gone(j)'
                              /\ client'.query = task'[u].at \/ Cleared(j)'
      BY <1>1 DEF Leaving
    <3>1. CASE u # t
      <4>1. task'[u] = task[u] /\ j \in Connections
        BY <1>1, <2>4, <3>1, Here
      <4>. QED
        BY <1>1, <2>8, <2>20, <3>1, <4>1 DEF SessionInv, Leaving
    <3>2. CASE u = t
      <4>1. j = m /\ m \in Connections /\ task'[u].pc = "cleaning" /\ conn[m].cut = {}
        BY <2>2, <2>4, <2>8, <3>2
      <4>2. Gone(m)
        BY <1>0, <1>3, <4>1, Here DEF SessionInv, HeldRuns, Excused, Gone
      <4>3. Remover(j)'
        BY <2>9, <4>1, Bounds
      <4>. QED
        BY <2>20, <4>1, <4>2, <4>3 DEF Cleared
    <3>. QED
      BY <3>1, <3>2
  <2>22. EndedGone'
    BY <1>1, <2>8, <2>20, Here DEF SessionInv, EndedGone
  <2>. QED
    BY <2>6, <2>11, <2>12, <2>14, <2>15, <2>16, <2>17, <2>18, <2>19, <2>21, <2>22
       DEF SessionInv
<1>. QED
  BY <1>0, <1>2, <1>3 DEF DisconnectsTo

LEMMA TurnsKeeps ==
    ASSUME SessionInv, Step, connects' = connects, NEW t \in setup.tasks, TurnsTo(t)
    PROVE  SessionInv'
<1>. DEFINE q == client.query
<1>1. /\ TypeOK /\ VarTypes /\ setup' = setup /\ kind' = kind /\ client' = client
      /\ ended' = ended /\ Alike(conn, conn') /\ task' \in [setup.tasks -> TaskType]
      /\ task[t].pc \in {"idle", "initializing", "iterating"}
  BY DEF SessionInv, TypeOK, Step, TurnsTo
<1>2. /\ \A u \in setup.tasks \ {t} : task'[u] = task[u]
      /\ \/ kind = "client" /\ task'[t].pc = "idle" /\ task'[t].at = None /\ task'[t].of = None
         \/ /\ kind = "client" /\ q # None
            /\ task'[t].pc = "iterating" /\ task'[t].at = q /\ task'[t].of = None
         \/ /\ kind = "query" /\ task[t].pc = "initializing"
            /\ task'[t].pc = "iterating"
            /\ task'[t].at = task[t].at /\ task'[t].of = task[t].of
  BY DEF TurnsTo, Goes
<1>3. Same(conn, conn') /\ Sound(conn')
  BY <1>1, AlikeSameToo, SoundNow, SoundAlike
<1>4. TypeOK'
  <2>1. Keeps
    BY <1>1, <1>3, NumbersKnown, KeepsStill, Here DEF Knows, VarTypes, TypeOK, Fresh
  <2>2. CASE Goes(t, "idle", None, None)
    <3>1. PlaceOK("idle", None, None)
      BY <1>1, CountSame, KnownStill, Bounds DEF PlaceOK, ConnectPcs
    <3>. QED
      BY <1>1, <2>1, <2>2, <3>1, TypeGoes
  <2>3. CASE /\ kind = "query" /\ task[t].pc = "initializing"
             /\ Goes(t, "iterating", task[t].at, task[t].of)
    <3>. DEFINE at == task[t].at
                of == task[t].of
    <3>1. at # None /\ at <= connects' /\ of <= connects'
      BY <1>1, <2>3, Here, NumbersKnown, CountSame, KnownStill
    <3>. HIDE DEF at, of
    <3>2. PlaceOK("iterating", at, of)
      BY <2>3, <3>1 DEF PlaceOK, ConnectPcs
    <3>. QED
      BY <1>1, <2>1, <2>3, <3>2, TypeGoes DEF at, of
  <2>4. CASE /\ kind = "client" /\ q # None
             /\ task'[t].pc = "iterating" /\ task'[t].at = q /\ task'[t].of = None
    <3>1. Places'
      BY <1>1, <1>2, <2>4 DEF Places, ConnectPcs, TypeOK
    <3>2. ASSUME NEW u \in setup.tasks
          PROVE  task'[u].at <= connects' /\ task'[u].of <= connects'
      BY <1>1, <1>2, <2>4, NumbersKnown, CountSame, KnownStill
    <3>. QED
      BY <1>1, <2>1, <3>1, <3>2, TypeKeeps
  <2>. QED
    BY <2>2, <2>3, <2>4 DEF TurnsTo
<1>5. \A j \in Connections : /\ conn'[j].cut = {} => conn[j].cut = {}
                             /\ Excused(j) => Excused(j)'
  BY <1>1, <1>3, SameExcuses
<1>6. \A j : (Remover(j)' <=> Remover(j)) /\ (BeingClosed(j)' <=> BeingClosed(j))
  BY <1>1, <1>2 DEF Remover, BeingClosed
<1>7. \A u \in setup.tasks : task'[u].pc \in ConnectPcs \cup {"closing", "cleaning"} =>
          u # t /\ task'[u] = task[u]
  BY <1>2 DEF ConnectPcs
<1>8. Unspawned'
  BY <1>1, <1>3, <1>7, Here DEF SessionInv, Unspawned, Making, ConnectPcs, Same
<1>9. OneConnects' /\ Unassigned' /\ Newest'
  BY <1>1, <1>7 DEF SessionInv, OneConnects, Unassigned, Newest, Making, ConnectPcs
<1>10. Own'
  <2>1. ASSUME NEW u \in setup.tasks,
               \/ task'[u].pc \in Making
               \/ task'[u].pc = "connecting" /\ conn'[task'[u].at].cut = {}
        PROVE  /\ task'[u].at \notin ended
               /\ \A v \in setup.tasks \ {u} :
                     task'[v].at # task'[u].at /\ task'[v].of # task'[u].at
    <3>1. task'[u] = task[u] /\ u # t /\ task[u].pc \in Making \cup {"connecting"}
      BY <1>7, <2>1 DEF Making, ConnectPcs
    <3>2. task[u].at \in Connections /\ q # task[u].at
      BY <3>1, SpawnedKnown
    <3>3. /\ task[u].at \notin ended
          /\ \A v \in setup.tasks \ {u} : task[v].at # task[u].at /\ task[v].of # task[u].at
      BY <1>5, <2>1, <3>1, <3>2 DEF SessionInv, Own
    <3>. QED
      BY <1>2, <3>1, <3>2, <3>3, Bounds
  <2>. QED
    BY <1>1, <2>1 DEF Own
<1>11. DirSafe'
  BY <1>1, <1>3, <1>5, <1>6, <1>7 DEF SessionInv, DirSafe, ConnectPcs, Same
<1>12. HeldRuns' /\ InitRuns'
  BY <1>1, <1>3, <1>5, <1>7, Here DEF SessionInv, HeldRuns, InitRuns, ConnectPcs, Same
<1>13. DirKnown' /\ ProcessKnown'
  BY <1>1, <1>2, <1>3, <1>5, <1>6 DEF SessionInv, DirKnown, ProcessKnown, Same
<1>14. QueryKind'
  BY <1>1, <1>2, OneTask, Here DEF SessionInv, QueryKind, ConnectPcs
<1>15. \A j \in Connections : (Gone(j) => Gone(j)') /\ (Cleared(j) => Cleared(j)')
  BY <1>1, <1>3, <1>6 DEF Gone, Cleared, Same
<1>16. Leaving' /\ EndedGone'
  BY <1>1, <1>5, <1>7, <1>15, Here DEF SessionInv, Leaving, EndedGone
<1>. QED
  BY <1>4, <1>8, <1>9, <1>10, <1>11, <1>12, <1>13, <1>14, <1>16 DEF SessionInv

LEMMA RestsKeeps ==
    ASSUME SessionInv, Step, connects' = connects, RestsTo
    PROVE  SessionInv'
<1>1. /\ TypeOK /\ VarTypes /\ setup' = setup /\ kind' = kind /\ client' = client
      /\ ended' = ended /\ task' \in [setup.tasks -> TaskType]
      /\ \A u \in setup.tasks : /\ task'[u].pc = task[u].pc /\ task'[u].at = task[u].at
                                /\ task'[u].of = task[u].of
  BY DEF SessionInv, TypeOK, Step, RestsTo
<1>2. /\ Sound(conn')
      /\ \A j \in Connections :
            /\ conn'[j].dir = conn[j].dir /\ conn'[j].cut = conn[j].cut
            /\ conn'[j].process = "alive" => conn[j].process = "alive"
            /\ conn'[j].process = "none" <=> conn[j].process = "none"
  <2>1. CASE Alike(conn, conn')
    BY <1>1, <2>1, SoundNow, SoundAlike DEF Alike
  <2>2. ASSUME NEW i \in Connections, conn[i].process = "alive", Runs(conn, conn', i, "exited")
        PROVE  /\ Sound(conn')
               /\ \A j \in Connections :
                     /\ conn'[j].dir = conn[j].dir /\ conn'[j].cut = conn[j].cut
                     /\ conn'[j].process = "alive" => conn[j].process = "alive"
                     /\ conn'[j].process = "none" <=> conn[j].process = "none"
    <3>1. ~(i > connects)
      BY <1>1, <2>2 DEF TypeOK, Fresh, NoConnection
    <3>2. Sound(conn')
      BY <1>1, <2>2, <3>1, SoundNow, SoundRuns
    <3>. QED
      BY <2>2, <3>2 DEF Runs
  <2>. QED
    BY <2>1, <2>2 DEF RestsTo
<1>3. TypeOK'
  <2>1. Keeps
    BY <1>1, <1>2, NumbersKnown, KeepsStill, Here DEF Knows, VarTypes, TypeOK, Fresh
  <2>2. Places'
    BY <1>1 DEF Places, TypeOK, RestsTo
  <2>3. ASSUME NEW u \in setup.tasks
        PROVE  task'[u].at <= connects' /\ task'[u].of <= connects'
    BY <1>1, NumbersKnown, CountSame, KnownStill
  <2>. QED
    BY <1>1, <2>1, <2>2, <2>3, TypeKeeps
<1>4. \A j : (Remover(j)' <=> Remover(j)) /\ (BeingClosed(j)' <=> BeingClosed(j))
  BY <1>1 DEF Remover, BeingClosed
<1>5. \A j \in Connections : Excused(j)' <=> Excused(j)
  BY <1>1, <1>2 DEF Excused
<1>6. Unspawned'
  BY <1>1, <1>2, Here DEF SessionInv, Unspawned, Making, ConnectPcs
<1>7. OneConnects' /\ Unassigned' /\ Newest' /\ QueryKind'
  BY <1>1 DEF SessionInv, OneConnects, Unassigned, Newest, QueryKind
<1>8. Own'
  BY <1>1, <1>2, Here DEF SessionInv, Own, Making, ConnectPcs
<1>9. DirSafe' /\ HeldRuns'
  BY <1>1, <1>2, <1>4, <1>5 DEF SessionInv, DirSafe, HeldRuns
<1>10. InitRuns'
  BY <1>1, <1>2, Here DEF SessionInv, InitRuns
<1>11. DirKnown' /\ ProcessKnown'
  BY <1>1, <1>2, <1>4 DEF SessionInv, DirKnown, ProcessKnown
<1>12. \A j \in Connections : (Gone(j) => Gone(j)') /\ (Cleared(j) => Cleared(j)')
  BY <1>1, <1>2, <1>4 DEF Gone, Cleared
<1>13. Leaving' /\ EndedGone'
  BY <1>1, <1>2, <1>12, Here DEF SessionInv, Leaving, EndedGone
<1>. QED
  BY <1>3, <1>6, <1>7, <1>8, <1>9, <1>10, <1>11, <1>13 DEF SessionInv

\* What the end of a process leaves: a Query that is another is taken.
LEMMA QueryClosesConn ==
    ASSUME SessionInv, Step, NEW t \in setup.tasks, QueryClosesTo(t),
           NEW q, q = task[t].at, NEW now, now = client.query
    PROVE  /\ Knows(None, client.materialized) /\ Sound(conn')
           /\ conn'[q].process = "exited"
           /\ \A j \in Connections :
                 /\ conn'[j].dir = conn[j].dir /\ conn[j].cut \subseteq conn'[j].cut
                 /\ j # q => conn'[j].process = conn[j].process
                 /\ j \in Taken(t, q) => "taken" \in conn'[j].cut
           /\ now # q => "taken" \in conn'[now].cut
           /\ \/ client.materialized = None /\ EndsTo(t)
              \/ /\ client.materialized # None /\ ended' = ended
                 /\ Goes(t, "cleaning", client.materialized, task[t].of)
<1>1. PICK b, d, c : /\ Alike(conn, b) /\ Runs(b, d, q, "exited")
                     /\ IF now = q THEN c = d ELSE Reasoned(d, c, {now}, "taken")
                     /\ ReleaseTo(t, q, c)
  BY DEF QueryClosesTo
<1>2. /\ TypeOK /\ q \in Connections /\ ~(q > connects) /\ now \in Connections
      /\ ~(now > connects) /\ task[t].pc = "closing"
  BY Here, NumbersKnown DEF SessionInv, QueryClosesTo
<1>3. ASSUME NEW j \in Taken(t, q) PROVE ~(j > connects)
  BY <1>2, <1>3, NumbersKnown DEF Taken, ConnectingOthers
<1>4. Sound(d)
  BY <1>1, <1>2, SoundNow, SoundAlike, SoundRuns
<1>5. /\ Sound(c) /\ Same(d, c) /\ (now # q => "taken" \in c[now].cut)
  <2>1. CASE now = q
    BY <1>1, <1>4, <2>1 DEF Same
  <2>2. CASE now # q
    BY <1>1, <1>2, <1>4, <2>2, SoundReasoned, ReasonedSame
  <2>. QED
    BY <2>1, <2>2
<1>6. /\ Sound(conn') /\ Same(c, conn')
      /\ \A j \in Connections : j \in Taken(t, q) => "taken" \in conn'[j].cut
  BY <1>1, <1>3, <1>5, SoundReasoned, ReasonedSame DEF ReleaseTo
<1>7. ASSUME NEW j \in Connections
      PROVE  /\ conn'[j].dir = conn[j].dir /\ conn[j].cut \subseteq conn'[j].cut
             /\ j # q => conn'[j].process = conn[j].process
  <2>1. b[j].dir = conn[j].dir /\ b[j].cut = conn[j].cut /\ b[j].process = conn[j].process
    BY <1>1 DEF Alike
  <2>2. d[j].dir = b[j].dir /\ d[j].cut = b[j].cut /\ (j # q => d[j].process = b[j].process)
    BY <1>1 DEF Runs
  <2>. QED
    BY <1>5, <1>6, <2>1, <2>2 DEF Same
<1>8. conn'[q].process = "exited" /\ (now # q => "taken" \in conn'[now].cut)
  BY <1>1, <1>2, <1>5, <1>6 DEF Same, Runs
<1>. QED
  BY <1>1, <1>6, <1>7, <1>8 DEF ReleaseTo

LEMMA QueryClosesKeeps ==
    ASSUME SessionInv, Step, connects' = connects, NEW t \in setup.tasks, QueryClosesTo(t)
    PROVE  SessionInv'
<1>0. PICK q, now, m, o : /\ q = task[t].at /\ now = client.query
                          /\ m = client.materialized /\ o = task[t].of
  OBVIOUS
<1>1. /\ TypeOK /\ VarTypes /\ setup' = setup /\ kind' = kind /\ task[t].pc = "closing"
      /\ now # None
  BY <1>0 DEF SessionInv, TypeOK, Step, QueryClosesTo
<1>2. /\ q \in Connections /\ o \in Connections /\ now \in Connections
      /\ (m # None => m \in Connections)
      /\ ~(m > connects) /\ ~(o > connects)
  BY <1>0, <1>1, Here, NumbersKnown
<1>3. /\ Knows(None, m) /\ Sound(conn')
      /\ conn'[q].process = "exited"
      /\ \A j \in Connections :
            /\ conn'[j].dir = conn[j].dir /\ conn[j].cut \subseteq conn'[j].cut
            /\ j # q => conn'[j].process = conn[j].process
            /\ j \in Taken(t, q) => "taken" \in conn'[j].cut
      /\ now # q => "taken" \in conn'[now].cut
      /\ \/ m = None /\ EndsTo(t)
         \/ m # None /\ ended' = ended /\ Goes(t, "cleaning", m, o)
  BY <1>0, QueryClosesConn
<1>4. client'.query = None /\ client'.materialized = m
  BY <1>3 DEF Knows
<1>5. /\ \/ /\ m = None /\ ended' = ended \cup {o}
            /\ task'[t].pc = "idle" /\ task'[t].at = None /\ task'[t].of = None
         \/ /\ m # None /\ ended' = ended
            /\ task'[t].pc = "cleaning" /\ task'[t].at = m /\ task'[t].of = o
      /\ \A u \in setup.tasks \ {t} : task'[u] = task[u]
  BY <1>0, <1>2, <1>3, Bounds DEF EndsTo, Goes
<1>6. TypeOK'
  <2>1. ~(None > connects)
    BY <1>1, NumbersKnown DEF None
  <2>2. CASE m = None /\ EndsTo(t)
    BY <1>1, <1>3, <2>1, <2>2, Bounds, TypeEnds
  <2>3. CASE m # None /\ ended' = ended /\ Goes(t, "cleaning", m, o)
    <3>1. Keeps
      BY <1>0, <1>1, <1>2, <1>3, <2>1, <2>3, NumbersKnown, KeepsStill, Here, Bounds
         DEF TypeOK, Fresh
    <3>2. PlaceOK("cleaning", m, o)
      BY <1>0, <1>1, <1>2, <2>3, NumbersKnown, CountSame, KnownStill, Bounds
         DEF PlaceOK, ConnectPcs
    <3>. QED
      BY <1>1, <2>3, <3>1, <3>2, TypeGoes
  <2>. QED
    BY <1>3, <2>2, <2>3
<1>7. \A j \in Connections : /\ conn'[j].cut = {} => conn[j].cut = {}
                             /\ Excused(j) => Excused(j)'
                             /\ j \in Taken(t, q) => Excused(j)'
                             /\ conn'[j].process = "alive" => conn[j].process = "alive" /\ j # q
  BY <1>1, <1>3 DEF Excused
<1>8. now # q => Excused(now)' /\ conn'[now].cut # {}
  BY <1>2, <1>3 DEF Excused
<1>9. \A j \in Connections :
          j = now /\ conn'[j].process = "alive" => Excused(j)' /\ conn'[j].cut # {}
  BY <1>7, <1>8 DEF Excused
<1>10. /\ \A j : (Remover(j) => Remover(j)') /\ (BeingClosed(j) /\ j # q => BeingClosed(j)')
       /\ \A j : Remover(j)' => Remover(j) \/ (j = m /\ m # None)
       /\ m # None => Remover(m)'
  BY <1>0, <1>1, <1>5 DEF Remover, BeingClosed
<1>11. \A u \in setup.tasks : task'[u].pc \in ConnectPcs \cup {"closing"} =>
           u # t /\ task'[u] = task[u]
  BY <1>5 DEF ConnectPcs
<1>12. \A u \in setup.tasks : task'[u].pc = "connecting" =>
           task'[u].at \in Taken(t, q) /\ task'[u].at \in Connections
  BY <1>1, <1>11, Here DEF ConnectPcs, Taken, ConnectingOthers
<1>13. Unspawned'
  <2>1. \A u \in setup.tasks : task'[u].pc \in Making \cup {"connecting"} =>
            task'[u].at \in Connections /\ task'[u].at # q
    BY <1>0, <1>1, <1>11, SpawnedKnown DEF Making, ConnectPcs
  <2>2. \A u \in setup.tasks : task'[u].pc = "closing" => task'[u].at \in Connections
    BY <1>1, <1>11, Here
  <2>. QED
    BY <1>1, <1>3, <1>4, <1>11, <2>1, <2>2 DEF SessionInv, Unspawned, Making, ConnectPcs
<1>14. OneConnects' /\ Unassigned' /\ Newest'
  BY <1>0, <1>1, <1>4, <1>11 DEF SessionInv, OneConnects, Unassigned, Newest, Making, ConnectPcs
<1>15. Own'
  <2>1. ASSUME NEW u \in setup.tasks, task'[u].pc = "connecting"
        PROVE  conn'[task'[u].at].cut # {}
    BY <1>3, <1>12, <2>1
  <2>2. \A u \in setup.tasks : task'[u].pc \in Making => u # t /\ task'[u] = task[u]
    BY <1>11 DEF Making, ConnectPcs
  <2>3. ASSUME NEW u \in setup.tasks, task'[u].pc \in Making
        PROVE  /\ task'[u].at \notin ended'
               /\ \A v \in setup.tasks \ {u} :
                     task'[v].at # task'[u].at /\ task'[v].of # task'[u].at
    <3>1. task[u].at # m /\ task[u].at \in Connections
      BY <1>0, <1>1, <2>2, <2>3, Here DEF SessionInv, Unassigned, Making, ConnectPcs
    <3>2. /\ task[u].at \notin ended
          /\ \A v \in setup.tasks \ {u} : task[v].at # task[u].at /\ task[v].of # task[u].at
      BY <2>2, <2>3 DEF SessionInv, Own
    <3>. QED
      BY <1>0, <1>5, <2>2, <2>3, <3>1, <3>2, Bounds
  <2>. QED
    BY <1>1, <2>1, <2>3 DEF Own
<1>16. DirSafe'
  <2>1. ASSUME NEW j \in Connections, conn'[j].dir \in {"removed", "left"} \/ Remover(j)',
               ~Excused(j)'
        PROVE  /\ conn'[j].process # "alive"
               /\ \A u \in setup.tasks : task'[u].pc = "connecting" => task'[u].at # j
    <3>1. ~Excused(j) /\ j \notin Taken(t, q) /\ (j = now => conn'[j].process # "alive")
      BY <1>7, <1>9, <2>1
    <3>2. conn'[j].process # "alive"
      <4>1. CASE j = m
        BY <1>0, <1>7, <3>1, <4>1 DEF SessionInv, HeldRuns
      <4>2. CASE j # m
        BY <1>3, <1>7, <1>10, <2>1, <3>1, <4>2 DEF SessionInv, DirSafe
      <4>. QED
        BY <4>1, <4>2
    <3>. QED
      BY <1>12, <3>1, <3>2
  <2>. QED
    BY <1>1, <2>1 DEF DirSafe
<1>17. HeldRuns'
  BY <1>0, <1>4, <1>7, <1>9 DEF SessionInv, HeldRuns
<1>18. InitRuns'
  BY <1>0, <1>1, <1>7, <1>9, <1>11, Here DEF SessionInv, InitRuns, ConnectPcs
<1>19. DirKnown'
  BY <1>0, <1>1, <1>3, <1>4, <1>5, <1>7, <1>10 DEF SessionInv, DirKnown
<1>20. ProcessKnown'
  BY <1>0, <1>7, <1>9, <1>10 DEF SessionInv, ProcessKnown
<1>21. QueryKind'
  BY <1>1, <1>5, OneTask DEF QueryKind
<1>22. \A j \in Connections : (Gone(j) => Gone(j)') /\ (Cleared(j) => Cleared(j)')
  BY <1>2, <1>3, <1>4, <1>7, <1>10, Bounds DEF Gone, Cleared
<1>23. ASSUME NEW u \in setup.tasks, task[u].pc \in {"closing", "cleaning"},
              NEW j, j = task[u].of, conn'[j].cut = {}
       PROVE  /\ j \in Connections /\ conn[j].cut = {} /\ Cleared(j)'
  <2>1. j \in Connections /\ conn[j].cut = {} /\ (m = j \/ Cleared(j))
    BY <1>0, <1>1, <1>7, <1>23, LeavingKnown, Here
  <2>2. m = j => Remover(j)'
    BY <1>10, <2>1, Bounds
  <2>. QED
    BY <1>22, <2>1, <2>2 DEF Cleared
<1>24. ASSUME conn'[o].cut = {} PROVE Gone(o)' /\ Cleared(o)'
  <2>1. conn[o].cut = {} /\ Cleared(o)'
    BY <1>0, <1>1, <1>23, <1>24
  <2>2. Gone(o)'
    <3>1. CASE o = q
      BY <1>2, <1>3, <1>4, <3>1, Bounds DEF Gone
    <3>2. CASE o # q
      BY <1>0, <1>1, <1>2, <1>22, <2>1, <3>2 DEF SessionInv, Leaving
    <3>. QED
      BY <3>1, <3>2
  <2>. QED
    BY <2>1, <2>2
<1>25. Leaving'
  <2>. SUFFICES ASSUME NEW u \in setup.tasks, task'[u].pc \in {"closing", "cleaning"},
                       NEW j, j = task'[u].of, conn'[j].cut = {}
                PROVE  /\ Cleared(j)'
                       /\ Gone(j)' \/ (task'[u].pc = "closing" /\ j = task'[u].at)
    BY <1>1 DEF Leaving
  <2>1. CASE u # t
    <3>1. task'[u] = task[u]
      BY <1>5, <2>1
    <3>2. j \in Connections /\ conn[j].cut = {} /\ Cleared(j)'
      BY <1>23, <3>1
    <3>. QED
      BY <1>1, <1>22, <3>1, <3>2 DEF SessionInv, Leaving
  <2>2. CASE u = t
    BY <1>5, <1>24, <2>2
  <2>. QED
    BY <2>1, <2>2
<1>26. EndedGone'
  <2>. SUFFICES ASSUME NEW j \in ended', conn'[j].cut = {}
                PROVE  Gone(j)' /\ Cleared(j)'
    BY DEF EndedGone
  <2>1. CASE j \in ended
    BY <1>1, <1>7, <1>22, <2>1, Here DEF SessionInv, EndedGone
  <2>2. CASE j = o
    BY <1>24, <2>2
  <2>. QED
    BY <1>5, <2>1, <2>2
<1>. QED
  BY <1>6, <1>13, <1>14, <1>15, <1>16, <1>17, <1>18, <1>19, <1>20, <1>21, <1>25, <1>26
     DEF SessionInv

\* A call that ends though its close() has broken off.
LEMMA BreaksConn ==
    ASSUME SessionInv, Step, NEW t \in setup.tasks, NEW q, NEW o, q = task[t].at,
           o = task[t].of, task[t].pc = "closing", NEW why \in Reasons,
           \/ client.query # q /\ Runs(conn, conn', q, "exited")
           \/ Reasoned(conn, conn', {q, o}, why)
    PROVE  /\ q \in Connections /\ o \in Connections /\ Sound(conn')
           /\ \A j \in Connections :
                 /\ conn'[j].dir = conn[j].dir /\ conn[j].cut \subseteq conn'[j].cut
                 /\ conn'[j].process = "alive" => conn[j].process = "alive"
                 /\ j # q => conn'[j].process = conn[j].process
           /\ \/ /\ client.query # q /\ conn'[q].process = "exited"
              \/ /\ why \in conn'[q].cut /\ why \in conn'[o].cut
                 /\ conn'[q].process = conn[q].process
<1>1. /\ TypeOK /\ q \in Connections /\ o \in Connections
      /\ ~(q > connects) /\ ~(o > connects)
  BY Here, NumbersKnown DEF SessionInv
<1>2. CASE client.query # q /\ Runs(conn, conn', q, "exited")
  <2>1. Sound(conn')
    BY <1>1, <1>2, SoundNow, SoundRuns
  <2>2. ASSUME NEW j \in Connections
        PROVE  /\ conn'[j].dir = conn[j].dir /\ conn'[j].cut = conn[j].cut
               /\ conn'[j].process = "alive" => conn[j].process = "alive"
               /\ j # q => conn'[j].process = conn[j].process
    BY <1>2 DEF Runs
  <2>3. conn'[q].process = "exited"
    BY <1>2 DEF Runs
  <2>. QED
    BY <1>1, <1>2, <2>1, <2>2, <2>3
<1>3. CASE Reasoned(conn, conn', {q, o}, why)
  BY <1>1, <1>3, SoundNow, SoundReasoned, ReasonedSame DEF Same
<1>. QED
  BY <1>2, <1>3

LEMMA BrokenKeeps ==
    ASSUME SessionInv, Step, connects' = connects, NEW t \in setup.tasks,
           task[t].pc = "closing", EndsTo(t), client' = client, NEW q, NEW o,
           q = task[t].at, o = task[t].of, NEW why \in Reasons,
           \/ client.query # q /\ Runs(conn, conn', q, "exited")
           \/ Reasoned(conn, conn', {q, o}, why)
    PROVE  SessionInv'
<1>1. /\ TypeOK /\ VarTypes /\ setup' = setup /\ kind' = kind
  BY DEF SessionInv, TypeOK, Step
<1>2. /\ q \in Connections /\ o \in Connections /\ Sound(conn')
      /\ \A j \in Connections :
            /\ conn'[j].dir = conn[j].dir /\ conn[j].cut \subseteq conn'[j].cut
            /\ conn'[j].process = "alive" => conn[j].process = "alive"
            /\ j # q => conn'[j].process = conn[j].process
      /\ \/ /\ client.query # q /\ conn'[q].process = "exited"
         \/ /\ why \in conn'[q].cut /\ why \in conn'[o].cut
            /\ conn'[q].process = conn[q].process
  BY BreaksConn
<1>3. /\ task'[t].pc = "idle" /\ task'[t].at = None /\ task'[t].of = None
      /\ \A u \in setup.tasks \ {t} : task'[u] = task[u]
      /\ ended' = ended \cup {o}
  BY <1>2, Bounds DEF EndsTo, Goes
<1>4. TypeOK'
  BY <1>1, <1>2, NumbersKnown, TypeEnds DEF Knows, VarTypes
<1>5. \A j \in Connections : /\ conn'[j].cut = {} => conn[j].cut = {}
                             /\ Excused(j) => Excused(j)'
                             /\ conn'[j].process = "none" => conn[j].process = "none"
                             /\ conn'[j].cut = {} /\ conn'[j].process = "alive" => j # q
  BY <1>1, <1>2 DEF Excused
<1>6. \A j : /\ Remover(j)' <=> Remover(j)
             /\ BeingClosed(j) /\ j # q => BeingClosed(j)'
  BY <1>1, <1>3 DEF Remover, BeingClosed
<1>7. \A u \in setup.tasks : task'[u].pc \in ConnectPcs \cup {"closing", "cleaning"} =>
          u # t /\ task'[u] = task[u]
  BY <1>3 DEF ConnectPcs
<1>8. Unspawned'
  <2>1. \A u \in setup.tasks : task'[u].pc \in Making \cup {"connecting"} =>
            task'[u].at \in Connections /\ task'[u].at # q
    BY <1>1, <1>7, SpawnedKnown DEF Making, ConnectPcs
  <2>2. \A u \in setup.tasks : task'[u].pc = "closing" => task'[u].at \in Connections
    BY <1>1, <1>7, Here
  <2>. QED
    BY <1>1, <1>2, <1>5, <1>7, <2>1, <2>2, Here DEF SessionInv, Unspawned, Making, ConnectPcs
<1>9. OneConnects' /\ Unassigned' /\ Newest'
  BY <1>1, <1>7 DEF SessionInv, OneConnects, Unassigned, Newest, Making, ConnectPcs
<1>10. Own'
  <2>1. ASSUME NEW u \in setup.tasks,
               \/ task'[u].pc \in Making
               \/ task'[u].pc = "connecting" /\ conn'[task'[u].at].cut = {}
        PROVE  /\ task'[u].at \notin ended'
               /\ \A v \in setup.tasks \ {u} :
                     task'[v].at # task'[u].at /\ task'[v].of # task'[u].at
    <3>1. task'[u] = task[u] /\ u # t /\ task[u].pc \in Making \cup {"connecting"}
      BY <1>7, <2>1 DEF Making, ConnectPcs
    <3>2. task[u].at \in Connections
      BY <3>1, SpawnedKnown
    <3>3. /\ task[u].at \notin ended
          /\ \A v \in setup.tasks \ {u} : task[v].at # task[u].at /\ task[v].of # task[u].at
      BY <1>5, <2>1, <3>1, <3>2 DEF SessionInv, Own
    <3>. QED
      BY <1>3, <3>1, <3>2, <3>3, Bounds
  <2>. QED
    BY <1>1, <2>1 DEF Own
<1>11. DirSafe'
  BY <1>1, <1>2, <1>5, <1>6, <1>7 DEF SessionInv, DirSafe, ConnectPcs
<1>12. HeldRuns' /\ InitRuns'
  BY <1>1, <1>2, <1>5, <1>7, Here DEF SessionInv, HeldRuns, InitRuns, ConnectPcs
<1>13. DirKnown'
  BY <1>1, <1>2, <1>3, <1>5, <1>6 DEF SessionInv, DirKnown
<1>14. ProcessKnown'
  BY <1>2, <1>5, <1>6 DEF SessionInv, ProcessKnown
<1>15. QueryKind'
  BY <1>1, <1>3, OneTask DEF SessionInv, QueryKind
<1>16. \A j \in Connections : (Gone(j) => Gone(j)') /\ (Cleared(j) => Cleared(j)')
  BY <1>2, <1>6 DEF Gone, Cleared
<1>17. Leaving'
  BY <1>1, <1>5, <1>7, <1>16, Here DEF SessionInv, Leaving
<1>18. EndedGone'
  <2>. SUFFICES ASSUME NEW j \in ended', conn'[j].cut = {}
                PROVE  Gone(j)' /\ Cleared(j)'
    BY DEF EndedGone
  <2>1. CASE j \in ended
    BY <1>1, <1>5, <1>16, <2>1, Here DEF SessionInv, EndedGone
  <2>2. CASE j = o
    <3>1. client.query # q /\ conn'[q].process = "exited" /\ conn[o].cut = {}
      BY <1>2, <1>5, <2>2
    <3>2. (o = q \/ Gone(o)) /\ Cleared(o)
      BY <3>1 DEF SessionInv, Leaving
    <3>. QED
      BY <1>2, <1>16, <2>2, <3>1, <3>2 DEF Gone
  <2>. QED
    BY <1>3, <2>1, <2>2
<1>. QED
  BY <1>4, <1>8, <1>9, <1>10, <1>11, <1>12, <1>13, <1>14, <1>15, <1>17, <1>18 DEF SessionInv

LEMMA BreaksKeeps ==
    ASSUME SessionInv, Step, connects' = connects, NEW t \in setup.tasks, BreaksTo(t)
    PROVE  SessionInv'
  BY BrokenKeeps DEF BreaksTo, Reasons

\* In a query() the outer finally clause runs all the same.
LEMMA AbortsKeeps ==
    ASSUME SessionInv, Step, connects' = connects, NEW t \in setup.tasks, AbortsTo(t)
    PROVE  SessionInv'
<1>0. PICK q, m, o : q = task[t].at /\ m = client.materialized /\ o = task[t].of
  OBVIOUS
<1>1. /\ TypeOK /\ VarTypes /\ setup' = setup /\ kind' = kind /\ task[t].pc = "closing"
      /\ Reasoned(conn, conn', {q, o}, "raw_cancel") /\ "raw_cancel" \in Reasons
  BY <1>0 DEF SessionInv, TypeOK, Step, AbortsTo, Reasons
<1>2. CASE kind = "client"
  BY <1>0, <1>1, <1>2, BrokenKeeps, KindIs DEF AbortsTo
<1>3. CASE /\ kind = "query" /\ Knows(None, m)
           /\ \/ m = None /\ EndsTo(t)
              \/ m # None /\ Goes(t, "cleaning", m, o) /\ ended' = ended
  <2>1. /\ q \in Connections /\ o \in Connections /\ Sound(conn') /\ Same(conn, conn')
        /\ "raw_cancel" \in conn'[q].cut /\ "raw_cancel" \in conn'[o].cut
        /\ client.query = q /\ \A u \in setup.tasks : u = t
        /\ ~(o > connects) /\ ~(m > connects) /\ (m # None => m \in Connections)
    <3>1. q \in Connections /\ o \in Connections /\ (m # None => m \in Connections)
      BY <1>0, <1>1, Here
    <3>2. ~(q > connects) /\ ~(o > connects) /\ ~(m > connects)
      BY <1>0, <1>1, NumbersKnown
    <3>3. client.query = q /\ \A u \in setup.tasks : u = t
      BY <1>0, <1>1, <1>3, OneTask DEF SessionInv, QueryKind
    <3>. QED
      BY <1>1, <3>1, <3>2, <3>3, SoundNow, SoundReasoned, ReasonedSame
  <2>2. client'.query = None /\ client'.materialized = m
    BY <1>3 DEF Knows
  <2>3. \/ /\ m = None /\ ended' = ended \cup {o} /\ task'[t].pc = "idle"
        \/ /\ m # None /\ ended' = ended
           /\ task'[t].pc = "cleaning" /\ task'[t].at = m /\ task'[t].of = o
    BY <1>0, <1>3, <2>1, Bounds DEF EndsTo, Goes
  <2>4. TypeOK'
    <3>1. ~(None > connects)
      BY <1>1, NumbersKnown DEF None
    <3>2. CASE m = None /\ EndsTo(t)
      BY <1>1, <1>3, <2>1, <3>1, <3>2, Bounds, TypeEnds
    <3>3. CASE m # None /\ Goes(t, "cleaning", m, o) /\ ended' = ended
      <4>1. Keeps
        BY <1>0, <1>1, <1>3, <2>1, <3>1, <3>3, NumbersKnown, KeepsStill, Here, Bounds
           DEF TypeOK, Fresh
      <4>2. PlaceOK("cleaning", m, o)
        BY <1>0, <1>1, <2>1, <3>3, NumbersKnown, CountSame, KnownStill, Bounds
           DEF PlaceOK, ConnectPcs
      <4>. QED
        BY <1>1, <3>3, <4>1, <4>2, TypeGoes
    <3>. QED
      BY <1>3, <3>2, <3>3
  <2>5. /\ \A j \in Connections : /\ conn'[j].cut = {} => conn[j].cut = {}
                                  /\ Excused(j) => Excused(j)'
        /\ Excused(q)' /\ conn'[q].cut # {} /\ conn'[o].cut # {}
    BY <1>1, <1>3, <2>1 DEF Excused, Same
  <2>6. \A u \in setup.tasks : task'[u].pc \notin ConnectPcs \cup {"closing"}
    BY <2>1, <2>3 DEF ConnectPcs
  <2>7. /\ \A j : ~Remover(j)
        /\ \A j : BeingClosed(j) => j = q
        /\ \A j : Remover(j)' <=> j = m /\ m # None
    <3>1. \A j : ~Remover(j)
      BY <1>1, <2>1 DEF Remover
    <3>2. \A j : BeingClosed(j) => j = q
      BY <1>0, <1>1, <2>1 DEF BeingClosed
    <3>3. \A j : Remover(j)' <=> j = m /\ m # None
      BY <1>1, <2>1, <2>3 DEF Remover
    <3>. QED
      BY <3>1, <3>2, <3>3
  <2>8. /\ Unspawned' /\ OneConnects' /\ Own' /\ Unassigned' /\ Newest' /\ InitRuns'
        /\ QueryKind'
    BY <1>1, <2>2, <2>3, <2>6, OneTask
       DEF Unspawned, OneConnects, Own, Unassigned, Newest, InitRuns, QueryKind, Making,
           ConnectPcs
  <2>9. HeldRuns'
    BY <1>0, <2>1, <2>2, <2>5 DEF SessionInv, HeldRuns, Same
  <2>10. DirSafe'
    <3>1. m # None => Excused(m)' \/ conn'[m].process # "alive"
      BY <1>0, <2>1, <2>5 DEF SessionInv, HeldRuns, Same
    <3>2. ASSUME NEW j \in Connections, conn'[j].dir \in {"removed", "left"}
          PROVE  Excused(j)' \/ conn'[j].process # "alive"
      BY <2>1, <2>5, <3>2 DEF SessionInv, DirSafe, Same
    <3>3. \A u \in setup'.tasks : task'[u].pc # "connecting"
      BY <1>1, <2>6 DEF ConnectPcs
    <3>. QED
      BY <2>7, <3>1, <3>2, <3>3 DEF DirSafe
  <2>11. DirKnown' /\ ProcessKnown'
    BY <1>0, <1>1, <2>1, <2>2, <2>5, <2>7 DEF SessionInv, DirKnown, ProcessKnown, Same
  <2>12. Leaving'
    BY <1>1, <2>1, <2>3, <2>5 DEF Leaving
  <2>13. EndedGone'
    <3>. SUFFICES ASSUME NEW j \in ended', conn'[j].cut = {}
                  PROVE  Gone(j)' /\ Cleared(j)'
      BY DEF EndedGone
    <3>1. j \in ended /\ j \in Connections /\ conn[j].cut = {}
      BY <1>1, <2>1, <2>3, <2>5, Here
    <3>2. Gone(j) /\ Cleared(j)
      BY <3>1 DEF SessionInv, EndedGone
    <3>. QED
      BY <2>1, <2>2, <2>7, <3>1, <3>2, Bounds DEF Gone, Cleared, Same
  <2>. QED
    BY <2>4, <2>8, <2>9, <2>10, <2>11, <2>12, <2>13 DEF SessionInv
<1>. QED
  BY <1>0, <1>2, <1>3 DEF AbortsTo

-----------------------------------------------------------------------------
(***************************************************************************)
(* The theorems                                                            *)
(***************************************************************************)
LEMMA InitTypes == ASSUME Init PROVE TypeOK
<1>1. NoCall \in TaskType /\ NoConnection \in ConnectionType
  BY Bounds DEF NoCall, TaskType, Pcs, NoConnection, ConnectionType
<1>2. NoAnswer \in [conn : MaybeConnection, from : Nat, to : Nat, given : Seq(Nat)]
  BY Bounds DEF NoAnswer
<1>3. VarTypes
  BY <1>1, <1>2, Bounds DEF Init, VarTypes, ClientType
<1>4. Places
  BY DEF Init, Places, NoCall, ConnectPcs
<1>5. Fits(conn)
  BY DEF Init, Fits, NoConnection
<1>6. Fresh
  BY DEF Init, Fresh, NoCall, None
<1>. QED
  BY <1>3, <1>4, <1>5, <1>6 DEF TypeOK

LEMMA InitInv == ASSUME Init PROVE SessionInv
<1>1. TypeOK
  BY InitTypes
<1>2. /\ \A t \in setup.tasks : task[t].pc = "idle"
      /\ \A i \in Connections : conn[i].process = "none" /\ conn[i].dir = "none"
      /\ client.query = None /\ ended = {}
  BY DEF Init, NoCall, NoConnection
<1>3. Unspawned /\ OneConnects /\ Own /\ Unassigned /\ Newest /\ InitRuns /\ QueryKind
  BY <1>2 DEF Unspawned, OneConnects, Own, Unassigned, Newest, InitRuns, QueryKind, Making,
              ConnectPcs
<1>4. DirSafe /\ HeldRuns /\ DirKnown /\ ProcessKnown /\ Leaving /\ EndedGone
  BY <1>2 DEF DirSafe, HeldRuns, DirKnown, ProcessKnown, Leaving, EndedGone, Remover
<1>. QED
  BY <1>1, <1>3, <1>4 DEF SessionInv

LEMMA NextInv == ASSUME SessionInv, [SessionNext]_sessionVars PROVE SessionInv'
<1>1. Step
  BY NextSteps DEF SessionInv
<1>2. ASSUME connects' = connects, NEW t \in setup.tasks, TaskStep(t) PROVE SessionInv'
  BY <1>1, <1>2, LoadedKeeps, LoadsKeeps, LoadFailsKeeps, DiscardsKeeps, RemovedKeeps,
     SpawnsKeeps, FailsKeeps, DisconnectsKeeps, QueryClosesKeeps, BreaksKeeps, AbortsKeeps,
     TurnsKeeps, RestsKeeps DEF TaskStep
<1>. QED
  BY <1>1, <1>2, ConnectsKeeps, RestsKeeps DEF Step

(* Whatever two connect()s, disconnect()s and iterations do to each other,  *)
(* the invariant of the client, its connections and its tasks is kept.      *)
THEOREM SessionInvariant == Spec => []SessionInv
<1>1. Init => SessionInv
  BY InitInv
<1>2. SessionInv /\ [SessionNext]_sessionVars => SessionInv'
  BY NextInv
<1>. QED
  BY <1>1, <1>2, PTL DEF Spec

(* Every value has its type in every reachable state, each call is at a     *)
(* connection that has been made, no task has taken more messages than the  *)
(* CLI sent, and the fields of connections to come are untouched.           *)
THEOREM TypeCorrect == Spec => []TypeOK
<1>1. SessionInv => TypeOK
  BY DEF SessionInv
<1>. QED
  BY <1>1, SessionInvariant, PTL

(* For any number of tasks and connects, any streams and faults: no call    *)
(* removes or gives up a temporary CLAUDE_CONFIG_DIR that a CLI runs on,    *)
(* except for an option that does not convert, a raw cancellation of a      *)
(* query(), and a connection that another's disconnect() has taken.         *)
THEOREM DirHolds == Spec => []DirOutlivesProcess
<1>1. SessionInv => DirOutlivesProcess
  BY DEF SessionInv, DirSafe, Excused, DirOutlivesProcess
<1>. QED
  BY <1>1, SessionInvariant, PTL

(* Of a connection that was not cut off (by a set-up that failed once the   *)
(* CLI ran, a raw cancellation inside close(), a connect() that replaced it *)
(* or another's disconnect() that took it): what has raised or was          *)
(* disconnected has been released when the calls are over, and until then   *)
(* it is known of, by _query and _materialized or by a call on its way to   *)
(* close or remove it.                                                      *)
THEOREM EndsClean == Spec => []EndReleases
<1>1. ASSUME SessionInv PROVE EndReleases
  <2>1. \A i \in Connections : Remover(i) \/ BeingClosed(i) => Busy(i)
    BY DEF Remover, BeingClosed, Busy
  <2>2. \A i \in Connections :
            (\E t \in setup.tasks : task[t].pc = "subkeys" /\ task[t].at = i) => Busy(i)
    BY DEF Busy
  <2>3. NothingForgotten
    BY <1>1, <2>1, <2>2 DEF SessionInv, DirKnown, ProcessKnown, NothingForgotten
  <2>4. AllIdle => \A i : ~Remover(i)
    BY DEF AllIdle, Remover
  <2>5. \A i \in ended : AllIdle /\ conn[i].cut = {} =>
            client.query # i /\ conn[i].process # "alive" /\ conn[i].dir # "present"
    BY <1>1, <2>4 DEF SessionInv, EndedGone, Gone, Cleared
  <2>. QED
    BY <2>3, <2>5 DEF EndReleases
<1>. QED
  BY <1>1, SessionInvariant, PTL

-----------------------------------------------------------------------------
(***************************************************************************)
(* The responses.  A task that iterates is between two results: the        *)
(* messages it has taken since it began hold none but the last of them,    *)
(* and it has given out those of them that are known.                      *)
(***************************************************************************)
Iterates(t) == task[t].pc = "iterating"
BeingRead(i) == \E t \in setup.tasks : Iterates(t) /\ task[t].at = i

\* What comes before the message n of c is a result, if there is any.
AtTurn(c, n) == n = 1 \/ IsResult(c.sent[n - 1])
KnownIn(c, from, to) == {n \in from..to : Class(c.sent[n]) # "unknown"}

InTurn(r, c) ==
    /\ r.from \in 1..(c.taken + 1) /\ (c.abandoned \/ AtTurn(c, r.from))
    /\ Increasing(r.given) /\ Range(r.given) = KnownIn(c, r.from, c.taken)
    /\ \A n \in r.from..(c.taken - 1) : ~IsResult(c.sent[n])

TurnsInv ==
    /\ kind = "query" => answer = NoAnswer
    /\ kind = "client" =>
          /\ \A t, u \in setup.tasks : Iterates(t) /\ Iterates(u) => t = u
          /\ \A t \in setup.tasks :
                ~Iterates(t) \/ task[t].mode = "messages" => task[t].given = <<>>
          /\ \A i \in Connections :
                BeingRead(i) \/ conn[i].abandoned \/ AtTurn(conn[i], conn[i].taken + 1)
          /\ \A t \in setup.tasks :
                Iterates(t) /\ task[t].mode = "response" => InTurn(task[t], conn[task[t].at])

\* a is a whole turn among what has been taken of the connections c.
WholeTurn(c, a) ==
    /\ a.conn \in Connections /\ a.from \in 1..a.to /\ a.to <= c[a.conn].taken
    /\ Increasing(a.given) /\ Range(a.given) = KnownIn(c[a.conn], a.from, a.to)
    /\ \A n \in a.from..a.to : IsResult(c[a.conn].sent[n]) <=> n = a.to
    /\ c[a.conn].abandoned \/ AtTurn(c[a.conn], a.from)

ResponseInv == TurnsInv /\ (answer # NoAnswer => WholeTurn(conn, answer))

\* More is taken of d than of c, and nothing is taken back.
Later(c, d) ==
    \A i \in Connections :
        /\ c[i].taken <= d[i].taken /\ (c[i].abandoned => d[i].abandoned)
        /\ \A n \in 1..c[i].taken : d[i].sent[n] = c[i].sent[n]

LEMMA ResultKnown ==
    ASSUME NEW m
    PROVE  /\ IsResult(m) => Class(m) # "unknown"
           /\ Parsed(m) <=> ~Refused(m) /\ Class(m) # "unknown"
  BY DEF IsResult, Parsed, Skipped

LEMMA WholeResponse ==
    ASSUME TypeOK, answer # NoAnswer, WholeTurn(conn, answer)
    PROVE  ResponsesWhole
<1>. DEFINE c == conn[answer.conn]
            turn == SubSeq(c.sent, answer.from, answer.to)
<1>1. /\ c \in ConnectionType /\ answer.from \in Nat /\ answer.to \in Nat
      /\ c.taken <= Len(c.sent)
  BY ClientFields DEF TypeOK, VarTypes, Fits, WholeTurn
<1>2. /\ c.sent \in Seq(Sendable) /\ c.taken \in Nat /\ Len(c.sent) \in Nat
      /\ answer.from \in 1..answer.to /\ answer.to <= c.taken
  BY <1>1 DEF ConnectionType, WholeTurn
<1>. HIDE DEF c
<1>3. /\ Len(turn) = answer.to - answer.from + 1 /\ DOMAIN turn = 1..Len(turn)
      /\ \A n \in 1..Len(turn) : turn[n] = c.sent[answer.from + n - 1]
  BY <1>1, <1>2
<1>. HIDE DEF turn
<1>4. ASSUME NEW n \in DOMAIN turn PROVE IsResult(turn[n]) <=> n = Len(turn)
  <2>. DEFINE k == answer.from + n - 1
  <2>1. n \in 1..Len(turn) /\ k \in answer.from..answer.to /\ (k = answer.to <=> n = Len(turn))
    BY <1>1, <1>2, <1>3
  <2>2. turn[n] = c.sent[k]
    BY <1>3, <2>1
  <2>. HIDE DEF k
  <2>3. IsResult(c.sent[k]) <=> k = answer.to
    BY <2>1 DEF WholeTurn, c
  <2>. QED
    BY <2>1, <2>2, <2>3
<1>. QED
  BY <1>4 DEF WholeTurn, KnownIn, AtTurn, ResponsesWhole, turn, c

LEMMA TurnStays ==
    ASSUME NEW c, NEW d, Typed(c), Typed(d), Later(c, d), NEW a, WholeTurn(c, a), a.to \in Nat
    PROVE  WholeTurn(d, a)
<1>. DEFINE i == a.conn
<1>1. /\ i \in Connections /\ a.from \in 1..a.to /\ a.to <= c[i].taken
      /\ c[i].taken <= d[i].taken /\ (c[i].abandoned => d[i].abandoned)
      /\ \A n \in 1..c[i].taken : d[i].sent[n] = c[i].sent[n]
      /\ c[i].taken \in Nat /\ d[i].taken \in Nat
  BY DEF WholeTurn, Later, Typed, ConnectionType
<1>2. a.from..a.to \subseteq 1..c[i].taken /\ a.to <= d[i].taken
  BY <1>1
<1>3. \A n \in a.from..a.to : d[i].sent[n] = c[i].sent[n]
  BY <1>1, <1>2
<1>4. KnownIn(d[i], a.from, a.to) = KnownIn(c[i], a.from, a.to)
  BY <1>3 DEF KnownIn
<1>5. AtTurn(c[i], a.from) => AtTurn(d[i], a.from)
  <2>1. a.from # 1 => a.from - 1 \in 1..c[i].taken
    BY <1>1
  <2>. QED
    BY <1>1, <2>1 DEF AtTurn
<1>. QED
  BY <1>1, <1>2, <1>3, <1>4, <1>5 DEF WholeTurn


\* Whoever iterates goes on, and who does not has nothing to give out.
TaskStill ==
    \A u \in setup.tasks :
        /\ task'[u].pc = "iterating" <=> task[u].pc = "iterating"
        /\ task'[u].given = task[u].given \/ (task'[u].given = <<>> /\ ~Iterates(u))
        /\ Iterates(u) =>
              /\ task'[u].at = task[u].at /\ task'[u].from = task[u].from
              /\ task'[u].mode = task[u].mode
Quiet ==
    /\ Reads(conn, conn') /\ TaskStill
    /\ setup' = setup /\ kind' = kind /\ answer' = answer

LEMMA GoesStill ==
    ASSUME NEW t \in setup.tasks, NEW pc, NEW at, NEW of, Goes(t, pc, at, of),
           pc # "iterating", ~Iterates(t)
    PROVE  TaskStill
  BY DEF Goes, TaskStill, Iterates

LEMMA ReadsSame == ASSUME NEW c PROVE Reads(c, c)
  BY DEF Reads

LEMMA ReadsOn == ASSUME NEW c, NEW d, NEW e, Reads(c, d), Reads(d, e) PROVE Reads(c, e)
  BY DEF Reads

LEMMA ReasonedReads ==
    ASSUME NEW c, NEW d, NEW S, NEW why, Reasoned(c, d, S, why)
    PROVE  Reads(c, d)
  BY DEF Reasoned, Reads

LEMMA AssignsQuiet ==
    ASSUME TypeOK, NEW t \in setup.tasks, ~Iterates(t), NEW i, NEW on, AssignsTo(t, i, on)
    PROVE  Reads(conn, conn') /\ TaskStill
<1>1. Reads(conn, conn')
  BY ReasonedReads DEF AssignsTo
<1>2. TaskStill
  BY GoesStill DEF AssignsTo
<1>. QED
  BY <1>1, <1>2

LEMMA ReleaseQuiet ==
    ASSUME NEW t \in setup.tasks, ~Iterates(t), NEW c, NEW q, ReleaseTo(t, q, c),
           Reads(conn, c)
    PROVE  Reads(conn, conn') /\ TaskStill
<1>1. Reads(c, conn')
  BY ReasonedReads DEF ReleaseTo
<1>2. TaskStill
  BY GoesStill DEF ReleaseTo, EndsTo
<1>. QED
  BY <1>1, <1>2, ReadsOn

LEMMA UnwindQuiet ==
    ASSUME NEW t \in setup.tasks, ~Iterates(t), NEW c, UnwindTo(t, c), Reads(conn, c)
    PROVE  Reads(conn, conn') /\ TaskStill
<1>1. CASE ClosingTo(t, c)
  BY <1>1, GoesStill DEF ClosingTo
<1>2. CASE ReleaseTo(t, None, c)
  BY <1>2, ReleaseQuiet
<1>. QED
  BY <1>1, <1>2 DEF UnwindTo

LEMMA RemovedQuiet ==
    ASSUME NEW t \in setup.tasks, NEW forgets, RemovedTo(t, forgets)
    PROVE  Reads(conn, conn') /\ TaskStill
<1>. DEFINE i == task[t].at
<1>1. PICK c : /\ \A j \in Connections \ {i} : c[j] = conn[j]
               /\ c[i].taken = conn[i].taken /\ c[i].sent = conn[i].sent
               /\ c[i].abandoned = conn[i].abandoned
               /\ \E S : Reasoned(c, conn', S, "taken")
  BY DEF RemovedTo
<1>2. Reads(conn, c)
  BY <1>1 DEF Reads
<1>3. Reads(c, conn')
  BY <1>1, ReasonedReads
<1>4. TaskStill
  BY GoesStill DEF RemovedTo, EndsTo, InRemoval, Iterates
<1>. QED
  BY <1>2, <1>3, <1>4, ReadsOn

LEMMA FieldsStill ==
    ASSUME TypeOK, NEW t \in setup.tasks, NEW r \in TaskType,
           task' = [task EXCEPT ![t] = r], r.pc = task[t].pc, r.at = task[t].at,
           r.from = task[t].from, r.mode = task[t].mode, r.given = task[t].given
    PROVE  TaskStill
  BY ClientFields DEF TaskStill, TypeOK

LEMMA RestsQuiet ==
    ASSUME TypeOK, NEW t \in setup.tasks, RemoveBlocked(t) \/ Cancel(t)
    PROVE  Reads(conn, conn') /\ TaskStill
<1>1. task[t] \in TaskType /\ task \in [setup.tasks -> TaskType]
  BY ClientFields DEF TypeOK
<1>2. CASE RemoveBlocked(t)
  <2>1. task' = [task EXCEPT ![t].tries = task[t].tries - 1] /\ task[t].tries # 0
    BY <1>1, <1>2 DEF RemoveBlocked, Spent
  <2>. DEFINE r == [task[t] EXCEPT !.tries = task[t].tries - 1]
  <2>2. task[t].tries - 1 \in 0..Retries
    BY <1>1, <2>1, Bounds, TaskFields
  <2>3. /\ r \in TaskType /\ r.pc = task[t].pc /\ r.at = task[t].at
        /\ r.from = task[t].from /\ r.mode = task[t].mode /\ r.given = task[t].given
    BY <1>1, <2>2 DEF TaskType
  <2>4. task' = [task EXCEPT ![t] = r]
    BY <1>1, <2>1
  <2>. HIDE DEF r
  <2>5. TaskStill
    BY <2>3, <2>4, FieldsStill
  <2>. QED
    BY <1>2, <2>5, ReadsSame DEF RemoveBlocked
<1>3. CASE Cancel(t)
  <2>. DEFINE r == [task[t] EXCEPT !.cancelled = TRUE]
  <2>1. /\ r \in TaskType /\ r.pc = task[t].pc /\ r.at = task[t].at
        /\ r.from = task[t].from /\ r.mode = task[t].mode /\ r.given = task[t].given
    BY <1>1 DEF TaskType
  <2>2. task' = [task EXCEPT ![t] = r]
    BY <1>1, <1>3 DEF Cancel
  <2>. HIDE DEF r
  <2>3. TaskStill
    BY <2>1, <2>2, FieldsStill
  <2>. QED
    BY <1>3, <2>3, ReadsSame DEF Cancel
<1>. QED
  BY <1>2, <1>3

LEMMA FilesFreedQuiet ==
    ASSUME TypeOK, NEW i \in Connections, FilesFreed(i)
    PROVE  Reads(conn, conn')
<1>1. conn \in [Connections -> ConnectionType] /\ conn[i] \in ConnectionType
      /\ conn' = [conn EXCEPT ![i].files = "free"]
  BY ClientFields DEF FilesFreed, TypeOK
<1>2. /\ conn'[i].taken = conn[i].taken /\ conn'[i].sent = conn[i].sent
      /\ conn'[i].abandoned = conn[i].abandoned
      /\ \A j \in Connections \ {i} : conn'[j] = conn[j]
  BY <1>1 DEF ConnectionType
<1>. QED
  BY <1>2 DEF Reads


LEMMA InitializedQuiet ==
    ASSUME TypeOK, kind = "client", NEW t \in setup.tasks, Initialized(t)
    PROVE  Reads(conn, conn') /\ TaskStill
<1>1. /\ task[t].pc = "initializing" /\ task' = [task EXCEPT ![t] = NoCall] /\ conn' = conn
      /\ task \in [setup.tasks -> TaskType]
  BY ClientFields DEF Initialized, TypeOK
<1>2. TaskStill
  BY <1>1 DEF TaskStill, NoCall, Iterates
<1>. QED
  BY <1>1, <1>2, ReadsSame

LEMMA ProgressQuiet ==
    ASSUME TypeOK, Unspawned, kind = "client", NEW t \in setup.tasks, Progress(t)
    PROVE  Quiet
<1>1. CASE LoadsNothing(t)
  <2>1. Reads(conn, conn') /\ TaskStill
    BY <1>1, LoadsNothingDoes, AssignsQuiet DEF Iterates
  <2>. QED
    BY <1>1, <2>1 DEF LoadsNothing, Quiet
<1>2. CASE Loads(t)
  <2>1. LoadsTo(t)
    BY <1>2, LoadsDoes
  <2>2. TaskStill
    BY <2>1, GoesStill DEF LoadsTo, Iterates
  <2>3. Reads(conn, conn')
    BY <2>1 DEF LoadsTo, Reads
  <2>. QED
    BY <1>2, <2>2, <2>3 DEF Loads, Quiet
<1>3. CASE LoadFails(t)
  <2>1. TaskStill /\ conn' = conn
    BY <1>3, LoadFailsDoes, GoesStill DEF EndsTo, Iterates
  <2>. QED
    BY <1>3, <2>1, ReadsSame DEF LoadFails, Quiet
<1>4. CASE SubkeysLoaded(t)
  <2>1. Reads(conn, conn') /\ TaskStill
    BY <1>4, SubkeysLoadedDoes, AssignsQuiet DEF Iterates
  <2>. QED
    BY <1>4, <2>1 DEF SubkeysLoaded, Quiet
<1>5. CASE SubkeysFail(t)
  <2>1. TaskStill /\ conn' = conn
    BY <1>5, SubkeysFailDoes, GoesStill DEF Iterates
  <2>. QED
    BY <1>5, <2>1, ReadsSame DEF SubkeysFail, Quiet
<1>6. CASE Removes(t)
  <2>1. Reads(conn, conn') /\ TaskStill
    BY <1>6, RemovesDoes, RemovedQuiet
  <2>. QED
    BY <1>6, <2>1 DEF Removes, Quiet
<1>7. CASE RemoveBlocked(t)
  BY <1>7, RestsQuiet DEF RemoveBlocked, Quiet
<1>8. CASE Sweep(t)
  <2>1. Reads(conn, conn') /\ TaskStill
    BY <1>8, SweepDoes, RemovedQuiet
  <2>. QED
    BY <1>8, <2>1 DEF Sweep, Quiet
<1>9. CASE Spawns(t)
  <2>1. task[t].pc = "connecting"
    BY <1>9 DEF Spawns
  <2>2. SpawnsTo(t)
    BY <1>9, <2>1, SpawnsDoes DEF Unspawned
  <2>3. TaskStill
    BY <2>2, GoesStill DEF SpawnsTo, Iterates
  <2>4. Reads(conn, conn')
    BY <2>2, ReasonedReads, ReadsOn DEF SpawnsTo, Runs
  <2>. QED
    BY <1>9, <2>3, <2>4 DEF Spawns, Quiet
<1>10. CASE Initialized(t)
  BY <1>10, InitializedQuiet DEF Initialized, Quiet
<1>11. CASE InitializeFails(t)
  <2>1. Reads(conn, conn') /\ TaskStill
    BY <1>11, InitializeFailsDoes, ReadsSame, UnwindQuiet DEF Iterates
  <2>. QED
    BY <1>11, <2>1 DEF InitializeFails, Quiet
<1>12. CASE QueryCloses(t)
  <2>1. QueryClosesTo(t)
    BY <1>12, QueryClosesDoes
  <2>2. PICK b, d, c : /\ Reads(conn, b) /\ Reads(b, d) /\ (c = d \/ Reads(d, c))
                       /\ ReleaseTo(t, task[t].at, c)
    BY <2>1, ReasonedReads DEF QueryClosesTo, Runs
  <2>3. Reads(conn, c) /\ ~Iterates(t)
    BY <2>1, <2>2, ReadsOn DEF QueryClosesTo, Iterates
  <2>4. Reads(conn, conn') /\ TaskStill
    BY <2>2, <2>3, ReleaseQuiet
  <2>. QED
    BY <1>12, <2>4 DEF QueryCloses, Quiet
<1>13. CASE CloseBreaks(t)
  <2>1. BreaksTo(t)
    BY <1>13, CloseBreaksDoes
  <2>2. TaskStill
    BY <2>1, GoesStill DEF BreaksTo, EndsTo, Iterates
  <2>3. Reads(conn, conn')
    BY <2>1, ReasonedReads DEF BreaksTo, Runs
  <2>. QED
    BY <1>13, <2>2, <2>3 DEF CloseBreaks, Quiet
<1>. QED
  BY <1>1, <1>2, <1>3, <1>4, <1>5, <1>6, <1>7, <1>8, <1>9, <1>10, <1>11, <1>12, <1>13
     DEF Progress

LEMMA FailureQuiet ==
    ASSUME TypeOK, Unspawned, kind = "client", NEW t \in setup.tasks, Failure(t)
    PROVE  Quiet
<1>1. CASE LoadFails(t)
  <2>1. TaskStill /\ conn' = conn
    BY <1>1, LoadFailsDoes, GoesStill DEF EndsTo, Iterates
  <2>. QED
    BY <1>1, <2>1, ReadsSame DEF LoadFails, Quiet
<1>2. CASE SubkeysFail(t)
  <2>1. TaskStill /\ conn' = conn
    BY <1>2, SubkeysFailDoes, GoesStill DEF Iterates
  <2>. QED
    BY <1>2, <2>1, ReadsSame DEF SubkeysFail, Quiet
<1>3. CASE SpawnFails(t)
  <2>1. Reads(conn, conn') /\ TaskStill
    BY <1>3, SpawnFailsDoes, ReadsSame, UnwindQuiet DEF Iterates
  <2>. QED
    BY <1>3, <2>1 DEF SpawnFails, Quiet
<1>4. CASE SetUpFails(t)
  <2>1. task[t].pc = "connecting"
    BY <1>4 DEF SetUpFails
  <2>2. PICK c : SetsUpTo(t, c)
    BY <1>4, <2>1, SetUpFailsDoes DEF Unspawned
  <2>3. Reads(conn, c)
    BY <2>2, ReasonedReads, ReadsOn DEF SetsUpTo, Runs
  <2>4. Reads(conn, conn') /\ TaskStill
    BY <2>1, <2>2, <2>3, UnwindQuiet DEF SetsUpTo, Iterates
  <2>. QED
    BY <1>4, <2>4 DEF SetUpFails, Quiet
<1>5. CASE InitializeFails(t)
  <2>1. Reads(conn, conn') /\ TaskStill
    BY <1>5, InitializeFailsDoes, ReadsSame, UnwindQuiet DEF Iterates
  <2>. QED
    BY <1>5, <2>1 DEF InitializeFails, Quiet
<1>6. CASE CloseAborted(t)
  <2>1. AbortsTo(t)
    BY <1>6, CloseAbortedDoes
  <2>2. TaskStill
    BY <2>1, GoesStill DEF AbortsTo, EndsTo, Iterates
  <2>3. Reads(conn, conn')
    BY <2>1, ReasonedReads DEF AbortsTo
  <2>. QED
    BY <1>6, <2>2, <2>3 DEF CloseAborted, Quiet
<1>7. CASE Cancel(t)
  BY <1>7, RestsQuiet DEF Cancel, Quiet
<1>. QED
  BY <1>1, <1>2, <1>3, <1>4, <1>5, <1>6, <1>7 DEF Failure

\* Whatever happens but an iteration, no response is touched.
LEMMA NextQuiet ==
    ASSUME TypeOK, Unspawned, kind = "client", [SessionNext]_sessionVars
    PROVE  Quiet \/ \E t \in setup.tasks : Iteration(t)
<1>1. ASSUME NEW t \in setup.tasks, Connect(t) PROVE Quiet
  <2>1. ConnectsTo(t)
    BY <1>1, ConnectDoes
  <2>2. Reads(conn, conn') /\ TaskStill
    BY <2>1, ReadsSame, GoesStill, AssignsQuiet DEF ConnectsTo, Iterates
  <2>. QED
    BY <1>1, <2>2 DEF Connect, Quiet
<1>2. ASSUME NEW t \in setup.tasks, Disconnect(t) PROVE Quiet
  <2>1. DisconnectsTo(t)
    BY <1>2, DisconnectDoes
  <2>2. TaskStill
    BY <2>1, GoesStill DEF DisconnectsTo, Iterates
  <2>3. Reads(conn, conn')
    BY <2>1, ReadsSame, ReasonedReads DEF DisconnectsTo
  <2>. QED
    BY <1>2, <2>2, <2>3 DEF Disconnect, Quiet
<1>3. ASSUME NEW i \in Connections, ProcessExits(i) PROVE Quiet
  <2>1. Reads(conn, conn')
    BY <1>3, ExitedRuns, ClientFields DEF ProcessExits, TypeOK, Runs
  <2>. QED
    BY <1>3, <2>1 DEF ProcessExits, Quiet, TaskStill
<1>4. ASSUME NEW i \in Connections, FilesFreed(i) PROVE Quiet
  BY <1>4, FilesFreedQuiet DEF FilesFreed, Quiet, TaskStill
<1>5. CASE UNCHANGED sessionVars
  BY <1>5, ReadsSame DEF sessionVars, Quiet, TaskStill
<1>. QED
  BY <1>1, <1>2, <1>3, <1>4, <1>5, ProgressQuiet, FailureQuiet DEF SessionNext


LEMMA ReadsLater ==
    ASSUME NEW c, NEW d, Typed(c), Reads(c, d) PROVE Later(c, d)
  BY DEF Reads, Later, Typed, ConnectionType

LEMMA QuietKeeps ==
    ASSUME TypeOK, TypeOK', kind = "client", ResponseInv, Quiet
    PROVE  ResponseInv'
<1>1. /\ Typed(conn) /\ Typed(conn') /\ \A t \in setup.tasks : task[t] \in TaskType
      /\ Reads(conn, conn') /\ setup' = setup /\ kind' = kind /\ answer' = answer
  BY ClientFields DEF TypeOK, VarTypes, Typed, Quiet
<1>2. answer' # NoAnswer => WholeTurn(conn', answer')
  <2>1. answer.to \in Nat
    BY DEF TypeOK, VarTypes
  <2>. QED
    BY <1>1, <2>1, ReadsLater, TurnStays DEF ResponseInv
<1>3. \A t \in setup.tasks :
         /\ task'[t].pc = "iterating" <=> Iterates(t)
         /\ Iterates(t) => /\ task'[t].at = task[t].at /\ task'[t].from = task[t].from
                           /\ task'[t].mode = task[t].mode /\ task'[t].given = task[t].given
         /\ task[t].given = <<>> => task'[t].given = <<>>
  BY <1>1 DEF Quiet, TaskStill, Iterates
<1>4. ASSUME NEW i \in Connections
      PROVE  /\ conn[i].taken \in Nat /\ conn'[i].taken = conn[i].taken
             /\ conn'[i].abandoned = conn[i].abandoned
             /\ \A n \in 1..conn[i].taken : conn'[i].sent[n] = conn[i].sent[n]
             /\ \A n \in 1..(conn[i].taken + 1) : AtTurn(conn[i], n) => AtTurn(conn'[i], n)
  <2>1. /\ conn[i].taken \in Nat /\ conn'[i].taken = conn[i].taken
        /\ conn'[i].abandoned = conn[i].abandoned
        /\ \A n \in 1..conn[i].taken : conn'[i].sent[n] = conn[i].sent[n]
    BY <1>1, <1>4 DEF Typed, ConnectionType, Reads
  <2>2. \A n \in 1..(conn[i].taken + 1) : n # 1 => n - 1 \in 1..conn[i].taken
    BY <2>1
  <2>. QED
    BY <2>1, <2>2 DEF AtTurn
<1>5. \A t, u \in setup'.tasks : Iterates(t)' /\ Iterates(u)' => t = u
  BY <1>1, <1>3 DEF ResponseInv, TurnsInv, Iterates
<1>6. \A t \in setup'.tasks :
         ~Iterates(t)' \/ task'[t].mode = "messages" => task'[t].given = <<>>
  BY <1>1, <1>3 DEF ResponseInv, TurnsInv, Iterates
<1>7. ASSUME NEW i \in Connections
      PROVE  BeingRead(i)' \/ conn'[i].abandoned \/ AtTurn(conn'[i], conn'[i].taken + 1)
  <2>1. BeingRead(i) => BeingRead(i)'
    BY <1>1, <1>3 DEF BeingRead, Iterates
  <2>2. conn[i].taken + 1 \in 1..(conn[i].taken + 1)
    BY <1>4
  <2>. QED
    BY <1>4, <2>1, <2>2 DEF ResponseInv, TurnsInv
<1>8. ASSUME NEW t \in setup.tasks, Iterates(t)', task'[t].mode = "response"
      PROVE  InTurn(task'[t], conn'[task'[t].at])
  <2>. DEFINE i == task[t].at
  <2>1. /\ Iterates(t) /\ InTurn(task[t], conn[i]) /\ task'[t].at = i
        /\ task'[t].from = task[t].from /\ task'[t].given = task[t].given
    BY <1>3, <1>8 DEF ResponseInv, TurnsInv, Iterates
  <2>2. i \in Connections
    BY <2>1, AtConnection DEF Iterates
  <2>3. /\ task[t].from \in 1..(conn[i].taken + 1) /\ task[t].from \in Nat
        /\ task[t].from..conn[i].taken \subseteq 1..conn[i].taken
        /\ task[t].from..(conn[i].taken - 1) \subseteq 1..conn[i].taken
    BY <1>4, <2>1, <2>2 DEF InTurn
  <2>4. KnownIn(conn'[i], task[t].from, conn[i].taken)
            = KnownIn(conn[i], task[t].from, conn[i].taken)
    BY <1>4, <2>2, <2>3 DEF KnownIn
  <2>5. \A n \in task[t].from..(conn[i].taken - 1) : conn'[i].sent[n] = conn[i].sent[n]
    BY <1>4, <2>2, <2>3
  <2>6. /\ conn'[i].taken = conn[i].taken /\ conn'[i].abandoned = conn[i].abandoned
        /\ AtTurn(conn[i], task[t].from) => AtTurn(conn'[i], task[t].from)
    BY <1>4, <2>2, <2>3
  <2>. HIDE DEF i
  <2>7. /\ conn[i].abandoned \/ AtTurn(conn[i], task[t].from)
        /\ Increasing(task[t].given)
        /\ Range(task[t].given) = KnownIn(conn[i], task[t].from, conn[i].taken)
        /\ \A n \in task[t].from..(conn[i].taken - 1) : ~IsResult(conn[i].sent[n])
    BY <2>1 DEF InTurn
  <2>. QED
    BY <2>1, <2>3, <2>4, <2>5, <2>6, <2>7 DEF InTurn
<1>. QED
  BY <1>1, <1>2, <1>5, <1>6, <1>7, <1>8 DEF ResponseInv, TurnsInv

\* One connection may be read further, or be given up, and t be elsewhere.
LEMMA IterationKeeps ==
    ASSUME TypeOK, TypeOK', kind = "client", ResponseInv, setup' = setup, kind' = kind,
           NEW t \in setup.tasks, \A u \in setup.tasks \ {t} : task'[u] = task[u] /\ ~Iterates(u),
           NEW i \in Connections, \A j \in Connections \ {i} : conn'[j] = conn[j],
           Later(conn, conn'), Iterates(t) => task[t].at = i,
           ~Iterates(t)' \/ task'[t].mode = "messages" => task'[t].given = <<>>,
           \/ Iterates(t)' /\ task'[t].at = i
              /\ (task'[t].mode = "response" => InTurn(task'[t], conn'[i]))
           \/ ~Iterates(t)'
              /\ (conn'[i].abandoned \/ AtTurn(conn'[i], conn'[i].taken + 1)),
           answer' = answer \/ WholeTurn(conn', answer')
    PROVE  ResponseInv'
<1>1. /\ Typed(conn) /\ Typed(conn') /\ answer.to \in Nat
  BY ClientFields DEF TypeOK, VarTypes, Typed
<1>2. answer' # NoAnswer => WholeTurn(conn', answer')
  BY <1>1, TurnStays DEF ResponseInv
<1>3. \A u \in setup.tasks \ {t} : ~Iterates(u)' /\ task'[u].given = <<>>
  BY DEF ResponseInv, TurnsInv, Iterates
<1>4. ASSUME NEW j \in Connections
      PROVE  BeingRead(j)' \/ conn'[j].abandoned \/ AtTurn(conn'[j], conn'[j].taken + 1)
  <2>1. CASE j = i
    BY <2>1 DEF BeingRead
  <2>2. CASE j # i
    <3>1. ~BeingRead(j)
      BY <2>2 DEF BeingRead
    <3>. QED
      BY <2>2, <3>1 DEF ResponseInv, TurnsInv
  <2>. QED
    BY <2>1, <2>2
<1>5. \A u, v \in setup'.tasks : Iterates(u)' /\ Iterates(v)' => u = v
  BY <1>3
<1>6. \A u \in setup'.tasks :
         ~Iterates(u)' \/ task'[u].mode = "messages" => task'[u].given = <<>>
  BY <1>3
<1>7. \A u \in setup'.tasks :
         Iterates(u)' /\ task'[u].mode = "response" => InTurn(task'[u], conn'[task'[u].at])
  BY <1>3
<1>. QED
  BY <1>2, <1>4, <1>5, <1>6, <1>7 DEF ResponseInv, TurnsInv


\* No other task iterates.
LEMMA IteratesAlone ==
    ASSUME TypeOK, kind = "client", ResponseInv, NEW t \in setup.tasks, Iterates(t)
    PROVE  /\ \A u \in setup.tasks \ {t} : ~Iterates(u)
           /\ task[t].at \in Connections /\ task[t] \in TaskType
           /\ conn[task[t].at] \in ConnectionType
  BY AtConnection, ClientFields DEF ResponseInv, TurnsInv, TypeOK, Iterates

LEMMA ReceiveKeeps ==
    ASSUME TypeOK, TypeOK', ResponseInv, NEW t \in setup.tasks, Receive(t)
    PROVE  ResponseInv'
<1>. DEFINE q == client.query
<1>1. PICK mode \in {"messages", "response"} :
         task' = [task EXCEPT ![t] =
                    [@ EXCEPT !.pc = "iterating", !.at = q,
                              !.from = conn[q].taken + 1, !.mode = mode]]
  BY DEF Receive
<1>2. /\ task[t].pc = "idle" /\ kind = "client" /\ q # None
      /\ \A u \in setup.tasks : ~Iterates(u)
      /\ setup' = setup /\ kind' = kind /\ conn' = conn /\ answer' = answer
  BY DEF Receive, Iterates
<1>3. /\ q \in Connections /\ task[t] \in TaskType /\ conn[q] \in ConnectionType
      /\ task \in [setup.tasks -> TaskType]
  BY <1>2, ClientFields, Bounds DEF TypeOK
<1>4. /\ task'[t].pc = "iterating" /\ task'[t].at = q /\ task'[t].mode = mode
      /\ task'[t].from = conn[q].taken + 1 /\ task'[t].given = task[t].given
      /\ \A u \in setup.tasks \ {t} : task'[u] = task[u]
  BY <1>1, <1>3 DEF TaskType
<1>5. task[t].given = <<>> /\ (conn[q].abandoned \/ AtTurn(conn[q], conn[q].taken + 1))
  BY <1>2, <1>3 DEF ResponseInv, TurnsInv, BeingRead
<1>6. InTurn(task'[t], conn[q])
  <2>1. conn[q].taken \in Nat
    BY <1>3 DEF ConnectionType
  <2>2. KnownIn(conn[q], conn[q].taken + 1, conn[q].taken) = {}
    BY <2>1 DEF KnownIn
  <2>3. Increasing(<<>>) /\ Range(<<>>) = {}
    BY DEF Increasing, Range
  <2>. DEFINE c == conn[q]
              from == c.taken + 1
  <2>4. from \in 1..(c.taken + 1) /\ \A n \in from..(c.taken - 1) : FALSE
    BY <2>1
  <2>5. /\ task'[t].from = from /\ task'[t].given = <<>> /\ (c.abandoned \/ AtTurn(c, from))
        /\ KnownIn(c, from, c.taken) = {}
    BY <1>4, <1>5, <2>2
  <2>. HIDE DEF c, from
  <2>6. InTurn(task'[t], c)
    BY <2>3, <2>4, <2>5 DEF InTurn
  <2>. QED
    BY <2>6 DEF c
<1>7. Later(conn, conn')
  <2>1. Typed(conn)
    BY ClientFields DEF TypeOK
  <2>. QED
    BY <1>2, <2>1, ReadsSame, ReadsLater
<1>. QED
  BY <1>2, <1>3, <1>4, <1>5, <1>6, <1>7, IterationKeeps DEF Iterates

LEMMA EndsTurn ==
    ASSUME TypeOK, TypeOK', ResponseInv, kind = "client", setup' = setup, kind' = kind,
           NEW t \in setup.tasks, Iterates(t), Ends(t),
           \A j \in Connections \ {task[t].at} : conn'[j] = conn[j],
           Later(conn, conn'),
           LET c == conn'[task[t].at] IN c.abandoned \/ AtTurn(c, c.taken + 1),
           answer' = answer \/ WholeTurn(conn', answer')
    PROVE  ResponseInv'
<1>1. /\ ~Iterates(t)' /\ task'[t].given = <<>>
      /\ \A u \in setup.tasks \ {t} : task'[u] = task[u]
  BY ClientFields DEF Ends, NoCall, Iterates, TypeOK
<1>. QED
  BY <1>1, IteratesAlone, IterationKeeps

LEMMA LaterAt ==
    ASSUME TypeOK, NEW i \in Connections, \A j \in Connections \ {i} : conn'[j] = conn[j],
           conn'[i].sent = conn[i].sent, conn[i].abandoned => conn'[i].abandoned,
           conn'[i].taken = conn[i].taken \/ conn'[i].taken = conn[i].taken + 1
    PROVE  Later(conn, conn')
<1>1. ASSUME NEW j \in Connections
      PROVE  /\ conn[j].taken <= conn'[j].taken /\ conn'[j].sent = conn[j].sent
             /\ conn[j].abandoned => conn'[j].abandoned
  <2>1. conn[j].taken \in Nat
    BY ClientFields DEF TypeOK, ConnectionType
  <2>. QED
    BY <2>1
<1>. QED
  BY <1>1 DEF Later

LEMMA LeavesKeeps ==
    ASSUME TypeOK, TypeOK', ResponseInv, NEW t \in setup.tasks, Leaves(t)
    PROVE  ResponseInv'
<1>. DEFINE i == task[t].at
<1>1. /\ Iterates(t) /\ kind = "client" /\ Ends(t) /\ conn' = [conn EXCEPT ![i].abandoned = TRUE]
      /\ setup' = setup /\ kind' = kind /\ answer' = answer
  BY DEF Leaves, Iterates
<1>2. /\ i \in Connections /\ conn[i] \in ConnectionType
      /\ conn \in [Connections -> ConnectionType]
  BY <1>1, IteratesAlone, ClientFields DEF TypeOK
<1>3. /\ conn'[i].abandoned /\ conn'[i].taken = conn[i].taken /\ conn'[i].sent = conn[i].sent
      /\ \A j \in Connections \ {i} : conn'[j] = conn[j]
  BY <1>1, <1>2 DEF ConnectionType
<1>4. Later(conn, conn')
  BY <1>2, <1>3, LaterAt
<1>. QED
  BY <1>1, <1>3, <1>4, EndsTurn

LEMMA RefusedKeeps ==
    ASSUME TypeOK, TypeOK', ResponseInv, kind = "client", NEW t \in setup.tasks,
           TakesRefused(t)
    PROVE  ResponseInv'
<1>. DEFINE i == task[t].at
            r == [conn[i] EXCEPT !.taken = conn[i].taken + 1, !.abandoned = TRUE]
<1>1. /\ Iterates(t) /\ Ends(t) /\ conn' = [conn EXCEPT ![i] = r]
      /\ setup' = setup /\ kind' = kind /\ answer' = answer
  BY DEF TakesRefused, CanTake, Iterates
<1>2. /\ i \in Connections /\ conn[i] \in ConnectionType
      /\ conn \in [Connections -> ConnectionType]
  BY <1>1, IteratesAlone, ClientFields DEF TypeOK
<1>3. /\ conn'[i].abandoned /\ conn'[i].taken = conn[i].taken + 1
      /\ conn'[i].sent = conn[i].sent
      /\ \A j \in Connections \ {i} : conn'[j] = conn[j]
  BY <1>1, <1>2 DEF ConnectionType
<1>4. Later(conn, conn')
  BY <1>2, <1>3, LaterAt
<1>. QED
  BY <1>1, <1>3, <1>4, EndsTurn

\* The last message given out is the last result, so it is the last taken.
LEMMA CompletesNow ==
    ASSUME TypeOK, ResponseInv, kind = "client", NEW t \in setup.tasks,
           Iterates(t), task[t].mode = "response"
    PROVE  LET c == conn[task[t].at] IN
           Completes(t) <=> task[t].from <= c.taken /\ IsResult(c.sent[c.taken])
<1>. DEFINE c == conn[task[t].at]
            given == task[t].given
            from == task[t].from
<1>1. InTurn(task[t], c) /\ c \in ConnectionType /\ given \in Seq(Nat) /\ c.taken \in Nat
      /\ from \in Nat
  BY IteratesAlone, TaskFields DEF ResponseInv, TurnsInv, ConnectionType
<1>2. Range(given) = KnownIn(c, from, c.taken)
  BY <1>1 DEF InTurn
<1>. HIDE DEF c, given, from
<1>3. \A j \in DOMAIN given : given[j] \in from..c.taken
  BY <1>2 DEF Range, KnownIn
<1>4. ASSUME Completes(t) PROVE from <= c.taken /\ IsResult(c.sent[c.taken])
  <2>1. given # <<>> /\ IsResult(c.sent[given[Len(given)]])
    BY <1>4 DEF Completes, Last, given, c
  <2>2. Len(given) \in DOMAIN given
    BY <1>1, <2>1
  <2>3. given[Len(given)] \in from..c.taken
    BY <1>3, <2>2
  <2>4. \A n \in from..(c.taken - 1) : ~IsResult(c.sent[n])
    BY <1>1 DEF InTurn, from
  <2>5. given[Len(given)] = c.taken
    BY <1>1, <2>1, <2>3, <2>4
  <2>. QED
    BY <1>1, <2>1, <2>3, <2>5
<1>5. ASSUME from <= c.taken, IsResult(c.sent[c.taken]) PROVE Completes(t)
  <2>1. c.taken \in KnownIn(c, from, c.taken)
    BY <1>1, <1>5, ResultKnown DEF KnownIn
  <2>2. PICK j \in DOMAIN given : given[j] = c.taken
    BY <1>2, <2>1 DEF Range
  <2>3. DOMAIN given = 1..Len(given) /\ Len(given) \in Nat /\ j \in 1..Len(given)
    BY <1>1, <2>2
  <2>4. given # <<>> /\ Len(given) \in DOMAIN given
    BY <1>1, <2>3
  <2>5. ~(j < Len(given))
    <3>1. j < Len(given) => given[j] < given[Len(given)]
      BY <1>1, <2>2, <2>4 DEF InTurn, Increasing, given
    <3>2. given[Len(given)] \in from..c.taken
      BY <1>3, <2>4
    <3>. QED
      BY <1>1, <2>2, <3>1, <3>2
  <2>6. j = Len(given)
    BY <2>3, <2>5
  <2>. QED
    BY <1>5, <2>2, <2>4, <2>6 DEF Completes, Last, Iterates, given, c
<1>. QED
  BY <1>4, <1>5 DEF c, from


LEMMA TakesKeeps ==
    ASSUME TypeOK, TypeOK', ResponseInv, kind = "client", NEW t \in setup.tasks, Takes(t)
    PROVE  ResponseInv'
<1>. DEFINE i == task[t].at
            n == conn[i].taken + 1
            m == conn[i].sent[n]
<1>1. /\ Iterates(t) /\ ~Completes(t) /\ n - 1 < Len(conn[i].sent) /\ ~Refused(m)
      /\ conn' = [conn EXCEPT ![i].taken = @ + 1]
      /\ task' = IF Parsed(m) /\ task[t].mode = "response"
                 THEN [task EXCEPT ![t].given = Append(@, n)] ELSE task
      /\ setup' = setup /\ kind' = kind /\ answer' = answer
  <2>1. /\ CanTake(t) /\ ~Refused(Next1(i)) /\ conn' = [conn EXCEPT ![i].taken = @ + 1]
        /\ task' = IF Gives(Next1(i)) /\ task[t].mode = "response"
                   THEN [task EXCEPT ![t].given = Append(@, n)] ELSE task
        /\ setup' = setup /\ kind' = kind /\ answer' = answer
    BY DEF Takes
  <2>2. conn[i].taken \in Nat
    BY <2>1, IteratesAlone DEF CanTake, Iterates, ConnectionType
  <2>. QED
    BY <2>1, <2>2 DEF CanTake, Next1, Gives, Iterates
<1>2. /\ i \in Connections /\ conn[i] \in ConnectionType
      /\ conn \in [Connections -> ConnectionType] /\ task \in [setup.tasks -> TaskType]
      /\ task[t] \in TaskType /\ \A u \in setup.tasks \ {t} : ~Iterates(u)
  BY <1>1, IteratesAlone, ClientFields DEF TypeOK
<1>3. conn[i].taken \in Nat /\ n \in Nat /\ task[t].given \in Seq(Nat) /\ task[t].from \in Nat
  BY <1>2 DEF ConnectionType, TaskType
<1>4. /\ conn'[i].taken = n /\ conn'[i].sent = conn[i].sent
      /\ conn'[i].abandoned = conn[i].abandoned
      /\ \A j \in Connections \ {i} : conn'[j] = conn[j]
  BY <1>1, <1>2 DEF ConnectionType
<1>5. Later(conn, conn')
  BY <1>2, <1>4, LaterAt
<1>6. /\ task'[t].pc = "iterating" /\ task'[t].at = i /\ task'[t].mode = task[t].mode
      /\ task'[t].from = task[t].from
      /\ task'[t].given = IF Parsed(m) /\ task[t].mode = "response"
                          THEN Append(task[t].given, n) ELSE task[t].given
      /\ \A u \in setup.tasks \ {t} : task'[u] = task[u]
  <2>1. CASE Parsed(m) /\ task[t].mode = "response"
    <3>. DEFINE given == Append(task[t].given, n)
    <3>1. task' = [task EXCEPT ![t] = [task[t] EXCEPT !.given = given]]
      BY <1>1, <1>2, <2>1
    <3>. HIDE DEF given
    <3>2. task'[t] = [task[t] EXCEPT !.given = given]
          /\ \A u \in setup.tasks \ {t} : task'[u] = task[u]
      BY <1>2, <3>1
    <3>3. /\ task'[t].pc = task[t].pc /\ task'[t].at = i /\ task'[t].mode = task[t].mode
          /\ task'[t].from = task[t].from /\ task'[t].given = given
      BY <1>2, <3>2 DEF TaskType
    <3>. QED
      BY <1>1, <2>1, <3>2, <3>3 DEF given, Iterates
  <2>2. CASE ~(Parsed(m) /\ task[t].mode = "response")
    BY <1>1, <2>2 DEF Iterates
  <2>. QED
    BY <2>1, <2>2
<1>7. task'[t].mode = "messages" => task'[t].given = <<>>
  BY <1>6, <1>1 DEF ResponseInv, TurnsInv
<1>8. ASSUME task'[t].mode = "response" PROVE InTurn(task'[t], conn'[i])
  <2>. DEFINE from == task[t].from
              given == task[t].given
  <2>1. /\ from \in 1..n /\ (conn[i].abandoned \/ AtTurn(conn[i], from))
        /\ Increasing(given) /\ Range(given) = KnownIn(conn[i], from, n - 1)
        /\ \A k \in from..(n - 2) : ~IsResult(conn[i].sent[k])
    <3>1. InTurn(task[t], conn[i])
      BY <1>1, <1>6, <1>8 DEF ResponseInv, TurnsInv
    <3>2. n - 1 = conn[i].taken /\ n - 2 = conn[i].taken - 1
      BY <1>3
    <3>. QED
      BY <3>1, <3>2 DEF InTurn
  <2>2. ~(from <= n - 1 /\ IsResult(conn[i].sent[n - 1]))
    <3>1. n - 1 = conn[i].taken
      BY <1>3
    <3>. QED
      BY <1>1, <1>6, <1>8, <3>1, CompletesNow
  <2>3. from \in 1..(n + 1) /\ (conn'[i].abandoned \/ AtTurn(conn'[i], from))
    BY <1>3, <1>4, <2>1 DEF AtTurn
  <2>. HIDE DEF from, n, m
  <2>4. \A k \in from..(n - 1) : ~IsResult(conn[i].sent[k])
    BY <1>3, <2>1, <2>2 DEF from
  <2>5. KnownIn(conn'[i], from, n) = KnownIn(conn[i], from, n - 1)
            \cup (IF Class(m) # "unknown" THEN {n} ELSE {})
    <3>1. from..n = (from..(n - 1)) \cup {n} /\ n \notin from..(n - 1)
      BY <1>3, <2>1 DEF from
    <3>. QED
      BY <1>4, <3>1 DEF KnownIn, m
  <2>6. Parsed(m) <=> Class(m) # "unknown"
    BY <1>1, ResultKnown DEF m, n
  <2>7. CASE Parsed(m)
    <3>1. task'[t].given = Append(given, n) /\ given \in Seq(Nat)
      BY <1>3, <1>6, <1>8, <2>7 DEF n, m
    <3>. HIDE DEF given
    <3>2. \A j \in DOMAIN given : given[j] \in from..(n - 1)
      BY <2>1 DEF Range, KnownIn, n, from
    <3>3. /\ DOMAIN Append(given, n) = DOMAIN given \cup {Len(given) + 1}
          /\ \A j \in DOMAIN given : Append(given, n)[j] = given[j] /\ j < Len(given) + 1
          /\ Append(given, n)[Len(given) + 1] = n /\ DOMAIN given = 1..Len(given)
          /\ Len(given) \in Nat
      BY <3>1
    <3>4. \A j \in DOMAIN given : given[j] \in Nat /\ given[j] < n
      BY <1>3, <3>2 DEF n, from
    <3>5. Increasing(Append(given, n))
      BY <1>3, <2>1, <3>3, <3>4 DEF Increasing
    <3>6. Range(Append(given, n)) = Range(given) \cup {n}
      BY <3>3 DEF Range
    <3>7. Range(Append(given, n)) = KnownIn(conn'[i], from, n)
      BY <2>1, <2>5, <2>6, <2>7, <3>6 DEF n
    <3>8. task'[t].given = Append(given, n)
      BY <3>1
    <3>. QED
      BY <1>4, <1>6, <2>3, <2>4, <3>5, <3>7, <3>8 DEF InTurn, n, from
  <2>8. CASE ~Parsed(m)
    <3>1. task'[t].given = given
      BY <1>6, <2>8 DEF m, n
    <3>2. KnownIn(conn'[i], from, n) = Range(given)
      BY <2>1, <2>5, <2>6, <2>8 DEF n
    <3>. QED
      BY <1>4, <1>6, <2>1, <2>3, <2>4, <3>1, <3>2 DEF InTurn, n, from
  <2>. QED
    BY <2>7, <2>8
<1>. QED
  BY <1>1, <1>2, <1>4, <1>5, <1>6, <1>7, <1>8, IterationKeeps DEF Iterates

LEMMA AnsweredKeeps ==
    ASSUME TypeOK, TypeOK', ResponseInv, kind = "client", NEW t \in setup.tasks, Answered(t)
    PROVE  ResponseInv'
<1>. DEFINE i == task[t].at
            c == conn[i]
            a == [conn |-> i, from |-> task[t].from, to |-> c.taken, given |-> task[t].given]
<1>1. /\ Iterates(t) /\ Completes(t) /\ Ends(t) /\ conn' = conn /\ answer' = a
      /\ setup' = setup /\ kind' = kind /\ task[t].given # <<>>
  BY DEF Answered, Completes, Iterates
<1>2. task[t].mode = "response" /\ i \in Connections /\ c \in ConnectionType
      /\ c.taken \in Nat /\ Typed(conn)
  <2>1. task[t] \in TaskType /\ c \in ConnectionType /\ i \in Connections
    BY <1>1, IteratesAlone
  <2>. QED
    BY <1>1, <2>1, ClientFields DEF ResponseInv, TurnsInv, TaskType, ConnectionType, TypeOK
<1>3. InTurn(task[t], c) /\ task[t].from <= c.taken /\ IsResult(c.sent[c.taken])
  BY <1>1, <1>2, CompletesNow DEF ResponseInv, TurnsInv
<1>4. c.abandoned \/ AtTurn(c, c.taken + 1)
  <2>1. (c.taken + 1) - 1 = c.taken
    BY <1>2
  <2>. QED
    BY <1>3, <2>1 DEF AtTurn
<1>5. WholeTurn(conn, a)
  <2>1. /\ a.conn = i /\ a.from = task[t].from /\ a.to = c.taken /\ a.given = task[t].given
    OBVIOUS
  <2>. HIDE DEF a
  <2>. HIDE DEF c
  <2>2. a.from \in 1..a.to
    BY <1>2, <1>3, <2>1 DEF InTurn
  <2>3. \A n \in a.from..a.to : IsResult(c.sent[n]) <=> n = a.to
    BY <1>2, <1>3, <2>1, <2>2 DEF InTurn
  <2>4. c = conn[a.conn] /\ a.conn \in Connections /\ a.to <= c.taken
    BY <1>2, <2>1 DEF c
  <2>. QED
    BY <1>3, <2>1, <2>2, <2>3, <2>4 DEF WholeTurn, InTurn
<1>6. Later(conn, conn')
  BY <1>1, <1>2, ReadsSame, ReadsLater
<1>. HIDE DEF a
<1>. QED
  BY <1>1, <1>4, <1>5, <1>6, EndsTurn


\* A query() gives its messages out one by one, and answers nothing at once.
LEMMA QueryAnswers ==
    ASSUME TypeOK, kind = "query", ResponseInv, [SessionNext]_sessionVars
    PROVE  ResponseInv'
<1>1. \A t \in setup.tasks : ~Answered(t)
  BY DEF Answered, Completes, TypeOK, Places
<1>2. kind' = kind /\ answer' = answer
  <2>1. ASSUME NEW t \in setup.tasks, Progress(t) \/ Failure(t) \/ Connect(t) \/ Disconnect(t)
        PROVE  kind' = kind /\ answer' = answer
    BY <2>1 DEF Progress, Failure, Connect, Disconnect, LoadsNothing, Loads, LoadFails,
       SubkeysLoaded, SubkeysFail, Removes, RemoveBlocked, Sweep, Spawns, Initialized,
       SpawnFails, SetUpFails, InitializeFails, QueryCloses, CloseBreaks, CloseAborted, Cancel
  <2>2. ASSUME NEW t \in setup.tasks, Iteration(t) PROVE kind' = kind /\ answer' = answer
    BY <1>1, <2>2 DEF Iteration, Receive, Takes, TakesRefused, Leaves
  <2>. QED
    BY <2>1, <2>2 DEF SessionNext, ProcessExits, FilesFreed, sessionVars
<1>. QED
  BY <1>2 DEF ResponseInv, TurnsInv

LEMMA NextResponses ==
    ASSUME SessionInv, SessionInv', ResponseInv, [SessionNext]_sessionVars
    PROVE  ResponseInv'
<1>1. TypeOK /\ TypeOK' /\ Unspawned /\ kind \in {"client", "query"}
  BY KindIs DEF SessionInv, TypeOK
<1>2. CASE kind = "query"
  BY <1>1, <1>2, QueryAnswers
<1>3. CASE kind = "client"
  <2>1. ASSUME NEW t \in setup.tasks, Iteration(t) PROVE ResponseInv'
    BY <1>1, <1>3, <2>1, ReceiveKeeps, TakesKeeps, RefusedKeeps, AnsweredKeeps, LeavesKeeps
       DEF Iteration
  <2>. QED
    BY <1>1, <1>3, <2>1, NextQuiet, QuietKeeps
<1>. QED
  BY <1>1, <1>2, <1>3

LEMMA InitResponses == ASSUME Init PROVE ResponseInv
<1>1. /\ \A t \in setup.tasks : ~Iterates(t) /\ task[t].given = <<>>
      /\ \A i \in Connections : conn[i].taken = 0 /\ AtTurn(conn[i], 0 + 1)
  BY DEF Init, NoCall, NoConnection, Iterates, AtTurn
<1>. QED
  BY <1>1 DEF Init, ResponseInv, TurnsInv

(* However iterations are mixed with other calls, left, cancelled or ended  *)
(* by a message that is refused: a receive_response() that came to its end  *)
(* gave out one whole turn, for any streams that a CLI may send.            *)
THEOREM ResponsesHold == Spec => []ResponsesWhole
<1>1. Init => ResponseInv
  BY InitResponses
<1>2. SessionInv /\ SessionInv' /\ ResponseInv /\ [SessionNext]_sessionVars => ResponseInv'
  BY NextResponses
<1>3. ASSUME SessionInv, ResponseInv PROVE ResponsesWhole
  <2>1. CASE answer = NoAnswer
    BY <2>1 DEF ResponsesWhole
  <2>2. CASE answer # NoAnswer
    BY <1>3, <2>2, WholeResponse DEF SessionInv, ResponseInv
  <2>. QED
    BY <2>1, <2>2
<1>. QED
  BY <1>1, <1>2, <1>3, SessionInvariant, PTL DEF Spec

-----------------------------------------------------------------------------
(***************************************************************************)
(* The messages.  What the parser needs of a message, type by type and     *)
(* block by block, is what its class declares.                             *)
(***************************************************************************)
LEMMA DeclaredFields ==
    /\ Declared["UserMessage"] = {"content"}
    /\ Declared["AssistantMessage"] = {"content", "model"}
    /\ Declared["SystemMessage"] = {"subtype"}
    /\ Declared["TaskStartedMessage"]
          = {"subtype", "task_id", "description", "uuid", "session_id"}
    /\ Declared["TaskProgressMessage"]
          = {"subtype", "task_id", "description", "usage", "uuid", "session_id"}
    /\ Declared["TaskNotificationMessage"]
          = {"subtype", "task_id", "status", "output_file", "summary", "uuid", "session_id"}
    /\ Declared["TaskUpdatedMessage"] = {"subtype", "task_id", "patch"}
    /\ Declared["MirrorErrorMessage"] = {"subtype"}
    /\ Declared["ResultMessage"] = NeededByResult
    /\ Declared["DeferredToolUse"] = {"id", "name", "input"}
    /\ Declared["StreamEvent"] = {"uuid", "session_id", "event"}
    /\ Declared["RateLimitEvent"] = {"rate_limit_info", "status", "uuid", "session_id"}
    /\ Declared["ConversationResetMessage"] = {"new_conversation_id", "uuid", "session_id"}
    /\ Declared["HookEventMessage"] = {"subtype"}
  BY DEF Declared, DeclaredTalk, DeclaredTasks, DeclaredResult, DeclaredEvents, Joined,
         NeededByResult

LEMMA SystemFields ==
    ASSUME NEW subtype
    PROVE  {"subtype"} \cup NeededByTask(subtype) = FieldsOf(SystemClass(subtype))
<1>1. CASE subtype \in HookEvents
  <2>1. SystemClass(subtype) = "HookEventMessage" /\ NeededByTask(subtype) = {}
    BY <1>1 DEF SystemClass, HookEvents, NeededByTask
  <2>. QED
    BY <2>1, DeclaredFields DEF FieldsOf
<1>2. CASE subtype = "task_started"
  <2>1. /\ SystemClass(subtype) = "TaskStartedMessage"
        /\ NeededByTask(subtype) = {"task_id", "description", "uuid", "session_id"}
    BY <1>2 DEF SystemClass, HookEvents, NeededByTask
  <2>. QED
    BY <2>1, DeclaredFields DEF FieldsOf
<1>3. CASE subtype = "task_progress"
  <2>1. /\ SystemClass(subtype) = "TaskProgressMessage"
        /\ NeededByTask(subtype) = {"task_id", "description", "usage", "uuid", "session_id"}
    BY <1>3 DEF SystemClass, HookEvents, NeededByTask
  <2>. QED
    BY <2>1, DeclaredFields DEF FieldsOf
<1>4. CASE subtype = "task_notification"
  <2>1. /\ SystemClass(subtype) = "TaskNotificationMessage"
        /\ NeededByTask(subtype)
              = {"task_id", "status", "output_file", "summary", "uuid", "session_id"}
    BY <1>4 DEF SystemClass, HookEvents, NeededByTask
  <2>. QED
    BY <2>1, DeclaredFields DEF FieldsOf
<1>5. CASE subtype = "task_updated"
  <2>1. SystemClass(subtype) = "TaskUpdatedMessage" /\ NeededByTask(subtype) = {}
    BY <1>5 DEF SystemClass, HookEvents, NeededByTask
  <2>. QED
    BY <2>1, DeclaredFields DEF FieldsOf
<1>6. CASE subtype = "mirror_error"
  <2>1. SystemClass(subtype) = "MirrorErrorMessage" /\ NeededByTask(subtype) = {}
    BY <1>6 DEF SystemClass, HookEvents, NeededByTask
  <2>. QED
    BY <2>1, DeclaredFields DEF FieldsOf
<1>7. CASE subtype \notin HookEvents \cup {"task_started", "task_progress",
                                          "task_notification", "task_updated", "mirror_error"}
  <2>1. SystemClass(subtype) = "SystemMessage" /\ NeededByTask(subtype) = {}
    BY <1>7 DEF SystemClass, HookEvents, NeededByTask
  <2>. QED
    BY <2>1, DeclaredFields DEF FieldsOf
<1>. QED
  BY <1>1, <1>2, <1>3, <1>4, <1>5, <1>6, <1>7

LEMMA NeededFields ==
    ASSUME NEW m, Class(m) # "unknown"
    PROVE  Needed(m) = FieldsOf(Class(m))
<1>1. CASE m.type = "system"
  BY <1>1, SystemFields DEF Needed, Class
<1>2. CASE m.type = "user"
  BY <1>2, DeclaredFields DEF Needed, Class, FieldsOf
<1>3. CASE m.type = "assistant"
  BY <1>3, DeclaredFields DEF Needed, Class, FieldsOf
<1>4. CASE m.type = "result"
  BY <1>4, DeclaredFields DEF Needed, Class, FieldsOf
<1>5. CASE m.type = "stream_event"
  BY <1>5, DeclaredFields DEF Needed, NeededByEvent, Class, FieldsOf
<1>6. CASE m.type = "rate_limit_event"
  BY <1>6, DeclaredFields DEF Needed, NeededByEvent, Class, FieldsOf
<1>7. CASE m.type = "conversation_reset"
  BY <1>7, DeclaredFields DEF Needed, NeededByEvent, Class, FieldsOf
<1>. QED
  BY <1>1, <1>2, <1>3, <1>4, <1>5, <1>6, <1>7 DEF Class

LEMMA BlockFields ==
    ASSUME NEW m, NEW type \in DOMAIN BlocksOf(m)
    PROVE  NeededInBlock(type) = DeclaredBlocks[BlocksOf(m)[type]]
<1>1. \/ type \in {"text", "tool_use", "tool_result"} /\ BlocksOf(m)[type] = UserBlocks[type]
      \/ type = "thinking" /\ BlocksOf(m)[type] = "ThinkingBlock"
      \/ type = "server_tool_use" /\ BlocksOf(m)[type] = "ServerToolUseBlock"
      \/ type = "advisor_tool_result" /\ BlocksOf(m)[type] = "ServerToolResultBlock"
  BY DEF BlocksOf, AssistantBlocks, UserBlocks, Joined
<1>. QED
  BY <1>1 DEF NeededInBlock, DeclaredBlocks, UserBlocks

LEMMA WholeParsed ==
    ASSUME NEW m, Class(m) # "unknown"
    PROVE  /\ ~Refused(m) => Whole(m)
           /\ m.type \notin {Odd, Absent} /\ Whole(m) => Parsed(m)
<1>1. Needed(m) = FieldsOf(Class(m))
  BY NeededFields
<1>2. \A b : KnownBlock(m, b) =>
         NeededInBlock(b.type) = DeclaredBlocks[BlocksOf(m)[b.type]]
  BY BlockFields DEF KnownBlock
<1>3. BadDeferral(m) <=>
         "deferred_tool_use" \in m.has /\ ~(Declared.DeferredToolUse \subseteq m.has)
  BY DeclaredFields DEF BadDeferral
<1>4. ~BadContent(m) <=>
         /\ m.listed => \A n \in DOMAIN m.content :
               LET b == m.content[n] IN
               /\ b.type \notin {Odd, Absent}
               /\ KnownBlock(m, b) => DeclaredBlocks[BlocksOf(m)[b.type]] \subseteq b.has
         /\ m.type = "assistant" => m.listed
  BY <1>2 DEF BadContent, BadBlock
<1>5. m.type = "assistant" => m.type \in {"user", "assistant"}
  OBVIOUS
<1>6. Whole(m) <=>
         /\ Needed(m) \subseteq Has(m)
         /\ m.type \in {"user", "assistant"} => ~BadContent(m)
         /\ m.type = "result" => ~BadDeferral(m)
  BY <1>1, <1>3, <1>4, <1>5 DEF Whole
<1>. QED
  BY <1>6 DEF Refused, Parsed, Skipped

(* For whatever a CLI may send: what is given out has every field that its  *)
(* class and its blocks' classes declare without a default, and nothing     *)
(* that has them is refused.                                                *)
THEOREM TypesHold == Spec => []TypedMessages
<1>1. TypedMessages
  BY WholeParsed DEF TypedMessages
<1>. QED
  BY <1>1, PTL
=============================================================================
