----------------------------- MODULE StoreCalls -----------------------------
(***************************************************************************)
(* The callers of a SessionStore: the mirror, the *_via_store mutations,   *)
(* the *_from_store readers.  Each is a task that calls one method of the  *)
(* store after another; a method is a number of requests to the backend,   *)
(* between which the other callers run.  What a method does is the         *)
(* adapters' business (modules S3SessionStore, RedisSessionStore and       *)
(* PostgresSessionStore); this module says what is called, what became of  *)
(* it, and keeps the history from which it is judged.                      *)
(*                                                                         *)
(* An entry is a number.  Times of modification and the contents of        *)
(* entries are left out, and so are ids that are refused before a call.    *)
(***************************************************************************)
EXTENDS Naturals, FiniteSets, SequencesExt

CONSTANTS
    Callers,
    KeyOrder,    \* the keys in the order of their names in a bucket
    NoSubpath,   \* what the key of a main transcript has for a subpath
    Agent,       \* the subagent a subpath is of, "subagents/.../agent-<id>"
    Setups,      \* what is done to the store: see Setting
    MaxMade,     \* bound: entries made
    MaxCalls     \* bound: programs begun

StoreKeys == Range(KeyOrder)
MainKey(s) == <<s, NoSubpath>>
IsMain(k) == k[2] = NoSubpath
StoreSessions == {k[1] : k \in StoreKeys}

\* "rename" stands for tag_session_via_store() as well.
Programs == {"mirror", "rename", "delete", "prune", "fork", "messages", "agent",
             "sessions", "subagents"}

Setting(u) ==
    /\ u.adapter \in {"s3", "redis", "postgres"}
    /\ u.serial \in BOOLEAN              \* one caller at a time
    /\ u.faults \in BOOLEAN              \* a request may fail, done or not
    /\ u.does \in [Callers -> SUBSET Programs]
    /\ u.keys \subseteq StoreKeys        \* what is written and read
    /\ u.sizes \subseteq Nat \ {0}       \* entries of an append()
    /\ u.instance \in [Callers -> Nat]   \* callers may share an adapter object
    /\ u.clock \subseteq Nat             \* readings of a wall clock
    /\ u.page \in Nat \ {0}              \* objects in a page of a listing
    /\ u.entries \in 0..MaxMade /\ u.calls \in 0..MaxCalls

ASSUME CallsAssumption ==
    /\ \A k \in StoreKeys : k = <<k[1], k[2]>> /\ MainKey(k[1]) \in StoreKeys
    /\ MaxMade \in Nat /\ MaxCalls \in Nat
    /\ \A u \in Setups : Setting(u)

VARIABLES
    setup,    \* the setting, which stays
    call,     \* call[c]: the method c is in, and how far it is
    calls,    \* bound: programs begun
    made,     \* history: key, adapter object and batch of every entry, and what
              \* the key held for certain when its append() began
    acked,    \* history: the entries whose append() has returned
    atRisk,   \* history: the entries that a delete() may have removed
    crossed   \* history: those of them whose append() overlapped with it

callVars == <<setup, call, calls, made, acked, atRisk, crossed>>

NoKey == <<>>
Idle == [prog |-> "none", method |-> "none", pc |-> "idle", key |-> NoKey,
         batch |-> <<>>, found |-> {}, left |-> {}, token |-> {}, answer |-> <<>>,
         before |-> {}]

CallsInit ==
    /\ setup \in Setups
    /\ call = [c \in Callers |-> Idle] /\ calls = 0
    /\ made = <<>> /\ acked = {} /\ atRisk = {} /\ crossed = {}

Over(c) == call[c].pc \in {"idle", "done", "raised"}
In(c, method, pc) == call[c].method = method /\ call[c].pc = pc
Batch(d) == Range(call[d].batch)

\* delete() of a main key takes the session's other keys along.
Takes(k, j) == j = k \/ (IsMain(k) /\ j[1] = k[1])
EntriesOf(K) == {e \in DOMAIN made : made[e].key \in K}

-----------------------------------------------------------------------------
\* The call of a method

\* What it can rely on: that which was acknowledged before.
Concerns(method, k) ==
    CASE method \in {"append", "load"} -> {k}
      [] method = "delete"   -> {j \in StoreKeys : Takes(k, j)}
      [] method = "subkeys"  -> {j \in StoreKeys : j[1] = k[1] /\ ~IsMain(j)}
      [] method = "sessions" -> {j \in StoreKeys : IsMain(j)}

Started(prog, method, k, batch) ==
    [Idle EXCEPT !.prog = prog, !.method = method, !.pc = "start", !.key = k,
                 !.batch = batch, !.before = acked \cap EntriesOf(Concerns(method, k))]

Appending == {d \in Callers : call[d].method = "append" /\ ~Over(d)}
BeingDeleted(k) ==
    \E d \in Callers : call[d].method = "delete" /\ ~Over(d) /\ Takes(call[d].key, k)

Calls(c, prog, method, k) ==
    /\ call' = [call EXCEPT ![c] = Started(prog, method, k, <<>>)]
    /\ IF method # "delete" THEN UNCHANGED <<atRisk, crossed>>
       ELSE LET gone == EntriesOf(Concerns(method, k))
            IN  /\ atRisk' = atRisk \cup gone
                /\ crossed' = crossed \cup (gone \cap UNION {Batch(d) : d \in Appending})
    /\ UNCHANGED <<setup, made, acked>>

\* append() of n new entries.
CallsAppend(c, prog, k, n) ==
    LET new == [i \in 1..n |-> [key |-> k, by |-> setup.instance[c],
                                batch |-> Len(made) + 1,
                                earlier |-> acked \cap EntriesOf({k})]]
        ids == [i \in 1..n |-> Len(made) + i]
    IN  /\ Len(made) + n <= setup.entries
        /\ made' = made \o new
        /\ call' = [call EXCEPT ![c] = Started(prog, "append", k, ids)]
        /\ atRisk' = IF BeingDeleted(k) THEN atRisk \cup Range(ids) ELSE atRisk
        /\ crossed' = IF BeingDeleted(k) THEN crossed \cup Range(ids) ELSE crossed
        /\ UNCHANGED <<setup, acked>>

-----------------------------------------------------------------------------
\* The programs

Begins(c, prog) ==
    /\ call[c].pc = "idle" /\ prog \in setup.does[c]
    /\ setup.serial => \A d \in Callers : call[d].pc = "idle"
    /\ calls < setup.calls /\ calls' = calls + 1

\* The mirror, which knows neither names nor ids.
MirrorAppends(c, k, n) ==
    /\ Begins(c, "mirror")
    /\ CallsAppend(c, "mirror", k, n)

\* rename_session_via_store(), tag_session_via_store(): one entry, whether the
\* session exists or not.
RenameViaStore(c, s) ==
    /\ Begins(c, "rename")
    /\ CallsAppend(c, "rename", MainKey(s), 1)

DeleteViaStore(c, s) ==
    /\ Begins(c, "delete")
    /\ Calls(c, "delete", "delete", MainKey(s))

\* delete() of one subpath, by the owner of the store.
DeleteSubpath(c, k) ==
    /\ Begins(c, "prune") /\ ~IsMain(k)
    /\ Calls(c, "prune", "delete", k)

\* fork_session_via_store(), to a session whose id nobody knows yet.
ForkViaStore(c, s) ==
    /\ Begins(c, "fork")
    /\ Calls(c, "fork", "load", MainKey(s))

\* get_session_messages_from_store(), get_session_info_from_store().
MessagesFromStore(c, s) ==
    /\ Begins(c, "messages")
    /\ Calls(c, "messages", "load", MainKey(s))

\* get_subagent_messages_from_store(): the subkeys, then the one of the agent.
AgentFromStore(c, k) ==
    /\ Begins(c, "agent") /\ ~IsMain(k)
    /\ Calls(c, "agent", "subkeys", k)

ListSessionsOf(c) ==
    /\ Begins(c, "sessions")
    /\ Calls(c, "sessions", "sessions", NoKey)

\* list_subagents_from_store().
ListSubagents(c, s) ==
    /\ Begins(c, "subagents")
    /\ Calls(c, "subagents", "subkeys", MainKey(s))

-----------------------------------------------------------------------------
\* How a method ends

Stays == UNCHANGED <<setup, calls, made, acked, atRisk, crossed>>
StaysBut(c, rest) == call' = [call EXCEPT ![c] = rest] /\ Stays

\* The call goes on with its next request.
GoesOn(c, pc, found, left, token) ==
    StaysBut(c, [call[c] EXCEPT !.pc = pc, !.found = found, !.left = left,
                                !.token = token])

Raises(c) == StaysBut(c, [call[c] EXCEPT !.pc = "raised", !.found = {}, !.left = {},
                                         !.token = {}])

Done(c, answer, found) ==
    call' = [call EXCEPT ![c].pc = "done", ![c].answer = answer, ![c].found = found,
                         ![c].left = {}, ![c].token = {}]

AppendReturns(c) ==
    /\ Done(c, <<>>, {})
    /\ acked' = acked \cup Batch(c)
    /\ UNCHANGED <<setup, calls, made, atRisk, crossed>>

DeleteReturns(c) == Done(c, <<>>, {}) /\ Stays

LoadEnds(c, entries) == Done(c, entries, {}) /\ Stays

ListEnds(c, found) == Done(c, <<>>, found) /\ Stays

\* fork_session_via_store() has its source: nothing raises, and a fork is one
\* append() to a new key, of the copies and the fork's title.
ForkWrites(c, dst) ==
    /\ call[c].prog = "fork" /\ In(c, "load", "done")
    /\ IF call[c].answer = <<>> THEN Raises(c)
       ELSE /\ CallsAppend(c, "fork", MainKey(dst), Len(call[c].answer) + 1)
            /\ UNCHANGED calls

\* The subpath of the agent, one of them if there are more.
AgentLoads(c) ==
    /\ call[c].prog = "agent" /\ In(c, "subkeys", "done")
    /\ LET of == {p \in call[c].found : Agent[p] = Agent[call[c].key[2]]}
       IN  IF of = {} THEN StaysBut(c, Idle)
           ELSE /\ \E p \in of : Calls(c, "agent", "load", <<call[c].key[1], p>>)
                /\ UNCHANGED calls

\* The caller has its answer, or the exception.
Forgets(c) ==
    /\ Over(c) /\ call[c].pc # "idle"
    /\ call[c].pc = "done" => <<call[c].prog, call[c].method>> \notin
                                  {<<"fork", "load">>, <<"agent", "subkeys">>}
    /\ StaysBut(c, Idle)

\* A request fails that had no effect.
RequestFails(c) ==
    /\ setup.faults /\ ~Over(c)
    /\ Raises(c)

\* The keys somebody knows of, and the sessions nobody does.
Known == setup.keys \cup {made[e].key : e \in acked}
Unused == {s \in StoreSessions \ {k[1] : k \in setup.keys} :
               \A e \in DOMAIN made : made[e].key[1] # s}

CallerSteps(c) ==
    \/ \E k \in setup.keys, n \in setup.sizes : MirrorAppends(c, k, n)
    \/ \E k \in Known :
           \/ DeleteSubpath(c, k) \/ AgentFromStore(c, k)
           \/ LET s == k[1]
              IN  /\ IsMain(k)
                  /\ \/ RenameViaStore(c, s) \/ DeleteViaStore(c, s) \/ ForkViaStore(c, s)
                     \/ MessagesFromStore(c, s) \/ ListSubagents(c, s)
    \/ ListSessionsOf(c)
    \/ \E dst \in Unused : ForkWrites(c, dst)
    \/ AgentLoads(c) \/ RequestFails(c) \/ Forgets(c)
=============================================================================
