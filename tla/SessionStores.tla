---------------------------- MODULE SessionStores ----------------------------
(***************************************************************************)
(* The session stores: InMemorySessionStore with the listing that reads    *)
(* its summaries (module SessionStore), or one of the example adapters     *)
(* with the callers of its methods.  A behaviour is of one store; the      *)
(* others stay as they are.                                                *)
(***************************************************************************)
EXTENDS SessionStore, S3SessionStore, RedisSessionStore, PostgresSessionStore

adapterVars == <<callVars, s3Vars, redisVars, pgVars>>

InMemory == setup.calls = 0

StoresInit ==
    /\ Init /\ CallsInit /\ S3Init /\ RedisInit /\ PgInit
    /\ InMemory <=> workload.keys # {}

StoresNext ==
    \/ Next /\ UNCHANGED adapterVars
    \/ /\ \E c \in Callers :
              \/ CallerSteps(c) /\ UNCHANGED <<s3Vars, redisVars, pgVars>>
              \/ S3Steps(c) /\ UNCHANGED <<redisVars, pgVars>>
              \/ RedisSteps(c) /\ UNCHANGED <<s3Vars, pgVars>>
              \/ PgSteps(c) /\ UNCHANGED <<s3Vars, redisVars>>
       /\ UNCHANGED vars

StoresSpec == StoresInit /\ [][StoresNext]_<<vars, adapterVars>>

-----------------------------------------------------------------------------
\* What a load() of the key would return.
Content(k) ==
    CASE setup.adapter = "s3"       -> Concatenated(Direct(k))
      [] setup.adapter = "redis"    -> lists[k]
      [] setup.adapter = "postgres" -> PgSelect(k)

\* The deletion of a session from S3 is over for others when it has begun.
UnderDeletion ==
    {k \in StoreKeys : \E c \in Callers :
        /\ call[c].method = "delete" /\ Takes(call[c].key, k)
        /\ call[c].pc = "delete" \/ (call[c].pc = "start" /\ call[c].token # {})}

Held ==
    IF InMemory THEN store
    ELSE IF ~setup.serial \/ setup.faults THEN Empty
    ELSE [k \in {j \in StoreKeys \ UnderDeletion : Content(j) # <<>>} |-> Content(k)]

Contract ==
    INSTANCE StoreContract WITH
        Sessions <- StoreSessions, Subpaths <- {k[2] : k \in StoreKeys} \ {None},
        NoSubpath <- None, held <- Held

\* The modules' names for the same keys.
ASSUME StoresAssumption == NoSubpath = None /\ Keys \subseteq Contract!Keys

(***************************************************************************)
(* As long as calls do not overlap and nothing fails, every store is a log *)
(* per key that appends extend and deletions remove, of a session with all *)
(* of its subagents, and which nothing else changes: the contracts of the  *)
(* conformance suite.                                                      *)
(***************************************************************************)
ImplementsContract == Contract!Spec

-----------------------------------------------------------------------------
Stored == UNION {Range(Content(k)) : k \in StoreKeys}

Finished(c, method) == call[c].method = method /\ call[c].pc = "done"

\* The entries e and f of one key must be read in this order.  Adapter objects
\* for S3 that do not share a clock do not share an order.
Ordered(e, f) ==
    \/ made[e].batch = made[f].batch /\ e < f
    \/ e \in made[f].earlier /\ (setup.adapter # "s3" \/ made[e].by = made[f].by)

(***************************************************************************)
(* A load() that returns, whatever else is called meanwhile and whatever   *)
(* failed before, returns every entry of its key whose append() had        *)
(* returned and which nobody deletes, no entry twice and none of another   *)
(* key, in the order of the appends, and a batch as a whole or not at all. *)
(* So does the one a fork is made of.                                      *)
(***************************************************************************)
ReadsTrue ==
    \A c \in Callers : Finished(c, "load") =>
        LET answer == call[c].answer
            read == Range(answer)
        IN  /\ Cardinality(read) = Len(answer)
            /\ read \subseteq EntriesOf({call[c].key})
            /\ call[c].before \ atRisk \subseteq read
            /\ \A e \in read, f \in DOMAIN made :
                   made[e].batch = made[f].batch => f \in read \cup atRisk
            /\ \A i, j \in DOMAIN answer : Ordered(answer[i], answer[j]) => i < j
            /\ setup.serial /\ ~setup.faults => answer = Contract!Load(call[c].key)

(***************************************************************************)
(* A delete() that returned has removed all that was acknowledged before   *)
(* it was called, a session's subagents included, though other callers     *)
(* append and delete meanwhile; and what is acknowledged goes in no other  *)
(* way.  In Redis an entry of a subagent whose append() overlapped with a  *)
(* deletion of its session may be left without an index, and no deletion   *)
(* of the session finds it any more.                                       *)
(***************************************************************************)
DeletesTrue ==
    InMemory \/
    /\ acked \ atRisk \subseteq Stored
    /\ \A c \in Callers : Finished(c, "delete") =>
           Stored \cap call[c].before \subseteq
               IF setup.adapter = "redis" THEN crossed ELSE {}

\* The sessions, or the subpaths of the session, that entries are of.
SessionsOf(E) == {made[e].key[1] : e \in {f \in E : IsMain(made[f].key)}}
SubkeysOf(s, E) == {made[e].key[2] : e \in {f \in E : made[f].key[1] = s
                                                     /\ ~IsMain(made[f].key)}}

(***************************************************************************)
(* A listing of sessions or of subagents has all that were there when it   *)
(* was called and that nobody deletes, page by page or at once, none that  *)
(* never was, and when calls do not overlap exactly those that are there.  *)
(* The sets that Redis is given for this agree with its lists, the entries *)
(* of appends that overlapped with a deletion aside.                       *)
(***************************************************************************)
ListsTrue ==
    InMemory \/
    /\ \A c \in Callers :
           LET found == call[c].found
               Exact(listed) == setup.serial /\ ~setup.faults => found = listed
           IN  /\ Finished(c, "sessions") =>
                      /\ SessionsOf(call[c].before \ atRisk) \subseteq found
                      /\ found \subseteq SessionsOf(DOMAIN made)
                      /\ Exact(Contract!ListSessions)
               /\ Finished(c, "subkeys") =>
                      LET s == call[c].key[1]
                      IN  /\ SubkeysOf(s, call[c].before \ atRisk) \subseteq found
                          /\ found \subseteq SubkeysOf(s, DOMAIN made)
                          /\ Exact(Contract!ListSubkeys(s))
    /\ sessions = {s \in StoreSessions : lists[MainKey(s)] # <<>>}
    /\ \A k \in StoreKeys : ~IsMain(k) =>
           /\ k \in subkeys => lists[k] # <<>>
           /\ k \notin subkeys => Range(lists[k]) \subseteq crossed
=============================================================================
