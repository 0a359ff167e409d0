------------------------- MODULE RedisSessionStore -------------------------
(***************************************************************************)
(* The example adapter for Redis: a list per key, a set of subpaths per    *)
(* session and an index of the sessions.  A MULTI is one step; only the    *)
(* deletion of a session takes two requests, to learn its subpaths and to  *)
(* delete what it learnt of.                                               *)
(***************************************************************************)
EXTENDS StoreCalls

VARIABLES
    lists,      \* the transcripts
    subkeys,    \* the __subkeys sets: keys that are not main
    sessions    \* the __sessions index

redisVars == <<lists, subkeys, sessions>>

RedisInit == lists = [k \in StoreKeys |-> <<>>] /\ subkeys = {} /\ sessions = {}

Redis(c, method, pc) == setup.adapter = "redis" /\ In(c, method, pc)

\* The reply may be lost.
OrLost(c, returns) == returns \/ (setup.faults /\ Raises(c))

\* Mutant of SessionIndexed: the subpaths' appends are in the index as well.
IndexesAny(k) == sessions \cup {k[1]}
SessionIndexed(k) == IF IsMain(k) THEN sessions \cup {k[1]} ELSE sessions

RedisPushes(c) ==
    LET k == call[c].key
    IN  /\ Redis(c, "append", "start")
        /\ lists' = [lists EXCEPT ![k] = @ \o call[c].batch]
        /\ subkeys' = IF IsMain(k) THEN subkeys ELSE subkeys \cup {k}
        /\ sessions' = SessionIndexed(k)
        /\ OrLost(c, AppendReturns(c))

RedisLoads(c) ==
    /\ Redis(c, "load", "start")
    /\ LoadEnds(c, lists[call[c].key])
    /\ UNCHANGED redisVars

RedisDeletesSubpath(c) ==
    LET k == call[c].key
    IN  /\ Redis(c, "delete", "start") /\ ~IsMain(k)
        /\ lists' = [lists EXCEPT ![k] = <<>>]
        /\ subkeys' = subkeys \ {k}
        /\ UNCHANGED sessions
        /\ OrLost(c, DeleteReturns(c))

SubpathsOf(s) == {k \in subkeys : k[1] = s}

\* SMEMBERS, before the MULTI that deletes.
RedisLearnsSubpaths(c) ==
    /\ Redis(c, "delete", "start") /\ IsMain(call[c].key)
    /\ GoesOn(c, "delete", SubpathsOf(call[c].key[1]), {}, {})
    /\ UNCHANGED redisVars

\* Mutant of Doomed: the main list alone.
DoomedMain(c) == {call[c].key}
Doomed(c) == {call[c].key} \cup call[c].found

RedisDeletesSession(c) ==
    LET s == call[c].key[1]
    IN  /\ Redis(c, "delete", "delete")
        /\ lists' = [k \in StoreKeys |-> IF k \in Doomed(c) THEN <<>> ELSE lists[k]]
        /\ subkeys' = subkeys \ SubpathsOf(s)
        /\ sessions' = sessions \ {s}
        /\ OrLost(c, DeleteReturns(c))

RedisLists(c) ==
    /\ \/ Redis(c, "sessions", "start") /\ ListEnds(c, sessions)
       \/ /\ Redis(c, "subkeys", "start")
          /\ ListEnds(c, {k[2] : k \in SubpathsOf(call[c].key[1])})
    /\ UNCHANGED redisVars

RedisSteps(c) ==
    \/ RedisPushes(c) \/ RedisLoads(c) \/ RedisLists(c)
    \/ RedisDeletesSubpath(c) \/ RedisLearnsSubpaths(c) \/ RedisDeletesSession(c)
=============================================================================
