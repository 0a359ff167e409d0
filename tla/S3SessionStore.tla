--------------------------- MODULE S3SessionStore ---------------------------
(***************************************************************************)
(* The example adapter for S3.  append() puts one new object, a part,      *)
(* whose name orders it by time; load() lists the parts of a key page by   *)
(* page, gets each, and concatenates them in the order of their names;     *)
(* delete() lists and deletes a page at a time.  Every request is a step   *)
(* of its own; adapter objects share a bucket, not a clock.                *)
(***************************************************************************)
EXTENDS StoreCalls

VARIABLES
    objects,   \* the bucket: key, ms and rand of a part's name, and its body
    lastMs     \* _last_ms of every adapter object

s3Vars == <<objects, lastMs>>

Instances == UNION {Range(u.instance) : u \in Setups}

S3Init == objects = {} /\ lastMs = [i \in Instances |-> 0]

S3(c, method, pc) == setup.adapter = "s3" /\ In(c, method, pc)

\* The order of names in a bucket.
Place(k) == CHOOSE i \in DOMAIN KeyOrder : KeyOrder[i] = k
NameBefore(m, n) ==
    \/ Place(m.key) < Place(n.key)
    \/ m.key = n.key /\ m.ms < n.ms
    \/ m.key = n.key /\ m.ms = n.ms /\ m.rand < n.rand

\* The parts whose names begin with the prefix of k: those of the session's
\* subagents are beneath those of the session.
Beneath(k) == {o \in objects : Takes(k, o.key)}
Direct(k) == {o \in objects : o.key = k}

\* A page of a listing, and where the next one starts if there is one.
After(listed, token) == {o \in listed : \A t \in token : NameBefore(t, o)}
PageOf(listed, token) ==
    LET names == SetToSortSeq(After(listed, token), NameBefore)
    IN  Range(SubSeq(names, 1, Min({setup.page, Len(names)})))
TokenOf(listed, token) ==
    LET page == PageOf(listed, token)
    IN  IF After(listed, token) = page THEN {}
        ELSE {o \in page : \A n \in page : ~NameBefore(o, n)}

-----------------------------------------------------------------------------
\* Mutant of NextMs: the clock as it is.
ClockMs(i, now) == now

\* Two parts of one adapter object never have the same time.
NextMs(i, now) == IF now <= lastMs[i] THEN lastMs[i] + 1 ELSE now

\* _next_part_name(): drawn before the object is put.  The random suffix
\* orders parts of different adapter objects one way or the other.
S3NamesPart(c) ==
    /\ S3(c, "append", "start")
    /\ LET i == setup.instance[c]
       IN  \E now \in setup.clock, rand \in {i, i + Cardinality(Instances)} :
               /\ lastMs' = [lastMs EXCEPT ![i] = NextMs(i, now)]
               /\ GoesOn(c, "put", {}, {[key |-> call[c].key, ms |-> NextMs(i, now),
                                         rand |-> rand, body |-> call[c].batch]}, {})
    /\ UNCHANGED objects

S3Puts(c) ==
    /\ S3(c, "append", "put")
    /\ objects' = objects \cup call[c].left
    /\ \/ AppendReturns(c)
       \/ setup.faults /\ Raises(c)
    /\ UNCHANGED lastMs

-----------------------------------------------------------------------------
\* Mutant of LoadPrefix: without a Delimiter.
LoadRecurses(k) == Beneath(k)
LoadPrefix(k) == Direct(k)

S3ListsParts(c) ==
    /\ S3(c, "load", "start")
    /\ LET listed == LoadPrefix(call[c].key)
           found == call[c].found \cup PageOf(listed, call[c].token)
           token == TokenOf(listed, call[c].token)
       IN  IF token # {} THEN GoesOn(c, "start", found, {}, token)
           ELSE IF found = {} THEN LoadEnds(c, <<>>)
           ELSE GoesOn(c, "get", found, found, {})
    /\ UNCHANGED s3Vars

Concatenated(parts) ==
    LET sorted == SetToSortSeq(parts, NameBefore)
    IN  FlattenSeq([i \in DOMAIN sorted |-> sorted[i].body])

\* The parts are got in any order; one that is gone ends the load.
S3Gets(c) ==
    /\ S3(c, "load", "get")
    /\ \E o \in call[c].left :
           IF o \notin objects THEN Raises(c)
           ELSE IF call[c].left = {o} THEN LoadEnds(c, Concatenated(call[c].found))
           ELSE GoesOn(c, "get", call[c].found, call[c].left \ {o}, {})
    /\ UNCHANGED s3Vars

-----------------------------------------------------------------------------
\* Mutant of DeletePrefix: a session's subagents are left alone.
DeleteDirect(k) == Direct(k)
DeletePrefix(k) == IF IsMain(k) THEN Beneath(k) ELSE Direct(k)

S3ListsDoomed(c) ==
    /\ S3(c, "delete", "start")
    /\ LET listed == DeletePrefix(call[c].key)
           page == PageOf(listed, call[c].token)
       IN  IF page = {} THEN DeleteReturns(c)
           ELSE GoesOn(c, "delete", {}, page, TokenOf(listed, call[c].token))
    /\ UNCHANGED s3Vars

\* DeleteObjects, which may say that it could not delete some of them.
S3Deletes(c) ==
    /\ S3(c, "delete", "delete")
    /\ \/ /\ objects' = objects \ call[c].left
          /\ IF call[c].token = {} THEN DeleteReturns(c)
             ELSE GoesOn(c, "start", {}, {}, call[c].token)
       \/ /\ setup.faults /\ Raises(c)
          /\ \E undone \in SUBSET call[c].left :
                 objects' = objects \ (call[c].left \ undone)
    /\ UNCHANGED lastMs

-----------------------------------------------------------------------------
\* list_sessions() takes the parts of main transcripts from a listing of all,
\* list_subkeys() those of subpaths from a listing of the session's.
S3Lists(c, method, listed) ==
    /\ S3(c, method, "start")
    /\ LET parts == {o \in PageOf(listed, call[c].token) :
                        IsMain(o.key) <=> method = "sessions"}
           found == call[c].found \cup
                        {IF method = "sessions" THEN o.key[1] ELSE o.key[2] : o \in parts}
           token == TokenOf(listed, call[c].token)
       IN  IF token = {} THEN ListEnds(c, found)
           ELSE GoesOn(c, "start", found, {}, token)
    /\ UNCHANGED s3Vars

S3ListsSessions(c) == S3Lists(c, "sessions", objects)

S3ListsSubkeys(c) ==
    S3(c, "subkeys", "start") /\ S3Lists(c, "subkeys", Beneath(MainKey(call[c].key[1])))

S3Steps(c) ==
    \/ S3NamesPart(c) \/ S3Puts(c)
    \/ S3ListsParts(c) \/ S3Gets(c)
    \/ S3ListsDoomed(c) \/ S3Deletes(c)
    \/ S3ListsSessions(c) \/ S3ListsSubkeys(c)
=============================================================================
