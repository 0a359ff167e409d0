------------------------ MODULE PostgresSessionStore ------------------------
(***************************************************************************)
(* The example adapter for Postgres: a row per entry, ordered by a serial  *)
(* column.  A statement is one step but for the INSERT, which draws one    *)
(* number per row, in the order of the batch, and then commits: two of     *)
(* them draw in turn.                                                      *)
(***************************************************************************)
EXTENDS StoreCalls

VARIABLES
    rows,   \* the table: key, seq and entry of every row
    seq     \* the last number drawn

pgVars == <<rows, seq>>

PgInit == rows = {} /\ seq = 0

Pg(c, method, pc) == setup.adapter = "postgres" /\ In(c, method, pc)

Inserted(c) == call[c].left

\* WITH ORDINALITY ... ORDER BY ord.
PgDraws(c) ==
    LET n == Cardinality(Inserted(c))
    IN  /\ Pg(c, "append", "start") /\ n < Len(call[c].batch)
        /\ seq' = seq + 1
        /\ GoesOn(c, "start", {}, Inserted(c) \cup
               {[key |-> call[c].key, seq |-> seq', entry |-> call[c].batch[n + 1]]}, {})
        /\ UNCHANGED rows

\* The reply to a commit may be lost.
PgCommits(c) ==
    /\ Pg(c, "append", "start") /\ Cardinality(Inserted(c)) = Len(call[c].batch)
    /\ rows' = rows \cup Inserted(c)
    /\ AppendReturns(c) \/ (setup.faults /\ Raises(c))
    /\ UNCHANGED seq

\* Mutant of PgSelect: without ORDER BY, as the rows come.
Unordered(k) ==
    LET found == SetToSortSeq({r \in rows : r.key = k}, LAMBDA p, q : p.seq > q.seq)
    IN  [i \in DOMAIN found |-> found[i].entry]
PgSelect(k) ==
    LET found == SetToSortSeq({r \in rows : r.key = k}, LAMBDA p, q : p.seq < q.seq)
    IN  [i \in DOMAIN found |-> found[i].entry]

PgLoads(c) ==
    /\ Pg(c, "load", "start")
    /\ LoadEnds(c, PgSelect(call[c].key))
    /\ UNCHANGED pgVars

\* DELETE of the rows of one subpath, or of a whole session.
PgDeletes(c) ==
    /\ Pg(c, "delete", "start")
    /\ rows' = {r \in rows : ~Takes(call[c].key, r.key)}
    /\ DeleteReturns(c) \/ (setup.faults /\ Raises(c))
    /\ UNCHANGED seq

\* Mutant of PgSessions: of any row, also a subagent's.
PgAnySessions == {r.key[1] : r \in rows}
PgSessions == {r.key[1] : r \in {x \in rows : IsMain(x.key)}}
PgSubkeys(s) == {r.key[2] : r \in {x \in rows : x.key[1] = s /\ ~IsMain(x.key)}}

PgLists(c) ==
    /\ \/ Pg(c, "sessions", "start") /\ ListEnds(c, PgSessions)
       \/ Pg(c, "subkeys", "start") /\ ListEnds(c, PgSubkeys(call[c].key[1]))
    /\ UNCHANGED pgVars

PgSteps(c) == PgDraws(c) \/ PgCommits(c) \/ PgLoads(c) \/ PgDeletes(c) \/ PgLists(c)
=============================================================================
