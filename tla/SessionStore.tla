---------------------------- MODULE SessionStore ----------------------------
(***************************************************************************)
(* InMemorySessionStore, the reference SessionStore, with the transcripts, *)
(* modification times and summaries of one project, and a caller of        *)
(* list_sessions_from_store() that reads it in several awaited steps while *)
(* the mirror appends and sessions are deleted.                            *)
(*                                                                         *)
(* A method of the store runs without an await, so it is one action.  The  *)
(* listing has one action per call it awaits, and the gap-filling loads    *)
(* are tasks of their own.                                                 *)
(***************************************************************************)
EXTENDS SessionSummary, FiniteSets

CONSTANTS
    Sessions,      \* session ids
    Subpaths,      \* subagent transcripts a session may have
    Workloads,     \* what is done to the store: see Workload
    MaxEntries,    \* bound: entries of a transcript
    MaxTime        \* bound: modification times

\* A key is a session and a subpath, which the main transcript has not.
Main(s) == <<s, None>>
Keys == {Main(s) : s \in Sessions} \cup (Sessions \X Subpaths)

\* The keys that are appended to, what one append() may carry, the sessions
\* the adapter has no sidecar of (it adopted list_session_summaries() when
\* they existed), whether a load() may raise, and the <<limit, offset>> of
\* the listings, where limit 0 is None.
Workload(w) ==
    /\ w.keys \subseteq Keys
    /\ \A b \in w.batches : b # <<>> /\ b \in Seq(Range(b))
    /\ w.unsummarized \subseteq Sessions /\ w.loadsFail \in BOOLEAN
    /\ \A p \in w.pages : p[1] \in Nat /\ p[2] \in Nat
    /\ w.entries \in 0..MaxEntries /\ w.time \in 0..MaxTime

ASSUME StoreAssumption ==
    /\ MaxEntries \in Nat /\ MaxTime \in Nat
    /\ \A w \in Workloads : Workload(w)

VARIABLES
    workload,   \* what is done, the same throughout
    store,      \* _store: the entries of every key that has any
    mtimes,     \* _mtimes
    summaries,  \* _summaries: mtime and data of a session
    lastMtime,  \* _last_mtime
    lpc,        \* where the listing is: idle, listing, loading or done
    lister,     \* what it has: its page, summaries, slots and settled loads
    since       \* history: since[s] is what was true of session s from the
                \* call of list_sessions() on

storage == <<store, mtimes, summaries, lastMtime>>
vars == <<workload, storage, lpc, lister, since>>

Restricted(f, D) == [k \in DOMAIN f \cap D |-> f[k]]

\* What the store holds of a session: its summary derived from all entries.
Current(s) ==
    IF Main(s) \in DOMAIN store THEN LiteInfo(store[Main(s)]) ELSE NoInfo

Fresh == [page |-> <<0, 0>>, summaries |-> Empty, slots |-> <<>>, pending |-> {},
          settled |-> Empty]

Init ==
    /\ workload \in Workloads
    /\ store = Empty /\ mtimes = Empty /\ summaries = Empty /\ lastMtime = 0
    /\ lpc = "idle" /\ lister = Fresh
    /\ since = [s \in Sessions |-> {}]

-----------------------------------------------------------------------------
\* The store

\* The wall clock may stand still or step back; the time handed out does not.
NextMtime(now) == IF now <= lastMtime THEN lastMtime + 1 ELSE now

\* The listing under way sees the session as it is after this step.
Observed ==
    since' = IF lpc # "loading" THEN since
             ELSE [s \in Sessions |-> since[s] \cup {Current(s)'}]

\* Mutant of Summarized: subagent transcripts are folded in as well.
SummarizedAll(k, batch, m) ==
    LET prev == IF k[1] \in DOMAIN summaries THEN summaries[k[1]].data ELSE Empty
    IN  Updated(summaries, k[1], [mtime |-> m, data |-> FoldSummary(prev, batch)])

Summarized(k, batch, m) ==
    LET prev == IF k[1] \in DOMAIN summaries THEN summaries[k[1]].data ELSE Empty
    IN  IF k # Main(k[1]) THEN summaries
        ELSE Updated(summaries, k[1], [mtime |-> m, data |-> FoldSummary(prev, batch)])

AppendEntries(k, batch, now) ==
    LET old == IF k \in DOMAIN store THEN store[k] ELSE <<>>
    IN  /\ Len(old \o batch) <= workload.entries /\ NextMtime(now) <= workload.time
        /\ store' = Updated(store, k, old \o batch)
        /\ lastMtime' = NextMtime(now)
        /\ mtimes' = Updated(mtimes, k, lastMtime')
        /\ summaries' = Summarized(k, batch, lastMtime')
        /\ Observed
        /\ UNCHANGED <<workload, lpc, lister>>

\* The main transcript takes the session's other keys along.
Deleted(k) == {j \in DOMAIN store : j = k \/ (k = Main(k[1]) /\ j[1] = k[1])}

Unsummarize(k) ==
    IF k = Main(k[1]) THEN Restricted(summaries, DOMAIN summaries \ {k[1]})
    ELSE summaries

Delete(k) ==
    /\ store' = Restricted(store, DOMAIN store \ Deleted(k))
    /\ mtimes' = Restricted(mtimes, DOMAIN mtimes \ Deleted(k))
    /\ summaries' = Unsummarize(k)
    /\ Observed
    /\ UNCHANGED <<workload, lastMtime, lpc, lister>>

-----------------------------------------------------------------------------
\* The reads of the store

Listed == {s \in Sessions : Main(s) \in DOMAIN store}
ListSessions == [s \in Listed |-> mtimes[Main(s)]]
ListSessionSummaries == Restricted(summaries, DOMAIN summaries \ workload.unsummarized)

-----------------------------------------------------------------------------
\* list_sessions_from_store()

\* The elements of S, each behind those that are before it.
Sorted(S, before) ==
    [i \in 1..Cardinality(S) |->
        CHOOSE x \in S : Cardinality({y \in S : <<y, x>> \in before}) = i - 1]

Newer(rows) == {p \in rows \X rows : p[1].mtime > p[2].mtime}
Cut(rows, page) ==
    LET from == SubSeq(rows, page[2] + 1, Len(rows))
    IN  IF page[1] > 0 /\ page[1] < Len(from) THEN SubSeq(from, 1, page[1]) ELSE from

\* Mutant of UpToDate: a summary is used whatever its age.
AnySummary(known, sums) == DOMAIN known \cap DOMAIN sums
UpToDate(known, sums) ==
    {s \in DOMAIN known \cap DOMAIN sums : sums[s].mtime >= known[s]}

\* Mutant of SummarySlots: sessions with nothing to show take a place.
AllSummarySlots(known, sums) ==
    {[id |-> s, mtime |-> sums[s].mtime, info |-> SdkInfo(sums[s].data), load |-> FALSE] :
        s \in UpToDate(known, sums)}
SummarySlots(known, sums) ==
    {x \in {[id |-> s, mtime |-> sums[s].mtime, info |-> SdkInfo(sums[s].data),
             load |-> FALSE] : s \in UpToDate(known, sums)} : x.info # NoInfo}

\* Mutant of LoadSlots: only sessions without a summary are loaded.
MissingSlots(known, sums) ==
    {[id |-> s, mtime |-> known[s], info |-> NoInfo, load |-> TRUE] :
        s \in DOMAIN known \ DOMAIN sums}
LoadSlots(known, sums) ==
    {[id |-> s, mtime |-> known[s], info |-> NoInfo, load |-> TRUE] :
        s \in DOMAIN known \ UpToDate(known, sums)}

\* Sorted, then cut to the page, before any load.
Slots(known, sums, page) ==
    LET slots == SummarySlots(known, sums) \cup LoadSlots(known, sums)
    IN  Cut(Sorted(slots, Newer(slots)), page)

ReadSummaries(page) ==
    /\ lpc = "idle"
    /\ lpc' = "listing"
    /\ lister' = [lister EXCEPT !.page = page, !.summaries = ListSessionSummaries]
    /\ UNCHANGED <<workload, storage, since>>

ReadSessions ==
    /\ lpc = "listing"
    /\ LET slots == Slots(ListSessions, lister.summaries, lister.page)
       IN  lister' = [lister EXCEPT !.slots = slots,
                          !.pending = {i \in DOMAIN slots : slots[i].load}]
    /\ lpc' = "loading"
    /\ since' = [s \in Sessions |-> {Current(s)}]
    /\ UNCHANGED <<workload, storage>>

\* What a row shows when its load raised: nothing but the session's id.
Degraded == [title |-> None, summary |-> "", firstPrompt |-> None, branch |-> None,
             cwd |-> None, tag |-> None, created |-> None]

\* One load() of _derive_infos_via_load(), parsed like a file.
LoadReturns(i) ==
    /\ lpc = "loading" /\ i \in lister.pending
    /\ \E info \in {Current(lister.slots[i].id)}
                       \cup (IF workload.loadsFail THEN {Degraded} ELSE {}) :
           lister' = [lister EXCEPT !.pending = @ \ {i}, !.settled = Updated(@, i, info)]
    /\ UNCHANGED <<workload, storage, lpc, since>>

\* Loaded sessions with nothing to show are dropped from the page.
Rows(slots, settled) ==
    LET row == [i \in DOMAIN slots |->
                   [id |-> slots[i].id, mtime |-> slots[i].mtime,
                    info |-> IF slots[i].load THEN settled[i] ELSE slots[i].info]]
        shown == {i \in DOMAIN slots : row[i].info # NoInfo}
        places == Sorted(shown, {p \in shown \X shown : p[1] < p[2]})
    IN  [n \in DOMAIN places |-> row[places[n]]]

ListingReturns ==
    /\ lpc = "loading" /\ lister.pending = {}
    /\ lpc' = "done"
    /\ UNCHANGED <<workload, storage, lister, since>>

ListingForgotten ==
    /\ lpc = "done"
    /\ lpc' = "idle" /\ lister' = Fresh
    /\ since' = [s \in Sessions |-> {}]
    /\ UNCHANGED <<workload, storage>>

\* The path of a store without list_session_summaries(), at one instant.
SlowRows(page) ==
    LET rows == {x \in {[id |-> s, mtime |-> mtimes[Main(s)], info |-> Current(s)] :
                            s \in Listed} : x.info # NoInfo}
    IN  Cut(Sorted(rows, Newer(rows)), page)

\* The path of a store with summaries, at one instant.
FastRows(page) ==
    LET slots == Slots(ListSessions, ListSessionSummaries, page)
    IN  Rows(slots, [i \in DOMAIN slots |-> Current(slots[i].id)])

-----------------------------------------------------------------------------
Next ==
    \/ \E k \in workload.keys :
           \/ \E batch \in workload.batches, now \in 0..workload.time :
                  AppendEntries(k, batch, now)
           \/ Delete(k)
    \/ \E page \in workload.pages : ReadSummaries(page)
    \/ ReadSessions \/ ListingReturns \/ ListingForgotten
    \/ \E i \in lister.pending : LoadReturns(i)

Spec == Init /\ [][Next]_vars

-----------------------------------------------------------------------------
TypeOK ==
    /\ workload \in Workloads
    /\ DOMAIN store \subseteq Keys /\ DOMAIN mtimes = DOMAIN store
    /\ \A k \in DOMAIN store : Len(store[k]) \in 1..MaxEntries
    /\ lastMtime \in 0..MaxTime
    /\ \A k \in DOMAIN mtimes : mtimes[k] \in 1..lastMtime
    /\ lpc \in {"idle", "listing", "loading", "done"}
    /\ \A i \in DOMAIN lister.slots : lister.slots[i].load
           <=> i \in lister.pending \cup DOMAIN lister.settled

(***************************************************************************)
(* The incremental summary of a session is the one of its whole main       *)
(* transcript, with its modification time, after any appends and deletions *)
(* of the session and of its subagents ("so adapters never need to re-read *)
(* previously appended entries").                                          *)
(***************************************************************************)
SidecarExact ==
    /\ DOMAIN summaries = Listed
    /\ \A s \in Listed :
           /\ summaries[s].mtime = mtimes[Main(s)]
           /\ summaries[s].data = FoldSummary(Empty, store[Main(s)])

(***************************************************************************)
(* A store with summaries lists what a store without them lists, in the    *)
(* same order, as long as the transcripts fit into the windows of the      *)
(* parser of files.                                                        *)
(***************************************************************************)
InWindow == \A s \in Listed : Len(store[Main(s)]) <= HeadLen /\ Len(store[Main(s)]) <= TailLen
PathsAgree == InWindow => FastRows(<<0, 0>>) = SlowRows(<<0, 0>>)

(***************************************************************************)
(* With a summary of every session a page holds as many rows as there are, *)
(* and the pages of a listing make up the whole ("a store with complete    *)
(* and fresh sidecars never short-pages").                                 *)
(***************************************************************************)
NeverShort ==
    workload.unsummarized = {} =>
        \A limit, offset \in 0..Cardinality(Sessions) :
            FastRows(<<limit, offset>>) = Cut(FastRows(<<0, 0>>), <<limit, offset>>)

(***************************************************************************)
(* A listing from summaries and one from transcripts are the same listing, *)
(* as a whole and page by page.                                            *)
(***************************************************************************)
PagesAgree == PathsAgree /\ NeverShort

(***************************************************************************)
(* What a listing says of a session was true of it when the listing called *)
(* list_sessions(), or after: an append, a deletion or a new start of the  *)
(* session between the reads never leaves an older summary in the result.  *)
(***************************************************************************)
Result == Rows(lister.slots, lister.settled)
RowsFresh ==
    lpc = "done" => \A i \in DOMAIN Result :
        Result[i].info \in since[Result[i].id] \cup {Degraded}

(***************************************************************************)
(* A session that had something to show all the while is in the result of  *)
(* a listing without a limit, once, with or without a summary of its own,  *)
(* also when its load fails.                                               *)
(***************************************************************************)
ListingComplete ==
    lpc = "done" /\ lister.page = <<0, 0>> =>
        \A s \in Sessions : NoInfo \notin since[s] =>
            \E i \in DOMAIN Result : \A j \in DOMAIN Result :
                Result[j].id = s <=> j = i

(***************************************************************************)
(* A listing that other callers interleave with is true: it shows every    *)
(* session that was there all the while, and nothing that was never so.    *)
(***************************************************************************)
ListingTrue == RowsFresh /\ ListingComplete
=============================================================================
