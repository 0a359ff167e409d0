----------------------------- MODULE Transcript -----------------------------
(***************************************************************************)
(* A transcript and what is derived from it: the conversation that         *)
(* get_session_messages() and get_subagent_messages() show, and the fork   *)
(* that fork_session() writes, from a file or from a SessionStore.         *)
(*                                                                         *)
(* A transcript is the sequence of its lines that have a uuid and a        *)
(* message type; an entry has its uuid, its parentUuid or Null, its type,  *)
(* and a flag for isSidechain, teamName or isMeta.  user stands for        *)
(* assistant as well, system for attachment.  A store may hold an entry    *)
(* more than once.  logicalParentUuid, which no reader follows, is left    *)
(* out, and so are the texts, the title of a fork and paging.              *)
(***************************************************************************)
EXTENDS Naturals, Sequences, SequencesExt

Null == 0
IsSeq(s) == s \in Seq(Range(s))

\* The elements of s that are in S, in their order.
Picked(s, S) ==
    LET upTo[n \in 0..Len(s)] ==
            IF n = 0 THEN <<>>
            ELSE IF s[n] \in S THEN Append(upTo[n - 1], s[n]) ELSE upTo[n - 1]
    IN  upTo[Len(s)]

Uuids(entries) == {entries[i].uuid : i \in DOMAIN entries}
Positions(entries, id) == {i \in DOMAIN entries : entries[i].uuid = id}

\* Mutant of Position: the first copy of an entry counts.
FirstPosition(entries, id) == Min(Positions(entries, id))

\* by_uuid and entry_index: the last copy of an entry counts.
Position(entries, id) == Max(Positions(entries, id))
ByUuid(entries, id) == entries[Position(entries, id)]

\* Mutant of Parent: only messages are looked up.
ParentMessage(entries, id) ==
    LET up == ByUuid(entries, id).parent
    IN  IF \E i \in DOMAIN entries : entries[i].uuid = up /\ entries[i].type = "user"
        THEN up ELSE Null

\* The entry that parentUuid leads to, if the transcript has it.
Parent(entries, id) ==
    LET up == ByUuid(entries, id).parent
    IN  IF up \in Uuids(entries) THEN up ELSE Null

Links(entries) == [u \in Uuids(entries) |-> Parent(entries, u)]

\* From an entry up to its root, or until the links come back on themselves.
Path(up, id) ==
    LET walked[n \in 0..Cardinality(DOMAIN up)] ==
            IF n = 0 THEN <<id>>
            ELSE LET path == walked[n - 1]
                     next == up[Last(path)]
                 IN  IF next = Null \/ Contains(path, next) THEN path ELSE Append(path, next)
    IN  walked[Cardinality(DOMAIN up)]
Walk(entries, id) == Path(Links(entries), id)

Talk(e) == e.type = "user"
Main(e) == e.flag = "none"
Visible(e) == Talk(e) /\ Main(e)
Talks(entries) == {u \in Uuids(entries) : Talk(ByUuid(entries, u))}
Visibles(entries) == {u \in Uuids(entries) : Visible(ByUuid(entries, u))}

Terminals(entries) ==
    Uuids(entries) \ {entries[i].parent : i \in DOMAIN entries}

\* Mutant of NearestTalk: a terminal that is no message has no leaf.
TalkItself(entries, id) ==
    IF Talk(ByUuid(entries, id)) THEN {id} ELSE {}

\* From a terminal back to the nearest message, if there is one.
NearestTalk(entries, id) ==
    LET talks == Picked(Walk(entries, id), Talks(entries))
    IN  IF talks = <<>> THEN {} ELSE {talks[1]}

Leaves(entries) == UNION {NearestTalk(entries, t) : t \in Terminals(entries)}
MainLeaves(entries) == {u \in Leaves(entries) : Main(ByUuid(entries, u))}

Latest(entries, ids) ==
    CHOOSE u \in ids : \A v \in ids : Position(entries, v) <= Position(entries, u)

\* _build_conversation_chain(): uuids from the root to the leaf.
Chain(entries) ==
    LET main == MainLeaves(entries)
        leaf == Latest(entries, IF main # {} THEN main ELSE Leaves(entries))
    IN  IF Leaves(entries) = {} THEN <<>> ELSE Reverse(Walk(entries, leaf))

\* get_session_messages(), and its counterpart over a store.
Messages(entries) ==
    Picked(Chain(entries), Visibles(entries))

-----------------------------------------------------------------------------
\* get_subagent_messages(): the last message is the leaf.
SubagentMessages(entries) ==
    LET talks == {i \in DOMAIN entries : Talk(entries[i])}
    IN  IF talks = {} THEN <<>>
        ELSE Picked(Reverse(Walk(entries, entries[Max(talks)].uuid)), Talks(entries))

-----------------------------------------------------------------------------
\* _build_fork_lines()

Own(entries) == Picked(entries, {e \in Range(entries) : e.flag # "side"})

\* Mutants of Prefix: sidechains are copied too; the message itself is not.
PrefixOfAll(entries, upTo) ==
    IF upTo = Null THEN entries
    ELSE IF upTo \notin Uuids(entries) THEN <<>>
    ELSE SubSeq(entries, 1, Min(Positions(entries, upTo)))
PrefixBefore(entries, upTo) ==
    LET own == Own(entries)
    IN  IF upTo = Null THEN own
        ELSE IF upTo \notin Uuids(own) THEN <<>>
        ELSE SubSeq(own, 1, Min(Positions(own, upTo)) - 1)

\* What is copied: all but the sidechains, up to a message.
Prefix(entries, upTo) ==
    LET own == Own(entries)
    IN  IF upTo = Null THEN own
        ELSE IF upTo \notin Uuids(own) THEN <<>>
        ELSE SubSeq(own, 1, Min(Positions(own, upTo)))

IsProgress(e) == e.type = "progress"

\* Mutant of ForkParent: the parent as it is, though its line is not written.
DirectParent(source, id) == Parent(source, id)

\* The nearest ancestor that is written.
ForkParent(source, id) ==
    LET kept == Picked(Tail(Walk(source, id)),
                       {u \in Uuids(source) : ~IsProgress(ByUuid(source, u))})
    IN  IF kept = <<>> THEN Null ELSE kept[1]

\* The lines of the fork; the uuid of one is fresh and known by what it was
\* made from.  <<>> stands for the ValueError: nothing to fork.
ForkOf(source) ==
    LET Forked(e) == [uuid |-> e.uuid, parent |-> ForkParent(source, e.uuid),
                      type |-> e.type, flag |-> IF e.flag = "meta" THEN "meta" ELSE "none"]
        written == Picked(source, {e \in Range(source) : ~IsProgress(e)})
    IN  [i \in DOMAIN written |-> Forked(written[i])]
Fork(entries, upTo) == ForkOf(Prefix(entries, upTo))
=============================================================================
