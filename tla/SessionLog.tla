----------------------------- MODULE SessionLog -----------------------------
(***************************************************************************)
(* The transcript of a session on disk, its copy in a SessionStore, and    *)
(* the two that make the copy: the mirror, which appends what the CLI      *)
(* writes, with retries, and import_session_to_store(), which replays the  *)
(* file from its beginning and may fail and be run again.                  *)
(***************************************************************************)
EXTENDS Transcript

CONSTANTS
    Setups,      \* the settings to consider, see Setting
    BatchSize,   \* batch_size of the import
    MaxEntries   \* bound: lines the CLI writes

Kinds == [type : {"user", "progress", "system"}, flag : {"none", "side", "team", "meta"}]
Setting == [kinds : SUBSET Kinds,   \* type and flag of the entries the CLI writes
            branching : BOOLEAN,    \* entries may go on from any earlier one (a rewind)
            mirrored : BOOLEAN,     \* the session has a store
            loses : BOOLEAN,        \* the mirror may give up on a batch
            entries : 0..MaxEntries,
            imports : Nat]          \* bound: imports begun

\* A transcript that does not branch is that of a subagent.
ASSUME LogAssumption ==
    /\ MaxEntries \in Nat /\ BatchSize \in Nat \ {0}
    /\ Setups \subseteq Setting
    /\ \A s \in Setups : ~s.branching => \A kind \in s.kinds : kind.flag = "side"

VARIABLES
    setup,   \* the setting, which stays
    log,     \* the lines of the file
    sent,    \* how many of them the mirror has sent or given up on
    gap,     \* history: the mirror has given up on a batch
    stored,  \* the entries of the store
    imp,     \* the import: lines read, the batch in the store's hands, eof
    imports, \* bound: imports begun
    caughtUp \* history: an import has ended, and nothing happened since
             \* its start but what the import did

vars == <<setup, log, sent, gap, stored, imp, imports, caughtUp>>

NoImport == [running |-> FALSE, read |-> 0, batch |-> <<>>, eof |-> FALSE]

Init ==
    /\ setup \in Setups
    /\ log = <<>> /\ sent = 0 /\ gap = FALSE /\ stored = <<>>
    /\ imp = NoImport /\ imports = 0 /\ caughtUp = FALSE

-----------------------------------------------------------------------------
\* A sidechain has a graph of parents of its own.
Parents(kind) ==
    LET same == {i \in DOMAIN log : (log[i].flag = "side") = (kind.flag = "side")}
    IN  IF setup.branching THEN {Null} \cup {log[i].uuid : i \in same}
        ELSE IF log = <<>> THEN {Null} ELSE {Last(log).uuid}

Write(kind, parent) ==
    /\ Len(log) < setup.entries
    /\ log' = Append(log, [uuid |-> Len(log) + 1, parent |-> parent,
                           type |-> kind.type, flag |-> kind.flag])
    /\ caughtUp' = FALSE
    /\ UNCHANGED <<setup, sent, gap, stored, imp, imports>>

\* The adapter's append().
Added(entries) == stored \o entries

Batch(n) == SubSeq(log, sent + 1, sent + n)

\* What of a batch the append()s that failed have left in the store: the parts of
\* all attempts taken as one.
Landed(batch) == {Picked(batch, S) : S \in SUBSET Range(batch)}

\* The attempt that failed, and the whole batch again.
Resent(batch, landed) == landed \o batch

Mirror(n) ==
    /\ setup.mirrored /\ sent + n <= Len(log)
    /\ sent' = sent + n
    /\ \/ \E landed \in Landed(Batch(n)) : stored' = Added(Resent(Batch(n), landed))
          /\ UNCHANGED gap
       \/ /\ setup.loses /\ gap' = TRUE
          /\ \E landed \in Landed(Batch(n)) : stored' = Added(landed)
    /\ caughtUp' = FALSE
    /\ UNCHANGED <<setup, log, imp, imports>>

-----------------------------------------------------------------------------
\* import_session_to_store()

ImportStarts ==
    /\ log # <<>> /\ ~imp.running /\ imports < setup.imports
    /\ imp' = [NoImport EXCEPT !.running = TRUE]
    /\ imports' = imports + 1
    /\ caughtUp' = (~setup.mirrored \/ sent = Len(log))
    /\ UNCHANGED <<setup, log, sent, gap, stored>>

\* Mutant of LastBatch: what is left at the end of the file is not appended.
DropLast(batch) == IF Len(batch) < BatchSize THEN <<>> ELSE batch
LastBatch(batch) == batch

BatchEnd == Min({imp.read + BatchSize, Len(log)})

\* Lines are read until a batch is full or the file ends.
ImportReads ==
    /\ imp.running /\ imp.batch = <<>>
    /\ ~imp.eof /\ imp.read < Len(log)
    /\ imp' = [imp EXCEPT !.batch = SubSeq(log, imp.read + 1, BatchEnd),
                          !.read = BatchEnd, !.eof = BatchEnd < imp.read + BatchSize]
    /\ UNCHANGED <<setup, log, sent, gap, stored, imports, caughtUp>>

ImportAppends ==
    /\ imp.running /\ imp.batch # <<>>
    /\ stored' = Added(LastBatch(imp.batch))
    /\ imp' = [imp EXCEPT !.batch = <<>>]
    /\ UNCHANGED <<setup, log, sent, gap, imports, caughtUp>>

\* append() raised, having added some of the batch, and so does the import.
ImportFails ==
    /\ imp.running /\ imp.batch # <<>>
    /\ \E landed \in Landed(imp.batch) : stored' = Added(landed)
    /\ imp' = NoImport /\ caughtUp' = FALSE
    /\ UNCHANGED <<setup, log, sent, gap, imports>>

\* A batch that was not full was the last one.
ImportEnds ==
    /\ imp.running /\ imp.batch = <<>>
    /\ imp.eof \/ imp.read = Len(log)
    /\ imp' = NoImport
    /\ UNCHANGED <<setup, log, sent, gap, stored, imports, caughtUp>>

-----------------------------------------------------------------------------
Next ==
    \/ \E kind \in setup.kinds : \E parent \in Parents(kind) : Write(kind, parent)
    \/ \E n \in 1..MaxEntries : Mirror(n)
    \/ ImportStarts \/ ImportReads \/ ImportAppends \/ ImportFails \/ ImportEnds

Spec == Init /\ [][Next]_vars

-----------------------------------------------------------------------------
Ids(entries) == [i \in DOMAIN entries |-> entries[i].uuid]
Ancestors(u) == Picked(Reverse(Walk(log, u)), Visibles(log))
Newest == CHOOSE u \in {v \in Uuids(log) : Visible(log[v])} :
              \A v \in Uuids(log) : Visible(log[v]) => v <= u
HasVisible == \E i \in DOMAIN log : Visible(log[i])

\* Nothing but progress and system lines goes on from the newest message.
TipShown ==
    HasVisible /\ \A u \in Uuids(log) :
        Talk(log[u]) /\ ~Main(log[u]) => ~Contains(Walk(log, u), Newest)
\* Every transcript arises with nothing copied, which is where the properties
\* of the file alone are evaluated.
FileOnly == stored = <<>> /\ imports = 0
TeamFree == \A i \in DOMAIN log : log[i].flag # "team"

(***************************************************************************)
(* The conversation that is shown is the one the newest visible message    *)
(* ends, on whatever branch of the transcript it is and whatever progress  *)
(* and system lines follow it; unless messages that are not shown go on    *)
(* from it, after which the code looks for another leaf.                   *)
(***************************************************************************)
NewestShown == FileOnly /\ TipShown => Messages(log) = Ancestors(Newest)

(***************************************************************************)
(* A fork of the whole session shows the conversation of its source.       *)
(* Messages of a team, which lose their mark in a fork, are left aside,    *)
(* and so are transcripts that end in a message that is not shown.         *)
(***************************************************************************)
ForkShowsSource ==
    FileOnly /\ TipShown /\ TeamFree => Messages(Fork(log, Null)) = Messages(log)

(***************************************************************************)
(* A fork up to a visible message ends with it and shows what led to it,   *)
(* though the lines that are copied include other branches.                *)
(***************************************************************************)
ForkEndsAt ==
    \A u \in Uuids(log) :
        FileOnly /\ Visible(log[u]) /\ TeamFree =>
            Messages(Fork(log, u)) = Ancestors(u)

(***************************************************************************)
(* A fork refers to itself only: every parent is a line of it, of a file   *)
(* an earlier one, also where progress lines, sidechains and a gap of the  *)
(* mirror (here without imports, which only fill it) have taken lines away.*)
(***************************************************************************)
RefersTo(fork, i, lines) ==
    fork[i].parent = Null \/ \E j \in lines : fork[j].uuid = fork[i].parent
ForkSelfContained ==
    /\ FileOnly => \A upTo \in {Null} \cup Uuids(log) :
           LET fork == Fork(log, upTo)
           IN  \A i \in DOMAIN fork : RefersTo(fork, i, 1..(i - 1))
    /\ imports = 0 =>
           LET fork == Fork(stored, Null)
           IN  \A i \in DOMAIN fork : RefersTo(fork, i, DOMAIN fork)

(***************************************************************************)
(* A fork is a session of its own and shows what its source showed, as a   *)
(* whole or up to a message.                                               *)
(***************************************************************************)
ForkFaithful == ForkShowsSource /\ ForkEndsAt /\ ForkSelfContained

(***************************************************************************)
(* A store that the mirror has kept up with shows the conversation of the  *)
(* file, and forks to the same, although attempts of the mirror that       *)
(* failed left a part of a batch, in its order, before the whole of it.    *)
(* One part stands for those of all attempts: the last copy counts.        *)
(***************************************************************************)
StoreReadsAlike ==
    imports = 0 /\ sent = Len(log) /\ ~gap =>
        /\ Messages(stored) = Messages(log)
        /\ Messages(Fork(stored, Null)) = Messages(Fork(log, Null))

(***************************************************************************)
(* An import that has ended, of a session at rest, leaves the store        *)
(* showing the conversation of the file, whatever the mirror lost and      *)
(* earlier imports left behind ("for catching a store up after a           *)
(* MirrorErrorMessage indicated a live-mirror gap").                       *)
(***************************************************************************)
ImportHeals ==
    caughtUp /\ ~imp.running =>
        Messages(stored) = Messages(log) /\ SubagentMessages(stored) = SubagentMessages(log)

(***************************************************************************)
(* A linear transcript of a subagent is shown in full, from a file and,    *)
(* once mirrored, from the store with its repeated lines.                  *)
(***************************************************************************)
LinearShownInFull ==
    ~setup.branching =>
        /\ SubagentMessages(log) = Ids(Picked(log, {e \in Range(log) : Talk(e)}))
        /\ imports = 0 /\ sent = Len(log) /\ ~gap =>
               SubagentMessages(stored) = SubagentMessages(log)

(***************************************************************************)
(* The copy in a store reads as the file does, of the session and of its   *)
(* subagents, although the mirror repeats lines, and an import heals what  *)
(* the mirror lost.                                                        *)
(***************************************************************************)
CopiesReadAlike == StoreReadsAlike /\ LinearShownInFull /\ ImportHeals
=============================================================================
