----------------------------- MODULE SessionFiles -----------------------------
(***************************************************************************)
(* The sessions on disk.  A session is a file <session>.jsonl in a project *)
(* directory, next to a directory <session>/ of subagent transcripts; the  *)
(* worktrees of one repository are project directories of their own, and   *)
(* each of them may hold a copy of a session, an empty stub, or nothing.   *)
(*                                                                         *)
(* rename_session() (tag_session() appends its line the same way),         *)
(* delete_session(), fork_session(), get_session_info(),                   *)
(* get_session_messages() and list_sessions() run in several programs at   *)
(* once, beside the CLI that writes the transcripts; there is no lock.     *)
(* One action is one system call on a file, or two of which the second     *)
(* cannot see a change that matters.                                       *)
(*                                                                         *)
(* Files are numbered as they are created, so that a program that has a    *)
(* file open keeps it when the name is removed.  The bytes of a file are   *)
(* its lines: a conversation line that has a prompt, a meta line (a uuid,  *)
(* and nothing to show), a mode line (neither), a line of a sidechain, and *)
(* a title, which is named by the call that wrote it.                      *)
(*                                                                         *)
(* A listing reads the first and the last 64 KiB of a file and no more:    *)
(* window says how many lines that is.  Lines differ in length, so the two *)
(* numbers may differ, and a long first line leaves no whole line at the   *)
(* head; a title line is short, so that the last line is always read.      *)
(***************************************************************************)
EXTENDS Integers, SequencesExt

CONSTANTS
    Dirs,        \* the project directories
    Callers,     \* the calls, each of which runs once
    Session,     \* the session they are about; a fork is named by its caller
    Plans,       \* what the callers call, or Nobody for a caller that does not
    CliLines,    \* the kinds of lines the CLI writes in this instance
    Windows,     \* the windows of a listing, of which each behaviour has one
    Orders,      \* the orders in which a call may visit the directories, all of them
    MaxWrites,   \* bound: lines and stubs the CLI writes
    MaxFiles     \* bound: files that are ever created

Nobody == "nobody"

ASSUME FilesAssumption ==
    /\ Session \notin Callers
    /\ Callers \cap {"talk", "meta", "mode", "side", Nobody} = {}
    /\ Plans \subseteq [Callers -> {"rename", "delete", "fork", "info", "messages", "list", Nobody}]
    /\ CliLines \subseteq {"talk", "meta", "mode", "side"}
    /\ Windows \subseteq [head : Nat, tail : Nat \ {0}]
    /\ Orders \subseteq Seq(Dirs)
    /\ \A order \in Orders : order # <<>> /\ Range(order) = Dirs
    /\ MaxWrites \in Nat /\ MaxFiles \in Nat

Sessions == {Session} \cup Callers
NoFile == 0
NoRename == <<Nobody, NoFile, 0>>

VARIABLES
    file,     \* directory, session -> the file of that name
    data,     \* file -> its lines
    mtime,    \* file -> when it was last written
    window,   \* how many lines of a file are in its first, and its last, 64 KiB
    agents,   \* directories that hold subagent transcripts of Session
    created,  \* files created so far
    clock,    \* counts the writes of all programs
    writes,   \* of which by the CLI
    call,     \* what each call is doing
    gone,     \* history: directories whose copy was deleted, and not made again
    steady,   \* history: call -> copies it could have read from its start to its end
    quiet,    \* history: call -> no copy came or went since its start
    latest    \* history: the last rename, its file and line, as long as it is in sight

fs == <<file, data, mtime, window, created, clock>>
vars == <<fs, agents, writes, call, gone, steady, quiet, latest>>

-----------------------------------------------------------------------------
\* What one line, and one file, mean to a reader.
NonEmpty(f) == f # NoFile /\ data[f] # <<>>

\* _read_session_lite(): the lines of the head and those of the tail, in a file
\* of n lines.
InSight(k, n) == k <= window.head \/ k > n - window.tail

\* Mutant of Titles: the head is not searched when the tail has no title.
TitlesInTail(lines) ==
    {k \in DOMAIN lines : lines[k] \in Callers /\ k > Len(lines) - window.tail}

\* The last title of the tail, or else of the head, is that of the file.
Titles(lines) == {k \in DOMAIN lines : lines[k] \in Callers /\ InSight(k, Len(lines))}
TitleOf(lines) == IF Titles(lines) = {} THEN Nobody ELSE lines[Max(Titles(lines))]
Title(f) == TitleOf(data[f])

\* _parse_session_info_from_lite(): a file that begins with a sidechain is not
\* shown, nor is one that has no summary: no title, and no prompt in its head.
Sidechain(lines) == lines # <<>> /\ lines[1] = "side"
Shows(lines) ==
    /\ lines # <<>> /\ ~Sidechain(lines)
    /\ Titles(lines) # {} \/ \E k \in DOMAIN lines : k <= window.head /\ lines[k] = "talk"
Shown(f) == f # NoFile /\ Shows(data[f])

\* The lines of these kinds, in their order.
Having(lines, kinds) ==
    LET upTo[n \in 0..Len(lines)] ==
            IF n = 0 THEN <<>>
            ELSE IF lines[n] \in kinds THEN Append(upTo[n - 1], lines[n]) ELSE upTo[n - 1]
    IN  upTo[Len(lines)]

\* What a fork copies, before its title: the lines that have a uuid.
Copied(f) == Having(data[f], {"talk", "meta"})

Row(s, f) == [session |-> s, file |-> f, title |-> Title(f), mtime |-> mtime[f]]

\* Mutant of Deduplicated: the oldest copy is kept.
OldestKept(rows) ==
    {r \in rows : \A o \in rows : o.session = r.session => o.mtime >= r.mtime}

\* _deduplicate_by_session_id(): the newest copy of each session.
Deduplicated(rows) ==
    {r \in rows : \A o \in rows : o.session = r.session => o.mtime <= r.mtime}

Copies == {<<d, Session>> : d \in Dirs}

Init ==
    /\ file = [d \in Dirs |-> [s \in Sessions |-> NoFile]]
    /\ data = [f \in 1..MaxFiles |-> <<>>]
    /\ mtime = [f \in 1..MaxFiles |-> 0] /\ window \in Windows
    /\ agents = {} /\ created = 0 /\ clock = 0 /\ writes = 0
    /\ \E plan \in Plans : call = [c \in Callers |-> [pc |-> "new", op |-> plan[c]]]
    /\ gone = {} /\ steady = [c \in Callers |-> {}]
    /\ quiet = [c \in Callers |-> TRUE] /\ latest = NoRename

-----------------------------------------------------------------------------
(* What a step does to the files.                                          *)

\* One os.write() to a file opened with O_APPEND.
Appends(f, lines) ==
    /\ data' = [data EXCEPT ![f] = @ \o lines]
    /\ mtime' = [mtime EXCEPT ![f] = clock + 1]
    /\ clock' = clock + 1

Create(d, s) ==
    /\ created < MaxFiles
    /\ created' = created + 1
    /\ file' = [file EXCEPT ![d][s] = created + 1]

Untouched == UNCHANGED <<fs, agents, writes, gone, steady, quiet, latest>>

\* A copy came, or went: what a search finds has changed.
Disturbed == quiet' = [c \in Callers |-> FALSE]

-----------------------------------------------------------------------------
(* The CLI.  A line it appends may push the title out of the tail: what    *)
(* the file shows then is an older title, or a prompt, or nothing.         *)

PushesOut(f, line) == NonEmpty(f) /\ ~Shows(Append(data[f], line))

Writes(d, line) ==
    LET f == file[d][Session]
    IN  /\ writes < MaxWrites /\ writes' = writes + 1
        /\ IF f = NoFile
             THEN Create(d, Session) /\ Appends(created + 1, <<line>>)
             ELSE Appends(f, <<line>>) /\ UNCHANGED <<file, created>>
        /\ gone' = gone \ {d}
        /\ IF NonEmpty(f) THEN UNCHANGED quiet ELSE Disturbed
        /\ steady' = [c \in Callers |->
              IF call[c].op = "list" /\ PushesOut(f, line) THEN steady[c] \ {<<d, Session>>}
              ELSE steady[c]]
        /\ latest' = IF latest[2] = f /\ NonEmpty(f) /\ InSight(latest[3], Len(data[f]) + 1)
                       THEN latest ELSE NoRename
        /\ UNCHANGED <<window, agents, call>>

Stub(d) ==
    /\ writes < MaxWrites /\ writes' = writes + 1
    /\ file[d][Session] = NoFile /\ Create(d, Session)
    /\ gone' = gone \ {d}
    /\ UNCHANGED <<data, mtime, window, clock, agents, call, steady, quiet, latest>>

SubagentWrites(d) ==
    /\ writes < MaxWrites /\ writes' = writes + 1
    /\ agents' = agents \cup {d} /\ gone' = gone \ {d}
    /\ UNCHANGED <<fs, call, steady, quiet, latest>>

-----------------------------------------------------------------------------
(* The search all single-session calls share.                              *)

Begin(c, order) ==
    LET op == call[c].op IN
    /\ call[c].pc = "new" /\ op # Nobody
    /\ call' = [call EXCEPT ![c] = [pc |-> IF op = "list" THEN "names" ELSE "search",
          op |-> op, order |-> order, at |-> 1, file |-> NoFile,
          names |-> {}, rows |-> {}, lines |-> <<>>, want |-> latest]]
    /\ steady' = [steady EXCEPT ![c] =
          {p \in Dirs \X Sessions :
              IF op = "list" THEN Shown(file[p[1]][p[2]])
              ELSE p \in Copies /\ NonEmpty(file[p[1]][p[2]])}]
    /\ quiet' = [quiet EXCEPT ![c] = TRUE]
    /\ UNCHANGED <<fs, agents, writes, gone, latest>>

At(c, pc, op) == call[c].pc = pc /\ call[c].op = op
Dir(c) == call[c].order[call[c].at]
Here(c) == file[Dir(c)][Session]

Goes(c, pc) == call' = [call EXCEPT ![c].pc = pc]
Ends(c, how) == Goes(c, how)
Holds(c, pc, f) == call' = [call EXCEPT ![c].pc = pc, ![c].file = f]

\* Mutant of SearchesOn: a directory without the session ends the search.
StopsSearching(c) ==
    call' = [call EXCEPT ![c].pc = "not_found"]

\* This directory does not have the session: the next one, if there is one.
SearchesOn(c) ==
    IF call[c].at = Len(call[c].order) THEN Ends(c, "not_found")
    ELSE call' = [call EXCEPT ![c].at = @ + 1, ![c].pc = "search"]

-----------------------------------------------------------------------------
(* rename_session()                                                        *)

\* Mutant of OpensFile: the file is opened with O_CREAT.
OpensOrCreates(c) ==
    /\ At(c, "search", "rename")
    /\ IF Here(c) = NoFile
         THEN Create(Dir(c), Session) /\ Holds(c, "opened", created + 1)
              /\ UNCHANGED <<data, mtime, window, clock, agents, writes, gone, steady, quiet, latest>>
         ELSE Holds(c, "opened", Here(c)) /\ Untouched

\* _try_append(): os.open() without O_CREAT.
OpensFile(c) ==
    /\ At(c, "search", "rename")
    /\ IF Here(c) = NoFile THEN SearchesOn(c) ELSE Holds(c, "opened", Here(c))
    /\ Untouched

\* The title is written; of a file without a name nobody will read it, and
\* that of a sidechain is not shown.
Titled(c, f) ==
    /\ Appends(f, <<c>>)
    /\ latest' = IF f # Here(c) THEN latest
                 ELSE IF Sidechain(data[f]) THEN NoRename
                 ELSE <<c, f, Len(data[f]) + 1>>
    /\ Ends(c, "ok")
    /\ UNCHANGED <<file, window, created, agents, writes, gone, steady, quiet>>

\* Mutant of WritesTitle: an empty stub is as good as a session.
WritesToStub(c) ==
    /\ At(c, "opened", "rename")
    /\ Titled(c, call[c].file)

\* _try_append(): os.fstat(), and os.write() unless the file is empty.
WritesTitle(c) ==
    /\ At(c, "opened", "rename")
    /\ IF NonEmpty(call[c].file) THEN Titled(c, call[c].file)
       ELSE /\ IF call[c].at = Len(call[c].order)
                 THEN Holds(c, "not_found", NoFile)
                 ELSE call' = [call EXCEPT ![c].at = @ + 1, ![c].pc = "search",
                                           ![c].file = NoFile]
            /\ Untouched

-----------------------------------------------------------------------------
(* get_session_info() and get_session_messages()                           *)

ReadsInfo(c) ==
    /\ At(c, "search", "info")
    /\ IF NonEmpty(Here(c))
         THEN call' = [call EXCEPT ![c].pc = "ok", ![c].file = Here(c),
                          ![c].rows = IF Shown(Here(c)) THEN {Row(Session, Here(c))} ELSE {}]
         ELSE SearchesOn(c)
    /\ Untouched

\* _read_session_file(): the text of the first file that has any.
ReadsMessages(c) ==
    /\ At(c, "search", "messages")
    /\ IF NonEmpty(Here(c)) THEN Holds(c, "ok", Here(c)) ELSE SearchesOn(c)
    /\ Untouched

-----------------------------------------------------------------------------
(* delete_session()                                                        *)

\* _find_session_file(): path.stat().
FindsFile(c) ==
    /\ At(c, "search", "delete")
    /\ IF NonEmpty(Here(c)) THEN Holds(c, "found", Here(c)) ELSE SearchesOn(c)
    /\ Untouched

\* path.unlink() removes the name, whatever file has it by now.
Unlinks(c) ==
    /\ At(c, "found", "delete")
    /\ IF Here(c) = NoFile
         THEN Ends(c, "not_found") /\ Untouched
         ELSE /\ file' = [file EXCEPT ![Dir(c)][Session] = NoFile]
              /\ Goes(c, "unlinked") /\ Disturbed
              /\ gone' = gone \cup {Dir(c)}
              /\ steady' = [o \in Callers |-> steady[o] \ {<<Dir(c), Session>>}]
              /\ latest' = IF latest[2] = Here(c) THEN NoRename ELSE latest
              /\ UNCHANGED <<data, mtime, window, created, clock, agents, writes>>

\* shutil.rmtree() of the sibling directory, errors ignored.
RemovesAgents(c) ==
    /\ At(c, "unlinked", "delete") /\ Ends(c, "ok")
    /\ agents' = agents \ {Dir(c)}
    /\ UNCHANGED <<fs, writes, gone, steady, quiet, latest>>

-----------------------------------------------------------------------------
(* fork_session()                                                          *)

\* _find_session_file_with_dir(): path.stat().
FindsSource(c) ==
    /\ At(c, "search", "fork")
    /\ IF NonEmpty(Here(c)) THEN Goes(c, "found") ELSE SearchesOn(c)
    /\ Untouched

\* file_path.read_bytes(), and what _build_fork_lines() makes of it.
ReadsSource(c) ==
    /\ At(c, "found", "fork")
    /\ IF Here(c) = NoFile THEN Ends(c, "not_found")
       ELSE IF Copied(Here(c)) = <<>> THEN Holds(c, "no_messages", Here(c))
       ELSE call' = [call EXCEPT ![c].pc = "read", ![c].file = Here(c),
                                 ![c].lines = Copied(Here(c))]
    /\ Untouched

\* os.open() with O_CREAT and O_EXCL, under an id of its own.
CreatesFork(c) ==
    /\ At(c, "read", "fork") /\ Create(Dir(c), c) /\ Goes(c, "created")
    /\ UNCHANGED <<data, mtime, window, clock, agents, writes, gone, steady, quiet, latest>>

\* Mutant of ForkLines: the title is left out unless there is one to derive.
ForkLinesUntitled(c) ==
    call[c].lines \o (IF "talk" \in Range(call[c].lines) THEN <<c>> ELSE <<>>)

\* The copied lines and a title: the given one, a derived one, or a constant.
ForkLines(c) == Append(call[c].lines, c)

WritesFork(c) ==
    /\ At(c, "created", "fork") /\ Ends(c, "ok")
    /\ Appends(file[Dir(c)][c], ForkLines(c))
    /\ UNCHANGED <<file, window, created, agents, writes, gone, steady, quiet, latest>>

-----------------------------------------------------------------------------
(* list_sessions()                                                         *)

\* What was found is deduplicated and returned.
Lists(c) ==
    call' = [call EXCEPT ![c].pc = "ok", ![c].rows = Deduplicated(@),
                         ![c].want = IF @ = latest THEN @ ELSE NoRename]

\* _read_sessions_from_dir(): iterdir().
ReadsNames(c) ==
    /\ At(c, "names", "list") /\ call[c].at <= Len(call[c].order)
    /\ call' = [call EXCEPT ![c].pc = "rows",
                   ![c].names = {s \in Sessions : file[Dir(c)][s] # NoFile}]
    /\ Untouched

ListReturns(c) ==
    /\ At(c, "names", "list") /\ call[c].at > Len(call[c].order)
    /\ Lists(c) /\ Untouched

\* Mutant of ReadsRow: a file that cannot be read ends the directory.
ReadsRowOrEnds(c, s) ==
    /\ At(c, "rows", "list") /\ s \in call[c].names
    /\ LET f == file[Dir(c)][s]
       IN  call' = [call EXCEPT
             ![c].names = IF NonEmpty(f) THEN @ \ {s} ELSE {},
             ![c].rows = IF Shown(f) THEN @ \cup {Row(s, f)} ELSE @]
    /\ Untouched

\* _read_session_lite(): None for a file that is empty or gone.
ReadsRow(c, s) ==
    /\ At(c, "rows", "list") /\ s \in call[c].names
    /\ LET f == file[Dir(c)][s]
       IN  call' = [call EXCEPT ![c].names = @ \ {s},
             ![c].rows = IF Shown(f) THEN @ \cup {Row(s, f)} ELSE @]
    /\ Untouched

NextDir(c) ==
    /\ At(c, "rows", "list") /\ call[c].names = {}
    /\ call' = [call EXCEPT ![c].at = @ + 1, ![c].pc = "names"]
    /\ Untouched

-----------------------------------------------------------------------------
Cli == \E d \in Dirs : (\E line \in CliLines : Writes(d, line)) \/ Stub(d) \/ SubagentWrites(d)

Searches(c) ==
    \/ OpensFile(c) \/ WritesTitle(c)
    \/ ReadsInfo(c) \/ ReadsMessages(c)
    \/ FindsFile(c) \/ Unlinks(c) \/ RemovesAgents(c)

Forks(c) == FindsSource(c) \/ ReadsSource(c) \/ CreatesFork(c) \/ WritesFork(c)

ListsAll(c) ==
    \/ ReadsNames(c) \/ (\E s \in Sessions : ReadsRow(c, s)) \/ NextDir(c) \/ ListReturns(c)

Next ==
    \/ Cli
    \/ \E c \in Callers :
          \/ \E order \in Orders : Begin(c, order)
          \/ Searches(c) \/ Forks(c) \/ ListsAll(c)

Spec == Init /\ [][Next]_vars

-----------------------------------------------------------------------------
Finished == {"ok", "not_found", "no_messages"}

\* What delete_session() removed stays removed until the CLI writes the
\* session again: no rename that was searching, or had the file open, makes
\* the file once more (_try_append() opens without O_CREAT), and its subagent
\* transcripts go with it.
DeletedStaysDeleted ==
    \A d \in gone :
        /\ file[d][Session] = NoFile
        /\ d \in agents => \E c \in Callers : At(c, "unlinked", "delete") /\ Dir(c) = d

\* While no copy comes or goes, rename_session(), get_session_info(),
\* get_session_messages() and fork_session() with the same arguments are about
\* the same file, so a rename is seen by the readers: an empty stub in an
\* earlier project directory stops none of them, and each of them goes on to
\* the worktrees.
SearchesAgree ==
    \A c, r \in Callers :
        /\ call[c].pc \in Finished /\ call[r].pc \in Finished
        /\ call[c].op = "rename" /\ call[r].op \in {"info", "messages", "fork"}
        /\ call[c].order = call[r].order /\ quiet[c] /\ quiet[r]
        => call[c].file = call[r].file

\* rename_session() and the two readers report that a session is not there
\* only if no copy was there from the beginning of the call to its end,
\* whatever was deleted and written meanwhile.
FoundIfThere ==
    \A c \in Callers :
        call[c].pc = "not_found" /\ call[c].op \in {"rename", "info", "messages"}
        => steady[c] = {}

\* A search over the project directories finds what is there, and searches
\* with the same arguments find the same.
SearchesSound == FoundIfThere /\ SearchesAgree

\* list_sessions() shows the title of the last rename that succeeded, whatever
\* directory a caller started from and although there are several copies,
\* unless the CLI has since written another copy, or so much to this one that
\* the title is neither in its tail nor the last one of its head; a copy that
\* begins with a sidechain is never shown.
MostRecentWins ==
    \A c \in Callers :
        At(c, "ok", "list") /\ call[c].want[1] # Nobody =>
            \E r \in call[c].rows : r.session = Session /\ r.title = call[c].want[1]

\* A listing has a row, and one only, for every session of which a copy could
\* be shown throughout: a file that is deleted under the scan, or is empty, or
\* has lost its title to what was written after it, costs nobody else its row.
ListKeeps ==
    \A c \in Callers : At(c, "ok", "list") =>
        /\ \A p \in steady[c] : \E r \in call[c].rows : r.session = p[2]
        /\ \A r, o \in call[c].rows : r.session = o.session => r = o

\* A fork that was reported can be listed, whatever lines its source had.
ForkListed ==
    \A c \in Callers : At(c, "ok", "fork") => Shown(file[Dir(c)][c])

\* A listing is faithful to the directories it reads: the newest copy,
\* nobody left out, forks included.
ListingFaithful == MostRecentWins /\ ListKeeps /\ ForkListed

\* What searches and listings say of the sessions is so, whatever the CLI and
\* the other callers do to the directories under the scan.
ReadersFaithful == SearchesSound /\ ListingFaithful
=============================================================================
