-------------------------------- MODULE Resume --------------------------------
(***************************************************************************)
(* materialize_resume_session(): which session of a SessionStore a resume  *)
(* picks, and what is then in the temporary CLAUDE_CONFIG_DIR: the         *)
(* transcript, the subagents with their sidecars, and the caller's         *)
(* configuration.  What becomes of the directory, and of a call that is    *)
(* cancelled or whose store fails, is in module ClientSession.             *)
(*                                                                         *)
(* The store was filled by the live mirror or by import_session_to_store() *)
(* from the directory of the session, and goes on changing while it is     *)
(* read.  Subpaths are sequences of names.  A sidecar (.meta.json) is      *)
(* absent, corrupt, or an object with the ids of what spawned the          *)
(* subagent.  No two transcripts are of one subagent.                      *)
(***************************************************************************)
EXTENDS Transcript

CONSTANTS
    Plans,      \* what is in the store and in the directories, see Plan
    NoSubpath   \* what the key of a main transcript has for a subpath

NoMeta == [is |-> "none", tool |-> Null, agent |-> Null]
NotText == 9
NoFile == [lines |-> <<>>, meta |-> NoMeta]

MetaEntry(m) == [uuid |-> Null, parent |-> Null, type |-> "agent_metadata",
                 flag |-> "none", meta |-> m]
IsMeta(e) == e.type = "agent_metadata"

Metas(entries) == {i \in DOMAIN entries : IsMeta(entries[i])}

\* Mutant of MetadataOf: the first one counts.
MetadataFirst(entries) ==
    IF Metas(entries) = {} THEN NoMeta ELSE entries[Min(Metas(entries))].meta
\* _split_agent_metadata()
MetadataOf(entries) ==
    IF Metas(entries) = {} THEN NoMeta ELSE entries[Max(Metas(entries))].meta
LinesOf(entries) == Picked(entries, {e \in Range(entries) : ~IsMeta(e)})

\* Where the CLI writes the transcripts of subagents.
IsAgentPath(p) == Len(p) >= 2 /\ p[1] = "subagents" /\ Range(p) \cap {"..", "."} = {}

Host(h) ==
    /\ {h.mac, h.dir, h.env} \subseteq BOOLEAN   \* macOS, CLAUDE_CONFIG_DIR, a key in env
    /\ {h.file, h.keychain} \subseteq {"none", "unreadable", "odd", "refreshable", "access"}
    /\ h.settings \in {"none", "unreadable", "odd", "plain", "plugins", "infinite"}

File(f) ==
    /\ DOMAIN f = DOMAIN NoFile /\ IsSeq(f.lines)
    /\ \A i \in DOMAIN f.lines : ~IsMeta(f.lines[i])

\* The mirror has all that the CLI has written; what an import is to bring is not
\* there yet.
Begun(kept, f, mirrored) ==
    IF mirrored THEN LinesOf(kept) = f.lines /\ MetadataOf(kept) = f.meta
    ELSE kept = <<>>

Plan(p) ==
    /\ p.resume \in p.sessions \cup {Null}      \* else continue_conversation
    /\ p.uuids \subseteq p.sessions              \* ids that are UUIDs
    /\ p.current \in p.sessions \cup {Null}                 \* the session disk is of
    /\ p.others \subseteq p.sessions             \* the ones that others write
    /\ p.mtimes \in [p.sessions -> Nat]
    /\ NoSubpath \notin DOMAIN p.disk /\ (DOMAIN p.disk # {} => p.current \in p.sessions)
    /\ DOMAIN p.shelf = p.sessions \X ({NoSubpath} \cup DOMAIN p.disk)
    /\ IsSeq(p.main) /\ \A k \in DOMAIN p.shelf : IsSeq(p.shelf[k])
    /\ \A q \in DOMAIN p.disk :
           /\ IsSeq(q) /\ File(p.disk[q])
           /\ IsAgentPath(q) => Begun(p.shelf[<<p.current, q>>], p.disk[q], p.mirrored)
    /\ p.types \subseteq {"user", "progress", "system"}   \* of the lines the CLI writes
    /\ {p.lists, p.subkeys} \subseteq BOOLEAN     \* the store has list_sessions(),
                                                 \* list_subkeys()
    /\ p.checkpoints \in BOOLEAN                 \* enable_file_checkpointing
    /\ p.mirrored \in BOOLEAN                    \* the CLI that writes it has a mirror
    /\ \A h \in p.hosts : Host(h)                \* configurations of the caller
    /\ p.entries \in Nat /\ p.deletes \in Nat /\ p.imports \in Nat  \* bounds

ASSUME ResumeAssumption == \A p \in Plans : Plan(p)

VARIABLES
    plan, host,  \* the member of Plans this behaviour is of, and of its hosts
    disk,        \* the files of the subagents, by their subpath
    shelf,       \* the store: entries by session and subpath
    mtimes,      \* the store: the time of the last write of a session
    importer,    \* import_session_to_store(): where it is, subpaths left
    resume,      \* the resume: where it is, candidates or subkeys left, the
                 \* candidate it picked, and whether carried held when it began
    tree,        \* the temporary directory
    done,        \* bound: entries written and sessions done by the CLI and others
    carried,     \* history: the store has all of disk
    steady,      \* history: the candidates that stayed what they began as
    versions     \* history: what the files of disk were since the resume began

resumeVars == <<plan, host, disk, shelf, mtimes, importer, resume, tree, done,
                carried, steady, versions>>

Paths == DOMAIN disk
AgentPaths == {p \in Paths : IsAgentPath(p)}
NoTree == [session |-> Null, main |-> <<>>, files |-> <<>>, credentials |-> "none",
           settings |-> "none"]

ResumeInit ==
    /\ plan \in Plans /\ host \in plan.hosts
    /\ disk = plan.disk /\ shelf = plan.shelf /\ mtimes = plan.mtimes
    /\ importer = [pc |-> "idle", left |-> {}, at |-> <<>>, runs |-> 0]
    /\ resume = [pc |-> "idle", left |-> {}, at |-> <<>>, whole |-> FALSE]
    /\ tree = NoTree /\ done = [writes |-> 0, deletes |-> 0]
    /\ carried = plan.mirrored /\ steady = {} /\ versions = [p \in Paths |-> {disk[p]}]

-----------------------------------------------------------------------------
\* Keys, subpaths and sidecars

MainOf(s) == <<s, NoSubpath>>
KeyOf(p) == <<plan.current, p>>

AppendTo(k, entries) ==
    /\ shelf' = [shelf EXCEPT ![k] = @ \o entries]
    /\ mtimes' = [mtimes EXCEPT ![k[1]] = 1 + Max({mtimes[s] : s \in plan.sessions})]

\* Mutant of IsSafe: only the beginning of the subpath is looked at.
IsSafeAtStart(p) == p # <<>> /\ p[1] \notin {"/", "C:", "..", "."}
IsSafe(p) == p # <<>> /\ p[1] \notin {"/", "C:"} /\ Range(p) \cap {"..", "."} = {}

\* file_path_to_session_key() of the transcript <project>/<session>/<subpath>.jsonl.
FileKey(s, p) == IF Len(p) >= 2 THEN <<s, p>> ELSE <<>>

-----------------------------------------------------------------------------
\* The CLI, its mirror, and others that use the store

WriteCounts ==
    done.writes < plan.entries /\ done' = [done EXCEPT !.writes = @ + 1]

Remembered(p) == versions' = [versions EXCEPT ![p] = @ \cup {disk'[p]}]

\* Also for another CLI that goes on with the session; the mirror keeps up.
CliWrites(p, type) ==
    LET n == Len(disk[p].lines)
        line == [uuid |-> n + 1, parent |-> n, type |-> type, flag |-> "side"]
    IN  /\ plan.mirrored /\ WriteCounts
        /\ disk' = [disk EXCEPT ![p].lines = Append(@, line)]
        /\ AppendTo(KeyOf(p), <<line>>) /\ Remembered(p)
        /\ UNCHANGED <<plan, host, importer, resume, tree, carried, steady>>

\* The sidecar is written again when a subagent is resumed.
CliWritesMeta(p, tool) ==
    LET m == [is |-> "object", tool |-> tool, agent |-> Null]
    IN  /\ plan.mirrored /\ WriteCounts
        /\ disk' = [disk EXCEPT ![p].meta = m]
        /\ AppendTo(KeyOf(p), <<MetaEntry(m)>>) /\ Remembered(p)
        /\ UNCHANGED <<plan, host, importer, resume, tree, carried, steady>>

OthersAppend(s, flag) ==
    /\ s \in plan.others /\ WriteCounts
    /\ AppendTo(MainOf(s), <<[uuid |-> 1, parent |-> Null, type |-> "user", flag |-> flag]>>)
    /\ UNCHANGED <<plan, host, disk, importer, resume, tree, carried, steady,
                   versions>>

OthersDelete(s) ==
    /\ s \in plan.others /\ done.deletes < plan.deletes /\ shelf[MainOf(s)] # <<>>
    /\ shelf' = [shelf EXCEPT ![MainOf(s)] = <<>>]
    /\ mtimes' = [mtimes EXCEPT ![s] = 0]
    /\ done' = [done EXCEPT !.deletes = @ + 1]
    /\ steady' = {c \in steady : c[1] # s}
    /\ UNCHANGED <<plan, host, disk, importer, resume, tree, carried, versions>>

-----------------------------------------------------------------------------
\* import_session_to_store(), a file at a time (module SessionLog has the batches)

ImportBegins ==
    /\ ~plan.mirrored /\ importer.pc = "idle" /\ importer.runs < plan.imports
    /\ importer' = [pc |-> "next", at |-> NoSubpath, runs |-> importer.runs + 1,
                    left |-> {p \in AgentPaths : disk[p].lines # <<>>}]
    /\ AppendTo(MainOf(plan.current), plan.main)
    /\ UNCHANGED <<plan, host, disk, resume, tree, done, carried, steady, versions>>

ImportsFile(p) ==
    /\ importer.pc = "next" /\ p \in importer.left
    /\ importer' = [importer EXCEPT !.pc = "sidecar", !.at = p, !.left = @ \ {p}]
    /\ AppendTo(KeyOf(p), disk[p].lines)
    /\ UNCHANGED <<plan, host, disk, resume, tree, done, carried, steady, versions>>

\* Mutant of Imported: a sidecar is left out.
ImportedNever(m) == <<>>
Imported(m) == IF m.is = "object" THEN <<MetaEntry(m)>> ELSE <<>>

ImportsSidecar ==
    LET m == Imported(disk[importer.at].meta)
    IN  /\ importer.pc = "sidecar"
        /\ importer' = [importer EXCEPT !.pc = "next"]
        /\ IF m = <<>> THEN UNCHANGED <<shelf, mtimes>>
           ELSE AppendTo(KeyOf(importer.at), m)
        /\ UNCHANGED <<plan, host, disk, resume, tree, done, carried, steady, versions>>

\* An append() raised; the import may be run again.
ImportStops ==
    /\ importer.pc # "idle"
    /\ importer' = [importer EXCEPT !.pc = "idle"]
    /\ UNCHANGED <<plan, host, disk, shelf, mtimes, resume, tree, done, carried, steady,
                   versions>>

ImportReturns ==
    /\ importer.pc = "next" /\ importer.left = {}
    /\ importer' = [importer EXCEPT !.pc = "idle"]
    /\ carried' = TRUE
    /\ UNCHANGED <<plan, host, disk, shelf, mtimes, resume, tree, done, steady, versions>>

-----------------------------------------------------------------------------
\* What is copied of the caller's configuration

\* _read_if_present()
Readable(content) == IF content = "unreadable" THEN "none" ELSE content

\* The Keychain stands in for the file only where the CLI would look there.
CredentialsOf(h) ==
    IF h.mac /\ ~h.dir /\ ~h.env /\ Readable(h.keychain) # "none"
    THEN [from |-> "keychain", is |-> h.keychain]
    ELSE [from |-> "file", is |-> Readable(h.file)]

\* Mutant of Redacted: the file is copied.
RedactedNever(c) == c
\* _write_redacted_credentials()
Redacted(c) == IF c.is = "refreshable" THEN [c EXCEPT !.is = "access"] ELSE c

\* _strip_settings_for_resume(); "infinite" has plugins, and a number that
\* cannot be written as JSON again.
Stripped(content) == IF content = "plugins" THEN "plain" ELSE content

-----------------------------------------------------------------------------
\* materialize_resume_session()

IsConversation(entries) == entries # <<>> /\ entries[1].flag # "side"

\* validate_session_store_options(), which raises otherwise.
Valid == (plan.resume = Null => plan.lists) /\ ~plan.checkpoints

\* An id that is no UUID never gets as far as the store.
ResumeBegins ==
    LET listed == {<<s, mtimes[s]>> : s \in {s \in plan.sessions : shelf[MainOf(s)] # <<>>}}
        uuids == {c \in listed : c[1] \in plan.uuids}
    IN  /\ resume.pc = "idle" /\ Valid
        /\ versions' = [p \in Paths |-> {disk[p]}]
        /\ IF plan.resume # Null
           THEN /\ resume' = [resume EXCEPT !.whole = carried, !.pc =
                                IF plan.resume \in plan.uuids THEN "named" ELSE "fresh"]
                /\ steady' = {c \in {<<plan.resume, 0>>} :
                                 c[1] \in plan.uuids /\ shelf[MainOf(c[1])] # <<>>}
           ELSE /\ resume' = [resume EXCEPT !.whole = carried, !.pc = "walking",
                                            !.left = uuids]
                /\ steady' = {c \in uuids : IsConversation(shelf[MainOf(c[1])])}
        /\ UNCHANGED <<plan, host, disk, shelf, mtimes, importer, tree, done, carried>>

\* mkdtemp(), the transcript and _copy_auth_files(), without an await.  What is
\* left of settings.json when it cannot be written is removed again.
Writes(c, entries) ==
    /\ \E settings \in {"none", Stripped(Readable(host.settings))} :
          tree' = [tree EXCEPT
                     !.session = c[1], !.main = entries,
                     !.files = [p \in Paths |-> NoFile],
                     !.credentials = Redacted(CredentialsOf(host)),
                     !.settings = settings]
    /\ resume' = [resume EXCEPT !.at = c, !.left = {},
                                !.pc = IF plan.subkeys THEN "subkeys" ELSE "ready"]

LoadsNamed ==
    LET entries == shelf[MainOf(plan.resume)] IN
    /\ resume.pc = "named"
    /\ IF entries = <<>> THEN resume' = [resume EXCEPT !.pc = "fresh"] /\ UNCHANGED tree
       ELSE Writes(<<plan.resume, 0>>, entries)
    /\ UNCHANGED <<plan, host, disk, shelf, mtimes, importer, done, carried, steady,
                   versions>>

\* Mutants of IsCandidate and IsNext.
IsCandidateIfAny(entries) == entries # <<>>
IsNextAny(c) == TRUE

IsCandidate(entries) == IsConversation(entries)
IsNext(c) == \A d \in resume.left : d[2] <= c[2]

\* _resolve_continue_candidate(), from the newest to the oldest.
LoadsCandidate(c) ==
    LET entries == shelf[MainOf(c[1])] IN
    /\ resume.pc = "walking" /\ c \in resume.left /\ IsNext(c)
    /\ IF IsCandidate(entries) THEN Writes(c, entries)
       ELSE resume' = [resume EXCEPT !.left = @ \ {c}] /\ UNCHANGED tree
    /\ UNCHANGED <<plan, host, disk, shelf, mtimes, importer, done, carried, steady,
                   versions>>

NoCandidate ==
    /\ resume.pc = "walking" /\ resume.left = {}
    /\ resume' = [resume EXCEPT !.pc = "fresh"]
    /\ UNCHANGED <<plan, host, disk, shelf, mtimes, importer, tree, done, carried,
                   steady, versions>>

\* _materialize_subkeys()
ListsSubkeys ==
    /\ resume.pc = "subkeys"
    /\ resume' = [resume EXCEPT !.pc = "files",
                    !.left = {p \in Paths : shelf[<<tree.session, p>>] # <<>>}]
    /\ UNCHANGED <<plan, host, disk, shelf, mtimes, importer, tree, done, carried,
                   steady, versions>>

LoadsSubkey(p) ==
    LET entries == shelf[<<tree.session, p>>] IN
    /\ resume.pc = "files" /\ p \in resume.left
    /\ resume' = [resume EXCEPT !.left = @ \ {p}]
    /\ IF IsSafe(p)
       THEN tree' = [tree EXCEPT !.files[p] = [lines |-> LinesOf(entries),
                                               meta |-> MetadataOf(entries)]]
       ELSE UNCHANGED tree
    /\ UNCHANGED <<plan, host, disk, shelf, mtimes, importer, done, carried, steady,
                   versions>>

Materialized ==
    /\ resume.pc = "files" /\ resume.left = {}
    /\ resume' = [resume EXCEPT !.pc = "ready"]
    /\ UNCHANGED <<plan, host, disk, shelf, mtimes, importer, tree, done, carried,
                   steady, versions>>

-----------------------------------------------------------------------------
ResumeNext ==
    \/ \E p \in AgentPaths :
          \/ \E type \in plan.types : CliWrites(p, type)
          \/ \E tool \in plan.tools : CliWritesMeta(p, tool)
          \/ ImportsFile(p)
    \/ \E p \in Paths : LoadsSubkey(p)
    \/ \E s \in plan.sessions :
          (\E flag \in {"none", "side"} : OthersAppend(s, flag)) \/ OthersDelete(s)
    \/ ImportBegins \/ ImportsSidecar \/ ImportStops \/ ImportReturns
    \/ ResumeBegins \/ LoadsNamed \/ NoCandidate \/ ListsSubkeys \/ Materialized
    \/ \E c \in resume.left : LoadsCandidate(c)

-----------------------------------------------------------------------------
\* get_subagent_messages(): from a file and its sidecar, and from the store.

\* _parent_ids_from_agent_metadata()
ParentIds(m) ==
    LET Text(x) == IF x = NotText THEN Null ELSE x
    IN  IF m.is = "object" THEN <<Text(m.tool), Text(m.agent)>> ELSE <<Null, Null>>

ReadAs(lines, m) ==
    IF SubagentMessages(lines) = <<>> THEN <<>>
    ELSE <<SubagentMessages(lines), ParentIds(m)>>
ReadFile(f) == ReadAs(f.lines, f.meta)
ReadFromStore(entries) == ReadAs(LinesOf(entries), MetadataOf(entries))

Ready == resume.pc = "ready"

(***************************************************************************)
(* continue_conversation resumes the session that was written last: no     *)
(* conversation that was there all along is passed over for an older one,  *)
(* for a subagent's transcript or for a fresh session, whatever is written *)
(* and deleted while the candidates are loaded.  An id that is given, and  *)
(* is a UUID, is resumed if the store has entries of it all along.         *)
(***************************************************************************)
ResumesNewest ==
    /\ resume.pc = "fresh" => steady = {}
    /\ tree.session # Null =>
           /\ tree.session \in plan.uuids
           /\ IF plan.resume # Null THEN tree.session = plan.resume
              ELSE /\ IsConversation(tree.main)
                   /\ \A c \in steady : c[2] <= resume.at[2]

\* Where a subpath leads to, read as the file system would.
Depth(p, i) ==
    LET ups == {j \in 1..i : p[j] = ".."}
    IN  Cardinality({j \in 1..i : p[j] # "."} \ ups) - Cardinality(ups)
Outside(p) ==
    \/ p = <<>> \/ p[1] \in {"/", "C:"} \/ Depth(p, Len(p)) < 1
    \/ \E i \in DOMAIN p : Depth(p, i) < 0

(***************************************************************************)
(* A subagent reads the same from the caller's files, from the store and   *)
(* from the temporary directory, its messages and the ids of what spawned  *)
(* it, whether the mirror or an import, also one that was run again, has   *)
(* carried it there; of a subagent that is written meanwhile the directory *)
(* has some state that it has been in.  Nothing is written outside of the  *)
(* session's directory, and the mirror of the resumed CLI finds for every  *)
(* transcript the key that it was loaded from.                             *)
(***************************************************************************)
SubagentsCarried ==
    /\ carried /\ importer.pc = "idle" =>
           \A p \in AgentPaths :
               ReadFromStore(shelf[KeyOf(p)]) = ReadFile(disk[p])
    /\ tree.session # Null => \A p \in Paths : tree.files[p] # NoFile =>
           ~Outside(p) /\ (p \in AgentPaths => FileKey(tree.session, p) = <<tree.session, p>>)
    /\ Ready /\ plan.subkeys /\ resume.whole /\ tree.session = plan.current =>
           \A p \in AgentPaths : \E f \in versions[p] :
               /\ ReadFile(tree.files[p]) = ReadFile(f)
               /\ tree.files[p].lines = <<>> <=> f.lines = <<>>

\* The account a CLI uses: of a key in its environment, of the Keychain, which
\* only a CLI without CLAUDE_CONFIG_DIR finds, or of its credentials file.
Account(h, keychain, file) ==
    CASE h.env                        -> "env"
      [] ~h.env /\ keychain # "none"  -> "keychain"
      [] OTHER                        -> file

(***************************************************************************)
(* The resumed CLI uses the account that the caller's own would, without a *)
(* refresh token of it that it could use up, and without the plugins of    *)
(* the caller's settings, unless these cannot be written as JSON again.    *)
(* A caller on macOS with a CLAUDE_CONFIG_DIR of its own is left aside:    *)
(* where its CLI looks in the Keychain the SDK does not.                   *)
(***************************************************************************)
ConfigurationCarried ==
    tree.session # Null =>
        LET keychain == IF host.mac /\ ~host.dir THEN Readable(host.keychain) ELSE "none"
            copy == tree.credentials
        IN  /\ copy.is # "refreshable"
            /\ ~host.env =>
                   Account(host, "none", IF copy.is = "none" THEN "none" ELSE copy.from)
                   = Account(host, keychain,
                             IF Readable(host.file) = "none" THEN "none" ELSE "file")
            /\ tree.settings # "plugins"

(***************************************************************************)
(* What a resumed CLI finds in its directory is what its caller's would    *)
(* have found in the caller's.                                             *)
(***************************************************************************)
ResumeFaithful == SubagentsCarried /\ ConfigurationCarried
=============================================================================
