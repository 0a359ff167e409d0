# Verification of the Claude Agent SDK for Python

TLA+ models of the parts of `claude_agent_sdk` that run concurrently, fail half
way, or keep state that two of its parts must agree on; TLC runs that check
them on small instances; and TLAPS proofs of the most important invariants.
Source paths below are relative to `src/src/claude_agent_sdk/`; `PROJECT.json`
maps each definition to its lines.

## 1. The system

The SDK starts the Claude Code CLI as a child process and speaks with it in
JSON lines over stdin and stdout. It runs on one event loop (asyncio, or trio
through anyio), so the unit of interleaving is what a task does between two
awaits.

| Component | State | Operations | What is hard |
|---|---|---|---|
| **Transport** (`_internal/transport/subprocess_cli.py`) | the process, the write lock, the stdin stream, `_ready`, `_exit_error`, the module's `_ACTIVE_CHILDREN` | `connect`, `write`, `end_input`, `read_messages`, `close`, the exit handler | chunks that end anywhere, a writer blocked on a full pipe, `close()` racing the reader and the writers, cancellation, the interpreter exiting |
| **Query** (`_internal/query.py`) | tables of outgoing and incoming control requests, a bounded message stream, flags and events of the stdin life cycle | the read loop, control requests in both directions with timeouts and cancellation, `stream_input`, `receive_messages`, `close` | late answers, a full stream, errors that have to reach everyone, when stdin may be ended |
| **Mirror batcher** (`_internal/transcript_mirror_batcher.py`) | the pending buffer, a lock, detached batches | `enqueue`, `flush`, `close`, eager drains | retries, timed-out appends that land later, several drains |
| **SDK MCP bridge** (`_internal/sdk_mcp_bridge.py`, `_mcp_compat.py`) | the current session, its table of waiting requests, the streams | `handle`, `aclose`, the session's tasks | reused ids, sessions that end or are replaced, tools that cannot be cancelled |
| **Session store and listing** (`_internal/session_store.py`, `session_summary.py`, `sessions.py`) | transcripts, modification times, summary sidecars | `append`, `load`, `delete`, the listings; `fold_session_summary` | a listing reads in several awaited steps; two ways to derive the same summary |
| **Store adapters** (`examples/session_stores/` for S3, Redis and Postgres; `testing/session_store_conformance.py`) | objects named by time, lists with their index sets, rows with a sequence number; the clock of an adapter object | `append`, `load`, `list_sessions`, `delete`, `list_subkeys`, each some requests to a backend | requests of several callers interleave, fail half way, and are paged |
| **Calls through a store** (`_internal/session_mutations.py`, `sessions.py`: `*_via_store`, `*_from_store`) | none | rename, tag, delete, fork; read a session, a subagent, the listings | a fork reads and then writes; a deletion meets a mirror |
| **Client** (`client.py`, `_internal/client.py`) | `_query`, `_transport`, `_materialized` | `connect`, `disconnect`, `receive_messages`, `receive_response`, `query()` | failure and cancellation at every await; several tasks; what is released and in which order |
| **Message parser** (`_internal/message_parser.py`, `types.py`) | none | `parse_message` | a message that is refused ends the iteration it is met in |
| **Resume** (`_internal/session_resume.py`, `session_store_validation.py`) | a temporary configuration directory with a copy of the credentials | `materialize_resume_session` | the store changes while it is read; what the store says is not to be trusted with paths |
| **Transcripts** (`_internal/sessions.py`, `session_mutations.py`, `session_import.py`) | the lines of a session, on disk and in a store | the conversation chain, subagent chains, forks, imports | branches, lines that are not shown, repeated and late lines |
| **Session files** (`_internal/session_mutations.py`, `sessions.py`) | project directories with transcript files | `rename_session`, `tag_session`, `delete_session`, `fork_session`, `get_session_info`, `get_session_messages`, `list_sessions` | no lock; several programs and the CLI change the same directories |

How they interact. `ClaudeSDKClient` and `query()` own a transport and a
`Query`; the read loop of `Query` takes frames from the transport and routes
them: answers to waiting requests, requests of the CLI to handler tasks (one of
them the MCP bridge), transcript frames to the mirror batcher, everything else
into the message stream, from which the client takes them through the parser.
The batcher appends to a `SessionStore`. The listing, import, fork and resume
functions read and write the same stores, or the transcript files the CLI
writes. A resume copies a session from the store into the directory the next
CLI runs on, whose mirror then appends to the same keys.

What makes each part correct:

- *Transport*: one line at a time and nothing behind a torn line; no orphaned
  child; the end of stdin before any signal; an exit error only if the child had
  one; messages and lines whole, wherever a chunk ends; `close()` returns and
  releases whoever is blocked.
- *Query*: no answer to the wrong request; one and the same error for all; no
  message lost, repeated or reordered; the store is up to date when a result is
  seen; stdin is open as long as the CLI can still ask; everything ends.
- *Batcher*: a flush is a barrier; every frame is held once; order; each loss is
  reported.
- *Bridge*: a response goes to its own request; nobody waits for what cannot
  come; after `aclose()` nothing is served.
- *Store*: summaries are those of the whole transcript; a listing is neither
  stale nor incomplete.
- *Adapters*: each is a log per key as long as calls do not overlap; when they
  do, nothing acknowledged is lost, doubled, torn or read out of order.
- *Client*: whatever fails, the process goes before its directory, and both go;
  a response is one whole turn.
- *Parser*: what is given out has every field its class declares.
- *Resume*: the newest conversation is picked; its subagents and the account are
  the caller's own, a refresh token is not copied, no path leads out.
- *Transcripts*: the newest branch is shown; forks and copies show the same.
- *Files*: what was deleted stays deleted; what is there is found; the last
  rename wins as long as it is within the windows of a listing.

## 2. Modules

| Module | Models | Uses |
|---|---|---|
| `MirrorContract` | what the mirror promises: frames go live, and are settled or reported | |
| `MirrorBatcher`, `MCMirrorBatcher` | the batcher in detail | refines `MirrorContract` |
| `MirrorBatcherProofs` | its theorems: where the frames are, the barrier of a flush, what is written and reported, the contract; sums over finite sets | `MirrorBatcher` |
| `Query`, `MCQuery` | the read loop, the control protocol, the stream, stdin, `close()` | the mirror as `path`, `outstanding`, `calling`, `horizon`, the variables of the contract |
| `QueryProofs` | its theorems | `Query` |
| `SubprocessTransport` | the child process and its stdin | |
| `CliOutput`, `MCSubprocessTransport` | chunks of stdout and stderr made lines and messages again | `SubprocessTransport` |
| `SubprocessTransportProofs` | the theorems of both; inductions over texts | `CliOutput` |
| `McpBridge`, `MCMcpBridge` | the bridge, its sessions, an external server | |
| `McpBridgeProofs` | its theorems | `McpBridge` |
| `SessionSummary` | the two derivations of a summary, as functions of a transcript | |
| `SessionStore` | the in-memory store and a listing beside appends and deletions | `SessionSummary` |
| `StoreContract` | what a store promises, the assertions of the conformance suite: a log per key | |
| `StoreCalls` | the callers of a store, their programs, and what they are owed | |
| `S3SessionStore`, `RedisSessionStore`, `PostgresSessionStore` | the adapters, a request to the backend at a time | `StoreCalls` |
| `SessionStores`, `MCSessionStore` | one of the four stores with its callers; refines `StoreContract` | `SessionStore`, the adapters |
| `SessionStoreProofs` | theorems about the in-memory store, the store for Redis and the contract of both | `SessionStores` |
| `MessageParser` | the classes of messages, what is refused and what is skipped | |
| `ClientSession`, `MCClientSession` | a client with two tasks, or a `query()`, with its processes, its directories and its messages | `MessageParser` |
| `ClientSessionProofs` | its theorems | `ClientSession` |
| `Transcript` | conversation, subagent chain and fork, as functions of a transcript | |
| `SessionLog` | the file, the mirror and the import that copy it to a store | `Transcript` |
| `Resume` | a store that is written and imported to, and what a resume makes of it | `Transcript` |
| `SessionCopies`, `MCSessionLog` | either of the two | `SessionLog`, `Resume` |
| `SessionCopiesProofs` | lemmas: what is picked, paths to a root, copies that read alike, conversations and forks; its theorems | `SessionCopies` |
| `SessionFiles`, `MCSessionFiles` | the session calls over shared project directories | |
| `SessionFilesProofs` | its theorems | `SessionFiles` |

The MC modules only hold values for TLC. No module declares a recursive
operator: what is picked of a transcript and the chain of an entry are recursive
functions, so every module can be proved about.

### How the models read

One action is what a task does from one await to the next, and is named for it
(`MirrorBatcher!Drain` is `_drain()` up to the lock, `Coalesce` what it does
with the lock up to the first `append`). Program counters (`pc`, `rpc`, `kpc`,
...) say at which await a task is. Python attributes keep their names without
the underscore. Comments mark history variables, which no guard reads.

- **MirrorBatcher.** `_pending` and the detached lists are sets of frame
  numbers, because they only grow at the end. `lockq` is the FIFO of
  `anyio.Lock`. `store` records every write an append made, also a partial one
  and one that lands after its timeout (`late`, `Land`).
- **Query.** What the reader takes from `read_messages()` is chosen when it
  reads, among the frames that a CLI in that state can have sent (`cli`). The
  batcher appears by its contract; `close()` is followed step by step.
  A session's `setup` says who takes part and which events may happen in it.
- **SubprocessTransport.** `proc` and `signal` are the child, `pipe` and `lines`
  what reached its stdin. A blocked write is a writer that stays in `sending`.
  The fairness of the lock is left out: any waiter may get it.
- **CliOutput.** `given` is all that the CLI writes to one of its two streams;
  `Push` is one chunk of it. A behaviour is either of the process and its stdin
  or of what is read: to the process, `StdoutEnds`, `StdoutUnreadable` and
  `ReaderCancelled` are all that the text can do. JSON is reduced to braces around
  text; white space counts, because stripping a chunk is the error to make.
- **McpBridge.** Each `handle()` call is a handler with a slot (`outcome`);
  `table` is `_pending` of each session. The server reads, answers, asks and
  stops when it likes.
- **SessionStore.** A method of the store has no await and is one action; the
  listing has one per call it makes. Entries are functions from the JSON keys
  the code looks at; `HeadLen` and `TailLen` entries fit the 64 KiB windows.
- **StoreCalls and the adapters.** `call[c]` is the method a caller is in and how
  far it has got; an adapter's action is one request (`S3ListsParts` a page of
  `ListObjectsV2`, `RedisPushes` one `MULTI`, `PgDraws` and `PgCommits` the two
  halves of an `INSERT`, whose sequence number is drawn before it is visible).
  `made`, `acked`, `atRisk` and `crossed` are the history the properties judge by.
  A fault lets a request fail, done or not.
- **ClientSession.** `client` holds the three attributes; their values are the
  numbers of the connections they came from, so that a value that was replaced
  can be told from one that is still the task's own. Every await has the faults
  of its setup; anyio cancellation stays until the scope is left and is held off
  by shields, raw asyncio cancellation comes once and is not. `cut` is the
  history of why a connection need not be closed in order: its set-up failed once
  the CLI ran ("setup"), a raw cancellation hit `close()` ("raw_cancel"), a second
  `connect()` replaced it ("replaced"), or another's `disconnect()` took it
  ("taken"). `EndReleases` promises nothing of these connections.
- **MessageParser.** A message is its type, its subtype and the set of the fields
  it has; a value is only there or not.
- **Resume.** A subpath is the sequence of its names, so that `..` is one; a
  sidecar is absent, corrupt, or an object with the ids of what spawned the
  subagent. `settings` stands for every configuration file that is stripped or
  copied. `versions` and `steady` are history.
- **Transcript.** A transcript is the sequence of its lines with a uuid. `user`
  stands for `assistant`, `system` for `attachment`.
- **SessionFiles.** A call visits its directories in an order that is part of
  the call (its own directory first, or the order of `iterdir()`), one system
  call at a time; an open file survives the removal of its name. A listing looks
  at the lines in `window` only, the 64 KiB at the head and at the tail of a file:
  the title it shows is the last one of the tail, or else of the head, and a file
  that begins with a sidechain is not shown. So a title may go out of sight, and
  `latest`, the last rename, is what `MostRecentWins` asks for until it does.

## 3. Runs

The runs take between a second and three minutes. Related properties are stated
part by part, each with its own comment, and checked as one conjunction
(`FramesAccounted == HeldOnce /\ PendingBounded /\ DedupedOrder /\ LossAccounted`).
Every property has a mutant of the code (a definition with the comment "Mutant
of X") under which TLC finds it violated; `TypeOK` of the batcher and of the
transport is proved instead, and the stores, the client, the transcripts and the
files state none of their own.

| Run | Checks |
|---|---|
| `mirror` | `FramesAccounted`, `FlushBarrier`, `NoCopyAfterAck`, `ImplementsContract`, `DrainsEnd` |
| `query_safety` | `TypeOK`, `TablesMatch`, `ErrorsFaithful`, `StreamConserved`, `MirrorAhead`, `InputKept` |
| `query_live` | `EverybodyReturns` |
| `transport` | `StdinSound`, `ChildTracked`, `CloseOrderly`, `OutputExact`, `CloseReleases` |
| `bridge_safety` | `OwnResponse`, `NoneStranded`, `NoStrayServer` |
| `bridge_live` | `NobodyWaits` |
| `store` | `SidecarExact`, `PagesAgree`, `ListingTrue`, `ImplementsContract`, `ReadsTrue`, `DeletesTrue`, `ListsTrue` |
| `client` | `DirOutlivesProcess`, `EndReleases`, `CallsEnd`, `ResponsesWhole`, `TypedMessages` |
| `log` | `NewestShown`, `ForkFaithful`, `CopiesReadAlike`, `ResumesNewest`, `ResumeFaithful` |
| `files` | `DeletedStaysDeleted`, `ReadersFaithful` |
| `client_setup` | `SpawnedIsClosed` (violated) |
| `mirror_memory` | `MemoryFlat` (violated) |

What they ask, and within which bounds:

| Run | Question | Bounds |
|---|---|---|
| `mirror` | order, duplicates, losses and their reports, the flush barrier, frames held once, the refinement of the contract; flushes return and an over-full buffer is sent | 2 frames of 4 kinds, 2 flushing tasks, an eager drain, 2 attempts; fairness |
| `query_safety` | control requests: tables, errors, fail fast; the stream and the mirror; requests of the CLI and the end of stdin | three sessions: 2 outgoing requests and a stream of 1; 3 frames, 2 prompts, a stream of 2; 1 request and 2 background tasks of the CLI |
| `query_live` | requests, consumer and `close()` end, and so does stdin | two sessions: 2 frames, a stream of 1 and a request of the consumer; 1 request and 1 task that wakes the CLI late; fairness |
| `transport` | lines, lock, child, signals, exit error; `close()` returns and releases the blocked; what is read does not depend on the chunks | 2 writers, raw cancellation; every text of up to 5 characters with limits of 1 to 3; fairness |
| `bridge_safety` | responses and reused ids, sessions that end and are replaced, `aclose()` | 2 handlers, 2 ids, 2 sessions, both kinds of servers |
| `bridge_live` | `aclose()` returns, nobody waits for a stopped server, a server that asks is answered | 2 handlers, 1 id; fairness |
| `store` | in memory: fold and file parse agree, sidecars are exact and never short-page, rows are fresh and complete while the store changes; adapters: the contract while calls do not overlap, and what reads, deletions and listings keep when they do | three workloads: every transcript of up to 3 entries of 14 kinds; 2 sessions with a subagent, 2 entries each; a listing of 2 sessions, one without sidecar, with failing loads. Three adapters in three setups: one caller with 4 methods of 3 entries; two writers, of one adapter object or two, with failing requests, and a fork; deletions of a session and a subpath beside appends, 4 methods, pages of 1 or 2 |
| `client` | what is released after any fault or cancellation, by two tasks on two connections; calls end; responses are whole turns; messages have their fields | seven setups: one task with all faults; two tasks with held files, with cancellations, with failing connects; two tasks that receive, a `query()` that does; every message and block that lacks one field; 2 connects; fairness |
| `log` | the conversation shown, what forks show, what the store shows, imports heal gaps, subagents; what a resume picks and carries | three settings: every transcript of up to 4 lines of 6 kinds with any branches; 3 lines of 2 kinds mirrored and imported twice; 4 lines of a subagent. Plans of a resume: 3 sessions with 4 appends and a deletion; 2 subagents with 3 writes of a mirrored CLI; 48 states of two subagents imported up to twice; every configuration of the caller with unsafe subpaths |
| `files` | deleted stays deleted, what is there is found, calls agree on the copy, the last rename that is in sight wins, listings keep what stays, forks can be listed | 2 directories, 3 files, 3 calls in five plans, 2 writes of the CLI, of a prompt, a meta line or a sidechain's; windows of 1 line at the tail and 1 or 2 at the head |
| `client_setup` | **violated**: a connect that fails after the spawn closes the process | the set-up fault only |
| `mirror_memory` | **violated**: memory stays flat during long turns | 4 frames, 3 eager drains |

A run of several sessions, workloads, setups, settings or plans chooses one of
them in the initial state and keeps it (`cli.setup` of `Query`, `workload` of
`SessionStore`, `setup` of `StoreCalls`, `ClientSession` and `SessionLog`,
`plan` of `Resume`, the operations of `call` in `SessionFiles`); each is set up
for one question, so that the state space is their sum and not their product.

Why the bounds are enough. The interesting cases need two or three actors: a
drain behind a drain behind a slow append; a request whose answer, timeout and
reader failure meet; a writer that holds the lock, one that waits, and
`close()`; a session that is replaced while its predecessor is closed. Streams,
buffers and windows are as small as the code's logic allows, so that "full",
"over the threshold" and "outside of the window" happen within the bound.
Transcripts of four lines have every shape of branch, sidechain and skipped
tip that the chain code tells apart. Adapters are told apart by two entries on
either side of a page or of a deletion, and a third that overlaps with it; a
message by the one field it lacks; a walk over candidates by a session that is
written, one that is deleted and one that is a subagent's while it goes on. The
mutants show that each property is
within reach of its bounds. The bridge's own requests to the client (`Asks`) are
left to `bridge_live`, where they can block somebody. Deadlock is checked where the system never stops;
`CHECK_DEADLOCK FALSE` is given where it ends (a closed client, finished calls,
bounded histories).

### Fairness

- *Event loop* (`MirrorBatcher`, `Query`, `McpBridge`, `SubprocessTransport`): a
  task that can go on does so in the end; weak fairness per task. An awaited
  call of the adapter is bounded by its timeout, so it returns or times out.
- *Timeouts*: `fail_after` and `move_on_after` expire (the code's own clocks).
- *The CLI* of the transport is only assumed to end after SIGKILL; it may never
  read and ignore SIGTERM. In `query_live` (`SessionFairness`) it also starts
  the turns it owes and ends them, settles its tasks, answers or lets a request
  time out, and ends its output once it is dead, or idle with stdin closed;
  callbacks return and the stream of prompts ends. None of it is the SDK's to
  enforce: stdin is held open for a CLI that runs a turn for ever.
- *The MCP server* need not answer, end or react to cancellation.
- *ClientSession*: weak fairness of each task's own steps; nobody has to iterate
  or to disconnect. Loads are bounded by `load_timeout_ms`, the handshake by the
  initialize timeout, removal by its number of retries. Faults and
  cancellations are never fair.

### Findings

Two runs show the code doing something else than a document or comment says;
`PROJECT.json` quotes the lines.

1. `client_setup` (`client.py:166`): a failure between the spawn and the
   creation of `Query` leaves the CLI running without its directory.
2. `mirror_memory` (`transcript_mirror_batcher.py:94`): eager drains detach
   without limit while one append is slow.

Further divergences, met while modelling, for which no run is kept:

- `is_ready()` stays true after the CLI has exited and its output has ended
  (`subprocess_cli.py:1189`), where the interface says "ready to send/receive".
- A sidecar knows all entries of a transcript, the file parser only the first
  and last 64 KiB (`sessions.py:1769`), although disk and store are said to give
  identical results; `PathsAgree` is stated for transcripts within the windows. Within
  them, a last branch that is empty hides the earlier ones from the sidecar only, and
  a first timestamp that cannot be parsed, or a first directory that is empty, the
  later ones from the parser only.
- Catching up an adapter that ignores known uuids, as `session_import.py:41-44`
  recommends, appends a gap behind newer lines, and an abandoned branch may then
  be shown; `ImportHeals` is about adapters that append what they are given.
- Without its progress lines a fork may show another branch than its source if
  the conversation ends in a meta line (`session_mutations.py:392`), and a
  sidechain newer than such a conversation hides it (`sessions.py:994`);
  `TipShown` leaves these transcripts aside.
- "`list_sessions` reads the LAST custom-title from the file tail, so repeated calls
  are safe — the most recent wins" (`session_mutations.py:60`). Once 64 KiB of
  further lines follow a rename, its title is not in the tail: the listing, and
  `get_session_info()`, then show the last title of the head, which may be an older
  one, or the prompt, or leave out a session that has neither in sight
  (`sessions.py:441-461`). `MostRecentWins` and `ListKeeps` say what holds instead:
  both end when the line goes out of sight. With `latest` kept until another copy is
  written, which is the claim of the docstring, TLC finds a rename between two lines
  of the CLI after which the listing has a row without the title.
- `parse_message` is said to raise on a type it does not know
  (`message_parser.py:61`), but skips it (`:391`); `ResponsesWhole` holds because
  it does.
- The `SessionStore` protocol asks adapters to treat an entry's uuid as an
  idempotency key (`types.py:1621`); neither the in-memory store nor the
  three examples do, and the conformance suite does not ask. A batch that is sent
  again after a timeout is stored twice, and the readers, which go by uuid, show
  it once (`CopiesReadAlike`).
- Across processes the order of entries is to be that of their commits
  (`types.py:1618`); the S3 example orders them by the clocks of the
  processes, as its own README says (`examples/session_stores/README.md:63`).
  `Ordered` asks for the order of one adapter object only.
- A `continue` for which the store has nothing is said to be a fresh session
  (`session_resume.py:140`); the options go to the CLI unchanged, `--continue`
  among them (`subprocess_cli.py:629`), which looks in the caller's own directory.
- `list_subagents_from_store()` names a subagent of which the store has only a
  sidecar, `list_subagents()` does not.

## 4. Proofs

`MirrorBatcherProofs` (any files, tasks, thresholds, attempts and bounds, under
the assumptions named in `MirrorBatcher`):

- `TypeCorrect`: `Spec => []TypeOK`.
- `FlushBarrierHolds`, `HeldOnceHolds`. Neither is inductive: that a drain which
  has left the lock leaves nothing older behind depends on what the drains
  before it in the queue hold. `IInv` adds where every live frame is
  (`Located`: pending, or held by one drain), that only drains in the lock
  section hold frames (`Owned`), that the lock queue is without repetition and
  in line with the program counters (`LockQueue`), that pending frames are newer
  than every horizon (`PendingNewer`), and that drains hold older frames than
  those behind them (`QueueOrder`). `Invariance` proves it inductive, with one
  lemma per action; TLC checked `IInv` before it was proved.

The second half of the module goes on from there to the store: `OrderHolds`, `LossesKnown`,
`PendingHolds`, together with `HeldOnce` the property `FramesAccounted`
(`FramesAreAccounted`); `NoCopies`; and `Implements`, the refinement of
`MirrorContract` under the mapping that TLC checks. `StoreInv` is `IInv` and

- `HeldLive`: what is pending, or held by a drain that has not come to its file
  yet, is live. The drain that sends holds the lock, so nobody else can settle
  its frames.
- `LateTimedOut`: an append that can still land is one that timed out.
- `SettledOlder`: the frames of a file are settled in their order.
- `StoredUnder`: a partial write of live frames is a beginning of what is live
  of its file; so a retry writes nothing in front of what is there.
- `DedupedOrder` and `LossAccounted` themselves.

For the refinement, each action of the batcher is a step of the contract
(`Accept`, `Settle`, `CallFlush`, `ReturnFlush`) or leaves the mapped variables alone;
`FlushBarrier` is what `ReturnFlush` needs. `PendingHolds` is about sums over the buffer, which
are recursive in the community modules. The first lemmas of the module prove what they need by
the least counterexample: a set of naturals that is not empty has a least member
(`LeastNat`), which is induction over numbers without a theorem that takes an operator.

`QueryProofs` (any requests, incoming calls, tasks, sessions and bounds): one
theorem for each property of `query_safety`: `TypeCorrect`, `TablesCorrect`,
`StreamCorrect`, `MirrorCorrect`, `InputCorrect`, `ErrorsCorrect`. None of the six
is inductive, the types neither: that a call returns with an outcome rests on
its result being in the table. `IInv` has a part for each pair of tasks that
rely on each other:

- `TablesInv`: a call that has not begun has no entry, only one that is over has
  an outcome.
- `MirrorInv`: once `close()` has begun the mirror takes no frame, so the flush
  of `close()` covers all of them; a result in the reader's hand was flushed for
  (`Barrier`: no older frame is outstanding), and stays so in the stream and
  with the consumer because a settled frame is never taken up again.
- `HandInv`, `StreamConserved`: what the reader holds is the next message of the
  stream; what was delivered and what waits are the routed messages in order.
- `ErrorInv`: while the reader runs, `_last_error_result` says whether the last
  message routed that is no marker is an error result. From then on there is one
  error, and the hand, the stream, the consumer and the callers have the same.
- `InputInv`: the reader's set of tasks is the CLI's; with one prompt there is one
  turn at a time (`OneTurn`), and a CLI between a result and the last task has no
  request open, so whoever ends stdin ends it after the CLI's last need.

Steps are split by what they change: a frame lemma says which actions change a
group of variables, an effect lemma what they do to a queue or a record (it
grows at one end, the CLI keeps these fields), and each part is then kept by the
few actions that can disturb it. TLC checked `IInv` on the sessions of
`query_safety` first.

`SubprocessTransportProofs` (any number of writers): `TypeCorrect`, `NoOrphans`,
`StdinStaysSound` (one sender, whole lines) and `CloseKeepsOrder` (the end of
input before signals, an exit error only of the child's own).
The strengthening relates the flags to the pipe: after a torn line the transport
is not ready and no writer is sending; `attached`, `tracked`, `ready` and the
position of `close()` agree; a signal comes only at positions of `close()` after
stdin was ended. It is proved in three step lemmas (types, lines, child).
`OutputApart` carries these theorems to `CliSpec`, where the process also has
output.

`OutputIsExact` is about that output: for every text, every limit and every way
to cut the text into chunks, the messages of stdout and whether it fails are a
function of the text, and the callback of stderr gets its lines. `OutputExact`
speaks of readers at their ends; `OutInv` says it of readers on their way:

- The framer's count is the length of its tail (`OutTyped`), so that a limit on
  the count is one on the tail.
- Of stdout (`OnItsWay`), what was yielded, the lines not handled and the tail make
  the lines of what was received, and the lines that were handled have no fault:
  the first fault of the whole text is thus ahead, or in a line still growing
  (`FirstGrows`: a line gets no shorter by the text that follows it).
- Of stderr (`KeptSoFar`), the characters that are not white are with the callback
  or still in hand, in order; with no line above the limit, so are the lines.

The lemmas say how the lines of a text come from those of its parts (`LinesCat`),
that lines lose no character (`DenseLines`), and that `FlattenSeq` distributes over
`\o` (`FlatAppend`, `FlatCat`). They need inductions over sequences, which are taken
from `Climb` and `SeqClimb`: a set of sequences that has the empty one, and with
each all those that are one longer, has all. TLC checked `OutInv` on the texts of
the run `transport` first.

`McpBridgeProofs` (any handlers, ids and sessions; servers that can take
cancellations or not, that ask their client or not): `TypeCorrect`,
`ResponsesAreOwn`, `NobodyIsStranded`, `ServersAreStopped`. None but the first is
inductive. That a handler gets its own response depends on where every message
is: `IInv` says that it is in one place at most (`OnceInFlight`: on the way to
the server, held by it, or on the way back) and that, until the response is
there, its id in the table is its own or the session can no longer hear of it
(`FlightInv`, `Deaf`); a waiter that was cancelled keeps its id for that
reason. `TableOwn` and `Awaited` relate the table to the handlers, `Replaced` and
`Ending` say what is over in a session that was replaced, finished or closed.
One lemma per part; what a response, a failed session and a message that moves
do to the parts are lemmas of their own.

`ClientSessionProofs` (any tasks, number of connects, streams, retries, faults
and cancellations): `TypeCorrect`, `DirHolds`, `EndsClean`, `ResponsesHold`,
`TypesHold`. Neither of the first two properties is inductive. A step that removes a directory says nothing of the process, and a
step that drops `_query` nothing of the directory: both rely on who else knows
the connection. `SessionInv`, which `SessionInvariant` proves inductive, adds

- `Unspawned`: what a connection that is being made has and has not yet.
- `OneConnects`, `Own`, `Unassigned`: one task connects at a time, and what it
  makes is in nobody else's hands until `_materialized` or `_query` has it.
- `Newest`: from the spawn on, `_materialized` is of the connection that is being
  made, or has been taken.
- `DirSafe`: a directory that is gone, or in the hands of a task that removes
  it, has no process and no task about to spawn one.
- `HeldRuns`, `InitRuns`: the process on the directory of `_materialized` is that
  of `_query`, so a `disconnect()` closes it first.
- `DirKnown`, `ProcessKnown`: as long as a connection was not cut off, somebody
  knows of its directory and somebody of its process.
- `Leaving`, `EndedGone`: what a call that leaves has released at each of its
  awaits, and that nothing comes back. They are what `EndReleases` rests on, which
  `EndsClean` proves of the connections that were not cut off (`cut = {}`): of the
  others it says nothing, and of the first kind `client_setup` shows that it is false.
- `QueryKind`: the one task of a `query()` stays with its `Query`.

An action may fail into `disconnect()` at every await, and the helpers nest.
So the proof first says for each action what it does (`...Does`: which task goes
where, what becomes of the connections and of the attributes), then that every
step is one of fourteen kinds (`NextSteps`), and then that each kind keeps the
invariant (`...Keeps`). TLC checked `SessionInv` on the sessions of `client`
before it was proved.

`ResponsesWhole` speaks of an iteration that has ended. It rests on `TurnsInv`, of
one that goes on: it began after a result, has taken none since but possibly the
last message, and was given the known ones of those it took. A connection that nobody iterates
stands behind a result, unless an iteration of it was abandoned. Only the steps that take, parse and give a message touch that; every other one
is `Quiet`. `TypedMessages` is a fact about the parser for every line a stream may have,
whatever the session: one lemma for each class, subtype and content block
(`DeclaredFields`, `SystemFields`, `NeededFields`, `BlockFields`), of what it
requires and what it makes of a field that is missing or of another type.

`SessionCopiesProofs` (any settings and plans: lines, batches, imports, sessions,
files, configurations, bounds): `NewestHolds`, `ForksHold`, `CopiesHold` about a
session and its copies, `NewestIsResumed`, `ResumeHolds` about a resume. `NewestHolds`
and, of a fork of a whole session, `ForksHold` are about transcripts whose newest message has no
hidden ones behind it (`TipShown`), `ForksHold` also about those without messages of a team
(`TeamFree`), which lose their mark in a fork; that a fork refers to itself only
is proved of all. `CopiesHold` has forks of what a mirror brought, not of what an import did.

They rest on the first half of the module, which proves of every transcript, by the
least counterexample again, what the recursive functions of `Transcript` compute:

- `PickedIs`: what is picked of a sequence is embedded in it, in order, with
  nothing of the set left out (`Embeds`). From this follow what it makes of a
  concatenation, of a reversal and of what was picked before.
- `PathIs`: where links lead to smaller numbers, a chain is a path from its entry
  to a root, each the parent of the one before, and there is only one.
- `AlikeMessages`, `FollowsFork`: a copy that repeats lines, but has the last copies of
  them in their order (`Follows`), shows the same conversation as the lines
  themselves, and so does its fork.
- `ForkMessages`, `ForkRefers`: a fork shows what its source did, and refers to nothing outside.

`LogInv`, of the file and its copy in a store:

- `LogLines`: the i-th line is the i-th uuid and goes on from an earlier line of its side.
- `Mirrored`: until an import begins or a batch is given up, the store follows what was sent.
- `Importing`, `ImportedAll`: an import of a session at rest has appended a
  beginning of the file, in order, to older lines of it; at its end all of it.
  Nothing is assumed of what was there before: an import heals a gap because
  the last copy of a line counts.

`NewestShown` needs that on such a log the tip of the newest branch is the leaf
that `Chain` looks for (`TipMessages`): every leaf is the nearest message of some
terminal, and the newest message of the main side is one.

`PickInv`, for `NewestIsResumed`, adds `Waiting`: while candidates are loaded, none that was
there when the resume began and has stayed (`steady`) has been taken off the list;
it still begins with a message that is no sidechain's, since entries are only
appended to it. `CarryInv`, for `ResumeHolds`, follows the subagents of the current
session from the disk to the store and from there to the temporary directory:

- `ByMirror`: what a mirror has brought reads like the disk, sidecar included.
- `ByImport`: of each subagent the store has nothing or all lines, and while an
  import runs, a subagent is on its list, or half done (`Coming`), or there.
- `Loading`: once the subkeys were listed of a store that had everything
  (`whole`), each subagent is on the list of the resume or in the directory, as
  one of the versions it has had since the resume began.
- `Configured`: the credentials have no refresh token, the settings are the
  caller's, and a file in the directory has a safe path, whatever the store names.

TLC checked `LogInv`, `PickInv` and `CarryInv` on the run `log` first. The one thing
found on the way: whether an import has met the end of its file has to be remembered (`imp.eof`)
and cannot be read off the size of its last batch, which is the invariant `Importing` needs.

`SessionFilesProofs` (any directories, orders, calls and writes): `TypeCorrect`,
`DeletedHolds`, `ReadersHold`. A call ends with what it read several system
calls ago, while others wrote; so what its outcome says of the directories has
to be related, at every step, to what it has read so far. `FilesInv`, which
`FilesInvariant` proves inductive, has `DeletedStaysDeleted` and

- `OneName`, `Times`: a file has one name, a time one file, and what has lines a time.
- `SteadyThere`, `Passed`: a copy that could have been read throughout is there,
  and no search has gone past it.
- `Opened`, `AboutFirst`, `NoneHeld`: the open file of a rename has no name but
  the one it was found by; while nothing comes or goes, a search has only empty
  directories behind it, and what it holds is the copy it stands at.
- `ForkMade`: nobody but a fork makes a file of its name, and once written it
  has a title.
- `Covered`: of a steady copy whose directory is behind the scan there is a row.
- `RowsTrue`: a row is what its file was at the time it has, so that two rows of
  one time are one.
- `LatestNewest`, `LatestSeen`, `Renamed`: the last rename is in the newest copy; it is
  the last title of it, on a line that a listing reads, and the copy does not begin
  with a sidechain; whoever made it has returned.
- `Recent`: while it is the last one, a listing that began after it has no newer
  row of another copy, and reads none: those copies are older than every row of
  the renamed one.

`DeletedStaysDeleted` is inductive with the types alone. For the readers, a step
changes files or looks at them. `World` says what any step does to the files
(they grow, one at a time; a name comes with a new file, and goes only with all
that was said of it, and so does what a listing could show of a file whose title is
pushed out of its tail; the last rename stays, is overtaken, or goes out of sight); from it alone
follows that the other calls keep their part (`IdleKept`). So each action is left
with the part of its own call. TLC checked `FilesInv` on the run `files` before it
was proved, and on plans whose orders visit a directory twice.

`SessionStoreProofs` (any sessions, keys, callers, programs, workloads, setups and
bounds): of the in-memory store `TypeCorrect`, `SidecarsAreExact` and
`MemoryImplements`, and of its listing `ListingHolds` and `PagesHold`; of the store for Redis, whatever overlaps and fails,
`RedisReadsHold`, `RedisDeletesHold`, `RedisListsHold`; of both `StoresImplement`.

- In memory. `StoreInv` says that the log and the time of a key come and go
  together, and with those of a main key its sidecar, which is the fold of the
  whole log.
  `append()` folds a batch on what it has; so the fold of a concatenation has to
  be the fold of the second part, begun with that of the first (`FoldCat`), for
  sequences of any length: from `Climb`, as above. `StoreApart` carries what is
  proved of `SessionStore` alone to `StoresSpec`, where a behaviour is of one of
  four stores.
- The listing. Two facts carry it. `SortedIs` and `SortedOnly`: a sequence sorted
  by ranks has every element once, each behind those that are before it, and no
  other sequence has. `SummariesAgree`: the summary folded from a transcript says what
  the parser reads from it, by `MoreSummed` (what an entry adds to the fold, it adds to
  each field that the parser looks for). The second is true of a transcript that fits
  into the windows, whose entries are plain (`Plain`): timestamps can be parsed,
  and a directory, a branch, a prompt and a command are not empty where there are
  any. The theorems suppose that of all entries (`PlainEntries`), `ListingHolds` also
  that `MaxEntries` fit into the windows (`InWindows`); the entries and bounds of the
  run `store` are so, and beyond them the two differ by design (see Findings). `ListingTrue` is not inductive:
  `Listings` adds that a summary that was read is older than its session or still its
  summary (`Remembered`, also when the session is deleted and begun again between the
  reads, since no date is given twice: `Dated`), that what a session is now was noted
  (`Watched`), and that there is one true slot for every session that has to be
  shown (`SlotsTrue`).
- Redis. The state is a list for each key, two sets of names, and the callers with
  their history. `RedisInv` relates all of them, and each action changes several;
  so it is a predicate of its parts (`Sound`), and one lemma for each change
  says that it stays true: entries are made (`Grows`), a call moves (`CallSet`), an
  append is acknowledged (`Acks`), a `MULTI` pushes (`Pushes`), a deletion removes
  (`Shrinks`). An action is a composition of them. Its parts:
  `AppendsOK` (a batch on its way is whole, in order and of nobody else),
  `DeletesOK` (what a deletion on its way may remove is at risk; an append
  that it takes along is crossed), `LearntOK` (between the two requests of a
  deletion: a subagent's list that it did not learn of is of crossed entries only),
  `ListsOK` (a list is in order, whole batches, with all that is
  acknowledged and not at risk), `IndexOK` (the sets of names agree with the
  lists), `AnswersOK` (what a caller was answered stays true until it goes on).
- The contract. With one program at a time and no faults, each `MULTI` of an
  append is the contract's append. A deletion of a session is one when it has learnt
  of its lists, and they, which are hidden from then on (`UnderDeletion`), go
  unnoticed; that nothing of the session is left behind needs `LearntOK` and
  `SerialOK`: nothing is crossed. Deletions of a subpath, and all reads, are one
  step or none.

TLC checked `StoreInv`, `Listings` and `RedisInv` on the run `store` before they were proved.

Only model-checked:

- `ReadsTrue`, `DeletesTrue`, `ListsTrue` and the contract for S3 and Postgres. The
  model sorts there (the parts of an object's name, rows by their number) with an
  operator of the community modules that rests on `SortSeq`, which the prover does
  not interpret.
- All liveness (`DrainsEnd`, `EverybodyReturns`, `CloseReleases`, `NobodyWaits`,
  `CallsEnd`): the prover does neither fairness nor `ENABLED`.

How far to trust the prover: tlapm 1.4.5 hands `Len(s) \in Nat` and
`DOMAIN s = 1..Len(s)` to Z3 for every `s`. The proofs use `Len` only of what
`TypeOK` says is a sequence, where both are true.

## 5. Assumptions about the environment

- asyncio: a write hands its whole line to the event loop; trio, where a
  cancelled send may stop in the middle, is not modelled.
- The CLI answers a control request at most once, makes request ids unique, and
  sends a tool call after its handshake was answered. Background tasks that
  settle before a follow-up turn share one wake-up, unless `lateWakes`.
- What the CLI writes is text on stdout or stderr, of any length, and
  `max_buffer_size` a natural number (`OutputAssumption`).
- A transport is connected once. Of the tasks of a `ClaudeSDKClient` one
  connects and one iterates at a time; `disconnect()` may meet either, and
  another `disconnect()`. The generator of a `query()` is one task's.
- A store for S3 is consistent: a listing has the objects that are there when the
  page is made. Random suffixes of part names differ; they order parts of
  different adapter objects one way or the other.
- Postgres draws a row's sequence number before the row can be seen; rows of two
  transactions may become visible in the other order, and a batch as a whole.
- A batch of an append is not empty, and every session has a key of its main
  transcript (`CallsAssumption`); the modules call it the same (`StoresAssumption`).
  `serial` setups have one program at a time. Redis does a `MULTI` as a whole, or,
  under faults, not at all.
- A mirrored CLI's writes reach the store at once in `Resume` (`MirrorBatcher` and
  `SessionLog` have the batches), and began when the session did, so that a store that is
  mirrored to has at first what the disk has of the subagents, and one that is imported to has
  nothing of them (`ResumeAssumption`). Subagents are written below
  `subagents/`, in lines of the types user, progress and system; the ids of subagents are unique, and a caller
  on macOS with a `CLAUDE_CONFIG_DIR` of its own is left aside: the SDK does not
  look in the Keychain entry that its CLI would.
- The in-memory streams of MCP hold one message.
- Entries are of equal size and lie whole within or outside of a window.
- Parents are earlier lines of the same chain; sidechains have a graph of their
  own. A setting whose transcript does not branch is that of a subagent, whose lines
  are all sidechains (`LogAssumption`). Texts, titles (in `Transcript`), `logicalParentUuid` and paging of
  messages are left out. Generators are closed, not abandoned.
- In `SessionLog` the parts that the failed attempts of the mirror left of a batch (up to
  three, `transcript_mirror_batcher.py:180`) are one part of it, in its order: readers go by the
  last copy of a line, which the attempt that succeeded has made. `MirrorBatcher` has the
  attempts one by one.
- In `SessionFiles` every call goes through all project directories of the
  instance (those of one repository, or all for a call without a directory); a
  call that is about fewer is one of an instance with fewer.
- In `SessionFiles` the windows are counted in lines, each of them wholly within or
  outside of a window, and are the same for the files of a behaviour. Since lines differ in
  length the head may hold fewer or more of them than the tail, or none that is whole; a line
  that was just written is read, since a title is shorter than 64 KiB (`FilesAssumption`). The
  CLI writes no titles of its own there, nor the `lastPrompt` and `summary` lines that
  stand in for one; the lines of a sidechain are those without a prompt (a prompt of
  a subagent amid other lines would be shown like a user's). Mode lines, which a fork drops as it drops a sidechain's, are in the
  proofs and not in the run.
- In `SessionFiles` two writes never have the same modification time. In the
  code they may, within a millisecond, and the listing then keeps the copy it
  read first. Tags are appended the way titles are and have no line of their own.

Known behaviour that no document decides, visible in the models: a second
`connect()` forgets the query, the process and the directory of the first, which
nothing closes any more (`cut` = "replaced"); a `disconnect()` during another
task's `connect()` takes the transport from it, and leaves a `Query` without one,
whose `close()` fails each time (`CloseBreaks`) and whose process is nobody's;
`disconnect()` closes the stream of a task that still drains it, which loses what
was buffered (`Leaves`); a Redis list whose append overlapped with the deletion of
its session has no index any more (`crossed`); an explicit `resume` may name a
subagent's transcript, which `continue` would pass over; a control
request whose write fails leaves its entry in the table (`query.py:616`);
`delete_session()` removes the first copy only and may report "not found" when
another program removed that copy after the lookup; its `rmtree` may remove the
transcripts of a session the CLI has just made again; `get_session_info()` stops
at a copy of mode lines that `list_sessions()` passes over.

## 6. Not modelled

- The values inside of messages, options, hook inputs and permission results
  (`types.py`, `_task_compat.py`, `_mcp_compat.py`): shapes of data without a
  state; the parser's model has which fields are there.
- The command line, the version check and the discovery of the CLI
  (`subprocess_cli.py`): one pass over options before anything runs.
- Path sanitising, worktree discovery, paging of messages, texts of titles.
- The public re-exports and exceptions; packaging, scripts and the other examples.

The state of every component is in `PROJECT.json`.

## 7. Plan

Order of work, the most important behaviour first. Done: the batcher with its
contract and proofs; `Query`; the transport with its proofs; the bridge; the
in-memory store and listing; client, with several tasks, connections and the
parser; transcripts; files; the adapters with their callers and contract; resume.

Next, modelling:

1. `Query` on top of `SubprocessTransport`: an abstract pipe that both use, and
   the transport shown to implement it; trio's partial writes.
2. Sessions of `Query` with two incoming requests and longer instances where
   the time allows; an adapter of `SessionLog` that skips known uuids.
3. Times in the listings of the adapters, and a continued session that is chosen
   by them.

Next, proofs: the stores for S3 and Postgres, with sorting defined by ranks
(`Sorted`), as the listing has it; `RedisInv` shows how the callers' part goes.
