---------------------------- MODULE MirrorBatcher ----------------------------
(***************************************************************************)
(* TranscriptMirrorBatcher: the buffer between the transcript_mirror       *)
(* frames the read loop peels off stdout and SessionStore.append.          *)
(*                                                                         *)
(* Every drain is one run of _drain(): it detaches the pending buffer,     *)
(* joins the queue of the lock in the same step (there is no await between *)
(* the two), and once it owns the lock it appends what it detached, one    *)
(* call per file.  A drain runs in the task of a flush() or close() caller *)
(* or in a task of its own that enqueue() spawned because a threshold was  *)
(* exceeded.                                                               *)
(*                                                                         *)
(* Frames are numbered in the order they are enqueued, so the batcher's    *)
(* lists, which only ever grow at the end by the newest frame, are sets of *)
(* numbers.  store[p] is the sequence of writes an append made under the   *)
(* key of p, each the set of frames it wrote.                              *)
(***************************************************************************)
EXTENDS Naturals, Sequences, FiniteSets, FiniteSetsExt

CONSTANTS
    Paths,              \* transcript files named by mirror frames
    Mapped,             \* those for which file_path_to_session_key is not None
    FrameKinds,         \* frames the CLI sends: [path, entries, bytes]
    Callers,            \* tasks that call flush() or close()
    EagerTasks,         \* slots for the tasks enqueue() spawns
    MaxPendingEntries,  \* max_pending_entries
    MaxPendingBytes,    \* max_pending_bytes
    MaxAttempts,        \* MIRROR_APPEND_MAX_ATTEMPTS
    MaxFrames           \* bound: frames enqueued in a behaviour

ASSUME PathsAssumption ==
    /\ Mapped \subseteq Paths
    /\ FrameKinds \subseteq [path : Paths, entries : Nat, bytes : Nat]
ASSUME TasksAssumption == Callers \cap EagerTasks = {}
ASSUME LimitsAssumption ==
    /\ MaxPendingEntries \in Nat
    /\ MaxPendingBytes \in Nat
    /\ MaxAttempts \in Nat \ {0}
    /\ MaxFrames \in Nat

Drains == Callers \cup EagerTasks

VARIABLES
    pending,         \* _pending
    pendingEntries,  \* _pending_entries
    pendingBytes,    \* _pending_bytes
    pc,              \* where each drain is in _drain()
    items,           \* what each drain detached and has not finished with
    errors,          \* batches each drain has to report, by drain
    lockq,           \* _lock: its owner, then the waiters in order of arrival
    todo,            \* files the owner still has to append
    attempt,         \* the owner's attempt at the file it is appending
    store,           \* the adapter: the writes made under each file's key
    late,            \* appends given up on at a timeout that may still land
    frames,          \* history: the frames enqueued
    fate,            \* history: what became of each frame
    horizon,         \* history: frames enqueued when a drain last detached
    reported         \* history: frames on_error was called for

buffer == <<pending, pendingEntries, pendingBytes>>
lock == <<lockq, todo, attempt>>
adapter == <<store, late>>
vars == <<buffer, pc, items, errors, lock, adapter, frames, fate, horizon,
          reported>>

Fates == {"live", "acked", "failed", "timedout", "dropped"}

Frames == DOMAIN frames
With(x) == {f \in Frames : fate[f] = x}
Path(f) == frames[f].path

(***************************************************************************)
(* The batch of file p within the frames F, and the files that batch for   *)
(* which _do_flush calls append at all.                                    *)
(***************************************************************************)
Bucket(F, p) == {f \in F : Path(f) = p}
Appendable(F) ==
    {p \in Mapped : \E f \in Bucket(F, p) : frames[f].entries > 0}

\* by_path.items() is in first-seen order.
FirstSeen(F, P, p) ==
    \E f \in Bucket(F, p) : \A g \in F : Path(g) \in P => f <= g

Settled(F, x) == [f \in DOMAIN fate |-> IF f \in F THEN x ELSE fate[f]]

\* An adapter that fails halfway has written a prefix of the batch.
Beginnings(F) == {{}} \cup {{g \in F : g <= f} : f \in F}
Write(p, F) ==
    store' = IF F = {} THEN store ELSE [store EXCEPT ![p] = Append(@, F)]

Init ==
    /\ pending = {} /\ pendingEntries = 0 /\ pendingBytes = 0
    /\ pc = [d \in Drains |-> "idle"]
    /\ items = [d \in Drains |-> {}]
    /\ errors = [d \in Drains |-> {}]
    /\ lockq = <<>> /\ todo = {} /\ attempt = 1
    /\ store = [p \in Paths |-> <<>>] /\ late = {}
    /\ frames = <<>> /\ fate = <<>>
    /\ horizon = [d \in Drains |-> 0]
    /\ reported = {}

-----------------------------------------------------------------------------
\* enqueue()

OverThreshold ==
    pendingEntries > MaxPendingEntries \/ pendingBytes > MaxPendingBytes

\* Mutant of Enqueue: no eager flush while the last one is still running.
EnqueueUnlessFlushing(k) ==
    /\ Len(frames) < MaxFrames
    /\ frames' = Append(frames, k)
    /\ fate' = Append(fate, "live")
    /\ pending' = pending \cup {Len(frames) + 1}
    /\ pendingEntries' = pendingEntries + k.entries
    /\ pendingBytes' = pendingBytes + k.bytes
    /\ IF OverThreshold' /\ \A e \in EagerTasks : pc[e] = "idle"
       THEN \E e \in EagerTasks : pc' = [pc EXCEPT ![e] = "spawned"]
       ELSE pc' = pc
    /\ UNCHANGED <<items, errors, lock, adapter, horizon, reported>>

Enqueue(k) ==
    /\ Len(frames) < MaxFrames
    /\ frames' = Append(frames, k)
    /\ fate' = Append(fate, "live")
    /\ pending' = pending \cup {Len(frames) + 1}
    /\ pendingEntries' = pendingEntries + k.entries
    /\ pendingBytes' = pendingBytes + k.bytes
    /\ IF OverThreshold'
       THEN \E e \in EagerTasks :
               pc[e] = "idle" /\ pc' = [pc EXCEPT ![e] = "spawned"]
       ELSE pc' = pc
    /\ UNCHANGED <<items, errors, lock, adapter, horizon, reported>>

-----------------------------------------------------------------------------
\* _drain(), up to the wait for the lock

\* Mutant of Drain: a drain with nothing to send does not wait for the lock.
DrainReturnsIfEmpty(d) ==
    /\ items' = [items EXCEPT ![d] = pending]
    /\ pending' = {} /\ pendingEntries' = 0 /\ pendingBytes' = 0
    /\ lockq' = IF pending = {} THEN lockq ELSE Append(lockq, d)
    /\ horizon' = [horizon EXCEPT ![d] = Len(frames)]
    /\ pc' = [pc EXCEPT ![d] = IF pending = {} THEN "idle" ELSE "queued"]
    /\ UNCHANGED <<errors, todo, attempt, adapter, frames, fate, reported>>

\* Mutant of Drain: the list is handed over but not replaced.
DrainSharesList(d) ==
    /\ items' = [items EXCEPT ![d] = pending]
    /\ pendingEntries' = 0 /\ pendingBytes' = 0
    /\ lockq' = Append(lockq, d)
    /\ horizon' = [horizon EXCEPT ![d] = Len(frames)]
    /\ pc' = [pc EXCEPT ![d] = "queued"]
    /\ UNCHANGED <<pending, errors, todo, attempt, adapter, frames, fate,
                   reported>>

\* Mutant of Drain: the byte counter is not reset.
DrainKeepsBytes(d) ==
    /\ items' = [items EXCEPT ![d] = pending]
    /\ pending' = {} /\ pendingEntries' = 0
    /\ lockq' = Append(lockq, d)
    /\ horizon' = [horizon EXCEPT ![d] = Len(frames)]
    /\ pc' = [pc EXCEPT ![d] = "queued"]
    /\ UNCHANGED <<pendingBytes, errors, todo, attempt, adapter, frames, fate,
                   reported>>

Drain(d) ==
    /\ items' = [items EXCEPT ![d] = pending]
    /\ pending' = {} /\ pendingEntries' = 0 /\ pendingBytes' = 0
    /\ lockq' = Append(lockq, d)
    /\ horizon' = [horizon EXCEPT ![d] = Len(frames)]
    /\ pc' = [pc EXCEPT ![d] = "queued"]
    /\ UNCHANGED <<errors, todo, attempt, adapter, frames, fate, reported>>

Flush(c) == pc[c] = "idle" /\ Drain(c)

StartEager(e) == pc[e] = "spawned" /\ Drain(e)

-----------------------------------------------------------------------------
\* _drain() with the lock held, and _do_flush()

Owns(d, at) == lockq # <<>> /\ Head(lockq) = d /\ pc[d] = at

ReturnEmpty(d) ==
    /\ Owns(d, "queued") /\ items[d] = {}
    /\ lockq' = Tail(lockq)
    /\ pc' = [pc EXCEPT ![d] = "idle"]
    /\ UNCHANGED <<buffer, items, errors, todo, attempt, adapter, frames, fate,
                   horizon, reported>>

(***************************************************************************)
(* Files with no entry at all are skipped, files outside projects_dir are  *)
(* dropped with a warning; neither has an effect before or after its turn. *)
(***************************************************************************)
Coalesce(d) ==
    /\ Owns(d, "queued") /\ items[d] # {}
    /\ todo' = Appendable(items[d])
    /\ fate' = Settled({f \in items[d] : Path(f) \notin todo'}, "dropped")
    /\ attempt' = 1
    /\ pc' = [pc EXCEPT ![d] = "sending"]
    /\ UNCHANGED <<buffer, items, errors, lockq, adapter, frames, horizon,
                   reported>>

\* The append in progress is the one for the first file that is left.
Appending(d, p) ==
    /\ Owns(d, "sending")
    /\ p \in todo /\ FirstSeen(items[d], todo, p)

Batch(d, p) == Bucket(items[d], p)
NonEmpty(F) == {f \in F : frames[f].entries > 0}

NextPath(p) == todo' = todo \ {p} /\ attempt' = 1

AppendOk(d, p) ==
    /\ Appending(d, p)
    /\ Write(p, NonEmpty(Batch(d, p)))
    /\ fate' = Settled(Batch(d, p), "acked")
    /\ NextPath(p)
    /\ UNCHANGED <<buffer, pc, items, errors, lockq, late, frames, horizon,
                   reported>>

\* Mutant of AppendRetry: attempts are not counted.
AppendRetryForever(d, p) ==
    /\ Appending(d, p)
    /\ \E F \in Beginnings(NonEmpty(Batch(d, p))) : Write(p, F)
    /\ pc' = [pc EXCEPT ![d] = "backoff"]
    /\ UNCHANGED <<buffer, items, errors, lock, late, frames, fate, horizon,
                   reported>>

AppendRetry(d, p) ==
    /\ Appending(d, p) /\ attempt < MaxAttempts
    /\ \E F \in Beginnings(NonEmpty(Batch(d, p))) : Write(p, F)
    /\ attempt' = attempt + 1
    /\ pc' = [pc EXCEPT ![d] = "backoff"]
    /\ UNCHANGED <<buffer, items, errors, lockq, todo, late, frames, fate,
                   horizon, reported>>

BackoffDone(d) ==
    /\ Owns(d, "backoff")
    /\ pc' = [pc EXCEPT ![d] = "sending"]
    /\ UNCHANGED <<buffer, items, errors, lock, adapter, frames, fate, horizon,
                   reported>>

\* Mutant of GiveUp: the error is not recorded.
GiveUpSilently(d, p, x) ==
    /\ fate' = Settled(Batch(d, p), x)
    /\ NextPath(p)
    /\ UNCHANGED <<buffer, pc, items, errors, lockq, frames, horizon, reported>>

GiveUp(d, p, x) ==
    /\ fate' = Settled(Batch(d, p), x)
    /\ errors' = [errors EXCEPT ![d] = @ \cup {Batch(d, p)}]
    /\ NextPath(p)
    /\ UNCHANGED <<buffer, pc, items, lockq, frames, horizon, reported>>

\* Mutant of AppendFails: the batch goes back into the pending buffer.
AppendFailsRequeues(d, p) ==
    /\ Appending(d, p) /\ attempt = MaxAttempts
    /\ pending' = pending \cup Batch(d, p)
    /\ items' = [items EXCEPT ![d] = @ \ Batch(d, p)]
    /\ NextPath(p)
    /\ UNCHANGED <<pendingEntries, pendingBytes, pc, errors, lockq, adapter,
                   frames, fate, horizon, reported>>

AppendFails(d, p) ==
    /\ Appending(d, p) /\ attempt = MaxAttempts
    /\ \E F \in Beginnings(NonEmpty(Batch(d, p))) : Write(p, F)
    /\ GiveUp(d, p, "failed")
    /\ UNCHANGED late

\* Mutant of AppendTimesOut: a timeout is retried like any other failure.
AppendTimesOutRetries(d, p) ==
    /\ Appending(d, p) /\ attempt < MaxAttempts
    /\ late' = late \cup {NonEmpty(Batch(d, p))}
    /\ attempt' = attempt + 1
    /\ pc' = [pc EXCEPT ![d] = "backoff"]
    /\ UNCHANGED <<buffer, items, errors, lockq, todo, store, frames, fate,
                   horizon, reported>>

AppendTimesOut(d, p) ==
    /\ Appending(d, p)
    /\ late' = late \cup {NonEmpty(Batch(d, p))}
    /\ GiveUp(d, p, "timedout")
    /\ UNCHANGED store

\* Mutant of Unlock: the first failed file ends the flush of the others.
UnlockAtFirstError(d) ==
    /\ Owns(d, "sending") /\ (todo = {} \/ errors[d] # {})
    /\ lockq' = Tail(lockq)
    /\ items' = [items EXCEPT ![d] = {}]
    /\ pc' = [pc EXCEPT ![d] = IF errors[d] = {} THEN "idle" ELSE "reporting"]
    /\ UNCHANGED <<buffer, errors, todo, attempt, adapter, frames, fate,
                   horizon, reported>>

\* Mutant of Unlock: errors are collected but never reported.
UnlockWithoutReport(d) ==
    /\ Owns(d, "sending") /\ todo = {}
    /\ lockq' = Tail(lockq)
    /\ items' = [items EXCEPT ![d] = {}]
    /\ pc' = [pc EXCEPT ![d] = "idle"]
    /\ UNCHANGED <<buffer, errors, todo, attempt, adapter, frames, fate,
                   horizon, reported>>

\* _drain() leaves the lock, and only then reports.
Unlock(d) ==
    /\ Owns(d, "sending") /\ todo = {}
    /\ lockq' = Tail(lockq)
    /\ items' = [items EXCEPT ![d] = {}]
    /\ pc' = [pc EXCEPT ![d] = IF errors[d] = {} THEN "idle" ELSE "reporting"]
    /\ UNCHANGED <<buffer, errors, todo, attempt, adapter, frames, fate,
                   horizon, reported>>

Report(d, F) ==
    /\ pc[d] = "reporting" /\ F \in errors[d]
    /\ reported' = reported \cup F
    /\ errors' = [errors EXCEPT ![d] = @ \ {F}]
    /\ pc' = [pc EXCEPT ![d] = IF errors'[d] = {} THEN "idle" ELSE "reporting"]
    /\ UNCHANGED <<buffer, items, lock, adapter, frames, fate, horizon>>

-----------------------------------------------------------------------------
\* The adapter: a call that was cancelled at its timeout lands after all.

Land(F) ==
    /\ late' = late \ {F}
    /\ \E G \in Beginnings(F) \ {{}} :
          \E p \in Paths : F \subseteq Bucket(Frames, p) /\ Write(p, G)
    /\ UNCHANGED <<buffer, pc, items, errors, lock, frames, fate, horizon,
                   reported>>

-----------------------------------------------------------------------------
AppendReturns(d) ==
    \E p \in Mapped : \/ AppendOk(d, p)
                      \/ AppendRetry(d, p)
                      \/ AppendFails(d, p)
                      \/ AppendTimesOut(d, p)

Reports(d) == \E F \in errors[d] : Report(d, F)

Next ==
    \/ \E k \in FrameKinds : Enqueue(k)
    \/ \E c \in Callers : Flush(c)
    \/ \E e \in EagerTasks : StartEager(e)
    \/ \E d \in Drains : \/ ReturnEmpty(d)
                         \/ Coalesce(d)
                         \/ AppendReturns(d)
                         \/ BackoffDone(d)
                         \/ Unlock(d)
                         \/ Reports(d)
    \/ \E F \in late : Land(F)

Spec == Init /\ [][Next]_vars

(***************************************************************************)
(* The event loop runs every task that is ready; an append ends because    *)
(* fail_after(send_timeout) ends it; on_error is the SDK's own callback    *)
(* and does not block.  Nobody has to send frames or call flush, and a     *)
(* timed-out append need not land.                                         *)
(***************************************************************************)
Fairness ==
    /\ \A e \in EagerTasks : WF_vars(StartEager(e))
    /\ \A d \in Drains : /\ WF_vars(ReturnEmpty(d) \/ Coalesce(d))
                         /\ WF_vars(AppendReturns(d))
                         /\ WF_vars(BackoffDone(d))
                         /\ WF_vars(Unlock(d))
                         /\ WF_vars(Reports(d))

FairSpec == Spec /\ Fairness

-----------------------------------------------------------------------------
InDrain == {"queued", "sending", "backoff"}

TypeOK ==
    /\ pending \subseteq Frames
    /\ pendingEntries \in Nat /\ pendingBytes \in Nat
    /\ pc \in [Drains -> {"idle", "spawned", "reporting"} \cup InDrain]
    /\ items \in [Drains -> SUBSET Frames]
    /\ errors \in [Drains -> SUBSET SUBSET Frames]
    /\ lockq \in Seq(Drains)
    /\ todo \subseteq Mapped
    /\ attempt \in 1..MaxAttempts
    /\ store \in [Paths -> Seq(SUBSET Frames)]
    /\ late \subseteq SUBSET Frames
    /\ frames \in Seq([path : Paths, entries : Nat, bytes : Nat])
    /\ fate \in Seq(Fates) /\ Len(fate) = Len(frames)
    /\ horizon \in [Drains -> Nat]
    /\ reported \subseteq Frames

(***************************************************************************)
(* When a drain has left the lock, every frame enqueued before it detached *)
(* is settled, by itself or by a drain before it, also when it had nothing *)
(* to send itself: a consumer that sees the result relies on it            *)
(* (query.py, "Flush pending transcript mirror entries before yielding     *)
(* result").                                                               *)
(***************************************************************************)
FlushBarrier ==
    \A d \in Drains : pc[d] \notin InDrain =>
        \A f \in With("live") : f > horizon[d]

(***************************************************************************)
(* A frame that is not settled is held in exactly one place: the pending   *)
(* buffer, or what one drain detached.  A frame in none is lost without a  *)
(* report, a frame in two is sent twice.                                   *)
(***************************************************************************)
HeldOnce ==
    \A f \in With("live") :
        IF f \in pending
        THEN \A d \in Drains : f \notin items[d]
        ELSE Cardinality({d \in Drains : pc[d] \in InDrain /\ f \in items[d]}) = 1

(***************************************************************************)
(* A reader that keeps the first copy of each frame (adapters are told to  *)
(* dedupe by uuid) reads a file's frames in the order they were enqueued.  *)
(* Only a frame whose append timed out may turn up out of order.           *)
(***************************************************************************)
DedupedOrder ==
    \A p \in Paths : \A i, j \in DOMAIN store[p] : i < j =>
        \A f \in store[p][i], g \in store[p][j] :
            \/ f <= g
            \/ \E h \in 1..i : g \in store[p][h]
            \/ fate[g] = "timedout"

(***************************************************************************)
(* Every frame the batcher gave up on is reported through on_error or is   *)
(* on the list of a drain that is still to report it, and no frame is      *)
(* reported that the adapter acknowledged.                                 *)
(***************************************************************************)
LossAccounted ==
    /\ With("failed") \cup With("timedout") =
           reported \cup UNION {UNION errors[d] : d \in Drains}
    /\ \A f \in With("acked") : frames[f].entries > 0 =>
           \E i \in DOMAIN store[Path(f)] : f \in store[Path(f)][i]

(***************************************************************************)
(* The counters describe the buffer, and a buffer over a threshold has a   *)
(* drain on its way to it: this is what bounds the pending queue.          *)
(***************************************************************************)
PendingBounded ==
    /\ pendingEntries = MapThenSumSet(LAMBDA f : frames[f].entries, pending)
    /\ pendingBytes = MapThenSumSet(LAMBDA f : frames[f].bytes, pending)
    /\ OverThreshold => \E e \in EagerTasks : pc[e] = "spawned"

(***************************************************************************)
(* What becomes of the frames the batcher took: readers of the store see   *)
(* them once and in order, and until then each is in one place, counted,   *)
(* and on its way; those it gave up on are reported.                       *)
(***************************************************************************)
FramesAccounted == HeldOnce /\ PendingBounded /\ DedupedOrder /\ LossAccounted

(***************************************************************************)
(* No frame is written again once an append that carried it was            *)
(* acknowledged, also not by a call that timed out (the comment at "Don't  *)
(* retry on timeout").                                                     *)
(***************************************************************************)
NoCopyAfterAck ==
    [][\A p \in Paths : Len(store'[p]) > Len(store[p]) =>
           store'[p][Len(store'[p])] \cap With("acked") = {}]_vars

(***************************************************************************)
(* A call of flush() returns however the adapter behaves, and a batch that *)
(* was given up on is reported.                                            *)
(***************************************************************************)
FlushReturns == \A d \in Drains : pc[d] = "queued" ~> pc[d] = "idle"
LossReported ==
    \A f \in 1..MaxFrames :
        (f \in With("failed") \cup With("timedout")) ~> (f \in reported)

(***************************************************************************)
(* A buffer that has exceeded a threshold is sent without anybody calling  *)
(* flush.                                                                  *)
(***************************************************************************)
EagerFlush ==
    \A f \in 1..MaxFrames :
        (f \in pending /\ OverThreshold) ~> (f \in Frames /\ fate[f] # "live")

(***************************************************************************)
(* Every drain comes to its end: the calls of flush() return, losses are   *)
(* reported, and an eager flush fires of itself, however the adapter       *)
(* behaves.                                                                *)
(***************************************************************************)
DrainsEnd == FlushReturns /\ LossReported /\ EagerFlush

(***************************************************************************)
(* The batcher implements the mirror's contract.                           *)
(***************************************************************************)
Contract == INSTANCE MirrorContract WITH
    path <- [f \in Frames |-> Path(f)],
    outstanding <- With("live"),
    calling <- {c \in Callers : pc[c] # "idle"},
    horizon <- [c \in Callers |-> horizon[c]]

ImplementsContract == Contract!Spec

(***************************************************************************)
(* "[A]n eager flush fires in the background so memory stays flat during   *)
(* long turns" (class docstring): what was detached and is not settled     *)
(* stays within one full buffer being sent and one waiting behind it.      *)
(***************************************************************************)
MemoryFlat ==
    MapThenSumSet(LAMBDA f : frames[f].entries, With("live") \ pending)
        <= 2 * (MaxPendingEntries + Max({k.entries : k \in FrameKinds}))
=============================================================================
