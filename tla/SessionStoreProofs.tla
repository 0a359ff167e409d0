-------------------------- MODULE SessionStoreProofs --------------------------
(***************************************************************************)
(* Theorems about InMemorySessionStore and the summaries it keeps (modules *)
(* SessionStore and SessionSummary), about the store for Redis and its     *)
(* callers (RedisSessionStore and StoreCalls), and about the contract that *)
(* both implement (SessionStores and StoreContract).                       *)
(***************************************************************************)
EXTENDS SessionStores, NaturalsInduction, WellFoundedInduction, SequenceTheorems,
        FiniteSetTheorems, TLAPS

-----------------------------------------------------------------------------
\* Inductions over numbers and sequences

\* A set of natural numbers that is not empty has a least member.
LEMMA LeastNat ==
    ASSUME NEW T \in SUBSET Nat, T # {}
    PROVE  \E m \in T : \A n \in T : m <= n
<1>1. IsWellFoundedOn(OpToRel(<, Nat), Nat)
  BY NatLessThanWellFounded
<1>2. PICK m \in T : \A n \in T : ~(<<n, m>> \in OpToRel(<, Nat))
  BY <1>1, WFMin
<1>3. \A n \in T : ~(n < m)
  BY <1>2 DEF OpToRel
<1>. QED
  BY <1>3

\* What holds of 0, and of n + 1 if of n, holds up to N.
LEMMA Climb ==
    ASSUME NEW N \in Nat, NEW T \in SUBSET (0..N), 0 \in T,
           \A n \in 0..(N - 1) : n \in T => n + 1 \in T
    PROVE  N \in T
<1>. DEFINE B == (0..N) \ T
<1>. SUFFICES ASSUME B # {} PROVE FALSE
  OBVIOUS
<1>0. B \in SUBSET Nat
  OBVIOUS
<1>1. PICK m \in B : \A n \in B : m <= n
  BY <1>0, LeastNat
<1>2. m # 0 /\ m - 1 \in 0..(N - 1) /\ m - 1 \notin B
  BY <1>1
<1>3. m - 1 \in T /\ (m - 1) + 1 = m
  BY <1>2
<1>. QED
  BY <1>1, <1>2, <1>3

\* A sequence that is not empty is one that a last element was appended to.
LEMMA Appended ==
    ASSUME NEW S, NEW s \in Seq(S), NEW n \in 0..(Len(s) - 1)
    PROVE  /\ SubSeq(s, 1, n) \in Seq(S) /\ s[n + 1] \in S
           /\ SubSeq(s, 1, n + 1) = Append(SubSeq(s, 1, n), s[n + 1])
  OBVIOUS

LEMMA WholeIs ==
    ASSUME NEW S, NEW s \in Seq(S)
    PROVE  SubSeq(s, 1, Len(s)) = s /\ SubSeq(s, 1, 0) = <<>> /\ Len(s) \in Nat
  OBVIOUS

\* What holds of the empty sequence, and of every one that an element was
\* appended to if it holds without it, holds of all.
LEMMA SeqClimb ==
    ASSUME NEW S, NEW T \in SUBSET Seq(S), <<>> \in T,
           \A t \in T, x \in S : Append(t, x) \in T,
           NEW s \in Seq(S)
    PROVE  s \in T
<1>. DEFINE N == Len(s)
            A == {n \in 0..N : SubSeq(s, 1, n) \in T}
<1>0. N \in Nat
  OBVIOUS
<1>1. 0 \in A
  <2>0. SubSeq(s, 1, 0) = <<>>
    BY WholeIs
  <2>1. SubSeq(s, 1, 0) \in T
    BY <2>0, Zenon
  <2>2. 0 \in 0..N
    BY <1>0
  <2>. QED
    BY <2>1, <2>2, Zenon
<1>2. ASSUME NEW n \in 0..(N - 1), n \in A PROVE n + 1 \in A
  <2>1. s[n + 1] \in S /\ SubSeq(s, 1, n + 1) = Append(SubSeq(s, 1, n), s[n + 1])
    BY Appended
  <2>2. n + 1 \in 0..N /\ SubSeq(s, 1, n) \in T
    BY <1>0, <1>2
  <2>. QED
    BY <2>1, <2>2
<1>3. N \in A
  <2>. HIDE DEF A
  <2>1. A \in SUBSET (0..N)
    BY DEF A
  <2>. QED
    BY <1>0, <1>1, <1>2, <2>1, Climb
<1>. QED
  BY <1>3, WholeIs

-----------------------------------------------------------------------------
\* fold_session_summary(), batch by batch

\* The recursion of FoldLeft.
FoldOn(d, s, h, t) == IF t = {} THEN d ELSE FoldEntry(h[t \ {Max(t)}], s[Max(t)])

Folds(h, d, s, N) == \A t \in SUBSET (1..N) : h[t] = FoldOn(d, s, h, t)

LEMMA MaxTop ==
    ASSUME NEW n \in Nat, NEW t \in SUBSET (1..n), n \in t
    PROVE  Max(t) = n
<1>1. \A y \in t : n >= y
  OBVIOUS
<1>2. \A x \in t : x >= n => x = n
  OBVIOUS
<1>. QED
  BY <1>1, <1>2 DEF Max

LEMMA FoldExists ==
    ASSUME NEW d, NEW s, NEW N \in Nat
    PROVE  \E h : h = [t \in SUBSET (1..N) |-> FoldOn(d, s, h, t)]
<1>. DEFINE T == {n \in 0..N : \E h : h = [t \in SUBSET (1..n) |-> FoldOn(d, s, h, t)]}
<1>1. 0 \in T
  <2>. DEFINE h == [t \in SUBSET (1..0) |-> d]
  <2>1. \A t \in SUBSET (1..0) : FoldOn(d, s, h, t) = d
    BY DEF FoldOn
  <2>2. h = [t \in SUBSET (1..0) |-> FoldOn(d, s, h, t)]
    BY <2>1
  <2>. HIDE DEF h
  <2>3. \E g : g = [t \in SUBSET (1..0) |-> FoldOn(d, s, g, t)]
    BY <2>2
  <2>4. 0 \in 0..N
    OBVIOUS
  <2>. QED
    BY <2>3, <2>4, Zenon
<1>2. ASSUME NEW n \in 0..(N - 1), n \in T PROVE n + 1 \in T
  <2>1. PICK h : h = [t \in SUBSET (1..n) |-> FoldOn(d, s, h, t)]
    BY <1>2
  <2>. DEFINE g == [t \in SUBSET (1..(n + 1)) |->
                       IF n + 1 \in t THEN FoldEntry(h[t \ {n + 1}], s[n + 1]) ELSE h[t]]
  <2>2. ASSUME NEW t \in SUBSET (1..(n + 1)), n + 1 \notin t PROVE g[t] = h[t] /\ t \in SUBSET (1..n)
    BY <2>2
  <2>3. ASSUME NEW t \in SUBSET (1..(n + 1)) PROVE g[t] = FoldOn(d, s, g, t)
    <3>1. CASE n + 1 \in t
      <4>1. Max(t) = n + 1
        BY <3>1, MaxTop
      <4>2. t \ {n + 1} \in SUBSET (1..(n + 1)) /\ n + 1 \notin t \ {n + 1}
        OBVIOUS
      <4>3. g[t \ {n + 1}] = h[t \ {n + 1}]
        BY ONLY <4>2, <2>2
      <4>4. g[t] = FoldEntry(h[t \ {n + 1}], s[n + 1])
        BY <3>1
      <4>. HIDE DEF g
      <4>. QED
        BY <3>1, <4>1, <4>3, <4>4 DEF FoldOn
    <3>2. CASE n + 1 \notin t
      <4>1. g[t] = h[t] /\ t \in SUBSET (1..n)
        BY <3>2, <2>2
      <4>2. h[t] = FoldOn(d, s, h, t)
        BY <2>1, <4>1
      <4>3. t \ {Max(t)} \in SUBSET (1..(n + 1)) /\ n + 1 \notin t \ {Max(t)}
        BY <3>2
      <4>4. g[t \ {Max(t)}] = h[t \ {Max(t)}]
        BY ONLY <4>3, <2>2
      <4>. HIDE DEF g
      <4>. QED
        BY <4>1, <4>2, <4>4 DEF FoldOn
    <3>. QED
      BY <3>1, <3>2
  <2>4. g = [t \in SUBSET (1..(n + 1)) |-> FoldOn(d, s, g, t)]
    BY ONLY <2>3
  <2>. HIDE DEF g
  <2>5. \E f : f = [t \in SUBSET (1..(n + 1)) |-> FoldOn(d, s, f, t)]
    BY <2>4
  <2>6. n + 1 \in 0..N
    OBVIOUS
  <2>. QED
    BY <2>5, <2>6, Zenon
<1>. HIDE DEF T
<1>3. T \in SUBSET (0..N)
  BY DEF T
<1>4. N \in T
  BY <1>1, <1>2, <1>3, Climb
<1>. QED
  BY <1>4 DEF T

LEMMA FoldBy ==
    ASSUME NEW d, NEW U, NEW s \in Seq(U)
    PROVE  \E h : Folds(h, d, s, Len(s)) /\ FoldSummary(d, s) = h[1..Len(s)]
<1>. DEFINE Rec(h) == [t \in SUBSET (1..Len(s)) |-> FoldOn(d, s, h, t)]
            iter == CHOOSE h : h = Rec(h)
<1>1. iter = Rec(iter)
  <2>1. Len(s) \in Nat
    OBVIOUS
  <2>2. \E h : h = Rec(h)
    BY <2>1, FoldExists
  <2>. HIDE DEF Rec
  <2>. QED
    BY <2>2
<1>2. FoldSummary(d, s) = iter[1..Len(s)]
  <2>1. DOMAIN s = 1..Len(s)
    OBVIOUS
  <2>. QED
    BY <2>1 DEF FoldSummary, FoldLeft, MapThenFoldSet, FoldOn
<1>3. Folds(iter, d, s, Len(s))
  <2>. HIDE DEF iter
  <2>. QED
    BY <1>1 DEF Folds
<1>. HIDE DEF iter
<1>. QED
  BY <1>2, <1>3

\* What is folded up to n.
Folded(h, d, s, N) ==
    h[1..0] = d /\ \A n \in 0..(N - 1) : h[1..(n + 1)] = FoldEntry(h[1..n], s[n + 1])

LEMMA FoldTo ==
    ASSUME NEW d, NEW s, NEW N \in Nat, NEW h, Folds(h, d, s, N)
    PROVE  Folded(h, d, s, N)
<1>1. 1..0 = {} /\ 1..0 \in SUBSET (1..N)
  OBVIOUS
<1>2. h[1..0] = d
  BY <1>1 DEF FoldOn, Folds
<1>3. ASSUME NEW n \in 0..(N - 1) PROVE h[1..(n + 1)] = FoldEntry(h[1..n], s[n + 1])
  <2>1. n \in Nat /\ n + 1 <= N
    OBVIOUS
  <2>2. n + 1 \in 1..(n + 1) /\ n + 1 \in Nat
    BY <2>1
  <2>3. \A i \in 1..(n + 1) : i \in 1..N
    BY <2>1
  <2>4. 1..(n + 1) \in SUBSET (1..N) /\ 1..(n + 1) # {}
    BY <2>2, <2>3
  <2>5. Max(1..(n + 1)) = n + 1
    BY <2>2, MaxTop
  <2>6. (1..(n + 1)) \ {n + 1} = 1..n
    BY <2>1
  <2>7. h[1..(n + 1)] = FoldOn(d, s, h, 1..(n + 1))
    BY <2>4 DEF Folds
  <2>. QED
    BY <2>4, <2>5, <2>6, <2>7 DEF FoldOn
<1>. QED
  BY <1>2, <1>3 DEF Folded

\* A summary of no entry, and of one more.
LEMMA FoldNone == ASSUME NEW d PROVE FoldSummary(d, <<>>) = d
<1>1. <<>> \in Seq({}) /\ Len(<<>>) = 0 /\ 1..0 = {}
  OBVIOUS
<1>. DEFINE e == <<>>
<1>2. e \in Seq({}) /\ 1..Len(e) = {}
  BY <1>1
<1>. HIDE DEF e
<1>3. PICK f : Folds(f, d, e, Len(e)) /\ FoldSummary(d, e) = f[1..Len(e)]
  BY <1>2, FoldBy
<1>4. FoldSummary(d, e) = FoldOn(d, e, f, {})
  BY <1>2, <1>3 DEF Folds
<1>. QED
  BY <1>4 DEF FoldOn, e

LEMMA FoldMore ==
    ASSUME NEW d, NEW U, NEW s \in Seq(U), NEW x \in U
    PROVE  FoldSummary(d, Append(s, x)) = FoldEntry(FoldSummary(d, s), x)
<1>. DEFINE u == Append(s, x)
            N == Len(s)
<1>0. /\ u \in Seq(U) /\ Len(u) = N + 1 /\ u[N + 1] = x /\ N \in Nat
      /\ \A i \in 1..N : u[i] = s[i]
  OBVIOUS
<1>1. PICK h : Folds(h, d, s, N) /\ FoldSummary(d, s) = h[1..N]
  BY FoldBy
<1>. HIDE DEF u
<1>2. PICK g : Folds(g, d, u, Len(u)) /\ FoldSummary(d, u) = g[1..Len(u)]
  BY <1>0, FoldBy
<1>. HIDE DEF N
<1>. DEFINE T == {n \in 0..N : h[1..n] = g[1..n]}
<1>3. \A n \in 0..N : g[1..0] = d /\ g[1..(n + 1)] = FoldEntry(g[1..n], u[n + 1])
  <2>. DEFINE M == Len(u)
  <2>1. Folds(g, d, u, M) /\ M \in Nat /\ \A n \in 0..N : n \in 0..(M - 1)
    BY <1>0, <1>2
  <2>. HIDE DEF M
  <2>2. Folded(g, d, u, M)
    BY ONLY <2>1, FoldTo
  <2>. QED
    BY <2>1, <2>2 DEF Folded
<1>4. 0 \in T
  <2>1. h[1..0] = FoldOn(d, s, h, 1..0)
    BY <1>0, <1>1 DEF Folds
  <2>2. 1..0 = {}
    OBVIOUS
  <2>3. h[1..0] = d
    BY <2>1, <2>2 DEF FoldOn
  <2>4. 0 \in 0..N
    BY <1>0
  <2>. QED
    BY <1>0, <1>3, <2>3, <2>4
<1>5. ASSUME NEW n \in 0..(N - 1), n \in T PROVE n + 1 \in T
  <2>0. N \in Nat /\ Folds(h, d, s, N)
    BY <1>0, <1>1
  <2>4. Folded(h, d, s, N)
    BY ONLY <2>0, FoldTo
  <2>1. h[1..(n + 1)] = FoldEntry(h[1..n], s[n + 1])
    BY <2>4 DEF Folded
  <2>2. n \in 0..N /\ n + 1 \in 1..N /\ n + 1 \in 0..N
    BY <1>0
  <2>3. g[1..(n + 1)] = FoldEntry(g[1..n], u[n + 1])
    BY <1>3, <2>2
  <2>. QED
    BY <1>0, <1>5, <2>1, <2>2, <2>3
<1>6. N \in T
  <2>. HIDE DEF T
  <2>1. T \in SUBSET (0..N)
    BY DEF T
  <2>. QED
    BY <1>0, <1>4, <1>5, <2>1, Climb
<1>7. FoldSummary(d, u) = FoldEntry(FoldSummary(d, s), x)
  <2>1. N \in 0..N
    BY <1>0
  <2>. QED
    BY <1>0, <1>1, <1>2, <1>3, <1>6, <2>1
<1>. QED
  BY <1>7 DEF u

\* A summary that goes on from that of what came before is of all of it.
LEMMA FoldCat ==
    ASSUME NEW U, NEW s \in Seq(U), NEW b \in Seq(U)
    PROVE  FoldSummary(FoldSummary(Empty, s), b) = FoldSummary(Empty, s \o b)
<1>. DEFINE d == FoldSummary(Empty, s)
            T == {t \in Seq(U) : FoldSummary(d, t) = FoldSummary(Empty, s \o t)}
<1>1. <<>> \in T
  <2>1. s \o <<>> = s /\ <<>> \in Seq(U)
    BY ConcatEmptySeq
  <2>2. FoldSummary(d, <<>>) = d
    BY FoldNone
  <2>. QED
    BY <2>1, <2>2
<1>2. ASSUME NEW t \in T, NEW x \in U PROVE Append(t, x) \in T
  <2>1. FoldSummary(d, Append(t, x)) = FoldEntry(FoldSummary(d, t), x)
    BY FoldMore
  <2>2. s \o t \in Seq(U) /\ s \o Append(t, x) = Append(s \o t, x) /\ Append(t, x) \in Seq(U)
    OBVIOUS
  <2>3. FoldSummary(Empty, Append(s \o t, x)) = FoldEntry(FoldSummary(Empty, s \o t), x)
    <3>. DEFINE v == s \o t
    <3>1. v \in Seq(U)
      BY <2>2
    <3>. HIDE DEF v
    <3>2. FoldSummary(Empty, Append(v, x)) = FoldEntry(FoldSummary(Empty, v), x)
      BY ONLY <3>1, x \in U, FoldMore
    <3>. QED
      BY <3>2 DEF v
  <2>. QED
    BY <1>2, <2>1, <2>2, <2>3
<1>. HIDE DEF T
<1>3. T \in SUBSET Seq(U)
  BY DEF T
<1>4. b \in T
  BY <1>1, <1>2, <1>3, SeqClimb
<1>. QED
  BY <1>4 DEF T
-----------------------------------------------------------------------------
\* The store

\* What transcripts are made of.
Entry == UNION {Range(b) : b \in UNION {w.batches : w \in Workloads}}

(***************************************************************************)
(* The inductive invariant: what is stored are transcripts, of which the   *)
(* modification times and the summaries are; the listing loads what it has *)
(* no summary of.                                                          *)
(***************************************************************************)
Stores ==
    /\ workload \in Workloads
    /\ DOMAIN store \subseteq Keys /\ DOMAIN mtimes = DOMAIN store
    /\ \A k \in DOMAIN store : store[k] \in Seq(Entry) /\ Len(store[k]) \in 1..MaxEntries
Dates ==
    /\ lastMtime \in 0..MaxTime
    /\ \A k \in DOMAIN mtimes : mtimes[k] \in 1..lastMtime
Lists ==
    /\ lpc \in {"idle", "listing", "loading", "done"}
    /\ DOMAIN lister = {"page", "summaries", "slots", "pending", "settled"}
    /\ lpc \in {"idle", "listing"} => DOMAIN lister.settled = {}
    /\ \A i \in DOMAIN lister.slots :
           lister.slots[i].load <=> i \in lister.pending \cup DOMAIN lister.settled
StoreInv == Stores /\ Dates /\ Lists /\ SidecarExact

LEMMA WorkloadIs ==
    ASSUME workload \in Workloads
    PROVE  /\ workload.keys \subseteq Keys
           /\ workload.entries \in 0..MaxEntries /\ workload.time \in 0..MaxTime
           /\ MaxEntries \in Nat /\ MaxTime \in Nat
           /\ \A b \in workload.batches : b \in Seq(Entry) /\ b # <<>>
<1>1. Workload(workload) /\ MaxEntries \in Nat /\ MaxTime \in Nat
  BY StoreAssumption
<1>2. ASSUME NEW b \in workload.batches PROVE b \in Seq(Entry) /\ b # <<>>
  <2>1. b # <<>> /\ b \in Seq(Range(b))
    BY <1>1 DEF Workload
  <2>2. Range(b) \subseteq Entry
    BY DEF Entry
  <2>. QED
    BY <2>1, <2>2
<1>. QED
  BY <1>1, <1>2 DEF Workload

LEMMA KeyIs ==
    ASSUME NEW k \in Keys
    PROVE  k[1] \in Sessions /\ (k = Main(k[1]) \/ \A s : k # Main(s))
  BY DEF Keys, Main

LEMMA MainIs ==
    ASSUME NEW s
    PROVE  Main(s)[1] = s /\ \A t : Main(s) = Main(t) => s = t
  BY DEF Main

\* What an append leaves of a transcript.
Before(k) == IF k \in DOMAIN store THEN store[k] ELSE <<>>

LEMMA AppendIs ==
    ASSUME NEW k \in workload.keys, NEW b \in workload.batches, NEW now \in 0..workload.time,
           AppendEntries(k, b, now), Stores, Dates
    PROVE  /\ store' = Updated(store, k, Before(k) \o b)
           /\ lastMtime' > lastMtime /\ lastMtime' \in 0..MaxTime
           /\ mtimes' = Updated(mtimes, k, lastMtime')
           /\ summaries' = Summarized(k, b, lastMtime')
           /\ UNCHANGED <<workload, lpc, lister>>
           /\ Before(k) \in Seq(Entry) /\ b \in Seq(Entry) /\ b # <<>>
           /\ Before(k) \o b \in Seq(Entry) /\ Len(Before(k) \o b) \in 1..MaxEntries
<1>1. Before(k) \in Seq(Entry) /\ b \in Seq(Entry) /\ b # <<>>
  BY WorkloadIs DEF Stores, Before
<1>2. Before(k) \o b \in Seq(Entry) /\ Len(Before(k) \o b) \in Nat /\ Len(Before(k) \o b) # 0
  BY <1>1
<1>3. Len(Before(k) \o b) <= workload.entries /\ NextMtime(now) <= workload.time
  BY DEF AppendEntries, Before
<1>4. Len(Before(k) \o b) \in 1..MaxEntries
  BY <1>2, <1>3, WorkloadIs DEF Stores
<1>5. NextMtime(now) > lastMtime /\ NextMtime(now) \in 0..MaxTime
  BY <1>3, WorkloadIs DEF Stores, Dates, NextMtime
<1>. QED
  BY <1>1, <1>2, <1>4, <1>5 DEF AppendEntries, Before

LEMMA AppendKeeps ==
    ASSUME NEW k \in workload.keys, NEW b \in workload.batches, NEW now \in 0..workload.time,
           AppendEntries(k, b, now), StoreInv
    PROVE  StoreInv'
<1>. DEFINE new == Before(k) \o b
            m == lastMtime'
<1>0. Stores /\ Dates /\ Lists /\ SidecarExact
  BY DEF StoreInv
<1>1. /\ store' = Updated(store, k, new)
      /\ m > lastMtime /\ m \in 0..MaxTime
      /\ mtimes' = Updated(mtimes, k, m)
      /\ summaries' = Summarized(k, b, m)
      /\ UNCHANGED <<workload, lpc, lister>>
      /\ Before(k) \in Seq(Entry) /\ b \in Seq(Entry)
      /\ new \in Seq(Entry) /\ Len(new) \in 1..MaxEntries
  BY <1>0, AppendIs
<1>2. k \in Keys
  BY <1>0, WorkloadIs DEF Stores
<1>. HIDE DEF new
<1>3. /\ DOMAIN store' = DOMAIN store \cup {k} /\ store'[k] = new
      /\ \A j \in DOMAIN store \ {k} : store'[j] = store[j]
  BY <1>1 DEF Updated
<1>4. /\ DOMAIN mtimes' = DOMAIN mtimes \cup {k} /\ mtimes'[k] = m
      /\ \A j \in DOMAIN mtimes \ {k} : mtimes'[j] = mtimes[j]
  BY <1>1 DEF Updated
<1>5. Stores'
  BY <1>0, <1>1, <1>2, <1>3, <1>4 DEF Stores
<1>6. Dates'
  <2>1. lastMtime \in Nat
    BY <1>0 DEF Dates
  <2>2. ASSUME NEW j \in DOMAIN mtimes' PROVE mtimes'[j] \in 1..m
    BY <1>0, <1>1, <1>4, <2>1, <2>2 DEF Dates
  <2>. QED
    BY <1>1, <2>2 DEF Dates
<1>7. Lists'
  BY <1>0, <1>1 DEF Lists
<1>8. SidecarExact'
  <2>1. CASE k # Main(k[1])
    <3>1. \A s : k # Main(s)
      BY <1>2, <2>1, KeyIs
    <3>2. summaries' = summaries
      BY <1>1, <2>1 DEF Summarized
    <3>3. Listed' = Listed
      BY <1>3, <3>1 DEF Listed
    <3>4. ASSUME NEW s \in Listed
          PROVE  store'[Main(s)] = store[Main(s)] /\ mtimes'[Main(s)] = mtimes[Main(s)]
      BY <1>0, <1>3, <1>4, <3>1 DEF Listed, Stores
    <3>. QED
      BY <1>0, <3>2, <3>3, <3>4 DEF SidecarExact
  <2>2. CASE k = Main(k[1])
    <3>. DEFINE r == k[1]
                prev == IF r \in DOMAIN summaries THEN summaries[r].data ELSE Empty
                e == [mtime |-> m, data |-> FoldSummary(prev, b)]
    <3>1. r \in Sessions /\ k = Main(r) /\ \A s : Main(s) = k => s = r
      BY <1>2, <2>2, KeyIs, MainIs
    <3>2. summaries' = Updated(summaries, r, e)
      BY <1>1, <2>2 DEF Summarized
    <3>3. FoldSummary(prev, b) = FoldSummary(Empty, new)
      <4>1. CASE r \in DOMAIN summaries
        <5>1. prev = FoldSummary(Empty, Before(k))
          BY <1>0, <3>1, <4>1 DEF SidecarExact, Listed, Before
        <5>. QED
          BY <1>1, <5>1, FoldCat DEF new
      <4>2. CASE r \notin DOMAIN summaries
        <5>1. prev = Empty /\ Before(k) = <<>>
          BY <1>0, <3>1, <4>2 DEF SidecarExact, Listed, Before
        <5>2. new = b
          BY <1>1, <5>1 DEF new
        <5>. QED
          BY <5>1, <5>2
      <4>. QED
        BY <4>1, <4>2
    <3>. HIDE DEF prev
    <3>4. e.mtime = m /\ e.data = FoldSummary(Empty, new)
      BY <3>3
    <3>. HIDE DEF e, r
    <3>5. /\ DOMAIN summaries' = DOMAIN summaries \cup {r} /\ summaries'[r] = e
          /\ \A s \in DOMAIN summaries \ {r} : summaries'[s] = summaries[s]
      BY <3>2 DEF Updated
    <3>6. Listed' = Listed \cup {r}
      BY <1>3, <3>1 DEF Listed
    <3>7. ASSUME NEW s \in Listed', s # r
          PROVE  /\ s \in Listed /\ Main(s) # k
                 /\ store'[Main(s)] = store[Main(s)] /\ mtimes'[Main(s)] = mtimes[Main(s)]
      BY <1>0, <1>3, <1>4, <3>1, <3>6, <3>7 DEF Listed, Stores
    <3>8. ASSUME NEW s \in Listed'
          PROVE  /\ summaries'[s].mtime = mtimes'[Main(s)]
                 /\ summaries'[s].data = FoldSummary(Empty, store'[Main(s)])
      <4>1. CASE s = r
        BY <1>3, <1>4, <3>1, <3>4, <3>5, <4>1
      <4>2. CASE s # r
        <5>1. s \in Listed /\ s \in DOMAIN summaries /\ summaries'[s] = summaries[s]
          BY <1>0, <3>5, <3>7, <4>2 DEF SidecarExact
        <5>. QED
          BY <1>0, <3>7, <4>2, <5>1 DEF SidecarExact
      <4>. QED
        BY <4>1, <4>2
    <3>9. DOMAIN summaries' = Listed'
      BY <1>0, <3>5, <3>6 DEF SidecarExact
    <3>. QED
      BY <3>8, <3>9 DEF SidecarExact
  <2>. QED
    BY <2>1, <2>2
<1>. QED
  BY <1>5, <1>6, <1>7, <1>8 DEF StoreInv

LEMMA DeleteKeeps ==
    ASSUME NEW k \in workload.keys, Delete(k), StoreInv
    PROVE  StoreInv'
<1>. DEFINE D == Deleted(k)
<1>0. Stores /\ Dates /\ Lists /\ SidecarExact
  BY DEF StoreInv
<1>1. /\ store' = Restricted(store, DOMAIN store \ D)
      /\ mtimes' = Restricted(mtimes, DOMAIN mtimes \ D)
      /\ summaries' = Unsummarize(k)
      /\ UNCHANGED <<workload, lastMtime, lpc, lister>>
  BY DEF Delete
<1>2. k \in Keys
  BY <1>0, WorkloadIs DEF Stores
<1>. HIDE DEF D
<1>3. /\ DOMAIN store' = DOMAIN store \ D
      /\ \A j \in DOMAIN store \ D : store'[j] = store[j]
  BY <1>1 DEF Restricted
<1>4. /\ DOMAIN mtimes' = DOMAIN mtimes \ D
      /\ \A j \in DOMAIN mtimes \ D : mtimes'[j] = mtimes[j]
  BY <1>1 DEF Restricted
<1>5. Stores'
  BY <1>0, <1>1, <1>3, <1>4 DEF Stores
<1>6. Dates'
  BY <1>0, <1>1, <1>4 DEF Dates
<1>7. Lists'
  BY <1>0, <1>1 DEF Lists
<1>8. \A s \in Listed' : /\ s \in Listed /\ store'[Main(s)] = store[Main(s)]
                        /\ mtimes'[Main(s)] = mtimes[Main(s)]
  BY <1>0, <1>3, <1>4 DEF Listed, Stores
<1>9. SidecarExact'
  <2>1. CASE k # Main(k[1])
    <3>1. \A s : k # Main(s)
      BY <1>2, <2>1, KeyIs
    <3>2. \A s : Main(s) \notin D
      BY <2>1, <3>1 DEF D, Deleted
    <3>3. Listed' = Listed
      BY <1>3, <3>2 DEF Listed
    <3>4. summaries' = summaries
      BY <1>1, <2>1 DEF Unsummarize
    <3>. QED
      BY <1>0, <1>8, <3>3, <3>4 DEF SidecarExact
  <2>2. CASE k = Main(k[1])
    <3>. DEFINE r == k[1]
    <3>1. summaries' = Restricted(summaries, DOMAIN summaries \ {r})
      BY <1>1, <2>2 DEF Unsummarize
    <3>2. \A s : Main(s) \in DOMAIN store => (Main(s) \in D <=> s = r)
      BY <2>2, MainIs DEF D, Deleted
    <3>. HIDE DEF r
    <3>3. /\ DOMAIN summaries' = DOMAIN summaries \ {r}
          /\ \A s \in DOMAIN summaries \ {r} : summaries'[s] = summaries[s]
      BY <3>1 DEF Restricted
    <3>4. Listed' = Listed \ {r}
      BY <1>3, <3>2 DEF Listed
    <3>. QED
      BY <1>0, <1>8, <3>3, <3>4 DEF SidecarExact
  <2>. QED
    BY <2>1, <2>2
<1>. QED
  BY <1>5, <1>6, <1>7, <1>9 DEF StoreInv

\* The listing reads the store and changes nothing of it.
LEMMA ReadsKeep ==
    ASSUME StoreInv, UNCHANGED <<workload, storage>>
    PROVE  Stores' /\ Dates' /\ SidecarExact'
<1>1. UNCHANGED <<workload, store, mtimes, summaries, lastMtime>>
  BY DEF storage
<1>2. Listed' = Listed
  BY <1>1 DEF Listed
<1>. QED
  BY <1>1, <1>2 DEF StoreInv, Stores, Dates, SidecarExact

LEMMA ListingKeeps ==
    ASSUME StoreInv,
           \/ \E page \in workload.pages : ReadSummaries(page)
           \/ ReadSessions \/ ListingReturns \/ ListingForgotten
           \/ \E i \in lister.pending : LoadReturns(i)
    PROVE  StoreInv'
<1>0. Lists
  BY DEF StoreInv
<1>1. UNCHANGED <<workload, storage>>
  BY DEF ReadSummaries, ReadSessions, ListingReturns, ListingForgotten, LoadReturns
<1>2. ASSUME NEW page \in workload.pages, ReadSummaries(page) PROVE Lists'
  BY <1>0, <1>2 DEF Lists, ReadSummaries
<1>3. ASSUME ReadSessions PROVE Lists'
  <2>. DEFINE slots == Slots(ListSessions, lister.summaries, lister.page)
  <2>1. lister' = [lister EXCEPT !.slots = slots,
                          !.pending = {i \in DOMAIN slots : slots[i].load}]
    BY <1>3 DEF ReadSessions
  <2>2. lpc' = "loading" /\ lpc = "listing"
    BY <1>3 DEF ReadSessions
  <2>. HIDE DEF slots
  <2>3. /\ DOMAIN lister' = DOMAIN lister /\ lister'.slots = slots
        /\ lister'.pending = {i \in DOMAIN slots : slots[i].load}
        /\ lister'.settled = lister.settled
    BY <1>0, <2>1 DEF Lists
  <2>. QED
    BY <1>0, <2>2, <2>3 DEF Lists
<1>4. ASSUME ListingReturns PROVE Lists'
  BY <1>0, <1>4 DEF Lists, ListingReturns
<1>5. ASSUME ListingForgotten PROVE Lists'
  BY <1>0, <1>5 DEF Lists, ListingForgotten, Fresh, Empty
<1>6. ASSUME NEW i \in lister.pending, LoadReturns(i) PROVE Lists'
  <2>1. PICK info : lister' = [lister EXCEPT !.pending = @ \ {i}, !.settled = Updated(@, i, info)]
    BY <1>6 DEF LoadReturns
  <2>2. lpc' = lpc /\ lpc = "loading"
    BY <1>6 DEF LoadReturns
  <2>3. /\ DOMAIN lister' = DOMAIN lister /\ lister'.slots = lister.slots
        /\ lister'.pending = lister.pending \ {i}
        /\ lister'.settled = Updated(lister.settled, i, info)
    BY <1>0, <2>1 DEF Lists
  <2>4. DOMAIN lister'.settled = DOMAIN lister.settled \cup {i}
    BY <2>3 DEF Updated
  <2>. QED
    BY <1>0, <2>2, <2>3, <2>4 DEF Lists
<1>7. Lists'
  BY <1>2, <1>3, <1>4, <1>5, <1>6
<1>. QED
  BY <1>1, <1>7, ReadsKeep DEF StoreInv

LEMMA StoreStarts == Init => StoreInv
<1>. SUFFICES ASSUME Init PROVE StoreInv
  OBVIOUS
<1>1. DOMAIN Empty = {}
  BY DEF Empty
<1>2. Listed = {}
  BY <1>1 DEF Init, Listed
<1>3. Stores /\ Dates
  BY <1>1, StoreAssumption DEF Init, Stores, Dates
<1>4. Lists
  BY <1>1 DEF Init, Lists, Fresh
<1>5. SidecarExact
  BY <1>1, <1>2 DEF Init, SidecarExact
<1>. QED
  BY <1>3, <1>4, <1>5 DEF StoreInv

LEMMA StoreInvariance == Spec => []StoreInv
<1>1. StoreInv /\ [Next]_vars => StoreInv'
  <2>. SUFFICES ASSUME StoreInv, [Next]_vars PROVE StoreInv'
    OBVIOUS
  <2>1. ASSUME NEW k \in workload.keys, NEW b \in workload.batches,
               NEW now \in 0..workload.time, AppendEntries(k, b, now)
        PROVE  StoreInv'
    BY <2>1, AppendKeeps
  <2>2. ASSUME NEW k \in workload.keys, Delete(k) PROVE StoreInv'
    BY <2>2, DeleteKeeps
  <2>3. CASE UNCHANGED vars
    <3>1. UNCHANGED <<workload, storage>> /\ UNCHANGED <<lpc, lister>>
      BY <2>3 DEF vars
    <3>2. Lists'
      BY <3>1 DEF StoreInv, Lists
    <3>. QED
      BY <3>1, <3>2, ReadsKeep DEF StoreInv
  <2>. QED
    BY <2>1, <2>2, <2>3, ListingKeeps DEF Next
<1>. QED
  BY <1>1, StoreStarts, PTL DEF Spec

-----------------------------------------------------------------------------
\* The types of the store and of a listing, for any sessions and workloads.
THEOREM TypeCorrect == Spec => []TypeOK
<1>1. StoreInv => TypeOK
  BY DEF StoreInv, Stores, Dates, Lists, TypeOK
<1>. QED
  BY <1>1, StoreInvariance, PTL

(***************************************************************************)
(* The summary that append() folds batch by batch is that of the whole     *)
(* main transcript, for any entries, batches, appends and deletions.       *)
(***************************************************************************)
THEOREM SidecarsAreExact == Spec => []SidecarExact
<1>1. StoreInv => SidecarExact
  BY DEF StoreInv
<1>. QED
  BY <1>1, StoreInvariance, PTL

\* The adapters change nothing of the in-memory store: its theorems are about
\* any of the stores.
THEOREM StoreApart == StoresSpec => Spec
<1>1. StoresInit => Init
  BY DEF StoresInit
<1>2. [StoresNext]_<<vars, adapterVars>> => [Next]_vars
  BY DEF StoresNext
<1>. QED
  BY <1>1, <1>2, PTL DEF StoresSpec, Spec

-----------------------------------------------------------------------------
MemoryContract == INSTANCE StoreContract WITH NoSubpath <- None, held <- store

LEMMA ContractAppends ==
    ASSUME NEW k \in workload.keys, NEW b \in workload.batches, NEW now \in 0..workload.time,
           AppendEntries(k, b, now), StoreInv
    PROVE  MemoryContract!Appended(k)
<1>1. /\ store' = Updated(store, k, Before(k) \o b)
      /\ Before(k) \in Seq(Entry) /\ b \in Seq(Entry) /\ b # <<>>
  BY AppendIs DEF StoreInv
<1>2. /\ Before(k) \o b # Before(k)
      /\ SubSeq(Before(k) \o b, 1, Len(Before(k))) = Before(k)
  BY <1>1
<1>3. MemoryContract!Load(k) = Before(k)
  BY DEF MemoryContract!Load, Before
<1>. DEFINE new == Before(k) \o b
<1>. HIDE DEF new
<1>4. /\ DOMAIN store' = DOMAIN store \cup {k} /\ store'[k] = new
      /\ \A j \in DOMAIN store \ {k} : store'[j] = store[j]
  BY <1>1 DEF new, Updated
<1>. QED
  BY <1>2, <1>3, <1>4 DEF MemoryContract!Appended, new

LEMMA ContractDeletes ==
    ASSUME NEW k \in workload.keys, Delete(k)
    PROVE  MemoryContract!Deleted(k)
<1>1. store' = Restricted(store, DOMAIN store \ Deleted(k))
  BY DEF Delete
<1>2. DOMAIN store \cap (DOMAIN store \ Deleted(k)) =
          {i \in DOMAIN store : ~MemoryContract!Covers(k, i)}
  BY DEF Deleted, MemoryContract!Covers, MemoryContract!Main, Main
<1>. QED
  BY <1>1, <1>2 DEF Restricted, MemoryContract!Deleted

(***************************************************************************)
(* InMemorySessionStore implements the contract: append() and delete() are *)
(* the only steps that change a log, and all else that the store and a     *)
(* listing do is a stutter.                                                *)
(***************************************************************************)
THEOREM MemoryImplements == Spec => MemoryContract!Spec
<1>1. Init => MemoryContract!Init
  BY DEF Init, MemoryContract!Init, Empty
<1>2. StoreInv /\ [Next]_vars => [MemoryContract!Next]_store
  <2>. SUFFICES ASSUME StoreInv, [Next]_vars PROVE MemoryContract!Next \/ UNCHANGED store
    OBVIOUS
  <2>0. \A k \in workload.keys : k \in MemoryContract!Keys
    BY WorkloadIs DEF StoreInv, Stores, Keys, Main, MemoryContract!Keys, MemoryContract!Main
  <2>1. ASSUME NEW k \in workload.keys, NEW b \in workload.batches,
               NEW now \in 0..workload.time, AppendEntries(k, b, now)
        PROVE  MemoryContract!Next
    BY <2>0, <2>1, ContractAppends DEF MemoryContract!Next
  <2>2. ASSUME NEW k \in workload.keys, Delete(k) PROVE MemoryContract!Next
    BY <2>0, <2>2, ContractDeletes DEF MemoryContract!Next
  <2>3. CASE \/ \E page \in workload.pages : ReadSummaries(page)
             \/ ReadSessions \/ ListingReturns \/ ListingForgotten
             \/ \E i \in lister.pending : LoadReturns(i)
    BY <2>3 DEF ReadSummaries, ReadSessions, ListingReturns, ListingForgotten, LoadReturns,
               storage
  <2>4. CASE UNCHANGED vars
    BY <2>4 DEF vars, storage
  <2>. QED
    BY <2>1, <2>2, <2>3, <2>4 DEF Next
<1>. QED
  BY <1>1, <1>2, StoreInvariance, PTL DEF Spec, MemoryContract!Spec

-----------------------------------------------------------------------------
(***************************************************************************)
(* The store for Redis                                                     *)
(*                                                                         *)
(* The parts of the invariant have the state for parameters: mk is what    *)
(* was made, ak what was acknowledged, ar what is at risk, cr what was     *)
(* crossed, cl the calls, ls the lists, sk and ss the two sets of names.   *)
(***************************************************************************)
IsSeq(s) == s \in Seq(Range(s))

CallFields == {"prog", "method", "pc", "key", "batch", "found", "left", "token", "answer",
               "before"}
Methods == {"append", "load", "delete", "subkeys", "sessions"}
AppendsNow(r) == r.method = "append" /\ r.pc = "start"
DeletesNow(r) == r.method = "delete" /\ r.pc \in {"start", "delete"}

Ents(mk, K) == {e \in DOMAIN mk : mk[e].key \in K}

(***************************************************************************)
(* What was made: an entry has a key and a batch, no later than the last,  *)
(* and what was before it had been acknowledged.                           *)
(***************************************************************************)
MadeOK(mk, ak, ar, cr) ==
    /\ IsSeq(mk)
    /\ \A e \in DOMAIN mk :
           /\ mk[e].key \in StoreKeys
           /\ mk[e].batch \in 1..Len(mk) /\ mk[e].earlier \subseteq ak
    /\ ak \subseteq DOMAIN mk /\ ar \subseteq DOMAIN mk /\ cr \subseteq ar

\* A call of a method, on its way, returned or raised.
CallOK(mk, ak, r) ==
    /\ DOMAIN r = CallFields
    /\ r.pc \in {"idle", "start", "delete", "done", "raised"}
    /\ r.method \in Methods \cup {"none"} /\ (r.pc = "idle" <=> r.method = "none")
    /\ r.pc = "delete" => r.method = "delete"
    /\ r.token = {}
    /\ r.method \in {"append", "load", "delete", "subkeys"} => r.key \in StoreKeys
    /\ r.before \subseteq ak
    /\ r.method # "none" => r.before \subseteq Ents(mk, Concerns(r.method, r.key))
CallsOK(cl, mk, ak) == DOMAIN cl = Callers /\ \A c \in Callers : CallOK(mk, ak, cl[c])

\* The batch of an append() on its way: whole, in order, and of nobody else.
BatchOK(mk, ak, b, k) ==
    /\ IsSeq(b) /\ b # <<>> /\ Range(b) \subseteq Ents(mk, {k}) \ ak
    /\ \A i, j \in DOMAIN b : i < j => b[i] < b[j]
    /\ \A e \in Range(b), f \in DOMAIN mk :
           mk[f].batch = mk[e].batch <=> f \in Range(b)
AppendsOK(cl, mk, ak) ==
    /\ \A c \in Callers : AppendsNow(cl[c]) => BatchOK(mk, ak, cl[c].batch, cl[c].key)
    /\ \A c, d \in Callers : AppendsNow(cl[c]) /\ AppendsNow(cl[d]) /\ c # d =>
           Range(cl[c].batch) \cap Range(cl[d].batch) = {}

\* A deletion on its way puts at risk what it may remove.
DeletesOK(cl, mk, ar, cr) ==
    \A d \in Callers : DeletesNow(cl[d]) =>
        /\ Ents(mk, Concerns("delete", cl[d].key)) \subseteq ar
        /\ \A c \in Callers : AppendsNow(cl[c]) /\ Takes(cl[d].key, cl[c].key) =>
               Range(cl[c].batch) \subseteq cr

SerialOK(cl, cr, serial) ==
    serial =>
        /\ cr = {}
        /\ \A c, d \in Callers : c # d => cl[c].pc = "idle" \/ cl[d].pc = "idle"

\* What may be read of a key.
InOrder(mk, e, f) == (mk[e].batch = mk[f].batch /\ e < f) \/ e \in mk[f].earlier
LogOK(mk, s, k) ==
    /\ IsSeq(s) /\ \A i, j \in DOMAIN s : s[i] = s[j] => i = j
    /\ Range(s) \subseteq Ents(mk, {k})
    /\ \A e \in Range(s), f \in DOMAIN mk : mk[e].batch = mk[f].batch => f \in Range(s)
    /\ \A i, j \in DOMAIN s : InOrder(mk, s[i], s[j]) => i < j
ListsOK(cl, mk, ak, ar, ls) ==
    /\ DOMAIN ls = StoreKeys /\ \A k \in StoreKeys : LogOK(mk, ls[k], k)
    /\ \A c \in Callers : AppendsNow(cl[c]) => Range(cl[c].batch) \cap Range(ls[cl[c].key]) = {}
    /\ \A e \in ak \ ar : e \in Range(ls[mk[e].key])

\* The sets of names agree with the lists, what deletions crossed aside.
Below(s) == {k \in StoreKeys : k[1] = s /\ ~IsMain(k)}
IndexOK(ls, sk, ss, cr) ==
    /\ ss = {s \in StoreSessions : ls[MainKey(s)] # <<>>}
    /\ sk \subseteq {k \in StoreKeys : ~IsMain(k)}
    /\ \A k \in StoreKeys : ~IsMain(k) =>
           /\ k \in sk => ls[k] # <<>>
           /\ k \notin sk => Range(ls[k]) \subseteq cr

\* A deletion of a session has learnt of all lists that nobody crosses it with.
Learnt(ls, cr, r) ==
    r.pc = "delete" =>
        /\ IsMain(r.key) /\ r.found \subseteq Below(r.key[1])
        /\ \A k \in Below(r.key[1]) \ r.found : Range(ls[k]) \subseteq cr
LearntOK(cl, ls, cr) == \A d \in Callers : Learnt(ls, cr, cl[d])

\* What a caller knows that has its answer; exact says that nobody else calls.
LoadedOK(mk, ar, ls, exact, r) ==
    /\ LogOK(mk, r.answer, r.key) /\ r.before \ ar \subseteq Range(r.answer)
    /\ exact => r.answer = ls[r.key]
DeletedOK(ls, cr, r) == \A k \in StoreKeys : Range(ls[k]) \cap r.before \subseteq cr
SessOf(mk, E) == {mk[e].key[1] : e \in {f \in E : IsMain(mk[f].key)}}
SubsOf(mk, s, E) == {mk[e].key[2] : e \in {f \in E : mk[f].key[1] = s /\ ~IsMain(mk[f].key)}}
NamesOf(sk, s) == {k[2] : k \in {j \in sk : j[1] = s}}
SessionsOK(mk, ar, ss, exact, r) ==
    /\ SessOf(mk, r.before \ ar) \subseteq r.found
    /\ r.found \subseteq SessOf(mk, DOMAIN mk)
    /\ exact => r.found = ss
SubkeysOK(mk, ar, sk, exact, r) ==
    /\ SubsOf(mk, r.key[1], r.before \ ar) \subseteq r.found
    /\ r.found \subseteq SubsOf(mk, r.key[1], DOMAIN mk)
    /\ exact => r.found = NamesOf(sk, r.key[1])
AnswerOK(mk, ar, cr, ls, sk, ss, exact, r) ==
    r.pc = "done" =>
        /\ r.method = "load" => LoadedOK(mk, ar, ls, exact, r)
        /\ r.method = "delete" => DeletedOK(ls, cr, r)
        /\ r.method = "sessions" => SessionsOK(mk, ar, ss, exact, r)
        /\ r.method = "subkeys" => SubkeysOK(mk, ar, sk, exact, r)

Exact(u) == u.serial /\ ~u.faults
AnswersOK(u, mk, ar, cr, cl, ls, sk, ss) ==
    \A c \in Callers : AnswerOK(mk, ar, cr, ls, sk, ss, Exact(u), cl[c])

(***************************************************************************)
(* The inductive invariant of the store for Redis and its callers.         *)
(***************************************************************************)
Sound(u, mk, ak, ar, cr, cl, ls, sk, ss) ==
    /\ MadeOK(mk, ak, ar, cr)
    /\ CallsOK(cl, mk, ak)
    /\ AppendsOK(cl, mk, ak)
    /\ DeletesOK(cl, mk, ar, cr)
    /\ SerialOK(cl, cr, u.serial)
    /\ ListsOK(cl, mk, ak, ar, ls)
    /\ IndexOK(ls, sk, ss, cr)
    /\ LearntOK(cl, ls, cr)
    /\ AnswersOK(u, mk, ar, cr, cl, ls, sk, ss)
RedisInv ==
    /\ setup \in Setups /\ setup.adapter = "redis" /\ calls \in Nat
    /\ setup.calls = 0 => \A c \in Callers : call[c].pc = "idle"
    /\ Sound(setup, made, acked, atRisk, crossed, call, lists, subkeys, sessions)

-----------------------------------------------------------------------------
\* What keeps it, one change at a time

\* Entries are made, and more is put at risk.
Grown(mk, mk2) ==
    /\ DOMAIN mk \subseteq DOMAIN mk2 /\ \A e \in DOMAIN mk : mk2[e] = mk[e]
    /\ \A e \in DOMAIN mk, f \in DOMAIN mk2 \ DOMAIN mk : mk2[f].batch # mk[e].batch

LEMMA GrownEnts ==
    ASSUME NEW mk, NEW mk2, Grown(mk, mk2), NEW K
    PROVE  Ents(mk2, K) \cap DOMAIN mk = Ents(mk, K) /\ Ents(mk, K) \subseteq Ents(mk2, K)
  BY DEF Grown, Ents

LEMMA GrownLog ==
    ASSUME NEW mk, NEW mk2, Grown(mk, mk2), NEW s, NEW k, LogOK(mk, s, k)
    PROVE  LogOK(mk2, s, k)
<1>1. Range(s) \subseteq DOMAIN mk /\ \A i \in DOMAIN s : s[i] \in DOMAIN mk
  BY DEF LogOK, Ents, Range
<1>2. \A e \in DOMAIN mk, f \in DOMAIN mk : InOrder(mk2, e, f) = InOrder(mk, e, f)
  BY DEF Grown, InOrder
<1>3. Range(s) \subseteq Ents(mk2, {k})
  BY GrownEnts DEF LogOK
<1>4. ASSUME NEW e \in Range(s), NEW f \in DOMAIN mk2, mk2[e].batch = mk2[f].batch
      PROVE  f \in Range(s)
  BY <1>1, <1>4 DEF Grown, LogOK
<1>. QED
  BY <1>1, <1>2, <1>3, <1>4 DEF LogOK

LEMMA GrownBatch ==
    ASSUME NEW mk, NEW mk2, Grown(mk, mk2), NEW ak, NEW b, NEW k, BatchOK(mk, ak, b, k)
    PROVE  BatchOK(mk2, ak, b, k)
<1>1. Range(b) \subseteq DOMAIN mk
  BY DEF BatchOK, Ents
<1>2. Range(b) \subseteq Ents(mk2, {k}) \ ak
  BY GrownEnts DEF BatchOK
<1>3. \A e \in Range(b), f \in DOMAIN mk2 : mk2[f].batch = mk2[e].batch <=> f \in Range(b)
  BY <1>1 DEF Grown, BatchOK
<1>. QED
  BY <1>2, <1>3 DEF BatchOK

LEMMA GrownNames ==
    ASSUME NEW mk, NEW mk2, Grown(mk, mk2), NEW E \in SUBSET DOMAIN mk
    PROVE  /\ SessOf(mk2, E) = SessOf(mk, E)
           /\ \A s : SubsOf(mk2, s, E) = SubsOf(mk, s, E)
  BY DEF Grown, SessOf, SubsOf

LEMMA MoreNames ==
    ASSUME NEW mk, NEW D, NEW E \in SUBSET D
    PROVE  /\ SessOf(mk, E) \subseteq SessOf(mk, D)
           /\ \A s : SubsOf(mk, s, E) \subseteq SubsOf(mk, s, D)
  BY DEF SessOf, SubsOf

LEMMA Grows ==
    ASSUME NEW u, NEW mk, NEW ak, NEW ar, NEW cr, NEW cl, NEW ls, NEW sk, NEW ss,
           Sound(u, mk, ak, ar, cr, cl, ls, sk, ss),
           NEW mk2, NEW ar2, NEW cr2, Grown(mk, mk2), MadeOK(mk2, ak, ar2, cr2),
           ar \subseteq ar2, cr \subseteq cr2, u.serial => cr2 = {},
           \A d \in Callers : DeletesNow(cl[d]) =>
               Ents(mk2, Concerns("delete", cl[d].key)) \ DOMAIN mk \subseteq ar2
    PROVE  Sound(u, mk2, ak, ar2, cr2, cl, ls, sk, ss)
<1>0. /\ ak \subseteq DOMAIN mk /\ ar \subseteq DOMAIN mk /\ DOMAIN mk \subseteq DOMAIN mk2
      /\ \A c \in Callers : CallOK(mk, ak, cl[c])
  BY DEF Sound, MadeOK, CallsOK, Grown
<1>1. CallsOK(cl, mk2, ak)
  BY GrownEnts DEF Sound, CallsOK, CallOK
<1>2. AppendsOK(cl, mk2, ak)
  BY GrownBatch DEF Sound, AppendsOK
<1>3. DeletesOK(cl, mk2, ar2, cr2)
  <2>1. ASSUME NEW d \in Callers, DeletesNow(cl[d])
        PROVE  Ents(mk2, Concerns("delete", cl[d].key)) \subseteq ar2
    BY <2>1, GrownEnts DEF Sound, DeletesOK
  <2>. QED
    BY <2>1 DEF Sound, DeletesOK
<1>4. SerialOK(cl, cr2, u.serial)
  BY DEF Sound, SerialOK
<1>5. ListsOK(cl, mk2, ak, ar2, ls)
  <2>1. \A k \in StoreKeys : LogOK(mk2, ls[k], k)
    BY GrownLog DEF Sound, ListsOK
  <2>2. \A e \in ak \ ar2 : e \in Range(ls[mk2[e].key])
    BY <1>0 DEF Sound, ListsOK, Grown
  <2>. QED
    BY <2>1, <2>2 DEF Sound, ListsOK
<1>6. IndexOK(ls, sk, ss, cr2)
  BY DEF Sound, IndexOK
<1>7. LearntOK(cl, ls, cr2)
  BY DEF Sound, LearntOK, Learnt
<1>8. ASSUME NEW c \in Callers PROVE AnswerOK(mk2, ar2, cr2, ls, sk, ss, Exact(u), cl[c])
  <2>. DEFINE r == cl[c]
  <2>0. AnswerOK(mk, ar, cr, ls, sk, ss, Exact(u), r) /\ CallOK(mk, ak, r)
    BY <1>0 DEF Sound, AnswersOK
  <2>. HIDE DEF r
  <2>1. r.before \subseteq DOMAIN mk
    BY <1>0, <2>0 DEF CallOK
  <2>2. LoadedOK(mk, ar, ls, Exact(u), r) => LoadedOK(mk2, ar2, ls, Exact(u), r)
    BY GrownLog DEF LoadedOK
  <2>3. DeletedOK(ls, cr, r) => DeletedOK(ls, cr2, r)
    BY DEF DeletedOK
  <2>. DEFINE S == r.before \ ar
              S2 == r.before \ ar2
              D == DOMAIN mk
              D2 == DOMAIN mk2
  <2>4. S2 \in SUBSET S /\ S2 \in SUBSET D /\ D \in SUBSET D2 /\ D \in SUBSET D
    BY <1>0, <2>1
  <2>5. /\ SessOf(mk2, S2) \subseteq SessOf(mk, S)
        /\ SessOf(mk, D) \subseteq SessOf(mk2, D2)
        /\ \A s : /\ SubsOf(mk2, s, S2) \subseteq SubsOf(mk, s, S)
                  /\ SubsOf(mk, s, D) \subseteq SubsOf(mk2, s, D2)
    <3>1. /\ SessOf(mk2, S2) = SessOf(mk, S2) /\ SessOf(mk2, D) = SessOf(mk, D)
          /\ \A s : SubsOf(mk2, s, S2) = SubsOf(mk, s, S2) /\ SubsOf(mk2, s, D) = SubsOf(mk, s, D)
      BY <2>4, GrownNames
    <3>. HIDE DEF S, S2, D, D2
    <3>2. /\ SessOf(mk, S2) \subseteq SessOf(mk, S)
          /\ \A s : SubsOf(mk, s, S2) \subseteq SubsOf(mk, s, S)
      BY <2>4, MoreNames
    <3>3. /\ SessOf(mk2, D) \subseteq SessOf(mk2, D2)
          /\ \A s : SubsOf(mk2, s, D) \subseteq SubsOf(mk2, s, D2)
      BY <2>4, MoreNames
    <3>. QED
      BY <3>1, <3>2, <3>3
  <2>6. SessionsOK(mk, ar, ss, Exact(u), r) => SessionsOK(mk2, ar2, ss, Exact(u), r)
    BY <2>5 DEF SessionsOK
  <2>7. SubkeysOK(mk, ar, sk, Exact(u), r) => SubkeysOK(mk2, ar2, sk, Exact(u), r)
    BY <2>5 DEF SubkeysOK
  <2>8. AnswerOK(mk2, ar2, cr2, ls, sk, ss, Exact(u), r)
    BY <2>0, <2>2, <2>3, <2>6, <2>7 DEF AnswerOK
  <2>. QED
    BY <2>8 DEF r
<1>. QED
  BY <1>1, <1>2, <1>3, <1>4, <1>5, <1>6, <1>7, <1>8 DEF Sound, AnswersOK

\* A call begins, goes on or ends.
LEMMA CallSet ==
    ASSUME NEW u, NEW mk, NEW ak, NEW ar, NEW cr, NEW cl, NEW ls, NEW sk, NEW ss,
           Sound(u, mk, ak, ar, cr, cl, ls, sk, ss),
           NEW c \in Callers, NEW r, CallOK(mk, ak, r),
           AppendsNow(r) =>
               /\ BatchOK(mk, ak, r.batch, r.key)
               /\ Range(r.batch) \cap Range(ls[r.key]) = {}
               /\ \A d \in Callers \ {c} :
                      /\ AppendsNow(cl[d]) => Range(r.batch) \cap Range(cl[d].batch) = {}
                      /\ DeletesNow(cl[d]) /\ Takes(cl[d].key, r.key) => Range(r.batch) \subseteq cr,
           DeletesNow(r) =>
               /\ Ents(mk, Concerns("delete", r.key)) \subseteq ar
               /\ \A d \in Callers \ {c} :
                      AppendsNow(cl[d]) /\ Takes(r.key, cl[d].key) => Range(cl[d].batch) \subseteq cr,
           u.serial /\ r.pc # "idle" => \A d \in Callers \ {c} : cl[d].pc = "idle",
           Learnt(ls, cr, r), AnswerOK(mk, ar, cr, ls, sk, ss, Exact(u), r)
    PROVE  Sound(u, mk, ak, ar, cr, [cl EXCEPT ![c] = r], ls, sk, ss)
<1>. DEFINE cl2 == [cl EXCEPT ![c] = r]
<1>0. /\ DOMAIN cl2 = Callers /\ cl2[c] = r /\ \A d \in Callers \ {c} : cl2[d] = cl[d]
  BY DEF Sound, CallsOK
<1>. HIDE DEF cl2
<1>1. CallsOK(cl2, mk, ak)
  BY <1>0 DEF Sound, CallsOK
<1>2. AppendsOK(cl2, mk, ak)
  <2>1. ASSUME NEW d \in Callers, AppendsNow(cl2[d]) PROVE BatchOK(mk, ak, cl2[d].batch, cl2[d].key)
    BY <1>0, <2>1 DEF Sound, AppendsOK
  <2>2. ASSUME NEW d \in Callers, NEW e \in Callers, AppendsNow(cl2[d]), AppendsNow(cl2[e]), d # e
        PROVE  Range(cl2[d].batch) \cap Range(cl2[e].batch) = {}
    <3>1. CASE d = c
      BY <1>0, <2>2, <3>1
    <3>2. CASE e = c
      BY <1>0, <2>2, <3>2
    <3>3. CASE d # c /\ e # c
      BY <1>0, <2>2, <3>3 DEF Sound, AppendsOK
    <3>. QED
      BY <3>1, <3>2, <3>3
  <2>. QED
    BY <2>1, <2>2 DEF AppendsOK
<1>3. DeletesOK(cl2, mk, ar, cr)
  <2>1. ASSUME NEW d \in Callers, DeletesNow(cl2[d])
        PROVE  Ents(mk, Concerns("delete", cl2[d].key)) \subseteq ar
    BY <1>0, <2>1 DEF Sound, DeletesOK
  <2>2. ASSUME NEW d \in Callers, NEW e \in Callers, DeletesNow(cl2[d]), AppendsNow(cl2[e]),
               Takes(cl2[d].key, cl2[e].key)
        PROVE  Range(cl2[e].batch) \subseteq cr
    <3>0. d # e
      BY <2>2 DEF DeletesNow, AppendsNow
    <3>1. CASE d = c
      BY <1>0, <2>2, <3>0, <3>1
    <3>2. CASE e = c
      BY <1>0, <2>2, <3>0, <3>2
    <3>3. CASE d # c /\ e # c
      BY <1>0, <2>2, <3>3 DEF Sound, DeletesOK
    <3>. QED
      BY <3>1, <3>2, <3>3
  <2>. QED
    BY <2>1, <2>2 DEF DeletesOK
<1>4. SerialOK(cl2, cr, u.serial)
  <2>1. ASSUME u.serial, NEW d \in Callers, NEW e \in Callers, d # e
        PROVE  cl2[d].pc = "idle" \/ cl2[e].pc = "idle"
    <3>1. CASE d = c
      BY <1>0, <2>1, <3>1
    <3>2. CASE e = c
      BY <1>0, <2>1, <3>2
    <3>3. CASE d # c /\ e # c
      BY <1>0, <2>1, <3>3 DEF Sound, SerialOK
    <3>. QED
      BY <3>1, <3>2, <3>3
  <2>. QED
    BY <2>1 DEF Sound, SerialOK
<1>5. ListsOK(cl2, mk, ak, ar, ls)
  BY <1>0 DEF Sound, ListsOK
<1>6. LearntOK(cl2, ls, cr)
  BY <1>0 DEF Sound, LearntOK
<1>7. AnswersOK(u, mk, ar, cr, cl2, ls, sk, ss)
  BY <1>0 DEF Sound, AnswersOK
<1>. QED
  BY <1>1, <1>2, <1>3, <1>4, <1>5, <1>6, <1>7 DEF Sound, cl2

\* An append() is acknowledged.
LEMMA Acks ==
    ASSUME NEW u, NEW mk, NEW ak, NEW ar, NEW cr, NEW cl, NEW ls, NEW sk, NEW ss,
           Sound(u, mk, ak, ar, cr, cl, ls, sk, ss),
           NEW B \in SUBSET DOMAIN mk, \A e \in B \ ar : e \in Range(ls[mk[e].key]),
           \A d \in Callers : AppendsNow(cl[d]) => B \cap Range(cl[d].batch) = {}
    PROVE  Sound(u, mk, ak \cup B, ar, cr, cl, ls, sk, ss)
<1>1. MadeOK(mk, ak \cup B, ar, cr)
  BY DEF Sound, MadeOK
<1>2. CallsOK(cl, mk, ak \cup B)
  BY DEF Sound, CallsOK, CallOK
<1>3. AppendsOK(cl, mk, ak \cup B)
  BY DEF Sound, AppendsOK, BatchOK
<1>4. ListsOK(cl, mk, ak \cup B, ar, ls)
  BY DEF Sound, ListsOK
<1>. QED
  BY <1>1, <1>2, <1>3, <1>4 DEF Sound

LEMMA CatIs ==
    ASSUME NEW s, NEW b, IsSeq(s), IsSeq(b)
    PROVE  /\ IsSeq(s \o b) /\ Range(s \o b) = Range(s) \cup Range(b)
           /\ \A i \in DOMAIN (s \o b) :
                  \/ i \in DOMAIN s /\ (s \o b)[i] = s[i]
                  \/ \E j \in DOMAIN b : i = Len(s) + j /\ (s \o b)[i] = b[j]
           /\ Len(s) \in Nat /\ DOMAIN s = 1..Len(s)
<1>. DEFINE S == Range(s) \cup Range(b)
            t == s \o b
<1>1. s \in Seq(S) /\ b \in Seq(S)
  BY DEF IsSeq
<1>2. /\ t \in Seq(S) /\ Len(t) = Len(s) + Len(b) /\ Len(s) \in Nat /\ Len(b) \in Nat
      /\ DOMAIN s = 1..Len(s) /\ DOMAIN b = 1..Len(b) /\ DOMAIN t = 1..Len(t)
      /\ \A i \in 1..Len(t) : t[i] = IF i <= Len(s) THEN s[i] ELSE b[i - Len(s)]
  BY <1>1
<1>. HIDE DEF t
<1>3. ASSUME NEW i \in DOMAIN t
      PROVE  \/ i \in DOMAIN s /\ t[i] = s[i]
             \/ \E j \in DOMAIN b : i = Len(s) + j /\ t[i] = b[j]
  <2>1. CASE i <= Len(s)
    BY <1>2, <1>3, <2>1
  <2>2. CASE i > Len(s)
    <3>1. i - Len(s) \in DOMAIN b /\ i = Len(s) + (i - Len(s)) /\ t[i] = b[i - Len(s)]
      BY <1>2, <1>3, <2>2
    <3>. QED
      BY <3>1
  <2>. QED
    BY <1>2, <1>3, <2>1, <2>2
<1>4. ASSUME NEW i \in DOMAIN s PROVE i \in DOMAIN t /\ t[i] = s[i]
  BY <1>2, <1>4
<1>5. ASSUME NEW i \in DOMAIN b PROVE Len(s) + i \in DOMAIN t /\ t[Len(s) + i] = b[i]
  BY <1>2, <1>5
<1>6. Range(t) = S
  BY <1>3, <1>4, <1>5 DEF Range
<1>7. t \in Seq(Range(t))
  BY <1>2, <1>6
<1>. QED
  BY <1>2, <1>3, <1>6, <1>7 DEF IsSeq, t

\* A batch behind a log.
LEMMA LogPushed ==
    ASSUME NEW mk, NEW ak, NEW ar, NEW cr, MadeOK(mk, ak, ar, cr),
           NEW s, NEW k, LogOK(mk, s, k),
           NEW b, BatchOK(mk, ak, b, k), Range(b) \cap Range(s) = {}
    PROVE  LogOK(mk, s \o b, k)
<1>. DEFINE t == s \o b
<1>1. /\ IsSeq(t) /\ Range(t) = Range(s) \cup Range(b)
      /\ \A i \in DOMAIN t :
             \/ i \in DOMAIN s /\ t[i] = s[i]
             \/ \E j \in DOMAIN b : i = Len(s) + j /\ t[i] = b[j]
      /\ Len(s) \in Nat /\ DOMAIN s = 1..Len(s)
  BY CatIs DEF LogOK, BatchOK
<1>. HIDE DEF t
<1>2. /\ \A i \in DOMAIN s : s[i] \in Range(s)
      /\ \A i \in DOMAIN b : b[i] \in Range(b)
      /\ \A i \in DOMAIN b : b[i] \in Nat /\ i \in Nat \ {0}
  <2>1. DOMAIN mk \subseteq Nat /\ DOMAIN b \subseteq Nat \ {0}
    <3>1. mk \in Seq(Range(mk)) /\ b \in Seq(Range(b))
      BY DEF MadeOK, BatchOK, IsSeq
    <3>. QED
      BY <3>1
  <2>2. Range(b) \subseteq DOMAIN mk
    BY DEF BatchOK, Ents
  <2>. QED
    BY <2>1, <2>2 DEF Range
<1>3. ASSUME NEW i \in DOMAIN b, NEW j \in DOMAIN b, b[i] = b[j] PROVE i = j
  <2>1. i \in Nat /\ j \in Nat /\ b[i] \in Nat /\ b[j] \in Nat
    BY <1>2
  <2>2. (i < j => b[i] < b[j]) /\ (j < i => b[j] < b[i])
    BY DEF BatchOK
  <2>. QED
    BY <1>3, <2>1, <2>2
<1>4. ASSUME NEW i \in DOMAIN t, NEW j \in DOMAIN t, t[i] = t[j] PROVE i = j
  <2>1. CASE i \in DOMAIN s /\ t[i] = s[i] /\ j \in DOMAIN s /\ t[j] = s[j]
    BY <1>4, <2>1 DEF LogOK
  <2>2. ASSUME NEW a \in DOMAIN b, NEW c \in DOMAIN b, i = Len(s) + a, t[i] = b[a],
               j = Len(s) + c, t[j] = b[c]
        PROVE  i = j
    BY <1>3, <1>4, <2>2
  <2>. QED
    BY <1>1, <1>2, <1>4, <2>1, <2>2
<1>5. Range(t) \subseteq Ents(mk, {k})
  BY <1>1 DEF LogOK, BatchOK
<1>6. ASSUME NEW e \in Range(t), NEW f \in DOMAIN mk, mk[e].batch = mk[f].batch
      PROVE  f \in Range(t)
  BY <1>1, <1>6 DEF LogOK, BatchOK
<1>7. ASSUME NEW i \in DOMAIN t, NEW j \in DOMAIN t, InOrder(mk, t[i], t[j]) PROVE i < j
  <2>0. /\ \A f \in Range(t) : mk[f].earlier \subseteq ak /\ f \in DOMAIN mk
        /\ Range(b) \cap ak = {}
    BY <1>5 DEF MadeOK, Ents, BatchOK
  <2>1. CASE i \in DOMAIN s /\ t[i] = s[i] /\ j \in DOMAIN s /\ t[j] = s[j]
    BY <1>7, <2>1 DEF LogOK
  <2>2. ASSUME NEW a \in DOMAIN b, i \in DOMAIN s, t[i] = s[i], j = Len(s) + a, t[j] = b[a]
        PROVE  i < j
    BY <1>1, <1>2, <2>2
  <2>3. ASSUME NEW a \in DOMAIN b, i = Len(s) + a, t[i] = b[a]
        PROVE  /\ t[i] \in Range(b) /\ t[i] \notin ak /\ t[j] \in Range(t) /\ t[j] \in DOMAIN mk
               /\ mk[t[i]].batch = mk[t[j]].batch /\ t[i] < t[j] /\ t[j] \in Range(b)
    <3>1. t[i] \in Range(b) /\ t[j] \in Range(t)
      BY <1>2, <2>3 DEF Range
    <3>2. t[i] \notin ak /\ t[j] \in DOMAIN mk /\ mk[t[j]].earlier \subseteq ak
      BY <2>0, <3>1
    <3>3. mk[t[i]].batch = mk[t[j]].batch /\ t[i] < t[j]
      BY <1>7, <3>2 DEF InOrder
    <3>. QED
      BY <3>1, <3>2, <3>3 DEF BatchOK
  <2>4. ASSUME NEW a \in DOMAIN b, i = Len(s) + a, t[i] = b[a], j \in DOMAIN s, t[j] = s[j]
        PROVE  FALSE
    BY <1>2, <2>3, <2>4
  <2>5. ASSUME NEW a \in DOMAIN b, NEW c \in DOMAIN b, i = Len(s) + a, t[i] = b[a],
               j = Len(s) + c, t[j] = b[c]
        PROVE  i < j
    <3>1. b[a] < b[c]
      BY <2>3, <2>5
    <3>2. a \in Nat /\ c \in Nat /\ b[a] \in Nat /\ b[c] \in Nat
      BY <1>2
    <3>3. c < a => b[c] < b[a]
      BY DEF BatchOK
    <3>4. a < c
      BY <3>1, <3>2, <3>3
    <3>. QED
      BY <1>1, <2>5, <3>2, <3>4
  <2>. QED
    BY <1>1, <2>1, <2>2, <2>4, <2>5
<1>. QED
  BY <1>1, <1>4, <1>5, <1>6, <1>7 DEF LogOK, t

\* The lists after a push, and the sets of names.
LEMMA Pushes ==
    ASSUME NEW u, NEW mk, NEW ak, NEW ar, NEW cr, NEW cl, NEW ls, NEW sk, NEW ss,
           Sound(u, mk, ak, ar, cr, cl, ls, sk, ss),
           NEW k \in StoreKeys, NEW b, BatchOK(mk, ak, b, k), Range(b) \cap Range(ls[k]) = {},
           \A d \in Callers :
               /\ AppendsNow(cl[d]) => Range(b) \cap Range(cl[d].batch) = {}
               /\ DeletesNow(cl[d]) /\ Takes(cl[d].key, k) => Range(b) \subseteq cr,
           Exact(u) => \A d \in Callers : cl[d].pc # "done"
    PROVE  Sound(u, mk, ak, ar, cr, cl, [ls EXCEPT ![k] = @ \o b],
                 IF IsMain(k) THEN sk ELSE sk \cup {k}, IF IsMain(k) THEN ss \cup {k[1]} ELSE ss)
<1>. DEFINE ls2 == [ls EXCEPT ![k] = @ \o b]
            sk2 == IF IsMain(k) THEN sk ELSE sk \cup {k}
            ss2 == IF IsMain(k) THEN ss \cup {k[1]} ELSE ss
<1>0. /\ MadeOK(mk, ak, ar, cr) /\ DOMAIN ls = StoreKeys
      /\ \A j \in StoreKeys : LogOK(mk, ls[j], j)
      /\ Range(b) \cap ak = {} /\ b # <<>> /\ IsSeq(b)
  BY DEF Sound, ListsOK, BatchOK
<1>1. DOMAIN ls2 = StoreKeys /\ ls2[k] = ls[k] \o b /\ \A j \in StoreKeys \ {k} : ls2[j] = ls[j]
  BY <1>0
<1>. HIDE DEF ls2
<1>2. LogOK(mk, ls2[k], k)
  BY <1>0, <1>1, LogPushed
<1>3. Range(ls2[k]) = Range(ls[k]) \cup Range(b) /\ ls2[k] # <<>>
  <2>1. Range(ls2[k]) = Range(ls[k]) \cup Range(b)
    <3>1. IsSeq(ls[k]) /\ IsSeq(b) /\ ls2[k] = ls[k] \o b
      BY <1>0, <1>1 DEF LogOK
    <3>. QED
      BY ONLY <3>1, CatIs
  <2>2. \E e : e \in Range(b)
    <3>1. b \in Seq(Range(b)) /\ b # <<>>
      BY <1>0 DEF IsSeq
    <3>2. 1 \in DOMAIN b
      BY <3>1
    <3>. QED
      BY <3>2 DEF Range
  <2>3. Range(<<>>) = {}
    BY DEF Range
  <2>. QED
    BY <2>1, <2>2, <2>3
<1>4. ListsOK(cl, mk, ak, ar, ls2)
  <2>1. \A c \in Callers : AppendsNow(cl[c]) => Range(cl[c].batch) \cap Range(ls2[cl[c].key]) = {}
    <3>1. \A c \in Callers : AppendsNow(cl[c]) => cl[c].key \in StoreKeys
      BY DEF Sound, CallsOK, CallOK, AppendsNow
    <3>. QED
      BY <1>1, <1>3, <3>1 DEF Sound, ListsOK
  <2>2. \A e \in ak \ ar : e \in Range(ls2[mk[e].key])
    <3>1. \A e \in ak : mk[e].key \in StoreKeys
      BY <1>0 DEF MadeOK
    <3>. QED
      BY <1>1, <1>3, <3>1 DEF Sound, ListsOK
  <2>. QED
    BY <1>0, <1>1, <1>2, <2>1, <2>2 DEF ListsOK
<1>5. IndexOK(ls2, sk2, ss2, cr)
  <2>1. k = <<k[1], k[2]>> /\ k[1] \in StoreSessions /\ \A s : MainKey(s) = k => s = k[1]
    <3>1. k = <<k[1], k[2]>> /\ k[1] \in StoreSessions
      BY CallsAssumption, Zenon DEF StoreSessions
    <3>2. \A s : MainKey(s)[1] = s
      BY DEF MainKey
    <3>. QED
      BY <3>1, <3>2, Zenon
  <2>2. ss2 = {s \in StoreSessions : ls2[MainKey(s)] # <<>>}
    <3>0. \A s \in StoreSessions : MainKey(s) \in StoreKeys
      BY CallsAssumption DEF StoreSessions
    <3>1. CASE IsMain(k)
      <4>1. MainKey(k[1]) = k
        BY <2>1, <3>1 DEF IsMain, MainKey
      <4>. QED
        BY <1>1, <1>3, <2>1, <3>0, <3>1, <4>1 DEF Sound, IndexOK
    <3>2. CASE ~IsMain(k)
      <4>1. \A s : MainKey(s) # k
        BY <3>2 DEF IsMain, MainKey
      <4>. QED
        BY <1>1, <3>0, <3>2, <4>1 DEF Sound, IndexOK
    <3>. QED
      BY <3>1, <3>2
  <2>3. sk2 \subseteq {j \in StoreKeys : ~IsMain(j)}
    BY DEF Sound, IndexOK
  <2>4. ASSUME NEW j \in StoreKeys, ~IsMain(j)
        PROVE  (j \in sk2 => ls2[j] # <<>>) /\ (j \notin sk2 => Range(ls2[j]) \subseteq cr)
    BY <1>1, <1>3, <2>4 DEF Sound, IndexOK
  <2>. QED
    BY <2>2, <2>3, <2>4 DEF IndexOK
<1>. HIDE DEF sk2, ss2
<1>6. LearntOK(cl, ls2, cr)
  <2>1. ASSUME NEW d \in Callers, cl[d].pc = "delete", NEW j \in Below(cl[d].key[1]) \ cl[d].found
        PROVE  Range(ls2[j]) \subseteq cr
    <3>1. IsMain(cl[d].key) /\ Range(ls[j]) \subseteq cr /\ j \in StoreKeys /\ j[1] = cl[d].key[1]
      BY <2>1 DEF Sound, LearntOK, Learnt, Below
    <3>2. DeletesNow(cl[d])
      BY <2>1 DEF Sound, CallsOK, CallOK, DeletesNow
    <3>3. j = k => Range(b) \subseteq cr
      BY <3>1, <3>2 DEF Takes
    <3>. QED
      BY <1>1, <1>3, <3>1, <3>3
  <2>. QED
    BY <2>1 DEF Sound, LearntOK, Learnt
<1>7. ASSUME NEW d \in Callers PROVE AnswerOK(mk, ar, cr, ls2, sk2, ss2, Exact(u), cl[d])
  <2>. DEFINE r == cl[d]
  <2>0. AnswerOK(mk, ar, cr, ls, sk, ss, Exact(u), r) /\ CallOK(mk, ak, r)
    BY DEF Sound, AnswersOK, CallsOK
  <2>1. Exact(u) => r.pc # "done"
    OBVIOUS
  <2>. HIDE DEF r
  <2>2. DeletedOK(ls, cr, r) => DeletedOK(ls2, cr, r)
    <3>1. r.before \cap Range(b) = {}
      BY <1>0, <2>0 DEF CallOK
    <3>. QED
      BY <1>1, <1>3, <3>1 DEF DeletedOK
  <2>3. AnswerOK(mk, ar, cr, ls2, sk2, ss2, Exact(u), r)
    BY <2>0, <2>1, <2>2 DEF AnswerOK, LoadedOK, SessionsOK, SubkeysOK
  <2>. QED
    BY <2>3 DEF r
<1>8. Sound(u, mk, ak, ar, cr, cl, ls2, sk2, ss2)
  BY <1>4, <1>5, <1>6, <1>7 DEF Sound, AnswersOK
<1>. QED
  BY <1>8 DEF ls2, sk2, ss2

\* A deletion on its way has what it reads removed.
LEMMA Shrinks ==
    ASSUME NEW u, NEW mk, NEW ak, NEW ar, NEW cr, NEW cl, NEW ls, NEW sk, NEW ss,
           Sound(u, mk, ak, ar, cr, cl, ls, sk, ss),
           NEW k \in StoreKeys, Ents(mk, Concerns("delete", k)) \subseteq ar,
           NEW ls2, NEW sk2, NEW ss2, DOMAIN ls2 = StoreKeys, IndexOK(ls2, sk2, ss2, cr),
           \A j \in StoreKeys : ls2[j] = ls[j] \/ (ls2[j] = <<>> /\ Takes(k, j)),
           Exact(u) => \A d \in Callers : cl[d].pc # "done"
    PROVE  Sound(u, mk, ak, ar, cr, cl, ls2, sk2, ss2)
<1>0. \A j \in StoreKeys : Range(ls2[j]) \subseteq Range(ls[j])
  BY DEF Range
<1>1. ASSUME NEW j \in StoreKeys PROVE LogOK(mk, ls2[j], j)
  <2>1. LogOK(mk, <<>>, j)
    <3>. DEFINE e == <<>>
    <3>1. e \in Seq({}) /\ DOMAIN e = {} /\ Range(e) = {}
      BY DEF Range
    <3>. HIDE DEF e
    <3>2. LogOK(mk, e, j)
      BY <3>1 DEF LogOK, IsSeq
    <3>. QED
      BY <3>2 DEF e
  <2>. QED
    BY <2>1 DEF Sound, ListsOK
<1>2. ListsOK(cl, mk, ak, ar, ls2)
  <2>1. \A c \in Callers : AppendsNow(cl[c]) => cl[c].key \in StoreKeys
    BY DEF Sound, CallsOK, CallOK, AppendsNow
  <2>2. \A c \in Callers : AppendsNow(cl[c]) => Range(cl[c].batch) \cap Range(ls2[cl[c].key]) = {}
    BY <1>0, <2>1 DEF Sound, ListsOK
  <2>3. ASSUME NEW e \in ak \ ar PROVE e \in Range(ls2[mk[e].key])
    <3>1. mk[e].key \in StoreKeys /\ e \in DOMAIN mk
      BY DEF Sound, MadeOK
    <3>2. ~Takes(k, mk[e].key)
      BY <3>1 DEF Ents, Concerns
    <3>. QED
      BY <3>1, <3>2 DEF Sound, ListsOK
  <2>. QED
    BY <1>1, <2>2, <2>3 DEF ListsOK
<1>3. LearntOK(cl, ls2, cr)
  BY <1>0 DEF Sound, LearntOK, Learnt, Below
<1>4. ASSUME NEW d \in Callers PROVE AnswerOK(mk, ar, cr, ls2, sk2, ss2, Exact(u), cl[d])
  <2>. DEFINE r == cl[d]
  <2>0. AnswerOK(mk, ar, cr, ls, sk, ss, Exact(u), r) /\ (Exact(u) => r.pc # "done")
    BY DEF Sound, AnswersOK
  <2>. HIDE DEF r
  <2>1. DeletedOK(ls, cr, r) => DeletedOK(ls2, cr, r)
    BY <1>0 DEF DeletedOK
  <2>2. AnswerOK(mk, ar, cr, ls2, sk2, ss2, Exact(u), r)
    BY <2>0, <2>1 DEF AnswerOK, LoadedOK, SessionsOK, SubkeysOK
  <2>. QED
    BY <2>2 DEF r
<1>. QED
  BY <1>2, <1>3, <1>4 DEF Sound, AnswersOK

-----------------------------------------------------------------------------
\* The steps of the callers and of the adapter

\* What is left of a call that raised, or returned.
Raised(r) == [r EXCEPT !.pc = "raised", !.found = {}, !.left = {}, !.token = {}]
Returned(r, answer, found) ==
    [r EXCEPT !.pc = "done", !.answer = answer, !.found = found, !.left = {}, !.token = {}]

LEMMA RaisedIs ==
    ASSUME NEW mk, NEW ak, NEW r, CallOK(mk, ak, r), r.pc # "idle"
    PROVE  /\ CallOK(mk, ak, Raised(r)) /\ Raised(r).pc = "raised"
           /\ Raised(r).method = r.method /\ Raised(r).key = r.key /\ Raised(r).before = r.before
<1>1. DOMAIN Raised(r) = CallFields
  BY DEF CallOK, Raised
<1>2. /\ Raised(r).pc = "raised" /\ Raised(r).token = {}
      /\ Raised(r).method = r.method /\ Raised(r).key = r.key /\ Raised(r).before = r.before
  BY DEF CallOK, CallFields, Raised
<1>. QED
  BY <1>1, <1>2 DEF CallOK

LEMMA ReturnedIs ==
    ASSUME NEW mk, NEW ak, NEW r, CallOK(mk, ak, r), r.pc # "idle", NEW a, NEW f
    PROVE  /\ CallOK(mk, ak, Returned(r, a, f)) /\ Returned(r, a, f).pc = "done"
           /\ Returned(r, a, f).method = r.method /\ Returned(r, a, f).key = r.key
           /\ Returned(r, a, f).before = r.before
           /\ Returned(r, a, f).answer = a /\ Returned(r, a, f).found = f
<1>1. DOMAIN Returned(r, a, f) = CallFields
  BY DEF CallOK, Returned
<1>2. /\ Returned(r, a, f).pc = "done" /\ Returned(r, a, f).token = {}
      /\ Returned(r, a, f).method = r.method /\ Returned(r, a, f).key = r.key
      /\ Returned(r, a, f).before = r.before
      /\ Returned(r, a, f).answer = a /\ Returned(r, a, f).found = f
  BY DEF CallOK, CallFields, Returned
<1>. QED
  BY <1>1, <1>2 DEF CallOK

LEMMA DoneIs ==
    ASSUME RedisInv, NEW c \in Callers, NEW a, NEW f, Done(c, a, f)
    PROVE  call' = [call EXCEPT ![c] = Returned(call[c], a, f)]
  BY DEF RedisInv, Sound, CallsOK, CallOK, CallFields, Done, Returned

LEMMA StartedIs ==
    ASSUME NEW prog, NEW method, NEW k, NEW b
    PROVE  LET r == Started(prog, method, k, b)
           IN  /\ DOMAIN r = CallFields /\ r.method = method /\ r.pc = "start" /\ r.key = k
               /\ r.batch = b /\ r.token = {}
               /\ r.before = acked \cap EntriesOf(Concerns(method, k))
  BY DEF Started, Idle, CallFields

LEMMA StartedOK ==
    ASSUME NEW prog, NEW method \in Methods, NEW k, NEW b,
           method # "sessions" => k \in StoreKeys
    PROVE  CallOK(made, acked, Started(prog, method, k, b))
<1>. DEFINE r == Started(prog, method, k, b)
<1>1. /\ DOMAIN r = CallFields /\ r.method = method /\ r.pc = "start" /\ r.key = k
      /\ r.token = {} /\ r.before = acked \cap EntriesOf(Concerns(method, k))
  BY StartedIs
<1>. HIDE DEF r
<1>2. CallOK(made, acked, r)
  BY <1>1 DEF CallOK, EntriesOf, Ents, Methods
<1>. QED
  BY <1>2 DEF r

LEMMA SettingIs ==
    ASSUME setup \in Setups
    PROVE  /\ setup.keys \subseteq StoreKeys /\ setup.sizes \subseteq Nat \ {0}
           /\ setup.calls \in Nat
  BY CallsAssumption DEF Setting

\* A step that changes one call and nothing that calls are judged by.
LEMMA CallKeeps ==
    ASSUME RedisInv, NEW c \in Callers, NEW r, call' = [call EXCEPT ![c] = r],
           UNCHANGED <<setup, made, acked, atRisk, crossed, redisVars>>, calls' \in Nat,
           CallOK(made, acked, r), ~AppendsNow(r),
           DeletesNow(r) => DeletesNow(call[c]) /\ r.key = call[c].key,
           r.pc # "idle" =>
               \/ call[c].pc # "idle"
               \/ setup.calls # 0 /\ (setup.serial => \A d \in Callers : call[d].pc = "idle"),
           Learnt(lists, crossed, r),
           AnswerOK(made, atRisk, crossed, lists, subkeys, sessions, Exact(setup), r)
    PROVE  RedisInv'
<1>. DEFINE cl == [call EXCEPT ![c] = r]
<1>0. DOMAIN call = Callers
  BY DEF RedisInv, Sound, CallsOK
<1>1. setup.serial /\ r.pc # "idle" => \A d \in Callers \ {c} : call[d].pc = "idle"
  BY DEF RedisInv, Sound, SerialOK
<1>2. DeletesNow(r) =>
          /\ Ents(made, Concerns("delete", r.key)) \subseteq atRisk
          /\ \A d \in Callers \ {c} :
                 AppendsNow(call[d]) /\ Takes(r.key, call[d].key) =>
                     Range(call[d].batch) \subseteq crossed
  BY DEF RedisInv, Sound, DeletesOK
<1>3. Sound(setup, made, acked, atRisk, crossed, cl, lists, subkeys, sessions)
  BY <1>1, <1>2, CallSet DEF RedisInv
<1>4. setup.calls = 0 => \A d \in Callers : cl[d].pc = "idle"
  BY <1>0 DEF RedisInv
<1>. HIDE DEF cl
<1>5. call' = cl
  BY DEF cl
<1>. QED
  BY <1>3, <1>4, <1>5 DEF RedisInv, redisVars

LEMMA BeginsDoes ==
    ASSUME RedisInv, NEW c \in Callers, NEW prog, Begins(c, prog)
    PROVE  /\ call[c].pc = "idle" /\ setup.calls # 0 /\ calls' \in Nat
           /\ setup.serial => \A d \in Callers : call[d].pc = "idle"
<1>1. setup.calls \in Nat /\ calls \in Nat
  BY SettingIs DEF RedisInv
<1>. QED
  BY <1>1 DEF Begins

\* A method that reads is called.
LEMMA ReadBegins ==
    ASSUME RedisInv, NEW c \in Callers, NEW prog, NEW method \in {"load", "subkeys", "sessions"},
           NEW k, method # "sessions" => k \in StoreKeys,
           Calls(c, prog, method, k), UNCHANGED redisVars, calls' \in Nat,
           \/ call[c].pc # "idle"
           \/ setup.calls # 0 /\ (setup.serial => \A d \in Callers : call[d].pc = "idle")
    PROVE  RedisInv'
<1>. DEFINE r == Started(prog, method, k, <<>>)
<1>1. /\ call' = [call EXCEPT ![c] = r]
      /\ UNCHANGED <<setup, made, acked, atRisk, crossed, redisVars>>
  BY DEF Calls
<1>2. r.method = method /\ r.pc = "start"
  BY StartedIs
<1>3. CallOK(made, acked, r)
  BY StartedOK DEF Methods
<1>. HIDE DEF r
<1>4. Learnt(lists, crossed, r) /\ ~AppendsNow(r) /\ ~DeletesNow(r)
      /\ AnswerOK(made, atRisk, crossed, lists, subkeys, sessions, Exact(setup), r)
  BY <1>2 DEF Learnt, AppendsNow, DeletesNow, AnswerOK
<1>. QED
  BY <1>1, <1>3, <1>4, CallKeeps

LEMMA RaisesKeeps ==
    ASSUME RedisInv, NEW c \in Callers, call[c].pc # "idle", Raises(c), UNCHANGED redisVars
    PROVE  RedisInv'
<1>. DEFINE r == Raised(call[c])
<1>1. call' = [call EXCEPT ![c] = r] /\ UNCHANGED <<setup, made, acked, atRisk, crossed, redisVars>>
      /\ calls' \in Nat
  BY DEF Raises, StaysBut, Stays, Raised, RedisInv
<1>2. CallOK(made, acked, r) /\ r.pc = "raised"
  BY RaisedIs DEF RedisInv, Sound, CallsOK
<1>. HIDE DEF r
<1>3. Learnt(lists, crossed, r) /\ ~AppendsNow(r) /\ ~DeletesNow(r)
      /\ AnswerOK(made, atRisk, crossed, lists, subkeys, sessions, Exact(setup), r)
  BY <1>2 DEF Learnt, AppendsNow, DeletesNow, AnswerOK
<1>. QED
  BY <1>1, <1>2, <1>3, CallKeeps

LEMMA IdleKeeps ==
    ASSUME RedisInv, NEW c \in Callers, StaysBut(c, Idle), UNCHANGED redisVars
    PROVE  RedisInv'
<1>1. call' = [call EXCEPT ![c] = Idle] /\ UNCHANGED <<setup, made, acked, atRisk, crossed, redisVars>>
      /\ calls' \in Nat
  BY DEF StaysBut, Stays, RedisInv
<1>2. CallOK(made, acked, Idle) /\ Idle.pc = "idle"
  BY DEF CallOK, Idle, CallFields, Methods
<1>3. Learnt(lists, crossed, Idle) /\ ~AppendsNow(Idle) /\ ~DeletesNow(Idle)
      /\ AnswerOK(made, atRisk, crossed, lists, subkeys, sessions, Exact(setup), Idle)
  BY <1>2 DEF Learnt, AppendsNow, DeletesNow, AnswerOK
<1>. QED
  BY <1>1, <1>2, <1>3, CallKeeps

\* A method that reads returns.
LEMMA ReadReturns ==
    ASSUME RedisInv, NEW c \in Callers, NEW a, NEW f, Done(c, a, f), Stays, UNCHANGED redisVars,
           call[c].pc # "idle",
           LET r == Returned(call[c], a, f)
           IN  AnswerOK(made, atRisk, crossed, lists, subkeys, sessions, Exact(setup), r)
    PROVE  RedisInv'
<1>. DEFINE r == Returned(call[c], a, f)
<1>1. call' = [call EXCEPT ![c] = r] /\ UNCHANGED <<setup, made, acked, atRisk, crossed, redisVars>>
      /\ calls' \in Nat
  BY DoneIs DEF Stays, RedisInv
<1>2. CallOK(made, acked, r) /\ r.pc = "done"
  BY ReturnedIs DEF RedisInv, Sound, CallsOK
<1>3. AnswerOK(made, atRisk, crossed, lists, subkeys, sessions, Exact(setup), r)
  OBVIOUS
<1>. HIDE DEF r
<1>4. Learnt(lists, crossed, r) /\ ~AppendsNow(r) /\ ~DeletesNow(r)
  BY <1>2 DEF Learnt, AppendsNow, DeletesNow
<1>. QED
  BY <1>1, <1>2, <1>3, <1>4, CallKeeps

\* A deletion begins.
LEMMA DeleteBegins ==
    ASSUME RedisInv, NEW c \in Callers, NEW prog, NEW k \in StoreKeys,
           Calls(c, prog, "delete", k), UNCHANGED redisVars,
           call[c].pc = "idle", setup.calls # 0, calls' \in Nat,
           setup.serial => \A d \in Callers : call[d].pc = "idle"
    PROVE  RedisInv'
<1>. DEFINE r == Started(prog, "delete", k, <<>>)
            gone == EntriesOf(Concerns("delete", k))
            cl == [call EXCEPT ![c] = r]
<1>1. /\ call' = cl /\ UNCHANGED <<setup, made, acked, redisVars>>
      /\ atRisk' = atRisk \cup gone
      /\ crossed' = crossed \cup (gone \cap UNION {Batch(d) : d \in Appending})
  BY DEF Calls
<1>2. r.method = "delete" /\ r.pc = "start" /\ r.key = k
  BY StartedIs
<1>3. CallOK(made, acked, r)
  BY StartedOK DEF Methods
<1>4. Sound(setup, made, acked, atRisk, crossed, call, lists, subkeys, sessions)
  BY DEF RedisInv
<1>. HIDE DEF r
<1>5. Learnt(lists, crossed', r) /\ ~AppendsNow(r) /\ DeletesNow(r)
      /\ AnswerOK(made, atRisk', crossed', lists, subkeys, sessions, Exact(setup), r)
  BY <1>2 DEF Learnt, AppendsNow, DeletesNow, AnswerOK
<1>6. gone = Ents(made, Concerns("delete", k))
  BY DEF EntriesOf, Ents
<1>7. \A d \in Callers : AppendsNow(call[d]) <=> d \in Appending
  <2>1. \A d \in Callers : CallOK(made, acked, call[d])
    BY <1>4 DEF Sound, CallsOK
  <2>. QED
    BY <2>1 DEF CallOK, AppendsNow, Appending, Over
<1>. HIDE DEF gone
<1>8. MadeOK(made, acked, atRisk', crossed') /\ atRisk \subseteq atRisk' /\ crossed \subseteq crossed'
  BY <1>1, <1>4, <1>6 DEF Sound, MadeOK, Ents
<1>9. setup.serial => crossed' = {}
  <2>1. setup.serial => Appending = {}
    BY DEF Appending, Over
  <2>2. setup.serial => crossed = {}
    BY <1>4 DEF Sound, SerialOK
  <2>. QED
    BY <1>1, <2>1, <2>2
<1>10. Sound(setup, made, acked, atRisk', crossed', call, lists, subkeys, sessions)
  <2>1. Grown(made, made)
    BY DEF Grown
  <2>2. \A d \in Callers : DeletesNow(call[d]) =>
            Ents(made, Concerns("delete", call[d].key)) \ DOMAIN made \subseteq atRisk'
    BY DEF Ents
  <2>. QED
    BY ONLY <1>4, <1>8, <1>9, <2>1, <2>2, Grows
<1>11. ASSUME NEW d \in Callers \ {c}, AppendsNow(call[d]), Takes(r.key, call[d].key)
       PROVE  Range(call[d].batch) \subseteq crossed'
  <2>1. d \in Appending /\ Range(call[d].batch) = Batch(d)
    BY <1>7, <1>11 DEF Batch
  <2>2. BatchOK(made, acked, call[d].batch, call[d].key) /\ call[d].key \in StoreKeys
    BY <1>4, <1>11 DEF Sound, AppendsOK, CallsOK, CallOK, AppendsNow
  <2>3. call[d].key \in Concerns("delete", k)
    BY <1>2, <1>11, <2>2 DEF Concerns
  <2>4. Range(call[d].batch) \subseteq gone
    BY <1>6, <2>2, <2>3 DEF BatchOK, Ents
  <2>. QED
    BY <1>1, <2>1, <2>4
<1>12. Ents(made, Concerns("delete", r.key)) \subseteq atRisk'
  BY <1>1, <1>2, <1>6
<1>13. Sound(setup, made, acked, atRisk', crossed', cl, lists, subkeys, sessions)
  <2>1. setup.serial /\ r.pc # "idle" => \A d \in Callers \ {c} : call[d].pc = "idle"
    OBVIOUS
  <2>. HIDE DEF cl
  <2>2. Sound(setup, made, acked, atRisk', crossed', [call EXCEPT ![c] = r], lists, subkeys, sessions)
    BY ONLY c \in Callers, <1>3, <1>5, <1>10, <1>11, <1>12, <2>1, CallSet
  <2>. QED
    BY <2>2 DEF cl
<1>. HIDE DEF cl
<1>. QED
  BY <1>1, <1>13 DEF RedisInv, redisVars

Joined(u, s, N, t, n) ==
    /\ DOMAIN u = 1..(N + n) /\ Len(u) = N + n
    /\ \A e \in 1..N : u[e] = s[e]
    /\ \A e \in (N + 1)..(N + n) : u[e] = t[e - N] /\ e - N \in 1..n

LEMMA CatAt ==
    ASSUME NEW S, NEW s \in Seq(S), NEW t \in Seq(S)
    PROVE  Joined(s \o t, s, Len(s), t, Len(t))
<1>1. Len(s) \in Nat /\ Len(t) \in Nat
  OBVIOUS
<1>2. DOMAIN (s \o t) = 1..(Len(s) + Len(t)) /\ Len(s \o t) = Len(s) + Len(t)
  OBVIOUS
<1>3. \A e \in 1..(Len(s) + Len(t)) : (s \o t)[e] = IF e <= Len(s) THEN s[e] ELSE t[e - Len(s)]
  OBVIOUS
<1>. QED
  BY <1>1, <1>2, <1>3 DEF Joined

\* New entries, of a call that begins with them.
LEMMA AppendBegins ==
    ASSUME RedisInv, NEW c \in Callers, NEW prog, NEW k \in StoreKeys, NEW n \in Nat \ {0},
           CallsAppend(c, prog, k, n), UNCHANGED redisVars, ~DeletesNow(call[c]),
           setup.calls # 0, calls' \in Nat,
           setup.serial => \A d \in Callers \ {c} : call[d].pc = "idle"
    PROVE  RedisInv'
<1>. DEFINE N == Len(made)
            new == [i \in 1..n |-> [key |-> k, by |-> setup.instance[c], batch |-> N + 1,
                                    earlier |-> acked \cap EntriesOf({k})]]
            ids == [i \in 1..n |-> N + i]
            r == Started(prog, "append", k, ids)
            cl == [call EXCEPT ![c] = r]
<1>1. /\ made' = made \o new /\ call' = cl /\ UNCHANGED <<setup, acked, redisVars>>
      /\ atRisk' = IF BeingDeleted(k) THEN atRisk \cup Range(ids) ELSE atRisk
      /\ crossed' = IF BeingDeleted(k) THEN crossed \cup Range(ids) ELSE crossed
  BY DEF CallsAppend
<1>2. /\ r.method = "append" /\ r.pc = "start" /\ r.key = k /\ r.batch = ids /\ r.token = {}
      /\ DOMAIN r = CallFields /\ r.before = acked \cap EntriesOf(Concerns("append", k))
  BY StartedIs
<1>3. Sound(setup, made, acked, atRisk, crossed, call, lists, subkeys, sessions)
      /\ \A d \in Callers : CallOK(made, acked, call[d])
  BY DEF RedisInv, Sound, CallsOK
<1>4. /\ made \in Seq(Range(made)) /\ N \in Nat /\ DOMAIN made = 1..N
      /\ \A e \in DOMAIN made : made[e].key \in StoreKeys /\ made[e].batch \in 1..N
                               /\ made[e].earlier \subseteq acked
      /\ acked \subseteq DOMAIN made /\ atRisk \subseteq DOMAIN made /\ crossed \subseteq atRisk
  <2>1. made \in Seq(Range(made))
    BY <1>3 DEF Sound, MadeOK, IsSeq
  <2>. QED
    BY <1>3, <2>1 DEF Sound, MadeOK
<1>5. /\ DOMAIN new = 1..n /\ new \in Seq(Range(new)) /\ Len(new) = n
      /\ \A i \in 1..n : /\ new[i].key = k /\ new[i].batch = N + 1
                         /\ new[i].earlier = acked \cap EntriesOf({k})
  <2>1. DOMAIN new = 1..n
    OBVIOUS
  <2>2. \A i \in 1..n : new[i] \in Range(new)
    BY <2>1 DEF Range
  <2>. HIDE DEF N
  <2>3. new \in Seq(Range(new)) /\ Len(new) = n
    <3>1. new \in [1..n -> Range(new)]
      BY <2>2
    <3>. HIDE DEF new
    <3>. QED
      BY <3>1
  <2>. QED
    BY <2>1, <2>3
<1>6. /\ DOMAIN ids = 1..n /\ ids \in Seq(Range(ids)) /\ Len(ids) = n
      /\ \A i \in 1..n : ids[i] = N + i
      /\ Range(ids) = (N + 1)..(N + n)
  <2>1. DOMAIN ids = 1..n /\ \A i \in 1..n : ids[i] = N + i
    OBVIOUS
  <2>. HIDE DEF ids, N
  <2>2. Range(ids) = (N + 1)..(N + n)
    <3>1. ASSUME NEW e \in (N + 1)..(N + n) PROVE e \in Range(ids)
      <4>1. e - N \in 1..n /\ e = N + (e - N)
        BY <1>4
      <4>. QED
        BY <2>1, <4>1 DEF Range
    <3>. QED
      BY <1>4, <2>1, <3>1 DEF Range
  <2>3. ids \in Seq(Range(ids)) /\ Len(ids) = n
    <3>1. ids \in [1..n -> Range(ids)]
      <4>1. ids = [i \in 1..n |-> N + i]
        BY DEF ids
      <4>. QED
        BY <2>1, <4>1 DEF Range
    <3>. QED
      BY <3>1
  <2>. QED
    BY <2>1, <2>2, <2>3
<1>. HIDE DEF new, ids, r, cl, N
<1>7. /\ DOMAIN made' = 1..(N + n) /\ Len(made') = N + n /\ made' \in Seq(Range(made'))
      /\ \A e \in 1..N : made'[e] = made[e]
      /\ \A e \in (N + 1)..(N + n) : made'[e] = new[e - N] /\ e - N \in 1..n
  <2>0. IsSeq(made) /\ IsSeq(new)
    BY <1>4, <1>5 DEF IsSeq
  <2>1. IsSeq(made')
    BY <1>1, <2>0, CatIs
  <2>. DEFINE S == Range(made) \cup Range(new)
  <2>2. made \in Seq(S) /\ new \in Seq(S) /\ Len(made) = N /\ Len(new) = n
    BY <1>4, <1>5 DEF N
  <2>. HIDE DEF S
  <2>3. /\ DOMAIN made' = 1..(N + n) /\ Len(made') = N + n
        /\ \A e \in 1..N : made'[e] = made[e]
        /\ \A e \in (N + 1)..(N + n) : made'[e] = new[e - N] /\ e - N \in 1..n
    <3>1. Joined(made \o new, made, Len(made), new, Len(new))
      BY ONLY <2>2, CatAt
    <3>2. Joined(made', made, N, new, n)
      BY <1>1, <2>2, <3>1
    <3>. QED
      BY <3>2 DEF Joined
  <2>. QED
    BY <2>1, <2>3 DEF IsSeq
<1>8. /\ Grown(made, made') /\ DOMAIN made' \ DOMAIN made = Range(ids)
      /\ \A e \in Range(ids) : /\ e \in DOMAIN made' /\ e \notin DOMAIN made
                               /\ made'[e].key = k /\ made'[e].batch = N + 1
                               /\ made'[e].earlier = acked \cap EntriesOf({k})
  <2>1. \A e \in Range(ids) : /\ e \in DOMAIN made' /\ e \notin DOMAIN made
                              /\ made'[e].key = k /\ made'[e].batch = N + 1
                              /\ made'[e].earlier = acked \cap EntriesOf({k})
    <3>1. ASSUME NEW e \in (N + 1)..(N + n)
          PROVE  e \in DOMAIN made' /\ e \notin DOMAIN made /\ made'[e] = new[e - N] /\ e - N \in 1..n
      BY <1>4, <1>7
    <3>2. ASSUME NEW e \in (N + 1)..(N + n)
          PROVE  /\ made'[e].key = k /\ made'[e].batch = N + 1
                 /\ made'[e].earlier = acked \cap EntriesOf({k})
      BY ONLY <1>5, <3>1
    <3>. QED
      BY <1>6, <3>1, <3>2
  <2>2. DOMAIN made' \ DOMAIN made = Range(ids) /\ DOMAIN made \subseteq DOMAIN made'
    BY <1>4, <1>6, <1>7
  <2>3. \A e \in DOMAIN made : made'[e] = made[e] /\ made[e].batch # N + 1
    BY <1>4, <1>7
  <2>. QED
    BY <2>1, <2>2, <2>3 DEF Grown
<1>9. MadeOK(made', acked, atRisk', crossed') /\ atRisk \subseteq atRisk' /\ crossed \subseteq crossed'
  <2>1. ASSUME NEW e \in DOMAIN made'
        PROVE  /\ made'[e].key \in StoreKeys /\ made'[e].batch \in 1..Len(made')
               /\ made'[e].earlier \subseteq acked
    <3>1. CASE e \in DOMAIN made
      BY <1>4, <1>7, <3>1
    <3>2. CASE e \in Range(ids)
      BY <1>4, <1>7, <1>8, <3>2
    <3>. QED
      BY <1>8, <3>1, <3>2
  <2>2. acked \subseteq DOMAIN made' /\ atRisk' \subseteq DOMAIN made' /\ crossed' \subseteq atRisk'
    BY <1>1, <1>4, <1>8 DEF Grown
  <2>. QED
    BY <1>1, <1>7, <2>1, <2>2 DEF MadeOK, IsSeq
<1>10. \A d \in Callers : DeletesNow(call[d]) /\ Takes(call[d].key, k) => BeingDeleted(k)
  BY <1>3 DEF DeletesNow, BeingDeleted, Over
<1>11. setup.serial => crossed' = {}
  <2>1. BeingDeleted(k) => \E d \in Callers : DeletesNow(call[d])
    BY <1>3 DEF BeingDeleted, Over, DeletesNow, CallOK
  <2>2. setup.serial => ~BeingDeleted(k)
    BY <2>1 DEF DeletesNow
  <2>. QED
    BY <1>1, <1>3, <2>2 DEF Sound, SerialOK
<1>12. Sound(setup, made', acked, atRisk', crossed', call, lists, subkeys, sessions)
  <2>1. ASSUME NEW d \in Callers, DeletesNow(call[d])
        PROVE  Ents(made', Concerns("delete", call[d].key)) \ DOMAIN made \subseteq atRisk'
    <3>1. SUFFICES ASSUME NEW e \in Range(ids), e \in Ents(made', Concerns("delete", call[d].key))
                   PROVE  e \in atRisk'
      BY <1>8 DEF Ents
    <3>2. Takes(call[d].key, k)
      BY <1>8, <3>1 DEF Ents, Concerns
    <3>. QED
      BY <1>1, <1>10, <2>1, <3>2
  <2>. QED
    BY ONLY <1>3, <1>8, <1>9, <1>11, <2>1, Grows
<1>13. CallOK(made', acked, r)
  <2>1. acked \cap EntriesOf({k}) \subseteq Ents(made', {k})
    BY <1>8 DEF EntriesOf, Ents, Grown
  <2>2. Concerns("append", k) = {k}
    BY DEF Concerns
  <2>. QED
    BY <1>2, <2>1, <2>2 DEF CallOK, Methods
<1>14. BatchOK(made', acked, ids, k)
  <2>1. ids # <<>> /\ IsSeq(ids)
    BY <1>6 DEF IsSeq
  <2>2. Range(ids) \subseteq Ents(made', {k}) \ acked
    BY <1>4, <1>8 DEF Ents
  <2>3. \A i, j \in DOMAIN ids : i < j => ids[i] < ids[j]
    BY <1>4, <1>6
  <2>4. \A e \in Range(ids), f \in DOMAIN made' : made'[f].batch = made'[e].batch <=> f \in Range(ids)
    BY <1>4, <1>8 DEF Grown
  <2>. QED
    BY <2>1, <2>2, <2>3, <2>4 DEF BatchOK
<1>15. ASSUME NEW d \in Callers \ {c}
       PROVE  /\ AppendsNow(call[d]) => Range(ids) \cap Range(call[d].batch) = {}
              /\ DeletesNow(call[d]) /\ Takes(call[d].key, k) => Range(ids) \subseteq crossed'
  <2>1. AppendsNow(call[d]) => Range(call[d].batch) \subseteq DOMAIN made
    BY <1>3 DEF Sound, AppendsOK, BatchOK, Ents
  <2>. QED
    BY <1>1, <1>8, <1>10, <2>1
<1>16. Range(ids) \cap Range(lists[k]) = {}
  BY <1>3, <1>8 DEF Sound, ListsOK, LogOK, Ents
<1>17. /\ AppendsNow(r) /\ ~DeletesNow(r) /\ Learnt(lists, crossed', r)
       /\ AnswerOK(made', atRisk', crossed', lists, subkeys, sessions, Exact(setup), r)
  BY <1>2 DEF AppendsNow, DeletesNow, Learnt, AnswerOK
<1>18. Sound(setup, made', acked, atRisk', crossed', cl, lists, subkeys, sessions)
  <2>1. /\ BatchOK(made', acked, r.batch, r.key)
        /\ Range(r.batch) \cap Range(lists[r.key]) = {}
        /\ \A d \in Callers \ {c} :
              /\ AppendsNow(call[d]) => Range(r.batch) \cap Range(call[d].batch) = {}
              /\ DeletesNow(call[d]) /\ Takes(call[d].key, r.key) => Range(r.batch) \subseteq crossed'
    BY <1>2, <1>14, <1>15, <1>16
  <2>2. setup.serial => \A d \in Callers \ {c} : call[d].pc = "idle"
    OBVIOUS
  <2>3. Sound(setup, made', acked, atRisk', crossed', [call EXCEPT ![c] = r], lists, subkeys, sessions)
    BY ONLY c \in Callers, <1>12, <1>13, <1>17, <2>1, <2>2, CallSet
  <2>. QED
    BY <2>3 DEF cl
<1>. QED
  BY <1>1, <1>18 DEF RedisInv, redisVars

\* A call on its way, before its effect, is one that may as well raise.
LEMMA MayRaise ==
    ASSUME RedisInv, NEW c \in Callers, call[c].pc # "idle"
    PROVE  Sound(setup, made, acked, atRisk, crossed, [call EXCEPT ![c] = Raised(call[c])],
                 lists, subkeys, sessions)
<1>. DEFINE r == Raised(call[c])
<1>1. Sound(setup, made, acked, atRisk, crossed, call, lists, subkeys, sessions)
  BY DEF RedisInv
<1>2. CallOK(made, acked, r) /\ r.pc = "raised"
  BY RaisedIs DEF RedisInv, Sound, CallsOK
<1>3. setup.serial => \A d \in Callers \ {c} : call[d].pc = "idle"
  BY <1>1 DEF Sound, SerialOK
<1>. HIDE DEF r
<1>4. Learnt(lists, crossed, r) /\ ~AppendsNow(r) /\ ~DeletesNow(r)
      /\ AnswerOK(made, atRisk, crossed, lists, subkeys, sessions, Exact(setup), r)
  BY <1>2 DEF Learnt, AppendsNow, DeletesNow, AnswerOK
<1>5. Sound(setup, made, acked, atRisk, crossed, [call EXCEPT ![c] = r], lists, subkeys, sessions)
  BY ONLY c \in Callers, <1>1, <1>2, <1>3, <1>4, CallSet
<1>. QED
  BY <1>5 DEF r

\* With nobody else at it, and the effect there, the call raises or returns.
LEMMA EndKeeps ==
    ASSUME RedisInv, NEW c \in Callers, call[c].pc # "idle", NEW ak, NEW ls, NEW sk, NEW ss,
           UNCHANGED <<setup, made, atRisk, crossed, calls>>, acked' = ak,
           lists' = ls, subkeys' = sk, sessions' = ss,
           Sound(setup, made, ak, atRisk, crossed, [call EXCEPT ![c] = Raised(call[c])], ls, sk, ss),
           \/ call' = [call EXCEPT ![c] = Raised(call[c])]
           \/ /\ call' = [call EXCEPT ![c] = Returned(call[c], <<>>, {})]
              /\ call[c].method \in {"append", "delete"}
              /\ call[c].method = "delete" => DeletedOK(ls, crossed, call[c])
    PROVE  RedisInv'
<1>. DEFINE x == [call EXCEPT ![c] = Raised(call[c])]
            r == Returned(call[c], <<>>, {})
<1>0. DOMAIN call = Callers /\ CallOK(made, acked, call[c])
      /\ (setup.serial => \A d \in Callers \ {c} : call[d].pc = "idle")
  BY DEF RedisInv, Sound, CallsOK, SerialOK
<1>1. /\ DOMAIN x = Callers /\ x[c] = Raised(call[c]) /\ \A d \in Callers \ {c} : x[d] = call[d]
      /\ [x EXCEPT ![c] = r] = [call EXCEPT ![c] = r]
  BY <1>0
<1>2. Sound(setup, made, ak, atRisk, crossed, x, ls, sk, ss)
  OBVIOUS
<1>3. ASSUME call' = [call EXCEPT ![c] = r], call[c].method \in {"append", "delete"},
             call[c].method = "delete" => DeletedOK(ls, crossed, call[c])
      PROVE  Sound(setup, made, ak, atRisk, crossed, call', ls, sk, ss)
  <2>1. /\ CallOK(made, acked, r) /\ r.pc = "done" /\ r.method = call[c].method
        /\ r.before = call[c].before /\ r.key = call[c].key
        /\ Raised(call[c]).before = call[c].before /\ Raised(call[c]).key = call[c].key
        /\ Raised(call[c]).method = call[c].method
    <3>1. CallOK(made, acked, call[c])
      BY <1>0
    <3>2. /\ CallOK(made, acked, r) /\ r.pc = "done" /\ r.method = call[c].method
          /\ r.before = call[c].before /\ r.key = call[c].key
      BY ONLY <3>1, call[c].pc # "idle", ReturnedIs
    <3>3. /\ Raised(call[c]).before = call[c].before /\ Raised(call[c]).key = call[c].key
          /\ Raised(call[c]).method = call[c].method
      BY ONLY <3>1, call[c].pc # "idle", RaisedIs
    <3>. QED
      BY <3>2, <3>3
  <2>. HIDE DEF r, x
  <2>2. CallOK(made, ak, r)
    <3>1. CallOK(made, ak, Raised(call[c]))
      BY <1>1, <1>2 DEF Sound, CallsOK
    <3>. QED
      BY <2>1, <3>1 DEF CallOK
  <2>3. /\ Learnt(ls, crossed, r) /\ ~AppendsNow(r) /\ ~DeletesNow(r)
        /\ AnswerOK(made, atRisk, crossed, ls, sk, ss, Exact(setup), r)
    BY <1>3, <2>1 DEF Learnt, AppendsNow, DeletesNow, AnswerOK, DeletedOK
  <2>4. setup.serial /\ r.pc # "idle" => \A d \in Callers \ {c} : x[d].pc = "idle"
    BY <1>0, <1>1
  <2>5. Sound(setup, made, ak, atRisk, crossed, [x EXCEPT ![c] = r], ls, sk, ss)
    BY ONLY c \in Callers, <1>2, <2>2, <2>3, <2>4, CallSet
  <2>. QED
    BY <1>1, <1>3, <2>5
<1>4. Sound(setup, made, ak, atRisk, crossed, call', ls, sk, ss)
  BY <1>2, <1>3
<1>5. setup.calls = 0 => FALSE
  BY DEF RedisInv
<1>. QED
  BY <1>4, <1>5 DEF RedisInv

LEMMA PushKeeps ==
    ASSUME RedisInv, NEW c \in Callers, RedisPushes(c)
    PROVE  RedisInv'
<1>. DEFINE k == call[c].key
            b == call[c].batch
            x == [call EXCEPT ![c] = Raised(call[c])]
            ls == [lists EXCEPT ![k] = @ \o b]
            sk == IF IsMain(k) THEN subkeys ELSE subkeys \cup {k}
            ss == IF IsMain(k) THEN sessions \cup {k[1]} ELSE sessions
            S(ak, l, m, n) == Sound(setup, made, ak, atRisk, crossed, x, l, m, n)
<1>1. /\ call[c].method = "append" /\ call[c].pc = "start"
      /\ lists' = ls /\ subkeys' = sk /\ sessions' = ss
      /\ OrLost(c, AppendReturns(c))
  BY DEF RedisPushes, Redis, In, SessionIndexed
<1>2. Sound(setup, made, acked, atRisk, crossed, call, lists, subkeys, sessions)
      /\ CallOK(made, acked, call[c]) /\ DOMAIN call = Callers
      /\ MadeOK(made, acked, atRisk, crossed)
      /\ (setup.serial => \A d \in Callers \ {c} : call[d].pc = "idle")
      /\ DOMAIN lists = StoreKeys
  BY <1>1 DEF RedisInv, Sound, CallsOK, SerialOK, ListsOK
<1>3. AppendsNow(call[c]) /\ k \in StoreKeys /\ call[c].pc # "idle"
  BY <1>1, <1>2 DEF AppendsNow, CallOK
<1>4. S(acked, lists, subkeys, sessions)
  BY <1>3, MayRaise
<1>5. /\ BatchOK(made, acked, b, k) /\ Range(b) \cap Range(lists[k]) = {}
      /\ \A d \in Callers \ {c} :
             /\ AppendsNow(call[d]) => Range(b) \cap Range(call[d].batch) = {}
             /\ DeletesNow(call[d]) /\ Takes(call[d].key, k) => Range(b) \subseteq crossed
  BY <1>2, <1>3 DEF Sound, AppendsOK, ListsOK, DeletesOK
<1>6. /\ \A d \in Callers \ {c} : x[d] = call[d]
      /\ ~AppendsNow(x[c]) /\ ~DeletesNow(x[c]) /\ x[c].pc = "raised"
  <2>1. Raised(call[c]).pc = "raised"
    <3>1. CallOK(made, acked, call[c]) /\ call[c].pc # "idle"
      BY <1>2, <1>3
    <3>. QED
      BY ONLY <3>1, RaisedIs
  <2>. QED
    BY <1>2, <2>1 DEF AppendsNow, DeletesNow
<1>7. \A d \in Callers :
          /\ AppendsNow(x[d]) => Range(b) \cap Range(x[d].batch) = {}
          /\ DeletesNow(x[d]) /\ Takes(x[d].key, k) => Range(b) \subseteq crossed
  BY <1>5, <1>6
<1>8. Exact(setup) => \A d \in Callers : x[d].pc # "done"
  BY <1>2, <1>6 DEF Exact
<1>9. S(acked, ls, sk, ss)
  <2>. HIDE DEF x, b, k
  <2>. QED
    BY ONLY <1>3, <1>4, <1>5, <1>7, <1>8, Pushes
<1>10. ls[k] = lists[k] \o b
  BY <1>2, <1>3
<1>11. S(acked \cup Range(b), ls, sk, ss)
  <2>1. Range(b) \subseteq DOMAIN made /\ \A e \in Range(b) : made[e].key = k
    BY <1>5 DEF BatchOK, Ents
  <2>2. Range(ls[k]) = Range(lists[k]) \cup Range(b)
    <3>1. IsSeq(lists[k]) /\ IsSeq(b)
      BY <1>2, <1>3, <1>5 DEF Sound, ListsOK, LogOK, BatchOK
    <3>. HIDE DEF ls, b
    <3>2. Range(lists[k] \o b) = Range(lists[k]) \cup Range(b)
      BY ONLY <3>1, CatIs
    <3>. QED
      BY <1>10, <3>2
  <2>. HIDE DEF x, b, ls, sk, ss, k
  <2>3. \A e \in Range(b) \ atRisk : e \in Range(ls[made[e].key])
    BY <2>1, <2>2
  <2>4. \A d \in Callers : AppendsNow(x[d]) => Range(b) \cap Range(x[d].batch) = {}
    BY <1>7
  <2>. QED
    BY ONLY <1>9, <2>1, <2>3, <2>4, Acks
<1>12. CASE Raises(c)
  <2>1. call' = x /\ UNCHANGED <<setup, made, acked, atRisk, crossed, calls>>
    BY <1>12 DEF Raises, StaysBut, Stays, Raised
  <2>. HIDE DEF ls, sk, ss
  <2>. QED
    BY <1>1, <1>3, <1>9, <2>1, EndKeeps
<1>13. CASE AppendReturns(c)
  <2>1. /\ acked' = acked \cup Range(b) /\ UNCHANGED <<setup, made, atRisk, crossed, calls>>
        /\ Done(c, <<>>, {})
    BY <1>13 DEF AppendReturns, Batch
  <2>2. call' = [call EXCEPT ![c] = Returned(call[c], <<>>, {})]
    BY <2>1, DoneIs
  <2>. HIDE DEF ls, sk, ss
  <2>. QED
    BY <1>1, <1>3, <1>11, <2>1, <2>2, EndKeeps
<1>. QED
  BY <1>1, <1>12, <1>13 DEF OrLost

\* A deletion of which the lists ls are left.
LEMMA RemovalKeeps ==
    ASSUME RedisInv, NEW c \in Callers, DeletesNow(call[c]), OrLost(c, DeleteReturns(c)),
           NEW ls, NEW sk, NEW ss, lists' = ls, subkeys' = sk, sessions' = ss,
           DOMAIN ls = StoreKeys, IndexOK(ls, sk, ss, crossed),
           \A j \in StoreKeys : ls[j] = lists[j] \/ (ls[j] = <<>> /\ Takes(call[c].key, j)),
           \A j \in StoreKeys : Takes(call[c].key, j) => Range(ls[j]) \subseteq crossed
    PROVE  RedisInv'
<1>. DEFINE k == call[c].key
            x == [call EXCEPT ![c] = Raised(call[c])]
<1>1. Sound(setup, made, acked, atRisk, crossed, call, lists, subkeys, sessions)
      /\ CallOK(made, acked, call[c]) /\ DOMAIN call = Callers
  BY DEF RedisInv, Sound, CallsOK
<1>2. /\ call[c].pc # "idle" /\ call[c].method = "delete" /\ k \in StoreKeys
      /\ Ents(made, Concerns("delete", k)) \subseteq atRisk
      /\ (setup.serial => \A d \in Callers \ {c} : call[d].pc = "idle")
  BY <1>1 DEF DeletesNow, CallOK, Sound, DeletesOK, SerialOK
<1>3. Sound(setup, made, acked, atRisk, crossed, x, lists, subkeys, sessions)
  BY <1>2, MayRaise
<1>4. Exact(setup) => \A d \in Callers : x[d].pc # "done"
  <2>1. Raised(call[c]).pc = "raised"
    <3>1. CallOK(made, acked, call[c]) /\ call[c].pc # "idle"
      BY <1>1, <1>2
    <3>. QED
      BY ONLY <3>1, RaisedIs
  <2>2. \A d \in Callers \ {c} : x[d] = call[d]
    OBVIOUS
  <2>3. x[c] = Raised(call[c])
    BY <1>1
  <2>. HIDE DEF x
  <2>. QED
    BY <1>2, <2>1, <2>2, <2>3 DEF Exact
<1>5. Sound(setup, made, acked, atRisk, crossed, x, ls, sk, ss)
  <2>1. \A j \in StoreKeys : ls[j] = lists[j] \/ (ls[j] = <<>> /\ Takes(k, j))
    OBVIOUS
  <2>2. k \in StoreKeys /\ Ents(made, Concerns("delete", k)) \subseteq atRisk
    BY <1>2
  <2>3. DOMAIN ls = StoreKeys /\ IndexOK(ls, sk, ss, crossed)
    OBVIOUS
  <2>. HIDE DEF x, k
  <2>. QED
    BY ONLY <1>3, <1>4, <2>1, <2>2, <2>3, Shrinks
<1>6. DeletedOK(ls, crossed, call[c])
  <2>1. SUFFICES ASSUME NEW j \in StoreKeys, NEW e \in Range(ls[j]), e \in call[c].before
                 PROVE  e \in crossed
    BY DEF DeletedOK
  <2>2. LogOK(made, ls[j], j)
    BY <1>5 DEF Sound, ListsOK
  <2>3. made[e].key = j
    BY <2>1, <2>2 DEF LogOK, Ents
  <2>4. e \in Ents(made, Concerns("delete", k))
    BY <1>1, <1>2, <2>1 DEF CallOK
  <2>5. Takes(k, j)
    BY <2>3, <2>4 DEF Ents, Concerns
  <2>. QED
    BY <2>1, <2>5
<1>7. CASE Raises(c)
  <2>1. call' = x /\ UNCHANGED <<setup, made, acked, atRisk, crossed, calls>>
    BY <1>7 DEF Raises, StaysBut, Stays, Raised
  <2>. QED
    BY <1>2, <1>5, <2>1, EndKeeps
<1>8. CASE DeleteReturns(c)
  <2>1. UNCHANGED <<setup, made, acked, atRisk, crossed, calls>> /\ Done(c, <<>>, {})
    BY <1>8 DEF DeleteReturns, Stays
  <2>2. call' = [call EXCEPT ![c] = Returned(call[c], <<>>, {})]
    BY <2>1, DoneIs
  <2>. QED
    BY <1>2, <1>5, <1>6, <2>1, <2>2, EndKeeps
<1>. QED
  BY <1>7, <1>8 DEF OrLost

LEMMA IndexNow ==
    ASSUME RedisInv
    PROVE  /\ DOMAIN lists = StoreKeys /\ IndexOK(lists, subkeys, sessions, crossed)
           /\ LearntOK(call, lists, crossed) /\ crossed \subseteq atRisk /\ acked \subseteq DOMAIN made
           /\ \A k \in StoreKeys : LogOK(made, lists[k], k)
           /\ \A e \in acked \ atRisk : e \in Range(lists[made[e].key])
           /\ \A e \in DOMAIN made : made[e].key \in StoreKeys
           /\ \A c \in Callers : CallOK(made, acked, call[c])
  BY DEF RedisInv, Sound, ListsOK, MadeOK, CallsOK

LEMMA MainKeys ==
    ASSUME NEW k \in StoreKeys
    PROVE  /\ k = <<k[1], k[2]>> /\ k[1] \in StoreSessions /\ MainKey(k[1]) \in StoreKeys
           /\ (IsMain(k) => MainKey(k[1]) = k) /\ (~IsMain(k) => \A s : MainKey(s) # k)
<1>1. k = <<k[1], k[2]>> /\ MainKey(k[1]) \in StoreKeys
  BY CallsAssumption, Zenon
<1>2. k[1] \in StoreSessions
  BY DEF StoreSessions
<1>3. \A s : IsMain(MainKey(s))
  BY DEF MainKey, IsMain
<1>. QED
  BY <1>1, <1>2, <1>3 DEF MainKey, IsMain

LEMMA MainOf ==
    ASSUME NEW s \in StoreSessions
    PROVE  MainKey(s) \in StoreKeys /\ MainKey(s)[1] = s /\ IsMain(MainKey(s))
<1>1. PICK k \in StoreKeys : k[1] = s
  BY DEF StoreSessions
<1>. QED
  BY <1>1, MainKeys DEF MainKey, IsMain

LEMMA SubpathKeeps ==
    ASSUME RedisInv, NEW c \in Callers, RedisDeletesSubpath(c)
    PROVE  RedisInv'
<1>. DEFINE k == call[c].key
            ls == [lists EXCEPT ![k] = <<>>]
            sk == subkeys \ {k}
<1>1. /\ call[c].method = "delete" /\ call[c].pc = "start" /\ ~IsMain(k)
      /\ lists' = ls /\ subkeys' = sk /\ sessions' = sessions /\ OrLost(c, DeleteReturns(c))
  BY DEF RedisDeletesSubpath, Redis, In
<1>2. k \in StoreKeys /\ DeletesNow(call[c])
  BY <1>1, IndexNow DEF CallOK, DeletesNow
<1>3. /\ DOMAIN ls = StoreKeys /\ ls[k] = <<>> /\ \A j \in StoreKeys \ {k} : ls[j] = lists[j]
      /\ Range(<<>>) = {}
  BY <1>2, IndexNow DEF Range
<1>. HIDE DEF ls
<1>4. IndexOK(ls, sk, sessions, crossed)
  <2>1. \A s \in StoreSessions : MainKey(s) \in StoreKeys /\ MainKey(s) # k
    BY <1>1, <1>2, MainKeys, MainOf
  <2>. QED
    BY <1>3, <2>1, IndexNow DEF IndexOK
<1>5. \A j \in StoreKeys : Takes(k, j) <=> j = k
  BY <1>1 DEF Takes
<1>. QED
  BY <1>1, <1>2, <1>3, <1>4, <1>5, RemovalKeeps

LEMMA SessionKeeps ==
    ASSUME RedisInv, NEW c \in Callers, RedisDeletesSession(c)
    PROVE  RedisInv'
<1>. DEFINE k == call[c].key
            s == k[1]
            ls == [j \in StoreKeys |-> IF j \in Doomed(c) THEN <<>> ELSE lists[j]]
            sk == subkeys \ SubpathsOf(s)
            ss == sessions \ {s}
<1>1. /\ call[c].method = "delete" /\ call[c].pc = "delete"
      /\ lists' = ls /\ subkeys' = sk /\ sessions' = ss /\ OrLost(c, DeleteReturns(c))
  BY DEF RedisDeletesSession, Redis, In
<1>2. k \in StoreKeys /\ DeletesNow(call[c])
  BY <1>1, IndexNow DEF CallOK, DeletesNow
<1>3. /\ IsMain(k) /\ call[c].found \subseteq Below(s)
      /\ \A j \in Below(s) \ call[c].found : Range(lists[j]) \subseteq crossed
  BY <1>1, IndexNow DEF LearntOK, Learnt
<1>4. /\ DOMAIN ls = StoreKeys
      /\ \A j \in StoreKeys : ls[j] = IF j = k \/ j \in call[c].found THEN <<>> ELSE lists[j]
      /\ Range(<<>>) = {}
  BY DEF Doomed, Range
<1>. HIDE DEF ls
<1>5. MainKey(s) = k /\ s \in StoreSessions
  BY <1>2, <1>3, MainKeys
<1>6. \A j \in StoreKeys : j[1] = s => (j = k \/ j \in Below(s))
  BY <1>2, <1>3, MainKeys DEF Below
<1>7. \A j \in StoreKeys : j[1] = s => Range(ls[j]) \subseteq crossed
  BY <1>3, <1>4, <1>6
<1>8. \A j \in StoreKeys : j[1] # s => ls[j] = lists[j]
  BY <1>3, <1>4 DEF Below
<1>9. \A j \in StoreKeys : ls[j] = lists[j] \/ (ls[j] = <<>> /\ Takes(k, j))
  BY <1>3, <1>4 DEF Below, Takes
<1>10. IndexOK(ls, sk, ss, crossed)
  <2>1. ss = {t \in StoreSessions : ls[MainKey(t)] # <<>>}
    <3>1. \A t \in StoreSessions : MainKey(t) \in StoreKeys /\ MainKey(t)[1] = t
      BY MainOf
    <3>2. ls[MainKey(s)] = <<>>
      BY <1>2, <1>4, <1>5
    <3>3. \A t \in StoreSessions \ {s} : ls[MainKey(t)] = lists[MainKey(t)]
      BY <1>8, <3>1
    <3>4. sessions = {t \in StoreSessions : lists[MainKey(t)] # <<>>}
      BY IndexNow DEF IndexOK
    <3>. QED
      BY <3>2, <3>3, <3>4
  <2>2. sk \subseteq {j \in StoreKeys : ~IsMain(j)}
    BY IndexNow DEF IndexOK
  <2>3. ASSUME NEW j \in StoreKeys, ~IsMain(j)
        PROVE  (j \in sk => ls[j] # <<>>) /\ (j \notin sk => Range(ls[j]) \subseteq crossed)
    <3>1. CASE j[1] = s
      BY <1>7, <3>1 DEF SubpathsOf
    <3>2. CASE j[1] # s
      BY <1>8, <2>3, <3>2, IndexNow DEF SubpathsOf, IndexOK
    <3>. QED
      BY <3>1, <3>2
  <2>. QED
    BY <2>1, <2>2, <2>3 DEF IndexOK
<1>11. \A j \in StoreKeys : Takes(k, j) => Range(ls[j]) \subseteq crossed
  BY <1>2, <1>7 DEF Takes
<1>. HIDE DEF sk, ss
<1>. QED
  BY <1>1, <1>2, <1>4, <1>9, <1>10, <1>11, RemovalKeeps

LEMMA LearnsKeeps ==
    ASSUME RedisInv, NEW c \in Callers, RedisLearnsSubpaths(c)
    PROVE  RedisInv'
<1>. DEFINE k == call[c].key
            r == [call[c] EXCEPT !.pc = "delete", !.found = SubpathsOf(k[1]), !.left = {},
                                 !.token = {}]
<1>1. /\ call[c].method = "delete" /\ call[c].pc = "start" /\ IsMain(k)
      /\ call' = [call EXCEPT ![c] = r]
      /\ UNCHANGED <<setup, made, acked, atRisk, crossed, redisVars, calls>>
  BY DEF RedisLearnsSubpaths, Redis, In, GoesOn, StaysBut, Stays
<1>2. CallOK(made, acked, call[c])
  BY IndexNow
<1>3. DOMAIN r = CallFields
  BY <1>2 DEF CallOK
<1>4. /\ r.pc = "delete" /\ r.method = "delete" /\ r.key = k /\ r.token = {}
      /\ r.before = call[c].before /\ r.found = SubpathsOf(k[1])
  BY <1>1, <1>2 DEF CallOK, CallFields
<1>. HIDE DEF r
<1>5. CallOK(made, acked, r)
  BY <1>1, <1>2, <1>3, <1>4 DEF CallOK
<1>6. Learnt(lists, crossed, r)
  <2>1. SubpathsOf(k[1]) \subseteq Below(k[1])
    BY IndexNow DEF IndexOK, SubpathsOf, Below
  <2>2. \A j \in Below(k[1]) \ SubpathsOf(k[1]) : Range(lists[j]) \subseteq crossed
    BY IndexNow DEF IndexOK, SubpathsOf, Below
  <2>. QED
    BY <1>1, <1>4, <2>1, <2>2 DEF Learnt
<1>7. /\ ~AppendsNow(r) /\ DeletesNow(call[c])
      /\ AnswerOK(made, atRisk, crossed, lists, subkeys, sessions, Exact(setup), r)
  BY <1>1, <1>4 DEF AppendsNow, DeletesNow, AnswerOK
<1>8. calls' \in Nat
  BY <1>1 DEF RedisInv
<1>. QED
  BY <1>1, <1>4, <1>5, <1>6, <1>7, <1>8, CallKeeps

LEMMA LoadKeeps ==
    ASSUME RedisInv, NEW c \in Callers, RedisLoads(c)
    PROVE  RedisInv'
<1>. DEFINE k == call[c].key
            a == lists[k]
            r == Returned(call[c], a, {})
<1>1. /\ call[c].method = "load" /\ call[c].pc = "start"
      /\ Done(c, a, {}) /\ Stays /\ UNCHANGED redisVars
  BY DEF RedisLoads, Redis, In, LoadEnds
<1>2. CallOK(made, acked, call[c]) /\ k \in StoreKeys
  BY <1>1, IndexNow DEF CallOK
<1>3. /\ r.pc = "done" /\ r.method = "load" /\ r.key = k /\ r.before = call[c].before
      /\ r.answer = a
  <2>1. CallOK(made, acked, call[c]) /\ call[c].pc # "idle"
    BY <1>1, <1>2
  <2>2. /\ r.pc = "done" /\ r.method = call[c].method /\ r.key = call[c].key
        /\ r.before = call[c].before /\ r.answer = a
    BY ONLY <2>1, ReturnedIs
  <2>. QED
    BY <1>1, <2>2
<1>4. call[c].before \ atRisk \subseteq Range(a)
  <2>1. call[c].before \subseteq acked /\ call[c].before \subseteq Ents(made, {k})
    BY <1>1, <1>2 DEF CallOK, Concerns
  <2>. QED
    BY <2>1, IndexNow DEF Ents
<1>5. LogOK(made, a, k)
  BY <1>2, IndexNow
<1>6. AnswerOK(made, atRisk, crossed, lists, subkeys, sessions, Exact(setup), r)
  <2>. HIDE DEF r
  <2>. QED
    BY <1>3, <1>4, <1>5 DEF AnswerOK, LoadedOK
<1>. QED
  BY <1>1, <1>6, ReadReturns

LEMMA SessionsKeeps ==
    ASSUME RedisInv, NEW c \in Callers, Redis(c, "sessions", "start"), ListEnds(c, sessions),
           UNCHANGED redisVars
    PROVE  RedisInv'
<1>. DEFINE r == Returned(call[c], <<>>, sessions)
<1>1. /\ call[c].method = "sessions" /\ call[c].pc = "start"
      /\ Done(c, <<>>, sessions) /\ Stays
  BY DEF Redis, In, ListEnds
<1>2. CallOK(made, acked, call[c])
  BY IndexNow
<1>3. r.pc = "done" /\ r.method = "sessions" /\ r.before = call[c].before /\ r.found = sessions
  <2>1. CallOK(made, acked, call[c]) /\ call[c].pc # "idle"
    BY <1>1, <1>2
  <2>2. /\ r.pc = "done" /\ r.method = call[c].method
        /\ r.before = call[c].before /\ r.found = sessions
    BY ONLY <2>1, ReturnedIs
  <2>. QED
    BY <1>1, <2>2
<1>4. call[c].before \subseteq acked
  BY <1>2 DEF CallOK
<1>5. sessions = {s \in StoreSessions : lists[MainKey(s)] # <<>>}
  BY IndexNow DEF IndexOK
<1>6. ASSUME NEW e \in call[c].before \ atRisk, IsMain(made[e].key) PROVE made[e].key[1] \in sessions
  <2>1. e \in DOMAIN made /\ made[e].key \in StoreKeys /\ e \in Range(lists[made[e].key])
    BY <1>4, IndexNow
  <2>2. lists[made[e].key] # <<>>
    BY <2>1 DEF Range
  <2>. QED
    BY <1>5, <1>6, <2>1, <2>2, MainKeys
<1>7. ASSUME NEW s \in sessions PROVE \E e \in DOMAIN made : IsMain(made[e].key) /\ made[e].key[1] = s
  <2>1. s \in StoreSessions /\ lists[MainKey(s)] # <<>>
    BY <1>5
  <2>2. MainKey(s) \in StoreKeys /\ MainKey(s)[1] = s /\ IsMain(MainKey(s))
    BY <2>1, MainOf
  <2>3. LogOK(made, lists[MainKey(s)], MainKey(s))
    BY <2>2, IndexNow
  <2>4. PICK e : e \in Range(lists[MainKey(s)])
    <3>1. lists[MainKey(s)] \in Seq(Range(lists[MainKey(s)]))
      BY <2>3 DEF LogOK, IsSeq
    <3>2. 1 \in DOMAIN lists[MainKey(s)]
      BY <2>1, <3>1
    <3>. QED
      BY <3>2 DEF Range
  <2>5. e \in DOMAIN made /\ made[e].key = MainKey(s)
    BY <2>3, <2>4 DEF LogOK, Ents
  <2>. QED
    BY <2>2, <2>5
<1>8. AnswerOK(made, atRisk, crossed, lists, subkeys, sessions, Exact(setup), r)
  <2>1. SessOf(made, call[c].before \ atRisk) \subseteq sessions
    BY <1>6 DEF SessOf
  <2>2. sessions \subseteq SessOf(made, DOMAIN made)
    BY <1>7 DEF SessOf
  <2>. HIDE DEF r
  <2>. QED
    BY <1>3, <2>1, <2>2 DEF AnswerOK, SessionsOK
<1>. QED
  BY <1>1, <1>8, ReadReturns

LEMMA SubkeysKeeps ==
    ASSUME RedisInv, NEW c \in Callers, Redis(c, "subkeys", "start"),
           ListEnds(c, {k[2] : k \in SubpathsOf(call[c].key[1])}), UNCHANGED redisVars
    PROVE  RedisInv'
<1>. DEFINE s == call[c].key[1]
            f == {k[2] : k \in SubpathsOf(s)}
            r == Returned(call[c], <<>>, f)
<1>1. /\ call[c].method = "subkeys" /\ call[c].pc = "start"
      /\ Done(c, <<>>, f) /\ Stays
  BY DEF Redis, In, ListEnds
<1>2. CallOK(made, acked, call[c])
  BY IndexNow
<1>3. r.pc = "done" /\ r.method = "subkeys" /\ r.key[1] = s /\ r.before = call[c].before /\ r.found = f
  <2>1. CallOK(made, acked, call[c]) /\ call[c].pc # "idle"
    BY <1>1, <1>2
  <2>. HIDE DEF f
  <2>2. /\ r.pc = "done" /\ r.method = call[c].method /\ r.key = call[c].key
        /\ r.before = call[c].before /\ r.found = f
    BY ONLY <2>1, ReturnedIs
  <2>. QED
    BY <1>1, <2>2
<1>4. call[c].before \subseteq acked
  BY <1>2 DEF CallOK
<1>5. IndexOK(lists, subkeys, sessions, crossed)
  BY IndexNow
<1>6. f = NamesOf(subkeys, s)
  BY DEF NamesOf, SubpathsOf
<1>7. ASSUME NEW e \in call[c].before \ atRisk, ~IsMain(made[e].key) PROVE made[e].key \in subkeys
  <2>1. e \in DOMAIN made /\ made[e].key \in StoreKeys /\ e \in Range(lists[made[e].key])
        /\ crossed \subseteq atRisk
    BY <1>4, IndexNow
  <2>. QED
    BY <1>5, <1>7, <2>1 DEF IndexOK
<1>8. ASSUME NEW k \in subkeys
      PROVE  \E e \in DOMAIN made : made[e].key = k /\ ~IsMain(k)
  <2>1. k \in StoreKeys /\ ~IsMain(k) /\ lists[k] # <<>>
    BY <1>5 DEF IndexOK
  <2>2. LogOK(made, lists[k], k)
    BY <2>1, IndexNow
  <2>3. PICK e : e \in Range(lists[k])
    <3>1. lists[k] \in Seq(Range(lists[k]))
      BY <2>2 DEF LogOK, IsSeq
    <3>2. 1 \in DOMAIN lists[k]
      BY <2>1, <3>1
    <3>. QED
      BY <3>2 DEF Range
  <2>. QED
    BY <2>1, <2>2, <2>3 DEF LogOK, Ents
<1>9. AnswerOK(made, atRisk, crossed, lists, subkeys, sessions, Exact(setup), r)
  <2>1. SubsOf(made, s, call[c].before \ atRisk) \subseteq NamesOf(subkeys, s)
    BY <1>7 DEF SubsOf, NamesOf
  <2>2. NamesOf(subkeys, s) \subseteq SubsOf(made, s, DOMAIN made)
    BY <1>8 DEF SubsOf, NamesOf
  <2>. HIDE DEF r
  <2>. QED
    BY <1>3, <1>6, <2>1, <2>2 DEF AnswerOK, SubkeysOK
<1>. QED
  BY <1>1, <1>9, ReadReturns

-----------------------------------------------------------------------------
LEMMA ProgramsKeep ==
    ASSUME RedisInv, NEW c \in Callers, CallerSteps(c), UNCHANGED redisVars
    PROVE  RedisInv'
<1>0. /\ setup.keys \subseteq StoreKeys /\ setup.sizes \subseteq Nat \ {0}
      /\ \A k \in Known : k \in StoreKeys
      /\ calls \in Nat
  BY SettingIs, IndexNow DEF Known, RedisInv
<1>1. ASSUME NEW k \in setup.keys, NEW n \in setup.sizes, MirrorAppends(c, k, n) PROVE RedisInv'
  <2>1. Begins(c, "mirror") /\ CallsAppend(c, "mirror", k, n) /\ k \in StoreKeys /\ n \in Nat \ {0}
    BY <1>0, <1>1 DEF MirrorAppends
  <2>2. /\ call[c].pc = "idle" /\ setup.calls # 0 /\ calls' \in Nat
        /\ setup.serial => \A d \in Callers : call[d].pc = "idle"
    BY <2>1, BeginsDoes
  <2>3. ~DeletesNow(call[c])
    BY <2>2 DEF DeletesNow
  <2>. QED
    BY <2>1, <2>2, <2>3, AppendBegins
<1>2. ASSUME NEW k \in Known, DeleteSubpath(c, k) PROVE RedisInv'
  <2>1. Begins(c, "prune") /\ Calls(c, "prune", "delete", k) /\ k \in StoreKeys
    BY <1>0, <1>2 DEF DeleteSubpath
  <2>. QED
    BY <2>1, BeginsDoes, DeleteBegins
<1>3. ASSUME NEW k \in Known, AgentFromStore(c, k) PROVE RedisInv'
  <2>1. Begins(c, "agent") /\ Calls(c, "agent", "subkeys", k) /\ k \in StoreKeys
    BY <1>0, <1>3 DEF AgentFromStore
  <2>. QED
    BY <2>1, BeginsDoes, ReadBegins
<1>4. ASSUME NEW k \in Known, IsMain(k)
      PROVE  MainKey(k[1]) \in StoreKeys
  BY <1>0, <1>4, MainKeys
<1>5. ASSUME NEW k \in Known, IsMain(k), RenameViaStore(c, k[1]) PROVE RedisInv'
  <2>1. Begins(c, "rename") /\ CallsAppend(c, "rename", MainKey(k[1]), 1)
        /\ MainKey(k[1]) \in StoreKeys
    BY <1>4, <1>5 DEF RenameViaStore
  <2>2. /\ call[c].pc = "idle" /\ setup.calls # 0 /\ calls' \in Nat
        /\ setup.serial => \A d \in Callers : call[d].pc = "idle"
    BY <2>1, BeginsDoes
  <2>3. ~DeletesNow(call[c]) /\ 1 \in Nat \ {0}
    BY <2>2 DEF DeletesNow
  <2>. QED
    BY <2>1, <2>2, <2>3, AppendBegins
<1>6. ASSUME NEW k \in Known, IsMain(k), DeleteViaStore(c, k[1]) PROVE RedisInv'
  <2>1. Begins(c, "delete") /\ Calls(c, "delete", "delete", MainKey(k[1]))
        /\ MainKey(k[1]) \in StoreKeys
    BY <1>4, <1>6 DEF DeleteViaStore
  <2>. QED
    BY <2>1, BeginsDoes, DeleteBegins
<1>7. ASSUME NEW k \in Known, IsMain(k), ForkViaStore(c, k[1]) PROVE RedisInv'
  <2>1. Begins(c, "fork") /\ Calls(c, "fork", "load", MainKey(k[1]))
        /\ MainKey(k[1]) \in StoreKeys
    BY <1>4, <1>7 DEF ForkViaStore
  <2>. QED
    BY <2>1, BeginsDoes, ReadBegins
<1>8. ASSUME NEW k \in Known, IsMain(k), MessagesFromStore(c, k[1]) PROVE RedisInv'
  <2>1. Begins(c, "messages") /\ Calls(c, "messages", "load", MainKey(k[1]))
        /\ MainKey(k[1]) \in StoreKeys
    BY <1>4, <1>8 DEF MessagesFromStore
  <2>. QED
    BY <2>1, BeginsDoes, ReadBegins
<1>9. ASSUME NEW k \in Known, IsMain(k), ListSubagents(c, k[1]) PROVE RedisInv'
  <2>1. Begins(c, "subagents") /\ Calls(c, "subagents", "subkeys", MainKey(k[1]))
        /\ MainKey(k[1]) \in StoreKeys
    BY <1>4, <1>9 DEF ListSubagents
  <2>. QED
    BY <2>1, BeginsDoes, ReadBegins
<1>10. ASSUME ListSessionsOf(c) PROVE RedisInv'
  <2>1. Begins(c, "sessions") /\ Calls(c, "sessions", "sessions", NoKey)
    BY <1>10 DEF ListSessionsOf
  <2>. QED
    BY <2>1, BeginsDoes, ReadBegins
<1>11. ASSUME NEW dst \in Unused, ForkWrites(c, dst) PROVE RedisInv'
  <2>1. call[c].method = "load" /\ call[c].pc = "done"
    BY <1>11 DEF ForkWrites, In
  <2>2. CASE call[c].answer = <<>>
    BY <1>11, <2>1, <2>2, RaisesKeeps DEF ForkWrites
  <2>3. CASE call[c].answer # <<>>
    <3>. DEFINE n == Len(call[c].answer) + 1
    <3>1. CallsAppend(c, "fork", MainKey(dst), n) /\ UNCHANGED calls
      BY <1>11, <2>3 DEF ForkWrites
    <3>2. n \in Nat \ {0}
      <4>1. LogOK(made, call[c].answer, call[c].key)
        BY <2>1 DEF RedisInv, Sound, AnswersOK, AnswerOK, LoadedOK
      <4>2. call[c].answer \in Seq(Range(call[c].answer))
        BY <4>1 DEF LogOK, IsSeq
      <4>. QED
        BY <4>2
    <3>3. MainKey(dst) \in StoreKeys
      BY MainOf DEF Unused
    <3>4. ~DeletesNow(call[c]) /\ setup.calls # 0 /\ calls' \in Nat
      BY <1>0, <2>1, <3>1 DEF DeletesNow, RedisInv
    <3>5. setup.serial => \A d \in Callers \ {c} : call[d].pc = "idle"
      BY <2>1 DEF RedisInv, Sound, SerialOK
    <3>. HIDE DEF n
    <3>. QED
      BY <3>1, <3>2, <3>3, <3>4, <3>5, AppendBegins
  <2>. QED
    BY <2>2, <2>3
<1>12. ASSUME AgentLoads(c) PROVE RedisInv'
  <2>1. call[c].method = "subkeys" /\ call[c].pc = "done"
    BY <1>12 DEF AgentLoads, In
  <2>2. CASE StaysBut(c, Idle)
    BY <2>2, IdleKeeps
  <2>3. ASSUME NEW p \in call[c].found, Calls(c, "agent", "load", <<call[c].key[1], p>>),
               UNCHANGED calls
        PROVE  RedisInv'
    <3>1. p \in SubsOf(made, call[c].key[1], DOMAIN made)
      BY <2>1, <2>3 DEF RedisInv, Sound, AnswersOK, AnswerOK, SubkeysOK
    <3>2. PICK e \in DOMAIN made : made[e].key[1] = call[c].key[1] /\ made[e].key[2] = p
      BY <3>1 DEF SubsOf
    <3>3. made[e].key \in StoreKeys
      BY IndexNow
    <3>4. <<call[c].key[1], p>> \in StoreKeys
      BY <3>2, <3>3, MainKeys
    <3>5. call[c].pc # "idle" /\ calls' \in Nat
      BY <1>0, <2>1, <2>3
    <3>. QED
      BY <2>3, <3>4, <3>5, ReadBegins
  <2>. QED
    BY <1>12, <2>2, <2>3 DEF AgentLoads
<1>13. ASSUME RequestFails(c) PROVE RedisInv'
  BY <1>13, RaisesKeeps DEF RequestFails, Over
<1>14. ASSUME Forgets(c) PROVE RedisInv'
  BY <1>14, IdleKeeps DEF Forgets
<1>. QED
  BY <1>1, <1>2, <1>3, <1>5, <1>6, <1>7, <1>8, <1>9, <1>10, <1>11, <1>12, <1>13, <1>14
  DEF CallerSteps

LEMMA StepKeeps ==
    ASSUME RedisInv, NEW c \in Callers, RedisSteps(c)
    PROVE  RedisInv'
<1>1. CASE RedisPushes(c)
  BY <1>1, PushKeeps
<1>2. CASE RedisLoads(c)
  BY <1>2, LoadKeeps
<1>3. CASE RedisLists(c)
  BY <1>3, SessionsKeeps, SubkeysKeeps DEF RedisLists
<1>4. CASE RedisDeletesSubpath(c)
  BY <1>4, SubpathKeeps
<1>5. CASE RedisLearnsSubpaths(c)
  BY <1>5, LearnsKeeps
<1>6. CASE RedisDeletesSession(c)
  BY <1>6, SessionKeeps
<1>. QED
  BY <1>1, <1>2, <1>3, <1>4, <1>5, <1>6 DEF RedisSteps

\* A behaviour is of one store, in one setting.
LEMMA SetupStays == StoresNext => setup' = setup
<1>1. ASSUME NEW c \in Callers, CallerSteps(c) PROVE setup' = setup
  <2>1. \A prog, method, k : Calls(c, prog, method, k) => setup' = setup
    BY DEF Calls
  <2>2. \A prog, k, n : CallsAppend(c, prog, k, n) => setup' = setup
    BY DEF CallsAppend
  <2>3. Raises(c) \/ StaysBut(c, Idle) => setup' = setup
    BY DEF Raises, StaysBut, Stays
  <2>. QED
    BY <1>1, <2>1, <2>2, <2>3
    DEF CallerSteps, MirrorAppends, DeleteSubpath, AgentFromStore, RenameViaStore,
        DeleteViaStore, ForkViaStore, MessagesFromStore, ListSubagents, ListSessionsOf,
        ForkWrites, AgentLoads, RequestFails, Forgets
<1>. DEFINE Ended(c) ==
         \/ \E pc, f, l, t : GoesOn(c, pc, f, l, t)
         \/ Raises(c) \/ AppendReturns(c) \/ DeleteReturns(c)
         \/ \E a : LoadEnds(c, a) \/ \E f : ListEnds(c, f)
<1>2. ASSUME NEW c \in Callers, Ended(c) PROVE setup' = setup
  BY <1>2 DEF GoesOn, Raises, AppendReturns, DeleteReturns, LoadEnds, ListEnds, StaysBut, Stays
<1>3. ASSUME NEW c \in Callers, RedisSteps(c) PROVE Ended(c)
  BY <1>3 DEF RedisSteps, RedisPushes, RedisLoads, RedisLists, RedisDeletesSubpath,
              RedisLearnsSubpaths, RedisDeletesSession, OrLost
<1>4. ASSUME NEW c \in Callers, PgSteps(c) PROVE Ended(c)
  BY <1>4 DEF PgSteps, PgDraws, PgCommits, PgLoads, PgDeletes, PgLists
<1>5. ASSUME NEW c \in Callers, S3Steps(c) PROVE Ended(c)
  <2>1. ASSUME NEW method, NEW listed, S3Lists(c, method, listed) PROVE Ended(c)
    BY <2>1 DEF S3Lists
  <2>2. CASE S3NamesPart(c)
    BY <2>2 DEF S3NamesPart
  <2>3. CASE S3Puts(c)
    BY <2>3 DEF S3Puts
  <2>4. CASE S3ListsParts(c)
    BY <2>4 DEF S3ListsParts
  <2>5. CASE S3Gets(c)
    BY <2>5 DEF S3Gets
  <2>6. CASE S3ListsDoomed(c)
    BY <2>6 DEF S3ListsDoomed
  <2>7. CASE S3Deletes(c)
    BY <2>7 DEF S3Deletes
  <2>8. CASE S3ListsSessions(c) \/ S3ListsSubkeys(c)
    BY <2>1, <2>8 DEF S3ListsSessions, S3ListsSubkeys
  <2>. QED
    BY <1>5, <2>2, <2>3, <2>4, <2>5, <2>6, <2>7, <2>8 DEF S3Steps
<1>. HIDE DEF Ended
<1>. QED
  BY <1>1, <1>2, <1>3, <1>4, <1>5 DEF StoresNext, adapterVars, callVars

LEMMA RedisStarts == StoresInit /\ setup.adapter = "redis" => RedisInv
<1>. SUFFICES ASSUME StoresInit, setup.adapter = "redis" PROVE RedisInv
  OBVIOUS
<1>1. /\ setup \in Setups /\ calls = 0 /\ made = <<>> /\ acked = {} /\ atRisk = {} /\ crossed = {}
      /\ call = [c \in Callers |-> Idle]
      /\ lists = [k \in StoreKeys |-> <<>>] /\ subkeys = {} /\ sessions = {}
  BY DEF StoresInit, CallsInit, RedisInit
<1>2. Idle.pc = "idle" /\ Idle.method = "none" /\ CallOK(made, acked, Idle)
  BY DEF Idle, CallOK, CallFields, Methods
<1>3. \A c \in Callers : call[c] = Idle
  BY <1>1
<1>4. MadeOK(made, acked, atRisk, crossed)
  <2>. DEFINE e == <<>>
  <2>1. e \in Seq(Range(e)) /\ DOMAIN e = {}
    BY DEF Range
  <2>. HIDE DEF e
  <2>2. MadeOK(e, {}, {}, {})
    BY <2>1 DEF MadeOK, IsSeq
  <2>. QED
    BY <1>1, <2>2 DEF e
<1>5. \A k \in StoreKeys : LogOK(made, lists[k], k)
  <2>. DEFINE e == <<>>
  <2>1. e \in Seq(Range(e)) /\ DOMAIN e = {} /\ Range(e) = {}
    BY DEF Range
  <2>. HIDE DEF e
  <2>2. \A k : LogOK(made, e, k)
    BY <2>1 DEF LogOK, IsSeq
  <2>. QED
    BY <1>1, <2>2 DEF e
<1>6. CallsOK(call, made, acked) /\ SerialOK(call, crossed, setup.serial)
  BY <1>1, <1>2, <1>3 DEF CallsOK, SerialOK
<1>7. /\ AppendsOK(call, made, acked) /\ DeletesOK(call, made, atRisk, crossed)
      /\ LearntOK(call, lists, crossed)
      /\ AnswersOK(setup, made, atRisk, crossed, call, lists, subkeys, sessions)
  BY <1>2, <1>3 DEF AppendsOK, DeletesOK, LearntOK, AnswersOK, AppendsNow, DeletesNow, Learnt,
                    AnswerOK
<1>8. ListsOK(call, made, acked, atRisk, lists)
  BY <1>1, <1>2, <1>3, <1>5 DEF ListsOK, AppendsNow
<1>9. IndexOK(lists, subkeys, sessions, crossed)
  <2>1. \A s \in StoreSessions : lists[MainKey(s)] = <<>>
    BY <1>1, MainOf
  <2>2. \A k \in StoreKeys : Range(lists[k]) = {}
    BY <1>1 DEF Range
  <2>. QED
    BY <1>1, <2>1, <2>2 DEF IndexOK
<1>10. Sound(setup, made, acked, atRisk, crossed, call, lists, subkeys, sessions)
  BY <1>4, <1>6, <1>7, <1>8, <1>9 DEF Sound
<1>. QED
  BY <1>1, <1>3, <1>2, <1>10 DEF RedisInv

LEMMA RedisInvariance == StoresSpec => [](setup.adapter = "redis" => RedisInv)
<1>. DEFINE I == setup.adapter = "redis" => RedisInv
<1>1. I /\ [StoresNext]_<<vars, adapterVars>> => I'
  <2>. SUFFICES ASSUME I, [StoresNext]_<<vars, adapterVars>>, setup'.adapter = "redis" PROVE RedisInv'
    OBVIOUS
  <2>1. CASE UNCHANGED adapterVars
    <3>1. UNCHANGED <<setup, calls, made, acked, atRisk, crossed, call, lists, subkeys, sessions>>
      BY <2>1 DEF adapterVars, callVars, redisVars
    <3>. QED
      BY <3>1 DEF RedisInv
  <2>2. ASSUME NEW c \in Callers, StoresNext,
               \/ CallerSteps(c) /\ UNCHANGED redisVars
               \/ S3Steps(c) \/ RedisSteps(c) \/ PgSteps(c)
        PROVE  RedisInv'
    <3>1. setup.adapter = "redis" /\ RedisInv
      BY <2>2, SetupStays
    <3>2. ~S3Steps(c)
      BY <3>1 DEF S3Steps, S3NamesPart, S3Puts, S3ListsParts, S3Gets, S3ListsDoomed, S3Deletes,
                  S3ListsSessions, S3ListsSubkeys, S3Lists, S3
    <3>3. ~PgSteps(c)
      BY <3>1 DEF PgSteps, PgDraws, PgCommits, PgLoads, PgDeletes, PgLists, Pg
    <3>. QED
      BY <2>2, <3>1, <3>2, <3>3, ProgramsKeep, StepKeeps
  <2>. QED
    BY <2>1, <2>2 DEF StoresNext, adapterVars
<1>. HIDE DEF I
<1>2. StoresInit => I
  BY RedisStarts DEF I
<1>3. StoresSpec => []I
  BY <1>1, <1>2, PTL DEF StoresSpec
<1>. QED
  BY <1>3 DEF I

-----------------------------------------------------------------------------
\* What the invariant says of callers

\* What the store holds when calls do not overlap and nothing fails.
Leaving(cl) ==
    {k \in StoreKeys : \E c \in Callers :
        cl[c].method = "delete" /\ cl[c].pc = "delete" /\ Takes(cl[c].key, k)}
HeldBy(cl, ls) == [k \in {j \in StoreKeys \ Leaving(cl) : ls[j] # <<>>} |-> ls[k]]

LEMMA HeldIs ==
    ASSUME RedisInv
    PROVE  /\ \A k : Content(k) = lists[k]
           /\ Exact(setup) /\ ~InMemory => Held = HeldBy(call, lists)
           /\ ~Exact(setup) /\ ~InMemory => Held = Empty
<1>1. \A k : Content(k) = lists[k]
  BY DEF RedisInv, Content
<1>2. \A c \in Callers : call[c].token = {}
  BY IndexNow DEF CallOK
<1>3. UnderDeletion = Leaving(call)
  BY <1>2 DEF UnderDeletion, Leaving
<1>4. setup.serial \in BOOLEAN /\ setup.faults \in BOOLEAN
  BY CallsAssumption DEF RedisInv, Setting
<1>. QED
  BY <1>1, <1>3, <1>4 DEF Held, HeldBy, Exact

\* With a caller that has its answer, nobody deletes.
LEMMA HeldAt ==
    ASSUME RedisInv, Exact(setup), NEW c \in Callers, call[c].pc = "done"
    PROVE  /\ ~InMemory /\ crossed = {}
           /\ Held = [k \in {j \in StoreKeys : lists[j] # <<>>} |-> lists[k]]
<1>1. ~InMemory
  BY DEF RedisInv, InMemory
<1>2. crossed = {} /\ \A d \in Callers \ {c} : call[d].pc = "idle"
  BY DEF RedisInv, Sound, SerialOK, Exact
<1>3. Leaving(call) = {}
  BY <1>2 DEF Leaving
<1>. QED
  BY <1>1, <1>2, <1>3, HeldIs DEF HeldBy

LEMMA DistinctSize ==
    ASSUME NEW s, IsSeq(s), \A i, j \in DOMAIN s : s[i] = s[j] => i = j
    PROVE  Cardinality(Range(s)) = Len(s)
<1>1. s \in Seq(Range(s)) /\ Len(s) \in Nat /\ DOMAIN s = 1..Len(s)
  <2>1. s \in Seq(Range(s))
    BY DEF IsSeq
  <2>. QED
    BY <2>1
<1>2. s \in [1..Len(s) -> Range(s)]
  BY <1>1
<1>3. s \in Bijection(1..Len(s), Range(s))
  BY <1>1, <1>2 DEF Bijection, Injection, Surjection, IsInjective, Range
<1>4. ExistsBijection(1..Len(s), Range(s))
  BY <1>3 DEF ExistsBijection
<1>. QED
  BY <1>1, <1>4, FS_CountingElements

LEMMA ReadsFollow == RedisInv => ReadsTrue
<1>. SUFFICES ASSUME RedisInv, NEW c \in Callers, Finished(c, "load")
              PROVE  LET answer == call[c].answer
                         read == Range(answer)
                     IN  /\ Cardinality(read) = Len(answer)
                         /\ read \subseteq EntriesOf({call[c].key})
                         /\ call[c].before \ atRisk \subseteq read
                         /\ \A e \in read, f \in DOMAIN made :
                                made[e].batch = made[f].batch => f \in read \cup atRisk
                         /\ \A i, j \in DOMAIN answer : Ordered(answer[i], answer[j]) => i < j
                         /\ setup.serial /\ ~setup.faults => answer = Contract!Load(call[c].key)
  BY DEF ReadsTrue
<1>. DEFINE answer == call[c].answer
            k == call[c].key
<1>1. call[c].method = "load" /\ call[c].pc = "done"
  BY DEF Finished
<1>2. /\ LogOK(made, answer, k) /\ call[c].before \ atRisk \subseteq Range(answer)
      /\ Exact(setup) => answer = lists[k]
  BY <1>1 DEF RedisInv, Sound, AnswersOK, AnswerOK, LoadedOK
<1>3. Cardinality(Range(answer)) = Len(answer)
  <2>. HIDE DEF answer
  <2>. QED
    BY <1>2, DistinctSize DEF LogOK
<1>4. Range(answer) \subseteq EntriesOf({k})
  BY <1>2 DEF LogOK, Ents, EntriesOf
<1>5. ASSUME NEW e \in Range(answer), NEW f \in DOMAIN made, made[e].batch = made[f].batch
      PROVE  f \in Range(answer) \cup atRisk
  BY <1>2, <1>5 DEF LogOK
<1>6. ASSUME NEW i \in DOMAIN answer, NEW j \in DOMAIN answer, Ordered(answer[i], answer[j])
      PROVE  i < j
  BY <1>2, <1>6 DEF LogOK, InOrder, Ordered
<1>7. ASSUME setup.serial, ~setup.faults PROVE answer = Contract!Load(k)
  <2>1. Exact(setup)
    BY <1>7 DEF Exact
  <2>2. k \in StoreKeys
    BY <1>1, IndexNow DEF CallOK
  <2>3. Held = [m \in {j \in StoreKeys : lists[j] # <<>>} |-> lists[m]]
    BY <1>1, <2>1, HeldAt
  <2>4. Contract!Load(k) = lists[k]
    BY <2>2, <2>3 DEF Contract!Load
  <2>. QED
    BY <1>2, <2>1, <2>4
<1>. QED
  BY <1>2, <1>3, <1>4, <1>5, <1>6, <1>7

LEMMA DeletesFollow == RedisInv => DeletesTrue
<1>. SUFFICES ASSUME RedisInv
              PROVE  /\ acked \ atRisk \subseteq Stored
                     /\ \A c \in Callers : Finished(c, "delete") =>
                            Stored \cap call[c].before \subseteq crossed
  BY DEF DeletesTrue, RedisInv
<1>1. Stored = UNION {Range(lists[k]) : k \in StoreKeys}
  BY HeldIs DEF Stored
<1>2. acked \ atRisk \subseteq Stored
  BY <1>1, IndexNow
<1>3. ASSUME NEW c \in Callers, Finished(c, "delete")
      PROVE  Stored \cap call[c].before \subseteq crossed
  <2>1. DeletedOK(lists, crossed, call[c])
    BY <1>3 DEF Finished, RedisInv, Sound, AnswersOK, AnswerOK
  <2>. QED
    BY <1>1, <2>1 DEF DeletedOK
<1>. QED
  BY <1>2, <1>3

LEMMA ListsFollow == RedisInv => ListsTrue
<1>. SUFFICES ASSUME RedisInv PROVE ListsTrue
  OBVIOUS
<1>1. /\ IndexOK(lists, subkeys, sessions, crossed)
      /\ \A k \in StoreKeys : LogOK(made, lists[k], k)
  BY IndexNow
<1>2. ASSUME NEW c \in Callers, Finished(c, "sessions")
      PROVE  /\ SessionsOf(call[c].before \ atRisk) \subseteq call[c].found
             /\ call[c].found \subseteq SessionsOf(DOMAIN made)
             /\ setup.serial /\ ~setup.faults => call[c].found = Contract!ListSessions
  <2>1. call[c].pc = "done" /\ SessionsOK(made, atRisk, sessions, Exact(setup), call[c])
    BY <1>2 DEF Finished, RedisInv, Sound, AnswersOK, AnswerOK
  <2>2. \A E : SessionsOf(E) = SessOf(made, E)
    BY DEF SessionsOf, SessOf
  <2>3. ASSUME setup.serial, ~setup.faults PROVE sessions = Contract!ListSessions
    <3>1. Held = [m \in {j \in StoreKeys : lists[j] # <<>>} |-> lists[m]]
      BY <2>1, <2>3, HeldAt DEF Exact
    <3>2. \A s \in StoreSessions : Contract!Main(s) = MainKey(s) /\ MainKey(s) \in StoreKeys
      BY MainOf, StoresAssumption DEF MainKey, Contract!Main
    <3>. QED
      BY <1>1, <3>1, <3>2 DEF IndexOK, Contract!ListSessions
  <2>. QED
    BY <2>1, <2>2, <2>3 DEF SessionsOK, Exact
<1>3. ASSUME NEW c \in Callers, Finished(c, "subkeys")
      PROVE  LET s == call[c].key[1]
             IN  /\ SubkeysOf(s, call[c].before \ atRisk) \subseteq call[c].found
                 /\ call[c].found \subseteq SubkeysOf(s, DOMAIN made)
                 /\ setup.serial /\ ~setup.faults => call[c].found = Contract!ListSubkeys(s)
  <2>. DEFINE s == call[c].key[1]
  <2>1. call[c].pc = "done" /\ SubkeysOK(made, atRisk, subkeys, Exact(setup), call[c])
    BY <1>3 DEF Finished, RedisInv, Sound, AnswersOK, AnswerOK
  <2>2. \A E : SubkeysOf(s, E) = SubsOf(made, s, E)
    BY DEF SubkeysOf, SubsOf
  <2>3. ASSUME setup.serial, ~setup.faults PROVE NamesOf(subkeys, s) = Contract!ListSubkeys(s)
    <3>1. /\ Held = [m \in {j \in StoreKeys : lists[j] # <<>>} |-> lists[m]]
          /\ crossed = {}
      BY <2>1, <2>3, HeldAt DEF Exact
    <3>2. \A k \in StoreKeys : ~IsMain(k) => (k \in subkeys <=> lists[k] # <<>>)
      <4>1. ASSUME NEW k \in StoreKeys, Range(lists[k]) = {} PROVE lists[k] = <<>>
        <5>1. lists[k] \in Seq(Range(lists[k]))
          BY <1>1 DEF LogOK, IsSeq
        <5>. QED
          BY <4>1, <5>1
      <4>. QED
        BY <1>1, <3>1, <4>1 DEF IndexOK
    <3>3. \A k \in StoreKeys : k = <<k[1], k[2]>> /\ (IsMain(k) <=> k[2] = None)
      BY MainKeys, StoresAssumption DEF IsMain
    <3>4. ASSUME NEW k \in subkeys, k[1] = s PROVE k[2] \in Contract!ListSubkeys(s)
      <4>1. k \in StoreKeys /\ ~IsMain(k)
        BY <1>1 DEF IndexOK
      <4>2. k \in DOMAIN Held /\ k = <<s, k[2]>> /\ k[2] # None
        BY <3>1, <3>2, <3>3, <3>4, <4>1
      <4>. QED
        BY <4>1, <4>2 DEF Contract!ListSubkeys
    <3>5. ASSUME NEW p \in Contract!ListSubkeys(s) PROVE p \in NamesOf(subkeys, s)
      <4>1. <<s, p>> \in DOMAIN Held /\ p # None
        BY <3>5 DEF Contract!ListSubkeys
      <4>2. <<s, p>> \in StoreKeys /\ lists[<<s, p>>] # <<>>
        BY <3>1, <4>1
      <4>3. <<s, p>> \in subkeys
        BY <3>2, <3>3, <4>1, <4>2
      <4>. QED
        BY <4>3 DEF NamesOf
    <3>6. NamesOf(subkeys, s) \subseteq Contract!ListSubkeys(s)
      BY <3>4 DEF NamesOf
    <3>. QED
      BY <3>5, <3>6
  <2>. QED
    BY <2>1, <2>2, <2>3 DEF SubkeysOK, Exact
<1>4. /\ sessions = {s \in StoreSessions : lists[MainKey(s)] # <<>>}
      /\ \A k \in StoreKeys : ~IsMain(k) =>
             /\ k \in subkeys => lists[k] # <<>>
             /\ k \notin subkeys => Range(lists[k]) \subseteq crossed
  BY <1>1 DEF IndexOK
<1>. QED
  BY <1>2, <1>3, <1>4 DEF ListsTrue

(***************************************************************************)
(* The store for Redis, for any callers, programs, keys and batches,       *)
(* whatever overlaps and fails.                                            *)
(***************************************************************************)

\* RedisSessionStore.load(), by LRANGE of one list, returns nothing of
\* another key, no entry twice and none of a batch without the rest of it;
\* it returns all that was acknowledged before it began, in order, but for
\* what a deletion put at risk.
THEOREM RedisReadsHold == StoresSpec => [](setup.adapter = "redis" => ReadsTrue)
<1>1. (setup.adapter = "redis" => RedisInv) => (setup.adapter = "redis" => ReadsTrue)
  BY ReadsFollow
<1>. QED
  BY <1>1, RedisInvariance, PTL

\* When RedisSessionStore.delete() returns, all that was acknowledged before
\* the call is gone, but for entries of a subagent whose append() overlapped
\* with a deletion of its session; and what is acknowledged goes in no other
\* way than by a deletion.
THEOREM RedisDeletesHold == StoresSpec => [](setup.adapter = "redis" => DeletesTrue)
<1>1. (setup.adapter = "redis" => RedisInv) => (setup.adapter = "redis" => DeletesTrue)
  BY DeletesFollow
<1>. QED
  BY <1>1, RedisInvariance, PTL

\* The sets of names that RedisSessionStore keeps beside its lists agree with
\* them, those same entries aside; what list_sessions() and list_subkeys()
\* return has all that were there at the call and that nobody deletes, and
\* none that never was.
THEOREM RedisListsHold == StoresSpec => [](setup.adapter = "redis" => ListsTrue)
<1>1. (setup.adapter = "redis" => RedisInv) => (setup.adapter = "redis" => ListsTrue)
  BY ListsFollow
<1>. QED
  BY <1>1, RedisInvariance, PTL

-----------------------------------------------------------------------------
\* The contract, for the stores that are reasoned about here

LEMMA KeysAgree == StoreKeys \subseteq Contract!Keys
<1>. SUFFICES ASSUME NEW k \in StoreKeys PROVE k \in Contract!Keys
  OBVIOUS
<1>1. k = <<k[1], k[2]>> /\ k[1] \in StoreSessions
  BY MainKeys
<1>2. CASE k[2] = None
  BY <1>1, <1>2 DEF Contract!Keys, Contract!Main
<1>3. CASE k[2] # None
  <2>1. k[2] \in {j[2] : j \in StoreKeys} \ {None}
    BY <1>3
  <2>. QED
    BY <1>1, <2>1 DEF Contract!Keys
<1>. QED
  BY <1>2, <1>3

LEMMA TakesIs ==
    ASSUME NEW k \in StoreKeys, NEW j
    PROVE  Contract!Covers(k, j) <=> Takes(k, j)
<1>1. k = <<k[1], k[2]>> /\ (IsMain(k) <=> k[2] = None)
  BY MainKeys, StoresAssumption DEF IsMain
<1>2. k = Contract!Main(k[1]) <=> k[2] = None
  BY <1>1 DEF Contract!Main
<1>. QED
  BY <1>1, <1>2 DEF Contract!Covers, Takes

\* A step of InMemorySessionStore.
LEMMA MemoryStep ==
    ASSUME StoreInv, InMemory, [StoresNext]_<<vars, adapterVars>>
    PROVE  Contract!Next \/ UNCHANGED Held
<1>1. setup' = setup
  <2>1. CASE UNCHANGED <<vars, adapterVars>>
    BY <2>1 DEF adapterVars, callVars
  <2>. QED
    BY <2>1, SetupStays
<1>2. Held = store /\ Held' = store'
  BY <1>1 DEF Held, InMemory
<1>3. \A k \in workload.keys : k \in Contract!Keys
  BY WorkloadIs, StoresAssumption DEF StoreInv, Stores
<1>4. ASSUME NEW k \in workload.keys, NEW b \in workload.batches,
             NEW now \in 0..workload.time, AppendEntries(k, b, now)
      PROVE  Contract!Next
  <2>1. Contract!Appended(k)
    BY <1>2, <1>4, ContractAppends
    DEF MemoryContract!Appended, Contract!Appended, MemoryContract!Load, Contract!Load
  <2>. QED
    BY <1>3, <2>1 DEF Contract!Next
<1>5. ASSUME NEW k \in workload.keys, Delete(k) PROVE Contract!Next
  <2>1. Contract!Deleted(k)
    BY <1>2, <1>5, ContractDeletes
    DEF MemoryContract!Deleted, Contract!Deleted, MemoryContract!Covers, Contract!Covers,
        MemoryContract!Main, Contract!Main
  <2>. QED
    BY <1>3, <2>1 DEF Contract!Next
<1>6. CASE \/ \E page \in workload.pages : ReadSummaries(page)
           \/ ReadSessions \/ ListingReturns \/ ListingForgotten
           \/ \E i \in lister.pending : LoadReturns(i)
  BY <1>2, <1>6 DEF ReadSummaries, ReadSessions, ListingReturns, ListingForgotten, LoadReturns,
             storage
<1>7. CASE UNCHANGED vars
  BY <1>2, <1>7 DEF vars, storage
<1>8. CASE UNCHANGED <<vars, adapterVars>>
  BY <1>7, <1>8
<1>. QED
  BY <1>4, <1>5, <1>6, <1>7, <1>8 DEF StoresNext, Next

-----------------------------------------------------------------------------
\* What a caller does that is not a deletion on its way is no deletion.
LEMMA CallerCalls ==
    ASSUME NEW c \in Callers, CallerSteps(c), ~setup.faults
    PROVE  \E r : /\ call' = [call EXCEPT ![c] = r]
                  /\ r.pc # "delete" /\ call[c].pc # "delete"
<1>1. \A prog, method, k, b : Started(prog, method, k, b).pc = "start"
  BY StartedIs
<1>2. ASSUME NEW prog, NEW method, NEW k, Calls(c, prog, method, k)
      PROVE  \E r : call' = [call EXCEPT ![c] = r] /\ r.pc # "delete"
  <2>1. call' = [call EXCEPT ![c] = Started(prog, method, k, <<>>)]
    BY <1>2 DEF Calls
  <2>2. Started(prog, method, k, <<>>).pc = "start"
    BY <1>1
  <2>. QED
    BY <2>1, <2>2
<1>3. ASSUME NEW prog, NEW k, NEW n, CallsAppend(c, prog, k, n)
      PROVE  \E r : call' = [call EXCEPT ![c] = r] /\ r.pc # "delete"
  <2>. DEFINE ids == [i \in 1..n |-> Len(made) + i]
  <2>1. call' = [call EXCEPT ![c] = Started(prog, "append", k, ids)]
    BY <1>3 DEF CallsAppend
  <2>. HIDE DEF ids
  <2>2. Started(prog, "append", k, ids).pc = "start"
    BY <1>1
  <2>. QED
    BY <2>1, <2>2
<1>4. \A prog : Begins(c, prog) => call[c].pc # "delete"
  BY DEF Begins
<1>5. Idle.pc = "idle"
  BY DEF Idle
<1>6. StaysBut(c, Idle) => \E r : call' = [call EXCEPT ![c] = r] /\ r.pc # "delete"
  BY <1>5 DEF StaysBut
<1>7. ASSUME Raises(c) PROVE \E r : call' = [call EXCEPT ![c] = r] /\ r.pc # "delete"
  <2>. DEFINE r == Raised(call[c])
  <2>1. call' = [call EXCEPT ![c] = r]
    BY <1>7 DEF Raises, StaysBut, Raised
  <2>2. r.pc # "delete"
    BY DEF Raised
  <2>. HIDE DEF r
  <2>. QED
    BY <2>1, <2>2
<1>8. CASE \E dst \in Unused : ForkWrites(c, dst)
  <2>1. call[c].pc # "delete"
    BY <1>8 DEF ForkWrites, In
  <2>. QED
    BY <1>3, <1>7, <1>8, <2>1 DEF ForkWrites
<1>9. CASE AgentLoads(c)
  <2>1. call[c].pc # "delete"
    BY <1>9 DEF AgentLoads, In
  <2>. QED
    BY <1>2, <1>6, <1>9, <2>1 DEF AgentLoads
<1>10. CASE Forgets(c)
  BY <1>6, <1>10 DEF Forgets, Over
<1>11. ~RequestFails(c)
  BY DEF RequestFails
<1>. QED
  BY <1>2, <1>3, <1>4, <1>8, <1>9, <1>10, <1>11
  DEF CallerSteps, MirrorAppends, DeleteSubpath, AgentFromStore, RenameViaStore,
      DeleteViaStore, ForkViaStore, MessagesFromStore, ListSubagents, ListSessionsOf

\* A step of the store for Redis.
LEMMA RedisStep ==
    ASSUME RedisInv, RedisInv', ~InMemory, [StoresNext]_<<vars, adapterVars>>
    PROVE  Contract!Next \/ UNCHANGED Held
<1>1. setup' = setup
  <2>1. CASE UNCHANGED <<vars, adapterVars>>
    BY <2>1 DEF adapterVars, callVars
  <2>. QED
    BY <2>1, SetupStays
<1>2. /\ Exact(setup) => Held = HeldBy(call, lists) /\ Held' = HeldBy(call', lists')
      /\ ~Exact(setup) => Held = Empty /\ Held' = Empty
  <2>1. ~InMemory'
    BY <1>1 DEF InMemory
  <2>2. (RedisInv => /\ Exact(setup) /\ ~InMemory => Held = HeldBy(call, lists)
                     /\ ~Exact(setup) /\ ~InMemory => Held = Empty)'
    BY HeldIs, PTL
  <2>3. /\ Exact(setup)' /\ ~InMemory' => Held' = HeldBy(call, lists)'
        /\ ~Exact(setup)' /\ ~InMemory' => Held' = Empty
    BY <2>2
  <2>4. Exact(setup)' = Exact(setup)
    BY <1>1 DEF Exact
  <2>. QED
    BY <2>1, <2>3, <2>4, HeldIs
<1>3. CASE ~Exact(setup)
  BY <1>2, <1>3
<1>. SUFFICES ASSUME Exact(setup) PROVE Contract!Next \/ UNCHANGED Held
  BY <1>3
<1>. DEFINE P == [k \in {j \in StoreKeys : lists[j] # <<>>} |-> lists[k]]
            Q == [k \in {j \in StoreKeys : lists'[j] # <<>>} |-> lists'[k]]
<1>4. ~setup.faults /\ setup.serial /\ Held = HeldBy(call, lists) /\ Held' = HeldBy(call', lists')
  BY <1>2 DEF Exact
<1>5. /\ DOMAIN call = Callers /\ \A c \in Callers : CallOK(made, acked, call[c])
      /\ crossed = {} /\ \A c, d \in Callers : c # d => call[c].pc = "idle" \/ call[d].pc = "idle"
      /\ DOMAIN lists = StoreKeys
  BY <1>4 DEF RedisInv, Sound, CallsOK, SerialOK, ListsOK
<1>6. \A k \in StoreKeys : Range(lists[k]) = {} => lists[k] = <<>>
  <2>1. \A k \in StoreKeys : lists[k] \in Seq(Range(lists[k]))
    BY IndexNow DEF LogOK, IsSeq
  <2>. QED
    BY <2>1
<1>7. CASE UNCHANGED <<call, lists>>
  BY <1>4, <1>7 DEF HeldBy, Leaving
<1>8. ASSUME NEW c \in Callers, NEW r, call' = [call EXCEPT ![c] = r], lists' = lists,
             r.pc # "delete", call[c].pc # "delete"
      PROVE  UNCHANGED Held
  <2>1. \A d \in Callers : call'[d] = IF d = c THEN r ELSE call[d]
    BY <1>5, <1>8
  <2>2. Leaving(call') = Leaving(call)
    BY <1>8, <2>1 DEF Leaving
  <2>. QED
    BY <1>4, <1>8, <2>2 DEF HeldBy
\* Between the requests of one method nobody else deletes.
<1>9. ASSUME NEW c \in Callers, call[c].pc # "idle"
      PROVE  /\ call[c].pc # "delete" => Held = P
             /\ \A r : call' = [call EXCEPT ![c] = r] /\ r.pc # "delete" => Held' = Q
  <2>1. \A d \in Callers \ {c} : call[d].pc = "idle"
    BY <1>5, <1>9
  <2>2. call[c].pc # "delete" => Leaving(call) = {}
    BY <2>1 DEF Leaving
  <2>3. ASSUME NEW r, call' = [call EXCEPT ![c] = r], r.pc # "delete" PROVE Leaving(call') = {}
    <3>1. \A d \in Callers : call'[d] = IF d = c THEN r ELSE call[d]
      BY <1>5, <2>3
    <3>. QED
      BY <2>1, <2>3, <3>1 DEF Leaving
  <2>. QED
    BY <1>4, <2>2, <2>3 DEF HeldBy
<1>10. ASSUME NEW c \in Callers, CallerSteps(c), UNCHANGED redisVars PROVE UNCHANGED Held
  <2>1. lists' = lists
    BY <1>10 DEF redisVars
  <2>. QED
    BY <1>4, <1>8, <1>10, <2>1, CallerCalls
\* What a call that returns leaves of itself.
<1>11. ASSUME NEW c \in Callers, NEW a, NEW f, Done(c, a, f), call[c].pc # "idle"
       PROVE  \E r : call' = [call EXCEPT ![c] = r] /\ r.pc = "done"
  <2>1. call' = [call EXCEPT ![c] = Returned(call[c], a, f)]
    BY <1>11, DoneIs
  <2>2. CallOK(made, acked, call[c])
    BY <1>5
  <2>3. Returned(call[c], a, f).pc = "done"
    BY ONLY <1>11, <2>2, ReturnedIs
  <2>. QED
    BY <2>1, <2>3
<1>12. ASSUME NEW c \in Callers, RedisLoads(c) \/ RedisLists(c) PROVE UNCHANGED Held
  <2>1. call[c].pc = "start" /\ lists' = lists /\ \E a, f : Done(c, a, f)
    BY <1>12 DEF RedisLoads, RedisLists, Redis, In, LoadEnds, ListEnds, redisVars
  <2>2. PICK r : call' = [call EXCEPT ![c] = r] /\ r.pc = "done"
    BY <1>11, <2>1
  <2>. QED
    BY <1>8, <2>1, <2>2
<1>13. ASSUME NEW c \in Callers, RedisPushes(c) PROVE Contract!Next
  <2>. DEFINE k == call[c].key
              b == call[c].batch
  <2>1. /\ call[c].method = "append" /\ call[c].pc = "start" /\ Done(c, <<>>, {})
        /\ lists' = [lists EXCEPT ![k] = @ \o b]
    BY <1>4, <1>13 DEF RedisPushes, Redis, In, OrLost, AppendReturns
  <2>2. PICK r : call' = [call EXCEPT ![c] = r] /\ r.pc = "done"
    BY <1>11, <2>1
  <2>3. Held = P /\ Held' = Q
    BY <1>9, <2>1, <2>2
  <2>4. k \in StoreKeys /\ AppendsNow(call[c])
    BY <1>5, <2>1 DEF CallOK, AppendsNow
  <2>5. IsSeq(lists[k]) /\ IsSeq(b) /\ b # <<>>
    BY <2>4, IndexNow DEF LogOK, RedisInv, Sound, AppendsOK, BatchOK
  <2>6. /\ lists[k] \o b # lists[k] /\ lists[k] \o b # <<>>
        /\ SubSeq(lists[k] \o b, 1, Len(lists[k])) = lists[k]
    <3>. DEFINE s == lists[k]
                S == Range(s) \cup Range(b)
    <3>1. s \in Seq(S) /\ b \in Seq(S) /\ b # <<>>
      BY <2>5 DEF IsSeq
    <3>. HIDE DEF s, b, S
    <3>2. s \o b # s /\ s \o b # <<>> /\ SubSeq(s \o b, 1, Len(s)) = s
      BY <3>1
    <3>. QED
      BY <3>2 DEF s
  <2>7. /\ lists'[k] = lists[k] \o b
        /\ \A j \in StoreKeys \ {k} : lists'[j] = lists[j]
    BY <1>5, <2>1, <2>4
  <2>. HIDE DEF k, b
  <2>8. /\ DOMAIN Held' = DOMAIN Held \cup {k} /\ Held'[k] = lists[k] \o b
        /\ \A j \in DOMAIN Held \ {k} : Held'[j] = Held[j]
    BY <2>3, <2>4, <2>6, <2>7
  <2>9. Contract!Load(k) = lists[k]
    BY <2>3, <2>4 DEF Contract!Load
  <2>10. Contract!Appended(k)
    BY <2>6, <2>8, <2>9 DEF Contract!Appended
  <2>. QED
    BY <2>4, <2>10, KeysAgree DEF Contract!Next
<1>14. ASSUME NEW c \in Callers, RedisDeletesSubpath(c) PROVE Contract!Next
  <2>. DEFINE k == call[c].key
  <2>1. /\ call[c].method = "delete" /\ call[c].pc = "start" /\ Done(c, <<>>, {}) /\ ~IsMain(k)
        /\ lists' = [lists EXCEPT ![k] = <<>>]
    BY <1>4, <1>14 DEF RedisDeletesSubpath, Redis, In, OrLost, DeleteReturns
  <2>2. PICK r : call' = [call EXCEPT ![c] = r] /\ r.pc = "done"
    BY <1>11, <2>1
  <2>3. Held = P /\ Held' = Q
    BY <1>9, <2>1, <2>2
  <2>4. k \in StoreKeys
    BY <1>5, <2>1 DEF CallOK
  <2>5. lists'[k] = <<>> /\ \A j \in StoreKeys \ {k} : lists'[j] = lists[j]
    BY <1>5, <2>1, <2>4
  <2>6. \A j : Contract!Covers(k, j) <=> j = k
    BY <2>1, <2>4, TakesIs DEF Takes
  <2>. HIDE DEF k
  <2>7. Contract!Deleted(k)
    BY <2>3, <2>5, <2>6 DEF Contract!Deleted
  <2>. QED
    BY <2>4, <2>7, KeysAgree DEF Contract!Next
<1>15. ASSUME NEW c \in Callers, RedisLearnsSubpaths(c) PROVE Contract!Next
  <2>. DEFINE k == call[c].key
              r == [call[c] EXCEPT !.pc = "delete", !.found = SubpathsOf(k[1]), !.left = {},
                                   !.token = {}]
  <2>1. /\ call[c].method = "delete" /\ call[c].pc = "start"
        /\ call' = [call EXCEPT ![c] = r] /\ lists' = lists
    BY <1>15 DEF RedisLearnsSubpaths, Redis, In, GoesOn, StaysBut, redisVars
  <2>2. CallOK(made, acked, call[c]) /\ k \in StoreKeys
    BY <1>5, <2>1 DEF CallOK
  <2>3. r.pc = "delete" /\ r.method = "delete" /\ r.key = k
    BY <2>1, <2>2 DEF CallOK, CallFields
  <2>. HIDE DEF r
  <2>4. Held = P
    BY <1>9, <2>1
  <2>5. \A d \in Callers : call'[d] = IF d = c THEN r ELSE call[d]
    BY <1>5, <2>1
  <2>6. \A d \in Callers \ {c} : call[d].pc = "idle"
    BY <1>5, <2>1
  <2>7. Leaving(call') = {j \in StoreKeys : Takes(k, j)}
    BY <2>3, <2>5, <2>6 DEF Leaving
  <2>. HIDE DEF k
  <2>8. Held' = [j \in {i \in StoreKeys : ~Takes(k, i) /\ lists[i] # <<>>} |-> lists[j]]
    BY <1>4, <2>1, <2>7 DEF HeldBy
  <2>9. \A j : Contract!Covers(k, j) <=> Takes(k, j)
    BY <2>2, TakesIs
  <2>10. Contract!Deleted(k)
    BY <2>4, <2>8, <2>9 DEF Contract!Deleted
  <2>. QED
    BY <2>2, <2>10, KeysAgree DEF Contract!Next
<1>16. ASSUME NEW c \in Callers, RedisDeletesSession(c) PROVE UNCHANGED Held
  <2>. DEFINE k == call[c].key
  <2>1. /\ call[c].method = "delete" /\ call[c].pc = "delete" /\ Done(c, <<>>, {})
        /\ lists' = [j \in StoreKeys |-> IF j \in Doomed(c) THEN <<>> ELSE lists[j]]
    BY <1>4, <1>16 DEF RedisDeletesSession, Redis, In, OrLost, DeleteReturns
  <2>2. PICK r : call' = [call EXCEPT ![c] = r] /\ r.pc = "done"
    BY <1>11, <2>1
  <2>3. Held' = Q
    BY <1>9, <2>1, <2>2
  <2>4. \A d \in Callers \ {c} : call[d].pc = "idle"
    BY <1>5, <2>1
  <2>5. Leaving(call) = {j \in StoreKeys : Takes(k, j)}
    BY <2>1, <2>4 DEF Leaving
  <2>6. Held = [j \in {i \in StoreKeys : ~Takes(k, i) /\ lists[i] # <<>>} |-> lists[j]]
    BY <1>4, <2>5 DEF HeldBy
  <2>7. k \in StoreKeys
    BY <1>5, <2>1 DEF CallOK
  <2>8. /\ IsMain(k) /\ call[c].found \subseteq Below(k[1])
        /\ \A j \in Below(k[1]) \ call[c].found : Range(lists[j]) = {}
    BY <1>5, <2>1, IndexNow DEF LearntOK, Learnt
  <2>9. ASSUME NEW j \in StoreKeys
        PROVE  lists'[j] = IF Takes(k, j) THEN <<>> ELSE lists[j]
    <3>1. Takes(k, j) => j = k \/ j \in Below(k[1])
      BY <2>7, <2>8, MainKeys DEF Takes, Below
    <3>2. j \in Doomed(c) <=> j = k \/ j \in call[c].found
      BY DEF Doomed
    <3>3. CASE Takes(k, j)
      BY <1>6, <2>1, <2>8, <3>1, <3>2, <3>3
    <3>4. CASE ~Takes(k, j)
      BY <2>1, <2>8, <3>2, <3>4 DEF Takes, Below
    <3>. QED
      BY <3>3, <3>4
  <2>. HIDE DEF k
  <2>. QED
    BY <2>3, <2>6, <2>9
<1>17. \A c \in Callers : ~S3Steps(c) /\ ~PgSteps(c)
  <2>1. setup.adapter = "redis"
    BY DEF RedisInv
  <2>2. \A c \in Callers : ~S3Steps(c)
    BY <2>1 DEF S3Steps, S3NamesPart, S3Puts, S3ListsParts, S3Gets, S3ListsDoomed, S3Deletes,
                S3ListsSessions, S3ListsSubkeys, S3Lists, S3
  <2>3. \A c \in Callers : ~PgSteps(c)
    BY <2>1 DEF PgSteps, PgDraws, PgCommits, PgLoads, PgDeletes, PgLists, Pg
  <2>. QED
    BY <2>2, <2>3
<1>18. CASE UNCHANGED adapterVars
  BY <1>7, <1>18 DEF adapterVars, callVars, redisVars
<1>19. CASE \E c \in Callers : \/ CallerSteps(c) /\ UNCHANGED redisVars
                               \/ RedisSteps(c)
  BY <1>10, <1>12, <1>13, <1>14, <1>15, <1>16, <1>19 DEF RedisSteps
<1>. QED
  BY <1>17, <1>18, <1>19 DEF StoresNext, adapterVars

(***************************************************************************)
(* InMemorySessionStore and the store for Redis implement the contract of  *)
(* the conformance suite, as long as calls do not overlap and nothing      *)
(* fails.  The deletion of a session from Redis is over for others when it *)
(* has begun, though its lists go a request later.                         *)
(***************************************************************************)
THEOREM StoresImplement ==
    StoresSpec /\ (InMemory \/ setup.adapter = "redis") => ImplementsContract
<1>. DEFINE I == /\ StoreInv /\ (setup.adapter = "redis" => RedisInv)
                 /\ InMemory \/ setup.adapter = "redis"
<1>1. StoresSpec => []StoreInv
  BY StoreApart, StoreInvariance, PTL
<1>2. (InMemory \/ setup.adapter = "redis") /\ [StoresNext]_<<vars, adapterVars>>
        => (InMemory \/ setup.adapter = "redis")'
  <2>1. [StoresNext]_<<vars, adapterVars>> => setup' = setup
    BY SetupStays DEF adapterVars, callVars
  <2>. QED
    BY <2>1 DEF InMemory
<1>3. StoresInit /\ (InMemory \/ setup.adapter = "redis") => Contract!Init
  <2>. SUFFICES ASSUME StoresInit, InMemory \/ setup.adapter = "redis" PROVE Contract!Init
    OBVIOUS
  <2>1. CASE InMemory
    BY <2>1 DEF StoresInit, Init, Held, Contract!Init, Empty
  <2>2. CASE setup.adapter = "redis" /\ ~InMemory
    <3>1. RedisInv /\ lists = [k \in StoreKeys |-> <<>>]
      BY <2>2, RedisStarts DEF StoresInit, RedisInit
    <3>2. HeldBy(call, lists) = [k \in {} |-> <<>>]
      BY <3>1 DEF HeldBy
    <3>3. Held = [k \in {} |-> <<>>]
      BY <2>2, <3>1, <3>2, HeldIs DEF Empty
    <3>. QED
      BY <3>3 DEF Contract!Init
  <2>. QED
    BY <2>1, <2>2
<1>4. I /\ I' /\ [StoresNext]_<<vars, adapterVars>> => [Contract!Next]_Held
  <2>. SUFFICES ASSUME I, I', [StoresNext]_<<vars, adapterVars>>
                PROVE  Contract!Next \/ UNCHANGED Held
    OBVIOUS
  <2>0. setup' = setup
    BY SetupStays DEF adapterVars, callVars
  <2>1. CASE InMemory
    BY <2>1, MemoryStep
  <2>2. CASE ~InMemory
    <3>1. RedisInv /\ RedisInv'
      BY <2>0, <2>2 DEF InMemory
    <3>. QED
      BY <2>2, <3>1, RedisStep
  <2>. QED
    BY <2>1, <2>2
<1>5. StoresSpec /\ (InMemory \/ setup.adapter = "redis") => []I
  BY <1>1, <1>2, RedisInvariance, PTL DEF StoresSpec
<1>6. StoresSpec /\ (InMemory \/ setup.adapter = "redis") => Contract!Spec
  BY <1>3, <1>4, <1>5, PTL DEF StoresSpec, Contract!Spec
<1>. QED
  BY <1>6 DEF ImplementsContract

-----------------------------------------------------------------------------
\* Sorting

StrictOrder(S, R) ==
    /\ \A x \in S : <<x, x>> \notin R
    /\ \A x, y \in S : x # y => <<x, y>> \in R \/ <<y, x>> \in R
    /\ \A x, y, z \in S : <<x, y>> \in R /\ <<y, z>> \in R => <<x, z>> \in R
Ahead(S, R, x) == {y \in S : <<y, x>> \in R}
Rank(S, R, x) == Cardinality(Ahead(S, R, x))

\* What is before another has fewer before it.
LEMMA RankIs ==
    ASSUME NEW S, NEW R, IsFiniteSet(S), StrictOrder(S, R)
    PROVE  /\ Cardinality(S) \in Nat
           /\ \A x \in S : Rank(S, R, x) \in 0..(Cardinality(S) - 1)
           /\ \A x, y \in S : <<x, y>> \in R => Rank(S, R, x) < Rank(S, R, y)
           /\ \A x, y \in S : Rank(S, R, x) = Rank(S, R, y) => x = y
<1>0. Cardinality(S) \in Nat
  BY FS_CardinalityType
<1>1. ASSUME NEW x \in S
      PROVE  IsFiniteSet(Ahead(S, R, x)) /\ Rank(S, R, x) \in 0..(Cardinality(S) - 1)
  <2>1. Ahead(S, R, x) \in SUBSET (S \ {x})
    BY DEF Ahead, StrictOrder
  <2>2. IsFiniteSet(S \ {x}) /\ Cardinality(S \ {x}) = Cardinality(S) - 1
    BY FS_RemoveElement
  <2>3. /\ IsFiniteSet(Ahead(S, R, x))
        /\ Cardinality(Ahead(S, R, x)) <= Cardinality(S) - 1
    BY <2>1, <2>2, FS_Subset
  <2>4. Cardinality(Ahead(S, R, x)) \in Nat
    BY <2>3, FS_CardinalityType
  <2>. QED
    BY <1>0, <2>3, <2>4 DEF Rank
<1>2. ASSUME NEW x \in S, NEW y \in S, <<x, y>> \in R PROVE Rank(S, R, x) < Rank(S, R, y)
  <2>1. Ahead(S, R, x) \in SUBSET (Ahead(S, R, y) \ {x}) /\ x \in Ahead(S, R, y)
    BY <1>2 DEF Ahead, StrictOrder
  <2>2. /\ IsFiniteSet(Ahead(S, R, y) \ {x})
        /\ Cardinality(Ahead(S, R, y) \ {x}) = Rank(S, R, y) - 1
    BY <1>1, <2>1, FS_RemoveElement DEF Rank
  <2>3. Rank(S, R, x) <= Rank(S, R, y) - 1
    BY <2>1, <2>2, FS_Subset DEF Rank
  <2>. QED
    BY <1>0, <1>1, <2>3
<1>3. ASSUME NEW x \in S, NEW y \in S, Rank(S, R, x) = Rank(S, R, y) PROVE x = y
  <2>1. Rank(S, R, x) \in Int /\ Rank(S, R, y) \in Int
    BY <1>0, <1>1
  <2>2. <<x, y>> \notin R /\ <<y, x>> \notin R
    BY <1>2, <1>3, <2>1
  <2>. QED
    BY <2>2 DEF StrictOrder
<1>. QED
  BY <1>0, <1>1, <1>2, <1>3

\* Every rank is taken.
LEMMA RanksTaken ==
    ASSUME NEW S, NEW R, IsFiniteSet(S), StrictOrder(S, R),
           NEW n \in 0..(Cardinality(S) - 1)
    PROVE  \E x \in S : Rank(S, R, x) = n
<1>. DEFINE N == Cardinality(S)
            f == [x \in S |-> Rank(S, R, x)]
<1>1. N \in Nat /\ f \in [S -> 0..(N - 1)]
  BY RankIs
<1>2. f \in Injection(S, 0..(N - 1))
  BY <1>1, RankIs DEF Injection, IsInjective
<1>3. IsFiniteSet(0..(N - 1)) /\ Cardinality(0..(N - 1)) = N
  BY <1>1, FS_Interval
<1>4. f \in Surjection(S, 0..(N - 1))
  BY <1>2, <1>3, FS_Injection
<1>. QED
  BY <1>4 DEF Surjection

\* Sorted() has every element once, each behind those that are before it.
LEMMA SortedIs ==
    ASSUME NEW S, NEW R, IsFiniteSet(S), StrictOrder(S, R)
    PROVE  /\ Cardinality(S) \in Nat
           /\ Sorted(S, R) \in [1..Cardinality(S) -> S]
           /\ \A x \in S : \E i \in 1..Cardinality(S) : Sorted(S, R)[i] = x
           /\ \A i, j \in 1..Cardinality(S) :
                  i < j => <<Sorted(S, R)[i], Sorted(S, R)[j]>> \in R
           /\ \A i, j \in 1..Cardinality(S) : Sorted(S, R)[i] = Sorted(S, R)[j] => i = j
           /\ \A i \in 1..Cardinality(S) : Rank(S, R, Sorted(S, R)[i]) = i - 1
<1>. DEFINE N == Cardinality(S)
            Nth(i) == CHOOSE x \in S : Rank(S, R, x) = i - 1
<1>0. N \in Nat
  BY RankIs
<1>1. ASSUME NEW i \in 1..N PROVE Nth(i) \in S /\ Rank(S, R, Nth(i)) = i - 1
  <2>1. i - 1 \in 0..(N - 1)
    BY <1>0
  <2>2. \E x \in S : Rank(S, R, x) = i - 1
    BY <2>1, RanksTaken
  <2>. QED
    BY <2>2
<1>2. Sorted(S, R) = [i \in 1..N |-> Nth(i)]
  BY DEF Sorted, Rank, Ahead
<1>. HIDE DEF Nth
<1>3. \A i \in 1..N : Sorted(S, R)[i] \in S /\ Rank(S, R, Sorted(S, R)[i]) = i - 1
  BY <1>1, <1>2
<1>4. ASSUME NEW x \in S PROVE \E i \in 1..N : Sorted(S, R)[i] = x
  <2>1. Rank(S, R, x) + 1 \in 1..N /\ (Rank(S, R, x) + 1) - 1 = Rank(S, R, x)
    BY <1>0, RankIs
  <2>. QED
    BY <1>3, <2>1, RankIs
<1>5. ASSUME NEW i \in 1..N, NEW j \in 1..N, i < j
      PROVE  <<Sorted(S, R)[i], Sorted(S, R)[j]>> \in R
  <2>. DEFINE x == Sorted(S, R)[i]
              y == Sorted(S, R)[j]
  <2>1. x \in S /\ y \in S /\ Rank(S, R, x) = i - 1 /\ Rank(S, R, y) = j - 1
    BY <1>3
  <2>. HIDE DEF x, y
  <2>2. x # y /\ <<y, x>> \notin R
    BY <1>0, <1>5, <2>1, RankIs
  <2>3. <<x, y>> \in R
    BY <2>1, <2>2 DEF StrictOrder
  <2>. QED
    BY <2>3 DEF x, y
<1>6. ASSUME NEW i \in 1..N, NEW j \in 1..N, Sorted(S, R)[i] = Sorted(S, R)[j] PROVE i = j
  BY <1>0, <1>3, <1>6
<1>. QED
  BY <1>0, <1>2, <1>3, <1>4, <1>5, <1>6

\* Nothing else does.
LEMMA SortedOnly ==
    ASSUME NEW S, NEW R, IsFiniteSet(S), StrictOrder(S, R),
           NEW n \in Nat, NEW t \in [1..n -> S],
           \A x \in S : \E i \in 1..n : t[i] = x,
           \A i, j \in 1..n : i < j => <<t[i], t[j]>> \in R
    PROVE  n = Cardinality(S) /\ t = Sorted(S, R)
<1>0. ASSUME NEW i \in 1..n, NEW j \in 1..n PROVE t[i] \in S /\ (i < j \/ i = j \/ j < i)
  OBVIOUS
<1>1. ASSUME NEW i \in 1..n, NEW j \in 1..n, t[i] = t[j] PROVE i = j
  <2>1. <<t[i], t[i]>> \notin R
    BY <1>0 DEF StrictOrder
  <2>2. ~(i < j) /\ ~(j < i)
    BY <1>1, <2>1
  <2>. QED
    BY <1>0, <2>2
<1>2. n = Cardinality(S)
  <2>1. t \in Bijection(1..n, S)
    BY <1>1 DEF Bijection, Injection, Surjection, IsInjective
  <2>. QED
    BY <2>1, FS_CountingElements DEF ExistsBijection
<1>3. ASSUME NEW i \in 1..n PROVE Rank(S, R, t[i]) = i - 1
  <2>. DEFINE B == Ahead(S, R, t[i])
              u == [j \in 1..(i - 1) |-> t[j]]
  <2>1. ASSUME NEW j \in 1..n PROVE <<t[j], t[i]>> \in R <=> j < i
    <3>1. t[i] \in S /\ t[j] \in S /\ (i < j \/ i = j \/ j < i)
      BY <1>0
    <3>2. <<t[i], t[i]>> \notin R /\ ~(<<t[i], t[j]>> \in R /\ <<t[j], t[i]>> \in R)
      BY <3>1 DEF StrictOrder
    <3>3. j < i => <<t[j], t[i]>> \in R
      OBVIOUS
    <3>4. i < j => <<t[i], t[j]>> \in R
      OBVIOUS
    <3>. QED
      BY <3>1, <3>2, <3>3, <3>4
  <2>2. \A j \in 1..(i - 1) : j \in 1..n /\ j < i
    OBVIOUS
  <2>3. u \in [1..(i - 1) -> B]
    BY <2>1, <2>2 DEF Ahead
  <2>4. \A x \in B : \E j \in 1..(i - 1) : u[j] = x
    <3>. SUFFICES ASSUME NEW x \in B PROVE \E j \in 1..(i - 1) : u[j] = x
      OBVIOUS
    <3>1. PICK j \in 1..n : t[j] = x
      BY DEF Ahead
    <3>2. j \in 1..(i - 1)
      BY <2>1, <3>1 DEF Ahead
    <3>. QED
      BY <3>1, <3>2
  <2>5. u \in Bijection(1..(i - 1), B)
    BY <1>1, <2>2, <2>3, <2>4 DEF Bijection, Injection, Surjection, IsInjective
  <2>6. i - 1 \in Nat
    OBVIOUS
  <2>. QED
    BY <2>5, <2>6, FS_CountingElements DEF ExistsBijection, Rank
<1>4. ASSUME NEW i \in 1..n PROVE t[i] = Sorted(S, R)[i]
  <2>1. t[i] \in S /\ Sorted(S, R)[i] \in S
    BY <1>2, SortedIs
  <2>2. Rank(S, R, t[i]) = Rank(S, R, Sorted(S, R)[i])
    BY <1>2, <1>3, SortedIs
  <2>. QED
    BY <2>1, <2>2, RankIs
<1>. QED
  BY <1>2, <1>4, SortedIs

-----------------------------------------------------------------------------
\* The two derivations of a summary

(***************************************************************************)
(* Entries as the CLI writes them: a timestamp can be parsed, a directory, *)
(* a branch, a prompt and a command, where there is one, are not empty.    *)
(***************************************************************************)
Plain(e) ==
    /\ Get(e, "timestamp") # "bad" /\ Get(e, "cwd") # "" /\ Get(e, "gitBranch") # ""
    /\ Said(e, "prompt") # "" /\ Said(e, "command") # ""

Given(data) == \A k \in DOMAIN data : data[k] # None
Else(x, y) == IF x # None THEN x ELSE y

LEMMA OnceGets ==
    ASSUME NEW f, Given(f), NEW k, NEW v
    PROVE  /\ Given(Once(f, k, v))
           /\ Get(Once(f, k, v), k) = Else(Get(f, k), v)
           /\ \A j : j # k => Get(Once(f, k, v), j) = Get(f, j)
<1>1. CASE k \in DOMAIN f \/ v = None
  BY <1>1 DEF Once, Get, Else, Given
<1>2. CASE ~(k \in DOMAIN f \/ v = None)
  <2>1. Once(f, k, v) = [j \in DOMAIN f \cup {k} |-> IF j = k THEN v ELSE f[j]]
    BY <1>2 DEF Once, Updated
  <2>. QED
    BY <1>2, <2>1 DEF Get, Else, Given
<1>. QED
  BY <1>1, <1>2

LEMMA UpdatedGets ==
    ASSUME NEW f, Given(f), NEW k, NEW v, v # None
    PROVE  /\ Given(Updated(f, k, v))
           /\ Get(Updated(f, k, v), k) = v
           /\ \A j : j # k => Get(Updated(f, k, v), j) = Get(f, j)
<1>1. Updated(f, k, v) = [j \in DOMAIN f \cup {k} |-> IF j = k THEN v ELSE f[j]]
  BY DEF Updated
<1>. QED
  BY <1>1 DEF Get, Given

LEMMA LatchGets ==
    ASSUME NEW data, Given(data), NEW e, Plain(e)
    PROVE  /\ Given(Latch(data, e))
           /\ Get(Latch(data, e), "is_sidechain")
                  = Else(Get(data, "is_sidechain"), Or(Get(e, "isSidechain"), "false"))
           /\ Get(Latch(data, e), "created_at")
                  = Else(Get(data, "created_at"), Get(e, "timestamp"))
           /\ Get(Latch(data, e), "cwd") = Else(Get(data, "cwd"), Get(e, "cwd"))
           /\ \A j : j \notin {"is_sidechain", "created_at", "cwd"} =>
                  Get(Latch(data, e), j) = Get(data, j)
<1>. DEFINE x == Or(Get(e, "isSidechain"), "false")
            y == Get(e, "timestamp")
            z == Get(e, "cwd")
            a == Once(data, "is_sidechain", x)
            b == Once(a, "created_at", y)
            c == Once(b, "cwd", z)
<1>1. Latch(data, e) = c
  BY DEF Plain, Latch
<1>. HIDE DEF x, y, z, a, b, c
<1>2. /\ Given(a) /\ Get(a, "is_sidechain") = Else(Get(data, "is_sidechain"), x)
      /\ \A j : j # "is_sidechain" => Get(a, j) = Get(data, j)
  BY OnceGets DEF a
<1>3. /\ Given(b) /\ Get(b, "created_at") = Else(Get(a, "created_at"), y)
      /\ \A j : j # "created_at" => Get(b, j) = Get(a, j)
  BY <1>2, OnceGets DEF b
<1>4. /\ Given(c) /\ Get(c, "cwd") = Else(Get(b, "cwd"), z)
      /\ \A j : j # "cwd" => Get(c, j) = Get(b, j)
  BY <1>3, OnceGets DEF c
<1>. QED
  BY <1>1, <1>2, <1>3, <1>4 DEF x, y, z

LEMMA PromptGets ==
    ASSUME NEW data, Given(data), NEW e
    PROVE  LET d == FoldFirstPrompt(data, e)
           IN  /\ Given(d)
               /\ Get(d, "first_prompt") = Else(Get(data, "first_prompt"), Said(e, "prompt"))
               /\ Get(d, "first_prompt") = None =>
                      Get(d, "command_fallback")
                          = Else(Get(data, "command_fallback"), Said(e, "command"))
               /\ \A j : j \notin {"first_prompt", "command_fallback"} =>
                      Get(d, j) = Get(data, j)
<1>. DEFINE p == Said(e, "prompt")
            c == Said(e, "command")
            d == FoldFirstPrompt(data, e)
<1>. HIDE DEF p, c
<1>0. d = IF "first_prompt" \in DOMAIN data THEN data
          ELSE IF p # None THEN Updated(data, "first_prompt", p)
          ELSE Once(data, "command_fallback", c)
  BY DEF FoldFirstPrompt, p, c
<1>. HIDE DEF d
<1>. SUFFICES /\ Given(d)
              /\ Get(d, "first_prompt") = Else(Get(data, "first_prompt"), p)
              /\ Get(d, "first_prompt") = None =>
                     Get(d, "command_fallback") = Else(Get(data, "command_fallback"), c)
              /\ \A j : j \notin {"first_prompt", "command_fallback"} =>
                     Get(d, j) = Get(data, j)
  BY DEF p, c, d
<1>1. CASE "first_prompt" \in DOMAIN data
  BY <1>0, <1>1 DEF Get, Given, Else
<1>2. CASE "first_prompt" \notin DOMAIN data /\ p # None
  <2>1. d = Updated(data, "first_prompt", p) /\ Get(data, "first_prompt") = None
    BY <1>0, <1>2 DEF Get
  <2>. QED
    BY <1>2, <2>1, UpdatedGets DEF Else
<1>3. CASE "first_prompt" \notin DOMAIN data /\ p = None
  <2>1. d = Once(data, "command_fallback", c) /\ Get(data, "first_prompt") = None
    BY <1>0, <1>3 DEF Get
  <2>. QED
    BY <1>3, <2>1, OnceGets DEF Else
<1>. QED
  BY <1>1, <1>2, <1>3

Overwritten == {"customTitle", "aiTitle", "lastPrompt", "summary", "gitBranch"}

LEMMA LastWinsIs ==
    /\ DOMAIN LastWins = Overwritten
    /\ LastWins["customTitle"] = "custom_title" /\ LastWins["aiTitle"] = "ai_title"
    /\ LastWins["lastPrompt"] = "last_prompt" /\ LastWins["summary"] = "summary_hint"
    /\ LastWins["gitBranch"] = "git_branch"
    /\ \A k, l \in Overwritten : LastWins[k] = LastWins[l] => k = l
<1>1. /\ DOMAIN LastWins = Overwritten
      /\ LastWins["customTitle"] = "custom_title" /\ LastWins["aiTitle"] = "ai_title"
      /\ LastWins["lastPrompt"] = "last_prompt" /\ LastWins["summary"] = "summary_hint"
      /\ LastWins["gitBranch"] = "git_branch"
  BY DEF LastWins, Overwritten
<1>. QED
  BY <1>1 DEF Overwritten

LEMMA OverwriteGets ==
    ASSUME NEW data, Given(data), NEW e
    PROVE  LET d == Overwrite(data, e)
           IN  /\ Given(d)
               /\ \A k \in Overwritten :
                      Get(d, LastWins[k]) = Else(Get(e, k), Get(data, LastWins[k]))
               /\ \A j : (\A k \in Overwritten : LastWins[k] # j) => Get(d, j) = Get(data, j)
<1>. DEFINE d == Overwrite(data, e)
            given == {k \in Overwritten : Get(e, k) # None}
            fields == {LastWins[k] : k \in given}
<1>1. d = [f \in DOMAIN data \cup fields |->
              IF f \in fields THEN e[CHOOSE k \in given : LastWins[k] = f] ELSE data[f]]
  BY LastWinsIs DEF Overwrite
<1>2. ASSUME NEW k \in given
      PROVE  LastWins[k] \in fields /\ d[LastWins[k]] = Get(e, k) /\ Get(e, k) # None
  <2>1. (CHOOSE l \in given : LastWins[l] = LastWins[k]) = k
    BY LastWinsIs
  <2>2. Get(e, k) = e[k] /\ Get(e, k) # None
    BY DEF Get
  <2>3. LastWins[k] \in fields
    OBVIOUS
  <2>. QED
    BY <1>1, <2>1, <2>2, <2>3
<1>3. DOMAIN d = DOMAIN data \cup fields /\ \A f \in DOMAIN data \ fields : d[f] = data[f]
  BY <1>1
<1>. HIDE DEF d
<1>4. Given(d)
  BY <1>2, <1>3 DEF Given
<1>5. ASSUME NEW k \in Overwritten
      PROVE  Get(d, LastWins[k]) = Else(Get(e, k), Get(data, LastWins[k]))
  <2>1. CASE k \in given
    BY <1>2, <1>3, <2>1 DEF Get, Else
  <2>2. CASE k \notin given
    <3>1. LastWins[k] \notin fields
      BY <2>2, LastWinsIs
    <3>2. Get(e, k) = None
      BY <2>2
    <3>. QED
      BY <1>3, <3>1, <3>2 DEF Get, Else
  <2>. QED
    BY <2>1, <2>2
<1>6. ASSUME NEW j, \A k \in Overwritten : LastWins[k] # j PROVE Get(d, j) = Get(data, j)
  <2>1. j \notin fields
    BY <1>6
  <2>. QED
    BY <1>3, <2>1 DEF Get
<1>. QED
  BY <1>4, <1>5, <1>6 DEF d

LEMMA TagGets ==
    ASSUME NEW data, Given(data), NEW e
    PROVE  LET d == FoldTag(data, e)
           IN  /\ Given(d)
               /\ Get(d, "tag") = IF TagOf(e) = None THEN Get(data, "tag")
                                  ELSE IF TagOf(e) = "" THEN None ELSE TagOf(e)
               /\ \A j : j # "tag" => Get(d, j) = Get(data, j)
<1>. DEFINE d == FoldTag(data, e)
<1>1. CASE Get(e, "type") # "tag"
  BY <1>1 DEF FoldTag, TagOf
<1>2. CASE Get(e, "type") = "tag" /\ Or(Get(e, "tag"), None) # None
  <2>1. Get(e, "tag") = e.tag /\ e.tag \notin {None, ""}
    BY <1>2 DEF Or, Get
  <2>2. d = Updated(data, "tag", e.tag) /\ TagOf(e) = e.tag
    BY <1>2, <2>1 DEF FoldTag, TagOf, Or
  <2>0. PICK v : v = e.tag
    OBVIOUS
  <2>3. /\ Given(d) /\ Get(d, "tag") = v
        /\ \A j : j # "tag" => Get(d, j) = Get(data, j)
    <3>1. v # None /\ d = Updated(data, "tag", v)
      BY <2>0, <2>1, <2>2
    <3>. HIDE DEF d
    <3>. QED
      BY <3>1, UpdatedGets
  <2>4. TagOf(e) # None /\ TagOf(e) # ""
    BY <2>1, <2>2
  <2>. HIDE DEF d
  <2>5. /\ Given(d)
        /\ Get(d, "tag") = IF TagOf(e) = None THEN Get(data, "tag")
                           ELSE IF TagOf(e) = "" THEN None ELSE TagOf(e)
        /\ \A j : j # "tag" => Get(d, j) = Get(data, j)
    BY <2>0, <2>2, <2>3, <2>4
  <2>. QED
    BY <2>5 DEF d
<1>3. CASE Get(e, "type") = "tag" /\ Or(Get(e, "tag"), None) = None
  <2>1. d = [k \in DOMAIN data \ {"tag"} |-> data[k]]
    BY <1>3 DEF FoldTag
  <2>2. TagOf(e) = ""
    BY <1>3 DEF TagOf, Or
  <2>3. "" # None
    BY DEF None
  <2>. QED
    BY <2>1, <2>2, <2>3 DEF Get, Given
<1>. QED
  BY <1>1, <1>2, <1>3

LEMMA LeastIs ==
    ASSUME NEW T \in SUBSET Nat, NEW m \in T, \A n \in T : m <= n
    PROVE  Min(T) = m
<1>1. \A x \in T : (\A n \in T : x <= n) => x = m
  OBVIOUS
<1>. QED
  BY <1>1 DEF Min

LEMMA MaxIn ==
    ASSUME NEW n \in Nat, NEW V \in SUBSET (1..n), V # {}
    PROVE  Max(V) \in V
<1>. DEFINE U == {n - i : i \in V}
<1>0. \A i \in V : i \in Nat /\ i <= n /\ n - i \in Nat
  OBVIOUS
<1>1. U \in SUBSET Nat /\ U # {}
  <2>1. PICK i : i \in V
    OBVIOUS
  <2>2. n - i \in U
    BY <2>1
  <2>. QED
    BY <1>0, <2>2
<1>2. PICK u \in U : \A x \in U : u <= x
  BY <1>1, LeastNat
<1>3. PICK m \in V : u = n - m
  OBVIOUS
<1>4. \A i \in V : n - i \in U
  OBVIOUS
<1>5. \A i \in V : n - m <= n - i
  BY <1>2, <1>3, <1>4
<1>6. \A i \in V : m >= i
  BY <1>0, <1>5
<1>. QED
  BY <1>6 DEF Max

\* One value more.
LEMMA FirstMore ==
    ASSUME NEW n \in Nat, NEW v, DOMAIN v = 1..n, NEW w, DOMAIN w = 1..(n + 1),
           \A i \in 1..n : w[i] = v[i]
    PROVE  FirstOf(w) = Else(FirstOf(v), w[n + 1])
<1>. DEFINE V == {i \in DOMAIN v : v[i] # None}
            W == {i \in DOMAIN w : w[i] # None}
<1>1. V \in SUBSET Nat /\ W \in SUBSET Nat /\ \A i \in W : i \in V \/ i = n + 1
  OBVIOUS
<1>2. CASE V # {}
  <2>1. PICK m \in V : \A i \in V : m <= i
    BY <1>1, <1>2, LeastNat
  <2>2. m \in W /\ \A i \in W : m <= i
    BY <1>1, <2>1
  <2>3. Min(V) = m /\ Min(W) = m
    BY <1>1, <2>1, <2>2, LeastIs
  <2>4. FirstOf(v) = v[m] /\ FirstOf(w) = w[m] /\ v[m] # None /\ w[m] = v[m]
    BY <2>1, <2>2, <2>3 DEF FirstOf
  <2>. QED
    BY <2>4 DEF Else
<1>3. CASE V = {} /\ w[n + 1] # None
  <2>1. W = {n + 1}
    BY <1>1, <1>3
  <2>2. Min(W) = n + 1
    BY <1>1, <2>1, LeastIs
  <2>. QED
    BY <1>3, <2>1, <2>2 DEF FirstOf, Else
<1>4. CASE V = {} /\ w[n + 1] = None
  <2>1. W = {}
    BY <1>1, <1>4
  <2>. QED
    BY <1>4, <2>1 DEF FirstOf, Else
<1>. QED
  BY <1>2, <1>3, <1>4

LEMMA LastMore ==
    ASSUME NEW n \in Nat, NEW v, DOMAIN v = 1..n, NEW w, DOMAIN w = 1..(n + 1),
           \A i \in 1..n : w[i] = v[i]
    PROVE  LastOf(w) = Else(w[n + 1], LastOf(v))
<1>. DEFINE V == {i \in DOMAIN v : v[i] # None}
            W == {i \in DOMAIN w : w[i] # None}
<1>1. CASE w[n + 1] # None
  <2>1. n + 1 \in Nat /\ W \in SUBSET (1..(n + 1)) /\ n + 1 \in W
    BY <1>1
  <2>2. Max(W) = n + 1
    BY <2>1, MaxTop
  <2>3. W # {}
    BY <2>1
  <2>. QED
    BY <1>1, <2>2, <2>3 DEF LastOf, Else
<1>2. CASE w[n + 1] = None
  <2>1. W = V
    BY <1>2
  <2>2. CASE V = {}
    BY <1>2, <2>1, <2>2 DEF LastOf, Else
  <2>3. CASE V # {}
    <3>1. LastOf(w) = w[Max(V)] /\ LastOf(v) = v[Max(V)]
      BY <2>1, <2>3 DEF LastOf
    <3>2. Max(V) \in V
      BY <2>3, MaxIn
    <3>. QED
      BY <1>2, <3>1, <3>2 DEF Else
  <2>. QED
    BY <2>2, <2>3
<1>. QED
  BY <1>1, <1>2

LEMMA NoValues == ASSUME NEW v, DOMAIN v = {} PROVE FirstOf(v) = None /\ LastOf(v) = None
  BY DEF FirstOf, LastOf

\* The fields of a transcript with one entry more.
LEMMA FieldsMore ==
    ASSUME NEW U, NEW t \in Seq(U), NEW e \in U
    PROVE  LET s == Append(t, e)
           IN  /\ \A k : FirstField(s, k) = Else(FirstField(t, k), Get(e, k))
               /\ \A k : LastField(s, k) = Else(Get(e, k), LastField(t, k))
               /\ \A k : FirstSaid(s, k) = Else(FirstSaid(t, k), Said(e, k))
               /\ TailTag(s) = Else(TagOf(e), TailTag(t))
<1>. DEFINE s == Append(t, e)
            n == Len(t)
<1>1. /\ n \in Nat /\ DOMAIN t = 1..n /\ DOMAIN s = 1..(n + 1) /\ s[n + 1] = e
      /\ \A i \in 1..n : s[i] = t[i]
  OBVIOUS
<1>. HIDE DEF s, n
<1>2. ASSUME NEW k
      PROVE  /\ FirstField(s, k) = Else(FirstField(t, k), Get(e, k))
             /\ LastField(s, k) = Else(Get(e, k), LastField(t, k))
             /\ FirstSaid(s, k) = Else(FirstSaid(t, k), Said(e, k))
  <2>. DEFINE v == [i \in DOMAIN t |-> Get(t[i], k)]
              w == [i \in DOMAIN s |-> Get(s[i], k)]
              x == [i \in DOMAIN t |-> Said(t[i], k)]
              y == [i \in DOMAIN s |-> Said(s[i], k)]
  <2>1. DOMAIN v = 1..n /\ DOMAIN w = 1..(n + 1) /\ DOMAIN x = 1..n /\ DOMAIN y = 1..(n + 1)
    BY <1>1
  <2>2. \A i \in 1..n : w[i] = v[i] /\ y[i] = x[i]
    BY <1>1
  <2>3. w[n + 1] = Get(e, k) /\ y[n + 1] = Said(e, k)
    BY <1>1
  <2>4. /\ FirstField(t, k) = FirstOf(v) /\ FirstField(s, k) = FirstOf(w)
        /\ LastField(t, k) = LastOf(v) /\ LastField(s, k) = LastOf(w)
        /\ FirstSaid(t, k) = FirstOf(x) /\ FirstSaid(s, k) = FirstOf(y)
    BY DEF FirstField, LastField, FirstSaid
  <2>. HIDE DEF v, w, x, y
  <2>5. FirstOf(w) = Else(FirstOf(v), w[n + 1]) /\ LastOf(w) = Else(w[n + 1], LastOf(v))
    BY <1>1, <2>1, <2>2, FirstMore, LastMore
  <2>6. FirstOf(y) = Else(FirstOf(x), y[n + 1])
    BY <1>1, <2>1, <2>2, FirstMore
  <2>. QED
    BY <2>3, <2>4, <2>5, <2>6
<1>3. TailTag(s) = Else(TagOf(e), TailTag(t))
  <2>. DEFINE v == [i \in DOMAIN t |-> TagOf(t[i])]
              w == [i \in DOMAIN s |-> TagOf(s[i])]
  <2>1. DOMAIN v = 1..n /\ DOMAIN w = 1..(n + 1) /\ \A i \in 1..n : w[i] = v[i]
    BY <1>1
  <2>2. w[n + 1] = TagOf(e) /\ TailTag(t) = LastOf(v) /\ TailTag(s) = LastOf(w)
    BY <1>1 DEF TailTag
  <2>. HIDE DEF v, w
  <2>. QED
    BY <1>1, <2>1, <2>2, LastMore
<1>. QED
  BY <1>2, <1>3 DEF s

\* What the fold knows of the transcript t.
Summed(d, t) ==
    /\ Given(d)
    /\ Get(d, "is_sidechain")
           = IF t = <<>> THEN None ELSE Or(Get(t[1], "isSidechain"), "false")
    /\ \A p \in {<<"created_at", "timestamp">>, <<"cwd", "cwd">>} :
           Get(d, p[1]) = FirstField(t, p[2])
    /\ Get(d, "first_prompt") = FirstSaid(t, "prompt")
    /\ FirstSaid(t, "prompt") = None =>
           Get(d, "command_fallback") = FirstSaid(t, "command")
    /\ \A k \in Overwritten : Get(d, LastWins[k]) = LastField(t, k)
    /\ Get(d, "tag") = IF TailTag(t) = "" THEN None ELSE TailTag(t)

LEMMA NoneSummed == Summed(Empty, <<>>)
<1>1. DOMAIN Empty = {} /\ \A k : Get(Empty, k) = None
  BY DEF Empty, Get
<1>2. \A k : FirstField(<<>>, k) = None /\ LastField(<<>>, k) = None /\ FirstSaid(<<>>, k) = None
  BY NoValues DEF FirstField, LastField, FirstSaid
<1>3. TailTag(<<>>) = None
  BY NoValues DEF TailTag
<1>. QED
  BY <1>1, <1>2, <1>3 DEF Summed, Given

LEMMA MoreSummed ==
    ASSUME NEW U, NEW t \in Seq(U), NEW e \in U, Plain(e), NEW d, Summed(d, t)
    PROVE  Summed(FoldEntry(d, e), Append(t, e))
<1>. DEFINE a == Latch(d, e)
            b == FoldFirstPrompt(a, e)
            c == Overwrite(b, e)
            f == FoldTag(c, e)
            s == Append(t, e)
<1>0. FoldEntry(d, e) = f
  BY DEF FoldEntry
<1>. HIDE DEF a, b, c, f, s
<1>g. Given(d)
  BY DEF Summed
<1>1. /\ Given(a)
      /\ Get(a, "is_sidechain") = Else(Get(d, "is_sidechain"), Or(Get(e, "isSidechain"), "false"))
      /\ Get(a, "created_at") = Else(Get(d, "created_at"), Get(e, "timestamp"))
      /\ Get(a, "cwd") = Else(Get(d, "cwd"), Get(e, "cwd"))
      /\ \A j : j \notin {"is_sidechain", "created_at", "cwd"} => Get(a, j) = Get(d, j)
  BY <1>g, LatchGets DEF a
<1>2. /\ Given(b)
      /\ Get(b, "first_prompt") = Else(Get(a, "first_prompt"), Said(e, "prompt"))
      /\ Get(b, "first_prompt") = None =>
             Get(b, "command_fallback") = Else(Get(a, "command_fallback"), Said(e, "command"))
      /\ \A j : j \notin {"first_prompt", "command_fallback"} => Get(b, j) = Get(a, j)
  BY <1>1, PromptGets DEF b
<1>3. /\ Given(c)
      /\ \A k \in Overwritten : Get(c, LastWins[k]) = Else(Get(e, k), Get(b, LastWins[k]))
      /\ \A j : (\A k \in Overwritten : LastWins[k] # j) => Get(c, j) = Get(b, j)
  BY <1>2, OverwriteGets DEF c
<1>4. /\ Given(f)
      /\ Get(f, "tag") = IF TagOf(e) = None THEN Get(c, "tag")
                         ELSE IF TagOf(e) = "" THEN None ELSE TagOf(e)
      /\ \A j : j # "tag" => Get(f, j) = Get(c, j)
  BY <1>3, TagGets DEF f
<1>5. /\ \A k : FirstField(s, k) = Else(FirstField(t, k), Get(e, k))
      /\ \A k : LastField(s, k) = Else(Get(e, k), LastField(t, k))
      /\ \A k : FirstSaid(s, k) = Else(FirstSaid(t, k), Said(e, k))
      /\ TailTag(s) = Else(TagOf(e), TailTag(t))
  BY FieldsMore DEF s
<1>6. ASSUME NEW j \in {"is_sidechain", "created_at", "cwd", "first_prompt",
                        "command_fallback", "tag"}
      PROVE  \A k \in Overwritten : LastWins[k] # j
  BY LastWinsIs DEF Overwritten
<1>7. \A j \in {"is_sidechain", "created_at", "cwd"} : Get(f, j) = Get(a, j)
  BY <1>2, <1>3, <1>4, <1>6
<1>8. Get(f, "is_sidechain") = Or(Get(s[1], "isSidechain"), "false") /\ s # <<>>
  <2>1. s # <<>> /\ s[1] = IF t = <<>> THEN e ELSE t[1]
    <3>1. Len(s) = Len(t) + 1 /\ Len(t) \in Nat /\ s \in Seq(U)
      BY DEF s
    <3>2. s # <<>>
      BY <3>1
    <3>3. CASE t = <<>>
      BY <3>2, <3>3 DEF s
    <3>4. CASE t # <<>>
      <4>1. 1 \in 1..Len(t)
        BY <3>4
      <4>. QED
        BY <3>2, <3>4, <4>1 DEF s
    <3>. QED
      BY <3>3, <3>4
  <2>2. \A x : Or(x, "false") # None
    BY DEF Or, None
  <2>. QED
    BY <1>1, <1>7, <2>1, <2>2 DEF Summed, Else
<1>9. \A p \in {<<"created_at", "timestamp">>, <<"cwd", "cwd">>} :
          Get(f, p[1]) = FirstField(s, p[2])
  <2>1. Get(d, "created_at") = FirstField(t, "timestamp") /\ Get(d, "cwd") = FirstField(t, "cwd")
    BY DEF Summed
  <2>2. Get(f, "created_at") = FirstField(s, "timestamp")
    BY <1>1, <1>5, <1>7, <2>1
  <2>3. Get(f, "cwd") = FirstField(s, "cwd")
    BY <1>1, <1>5, <1>7, <2>1
  <2>. QED
    BY <2>2, <2>3
<1>10. /\ Get(f, "first_prompt") = FirstSaid(s, "prompt")
       /\ FirstSaid(s, "prompt") = None => Get(f, "command_fallback") = FirstSaid(s, "command")
  <2>1. /\ Get(f, "first_prompt") = Get(b, "first_prompt")
        /\ Get(f, "command_fallback") = Get(b, "command_fallback")
    BY <1>3, <1>4, <1>6
  <2>2. /\ Get(a, "first_prompt") = Get(d, "first_prompt")
        /\ Get(a, "command_fallback") = Get(d, "command_fallback")
    BY <1>1
  <2>3. Get(f, "first_prompt") = FirstSaid(s, "prompt")
    BY <1>2, <1>5, <2>1, <2>2 DEF Summed
  <2>4. FirstSaid(s, "prompt") = None => FirstSaid(t, "prompt") = None
    BY <1>5 DEF Else
  <2>. QED
    BY <1>2, <1>5, <2>1, <2>2, <2>3, <2>4 DEF Summed
<1>11. ASSUME NEW k \in Overwritten PROVE Get(f, LastWins[k]) = LastField(s, k)
  <2>1. LastWins[k] \notin {"is_sidechain", "created_at", "cwd", "first_prompt",
                            "command_fallback", "tag"}
    BY <1>6
  <2>2. Get(f, LastWins[k]) = Else(Get(e, k), Get(d, LastWins[k]))
    BY <1>1, <1>2, <1>3, <1>4, <2>1
  <2>. QED
    BY <1>5, <2>2 DEF Summed
<1>12. Get(f, "tag") = IF TailTag(s) = "" THEN None ELSE TailTag(s)
  <2>1. Get(c, "tag") = Get(d, "tag")
    BY <1>1, <1>2, <1>3, <1>6
  <2>. QED
    BY <1>4, <1>5, <2>1 DEF Summed, Else
<1>. QED
  BY <1>0, <1>4, <1>8, <1>9, <1>10, <1>11, <1>12 DEF Summed, s

LEMMA AllSummed ==
    ASSUME NEW U, \A e \in U : Plain(e), NEW t \in Seq(U)
    PROVE  Summed(FoldSummary(Empty, t), t)
<1>. DEFINE T == {s \in Seq(U) : Summed(FoldSummary(Empty, s), s)}
<1>1. <<>> \in T
  BY NoneSummed, FoldNone
<1>2. ASSUME NEW s \in T, NEW e \in U PROVE Append(s, e) \in T
  <2>1. FoldSummary(Empty, Append(s, e)) = FoldEntry(FoldSummary(Empty, s), e)
    BY FoldMore
  <2>. QED
    BY <2>1, MoreSummed
<1>. HIDE DEF T
<1>3. T \in SUBSET Seq(U)
  BY DEF T
<1>4. t \in T
  BY <1>1, <1>2, <1>3, SeqClimb
<1>. QED
  BY <1>4 DEF T

\* What the fields of plain entries never are.
LEMMA OneOf ==
    ASSUME NEW v, NEW n \in Nat, DOMAIN v = 1..n
    PROVE  /\ FirstOf(v) = None \/ \E i \in 1..n : FirstOf(v) = v[i]
           /\ LastOf(v) = None \/ \E i \in 1..n : LastOf(v) = v[i]
           /\ FirstOf(v) = None <=> \A i \in 1..n : v[i] = None
           /\ LastOf(v) = None <=> \A i \in 1..n : v[i] = None
<1>. DEFINE V == {i \in DOMAIN v : v[i] # None}
<1>1. V \in SUBSET Nat
  OBVIOUS
<1>2. CASE V = {}
  BY <1>2 DEF FirstOf, LastOf
<1>3. CASE V # {}
  <2>1. PICK m \in V : \A i \in V : m <= i
    BY <1>1, <1>3, LeastNat
  <2>2. Min(V) \in V
    BY <1>1, <2>1, LeastIs
  <2>3. Max(V) \in V
    BY <1>3, MaxIn
  <2>4. FirstOf(v) = v[Min(V)] /\ LastOf(v) = v[Max(V)]
    BY <1>3 DEF FirstOf, LastOf
  <2>. QED
    BY <2>2, <2>3, <2>4
<1>. QED
  BY <1>2, <1>3

LEMMA PlainFields ==
    ASSUME NEW U, \A e \in U : Plain(e), NEW t \in Seq(U)
    PROVE  /\ FirstField(t, "timestamp") # "bad"
           /\ LastField(t, "gitBranch") # ""
           /\ LastField(t, "gitBranch") = None => FirstField(t, "gitBranch") = None
           /\ FirstSaid(t, "prompt") # "" /\ FirstSaid(t, "command") # ""
<1>0. Len(t) \in Nat /\ DOMAIN t = 1..Len(t) /\ \A i \in 1..Len(t) : Plain(t[i])
  OBVIOUS
<1>1. None # "" /\ None # "bad"
  BY DEF None
<1>2. FirstField(t, "timestamp") # "bad"
  <2>. DEFINE v == [i \in DOMAIN t |-> Get(t[i], "timestamp")]
  <2>1. FirstOf(v) = None \/ \E i \in 1..Len(t) : FirstOf(v) = v[i]
    BY <1>0, OneOf
  <2>. QED
    BY <1>0, <1>1, <2>1 DEF FirstField, Plain
<1>3. LastField(t, "gitBranch") # "" /\ (LastField(t, "gitBranch") = None => FirstField(t, "gitBranch") = None)
  <2>. DEFINE v == [i \in DOMAIN t |-> Get(t[i], "gitBranch")]
  <2>1. /\ LastOf(v) = None \/ \E i \in 1..Len(t) : LastOf(v) = v[i]
        /\ LastOf(v) = None <=> FirstOf(v) = None
    BY <1>0, OneOf
  <2>. QED
    BY <1>0, <1>1, <2>1 DEF FirstField, LastField, Plain
<1>4. ASSUME NEW kind \in {"prompt", "command"} PROVE FirstSaid(t, kind) # ""
  <2>. DEFINE v == [i \in DOMAIN t |-> Said(t[i], kind)]
  <2>1. FirstOf(v) = None \/ \E i \in 1..Len(t) : FirstOf(v) = v[i]
    BY <1>0, OneOf
  <2>2. \A i \in 1..Len(t) : v[i] # ""
    BY <1>0 DEF Plain
  <2>. QED
    BY <1>1, <2>1, <2>2 DEF FirstSaid
<1>. QED
  BY <1>2, <1>3, <1>4

(***************************************************************************)
(* The summary that is folded says what the one parsed from the whole file *)
(* says, as long as the file fits into the windows of the parser.          *)
(***************************************************************************)
LEMMA SummariesAgree ==
    ASSUME NEW U, \A e \in U : Plain(e), NEW t \in Seq(U), t # <<>>,
           Len(t) <= HeadLen, Len(t) <= TailLen
    PROVE  SdkInfo(FoldSummary(Empty, t)) = LiteInfo(t)
<1>. DEFINE d == FoldSummary(Empty, t)
<1>1. Head64(t) = t /\ Tail64(t) = t
  <2>1. SubSeq(t, 1, Len(t)) = t
    BY WholeIs
  <2>2. (IF Len(t) < HeadLen THEN Len(t) ELSE HeadLen) = Len(t)
    BY WindowAssumption
  <2>. QED
    BY <2>1, <2>2 DEF Head64, Tail64
<1>2. Summed(d, t)
  BY AllSummed
<1>. HIDE DEF d
<1>3. Get(d, "is_sidechain") = "true" <=> Get(t[1], "isSidechain") = "true"
  BY <1>2 DEF Summed, Or, None
<1>4. /\ Get(d, "custom_title") = LastField(t, "customTitle")
      /\ Get(d, "ai_title") = LastField(t, "aiTitle")
      /\ Get(d, "last_prompt") = LastField(t, "lastPrompt")
      /\ Get(d, "summary_hint") = LastField(t, "summary")
      /\ Get(d, "git_branch") = LastField(t, "gitBranch")
  BY <1>2, LastWinsIs DEF Summed, Overwritten
<1>5. /\ Get(d, "created_at") = FirstField(t, "timestamp")
      /\ Get(d, "cwd") = FirstField(t, "cwd")
  BY <1>2 DEF Summed
<1>6. Or(Get(d, "custom_title"), Get(d, "ai_title"))
        = Or(LastField(t, "customTitle"), Or(LastField(t, "customTitle"),
             Or(LastField(t, "aiTitle"), LastField(t, "aiTitle"))))
  BY <1>4 DEF Or
<1>7. Or(Get(d, "first_prompt"), Get(d, "command_fallback")) = FirstPromptFromHead(t)
  BY <1>2, PlainFields DEF Summed, FirstPromptFromHead, Or
<1>8. Get(d, "git_branch") = Or(LastField(t, "gitBranch"), FirstField(t, "gitBranch"))
  BY <1>4, PlainFields DEF Or
<1>9. Or(Get(d, "tag"), None) = Or(TailTag(t), None)
  BY <1>2 DEF Summed, Or
<1>10. Get(d, "created_at") = CreatedAt(t)
  BY <1>5, PlainFields DEF CreatedAt
<1>. QED
  BY <1>1, <1>3, <1>4, <1>5, <1>6, <1>7, <1>8, <1>9, <1>10 DEF SdkInfo, LiteInfo, Info, d

-----------------------------------------------------------------------------
\* A listing under way

\* The inductive invariant of a listing.  No two keys have the same date.
Dated == \A j, k \in DOMAIN mtimes : mtimes[j] = mtimes[k] => j = k

\* A summary that was read is older than the session, or still its summary.
Remembered ==
    /\ lpc # "idle" => lister.page \in workload.pages
    /\ lpc = "listing" =>
           \A s \in DOMAIN lister.summaries :
               LET sum == lister.summaries[s]
               IN  /\ sum.mtime \in 0..lastMtime
                   /\ s \in Listed =>
                          \/ sum.mtime < mtimes[Main(s)]
                          \/ /\ sum.mtime = mtimes[Main(s)]
                             /\ sum.data = FoldSummary(Empty, store[Main(s)])

\* What a session is now is among what it was since the listing looked.
Watched == lpc = "loading" => \A s \in Sessions : Current(s) \in since[s]

\* The slots are of different sessions, with what was true of them; there is
\* one for every session that had something to show all the while.
SlotsTrue ==
    lpc \in {"loading", "done"} =>
        /\ Len(lister.slots) \in Nat /\ DOMAIN lister.slots = 1..Len(lister.slots)
        /\ \A i \in DOMAIN lister.slots :
               LET slot == lister.slots[i]
               IN  /\ slot.id \in Sessions
                   /\ ~slot.load => slot.info \in since[slot.id] /\ slot.info # NoInfo
                   /\ i \in DOMAIN lister.settled =>
                          lister.settled[i] \in since[slot.id] \cup {Degraded}
        /\ \A i, j \in DOMAIN lister.slots :
               lister.slots[i].id = lister.slots[j].id => i = j
        /\ lister.page = <<0, 0>> =>
               \A s \in Sessions : NoInfo \notin since[s] =>
                   \E i \in DOMAIN lister.slots : lister.slots[i].id = s
        /\ lpc = "done" => lister.pending = {}

Listings == Dated /\ Remembered /\ Watched /\ SlotsTrue

(***************************************************************************)
(* What the theorems about listings suppose: the entries are those the CLI *)
(* writes, and a transcript fits into the windows of the parser.           *)
(***************************************************************************)
PlainEntries == \A e \in Entry : Plain(e)
InWindows == MaxEntries <= HeadLen /\ MaxEntries <= TailLen

LEMMA CurrentIs ==
    ASSUME Stores, PlainEntries, NEW s \in Listed,
           Len(store[Main(s)]) <= HeadLen, Len(store[Main(s)]) <= TailLen
    PROVE  Current(s) = SdkInfo(FoldSummary(Empty, store[Main(s)]))
<1>. DEFINE t == store[Main(s)]
<1>1. Main(s) \in DOMAIN store
  BY DEF Listed
<1>2. t \in Seq(Entry) /\ Len(t) \in 1..MaxEntries
  BY <1>1 DEF Stores
<1>3. t # <<>>
  BY <1>2
<1>4. SdkInfo(FoldSummary(Empty, t)) = LiteInfo(t)
  BY <1>2, <1>3, SummariesAgree DEF PlainEntries
<1>. QED
  BY <1>1, <1>4 DEF Current

LEMMA Windowed ==
    ASSUME Stores, InWindows, NEW s \in Listed
    PROVE  Len(store[Main(s)]) <= HeadLen /\ Len(store[Main(s)]) <= TailLen
<1>1. Len(store[Main(s)]) \in 1..MaxEntries
  BY DEF Listed, Stores
<1>. QED
  BY <1>1, StoreAssumption, WindowAssumption DEF InWindows

\* The sessions are finitely many: each has a date of its own.
LEMMA FiniteListed ==
    ASSUME Stores, Dates, Dated
    PROVE  IsFiniteSet(Listed)
<1>. DEFINE f == [s \in Listed |-> mtimes[Main(s)]]
<1>1. \A s \in Listed : Main(s) \in DOMAIN mtimes
  BY DEF Listed, Stores
<1>2. f \in [Listed -> 1..lastMtime]
  BY <1>1 DEF Dates
<1>3. \A s, t \in Listed : f[s] = f[t] => s = t
  BY <1>1, MainIs DEF Dated
<1>4. f \in Injection(Listed, 1..lastMtime)
  BY <1>2, <1>3 DEF Injection, IsInjective
<1>5. IsFiniteSet(1..lastMtime)
  <2>1. 1 \in Int /\ lastMtime \in Int
    BY DEF Dates
  <2>. QED
    BY <2>1, FS_Interval
<1>. QED
  BY <1>4, <1>5, FS_Injection

\* The size of a page of n rows.
Size(n, page) ==
    LET rest == IF page[2] >= n THEN 0 ELSE n - page[2]
    IN  IF page[1] > 0 /\ page[1] < rest THEN page[1] ELSE rest

LEMMA CutIs ==
    ASSUME NEW S, NEW n \in Nat, NEW all \in [1..n -> S],
           NEW page, page[1] \in Nat, page[2] \in Nat
    PROVE  /\ Size(n, page) \in 0..n
           /\ Cut(all, page) \in [1..Size(n, page) -> S]
           /\ \A i \in 1..Size(n, page) :
                  page[2] + i \in 1..n /\ Cut(all, page)[i] = all[page[2] + i]
           /\ page = <<0, 0>> => Cut(all, page) = all
<1>. DEFINE k == page[1]
            o == page[2]
            from == SubSeq(all, o + 1, Len(all))
            rest == IF o >= n THEN 0 ELSE n - o
<1>. HIDE DEF k, o
<1>0. k \in Nat /\ o \in Nat
  BY DEF k, o
<1>1. Len(all) = n /\ all \in Seq(S)
  OBVIOUS
<1>2. rest \in 0..n /\ 1..(n - o) = 1..rest
  BY <1>0
<1>3. from = [i \in 1..rest |-> all[o + i]]
  <2>1. from = [i \in 1..(1 + n - (o + 1)) |-> all[i + (o + 1) - 1]]
    BY <1>0, <1>1 DEF SubSeq
  <2>2. 1..(1 + n - (o + 1)) = 1..rest
    BY <1>0
  <2>3. \A i \in 1..rest : i + (o + 1) - 1 = o + i
    BY <1>0
  <2>. QED
    BY <2>1, <2>2, <2>3
<1>4. \A i \in 1..rest : o + i \in 1..n
  BY <1>0
<1>. HIDE DEF from, rest
<1>5. Len(from) = rest /\ from \in Seq(S)
  <2>1. from \in [1..rest -> S]
    BY <1>3, <1>4
  <2>. QED
    BY <1>2, <2>1
<1>6. Size(n, page) = IF k > 0 /\ k < rest THEN k ELSE rest
  BY DEF Size, k, o, rest
<1>7. Cut(all, page) = IF k > 0 /\ k < Len(from) THEN SubSeq(from, 1, k) ELSE from
  BY DEF Cut, k, o, from
<1>8. CASE k > 0 /\ k < rest
  <2>1. Cut(all, page) = SubSeq(from, 1, k) /\ Size(n, page) = k
    BY <1>5, <1>6, <1>7, <1>8
  <2>2. SubSeq(from, 1, k) = [i \in 1..k |-> from[i]]
    BY <1>0, <1>5 DEF SubSeq
  <2>3. \A i \in 1..k : from[i] = all[o + i] /\ o + i \in 1..n
    BY <1>0, <1>2, <1>3, <1>4, <1>8
  <2>4. Cut(all, page) = [i \in 1..Size(n, page) |-> all[o + i]]
    BY <2>1, <2>2, <2>3
  <2>5. page # <<0, 0>>
    BY <1>8 DEF k
  <2>6. \A i \in 1..k : o + i \in 1..n /\ Cut(all, page)[i] = all[o + i]
    BY <2>1, <2>3, <2>4
  <2>7. Cut(all, page) \in [1..k -> S]
    BY <2>1, <2>3, <2>4
  <2>. QED
    BY <1>0, <1>2, <1>8, <2>1, <2>5, <2>6, <2>7 DEF o
<1>9. CASE ~(k > 0 /\ k < rest)
  <2>1. Cut(all, page) = from /\ Size(n, page) = rest
    BY <1>5, <1>6, <1>7, <1>9
  <2>2. ASSUME page = <<0, 0>> PROVE from = all
    <3>1. o = 0
      BY <2>2 DEF o
    <3>2. rest = n
      BY <3>1 DEF rest
    <3>. QED
      BY <1>3, <3>1, <3>2
  <2>. QED
    BY <1>2, <1>3, <1>4, <2>1, <2>2 DEF o
<1>. QED
  BY <1>8, <1>9

LEMMA NewerOrder ==
    ASSUME NEW S, \A x \in S : x.mtime \in Int, \A x, y \in S : x.mtime = y.mtime => x = y
    PROVE  StrictOrder(S, Newer(S))
<1>1. \A x, y : <<x, y>> \in Newer(S) <=> x \in S /\ y \in S /\ x.mtime > y.mtime
  BY DEF Newer
<1>2. \A x \in S : <<x, x>> \notin Newer(S)
  BY <1>1
<1>3. ASSUME NEW x \in S, NEW y \in S, x # y
      PROVE  <<x, y>> \in Newer(S) \/ <<y, x>> \in Newer(S)
  <2>1. x.mtime > y.mtime \/ y.mtime > x.mtime
    BY <1>3
  <2>. QED
    BY <1>1, <2>1
<1>4. ASSUME NEW x \in S, NEW y \in S, NEW z \in S,
             <<x, y>> \in Newer(S), <<y, z>> \in Newer(S)
      PROVE  <<x, z>> \in Newer(S)
  <2>1. x.mtime > y.mtime /\ y.mtime > z.mtime
    BY <1>1, <1>4
  <2>2. x.mtime > z.mtime
    BY <2>1
  <2>. QED
    BY <1>1, <2>2
<1>. QED
  BY <1>2, <1>3, <1>4 DEF StrictOrder

\* The slots before they are sorted: one for every session that is loaded, or
\* has something to show.
Kept(known, sums) ==
    {s \in DOMAIN known : s \in UpToDate(known, sums) => SdkInfo(sums[s].data) # NoInfo}
SlotOf(known, sums, s) ==
    [id |-> s, mtime |-> known[s],
     info |-> IF s \in UpToDate(known, sums) THEN SdkInfo(sums[s].data) ELSE NoInfo,
     load |-> s \notin UpToDate(known, sums)]
SlotSet(known, sums) == {SlotOf(known, sums, s) : s \in Kept(known, sums)}

\* Dates that differ, and summaries that are not newer than their session.
Datable(known, sums) ==
    /\ IsFiniteSet(DOMAIN known)
    /\ \A s \in DOMAIN known : known[s] \in Nat
    /\ \A s, t \in DOMAIN known : known[s] = known[t] => s = t
    /\ \A s \in DOMAIN known \cap DOMAIN sums :
           sums[s].mtime \in Nat /\ sums[s].mtime <= known[s]

LEMMA SlotSetIs ==
    ASSUME NEW known, NEW sums, Datable(known, sums)
    PROVE  /\ SummarySlots(known, sums) \cup LoadSlots(known, sums) = SlotSet(known, sums)
           /\ IsFiniteSet(SlotSet(known, sums))
           /\ StrictOrder(SlotSet(known, sums), Newer(SlotSet(known, sums)))
<1>. DEFINE U == UpToDate(known, sums)
            S == SlotSet(known, sums)
<1>1. U \subseteq DOMAIN known \cap DOMAIN sums
  BY DEF UpToDate
<1>2. \A s \in U : sums[s].mtime = known[s]
  BY DEF UpToDate, Datable
<1>3. ASSUME NEW s \in U
      PROVE  [id |-> s, mtime |-> sums[s].mtime, info |-> SdkInfo(sums[s].data),
              load |-> FALSE] = SlotOf(known, sums, s)
  BY <1>2 DEF SlotOf
<1>4. ASSUME NEW s \in DOMAIN known \ U
      PROVE  [id |-> s, mtime |-> known[s], info |-> NoInfo, load |-> TRUE]
                 = SlotOf(known, sums, s)
  BY DEF SlotOf
<1>5. \A s : SlotOf(known, sums, s).id = s /\ SlotOf(known, sums, s).mtime = known[s]
  BY DEF SlotOf
<1>6. ASSUME NEW s \in U PROVE SlotOf(known, sums, s).info = SdkInfo(sums[s].data)
  BY DEF SlotOf
<1>7. SummarySlots(known, sums)
          = {x \in {SlotOf(known, sums, s) : s \in U} : x.info # NoInfo}
  BY <1>3 DEF SummarySlots
<1>8. LoadSlots(known, sums) = {SlotOf(known, sums, s) : s \in DOMAIN known \ U}
  BY <1>4 DEF LoadSlots
<1>9. Kept(known, sums)
          = {s \in U : SlotOf(known, sums, s).info # NoInfo} \cup (DOMAIN known \ U)
  BY <1>1, <1>6 DEF Kept
<1>. HIDE DEF U
<1>10. SummarySlots(known, sums) \cup LoadSlots(known, sums) = S
  <2>1. SummarySlots(known, sums)
            = {SlotOf(known, sums, s) : s \in {r \in U : SlotOf(known, sums, r).info # NoInfo}}
    BY <1>7
  <2>. QED
    BY <1>8, <1>9, <2>1 DEF SlotSet
<1>11. IsFiniteSet(S)
  <2>1. IsFiniteSet(Kept(known, sums))
    BY FS_Subset DEF Datable, Kept
  <2>2. IsFiniteSet(S)
    <3>. DEFINE f == [s \in Kept(known, sums) |-> SlotOf(known, sums, s)]
    <3>1. f \in Surjection(Kept(known, sums), S)
      BY DEF SlotSet, Surjection
    <3>. QED
      BY <2>1, <3>1, FS_Surjection
  <2>. QED
    BY <2>2
<1>12. /\ \A x \in S : x.mtime \in Int
       /\ \A x, y \in S : x.mtime = y.mtime => x = y
  BY <1>5 DEF SlotSet, Kept, Datable
<1>. QED
  BY <1>10, <1>11, <1>12, NewerOrder

LEMMA SlotsAre ==
    ASSUME NEW known, NEW sums, Datable(known, sums),
           NEW page, page[1] \in Nat, page[2] \in Nat
    PROVE  LET slots == Slots(known, sums, page)
           IN  /\ Len(slots) \in Nat /\ DOMAIN slots = 1..Len(slots)
               /\ \A i \in DOMAIN slots :
                      /\ slots[i].id \in Kept(known, sums)
                      /\ slots[i] = SlotOf(known, sums, slots[i].id)
               /\ \A i, j \in DOMAIN slots : slots[i].id = slots[j].id => i = j
               /\ \A i, j \in DOMAIN slots : i < j => slots[i].mtime > slots[j].mtime
               /\ page = <<0, 0>> =>
                      \A s \in Kept(known, sums) : \E i \in DOMAIN slots : slots[i].id = s
<1>. DEFINE S == SlotSet(known, sums)
            all == Sorted(S, Newer(S))
            n == Cardinality(S)
            slots == Slots(known, sums, page)
            m == Size(n, page)
<1>1. /\ IsFiniteSet(S) /\ StrictOrder(S, Newer(S)) /\ slots = Cut(all, page)
  BY SlotSetIs DEF Slots
<1>. HIDE DEF slots
<1>2. /\ n \in Nat /\ all \in [1..n -> S]
      /\ \A x \in S : \E i \in 1..n : all[i] = x
      /\ \A i, j \in 1..n : all[i] = all[j] => i = j
      /\ \A i, j \in 1..n : i < j => <<all[i], all[j]>> \in Newer(S)
  BY <1>1, SortedIs
<1>3. \A x \in S : x.id \in Kept(known, sums) /\ x = SlotOf(known, sums, x.id)
  BY DEF SlotSet, SlotOf
<1>4. \A s \in Kept(known, sums) : SlotOf(known, sums, s) \in S /\ SlotOf(known, sums, s).id = s
  BY DEF SlotSet, SlotOf
<1>. HIDE DEF S, all, n
<1>5. /\ m \in 0..n /\ slots \in [1..m -> S]
      /\ \A i \in 1..m : page[2] + i \in 1..n /\ slots[i] = all[page[2] + i]
      /\ page = <<0, 0>> => slots = all
  <2>1. n \in Nat /\ all \in [1..n -> S] /\ page[1] \in Nat /\ page[2] \in Nat
    BY <1>2
  <2>2. /\ Size(n, page) \in 0..n
        /\ Cut(all, page) \in [1..Size(n, page) -> S]
        /\ \A i \in 1..Size(n, page) :
               page[2] + i \in 1..n /\ Cut(all, page)[i] = all[page[2] + i]
        /\ page = <<0, 0>> => Cut(all, page) = all
    BY <2>1, CutIs, Zenon
  <2>. QED
    BY <1>1, <2>2
<1>. HIDE DEF m
<1>6. Len(slots) = m /\ DOMAIN slots = 1..m /\ m \in Nat
  <2>1. m \in Nat
    BY <1>2, <1>5
  <2>2. slots \in [1..m -> S]
    BY <1>2, <1>5
  <2>. QED
    BY <2>1, <2>2
<1>7. \A i \in 1..m : slots[i] \in S /\ slots[i] = all[page[2] + i]
  BY <1>2, <1>5
<1>8. ASSUME NEW i \in 1..m, NEW j \in 1..m, slots[i].id = slots[j].id PROVE i = j
  <2>1. all[page[2] + i] = all[page[2] + j]
    BY <1>3, <1>7, <1>8
  <2>2. page[2] + i = page[2] + j
    BY <1>2, <1>5, <2>1
  <2>. QED
    BY <1>6, <2>2
<1>10. ASSUME NEW i \in 1..m, NEW j \in 1..m, i < j PROVE slots[i].mtime > slots[j].mtime
  <2>1. page[2] + i \in 1..n /\ page[2] + j \in 1..n /\ page[2] + i < page[2] + j
    BY <1>5, <1>6, <1>10
  <2>2. <<slots[i], slots[j]>> \in Newer(S)
    BY <1>2, <1>7, <2>1
  <2>. QED
    BY <2>2 DEF Newer
<1>9. ASSUME page = <<0, 0>>, NEW s \in Kept(known, sums)
      PROVE  \E i \in DOMAIN slots : slots[i].id = s
  <2>1. DOMAIN slots = 1..n /\ slots = all
    BY <1>2, <1>5, <1>9
  <2>. QED
    BY <1>2, <1>4, <2>1
<1>. QED
  BY <1>3, <1>6, <1>7, <1>8, <1>9, <1>10 DEF slots

\* What Rows() shows: the slots that have something to show, in their order.
Row(slots, settled, i) ==
    [id |-> slots[i].id, mtime |-> slots[i].mtime,
     info |-> IF slots[i].load THEN settled[i] ELSE slots[i].info]

RowsShown(slots, settled) == {i \in DOMAIN slots : Row(slots, settled, i).info # NoInfo}
Places(slots, settled) ==
    LET shown == RowsShown(slots, settled)
    IN  Sorted(shown, {p \in shown \X shown : p[1] < p[2]})

LEMMA RowsAre ==
    ASSUME NEW n \in Nat, NEW slots, DOMAIN slots = 1..n, NEW settled
    PROVE  LET shown == RowsShown(slots, settled)
               places == Places(slots, settled)
               m == Cardinality(shown)
           IN  /\ shown \in SUBSET (1..n) /\ IsFiniteSet(shown)
               /\ m \in Nat /\ places \in [1..m -> shown]
               /\ Rows(slots, settled) = [k \in 1..m |-> Row(slots, settled, places[k])]
               /\ \A i \in shown : \E k \in 1..m : places[k] = i
               /\ \A k, l \in 1..m : k < l => places[k] < places[l]
               /\ \A k, l \in 1..m : places[k] = places[l] => k = l
               /\ \A t \in [1..n -> shown] :
                      shown = 1..n /\ (\A i \in 1..n : t[i] = i) => m = n /\ places = t
<1>. DEFINE result == Rows(slots, settled)
            shown == RowsShown(slots, settled)
            R == {p \in shown \X shown : p[1] < p[2]}
            places == Sorted(shown, R)
            m == Cardinality(shown)
<1>0. Places(slots, settled) = places
  BY DEF Places
<1>1. shown \in SUBSET (1..n) /\ IsFiniteSet(shown)
  <2>1. IsFiniteSet(1..n)
    BY FS_Interval
  <2>. QED
    BY <2>1, FS_Subset DEF RowsShown
<1>. HIDE DEF shown
<1>3. \A i, j \in shown : <<i, j>> \in R <=> i < j
  OBVIOUS
<1>4. StrictOrder(shown, R)
  BY <1>1, <1>3 DEF StrictOrder
<1>. HIDE DEF R
<1>5. /\ m \in Nat /\ places \in [1..m -> shown]
      /\ \A i \in shown : \E k \in 1..m : places[k] = i
      /\ \A k, l \in 1..m : k < l => <<places[k], places[l]>> \in R
      /\ \A k, l \in 1..m : places[k] = places[l] => k = l
  BY <1>1, <1>4, SortedIs
<1>2. result = [k \in 1..m |-> Row(slots, settled, places[k])]
  <2>. DEFINE row == [i \in DOMAIN slots |-> Row(slots, settled, i)]
              seen == {i \in DOMAIN slots : row[i].info # NoInfo}
              at == Sorted(seen, {p \in seen \X seen : p[1] < p[2]})
  <2>1. result = [k \in DOMAIN at |-> row[at[k]]]
    BY DEF Rows, Row
  <2>2. seen = shown
    BY DEF shown, RowsShown
  <2>3. at = places
    BY <2>2 DEF R
  <2>. HIDE DEF places, at, m, result
  <2>4. DOMAIN places = 1..m /\ \A k \in 1..m : places[k] \in DOMAIN slots
    BY <1>1, <1>5
  <2>5. \A k \in 1..m : row[places[k]] = Row(slots, settled, places[k])
    BY <2>4
  <2>. HIDE DEF row
  <2>. QED
    BY <2>1, <2>3, <2>4, <2>5
<1>6. ASSUME NEW t \in [1..n -> shown], shown = 1..n, \A i \in 1..n : t[i] = i
      PROVE  m = n /\ places = t
  <2>1. \A i, j \in 1..n : i < j => <<t[i], t[j]>> \in R
    BY <1>3, <1>6
  <2>2. \A i \in shown : \E k \in 1..n : t[k] = i
    BY <1>6
  <2>3. m = n /\ places = t
    <3>. HIDE DEF m, places
    <3>0. IsFiniteSet(shown)
      BY <1>1
    <3>1. n = Cardinality(shown) /\ t = Sorted(shown, R)
      BY <3>0, <1>4, <2>1, <2>2, SortedOnly
    <3>. QED
      BY <3>1 DEF m, places
  <2>. QED
    BY <2>3
<1>7. \A k, l \in 1..m : k < l => places[k] < places[l]
  BY <1>3, <1>5
<1>. HIDE DEF places, m
<1>. QED
  BY <1>0, <1>1, <1>2, <1>5, <1>6, <1>7 DEF result, shown, m

LEMMA PageIs ==
    ASSUME Stores, NEW page \in workload.pages
    PROVE  page[1] \in Nat /\ page[2] \in Nat
<1>1. Workload(workload)
  BY StoreAssumption DEF Stores
<1>. QED
  BY <1>1 DEF Workload

LEMMA ListSessionsIs ==
    ASSUME Stores, Dates, Dated,
           NEW sums, \A s \in Listed \cap DOMAIN sums :
                         sums[s].mtime \in Nat /\ sums[s].mtime <= mtimes[Main(s)]
    PROVE  /\ DOMAIN ListSessions = Listed
           /\ \A s \in Listed : ListSessions[s] = mtimes[Main(s)] /\ mtimes[Main(s)] \in Nat
           /\ Datable(ListSessions, sums)
<1>1. \A s \in Listed : Main(s) \in DOMAIN mtimes
  BY DEF Listed, Stores
<1>2. DOMAIN ListSessions = Listed /\ \A s \in Listed : ListSessions[s] = mtimes[Main(s)]
  BY DEF ListSessions
<1>3. \A s \in Listed : mtimes[Main(s)] \in Nat
  BY <1>1 DEF Dates
<1>4. \A s, t \in Listed : mtimes[Main(s)] = mtimes[Main(t)] => s = t
  BY <1>1, MainIs DEF Dated
<1>. QED
  BY <1>2, <1>3, <1>4, FiniteListed DEF Datable

\* What happens to a session is noted for the listing that is under way.
LEMMA ObservedIs ==
    ASSUME Observed, UNCHANGED <<lpc, lister>>, SlotsTrue
    PROVE  Watched' /\ SlotsTrue'
<1>1. CASE lpc = "loading"
  <2>1. since' = [s \in Sessions |-> since[s] \cup {Current(s)'}]
    BY <1>1 DEF Observed
  <2>2. \A s \in Sessions : since[s] \subseteq since'[s] /\ Current(s)' \in since'[s]
    BY <2>1
  <2>. QED
    BY <1>1, <2>2 DEF Watched, SlotsTrue
<1>2. CASE lpc # "loading"
  <2>1. since' = since
    BY <1>2 DEF Observed
  <2>. QED
    BY <1>2, <2>1 DEF Watched, SlotsTrue
<1>. QED
  BY <1>1, <1>2

\* An append gives its key a date that no other has.
LEMMA DatedAppends ==
    ASSUME NEW k \in workload.keys, NEW b \in workload.batches, NEW now \in 0..workload.time,
           AppendEntries(k, b, now), StoreInv, Dated
    PROVE  Dated'
<1>. DEFINE m == lastMtime'
<1>0. Stores /\ Dates
  BY DEF StoreInv
<1>1. m > lastMtime /\ m \in 0..MaxTime /\ mtimes' = Updated(mtimes, k, m)
  BY <1>0, AppendIs
<1>2. lastMtime \in Nat /\ m \in Nat
  BY <1>0, <1>1, StoreAssumption DEF Dates
<1>. HIDE DEF m
<1>3. /\ DOMAIN mtimes' = DOMAIN mtimes \cup {k} /\ mtimes'[k] = m
      /\ \A j \in DOMAIN mtimes \ {k} : mtimes'[j] = mtimes[j]
  BY <1>1 DEF Updated
<1>4. \A j \in DOMAIN mtimes : mtimes[j] # m
  BY <1>0, <1>1, <1>2 DEF Dates
<1>. QED
  BY <1>3, <1>4 DEF Dated

LEMMA DatedDeletes ==
    ASSUME NEW k \in workload.keys, Delete(k), StoreInv, Dated
    PROVE  Dated'
<1>. DEFINE D == DOMAIN mtimes \ Deleted(k)
<1>1. mtimes' = Restricted(mtimes, D)
  BY DEF Delete
<1>. HIDE DEF D
<1>2. DOMAIN mtimes' \subseteq DOMAIN mtimes /\ \A j \in DOMAIN mtimes' : mtimes'[j] = mtimes[j]
  BY <1>1 DEF Restricted
<1>. QED
  BY <1>2 DEF Dated

LEMMA DatesDiffer == Spec => [](StoreInv /\ Dated)
<1>1. Init => Dated
  BY DEF Init, Dated, Empty
<1>2. StoreInv /\ Dated /\ [Next]_vars => Dated'
  <2>. SUFFICES ASSUME StoreInv, Dated, [Next]_vars PROVE Dated'
    OBVIOUS
  <2>1. ASSUME NEW k \in workload.keys, NEW b \in workload.batches,
               NEW now \in 0..workload.time, AppendEntries(k, b, now)
        PROVE  Dated'
    BY <2>1, DatedAppends
  <2>2. ASSUME NEW k \in workload.keys, Delete(k) PROVE Dated'
    BY <2>2, DatedDeletes
  <2>3. ASSUME \/ \E page \in workload.pages : ReadSummaries(page)
               \/ ReadSessions \/ ListingReturns \/ ListingForgotten
               \/ \E i \in lister.pending : LoadReturns(i)
               \/ UNCHANGED vars
        PROVE  Dated'
    <3>1. UNCHANGED mtimes
      BY <2>3 DEF ReadSummaries, ReadSessions, ListingReturns, ListingForgotten,
                  LoadReturns, storage, vars
    <3>. QED
      BY <3>1 DEF Dated
  <2>. QED
    BY <2>1, <2>2, <2>3 DEF Next
<1>. QED
  BY <1>1, <1>2, StoreInvariance, PTL DEF Spec

LEMMA AppendListing ==
    ASSUME NEW k \in workload.keys, NEW b \in workload.batches, NEW now \in 0..workload.time,
           AppendEntries(k, b, now), StoreInv, Listings
    PROVE  Listings'
<1>. DEFINE new == Before(k) \o b
            m == lastMtime'
<1>0. Stores /\ Dates /\ Dated /\ Remembered /\ SlotsTrue
  BY DEF StoreInv, Listings
<1>1. /\ store' = Updated(store, k, new)
      /\ m > lastMtime /\ m \in 0..MaxTime
      /\ mtimes' = Updated(mtimes, k, m)
      /\ UNCHANGED <<workload, lpc, lister>>
  BY <1>0, AppendIs
<1>2. lastMtime \in Nat /\ m \in Nat
  BY <1>0, <1>1, StoreAssumption DEF Dates
<1>. HIDE DEF new, m
<1>3. /\ DOMAIN store' = DOMAIN store \cup {k}
      /\ \A j \in DOMAIN store \ {k} : store'[j] = store[j]
  BY <1>1 DEF Updated
<1>4. /\ DOMAIN mtimes' = DOMAIN mtimes \cup {k} /\ mtimes'[k] = m
      /\ \A j \in DOMAIN mtimes \ {k} : mtimes'[j] = mtimes[j]
  BY <1>1 DEF Updated
<1>5. Dated'
  BY <1>0, DatedAppends
<1>6. Remembered'
  <2>1. ASSUME lpc = "listing", NEW s \in DOMAIN lister.summaries
        PROVE  LET sum == lister.summaries[s]
               IN  /\ sum.mtime \in 0..m
                   /\ s \in Listed' =>
                          \/ sum.mtime < mtimes'[Main(s)]
                          \/ /\ sum.mtime = mtimes'[Main(s)]
                             /\ sum.data = FoldSummary(Empty, store'[Main(s)])
    <3>. DEFINE sum == lister.summaries[s]
    <3>1. /\ sum.mtime \in 0..lastMtime
          /\ s \in Listed =>
                 \/ sum.mtime < mtimes[Main(s)]
                 \/ /\ sum.mtime = mtimes[Main(s)]
                    /\ sum.data = FoldSummary(Empty, store[Main(s)])
      BY <1>0, <2>1 DEF Remembered
    <3>. HIDE DEF sum
    <3>2. sum.mtime \in 0..m /\ sum.mtime < m
      BY <1>1, <1>2, <3>1
    <3>3. ASSUME s \in Listed', Main(s) # k
          PROVE  /\ s \in Listed /\ store'[Main(s)] = store[Main(s)]
                 /\ mtimes'[Main(s)] = mtimes[Main(s)]
      BY <1>0, <1>3, <1>4, <3>3 DEF Listed, Stores
    <3>4. Main(s) = k => sum.mtime < mtimes'[Main(s)]
      BY <1>4, <3>2
    <3>5. /\ sum.mtime \in 0..m
          /\ s \in Listed' =>
                 \/ sum.mtime < mtimes'[Main(s)]
                 \/ /\ sum.mtime = mtimes'[Main(s)]
                    /\ sum.data = FoldSummary(Empty, store'[Main(s)])
      <4>1. CASE Main(s) = k
        BY <3>2, <3>4, <4>1
      <4>2. CASE Main(s) # k
        BY <3>1, <3>2, <3>3, <4>2
      <4>. QED
        BY <4>1, <4>2
    <3>. QED
      BY <3>5 DEF sum
  <2>. QED
    BY <1>0, <1>1, <2>1 DEF Remembered, m
<1>7. Watched' /\ SlotsTrue'
  <2>1. Observed
    BY DEF AppendEntries
  <2>. QED
    BY <1>0, <1>1, <2>1, ObservedIs
<1>. QED
  BY <1>5, <1>6, <1>7 DEF Listings

LEMMA DeleteListing ==
    ASSUME NEW k \in workload.keys, Delete(k), StoreInv, Listings
    PROVE  Listings'
<1>. DEFINE D == Deleted(k)
<1>0. Stores /\ Dates /\ Dated /\ Remembered /\ SlotsTrue
  BY DEF StoreInv, Listings
<1>1. /\ store' = Restricted(store, DOMAIN store \ D)
      /\ mtimes' = Restricted(mtimes, DOMAIN mtimes \ D)
      /\ UNCHANGED <<workload, lastMtime, lpc, lister>>
  BY DEF Delete
<1>. HIDE DEF D
<1>3. /\ DOMAIN store' = DOMAIN store \ D
      /\ \A j \in DOMAIN store \ D : store'[j] = store[j]
  BY <1>1 DEF Restricted
<1>4. /\ DOMAIN mtimes' = DOMAIN mtimes \ D
      /\ \A j \in DOMAIN mtimes \ D : mtimes'[j] = mtimes[j]
  BY <1>1 DEF Restricted
<1>5. Dated'
  BY <1>0, DatedDeletes
<1>6. \A s \in Listed' : /\ s \in Listed /\ store'[Main(s)] = store[Main(s)]
                        /\ mtimes'[Main(s)] = mtimes[Main(s)]
  BY <1>0, <1>3, <1>4 DEF Listed, Stores
<1>7. Remembered'
  BY <1>0, <1>1, <1>6 DEF Remembered
<1>8. Watched' /\ SlotsTrue'
  <2>1. Observed
    BY DEF Delete
  <2>. QED
    BY <1>0, <1>1, <2>1, ObservedIs
<1>. QED
  BY <1>5, <1>7, <1>8 DEF Listings

LEMMA SummariesListing ==
    ASSUME NEW page \in workload.pages, ReadSummaries(page), StoreInv, Listings
    PROVE  Listings'
<1>0. Stores /\ Dates /\ Lists /\ Dated /\ SidecarExact
  BY DEF StoreInv, Listings
<1>1. /\ lpc' = "listing" /\ UNCHANGED <<workload, store, mtimes, summaries, lastMtime>>
      /\ lister' = [lister EXCEPT !.page = page, !.summaries = ListSessionSummaries]
  BY DEF ReadSummaries, storage
<1>2. lister'.page = page /\ lister'.summaries = ListSessionSummaries
  BY <1>0, <1>1 DEF Lists
<1>3. ASSUME NEW s \in DOMAIN ListSessionSummaries
      PROVE  /\ s \in Listed /\ ListSessionSummaries[s].mtime = mtimes[Main(s)]
             /\ ListSessionSummaries[s].data = FoldSummary(Empty, store[Main(s)])
             /\ mtimes[Main(s)] \in 0..lastMtime
  <2>1. s \in DOMAIN summaries /\ ListSessionSummaries[s] = summaries[s]
    BY DEF ListSessionSummaries, Restricted
  <2>2. s \in Listed
    BY <1>0, <2>1 DEF SidecarExact
  <2>3. Main(s) \in DOMAIN mtimes
    BY <1>0, <2>2 DEF Listed, Stores
  <2>4. mtimes[Main(s)] \in 0..lastMtime
    BY <1>0, <2>3 DEF Dates
  <2>. QED
    BY <1>0, <2>1, <2>2, <2>4 DEF SidecarExact
<1>4. Remembered'
  BY <1>1, <1>2, <1>3 DEF Remembered, Listed
<1>5. Dated' /\ Watched' /\ SlotsTrue'
  BY <1>0, <1>1 DEF Dated, Watched, SlotsTrue
<1>. QED
  BY <1>4, <1>5 DEF Listings

LEMMA SessionsListing ==
    ASSUME ReadSessions, StoreInv, Listings, PlainEntries, InWindows
    PROVE  Listings'
<1>. DEFINE sums == lister.summaries
            known == ListSessions
            page == lister.page
            slots == Slots(known, sums, page)
<1>0. Stores /\ Dates /\ Lists /\ Dated /\ Remembered /\ SidecarExact
  BY DEF StoreInv, Listings
<1>1. /\ lpc = "listing" /\ lpc' = "loading"
      /\ UNCHANGED <<workload, store, mtimes, summaries, lastMtime>>
      /\ lister' = [lister EXCEPT !.slots = slots,
                          !.pending = {i \in DOMAIN slots : slots[i].load}]
      /\ since' = [s \in Sessions |-> {Current(s)}]
  BY DEF ReadSessions, storage
<1>. HIDE DEF slots
<1>2. lister'.slots = slots /\ lister'.page = page /\ lister'.settled = lister.settled
  BY <1>0, <1>1 DEF Lists
<1>3. \A s \in Listed \cap DOMAIN sums :
          /\ sums[s].mtime \in Nat
          /\ \/ sums[s].mtime < mtimes[Main(s)]
             \/ /\ sums[s].mtime = mtimes[Main(s)]
                /\ sums[s].data = FoldSummary(Empty, store[Main(s)])
  BY <1>0, <1>1 DEF Remembered
<1>4. page \in workload.pages /\ page[1] \in Nat /\ page[2] \in Nat
  BY <1>0, <1>1, PageIs DEF Remembered
<1>. HIDE DEF sums, known, page
<1>5. /\ DOMAIN known = Listed
      /\ \A s \in Listed : known[s] = mtimes[Main(s)] /\ mtimes[Main(s)] \in Nat
      /\ Datable(known, sums)
  <2>1. \A s \in Listed : mtimes[Main(s)] \in Nat
    BY <1>0 DEF Listed, Stores, Dates
  <2>2. \A s \in Listed \cap DOMAIN sums :
            sums[s].mtime \in Nat /\ sums[s].mtime <= mtimes[Main(s)]
    BY <1>3, <2>1
  <2>. QED
    BY <1>0, <2>2, ListSessionsIs DEF known
<1>6. /\ Len(slots) \in Nat /\ DOMAIN slots = 1..Len(slots)
      /\ \A i \in DOMAIN slots :
             /\ slots[i].id \in Kept(known, sums)
             /\ slots[i] = SlotOf(known, sums, slots[i].id)
      /\ \A i, j \in DOMAIN slots : slots[i].id = slots[j].id => i = j
      /\ page = <<0, 0>> =>
             \A s \in Kept(known, sums) : \E i \in DOMAIN slots : slots[i].id = s
  BY <1>4, <1>5, SlotsAre DEF slots
<1>7. ASSUME NEW s \in UpToDate(known, sums)
      PROVE  s \in Listed /\ SdkInfo(sums[s].data) = Current(s)
  <2>1. s \in Listed /\ s \in DOMAIN sums /\ sums[s].mtime >= mtimes[Main(s)]
    BY <1>5 DEF UpToDate
  <2>2. sums[s].data = FoldSummary(Empty, store[Main(s)])
    BY <1>3, <1>5, <2>1
  <2>. QED
    BY <1>0, <2>1, <2>2, CurrentIs, Windowed
<1>8. Kept(known, sums) \subseteq Listed /\ Listed \subseteq Sessions
  BY <1>5 DEF Kept, Listed
<1>9. ASSUME NEW i \in DOMAIN slots
      PROVE  /\ slots[i].id \in Sessions
             /\ ~slots[i].load => slots[i].info \in since'[slots[i].id] /\ slots[i].info # NoInfo
  <2>. DEFINE s == slots[i].id
  <2>1. s \in Kept(known, sums) /\ slots[i] = SlotOf(known, sums, s) /\ s \in Sessions
    BY <1>6, <1>8
  <2>2. ASSUME ~slots[i].load PROVE s \in UpToDate(known, sums)
    <3>1. SlotOf(known, sums, s).load = (s \notin UpToDate(known, sums))
      BY DEF SlotOf
    <3>2. slots[i].load = (s \notin UpToDate(known, sums))
      BY <2>1, <3>1
    <3>. QED
      BY <2>2, <3>2
  <2>3. ASSUME s \in UpToDate(known, sums)
        PROVE  slots[i].info = Current(s) /\ Current(s) # NoInfo
    <3>1. slots[i].info = SdkInfo(sums[s].data)
      BY <2>1, <2>3 DEF SlotOf
    <3>2. SdkInfo(sums[s].data) # NoInfo
      BY <2>1, <2>3 DEF Kept
    <3>. QED
      BY <1>7, <2>3, <3>1, <3>2
  <2>. HIDE DEF s
  <2>4. since'[s] = {Current(s)}
    BY <1>1, <2>1
  <2>. QED
    BY <2>1, <2>2, <2>3, <2>4 DEF s
<1>10. ASSUME NEW s \in Sessions, NoInfo \notin since'[s] PROVE s \in Kept(known, sums)
  <2>1. Current(s) # NoInfo
    BY <1>1, <1>10
  <2>2. s \in Listed
    BY <2>1 DEF Current, Listed
  <2>. QED
    BY <1>5, <1>7, <2>1, <2>2 DEF Kept
<1>11. SlotsTrue'
  <2>1. DOMAIN lister'.settled = {}
    BY <1>0, <1>1, <1>2 DEF Lists
  <2>2. page = <<0, 0>> => \A s \in Sessions : NoInfo \notin since'[s] =>
                               \E i \in DOMAIN slots : slots[i].id = s
    BY <1>6, <1>10
  <2>. QED
    BY <1>1, <1>2, <1>6, <1>9, <2>1, <2>2 DEF SlotsTrue
<1>12. Watched'
  <2>1. \A s : Current(s)' = Current(s)
    BY <1>1 DEF Current
  <2>. QED
    BY <1>1, <2>1 DEF Watched
<1>13. Dated' /\ Remembered'
  BY <1>0, <1>1, <1>2, <1>4 DEF Dated, Remembered
<1>. QED
  BY <1>11, <1>12, <1>13 DEF Listings

LEMMA LoadsListing ==
    ASSUME NEW i \in lister.pending, LoadReturns(i), StoreInv, Listings
    PROVE  Listings'
<1>0. Lists /\ Dated /\ Remembered /\ Watched /\ SlotsTrue
  BY DEF StoreInv, Listings
<1>1. /\ lpc = "loading" /\ UNCHANGED <<workload, store, mtimes, summaries, lastMtime, lpc, since>>
      /\ \E info \in {Current(lister.slots[i].id), Degraded} :
             lister' = [lister EXCEPT !.pending = @ \ {i}, !.settled = Updated(@, i, info)]
  BY DEF LoadReturns, storage
<1>2. PICK info \in {Current(lister.slots[i].id), Degraded} :
          lister' = [lister EXCEPT !.pending = @ \ {i}, !.settled = Updated(@, i, info)]
  BY <1>1
<1>3. /\ lister'.slots = lister.slots /\ lister'.page = lister.page
      /\ lister'.settled = Updated(lister.settled, i, info)
  BY <1>0, <1>2 DEF Lists
<1>4. ASSUME NEW j \in DOMAIN lister.slots, j \in DOMAIN lister'.settled
      PROVE  lister'.settled[j] \in since[lister.slots[j].id] \cup {Degraded}
  <2>1. lister.slots[j].id \in Sessions
    BY <1>0, <1>1 DEF SlotsTrue
  <2>2. CASE j = i
    <3>1. lister'.settled[j] = info
      BY <1>3, <2>2 DEF Updated
    <3>. QED
      BY <1>0, <1>1, <1>2, <2>1, <2>2, <3>1 DEF Watched
  <2>3. CASE j # i
    <3>1. j \in DOMAIN lister.settled /\ lister'.settled[j] = lister.settled[j]
      BY <1>3, <1>4, <2>3 DEF Updated
    <3>. QED
      BY <1>0, <1>1, <3>1 DEF SlotsTrue
  <2>. QED
    BY <2>2, <2>3
<1>5. SlotsTrue'
  BY <1>0, <1>1, <1>3, <1>4 DEF SlotsTrue
<1>6. Watched'
  <2>1. \A s : Current(s)' = Current(s)
    BY <1>1 DEF Current
  <2>. QED
    BY <1>0, <1>1, <2>1 DEF Watched
<1>7. Dated' /\ Remembered'
  BY <1>0, <1>1, <1>3 DEF Dated, Remembered
<1>. QED
  BY <1>5, <1>6, <1>7 DEF Listings

LEMMA ListingsEnd ==
    ASSUME ListingReturns \/ ListingForgotten \/ UNCHANGED vars, StoreInv, Listings
    PROVE  Listings'
<1>0. Lists /\ Dated /\ Remembered /\ Watched /\ SlotsTrue
  BY DEF StoreInv, Listings
<1>1. CASE ListingReturns
  <2>1. /\ lpc = "loading" /\ lpc' = "done" /\ lister.pending = {}
        /\ UNCHANGED <<workload, mtimes, lister, since>>
    BY <1>1 DEF ListingReturns, storage
  <2>. QED
    BY <1>0, <2>1 DEF Listings, Dated, Remembered, Watched, SlotsTrue
<1>2. CASE ListingForgotten
  <2>1. lpc' = "idle" /\ UNCHANGED mtimes
    BY <1>2 DEF ListingForgotten, storage
  <2>. QED
    BY <1>0, <2>1 DEF Listings, Dated, Remembered, Watched, SlotsTrue
<1>3. CASE UNCHANGED vars
  <2>1. UNCHANGED <<workload, store, mtimes, summaries, lastMtime, lpc, lister, since>>
    BY <1>3 DEF vars, storage
  <2>2. Listed' = Listed /\ \A s : Current(s)' = Current(s)
    BY <2>1 DEF Listed, Current
  <2>3. Remembered'
    BY <1>0, <2>1, <2>2 DEF Remembered
  <2>4. Dated' /\ Watched' /\ SlotsTrue'
    BY <1>0, <2>1, <2>2 DEF Dated, Watched, SlotsTrue
  <2>. QED
    BY <2>3, <2>4 DEF Listings
<1>. QED
  BY <1>1, <1>2, <1>3

LEMMA ListingsHold == PlainEntries /\ InWindows /\ Spec => [](StoreInv /\ Listings)
<1>. SUFFICES ASSUME PlainEntries, InWindows PROVE Spec => [](StoreInv /\ Listings)
  OBVIOUS
<1>1. Init => Listings
  <2>1. DOMAIN Empty = {}
    BY DEF Empty
  <2>. QED
    BY <2>1 DEF Init, Listings, Dated, Remembered, Watched, SlotsTrue
<1>2. StoreInv /\ Listings /\ [Next]_vars => Listings'
  <2>. SUFFICES ASSUME StoreInv, Listings, [Next]_vars PROVE Listings'
    OBVIOUS
  <2>1. ASSUME NEW k \in workload.keys, NEW b \in workload.batches,
               NEW now \in 0..workload.time, AppendEntries(k, b, now)
        PROVE  Listings'
    BY <2>1, AppendListing
  <2>2. ASSUME NEW k \in workload.keys, Delete(k) PROVE Listings'
    BY <2>2, DeleteListing
  <2>3. ASSUME NEW page \in workload.pages, ReadSummaries(page) PROVE Listings'
    BY <2>3, SummariesListing
  <2>4. ASSUME ReadSessions PROVE Listings'
    BY <2>4, SessionsListing
  <2>5. ASSUME NEW i \in lister.pending, LoadReturns(i) PROVE Listings'
    BY <2>5, LoadsListing
  <2>6. ASSUME ListingReturns \/ ListingForgotten \/ UNCHANGED vars PROVE Listings'
    BY <2>6, ListingsEnd
  <2>. QED
    BY <2>1, <2>2, <2>3, <2>4, <2>5, <2>6 DEF Next
<1>. QED
  BY <1>1, <1>2, StoreInvariance, PTL DEF Spec

\* What is shown at the end is what the slots have.
LEMMA ListingFollows == StoreInv /\ Listings => ListingTrue
<1>. SUFFICES ASSUME StoreInv, Listings, lpc = "done" PROVE ListingTrue
  BY DEF ListingTrue, RowsFresh, ListingComplete
<1>. DEFINE slots == lister.slots
            n == Len(slots)
            row(i) == Row(slots, lister.settled, i)
            shown == RowsShown(slots, lister.settled)
            places == Places(slots, lister.settled)
            m == Cardinality(shown)
<1>1. /\ n \in Nat /\ DOMAIN slots = 1..n
      /\ \A i \in 1..n :
             /\ slots[i].id \in Sessions
             /\ ~slots[i].load => slots[i].info \in since[slots[i].id] /\ slots[i].info # NoInfo
             /\ i \in DOMAIN lister.settled =>
                    lister.settled[i] \in since[slots[i].id] \cup {Degraded}
      /\ \A i, j \in 1..n : slots[i].id = slots[j].id => i = j
      /\ lister.page = <<0, 0>> =>
             \A s \in Sessions : NoInfo \notin since[s] => \E i \in 1..n : slots[i].id = s
      /\ lister.pending = {}
  BY DEF Listings, SlotsTrue
<1>2. \A i \in 1..n : slots[i].load => i \in DOMAIN lister.settled
  BY <1>1 DEF StoreInv, Lists
<1>3. /\ m \in Nat /\ places \in [1..m -> shown]
      /\ Result = [k \in 1..m |-> row(places[k])]
      /\ \A i \in shown : \E k \in 1..m : places[k] = i
      /\ \A k, l \in 1..m : places[k] = places[l] => k = l
  BY <1>1, RowsAre DEF Result
<1>. HIDE DEF places, m
<1>4. ASSUME NEW i \in 1..n
      PROVE  row(i).id = slots[i].id /\ row(i).info \in since[slots[i].id] \cup {Degraded}
  <2>1. row(i).id = slots[i].id
    BY DEF Row
  <2>2. row(i).info = IF slots[i].load THEN lister.settled[i] ELSE slots[i].info
    BY DEF Row
  <2>. QED
    BY <1>1, <1>2, <2>1, <2>2
<1>5. Degraded # NoInfo
  <2>1. Degraded.summary = "" /\ NoInfo.summary = None /\ None # ""
    BY DEF Degraded, NoInfo, None
  <2>. QED
    BY <2>1
<1>6. shown \in SUBSET (1..n) /\ \A i \in 1..n : i \in shown <=> row(i).info # NoInfo
  BY <1>1 DEF RowsShown
<1>. HIDE DEF row
<1>. HIDE DEF shown
<1>7. RowsFresh
  BY <1>3, <1>4, <1>6 DEF RowsFresh
<1>8. ASSUME lister.page = <<0, 0>>, NEW s \in Sessions, NoInfo \notin since[s]
      PROVE  \E k \in DOMAIN Result : \A l \in DOMAIN Result : Result[l].id = s <=> l = k
  <2>1. PICK i \in 1..n : slots[i].id = s
    BY <1>1, <1>8
  <2>2. i \in shown
    BY <1>4, <1>5, <1>6, <1>8, <2>1
  <2>3. PICK k \in 1..m : places[k] = i
    BY <1>3, <2>2
  <2>4. DOMAIN Result = 1..m
    BY <1>3
  <2>5. ASSUME NEW l \in 1..m PROVE Result[l].id = s <=> l = k
    <3>1. Result[l].id = slots[places[l]].id /\ places[l] \in 1..n
      BY <1>3, <1>4, <1>6
    <3>2. slots[places[l]].id = s <=> places[l] = i
      BY <1>1, <2>1, <3>1
    <3>3. places[l] = i <=> l = k
      BY <1>3, <2>3
    <3>. QED
      BY <3>1, <3>2, <3>3
  <2>. QED
    BY <2>4, <2>5
<1>. QED
  BY <1>7, <1>8 DEF ListingTrue, ListingComplete

(***************************************************************************)
(* A listing that appends and deletions interleave with is true, for any   *)
(* sessions, pages, batches and failing loads, when the entries are the    *)
(* CLI's and the transcripts fit into the windows of the parser of files.  *)
(***************************************************************************)
THEOREM ListingHolds == PlainEntries /\ InWindows /\ Spec => []ListingTrue
  BY ListingsHold, ListingFollows, PTL

-----------------------------------------------------------------------------
\* A listing at one instant

LEMMA SummariesAre ==
    ASSUME StoreInv, Dated
    PROVE  /\ DOMAIN ListSessions = Listed
           /\ \A s \in Listed : ListSessions[s] = mtimes[Main(s)] /\ mtimes[Main(s)] \in Nat
           /\ Datable(ListSessions, ListSessionSummaries)
           /\ DOMAIN ListSessionSummaries = Listed \ workload.unsummarized
           /\ UpToDate(ListSessions, ListSessionSummaries) = DOMAIN ListSessionSummaries
           /\ \A s \in DOMAIN ListSessionSummaries :
                  ListSessionSummaries[s].data = FoldSummary(Empty, store[Main(s)])
<1>0. Stores /\ Dates /\ SidecarExact
  BY DEF StoreInv
<1>1. DOMAIN ListSessionSummaries = Listed \ workload.unsummarized
  BY <1>0 DEF ListSessionSummaries, Restricted, SidecarExact
<1>2. ASSUME NEW s \in DOMAIN ListSessionSummaries
      PROVE  /\ s \in Listed /\ ListSessionSummaries[s].mtime = mtimes[Main(s)]
             /\ mtimes[Main(s)] \in Nat
             /\ ListSessionSummaries[s].data = FoldSummary(Empty, store[Main(s)])
  <2>1. s \in Listed /\ ListSessionSummaries[s] = summaries[s]
    BY <1>1 DEF ListSessionSummaries, Restricted
  <2>2. mtimes[Main(s)] \in Nat
    BY <1>0, <2>1 DEF Listed, Stores, Dates
  <2>. QED
    BY <1>0, <2>1, <2>2 DEF SidecarExact
<1>3. /\ DOMAIN ListSessions = Listed
      /\ \A s \in Listed : ListSessions[s] = mtimes[Main(s)] /\ mtimes[Main(s)] \in Nat
      /\ Datable(ListSessions, ListSessionSummaries)
  BY <1>0, <1>2, ListSessionsIs
<1>4. UpToDate(ListSessions, ListSessionSummaries) = DOMAIN ListSessionSummaries
  BY <1>1, <1>2, <1>3 DEF UpToDate
<1>. QED
  BY <1>1, <1>2, <1>3, <1>4

\* The row of a session.
RowOf(s) == [id |-> s, mtime |-> mtimes[Main(s)], info |-> Current(s)]
Showing == {s \in Listed : Current(s) # NoInfo}
SlowSet == {RowOf(s) : s \in Showing}

LEMMA SlowRowsAre ==
    ASSUME StoreInv, Dated
    PROVE  /\ IsFiniteSet(SlowSet) /\ StrictOrder(SlowSet, Newer(SlowSet))
           /\ SlowRows(<<0, 0>>) = Sorted(SlowSet, Newer(SlowSet))
<1>0. Stores /\ Dates
  BY DEF StoreInv
<1>1. \A s : RowOf(s).id = s /\ RowOf(s).mtime = mtimes[Main(s)] /\ RowOf(s).info = Current(s)
  BY DEF RowOf
<1>2. {x \in {[id |-> s, mtime |-> mtimes[Main(s)], info |-> Current(s)] : s \in Listed} :
           x.info # NoInfo} = SlowSet
  <2>1. {x \in {RowOf(s) : s \in Listed} : x.info # NoInfo} = SlowSet
    BY <1>1 DEF SlowSet, Showing
  <2>. QED
    BY <2>1 DEF RowOf
<1>3. IsFiniteSet(SlowSet)
  <2>. DEFINE f == [s \in Showing |-> RowOf(s)]
  <2>1. f \in Surjection(Showing, SlowSet)
    BY DEF SlowSet, Surjection
  <2>2. IsFiniteSet(Showing)
    BY <1>0, FiniteListed, FS_Subset DEF Showing
  <2>. QED
    BY <2>1, <2>2, FS_Surjection
<1>4. StrictOrder(SlowSet, Newer(SlowSet))
  <2>1. \A s \in Listed : Main(s) \in DOMAIN mtimes /\ mtimes[Main(s)] \in Int
    BY <1>0 DEF Listed, Stores, Dates
  <2>2. \A s, t \in Listed : mtimes[Main(s)] = mtimes[Main(t)] => s = t
    BY <2>1, MainIs DEF Dated
  <2>3. /\ \A x \in SlowSet : x.mtime \in Int
        /\ \A x, y \in SlowSet : x.mtime = y.mtime => x = y
    BY <1>1, <2>1, <2>2 DEF SlowSet, Showing
  <2>. QED
    BY <2>3, NewerOrder
<1>. DEFINE all == Sorted(SlowSet, Newer(SlowSet))
            page == <<0, 0>>
<1>5. SlowRows(page) = Cut(all, page)
  BY <1>2 DEF SlowRows
<1>6. Cardinality(SlowSet) \in Nat /\ all \in [1..Cardinality(SlowSet) -> SlowSet]
  BY <1>3, <1>4, SortedIs
<1>7. page[1] \in Nat /\ page[2] \in Nat
  OBVIOUS
<1>. HIDE DEF all, page
<1>8. page = <<0, 0>> => Cut(all, page) = all
  BY <1>6, <1>7, CutIs, Zenon
<1>. QED
  BY <1>3, <1>4, <1>5, <1>8 DEF all, page

\* What the fast path reads for its slots.
Loaded(slots) == [i \in DOMAIN slots |-> Current(slots[i].id)]

LEMMA PathsMeet ==
    ASSUME StoreInv, Dated, PlainEntries, InWindow
    PROVE  FastRows(<<0, 0>>) = SlowRows(<<0, 0>>)
<1>. DEFINE known == ListSessions
            sums == ListSessionSummaries
            page == <<0, 0>>
            slots == Slots(known, sums, page)
            n == Len(slots)
            settled == Loaded(slots)
            shown == RowsShown(slots, settled)
            places == Places(slots, settled)
            m == Cardinality(shown)
            result == FastRows(page)
<1>0. Stores
  BY DEF StoreInv
<1>1. /\ DOMAIN known = Listed /\ \A s \in Listed : known[s] = mtimes[Main(s)]
      /\ Datable(known, sums)
      /\ UpToDate(known, sums) \subseteq Listed
      /\ \A s \in UpToDate(known, sums) : sums[s].data = FoldSummary(Empty, store[Main(s)])
  BY SummariesAre
<1>2. result = Rows(slots, settled)
  BY DEF FastRows, Loaded
<1>3. page[1] \in Nat /\ page[2] \in Nat /\ page = <<0, 0>>
  OBVIOUS
<1>. HIDE DEF known, sums, page
<1>4. /\ n \in Nat /\ DOMAIN slots = 1..n
      /\ \A i \in 1..n :
             /\ slots[i].id \in Kept(known, sums)
             /\ slots[i] = SlotOf(known, sums, slots[i].id)
      /\ \A i, j \in 1..n : i < j => slots[i].mtime > slots[j].mtime
      /\ \A s \in Kept(known, sums) : \E i \in 1..n : slots[i].id = s
  BY <1>1, <1>3, SlotsAre
<1>. HIDE DEF slots
<1>5. /\ shown \in SUBSET (1..n) /\ m \in Nat /\ places \in [1..m -> shown]
      /\ result = [k \in 1..m |-> Row(slots, settled, places[k])]
      /\ \A i \in shown : \E k \in 1..m : places[k] = i
      /\ \A k, l \in 1..m : k < l => places[k] < places[l]
  BY <1>2, <1>4, RowsAre
<1>6. \A i \in 1..n : i \in shown <=> Row(slots, settled, i).info # NoInfo
  BY <1>4 DEF RowsShown
<1>7. ASSUME NEW s \in UpToDate(known, sums) PROVE SdkInfo(sums[s].data) = Current(s)
  BY <1>0, <1>1, CurrentIs DEF InWindow
<1>8. ASSUME NEW i \in 1..n
      PROVE  /\ slots[i].id \in Listed /\ Row(slots, settled, i) = RowOf(slots[i].id)
             /\ slots[i].mtime = mtimes[Main(slots[i].id)]
  <2>. DEFINE s == slots[i].id
              load == s \notin UpToDate(known, sums)
  <2>1. s \in Kept(known, sums) /\ slots[i] = SlotOf(known, sums, s)
    BY <1>4
  <2>2. s \in Listed
    BY <1>1, <2>1 DEF Kept
  <2>3. settled[i] = Current(s)
    BY <1>4 DEF Loaded
  <2>4. /\ slots[i].load = load /\ slots[i].mtime = mtimes[Main(s)]
        /\ slots[i].info = IF s \in UpToDate(known, sums) THEN SdkInfo(sums[s].data) ELSE NoInfo
    <3>1. /\ SlotOf(known, sums, s).load = load /\ SlotOf(known, sums, s).mtime = known[s]
          /\ SlotOf(known, sums, s).info
                 = IF s \in UpToDate(known, sums) THEN SdkInfo(sums[s].data) ELSE NoInfo
      BY DEF SlotOf
    <3>. HIDE DEF s, load
    <3>. QED
      BY <1>1, <2>1, <2>2, <3>1
  <2>5. (IF slots[i].load THEN settled[i] ELSE slots[i].info) = Current(s)
    <3>1. CASE s \in UpToDate(known, sums)
      <4>1. slots[i].info = Current(s)
        BY <1>7, <2>4, <3>1
      <4>. QED
        BY <2>3, <4>1
    <3>2. CASE s \notin UpToDate(known, sums)
      BY <2>3, <2>4, <3>2
    <3>. QED
      BY <3>1, <3>2
  <2>. QED
    BY <2>2, <2>4, <2>5 DEF Row, RowOf
<1>. HIDE DEF settled, shown, places, m, n, result
<1>9. \A s : RowOf(s).info = Current(s) /\ RowOf(s).mtime = mtimes[Main(s)]
  BY DEF RowOf
<1>10. \A k \in 1..m : result[k] \in SlowSet
  BY <1>5, <1>6, <1>8, <1>9 DEF SlowSet, Showing
<1>11. ASSUME NEW x \in SlowSet PROVE \E k \in 1..m : result[k] = x
  <2>1. PICK s \in Listed : x = RowOf(s) /\ Current(s) # NoInfo
    BY DEF SlowSet, Showing
  <2>2. s \in Kept(known, sums)
    BY <1>1, <1>7, <2>1 DEF Kept
  <2>3. PICK i \in 1..n : slots[i].id = s
    BY <1>4, <2>2
  <2>4. Row(slots, settled, i) = x /\ i \in shown
    BY <1>6, <1>8, <1>9, <2>1, <2>3
  <2>5. PICK k \in 1..m : places[k] = i
    BY <1>5, <2>4
  <2>. QED
    BY <1>5, <2>4, <2>5
<1>12. ASSUME NEW k \in 1..m, NEW l \in 1..m, k < l
       PROVE  <<result[k], result[l]>> \in Newer(SlowSet)
  <2>1. places[k] \in 1..n /\ places[l] \in 1..n /\ places[k] < places[l]
    BY <1>5, <1>12
  <2>2. slots[places[k]].mtime > slots[places[l]].mtime
    BY <1>4, <2>1
  <2>3. result[k].mtime > result[l].mtime
    BY <1>5, <1>8, <1>9, <2>1, <2>2
  <2>. QED
    BY <1>10, <2>3 DEF Newer
<1>13. result \in [1..m -> SlowSet]
  BY <1>5, <1>10
<1>14. result = Sorted(SlowSet, Newer(SlowSet))
  <2>1. m \in Nat
    BY <1>5
  <2>2. \A k, l \in 1..m : k < l => <<result[k], result[l]>> \in Newer(SlowSet)
    BY <1>12
  <2>. QED
    BY <1>11, <1>13, <2>1, <2>2, SlowRowsAre, SortedOnly
<1>. QED
  BY <1>14, SlowRowsAre DEF result, page

\* A slot that is not loaded, as a row.
Bare(slot) == [id |-> slot.id, mtime |-> slot.mtime, info |-> slot.info]

\* With a summary of every session, the rows are the slots of the page.
LEMMA WholePage ==
    ASSUME StoreInv, Dated, workload.unsummarized = {},
           NEW page, page[1] \in Nat, page[2] \in Nat
    PROVE  LET slots == Slots(ListSessions, ListSessionSummaries, page)
           IN  FastRows(page) = [k \in 1..Len(slots) |-> Bare(slots[k])]
<1>. DEFINE known == ListSessions
            sums == ListSessionSummaries
            slots == Slots(known, sums, page)
            n == Len(slots)
            settled == Loaded(slots)
            shown == RowsShown(slots, settled)
            places == Places(slots, settled)
            m == Cardinality(shown)
            t == [i \in 1..n |-> i]
<1>1. Datable(known, sums) /\ UpToDate(known, sums) = DOMAIN known
  BY SummariesAre
<1>2. FastRows(page) = Rows(slots, settled)
  BY DEF FastRows, Loaded
<1>. HIDE DEF known, sums
<1>3. /\ n \in Nat /\ DOMAIN slots = 1..n
      /\ \A i \in 1..n :
             /\ slots[i].id \in Kept(known, sums)
             /\ slots[i] = SlotOf(known, sums, slots[i].id)
  BY <1>1, SlotsAre
<1>. HIDE DEF slots
<1>4. ASSUME NEW i \in 1..n
      PROVE  Row(slots, settled, i) = Bare(slots[i]) /\ Row(slots, settled, i).info # NoInfo
  <2>. DEFINE s == slots[i].id
  <2>1. s \in UpToDate(known, sums) /\ SdkInfo(sums[s].data) # NoInfo
    BY <1>1, <1>3 DEF Kept
  <2>2. /\ SlotOf(known, sums, s).load = (s \notin UpToDate(known, sums))
        /\ SlotOf(known, sums, s).info = SdkInfo(sums[s].data)
    BY <2>1 DEF SlotOf
  <2>3. ~slots[i].load /\ slots[i].info # NoInfo
    BY <1>3, <2>1, <2>2
  <2>. QED
    BY <2>3 DEF Row, Bare
<1>5. shown = 1..n
  BY <1>3, <1>4 DEF RowsShown
<1>6. t \in [1..n -> shown] /\ \A i \in 1..n : t[i] = i
  BY <1>5
<1>7. /\ Rows(slots, settled) = [k \in 1..m |-> Row(slots, settled, places[k])]
      /\ m = n /\ places = t
  <2>. HIDE DEF settled, shown, places, m, t
  <2>1. /\ Rows(slots, settled) = [k \in 1..m |-> Row(slots, settled, places[k])]
        /\ \A u \in [1..n -> shown] :
               shown = 1..n /\ (\A i \in 1..n : u[i] = i) => m = n /\ places = u
    BY <1>3, RowsAre DEF shown, places, m
  <2>. QED
    BY <1>5, <1>6, <2>1
<1>. HIDE DEF settled, shown, places, m, n
<1>8. Rows(slots, settled) = [k \in 1..n |-> Bare(slots[k])]
  BY <1>4, <1>7
<1>. QED
  BY <1>2, <1>8 DEF slots, n, known, sums

LEMMA PagesAdd ==
    ASSUME StoreInv, Dated, workload.unsummarized = {},
           NEW page, page[1] \in Nat, page[2] \in Nat
    PROVE  FastRows(page) = Cut(FastRows(<<0, 0>>), page)
<1>. DEFINE known == ListSessions
            sums == ListSessionSummaries
            S == SlotSet(known, sums)
            all == Sorted(S, Newer(S))
            n == Cardinality(S)
            m == Size(n, page)
            B == {Bare(x) : x \in S}
            bare == [i \in 1..n |-> Bare(all[i])]
            start == <<0, 0>>
<1>1. Datable(known, sums)
  BY SummariesAre
<1>2. \A p : Slots(known, sums, p) = Cut(all, p)
  BY <1>1, SlotSetIs DEF Slots
<1>3. n \in Nat /\ all \in [1..n -> S]
  BY <1>1, SlotSetIs, SortedIs
<1>4. start[1] \in Nat /\ start[2] \in Nat /\ start = <<0, 0>>
  OBVIOUS
<1>5. /\ FastRows(page) = [k \in 1..Len(Cut(all, page)) |-> Bare(Cut(all, page)[k])]
      /\ FastRows(start) = [k \in 1..Len(Cut(all, start)) |-> Bare(Cut(all, start)[k])]
  <2>1. \A p : p[1] \in Nat /\ p[2] \in Nat =>
            FastRows(p) = [k \in 1..Len(Slots(known, sums, p)) |-> Bare(Slots(known, sums, p)[k])]
    BY WholePage
  <2>. HIDE DEF known, sums, start
  <2>2. \A p : p[1] \in Nat /\ p[2] \in Nat =>
            FastRows(p) = [k \in 1..Len(Cut(all, p)) |-> Bare(Cut(all, p)[k])]
    <3>. SUFFICES ASSUME NEW p, p[1] \in Nat, p[2] \in Nat
                  PROVE  FastRows(p) = [k \in 1..Len(Cut(all, p)) |-> Bare(Cut(all, p)[k])]
      OBVIOUS
    <3>. HIDE DEF all
    <3>1. PICK slots : slots = Cut(all, p)
      OBVIOUS
    <3>2. FastRows(p) = [k \in 1..Len(slots) |-> Bare(slots[k])]
      BY <1>2, <2>1, <3>1
    <3>. QED
      BY <3>1, <3>2
  <2>. QED
    BY <1>4, <2>2
<1>. HIDE DEF known, sums, S, all, n
<1>6. bare \in [1..n -> B]
  BY <1>3
<1>. HIDE DEF bare, B, start
<1>7. Cut(all, start) = all
  BY <1>3, <1>4, CutIs, Zenon
<1>8. Len(all) = n
  BY <1>3
<1>9. FastRows(start) = bare
  BY <1>5, <1>7, <1>8 DEF bare
<1>. HIDE DEF m
<1>10. /\ m \in 0..n /\ Cut(all, page) \in [1..m -> S]
       /\ \A i \in 1..m : page[2] + i \in 1..n /\ Cut(all, page)[i] = all[page[2] + i]
  <2>1. /\ Size(n, page) \in 0..n
        /\ Cut(all, page) \in [1..Size(n, page) -> S]
        /\ \A i \in 1..Size(n, page) :
               page[2] + i \in 1..n /\ Cut(all, page)[i] = all[page[2] + i]
        /\ page = <<0, 0>> => Cut(all, page) = all
    BY <1>3, CutIs, Zenon
  <2>. QED
    BY <2>1 DEF m
<1>11. /\ Cut(bare, page) \in [1..m -> B]
       /\ \A i \in 1..m : Cut(bare, page)[i] = bare[page[2] + i]
  <2>1. /\ Size(n, page) \in 0..n
        /\ Cut(bare, page) \in [1..Size(n, page) -> B]
        /\ \A i \in 1..Size(n, page) :
               page[2] + i \in 1..n /\ Cut(bare, page)[i] = bare[page[2] + i]
        /\ page = <<0, 0>> => Cut(bare, page) = bare
    BY <1>3, <1>6, CutIs, Zenon
  <2>. QED
    BY <2>1 DEF m
<1>12. m \in Nat
  BY <1>3, <1>10
<1>13. Len(Cut(all, page)) = m
  BY <1>10, <1>12
<1>14. \A i \in 1..m : Bare(Cut(all, page)[i]) = Cut(bare, page)[i]
  BY <1>10, <1>11 DEF bare
<1>15. FastRows(page) = Cut(bare, page)
  BY <1>5, <1>11, <1>13, <1>14
<1>. QED
  BY <1>9, <1>15 DEF start

(***************************************************************************)
(* Listings from summaries and from transcripts are the same, and with a   *)
(* summary of every session the pages of a listing make up the whole, for  *)
(* any sessions, pages and workloads, when the entries are the CLI's.      *)
(***************************************************************************)
THEOREM PagesHold == PlainEntries /\ Spec => []PagesAgree
<1>. SUFFICES ASSUME PlainEntries PROVE Spec => []PagesAgree
  OBVIOUS
<1>1. StoreInv /\ Dated => PagesAgree
  <2>. SUFFICES ASSUME StoreInv, Dated PROVE PagesAgree
    OBVIOUS
  <2>1. PathsAgree
    BY PathsMeet DEF PathsAgree
  <2>2. NeverShort
    <3>. SUFFICES ASSUME workload.unsummarized = {},
                         NEW limit \in 0..Cardinality(Sessions),
                         NEW offset \in 0..Cardinality(Sessions)
                  PROVE  FastRows(<<limit, offset>>)
                             = Cut(FastRows(<<0, 0>>), <<limit, offset>>)
      BY DEF NeverShort
    <3>. DEFINE page == <<limit, offset>>
    <3>1. page[1] \in Nat /\ page[2] \in Nat
      OBVIOUS
    <3>. HIDE DEF page
    <3>2. FastRows(page) = Cut(FastRows(<<0, 0>>), page)
      BY <3>1, PagesAdd
    <3>. QED
      BY <3>2 DEF page
  <2>. QED
    BY <2>1, <2>2 DEF PagesAgree
<1>. QED
  BY <1>1, DatesDiffer, PTL
=============================================================================
