------------------------- MODULE MirrorBatcherProofs -------------------------
(***************************************************************************)
(* Theorems about MirrorBatcher for every set of files, frames, callers    *)
(* and eager tasks and all limits: the types, the flush barrier, what is   *)
(* written and reported, and the contract of the mirror.                   *)
(*                                                                         *)
(* The barrier is not inductive.  What makes it so is the order of the     *)
(* lock's queue: a drain's frames are all newer than what the drains       *)
(* before it in the queue have to settle (QueueOrder), and what is still   *)
(* pending is newer than that of every drain (PendingNewer).  So when the  *)
(* owner leaves, no older frame can be live anywhere.                      *)
(***************************************************************************)
EXTENDS MirrorBatcher, FiniteSetsExt, FiniteSetTheorems, NaturalsInduction,
        SequenceTheorems, WellFoundedInduction, TLAPS

-----------------------------------------------------------------------------
(***************************************************************************)
(* Sums over finite sets, as MapThenSumSet computes them, and the least    *)
(* counterexample as a form of induction.                                  *)
(***************************************************************************)
\* A set of natural numbers that is not empty has a least member.
LEMMA LeastNat ==
    ASSUME NEW T \in SUBSET Nat, T # {}
    PROVE  \E m \in T : \A n \in T : m <= n
<1>1. IsWellFoundedOn(OpToRel(<, Nat), Nat)
  BY NatLessThanWellFounded
<1>2. PICK m \in T : \A n \in T : ~(<<n, m>> \in OpToRel(<, Nat))
  BY <1>1, WFMin
<1>3. \A n \in T : ~(n < m)
  BY <1>2 DEF OpToRel
<1>. QED
  BY <1>3

\* A set B of finite sets that is not empty has a member of least cardinality.
LEMMA LeastSet ==
    ASSUME NEW B, B # {}, \A s \in B : IsFiniteSet(s)
    PROVE  \E s \in B : \A t \in B : Cardinality(s) <= Cardinality(t)
<1>. DEFINE T == {Cardinality(s) : s \in B}
<1>1. T \in SUBSET Nat /\ T # {}
  BY FS_CardinalityType
<1>2. PICK m \in T : \A n \in T : m <= n
  BY <1>1, LeastNat
<1>. QED
  BY <1>2

First(s) == CHOOSE x \in s : TRUE

\* g is the sum of the weights w over every subset of S.
IsSum(g, w, S) ==
    g = [s \in SUBSET S |->
            IF s = {} THEN 0 ELSE w[First(s)] + g[s \ {First(s)}]]

LEMMA FirstIn == \A s : s # {} => First(s) \in s
  BY DEF First

LEMMA SumStep ==
    ASSUME NEW g, NEW w, NEW S, IsSum(g, w, S), NEW s \in SUBSET S
    PROVE  g[s] = IF s = {} THEN 0 ELSE w[First(s)] + g[s \ {First(s)}]
  BY DEF IsSum

\* The recursion has a solution on the subsets of up to n elements for every n.
SmallSets(S, n) == {s \in SUBSET S : Cardinality(s) <= n}
IsSmallSum(g, w, S, n) ==
    g = [s \in SmallSets(S, n) |->
            IF s = {} THEN 0 ELSE w[First(s)] + g[s \ {First(s)}]]

LEMMA SmallSumStep ==
    ASSUME NEW S, IsFiniteSet(S), NEW w, NEW n \in Nat, NEW g, IsSmallSum(g, w, S, n)
    PROVE  \E h : IsSmallSum(h, w, S, n + 1)
<1>. DEFINE h == [s \in SmallSets(S, n + 1) |->
                    IF s = {} THEN 0 ELSE w[First(s)] + g[s \ {First(s)}]]
<1>1. ASSUME NEW s \in SmallSets(S, n + 1), s # {}
      PROVE  /\ s \ {First(s)} \in SmallSets(S, n)
             /\ s \ {First(s)} \in SmallSets(S, n + 1)
  <2>1. s \in SUBSET S /\ IsFiniteSet(s) /\ First(s) \in s
    BY <1>1, FS_Subset, FirstIn DEF SmallSets
  <2>2. /\ Cardinality(s \ {First(s)}) = Cardinality(s) - 1
        /\ Cardinality(s) \in Nat /\ Cardinality(s) <= n + 1
    BY <1>1, <2>1, FS_RemoveElement, FS_CardinalityType DEF SmallSets
  <2>. QED
    BY <2>1, <2>2 DEF SmallSets
<1>2. ASSUME NEW t \in SmallSets(S, n)
      PROVE  t \in SmallSets(S, n + 1) /\ h[t] = g[t]
  <2>1. t \in SmallSets(S, n + 1)
    BY FS_Subset, FS_CardinalityType DEF SmallSets
  <2>2. g[t] = IF t = {} THEN 0 ELSE w[First(t)] + g[t \ {First(t)}]
    BY DEF IsSmallSum
  <2>. QED
    BY <2>1, <2>2
<1>3. ASSUME NEW s \in SmallSets(S, n + 1)
      PROVE  h[s] = IF s = {} THEN 0 ELSE w[First(s)] + h[s \ {First(s)}]
  <2>1. CASE s = {}
    BY <2>1
  <2>2. CASE s # {}
    <3>1. h[s \ {First(s)}] = g[s \ {First(s)}]
      BY <1>1, <1>2, <2>2
    <3>2. h[s] = w[First(s)] + g[s \ {First(s)}]
      BY <2>2
    <3>. HIDE DEF h
    <3>. QED
      BY <2>2, <3>1, <3>2
  <2>. QED
    BY <2>1, <2>2
<1>4. h = [s \in SmallSets(S, n + 1) |-> h[s]]
  OBVIOUS
<1>5. IsSmallSum(h, w, S, n + 1)
  <2>. HIDE DEF h
  <2>. QED
    BY <1>3, <1>4 DEF IsSmallSum
<1>. QED
  BY <1>5

LEMMA SumExists ==
    ASSUME NEW S, IsFiniteSet(S), NEW w
    PROVE  \E g : IsSum(g, w, S)
<1>. DEFINE Bad == {n \in Nat : ~ \E g : IsSmallSum(g, w, S, n)}
<1>1. Bad = {}
  <2>. SUFFICES ASSUME Bad # {} PROVE FALSE
    OBVIOUS
  <2>1. PICK m \in Bad : \A n \in Bad : m <= n
    BY LeastNat
  <2>2. CASE m = 0
    <3>. DEFINE g == [s \in SmallSets(S, 0) |-> 0]
    <3>1. \A s \in SmallSets(S, 0) : s = {}
      BY FS_Subset, FS_EmptySet, FS_CardinalityType DEF SmallSets
    <3>2. IsSmallSum(g, w, S, 0)
      BY <3>1 DEF IsSmallSum
    <3>. QED
      BY <2>2, <3>2
  <2>3. CASE m # 0
    <3>1. m - 1 \in Nat /\ m - 1 \notin Bad /\ (m - 1) + 1 = m
      BY <2>1, <2>3
    <3>2. PICK g : IsSmallSum(g, w, S, m - 1)
      BY <3>1
    <3>3. \E h : IsSmallSum(h, w, S, (m - 1) + 1)
      BY <3>1, <3>2, SmallSumStep
    <3>. QED
      BY <3>1, <3>3
  <2>. QED
    BY <2>2, <2>3
<1>2. Cardinality(S) \in Nat /\ SmallSets(S, Cardinality(S)) = SUBSET S
  BY FS_CardinalityType, FS_Subset DEF SmallSets
<1>3. PICK g : IsSmallSum(g, w, S, Cardinality(S))
  BY <1>1, <1>2
<1>. QED
  BY <1>2, <1>3 DEF IsSmallSum, IsSum

\* A sum does not depend on the set of which it is one over the subsets.
LEMMA SumUnique ==
    ASSUME NEW S, NEW T, IsFiniteSet(S), IsFiniteSet(T), NEW w, NEW v, NEW g, NEW h,
           IsSum(g, w, S), IsSum(h, v, T),
           NEW U \in SUBSET (S \cap T), \A x \in U : w[x] = v[x]
    PROVE  g[U] = h[U]
<1>. DEFINE Bad == {s \in SUBSET U : g[s] # h[s]}
<1>. SUFFICES ASSUME Bad # {} PROVE FALSE
  OBVIOUS
<1>1. IsFiniteSet(U)
  <2>1. U \in SUBSET S
    OBVIOUS
  <2>. QED
    BY <2>1, FS_Subset
<1>2. \A s \in Bad : IsFiniteSet(s)
  BY <1>1, FS_Subset
<1>3. PICK s \in Bad : \A t \in Bad : Cardinality(s) <= Cardinality(t)
  BY <1>2, LeastSet
<1>4. s \in SUBSET S /\ s \in SUBSET T /\ g[s] # h[s] /\ IsFiniteSet(s)
  BY <1>2
<1>5. CASE s = {}
  BY <1>4, <1>5, SumStep
<1>6. CASE s # {}
  <2>1. First(s) \in s
    BY <1>6, FirstIn
  <2>2. Cardinality(s \ {First(s)}) = Cardinality(s) - 1 /\ Cardinality(s) \in Nat
    BY <1>4, <2>1, FS_RemoveElement, FS_CardinalityType
  <2>3. s \ {First(s)} \in SUBSET U /\ s \ {First(s)} \notin Bad
    BY <1>3, <2>2
  <2>4. g[s \ {First(s)}] = h[s \ {First(s)}]
    BY <2>3
  <2>5. w[First(s)] = v[First(s)]
    BY <2>1
  <2>6. g[s] = w[First(s)] + g[s \ {First(s)}]
    BY <1>4, <1>6, SumStep
  <2>7. h[s] = v[First(s)] + h[s \ {First(s)}]
    BY <1>4, <1>6, SumStep
  <2>. QED
    BY <1>4, <2>4, <2>5, <2>6, <2>7
<1>. QED
  BY <1>5, <1>6

\* A sum is a natural number, and any element may be taken out of it first.
SumTakes(g, w, s) ==
    g[s] \in Nat /\ \A x \in s : g[s] = w[x] + g[s \ {x}]

LEMMA SumTakesAny ==
    ASSUME NEW S, IsFiniteSet(S), NEW w, \A x \in S : w[x] \in Nat,
           NEW g, IsSum(g, w, S), NEW U \in SUBSET S
    PROVE  SumTakes(g, w, U)
<1>. DEFINE Bad == {s \in SUBSET S : ~SumTakes(g, w, s)}
<1>. SUFFICES ASSUME Bad # {} PROVE FALSE
  OBVIOUS
<1>1. \A s \in SUBSET S : IsFiniteSet(s)
  BY FS_Subset
<1>2. PICK s \in Bad : \A t \in Bad : Cardinality(s) <= Cardinality(t)
  BY <1>1, LeastSet
<1>3. s \in SUBSET S /\ ~SumTakes(g, w, s)
  OBVIOUS
<1>4. ASSUME NEW x \in s
      PROVE  s \ {x} \in SUBSET S /\ SumTakes(g, w, s \ {x})
  <2>1. Cardinality(s \ {x}) = Cardinality(s) - 1 /\ Cardinality(s) \in Nat
    BY <1>1, <1>3, FS_RemoveElement, FS_CardinalityType
  <2>2. s \ {x} \in SUBSET S /\ s \ {x} \notin Bad
    BY <1>2, <1>3, <2>1
  <2>. QED
    BY <2>2
<1>5. CASE s = {}
  BY <1>3, <1>5, SumStep DEF SumTakes
<1>6. CASE s # {}
  <2>. DEFINE c == First(s)
  <2>1. c \in s
    BY <1>6, FirstIn
  <2>. HIDE DEF c
  <2>2. g[s] = w[c] + g[s \ {c}]
    BY <1>3, <1>6, SumStep DEF c
  <2>3. g[s] \in Nat
    <3>1. w[c] \in Nat /\ g[s \ {c}] \in Nat
      BY <1>3, <1>4, <2>1 DEF SumTakes
    <3>. QED
      BY <2>2, <3>1
  <2>4. ASSUME NEW x \in s, x # c
        PROVE  g[s] = w[x] + g[s \ {x}]
    <3>1. g[s \ {c}] = w[x] + g[(s \ {c}) \ {x}]
      BY <1>4, <2>1, <2>4 DEF SumTakes
    <3>2. g[s \ {x}] = w[c] + g[(s \ {x}) \ {c}]
      BY <1>4, <2>1, <2>4 DEF SumTakes
    <3>3. (s \ {c}) \ {x} = (s \ {x}) \ {c}
      OBVIOUS
    <3>4. w[x] \in Nat /\ w[c] \in Nat
      BY <1>3, <2>1
    <3>5. SumTakes(g, w, (s \ {c}) \ {x}) \/ g[(s \ {c}) \ {x}] \in Nat
      <4>1. (s \ {c}) \ {x} \in SUBSET S /\ IsFiniteSet(s \ {c}) /\ IsFiniteSet(s)
        BY <1>1, <1>3
      <4>2. x \in s \ {c}
        BY <2>4
      <4>3. /\ Cardinality((s \ {c}) \ {x}) = Cardinality(s \ {c}) - 1
            /\ Cardinality(s \ {c}) = Cardinality(s) - 1 /\ Cardinality(s) \in Nat
        BY <2>1, <4>1, <4>2, FS_RemoveElement, FS_CardinalityType
      <4>4. (s \ {c}) \ {x} \notin Bad
        BY <1>2, <4>3
      <4>. QED
        BY <4>1, <4>4
    <3>6. g[(s \ {c}) \ {x}] \in Nat
      BY <3>5 DEF SumTakes
    <3>. QED
      BY <2>2, <3>1, <3>2, <3>3, <3>4, <3>6
  <2>. QED
    BY <1>3, <2>2, <2>3, <2>4 DEF SumTakes
<1>. QED
  BY <1>5, <1>6

\* The sum of the weights w over S.
Sum(w, S) == (CHOOSE g : IsSum(g, w, S))[S]

LEMMA SumIs ==
    ASSUME NEW S, IsFiniteSet(S), NEW w
    PROVE  IsSum(CHOOSE g : IsSum(g, w, S), w, S)
<1>1. \E g : IsSum(g, w, S)
  BY SumExists
<1>. QED
  BY <1>1

LEMMA SumEmpty == \A w : Sum(w, {}) = 0
<1>. SUFFICES ASSUME NEW w PROVE Sum(w, {}) = 0
  OBVIOUS
<1>. DEFINE g == CHOOSE g : IsSum(g, w, {})
<1>1. IsSum(g, w, {})
  BY SumIs, FS_EmptySet
<1>. HIDE DEF g
<1>2. g[{}] = 0
  BY <1>1, SumStep
<1>. QED
  BY <1>2 DEF g, Sum

\* One more element adds its weight; weights outside of the set do not count.
LEMMA SumAdd ==
    ASSUME NEW S, IsFiniteSet(S), NEW x, x \notin S, NEW T, T = S \cup {x},
           NEW w, NEW v, \A y \in S : w[y] = v[y], \A y \in T : v[y] \in Nat
    PROVE  Sum(v, T) = Sum(w, S) + v[x]
<1>. DEFINE g == CHOOSE g : IsSum(g, w, S)
            h == CHOOSE h : IsSum(h, v, T)
<1>1. IsFiniteSet(T)
  BY FS_AddElement
<1>2. IsSum(g, w, S) /\ IsSum(h, v, T)
  BY <1>1, SumIs
<1>. HIDE DEF g, h
<1>3. g[S] = h[S]
  <2>1. S \in SUBSET (S \cap T)
    OBVIOUS
  <2>. QED
    BY <1>1, <1>2, <2>1, SumUnique
<1>4. h[T] = v[x] + h[T \ {x}]
  <2>1. \A y \in T : v[y] \in Nat
    OBVIOUS
  <2>2. x \in T /\ T \in SUBSET T
    OBVIOUS
  <2>3. SumTakes(h, v, T)
    BY <1>1, <1>2, <2>1, <2>2, SumTakesAny
  <2>. QED
    BY <2>2, <2>3 DEF SumTakes
<1>5. T \ {x} = S
  OBVIOUS
<1>6. g[S] \in Nat
  <2>1. \A y \in S : w[y] \in Nat
    OBVIOUS
  <2>. QED
    BY <1>2, <2>1, SumTakesAny DEF SumTakes
<1>7. v[x] \in Nat
  OBVIOUS
<1>8. h[T] = g[S] + v[x]
  <2>1. h[T] = v[x] + h[S]
    BY <1>4, <1>5
  <2>2. h[T] = v[x] + g[S]
    BY <1>3, <2>1
  <2>. QED
    BY <1>6, <1>7, <2>2
<1>. QED
  BY <1>8 DEF Sum, g, h

-----------------------------------------------------------------------------
\* The lock's queue holds each drain inside the lock section once.
LockQueue ==
    /\ \A i, j \in 1..Len(lockq) : lockq[i] = lockq[j] => i = j
    /\ \A d \in Drains :
          pc[d] \in InDrain <=> \E i \in 1..Len(lockq) : lockq[i] = d
    /\ \A i \in 1..Len(lockq) : i > 1 => pc[lockq[i]] = "queued"

\* A live frame is pending, or is held by a drain inside the lock section.
Located ==
    \A f \in Frames : fate[f] = "live" =>
        f \in pending \/ \E d \in Drains : pc[d] \in InDrain /\ f \in items[d]

\* The live frames the owner holds are those of the files it has left.
Owned ==
    \A d \in Drains : pc[d] \in {"sending", "backoff"} =>
        \A f \in items[d] : fate[f] = "live" => Path(f) \in todo

PendingNewer == \A d \in Drains : \A f \in pending : f > horizon[d]

QueueOrder ==
    \A i, j \in 1..Len(lockq) : i < j =>
        \A f \in items[lockq[j]] : f > horizon[lockq[i]]

HorizonPast ==
    \A d \in Drains : /\ horizon[d] <= Len(frames)
                      /\ \A f \in items[d] : f <= horizon[d]

IInv == /\ TypeOK /\ LockQueue /\ Located /\ Owned /\ PendingNewer
        /\ QueueOrder /\ HorizonPast /\ FlushBarrier

-----------------------------------------------------------------------------
(***************************************************************************)
(* Types                                                                   *)
(***************************************************************************)
USE DEF Drains, Frames, InDrain

\* Recording a fate keeps the sequence of fates one.
LEMMA SettledType ==
    ASSUME TypeOK, NEW F, NEW y \in Fates
    PROVE  /\ Settled(F, y) \in Seq(Fates)
           /\ Len(Settled(F, y)) = Len(frames)
           /\ \A f \in Frames : Settled(F, y)[f] = IF f \in F THEN y ELSE fate[f]
<1>1. DOMAIN fate = 1..Len(frames) /\ Frames = 1..Len(frames)
  BY DEF TypeOK
<1>2. \A f \in 1..Len(frames) : fate[f] \in Fates
  BY <1>1 DEF TypeOK
<1>3. Settled(F, y) = [f \in 1..Len(frames) |-> IF f \in F THEN y ELSE fate[f]]
  BY <1>1 DEF Settled
<1>4. Len(frames) \in Nat
  BY DEF TypeOK
<1>. QED
  BY <1>1, <1>2, <1>3, <1>4

\* A write adds a set of frames to the store.
LEMMA WriteType ==
    ASSUME TypeOK, NEW p \in Paths, NEW F \in SUBSET Frames, Write(p, F)
    PROVE  store' \in [Paths -> Seq(SUBSET Frames)]
<1>1. store \in [Paths -> Seq(SUBSET Frames)]
  BY DEF TypeOK
<1>2. CASE F = {}
  BY <1>1, <1>2 DEF Write
<1>3. CASE F # {}
  <2>1. store' = [store EXCEPT ![p] = Append(@, F)]
    BY <1>3 DEF Write
  <2>2. Append(store[p], F) \in Seq(SUBSET Frames)
    BY <1>1
  <2>. QED
    BY <1>1, <2>1, <2>2
<1>. QED
  BY <1>2, <1>3

LEMMA TypeInit == Init => TypeOK
  BY LimitsAssumption DEF Init, TypeOK

LEMMA TypeEnqueue ==
    ASSUME TypeOK, NEW k \in FrameKinds, Enqueue(k)
    PROVE  TypeOK'
<1>1. k \in [path : Paths, entries : Nat, bytes : Nat]
  BY PathsAssumption
<1>2. /\ frames' \in Seq([path : Paths, entries : Nat, bytes : Nat])
      /\ Len(frames') = Len(frames) + 1
      /\ fate' \in Seq(Fates) /\ Len(fate') = Len(fate) + 1
  <2>1. frames' = Append(frames, k) /\ fate' = Append(fate, "live")
    BY DEF Enqueue
  <2>2. "live" \in Fates
    BY DEF Fates
  <2>. QED
    BY <1>1, <2>1, <2>2, AppendProperties DEF TypeOK
<1>3. Frames \subseteq Frames' /\ Len(frames) + 1 \in Frames'
  BY <1>2 DEF TypeOK
<1>4. pc' \in [Drains -> {"idle", "spawned", "reporting"} \cup InDrain]
  BY DEF Enqueue, TypeOK
<1>5. pendingEntries' \in Nat /\ pendingBytes' \in Nat
  <2>1. pendingEntries \in Nat /\ pendingBytes \in Nat
    BY DEF TypeOK
  <2>2. k.entries \in Nat /\ k.bytes \in Nat
    BY <1>1
  <2>3. /\ pendingEntries' = pendingEntries + k.entries
        /\ pendingBytes' = pendingBytes + k.bytes
    BY DEF Enqueue
  <2>. QED
    BY <2>1, <2>2, <2>3
<1>6. pending' \subseteq Frames'
  BY <1>3 DEF Enqueue, TypeOK
<1>7. /\ items' \in [Drains -> SUBSET Frames']
      /\ errors' \in [Drains -> SUBSET SUBSET Frames']
      /\ late' \subseteq SUBSET Frames' /\ reported' \subseteq Frames'
  BY <1>3 DEF Enqueue, TypeOK, adapter
<1>8. store' \in [Paths -> Seq(SUBSET Frames')]
  <2>1. Seq(SUBSET Frames) \subseteq Seq(SUBSET Frames')
    BY <1>3
  <2>. QED
    BY <2>1 DEF Enqueue, TypeOK, adapter
<1>9. /\ lockq' \in Seq(Drains) /\ todo' \subseteq Mapped
      /\ attempt' \in 1..MaxAttempts /\ horizon' \in [Drains -> Nat]
  BY DEF Enqueue, TypeOK, lock
<1>10. Len(fate') = Len(frames')
  BY <1>2 DEF TypeOK
<1>. QED
  BY <1>2, <1>4, <1>5, <1>6, <1>7, <1>8, <1>9, <1>10 DEF TypeOK

LEMMA TypeDrain ==
    ASSUME TypeOK, NEW d \in Drains, Drain(d)
    PROVE  TypeOK'
<1>1. lockq' \in Seq(Drains)
  BY AppendProperties DEF Drain, TypeOK
<1>2. items' \in [Drains -> SUBSET Frames']
  BY DEF Drain, TypeOK
<1>3. horizon' \in [Drains -> Nat]
  BY DEF Drain, TypeOK
<1>4. pc' \in [Drains -> {"idle", "spawned", "reporting"} \cup InDrain]
  BY DEF Drain, TypeOK
<1>. QED
  BY <1>1, <1>2, <1>3, <1>4 DEF Drain, TypeOK, adapter

LEMMA TypeReturnEmpty ==
    ASSUME TypeOK, NEW d \in Drains, ReturnEmpty(d)
    PROVE  TypeOK'
<1>1. lockq' \in Seq(Drains)
  BY HeadTailProperties DEF ReturnEmpty, Owns, TypeOK
<1>. QED
  BY <1>1 DEF ReturnEmpty, TypeOK, buffer, adapter

LEMMA TypeCoalesce ==
    ASSUME TypeOK, NEW d \in Drains, Coalesce(d)
    PROVE  TypeOK'
<1>1. fate' \in Seq(Fates) /\ Len(fate') = Len(frames)
  BY SettledType DEF Coalesce, Fates
<1>2. todo' \subseteq Mapped
  BY DEF Coalesce, Appendable
<1>3. attempt' \in 1..MaxAttempts
  BY LimitsAssumption DEF Coalesce
<1>4. pc' \in [Drains -> {"idle", "spawned", "reporting"} \cup InDrain]
  <2>1. "sending" \in InDrain
    BY DEF InDrain
  <2>2. pc \in [Drains -> {"idle", "spawned", "reporting"} \cup InDrain]
    BY DEF TypeOK
  <2>3. pc' = [pc EXCEPT ![d] = "sending"]
    BY DEF Coalesce
  <2>. QED
    BY <2>1, <2>2, <2>3
<1>5. UNCHANGED <<pending, pendingEntries, pendingBytes, items, errors, lockq,
                  store, late, frames, horizon, reported>>
  BY DEF Coalesce, buffer, adapter
<1>. QED
  BY <1>1, <1>2, <1>3, <1>4, <1>5 DEF TypeOK

\* What an append writes and what is reported are frames.
LEMMA BatchType ==
    ASSUME TypeOK, NEW d \in Drains, NEW p
    PROVE  /\ Batch(d, p) \in SUBSET Frames
           /\ NonEmpty(Batch(d, p)) \in SUBSET Frames
           /\ Beginnings(NonEmpty(Batch(d, p))) \subseteq SUBSET Frames
  BY DEF Batch, Bucket, NonEmpty, Beginnings, TypeOK

LEMMA TypeAppendOk ==
    ASSUME TypeOK, NEW d \in Drains, NEW p \in Mapped, AppendOk(d, p)
    PROVE  TypeOK'
<1>1. p \in Paths
  BY PathsAssumption
<1>2. store' \in [Paths -> Seq(SUBSET Frames)]
  BY <1>1, BatchType, WriteType DEF AppendOk
<1>3. fate' \in Seq(Fates) /\ Len(fate') = Len(frames)
  BY SettledType DEF AppendOk, Fates
<1>4. todo' \subseteq Mapped /\ attempt' \in 1..MaxAttempts
  BY LimitsAssumption DEF AppendOk, NextPath, TypeOK
<1>. QED
  BY <1>2, <1>3, <1>4 DEF AppendOk, TypeOK, buffer

LEMMA TypeAppendRetry ==
    ASSUME TypeOK, NEW d \in Drains, NEW p \in Mapped, AppendRetry(d, p)
    PROVE  TypeOK'
<1>1. p \in Paths
  BY PathsAssumption
<1>2. store' \in [Paths -> Seq(SUBSET Frames)]
  BY <1>1, BatchType, WriteType DEF AppendRetry
<1>3. attempt' \in 1..MaxAttempts
  BY LimitsAssumption DEF AppendRetry, TypeOK
<1>. QED
  BY <1>2, <1>3 DEF AppendRetry, TypeOK, buffer

LEMMA TypeGiveUp ==
    ASSUME TypeOK, NEW d \in Drains, NEW p \in Mapped,
           NEW y \in Fates, GiveUp(d, p, y)
    PROVE  /\ pending' \subseteq Frames'
           /\ pendingEntries' \in Nat /\ pendingBytes' \in Nat
           /\ pc' \in [Drains -> {"idle", "spawned", "reporting"} \cup InDrain]
           /\ items' \in [Drains -> SUBSET Frames']
           /\ errors' \in [Drains -> SUBSET SUBSET Frames']
           /\ lockq' \in Seq(Drains) /\ todo' \subseteq Mapped
           /\ attempt' \in 1..MaxAttempts
           /\ frames' = frames
           /\ fate' \in Seq(Fates) /\ Len(fate') = Len(frames')
           /\ horizon' \in [Drains -> Nat] /\ reported' \subseteq Frames'
<1>1. fate' \in Seq(Fates) /\ Len(fate') = Len(frames)
  BY SettledType DEF GiveUp
<1>2. errors' \in [Drains -> SUBSET SUBSET Frames]
  <2>1. errors \in [Drains -> SUBSET SUBSET Frames]
    BY DEF TypeOK
  <2>2. Batch(d, p) \subseteq Frames
    BY BatchType
  <2>3. errors' = [errors EXCEPT ![d] = @ \cup {Batch(d, p)}]
    BY DEF GiveUp
  <2>. QED
    BY <2>1, <2>2, <2>3
<1>3. todo' \subseteq Mapped /\ attempt' \in 1..MaxAttempts
  BY LimitsAssumption DEF GiveUp, NextPath, TypeOK
<1>. QED
  BY <1>1, <1>2, <1>3 DEF GiveUp, TypeOK, buffer

LEMMA TypeAppendFails ==
    ASSUME TypeOK, NEW d \in Drains, NEW p \in Mapped, AppendFails(d, p)
    PROVE  TypeOK'
<1>1. p \in Paths
  BY PathsAssumption
<1>2. store' \in [Paths -> Seq(SUBSET Frames)]
  BY <1>1, BatchType, WriteType DEF AppendFails
<1>3. GiveUp(d, p, "failed") /\ "failed" \in Fates /\ late' = late
  BY DEF AppendFails, Fates
<1>4. frames' = frames
  BY <1>3, TypeGiveUp
<1>. QED
  BY <1>2, <1>3, <1>4, TypeGiveUp DEF TypeOK

LEMMA TypeAppendTimesOut ==
    ASSUME TypeOK, NEW d \in Drains, NEW p \in Mapped, AppendTimesOut(d, p)
    PROVE  TypeOK'
<1>1. GiveUp(d, p, "timedout") /\ "timedout" \in Fates /\ store' = store
  BY DEF AppendTimesOut, Fates
<1>2. late' \subseteq SUBSET Frames
  <2>1. late \subseteq SUBSET Frames
    BY DEF TypeOK
  <2>2. NonEmpty(Batch(d, p)) \subseteq Frames
    BY BatchType
  <2>3. late' = late \cup {NonEmpty(Batch(d, p))}
    BY DEF AppendTimesOut
  <2>. QED
    BY <2>1, <2>2, <2>3
<1>3. frames' = frames
  BY <1>1, TypeGiveUp
<1>. QED
  BY <1>1, <1>2, <1>3, TypeGiveUp DEF TypeOK

LEMMA TypeUnlock ==
    ASSUME TypeOK, NEW d \in Drains, Unlock(d)
    PROVE  TypeOK'
<1>1. lockq' \in Seq(Drains)
  BY HeadTailProperties DEF Unlock, Owns, TypeOK
<1>. QED
  BY <1>1 DEF Unlock, TypeOK, buffer, adapter

LEMMA TypeReport ==
    ASSUME TypeOK, NEW d \in Drains, NEW F \in errors[d], Report(d, F)
    PROVE  TypeOK'
<1>1. F \subseteq Frames
  BY DEF TypeOK
<1>2. errors' \in [Drains -> SUBSET SUBSET Frames]
  BY DEF Report, TypeOK
<1>. QED
  BY <1>1, <1>2 DEF Report, TypeOK, buffer, lock, adapter

LEMMA TypeLand ==
    ASSUME TypeOK, NEW F \in late, Land(F)
    PROVE  TypeOK'
<1>1. PICK G \in Beginnings(F), p \in Paths : Write(p, G)
  BY DEF Land
<1>2. G \in SUBSET Frames
  BY DEF Beginnings, TypeOK
<1>3. store' \in [Paths -> Seq(SUBSET Frames)]
  BY <1>1, <1>2, WriteType
<1>. QED
  BY <1>3 DEF Land, TypeOK, buffer, lock

\* The event is one of the disjuncts of Next.
LEMMA TypeNext == TypeOK /\ [Next]_vars => TypeOK'
<1>. SUFFICES ASSUME TypeOK, [Next]_vars PROVE TypeOK'
  OBVIOUS
<1>1. ASSUME NEW k \in FrameKinds, Enqueue(k) PROVE TypeOK'
  BY <1>1, TypeEnqueue
<1>2. ASSUME NEW c \in Callers, Flush(c) PROVE TypeOK'
  BY <1>2, TypeDrain DEF Flush
<1>3. ASSUME NEW e \in EagerTasks, StartEager(e) PROVE TypeOK'
  BY <1>3, TypeDrain DEF StartEager
<1>4. ASSUME NEW d \in Drains, ReturnEmpty(d) \/ Coalesce(d) PROVE TypeOK'
  BY <1>4, TypeReturnEmpty, TypeCoalesce
<1>5. ASSUME NEW d \in Drains, AppendReturns(d) PROVE TypeOK'
  BY <1>5, TypeAppendOk, TypeAppendRetry, TypeAppendFails, TypeAppendTimesOut
     DEF AppendReturns
<1>6. ASSUME NEW d \in Drains, BackoffDone(d) PROVE TypeOK'
  BY <1>6 DEF BackoffDone, TypeOK, buffer, lock, adapter
<1>7. ASSUME NEW d \in Drains, Unlock(d) \/ Reports(d) PROVE TypeOK'
  BY <1>7, TypeUnlock, TypeReport DEF Reports
<1>8. ASSUME NEW F \in late, Land(F) PROVE TypeOK'
  BY <1>8, TypeLand
<1>9. CASE UNCHANGED vars
  BY <1>9 DEF vars, TypeOK, buffer, lock, adapter
<1>. QED
  BY <1>1, <1>2, <1>3, <1>4, <1>5, <1>6, <1>7, <1>8, <1>9 DEF Next

(***************************************************************************)
(* Every variable keeps its type.                                          *)
(***************************************************************************)
THEOREM TypeCorrect == Spec => []TypeOK
  BY TypeInit, TypeNext, PTL DEF Spec

-----------------------------------------------------------------------------
(***************************************************************************)
(* The flush barrier                                                       *)
(***************************************************************************)
LEMMA IInvInit == Init => IInv
<1>. SUFFICES ASSUME Init PROVE IInv
  OBVIOUS
<1>1. TypeOK
  BY TypeInit
<1>2. LockQueue /\ Located /\ Owned /\ PendingNewer /\ QueueOrder /\ HorizonPast
  BY DEF Init, LockQueue, Located, Owned, PendingNewer, QueueOrder, HorizonPast
<1>3. FlushBarrier
  BY DEF Init, FlushBarrier, With
<1>. QED
  BY <1>1, <1>2, <1>3 DEF IInv

\* A new frame is pending, and newer than every horizon.
LEMMA IInvEnqueue ==
    ASSUME IInv, NEW k \in FrameKinds, Enqueue(k)
    PROVE  IInv'
<1>. USE DEF IInv
<1>. DEFINE n == Len(frames)
<1>1. TypeOK'
  BY TypeEnqueue
<1>2. n \in Nat /\ Frames = 1..n /\ Frames' = 1..(n + 1)
  <2>1. Len(frames') = n + 1 /\ frames' \in Seq([path : Paths, entries : Nat, bytes : Nat])
    BY <1>1, PathsAssumption, AppendProperties DEF Enqueue, TypeOK
  <2>. QED
    BY <1>1, <2>1 DEF TypeOK
<1>3. /\ \A f \in 1..n : fate'[f] = fate[f] /\ frames'[f] = frames[f]
      /\ pending' = pending \cup {n + 1}
  <2>1. Len(fate) = n
    BY DEF TypeOK
  <2>. QED
    BY <2>1 DEF Enqueue, TypeOK
<1>4. /\ pc' \in [Drains -> {"idle", "spawned", "reporting"} \cup InDrain]
      /\ \A d \in Drains : pc'[d] = pc[d] \/ (pc[d] = "idle" /\ pc'[d] = "spawned")
  BY <1>1 DEF Enqueue, TypeOK
<1>5. UNCHANGED <<items, lockq, todo, horizon>>
  BY DEF Enqueue, lock
<1>6. LockQueue'
  <2>1. \A d \in Drains : /\ pc'[d] \in InDrain <=> pc[d] \in InDrain
                          /\ pc'[d] = "queued" <=> pc[d] = "queued"
    BY <1>4
  <2>2. \A i \in 1..Len(lockq) : lockq[i] \in Drains
    BY DEF TypeOK
  <2>3. \A d \in Drains : pc'[d] \in InDrain <=> \E i \in 1..Len(lockq) : lockq[i] = d
    BY <2>1 DEF LockQueue
  <2>4. \A i \in 1..Len(lockq) : i > 1 => pc'[lockq[i]] = "queued"
    BY <2>1, <2>2 DEF LockQueue
  <2>5. \A i, j \in 1..Len(lockq) : lockq[i] = lockq[j] => i = j
    BY DEF LockQueue
  <2>. QED
    BY <1>5, <2>3, <2>4, <2>5 DEF LockQueue
<1>7. Located'
  <2>. SUFFICES ASSUME NEW f \in Frames', fate'[f] = "live", f \notin pending'
                PROVE  \E d \in Drains : pc'[d] \in InDrain /\ f \in items'[d]
    BY DEF Located
  <2>1. f \in 1..n /\ f \notin pending /\ fate[f] = "live"
    BY <1>2, <1>3
  <2>2. PICK d \in Drains : pc[d] \in InDrain /\ f \in items[d]
    BY <1>2, <2>1 DEF Located
  <2>. QED
    BY <1>4, <1>5, <2>2
<1>11. Owned'
  <2>. SUFFICES ASSUME NEW d \in Drains, pc[d] \in {"sending", "backoff"},
                       NEW f \in items[d], fate'[f] = "live"
                PROVE  Path(f)' \in todo
    BY <1>4, <1>5 DEF Owned
  <2>1. f \in 1..n
    BY <1>2 DEF TypeOK
  <2>. QED
    BY <1>3, <2>1 DEF Owned, Path
<1>8. PendingNewer' /\ HorizonPast'
  <2>1. \A d \in Drains : horizon[d] \in Nat /\ horizon[d] <= n
    BY DEF TypeOK, HorizonPast
  <2>2. PendingNewer'
    BY <1>1, <1>3, <1>5, <2>1 DEF PendingNewer
  <2>3. HorizonPast'
    BY <1>1, <1>2, <1>5, <2>1 DEF HorizonPast
  <2>. QED
    BY <2>2, <2>3
<1>9. QueueOrder'
  BY <1>5 DEF QueueOrder
<1>10. FlushBarrier'
  <2>. SUFFICES ASSUME NEW d \in Drains, pc'[d] \notin InDrain,
                       NEW f \in Frames', fate'[f] = "live"
                PROVE  f > horizon'[d]
    BY DEF FlushBarrier, With
  <2>1. CASE f = n + 1
    BY <1>2, <1>5, <2>1 DEF HorizonPast, TypeOK
  <2>2. CASE f \in 1..n
    BY <1>2, <1>3, <1>4, <1>5, <2>2 DEF FlushBarrier, With
  <2>. QED
    BY <1>2, <2>1, <2>2
<1>. QED
  BY <1>1, <1>6, <1>7, <1>8, <1>9, <1>10, <1>11

(***************************************************************************)
(* A drain that detaches takes all that is pending, which is newer than    *)
(* the horizons of the drains it queues up behind.                         *)
(***************************************************************************)
LEMMA IInvDrain ==
    ASSUME IInv, NEW d \in Drains, pc[d] \notin InDrain, Drain(d)
    PROVE  IInv'
<1>. USE DEF IInv
<1>. DEFINE n == Len(lockq)
<1>1. TypeOK'
  BY TypeDrain
<1>2. /\ n \in Nat /\ Len(lockq') = n + 1
      /\ \A i \in 1..n : lockq'[i] = lockq[i] /\ lockq[i] \in Drains
      /\ lockq'[n + 1] = d
  BY AppendProperties DEF Drain, TypeOK
<1>3. \A i \in 1..n : lockq[i] # d
  BY DEF LockQueue, TypeOK
<1>4. /\ pc'[d] = "queued" /\ items'[d] = pending /\ horizon'[d] = Len(frames)
      /\ \A e \in Drains \ {d} : /\ pc'[e] = pc[e] /\ items'[e] = items[e]
                                 /\ horizon'[e] = horizon[e]
      /\ pending' = {} /\ UNCHANGED <<frames, fate, todo>>
  BY DEF Drain, TypeOK
<1>5. LockQueue'
  <2>1. \A i, j \in 1..Len(lockq') : lockq'[i] = lockq'[j] => i = j
    BY <1>2, <1>3 DEF LockQueue
  <2>2. \A e \in Drains : pc'[e] \in InDrain <=> \E i \in 1..Len(lockq') : lockq'[i] = e
    BY <1>2, <1>3, <1>4 DEF LockQueue
  <2>3. \A i \in 1..Len(lockq') : i > 1 => pc'[lockq'[i]] = "queued"
    BY <1>2, <1>3, <1>4 DEF LockQueue
  <2>. QED
    BY <2>1, <2>2, <2>3 DEF LockQueue
<1>6. Located'
  <2>. SUFFICES ASSUME NEW f \in Frames, fate[f] = "live"
                PROVE  \E e \in Drains : pc'[e] \in InDrain /\ f \in items'[e]
    BY <1>4 DEF Located, Path
  <2>1. CASE f \in pending
    BY <1>4, <2>1
  <2>2. CASE f \notin pending
    <3>1. PICK e \in Drains : pc[e] \in InDrain /\ f \in items[e]
      BY <2>2 DEF Located
    <3>. QED
      BY <1>4, <3>1
  <2>. QED
    BY <2>1, <2>2
<1>10. Owned'
  <2>. SUFFICES ASSUME NEW e \in Drains, pc'[e] \in {"sending", "backoff"},
                       NEW f \in items'[e], fate[f] = "live"
                PROVE  Path(f) \in todo
    BY <1>4 DEF Owned, Path
  <2>1. e # d
    BY <1>4
  <2>. QED
    BY <1>4, <2>1 DEF Owned
<1>7. PendingNewer' /\ HorizonPast'
  <2>1. \A f \in pending : f <= Len(frames)
    BY DEF TypeOK
  <2>2. Len(frames) \in Nat
    BY DEF TypeOK
  <2>. QED
    BY <1>4, <2>1, <2>2 DEF PendingNewer, HorizonPast
<1>8. QueueOrder'
  <2>. SUFFICES ASSUME NEW i \in 1..Len(lockq'), NEW j \in 1..Len(lockq'), i < j,
                       NEW f \in items'[lockq'[j]]
                PROVE  f > horizon'[lockq'[i]]
    BY DEF QueueOrder
  <2>1. i \in 1..n /\ lockq'[i] = lockq[i] /\ horizon'[lockq'[i]] = horizon[lockq[i]]
    BY <1>2, <1>3, <1>4
  <2>2. CASE j = n + 1
    BY <1>2, <1>4, <2>1, <2>2 DEF PendingNewer
  <2>3. CASE j \in 1..n
    BY <1>2, <1>3, <1>4, <2>1, <2>3 DEF QueueOrder
  <2>. QED
    BY <1>2, <2>2, <2>3
<1>9. FlushBarrier'
  BY <1>4 DEF FlushBarrier, With
<1>. QED
  BY <1>1, <1>5, <1>6, <1>7, <1>8, <1>9, <1>10

(***************************************************************************)
(* A drain leaves the lock once none of its frames is live.                *)
(***************************************************************************)
LEMMA IInvLeave ==
    ASSUME IInv, TypeOK', NEW d \in Drains, lockq # <<>>, Head(lockq) = d,
           \A f \in items[d] : fate[f] # "live",
           lockq' = Tail(lockq),
           items'[d] \subseteq items[d], pc'[d] \notin InDrain,
           \A e \in Drains \ {d} : pc'[e] = pc[e] /\ items'[e] = items[e],
           UNCHANGED <<pending, todo, frames, fate, horizon>>
    PROVE  IInv'
<1>. USE DEF IInv
<1>. DEFINE n == Len(lockq)
<1>1. /\ n \in Nat \ {0} /\ Len(lockq') = n - 1
      /\ \A i \in 1..(n - 1) : lockq'[i] = lockq[i + 1]
      /\ \A i \in 1..n : lockq[i] \in Drains
      /\ lockq[1] = d
  BY HeadTailProperties DEF TypeOK
<1>2. /\ pc'[d] \notin InDrain
      /\ \A e \in Drains \ {d} : pc'[e] = pc[e] /\ items'[e] = items[e]
  BY DEF TypeOK
<1>3. \A i \in 2..n : lockq[i] # d
  BY <1>1 DEF LockQueue
<1>4. LockQueue'
  <2>1. \A i, j \in 1..Len(lockq') : lockq'[i] = lockq'[j] => i = j
    BY <1>1 DEF LockQueue
  <2>2. ASSUME NEW e \in Drains
        PROVE  pc'[e] \in InDrain <=> \E i \in 1..Len(lockq') : lockq'[i] = e
    <3>1. CASE e = d
      BY <1>1, <1>2, <1>3, <3>1
    <3>2. CASE e # d
      <4>1. pc'[e] \in InDrain <=> \E i \in 1..n : lockq[i] = e
        BY <1>2, <3>2 DEF LockQueue
      <4>2. ASSUME NEW i \in 1..n, lockq[i] = e
            PROVE  i - 1 \in 1..Len(lockq') /\ lockq'[i - 1] = e
        BY <1>1, <3>2, <4>2
      <4>3. ASSUME NEW i \in 1..Len(lockq'), lockq'[i] = e
            PROVE  i + 1 \in 1..n /\ lockq[i + 1] = e
        BY <1>1, <4>3
      <4>. QED
        BY <4>1, <4>2, <4>3
    <3>. QED
      BY <3>1, <3>2
  <2>3. \A i \in 1..Len(lockq') : i > 1 => pc'[lockq'[i]] = "queued"
    BY <1>1, <1>2, <1>3 DEF LockQueue
  <2>. QED
    BY <2>1, <2>2, <2>3 DEF LockQueue
<1>5. Located'
  <2>. SUFFICES ASSUME NEW f \in Frames, fate[f] = "live", f \notin pending
                PROVE  \E e \in Drains : pc'[e] \in InDrain /\ f \in items'[e]
    BY DEF Located, Path
  <2>1. PICK e \in Drains : pc[e] \in InDrain /\ f \in items[e]
    BY DEF Located
  <2>2. e # d
    BY <2>1
  <2>. QED
    BY <1>2, <2>1, <2>2
<1>9. Owned'
  BY <1>2 DEF Owned, Path
<1>6. PendingNewer' /\ HorizonPast'
  BY <1>2 DEF PendingNewer, HorizonPast, TypeOK
<1>7. QueueOrder'
  <2>. SUFFICES ASSUME NEW i \in 1..Len(lockq'), NEW j \in 1..Len(lockq'), i < j,
                       NEW f \in items'[lockq'[j]]
                PROVE  f > horizon[lockq'[i]]
    BY DEF QueueOrder
  <2>1. /\ i + 1 \in 1..n /\ j + 1 \in 2..n /\ i + 1 < j + 1
        /\ lockq'[i] = lockq[i + 1] /\ lockq'[j] = lockq[j + 1]
    BY <1>1
  <2>2. f \in items[lockq[j + 1]]
    <3>1. lockq[j + 1] \in Drains \ {d}
      BY <1>1, <1>3, <2>1
    <3>. QED
      BY <1>2, <2>1, <3>1
  <2>3. \A g \in items[lockq[j + 1]] : g > horizon[lockq[i + 1]]
    <3>1. j + 1 \in 1..n
      BY <1>1, <2>1
    <3>. QED
      BY <2>1, <3>1 DEF QueueOrder
  <2>. QED
    BY <2>1, <2>2, <2>3
<1>8. FlushBarrier'
  <2>. SUFFICES ASSUME NEW e \in Drains, pc'[e] \notin InDrain,
                       NEW f \in Frames, fate[f] = "live"
                PROVE  f > horizon[e]
    BY DEF FlushBarrier, With
  <2>1. CASE e # d
    BY <1>2, <2>1 DEF FlushBarrier, With
  <2>2. CASE e = d /\ f \in pending
    BY <2>2 DEF PendingNewer
  <2>3. CASE e = d /\ f \notin pending
    <3>1. PICK g \in Drains : pc[g] \in InDrain /\ f \in items[g]
      BY <2>3 DEF Located
    <3>2. PICK i \in 1..n : lockq[i] = g
      BY <3>1 DEF LockQueue
    <3>3. g # d
      BY <3>1
    <3>4. 1 \in 1..n /\ 1 < i
      BY <1>1, <3>2, <3>3
    <3>. QED
      BY <1>1, <2>3, <3>1, <3>2, <3>4 DEF QueueOrder
  <2>. QED
    BY <2>1, <2>2, <2>3
<1>. QED
  BY <1>4, <1>5, <1>6, <1>7, <1>8, <1>9

(***************************************************************************)
(* Inside the lock section nothing is detached: the owner settles frames,  *)
(* and strikes a file off its list only when all its frames are settled.   *)
(***************************************************************************)
LEMMA IInvOwner ==
    ASSUME IInv, TypeOK', NEW d \in Drains, lockq # <<>>, Head(lockq) = d,
           NEW y \in {"sending", "backoff"}, pc' = [pc EXCEPT ![d] = y],
           UNCHANGED <<pending, items, lockq, frames, horizon>>,
           \A f \in Frames : fate'[f] = "live" =>
               /\ fate[f] = "live"
               /\ \/ f \notin items[d]
                  \/ Path(f) \in todo'
    PROVE  IInv'
<1>. USE DEF IInv
<1>1. Len(lockq) \in Nat \ {0} /\ lockq[1] = d
  BY DEF TypeOK
<1>2. /\ pc[d] \in InDrain /\ pc'[d] \in InDrain
      /\ \A e \in Drains \ {d} : pc'[e] = pc[e]
  <2>1. 1 \in 1..Len(lockq)
    BY <1>1
  <2>2. pc[d] \in InDrain
    BY <1>1, <2>1 DEF LockQueue
  <2>. QED
    BY <2>2 DEF TypeOK
<1>3. \A i \in 1..Len(lockq) : lockq[i] \in Drains /\ (i > 1 => lockq[i] # d)
  <2>1. \A i \in 1..Len(lockq) : lockq[i] = lockq[1] => i = 1
    BY <1>1 DEF LockQueue
  <2>. QED
    BY <1>1, <2>1 DEF TypeOK
<1>4. LockQueue'
  <2>1. \A e \in Drains : pc'[e] \in InDrain <=> pc[e] \in InDrain
    BY <1>2
  <2>2. \A i \in 1..Len(lockq) : i > 1 => pc'[lockq[i]] = "queued"
    BY <1>2, <1>3 DEF LockQueue
  <2>. QED
    BY <2>1, <2>2 DEF LockQueue
<1>5. Located'
  <2>. SUFFICES ASSUME NEW f \in Frames, fate'[f] = "live", f \notin pending
                PROVE  \E e \in Drains : pc'[e] \in InDrain /\ f \in items[e]
    BY DEF Located, Path
  <2>1. PICK e \in Drains : pc[e] \in InDrain /\ f \in items[e]
    BY DEF Located
  <2>. QED
    BY <1>2, <2>1
<1>8. Owned'
  <2>. SUFFICES ASSUME NEW e \in Drains, pc'[e] \in {"sending", "backoff"},
                       NEW f \in items[e], fate'[f] = "live"
                PROVE  Path(f) \in todo'
    BY DEF Owned, Path
  <2>1. e = d
    <3>. SUFFICES ASSUME e # d PROVE FALSE
      OBVIOUS
    <3>1. PICK i \in 1..Len(lockq) : lockq[i] = e
      BY <1>2 DEF LockQueue
    <3>2. i > 1
      BY <1>1, <3>1
    <3>. QED
      BY <1>2, <3>1, <3>2 DEF LockQueue
  <2>2. f \in Frames /\ f \in items[d]
    BY <2>1 DEF TypeOK
  <2>. QED
    BY <2>2
<1>6. PendingNewer' /\ HorizonPast' /\ QueueOrder'
  BY DEF PendingNewer, HorizonPast, QueueOrder
<1>7. FlushBarrier'
  BY <1>2 DEF FlushBarrier, With
<1>. QED
  BY <1>4, <1>5, <1>6, <1>7, <1>8

\* Outside the lock section nothing but a drain's own progress changes.
LEMMA IInvOutside ==
    ASSUME IInv, TypeOK', NEW d \in Drains,
           pc[d] \notin InDrain, pc'[d] \notin InDrain,
           \A e \in Drains \ {d} : pc'[e] = pc[e],
           UNCHANGED <<pending, items, lockq, todo, frames, fate, horizon>>
    PROVE  IInv'
<1>. USE DEF IInv
<1>1. \A i \in 1..Len(lockq) : lockq[i] \in Drains /\ lockq[i] # d
  BY DEF LockQueue, TypeOK
<1>2. LockQueue'
  BY <1>1 DEF LockQueue
<1>3. Located'
  <2>. SUFFICES ASSUME NEW f \in Frames, fate[f] = "live", f \notin pending
                PROVE  \E e \in Drains : pc'[e] \in InDrain /\ f \in items[e]
    BY DEF Located, Path
  <2>1. PICK e \in Drains : pc[e] \in InDrain /\ f \in items[e]
    BY DEF Located
  <2>. QED
    BY <2>1
<1>4. Owned' /\ PendingNewer' /\ QueueOrder' /\ HorizonPast'
  BY DEF Owned, PendingNewer, QueueOrder, HorizonPast, Path
<1>5. FlushBarrier'
  BY DEF FlushBarrier, With
<1>. QED
  BY <1>2, <1>3, <1>4, <1>5

LEMMA IInvCoalesce ==
    ASSUME IInv, NEW d \in Drains, Coalesce(d)
    PROVE  IInv'
<1>. USE DEF IInv
<1>1. TypeOK'
  BY TypeCoalesce
<1>2. \A f \in Frames : fate'[f] = "live" =>
          fate[f] = "live" /\ (f \notin items[d] \/ Path(f) \in todo')
  BY SettledType DEF Coalesce, Fates
<1>. QED
  BY <1>1, <1>2, IInvOwner DEF Coalesce, Owns, buffer

LEMMA IInvAppendOk ==
    ASSUME IInv, NEW d \in Drains, NEW p \in Mapped, AppendOk(d, p)
    PROVE  IInv'
<1>. USE DEF IInv
<1>1. TypeOK'
  BY TypeAppendOk
<1>2. \A f \in Frames : fate'[f] = "live" => fate[f] = "live" /\ f \notin Batch(d, p)
  BY SettledType DEF AppendOk, Fates
<1>3. pc[d] = "sending" /\ pc' = [pc EXCEPT ![d] = "sending"]
  BY DEF AppendOk, Appending, Owns, TypeOK
<1>4. \A f \in items[d] : fate[f] = "live" => Path(f) \in todo
  BY <1>3 DEF Owned
<1>5. \A f \in Frames : fate'[f] = "live" =>
          fate[f] = "live" /\ (f \notin items[d] \/ Path(f) \in todo')
  BY <1>2, <1>4 DEF AppendOk, NextPath, Batch, Bucket
<1>. QED
  BY <1>1, <1>3, <1>5, IInvOwner DEF AppendOk, Appending, Owns, buffer

LEMMA IInvAppendRetry ==
    ASSUME IInv, NEW d \in Drains, NEW p \in Mapped, AppendRetry(d, p)
    PROVE  IInv'
<1>. USE DEF IInv
<1>1. TypeOK'
  BY TypeAppendRetry
<1>2. \A f \in items[d] : fate[f] = "live" => Path(f) \in todo
  BY DEF Owned, AppendRetry, Appending, Owns
<1>. QED
  BY <1>1, <1>2, IInvOwner DEF AppendRetry, Appending, Owns, buffer

LEMMA IInvBackoffDone ==
    ASSUME IInv, NEW d \in Drains, BackoffDone(d)
    PROVE  IInv'
<1>. USE DEF IInv
<1>1. TypeOK'
  BY DEF BackoffDone, TypeOK, buffer, lock, adapter
<1>2. \A f \in items[d] : fate[f] = "live" => Path(f) \in todo
  BY DEF Owned, BackoffDone, Owns
<1>. QED
  BY <1>1, <1>2, IInvOwner DEF BackoffDone, Owns, buffer, lock

LEMMA IInvGiveUp ==
    ASSUME IInv, TypeOK', NEW d \in Drains, NEW p, NEW y \in Fates \ {"live"},
           Appending(d, p), GiveUp(d, p, y)
    PROVE  IInv'
<1>. USE DEF IInv
<1>1. \A f \in Frames : fate'[f] = "live" => fate[f] = "live" /\ f \notin Batch(d, p)
  BY SettledType DEF GiveUp
<1>2. pc[d] = "sending" /\ pc' = [pc EXCEPT ![d] = "sending"]
  BY DEF GiveUp, Appending, Owns, TypeOK
<1>3. \A f \in items[d] : fate[f] = "live" => Path(f) \in todo
  BY <1>2 DEF Owned
<1>4. \A f \in Frames : fate'[f] = "live" =>
          fate[f] = "live" /\ (f \notin items[d] \/ Path(f) \in todo')
  BY <1>1, <1>3 DEF GiveUp, NextPath, Batch, Bucket
<1>. QED
  BY <1>2, <1>4, IInvOwner DEF GiveUp, Appending, Owns, buffer

LEMMA IInvReturnEmpty ==
    ASSUME IInv, NEW d \in Drains, ReturnEmpty(d)
    PROVE  IInv'
<1>1. TypeOK'
  BY TypeReturnEmpty DEF IInv
<1>2. /\ items'[d] \subseteq items[d] /\ pc'[d] \notin InDrain
      /\ \A e \in Drains \ {d} : pc'[e] = pc[e] /\ items'[e] = items[e]
      /\ \A f \in items[d] : fate[f] # "live"
  BY DEF IInv, TypeOK, ReturnEmpty
<1>3. /\ lockq # <<>> /\ Head(lockq) = d /\ lockq' = Tail(lockq)
      /\ UNCHANGED <<pending, todo, frames, fate, horizon>>
  BY DEF ReturnEmpty, Owns, buffer
<1>. QED
  BY <1>1, <1>2, <1>3, IInvLeave

LEMMA IInvUnlock ==
    ASSUME IInv, NEW d \in Drains, Unlock(d)
    PROVE  IInv'
<1>1. TypeOK'
  BY TypeUnlock DEF IInv
<1>2. \A f \in items[d] : fate[f] # "live"
  BY DEF IInv, Owned, Unlock, Owns
<1>3. /\ items'[d] \subseteq items[d] /\ pc'[d] \notin InDrain
      /\ \A e \in Drains \ {d} : pc'[e] = pc[e] /\ items'[e] = items[e]
  BY DEF IInv, TypeOK, Unlock
<1>4. /\ lockq # <<>> /\ Head(lockq) = d /\ lockq' = Tail(lockq)
      /\ UNCHANGED <<pending, todo, frames, fate, horizon>>
  BY DEF Unlock, Owns, buffer
<1>. QED
  BY <1>1, <1>2, <1>3, <1>4, IInvLeave

LEMMA IInvReport ==
    ASSUME IInv, NEW d \in Drains, NEW F \in errors[d], Report(d, F)
    PROVE  IInv'
<1>. USE DEF IInv
<1>1. TypeOK'
  BY TypeReport
<1>2. /\ pc[d] = "reporting" /\ pc'[d] \in {"idle", "reporting"}
      /\ \A e \in Drains \ {d} : pc'[e] = pc[e]
      /\ UNCHANGED <<pending, items, lockq, todo, frames, fate, horizon>>
  BY DEF Report, TypeOK, buffer, lock
<1>. QED
  BY <1>1, <1>2, IInvOutside

LEMMA IInvLand ==
    ASSUME IInv, NEW F \in late, Land(F)
    PROVE  IInv'
<1>. USE DEF IInv
<1>1. TypeOK'
  BY TypeLand
<1>. QED
  BY <1>1 DEF Land, LockQueue, Located, Owned, PendingNewer, QueueOrder, HorizonPast,
              FlushBarrier, With, Path, buffer, lock

LEMMA IInvNext == IInv /\ [Next]_vars => IInv'
<1>. SUFFICES ASSUME IInv, [Next]_vars PROVE IInv'
  OBVIOUS
<1>1. ASSUME NEW k \in FrameKinds, Enqueue(k) PROVE IInv'
  BY <1>1, IInvEnqueue
<1>2. ASSUME NEW d \in Drains, pc[d] \in {"idle", "spawned"}, Drain(d) PROVE IInv'
  BY <1>2, IInvDrain
<1>3. ASSUME NEW d \in Drains, ReturnEmpty(d) \/ Coalesce(d) PROVE IInv'
  BY <1>3, IInvReturnEmpty, IInvCoalesce
<1>4. ASSUME NEW d \in Drains, AppendReturns(d) PROVE IInv'
  <2>1. PICK p \in Mapped : \/ AppendOk(d, p) \/ AppendRetry(d, p)
                            \/ AppendFails(d, p) \/ AppendTimesOut(d, p)
    BY <1>4 DEF AppendReturns
  <2>2. CASE AppendOk(d, p) \/ AppendRetry(d, p)
    BY <2>2, IInvAppendOk, IInvAppendRetry
  <2>3. CASE AppendFails(d, p)
    <3>1. GiveUp(d, p, "failed") /\ Appending(d, p) /\ "failed" \in Fates \ {"live"}
      BY <2>3 DEF AppendFails, Fates
    <3>2. TypeOK'
      BY <2>3, TypeAppendFails DEF IInv
    <3>. QED
      BY <3>1, <3>2, IInvGiveUp
  <2>4. CASE AppendTimesOut(d, p)
    <3>1. GiveUp(d, p, "timedout") /\ Appending(d, p) /\ "timedout" \in Fates \ {"live"}
      BY <2>4 DEF AppendTimesOut, Fates
    <3>2. TypeOK'
      BY <2>4, TypeAppendTimesOut DEF IInv
    <3>. QED
      BY <3>1, <3>2, IInvGiveUp
  <2>. QED
    BY <2>1, <2>2, <2>3, <2>4
<1>5. ASSUME NEW d \in Drains, BackoffDone(d) PROVE IInv'
  BY <1>5, IInvBackoffDone
<1>6. ASSUME NEW d \in Drains, Unlock(d) \/ Reports(d) PROVE IInv'
  BY <1>6, IInvUnlock, IInvReport DEF Reports
<1>7. ASSUME NEW F \in late, Land(F) PROVE IInv'
  BY <1>7, IInvLand
<1>8. CASE UNCHANGED vars
  BY SMTT(60), <1>8 DEF vars, IInv, TypeOK, LockQueue, Located, Owned, PendingNewer, QueueOrder,
              HorizonPast, FlushBarrier, With, Path, buffer, lock, adapter
<1>. QED
  BY <1>1, <1>2, <1>3, <1>4, <1>5, <1>6, <1>7, <1>8
     DEF Next, Flush, StartEager

(***************************************************************************)
(* Where every frame is, and in which order the drains hold the frames, at *)
(* every moment: what the two promises of the batcher below follow from.   *)
(***************************************************************************)
THEOREM Invariance == Spec => []IInv
  BY IInvInit, IInvNext, PTL DEF Spec

(***************************************************************************)
(* A drain that has left the lock leaves nothing live that was enqueued    *)
(* before it detached: a returned flush() means the mirror is up to date.  *)
(***************************************************************************)
THEOREM FlushBarrierHolds == Spec => []FlushBarrier
<1>1. IInv => FlushBarrier
  BY DEF IInv
<1>. QED
  BY <1>1, Invariance, PTL

(***************************************************************************)
(* A live frame is held in exactly one place: a drain's frames end where   *)
(* those of the next drain in the queue, and the pending ones, begin.      *)
(***************************************************************************)
THEOREM HeldOnceHolds == Spec => []HeldOnce
<1>1. IInv => HeldOnce
  <2>. SUFFICES ASSUME IInv, NEW f \in Frames, fate[f] = "live"
                PROVE  IF f \in pending
                       THEN \A d \in Drains : f \notin items[d]
                       ELSE Cardinality({d \in Drains :
                                pc[d] \in InDrain /\ f \in items[d]}) = 1
    BY DEF HeldOnce, With
  <2>. USE DEF IInv
  <2>1. CASE f \in pending
    BY SMTT(60), <2>1 DEF PendingNewer, HorizonPast, TypeOK
  <2>2. CASE f \notin pending
    <3>1. PICK d \in Drains : pc[d] \in InDrain /\ f \in items[d]
      BY <2>2 DEF Located
    <3>2. ASSUME NEW e \in Drains, pc[e] \in InDrain, f \in items[e], e # d
          PROVE  FALSE
      <4>1. PICK i \in 1..Len(lockq) : lockq[i] = d
        BY <3>1 DEF LockQueue
      <4>2. PICK j \in 1..Len(lockq) : lockq[j] = e
        BY <3>2 DEF LockQueue
      <4>3. f <= horizon[d] /\ f <= horizon[e] /\ f \in Nat
        <5>1. f \in Nat
          BY DEF TypeOK
        <5>. QED
          BY <3>1, <3>2, <5>1 DEF HorizonPast
      <4>4. horizon[d] \in Nat /\ horizon[e] \in Nat /\ Len(lockq) \in Nat
        <5>1. horizon \in [Drains -> Nat]
          BY DEF TypeOK
        <5>2. lockq \in Seq(Drains)
          BY DEF TypeOK
        <5>. QED
          BY <5>1, <5>2
      <4>5. CASE i < j
        <5>1. \A g \in items[lockq[j]] : g > horizon[lockq[i]]
          BY <4>5 DEF QueueOrder
        <5>2. f > horizon[d]
          BY <3>2, <4>1, <4>2, <5>1
        <5>. QED
          BY <4>3, <4>4, <5>2
      <4>6. CASE j < i
        <5>1. \A g \in items[lockq[i]] : g > horizon[lockq[j]]
          BY <4>6 DEF QueueOrder
        <5>2. f > horizon[e]
          BY <3>1, <4>1, <4>2, <5>1
        <5>. QED
          BY <4>3, <4>4, <5>2
      <4>. QED
        BY <3>2, <4>1, <4>2, <4>4, <4>5, <4>6
    <3>3. {e \in Drains : pc[e] \in InDrain /\ f \in items[e]} = {d}
      BY <3>1, <3>2
    <3>. QED
      BY <2>2, <3>3, FS_Singleton
  <2>. QED
    BY <2>1, <2>2
<1>. QED
  BY <1>1, Invariance, PTL

-----------------------------------------------------------------------------
(***************************************************************************)
(* What is written to the store and what becomes of the frames: the order  *)
(* of the writes, no second copy, no silent loss, and the contract of the  *)
(* mirror (MirrorContract).  This rests on the places of the frames (IInv) *)
(* and on three facts about fates: what is held is live until its file's   *)
(* turn has come (HeldLive), frames of one file are settled in order       *)
(* (SettledOlder), and a partial write has written a beginning of what is  *)
(* live of its file (StoredUnder).                                         *)
(***************************************************************************)
HeldLive ==
    /\ \A f \in pending : fate[f] = "live"
    /\ \A d \in Drains : pc[d] = "queued" => \A f \in items[d] : fate[f] = "live"
    /\ \A d \in Drains : pc[d] \in {"sending", "backoff"} =>
          \A f \in items[d] : Path(f) \in todo => fate[f] = "live"

LateTimedOut == \A F \in late : \A f \in F : fate[f] = "timedout"

SettledOlder ==
    \A f, g \in Frames :
        Path(f) = Path(g) /\ fate[f] # "live" /\ fate[g] = "live" => f < g

StoredUnder ==
    \A p \in Paths : \A i \in DOMAIN store[p] : \A f \in store[p][i] :
        /\ Path(f) = p
        /\ fate[f] = "live" => \A g \in With("live") :
              Path(g) = p /\ frames[g].entries > 0 /\ g < f => g \in store[p][i]

StoreInv == /\ IInv /\ HeldLive /\ LateTimedOut /\ SettledOlder /\ StoredUnder
            /\ DedupedOrder /\ LossAccounted

-----------------------------------------------------------------------------
(***************************************************************************)
(* The owner of the lock                                                   *)
(***************************************************************************)
USE DEF Drains, Frames, InDrain

LEMMA Numbered ==
    ASSUME TypeOK
    PROVE  Frames = 1..Len(frames) /\ Len(frames) \in Nat
  BY DEF TypeOK

LEMMA FrameType ==
    ASSUME TypeOK, NEW f \in Frames
    PROVE  frames[f] \in [path : Paths, entries : Nat, bytes : Nat]
<1>. DEFINE S == [path : Paths, entries : Nat, bytes : Nat]
<1>1. frames \in Seq(S) /\ f \in 1..Len(frames)
  BY DEF TypeOK
<1>. HIDE DEF S
<1>2. frames[f] \in S
  BY <1>1, ElementOfSeq
<1>. QED
  BY <1>2 DEF S

LEMMA Types ==
    ASSUME IInv
    PROVE  /\ TypeOK /\ Frames \subseteq Nat
           /\ \A d \in Drains : items[d] \subseteq Frames /\ horizon[d] \in Nat
           /\ lockq \in Seq(Drains) /\ store \in [Paths -> Seq(SUBSET Frames)]
<1>1. TypeOK
  BY DEF IInv
<1>2. Frames \subseteq Nat
  BY <1>1, Numbered
<1>3. /\ items \in [Drains -> SUBSET Frames] /\ horizon \in [Drains -> Nat]
      /\ lockq \in Seq(Drains) /\ store \in [Paths -> Seq(SUBSET Frames)]
  BY <1>1 DEF TypeOK
<1>. QED
  BY <1>1, <1>2, <1>3

IsOwner(d) == lockq # <<>> /\ Head(lockq) = d

\* The owner is the first in the queue, all others inside wait.
LEMMA OthersWait ==
    ASSUME IInv, NEW d \in Drains, IsOwner(d)
    PROVE  /\ pc[d] \in InDrain
           /\ \A e \in Drains \ {d} : pc[e] \in InDrain =>
                 /\ pc[e] = "queued"
                 /\ \A f \in items[e] : f > horizon[d]
<1>1. Len(lockq) \in Nat \ {0} /\ lockq[1] = d /\ 1 \in 1..Len(lockq)
  BY DEF IInv, TypeOK, IsOwner
<1>2. pc[d] \in InDrain
  BY <1>1 DEF IInv, LockQueue
<1>3. ASSUME NEW e \in Drains \ {d}, pc[e] \in InDrain
      PROVE  pc[e] = "queued" /\ \A f \in items[e] : f > horizon[d]
  <2>1. PICK i \in 1..Len(lockq) : lockq[i] = e
    BY <1>3 DEF IInv, LockQueue
  <2>2. i > 1
    BY <1>1, <2>1
  <2>3. pc[e] = "queued"
    BY <2>1, <2>2 DEF IInv, LockQueue
  <2>4. \A f \in items[lockq[i]] : f > horizon[lockq[1]]
    BY <1>1, <2>2 DEF IInv, QueueOrder
  <2>. QED
    BY <1>1, <2>1, <2>3, <2>4
<1>. QED
  BY <1>2, <1>3

\* What the owner holds is older than all that is live and held elsewhere.
LEMMA OwnerOldest ==
    ASSUME IInv, NEW d \in Drains, IsOwner(d), NEW f \in items[d],
           NEW g \in Frames, fate[g] = "live", g \notin items[d]
    PROVE  f < g
<1>0. f \in Nat /\ g \in Nat /\ horizon[d] \in Nat /\ pc[d] \in InDrain
  BY Types, OthersWait
<1>1. f \in Nat /\ g \in Nat /\ horizon[d] \in Nat /\ f <= horizon[d]
  BY <1>0 DEF IInv, HorizonPast
<1>2. CASE g \in pending
  BY <1>1, <1>2 DEF IInv, PendingNewer
<1>3. CASE g \notin pending
  <2>1. PICK e \in Drains : pc[e] \in InDrain /\ g \in items[e]
    BY <1>3 DEF IInv, Located
  <2>2. g > horizon[d]
    BY <2>1, OthersWait
  <2>. QED
    BY <1>1, <2>2
<1>. QED
  BY <1>2, <1>3

\* ... and is held by nobody else.
LEMMA HeldApart ==
    ASSUME IInv, NEW d \in Drains, IsOwner(d), NEW f \in items[d]
    PROVE  /\ f \notin pending
           /\ \A e \in Drains \ {d} : pc[e] \in InDrain => f \notin items[e]
<1>1. f \in Nat /\ horizon[d] \in Nat /\ f <= horizon[d]
  BY DEF IInv, TypeOK, HorizonPast
<1>2. f \notin pending
  BY <1>1 DEF IInv, PendingNewer
<1>3. \A e \in Drains \ {d} : pc[e] \in InDrain => f \notin items[e]
  BY <1>1, OthersWait
<1>. QED
  BY <1>2, <1>3

(***************************************************************************)
(* Effects: what a step does to the fates and to the store                 *)
(***************************************************************************)
\* The owner d is through with F, all it holds of some files.
Settles(d, F, y) ==
    /\ IsOwner(d) /\ F \subseteq items[d]
    /\ \A f \in F : fate[f] = "live"
    /\ \A f \in F, g \in items[d] : Path(g) = Path(f) => g \in F
    /\ fate' = Settled(F, y)

LEMMA CoalesceSettles ==
    ASSUME IInv, HeldLive, NEW d \in Drains, Coalesce(d)
    PROVE  Settles(d, {f \in items[d] : Path(f) \notin todo'}, "dropped")
  BY DEF Coalesce, Owns, Settles, IsOwner, HeldLive

LEMMA BatchSettles ==
    ASSUME IInv, HeldLive, NEW d \in Drains, NEW p, NEW y, Appending(d, p),
           fate' = Settled(Batch(d, p), y)
    PROVE  Settles(d, Batch(d, p), y)
  BY DEF Appending, Owns, Settles, IsOwner, HeldLive, Batch, Bucket

FateStep ==
    \E d \in Drains : \E F \in SUBSET Frames : \E y \in Fates \ {"live"} :
        Settles(d, F, y)

LEMMA BatchFateStep ==
    ASSUME IInv, HeldLive, NEW d \in Drains, NEW p, NEW y \in Fates \ {"live"},
           Appending(d, p), fate' = Settled(Batch(d, p), y)
    PROVE  FateStep
<1>1. Batch(d, p) \in SUBSET Frames
  BY DEF Batch, Bucket, IInv, TypeOK
<1>. QED
  BY <1>1, BatchSettles DEF FateStep

LEMMA FateSteps ==
    ASSUME IInv, HeldLive, [Next]_vars
    PROVE  \/ UNCHANGED <<frames, fate>>
           \/ \E k \in FrameKinds : Enqueue(k)
           \/ frames' = frames /\ FateStep
<1>1. ASSUME NEW d \in Drains, Coalesce(d)
      PROVE  frames' = frames /\ FateStep
  <2>1. {f \in items[d] : Path(f) \notin todo'} \in SUBSET Frames
    BY DEF IInv, TypeOK
  <2>. QED
    BY <1>1, <2>1, CoalesceSettles DEF Coalesce, Fates, FateStep
<1>2. ASSUME NEW d \in Drains, NEW p \in Mapped, AppendOk(d, p)
      PROVE  frames' = frames /\ FateStep
  BY <1>2, BatchFateStep DEF AppendOk, Fates
<1>3. ASSUME NEW d \in Drains, NEW p \in Mapped, AppendFails(d, p)
      PROVE  frames' = frames /\ FateStep
  BY <1>3, BatchFateStep DEF AppendFails, GiveUp, Fates
<1>4. ASSUME NEW d \in Drains, NEW p \in Mapped, AppendTimesOut(d, p)
      PROVE  frames' = frames /\ FateStep
  BY <1>4, BatchFateStep DEF AppendTimesOut, GiveUp, Fates
<1>5. ASSUME NEW d \in Drains, NEW p \in Mapped, AppendRetry(d, p)
      PROVE  UNCHANGED <<frames, fate>>
  BY <1>5 DEF AppendRetry
<1>6. ASSUME NEW d \in Drains, AppendReturns(d)
      PROVE  \/ UNCHANGED <<frames, fate>>
             \/ frames' = frames /\ FateStep
  BY <1>2, <1>3, <1>4, <1>5, <1>6 DEF AppendReturns
<1>7. ASSUME NEW d \in Drains,
             Drain(d) \/ ReturnEmpty(d) \/ BackoffDone(d) \/ Unlock(d) \/ Reports(d)
      PROVE  UNCHANGED <<frames, fate>>
  BY <1>7 DEF Drain, ReturnEmpty, BackoffDone, Unlock, Reports, Report
<1>8. ASSUME NEW F \in late, Land(F) PROVE UNCHANGED <<frames, fate>>
  BY <1>8 DEF Land
<1>9. CASE UNCHANGED vars
  BY <1>9 DEF vars
<1>. QED
  BY <1>1, <1>6, <1>7, <1>8, <1>9 DEF Next, Flush, StartEager

\* Fates are final, and no frame comes to life again.
LEMMA FatesFinal ==
    ASSUME IInv, NEW d, NEW F, NEW y \in Fates \ {"live"}, Settles(d, F, y)
    PROVE  \A f \in Frames : /\ fate[f] # "live" => fate'[f] = fate[f]
                             /\ fate'[f] = "live" <=> fate[f] = "live" /\ f \notin F
                             /\ f \in F => fate'[f] = y
<1>1. \A f \in Frames : fate'[f] = IF f \in F THEN y ELSE fate[f]
  BY SettledType DEF Settles, IInv
<1>. QED
  BY <1>1 DEF Settles

\* An append keeps what is there and adds what it writes, if anything.
LEMMA WriteGrows ==
    ASSUME TypeOK, NEW p \in Paths, NEW W \in SUBSET Frames, Write(p, W)
    PROVE  \A q \in Paths :
              /\ \A i \in DOMAIN store[q] :
                    i \in DOMAIN store'[q] /\ store'[q][i] = store[q][i]
              /\ \A i \in DOMAIN store'[q] \ DOMAIN store[q] :
                    /\ q = p /\ W # {} /\ store'[q][i] = W
                    /\ \A j \in DOMAIN store[q] : j < i
                    /\ i = Len(store'[q])
              /\ W # {} => \E i \in DOMAIN store'[p] : store'[p][i] = W
              /\ Len(store[q]) \in Nat /\ DOMAIN store[q] = 1..Len(store[q])
              /\ Len(store'[q]) \in Nat /\ DOMAIN store'[q] = 1..Len(store'[q])
              /\ Len(store'[q]) > Len(store[q]) => q = p /\ W # {}
<1>. SUFFICES ASSUME NEW q \in Paths
     PROVE  /\ \A i \in DOMAIN store[q] :
                  i \in DOMAIN store'[q] /\ store'[q][i] = store[q][i]
            /\ \A i \in DOMAIN store'[q] \ DOMAIN store[q] :
                  /\ q = p /\ W # {} /\ store'[q][i] = W
                  /\ \A j \in DOMAIN store[q] : j < i
                  /\ i = Len(store'[q])
            /\ W # {} => \E i \in DOMAIN store'[p] : store'[p][i] = W
            /\ Len(store[q]) \in Nat /\ DOMAIN store[q] = 1..Len(store[q])
            /\ Len(store'[q]) \in Nat /\ DOMAIN store'[q] = 1..Len(store'[q])
            /\ Len(store'[q]) > Len(store[q]) => q = p /\ W # {}
  OBVIOUS
<1>1. store \in [Paths -> Seq(SUBSET Frames)]
  BY DEF TypeOK
<1>2. store[q] \in Seq(SUBSET Frames) /\ store[p] \in Seq(SUBSET Frames)
  BY <1>1
<1>3. CASE W = {}
  BY <1>2, <1>3 DEF Write
<1>4. CASE W # {}
  <2>1. store'[p] = Append(store[p], W) /\ (q # p => store'[q] = store[q])
    BY <1>1, <1>4 DEF Write
  <2>2. /\ Len(store'[p]) = Len(store[p]) + 1
        /\ DOMAIN store'[p] = 1..(Len(store[p]) + 1)
        /\ \A i \in 1..Len(store[p]) : store'[p][i] = store[p][i]
        /\ store'[p][Len(store[p]) + 1] = W
    BY <1>2, <2>1, AppendProperties
  <2>3. CASE q = p
    BY <1>2, <1>4, <2>2, <2>3
  <2>4. CASE q # p
    BY <1>2, <1>4, <2>1, <2>2, <2>4
  <2>. QED
    BY <2>3, <2>4
<1>. QED
  BY <1>3, <1>4

\* W is a beginning of F, or all of it.
Beginning(W, F) == W \subseteq F /\ \A f \in W, g \in F : g < f => g \in W

\* The owner writes of the batch whose turn it is, or a late append lands.
OwnWrite(p, W) ==
    \E d \in Drains : Appending(d, p) /\ Beginning(W, NonEmpty(Batch(d, p)))
LateWrite(p, W) ==
    /\ fate' = fate
    /\ \E F \in late : F \subseteq Bucket(Frames, p) /\ W \subseteq F
StoreStep(p, W) == Write(p, W) /\ (OwnWrite(p, W) \/ LateWrite(p, W))

LEMMA BeginningsBegin ==
    ASSUME NEW F \in SUBSET Nat, NEW W \in Beginnings(F)
    PROVE  Beginning(W, F)
<1>1. CASE W = {}
  BY <1>1 DEF Beginning
<1>2. CASE W # {}
  <2>1. PICK f \in F : W = {g \in F : g <= f}
    BY <1>2 DEF Beginnings
  <2>. QED
    BY <2>1 DEF Beginning
<1>. QED
  BY <1>1, <1>2


LEMMA OwnStoreStep ==
    ASSUME IInv, NEW d \in Drains, NEW p \in Mapped, AppendReturns(d)
    PROVE  \/ store' = store
           \/ frames' = frames /\
              \E q \in Paths : \E W \in SUBSET Frames : Write(q, W) /\ OwnWrite(q, W)
<1>1. PICK q \in Mapped : \/ AppendOk(d, q) \/ AppendRetry(d, q)
                          \/ AppendFails(d, q) \/ AppendTimesOut(d, q)
  BY DEF AppendReturns
<1>2. q \in Paths
  BY PathsAssumption
<1>3. NonEmpty(Batch(d, q)) \in SUBSET Frames /\ Frames \subseteq Nat
  BY BatchType, Types
<1>4. ASSUME NEW W, Write(q, W), Appending(d, q), Beginning(W, NonEmpty(Batch(d, q))),
             frames' = frames
      PROVE  \E r \in Paths : \E V \in SUBSET Frames : Write(r, V) /\ OwnWrite(r, V)
  <2>1. W \in SUBSET Frames
    BY <1>3, <1>4 DEF Beginning
  <2>. QED
    BY <1>2, <1>4, <2>1 DEF OwnWrite
<1>5. CASE AppendOk(d, q)
  <2>1. Beginning(NonEmpty(Batch(d, q)), NonEmpty(Batch(d, q)))
    BY DEF Beginning
  <2>. QED
    BY <1>4, <1>5, <2>1 DEF AppendOk
<1>6. CASE AppendRetry(d, q)
  BY <1>3, <1>4, <1>6, BeginningsBegin DEF AppendRetry
<1>7. CASE AppendFails(d, q)
  BY <1>3, <1>4, <1>7, BeginningsBegin DEF AppendFails, GiveUp
<1>8. CASE AppendTimesOut(d, q)
  BY <1>8 DEF AppendTimesOut
<1>. QED
  BY <1>1, <1>5, <1>6, <1>7, <1>8

LEMMA LandStep ==
    ASSUME IInv, NEW F \in late, Land(F)
    PROVE  frames' = frames /\
           \E p \in Paths : \E W \in SUBSET Frames : Write(p, W) /\ LateWrite(p, W)
<1>1. PICK G \in Beginnings(F) \ {{}}, p \in Paths :
          F \subseteq Bucket(Frames, p) /\ Write(p, G)
  BY DEF Land
<1>2. F \in SUBSET Frames /\ Frames \subseteq Nat
  BY DEF IInv, TypeOK
<1>3. G \subseteq F
  BY <1>1, <1>2, BeginningsBegin DEF Beginning
<1>4. G \in SUBSET Frames
  BY <1>2, <1>3
<1>5. frames' = frames /\ fate' = fate
  BY DEF Land
<1>. QED
  BY <1>1, <1>3, <1>4, <1>5 DEF LateWrite

LEMMA StoreSteps ==
    ASSUME IInv, [Next]_vars
    PROVE  \/ store' = store
           \/ /\ frames' = frames
              /\ \E p \in Paths : \E W \in SUBSET Frames : StoreStep(p, W)
<1>1. ASSUME NEW d \in Drains, AppendReturns(d)
      PROVE  \/ store' = store
             \/ /\ frames' = frames
                /\ \E p \in Paths : \E W \in SUBSET Frames : StoreStep(p, W)
  <2>1. PICK p \in Mapped : TRUE
    BY <1>1 DEF AppendReturns
  <2>. QED
    BY <1>1, <2>1, OwnStoreStep DEF StoreStep
<1>2. ASSUME NEW F \in late, Land(F)
      PROVE  /\ frames' = frames
             /\ \E p \in Paths : \E W \in SUBSET Frames : StoreStep(p, W)
  BY <1>2, LandStep DEF StoreStep
<1>3. ASSUME NEW d \in Drains,
             \/ Drain(d) \/ ReturnEmpty(d) \/ Coalesce(d) \/ BackoffDone(d)
             \/ Unlock(d) \/ Reports(d)
      PROVE  store' = store
  BY <1>3 DEF Drain, ReturnEmpty, Coalesce, BackoffDone, Unlock, Reports, Report, adapter
<1>4. ASSUME NEW k \in FrameKinds, Enqueue(k) PROVE store' = store
  BY <1>4 DEF Enqueue, adapter
<1>5. CASE UNCHANGED vars
  BY <1>5 DEF vars, adapter
<1>. QED
  BY <1>1, <1>2, <1>3, <1>4, <1>5 DEF Next, Flush, StartEager

-----------------------------------------------------------------------------
(***************************************************************************)
(* Each part is kept                                                       *)
(***************************************************************************)
\* A new frame has the last number and is live; nothing else changes.
LEMMA EnqueueEffect ==
    ASSUME TypeOK, NEW k \in FrameKinds, Enqueue(k)
    PROVE  /\ Len(frames) \in Nat /\ Frames = 1..Len(frames)
           /\ Frames' = 1..(Len(frames) + 1)
           /\ \A f \in Frames : fate'[f] = fate[f] /\ frames'[f] = frames[f]
           /\ fate'[Len(frames) + 1] = "live" /\ frames'[Len(frames) + 1] = k
           /\ pending' = pending \cup {Len(frames) + 1}
           /\ \A d \in Drains : pc'[d] = pc[d] \/ (pc[d] = "idle" /\ pc'[d] = "spawned")
           /\ UNCHANGED <<items, errors, todo, store, late, reported>>
<1>1. /\ frames \in Seq([path : Paths, entries : Nat, bytes : Nat])
      /\ fate \in Seq(Fates) /\ Len(fate) = Len(frames)
  BY DEF TypeOK
<1>2. k \in [path : Paths, entries : Nat, bytes : Nat] /\ "live" \in Fates
  BY PathsAssumption DEF Fates
<1>3. frames' = Append(frames, k) /\ fate' = Append(fate, "live")
  BY DEF Enqueue
<1>4. /\ Len(frames') = Len(frames) + 1 /\ DOMAIN frames' = 1..Len(frames')
      /\ \A f \in 1..Len(frames) : fate'[f] = fate[f] /\ frames'[f] = frames[f]
      /\ fate'[Len(frames) + 1] = "live" /\ frames'[Len(frames) + 1] = k
  BY <1>1, <1>2, <1>3, AppendProperties
<1>5. /\ pending' = pending \cup {Len(frames) + 1}
      /\ \A d \in Drains : pc'[d] = pc[d] \/ (pc[d] = "idle" /\ pc'[d] = "spawned")
  BY DEF Enqueue, TypeOK
<1>6. UNCHANGED <<items, errors, todo, store, late, reported>>
  BY DEF Enqueue, lock, adapter
<1>. QED
  BY <1>1, <1>4, <1>5, <1>6

LEMMA SettledOlderKept ==
    ASSUME IInv, HeldLive, SettledOlder, [Next]_vars
    PROVE  SettledOlder'
<1>1. CASE UNCHANGED <<frames, fate>>
  BY <1>1 DEF SettledOlder, Path
<1>2. ASSUME NEW k \in FrameKinds, Enqueue(k)
      PROVE  SettledOlder'
  <2>1. TypeOK
    BY DEF IInv
  <2>. SUFFICES ASSUME NEW f \in Frames', NEW g \in Frames',
                       Path(f)' = Path(g)', fate'[f] # "live", fate'[g] = "live"
                PROVE  f < g
    BY DEF SettledOlder
  <2>2. f \in Frames /\ fate[f] # "live" /\ Path(f)' = Path(f)
    BY <1>2, <2>1, EnqueueEffect DEF Path
  <2>3. CASE g = Len(frames) + 1
    BY <1>2, <2>1, <2>2, <2>3, EnqueueEffect
  <2>4. CASE g \in Frames
    BY <1>2, <2>1, <2>2, <2>4, EnqueueEffect DEF SettledOlder, Path
  <2>. QED
    BY <1>2, <2>1, <2>3, <2>4, EnqueueEffect
<1>3. CASE frames' = frames /\ FateStep
  <2>1. PICK d \in Drains, F \in SUBSET Frames, y \in Fates \ {"live"} : Settles(d, F, y)
    BY <1>3 DEF FateStep
  <2>. SUFFICES ASSUME NEW f \in Frames, NEW g \in Frames,
                       Path(f) = Path(g), fate'[f] # "live", fate'[g] = "live"
                PROVE  f < g
    BY <1>3 DEF SettledOlder, Path
  <2>2. fate[g] = "live" /\ g \notin F
    BY <2>1, FatesFinal
  <2>3. CASE fate[f] # "live"
    BY <2>2, <2>3 DEF SettledOlder
  <2>4. CASE fate[f] = "live"
    <3>1. f \in F
      BY <2>1, <2>4, FatesFinal
    <3>2. f \in items[d] /\ g \notin items[d] /\ IsOwner(d)
      BY <2>1, <2>2, <3>1 DEF Settles
    <3>. QED
      BY <2>2, <3>2, OwnerOldest
  <2>. QED
    BY <2>3, <2>4
<1>. QED
  BY <1>1, <1>2, <1>3, FateSteps

\* Whoever settles frames is in the lock section and stays in it.
LEMMA HeldLiveSettles ==
    ASSUME IInv, HeldLive, NEW d \in Drains, NEW F \in SUBSET Frames,
           NEW y \in Fates \ {"live"}, Settles(d, F, y),
           UNCHANGED <<pending, items, frames>>, pc' = [pc EXCEPT ![d] = "sending"],
           \A f \in items[d] : Path(f) \in todo' => fate[f] = "live" /\ f \notin F
    PROVE  HeldLive'
<1>1. IsOwner(d) /\ F \subseteq items[d] /\ pc[d] \in InDrain
  BY OthersWait DEF Settles
<1>2. /\ pending \subseteq Frames /\ \A e \in Drains : items[e] \subseteq Frames
      /\ pc'[d] = "sending" /\ \A e \in Drains \ {d} : pc'[e] = pc[e]
  BY DEF IInv, TypeOK
<1>3. \A f \in pending : fate'[f] = "live"
  <2>. SUFFICES ASSUME NEW f \in pending PROVE fate'[f] = "live"
    OBVIOUS
  <2>1. f \in Frames /\ fate[f] = "live" /\ f \notin F
    BY <1>1, <1>2, HeldApart DEF HeldLive
  <2>. QED
    BY <2>1, FatesFinal
<1>4. ASSUME NEW e \in Drains, pc'[e] = "queued", NEW f \in items[e]
      PROVE  fate'[f] = "live"
  <2>1. e # d /\ pc[e] = "queued"
    BY <1>2, <1>4
  <2>2. f \in Frames /\ fate[f] = "live" /\ f \notin F
    BY <1>1, <1>2, <2>1, HeldApart DEF HeldLive
  <2>. QED
    BY <2>2, FatesFinal
<1>5. ASSUME NEW e \in Drains, pc'[e] \in {"sending", "backoff"}, NEW f \in items[e],
             Path(f)' \in todo'
      PROVE  fate'[f] = "live"
  <2>1. e = d
    BY <1>1, <1>2, <1>5, OthersWait
  <2>2. f \in Frames /\ fate[f] = "live" /\ f \notin F
    BY <1>2, <1>5, <2>1 DEF Path
  <2>. QED
    BY <2>2, FatesFinal
<1>. QED
  BY <1>3, <1>4, <1>5 DEF HeldLive

LEMMA HeldLiveAppends ==
    ASSUME IInv, HeldLive, NEW d \in Drains, AppendReturns(d)
    PROVE  HeldLive'
<1>1. PICK p \in Mapped : \/ AppendOk(d, p) \/ AppendRetry(d, p)
                          \/ AppendFails(d, p) \/ AppendTimesOut(d, p)
  BY DEF AppendReturns
<1>2. Appending(d, p) /\ pc[d] = "sending"
  BY <1>1 DEF AppendOk, AppendRetry, AppendFails, AppendTimesOut, Appending, Owns
<1>3. \A f \in items[d] : Path(f) \in todo \ {p} => fate[f] = "live" /\ f \notin Batch(d, p)
  BY <1>2 DEF HeldLive, Batch, Bucket
<1>4. Batch(d, p) \in SUBSET Frames
  BY BatchType DEF IInv
<1>5. ASSUME NEW y \in Fates \ {"live"}, fate' = Settled(Batch(d, p), y),
             NextPath(p), UNCHANGED <<pending, pc, items, frames>>
      PROVE  HeldLive'
  <2>1. pc' = [pc EXCEPT ![d] = "sending"]
    BY <1>2, <1>5 DEF IInv, TypeOK
  <2>2. Settles(d, Batch(d, p), y)
    BY <1>2, <1>5, BatchSettles
  <2>3. \A f \in items[d] : Path(f) \in todo' => fate[f] = "live" /\ f \notin Batch(d, p)
    BY <1>3, <1>5 DEF NextPath
  <2>4. UNCHANGED <<pending, items, frames>>
    BY <1>5
  <2>. QED
    BY <1>4, <2>1, <2>2, <2>3, <2>4, HeldLiveSettles
<1>6. CASE AppendOk(d, p)
  BY <1>5, <1>6 DEF AppendOk, Fates, buffer
<1>7. CASE AppendFails(d, p)
  BY <1>5, <1>7 DEF AppendFails, GiveUp, Fates, buffer
<1>8. CASE AppendTimesOut(d, p)
  BY <1>5, <1>8 DEF AppendTimesOut, GiveUp, Fates, buffer
<1>9. CASE AppendRetry(d, p)
  <2>1. /\ pc'[d] = "backoff" /\ \A e \in Drains \ {d} : pc'[e] = pc[e]
        /\ UNCHANGED <<pending, items, todo, frames, fate>>
    BY <1>9 DEF AppendRetry, buffer, IInv, TypeOK
  <2>. QED
    BY <1>2, <2>1 DEF HeldLive, Path
<1>. QED
  BY <1>1, <1>6, <1>7, <1>8, <1>9

LEMMA HeldLiveKept ==
    ASSUME IInv, HeldLive, [Next]_vars
    PROVE  HeldLive'
<1>. USE DEF IInv
<1>1. ASSUME NEW k \in FrameKinds, Enqueue(k)
      PROVE  HeldLive'
  <2>1. pending \subseteq Frames /\ \A d \in Drains : items[d] \subseteq Frames
    BY DEF TypeOK
  <2>2. /\ \A f \in Frames : fate'[f] = fate[f] /\ Path(f)' = Path(f)
        /\ \A d \in Drains : /\ pc'[d] = "queued" => pc[d] = "queued"
                             /\ pc'[d] \in {"sending", "backoff"} => pc'[d] = pc[d]
        /\ UNCHANGED <<items, todo>>
    BY <1>1, EnqueueEffect DEF Path
  <2>3. \A f \in pending' : fate'[f] = "live"
    BY <1>1, <2>1, <2>2, EnqueueEffect DEF HeldLive
  <2>. QED
    BY <2>1, <2>2, <2>3 DEF HeldLive
<1>2. ASSUME NEW d \in Drains, Drain(d)
      PROVE  HeldLive'
  <2>1. /\ pc'[d] = "queued" /\ items'[d] = pending /\ pending' = {}
        /\ \A e \in Drains \ {d} : pc'[e] = pc[e] /\ items'[e] = items[e]
        /\ UNCHANGED <<todo, frames, fate>>
    BY <1>2 DEF Drain, TypeOK
  <2>. QED
    BY <2>1 DEF HeldLive, Path
<1>3. ASSUME NEW d \in Drains, ReturnEmpty(d) \/ Unlock(d)
      PROVE  HeldLive'
  <2>1. /\ pc'[d] \in {"idle", "reporting"}
        /\ \A e \in Drains \ {d} : pc'[e] = pc[e] /\ items'[e] = items[e]
        /\ UNCHANGED <<pending, todo, frames, fate>>
    BY <1>3 DEF ReturnEmpty, Unlock, buffer, TypeOK
  <2>. QED
    BY <2>1 DEF HeldLive, Path
<1>4. ASSUME NEW d \in Drains, Coalesce(d)
      PROVE  HeldLive'
  <2>1. Settles(d, {f \in items[d] : Path(f) \notin todo'}, "dropped")
    BY <1>4, CoalesceSettles
  <2>2. {f \in items[d] : Path(f) \notin todo'} \in SUBSET Frames
    BY DEF TypeOK
  <2>3. \A f \in items[d] : fate[f] = "live"
    BY <1>4 DEF HeldLive, Coalesce, Owns
  <2>4. /\ UNCHANGED <<pending, items, frames>> /\ pc' = [pc EXCEPT ![d] = "sending"]
        /\ "dropped" \in Fates \ {"live"}
    BY <1>4 DEF Coalesce, buffer, Fates
  <2>. QED
    BY <2>1, <2>2, <2>3, <2>4, HeldLiveSettles
<1>5. ASSUME NEW d \in Drains, BackoffDone(d) \/ Reports(d)
      PROVE  HeldLive'
  <2>1. /\ \/ pc[d] = "backoff" /\ pc'[d] = "sending"
           \/ pc'[d] \in {"idle", "reporting"}
        /\ \A e \in Drains \ {d} : pc'[e] = pc[e]
        /\ UNCHANGED <<pending, items, todo, frames, fate>>
    BY <1>5 DEF BackoffDone, Owns, Reports, Report, buffer, lock, TypeOK
  <2>. QED
    BY <2>1 DEF HeldLive, Path
<1>6. ASSUME NEW F \in late, Land(F) PROVE HeldLive'
  BY <1>6 DEF Land, HeldLive, Path, buffer, lock
<1>7. CASE UNCHANGED vars
  BY <1>7 DEF vars, HeldLive, Path, buffer, lock
<1>. QED
  BY <1>1, <1>2, <1>3, <1>4, <1>5, <1>6, <1>7, HeldLiveAppends DEF Next, Flush, StartEager

\* The frames of an append that timed out were live, and are given up on with it.
LEMMA LateKept ==
    ASSUME IInv, HeldLive, LateTimedOut, [Next]_vars
    PROVE  LateTimedOut'
<1>1. \A F \in late : F \subseteq Frames
  BY DEF IInv, TypeOK
<1>2. ASSUME late' \subseteq late
      PROVE  LateTimedOut'
  <2>. SUFFICES ASSUME NEW F \in late', NEW f \in F PROVE fate'[f] = "timedout"
    BY DEF LateTimedOut
  <2>1. F \in late /\ f \in Frames /\ fate[f] = "timedout"
    BY <1>1, <1>2 DEF LateTimedOut
  <2>2. CASE UNCHANGED <<frames, fate>>
    BY <2>1, <2>2
  <2>3. CASE \E k \in FrameKinds : Enqueue(k)
    BY <2>1, <2>3, EnqueueEffect DEF IInv
  <2>4. CASE FateStep
    BY <2>1, <2>4, FatesFinal DEF FateStep
  <2>. QED
    BY <2>2, <2>3, <2>4, FateSteps
<1>3. ASSUME NEW d \in Drains, NEW p \in Mapped, AppendTimesOut(d, p)
      PROVE  LateTimedOut'
  <2>1. Settles(d, Batch(d, p), "timedout")
    BY <1>3, BatchSettles DEF AppendTimesOut, GiveUp
  <2>2. "timedout" \in Fates \ {"live"} /\ Batch(d, p) \subseteq Frames
    BY BatchType DEF Fates, IInv
  <2>3. late' = late \cup {NonEmpty(Batch(d, p))}
    BY <1>3 DEF AppendTimesOut
  <2>4. \A F \in late : \A f \in F : fate'[f] = "timedout"
    BY <1>1, <2>1, <2>2, FatesFinal DEF LateTimedOut
  <2>5. \A f \in NonEmpty(Batch(d, p)) : fate'[f] = "timedout"
    BY <2>1, <2>2, FatesFinal DEF NonEmpty
  <2>. QED
    BY <2>3, <2>4, <2>5 DEF LateTimedOut
<1>4. ASSUME NEW d \in Drains, AppendReturns(d)
      PROVE  LateTimedOut'
  <2>1. CASE \E p \in Mapped : AppendTimesOut(d, p)
    BY <1>3, <2>1
  <2>2. CASE \E p \in Mapped : AppendOk(d, p) \/ AppendRetry(d, p) \/ AppendFails(d, p)
    BY <1>2, <2>2 DEF AppendOk, AppendRetry, AppendFails
  <2>. QED
    BY <1>4, <2>1, <2>2 DEF AppendReturns
<1>5. ASSUME NEW d \in Drains,
             \/ Drain(d) \/ ReturnEmpty(d) \/ Coalesce(d) \/ BackoffDone(d)
             \/ Unlock(d) \/ Reports(d)
      PROVE  late' = late
  BY <1>5 DEF Drain, ReturnEmpty, Coalesce, BackoffDone, Unlock, Reports, Report, adapter
<1>6. ASSUME NEW k \in FrameKinds, Enqueue(k) PROVE late' = late
  BY <1>6 DEF Enqueue, adapter
<1>7. ASSUME NEW F \in late, Land(F) PROVE late' \subseteq late
  BY <1>7 DEF Land
<1>8. CASE UNCHANGED vars
  BY <1>2, <1>8 DEF vars, adapter
<1>. QED
  BY <1>2, <1>4, <1>5, <1>6, <1>7, <1>8 DEF Next, Flush, StartEager

\* What is known of a frame stays known.
LEMMA HistoryKept ==
    ASSUME IInv, HeldLive, [Next]_vars, NEW f \in Frames
    PROVE  /\ f \in Frames' /\ frames'[f] = frames[f]
           /\ fate[f] # "live" => fate'[f] = fate[f]
           /\ fate'[f] = "live" => fate[f] = "live"
<1>1. CASE UNCHANGED <<frames, fate>>
  BY <1>1
<1>2. ASSUME NEW k \in FrameKinds, Enqueue(k)
      PROVE  f \in Frames' /\ frames'[f] = frames[f] /\ fate'[f] = fate[f]
  BY <1>2, EnqueueEffect DEF IInv
<1>3. CASE frames' = frames /\ FateStep
  BY <1>3, FatesFinal DEF FateStep
<1>. QED
  BY <1>1, <1>2, <1>3, FateSteps

\* What a step writes, and where: to one file, behind what is there.
LEMMA StoreKept ==
    ASSUME IInv, [Next]_vars
    PROVE  \A p \in Paths :
              /\ \A i \in DOMAIN store[p] :
                    /\ i \in DOMAIN store'[p] /\ store'[p][i] = store[p][i]
                    /\ store[p][i] \subseteq Frames
              /\ \A i \in DOMAIN store'[p] \ DOMAIN store[p] :
                    /\ frames' = frames /\ store'[p][i] \subseteq Frames
                    /\ OwnWrite(p, store'[p][i]) \/ LateWrite(p, store'[p][i])
                    /\ \A j \in DOMAIN store[p] : j < i
                    /\ i = Len(store'[p])
<1>1. store \in [Paths -> Seq(SUBSET Frames)]
  BY DEF IInv, TypeOK
<1>2. \A p \in Paths : \A i \in DOMAIN store[p] : store[p][i] \subseteq Frames
  BY <1>1
<1>3. CASE store' = store
  BY <1>2, <1>3
<1>4. ASSUME NEW p \in Paths, NEW W \in SUBSET Frames, StoreStep(p, W), frames' = frames,
             NEW q \in Paths
      PROVE  /\ \A i \in DOMAIN store[q] :
                   /\ i \in DOMAIN store'[q] /\ store'[q][i] = store[q][i]
             /\ \A i \in DOMAIN store'[q] \ DOMAIN store[q] :
                   /\ frames' = frames /\ store'[q][i] \subseteq Frames
                   /\ OwnWrite(q, store'[q][i]) \/ LateWrite(q, store'[q][i])
                   /\ \A j \in DOMAIN store[q] : j < i
                   /\ i = Len(store'[q])
  <2>1. TypeOK /\ Write(p, W)
    BY <1>4 DEF IInv, StoreStep
  <2>2. \A i \in DOMAIN store'[q] \ DOMAIN store[q] : q = p /\ store'[q][i] = W
    BY <2>1, WriteGrows
  <2>3. OwnWrite(p, W) \/ LateWrite(p, W)
    BY <1>4 DEF StoreStep
  <2>. QED
    BY <1>4, <2>1, <2>2, <2>3, WriteGrows
<1>. QED
  BY <1>2, <1>3, <1>4, StoreSteps

\* The frames the owner writes are live, of that file, and have entries; what is
\* older, live and of that file is written with them.
LEMMA OwnWriteLive ==
    ASSUME IInv, HeldLive, NEW p, NEW W, OwnWrite(p, W), NEW f \in W
    PROVE  /\ f \in Frames /\ Path(f) = p /\ fate[f] = "live" /\ frames[f].entries > 0
           /\ \A g \in With("live") :
                 Path(g) = p /\ frames[g].entries > 0 /\ g < f => g \in W
<1>1. PICK d \in Drains : Appending(d, p) /\ Beginning(W, NonEmpty(Batch(d, p)))
  BY DEF OwnWrite
<1>2. /\ IsOwner(d) /\ pc[d] = "sending" /\ p \in todo /\ items[d] \subseteq Frames
  BY <1>1 DEF Appending, Owns, IsOwner, IInv, TypeOK
<1>3. f \in items[d] /\ Path(f) = p /\ frames[f].entries > 0
  BY <1>1 DEF Beginning, NonEmpty, Batch, Bucket
<1>4. fate[f] = "live"
  BY <1>2, <1>3 DEF HeldLive
<1>5. ASSUME NEW g \in With("live"), Path(g) = p, frames[g].entries > 0, g < f
      PROVE  g \in W
  <2>1. g \in Frames /\ f \in Nat /\ g \in Nat
    BY <1>2, <1>3, Types DEF With
  <2>2. g \in items[d]
    BY <1>2, <1>3, <1>5, <2>1, OwnerOldest DEF With
  <2>3. g \in NonEmpty(Batch(d, p))
    BY <1>5, <2>2 DEF NonEmpty, Batch, Bucket
  <2>. QED
    BY <1>1, <1>5, <2>3 DEF Beginning
<1>. QED
  BY <1>2, <1>3, <1>4, <1>5

LEMMA LateWriteDead ==
    ASSUME LateTimedOut, NEW p, NEW W, LateWrite(p, W), NEW f \in W
    PROVE  Path(f) = p /\ fate[f] = "timedout" /\ fate'[f] = "timedout"
  BY DEF LateWrite, LateTimedOut, Bucket

LEMMA StoredUnderKept ==
    ASSUME IInv, HeldLive, LateTimedOut, StoredUnder, [Next]_vars
    PROVE  StoredUnder'
<1>. SUFFICES ASSUME NEW p \in Paths, NEW i \in DOMAIN store'[p], NEW f \in store'[p][i]
     PROVE  /\ Path(f)' = p
            /\ fate'[f] = "live" => \A g \in With("live")' :
                  Path(g)' = p /\ frames'[g].entries > 0 /\ g < f => g \in store'[p][i]
  BY DEF StoredUnder
<1>1. CASE i \in DOMAIN store[p]
  <2>1. f \in store[p][i] /\ f \in Frames
    BY <1>1, StoreKept
  <2>2. Path(f) = p /\ Path(f)' = p
    BY <1>1, <2>1, HistoryKept DEF StoredUnder, Path
  <2>3. ASSUME fate'[f] = "live", NEW g \in With("live")', Path(g)' = p,
               frames'[g].entries > 0, g < f
        PROVE  g \in store[p][i]
    <3>1. fate[f] = "live"
      BY <2>1, <2>3, HistoryKept
    <3>2. g \in Frames
      <4>1. TypeOK' /\ TypeOK
        BY TypeNext DEF IInv
      <4>2. g \in 1..Len(frames')
        BY <2>3, <4>1, Numbered DEF With
      <4>3. Frames = 1..Len(frames) /\ Len(frames) \in Nat /\ Len(frames') \in Nat
        BY <4>1, Numbered
      <4>. QED
        BY <2>1, <2>3, <4>2, <4>3
    <3>3. fate[g] = "live" /\ Path(g) = p /\ frames[g].entries > 0
      BY <2>3, <3>2, HistoryKept DEF With, Path
    <3>. QED
      BY <1>1, <2>1, <2>3, <3>1, <3>2, <3>3 DEF StoredUnder, With
  <2>. QED
    BY <1>1, <2>2, <2>3, StoreKept
<1>2. CASE i \notin DOMAIN store[p]
  <2>1. frames' = frames /\ store'[p][i] \subseteq Frames
    BY <1>2, StoreKept
  <2>2. CASE OwnWrite(p, store'[p][i])
    <3>1. \A g \in With("live")' : g \in With("live")
      BY <2>1, HistoryKept DEF With
    <3>2. Path(f) = p /\ \A g \in With("live") :
              Path(g) = p /\ frames[g].entries > 0 /\ g < f => g \in store'[p][i]
      BY <2>2, OwnWriteLive
    <3>. QED
      BY <2>1, <3>1, <3>2 DEF Path
  <2>3. CASE LateWrite(p, store'[p][i])
    BY <2>1, <2>3, LateWriteDead DEF Path
  <2>. QED
    BY <1>2, <2>2, <2>3, StoreKept
<1>. QED
  BY <1>1, <1>2

LEMMA DedupedKept ==
    ASSUME IInv, HeldLive, LateTimedOut, SettledOlder, StoredUnder, DedupedOrder,
           [Next]_vars
    PROVE  DedupedOrder'
<1>. SUFFICES ASSUME NEW p \in Paths, NEW i \in DOMAIN store'[p],
                     NEW j \in DOMAIN store'[p], i < j,
                     NEW f \in store'[p][i], NEW g \in store'[p][j]
     PROVE  \/ f <= g
            \/ \E h \in 1..i : g \in store'[p][h]
            \/ fate'[g] = "timedout"
  BY DEF DedupedOrder
<1>1. /\ DOMAIN store[p] = 1..Len(store[p]) /\ Len(store[p]) \in Nat
      /\ DOMAIN store'[p] = 1..Len(store'[p]) /\ Len(store'[p]) \in Nat
  <2>1. TypeOK /\ TypeOK'
    BY TypeNext DEF IInv
  <2>2. store[p] \in Seq(SUBSET Frames) /\ store'[p] \in Seq(SUBSET Frames')
    BY <2>1 DEF TypeOK
  <2>. QED
    BY <2>2
<1>2. i \in DOMAIN store[p] /\ f \in store[p][i] /\ f \in Frames
  BY <1>1, StoreKept
<1>3. CASE j \in DOMAIN store[p]
  <2>1. g \in store[p][j] /\ g \in Frames
    BY <1>3, StoreKept
  <2>2. \/ f <= g
        \/ \E h \in 1..i : g \in store[p][h]
        \/ fate[g] = "timedout"
    BY <1>2, <1>3, <2>1 DEF DedupedOrder
  <2>3. ASSUME NEW h \in 1..i, g \in store[p][h] PROVE g \in store'[p][h]
    BY <1>1, <1>2, <2>3, StoreKept
  <2>4. fate[g] = "timedout" => fate'[g] = "timedout"
    BY <2>1, HistoryKept
  <2>. QED
    BY <2>2, <2>3, <2>4
<1>4. CASE j \notin DOMAIN store[p]
  <2>1. CASE LateWrite(p, store'[p][j])
    BY <2>1, LateWriteDead
  <2>2. CASE OwnWrite(p, store'[p][j])
    <3>1. g \in Frames /\ Path(g) = p /\ fate[g] = "live" /\ frames[g].entries > 0
      BY <2>2, OwnWriteLive
    <3>2. Path(f) = p /\ f \in Nat /\ g \in Nat
      BY <1>2, <3>1, Types DEF StoredUnder
    <3>3. CASE fate[f] # "live"
      BY <1>2, <3>1, <3>2, <3>3 DEF SettledOlder
    <3>4. CASE fate[f] = "live" /\ g < f
      <4>1. g \in store[p][i]
        BY <1>2, <3>1, <3>4 DEF StoredUnder, With
      <4>2. i \in 1..i /\ store'[p][i] = store[p][i]
        BY <1>1, <1>2, StoreKept
      <4>. QED
        BY <4>1, <4>2
    <3>. QED
      BY <3>2, <3>3, <3>4
  <2>. QED
    BY <1>4, <2>1, <2>2, StoreKept
<1>. QED
  BY <1>3, <1>4

-----------------------------------------------------------------------------
(***************************************************************************)
(* Losses                                                                  *)
(***************************************************************************)
Lost == With("failed") \cup With("timedout")
Owed == UNION {UNION errors[d] : d \in Drains}
LossKnown == Lost = reported \cup Owed
AckStored ==
    \A f \in With("acked") : frames[f].entries > 0 =>
        \E i \in DOMAIN store[Path(f)] : f \in store[Path(f)][i]

\* What is in the store stays there.
LEMMA StaysStored ==
    ASSUME IInv, HeldLive, AckStored, [Next]_vars,
           NEW f \in With("acked"), frames[f].entries > 0
    PROVE  \E i \in DOMAIN store'[Path(f)'] : f \in store'[Path(f)'][i]
<1>1. f \in Frames
  BY DEF With
<1>2. Path(f)' = Path(f)
  BY <1>1, HistoryKept DEF Path
<1>3. Path(f) \in Paths
  BY <1>1, FrameType DEF IInv, Path
<1>. QED
  BY <1>2, <1>3, StoreKept DEF AckStored

\* A frame that was acknowledged now has just been written.
LEMMA AckStoredKept ==
    ASSUME IInv, HeldLive, AckStored, [Next]_vars,
           NEW d \in Drains, NEW F \in SUBSET Frames, NEW y \in Fates \ {"live"},
           Settles(d, F, y), frames' = frames,
           y = "acked" => \A f \in F : frames[f].entries > 0 =>
               \E i \in DOMAIN store'[Path(f)] : f \in store'[Path(f)][i]
    PROVE  AckStored'
<1>. SUFFICES ASSUME NEW f \in Frames, fate'[f] = "acked", frames[f].entries > 0
     PROVE  \E i \in DOMAIN store'[Path(f)'] : f \in store'[Path(f)'][i]
  BY DEF AckStored, With
<1>1. Path(f)' = Path(f)
  BY DEF Path
<1>2. CASE f \in F
  BY <1>1, <1>2, FatesFinal
<1>3. CASE f \notin F
  <2>1. fate[f] = "acked"
    BY <1>3, FatesFinal, SettledType DEF Settles, IInv
  <2>. QED
    BY <2>1, StaysStored DEF With
<1>. QED
  BY <1>2, <1>3

\* Giving up on a batch adds it to the losses and to what is to be reported.
LEMMA GiveUpKnown ==
    ASSUME IInv, HeldLive, LossKnown, NEW d \in Drains, NEW p \in Mapped,
           NEW y \in {"failed", "timedout"}, Appending(d, p), GiveUp(d, p, y)
    PROVE  LossKnown'
<1>1. Batch(d, p) \in SUBSET Frames /\ y \in Fates \ {"live"}
  BY BatchType DEF IInv, Fates
<1>2. Settles(d, Batch(d, p), y)
  BY BatchSettles DEF GiveUp
<1>3. \A f \in Frames : fate'[f] = IF f \in Batch(d, p) THEN y ELSE fate[f]
  BY <1>1, SettledType DEF GiveUp, IInv
<1>4. \A f \in Batch(d, p) : fate[f] = "live"
  BY <1>2 DEF Settles
<1>5. Lost' = Lost \cup Batch(d, p)
  BY <1>1, <1>3, <1>4 DEF Lost, With, GiveUp
<1>6. Owed' = Owed \cup Batch(d, p)
  <2>1. \A e \in Drains :
            errors'[e] = IF e = d THEN errors[e] \cup {Batch(d, p)} ELSE errors[e]
    BY DEF GiveUp, IInv, TypeOK
  <2>2. \A f : f \in Owed' <=> f \in Owed \/ f \in Batch(d, p)
    <3>1. \A f : f \in Owed <=> \E e \in Drains : \E F \in errors[e] : f \in F
      BY DEF Owed
    <3>2. \A f : f \in Owed' <=> \E e \in Drains : \E F \in errors'[e] : f \in F
      BY DEF Owed
    <3>. QED
      BY <2>1, <3>1, <3>2
  <2>. QED
    BY <2>2
<1>7. reported' = reported
  BY DEF GiveUp
<1>. QED
  BY <1>5, <1>6, <1>7 DEF LossKnown

\* An end that is no loss changes neither side.
LEMMA NoLossKnown ==
    ASSUME IInv, LossKnown, NEW d \in Drains, NEW F \in SUBSET Frames,
           NEW y \in {"acked", "dropped"}, Settles(d, F, y),
           UNCHANGED <<frames, errors, reported>>
    PROVE  LossKnown'
<1>1. \A f \in Frames : fate'[f] = IF f \in F THEN y ELSE fate[f]
  BY SettledType DEF Settles, IInv, Fates
<1>2. Lost' = Lost
  BY <1>1 DEF Lost, With, Settles
<1>3. Owed' = Owed
  BY DEF Owed
<1>. QED
  BY <1>2, <1>3 DEF LossKnown

\* on_error is called for one batch of the list.
LEMMA ReportKnown ==
    ASSUME IInv, LossKnown, NEW d \in Drains, NEW F \in errors[d], Report(d, F)
    PROVE  LossKnown'
<1>1. \A e \in Drains : errors'[e] = IF e = d THEN errors[e] \ {F} ELSE errors[e]
  BY DEF Report, IInv, TypeOK
<1>2. \A f : f \in reported' \cup Owed' <=> f \in reported \cup Owed
  <2>1. \A f : f \in Owed <=> \E e \in Drains : \E G \in errors[e] : f \in G
    BY DEF Owed
  <2>2. \A f : f \in Owed' <=> \E e \in Drains : \E G \in errors'[e] : f \in G
    BY DEF Owed
  <2>3. reported' = reported \cup F
    BY DEF Report
  <2>. QED
    BY <1>1, <2>1, <2>2, <2>3
<1>3. Lost' = Lost
  BY DEF Report, Lost, With
<1>. QED
  BY <1>2, <1>3 DEF LossKnown

LEMMA LossAppends ==
    ASSUME IInv, HeldLive, LossKnown, AckStored, [Next]_vars,
           NEW d \in Drains, AppendReturns(d)
    PROVE  LossKnown' /\ AckStored'
<1>1. PICK p \in Mapped : \/ AppendOk(d, p) \/ AppendRetry(d, p)
                          \/ AppendFails(d, p) \/ AppendTimesOut(d, p)
  BY DEF AppendReturns
<1>2. Batch(d, p) \in SUBSET Frames /\ p \in Paths /\ NonEmpty(Batch(d, p)) \in SUBSET Frames
  BY BatchType, PathsAssumption DEF IInv
<1>3. ASSUME NEW y \in {"failed", "timedout"}, Appending(d, p), GiveUp(d, p, y)
      PROVE  LossKnown' /\ AckStored'
  <2>1. y \in Fates \ {"live"} /\ y # "acked" /\ frames' = frames
    BY <1>3 DEF Fates, GiveUp
  <2>2. Settles(d, Batch(d, p), y)
    BY <1>3, BatchSettles DEF GiveUp
  <2>. QED
    BY <1>2, <1>3, <2>1, <2>2, GiveUpKnown, AckStoredKept
<1>4. CASE AppendOk(d, p)
  <2>1. Settles(d, Batch(d, p), "acked")
    BY <1>4, BatchSettles DEF AppendOk
  <2>2. UNCHANGED <<frames, errors, reported>> /\ Write(p, NonEmpty(Batch(d, p)))
    BY <1>4 DEF AppendOk
  <2>3. ASSUME NEW f \in Batch(d, p), frames[f].entries > 0
        PROVE  \E i \in DOMAIN store'[Path(f)] : f \in store'[Path(f)][i]
    <3>1. f \in NonEmpty(Batch(d, p)) /\ Path(f) = p
      BY <2>3 DEF NonEmpty, Batch, Bucket
    <3>2. NonEmpty(Batch(d, p)) # {} /\ TypeOK
      BY <3>1 DEF IInv
    <3>3. \E i \in DOMAIN store'[p] : store'[p][i] = NonEmpty(Batch(d, p))
      BY <1>2, <2>2, <3>2, WriteGrows
    <3>. QED
      BY <3>1, <3>3
  <2>4. "acked" \in Fates \ {"live"}
    BY DEF Fates
  <2>5. LossKnown'
    BY <1>2, <2>1, <2>2, NoLossKnown
  <2>6. AckStored'
    BY <1>2, <2>1, <2>2, <2>3, <2>4, AckStoredKept
  <2>. QED
    BY <2>5, <2>6
<1>5. CASE AppendFails(d, p)
  BY <1>3, <1>5 DEF AppendFails
<1>6. CASE AppendTimesOut(d, p)
  BY <1>3, <1>6 DEF AppendTimesOut
<1>7. CASE AppendRetry(d, p)
  <2>1. UNCHANGED <<frames, fate, errors, reported>>
    BY <1>7 DEF AppendRetry
  <2>2. LossKnown'
    BY <2>1 DEF LossKnown, Lost, With, Owed
  <2>3. AckStored'
    BY <2>1, StaysStored DEF AckStored, With
  <2>. QED
    BY <2>2, <2>3
<1>. QED
  BY <1>1, <1>4, <1>5, <1>6, <1>7

LEMMA LossKept ==
    ASSUME IInv, HeldLive, LossKnown, AckStored, [Next]_vars
    PROVE  LossKnown' /\ AckStored'
<1>1. ASSUME UNCHANGED <<frames, fate>>
      PROVE  AckStored'
  BY <1>1, StaysStored DEF AckStored, With
<1>2. ASSUME UNCHANGED <<frames, fate, errors, reported>>
      PROVE  LossKnown' /\ AckStored'
  <2>1. LossKnown'
    BY <1>2 DEF LossKnown, Lost, With, Owed
  <2>. QED
    BY <1>1, <1>2, <2>1
<1>3. ASSUME NEW k \in FrameKinds, Enqueue(k)
      PROVE  LossKnown' /\ AckStored'
  <2>0. TypeOK
    BY DEF IInv
  <2>1. \A y \in Fates \ {"live"} : With(y)' = With(y)
    BY <1>3, <2>0, EnqueueEffect, Numbered DEF With
  <2>2. LossKnown'
    BY <1>3, <2>0, <2>1, EnqueueEffect DEF LossKnown, Lost, Owed, Fates
  <2>3. With("acked")' = With("acked")
    BY <2>1 DEF Fates
  <2>4. \A f \in With("acked") : frames'[f] = frames[f]
    BY <1>3, <2>0, EnqueueEffect DEF With
  <2>5. AckStored'
    BY <2>3, <2>4, StaysStored DEF AckStored
  <2>. QED
    BY <2>2, <2>5
<1>4. ASSUME NEW d \in Drains, Coalesce(d)
      PROVE  LossKnown' /\ AckStored'
  <2>1. Settles(d, {f \in items[d] : Path(f) \notin todo'}, "dropped")
    BY <1>4, CoalesceSettles
  <2>2. {f \in items[d] : Path(f) \notin todo'} \in SUBSET Frames
    BY DEF IInv, TypeOK
  <2>3. UNCHANGED <<frames, errors, reported>> /\ "dropped" \in Fates \ {"live"}
    BY <1>4 DEF Coalesce, Fates
  <2>. QED
    BY <2>1, <2>2, <2>3, NoLossKnown, AckStoredKept
<1>5. ASSUME NEW d \in Drains, Drain(d) \/ ReturnEmpty(d) \/ BackoffDone(d) \/ Unlock(d)
      PROVE  LossKnown' /\ AckStored'
  BY <1>2, <1>5 DEF Drain, ReturnEmpty, BackoffDone, Unlock
<1>6. ASSUME NEW d \in Drains, Reports(d)
      PROVE  LossKnown' /\ AckStored'
  BY <1>1, <1>6, ReportKnown DEF Reports, Report
<1>7. ASSUME NEW F \in late, Land(F)
      PROVE  LossKnown' /\ AckStored'
  BY <1>2, <1>7 DEF Land
<1>8. CASE UNCHANGED vars
  BY <1>2, <1>8 DEF vars
<1>. QED
  BY <1>3, <1>4, <1>5, <1>6, <1>7, <1>8, LossAppends DEF Next, Flush, StartEager

-----------------------------------------------------------------------------
(***************************************************************************)
(* The store                                                               *)
(***************************************************************************)
LEMMA LossIs == LossAccounted <=> LossKnown /\ AckStored
  BY DEF LossAccounted, LossKnown, AckStored, Lost, Owed

LEMMA StoreInit == Init => StoreInv
<1>. SUFFICES ASSUME Init PROVE StoreInv
  OBVIOUS
<1>1. IInv
  BY IInvInit
<1>2. HeldLive /\ LateTimedOut /\ SettledOlder /\ StoredUnder /\ DedupedOrder
  BY DEF Init, HeldLive, LateTimedOut, SettledOlder, StoredUnder, DedupedOrder
<1>3. Lost = {} /\ Owed = {} /\ With("acked") = {} /\ reported = {}
  BY DEF Init, Lost, Owed, With
<1>. QED
  BY <1>1, <1>2, <1>3, LossIs DEF StoreInv, LossKnown, AckStored

LEMMA StoreNext == StoreInv /\ [Next]_vars => StoreInv'
<1>. SUFFICES ASSUME StoreInv, [Next]_vars PROVE StoreInv'
  OBVIOUS
<1>. USE DEF StoreInv
<1>1. IInv' /\ HeldLive' /\ LateTimedOut' /\ SettledOlder' /\ StoredUnder' /\ DedupedOrder'
  BY IInvNext, HeldLiveKept, LateKept, SettledOlderKept, StoredUnderKept, DedupedKept
<1>2. LossKnown' /\ AckStored'
  BY LossIs, LossKept
<1>3. LossAccounted'
  BY <1>2 DEF LossAccounted, LossKnown, AckStored, Lost, Owed
<1>. QED
  BY <1>1, <1>3

(***************************************************************************)
(* What is held, what is late and what is written, at every moment: the    *)
(* promises about the store below follow from it.                          *)
(***************************************************************************)
THEOREM StoreInvariance == Spec => []StoreInv
  BY StoreInit, StoreNext, PTL DEF Spec

(***************************************************************************)
(* A reader that keeps the first copy of each frame reads a file's frames  *)
(* in the order they were enqueued, whatever appends failed halfway, were  *)
(* repeated, or landed after their timeout.                                *)
(***************************************************************************)
THEOREM OrderHolds == Spec => []DedupedOrder
<1>1. StoreInv => DedupedOrder
  BY DEF StoreInv
<1>. QED
  BY <1>1, StoreInvariance, PTL

(***************************************************************************)
(* No silent loss: what was given up on is reported or about to be, and    *)
(* what was acknowledged is in the store.                                  *)
(***************************************************************************)
THEOREM LossesKnown == Spec => []LossAccounted
<1>1. StoreInv => LossAccounted
  BY DEF StoreInv
<1>. QED
  BY <1>1, StoreInvariance, PTL

(***************************************************************************)
(* Nothing that an append has acknowledged is written again, by a retry, a *)
(* later flush, or an append that lands after its timeout.                 *)
(***************************************************************************)
THEOREM NoCopies == Spec => NoCopyAfterAck
<1>1. StoreInv /\ [Next]_vars =>
          [\A p \in Paths : Len(store'[p]) > Len(store[p]) =>
              store'[p][Len(store'[p])] \cap With("acked") = {}]_vars
  <2>. SUFFICES ASSUME StoreInv, [Next]_vars, NEW p \in Paths,
                       Len(store'[p]) > Len(store[p])
                PROVE  store'[p][Len(store'[p])] \cap With("acked") = {}
    OBVIOUS
  <2>. DEFINE n == Len(store'[p])
  <2>. USE DEF StoreInv
  <2>1. n \in DOMAIN store'[p] /\ n \notin DOMAIN store[p]
    <3>1. TypeOK /\ TypeOK'
      BY TypeNext DEF IInv
    <3>2. store[p] \in Seq(SUBSET Frames) /\ store'[p] \in Seq(SUBSET Frames')
      BY <3>1 DEF TypeOK
    <3>. QED
      BY <3>2
  <2>2. OwnWrite(p, store'[p][n]) \/ LateWrite(p, store'[p][n])
    BY <2>1, StoreKept
  <2>3. \A f \in store'[p][n] : fate[f] # "acked"
    BY <2>2, OwnWriteLive, LateWriteDead
  <2>. QED
    BY <2>3 DEF With
<1>. QED
  BY <1>1, StoreInvariance, PTL DEF Spec, NoCopyAfterAck

-----------------------------------------------------------------------------
(***************************************************************************)
(* The contract                                                            *)
(***************************************************************************)
\* What is settled leaves no older frame of its file behind.
LEMMA SettlesInOrder ==
    ASSUME IInv, NEW d \in Drains, NEW F \in SUBSET Frames,
           NEW y \in Fates \ {"live"}, Settles(d, F, y), frames' = frames,
           {c \in Callers : pc'[c] # "idle"} = {c \in Callers : pc[c] # "idle"},
           horizon' = horizon
    PROVE  Contract!Next
<1>1. F \in SUBSET With("live")
  BY DEF Settles, With
<1>2. Contract!InOrder(F)
  <2>. SUFFICES ASSUME NEW f \in F, NEW g \in With("live"), Path(g) = Path(f), g < f
                PROVE  g \in F
    BY <1>1 DEF Contract!InOrder, With
  <2>1. f \in items[d] /\ f \in Nat /\ g \in Frames /\ g \in Nat /\ IsOwner(d)
    <3>1. f \in items[d] /\ IsOwner(d) /\ f \in Frames /\ g \in Frames
      BY DEF Settles, With
    <3>2. Frames \subseteq Nat
      BY DEF IInv, TypeOK
    <3>. QED
      BY <3>1, <3>2
  <2>2. g \in items[d]
    BY <2>1, OwnerOldest DEF With
  <2>. QED
    BY <2>2 DEF Settles
<1>3. With("live")' = With("live") \ F
  BY FatesFinal DEF With
<1>4. Contract!Settle(F)
  BY <1>2, <1>3 DEF Contract!Settle, Path
<1>. QED
  BY <1>1, <1>4 DEF Contract!Next

\* A call that ends has left nothing behind that was there when it began.
LEMMA EndsCall ==
    ASSUME FlushBarrier, NEW d \in Drains,
           pc[d] # "idle", \A f \in With("live") : f > horizon[d],
           pc' = [pc EXCEPT ![d] = "idle"],
           pc \in [Drains -> {"idle", "spawned", "reporting"} \cup InDrain],
           UNCHANGED <<frames, fate, horizon>>
    PROVE  [Contract!Next]_(Contract!vars)
<1>1. /\ [f \in Frames |-> Path(f)]' = [f \in Frames |-> Path(f)]
      /\ With("live")' = With("live")
      /\ [c \in Callers |-> horizon[c]]' = [c \in Callers |-> horizon[c]]
  BY DEF With, Path
<1>2. CASE d \in Callers
  <2>1. {c \in Callers : pc'[c] # "idle"} = {c \in Callers : pc[c] # "idle"} \ {d}
    BY <1>2
  <2>2. Contract!ReturnFlush(d)
    BY <1>1, <1>2, <2>1 DEF Contract!ReturnFlush
  <2>. QED
    BY <1>2, <2>2 DEF Contract!Next
<1>3. CASE d \notin Callers
  <2>1. {c \in Callers : pc'[c] # "idle"} = {c \in Callers : pc[c] # "idle"}
    BY <1>3
  <2>. QED
    BY <1>1, <2>1 DEF Contract!vars
<1>. QED
  BY <1>2, <1>3

\* A step that the contract does not see.
LEMMA Unseen ==
    ASSUME UNCHANGED <<frames, fate, horizon>>,
           {c \in Callers : pc'[c] # "idle"} = {c \in Callers : pc[c] # "idle"}
    PROVE  [Contract!Next]_(Contract!vars)
  BY DEF Contract!vars, With, Path

\* A frame that is enqueued is accepted; an eager flush is nobody's call.
LEMMA EnqueueAccepts ==
    ASSUME IInv, NEW k \in FrameKinds, Enqueue(k)
    PROVE  Contract!Next
<1>. DEFINE n == Len(frames)
<1>1. TypeOK /\ k \in [path : Paths, entries : Nat, bytes : Nat]
  BY PathsAssumption DEF IInv
<1>2. /\ n \in Nat /\ Frames = 1..n /\ Frames' = 1..(n + 1)
      /\ \A f \in 1..n : fate'[f] = fate[f] /\ frames'[f] = frames[f]
      /\ fate'[n + 1] = "live" /\ frames'[n + 1] = k
  BY <1>1, EnqueueEffect
<1>3. [f \in Frames |-> Path(f)] \in Seq(Paths) /\ Len([f \in Frames |-> Path(f)]) = n
  <2>1. \A f \in 1..n : frames[f] \in [path : Paths, entries : Nat, bytes : Nat]
    BY <1>1, <1>2, FrameType
  <2>2. \A f \in 1..n : Path(f) \in Paths
    BY <2>1 DEF Path
  <2>3. [f \in 1..n |-> Path(f)] \in Seq(Paths) /\ Len([f \in 1..n |-> Path(f)]) = n
    BY <1>2, <2>2, IsASeq
  <2>. QED
    BY <1>2, <2>3
<1>4. [f \in Frames |-> Path(f)]' = Append([f \in Frames |-> Path(f)], k.path)
  <2>. DEFINE s == [f \in 1..n |-> Path(f)]
              t == [f \in 1..(n + 1) |-> Path(f)']
  <2>1. s \in Seq(Paths) /\ Len(s) = n /\ k.path \in Paths
    BY <1>1, <1>2, <1>3
  <2>2. /\ Append(s, k.path) \in Seq(Paths) /\ Len(Append(s, k.path)) = n + 1
        /\ \A i \in 1..n : Append(s, k.path)[i] = s[i]
        /\ Append(s, k.path)[n + 1] = k.path
    BY <2>1, AppendProperties
  <2>3. \A i \in 1..(n + 1) : t[i] = Append(s, k.path)[i]
    BY <1>2, <2>2 DEF Path
  <2>4. t \in Seq(Paths) /\ Len(t) = n + 1
    <3>1. \A i \in 1..(n + 1) : t[i] \in Paths
      BY <1>2, <2>1, <2>2, <2>3
    <3>2. n + 1 \in Nat
      BY <1>2
    <3>. QED
      BY <3>1, <3>2, IsASeq
  <2>5. t = Append(s, k.path)
    <3>. HIDE DEF s, t
    <3>. QED
      BY <2>2, <2>3, <2>4, SeqEqual
  <2>. QED
    BY <1>2, <2>5
<1>5. With("live")' = With("live") \cup {n + 1}
  BY <1>2 DEF With
<1>6. {c \in Callers : pc'[c] # "idle"} = {c \in Callers : pc[c] # "idle"}
  BY TasksAssumption DEF Enqueue, IInv, TypeOK
<1>7. horizon' = horizon
  BY DEF Enqueue
<1>8. Contract!Accept(k.path)
  BY <1>3, <1>4, <1>5, <1>6, <1>7 DEF Contract!Accept
<1>. QED
  BY <1>1, <1>8 DEF Contract!Next

LEMMA FlushCalls ==
    ASSUME IInv, NEW c \in Callers, Flush(c)
    PROVE  Contract!Next
<1>1. /\ pc[c] = "idle" /\ pc'[c] = "queued"
      /\ \A d \in Drains \ {c} : pc'[d] = pc[d]
      /\ horizon' = [horizon EXCEPT ![c] = Len(frames)]
      /\ UNCHANGED <<frames, fate>>
  BY DEF Flush, Drain, IInv, TypeOK
<1>2. {d \in Callers : pc'[d] # "idle"} = {d \in Callers : pc[d] # "idle"} \cup {c}
  BY <1>1
<1>3. Len([f \in Frames |-> Path(f)]) = Len(frames)
  <2>1. TypeOK
    BY DEF IInv
  <2>2. Frames = 1..Len(frames) /\ Len(frames) \in Nat
    BY <2>1, Numbered
  <2>. QED
    BY <2>2
<1>4. [d \in Callers |-> horizon'[d]] =
          [[d \in Callers |-> horizon[d]] EXCEPT ![c] = Len(frames)]
  BY <1>1 DEF IInv, TypeOK
<1>5. /\ [f \in Frames |-> Path(f)]' = [f \in Frames |-> Path(f)]
      /\ With("live")' = With("live")
  BY <1>1 DEF With, Path
<1>6. Contract!CallFlush(c)
  BY <1>1, <1>2, <1>3, <1>4, <1>5 DEF Contract!CallFlush
<1>. QED
  BY <1>6 DEF Contract!Next

\* An eager task is no caller.
LEMMA EagerUnseen ==
    ASSUME IInv, NEW e \in EagerTasks, StartEager(e)
    PROVE  [Contract!Next]_(Contract!vars)
<1>1. /\ \A c \in Callers : pc'[c] = pc[c] /\ horizon'[c] = horizon[c]
      /\ UNCHANGED <<frames, fate>>
  BY TasksAssumption DEF StartEager, Drain, IInv, TypeOK
<1>2. {c \in Callers : pc'[c] # "idle"} = {c \in Callers : pc[c] # "idle"}
  BY <1>1
<1>3. [c \in Callers |-> horizon'[c]] = [c \in Callers |-> horizon[c]]
  BY <1>1
<1>. QED
  BY <1>1, <1>2, <1>3 DEF Contract!vars, With, Path

LEMMA AppendsSettle ==
    ASSUME IInv, HeldLive, NEW d \in Drains, AppendReturns(d)
    PROVE  [Contract!Next]_(Contract!vars)
<1>1. PICK p \in Mapped : \/ AppendOk(d, p) \/ AppendRetry(d, p)
                          \/ AppendFails(d, p) \/ AppendTimesOut(d, p)
  BY DEF AppendReturns
<1>2. Batch(d, p) \in SUBSET Frames
  BY BatchType DEF IInv
<1>3. ASSUME NEW y \in Fates \ {"live"}, Appending(d, p),
             fate' = Settled(Batch(d, p), y), UNCHANGED <<pc, frames, horizon>>
      PROVE  Contract!Next
  <2>1. {c \in Callers : pc'[c] # "idle"} = {c \in Callers : pc[c] # "idle"}
    BY <1>3
  <2>2. Settles(d, Batch(d, p), y)
    BY <1>3, BatchSettles
  <2>. QED
    BY <1>2, <1>3, <2>1, <2>2, SettlesInOrder
<1>4. CASE AppendOk(d, p)
  BY <1>3, <1>4 DEF AppendOk, Fates
<1>5. CASE AppendFails(d, p)
  BY <1>3, <1>5 DEF AppendFails, GiveUp, Fates
<1>6. CASE AppendTimesOut(d, p)
  BY <1>3, <1>6 DEF AppendTimesOut, GiveUp, Fates
<1>7. CASE AppendRetry(d, p)
  <2>1. /\ pc[d] = "sending" /\ pc' = [pc EXCEPT ![d] = "backoff"]
        /\ UNCHANGED <<frames, fate, horizon>>
    BY <1>7 DEF AppendRetry, Appending, Owns
  <2>2. {c \in Callers : pc'[c] # "idle"} = {c \in Callers : pc[c] # "idle"}
    BY <2>1 DEF IInv, TypeOK
  <2>. QED
    BY <2>1, <2>2, Unseen
<1>. QED
  BY <1>1, <1>4, <1>5, <1>6, <1>7

\* Every step of the batcher is one of the contract's, or none.
LEMMA ContractNext ==
    ASSUME StoreInv, [Next]_vars
    PROVE  [Contract!Next]_(Contract!vars)
<1>. USE DEF StoreInv
<1>1. pc \in [Drains -> {"idle", "spawned", "reporting"} \cup InDrain] /\ FlushBarrier
  BY DEF IInv, TypeOK
<1>2. ASSUME NEW d \in Drains, Coalesce(d)
      PROVE  Contract!Next
  <2>1. Settles(d, {f \in items[d] : Path(f) \notin todo'}, "dropped")
    BY <1>2, CoalesceSettles
  <2>2. {f \in items[d] : Path(f) \notin todo'} \in SUBSET Frames
    BY DEF IInv, TypeOK
  <2>3. UNCHANGED <<frames, horizon>> /\ "dropped" \in Fates \ {"live"}
    BY <1>2 DEF Coalesce, Fates
  <2>4. pc[d] = "queued" /\ pc' = [pc EXCEPT ![d] = "sending"]
    BY <1>2 DEF Coalesce, Owns
  <2>5. {c \in Callers : pc'[c] # "idle"} = {c \in Callers : pc[c] # "idle"}
    BY <1>1, <2>4
  <2>. QED
    BY <2>1, <2>2, <2>3, <2>5, SettlesInOrder
<1>3. ASSUME NEW d \in Drains, BackoffDone(d)
      PROVE  [Contract!Next]_(Contract!vars)
  <2>1. /\ pc[d] = "backoff" /\ pc' = [pc EXCEPT ![d] = "sending"]
        /\ UNCHANGED <<frames, fate, horizon>>
    BY <1>3 DEF BackoffDone, Owns
  <2>2. {c \in Callers : pc'[c] # "idle"} = {c \in Callers : pc[c] # "idle"}
    BY <1>1, <2>1
  <2>. QED
    BY <2>1, <2>2, Unseen
<1>4. ASSUME NEW d \in Drains, ReturnEmpty(d) \/ Unlock(d)
      PROVE  [Contract!Next]_(Contract!vars)
  <2>1. /\ pc[d] # "idle" /\ UNCHANGED <<frames, fate, horizon>>
        /\ \/ pc' = [pc EXCEPT ![d] = "idle"]
           \/ pc' = [pc EXCEPT ![d] = "reporting"]
    BY <1>4 DEF ReturnEmpty, Unlock, Owns
  <2>2. pc'[d] \notin InDrain
    BY <1>1, <2>1
  <2>3. FlushBarrier'
    BY IInvNext DEF IInv
  <2>4. \A f \in With("live") : f > horizon[d]
    BY <2>1, <2>2, <2>3 DEF FlushBarrier, With
  <2>5. CASE pc' = [pc EXCEPT ![d] = "reporting"]
    <3>1. {c \in Callers : pc'[c] # "idle"} = {c \in Callers : pc[c] # "idle"}
      BY <1>1, <2>1, <2>5
    <3>. QED
      BY <2>1, <3>1, Unseen
  <2>. QED
    BY <1>1, <2>1, <2>4, <2>5, EndsCall
<1>5. ASSUME NEW d \in Drains, Reports(d)
      PROVE  [Contract!Next]_(Contract!vars)
  <2>1. /\ pc[d] = "reporting" /\ UNCHANGED <<frames, fate, horizon>>
        /\ \/ pc' = [pc EXCEPT ![d] = "idle"]
           \/ pc' = [pc EXCEPT ![d] = "reporting"]
    BY <1>5 DEF Reports, Report
  <2>2. \A f \in With("live") : f > horizon[d]
    BY <1>1, <2>1 DEF FlushBarrier
  <2>3. CASE pc' = [pc EXCEPT ![d] = "reporting"]
    <3>1. {c \in Callers : pc'[c] # "idle"} = {c \in Callers : pc[c] # "idle"}
      BY <1>1, <2>1, <2>3
    <3>. QED
      BY <2>1, <3>1, Unseen
  <2>. QED
    BY <1>1, <2>1, <2>2, <2>3, EndsCall
<1>6. ASSUME NEW F \in late, Land(F)
      PROVE  [Contract!Next]_(Contract!vars)
  BY <1>6, Unseen DEF Land
<1>7. CASE UNCHANGED vars
  BY <1>7, Unseen DEF vars
<1>8. ASSUME NEW c \in Callers, Flush(c) PROVE Contract!Next
  BY <1>8, FlushCalls
<1>. QED
  BY <1>2, <1>3, <1>4, <1>5, <1>6, <1>7, <1>8, EnqueueAccepts, EagerUnseen, AppendsSettle
     DEF Next

(***************************************************************************)
(* The batcher implements the contract of the mirror, whatever the number  *)
(* of callers, files and retries: frames of one file are settled in the    *)
(* order they came, and flush() returns when all that came before is.      *)
(***************************************************************************)
THEOREM Implements == Spec => ImplementsContract
<1>1. Init => Contract!Init
  <2>. SUFFICES ASSUME Init PROVE Contract!Init
    OBVIOUS
  <2>1. Frames = {} /\ With("live") = {}
    BY DEF Init, With
  <2>2. [f \in Frames |-> Path(f)] = <<>>
    BY <2>1
  <2>3. {c \in Callers : pc[c] # "idle"} = {}
    BY DEF Init
  <2>4. [c \in Callers |-> horizon[c]] = [c \in Callers |-> 0]
    BY DEF Init
  <2>. QED
    BY <2>1, <2>2, <2>3, <2>4 DEF Contract!Init
<1>2. StoreInv /\ [Next]_vars => [Contract!Next]_(Contract!vars)
  BY ContractNext
<1>. QED
  BY <1>1, <1>2, StoreInvariance, PTL DEF Spec, ImplementsContract, Contract!Spec

-----------------------------------------------------------------------------
(***************************************************************************)
(* The pending buffer                                                      *)
(***************************************************************************)

\* MapThenSumSet computes a sum of the first section.
EntriesOf(fr, S) == MapThenSumSet(LAMBDA f : fr[f].entries, S)

LEMMA EntriesSummed ==
    ASSUME NEW fr, NEW S, IsFiniteSet(S)
    PROVE  EntriesOf(fr, S) = Sum([f \in S |-> fr[f].entries], S)
<1>. DEFINE w == [f \in S |-> fr[f].entries]
            Rec(h) == [s \in SUBSET S |->
                          IF s = {} THEN 0
                          ELSE fr[CHOOSE x \in s : TRUE].entries
                                  + h[s \ {CHOOSE x \in s : TRUE}]]
            g == CHOOSE h : h = Rec(h)
<1>1. EntriesOf(fr, S) = g[S]
  BY DEF EntriesOf, MapThenSumSet, MapThenFoldSet
<1>2. ASSUME NEW h
      PROVE  h = Rec(h) <=> IsSum(h, w, S)
  <2>1. ASSUME NEW s \in SUBSET S, s # {}
        PROVE  w[First(s)] = fr[First(s)].entries
    BY <2>1, FirstIn
  <2>. HIDE DEF w
  <2>2. Rec(h) = [s \in SUBSET S |->
                     IF s = {} THEN 0 ELSE w[First(s)] + h[s \ {First(s)}]]
    BY <2>1 DEF First
  <2>. HIDE DEF Rec
  <2>. QED
    BY <2>2 DEF IsSum
<1>3. g = Rec(g)
  <2>. HIDE DEF w, Rec
  <2>1. PICK h : IsSum(h, w, S)
    BY SumExists
  <2>2. h = Rec(h)
    BY <1>2, <2>1
  <2>. QED
    BY <2>2
<1>4. IsSum(g, w, S)
  BY <1>2, <1>3
<1>5. Sum(w, S) = g[S]
  <2>. HIDE DEF g, w
  <2>. DEFINE h == CHOOSE h : IsSum(h, w, S)
  <2>1. IsSum(h, w, S)
    BY SumIs
  <2>. HIDE DEF h
  <2>2. h[S] = g[S]
    BY <1>4, <2>1, SumUnique
  <2>. QED
    BY <2>2 DEF Sum, h
<1>. QED
  BY <1>1, <1>5

\* MapThenSumSet computes a sum of the first section.
BytesOf(fr, S) == MapThenSumSet(LAMBDA f : fr[f].bytes, S)

LEMMA BytesSummed ==
    ASSUME NEW fr, NEW S, IsFiniteSet(S)
    PROVE  BytesOf(fr, S) = Sum([f \in S |-> fr[f].bytes], S)
<1>. DEFINE w == [f \in S |-> fr[f].bytes]
            Rec(h) == [s \in SUBSET S |->
                          IF s = {} THEN 0
                          ELSE fr[CHOOSE x \in s : TRUE].bytes
                                  + h[s \ {CHOOSE x \in s : TRUE}]]
            g == CHOOSE h : h = Rec(h)
<1>1. BytesOf(fr, S) = g[S]
  BY DEF BytesOf, MapThenSumSet, MapThenFoldSet
<1>2. ASSUME NEW h
      PROVE  h = Rec(h) <=> IsSum(h, w, S)
  <2>1. ASSUME NEW s \in SUBSET S, s # {}
        PROVE  w[First(s)] = fr[First(s)].bytes
    BY <2>1, FirstIn
  <2>. HIDE DEF w
  <2>2. Rec(h) = [s \in SUBSET S |->
                     IF s = {} THEN 0 ELSE w[First(s)] + h[s \ {First(s)}]]
    BY <2>1 DEF First
  <2>. HIDE DEF Rec
  <2>. QED
    BY <2>2 DEF IsSum
<1>3. g = Rec(g)
  <2>. HIDE DEF w, Rec
  <2>1. PICK h : IsSum(h, w, S)
    BY SumExists
  <2>2. h = Rec(h)
    BY <1>2, <2>1
  <2>. QED
    BY <2>2
<1>4. IsSum(g, w, S)
  BY <1>2, <1>3
<1>5. Sum(w, S) = g[S]
  <2>. HIDE DEF g, w
  <2>. DEFINE h == CHOOSE h : IsSum(h, w, S)
  <2>1. IsSum(h, w, S)
    BY SumIs
  <2>. HIDE DEF h
  <2>2. h[S] = g[S]
    BY <1>4, <2>1, SumUnique
  <2>. QED
    BY <2>2 DEF Sum, h
<1>. QED
  BY <1>1, <1>5

Counted ==
    pendingEntries = EntriesOf(frames, pending) /\ pendingBytes = BytesOf(frames, pending)
Spawned == OverThreshold => \E e \in EagerTasks : pc[e] = "spawned"

LEMMA PendingIs == PendingBounded <=> Counted /\ Spawned
  BY DEF PendingBounded, Counted, Spawned, EntriesOf, BytesOf

LEMMA PendingFinite == ASSUME TypeOK PROVE IsFiniteSet(pending)
<1>1. Frames = 1..Len(frames) /\ Len(frames) \in Nat
  BY Numbered
<1>2. IsFiniteSet(Frames)
  BY <1>1, FS_Interval
<1>. QED
  BY <1>2, FS_Subset DEF TypeOK

\* A frame that is enqueued is counted.
LEMMA CountedEnqueue ==
    ASSUME IInv, Counted, NEW k \in FrameKinds, Enqueue(k)
    PROVE  Counted'
<1>. DEFINE n == Len(frames) + 1
            P == pending \cup {n}
            w == [f \in pending |-> frames[f].entries]
            v == [f \in P |-> frames'[f].entries]
            x == [f \in pending |-> frames[f].bytes]
            y == [f \in P |-> frames'[f].bytes]
<1>1. TypeOK
  BY DEF IInv
<1>2. IsFiniteSet(pending) /\ IsFiniteSet(P)
  BY <1>1, PendingFinite, FS_AddElement
<1>3. pending \subseteq Frames /\ n \notin pending
  <2>1. pending \subseteq Frames /\ Frames = 1..Len(frames) /\ Len(frames) \in Nat
    BY <1>1, Numbered DEF TypeOK
  <2>. QED
    BY <2>1
<1>4. pending' = P /\ frames'[n] = k /\ \A f \in pending : frames'[f] = frames[f]
  BY <1>1, <1>3, EnqueueEffect
<1>5. \A f \in P : frames'[f].entries \in Nat /\ frames'[f].bytes \in Nat
  <2>1. \A f \in pending : frames[f] \in [path : Paths, entries : Nat, bytes : Nat]
    BY <1>1, <1>3, FrameType
  <2>2. \A f \in P : frames'[f] \in [path : Paths, entries : Nat, bytes : Nat]
    BY <1>4, <2>1, PathsAssumption
  <2>. QED
    BY <2>2
<1>6. pendingEntries = Sum(w, pending) /\ pendingBytes = Sum(x, pending)
  BY <1>2, EntriesSummed, BytesSummed DEF Counted
<1>7. /\ pendingEntries' = pendingEntries + k.entries
      /\ pendingBytes' = pendingBytes + k.bytes
  BY DEF Enqueue
<1>8. Sum(v, P) = Sum(w, pending) + v[n]
  <2>1. \A f \in pending : w[f] = v[f]
    BY <1>4
  <2>2. \A f \in P : v[f] \in Nat
    BY <1>5
  <2>3. P = pending \cup {n}
    OBVIOUS
  <2>. HIDE DEF v, w, n, P
  <2>. QED
    BY <1>2, <1>3, <2>1, <2>2, <2>3, SumAdd
<1>9. Sum(y, P) = Sum(x, pending) + y[n]
  <2>1. \A f \in pending : x[f] = y[f]
    BY <1>4
  <2>2. \A f \in P : y[f] \in Nat
    BY <1>5
  <2>3. P = pending \cup {n}
    OBVIOUS
  <2>. HIDE DEF x, y, n, P
  <2>. QED
    BY <1>2, <1>3, <2>1, <2>2, <2>3, SumAdd
<1>10. v[n] = k.entries /\ y[n] = k.bytes
  BY <1>4
<1>11. EntriesOf(frames', P) = Sum(v, P) /\ BytesOf(frames', P) = Sum(y, P)
  BY <1>2, EntriesSummed, BytesSummed
<1>12. pendingEntries' = EntriesOf(frames', P) /\ pendingBytes' = BytesOf(frames', P)
  <2>. HIDE DEF v, w, x, y, P
  <2>. QED
    BY <1>6, <1>7, <1>8, <1>9, <1>10, <1>11
<1>. QED
  BY <1>4, <1>12 DEF Counted

\* Nothing is pending, and nothing is counted.
LEMMA CountedNone ==
    ASSUME NEW fr
    PROVE  EntriesOf(fr, {}) = 0 /\ BytesOf(fr, {}) = 0
  BY FS_EmptySet, SumEmpty, EntriesSummed, BytesSummed

LEMMA PendingNext ==
    ASSUME IInv, Counted, Spawned, [Next]_vars
    PROVE  Counted' /\ Spawned'
<1>1. ASSUME NEW k \in FrameKinds, Enqueue(k)
      PROVE  Counted' /\ Spawned'
  <2>1. Counted'
    BY <1>1, CountedEnqueue
  <2>2. ASSUME OverThreshold'
        PROVE  \E e \in EagerTasks : pc'[e] = "spawned"
    BY <1>1, <2>2 DEF Enqueue, IInv, TypeOK
  <2>. QED
    BY <2>1, <2>2 DEF Spawned
<1>2. ASSUME NEW d \in Drains, Drain(d)
      PROVE  Counted' /\ Spawned'
  <2>1. pending' = {} /\ pendingEntries' = 0 /\ pendingBytes' = 0
    BY <1>2 DEF Drain
  <2>2. ~OverThreshold'
    BY <2>1, LimitsAssumption DEF OverThreshold
  <2>3. Counted'
    BY <2>1, CountedNone DEF Counted
  <2>. QED
    BY <2>2, <2>3 DEF Spawned
<1>3. ASSUME UNCHANGED <<pending, pendingEntries, pendingBytes, frames>>,
             \A e \in EagerTasks : pc[e] = "spawned" => pc'[e] = "spawned"
      PROVE  Counted' /\ Spawned'
  <2>1. Counted'
    BY <1>3 DEF Counted
  <2>2. Spawned'
    BY <1>3 DEF Spawned, OverThreshold
  <2>. QED
    BY <2>1, <2>2
<1>4. ASSUME NEW d \in Drains, \/ ReturnEmpty(d) \/ Coalesce(d) \/ BackoffDone(d)
                               \/ Unlock(d) \/ Reports(d)
      PROVE  /\ UNCHANGED <<pending, pendingEntries, pendingBytes, frames>>
             /\ \A e \in EagerTasks : pc[e] = "spawned" => pc'[e] = "spawned"
  BY <1>4 DEF ReturnEmpty, Coalesce, BackoffDone, Unlock, Reports, Report, Owns, buffer,
              IInv, TypeOK
<1>5. ASSUME NEW d \in Drains, AppendReturns(d)
      PROVE  /\ UNCHANGED <<pending, pendingEntries, pendingBytes, frames>>
             /\ \A e \in EagerTasks : pc[e] = "spawned" => pc'[e] = "spawned"
  BY <1>5 DEF AppendReturns, AppendOk, AppendRetry, AppendFails, AppendTimesOut, GiveUp,
              Appending, Owns, buffer, IInv, TypeOK
<1>6. ASSUME NEW F \in late, Land(F)
      PROVE  UNCHANGED <<pending, pendingEntries, pendingBytes, frames, pc>>
  BY <1>6 DEF Land, buffer
<1>7. CASE UNCHANGED vars
  BY <1>3, <1>7 DEF vars, buffer
<1>. QED
  BY <1>1, <1>2, <1>3, <1>4, <1>5, <1>6, <1>7 DEF Next, Flush, StartEager

(***************************************************************************)
(* The counters are those of what is pending, for any number of frames,    *)
(* and a buffer over a threshold has an eager task on its way.             *)
(***************************************************************************)
THEOREM PendingHolds == Spec => []PendingBounded
<1>1. Init => Counted /\ Spawned
  <2>. SUFFICES ASSUME Init PROVE Counted /\ Spawned
    OBVIOUS
  <2>1. Counted
    BY CountedNone DEF Init, Counted
  <2>2. ~OverThreshold
    BY LimitsAssumption DEF Init, OverThreshold
  <2>. QED
    BY <2>1, <2>2 DEF Spawned
<1>2. IInv /\ (Counted /\ Spawned) /\ [Next]_vars => (Counted /\ Spawned)'
  BY PendingNext
<1>. QED
  BY <1>1, <1>2, Invariance, PendingIs, PTL DEF Spec

(***************************************************************************)
(* What becomes of the frames the batcher took: each is held in one place, *)
(* counted, sent in order, and acknowledged, dropped or reported.          *)
(***************************************************************************)
THEOREM FramesAreAccounted == Spec => []FramesAccounted
<1>1. HeldOnce /\ PendingBounded /\ DedupedOrder /\ LossAccounted => FramesAccounted
  BY DEF FramesAccounted
<1>. QED
  BY <1>1, HeldOnceHolds, PendingHolds, OrderHolds, LossesKnown, PTL
=============================================================================
