------------------------- MODULE SessionCopiesProofs -------------------------
(***************************************************************************)
(* Theorems about transcripts and their copies.                            *)
(*                                                                         *)
(* The first part has lemmas about the operators of Transcript: what is    *)
(* picked from a sequence, the path to the root, copies that read alike,   *)
(* and the conversation of a transcript and of its fork.                   *)
(*                                                                         *)
(* The second part is about the copies of a session: what a store has of   *)
(* it by the mirror and by an import, what is shown of it and of its       *)
(* forks, and what a resume picks and puts into its directory, for any     *)
(* settings and plans.                                                     *)
(***************************************************************************)
EXTENDS SessionCopies, NaturalsInduction, WellFoundedInduction, FiniteSetTheorems,
        SequenceTheorems, TLAPS

\* A set of natural numbers that is not empty has a least member.
LEMMA LeastNat ==
    ASSUME NEW T \in SUBSET Nat, T # {}
    PROVE  \E m \in T : \A n \in T : m <= n
<1>1. IsWellFoundedOn(OpToRel(<, Nat), Nat)
  BY NatLessThanWellFounded
<1>2. PICK m \in T : \A n \in T : ~(<<n, m>> \in OpToRel(<, Nat))
  BY <1>1, WFMin
<1>3. \A n \in T : ~(n < m)
  BY <1>2 DEF OpToRel
<1>. QED
  BY <1>3

LEMMA GreatestNat ==
    ASSUME NEW N \in Nat, NEW T \in SUBSET (0..N), T # {}
    PROVE  \E m \in T : \A n \in T : n <= m
<1>. DEFINE U == {N - n : n \in T}
<1>1. U \in SUBSET Nat /\ U # {}
  <2>1. \A n \in T : N - n \in Nat
    OBVIOUS
  <2>. QED
    BY <2>1
<1>2. PICK k \in U : \A n \in U : k <= n
  BY <1>1, LeastNat
<1>3. PICK m \in T : k = N - m
  OBVIOUS
<1>4. \A n \in T : N - m <= N - n
  BY <1>2, <1>3
<1>. QED
  BY <1>4

\* A statement about 0..N that holds of 0, and of n + 1 if of n, holds of N.
LEMMA Climb ==
    ASSUME NEW N \in Nat, NEW T \in SUBSET (0..N), 0 \in T,
           \A n \in 0..(N - 1) : n \in T => n + 1 \in T
    PROVE  T = 0..N
<1>. DEFINE B == (0..N) \ T
<1>. SUFFICES ASSUME B # {} PROVE FALSE
  OBVIOUS
<1>0. B \in SUBSET Nat
  OBVIOUS
<1>1. PICK m \in B : \A n \in B : m <= n
  BY <1>0, LeastNat
<1>2. m # 0 /\ m - 1 \in 0..(N - 1) /\ m - 1 \notin B
  BY <1>1
<1>3. m - 1 \in T /\ (m - 1) + 1 = m
  BY <1>2
<1>. QED
  BY <1>1, <1>2, <1>3

LEMMA MaxIs ==
    ASSUME NEW T \in SUBSET Nat, NEW m \in T, \A n \in T : n <= m
    PROVE  Max(T) = m
<1>1. Max(T) \in T /\ \A n \in T : Max(T) >= n
  BY DEF Max
<1>2. Max(T) \in Nat /\ m \in Nat
  BY <1>1
<1>. HIDE DEF Max
<1>. QED
  BY <1>1, <1>2

LEMMA MinIs ==
    ASSUME NEW T \in SUBSET Nat, NEW m \in T, \A n \in T : m <= n
    PROVE  Min(T) = m
<1>1. Min(T) \in T /\ \A n \in T : Min(T) <= n
  BY DEF Min
<1>2. Min(T) \in Nat /\ m \in Nat
  BY <1>1
<1>. HIDE DEF Min
<1>. QED
  BY <1>1, <1>2

-----------------------------------------------------------------------------
\* Sequences of any elements.
LEMMA SeqFacts ==
    ASSUME NEW s, IsSeq(s)
    PROVE  Len(s) \in Nat /\ DOMAIN s = 1..Len(s) /\ (s # <<>> <=> Len(s) # 0)
  BY DEF IsSeq

LEMMA SeqIs == ASSUME NEW U, NEW s \in Seq(U) PROVE IsSeq(s)
<1>1. Len(s) \in Nat /\ s \in [1..Len(s) -> U]
  BY LenProperties
<1>2. s \in [1..Len(s) -> Range(s)]
  BY <1>1 DEF Range
<1>. QED
  BY <1>1, <1>2, SeqDef DEF IsSeq

LEMMA SeqIn ==
    ASSUME NEW U, NEW s, IsSeq(s), \A i \in 1..Len(s) : s[i] \in U
    PROVE  s \in Seq(U)
<1>1. Len(s) \in Nat /\ s \in [1..Len(s) -> U]
  BY SeqFacts DEF IsSeq
<1>. QED
  BY <1>1, SeqDef

LEMMA FunSeq ==
    ASSUME NEW n \in Nat, NEW s, DOMAIN s = 1..n, s = [i \in 1..n |-> s[i]]
    PROVE  IsSeq(s) /\ Len(s) = n
<1>1. s \in [1..n -> Range(s)]
  BY DEF Range
<1>2. s \in Seq(Range(s))
  BY <1>1, SeqDef
<1>. QED
  BY <1>2 DEF IsSeq

LEMMA SeqsOf ==
    ASSUME NEW s, NEW t, IsSeq(s), IsSeq(t)
    PROVE  \E U : s \in Seq(U) /\ t \in Seq(U)
<1>1. s \in Seq(Range(s) \cup Range(t)) /\ t \in Seq(Range(s) \cup Range(t))
  BY DEF IsSeq
<1>. QED
  BY <1>1

LEMMA CatIs ==
    ASSUME NEW s, NEW t, IsSeq(s), IsSeq(t)
    PROVE  /\ IsSeq(s \o t) /\ Len(s \o t) = Len(s) + Len(t)
           /\ \A i \in 1..Len(s) : (s \o t)[i] = s[i]
           /\ \A i \in 1..Len(t) : (s \o t)[Len(s) + i] = t[i]
<1>1. PICK U : s \in Seq(U) /\ t \in Seq(U)
  BY SeqsOf
<1>2. s \o t \in Seq(U)
  BY <1>1
<1>3. IsSeq(s \o t)
  BY <1>2, SeqIs
<1>4. /\ Len(s \o t) = Len(s) + Len(t)
      /\ \A i \in 1..Len(s) : (s \o t)[i] = s[i]
      /\ \A i \in 1..Len(t) : (s \o t)[Len(s) + i] = t[i]
  BY <1>1
<1>. QED
  BY <1>3, <1>4

LEMMA AppendCat ==
    ASSUME NEW s, NEW x, IsSeq(s)
    PROVE  Append(s, x) = s \o <<x>>
<1>. DEFINE U == Range(s) \cup {x}
<1>1. s \in Seq(U) /\ x \in U
  BY DEF IsSeq
<1>. QED
  BY <1>1, AppendIsConcat

LEMMA AppendIs ==
    ASSUME NEW s, NEW x, IsSeq(s)
    PROVE  /\ IsSeq(Append(s, x)) /\ Len(Append(s, x)) = Len(s) + 1
           /\ \A i \in 1..Len(s) : Append(s, x)[i] = s[i]
           /\ Append(s, x)[Len(s) + 1] = x
<1>. DEFINE U == Range(s) \cup {x}
<1>1. s \in Seq(U) /\ x \in U
  BY DEF IsSeq
<1>2. Append(s, x) \in Seq(U)
  BY <1>1
<1>3. IsSeq(Append(s, x))
  BY <1>2, SeqIs
<1>. QED
  BY <1>1, <1>3

LEMMA OneIs ==
    ASSUME NEW x
    PROVE  IsSeq(<<x>>) /\ Len(<<x>>) = 1 /\ <<x>>[1] = x /\ Range(<<x>>) = {x}
  BY DEF IsSeq, Range

LEMMA CatOne ==
    ASSUME NEW s, NEW x, IsSeq(s)
    PROVE  /\ IsSeq(s \o <<x>>) /\ Len(s \o <<x>>) = Len(s) + 1
           /\ \A i \in 1..Len(s) : (s \o <<x>>)[i] = s[i]
           /\ (s \o <<x>>)[Len(s) + 1] = x
<1>1. PICK o : o = <<x>>
  OBVIOUS
<1>2. IsSeq(o) /\ Len(o) = 1 /\ o[1] = x
  BY <1>1, OneIs
<1>3. /\ IsSeq(s \o o) /\ Len(s \o o) = Len(s) + Len(o)
      /\ \A i \in 1..Len(s) : (s \o o)[i] = s[i]
      /\ \A i \in 1..Len(o) : (s \o o)[Len(s) + i] = o[i]
  <2>1. IsSeq(o)
    BY <1>2
  <2>. QED
    BY <2>1, CatIs
<1>4. (s \o o)[Len(s) + 1] = x
  BY <1>2, <1>3
<1>. QED
  BY <1>1, <1>2, <1>3, <1>4

LEMMA RangeIs ==
    ASSUME NEW s, IsSeq(s)
    PROVE  Range(s) = {s[i] : i \in 1..Len(s)}
  BY SeqFacts DEF Range

LEMMA EmptyRange ==
    ASSUME NEW s, IsSeq(s)
    PROVE  s = <<>> <=> Range(s) = {}
<1>1. Len(s) \in Nat /\ (s # <<>> <=> Len(s) # 0)
  BY SeqFacts
<1>2. Len(s) # 0 => 1 \in 1..Len(s)
  BY <1>1
<1>3. Len(s) = 0 => 1..Len(s) = {}
  OBVIOUS
<1>. QED
  BY <1>1, <1>2, <1>3, RangeIs

LEMMA CatRange ==
    ASSUME NEW s, NEW t, IsSeq(s), IsSeq(t)
    PROVE  Range(s \o t) = Range(s) \cup Range(t)
<1>1. PICK u, m, n : u = s \o t /\ m = Len(s) /\ n = Len(t)
  OBVIOUS
<1>2. /\ IsSeq(u) /\ Len(u) = m + n /\ m \in Nat /\ n \in Nat
      /\ \A i \in 1..m : u[i] = s[i]
      /\ \A i \in 1..n : u[m + i] = t[i]
  BY <1>1, CatIs, SeqFacts
<1>3. /\ Range(u) = {u[i] : i \in 1..(m + n)} /\ Range(s) = {s[i] : i \in 1..m}
      /\ Range(t) = {t[i] : i \in 1..n}
  <2>1. /\ Range(u) = {u[i] : i \in 1..Len(u)} /\ Range(s) = {s[i] : i \in 1..Len(s)}
        /\ Range(t) = {t[i] : i \in 1..Len(t)}
    BY <1>2, RangeIs
  <2>. QED
    BY <1>1, <1>2, <2>1
<1>4. ASSUME NEW x \in Range(u) PROVE x \in Range(s) \cup Range(t)
  <2>1. PICK i \in 1..(m + n) : x = u[i]
    BY <1>3
  <2>2. CASE i <= m
    BY <1>2, <1>3, <2>1, <2>2
  <2>3. CASE ~(i <= m)
    <3>1. i - m \in 1..n /\ m + (i - m) = i
      BY <1>2, <2>3
    <3>. QED
      BY <1>2, <1>3, <2>1, <3>1
  <2>. QED
    BY <2>2, <2>3
<1>5. ASSUME NEW x \in Range(s) PROVE x \in Range(u)
  <2>1. \A i \in 1..m : i \in 1..(m + n)
    BY <1>2
  <2>. QED
    BY <1>2, <1>3, <2>1
<1>6. ASSUME NEW x \in Range(t) PROVE x \in Range(u)
  <2>1. \A i \in 1..n : m + i \in 1..(m + n)
    BY <1>2
  <2>. QED
    BY <1>2, <1>3, <2>1
<1>. QED
  BY <1>1, <1>4, <1>5, <1>6

LEMMA CatGroups ==
    ASSUME NEW s, NEW t, NEW u, IsSeq(s), IsSeq(t), IsSeq(u)
    PROVE  (s \o t) \o u = s \o (t \o u)
<1>1. PICK U : s \in Seq(U) /\ t \in Seq(U)
  BY SeqsOf
<1>. DEFINE V == U \cup Range(u)
<1>2. s \in Seq(V) /\ t \in Seq(V) /\ u \in Seq(V)
  <2>1. \A i \in 1..Len(s) : s[i] \in V
    BY <1>1
  <2>2. \A i \in 1..Len(t) : t[i] \in V
    BY <1>1
  <2>3. \A i \in 1..Len(u) : u[i] \in V
    BY RangeIs
  <2>. HIDE DEF V
  <2>. QED
    BY <2>1, <2>2, <2>3, SeqIn
<1>. HIDE DEF V
<1>. QED
  BY <1>2

LEMMA SameSeq ==
    ASSUME NEW s, NEW t, IsSeq(s), IsSeq(t), Len(s) = Len(t),
           \A i \in 1..Len(s) : s[i] = t[i]
    PROVE  s = t
<1>1. PICK U : s \in Seq(U) /\ t \in Seq(U)
  BY SeqsOf
<1>. QED
  BY <1>1, SeqEqual

LEMMA ReverseIs ==
    ASSUME NEW s, IsSeq(s)
    PROVE  /\ IsSeq(Reverse(s)) /\ Len(Reverse(s)) = Len(s)
           /\ \A i \in 1..Len(s) : Reverse(s)[i] = s[Len(s) + 1 - i]
<1>1. Len(s) \in Nat
  BY SeqFacts
<1>2. DOMAIN Reverse(s) = 1..Len(s)
      /\ Reverse(s) = [i \in 1..Len(s) |-> s[(Len(s) - i) + 1]]
  BY DEF Reverse
<1>3. IsSeq(Reverse(s)) /\ Len(Reverse(s)) = Len(s)
  <2>1. Reverse(s) = [i \in 1..Len(s) |-> Reverse(s)[i]]
    BY <1>2
  <2>. HIDE DEF Reverse
  <2>. QED
    BY <1>1, <1>2, <2>1, FunSeq
<1>4. \A i \in 1..Len(s) : (Len(s) - i) + 1 = Len(s) + 1 - i
  BY <1>1
<1>. QED
  BY <1>2, <1>3, <1>4

LEMMA ReverseRange ==
    ASSUME NEW s, IsSeq(s)
    PROVE  Range(Reverse(s)) = Range(s)
<1>1. PICK r, n : r = Reverse(s) /\ n = Len(s)
  OBVIOUS
<1>2. /\ IsSeq(r) /\ Len(r) = n /\ n \in Nat
      /\ \A i \in 1..n : r[i] = s[n + 1 - i]
  BY <1>1, ReverseIs, SeqFacts
<1>3. Range(r) = {r[i] : i \in 1..n} /\ Range(s) = {s[i] : i \in 1..n}
  BY <1>1, <1>2, RangeIs
<1>4. \A i \in 1..n : n + 1 - i \in 1..n /\ n + 1 - (n + 1 - i) = i
  BY <1>2
<1>5. ASSUME NEW x \in Range(r) PROVE x \in Range(s)
  <2>1. PICK i \in 1..n : x = r[i]
    BY <1>3
  <2>. QED
    BY <1>2, <1>3, <1>4, <2>1
<1>6. ASSUME NEW x \in Range(s) PROVE x \in Range(r)
  <2>1. PICK i \in 1..n : x = s[i]
    BY <1>3
  <2>2. PICK j \in 1..n : j = n + 1 - i /\ n + 1 - j = i
    BY <1>4
  <2>. QED
    BY <1>2, <1>3, <2>1, <2>2
<1>. QED
  BY <1>1, <1>5, <1>6

LEMMA PartIs ==
    ASSUME NEW s, IsSeq(s), NEW n \in 0..Len(s)
    PROVE  /\ IsSeq(SubSeq(s, 1, n)) /\ Len(SubSeq(s, 1, n)) = n
           /\ \A i \in 1..n : SubSeq(s, 1, n)[i] = s[i]
<1>1. s \in Seq(Range(s)) /\ Len(s) \in Nat
  BY SeqFacts DEF IsSeq
<1>2. SubSeq(s, 1, n) \in Seq(Range(s))
  BY <1>1, SubSeqProperties
<1>3. IsSeq(SubSeq(s, 1, n))
  BY <1>2, SeqIs
<1>4. Len(SubSeq(s, 1, n)) = n /\ \A i \in 1..n : SubSeq(s, 1, n)[i] = s[i]
  BY <1>1, SubSeqProperties
<1>. QED
  BY <1>3, <1>4

LEMMA PartOf ==
    ASSUME NEW s, IsSeq(s), NEW m \in 0..Len(s), NEW n \in m..Len(s)
    PROVE  /\ IsSeq(SubSeq(s, m + 1, n)) /\ Len(SubSeq(s, m + 1, n)) = n - m
           /\ \A i \in 1..(n - m) : SubSeq(s, m + 1, n)[i] = s[m + i]
           /\ SubSeq(s, 1, n) = SubSeq(s, 1, m) \o SubSeq(s, m + 1, n)
           /\ Range(SubSeq(s, m + 1, n)) \subseteq Range(s)
<1>1. PICK q : q = SubSeq(s, m + 1, n)
  OBVIOUS
<1>2. Len(s) \in Nat /\ m \in Nat /\ n \in Nat /\ m <= n /\ n <= Len(s)
  BY SeqFacts
<1>3. IsSeq(q) /\ Len(q) = n - m /\ \A i \in 1..(n - m) : q[i] = s[m + i]
  <2>1. q = [i \in 1..(n - m) |-> s[m + i]]
    <3>1. q = [i \in 1..(1 + n - (m + 1)) |-> s[i + (m + 1) - 1]]
      BY <1>1, <1>2 DEF SubSeq
    <3>2. 1 + n - (m + 1) = n - m /\ \A i \in 1..(n - m) : i + (m + 1) - 1 = m + i
      BY <1>2
    <3>. QED
      BY <3>1, <3>2
  <2>2. DOMAIN q = 1..(n - m) /\ q = [i \in 1..(n - m) |-> q[i]]
    BY <2>1
  <2>3. n - m \in Nat
    BY <1>2
  <2>. QED
    BY <2>1, <2>2, <2>3, FunSeq
<1>4. PICK a, b : a = SubSeq(s, 1, m) /\ b = SubSeq(s, 1, n)
  OBVIOUS
<1>5. /\ IsSeq(a) /\ Len(a) = m /\ \A i \in 1..m : a[i] = s[i]
      /\ IsSeq(b) /\ Len(b) = n /\ \A i \in 1..n : b[i] = s[i]
  BY <1>2, <1>4, PartIs
<1>6. PICK c : c = a \o q
  OBVIOUS
<1>7. /\ IsSeq(c) /\ Len(c) = m + (n - m) /\ \A i \in 1..m : c[i] = a[i]
      /\ \A i \in 1..(n - m) : c[m + i] = q[i]
  <2>1. IsSeq(a) /\ IsSeq(q)
    BY <1>3, <1>5
  <2>2. /\ IsSeq(a \o q) /\ Len(a \o q) = Len(a) + Len(q)
        /\ \A i \in 1..Len(a) : (a \o q)[i] = a[i]
        /\ \A i \in 1..Len(q) : (a \o q)[Len(a) + i] = q[i]
    BY <2>1, CatIs
  <2>. QED
    BY <1>3, <1>5, <1>6, <2>2
<1>8. ASSUME NEW i \in 1..n PROVE b[i] = c[i]
  <2>1. CASE i <= m
    <3>1. i \in 1..m
      BY <1>2, <2>1
    <3>. QED
      BY <1>5, <1>7, <3>1
  <2>2. CASE m < i
    <3>1. PICK j \in 1..(n - m) : i = m + j
      <4>1. i - m \in 1..(n - m) /\ i = m + (i - m)
        BY <1>2, <2>2
      <4>. QED
        BY <4>1
    <3>. QED
      BY <1>3, <1>5, <1>7, <3>1
  <2>. QED
    BY <1>2, <2>1, <2>2
<1>9. b = c
  BY <1>2, <1>5, <1>7, <1>8, SameSeq
<1>10. Range(q) \subseteq Range(s)
  <2>1. \A i \in 1..(n - m) : m + i \in 1..Len(s)
    BY <1>2
  <2>2. Range(q) = {q[i] : i \in 1..(n - m)} /\ Range(s) = {s[i] : i \in 1..Len(s)}
    BY <1>3, RangeIs
  <2>3. \A i \in 1..(n - m) : q[i] \in Range(s)
    BY <1>3, <2>1, <2>2
  <2>. QED
    BY <2>2, <2>3
<1>. QED
  BY <1>1, <1>3, <1>4, <1>6, <1>9, <1>10

LEMMA PartWhole ==
    ASSUME NEW s, IsSeq(s)
    PROVE  SubSeq(s, 1, Len(s)) = s
<1>1. PICK q : q = SubSeq(s, 1, Len(s))
  OBVIOUS
<1>2. Len(s) \in 0..Len(s)
  BY SeqFacts
<1>3. IsSeq(q) /\ Len(q) = Len(s) /\ \A i \in 1..Len(s) : q[i] = s[i]
  BY <1>1, <1>2, PartIs
<1>. QED
  BY <1>1, <1>3, SameSeq

\* What is appended to s leaves the beginnings of s what they are.
LEMMA PartStays ==
    ASSUME NEW s, IsSeq(s), NEW x, NEW n \in 0..Len(s)
    PROVE  SubSeq(Append(s, x), 1, n) = SubSeq(s, 1, n)
<1>1. PICK t, a, b : t = Append(s, x) /\ a = SubSeq(t, 1, n) /\ b = SubSeq(s, 1, n)
  OBVIOUS
<1>0. Len(s) \in Nat
  BY SeqFacts
<1>2. /\ IsSeq(t) /\ Len(t) = Len(s) + 1 /\ \A i \in 1..Len(s) : t[i] = s[i]
      /\ Len(s) \in Nat /\ n \in Nat /\ n <= Len(s)
  <2>1. /\ IsSeq(Append(s, x)) /\ Len(Append(s, x)) = Len(s) + 1
        /\ \A i \in 1..Len(s) : Append(s, x)[i] = s[i]
    BY AppendIs
  <2>. QED
    BY <1>0, <1>1, <2>1
<1>3. n \in 0..Len(t)
  BY <1>2
<1>4. /\ IsSeq(a) /\ Len(a) = n /\ \A i \in 1..n : a[i] = t[i]
      /\ IsSeq(b) /\ Len(b) = n /\ \A i \in 1..n : b[i] = s[i]
  BY <1>1, <1>2, <1>3, PartIs
<1>5. \A i \in 1..n : a[i] = b[i]
  BY <1>2, <1>4
<1>. QED
  BY <1>1, <1>4, <1>5, SameSeq

LEMMA TailIs ==
    ASSUME NEW s, IsSeq(s), Len(s) # 0
    PROVE  /\ IsSeq(Tail(s)) /\ Len(Tail(s)) = Len(s) - 1
           /\ \A i \in 1..(Len(s) - 1) : Tail(s)[i] = s[i + 1]
<1>1. s \in Seq(Range(s)) /\ s # <<>>
  BY SeqFacts DEF IsSeq
<1>2. Tail(s) \in Seq(Range(s))
  BY <1>1
<1>3. IsSeq(Tail(s))
  BY <1>2, SeqIs
<1>. QED
  BY <1>1, <1>3, SeqFacts

-----------------------------------------------------------------------------
(***************************************************************************)
(* What is picked: h says where the elements of t are among the first n    *)
(* of s.                                                                   *)
(***************************************************************************)
Embeds(t, s, S, n, h) ==
    /\ IsSeq(t) /\ h \in [1..Len(t) -> 1..n]
    /\ \A i, j \in 1..Len(t) : i < j => h[i] < h[j]
    /\ \A i \in 1..Len(t) : t[i] = s[h[i]] /\ t[i] \in S
    /\ \A k \in 1..n : s[k] \in S => \E i \in 1..Len(t) : h[i] = k

IsPicked(t, s, S) == \E h : Embeds(t, s, S, Len(s), h)

PickStep(s, S, f, n) ==
    IF n = 0 THEN <<>>
    ELSE IF s[n] \in S THEN Append(f[n - 1], s[n]) ELSE f[n - 1]

LEMMA EmbedsNone == ASSUME NEW s, NEW S PROVE Embeds(<<>>, s, S, 0, <<>>)
  BY DEF Embeds, IsSeq

LEMMA EmbedsMore ==
    ASSUME NEW s, NEW S, NEW n \in Nat, NEW t, NEW h, Embeds(t, s, S, n, h)
    PROVE  \E g : Embeds(IF s[n + 1] \in S THEN Append(t, s[n + 1]) ELSE t, s, S, n + 1, g)
<1>0. IsSeq(t) /\ Len(t) \in Nat
  BY SeqFacts DEF Embeds
<1>1. CASE s[n + 1] \notin S
  <2>1. h \in [1..Len(t) -> 1..(n + 1)]
    BY <1>0 DEF Embeds
  <2>2. \A k \in 1..(n + 1) : s[k] \in S => k \in 1..n
    BY <1>1
  <2>3. Embeds(t, s, S, n + 1, h)
    BY <1>0, <2>1, <2>2 DEF Embeds
  <2>. QED
    BY <1>1, <2>3
<1>2. CASE s[n + 1] \in S
  <2>. DEFINE u == Append(t, s[n + 1])
              g == [i \in 1..(Len(t) + 1) |-> IF i = Len(t) + 1 THEN n + 1 ELSE h[i]]
  <2>1. /\ IsSeq(u) /\ Len(u) = Len(t) + 1 /\ \A i \in 1..Len(t) : u[i] = t[i]
        /\ u[Len(t) + 1] = s[n + 1]
    BY <1>0, AppendIs
  <2>2. \A i \in 1..Len(t) : g[i] = h[i] /\ h[i] \in 1..n
    BY <1>0 DEF Embeds
  <2>3. g[Len(t) + 1] = n + 1
    BY <1>0
  <2>. HIDE DEF g, u
  <2>4. \A i \in 1..Len(u) : i = Len(t) + 1 \/ i \in 1..Len(t)
    BY <1>0, <2>1
  <2>5. g \in [1..Len(u) -> 1..(n + 1)]
    <3>1. \A i \in 1..Len(u) : g[i] \in 1..(n + 1)
      BY <1>0, <2>1, <2>2, <2>3, <2>4
    <3>. QED
      BY <2>1, <3>1 DEF g
  <2>6. \A i, j \in 1..Len(u) : i < j => g[i] < g[j]
    <3>. SUFFICES ASSUME NEW i \in 1..Len(u), NEW j \in 1..Len(u), i < j
                  PROVE  g[i] < g[j]
      OBVIOUS
    <3>1. i \in 1..Len(t)
      BY <1>0, <2>1
    <3>2. CASE j \in 1..Len(t)
      BY <2>2, <3>1, <3>2 DEF Embeds
    <3>3. CASE j = Len(t) + 1
      BY <2>2, <2>3, <3>1, <3>3
    <3>. QED
      BY <2>4, <3>2, <3>3
  <2>7. \A i \in 1..Len(u) : u[i] = s[g[i]] /\ u[i] \in S
    BY <1>2, <2>1, <2>2, <2>3, <2>4 DEF Embeds
  <2>8. \A k \in 1..(n + 1) : s[k] \in S => \E i \in 1..Len(u) : g[i] = k
    <3>. SUFFICES ASSUME NEW k \in 1..(n + 1), s[k] \in S
                  PROVE  \E i \in 1..Len(u) : g[i] = k
      OBVIOUS
    <3>1. CASE k = n + 1
      BY <1>0, <2>1, <2>3, <3>1
    <3>2. CASE k \in 1..n
      <4>1. PICK i \in 1..Len(t) : h[i] = k
        BY <3>2 DEF Embeds
      <4>. QED
        BY <1>0, <2>1, <2>2, <4>1
    <3>. QED
      BY <3>1, <3>2
  <2>9. Embeds(u, s, S, n + 1, g)
    BY <2>1, <2>5, <2>6, <2>7, <2>8 DEF Embeds
  <2>. QED
    BY <1>2, <2>9 DEF u
<1>. QED
  BY <1>1, <1>2

\* The recursion has a solution, on a beginning of any length.
LEMMA PickingExists ==
    ASSUME NEW s, NEW S, NEW N \in Nat
    PROVE  \E f : f = [n \in 0..N |-> PickStep(s, S, f, n)]
<1>. DEFINE T == {n \in 0..N : \E f : f = [m \in 0..n |-> PickStep(s, S, f, m)]}
<1>1. 0 \in T
  <2>. DEFINE f == [m \in 0..0 |-> <<>>]
  <2>1. f = [m \in 0..0 |-> PickStep(s, S, f, m)]
    BY DEF PickStep
  <2>. QED
    BY <2>1
<1>2. ASSUME NEW n \in 0..(N - 1), n \in T PROVE n + 1 \in T
  <2>1. PICK f : f = [m \in 0..n |-> PickStep(s, S, f, m)]
    BY <1>2
  <2>. DEFINE g == [m \in 0..(n + 1) |-> PickStep(s, S, f, m)]
  <2>2. \A m \in 0..n : g[m] = f[m]
    <3>1. \A m \in 0..n : f[m] = PickStep(s, S, f, m)
      BY <2>1
    <3>. QED
      BY <3>1
  <2>3. \A m \in 0..(n + 1) : PickStep(s, S, g, m) = PickStep(s, S, f, m)
    <3>. HIDE DEF g
    <3>1. \A m \in 0..(n + 1) : m # 0 => m - 1 \in 0..n
      OBVIOUS
    <3>2. \A m \in 0..(n + 1) : m # 0 => g[m - 1] = f[m - 1]
      BY <2>2, <3>1
    <3>. QED
      BY <3>2 DEF PickStep
  <2>4. g = [m \in 0..(n + 1) |-> PickStep(s, S, g, m)]
    BY <2>3
  <2>. HIDE DEF g
  <2>5. n + 1 \in 0..N
    OBVIOUS
  <2>. QED
    BY <2>4, <2>5
<1>3. T = 0..N
  <2>. HIDE DEF T
  <2>1. T \in SUBSET (0..N)
    BY DEF T
  <2>. QED
    BY <1>1, <1>2, <2>1, Climb
<1>4. N \in T
  BY <1>3
<1>. QED
  BY <1>4

LEMMA PickedBy ==
    ASSUME NEW s, IsSeq(s), NEW S
    PROVE  \E f : /\ f = [n \in 0..Len(s) |-> PickStep(s, S, f, n)]
                  /\ Picked(s, S) = f[Len(s)]
<1>1. \E f : f = [n \in 0..Len(s) |-> PickStep(s, S, f, n)]
  BY SeqFacts, PickingExists
<1>. DEFINE upTo == CHOOSE f : f = [n \in 0..Len(s) |-> PickStep(s, S, f, n)]
<1>2. upTo = [n \in 0..Len(s) |-> PickStep(s, S, upTo, n)]
  BY <1>1
<1>3. Picked(s, S) = upTo[Len(s)]
  BY DEF Picked, PickStep
<1>. QED
  BY <1>2, <1>3

\* What is picked of a sequence are its elements in the set, in their order.
LEMMA PickedIs ==
    ASSUME NEW s, IsSeq(s), NEW S
    PROVE  IsPicked(Picked(s, S), s, S)
<1>1. PICK f : /\ f = [n \in 0..Len(s) |-> PickStep(s, S, f, n)]
               /\ Picked(s, S) = f[Len(s)]
  BY PickedBy
<1>2. Len(s) \in Nat
  BY SeqFacts
<1>3. \A n \in 0..Len(s) : f[n] = PickStep(s, S, f, n)
  BY <1>1
<1>. DEFINE T == {n \in 0..Len(s) : \E h : Embeds(f[n], s, S, n, h)}
<1>4. 0 \in T
  <2>1. f[0] = <<>>
    BY <1>2, <1>3 DEF PickStep
  <2>. QED
    BY <1>2, <2>1, EmbedsNone
<1>5. ASSUME NEW n \in 0..(Len(s) - 1), n \in T PROVE n + 1 \in T
  <2>1. PICK h : Embeds(f[n], s, S, n, h)
    BY <1>5
  <2>2. n \in Nat /\ n + 1 \in 0..Len(s) /\ n + 1 # 0 /\ (n + 1) - 1 = n
    BY <1>2
  <2>3. f[n + 1] = IF s[n + 1] \in S THEN Append(f[n], s[n + 1]) ELSE f[n]
    BY <1>3, <2>2 DEF PickStep
  <2>4. \E g : Embeds(IF s[n + 1] \in S THEN Append(f[n], s[n + 1]) ELSE f[n], s, S, n + 1, g)
    BY <2>1, <2>2, EmbedsMore
  <2>. QED
    BY <2>2, <2>3, <2>4
<1>6. Len(s) \in T
  <2>. HIDE DEF T
  <2>1. T \in SUBSET (0..Len(s))
    BY DEF T
  <2>2. T = 0..Len(s)
    BY <1>2, <1>4, <1>5, <2>1, Climb
  <2>. QED
    BY <1>2, <2>2
<1>. QED
  BY <1>1, <1>6 DEF IsPicked

\* Two enumerations of the same places, in order, are one.
LEMMA PickedOne ==
    ASSUME NEW s, NEW S, Len(s) \in Nat, NEW t, NEW u, IsPicked(t, s, S), IsPicked(u, s, S)
    PROVE  t = u
<1>1. PICK g : Embeds(t, s, S, Len(s), g)
  BY DEF IsPicked
<1>2. PICK h : Embeds(u, s, S, Len(s), h)
  BY DEF IsPicked
<1>3. IsSeq(t) /\ IsSeq(u) /\ Len(t) \in Nat /\ Len(u) \in Nat
  BY <1>1, <1>2, SeqFacts DEF Embeds
<1>4. \A i \in 1..Len(t) : i \in 1..Len(u) /\ g[i] = h[i]
  <2>. DEFINE B == {i \in 1..Len(t) : ~(i \in 1..Len(u) /\ g[i] = h[i])}
  <2>. SUFFICES ASSUME B # {} PROVE FALSE
    OBVIOUS
  <2>1. B \in SUBSET Nat
    OBVIOUS
  <2>2. PICK i \in B : \A j \in B : i <= j
    BY <2>1, LeastNat
  <2>3. \A j \in 1..(i - 1) : j \in 1..Len(u) /\ g[j] = h[j]
    <3>1. \A j \in 1..(i - 1) : j \in 1..Len(t) /\ ~(i <= j)
      BY <1>3
    <3>. QED
      BY <2>2, <3>1
  <2>4. g[i] \in 1..Len(s) /\ s[g[i]] \in S
    BY <1>1 DEF Embeds
  <2>5. PICK k \in 1..Len(u) : h[k] = g[i]
    BY <1>2, <2>4 DEF Embeds
  <2>6. ~(k < i)
    <3>1. ASSUME k < i PROVE FALSE
      <4>1. k \in 1..(i - 1) /\ k \in 1..Len(t)
        BY <1>3, <3>1
      <4>2. g[k] = g[i]
        BY <2>3, <2>5, <4>1
      <4>3. g[k] < g[i]
        BY <1>1, <3>1, <4>1 DEF Embeds
      <4>. QED
        BY <2>4, <4>2, <4>3
    <3>. QED
      BY <3>1
  <2>7. i < k /\ i \in 1..Len(u)
    <3>1. k # i
      BY <2>5
    <3>. QED
      BY <1>3, <2>6, <3>1
  <2>8. h[i] < g[i] /\ h[i] \in 1..Len(s) /\ s[h[i]] \in S
    BY <1>2, <2>5, <2>7 DEF Embeds
  <2>9. PICK m \in 1..Len(t) : g[m] = h[i]
    BY <1>1, <2>8 DEF Embeds
  <2>10. CASE m < i
    <3>1. m \in 1..(i - 1)
      BY <1>3, <2>10
    <3>2. h[m] = h[i] /\ m \in 1..Len(u)
      BY <2>3, <2>9, <3>1
    <3>. QED
      BY <1>2, <2>7, <2>8, <2>10, <3>2 DEF Embeds
  <2>11. CASE i <= m
    <3>1. g[i] <= g[m]
      <4>1. CASE i = m
        BY <2>4, <4>1
      <4>2. CASE i < m
        <5>1. g[i] < g[m] /\ g[m] \in 1..Len(s)
          BY <1>1, <4>2 DEF Embeds
        <5>. QED
          BY <2>4, <5>1
      <4>. QED
        BY <2>11, <4>1, <4>2
    <3>. QED
      BY <2>4, <2>8, <2>9, <3>1
  <2>. QED
    BY <1>3, <2>10, <2>11
<1>5. \A i \in 1..Len(u) : i \in 1..Len(t)
  <2>. SUFFICES ASSUME NEW i \in 1..Len(u), i \notin 1..Len(t) PROVE FALSE
    OBVIOUS
  <2>1. h[i] \in 1..Len(s) /\ s[h[i]] \in S
    BY <1>2 DEF Embeds
  <2>2. PICK k \in 1..Len(t) : g[k] = h[i]
    BY <1>1, <2>1 DEF Embeds
  <2>3. k < i /\ k \in 1..Len(u) /\ h[k] = h[i]
    BY <1>3, <1>4, <2>2
  <2>. QED
    BY <1>2, <2>1, <2>3 DEF Embeds
<1>6. Len(t) = Len(u)
  BY <1>3, <1>4, <1>5
<1>7. \A i \in 1..Len(t) : t[i] = u[i]
  BY <1>1, <1>2, <1>4, SMTT(30) DEF Embeds
<1>. QED
  BY <1>3, <1>6, <1>7, SameSeq

LEMMA PickedWhen ==
    ASSUME NEW s, IsSeq(s), NEW S, NEW t, IsPicked(t, s, S)
    PROVE  t = Picked(s, S)
  BY SeqFacts, PickedIs, PickedOne

\* What is picked, without saying from where.
LEMMA PickedSeq ==
    ASSUME NEW s, IsSeq(s), NEW S
    PROVE  IsSeq(Picked(s, S)) /\ Range(Picked(s, S)) = Range(s) \cap S
<1>1. PICK h : Embeds(Picked(s, S), s, S, Len(s), h)
  BY PickedIs DEF IsPicked
<1>. DEFINE t == Picked(s, S)
<1>2. IsSeq(t) /\ Len(t) \in Nat /\ Len(s) \in Nat
  BY <1>1, SeqFacts DEF Embeds
<1>. HIDE DEF t
<1>3. Range(t) = {t[i] : i \in 1..Len(t)} /\ Range(s) = {s[i] : i \in 1..Len(s)}
  BY <1>2, RangeIs
<1>4. \A i \in 1..Len(t) : t[i] \in Range(s) \cap S
  BY <1>1, <1>3 DEF Embeds, t
<1>5. \A k \in 1..Len(s) : s[k] \in S => s[k] \in Range(t)
  <2>. SUFFICES ASSUME NEW k \in 1..Len(s), s[k] \in S PROVE s[k] \in Range(t)
    OBVIOUS
  <2>1. PICK i \in 1..Len(t) : h[i] = k
    BY <1>1 DEF Embeds, t
  <2>2. t[i] = s[k]
    BY <1>1, <2>1 DEF Embeds, t
  <2>. QED
    BY <1>3, <2>2
<1>6. Range(t) = Range(s) \cap S
  BY <1>3, <1>4, <1>5
<1>. QED
  BY <1>2, <1>6 DEF t

\* Sets that agree on the elements of s pick the same.
LEMMA PickedSame ==
    ASSUME NEW s, IsSeq(s), NEW S, NEW T, \A x \in Range(s) : x \in S <=> x \in T
    PROVE  Picked(s, S) = Picked(s, T)
<1>. DEFINE t == Picked(s, S)
<1>1. PICK h : Embeds(t, s, S, Len(s), h)
  BY PickedIs DEF IsPicked
<1>. HIDE DEF t
<1>2. \A i \in 1..Len(s) : s[i] \in S <=> s[i] \in T
  BY RangeIs
<1>3. \A i \in 1..Len(t) : h[i] \in 1..Len(s)
  BY <1>1 DEF Embeds
<1>4. Embeds(t, s, T, Len(s), h)
  BY <1>1, <1>2, <1>3 DEF Embeds
<1>. QED
  BY <1>4, PickedWhen DEF IsPicked, t

LEMMA PickedAll ==
    ASSUME NEW s, IsSeq(s), NEW S, Range(s) \subseteq S
    PROVE  Picked(s, S) = s
<1>1. Len(s) \in Nat
  BY SeqFacts
<1>2. \A i \in 1..Len(s) : s[i] \in S
  BY RangeIs
<1>. DEFINE h == [i \in 1..Len(s) |-> i]
<1>3. Embeds(s, s, S, Len(s), h)
  BY <1>1, <1>2 DEF Embeds
<1>. QED
  BY <1>3, PickedWhen DEF IsPicked

LEMMA PickedNone ==
    ASSUME NEW s, IsSeq(s), NEW S, Range(s) \cap S = {}
    PROVE  Picked(s, S) = <<>>
<1>1. IsSeq(Picked(s, S)) /\ Range(Picked(s, S)) = {}
  BY PickedSeq
<1>. DEFINE t == Picked(s, S)
<1>. HIDE DEF t
<1>2. Len(t) \in Nat /\ (t # <<>> => t[1] \in Range(t))
  BY <1>1, SeqFacts, RangeIs DEF t
<1>. QED
  BY <1>1, <1>2 DEF t

\* The first of what is picked is the first in s that is in S.
LEMMA PickedFirst ==
    ASSUME NEW s, IsSeq(s), NEW S, NEW k \in 1..Len(s), s[k] \in S,
           \A j \in 1..(k - 1) : s[j] \notin S
    PROVE  Picked(s, S) # <<>> /\ Picked(s, S)[1] = s[k]
<1>. DEFINE t == Picked(s, S)
<1>1. PICK h : Embeds(t, s, S, Len(s), h)
  BY PickedIs DEF IsPicked
<1>2. IsSeq(t) /\ Len(t) \in Nat /\ Len(s) \in Nat
  BY <1>1, SeqFacts DEF Embeds
<1>. HIDE DEF t
<1>3. PICK i \in 1..Len(t) : h[i] = k
  BY <1>1 DEF Embeds
<1>4. 1 \in 1..Len(t) /\ h[1] \in 1..Len(s) /\ s[h[1]] \in S
  BY <1>1, <1>2, <1>3 DEF Embeds
<1>5. h[1] <= k
  <2>1. CASE i = 1
    BY <1>3, <2>1
  <2>2. CASE 1 < i
    <3>1. h[1] < h[i]
      BY <1>1, <1>4, <2>2 DEF Embeds
    <3>. QED
      BY <1>3, <1>4, <3>1
  <2>. QED
    BY <1>2, <2>1, <2>2
<1>6. h[1] = k
  <2>1. h[1] \notin 1..(k - 1)
    BY <1>4
  <2>. QED
    BY <1>4, <1>5, <2>1
<1>. QED
  BY <1>1, <1>2, <1>4, <1>6, SeqFacts DEF Embeds, t

LEMMA PickedCat ==
    ASSUME NEW s, NEW t, IsSeq(s), IsSeq(t), NEW S
    PROVE  Picked(s \o t, S) = Picked(s, S) \o Picked(t, S)
<1>. DEFINE p == Picked(s, S)
            q == Picked(t, S)
            n == Len(s)
<1>1. PICK g : Embeds(p, s, S, Len(s), g)
  BY PickedIs DEF IsPicked
<1>2. PICK h : Embeds(q, t, S, Len(t), h)
  BY PickedIs DEF IsPicked
<1>3. IsSeq(p) /\ IsSeq(q) /\ Len(p) \in Nat /\ Len(q) \in Nat /\ n \in Nat /\ Len(t) \in Nat
  BY <1>1, <1>2, SeqFacts DEF Embeds
<1>. HIDE DEF p, q
<1>4. /\ IsSeq(s \o t) /\ Len(s \o t) = n + Len(t)
      /\ \A i \in 1..n : (s \o t)[i] = s[i]
      /\ \A i \in 1..Len(t) : (s \o t)[n + i] = t[i]
  BY CatIs
<1>5. /\ IsSeq(p \o q) /\ Len(p \o q) = Len(p) + Len(q)
      /\ \A i \in 1..Len(p) : (p \o q)[i] = p[i]
      /\ \A i \in 1..Len(q) : (p \o q)[Len(p) + i] = q[i]
  BY <1>3, CatIs
<1>. DEFINE a == s \o t
            b == p \o q
            k == [i \in 1..Len(b) |-> IF i <= Len(p) THEN g[i] ELSE n + h[i - Len(p)]]
<1>. HIDE DEF a, b
<1>0. Len(a) \in Nat /\ Len(b) \in Nat /\ Len(a) = n + Len(t) /\ Len(b) = Len(p) + Len(q)
  BY <1>3, <1>4, <1>5 DEF a, b
<1>6. \A i \in 1..Len(b) : i \in 1..Len(p) \/ \E m \in 1..Len(q) : i = Len(p) + m
  <2>. SUFFICES ASSUME NEW i \in 1..Len(b), i \notin 1..Len(p)
                PROVE  \E m \in 1..Len(q) : i = Len(p) + m
    OBVIOUS
  <2>1. i - Len(p) \in 1..Len(q) /\ i = Len(p) + (i - Len(p))
    BY <1>0, <1>3
  <2>. QED
    BY <2>1
<1>7. \A i \in 1..Len(p) : i \in 1..Len(b) /\ k[i] = g[i] /\ g[i] \in 1..n
  BY <1>1, <1>3, <1>5 DEF Embeds, b
<1>8. \A i \in 1..Len(q) : Len(p) + i \in 1..Len(b) /\ k[Len(p) + i] = n + h[i]
                           /\ h[i] \in 1..Len(t)
  <2>. SUFFICES ASSUME NEW i \in 1..Len(q)
                PROVE  Len(p) + i \in 1..Len(b) /\ k[Len(p) + i] = n + h[i]
                       /\ h[i] \in 1..Len(t)
    OBVIOUS
  <2>1. Len(p) + i \in 1..Len(b) /\ ~(Len(p) + i <= Len(p)) /\ (Len(p) + i) - Len(p) = i
    BY <1>3, <1>5 DEF b
  <2>2. h[i] \in 1..Len(t)
    BY <1>2 DEF Embeds
  <2>. QED
    BY <2>1, <2>2
<1>9. k \in [1..Len(b) -> 1..Len(a)]
  <2>1. \A i \in 1..Len(b) : k[i] \in 1..Len(a)
    <3>. SUFFICES ASSUME NEW i \in 1..Len(b) PROVE k[i] \in 1..Len(a)
      OBVIOUS
    <3>1. CASE i \in 1..Len(p)
      <4>1. k[i] = g[i] /\ g[i] \in 1..n
        BY <1>7, <3>1
      <4>2. \A x \in 1..n : x \in 1..Len(a)
        BY <1>0, <1>3
      <4>. QED
        BY <4>1, <4>2
    <3>2. CASE \E m \in 1..Len(q) : i = Len(p) + m
      <4>1. PICK j \in 1..Len(q) : i = Len(p) + j
        BY <3>2
      <4>2. k[i] = n + h[j] /\ h[j] \in 1..Len(t)
        BY <1>8, <4>1
      <4>. QED
        BY <1>0, <1>3, <4>2
    <3>. QED
      BY <1>6, <3>1, <3>2
  <2>. QED
    BY <2>1
<1>. HIDE DEF k
<1>10. \A i, j \in 1..Len(b) : i < j => k[i] < k[j]
  <2>. SUFFICES ASSUME NEW i \in 1..Len(b), NEW j \in 1..Len(b), i < j PROVE k[i] < k[j]
    OBVIOUS
  <2>1. CASE j \in 1..Len(p)
    <3>1. i \in 1..Len(p)
      BY <1>3, <2>1
    <3>. QED
      BY <1>1, <1>7, <2>1, <3>1 DEF Embeds
  <2>2. CASE (\E m \in 1..Len(q) : j = Len(p) + m) /\ i \in 1..Len(p)
    <3>1. PICK m \in 1..Len(q) : j = Len(p) + m
      BY <2>2
    <3>2. k[j] = n + h[m] /\ h[m] \in 1..Len(t) /\ k[i] \in 1..n
      BY <1>7, <1>8, <2>2, <3>1
    <3>. QED
      BY <1>3, <3>2
  <2>3. CASE (\E m \in 1..Len(q) : j = Len(p) + m) /\ (\E m \in 1..Len(q) : i = Len(p) + m)
    <3>1. PICK l \in 1..Len(q), m \in 1..Len(q) : i = Len(p) + l /\ j = Len(p) + m
      BY <2>3
    <3>2. k[j] = n + h[m] /\ k[i] = n + h[l] /\ h[l] \in 1..Len(t) /\ h[m] \in 1..Len(t)
      BY <1>8, <3>1
    <3>3. l < m
      BY <1>3, <3>1
    <3>4. h[l] < h[m]
      BY <1>2, <3>3 DEF Embeds
    <3>. QED
      BY <1>3, <3>2, <3>4
  <2>. QED
    BY <1>6, <2>1, <2>2, <2>3
<1>11. \A i \in 1..Len(b) : b[i] = a[k[i]] /\ b[i] \in S
  <2>. SUFFICES ASSUME NEW i \in 1..Len(b) PROVE b[i] = a[k[i]] /\ b[i] \in S
    OBVIOUS
  <2>1. CASE i \in 1..Len(p)
    <3>1. b[i] = p[i] /\ p[i] = s[g[i]] /\ p[i] \in S /\ k[i] = g[i] /\ g[i] \in 1..n
      BY <1>1, <1>5, <1>7, <2>1 DEF Embeds, b
    <3>. QED
      BY <1>4, <3>1 DEF a
  <2>2. CASE \E m \in 1..Len(q) : i = Len(p) + m
    <3>1. PICK m \in 1..Len(q) : i = Len(p) + m
      BY <2>2
    <3>2. k[i] = n + h[m] /\ h[m] \in 1..Len(t) /\ b[i] = q[m]
      BY <1>5, <1>8, <3>1 DEF b
    <3>3. q[m] = t[h[m]] /\ q[m] \in S
      BY <1>2 DEF Embeds
    <3>. QED
      BY <1>4, <3>2, <3>3 DEF a
  <2>. QED
    BY <1>6, <2>1, <2>2
<1>12. \A j \in 1..Len(a) : a[j] \in S => \E i \in 1..Len(b) : k[i] = j
  <2>. SUFFICES ASSUME NEW j \in 1..Len(a), a[j] \in S PROVE \E i \in 1..Len(b) : k[i] = j
    OBVIOUS
  <2>1. CASE j \in 1..n
    <3>1. s[j] \in S
      BY <1>4, <2>1 DEF a
    <3>2. PICK i \in 1..Len(p) : g[i] = j
      BY <1>1, <2>1, <3>1 DEF Embeds
    <3>. QED
      BY <1>7, <3>2
  <2>2. CASE j \notin 1..n
    <3>1. PICK m \in 1..Len(t) : j = n + m
      <4>1. j - n \in 1..Len(t) /\ j = n + (j - n)
        BY <1>3, <1>4, <2>2 DEF a
      <4>. QED
        BY <4>1
    <3>2. t[m] \in S
      BY <1>4, <3>1 DEF a
    <3>3. PICK i \in 1..Len(q) : h[i] = m
      BY <1>2, <3>2 DEF Embeds
    <3>. QED
      BY <1>8, <3>1, <3>3
  <2>. QED
    BY <2>1, <2>2
<1>13. Embeds(b, a, S, Len(a), k)
  BY <1>5, <1>9, <1>10, <1>11, <1>12 DEF Embeds, b
<1>. QED
  BY <1>4, <1>13, PickedWhen DEF IsPicked, a, b, p, q

\* What is picked of what is picked.
LEMMA PickedTwice ==
    ASSUME NEW s, IsSeq(s), NEW S, NEW T, \A x \in Range(s) : x \in T => x \in S
    PROVE  Picked(Picked(s, S), T) = Picked(s, T)
<1>. DEFINE p == Picked(s, S)
            q == Picked(p, T)
<1>1. PICK g : Embeds(p, s, S, Len(s), g)
  BY PickedIs DEF IsPicked
<1>2. IsSeq(p)
  BY <1>1 DEF Embeds
<1>. HIDE DEF p
<1>3. PICK h : Embeds(q, p, T, Len(p), h)
  BY <1>2, PickedIs DEF IsPicked
<1>. HIDE DEF q
<1>4. Len(p) \in Nat /\ Len(q) \in Nat /\ Len(s) \in Nat
  BY <1>2, <1>3, SeqFacts DEF Embeds
<1>. DEFINE k == [i \in 1..Len(q) |-> g[h[i]]]
<1>5. \A i \in 1..Len(q) : h[i] \in 1..Len(p) /\ k[i] = g[h[i]] /\ k[i] \in 1..Len(s)
  BY <1>1, <1>3 DEF Embeds
<1>6. k \in [1..Len(q) -> 1..Len(s)]
  BY <1>5
<1>. HIDE DEF k
<1>7. \A i, j \in 1..Len(q) : i < j => k[i] < k[j]
  <2>. SUFFICES ASSUME NEW i \in 1..Len(q), NEW j \in 1..Len(q), i < j PROVE k[i] < k[j]
    OBVIOUS
  <2>1. h[i] < h[j] /\ h[i] \in 1..Len(p) /\ h[j] \in 1..Len(p)
    BY <1>3, <1>5 DEF Embeds
  <2>2. g[h[i]] < g[h[j]]
    BY <1>1, <2>1 DEF Embeds
  <2>. QED
    BY <1>5, <2>2
<1>8. \A i \in 1..Len(q) : q[i] = s[k[i]] /\ q[i] \in T
  BY <1>1, <1>3, <1>5, SMTT(30) DEF Embeds
<1>9. \A j \in 1..Len(s) : s[j] \in T => \E i \in 1..Len(q) : k[i] = j
  <2>. SUFFICES ASSUME NEW j \in 1..Len(s), s[j] \in T PROVE \E i \in 1..Len(q) : k[i] = j
    OBVIOUS
  <2>1. s[j] \in S
    BY RangeIs
  <2>2. PICK m \in 1..Len(p) : g[m] = j
    BY <1>1, <2>1 DEF Embeds
  <2>3. p[m] \in T
    BY <1>1, <2>2 DEF Embeds
  <2>4. PICK i \in 1..Len(q) : h[i] = m
    BY <1>3, <2>3 DEF Embeds
  <2>. QED
    BY <1>5, <2>2, <2>4
<1>10. Embeds(q, s, T, Len(s), k)
  BY <1>3, <1>6, <1>7, <1>8, <1>9 DEF Embeds
<1>. QED
  BY <1>10, PickedWhen DEF IsPicked, p, q

LEMMA PickedReverse ==
    ASSUME NEW s, IsSeq(s), NEW S
    PROVE  Picked(Reverse(s), S) = Reverse(Picked(s, S))
<1>. DEFINE p == Picked(s, S)
            r == Reverse(s)
            q == Reverse(p)
<1>1. PICK g : Embeds(p, s, S, Len(s), g)
  BY PickedIs DEF IsPicked
<1>2. IsSeq(p)
  BY <1>1 DEF Embeds
<1>. HIDE DEF p
<1>3. Len(p) \in Nat /\ Len(s) \in Nat
  BY <1>2, SeqFacts
<1>4. /\ IsSeq(r) /\ Len(r) = Len(s)
      /\ \A i \in 1..Len(s) : r[i] = s[Len(s) + 1 - i]
  BY ReverseIs
<1>5. /\ IsSeq(q) /\ Len(q) = Len(p)
      /\ \A i \in 1..Len(p) : q[i] = p[Len(p) + 1 - i]
  BY <1>2, ReverseIs
<1>. HIDE DEF r, q
<1>. DEFINE k == [i \in 1..Len(q) |-> Len(s) + 1 - g[Len(p) + 1 - i]]
<1>6. \A i \in 1..Len(q) : /\ Len(p) + 1 - i \in 1..Len(p)
                           /\ g[Len(p) + 1 - i] \in 1..Len(s)
                           /\ k[i] = Len(s) + 1 - g[Len(p) + 1 - i]
  <2>1. \A i \in 1..Len(q) : Len(p) + 1 - i \in 1..Len(p)
    BY <1>3, <1>5
  <2>. QED
    BY <1>1, <2>1 DEF Embeds
<1>7. k \in [1..Len(q) -> 1..Len(r)]
  <2>1. \A i \in 1..Len(q) : k[i] \in 1..Len(r)
    <3>. HIDE DEF k
    <3>. QED
      BY <1>3, <1>4, <1>6, SMTT(30)
  <2>. QED
    BY <2>1
<1>. HIDE DEF k
<1>8. \A i, j \in 1..Len(q) : i < j => k[i] < k[j]
  <2>. SUFFICES ASSUME NEW i \in 1..Len(q), NEW j \in 1..Len(q), i < j PROVE k[i] < k[j]
    OBVIOUS
  <2>1. Len(p) + 1 - j < Len(p) + 1 - i
    BY <1>3
  <2>2. g[Len(p) + 1 - j] < g[Len(p) + 1 - i]
    BY <1>1, <1>6, <2>1 DEF Embeds
  <2>. QED
    BY <1>3, <1>6, <2>2, SMTT(30)
<1>9. \A i \in 1..Len(q) : q[i] = r[k[i]] /\ q[i] \in S
  <2>. SUFFICES ASSUME NEW i \in 1..Len(q) PROVE q[i] = r[k[i]] /\ q[i] \in S
    OBVIOUS
  <2>. DEFINE m == Len(p) + 1 - i
  <2>1. m \in 1..Len(p) /\ g[m] \in 1..Len(s) /\ k[i] = Len(s) + 1 - g[m] /\ q[i] = p[m]
    BY <1>5, <1>6
  <2>. HIDE DEF m
  <2>2. k[i] \in 1..Len(s) /\ Len(s) + 1 - k[i] = g[m]
    <3>1. PICK x : x = g[m]
      OBVIOUS
    <3>2. x \in 1..Len(s) /\ k[i] = Len(s) + 1 - x
      BY <2>1, <3>1
    <3>. QED
      BY <1>3, <3>1, <3>2
  <2>3. r[k[i]] = s[g[m]]
    BY <1>4, <2>2
  <2>. QED
    BY <1>1, <2>1, <2>3 DEF Embeds
<1>10. \A j \in 1..Len(r) : r[j] \in S => \E i \in 1..Len(q) : k[i] = j
  <2>. SUFFICES ASSUME NEW j \in 1..Len(r), r[j] \in S PROVE \E i \in 1..Len(q) : k[i] = j
    OBVIOUS
  <2>1. Len(s) + 1 - j \in 1..Len(s) /\ r[j] = s[Len(s) + 1 - j]
    BY <1>3, <1>4
  <2>2. PICK m \in 1..Len(p) : g[m] = Len(s) + 1 - j
    BY <1>1, <2>1 DEF Embeds
  <2>3. Len(p) + 1 - m \in 1..Len(q) /\ Len(p) + 1 - (Len(p) + 1 - m) = m
    BY <1>3, <1>5
  <2>4. k[Len(p) + 1 - m] = Len(s) + 1 - g[m]
    BY <1>6, <2>3
  <2>5. k[Len(p) + 1 - m] = j
    BY <1>3, <1>4, <2>2, <2>4
  <2>. QED
    BY <2>3, <2>5
<1>11. Embeds(q, r, S, Len(r), k)
  BY <1>5, <1>7, <1>8, <1>9, <1>10 DEF Embeds
<1>. QED
  BY <1>4, <1>11, PickedWhen DEF IsPicked, p, r, q

-----------------------------------------------------------------------------
(***************************************************************************)
(* The path of links that lead to smaller numbers.                         *)
(***************************************************************************)
Descending(up) ==
    /\ IsFiniteSet(DOMAIN up) /\ DOMAIN up \subseteq Nat \ {0}
    /\ \A u \in DOMAIN up : (up[u] \in DOMAIN up \/ up[u] = Null) /\ up[u] < u

Climbs(up, w, id) ==
    /\ IsSeq(w) /\ Len(w) # 0 /\ w[1] = id
    /\ \A i \in 1..Len(w) : w[i] \in DOMAIN up
    /\ \A i \in 1..(Len(w) - 1) : w[i + 1] = up[w[i]]
IsPath(up, w, id) == Climbs(up, w, id) /\ up[w[Len(w)]] = Null

PathStep(up, id, f, n) ==
    IF n = 0 THEN <<id>>
    ELSE LET path == f[n - 1]
             next == up[Last(path)]
         IN  IF next = Null \/ Contains(path, next) THEN path ELSE Append(path, next)

LEMMA PathExists ==
    ASSUME NEW up, NEW id, NEW N \in Nat
    PROVE  \E f : f = [n \in 0..N |-> PathStep(up, id, f, n)]
<1>. DEFINE T == {n \in 0..N : \E f : f = [m \in 0..n |-> PathStep(up, id, f, m)]}
<1>1. 0 \in T
  <2>. DEFINE f == [m \in 0..0 |-> <<id>>]
  <2>1. f = [m \in 0..0 |-> PathStep(up, id, f, m)]
    BY DEF PathStep
  <2>. QED
    BY <2>1
<1>2. ASSUME NEW n \in 0..(N - 1), n \in T PROVE n + 1 \in T
  <2>1. PICK f : f = [m \in 0..n |-> PathStep(up, id, f, m)]
    BY <1>2
  <2>. DEFINE g == [m \in 0..(n + 1) |-> PathStep(up, id, f, m)]
  <2>2. \A m \in 0..n : g[m] = f[m]
    <3>1. \A m \in 0..n : f[m] = PathStep(up, id, f, m)
      BY <2>1
    <3>. QED
      BY <3>1
  <2>3. \A m \in 0..(n + 1) : PathStep(up, id, g, m) = PathStep(up, id, f, m)
    <3>. HIDE DEF g
    <3>1. \A m \in 0..(n + 1) : m # 0 => m - 1 \in 0..n
      OBVIOUS
    <3>2. \A m \in 0..(n + 1) : m # 0 => g[m - 1] = f[m - 1]
      BY <2>2, <3>1
    <3>. QED
      BY <3>2 DEF PathStep
  <2>4. g = [m \in 0..(n + 1) |-> PathStep(up, id, g, m)]
    BY <2>3
  <2>. HIDE DEF g
  <2>5. n + 1 \in 0..N
    OBVIOUS
  <2>. QED
    BY <2>4, <2>5
<1>3. T = 0..N
  <2>. HIDE DEF T
  <2>1. T \in SUBSET (0..N)
    BY DEF T
  <2>. QED
    BY <1>1, <1>2, <2>1, Climb
<1>4. N \in T
  BY <1>3
<1>. QED
  BY <1>4

LEMMA PathBy ==
    ASSUME NEW up, IsFiniteSet(DOMAIN up), NEW id
    PROVE  \E f : /\ \A n \in 0..Cardinality(DOMAIN up) : f[n] = PathStep(up, id, f, n)
                  /\ Path(up, id) = f[Cardinality(DOMAIN up)]
<1>. DEFINE N == Cardinality(DOMAIN up)
<1>0. N \in Nat
  BY FS_CardinalityType
<1>1. \E f : f = [n \in 0..N |-> PathStep(up, id, f, n)]
  BY <1>0, PathExists
<1>. DEFINE walked == CHOOSE f : f = [n \in 0..N |-> PathStep(up, id, f, n)]
<1>2. walked = [n \in 0..N |-> PathStep(up, id, walked, n)]
  BY <1>1
<1>3. Path(up, id) = walked[N]
  BY DEF Path, PathStep
<1>4. \A n \in 0..N : walked[n] = PathStep(up, id, walked, n)
  <2>. HIDE DEF walked
  <2>. QED
    BY <1>2
<1>. QED
  BY <1>3, <1>4

\* Whatever the links: the path begins at the entry, and stays where there are links.
LEMMA PathIn ==
    ASSUME NEW up, IsFiniteSet(DOMAIN up), NEW id \in DOMAIN up,
           \A u \in DOMAIN up : up[u] \in DOMAIN up \/ up[u] = Null
    PROVE  LET w == Path(up, id)
           IN  IsSeq(w) /\ Len(w) # 0 /\ w[1] = id /\ Range(w) \subseteq DOMAIN up
<1>. DEFINE N == Cardinality(DOMAIN up)
<1>0. N \in Nat
  BY FS_CardinalityType
<1>1. PICK f : /\ \A n \in 0..N : f[n] = PathStep(up, id, f, n)
               /\ Path(up, id) = f[N]
  BY PathBy
<1>. HIDE DEF N
<1>. DEFINE Good(w) == IsSeq(w) /\ Len(w) # 0 /\ w[1] = id /\ Range(w) \subseteq DOMAIN up
            T == {n \in 0..N : Good(f[n])}
<1>2. 0 \in T
  <2>1. f[0] = <<id>>
    BY <1>0, <1>1 DEF PathStep
  <2>2. Good(<<id>>)
    BY OneIs
  <2>. QED
    BY <1>0, <2>1, <2>2
<1>3. ASSUME NEW n \in 0..(N - 1), n \in T PROVE n + 1 \in T
  <2>. DEFINE w == f[n]
              next == up[Last(w)]
  <2>1. n + 1 \in 0..N /\ n + 1 # 0 /\ (n + 1) - 1 = n
    BY <1>0
  <2>2. f[n + 1] = IF next = Null \/ Contains(w, next) THEN w ELSE Append(w, next)
    BY <1>1, <2>1 DEF PathStep
  <2>3. Good(w)
    BY <1>3
  <2>4. ASSUME next # Null PROVE Good(Append(w, next))
    <3>1. Len(w) \in 1..Len(w) /\ Len(w) \in Nat /\ 1 \in 1..Len(w)
      BY <2>3, SeqFacts
    <3>2. Last(w) \in Range(w)
      BY <2>3, <3>1, RangeIs DEF Last
    <3>3. next \in DOMAIN up
      BY <2>3, <2>4, <3>2
    <3>. HIDE DEF next, w
    <3>0. IsSeq(w)
      BY <2>3
    <3>4. /\ IsSeq(Append(w, next)) /\ Len(Append(w, next)) = Len(w) + 1
          /\ \A i \in 1..Len(w) : Append(w, next)[i] = w[i]
          /\ Append(w, next)[Len(w) + 1] = next
      <4>1. PICK v, x : v = w /\ x = next
        OBVIOUS
      <4>2. IsSeq(v)
        BY <3>0, <4>1
      <4>3. /\ IsSeq(Append(v, x)) /\ Len(Append(v, x)) = Len(v) + 1
            /\ \A i \in 1..Len(v) : Append(v, x)[i] = v[i]
            /\ Append(v, x)[Len(v) + 1] = x
        BY <4>2, AppendIs
      <4>. QED
        BY <4>1, <4>3
    <3>5. \A i \in 1..(Len(w) + 1) : Append(w, next)[i] \in DOMAIN up
      <4>1. \A i \in 1..(Len(w) + 1) : i \in 1..Len(w) \/ i = Len(w) + 1
        BY <3>1
      <4>. QED
        BY <2>3, <3>3, <3>4, <4>1, RangeIs
    <3>6. Range(Append(w, next)) \subseteq DOMAIN up
      <4>1. PICK v : v = Append(w, next)
        OBVIOUS
      <4>2. IsSeq(v) /\ \A i \in 1..Len(v) : v[i] \in DOMAIN up
        BY <3>4, <3>5, <4>1
      <4>3. Range(v) \subseteq DOMAIN up
        BY <4>2, RangeIs
      <4>. QED
        BY <4>1, <4>3
    <3>. QED
      BY <2>3, <3>1, <3>4, <3>6
  <2>. HIDE DEF Good
  <2>5. Good(f[n + 1])
    BY <2>2, <2>3, <2>4
  <2>. QED
    BY <2>1, <2>5
<1>4. T = 0..N
  <2>. HIDE DEF T
  <2>1. T \in SUBSET (0..N)
    BY DEF T
  <2>. QED
    BY <1>0, <1>2, <1>3, <2>1, Climb
<1>. QED
  BY <1>0, <1>1, <1>4

LEMMA ClimbsDown ==
    ASSUME NEW up, Descending(up), NEW id \in DOMAIN up, NEW w, Climbs(up, w, id)
    PROVE  \A i, j \in 1..Len(w) : i < j => w[j] < w[i]
<1>1. Len(w) \in Nat
  BY SeqFacts DEF Climbs
<1>. SUFFICES ASSUME NEW i \in 1..Len(w)
              PROVE  \A j \in 1..Len(w) : i < j => w[j] < w[i]
  OBVIOUS
<1>. DEFINE B == {j \in 1..Len(w) : i < j /\ ~(w[j] < w[i])}
<1>. SUFFICES ASSUME B # {} PROVE FALSE
  OBVIOUS
<1>2. B \in SUBSET Nat
  OBVIOUS
<1>3. PICK j \in B : \A k \in B : j <= k
  BY <1>2, LeastNat
<1>. DEFINE k == j - 1
<1>4. k \in 1..(Len(w) - 1) /\ k \in 1..Len(w) /\ k + 1 = j /\ i <= k /\ j \in Nat
  BY <1>1, <1>3
<1>5. k \notin B
  BY <1>3, <1>4
<1>. HIDE DEF k
<1>6. w[j] < w[k]
  BY <1>4 DEF Descending, Climbs
<1>7. w[j] \in Nat /\ w[k] \in Nat /\ w[i] \in Nat
  BY <1>3, <1>4 DEF Descending, Climbs
<1>8. k = i \/ w[k] < w[i]
  BY <1>1, <1>4, <1>5
<1>. QED
  BY <1>3, <1>6, <1>7, <1>8

LEMMA ClimbsShort ==
    ASSUME NEW up, Descending(up), NEW id \in DOMAIN up, NEW w, Climbs(up, w, id)
    PROVE  Len(w) <= Cardinality(DOMAIN up)
<1>1. Len(w) \in Nat
  BY SeqFacts DEF Climbs
<1>2. IsFiniteSet(1..Len(w)) /\ Cardinality(1..Len(w)) = Len(w)
  <2>1. 1 \in Int /\ Len(w) \in Int /\ (IF 1 > Len(w) THEN 0 ELSE Len(w) - 1 + 1) = Len(w)
    BY <1>1
  <2>. QED
    BY <2>1, FS_Interval
<1>. DEFINE f == [i \in 1..Len(w) |-> w[i]]
<1>3. f \in [1..Len(w) -> DOMAIN up]
  BY DEF Climbs
<1>4. \A i, j \in 1..Len(w) : f[i] = f[j] => i = j
  <2>. SUFFICES ASSUME NEW i \in 1..Len(w), NEW j \in 1..Len(w), w[i] = w[j], i # j
                PROVE  FALSE
    OBVIOUS
  <2>1. w[i] \in Nat
    BY DEF Climbs, Descending
  <2>2. i < j \/ j < i
    BY <1>1
  <2>. QED
    BY <2>1, <2>2, ClimbsDown
<1>. HIDE DEF f
<1>5. f \in Injection(1..Len(w), DOMAIN up)
  BY <1>3, <1>4 DEF Injection, IsInjective
<1>6. IsFiniteSet(DOMAIN up)
  BY DEF Descending
<1>. QED
  BY <1>2, <1>5, <1>6, FS_Injection

\* Where the links descend, the path ends at an entry without one.
LEMMA PathIs ==
    ASSUME NEW up, Descending(up), NEW id \in DOMAIN up
    PROVE  IsPath(up, Path(up, id), id)
<1>. DEFINE N == Cardinality(DOMAIN up)
<1>0. N \in Nat /\ IsFiniteSet(DOMAIN up)
  BY FS_CardinalityType DEF Descending
<1>1. PICK f : /\ \A n \in 0..N : f[n] = PathStep(up, id, f, n)
               /\ Path(up, id) = f[N]
  BY <1>0, PathBy
<1>2. \A w : Climbs(up, w, id) => Len(w) <= N
  BY ClimbsShort
<1>. HIDE DEF N
<1>. DEFINE Good(w, n) == Climbs(up, w, id) /\ (Len(w) = n + 1 \/ up[w[Len(w)]] = Null)
            T == {n \in 0..N : Good(f[n], n)}
<1>3. 0 \in T
  <2>1. f[0] = <<id>>
    BY <1>0, <1>1 DEF PathStep
  <2>2. Good(<<id>>, 0)
    BY OneIs DEF Climbs
  <2>. QED
    BY <1>0, <2>1, <2>2
<1>4. ASSUME NEW n \in 0..(N - 1), n \in T PROVE n + 1 \in T
  <2>1. n + 1 \in 0..N /\ n + 1 # 0 /\ (n + 1) - 1 = n
    BY <1>0
  <2>2. PICK w : w = f[n] /\ Good(w, n)
    BY <1>4
  <2>3. PICK next : next = up[w[Len(w)]]
    OBVIOUS
  <2>4. f[n + 1] = IF next = Null \/ Contains(w, next) THEN w ELSE Append(w, next)
    BY <1>1, <2>1, <2>2, <2>3 DEF PathStep, Last
  <2>5. IsSeq(w) /\ Len(w) \in Nat /\ Len(w) # 0 /\ Len(w) \in 1..Len(w)
    BY <2>2, SeqFacts DEF Climbs
  <2>6. CASE next = Null
    BY <2>1, <2>2, <2>3, <2>4, <2>6
  <2>7. CASE next # Null
    <3>1. w[Len(w)] \in DOMAIN up /\ next \in DOMAIN up /\ next < w[Len(w)]
      BY <2>2, <2>3, <2>5, <2>7 DEF Climbs, Descending
    <3>2. next \in Nat /\ w[Len(w)] \in Nat
      BY <3>1 DEF Descending
    <3>3. ~Contains(w, next)
      <4>1. ASSUME NEW i \in 1..Len(w), w[i] = next PROVE FALSE
        <5>1. i # Len(w)
          BY <3>1, <3>2, <4>1
        <5>2. i < Len(w)
          BY <2>5, <5>1
        <5>3. Climbs(up, w, id)
          BY <2>2
        <5>4. w[Len(w)] < w[i]
          BY <2>5, <5>2, <5>3, ClimbsDown
        <5>. QED
          BY <3>1, <3>2, <4>1, <5>4
      <4>. QED
        BY <4>1 DEF Contains
    <3>4. PICK v : v = Append(w, next)
      OBVIOUS
    <3>5. /\ IsSeq(v) /\ Len(v) = Len(w) + 1 /\ v[Len(w) + 1] = next
          /\ \A i \in 1..Len(w) : v[i] = w[i]
      BY <2>5, <3>4, AppendIs
    <3>6. \A i \in 1..Len(v) : v[i] \in DOMAIN up
      <4>1. \A i \in 1..Len(v) : i \in 1..Len(w) \/ i = Len(w) + 1
        BY <2>5, <3>5
      <4>. QED
        BY <2>2, <3>1, <3>5, <4>1 DEF Climbs
    <3>7. \A i \in 1..(Len(v) - 1) : v[i + 1] = up[v[i]]
      <4>1. \A i \in 1..(Len(v) - 1) : i \in 1..Len(w) /\ (i = Len(w) \/ i \in 1..(Len(w) - 1))
        BY <2>5, <3>5
      <4>2. \A i \in 1..(Len(w) - 1) : i + 1 \in 1..Len(w) /\ w[i + 1] = up[w[i]]
        BY <2>2, <2>5 DEF Climbs
      <4>. QED
        BY <2>3, <3>5, <4>1, <4>2
    <3>8. Climbs(up, v, id)
      <4>1. Len(v) # 0 /\ v[1] = id
        BY <2>2, <2>5, <3>5 DEF Climbs
      <4>. QED
        BY <3>5, <3>6, <3>7, <4>1 DEF Climbs
    <3>9. Len(v) = (n + 1) + 1 \/ up[w[Len(w)]] = Null
      BY <2>2, <3>5
    <3>10. Good(v, n + 1)
      BY <2>3, <2>7, <3>8, <3>9
    <3>. QED
      BY <2>1, <2>4, <2>7, <3>3, <3>4, <3>10
  <2>. QED
    BY <2>6, <2>7
<1>5. T = 0..N
  <2>. HIDE DEF T
  <2>1. T \in SUBSET (0..N)
    BY DEF T
  <2>. QED
    BY <1>0, <1>3, <1>4, <2>1, Climb
<1>6. Good(f[N], N)
  BY <1>0, <1>5
<1>7. Len(f[N]) # N + 1
  <2>1. Len(f[N]) <= N /\ Len(f[N]) \in Nat
    BY <1>2, <1>6, SeqFacts DEF Climbs
  <2>. QED
    BY <1>0, <2>1
<1>. QED
  BY <1>1, <1>6, <1>7 DEF IsPath

LEMMA PathOne ==
    ASSUME NEW up, Null \notin DOMAIN up, NEW id, NEW w, NEW v,
           IsPath(up, w, id), IsPath(up, v, id)
    PROVE  w = v
<1>1. /\ IsSeq(w) /\ IsSeq(v) /\ Len(w) \in Nat /\ Len(v) \in Nat
      /\ Len(w) # 0 /\ Len(v) # 0
  BY SeqFacts DEF IsPath, Climbs
<1>2. ASSUME NEW a, NEW b, IsPath(up, a, id), IsPath(up, b, id),
             Len(a) \in Nat, Len(b) \in Nat, Len(a) # 0, Len(b) # 0
      PROVE  \A i \in 1..Len(a) : i \in 1..Len(b) /\ a[i] = b[i]
  <2>. DEFINE B == {i \in 1..Len(a) : ~(i \in 1..Len(b) /\ a[i] = b[i])}
  <2>. SUFFICES ASSUME B # {} PROVE FALSE
    OBVIOUS
  <2>1. B \in SUBSET Nat
    OBVIOUS
  <2>2. PICK i \in B : \A j \in B : i <= j
    BY <2>1, LeastNat
  <2>3. i # 1
    BY <1>2, <2>2 DEF IsPath, Climbs
  <2>. DEFINE k == i - 1
  <2>4. k \in 1..(Len(a) - 1) /\ k \in 1..Len(a) /\ k + 1 = i /\ k < i
    BY <1>2, <2>3
  <2>5. k \in 1..Len(b) /\ a[k] = b[k]
    BY <1>2, <2>2, <2>4
  <2>. HIDE DEF k
  <2>6. a[i] = up[a[k]] /\ a[i] \in DOMAIN up
    BY <1>2, <2>4 DEF IsPath, Climbs
  <2>7. k # Len(b)
    BY <1>2, <2>5, <2>6 DEF IsPath
  <2>8. k \in 1..(Len(b) - 1) /\ i \in 1..Len(b)
    BY <1>2, <2>4, <2>5, <2>7
  <2>9. b[i] = up[b[k]]
    BY <1>2, <2>4, <2>8 DEF IsPath, Climbs
  <2>. QED
    BY <2>2, <2>5, <2>6, <2>8, <2>9
<1>3. /\ \A i \in 1..Len(w) : i \in 1..Len(v) /\ w[i] = v[i]
      /\ \A i \in 1..Len(v) : i \in 1..Len(w)
  BY <1>1, <1>2
<1>4. Len(w) = Len(v)
  BY <1>1, <1>3
<1>. QED
  BY <1>1, <1>3, <1>4, SameSeq

LEMMA PathWhen ==
    ASSUME NEW up, Descending(up), NEW id \in DOMAIN up, NEW w, IsPath(up, w, id)
    PROVE  w = Path(up, id)
<1>1. Null \notin DOMAIN up
  BY DEF Descending, Null
<1>2. IsPath(up, Path(up, id), id)
  BY PathIs
<1>. QED
  BY <1>1, <1>2, PathOne

\* The rest of a path is the path of where it begins.
LEMMA PathRest ==
    ASSUME NEW up, Descending(up), NEW id \in DOMAIN up, NEW w, IsPath(up, w, id),
           NEW k \in 1..Len(w)
    PROVE  /\ Len(Path(up, w[k])) = Len(w) - k + 1
           /\ \A i \in 1..(Len(w) - k + 1) : Path(up, w[k])[i] = w[k + i - 1]
<1>1. IsSeq(w) /\ Len(w) \in Nat
  BY SeqFacts DEF IsPath, Climbs
<1>. DEFINE n == Len(w) - k + 1
            v == [i \in 1..n |-> w[k + i - 1]]
<1>2. n \in Nat /\ n # 0 /\ 1 \in 1..n /\ n \in 1..n /\ k + n - 1 = Len(w) /\ k + 1 - 1 = k
  BY <1>1
<1>3. v = [i \in 1..n |-> v[i]] /\ DOMAIN v = 1..n
  OBVIOUS
<1>4. \A i \in 1..n : v[i] = w[k + i - 1] /\ k + i - 1 \in 1..Len(w)
  BY <1>1
<1>. HIDE DEF v, n
<1>5. IsSeq(v) /\ Len(v) = n
  BY <1>2, <1>3, FunSeq
<1>6. \A i \in 1..Len(v) : v[i] \in DOMAIN up
  BY <1>4, <1>5 DEF IsPath, Climbs
<1>7. \A i \in 1..(Len(v) - 1) : v[i + 1] = up[v[i]]
  <2>. SUFFICES ASSUME NEW i \in 1..(Len(v) - 1) PROVE v[i + 1] = up[v[i]]
    OBVIOUS
  <2>1. i \in 1..n /\ i + 1 \in 1..n
    BY <1>2, <1>5
  <2>2. k + i - 1 \in 1..(Len(w) - 1) /\ (k + i - 1) + 1 = k + (i + 1) - 1
    BY <1>1, <1>2, <2>1 DEF n
  <2>3. w[(k + i - 1) + 1] = up[w[k + i - 1]]
    BY <2>2 DEF IsPath, Climbs
  <2>. QED
    BY <1>4, <2>1, <2>2, <2>3
<1>8. v[1] = w[k] /\ v[Len(v)] = w[Len(w)] /\ w[k] \in DOMAIN up
  BY <1>2, <1>4, <1>5 DEF IsPath, Climbs
<1>9. IsPath(up, v, w[k])
  BY <1>2, <1>5, <1>6, <1>7, <1>8 DEF IsPath, Climbs
<1>10. v = Path(up, w[k])
  BY <1>8, <1>9, PathWhen
<1>. QED
  BY <1>4, <1>5, <1>10 DEF n

\* Links that agree along a path have it in common.
LEMMA PathAgrees ==
    ASSUME NEW up, Descending(up), NEW vp, Descending(vp),
           NEW id \in DOMAIN vp, DOMAIN vp \subseteq DOMAIN up,
           \A u \in DOMAIN vp : vp[u] = up[u]
    PROVE  Path(vp, id) = Path(up, id)
<1>1. IsPath(vp, Path(vp, id), id)
  BY PathIs
<1>. DEFINE w == Path(vp, id)
<1>. HIDE DEF w
<1>2. Len(w) \in Nat /\ Len(w) # 0 /\ \A i \in 1..(Len(w) - 1) : i \in 1..Len(w)
  BY <1>1, SeqFacts DEF IsPath, Climbs, w
<1>3. IsPath(up, w, id)
  BY <1>1, <1>2, SMTT(30) DEF IsPath, Climbs, w
<1>4. id \in DOMAIN up
  OBVIOUS
<1>. QED
  BY <1>3, <1>4, PathWhen DEF w

-----------------------------------------------------------------------------
(***************************************************************************)
(* Copies: a follows b if it has the entries of b and no others, and the   *)
(* last occurrences in a, at the places p, are in the order of b.          *)
(***************************************************************************)
Marks(a, b, p) ==
    /\ p \in [1..Len(b) -> 1..Len(a)]
    /\ \A i, j \in 1..Len(b) : i < j => p[i] < p[j]
    /\ \A i \in 1..Len(b) : a[p[i]] = b[i]
    /\ \A k \in 1..Len(a) : \E i \in 1..Len(b) : a[k] = b[i] /\ k <= p[i]
Follows(a, b) == IsSeq(a) /\ IsSeq(b) /\ \E p : Marks(a, b, p)

LEMMA FollowsRange ==
    ASSUME NEW a, NEW b, Follows(a, b)
    PROVE  Range(a) = Range(b)
<1>1. PICK p : Marks(a, b, p)
  BY DEF Follows
<1>2. Range(a) = {a[i] : i \in 1..Len(a)} /\ Range(b) = {b[i] : i \in 1..Len(b)}
  BY RangeIs DEF Follows
<1>3. \A k \in 1..Len(a) : \E i \in 1..Len(b) : a[k] = b[i]
  BY <1>1 DEF Marks
<1>4. \A i \in 1..Len(b) : p[i] \in 1..Len(a) /\ a[p[i]] = b[i]
  BY <1>1 DEF Marks
<1>. QED
  BY <1>2, <1>3, <1>4

LEMMA FollowsEmpty ==
    ASSUME NEW a, NEW b, Follows(a, b)
    PROVE  a = <<>> <=> b = <<>>
  BY EmptyRange, FollowsRange DEF Follows

\* What was there before does not matter, if all of it comes again.
LEMMA FollowsAfter ==
    ASSUME NEW x, NEW b, IsSeq(x), IsSeq(b), Range(x) \subseteq Range(b)
    PROVE  Follows(x \o b, b)
<1>. DEFINE a == x \o b
            n == Len(x)
            p == [i \in 1..Len(b) |-> n + i]
<1>1. /\ IsSeq(a) /\ Len(a) = n + Len(b)
      /\ \A i \in 1..n : a[i] = x[i]
      /\ \A i \in 1..Len(b) : a[n + i] = b[i]
  BY CatIs
<1>2. n \in Nat /\ Len(b) \in Nat
  BY SeqFacts
<1>. HIDE DEF a
<1>3. \A i \in 1..Len(b) : p[i] = n + i
  OBVIOUS
<1>4. p \in [1..Len(b) -> 1..Len(a)]
  BY <1>1, <1>2
<1>. HIDE DEF p
<1>5. \A k \in 1..Len(a) : \E i \in 1..Len(b) : a[k] = b[i] /\ k <= p[i]
  <2>. SUFFICES ASSUME NEW k \in 1..Len(a)
                PROVE  \E i \in 1..Len(b) : a[k] = b[i] /\ k <= p[i]
    OBVIOUS
  <2>1. CASE k \in 1..n
    <3>1. a[k] \in Range(x)
      BY <1>1, <2>1, RangeIs
    <3>2. PICK i \in 1..Len(b) : b[i] = a[k]
      BY <3>1, RangeIs
    <3>3. k <= p[i]
      BY <1>2, <1>3, <2>1
    <3>. QED
      BY <3>2, <3>3
  <2>2. CASE k \notin 1..n
    <3>1. k - n \in 1..Len(b) /\ k = n + (k - n)
      BY <1>1, <1>2, <2>2
    <3>2. PICK i \in 1..Len(b) : k = n + i
      BY <3>1
    <3>3. a[k] = b[i] /\ k <= p[i]
      BY <1>1, <1>2, <1>3, <3>2
    <3>. QED
      BY <3>3
  <2>. QED
    BY <2>1, <2>2
<1>6. Marks(a, b, p)
  BY <1>1, <1>2, <1>3, <1>4, <1>5 DEF Marks
<1>. QED
  BY <1>1, <1>6 DEF Follows, a

LEMMA FollowsCat ==
    ASSUME NEW a, NEW b, Follows(a, b), NEW c, NEW d, Follows(c, d)
    PROVE  Follows(a \o c, b \o d)
<1>1. PICK p, q : Marks(a, b, p) /\ Marks(c, d, q)
  BY DEF Follows
<1>2. PICK x, y : x = a \o c /\ y = b \o d
  OBVIOUS
<1>3. PICK k, l, m, n : k = Len(a) /\ l = Len(b) /\ m = Len(c) /\ n = Len(d)
  OBVIOUS
<1>4. IsSeq(a) /\ IsSeq(b) /\ IsSeq(c) /\ IsSeq(d)
  BY DEF Follows
<1>5. k \in Nat /\ l \in Nat /\ m \in Nat /\ n \in Nat
  BY <1>3, <1>4, SeqFacts
<1>6. /\ IsSeq(x) /\ Len(x) = k + m /\ \A i \in 1..k : x[i] = a[i]
      /\ \A i \in 1..m : x[k + i] = c[i]
  BY <1>2, <1>3, <1>4, CatIs
<1>7. /\ IsSeq(y) /\ Len(y) = l + n /\ \A i \in 1..l : y[i] = b[i]
      /\ \A i \in 1..n : y[l + i] = d[i]
  BY <1>2, <1>3, <1>4, CatIs
<1>8. /\ \A i \in 1..l : p[i] \in 1..k /\ a[p[i]] = b[i]
      /\ \A i, j \in 1..l : i < j => p[i] < p[j]
      /\ \A h \in 1..k : \E i \in 1..l : a[h] = b[i] /\ h <= p[i]
  BY <1>1, <1>3 DEF Marks
<1>9. /\ \A i \in 1..n : q[i] \in 1..m /\ c[q[i]] = d[i]
      /\ \A i, j \in 1..n : i < j => q[i] < q[j]
      /\ \A h \in 1..m : \E i \in 1..n : c[h] = d[i] /\ h <= q[i]
  BY <1>1, <1>3 DEF Marks
<1>. DEFINE r == [i \in 1..(l + n) |-> IF i <= l THEN p[i] ELSE k + q[i - l]]
<1>10. \A i \in 1..l : i \in 1..(l + n) /\ r[i] = p[i]
  BY <1>5
<1>11. \A i \in 1..n : l + i \in 1..(l + n) /\ r[l + i] = k + q[i]
  <2>. SUFFICES ASSUME NEW i \in 1..n PROVE l + i \in 1..(l + n) /\ r[l + i] = k + q[i]
    OBVIOUS
  <2>1. l + i \in 1..(l + n) /\ ~(l + i <= l) /\ (l + i) - l = i
    BY <1>5
  <2>. QED
    BY <2>1
<1>12. \A i \in 1..(l + n) : i \in 1..l \/ \E j \in 1..n : i = l + j
  <2>. SUFFICES ASSUME NEW i \in 1..(l + n), ~(i \in 1..l) PROVE \E j \in 1..n : i = l + j
    OBVIOUS
  <2>1. i - l \in 1..n /\ i = l + (i - l)
    BY <1>5
  <2>. QED
    BY <2>1
<1>13. \A h \in 1..(k + m) : h \in 1..k \/ \E j \in 1..m : h = k + j
  <2>. SUFFICES ASSUME NEW h \in 1..(k + m), ~(h \in 1..k) PROVE \E j \in 1..m : h = k + j
    OBVIOUS
  <2>1. h - k \in 1..m /\ h = k + (h - k)
    BY <1>5
  <2>. QED
    BY <2>1
<1>14. DOMAIN r = 1..(l + n) /\ r = [i \in 1..(l + n) |-> r[i]]
  OBVIOUS
<1>. HIDE DEF r
<1>15. \A i \in 1..(l + n) : r[i] \in 1..(k + m) /\ x[r[i]] = y[i]
  <2>1. ASSUME NEW i \in 1..l PROVE r[i] \in 1..(k + m) /\ x[r[i]] = y[i]
    <3>1. r[i] = p[i] /\ p[i] \in 1..k
      BY <1>8, <1>10
    <3>2. x[p[i]] = a[p[i]] /\ y[i] = b[i] /\ a[p[i]] = b[i]
      BY <1>6, <1>7, <1>8, <3>1
    <3>. QED
      BY <1>5, <3>1, <3>2
  <2>2. ASSUME NEW j \in 1..n PROVE r[l + j] \in 1..(k + m) /\ x[r[l + j]] = y[l + j]
    <3>1. r[l + j] = k + q[j] /\ q[j] \in 1..m
      BY <1>9, <1>11
    <3>2. x[k + q[j]] = c[q[j]] /\ y[l + j] = d[j] /\ c[q[j]] = d[j]
      BY <1>6, <1>7, <1>9, <3>1
    <3>. QED
      BY <1>5, <3>1, <3>2
  <2>. QED
    BY <1>12, <2>1, <2>2
<1>16. \A i, j \in 1..(l + n) : i < j => r[i] < r[j]
  <2>. SUFFICES ASSUME NEW i \in 1..(l + n), NEW j \in 1..(l + n), i < j PROVE r[i] < r[j]
    OBVIOUS
  <2>1. CASE i \in 1..l /\ j \in 1..l
    BY <1>8, <1>10, <2>1
  <2>2. CASE i \in 1..l /\ j \notin 1..l
    <3>1. PICK f \in 1..n : j = l + f
      BY <1>12, <2>2
    <3>2. r[i] = p[i] /\ r[j] = k + q[f] /\ p[i] \in 1..k /\ q[f] \in 1..m
      BY <1>8, <1>9, <1>10, <1>11, <2>2, <3>1
    <3>. QED
      BY <1>5, <3>2
  <2>3. CASE i \notin 1..l
    <3>1. PICK e \in 1..n : i = l + e
      BY <1>12, <2>3
    <3>2. j \notin 1..l
      BY <1>5, <3>1
    <3>3. PICK f \in 1..n : j = l + f
      BY <1>12, <3>2
    <3>4. e < f
      BY <1>5, <3>1, <3>3
    <3>5. r[i] = k + q[e] /\ r[j] = k + q[f] /\ q[e] \in 1..m /\ q[f] \in 1..m /\ q[e] < q[f]
      BY <1>9, <1>11, <3>1, <3>3, <3>4
    <3>. QED
      BY <1>5, <3>5
  <2>. QED
    BY <2>1, <2>2, <2>3
<1>17. \A h \in 1..(k + m) : \E i \in 1..(l + n) : x[h] = y[i] /\ h <= r[i]
  <2>. SUFFICES ASSUME NEW h \in 1..(k + m)
                PROVE  \E i \in 1..(l + n) : x[h] = y[i] /\ h <= r[i]
    OBVIOUS
  <2>1. CASE h \in 1..k
    <3>1. PICK i \in 1..l : a[h] = b[i] /\ h <= p[i]
      BY <1>8, <2>1
    <3>2. x[h] = y[i] /\ h <= r[i] /\ i \in 1..(l + n)
      BY <1>6, <1>7, <1>10, <2>1, <3>1
    <3>. QED
      BY <3>2
  <2>2. CASE h \notin 1..k
    <3>1. PICK j \in 1..m : h = k + j
      BY <1>13, <2>2
    <3>2. PICK i \in 1..n : c[j] = d[i] /\ j <= q[i]
      BY <1>9
    <3>3. r[l + i] = k + q[i] /\ q[i] \in 1..m /\ l + i \in 1..(l + n)
      BY <1>9, <1>11
    <3>4. x[h] = y[l + i] /\ h <= r[l + i]
      BY <1>5, <1>6, <1>7, <3>1, <3>2, <3>3
    <3>. QED
      BY <3>3, <3>4
  <2>. QED
    BY <2>1, <2>2
<1>18. r \in [1..(l + n) -> 1..(k + m)]
  BY <1>14, <1>15
<1>19. Marks(x, y, r)
  BY <1>6, <1>7, <1>15, <1>16, <1>17, <1>18 DEF Marks
<1>. QED
  BY <1>2, <1>6, <1>7, <1>19 DEF Follows

LEMMA FollowsItself == ASSUME NEW b, IsSeq(b) PROVE Follows(b, b)
<1>. DEFINE p == [i \in 1..Len(b) |-> i]
<1>1. Len(b) \in Nat
  BY SeqFacts
<1>2. Marks(b, b, p)
  BY <1>1 DEF Marks
<1>. QED
  BY <1>2 DEF Follows

LEMMA FollowsMore ==
    ASSUME NEW a, NEW b, Follows(a, b), NEW x
    PROVE  Follows(a \o <<x>>, b \o <<x>>)
<1>1. PICK p : Marks(a, b, p)
  BY DEF Follows
<1>. DEFINE c == a \o <<x>>
            d == b \o <<x>>
            q == [i \in 1..(Len(b) + 1) |-> IF i = Len(b) + 1 THEN Len(a) + 1 ELSE p[i]]
<1>2. Len(a) \in Nat /\ Len(b) \in Nat
  BY SeqFacts DEF Follows
<1>3. /\ IsSeq(c) /\ Len(c) = Len(a) + 1 /\ c[Len(a) + 1] = x
      /\ \A i \in 1..Len(a) : c[i] = a[i]
  BY CatOne DEF Follows
<1>4. /\ IsSeq(d) /\ Len(d) = Len(b) + 1 /\ d[Len(b) + 1] = x
      /\ \A i \in 1..Len(b) : d[i] = b[i]
  BY CatOne DEF Follows
<1>. HIDE DEF c, d
<1>5. q[Len(b) + 1] = Len(a) + 1 /\ \A i \in 1..Len(b) : q[i] = p[i] /\ p[i] \in 1..Len(a)
  BY <1>1, <1>2 DEF Marks
<1>6. /\ \A i \in 1..Len(d) : i \in 1..Len(b) \/ i = Len(b) + 1
      /\ \A k \in 1..Len(c) : k \in 1..Len(a) \/ k = Len(a) + 1
      /\ Len(b) + 1 \in 1..Len(d) /\ \A i \in 1..Len(b) : i \in 1..Len(d)
  BY <1>2, <1>3, <1>4
<1>7. q \in [1..Len(d) -> 1..Len(c)]
  <2>1. \A i \in 1..Len(d) : q[i] \in 1..Len(c)
    <3>. HIDE DEF q
    <3>. QED
      BY <1>2, <1>3, <1>5, <1>6
  <2>. QED
    BY <1>4, <2>1
<1>. HIDE DEF q
<1>8. \A i, j \in 1..Len(d) : i < j => q[i] < q[j]
  <2>. SUFFICES ASSUME NEW i \in 1..Len(d), NEW j \in 1..Len(d), i < j PROVE q[i] < q[j]
    OBVIOUS
  <2>1. i \in 1..Len(b)
    BY <1>2, <1>4
  <2>2. CASE j = Len(b) + 1
    BY <1>2, <1>5, <2>1, <2>2
  <2>3. CASE j \in 1..Len(b)
    BY <1>1, <1>5, <2>1, <2>3 DEF Marks
  <2>. QED
    BY <1>6, <2>2, <2>3
<1>9. \A i \in 1..Len(d) : c[q[i]] = d[i]
  <2>. SUFFICES ASSUME NEW i \in 1..Len(d) PROVE c[q[i]] = d[i]
    OBVIOUS
  <2>1. CASE i = Len(b) + 1
    BY <1>3, <1>4, <1>5, <2>1
  <2>2. CASE i \in 1..Len(b)
    <3>1. q[i] = p[i] /\ p[i] \in 1..Len(a) /\ a[p[i]] = b[i]
      BY <1>1, <1>5, <2>2 DEF Marks
    <3>. QED
      BY <1>3, <1>4, <2>2, <3>1
  <2>. QED
    BY <1>6, <2>1, <2>2
<1>10. \A k \in 1..Len(c) : \E i \in 1..Len(d) : c[k] = d[i] /\ k <= q[i]
  <2>. SUFFICES ASSUME NEW k \in 1..Len(c)
                PROVE  \E i \in 1..Len(d) : c[k] = d[i] /\ k <= q[i]
    OBVIOUS
  <2>1. CASE k = Len(a) + 1
    <3>1. c[k] = d[Len(b) + 1] /\ k <= q[Len(b) + 1]
      BY <1>2, <1>3, <1>4, <1>5, <2>1
    <3>. QED
      BY <1>6, <3>1
  <2>2. CASE k \in 1..Len(a)
    <3>1. PICK i \in 1..Len(b) : a[k] = b[i] /\ k <= p[i]
      BY <1>1, <2>2 DEF Marks
    <3>2. c[k] = d[i] /\ k <= q[i] /\ i \in 1..Len(d)
      BY <1>3, <1>4, <1>5, <1>6, <2>2, <3>1
    <3>. QED
      BY <3>2
  <2>. QED
    BY <1>6, <2>1, <2>2
<1>11. Marks(c, d, q)
  BY <1>7, <1>8, <1>9, <1>10 DEF Marks
<1>. QED
  BY <1>3, <1>4, <1>11 DEF Follows, c, d

\* The same part of both.
LEMMA FollowsPicked ==
    ASSUME NEW a, NEW b, Follows(a, b), NEW S
    PROVE  Follows(Picked(a, S), Picked(b, S))
<1>1. PICK p : Marks(a, b, p)
  BY DEF Follows
<1>. DEFINE c == Picked(a, S)
            d == Picked(b, S)
<1>2. PICK g : Embeds(c, a, S, Len(a), g)
  BY PickedIs DEF IsPicked, Follows
<1>3. PICK h : Embeds(d, b, S, Len(b), h)
  BY PickedIs DEF IsPicked, Follows
<1>4. /\ IsSeq(c) /\ IsSeq(d) /\ Len(c) \in Nat /\ Len(d) \in Nat
      /\ Len(a) \in Nat /\ Len(b) \in Nat
  BY <1>2, <1>3, SeqFacts DEF Embeds, Follows
<1>. HIDE DEF c, d
<1>5. \A i \in 1..Len(d) : \E k \in 1..Len(c) : g[k] = p[h[i]]
  <2>. SUFFICES ASSUME NEW i \in 1..Len(d) PROVE \E k \in 1..Len(c) : g[k] = p[h[i]]
    OBVIOUS
  <2>1. h[i] \in 1..Len(b) /\ b[h[i]] \in S
    BY <1>3 DEF Embeds
  <2>2. p[h[i]] \in 1..Len(a) /\ a[p[h[i]]] \in S
    BY <1>1, <2>1 DEF Marks
  <2>. QED
    BY <1>2, <2>2 DEF Embeds
<1>. DEFINE q == [i \in 1..Len(d) |-> CHOOSE k \in 1..Len(c) : g[k] = p[h[i]]]
<1>6. \A i \in 1..Len(d) : q[i] \in 1..Len(c) /\ g[q[i]] = p[h[i]]
  BY <1>5
<1>7. q \in [1..Len(d) -> 1..Len(c)]
  BY <1>6
<1>. HIDE DEF q
<1>8. \A k, l \in 1..Len(c) : g[k] < g[l] => k < l
  <2>. SUFFICES ASSUME NEW k \in 1..Len(c), NEW l \in 1..Len(c), g[k] < g[l], ~(k < l)
                PROVE  FALSE
    OBVIOUS
  <2>1. g[k] \in Nat /\ g[l] \in Nat
    <3>1. g[k] \in 1..Len(a) /\ g[l] \in 1..Len(a)
      BY <1>2 DEF Embeds
    <3>. QED
      BY <3>1
  <2>2. l = k \/ l < k
    BY <1>4
  <2>3. l < k => g[l] < g[k]
    BY <1>2 DEF Embeds
  <2>. QED
    BY <2>1, <2>2, <2>3
<1>9. \A i, j \in 1..Len(d) : i < j => q[i] < q[j]
  <2>. SUFFICES ASSUME NEW i \in 1..Len(d), NEW j \in 1..Len(d), i < j PROVE q[i] < q[j]
    OBVIOUS
  <2>1. h[i] < h[j] /\ h[i] \in 1..Len(b) /\ h[j] \in 1..Len(b)
    BY <1>3 DEF Embeds
  <2>2. p[h[i]] < p[h[j]]
    BY <1>1, <2>1 DEF Marks
  <2>. QED
    BY <1>6, <1>8, <2>2
<1>10. \A i \in 1..Len(d) : c[q[i]] = d[i]
  <2>. SUFFICES ASSUME NEW i \in 1..Len(d) PROVE c[q[i]] = d[i]
    OBVIOUS
  <2>1. c[q[i]] = a[p[h[i]]]
    BY <1>2, <1>6 DEF Embeds
  <2>2. d[i] = b[h[i]] /\ h[i] \in 1..Len(b)
    BY <1>3 DEF Embeds
  <2>. QED
    BY <1>1, <2>1, <2>2 DEF Marks
<1>11. \A k \in 1..Len(c) : \E i \in 1..Len(d) : c[k] = d[i] /\ k <= q[i]
  <2>. SUFFICES ASSUME NEW k \in 1..Len(c)
                PROVE  \E i \in 1..Len(d) : c[k] = d[i] /\ k <= q[i]
    OBVIOUS
  <2>1. g[k] \in 1..Len(a) /\ c[k] = a[g[k]] /\ c[k] \in S
    BY <1>2 DEF Embeds
  <2>2. PICK m \in 1..Len(b) : a[g[k]] = b[m] /\ g[k] <= p[m]
    BY <1>1, <2>1 DEF Marks
  <2>3. PICK i \in 1..Len(d) : h[i] = m
    BY <1>3, <2>1, <2>2 DEF Embeds
  <2>4. c[k] = d[i]
    BY <1>3, <2>1, <2>2, <2>3 DEF Embeds
  <2>5. g[k] <= g[q[i]] /\ q[i] \in 1..Len(c)
    BY <1>6, <2>2, <2>3
  <2>6. ~(q[i] < k)
    <3>1. ASSUME q[i] < k PROVE FALSE
      <4>1. g[q[i]] < g[k] /\ g[q[i]] \in 1..Len(a)
        BY <1>2, <2>5, <3>1 DEF Embeds
      <4>. QED
        BY <2>1, <2>5, <4>1
    <3>. QED
      BY <3>1
  <2>7. k <= q[i]
    BY <1>4, <2>5, <2>6
  <2>. QED
    BY <2>4, <2>7
<1>12. Marks(c, d, q)
  BY <1>7, <1>9, <1>10, <1>11 DEF Marks
<1>. QED
  BY <1>4, <1>12 DEF Follows, c, d

-----------------------------------------------------------------------------
\* Where the uuids of a transcript are.
LEMMA UuidsAre ==
    ASSUME NEW b, IsSeq(b)
    PROVE  /\ Uuids(b) = {b[i].uuid : i \in 1..Len(b)}
           /\ \A u : Positions(b, u) = {i \in 1..Len(b) : b[i].uuid = u}
           /\ IsFiniteSet(Uuids(b))
<1>1. DOMAIN b = 1..Len(b) /\ Len(b) \in Nat
  BY SeqFacts
<1>2. Uuids(b) = {b[i].uuid : i \in 1..Len(b)}
  BY <1>1 DEF Uuids
<1>3. \A u : Positions(b, u) = {i \in 1..Len(b) : b[i].uuid = u}
  BY <1>1 DEF Positions
<1>4. IsFiniteSet(1..Len(b))
  BY <1>1, FS_Interval
<1>5. IsFiniteSet({b[i].uuid : i \in 1..Len(b)})
  <2>. DEFINE f == [i \in 1..Len(b) |-> b[i].uuid]
  <2>1. f \in Surjection(1..Len(b), {b[i].uuid : i \in 1..Len(b)})
    BY DEF Surjection
  <2>. HIDE DEF f
  <2>. QED
    BY <1>4, <2>1, FS_Surjection
<1>. QED
  BY <1>2, <1>3, <1>5

LEMMA PositionIs ==
    ASSUME NEW b, IsSeq(b), NEW u \in Uuids(b)
    PROVE  /\ Position(b, u) \in 1..Len(b) /\ b[Position(b, u)].uuid = u
           /\ \A k \in 1..Len(b) : b[k].uuid = u => k <= Position(b, u)
           /\ ByUuid(b, u) = b[Position(b, u)]
<1>. DEFINE T == {i \in 1..Len(b) : b[i].uuid = u}
<1>1. Len(b) \in Nat
  BY SeqFacts
<1>2. Position(b, u) = Max(T)
  <2>1. Positions(b, u) = T
    BY SeqFacts DEF Positions
  <2>. QED
    BY <2>1 DEF Position
<1>3. T \in SUBSET (0..Len(b)) /\ T \in SUBSET Nat /\ T # {}
  BY <1>1, UuidsAre
<1>4. PICK m \in T : \A n \in T : n <= m
  BY <1>1, <1>3, GreatestNat
<1>5. Max(T) = m
  BY <1>3, <1>4, MaxIs
<1>6. Position(b, u) = m
  BY <1>2, <1>5
<1>. QED
  BY <1>4, <1>6 DEF ByUuid

LEMMA PositionWhen ==
    ASSUME NEW b, IsSeq(b), NEW k \in 1..Len(b),
           \A j \in 1..Len(b) : b[j].uuid = b[k].uuid => j <= k
    PROVE  b[k].uuid \in Uuids(b) /\ Position(b, b[k].uuid) = k /\ ByUuid(b, b[k].uuid) = b[k]
<1>1. Len(b) \in Nat
  BY SeqFacts
<1>2. b[k].uuid \in Uuids(b)
  BY UuidsAre
<1>. DEFINE m == Position(b, b[k].uuid)
<1>3. m \in 1..Len(b) /\ b[m].uuid = b[k].uuid /\ k <= m /\ ByUuid(b, b[k].uuid) = b[m]
  BY <1>2, PositionIs
<1>. HIDE DEF m
<1>4. m = k
  BY <1>1, <1>3
<1>. QED
  BY <1>2, <1>3, <1>4 DEF m

LEMMA LinksAre ==
    ASSUME NEW b, IsSeq(b)
    PROVE  /\ DOMAIN Links(b) = Uuids(b) /\ IsFiniteSet(DOMAIN Links(b))
           /\ \A u \in Uuids(b) : Links(b)[u] = Parent(b, u)
           /\ \A u \in Uuids(b) : Links(b)[u] \in Uuids(b) \/ Links(b)[u] = Null
  BY UuidsAre DEF Links, Parent

LEMMA WalkIn ==
    ASSUME NEW b, IsSeq(b), NEW u \in Uuids(b)
    PROVE  /\ IsSeq(Walk(b, u)) /\ Len(Walk(b, u)) # 0 /\ Walk(b, u)[1] = u
           /\ Range(Walk(b, u)) \subseteq Uuids(b)
  BY LinksAre, PathIn DEF Walk

LEMMA NearestIn ==
    ASSUME NEW b, IsSeq(b), NEW u \in Uuids(b)
    PROVE  NearestTalk(b, u) \subseteq Talks(b)
<1>. DEFINE t == Picked(Walk(b, u), Talks(b))
<1>1. IsSeq(t) /\ Range(t) \subseteq Talks(b)
  BY WalkIn, PickedSeq
<1>2. NearestTalk(b, u) = IF t = <<>> THEN {} ELSE {t[1]}
  BY DEF NearestTalk
<1>. HIDE DEF t
<1>3. t # <<>> => t[1] \in Range(t)
  BY <1>1, SeqFacts, RangeIs
<1>. QED
  BY <1>1, <1>2, <1>3

LEMMA LeavesIn ==
    ASSUME NEW b, IsSeq(b)
    PROVE  Leaves(b) \subseteq Talks(b) /\ Talks(b) \subseteq Uuids(b) /\ Terminals(b) \subseteq Uuids(b)
<1>1. Terminals(b) \subseteq Uuids(b) /\ Talks(b) \subseteq Uuids(b)
  BY DEF Terminals, Talks
<1>2. \A u \in Terminals(b) : NearestTalk(b, u) \subseteq Talks(b)
  BY <1>1, NearestIn
<1>. QED
  BY <1>1, <1>2 DEF Leaves

LEMMA LatestIs ==
    ASSUME NEW b, IsSeq(b), NEW ids \in SUBSET Uuids(b), ids # {}
    PROVE  /\ Latest(b, ids) \in ids
           /\ \A v \in ids : Position(b, v) <= Position(b, Latest(b, ids))
<1>1. Len(b) \in Nat
  BY SeqFacts
<1>. DEFINE T == {Position(b, v) : v \in ids}
<1>2. \A v \in ids : Position(b, v) \in 1..Len(b)
  BY PositionIs
<1>3. T \in SUBSET (0..Len(b)) /\ T # {}
  BY <1>1, <1>2
<1>4. PICK m \in T : \A n \in T : n <= m
  BY <1>1, <1>3, GreatestNat
<1>5. \E u \in ids : \A v \in ids : Position(b, v) <= Position(b, u)
  BY <1>4
<1>. QED
  BY <1>5 DEF Latest

LEMMA LatestWhen ==
    ASSUME NEW b, IsSeq(b), NEW ids \in SUBSET Uuids(b), NEW u \in ids,
           \A v \in ids : Position(b, v) <= Position(b, u)
    PROVE  Latest(b, ids) = u
<1>. DEFINE l == Latest(b, ids)
<1>1. l \in ids /\ Position(b, u) <= Position(b, l)
  BY LatestIs
<1>. HIDE DEF l
<1>2. Position(b, l) <= Position(b, u)
  BY <1>1
<1>3. /\ Position(b, l) \in 1..Len(b) /\ b[Position(b, l)].uuid = l
      /\ Position(b, u) \in 1..Len(b) /\ b[Position(b, u)].uuid = u
  BY <1>1, PositionIs
<1>4. Position(b, l) = Position(b, u)
  BY <1>1, <1>2, <1>3
<1>. QED
  BY <1>3, <1>4 DEF l

-----------------------------------------------------------------------------
\* What the readers look at: by this, two transcripts read alike.
Alike(a, b) ==
    /\ IsSeq(a) /\ IsSeq(b) /\ Uuids(a) = Uuids(b)
    /\ \A u \in Uuids(b) : ByUuid(a, u) = ByUuid(b, u)
    /\ {a[i].parent : i \in DOMAIN a} = {b[i].parent : i \in DOMAIN b}
    /\ \A u, v \in Uuids(b) :
          Position(a, u) <= Position(a, v) <=> Position(b, u) <= Position(b, v)

LEMMA MarkedPosition ==
    ASSUME NEW a, NEW b, IsSeq(a), IsSeq(b), NEW p, Marks(a, b, p), NEW u \in Uuids(b)
    PROVE  u \in Uuids(a) /\ Position(a, u) = p[Position(b, u)]
<1>1. Len(a) \in Nat /\ Len(b) \in Nat
  BY SeqFacts
<1>2. PICK i : i = Position(b, u)
  OBVIOUS
<1>3. /\ i \in 1..Len(b) /\ b[i].uuid = u
      /\ \A j \in 1..Len(b) : b[j].uuid = u => j <= i
  BY <1>2, PositionIs
<1>4. p[i] \in 1..Len(a) /\ a[p[i]].uuid = u
  BY <1>3 DEF Marks
<1>5. \A k \in 1..Len(a) : a[k].uuid = u => k <= p[i]
  <2>. SUFFICES ASSUME NEW k \in 1..Len(a), a[k].uuid = u PROVE k <= p[i]
    OBVIOUS
  <2>1. PICK j \in 1..Len(b) : a[k] = b[j] /\ k <= p[j]
    BY DEF Marks
  <2>2. j <= i
    BY <1>3, <2>1
  <2>3. j = i \/ p[j] < p[i]
    <3>1. j = i \/ j < i
      BY <1>3, <2>2
    <3>. QED
      BY <1>3, <3>1 DEF Marks
  <2>4. p[j] \in 1..Len(a)
    BY DEF Marks
  <2>. QED
    BY <1>4, <2>1, <2>3, <2>4
<1>6. a[p[i]].uuid \in Uuids(a) /\ Position(a, a[p[i]].uuid) = p[i]
  BY <1>4, <1>5, PositionWhen
<1>. QED
  BY <1>2, <1>4, <1>6

LEMMA FollowsAlike ==
    ASSUME NEW a, NEW b, Follows(a, b)
    PROVE  Alike(a, b)
<1>1. PICK p : Marks(a, b, p)
  BY DEF Follows
<1>2. IsSeq(a) /\ IsSeq(b) /\ Range(a) = Range(b)
  BY FollowsRange DEF Follows
<1>3. DOMAIN a = 1..Len(a) /\ DOMAIN b = 1..Len(b)
  BY <1>2, SeqFacts
<1>4. Range(a) = {a[i] : i \in 1..Len(a)} /\ Range(b) = {b[i] : i \in 1..Len(b)}
  BY <1>2, RangeIs
<1>5. Uuids(a) = {e.uuid : e \in Range(a)} /\ Uuids(b) = {e.uuid : e \in Range(b)}
  <2>1. \A c : IsSeq(c) => Uuids(c) = {e.uuid : e \in Range(c)}
    <3>. SUFFICES ASSUME NEW c, IsSeq(c) PROVE Uuids(c) = {e.uuid : e \in Range(c)}
      OBVIOUS
    <3>1. Uuids(c) = {c[i].uuid : i \in 1..Len(c)} /\ Range(c) = {c[i] : i \in 1..Len(c)}
      BY UuidsAre, RangeIs
    <3>. QED
      BY <3>1
  <2>. QED
    BY <1>2, <2>1
<1>6. {a[i].parent : i \in DOMAIN a} = {b[i].parent : i \in DOMAIN b}
  <2>1. {a[i].parent : i \in DOMAIN a} = {e.parent : e \in Range(a)}
    BY <1>3, <1>4
  <2>2. {b[i].parent : i \in DOMAIN b} = {e.parent : e \in Range(b)}
    BY <1>3, <1>4
  <2>. QED
    BY <1>2, <2>1, <2>2
<1>7. \A u \in Uuids(b) : ByUuid(a, u) = ByUuid(b, u)
  <2>. SUFFICES ASSUME NEW u \in Uuids(b) PROVE ByUuid(a, u) = ByUuid(b, u)
    OBVIOUS
  <2>1. Position(b, u) \in 1..Len(b) /\ ByUuid(b, u) = b[Position(b, u)]
    BY <1>2, PositionIs
  <2>2. Position(a, u) = p[Position(b, u)]
    BY <1>1, <1>2, MarkedPosition
  <2>. QED
    BY <1>1, <2>1, <2>2 DEF Marks, ByUuid
<1>8. \A u, v \in Uuids(b) :
          Position(a, u) <= Position(a, v) <=> Position(b, u) <= Position(b, v)
  <2>. SUFFICES ASSUME NEW u \in Uuids(b), NEW v \in Uuids(b)
                PROVE  Position(a, u) <= Position(a, v) <=> Position(b, u) <= Position(b, v)
    OBVIOUS
  <2>1. PICK i \in 1..Len(b), j \in 1..Len(b) : i = Position(b, u) /\ j = Position(b, v)
    BY <1>2, PositionIs
  <2>2. Position(a, u) = p[i] /\ Position(a, v) = p[j]
    BY <1>1, <1>2, <2>1, MarkedPosition
  <2>3. p[i] \in 1..Len(a) /\ p[j] \in 1..Len(a)
    BY <1>1 DEF Marks
  <2>4. (i < j => p[i] < p[j]) /\ (j < i => p[j] < p[i])
    BY <1>1 DEF Marks
  <2>5. p[i] <= p[j] <=> i <= j
    <3>1. i < j \/ i = j \/ j < i
      OBVIOUS
    <3>. QED
      BY <2>3, <2>4, <3>1
  <2>. QED
    BY <2>1, <2>2, <2>5
<1>. QED
  BY <1>2, <1>5, <1>6, <1>7, <1>8 DEF Alike

LEMMA AlikeWalks ==
    ASSUME NEW a, NEW b, Alike(a, b)
    PROVE  /\ Links(a) = Links(b) /\ Talks(a) = Talks(b) /\ Visibles(a) = Visibles(b)
           /\ \A u : Walk(a, u) = Walk(b, u)
<1>1. \A u \in Uuids(b) : Parent(a, u) = Parent(b, u)
  BY DEF Alike, Parent
<1>2. Links(a) = Links(b)
  BY <1>1 DEF Links, Alike
<1>. QED
  BY <1>2 DEF Walk, Talks, Visibles, Alike

\* get_session_messages() shows the same of two transcripts that are alike.
LEMMA AlikeMessages ==
    ASSUME NEW a, NEW b, Alike(a, b)
    PROVE  Messages(a) = Messages(b)
<1>0. IsSeq(a) /\ IsSeq(b)
  BY DEF Alike
<1>1. Terminals(a) = Terminals(b)
  BY DEF Terminals, Alike
<1>2. \A u : NearestTalk(a, u) = NearestTalk(b, u)
  BY AlikeWalks DEF NearestTalk
<1>3. Leaves(a) = Leaves(b)
  BY <1>1, <1>2 DEF Leaves
<1>4. Leaves(b) \subseteq Uuids(b)
  BY <1>0, LeavesIn
<1>5. MainLeaves(a) = MainLeaves(b) /\ MainLeaves(b) \subseteq Uuids(b)
  BY <1>3, <1>4 DEF MainLeaves, Alike
<1>6. ASSUME NEW ids \in SUBSET Uuids(b), ids # {}
      PROVE  Latest(a, ids) = Latest(b, ids)
  <2>1. PICK l \in ids : l = Latest(b, ids) /\ \A v \in ids : Position(b, v) <= Position(b, l)
    BY <1>0, <1>6, LatestIs
  <2>2. \A v \in ids : Position(a, v) <= Position(a, l)
    BY <2>1 DEF Alike
  <2>3. ids \in SUBSET Uuids(a)
    BY DEF Alike
  <2>4. Latest(a, ids) = l
    BY <1>0, <2>2, <2>3, LatestWhen
  <2>. QED
    BY <2>1, <2>4
<1>7. Chain(a) = Chain(b)
  <2>1. CASE Leaves(b) = {}
    BY <1>3, <2>1 DEF Chain
  <2>2. CASE Leaves(b) # {}
    <3>1. PICK ids : ids = IF MainLeaves(b) # {} THEN MainLeaves(b) ELSE Leaves(b)
      OBVIOUS
    <3>2. ids \in SUBSET Uuids(b) /\ ids # {}
      BY <1>4, <1>5, <2>2, <3>1
    <3>3. Latest(a, ids) = Latest(b, ids)
      BY <1>6, <3>2
    <3>4. Walk(a, Latest(a, ids)) = Walk(b, Latest(b, ids))
      BY <3>3, AlikeWalks
    <3>. QED
      BY <1>3, <1>5, <2>2, <3>1, <3>4 DEF Chain
  <2>. QED
    BY <2>1, <2>2
<1>. QED
  BY <1>7, AlikeWalks DEF Messages

\* get_subagent_messages(): the last message of both is the same, too.
LEMMA LastTalk ==
    ASSUME NEW b, IsSeq(b), NEW m \in 1..Len(b), Talk(b[m]),
           \A i \in 1..Len(b) : Talk(b[i]) => i <= m
    PROVE  SubagentMessages(b) = Picked(Reverse(Walk(b, b[m].uuid)), Talks(b))
<1>1. DOMAIN b = 1..Len(b) /\ Len(b) \in Nat
  BY SeqFacts
<1>. DEFINE T == {i \in DOMAIN b : Talk(b[i])}
<1>2. T \in SUBSET Nat /\ m \in T /\ \A i \in T : i <= m
  BY <1>1
<1>3. Max(T) = m /\ T # {}
  BY <1>2, MaxIs
<1>. QED
  BY <1>3 DEF SubagentMessages

LEMMA NoTalk ==
    ASSUME NEW b, IsSeq(b)
    PROVE  \/ \E m \in 1..Len(b) : Talk(b[m]) /\ \A i \in 1..Len(b) : Talk(b[i]) => i <= m
           \/ (\A i \in 1..Len(b) : ~Talk(b[i])) /\ SubagentMessages(b) = <<>>
<1>1. DOMAIN b = 1..Len(b) /\ Len(b) \in Nat
  BY SeqFacts
<1>. DEFINE T == {i \in DOMAIN b : Talk(b[i])}
<1>2. CASE T = {}
  BY <1>1, <1>2 DEF SubagentMessages
<1>3. CASE T # {}
  <2>1. T \in SUBSET (0..Len(b))
    BY <1>1
  <2>2. PICK m \in T : \A n \in T : n <= m
    BY <1>1, <1>3, <2>1, GreatestNat
  <2>. QED
    BY <1>1, <2>2
<1>. QED
  BY <1>2, <1>3

LEMMA FollowsTalks ==
    ASSUME NEW a, NEW b, Follows(a, b)
    PROVE  SubagentMessages(a) = SubagentMessages(b)
<1>1. PICK p : Marks(a, b, p)
  BY DEF Follows
<1>2. IsSeq(a) /\ IsSeq(b) /\ Len(a) \in Nat /\ Len(b) \in Nat
  BY SeqFacts DEF Follows
<1>3. CASE \A i \in 1..Len(b) : ~Talk(b[i])
  <2>1. \A k \in 1..Len(a) : ~Talk(a[k])
    BY <1>1, <1>3 DEF Marks
  <2>2. SubagentMessages(a) = <<>>
    BY <1>2, <2>1, NoTalk
  <2>3. SubagentMessages(b) = <<>>
    BY <1>2, <1>3, NoTalk
  <2>. QED
    BY <2>2, <2>3
<1>4. ASSUME NEW m \in 1..Len(b), Talk(b[m]), \A i \in 1..Len(b) : Talk(b[i]) => i <= m
      PROVE  SubagentMessages(a) = SubagentMessages(b)
  <2>1. SubagentMessages(b) = Picked(Reverse(Walk(b, b[m].uuid)), Talks(b))
    BY <1>2, <1>4, LastTalk
  <2>2. p[m] \in 1..Len(a) /\ a[p[m]] = b[m] /\ Talk(a[p[m]])
    BY <1>1, <1>4 DEF Marks
  <2>3. \A k \in 1..Len(a) : Talk(a[k]) => k <= p[m]
    <3>. SUFFICES ASSUME NEW k \in 1..Len(a), Talk(a[k]) PROVE k <= p[m]
      OBVIOUS
    <3>1. PICK i \in 1..Len(b) : a[k] = b[i] /\ k <= p[i]
      BY <1>1 DEF Marks
    <3>2. i <= m
      BY <1>4, <3>1
    <3>3. i = m \/ p[i] < p[m]
      <4>1. i = m \/ i < m
        BY <3>2
      <4>. QED
        BY <1>1, <4>1 DEF Marks
    <3>4. p[i] \in 1..Len(a)
      BY <1>1 DEF Marks
    <3>. QED
      BY <2>2, <3>1, <3>3, <3>4
  <2>4. SubagentMessages(a) = Picked(Reverse(Walk(a, a[p[m]].uuid)), Talks(a))
    BY <1>2, <2>2, <2>3, LastTalk
  <2>5. Walk(a, b[m].uuid) = Walk(b, b[m].uuid) /\ Talks(a) = Talks(b)
    BY FollowsAlike, AlikeWalks
  <2>. QED
    BY <2>1, <2>2, <2>4, <2>5
<1>. QED
  BY <1>2, <1>3, <1>4, NoTalk

-----------------------------------------------------------------------------
(***************************************************************************)
(* Forks.                                                                  *)
(***************************************************************************)
Written(s) == Picked(s, {e \in Range(s) : ~IsProgress(e)})
Kept(s) == {u \in Uuids(s) : ~IsProgress(ByUuid(s, u))}
Forked(s, e) == [uuid |-> e.uuid, parent |-> ForkParent(s, e.uuid),
                 type |-> e.type, flag |-> IF e.flag = "meta" THEN "meta" ELSE "none"]

LEMMA ForkParentIs ==
    ASSUME NEW s, NEW u
    PROVE  ForkParent(s, u) = IF Picked(Tail(Walk(s, u)), Kept(s)) = <<>> THEN Null
                              ELSE Picked(Tail(Walk(s, u)), Kept(s))[1]
  BY DEF ForkParent, Kept

LEMMA ForkIs ==
    ASSUME NEW s, IsSeq(s)
    PROVE  /\ IsSeq(ForkOf(s)) /\ IsSeq(Written(s)) /\ Len(ForkOf(s)) = Len(Written(s))
           /\ \A i \in 1..Len(Written(s)) : ForkOf(s)[i] = Forked(s, Written(s)[i])
<1>1. IsSeq(Written(s))
  BY PickedSeq DEF Written
<1>2. DOMAIN Written(s) = 1..Len(Written(s)) /\ Len(Written(s)) \in Nat
  BY <1>1, SeqFacts
<1>3. ForkOf(s) = [i \in DOMAIN Written(s) |-> Forked(s, Written(s)[i])]
  BY DEF ForkOf, Written, Forked
<1>4. /\ DOMAIN ForkOf(s) = 1..Len(Written(s))
      /\ ForkOf(s) = [i \in 1..Len(Written(s)) |-> ForkOf(s)[i]]
      /\ \A i \in 1..Len(Written(s)) : ForkOf(s)[i] = Forked(s, Written(s)[i])
  BY <1>2, <1>3
<1>5. IsSeq(ForkOf(s)) /\ Len(ForkOf(s)) = Len(Written(s))
  BY <1>2, <1>4, FunSeq
<1>. QED
  BY <1>1, <1>4, <1>5

LEMMA FollowsMapped ==
    ASSUME NEW a, NEW b, Follows(a, b), NEW c, NEW d, IsSeq(c), IsSeq(d), NEW F,
           Len(c) = Len(a), \A i \in 1..Len(a) : c[i] = F[a[i]],
           Len(d) = Len(b), \A i \in 1..Len(b) : d[i] = F[b[i]]
    PROVE  Follows(c, d)
<1>1. PICK p : Marks(a, b, p)
  BY DEF Follows
<1>2. Marks(c, d, p)
  <2>1. \A i \in 1..Len(b) : p[i] \in 1..Len(a)
    BY <1>1 DEF Marks
  <2>2. \A i \in 1..Len(b) : c[p[i]] = d[i]
    <3>1. \A i \in 1..Len(b) : c[p[i]] = F[a[p[i]]] /\ a[p[i]] = b[i]
      BY <1>1, <2>1 DEF Marks
    <3>. QED
      BY <3>1
  <2>3. \A k \in 1..Len(a) : \E i \in 1..Len(b) : c[k] = d[i] /\ k <= p[i]
    <3>. SUFFICES ASSUME NEW k \in 1..Len(a)
                  PROVE  \E i \in 1..Len(b) : c[k] = d[i] /\ k <= p[i]
      OBVIOUS
    <3>1. PICK i \in 1..Len(b) : a[k] = b[i] /\ k <= p[i]
      BY <1>1 DEF Marks
    <3>2. c[k] = d[i]
      BY <3>1
    <3>. QED
      BY <3>1, <3>2
  <2>. QED
    BY <1>1, <2>2, <2>3 DEF Marks
<1>. QED
  BY <1>2 DEF Follows

LEMMA FollowsForked ==
    ASSUME NEW a, NEW b, Follows(a, b)
    PROVE  Follows(ForkOf(a), ForkOf(b))
<1>1. IsSeq(a) /\ IsSeq(b) /\ Range(a) = Range(b)
  BY FollowsRange DEF Follows
<1>2. Follows(Written(a), Written(b))
  BY <1>1, FollowsPicked DEF Written
<1>3. Alike(a, b) /\ \A u : Walk(a, u) = Walk(b, u)
  BY FollowsAlike, AlikeWalks
<1>4. Kept(a) = Kept(b)
  BY <1>3 DEF Kept, Alike
<1>5. \A u : ForkParent(a, u) = ForkParent(b, u)
  BY <1>3, <1>4, ForkParentIs
<1>6. \A e : Forked(a, e) = Forked(b, e)
  BY <1>5 DEF Forked
<1>. DEFINE F == [e \in Range(Written(a)) |-> Forked(a, e)]
<1>7. /\ \A i \in 1..Len(Written(a)) : Written(a)[i] \in Range(Written(a))
      /\ \A i \in 1..Len(Written(b)) : Written(b)[i] \in Range(Written(a))
  <2>1. Range(Written(a)) = Range(Written(b))
    BY <1>2, FollowsRange
  <2>. QED
    BY <1>1, <2>1, RangeIs, ForkIs
<1>8. /\ \A i \in 1..Len(Written(a)) : ForkOf(a)[i] = F[Written(a)[i]]
      /\ \A i \in 1..Len(Written(b)) : ForkOf(b)[i] = F[Written(b)[i]]
  BY <1>1, <1>6, <1>7, ForkIs
<1>. HIDE DEF F
<1>9. /\ IsSeq(ForkOf(a)) /\ Len(ForkOf(a)) = Len(Written(a))
      /\ IsSeq(ForkOf(b)) /\ Len(ForkOf(b)) = Len(Written(b))
  BY <1>1, ForkIs
<1>. QED
  BY <1>2, <1>8, <1>9, FollowsMapped

\* A fork of the whole transcript.
LEMMA FollowsFork ==
    ASSUME NEW a, NEW b, Follows(a, b)
    PROVE  Messages(Fork(a, Null)) = Messages(Fork(b, Null))
<1>1. Range(a) = Range(b)
  BY FollowsRange
<1>2. Follows(Own(a), Own(b))
  BY <1>1, FollowsPicked DEF Own
<1>3. Fork(a, Null) = ForkOf(Own(a)) /\ Fork(b, Null) = ForkOf(Own(b))
  BY DEF Fork, Prefix
<1>4. Follows(Fork(a, Null), Fork(b, Null))
  BY <1>2, <1>3, FollowsForked
<1>. QED
  BY <1>4, FollowsAlike, AlikeMessages

-----------------------------------------------------------------------------
(***************************************************************************)
(* A transcript whose entries are in the order of their uuids, each after  *)
(* its parent.                                                             *)
(***************************************************************************)
Ordered(t) ==
    /\ IsSeq(t)
    /\ \A i \in 1..Len(t) : /\ t[i].uuid \in Nat \ {0} /\ t[i].parent \in Nat
                            /\ t[i].parent < t[i].uuid
    /\ \A i, j \in 1..Len(t) : i < j => t[i].uuid < t[j].uuid

LEMMA OrderedAt ==
    ASSUME NEW t, Ordered(t), NEW i \in 1..Len(t)
    PROVE  /\ t[i].uuid \in Uuids(t)
           /\ Position(t, t[i].uuid) = i /\ ByUuid(t, t[i].uuid) = t[i]
<1>1. IsSeq(t) /\ Len(t) \in Nat
  BY SeqFacts DEF Ordered
<1>2. \A j \in 1..Len(t) : t[j].uuid = t[i].uuid => j <= i
  <2>. SUFFICES ASSUME NEW j \in 1..Len(t), t[j].uuid = t[i].uuid, ~(j <= i) PROVE FALSE
    OBVIOUS
  <2>1. i < j /\ t[i].uuid \in Nat
    BY <1>1 DEF Ordered
  <2>. QED
    BY <2>1 DEF Ordered
<1>. QED
  BY <1>1, <1>2, PositionWhen

LEMMA OrderedEntry ==
    ASSUME NEW t, Ordered(t)
    PROVE  /\ \A u \in Uuids(t) : /\ ByUuid(t, u) \in Range(t) /\ ByUuid(t, u).uuid = u
                                  /\ u \in Nat \ {0}
           /\ \A e \in Range(t) : e.uuid \in Uuids(t) /\ ByUuid(t, e.uuid) = e
<1>1. IsSeq(t) /\ Range(t) = {t[i] : i \in 1..Len(t)}
  BY RangeIs DEF Ordered
<1>2. \A e \in Range(t) : e.uuid \in Uuids(t) /\ ByUuid(t, e.uuid) = e
  BY <1>1, OrderedAt
<1>3. ASSUME NEW u \in Uuids(t)
      PROVE  ByUuid(t, u) \in Range(t) /\ ByUuid(t, u).uuid = u /\ u \in Nat \ {0}
  <2>1. /\ Position(t, u) \in 1..Len(t) /\ t[Position(t, u)].uuid = u
        /\ ByUuid(t, u) = t[Position(t, u)]
    BY <1>1, PositionIs
  <2>. QED
    BY <1>1, <2>1 DEF Ordered
<1>. QED
  BY <1>2, <1>3

LEMMA OrderedPositions ==
    ASSUME NEW t, Ordered(t), NEW u \in Uuids(t), NEW v \in Uuids(t)
    PROVE  Position(t, u) <= Position(t, v) <=> u <= v
<1>1. PICK i \in 1..Len(t), j \in 1..Len(t) :
          /\ i = Position(t, u) /\ j = Position(t, v) /\ t[i].uuid = u /\ t[j].uuid = v
  BY PositionIs DEF Ordered
<1>2. (i < j => u < v) /\ (j < i => v < u) /\ u \in Nat /\ v \in Nat
  BY <1>1 DEF Ordered
<1>3. i < j \/ i = j \/ j < i
  OBVIOUS
<1>. QED
  BY <1>1, <1>2, <1>3

LEMMA OrderedLinks ==
    ASSUME NEW t, Ordered(t)
    PROVE  /\ Descending(Links(t)) /\ DOMAIN Links(t) = Uuids(t)
           /\ \A u \in Uuids(t) : /\ Links(t)[u] = Parent(t, u)
                                  /\ IsPath(Links(t), Walk(t, u), u)
           /\ Null \notin Uuids(t)
<1>1. /\ DOMAIN Links(t) = Uuids(t) /\ IsFiniteSet(DOMAIN Links(t))
      /\ \A u \in Uuids(t) : Links(t)[u] = Parent(t, u)
      /\ \A u \in Uuids(t) : Links(t)[u] \in Uuids(t) \/ Links(t)[u] = Null
  BY LinksAre DEF Ordered
<1>2. Uuids(t) \subseteq Nat \ {0}
  BY OrderedEntry
<1>3. ASSUME NEW u \in Uuids(t) PROVE Links(t)[u] < u
  <2>1. PICK i \in 1..Len(t) : ByUuid(t, u) = t[i] /\ t[i].uuid = u
    BY PositionIs DEF Ordered
  <2>2. t[i].parent < u /\ u \in Nat \ {0}
    BY <2>1 DEF Ordered
  <2>3. Links(t)[u] = t[i].parent \/ Links(t)[u] = Null
    BY <1>1, <2>1 DEF Parent
  <2>. QED
    BY <2>2, <2>3 DEF Null
<1>4. Descending(Links(t))
  BY <1>1, <1>2, <1>3 DEF Descending
<1>5. \A u \in Uuids(t) : IsPath(Links(t), Walk(t, u), u)
  BY <1>1, <1>4, PathIs DEF Walk
<1>6. Null \notin Uuids(t)
  BY <1>2 DEF Null
<1>. QED
  BY <1>1, <1>4, <1>5, <1>6

\* n comes up on the way from u to the root.
Above(t, n, u) == \E k \in 1..Len(Walk(t, u)) : Walk(t, u)[k] = n

LEMMA OrderedRest ==
    ASSUME NEW t, Ordered(t), NEW u \in Uuids(t), NEW w, w = Walk(t, u),
           NEW j \in 1..Len(w), NEW v, v = w[j]
    PROVE  /\ v \in Uuids(t)
           /\ Len(Walk(t, v)) = Len(w) - j + 1
           /\ \A i \in 1..(Len(w) - j + 1) : Walk(t, v)[i] = w[j + i - 1]
<1>1. Descending(Links(t)) /\ u \in DOMAIN Links(t) /\ DOMAIN Links(t) = Uuids(t)
  BY OrderedLinks
<1>3. IsPath(Links(t), w, u)
  BY OrderedLinks
<1>4. w[j] \in Uuids(t)
  BY <1>1, <1>3 DEF IsPath, Climbs
<1>5. /\ Len(Path(Links(t), w[j])) = Len(w) - j + 1
      /\ \A i \in 1..(Len(w) - j + 1) : Path(Links(t), w[j])[i] = w[j + i - 1]
  BY <1>1, <1>3, PathRest
<1>. QED
  BY <1>4, <1>5 DEF Walk

LEMMA OrderedDown ==
    ASSUME NEW t, Ordered(t), NEW u \in Uuids(t)
    PROVE  /\ IsSeq(Walk(t, u)) /\ Len(Walk(t, u)) \in Nat \ {0} /\ Walk(t, u)[1] = u
           /\ \A i \in 1..Len(Walk(t, u)) : Walk(t, u)[i] \in Uuids(t)
           /\ \A i, j \in 1..Len(Walk(t, u)) : i < j => Walk(t, u)[j] < Walk(t, u)[i]
<1>1. Descending(Links(t)) /\ u \in DOMAIN Links(t) /\ DOMAIN Links(t) = Uuids(t)
  BY OrderedLinks
<1>2. PICK w : w = Walk(t, u)
  OBVIOUS
<1>3. IsPath(Links(t), w, u)
  BY <1>2, OrderedLinks
<1>4. Climbs(Links(t), w, u)
  BY <1>3 DEF IsPath
<1>5. \A i, j \in 1..Len(w) : i < j => w[j] < w[i]
  BY <1>1, <1>4, ClimbsDown
<1>6. IsSeq(w) /\ Len(w) \in Nat \ {0} /\ w[1] = u /\ \A i \in 1..Len(w) : w[i] \in Uuids(t)
  BY <1>1, <1>4, SeqFacts DEF Climbs
<1>. QED
  BY <1>2, <1>5, <1>6

\* What goes on from an entry leads up to what is above it.
LEMMA AboveChild ==
    ASSUME NEW t, Ordered(t), NEW i \in 1..Len(t), t[i].parent \in Uuids(t),
           NEW n, Above(t, n, t[i].parent)
    PROVE  Above(t, n, t[i].uuid)
<1>. DEFINE y == t[i].uuid
            x == t[i].parent
<1>1. y \in Uuids(t) /\ ByUuid(t, y) = t[i]
  BY OrderedAt
<1>2. Links(t)[y] = x /\ x # Null /\ DOMAIN Links(t) = Uuids(t)
  BY <1>1, OrderedLinks DEF Parent
<1>. HIDE DEF x, y
<1>3. PICK w : w = Walk(t, y)
  OBVIOUS
<1>4. IsPath(Links(t), w, y) /\ Len(w) \in Nat \ {0} /\ w[1] = y
  BY <1>1, <1>3, OrderedLinks, OrderedDown
<1>5. Len(w) # 1
  BY <1>2, <1>4 DEF IsPath
<1>6. 2 \in 1..Len(w) /\ w[2] = x
  <2>1. 1 \in 1..(Len(w) - 1)
    <3>. PICK l : l = Len(w)
      OBVIOUS
    <3>. QED
      BY <1>4, <1>5
  <2>2. w[1 + 1] = Links(t)[w[1]]
    BY <1>4, <2>1 DEF IsPath, Climbs
  <2>. QED
    BY <1>2, <1>4, <2>1, <2>2
<1>7. /\ Len(Walk(t, x)) = Len(w) - 2 + 1
      /\ \A k \in 1..(Len(w) - 2 + 1) : Walk(t, x)[k] = w[2 + k - 1]
  <2>1. PICK p \in 1..Len(w) : p = 2
    BY <1>6
  <2>2. PICK v : v = x
    OBVIOUS
  <2>3. v = w[p]
    BY <1>6, <2>1, <2>2
  <2>4. /\ Len(Walk(t, v)) = Len(w) - p + 1
        /\ \A k \in 1..(Len(w) - p + 1) : Walk(t, v)[k] = w[p + k - 1]
    BY <1>1, <1>3, <2>3, OrderedRest
  <2>. QED
    BY <2>1, <2>2, <2>4
<1>8. PICK k \in 1..Len(Walk(t, x)) : Walk(t, x)[k] = n
  BY DEF Above, x
<1>9. 2 + k - 1 \in 1..Len(w) /\ w[2 + k - 1] = n
  BY <1>4, <1>7, <1>8
<1>. QED
  BY <1>3, <1>9 DEF Above, y

LEMMA AboveItself ==
    ASSUME NEW t, Ordered(t), NEW u \in Uuids(t)
    PROVE  Above(t, u, u)
<1>1. 1 \in 1..Len(Walk(t, u)) /\ Walk(t, u)[1] = u
  BY OrderedDown
<1>. QED
  BY <1>1 DEF Above

\* Of what leads up to n the last is a terminal.
LEMMA TerminalOf ==
    ASSUME NEW t, Ordered(t), NEW n \in Uuids(t)
    PROVE  \E x \in Terminals(t) : Above(t, n, x)
<1>. DEFINE D == {u \in Uuids(t) : Above(t, n, u)}
            T == {Position(t, u) : u \in D}
<1>1. IsSeq(t) /\ Len(t) \in Nat /\ DOMAIN t = 1..Len(t)
  BY SeqFacts DEF Ordered
<1>2. n \in D
  BY AboveItself
<1>3. T \in SUBSET (0..Len(t)) /\ T # {}
  <2>1. \A u \in D : Position(t, u) \in 1..Len(t)
    BY <1>1, PositionIs
  <2>. QED
    BY <1>1, <1>2, <2>1
<1>4. PICK m \in T : \A k \in T : k <= m
  BY <1>1, <1>3, GreatestNat
<1>5. PICK x \in D : \A u \in D : Position(t, u) <= Position(t, x)
  BY <1>4
<1>6. ASSUME NEW i \in 1..Len(t), t[i].parent = x PROVE FALSE
  <2>1. t[i].uuid \in Uuids(t)
    BY OrderedAt
  <2>2. Above(t, n, t[i].uuid)
    BY <1>6, AboveChild
  <2>3. Position(t, t[i].uuid) <= Position(t, x)
    BY <1>5, <2>1, <2>2
  <2>4. t[i].uuid <= x
    BY <2>1, <2>3, OrderedPositions
  <2>. QED
    BY <1>6, <2>4 DEF Ordered
<1>7. x \in Terminals(t)
  BY <1>1, <1>6 DEF Terminals
<1>. QED
  BY <1>7

\* The newest visible message is the leaf, if no other message goes on from it.
LEMMA TipMessages ==
    ASSUME NEW t, Ordered(t), NEW n \in Visibles(t), \A v \in Visibles(t) : v <= n,
           \A u \in Talks(t) \ Visibles(t) : ~Above(t, n, u)
    PROVE  Messages(t) = Picked(Reverse(Walk(t, n)), Visibles(t))
<1>1. IsSeq(t) /\ n \in Uuids(t) /\ n \in Talks(t) /\ Main(ByUuid(t, n))
  BY DEF Ordered, Visibles, Talks, Visible
<1>2. PICK x \in Terminals(t) : Above(t, n, x)
  BY <1>1, TerminalOf
<1>3. x \in Uuids(t)
  BY DEF Terminals
<1>4. PICK w : w = Walk(t, x)
  OBVIOUS
<1>5. PICK k \in 1..Len(w) : w[k] = n
  BY <1>2, <1>4 DEF Above
<1>6. /\ IsSeq(w) /\ Len(w) \in Nat
      /\ \A i \in 1..Len(w) : w[i] \in Uuids(t)
      /\ \A i, j \in 1..Len(w) : i < j => w[j] < w[i]
  BY <1>3, <1>4, OrderedDown
<1>7. \A j \in 1..(k - 1) : w[j] \notin Talks(t)
  <2>. SUFFICES ASSUME NEW j \in 1..(k - 1), w[j] \in Talks(t) PROVE FALSE
    OBVIOUS
  <2>1. j \in 1..Len(w) /\ j < k /\ k - j + 1 \in 1..(Len(w) - j + 1)
        /\ j + (k - j + 1) - 1 = k
    BY <1>6
  <2>2. n < w[j] /\ n \in Nat /\ w[j] \in Nat
    <3>1. n < w[j]
      BY <1>5, <1>6, <2>1
    <3>2. w[j] \in Uuids(t)
      BY <1>6, <2>1
    <3>. QED
      BY <1>1, <3>1, <3>2, OrderedEntry
  <2>3. /\ Len(Walk(t, w[j])) = Len(w) - j + 1
        /\ Walk(t, w[j])[k - j + 1] = n
    <3>1. /\ Len(Walk(t, w[j])) = Len(w) - j + 1
          /\ \A i \in 1..(Len(w) - j + 1) : Walk(t, w[j])[i] = w[j + i - 1]
      <4>1. PICK v : v = w[j]
        OBVIOUS
      <4>2. j \in 1..Len(w)
        BY <2>1
      <4>3. /\ Len(Walk(t, v)) = Len(w) - j + 1
            /\ \A i \in 1..(Len(w) - j + 1) : Walk(t, v)[i] = w[j + i - 1]
        BY <1>3, <1>4, <4>1, <4>2, OrderedRest
      <4>. QED
        BY <4>1, <4>3
    <3>. QED
      BY <1>5, <2>1, <3>1
  <2>4. Above(t, n, w[j])
    BY <2>1, <2>3 DEF Above
  <2>. QED
    BY <2>2, <2>4
<1>8. NearestTalk(t, x) = {n}
  <2>1. Picked(w, Talks(t)) # <<>> /\ Picked(w, Talks(t))[1] = n
    BY <1>1, <1>5, <1>6, <1>7, PickedFirst
  <2>. QED
    BY <1>4, <2>1 DEF NearestTalk
<1>9. n \in Leaves(t)
  BY <1>8 DEF Leaves
<1>10. n \in MainLeaves(t)
  BY <1>1, <1>9 DEF MainLeaves
<1>11. MainLeaves(t) \subseteq Visibles(t) /\ Visibles(t) \subseteq Uuids(t)
  BY <1>1, LeavesIn DEF MainLeaves, Visibles, Talks, Visible
<1>12. \A v \in MainLeaves(t) : Position(t, v) <= Position(t, n)
  BY <1>1, <1>11, OrderedPositions
<1>13. Latest(t, MainLeaves(t)) = n
  BY <1>1, <1>10, <1>11, <1>12, LatestWhen
<1>14. Chain(t) = Reverse(Walk(t, n))
  BY <1>9, <1>10, <1>13 DEF Chain
<1>. QED
  BY <1>14 DEF Messages

-----------------------------------------------------------------------------
(***************************************************************************)
(* Forks of an ordered transcript.                                         *)
(***************************************************************************)
LEMMA OrderedPicked ==
    ASSUME NEW t, Ordered(t), NEW S
    PROVE  Ordered(Picked(t, S))
<1>. DEFINE q == Picked(t, S)
<1>1. IsSeq(t)
  BY DEF Ordered
<1>2. PICK h : Embeds(q, t, S, Len(t), h)
  BY <1>1, PickedIs DEF IsPicked
<1>. HIDE DEF q
<1>3. IsSeq(q) /\ \A i \in 1..Len(q) : h[i] \in 1..Len(t) /\ q[i] = t[h[i]]
  BY <1>2 DEF Embeds
<1>4. \A i, j \in 1..Len(q) : i < j => h[i] < h[j]
  BY <1>2 DEF Embeds
<1>5. \A i \in 1..Len(q) : /\ q[i].uuid \in Nat \ {0} /\ q[i].parent \in Nat
                           /\ q[i].parent < q[i].uuid
  BY <1>3 DEF Ordered
<1>6. \A i, j \in 1..Len(q) : i < j => q[i].uuid < q[j].uuid
  BY <1>3, <1>4 DEF Ordered
<1>7. Ordered(q)
  BY <1>3, <1>5, <1>6 DEF Ordered
<1>. QED
  BY <1>7 DEF q

LEMMA OrderedPart ==
    ASSUME NEW t, Ordered(t), NEW n \in 0..Len(t)
    PROVE  Ordered(SubSeq(t, 1, n))
<1>. DEFINE q == SubSeq(t, 1, n)
<1>1. IsSeq(t) /\ Len(t) \in Nat
  BY SeqFacts DEF Ordered
<1>2. IsSeq(q) /\ Len(q) = n /\ \A i \in 1..n : q[i] = t[i]
  BY <1>1, PartIs
<1>. HIDE DEF q
<1>3. \A i \in 1..n : i \in 1..Len(t)
  BY <1>1
<1>4. Ordered(q)
  BY <1>2, <1>3 DEF Ordered
<1>. QED
  BY <1>4 DEF q

LEMMA OrderedNone == Ordered(<<>>)
<1>1. Len(<<>>) = 0
  OBVIOUS
<1>. QED
  BY <1>1 DEF Ordered, IsSeq

\* s is what a fork copies of t: all but the sidechains, up to m.
Begins(s, t, m) ==
    Ordered(s) /\ Range(s) = {e \in Range(t) : e.flag # "side" /\ e.uuid <= m}

LEMMA OwnBegins ==
    ASSUME NEW t, Ordered(t), NEW m, \A u \in Uuids(t) : u <= m
    PROVE  Begins(Prefix(t, Null), t, m)
<1>1. IsSeq(t) /\ \A e \in Range(t) : e.uuid \in Uuids(t)
  BY OrderedEntry DEF Ordered
<1>2. Prefix(t, Null) = Picked(t, {e \in Range(t) : e.flag # "side"})
  BY DEF Prefix, Own
<1>3. Range(Picked(t, {e \in Range(t) : e.flag # "side"})) =
          Range(t) \cap {e \in Range(t) : e.flag # "side"}
  BY <1>1, PickedSeq
<1>. QED
  BY <1>1, <1>2, <1>3, OrderedPicked DEF Begins

LEMMA PrefixBegins ==
    ASSUME NEW t, Ordered(t), NEW m \in Uuids(Own(t))
    PROVE  Begins(Prefix(t, m), t, m)
<1>. DEFINE o == Own(t)
            n == Min(Positions(o, m))
            q == SubSeq(o, 1, n)
<1>1. IsSeq(t) /\ \A e \in Range(t) : e.uuid \in Uuids(t)
  BY OrderedEntry DEF Ordered
<1>2. Range(o) = {e \in Range(t) : e.flag # "side"}
  <2>1. Range(Picked(t, {e \in Range(t) : e.flag # "side"})) =
            Range(t) \cap {e \in Range(t) : e.flag # "side"}
    BY <1>1, PickedSeq
  <2>. QED
    BY <2>1 DEF Own
<1>3. Ordered(o)
  BY OrderedPicked DEF Own
<1>4. PICK l : l = Position(o, m)
  OBVIOUS
<1>5. l \in 1..Len(o) /\ o[l].uuid = m /\ IsSeq(o) /\ Len(o) \in Nat
  BY <1>3, <1>4, PositionIs, SeqFacts DEF Ordered
<1>6. \A i \in 1..Len(o) : o[i].uuid = m => i = l
  <2>. SUFFICES ASSUME NEW i \in 1..Len(o), o[i].uuid = m PROVE i = l
    OBVIOUS
  <2>. QED
    BY <1>3, <1>4, OrderedAt
<1>7. Positions(o, m) = {l}
  BY <1>5, <1>6, UuidsAre
<1>8. n = l
  BY <1>5, <1>7, MinIs
<1>9. Prefix(t, m) = q
  <2>1. m # Null
    BY <1>3, OrderedEntry DEF Null
  <2>. QED
    BY <2>1 DEF Prefix
<1>10. IsSeq(q) /\ Len(q) = l /\ \A i \in 1..l : q[i] = o[i]
  BY <1>5, <1>8, PartIs
<1>11. Ordered(q)
  BY <1>3, <1>5, <1>8, OrderedPart
<1>12. Range(q) = {q[i] : i \in 1..l} /\ Range(o) = {o[i] : i \in 1..Len(o)}
  BY <1>5, <1>10, RangeIs
<1>. HIDE DEF q, o, n
<1>13. \A i \in 1..Len(o) : o[i].uuid <= m <=> i \in 1..l
  <2>. SUFFICES ASSUME NEW i \in 1..Len(o) PROVE o[i].uuid <= m <=> i <= l
    BY <1>5
  <2>1. /\ i < l => o[i].uuid < m
        /\ l < i => m < o[i].uuid
        /\ o[i].uuid \in Nat /\ m \in Nat
    BY <1>3, <1>5 DEF Ordered
  <2>2. i < l \/ i = l \/ l < i
    BY <1>5
  <2>. QED
    BY <1>5, <2>1, <2>2
<1>14. Range(q) = {e \in Range(o) : e.uuid <= m}
  <2>1. \A i \in 1..l : i \in 1..Len(o)
    BY <1>5
  <2>. QED
    BY <1>10, <1>12, <1>13, <2>1
<1>. QED
  BY <1>2, <1>9, <1>11, <1>14 DEF Begins

LEMMA PrefixOrdered ==
    ASSUME NEW t, Ordered(t), NEW m
    PROVE  Ordered(Prefix(t, m))
<1>1. Ordered(Own(t))
  BY OrderedPicked DEF Own
<1>2. CASE m = Null
  BY <1>1, <1>2 DEF Prefix
<1>3. CASE m # Null /\ m \notin Uuids(Own(t))
  BY <1>3, OrderedNone DEF Prefix
<1>4. CASE m \in Uuids(Own(t))
  BY <1>4, PrefixBegins DEF Begins
<1>. QED
  BY <1>2, <1>3, <1>4

\* Parents are there, a sidechain's of a sidechain.
Sided(t) ==
    \A e \in Range(t) :
        e.parent = Null \/ \E d \in Range(t) : /\ d.uuid = e.parent
                                               /\ d.flag = "side" <=> e.flag = "side"

\* What is copied has its parents in common with the source.
LEMMA BeginsWalks ==
    ASSUME NEW t, Ordered(t), Sided(t), NEW m \in Nat, NEW s, Begins(s, t, m)
    PROVE  /\ Uuids(s) = {u \in Uuids(t) : ByUuid(t, u).flag # "side" /\ u <= m}
           /\ \A u \in Uuids(s) : ByUuid(s, u) = ByUuid(t, u) /\ Walk(s, u) = Walk(t, u)
<1>1. /\ \A u \in Uuids(t) : /\ ByUuid(t, u) \in Range(t) /\ ByUuid(t, u).uuid = u
                             /\ u \in Nat \ {0}
      /\ \A e \in Range(t) : e.uuid \in Uuids(t) /\ ByUuid(t, e.uuid) = e
  BY OrderedEntry
<1>2. Ordered(s) /\ Range(s) = {e \in Range(t) : e.flag # "side" /\ e.uuid <= m}
  BY DEF Begins
<1>3. /\ \A u \in Uuids(s) : ByUuid(s, u) \in Range(s) /\ ByUuid(s, u).uuid = u
      /\ \A e \in Range(s) : e.uuid \in Uuids(s) /\ ByUuid(s, e.uuid) = e
  BY <1>2, OrderedEntry
<1>4. Uuids(s) = {u \in Uuids(t) : ByUuid(t, u).flag # "side" /\ u <= m}
  <2>1. ASSUME NEW u \in Uuids(s)
        PROVE  u \in Uuids(t) /\ ByUuid(t, u).flag # "side" /\ u <= m
    BY <1>1, <1>2, <1>3
  <2>2. ASSUME NEW u \in Uuids(t), ByUuid(t, u).flag # "side", u <= m PROVE u \in Uuids(s)
    BY <1>1, <1>2, <1>3, <2>2
  <2>. QED
    BY <2>1, <2>2
<1>5. \A u \in Uuids(s) : ByUuid(s, u) = ByUuid(t, u)
  BY <1>1, <1>2, <1>3
<1>6. ASSUME NEW u \in Uuids(s) PROVE Links(s)[u] = Links(t)[u]
  <2>1. u \in Uuids(t) /\ ByUuid(s, u) = ByUuid(t, u) /\ u <= m /\ u \in Nat
    BY <1>1, <1>4, <1>5
  <2>2. PICK e \in Range(t) : e = ByUuid(t, u)
    BY <1>1, <2>1
  <2>3. e.flag # "side" /\ e.uuid = u /\ e.parent \in Nat /\ e.parent < u
    <3>1. PICK i \in 1..Len(t) : e = t[i]
      BY <2>2, RangeIs DEF Ordered
    <3>2. e.flag # "side" /\ e.uuid = u
      BY <1>1, <1>4, <2>2
    <3>. QED
      BY <3>1, <3>2 DEF Ordered
  <2>4. Parent(s, u) = Parent(t, u)
    <3>1. CASE e.parent = Null
      <4>1. Null \notin Uuids(s) /\ Null \notin Uuids(t)
        BY <1>2, OrderedLinks
      <4>. QED
        BY <2>1, <2>2, <3>1, <4>1 DEF Parent
    <3>2. CASE e.parent # Null
      <4>1. PICK d \in Range(t) : d.uuid = e.parent /\ d.flag # "side"
        BY <2>2, <2>3, <3>2 DEF Sided
      <4>2. d.uuid <= m
        BY <2>1, <2>3, <4>1
      <4>3. d.uuid \in Uuids(s) /\ d.uuid \in Uuids(t)
        BY <1>1, <1>2, <1>3, <4>1, <4>2
      <4>. QED
        BY <2>1, <2>2, <4>1, <4>3 DEF Parent
    <3>. QED
      BY <3>1, <3>2
  <2>. QED
    BY <1>2, <2>1, <2>4, OrderedLinks
<1>7. \A u \in Uuids(s) : Walk(s, u) = Walk(t, u)
  <2>1. /\ Descending(Links(s)) /\ DOMAIN Links(s) = Uuids(s)
        /\ Descending(Links(t)) /\ DOMAIN Links(t) = Uuids(t)
    BY <1>2, OrderedLinks
  <2>2. PICK up, vp : up = Links(t) /\ vp = Links(s)
    OBVIOUS
  <2>3. DOMAIN vp \subseteq DOMAIN up /\ \A u \in DOMAIN vp : vp[u] = up[u]
    BY <1>4, <1>6, <2>1, <2>2
  <2>4. \A u \in DOMAIN vp : Path(vp, u) = Path(up, u)
    BY <2>1, <2>2, <2>3, PathAgrees
  <2>. QED
    BY <2>1, <2>2, <2>4 DEF Walk
<1>. QED
  BY <1>4, <1>5, <1>7

LEMMA ForkedIs ==
    ASSUME NEW s, NEW e
    PROVE  /\ Forked(s, e).uuid = e.uuid /\ Forked(s, e).parent = ForkParent(s, e.uuid)
           /\ Forked(s, e).type = e.type
           /\ Forked(s, e).flag = IF e.flag = "meta" THEN "meta" ELSE "none"
  BY DEF Forked

\* The lines of any fork have their parents among them.
LEMMA ForkClosed ==
    ASSUME NEW s, IsSeq(s)
    PROVE  /\ \A u \in Uuids(s) : ForkParent(s, u) = Null \/ ForkParent(s, u) \in Kept(s)
           /\ \A u \in Kept(s) : \E i \in 1..Len(ForkOf(s)) : ForkOf(s)[i].uuid = u
           /\ \A i \in 1..Len(ForkOf(s)) :
                  ForkOf(s)[i].parent = Null \/ ForkOf(s)[i].parent \in Kept(s)
<1>1. ASSUME NEW u \in Uuids(s)
      PROVE  ForkParent(s, u) = Null \/ ForkParent(s, u) \in Kept(s)
  <2>1. PICK w : w = Walk(s, u)
    OBVIOUS
  <2>2. IsSeq(w) /\ Len(w) # 0
    BY <2>1, WalkIn
  <2>3. IsSeq(Tail(w))
    BY <2>2, TailIs
  <2>4. PICK v : v = Picked(Tail(w), Kept(s))
    OBVIOUS
  <2>5. IsSeq(v) /\ Range(v) \subseteq Kept(s)
    BY <2>3, <2>4, PickedSeq
  <2>6. CASE v = <<>>
    BY <2>1, <2>4, <2>6, ForkParentIs
  <2>7. CASE v # <<>>
    <3>1. 1 \in 1..Len(v)
      BY <2>5, <2>7, SeqFacts
    <3>2. v[1] \in Kept(s)
      BY <2>5, <3>1, RangeIs
    <3>. QED
      BY <2>1, <2>4, <2>7, <3>2, ForkParentIs
  <2>. QED
    BY <2>6, <2>7
<1>2. PICK f, w : f = ForkOf(s) /\ w = Written(s)
  OBVIOUS
<1>3. /\ IsSeq(f) /\ IsSeq(w) /\ Len(f) = Len(w)
      /\ \A i \in 1..Len(w) : f[i] = Forked(s, w[i])
  BY <1>2, ForkIs
<1>4. Range(w) = {e \in Range(s) : ~IsProgress(e)}
  BY <1>2, PickedSeq DEF Written
<1>5. ASSUME NEW u \in Kept(s) PROVE \E i \in 1..Len(f) : f[i].uuid = u
  <2>1. u \in Uuids(s) /\ ~IsProgress(ByUuid(s, u))
    BY DEF Kept
  <2>2. /\ Position(s, u) \in 1..Len(s) /\ s[Position(s, u)].uuid = u
        /\ ByUuid(s, u) = s[Position(s, u)]
    BY <2>1, PositionIs
  <2>3. PICK e : e = ByUuid(s, u)
    OBVIOUS
  <2>4. e \in Range(w) /\ e.uuid = u
    BY <1>4, <2>1, <2>2, <2>3, RangeIs
  <2>5. PICK i \in 1..Len(w) : w[i] = e
    BY <1>3, <2>4, RangeIs
  <2>6. f[i].uuid = u
    BY <1>3, <2>4, <2>5, ForkedIs
  <2>. QED
    BY <1>3, <2>6
<1>6. ASSUME NEW i \in 1..Len(f) PROVE f[i].parent = Null \/ f[i].parent \in Kept(s)
  <2>1. w[i] \in Range(s)
    BY <1>3, <1>4, RangeIs
  <2>2. w[i].uuid \in Uuids(s)
    BY <2>1, UuidsAre, RangeIs
  <2>3. f[i].parent = ForkParent(s, w[i].uuid)
    BY <1>3, ForkedIs
  <2>. QED
    BY <1>1, <2>2, <2>3
<1>. QED
  BY <1>1, <1>2, <1>5, <1>6

\* The path of a fork is what is written of the path of its source.
LEMMA KeptPath ==
    ASSUME NEW s, Ordered(s), NEW u \in Kept(s), NEW w, w = Picked(Walk(s, u), Kept(s))
    PROVE  /\ IsSeq(w) /\ Len(w) \in Nat \ {0} /\ w[1] = u
           /\ \A i \in 1..Len(w) : w[i] \in Kept(s)
           /\ \A i \in 1..(Len(w) - 1) : w[i + 1] = ForkParent(s, w[i])
           /\ ForkParent(s, w[Len(w)]) = Null
           /\ \A i \in 1..(Len(w) - 1) : w[i + 1] < w[i]
<1>1. u \in Uuids(s)
  BY DEF Kept
<1>2. PICK W : W = Walk(s, u)
  OBVIOUS
<1>3. /\ IsSeq(W) /\ Len(W) \in Nat \ {0} /\ W[1] = u
      /\ \A i \in 1..Len(W) : W[i] \in Uuids(s)
      /\ \A i, j \in 1..Len(W) : i < j => W[j] < W[i]
  BY <1>1, <1>2, OrderedDown
<1>4. PICK h : Embeds(w, W, Kept(s), Len(W), h)
  BY <1>2, <1>3, PickedIs DEF IsPicked
<1>5. /\ IsSeq(w) /\ Len(w) \in Nat
      /\ \A i \in 1..Len(w) : h[i] \in 1..Len(W) /\ w[i] = W[h[i]] /\ w[i] \in Kept(s)
      /\ \A i, j \in 1..Len(w) : i < j => h[i] < h[j]
      /\ \A k \in 1..Len(W) : W[k] \in Kept(s) => \E i \in 1..Len(w) : h[i] = k
  BY <1>4, SeqFacts DEF Embeds
<1>6. Len(w) # 0 /\ w[1] = u
  <2>1. 1 \in 1..Len(W) /\ W[1] \in Kept(s) /\ \A j \in 1..(1 - 1) : W[j] \notin Kept(s)
    BY <1>3
  <2>2. w # <<>> /\ w[1] = W[1]
    BY <1>2, <1>3, <2>1, PickedFirst
  <2>. QED
    BY <1>3, <1>5, <2>2, SeqFacts
\* The rest of the path after the i-th that is written.
<1>7. ASSUME NEW i \in 1..Len(w), NEW r, r = Tail(Walk(s, w[i]))
      PROVE  /\ IsSeq(r) /\ Len(r) = Len(W) - h[i]
             /\ \A k \in 1..(Len(W) - h[i]) : r[k] = W[h[i] + k]
  <2>0. PICK j \in 1..Len(W) : j = h[i]
    BY <1>5
  <2>1. PICK v : v = w[i] /\ j = h[i]
    BY <2>0
  <2>2. v = W[j]
    BY <1>5, <2>1
  <2>3. /\ v \in Uuids(s) /\ Len(Walk(s, v)) = Len(W) - j + 1
        /\ \A k \in 1..(Len(W) - j + 1) : Walk(s, v)[k] = W[j + k - 1]
    <3>. HIDE DEF Kept
    <3>1. Ordered(s) /\ u \in Uuids(s) /\ W = Walk(s, u) /\ j \in 1..Len(W) /\ v = W[j]
      BY <1>1, <1>2, <2>2
    <3>. QED
      BY ONLY <3>1, OrderedRest, SMTT(30)
  <2>4. PICK q : q = Walk(s, v)
    OBVIOUS
  <2>5. IsSeq(q) /\ Len(q) # 0
    BY <2>3, <2>4, OrderedDown
  <2>6. /\ IsSeq(r) /\ Len(r) = Len(q) - 1
        /\ \A k \in 1..(Len(q) - 1) : r[k] = q[k + 1]
    BY <1>7, <2>1, <2>4, <2>5, TailIs
  <2>7. Len(q) - 1 = Len(W) - j
    BY <1>3, <2>2, <2>3, <2>4
  <2>8. ASSUME NEW k \in 1..(Len(W) - j) PROVE r[k] = W[j + k]
    <3>1. k + 1 \in 1..(Len(W) - j + 1) /\ j + (k + 1) - 1 = j + k
      BY <1>3, <2>2
    <3>2. q[k + 1] = W[j + (k + 1) - 1]
      BY <2>3, <2>4, <3>1
    <3>. QED
      BY <2>6, <2>7, <3>1, <3>2
  <2>. QED
    BY <2>1, <2>6, <2>7, <2>8
<1>8. ASSUME NEW i \in 1..(Len(w) - 1) PROVE w[i + 1] = ForkParent(s, w[i])
  <2>1. i \in 1..Len(w) /\ i + 1 \in 1..Len(w)
    BY <1>5
  <2>2. PICK r : r = Tail(Walk(s, w[i]))
    OBVIOUS
  <2>3. /\ IsSeq(r) /\ Len(r) = Len(W) - h[i]
        /\ \A k \in 1..(Len(W) - h[i]) : r[k] = W[h[i] + k]
    BY <1>7, <2>1, <2>2
  <2>4. PICK k : k = h[i + 1] - h[i]
    OBVIOUS
  <2>5. h[i] \in 1..Len(W) /\ h[i + 1] \in 1..Len(W) /\ h[i] < h[i + 1]
    BY <1>5, <2>1
  <2>6. k \in 1..(Len(W) - h[i]) /\ h[i] + k = h[i + 1]
    BY <1>3, <2>4, <2>5
  <2>7. r[k] = w[i + 1] /\ r[k] \in Kept(s)
    <3>1. w[i + 1] = W[h[i + 1]] /\ w[i + 1] \in Kept(s)
      BY <1>5, <2>1
    <3>2. r[k] = W[h[i] + k]
      BY <2>3, <2>6
    <3>. QED
      BY <2>6, <3>1, <3>2
  <2>8. ASSUME NEW j \in 1..(k - 1), r[j] \in Kept(s) PROVE FALSE
    <3>1. j \in 1..(Len(W) - h[i]) /\ h[i] + j \in 1..Len(W) /\ h[i] < h[i] + j
          /\ h[i] + j < h[i + 1]
      BY <1>3, <2>5, <2>6, SMTT(30)
    <3>2. W[h[i] + j] \in Kept(s)
      BY <2>3, <2>8, <3>1
    <3>3. PICK l \in 1..Len(w) : h[l] = h[i] + j
      BY <1>5, <3>1, <3>2
    <3>4. ~(l <= i)
      <4>1. l = i \/ l < i => h[l] <= h[i]
        BY <1>5, <2>1, <2>5
      <4>. QED
        BY <1>3, <2>5, <3>1, <3>3, <4>1
    <3>5. ~(i + 1 <= l)
      <4>1. l = i + 1 \/ i + 1 < l => h[i + 1] <= h[l]
        <5>1. i + 1 < l => h[i + 1] < h[l]
          BY <1>5, <2>1
        <5>2. h[l] \in Int /\ h[i + 1] \in Int
          BY <1>5, <2>5
        <5>. QED
          BY <2>5, <5>1, <5>2
      <4>. QED
        BY <1>3, <2>5, <3>1, <3>3, <4>1
    <3>. QED
      BY <3>4, <3>5
  <2>9. Picked(r, Kept(s)) # <<>> /\ Picked(r, Kept(s))[1] = r[k]
    <3>1. k \in 1..Len(r) /\ \A j \in 1..(k - 1) : r[j] \notin Kept(s)
      BY <2>3, <2>6, <2>8
    <3>. QED
      BY <2>3, <2>7, <3>1, PickedFirst
  <2>. QED
    BY <2>2, <2>7, <2>9, ForkParentIs
<1>9. ForkParent(s, w[Len(w)]) = Null
  <2>1. PICK n : n = Len(w)
    OBVIOUS
  <2>2. n \in 1..Len(w)
    BY <1>5, <1>6, <2>1
  <2>3. PICK r : r = Tail(Walk(s, w[n]))
    OBVIOUS
  <2>4. /\ IsSeq(r) /\ Len(r) = Len(W) - h[n]
        /\ \A k \in 1..(Len(W) - h[n]) : r[k] = W[h[n] + k]
    BY <1>7, <2>2, <2>3
  <2>5. h[n] \in 1..Len(W)
    BY <1>5, <2>2
  <2>6. ASSUME NEW j \in 1..Len(r), r[j] \in Kept(s) PROVE FALSE
    <3>1. h[n] + j \in 1..Len(W) /\ h[n] < h[n] + j /\ W[h[n] + j] \in Kept(s)
      BY <1>3, <2>4, <2>5, <2>6
    <3>2. PICK l \in 1..Len(w) : h[l] = h[n] + j
      BY <1>5, <3>1
    <3>3. l = n \/ l < n
      BY <1>5, <2>1
    <3>4. h[l] <= h[n]
      BY <1>5, <2>2, <2>5, <3>3
    <3>. QED
      BY <1>3, <2>5, <3>1, <3>2, <3>4
  <2>7. Range(r) \cap Kept(s) = {}
    BY <2>4, <2>6, RangeIs
  <2>8. Picked(r, Kept(s)) = <<>>
    BY <2>4, <2>7, PickedNone
  <2>. QED
    BY <2>1, <2>3, <2>8, ForkParentIs
<1>10. ASSUME NEW i \in 1..(Len(w) - 1) PROVE w[i + 1] < w[i]
  <2>1. i \in 1..Len(w) /\ i + 1 \in 1..Len(w) /\ i < i + 1
    BY <1>5
  <2>2. h[i] \in 1..Len(W) /\ h[i + 1] \in 1..Len(W) /\ h[i] < h[i + 1]
    BY <1>5, <2>1
  <2>. QED
    BY <1>3, <1>5, <2>1, <2>2
<1>. QED
  BY <1>5, <1>6, <1>8, <1>9, <1>10

LEMMA ForkOrdered ==
    ASSUME NEW s, Ordered(s)
    PROVE  /\ Ordered(ForkOf(s)) /\ Uuids(ForkOf(s)) = Kept(s)
           /\ \A u \in Kept(s) : ByUuid(ForkOf(s), u) = Forked(s, ByUuid(s, u))
<1>1. IsSeq(s) /\ Kept(s) \subseteq Uuids(s)
  BY DEF Ordered, Kept
<1>2. /\ \A u \in Uuids(s) : /\ ByUuid(s, u) \in Range(s) /\ ByUuid(s, u).uuid = u
                             /\ u \in Nat \ {0}
      /\ \A e \in Range(s) : e.uuid \in Uuids(s) /\ ByUuid(s, e.uuid) = e
  BY OrderedEntry
<1>3. PICK f, w : f = ForkOf(s) /\ w = Written(s)
  OBVIOUS
<1>4. /\ IsSeq(f) /\ IsSeq(w) /\ Len(f) = Len(w) /\ Len(w) \in Nat
      /\ \A i \in 1..Len(w) : f[i] = Forked(s, w[i])
  BY <1>1, <1>3, ForkIs, SeqFacts
<1>5. Range(w) = {e \in Range(s) : ~IsProgress(e)}
  BY <1>1, <1>3, PickedSeq DEF Written
<1>6. Ordered(w)
  BY <1>3, OrderedPicked DEF Written
<1>7. \A i \in 1..Len(w) : /\ f[i].uuid = w[i].uuid
                           /\ f[i].parent = ForkParent(s, w[i].uuid)
  BY <1>4, ForkedIs
<1>8. ASSUME NEW i \in 1..Len(w)
      PROVE  w[i] \in Range(s) /\ w[i].uuid \in Kept(s) /\ ByUuid(s, w[i].uuid) = w[i]
  BY <1>2, <1>4, <1>5, RangeIs DEF Kept
<1>9. ASSUME NEW u \in Kept(s)
      PROVE  ForkParent(s, u) \in Nat /\ ForkParent(s, u) < u
  <2>1. PICK v : v = Picked(Walk(s, u), Kept(s))
    OBVIOUS
  <2>2. /\ Len(v) \in Nat \ {0} /\ v[1] = u
        /\ \A i \in 1..Len(v) : v[i] \in Kept(s)
        /\ \A i \in 1..(Len(v) - 1) : v[i + 1] = ForkParent(s, v[i])
        /\ ForkParent(s, v[Len(v)]) = Null
        /\ \A i \in 1..(Len(v) - 1) : v[i + 1] < v[i]
    BY <2>1, KeptPath
  <2>3. u \in Nat \ {0}
    BY <1>1, <1>2
  <2>4. PICK n : n = Len(v)
    OBVIOUS
  <2>5. CASE n = 1
    BY <2>2, <2>3, <2>4, <2>5 DEF Null
  <2>6. CASE n # 1
    <3>1. 1 \in 1..(n - 1) /\ 1 + 1 \in 1..n
      BY <2>2, <2>4, <2>6
    <3>2. v[1 + 1] = ForkParent(s, v[1]) /\ v[1 + 1] < v[1] /\ v[1 + 1] \in Kept(s)
      BY <2>2, <2>4, <3>1
    <3>. QED
      BY <1>1, <1>2, <2>2, <3>2
  <2>. QED
    BY <2>5, <2>6
<1>10. Ordered(f)
  <2>1. \A i \in 1..Len(f) : /\ f[i].uuid \in Nat \ {0} /\ f[i].parent \in Nat
                             /\ f[i].parent < f[i].uuid
    BY <1>1, <1>2, <1>4, <1>7, <1>8, <1>9
  <2>2. \A i, j \in 1..Len(f) : i < j => f[i].uuid < f[j].uuid
    BY <1>4, <1>6, <1>7 DEF Ordered
  <2>. QED
    BY <1>4, <2>1, <2>2 DEF Ordered
<1>11. Uuids(f) = Kept(s)
  <2>1. Uuids(f) = {f[i].uuid : i \in 1..Len(f)}
    BY <1>4, UuidsAre
  <2>2. \A i \in 1..Len(f) : f[i].uuid \in Kept(s)
    BY <1>4, <1>7, <1>8
  <2>3. \A u \in Kept(s) : \E i \in 1..Len(f) : f[i].uuid = u
    BY <1>1, <1>3, ForkClosed
  <2>. QED
    BY <2>1, <2>2, <2>3
<1>12. ASSUME NEW u \in Kept(s) PROVE ByUuid(f, u) = Forked(s, ByUuid(s, u))
  <2>1. PICK i \in 1..Len(f) : f[i].uuid = u
    BY <1>1, <1>3, ForkClosed
  <2>2. ByUuid(f, u) = f[i]
    BY <1>10, <2>1, OrderedAt
  <2>3. f[i] = Forked(s, w[i]) /\ ByUuid(s, u) = w[i]
    BY <1>4, <1>7, <1>8, <2>1
  <2>. QED
    BY <2>2, <2>3
<1>. QED
  BY <1>3, <1>10, <1>11, <1>12

LEMMA ForkWalks ==
    ASSUME NEW s, Ordered(s), NEW u \in Kept(s)
    PROVE  Walk(ForkOf(s), u) = Picked(Walk(s, u), Kept(s))
<1>1. PICK f, w : f = ForkOf(s) /\ w = Picked(Walk(s, u), Kept(s))
  OBVIOUS
<1>2. /\ Ordered(f) /\ Uuids(f) = Kept(s)
      /\ \A v \in Kept(s) : ByUuid(f, v) = Forked(s, ByUuid(s, v))
  BY <1>1, ForkOrdered
<1>3. /\ IsSeq(w) /\ Len(w) \in Nat \ {0} /\ w[1] = u
      /\ \A i \in 1..Len(w) : w[i] \in Kept(s)
      /\ \A i \in 1..(Len(w) - 1) : w[i + 1] = ForkParent(s, w[i])
      /\ ForkParent(s, w[Len(w)]) = Null
  BY <1>1, KeptPath
<1>4. /\ Descending(Links(f)) /\ DOMAIN Links(f) = Kept(s)
      /\ \A v \in Kept(s) : Links(f)[v] = Parent(f, v)
  BY <1>2, OrderedLinks
<1>5. ASSUME NEW v \in Kept(s) PROVE Links(f)[v] = ForkParent(s, v)
  <2>1. ByUuid(s, v).uuid = v /\ v \in Uuids(s)
    BY OrderedEntry DEF Kept
  <2>2. ByUuid(f, v).parent = ForkParent(s, v)
    <3>1. PICK e : e = ByUuid(s, v)
      OBVIOUS
    <3>. QED
      BY <1>2, <2>1, <3>1, ForkedIs
  <2>3. ForkParent(s, v) \in Kept(s) \/ ForkParent(s, v) = Null
    BY <2>1, ForkClosed DEF Ordered
  <2>. QED
    BY <1>2, <1>4, <2>2, <2>3 DEF Parent
<1>6. PICK up, n : up = Links(f) /\ n = Len(w)
  OBVIOUS
<1>7. \A i \in 1..(n - 1) : w[i] \in Kept(s)
  BY <1>3, <1>6
<1>8. n \in 1..n
  BY <1>3, <1>6
<1>9. /\ \A i \in 1..Len(w) : w[i] \in DOMAIN up
      /\ \A i \in 1..(Len(w) - 1) : w[i + 1] = up[w[i]]
      /\ up[w[Len(w)]] = Null
  BY <1>3, <1>4, <1>5, <1>6, <1>7, <1>8
<1>10. IsPath(up, w, u)
  BY <1>3, <1>4, <1>9 DEF IsPath, Climbs
<1>11. w = Path(up, u)
  BY <1>4, <1>6, <1>10, PathWhen
<1>. QED
  BY <1>1, <1>6, <1>11 DEF Walk

\* A fork shows what led to the newest visible message that is copied.
LEMMA ForkMessages ==
    ASSUME NEW t, Ordered(t), Sided(t),
           \A e \in Range(t) : e.flag \in {"none", "side", "meta"},
           NEW m \in Nat, NEW s, Begins(s, t, m),
           NEW n \in Visibles(t), n <= m, \A v \in Visibles(t) : v <= m => v <= n,
           \A u \in Talks(t) \ Visibles(t) : u <= m => ~Above(t, n, u)
    PROVE  Messages(ForkOf(s)) = Picked(Reverse(Walk(t, n)), Visibles(t))
<1>1. Ordered(s)
  BY DEF Begins
<1>2. /\ Uuids(s) = {u \in Uuids(t) : ByUuid(t, u).flag # "side" /\ u <= m}
      /\ \A u \in Uuids(s) : ByUuid(s, u) = ByUuid(t, u) /\ Walk(s, u) = Walk(t, u)
  BY BeginsWalks
<1>3. /\ \A u \in Uuids(t) : /\ ByUuid(t, u) \in Range(t) /\ ByUuid(t, u).uuid = u
                             /\ u \in Nat \ {0}
  BY OrderedEntry
<1>4. PICK f : f = ForkOf(s)
  OBVIOUS
<1>5. /\ Ordered(f) /\ Uuids(f) = Kept(s)
      /\ \A u \in Kept(s) : ByUuid(f, u) = Forked(s, ByUuid(s, u))
  BY <1>1, <1>4, ForkOrdered
<1>6. Kept(s) \subseteq Uuids(s) /\ Uuids(s) \subseteq Uuids(t)
  BY <1>2 DEF Kept
<1>7. ASSUME NEW u \in Kept(s)
      PROVE  /\ Talk(ByUuid(f, u)) <=> Talk(ByUuid(t, u))
             /\ Main(ByUuid(f, u)) <=> Main(ByUuid(t, u))
  <2>1. PICK e : e = ByUuid(t, u)
    OBVIOUS
  <2>2. e \in Range(t) /\ e.flag # "side" /\ ByUuid(s, u) = e
    BY <1>2, <1>3, <1>6, <2>1
  <2>3. PICK g : g = ByUuid(f, u)
    OBVIOUS
  <2>4. g = Forked(s, e)
    BY <1>5, <2>2, <2>3
  <2>5. g.type = e.type /\ g.flag = IF e.flag = "meta" THEN "meta" ELSE "none"
    BY <2>4, ForkedIs
  <2>6. e.flag = "none" \/ e.flag = "meta"
    BY <2>2
  <2>. QED
    BY <2>1, <2>3, <2>5, <2>6 DEF Talk, Main
<1>8. \A u \in Uuids(s) : Talk(ByUuid(t, u)) => u \in Kept(s)
  BY <1>2 DEF Kept, Talk, IsProgress
<1>9. Visibles(f) = {u \in Visibles(t) : u <= m}
  <2>1. ASSUME NEW u \in Visibles(f) PROVE u \in Visibles(t) /\ u <= m
    <3>1. u \in Kept(s) /\ Talk(ByUuid(f, u)) /\ Main(ByUuid(f, u))
      BY <1>5 DEF Visibles, Visible
    <3>2. u \in Uuids(t) /\ u <= m
      BY <1>2, <1>6, <3>1
    <3>. QED
      BY <1>7, <3>1, <3>2 DEF Visibles, Visible
  <2>2. ASSUME NEW u \in Visibles(t), u <= m PROVE u \in Visibles(f)
    <3>1. u \in Uuids(t) /\ Talk(ByUuid(t, u)) /\ Main(ByUuid(t, u))
      BY DEF Visibles, Visible
    <3>2. ByUuid(t, u).flag # "side"
      BY <3>1 DEF Main
    <3>3. u \in Kept(s)
      BY <1>2, <1>8, <2>2, <3>1, <3>2
    <3>. QED
      BY <1>5, <1>7, <3>1, <3>3 DEF Visibles, Visible
  <2>. QED
    BY <2>1, <2>2
<1>10. n \in Visibles(f) /\ n \in Kept(s) /\ n \in Uuids(s) /\ n \in Uuids(t) /\ n \in Nat
  BY <1>3, <1>5, <1>6, <1>9 DEF Visibles
<1>11. \A u \in Kept(s) : Walk(f, u) = Picked(Walk(t, u), Kept(s))
  BY <1>1, <1>2, <1>4, <1>6, ForkWalks
<1>12. ASSUME NEW u \in Talks(f) \ Visibles(f), Above(f, n, u) PROVE FALSE
  <2>1. u \in Kept(s) /\ Talk(ByUuid(f, u)) /\ ~Main(ByUuid(f, u))
    BY <1>5 DEF Talks, Visibles, Visible
  <2>2. u \in Uuids(t) /\ u <= m
    BY <1>2, <1>6, <2>1
  <2>3. u \in Talks(t) \ Visibles(t)
    BY <1>7, <2>1, <2>2 DEF Talks, Visibles, Visible
  <2>4. PICK w, v : w = Walk(t, u) /\ v = Walk(f, u)
    OBVIOUS
  <2>5. IsSeq(w) /\ v = Picked(w, Kept(s))
    BY <1>11, <2>1, <2>2, <2>4, OrderedDown
  <2>6. PICK k \in 1..Len(v) : v[k] = n
    BY <1>12, <2>4 DEF Above
  <2>7. IsSeq(v) /\ Range(v) \subseteq Range(w)
    BY <2>5, PickedSeq
  <2>8. n \in Range(w)
    BY <2>6, <2>7, RangeIs
  <2>9. \E j \in 1..Len(w) : w[j] = n
    BY <2>5, <2>8, RangeIs
  <2>. QED
    BY <2>2, <2>3, <2>4, <2>9 DEF Above
<1>13. Messages(f) = Picked(Reverse(Walk(f, n)), Visibles(f))
  <2>1. \A v \in Visibles(f) : v <= n
    BY <1>9
  <2>. QED
    BY <1>5, <1>10, <1>12, <2>1, TipMessages
<1>14. PICK w : w = Walk(t, n)
  OBVIOUS
<1>15. /\ IsSeq(w) /\ Len(w) \in Nat \ {0} /\ w[1] = n
       /\ \A i \in 1..Len(w) : w[i] \in Uuids(t)
       /\ \A i, j \in 1..Len(w) : i < j => w[j] < w[i]
  BY <1>10, <1>14, OrderedDown
<1>16. IsSeq(Reverse(w)) /\ Range(Reverse(w)) = Range(w)
  BY <1>15, ReverseIs, ReverseRange
<1>17. \A x \in Range(w) : x <= n
  <2>1. \A i \in 1..Len(w) : w[i] = n \/ w[i] < n
    <3>1. \A i \in 1..Len(w) : i = 1 \/ 1 < i
      BY <1>15
    <3>2. 1 \in 1..Len(w)
      BY <1>15
    <3>. QED
      BY <1>15, <3>1, <3>2
  <2>2. \A i \in 1..Len(w) : w[i] \in Nat
    BY <1>3, <1>15
  <2>. QED
    BY <1>10, <1>15, <2>1, <2>2, RangeIs
<1>18. Picked(Reverse(w), Visibles(f)) = Picked(Reverse(w), Visibles(t))
  <2>1. \A x \in Range(w) : x \in Nat
    BY <1>3, <1>15, RangeIs
  <2>2. \A x \in Range(w) : x <= m
    BY <1>10, <1>17, <2>1
  <2>. QED
    BY <1>9, <1>16, <2>2, PickedSame
<1>19. Picked(Reverse(Picked(w, Kept(s))), Visibles(f)) = Picked(Reverse(w), Visibles(f))
  <2>1. Reverse(Picked(w, Kept(s))) = Picked(Reverse(w), Kept(s))
    BY <1>15, PickedReverse
  <2>2. \A x : x \in Visibles(f) => x \in Kept(s)
    BY <1>5 DEF Visibles
  <2>. QED
    BY <1>16, <2>1, <2>2, PickedTwice
<1>. QED
  BY <1>4, <1>10, <1>11, <1>13, <1>14, <1>18, <1>19

\* The parents of an ordered fork come before what goes on from them.
LEMMA ForkRefers ==
    ASSUME NEW s, Ordered(s), NEW i \in 1..Len(ForkOf(s))
    PROVE  \/ ForkOf(s)[i].parent = Null
           \/ \E j \in 1..(i - 1) : ForkOf(s)[j].uuid = ForkOf(s)[i].parent
<1>1. PICK f : f = ForkOf(s)
  OBVIOUS
<1>2. Ordered(f) /\ Len(f) \in Nat
  BY <1>1, ForkOrdered, SeqFacts DEF Ordered
<1>3. f[i].parent = Null \/ f[i].parent \in Kept(s)
  BY <1>1, ForkClosed DEF Ordered
<1>4. ASSUME f[i].parent \in Kept(s) PROVE \E j \in 1..(i - 1) : f[j].uuid = f[i].parent
  <2>1. PICK j \in 1..Len(f) : f[j].uuid = f[i].parent
    BY <1>1, <1>4, ForkClosed DEF Ordered
  <2>2. i \in 1..Len(f) /\ f[j].uuid < f[i].uuid /\ f[i].uuid \in Nat /\ f[j].uuid \in Nat
    BY <1>1, <1>2, <2>1 DEF Ordered
  <2>3. ~(i = j) /\ ~(i < j)
    BY <1>2, <2>2 DEF Ordered
  <2>. QED
    BY <1>2, <2>1, <2>2, <2>3
<1>. QED
  BY <1>1, <1>3, <1>4

-----------------------------------------------------------------------------
\* A session and its copy in a store (module SessionLog)

Flags == {"none", "side", "team", "meta"}

(***************************************************************************)
(* The lines of the file: the i-th has the uuid i, and goes on from an     *)
(* earlier one of its side; that of a subagent from the one before it.     *)
(***************************************************************************)
LogLines ==
    /\ IsSeq(log) /\ Len(log) <= setup.entries
    /\ \A i \in 1..Len(log) :
           /\ log[i].uuid = i /\ log[i].flag \in Flags
           /\ log[i].parent \in 0..(i - 1)
           /\ log[i].parent # 0 =>
                  (log[log[i].parent].flag = "side" <=> log[i].flag = "side")
           /\ ~setup.branching => log[i].parent = i - 1 /\ log[i].flag = "side"

ImpTypes ==
    /\ DOMAIN imp = {"running", "read", "batch", "eof"} /\ imp.running \in BOOLEAN
    /\ imp.read \in 0..Len(log)
    /\ IsSeq(imp.batch) /\ Len(imp.batch) <= imp.read
    /\ \A i \in 1..Len(imp.batch) : imp.batch[i] = log[imp.read - Len(imp.batch) + i]
    /\ imports \in Nat /\ (imp.running => imports # 0)

LogTypes ==
    /\ setup \in Setups /\ LogLines /\ sent \in 0..Len(log) /\ ImpTypes
    /\ IsSeq(stored) /\ Range(stored) \subseteq Range(log)

Beginning(n) == SubSeq(log, 1, n)

\* What the mirror has made of the lines it has sent.
Mirrored == imports = 0 /\ ~gap => Follows(stored, Beginning(sent))

\* What an import has appended, after what was there, of a session at rest.
Importing ==
    caughtUp /\ imp.running =>
        /\ imp.eof => imp.read = Len(log)
        /\ \E old : /\ IsSeq(old) /\ Range(old) \subseteq Range(log)
                    /\ stored = old \o Beginning(imp.read - Len(imp.batch))
ImportedAll == caughtUp /\ ~imp.running => Follows(stored, log)

LogInv == LogTypes /\ Mirrored /\ Importing /\ ImportedAll

-----------------------------------------------------------------------------

LEMMA LogInit == Init => LogInv
<1>. SUFFICES ASSUME Init PROVE LogInv
  OBVIOUS
<1>1. /\ log = <<>> /\ sent = 0 /\ stored = <<>> /\ imp = NoImport /\ imports = 0
      /\ caughtUp = FALSE /\ gap = FALSE /\ setup \in Setups
  BY DEF Init
<1>2. IsSeq(<<>>) /\ Len(<<>>) = 0
  BY DEF IsSeq
<1>3. setup.entries \in Nat
  BY <1>1, LogAssumption DEF Setting
<1>4. LogLines
  BY <1>1, <1>2, <1>3 DEF LogLines
<1>5. ImpTypes
  BY <1>1, <1>2 DEF ImpTypes, NoImport
<1>6. LogTypes
  BY <1>1, <1>2, <1>4, <1>5 DEF LogTypes
<1>7. Mirrored
  <2>1. SubSeq(<<>>, 1, Len(<<>>)) = <<>>
    BY <1>2, PartWhole
  <2>. QED
    BY <1>1, <1>2, <2>1, FollowsItself DEF Mirrored, Beginning
<1>8. Importing /\ ImportedAll
  BY <1>1 DEF Importing, ImportedAll
<1>. QED
  BY <1>6, <1>7, <1>8 DEF LogInv

LEMMA WriteKeeps ==
    ASSUME LogInv, NEW kind \in setup.kinds, NEW parent \in Parents(kind), Write(kind, parent)
    PROVE  LogInv'
<1>1. /\ LogTypes /\ Mirrored /\ setup \in Setups
      /\ IsSeq(log) /\ Len(log) \in Nat /\ DOMAIN log = 1..Len(log)
  BY SeqFacts DEF LogInv, LogTypes, LogLines
<1>. DEFINE line == [uuid |-> Len(log) + 1, parent |-> parent,
                     type |-> kind.type, flag |-> kind.flag]
<1>2. /\ Len(log) < setup.entries /\ log' = Append(log, line) /\ caughtUp' = FALSE
      /\ UNCHANGED <<setup, sent, gap, stored, imp, imports>>
  BY DEF Write
<1>3. PICK x : x = line
  OBVIOUS
<1>4. x.uuid = Len(log) + 1 /\ x.parent = parent /\ x.flag = kind.flag
  BY <1>3
<1>. HIDE DEF line
<1>5. /\ IsSeq(log') /\ Len(log') = Len(log) + 1
      /\ \A i \in 1..Len(log) : log'[i] = log[i]
      /\ log'[Len(log) + 1] = x
  <2>1. PICK s : s = log
    OBVIOUS
  <2>2. /\ IsSeq(Append(s, x)) /\ Len(Append(s, x)) = Len(s) + 1
        /\ \A i \in 1..Len(s) : Append(s, x)[i] = s[i]
        /\ Append(s, x)[Len(s) + 1] = x
    <3>1. IsSeq(s)
      BY <1>1, <2>1
    <3>. QED
      BY ONLY <3>1, AppendIs
  <2>. QED
    BY <1>2, <1>3, <2>1, <2>2
<1>6. setup.entries \in Nat /\ setup.kinds \subseteq Kinds
      /\ (~setup.branching => kind.flag = "side")
  BY <1>1, LogAssumption DEF Setting
<1>7. kind.flag \in Flags
  BY <1>6 DEF Kinds, Flags
\* Parents(kind): an earlier line of the same side, or none.
<1>8. /\ parent \in 0..Len(log)
      /\ parent # 0 => (log[parent].flag = "side" <=> kind.flag = "side")
      /\ ~setup.branching => parent = Len(log)
  <2>1. LogLines
    BY <1>1 DEF LogTypes
  <2>2. CASE setup.branching
    <3>1. parent = 0 \/ \E i \in DOMAIN log : /\ parent = log[i].uuid
                                              /\ (log[i].flag = "side") = (kind.flag = "side")
      BY <2>2 DEF Parents, Null
    <3>2. CASE parent = 0
      BY <1>1, <2>2, <3>2
    <3>3. ASSUME NEW i \in DOMAIN log, parent = log[i].uuid,
                 (log[i].flag = "side") = (kind.flag = "side")
          PROVE  parent \in 0..Len(log) /\ (log[parent].flag = "side" <=> kind.flag = "side")
      <4>1. i \in 1..Len(log) /\ log[i].uuid = i
        BY <1>1, <2>1 DEF LogLines
      <4>2. log[i].flag = "side" <=> kind.flag = "side"
        BY <3>3
      <4>. QED
        BY <1>1, <3>3, <4>1, <4>2
    <3>. QED
      BY <2>2, <3>1, <3>2, <3>3
  <2>3. CASE ~setup.branching /\ log = <<>>
    <3>1. parent = 0
      BY <2>3 DEF Parents, Null
    <3>2. Len(log) = 0
      BY <2>3
    <3>. QED
      BY <3>1, <3>2
  <2>4. CASE ~setup.branching /\ log # <<>>
    <3>1. parent = Last(log).uuid /\ Last(log) = log[Len(log)]
      BY <2>4 DEF Parents, Last
    <3>2. Len(log) \in 1..Len(log)
      BY <1>1, <2>4, SeqFacts
    <3>3. parent = Len(log) /\ log[Len(log)].flag = "side"
      BY <2>1, <2>4, <3>1, <3>2 DEF LogLines
    <3>. QED
      BY <1>1, <1>6, <2>4, <3>3
  <2>. QED
    BY <2>2, <2>3, <2>4
<1>9. LogLines'
  <2>1. ASSUME NEW i \in 1..Len(log)
        PROVE  /\ log'[i].uuid = i /\ log'[i].flag \in Flags
               /\ log'[i].parent \in 0..(i - 1)
               /\ log'[i].parent # 0 =>
                      (log'[log'[i].parent].flag = "side" <=> log'[i].flag = "side")
               /\ ~setup.branching => log'[i].parent = i - 1 /\ log'[i].flag = "side"
    <3>1. PICK e : e = log[i]
      OBVIOUS
    <3>2. /\ e.uuid = i /\ e.flag \in Flags /\ e.parent \in 0..(i - 1)
          /\ e.parent # 0 => (log[e.parent].flag = "side" <=> e.flag = "side")
          /\ ~setup.branching => e.parent = i - 1 /\ e.flag = "side"
      BY <1>1, <3>1 DEF LogTypes, LogLines
    <3>3. log'[i] = e /\ (e.parent # 0 => log'[e.parent] = log[e.parent])
      <4>1. e.parent # 0 => e.parent \in 1..Len(log)
        BY <1>1, <3>2
      <4>. QED
        BY <1>5, <3>1, <4>1
    <3>. QED
      BY <3>2, <3>3
  <2>2. PICK n : n = Len(log) + 1
    OBVIOUS
  <2>3. /\ log'[n].uuid = n /\ log'[n].flag \in Flags
        /\ log'[n].parent \in 0..(n - 1)
        /\ log'[n].parent # 0 =>
               (log'[log'[n].parent].flag = "side" <=> log'[n].flag = "side")
        /\ ~setup.branching => log'[n].parent = n - 1 /\ log'[n].flag = "side"
    <3>1. log'[n] = x /\ n - 1 = Len(log)
      BY <1>1, <1>5, <2>2
    <3>2. parent # 0 => log'[parent] = log[parent]
      <4>1. parent # 0 => parent \in 1..Len(log)
        <5>1. PICK l : l = Len(log)
          OBVIOUS
        <5>2. l \in Nat /\ parent \in 0..l
          BY <1>1, <1>8, <5>1
        <5>3. parent # 0 => parent \in 1..l
          BY ONLY <5>2
        <5>. QED
          BY ONLY <5>1, <5>3
      <4>. QED
        BY <1>5, <4>1
    <3>. QED
      BY <1>4, <1>6, <1>7, <1>8, <2>2, <3>1, <3>2
  <2>4. \A i \in 1..Len(log') : i \in 1..Len(log) \/ i = n
    BY <1>1, <1>5, <2>2
  <2>5. Len(log') <= setup'.entries
    BY <1>1, <1>2, <1>5, <1>6
  <2>. QED
    BY <1>2, <1>5, <2>1, <2>3, <2>4, <2>5 DEF LogLines
<1>10. Range(log) \subseteq Range(log')
  <2>1. Range(log) = {log[i] : i \in 1..Len(log)} /\ Range(log') = {log'[i] : i \in 1..Len(log')}
    BY <1>1, <1>5, RangeIs
  <2>2. \A i \in 1..Len(log) : i \in 1..Len(log')
    BY <1>1, <1>5
  <2>. QED
    BY <1>5, <2>1, <2>2
<1>11. LogTypes'
  <2>1. sent \in 0..Len(log) /\ ImpTypes /\ IsSeq(stored) /\ Range(stored) \subseteq Range(log)
    BY <1>1 DEF LogTypes
  <2>2. sent' \in 0..Len(log')
    BY <1>1, <1>2, <1>5, <2>1
  <2>3. ImpTypes'
    <3>1. imp.read \in 0..Len(log') /\ imp.read \in Nat /\ imp.read <= Len(log)
      BY <1>1, <1>5, <2>1 DEF ImpTypes
    <3>2. \A i \in 1..Len(imp.batch) : imp.read - Len(imp.batch) + i \in 1..Len(log)
      <4>1. IsSeq(imp.batch) /\ Len(imp.batch) <= imp.read
        BY <2>1 DEF ImpTypes
      <4>2. Len(imp.batch) \in Nat
        BY <4>1, SeqFacts
      <4>. QED
        BY <1>1, <3>1, <4>1, <4>2
    <3>. QED
      BY <1>2, <1>5, <2>1, <3>1, <3>2 DEF ImpTypes
  <2>. QED
    BY <1>1, <1>2, <1>9, <1>10, <2>1, <2>2, <2>3 DEF LogTypes
<1>12. Mirrored'
  <2>1. Beginning(sent)' = Beginning(sent)
    <3>0. PICK s, n : s = log /\ n = sent
      OBVIOUS
    <3>1. s = log /\ n = sent /\ n \in 0..Len(s)
      BY <1>1, <3>0 DEF LogTypes
    <3>2. SubSeq(Append(s, x), 1, n) = SubSeq(s, 1, n)
      BY <1>1, <3>1, PartStays
    <3>. QED
      BY <1>2, <1>3, <3>1, <3>2 DEF Beginning
  <2>. QED
    BY <1>1, <1>2, <2>1 DEF Mirrored
<1>13. Importing' /\ ImportedAll'
  BY <1>2 DEF Importing, ImportedAll
<1>. QED
  BY <1>11, <1>12, <1>13 DEF LogInv

LEMMA LogIs ==
    ASSUME LogTypes
    PROVE  /\ IsSeq(log) /\ Len(log) \in Nat /\ IsSeq(stored) /\ IsSeq(imp.batch)
           /\ Len(imp.batch) \in Nat /\ imp.read \in Nat /\ sent \in Nat
           /\ imp.read <= Len(log) /\ sent <= Len(log) /\ Len(imp.batch) <= imp.read
           /\ BatchSize \in Nat \ {0} /\ MaxEntries \in Nat
<1>1. IsSeq(log) /\ IsSeq(stored) /\ sent \in 0..Len(log) /\ ImpTypes
  BY DEF LogTypes, LogLines
<1>2. Len(log) \in Nat /\ IsSeq(imp.batch) /\ imp.read \in 0..Len(log) /\ Len(imp.batch) <= imp.read
  BY <1>1, SeqFacts DEF ImpTypes
<1>3. Len(imp.batch) \in Nat
  BY <1>2, SeqFacts
<1>. QED
  BY <1>1, <1>2, <1>3, LogAssumption

\* What has landed of a batch.
LEMMA LandedIs ==
    ASSUME NEW batch, IsSeq(batch), NEW landed \in Landed(batch)
    PROVE  IsSeq(landed) /\ Range(landed) \subseteq Range(batch)
<1>1. PICK S : landed = Picked(batch, S)
  BY DEF Landed
<1>. QED
  BY <1>1, PickedSeq

LEMMA MirrorKeeps ==
    ASSUME LogInv, NEW n \in 1..MaxEntries, Mirror(n)
    PROVE  LogInv'
<1>1. /\ LogTypes /\ Mirrored /\ IsSeq(log) /\ Len(log) \in Nat /\ IsSeq(stored)
      /\ sent \in Nat /\ sent <= Len(log) /\ n \in Nat \ {0} /\ Range(stored) \subseteq Range(log)
  <2>1. LogTypes /\ Mirrored
    BY DEF LogInv
  <2>. QED
    BY <2>1, LogIs DEF LogTypes
<1>2. /\ sent + n <= Len(log) /\ sent' = sent + n /\ caughtUp' = FALSE
      /\ UNCHANGED <<setup, log, imp, imports>>
  BY DEF Mirror
<1>3. PICK s, m, k : s = log /\ m = sent /\ k = sent + n
  OBVIOUS
<1>4. PICK batch : batch = SubSeq(s, m + 1, k)
  OBVIOUS
<1>5. /\ IsSeq(batch) /\ Range(batch) \subseteq Range(s)
      /\ SubSeq(s, 1, k) = SubSeq(s, 1, m) \o batch
  <2>1. IsSeq(s) /\ m \in 0..Len(s) /\ k \in m..Len(s)
    BY <1>1, <1>2, <1>3
  <2>. QED
    BY ONLY <1>4, <2>1, PartOf
<1>6. Batch(n) = batch
  BY <1>3, <1>4 DEF Batch
<1>7. PICK landed \in Landed(batch) :
          \/ stored' = stored \o (landed \o batch) /\ gap' = gap
          \/ stored' = stored \o landed /\ gap' = TRUE
  BY <1>6 DEF Mirror, Added, Resent
<1>8. IsSeq(landed) /\ Range(landed) \subseteq Range(batch)
  BY <1>5, LandedIs
<1>9. PICK more : more = landed \o batch
  OBVIOUS
<1>10. IsSeq(more) /\ Range(more) \subseteq Range(batch)
  BY <1>5, <1>8, <1>9, CatIs, CatRange
<1>11. IsSeq(stored') /\ Range(stored') \subseteq Range(log)
  <2>1. PICK old : old = stored
    OBVIOUS
  <2>2. IsSeq(old) /\ Range(old) \subseteq Range(log)
    BY <1>1, <2>1
  <2>3. IsSeq(old \o more) /\ Range(old \o more) \subseteq Range(log)
    BY <1>3, <1>5, <1>10, <2>2, CatIs, CatRange
  <2>4. IsSeq(old \o landed) /\ Range(old \o landed) \subseteq Range(log)
    BY <1>3, <1>5, <1>8, <2>2, CatIs, CatRange
  <2>. QED
    BY <1>7, <1>9, <2>1, <2>3, <2>4
<1>12. LogTypes'
  <2>1. LogLines' /\ ImpTypes' /\ sent' \in 0..Len(log')
    BY <1>1, <1>2 DEF LogTypes, LogLines, ImpTypes
  <2>. QED
    BY <1>1, <1>2, <1>11, <2>1 DEF LogTypes
<1>13. Mirrored'
  <2>. SUFFICES ASSUME imports' = 0, ~gap' PROVE Follows(stored', Beginning(sent)')
    BY DEF Mirrored
  <2>1. PICK a, b : a = stored /\ b = SubSeq(s, 1, m)
    OBVIOUS
  <2>2. gap' = gap /\ stored' = a \o more
    BY <1>7, <1>9, <2>1
  <2>3. Follows(a, b)
    BY <1>1, <1>2, <1>3, <2>1, <2>2 DEF Mirrored, Beginning
  <2>4. Follows(more, batch)
    BY ONLY <1>5, <1>8, <1>9, FollowsAfter
  <2>5. Follows(a \o more, b \o batch)
    BY ONLY <2>3, <2>4, FollowsCat
  <2>. QED
    BY <1>2, <1>3, <1>5, <2>1, <2>2, <2>5 DEF Beginning
<1>14. Importing' /\ ImportedAll'
  BY <1>2 DEF Importing, ImportedAll
<1>. QED
  BY <1>12, <1>13, <1>14 DEF LogInv

LEMMA ImportStartsKeeps ==
    ASSUME LogInv, ImportStarts
    PROVE  LogInv'
<1>1. LogTypes /\ IsSeq(log) /\ Len(log) \in Nat /\ IsSeq(stored) /\ Range(stored) \subseteq Range(log)
  <2>1. LogTypes
    BY DEF LogInv
  <2>. QED
    BY <2>1, LogIs DEF LogTypes
<1>2. /\ imp' = [NoImport EXCEPT !.running = TRUE] /\ imports' = imports + 1
      /\ UNCHANGED <<setup, log, sent, gap, stored>>
  BY DEF ImportStarts
<1>3. /\ DOMAIN imp' = {"running", "read", "batch", "eof"} /\ imp'.running = TRUE
      /\ imp'.read = 0 /\ imp'.batch = <<>> /\ imp'.eof = FALSE
  BY <1>2 DEF NoImport
<1>4. IsSeq(<<>>) /\ Len(<<>>) = 0
  BY DEF IsSeq
<1>5. imports \in Nat
  BY <1>1 DEF LogTypes, ImpTypes
<1>6. ImpTypes'
  BY <1>1, <1>2, <1>3, <1>4, <1>5 DEF ImpTypes
<1>7. LogTypes'
  <2>1. LogLines'
    BY <1>1, <1>2 DEF LogTypes, LogLines
  <2>. QED
    BY <1>1, <1>2, <1>6, <2>1 DEF LogTypes
<1>8. Mirrored'
  BY <1>2, <1>5 DEF Mirrored
<1>9. Importing'
  <2>1. PICK old, s : old = stored /\ s = log
    OBVIOUS
  <2>2. IsSeq(old) /\ IsSeq(s) /\ 0 \in 0..Len(s)
    BY <1>1, <2>1
  <2>3. IsSeq(SubSeq(s, 1, 0)) /\ Len(SubSeq(s, 1, 0)) = 0
    BY ONLY <2>2, PartIs
  <2>4. SubSeq(s, 1, 0) = <<>>
    BY <2>3, SeqFacts
  <2>5. old \o <<>> = old
    <3>1. PICK U : old \in Seq(U)
      BY <2>2 DEF IsSeq
    <3>. QED
      BY <3>1
  <2>6. stored' = old \o SubSeq(s, 1, 0)
    BY <1>2, <2>1, <2>4, <2>5
  <2>7. Beginning(imp.read - Len(imp.batch))' = SubSeq(s, 1, 0)
    BY <1>2, <1>3, <1>4, <2>1 DEF Beginning
  <2>8. Range(old) \subseteq Range(log')
    BY <1>1, <1>2, <2>1
  <2>. QED
    BY <1>3, <2>2, <2>6, <2>7, <2>8 DEF Importing
<1>10. ImportedAll'
  BY <1>3 DEF ImportedAll
<1>. QED
  BY <1>7, <1>8, <1>9, <1>10 DEF LogInv

LEMMA ImportReadsKeeps ==
    ASSUME LogInv, ImportReads
    PROVE  LogInv'
<1>1. LogTypes /\ Mirrored /\ Importing /\ ImportedAll
  BY DEF LogInv
<1>2. /\ IsSeq(log) /\ Len(log) \in Nat /\ imp.read \in Nat /\ BatchSize \in Nat \ {0}
  BY <1>1, LogIs
<1>3. /\ imp.running /\ imp.batch = <<>> /\ ~imp.eof /\ imp.read < Len(log)
      /\ imp' = [imp EXCEPT !.batch = SubSeq(log, imp.read + 1, BatchEnd),
                            !.read = BatchEnd, !.eof = BatchEnd < imp.read + BatchSize]
      /\ UNCHANGED <<setup, log, sent, gap, stored, imports, caughtUp>>
  BY DEF ImportReads
<1>4. PICK s, m, n : s = log /\ m = imp.read /\ n = BatchEnd
  OBVIOUS
<1>5. /\ n \in m..Len(s) /\ (n < m + BatchSize => n = Len(s))
  <2>1. PICK T : T = {m + BatchSize, Len(s)}
    OBVIOUS
  <2>2. n = Min(T)
    BY <1>4, <2>1 DEF BatchEnd
  <2>3. m + BatchSize \in Nat /\ Len(s) \in Nat /\ T \in SUBSET Nat
    BY <1>2, <1>4, <2>1
  <2>4. CASE m + BatchSize <= Len(s)
    <3>1. n = m + BatchSize
      BY <2>1, <2>2, <2>3, <2>4, MinIs
    <3>. QED
      BY <1>2, <1>4, <2>4, <3>1
  <2>5. CASE ~(m + BatchSize <= Len(s))
    <3>1. Len(s) <= m + BatchSize
      BY <2>3, <2>5
    <3>2. n = Len(s)
      BY <2>1, <2>2, <2>3, <3>1, MinIs
    <3>. QED
      BY <1>2, <1>3, <1>4, <3>2
  <2>. QED
    BY <2>4, <2>5
<1>6. PICK batch : batch = SubSeq(s, m + 1, n)
  OBVIOUS
<1>7. /\ IsSeq(batch) /\ Len(batch) = n - m /\ \A i \in 1..(n - m) : batch[i] = s[m + i]
  <2>1. IsSeq(s) /\ m \in 0..Len(s) /\ n \in m..Len(s)
    BY <1>2, <1>3, <1>4, <1>5
  <2>. QED
    BY ONLY <1>6, <2>1, PartOf
<1>8. /\ DOMAIN imp' = {"running", "read", "batch", "eof"} /\ imp'.running = imp.running
      /\ imp'.read = n /\ imp'.batch = batch /\ (imp'.eof => n < m + BatchSize)
  <2>1. DOMAIN imp = {"running", "read", "batch", "eof"}
    BY <1>1 DEF LogTypes, ImpTypes
  <2>. QED
    BY <1>3, <1>4, <1>6, <2>1
<1>9. n - Len(batch) = m /\ Len(batch) <= n /\ n \in 0..Len(log)
  BY <1>2, <1>4, <1>5, <1>7
<1>10. ImpTypes'
  <2>1. \A i \in 1..Len(batch) : batch[i] = log'[n - Len(batch) + i]
    BY <1>3, <1>4, <1>7, <1>9
  <2>2. imp.running \in BOOLEAN /\ imports \in Nat /\ (imp.running => imports # 0)
    BY <1>1 DEF LogTypes, ImpTypes
  <2>3. /\ imp'.running \in BOOLEAN /\ imports' \in Nat /\ (imp'.running => imports' # 0)
        /\ imp'.read \in 0..Len(log') /\ IsSeq(imp'.batch) /\ Len(imp'.batch) <= imp'.read
    BY <1>3, <1>7, <1>8, <1>9, <2>2
  <2>4. \A i \in 1..Len(imp'.batch) :
            imp'.batch[i] = log'[imp'.read - Len(imp'.batch) + i]
    BY <1>8, <2>1
  <2>. QED
    BY <1>8, <2>3, <2>4 DEF ImpTypes
<1>11. LogTypes'
  <2>1. LogLines'
    BY <1>1, <1>3 DEF LogTypes, LogLines
  <2>. QED
    BY <1>1, <1>3, <1>10, <2>1 DEF LogTypes
<1>12. Mirrored' /\ ImportedAll'
  BY <1>1, <1>3, <1>8 DEF Mirrored, Beginning, ImportedAll
<1>13. Importing'
  <2>. SUFFICES ASSUME caughtUp' PROVE /\ imp'.eof => imp'.read = Len(log')
                                       /\ \E old : /\ IsSeq(old) /\ Range(old) \subseteq Range(log')
                                                   /\ stored' = old \o SubSeq(s, 1, m)
    BY <1>3, <1>4, <1>8, <1>9 DEF Importing, Beginning
  <2>1. Len(imp.batch) = 0 /\ m - 0 = m
    BY <1>2, <1>3, <1>4
  <2>2. \E old : /\ IsSeq(old) /\ Range(old) \subseteq Range(log)
                 /\ stored = old \o SubSeq(s, 1, m)
    BY <1>1, <1>3, <1>4, <2>1 DEF Importing, Beginning
  <2>. QED
    BY <1>3, <1>4, <1>5, <1>8, <2>2
<1>. QED
  BY <1>11, <1>12, <1>13 DEF LogInv

LEMMA ImportAppendsKeeps ==
    ASSUME LogInv, ImportAppends
    PROVE  LogInv'
<1>1. LogTypes /\ Mirrored /\ Importing /\ ImportedAll
  BY DEF LogInv
<1>2. /\ IsSeq(log) /\ Len(log) \in Nat /\ IsSeq(stored) /\ IsSeq(imp.batch)
      /\ Len(imp.batch) \in Nat /\ imp.read \in Nat /\ imp.read <= Len(log)
      /\ Len(imp.batch) <= imp.read
  BY <1>1, LogIs
<1>3. /\ imp.running /\ imp.batch # <<>> /\ stored' = stored \o imp.batch
      /\ imp' = [imp EXCEPT !.batch = <<>>]
      /\ UNCHANGED <<setup, log, sent, gap, imports, caughtUp>>
  BY DEF ImportAppends, Added, LastBatch
<1>4. PICK s, m, n, old, batch : /\ s = log /\ n = imp.read /\ m = n - Len(batch)
                                 /\ old = stored /\ batch = imp.batch
  OBVIOUS
<1>5. /\ IsSeq(s) /\ m \in 0..Len(s) /\ n \in m..Len(s) /\ IsSeq(old) /\ IsSeq(batch)
      /\ Len(batch) = n - m /\ n - Len(batch) = m
  BY <1>2, <1>4
<1>6. PICK part : part = SubSeq(s, m + 1, n)
  OBVIOUS
<1>7. /\ IsSeq(part) /\ Len(part) = n - m /\ \A i \in 1..(n - m) : part[i] = s[m + i]
      /\ Range(part) \subseteq Range(s) /\ SubSeq(s, 1, n) = SubSeq(s, 1, m) \o part
  BY ONLY <1>5, <1>6, PartOf
<1>8. batch = part
  <2>1. \A i \in 1..Len(batch) : batch[i] = s[m + i]
    <3>1. \A i \in 1..Len(batch) : batch[i] = s[n - Len(batch) + i]
      BY <1>1, <1>4 DEF LogTypes, ImpTypes
    <3>. QED
      BY <1>5, <3>1
  <2>2. \A i \in 1..Len(batch) : batch[i] = part[i]
    BY <1>5, <1>7, <2>1
  <2>. QED
    BY ONLY <1>5, <1>7, <2>2, SameSeq
<1>9. /\ DOMAIN imp' = {"running", "read", "batch", "eof"} /\ imp'.running = imp.running
      /\ imp'.read = n /\ imp'.batch = <<>> /\ imp'.eof = imp.eof
  <2>1. DOMAIN imp = {"running", "read", "batch", "eof"}
    BY <1>1 DEF LogTypes, ImpTypes
  <2>. QED
    BY <1>3, <1>4, <2>1
<1>10. IsSeq(<<>>) /\ Len(<<>>) = 0
  BY DEF IsSeq
<1>11. ImpTypes'
  <2>1. imp.running \in BOOLEAN /\ imports \in Nat /\ (imp.running => imports # 0)
    BY <1>1 DEF LogTypes, ImpTypes
  <2>2. n \in 0..Len(log) /\ n \in Nat
    BY <1>2, <1>4
  <2>3. IsSeq(imp'.batch) /\ Len(imp'.batch) = 0 /\ Len(imp'.batch) <= imp'.read
    BY <1>9, <1>10, <2>2
  <2>4. \A i \in 1..Len(imp'.batch) : imp'.batch[i] = log[imp'.read - Len(imp'.batch) + i]
    BY <2>3
  <2>5. imp'.read \in 0..Len(log) /\ imp'.running \in BOOLEAN
    BY <1>9, <2>1, <2>2
  <2>. QED
    BY <1>3, <1>9, <2>1, <2>3, <2>4, <2>5 DEF ImpTypes
<1>12. IsSeq(old \o batch) /\ Range(old \o batch) \subseteq Range(log)
  <2>1. Range(old) \subseteq Range(s) /\ Range(batch) \subseteq Range(s)
    BY <1>1, <1>4, <1>7, <1>8 DEF LogTypes
  <2>2. IsSeq(old \o batch) /\ Range(old \o batch) = Range(old) \cup Range(batch)
    BY ONLY <1>5, CatIs, CatRange
  <2>. QED
    BY <1>4, <2>1, <2>2
<1>13. LogTypes'
  <2>1. LogLines'
    BY <1>1, <1>3 DEF LogTypes, LogLines
  <2>2. stored' = old \o batch
    BY <1>3, <1>4
  <2>. QED
    BY <1>1, <1>3, <1>11, <1>12, <2>1, <2>2 DEF LogTypes
<1>14. Mirrored'
  <2>1. imports # 0
    BY <1>1, <1>3 DEF LogTypes, ImpTypes
  <2>. QED
    BY <1>3, <2>1 DEF Mirrored
<1>15. ImportedAll'
  BY <1>3, <1>9 DEF ImportedAll
<1>16. Importing'
  <2>. SUFFICES ASSUME caughtUp
                PROVE  /\ imp'.eof => imp'.read = Len(log')
                       /\ \E first : /\ IsSeq(first) /\ Range(first) \subseteq Range(log')
                                     /\ stored' = first \o SubSeq(s, 1, n)
    <3>1. imp'.read - Len(imp'.batch) = n
      BY <1>5, <1>9, <1>10
    <3>. QED
      BY <1>3, <1>4, <3>1 DEF Importing, Beginning
  <2>1. imp.eof => imp.read = Len(log)
    BY <1>1, <1>3 DEF Importing
  <2>2. PICK first : /\ IsSeq(first) /\ Range(first) \subseteq Range(log)
                     /\ stored = first \o SubSeq(s, 1, m)
    BY <1>1, <1>3, <1>4 DEF Importing, Beginning
  <2>3. PICK a : a = SubSeq(s, 1, m)
    OBVIOUS
  <2>4. IsSeq(a)
    BY ONLY <1>5, <2>3, PartIs
  <2>5. (first \o a) \o part = first \o (a \o part)
    BY ONLY <1>7, <2>2, <2>4, CatGroups, SMTT(30)
  <2>6. stored' = first \o SubSeq(s, 1, n)
    BY <1>3, <1>4, <1>7, <1>8, <2>2, <2>3, <2>5
  <2>. QED
    BY <1>3, <1>4, <1>9, <2>1, <2>2, <2>6
<1>. QED
  BY <1>13, <1>14, <1>15, <1>16 DEF LogInv

LEMMA ImportFailsKeeps ==
    ASSUME LogInv, ImportFails
    PROVE  LogInv'
<1>1. LogTypes
  BY DEF LogInv
<1>2. /\ IsSeq(log) /\ Len(log) \in Nat /\ IsSeq(stored) /\ IsSeq(imp.batch)
      /\ Len(imp.batch) \in Nat /\ imp.read \in Nat /\ imp.read <= Len(log)
      /\ Len(imp.batch) <= imp.read
  BY <1>1, LogIs
<1>3. /\ imp.running /\ imp' = NoImport /\ caughtUp' = FALSE
      /\ UNCHANGED <<setup, log, sent, gap, imports>>
  BY DEF ImportFails
<1>4. PICK landed \in Landed(imp.batch) : stored' = stored \o landed
  BY DEF ImportFails, Added
<1>5. PICK old, batch, s : old = stored /\ batch = imp.batch /\ s = log
  OBVIOUS
<1>6. IsSeq(landed) /\ Range(landed) \subseteq Range(batch)
  BY <1>2, <1>5, LandedIs
<1>7. Range(batch) \subseteq Range(s)
  <2>1. \A i \in 1..Len(batch) : /\ imp.read - Len(batch) + i \in 1..Len(s)
                                 /\ batch[i] = s[imp.read - Len(batch) + i]
    BY <1>1, <1>2, <1>5 DEF LogTypes, ImpTypes
  <2>2. Range(batch) = {batch[i] : i \in 1..Len(batch)} /\ Range(s) = {s[i] : i \in 1..Len(s)}
    BY <1>2, <1>5, RangeIs
  <2>. QED
    BY <2>1, <2>2
<1>8. IsSeq(stored') /\ Range(stored') \subseteq Range(log)
  <2>1. IsSeq(old) /\ Range(old) \subseteq Range(s)
    BY <1>1, <1>5 DEF LogTypes
  <2>2. IsSeq(old \o landed) /\ Range(old \o landed) = Range(old) \cup Range(landed)
    BY ONLY <1>6, <2>1, CatIs, CatRange
  <2>. QED
    BY <1>4, <1>5, <1>6, <1>7, <2>1, <2>2
<1>9. ImpTypes'
  <2>1. imports \in Nat
    BY <1>1 DEF LogTypes, ImpTypes
  <2>2. IsSeq(<<>>) /\ Len(<<>>) = 0
    BY DEF IsSeq
  <2>. QED
    BY <1>2, <1>3, <2>1, <2>2 DEF ImpTypes, NoImport
<1>10. LogTypes'
  <2>1. LogLines'
    BY <1>1, <1>3 DEF LogTypes, LogLines
  <2>. QED
    BY <1>1, <1>3, <1>8, <1>9, <2>1 DEF LogTypes
<1>11. Mirrored'
  <2>1. imports # 0
    BY <1>1, <1>3 DEF LogTypes, ImpTypes
  <2>. QED
    BY <1>3, <2>1 DEF Mirrored
<1>12. Importing' /\ ImportedAll'
  BY <1>3 DEF Importing, ImportedAll
<1>. QED
  BY <1>10, <1>11, <1>12 DEF LogInv

LEMMA ImportEndsKeeps ==
    ASSUME LogInv, ImportEnds
    PROVE  LogInv'
<1>1. LogTypes /\ Importing /\ Mirrored
  BY DEF LogInv
<1>2. /\ IsSeq(log) /\ Len(log) \in Nat /\ imp.read \in Nat
  BY <1>1, LogIs
<1>3. /\ imp.running /\ imp.batch = <<>> /\ (imp.eof \/ imp.read = Len(log))
      /\ imp' = NoImport /\ UNCHANGED <<setup, log, sent, gap, stored, imports, caughtUp>>
  BY DEF ImportEnds
<1>4. ImpTypes'
  <2>1. imports \in Nat
    BY <1>1 DEF LogTypes, ImpTypes
  <2>2. IsSeq(<<>>) /\ Len(<<>>) = 0
    BY DEF IsSeq
  <2>. QED
    BY <1>2, <1>3, <2>1, <2>2 DEF ImpTypes, NoImport
<1>5. LogTypes'
  <2>1. LogLines'
    BY <1>1, <1>3 DEF LogTypes, LogLines
  <2>. QED
    BY <1>1, <1>3, <1>4, <2>1 DEF LogTypes
<1>6. Mirrored' /\ Importing'
  BY <1>1, <1>3 DEF Mirrored, Beginning, Importing, NoImport
<1>7. ImportedAll'
  <2>. SUFFICES ASSUME caughtUp PROVE Follows(stored, log)
    BY <1>3 DEF ImportedAll
  <2>1. PICK s : s = log
    OBVIOUS
  <2>2. imp.read - Len(imp.batch) = Len(s)
    <3>1. imp.read = Len(log)
      BY <1>1, <1>3 DEF Importing
    <3>2. Len(imp.batch) = 0
      BY <1>3
    <3>. QED
      BY <1>2, <2>1, <3>1, <3>2
  <2>3. PICK old : /\ IsSeq(old) /\ Range(old) \subseteq Range(s)
                   /\ stored = old \o SubSeq(s, 1, Len(s))
    BY <1>1, <1>3, <2>1, <2>2 DEF Importing, Beginning
  <2>4. IsSeq(s)
    BY <1>2, <2>1
  <2>5. SubSeq(s, 1, Len(s)) = s
    BY ONLY <2>4, PartWhole
  <2>6. Follows(old \o s, s)
    BY ONLY <2>3, <2>4, FollowsAfter
  <2>. QED
    BY <2>1, <2>3, <2>5, <2>6
<1>. QED
  BY <1>5, <1>6, <1>7 DEF LogInv

LEMMA LogNext == LogInv /\ [Next]_vars => LogInv'
<1>. SUFFICES ASSUME LogInv, [Next]_vars PROVE LogInv'
  OBVIOUS
<1>1. CASE \E kind \in setup.kinds : \E parent \in Parents(kind) : Write(kind, parent)
  BY <1>1, WriteKeeps
<1>2. CASE \E n \in 1..MaxEntries : Mirror(n)
  BY <1>2, MirrorKeeps
<1>3. CASE ImportStarts
  BY <1>3, ImportStartsKeeps
<1>4. CASE ImportReads
  BY <1>4, ImportReadsKeeps
<1>5. CASE ImportAppends
  BY <1>5, ImportAppendsKeeps
<1>6. CASE ImportFails
  BY <1>6, ImportFailsKeeps
<1>7. CASE ImportEnds
  BY <1>7, ImportEndsKeeps
<1>8. CASE UNCHANGED vars
  BY <1>8 DEF vars, LogInv, LogTypes, LogLines, ImpTypes, Mirrored, Importing, ImportedAll,
              Beginning
<1>. QED
  BY <1>1, <1>2, <1>3, <1>4, <1>5, <1>6, <1>7, <1>8 DEF Next

-----------------------------------------------------------------------------
\* The file is an ordered transcript, its uuids the numbers of its lines.
LEMMA LogOrdered ==
    ASSUME LogTypes, NEW t, t = log
    PROVE  /\ Ordered(t) /\ Sided(t) /\ IsSeq(t) /\ Len(t) \in Nat
           /\ Uuids(t) = 1..Len(t)
           /\ \A i \in 1..Len(t) : ByUuid(t, i) = t[i] /\ t[i].uuid = i
           /\ \A e \in Range(t) : e.flag \in Flags
<1>1. /\ IsSeq(t)
      /\ \A i \in 1..Len(t) :
           /\ t[i].uuid = i /\ t[i].flag \in Flags
           /\ t[i].parent \in 0..(i - 1)
           /\ t[i].parent # 0 => (t[t[i].parent].flag = "side" <=> t[i].flag = "side")
  BY DEF LogTypes, LogLines
<1>2. Len(t) \in Nat
  BY <1>1, SeqFacts
<1>3. Ordered(t)
  <2>1. \A i \in 1..Len(t) : /\ t[i].uuid \in Nat \ {0} /\ t[i].parent \in Nat
                             /\ t[i].parent < t[i].uuid
    BY <1>1, <1>2
  <2>2. \A i, j \in 1..Len(t) : i < j => t[i].uuid < t[j].uuid
    BY <1>1
  <2>. QED
    BY <1>1, <2>1, <2>2 DEF Ordered
<1>4. Uuids(t) = 1..Len(t)
  <2>1. Uuids(t) = {t[i].uuid : i \in 1..Len(t)}
    BY <1>1, UuidsAre
  <2>. QED
    BY <1>1, <2>1
<1>5. \A i \in 1..Len(t) : ByUuid(t, i) = t[i]
  <2>1. \A i \in 1..Len(t) : ByUuid(t, t[i].uuid) = t[i]
    BY <1>3, OrderedAt
  <2>. QED
    BY <1>1, <2>1
<1>6. Range(t) = {t[i] : i \in 1..Len(t)}
  BY <1>1, RangeIs
<1>7. Sided(t)
  <2>. SUFFICES ASSUME NEW i \in 1..Len(t), t[i].parent # 0
                PROVE  \E d \in Range(t) : /\ d.uuid = t[i].parent
                                           /\ d.flag = "side" <=> t[i].flag = "side"
    BY <1>6 DEF Sided, Null
  <2>1. PICK p : p = t[i].parent
    OBVIOUS
  <2>2. p \in 1..Len(t) /\ p # 0
    BY <1>1, <1>2, <2>1
  <2>3. t[p] \in Range(t) /\ t[p].uuid = p /\ (t[p].flag = "side" <=> t[i].flag = "side")
    BY <1>1, <1>6, <2>1, <2>2
  <2>. QED
    BY <2>1, <2>3
<1>. QED
  BY <1>1, <1>2, <1>3, <1>4, <1>5, <1>6, <1>7

LEMMA LogVisibles ==
    ASSUME LogTypes, NEW t, t = log
    PROVE  /\ Visibles(t) = {v \in 1..Len(t) : Visible(t[v])}
           /\ Talks(t) = {v \in 1..Len(t) : Talk(t[v])}
           /\ HasVisible => /\ Newest \in Visibles(t)
                            /\ \A v \in Visibles(t) : v <= Newest
<1>1. /\ IsSeq(t) /\ Len(t) \in Nat /\ Uuids(t) = 1..Len(t)
      /\ \A i \in 1..Len(t) : ByUuid(t, i) = t[i]
  BY LogOrdered
<1>2. /\ Visibles(t) = {v \in 1..Len(t) : Visible(t[v])}
      /\ Talks(t) = {v \in 1..Len(t) : Talk(t[v])}
  BY <1>1 DEF Visibles, Talks
<1>3. ASSUME HasVisible PROVE /\ Newest \in Visibles(t)
                              /\ \A v \in Visibles(t) : v <= Newest
  <2>1. Visibles(t) # {}
    BY <1>1, <1>2, <1>3, SeqFacts DEF HasVisible
  <2>2. Visibles(t) \in SUBSET (0..Len(t))
    BY <1>1, <1>2
  <2>3. PICK n \in Visibles(t) : \A v \in Visibles(t) : v <= n
    BY <1>1, <2>1, <2>2, GreatestNat
  <2>4. Newest = CHOOSE u \in Visibles(t) : \A v \in Uuids(t) : Visible(t[v]) => v <= u
    BY <1>1, <1>2 DEF Newest
  <2>5. \A v \in Uuids(t) : Visible(t[v]) => v <= n
    BY <1>1, <1>2, <2>3
  <2>6. PICK m : m = Newest
    OBVIOUS
  <2>7. m \in Visibles(t) /\ \A v \in Uuids(t) : Visible(t[v]) => v <= m
    BY <2>3, <2>4, <2>5, <2>6
  <2>. QED
    BY <1>1, <1>2, <2>6, <2>7
<1>. QED
  BY <1>2, <1>3

\* Where TipShown holds, no message that is not shown leads up to the newest.
LEMMA TipIs ==
    ASSUME LogTypes, TipShown, NEW t, t = log, NEW n, n = Newest
    PROVE  /\ n \in Visibles(t) /\ (\A v \in Visibles(t) : v <= n)
           /\ \A u \in Talks(t) \ Visibles(t) : ~Above(t, n, u)
<1>1. n \in Visibles(t) /\ (\A v \in Visibles(t) : v <= n)
  BY LogVisibles DEF TipShown
<1>2. ASSUME NEW u \in Talks(t) \ Visibles(t), Above(t, n, u) PROVE FALSE
  <2>1. u \in Uuids(t) /\ Talk(t[u]) /\ ~Main(t[u])
    BY LogVisibles, LogOrdered DEF Visible
  <2>2. ~Contains(Walk(t, u), n)
    BY <2>1 DEF TipShown
  <2>3. PICK w : w = Walk(t, u)
    OBVIOUS
  <2>4. PICK k \in 1..Len(w) : w[k] = n
    BY <1>2, <2>3 DEF Above
  <2>5. Contains(w, n)
    BY <2>4 DEF Contains
  <2>. QED
    BY <2>2, <2>3, <2>5
<1>. QED
  BY <1>1, <1>2

LEMMA NewestShownInv == LogTypes => NewestShown
<1>. SUFFICES ASSUME LogTypes, TipShown PROVE Messages(log) = Ancestors(Newest)
  BY DEF NewestShown
<1>1. PICK t, n : t = log /\ n = Newest
  OBVIOUS
<1>2. /\ n \in Visibles(t) /\ (\A v \in Visibles(t) : v <= n)
      /\ \A u \in Talks(t) \ Visibles(t) : ~Above(t, n, u)
  BY <1>1, TipIs
<1>3. Ordered(t)
  BY <1>1, LogOrdered
<1>4. Messages(t) = Picked(Reverse(Walk(t, n)), Visibles(t))
  BY ONLY <1>2, <1>3, TipMessages
<1>. QED
  BY <1>1, <1>4 DEF Ancestors

LEMMA ForkShowsInv == LogTypes => ForkShowsSource
<1>. SUFFICES ASSUME LogTypes, TipShown, TeamFree PROVE Messages(Fork(log, Null)) = Messages(log)
  BY DEF ForkShowsSource
<1>1. PICK t, n, m : t = log /\ n = Newest /\ m = Len(log)
  OBVIOUS
<1>2. /\ n \in Visibles(t) /\ (\A v \in Visibles(t) : v <= n)
      /\ \A u \in Talks(t) \ Visibles(t) : ~Above(t, n, u)
  BY <1>1, TipIs
<1>3. /\ Ordered(t) /\ Sided(t) /\ IsSeq(t) /\ m \in Nat /\ Uuids(t) = 1..m
      /\ \A e \in Range(t) : e.flag \in Flags
  BY <1>1, LogOrdered
<1>4. \A e \in Range(t) : e.flag \in {"none", "side", "meta"}
  <2>1. \A e \in Range(t) : e.flag # "team"
    BY <1>1, <1>3, RangeIs, SeqFacts DEF TeamFree
  <2>. QED
    BY <1>3, <2>1 DEF Flags
<1>5. \A u \in Uuids(t) : u <= m
  BY <1>3
<1>6. PICK s : s = Prefix(t, Null)
  OBVIOUS
<1>7. Begins(s, t, m)
  BY ONLY <1>3, <1>5, <1>6, OwnBegins
<1>8. n <= m
  BY <1>2, <1>5 DEF Visibles
<1>9. Messages(ForkOf(s)) = Picked(Reverse(Walk(t, n)), Visibles(t))
  BY ONLY <1>2, <1>3, <1>4, <1>7, <1>8, ForkMessages
<1>10. Messages(t) = Picked(Reverse(Walk(t, n)), Visibles(t))
  BY ONLY <1>2, <1>3, TipMessages
<1>. QED
  BY <1>1, <1>6, <1>9, <1>10 DEF Fork

LEMMA ForkEndsInv == LogTypes => ForkEndsAt
<1>. SUFFICES ASSUME LogTypes, NEW u \in Uuids(log), Visible(log[u]), TeamFree
              PROVE  Messages(Fork(log, u)) = Ancestors(u)
  BY DEF ForkEndsAt
<1>1. PICK t : t = log
  OBVIOUS
<1>2. /\ Ordered(t) /\ Sided(t) /\ IsSeq(t) /\ Len(t) \in Nat /\ Uuids(t) = 1..Len(t)
      /\ \A i \in 1..Len(t) : ByUuid(t, i) = t[i] /\ t[i].uuid = i
      /\ \A e \in Range(t) : e.flag \in Flags
  BY <1>1, LogOrdered
<1>3. \A e \in Range(t) : e.flag \in {"none", "side", "meta"}
  <2>1. \A e \in Range(t) : e.flag # "team"
    BY <1>1, <1>2, RangeIs, SeqFacts DEF TeamFree
  <2>. QED
    BY <1>2, <2>1 DEF Flags
<1>4. Range(t) = {t[i] : i \in 1..Len(t)}
  BY ONLY <1>2, RangeIs
<1>5. u \in 1..Len(t) /\ u \in Nat /\ u # Null
  BY <1>1, <1>2 DEF Null
<1>6. u \in Visibles(t) /\ Visibles(t) \subseteq 1..Len(t)
  BY <1>1, <1>5, LogVisibles
<1>7. u \in Uuids(Own(t))
  <2>1. PICK o : o = Own(t)
    OBVIOUS
  <2>2. IsSeq(o) /\ Range(o) = Range(t) \cap {e \in Range(t) : e.flag # "side"}
    BY <1>2, <2>1, PickedSeq DEF Own
  <2>3. t[u] \in Range(o) /\ t[u].uuid = u
    BY <1>1, <1>2, <1>4, <1>5, <2>2 DEF Visible, Main
  <2>4. PICK i \in 1..Len(o) : o[i] = t[u]
    BY <2>2, <2>3, RangeIs
  <2>5. u \in {o[j].uuid : j \in 1..Len(o)}
    BY <2>3, <2>4
  <2>. QED
    BY <2>1, <2>2, <2>5, UuidsAre
<1>8. PICK s : s = Prefix(t, u)
  OBVIOUS
<1>9. Begins(s, t, u)
  BY ONLY <1>2, <1>7, <1>8, PrefixBegins
\* What leads up to u comes after it.
<1>10. ASSUME NEW v \in Talks(t) \ Visibles(t), v <= u, Above(t, u, v) PROVE FALSE
  <2>1. v \in Uuids(t)
    BY DEF Talks
  <2>2. PICK w : w = Walk(t, v)
    OBVIOUS
  <2>3. /\ Len(w) \in Nat \ {0} /\ w[1] = v
        /\ \A i, j \in 1..Len(w) : i < j => w[j] < w[i]
    BY ONLY <1>2, <2>1, <2>2, OrderedDown
  <2>4. PICK k \in 1..Len(w) : w[k] = u
    BY <1>10, <2>2 DEF Above
  <2>5. k # 1
    BY <1>6, <2>3, <2>4
  <2>6. 1 \in 1..Len(w) /\ 1 < k
    BY <2>3, <2>5
  <2>7. u < v
    BY <2>3, <2>4, <2>6
  <2>8. v \in Nat
    BY <1>2, <2>1
  <2>. QED
    BY <1>5, <1>10, <2>7, <2>8
<1>11. u <= u /\ \A v \in Visibles(t) : v <= u => v <= u
  BY <1>5
<1>12. \A v \in Talks(t) \ Visibles(t) : v <= u => ~Above(t, u, v)
  BY <1>10
<1>13. Messages(ForkOf(s)) = Picked(Reverse(Walk(t, u)), Visibles(t))
  BY ONLY <1>2, <1>3, <1>5, <1>6, <1>9, <1>11, <1>12, ForkMessages
<1>. QED
  BY <1>1, <1>8, <1>13 DEF Fork, Ancestors

LEMMA ForkSelfInv == LogTypes => ForkSelfContained
<1>. SUFFICES ASSUME LogTypes PROVE ForkSelfContained
  OBVIOUS
<1>1. PICK t, s : t = log /\ s = stored
  OBVIOUS
<1>2. Ordered(t) /\ IsSeq(s)
  BY <1>1, LogOrdered, LogIs
<1>3. ASSUME NEW m, NEW f, f = Fork(t, m), NEW i \in DOMAIN f
      PROVE  RefersTo(f, i, 1..(i - 1))
  <2>1. PICK o : o = Prefix(t, m)
    OBVIOUS
  <2>2. Ordered(o) /\ f = ForkOf(o)
    BY <1>2, <1>3, <2>1, PrefixOrdered DEF Fork
  <2>3. DOMAIN f = 1..Len(f)
    BY <2>2, ForkOrdered, SeqFacts DEF Ordered
  <2>4. f[i].parent = Null \/ \E j \in 1..(i - 1) : f[j].uuid = f[i].parent
    BY <2>2, <2>3, ForkRefers
  <2>. QED
    BY <2>4 DEF RefersTo
<1>4. ASSUME NEW f, f = Fork(s, Null), NEW i \in DOMAIN f
      PROVE  RefersTo(f, i, DOMAIN f)
  <2>1. PICK o : o = Own(s)
    OBVIOUS
  <2>2. f = ForkOf(o)
    BY <1>4, <2>1 DEF Fork, Prefix
  <2>3. IsSeq(o)
    BY <1>2, <2>1, PickedSeq DEF Own
  <2>4. DOMAIN f = 1..Len(f)
    BY <2>2, <2>3, ForkIs, SeqFacts
  <2>5. f[i].parent = Null \/ f[i].parent \in Kept(o)
    BY <2>2, <2>3, <2>4, ForkClosed
  <2>6. \A u \in Kept(o) : \E j \in 1..Len(f) : f[j].uuid = u
    BY <2>2, <2>3, ForkClosed
  <2>. QED
    BY <2>4, <2>5, <2>6 DEF RefersTo
<1>. QED
  BY <1>1, <1>3, <1>4 DEF ForkSelfContained

LEMMA MirrorReads ==
    ASSUME LogTypes, Mirrored, imports = 0, sent = Len(log), ~gap
    PROVE  Follows(stored, log)
<1>1. PICK s : s = log
  OBVIOUS
<1>2. IsSeq(s)
  BY <1>1, LogIs
<1>3. SubSeq(s, 1, Len(s)) = s
  BY ONLY <1>2, PartWhole
<1>. QED
  BY <1>1, <1>3 DEF Mirrored, Beginning

LEMMA StoreReadsInv == LogInv => StoreReadsAlike
<1>. SUFFICES ASSUME LogInv, imports = 0, sent = Len(log), ~gap
              PROVE  /\ Messages(stored) = Messages(log)
                     /\ Messages(Fork(stored, Null)) = Messages(Fork(log, Null))
  BY DEF StoreReadsAlike
<1>1. PICK a, b : a = stored /\ b = log
  OBVIOUS
<1>2. Follows(a, b)
  BY <1>1, MirrorReads DEF LogInv
<1>. QED
  BY <1>1, <1>2, FollowsAlike, AlikeMessages, FollowsFork

LEMMA ImportHealsInv == LogInv => ImportHeals
<1>. SUFFICES ASSUME LogInv, caughtUp, ~imp.running
              PROVE  /\ Messages(stored) = Messages(log)
                     /\ SubagentMessages(stored) = SubagentMessages(log)
  BY DEF ImportHeals
<1>1. PICK a, b : a = stored /\ b = log
  OBVIOUS
<1>2. Follows(a, b)
  BY <1>1 DEF LogInv, ImportedAll
<1>. QED
  BY <1>1, <1>2, FollowsAlike, AlikeMessages, FollowsTalks

\* Where every line goes on from the one before, the path of the m-th has all m.
LEMMA LinearWalk ==
    ASSUME LogTypes, ~setup.branching, NEW t, t = log, NEW m \in 1..Len(t)
    PROVE  Walk(t, m) = [k \in 1..m |-> m + 1 - k]
<1>1. /\ Ordered(t) /\ Len(t) \in Nat /\ Uuids(t) = 1..Len(t)
      /\ \A i \in 1..Len(t) : ByUuid(t, i) = t[i]
  BY LogOrdered
<1>2. \A i \in 1..Len(t) : t[i].parent = i - 1
  BY DEF LogTypes, LogLines
<1>3. PICK up : up = Links(t)
  OBVIOUS
<1>4. Descending(up) /\ DOMAIN up = 1..Len(t) /\ \A i \in 1..Len(t) : up[i] = Parent(t, i)
  BY <1>1, <1>3, OrderedLinks
<1>5. \A i \in 1..Len(t) : up[i] = i - 1
  <2>. SUFFICES ASSUME NEW i \in 1..Len(t) PROVE up[i] = i - 1
    OBVIOUS
  <2>1. ByUuid(t, i).parent = i - 1
    BY <1>1, <1>2
  <2>2. i - 1 \in 1..Len(t) \/ i - 1 = 0
    BY <1>1
  <2>. QED
    BY <1>1, <1>4, <2>1, <2>2 DEF Parent, Null
<1>. DEFINE w == [k \in 1..m |-> m + 1 - k]
<1>6. IsSeq(w) /\ Len(w) = m
  BY <1>1, FunSeq
<1>7. \A k \in 1..m : w[k] = m + 1 - k /\ w[k] \in 1..Len(t)
  BY <1>1
<1>. HIDE DEF w
<1>8. Climbs(up, w, m)
  <2>1. 1 \in 1..m
    BY <1>1
  <2>2. w[1] = m /\ m # 0
    BY <1>1, <1>7, <2>1
  <2>3. \A k \in 1..(m - 1) : w[k + 1] = up[w[k]]
    <3>. SUFFICES ASSUME NEW k \in 1..(m - 1) PROVE w[k + 1] = up[w[k]]
      OBVIOUS
    <3>1. k \in 1..m /\ k + 1 \in 1..m
      BY <1>1
    <3>2. w[k + 1] = m + 1 - (k + 1) /\ w[k] = m + 1 - k /\ up[w[k]] = w[k] - 1
      BY <1>5, <1>7, <3>1
    <3>. QED
      BY <1>1, <3>2
  <2>. QED
    BY <1>4, <1>6, <1>7, <2>2, <2>3 DEF Climbs
<1>9. up[w[Len(w)]] = Null
  <2>1. m \in 1..m /\ m + 1 - m = 1 /\ 1 \in 1..Len(t) /\ 1 - 1 = 0
    BY <1>1
  <2>2. w[m] = 1
    BY <1>7, <2>1
  <2>. QED
    BY <1>5, <1>6, <2>1, <2>2 DEF Null
<1>10. m \in DOMAIN up /\ IsPath(up, w, m)
  BY <1>4, <1>8, <1>9 DEF IsPath
<1>11. w = Path(up, m)
  BY ONLY <1>4, <1>10, PathWhen
<1>. QED
  BY <1>3, <1>11 DEF Walk, w

LEMMA LinearShown ==
    ASSUME LogTypes, ~setup.branching
    PROVE  SubagentMessages(log) = Ids(Picked(log, {e \in Range(log) : Talk(e)}))
<1>1. PICK t : t = log
  OBVIOUS
<1>2. /\ IsSeq(t) /\ Len(t) \in Nat /\ Uuids(t) = 1..Len(t)
      /\ \A i \in 1..Len(t) : t[i].uuid = i
      /\ Talks(t) = {v \in 1..Len(t) : Talk(t[v])}
  BY <1>1, LogOrdered, LogVisibles
<1>3. PICK S, q : S = {e \in Range(t) : Talk(e)} /\ q = Picked(t, S)
  OBVIOUS
<1>4. Range(t) = {t[i] : i \in 1..Len(t)}
  BY <1>2, RangeIs
<1>5. PICK h : Embeds(q, t, S, Len(t), h)
  BY <1>2, <1>3, PickedIs DEF IsPicked
<1>6. /\ IsSeq(q) /\ Len(q) \in Nat /\ DOMAIN q = 1..Len(q)
      /\ h \in [1..Len(q) -> 1..Len(t)]
      /\ \A i, j \in 1..Len(q) : i < j => h[i] < h[j]
      /\ \A i \in 1..Len(q) : q[i] = t[h[i]] /\ q[i] \in S
      /\ \A k \in 1..Len(t) : t[k] \in S => \E i \in 1..Len(q) : h[i] = k
  BY <1>5, SeqFacts DEF Embeds
<1>7. \A i \in 1..Len(t) : t[i] \in S <=> Talk(t[i])
  BY <1>3, <1>4
<1>8. PICK d : d = Ids(q)
  OBVIOUS
<1>9. d = [i \in 1..Len(q) |-> q[i].uuid]
  BY <1>6, <1>8 DEF Ids
<1>10. IsSeq(d) /\ Len(d) = Len(q) /\ \A i \in 1..Len(q) : d[i] = h[i]
  <2>1. DOMAIN d = 1..Len(q) /\ d = [i \in 1..Len(q) |-> d[i]]
    BY <1>9
  <2>2. \A i \in 1..Len(q) : d[i] = h[i]
    <3>. SUFFICES ASSUME NEW i \in 1..Len(q) PROVE d[i] = h[i]
      OBVIOUS
    <3>1. h[i] \in 1..Len(t) /\ q[i] = t[h[i]]
      BY <1>6
    <3>. QED
      BY <1>2, <1>9, <3>1
  <2>. QED
    BY <1>6, <2>1, <2>2, FunSeq
<1>11. CASE \A i \in 1..Len(t) : ~Talk(t[i])
  <2>1. SubagentMessages(t) = <<>>
    BY <1>2, <1>11, NoTalk
  <2>2. Len(q) = 0
    <3>. SUFFICES ASSUME Len(q) # 0 PROVE FALSE
      OBVIOUS
    <3>1. 1 \in 1..Len(q)
      BY <1>6
    <3>2. q[1] = t[h[1]] /\ q[1] \in S /\ h[1] \in 1..Len(t)
      BY <1>6, <3>1
    <3>. QED
      BY <1>7, <1>11, <3>2
  <2>3. d = <<>>
    BY <1>10, <2>2, SeqFacts
  <2>. QED
    BY <1>1, <1>3, <1>8, <2>1, <2>3
<1>12. ASSUME NEW m \in 1..Len(t), Talk(t[m]), \A i \in 1..Len(t) : Talk(t[i]) => i <= m
       PROVE  SubagentMessages(t) = d
  <2>1. SubagentMessages(t) = Picked(Reverse(Walk(t, t[m].uuid)), Talks(t))
    BY ONLY <1>2, <1>12, LastTalk
  <2>2. PICK w, r : w = Walk(t, m) /\ r = Reverse(w)
    OBVIOUS
  <2>3. w = [k \in 1..m |-> m + 1 - k]
    BY <1>1, <2>2, LinearWalk
  <2>4. IsSeq(w) /\ Len(w) = m /\ \A k \in 1..m : w[k] = m + 1 - k
    <3>1. m \in Nat /\ DOMAIN w = 1..m /\ w = [k \in 1..m |-> w[k]]
      BY <1>2, <2>3
    <3>. QED
      BY <2>3, <3>1, FunSeq
  <2>5. IsSeq(r) /\ Len(r) = m /\ \A k \in 1..m : r[k] = k
    <3>1. IsSeq(r) /\ Len(r) = m /\ \A k \in 1..m : r[k] = w[m + 1 - k]
      <4>1. /\ IsSeq(Reverse(w)) /\ Len(Reverse(w)) = Len(w)
            /\ \A i \in 1..Len(w) : Reverse(w)[i] = w[Len(w) + 1 - i]
        BY ONLY <2>4, ReverseIs
      <4>. QED
        BY <2>2, <2>4, <4>1
    <3>2. \A k \in 1..m : m + 1 - k \in 1..m /\ m + 1 - (m + 1 - k) = k
      BY <1>2
    <3>. QED
      BY <2>4, <3>1, <3>2
  <2>6. Embeds(d, r, Talks(t), m, h)
    <3>1. \A i \in 1..Len(q) : h[i] \in 1..m /\ d[i] = r[h[i]] /\ d[i] \in Talks(t)
      <4>. SUFFICES ASSUME NEW i \in 1..Len(q)
                    PROVE  h[i] \in 1..m /\ d[i] = r[h[i]] /\ d[i] \in Talks(t)
        OBVIOUS
      <4>1. h[i] \in 1..Len(t) /\ Talk(t[h[i]])
        BY <1>6, <1>7
      <4>2. h[i] \in 1..m
        BY <1>2, <1>12, <4>1
      <4>. QED
        BY <1>2, <1>10, <2>5, <4>1, <4>2
    <3>2. h \in [1..Len(d) -> 1..m]
      <4>1. DOMAIN h = 1..Len(q) /\ h = [i \in 1..Len(q) |-> h[i]]
        BY <1>6
      <4>. QED
        BY <1>10, <3>1, <4>1
    <3>3. \A k \in 1..m : r[k] \in Talks(t) => \E i \in 1..Len(d) : h[i] = k
      <4>. SUFFICES ASSUME NEW k \in 1..m, r[k] \in Talks(t)
                    PROVE  \E i \in 1..Len(d) : h[i] = k
        OBVIOUS
      <4>1. k \in 1..Len(t) /\ Talk(t[k])
        BY <1>2, <2>5
      <4>. QED
        BY <1>6, <1>7, <1>10, <4>1
    <3>. QED
      BY <1>6, <1>10, <3>1, <3>2, <3>3 DEF Embeds
  <2>7. d = Picked(r, Talks(t))
    BY <2>5, <2>6, PickedWhen DEF IsPicked
  <2>8. t[m].uuid = m
    BY <1>2
  <2>. QED
    BY <2>1, <2>2, <2>7, <2>8
<1>. QED
  BY <1>1, <1>2, <1>3, <1>8, <1>11, <1>12, NoTalk

LEMMA LinearInv == LogInv => LinearShownInFull
<1>. SUFFICES ASSUME LogInv, ~setup.branching
              PROVE  /\ SubagentMessages(log) = Ids(Picked(log, {e \in Range(log) : Talk(e)}))
                     /\ imports = 0 /\ sent = Len(log) /\ ~gap =>
                            SubagentMessages(stored) = SubagentMessages(log)
  BY DEF LinearShownInFull
<1>1. ASSUME imports = 0, sent = Len(log), ~gap
      PROVE  SubagentMessages(stored) = SubagentMessages(log)
  <2>1. PICK a, b : a = stored /\ b = log
    OBVIOUS
  <2>2. Follows(a, b)
    BY <1>1, <2>1, MirrorReads DEF LogInv
  <2>. QED
    BY <2>1, <2>2, FollowsTalks
<1>. QED
  BY <1>1, LinearShown DEF LogInv

LEMMA LogInvariant == CopiesSpec => []LogInv
<1>1. CopiesInit => LogInv
  BY LogInit DEF CopiesInit
<1>2. LogInv /\ [CopiesNext]_<<vars, resumeVars>> => LogInv'
  BY LogNext DEF CopiesNext
<1>. QED
  BY <1>1, <1>2, PTL DEF CopiesSpec

\* The conversation shown of any transcript is the one that its newest visible
\* message ends, on whatever branch that is, unless messages that are not shown
\* go on from it (_build_conversation_chain()).
THEOREM NewestHolds == CopiesSpec => []NewestShown
<1>1. LogInv => NewestShown
  BY NewestShownInv DEF LogInv
<1>. QED
  BY <1>1, LogInvariant, PTL

\* A fork shows the conversation that it was made of, unless there are messages
\* of a team (TeamFree) or ones that are not shown behind the newest (TipShown);
\* a fork up to a message ends with it, unless there are messages of a team; and
\* every fork refers to nothing outside of itself (_build_fork_lines()).
THEOREM ForksHold == CopiesSpec => []ForkFaithful
<1>1. LogInv => ForkFaithful
  BY ForkShowsInv, ForkEndsInv, ForkSelfInv DEF LogInv, ForkFaithful
<1>. QED
  BY <1>1, LogInvariant, PTL

\* What the mirror has carried to a store without a loss reads and forks as the
\* file does, with entries delivered twice; and after an import that came to its
\* end the store reads as the file does, with gaps of the mirror and imports that
\* had failed before it.
THEOREM CopiesHold == CopiesSpec => []CopiesReadAlike
<1>1. LogInv => CopiesReadAlike
  BY StoreReadsInv, ImportHealsInv, LinearInv DEF CopiesReadAlike
<1>. QED
  BY <1>1, LogInvariant, PTL

-----------------------------------------------------------------------------
\* A resume (module Resume)

Pcs == {"idle", "named", "walking", "subkeys", "files", "ready", "fresh"}

ResumeTypes ==
    /\ plan \in Plans /\ host \in plan.hosts
    /\ NoSubpath \notin Paths
    /\ \A p \in Paths : File(disk[p])
    /\ DOMAIN shelf = plan.sessions \X ({NoSubpath} \cup Paths)
    /\ \A k \in DOMAIN shelf : IsSeq(shelf[k])
    /\ DOMAIN resume = {"pc", "left", "at", "whole"} /\ resume.pc \in Pcs
    /\ DOMAIN tree = DOMAIN NoTree

\* What was there when the resume began, and stayed, is still to be looked at.
Waiting ==
    /\ resume.pc = "idle" => steady = {}
    /\ resume.pc = "named" =>
          /\ plan.resume # Null /\ plan.resume \in plan.uuids
          /\ \A c \in steady : c[1] = plan.resume
          /\ steady # {} => shelf[MainOf(plan.resume)] # <<>>
    /\ resume.pc = "walking" =>
          /\ plan.resume = Null /\ steady \subseteq resume.left
          /\ \A c \in resume.left : c[1] \in plan.uuids
          /\ \A c \in steady : IsConversation(shelf[MainOf(c[1])])
    /\ resume.pc \in {"idle", "named", "walking", "fresh"} => tree.session = Null

PickInv == ResumeTypes /\ Waiting /\ ResumesNewest

-----------------------------------------------------------------------------
\* Entries are only appended to a transcript, unless the whole of it goes.
Grown ==
    /\ DOMAIN shelf' = DOMAIN shelf
    /\ \A j \in DOMAIN shelf :
          /\ IsSeq(shelf'[j])
          /\ shelf[j] # <<>> => shelf'[j] # <<>>
          /\ IsConversation(shelf[j]) => IsConversation(shelf'[j])

LEMMA SeqCat ==
    ASSUME NEW s, NEW e, IsSeq(s), IsSeq(e)
    PROVE  /\ IsSeq(s \o e)
           /\ s # <<>> => s \o e # <<>> /\ (s \o e)[1] = s[1]
<1>1. PICK U : s \in Seq(U) /\ e \in Seq(U)
  <2>1. s \in Seq(Range(s) \cup Range(e)) /\ e \in Seq(Range(s) \cup Range(e))
    BY DEF IsSeq
  <2>. QED
    BY <2>1
<1>2. s \o e \in Seq(U) /\ Len(s \o e) = Len(s) + Len(e)
  BY <1>1
<1>3. IsSeq(s \o e)
  BY <1>2, SeqIs
<1>4. s # <<>> => s \o e # <<>> /\ (s \o e)[1] = s[1]
  BY <1>1, <1>2
<1>. QED
  BY <1>3, <1>4

LEMMA Grows ==
    ASSUME ResumeTypes, NEW k, NEW e, IsSeq(e), shelf' = [shelf EXCEPT ![k] = @ \o e]
    PROVE  Grown
<1>1. DOMAIN shelf' = DOMAIN shelf
  OBVIOUS
<1>2. ASSUME NEW j \in DOMAIN shelf
      PROVE  /\ IsSeq(shelf'[j])
             /\ shelf[j] # <<>> => shelf'[j] # <<>>
             /\ IsConversation(shelf[j]) => IsConversation(shelf'[j])
  <2>1. IsSeq(shelf[j])
    BY DEF ResumeTypes
  <2>2. shelf'[j] = IF j = k THEN shelf[j] \o e ELSE shelf[j]
    OBVIOUS
  <2>. QED
    BY <2>1, <2>2, SeqCat DEF IsConversation
<1>. QED
  BY <1>1, <1>2 DEF Grown

LEMMA MainIn ==
    ASSUME ResumeTypes, NEW s \in plan.sessions
    PROVE  MainOf(s) \in DOMAIN shelf
  BY DEF ResumeTypes, MainOf

LEMMA PlanOf ==
    ASSUME ResumeTypes
    PROVE  Plan(plan) /\ Host(host)
  BY ResumeAssumption DEF ResumeTypes, Plan

\* A step that only appends to a transcript.
Others == <<plan, host, resume, tree, steady>>
LEMMA AppendKeeps ==
    ASSUME PickInv, Grown, UNCHANGED Others,
           DOMAIN disk' = DOMAIN disk, \A p \in DOMAIN disk : File(disk'[p])
    PROVE  PickInv'
<1>. USE DEF Others
<1>1. ResumeTypes'
  BY DEF PickInv, ResumeTypes, Grown, Paths
<1>2. Waiting'
  <2>1. \A s \in plan.sessions : MainOf(s) \in DOMAIN shelf
    BY MainIn DEF PickInv
  <2>2. plan.uuids \subseteq plan.sessions
    BY PlanOf DEF PickInv, Plan
  <2>. USE <2>1, <2>2 DEF PickInv
  <2>3. steady' = {} <=> steady = {}
    OBVIOUS
  <2>4. resume.pc = "named" => (resume.pc = "named" /\ plan.resume \in plan.sessions)
    BY DEF Waiting
  <2>5. resume.pc = "walking" => \A c \in steady : c[1] \in plan.sessions
    BY DEF Waiting
  <2>6. \A s \in plan.sessions : MainOf(s)' = MainOf(s)
    BY DEF MainOf
  <2>7. \A s \in plan.sessions :
            /\ shelf[MainOf(s)] # <<>> => shelf'[MainOf(s)] # <<>>
            /\ IsConversation(shelf[MainOf(s)]) => IsConversation(shelf'[MainOf(s)])
    BY DEF Grown
  <2>. QED
    BY <2>4, <2>5, <2>6, <2>7 DEF Waiting, MainOf
<1>3. ResumesNewest'
  BY DEF PickInv, ResumesNewest, IsConversation
<1>. QED
  BY <1>1, <1>2, <1>3 DEF PickInv

LEMMA CliWritesKeeps ==
    ASSUME PickInv, NEW p \in Paths, NEW type \in plan.types, CliWrites(p, type)
    PROVE  PickInv'
<1>1. PICK line : /\ disk' = [disk EXCEPT ![p].lines = Append(@, line)]
                  /\ AppendTo(KeyOf(p), <<line>>) /\ line.type = type
  <2>1. PICK x : x = [uuid |-> Len(disk[p].lines) + 1, parent |-> Len(disk[p].lines),
                      type |-> type, flag |-> "side"]
    OBVIOUS
  <2>2. x.type = type
    BY <2>1
  <2>3. disk' = [disk EXCEPT ![p].lines = Append(@, x)] /\ AppendTo(KeyOf(p), <<x>>)
    BY <2>1 DEF CliWrites
  <2>. QED
    BY <2>2, <2>3
<1>0. ~IsMeta(line)
  BY <1>1, PlanOf DEF PickInv, Plan, IsMeta
<1>2. PICK k : shelf' = [shelf EXCEPT ![k] = @ \o <<line>>]
  BY <1>1 DEF AppendTo
<1>3. Grown
  BY <1>2, OneIs, Grows DEF PickInv
<1>4. File(disk[p])
  BY DEF PickInv, ResumeTypes
<1>5. File([disk[p] EXCEPT !.lines = Append(@, line)])
  <2>1. PICK s, t : s = disk[p].lines /\ t = Append(s, line)
    OBVIOUS
  <2>2. IsSeq(s) /\ \A i \in DOMAIN s : ~IsMeta(s[i])
    BY <1>4, <2>1 DEF File
  <2>3. IsSeq(t) /\ \A i \in DOMAIN t : t[i] = line \/ \E j \in DOMAIN s : t[i] = s[j]
    <3>1. /\ IsSeq(t) /\ Len(t) = Len(s) + 1 /\ Len(s) \in Nat
          /\ \A i \in 1..Len(s) : t[i] = s[i]
          /\ t[Len(s) + 1] = line
      <4>1. IsSeq(s)
        BY <2>2
      <4>2. /\ IsSeq(Append(s, line)) /\ Len(Append(s, line)) = Len(s) + 1
            /\ \A i \in 1..Len(s) : Append(s, line)[i] = s[i]
            /\ Append(s, line)[Len(s) + 1] = line
        BY ONLY <4>1, AppendIs
      <4>3. Len(s) \in Nat
        BY <4>1, SeqFacts
      <4>. QED
        BY <2>1, <4>2, <4>3
    <3>2. DOMAIN t = 1..(Len(s) + 1) /\ DOMAIN s = 1..Len(s)
      BY <2>2, <3>1, SeqFacts
    <3>. QED
      BY <3>1, <3>2
  <2>4. \A i \in DOMAIN t : ~IsMeta(t[i])
    BY <1>0, <2>2, <2>3
  <2>5. PICK f : f = [disk[p] EXCEPT !.lines = Append(@, line)]
    OBVIOUS
  <2>6. f.lines = t /\ DOMAIN f = DOMAIN NoFile
    BY <1>4, <2>1, <2>5 DEF File, NoFile
  <2>7. File(f)
    BY <2>3, <2>4, <2>6 DEF File
  <2>. QED
    BY <2>5, <2>7
<1>6. \A q \in Paths : disk'[q] = IF q = p THEN [disk[p] EXCEPT !.lines = Append(@, line)]
                                   ELSE disk[q]
  BY <1>1 DEF Paths
<1>7. DOMAIN disk' = DOMAIN disk /\ \A q \in DOMAIN disk : File(disk'[q])
  <2>2. \A q \in Paths : File(disk[q])
    BY DEF PickInv, ResumeTypes
  <2>. QED
    BY <1>1, <1>5, <1>6, <2>2 DEF Paths
<1>. QED
  BY <1>3, <1>7, AppendKeeps DEF CliWrites, Others

LEMMA CliWritesMetaKeeps ==
    ASSUME PickInv, NEW p \in Paths, NEW tool, CliWritesMeta(p, tool)
    PROVE  PickInv'
<1>1. PICK m : disk' = [disk EXCEPT ![p].meta = m]
               /\ AppendTo(KeyOf(p), <<MetaEntry(m)>>)
  BY DEF CliWritesMeta
<1>2. PICK k : shelf' = [shelf EXCEPT ![k] = @ \o <<MetaEntry(m)>>]
  BY <1>1 DEF AppendTo
<1>3. Grown
  BY <1>2, OneIs, Grows DEF PickInv
<1>4. File(disk[p])
  BY DEF PickInv, ResumeTypes
<1>6. \A q \in Paths : disk'[q] = IF q = p THEN [disk[p] EXCEPT !.meta = m] ELSE disk[q]
  BY <1>1 DEF Paths
<1>7. DOMAIN disk' = DOMAIN disk /\ \A q \in DOMAIN disk : File(disk'[q])
  <2>1. File([disk[p] EXCEPT !.meta = m])
    BY <1>4 DEF File, NoFile
  <2>2. \A q \in Paths : File(disk[q])
    BY DEF PickInv, ResumeTypes
  <2>. QED
    BY <1>1, <1>6, <2>1, <2>2 DEF Paths
<1>. QED
  BY <1>3, <1>7, AppendKeeps DEF CliWritesMeta, Others

\* The disk stays, and entries e are appended to k.
LEMMA OnlyAppends ==
    ASSUME PickInv, UNCHANGED <<plan, host, disk, resume, tree, steady>>,
           NEW k, NEW e, IsSeq(e), shelf' = [shelf EXCEPT ![k] = @ \o e]
    PROVE  PickInv'
<1>1. Grown
  BY Grows DEF PickInv
<1>2. \A p \in DOMAIN disk : File(disk'[p])
  BY DEF PickInv, ResumeTypes, Paths
<1>. QED
  BY <1>1, <1>2, AppendKeeps DEF Others

LEMMA NothingAppended ==
    ASSUME PickInv, UNCHANGED <<plan, host, disk, shelf, resume, tree, steady>>
    PROVE  PickInv'
<1>1. Grown
  BY DEF PickInv, ResumeTypes, Grown, IsConversation
<1>2. \A p \in DOMAIN disk : File(disk'[p])
  BY DEF PickInv, ResumeTypes, Paths
<1>. QED
  BY <1>1, <1>2, AppendKeeps DEF Others

LEMMA OthersAppendKeeps ==
    ASSUME PickInv, NEW s, NEW flag, OthersAppend(s, flag)
    PROVE  PickInv'
<1>1. PICK e : AppendTo(MainOf(s), <<e>>)
  BY DEF OthersAppend
<1>2. PICK k : shelf' = [shelf EXCEPT ![k] = @ \o <<e>>]
  BY <1>1 DEF AppendTo
<1>. QED
  BY <1>2, OneIs, OnlyAppends DEF OthersAppend

LEMMA ImportKeeps ==
    ASSUME PickInv, \/ ImportBegins \/ ImportsSidecar \/ ImportStops \/ ImportReturns
                    \/ \E p \in Paths : ImportsFile(p)
    PROVE  PickInv'
<1>1. CASE ImportBegins
  <2>1. PICK e : e = plan.main /\ AppendTo(MainOf(plan.current), e)
    BY <1>1 DEF ImportBegins
  <2>2. PICK k : shelf' = [shelf EXCEPT ![k] = @ \o e]
    BY <2>1 DEF AppendTo
  <2>3. IsSeq(e)
    BY <2>1, PlanOf DEF PickInv, Plan
  <2>. QED
    BY <1>1, <2>2, <2>3, OnlyAppends DEF ImportBegins
<1>2. CASE \E p \in Paths : ImportsFile(p)
  <2>0. PICK p \in Paths : ImportsFile(p)
    BY <1>2
  <2>1. PICK e : e = disk[p].lines /\ AppendTo(KeyOf(p), e)
    BY <2>0 DEF ImportsFile
  <2>2. PICK k : shelf' = [shelf EXCEPT ![k] = @ \o e]
    BY <2>1 DEF AppendTo
  <2>3. IsSeq(e)
    BY <2>1 DEF PickInv, ResumeTypes, File
  <2>. QED
    BY <2>0, <2>2, <2>3, OnlyAppends DEF ImportsFile
<1>3. CASE ImportsSidecar
  <2>1. PICK m : m = Imported(disk[importer.at].meta)
    OBVIOUS
  <2>2. CASE m = <<>>
    BY <1>3, <2>1, <2>2, NothingAppended DEF ImportsSidecar
  <2>3. CASE m # <<>>
    <3>1. PICK e : m = <<e>>
      BY <2>1, <2>3 DEF Imported
    <3>2. AppendTo(KeyOf(importer.at), m)
      BY <1>3, <2>1, <2>3 DEF ImportsSidecar
    <3>3. PICK k : shelf' = [shelf EXCEPT ![k] = @ \o m]
      BY <3>2 DEF AppendTo
    <3>. QED
      BY <1>3, <3>1, <3>3, OneIs, OnlyAppends DEF ImportsSidecar
  <2>. QED
    BY <2>2, <2>3
<1>4. CASE ImportStops \/ ImportReturns
  BY <1>4, NothingAppended DEF ImportStops, ImportReturns
<1>. QED
  BY <1>1, <1>2, <1>3, <1>4

LEMMA OthersDeleteKeeps ==
    ASSUME PickInv, NEW s, OthersDelete(s)
    PROVE  PickInv'
<1>. USE DEF PickInv
<1>1. /\ shelf' = [shelf EXCEPT ![MainOf(s)] = <<>>]
      /\ steady' = {c \in steady : c[1] # s}
      /\ UNCHANGED <<plan, host, disk, resume, tree>>
  BY DEF OthersDelete
<1>2. DOMAIN shelf' = DOMAIN shelf /\ \A k \in DOMAIN shelf : IsSeq(shelf'[k])
  <2>1. IsSeq(<<>>)
    BY DEF IsSeq
  <2>. QED
    BY <1>1, <2>1 DEF ResumeTypes
<1>3. ResumeTypes'
  BY <1>1, <1>2 DEF ResumeTypes, Paths
<1>4. \A c \in steady' : c \in steady /\ MainOf(c[1]) # MainOf(s)
  BY <1>1 DEF MainOf
<1>5. \A c \in steady' : shelf'[MainOf(c[1])] = shelf[MainOf(c[1])]
  BY <1>1, <1>4
<1>6. Waiting'
  <2>1. resume.pc = "named" /\ steady' # {} => shelf'[MainOf(plan.resume)] # <<>>
    <3>1. SUFFICES ASSUME resume.pc = "named", NEW c \in steady'
                   PROVE  shelf'[MainOf(plan.resume)] # <<>>
      OBVIOUS
    <3>2. c[1] = plan.resume /\ shelf[MainOf(plan.resume)] # <<>>
      BY <1>4, <3>1 DEF Waiting
    <3>. QED
      BY <1>5, <3>2
  <2>2. resume.pc = "walking" => \A c \in steady' : IsConversation(shelf'[MainOf(c[1])])
    BY <1>4, <1>5 DEF Waiting
  <2>. QED
    BY <1>1, <1>4, <2>1, <2>2 DEF Waiting, MainOf, IsConversation
<1>7. ResumesNewest'
  BY <1>1, <1>4 DEF ResumesNewest, IsConversation
<1>. QED
  BY <1>3, <1>6, <1>7

\* A step of the resume, which reads the store and leaves it.
Looks == UNCHANGED <<plan, host, disk, shelf>>
LEMMA LooksKeeps ==
    ASSUME PickInv, Looks, DOMAIN resume' = DOMAIN resume, resume'.pc \in Pcs,
           DOMAIN tree' = DOMAIN tree
    PROVE  ResumeTypes'
  BY DEF PickInv, ResumeTypes, Looks, Paths

LEMMA ResumeBeginsKeeps ==
    ASSUME PickInv, ResumeBegins
    PROVE  PickInv'
<1>. USE DEF PickInv
<1>0. resume.pc = "idle" /\ tree.session = Null /\ UNCHANGED tree /\ Looks
  BY DEF ResumeBegins, Waiting, Looks
<1>d. DOMAIN resume = {"pc", "left", "at", "whole"}
  BY DEF ResumeTypes
<1>1. CASE plan.resume # Null
  <2>1. /\ resume' = [resume EXCEPT !.whole = carried, !.pc =
                        IF plan.resume \in plan.uuids THEN "named" ELSE "fresh"]
        /\ steady' = {c \in {<<plan.resume, 0>>} :
                         c[1] \in plan.uuids /\ shelf[MainOf(c[1])] # <<>>}
    BY <1>1 DEF ResumeBegins
  <2>2. resume'.pc = IF plan.resume \in plan.uuids THEN "named" ELSE "fresh"
    BY <2>1, <1>d
  <2>3. steady' # {} => plan.resume \in plan.uuids /\ shelf[MainOf(plan.resume)] # <<>>
    BY <2>1
  <2>4. \A c \in steady' : c = <<plan.resume, 0>>
    BY <2>1
  <2>5. DOMAIN resume' = DOMAIN resume
    BY <2>1
  <2>6. ResumeTypes'
    BY <1>0, <2>2, <2>5, LooksKeeps DEF Pcs
  <2>7. Waiting'
    BY <1>0, <1>1, <2>2, <2>3, <2>4 DEF Waiting, Looks, MainOf
  <2>8. ResumesNewest'
    BY <1>0, <2>2, <2>3 DEF ResumesNewest
  <2>. QED
    BY <2>6, <2>7, <2>8
<1>2. CASE plan.resume = Null
  <2>1. PICK listed, uuids :
           /\ uuids = {c \in listed : c[1] \in plan.uuids}
           /\ resume' = [resume EXCEPT !.whole = carried, !.pc = "walking", !.left = uuids]
           /\ steady' = {c \in uuids : IsConversation(shelf[MainOf(c[1])])}
    BY <1>2 DEF ResumeBegins
  <2>2. resume'.pc = "walking" /\ resume'.left = uuids /\ DOMAIN resume' = DOMAIN resume
    BY <2>1, <1>d
  <2>6. ResumeTypes'
    BY <1>0, <2>2, LooksKeeps DEF Pcs
  <2>7. Waiting'
    BY <1>0, <1>2, <2>1, <2>2 DEF Waiting, Looks, MainOf, IsConversation
  <2>8. ResumesNewest'
    BY <1>0, <2>2 DEF ResumesNewest
  <2>. QED
    BY <2>6, <2>7, <2>8
<1>. QED
  BY <1>1, <1>2

LEMMA WritesIs ==
    ASSUME ResumeTypes, NEW c, NEW entries, Writes(c, entries)
    PROVE  /\ tree'.session = c[1] /\ tree'.main = entries
           /\ DOMAIN tree' = DOMAIN tree /\ DOMAIN resume' = DOMAIN resume
           /\ resume'.at = c /\ resume'.pc \in {"subkeys", "ready"}
<1>1. PICK settings, files, credentials :
         tree' = [tree EXCEPT !.session = c[1], !.main = entries, !.files = files,
                              !.credentials = credentials, !.settings = settings]
  BY DEF Writes
<1>2. resume' = [resume EXCEPT !.at = c, !.left = {},
                               !.pc = IF plan.subkeys THEN "subkeys" ELSE "ready"]
  BY DEF Writes
<1>3. DOMAIN tree = {"session", "main", "files", "credentials", "settings"}
  BY DEF ResumeTypes, NoTree
<1>4. DOMAIN resume = {"pc", "left", "at", "whole"}
  BY DEF ResumeTypes
<1>5. tree'.session = c[1] /\ tree'.main = entries /\ DOMAIN tree' = DOMAIN tree
  BY <1>1, <1>3
<1>6. DOMAIN resume' = DOMAIN resume /\ resume'.at = c /\ resume'.pc \in {"subkeys", "ready"}
  BY <1>2, <1>4
<1>. QED
  BY <1>5, <1>6

LEMMA LoadsNamedKeeps ==
    ASSUME PickInv, LoadsNamed
    PROVE  PickInv'
<1>. USE DEF PickInv
<1>0. resume.pc = "named" /\ Looks /\ UNCHANGED steady
  BY DEF LoadsNamed, Looks
<1>1. plan.resume # Null /\ plan.resume \in plan.uuids /\ tree.session = Null
  BY <1>0 DEF Waiting
<1>2. CASE shelf[MainOf(plan.resume)] = <<>>
  <2>1. resume' = [resume EXCEPT !.pc = "fresh"] /\ UNCHANGED tree
    BY <1>2 DEF LoadsNamed
  <2>2. resume'.pc = "fresh" /\ DOMAIN resume' = DOMAIN resume
    BY <2>1 DEF ResumeTypes
  <2>3. steady = {}
    BY <1>0, <1>2 DEF Waiting
  <2>4. ResumeTypes'
    BY <1>0, <2>1, <2>2, LooksKeeps DEF Pcs
  <2>. QED
    BY <1>0, <1>1, <2>1, <2>2, <2>3, <2>4 DEF Waiting, ResumesNewest
<1>3. CASE shelf[MainOf(plan.resume)] # <<>>
  <2>1. PICK c, entries : c = <<plan.resume, 0>> /\ Writes(c, entries)
    BY <1>3 DEF LoadsNamed
  <2>2. /\ tree'.session = plan.resume /\ DOMAIN tree' = DOMAIN tree
        /\ DOMAIN resume' = DOMAIN resume /\ resume'.pc \in {"subkeys", "ready"}
    BY <2>1, WritesIs
  <2>3. ResumeTypes'
    BY <1>0, <2>2, LooksKeeps DEF Pcs
  <2>4. Waiting' /\ ResumesNewest'
    BY <1>0, <1>1, <2>2 DEF Waiting, ResumesNewest, Looks
  <2>. QED
    BY <2>3, <2>4
<1>. QED
  BY <1>2, <1>3

LEMMA LoadsCandidateKeeps ==
    ASSUME PickInv, NEW c \in resume.left, LoadsCandidate(c)
    PROVE  PickInv'
<1>. USE DEF PickInv
<1>0. resume.pc = "walking" /\ IsNext(c) /\ Looks /\ UNCHANGED steady
  BY DEF LoadsCandidate, Looks
<1>1. /\ plan.resume = Null /\ steady \subseteq resume.left /\ c[1] \in plan.uuids
      /\ tree.session = Null
  BY <1>0 DEF Waiting
<1>2. CASE ~IsCandidate(shelf[MainOf(c[1])])
  <2>1. resume' = [resume EXCEPT !.left = @ \ {c}] /\ UNCHANGED tree
    BY <1>2 DEF LoadsCandidate
  <2>2. resume'.pc = "walking" /\ resume'.left = resume.left \ {c}
        /\ DOMAIN resume' = DOMAIN resume
    BY <1>0, <2>1 DEF ResumeTypes
  <2>3. c \notin steady
    BY <1>0, <1>2 DEF Waiting, IsCandidate
  <2>4. ResumeTypes'
    BY <1>0, <2>1, <2>2, LooksKeeps DEF Pcs
  <2>5. Waiting'
    BY <1>0, <1>1, <2>1, <2>2, <2>3 DEF Waiting, Looks, MainOf, IsConversation
  <2>6. ResumesNewest'
    BY <1>1, <2>1, <2>2 DEF ResumesNewest
  <2>. QED
    BY <2>4, <2>5, <2>6
<1>3. CASE IsCandidate(shelf[MainOf(c[1])])
  <2>1. PICK entries : entries = shelf[MainOf(c[1])] /\ Writes(c, entries)
    BY <1>3 DEF LoadsCandidate
  <2>2. /\ tree'.session = c[1] /\ tree'.main = entries /\ DOMAIN tree' = DOMAIN tree
        /\ DOMAIN resume' = DOMAIN resume /\ resume'.at = c
        /\ resume'.pc \in {"subkeys", "ready"}
    BY <2>1, WritesIs
  <2>3. ResumeTypes'
    BY <1>0, <2>2, LooksKeeps DEF Pcs
  <2>4. \A d \in steady : d[2] <= c[2]
    BY <1>0, <1>1 DEF IsNext
  <2>5. IsConversation(entries)
    BY <1>3, <2>1 DEF IsCandidate
  <2>6. Waiting'
    BY <1>0, <2>2 DEF Waiting
  <2>7. ResumesNewest'
    BY <1>0, <1>1, <2>2, <2>4, <2>5 DEF ResumesNewest, Looks, IsConversation
  <2>. QED
    BY <2>3, <2>6, <2>7
<1>. QED
  BY <1>2, <1>3

\* What follows the pick leaves it as it is.
LEMMA LoadingKeeps ==
    ASSUME PickInv, \/ NoCandidate \/ ListsSubkeys \/ Materialized
                    \/ \E p \in Paths : LoadsSubkey(p)
    PROVE  PickInv'
<1>. USE DEF PickInv
<1>d. /\ DOMAIN resume = {"pc", "left", "at", "whole"}
      /\ DOMAIN tree = {"session", "main", "files", "credentials", "settings"}
  BY DEF ResumeTypes, NoTree
<1>1. CASE NoCandidate
  <2>1. /\ resume.pc = "walking" /\ resume.left = {} /\ Looks /\ UNCHANGED <<tree, steady>>
        /\ resume' = [resume EXCEPT !.pc = "fresh"]
    BY <1>1 DEF NoCandidate, Looks
  <2>2. resume'.pc = "fresh" /\ DOMAIN resume' = DOMAIN resume
    BY <2>1, <1>d
  <2>3. ResumeTypes'
    BY <2>1, <2>2, LooksKeeps DEF Pcs
  <2>4. steady = {} /\ tree.session = Null
    BY <2>1 DEF Waiting
  <2>. QED
    BY <2>1, <2>2, <2>3, <2>4 DEF Waiting, ResumesNewest
<1>2. CASE ListsSubkeys \/ Materialized \/ \E p \in Paths : LoadsSubkey(p)
  <2>1. resume.pc \in {"subkeys", "files"}
    BY <1>2 DEF ListsSubkeys, Materialized, LoadsSubkey
  <2>2. /\ resume'.pc \in {"files", "ready"} /\ resume'.at = resume.at
        /\ DOMAIN resume' = DOMAIN resume
    <3>1. CASE ListsSubkeys
      <4>1. PICK left : resume' = [resume EXCEPT !.pc = "files", !.left = left]
        BY <3>1 DEF ListsSubkeys
      <4>. QED
        BY <4>1, <1>d
    <3>2. CASE Materialized
      BY <3>2, <1>d DEF Materialized
    <3>3. CASE \E p \in Paths : LoadsSubkey(p)
      <4>1. PICK left : resume.pc = "files" /\ resume' = [resume EXCEPT !.left = left]
        BY <3>3 DEF LoadsSubkey
      <4>. QED
        BY <4>1, <1>d
    <3>. QED
      BY <1>2, <3>1, <3>2, <3>3
  <2>3. DOMAIN tree' = DOMAIN tree /\ tree'.session = tree.session /\ tree'.main = tree.main
    <3>1. UNCHANGED tree \/ \E p, f : tree' = [tree EXCEPT !.files[p] = f]
      BY <1>2 DEF ListsSubkeys, Materialized, LoadsSubkey
    <3>. QED
      BY <3>1, <1>d
  <2>4. Looks /\ UNCHANGED steady
    BY <1>2 DEF ListsSubkeys, Materialized, LoadsSubkey, Looks
  <2>5. ResumeTypes'
    BY <2>1, <2>2, <2>3, <2>4, LooksKeeps DEF Pcs
  <2>6. Waiting'
    BY <2>1, <2>2 DEF Waiting
  <2>7. ResumesNewest'
    BY <2>1, <2>2, <2>3, <2>4 DEF ResumesNewest, Looks, IsConversation
  <2>. QED
    BY <2>5, <2>6, <2>7
<1>. QED
  BY <1>1, <1>2

LEMMA PickInvariant == CopiesSpec => []PickInv
<1>1. CopiesInit => PickInv
  <2>. SUFFICES ASSUME CopiesInit PROVE PickInv
    OBVIOUS
  <2>1. ResumeInit
    BY DEF CopiesInit
  <2>2. Plan(plan)
    BY <2>1, ResumeAssumption DEF ResumeInit
  <2>3. resume.pc = "idle" /\ tree = NoTree /\ tree.session = Null /\ steady = {}
    BY <2>1 DEF ResumeInit, NoTree
  <2>4. ResumeTypes
    BY <2>1, <2>2, <2>3 DEF ResumeInit, ResumeTypes, Plan, Pcs, Paths
  <2>. QED
    BY <2>3, <2>4 DEF PickInv, Waiting, ResumesNewest
<1>2. PickInv /\ [CopiesNext]_<<vars, resumeVars>> => PickInv'
  <2>. SUFFICES ASSUME PickInv, [CopiesNext]_<<vars, resumeVars>>
                PROVE  PickInv'
    OBVIOUS
  <2>1. CASE UNCHANGED resumeVars
    BY <2>1, NothingAppended DEF resumeVars
  <2>2. CASE ResumeNext
    <3>1. ASSUME NEW p \in AgentPaths, NEW type \in plan.types, CliWrites(p, type) PROVE PickInv'
      BY <3>1, CliWritesKeeps DEF AgentPaths
    <3>2. ASSUME NEW p \in AgentPaths, NEW tool, CliWritesMeta(p, tool) PROVE PickInv'
      BY <3>2, CliWritesMetaKeeps DEF AgentPaths
    <3>3. ASSUME \/ ImportBegins \/ ImportsSidecar \/ ImportStops \/ ImportReturns
                 \/ \E p \in AgentPaths : ImportsFile(p)
          PROVE  PickInv'
      BY <3>3, ImportKeeps DEF AgentPaths
    <3>. QED
      BY <2>2, <3>1, <3>2, <3>3, OthersAppendKeeps, OthersDeleteKeeps, ResumeBeginsKeeps,
         LoadsNamedKeeps, LoadsCandidateKeeps, LoadingKeeps
         DEF ResumeNext
  <2>. QED
    BY <2>1, <2>2 DEF CopiesNext
<1>. QED
  BY <1>1, <1>2, PTL DEF CopiesSpec

\* A resume picks the session that was written last, or the one it was given,
\* whatever the store, the plan and the others that write and delete: no
\* conversation that stayed is passed over (_resolve_continue_candidate()). Loads
\* that raise or hang are not here: they end the resume (ClientSession).
THEOREM NewestIsResumed == CopiesSpec => []ResumesNewest
<1>1. PickInv => ResumesNewest
  BY DEF PickInv
<1>. QED
  BY <1>1, PickInvariant, PTL

-----------------------------------------------------------------------------
\* What the store has of a subagent, k, and its file and sidecar, f.
CopyLines(k, f) == Follows(LinesOf(k), f.lines)
CopyExact(k, f) == CopyLines(k, f) /\ MetadataOf(k) = f.meta
CopyPart(k, f) ==
    /\ MetadataOf(k) \in {NoMeta, f.meta}
    /\ LinesOf(k) = <<>> \/ CopyLines(k, f)
CopyWhole(k, f) ==
    /\ CopyLines(k, f) /\ MetadataOf(k) \in {NoMeta, f.meta}
    /\ f.lines # <<>> /\ f.meta.is = "object" => MetadataOf(k) = f.meta

Shelved(p) == shelf[KeyOf(p)]

CarryTypes ==
    /\ DOMAIN disk = DOMAIN plan.disk
    /\ DOMAIN importer = {"pc", "left", "at", "runs"}
    /\ importer.pc \in {"idle", "next", "sidecar"}
    /\ importer.pc # "idle" => importer.left \subseteq AgentPaths
    /\ importer.pc = "sidecar" => importer.at \in AgentPaths
    /\ resume.whole => carried
    /\ DOMAIN versions = Paths /\ \A p \in Paths : disk[p] \in versions[p]

\* A mirror keeps up; an import brings the subagents one by one, also again.
ByMirror ==
    plan.mirrored => importer.pc = "idle" /\ \A p \in AgentPaths : CopyExact(Shelved(p), disk[p])
Coming(p) ==
    \/ p \in importer.left
    \/ importer.pc = "sidecar" /\ p = importer.at /\ CopyLines(Shelved(p), disk[p])
    \/ CopyWhole(Shelved(p), disk[p])
ByImport ==
    ~plan.mirrored => \A p \in AgentPaths :
        /\ CopyPart(Shelved(p), disk[p])
        /\ importer.pc # "idle" => Coming(p)
        /\ carried => CopyWhole(Shelved(p), disk[p])

\* What the resume has put into its directory.
Shown(p) == \E f \in versions[p] :
    ReadFile(tree.files[p]) = ReadFile(f) /\ (tree.files[p].lines = <<>> <=> f.lines = <<>>)
Configured ==
    /\ tree.credentials = Redacted(CredentialsOf(host))
    /\ tree.settings \in {"none", Stripped(Readable(host.settings))}
    /\ DOMAIN tree.files = Paths
    /\ \A p \in Paths : tree.files[p] # NoFile => IsSafe(p)
Loading ==
    /\ resume.pc = "subkeys" => \A p \in Paths : tree.files[p] = NoFile
    /\ (/\ resume.pc \in {"files", "ready"} /\ plan.subkeys
        /\ resume.whole /\ tree.session = plan.current) =>
           \A p \in AgentPaths : Shown(p) \/ (resume.pc = "files" /\ p \in resume.left)
TreeInv == resume.pc \in {"subkeys", "files", "ready"} => Configured /\ Loading

StoreInv == CarryTypes /\ ByMirror /\ ByImport
CarryInv == StoreInv /\ TreeInv

LEMMA LinesSeq ==
    ASSUME NEW s, IsSeq(s)
    PROVE  IsSeq(LinesOf(s))
  BY PickedSeq DEF LinesOf

LEMMA LinesCat ==
    ASSUME NEW s, NEW e, IsSeq(s), IsSeq(e)
    PROVE  LinesOf(s \o e) = LinesOf(s) \o LinesOf(e)
<1>1. PICK S, T, V : /\ S = {x \in Range(s \o e) : ~IsMeta(x)}
                     /\ T = {x \in Range(s) : ~IsMeta(x)}
                     /\ V = {x \in Range(e) : ~IsMeta(x)}
  OBVIOUS
<1>2. Range(s \o e) = Range(s) \cup Range(e)
  BY CatRange
<1>3. (\A x \in Range(s) : x \in S <=> x \in T) /\ (\A x \in Range(e) : x \in S <=> x \in V)
  BY <1>1, <1>2
<1>4. Picked(s, S) = Picked(s, T) /\ Picked(e, S) = Picked(e, V)
  BY ONLY <1>3, IsSeq(s), IsSeq(e), PickedSame
<1>5. Picked(s \o e, S) = Picked(s, S) \o Picked(e, S)
  BY PickedCat
<1>. QED
  BY <1>1, <1>4, <1>5 DEF LinesOf

LEMMA LinesPlain ==
    ASSUME NEW e, IsSeq(e), \A i \in DOMAIN e : ~IsMeta(e[i])
    PROVE  LinesOf(e) = e
<1>1. PICK S : S = {x \in Range(e) : ~IsMeta(x)}
  OBVIOUS
<1>2. Range(e) \subseteq S
  BY <1>1 DEF Range
<1>3. Picked(e, S) = e
  BY <1>2, PickedAll
<1>. QED
  BY <1>1, <1>3 DEF LinesOf

LEMMA EmptyIs == IsSeq(<<>>) /\ LinesOf(<<>>) = <<>> /\ MetadataOf(<<>>) = NoMeta
<1>1. IsSeq(<<>>) /\ \A i \in DOMAIN <<>> : ~IsMeta(<<>>[i])
  BY DEF IsSeq
<1>2. PICK e : e = <<>>
  OBVIOUS
<1>3. LinesOf(e) = e
  BY <1>1, <1>2, LinesPlain
<1>4. Metas(e) = {}
  BY <1>1, <1>2 DEF Metas
<1>. QED
  BY <1>1, <1>2, <1>3, <1>4 DEF MetadataOf

LEMMA LinesMeta ==
    ASSUME NEW s, IsSeq(s), NEW m
    PROVE  LinesOf(s \o <<MetaEntry(m)>>) = LinesOf(s)
<1>1. PICK x, e : x = MetaEntry(m) /\ e = <<x>>
  OBVIOUS
<1>2. IsMeta(x)
  BY <1>1 DEF MetaEntry, IsMeta
<1>3. IsSeq(e) /\ Range(e) = {x}
  BY <1>1, OneIs
<1>4. PICK S : S = {y \in Range(e) : ~IsMeta(y)}
  OBVIOUS
<1>5. Range(e) \cap S = {}
  BY <1>2, <1>3, <1>4
<1>6. Picked(e, S) = <<>>
  BY <1>3, <1>5, PickedNone
<1>7. LinesOf(s \o e) = LinesOf(s) \o <<>>
  BY <1>3, <1>4, <1>6, LinesCat DEF LinesOf
<1>8. LinesOf(s) \in Seq(Range(LinesOf(s)))
  BY LinesSeq DEF IsSeq
<1>9. LinesOf(s) \o <<>> = LinesOf(s)
  BY <1>8
<1>. QED
  BY <1>1, <1>7, <1>9

LEMMA MetaPlain ==
    ASSUME NEW s, NEW e, IsSeq(s), IsSeq(e), \A i \in DOMAIN e : ~IsMeta(e[i])
    PROVE  MetadataOf(s \o e) = MetadataOf(s)
<1>1. PICK u, m, n : u = s \o e /\ m = Len(s) /\ n = Len(e)
  OBVIOUS
<1>2. /\ IsSeq(u) /\ Len(u) = m + n /\ m \in Nat /\ n \in Nat
      /\ \A i \in 1..m : u[i] = s[i]
      /\ \A i \in 1..n : u[m + i] = e[i]
  BY <1>1, CatIs, SeqFacts
<1>3. DOMAIN s = 1..m /\ DOMAIN e = 1..n /\ DOMAIN u = 1..(m + n)
  BY <1>1, <1>2, SeqFacts
<1>4. Metas(u) = Metas(s)
  <2>1. ASSUME NEW i \in Metas(u) PROVE i \in Metas(s)
    <3>1. i \in 1..(m + n) /\ IsMeta(u[i])
      BY <1>3, <2>1 DEF Metas
    <3>2. CASE i \in 1..m
      BY <1>2, <1>3, <3>1, <3>2 DEF Metas
    <3>3. CASE i \notin 1..m
      <4>1. i - m \in 1..n /\ i = m + (i - m)
        BY <1>2, <3>1, <3>3
      <4>2. u[i] = e[i - m]
        BY <1>2, <4>1
      <4>. QED
        BY <1>3, <3>1, <4>1, <4>2
    <3>. QED
      BY <3>2, <3>3
  <2>2. ASSUME NEW i \in Metas(s) PROVE i \in Metas(u)
    <3>1. i \in 1..m /\ i \in 1..(m + n) /\ IsMeta(s[i])
      BY <1>2, <1>3, <2>2 DEF Metas
    <3>. QED
      BY <1>2, <1>3, <3>1 DEF Metas
  <2>. QED
    BY <2>1, <2>2
<1>5. CASE Metas(s) = {}
  BY <1>1, <1>4, <1>5 DEF MetadataOf
<1>6. CASE Metas(s) # {}
  <2>1. Metas(s) \subseteq 0..m
    BY <1>3 DEF Metas
  <2>2. PICK k \in Metas(s) : \A i \in Metas(s) : i <= k
    BY <1>2, <1>6, <2>1, GreatestNat
  <2>3. Max(Metas(s)) = k
    <3>1. PICK T : T = Metas(s)
      OBVIOUS
    <3>2. T \in SUBSET Nat /\ k \in T /\ \A i \in T : i <= k
      BY <2>1, <2>2, <3>1
    <3>3. Max(T) = k
      BY ONLY <3>2, MaxIs
    <3>. QED
      BY <3>1, <3>3
  <2>4. u[k] = s[k]
    BY <1>2, <1>3, <2>2 DEF Metas
  <2>. QED
    BY <1>1, <1>4, <1>6, <2>3, <2>4 DEF MetadataOf
<1>. QED
  BY <1>5, <1>6

LEMMA MetaNew ==
    ASSUME NEW s, IsSeq(s), NEW m
    PROVE  MetadataOf(s \o <<MetaEntry(m)>>) = m
<1>1. PICK x, u, n : x = MetaEntry(m) /\ u = s \o <<x>> /\ n = Len(s)
  OBVIOUS
<1>2. x.meta = m /\ IsMeta(x)
  BY <1>1 DEF MetaEntry, IsMeta
<1>3. IsSeq(u) /\ Len(u) = n + 1 /\ u[n + 1] = x /\ n \in Nat
  BY <1>1, CatOne, SeqFacts
<1>4. DOMAIN u = 1..(n + 1)
  BY <1>3, SeqFacts
<1>5. PICK T : T = Metas(u)
  OBVIOUS
<1>6. T \in SUBSET Nat /\ n + 1 \in T /\ \A i \in T : i <= n + 1
  BY <1>2, <1>3, <1>4, <1>5 DEF Metas
<1>7. Max(T) = n + 1
  BY ONLY <1>6, MaxIs
<1>. QED
  BY <1>1, <1>2, <1>3, <1>5, <1>6, <1>7 DEF MetadataOf

\* A subpath without ".." and "." stays inside.
LEMMA SafeInside ==
    ASSUME NEW p, IsSeq(p), IsSafe(p)
    PROVE  ~Outside(p)
<1>1. /\ Len(p) \in Nat /\ DOMAIN p = 1..Len(p) /\ Len(p) # 0
      /\ p # <<>> /\ p[1] \notin {"/", "C:"}
  BY SeqFacts DEF IsSafe
<1>2. \A i \in 1..Len(p) : p[i] # ".." /\ p[i] # "."
  <2>1. \A i \in 1..Len(p) : p[i] \in Range(p)
    BY <1>1 DEF Range
  <2>. QED
    BY <2>1 DEF IsSafe
<1>3. ASSUME NEW i \in 1..Len(p) PROVE Depth(p, i) = i
  <2>1. {j \in 1..i : p[j] = ".."} = {}
    BY <1>1, <1>2
  <2>2. {j \in 1..i : p[j] # "."} \ {} = 1..i
    BY <1>1, <1>2
  <2>3. Cardinality(1..i) = i /\ Cardinality({}) = 0
    <3>1. i \in Int /\ 1 \in Int /\ 1 <= i
      BY <1>1
    <3>2. Cardinality(1..i) = IF 1 > i THEN 0 ELSE i - 1 + 1
      BY <3>1, FS_Interval
    <3>. QED
      BY <3>1, <3>2, FS_EmptySet
  <2>4. Depth(p, i) = Cardinality(1..i) - Cardinality({})
    BY <2>1, <2>2 DEF Depth
  <2>. QED
    BY <1>1, <2>3, <2>4
<1>4. Len(p) \in 1..Len(p)
  BY <1>1
<1>5. Depth(p, Len(p)) = Len(p) /\ \A i \in DOMAIN p : Depth(p, i) = i
  BY <1>1, <1>3, <1>4
<1>. QED
  BY <1>1, <1>5 DEF Outside

LEMMA AgentSafe ==
    ASSUME NEW p, IsAgentPath(p), IsSeq(p)
    PROVE  IsSafe(p)
<1>1. Len(p) # 0 /\ p[1] = "subagents"
  BY SeqFacts DEF IsAgentPath
<1>2. p # <<>>
  BY <1>1, SeqFacts
<1>. QED
  BY <1>1, <1>2 DEF IsAgentPath, IsSafe

\* What is brought reads as the file does.
LEMMA ReadsAlike ==
    ASSUME NEW k, NEW f, CopyWhole(k, f)
    PROVE  /\ ReadAs(LinesOf(k), MetadataOf(k)) = ReadFile(f)
           /\ LinesOf(k) = <<>> <=> f.lines = <<>>
<1>. USE DEF CopyWhole, CopyLines
<1>1. SubagentMessages(LinesOf(k)) = SubagentMessages(f.lines)
  BY FollowsTalks
<1>2. CASE f.lines = <<>>
  <2>1. Follows(LinesOf(k), <<>>)
    BY <1>2
  <2>2. SubagentMessages(<<>>) = <<>>
    BY DEF SubagentMessages
  <2>. QED
    BY <1>1, <1>2, <2>2, FollowsEmpty DEF ReadAs, ReadFile
<1>3. CASE f.lines # <<>>
  <2>1. ParentIds(MetadataOf(k)) = ParentIds(f.meta)
    <3>1. CASE f.meta.is = "object"
      BY <1>3, <3>1
    <3>2. CASE f.meta.is # "object"
      BY <3>2 DEF ParentIds, NoMeta
    <3>. QED
      BY <3>1, <3>2
  <2>. QED
    BY <1>1, <1>3, <2>1, FollowsEmpty DEF ReadAs, ReadFile
<1>. QED
  BY <1>2, <1>3

LEMMA NothingBrought ==
    ASSUME NEW f, CopyWhole(<<>>, f)
    PROVE  ReadFile(NoFile) = ReadFile(f) /\ (NoFile.lines = <<>> <=> f.lines = <<>>)
<1>1. PICK k : k = <<>>
  OBVIOUS
<1>2. LinesOf(k) = <<>> /\ MetadataOf(k) = NoMeta
  BY <1>1, EmptyIs
<1>3. ReadAs(LinesOf(k), MetadataOf(k)) = ReadFile(f) /\ (LinesOf(k) = <<>> <=> f.lines = <<>>)
  BY <1>1, ReadsAlike
<1>. QED
  BY <1>2, <1>3 DEF ReadFile, NoFile

LEMMA ExactIsWhole == ASSUME NEW k, NEW f, CopyExact(k, f) PROVE CopyWhole(k, f)
  BY DEF CopyExact, CopyWhole

LEMMA NoLinesWhole ==
    ASSUME NEW k, NEW f, File(f), f.lines = <<>>, CopyPart(k, f)
    PROVE  CopyWhole(k, f)
<1>1. IsSeq(f.lines)
  BY DEF File
<1>2. Follows(f.lines, f.lines)
  BY <1>1, FollowsItself
<1>. QED
  BY <1>2 DEF CopyPart, CopyWhole, CopyLines

LEMMA NoneIsPart == ASSUME NEW f PROVE CopyPart(<<>>, f)
  BY EmptyIs DEF CopyPart

\* The lines are appended, maybe again.
LEMMA LinesBring ==
    ASSUME NEW k, IsSeq(k), NEW f, File(f), CopyPart(k, f)
    PROVE  /\ CopyPart(k \o f.lines, f) /\ CopyLines(k \o f.lines, f)
           /\ CopyWhole(k, f) => CopyWhole(k \o f.lines, f)
<1>1. IsSeq(f.lines) /\ \A i \in DOMAIN f.lines : ~IsMeta(f.lines[i])
  BY DEF File
<1>2. PICK e, x : e = f.lines /\ x = LinesOf(k)
  OBVIOUS
<1>3. LinesOf(k \o e) = x \o e /\ IsSeq(x)
  <2>1. IsSeq(e) /\ \A i \in DOMAIN e : ~IsMeta(e[i])
    BY <1>1, <1>2
  <2>2. LinesOf(e) = e
    BY ONLY <2>1, LinesPlain
  <2>3. LinesOf(k \o e) = LinesOf(k) \o LinesOf(e)
    BY <2>1, LinesCat
  <2>. QED
    BY <1>2, <2>2, <2>3, LinesSeq
<1>4. MetadataOf(k \o e) = MetadataOf(k)
  BY <1>1, <1>2, MetaPlain
<1>5. Range(x) \subseteq Range(e)
  <2>1. CASE x = <<>>
    BY <1>3, <2>1, EmptyRange
  <2>2. CASE Follows(x, e)
    BY <2>2, FollowsRange
  <2>. QED
    BY <1>2, <2>1, <2>2 DEF CopyPart, CopyLines
<1>6. IsSeq(e)
  BY <1>1, <1>2
<1>7. Follows(x \o e, e)
  BY ONLY <1>3, <1>5, <1>6, FollowsAfter
<1>. QED
  BY <1>2, <1>3, <1>4, <1>7 DEF CopyPart, CopyLines, CopyWhole

\* The sidecar is appended, maybe again.
LEMMA MetaBrings ==
    ASSUME NEW k, IsSeq(k), NEW f, CopyPart(k, f)
    PROVE  /\ CopyPart(k \o <<MetaEntry(f.meta)>>, f)
           /\ CopyLines(k, f) => CopyWhole(k \o <<MetaEntry(f.meta)>>, f)
<1>1. PICK m, u : m = f.meta /\ u = k \o <<MetaEntry(m)>>
  OBVIOUS
<1>2. LinesOf(u) = LinesOf(k) /\ MetadataOf(u) = m
  BY <1>1, LinesMeta, MetaNew
<1>. QED
  BY <1>1, <1>2 DEF CopyPart, CopyLines, CopyWhole

LEMMA NoMetaBrings ==
    ASSUME NEW k, NEW f, CopyPart(k, f), f.meta.is # "object", CopyLines(k, f)
    PROVE  CopyWhole(k, f)
  BY DEF CopyPart, CopyWhole

\* The mirror of a line and of a sidecar.
LEMMA LineMirrored ==
    ASSUME NEW k, IsSeq(k), NEW f, File(f), CopyExact(k, f), NEW x, ~IsMeta(x)
    PROVE  CopyExact(k \o <<x>>, [f EXCEPT !.lines = Append(@, x)])
<1>1. IsSeq(f.lines) /\ Follows(LinesOf(k), f.lines) /\ MetadataOf(k) = f.meta
  BY DEF File, CopyExact, CopyLines
<1>2. PICK e, l, g : e = <<x>> /\ l = f.lines /\ g = [f EXCEPT !.lines = Append(@, x)]
  OBVIOUS
<1>3. g.lines = Append(l, x) /\ g.meta = f.meta
  BY <1>2 DEF File, NoFile
<1>4. IsSeq(e) /\ \A i \in DOMAIN e : ~IsMeta(e[i])
  BY <1>2, OneIs
<1>5. LinesOf(k \o e) = LinesOf(k) \o e /\ MetadataOf(k \o e) = MetadataOf(k)
  BY <1>4, LinesCat, LinesPlain, MetaPlain
<1>6. Append(l, x) = l \o <<x>>
  BY <1>1, <1>2, AppendCat
<1>7. Follows(LinesOf(k) \o <<x>>, l \o <<x>>)
  BY <1>1, <1>2, FollowsMore
<1>. QED
  BY <1>1, <1>2, <1>3, <1>5, <1>6, <1>7 DEF CopyExact, CopyLines

LEMMA MetaMirrored ==
    ASSUME NEW k, IsSeq(k), NEW f, File(f), CopyExact(k, f), NEW m
    PROVE  CopyExact(k \o <<MetaEntry(m)>>, [f EXCEPT !.meta = m])
<1>1. PICK u, g : u = k \o <<MetaEntry(m)>> /\ g = [f EXCEPT !.meta = m]
  OBVIOUS
<1>2. LinesOf(u) = LinesOf(k) /\ MetadataOf(u) = m
  BY <1>1, LinesMeta, MetaNew
<1>3. g.lines = f.lines /\ g.meta = m
  BY <1>1 DEF File, NoFile
<1>. QED
  BY <1>1, <1>2, <1>3 DEF CopyExact, CopyLines

-----------------------------------------------------------------------------
\* What the steps do to the store, to the disk and to the directory.
LEMMA KeyIn ==
    ASSUME PickInv, StoreInv, NEW p \in Paths
    PROVE  /\ plan.current \in plan.sessions /\ KeyOf(p) \in DOMAIN shelf /\ p # NoSubpath
           /\ IsSeq(Shelved(p)) /\ IsSeq(p) /\ File(disk[p])
<1>1. Plan(plan) /\ p \in DOMAIN plan.disk
  BY PlanOf DEF PickInv, StoreInv, CarryTypes, Paths
<1>2. plan.current \in plan.sessions /\ IsSeq(p)
  BY <1>1 DEF Plan
<1>3. p # NoSubpath /\ KeyOf(p) \in DOMAIN shelf /\ File(disk[p])
  BY <1>2 DEF PickInv, ResumeTypes, KeyOf
<1>. QED
  BY <1>2, <1>3 DEF PickInv, ResumeTypes, Shelved

LEMMA ShelvedIs ==
    ASSUME PickInv, StoreInv, UNCHANGED plan, NEW k, NEW e,
           shelf' = [shelf EXCEPT ![k] = @ \o e], NEW p \in Paths
    PROVE  Shelved(p)' = IF k = KeyOf(p) THEN Shelved(p) \o e ELSE Shelved(p)
<1>1. KeyOf(p) \in DOMAIN shelf /\ KeyOf(p)' = KeyOf(p)
  BY KeyIn DEF KeyOf
<1>2. Shelved(p)' = shelf'[KeyOf(p)]
  BY <1>1 DEF Shelved
<1>. QED
  BY <1>1, <1>2 DEF Shelved

LEMMA OthersApart ==
    ASSUME PickInv, StoreInv, NEW p \in Paths, NEW s
    PROVE  MainOf(s) # KeyOf(p)
  BY KeyIn DEF MainOf, KeyOf

LEMMA KeysApart ==
    ASSUME NEW p, NEW q, KeyOf(p) = KeyOf(q)
    PROVE  p = q
  BY DEF KeyOf

\* Nothing of the subagents changes.
LEMMA StoreStays ==
    ASSUME PickInv, StoreInv, UNCHANGED <<plan, disk, importer, carried>>,
           resume'.whole => carried,
           DOMAIN versions' = Paths, \A p \in Paths : disk[p] \in versions'[p],
           \A p \in AgentPaths : Shelved(p)' = Shelved(p)
    PROVE  StoreInv'
<1>1. Paths' = Paths /\ AgentPaths' = AgentPaths
  BY DEF Paths, AgentPaths
<1>2. CarryTypes'
  BY <1>1 DEF StoreInv, CarryTypes
<1>3. ByMirror'
  BY <1>1 DEF StoreInv, ByMirror
<1>4. ByImport'
  BY <1>1 DEF StoreInv, ByImport, Coming
<1>. QED
  BY <1>2, <1>3, <1>4 DEF StoreInv

LEMMA TreeStays ==
    ASSUME TreeInv, UNCHANGED <<plan, host, resume, tree>>, DOMAIN disk' = DOMAIN disk,
           \A p \in Paths : versions[p] \subseteq versions'[p]
    PROVE  TreeInv'
<1>1. Paths' = Paths /\ AgentPaths' = AgentPaths
  BY DEF Paths, AgentPaths
<1>2. \A p \in Paths : Shown(p) => Shown(p)'
  BY DEF Shown
<1>3. \A p \in AgentPaths : p \in Paths
  BY DEF AgentPaths
<1>. QED
  BY <1>1, <1>2, <1>3 DEF TreeInv, Configured, Loading

LEMMA OthersKeep ==
    ASSUME PickInv, CarryInv, NEW s, \/ \E flag : OthersAppend(s, flag)
                                     \/ OthersDelete(s)
    PROVE  CarryInv'
<1>1. UNCHANGED <<plan, host, disk, importer, resume, tree, carried, versions>>
  BY DEF OthersAppend, OthersDelete
<1>2. StoreInv /\ TreeInv
  BY DEF CarryInv
<1>3. \A p \in AgentPaths : Shelved(p)' = Shelved(p)
  <2>1. SUFFICES ASSUME NEW p \in Paths PROVE Shelved(p)' = Shelved(p)
    BY DEF AgentPaths
  <2>2. KeyOf(p)' = KeyOf(p) /\ MainOf(s) # KeyOf(p) /\ KeyOf(p) \in DOMAIN shelf
    BY <1>1, <1>2, OthersApart, KeyIn DEF KeyOf
  <2>3. CASE OthersDelete(s)
    BY <2>2, <2>3 DEF OthersDelete, Shelved
  <2>4. CASE \E flag : OthersAppend(s, flag)
    <3>1. PICK flag : OthersAppend(s, flag)
      BY <2>4
    <3>2. PICK e : AppendTo(MainOf(s), <<e>>)
      BY <3>1 DEF OthersAppend
    <3>. QED
      BY <2>2, <3>2 DEF AppendTo, Shelved
  <2>. QED
    BY <2>3, <2>4
<1>4. StoreInv'
  BY <1>1, <1>2, <1>3, StoreStays DEF StoreInv, CarryTypes
<1>5. TreeInv'
  BY <1>1, <1>2, TreeStays
<1>. QED
  BY <1>4, <1>5 DEF CarryInv

\* The CLI writes a file or a sidecar, and the mirror what it has written.
LEMMA FileWritten ==
    ASSUME PickInv, CarryInv, plan.mirrored, NEW p \in AgentPaths, NEW g, NEW e,
           UNCHANGED <<plan, host, importer, resume, tree, carried>>,
           disk' = [disk EXCEPT ![p] = g], Remembered(p),
           shelf' = [shelf EXCEPT ![KeyOf(p)] = @ \o e], CopyExact(Shelved(p) \o e, g)
    PROVE  CarryInv'
<1>1. StoreInv /\ TreeInv /\ p \in Paths /\ CarryTypes /\ ByMirror
  BY DEF CarryInv, AgentPaths, StoreInv
<1>2. DOMAIN disk' = DOMAIN disk /\ Paths' = Paths /\ AgentPaths' = AgentPaths
  BY DEF Paths, AgentPaths
<1>3. \A q \in Paths : disk'[q] = IF q = p THEN g ELSE disk[q]
  BY DEF Paths
<1>4. \A q \in Paths : Shelved(q)' = IF q = p THEN Shelved(q) \o e ELSE Shelved(q)
  <2>1. SUFFICES ASSUME NEW q \in Paths
                 PROVE  Shelved(q)' = IF q = p THEN Shelved(q) \o e ELSE Shelved(q)
    OBVIOUS
  <2>2. PICK k : k = KeyOf(p)
    OBVIOUS
  <2>3. Shelved(q)' = IF k = KeyOf(q) THEN Shelved(q) \o e ELSE Shelved(q)
    BY <1>1, <2>2, ShelvedIs
  <2>. QED
    BY <2>2, <2>3, KeysApart
<1>5. /\ DOMAIN versions = Paths /\ DOMAIN versions' = Paths
      /\ \A q \in Paths : versions[q] \subseteq versions'[q] /\ disk'[q] \in versions'[q]
  <2>1. DOMAIN versions = Paths /\ \A q \in Paths : disk[q] \in versions[q]
    BY <1>1 DEF CarryTypes
  <2>. QED
    BY <1>1, <1>3, <2>1 DEF Remembered
<1>6. CarryTypes'
  BY <1>1, <1>2, <1>5 DEF CarryTypes
<1>7. ByMirror'
  <2>1. \A q \in AgentPaths : CopyExact(Shelved(q)', disk'[q])
    BY <1>1, <1>3, <1>4 DEF ByMirror, AgentPaths
  <2>. QED
    BY <1>1, <1>2, <2>1 DEF ByMirror
<1>8. ByImport'
  BY DEF ByImport
<1>9. TreeInv'
  BY <1>1, <1>2, <1>5, TreeStays
<1>. QED
  BY <1>6, <1>7, <1>8, <1>9 DEF CarryInv, StoreInv

LEMMA CliWritesCarried ==
    ASSUME PickInv, CarryInv, NEW p \in AgentPaths, NEW type \in plan.types,
           CliWrites(p, type)
    PROVE  CarryInv'
<1>1. StoreInv /\ p \in Paths /\ ByMirror /\ plan.mirrored
  BY DEF CarryInv, StoreInv, AgentPaths, CliWrites
<1>2. PICK x : x = [uuid |-> Len(disk[p].lines) + 1, parent |-> Len(disk[p].lines),
                    type |-> type, flag |-> "side"]
  OBVIOUS
<1>3. ~IsMeta(x)
  <2>1. x.type = type
    BY <1>2
  <2>. QED
    BY <2>1, PlanOf DEF PickInv, Plan, IsMeta
<1>4. /\ disk' = [disk EXCEPT ![p].lines = Append(@, x)] /\ AppendTo(KeyOf(p), <<x>>)
      /\ Remembered(p) /\ UNCHANGED <<plan, host, importer, resume, tree, carried>>
  BY <1>2 DEF CliWrites
<1>5. PICK f, g, k, e : /\ f = disk[p] /\ g = [f EXCEPT !.lines = Append(@, x)]
                        /\ k = Shelved(p) /\ e = <<x>>
  OBVIOUS
<1>6. IsSeq(k) /\ File(f) /\ CopyExact(k, f)
  BY <1>1, <1>5, KeyIn DEF ByMirror
<1>7. CopyExact(k \o <<x>>, [f EXCEPT !.lines = Append(@, x)])
  BY ONLY <1>3, <1>6, LineMirrored
<1>8. disk' = [disk EXCEPT ![p] = g]
  BY <1>4, <1>5
<1>9. shelf' = [shelf EXCEPT ![KeyOf(p)] = @ \o e]
  BY <1>4, <1>5 DEF AppendTo
<1>10. CopyExact(Shelved(p) \o e, g)
  BY <1>5, <1>7
<1>. QED
  BY <1>1, <1>4, <1>8, <1>9, <1>10, FileWritten

LEMMA CliWritesMetaCarried ==
    ASSUME PickInv, CarryInv, NEW p \in AgentPaths, NEW tool, CliWritesMeta(p, tool)
    PROVE  CarryInv'
<1>1. StoreInv /\ p \in Paths /\ ByMirror /\ plan.mirrored
  BY DEF CarryInv, StoreInv, AgentPaths, CliWritesMeta
<1>2. PICK m : /\ disk' = [disk EXCEPT ![p].meta = m] /\ AppendTo(KeyOf(p), <<MetaEntry(m)>>)
               /\ Remembered(p) /\ UNCHANGED <<plan, host, importer, resume, tree, carried>>
  BY DEF CliWritesMeta
<1>5. PICK f, g, k, e : /\ f = disk[p] /\ g = [f EXCEPT !.meta = m]
                        /\ k = Shelved(p) /\ e = <<MetaEntry(m)>>
  OBVIOUS
<1>6. IsSeq(k) /\ File(f) /\ CopyExact(k, f)
  BY <1>1, <1>5, KeyIn DEF ByMirror
<1>7. CopyExact(k \o <<MetaEntry(m)>>, [f EXCEPT !.meta = m])
  BY ONLY <1>6, MetaMirrored
<1>8. disk' = [disk EXCEPT ![p] = g]
  BY <1>2, <1>5
<1>9. shelf' = [shelf EXCEPT ![KeyOf(p)] = @ \o e]
  BY <1>2, <1>5 DEF AppendTo
<1>10. CopyExact(Shelved(p) \o e, g)
  BY <1>5, <1>7
<1>. QED
  BY <1>1, <1>2, <1>8, <1>9, <1>10, FileWritten

-----------------------------------------------------------------------------
\* The import
ImportFrame == UNCHANGED <<plan, host, disk, resume, tree, versions>>

\* A step of an import: what it appends to the subagents, and where it is then.
LEMMA ImportStep ==
    ASSUME PickInv, CarryInv, ~plan.mirrored, ImportFrame,
           carried' \in {carried, TRUE}, DOMAIN importer' = DOMAIN importer,
           importer'.pc \in {"idle", "next", "sidecar"},
           importer'.pc # "idle" => importer'.left \subseteq AgentPaths,
           importer'.pc = "sidecar" => importer'.at \in AgentPaths,
           \A p \in AgentPaths : /\ CopyPart(Shelved(p)', disk[p])
                                 /\ importer'.pc # "idle" =>
                                       \/ p \in importer'.left
                                       \/ /\ importer'.pc = "sidecar" /\ p = importer'.at
                                          /\ CopyLines(Shelved(p)', disk[p])
                                       \/ CopyWhole(Shelved(p)', disk[p])
                                 /\ carried' => CopyWhole(Shelved(p)', disk[p])
    PROVE  CarryInv'
<1>. USE DEF ImportFrame
<1>1. StoreInv /\ TreeInv /\ CarryTypes
  BY DEF CarryInv, StoreInv
<1>2. Paths' = Paths /\ AgentPaths' = AgentPaths
  BY DEF Paths, AgentPaths
<1>3. CarryTypes'
  BY <1>1, <1>2 DEF CarryTypes
<1>4. ByMirror'
  BY DEF ByMirror
<1>5. ByImport'
  BY <1>2 DEF ByImport, Coming
<1>6. TreeInv'
  BY <1>1, <1>2, TreeStays DEF Paths
<1>. QED
  BY <1>3, <1>4, <1>5, <1>6 DEF CarryInv, StoreInv

LEMMA ImportBeginsCarried ==
    ASSUME PickInv, CarryInv, ImportBegins
    PROVE  CarryInv'
<1>1. /\ StoreInv /\ CarryTypes /\ ByImport /\ ~plan.mirrored /\ ImportFrame
      /\ carried' = carried
  BY DEF CarryInv, StoreInv, ImportBegins, ImportFrame
<1>2. PICK left, runs : /\ left = {p \in AgentPaths : disk[p].lines # <<>>}
                        /\ importer' = [pc |-> "next", at |-> NoSubpath, runs |-> runs,
                                        left |-> left]
  BY DEF ImportBegins
<1>3. /\ importer'.pc = "next" /\ importer'.left = left
      /\ DOMAIN importer' = {"pc", "left", "at", "runs"}
  BY <1>2
<1>4. PICK e, k : k = MainOf(plan.current) /\ shelf' = [shelf EXCEPT ![k] = @ \o e]
  BY DEF ImportBegins, AppendTo
<1>5. \A p \in AgentPaths : Shelved(p)' = Shelved(p) /\ File(disk[p])
  <2>1. SUFFICES ASSUME NEW p \in Paths PROVE Shelved(p)' = Shelved(p) /\ File(disk[p])
    BY DEF AgentPaths
  <2>2. k # KeyOf(p)
    BY <1>1, <1>4, OthersApart
  <2>. QED
    BY <1>1, <1>4, <2>2, ShelvedIs, KeyIn DEF ImportFrame
<1>6. \A p \in AgentPaths :
         /\ CopyPart(Shelved(p), disk[p])
         /\ p \in left \/ CopyWhole(Shelved(p), disk[p])
         /\ carried => CopyWhole(Shelved(p), disk[p])
  BY <1>1, <1>2, <1>5, NoLinesWhole DEF ByImport
<1>7. left \subseteq AgentPaths
  BY <1>2
<1>. QED
  BY <1>1, <1>3, <1>5, <1>6, <1>7, ImportStep DEF CarryTypes

LEMMA ImportsFileCarried ==
    ASSUME PickInv, CarryInv, NEW p \in AgentPaths, ImportsFile(p)
    PROVE  CarryInv'
<1>1. /\ StoreInv /\ CarryTypes /\ ByImport /\ ImportFrame /\ carried' = carried
      /\ importer.pc = "next" /\ p \in Paths
  BY DEF CarryInv, StoreInv, ImportsFile, ImportFrame, AgentPaths
<1>2. ~plan.mirrored
  BY <1>1 DEF StoreInv, ByMirror
<1>3. importer' = [importer EXCEPT !.pc = "sidecar", !.at = p, !.left = @ \ {p}]
  BY DEF ImportsFile
<1>4. /\ importer'.pc = "sidecar" /\ importer'.at = p /\ importer'.left = importer.left \ {p}
      /\ DOMAIN importer' = DOMAIN importer
  BY <1>1, <1>3 DEF CarryTypes
<1>5. PICK e, k : /\ e = disk[p].lines /\ k = KeyOf(p)
                  /\ shelf' = [shelf EXCEPT ![k] = @ \o e]
  BY DEF ImportsFile, AppendTo
<1>6. \A q \in AgentPaths : Shelved(q)' = IF q = p THEN Shelved(q) \o e ELSE Shelved(q)
  <2>1. SUFFICES ASSUME NEW q \in Paths
                 PROVE  Shelved(q)' = IF q = p THEN Shelved(q) \o e ELSE Shelved(q)
    BY DEF AgentPaths
  <2>2. Shelved(q)' = IF k = KeyOf(q) THEN Shelved(q) \o e ELSE Shelved(q)
    BY <1>1, <1>5, ShelvedIs DEF ImportFrame
  <2>. QED
    BY <1>5, <2>2, KeysApart
<1>7. /\ CopyPart(Shelved(p) \o e, disk[p]) /\ CopyLines(Shelved(p) \o e, disk[p])
      /\ CopyWhole(Shelved(p), disk[p]) => CopyWhole(Shelved(p) \o e, disk[p])
  <2>1. PICK s, f : s = Shelved(p) /\ f = disk[p]
    OBVIOUS
  <2>2. IsSeq(s) /\ File(f) /\ CopyPart(s, f)
    BY <1>1, <1>2, <2>1, KeyIn DEF ByImport
  <2>3. /\ CopyPart(s \o f.lines, f) /\ CopyLines(s \o f.lines, f)
        /\ CopyWhole(s, f) => CopyWhole(s \o f.lines, f)
    BY ONLY <2>2, LinesBring
  <2>. QED
    BY <1>5, <2>1, <2>3
<1>8. \A q \in AgentPaths :
         /\ CopyPart(Shelved(q), disk[q])
         /\ q \in importer.left \/ CopyWhole(Shelved(q), disk[q])
         /\ carried => CopyWhole(Shelved(q), disk[q])
  BY <1>1, <1>2 DEF ByImport, Coming
<1>9. \A q \in AgentPaths :
         /\ CopyPart(Shelved(q)', disk[q])
         /\ q \in importer'.left \/ (q = p /\ CopyLines(Shelved(q)', disk[q]))
            \/ CopyWhole(Shelved(q)', disk[q])
         /\ carried' => CopyWhole(Shelved(q)', disk[q])
  BY <1>1, <1>4, <1>6, <1>7, <1>8
<1>10. importer'.left \subseteq AgentPaths
  BY <1>1, <1>4 DEF CarryTypes
<1>. QED
  BY <1>1, <1>2, <1>4, <1>9, <1>10, ImportStep

LEMMA ImportsSidecarCarried ==
    ASSUME PickInv, CarryInv, ImportsSidecar
    PROVE  CarryInv'
<1>1. /\ StoreInv /\ CarryTypes /\ ByImport /\ ImportFrame /\ carried' = carried
      /\ importer.pc = "sidecar"
  BY DEF CarryInv, StoreInv, ImportsSidecar, ImportFrame
<1>2. ~plan.mirrored
  BY <1>1 DEF StoreInv, ByMirror
<1>3. importer' = [importer EXCEPT !.pc = "next"]
  BY DEF ImportsSidecar
<1>4. /\ importer'.pc = "next" /\ importer'.left = importer.left
      /\ DOMAIN importer' = DOMAIN importer
  BY <1>1, <1>3 DEF CarryTypes
<1>5. PICK p, f, m : p = importer.at /\ f = disk[p] /\ m = f.meta
  OBVIOUS
<1>6. p \in AgentPaths /\ p \in Paths /\ IsSeq(Shelved(p))
  BY <1>1, <1>5, KeyIn DEF CarryTypes, AgentPaths
<1>7. \A q \in AgentPaths :
         /\ CopyPart(Shelved(q), disk[q])
         /\ q \in importer.left \/ (q = p /\ CopyLines(Shelved(q), disk[q]))
            \/ CopyWhole(Shelved(q), disk[q])
         /\ carried => CopyWhole(Shelved(q), disk[q])
  BY <1>1, <1>2, <1>5 DEF ByImport, Coming
<1>8. importer'.left \subseteq AgentPaths
  BY <1>1, <1>4 DEF CarryTypes
<1>9. \A q \in AgentPaths :
         /\ CopyPart(Shelved(q)', disk[q])
         /\ q \in importer'.left \/ CopyWhole(Shelved(q)', disk[q])
         /\ carried' => CopyWhole(Shelved(q)', disk[q])
  <2>1. CASE m.is # "object"
    <3>1. UNCHANGED shelf
      BY <1>5, <2>1 DEF ImportsSidecar, Imported
    <3>2. \A q \in AgentPaths : Shelved(q)' = Shelved(q)
      BY <1>1, <3>1 DEF Shelved, KeyOf, ImportFrame
    <3>. QED
      BY <1>1, <1>4, <1>5, <1>7, <2>1, <3>2, NoMetaBrings
  <2>2. CASE m.is = "object"
    <3>1. Imported(disk[importer.at].meta) = <<MetaEntry(m)>>
      BY <1>5, <2>2 DEF Imported
    <3>2. PICK e, k : /\ e = <<MetaEntry(m)>> /\ k = KeyOf(p)
                      /\ shelf' = [shelf EXCEPT ![k] = @ \o e]
      <4>1. PICK x, e : x = MetaEntry(m) /\ e = <<x>>
        OBVIOUS
      <4>2. e # <<>> /\ Imported(disk[importer.at].meta) = e
        BY <3>1, <4>1
      <4>3. AppendTo(KeyOf(importer.at), e)
        BY <4>2 DEF ImportsSidecar
      <4>. QED
        BY <1>5, <4>1, <4>3 DEF AppendTo
    <3>3. \A q \in AgentPaths : Shelved(q)' = IF q = p THEN Shelved(q) \o e ELSE Shelved(q)
      <4>1. SUFFICES ASSUME NEW q \in Paths
                     PROVE  Shelved(q)' = IF q = p THEN Shelved(q) \o e ELSE Shelved(q)
        BY DEF AgentPaths
      <4>2. Shelved(q)' = IF k = KeyOf(q) THEN Shelved(q) \o e ELSE Shelved(q)
        BY <1>1, <3>2, ShelvedIs DEF ImportFrame
      <4>. QED
        BY <3>2, <4>2, KeysApart
    <3>4. /\ CopyPart(Shelved(p) \o e, f)
          /\ CopyLines(Shelved(p), f) => CopyWhole(Shelved(p) \o e, f)
      <4>1. PICK s : s = Shelved(p)
        OBVIOUS
      <4>2. IsSeq(s) /\ CopyPart(s, f)
        BY <1>5, <1>6, <1>7, <4>1
      <4>3. /\ CopyPart(s \o <<MetaEntry(f.meta)>>, f)
            /\ CopyLines(s, f) => CopyWhole(s \o <<MetaEntry(f.meta)>>, f)
        BY ONLY <4>2, MetaBrings
      <4>. QED
        BY <1>5, <3>2, <4>1, <4>3
    <3>5. \A q \in AgentPaths : CopyWhole(Shelved(q), disk[q]) => CopyLines(Shelved(q), disk[q])
      BY DEF CopyWhole
    <3>. QED
      BY <1>1, <1>4, <1>5, <1>6, <1>7, <3>3, <3>4, <3>5
  <2>. QED
    BY <2>1, <2>2
<1>. QED
  BY <1>1, <1>2, <1>4, <1>8, <1>9, ImportStep

LEMMA ImportEndsCarried ==
    ASSUME PickInv, CarryInv, ImportStops \/ ImportReturns
    PROVE  CarryInv'
<1>1. /\ StoreInv /\ CarryTypes /\ ByImport /\ ImportFrame /\ importer.pc # "idle"
      /\ UNCHANGED shelf
  BY DEF CarryInv, StoreInv, ImportStops, ImportReturns, ImportFrame
<1>2. ~plan.mirrored
  BY <1>1 DEF StoreInv, ByMirror
<1>3. importer' = [importer EXCEPT !.pc = "idle"]
  BY DEF ImportStops, ImportReturns
<1>4. importer'.pc = "idle" /\ DOMAIN importer' = DOMAIN importer
  BY <1>1, <1>3 DEF CarryTypes
<1>5. \A q \in AgentPaths : Shelved(q)' = Shelved(q)
  BY <1>1 DEF Shelved, KeyOf, ImportFrame
<1>6. \A q \in AgentPaths :
         /\ CopyPart(Shelved(q), disk[q])
         /\ Coming(q)
         /\ carried => CopyWhole(Shelved(q), disk[q])
  BY <1>1, <1>2 DEF ByImport
<1>7. CASE ImportStops
  <2>1. carried' = carried
    BY <1>7 DEF ImportStops
  <2>. QED
    BY <1>1, <1>2, <1>4, <1>5, <1>6, <2>1, ImportStep
<1>8. CASE ImportReturns
  <2>1. carried' = TRUE /\ importer.pc = "next" /\ importer.left = {}
    BY <1>8 DEF ImportReturns
  <2>2. \A q \in AgentPaths : CopyWhole(Shelved(q), disk[q])
    BY <1>6, <2>1 DEF Coming
  <2>. QED
    BY <1>1, <1>2, <1>4, <1>5, <1>6, <2>1, <2>2, ImportStep
<1>. QED
  BY <1>7, <1>8

-----------------------------------------------------------------------------
\* The resume
LEMMA StoreLooked ==
    ASSUME PickInv, CarryInv, UNCHANGED <<plan, disk, shelf, importer, carried>>,
           resume'.whole => carried,
           versions' = versions \/ versions' = [p \in Paths |-> {disk[p]}]
    PROVE  StoreInv'
<1>1. StoreInv /\ CarryTypes
  BY DEF CarryInv, StoreInv
<1>2. \A p \in AgentPaths : Shelved(p)' = Shelved(p)
  BY DEF Shelved, KeyOf
<1>3. DOMAIN versions' = Paths /\ \A p \in Paths : disk[p] \in versions'[p]
  BY <1>1 DEF CarryTypes
<1>. QED
  BY <1>1, <1>2, <1>3, StoreStays

LEMMA ResumeFields ==
    ASSUME PickInv, CarryInv
    PROVE  /\ DOMAIN resume = {"pc", "left", "at", "whole"}
           /\ DOMAIN tree = {"session", "main", "files", "credentials", "settings"}
           /\ resume.whole => carried
  BY DEF PickInv, ResumeTypes, NoTree, CarryInv, StoreInv, CarryTypes

LEMMA BeginsCarried ==
    ASSUME PickInv, CarryInv, \/ ResumeBegins \/ NoCandidate
                              \/ /\ LoadsNamed
                                 /\ shelf[MainOf(plan.resume)] = <<>>
                              \/ \E c \in resume.left : LoadsCandidate(c)
                                 /\ ~IsCandidate(shelf[MainOf(c[1])])
    PROVE  CarryInv'
<1>0. DOMAIN resume = {"pc", "left", "at", "whole"} /\ (resume.whole => carried)
  BY ResumeFields
<1>1. UNCHANGED <<plan, disk, shelf, importer, carried>>
  BY DEF ResumeBegins, NoCandidate, LoadsNamed, LoadsCandidate
<1>2. versions' = versions \/ versions' = [p \in Paths |-> {disk[p]}]
  BY DEF ResumeBegins, NoCandidate, LoadsNamed, LoadsCandidate
<1>3. resume'.pc \in {"named", "walking", "fresh"} /\ (resume'.whole => carried)
  <2>1. CASE ResumeBegins
    <3>1. \E pc \in {"named", "walking", "fresh"} : \E left :
             \/ resume' = [resume EXCEPT !.whole = carried, !.pc = pc]
             \/ resume' = [resume EXCEPT !.whole = carried, !.pc = pc, !.left = left]
      BY <2>1 DEF ResumeBegins
    <3>. QED
      BY <1>0, <3>1
  <2>2. CASE NoCandidate
    BY <1>0, <2>2 DEF NoCandidate
  <2>3. CASE LoadsNamed /\ shelf[MainOf(plan.resume)] = <<>>
    BY <1>0, <2>3 DEF LoadsNamed
  <2>4. CASE \E c \in resume.left : LoadsCandidate(c) /\ ~IsCandidate(shelf[MainOf(c[1])])
    <3>1. resume.pc = "walking" /\ \E left : resume' = [resume EXCEPT !.left = left]
      BY <2>4 DEF LoadsCandidate
    <3>. QED
      BY <1>0, <3>1
  <2>. QED
    BY <2>1, <2>2, <2>3, <2>4
<1>4. StoreInv'
  BY <1>1, <1>2, <1>3, StoreLooked
<1>5. TreeInv'
  BY <1>3 DEF TreeInv
<1>. QED
  BY <1>4, <1>5 DEF CarryInv

LEMMA WritesCarried ==
    ASSUME PickInv, CarryInv, NEW c, NEW entries, Writes(c, entries),
           UNCHANGED <<plan, host, disk, shelf, importer, carried, versions>>
    PROVE  CarryInv'
<1>0. /\ DOMAIN resume = {"pc", "left", "at", "whole"} /\ (resume.whole => carried)
      /\ DOMAIN tree = {"session", "main", "files", "credentials", "settings"}
  BY ResumeFields
<1>11. PICK settings \in {"none", Stripped(Readable(host.settings))} :
           tree' = [tree EXCEPT !.session = c[1], !.main = entries,
                                !.files = [p \in Paths |-> NoFile],
                                !.credentials = Redacted(CredentialsOf(host)),
                                !.settings = settings]
  BY DEF Writes
<1>12. PICK files : files = [p \in Paths |-> NoFile]
  OBVIOUS
<1>13. PICK credentials : credentials = Redacted(CredentialsOf(host))
  OBVIOUS
<1>1. tree' = [tree EXCEPT !.session = c[1], !.main = entries, !.files = files,
                           !.credentials = credentials, !.settings = settings]
  BY <1>11, <1>12, <1>13, Zenon
<1>2. /\ tree'.files = files /\ tree'.credentials = credentials
      /\ tree'.settings = settings
  BY <1>0, <1>1
<1>3. resume' = [resume EXCEPT !.at = c, !.left = {},
                               !.pc = IF plan.subkeys THEN "subkeys" ELSE "ready"]
  BY DEF Writes
<1>4. /\ resume'.pc = IF plan.subkeys THEN "subkeys" ELSE "ready"
      /\ resume'.whole => carried
  BY <1>0, <1>3
<1>5. Paths' = Paths
  BY DEF Paths
<1>6. Configured'
  <2>1. Redacted(CredentialsOf(host))' = Redacted(CredentialsOf(host))
    BY DEF Redacted, CredentialsOf, Readable
  <2>2. Stripped(Readable(host.settings))' = Stripped(Readable(host.settings))
    BY DEF Stripped, Readable
  <2>. QED
    BY <1>11, <1>12, <1>13, <1>2, <1>5, <2>1, <2>2 DEF Configured
<1>7. Loading'
  BY <1>12, <1>2, <1>4, <1>5 DEF Loading
<1>8. StoreInv'
  BY <1>4, StoreLooked
<1>. QED
  BY <1>6, <1>7, <1>8 DEF CarryInv, TreeInv

LEMMA LoadsNamedCarried ==
    ASSUME PickInv, CarryInv, LoadsNamed
    PROVE  CarryInv'
<1>1. CASE shelf[MainOf(plan.resume)] = <<>>
  BY <1>1, BeginsCarried
<1>2. CASE shelf[MainOf(plan.resume)] # <<>>
  <2>1. PICK c, entries : Writes(c, entries)
    BY <1>2 DEF LoadsNamed
  <2>2. UNCHANGED <<plan, host, disk, shelf, importer, carried, versions>>
    BY DEF LoadsNamed
  <2>. QED
    BY <2>1, <2>2, WritesCarried
<1>. QED
  BY <1>1, <1>2

LEMMA LoadsCandidateCarried ==
    ASSUME PickInv, CarryInv, NEW c \in resume.left, LoadsCandidate(c)
    PROVE  CarryInv'
<1>1. CASE ~IsCandidate(shelf[MainOf(c[1])])
  BY <1>1, BeginsCarried
<1>2. CASE IsCandidate(shelf[MainOf(c[1])])
  <2>1. PICK entries : Writes(c, entries)
    BY <1>2 DEF LoadsCandidate
  <2>2. UNCHANGED <<plan, host, disk, shelf, importer, carried, versions>>
    BY DEF LoadsCandidate
  <2>. QED
    BY <2>1, <2>2, WritesCarried
<1>. QED
  BY <1>1, <1>2

\* Once an import has returned, or under a mirror, the store has every subagent.
LEMMA AllBrought ==
    ASSUME PickInv, CarryInv, carried, NEW p \in AgentPaths
    PROVE  CopyWhole(Shelved(p), disk[p])
  BY ExactIsWhole DEF CarryInv, StoreInv, ByMirror, ByImport

LEMMA ListsSubkeysCarried ==
    ASSUME PickInv, CarryInv, ListsSubkeys
    PROVE  CarryInv'
<1>0. DOMAIN resume = {"pc", "left", "at", "whole"} /\ (resume.whole => carried)
  BY ResumeFields
<1>1. /\ resume.pc = "subkeys" /\ UNCHANGED <<plan, host, disk, shelf, importer, tree,
                                              carried, versions>>
  BY DEF ListsSubkeys
<1>2. PICK left : /\ left = {p \in Paths : shelf[<<tree.session, p>>] # <<>>}
                  /\ resume' = [resume EXCEPT !.pc = "files", !.left = left]
  BY DEF ListsSubkeys
<1>3. resume'.pc = "files" /\ resume'.left = left /\ resume'.whole = resume.whole
  BY <1>0, <1>2
<1>4. Paths' = Paths /\ AgentPaths' = AgentPaths
  BY <1>1 DEF Paths, AgentPaths
<1>5. Configured /\ Loading
  BY <1>1 DEF CarryInv, TreeInv
<1>6. Configured'
  <2>1. Redacted(CredentialsOf(host))' = Redacted(CredentialsOf(host))
    BY <1>1 DEF Redacted, CredentialsOf, Readable
  <2>2. Stripped(Readable(host.settings))' = Stripped(Readable(host.settings))
    BY <1>1 DEF Stripped, Readable
  <2>. QED
    BY <1>1, <1>4, <1>5, <2>1, <2>2 DEF Configured
<1>7. ASSUME resume.whole, tree.session = plan.current, NEW p \in AgentPaths, p \notin left
      PROVE  Shown(p)
  <2>1. p \in Paths /\ Shelved(p) = <<>> /\ tree.files[p] = NoFile
    BY <1>1, <1>2, <1>5, <1>7 DEF AgentPaths, Shelved, KeyOf, Loading
  <2>2. PICK k, f : k = Shelved(p) /\ f = disk[p]
    OBVIOUS
  <2>3. CopyWhole(k, f)
    BY <1>0, <1>7, <2>2, AllBrought
  <2>4. CopyWhole(<<>>, f)
    BY <2>1, <2>2, <2>3
  <2>5. ReadFile(NoFile) = ReadFile(f) /\ (NoFile.lines = <<>> <=> f.lines = <<>>)
    BY <2>4, NothingBrought
  <2>6. f \in versions[p]
    BY <2>1, <2>2 DEF CarryInv, StoreInv, CarryTypes
  <2>. QED
    BY <2>1, <2>5, <2>6 DEF Shown
<1>8. Loading'
  <2>1. \A p \in AgentPaths : Shown(p)' <=> Shown(p)
    BY <1>1 DEF Shown
  <2>. QED
    BY <1>1, <1>3, <1>4, <1>7, <2>1 DEF Loading
<1>9. StoreInv'
  BY <1>0, <1>1, <1>3, StoreLooked
<1>. QED
  BY <1>6, <1>8, <1>9 DEF CarryInv, TreeInv

LEMMA LoadsSubkeyCarried ==
    ASSUME PickInv, CarryInv, NEW p \in Paths, LoadsSubkey(p)
    PROVE  CarryInv'
<1>0. /\ DOMAIN resume = {"pc", "left", "at", "whole"} /\ (resume.whole => carried)
      /\ DOMAIN tree = {"session", "main", "files", "credentials", "settings"}
  BY ResumeFields
<1>1. /\ resume.pc = "files"
      /\ UNCHANGED <<plan, host, disk, shelf, importer, carried, versions>>
  BY DEF LoadsSubkey
<1>2. resume' = [resume EXCEPT !.left = @ \ {p}]
  BY DEF LoadsSubkey
<1>3. /\ resume'.pc = "files" /\ resume'.left = resume.left \ {p}
      /\ resume'.whole = resume.whole
  BY <1>0, <1>1, <1>2
<1>4. Paths' = Paths /\ AgentPaths' = AgentPaths
  BY <1>1 DEF Paths, AgentPaths
<1>5. Configured /\ Loading
  BY <1>1 DEF CarryInv, TreeInv
<1>6. PICK k, g : /\ k = shelf[<<tree.session, p>>]
                  /\ g = [lines |-> LinesOf(k), meta |-> MetadataOf(k)]
  OBVIOUS
<1>7. IF IsSafe(p) THEN tree' = [tree EXCEPT !.files[p] = g] ELSE UNCHANGED tree
  BY <1>6 DEF LoadsSubkey
<1>8. /\ tree'.session = tree.session /\ tree'.credentials = tree.credentials
      /\ tree'.settings = tree.settings /\ DOMAIN tree'.files = Paths
      /\ \A q \in Paths : tree'.files[q] = IF q = p /\ IsSafe(p) THEN g ELSE tree.files[q]
  <2>1. DOMAIN tree.files = Paths
    BY <1>5 DEF Configured
  <2>2. CASE IsSafe(p)
    <3>1. tree' = [tree EXCEPT !.files = [tree.files EXCEPT ![p] = g]]
      BY <1>7, <2>2
    <3>2. tree'.files = [tree.files EXCEPT ![p] = g]
      BY <1>0, <3>1
    <3>. QED
      BY <1>0, <2>1, <2>2, <3>1, <3>2
  <2>3. CASE ~IsSafe(p)
    BY <1>7, <2>1, <2>3
  <2>. QED
    BY <2>2, <2>3
<1>9. Configured'
  <2>1. Redacted(CredentialsOf(host))' = Redacted(CredentialsOf(host))
    BY <1>1 DEF Redacted, CredentialsOf, Readable
  <2>2. Stripped(Readable(host.settings))' = Stripped(Readable(host.settings))
    BY <1>1 DEF Stripped, Readable
  <2>. QED
    BY <1>4, <1>5, <1>8, <2>1, <2>2 DEF Configured
<1>10. ASSUME resume.whole, tree.session = plan.current, p \in AgentPaths
       PROVE  Shown(p)'
  <2>1. /\ IsSeq(p) /\ k = Shelved(p)
    BY <1>6, <1>10, KeyIn DEF CarryInv, Shelved, KeyOf
  <2>2. IsAgentPath(p)
    BY <1>10 DEF AgentPaths
  <2>3. IsSafe(p)
    BY <2>1, <2>2, AgentSafe
  <2>4. PICK f : f = disk[p]
    OBVIOUS
  <2>5. CopyWhole(k, f)
    BY <1>0, <1>10, <2>1, <2>4, AllBrought
  <2>6. ReadAs(LinesOf(k), MetadataOf(k)) = ReadFile(f) /\ (LinesOf(k) = <<>> <=> f.lines = <<>>)
    BY <2>5, ReadsAlike
  <2>7. g.lines = LinesOf(k) /\ g.meta = MetadataOf(k)
    BY <1>6
  <2>8. ReadFile(g) = ReadFile(f) /\ (g.lines = <<>> <=> f.lines = <<>>)
    BY <2>6, <2>7 DEF ReadFile
  <2>9. tree'.files[p] = g
    BY <1>8, <2>3
  <2>10. f \in versions'[p]
    BY <1>1, <2>4 DEF CarryInv, StoreInv, CarryTypes
  <2>. QED
    BY <2>8, <2>9, <2>10 DEF Shown
<1>11. \A q \in AgentPaths : q # p => (Shown(q)' <=> Shown(q))
  BY <1>1, <1>8 DEF Shown, AgentPaths
<1>12. Loading'
  BY <1>1, <1>3, <1>4, <1>5, <1>8, <1>10, <1>11 DEF Loading
<1>13. StoreInv'
  BY <1>0, <1>1, <1>3, StoreLooked
<1>. QED
  BY <1>9, <1>12, <1>13 DEF CarryInv, TreeInv

LEMMA MaterializedCarried ==
    ASSUME PickInv, CarryInv, Materialized
    PROVE  CarryInv'
<1>0. DOMAIN resume = {"pc", "left", "at", "whole"} /\ (resume.whole => carried)
  BY ResumeFields
<1>1. /\ resume.pc = "files" /\ resume.left = {} /\ resume' = [resume EXCEPT !.pc = "ready"]
      /\ UNCHANGED <<plan, host, disk, shelf, importer, tree, carried, versions>>
  BY DEF Materialized
<1>2. resume'.pc = "ready" /\ resume'.whole = resume.whole
  BY <1>0, <1>1
<1>3. Paths' = Paths /\ AgentPaths' = AgentPaths
  BY <1>1 DEF Paths, AgentPaths
<1>4. Configured /\ Loading
  BY <1>1 DEF CarryInv, TreeInv
<1>5. Configured'
  <2>1. Redacted(CredentialsOf(host))' = Redacted(CredentialsOf(host))
    BY <1>1 DEF Redacted, CredentialsOf, Readable
  <2>2. Stripped(Readable(host.settings))' = Stripped(Readable(host.settings))
    BY <1>1 DEF Stripped, Readable
  <2>. QED
    BY <1>1, <1>3, <1>4, <2>1, <2>2 DEF Configured
<1>6. Loading'
  <2>1. \A p \in AgentPaths : Shown(p)' <=> Shown(p)
    BY <1>1 DEF Shown
  <2>. QED
    BY <1>1, <1>2, <1>3, <1>4, <2>1 DEF Loading
<1>7. StoreInv'
  BY <1>0, <1>1, <1>2, StoreLooked
<1>. QED
  BY <1>5, <1>6, <1>7 DEF CarryInv, TreeInv

LEMMA CarryInit == ASSUME CopiesInit, PickInv PROVE CarryInv
<1>1. ResumeInit /\ Plan(plan)
  BY PlanOf DEF CopiesInit, PickInv
<1>2. /\ disk = plan.disk /\ shelf = plan.shelf /\ importer.pc = "idle"
      /\ DOMAIN importer = {"pc", "left", "at", "runs"}
      /\ resume.pc = "idle" /\ resume.whole = FALSE /\ carried = plan.mirrored
      /\ versions = [p \in Paths |-> {disk[p]}]
  BY <1>1 DEF ResumeInit
<1>3. CarryTypes
  BY <1>2 DEF CarryTypes
<1>4. ASSUME NEW p \in AgentPaths
      PROVE  /\ plan.mirrored => CopyExact(Shelved(p), disk[p])
             /\ ~plan.mirrored => CopyPart(Shelved(p), disk[p])
  <2>1. PICK k, f : k = Shelved(p) /\ f = disk[p]
    OBVIOUS
  <2>2. Begun(k, f, plan.mirrored) /\ IsSeq(f.lines)
    BY <1>1, <1>2, <2>1 DEF Plan, AgentPaths, Paths, Shelved, KeyOf, File
  <2>3. CASE plan.mirrored
    <3>1. LinesOf(k) = f.lines /\ MetadataOf(k) = f.meta
      BY <2>2, <2>3 DEF Begun
    <3>2. Follows(f.lines, f.lines)
      BY <2>2, FollowsItself
    <3>. QED
      BY <2>1, <2>3, <3>1, <3>2 DEF CopyExact, CopyLines
  <2>4. CASE ~plan.mirrored
    <3>1. k = <<>>
      BY <2>2, <2>4 DEF Begun
    <3>2. CopyPart(<<>>, f)
      BY NoneIsPart
    <3>. QED
      BY <2>1, <2>4, <3>1, <3>2
  <2>. QED
    BY <2>3, <2>4
<1>5. ByMirror
  BY <1>2, <1>4 DEF ByMirror
<1>6. ByImport
  BY <1>2, <1>4 DEF ByImport
<1>. QED
  BY <1>2, <1>3, <1>5, <1>6 DEF CarryInv, StoreInv, TreeInv

LEMMA NothingCarried ==
    ASSUME PickInv, CarryInv, UNCHANGED resumeVars
    PROVE  CarryInv'
<1>1. UNCHANGED <<plan, host, disk, shelf, importer, resume, tree, carried, versions>>
  BY DEF resumeVars
<1>2. StoreInv'
  BY <1>1, StoreLooked, ResumeFields
<1>3. TreeInv'
  BY <1>1, TreeStays DEF CarryInv
<1>. QED
  BY <1>2, <1>3 DEF CarryInv

LEMMA CarryInvariant == CopiesSpec => []CarryInv
<1>1. CopiesInit /\ PickInv => CarryInv
  BY CarryInit
<1>2. PickInv /\ CarryInv /\ [CopiesNext]_<<vars, resumeVars>> => CarryInv'
  <2>. SUFFICES ASSUME PickInv, CarryInv, [CopiesNext]_<<vars, resumeVars>>
                PROVE  CarryInv'
    OBVIOUS
  <2>1. CASE UNCHANGED resumeVars
    BY <2>1, NothingCarried
  <2>2. CASE ResumeNext
    <3>1. ASSUME NEW p \in AgentPaths PROVE p \in Paths
      BY <3>1 DEF AgentPaths
    <3>. QED
      BY <2>2, <3>1, CliWritesCarried, CliWritesMetaCarried, OthersKeep,
         ImportBeginsCarried, ImportsFileCarried, ImportsSidecarCarried, ImportEndsCarried,
         BeginsCarried, LoadsNamedCarried, LoadsCandidateCarried, ListsSubkeysCarried,
         LoadsSubkeyCarried, MaterializedCarried
         DEF ResumeNext
  <2>. QED
    BY <2>1, <2>2 DEF CopiesNext
<1>. QED
  BY <1>1, <1>2, PickInvariant, PTL DEF CopiesSpec

LEMMA CarriedInv == ASSUME PickInv, CarryInv PROVE SubagentsCarried
<1>1. ASSUME carried, NEW p \in AgentPaths
      PROVE  ReadFromStore(shelf[KeyOf(p)]) = ReadFile(disk[p])
  <2>1. PICK k, f : k = Shelved(p) /\ f = disk[p]
    OBVIOUS
  <2>2. CopyWhole(k, f)
    BY <1>1, <2>1, AllBrought
  <2>3. ReadAs(LinesOf(k), MetadataOf(k)) = ReadFile(f)
    BY <2>2, ReadsAlike
  <2>. QED
    BY <2>1, <2>3 DEF ReadFromStore, Shelved
<1>2. tree.session # Null => resume.pc \in {"subkeys", "files", "ready"}
  BY DEF PickInv, Waiting, ResumeTypes, Pcs
<1>3. ASSUME tree.session # Null, NEW p \in Paths, tree.files[p] # NoFile
      PROVE  /\ ~Outside(p)
             /\ p \in AgentPaths => FileKey(tree.session, p) = <<tree.session, p>>
  <2>1. IsSafe(p)
    BY <1>2, <1>3 DEF CarryInv, TreeInv, Configured
  <2>2. IsSeq(p)
    BY KeyIn DEF CarryInv
  <2>3. ~Outside(p)
    BY <2>1, <2>2, SafeInside
  <2>. QED
    BY <2>3 DEF AgentPaths, IsAgentPath, FileKey
<1>4. ASSUME Ready, plan.subkeys, resume.whole, tree.session = plan.current
      PROVE  \A p \in AgentPaths : \E f \in versions[p] :
                 /\ ReadFile(tree.files[p]) = ReadFile(f)
                 /\ tree.files[p].lines = <<>> <=> f.lines = <<>>
  BY <1>4 DEF Ready, CarryInv, TreeInv, Loading, Shown
<1>. QED
  BY <1>1, <1>3, <1>4 DEF SubagentsCarried

LEMMA ConfigurationInv == ASSUME PickInv, CarryInv PROVE ConfigurationCarried
<1>. SUFFICES ASSUME tree.session # Null PROVE ConfigurationCarried
  BY DEF ConfigurationCarried
<1>1. resume.pc \in {"subkeys", "files", "ready"} /\ Host(host)
  BY PlanOf DEF PickInv, Waiting, ResumeTypes, Pcs
<1>2. /\ tree.credentials = Redacted(CredentialsOf(host))
      /\ tree.settings \in {"none", Stripped(Readable(host.settings))}
  BY <1>1 DEF CarryInv, TreeInv, Configured
<1>3. tree.settings # "plugins"
  BY <1>2 DEF Stripped
<1>4. PICK from, is : /\ CredentialsOf(host) = [from |-> from, is |-> is]
                      /\ \/ /\ host.mac /\ ~host.dir /\ ~host.env
                            /\ Readable(host.keychain) # "none"
                            /\ from = "keychain" /\ is = Readable(host.keychain)
                         \/ /\ ~(/\ host.mac /\ ~host.dir /\ ~host.env
                                 /\ Readable(host.keychain) # "none")
                            /\ from = "file" /\ is = Readable(host.file)
  <2>1. Readable(host.keychain) # "none" => Readable(host.keychain) = host.keychain
    BY DEF Readable
  <2>2. CASE /\ host.mac /\ ~host.dir /\ ~host.env
             /\ Readable(host.keychain) # "none"
    <3>1. CredentialsOf(host) = [from |-> "keychain", is |-> host.keychain]
      BY <2>2 DEF CredentialsOf
    <3>. QED
      BY <2>1, <2>2, <3>1
  <2>3. CASE ~(/\ host.mac /\ ~host.dir /\ ~host.env
               /\ Readable(host.keychain) # "none")
    <3>1. CredentialsOf(host) = [from |-> "file", is |-> Readable(host.file)]
      BY <2>3 DEF CredentialsOf
    <3>. QED
      BY <2>3, <3>1
  <2>. QED
    BY <2>2, <2>3
<1>5. PICK c : c = [from |-> from, is |-> is]
  OBVIOUS
<1>6. c.from = from /\ c.is = is /\ tree.credentials = Redacted(c)
  BY <1>2, <1>4, <1>5
<1>7. /\ tree.credentials.is = (IF is = "refreshable" THEN "access" ELSE is)
      /\ tree.credentials.from = from
  BY <1>5, <1>6 DEF Redacted
<1>8. tree.credentials.is # "refreshable"
  BY <1>7
<1>9. ~host.env =>
         Account(host, "none",
                 IF tree.credentials.is = "none" THEN "none" ELSE tree.credentials.from)
         = Account(host, IF host.mac /\ ~host.dir THEN Readable(host.keychain) ELSE "none",
                   IF Readable(host.file) = "none" THEN "none" ELSE "file")
  <2>1. SUFFICES ASSUME ~host.env
        PROVE  (IF tree.credentials.is = "none" THEN "none" ELSE tree.credentials.from)
               = IF (IF host.mac /\ ~host.dir THEN Readable(host.keychain) ELSE "none") # "none"
                 THEN "keychain"
                 ELSE IF Readable(host.file) = "none" THEN "none" ELSE "file"
    BY DEF Account
  <2>2. tree.credentials.is = "none" <=> is = "none"
    BY <1>7
  <2>. QED
    BY <1>4, <1>7, <2>1, <2>2
<1>. QED
  BY <1>3, <1>8, <1>9 DEF ConfigurationCarried

\* What a resumed CLI finds in its directory is what its caller's would have
\* found: of every subagent, by mirror or by import, its messages and what
\* spawned it; nothing outside of the session's directory; the account of the
\* caller without its refresh token, and settings without plugins
\* (materialize_resume_session()).
THEOREM ResumeHolds == CopiesSpec => []ResumeFaithful
<1>1. PickInv /\ CarryInv => ResumeFaithful
  BY CarriedInv, ConfigurationInv DEF ResumeFaithful
<1>. QED
  BY <1>1, PickInvariant, CarryInvariant, PTL
=============================================================================
