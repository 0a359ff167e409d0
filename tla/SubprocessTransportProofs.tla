---------------------- MODULE SubprocessTransportProofs ----------------------
(***************************************************************************)
(* Theorems about SubprocessTransport, for any number of writers: no child *)
(* is orphaned, no line is glued to another, the CLI is signalled only     *)
(* after the end of its stdin, and an exit error is the CLI's own.         *)
(*                                                                         *)
(* And about CliOutput, for every text the CLI may write and every limit:  *)
(* its two readers get what was written, wherever the chunks of it are cut.*)
(***************************************************************************)
EXTENDS CliOutput, NaturalsInduction, WellFoundedInduction, FiniteSetTheorems,
        SequenceTheorems, TLAPS

\* A line that may have been cut off has gone out.
Cut == \E i \in DOMAIN lines : lines[i] = "partial"

\* Only a connected transport is ready or sends; a cut line ends both.
Sending == {w \in Writers : wpc[w] = "sending"}
Connected == ready \/ Cut \/ Sending # {} => proc # "none"
CutIsLast == Cut => ~ready /\ Sending = {}

\* From StopInput on stdin is closed, and signals are sent from there on only.
Stopped ==
    /\ kpc \in Waits => pipe = "closed" /\ ~ready
    /\ signal # "none" /\ ~halted => kpc \notin {"idle", "locking"}

\* A reader that runs has a process, and close() has not begun.
ReaderAttached ==
    /\ rpc \in {"reading", "waiting"} => attached /\ kpc = "idle"
    /\ proc = "none" => rpc = "idle"

\* What holds of stdin and its writers, and of the child and its reader.
LineInv == OneSender /\ LinesWhole /\ Connected /\ CutIsLast
ChildInv == ChildTracked /\ InputEndsFirst /\ Stopped /\ ReaderAttached /\ ExitFaithful

IInv == TypeOK /\ LineInv /\ ChildInv

-----------------------------------------------------------------------------
USE DEF child, flags, stdin, tasks

\* Every step keeps the types.
LEMMA TypeStep ==
    ASSUME TypeOK, [Next]_vars
    PROVE  TypeOK'
<1> USE WritersAssumption, TransportAssumption DEF TypeOK, Waits
<1>1. CASE ~halted /\ Connect
  BY <1>1 DEF Connect
<1>2. CASE ~halted /\ ConnectFails
  BY <1>2 DEF ConnectFails
<1>3. CASE ~halted /\ EndInput
  BY <1>3 DEF EndInput
<1>4. CASE ~halted /\ InputEnded
  BY ZenonT(60), <1>4 DEF InputEnded, CloseStdin
<1>5. CASE ~halted /\ StdoutEnds
  BY <1>5 DEF StdoutEnds
<1>6. CASE ~halted /\ StdoutUnreadable
  BY <1>6 DEF StdoutUnreadable
<1>7. CASE ~halted /\ ReaderReturns
  BY <1>7 DEF ReaderReturns, ReturnCode, Exited
<1>8. CASE ~halted /\ ReaderCancelled
  BY <1>8 DEF ReaderCancelled
<1>9. CASE ~halted /\ Close
  BY <1>9 DEF Close, ReaderGone
<1>10. CASE ~halted /\ CloseUnconnected
  BY ZenonT(60), <1>10 DEF CloseUnconnected
<1>11. CASE ~halted /\ StopInput
  BY ZenonT(60), <1>11 DEF StopInput, MayProceed, CloseStdin, Exited
<1>12. CASE ~halted /\ GraceExpires
  BY <1>12 DEF GraceExpires, FirstWait, Exited, Waits
<1>13. CASE ~halted /\ TermExpires
  BY <1>13 DEF TermExpires, LastSignal, Exited
<1>14. CASE ~halted /\ WaitEnds
  BY <1>14 DEF WaitEnds, Waits, Exited
<1>15. CASE ~halted /\ Reap
  BY ZenonT(60), <1>15 DEF Reap, StillTracked, Exited, CloseStdin
<1>16. CASE ~halted /\ CloseAborted
  BY <1>16 DEF CloseAborted, Waits, StillTracked, Exited
<1>17. ASSUME NEW w \in Writers, ~halted, Write(w) PROVE TypeOK'
  BY <1>17 DEF Write
<1>18. ASSUME NEW w \in Writers, ~halted, WriteRefused(w) PROVE TypeOK'
  BY <1>18 DEF WriteRefused, WriteReturns, Release
<1>19. ASSUME NEW w \in Writers, ~halted, WriteStarts(w) PROVE TypeOK'
  BY <1>19 DEF WriteStarts, Usable, Exited
<1>20. ASSUME NEW w \in Writers, ~halted, WriteDone(w) PROVE TypeOK'
  BY <1>20 DEF WriteDone, WriteReturns, Release
<1>21. ASSUME NEW w \in Writers, ~halted, WriteFails(w) PROVE TypeOK'
  <2>1. Append(lines, "partial") \in Seq({"whole", "partial"})
    OBVIOUS
  <2>2. lines' \in Seq({"whole", "partial"})
    BY <1>21, <2>1 DEF WriteFails
  <2>3. wpc' \in [Writers -> {"idle", "queued", "sending", "written", "refused",
                            "failed", "cancelled"}]
    BY <1>21 DEF WriteFails, WriteReturns
  <2>4. lock' \in Writers \cup {Free}
    BY <1>21 DEF WriteFails, WriteReturns, Release
  <2>5. /\ ready' = FALSE /\ exitError' = TRUE
        /\ UNCHANGED <<proc, signal, tracked, attached, stdinStream, pipe, epc,
                       rpc, kpc, halted>>
    BY <1>21 DEF WriteFails, WriteReturns, Spoiled
  <2>6. QED
    BY ZenonT(60), <2>2, <2>3, <2>4, <2>5
<1>22. ASSUME NEW w \in Writers, ~halted, WriteCancelled(w) PROVE TypeOK'
  BY <1>22 DEF WriteCancelled, WriteReturns, Release
<1>23. ASSUME NEW x \in {"ok", "error"}, Exit(x) PROVE TypeOK'
  BY <1>23 DEF Exit
<1>24. CASE AtExit
  <2>1. signal' \in {"none", "term", "kill"} /\ halted' = TRUE /\ tracked' = FALSE
    BY <1>24 DEF AtExit
  <2>2. UNCHANGED <<proc, attached, ready, exitError, stdinStream, pipe, lines,
                    lock, wpc, epc, rpc, kpc>>
    BY <1>24 DEF AtExit
  <2>3. QED
    BY ZenonT(60), <2>1, <2>2
<1>25. CASE UNCHANGED vars
  BY <1>25 DEF vars
<1>26. QED
  BY <1>1, <1>2, <1>3, <1>4, <1>5, <1>6, <1>7, <1>8, <1>9, <1>10, <1>11,
     <1>12, <1>13, <1>14, <1>15, <1>16, <1>17, <1>18, <1>19, <1>20, <1>21,
     <1>22, <1>23, <1>24, <1>25
  DEF Next, Running, WriteStep

\* One sender at a time, and nothing after a cut line.
LEMMA LineStep ==
    ASSUME TypeOK, TypeOK', LineInv, [Next]_vars
    PROVE  LineInv'
<1> USE WritersAssumption
    DEF TypeOK, LineInv, OneSender, LinesWhole, Connected, CutIsLast, Cut, Sending
<1>1. CASE ~halted /\ Connect
  BY <1>1 DEF Connect
<1>2. CASE ~halted /\ ConnectFails
  BY <1>2 DEF ConnectFails
<1>3. CASE ~halted /\ EndInput
  BY <1>3 DEF EndInput
<1>4. CASE ~halted /\ InputEnded
  BY <1>4 DEF InputEnded, CloseStdin
<1>5. CASE ~halted /\ StdoutEnds
  BY <1>5 DEF StdoutEnds
<1>6. CASE ~halted /\ StdoutUnreadable
  BY <1>6 DEF StdoutUnreadable
<1>7. CASE ~halted /\ ReaderReturns
  BY <1>7 DEF ReaderReturns, ReturnCode, Exited
<1>8. CASE ~halted /\ ReaderCancelled
  BY <1>8 DEF ReaderCancelled
<1>9. CASE ~halted /\ Close
  BY <1>9 DEF Close, ReaderGone
<1>10. CASE ~halted /\ CloseUnconnected
  BY <1>10 DEF CloseUnconnected
<1>11. CASE ~halted /\ StopInput
  BY <1>11 DEF StopInput, MayProceed, CloseStdin, Exited
<1>12. CASE ~halted /\ GraceExpires
  BY <1>12 DEF GraceExpires, FirstWait, Exited, Waits
<1>13. CASE ~halted /\ TermExpires
  BY <1>13 DEF TermExpires, LastSignal, Exited
<1>14. CASE ~halted /\ WaitEnds
  BY <1>14 DEF WaitEnds, Waits, Exited
<1>15. CASE ~halted /\ Reap
  BY <1>15 DEF Reap, StillTracked, Exited, CloseStdin
<1>16. CASE ~halted /\ CloseAborted
  BY <1>16 DEF CloseAborted, Waits, StillTracked, Exited
<1>17. ASSUME NEW w \in Writers, ~halted, Write(w) PROVE LineInv'
  BY <1>17 DEF Write
<1>18. ASSUME NEW w \in Writers, ~halted, WriteRefused(w) PROVE LineInv'
  BY <1>18 DEF WriteRefused, WriteReturns, Release
<1>19. ASSUME NEW w \in Writers, ~halted, WriteStarts(w) PROVE LineInv'
  BY <1>19 DEF WriteStarts, Usable, Exited
<1>20. ASSUME NEW w \in Writers, ~halted, WriteDone(w) PROVE LineInv'
  BY <1>20 DEF WriteDone, WriteReturns, Release
<1>21. ASSUME NEW w \in Writers, ~halted, WriteFails(w) PROVE LineInv'
  BY <1>21 DEF WriteFails, WriteReturns, Release, Spoiled
<1>22. ASSUME NEW w \in Writers, ~halted, WriteCancelled(w) PROVE LineInv'
  BY <1>22 DEF WriteCancelled, WriteReturns, Release
<1>23. ASSUME NEW x \in {"ok", "error"}, Exit(x) PROVE LineInv'
  BY <1>23 DEF Exit
<1>24. CASE AtExit
  BY <1>24 DEF AtExit
<1>25. CASE UNCHANGED vars
  BY <1>25 DEF vars
<1>26. QED
  BY <1>1, <1>2, <1>3, <1>4, <1>5, <1>6, <1>7, <1>8, <1>9, <1>10, <1>11,
     <1>12, <1>13, <1>14, <1>15, <1>16, <1>17, <1>18, <1>19, <1>20, <1>21,
     <1>22, <1>23, <1>24, <1>25
  DEF Next, Running, WriteStep

\* The child, its signals and its reader.
LEMMA ChildStep ==
    ASSUME TypeOK, ChildInv, [Next]_vars
    PROVE  ChildInv'
<1> USE DEF TypeOK, ChildInv, ChildTracked, InputEndsFirst, Stopped, ReaderAttached,
            ExitFaithful, Waits
<1>1. CASE ~halted /\ Connect
  BY <1>1 DEF Connect
<1>2. CASE ~halted /\ ConnectFails
  BY <1>2 DEF ConnectFails
<1>3. CASE ~halted /\ EndInput
  BY <1>3 DEF EndInput
<1>4. CASE ~halted /\ InputEnded
  BY <1>4 DEF InputEnded, CloseStdin
<1>5. CASE ~halted /\ StdoutEnds
  BY <1>5 DEF StdoutEnds
<1>6. CASE ~halted /\ StdoutUnreadable
  BY <1>6 DEF StdoutUnreadable
<1>7. CASE ~halted /\ ReaderReturns
  BY <1>7 DEF ReaderReturns, ReturnCode, Exited
<1>8. CASE ~halted /\ ReaderCancelled
  BY <1>8 DEF ReaderCancelled
<1>9. CASE ~halted /\ Close
  BY <1>9 DEF Close, ReaderGone
<1>10. CASE ~halted /\ CloseUnconnected
  BY <1>10 DEF CloseUnconnected
<1>11. CASE ~halted /\ StopInput
  BY <1>11 DEF StopInput, MayProceed, CloseStdin, Exited
<1>12. CASE ~halted /\ GraceExpires
  BY <1>12 DEF GraceExpires, FirstWait, Exited, Waits
<1>13. CASE ~halted /\ TermExpires
  BY <1>13 DEF TermExpires, LastSignal, Exited
<1>14. CASE ~halted /\ WaitEnds
  BY <1>14 DEF WaitEnds, Waits, Exited
<1>15. CASE ~halted /\ Reap
  BY <1>15 DEF Reap, StillTracked, Exited, CloseStdin
<1>16. CASE ~halted /\ CloseAborted
  BY <1>16 DEF CloseAborted, Waits, StillTracked, Exited
<1>17. ASSUME NEW w \in Writers, ~halted, Write(w) PROVE ChildInv'
  BY <1>17 DEF Write
<1>18. ASSUME NEW w \in Writers, ~halted, WriteRefused(w) PROVE ChildInv'
  BY <1>18 DEF WriteRefused, WriteReturns, Release
<1>19. ASSUME NEW w \in Writers, ~halted, WriteStarts(w) PROVE ChildInv'
  BY <1>19 DEF WriteStarts, Usable, Exited
<1>20. ASSUME NEW w \in Writers, ~halted, WriteDone(w) PROVE ChildInv'
  BY <1>20 DEF WriteDone, WriteReturns, Release
<1>21. ASSUME NEW w \in Writers, ~halted, WriteFails(w) PROVE ChildInv'
  BY <1>21 DEF WriteFails, WriteReturns, Release, Spoiled
<1>22. ASSUME NEW w \in Writers, ~halted, WriteCancelled(w) PROVE ChildInv'
  BY <1>22 DEF WriteCancelled, WriteReturns, Release
<1>23. ASSUME NEW x \in {"ok", "error"}, Exit(x) PROVE ChildInv'
  BY <1>23 DEF Exit
<1>24. CASE AtExit
  BY <1>24 DEF AtExit
<1>25. CASE UNCHANGED vars
  BY <1>25 DEF vars
<1>26. QED
  BY <1>1, <1>2, <1>3, <1>4, <1>5, <1>6, <1>7, <1>8, <1>9, <1>10, <1>11,
     <1>12, <1>13, <1>14, <1>15, <1>16, <1>17, <1>18, <1>19, <1>20, <1>21,
     <1>22, <1>23, <1>24, <1>25
  DEF Next, Running, WriteStep

(***************************************************************************)
(* IInv holds of every reachable state.                                    *)
(***************************************************************************)
THEOREM Invariance == Spec => []IInv
<1>1. Init => IInv
  <2> SUFFICES ASSUME Init PROVE IInv
    OBVIOUS
  <2>1. TypeOK
    <3>1. lines \in Seq({"whole", "partial"})
      BY DEF Init
    <3>2. {attached, tracked, ready, exitError, stdinStream, halted} \subseteq BOOLEAN
      BY DEF Init
    <3>3. wpc \in [Writers -> {"idle", "queued", "sending", "written", "refused",
                             "failed", "cancelled"}]
      BY DEF Init
    <3>4. QED
      BY <3>1, <3>2, <3>3 DEF Init, TypeOK, Waits
  <2>2. ~Cut /\ Sending = {}
    BY DEF Init, Cut, Sending
  <2>3. LineInv
    BY <2>2 DEF Init, LineInv, OneSender, LinesWhole, Connected, CutIsLast, Sending
  <2>4. ChildInv
    BY DEF Init, ChildInv, ChildTracked, InputEndsFirst, Stopped, ReaderAttached,
       ExitFaithful, Waits
  <2>5. QED
    BY <2>1, <2>3, <2>4 DEF IInv
<1>2. IInv /\ [Next]_vars => IInv'
  <2> SUFFICES ASSUME IInv, [Next]_vars PROVE IInv'
    OBVIOUS
  <2>1. TypeOK'
    BY TypeStep DEF IInv
  <2>2. LineInv'
    BY <2>1, LineStep DEF IInv
  <2>3. ChildInv'
    BY ChildStep DEF IInv
  <2>4. QED
    BY <2>1, <2>2, <2>3 DEF IInv
<1>3. QED
  BY <1>1, <1>2, PTL DEF Spec

(***************************************************************************)
(* The variables of the transport have their types.                        *)
(***************************************************************************)
THEOREM TypeCorrect == Spec => []TypeOK
<1>1. IInv => TypeOK
  BY DEF IInv
<1>2. QED
  BY <1>1, Invariance, PTL

(***************************************************************************)
(* No orphans: whatever close() ran into, a child that runs is tracked for *)
(* the exit of the interpreter, or was sent a signal by it.                *)
(***************************************************************************)
THEOREM NoOrphans == Spec => []ChildTracked
<1>1. IInv => ChildTracked
  BY DEF IInv, ChildInv
<1>2. QED
  BY <1>1, Invariance, PTL

(***************************************************************************)
(* One sender at a time, and no line is written after one that may have    *)
(* been cut off, however writers, end_input() and a close() that goes on   *)
(* without the lock contend for stdin.                                     *)
(***************************************************************************)
THEOREM StdinStaysSound == Spec => []StdinSound
<1>1. IInv => StdinSound
  BY DEF IInv, LineInv, StdinSound
<1>2. QED
  BY <1>1, Invariance, PTL

(***************************************************************************)
(* close() signals the CLI only after the end of its stdin, and the exit   *)
(* error that read_messages() raises is the CLI's own.                     *)
(***************************************************************************)
THEOREM CloseKeepsOrder == Spec => []CloseOrderly
<1>1. IInv => CloseOrderly
  BY DEF IInv, ChildInv, CloseOrderly
<1>2. QED
  BY <1>1, Invariance, PTL

(***************************************************************************)
(* What the CLI writes changes nothing of its process and its stdin: the   *)
(* theorems above are about the transport and its output together too.     *)
(***************************************************************************)
THEOREM OutputApart == CliSpec => Spec
<1>1. CliInit => Init
  BY DEF CliInit
<1>2. [CliNext]_<<vars, outputVars>> => [Next]_vars
  BY DEF CliNext
<1>. QED
  BY <1>1, <1>2, PTL DEF CliSpec, Spec

-----------------------------------------------------------------------------
\* Sequences of sequences, put together

\* A set of natural numbers that is not empty has a least member.
LEMMA LeastNat ==
    ASSUME NEW T \in SUBSET Nat, T # {}
    PROVE  \E m \in T : \A n \in T : m <= n
<1>1. IsWellFoundedOn(OpToRel(<, Nat), Nat)
  BY NatLessThanWellFounded
<1>2. PICK m \in T : \A n \in T : ~(<<n, m>> \in OpToRel(<, Nat))
  BY <1>1, WFMin
<1>3. \A n \in T : ~(n < m)
  BY <1>2 DEF OpToRel
<1>. QED
  BY <1>3

\* What holds of 0, and of n + 1 if of n, holds up to N.
LEMMA Climb ==
    ASSUME NEW N \in Nat, NEW T \in SUBSET (0..N), 0 \in T,
           \A n \in 0..(N - 1) : n \in T => n + 1 \in T
    PROVE  N \in T
<1>. DEFINE B == (0..N) \ T
<1>. SUFFICES ASSUME B # {} PROVE FALSE
  OBVIOUS
<1>0. B \in SUBSET Nat
  OBVIOUS
<1>1. PICK m \in B : \A n \in B : m <= n
  BY <1>0, LeastNat
<1>2. m # 0 /\ m - 1 \in 0..(N - 1) /\ m - 1 \notin B
  BY <1>1
<1>3. m - 1 \in T /\ (m - 1) + 1 = m
  BY <1>2
<1>. QED
  BY <1>1, <1>2, <1>3

\* A sequence that is not empty is one that a last element was appended to.
LEMMA Appended ==
    ASSUME NEW S, NEW s \in Seq(S), NEW n \in 0..(Len(s) - 1)
    PROVE  /\ SubSeq(s, 1, n) \in Seq(S) /\ s[n + 1] \in S
           /\ SubSeq(s, 1, n + 1) = Append(SubSeq(s, 1, n), s[n + 1])
  OBVIOUS

LEMMA WholeIs ==
    ASSUME NEW S, NEW s \in Seq(S)
    PROVE  SubSeq(s, 1, Len(s)) = s /\ SubSeq(s, 1, 0) = <<>> /\ Len(s) \in Nat
  OBVIOUS

\* The recursion of FlattenSeq.
FlatStep(ss, f, i) == IF i = 1 THEN ss[i] ELSE f[i - 1] \o ss[i]

LEMMA FlatExists ==
    ASSUME NEW ss, NEW N \in Nat
    PROVE  \E f : f = [i \in 1..N |-> FlatStep(ss, f, i)]
<1>. DEFINE T == {n \in 0..N : \E f : f = [i \in 1..n |-> FlatStep(ss, f, i)]}
<1>1. 0 \in T
  <2>. DEFINE f == [i \in 1..0 |-> <<>>]
  <2>1. f = [i \in 1..0 |-> FlatStep(ss, f, i)]
    OBVIOUS
  <2>2. \E h : h = [i \in 1..0 |-> FlatStep(ss, h, i)]
    BY <2>1
  <2>3. 0 \in 0..N
    OBVIOUS
  <2>. QED
    BY <2>2, <2>3, Zenon
<1>2. ASSUME NEW n \in 0..(N - 1), n \in T PROVE n + 1 \in T
  <2>1. PICK f : f = [i \in 1..n |-> FlatStep(ss, f, i)]
    BY <1>2
  <2>. DEFINE g == [i \in 1..(n + 1) |-> FlatStep(ss, f, i)]
  <2>2. \A i \in 1..n : g[i] = f[i]
    <3>1. \A i \in 1..n : f[i] = FlatStep(ss, f, i)
      BY <2>1
    <3>. QED
      BY <3>1
  <2>3. \A i \in 1..(n + 1) : FlatStep(ss, g, i) = FlatStep(ss, f, i)
    <3>. HIDE DEF g
    <3>1. \A i \in 1..(n + 1) : i # 1 => i - 1 \in 1..n
      OBVIOUS
    <3>. QED
      BY <2>2, <3>1 DEF FlatStep
  <2>4. g = [i \in 1..(n + 1) |-> FlatStep(ss, g, i)]
    BY <2>3
  <2>. HIDE DEF g
  <2>. QED
    BY <2>4
<1>. HIDE DEF T
<1>3. T \in SUBSET (0..N)
  BY DEF T
<1>4. N \in T
  BY <1>1, <1>2, <1>3, Climb
<1>. QED
  BY <1>4 DEF T

LEMMA FlatBy ==
    ASSUME NEW U, NEW ss \in Seq(U), ss # <<>>
    PROVE  \E f : /\ \A i \in 1..Len(ss) : f[i] = FlatStep(ss, f, i)
                  /\ FlattenSeq(ss) = f[Len(ss)]
<1>. DEFINE flatten == CHOOSE f : f = [i \in 1..Len(ss) |-> FlatStep(ss, f, i)]
<1>1. flatten = [i \in 1..Len(ss) |-> FlatStep(ss, flatten, i)]
  BY FlatExists
<1>2. FlattenSeq(ss) = flatten[Len(ss)]
  <2>1. Len(ss) # 0
    OBVIOUS
  <2>. QED
    BY <2>1 DEF FlattenSeq, FlatStep
<1>. HIDE DEF flatten
<1>3. \A i \in 1..Len(ss) : flatten[i] = FlatStep(ss, flatten, i)
  BY <1>1
<1>. QED
  BY <1>2, <1>3

LEMMA FlatNone == FlattenSeq(<<>>) = <<>>
  BY DEF FlattenSeq

LEMMA FlatOne ==
    ASSUME NEW U, NEW x \in U
    PROVE  FlattenSeq(<<x>>) = x
<1>1. <<x>> \in Seq(U) /\ <<x>> # <<>> /\ Len(<<x>>) = 1
  OBVIOUS
<1>2. PICK f : /\ \A i \in 1..1 : f[i] = FlatStep(<<x>>, f, i)
               /\ FlattenSeq(<<x>>) = f[1]
  BY <1>1, FlatBy
<1>. QED
  BY <1>2 DEF FlatStep

LEMMA FlatAppend ==
    ASSUME NEW U, NEW ss \in Seq(Seq(U)), NEW x \in Seq(U)
    PROVE  FlattenSeq(Append(ss, x)) = FlattenSeq(ss) \o x
<1>1. CASE ss = <<>>
  <2>1. Append(ss, x) = <<x>> /\ <<>> \o x = x
    BY <1>1
  <2>. QED
    BY <1>1, <2>1, FlatNone, FlatOne
<1>2. CASE ss # <<>>
  <2>. DEFINE N == Len(ss)
              tt == Append(ss, x)
  <2>1. /\ N \in Nat \ {0} /\ tt \in Seq(Seq(U)) /\ tt # <<>> /\ Len(tt) = N + 1
        /\ tt[N + 1] = x /\ \A i \in 1..N : tt[i] = ss[i]
    <3>1. N \in Nat /\ N # 0
      BY <1>2, EmptySeq, LenProperties
    <3>2. tt \in Seq(Seq(U)) /\ tt # <<>> /\ Len(tt) = N + 1 /\ tt[N + 1] = x
      BY AppendProperties
    <3>3. \A i \in 1..N : tt[i] = ss[i]
      BY AppendProperties
    <3>. QED
      BY <3>1, <3>2, <3>3
  <2>. HIDE DEF N, tt
  <2>2. PICK f : /\ \A i \in 1..N : f[i] = FlatStep(ss, f, i)
                 /\ FlattenSeq(ss) = f[N]
    BY <1>2, FlatBy DEF N
  <2>3. PICK g : /\ \A i \in 1..(N + 1) : g[i] = FlatStep(tt, g, i)
                 /\ FlattenSeq(tt) = g[N + 1]
    BY <2>1, FlatBy
  <2>. DEFINE T == {n \in 0..N : n # 0 => g[n] = f[n]}
  <2>4. 0 \in T /\ T \in SUBSET (0..N)
    BY <2>1
  <2>5. ASSUME NEW n \in 0..(N - 1), n \in T PROVE n + 1 \in T
    <3>1. n + 1 \in 1..N /\ n + 1 \in 1..(N + 1) /\ (n + 1) - 1 = n /\ (n + 1 # 1 => n # 0)
      BY <2>1
    <3>2. g[n + 1] = FlatStep(tt, g, n + 1) /\ f[n + 1] = FlatStep(ss, f, n + 1)
      BY <2>2, <2>3, <3>1
    <3>3. FlatStep(tt, g, n + 1) = FlatStep(ss, f, n + 1)
      BY <2>1, <2>5, <3>1 DEF FlatStep
    <3>. QED
      BY <3>1, <3>2, <3>3
  <2>6. g[N] = f[N]
    <3>. HIDE DEF T
    <3>1. N \in T
      BY <2>1, <2>4, <2>5, Climb
    <3>. QED
      BY <2>1, <3>1 DEF T
  <2>7. N + 1 \in 1..(N + 1) /\ N + 1 # 1 /\ (N + 1) - 1 = N
    BY <2>1
  <2>8. g[N + 1] = g[N] \o x
    BY <2>1, <2>3, <2>7 DEF FlatStep
  <2>. QED
    BY <2>2, <2>3, <2>6, <2>8 DEF tt
<1>. QED
  BY <1>1, <1>2

\* What holds of the empty sequence, and of every one that an element was
\* appended to if it holds without it, holds of all.
LEMMA SeqClimb ==
    ASSUME NEW S, NEW T \in SUBSET Seq(S), <<>> \in T,
           \A t \in T, x \in S : Append(t, x) \in T,
           NEW s \in Seq(S)
    PROVE  s \in T
<1>. DEFINE N == Len(s)
            A == {n \in 0..N : SubSeq(s, 1, n) \in T}
<1>0. N \in Nat
  OBVIOUS
<1>1. 0 \in A
  <2>0. SubSeq(s, 1, 0) = <<>>
    BY WholeIs
  <2>1. SubSeq(s, 1, 0) \in T
    BY <2>0, Zenon
  <2>2. 0 \in 0..N
    BY <1>0
  <2>. QED
    BY <2>1, <2>2, Zenon
<1>2. ASSUME NEW n \in 0..(N - 1), n \in A PROVE n + 1 \in A
  <2>1. s[n + 1] \in S /\ SubSeq(s, 1, n + 1) = Append(SubSeq(s, 1, n), s[n + 1])
    BY Appended
  <2>2. n + 1 \in 0..N /\ SubSeq(s, 1, n) \in T
    BY <1>0, <1>2
  <2>. QED
    BY <2>1, <2>2
<1>3. N \in A
  <2>. HIDE DEF A
  <2>1. A \in SUBSET (0..N)
    BY DEF A
  <2>. QED
    BY <1>0, <1>1, <1>2, <2>1, Climb
<1>. QED
  BY <1>3, WholeIs

LEMMA CatAppend ==
    ASSUME NEW S, NEW a \in Seq(S), NEW b \in Seq(S), NEW x \in S
    PROVE  a \o Append(b, x) = Append(a \o b, x) /\ a \o b \in Seq(S) /\ a \o <<>> = a
<1>1. <<x>> \in Seq(S) /\ Append(b, x) = b \o <<x>>
  BY AppendIsConcat
<1>2. a \o b \in Seq(S)
  BY ConcatProperties
<1>3. Append(a \o b, x) = (a \o b) \o <<x>>
  BY <1>2, AppendIsConcat
<1>4. (a \o b) \o <<x>> = a \o (b \o <<x>>)
  BY <1>1, ConcatAssociative
<1>5. a \o <<>> = a
  BY ConcatEmptySeq
<1>. QED
  BY <1>1, <1>2, <1>3, <1>4, <1>5

LEMMA FlatIn ==
    ASSUME NEW U, NEW ss \in Seq(Seq(U))
    PROVE  FlattenSeq(ss) \in Seq(U)
<1>. DEFINE T == {t \in Seq(Seq(U)) : FlattenSeq(t) \in Seq(U)}
<1>1. <<>> \in T
  <2>1. <<>> \in Seq(U) /\ <<>> \in Seq(Seq(U))
    BY EmptySeq
  <2>. QED
    BY <2>1, FlatNone, Zenon
<1>2. ASSUME NEW t \in T, NEW x \in Seq(U) PROVE Append(t, x) \in T
  <2>1. FlattenSeq(Append(t, x)) = FlattenSeq(t) \o x /\ Append(t, x) \in Seq(Seq(U))
    BY FlatAppend, AppendProperties
  <2>2. FlattenSeq(t) \o x \in Seq(U)
    BY ConcatProperties
  <2>. QED
    BY <2>1, <2>2
<1>3. T \in SUBSET Seq(Seq(U))
  OBVIOUS
<1>. HIDE DEF T
<1>4. ss \in T
  BY <1>1, <1>2, <1>3, SeqClimb
<1>. QED
  BY <1>4 DEF T

LEMMA FlatCat ==
    ASSUME NEW U, NEW a \in Seq(Seq(U)), NEW b \in Seq(Seq(U))
    PROVE  FlattenSeq(a \o b) = FlattenSeq(a) \o FlattenSeq(b)
<1>. DEFINE T == {t \in Seq(Seq(U)) : FlattenSeq(a \o t) = FlattenSeq(a) \o FlattenSeq(t)}
<1>0. FlattenSeq(a) \in Seq(U)
  BY FlatIn
<1>1. <<>> \in T
  <2>1. a \o <<>> = a /\ FlattenSeq(a) \o <<>> = FlattenSeq(a)
    BY <1>0, ConcatEmptySeq
  <2>2. <<>> \in Seq(Seq(U))
    BY EmptySeq
  <2>. QED
    BY <2>1, <2>2, FlatNone, Zenon
<1>2. ASSUME NEW t \in T, NEW x \in Seq(U) PROVE Append(t, x) \in T
  <2>1. t \in Seq(Seq(U)) /\ FlattenSeq(a \o t) = FlattenSeq(a) \o FlattenSeq(t)
    OBVIOUS
  <2>2. a \o Append(t, x) = Append(a \o t, x) /\ a \o t \in Seq(Seq(U))
    BY <2>1, CatAppend
  <2>3. FlattenSeq(Append(a \o t, x)) = FlattenSeq(a \o t) \o x
    BY <2>2, FlatAppend
  <2>4. FlattenSeq(Append(t, x)) = FlattenSeq(t) \o x /\ Append(t, x) \in Seq(Seq(U))
    BY <2>1, FlatAppend, AppendProperties
  <2>5. FlattenSeq(t) \in Seq(U)
    BY <2>1, FlatIn
  <2>6. (FlattenSeq(a) \o FlattenSeq(t)) \o x = FlattenSeq(a) \o (FlattenSeq(t) \o x)
    <3>1. PICK u, v : u = FlattenSeq(a) /\ v = FlattenSeq(t) /\ u \in Seq(U) /\ v \in Seq(U)
      BY <1>0, <2>5
    <3>2. (u \o v) \o x = u \o (v \o x)
      <4>1. u \in Seq(U) /\ v \in Seq(U) /\ x \in Seq(U)
        BY <3>1
      <4>. QED
        BY ONLY <4>1, ConcatAssociative
    <3>. QED
      BY <3>1, <3>2
  <2>. QED
    BY <2>1, <2>2, <2>3, <2>4, <2>6
<1>3. T \in SUBSET Seq(Seq(U))
  OBVIOUS
<1>. HIDE DEF T
<1>4. b \in T
  BY <1>1, <1>2, <1>3, SeqClimb
<1>. QED
  BY <1>4 DEF T

\* What m makes of the elements of s, put together.
Pieces(m, S, U) == m \in [S -> Seq(U)]
Each(m, s) == [i \in DOMAIN s |-> m[s[i]]]
EachOf(m, s) == FlattenSeq(Each(m, s))

LEMMA EachIs ==
    ASSUME NEW S, NEW U, NEW m, Pieces(m, S, U), NEW s \in Seq(S)
    PROVE  /\ Each(m, s) \in Seq(Seq(U)) /\ Len(Each(m, s)) = Len(s)
           /\ \A i \in 1..Len(s) : Each(m, s)[i] = m[s[i]]
<1>1. DOMAIN s = 1..Len(s) /\ Len(s) \in Nat /\ \A i \in 1..Len(s) : s[i] \in S
  BY LenProperties, ElementOfSeq
<1>2. Each(m, s) \in [1..Len(s) -> Seq(U)]
  BY <1>1 DEF Each, Pieces
<1>. QED
  BY <1>1, <1>2, IsASeq, LenProperties DEF Each

LEMMA EachCat ==
    ASSUME NEW S, NEW U, NEW m, Pieces(m, S, U), NEW a \in Seq(S), NEW b \in Seq(S)
    PROVE  EachOf(m, a \o b) = EachOf(m, a) \o EachOf(m, b) /\ EachOf(m, a) \in Seq(U)
<1>1. /\ a \o b \in Seq(S) /\ Len(a \o b) = Len(a) + Len(b)
      /\ \A i \in 1..(Len(a) + Len(b)) :
             (a \o b)[i] = IF i <= Len(a) THEN a[i] ELSE b[i - Len(a)]
  BY ConcatProperties
<1>2. PICK x, y, z : x = Each(m, a) /\ y = Each(m, b) /\ z = Each(m, a \o b)
  OBVIOUS
<1>3. PICK k, l : k = Len(a) /\ l = Len(b) /\ k \in Nat /\ l \in Nat
  BY LenProperties
<1>4. /\ x \in Seq(Seq(U)) /\ Len(x) = k /\ \A i \in 1..k : x[i] = m[a[i]]
      /\ y \in Seq(Seq(U)) /\ Len(y) = l /\ \A i \in 1..l : y[i] = m[b[i]]
      /\ z \in Seq(Seq(U)) /\ Len(z) = k + l /\ \A i \in 1..(k + l) : z[i] = m[(a \o b)[i]]
  <2>1. \A s \in Seq(S) :
            /\ Each(m, s) \in Seq(Seq(U)) /\ Len(Each(m, s)) = Len(s)
            /\ \A i \in 1..Len(s) : Each(m, s)[i] = m[s[i]]
    <3>. SUFFICES ASSUME NEW s \in Seq(S)
                  PROVE  /\ Each(m, s) \in Seq(Seq(U)) /\ Len(Each(m, s)) = Len(s)
                         /\ \A i \in 1..Len(s) : Each(m, s)[i] = m[s[i]]
      OBVIOUS
    <3>. QED
      BY EachIs
  <2>2. PICK c : c = a \o b /\ c \in Seq(S) /\ Len(c) = k + l
    BY <1>1, <1>3
  <2>3. x \in Seq(Seq(U)) /\ Len(x) = k /\ \A i \in 1..k : x[i] = m[a[i]]
    BY <1>2, <1>3, <2>1
  <2>4. y \in Seq(Seq(U)) /\ Len(y) = l /\ \A i \in 1..l : y[i] = m[b[i]]
    BY <1>2, <1>3, <2>1
  <2>5. z \in Seq(Seq(U)) /\ Len(z) = k + l /\ \A i \in 1..(k + l) : z[i] = m[c[i]]
    BY <1>2, <2>1, <2>2
  <2>. QED
    BY <2>2, <2>3, <2>4, <2>5
<1>5. /\ x \o y \in Seq(Seq(U)) /\ Len(x \o y) = k + l
      /\ \A i \in 1..(k + l) : (x \o y)[i] = IF i <= k THEN x[i] ELSE y[i - k]
  BY <1>4, ConcatProperties
<1>6. ASSUME NEW i \in 1..(k + l) PROVE z[i] = (x \o y)[i]
  <2>1. CASE i <= k
    <3>1. i \in 1..k
      BY <1>3, <2>1
    <3>. QED
      BY <1>1, <1>3, <1>4, <1>5, <2>1, <3>1
  <2>2. CASE ~(i <= k)
    <3>1. i - k \in 1..l
      BY <1>3, <2>2
    <3>2. z[i] = m[(a \o b)[i]] /\ (a \o b)[i] = b[i - k]
      BY <1>1, <1>3, <1>4, <2>2
    <3>3. (x \o y)[i] = y[i - k] /\ y[i - k] = m[b[i - k]]
      BY <1>4, <1>5, <2>2, <3>1
    <3>. QED
      BY <3>2, <3>3
  <2>. QED
    BY <2>1, <2>2
<1>7. z = x \o y
  BY <1>4, <1>5, <1>6, SeqEqual
<1>. QED
  BY <1>2, <1>4, <1>7, FlatCat, FlatIn DEF EachOf

LEMMA EachFew ==
    ASSUME NEW S, NEW U, NEW m, Pieces(m, S, U)
    PROVE  /\ EachOf(m, <<>>) = <<>>
           /\ \A x \in S : EachOf(m, <<x>>) = m[x]
<1>1. Each(m, <<>>) = <<>>
  BY DEF Each
<1>2. ASSUME NEW x \in S PROVE EachOf(m, <<x>>) = m[x]
  <2>1. <<x>> \in Seq(S) /\ Len(<<x>>) = 1 /\ <<x>>[1] = x
    OBVIOUS
  <2>2. PICK e : e = Each(m, <<x>>)
    OBVIOUS
  <2>3. e \in Seq(Seq(U)) /\ Len(e) = 1 /\ e[1] = m[x]
    <3>1. PICK w : w = <<x>> /\ w \in Seq(S) /\ Len(w) = 1 /\ w[1] = x
      BY <2>1
    <3>2. Each(m, w) = e
      BY <2>2, <3>1
    <3>3. /\ Each(m, w) \in Seq(Seq(U)) /\ Len(Each(m, w)) = Len(w)
          /\ \A i \in 1..Len(w) : Each(m, w)[i] = m[w[i]]
      <4>1. w \in Seq(S)
        BY <3>1
      <4>. QED
        BY <4>1, EachIs
    <3>. QED
      BY <3>1, <3>2, <3>3
  <2>4. e = <<m[x]>>
    BY <2>3
  <2>. QED
    BY <2>2, <2>4, FlatOne DEF EachOf
<1>. QED
  BY <1>1, <1>2, FlatNone DEF EachOf

-----------------------------------------------------------------------------
\* The lines of a text

Text == Seq(Characters)
Line == Seq(Characters \ {"n"})

LEMMA LineText == Line \subseteq Text /\ <<>> \in Line /\ <<>> \in Text
<1>1. Characters \ {"n"} \subseteq Characters
  OBVIOUS
<1>. QED
  BY <1>1, SeqMonotonic, EmptySeq DEF Line, Text

\* The recursion of LinesOf: what a character makes of the lines so far.
LinesStep(ls, ch) ==
    IF ch = "n" THEN Append(ls, <<>>)
    ELSE Append(Front(ls), Append(Last(ls), ch))
LinesUpTo(text, f, n) == IF n = 0 THEN << <<>> >> ELSE LinesStep(f[n - 1], text[n])

LEMMA LinesExist ==
    ASSUME NEW text, NEW N \in Nat
    PROVE  \E f : f = [n \in 0..N |-> LinesUpTo(text, f, n)]
<1>. DEFINE T == {n \in 0..N : \E f : f = [i \in 0..n |-> LinesUpTo(text, f, i)]}
<1>1. 0 \in T
  <2>. DEFINE f == [i \in 0..0 |-> << <<>> >>]
  <2>1. f = [i \in 0..0 |-> LinesUpTo(text, f, i)]
    BY DEF LinesUpTo
  <2>2. \E h : h = [i \in 0..0 |-> LinesUpTo(text, h, i)]
    BY <2>1
  <2>3. 0 \in 0..N
    OBVIOUS
  <2>. QED
    BY <2>2, <2>3, Zenon
<1>2. ASSUME NEW n \in 0..(N - 1), n \in T PROVE n + 1 \in T
  <2>1. PICK f : f = [i \in 0..n |-> LinesUpTo(text, f, i)]
    BY <1>2
  <2>. DEFINE g == [i \in 0..(n + 1) |-> LinesUpTo(text, f, i)]
  <2>2. \A i \in 0..n : g[i] = f[i]
    <3>1. \A i \in 0..n : f[i] = LinesUpTo(text, f, i)
      BY <2>1
    <3>. QED
      BY <3>1
  <2>3. \A i \in 0..(n + 1) : LinesUpTo(text, g, i) = LinesUpTo(text, f, i)
    <3>. HIDE DEF g
    <3>1. \A i \in 0..(n + 1) : i # 0 => i - 1 \in 0..n
      OBVIOUS
    <3>2. \A i \in 0..(n + 1) : i # 0 => g[i - 1] = f[i - 1]
      BY <2>2, <3>1
    <3>. QED
      BY <3>2 DEF LinesUpTo
  <2>4. g = [i \in 0..(n + 1) |-> LinesUpTo(text, g, i)]
    BY <2>3
  <2>. HIDE DEF g
  <2>. QED
    BY <2>4
<1>. HIDE DEF T
<1>3. T \in SUBSET (0..N)
  BY DEF T
<1>4. N \in T
  BY <1>1, <1>2, <1>3, Climb
<1>. QED
  BY <1>4 DEF T

LEMMA LinesBy ==
    ASSUME NEW text, Len(text) \in Nat
    PROVE  \E f : /\ \A n \in 0..Len(text) : f[n] = LinesUpTo(text, f, n)
                  /\ LinesOf(text) = f[Len(text)]
<1>. DEFINE upTo == CHOOSE f : f = [n \in 0..Len(text) |-> LinesUpTo(text, f, n)]
<1>1. upTo = [n \in 0..Len(text) |-> LinesUpTo(text, upTo, n)]
  BY LinesExist
<1>2. LinesOf(text) = upTo[Len(text)]
  BY DEF LinesOf, LinesUpTo, LinesStep
<1>. HIDE DEF upTo
<1>3. \A n \in 0..Len(text) : upTo[n] = LinesUpTo(text, upTo, n)
  BY <1>1
<1>. QED
  BY <1>2, <1>3

LEMMA LinesNone == LinesOf(<<>>) = << <<>> >>
<1>1. Len(<<>>) = 0
  OBVIOUS
<1>2. PICK f : /\ \A n \in 0..0 : f[n] = LinesUpTo(<<>>, f, n)
               /\ LinesOf(<<>>) = f[0]
  BY <1>1, LinesBy
<1>3. 0 \in 0..0
  OBVIOUS
<1>4. LinesUpTo(<<>>, f, 0) = << <<>> >>
  BY Zenon DEF LinesUpTo
<1>. QED
  BY <1>2, <1>3, <1>4, Zenon

LEMMA LinesAppend ==
    ASSUME NEW S, NEW s \in Seq(S), NEW x \in S
    PROVE  LinesOf(Append(s, x)) = LinesStep(LinesOf(s), x)
<1>. DEFINE N == Len(s)
            t == Append(s, x)
<1>1. /\ N \in Nat /\ Len(t) = N + 1
      /\ t[N + 1] = x /\ \A i \in 1..N : t[i] = s[i]
  BY AppendProperties, LenProperties
<1>. HIDE DEF N, t
<1>2. PICK f : /\ \A n \in 0..N : f[n] = LinesUpTo(s, f, n)
               /\ LinesOf(s) = f[N]
  BY <1>1, LinesBy DEF N
<1>3. PICK g : /\ \A n \in 0..(N + 1) : g[n] = LinesUpTo(t, g, n)
               /\ LinesOf(t) = g[N + 1]
  BY <1>1, LinesBy
<1>. DEFINE T == {n \in 0..N : g[n] = f[n]}
<1>4. 0 \in T /\ T \in SUBSET (0..N)
  <2>1. 0 \in 0..N /\ 0 \in 0..(N + 1)
    BY <1>1
  <2>2. g[0] = f[0]
    BY <1>2, <1>3, <2>1 DEF LinesUpTo
  <2>. QED
    BY <2>1, <2>2
<1>5. ASSUME NEW n \in 0..(N - 1), n \in T PROVE n + 1 \in T
  <2>1. n + 1 \in 1..N /\ n + 1 \in 0..N /\ n + 1 \in 0..(N + 1) /\ (n + 1) - 1 = n /\ n + 1 # 0
    BY <1>1
  <2>2. g[n + 1] = LinesUpTo(t, g, n + 1) /\ f[n + 1] = LinesUpTo(s, f, n + 1)
    BY <1>2, <1>3, <2>1
  <2>3. t[n + 1] = s[n + 1] /\ g[n] = f[n]
    BY <1>1, <1>5, <2>1
  <2>4. LinesUpTo(t, g, n + 1) = LinesUpTo(s, f, n + 1)
    BY <2>1, <2>3 DEF LinesUpTo
  <2>. QED
    BY <2>1, <2>2, <2>4
<1>6. g[N] = f[N]
  <2>. HIDE DEF T
  <2>1. N \in T
    BY <1>1, <1>4, <1>5, Climb
  <2>. QED
    BY <2>1 DEF T
<1>7. N + 1 \in 0..(N + 1) /\ N + 1 # 0 /\ (N + 1) - 1 = N
  BY <1>1
<1>8. g[N + 1] = LinesStep(g[N], x)
  BY <1>1, <1>3, <1>7 DEF LinesUpTo
<1>. QED
  BY <1>2, <1>3, <1>6, <1>8 DEF t

\* The last element, and what is before it.
LEMMA FrontLast ==
    ASSUME NEW S, NEW s \in Seq(S), s # <<>>
    PROVE  /\ Front(s) \in Seq(S) /\ Last(s) \in S /\ s = Append(Front(s), Last(s))
           /\ Len(Front(s)) = Len(s) - 1
<1>1. PICK t \in Seq(S), x \in S : s = Append(t, x)
  BY SequenceEmptyOrAppend
<1>2. /\ Len(t) \in Nat /\ Len(s) = Len(t) + 1 /\ s[Len(t) + 1] = x
      /\ \A i \in 1..Len(t) : s[i] = t[i]
  BY <1>1, AppendProperties, LenProperties
<1>3. Last(s) = x
  BY <1>2 DEF Last
<1>4. Front(s) = SubSeq(s, 1, Len(t))
  BY <1>2 DEF Front
<1>5. /\ SubSeq(s, 1, Len(t)) \in Seq(S) /\ Len(SubSeq(s, 1, Len(t))) = Len(t)
      /\ \A i \in 1..Len(t) : SubSeq(s, 1, Len(t))[i] = s[i]
  BY <1>2
<1>6. Front(s) = t
  BY <1>2, <1>4, <1>5, SeqEqual
<1>. QED
  BY <1>1, <1>2, <1>3, <1>6

LEMMA FrontOf ==
    ASSUME NEW S, NEW s \in Seq(S), NEW x \in S
    PROVE  Front(Append(s, x)) = s /\ Last(Append(s, x)) = x
<1>1. Append(s, x) \in Seq(S) /\ Append(s, x) # <<>>
  BY AppendProperties
<1>2. PICK t \in Seq(S), y \in S : /\ t = Front(Append(s, x)) /\ y = Last(Append(s, x))
                                   /\ Append(s, x) = Append(t, y)
  BY <1>1, FrontLast
<1>3. s \in Seq(S) /\ x \in S /\ t \in Seq(S) /\ y \in S
  BY <1>2
<1>4. Append(s, x) = Append(t, y) <=> s = t /\ x = y
  BY ONLY <1>3, AppendInjective
<1>. QED
  BY <1>2, <1>4

LEMMA StepIs ==
    ASSUME NEW ls \in Seq(Line), ls # <<>>, NEW ch \in Characters
    PROVE  LinesStep(ls, ch) \in Seq(Line) /\ LinesStep(ls, ch) # <<>>
<1>1. Front(ls) \in Seq(Line) /\ Last(ls) \in Line
  BY FrontLast
<1>2. CASE ch = "n"
  BY <1>2, LineText, AppendProperties DEF LinesStep
<1>3. CASE ch # "n"
  <2>1. Append(Last(ls), ch) \in Line
    <3>1. ch \in Characters \ {"n"} /\ Last(ls) \in Seq(Characters \ {"n"})
      BY <1>1, <1>3 DEF Line
    <3>. QED
      BY <3>1, AppendProperties DEF Line
  <2>. QED
    BY <1>1, <1>3, <2>1, AppendProperties DEF LinesStep
<1>. QED
  BY <1>2, <1>3

\* No line has an end in it, and there is always a last one.
LEMMA LinesIn ==
    ASSUME NEW text \in Text
    PROVE  LinesOf(text) \in Seq(Line) /\ LinesOf(text) # <<>>
<1>. DEFINE T == {t \in Text : LinesOf(t) \in Seq(Line) /\ LinesOf(t) # <<>>}
<1>1. <<>> \in T
  <2>1. << <<>> >> \in Seq(Line) /\ << <<>> >> # <<>>
    BY LineText
  <2>. QED
    BY <2>1, LinesNone, LineText, Zenon
<1>2. ASSUME NEW t \in T, NEW x \in Characters PROVE Append(t, x) \in T
  <2>1. Append(t, x) \in Text /\ LinesOf(Append(t, x)) = LinesStep(LinesOf(t), x)
    BY LinesAppend, AppendProperties DEF Text
  <2>2. LinesStep(LinesOf(t), x) \in Seq(Line) /\ LinesStep(LinesOf(t), x) # <<>>
    BY StepIs
  <2>. QED
    BY <2>1, <2>2
<1>3. T \in SUBSET Seq(Characters)
  BY DEF Text
<1>. HIDE DEF T
<1>4. text \in T
  BY <1>1, <1>2, <1>3, SeqClimb DEF Text
<1>. QED
  BY <1>4 DEF T

\* A text without an end in it is one line.
LEMMA LineLines ==
    ASSUME NEW line \in Line
    PROVE  LinesOf(line) = <<line>>
<1>. DEFINE C == Characters \ {"n"}
            T == {t \in Line : LinesOf(t) = <<t>>}
<1>1. <<>> \in T
  BY LinesNone, LineText, Zenon
<1>2. ASSUME NEW t \in T, NEW x \in C PROVE Append(t, x) \in T
  <2>1. Append(t, x) \in Line /\ LinesOf(Append(t, x)) = LinesStep(LinesOf(t), x)
    BY LinesAppend, AppendProperties DEF Line
  <2>2. LinesOf(t) = Append(<<>>, t) /\ <<>> \in Seq(Line)
    BY EmptySeq
  <2>3. Front(LinesOf(t)) = <<>> /\ Last(LinesOf(t)) = t
    BY <2>2, FrontOf
  <2>4. LinesStep(LinesOf(t), x) = <<Append(t, x)>>
    BY <2>3 DEF LinesStep
  <2>. QED
    BY <2>1, <2>4
<1>3. T \in SUBSET Seq(C)
  BY DEF Line
<1>. HIDE DEF T
<1>4. line \in T
  BY <1>1, <1>2, <1>3, SeqClimb DEF Line
<1>. QED
  BY <1>4 DEF T

\* The lines before the last one take no part in a step.
LEMMA StepCat ==
    ASSUME NEW F \in Seq(Line), NEW M \in Seq(Line), M # <<>>, NEW ch \in Characters
    PROVE  LinesStep(F \o M, ch) = F \o LinesStep(M, ch)
<1>1. PICK a \in Seq(Line), z \in Line : M = Append(a, z)
  BY SequenceEmptyOrAppend
<1>2. Front(M) = a /\ Last(M) = z
  BY <1>1, FrontOf
<1>3. F \o M = Append(F \o a, z) /\ F \o a \in Seq(Line)
  BY <1>1, CatAppend
<1>4. Front(F \o M) = F \o a /\ Last(F \o M) = z
  <2>1. PICK c : c = F \o a /\ c \in Seq(Line)
    BY <1>3
  <2>2. Front(Append(c, z)) = c /\ Last(Append(c, z)) = z
    BY <2>1, FrontOf
  <2>. QED
    BY <1>3, <2>1, <2>2
<1>5. CASE ch = "n"
  <2>1. F \o Append(M, <<>>) = Append(F \o M, <<>>)
    BY LineText, CatAppend
  <2>. QED
    BY <1>5, <2>1 DEF LinesStep
<1>6. CASE ch # "n"
  <2>1. Append(z, ch) \in Line
    <3>1. ch \in Characters \ {"n"} /\ z \in Seq(Characters \ {"n"})
      BY <1>6 DEF Line
    <3>. QED
      BY <3>1, AppendProperties DEF Line
  <2>2. F \o Append(a, Append(z, ch)) = Append(F \o a, Append(z, ch))
    BY <2>1, CatAppend
  <2>. QED
    BY <1>2, <1>4, <1>6, <2>2 DEF LinesStep
<1>. QED
  BY <1>5, <1>6

\* More text goes on with the last line.
LEMMA LinesCat ==
    ASSUME NEW F \in Seq(Line), NEW l \in Line, NEW a \in Text, NEW b \in Text,
           LinesOf(a) = Append(F, l)
    PROVE  LinesOf(a \o b) = F \o LinesOf(l \o b)
<1>. DEFINE T == {t \in Text : LinesOf(a \o t) = F \o LinesOf(l \o t)}
<1>0. l \in Text
  BY LineText
<1>1. <<>> \in T
  <2>1. a \o <<>> = a /\ l \o <<>> = l
    BY <1>0, ConcatEmptySeq DEF Text
  <2>2. F \o <<l>> = Append(F, l)
    BY AppendIsConcat
  <2>3. LinesOf(l) = <<l>>
    BY LineLines
  <2>. QED
    BY <2>1, <2>2, <2>3, LineText
<1>2. ASSUME NEW t \in T, NEW x \in Characters PROVE Append(t, x) \in T
  <2>1. t \in Text /\ Append(t, x) \in Text
    BY AppendProperties DEF Text
  <2>2. a \o Append(t, x) = Append(a \o t, x) /\ a \o t \in Text
    BY <2>1, CatAppend DEF Text
  <2>3. l \o Append(t, x) = Append(l \o t, x) /\ l \o t \in Text
    BY <1>0, <2>1, CatAppend DEF Text
  <2>4. LinesOf(Append(a \o t, x)) = LinesStep(LinesOf(a \o t), x)
    BY <2>2, LinesAppend DEF Text
  <2>5. LinesOf(Append(l \o t, x)) = LinesStep(LinesOf(l \o t), x)
    BY <2>3, LinesAppend DEF Text
  <2>6. PICK M \in Seq(Line) : M = LinesOf(l \o t) /\ M # <<>>
    BY <2>3, LinesIn
  <2>7. LinesStep(F \o M, x) = F \o LinesStep(M, x)
    BY <2>6, StepCat
  <2>. QED
    BY <2>1, <2>2, <2>3, <2>4, <2>5, <2>6, <2>7
<1>3. T \in SUBSET Seq(Characters)
  BY DEF Text
<1>. HIDE DEF T
<1>4. b \in T
  BY <1>1, <1>2, <1>3, SeqClimb DEF Text
<1>. QED
  BY <1>4 DEF T

\* What a line went on to is no shorter.
LEMMA FirstGrows ==
    ASSUME NEW l \in Line, NEW b \in Text
    PROVE  Len(LinesOf(l \o b)[1]) >= Len(l)
<1>. DEFINE T == {t \in Text : Len(LinesOf(l \o t)[1]) >= Len(l)}
<1>0. l \in Text /\ Len(l) \in Nat
  BY LineText, LenProperties DEF Line
<1>1. <<>> \in T
  <2>1. l \o <<>> = l
    BY <1>0, ConcatEmptySeq DEF Text
  <2>2. LinesOf(l) = <<l>> /\ <<l>>[1] = l
    BY LineLines
  <2>3. Len(LinesOf(l \o <<>>)[1]) >= Len(l)
    BY <1>0, <2>1, <2>2
  <2>. QED
    BY <2>3, LineText, Zenon
<1>2. ASSUME NEW t \in T, NEW x \in Characters PROVE Append(t, x) \in T
  <2>1. t \in Text /\ Append(t, x) \in Text
    BY AppendProperties DEF Text
  <2>2. l \o Append(t, x) = Append(l \o t, x) /\ l \o t \in Text
    BY <1>0, <2>1, CatAppend DEF Text
  <2>3. LinesOf(Append(l \o t, x)) = LinesStep(LinesOf(l \o t), x)
    BY <2>2, LinesAppend DEF Text
  <2>4. PICK M \in Seq(Line) : M = LinesOf(l \o t) /\ M # <<>>
    BY <2>2, LinesIn
  <2>5. PICK a \in Seq(Line), z \in Line : M = Append(a, z)
    BY <2>4, SequenceEmptyOrAppend
  <2>6. Front(M) = a /\ Last(M) = z
    BY <2>5, FrontOf
  <2>7. Len(a) \in Nat /\ Len(M) = Len(a) + 1 /\ M[Len(a) + 1] = z
        /\ \A i \in 1..Len(a) : M[i] = a[i]
    BY <2>5, AppendProperties, LenProperties
  <2>8. CASE x = "n"
    <3>1. Append(M, <<>>)[1] = M[1]
      <4>1. 1 \in 1..Len(M)
        BY <2>7
      <4>. QED
        BY <4>1, LineText, AppendProperties
    <3>. QED
      BY <2>1, <2>2, <2>3, <2>4, <2>8, <3>1 DEF LinesStep
  <2>9. CASE x # "n" /\ a = <<>>
    <3>1. M[1] = z
      BY <2>7, <2>9
    <3>2. Append(<<>>, Append(z, x))[1] = Append(z, x)
      OBVIOUS
    <3>3. Len(Append(z, x)) = Len(z) + 1 /\ Len(z) \in Nat
      <4>1. z \in Seq(Characters)
        BY LineText DEF Text
      <4>. QED
        BY <4>1, AppendProperties, LenProperties
    <3>4. LinesOf(Append(l \o t, x)) = Append(<<>>, Append(z, x))
      BY <2>3, <2>4, <2>6, <2>9 DEF LinesStep
    <3>5. Len(LinesOf(l \o Append(t, x))[1]) = Len(z) + 1
      BY <2>2, <3>2, <3>3, <3>4
    <3>6. Len(z) >= Len(l)
      BY <2>4, <3>1
    <3>. QED
      BY <1>0, <2>1, <3>3, <3>5, <3>6
  <2>10. CASE x # "n" /\ a # <<>>
    <3>1. 1 \in 1..Len(a)
      BY <2>7, <2>10, EmptySeq
    <3>2. LinesOf(Append(l \o t, x)) = Append(a, Append(z, x))
      BY <2>3, <2>4, <2>6, <2>10 DEF LinesStep
    <3>3. Append(z, x) \in Text
      BY LineText, AppendProperties DEF Text
    <3>4. Append(a, Append(z, x))[1] = a[1]
      <4>1. a \in Seq(Text)
        <5>1. Line \subseteq Text
          BY LineText
        <5>. QED
          BY <5>1, SeqMonotonic
      <4>. QED
        BY <3>1, <3>3, <4>1, AppendProperties
    <3>5. a[1] = M[1]
      BY <2>7, <3>1
    <3>. QED
      BY <2>1, <2>2, <2>4, <3>2, <3>4, <3>5
  <2>. QED
    BY <2>8, <2>9, <2>10
<1>3. T \in SUBSET Seq(Characters)
  BY DEF Text
<1>. HIDE DEF T
<1>4. b \in T
  BY <1>1, <1>2, <1>3, SeqClimb DEF Text
<1>. QED
  BY <1>4 DEF T

-----------------------------------------------------------------------------
\* White space

\* The characters that are neither white space nor the end of a line.
Dense == [c \in Characters |-> IF c \in {" ", "n"} THEN <<>> ELSE <<c>>]

LEMMA DenseIs == Pieces(Dense, Characters, Characters)
<1>1. \A c \in Characters : Dense[c] \in Seq(Characters)
  <2>. SUFFICES ASSUME NEW c \in Characters PROVE Dense[c] \in Seq(Characters)
    OBVIOUS
  <2>1. <<>> \in Seq(Characters) /\ <<c>> \in Seq(Characters)
    OBVIOUS
  <2>. QED
    BY <2>1 DEF Dense
<1>. QED
  BY <1>1 DEF Pieces, Dense

LEMMA InkIs ==
    ASSUME NEW line \in Line
    PROVE  Ink(line) = EachOf(Dense, line)
<1>1. \A i \in DOMAIN line : line[i] \in Characters /\ line[i] # "n"
  BY DEF Line
<1>2. Each(Dense, line) = [i \in DOMAIN line |-> IF line[i] = " " THEN <<>> ELSE <<line[i]>>]
  BY <1>1 DEF Each, Dense
<1>. QED
  BY <1>2 DEF Ink, EachOf

LEMMA DenseAppend ==
    ASSUME NEW s \in Text, NEW ch \in Characters
    PROVE  EachOf(Dense, Append(s, ch)) = EachOf(Dense, s) \o Dense[ch]
<1>1. Append(s, ch) = s \o <<ch>> /\ <<ch>> \in Seq(Characters)
  BY AppendIsConcat DEF Text
<1>2. EachOf(Dense, s \o <<ch>>) = EachOf(Dense, s) \o EachOf(Dense, <<ch>>)
  <2>1. PICK m, C, U, u : /\ m = Dense /\ C = Characters /\ u = <<ch>>
                          /\ Pieces(m, C, U) /\ s \in Seq(C) /\ u \in Seq(C)
    BY <1>1, DenseIs DEF Text
  <2>2. Pieces(m, C, U) /\ s \in Seq(C) /\ u \in Seq(C)
    BY <2>1
  <2>3. EachOf(m, s \o u) = EachOf(m, s) \o EachOf(m, u)
    BY ONLY <2>2, EachCat
  <2>. QED
    BY <2>1, <2>3
<1>. QED
  BY <1>1, <1>2, DenseIs, EachFew

\* The ends of the lines are all that is lost of a text.
LEMMA DenseLines ==
    ASSUME NEW text \in Text
    PROVE  EachOf(Dense, FlattenSeq(LinesOf(text))) = EachOf(Dense, text)
<1>. DEFINE D(s) == EachOf(Dense, s)
            T == {t \in Text : D(FlattenSeq(LinesOf(t))) = D(t)}
<1>1. <<>> \in T
  <2>1. FlattenSeq(LinesOf(<<>>)) = <<>>
    BY LinesNone, LineText, FlatOne
  <2>. QED
    BY <2>1, LineText, Zenon
<1>2. ASSUME NEW t \in T, NEW x \in Characters PROVE Append(t, x) \in T
  <2>1. t \in Text /\ Append(t, x) \in Text /\ D(FlattenSeq(LinesOf(t))) = D(t)
    BY AppendProperties DEF Text
  <2>2. LinesOf(Append(t, x)) = LinesStep(LinesOf(t), x) /\ LinesOf(t) \in Seq(Line) /\ LinesOf(t) # <<>>
    BY <2>1, LinesAppend, LinesIn DEF Text
  <2>3. PICK a \in Seq(Line), z \in Line : LinesOf(t) = Append(a, z)
    BY <2>2, SequenceEmptyOrAppend
  <2>4. Front(LinesOf(t)) = a /\ Last(LinesOf(t)) = z
    BY <2>3, FrontOf
  <2>5. D(Append(t, x)) = D(t) \o Dense[x] /\ D(t) \in Text
    <3>1. EachOf(Dense, t) \in Seq(Characters)
      <4>1. t \in Seq(Characters)
        BY <2>1 DEF Text
      <4>. QED
        BY <4>1, DenseIs, EachCat
    <3>. QED
      BY <2>1, <3>1, DenseAppend DEF Text
  <2>6. /\ a \in Seq(Text) /\ z \in Text /\ a \in Seq(Seq(Characters))
        /\ FlattenSeq(Append(a, z)) = FlattenSeq(a) \o z /\ FlattenSeq(a) \in Text
    <3>1. a \in Seq(Text) /\ z \in Text
      BY LineText, SeqMonotonic
    <3>. QED
      BY <3>1, FlatAppend, FlatIn DEF Text
  <2>7. CASE x = "n"
    <3>1. LinesOf(Append(t, x)) = Append(LinesOf(t), <<>>)
      BY <2>2, <2>7 DEF LinesStep
    <3>2. PICK ls \in Seq(Text) : ls = LinesOf(t)
      BY <2>3, <2>6, AppendProperties
    <3>3. FlattenSeq(Append(ls, <<>>)) = FlattenSeq(ls) \o <<>> /\ FlattenSeq(ls) \in Text
      BY LineText, FlatAppend, FlatIn DEF Text
    <3>4. FlattenSeq(ls) \o <<>> = FlattenSeq(ls) /\ D(t) \o <<>> = D(t)
      BY <2>5, <3>3, ConcatEmptySeq DEF Text
    <3>5. Dense[x] = <<>>
      BY <2>7 DEF Dense
    <3>. QED
      BY <2>1, <2>5, <3>1, <3>2, <3>3, <3>4, <3>5
  <2>8. CASE x # "n"
    <3>1. LinesOf(Append(t, x)) = Append(a, Append(z, x))
      BY <2>2, <2>4, <2>8 DEF LinesStep
    <3>2. Append(z, x) \in Text
      BY <2>6, AppendProperties DEF Text
    <3>3. FlattenSeq(Append(a, Append(z, x))) = FlattenSeq(a) \o Append(z, x)
      BY <2>6, <3>2, FlatAppend DEF Text
    <3>4. PICK w : w = FlattenSeq(a) /\ w \in Text
      BY <2>6
    <3>5. w \o Append(z, x) = Append(w \o z, x) /\ w \o z \in Text
      BY <2>6, <3>4, CatAppend DEF Text
    <3>6. D(Append(w \o z, x)) = D(w \o z) \o Dense[x]
      BY <3>5, DenseAppend
    <3>. QED
      BY <2>1, <2>3, <2>5, <2>6, <3>1, <3>3, <3>4, <3>5, <3>6
  <2>. QED
    BY <2>7, <2>8
<1>3. T \in SUBSET Seq(Characters)
  BY DEF Text
<1>. HIDE DEF T
<1>4. text \in T
  BY <1>1, <1>2, <1>3, SeqClimb DEF Text
<1>. QED
  BY <1>4 DEF T

\* Where a line that is not all white space begins and ends.
LEMMA InkedAt ==
    ASSUME NEW line \in Line, Inked(line) # {}
    PROVE  /\ Min(Inked(line)) \in Inked(line) /\ \A i \in Inked(line) : Min(Inked(line)) <= i
           /\ Max(Inked(line)) \in Inked(line) /\ \A i \in Inked(line) : i <= Max(Inked(line))
<1>. DEFINE I == Inked(line)
            B == {Len(line) - i : i \in I}
<1>1. Len(line) \in Nat /\ I \subseteq 1..Len(line)
  <2>1. Len(line) \in Nat /\ DOMAIN line = 1..Len(line)
    BY LenProperties DEF Line
  <2>. QED
    BY <2>1 DEF Inked
<1>2. I \in SUBSET Nat
  BY <1>1
<1>3. \E m \in I : \A i \in I : m <= i
  BY <1>2, LeastNat
<1>4. B \in SUBSET Nat /\ B # {}
  BY <1>1
<1>. HIDE DEF I
<1>5. PICK b \in B : \A c \in B : b <= c
  BY <1>4, LeastNat
<1>6. PICK j \in I : b = Len(line) - j
  OBVIOUS
<1>7. ASSUME NEW i \in I PROVE i <= j
  <2>1. Len(line) - i \in B
    OBVIOUS
  <2>2. b <= Len(line) - i
    BY <1>5, <2>1
  <2>3. i \in Nat /\ j \in Nat
    BY <1>1
  <2>. QED
    BY <1>1, <1>6, <2>2, <2>3
<1>8. Min(I) \in I /\ \A i \in I : Min(I) <= i
  BY <1>3 DEF Min
<1>9. Max(I) \in I /\ \A i \in I : i <= Max(I)
  BY <1>7 DEF Max
<1>. QED
  BY <1>8, <1>9 DEF I

LEMMA DenseCat ==
    ASSUME NEW a \in Text, NEW b \in Text
    PROVE  /\ a \o b \in Text /\ EachOf(Dense, a) \in Text
           /\ EachOf(Dense, a \o b) = EachOf(Dense, a) \o EachOf(Dense, b)
<1>1. PICK m, C, U : /\ m = Dense /\ C = Characters /\ U = Characters
                     /\ Pieces(m, C, U) /\ a \in Seq(C) /\ b \in Seq(C)
  BY DenseIs DEF Text
<1>2. Pieces(m, C, U) /\ a \in Seq(C) /\ b \in Seq(C)
  BY <1>1
<1>3. EachOf(m, a \o b) = EachOf(m, a) \o EachOf(m, b) /\ EachOf(m, a) \in Seq(U)
  BY ONLY <1>2, EachCat
<1>4. a \o b \in Text
  BY ConcatProperties DEF Text
<1>. QED
  BY <1>1, <1>3, <1>4 DEF Text

\* White space leaves nothing.
LEMMA DenseBlank ==
    ASSUME NEW s \in Seq({" "})
    PROVE  EachOf(Dense, s) = <<>>
<1>. DEFINE B == {" "}
            T == {t \in Seq(B) : EachOf(Dense, t) = <<>>}
<1>0. Seq(B) \subseteq Text
  <2>1. B \subseteq Characters
    BY DEF Characters
  <2>. QED
    BY <2>1, SeqMonotonic DEF Text
<1>1. <<>> \in T
  <2>1. EachOf(Dense, <<>>) = <<>>
    BY DenseIs, EachFew
  <2>2. <<>> \in Seq(B)
    BY EmptySeq
  <2>. QED
    BY <2>1, <2>2, Zenon
<1>2. ASSUME NEW t \in T, NEW x \in B PROVE Append(t, x) \in T
  <2>1. t \in Seq(B) /\ t \in Text /\ x \in Characters /\ Dense[x] = <<>> /\ EachOf(Dense, t) = <<>>
    BY <1>0 DEF Characters, Dense
  <2>2. EachOf(Dense, Append(t, x)) = <<>> \o <<>>
    BY <2>1, DenseAppend
  <2>3. <<>> \o <<>> = <<>>
    BY EmptySeq, ConcatEmptySeq
  <2>. QED
    BY <2>1, <2>2, <2>3, AppendProperties
<1>3. T \in SUBSET Seq(B)
  OBVIOUS
<1>. HIDE DEF T
<1>4. s \in T
  BY <1>1, <1>2, <1>3, SeqClimb
<1>. QED
  BY <1>4 DEF T

\* A sequence is what is left and what is right of a place in it.
LEMMA Halves ==
    ASSUME NEW S, NEW s \in Seq(S), NEW n \in 0..Len(s)
    PROVE  /\ SubSeq(s, 1, n) \in Seq(S) /\ SubSeq(s, n + 1, Len(s)) \in Seq(S)
           /\ Len(SubSeq(s, 1, n)) = n /\ \A i \in 1..n : SubSeq(s, 1, n)[i] = s[i]
           /\ Len(SubSeq(s, n + 1, Len(s))) = Len(s) - n
           /\ \A i \in 1..(Len(s) - n) : SubSeq(s, n + 1, Len(s))[i] = s[n + i]
           /\ SubSeq(s, 1, n) \o SubSeq(s, n + 1, Len(s)) = s
<1>. DEFINE a == SubSeq(s, 1, n)
            b == SubSeq(s, n + 1, Len(s))
            N == Len(s)
<1>0. N \in Nat /\ n \in Nat /\ n <= N
  OBVIOUS
<1>1. a \in Seq(S) /\ Len(a) = n /\ \A i \in 1..n : a[i] = s[i]
  OBVIOUS
<1>2. b \in Seq(S) /\ Len(b) = N - n /\ \A i \in 1..(N - n) : b[i] = s[n + i]
  OBVIOUS
<1>. HIDE DEF a, b
<1>3. /\ a \o b \in Seq(S) /\ Len(a \o b) = Len(a) + Len(b)
      /\ \A i \in 1..(Len(a) + Len(b)) : (a \o b)[i] = IF i <= Len(a) THEN a[i] ELSE b[i - Len(a)]
  BY <1>1, <1>2, ConcatProperties
<1>. HIDE DEF N
<1>4. ASSUME NEW i \in 1..N PROVE (a \o b)[i] = s[i]
  <2>1. CASE i <= n
    BY <1>0, <1>1, <1>2, <1>3, <2>1
  <2>2. CASE ~(i <= n)
    <3>1. i - n \in 1..(N - n) /\ n + (i - n) = i
      BY <1>0, <2>2
    <3>2. b[i - n] = s[i]
      BY <1>2, <3>1
    <3>3. (a \o b)[i] = b[i - n]
      BY <1>0, <1>1, <1>2, <1>3, <2>2
    <3>. QED
      BY <3>2, <3>3
  <2>. QED
    BY <2>1, <2>2
<1>5. a \o b = s
  <2>1. PICK c : c = a \o b
    OBVIOUS
  <2>2. c \in Seq(S) /\ Len(c) = N /\ s \in Seq(S) /\ Len(s) = N
    <3>1. c \in Seq(S) /\ Len(c) = n + (N - n)
      BY <1>1, <1>2, <1>3, <2>1
    <3>2. n + (N - n) = N
      BY <1>0
    <3>. QED
      BY <3>1, <3>2 DEF N
  <2>3. \A i \in 1..Len(c) : c[i] = s[i]
    BY <1>4, <2>1, <2>2
  <2>4. c = s
    BY <2>2, <2>3, SeqEqual
  <2>. QED
    BY <2>1, <2>4
<1>. QED
  BY <1>1, <1>2, <1>5 DEF a, b, N

LEMMA SeqWithin ==
    ASSUME NEW S, NEW B, NEW s \in Seq(S), \A i \in 1..Len(s) : s[i] \in B
    PROVE  s \in Seq(B)
<1>1. PICK n \in Nat : n = Len(s) /\ s \in [1..n -> S]
  BY LenProperties
<1>2. s \in [1..n -> B]
  BY <1>1
<1>3. \A f \in [1..n -> B] : f \in Seq(B)
  BY <1>1, IsASeq
<1>. QED
  BY <1>2, <1>3

LEMMA BlankIs ==
    ASSUME NEW line \in Line, Inked(line) = {}
    PROVE  RStrip(line) = <<>> /\ LStrip(line) = <<>> /\ EachOf(Dense, line) = <<>>
<1>1. Len(line) \in Nat /\ DOMAIN line = 1..Len(line)
  BY LenProperties DEF Line
<1>2. \A i \in 1..Len(line) : line[i] = " "
  BY <1>1 DEF Inked
<1>4. line \in Seq({" "})
  <2>1. line \in Seq(Characters \ {"n"}) /\ \A i \in 1..Len(line) : line[i] \in {" "}
    BY <1>2 DEF Line
  <2>. QED
    BY <2>1, SeqWithin
<1>. QED
  BY <1>4, DenseBlank DEF RStrip, LStrip

\* What is stripped on the right is white space.
LEMMA RStripIs ==
    ASSUME NEW line \in Line
    PROVE  /\ RStrip(line) \in Line
           /\ EachOf(Dense, RStrip(line)) = EachOf(Dense, line)
           /\ Inked(RStrip(line)) = Inked(line)
<1>1. CASE Inked(line) = {}
  <2>1. EachOf(Dense, <<>>) = <<>>
    BY DenseIs, EachFew
  <2>2. Inked(<<>>) = {}
    BY DEF Inked
  <2>. QED
    BY <1>1, <2>1, <2>2, BlankIs, LineText
<1>2. CASE Inked(line) # {}
  <2>. DEFINE m == Max(Inked(line))
              a == SubSeq(line, 1, m)
              b == SubSeq(line, m + 1, Len(line))
  <2>1. /\ Len(line) \in Nat /\ DOMAIN line = 1..Len(line) /\ line \in Seq(Characters \ {"n"})
    BY LenProperties DEF Line
  <2>2. m \in Inked(line) /\ \A i \in Inked(line) : i <= m
    BY <1>2, InkedAt
  <2>3. m \in 1..Len(line) /\ m \in 0..Len(line) /\ Inked(line) \subseteq 1..Len(line)
    <3>. HIDE DEF m, a, b
    <3>1. \A i \in Inked(line) : i \in 1..Len(line)
      BY <2>1 DEF Inked
    <3>2. m \in 1..Len(line)
      BY <2>2, <3>1
    <3>. QED
      BY <2>1, <3>1, <3>2
  <2>4. /\ a \in Line /\ b \in Line
        /\ Len(a) = m /\ \A i \in 1..m : a[i] = line[i]
        /\ Len(b) = Len(line) - m /\ \A i \in 1..(Len(line) - m) : b[i] = line[m + i]
        /\ a \o b = line
    BY <2>1, <2>3, Halves DEF Line
  <2>. HIDE DEF a, b, m
  <2>5. ASSUME NEW i \in 1..(Len(line) - m) PROVE line[m + i] = " "
    <3>1. m + i \in 1..Len(line) /\ ~(m + i <= m)
      BY <2>1, <2>3
    <3>2. m + i \notin Inked(line)
      BY <2>2, <3>1
    <3>. QED
      BY <2>1, <3>1, <3>2 DEF Inked
  <2>6. b \in Seq({" "})
    <3>1. b \in Seq(Characters \ {"n"}) /\ \A i \in 1..Len(b) : b[i] \in {" "}
      BY <2>4, <2>5 DEF Line
    <3>. QED
      BY <3>1, SeqWithin
  <2>7. EachOf(Dense, b) = <<>>
    BY <2>6, DenseBlank
  <2>8. a \in Text /\ b \in Text
    BY <2>4, LineText
  <2>9. EachOf(Dense, a) = EachOf(Dense, line)
    <3>1. EachOf(Dense, a \o b) = EachOf(Dense, a) \o EachOf(Dense, b) /\ EachOf(Dense, a) \in Text
      BY <2>8, DenseCat
    <3>2. EachOf(Dense, a) \o <<>> = EachOf(Dense, a)
      BY <3>1, ConcatEmptySeq DEF Text
    <3>. QED
      BY <2>4, <2>7, <3>1, <3>2
  <2>10. Inked(a) = Inked(line)
    <3>1. DOMAIN a = 1..m
      BY <2>4, LenProperties DEF Line
    <3>2. \A i \in Inked(line) : i \in 1..m
      BY <2>2, <2>3
    <3>3. \A i \in 1..m : i \in 1..Len(line)
      BY <2>1, <2>3
    <3>. QED
      BY <2>1, <2>4, <3>1, <3>2, <3>3 DEF Inked
  <2>. QED
    BY <1>2, <2>4, <2>9, <2>10 DEF RStrip, a, m
<1>. QED
  BY <1>1, <1>2

LEMMA LStripIs ==
    ASSUME NEW line \in Line, Inked(line) # {}
    PROVE  LStrip(line) # <<>> /\ LStrip(line)[1] = line[Min(Inked(line))]
<1>. DEFINE m == Min(Inked(line))
            b == SubSeq(line, m, Len(line))
<1>1. /\ Len(line) \in Nat /\ DOMAIN line = 1..Len(line) /\ line \in Seq(Characters \ {"n"})
  BY LenProperties DEF Line
<1>2. m \in 1..Len(line)
  BY <1>1, InkedAt DEF Inked
<1>. HIDE DEF m
<1>3. Len(b) = Len(line) - m + 1 /\ b[1] = line[m] /\ b # <<>>
  BY <1>1, <1>2
<1>. QED
  BY <1>3 DEF LStrip, m

\* It makes no difference to the first character what is stripped on the right.
LEMMA TornIs ==
    ASSUME NEW line \in Line
    PROVE  Torn(line) <=> Corrupt(line)
<1>. DEFINE r == RStrip(line)
<1>1. r \in Line /\ Inked(r) = Inked(line)
  BY RStripIs
<1>2. CASE Inked(line) = {}
  <2>1. LStrip(line) = <<>> /\ LStrip(r) = <<>>
    BY <1>1, <1>2, BlankIs
  <2>. QED
    BY <2>1 DEF Torn, Corrupt, LooksJson, Strip
<1>3. CASE Inked(line) # {}
  <2>1. /\ LStrip(line) # <<>> /\ LStrip(line)[1] = line[Min(Inked(line))]
        /\ LStrip(r) # <<>> /\ LStrip(r)[1] = r[Min(Inked(line))]
    BY <1>1, <1>3, LStripIs
  <2>2. r[Min(Inked(line))] = line[Min(Inked(line))]
    <3>. DEFINE n == Min(Inked(line))
                m == Max(Inked(line))
    <3>1. n \in Inked(line) /\ m \in Inked(line) /\ n <= m
      BY <1>3, InkedAt
    <3>. HIDE DEF n, m
    <3>2. /\ Len(line) \in Nat /\ line \in Seq(Characters \ {"n"})
          /\ n \in 1..Len(line) /\ m \in 0..Len(line) /\ n \in 1..m
      <4>1. Len(line) \in Nat /\ DOMAIN line = 1..Len(line) /\ line \in Seq(Characters \ {"n"})
        BY LenProperties DEF Line
      <4>2. n \in 1..Len(line) /\ m \in 1..Len(line)
        BY <3>1, <4>1 DEF Inked
      <4>. QED
        BY <3>1, <4>1, <4>2
    <3>3. \A i \in 1..m : SubSeq(line, 1, m)[i] = line[i]
      BY <3>2, Halves
    <3>4. r = SubSeq(line, 1, m)
      BY <1>3 DEF RStrip, m
    <3>. QED
      BY <3>2, <3>3, <3>4 DEF n
  <2>. QED
    BY <2>1, <2>2 DEF Torn, Corrupt, LooksJson, Strip
<1>. QED
  BY <1>2, <1>3

-----------------------------------------------------------------------------
\* What is made of the lines

Emits == [line \in Line |-> Emitted(line)]
Messaged == {Strip(line) : line \in Line}
Parses == [line \in Line |-> Parsed(line)]

LEMMA EmitsIs == Pieces(Emits, Line, Line)
<1>1. ASSUME NEW line \in Line PROVE Emitted(line) \in Seq(Line)
  <2>1. PICK r \in Line : r = RStrip(line)
    BY RStripIs
  <2>2. <<r>> \in Seq(Line) /\ <<>> \in Seq(Line)
    BY EmptySeq
  <2>. QED
    BY <2>1, <2>2 DEF Emitted
<1>. QED
  BY <1>1 DEF Pieces, Emits

LEMMA ParsesIs == Pieces(Parses, Line, Messaged)
<1>1. ASSUME NEW line \in Line PROVE Parsed(line) \in Seq(Messaged)
  <2>1. PICK r \in Messaged : r = Strip(line)
    BY DEF Messaged
  <2>2. <<r>> \in Seq(Messaged) /\ <<>> \in Seq(Messaged)
    BY EmptySeq
  <2>. QED
    BY <2>1, <2>2 DEF Parsed
<1>. QED
  BY <1>1 DEF Pieces, Parses

LEMMA MadeOf ==
    ASSUME NEW ls \in Seq(Line)
    PROVE  EmittedOf(ls) = EachOf(Emits, ls) /\ ParsedOf(ls) = EachOf(Parses, ls)
<1>1. \A i \in DOMAIN ls : ls[i] \in Line
  OBVIOUS
<1>. QED
  BY <1>1 DEF EmittedOf, ParsedOf, EachOf, Each, Emits, Parses

LEMMA EmittedCat ==
    ASSUME NEW a \in Seq(Line), NEW b \in Seq(Line)
    PROVE  /\ EmittedOf(a \o b) = EmittedOf(a) \o EmittedOf(b)
           /\ EmittedOf(a) \in Seq(Line) /\ a \o b \in Seq(Line)
<1>1. PICK m, C, U : m = Emits /\ C = Line /\ U = Line /\ Pieces(m, C, U)
  BY EmitsIs
<1>2. Pieces(m, C, U) /\ a \in Seq(C) /\ b \in Seq(C)
  BY <1>1
<1>3. EachOf(m, a \o b) = EachOf(m, a) \o EachOf(m, b) /\ EachOf(m, a) \in Seq(U)
  BY ONLY <1>2, EachCat
<1>4. a \o b \in Seq(Line)
  BY ConcatProperties
<1>. QED
  BY <1>1, <1>3, <1>4, MadeOf

LEMMA ParsedCat ==
    ASSUME NEW a \in Seq(Line), NEW b \in Seq(Line)
    PROVE  /\ ParsedOf(a \o b) = ParsedOf(a) \o ParsedOf(b)
           /\ ParsedOf(a) \in Seq(Messaged) /\ a \o b \in Seq(Line)
<1>1. PICK m, C, U : m = Parses /\ C = Line /\ U = Messaged /\ Pieces(m, C, U)
  BY ParsesIs
<1>2. Pieces(m, C, U) /\ a \in Seq(C) /\ b \in Seq(C)
  BY <1>1
<1>3. EachOf(m, a \o b) = EachOf(m, a) \o EachOf(m, b) /\ EachOf(m, a) \in Seq(U)
  BY ONLY <1>2, EachCat
<1>4. a \o b \in Seq(Line)
  BY ConcatProperties
<1>. QED
  BY <1>1, <1>3, <1>4, MadeOf

LEMMA MadeOfOne ==
    ASSUME NEW line \in Line
    PROVE  /\ EmittedOf(<<line>>) = Emitted(line) /\ ParsedOf(<<line>>) = Parsed(line)
           /\ EmittedOf(<<>>) = <<>> /\ ParsedOf(<<>>) = <<>>
<1>1. <<line>> \in Seq(Line) /\ <<>> \in Seq(Line)
  BY EmptySeq
<1>2. EachOf(Emits, <<>>) = <<>> /\ EachOf(Emits, <<line>>) = Emits[line]
  BY EmitsIs, EachFew
<1>3. EachOf(Parses, <<>>) = <<>> /\ EachOf(Parses, <<line>>) = Parses[line]
  BY ParsesIs, EachFew
<1>. QED
  BY <1>1, <1>2, <1>3, MadeOf DEF Emits, Parses

\* The callback misses nothing but white space.
LEMMA EmittedDense ==
    ASSUME NEW ls \in Seq(Line)
    PROVE  EachOf(Dense, FlattenSeq(EmittedOf(ls))) = EachOf(Dense, FlattenSeq(ls))
<1>. DEFINE D(s) == EachOf(Dense, FlattenSeq(s))
            T == {t \in Seq(Line) : D(EmittedOf(t)) = D(t)}
<1>1. <<>> \in T
  <2>1. EmittedOf(<<>>) = <<>>
    BY LineText, MadeOfOne
  <2>. QED
    BY <2>1, EmptySeq
<1>0. \A s \in Seq(Line) : s \in Seq(Seq(Characters)) /\ s \in Seq(Text)
  <2>1. Seq(Line) \subseteq Seq(Text)
    BY LineText, SeqMonotonic
  <2>. QED
    BY <2>1 DEF Text
<1>2. ASSUME NEW t \in T, NEW x \in Line PROVE Append(t, x) \in T
  <2>1. t \in Seq(Line) /\ D(EmittedOf(t)) = D(t)
    OBVIOUS
  <2>2. Append(t, x) = t \o <<x>> /\ <<x>> \in Seq(Line) /\ Append(t, x) \in Seq(Line)
    BY <2>1, AppendIsConcat, AppendProperties
  <2>3. EmittedOf(t \o <<x>>) = EmittedOf(t) \o Emitted(x) /\ EmittedOf(t) \in Seq(Line)
    BY <2>1, <2>2, EmittedCat, MadeOfOne
  <2>4. PICK e, r : e = EmittedOf(t) /\ e \in Seq(Seq(Characters)) /\ r = RStrip(x) /\ r \in Text
    BY <1>0, <2>3, RStripIs, LineText
  <2>5. /\ FlattenSeq(Append(t, x)) = FlattenSeq(t) \o x
        /\ FlattenSeq(t) \in Text /\ x \in Text
    BY <1>0, <2>1, LineText, FlatAppend, FlatIn DEF Text
  <2>6. D(Append(t, x)) = D(t) \o EachOf(Dense, x) /\ D(t) \in Text
    BY <2>5, DenseCat
  <2>7. EachOf(Dense, r) = EachOf(Dense, x)
    BY <2>4, RStripIs
  <2>8. FlattenSeq(e) \in Text
    BY <2>4, FlatIn DEF Text
  <2>9. CASE r = <<>>
    <3>1. EmittedOf(t \o <<x>>) = e
      <4>1. Emitted(x) = <<>> /\ e \o <<>> = e
        BY <2>4, <2>9, ConcatEmptySeq DEF Emitted
      <4>. QED
        BY <2>3, <2>4, <4>1
    <3>2. EachOf(Dense, x) = <<>>
      BY <2>7, <2>9, DenseIs, EachFew
    <3>3. D(t) \o <<>> = D(t)
      BY <2>6, ConcatEmptySeq DEF Text
    <3>. QED
      BY <2>1, <2>2, <2>4, <2>6, <3>1, <3>2, <3>3
  <2>10. CASE r # <<>>
    <3>1. EmittedOf(t \o <<x>>) = Append(e, r)
      <4>1. Emitted(x) = <<r>>
        BY <2>4, <2>10 DEF Emitted
      <4>2. Append(e, r) = e \o <<r>>
        BY <2>4, AppendIsConcat DEF Text
      <4>. QED
        BY <2>3, <2>4, <4>1, <4>2
    <3>2. FlattenSeq(Append(e, r)) = FlattenSeq(e) \o r
      BY <2>4, FlatAppend DEF Text
    <3>3. D(Append(e, r)) = D(e) \o EachOf(Dense, r)
      BY <2>4, <2>8, <3>2, DenseCat
    <3>. QED
      BY <2>1, <2>2, <2>4, <2>6, <2>7, <3>1, <3>3
  <2>. QED
    BY <2>9, <2>10
<1>3. T \in SUBSET Seq(Line)
  OBVIOUS
<1>. HIDE DEF T
<1>4. ls \in T
  BY <1>1, <1>2, <1>3, SeqClimb
<1>. QED
  BY <1>4 DEF T

-----------------------------------------------------------------------------
\* What the lines of a text mean for the reader of stdout

OffendsBy(line, complete, limit) == Len(line) > limit \/ (complete /\ Torn(line))
FaultsBy(text, limit) ==
    LET ls == LinesOf(text)
    IN  {k \in DOMAIN ls : OffendsBy(ls[k], k < Len(ls), limit)}
BeforeBy(text, limit) ==
    LET ls == LinesOf(text)
        upTo == IF FaultsBy(text, limit) = {} THEN ls
                ELSE SubSeq(ls, 1, Min(FaultsBy(text, limit)) - 1)
    IN  ParsedOf(upTo)

LEMMA CatAt ==
    ASSUME NEW S, NEW a \in Seq(S), NEW b \in Seq(S)
    PROVE  /\ a \o b \in Seq(S) /\ Len(a) \in Nat /\ Len(b) \in Nat
           /\ Len(a \o b) = Len(a) + Len(b) /\ DOMAIN (a \o b) = 1..(Len(a) + Len(b))
           /\ \A i \in 1..Len(a) : (a \o b)[i] = a[i]
           /\ \A i \in 1..Len(b) : (a \o b)[Len(a) + i] = b[i]
  OBVIOUS

\* The first part of a sequence that has two.
LEMMA CatFirst ==
    ASSUME NEW S, NEW a \in Seq(S), NEW b \in Seq(S), NEW n \in Nat, n <= Len(b)
    PROVE  /\ SubSeq(b, 1, n) \in Seq(S)
           /\ SubSeq(a \o b, 1, Len(a) + n) = a \o SubSeq(b, 1, n)
<1>. DEFINE c == SubSeq(b, 1, n)
            w == a \o b
            k == Len(a)
<1>1. n \in 0..Len(b) /\ k \in Nat /\ Len(b) \in Nat
  OBVIOUS
<1>2. c \in Seq(S) /\ Len(c) = n /\ \A i \in 1..n : c[i] = b[i]
  BY <1>1, Halves
<1>3. /\ w \in Seq(S) /\ Len(w) = k + Len(b)
      /\ \A i \in 1..k : w[i] = a[i]
  BY CatAt
<1>0. \A j \in 1..Len(b) : w[k + j] = b[j]
  BY CatAt
<1>. HIDE DEF c, w, k
<1>4. k + n \in 0..Len(w)
  BY <1>1, <1>3
<1>5. PICK v : v = SubSeq(w, 1, k + n)
  OBVIOUS
<1>6. v \in Seq(S) /\ Len(v) = k + n /\ \A i \in 1..(k + n) : v[i] = w[i]
  BY <1>3, <1>4, <1>5, Halves
<1>7. PICK u : u = a \o c
  OBVIOUS
<1>8. /\ u \in Seq(S) /\ Len(u) = k + n
      /\ \A i \in 1..k : u[i] = a[i]
      /\ \A j \in 1..n : u[k + j] = c[j]
  <2>1. a \in Seq(S) /\ c \in Seq(S)
    BY <1>2
  <2>2. /\ a \o c \in Seq(S) /\ Len(a \o c) = Len(a) + Len(c)
        /\ \A i \in 1..Len(a) : (a \o c)[i] = a[i]
        /\ \A i \in 1..Len(c) : (a \o c)[Len(a) + i] = c[i]
    BY ONLY <2>1, CatAt
  <2>. QED
    BY ONLY <1>2, <1>7, <2>2 DEF k
<1>9. ASSUME NEW i \in 1..(k + n) PROVE u[i] = v[i]
  <2>1. CASE i <= k
    <3>1. i \in 1..k
      BY <1>1, <2>1
    <3>. QED
      BY <1>3, <1>6, <1>8, <3>1
  <2>2. CASE ~(i <= k)
    <3>1. PICK j : j \in 1..n /\ j \in 1..Len(b) /\ k + j = i
      <4>1. i - k \in 1..n /\ i - k \in 1..Len(b) /\ k + (i - k) = i
        BY <1>1, <2>2
      <4>. QED
        BY <4>1
    <3>2. u[i] = b[j]
      BY <1>2, <1>8, <3>1
    <3>3. w[i] = b[j]
      BY <1>0, <3>1
    <3>. QED
      BY <1>6, <3>2, <3>3
  <2>. QED
    BY <2>1, <2>2
<1>10. u = v
  BY <1>6, <1>8, <1>9, SeqEqual
<1>. QED
  BY <1>2, <1>5, <1>7, <1>10 DEF c, w, k

\* What does not offend is not where the fault is.
LEMMA FaultsLater ==
    ASSUME NEW text \in Text, NEW limit, NEW done \in Seq(Line), NEW rest \in Seq(Line),
           rest # <<>>, LinesOf(text) = done \o rest,
           \A k \in 1..Len(done) : ~OffendsBy(done[k], TRUE, limit)
    PROVE  \A k \in FaultsBy(text, limit) : k \in Len(done) + 1..Len(done) + Len(rest)
<1>1. PICK ls : ls = LinesOf(text)
  OBVIOUS
<1>2. PICK d, r \in Nat : d = Len(done) /\ r = Len(rest) /\ r # 0
  BY LenProperties, EmptySeq
<1>3. /\ Len(ls) = d + r /\ DOMAIN ls = 1..(d + r)
      /\ \A i \in 1..d : ls[i] = done[i]
  BY <1>1, <1>2, CatAt
<1>4. ASSUME NEW k \in FaultsBy(text, limit) PROVE k \in (d + 1)..(d + r)
  <2>1. k \in 1..(d + r) /\ OffendsBy(ls[k], k < d + r, limit)
    BY <1>1, <1>3 DEF FaultsBy
  <2>2. CASE k <= d
    <3>1. k \in 1..d /\ k < d + r
      BY <1>2, <2>1, <2>2
    <3>2. OffendsBy(done[k], TRUE, limit)
      BY <1>3, <2>1, <3>1 DEF OffendsBy
    <3>. QED
      BY <1>2, <3>1, <3>2
  <2>. QED
    BY <1>2, <2>1, <2>2
<1>. QED
  BY <1>2, <1>4

LEMMA MinIs ==
    ASSUME NEW T \in SUBSET Nat, T # {}
    PROVE  Min(T) \in T /\ \A i \in T : Min(T) <= i
<1>1. \E m \in T : \A i \in T : m <= i
  BY LeastNat
<1>. QED
  BY <1>1 DEF Min

LEMMA PrefixCat ==
    ASSUME NEW S, NEW a \in Seq(S), NEW b \in Seq(S)
    PROVE  IsPrefix(a, a \o b)
<1>1. PICK w : w = a \o b
  OBVIOUS
<1>2. Len(a) \in Nat /\ Len(b) \in Nat /\ Len(w) = Len(a) + Len(b)
  BY <1>1, CatAt
<1>3. SubSeq(w, 1, Len(a) + 0) = a \o SubSeq(b, 1, 0)
  BY <1>1, <1>2, CatFirst
<1>4. SubSeq(b, 1, 0) = <<>> /\ a \o <<>> = a /\ SubSeq(a, 1, Len(a)) = a
  BY WholeIs, ConcatEmptySeq
<1>5. SubSeq(w, 1, Len(a)) = SubSeq(a, 1, Len(a)) /\ Len(a) <= Len(w)
  BY <1>2, <1>3, <1>4
<1>. QED
  BY <1>1, <1>5 DEF IsPrefix

\* What was made of the lines so far is a beginning of it all.
LEMMA BeforeKeeps ==
    ASSUME NEW text \in Text, NEW limit, NEW done \in Seq(Line), NEW rest \in Seq(Line),
           rest # <<>>, LinesOf(text) = done \o rest,
           \A k \in 1..Len(done) : ~OffendsBy(done[k], TRUE, limit)
    PROVE  IsPrefix(ParsedOf(done), BeforeBy(text, limit))
<1>1. PICK ls : ls = LinesOf(text)
  OBVIOUS
<1>2. PICK d, r \in Nat : d = Len(done) /\ r = Len(rest) /\ r # 0
  BY LenProperties, EmptySeq
<1>3. PICK F : F = FaultsBy(text, limit) /\ \A k \in F : k \in (d + 1)..(d + r)
  BY <1>2, FaultsLater
<1>4. \E more \in Seq(Line) : BeforeBy(text, limit) = ParsedOf(done \o more)
  <2>1. CASE F = {}
    BY <1>1, <1>3, <2>1 DEF BeforeBy
  <2>2. CASE F # {}
    <3>1. F \in SUBSET Nat
      BY <1>2, <1>3
    <3>2. PICK m \in F : m = Min(F)
      BY <2>2, <3>1, MinIs
    <3>3. PICK n \in Nat : n <= r /\ m - 1 = d + n
      <4>1. m - 1 - d \in Nat /\ m - 1 - d <= r /\ m - 1 = d + (m - 1 - d)
        BY <1>2, <1>3, <3>2
      <4>. QED
        BY <4>1
    <3>4. BeforeBy(text, limit) = ParsedOf(SubSeq(ls, 1, d + n))
      BY <1>1, <1>3, <2>2, <3>2, <3>3 DEF BeforeBy
    <3>5. SubSeq(rest, 1, n) \in Seq(Line) /\ SubSeq(ls, 1, d + n) = done \o SubSeq(rest, 1, n)
      BY <1>1, <1>2, <3>3, CatFirst
    <3>. QED
      BY <3>4, <3>5
  <2>. QED
    BY <2>1, <2>2
<1>5. PICK more \in Seq(Line) : BeforeBy(text, limit) = ParsedOf(done \o more)
  BY <1>4
<1>6. /\ ParsedOf(done \o more) = ParsedOf(done) \o ParsedOf(more)
      /\ ParsedOf(done) \in Seq(Messaged) /\ ParsedOf(more) \in Seq(Messaged)
  BY ParsedCat
<1>. QED
  BY <1>5, <1>6, PrefixCat

\* Nothing is made of the first line at fault, and of those after it.
LEMMA BeforeFault ==
    ASSUME NEW text \in Text, NEW limit, NEW done \in Seq(Line), NEW rest \in Seq(Line),
           rest # <<>>, LinesOf(text) = done \o rest,
           \A k \in 1..Len(done) : ~OffendsBy(done[k], TRUE, limit),
           OffendsBy(rest[1], Len(rest) > 1, limit)
    PROVE  FaultsBy(text, limit) # {} /\ BeforeBy(text, limit) = ParsedOf(done)
<1>1. PICK ls : ls = LinesOf(text)
  OBVIOUS
<1>2. PICK d, r \in Nat : d = Len(done) /\ r = Len(rest) /\ r # 0
  BY LenProperties, EmptySeq
<1>3. PICK F : F = FaultsBy(text, limit) /\ \A k \in F : k \in (d + 1)..(d + r)
  BY <1>2, FaultsLater
<1>4. Len(ls) = d + r /\ DOMAIN ls = 1..(d + r) /\ \A i \in 1..r : ls[d + i] = rest[i]
  BY <1>1, <1>2, CatAt
<1>5. 1 \in 1..r /\ d + 1 \in 1..(d + r) /\ (d + 1 < d + r <=> r > 1)
  BY <1>2
<1>6. d + 1 \in F
  <2>1. ls[d + 1] = rest[1]
    BY <1>4, <1>5
  <2>2. OffendsBy(ls[d + 1], d + 1 < d + r, limit)
    BY <1>2, <1>5, <2>1 DEF OffendsBy
  <2>. QED
    BY <1>1, <1>3, <1>4, <1>5, <2>2 DEF FaultsBy
<1>7. Min(F) = d + 1
  <2>1. F \in SUBSET Nat /\ F # {}
    BY <1>2, <1>3, <1>6
  <2>2. PICK m \in F : m = Min(F) /\ \A i \in F : m <= i
    BY <2>1, MinIs
  <2>3. m <= d + 1 /\ m \in (d + 1)..(d + r)
    BY <1>3, <1>6, <2>2
  <2>. QED
    BY <1>2, <2>2, <2>3
<1>8. SubSeq(ls, 1, d) = done
  <2>1. SubSeq(ls, 1, d + 0) = done \o SubSeq(rest, 1, 0)
    BY <1>1, <1>2, CatFirst
  <2>2. SubSeq(rest, 1, 0) = <<>> /\ done \o <<>> = done
    BY WholeIs, ConcatEmptySeq
  <2>. QED
    BY <1>2, <2>1, <2>2
<1>9. BeforeBy(text, limit) = ParsedOf(SubSeq(ls, 1, (d + 1) - 1))
  BY <1>1, <1>3, <1>6, <1>7 DEF BeforeBy
<1>10. (d + 1) - 1 = d /\ F # {}
  BY <1>2, <1>6
<1>. QED
  BY ONLY <1>3, <1>8, <1>9, <1>10

-----------------------------------------------------------------------------
\* The reader of stdout

(***************************************************************************)
(* The reader of stdout, given what it has heard of the text, the tail p,  *)
(* the lines f it has yet to handle, and the messages g it has yielded: it *)
(* has made its way through the lines without fault that come first.       *)
(***************************************************************************)
Splits(heard, done, f, p) == LinesOf(heard) = done \o Append(f, p)
OnItsWay(heard, limit, p, f, g) ==
    \E done \in Seq(Line) :
        /\ Splits(heard, done, f, p) /\ g = ParsedOf(done)
        /\ \A k \in 1..Len(done) : ~OffendsBy(done[k], TRUE, limit)

\* All that is left of the text adds to the tail.
LEMMA GoesOn ==
    ASSUME NEW heard \in Text, NEW more \in Text, NEW done \in Seq(Line),
           NEW p \in Line, NEW f \in Seq(Line), Splits(heard, done, f, p)
    PROVE  /\ LinesOf(heard \o more) = done \o (f \o LinesOf(p \o more))
           /\ f \o LinesOf(p \o more) \in Seq(Line) /\ f \o LinesOf(p \o more) # <<>>
           /\ p \o more \in Text /\ heard \o more \in Text
<1>1. PICK c : c = done \o f /\ c \in Seq(Line)
  BY ConcatProperties
<1>2. LinesOf(heard) = Append(c, p)
  BY <1>1, CatAppend DEF Splits
<1>3. LinesOf(heard \o more) = c \o LinesOf(p \o more)
  BY <1>1, <1>2, LinesCat
<1>4. p \in Text /\ p \o more \in Text /\ heard \o more \in Text
  BY LineText, ConcatProperties DEF Text
<1>5. PICK M \in Seq(Line) : M = LinesOf(p \o more) /\ M # <<>>
  BY <1>4, LinesIn
<1>6. (done \o f) \o M = done \o (f \o M)
  BY ConcatAssociative
<1>7. f \o M \in Seq(Line) /\ f \o M # <<>>
  <2>1. f \o M \in Seq(Line) /\ Len(f \o M) = Len(f) + Len(M) /\ Len(f) \in Nat /\ Len(M) \in Nat
    BY CatAt
  <2>2. Len(M) # 0
    BY <1>5, EmptySeq
  <2>3. Len(f \o M) # 0
    BY <2>1, <2>2
  <2>. QED
    BY <2>1, <2>3
<1>. QED
  BY <1>1, <1>3, <1>4, <1>5, <1>6, <1>7

\* What has been yielded comes first in what there is to yield.
LEMMA YieldsFirst ==
    ASSUME NEW heard \in Text, NEW more \in Text, NEW limit,
           NEW p \in Line, NEW f \in Seq(Line), NEW g, OnItsWay(heard, limit, p, f, g)
    PROVE  IsPrefix(g, BeforeBy(heard \o more, limit))
<1>1. PICK done \in Seq(Line) :
          /\ Splits(heard, done, f, p) /\ g = ParsedOf(done)
          /\ \A k \in 1..Len(done) : ~OffendsBy(done[k], TRUE, limit)
  BY DEF OnItsWay
<1>2. PICK rest, t : /\ rest \in Seq(Line) /\ rest # <<>> /\ t \in Text
                     /\ t = heard \o more /\ LinesOf(t) = done \o rest
  <2>1. Splits(heard, done, f, p)
    BY <1>1
  <2>2. /\ LinesOf(heard \o more) = done \o (f \o LinesOf(p \o more))
        /\ f \o LinesOf(p \o more) \in Seq(Line) /\ f \o LinesOf(p \o more) # <<>>
        /\ heard \o more \in Text
    BY <2>1, GoesOn
  <2>. QED
    BY <2>2
<1>. QED
  BY <1>1, <1>2, BeforeKeeps

\* Another chunk.
LEMMA PushOnItsWay ==
    ASSUME NEW heard \in Text, NEW chunk \in Text, NEW limit,
           NEW p \in Line, NEW g, OnItsWay(heard, limit, p, <<>>, g)
    PROVE  OnItsWay(heard \o chunk, limit, Last(LinesOf(p \o chunk)), Front(LinesOf(p \o chunk)), g)
<1>1. PICK done \in Seq(Line) :
          /\ Splits(heard, done, <<>>, p) /\ g = ParsedOf(done)
          /\ \A k \in 1..Len(done) : ~OffendsBy(done[k], TRUE, limit)
  BY DEF OnItsWay
<1>2. PICK e \in Seq(Line) : e = <<>>
  BY EmptySeq
<1>3. /\ LinesOf(heard \o chunk) = done \o (e \o LinesOf(p \o chunk))
      /\ p \o chunk \in Text
  <2>1. Splits(heard, done, e, p)
    BY <1>1, <1>2
  <2>. QED
    BY <2>1, GoesOn
<1>4. PICK M \in Seq(Line) : M = LinesOf(p \o chunk) /\ M # <<>>
  BY <1>3, LinesIn
<1>5. e \o M = M
  BY <1>2, ConcatEmptySeq
<1>6. M = Append(Front(M), Last(M))
  BY <1>4, FrontLast
<1>. QED
  BY <1>1, <1>3, <1>4, <1>5, <1>6 DEF OnItsWay, Splits

\* A line is handled.
LEMMA HandleOnItsWay ==
    ASSUME NEW heard \in Text, NEW limit, NEW p \in Line, NEW f \in Seq(Line), f # <<>>,
           NEW g, OnItsWay(heard, limit, p, f, g), ~OffendsBy(Head(f), TRUE, limit)
    PROVE  OnItsWay(heard, limit, p, Tail(f), g \o Parsed(Head(f)))
<1>1. PICK done \in Seq(Line) :
          /\ Splits(heard, done, f, p) /\ g = ParsedOf(done)
          /\ \A k \in 1..Len(done) : ~OffendsBy(done[k], TRUE, limit)
  BY DEF OnItsWay
<1>2. PICK x, r : x \in Line /\ r \in Seq(Line) /\ x = Head(f) /\ r = Tail(f) /\ f = <<x>> \o r
  <2>1. Head(f) \in Line /\ Tail(f) \in Seq(Line)
    BY HeadTailProperties
  <2>2. f = <<Head(f)>> \o Tail(f)
    OBVIOUS
  <2>. QED
    BY <2>1, <2>2
<1>3. PICK d : d = Append(done, x) /\ d \in Seq(Line)
  BY <1>2, AppendProperties
<1>4. LinesOf(heard) = d \o Append(r, p)
  <2>1. <<x>> \in Seq(Line) /\ Append(r, p) \in Seq(Line)
    BY <1>2, AppendProperties
  <2>2. Append(<<x>> \o r, p) = <<x>> \o Append(r, p)
    BY <1>2, <2>1, CatAppend
  <2>3. PICK u, v : u = <<x>> /\ v = Append(r, p) /\ u \in Seq(Line) /\ v \in Seq(Line)
    BY <2>1
  <2>4. done \o (u \o v) = (done \o u) \o v
    <3>1. done \in Seq(Line) /\ u \in Seq(Line) /\ v \in Seq(Line)
      BY <2>3
    <3>. QED
      BY ONLY <3>1, ConcatAssociative
  <2>5. d = done \o <<x>>
    BY <1>2, <1>3, AppendIsConcat
  <2>. QED
    BY <1>1, <1>2, <2>2, <2>3, <2>4, <2>5 DEF Splits
<1>5. g \o Parsed(x) = ParsedOf(d)
  <2>1. <<x>> \in Seq(Line) /\ d = done \o <<x>>
    BY <1>2, <1>3, AppendIsConcat
  <2>2. PICK u \in Seq(Line) : u = <<x>>
    BY <2>1
  <2>3. ParsedOf(done \o u) = ParsedOf(done) \o ParsedOf(u)
    BY ParsedCat
  <2>4. ParsedOf(<<x>>) = Parsed(x)
    BY <1>2, MadeOfOne
  <2>. QED
    BY <1>1, <2>1, <2>2, <2>3, <2>4
<1>6. \A k \in 1..Len(d) : ~OffendsBy(d[k], TRUE, limit)
  <2>1. PICK n \in Nat : n = Len(done)
    BY LenProperties
  <2>2. Len(d) = n + 1 /\ d[n + 1] = x
    BY <1>2, <1>3, <2>1, AppendProperties
  <2>3. \A i \in 1..n : d[i] = done[i]
    BY <1>2, <1>3, <2>1, AppendProperties
  <2>4. ASSUME NEW k \in 1..(n + 1) PROVE ~OffendsBy(d[k], TRUE, limit)
    <3>1. CASE k = n + 1
      BY <1>2, <2>2, <3>1
    <3>2. CASE k # n + 1
      <4>1. k \in 1..n
        BY <3>2
      <4>. QED
        BY <1>1, <2>1, <2>3, <4>1
    <3>. QED
      BY <3>1, <3>2
  <2>. QED
    BY <2>2, <2>4
<1>. QED
  BY <1>2, <1>3, <1>4, <1>5, <1>6 DEF OnItsWay, Splits

\* A text is at fault, and no more can be made of it.
Fails(text, limit, g) == FaultsBy(text, limit) # {} /\ g = BeforeBy(text, limit)

\* A complete line is at fault: nothing more can be made of any text.
LEMMA RaiseOnItsWay ==
    ASSUME NEW heard \in Text, NEW more \in Text, NEW limit, NEW p \in Line,
           NEW f \in Seq(Line), f # <<>>, NEW g, OnItsWay(heard, limit, p, f, g),
           OffendsBy(Head(f), TRUE, limit)
    PROVE  Fails(heard \o more, limit, g)
<1>1. PICK done \in Seq(Line) :
          /\ Splits(heard, done, f, p) /\ g = ParsedOf(done)
          /\ \A k \in 1..Len(done) : ~OffendsBy(done[k], TRUE, limit)
  BY DEF OnItsWay
<1>2. /\ LinesOf(heard \o more) = done \o (f \o LinesOf(p \o more))
      /\ f \o LinesOf(p \o more) \in Seq(Line) /\ f \o LinesOf(p \o more) # <<>>
      /\ p \o more \in Text /\ heard \o more \in Text
  <2>1. Splits(heard, done, f, p)
    BY <1>1
  <2>. QED
    BY <2>1, GoesOn
<1>3. PICK M \in Seq(Line) : M = LinesOf(p \o more) /\ M # <<>>
  BY <1>2, LinesIn
<1>4. PICK rest, t : rest = f \o M /\ t = heard \o more
  OBVIOUS
<1>5. /\ rest \in Seq(Line) /\ rest # <<>> /\ t \in Text /\ LinesOf(t) = done \o rest
  BY <1>2, <1>3, <1>4
<1>6. Len(rest) > 1 /\ rest[1] = Head(f)
  <2>1. PICK m, n \in Nat : m = Len(f) /\ n = Len(M) /\ m # 0 /\ n # 0
    BY <1>3, LenProperties, EmptySeq
  <2>2. Len(rest) = m + n /\ \A i \in 1..m : rest[i] = f[i]
    BY <1>4, <2>1, CatAt
  <2>3. 1 \in 1..m /\ m + n > 1
    BY <2>1
  <2>4. Head(f) = f[1]
    OBVIOUS
  <2>. QED
    BY <2>2, <2>3, <2>4
<1>7. OffendsBy(rest[1], Len(rest) > 1, limit)
  BY <1>6 DEF OffendsBy
<1>8. FaultsBy(t, limit) # {} /\ BeforeBy(t, limit) = ParsedOf(done)
  BY <1>1, <1>5, <1>7, BeforeFault
<1>. QED
  BY <1>1, <1>4, <1>8 DEF Fails

\* The tail alone is too long.
LEMMA RaiseTail ==
    ASSUME NEW heard \in Text, NEW more \in Text, NEW limit \in Nat, NEW p \in Line,
           NEW g, OnItsWay(heard, limit, p, <<>>, g), Len(p) > limit
    PROVE  Fails(heard \o more, limit, g)
<1>1. PICK done \in Seq(Line) :
          /\ Splits(heard, done, <<>>, p) /\ g = ParsedOf(done)
          /\ \A k \in 1..Len(done) : ~OffendsBy(done[k], TRUE, limit)
  BY DEF OnItsWay
<1>2. PICK e \in Seq(Line) : e = <<>>
  BY EmptySeq
<1>3. /\ LinesOf(heard \o more) = done \o (e \o LinesOf(p \o more))
      /\ p \o more \in Text /\ heard \o more \in Text
  <2>1. Splits(heard, done, e, p)
    BY <1>1, <1>2
  <2>. QED
    BY <2>1, GoesOn
<1>4. PICK M \in Seq(Line) : M = LinesOf(p \o more) /\ M # <<>>
  BY <1>3, LinesIn
<1>5. PICK t \in Text : t = heard \o more /\ LinesOf(t) = done \o M
  <2>1. e \o M = M
    BY <1>2, ConcatEmptySeq
  <2>. QED
    BY <1>3, <1>4, <2>1
<1>6. Len(M[1]) > limit
  <2>1. Len(M[1]) >= Len(p)
    BY <1>4, FirstGrows
  <2>2. M[1] \in Line
    BY <1>4
  <2>3. Len(M[1]) \in Nat /\ Len(p) \in Nat
    BY <2>2, LenProperties DEF Line
  <2>. QED
    BY <2>1, <2>3
<1>7. OffendsBy(M[1], Len(M) > 1, limit)
  BY <1>6 DEF OffendsBy
<1>8. FaultsBy(t, limit) # {} /\ BeforeBy(t, limit) = ParsedOf(done)
  BY <1>1, <1>4, <1>5, <1>7, BeforeFault
<1>. QED
  BY <1>1, <1>5, <1>8 DEF Fails

\* The text ends, with a tail that is not too long.
LEMMA EndsSound ==
    ASSUME NEW heard \in Text, NEW limit \in Nat, NEW p \in Line,
           NEW g, OnItsWay(heard, limit, p, <<>>, g), Len(p) <= limit
    PROVE  FaultsBy(heard, limit) = {} /\ g \o Parsed(p) = BeforeBy(heard, limit)
<1>1. PICK done \in Seq(Line) :
          /\ Splits(heard, done, <<>>, p) /\ g = ParsedOf(done)
          /\ \A k \in 1..Len(done) : ~OffendsBy(done[k], TRUE, limit)
  BY DEF OnItsWay
<1>2. PICK rest \in Seq(Line) : rest = <<p>> /\ rest # <<>> /\ Len(rest) = 1 /\ rest[1] = p
  <2>1. <<p>> \in Seq(Line) /\ <<p>> # <<>> /\ Len(<<p>>) = 1 /\ <<p>>[1] = p
    OBVIOUS
  <2>. QED
    BY <2>1
<1>3. LinesOf(heard) = done \o rest
  BY <1>1, <1>2 DEF Splits
<1>4. PICK d \in Nat : d = Len(done)
  BY LenProperties
<1>5. \A k \in FaultsBy(heard, limit) : k \in (d + 1)..(d + 1)
  BY <1>1, <1>2, <1>3, <1>4, FaultsLater
<1>6. FaultsBy(heard, limit) = {}
  <2>1. Len(LinesOf(heard)) = d + 1 /\ LinesOf(heard)[d + 1] = p
    <3>1. Len(done \o rest) = d + 1 /\ \A i \in 1..1 : (done \o rest)[d + i] = rest[i]
      BY <1>2, <1>4, CatAt
    <3>2. 1 \in 1..1
      OBVIOUS
    <3>. QED
      BY <1>2, <1>3, <3>1, <3>2
  <2>2. ASSUME NEW k \in FaultsBy(heard, limit) PROVE FALSE
    <3>1. k = d + 1
      BY <1>4, <1>5
    <3>2. OffendsBy(p, d + 1 < d + 1, limit)
      BY <2>1, <2>2, <3>1 DEF FaultsBy
    <3>3. ~(d + 1 < d + 1) /\ ~(Len(p) > limit)
      <4>1. Len(p) \in Nat
        BY LenProperties DEF Line
      <4>. QED
        BY <1>4, <4>1
    <3>. QED
      BY <3>2, <3>3 DEF OffendsBy
  <2>. QED
    BY <2>2
<1>7. BeforeBy(heard, limit) = ParsedOf(done \o rest)
  BY <1>3, <1>6 DEF BeforeBy
<1>8. ParsedOf(done \o rest) = ParsedOf(done) \o ParsedOf(rest)
  BY ParsedCat
<1>9. ParsedOf(<<p>>) = Parsed(p)
  BY MadeOfOne
<1>. QED
  BY <1>1, <1>2, <1>6, <1>7, <1>8, <1>9

-----------------------------------------------------------------------------
\* The reader of stderr

DenseOf(ls) == EachOf(Dense, FlattenSeq(ls))
Short(text, limit) == \A k \in DOMAIN LinesOf(text) : Len(LinesOf(text)[k]) <= limit

LEMMA LinesTexts ==
    ASSUME NEW ls \in Seq(Line)
    PROVE  ls \in Seq(Seq(Characters)) /\ FlattenSeq(ls) \in Line /\ FlattenSeq(ls) \in Text
<1>1. Seq(Line) \subseteq Seq(Text)
  BY LineText, SeqMonotonic
<1>2. FlattenSeq(ls) \in Line
  BY FlatIn DEF Line
<1>. QED
  BY <1>1, <1>2, LineText DEF Text

LEMMA DenseOfCat ==
    ASSUME NEW a \in Seq(Line), NEW b \in Seq(Line)
    PROVE  /\ a \o b \in Seq(Line) /\ DenseOf(a) \in Text /\ DenseOf(b) \in Text
           /\ DenseOf(a \o b) = DenseOf(a) \o DenseOf(b)
<1>1. PICK u, v, U : /\ u = a /\ v = b /\ U = Characters /\ u \in Seq(Seq(U)) /\ v \in Seq(Seq(U))
  BY LinesTexts
<1>2. FlattenSeq(u \o v) = FlattenSeq(u) \o FlattenSeq(v)
  <2>1. u \in Seq(Seq(U)) /\ v \in Seq(Seq(U))
    BY <1>1
  <2>. QED
    BY ONLY <2>1, FlatCat
<1>3. FlattenSeq(a) \in Text /\ FlattenSeq(b) \in Text
  BY LinesTexts
<1>4. a \o b \in Seq(Line)
  BY ConcatProperties
<1>5. PICK x, y : x = FlattenSeq(a) /\ y = FlattenSeq(b) /\ x \in Text /\ y \in Text
  BY <1>3
<1>6. /\ EachOf(Dense, x) \in Text /\ EachOf(Dense, y) \in Text
      /\ EachOf(Dense, x \o y) = EachOf(Dense, x) \o EachOf(Dense, y)
  BY <1>5, DenseCat
<1>. QED
  BY <1>1, <1>2, <1>4, <1>5, <1>6 DEF DenseOf

LEMMA DenseOfFew ==
    ASSUME NEW line \in Line
    PROVE  DenseOf(<<>>) = <<>> /\ DenseOf(<<line>>) = EachOf(Dense, line) /\ EachOf(Dense, <<>>) = <<>>
<1>1. FlattenSeq(<<>>) = <<>> /\ FlattenSeq(<<line>>) = line
  BY FlatNone, FlatOne
<1>. QED
  BY <1>1, DenseIs, EachFew DEF DenseOf

\* If no line of a text is too long, none is of its beginning.
LEMMA ShortBefore ==
    ASSUME NEW heard \in Text, NEW more \in Text, NEW limit \in Nat, Short(heard \o more, limit)
    PROVE  Short(heard, limit)
<1>1. PICK ls : ls = LinesOf(heard) /\ ls \in Seq(Line) /\ ls # <<>>
  BY LinesIn
<1>2. PICK F \in Seq(Line), l \in Line : ls = Append(F, l)
  BY <1>1, SequenceEmptyOrAppend
<1>3. LinesOf(heard \o more) = F \o LinesOf(l \o more)
  <2>1. LinesOf(heard) = Append(F, l)
    BY <1>1, <1>2
  <2>. QED
    BY <2>1, LinesCat
<1>4. l \o more \in Text
  BY LineText, ConcatProperties DEF Text
<1>5. PICK M \in Seq(Line) : M = LinesOf(l \o more) /\ M # <<>>
  BY <1>4, LinesIn
<1>6. PICK d, m \in Nat : d = Len(F) /\ m = Len(M) /\ m # 0
  BY <1>5, LenProperties, EmptySeq
<1>7. PICK w : w = F \o M /\ DOMAIN w = 1..(d + m) /\ \A i \in 1..d : w[i] = F[i]
  <2>1. DOMAIN (F \o M) = 1..(d + m) /\ \A i \in 1..d : (F \o M)[i] = F[i]
    BY <1>6, CatAt
  <2>. QED
    BY <2>1
<1>8. w[d + 1] = M[1]
  <2>1. \A i \in 1..m : (F \o M)[d + i] = M[i]
    BY <1>6, CatAt
  <2>2. 1 \in 1..m
    BY <1>6
  <2>. QED
    BY <1>7, <2>1, <2>2
<1>9. \A k \in 1..(d + m) : Len(w[k]) <= limit
  BY <1>3, <1>5, <1>7 DEF Short
<1>10. Len(l) <= limit
  <2>1. Len(M[1]) >= Len(l) /\ M[1] \in Line
    BY <1>5, FirstGrows
  <2>2. d + 1 \in 1..(d + m)
    BY <1>6
  <2>3. Len(M[1]) <= limit
    BY <1>8, <1>9, <2>2
  <2>4. Len(M[1]) \in Nat /\ Len(l) \in Nat
    BY <2>1, LenProperties DEF Line
  <2>. QED
    BY <2>1, <2>3, <2>4
<1>11. DOMAIN ls = 1..(d + 1) /\ ls[d + 1] = l /\ \A i \in 1..d : ls[i] = F[i]
  <2>1. ls = F \o <<l>> /\ <<l>> \in Seq(Line) /\ Len(<<l>>) = 1 /\ <<l>>[1] = l
    BY <1>2, AppendIsConcat
  <2>2. PICK u \in Seq(Line) : u = <<l>> /\ Len(u) = 1 /\ u[1] = l
    BY <2>1
  <2>3. /\ DOMAIN (F \o u) = 1..(d + 1) /\ \A i \in 1..d : (F \o u)[i] = F[i]
        /\ \A i \in 1..1 : (F \o u)[d + i] = u[i]
    BY <1>6, <2>2, CatAt
  <2>4. 1 \in 1..1
    OBVIOUS
  <2>. QED
    BY <2>1, <2>2, <2>3, <2>4
<1>12. ASSUME NEW k \in 1..(d + 1) PROVE Len(ls[k]) <= limit
  <2>1. CASE k = d + 1
    BY <1>10, <1>11, <2>1
  <2>2. CASE k # d + 1
    <3>1. k \in 1..d /\ k \in 1..(d + m)
      BY <1>6, <2>2
    <3>2. ls[k] = w[k]
      BY <1>7, <1>11, <3>1
    <3>. QED
      BY <1>9, <3>1, <3>2
  <2>. QED
    BY <2>1, <2>2
<1>. QED
  BY <1>1, <1>11, <1>12 DEF Short

(***************************************************************************)
(* The reader of stderr: the callback was given every character there is   *)
(* no white space in, or it is still in hand; and whole lines if none is   *)
(* too long.                                                               *)
(***************************************************************************)
Complete(heard, p, f, g) == DenseOf(g) \o (DenseOf(f) \o EachOf(Dense, p)) = EachOf(Dense, heard)
Whole(heard, p, f, g) ==
    \E F \in Seq(Line) : LinesOf(heard) = Append(F, p) /\ EmittedOf(F) = g \o EmittedOf(f)
KeptSoFar(heard, limit, p, f, g) ==
    /\ g \in Seq(Line) /\ Complete(heard, p, f, g)
    /\ Short(heard, limit) => Whole(heard, p, f, g)

LEMMA AppendOne ==
    ASSUME NEW a \in Seq(Line), NEW z \in Line
    PROVE  <<z>> \in Seq(Line) /\ Append(a, z) = a \o <<z>>
<1>1. <<z>> \in Seq(Line)
  OBVIOUS
<1>. QED
  BY <1>1, AppendIsConcat

LEMMA CompletePush ==
    ASSUME NEW heard \in Text, NEW chunk \in Text, NEW p \in Line, NEW g \in Seq(Line),
           Complete(heard, p, <<>>, g)
    PROVE  Complete(heard \o chunk, Last(LinesOf(p \o chunk)), Front(LinesOf(p \o chunk)), g)
<1>1. PICK G, P, C, H : /\ G = DenseOf(g) /\ P = EachOf(Dense, p)
                        /\ C = EachOf(Dense, chunk) /\ H = EachOf(Dense, heard)
  OBVIOUS
<1>2. p \in Text /\ p \o chunk \in Text /\ heard \o chunk \in Text
  BY LineText, ConcatProperties DEF Text
<1>3. G \in Text /\ P \in Text /\ C \in Text /\ H \in Text
  BY <1>1, <1>2, DenseCat, DenseOfCat
<1>4. G \o (<<>> \o P) = H
  BY <1>1, LineText, DenseOfFew DEF Complete
<1>5. <<>> \o P = P
  BY <1>3, ConcatEmptySeq DEF Text
<1>6. EachOf(Dense, heard \o chunk) = H \o C /\ EachOf(Dense, p \o chunk) = P \o C
  BY <1>1, <1>2, DenseCat
<1>7. (G \o P) \o C = G \o (P \o C)
  <2>1. G \in Seq(Characters) /\ P \in Seq(Characters) /\ C \in Seq(Characters)
    BY <1>3 DEF Text
  <2>. QED
    BY ONLY <2>1, ConcatAssociative
<1>8. PICK M \in Seq(Line) : M = LinesOf(p \o chunk) /\ M # <<>>
  BY <1>2, LinesIn
<1>9. DenseOf(M) = P \o C
  BY <1>2, <1>6, <1>8, DenseLines DEF DenseOf
<1>10. PICK a, z : /\ a \in Seq(Line) /\ z \in Line /\ a = Front(M) /\ z = Last(M)
                   /\ M = Append(a, z)
  BY <1>8, FrontLast
<1>11. DenseOf(M) = DenseOf(a) \o EachOf(Dense, z)
  <2>1. PICK u \in Seq(Line) : u = <<z>> /\ M = a \o u
    <3>1. a \in Seq(Line) /\ z \in Line
      BY <1>10
    <3>2. <<z>> \in Seq(Line) /\ Append(a, z) = a \o <<z>>
      BY ONLY <3>1, AppendOne
    <3>. QED
      BY <1>10, <3>2
  <2>2. DenseOf(a \o u) = DenseOf(a) \o DenseOf(u)
    BY <1>10, DenseOfCat
  <2>3. DenseOf(<<z>>) = EachOf(Dense, z)
    BY <1>10, DenseOfFew
  <2>. QED
    BY <2>1, <2>2, <2>3
<1>. QED
  BY <1>1, <1>4, <1>5, <1>6, <1>7, <1>8, <1>9, <1>10, <1>11 DEF Complete

\* What the callback is given of the lines is no longer in hand.
LEMMA CompleteHandle ==
    ASSUME NEW heard \in Text, NEW p \in Line, NEW f \in Seq(Line), NEW g \in Seq(Line),
           Complete(heard, p, f, g)
    PROVE  /\ g \o EmittedOf(f) \in Seq(Line) /\ Complete(heard, p, <<>>, g \o EmittedOf(f))
<1>1. PICK e \in Seq(Line) : e = EmittedOf(f)
  BY EmittedCat
<1>2. DenseOf(e) = DenseOf(f)
  BY <1>1, EmittedDense DEF DenseOf
<1>3. /\ g \o e \in Seq(Line) /\ DenseOf(g) \in Text /\ DenseOf(f) \in Text
      /\ DenseOf(g \o e) = DenseOf(g) \o DenseOf(e)
  BY DenseOfCat
<1>4. PICK G, F, P : /\ G = DenseOf(g) /\ F = DenseOf(f) /\ P = EachOf(Dense, p)
                     /\ G \in Text /\ F \in Text /\ P \in Text
  <2>1. p \in Text
    BY LineText
  <2>. QED
    BY <1>3, <2>1, DenseCat
<1>5. (G \o F) \o P = G \o (F \o P)
  <2>1. G \in Seq(Characters) /\ F \in Seq(Characters) /\ P \in Seq(Characters)
    BY <1>4 DEF Text
  <2>. QED
    BY ONLY <2>1, ConcatAssociative
<1>6. <<>> \o P = P /\ DenseOf(<<>>) = <<>>
  BY <1>4, ConcatEmptySeq, DenseOfFew DEF Text
<1>. QED
  BY <1>1, <1>2, <1>3, <1>4, <1>5, <1>6 DEF Complete

\* The tail is given away as a line.
LEMMA CompleteTail ==
    ASSUME NEW heard \in Text, NEW p \in Line, NEW g \in Seq(Line),
           Complete(heard, p, <<>>, g)
    PROVE  /\ g \o Emitted(p) \in Seq(Line) /\ DenseOf(g \o Emitted(p)) = EachOf(Dense, heard)
           /\ Complete(heard, <<>>, <<>>, g \o Emitted(p))
<1>1. PICK u \in Seq(Line) : u = <<p>>
  BY AppendOne, EmptySeq
<1>2. PICK e \in Seq(Line) : e = EmittedOf(u) /\ e = Emitted(p)
  BY <1>1, EmittedCat, MadeOfOne
<1>3. DenseOf(e) = EachOf(Dense, p)
  BY <1>1, <1>2, EmittedDense, DenseOfFew DEF DenseOf
<1>4. /\ g \o e \in Seq(Line) /\ DenseOf(g) \in Text /\ DenseOf(g \o e) \in Text
      /\ DenseOf(g \o e) = DenseOf(g) \o DenseOf(e)
  <2>1. g \o e \in Seq(Line)
    BY DenseOfCat
  <2>. QED
    BY <2>1, DenseOfCat
<1>5. PICK G, P : G = DenseOf(g) /\ P = EachOf(Dense, p) /\ G \in Text /\ P \in Text
  <2>1. p \in Text
    BY LineText
  <2>. QED
    BY <1>4, <2>1, DenseCat
<1>6. <<>> \o P = P /\ DenseOf(<<>>) = <<>> /\ EachOf(Dense, <<>>) = <<>>
  BY <1>5, ConcatEmptySeq, DenseOfFew DEF Text
<1>7. DenseOf(g \o e) = EachOf(Dense, heard)
  BY <1>3, <1>4, <1>5, <1>6 DEF Complete
<1>8. DenseOf(g \o e) \o (<<>> \o <<>>) = DenseOf(g \o e)
  <2>1. <<>> \o <<>> = <<>>
    BY EmptySeq, ConcatEmptySeq
  <2>2. DenseOf(g \o e) \o <<>> = DenseOf(g \o e)
    BY <1>4, ConcatEmptySeq DEF Text
  <2>. QED
    BY <2>1, <2>2
<1>. QED
  BY <1>2, <1>4, <1>6, <1>7, <1>8 DEF Complete

LEMMA KeptPush ==
    ASSUME NEW heard \in Text, NEW chunk \in Text, NEW limit \in Nat, NEW p \in Line,
           NEW g, KeptSoFar(heard, limit, p, <<>>, g)
    PROVE  KeptSoFar(heard \o chunk, limit,
                     Last(LinesOf(p \o chunk)), Front(LinesOf(p \o chunk)), g)
<1>1. g \in Seq(Line) /\ Complete(heard, p, <<>>, g)
  BY DEF KeptSoFar
<1>2. Complete(heard \o chunk, Last(LinesOf(p \o chunk)), Front(LinesOf(p \o chunk)), g)
  BY <1>1, CompletePush
<1>3. ASSUME Short(heard \o chunk, limit)
      PROVE  Whole(heard \o chunk, Last(LinesOf(p \o chunk)), Front(LinesOf(p \o chunk)), g)
  <2>1. Short(heard, limit)
    BY <1>3, ShortBefore
  <2>2. PICK F \in Seq(Line) : LinesOf(heard) = Append(F, p) /\ EmittedOf(F) = g \o EmittedOf(<<>>)
    BY <2>1 DEF KeptSoFar, Whole
  <2>3. EmittedOf(F) = g
    <3>1. EmittedOf(<<>>) = <<>> /\ g \o <<>> = g
      BY <1>1, MadeOfOne, ConcatEmptySeq
    <3>. QED
      BY <2>2, <3>1
  <2>4. LinesOf(heard \o chunk) = F \o LinesOf(p \o chunk)
    <3>1. LinesOf(heard) = Append(F, p)
      BY <2>2
    <3>. QED
      BY <3>1, LinesCat
  <2>5. p \o chunk \in Text
    BY LineText, ConcatProperties DEF Text
  <2>6. PICK M \in Seq(Line) : M = LinesOf(p \o chunk) /\ M # <<>>
    BY <2>5, LinesIn
  <2>7. PICK a, z : /\ a \in Seq(Line) /\ z \in Line /\ a = Front(M) /\ z = Last(M)
                    /\ M = Append(a, z)
    BY <2>6, FrontLast
  <2>8. F \o Append(a, z) = Append(F \o a, z)
    BY <2>7, CatAppend
  <2>9. EmittedOf(F \o a) = EmittedOf(F) \o EmittedOf(a) /\ F \o a \in Seq(Line)
    BY <2>7, EmittedCat
  <2>. QED
    BY <2>3, <2>4, <2>6, <2>7, <2>8, <2>9 DEF Whole
<1>. QED
  BY <1>1, <1>2, <1>3 DEF KeptSoFar

LEMMA KeptHandle ==
    ASSUME NEW heard \in Text, NEW limit \in Nat, NEW p \in Line, NEW f \in Seq(Line),
           NEW g, KeptSoFar(heard, limit, p, f, g)
    PROVE  KeptSoFar(heard, limit, p, <<>>, g \o EmittedOf(f))
<1>1. g \in Seq(Line) /\ Complete(heard, p, f, g)
  BY DEF KeptSoFar
<1>2. PICK h : h = g \o EmittedOf(f) /\ h \in Seq(Line) /\ Complete(heard, p, <<>>, h)
  BY <1>1, CompleteHandle
<1>3. h \o EmittedOf(<<>>) = h
  BY <1>2, MadeOfOne, ConcatEmptySeq
<1>4. ASSUME Whole(heard, p, f, g) PROVE Whole(heard, p, <<>>, h)
  BY <1>2, <1>3, <1>4 DEF Whole
<1>. QED
  BY <1>2, <1>4 DEF KeptSoFar

\* The last line of a text whose lines are not too long is not.
LEMMA TailShort ==
    ASSUME NEW heard, NEW limit, NEW p \in Line, NEW F \in Seq(Line),
           LinesOf(heard) = Append(F, p), Short(heard, limit)
    PROVE  Len(p) <= limit
<1>1. PICK w : w = LinesOf(heard)
  OBVIOUS
<1>2. PICK n \in Nat : n = Len(F)
  BY LenProperties
<1>3. Len(w) = n + 1 /\ w[n + 1] = p /\ w \in Seq(Line)
  BY <1>1, <1>2, AppendProperties
<1>4. n + 1 \in DOMAIN w
  <2>1. DOMAIN w = 1..(n + 1)
    BY <1>3, LenProperties
  <2>. QED
    BY <2>1
<1>. QED
  BY <1>1, <1>3, <1>4 DEF Short

\* The tail is too long, and given away.
LEMMA KeptCut ==
    ASSUME NEW heard \in Text, NEW limit \in Nat, NEW p \in Line,
           NEW g, KeptSoFar(heard, limit, p, <<>>, g), Len(p) > limit
    PROVE  KeptSoFar(heard, limit, <<>>, <<>>, g \o Emitted(p))
<1>1. g \in Seq(Line) /\ Complete(heard, p, <<>>, g)
  BY DEF KeptSoFar
<1>2. g \o Emitted(p) \in Seq(Line) /\ Complete(heard, <<>>, <<>>, g \o Emitted(p))
  BY <1>1, CompleteTail
<1>3. ~Short(heard, limit)
  <2>1. SUFFICES ASSUME Short(heard, limit) PROVE FALSE
    OBVIOUS
  <2>2. PICK F \in Seq(Line) : LinesOf(heard) = Append(F, p)
    BY <2>1 DEF KeptSoFar, Whole
  <2>3. Len(p) <= limit /\ Len(p) \in Nat
    BY <2>1, <2>2, TailShort, LenProperties DEF Line
  <2>. QED
    BY <2>3
<1>. QED
  BY <1>2, <1>3 DEF KeptSoFar

LEMMA KeptEnds ==
    ASSUME NEW heard \in Text, NEW limit \in Nat, NEW p \in Line,
           NEW g, KeptSoFar(heard, limit, p, <<>>, g)
    PROVE  /\ Ink(FlattenSeq(g \o Emitted(p))) = Ink(FlattenSeq(LinesOf(heard)))
           /\ Short(heard, limit) => g \o Emitted(p) = EmittedOf(LinesOf(heard))
<1>1. g \in Seq(Line) /\ Complete(heard, p, <<>>, g)
  BY DEF KeptSoFar
<1>2. PICK h : h = g \o Emitted(p) /\ h \in Seq(Line) /\ DenseOf(h) = EachOf(Dense, heard)
  BY <1>1, CompleteTail
<1>3. Ink(FlattenSeq(h)) = DenseOf(h)
  <2>1. FlattenSeq(h) \in Line
    BY <1>2, LinesTexts
  <2>. QED
    BY <2>1, InkIs DEF DenseOf
<1>4. Ink(FlattenSeq(LinesOf(heard))) = EachOf(Dense, heard)
  <2>1. LinesOf(heard) \in Seq(Line)
    BY LinesIn
  <2>2. FlattenSeq(LinesOf(heard)) \in Line
    BY <2>1, LinesTexts
  <2>. QED
    BY <2>2, InkIs, DenseLines
<1>5. ASSUME Short(heard, limit) PROVE h = EmittedOf(LinesOf(heard))
  <2>1. PICK F \in Seq(Line) : LinesOf(heard) = Append(F, p) /\ EmittedOf(F) = g \o EmittedOf(<<>>)
    BY <1>5 DEF KeptSoFar, Whole
  <2>2. EmittedOf(<<>>) = <<>> /\ g \o <<>> = g /\ EmittedOf(<<p>>) = Emitted(p)
    BY <1>1, MadeOfOne, ConcatEmptySeq
  <2>3. PICK u \in Seq(Line) : u = <<p>> /\ Append(F, p) = F \o u
    BY <2>1, AppendOne
  <2>4. EmittedOf(F \o u) = EmittedOf(F) \o EmittedOf(u)
    BY <2>3, EmittedCat
  <2>. QED
    BY <1>2, <2>1, <2>2, <2>3, <2>4
<1>. QED
  BY <1>2, <1>3, <1>4, <1>5

-----------------------------------------------------------------------------
\* The readers

ReaderSound(u, heard, text, limit, p, f, g) ==
    /\ u \in {"receiving", "handling"} => OnItsWay(heard, limit, p, f, g)
    /\ u = "ended" => FaultsBy(heard, limit) = {} /\ g = BeforeBy(heard, limit)
    /\ u = "raised" => FaultsBy(text, limit) # {} /\ g = BeforeBy(text, limit)
    /\ u # "ended" => IsPrefix(g, BeforeBy(text, limit))

CallbackSound(u, heard, limit, p, f, g) ==
    /\ u \in {"receiving", "handling"} => KeptSoFar(heard, limit, p, f, g)
    /\ u = "ended" =>
           /\ Ink(FlattenSeq(g)) = Ink(FlattenSeq(LinesOf(heard)))
           /\ Short(heard, limit) => g = EmittedOf(LinesOf(heard))

OutTyped ==
    /\ given \in Outputs \cup {NoOutput}
    /\ received \in 0..Len(given.text)
    /\ pending \in Line /\ pendingLen = Len(pending) /\ fresh \in Seq(Line)
    /\ upc \in {"receiving", "handling", "ended", "raised", "left"}
    /\ upc = "receiving" => fresh = <<>> /\ Len(pending) <= given.limit
    /\ ~Messages => upc \in {"receiving", "handling", "ended"}
    /\ ~Talks => upc = "receiving"

(***************************************************************************)
(* The inductive invariant: the framer's count is the length of its tail,  *)
(* and each of the two readers is on its way through what it has heard.    *)
(***************************************************************************)
OutInv ==
    /\ OutTyped
    /\ Messages => ReaderSound(upc, Heard, given.text, given.limit, pending, fresh, got)
    /\ Talks /\ ~Messages => CallbackSound(upc, Heard, given.limit, pending, fresh, got)

\* The outputs are what the assumption on them says.
LEMMA GivenIs ==
    ASSUME given \in Outputs \cup {NoOutput}
    PROVE  /\ given.text \in Text /\ given.limit \in Nat /\ Len(given.text) \in Nat
           /\ Messages => Talks
<1>1. CASE given \in Outputs
  <2>1. given \in [stream : {"stdout", "stderr"}, text : Seq(Characters), limit : Nat]
    BY <1>1, OutputAssumption
  <2>. QED
    BY <2>1 DEF Messages, Talks, NoOutput, Text
<1>2. CASE given = NoOutput
  BY <1>2 DEF Messages, Talks, NoOutput, Text
<1>. QED
  BY <1>1, <1>2

\* What was heard of a text, and what is heard next.
LEMMA HeardMore ==
    ASSUME NEW text \in Text, NEW r \in 0..Len(text), NEW n \in 0..(Len(text) - r)
    PROVE  /\ SubSeq(text, 1, r) \in Text /\ SubSeq(text, r + 1, r + n) \in Text
           /\ SubSeq(text, 1, r + n) = SubSeq(text, 1, r) \o SubSeq(text, r + 1, r + n)
           /\ r + n \in 0..Len(text)
<1>1. text \in Seq(Characters) /\ Len(text) \in Nat
  BY LenProperties DEF Text
<1>2. /\ 1 \in 1..(Len(text) + 1) /\ r \in (1 - 1)..Len(text)
      /\ r + n \in r..Len(text) /\ r + n \in 0..Len(text)
  BY <1>1
<1>3. SubSeq(text, 1, r) \o SubSeq(text, r + 1, r + n) = SubSeq(text, 1, r + n)
  BY <1>1, <1>2, ConcatAdjacentSubSeq
<1>4. SubSeq(text, 1, r) \in Seq(Characters)
  BY <1>1, <1>2
<1>5. SubSeq(text, r + 1, r + n) \in Seq(Characters)
  BY <1>1, <1>2
<1>. QED
  BY <1>2, <1>3, <1>4, <1>5 DEF Text

LEMMA HeardRest ==
    ASSUME NEW text \in Text, NEW r \in 0..Len(text)
    PROVE  \E rest \in Text : SubSeq(text, 1, r) \o rest = text
<1>1. text \in Seq(Characters)
  BY DEF Text
<1>. QED
  BY <1>1, Halves DEF Text

\* The count of the framer is the length of its tail.
LEMMA CountedIs ==
    ASSUME NEW p \in Line, NEW chunk \in Text, pendingLen = Len(p)
    PROVE  Counted(Last(LinesOf(p \o chunk)), chunk) = Len(Last(LinesOf(p \o chunk)))
<1>1. CASE "n" \in Range(chunk)
  BY <1>1 DEF Counted
<1>2. CASE "n" \notin Range(chunk)
  <2>1. DOMAIN chunk = 1..Len(chunk) /\ chunk \in Seq(Characters)
    BY LenProperties DEF Text
  <2>2. \A i \in 1..Len(chunk) : chunk[i] \in Characters \ {"n"}
    BY <1>2, <2>1 DEF Range
  <2>3. chunk \in Line
    BY <2>1, <2>2, SeqWithin DEF Line
  <2>4. PICK c \in Line : c = p \o chunk /\ Len(c) = Len(p) + Len(chunk)
    BY <2>3, ConcatProperties DEF Line
  <2>5. LinesOf(c) = Append(<<>>, c) /\ <<>> \in Seq(Line)
    BY LineLines, EmptySeq
  <2>6. Last(LinesOf(c)) = c
    BY <2>5, FrontOf
  <2>. QED
    BY <1>2, <2>4, <2>6 DEF Counted
<1>. QED
  BY <1>1, <1>2

\* The invariant says what is to be shown.
LEMMA OutImplies ==
    ASSUME OutInv
    PROVE  OutputExact
<1>1. StdoutExact
  BY DEF OutInv, ReaderSound, StdoutExact, Faults, Before, FaultsBy, BeforeBy, Offends, OffendsBy
<1>2. StderrExact
  BY DEF OutInv, OutTyped, CallbackSound, StderrExact, Short
<1>. QED
  BY <1>1, <1>2 DEF OutInv, OutTyped, OutputExact

LEMMA OutStarts ==
    ASSUME OutputInit
    PROVE  OutInv
<1>1. given.text \in Text /\ given.limit \in Nat /\ Len(given.text) \in Nat /\ (Messages => Talks)
  BY GivenIs DEF OutputInit
<1>2. OutTyped
  <2>1. 0 \in 0..Len(given.text) /\ Len(<<>>) = 0 /\ 0 <= given.limit
    BY <1>1
  <2>2. <<>> \in Line /\ <<>> \in Seq(Line)
    BY LineText, EmptySeq
  <2>. QED
    BY <2>1, <2>2 DEF OutputInit, OutTyped
<1>3. Heard = <<>>
  BY <1>1, WholeIs DEF OutputInit, Heard, Text
<1>4. PICK lim \in Nat : lim = given.limit
  BY <1>1
<1>5. OnItsWay(<<>>, lim, <<>>, <<>>, <<>>)
  <2>1. PICK e \in Seq(Line) : e = <<>>
    BY EmptySeq
  <2>2. Splits(<<>>, e, <<>>, <<>>)
    BY <2>1, LinesNone DEF Splits
  <2>3. ParsedOf(e) = <<>>
    BY <2>1, LineText, MadeOfOne
  <2>4. \A k \in 1..Len(e) : ~OffendsBy(e[k], TRUE, lim)
    BY <2>1
  <2>. QED
    BY <2>2, <2>3, <2>4 DEF OnItsWay
<1>6. KeptSoFar(<<>>, lim, <<>>, <<>>, <<>>)
  <2>1. PICK e \in Seq(Line) : e = <<>>
    BY EmptySeq
  <2>2. EmittedOf(<<>>) = <<>> /\ DenseOf(<<>>) = <<>> /\ EachOf(Dense, <<>>) = <<>>
    BY LineText, MadeOfOne, DenseOfFew
  <2>3. <<>> \o <<>> = <<>> /\ LinesOf(<<>>) = Append(<<>>, <<>>)
    BY EmptySeq, ConcatEmptySeq, LinesNone
  <2>4. Complete(<<>>, <<>>, <<>>, <<>>)
    BY <2>2, <2>3 DEF Complete
  <2>5. Whole(<<>>, <<>>, <<>>, <<>>)
    BY <2>1, <2>2, <2>3 DEF Whole
  <2>. QED
    BY <2>1, <2>4, <2>5 DEF KeptSoFar
<1>7. PICK t \in Text : t = given.text
  BY <1>1
<1>8. IsPrefix(<<>>, BeforeBy(t, lim))
  <2>1. PICK e \in Text : e = <<>>
    BY LineText
  <2>2. PICK l \in Line, f \in Seq(Line) : l = <<>> /\ f = <<>>
    BY LineText, EmptySeq
  <2>3. OnItsWay(e, lim, l, f, <<>>)
    BY <1>5, <2>1, <2>2
  <2>4. IsPrefix(<<>>, BeforeBy(e \o t, lim))
    BY <2>3, YieldsFirst
  <2>5. e \o t = t
    BY <2>1, ConcatEmptySeq DEF Text
  <2>. QED
    BY <2>4, <2>5
<1>9. ReaderSound("receiving", <<>>, t, lim, <<>>, <<>>, <<>>)
  BY <1>5, <1>8 DEF ReaderSound
<1>10. CallbackSound("receiving", <<>>, lim, <<>>, <<>>, <<>>)
  BY <1>6 DEF CallbackSound
<1>. QED
  BY <1>2, <1>3, <1>4, <1>7, <1>9, <1>10 DEF OutputInit, OutInv

LEMMA PushKeeps ==
    ASSUME OutInv, Talks, NEW n \in 1..(Len(given.text) - received), Push(n)
    PROVE  OutInv'
<1>0. given \in Outputs \cup {NoOutput}
  BY DEF OutInv, OutTyped
<1>1. PICK t \in Text, lim \in Nat : t = given.text /\ lim = given.limit /\ Len(t) \in Nat
  BY <1>0, GivenIs
<1>2. PICK r \in 0..Len(t) : r = received
  BY <1>1 DEF OutInv, OutTyped
<1>3. n \in 0..(Len(t) - r)
  BY <1>1, <1>2
<1>4. PICK h, chunk \in Text : /\ h = SubSeq(t, 1, r) /\ chunk = SubSeq(t, r + 1, r + n)
                               /\ SubSeq(t, 1, r + n) = h \o chunk /\ r + n \in 0..Len(t)
  BY <1>2, <1>3, HeardMore
<1>5. PICK p \in Line : p = pending /\ pendingLen = Len(p)
  BY DEF OutInv, OutTyped
<1>6. upc = "receiving" /\ fresh = <<>>
  BY DEF Push, OutInv, OutTyped
<1>7. PICK g : g = got
  OBVIOUS
<1>8. p \o chunk \in Text
  BY LineText, ConcatProperties DEF Text
<1>9. PICK z, a : /\ z = Last(LinesOf(p \o chunk)) /\ a = Front(LinesOf(p \o chunk))
                  /\ z \in Line /\ a \in Seq(Line)
  <2>1. LinesOf(p \o chunk) \in Seq(Line) /\ LinesOf(p \o chunk) # <<>>
    BY <1>8, LinesIn
  <2>. QED
    BY <2>1, FrontLast
<1>10. /\ pending' = z /\ fresh' = a /\ pendingLen' = Len(z)
       /\ received' = r + n /\ upc' = "handling" /\ given' = given /\ got' = g
  <2>1. Counted(z, chunk) = Len(z)
    BY <1>5, <1>9, CountedIs
  <2>. QED
    BY <1>1, <1>2, <1>4, <1>5, <1>7, <1>9, <2>1 DEF Push, Piece
<1>11. Heard = h /\ Heard' = h \o chunk
  BY <1>1, <1>2, <1>4, <1>10 DEF Heard
<1>12. OutTyped'
  BY <1>0, <1>1, <1>4, <1>9, <1>10 DEF OutTyped, Talks, Messages
<1>13. ASSUME Messages
       PROVE  ReaderSound("handling", h \o chunk, t, lim, z, a, g)
  <2>1. ReaderSound("receiving", h, t, lim, p, <<>>, g)
    BY <1>1, <1>5, <1>6, <1>7, <1>11, <1>13 DEF OutInv
  <2>2. OnItsWay(h, lim, p, <<>>, g) /\ IsPrefix(g, BeforeBy(t, lim))
    BY <2>1 DEF ReaderSound
  <2>3. OnItsWay(h \o chunk, lim, z, a, g)
    BY <1>9, <2>2, PushOnItsWay
  <2>. QED
    BY <2>2, <2>3 DEF ReaderSound
<1>14. ASSUME ~Messages
       PROVE  CallbackSound("handling", h \o chunk, lim, z, a, g)
  <2>1. CallbackSound("receiving", h, lim, p, <<>>, g)
    BY <1>1, <1>5, <1>6, <1>7, <1>11, <1>14 DEF OutInv
  <2>2. KeptSoFar(h, lim, p, <<>>, g)
    BY <2>1 DEF CallbackSound
  <2>3. KeptSoFar(h \o chunk, lim, z, a, g)
    BY <1>9, <2>2, KeptPush
  <2>. QED
    BY <2>3 DEF CallbackSound
<1>15. Messages' = Messages
  BY <1>10 DEF Messages
<1>16. Messages => ReaderSound(upc', Heard', given'.text, given'.limit, pending', fresh', got')
  BY <1>1, <1>10, <1>11, <1>13
<1>17. ~Messages => CallbackSound(upc', Heard', given'.limit, pending', fresh', got')
  BY <1>1, <1>10, <1>11, <1>14
<1>. QED
  BY <1>12, <1>15, <1>16, <1>17 DEF OutInv

\* The constants of a state the invariant holds in.
LEMMA OutState ==
    ASSUME OutInv
    PROVE  \E t, lim, r, h, rest, p, f, g :
               /\ t \in Text /\ lim \in Nat /\ r \in Nat /\ h \in Text /\ rest \in Text
               /\ p \in Line /\ f \in Seq(Line)
               /\ t = given.text /\ lim = given.limit /\ r = received /\ r \in 0..Len(t)
               /\ h = Heard /\ h \o rest = t /\ h = SubSeq(t, 1, r)
               /\ p = pending /\ pendingLen = Len(p) /\ Len(p) \in Nat /\ f = fresh /\ g = got
               /\ Messages => ReaderSound(upc, h, t, lim, p, f, g)
               /\ Talks /\ ~Messages => CallbackSound(upc, h, lim, p, f, g)
<1>0. given \in Outputs \cup {NoOutput}
  BY DEF OutInv, OutTyped
<1>1. PICK t \in Text, lim \in Nat : t = given.text /\ lim = given.limit /\ Len(t) \in Nat
  BY <1>0, GivenIs
<1>2. PICK r \in 0..Len(t) : r = received /\ r \in Nat
  BY <1>1 DEF OutInv, OutTyped
<1>3. PICK h \in Text : h = SubSeq(t, 1, r) /\ h = Heard
  <2>1. 0 \in 0..(Len(t) - r)
    BY <1>1
  <2>2. SubSeq(t, 1, r) \in Text
    BY <2>1, HeardMore
  <2>. QED
    BY <1>1, <1>2, <2>2 DEF Heard
<1>4. PICK rest \in Text : h \o rest = t
  BY <1>3, HeardRest
<1>5. PICK p, f, g : /\ p \in Line /\ f \in Seq(Line) /\ p = pending /\ pendingLen = Len(p)
                     /\ f = fresh /\ g = got
  BY DEF OutInv, OutTyped
<1>6. Len(p) \in Nat
  BY LenProperties DEF Line
<1>. QED
  BY <1>1, <1>2, <1>3, <1>4, <1>5, <1>6 DEF OutInv

\* A step that receives nothing, and what it has to show of the rest.
LEMMA OutStep ==
    ASSUME OutInv, Talks, given' = given, received' = received,
           pending' \in Line, pendingLen' = Len(pending'), fresh' \in Seq(Line),
           upc' \in {"receiving", "handling", "ended", "raised", "left"},
           upc' = "receiving" => fresh' = <<>> /\ Len(pending') <= given.limit,
           ~Messages => upc' \in {"receiving", "handling", "ended"},
           Messages => ReaderSound(upc', Heard, given.text, given.limit, pending', fresh', got'),
           ~Messages => CallbackSound(upc', Heard, given.limit, pending', fresh', got')
    PROVE  OutInv'
<1>1. Messages' = Messages /\ Talks' = Talks /\ Heard' = Heard
  BY DEF Messages, Talks, Heard
<1>2. OutTyped'
  BY <1>1 DEF OutInv, OutTyped
<1>3. Messages => ReaderSound(upc', Heard', given'.text, given'.limit, pending', fresh', got')
  BY <1>1
<1>4. ~Messages => CallbackSound(upc', Heard', given'.limit, pending', fresh', got')
  BY <1>1
<1>. QED
  BY <1>1, <1>2, <1>3, <1>4 DEF OutInv

LEMMA HandleLineKeeps ==
    ASSUME OutInv, Talks, HandleLine
    PROVE  OutInv'
<1>1. PICK t, lim, r, h, rest, p, f, g :
          /\ t \in Text /\ lim \in Nat /\ r \in Nat /\ h \in Text /\ rest \in Text
          /\ p \in Line /\ f \in Seq(Line)
          /\ t = given.text /\ lim = given.limit /\ r = received /\ r \in 0..Len(t)
          /\ h = Heard /\ h \o rest = t /\ h = SubSeq(t, 1, r)
          /\ p = pending /\ pendingLen = Len(p) /\ Len(p) \in Nat /\ f = fresh /\ g = got
          /\ Messages => ReaderSound(upc, h, t, lim, p, f, g)
          /\ Talks /\ ~Messages => CallbackSound(upc, h, lim, p, f, g)
  BY OutState
<1>2. /\ Messages /\ upc = "handling" /\ f # <<>>
      /\ UNCHANGED <<given, received, pending, pendingLen>>
  BY <1>1 DEF HandleLine
<1>3. OnItsWay(h, lim, p, f, g) /\ IsPrefix(g, BeforeBy(t, lim))
  BY <1>1, <1>2 DEF ReaderSound
<1>4. PICK x, y : x = Head(f) /\ y = Tail(f) /\ x \in Line /\ y \in Seq(Line)
  BY <1>1, <1>2, HeadTailProperties
<1>5. TooLong(Len(x)) \/ Corrupt(x) <=> OffendsBy(x, TRUE, lim)
  BY <1>1, <1>4, TornIs DEF TooLong, OffendsBy
<1>6. CASE OffendsBy(x, TRUE, lim)
  <2>1. upc' = "raised" /\ fresh' = f /\ got' = g
    BY <1>1, <1>4, <1>5, <1>6 DEF HandleLine
  <2>2. Fails(h \o rest, lim, g)
    <3>1. /\ h \in Text /\ rest \in Text /\ p \in Line /\ f \in Seq(Line) /\ f # <<>>
          /\ OnItsWay(h, lim, p, f, g) /\ OffendsBy(Head(f), TRUE, lim)
      BY <1>1, <1>2, <1>3, <1>4, <1>6
    <3>. QED
      BY ONLY <3>1, RaiseOnItsWay
  <2>3. ReaderSound("raised", h, t, lim, p, f, g)
    BY <1>1, <1>3, <2>2 DEF ReaderSound, Fails
  <2>. QED
    BY <1>1, <1>2, <2>1, <2>3, OutStep
<1>7. CASE ~OffendsBy(x, TRUE, lim)
  <2>1. upc' = "handling" /\ fresh' = y /\ got' = g \o Parsed(x)
    BY <1>1, <1>2, <1>4, <1>5, <1>7 DEF HandleLine, Yields
  <2>2. OnItsWay(h, lim, p, y, g \o Parsed(x))
    BY <1>1, <1>2, <1>3, <1>4, <1>7, HandleOnItsWay
  <2>3. PICK g2 : g2 = g \o Parsed(x)
    OBVIOUS
  <2>4. IsPrefix(g2, BeforeBy(h \o rest, lim))
    BY <1>1, <1>4, <2>2, <2>3, YieldsFirst
  <2>5. ReaderSound("handling", h, t, lim, p, y, g2)
    BY <1>1, <2>2, <2>3, <2>4 DEF ReaderSound
  <2>. QED
    BY <1>1, <1>2, <1>4, <2>1, <2>3, <2>5, OutStep
<1>. QED
  BY <1>6, <1>7

LEMMA HandledKeeps ==
    ASSUME OutInv, Talks, Handled
    PROVE  OutInv'
<1>1. PICK t, lim, r, h, rest, p, f, g :
          /\ t \in Text /\ lim \in Nat /\ r \in Nat /\ h \in Text /\ rest \in Text
          /\ p \in Line /\ f \in Seq(Line)
          /\ t = given.text /\ lim = given.limit /\ r = received /\ r \in 0..Len(t)
          /\ h = Heard /\ h \o rest = t /\ h = SubSeq(t, 1, r)
          /\ p = pending /\ pendingLen = Len(p) /\ Len(p) \in Nat /\ f = fresh /\ g = got
          /\ Messages => ReaderSound(upc, h, t, lim, p, f, g)
          /\ Talks /\ ~Messages => CallbackSound(upc, h, lim, p, f, g)
  BY OutState
<1>2. /\ Messages /\ upc = "handling" /\ f = <<>>
      /\ UNCHANGED <<given, received, pending, pendingLen, fresh, got>>
      /\ upc' = IF Len(p) > lim THEN "raised" ELSE "receiving"
  BY <1>1 DEF Handled, TooLong
<1>3. OnItsWay(h, lim, p, <<>>, g) /\ IsPrefix(g, BeforeBy(t, lim))
  BY <1>1, <1>2 DEF ReaderSound
<1>4. CASE Len(p) > lim
  <2>1. Fails(h \o rest, lim, g)
    <3>1. /\ h \in Text /\ rest \in Text /\ p \in Line /\ lim \in Nat
          /\ OnItsWay(h, lim, p, <<>>, g) /\ Len(p) > lim
      BY <1>1, <1>3, <1>4
    <3>. QED
      BY ONLY <3>1, RaiseTail
  <2>2. ReaderSound("raised", h, t, lim, p, f, g)
    BY <1>1, <1>3, <2>1 DEF ReaderSound, Fails
  <2>. QED
    BY <1>1, <1>2, <1>4, <2>2, OutStep
<1>5. CASE ~(Len(p) > lim)
  <2>1. ReaderSound("receiving", h, t, lim, p, f, g)
    BY <1>2, <1>3 DEF ReaderSound
  <2>2. Len(p) <= lim
    BY <1>1, <1>5
  <2>. QED
    BY <1>1, <1>2, <1>5, <2>1, <2>2, OutStep
<1>. QED
  BY <1>4, <1>5

LEMMA OutputEndsKeeps ==
    ASSUME OutInv, Talks, OutputEnds
    PROVE  OutInv'
<1>1. PICK t, lim, r, h, rest, p, f, g :
          /\ t \in Text /\ lim \in Nat /\ r \in Nat /\ h \in Text /\ rest \in Text
          /\ p \in Line /\ f \in Seq(Line)
          /\ t = given.text /\ lim = given.limit /\ r = received /\ r \in 0..Len(t)
          /\ h = Heard /\ h \o rest = t /\ h = SubSeq(t, 1, r)
          /\ p = pending /\ pendingLen = Len(p) /\ Len(p) \in Nat /\ f = fresh /\ g = got
          /\ Messages => ReaderSound(upc, h, t, lim, p, f, g)
          /\ Talks /\ ~Messages => CallbackSound(upc, h, lim, p, f, g)
  BY OutState
<1>2. /\ Messages /\ upc = "receiving" /\ f = <<>> /\ Len(p) <= lim
      /\ UNCHANGED <<given, received, fresh>> /\ upc' = "ended"
      /\ got' = g \o Parsed(p) /\ pending' = <<>> /\ pendingLen' = 0
  BY <1>1 DEF OutputEnds, Yields, Flushed, OutInv, OutTyped
<1>3. OnItsWay(h, lim, p, <<>>, g)
  BY <1>1, <1>2 DEF ReaderSound
<1>4. FaultsBy(h, lim) = {} /\ g \o Parsed(p) = BeforeBy(h, lim)
  <2>1. /\ h \in Text /\ p \in Line /\ lim \in Nat
        /\ OnItsWay(h, lim, p, <<>>, g) /\ Len(p) <= lim
    BY <1>1, <1>2, <1>3
  <2>. QED
    BY ONLY <2>1, EndsSound
<1>5. ReaderSound("ended", h, t, lim, <<>>, f, g \o Parsed(p))
  BY <1>4 DEF ReaderSound
<1>6. <<>> \in Line /\ Len(<<>>) = 0
  BY LineText
<1>. QED
  BY <1>1, <1>2, <1>5, <1>6, OutStep

LEMMA OutputLeftKeeps ==
    ASSUME OutInv, Talks, OutputLeft
    PROVE  OutInv'
<1>1. /\ Messages /\ upc \in {"receiving", "handling"} /\ upc' = "left"
      /\ UNCHANGED <<given, received, pending, pendingLen, fresh, got>>
  BY DEF OutputLeft
<1>2. ReaderSound("left", Heard, given.text, given.limit, pending, fresh, got)
  BY <1>1 DEF OutInv, ReaderSound
<1>3. pending \in Line /\ pendingLen = Len(pending) /\ fresh \in Seq(Line)
  BY DEF OutInv, OutTyped
<1>. QED
  BY <1>1, <1>2, <1>3, OutStep

LEMMA HandleErrorsKeeps ==
    ASSUME OutInv, Talks, HandleErrors
    PROVE  OutInv'
<1>1. PICK t, lim, r, h, rest, p, f, g :
          /\ t \in Text /\ lim \in Nat /\ r \in Nat /\ h \in Text /\ rest \in Text
          /\ p \in Line /\ f \in Seq(Line)
          /\ t = given.text /\ lim = given.limit /\ r = received /\ r \in 0..Len(t)
          /\ h = Heard /\ h \o rest = t /\ h = SubSeq(t, 1, r)
          /\ p = pending /\ pendingLen = Len(p) /\ Len(p) \in Nat /\ f = fresh /\ g = got
          /\ Messages => ReaderSound(upc, h, t, lim, p, f, g)
          /\ Talks /\ ~Messages => CallbackSound(upc, h, lim, p, f, g)
  BY OutState
<1>2. /\ ~Messages /\ upc = "handling"
      /\ given' = given /\ received' = received /\ fresh' = <<>> /\ upc' = "receiving"
  BY DEF HandleErrors
<1>3. KeptSoFar(h, lim, p, f, g)
  BY <1>1, <1>2 DEF CallbackSound
<1>4. KeptSoFar(h, lim, p, <<>>, g \o EmittedOf(f))
  <2>1. h \in Text /\ lim \in Nat /\ p \in Line /\ f \in Seq(Line) /\ KeptSoFar(h, lim, p, f, g)
    BY <1>1, <1>3
  <2>. QED
    BY ONLY <2>1, KeptHandle
<1>5. PICK k : k = g \o EmittedOf(f) /\ KeptSoFar(h, lim, p, <<>>, k)
  BY <1>4
<1>6. <<>> \in Line /\ <<>> \in Seq(Line) /\ Len(<<>>) = 0
  BY LineText, EmptySeq
<1>7. Overlong <=> Len(p) > lim
  BY <1>1 DEF Overlong
<1>8. CASE Len(p) > lim
  <2>1. pending' = <<>> /\ pendingLen' = 0 /\ got' = k \o Emitted(p)
    BY <1>1, <1>5, <1>7, <1>8 DEF HandleErrors, Flushed
  <2>2. KeptSoFar(h, lim, <<>>, <<>>, k \o Emitted(p))
    <3>1. h \in Text /\ lim \in Nat /\ p \in Line /\ KeptSoFar(h, lim, p, <<>>, k) /\ Len(p) > lim
      BY <1>1, <1>5, <1>8
    <3>. QED
      BY ONLY <3>1, KeptCut
  <2>3. CallbackSound("receiving", h, lim, <<>>, <<>>, k \o Emitted(p))
    BY <2>2 DEF CallbackSound
  <2>. QED
    BY <1>1, <1>2, <1>6, <2>1, <2>3, OutStep
<1>9. CASE ~(Len(p) > lim)
  <2>1. pending' = p /\ pendingLen' = Len(p) /\ got' = k
    <3>1. k \in Seq(Line) /\ k \o <<>> = k
      BY <1>5, ConcatEmptySeq DEF KeptSoFar
    <3>. QED
      BY <1>1, <1>5, <1>7, <1>9, <3>1 DEF HandleErrors
  <2>2. CallbackSound("receiving", h, lim, p, <<>>, k)
    BY <1>5 DEF CallbackSound
  <2>3. Len(p) <= lim
    BY <1>1, <1>9
  <2>. QED
    BY <1>1, <1>2, <1>6, <2>1, <2>2, <2>3, OutStep
<1>. QED
  BY <1>8, <1>9

LEMMA ErrorsEndKeeps ==
    ASSUME OutInv, Talks, ErrorsEnd
    PROVE  OutInv'
<1>1. PICK t, lim, r, h, rest, p, f, g :
          /\ t \in Text /\ lim \in Nat /\ r \in Nat /\ h \in Text /\ rest \in Text
          /\ p \in Line /\ f \in Seq(Line)
          /\ t = given.text /\ lim = given.limit /\ r = received /\ r \in 0..Len(t)
          /\ h = Heard /\ h \o rest = t /\ h = SubSeq(t, 1, r)
          /\ p = pending /\ pendingLen = Len(p) /\ Len(p) \in Nat /\ f = fresh /\ g = got
          /\ Messages => ReaderSound(upc, h, t, lim, p, f, g)
          /\ Talks /\ ~Messages => CallbackSound(upc, h, lim, p, f, g)
  BY OutState
<1>2. /\ ~Messages /\ upc = "receiving" /\ f = <<>>
      /\ given' = given /\ received' = received /\ fresh' = <<>> /\ upc' = "ended"
      /\ pending' = <<>> /\ pendingLen' = 0 /\ got' = g \o Emitted(p)
  BY <1>1 DEF ErrorsEnd, Flushed, LastWords, OutInv, OutTyped
<1>3. KeptSoFar(h, lim, p, <<>>, g)
  BY <1>1, <1>2 DEF CallbackSound
<1>4. PICK k : k = g \o Emitted(p)
  OBVIOUS
<1>5. /\ Ink(FlattenSeq(k)) = Ink(FlattenSeq(LinesOf(h)))
      /\ Short(h, lim) => k = EmittedOf(LinesOf(h))
  <2>1. h \in Text /\ lim \in Nat /\ p \in Line /\ KeptSoFar(h, lim, p, <<>>, g)
    BY <1>1, <1>3
  <2>2. /\ Ink(FlattenSeq(g \o Emitted(p))) = Ink(FlattenSeq(LinesOf(h)))
        /\ Short(h, lim) => g \o Emitted(p) = EmittedOf(LinesOf(h))
    BY ONLY <2>1, KeptEnds
  <2>. QED
    BY <1>4, <2>2
<1>6. CallbackSound("ended", h, lim, <<>>, <<>>, k)
  BY <1>5 DEF CallbackSound
<1>7. <<>> \in Line /\ <<>> \in Seq(Line) /\ Len(<<>>) = 0
  BY LineText, EmptySeq
<1>. QED
  BY <1>1, <1>2, <1>4, <1>6, <1>7, OutStep

\* While the process and its stdin are at work, nothing is written.
LEMMA OutStays ==
    ASSUME OutInv, UNCHANGED outputVars
    PROVE  OutInv'
<1>1. /\ given' = given /\ received' = received /\ pending' = pending
      /\ pendingLen' = pendingLen /\ fresh' = fresh /\ got' = got /\ upc' = upc
  BY DEF outputVars
<1>2. Messages' = Messages /\ Talks' = Talks /\ Heard' = Heard
  BY <1>1 DEF Messages, Talks, Heard
<1>3. OutTyped'
  BY <1>1, <1>2 DEF OutInv, OutTyped
<1>. QED
  BY <1>1, <1>2, <1>3 DEF OutInv

(***************************************************************************)
(* What is read from the CLI is what it has written, however its output is *)
(* cut into chunks: the messages of _read_messages_impl(), the lines       *)
(* _handle_stderr() gives to the callback, and how much _LineFramer keeps. *)
(***************************************************************************)
THEOREM OutputIsExact == CliSpec => []OutputExact
<1>1. CliInit => OutInv
  BY OutStarts DEF CliInit
<1>2. OutInv /\ [CliNext]_<<vars, outputVars>> => OutInv'
  <2>. SUFFICES ASSUME OutInv, [CliNext]_<<vars, outputVars>>
                PROVE  OutInv'
    OBVIOUS
  <2>1. CASE ~Talks /\ Next /\ UNCHANGED outputVars
    BY <2>1, OutStays
  <2>2. CASE Talks /\ OutputNext /\ UNCHANGED vars
    <3>1. ASSUME NEW n \in 1..(Len(given.text) - received), Push(n) PROVE OutInv'
      BY <2>2, <3>1, PushKeeps
    <3>2. CASE HandleLine
      BY <2>2, <3>2, HandleLineKeeps
    <3>3. CASE Handled
      BY <2>2, <3>3, HandledKeeps
    <3>4. CASE OutputEnds
      BY <2>2, <3>4, OutputEndsKeeps
    <3>5. CASE OutputLeft
      BY <2>2, <3>5, OutputLeftKeeps
    <3>6. CASE HandleErrors
      BY <2>2, <3>6, HandleErrorsKeeps
    <3>7. CASE ErrorsEnd
      BY <2>2, <3>7, ErrorsEndKeeps
    <3>. QED
      BY <2>2, <3>1, <3>2, <3>3, <3>4, <3>5, <3>6, <3>7 DEF OutputNext
  <2>3. CASE UNCHANGED <<vars, outputVars>>
    <3>1. UNCHANGED outputVars
      BY <2>3
    <3>. QED
      BY <3>1, OutStays
  <2>. QED
    BY <2>1, <2>2, <2>3 DEF CliNext
<1>3. OutInv => OutputExact
  BY OutImplies
<1>. QED
  BY <1>1, <1>2, <1>3, PTL DEF CliSpec
=============================================================================
