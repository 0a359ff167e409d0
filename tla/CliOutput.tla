------------------------------ MODULE CliOutput ------------------------------
(***************************************************************************)
(* What the CLI writes to stdout and stderr: chunks of any size, from      *)
(* which _LineFramer makes lines again.  _read_messages_impl() yields the  *)
(* messages of stdout, _handle_stderr() hands lines of stderr to the       *)
(* caller's callback.                                                      *)
(*                                                                         *)
(* A character is a brace, other text ("x"), white space (" ") or the end  *)
(* of a line ("n").  What a whole line of JSON is, is abstracted to an     *)
(* opening brace, text, and a closing brace.                               *)
(***************************************************************************)
EXTENDS SubprocessTransport, FiniteSets, SequencesExt

CONSTANT Outputs   \* what the CLI may write, the stream, and max_buffer_size

Characters == {"{", "}", "x", " ", "n"}
ASSUME OutputAssumption ==
    Outputs \subseteq [stream : {"stdout", "stderr"}, text : Seq(Characters), limit : Nat]

VARIABLES
    given,      \* one of Outputs: [stream, text, limit]
    received,   \* how much of it has been received
    pending,    \* _LineFramer._pending, joined
    pendingLen, \* pending_len
    fresh,      \* complete lines of the last chunk, not yet handled
    got,        \* the messages yielded, or the lines given to the callback
    upc         \* the reader: "receiving", "handling", "ended", "raised", "left"

outputVars == <<given, received, pending, pendingLen, fresh, got, upc>>

NoOutput == [stream |-> "none", text |-> <<>>, limit |-> 0]
Talks == given # NoOutput

OutputInit ==
    /\ given \in Outputs \cup {NoOutput}
    /\ received = 0 /\ pending = <<>> /\ pendingLen = 0 /\ fresh = <<>> /\ got = <<>>
    /\ upc = "receiving"

-----------------------------------------------------------------------------
\* Lines

\* The lines of a text, the last of them without its end.
LinesOf(text) ==
    LET upTo[n \in 0..Len(text)] ==
            IF n = 0 THEN << <<>> >>
            ELSE IF text[n] = "n" THEN Append(upTo[n - 1], <<>>)
            ELSE Append(Front(upTo[n - 1]), Append(Last(upTo[n - 1]), text[n]))
    IN  upTo[Len(text)]

Inked(line) == {i \in DOMAIN line : line[i] # " "}
LStrip(line) == IF Inked(line) = {} THEN <<>>
                ELSE SubSeq(line, Min(Inked(line)), Len(line))
RStrip(line) == IF Inked(line) = {} THEN <<>> ELSE SubSeq(line, 1, Max(Inked(line)))
Strip(line) == LStrip(RStrip(line))

\* Mutant of LooksJson: every line that is not blank has to be JSON.
AnyLine(line) == Strip(line) # <<>>
LooksJson(line) == Strip(line) # <<>> /\ Strip(line)[1] = "{"
IsObject(line) ==
    LET s == Strip(line)
    IN  /\ Len(s) >= 2 /\ s[1] = "{" /\ s[Len(s)] = "}"
        /\ \A i \in 2..(Len(s) - 1) : s[i] \in {"x", " "}
Corrupt(line) == LooksJson(line) /\ ~IsObject(line)

-----------------------------------------------------------------------------
\* The framer, and its two users

\* Mutants of Piece: a chunk is stripped of white space; the count goes on.
Stripped(chunk) == Strip(chunk)
Piece(chunk) == chunk
\* Mutant of Counted: the length of the tail is added to that of the line before.
CountedOn(tail, chunk) == pendingLen + Len(chunk)
Counted(tail, chunk) == IF "n" \in Range(chunk) THEN Len(tail) ELSE pendingLen + Len(chunk)

Push(n) ==
    /\ upc = "receiving" /\ n <= Len(given.text) - received
    /\ LET chunk == Piece(SubSeq(given.text, received + 1, received + n))
           ls == LinesOf(pending \o chunk)
       IN  /\ pending' = Last(ls)
           /\ fresh' = Front(ls)
           /\ pendingLen' = Counted(Last(ls), chunk)
    /\ received' = received + n
    /\ upc' = "handling"
    /\ UNCHANGED <<given, got>>

Flushed == pending' = <<>> /\ pendingLen' = 0

\* Mutants of TooLong: only what is not complete yet is bounded; off by one.
TooLongPending(length) == fresh = <<>> /\ length > given.limit
TooLongAt(length) == length >= given.limit
TooLong(length) == length > given.limit

Messages == given.stream = "stdout"
Parsed(line) == IF IsObject(line) THEN <<Strip(line)>> ELSE <<>>
Yields(line) == got' = got \o Parsed(line)

HandleLine ==
    /\ Messages /\ upc = "handling" /\ fresh # <<>>
    /\ IF TooLong(Len(Head(fresh))) \/ Corrupt(Head(fresh))
       THEN upc' = "raised" /\ UNCHANGED <<fresh, got>>
       ELSE Yields(Head(fresh)) /\ fresh' = Tail(fresh) /\ UNCHANGED upc
    /\ UNCHANGED <<given, received, pending, pendingLen>>

Handled ==
    /\ Messages /\ upc = "handling" /\ fresh = <<>>
    /\ upc' = IF TooLong(pendingLen) THEN "raised" ELSE "receiving"
    /\ UNCHANGED <<given, received, pending, pendingLen, fresh, got>>

\* The end of stdout, or its stream is closed: a tail cut off is dropped.
OutputEnds ==
    /\ Messages /\ upc = "receiving"
    /\ Yields(pending) /\ Flushed
    /\ upc' = "ended"
    /\ UNCHANGED <<given, received, fresh>>

\* A cancellation, the consumer leaves, or the text cannot be decoded.
OutputLeft ==
    /\ Messages /\ upc \in {"receiving", "handling"}
    /\ upc' = "left"
    /\ UNCHANGED <<given, received, pending, pendingLen, fresh, got>>

Emitted(line) == IF RStrip(line) = <<>> THEN <<>> ELSE <<RStrip(line)>>
EmittedOf(ls) == FlattenSeq([k \in DOMAIN ls |-> Emitted(ls[k])])

\* Mutant of Overlong: a partial line is kept however long it is.
NeverLong == FALSE
Overlong == pendingLen > given.limit

\* All of it without an await; what the callback raises is dropped.
HandleErrors ==
    /\ ~Messages /\ upc = "handling"
    /\ got' = got \o EmittedOf(fresh) \o (IF Overlong THEN Emitted(pending) ELSE <<>>)
    /\ IF Overlong THEN Flushed ELSE UNCHANGED <<pending, pendingLen>>
    /\ fresh' = <<>> /\ upc' = "receiving"
    /\ UNCHANGED <<given, received>>

\* Mutant of LastWords: a cancelled reader drops the line it has not complete.
NoLastWords == <<>>
LastWords == Emitted(pending)

\* The end of stderr, a failure or a cancellation: the finally block.
ErrorsEnd ==
    /\ ~Messages /\ upc = "receiving"
    /\ got' = got \o LastWords /\ Flushed
    /\ upc' = "ended"
    /\ UNCHANGED <<given, received, fresh>>

OutputNext ==
    \/ \E n \in 1..(Len(given.text) - received) : Push(n)
    \/ HandleLine \/ Handled \/ OutputEnds \/ OutputLeft
    \/ HandleErrors \/ ErrorsEnd

-----------------------------------------------------------------------------
(***************************************************************************)
(* A behaviour is of the process and its stdin, or of what it writes.      *)
(***************************************************************************)
CliInit == Init /\ OutputInit
CliNext ==
    \/ ~Talks /\ Next /\ UNCHANGED outputVars
    \/ Talks /\ OutputNext /\ UNCHANGED vars

CliSpec == CliInit /\ [][CliNext]_<<vars, outputVars>> /\ Fairness

-----------------------------------------------------------------------------
Heard == SubSeq(given.text, 1, received)

\* The first line of a text that ends the reader: the last one is incomplete.
Torn(line) == LET s == LStrip(line) IN s # <<>> /\ s[1] = "{" /\ ~IsObject(line)
Offends(line, complete) == Len(line) > given.limit \/ (complete /\ Torn(line))
Faults(text) ==
    LET ls == LinesOf(text)
    IN  {k \in DOMAIN ls : Offends(ls[k], k < Len(ls))}
ParsedOf(ls) == FlattenSeq([k \in DOMAIN ls |-> Parsed(ls[k])])
Before(text) ==
    LET ls == LinesOf(text)
        upTo == IF Faults(text) = {} THEN ls ELSE SubSeq(ls, 1, Min(Faults(text)) - 1)
    IN  ParsedOf(upTo)

(***************************************************************************)
(* The messages of stdout, and whether it is unreadable, depend on what    *)
(* the CLI has written and never on where the chunks of it were cut.       *)
(***************************************************************************)
StdoutExact ==
    Messages =>
        /\ upc = "ended" => Faults(Heard) = {} /\ got = Before(Heard)
        /\ upc = "raised" => Faults(given.text) # {} /\ got = Before(given.text)
        /\ IsPrefix(got, Before(given.text)) \/ upc = "ended"

\* A text without its white space.
Ink(text) == FlattenSeq([i \in DOMAIN text |-> IF text[i] = " " THEN <<>> ELSE <<text[i]>>])

(***************************************************************************)
(* The callback gets every line of stderr, and the last one also without   *)
(* its end, in order and once; only the limit cuts a line in two.          *)
(***************************************************************************)
StderrExact ==
    ~Messages /\ upc = "ended" =>
        LET ls == LinesOf(Heard)
        IN  /\ Ink(FlattenSeq(got)) = Ink(FlattenSeq(ls))
            /\ (\A k \in DOMAIN ls : Len(ls[k]) <= given.limit) => got = EmittedOf(ls)

(***************************************************************************)
(* What is read from the CLI is what it has written, and a reader waits    *)
(* for more with no more than max_buffer_size in its hands.                *)
(***************************************************************************)
OutputExact ==
    /\ StdoutExact /\ StderrExact
    /\ upc = "receiving" => Len(pending) <= given.limit
=============================================================================
