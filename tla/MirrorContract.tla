--------------------------- MODULE MirrorContract ---------------------------
(***************************************************************************)
(* What the transcript mirror promises to the code around it, whatever     *)
(* buffers, locks and retries it is built from.  Frames are numbered in    *)
(* the order they are accepted.  A frame is outstanding until the mirror   *)
(* is through with it: stored, or given up on.  The mirror promises        *)
(*                                                                         *)
(*   - that frames of one transcript file are settled in the order they    *)
(*     were accepted, and that a settled frame is never taken up again;    *)
(*   - that a flush call returns only once every frame accepted before     *)
(*     the call is settled.                                                *)
(*                                                                         *)
(* TranscriptMirrorBatcher (module MirrorBatcher) implements it.           *)
(***************************************************************************)
EXTENDS Naturals, Sequences

CONSTANTS
    Paths,      \* transcript files
    Callers     \* tasks that call flush() or close()

VARIABLES
    path,         \* path[f] is the file of the f-th accepted frame
    outstanding,  \* accepted frames that are not settled
    calling,      \* callers with a flush call in progress
    horizon       \* horizon[c]: frames accepted when c last called flush

vars == <<path, outstanding, calling, horizon>>

Init ==
    /\ path = <<>>
    /\ outstanding = {}
    /\ calling = {}
    /\ horizon = [c \in Callers |-> 0]

Accept(p) ==
    /\ path' = Append(path, p)
    /\ outstanding' = outstanding \cup {Len(path) + 1}
    /\ UNCHANGED <<calling, horizon>>

\* F leaves no older frame of the same file behind.
InOrder(F) ==
    \A f \in F, g \in outstanding : path[g] = path[f] /\ g < f => g \in F

Settle(F) ==
    /\ InOrder(F)
    /\ outstanding' = outstanding \ F
    /\ UNCHANGED <<path, calling, horizon>>

CallFlush(c) ==
    /\ c \notin calling
    /\ calling' = calling \cup {c}
    /\ horizon' = [horizon EXCEPT ![c] = Len(path)]
    /\ UNCHANGED <<path, outstanding>>

ReturnFlush(c) ==
    /\ c \in calling
    /\ \A f \in outstanding : f > horizon[c]
    /\ calling' = calling \ {c}
    /\ UNCHANGED <<path, outstanding, horizon>>

Next ==
    \/ \E p \in Paths : Accept(p)
    \/ \E F \in SUBSET outstanding : Settle(F)
    \/ \E c \in Callers : CallFlush(c) \/ ReturnFlush(c)

Spec == Init /\ [][Next]_vars
=============================================================================
