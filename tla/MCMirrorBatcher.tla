--------------------------- MODULE MCMirrorBatcher ---------------------------
(***************************************************************************)
(* Values of the constants of MirrorBatcher for TLC.                       *)
(***************************************************************************)
EXTENDS MirrorBatcher, TLC

CONSTANTS a, b, x

K(p, n, s) == [path |-> p, entries |-> n, bytes |-> s]

\* Two files, a frame whose bytes exceed the limit, an empty frame, and a
\* file that is not under projects_dir.
AllFrames == {K(a, 1, 1), K(a, 1, 3), K(b, 0, 1), K(b, 1, 1), K(x, 1, 1)}
\* One file: small frames, and one whose bytes exceed the limit.
OneFile == {K(a, 1, 1), K(a, 1, 3)}

=============================================================================
