----------------------- MODULE MCSubprocessTransport -----------------------
(***************************************************************************)
(* SubprocessTransport and CliOutput for TLC.                              *)
(***************************************************************************)
EXTENDS CliOutput

\* Every text of up to five characters, on stdout, and without braces on stderr.
Texts(chars, most) == UNION {[1..n -> chars] : n \in 0..most}
Every == {"{", "}", "x", " ", "n"}
AllOutputs ==
    [stream : {"stdout"}, text : Texts(Every, 5), limit : {3}]
        \cup [stream : {"stdout"}, text : Texts(Every, 4), limit : {2}]
        \cup [stream : {"stderr"}, text : Texts({"x", " ", "n"}, 5), limit : {1, 2}]
=============================================================================
