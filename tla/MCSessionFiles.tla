--------------------------- MODULE MCSessionFiles ---------------------------
(* Two project directories, each of which a caller may be in, and three    *)
(* calls.                                                                  *)
EXTENDS SessionFiles, TLC

CONSTANTS d1, d2, c1, c2, c3

\* One line at each end, or two at the head: a title is the last line, is in the
\* head only, or is out of sight.
MCWindows == {[head |-> 1, tail |-> 1], [head |-> 2, tail |-> 1]}

MCOrders == {<<d1, d2>>, <<d2, d1>>}

Plan(x, y, z) == (c1 :> x) @@ (c2 :> y) @@ (c3 :> z)

\* A rename and a reader, or a listing, beside a call that takes the session
\* away; a fork that is listed, or loses its source; and calls that must agree
\* on the copy they are about.
MCPlans == {Plan("rename", "info", "delete"), Plan("rename", "list", "delete"),
            Plan("fork", "list", Nobody), Plan("fork", Nobody, "delete"),
            Plan("rename", "fork", "messages")}

Symmetry == Permutations({d1, d2})
=============================================================================
