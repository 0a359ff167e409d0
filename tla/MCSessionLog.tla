---------------------------- MODULE MCSessionLog ----------------------------
(***************************************************************************)
(* Settings of SessionLog and plans of Resume for TLC.                     *)
(***************************************************************************)
EXTENDS SessionCopies

K(t, f) == [type |-> t, flag |-> f]

\* Transcripts alone, with everything the chain and the fork tell apart.
Branches ==
    [kinds |-> {K("user", f) : f \in {"none", "side", "team", "meta"}}
                   \cup {K("progress", "none"), K("system", "none")},
     branching |-> TRUE, mirrored |-> FALSE, loses |-> FALSE,
     entries |-> 4, imports |-> 0]
\* Branches, and what hangs between messages, mirrored and imported twice.
Copies ==
    [kinds |-> {K("user", "none"), K("progress", "none")},
     branching |-> TRUE, mirrored |-> TRUE, loses |-> TRUE,
     entries |-> 3, imports |-> 2]
\* The transcript of a subagent.
Agent ==
    [kinds |-> {K("user", "side"), K("progress", "side"), K("system", "side")},
     branching |-> FALSE, mirrored |-> TRUE, loses |-> FALSE,
     entries |-> 4, imports |-> 0]
Nothing == [Branches EXCEPT !.entries = 0]
AllSetups == {Branches, Copies, Agent, Nothing}

-----------------------------------------------------------------------------
OneHost == [mac |-> FALSE, dir |-> FALSE, env |-> FALSE, file |-> "refreshable",
            keychain |-> "none", settings |-> "plugins"]
EveryHost ==
    [mac : BOOLEAN, dir : BOOLEAN, env : BOOLEAN,
     file : {"none", "unreadable", "odd", "refreshable", "access"},
     keychain : {"none", "refreshable", "access"},
     settings : {"none", "unreadable", "odd", "plain", "plugins", "infinite"}]

Ends(type, flag) == [uuid |-> 1, parent |-> Null, type |-> type, flag |-> flag]
Stored(main, paths) ==
    [k \in (DOMAIN main) \X ({NoSubpath} \cup paths) |->
        IF k[2] = NoSubpath THEN main[k[1]] ELSE <<>>]

\* Three sessions, one of them no UUID, written and deleted by others.
NoPlan ==
    [sessions |-> {}, uuids |-> {}, resume |-> Null, current |-> Null, others |-> {},
     mtimes |-> <<>>, shelf |-> <<>>, disk |-> <<>>, main |-> <<>>, lists |-> TRUE,
     subkeys |-> TRUE, checkpoints |-> FALSE,
     mirrored |-> TRUE, types |-> {}, tools |-> {}, hosts |-> {OneHost}, entries |-> 0,
     deletes |-> 0, imports |-> 0]
Continuing ==
    [NoPlan EXCEPT !.sessions = 1..3, !.uuids = {1, 2}, !.others = 1..3,
        !.mtimes = <<0, 0, 0>>, !.shelf = Stored(<<<<>>, <<>>, <<>>>>, {}), !.entries = 4,
        !.deletes = 1]

\* Subagents under a mirror, beside keys that are none of its.
Flat == <<"subagents", "agent-1">>
Nested == <<"subagents", "workflows", "agent-2">>
Strange == {<<>>, <<"subagents", "..", "..", "agent-3">>, <<"/", "agent-4">>}
Spoken == <<Ends("user", "none")>>
WithStrange(s) ==
    [k \in DOMAIN s |-> IF k[2] \in Strange THEN Spoken ELSE s[k]]
Mirrored ==
    [NoPlan EXCEPT !.sessions = {1}, !.current = 1, !.uuids = {1}, !.mtimes = <<1>>,
        !.resume = 1,
        !.shelf = Stored(<<Spoken>>, {Flat, Nested}), !.entries = 3,
        !.disk = [p \in {Flat, Nested} |-> NoFile], !.types = {"user", "progress"},
        !.tools = {1, 2}]

\* Every two files and sidecars of subagents, imported up to two times.
Two == <<Ends("user", "side"), [uuid |-> 2, parent |-> 1, type |-> "user", flag |-> "side"]>>
Lines == {<<>>, <<Ends("progress", "side")>>, Two}
Whole == [is |-> "object", tool |-> 1, agent |-> 2]
Sidecars == {NoMeta, [NoMeta EXCEPT !.is = "corrupt"], Whole, [Whole EXCEPT !.tool = NotText]}
Importing ==
    {[Mirrored EXCEPT !.mirrored = FALSE, !.main = Spoken, !.imports = 2,
         !.shelf = Stored(<<<<>>>>, {Flat, Nested}),
         !.disk = (Flat :> f) @@ (Nested :> g)] :
        f \in [lines : Lines, meta : Sidecars],
        g \in [lines : {<<>>, Two}, meta : {NoMeta, Whole}]}

\* The caller's configuration, and ids that are not resumed.
Configured ==
    {[Mirrored EXCEPT !.hosts = EveryHost, !.entries = 0, !.resume = r,
         !.sessions = {1, 2}, !.mtimes = <<1, 0>>,
         !.disk = [p \in {Flat, Nested} \cup Strange |-> NoFile],
         !.lists = FALSE, !.subkeys = sub,
         !.shelf = WithStrange(Stored(<<Spoken, <<>>>>, {Flat, Nested} \cup Strange)),
         !.uuids = u] :
        r \in {1, 2}, u \in {{1}, {1, 2}}, sub \in BOOLEAN}

AllPlans == {NoPlan, Continuing, Mirrored} \cup Importing \cup Configured
=============================================================================
