--------------------------- MODULE MCSessionStore ---------------------------
(***************************************************************************)
(* Transcript entries and workloads for TLC.                               *)
(***************************************************************************)
EXTENDS SessionStores

CONSTANTS s1, s2, a, c1, c2

Text(k, v) == [kind |-> k, says |-> v]
User(texts, time, dir) ==
    [type |-> "user", texts |-> texts, timestamp |-> time, cwd |-> dir]
Prompt1 == User(<<Text("prompt", "p1")>>, "t1", "d1")
Prompt2 == User(<<Text("skipped", "x"), Text("command", "c2"), Text("prompt", "p2")>>,
                "t2", "d2")
Command == User(<<Text("command", "c1"), Text("skipped", "x")>>, "t3", "d1")
Hidden  == User(<<Text("prompt", "p3")>>, "t4", "d2") @@ [hidden |-> "true"]
Side    == Prompt1 @@ [isSidechain |-> "true"]
Custom(v) == [type |-> "custom-title", customTitle |-> v]
Tagged(v) == [type |-> "tag", tag |-> v]

\* Everything a summary is derived from, one entry after the other.
AllKinds == {Prompt1, Prompt2, Command, Hidden, Side, Custom("A"), Custom(""),
             [type |-> "ai-title", aiTitle |-> "B"],
             [type |-> "last-prompt", lastPrompt |-> "p4"],
             [type |-> "summary", summary |-> "S"],
             [type |-> "assistant", gitBranch |-> "main"],
             [type |-> "assistant", gitBranch |-> "dev"],
             Tagged("T"), Tagged("")}
Folding ==
    [keys |-> {Main(s1)}, batches |-> {<<e>> : e \in AllKinds}, unsummarized |-> {},
     loadsFail |-> FALSE, pages |-> {}, entries |-> 3, time |-> 3]

\* One and two entries at a time, of main transcripts and of a subagent's.
Sidecars ==
    [keys |-> Keys,
     batches |-> {<<Prompt1>>, <<Side>>, <<Custom("A"), Tagged("T")>>, <<Tagged("")>>},
     unsummarized |-> {}, loadsFail |-> FALSE, pages |-> {}, entries |-> 2, time |-> 4]

\* Sessions that are shown, change, and are not shown, in a listing.
Listing ==
    [keys |-> {Main(s1), Main(s2)},
     batches |-> {<<Prompt1>>, <<Custom("A")>>, <<Side>>},
     unsummarized |-> {s2}, loadsFail |-> TRUE, pages |-> {<<0, 0>>},
     entries |-> 2, time |-> 3]

NoListing ==
    [keys |-> {}, batches |-> {}, unsummarized |-> {}, loadsFail |-> FALSE, pages |-> {},
     entries |-> 0, time |-> 0]
AllWorkloads == {Folding, Sidecars, Listing, NoListing}

-----------------------------------------------------------------------------
InBucket == <<Main(s1), <<s1, a>>, Main(s2)>>
AgentOf == [p \in {a, None} |-> IF p = a THEN "agent-1" ELSE "none"]

NoCalls ==
    [adapter |-> "redis", serial |-> TRUE, faults |-> FALSE,
     does |-> [c \in {c1, c2} |-> {}], keys |-> {}, sizes |-> {1},
     instance |-> [c \in {c1, c2} |-> 1], clock |-> {1}, page |-> 1,
     entries |-> 0, calls |-> 0]

By(d1, d2) == [c \in {c1, c2} |-> IF c = c1 THEN d1 ELSE d2]
Adapters == {"s3", "redis", "postgres"}

\* One caller, one method after the other.
OneByOne ==
    {[NoCalls EXCEPT !.adapter = x, !.does = By(Programs, {}),
          !.keys = {Main(s1), <<s1, a>>}, !.sizes = {1, 2}, !.page = 2,
          !.clock = {1, 2}, !.entries = 3, !.calls = 4] : x \in Adapters}

\* Two callers, of one adapter object or of two, and requests that fail.
Overlap ==
    [NoCalls EXCEPT !.serial = FALSE, !.keys = {Main(s1), <<s1, a>>}, !.entries = 3,
                    !.calls = 4]
TwoWriters(x, i) ==
    [Overlap EXCEPT !.adapter = x, !.faults = TRUE, !.keys = {Main(s1)}, !.sizes = {1, 2},
         !.clock = 1..i, !.instance = By(1, i), !.calls = 3,
         !.does = By({"mirror"}, {"mirror", "fork", "messages"})]
WritersAndReaders == {TwoWriters(x, 1) : x \in Adapters} \cup {TwoWriters("s3", 2)}

Deletions ==
    {[Overlap EXCEPT !.adapter = x, !.faults = f, !.entries = IF f THEN 2 ELSE 3,
          !.calls = IF f THEN 3 ELSE 4,
          !.does = By({"mirror", "delete"}, {"delete", "prune", "agent", "sessions"})] :
        x \in Adapters, f \in BOOLEAN}

AllSetups == {NoCalls} \cup OneByOne \cup WritersAndReaders \cup Deletions
=============================================================================
