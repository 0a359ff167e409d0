--------------------------- MODULE MCClientSession ---------------------------
(***************************************************************************)
(* Faults, tasks and messages for TLC.                                     *)
(***************************************************************************)
EXTENDS ClientSession

Setup(faults, tasks, kinds, most, streams) ==
    [faults |-> faults, tasks |-> tasks, kinds |-> kinds, connects |-> most,
     streams |-> streams]

Both == {"client", "query"}

Raw(type, subtype, has) ==
    [type |-> type, subtype |-> subtype, has |-> has, listed |-> FALSE, content |-> <<>>]
Blocks(type, blocks) ==
    [type |-> type, subtype |-> Absent, has |-> {"content", "model"}, listed |-> TRUE,
     content |-> blocks]

\* Every message of every type that is whole or lacks one of its fields, and
\* every content of at most one block of which the same holds.
Lacking(fields) == {fields} \cup {fields \ {f} : f \in fields}
AllFields == UNION {Declared[c] : c \in DOMAIN Declared} \ {"subtype"}
SystemTypes == HookEvents \cup {"task_started", "task_progress", "task_notification",
                                "task_updated", "mirror_error", "init", Absent}
Types == {"user", "assistant", "result", "stream_event", "rate_limit_event",
          "conversation_reset", "keep_alive", Absent, Odd}
BlockTypes == DOMAIN AssistantBlocks \cup {"image", Odd, Absent}
BlockFields == UNION {DeclaredBlocks[c] : c \in DOMAIN DeclaredBlocks}
AllMessages ==
    {Raw("system", sub, has) : sub \in SystemTypes, has \in Lacking(AllFields)}
        \cup {Raw(type, Absent, has) : type \in Types, has \in Lacking(AllFields)}
        \cup {Raw("result", "success", has) : has \in Lacking(AllFields)
                                        \cup Lacking(AllFields \cup {"deferred_tool_use"})}
        \cup {Blocks(type, <<[type |-> b, has |-> has]>>) :
                 type \in {"user", "assistant"},
                 b \in BlockTypes, has \in Lacking(BlockFields)}

\* Two turns, and one that is spoiled by a message.
Say == Blocks("assistant", <<[type |-> "text", has |-> {"text"}]>>)
Stop == Raw("result", "success", NeededByResult)
New == Raw("keep_alive", Absent, {})
Bad == Raw("stream_event", Absent, {"uuid"})
Turns == {<<Say, Stop, New, Say, Stop>>, <<Say, Bad, Stop, Say, Stop>>}

AllStreams == [silent |-> {<<>>}, turns |-> Turns, single |-> {<<m>> : m \in AllMessages}]

CONSTANTS Owner, Other

Alone == Setup(AllFaults, {Owner}, Both, 2, "silent")
Locked == Setup({"locked"}, {Owner, Other}, {"client"}, 2, "silent")
Aborted == Setup({"cancel", "raw_cancel"}, {Owner, Other}, {"client"}, 2, "silent")
Shared == Setup({"initialize", "spawn", "setup"}, {Owner, Other}, {"client"}, 2, "silent")
Talking == Setup({}, {Owner, Other}, {"client"}, 1, "turns")
Asking == Setup({}, {Owner}, {"query"}, 1, "turns")
Parsing == Setup({}, {Owner}, {"client"}, 1, "single")

Converting == Setup({"setup"}, {Owner}, Both, 1, "silent")

JustConverting == {Converting}
AllSetups == {Alone, Locked, Aborted, Shared, Talking, Asking, Parsing}
=============================================================================
