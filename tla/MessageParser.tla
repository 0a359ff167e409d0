---------------------------- MODULE MessageParser ----------------------------
(***************************************************************************)
(* parse_message(): what becomes of one message of the CLI on its way to   *)
(* the caller.  It is given out as an object of a class of types.py, it is *)
(* skipped (a type this version does not know), or it is refused with an   *)
(* exception.                                                              *)
(*                                                                         *)
(* A message has its type and, if it has one, a subtype (Absent            *)
(* otherwise), the set of the fields it has, named as the class names      *)
(* them, and its content: a list of blocks, each with a type and its       *)
(* fields, or a text.  A value is only there or not; a block or a message  *)
(* that is no JSON object is of the type Odd.  Fields that the classes     *)
(* allow to be absent are left out, except for deferred_tool_use, which is *)
(* an object of its own.                                                   *)
(***************************************************************************)
EXTENDS Sequences, SequencesExt

Absent == "absent"
Odd == "odd"

Joined(f, g) == [x \in DOMAIN f \cup DOMAIN g |-> IF x \in DOMAIN f THEN f[x] ELSE g[x]]

-----------------------------------------------------------------------------
\* The classes of types.py, with the fields that have no default.

DeclaredBlocks ==
    [TextBlock |-> {"text"}, ThinkingBlock |-> {"thinking", "signature"},
     ToolUseBlock |-> {"id", "name", "input"}, ToolResultBlock |-> {"tool_use_id"},
     ServerToolUseBlock |-> {"id", "name", "input"},
     ServerToolResultBlock |-> {"tool_use_id", "content"}]

DeclaredTalk ==
    [UserMessage |-> {"content"}, AssistantMessage |-> {"content", "model"},
     SystemMessage |-> {"subtype"}]

DeclaredTasks ==
    [TaskStartedMessage |-> {"subtype", "task_id", "description", "uuid", "session_id"},
     TaskProgressMessage |->
        {"subtype", "task_id", "description", "usage", "uuid", "session_id"},
     TaskNotificationMessage |->
        {"subtype", "task_id", "status", "output_file", "summary", "uuid", "session_id"},
     TaskUpdatedMessage |-> {"subtype", "task_id", "patch"},
     MirrorErrorMessage |-> {"subtype"}]

DeclaredResult ==
    [ResultMessage |-> {"subtype", "duration_ms", "duration_api_ms", "is_error",
                        "num_turns", "session_id"},
     DeferredToolUse |-> {"id", "name", "input"}]

DeclaredEvents ==
    [StreamEvent |-> {"uuid", "session_id", "event"},
     RateLimitEvent |-> {"rate_limit_info", "status", "uuid", "session_id"},
     ConversationResetMessage |-> {"new_conversation_id", "uuid", "session_id"},
     HookEventMessage |-> {"subtype"}]

Declared == Joined(Joined(DeclaredTalk, DeclaredTasks), Joined(DeclaredResult, DeclaredEvents))

-----------------------------------------------------------------------------
\* The class of a message, by its type and subtype.

HookEvents == {"hook_started", "hook_response"}

SystemClass(subtype) ==
    CASE subtype \in HookEvents          -> "HookEventMessage"
      [] subtype = "task_started"        -> "TaskStartedMessage"
      [] subtype = "task_progress"       -> "TaskProgressMessage"
      [] subtype = "task_notification"   -> "TaskNotificationMessage"
      [] subtype = "task_updated"        -> "TaskUpdatedMessage"
      [] subtype = "mirror_error"        -> "MirrorErrorMessage"
      [] OTHER                           -> "SystemMessage"

Class(m) ==
    CASE m.type = "user"               -> "UserMessage"
      [] m.type = "assistant"          -> "AssistantMessage"
      [] m.type = "system"             -> SystemClass(m.subtype)
      [] m.type = "result"             -> "ResultMessage"
      [] m.type = "stream_event"       -> "StreamEvent"
      [] m.type = "rate_limit_event"   -> "RateLimitEvent"
      [] m.type = "conversation_reset" -> "ConversationResetMessage"
      [] OTHER                         -> "unknown"

\* Blocks of types that are not listed are left out of the content.
UserBlocks ==
    [text |-> "TextBlock", tool_use |-> "ToolUseBlock", tool_result |-> "ToolResultBlock"]

AssistantBlocks ==
    Joined(UserBlocks,
           [thinking |-> "ThinkingBlock", server_tool_use |-> "ServerToolUseBlock",
            advisor_tool_result |-> "ServerToolResultBlock"])

BlocksOf(m) == IF m.type = "user" THEN UserBlocks ELSE AssistantBlocks

-----------------------------------------------------------------------------
\* The fields that the parser reads by subscript, so that it cannot do
\* without them; any other is read with get().

NeededInBlock(type) ==
    CASE type = "text"                              -> {"text"}
      [] type = "thinking"                          -> {"thinking", "signature"}
      [] type \in {"tool_use", "server_tool_use"}   -> {"id", "name", "input"}
      [] type = "tool_result"                       -> {"tool_use_id"}
      [] type = "advisor_tool_result"               -> {"tool_use_id", "content"}

NeededByTask(subtype) ==
    CASE subtype = "task_started"  -> {"task_id", "description", "uuid", "session_id"}
      [] subtype = "task_progress" ->
            {"task_id", "description", "usage", "uuid", "session_id"}
      [] subtype = "task_notification" ->
            {"task_id", "status", "output_file", "summary", "uuid", "session_id"}
      [] OTHER -> {}

NeededByResult ==
    {"subtype", "duration_ms", "duration_api_ms", "is_error", "num_turns", "session_id"}

NeededByEvent(type) ==
    CASE type = "stream_event"     -> {"uuid", "session_id", "event"}
      [] type = "rate_limit_event" -> {"rate_limit_info", "status", "uuid", "session_id"}
      [] OTHER                     -> {"new_conversation_id", "uuid", "session_id"}

\* Mutant of Needed: a result is read leniently.
LenientResult(m) ==
    CASE m.type = "user"      -> {"content"}
      [] m.type = "assistant" -> {"content", "model"}
      [] m.type = "system"    -> {"subtype"} \cup NeededByTask(m.subtype)
      [] m.type = "result"    -> NeededByResult \ {"session_id"}
      [] OTHER                -> NeededByEvent(m.type)

Needed(m) ==
    CASE m.type = "user"      -> {"content"}
      [] m.type = "assistant" -> {"content", "model"}
      [] m.type = "system"    -> {"subtype"} \cup NeededByTask(m.subtype)
      [] m.type = "result"    -> NeededByResult
      [] OTHER                -> NeededByEvent(m.type)

Has(m) == m.has \cup (IF m.subtype = Absent THEN {} ELSE {"subtype"})

KnownBlock(m, b) == b.type \in DOMAIN BlocksOf(m)

\* A block that is no object, has no type, or lacks a field of its type.
BadBlock(m, b) ==
    \/ b.type \in {Odd, Absent}
    \/ KnownBlock(m, b) /\ ~(NeededInBlock(b.type) \subseteq b.has)

BadContent(m) ==
    IF m.listed THEN \E i \in DOMAIN m.content : BadBlock(m, m.content[i])
    ELSE m.type = "assistant"

\* deferred_tool_use, if it is there, has to be whole.
BadDeferral(m) ==
    "deferred_tool_use" \in m.has /\ ~({"id", "name", "input"} \subseteq m.has)

Refused(m) ==
    \/ m.type \in {Odd, Absent}
    \/ /\ Class(m) # "unknown"
       /\ \/ ~(Needed(m) \subseteq Has(m))
          \/ m.type \in {"user", "assistant"} /\ BadContent(m)
          \/ m.type = "result" /\ BadDeferral(m)

Skipped(m) == ~Refused(m) /\ Class(m) = "unknown"
Parsed(m) == ~Refused(m) /\ ~Skipped(m)

IsResult(m) == Parsed(m) /\ Class(m) = "ResultMessage"
=============================================================================
