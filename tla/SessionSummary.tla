--------------------------- MODULE SessionSummary ---------------------------
(***************************************************************************)
(* What a listing says of a session, derived from its transcript in two    *)
(* ways: fold_session_summary(), which a store runs over every batch it    *)
(* appends, and _parse_session_info_from_lite(), which reads the first and *)
(* the last 64 KiB of the transcript.                                      *)
(*                                                                         *)
(* A transcript is a sequence of entries.  An entry is a function from the *)
(* JSON keys it has, among those the two look at, to their values, which   *)
(* are strings; texts is the sequence of the text blocks of a message, and *)
(* hidden stands for isMeta, isCompactSummary and tool_result.  Entries    *)
(* are of equal size: HeadLen and TailLen of them fit into the two windows.*)
(***************************************************************************)
EXTENDS Naturals, Sequences, SequencesExt

CONSTANTS
    HeadLen, TailLen,  \* entries in LITE_READ_BUF_SIZE bytes
    Project            \* the directory the listing is for

ASSUME WindowAssumption == HeadLen \in Nat \ {0} /\ TailLen \in Nat \ {0}

None == "None"
Get(f, k) == IF k \in DOMAIN f THEN f[k] ELSE None
Or(x, y) == IF x \in {None, ""} THEN y ELSE x

(***************************************************************************)
(* A text block: a prompt, a slash command, or what is skipped (blank or   *)
(* generated by the CLI), with the prompt or the command's name.           *)
(***************************************************************************)
Spoken(e) ==
    IF Get(e, "type") = "user" /\ "texts" \in DOMAIN e /\ "hidden" \notin DOMAIN e
    THEN e.texts ELSE <<>>

\* The first, or the last, of the values that is there.
FirstOf(values) ==
    LET given == {i \in DOMAIN values : values[i] # None}
    IN  IF given = {} THEN None ELSE values[Min(given)]
LastOf(values) ==
    LET given == {i \in DOMAIN values : values[i] # None}
    IN  IF given = {} THEN None ELSE values[Max(given)]

\* What the first text of a kind says.
Said(e, kind) ==
    LET said == SelectSeq(Spoken(e), LAMBDA x : x.kind = kind)
    IN  IF said = <<>> THEN None ELSE said[1].says

Info(title, last, hint, first, branch, cwd, tag, created) ==
    [title |-> Or(title, None), summary |-> Or(title, Or(last, Or(hint, first))),
     firstPrompt |-> Or(first, None), branch |-> Or(branch, None),
     cwd |-> Or(cwd, Project), tag |-> Or(tag, None), created |-> created]

\* What stands for a session that is not listed.
NoInfo == [summary |-> None]
Shown(info) == IF info.summary \in {None, ""} THEN NoInfo ELSE info

-----------------------------------------------------------------------------
\* fold_session_summary()

Updated(f, k, v) == [j \in DOMAIN f \cup {k} |-> IF j = k THEN v ELSE f[j]]
Once(data, k, v) == IF k \in DOMAIN data \/ v = None THEN data ELSE Updated(data, k, v)

\* Mutant of Latch: whether a session is a sidechain is what any entry says.
LatchAnySidechain(data, e) ==
    Once(Once(Once(data, "is_sidechain", Get(e, "isSidechain")),
              "created_at", IF Get(e, "timestamp") = "bad" THEN None
                            ELSE Get(e, "timestamp")),
         "cwd", IF Get(e, "cwd") = "" THEN None ELSE Get(e, "cwd"))

\* Fields that the first entry, or the first that has them, sets for good.
Latch(data, e) ==
    Once(Once(Once(data, "is_sidechain", Or(Get(e, "isSidechain"), "false")),
              "created_at", IF Get(e, "timestamp") = "bad" THEN None
                            ELSE Get(e, "timestamp")),
         "cwd", IF Get(e, "cwd") = "" THEN None ELSE Get(e, "cwd"))

\* The first prompt locks; until then the first command is the fallback.  A
\* command next to the first prompt is left out: nothing falls back to it.
FoldFirstPrompt(data, e) ==
    LET prompt == Said(e, "prompt")
    IN  IF "first_prompt" \in DOMAIN data THEN data
        ELSE IF prompt # None THEN Updated(data, "first_prompt", prompt)
        ELSE Once(data, "command_fallback", Said(e, "command"))

LastWins == [customTitle |-> "custom_title", aiTitle |-> "ai_title",
             lastPrompt |-> "last_prompt", summary |-> "summary_hint",
             gitBranch |-> "git_branch"]
Overwrite(data, e) ==
    LET given == {k \in DOMAIN LastWins : Get(e, k) # None}
        fields == {LastWins[k] : k \in given}
    IN  [f \in DOMAIN data \cup fields |->
            IF f \in fields THEN e[CHOOSE k \in given : LastWins[k] = f] ELSE data[f]]

\* A tag entry sets the tag, or clears it when its value is empty.
FoldTag(data, e) ==
    IF Get(e, "type") # "tag" THEN data
    ELSE IF Or(Get(e, "tag"), None) # None THEN Updated(data, "tag", e.tag)
    ELSE [k \in DOMAIN data \ {"tag"} |-> data[k]]

FoldEntry(data, e) ==
    FoldTag(Overwrite(FoldFirstPrompt(Latch(data, e), e), e), e)
Empty == [k \in {} |-> None]
FoldSummary(data, entries) == FoldLeft(FoldEntry, data, entries)

\* summary_entry_to_sdk_info()
SdkInfo(data) ==
    IF Get(data, "is_sidechain") = "true" THEN NoInfo
    ELSE Shown(Info(Or(Get(data, "custom_title"), Get(data, "ai_title")),
                    Get(data, "last_prompt"), Get(data, "summary_hint"),
                    Or(Get(data, "first_prompt"), Get(data, "command_fallback")),
                    Get(data, "git_branch"), Get(data, "cwd"),
                    Get(data, "tag"), Get(data, "created_at")))

-----------------------------------------------------------------------------
\* _parse_session_info_from_lite()

Head64(entries) == SubSeq(entries, 1, IF Len(entries) < HeadLen THEN Len(entries)
                                      ELSE HeadLen)
Tail64(entries) == IF Len(entries) <= TailLen THEN entries
                   ELSE SubSeq(entries, Len(entries) - TailLen + 1, Len(entries))

FirstField(entries, k) == FirstOf([i \in DOMAIN entries |-> Get(entries[i], k)])
LastField(entries, k) == LastOf([i \in DOMAIN entries |-> Get(entries[i], k)])

\* _extract_first_prompt_from_head(): text by text, the commands on the way.
FirstSaid(head, kind) == FirstOf([i \in DOMAIN head |-> Said(head[i], kind)])
FirstPromptFromHead(head) ==
    LET prompt == FirstSaid(head, "prompt")
    IN  IF prompt # None THEN prompt ELSE FirstSaid(head, "command")

\* The last tag line of the tail, which may have no tag.
TagOf(e) == IF Get(e, "type") = "tag" THEN Or(Get(e, "tag"), "") ELSE None
TailTag(tail) == LastOf([i \in DOMAIN tail |-> TagOf(tail[i])])

CreatedAt(head) ==
    LET first == FirstField(head, "timestamp")
    IN  IF first = "bad" THEN None ELSE first

LiteInfo(entries) ==
    LET head == Head64(entries)
        tail == Tail64(entries)
    IN  IF Get(entries[1], "isSidechain") = "true" THEN NoInfo
        ELSE Shown(Info(Or(LastField(tail, "customTitle"),
                           Or(LastField(head, "customTitle"),
                              Or(LastField(tail, "aiTitle"),
                                 LastField(head, "aiTitle")))),
                        LastField(tail, "lastPrompt"), LastField(tail, "summary"),
                        FirstPromptFromHead(head),
                        Or(LastField(tail, "gitBranch"), FirstField(head, "gitBranch")),
                        FirstField(head, "cwd"), TailTag(tail), CreatedAt(head)))
=============================================================================
