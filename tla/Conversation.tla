----------------------------- MODULE Conversation -----------------------------
(***************************************************************************)
(* The message list of ToolUseLoop and the operations that restructure it. *)
(* Of a ChatMessage the model keeps what providers check: the role, the    *)
(* ids an Assistant asks for and the id a Tool message answers.  A System  *)
(* message that starts with RETRIEVAL_CONTEXT has a role of its own,       *)
(* because inject_retrieval_context looks for it.                          *)
(***************************************************************************)
EXTENDS Subsequences, FiniteSets

CONSTANTS
    CompactionFloor,   \* compact_messages does nothing up to this length (7)
    FollowupFloor      \* messages compacted before a follow-up is appended (5)

NoCall == 0

Plain(r) == [role |-> r, calls |-> {}, answers |-> NoCall]
System == Plain("system")
Retrieval == Plain("retrieval")
User == Plain("user")
Text == Plain("assistant")
Asks(ids) == [role |-> "assistant", calls |-> ids, answers |-> NoCall]
Answers(id) == [role |-> "tool", calls |-> {}, answers |-> id]

\* inject_retrieval_context: nothing found, or the old context replaced.
Grounded(h) == {h, Append(Without(h, {Retrieval}), Retrieval)}

\* A mistake the checks of this definition must notice: GroupStarts.
AnyMessageStarts(h) == 3..Len(h)

\* Indices compact_messages may keep from: it goes back from the end group by
\* group, a group starts at a User message, and the first message stays.
GroupStarts(h) == {k \in 3..Len(h) : h[k].role = "user"}

\* The new list: the first message, the summary as a User message, the work
\* state and directives (if any), the kept groups, and a follow-up prompt.
Compacted(h, keep, workState) ==
    LET kept == <<h[1], User>> \o workState \o SubSeq(h, keep, Len(h))
    IN  IF keep - 2 < FollowupFloor \/ kept[Len(kept)].role = "user"
        THEN kept
        ELSE Append(kept, User)

\* The validation at the end of compact_messages.
Compactable(h) == Len(h) > CompactionFloor /\ h[1].role = "system"

-----------------------------------------------------------------------------
(* What providers require of a request *)

\* Every Tool message answers a call of an earlier Assistant message.
NoOrphans(h) ==
    \A j \in DOMAIN h : h[j].role = "tool" =>
        \E i \in 1..(j - 1) : h[j].answers \in h[i].calls

\* Call c, where it is asked for, has one answer and after the question.
AnsweredOnce(h, c) ==
    \A i \in DOMAIN h : c \in h[i].calls =>
        \E j \in (i + 1)..Len(h) : {k \in DOMAIN h : h[k].answers = c} = {j}
=============================================================================
