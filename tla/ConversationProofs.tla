-------------------------- MODULE ConversationProofs --------------------------
(***************************************************************************)
(* The conversation of the tool-use loop, and the conversations that the   *)
(* JSON-RPC server keeps.                                                  *)
(*                                                                         *)
(* ToolLoop for any limits, phases, kinds of tools and lengths of batch,   *)
(* conversation and session: in every request each call of the user turn   *)
(* has exactly one answer, no answer ever loses its question, phases go    *)
(* forward, and the loop refines BoundedRun.                               *)
(*                                                                         *)
(* The properties look at requests only; between two requests calls wait   *)
(* for their answer.  The invariant says which (Waiting) and that each of  *)
(* these is open: asked since the last User message, with no answer yet.   *)
(* User messages matter because compaction cuts the list there: it is      *)
(* sound as long as no User message stands between a question and its      *)
(* answers, which WellFormed states for every Tool message of the list.    *)
(*                                                                         *)
(* RpcSessions for any servers, sessions, prompts, links and failures:     *)
(* answers follow questions, streams are delivered, handoffs are complete. *)
(* Its invariant follows each request from step to step (Requests,         *)
(* Progress), keeps what an import still carries next to what has arrived  *)
(* (Carrying), and counts who pays for a session that a link has filled    *)
(* (Marked): a mark to come, a failure, or a server that began too early.  *)
(***************************************************************************)
EXTENDS ToolLoop, RpcSessions, RecursionProofs, FiniteSetTheorems, TLAPS

\* Messages, and those without ids.
Roles == {"system", "retrieval", "user", "assistant", "tool"}
Message == [role : Roles, calls : SUBSET Nat, answers : Nat]
Plains == {m \in Message : m.calls = {} /\ m.answers = NoCall /\ m.role # "tool"}

\* An Assistant asks for ids handed out so far, a Tool message answers one.
Shaped(m, limit) ==
    /\ m.calls \subseteq 1..limit
    /\ m.calls # {} => m.role = "assistant"
    /\ m.role = "tool" <=> m.answers # NoCall

\* The message at j answers a call of the one at i, in the same group.
Pair(h, i, j) == h[j].answers \in h[i].calls /\ \A k \in i..j : h[k].role # "user"

WellFormed(h, limit) ==
    /\ h \in Seq(Message)
    /\ \A i \in 1..Len(h) : Shaped(h[i], limit)
    /\ \A j \in 1..Len(h) : h[j].role = "tool" => \E i \in 1..(j - 1) : Pair(h, i, j)

\* Call c has been asked since the last User message and is not answered.
Open(h, c) ==
    /\ \E i \in 1..Len(h) : c \in h[i].calls /\ \A k \in i..Len(h) : h[k].role # "user"
    /\ \A k \in 1..Len(h) : h[k].answers # c

\* What the constructors of Conversation make.
LEMMA MessageTypes ==
    /\ System \in Plains /\ Retrieval \in Plains /\ User \in Plains /\ Text \in Plains
    /\ System.role # "user" /\ User.role = "user" /\ Retrieval.role = "retrieval"
    /\ \A ids \in SUBSET Nat : /\ Asks(ids) \in Message
                               /\ Asks(ids).calls = ids /\ Asks(ids).answers = NoCall
                               /\ Asks(ids).role = "assistant"
    /\ \A c \in Nat : /\ Answers(c) \in Message
                      /\ Answers(c).calls = {} /\ Answers(c).answers = c
                      /\ Answers(c).role = "tool"
  BY DEF System, Retrieval, User, Text, Plain, Plains, Message, Roles, Asks, Answers, NoCall

\* A message without ids fits any limit.
LEMMA PlainIsShaped ==
    ASSUME NEW m \in Plains, NEW limit
    PROVE  Shaped(m, limit)
  BY DEF Plains, Shaped

\* A well-formed list has no orphaned Tool message.
LEMMA WellFormedNoOrphans ==
    ASSUME NEW h, NEW limit, WellFormed(h, limit)
    PROVE  NoOrphans(h)
  BY DEF WellFormed, NoOrphans, Pair

-----------------------------------------------------------------------------
(* Plain messages before and after *)

\* Messages without ids after the list: every answer stays, and every open
\* call unless one of them is a User message.
LEMMA PlainTail ==
    ASSUME NEW h, NEW limit \in Nat, WellFormed(h, limit), NEW tail \in Seq(Plains)
    PROVE  /\ WellFormed(h \o tail, limit)
           /\ \A c \in Nat \ {0} : AnsweredOnce(h, c) => AnsweredOnce(h \o tail, c)
           /\ (\A i \in 1..Len(tail) : tail[i].role # "user") =>
                 \A c \in Nat \ {0} : Open(h, c) => Open(h \o tail, c)
<1> DEFINE g == h \o tail
<1>1. /\ g \in Seq(Message) /\ Len(g) = Len(h) + Len(tail) /\ Len(h) \in Nat /\ Len(tail) \in Nat
      /\ h \in Seq(Message)
      /\ \A i \in 1..Len(h) : g[i] = h[i]
      /\ \A i \in 1..Len(g) : i \notin 1..Len(h) =>
            i - Len(h) \in 1..Len(tail) /\ g[i] = tail[i - Len(h)] /\ g[i] \in Plains
  <2>1. h \in Seq(Message) /\ tail \in Seq(Message)
    BY DEF WellFormed, Plains
  <2>2. QED
    BY <2>1
<1> HIDE DEF g
<1>2. WellFormed(g, limit)
  <2>1. \A i \in 1..Len(g) : Shaped(g[i], limit)
    BY <1>1, PlainIsShaped DEF WellFormed
  <2>2. ASSUME NEW j \in 1..Len(g), g[j].role = "tool"
        PROVE  \E i \in 1..(j - 1) : Pair(g, i, j)
    <3>1. j \in 1..Len(h) /\ h[j].role = "tool"
      BY <1>1, <2>2 DEF Plains
    <3>2. PICK i \in 1..(j - 1) : Pair(h, i, j)
      BY <3>1 DEF WellFormed
    <3>3. \A k \in i..j : k \in 1..Len(h) /\ g[k] = h[k]
      BY <1>1, <3>1, <3>2
    <3>4. Pair(g, i, j)
      BY <3>1, <3>2, <3>3 DEF Pair
    <3>5. QED
      BY <3>4
  <2>3. QED
    BY <1>1, <2>1, <2>2 DEF WellFormed
<1>3. ASSUME NEW c \in Nat \ {0}, AnsweredOnce(h, c)
      PROVE  AnsweredOnce(g, c)
  <2>1. DOMAIN g = 1..Len(g) /\ DOMAIN h = 1..Len(h)
    BY <1>1
  <2>2. \A k \in 1..Len(g) : k \notin 1..Len(h) => g[k].answers # c /\ g[k].calls = {}
    BY <1>1 DEF Plains, NoCall
  <2>3. {k \in DOMAIN g : g[k].answers = c} = {k \in DOMAIN h : h[k].answers = c}
    BY <1>1, <2>1, <2>2
  <2>4. ASSUME NEW i \in DOMAIN g, c \in g[i].calls
        PROVE  \E j \in (i + 1)..Len(g) : {k \in DOMAIN g : g[k].answers = c} = {j}
    <3>1. i \in DOMAIN h /\ c \in h[i].calls
      BY <1>1, <2>1, <2>2, <2>4
    <3>2. PICK j \in (i + 1)..Len(h) : {k \in DOMAIN h : h[k].answers = c} = {j}
      BY <1>3, <3>1 DEF AnsweredOnce
    <3>3. j \in (i + 1)..Len(g)
      BY <1>1, <3>2
    <3>4. QED
      BY <2>3, <3>2, <3>3
  <2>5. QED
    BY <2>4 DEF AnsweredOnce
<1>4. ASSUME \A i \in 1..Len(tail) : tail[i].role # "user", NEW c \in Nat \ {0}, Open(h, c)
      PROVE  Open(g, c)
  <2>1. PICK i \in 1..Len(h) : c \in h[i].calls /\ \A k \in i..Len(h) : h[k].role # "user"
    BY <1>4 DEF Open
  <2>2. i \in 1..Len(g) /\ c \in g[i].calls
    BY <1>1, <2>1
  <2>3. ASSUME NEW k \in i..Len(g)
        PROVE  g[k].role # "user"
    <3>1. CASE k \in 1..Len(h)
      <4>1. k \in i..Len(h) /\ g[k] = h[k]
        BY <1>1, <3>1
      <4>2. QED
        BY <2>1, <4>1
    <3>2. CASE k \notin 1..Len(h)
      <4>1. k \in 1..Len(g)
        BY <2>1
      <4>2. QED
        BY <1>1, <1>4, <3>2, <4>1
    <3>3. QED
      BY <3>1, <3>2
  <2>4. \A k \in 1..Len(g) : g[k].answers # c
    BY <1>1, <1>4 DEF Open, Plains, NoCall
  <2>5. QED
    BY <2>2, <2>3, <2>4 DEF Open
<1>5. QED
  BY <1>2, <1>3, <1>4 DEF g

\* Messages without ids before the list: every answer stays.
LEMMA PlainHead ==
    ASSUME NEW h, NEW limit \in Nat, WellFormed(h, limit), NEW head \in Seq(Plains)
    PROVE  /\ WellFormed(head \o h, limit)
           /\ \A c \in Nat \ {0} : AnsweredOnce(h, c) => AnsweredOnce(head \o h, c)
<1> DEFINE g == head \o h
           n == Len(head)
<1>1. /\ g \in Seq(Message) /\ Len(g) = n + Len(h) /\ Len(h) \in Nat /\ n \in Nat
      /\ h \in Seq(Message)
      /\ \A i \in 1..Len(h) : i + n \in 1..Len(g) /\ g[i + n] = h[i]
      /\ \A i \in 1..Len(g) : i > n => i - n \in 1..Len(h) /\ g[i] = h[i - n]
      /\ \A i \in 1..Len(g) : i <= n => g[i] \in Plains
  <2>1. h \in Seq(Message) /\ head \in Seq(Message)
    BY DEF WellFormed, Plains
  <2>2. QED
    BY <2>1
<1> HIDE DEF g, n
<1>2. WellFormed(g, limit)
  <2>1. ASSUME NEW i \in 1..Len(g)
        PROVE  Shaped(g[i], limit)
    <3>1. CASE i > n
      BY <1>1, <3>1 DEF WellFormed
    <3>2. CASE i <= n
      BY <1>1, <3>2, PlainIsShaped
    <3>3. QED
      BY <1>1, <3>1, <3>2
  <2>2. ASSUME NEW j \in 1..Len(g), g[j].role = "tool"
        PROVE  \E i \in 1..(j - 1) : Pair(g, i, j)
    <3>1. j > n /\ j - n \in 1..Len(h) /\ g[j] = h[j - n]
      BY <1>1, <2>2 DEF Plains
    <3>2. PICK i \in 1..(j - n - 1) : Pair(h, i, j - n)
      BY <3>1, <2>2 DEF WellFormed
    <3>3. i + n \in 1..(j - 1) /\ g[i + n] = h[i]
      BY <1>1, <3>1, <3>2
    <3>4. \A k \in (i + n)..j : k - n \in i..(j - n) /\ g[k] = h[k - n]
      BY <1>1, <3>1, <3>2
    <3>5. Pair(g, i + n, j)
      BY <3>1, <3>2, <3>3, <3>4 DEF Pair
    <3>6. QED
      BY <3>3, <3>5
  <2>3. QED
    BY <1>1, <2>1, <2>2 DEF WellFormed
<1>3. ASSUME NEW c \in Nat \ {0}, AnsweredOnce(h, c)
      PROVE  AnsweredOnce(g, c)
  <2>1. DOMAIN g = 1..Len(g) /\ DOMAIN h = 1..Len(h)
    BY <1>1
  <2>2. \A k \in 1..Len(g) : k <= n => g[k].answers # c /\ g[k].calls = {}
    BY <1>1 DEF Plains, NoCall
  <2>3. ASSUME NEW i \in DOMAIN g, c \in g[i].calls
        PROVE  \E j \in (i + 1)..Len(g) : {k \in DOMAIN g : g[k].answers = c} = {j}
    <3>1. i > n /\ i - n \in DOMAIN h /\ c \in h[i - n].calls
      BY <1>1, <2>1, <2>2, <2>3
    <3>2. PICK j \in (i - n + 1)..Len(h) : {k \in DOMAIN h : h[k].answers = c} = {j}
      BY <1>3, <3>1 DEF AnsweredOnce
    <3>3. j + n \in (i + 1)..Len(g) /\ j \in 1..Len(h) /\ g[j + n] = h[j] /\ h[j].answers = c
      BY <1>1, <2>1, <3>1, <3>2
    <3>4. ASSUME NEW k \in DOMAIN g, g[k].answers = c
          PROVE  k = j + n
      <4>1. k - n \in DOMAIN h /\ h[k - n].answers = c
        BY <1>1, <2>1, <2>2, <3>4
      <4>2. k - n = j
        BY <3>2, <4>1
      <4>3. QED
        BY <1>1, <2>1, <3>3, <4>2
    <3>5. {k \in DOMAIN g : g[k].answers = c} = {j + n}
      BY <2>1, <1>1, <3>3, <3>4
    <3>6. QED
      BY <3>3, <3>5
  <2>4. QED
    BY <2>3 DEF AnsweredOnce
<1>4. QED
  BY <1>2, <1>3 DEF g

-----------------------------------------------------------------------------
(* A list of which some messages are dropped *)

\* g keeps the messages of h that are at the places f; what an answer or a
\* question needs is kept with it.
Keeps(g, h, f) ==
    /\ f \in [1..Len(g) -> 1..Len(h)]
    /\ \A i, j \in 1..Len(g) : i < j => f[i] < f[j]
    /\ \A i \in 1..Len(g) : g[i] = h[f[i]]

\* Dropping messages keeps every answer, when no Tool message loses its
\* question and no message that answers something is dropped after one that is
\* kept.
LEMMA DroppedMessages ==
    ASSUME NEW h, NEW limit \in Nat, WellFormed(h, limit), NEW g \in Seq(Message), NEW f, Keeps(g, h, f),
           \A i \in 1..Len(g), j \in 1..Len(h) :
              /\ Pair(h, j, f[i]) /\ g[i].role = "tool" /\ j < f[i] => \E k \in 1..Len(g) : f[k] = j
              /\ j > f[i] /\ h[j].answers # NoCall => \E k \in 1..Len(g) : f[k] = j
    PROVE  /\ WellFormed(g, limit)
           /\ \A c \in Nat \ {0} : AnsweredOnce(h, c) => AnsweredOnce(g, c)
<1>1. h \in Seq(Message) /\ Len(h) \in Nat /\ Len(g) \in Nat
  BY DEF WellFormed
<1>2. /\ \A i \in 1..Len(g) : f[i] \in 1..Len(h) /\ g[i] = h[f[i]]
      /\ \A i, j \in 1..Len(g) : i < j => f[i] < f[j]
  BY DEF Keeps
<1>3. ASSUME NEW i \in 1..Len(g), NEW j \in 1..Len(g), f[i] < f[j]
      PROVE  i < j
  <2>1. CASE j < i
    BY <1>2, <1>3, <2>1
  <2>2. CASE i = j
    BY <1>2, <1>3, <2>2
  <2>3. QED
    BY <2>1, <2>2
<1>4. WellFormed(g, limit)
  <2>1. \A i \in 1..Len(g) : Shaped(g[i], limit)
    BY <1>2 DEF WellFormed
  <2>2. ASSUME NEW j \in 1..Len(g), g[j].role = "tool"
        PROVE  \E i \in 1..(j - 1) : Pair(g, i, j)
    <3>1. PICK a \in 1..(f[j] - 1) : Pair(h, a, f[j])
      BY <1>2, <2>2 DEF WellFormed
    <3>2. a \in 1..Len(h) /\ a < f[j]
      BY <1>1, <1>2, <3>1
    <3>3. PICK i \in 1..Len(g) : f[i] = a
      BY <2>2, <3>1, <3>2
    <3>4. i \in 1..(j - 1)
      BY <1>1, <1>3, <3>2, <3>3
    <3>5. ASSUME NEW k \in i..j
          PROVE  g[k].role # "user"
      <4>1. k \in 1..Len(g)
        BY <1>1, <3>4
      <4>2. f[k] \in 1..Len(h) /\ f[i] <= f[k] /\ f[k] <= f[j]
        <5>1. CASE k = i
          BY <1>2, <3>2, <3>3, <5>1
        <5>2. CASE k = j
          BY <1>2, <3>2, <3>3, <5>2
        <5>3. CASE i < k /\ k < j
          BY <1>2, <4>1, <5>3
        <5>4. QED
          BY <5>1, <5>2, <5>3
      <4>3. f[k] \in a..f[j]
        BY <1>2, <3>3, <4>2
      <4>4. h[f[k]].role # "user"
        BY <3>1, <4>3 DEF Pair
      <4>5. QED
        BY <1>2, <4>1, <4>4
    <3>6. g[j].answers \in g[i].calls
      BY <1>2, <3>1, <3>3 DEF Pair
    <3>7. QED
      BY <3>4, <3>5, <3>6 DEF Pair
  <2>3. QED
    BY <2>1, <2>2 DEF WellFormed
<1>5. ASSUME NEW c \in Nat \ {0}, AnsweredOnce(h, c)
      PROVE  AnsweredOnce(g, c)
  <2>1. DOMAIN g = 1..Len(g) /\ DOMAIN h = 1..Len(h)
    BY <1>1
  <2>2. ASSUME NEW i \in DOMAIN g, c \in g[i].calls
        PROVE  \E j \in (i + 1)..Len(g) : {k \in DOMAIN g : g[k].answers = c} = {j}
    <3>1. f[i] \in DOMAIN h /\ c \in h[f[i]].calls
      BY <1>2, <2>1, <2>2
    <3>2. PICK b \in (f[i] + 1)..Len(h) : {k \in DOMAIN h : h[k].answers = c} = {b}
      BY <1>5, <3>1 DEF AnsweredOnce
    <3>3. b \in 1..Len(h) /\ b > f[i] /\ h[b].answers = c /\ f[i] \in 1..Len(h)
      BY <1>1, <2>1, <3>1, <3>2
    <3>4. PICK j \in 1..Len(g) : f[j] = b
      BY <2>1, <3>3 DEF NoCall
    <3>5. j \in (i + 1)..Len(g) /\ g[j].answers = c
      BY <1>1, <1>2, <1>3, <2>1, <3>3, <3>4
    <3>6. ASSUME NEW k \in DOMAIN g, g[k].answers = c
          PROVE  k = j
      <4>1. f[k] = b
        BY <1>2, <2>1, <3>2, <3>6
      <4>2. ~(k < j) /\ ~(j < k)
        BY <1>2, <2>1, <3>4, <4>1
      <4>3. QED
        BY <2>1, <4>2
    <3>7. {k \in DOMAIN g : g[k].answers = c} = {j}
      BY <2>1, <3>5, <3>6
    <3>8. QED
      BY <3>5, <3>7
  <2>3. QED
    BY <2>2 DEF AnsweredOnce
<1>6. QED
  BY <1>4, <1>5

\* inject_retrieval_context drops no question and no answer.
LEMMA GroundedKeeps ==
    ASSUME NEW h, NEW limit \in Nat, WellFormed(h, limit), NEW g \in Grounded(h)
    PROVE  /\ WellFormed(g, limit)
           /\ \A c \in Nat \ {0} : AnsweredOnce(h, c) => AnsweredOnce(g, c)
<1> SUFFICES ASSUME g = Append(Without(h, {Retrieval}), Retrieval)
             PROVE  /\ WellFormed(g, limit)
                    /\ \A c \in Nat \ {0} : AnsweredOnce(h, c) => AnsweredOnce(g, c)
  BY DEF Grounded
<1> DEFINE kept == Without(h, {Retrieval})
           S == {h[i] : i \in DOMAIN h} \ {Retrieval}
<1>1. h \in Seq(Message) /\ kept = Only(h, S)
  BY DEF WellFormed, Without
<1>2. kept \in Seq(Message \cap S) /\ \E f : Selects(f, kept, h, S, Len(h))
  BY <1>1, OnlySelects
<1>3. kept \in Seq(Message) /\ DOMAIN h = 1..Len(h)
  BY <1>1, <1>2
<1>4. PICK f : Selects(f, kept, h, S, Len(h))
  BY <1>2
<1> HIDE DEF kept
<1>5. Keeps(kept, h, f)
  BY <1>4 DEF Selects, Keeps
<1>6. ASSUME NEW j \in 1..Len(h), h[j].calls # {} \/ h[j].answers # NoCall
      PROVE  \E k \in 1..Len(kept) : f[k] = j
  <2>1. h[j] # Retrieval
    BY <1>6, MessageTypes DEF Plains
  <2>2. h[j] \in S
    BY <1>3, <2>1
  <2>3. QED
    BY <1>4, <2>2 DEF Selects
<1>7. /\ WellFormed(kept, limit)
      /\ \A c \in Nat \ {0} : AnsweredOnce(h, c) => AnsweredOnce(kept, c)
  <2> HIDE DEF S
  <2>1. QED
    BY <1>3, <1>5, <1>6, DroppedMessages DEF Pair
<1>8. <<Retrieval>> \in Seq(Plains)
  BY MessageTypes
<1>9. g = kept \o <<Retrieval>>
  BY <1>3, MessageTypes DEF kept, Plains
<1>10. QED
  BY <1>7, <1>8, <1>9, PlainTail

-----------------------------------------------------------------------------
(* Compaction *)

\* The groups from a User message on stay together.
LEMMA SuffixKeeps ==
    ASSUME NEW h, NEW limit \in Nat, WellFormed(h, limit), NEW keep \in GroupStarts(h)
    PROVE  /\ WellFormed(SubSeq(h, keep, Len(h)), limit)
           /\ \A c \in Nat \ {0} : AnsweredOnce(h, c) => AnsweredOnce(SubSeq(h, keep, Len(h)), c)
<1> DEFINE g == SubSeq(h, keep, Len(h))
           f == [i \in 1..Len(g) |-> i + keep - 1]
<1>1. h \in Seq(Message) /\ Len(h) \in Nat /\ keep \in 3..Len(h) /\ h[keep].role = "user"
  BY DEF WellFormed, GroupStarts
<1>2. g \in Seq(Message) /\ Len(g) = Len(h) - keep + 1 /\ \A i \in 1..Len(g) : g[i] = h[i + keep - 1]
  BY <1>1
<1> HIDE DEF g
<1>3. Keeps(g, h, f)
  <2>1. \A i \in 1..Len(g) : f[i] = i + keep - 1 /\ i + keep - 1 \in 1..Len(h)
    BY <1>1, <1>2
  <2>2. f \in [1..Len(g) -> 1..Len(h)]
    BY <2>1
  <2>3. Len(g) \in Nat /\ keep \in Nat
    BY <1>1, <1>2
  <2> HIDE DEF f
  <2>4. \A i, j \in 1..Len(g) : i < j => f[i] < f[j]
    BY <2>1, <2>3
  <2>5. \A i \in 1..Len(g) : g[i] = h[f[i]]
    BY <1>2, <2>1
  <2>6. QED
    BY <2>2, <2>4, <2>5 DEF Keeps
<1>4. ASSUME NEW j \in keep..Len(h)
      PROVE  \E k \in 1..Len(g) : f[k] = j
  <2>1. j - keep + 1 \in 1..Len(g) /\ f[j - keep + 1] = j
    BY <1>1, <1>2
  <2>2. QED
    BY <2>1
<1>5. ASSUME NEW i \in 1..Len(g), NEW j \in 1..Len(h)
      PROVE  /\ Pair(h, j, f[i]) /\ j < f[i] => j >= keep
             /\ j > f[i] => j >= keep
  <2>1. f[i] >= keep /\ f[i] \in Nat
    BY <1>1, <1>2
  <2>2. j < keep => keep \in j..f[i]
    BY <1>1, <2>1
  <2> HIDE DEF f
  <2>3. QED
    BY <1>1, <2>1, <2>2 DEF Pair
<1> HIDE DEF f
<1>6. ASSUME NEW i \in 1..Len(g), NEW j \in 1..Len(h)
      PROVE  /\ Pair(h, j, f[i]) /\ j < f[i] => \E k \in 1..Len(g) : f[k] = j
             /\ j > f[i] => \E k \in 1..Len(g) : f[k] = j
  <2>1. j >= keep => j \in keep..Len(h)
    BY <1>1
  <2>2. QED
    BY <1>4, <1>5, <2>1
<1>7. /\ WellFormed(g, limit)
      /\ \A c \in Nat \ {0} : AnsweredOnce(h, c) => AnsweredOnce(g, c)
  BY <1>2, <1>3, <1>6, DroppedMessages
<1>8. QED
  BY <1>7 DEF g

\* compact_messages keeps or drops a question and its answers together.
LEMMA CompactedKeeps ==
    ASSUME NEW h, NEW limit \in Nat, WellFormed(h, limit), Compactable(h),
           NEW keep \in GroupStarts(h), NEW work \in Optional(System)
    PROVE  /\ WellFormed(Compacted(h, keep, work), limit)
           /\ \A c \in Nat \ {0} : AnsweredOnce(h, c) => AnsweredOnce(Compacted(h, keep, work), c)
<1> DEFINE first == <<h[1], User>>
           groups == SubSeq(h, keep, Len(h))
           kept == first \o work \o groups
<1>1. /\ WellFormed(groups, limit)
      /\ \A c \in Nat \ {0} : AnsweredOnce(h, c) => AnsweredOnce(groups, c)
  BY SuffixKeeps
<1>2. h[1] \in Plains
  <2>1. h \in Seq(Message) /\ 1 \in 1..Len(h)
    BY DEF WellFormed, GroupStarts
  <2>2. Shaped(h[1], limit) /\ h[1].role = "system" /\ h[1] \in Message
    BY <2>1 DEF WellFormed, Compactable
  <2>3. QED
    BY <2>2 DEF Shaped, Plains
<1>3. first \o work \in Seq(Plains)
  <2>1. first \in Seq(Plains)
    BY <1>2, MessageTypes
  <2>2. <<>> \in Seq(Plains) /\ <<System>> \in Seq(Plains)
    BY MessageTypes
  <2>3. work \in Seq(Plains)
    BY <2>2 DEF Optional
  <2>4. QED
    BY <2>1, <2>3
<1>4. /\ WellFormed(kept, limit)
      /\ \A c \in Nat \ {0} : AnsweredOnce(h, c) => AnsweredOnce(kept, c)
  <2> HIDE DEF groups, first
  <2>1. QED
    BY <1>1, <1>3, PlainHead
<1>5. <<User>> \in Seq(Plains)
  BY MessageTypes
<1>6. CASE Compacted(h, keep, work) = kept
  BY <1>4, <1>6
<1>7. CASE Compacted(h, keep, work) = Append(kept, User)
  <2>1. Append(kept, User) = kept \o <<User>>
    BY <1>4, MessageTypes DEF WellFormed, Plains
  <2> HIDE DEF kept
  <2>2. QED
    BY <1>4, <1>5, <1>7, <2>1, PlainTail
<1>8. QED
  BY <1>6, <1>7 DEF Compacted

-----------------------------------------------------------------------------
(* Questions and answers *)

\* The Assistant message with the next n ids leaves every older answer alone
\* and opens the n calls.
LEMMA QuestionKeeps ==
    ASSUME NEW h, NEW limit \in Nat, WellFormed(h, limit), NEW n \in Nat
    PROVE  LET g == Append(h, Asks((limit + 1)..(limit + n)))
           IN  /\ WellFormed(g, limit + n)
               /\ \A c \in 1..limit : AnsweredOnce(h, c) => AnsweredOnce(g, c)
               /\ \A c \in (limit + 1)..(limit + n) : Open(g, c)
<1> DEFINE ids == (limit + 1)..(limit + n)
           q == Asks(ids)
           g == Append(h, q)
<1>1. /\ q \in Message /\ q.calls = ids /\ q.answers = NoCall /\ q.role = "assistant"
      /\ ids \in SUBSET Nat
  BY MessageTypes
<1> HIDE DEF q
<1>2. /\ h \in Seq(Message) /\ g \in Seq(Message) /\ Len(h) \in Nat /\ Len(g) = Len(h) + 1
      /\ g[Len(h) + 1] = q /\ \A i \in 1..Len(h) : g[i] = h[i]
      /\ \A i \in 1..Len(g) : i \in 1..Len(h) \/ i = Len(h) + 1
      /\ DOMAIN g = 1..Len(g) /\ DOMAIN h = 1..Len(h)
  <2>1. h \in Seq(Message)
    BY DEF WellFormed
  <2>2. /\ g \in Seq(Message) /\ Len(h) \in Nat /\ Len(g) = Len(h) + 1
        /\ g[Len(h) + 1] = q /\ \A i \in 1..Len(h) : g[i] = h[i]
    BY <1>1, <2>1
  <2> HIDE DEF g
  <2>3. DOMAIN g = 1..Len(g) /\ DOMAIN h = 1..Len(h)
    BY <2>1, <2>2
  <2>4. \A i \in 1..Len(g) : i \in 1..Len(h) \/ i = Len(h) + 1
    BY <2>2
  <2>5. QED
    BY <2>1, <2>2, <2>3, <2>4
<1>3. \A i \in 1..Len(h) : h[i].calls \subseteq 1..limit /\ h[i].answers \in 0..limit
  <2>1. ASSUME NEW i \in 1..Len(h)
        PROVE  h[i].calls \subseteq 1..limit
    BY DEF WellFormed, Shaped
  <2>2. ASSUME NEW i \in 1..Len(h)
        PROVE  h[i].answers \in 0..limit
    <3>1. CASE h[i].role = "tool"
      <4>1. PICK j \in 1..(i - 1) : Pair(h, j, i)
        BY <3>1 DEF WellFormed
      <4>2. j \in 1..Len(h)
        BY <1>2, <4>1
      <4>3. h[i].answers \in 1..limit
        BY <2>1, <4>1, <4>2 DEF Pair
      <4>4. QED
        BY <4>3
    <3>2. CASE h[i].role # "tool"
      BY <3>2 DEF WellFormed, Shaped, NoCall
    <3>3. QED
      BY <3>1, <3>2
  <2>3. QED
    BY <2>1, <2>2
<1> HIDE DEF g
<1>4. WellFormed(g, limit + n)
  <2>1. ASSUME NEW i \in 1..Len(g)
        PROVE  Shaped(g[i], limit + n)
    <3>1. CASE i \in 1..Len(h)
      <4>1. Shaped(h[i], limit) /\ g[i] = h[i]
        BY <1>2, <3>1 DEF WellFormed
      <4>2. 1..limit \subseteq 1..(limit + n)
        OBVIOUS
      <4>3. QED
        BY <4>1, <4>2 DEF Shaped
    <3>2. CASE i = Len(h) + 1
      <4>1. ids \subseteq 1..(limit + n)
        OBVIOUS
      <4>2. QED
        BY <1>1, <1>2, <3>2, <4>1 DEF Shaped
    <3>3. QED
      BY <1>2, <3>1, <3>2
  <2>2. ASSUME NEW j \in 1..Len(g), g[j].role = "tool"
        PROVE  \E i \in 1..(j - 1) : Pair(g, i, j)
    <3>1. j \in 1..Len(h) /\ h[j].role = "tool"
      BY <1>1, <1>2, <2>2
    <3>2. PICK i \in 1..(j - 1) : Pair(h, i, j)
      BY <3>1 DEF WellFormed
    <3>3. \A k \in i..j : k \in 1..Len(h) /\ g[k] = h[k]
      BY <1>2, <3>1, <3>2
    <3>4. Pair(g, i, j)
      BY <3>1, <3>2, <3>3 DEF Pair
    <3>5. QED
      BY <3>4
  <2>3. QED
    BY <1>2, <2>1, <2>2 DEF WellFormed
<1>5. ASSUME NEW c \in 1..limit, AnsweredOnce(h, c)
      PROVE  AnsweredOnce(g, c)
  <2>1. c \notin ids /\ c # 0
    OBVIOUS
  <2>2. {k \in DOMAIN g : g[k].answers = c} = {k \in DOMAIN h : h[k].answers = c}
    BY <1>1, <1>2, <2>1 DEF NoCall
  <2>3. ASSUME NEW i \in DOMAIN g, c \in g[i].calls
        PROVE  \E j \in (i + 1)..Len(g) : {k \in DOMAIN g : g[k].answers = c} = {j}
    <3>1. i \in DOMAIN h /\ c \in h[i].calls
      BY <1>1, <1>2, <2>1, <2>3
    <3>2. PICK j \in (i + 1)..Len(h) : {k \in DOMAIN h : h[k].answers = c} = {j}
      BY <1>5, <3>1 DEF AnsweredOnce
    <3>3. j \in (i + 1)..Len(g)
      BY <1>2, <3>2
    <3>4. QED
      BY <2>2, <3>2, <3>3
  <2>4. QED
    BY <2>3 DEF AnsweredOnce
<1>6. ASSUME NEW c \in ids
      PROVE  Open(g, c)
  <2>1. c \notin 0..limit
    OBVIOUS
  <2>2. \A k \in 1..Len(g) : g[k].answers # c
    BY <1>1, <1>2, <1>3, <2>1 DEF NoCall
  <2>3. Len(g) \in 1..Len(g) /\ c \in g[Len(g)].calls /\ \A k \in Len(g)..Len(g) : g[k].role # "user"
    BY <1>1, <1>2, <1>6
  <2>4. QED
    BY <2>2, <2>3 DEF Open
<1>7. QED
  BY <1>4, <1>5, <1>6 DEF g, q

-----------------------------------------------------------------------------
(* Tool calls in hand *)

Call == [id : Nat \ {0}, kind : AllKinds]
Ids(cs) == {cs[i].id : i \in 1..Len(cs)}
Distinct(cs) == \A i, j \in 1..Len(cs) : cs[i].id = cs[j].id => i = j

\* The results of open calls, one for each, answer these once and touch no
\* other call.
LEMMA AnswersKeep ==
    ASSUME NEW h, NEW limit \in Nat, WellFormed(h, limit),
           NEW cs \in Seq(Call), Distinct(cs), \A c \in Ids(cs) : Open(h, c)
    PROVE  LET g == h \o Results(cs)
           IN  /\ WellFormed(g, limit)
               /\ \A c \in Ids(cs) : AnsweredOnce(g, c)
               /\ \A c \in (Nat \ {0}) \ Ids(cs) : /\ AnsweredOnce(h, c) => AnsweredOnce(g, c)
                                                   /\ Open(h, c) => Open(g, c)
<1> DEFINE as == Results(cs)
           g == h \o as
           n == Len(h)
<1>1. /\ as \in Seq(Message) /\ Len(as) = Len(cs)
      /\ \A k \in 1..Len(cs) : /\ as[k].answers = cs[k].id /\ as[k].calls = {} /\ as[k].role = "tool"
                               /\ cs[k].id \in Nat \ {0}
  <2>1. ASSUME NEW k \in 1..Len(cs)
        PROVE  cs[k].id \in Nat \ {0}
    <3>1. cs[k] \in Call
      OBVIOUS
    <3>2. QED
      BY <3>1 DEF Call
  <2>2. /\ DOMAIN cs = 1..Len(cs) /\ Len(cs) \in Nat
        /\ as = [k \in 1..Len(cs) |-> Answers(cs[k].id)]
    BY DEF Results
  <2>3. \A k \in 1..Len(cs) : Answers(cs[k].id) \in Message
    BY <2>1, MessageTypes
  <2>4. as \in Seq(Message) /\ Len(as) = Len(cs)
    BY <2>2, <2>3
  <2>5. QED
    BY <2>1, <2>2, <2>4, MessageTypes
<1> HIDE DEF as
<1>2. /\ h \in Seq(Message) /\ n \in Nat /\ g \in Seq(Message) /\ Len(g) = n + Len(cs) /\ Len(cs) \in Nat
      /\ DOMAIN g = 1..Len(g) /\ DOMAIN h = 1..n
      /\ \A i \in 1..n : g[i] = h[i] /\ i \in 1..Len(g)
      /\ \A i \in 1..Len(g) : i > n => i - n \in 1..Len(cs) /\ g[i] = as[i - n]
      /\ \A k \in 1..Len(cs) : k + n \in 1..Len(g) /\ g[k + n] = as[k]
      /\ \A i \in 1..Len(g) : i \in 1..n \/ i > n
  <2>1. h \in Seq(Message)
    BY DEF WellFormed
  <2>2. as \in Seq(Message)
    BY <1>1
  <2>3. /\ g \in Seq(Message) /\ Len(g) = n + Len(as) /\ n \in Nat /\ Len(as) \in Nat
        /\ DOMAIN g = 1..Len(g)
        /\ \A i \in 1..n : i \in 1..Len(g) /\ g[i] = h[i]
        /\ \A i \in 1..Len(as) : i + n \in 1..Len(g) /\ g[i + n] = as[i]
        /\ \A i \in 1..Len(g) : i \in 1..n \/ i > n
        /\ \A i \in 1..Len(g) : i > n => i - n \in 1..Len(as) /\ g[i] = as[i - n]
    BY <2>1, <2>2, Joined
  <2>4. DOMAIN h = 1..n
    BY <2>1
  <2>5. Len(as) = Len(cs)
    BY <1>1
  <2> HIDE DEF g, n
  <2>6. \A i \in 1..Len(g) : i > n => i - n \in 1..Len(cs) /\ g[i] = as[i - n]
    BY <2>3, <2>5
  <2>7. QED
    BY <2>1, <2>3, <2>4, <2>5, <2>6
<1> HIDE DEF g, n
<1>3. ASSUME NEW i \in 1..Len(g), i > n
      PROVE  g[i].answers \in Ids(cs) /\ g[i].calls = {} /\ g[i].role = "tool" /\ g[i].answers # 0
  <2>1. i - n \in 1..Len(cs) /\ g[i] = as[i - n]
    BY <1>2, <1>3
  <2>2. QED
    BY <1>1, <2>1 DEF Ids
<1>4. \A c \in Ids(cs) : \E i \in 1..n : c \in h[i].calls /\ \A k \in i..n : h[k].role # "user"
  BY DEF Open, n
<1>5. ASSUME NEW i \in 1..Len(g)
      PROVE  Shaped(g[i], limit)
  <2>1. CASE i \in 1..n
    BY <1>2, <2>1 DEF WellFormed, n
  <2>2. CASE i > n
    BY <1>3, <2>2 DEF Shaped, NoCall
  <2>3. QED
    BY <1>2, <2>1, <2>2
<1>6. ASSUME NEW j \in 1..Len(g), g[j].role = "tool"
      PROVE  \E i \in 1..(j - 1) : Pair(g, i, j)
  <2>1. CASE j \in 1..n
    <3>1. PICK i \in 1..(j - 1) : Pair(h, i, j)
      BY <1>2, <1>6, <2>1 DEF WellFormed, n
    <3>2. \A k \in i..j : k \in 1..n /\ g[k] = h[k]
      <4>1. \A k \in i..j : k \in 1..n
        BY <1>2, <2>1, <3>1
      <4>2. QED
        BY <1>2, <4>1
    <3>3. Pair(g, i, j)
      BY <2>1, <3>1, <3>2 DEF Pair
    <3>4. QED
      BY <3>3
  <2>2. CASE j > n
    <3>1. PICK i \in 1..n : g[j].answers \in h[i].calls /\ \A k \in i..n : h[k].role # "user"
      BY <1>3, <1>4, <2>2
    <3>2. i \in 1..(j - 1)
      BY <1>2, <2>2, <3>1
    <3>3. ASSUME NEW k \in i..j
          PROVE  g[k].role # "user"
      <4>1. CASE k \in i..n
        BY <1>2, <3>1, <4>1
      <4>2. CASE k > n
        <5>1. k \in 1..Len(g)
          BY <1>2, <3>1, <4>2
        <5>2. QED
          BY <1>3, <4>2, <5>1
      <4>3. QED
        BY <1>2, <4>1, <4>2
    <3>4. Pair(g, i, j)
      BY <1>2, <3>1, <3>3 DEF Pair
    <3>5. QED
      BY <3>2, <3>4
  <2>3. QED
    BY <1>2, <2>1, <2>2
<1>7. WellFormed(g, limit)
  BY <1>2, <1>5, <1>6 DEF WellFormed
<1>8. ASSUME NEW c \in Ids(cs)
      PROVE  AnsweredOnce(g, c)
  <2>1. PICK m \in 1..Len(cs) : cs[m].id = c
    BY DEF Ids
  <2>2. m + n \in 1..Len(g) /\ g[m + n].answers = c
    BY <1>1, <1>2, <2>1
  <2>3. ASSUME NEW k \in DOMAIN g, g[k].answers = c
        PROVE  k = m + n
    <3>1. k > n
      BY <1>2, <2>3, <1>8 DEF Open, n
    <3>2. k - n \in 1..Len(cs) /\ cs[k - n].id = c
      BY <1>1, <1>2, <2>3, <3>1
    <3>3. k - n = m
      BY <2>1, <3>2 DEF Distinct
    <3>4. QED
      BY <1>2, <3>3
  <2>4. {k \in DOMAIN g : g[k].answers = c} = {m + n}
    BY <1>2, <2>2, <2>3
  <2>5. ASSUME NEW i \in DOMAIN g, c \in g[i].calls
        PROVE  m + n \in (i + 1)..Len(g)
    BY <1>2, <1>3, <2>1, <2>2, <2>5
  <2>6. QED
    BY <2>4, <2>5 DEF AnsweredOnce
<1>9. ASSUME NEW c \in (Nat \ {0}) \ Ids(cs)
      PROVE  /\ AnsweredOnce(h, c) => AnsweredOnce(g, c)
             /\ Open(h, c) => Open(g, c)
  <2>1. \A k \in 1..Len(g) : k > n => g[k].answers # c /\ g[k].calls = {} /\ g[k].role # "user"
    BY <1>3
  <2>2. {k \in DOMAIN g : g[k].answers = c} = {k \in DOMAIN h : h[k].answers = c}
    BY <1>2, <2>1
  <2>3. ASSUME AnsweredOnce(h, c), NEW i \in DOMAIN g, c \in g[i].calls
        PROVE  \E j \in (i + 1)..Len(g) : {k \in DOMAIN g : g[k].answers = c} = {j}
    <3>1. i \in DOMAIN h /\ c \in h[i].calls
      BY <1>2, <2>1, <2>3
    <3>2. PICK j \in (i + 1)..n : {k \in DOMAIN h : h[k].answers = c} = {j}
      BY <2>3, <3>1 DEF AnsweredOnce, n
    <3>3. j \in (i + 1)..Len(g)
      BY <1>2, <3>2
    <3>4. QED
      BY <2>2, <3>2, <3>3
  <2>4. ASSUME Open(h, c)
        PROVE  Open(g, c)
    <3>1. PICK i \in 1..n : c \in h[i].calls /\ \A k \in i..n : h[k].role # "user"
      BY <2>4 DEF Open, n
    <3>2. \A k \in i..Len(g) : k \in i..n \/ (k \in 1..Len(g) /\ k > n)
      BY <1>2, <3>1
    <3>3. \A k \in i..n : k \in 1..n /\ g[k].role # "user"
      BY <1>2, <3>1
    <3>4. i \in 1..Len(g) /\ c \in g[i].calls /\ \A k \in i..Len(g) : g[k].role # "user"
      BY <1>2, <2>1, <3>1, <3>2, <3>3
    <3>5. \A k \in 1..Len(g) : g[k].answers # c
      BY <1>2, <2>1, <2>4 DEF Open, n
    <3>6. QED
      BY <3>4, <3>5 DEF Open
  <2>5. QED
    BY <2>3, <2>4 DEF AnsweredOnce
<1>10. QED
  BY <1>7, <1>8, <1>9 DEF g, as

\* The calls of a batch that are in S.
LEMMA PartOfBatch ==
    ASSUME NEW cs \in Seq(Call), Distinct(cs), NEW S
    PROVE  /\ Only(cs, S) \in Seq(Call) /\ Distinct(Only(cs, S))
           /\ Ids(Only(cs, S)) = {cs[i].id : i \in {k \in 1..Len(cs) : cs[k] \in S}}
<1> DEFINE part == Only(cs, S)
<1>1. part \in Seq(Call \cap S) /\ \E f : Selects(f, part, cs, S, Len(cs))
  BY OnlySelects
<1>2. PICK f : Selects(f, part, cs, S, Len(cs))
  BY <1>1
<1> HIDE DEF part
<1>3. /\ \A i \in 1..Len(part) : f[i] \in 1..Len(cs) /\ part[i] = cs[f[i]] /\ cs[f[i]] \in S
      /\ \A i, j \in 1..Len(part) : i < j => f[i] < f[j]
      /\ \A k \in 1..Len(cs) : cs[k] \in S => \E i \in 1..Len(part) : f[i] = k
  BY <1>2 DEF Selects
<1>4. ASSUME NEW i \in 1..Len(part), NEW j \in 1..Len(part), part[i].id = part[j].id
      PROVE  i = j
  <2>1. f[i] = f[j] /\ f[i] \in 1..Len(cs)
    <3>1. \A a, b \in 1..Len(cs) : cs[a].id = cs[b].id => a = b
      BY DEF Distinct
    <3>2. /\ f[i] \in 1..Len(cs) /\ part[i] = cs[f[i]]
          /\ f[j] \in 1..Len(cs) /\ part[j] = cs[f[j]]
      BY <1>3
    <3>3. QED
      BY <1>4, <3>1, <3>2
  <2>2. ~(i < j) /\ ~(j < i)
    BY <1>3, <2>1
  <2>3. QED
    BY <2>2
<1>5. Ids(part) = {cs[i].id : i \in {k \in 1..Len(cs) : cs[k] \in S}}
  BY <1>3 DEF Ids
<1>6. part \in Seq(Call)
  BY <1>1
<1>7. QED
  BY <1>4, <1>5, <1>6 DEF Distinct, part

\* The calls of a batch that are not in S.
LEMMA RestOfBatch ==
    ASSUME NEW cs \in Seq(Call), Distinct(cs), NEW S
    PROVE  /\ Without(cs, S) \in Seq(Call) /\ Distinct(Without(cs, S))
           /\ Ids(Without(cs, S)) = {cs[i].id : i \in {k \in 1..Len(cs) : cs[k] \notin S}}
<1>1. DOMAIN cs = 1..Len(cs)
  OBVIOUS
<1>2. {k \in 1..Len(cs) : cs[k] \in {cs[i] : i \in DOMAIN cs} \ S} = {k \in 1..Len(cs) : cs[k] \notin S}
  BY <1>1
<1>3. QED
  BY <1>2, PartOfBatch DEF Without

\* Two lists of calls with no id in common.
LEMMA JoinedCalls ==
    ASSUME NEW a \in Seq(Call), NEW b \in Seq(Call), Distinct(a), Distinct(b), Ids(a) \cap Ids(b) = {}
    PROVE  a \o b \in Seq(Call) /\ Distinct(a \o b) /\ Ids(a \o b) = Ids(a) \cup Ids(b)
<1> DEFINE g == a \o b
<1>1. /\ g \in Seq(Call) /\ Len(g) = Len(a) + Len(b) /\ Len(a) \in Nat /\ Len(b) \in Nat
      /\ \A i \in 1..Len(a) : i \in 1..Len(g) /\ g[i] = a[i]
      /\ \A i \in 1..Len(b) : i + Len(a) \in 1..Len(g) /\ g[i + Len(a)] = b[i]
      /\ \A i \in 1..Len(g) : i \in 1..Len(a) \/ (i - Len(a) \in 1..Len(b) /\ g[i] = b[i - Len(a)])
  OBVIOUS
<1> HIDE DEF g
<1>2. /\ \A i \in 1..Len(a) : g[i] = a[i] /\ a[i].id \in Ids(a) /\ g[i].id \in Ids(g)
      /\ \A i \in 1..Len(b) : g[i + Len(a)] = b[i] /\ b[i].id \in Ids(b) /\ g[i + Len(a)].id \in Ids(g)
  BY <1>1 DEF Ids
<1>3. Ids(g) = Ids(a) \cup Ids(b)
  <2>1. ASSUME NEW x \in Ids(a) \cup Ids(b)
        PROVE  x \in Ids(g)
    <3>1. (\E i \in 1..Len(a) : x = a[i].id) \/ (\E i \in 1..Len(b) : x = b[i].id)
      BY DEF Ids
    <3>2. QED
      BY <1>2, <3>1
  <2>2. ASSUME NEW i \in 1..Len(g)
        PROVE  g[i].id \in Ids(a) \cup Ids(b)
    BY <1>1, <1>2
  <2>3. Ids(g) \subseteq Ids(a) \cup Ids(b)
    BY <2>2 DEF Ids
  <2>4. QED
    BY <2>1, <2>3
<1>4. ASSUME NEW i \in 1..Len(g), NEW j \in 1..Len(g), g[i].id = g[j].id
      PROVE  i = j
  <2>1. CASE i \in 1..Len(a) /\ j \in 1..Len(a)
    BY <1>1, <1>4, <2>1 DEF Distinct
  <2>2. CASE i \in 1..Len(a) /\ j - Len(a) \in 1..Len(b) /\ g[j] = b[j - Len(a)]
    <3>1. g[i].id \in Ids(a) /\ g[j].id \in Ids(b)
      BY <1>2, <2>2
    <3>2. QED
      BY <1>4, <3>1
  <2>3. CASE j \in 1..Len(a) /\ i - Len(a) \in 1..Len(b) /\ g[i] = b[i - Len(a)]
    <3>1. g[j].id \in Ids(a) /\ g[i].id \in Ids(b)
      BY <1>2, <2>3
    <3>2. QED
      BY <1>4, <3>1
  <2>4. CASE i - Len(a) \in 1..Len(b) /\ g[i] = b[i - Len(a)] /\ j - Len(a) \in 1..Len(b) /\ g[j] = b[j - Len(a)]
    <3>1. i - Len(a) = j - Len(a)
      BY <1>4, <2>4 DEF Distinct
    <3>2. QED
      BY <1>1, <3>1
  <2>5. QED
    BY <1>1, <2>1, <2>2, <2>3, <2>4
<1>5. QED
  BY <1>1, <1>3, <1>4 DEF Distinct, g

-----------------------------------------------------------------------------
(* The inductive invariant *)

\* Types of the variables.
TypeOK ==
    /\ pc \in {"idle", "head", "send", "batch", "calls"}
    /\ {turns, made, reads, edits, issued, base, runs} \subseteq Nat
    /\ nudged \in [shell : Nat, nudge : Nat, truncation : Nat, verbosity : Nat]
    /\ batch \in Seq(Call) /\ pending \in Seq(Call)
    /\ phase \in Phases

\* The calls of this user turn that still need their answer.
Waiting ==
    CASE pc = "batch" -> Ids(batch)
      [] pc = "calls" -> Ids(pending)
      [] OTHER        -> {}

\* Every call of this user turn is open or answered.
CallsInHand ==
    /\ Waiting \subseteq (base + 1)..issued
    /\ \A c \in Waiting : Open(messages, c)
    /\ \A c \in ((base + 1)..issued) \ Waiting : AnsweredOnce(messages, c)

\* Ids are handed out in order, and within a user turn none is forgotten.
ConversationInv ==
    /\ WellFormed(messages, issued)
    /\ Distinct(batch) /\ Distinct(pending)
    /\ base <= issued
    /\ pc # "idle" => CallsInHand

\* One user turn sends at most MaxTurns requests with tools.
TurnsInv ==
    /\ turns <= MaxTurns
    /\ pc = "idle" => turns = 0
    /\ pc = "send" => turns < MaxTurns

LoopInv == TypeOK /\ ConversationInv /\ TurnsInv
-----------------------------------------------------------------------------
(* Type correctness *)

\* The counters of the phases.
LEMMA CountIsNatural == ASSUME TypeOK, NEW kinds PROVE CountKinds(kinds) \in Nat
<1>1. Len(batch) \in Nat /\ DOMAIN batch = 1..Len(batch)
  BY DEF TypeOK
<1>2. IsFiniteSet(1..Len(batch))
  BY <1>1, FS_Interval
<1>3. IsFiniteSet({i \in DOMAIN batch : batch[i].kind \in kinds})
  BY <1>1, <1>2, FS_Subset
<1>4. QED
  BY <1>3, FS_CardinalityType DEF CountKinds

\* The smaller of two numbers.
LEMMA MinIsNatural == ASSUME NEW a \in Nat, NEW b \in Nat PROVE Min({a, b}) \in Nat
<1>1. \E x \in {a, b} : \A y \in {a, b} : x <= y
  OBVIOUS
<1>2. QED
  BY <1>1 DEF Min

\* Type correctness, initially and after each kind of action.
LEMMA TypesInit == Init => TypeOK
<1>1. <<>> \in Seq(Call) /\ InitialPhases \subseteq Phases
  BY ToolLoopAssumption
<1>2. QED
  BY <1>1 DEF Init, TypeOK, NoNudges

\* A user turn that ends, whatever the reason.
LEMMA TypesReturn ==
    ASSUME TypeOK, Return, UNCHANGED <<issued, phases, session>>
    PROVE  TypeOK'
<1>1. <<>> \in Seq(Call)
  OBVIOUS
<1>2. QED
  BY <1>1 DEF TypeOK, Return, phases, session, NoNudges

\* The four kinds of retry.
LEMMA TypesRetry ==
    ASSUME TypeOK, NEW kind \in {"shell", "nudge", "truncation", "verbosity"}, NEW tail, Retry(kind, tail)
    PROVE  TypeOK'
<1> DEFINE Nudged == [shell : Nat, nudge : Nat, truncation : Nat, verbosity : Nat]
<1>1. nudged' \in Nudged
  <2>1. nudged \in Nudged /\ nudged' = [nudged EXCEPT ![kind] = nudged[kind] + 1]
    BY DEF TypeOK, Retry
  <2>2. nudged[kind] + 1 \in Nat
    BY <2>1
  <2>3. \A n \in Nat : [nudged EXCEPT ![kind] = n] \in Nudged
    BY <2>1
  <2>4. QED
    BY <2>1, <2>2, <2>3
<1>2. turns' \in Nat
  BY DEF TypeOK, Retry
<1>3. QED
  BY <1>1, <1>2 DEF TypeOK, Retry, Goto, calls, phases, session

\* A transition leads to a phase.
LEMMA NextPhaseIsPhase ==
    ASSUME NEW r, NEW e, NEW wrote, NEW text, NEW planned, NextPhase(r, e, wrote, text, planned) # "stay"
    PROVE  NextPhase(r, e, wrote, text, planned) \in Phases
  BY DEF NextPhase, Phases

\* The calls of a response are numbered on from issued.
LEMMA TypesAsk == ASSUME TypeOK, AskForTools PROVE TypeOK'
<1>1. PICK n \in 1..MaxBatch : \E kinds \in [1..n -> Kinds] :
          /\ batch' = [i \in 1..n |-> [id |-> issued + i, kind |-> kinds[i]]]
          /\ issued' = issued + n
  BY DEF AskForTools
<1> PICK kinds \in [1..n -> Kinds] : batch' = [i \in 1..n |-> [id |-> issued + i, kind |-> kinds[i]]]
  BY <1>1
<1>2. n \in Nat /\ issued \in Nat /\ Kinds \subseteq AllKinds
  BY ToolLoopAssumption DEF TypeOK
<1>3. \A i \in 1..n : [id |-> issued + i, kind |-> kinds[i]] \in Call
  BY <1>2 DEF Call
<1>4. batch' \in Seq(Call) /\ <<>> \in Seq(Call)
  BY <1>1, <1>2, <1>3
<1>5. issued' \in Nat
  BY <1>1, <1>2
<1>6. turns' \in Nat
  <2>1. turns \in Nat
    BY DEF TypeOK
  <2>2. turns' = turns + 1
    BY DEF AskForTools
  <2>3. QED
    BY <2>1, <2>2
<1>7. QED
  BY <1>4, <1>5, <1>6 DEF TypeOK, AskForTools, Goto, phases, session

\* The parallel reads answer the calls of now and leave the calls of later.
LEMMA BatchSplits ==
    ASSUME TypeOK, Distinct(batch), RunParallelReads
    PROVE  \E now \in Seq(Call), later \in Seq(Call) :
              /\ Distinct(now) /\ Distinct(later)
              /\ Ids(now) \cap Ids(later) = {} /\ Ids(now) \cup Ids(later) = Ids(batch)
              /\ pending' = later
              /\ messages' = messages \o Results(now) \/ (now = <<>> /\ messages' = messages)
              /\ made' = made + Len(now)
<1> DEFINE readCalls == {c \in ToSet(batch) : c.kind = "read"}
           others == Without(batch, readCalls)
           IdsIn(S) == {batch[i].id : i \in {k \in 1..Len(batch) : batch[k] \in S}}
<1>1. batch \in Seq(Call) /\ ToSet(batch) = {batch[i] : i \in 1..Len(batch)}
  BY DEF TypeOK, ToSet
<1>2. /\ others \in Seq(Call) /\ Distinct(others)
      /\ Ids(others) = {batch[i].id : i \in {k \in 1..Len(batch) : batch[k] \notin readCalls}}
  <2> HIDE DEF readCalls
  <2>1. QED
    BY <1>1, RestOfBatch
<1>3. ASSUME NEW S
      PROVE  Only(batch, S) \in Seq(Call) /\ Distinct(Only(batch, S)) /\ Ids(Only(batch, S)) = IdsIn(S)
  BY <1>1, PartOfBatch
<1>4. ASSUME NEW S, NEW R, S \cap R = {}
      PROVE  IdsIn(S) \cap IdsIn(R) = {}
  BY <1>4 DEF Distinct
<1>5. ASSUME NEW S, S \subseteq readCalls
      PROVE  IdsIn(S) \cap Ids(others) = {}
  <2> HIDE DEF readCalls
  <2>1. QED
    BY <1>2, <1>5 DEF Distinct
<1>6. Ids(batch) = IdsIn(readCalls) \cup Ids(others)
  <2> HIDE DEF readCalls
  <2>1. QED
    BY <1>2 DEF Ids
<1>7. CASE Cardinality(readCalls) > 1
  <2>1. PICK deferred \in SUBSET readCalls :
            /\ messages' = messages \o Results(Only(batch, readCalls \ deferred))
            /\ made' = made + Len(Only(batch, readCalls \ deferred))
            /\ pending' = others \o Only(batch, deferred)
    BY <1>7 DEF RunParallelReads
  <2> DEFINE now == Only(batch, readCalls \ deferred)
             late == Only(batch, deferred)
  <2> HIDE DEF readCalls, others
  <2>2. /\ now \in Seq(Call) /\ Distinct(now) /\ Ids(now) = IdsIn(readCalls \ deferred)
        /\ late \in Seq(Call) /\ Distinct(late) /\ Ids(late) = IdsIn(deferred)
    BY <1>3
  <2>3. Ids(now) \cup Ids(late) = IdsIn(readCalls)
    BY <2>2
  <2> HIDE DEF now, late, IdsIn
  <2>4. Ids(late) \cap Ids(others) = {} /\ Ids(now) \cap Ids(others) = {} /\ Ids(now) \cap Ids(late) = {}
    <3>1. (readCalls \ deferred) \cap deferred = {}
      OBVIOUS
    <3>2. IdsIn(readCalls \ deferred) \cap IdsIn(deferred) = {}
      BY <1>4, <3>1
    <3>3. IdsIn(readCalls \ deferred) \cap Ids(others) = {} /\ IdsIn(deferred) \cap Ids(others) = {}
      BY <1>5
    <3>4. QED
      BY <2>2, <3>2, <3>3
  <2>5. /\ others \o late \in Seq(Call) /\ Distinct(others \o late)
        /\ Ids(others \o late) = Ids(others) \cup Ids(late)
    BY <1>2, <2>2, <2>4, JoinedCalls
  <2>6. /\ Ids(now) \cap Ids(others \o late) = {}
        /\ Ids(now) \cup Ids(others \o late) = Ids(batch)
    BY <1>6, <2>3, <2>4, <2>5
  <2>7. /\ pending' = others \o late
        /\ messages' = messages \o Results(now) /\ made' = made + Len(now)
    BY <2>1 DEF now, late
  <2>8. QED
    BY <2>2, <2>5, <2>6, <2>7
<1>8. CASE ~(Cardinality(readCalls) > 1)
  <2>1. /\ pending' = Only(batch, readCalls) \o others
        /\ messages' = messages /\ made' = made
    BY <1>8 DEF RunParallelReads
  <2> DEFINE first == Only(batch, readCalls)
  <2> HIDE DEF others
  <2>2. first \in Seq(Call) /\ Distinct(first) /\ Ids(first) = IdsIn(readCalls)
    BY <1>3
  <2>3. Ids(first) \cap Ids(others) = {}
    BY <1>5, <2>2
  <2> HIDE DEF first, IdsIn, readCalls
  <2>4. /\ first \o others \in Seq(Call) /\ Distinct(first \o others)
        /\ Ids(first \o others) = Ids(batch)
    BY <1>2, <1>6, <2>2, <2>3, JoinedCalls
  <2>5. <<>> \in Seq(Call) /\ Distinct(<<>>) /\ Ids(<<>>) = {} /\ Len(<<>>) = 0
    BY DEF Distinct, Ids
  <2>6. made' = made + Len(<<>>)
    BY <2>1, <2>5 DEF TypeOK
  <2>7. pending' = first \o others
    BY <2>1 DEF first
  <2>8. QED
    BY <2>1, <2>4, <2>5, <2>6, <2>7
<1>9. QED
  BY <1>7, <1>8

\* Each way to execute a call.
LEMMA TypesAnswerNext ==
    ASSUME TypeOK, NEW note, AnswerNext(note), pending # <<>>
    PROVE  /\ pc' = "calls" /\ {turns', made', issued', base', runs'} \subseteq Nat
           /\ nudged' \in [shell : Nat, nudge : Nat, truncation : Nat, verbosity : Nat]
           /\ batch' \in Seq(Call) /\ pending' \in Seq(Call)
<1>1. pending' \in Seq(Call)
  BY DEF TypeOK, AnswerNext
<1>2. made' \in Nat
  <2>1. made \in Nat
    BY DEF TypeOK
  <2>2. made' \in {made, made + 1}
    BY DEF AnswerNext
  <2>3. QED
    BY <2>1, <2>2
<1>3. QED
  BY <1>1, <1>2 DEF TypeOK, AnswerNext, Goto, session

\* The counters and the phase at the end of a batch.
LEMMA TypesFinish == ASSUME TypeOK, FinishBatch PROVE TypeOK'
<1> DEFINE wrote == CountKinds(Kinds \ ReadOnly)
           r == Min({ExploreReads, reads + CountKinds(ReadOnly)})
           e == Min({ExecuteEdits, edits + wrote})
           next == IF phase = "none" THEN "stay" ELSE NextPhase(r, e, wrote > 0, FALSE, FALSE)
<1>1. r \in Nat /\ e \in Nat
  <2>1. /\ CountKinds(Kinds \ ReadOnly) \in Nat /\ CountKinds(ReadOnly) \in Nat
        /\ reads \in Nat /\ edits \in Nat /\ ExploreReads \in Nat /\ ExecuteEdits \in Nat
    BY CountIsNatural, ToolLoopAssumption DEF TypeOK
  <2>2. reads + CountKinds(ReadOnly) \in Nat /\ edits + wrote \in Nat
    BY <2>1
  <2>3. QED
    BY <2>1, <2>2, MinIsNatural
<1>2. next # "stay" => next \in Phases
  BY NextPhaseIsPhase
<1>3. \/ next # "stay" /\ EnterPhase(next)
      \/ UNCHANGED phases
      \/ phase' = phase /\ reads' = r /\ edits' = e
  BY DEF FinishBatch
<1> HIDE DEF r, e, next
<1>4. reads' \in Nat /\ edits' \in Nat /\ phase' \in Phases
  BY <1>1, <1>2, <1>3 DEF EnterPhase, phases, TypeOK
<1>5. <<>> \in Seq(Call)
  OBVIOUS
<1>6. QED
  BY <1>4, <1>5 DEF FinishBatch, TypeOK, Goto, session

\* Every action preserves the types.
LEMMA TypesNext == ASSUME TypeOK, Distinct(batch), Next PROVE TypeOK'
<1>1. CASE AddUserTurn
  BY <1>1 DEF AddUserTurn, TypeOK, Goto, progress, calls, phases
<1>2. CASE SummarizeAtLimit
  BY <1>2, TypesReturn DEF SummarizeAtLimit, session
<1>3. CASE KeepContext
  BY <1>3 DEF KeepContext, TypeOK, Goto, progress, calls, phases, session
<1>4. CASE CompactContext
  BY <1>4 DEF CompactContext, TypeOK, Goto, progress, calls, phases, session
<1>5. CASE OverflowContext
  BY <1>5, TypesReturn DEF OverflowContext
<1>6. CASE RequestFails
  BY <1>6, TypesReturn DEF RequestFails
<1>7. CASE NudgeModel
  BY <1>7, TypesRetry DEF NudgeModel
<1>8. CASE RetryTruncated
  BY <1>8, TypesRetry DEF RetryTruncated
<1>9. ASSUME NEW planned \in BOOLEAN, AnswerInText(planned)
      PROVE  TypeOK'
  <2> DEFINE next == TextTransition(planned)
  <2>1. CASE next = "stay"
    BY <1>9, <2>1, TypesReturn DEF AnswerInText
  <2>2. CASE next # "stay"
    <3>1. next \in Phases
      BY <2>2, NextPhaseIsPhase DEF TextTransition
    <3>2. /\ EnterPhase(next) /\ turns' = turns + 1 /\ Goto("head")
          /\ UNCHANGED <<nudged, made, batch, pending>> /\ UNCHANGED <<issued, session>>
      BY <1>9, <2>2 DEF AnswerInText
    <3> HIDE DEF next
    <3>3. turns' \in Nat
      BY <3>2 DEF TypeOK
    <3>4. QED
      BY <3>1, <3>2, <3>3 DEF TypeOK, EnterPhase, Goto, session
  <2>3. QED
    BY <2>1, <2>2
<1>10. CASE AskForTools
  BY <1>10, TypesAsk
<1>11. CASE RunParallelReads
  <2>1. PICK now \in Seq(Call), later \in Seq(Call) : pending' = later /\ made' = made + Len(now)
    BY <1>11, BatchSplits
  <2>2. made' \in Nat /\ pending' \in Seq(Call)
    BY <2>1 DEF TypeOK
  <2>3. QED
    BY <1>11, <2>2 DEF RunParallelReads, TypeOK, Goto, phases, session
<1>12. CASE ExecuteCall
  BY <1>12, TypesAnswerNext DEF ExecuteCall, TypeOK, phases
<1>13. CASE ExecuteAgentCall
  BY <1>13, TypesAnswerNext DEF ExecuteAgentCall, TypeOK, phases
<1>14. CASE EnterPlanMode
  BY <1>14, TypesAnswerNext DEF EnterPlanMode, EnterPhase, TypeOK, Phases
<1>15. CASE ExitPlanMode
  BY <1>15, TypesAnswerNext DEF ExitPlanMode, EnterPhase, TypeOK, Phases
<1>16. CASE AgentCallFails
  BY <1>16, TypesReturn DEF AgentCallFails
<1>17. CASE StopAtDoomLoop
  BY <1>17, TypesReturn DEF StopAtDoomLoop
<1>18. CASE FinishBatch
  BY <1>18, TypesFinish
<1>19. QED
  BY <1>1, <1>2, <1>3, <1>4, <1>5, <1>6, <1>7, <1>8, <1>9, <1>10, <1>11, <1>12, <1>13, <1>14,
     <1>15, <1>16, <1>17, <1>18 DEF Next, LoopStep

-----------------------------------------------------------------------------
(* The conversation *)

\* A step that keeps every answer and has no call in hand afterwards.
LEMMA AnswersStayBetweenBatches ==
    ASSUME TypeOK, ConversationInv, pc # "idle", Waiting = {}, pc' \notin {"batch", "calls"},
           WellFormed(messages', issued'),
           \A c \in Nat \ {0} : AnsweredOnce(messages, c) => AnsweredOnce(messages', c),
           UNCHANGED <<issued, base>>, Distinct(batch'), Distinct(pending')
    PROVE  ConversationInv'
<1>1. \A c \in (base + 1)..issued : c \in Nat \ {0} /\ AnsweredOnce(messages, c)
  BY DEF ConversationInv, CallsInHand, TypeOK
<1>2. \A c \in (base' + 1)..issued' : AnsweredOnce(messages', c)
  BY <1>1
<1>3. Waiting' = {}
  BY DEF Waiting
<1>4. QED
  BY <1>2, <1>3 DEF ConversationInv, CallsInHand

\* Between two user turns only the message list matters.
LEMMA ConversationReturn ==
    ASSUME ConversationInv, Return, UNCHANGED <<issued, base>>, WellFormed(messages', issued)
    PROVE  ConversationInv'
  BY DEF Return, ConversationInv, Distinct

\* The next user turn starts with no call of its own.
LEMMA ConversationAddUserTurn ==
    ASSUME TypeOK, ConversationInv, AddUserTurn
    PROVE  ConversationInv'
<1>1. PICK anchor \in Optional(System) : messages' \in Grounded(Append(messages \o anchor, User))
  BY DEF AddUserTurn, Optional
<1>2. issued \in Nat /\ WellFormed(messages, issued) /\ messages \in Seq(Message)
  BY DEF TypeOK, ConversationInv, WellFormed
<1>3. <<>> \in Seq(Plains) /\ <<System>> \in Seq(Plains) /\ <<User>> \in Seq(Plains)
  BY MessageTypes
<1>4. anchor \in Seq(Plains)
  BY <1>3 DEF Optional
<1>5. WellFormed(messages \o anchor, issued)
  BY <1>2, <1>4, PlainTail
<1>6. Append(messages \o anchor, User) = (messages \o anchor) \o <<User>>
  BY <1>5, MessageTypes DEF WellFormed, Plains
<1>7. WellFormed(Append(messages \o anchor, User), issued)
  BY <1>2, <1>3, <1>5, <1>6, PlainTail
<1>8. WellFormed(messages', issued)
  BY <1>1, <1>2, <1>7, GroundedKeeps
<1>9. Waiting' = {} /\ (base' + 1)..issued' = {}
  BY DEF AddUserTurn, Goto, Waiting, TypeOK, calls
<1>10. QED
  BY <1>2, <1>8, <1>9 DEF AddUserTurn, ConversationInv, CallsInHand, calls

\* The retrieval that is repeated every few turns.
LEMMA RefreshedKeeps ==
    ASSUME NEW h, NEW limit \in Nat, WellFormed(h, limit), NEW g \in Refreshed(h)
    PROVE  /\ WellFormed(g, limit)
           /\ \A c \in Nat \ {0} : AnsweredOnce(h, c) => AnsweredOnce(g, c)
  BY GroundedKeeps DEF Refreshed

\* The head of an iteration: KeepContext and CompactContext.
LEMMA ConversationContext ==
    ASSUME TypeOK, ConversationInv, KeepContext \/ CompactContext
    PROVE  ConversationInv'
<1>1. issued \in Nat /\ WellFormed(messages, issued)
  BY DEF TypeOK, ConversationInv
<1>2. /\ WellFormed(messages', issued)
      /\ \A c \in Nat \ {0} : AnsweredOnce(messages, c) => AnsweredOnce(messages', c)
  <2>1. CASE KeepContext
    BY <1>1, <2>1, RefreshedKeeps DEF KeepContext
  <2>2. CASE CompactContext
    <3>1. PICK keep \in GroupStarts(messages), work \in Optional(System), files \in Optional(System) :
              messages' \in Refreshed(Compacted(messages, keep, work) \o files)
      BY <2>2 DEF CompactContext
    <3>2. /\ WellFormed(Compacted(messages, keep, work), issued)
          /\ \A c \in Nat \ {0} :
                AnsweredOnce(messages, c) => AnsweredOnce(Compacted(messages, keep, work), c)
      BY <1>1, <2>2, CompactedKeeps DEF CompactContext
    <3>3. <<>> \in Seq(Plains) /\ <<System>> \in Seq(Plains)
      BY MessageTypes
    <3>4. files \in Seq(Plains)
      BY <3>3 DEF Optional
    <3>5. /\ WellFormed(Compacted(messages, keep, work) \o files, issued)
          /\ \A c \in Nat \ {0} : AnsweredOnce(Compacted(messages, keep, work), c)
                => AnsweredOnce(Compacted(messages, keep, work) \o files, c)
      BY <1>1, <3>2, <3>4, PlainTail
    <3>6. QED
      BY <1>1, <3>1, <3>2, <3>5, RefreshedKeeps
  <2>3. QED
    BY <2>1, <2>2
<1>3. /\ pc = "head" /\ pc' = "send" /\ UNCHANGED <<issued, base>> /\ UNCHANGED <<batch, pending>>
  BY DEF KeepContext, CompactContext, Goto, calls, session
<1>4. Distinct(batch') /\ Distinct(pending') /\ Waiting = {}
  BY <1>3 DEF ConversationInv, Waiting
<1>5. QED
  BY <1>2, <1>3, <1>4, AnswersStayBetweenBatches

\* Steps that append messages without calls, outside a batch.
LEMMA ConversationAppend ==
    ASSUME TypeOK, ConversationInv, pc \in {"head", "send"}, pc' = "head",
           NEW tail \in Seq(Plains), messages' = messages \o tail,
           UNCHANGED <<issued, base, batch, pending>>
    PROVE  ConversationInv'
<1>1. issued \in Nat /\ WellFormed(messages, issued)
  BY DEF TypeOK, ConversationInv
<1>2. /\ WellFormed(messages', issued)
      /\ \A c \in Nat \ {0} : AnsweredOnce(messages, c) => AnsweredOnce(messages', c)
  BY <1>1, PlainTail
<1>3. Distinct(batch') /\ Distinct(pending') /\ Waiting = {}
  BY DEF ConversationInv, Waiting
<1>4. QED
  BY <1>2, <1>3, AnswersStayBetweenBatches

\* Messages recorded one after the other are recorded together.
LEMMA MessagesRegrouped ==
    \A a, b, c \in Seq(Message) : (a \o b) \o c = a \o (b \o c)
  BY Regrouped

\* What is recorded between questions and answers has no ids, and what is
\* recorded inside a batch is no User message.
LEMMA NotesArePlain ==
    /\ <<>> \in Seq(Plains) /\ <<System>> \in Seq(Plains) /\ <<User>> \in Seq(Plains)
    /\ <<Text>> \in Seq(Plains) /\ <<Text, User>> \in Seq(Plains)
    /\ \A m \in Optional(System) : m \in Seq(Plains) /\ \A i \in 1..Len(m) : m[i].role # "user"
    /\ \A m \in Optional(Text) : m \in Seq(Plains)
    /\ \A p : /\ Announcement(p) \in Seq(Plains)
              /\ \A i \in 1..Len(Announcement(p)) : Announcement(p)[i].role # "user"
    /\ Reminder \in Seq(Plains)
<1>1. /\ <<>> \in Seq(Plains) /\ <<System>> \in Seq(Plains) /\ <<User>> \in Seq(Plains)
      /\ <<Text>> \in Seq(Plains) /\ <<Text, User>> \in Seq(Plains)
  BY MessageTypes
<1>2. /\ \A i \in 1..Len(<<>>) : <<>>[i].role # "user"
      /\ \A i \in 1..Len(<<System>>) : <<System>>[i].role # "user"
  BY MessageTypes
<1>3. \A m \in Optional(System) : m \in Seq(Plains) /\ \A i \in 1..Len(m) : m[i].role # "user"
  BY <1>1, <1>2 DEF Optional
<1>4. \A p : Announcement(p) \in Optional(System)
  BY DEF Announcement, Optional
<1>5. \A p : /\ Announcement(p) \in Seq(Plains)
            /\ \A i \in 1..Len(Announcement(p)) : Announcement(p)[i].role # "user"
  BY <1>3, <1>4
<1>6. \A m \in Optional(Text) : m \in Seq(Plains)
  BY <1>1 DEF Optional
<1>7. Reminder \in Seq(Plains)
  BY <1>1 DEF Reminder
<1>8. QED
  BY <1>1, <1>3, <1>5, <1>6, <1>7

\* NudgeModel, RetryTruncated and a text.
LEMMA ConversationRetry ==
    ASSUME TypeOK, ConversationInv, NEW kind, NEW tail \in Seq(Plains), Retry(kind, tail)
    PROVE  ConversationInv'
  BY ConversationAppend DEF Retry, Goto, calls, session

\* A text ends the user turn or one of the phases.
LEMMA ConversationText ==
    ASSUME TypeOK, ConversationInv, NEW planned \in BOOLEAN, AnswerInText(planned)
    PROVE  ConversationInv'
<1> DEFINE next == TextTransition(planned)
<1>1. Append(messages, Text) = messages \o <<Text>>
  BY MessageTypes DEF ConversationInv, WellFormed, Plains
<1>2. issued \in Nat /\ WellFormed(messages, issued) /\ messages \in Seq(Message)
  BY DEF TypeOK, ConversationInv, WellFormed
<1>3. CASE next = "stay"
  <2>1. messages' = messages \o <<Text>> /\ Return /\ UNCHANGED <<issued, base>>
    BY <1>1, <1>3 DEF AnswerInText, session
  <2>2. <<Text>> \in Seq(Plains)
    BY NotesArePlain
  <2>3. WellFormed(messages \o <<Text>>, issued)
    BY <1>2, <2>2, PlainTail
  <2>4. QED
    BY <2>1, <2>3, ConversationReturn
<1>4. CASE next # "stay"
  <2>1. /\ messages' = (messages \o <<Text>>) \o Announcement(next)
        /\ pc = "send" /\ pc' = "head" /\ UNCHANGED <<issued, base, batch, pending>>
    BY <1>1, <1>4 DEF AnswerInText, Goto, session
  <2> HIDE DEF next
  <2>2. <<Text>> \in Seq(Plains) /\ Announcement(next) \in Seq(Plains)
    BY NotesArePlain
  <2>3. /\ <<Text>> \o Announcement(next) \in Seq(Plains)
        /\ messages' = messages \o (<<Text>> \o Announcement(next))
    <3>1. <<Text>> \in Seq(Message) /\ Announcement(next) \in Seq(Message)
      BY <2>2 DEF Plains
    <3>2. QED
      BY <1>2, <2>1, <2>2, <3>1
  <2>4. QED
    BY <2>1, <2>3, ConversationAppend
<1>5. QED
  BY <1>3, <1>4

\* The calls of the response are the ones in hand.
LEMMA ConversationAsk ==
    ASSUME TypeOK, ConversationInv, AskForTools
    PROVE  ConversationInv'
<1>1. PICK n \in 1..MaxBatch : \E kinds \in [1..n -> Kinds] :
          /\ batch' = [i \in 1..n |-> [id |-> issued + i, kind |-> kinds[i]]]
          /\ issued' = issued + n
          /\ messages' = Append(messages, Asks((issued + 1)..(issued + n)))
  BY DEF AskForTools
<1>2. n \in Nat /\ issued \in Nat /\ base \in Nat /\ WellFormed(messages, issued) /\ issued' = issued + n
  BY <1>1, ToolLoopAssumption DEF TypeOK, ConversationInv
<1>3. /\ pc' = "batch" /\ base' = base /\ pending' = <<>> /\ Waiting = {} /\ pc = "send"
  BY DEF AskForTools, Goto, session, Waiting
<1>4. Distinct(batch') /\ Ids(batch') = (issued + 1)..issued'
  <2>1. PICK kinds \in [1..n -> Kinds] : batch' = [i \in 1..n |-> [id |-> issued + i, kind |-> kinds[i]]]
    BY <1>1
  <2>2. Len(batch') = n /\ \A i \in 1..n : batch'[i].id = issued + i
    BY <1>2, <2>1
  <2>3. Distinct(batch')
    BY <1>2, <2>2 DEF Distinct
  <2>4. ASSUME NEW c \in (issued + 1)..(issued + n)
        PROVE  c \in Ids(batch')
    <3>1. c - issued \in 1..n /\ batch'[c - issued].id = c
      BY <1>2, <2>2
    <3>2. QED
      BY <2>2, <3>1 DEF Ids
  <2>5. Ids(batch') \subseteq (issued + 1)..(issued + n)
    BY <1>2, <2>2 DEF Ids
  <2>6. QED
    BY <1>2, <2>3, <2>4, <2>5
<1>5. /\ WellFormed(messages', issued')
      /\ \A c \in 1..issued : AnsweredOnce(messages, c) => AnsweredOnce(messages', c)
      /\ \A c \in (issued + 1)..issued' : Open(messages', c)
  <2> DEFINE g == Append(messages, Asks((issued + 1)..(issued + n)))
  <2>1. /\ WellFormed(g, issued + n)
        /\ \A c \in 1..issued : AnsweredOnce(messages, c) => AnsweredOnce(g, c)
        /\ \A c \in (issued + 1)..(issued + n) : Open(g, c)
    BY <1>2, QuestionKeeps
  <2>2. messages' = g
    BY <1>1
  <2> HIDE DEF g
  <2>3. QED
    BY <1>2, <2>1, <2>2
<1>6. Waiting' = (issued + 1)..issued'
  BY <1>3, <1>4 DEF Waiting
<1>7. base <= issued /\ base' <= issued'
  BY <1>2, <1>3 DEF ConversationInv
<1>8. CallsInHand'
  <2>1. \A c \in (base + 1)..issued : AnsweredOnce(messages, c) /\ c \in 1..issued
    BY <1>2, <1>3 DEF ConversationInv, CallsInHand
  <2>2. \A c \in ((base + 1)..issued') \ Waiting' : c \in (base + 1)..issued
    BY <1>2, <1>6
  <2>3. \A c \in ((base' + 1)..issued') \ Waiting' : AnsweredOnce(messages', c)
    BY <1>3, <1>5, <2>1, <2>2
  <2>4. Waiting' \subseteq (base' + 1)..issued'
    BY <1>2, <1>3, <1>6, <1>7
  <2>5. \A c \in Waiting' : Open(messages', c)
    BY <1>5, <1>6
  <2>6. QED
    BY <2>3, <2>4, <2>5 DEF CallsInHand
<1>9. Distinct(pending')
  BY <1>3 DEF Distinct
<1>10. QED
  BY <1>4, <1>5, <1>7, <1>8, <1>9 DEF ConversationInv

\* The parallel reads are answered, the others and the deferred wait.
LEMMA ConversationReads ==
    ASSUME TypeOK, ConversationInv, RunParallelReads
    PROVE  ConversationInv'
<1>1. PICK now \in Seq(Call), later \in Seq(Call) :
          /\ Distinct(now) /\ Distinct(later)
          /\ Ids(now) \cap Ids(later) = {} /\ Ids(now) \cup Ids(later) = Ids(batch)
          /\ pending' = later
          /\ messages' = messages \o Results(now) \/ (now = <<>> /\ messages' = messages)
  BY BatchSplits DEF ConversationInv
<1>2. /\ issued \in Nat /\ base \in Nat /\ WellFormed(messages, issued) /\ base <= issued
      /\ pc = "batch" /\ pc' = "calls" /\ UNCHANGED <<issued, base, batch>>
      /\ Waiting = Ids(batch) /\ CallsInHand
  BY DEF TypeOK, ConversationInv, RunParallelReads, Goto, session, Waiting
<1>3. Waiting' = Ids(later)
  BY <1>1, <1>2 DEF Waiting
<1>4. \A c \in Ids(now) : Open(messages, c)
  BY <1>1, <1>2 DEF CallsInHand
<1>5. /\ WellFormed(messages', issued)
      /\ \A c \in Ids(now) : AnsweredOnce(messages', c)
      /\ \A c \in (Nat \ {0}) \ Ids(now) : /\ AnsweredOnce(messages, c) => AnsweredOnce(messages', c)
                                           /\ Open(messages, c) => Open(messages', c)
  <2>1. CASE messages' = messages \o Results(now)
    BY <1>1, <1>2, <1>4, <2>1, AnswersKeep
  <2>2. CASE now = <<>> /\ messages' = messages
    <3>1. Ids(now) = {}
      BY <2>2 DEF Ids
    <3>2. QED
      BY <1>2, <2>2, <3>1
  <2>3. QED
    BY <1>1, <2>1, <2>2
<1>6. \A c \in (base + 1)..issued : c \in Nat \ {0}
  BY <1>2
<1>7. Waiting' \subseteq (base + 1)..issued /\ Ids(now) \subseteq (base + 1)..issued
  BY <1>1, <1>2, <1>3 DEF CallsInHand
<1>8. ASSUME NEW c \in ((base + 1)..issued) \ Ids(later)
      PROVE  AnsweredOnce(messages', c)
  <2>1. CASE c \in Ids(now)
    BY <1>5, <2>1
  <2>2. CASE c \notin Ids(now)
    <3>1. c \notin Ids(batch)
      BY <1>1, <2>2
    <3>2. AnsweredOnce(messages, c)
      BY <1>2, <3>1 DEF CallsInHand
    <3>3. QED
      BY <1>5, <1>6, <2>2, <3>2
  <2>3. QED
    BY <2>1, <2>2
<1>9. ASSUME NEW c \in Ids(later)
      PROVE  Open(messages', c)
  <2>1. Open(messages, c) /\ c \in (base + 1)..issued /\ c \notin Ids(now)
    BY <1>1, <1>2 DEF CallsInHand
  <2>2. QED
    BY <1>5, <1>6, <2>1
<1>10. CallsInHand'
  BY <1>2, <1>3, <1>7, <1>8, <1>9 DEF CallsInHand
<1>11. Distinct(batch')
  BY <1>2 DEF ConversationInv
<1>12. QED
  BY <1>1, <1>2, <1>5, <1>10, <1>11 DEF ConversationInv

\* The calls left are those of the tail of pending.
LEMMA RestOfCalls ==
    ASSUME NEW cs \in Seq(Call), Distinct(cs), cs # <<>>
    PROVE  /\ <<Head(cs)>> \in Seq(Call) /\ Distinct(<<Head(cs)>>) /\ Head(cs).id \in Nat \ {0}
           /\ Ids(<<Head(cs)>>) = {Head(cs).id}
           /\ Results(<<Head(cs)>>) = <<Answers(Head(cs).id)>>
           /\ Tail(cs) \in Seq(Call) /\ Distinct(Tail(cs))
           /\ Ids(cs) = Ids(Tail(cs)) \cup {Head(cs).id} /\ Head(cs).id \notin Ids(Tail(cs))
<1>1. Len(cs) \in Nat /\ Len(cs) > 0 /\ Head(cs) = cs[1] /\ cs[1] \in Call
  OBVIOUS
<1>2. /\ Tail(cs) \in Seq(Call) /\ Len(Tail(cs)) = Len(cs) - 1
      /\ \A i \in 1..Len(Tail(cs)) : i + 1 \in 1..Len(cs) /\ Tail(cs)[i] = cs[i + 1]
  BY <1>1
<1>3. Distinct(Tail(cs))
  BY <1>1, <1>2 DEF Distinct
<1>4. \A i \in 1..Len(cs) : i = 1 \/ (i - 1 \in 1..Len(Tail(cs)) /\ Tail(cs)[i - 1] = cs[i])
  BY <1>1, <1>2
<1>5. Ids(cs) = Ids(Tail(cs)) \cup {Head(cs).id}
  <2>1. ASSUME NEW i \in 1..Len(cs)
        PROVE  cs[i].id \in Ids(Tail(cs)) \cup {Head(cs).id}
    BY <1>1, <1>4 DEF Ids
  <2>2. ASSUME NEW i \in 1..Len(Tail(cs))
        PROVE  Tail(cs)[i].id \in Ids(cs)
    BY <1>2 DEF Ids
  <2>3. Head(cs).id \in Ids(cs)
    BY <1>1 DEF Ids
  <2>4. Ids(cs) \subseteq Ids(Tail(cs)) \cup {Head(cs).id}
    BY <2>1 DEF Ids
  <2>5. Ids(Tail(cs)) \subseteq Ids(cs)
    BY <2>2 DEF Ids
  <2>6. QED
    BY <2>3, <2>4, <2>5
<1>6. Head(cs).id \notin Ids(Tail(cs))
  <2>1. ASSUME NEW i \in 1..Len(Tail(cs)), Tail(cs)[i].id = cs[1].id
        PROVE  FALSE
    BY <1>1, <1>2, <2>1 DEF Distinct
  <2>2. QED
    BY <1>1, <2>1 DEF Ids
<1>7. /\ <<Head(cs)>> \in Seq(Call) /\ Len(<<Head(cs)>>) = 1 /\ <<Head(cs)>>[1] = Head(cs)
      /\ DOMAIN <<Head(cs)>> = {1} /\ 1..1 = {1}
  BY <1>1
<1>8. Distinct(<<Head(cs)>>) /\ Ids(<<Head(cs)>>) = {Head(cs).id}
  BY <1>7 DEF Distinct, Ids
<1>9. Results(<<Head(cs)>>) = <<Answers(Head(cs).id)>>
  BY <1>7 DEF Results
<1>10. Head(cs).id \in Nat \ {0}
  BY <1>1 DEF Call
<1>11. QED
  BY <1>2, <1>3, <1>5, <1>6, <1>7, <1>8, <1>9, <1>10

\* Each way to execute a call: the note may be recorded before the answer.
LEMMA ConversationAnswer ==
    ASSUME TypeOK, ConversationInv, pc = "calls", pending # <<>>,
           NEW note \in Seq(Plains), \A i \in 1..Len(note) : note[i].role # "user", AnswerNext(note)
    PROVE  ConversationInv'
<1> DEFINE call == Head(pending)
           h == messages \o note
<1>1. /\ issued \in Nat /\ base \in Nat /\ WellFormed(messages, issued) /\ base <= issued
      /\ pc' = "calls" /\ UNCHANGED <<issued, base, batch>>
      /\ Waiting = Ids(pending) /\ CallsInHand
      /\ pending \in Seq(Call) /\ Distinct(pending)
  BY DEF TypeOK, ConversationInv, AnswerNext, Goto, session, Waiting
<1>2. /\ <<call>> \in Seq(Call) /\ Distinct(<<call>>) /\ call.id \in Nat \ {0}
      /\ Ids(<<call>>) = {call.id}
      /\ Results(<<call>>) = <<Answers(call.id)>>
      /\ Distinct(Tail(pending))
      /\ Ids(pending) = Ids(Tail(pending)) \cup {call.id} /\ call.id \notin Ids(Tail(pending))
  BY <1>1, RestOfCalls
<1>3. messages' = h \o Results(<<call>>) /\ pending' = Tail(pending)
  <2>1. messages \in Seq(Message) /\ note \in Seq(Message) /\ <<Answers(call.id)>> \in Seq(Message)
    BY <1>1, <1>2, MessageTypes DEF WellFormed, Plains
  <2>2. QED
    BY <1>2, <2>1 DEF AnswerNext
<1>4. Waiting' = Ids(Tail(pending))
  BY <1>1, <1>3 DEF Waiting
<1>5. /\ WellFormed(h, issued)
      /\ \A c \in Nat \ {0} : /\ AnsweredOnce(messages, c) => AnsweredOnce(h, c)
                              /\ Open(messages, c) => Open(h, c)
  BY <1>1, PlainTail
<1>6. \A c \in (base + 1)..issued : c \in Nat \ {0}
  BY <1>1
<1>7. Ids(pending) \subseteq (base + 1)..issued /\ \A c \in Ids(pending) : Open(messages, c)
  BY <1>1 DEF CallsInHand
<1>8. \A c \in ((base + 1)..issued) \ Ids(pending) : AnsweredOnce(messages, c)
  BY <1>1 DEF CallsInHand
<1> HIDE DEF call, h
<1>9. \A c \in Ids(<<call>>) : Open(h, c)
  BY <1>2, <1>5, <1>7
<1>10. /\ WellFormed(messages', issued)
       /\ AnsweredOnce(messages', call.id)
       /\ \A c \in (Nat \ {0}) \ {call.id} : /\ AnsweredOnce(h, c) => AnsweredOnce(messages', c)
                                             /\ Open(h, c) => Open(messages', c)
  BY <1>1, <1>2, <1>3, <1>5, <1>9, AnswersKeep
<1>11. Waiting' \subseteq (base' + 1)..issued' /\ \A c \in Waiting' : Open(messages', c)
  BY <1>1, <1>2, <1>4, <1>5, <1>6, <1>7, <1>10
<1>12. \A c \in ((base' + 1)..issued') \ Waiting' : AnsweredOnce(messages', c)
  BY <1>1, <1>2, <1>4, <1>5, <1>6, <1>8, <1>10
<1>13. CallsInHand'
  BY <1>11, <1>12 DEF CallsInHand
<1>14. Distinct(pending') /\ Distinct(batch')
  BY <1>1, <1>2, <1>3 DEF ConversationInv
<1>15. QED
  BY <1>1, <1>10, <1>13, <1>14 DEF ConversationInv

\* The guidance at the end of a batch: no call is in hand.
LEMMA ConversationFinish ==
    ASSUME TypeOK, ConversationInv, FinishBatch
    PROVE  ConversationInv'
<1>1. PICK guidance \in Optional(System) : \E p :
          messages' = messages \o guidance \o (IF p = "stay" THEN <<>> ELSE Announcement(p)) \o Reminder
  BY DEF FinishBatch
<1> PICK p : messages' = messages \o guidance \o (IF p = "stay" THEN <<>> ELSE Announcement(p)) \o Reminder
  BY <1>1
<1> DEFINE announced == IF p = "stay" THEN <<>> ELSE Announcement(p)
           tail == guidance \o announced \o Reminder
<1>2. /\ guidance \in Seq(Plains) /\ announced \in Seq(Plains) /\ Reminder \in Seq(Plains)
  BY NotesArePlain
<1>3. issued \in Nat /\ WellFormed(messages, issued) /\ messages \in Seq(Message)
  BY DEF TypeOK, ConversationInv, WellFormed
<1>4. messages' = messages \o guidance \o announced \o Reminder
  OBVIOUS
<1> HIDE DEF announced
<1>5. messages' = messages \o tail /\ tail \in Seq(Plains)
  <2>1. guidance \in Seq(Message) /\ announced \in Seq(Message) /\ Reminder \in Seq(Message)
    BY <1>2 DEF Plains
  <2>2. guidance \o announced \in Seq(Plains) /\ guidance \o announced \in Seq(Message)
    BY <1>2, <2>1
  <2>3. tail \in Seq(Plains)
    BY <1>2, <2>2
  <2>4. messages' = messages \o (guidance \o announced) \o Reminder
    <3>1. (messages \o guidance) \o announced = messages \o (guidance \o announced)
      BY <1>3, <2>1, MessagesRegrouped
    <3>2. QED
      BY <1>4, <3>1
  <2>5. messages' = messages \o tail
    <3>1. messages \o (guidance \o announced) \o Reminder = messages \o ((guidance \o announced) \o Reminder)
      BY <1>3, <2>1, <2>2, MessagesRegrouped
    <3>2. QED
      BY <2>4, <3>1
  <2>6. QED
    BY <2>3, <2>5
<1>6. /\ WellFormed(messages', issued)
      /\ \A c \in Nat \ {0} : AnsweredOnce(messages, c) => AnsweredOnce(messages', c)
  <2> HIDE DEF tail
  <2>1. QED
    BY <1>3, <1>5, PlainTail
<1>7. /\ pc = "calls" /\ pending = <<>> /\ pc' = "head" /\ batch' = <<>>
      /\ UNCHANGED <<issued, base, pending>>
  BY DEF FinishBatch, Goto, session
<1>8. Waiting = {} /\ Distinct(batch') /\ Distinct(pending')
  BY <1>7 DEF Waiting, Ids, Distinct
<1>9. QED
  BY <1>6, <1>7, <1>8, AnswersStayBetweenBatches

\* Every action preserves the invariant of the conversation.
LEMMA ConversationNext ==
    ASSUME TypeOK, ConversationInv, Next
    PROVE  ConversationInv'
<1>1. issued \in Nat /\ WellFormed(messages, issued) /\ messages \in Seq(Message)
  BY DEF TypeOK, ConversationInv, WellFormed
<1>2. CASE AddUserTurn
  BY <1>2, ConversationAddUserTurn
<1>3. CASE SummarizeAtLimit
  <2>1. /\ <<System>> \in Seq(Plains)
        /\ messages' = messages \o <<System>>
    BY <1>1, <1>3, NotesArePlain, MessageTypes DEF SummarizeAtLimit, Plains
  <2>2. WellFormed(messages', issued)
    BY <1>1, <2>1, PlainTail
  <2>3. QED
    BY <1>3, <2>2, ConversationReturn DEF SummarizeAtLimit, session
<1>4. CASE KeepContext \/ CompactContext
  BY <1>4, ConversationContext
<1>5. CASE OverflowContext \/ StopAtDoomLoop
  <2>1. WellFormed(<<>>, issued)
    BY DEF WellFormed
  <2>2. QED
    BY <1>5, <2>1, ConversationReturn DEF OverflowContext, StopAtDoomLoop, session
<1>6. CASE RequestFails \/ AgentCallFails
  BY <1>1, <1>6, ConversationReturn DEF RequestFails, AgentCallFails, session
<1>7. CASE NudgeModel
  BY <1>7, ConversationRetry, NotesArePlain DEF NudgeModel
<1>8. CASE RetryTruncated
  <2>1. PICK partial \in Optional(Text) : Retry("truncation", <<System>> \o partial)
    BY <1>8 DEF RetryTruncated
  <2>2. <<System>> \in Seq(Plains) /\ partial \in Seq(Plains)
    BY NotesArePlain
  <2>3. <<System>> \o partial \in Seq(Plains)
    BY <2>2
  <2>4. QED
    BY <2>1, <2>3, ConversationRetry
<1>9. ASSUME NEW planned \in BOOLEAN, AnswerInText(planned)
      PROVE  ConversationInv'
  BY <1>9, ConversationText
<1>10. CASE AskForTools
  BY <1>10, ConversationAsk
<1>11. CASE RunParallelReads
  BY <1>11, ConversationReads
<1>12. CASE ExecuteCall
  <2>1. PICK tripped \in Optional(System) : AnswerNext(tripped)
    BY <1>12 DEF ExecuteCall
  <2>2. QED
    BY <1>12, <2>1, NotesArePlain, ConversationAnswer DEF ExecuteCall
<1>13. CASE ExecuteAgentCall \/ ExitPlanMode
  <2>1. /\ <<>> \in Seq(Plains) /\ \A i \in 1..Len(<<>>) : <<>>[i].role # "user"
        /\ AnswerNext(<<>>) /\ pc = "calls" /\ pending # <<>>
    BY <1>13, NotesArePlain DEF ExecuteAgentCall, ExitPlanMode
  <2>2. QED
    BY <2>1, ConversationAnswer
<1>14. CASE EnterPlanMode
  BY <1>14, NotesArePlain, ConversationAnswer DEF EnterPlanMode
<1>15. CASE FinishBatch
  BY <1>15, ConversationFinish
<1>16. QED
  BY <1>2, <1>3, <1>4, <1>5, <1>6, <1>7, <1>8, <1>9, <1>10, <1>11, <1>12, <1>13, <1>14, <1>15
     DEF Next, LoopStep

\* Every action preserves the bound on the turns.
LEMMA TurnsNext ==
    ASSUME TypeOK, TurnsInv, Next
    PROVE  TurnsInv'
<1>1. turns \in Nat /\ MaxTurns \in Nat
  BY ToolLoopAssumption DEF TypeOK
<1>2. CASE turns' = turns /\ (pc' = "idle" => pc = "idle") /\ (pc' = "send" => turns < MaxTurns)
  BY <1>1, <1>2 DEF TurnsInv
<1>3. CASE Return
  BY <1>1, <1>3 DEF Return, TurnsInv
<1>4. CASE pc = "send" /\ turns' = turns + 1 /\ pc' \in {"head", "batch"}
  BY <1>1, <1>4 DEF TurnsInv
<1>5. CASE AddUserTurn
  BY <1>1, <1>5 DEF AddUserTurn, TurnsInv, Goto, progress
<1>6. CASE SummarizeAtLimit \/ OverflowContext \/ RequestFails \/ AgentCallFails \/ StopAtDoomLoop
  BY <1>3, <1>6 DEF SummarizeAtLimit, OverflowContext, RequestFails, AgentCallFails, StopAtDoomLoop
<1>7. CASE KeepContext \/ CompactContext
  BY <1>1, <1>2, <1>7 DEF KeepContext, CompactContext, Goto, progress
<1>8. CASE NudgeModel \/ RetryTruncated
  BY <1>4, <1>8 DEF NudgeModel, RetryTruncated, Retry, Goto
<1>9. ASSUME NEW planned \in BOOLEAN, AnswerInText(planned)
      PROVE  TurnsInv'
  BY <1>3, <1>4, <1>9 DEF AnswerInText, Goto
<1>10. CASE AskForTools
  BY <1>4, <1>10 DEF AskForTools, Goto
<1>11. CASE RunParallelReads
  BY <1>2, <1>11 DEF RunParallelReads, Goto
<1>12. CASE ExecuteCall \/ ExecuteAgentCall \/ EnterPlanMode \/ ExitPlanMode
  BY <1>2, <1>12 DEF ExecuteCall, ExecuteAgentCall, EnterPlanMode, ExitPlanMode, AnswerNext, Goto
<1>13. CASE FinishBatch
  BY <1>2, <1>13 DEF FinishBatch, Goto
<1>14. QED
  BY <1>5, <1>6, <1>7, <1>8, <1>9, <1>10, <1>11, <1>12, <1>13 DEF Next, LoopStep

\* The invariant holds initially.
LEMMA InvInit == Init => LoopInv
<1> SUFFICES ASSUME Init PROVE LoopInv
  OBVIOUS
<1>1. TypeOK
  BY TypesInit
<1>2. WellFormed(<<>>, 0)
  BY DEF WellFormed
<1>3. /\ <<>> \o <<System>> = <<System>> /\ <<>> \o <<System, User, Text>> = <<System, User, Text>>
      /\ <<System>> \in Seq(Plains) /\ <<System, User, Text>> \in Seq(Plains)
  BY MessageTypes
<1>4. WellFormed(messages, issued)
  BY <1>2, <1>3, PlainTail DEF Init
<1>5. ConversationInv
  BY <1>4 DEF Init, ConversationInv, Distinct
<1>6. TurnsInv
  BY ToolLoopAssumption DEF Init, TurnsInv
<1>7. QED
  BY <1>1, <1>5, <1>6 DEF LoopInv

\* Every step preserves the invariant.
LEMMA InvNext == LoopInv /\ [Next]_vars => LoopInv'
<1> SUFFICES ASSUME LoopInv, [Next]_vars PROVE LoopInv'
  OBVIOUS
<1>1. CASE Next
  BY <1>1, TypesNext, ConversationNext, TurnsNext DEF LoopInv, ConversationInv
<1>2. CASE UNCHANGED vars
  BY <1>2 DEF vars, progress, calls, phases, session, LoopInv, TypeOK, ConversationInv, CallsInHand,
              Waiting, TurnsInv
<1>3. QED
  BY <1>1, <1>2

-----------------------------------------------------------------------------
(* Theorems *)

\* The types, the conversation and the turns of tool_loop stay as LoopInv
\* describes them, for any limits, batches and user turns.
THEOREM LoopInvHolds == Spec => []LoopInv
  BY InvInit, InvNext, PTL DEF Spec

\* Whatever mixture of parallel reads, deferred reads, refusals, agent-level
\* tools, compactions and retrievals a user turn goes through, the request that
\* execute_loop sends next has exactly one answer to each of its calls.
THEOREM CallsAreAnsweredOnce == Spec => []CallsAnsweredOnce
<1>1. LoopInv => CallsAnsweredOnce
  BY DEF LoopInv, ConversationInv, CallsInHand, Waiting, CallsAnsweredOnce
<1>2. QED
  BY <1>1, LoopInvHolds, PTL

\* inject_retrieval_context, compact_messages and the returns in the middle of
\* a batch never leave a Tool message without its Assistant message.
THEOREM ResultsHaveTheirQuestion == Spec => []NoOrphanResults
<1>1. LoopInv => NoOrphanResults
  BY WellFormedNoOrphans DEF LoopInv, ConversationInv, NoOrphanResults
<1>2. QED
  BY <1>1, LoopInvHolds, PTL

\* The order of the phases.
LEMMA RankOfPhases ==
    /\ Rank["none"] = 0 /\ Rank["Explore"] = 1 /\ Rank["Plan"] = 2 /\ Rank["Execute"] = 3
    /\ Rank["Verify"] = 4
  BY DEF Rank, Phases

\* check_phase_transition never goes back.
LEMMA NextPhaseIsLater ==
    ASSUME phase \in Phases, NEW r, NEW e, NEW wrote, NEW text, NEW planned,
           NextPhase(r, e, wrote, text, planned) # "stay"
    PROVE  Rank[phase] <= Rank[NextPhase(r, e, wrote, text, planned)]
  BY RankOfPhases DEF NextPhase, Phases

\* Only enter_plan_mode and exit_plan_mode lead apply_phase_transition back to
\* the Plan phase.
THEOREM PhasesOnlyGoForward == Spec => PhasesGoForward
<1> DEFINE Forward == EnterPlanMode \/ ExitPlanMode \/ Rank[phase] <= Rank[phase']
<1>1. ASSUME LoopInv, [Next]_vars
      PROVE  [Forward]_vars
  <2>1. phase \in Phases /\ Rank[phase] <= Rank[phase]
    BY <1>1, RankOfPhases DEF LoopInv, TypeOK, Phases
  <2>2. CASE phase' = phase
    BY <2>1, <2>2
  <2>3. CASE phase' # phase /\ ~EnterPlanMode /\ ~ExitPlanMode
    <3>1. ASSUME NEW planned \in BOOLEAN, AnswerInText(planned)
          PROVE  Forward
      <4>1. TextTransition(planned) # "stay" /\ phase' = TextTransition(planned)
        BY <2>3, <3>1 DEF AnswerInText, EnterPhase, phases
      <4>2. TextTransition(planned) = NextPhase(reads, edits, FALSE, TRUE, planned)
        BY <4>1 DEF TextTransition
      <4>3. QED
        BY <2>1, <4>1, <4>2, NextPhaseIsLater
    <3>2. CASE FinishBatch
      <4>1. \E r, e, wrote, text, planned :
                /\ NextPhase(r, e, wrote, text, planned) # "stay"
                /\ phase' = NextPhase(r, e, wrote, text, planned)
        BY <2>3, <3>2 DEF FinishBatch, EnterPhase, phases
      <4>2. QED
        BY <2>1, <4>1, NextPhaseIsLater
    <3>3. QED
      BY <1>1, <2>3, <3>1, <3>2
         DEF Next, LoopStep, AddUserTurn, SummarizeAtLimit, KeepContext, CompactContext, OverflowContext,
             RequestFails, NudgeModel, RetryTruncated, Retry, AskForTools, RunParallelReads, ExecuteCall,
             ExecuteAgentCall, AgentCallFails, StopAtDoomLoop, phases, vars
  <2>4. QED
    BY <2>2, <2>3
<1>2. QED
  BY <1>1, LoopInvHolds, PTL DEF Spec, PhasesGoForward

\* execute_loop does the steps of BoundedRun: a user turn sends at most
\* MaxTurns requests with tools, however responses, retries and phases mix.
\* (That it returns is the part of ImplementsBoundedRun left to TLC.)
THEOREM RefinesBoundedRun == Spec => Run!Init /\ [][Run!Next]_<<pc # "idle", MaxTurns - turns>>
<1>1. Init => Run!Init
  BY ToolLoopAssumption DEF Init, Run!Init
<1>2. ASSUME LoopInv, [Next]_vars
      PROVE  [Run!Next]_<<pc # "idle", MaxTurns - turns>>
  <2>1. turns \in Nat /\ MaxTurns \in Nat
    BY <1>2, ToolLoopAssumption DEF LoopInv, TypeOK
  <2>2. CASE turns' = turns /\ (pc = "idle" <=> pc' = "idle")
    BY <2>2
  <2>3. CASE Return /\ pc # "idle"
    BY <2>1, <2>3 DEF Return, Run!Next, Run!Return
  <2>4. CASE pc = "send" /\ turns' = turns + 1 /\ pc' # "idle"
    <3>1. MaxTurns - turns > 0 /\ MaxTurns - turns' = (MaxTurns - turns) - 1
      BY <1>2, <2>1, <2>4 DEF LoopInv, TurnsInv
    <3>2. QED
      BY <2>4, <3>1 DEF Run!Next, Run!Request
  <2>5. CASE AddUserTurn
    <3>1. turns = 0 /\ turns' = 0 /\ pc = "idle" /\ pc' = "head"
      BY <1>2, <2>5 DEF AddUserTurn, LoopInv, TurnsInv, Goto, progress
    <3>2. QED
      BY <2>1, <3>1 DEF Run!Next, Run!Start
  <2>6. CASE SummarizeAtLimit \/ OverflowContext \/ RequestFails \/ AgentCallFails \/ StopAtDoomLoop
    BY <2>3, <2>6 DEF SummarizeAtLimit, OverflowContext, RequestFails, AgentCallFails, StopAtDoomLoop
  <2>7. CASE KeepContext \/ CompactContext
    BY <2>2, <2>7 DEF KeepContext, CompactContext, Goto, progress
  <2>8. CASE NudgeModel \/ RetryTruncated
    BY <2>4, <2>8 DEF NudgeModel, RetryTruncated, Retry, Goto
  <2>9. ASSUME NEW planned \in BOOLEAN, AnswerInText(planned)
        PROVE  [Run!Next]_<<pc # "idle", MaxTurns - turns>>
    BY <2>3, <2>4, <2>9 DEF AnswerInText, Goto
  <2>10. CASE AskForTools
    BY <2>4, <2>10 DEF AskForTools, Goto
  <2>11. CASE RunParallelReads
    BY <2>2, <2>11 DEF RunParallelReads, Goto
  <2>12. CASE ExecuteCall \/ ExecuteAgentCall \/ EnterPlanMode \/ ExitPlanMode
    BY <2>2, <2>12 DEF ExecuteCall, ExecuteAgentCall, EnterPlanMode, ExitPlanMode, AnswerNext, Goto
  <2>13. CASE FinishBatch
    BY <2>2, <2>13 DEF FinishBatch, Goto
  <2>14. CASE UNCHANGED vars
    BY <2>2, <2>14 DEF vars, progress
  <2>15. QED
    BY <1>2, <2>5, <2>6, <2>7, <2>8, <2>9, <2>10, <2>11, <2>12, <2>13, <2>14 DEF Next, LoopStep
<1>3. QED
  BY <1>1, <1>2, LoopInvHolds, PTL DEF Spec

-----------------------------------------------------------------------------
(* The sessions of the server *)

Turn == [role : {"user", "assistant"}, prompt : Prompts, by : {"handler", "agent", "import"}]
Descriptor == [made : BOOLEAN, used : BOOLEAN, bundle : Seq(Turn)]
Job == [session : Sessions \cup {None}, agent : Sessions \cup {None}, prompt : Prompts \cup {None},
        rest : Seq(Turn), link : Links \cup {None}, text : BOOLEAN]
Client == [server : Servers \cup {None}, cursor : 0..Chunks, got : Seq(Nat),
           state : {"unsent", "sent", "open", "done", "missing"}, lost : BOOLEAN]

\* The steps of a prompt.
Prompting == {"engine", "question", "run", "answer", "stream"}

RpcTypeOK ==
    /\ log \in [Sessions -> Seq(Turn)] /\ saved \in Seq(Sessions)
    /\ link \in [Links -> Descriptor]
    /\ stream \in [Servers -> [Prompts -> {NoStream, Chunks}]]
    /\ client \in [Prompts -> Client]
    /\ at \in [Servers -> Prompting \cup {"idle", "import", "mark"}]
    /\ job \in [Servers -> Job]
    /\ imported \in [Links -> SUBSET Sessions]
    /\ failures \in Nat /\ failures <= MaxFailures

\* save_session keeps every session that is known.
LEMMA SavedKnown ==
  ASSUME saved \in Seq(Sessions), NEW s \in Sessions
  PROVE  /\ Saved(s) \in Seq(Sessions) /\ Len(Saved(s)) > 0
         /\ {Saved(s)[i] : i \in DOMAIN Saved(s)} = Known \cup {s}
<1> DEFINE R == {saved[i] : i \in DOMAIN saved} \ {s}
           w == Only(saved, R)
<1>1. w \in Seq(Sessions \cap R) /\ \E f : Selects(f, w, saved, R, Len(saved))
  BY OnlySelects
<1>2. PICK f : Selects(f, w, saved, R, Len(saved))
  BY <1>1
<1> HIDE DEF w, R
<1>3. /\ w \in Seq(Sessions) /\ Len(w) \in Nat
      /\ \A i \in 1..Len(w) : w[i] \in R
      /\ \A k \in 1..Len(saved) : saved[k] \in R => \E i \in 1..Len(w) : f[i] = k /\ w[i] = saved[k]
  <2>1. w \in Seq(Sessions) /\ Len(w) \in Nat /\ \A i \in 1..Len(w) : w[i] \in R
    BY <1>1
  <2>2. ASSUME NEW k \in 1..Len(saved), saved[k] \in R
        PROVE  \E i \in 1..Len(w) : f[i] = k /\ w[i] = saved[k]
    BY <1>2, <2>2 DEF Selects
  <2>3. QED
    BY <2>1, <2>2
<1>4. Saved(s) = Append(w, s)
  BY DEF Saved, Without, w, R
<1>5. R = Known \ {s} /\ DOMAIN saved = 1..Len(saved)
  BY DEF Known, R
<1> DEFINE a == Append(w, s)
<1>6. /\ a \in Seq(Sessions) /\ Len(a) = Len(w) + 1 /\ DOMAIN a = 1..(Len(w) + 1)
      /\ a[Len(w) + 1] = s /\ \A i \in 1..Len(w) : a[i] = w[i]
  BY <1>3
<1> HIDE DEF a
<1>7. ASSUME NEW i \in DOMAIN a
      PROVE  a[i] \in Known \cup {s}
  <2>1. i = Len(w) + 1 \/ i \in 1..Len(w)
    BY <1>3, <1>6
  <2>2. QED
    BY <1>3, <1>5, <1>6, <2>1
<1>8. ASSUME NEW x \in Known \cup {s}
      PROVE  \E i \in DOMAIN a : a[i] = x
  <2>1. CASE x = s
    BY <1>3, <1>6, <2>1
  <2>2. CASE x # s
    <3>1. x \in R /\ \E k \in 1..Len(saved) : saved[k] = x
      BY <1>5, <2>2 DEF Known
    <3>2. PICK i \in 1..Len(w) : w[i] = x
      BY <1>3, <3>1
    <3>3. QED
      BY <1>3, <1>6, <3>2
  <2>3. QED
    BY <2>1, <2>2
<1>9. {a[i] : i \in DOMAIN a} = Known \cup {s}
  BY <1>7, <1>8
<1>10. QED
  BY <1>3, <1>4, <1>6, <1>9 DEF a

Labels == Prompting \cup {"idle", "import", "mark"}

\* A server goes on, the others stay where they are.
LEMMA ProceedMoves ==
  ASSUME RpcTypeOK, NEW v \in Servers, NEW l \in Labels, NEW j \in Job, Proceed(v, l, j)
  PROVE  /\ at' \in [Servers -> Labels] /\ job' \in [Servers -> Job]
         /\ at'[v] = l /\ job'[v] = j
         /\ \A w \in Servers : w # v => at'[w] = at[w] /\ job'[w] = job[w]
  BY DEF RpcTypeOK, Labels, Proceed

\* The job of a server without a request.
LEMMA IdleIsJob == /\ Idle \in Job /\ Idle.link = None /\ Idle.session = None /\ Idle.rest = <<>>
                   /\ Idle.prompt = None /\ Idle.agent = None
  BY DEF Idle, Job

\* A server whose request ends is idle.
LEMMA DoneMoves ==
  ASSUME RpcTypeOK, NEW v \in Servers, Done(v)
  PROVE  /\ at' \in [Servers -> Labels] /\ job' \in [Servers -> Job]
         /\ at'[v] = "idle" /\ job'[v] = Idle
         /\ \A w \in Servers : w # v => at'[w] = at[w] /\ job'[w] = job[w]
  BY ProceedMoves, IdleIsJob DEF Done, Labels

\* A log grows by one turn, the others stay.
LEMMA AppendedTurn ==
  ASSUME RpcTypeOK, NEW s \in Sessions, NEW role \in {"user", "assistant"}, NEW p \in Prompts,
         NEW by \in {"handler", "agent", "import"}, Appended(s, role, p, by)
  PROVE  /\ log' \in [Sessions -> Seq(Turn)]
         /\ [role |-> role, prompt |-> p, by |-> by] \in Turn
         /\ log'[s] = Append(log[s], [role |-> role, prompt |-> p, by |-> by])
         /\ \A t \in Sessions : t # s => log'[t] = log[t]
<1> DEFINE x == [role |-> role, prompt |-> p, by |-> by]
<1>1. x \in Turn
  BY DEF Turn
<1> HIDE DEF x
<1>2. log' = [log EXCEPT ![s] = Append(@, x)]
  BY DEF Appended, x
<1>3. log \in [Sessions -> Seq(Turn)] /\ log[s] \in Seq(Turn)
  BY DEF RpcTypeOK
<1>4. Append(log[s], x) \in Seq(Turn)
  BY <1>1, <1>3
<1> HIDE DEF Turn
<1>5. QED
  BY <1>1, <1>2, <1>3, <1>4 DEF x

\* Types hold at the start.
LEMMA RpcTypesInit == RpcInit => RpcTypeOK
<1> SUFFICES ASSUME RpcInit PROVE RpcTypeOK
  OBVIOUS
<1> USE RpcSessionsAssumption
<1>1. log \in [Sessions -> Seq(Turn)] /\ saved \in Seq(Sessions)
  BY DEF RpcInit
<1>2. link \in [Links -> Descriptor]
  <2>1. NotCreated \in Descriptor
    BY DEF NotCreated, Descriptor
  <2>2. QED
    BY <2>1 DEF RpcInit
<1>3. client \in [Prompts -> Client]
  <2>1. Quiet \in Client
    BY DEF Quiet, Client
  <2>2. QED
    BY <2>1 DEF RpcInit
<1>4. job \in [Servers -> Job] /\ at \in [Servers -> Prompting \cup {"idle", "import", "mark"}]
  BY IdleIsJob DEF RpcInit
<1>5. QED
  BY <1>1, <1>2, <1>3, <1>4 DEF RpcInit, RpcTypeOK

-----------------------------------------------------------------------------
(* Types *)

\* What becomes of a client.
LEMMA ClientWith ==
  ASSUME NEW c \in Client, NEW v \in Servers, NEW st \in {"unsent", "sent", "open", "done", "missing"},
         NEW l \in BOOLEAN
  PROVE  /\ [c EXCEPT !.state = st] \in Client
         /\ [c EXCEPT !.server = v, !.state = st] \in Client
         /\ [c EXCEPT !.lost = l] \in Client
<1>1. [c EXCEPT !.state = st] \in Client
  BY DEF Client
<1>2. [c EXCEPT !.server = v, !.state = st] \in Client
  BY DEF Client
<1>3. [c EXCEPT !.lost = l] \in Client
  BY DEF Client
<1>4. QED
  BY <1>1, <1>2, <1>3

\* What the request of a server works on.
Working(v) ==
    /\ at[v] \in Prompting =>
         /\ job[v].prompt \in Prompts /\ job[v].session \in Known
         /\ client[job[v].prompt].server = v /\ client[job[v].prompt].state = "sent"
    /\ at[v] \in {"question", "run", "answer"} => job[v].agent \in Known
    /\ at[v] = "import" => job[v].session \in Known
    /\ at[v] = "mark" => job[v].link \in Links
Requests == \A v \in Servers : Working(v)

\* Known sessions are sessions.
LEMMA KnownSessions == ASSUME RpcTypeOK PROVE Known \subseteq Sessions
  BY DEF Known, RpcTypeOK

\* Types, when a session is opened.
LEMMA RpcTypesNewSession ==
  ASSUME RpcTypeOK, NEW v \in Servers, NEW s \in Sessions, NewSession(v, s)
  PROVE  RpcTypeOK'
<1>1. saved' \in Seq(Sessions)
  BY SavedKnown DEF NewSession, RpcTypeOK
<1>2. QED
  BY <1>1 DEF NewSession, RpcTypeOK

\* Types, when the handler records a question.
LEMMA RpcTypesAsk ==
  ASSUME RpcTypeOK, NEW v \in Servers, NEW s \in Sessions, NEW p \in Prompts, Ask(v, s, p)
  PROVE  RpcTypeOK'
<1>1. log' \in [Sessions -> Seq(Turn)]
  BY AppendedTurn DEF Ask
<1>2. client' \in [Prompts -> Client]
  <2>1. client \in [Prompts -> Client] /\ [client[p] EXCEPT !.server = v, !.state = "sent"] \in Client
    BY ClientWith DEF RpcTypeOK
  <2>2. client' = [client EXCEPT ![p] = [client[p] EXCEPT !.server = v, !.state = "sent"]]
    BY <2>1 DEF Ask
  <2>3. QED
    BY <2>1, <2>2
<1>3. [Idle EXCEPT !.session = s, !.prompt = p] \in Job
  BY IdleIsJob DEF Job
<1>4. at' \in [Servers -> Labels] /\ job' \in [Servers -> Job]
  BY <1>3, ProceedMoves DEF Ask, Labels, Prompting
<1>5. QED
  BY <1>1, <1>2, <1>4 DEF Ask, RpcTypeOK, Labels

\* Types, when the engine takes the session saved last: there is one, the
\* session of the request at the latest.
LEMMA RpcTypesEngineSession ==
  ASSUME RpcTypeOK, Requests, NEW v \in Servers, EngineSession(v)
  PROVE  /\ RpcTypeOK'
         /\ saved[Len(saved)] \in Known
         /\ [job[v] EXCEPT !.agent = saved[Len(saved)]] \in Job
<1>1. Known # {}
  BY DEF Requests, Working, EngineSession, Prompting
<1>2. saved[Len(saved)] \in Known
  BY <1>1 DEF Known, RpcTypeOK
<1>3. [job[v] EXCEPT !.agent = saved[Len(saved)]] \in Job
  BY <1>2, KnownSessions DEF RpcTypeOK, Job
<1>4. at' \in [Servers -> Labels] /\ job' \in [Servers -> Job]
  BY <1>3, ProceedMoves DEF EngineSession, Labels, Prompting
<1>5. QED
  BY <1>2, <1>3, <1>4 DEF EngineSession, RpcTypeOK, Labels

\* The turn that an engine writes.
LEMMA EngineTurn ==
  ASSUME RpcTypeOK, Requests, NEW v \in Servers, at[v] \in {"question", "run", "answer"}
  PROVE  /\ job[v].agent \in Known /\ job[v].agent \in Sessions
         /\ job[v].session \in Known /\ job[v].session \in Sessions
         /\ job[v].prompt \in Prompts /\ job[v] \in Job
  BY KnownSessions DEF Requests, Working, Prompting, RpcTypeOK

\* Types, when the engine records the question or fails to.
LEMMA RpcTypesEngineAsks ==
  ASSUME RpcTypeOK, Requests, NEW v \in Servers, EngineAsks(v)
  PROVE  RpcTypeOK'
<1>1. job[v].agent \in Sessions /\ job[v].prompt \in Prompts /\ job[v] \in Job
  BY EngineTurn DEF EngineAsks
<1>2. log' \in [Sessions -> Seq(Turn)]
  BY <1>1, AppendedTurn DEF EngineAsks, RpcTypeOK
<1>3. at' \in [Servers -> Labels] /\ job' \in [Servers -> Job]
  BY <1>1, ProceedMoves DEF EngineAsks, Labels, Prompting
<1>4. failures' \in Nat /\ failures' <= MaxFailures
  BY RpcSessionsAssumption DEF EngineAsks, MayFail, RpcTypeOK
<1>5. QED
  BY <1>2, <1>3, <1>4 DEF EngineAsks, RpcTypeOK, Labels

\* What EngineAnswers does to each variable.
LEMMA EngineAnswersMoves ==
  ASSUME RpcTypeOK, Requests, NEW v \in Servers, EngineAnswers(v)
  PROVE  /\ saved' \in Seq(Sessions) /\ Known' = Known
         /\ at' \in [Servers -> Labels] /\ job' \in [Servers -> Job]
         /\ at'[v] \in {"answer", "stream"}
         /\ job'[v].session = job[v].session /\ job'[v].prompt = job[v].prompt
         /\ job'[v].agent = job[v].agent
         /\ \A w \in Servers : w # v => at'[w] = at[w] /\ job'[w] = job[w]
<1>1. job[v].agent \in Known /\ job[v].agent \in Sessions /\ job[v] \in Job
  BY EngineTurn DEF EngineAnswers
<1>2. saved' \in Seq(Sessions) /\ Known' = Known
  <2>1. CASE saved' = saved
    BY <2>1 DEF RpcTypeOK, Known
  <2>2. CASE saved' = Saved(job[v].agent)
    <3>1. /\ Saved(job[v].agent) \in Seq(Sessions)
          /\ {Saved(job[v].agent)[i] : i \in DOMAIN Saved(job[v].agent)} = Known \cup {job[v].agent}
      BY <1>1, SavedKnown DEF RpcTypeOK
    <3>2. Known' = Known \cup {job[v].agent}
      BY <2>2, <3>1 DEF Known
    <3>3. QED
      BY <1>1, <2>2, <3>1, <3>2
  <2>3. QED
    BY <2>1, <2>2 DEF EngineAnswers
<1>3. PICK l \in {"answer", "stream"}, j \in {job[v]} \cup {[job[v] EXCEPT !.text = text] : text \in BOOLEAN} :
        Proceed(v, l, j)
  BY DEF EngineAnswers
<1>4. j \in Job /\ j.session = job[v].session /\ j.prompt = job[v].prompt /\ j.agent = job[v].agent
  BY <1>1 DEF Job
<1>5. QED
  BY <1>2, <1>3, <1>4, ProceedMoves DEF Labels, Prompting

\* Types, when the run ends.
LEMMA RpcTypesEngineAnswers ==
  ASSUME RpcTypeOK, Requests, NEW v \in Servers, EngineAnswers(v)
  PROVE  RpcTypeOK'
<1>1. job[v].agent \in Sessions /\ job[v].prompt \in Prompts
  BY EngineTurn DEF EngineAnswers
<1>2. log' \in [Sessions -> Seq(Turn)]
  BY <1>1, AppendedTurn DEF EngineAnswers, RpcTypeOK
<1>3. failures' \in Nat /\ failures' <= MaxFailures
  BY RpcSessionsAssumption DEF EngineAnswers, MayFail, RpcTypeOK
<1>4. UNCHANGED <<link, stream, client, imported>>
  BY DEF EngineAnswers
<1>5. QED
  BY <1>2, <1>3, <1>4, EngineAnswersMoves DEF RpcTypeOK, Labels

\* Types, when the handler records the answer.
LEMMA RpcTypesAnswer ==
  ASSUME RpcTypeOK, Requests, NEW v \in Servers, Answer(v)
  PROVE  RpcTypeOK'
<1>1. job[v].session \in Sessions /\ job[v].prompt \in Prompts /\ job[v] \in Job
  BY EngineTurn DEF Answer
<1>2. log' \in [Sessions -> Seq(Turn)]
  BY <1>1, AppendedTurn DEF Answer
<1>3. at' \in [Servers -> Labels] /\ job' \in [Servers -> Job]
  BY <1>1, ProceedMoves DEF Answer, Labels, Prompting
<1>4. QED
  BY <1>2, <1>3 DEF Answer, RpcTypeOK, Labels

\* What a reply does: nothing for the client, or its stream is opened.
LEMMA ReplyMoves ==
  ASSUME RpcTypeOK, Requests, NEW v \in Servers, Reply(v)
  PROVE  /\ job[v].prompt \in Prompts
         /\ client[job[v].prompt].server = v /\ client[job[v].prompt].state = "sent"
         /\ \/ UNCHANGED <<stream, client>>
            \/ /\ stream' = [stream EXCEPT ![v][job[v].prompt] = Chunks]
               /\ client' = [client EXCEPT ![job[v].prompt].state = "open"]
  BY DEF Requests, Working, Prompting, Reply

\* Types, when the reply is sent.
LEMMA RpcTypesReply ==
  ASSUME RpcTypeOK, Requests, NEW v \in Servers, Reply(v)
  PROVE  RpcTypeOK'
<1>1. PICK p \in Prompts : p = job[v].prompt
  BY ReplyMoves
<1>2. stream' \in [Servers -> [Prompts -> {NoStream, Chunks}]]
  <2>1. stream' = stream \/ stream' = [stream EXCEPT ![v][p] = Chunks]
    BY <1>1, ReplyMoves
  <2>2. stream \in [Servers -> [Prompts -> {NoStream, Chunks}]]
    BY DEF RpcTypeOK
  <2>3. [stream[v] EXCEPT ![p] = Chunks] \in [Prompts -> {NoStream, Chunks}]
    BY <2>2
  <2>4. QED
    BY <2>1, <2>2, <2>3
<1>3. client' \in [Prompts -> Client]
  <2>1. client \in [Prompts -> Client] /\ [client[p] EXCEPT !.state = "open"] \in Client
    BY ClientWith DEF RpcTypeOK
  <2>2. client' = client \/ client' = [client EXCEPT ![p] = [client[p] EXCEPT !.state = "open"]]
    BY <1>1, ReplyMoves
  <2>3. QED
    BY <2>1, <2>2
<1>4. at' \in [Servers -> Labels] /\ job' \in [Servers -> Job]
  BY DoneMoves DEF Reply
<1>5. QED
  BY <1>2, <1>3, <1>4 DEF Reply, RpcTypeOK, Labels


\* The clients and the streams of their prompts: a stream is at the server that
\* was asked, while the client asks for its chunks; when it has gone before the
\* client heard of its end, lost says so.
StreamOf(p) ==
    /\ \A v \in Servers : stream[v][p] # NoStream => client[p].server = v /\ client[p].state = "open"
    /\ client[p].got = [i \in 1..client[p].cursor |-> i]
    /\ client[p].state = "done" => client[p].cursor = Chunks
    /\ client[p].state = "missing" => client[p].lost
    /\ \A v \in Servers :
          client[p].state = "open" /\ client[p].server = v /\ stream[v][p] = NoStream => client[p].lost
Streams == \A p \in Prompts : StreamOf(p)

\* 1..a continued by a+1..b is 1..b.
LEMMA CountFurther ==
  ASSUME NEW a \in Nat, NEW b \in Nat, a <= b
  PROVE  /\ [i \in 1..a |-> i] \o [i \in 1..(b - a) |-> a + i] = [i \in 1..b |-> i]
         /\ [i \in 1..b |-> i] \in Seq(Nat)
<1> DEFINE l == [i \in 1..a |-> i]
           r == [i \in 1..(b - a) |-> a + i]
           t == [i \in 1..b |-> i]
<1>1. /\ l \in Seq(Nat) /\ Len(l) = a /\ r \in Seq(Nat) /\ Len(r) = b - a /\ b - a \in Nat
      /\ t \in Seq(Nat) /\ Len(t) = b
      /\ \A i \in 1..a : l[i] = i
      /\ \A i \in 1..(b - a) : r[i] = a + i
  OBVIOUS
<1> HIDE DEF l, r
<1>2. /\ l \o r \in Seq(Nat) /\ Len(l \o r) = b
      /\ \A i \in 1..Len(l) : (l \o r)[i] = l[i]
      /\ \A i \in 1..Len(l \o r) : i > Len(l) => i - Len(l) \in 1..Len(r) /\ (l \o r)[i] = r[i - Len(l)]
  BY <1>1, Joined
<1>3. ASSUME NEW i \in 1..b
      PROVE  (l \o r)[i] = i
  <2>1. CASE i \in 1..a
    BY <1>1, <1>2, <2>1
  <2>2. CASE i \notin 1..a
    <3>1. i > Len(l) /\ i \in 1..Len(l \o r)
      BY <1>1, <1>2, <2>2
    <3>2. i - a \in 1..(b - a) /\ (l \o r)[i] = r[i - a]
      BY <1>1, <1>2, <3>1
    <3>3. QED
      BY <1>1, <3>2
  <2>3. QED
    BY <2>1, <2>2
<1>4. l \o r = t
  <2> DEFINE g == l \o r
  <2>1. g \in Seq(Nat) /\ Len(g) = b /\ t \in Seq(Nat) /\ Len(t) = b /\ \A i \in 1..b : g[i] = t[i]
    BY <1>1, <1>2, <1>3
  <2> HIDE DEF g, t
  <2>2. g = t
    BY <2>1
  <2>3. QED
    BY <2>2 DEF g
<1>5. QED
  BY <1>1, <1>4 DEF l, r

\* What a request for chunks does to its client and its stream.
LEMMA StreamNextMoves ==
  ASSUME RpcTypeOK, Streams, NEW v \in Servers, NEW p \in Prompts, NEW asked \in 1..MaxAsked,
         StreamNext(v, p, asked)
  PROVE  /\ \A q \in Prompts : q # p => client'[q] = client[q]
         /\ \A w \in Servers, q \in Prompts : q # p => stream'[w][q] = stream[w][q]
         /\ stream' \in [Servers -> [Prompts -> {NoStream, Chunks}]] /\ client' \in [Prompts -> Client]
         /\ StreamOf(p)'
         /\ client[p].state = "open" /\ client'[p].state # "unsent" /\ client'[p].state # "sent"
         /\ failures' \in {failures, failures + 1} /\ failures' \in Nat /\ failures' <= MaxFailures
<1> DEFINE c == client[p].cursor
           n == stream[v][p]
<1>1. /\ Chunks \in Nat /\ NoStream # Chunks /\ asked \in Nat \ {0} /\ MaxFailures \in Nat
      /\ failures \in Nat /\ failures <= MaxFailures
  BY RpcSessionsAssumption DEF NoStream, RpcTypeOK
<1>2. /\ client[p] \in Client /\ c \in Nat /\ c <= Chunks /\ n \in {NoStream, Chunks}
      /\ client[p].got = [i \in 1..c |-> i] /\ client[p].state = "open" /\ client[p].server = v
      /\ \A w \in Servers : stream[w][p] # NoStream => w = v
      /\ n = NoStream => client[p].lost
      /\ DOMAIN client = Prompts
  <2>1. client[p] \in Client /\ n \in {NoStream, Chunks} /\ DOMAIN client = Prompts
    BY DEF RpcTypeOK
  <2>2. c \in Nat /\ c <= Chunks
    BY <1>1, <2>1 DEF Client
  <2>3. client[p].state = "open" /\ client[p].server = v
    BY DEF StreamNext
  <2>4. QED
    BY <2>1, <2>2, <2>3 DEF Streams, StreamOf
<1>3. CASE n = NoStream
  <2>1. client' = [client EXCEPT ![p].state = "missing"] /\ UNCHANGED <<stream, failures>>
    BY <1>3 DEF StreamNext
  <2>2. /\ client'[p].state = "missing" /\ client'[p].got = client[p].got /\ client'[p].cursor = c
        /\ client'[p].lost
        /\ \A q \in Prompts : q # p => client'[q] = client[q]
    BY <1>2, <1>3, <2>1 DEF Client
  <2>3. client' \in [Prompts -> Client]
    <3>1. client \in [Prompts -> Client] /\ [client[p] EXCEPT !.state = "missing"] \in Client
      BY ClientWith DEF RpcTypeOK
    <3>2. client' = [client EXCEPT ![p] = [client[p] EXCEPT !.state = "missing"]]
      BY <2>1
    <3>3. QED
      BY <3>1, <3>2
  <2>4. StreamOf(p)'
    BY <1>2, <1>3, <2>1, <2>2 DEF StreamOf
  <2>5. QED
    BY <1>1, <1>2, <2>1, <2>2, <2>3, <2>4 DEF RpcTypeOK
<1>4. CASE n = Chunks
  <2> DEFINE end == Least(c + asked, Chunks)
  <2>1. Least(c, Chunks) = c /\ end \in Nat /\ c <= end /\ end <= Chunks
    BY <1>1, <1>2 DEF Least
  <2> HIDE DEF end
  <2> DEFINE more == [i \in 1..(end - c) |-> c + i]
             fin == Finished(end, Chunks)
  <2>2. /\ client[p].got \o more = [i \in 1..end |-> i] /\ [i \in 1..end |-> i] \in Seq(Nat)
        /\ fin <=> end = Chunks
    <3>1. fin <=> end = Chunks
      BY <1>1, <2>1 DEF Finished
    <3>2. /\ [i \in 1..c |-> i] \o more = [i \in 1..end |-> i]
          /\ [i \in 1..end |-> i] \in Seq(Nat)
      BY <1>2, <2>1, CountFurther
    <3>3. QED
      BY <1>2, <3>1, <3>2
  <2>3. /\ stream' = IF fin THEN [stream EXCEPT ![v][p] = NoStream] ELSE stream
        /\ \/ /\ client' = [client EXCEPT ![p].cursor = end, ![p].got = @ \o more,
                                          ![p].state = IF fin THEN "done" ELSE @]
              /\ UNCHANGED failures
           \/ /\ MayFail
              /\ client' = [client EXCEPT ![p].lost = @ \/ fin]
    BY <1>1, <1>4, <2>1 DEF StreamNext, end
  <2> HIDE DEF more, fin
  <2>4. /\ stream' \in [Servers -> [Prompts -> {NoStream, Chunks}]]
        /\ \A w \in Servers, q \in Prompts : q # p => stream'[w][q] = stream[w][q]
        /\ \A w \in Servers : w # v => stream'[w][p] = stream[w][p]
        /\ stream'[v][p] = IF fin THEN NoStream ELSE Chunks
    BY <1>4, <2>3 DEF RpcTypeOK
  <2>5. CASE /\ client' = [client EXCEPT ![p].cursor = end, ![p].got = @ \o more,
                                         ![p].state = IF fin THEN "done" ELSE @]
             /\ UNCHANGED failures
    <3>1. /\ client'[p].cursor = end /\ client'[p].got = [i \in 1..end |-> i]
          /\ client'[p].state = IF fin THEN "done" ELSE "open"
          /\ client'[p].server = v /\ client'[p].lost = client[p].lost
          /\ \A q \in Prompts : q # p => client'[q] = client[q]
      BY <1>2, <2>2, <2>5 DEF Client
    <3>2. client' \in [Prompts -> Client]
      <4>1. client' = [client EXCEPT ![p] = client'[p]] 
        BY <2>5 DEF RpcTypeOK
      <4>2. client'[p] = [client[p] EXCEPT !.cursor = end, !.got = @ \o more, !.state = IF fin THEN "done" ELSE @]
        BY <1>2, <2>5
      <4>3. end \in 0..Chunks /\ client[p].got \o more \in Seq(Nat)
        BY <1>1, <2>1, <2>2
      <4>4. client'[p] \in Client
        BY <1>2, <4>2, <4>3 DEF Client
      <4>5. QED
        BY <4>1, <4>4 DEF RpcTypeOK
    <3>3. StreamOf(p)'
      <4>1. /\ \A w \in Servers : stream'[w][p] # NoStream => w = v /\ ~fin
            /\ stream'[v][p] = NoStream => fin
        BY <1>1, <1>2, <2>4
      <4>2. client'[p].state = "done" => end = Chunks
        BY <2>2, <3>1
      <4>3. QED
        BY <3>1, <4>1, <4>2 DEF StreamOf
    <3>4. QED
      <4>1. client'[p].state # "unsent" /\ client'[p].state # "sent"
        BY <3>1
      <4>2. failures' = failures
        BY <2>5
      <4>3. QED
        BY <1>1, <1>2, <2>4, <3>1, <3>2, <3>3, <4>1, <4>2
  <2>6. CASE MayFail /\ client' = [client EXCEPT ![p].lost = @ \/ fin]
    <3>1. /\ client'[p].cursor = c /\ client'[p].got = client[p].got
          /\ client'[p].state = "open" /\ client'[p].server = v /\ client'[p].lost = (client[p].lost \/ fin)
          /\ \A q \in Prompts : q # p => client'[q] = client[q]
      BY <1>2, <2>6 DEF Client
    <3>2. client' \in [Prompts -> Client]
      <4>1. fin \in BOOLEAN
        BY DEF fin, Finished
      <4>2. client \in [Prompts -> Client] /\ client[p].lost \in BOOLEAN
        BY <1>2 DEF RpcTypeOK, Client
      <4>3. [client[p] EXCEPT !.lost = client[p].lost \/ fin] \in Client
        <5>1. (client[p].lost \/ fin) \in BOOLEAN
          BY <4>1, <4>2
        <5>2. QED
          BY <1>2, <4>2, <5>1 DEF Client
      <4>4. client' = [client EXCEPT ![p] = [client[p] EXCEPT !.lost = client[p].lost \/ fin]]
        BY <2>6
      <4>5. QED
        BY <4>2, <4>3, <4>4
    <3>3. StreamOf(p)'
      <4>1. \A w \in Servers : stream'[w][p] # NoStream => w = v
        BY <1>2, <2>4
      <4>2. stream'[v][p] = NoStream => client'[p].lost
        BY <1>1, <2>4, <3>1
      <4>3. QED
        BY <1>2, <3>1, <4>1, <4>2 DEF StreamOf
    <3>4. failures' = failures + 1 /\ failures' <= MaxFailures
      BY <1>1, <2>6 DEF MayFail
    <3>5. QED
      BY <1>1, <1>2, <2>4, <3>1, <3>2, <3>3, <3>4
  <2>7. QED
    BY <2>3, <2>5, <2>6
<1>5. QED
  BY <1>2, <1>3, <1>4

\* Types, when a client asks for chunks.
LEMMA RpcTypesStreamNext ==
  ASSUME RpcTypeOK, Streams, NEW v \in Servers, NEW p \in Prompts, NEW asked \in 1..MaxAsked,
         StreamNext(v, p, asked)
  PROVE  RpcTypeOK'
<1>1. UNCHANGED <<log, saved, link, at, job, imported>>
  BY DEF StreamNext
<1>2. QED
  BY <1>1, StreamNextMoves DEF RpcTypeOK

\* Types, when a link is created.
LEMMA RpcTypesLinkCreate ==
  ASSUME RpcTypeOK, NEW v \in Servers, NEW s \in Sessions, NEW h \in Links, LinkCreate(v, s, h)
  PROVE  RpcTypeOK'
<1>1. [made |-> TRUE, used |-> FALSE, bundle |-> log[s]] \in Descriptor
  BY DEF RpcTypeOK, Descriptor
<1>2. link' \in [Links -> Descriptor]
  BY <1>1 DEF LinkCreate, RpcTypeOK
<1>3. QED
  BY <1>2 DEF LinkCreate, RpcTypeOK

\* An import begins, with or without a link that it will mark.
LEMMA ImportBundleMoves ==
  ASSUME RpcTypeOK, NEW v \in Servers, NEW t \in Sessions, NEW h \in Links, NEW c \in Links \cup {None},
         ImportBundle(v, t, h, c)
  PROVE  /\ saved' \in Seq(Sessions) /\ Known' = Known \cup {t}
         /\ at' \in [Servers -> Labels] /\ job' \in [Servers -> Job]
         /\ at[v] = "idle" /\ at'[v] = "import"
         /\ job'[v].session = t /\ job'[v].rest = link[h].bundle /\ job'[v].link = c
         /\ \A w \in Servers : w # v => at'[w] = at[w] /\ job'[w] = job[w]
         /\ t \notin Known /\ link[h].made
         /\ UNCHANGED <<log, link, stream, client, imported, failures>>
<1> DEFINE j == [Idle EXCEPT !.session = t, !.rest = link[h].bundle, !.link = c]
<1>1. /\ j \in Job
      /\ j.session = t /\ j.rest = link[h].bundle /\ j.link = c
  <2>1. link[h].bundle \in Seq(Turn)
    BY DEF RpcTypeOK, Descriptor
  <2>2. QED
    BY <2>1, IdleIsJob DEF Job
<1>2. Proceed(v, "import", j)
  BY DEF ImportBundle
<1> HIDE DEF j
<1>3. /\ at' \in [Servers -> Labels] /\ job' \in [Servers -> Job]
      /\ at'[v] = "import" /\ job'[v] = j
      /\ \A w \in Servers : w # v => at'[w] = at[w] /\ job'[w] = job[w]
  BY <1>1, <1>2, ProceedMoves DEF Labels
<1>4. /\ Saved(t) \in Seq(Sessions) /\ {Saved(t)[i] : i \in DOMAIN Saved(t)} = Known \cup {t}
  BY SavedKnown DEF RpcTypeOK
<1>5. Known' = Known \cup {t} /\ saved' \in Seq(Sessions)
  <2>1. saved' = Saved(t)
    BY DEF ImportBundle
  <2>2. QED
    BY <1>4, <2>1 DEF Known
<1>6. QED
  BY <1>1, <1>3, <1>5 DEF ImportBundle

\* Types, when an import begins.
LEMMA RpcTypesImportBundle ==
  ASSUME RpcTypeOK, NEW v \in Servers, NEW t \in Sessions, NEW h \in Links, NEW c \in Links \cup {None},
         ImportBundle(v, t, h, c)
  PROVE  RpcTypeOK'
  BY ImportBundleMoves DEF RpcTypeOK, Labels

\* One turn of the bundle moves into the session.
LEMMA ImportTurnMoves ==
  ASSUME RpcTypeOK, Requests, NEW v \in Servers, ImportTurn(v)
  PROVE  /\ at' \in [Servers -> Labels] /\ job' \in [Servers -> Job]
         /\ at[v] = "import" /\ at'[v] = "import"
         /\ job'[v].session = job[v].session /\ job'[v].rest = Tail(job[v].rest) /\ job'[v].link = job[v].link
         /\ \A w \in Servers : w # v => at'[w] = at[w] /\ job'[w] = job[w]
         /\ job[v].rest \in Seq(Turn) /\ job[v].rest # <<>>
         /\ Head(job[v].rest) \in Turn /\ job[v].session \in Sessions
         /\ Appended(job[v].session, Head(job[v].rest).role, Head(job[v].rest).prompt, "import")
<1>1. at[v] = "import" /\ job[v].rest # <<>> /\ Proceed(v, "import", [job[v] EXCEPT !.rest = Tail(@)])
  BY DEF ImportTurn
<1>2. job[v] \in Job /\ job[v].rest \in Seq(Turn) /\ job[v].session \in Sessions
  <2>1. job[v] \in Job
    BY DEF RpcTypeOK
  <2>2. job[v].session \in Known
    BY <1>1 DEF Requests, Working
  <2>3. QED
    BY <2>1, <2>2, KnownSessions DEF Job
<1>3. Head(job[v].rest) \in Turn /\ Tail(job[v].rest) \in Seq(Turn)
  <2> HIDE DEF Turn
  <2>1. QED
    BY <1>1, <1>2
<1> DEFINE j == [job[v] EXCEPT !.rest = Tail(@)]
<1>4. j \in Job /\ j.session = job[v].session /\ j.rest = Tail(job[v].rest) /\ j.link = job[v].link
  BY <1>2, <1>3 DEF Job
<1>5. Proceed(v, "import", j)
  BY <1>1
<1> HIDE DEF j
<1>6. /\ at' \in [Servers -> Labels] /\ job' \in [Servers -> Job]
      /\ at'[v] = "import" /\ job'[v] = j
      /\ \A w \in Servers : w # v => at'[w] = at[w] /\ job'[w] = job[w]
  BY <1>4, <1>5, ProceedMoves DEF Labels
<1>7. Appended(job[v].session, Head(job[v].rest).role, Head(job[v].rest).prompt, "import")
  BY DEF ImportTurn
<1>8. QED
  BY <1>1, <1>2, <1>3, <1>4, <1>6, <1>7

\* Types, when a turn is imported.
LEMMA RpcTypesImportTurn ==
  ASSUME RpcTypeOK, Requests, NEW v \in Servers, ImportTurn(v)
  PROVE  RpcTypeOK'
<1> DEFINE m == Head(job[v].rest)
<1>1. m \in Turn /\ job[v].session \in Sessions /\ Appended(job[v].session, m.role, m.prompt, "import")
  BY ImportTurnMoves
<1> HIDE DEF m
<1>2. m.role \in {"user", "assistant"} /\ m.prompt \in Prompts
  BY <1>1 DEF Turn
<1>3. log' \in [Sessions -> Seq(Turn)]
  BY <1>1, <1>2, AppendedTurn
<1>4. at' \in [Servers -> Labels] /\ job' \in [Servers -> Job]
  BY ImportTurnMoves
<1>5. UNCHANGED <<saved, link, stream, client, imported, failures>>
  BY DEF ImportTurn
<1>6. QED
  BY <1>3, <1>4, <1>5 DEF RpcTypeOK, Labels

\* The end of an import: the request ends, or it goes on to mark its link.
LEMMA ImportEndsMoves ==
  ASSUME RpcTypeOK, Requests, NEW v \in Servers, ImportEnds(v)
  PROVE  /\ at' \in [Servers -> Labels] /\ job' \in [Servers -> Job]
         /\ \A w \in Servers : w # v => at'[w] = at[w] /\ job'[w] = job[w]
         /\ at[v] = "import" /\ job[v].rest = <<>> /\ job[v].session \in Known
         /\ \/ job[v].link = None /\ at'[v] = "idle" /\ job'[v] = Idle /\ imported' = imported
            \/ /\ job[v].link \in Links /\ job[v].link # None
               /\ at'[v] = "mark" /\ job'[v] = job[v]
               /\ imported' = [imported EXCEPT ![job[v].link] = @ \cup {job[v].session}]
         /\ UNCHANGED <<log, saved, link, stream, client, failures>>
<1>1. at[v] = "import" /\ job[v].rest = <<>> /\ UNCHANGED <<log, saved, link, stream, client, failures>>
  BY DEF ImportEnds
<1>2. job[v] \in Job /\ job[v].link \in Links \cup {None} /\ job[v].session \in Known
  BY <1>1 DEF RpcTypeOK, Job, Requests, Working
<1>3. CASE job[v].link = None
  BY <1>1, <1>2, <1>3, DoneMoves DEF ImportEnds
<1>4. CASE job[v].link # None
  <2>1. Proceed(v, "mark", job[v]) /\ imported' = [imported EXCEPT ![job[v].link] = @ \cup {job[v].session}]
    BY <1>4 DEF ImportEnds
  <2>2. QED
    BY <1>1, <1>2, <1>4, <2>1, ProceedMoves DEF Labels
<1>5. QED
  BY <1>3, <1>4

\* Types, when an import ends.
LEMMA RpcTypesImportEnds ==
  ASSUME RpcTypeOK, Requests, NEW v \in Servers, ImportEnds(v)
  PROVE  RpcTypeOK'
<1>1. imported' \in [Links -> SUBSET Sessions]
  <2>1. job[v].session \in Sessions
    BY ImportEndsMoves, KnownSessions
  <2>2. imported \in [Links -> SUBSET Sessions]
    BY DEF RpcTypeOK
  <2>3. \/ imported' = imported
        \/ imported' = [imported EXCEPT ![job[v].link] = @ \cup {job[v].session}]
    BY ImportEndsMoves
  <2>4. QED
    BY <2>1, <2>2, <2>3
<1>2. QED
  BY <1>1, ImportEndsMoves DEF RpcTypeOK, Labels

\* A link is marked as used.
LEMMA MarkUsedMoves ==
  ASSUME RpcTypeOK, Requests, NEW v \in Servers, MarkUsed(v)
  PROVE  /\ at[v] = "mark" /\ job[v].link \in Links
         /\ link' \in [Links -> Descriptor]
         /\ link'[job[v].link].made = link[job[v].link].made
         /\ link'[job[v].link].used
         /\ link'[job[v].link].bundle = link[job[v].link].bundle
         /\ \A h \in Links : h # job[v].link => link'[h] = link[h]
<1>1. PICK l \in Links : l = job[v].link
  BY DEF Requests, Working, MarkUsed
<1>2. link' = [link EXCEPT ![l] = [link[l] EXCEPT !.used = TRUE]]
  BY <1>1 DEF MarkUsed
<1>3. link[l] \in Descriptor
  BY DEF RpcTypeOK
<1> DEFINE d == [link[l] EXCEPT !.used = TRUE]
<1>4. d \in Descriptor /\ d.made = link[l].made /\ d.used /\ d.bundle = link[l].bundle
  BY <1>3 DEF Descriptor
<1> HIDE DEF d
<1>5. link' = [link EXCEPT ![l] = d]
  BY <1>2 DEF d
<1>6. QED
  BY <1>1, <1>4, <1>5 DEF RpcTypeOK, MarkUsed

\* Types, when a link is marked.
LEMMA RpcTypesMarkUsed ==
  ASSUME RpcTypeOK, Requests, NEW v \in Servers, MarkUsed(v)
  PROVE  RpcTypeOK'
<1>1. link' \in [Links -> Descriptor]
  BY MarkUsedMoves
<1>2. at' \in [Servers -> Labels] /\ job' \in [Servers -> Job]
  BY DoneMoves DEF MarkUsed
<1>3. QED
  BY <1>1, <1>2 DEF MarkUsed, RpcTypeOK, Labels

\* A failure is counted.
LEMMA MayFailCounts ==
  ASSUME RpcTypeOK, MayFail
  PROVE  failures \in Nat /\ failures' = failures + 1 /\ failures' \in Nat /\ failures' <= MaxFailures
  BY RpcSessionsAssumption DEF RpcTypeOK, MayFail

\* Types, when a request fails.
LEMMA RpcTypesHandlerFails ==
  ASSUME RpcTypeOK, NEW v \in Servers, HandlerFails(v)
  PROVE  RpcTypeOK'
  BY DoneMoves, MayFailCounts DEF HandlerFails, RpcTypeOK, Labels

\* The end of a server takes its streams with it.
LEMMA ServerEndsMoves ==
  ASSUME RpcTypeOK, NEW v \in Servers, ServerEnds(v)
  PROVE  /\ stream' \in [Servers -> [Prompts -> {NoStream, Chunks}]] /\ client' \in [Prompts -> Client]
         /\ \A q \in Prompts : stream'[v][q] = NoStream
         /\ \A w \in Servers : w # v => stream'[w] = stream[w]
         /\ \A q \in Prompts :
               /\ client'[q].server = client[q].server /\ client'[q].cursor = client[q].cursor
               /\ client'[q].got = client[q].got /\ client'[q].state = client[q].state
               /\ client'[q].lost <=> client[q].lost \/ stream[v][q] # NoStream
<1>1. /\ stream' = [stream EXCEPT ![v] = [p \in Prompts |-> NoStream]]
      /\ client' = [p \in Prompts |-> [client[p] EXCEPT !.lost = @ \/ stream[v][p] # NoStream]]
  BY DEF ServerEnds
<1>2. [p \in Prompts |-> NoStream] \in [Prompts -> {NoStream, Chunks}]
  OBVIOUS
<1>3. /\ stream' \in [Servers -> [Prompts -> {NoStream, Chunks}]]
      /\ \A q \in Prompts : stream'[v][q] = NoStream
      /\ \A w \in Servers : w # v => stream'[w] = stream[w]
  BY <1>1, <1>2 DEF RpcTypeOK
<1>4. ASSUME NEW q \in Prompts
      PROVE  /\ client'[q] \in Client
             /\ client'[q].server = client[q].server /\ client'[q].cursor = client[q].cursor
             /\ client'[q].got = client[q].got /\ client'[q].state = client[q].state
             /\ client'[q].lost <=> client[q].lost \/ stream[v][q] # NoStream
  <2>1. client'[q] = [client[q] EXCEPT !.lost = @ \/ stream[v][q] # NoStream]
    BY <1>1
  <2>2. client[q] \in Client
    BY DEF RpcTypeOK
  <2>3. QED
    BY <2>1, <2>2 DEF Client
<1>5. client' \in [Prompts -> Client]
  BY <1>1, <1>4
<1>6. QED
  BY <1>3, <1>4, <1>5

\* Types, when a server ends.
LEMMA RpcTypesServerEnds ==
  ASSUME RpcTypeOK, NEW v \in Servers, ServerEnds(v)
  PROVE  RpcTypeOK'
  BY DoneMoves, MayFailCounts, ServerEndsMoves DEF ServerEnds, RpcTypeOK, Labels

-----------------------------------------------------------------------------
(* Requests, sessions and streams *)

\* A session that is not known has no turns.
Unknown == \A s \in Sessions \ Known : log[s] = <<>>

\* Requests of servers that stay where they are stay valid.
LEMMA OthersWork ==
  ASSUME Requests, NEW v \in Servers, Known \subseteq Known',
         \A w \in Servers : w # v => at'[w] = at[w] /\ job'[w] = job[w],
         \A w \in Servers : w # v /\ at[w] \in Prompting =>
            /\ client'[job[w].prompt].server = client[job[w].prompt].server
            /\ client'[job[w].prompt].state = client[job[w].prompt].state,
         Working(v)'
  PROVE  Requests'
<1> SUFFICES ASSUME NEW w \in Servers, w # v PROVE Working(w)'
  BY DEF Requests
<1>1. Working(w) /\ at'[w] = at[w] /\ job'[w] = job[w]
  BY DEF Requests
<1>2. QED
  BY <1>1 DEF Working

\* A request of another server is about another prompt.
LEMMA OtherPrompts ==
  ASSUME Requests, NEW v \in Servers, NEW w \in Servers, w # v, at[w] \in Prompting
  PROVE  /\ job[w].prompt \in Prompts
         /\ client[job[w].prompt].server # v /\ client[job[w].prompt].state = "sent"
  BY DEF Requests, Working

\* Requests, when sessions, requests and clients stay as they are.
LEMMA RequestsKept ==
  ASSUME Requests, Known \subseteq Known', UNCHANGED <<at, job, client>>
  PROVE  Requests'
  BY DEF Requests, Working

\* A question begins a request, about a prompt that no other server works on.
LEMMA RequestsAsk ==
  ASSUME RpcTypeOK, Requests, NEW v \in Servers, NEW s \in Sessions, NEW p \in Prompts, Ask(v, s, p)
  PROVE  /\ Requests' /\ Known' = Known
         /\ client'[p].state = "sent" /\ client'[p].server = v
         /\ client'[p].got = client[p].got /\ client'[p].cursor = client[p].cursor
         /\ \A q \in Prompts : q # p => client'[q] = client[q]
         /\ at[v] = "idle" /\ at'[v] = "engine" /\ job'[v].session = s /\ job'[v].prompt = p
         /\ \A w \in Servers : w # v => at'[w] = at[w] /\ job'[w] = job[w]
<1>1. /\ client' = [client EXCEPT ![p].server = v, ![p].state = "sent"]
      /\ client[p].state = "unsent" /\ at[v] = "idle" /\ s \in Known /\ saved' = saved
  BY DEF Ask
<1>2. /\ client'[p].state = "sent" /\ client'[p].server = v
      /\ client'[p].got = client[p].got /\ client'[p].cursor = client[p].cursor
      /\ \A q \in Prompts : q # p => client'[q] = client[q]
  BY <1>1 DEF RpcTypeOK, Client
<1> DEFINE j == [Idle EXCEPT !.session = s, !.prompt = p]
<1>3. j \in Job /\ j.session = s /\ j.prompt = p
  BY IdleIsJob DEF Job
<1>4. Proceed(v, "engine", j)
  BY DEF Ask
<1> HIDE DEF j
<1>5. /\ at'[v] = "engine" /\ job'[v] = j
      /\ \A w \in Servers : w # v => at'[w] = at[w] /\ job'[w] = job[w]
  BY <1>3, <1>4, ProceedMoves DEF Labels, Prompting
<1>6. Known' = Known
  BY <1>1 DEF Known
<1>7. Working(v)'
  BY <1>1, <1>2, <1>3, <1>5, <1>6 DEF Working
<1>8. ASSUME NEW w \in Servers, w # v, at[w] \in Prompting
      PROVE  client'[job[w].prompt] = client[job[w].prompt]
  <2>1. job[w].prompt \in Prompts /\ client[job[w].prompt].state = "sent"
    BY <1>8, OtherPrompts
  <2>2. job[w].prompt # p
    BY <1>1, <2>1
  <2>3. QED
    BY <1>2, <2>1, <2>2
<1>9. Requests'
  BY <1>5, <1>6, <1>7, <1>8, OthersWork
<1>10. QED
  BY <1>1, <1>2, <1>3, <1>5, <1>6, <1>9

\* A step of a prompt's engine: the request goes on with the same prompt.
LEMMA RequestsEngine ==
  ASSUME RpcTypeOK, Requests, NEW v \in Servers,
         EngineSession(v) \/ EngineAsks(v) \/ EngineAnswers(v) \/ Answer(v)
  PROVE  /\ Requests' /\ Known' = Known
         /\ job'[v].session = job[v].session /\ job'[v].prompt = job[v].prompt
         /\ EngineSession(v) \/ job'[v].agent = job[v].agent
         /\ at[v] \in Prompting /\ at'[v] \in Prompting
         /\ \A w \in Servers : w # v => at'[w] = at[w] /\ job'[w] = job[w]
         /\ UNCHANGED client
<1>1. UNCHANGED client
  BY DEF EngineSession, EngineAsks, EngineAnswers, Answer
<1>2. CASE EngineSession(v)
  <2> DEFINE j == [job[v] EXCEPT !.agent = saved[Len(saved)]]
  <2>1. at[v] = "engine" /\ saved' = saved /\ Proceed(v, "question", j)
    BY <1>2 DEF EngineSession
  <2>2. /\ j \in Job /\ j.session = job[v].session /\ j.prompt = job[v].prompt /\ j.agent \in Known
    <3>1. saved[Len(saved)] \in Known /\ j \in Job /\ job[v] \in Job
      BY <1>2, RpcTypesEngineSession DEF RpcTypeOK
    <3>2. QED
      BY <3>1 DEF Job
  <2> HIDE DEF j
  <2>3. /\ at'[v] = "question" /\ job'[v] = j
        /\ \A w \in Servers : w # v => at'[w] = at[w] /\ job'[w] = job[w]
    BY <2>1, <2>2, ProceedMoves DEF Labels, Prompting
  <2>4. Known' = Known
    BY <2>1 DEF Known
  <2>5. Working(v)'
    BY <1>1, <2>1, <2>2, <2>3, <2>4 DEF Requests, Working, Prompting
  <2>6. Requests'
    BY <1>1, <2>3, <2>4, <2>5, OthersWork
  <2>7. QED
    BY <1>1, <1>2, <2>1, <2>2, <2>3, <2>4, <2>6 DEF Prompting
<1>3. CASE EngineAsks(v) \/ Answer(v)
  <2>1. /\ saved' = saved /\ at[v] \in {"question", "answer"}
        /\ \/ at[v] = "question" /\ Proceed(v, "run", job[v])
           \/ Proceed(v, "stream", job[v])
    BY <1>3 DEF EngineAsks, Answer
  <2>2. job[v] \in Job
    BY DEF RpcTypeOK
  <2>3. /\ at'[v] \in {"run", "stream"} /\ job'[v] = job[v]
        /\ \A w \in Servers : w # v => at'[w] = at[w] /\ job'[w] = job[w]
    BY <2>1, <2>2, ProceedMoves DEF Labels, Prompting
  <2>4. Known' = Known
    BY <2>1 DEF Known
  <2>5. Working(v)'
    BY <1>1, <2>1, <2>3, <2>4 DEF Requests, Working, Prompting
  <2>6. Requests'
    BY <1>1, <2>3, <2>4, <2>5, OthersWork
  <2>7. QED
    BY <1>1, <2>1, <2>3, <2>4, <2>6 DEF Prompting
<1>4. CASE EngineAnswers(v)
  <2>1. at[v] = "run"
    BY <1>4 DEF EngineAnswers
  <2>2. Working(v)'
    BY <1>1, <1>4, <2>1, EngineAnswersMoves DEF Requests, Working, Prompting
  <2>3. Requests'
    BY <1>1, <1>4, <2>2, EngineAnswersMoves, OthersWork
  <2>4. QED
    BY <1>1, <1>4, <2>1, <2>3, EngineAnswersMoves DEF Prompting
<1>5. QED
  BY <1>2, <1>3, <1>4

\* A reply ends its request; the streams it opens are of no other request.
LEMMA RequestsReply ==
  ASSUME RpcTypeOK, Requests, NEW v \in Servers, Reply(v)
  PROVE  Requests'
<1>1. at'[v] = "idle" /\ \A w \in Servers : w # v => at'[w] = at[w] /\ job'[w] = job[w]
  BY DoneMoves DEF Reply
<1>2. Known' = Known /\ Working(v)'
  BY <1>1 DEF Reply, Known, Working, Prompting
<1>3. PICK p \in Prompts : p = job[v].prompt
  BY ReplyMoves
<1>4. \A q \in Prompts : q # p => client'[q] = client[q]
  <2>1. client' = client \/ client' = [client EXCEPT ![p].state = "open"]
    BY <1>3, ReplyMoves
  <2>2. QED
    BY <2>1 DEF RpcTypeOK
<1>5. client[p].server = v
  BY <1>3, ReplyMoves
<1>6. \A w \in Servers : w # v /\ at[w] \in Prompting => client'[job[w].prompt] = client[job[w].prompt]
  BY <1>4, <1>5, OtherPrompts
<1>7. QED
  BY <1>1, <1>2, <1>6, OthersWork

\* A client that asks for chunks disturbs no request: its prompt has its reply.
LEMMA RequestsStreamNext ==
  ASSUME RpcTypeOK, Requests, Streams, NEW v \in Servers, NEW p \in Prompts, NEW asked \in 1..MaxAsked,
         StreamNext(v, p, asked)
  PROVE  Requests'
<1>1. UNCHANGED <<saved, at, job>> /\ at[v] = "idle"
  BY DEF StreamNext
<1>2. ASSUME NEW w \in Servers, at[w] \in Prompting
      PROVE  client'[job[w].prompt] = client[job[w].prompt]
  <2>1. job[w].prompt \in Prompts /\ client[job[w].prompt].state = "sent"
    BY <1>2 DEF Requests, Working
  <2>2. job[w].prompt # p
    BY <2>1, StreamNextMoves
  <2>3. QED
    BY <2>1, <2>2, StreamNextMoves
<1>3. QED
  BY <1>1, <1>2 DEF Requests, Working, Known

\* Requests, when a server has become idle and nothing else has changed for them.
LEMMA RequestsDone ==
  ASSUME RpcTypeOK, Requests, NEW v \in Servers, Done(v), Known \subseteq Known',
         \A q \in Prompts : client'[q].server = client[q].server /\ client'[q].state = client[q].state
  PROVE  Requests'
<1>1. at'[v] = "idle" /\ \A w \in Servers : w # v => at'[w] = at[w] /\ job'[w] = job[w]
  BY DoneMoves
<1>2. Working(v)'
  BY <1>1 DEF Working, Prompting
<1>3. QED
  BY <1>1, <1>2, OtherPrompts, OthersWork

\* The steps of an import keep the requests valid.
LEMMA RequestsImport ==
  ASSUME RpcTypeOK, Requests, NEW v \in Servers
  PROVE  /\ \A t \in Sessions, h \in Links, c \in Links \cup {None} : ImportBundle(v, t, h, c) => Requests'
         /\ ImportTurn(v) => Requests'
         /\ ImportEnds(v) => Requests'
<1>1. ASSUME NEW t \in Sessions, NEW h \in Links, NEW c \in Links \cup {None}, ImportBundle(v, t, h, c)
      PROVE  Requests'
  <2>1. Working(v)'
    BY <1>1, ImportBundleMoves DEF Working, Prompting
  <2>2. QED
    BY <1>1, <2>1, ImportBundleMoves, OthersWork
<1>2. ASSUME ImportTurn(v)
      PROVE  Requests'
  <2>1. UNCHANGED <<saved, client>>
    BY <1>2 DEF ImportTurn
  <2>2. Working(v) /\ Known' = Known
    BY <2>1 DEF Requests, Known
  <2>3. Working(v)'
    BY <1>2, <2>2, ImportTurnMoves DEF Working, Prompting
  <2>4. QED
    BY <1>2, <2>1, <2>2, <2>3, ImportTurnMoves, OthersWork
<1>3. ASSUME ImportEnds(v)
      PROVE  Requests'
  <2>1. Known' = Known
    BY <1>3, ImportEndsMoves DEF Known
  <2>2. Working(v)'
    BY <1>3, <2>1, ImportEndsMoves DEF Working, Prompting
  <2>3. QED
    BY <1>3, <2>1, <2>2, ImportEndsMoves, OthersWork
<1>4. QED
  BY <1>1, <1>2, <1>3

\* Sessions that are not known have no turns, when no turn is written.
LEMMA UnknownKept == ASSUME Unknown, Known \subseteq Known', UNCHANGED log PROVE Unknown'
  BY DEF Unknown

\* A turn is written to a known session.
LEMMA UnknownAppend ==
  ASSUME RpcTypeOK, Unknown, NEW s \in Known, NEW role \in {"user", "assistant"}, NEW p \in Prompts,
         NEW by \in {"handler", "agent", "import"}, Appended(s, role, p, by), Known \subseteq Known'
  PROVE  Unknown'
<1>1. s \in Sessions
  BY KnownSessions
<1>2. \A t \in Sessions : t # s => log'[t] = log[t]
  BY <1>1, AppendedTurn
<1>3. QED
  BY <1>2 DEF Unknown

\* An engine records a turn or fails to.
LEMMA EngineAsksTurn ==
  ASSUME NEW v \in Servers, EngineAsks(v)
  PROVE  \/ Appended(job[v].agent, "user", job[v].prompt, "agent") /\ UNCHANGED failures
         \/ MayFail /\ UNCHANGED log
  BY DEF EngineAsks

\* At its end the engine records the answer, fails to, or ends with an error.
LEMMA EngineAnswersTurn ==
  ASSUME NEW v \in Servers, EngineAnswers(v)
  PROVE  \/ Appended(job[v].agent, "assistant", job[v].prompt, "agent") /\ UNCHANGED failures
         \/ MayFail /\ UNCHANGED log
         \/ UNCHANGED <<log, failures>>
  BY DEF EngineAnswers

\* An engine writes to known sessions only.
LEMMA UnknownEngine ==
  ASSUME RpcTypeOK, Requests, Unknown, NEW v \in Servers,
         EngineAsks(v) \/ EngineAnswers(v) \/ Answer(v)
  PROVE  Unknown'
<1>1. Known' = Known
  BY RequestsEngine
<1>2. at[v] \in {"question", "run", "answer"}
  BY DEF EngineAsks, EngineAnswers, Answer
<1>3. job[v].agent \in Known /\ job[v].session \in Known /\ job[v].prompt \in Prompts
  BY <1>2, EngineTurn
<1>4. \/ UNCHANGED log
      \/ Appended(job[v].agent, "user", job[v].prompt, "agent")
      \/ Appended(job[v].agent, "assistant", job[v].prompt, "agent")
      \/ Appended(job[v].session, "assistant", job[v].prompt, "handler")
  BY EngineAsksTurn, EngineAnswersTurn DEF Answer
<1>5. QED
  BY <1>1, <1>3, <1>4, UnknownKept, UnknownAppend

\* So does an import.
LEMMA UnknownImport ==
  ASSUME RpcTypeOK, Requests, Unknown, NEW v \in Servers, ImportTurn(v)
  PROVE  Unknown'
<1> DEFINE m == Head(job[v].rest)
<1>1. m \in Turn /\ Appended(job[v].session, m.role, m.prompt, "import") /\ at[v] = "import"
  BY ImportTurnMoves
<1> HIDE DEF m
<1>2. m.role \in {"user", "assistant"} /\ m.prompt \in Prompts
  BY <1>1 DEF Turn
<1>3. job[v].session \in Known /\ Known' = Known
  BY <1>1 DEF Requests, Working, ImportTurn, Known
<1>4. QED
  BY <1>1, <1>2, <1>3, UnknownAppend

-----------------------------------------------------------------------------
(* Streams *)

\* A question opens no stream.
LEMMA StreamsAsk ==
  ASSUME RpcTypeOK, Requests, Streams, NEW v \in Servers, NEW s \in Sessions, NEW p \in Prompts, Ask(v, s, p)
  PROVE  Streams'
<1>1. UNCHANGED stream /\ client[p].state = "unsent"
  BY DEF Ask
<1>2. ASSUME NEW q \in Prompts, q # p
      PROVE  StreamOf(q)'
  BY <1>1, <1>2, RequestsAsk DEF Streams, StreamOf
<1>3. StreamOf(p)'
  BY <1>1, RequestsAsk DEF Streams, StreamOf
<1>4. QED
  BY <1>2, <1>3 DEF Streams

\* A reply opens the one stream of its prompt, with every chunk.
LEMMA StreamsReply ==
  ASSUME RpcTypeOK, Requests, Streams, NEW v \in Servers, Reply(v)
  PROVE  Streams'
<1>1. PICK p \in Prompts : p = job[v].prompt
  BY ReplyMoves
<1>2. CASE UNCHANGED <<stream, client>>
  BY <1>2 DEF Streams, StreamOf
<1>3. CASE /\ stream' = [stream EXCEPT ![v][p] = Chunks]
           /\ client' = [client EXCEPT ![p].state = "open"]
  <2>1. stream \in [Servers -> [Prompts -> {NoStream, Chunks}]] /\ client[p] \in Client /\ DOMAIN client = Prompts
    BY DEF RpcTypeOK
  <2>2. /\ stream'[v][p] = Chunks /\ NoStream # Chunks
        /\ \A w \in Servers : w # v => stream'[w][p] = stream[w][p]
        /\ \A w \in Servers, q \in Prompts : q # p => stream'[w][q] = stream[w][q]
    BY <1>3, <2>1, RpcSessionsAssumption DEF NoStream
  <2>3. /\ client'[p].state = "open" /\ client'[p].server = v
        /\ client'[p].got = client[p].got /\ client'[p].cursor = client[p].cursor
        /\ \A q \in Prompts : q # p => client'[q] = client[q]
    <3>1. client[p].server = v
      BY <1>1, ReplyMoves
    <3>2. QED
      BY <1>3, <2>1, <3>1 DEF Client
  <2>4. ASSUME NEW q \in Prompts, q # p
        PROVE  StreamOf(q)'
    BY <2>2, <2>3, <2>4 DEF Streams, StreamOf
  <2>5. \A w \in Servers : w # v => stream'[w][p] = NoStream
    <3>1. client[p].state = "sent"
      BY <1>1, ReplyMoves
    <3>2. QED
      BY <2>2, <3>1 DEF Streams, StreamOf
  <2>6. StreamOf(p)'
    BY <2>2, <2>3, <2>5 DEF Streams, StreamOf
  <2>7. QED
    BY <2>4, <2>6 DEF Streams
<1>4. QED
  BY <1>1, <1>2, <1>3, ReplyMoves

\* Asking for chunks keeps the streams of the other prompts.
LEMMA StreamsStreamNext ==
  ASSUME RpcTypeOK, Streams, NEW v \in Servers, NEW p \in Prompts, NEW asked \in 1..MaxAsked,
         StreamNext(v, p, asked)
  PROVE  Streams'
<1> SUFFICES ASSUME NEW q \in Prompts, q # p PROVE StreamOf(q)'
  BY StreamNextMoves DEF Streams
<1>1. /\ client'[q] = client[q] /\ StreamOf(q)
      /\ \A w \in Servers : stream'[w][q] = stream[w][q]
  BY StreamNextMoves DEF Streams
<1>2. QED
  BY <1>1 DEF StreamOf

\* The end of a server takes its streams; their clients have lost them.
LEMMA StreamsServerEnds ==
  ASSUME RpcTypeOK, Streams, NEW v \in Servers, ServerEnds(v)
  PROVE  Streams'
<1> SUFFICES ASSUME NEW q \in Prompts PROVE StreamOf(q)'
  BY DEF Streams
<1>1. StreamOf(q)
  BY DEF Streams
<1>2. /\ client'[q].server = client[q].server /\ client'[q].cursor = client[q].cursor
      /\ client'[q].got = client[q].got /\ client'[q].state = client[q].state
      /\ client'[q].lost <=> client[q].lost \/ stream[v][q] # NoStream
  BY ServerEndsMoves
<1>3. stream'[v][q] = NoStream /\ \A w \in Servers : w # v => stream'[w][q] = stream[w][q]
  BY ServerEndsMoves
<1>4. \A w \in Servers : client'[q].state = "open" /\ client'[q].server = w /\ stream'[w][q] = NoStream
                           => client'[q].lost
  BY <1>1, <1>2, <1>3 DEF StreamOf
<1>5. QED
  BY <1>1, <1>2, <1>3, <1>4 DEF StreamOf

-----------------------------------------------------------------------------
(* Handoffs *)

\* What Turns keeps of a turn.
Said == [role : {"user", "assistant"}, prompt : Prompts]

\* Turns keeps what was said, turn by turn.
LEMMA TurnsAreSaid ==
  ASSUME NEW seq \in Seq(Turn)
  PROVE  /\ Turns(seq) \in Seq(Said) /\ Len(Turns(seq)) = Len(seq) /\ Len(seq) \in Nat
         /\ \A i \in 1..Len(seq) : Turns(seq)[i] = [role |-> seq[i].role, prompt |-> seq[i].prompt]
<1>1. DOMAIN seq = 1..Len(seq) /\ Len(seq) \in Nat
  OBVIOUS
<1>2. \A i \in 1..Len(seq) : [role |-> seq[i].role, prompt |-> seq[i].prompt] \in Said
  <2>1. \A i \in 1..Len(seq) : seq[i] \in Turn
    <3> HIDE DEF Turn
    <3>1. QED
      OBVIOUS
  <2>2. QED
    BY <2>1 DEF Turn, Said
<1> HIDE DEF Turn, Said
<1>3. Turns(seq) = [i \in 1..Len(seq) |-> [role |-> seq[i].role, prompt |-> seq[i].prompt]]
  BY <1>1 DEF Turns
<1>4. QED
  BY <1>1, <1>2, <1>3

\* No turns, nothing said.
LEMMA NoTurns == Turns(<<>>) = <<>>
  BY DEF Turns

\* An empty list adds nothing.
LEMMA EmptyBefore == ASSUME NEW T, NEW b \in Seq(T) PROVE <<>> \o b = b /\ b \o <<>> = b
  OBVIOUS

\* A turn that moves from the bundle to the log leaves both together as they are.
LEMMA TurnMoves ==
  ASSUME NEW a \in Seq(Turn), NEW r \in Seq(Turn), r # <<>>, NEW x \in Turn,
         x.role = Head(r).role, x.prompt = Head(r).prompt
  PROVE  Turns(Append(a, x)) \o Turns(Tail(r)) = Turns(a) \o Turns(r)
<1> DEFINE b == Append(a, x)
           u == Tail(r)
           m == Len(a)
           n == Len(r)
<1> HIDE DEF Turn
<1>1. /\ b \in Seq(Turn) /\ Len(b) = m + 1 /\ b[m + 1] = x /\ \A i \in 1..m : b[i] = a[i]
      /\ u \in Seq(Turn) /\ Len(u) = n - 1 /\ \A i \in 1..(n - 1) : u[i] = r[i + 1]
      /\ m \in Nat /\ n \in Nat /\ n > 0 /\ Head(r) = r[1]
  OBVIOUS
<1> HIDE DEF b, u
<1> DEFINE tb == Turns(b)
           tu == Turns(u)
           ta == Turns(a)
           tr == Turns(r)
<1>2. /\ tb \in Seq(Said) /\ Len(tb) = m + 1
      /\ \A i \in 1..(m + 1) : tb[i] = [role |-> b[i].role, prompt |-> b[i].prompt]
      /\ tu \in Seq(Said) /\ Len(tu) = n - 1
      /\ \A i \in 1..(n - 1) : tu[i] = [role |-> u[i].role, prompt |-> u[i].prompt]
      /\ ta \in Seq(Said) /\ Len(ta) = m
      /\ \A i \in 1..m : ta[i] = [role |-> a[i].role, prompt |-> a[i].prompt]
      /\ tr \in Seq(Said) /\ Len(tr) = n
      /\ \A i \in 1..n : tr[i] = [role |-> r[i].role, prompt |-> r[i].prompt]
  BY <1>1, TurnsAreSaid
<1> HIDE DEF m, n, ta, tb, tu, tr
<1> DEFINE l == tb \o tu
           t == ta \o tr
<1>3. /\ l \in Seq(Said) /\ Len(l) = m + n /\ t \in Seq(Said) /\ Len(t) = m + n
      /\ \A i \in 1..(m + 1) : l[i] = tb[i]
      /\ \A i \in 1..(m + n) : i > m + 1 => i - (m + 1) \in 1..(n - 1) /\ l[i] = tu[i - (m + 1)]
      /\ \A i \in 1..m : t[i] = ta[i]
      /\ \A i \in 1..(m + n) : i > m => i - m \in 1..n /\ t[i] = tr[i - m]
  <2>0. tb \in Seq(Said) /\ tu \in Seq(Said) /\ ta \in Seq(Said) /\ tr \in Seq(Said)
    BY <1>2
  <2>1. /\ l \in Seq(Said) /\ Len(l) = Len(tb) + Len(tu)
        /\ \A i \in 1..Len(tb) : l[i] = tb[i]
        /\ \A i \in 1..Len(l) : i > Len(tb) => i - Len(tb) \in 1..Len(tu) /\ l[i] = tu[i - Len(tb)]
    BY <2>0, Joined
  <2>2. /\ t \in Seq(Said) /\ Len(t) = Len(ta) + Len(tr)
        /\ \A i \in 1..Len(ta) : t[i] = ta[i]
        /\ \A i \in 1..Len(t) : i > Len(ta) => i - Len(ta) \in 1..Len(tr) /\ t[i] = tr[i - Len(ta)]
    BY <2>0, Joined
  <2> HIDE DEF l, t
  <2>3. Len(l) = m + n /\ Len(t) = m + n
    BY <1>1, <1>2, <2>1, <2>2
  <2>4. QED
    BY <1>2, <2>1, <2>2, <2>3
<1> HIDE DEF l, t
<1>4. ASSUME NEW i \in 1..(m + n)
      PROVE  l[i] = t[i]
  <2>1. CASE i <= m
    <3>1. i \in 1..m /\ i \in 1..(m + 1)
      BY <1>1, <2>1
    <3>2. b[i] = a[i]
      BY <1>1, <3>1
    <3>3. l[i] = tb[i] /\ t[i] = ta[i]
      BY <1>3, <3>1
    <3>4. QED
      BY <1>2, <3>1, <3>2, <3>3
  <2>2. CASE i = m + 1
    <3>1. i \in 1..(m + 1) /\ i > m /\ i - m = 1 /\ 1 \in 1..n
      BY <1>1, <2>2
    <3>2. l[i] = [role |-> x.role, prompt |-> x.prompt]
      BY <1>1, <1>2, <1>3, <2>2, <3>1
    <3>3. t[i] = [role |-> r[1].role, prompt |-> r[1].prompt]
      <4>1. i \in 1..(m + n) /\ t[i] = tr[1]
        BY <1>3, <3>1
      <4>2. QED
        BY <1>2, <3>1, <4>1
    <3>4. QED
      BY <1>1, <3>2, <3>3
  <2>3. CASE i > m + 1
    <3>1. /\ i > m /\ i - (m + 1) \in 1..(n - 1) /\ (i - (m + 1)) + 1 = i - m
      BY <1>1, <1>3, <2>3
    <3>2. u[i - (m + 1)] = r[i - m]
      BY <1>1, <3>1
    <3>3. l[i] = [role |-> u[i - (m + 1)].role, prompt |-> u[i - (m + 1)].prompt]
      BY <1>2, <1>3, <2>3, <3>1
    <3>4. t[i] = [role |-> r[i - m].role, prompt |-> r[i - m].prompt]
      BY <1>2, <1>3, <3>1
    <3>5. QED
      BY <3>2, <3>3, <3>4
  <2>4. QED
    BY <1>1, <2>1, <2>2, <2>3
<1>5. l = t
  <2>1. l \in Seq(Said) /\ t \in Seq(Said) /\ Len(l) = m + n /\ Len(t) = Len(l)
    BY <1>3
  <2>2. \A i \in 1..Len(l) : l[i] = t[i]
    BY <1>4, <2>1
  <2>3. QED
    BY <2>1, <2>2
<1>6. QED
  BY <1>5 DEF l, t, ta, tb, tr, tu, b, u

\* The imported turns of a session.
Arrived(s) == Only(log[s], Imported)

\* What has arrived are turns.
LEMMA ArrivedTurns == ASSUME RpcTypeOK, NEW s \in Sessions PROVE Arrived(s) \in Seq(Turn)
<1>1. log[s] \in Seq(Turn)
  BY DEF RpcTypeOK
<1> HIDE DEF Turn, Imported
<1>2. Arrived(s) \in Seq(Turn \cap Imported)
  BY <1>1, OnlySelects DEF Arrived
<1>3. QED
  BY <1>2

\* Only an import adds to them.
LEMMA ArrivedAppend ==
  ASSUME RpcTypeOK, NEW s \in Sessions, NEW role \in {"user", "assistant"}, NEW p \in Prompts,
         NEW by \in {"handler", "agent", "import"}, Appended(s, role, p, by)
  PROVE  /\ \A t \in Sessions : t # s \/ by # "import" => Arrived(t)' = Arrived(t)
         /\ by = "import" => Arrived(s)' = Append(Arrived(s), [role |-> role, prompt |-> p, by |-> by])
<1> DEFINE x == [role |-> role, prompt |-> p, by |-> by]
<1>1. x \in Imported <=> by = "import"
  BY DEF Imported
<1>2. log[s] \in Seq(Turn) /\ x \in Turn /\ log'[s] = Append(log[s], x)
  BY AppendedTurn DEF RpcTypeOK
<1>3. \A t \in Sessions : t # s => Arrived(t)' = Arrived(t)
  BY AppendedTurn DEF Arrived
<1> HIDE DEF x, Turn, Imported
<1>4. Only(Append(log[s], x), Imported) = IF x \in Imported THEN Append(Only(log[s], Imported), x) ELSE Only(log[s], Imported)
  BY <1>2, OnlyAppend
<1>5. Arrived(s)' = IF by = "import" THEN Append(Arrived(s), x) ELSE Arrived(s)
  BY <1>1, <1>2, <1>4 DEF Arrived
<1>6. QED
  BY <1>3, <1>5 DEF x

\* A session is filled by one server at a time, and not after its import has ended.
OneImporter ==
    /\ \A v, w \in Servers :
          at[v] = "import" /\ at[w] = "import" /\ job[v].session = job[w].session => v = w
    /\ \A h \in Links, v \in Servers :
          imported[h] \subseteq Known /\ (at[v] = "import" => job[v].session \notin imported[h])

\* What has arrived in a session and what its request still carries make up the bundle.
Carried(v) == Turns(Arrived(job[v].session)) \o Turns(job[v].rest)
Carrying ==
    /\ \A v \in Servers : at[v] = "import" /\ job[v].link # None =>
         link[job[v].link].made /\ Carried(v) = Turns(link[job[v].link].bundle)
    /\ \A h \in Links, s \in Sessions : s \in imported[h] =>
         link[h].made /\ Turns(Arrived(s)) = Turns(link[h].bundle)

\* Sessions that an import adds to a link are paid for by a mark to come, by a
\* failure, or by a server that had begun before the link was marked.
Importing(h) == {v \in Servers : at[v] = "import" /\ job[v].link = h}
Marking(h) == {v \in Servers : at[v] = "mark" /\ job[v].link = h}
MarkedLink(h) ==
    /\ link[h].used \/ Marking(h) # {} => imported[h] # {}
    /\ IsFiniteSet(imported[h])
    /\ ~link[h].used => Cardinality(imported[h]) <= failures + Cardinality(Marking(h))
    /\ link[h].used => Cardinality(imported[h]) + Cardinality(Importing(h)) <= failures + Cardinality(Servers)
Marked == \A h \in Links : MarkedLink(h)

\* One importer per session, when no import begins or ends.
LEMMA OneImporterKept ==
  ASSUME OneImporter, Known \subseteq Known', UNCHANGED imported,
         \A w \in Servers : at'[w] = "import" => at[w] = "import" /\ job'[w].session = job[w].session
  PROVE  OneImporter'
  BY DEF OneImporter

\* Bundles stay complete, when no imported turn is written.
LEMMA CarryingKept ==
  ASSUME RpcTypeOK, Carrying, UNCHANGED imported,
         \A s \in Sessions : Arrived(s)' = Arrived(s),
         \A w \in Servers : at'[w] = "import" => at[w] = "import" /\ job'[w] = job[w] /\ job[w].session \in Known,
         \A h \in Links : link[h].made => link'[h].made /\ link'[h].bundle = link[h].bundle
  PROVE  Carrying'
<1>1. ASSUME NEW w \in Servers, at'[w] = "import", job'[w].link # None
      PROVE  link'[job'[w].link].made /\ Carried(w)' = Turns(link'[job'[w].link].bundle)
  <2>1. /\ at[w] = "import" /\ job'[w] = job[w] /\ job[w].session \in Sessions /\ job[w].link \in Links
    BY <1>1, KnownSessions DEF RpcTypeOK, Job
  <2>2. link[job[w].link].made /\ Carried(w) = Turns(link[job[w].link].bundle)
    BY <1>1, <2>1 DEF Carrying
  <2>3. Carried(w)' = Carried(w)
    <3>1. PICK s \in Sessions : s = job[w].session
      BY <2>1
    <3>2. Arrived(s)' = Arrived(s)
      OBVIOUS
    <3>3. QED
      BY <2>1, <3>1, <3>2 DEF Carried, Arrived
  <2>4. QED
    BY <2>1, <2>2, <2>3
<1>2. ASSUME NEW h \in Links, NEW s \in Sessions, s \in imported'[h]
      PROVE  link'[h].made /\ Turns(Arrived(s)') = Turns(link'[h].bundle)
  BY <1>2 DEF Carrying
<1>3. QED
  BY <1>1, <1>2 DEF Carrying

\* The servers that fill and mark a link.
LEMMA ServersOfLink ==
  ASSUME NEW h
  PROVE  /\ IsFiniteSet(Servers) /\ IsFiniteSet(Importing(h)) /\ IsFiniteSet(Marking(h))
         /\ Cardinality(Servers) \in Nat /\ Cardinality(Importing(h)) \in Nat /\ Cardinality(Marking(h)) \in Nat
         /\ Cardinality(Importing(h)) + Cardinality(Marking(h)) <= Cardinality(Servers)
<1>1. IsFiniteSet(Servers) /\ Importing(h) \subseteq Servers /\ Marking(h) \subseteq Servers
  BY RpcSessionsAssumption DEF Importing, Marking
<1>2. IsFiniteSet(Importing(h)) /\ IsFiniteSet(Marking(h))
  BY <1>1, FS_Subset
<1>3. /\ Cardinality(Servers) \in Nat /\ Cardinality(Importing(h)) \in Nat /\ Cardinality(Marking(h)) \in Nat
  BY <1>1, <1>2, FS_CardinalityType
<1>4. Importing(h) \cap Marking(h) = {}
  BY DEF Importing, Marking
<1> DEFINE both == Importing(h) \cup Marking(h)
<1>5. Cardinality(both) = Cardinality(Importing(h)) + Cardinality(Marking(h))
  <2>1. Cardinality(Importing(h) \cap Marking(h)) = 0
    BY <1>4, FS_EmptySet
  <2>2. Cardinality(both) = Cardinality(Importing(h)) + Cardinality(Marking(h)) - Cardinality(Importing(h) \cap Marking(h))
    BY <1>2, FS_Union
  <2> HIDE DEF both
  <2>3. QED
    BY <1>3, <2>1, <2>2
<1>6. Cardinality(both) <= Cardinality(Servers)
  BY <1>1, FS_Subset
<1> HIDE DEF both
<1>7. QED
  BY <1>1, <1>2, <1>3, <1>5, <1>6

\* One server more or less.
LEMMA OneMore ==
  ASSUME NEW S, IsFiniteSet(S), NEW T, NEW x, T \subseteq S \cup {x}
  PROVE  /\ IsFiniteSet(T) /\ Cardinality(T) \in Nat /\ Cardinality(S) \in Nat
         /\ Cardinality(T) <= Cardinality(S) + 1
<1>1. IsFiniteSet(S \cup {x}) /\ Cardinality(S) \in Nat /\ Cardinality(S \cup {x}) \in Nat
      /\ Cardinality(S \cup {x}) <= Cardinality(S) + 1
  <2>1. /\ IsFiniteSet(S \cup {x}) /\ Cardinality(S) \in Nat
        /\ Cardinality(S \cup {x}) = IF x \in S THEN Cardinality(S) ELSE Cardinality(S) + 1
    BY FS_AddElement, FS_CardinalityType
  <2>2. QED
    BY <2>1
<1>2. IsFiniteSet(T) /\ Cardinality(T) <= Cardinality(S \cup {x}) /\ Cardinality(T) \in Nat
  BY <1>1, FS_Subset, FS_CardinalityType
<1>3. QED
  BY <1>1, <1>2

\* No server has begun or ended to fill or mark a link.
LEMMA MarkedKept ==
  ASSUME RpcTypeOK, Marked, UNCHANGED <<link, imported>>, failures' \in {failures, failures + 1},
         \A w \in Servers : \/ at'[w] = at[w] /\ job'[w] = job[w]
                            \/ at[w] \notin {"import", "mark"} /\ at'[w] \notin {"import", "mark"}
                            \/ at[w] = "import" /\ at'[w] = "import" /\ job'[w].link = job[w].link
  PROVE  Marked'
<1> SUFFICES ASSUME NEW h \in Links PROVE MarkedLink(h)'
  BY DEF Marked
<1>1. Importing(h)' = Importing(h) /\ Marking(h)' = Marking(h)
  BY DEF Importing, Marking
<1>2. failures \in Nat /\ failures' \in Nat /\ failures' >= failures
  BY DEF RpcTypeOK
<1>3. /\ Cardinality(Servers) \in Nat /\ Cardinality(Importing(h)) \in Nat /\ Cardinality(Marking(h)) \in Nat
  BY ServersOfLink
<1>4. MarkedLink(h) /\ Cardinality(imported[h]) \in Nat
  BY FS_CardinalityType DEF Marked, MarkedLink
<1>5. QED
  BY <1>1, <1>2, <1>3, <1>4 DEF MarkedLink

\* A server fails or ends: a failure pays for what it has imported.
LEMMA MarkedFails ==
  ASSUME RpcTypeOK, Marked, UNCHANGED <<link, imported>>, failures' = failures + 1,
         NEW v \in Servers, at'[v] = "idle",
         \A w \in Servers : w # v => at'[w] = at[w] /\ job'[w] = job[w]
  PROVE  Marked'
<1> SUFFICES ASSUME NEW h \in Links PROVE MarkedLink(h)'
  BY DEF Marked
<1>1. /\ Importing(h)' \subseteq Importing(h) /\ Marking(h)' \subseteq Marking(h)
      /\ Marking(h) \subseteq Marking(h)' \cup {v}
  BY DEF Importing, Marking
<1>2. failures \in Nat
  BY DEF RpcTypeOK
<1>3. /\ IsFiniteSet(Importing(h)) /\ IsFiniteSet(Marking(h))
      /\ Cardinality(Servers) \in Nat /\ Cardinality(Importing(h)) \in Nat /\ Cardinality(Marking(h)) \in Nat
  BY ServersOfLink
<1>4. MarkedLink(h) /\ Cardinality(imported[h]) \in Nat
  BY FS_CardinalityType DEF Marked, MarkedLink
<1>5. /\ IsFiniteSet(Importing(h)') /\ IsFiniteSet(Marking(h)')
      /\ Cardinality(Importing(h)') \in Nat /\ Cardinality(Marking(h)') \in Nat
      /\ Cardinality(Importing(h)') <= Cardinality(Importing(h))
  BY <1>1, <1>3, FS_Subset, FS_CardinalityType
<1>6. Cardinality(Marking(h)) <= Cardinality(Marking(h)') + 1
  BY <1>1, <1>5, OneMore
<1>7. QED
  BY <1>1, <1>2, <1>3, <1>4, <1>5, <1>6 DEF MarkedLink

\* A new link has been imported by nobody.
LEMMA HandoffLinkCreate ==
  ASSUME RpcTypeOK, Requests, OneImporter, Carrying, Marked,
         NEW v \in Servers, NEW s \in Sessions, NEW h \in Links, LinkCreate(v, s, h)
  PROVE  OneImporter' /\ Carrying' /\ Marked'
<1>1. /\ ~link[h].made /\ link' = [link EXCEPT ![h] = [made |-> TRUE, used |-> FALSE, bundle |-> log[s]]]
      /\ UNCHANGED <<log, saved, stream, client, at, job, imported, failures>>
  BY DEF LinkCreate
<1>2. /\ \A g \in Links : g # h => link'[g] = link[g]
      /\ link'[h].made /\ ~link'[h].used
  BY <1>1 DEF RpcTypeOK
<1>3. OneImporter'
  BY <1>1 DEF OneImporter, Known
<1>4. Carrying'
  <2>1. \A w \in Servers : at[w] = "import" => job[w].session \in Known
    BY DEF Requests, Working
  <2>2. QED
    BY <1>1, <1>2, <2>1, CarryingKept DEF Arrived
<1>5. Marked'
  <2> SUFFICES ASSUME NEW g \in Links PROVE MarkedLink(g)'
    BY DEF Marked
  <2>1. Importing(g)' = Importing(g) /\ Marking(g)' = Marking(g)
    BY <1>1 DEF Importing, Marking
  <2>2. MarkedLink(g)
    BY DEF Marked
  <2>3. CASE g # h
    BY <1>1, <1>2, <2>1, <2>2, <2>3 DEF MarkedLink
  <2>4. CASE g = h
    <3>1. imported[h] = {}
      <4>1. imported[h] \subseteq Sessions
        BY DEF RpcTypeOK
      <4>2. QED
        BY <1>1, <4>1 DEF Carrying
    <3>2. Cardinality(imported[h]) = 0 /\ failures \in Nat /\ Cardinality(Marking(h)) \in Nat
      BY <3>1, FS_EmptySet, ServersOfLink DEF RpcTypeOK
    <3>3. QED
      BY <1>1, <1>2, <2>1, <2>2, <2>4, <3>2 DEF MarkedLink
  <2>5. QED
    BY <2>3, <2>4
<1>6. QED
  BY <1>3, <1>4, <1>5

\* An import begins with an empty session and carries the whole bundle; one that
\* will mark its link begins before the mark.
LEMMA HandoffImportBundle ==
  ASSUME RpcTypeOK, Requests, Unknown, OneImporter, Carrying, Marked,
         NEW v \in Servers, NEW t \in Sessions, NEW h \in Links, NEW c \in Links \cup {None},
         ImportBundle(v, t, h, c), c # None => c = h /\ ~link[h].used
  PROVE  OneImporter' /\ Carrying' /\ Marked'
<1>1. /\ Known' = Known \cup {t} /\ t \notin Known /\ link[h].made
      /\ at[v] = "idle" /\ at'[v] = "import"
      /\ job'[v].session = t /\ job'[v].rest = link[h].bundle /\ job'[v].link = c
      /\ \A w \in Servers : w # v => at'[w] = at[w] /\ job'[w] = job[w]
      /\ UNCHANGED <<log, link, imported, failures>>
  BY ImportBundleMoves
<1>2. \A w \in Servers : at[w] = "import" => job[w].session \in Known
  BY DEF Requests, Working
<1>3. OneImporter'
  <2>1. ASSUME NEW w \in Servers, NEW u \in Servers, at'[w] = "import", at'[u] = "import",
               job'[w].session = job'[u].session
        PROVE  w = u
    BY <1>1, <1>2, <2>1 DEF OneImporter
  <2>2. ASSUME NEW g \in Links, NEW w \in Servers
        PROVE  imported'[g] \subseteq Known' /\ (at'[w] = "import" => job'[w].session \notin imported'[g])
    BY <1>1 DEF OneImporter
  <2>3. QED
    BY <2>1, <2>2 DEF OneImporter
<1>4. Carrying'
  <2>1. ASSUME NEW w \in Servers, at'[w] = "import", job'[w].link # None
        PROVE  link'[job'[w].link].made /\ Carried(w)' = Turns(link'[job'[w].link].bundle)
    <3>1. CASE w = v
      <4>1. c = h /\ log[t] = <<>>
        BY <1>1, <2>1, <3>1 DEF Unknown
      <4>2. Carried(v)' = Turns(Only(<<>>, Imported)) \o Turns(link[h].bundle)
        BY <1>1, <4>1 DEF Carried, Arrived
      <4>3. link[h].bundle \in Seq(Turn)
        BY DEF RpcTypeOK, Descriptor
      <4>4. Turns(link[h].bundle) \in Seq(Said)
        BY <4>3, TurnsAreSaid
      <4>5. Carried(v)' = Turns(link[h].bundle)
        BY <4>2, <4>4, OnlyEmpty, NoTurns, EmptyBefore
      <4>6. QED
        BY <1>1, <3>1, <4>1, <4>5
    <3>2. CASE w # v
      <4>1. at[w] = "import" /\ job'[w] = job[w] /\ UNCHANGED <<log, link>>
        BY <1>1, <2>1, <3>2
      <4>2. Carried(w)' = Carried(w)
        BY <4>1 DEF Carried, Arrived
      <4>3. QED
        BY <2>1, <4>1, <4>2 DEF Carrying
    <3>3. QED
      BY <3>1, <3>2
  <2>2. ASSUME NEW g \in Links, NEW s \in Sessions, s \in imported'[g]
        PROVE  link'[g].made /\ Turns(Arrived(s)') = Turns(link'[g].bundle)
    BY <1>1, <2>2 DEF Carrying, Arrived
  <2>3. QED
    BY <2>1, <2>2 DEF Carrying
<1>5. Marked'
  <2> SUFFICES ASSUME NEW g \in Links PROVE MarkedLink(g)'
    BY DEF Marked
  <2>1. Marking(g)' = Marking(g) /\ (link[g].used => Importing(g)' = Importing(g))
    BY <1>1, RpcSessionsAssumption DEF Importing, Marking
  <2>2. QED
    BY <1>1, <2>1 DEF Marked, MarkedLink
<1>6. QED
  BY <1>3, <1>4, <1>5

\* A turn moves from what is carried to what has arrived.
LEMMA HandoffImportTurn ==
  ASSUME RpcTypeOK, Requests, OneImporter, Carrying, Marked, NEW v \in Servers, ImportTurn(v)
  PROVE  OneImporter' /\ Carrying' /\ Marked'
<1> DEFINE m == Head(job[v].rest)
<1>1. /\ at[v] = "import" /\ at'[v] = "import"
      /\ job'[v].session = job[v].session /\ job'[v].rest = Tail(job[v].rest) /\ job'[v].link = job[v].link
      /\ \A w \in Servers : w # v => at'[w] = at[w] /\ job'[w] = job[w]
      /\ job[v].rest \in Seq(Turn) /\ job[v].rest # <<>> /\ m \in Turn
      /\ job[v].session \in Sessions /\ Appended(job[v].session, m.role, m.prompt, "import")
  BY ImportTurnMoves
<1>2. UNCHANGED <<saved, link, imported, failures>> /\ Known' = Known
  BY DEF ImportTurn, Known
<1>3. PICK s \in Sessions : s = job[v].session
  BY <1>1
<1> DEFINE x == [role |-> m.role, prompt |-> m.prompt, by |-> "import"]
<1>4. /\ \A t \in Sessions : t # s => Arrived(t)' = Arrived(t)
      /\ Arrived(s)' = Append(Arrived(s), x)
      /\ x \in Turn /\ x.role = m.role /\ x.prompt = m.prompt
  <2>1. m.role \in {"user", "assistant"} /\ m.prompt \in Prompts
    BY <1>1 DEF Turn
  <2>2. x \in Turn /\ x.role = m.role /\ x.prompt = m.prompt
    BY <2>1 DEF Turn
  <2>3. Appended(s, m.role, m.prompt, "import")
    BY <1>1, <1>3
  <2> HIDE DEF m
  <2>4. QED
    BY <2>1, <2>2, <2>3, ArrivedAppend
<1>5. \A w \in Servers : at[w] = "import" => job[w].session \in Known
  BY DEF Requests, Working
<1>6. OneImporter'
  BY <1>1, <1>2, OneImporterKept
<1>7. Carrying'
  <2>1. ASSUME NEW w \in Servers, at'[w] = "import", job'[w].link # None
        PROVE  link'[job'[w].link].made /\ Carried(w)' = Turns(link'[job'[w].link].bundle)
    <3>1. CASE w = v
      <4>1. Carried(v) = Turns(Arrived(s)) \o Turns(job[v].rest)
        BY <1>3 DEF Carried
      <4>2. Carried(v)' = Turns(Append(Arrived(s), x)) \o Turns(Tail(job[v].rest))
        <5>1. Carried(v)' = Turns(Arrived(s)') \o Turns(Tail(job[v].rest))
          BY <1>1, <1>3 DEF Carried, Arrived
        <5>2. QED
          BY <1>4, <5>1
      <4>3. Arrived(s) \in Seq(Turn)
        BY ArrivedTurns
      <4>4. Carried(v)' = Carried(v)
        <5> HIDE DEF x
        <5>1. QED
          BY <1>1, <1>4, <4>1, <4>2, <4>3, TurnMoves
      <4>5. link[job[v].link].made /\ Carried(v) = Turns(link[job[v].link].bundle)
        BY <1>1, <2>1, <3>1 DEF Carrying
      <4>6. QED
        BY <1>1, <1>2, <3>1, <4>4, <4>5
    <3>2. CASE w # v
      <4>1. at[w] = "import" /\ job'[w] = job[w] /\ job[w].session \in Sessions
        BY <1>1, <1>5, <2>1, <3>2, KnownSessions
      <4>2. PICK t \in Sessions : t = job[w].session
        BY <4>1
      <4>3. t # s
        BY <1>1, <1>3, <3>2, <4>1, <4>2 DEF OneImporter
      <4>4. Arrived(t)' = Arrived(t)
        BY <1>4, <4>3
      <4>5. Carried(w)' = Carried(w)
        BY <4>1, <4>2, <4>4 DEF Carried, Arrived
      <4>6. QED
        BY <1>2, <2>1, <4>1, <4>5 DEF Carrying
    <3>3. QED
      BY <3>1, <3>2
  <2>2. ASSUME NEW g \in Links, NEW t \in Sessions, t \in imported'[g]
        PROVE  link'[g].made /\ Turns(Arrived(t)') = Turns(link'[g].bundle)
    <3>1. t \in imported[g] /\ t # s
      BY <1>1, <1>2, <1>3, <2>2 DEF OneImporter
    <3>2. Arrived(t)' = Arrived(t)
      BY <1>4, <3>1
    <3>3. link[g].made /\ Turns(Arrived(t)) = Turns(link[g].bundle)
      BY <3>1 DEF Carrying
    <3>4. QED
      BY <1>2, <3>2, <3>3
  <2>3. QED
    BY <2>1, <2>2 DEF Carrying
<1>8. Marked'
  BY <1>1, <1>2, MarkedKept
<1>9. QED
  BY <1>6, <1>7, <1>8

\* An import that carries nothing more has filled its session; its server goes
\* on to mark the link, which pays for the session.
LEMMA HandoffImportEnds ==
  ASSUME RpcTypeOK, Requests, OneImporter, Carrying, Marked, NEW v \in Servers, ImportEnds(v)
  PROVE  OneImporter' /\ Carrying' /\ Marked'
<1>1. /\ \A w \in Servers : w # v => at'[w] = at[w] /\ job'[w] = job[w]
      /\ at[v] = "import" /\ job[v].rest = <<>> /\ job[v].session \in Known
      /\ UNCHANGED <<log, saved, link, stream, client, failures>>
      /\ Known' = Known
  BY ImportEndsMoves DEF Known
<1>2. \A w \in Servers : at[w] = "import" => job[w].session \in Known
  BY DEF Requests, Working
<1>3. CASE job[v].link = None /\ at'[v] = "idle" /\ job'[v] = Idle /\ imported' = imported
  <2>1. OneImporter'
    BY <1>1, <1>3, OneImporterKept
  <2>2. Carrying'
    BY <1>1, <1>2, <1>3, CarryingKept DEF Arrived
  <2>3. Marked'
    <3> SUFFICES ASSUME NEW g \in Links PROVE MarkedLink(g)'
      BY DEF Marked
    <3>1. Importing(g)' = Importing(g) /\ Marking(g)' = Marking(g)
      BY <1>1, <1>3, RpcSessionsAssumption DEF Importing, Marking
    <3>2. QED
      BY <1>1, <1>3, <3>1 DEF Marked, MarkedLink
  <2>4. QED
    BY <2>1, <2>2, <2>3
<1>4. CASE /\ job[v].link \in Links /\ job[v].link # None
           /\ at'[v] = "mark" /\ job'[v] = job[v]
           /\ imported' = [imported EXCEPT ![job[v].link] = @ \cup {job[v].session}]
  <2>1. PICK h \in Links, s \in Known : h = job[v].link /\ s = job[v].session
    BY <1>1, <1>4
  <2>2. /\ imported'[h] = imported[h] \cup {s}
        /\ \A g \in Links : g # h => imported'[g] = imported[g]
    BY <1>4, <2>1 DEF RpcTypeOK
  <2>3. OneImporter'
    <3>1. ASSUME NEW w \in Servers, NEW u \in Servers, at'[w] = "import", at'[u] = "import",
                 job'[w].session = job'[u].session
          PROVE  w = u
      BY <1>1, <1>4, <3>1 DEF OneImporter
    <3>2. ASSUME NEW g \in Links, NEW w \in Servers
          PROVE  imported'[g] \subseteq Known' /\ (at'[w] = "import" => job'[w].session \notin imported'[g])
      <4>1. at'[w] = "import" => w # v /\ at[w] = "import" /\ job'[w] = job[w] /\ job[w].session # s
        BY <1>1, <1>4, <2>1 DEF OneImporter
      <4>2. QED
        BY <1>1, <2>1, <2>2, <4>1 DEF OneImporter
    <3>3. QED
      BY <3>1, <3>2 DEF OneImporter
  <2>4. Carrying'
    <3>1. ASSUME NEW w \in Servers, at'[w] = "import", job'[w].link # None
          PROVE  link'[job'[w].link].made /\ Carried(w)' = Turns(link'[job'[w].link].bundle)
      <4>1. at[w] = "import" /\ job'[w] = job[w] /\ UNCHANGED <<log, link>>
        BY <1>1, <1>4, <3>1
      <4>2. Carried(w)' = Carried(w)
        BY <4>1 DEF Carried, Arrived
      <4>3. QED
        BY <3>1, <4>1, <4>2 DEF Carrying
    <3>2. ASSUME NEW g \in Links, NEW t \in Sessions, t \in imported'[g]
          PROVE  link'[g].made /\ Turns(Arrived(t)') = Turns(link'[g].bundle)
      <4>1. Arrived(t)' = Arrived(t)
        BY <1>1 DEF Arrived
      <4>2. CASE t \in imported[g]
        BY <1>1, <4>1, <4>2 DEF Carrying
      <4>3. CASE t \notin imported[g]
        <5>1. g = h /\ t = s
          BY <2>2, <3>2, <4>3
        <5>2. link[h].made /\ Carried(v) = Turns(link[h].bundle)
          BY <1>1, <1>4, <2>1 DEF Carrying
        <5>3. Carried(v) = Turns(Arrived(t)) \o Turns(<<>>)
          BY <1>1, <2>1, <5>1 DEF Carried
        <5>4. Turns(Arrived(t)) \in Seq(Said)
          BY ArrivedTurns, TurnsAreSaid
        <5>5. Carried(v) = Turns(Arrived(t))
          BY <5>3, <5>4, NoTurns, EmptyBefore
        <5>6. QED
          BY <1>1, <4>1, <5>1, <5>2, <5>5
      <4>4. QED
        BY <4>2, <4>3
    <3>3. QED
      BY <3>1, <3>2 DEF Carrying
  <2>5. Marked'
    <3> SUFFICES ASSUME NEW g \in Links PROVE MarkedLink(g)'
      BY DEF Marked
    <3>1. CASE g # h
      <4>1. Importing(g)' = Importing(g) /\ Marking(g)' = Marking(g) /\ imported'[g] = imported[g]
        BY <1>1, <1>4, <2>1, <2>2, <3>1 DEF Importing, Marking
      <4>2. QED
        BY <1>1, <4>1 DEF Marked, MarkedLink
    <3>2. CASE g = h
      <4>1. /\ v \in Importing(h) /\ Importing(h)' = Importing(h) \ {v}
            /\ v \notin Marking(h) /\ Marking(h)' = Marking(h) \cup {v}
        BY <1>1, <1>4, <2>1 DEF Importing, Marking
      <4>2. /\ IsFiniteSet(Importing(h)) /\ IsFiniteSet(Marking(h)) /\ Cardinality(Servers) \in Nat
            /\ Cardinality(Importing(h)) \in Nat /\ Cardinality(Marking(h)) \in Nat
        BY ServersOfLink
      <4>3. Cardinality(Importing(h)') = Cardinality(Importing(h)) - 1
        BY <4>1, <4>2, FS_RemoveElement
      <4>4. Cardinality(Marking(h)') = Cardinality(Marking(h)) + 1
        BY <4>1, <4>2, FS_AddElement
      <4>5. MarkedLink(h) /\ IsFiniteSet(imported[h])
        BY DEF Marked, MarkedLink
      <4>6. /\ IsFiniteSet(imported'[h]) /\ Cardinality(imported'[h]) \in Nat /\ Cardinality(imported[h]) \in Nat
            /\ Cardinality(imported'[h]) <= Cardinality(imported[h]) + 1
        BY <2>2, <4>5, OneMore
      <4>7. imported'[h] # {} /\ failures \in Nat
        BY <2>2 DEF RpcTypeOK
      <4>8. QED
        BY <1>1, <3>2, <4>2, <4>3, <4>4, <4>5, <4>6, <4>7 DEF MarkedLink
    <3>3. QED
      BY <3>1, <3>2
  <2>6. QED
    BY <2>3, <2>4, <2>5
<1>5. QED
  BY <1>3, <1>4, ImportEndsMoves

\* A mark is paid for by the servers that still fill or mark the link.
LEMMA HandoffMarkUsed ==
  ASSUME RpcTypeOK, Requests, OneImporter, Carrying, Marked, NEW v \in Servers, MarkUsed(v)
  PROVE  OneImporter' /\ Carrying' /\ Marked'
<1>1. /\ at'[v] = "idle"
      /\ \A w \in Servers : w # v => at'[w] = at[w] /\ job'[w] = job[w]
      /\ UNCHANGED <<log, saved, stream, client, imported, failures>>
  BY DoneMoves DEF MarkUsed
<1>2. PICK h \in Links : h = job[v].link
  BY MarkUsedMoves
<1>3. /\ at[v] = "mark"
      /\ link'[h].made = link[h].made /\ link'[h].used /\ link'[h].bundle = link[h].bundle
      /\ \A g \in Links : g # h => link'[g] = link[g]
  BY <1>2, MarkUsedMoves
<1>4. \A w \in Servers : at[w] = "import" => job[w].session \in Known
  BY DEF Requests, Working
<1>5. OneImporter'
  BY <1>1, OneImporterKept DEF Known
<1>6. Carrying'
  <2>1. \A g \in Links : link[g].made => link'[g].made /\ link'[g].bundle = link[g].bundle
    BY <1>3
  <2>2. QED
    BY <1>1, <1>4, <2>1, CarryingKept DEF Arrived
<1>7. Marked'
  <2> SUFFICES ASSUME NEW g \in Links PROVE MarkedLink(g)'
    BY DEF Marked
  <2>1. Importing(g)' = Importing(g)
    BY <1>1, <1>3 DEF Importing
  <2>2. MarkedLink(g)
    BY DEF Marked
  <2>3. CASE g # h
    <3>1. Marking(g)' = Marking(g)
      BY <1>1, <1>2, <1>3, <2>3 DEF Marking
    <3>2. QED
      BY <1>1, <1>3, <2>1, <2>2, <2>3, <3>1 DEF MarkedLink
  <2>4. CASE g = h
    <3>1. v \in Marking(h)
      BY <1>2, <1>3 DEF Marking
    <3>2. /\ Cardinality(Servers) \in Nat /\ Cardinality(Importing(h)) \in Nat /\ Cardinality(Marking(h)) \in Nat
          /\ Cardinality(Importing(h)) + Cardinality(Marking(h)) <= Cardinality(Servers)
      BY ServersOfLink
    <3>3. /\ Cardinality(imported[h]) \in Nat /\ failures \in Nat /\ imported[h] # {}
      BY <2>2, <2>4, <3>1, FS_CardinalityType DEF MarkedLink, RpcTypeOK
    <3>4. Cardinality(imported[h]) + Cardinality(Importing(h)) <= failures + Cardinality(Servers)
      BY <2>2, <2>4, <3>2, <3>3 DEF MarkedLink
    <3>5. QED
      BY <1>1, <1>3, <2>1, <2>2, <2>4, <3>3, <3>4 DEF MarkedLink
  <2>5. QED
    BY <2>3, <2>4
<1>8. QED
  BY <1>5, <1>6, <1>7

-----------------------------------------------------------------------------
(* Questions and answers *)

Written == {"handler", "agent"}
Spoken == {"user", "assistant"}

Nowhere(p, role, by) == \A s \in Sessions : Position(s, role, p, by) = {}

\* A question or an answer of a writer is recorded once, in one session.
Once(p) ==
    \A role \in Spoken, by \in Written, s, t \in Sessions :
      \A i \in Position(s, role, p, by), j \in Position(t, role, p, by) : s = t /\ i = j

\* The answer stands after the question.
Answered(p) ==
    /\ \A s \in Sessions, a \in Nat : a \in Position(s, "assistant", p, "handler") =>
          \E q \in Position(s, "user", p, "handler") : q < a
    /\ \A s \in Sessions, a \in Nat : a \in Position(s, "assistant", p, "agent") =>
          (\E q \in Position(s, "user", p, "agent") : q < a) \/ failures > 0
    /\ \A s, t \in Sessions :
          Position(s, "user", p, "agent") # {} /\ Position(t, "assistant", p, "agent") # {} => s = t

Unsent(p) ==
    client[p].state = "unsent" => \A role \in Spoken, by \in Written : Nowhere(p, role, by)

\* What is recorded while a request is at each step.
Progress(v) ==
    /\ at[v] \in {"engine", "question", "run", "answer"} =>
          /\ Position(job[v].session, "user", job[v].prompt, "handler") # {}
          /\ Nowhere(job[v].prompt, "assistant", "handler")
    /\ at[v] \in {"engine", "question"} => Nowhere(job[v].prompt, "user", "agent")
    /\ at[v] \in {"engine", "question", "run"} => Nowhere(job[v].prompt, "assistant", "agent")
    /\ at[v] = "run" =>
          /\ Position(job[v].agent, "user", job[v].prompt, "agent") # {} \/ failures > 0
          /\ \A s \in Sessions : Position(s, "user", job[v].prompt, "agent") # {} => s = job[v].agent

Recorded(p) == Once(p) /\ Answered(p) /\ Unsent(p)
Prompted == (\A p \in Prompts : Recorded(p)) /\ (\A v \in Servers : Progress(v))

\* The turns about a prompt stay where they are.
Stay(p) == \A s \in Sessions, role \in Spoken, by \in Written : Position(s, role, p, by)' = Position(s, role, p, by)

\* An appended turn takes the next position of its session.
LEMMA AppendedPosition ==
  ASSUME RpcTypeOK, NEW s \in Sessions, NEW role \in {"user", "assistant"}, NEW p \in Prompts,
         NEW by \in {"handler", "agent", "import"}, Appended(s, role, p, by)
  PROVE  /\ Position(s, role, p, by)' = Position(s, role, p, by) \cup {Len(log[s]) + 1}
         /\ Len(log[s]) \in Nat
         /\ \A i \in Position(s, role, p, by) : i \in Nat /\ i < Len(log[s]) + 1
         /\ \A t \in Sessions : \A r, q, b :
               t # s \/ r # role \/ q # p \/ b # by => Position(t, r, q, b)' = Position(t, r, q, b)
<1> DEFINE x == [role |-> role, prompt |-> p, by |-> by]
           n == Len(log[s])
<1>1. /\ log'[s] = Append(log[s], x) /\ log[s] \in Seq(Turn) /\ x \in Turn
      /\ \A t \in Sessions : t # s => log'[t] = log[t]
  BY AppendedTurn DEF RpcTypeOK
<1>2. /\ n \in Nat /\ DOMAIN log[s] = 1..n /\ DOMAIN log'[s] = 1..(n + 1)
      /\ log'[s][n + 1] = x /\ \A i \in 1..n : log'[s][i] = log[s][i]
  <2> HIDE DEF x, Turn
  <2>1. QED
    BY <1>1
<1>3. Position(s, role, p, by)' = Position(s, role, p, by) \cup {n + 1}
  BY <1>2 DEF Position
<1>4. \A i \in Position(s, role, p, by) : i \in Nat /\ i < n + 1
  BY <1>2 DEF Position
<1>5. ASSUME NEW t \in Sessions, NEW r, NEW q, NEW b, t # s \/ r # role \/ q # p \/ b # by
      PROVE  Position(t, r, q, b)' = Position(t, r, q, b)
  <2>1. CASE t # s
    BY <1>1, <2>1 DEF Position
  <2>2. CASE t = s
    <3>1. x # [role |-> r, prompt |-> q, by |-> b]
      BY <1>5, <2>2
    <3>2. \A i \in 1..(n + 1) : i = n + 1 \/ i \in 1..n
      BY <1>2
    <3> HIDE DEF x, n
    <3>3. QED
      BY <1>2, <2>2, <3>1, <3>2 DEF Position
  <2>3. QED
    BY <2>1, <2>2
<1>6. QED
  BY <1>2, <1>3, <1>4, <1>5

\* Imports do not count, nor do turns about other prompts.
LEMMA StayUnlessWritten ==
  ASSUME RpcTypeOK, NEW s \in Sessions, NEW role \in {"user", "assistant"}, NEW p \in Prompts,
         NEW by \in {"handler", "agent", "import"}, Appended(s, role, p, by)
  PROVE  \A q \in Prompts : q # p \/ by = "import" => Stay(q)
  BY AppendedPosition DEF Stay, Spoken, Written

\* Turns stay where they are when no turn is written.
LEMMA StayUnchanged == ASSUME UNCHANGED log PROVE \A q : Stay(q)
  BY DEF Stay, Position

\* What is recorded about a prompt stays so when no turn about it is written.
LEMMA RecordedStays ==
  ASSUME NEW p \in Prompts, Recorded(p), Stay(p), failures \in Nat, failures' \in {failures, failures + 1},
         client'[p].state = "unsent" => client[p].state = "unsent"
  PROVE  Recorded(p)'
<1>1. \A s \in Sessions, role \in Spoken, by \in Written : Position(s, role, p, by)' = Position(s, role, p, by)
  BY DEF Stay
<1>2. "user" \in Spoken /\ "assistant" \in Spoken /\ "handler" \in Written /\ "agent" \in Written
  BY DEF Spoken, Written
<1>3. Once(p)'
  BY <1>1 DEF Recorded, Once
<1>4. Answered(p)'
  <2>1. failures > 0 => failures' > 0
    OBVIOUS
  <2>2. QED
    BY <1>1, <1>2, <2>1 DEF Recorded, Answered
<1>5. Unsent(p)'
  BY <1>1 DEF Recorded, Unsent, Nowhere
<1>6. QED
  BY <1>3, <1>4, <1>5 DEF Recorded

\* So does what a request has recorded, while it stays at its step.
LEMMA ProgressStays ==
  ASSUME NEW v \in Servers, Progress(v), RpcTypeOK, Requests, at'[v] = at[v], job'[v] = job[v], failures' \in {failures, failures + 1},
         at[v] \in Prompting => Stay(job[v].prompt)
  PROVE  Progress(v)'
<1>1. CASE at[v] \notin {"engine", "question", "run", "answer"}
  BY <1>1 DEF Progress
<1>2. CASE at[v] \in {"engine", "question", "run", "answer"}
  <2>1. PICK p \in Prompts, s \in Sessions : p = job[v].prompt /\ s = job[v].session
    BY <1>2, KnownSessions DEF Requests, Working, Prompting
  <2>2. \A t \in Sessions, role \in Spoken, by \in Written : Position(t, role, p, by)' = Position(t, role, p, by)
    BY <1>2, <2>1 DEF Stay, Prompting
  <2>3. "user" \in Spoken /\ "assistant" \in Spoken /\ "handler" \in Written /\ "agent" \in Written
    BY DEF Spoken, Written
  <2>4. \A role \in Spoken, by \in Written : Nowhere(p, role, by) => Nowhere(p, role, by)'
    BY <2>2 DEF Nowhere
  <2>5. /\ Position(s, "user", p, "handler") # {} /\ Nowhere(p, "assistant", "handler")
        /\ at[v] \in {"engine", "question"} => Nowhere(p, "user", "agent")
        /\ at[v] \in {"engine", "question", "run"} => Nowhere(p, "assistant", "agent")
    BY <1>2, <2>1 DEF Progress
  <2>6. /\ Position(s, "user", p, "handler")' # {} /\ Nowhere(p, "assistant", "handler")'
        /\ at[v] \in {"engine", "question"} => Nowhere(p, "user", "agent")'
        /\ at[v] \in {"engine", "question", "run"} => Nowhere(p, "assistant", "agent")'
    BY <2>2, <2>3, <2>4, <2>5
  <2>7. CASE at[v] = "run"
    <3>1. PICK a \in Sessions : a = job[v].agent
      BY <2>7, KnownSessions DEF Requests, Working
    <3>2. /\ Position(a, "user", p, "agent")' # {} \/ failures' > 0
          /\ \A t \in Sessions : Position(t, "user", p, "agent")' # {} => t = a
      BY <2>1, <2>2, <2>3, <2>7, <3>1 DEF Progress, RpcTypeOK
    <3>3. QED
      BY <2>1, <2>6, <2>7, <3>1, <3>2 DEF Progress, Nowhere, Position
  <2>8. CASE at[v] # "run"
    BY <2>1, <2>6, <2>8 DEF Progress, Nowhere, Position
  <2>9. QED
    BY <2>7, <2>8
<1>3. QED
  BY <1>1, <1>2

\* The other prompts and requests, when v takes a step.
LEMMA PromptedOthers ==
  ASSUME RpcTypeOK, Requests, Prompted, NEW v \in Servers, failures' \in {failures, failures + 1},
         \A w \in Servers : w # v => at'[w] = at[w] /\ job'[w] = job[w],
         \A q \in Prompts : client'[q].state = "unsent" => client[q].state = "unsent",
         NEW p \in Prompts, \A q \in Prompts : q # p => Stay(q),
         Stay(p) \/ client[p].server = v \/ client[p].state = "unsent"
  PROVE  /\ \A q \in Prompts : q # p => Recorded(q)'
         /\ \A w \in Servers : w # v => Progress(w)'
<1>1. failures \in Nat
  BY DEF RpcTypeOK
<1>2. ASSUME NEW q \in Prompts, q # p
      PROVE  Recorded(q)'
  BY <1>1, <1>2, RecordedStays DEF Prompted
<1>3. ASSUME NEW w \in Servers, w # v
      PROVE  Progress(w)'
  <2>1. at[w] \in Prompting => Stay(job[w].prompt)
    BY <1>3, OtherPrompts
  <2>2. QED
    BY <1>3, <2>1, ProgressStays DEF Prompted
<1>4. QED
  BY <1>2, <1>3

\* No turn about a prompt is written, and no request about one goes on.
LEMMA PromptedKept ==
  ASSUME RpcTypeOK, Requests, Prompted, NEW v \in Servers, failures' \in {failures, failures + 1},
         \A w \in Servers : w # v => at'[w] = at[w] /\ job'[w] = job[w],
         \/ at'[v] \notin {"engine", "question", "run", "answer"}
         \/ at'[v] = at[v] /\ job'[v] = job[v],
         \A q \in Prompts : client'[q].state = "unsent" => client[q].state = "unsent",
         \A q \in Prompts : Stay(q)
  PROVE  Prompted'
<1>1. failures \in Nat
  BY DEF RpcTypeOK
<1>2. \A q \in Prompts : Recorded(q)'
  BY <1>1, RecordedStays DEF Prompted
<1>3. ASSUME NEW w \in Servers
      PROVE  Progress(w)'
  <2>1. CASE at'[w] = at[w] /\ job'[w] = job[w]
    <3>1. at[w] \in Prompting => Stay(job[w].prompt)
      BY DEF Requests, Working
    <3>2. QED
      BY <2>1, <3>1, ProgressStays DEF Prompted
  <2>2. CASE at'[w] \notin {"engine", "question", "run", "answer"}
    BY <2>2 DEF Progress
  <2>3. QED
    BY <2>1, <2>2
<1>4. QED
  BY <1>2, <1>3 DEF Prompted

\* The first turn of its kind is the only one.
LEMMA OnceAppend ==
  ASSUME RpcTypeOK, NEW s \in Sessions, NEW role \in Spoken, NEW p \in Prompts, NEW by \in Written,
         Appended(s, role, p, by), Once(p), Nowhere(p, role, by)
  PROVE  Once(p)'
<1>1. /\ Position(s, role, p, by)' = Position(s, role, p, by) \cup {Len(log[s]) + 1}
      /\ \A t \in Sessions : \A r, b :
               t # s \/ r # role \/ b # by => Position(t, r, p, b)' = Position(t, r, p, b)
  BY AppendedPosition DEF Spoken, Written
<1>2. \A t \in Sessions : Position(t, role, p, by) = {}
  BY DEF Nowhere
<1>3. ASSUME NEW r \in Spoken, NEW b \in Written, NEW t \in Sessions, NEW u \in Sessions,
             NEW i \in Position(t, r, p, b)', NEW j \in Position(u, r, p, b)'
      PROVE  t = u /\ i = j
  <2>1. CASE r = role /\ b = by
    BY <1>1, <1>2, <2>1
  <2>2. CASE r # role \/ b # by
    BY <1>1, <2>2 DEF Once
  <2>3. QED
    BY <2>1, <2>2
<1>4. QED
  BY <1>3 DEF Once

\* The first turn about a prompt is its question.
LEMMA PromptedAsk ==
  ASSUME RpcTypeOK, Requests, Prompted, NEW v \in Servers, NEW s \in Sessions, NEW p \in Prompts, Ask(v, s, p)
  PROVE  Prompted'
<1>1. /\ client[p].state = "unsent" /\ Appended(s, "user", p, "handler") /\ failures' = failures
  BY DEF Ask
<1>2. /\ client'[p].state = "sent"
      /\ \A q \in Prompts : q # p => client'[q] = client[q]
      /\ at'[v] = "engine" /\ job'[v].session = s /\ job'[v].prompt = p
      /\ \A w \in Servers : w # v => at'[w] = at[w] /\ job'[w] = job[w]
  BY RequestsAsk
<1>3. /\ \A q \in Prompts : q # p => Recorded(q)'
      /\ \A w \in Servers : w # v => Progress(w)'
  <2>1. \A q \in Prompts : q # p => Stay(q)
    BY <1>1, StayUnlessWritten
  <2>2. \A q \in Prompts : client'[q].state = "unsent" => client[q].state = "unsent"
    BY <1>2
  <2>3. QED
    BY <1>1, <1>2, <2>1, <2>2, PromptedOthers
<1>4. /\ Position(s, "user", p, "handler")' = Position(s, "user", p, "handler") \cup {Len(log[s]) + 1}
      /\ \A t \in Sessions : \A r, b :
            t # s \/ r # "user" \/ b # "handler" => Position(t, r, p, b)' = Position(t, r, p, b)
  BY <1>1, AppendedPosition
<1>5. \A role \in Spoken, by \in Written : Nowhere(p, role, by)
  BY <1>1 DEF Prompted, Recorded, Unsent
<1>6. Nowhere(p, "assistant", "handler")' /\ Nowhere(p, "user", "agent")' /\ Nowhere(p, "assistant", "agent")'
  BY <1>4, <1>5 DEF Nowhere, Spoken, Written
<1>7. Recorded(p)'
  <2>1. Once(p)'
    BY <1>1, <1>5, OnceAppend DEF Prompted, Recorded, Spoken, Written
  <2>2. Answered(p)'
    BY <1>6 DEF Answered, Nowhere
  <2>3. Unsent(p)'
    BY <1>2 DEF Unsent
  <2>4. QED
    BY <2>1, <2>2, <2>3 DEF Recorded
<1>8. Progress(v)'
  <2>1. Position(s, "user", p, "handler")' # {}
    BY <1>4
  <2>2. QED
    BY <1>2, <1>6, <2>1 DEF Progress, Nowhere, Position
<1>9. QED
  BY <1>3, <1>7, <1>8 DEF Prompted

\* A step of an engine, and what it is about.
LEMMA EngineMoves ==
  ASSUME RpcTypeOK, Requests, NEW v \in Servers,
         EngineSession(v) \/ EngineAsks(v) \/ EngineAnswers(v) \/ Answer(v)
  PROVE  \E p \in Prompts, s \in Sessions :
            /\ p = job[v].prompt /\ s = job[v].session
            /\ p = job'[v].prompt /\ s = job'[v].session
            /\ client[p].server = v /\ UNCHANGED client
            /\ \A w \in Servers : w # v => at'[w] = at[w] /\ job'[w] = job[w]
<1>1. /\ job'[v].session = job[v].session /\ job'[v].prompt = job[v].prompt /\ at[v] \in Prompting
      /\ \A w \in Servers : w # v => at'[w] = at[w] /\ job'[w] = job[w]
      /\ UNCHANGED client
  BY RequestsEngine
<1>2. job[v].prompt \in Prompts /\ job[v].session \in Sessions /\ client[job[v].prompt].server = v
  BY <1>1, KnownSessions DEF Requests, Working
<1>3. QED
  BY <1>1, <1>2

\* The prompt of a request has been sent.
LEMMA PromptIsSent ==
  ASSUME Requests, NEW v \in Servers, at[v] \in Prompting \ {"engine", "stream"}
  PROVE  client[job[v].prompt].state = "sent"
  BY DEF Requests, Working

\* Choosing a session records nothing.
LEMMA PromptedEngineSession ==
  ASSUME RpcTypeOK, Requests, Prompted, NEW v \in Servers, EngineSession(v)
  PROVE  Prompted'
<1>1. PICK p \in Prompts, s \in Sessions :
            /\ p = job[v].prompt /\ s = job[v].session
            /\ p = job'[v].prompt /\ s = job'[v].session
            /\ client[p].server = v /\ UNCHANGED client
            /\ \A w \in Servers : w # v => at'[w] = at[w] /\ job'[w] = job[w]
  BY EngineMoves
<1>2. UNCHANGED <<log, failures>> /\ at[v] = "engine"
  BY DEF EngineSession
<1>3. at'[v] = "question"
  <2>1. [job[v] EXCEPT !.agent = saved[Len(saved)]] \in Job
    BY RpcTypesEngineSession
  <2>2. QED
    BY <2>1, ProceedMoves DEF EngineSession, Labels, Prompting
<1>4. \A q \in Prompts : Stay(q)
  BY <1>2, StayUnchanged
<1>5. /\ \A q \in Prompts : q # p => Recorded(q)'
      /\ \A w \in Servers : w # v => Progress(w)'
  BY <1>1, <1>2, <1>4, PromptedOthers
<1>6. Recorded(p)'
  BY <1>1, <1>2, <1>4, RecordedStays DEF Prompted, RpcTypeOK
<1>7. Progress(v)'
  <2>1. /\ Position(s, "user", p, "handler") # {} /\ Nowhere(p, "assistant", "handler")
        /\ Nowhere(p, "user", "agent") /\ Nowhere(p, "assistant", "agent")
    BY <1>1, <1>2 DEF Prompted, Progress
  <2>2. QED
    BY <1>1, <1>2, <1>3, <2>1 DEF Progress, Nowhere, Position
<1>8. QED
  BY <1>5, <1>6, <1>7 DEF Prompted

\* The engine records the question in its session, or a failure is counted.
LEMMA PromptedEngineAsks ==
  ASSUME RpcTypeOK, Requests, Prompted, NEW v \in Servers, EngineAsks(v)
  PROVE  Prompted'
<1>1. PICK p \in Prompts, s \in Sessions :
            /\ p = job[v].prompt /\ s = job[v].session
            /\ p = job'[v].prompt /\ s = job'[v].session
            /\ client[p].server = v /\ UNCHANGED client
            /\ \A w \in Servers : w # v => at'[w] = at[w] /\ job'[w] = job[w]
  BY EngineMoves
<1>2. at[v] = "question" /\ Proceed(v, "run", job[v])
  BY DEF EngineAsks
<1>3. PICK a \in Sessions : a = job[v].agent
  BY <1>2, EngineTurn
<1>4. at'[v] = "run" /\ job'[v] = job[v]
  BY <1>2, ProceedMoves DEF RpcTypeOK, Labels, Prompting
<1>5. /\ Position(s, "user", p, "handler") # {} /\ Nowhere(p, "assistant", "handler")
      /\ Nowhere(p, "user", "agent") /\ Nowhere(p, "assistant", "agent")
  BY <1>1, <1>2 DEF Prompted, Progress
<1>6. failures \in Nat
  BY DEF RpcTypeOK
<1>7. CASE MayFail /\ UNCHANGED log
  <2>1. failures' = failures + 1 /\ failures' > 0
    BY <1>6, <1>7 DEF MayFail
  <2>2. \A q \in Prompts : Stay(q)
    BY <1>7, StayUnchanged
  <2>3. /\ \A q \in Prompts : q # p => Recorded(q)'
        /\ \A w \in Servers : w # v => Progress(w)'
    BY <1>1, <2>1, <2>2, PromptedOthers
  <2>4. Recorded(p)'
    BY <1>1, <1>6, <2>1, <2>2, RecordedStays DEF Prompted
  <2>5. Progress(v)'
    BY <1>1, <1>4, <1>5, <1>7, <2>1 DEF Progress, Nowhere, Position
  <2>6. QED
    BY <2>3, <2>4, <2>5 DEF Prompted
<1>8. CASE Appended(a, "user", p, "agent") /\ UNCHANGED failures
  <2>1. \A q \in Prompts : q # p => Stay(q)
    BY <1>8, StayUnlessWritten
  <2>2. /\ \A q \in Prompts : q # p => Recorded(q)'
        /\ \A w \in Servers : w # v => Progress(w)'
    BY <1>1, <1>8, <2>1, PromptedOthers
  <2>3. /\ Position(a, "user", p, "agent")' = Position(a, "user", p, "agent") \cup {Len(log[a]) + 1}
        /\ \A t \in Sessions : \A r, b :
              t # a \/ r # "user" \/ b # "agent" => Position(t, r, p, b)' = Position(t, r, p, b)
    BY <1>8, AppendedPosition
  <2>4. /\ Position(s, "user", p, "handler")' # {}
        /\ Nowhere(p, "assistant", "handler")' /\ Nowhere(p, "assistant", "agent")'
        /\ Position(a, "user", p, "agent")' # {}
        /\ \A t \in Sessions : Position(t, "user", p, "agent")' # {} => t = a
    <3>1. Position(s, "user", p, "handler")' # {} /\ Position(a, "user", p, "agent")' # {}
      BY <1>5, <2>3
    <3>2. Nowhere(p, "assistant", "handler")' /\ Nowhere(p, "assistant", "agent")'
      BY <1>5, <2>3 DEF Nowhere
    <3>3. \A t \in Sessions : Position(t, "user", p, "agent")' # {} => t = a
      BY <1>5, <2>3 DEF Nowhere
    <3>4. QED
      BY <3>1, <3>2, <3>3
  <2>5. Recorded(p)'
    <3>1. Once(p)'
      BY <1>5, <1>8, OnceAppend DEF Prompted, Recorded, Spoken, Written
    <3>2. Answered(p)'
      BY <2>4 DEF Answered, Nowhere
    <3>3. Unsent(p)'
      <4>1. client[p].state = "sent"
        BY <1>1, <1>2, PromptIsSent DEF Prompting
      <4>2. QED
        BY <1>1, <4>1 DEF Unsent
    <3>4. QED
      BY <3>1, <3>2, <3>3 DEF Recorded
  <2>6. Progress(v)'
    BY <1>1, <1>3, <1>4, <2>4 DEF Progress, Nowhere, Position
  <2>7. QED
    BY <2>2, <2>5, <2>6 DEF Prompted
<1>9. QED
  BY <1>1, <1>3, <1>7, <1>8, EngineAsksTurn

\* The engine records the answer in the session of its question.
LEMMA PromptedEngineAnswers ==
  ASSUME RpcTypeOK, Requests, Prompted, NEW v \in Servers, EngineAnswers(v)
  PROVE  Prompted'
<1>1. PICK p \in Prompts, s \in Sessions :
            /\ p = job[v].prompt /\ s = job[v].session
            /\ p = job'[v].prompt /\ s = job'[v].session
            /\ client[p].server = v /\ UNCHANGED client
            /\ \A w \in Servers : w # v => at'[w] = at[w] /\ job'[w] = job[w]
  BY EngineMoves
<1>2. at[v] = "run" /\ at'[v] \in {"answer", "stream"}
  BY EngineAnswersMoves DEF EngineAnswers
<1>3. PICK a \in Sessions : a = job[v].agent
  BY <1>2, EngineTurn
<1>4. /\ Position(s, "user", p, "handler") # {} /\ Nowhere(p, "assistant", "handler")
      /\ Nowhere(p, "assistant", "agent")
      /\ Position(a, "user", p, "agent") # {} \/ failures > 0
      /\ \A t \in Sessions : Position(t, "user", p, "agent") # {} => t = a
  BY <1>1, <1>2, <1>3 DEF Prompted, Progress
<1>5. failures \in Nat
  BY DEF RpcTypeOK
<1>6. CASE UNCHANGED log /\ failures' \in {failures, failures + 1}
  <2>1. \A q \in Prompts : Stay(q)
    BY <1>6, StayUnchanged
  <2>2. /\ \A q \in Prompts : q # p => Recorded(q)'
        /\ \A w \in Servers : w # v => Progress(w)'
    BY <1>1, <1>6, <2>1, PromptedOthers
  <2>3. Recorded(p)'
    BY <1>1, <1>5, <1>6, <2>1, RecordedStays DEF Prompted
  <2>4. Progress(v)'
    BY <1>1, <1>2, <1>4, <1>6 DEF Progress, Nowhere, Position
  <2>5. QED
    BY <2>2, <2>3, <2>4 DEF Prompted
<1>7. CASE Appended(a, "assistant", p, "agent") /\ UNCHANGED failures
  <2>1. \A q \in Prompts : q # p => Stay(q)
    BY <1>7, StayUnlessWritten
  <2>2. /\ \A q \in Prompts : q # p => Recorded(q)'
        /\ \A w \in Servers : w # v => Progress(w)'
    BY <1>1, <1>7, <2>1, PromptedOthers
  <2>3. /\ Position(a, "assistant", p, "agent")' = Position(a, "assistant", p, "agent") \cup {Len(log[a]) + 1}
        /\ \A t \in Sessions : \A r, b :
              t # a \/ r # "assistant" \/ b # "agent" => Position(t, r, p, b)' = Position(t, r, p, b)
    BY <1>7, AppendedPosition
  <2>4. /\ Position(s, "user", p, "handler")' # {}
        /\ Nowhere(p, "assistant", "handler")'
        /\ \A t \in Sessions : Position(t, "user", p, "agent")' = Position(t, "user", p, "agent")
        /\ Position(a, "assistant", p, "agent")' = {Len(log[a]) + 1}
        /\ \A t \in Sessions : t # a => Position(t, "assistant", p, "agent")' = {}
    BY <1>4, <2>3 DEF Nowhere
  <2>5. Recorded(p)'
    <3>1. Once(p)'
      BY <1>4, <1>7, OnceAppend DEF Prompted, Recorded, Spoken, Written
    <3>2. Answered(p)'
      <4>1. ASSUME Position(a, "user", p, "agent") # {}
            PROVE  \E q \in Position(a, "user", p, "agent") : q < Len(log[a]) + 1
        <5>1. log[a] \in Seq(Turn)
          BY DEF RpcTypeOK
        <5>2. \A q \in Position(a, "user", p, "agent") : q \in 1..Len(log[a]) /\ Len(log[a]) \in Nat
          <6> HIDE DEF Turn
          <6>1. QED
            BY <5>1 DEF Position
        <5>3. QED
          BY <4>1, <5>2
      <4>2. \A t \in Sessions, i \in Nat : i \in Position(t, "assistant", p, "agent")' =>
                (\E q \in Position(t, "user", p, "agent")' : q < i) \/ failures' > 0
        BY <1>4, <1>7, <2>4, <4>1
      <4>3. \A t \in Sessions, i \in Nat : i \notin Position(t, "assistant", p, "handler")'
        BY <2>4 DEF Nowhere
      <4>4. \A t, u \in Sessions :
              Position(t, "user", p, "agent")' # {} /\ Position(u, "assistant", p, "agent")' # {} => t = u
        BY <1>4, <2>4
      <4>5. QED
        BY <4>2, <4>3, <4>4 DEF Answered
    <3>3. Unsent(p)'
      <4>1. client[p].state = "sent"
        BY <1>1, <1>2, PromptIsSent DEF Prompting
      <4>2. QED
        BY <1>1, <4>1 DEF Unsent
    <3>4. QED
      BY <3>1, <3>2, <3>3 DEF Recorded
  <2>6. Progress(v)'
    BY <1>1, <1>2, <2>4 DEF Progress, Nowhere, Position
  <2>7. QED
    BY <2>2, <2>5, <2>6 DEF Prompted
<1>8. QED
  BY <1>1, <1>3, <1>6, <1>7, EngineAnswersTurn DEF MayFail

\* The handler records the answer after its question.
LEMMA PromptedAnswer ==
  ASSUME RpcTypeOK, Requests, Prompted, NEW v \in Servers, Answer(v)
  PROVE  Prompted'
<1>1. PICK p \in Prompts, s \in Sessions :
            /\ p = job[v].prompt /\ s = job[v].session
            /\ p = job'[v].prompt /\ s = job'[v].session
            /\ client[p].server = v /\ UNCHANGED client
            /\ \A w \in Servers : w # v => at'[w] = at[w] /\ job'[w] = job[w]
  BY EngineMoves
<1>2. /\ at[v] = "answer" /\ failures' = failures /\ Proceed(v, "stream", job[v])
      /\ Appended(s, "assistant", p, "handler")
  BY <1>1 DEF Answer
<1>3. at'[v] = "stream"
  BY <1>2, ProceedMoves DEF RpcTypeOK, Labels, Prompting
<1>4. Position(s, "user", p, "handler") # {} /\ Nowhere(p, "assistant", "handler") /\ Recorded(p)
  BY <1>1, <1>2 DEF Prompted, Progress
<1>5. \A q \in Prompts : q # p => Stay(q)
  BY <1>2, StayUnlessWritten
<1>6. /\ \A q \in Prompts : q # p => Recorded(q)'
      /\ \A w \in Servers : w # v => Progress(w)'
  BY <1>1, <1>2, <1>5, PromptedOthers
<1>7. /\ Position(s, "assistant", p, "handler")' = Position(s, "assistant", p, "handler") \cup {Len(log[s]) + 1}
      /\ \A t \in Sessions : \A r, b :
            t # s \/ r # "assistant" \/ b # "handler" => Position(t, r, p, b)' = Position(t, r, p, b)
  BY <1>2, AppendedPosition
<1>8. Recorded(p)'
  <2>1. Once(p)'
    BY <1>2, <1>4, OnceAppend DEF Recorded, Spoken, Written
  <2>2. Answered(p)'
    <3>1. \E q \in Position(s, "user", p, "handler") : q < Len(log[s]) + 1
      <4>1. log[s] \in Seq(Turn)
        BY DEF RpcTypeOK
      <4>2. \A q \in Position(s, "user", p, "handler") : q \in 1..Len(log[s]) /\ Len(log[s]) \in Nat
        <5> HIDE DEF Turn
        <5>1. QED
          BY <4>1 DEF Position
      <4>3. QED
        BY <1>4, <4>2
    <3>2. \A t \in Sessions, i \in Nat : i \in Position(t, "assistant", p, "handler")' =>
              \E q \in Position(t, "user", p, "handler")' : q < i
      BY <1>4, <1>7, <3>1 DEF Nowhere
    <3>3. \A t \in Sessions : /\ Position(t, "assistant", p, "agent")' = Position(t, "assistant", p, "agent")
                              /\ Position(t, "user", p, "agent")' = Position(t, "user", p, "agent")
      BY <1>7
    <3>4. QED
      BY <1>2, <1>4, <3>2, <3>3 DEF Recorded, Answered
  <2>3. Unsent(p)'
    <3>1. client[p].state = "sent"
      BY <1>1, <1>2, PromptIsSent DEF Prompting
    <3>2. QED
      BY <1>1, <3>1 DEF Unsent
  <2>4. QED
    BY <2>1, <2>2, <2>3 DEF Recorded
<1>9. Progress(v)'
  BY <1>3 DEF Progress
<1>10. QED
  BY <1>6, <1>8, <1>9 DEF Prompted

\* Imported turns are neither questions nor answers of the handler or an engine.
LEMMA PromptedImportTurn ==
  ASSUME RpcTypeOK, Requests, Prompted, NEW v \in Servers, ImportTurn(v)
  PROVE  Prompted'
<1> DEFINE m == Head(job[v].rest)
<1>1. /\ at'[v] = "import" /\ m \in Turn /\ job[v].session \in Sessions
      /\ \A w \in Servers : w # v => at'[w] = at[w] /\ job'[w] = job[w]
      /\ Appended(job[v].session, m.role, m.prompt, "import")
  BY ImportTurnMoves
<1> HIDE DEF m
<1>2. m.role \in {"user", "assistant"} /\ m.prompt \in Prompts
  BY <1>1 DEF Turn
<1>3. \A q \in Prompts : Stay(q)
  BY <1>1, <1>2, StayUnlessWritten
<1>4. UNCHANGED <<client, failures>>
  BY DEF ImportTurn
<1>5. QED
  BY <1>1, <1>3, <1>4, PromptedKept

-----------------------------------------------------------------------------
(* The invariant holds *)

RpcInv ==
    /\ RpcTypeOK /\ Requests /\ Unknown /\ Streams
    /\ OneImporter /\ Carrying /\ Marked /\ Prompted

\* The invariant holds at the start.
LEMMA RpcInvInit == RpcInit => RpcInv
<1> SUFFICES ASSUME RpcInit PROVE RpcInv
  OBVIOUS
<1>1. RpcTypeOK
  BY RpcTypesInit
<1>2. \A v \in Servers : at[v] = "idle"
  BY DEF RpcInit
<1>3. Requests /\ OneImporter
  <2>1. \A h \in Links : imported[h] = {}
    BY DEF RpcInit
  <2>2. QED
    BY <1>2, <2>1 DEF Requests, Working, Prompting, OneImporter
<1>4. Unknown /\ \A s \in Sessions : log[s] = <<>>
  BY DEF RpcInit, Unknown
<1>5. Streams
  <2> SUFFICES ASSUME NEW p \in Prompts PROVE StreamOf(p)
    BY DEF Streams
  <2>1. client[p].cursor = 0 /\ client[p].got = <<>> /\ client[p].state = "unsent"
    BY DEF RpcInit, Quiet
  <2>2. \A v \in Servers : stream[v][p] = NoStream
    BY DEF RpcInit
  <2>3. client[p].got = [i \in 1..client[p].cursor |-> i]
    BY <2>1
  <2>4. QED
    BY <2>1, <2>2, <2>3 DEF StreamOf
<1>6. Carrying /\ Marked
  <2>1. \A h \in Links : imported[h] = {} /\ ~link[h].used
    BY DEF RpcInit, NotCreated
  <2>2. Carrying
    BY <1>2, <2>1 DEF Carrying
  <2>3. ASSUME NEW h \in Links
        PROVE  MarkedLink(h)
    <3>1. Marking(h) = {}
      BY <1>2 DEF Marking
    <3>2. IsFiniteSet(imported[h]) /\ Cardinality(imported[h]) = 0 /\ Cardinality(Marking(h)) = 0
      BY <2>1, <3>1, FS_EmptySet
    <3>3. failures \in Nat
      BY <1>1 DEF RpcTypeOK
    <3>4. QED
      BY <2>1, <3>1, <3>2, <3>3 DEF MarkedLink
  <2>4. QED
    BY <2>2, <2>3 DEF Marked
<1>7. Prompted
  <2>1. \A s \in Sessions : \A role, p, by : Position(s, role, p, by) = {}
    BY <1>4 DEF Position
  <2>2. \A p \in Prompts : Recorded(p)
    BY <2>1 DEF Recorded, Once, Answered, Unsent, Nowhere
  <2>3. \A v \in Servers : Progress(v)
    BY <1>2 DEF Progress
  <2>4. QED
    BY <2>2, <2>3 DEF Prompted
<1>8. QED
  BY <1>1, <1>3, <1>4, <1>5, <1>6, <1>7 DEF RpcInv

\* Handoffs, when no import and no mark begins or ends.
LEMMA HandoffsKept ==
  ASSUME RpcInv, Known \subseteq Known', UNCHANGED <<link, imported>>, failures' \in {failures, failures + 1},
         \A s \in Sessions : Arrived(s)' = Arrived(s),
         \A w \in Servers : \/ at'[w] = at[w] /\ job'[w] = job[w]
                            \/ at[w] \notin {"import", "mark"} /\ at'[w] \notin {"import", "mark"}
  PROVE  OneImporter' /\ Carrying' /\ Marked'
<1>1. \A w \in Servers : at'[w] = "import" => at[w] = "import" /\ job'[w] = job[w] /\ job[w].session \in Known
  BY DEF RpcInv, Requests, Working
<1>2. OneImporter'
  BY <1>1, OneImporterKept DEF RpcInv
<1>3. Carrying'
  BY <1>1, CarryingKept DEF RpcInv
<1>4. Marked'
  BY MarkedKept DEF RpcInv
<1>5. QED
  BY <1>2, <1>3, <1>4

\* Handoffs, when a request fails or its server ends.
LEMMA HandoffsFail ==
  ASSUME RpcInv, NEW v \in Servers, Done(v), UNCHANGED <<log, saved, link, imported>>, failures' = failures + 1
  PROVE  OneImporter' /\ Carrying' /\ Marked'
<1>1. at'[v] = "idle" /\ \A w \in Servers : w # v => at'[w] = at[w] /\ job'[w] = job[w]
  BY DoneMoves DEF RpcInv
<1>2. \A w \in Servers : at'[w] = "import" => at[w] = "import" /\ job'[w] = job[w] /\ job[w].session \in Known
  BY <1>1 DEF RpcInv, Requests, Working
<1>3. OneImporter'
  BY <1>2, OneImporterKept DEF RpcInv, Known
<1>4. Carrying'
  BY <1>2, CarryingKept DEF RpcInv, Arrived
<1>5. Marked'
  BY <1>1, MarkedFails DEF RpcInv
<1>6. QED
  BY <1>3, <1>4, <1>5

\* Nothing arrives when no turn is written.
LEMMA ArrivedSame == ASSUME UNCHANGED log PROVE \A s \in Sessions : Arrived(s)' = Arrived(s)
  BY DEF Arrived

\* Streams, when they and the clients stay as they are.
LEMMA StreamsKept == ASSUME Streams, UNCHANGED <<stream, client>> PROVE Streams'
  BY DEF Streams, StreamOf

\* The invariant, when a session is opened.
LEMMA InvNewSession ==
  ASSUME RpcInv, NEW v \in Servers, NEW s \in Sessions, NewSession(v, s)
  PROVE  RpcInv'
<1>1. UNCHANGED <<log, link, stream, client, at, job, imported, failures>>
  BY DEF NewSession
<1>2. Known' = Known \cup {s}
  <2>1. saved' = Saved(s) /\ {Saved(s)[i] : i \in DOMAIN Saved(s)} = Known \cup {s}
    BY SavedKnown DEF NewSession, RpcInv, RpcTypeOK
  <2>2. QED
    BY <2>1 DEF Known
<1>3. RpcTypeOK'
  BY RpcTypesNewSession DEF RpcInv
<1>4. Requests' /\ Unknown' /\ Streams'
  BY <1>1, <1>2, RequestsKept, UnknownKept, StreamsKept DEF RpcInv
<1>5. OneImporter' /\ Carrying' /\ Marked'
  BY <1>1, <1>2, ArrivedSame, HandoffsKept
<1>6. Prompted'
  BY <1>1, StayUnchanged, PromptedKept DEF RpcInv
<1>7. QED
  BY <1>3, <1>4, <1>5, <1>6 DEF RpcInv

\* The invariant, when the handler records a question.
LEMMA InvAsk ==
  ASSUME RpcInv, NEW v \in Servers, NEW s \in Sessions, NEW p \in Prompts, Ask(v, s, p)
  PROVE  RpcInv'
<1>1. RpcTypeOK' /\ Requests' /\ Streams' /\ Prompted' /\ Known' = Known
  BY RpcTypesAsk, RequestsAsk, StreamsAsk, PromptedAsk DEF RpcInv
<1>2. s \in Known /\ Appended(s, "user", p, "handler") /\ UNCHANGED <<link, imported, failures>>
  BY DEF Ask
<1>3. Unknown'
  BY <1>1, <1>2, UnknownAppend DEF RpcInv
<1>4. \A t \in Sessions : Arrived(t)' = Arrived(t)
  BY <1>2, ArrivedAppend DEF RpcInv
<1>5. /\ at[v] = "idle" /\ at'[v] = "engine"
      /\ \A w \in Servers : w # v => at'[w] = at[w] /\ job'[w] = job[w]
  BY RequestsAsk DEF RpcInv
<1>6. OneImporter' /\ Carrying' /\ Marked'
  BY <1>1, <1>2, <1>4, <1>5, HandoffsKept
<1>7. QED
  BY <1>1, <1>3, <1>6 DEF RpcInv

\* The invariant, when the engine or the handler takes the next step of a prompt.
LEMMA InvEngine ==
  ASSUME RpcInv, NEW v \in Servers,
         EngineSession(v) \/ EngineAsks(v) \/ EngineAnswers(v) \/ Answer(v)
  PROVE  RpcInv'
<1>1. RpcTypeOK'
  BY RpcTypesEngineSession, RpcTypesEngineAsks, RpcTypesEngineAnswers, RpcTypesAnswer DEF RpcInv
<1>2. /\ Requests' /\ Known' = Known
      /\ at[v] \in Prompting /\ at'[v] \in Prompting
      /\ \A w \in Servers : w # v => at'[w] = at[w] /\ job'[w] = job[w]
  BY RequestsEngine DEF RpcInv
<1>3. UNCHANGED <<link, stream, client, imported>>
  BY DEF EngineSession, EngineAsks, EngineAnswers, Answer
<1>4. Unknown'
  <2>1. EngineSession(v) => UNCHANGED log
    BY DEF EngineSession
  <2>2. QED
    BY <1>2, <2>1, UnknownKept, UnknownEngine DEF RpcInv
<1>5. Streams'
  BY <1>3, StreamsKept DEF RpcInv
<1>6. Prompted'
  BY PromptedEngineSession, PromptedEngineAsks, PromptedEngineAnswers, PromptedAnswer DEF RpcInv
<1>7. /\ failures' \in {failures, failures + 1}
      /\ \A t \in Sessions : Arrived(t)' = Arrived(t)
  <2>1. CASE EngineSession(v)
    BY <2>1, ArrivedSame DEF EngineSession
  <2>2. CASE EngineAsks(v) \/ EngineAnswers(v) \/ Answer(v)
    <3>1. /\ job[v].agent \in Sessions /\ job[v].session \in Sessions /\ job[v].prompt \in Prompts
      <4>1. at[v] \in {"question", "run", "answer"}
        BY <2>2 DEF EngineAsks, EngineAnswers, Answer
      <4>2. QED
        BY <4>1, EngineTurn DEF RpcInv
    <3>2. /\ failures' \in {failures, failures + 1}
          /\ \/ UNCHANGED log
             \/ Appended(job[v].agent, "user", job[v].prompt, "agent")
             \/ Appended(job[v].agent, "assistant", job[v].prompt, "agent")
             \/ Appended(job[v].session, "assistant", job[v].prompt, "handler")
      BY <2>2, EngineAsksTurn, EngineAnswersTurn DEF Answer, MayFail
    <3>3. QED
      BY <3>1, <3>2, ArrivedSame, ArrivedAppend DEF RpcInv
  <2>3. QED
    BY <2>1, <2>2
<1>8. OneImporter' /\ Carrying' /\ Marked'
  BY <1>2, <1>3, <1>7, HandoffsKept DEF Prompting
<1>9. QED
  BY <1>1, <1>2, <1>4, <1>5, <1>6, <1>8 DEF RpcInv

\* The invariant, when the reply is sent.
LEMMA InvReply ==
  ASSUME RpcInv, NEW v \in Servers, Reply(v)
  PROVE  RpcInv'
<1>1. /\ UNCHANGED <<log, saved, link, imported, failures>> /\ at[v] = "stream"
      /\ at'[v] = "idle" /\ \A w \in Servers : w # v => at'[w] = at[w] /\ job'[w] = job[w]
  BY DoneMoves DEF Reply, RpcInv
<1>2. RpcTypeOK' /\ Requests' /\ Streams'
  BY RpcTypesReply, RequestsReply, StreamsReply DEF RpcInv
<1>3. Known' = Known
  BY <1>1 DEF Known
<1>4. OneImporter' /\ Carrying' /\ Marked'
  BY <1>1, <1>3, ArrivedSame, HandoffsKept
<1>5. \A q \in Prompts : client'[q].state = "unsent" => client[q].state = "unsent"
  <2>1. PICK p \in Prompts : p = job[v].prompt
    BY ReplyMoves DEF RpcInv
  <2>2. client' = client \/ client' = [client EXCEPT ![p].state = "open"]
    BY <2>1, ReplyMoves DEF RpcInv
  <2>3. QED
    BY <2>2 DEF RpcInv, RpcTypeOK, Client
<1>6. Prompted'
  BY <1>1, <1>5, StayUnchanged, PromptedKept DEF RpcInv
<1>7. QED
  BY <1>1, <1>2, <1>3, <1>4, <1>6, UnknownKept DEF RpcInv

\* The invariant, when a client asks for chunks.
LEMMA InvStreamNext ==
  ASSUME RpcInv, NEW v \in Servers, NEW p \in Prompts, NEW n \in 1..MaxAsked, StreamNext(v, p, n)
  PROVE  RpcInv'
<1>1. UNCHANGED <<log, saved, link, at, job, imported>>
  BY DEF StreamNext
<1>2. /\ failures' \in {failures, failures + 1}
      /\ \A q \in Prompts : client'[q].state = "unsent" => client[q].state = "unsent"
  BY StreamNextMoves DEF RpcInv
<1>3. RpcTypeOK' /\ Requests' /\ Streams'
  BY RpcTypesStreamNext, RequestsStreamNext, StreamsStreamNext DEF RpcInv
<1>4. Known' = Known
  BY <1>1 DEF Known
<1>5. OneImporter' /\ Carrying' /\ Marked'
  BY <1>1, <1>2, <1>4, ArrivedSame, HandoffsKept
<1>6. Prompted'
  BY <1>1, <1>2, StayUnchanged, PromptedKept DEF RpcInv
<1>7. QED
  BY <1>1, <1>3, <1>4, <1>5, <1>6, UnknownKept DEF RpcInv

\* The invariant, when a link is created.
LEMMA InvLinkCreate ==
  ASSUME RpcInv, NEW v \in Servers, NEW s \in Sessions, NEW h \in Links, LinkCreate(v, s, h)
  PROVE  RpcInv'
<1>1. UNCHANGED <<log, saved, stream, client, at, job, imported, failures>>
  BY DEF LinkCreate
<1>2. Known' = Known
  BY <1>1 DEF Known
<1>3. Requests' /\ Unknown' /\ Streams'
  BY <1>1, <1>2, RequestsKept, UnknownKept, StreamsKept DEF RpcInv
<1>4. Prompted'
  BY <1>1, StayUnchanged, PromptedKept DEF RpcInv
<1>5. QED
  BY <1>3, <1>4, RpcTypesLinkCreate, HandoffLinkCreate DEF RpcInv

\* The invariant, when an import begins.
LEMMA InvImportBundle ==
  ASSUME RpcInv, NEW v \in Servers, NEW t \in Sessions, NEW h \in Links, NEW c \in Links \cup {None},
         ImportBundle(v, t, h, c), c # None => c = h /\ ~link[h].used
  PROVE  RpcInv'
<1>1. /\ Known' = Known \cup {t} /\ at'[v] = "import"
      /\ \A w \in Servers : w # v => at'[w] = at[w] /\ job'[w] = job[w]
      /\ UNCHANGED <<log, link, stream, client, imported, failures>>
  BY ImportBundleMoves DEF RpcInv
<1>2. RpcTypeOK' /\ Requests'
  BY RpcTypesImportBundle, RequestsImport DEF RpcInv
<1>3. Unknown' /\ Streams'
  BY <1>1, UnknownKept, StreamsKept DEF RpcInv
<1>4. OneImporter' /\ Carrying' /\ Marked'
  BY HandoffImportBundle DEF RpcInv
<1>5. Prompted'
  BY <1>1, StayUnchanged, PromptedKept DEF RpcInv
<1>6. QED
  BY <1>2, <1>3, <1>4, <1>5 DEF RpcInv

\* The invariant, when a turn is imported.
LEMMA InvImportTurn ==
  ASSUME RpcInv, NEW v \in Servers, ImportTurn(v)
  PROVE  RpcInv'
<1>1. Streams'
  BY StreamsKept DEF RpcInv, ImportTurn
<1>2. QED
  BY <1>1, RpcTypesImportTurn, RequestsImport, UnknownImport, HandoffImportTurn, PromptedImportTurn DEF RpcInv

\* The invariant, when an import ends.
LEMMA InvImportEnds ==
  ASSUME RpcInv, NEW v \in Servers, ImportEnds(v)
  PROVE  RpcInv'
<1>1. /\ UNCHANGED <<log, saved, link, stream, client, failures>> /\ at'[v] \in {"idle", "mark"}
      /\ \A w \in Servers : w # v => at'[w] = at[w] /\ job'[w] = job[w]
  BY ImportEndsMoves DEF RpcInv
<1>2. Known' = Known
  BY <1>1 DEF Known
<1>3. Unknown' /\ Streams'
  BY <1>1, <1>2, UnknownKept, StreamsKept DEF RpcInv
<1>4. Prompted'
  BY <1>1, StayUnchanged, PromptedKept DEF RpcInv
<1>5. QED
  BY <1>3, <1>4, RpcTypesImportEnds, RequestsImport, HandoffImportEnds DEF RpcInv

\* The steps that end a request.
LEMMA InvDone ==
  ASSUME RpcInv, NEW v \in Servers, MarkUsed(v) \/ HandlerFails(v) \/ ServerEnds(v)
  PROVE  RpcInv'
<1>1. Done(v) /\ UNCHANGED <<log, saved, imported>> /\ failures' \in {failures, failures + 1}
  BY DEF MarkUsed, HandlerFails, ServerEnds, MayFail
<1>2. /\ at'[v] = "idle" /\ \A w \in Servers : w # v => at'[w] = at[w] /\ job'[w] = job[w]
      /\ Known' = Known
  BY <1>1, DoneMoves DEF RpcInv, Known
<1>3. \A q \in Prompts : client'[q].server = client[q].server /\ client'[q].state = client[q].state
  BY ServerEndsMoves DEF RpcInv, MarkUsed, HandlerFails
<1>4. RpcTypeOK'
  BY RpcTypesMarkUsed, RpcTypesHandlerFails, RpcTypesServerEnds DEF RpcInv
<1>5. Requests' /\ Unknown'
  BY <1>1, <1>2, <1>3, RequestsDone, UnknownKept DEF RpcInv
<1>6. Streams'
  BY StreamsKept, StreamsServerEnds DEF RpcInv, MarkUsed, HandlerFails
<1>7. OneImporter' /\ Carrying' /\ Marked'
  <2>1. CASE MarkUsed(v)
    BY <2>1, HandoffMarkUsed DEF RpcInv
  <2>2. CASE HandlerFails(v) \/ ServerEnds(v)
    <3>1. UNCHANGED link /\ failures' = failures + 1
      BY <2>2 DEF HandlerFails, ServerEnds, MayFail
    <3>2. QED
      BY <1>1, <3>1, HandoffsFail
  <2>3. QED
    BY <2>1, <2>2
<1>8. Prompted'
  BY <1>1, <1>2, <1>3, StayUnchanged, PromptedKept DEF RpcInv
<1>9. QED
  BY <1>4, <1>5, <1>6, <1>7, <1>8 DEF RpcInv

\* Every step keeps the invariant.
LEMMA RpcInvNext == RpcInv /\ [RpcNext]_rpcVars => RpcInv'
<1> SUFFICES ASSUME RpcInv, [RpcNext]_rpcVars PROVE RpcInv'
  OBVIOUS
<1>1. CASE UNCHANGED rpcVars
  <2>1. UNCHANGED <<log, saved, link, stream, client, at, job, imported, failures>>
    BY <1>1 DEF rpcVars
  <2>2. RpcTypeOK' /\ Known' = Known
    BY <2>1 DEF RpcInv, RpcTypeOK, Known
  <2>3. Requests' /\ Unknown' /\ Streams'
    BY <2>1, <2>2, RequestsKept, UnknownKept, StreamsKept DEF RpcInv
  <2>4. OneImporter' /\ Carrying' /\ Marked'
    BY <2>1, <2>2, ArrivedSame, HandoffsKept
  <2>5. Prompted'
    <3>1. \A p \in Prompts : Recorded(p)' = Recorded(p)
      BY <2>1 DEF Recorded, Once, Answered, Unsent, Nowhere, Position
    <3>2. \A v \in Servers : Progress(v)' = Progress(v)
      BY <2>1 DEF Progress, Nowhere, Position
    <3>3. QED
      BY <3>1, <3>2 DEF RpcInv, Prompted
  <2>6. QED
    BY <2>2, <2>3, <2>4, <2>5 DEF RpcInv
<1>2. ASSUME NEW v \in Servers, NEW s \in Sessions,
             NewSession(v, s) \/ \E p \in Prompts : Ask(v, s, p)
      PROVE  RpcInv'
  BY <1>2, InvNewSession, InvAsk
<1>3. ASSUME NEW v \in Servers,
             EngineSession(v) \/ EngineAsks(v) \/ EngineAnswers(v) \/ Answer(v) \/ Reply(v)
      PROVE  RpcInv'
  BY <1>3, InvEngine, InvReply
<1>4. ASSUME NEW v \in Servers, NEW p \in Prompts, NEW n \in 1..MaxAsked, StreamNext(v, p, n)
      PROVE  RpcInv'
  BY <1>4, InvStreamNext
<1>5. ASSUME NEW v \in Servers, NEW h \in Links, NEW s \in Sessions,
             LinkCreate(v, s, h) \/ ImportBundle(v, s, h, None) \/ Consume(v, s, h)
      PROVE  RpcInv'
  <2>1. CASE LinkCreate(v, s, h)
    BY <2>1, InvLinkCreate
  <2>2. CASE ImportBundle(v, s, h, None)
    <3>1. None \in Links \cup {None}
      OBVIOUS
    <3>2. QED
      BY <2>2, <3>1, InvImportBundle
  <2>3. CASE Consume(v, s, h)
    <3>1. h \in Links \cup {None} /\ ~link[h].used /\ ImportBundle(v, s, h, h)
      BY <2>3 DEF Consume
    <3>2. QED
      BY <3>1, InvImportBundle
  <2>4. QED
    BY <1>5, <2>1, <2>2, <2>3
<1>6. ASSUME NEW v \in Servers,
             ImportTurn(v) \/ ImportEnds(v) \/ MarkUsed(v) \/ HandlerFails(v) \/ ServerEnds(v)
      PROVE  RpcInv'
  BY <1>6, InvImportTurn, InvImportEnds, InvDone
<1>7. QED
  BY <1>1, <1>2, <1>3, <1>4, <1>5, <1>6 DEF RpcNext

\* The invariant of the sessions of the JSON-RPC server.
THEOREM RpcInvariant == RpcSpec => []RpcInv
<1>1. RpcInit => RpcInv
  BY RpcInvInit
<1>2. RpcInv /\ [RpcNext]_rpcVars => RpcInv'
  BY RpcInvNext
<1>3. QED
  BY <1>1, <1>2, PTL DEF RpcSpec

\* A set within a pair has at most two elements.
LEMMA SingletonsAreSmall ==
  ASSUME NEW S, NEW a, NEW b, S \subseteq {a, b}
  PROVE  Cardinality(S) <= 2
<1>1. IsFiniteSet({a}) /\ Cardinality({a}) = 1
  BY FS_Singleton
<1>2. S \subseteq {a} \cup {b}
  OBVIOUS
<1>3. Cardinality(S) \in Nat /\ Cardinality(S) <= Cardinality({a}) + 1
  BY <1>1, <1>2, OneMore
<1>4. QED
  BY <1>1, <1>3

\* The answers of a prompt, as the invariant tells them.
LEMMA PromptAnswers ==
  ASSUME RpcTypeOK, NEW p \in Prompts, Recorded(p)
  PROVE  /\ \A s \in Sessions, by \in Written : \A a \in DOMAIN log[s] :
              a \in Position(s, "assistant", p, by) =>
                 /\ Position(s, "assistant", p, by) = {a}
                 /\ Cardinality(Position(s, "user", p, by)) <= 1
                 /\ (\E q \in Position(s, "user", p, by) : q < a) \/ (by = "agent" /\ failures > 0)
         /\ Cardinality({s \in Sessions : \E i \in DOMAIN log[s] :
                           log[s][i].prompt = p /\ log[s][i].by # "import"}) <= 2
<1>1. Once(p) /\ Answered(p)
  BY DEF Recorded
<1>2. ASSUME NEW s \in Sessions, NEW by \in Written, NEW a \in DOMAIN log[s], a \in Position(s, "assistant", p, by)
      PROVE  /\ Position(s, "assistant", p, by) = {a}
             /\ Cardinality(Position(s, "user", p, by)) <= 1
             /\ (\E q \in Position(s, "user", p, by) : q < a) \/ (by = "agent" /\ failures > 0)
  <2>1. Position(s, "assistant", p, by) = {a}
    BY <1>1, <1>2 DEF Once, Spoken
  <2>2. Cardinality(Position(s, "user", p, by)) <= 1
    <3>1. CASE Position(s, "user", p, by) = {}
      BY <3>1, FS_EmptySet
    <3>2. CASE Position(s, "user", p, by) # {}
      <4>1. PICK q : q \in Position(s, "user", p, by)
        BY <3>2
      <4>2. Position(s, "user", p, by) = {q}
        BY <1>1, <4>1 DEF Once, Spoken
      <4>3. Cardinality({q}) = 1
        BY FS_Singleton
      <4>4. QED
        BY <4>2, <4>3
    <3>3. QED
      BY <3>1, <3>2
  <2>3. a \in Nat
    <3>1. log[s] \in Seq(Turn)
      BY DEF RpcTypeOK
    <3> HIDE DEF Turn
    <3>2. QED
      BY <3>1
  <2>4. QED
    BY <1>1, <1>2, <2>1, <2>2, <2>3 DEF Answered, Written
<1> DEFINE S == {s \in Sessions : \E i \in DOMAIN log[s] : log[s][i].prompt = p /\ log[s][i].by # "import"}
<1>3. ASSUME NEW s \in Sessions, NEW i \in DOMAIN log[s], log[s][i].prompt = p, log[s][i].by # "import"
      PROVE  \E role \in Spoken, by \in Written : i \in Position(s, role, p, by)
  <2>1. log[s][i] \in Turn
    <3>1. log[s] \in Seq(Turn)
      BY DEF RpcTypeOK
    <3> HIDE DEF Turn
    <3>2. QED
      BY <3>1
  <2>2. PICK role \in Spoken, by \in Written : log[s][i] = [role |-> role, prompt |-> p, by |-> by]
    <3>1. log[s][i] = [role |-> log[s][i].role, prompt |-> p, by |-> log[s][i].by]
      BY <1>3, <2>1 DEF Turn
    <3>2. log[s][i].role \in Spoken /\ log[s][i].by \in Written
      BY <1>3, <2>1 DEF Turn, Spoken, Written
    <3>3. QED
      BY <3>1, <3>2
  <2>3. QED
    BY <2>2 DEF Position
\* The handler and the engine write in one session each.
<1> DEFINE Wrote(by) == {s \in Sessions : \E role \in Spoken : Position(s, role, p, by) # {}}
<1>4. ASSUME NEW s \in Wrote("handler"), NEW t \in Wrote("handler")
      PROVE  s = t
  <2>1. \A u \in Wrote("handler") : Position(u, "user", p, "handler") # {}
    <3>1. ASSUME NEW u \in Sessions, Position(u, "assistant", p, "handler") # {}
          PROVE  Position(u, "user", p, "handler") # {}
      <4>1. PICK a : a \in Position(u, "assistant", p, "handler")
        BY <3>1
      <4>2. a \in Nat
        <5>1. log[u] \in Seq(Turn) /\ a \in DOMAIN log[u]
          BY <4>1 DEF RpcTypeOK, Position
        <5> HIDE DEF Turn
        <5>2. QED
          BY <5>1
      <4>3. QED
        BY <1>1, <4>1, <4>2 DEF Answered
    <3>2. QED
      BY <3>1 DEF Spoken
  <2>2. QED
    BY <1>1, <2>1 DEF Once, Spoken, Written
<1>5. ASSUME NEW s \in Wrote("agent"), NEW t \in Wrote("agent")
      PROVE  s = t
  <2>1. "user" \in Spoken /\ "assistant" \in Spoken /\ "agent" \in Written
    BY DEF Spoken, Written
  <2>2. PICK r1 \in Spoken, r2 \in Spoken : Position(s, r1, p, "agent") # {} /\ Position(t, r2, p, "agent") # {}
    OBVIOUS
  <2>3. CASE r1 = r2
    BY <1>1, <2>1, <2>2, <2>3 DEF Once
  <2>4. CASE r1 # r2
    BY <1>1, <2>2, <2>4 DEF Answered, Spoken
  <2>5. QED
    BY <2>3, <2>4
<1>6. \A s \in S : s \in Wrote("handler") \/ s \in Wrote("agent")
  BY <1>3 DEF Written
<1> HIDE DEF S, Wrote
<1>7. \E a, b : S \subseteq {a, b}
  BY <1>4, <1>5, <1>6
<1>8. Cardinality(S) <= 2
  BY <1>7, SingletonsAreSmall
<1>9. QED
  BY <1>2, <1>8 DEF S

\* The handler and the engine record each question and each answer at most
\* once, in at most two sessions, and an answer stands after its question
\* unless the engine failed to record it.
THEOREM AnswersAlwaysFollow == RpcSpec => []AnswersFollowQuestions
<1>1. RpcInv => AnswersFollowQuestions
  <2> SUFFICES ASSUME RpcInv, NEW p \in Prompts
               PROVE  /\ \A s \in Sessions, by \in Written : \A a \in DOMAIN log[s] :
                            a \in Position(s, "assistant", p, by) =>
                               /\ Position(s, "assistant", p, by) = {a}
                               /\ Cardinality(Position(s, "user", p, by)) <= 1
                               /\ (\E q \in Position(s, "user", p, by) : q < a) \/ (by = "agent" /\ failures > 0)
                      /\ Cardinality({s \in Sessions : \E i \in DOMAIN log[s] :
                                         log[s][i].prompt = p /\ log[s][i].by # "import"}) <= 2
    BY DEF AnswersFollowQuestions, Written
  <2>1. QED
    BY PromptAnswers DEF RpcInv, Prompted
<1>2. QED
  BY <1>1, RpcInvariant, PTL

\* A client gets every chunk once and in order, has them all when it is told
\* so, and misses a stream only after its server ended or a reply was lost.
THEOREM StreamsAlwaysDelivered == RpcSpec => []StreamDelivered
<1>1. RpcInv => StreamDelivered
  BY DEF RpcInv, Streams, StreamOf, StreamDelivered
<1>2. QED
  BY <1>1, RpcInvariant, PTL

\* A session that a handoff has filled holds the turns of the bundle in their
\* order, a link that is used has been imported, and the servers that had begun
\* before the mark and the failures bound how often.
THEOREM HandoffsAlwaysComplete == RpcSpec => []HandoffsComplete
<1>1. RpcInv => HandoffsComplete
  <2> SUFFICES ASSUME RpcInv, NEW h \in Links
               PROVE  /\ \A s \in imported[h] : Turns(Only(log[s], Imported)) = Turns(link[h].bundle)
                      /\ link[h].used => imported[h] # {}
                      /\ Cardinality(imported[h]) <= failures + Cardinality(Servers)
    BY DEF HandoffsComplete
  <2>1. MarkedLink(h) /\ imported[h] \subseteq Sessions /\ failures \in Nat
    BY DEF RpcInv, Marked, RpcTypeOK
  <2>2. /\ Cardinality(Servers) \in Nat /\ Cardinality(Importing(h)) \in Nat /\ Cardinality(Marking(h)) \in Nat
        /\ Cardinality(Importing(h)) + Cardinality(Marking(h)) <= Cardinality(Servers)
    BY ServersOfLink
  <2>3. Cardinality(imported[h]) \in Nat
    BY <2>1, FS_CardinalityType DEF MarkedLink
  <2>4. Cardinality(imported[h]) <= failures + Cardinality(Servers)
    BY <2>1, <2>2, <2>3 DEF MarkedLink
  <2>5. \A s \in imported[h] : Turns(Only(log[s], Imported)) = Turns(link[h].bundle)
    BY <2>1 DEF RpcInv, Carrying, Arrived
  <2>6. QED
    BY <2>1, <2>4, <2>5 DEF MarkedLink
<1>2. QED
  BY <1>1, RpcInvariant, PTL
=============================================================================
