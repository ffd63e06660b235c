----------------------- MODULE ProviderHistoryProofs -----------------------
(***************************************************************************)
(* The types, the retry loop, the resume and the links between calls and   *)
(* outputs of ProviderHistory, for any number of retries, turns, requests  *)
(* and resumes.                                                            *)
(***************************************************************************)
EXTENDS ProviderHistory, FiniteSetTheorems, TLAPS

-----------------------------------------------------------------------------
(* Linked histories.  The protocol k is a parameter, as a state and its    *)
(* successor share it.                                                     *)

\* AnswersTo, of any sequence of messages.
Answers(s, j) == {k \in j + 1 .. Len(s) : \A l \in j + 1 .. k : s[l].role = "tool"}

\* The call c of message j is answered once.
AnsweredOnce(s, j, c) ==
  \E k \in Answers(s, j) :
    c \in s[k].calls /\ \A l \in Answers(s, j) : c \in s[l].calls => l = k

\* What ToolLinks asks of message j.
Settled(k, s, j) ==
  /\ s[j].role = "tool" =>
       \E i \in 1 .. j - 1 : j \in Answers(s, i) /\ s[j].calls \subseteq s[i].calls
  /\ s[j].role = "assistant" /\ s[j].calls # {} =>
       \/ k = "messages" /\ j < Len(s) /\ s[j + 1] = s[j]
       \/ \A c \in s[j].calls : AnsweredOnce(s, j, c)

Linked(k, s) == \A j \in 1 .. Len(s) : Settled(k, s, j)

\* All but the last message, which makes the calls still to be answered.
Open(k, s, m) ==
  /\ Len(s) > 0 /\ s[Len(s)] = m
  /\ m.role = "assistant"
  /\ \A j \in 1 .. Len(s) - 1 : Settled(k, s, j)

\* Tool messages that answer each of the calls once.
Answer(t, calls) ==
  /\ \A i \in 1 .. Len(t) : t[i].role = "tool" /\ t[i].calls \subseteq calls
  /\ \A c \in calls : \E i \in 1 .. Len(t) :
       c \in t[i].calls /\ \A l \in 1 .. Len(t) : c \in t[l].calls => l = i

-----------------------------------------------------------------------------
(* The inductive invariant.                                                *)

Busy == {"sending", "waiting", "streaming"}

\* Up to two calls, one after the other.
Consecutive(calls, last) ==
  \E a \in Nat, n \in 0 .. 2 : a + n <= last /\ calls = a + 1 .. a + n

\* Every request leaves room for the two calls its response may make, and a
\* run is asked for no turn beyond its last.  The calls owed are those of the
\* last response.
CountInv ==
  /\ issued <= 2 * asks
  /\ phase \in Busy => asks > 0 /\ issued <= 2 * (asks - 1) /\ turn < MaxTurns
  /\ owed # {} => turn > 0
  /\ purpose = "review" => turn = 0 /\ saved = NoCheckpoint
  /\ Consecutive(owed, issued)

\* _with_retry counts its operations, and waits only after a transient error
\* that leaves it another.
RetryInv ==
  /\ tries = attempt
  /\ phase \in {"sending", "waiting"} => attempt <= MaxRetries
  /\ phase = "waiting" => error \in Transient
  /\ phase = "failed" /\ error \in Transient => attempt = MaxRetries + 1

\* Until the first request after a resume the provider is what the checkpoint
\* tells, and owes no outputs.
ResumeInv ==
  resumed =>
    /\ saved # NoCheckpoint
    /\ history = saved.history
    /\ turn = saved.turn
    /\ owed = {}
    /\ phase = "idle"

\* A history is linked while a request is under way and after it has failed.
\* Between two turns the last message may have calls that are owed, and then
\* the Messages adapter remembers just these.  At turn 0 the history is to be
\* replaced, and after the last turn it is not sent again.
LinkInv ==
  kind # "responses" =>
    /\ phase \in Busy => sent = history
    /\ phase # "idle" => Linked(kind, history)
    /\ phase = "idle" /\ turn # 0 /\ turn # MaxTurns =>
         IF owed = {} THEN Linked(kind, history)
         ELSE \E text \in Texts :
                /\ Open(kind, history, Message("assistant", text, owed))
                /\ kind = "messages" => text = "" /\ pending = owed
    /\ saved # NoCheckpoint /\ saved.turn # 0 /\ saved.turn # MaxTurns =>
         Linked(kind, saved.history)

IInv == TypeOK /\ CountInv /\ RetryInv /\ ResumeInv /\ LinkInv

-----------------------------------------------------------------------------
(* Sequences of messages.                                                  *)

LEMMA MessageType ==
  ASSUME NEW role \in Roles, NEW text \in Texts, NEW calls \in SUBSET Calls
  PROVE  /\ Message(role, text, calls) \in Messages
         /\ Message(role, text, calls).role = role
         /\ Message(role, text, calls).calls = calls
BY DEF Message, Messages

LEMMA AssistantType ==
  \A text \in {"", "reply"} : \A calls \in SUBSET Calls : \E m \in Messages :
    m = Message("assistant", text, calls) /\ m.role = "assistant" /\ m.calls = calls
<1>1. \A text \in Texts : \A calls \in SUBSET Calls : \E m \in Messages :
        m = Message("assistant", text, calls) /\ m.role = "assistant" /\ m.calls = calls
  BY MessageType DEF Roles
<1>2. {"", "reply"} \subseteq Texts
  BY DEF Texts
<1>. QED
  BY <1>1, <1>2, Zenon

LEMMA AppendType ==
  ASSUME NEW s \in Seq(Messages), NEW m \in Messages
  PROVE  Append(s, m) \in Seq(Messages)
OBVIOUS

\* A sequence extends another up to a message that is not of a tool, if there
\* is one in front of the extension or at its beginning: no message before it
\* gets more answers.
LEMMA SameAnswers ==
  ASSUME NEW s \in Seq(Messages), NEW u \in Seq(Messages),
         Len(s) <= Len(u), \A i \in 1 .. Len(s) : u[i] = s[i],
         NEW j \in 1 .. Len(s), NEW b \in j + 1 .. Len(s) + 1,
         b <= Len(u) => u[b].role # "tool"
  PROVE  Answers(u, j) = Answers(s, j)
<1>1. ASSUME NEW k \in Answers(u, j)
      PROVE  k \in Answers(s, j)
  <2>1. k \in j + 1 .. Len(u) /\ \A l \in j + 1 .. k : u[l].role = "tool"
    BY <1>1 DEF Answers
  <2>2. k < b
    BY <2>1
  <2>3. k \in j + 1 .. Len(s)
    BY <2>1, <2>2
  <2>. QED
    BY <2>1, <2>3 DEF Answers
<1>2. ASSUME NEW k \in Answers(s, j)
      PROVE  k \in Answers(u, j)
  BY <1>2 DEF Answers
<1>. QED
  BY <1>1, <1>2

\* What was an answer stays one.
LEMMA StillAnswers ==
  ASSUME NEW s \in Seq(Messages), NEW u \in Seq(Messages),
         Len(s) <= Len(u), \A i \in 1 .. Len(s) : u[i] = s[i],
         NEW i \in Nat
  PROVE  Answers(s, i) \subseteq Answers(u, i)
BY DEF Answers

LEMMA StillSettled ==
  ASSUME NEW k,
         NEW s \in Seq(Messages), NEW u \in Seq(Messages),
         Len(s) <= Len(u), \A i \in 1 .. Len(s) : u[i] = s[i],
         NEW j \in 1 .. Len(s), NEW b \in j + 1 .. Len(s) + 1,
         b <= Len(u) => u[b].role # "tool",
         Settled(k, s, j)
  PROVE  Settled(k, u, j)
<1>1. Answers(u, j) = Answers(s, j)
  BY SameAnswers
<1>2. u[j] = s[j]
  OBVIOUS
<1>3. ASSUME u[j].role = "tool"
      PROVE  \E i \in 1 .. j - 1 : j \in Answers(u, i) /\ u[j].calls \subseteq u[i].calls
  <2>1. PICK i \in 1 .. j - 1 : j \in Answers(s, i) /\ s[j].calls \subseteq s[i].calls
    BY <1>2, <1>3 DEF Settled
  <2>2. i \in Nat /\ u[i] = s[i]
    OBVIOUS
  <2>3. j \in Answers(u, i)
    BY <2>1, <2>2, StillAnswers
  <2>. QED
    BY <1>2, <2>1, <2>2, <2>3
<1>4. ASSUME u[j].role = "assistant", u[j].calls # {}
      PROVE  \/ k = "messages" /\ j < Len(u) /\ u[j + 1] = u[j]
             \/ \A c \in u[j].calls : AnsweredOnce(u, j, c)
  <2>1. CASE k = "messages" /\ j < Len(s) /\ s[j + 1] = s[j]
    BY <2>1
  <2>2. CASE \A c \in s[j].calls : AnsweredOnce(s, j, c)
    <3>1. ASSUME NEW c, AnsweredOnce(s, j, c)
          PROVE  AnsweredOnce(u, j, c)
      <4>1. \A l \in Answers(s, j) : u[l] = s[l]
        BY DEF Answers
      <4>. QED
        BY <1>1, <3>1, <4>1 DEF AnsweredOnce
    <3>. QED
      BY <1>2, <2>2, <3>1
  <2>. QED
    BY <1>2, <1>4, <2>1, <2>2 DEF Settled
<1>. QED
  BY <1>3, <1>4 DEF Settled

\* A linked history stays linked under a message without calls, and is open
\* under one of the model with calls.
LEMMA AppendLinked ==
  ASSUME NEW k, NEW s \in Seq(Messages), Linked(k, s),
         NEW m \in Messages, m.role # "tool"
  PROVE  /\ m.role # "assistant" \/ m.calls = {} => Linked(k, Append(s, m))
         /\ m.role = "assistant" => Open(k, Append(s, m), m)
<1>1. PICK u \in Seq(Messages) : u = Append(s, m)
  <2>1. Append(s, m) \in Seq(Messages)
    OBVIOUS
  <2>. QED
    BY <2>1, Zenon
<1>2. Len(u) = Len(s) + 1 /\ u[Len(u)] = m /\ \A i \in 1 .. Len(s) : u[i] = s[i]
  BY <1>1
<1>3. ASSUME NEW j \in 1 .. Len(s)
      PROVE  Settled(k, u, j)
  <2>1. Len(s) + 1 \in j + 1 .. Len(s) + 1 /\ u[Len(s) + 1].role # "tool"
    BY <1>2
  <2>2. Settled(k, s, j) /\ Len(s) <= Len(u)
    BY <1>2 DEF Linked
  <2>. QED
    BY <1>2, <2>1, <2>2, StillSettled
<1>4. m.role # "assistant" \/ m.calls = {} => Settled(k, u, Len(u))
  BY <1>2 DEF Settled
<1>5. \A j \in 1 .. Len(u) : j \in 1 .. Len(s) \/ j = Len(u)
  BY <1>2
<1>6. Len(u) > 0 /\ Len(u) - 1 = Len(s)
  BY <1>2
<1>. QED
  BY <1>1, <1>2, <1>3, <1>4, <1>5, <1>6 DEF Linked, Open

\* The Messages adapter repeats the last message: the first of the two counts
\* as settled.
LEMMA RepeatOpen ==
  ASSUME NEW s \in Seq(Messages), NEW m \in Messages, Open("messages", s, m)
  PROVE  Open("messages", Append(s, m), m)
<1>1. PICK u \in Seq(Messages) : u = Append(s, m)
  <2>1. Append(s, m) \in Seq(Messages)
    OBVIOUS
  <2>. QED
    BY <2>1, Zenon
<1>2. /\ Len(u) = Len(s) + 1 /\ u[Len(u)] = m /\ \A i \in 1 .. Len(s) : u[i] = s[i]
      /\ Len(s) > 0 /\ s[Len(s)] = m /\ m.role = "assistant"
  BY <1>1 DEF Open
<1>3. ASSUME NEW j \in 1 .. Len(s) - 1
      PROVE  Settled("messages", u, j)
  <2>1. j \in 1 .. Len(s) /\ Len(s) \in j + 1 .. Len(s) + 1 /\ u[Len(s)].role # "tool"
    BY <1>2
  <2>2. Settled("messages", s, j) /\ Len(s) <= Len(u)
    BY <1>2 DEF Open
  <2>. QED
    BY <1>2, <2>1, <2>2, StillSettled
<1>4. Settled("messages", u, Len(s))
  <2>1. u[Len(s)] = m /\ u[Len(s) + 1] = m /\ Len(s) < Len(u)
    BY <1>2
  <2>. QED
    BY <1>2, <2>1 DEF Settled
<1>5. \A j \in 1 .. Len(u) - 1 : j \in 1 .. Len(s) - 1 \/ j = Len(s)
  BY <1>2
<1>. QED
  BY <1>1, <1>2, <1>3, <1>4, <1>5 DEF Open

\* The outputs close an open history.
LEMMA AnswerLinked ==
  ASSUME NEW k, NEW s \in Seq(Messages), NEW m \in Messages, Open(k, s, m),
         NEW t \in Seq(Messages), Answer(t, m.calls)
  PROVE  Linked(k, s \o t)
<1>1. PICK u \in Seq(Messages) : u = s \o t
  <2>1. s \o t \in Seq(Messages)
    OBVIOUS
  <2>. QED
    BY <2>1, Zenon
<1>2. PICK n \in Nat : n = Len(s)
  OBVIOUS
<1>3. /\ Len(u) = n + Len(t) /\ Len(t) \in Nat
      /\ \A i \in 1 .. n : u[i] = s[i]
      /\ \A i \in 1 .. Len(t) : u[n + i] = t[i]
      /\ n > 0 /\ u[n] = m /\ m.role = "assistant"
  BY <1>1, <1>2 DEF Open
<1>4. \A i \in n + 1 .. Len(u) :
        i - n \in 1 .. Len(t) /\ u[i] = t[i - n] /\ u[i].role = "tool"
        /\ u[i].calls \subseteq m.calls
  <2>1. ASSUME NEW i \in n + 1 .. Len(u)
        PROVE  i - n \in 1 .. Len(t) /\ n + (i - n) = i
    BY <1>3
  <2>. QED
    BY <1>3, <2>1 DEF Answer
<1>5. Answers(u, n) = n + 1 .. Len(u)
  BY <1>4 DEF Answers
<1>6. ASSUME NEW j \in 1 .. n - 1
      PROVE  Settled(k, u, j)
  <2>1. j \in 1 .. Len(s) /\ n \in j + 1 .. Len(s) + 1 /\ u[n].role # "tool"
    BY <1>2, <1>3
  <2>2. Settled(k, s, j) /\ Len(s) <= Len(u)
    BY <1>2, <1>3 DEF Open
  <2>. QED
    BY <1>2, <1>3, <2>1, <2>2, StillSettled
<1>7. Settled(k, u, n)
  <2>1. ASSUME NEW c \in m.calls
        PROVE  AnsweredOnce(u, n, c)
    <3>1. PICK i \in 1 .. Len(t) :
            c \in t[i].calls /\ \A l \in 1 .. Len(t) : c \in t[l].calls => l = i
      BY DEF Answer
    <3>2. n + i \in n + 1 .. Len(u) /\ u[n + i] = t[i]
      BY <1>3
    <3>3. ASSUME NEW l \in n + 1 .. Len(u), c \in u[l].calls
          PROVE  l = n + i
      <4>1. l - n = i
        BY <1>4, <3>1, <3>3
      <4>. QED
        BY <4>1
    <3>. QED
      BY <1>5, <3>1, <3>2, <3>3 DEF AnsweredOnce
  <2>. QED
    BY <1>3, <2>1 DEF Settled
<1>8. ASSUME NEW j \in n + 1 .. Len(u)
      PROVE  Settled(k, u, j)
  <2>1. n \in 1 .. j - 1 /\ j \in Answers(u, n) /\ u[j].calls \subseteq u[n].calls
    BY <1>3, <1>4, <1>5
  <2>. QED
    BY <1>4, <2>1 DEF Settled
<1>9. \A j \in 1 .. Len(u) : j \in 1 .. n - 1 \/ j = n \/ j \in n + 1 .. Len(u)
  BY <1>3
<1>. QED
  BY <1>1, <1>6, <1>7, <1>8, <1>9 DEF Linked

-----------------------------------------------------------------------------
(* What a request sends.                                                   *)

\* Messages of their own, one for each call owed, in order.
OutputMessages ==
  [i \in 1 .. Cardinality(owed) |-> Message("tool", "reply", {Outputs[i]})]

LEMMA OutputsAnswer ==
  ASSUME TypeOK, CountInv
  PROVE  /\ OutputMessages \in Seq(Messages)
         /\ Answer(OutputMessages, owed)
         /\ owed = {} => OutputMessages = <<>>
<1>1. PICK a \in Nat, n \in 0 .. 2 : owed = a + 1 .. a + n
  BY DEF CountInv, Consecutive
<1>2. Cardinality(owed) = n
  <2>1. a + 1 \in Int /\ a + n \in Int
    OBVIOUS
  <2>2. Cardinality(owed) = IF a + 1 > a + n THEN 0 ELSE a + n - (a + 1) + 1
    BY <1>1, <2>1, FS_Interval
  <2>. QED
    BY <2>2
<1>3. \A i \in 1 .. n : Outputs[i] = a + i
  <2>1. PICK w : w = [i \in 1 .. n |-> a + i]
    OBVIOUS
  <2>2. w \in [1 .. n -> owed] /\ \A i, j \in DOMAIN w : i < j => w[i] < w[j]
    BY <1>1, <2>1
  <2>3. PICK o : o = Outputs
    OBVIOUS
  <2>4. o \in [1 .. n -> owed] /\ \A i, j \in DOMAIN o : i < j => o[i] < o[j]
    BY <1>2, <2>2, <2>3 DEF Outputs
  <2>5. CASE n = 1
    BY <1>1, <2>3, <2>4, <2>5
  <2>6. CASE n = 2
    <3>1. o[1] \in owed /\ o[2] \in owed /\ o[1] < o[2]
      BY <2>4, <2>6
    <3>. QED
      BY <1>1, <2>3, <2>6, <3>1
  <2>. QED
    BY <2>5, <2>6
<1>4. PICK t : t = OutputMessages
  OBVIOUS
<1>5. t = [i \in 1 .. n |-> Message("tool", "reply", {a + i})]
  BY <1>2, <1>3, <1>4 DEF OutputMessages
<1>6. ASSUME NEW i \in 1 .. n
      PROVE  /\ t[i] \in Messages
             /\ t[i].role = "tool" /\ t[i].calls = {a + i}
  <2>1. {a + i} \in SUBSET Calls
    BY <1>1 DEF TypeOK
  <2>. QED
    BY <1>5, <2>1, MessageType DEF Roles, Texts
<1>7. t \in Seq(Messages) /\ Len(t) = n
  <2>1. t \in [1 .. n -> Messages]
    BY <1>5, <1>6
  <2>2. n \in Nat
    OBVIOUS
  <2>. QED
    BY <2>1, <2>2
<1>8. Answer(t, owed)
  <2>1. ASSUME NEW c \in owed
        PROVE  \E i \in 1 .. n :
                 c \in t[i].calls /\ \A l \in 1 .. n : c \in t[l].calls => l = i
    <3>1. c - a \in 1 .. n /\ a + (c - a) = c
      BY <1>1
    <3>2. \A l \in 1 .. n : c \in t[l].calls => l = c - a
      BY <1>6
    <3>. QED
      BY <1>6, <3>1, <3>2
  <2>2. \A i \in 1 .. n : t[i].calls \subseteq owed
    BY <1>1, <1>6
  <2>. QED
    BY <1>6, <1>7, <2>1, <2>2 DEF Answer
<1>9. owed = {} => n = 0
  BY <1>1
<1>. QED
  BY <1>4, <1>7, <1>8, <1>9

\* One message with all outputs.
LEMMA OneAnswers ==
  ASSUME TypeOK
  PROVE  /\ <<Message("tool", "reply", owed)>> \in Seq(Messages)
         /\ Answer(<<Message("tool", "reply", owed)>>, owed)
<1>1. PICK m : m = Message("tool", "reply", owed)
  OBVIOUS
<1>2. m \in Messages /\ m.role = "tool" /\ m.calls = owed
  BY <1>1, MessageType DEF Roles, Texts, TypeOK
<1>3. <<m>> \in Seq(Messages) /\ Len(<<m>>) = 1 /\ <<m>>[1] = m
  BY <1>2
<1>. QED
  BY <1>1, <1>2, <1>3 DEF Answer

\* A first request.
LEMMA FirstMessages ==
  ASSUME NEW k
  PROVE  LET s == <<Message("system", "context", {}), Message("user", "task", {})>>
         IN  s \in Seq(Messages) /\ Linked(k, s)
<1>1. PICK l, m : l = Message("system", "context", {}) /\ m = Message("user", "task", {})
  OBVIOUS
<1>2. /\ l \in Messages /\ l.role = "system"
      /\ m \in Messages /\ m.role = "user"
  <2>1. {} \in SUBSET Calls
    OBVIOUS
  <2>2. {"system", "user"} \subseteq Roles /\ {"context", "task"} \subseteq Texts
    BY DEF Roles, Texts
  <2>. QED
    BY <1>1, <2>1, <2>2, MessageType
<1>3. <<l, m>> \in Seq(Messages) /\ Len(<<l, m>>) = 2
      /\ <<l, m>>[1] = l /\ <<l, m>>[2] = m
  BY <1>2
<1>. QED
  BY <1>1, <1>2, <1>3 DEF Linked, Settled

\* Nothing is added to a history by an empty sequence.
LEMMA NothingAdded ==
  ASSUME NEW S, NEW s \in Seq(S)
  PROVE  s \o <<>> = s
OBVIOUS

LEMMA ChatInputLinked ==
  ASSUME TypeOK, CountInv
  PROVE  /\ ChatInput \in Seq(Messages)
         /\ turn # 0 /\ owed = {} => ChatInput = history
         /\ LinkInv /\ IsChat /\ phase = "idle" /\ turn < MaxTurns => Linked(kind, ChatInput)
<1>1. PICK base : base = IF turn = 0 THEN <<Message("system", "context", {}),
                                            Message("user", "task", {})>>
                         ELSE history
  OBVIOUS
<1>2. PICK t \in Seq(Messages) : t = OutputMessages /\ Answer(t, owed)
                                 /\ (owed = {} => t = <<>>)
  BY OutputsAnswer
<1>3. base \in Seq(Messages)
  BY <1>1, FirstMessages DEF TypeOK
<1>4. ChatInput = base \o t
  BY <1>1, <1>2 DEF ChatInput, OutputMessages
<1>5. base \o t \in Seq(Messages) /\ base \o <<>> = base
  BY <1>3, NothingAdded
<1>6. ASSUME LinkInv, IsChat, phase = "idle", turn < MaxTurns
      PROVE  Linked(kind, ChatInput)
  <2>1. kind # "responses" /\ turn # MaxTurns
    BY <1>6, ProviderAssumption DEF IsChat, TypeOK
  <2>2. CASE turn = 0
    <3>1. owed = {}
      <4>1. ~(turn > 0)
        BY <2>2
      <4>. QED
        BY <4>1 DEF CountInv
    <3>. QED
      BY <1>1, <1>2, <1>4, <1>5, <2>2, <3>1, FirstMessages
  <2>3. CASE turn # 0 /\ owed = {}
    BY <1>1, <1>2, <1>4, <1>5, <1>6, <2>1, <2>3 DEF LinkInv
  <2>4. CASE turn # 0 /\ owed # {}
    <3>1. PICK text \in Texts : Open(kind, history, Message("assistant", text, owed))
      BY <1>6, <2>1, <2>4 DEF LinkInv
    <3>2. PICK m \in Messages : m = Message("assistant", text, owed) /\ m.calls = owed
      BY MessageType DEF Roles, TypeOK
    <3>. QED
      BY <1>1, <1>2, <1>3, <1>4, <2>4, <3>1, <3>2, AnswerLinked
  <2>. QED
    BY <2>2, <2>3, <2>4
<1>. QED
  BY <1>1, <1>2, <1>4, <1>5, <1>6

LEMMA MessagesInputLinked ==
  ASSUME TypeOK, CountInv
  PROVE  /\ MessagesInput \in Seq(Messages)
         /\ turn # 0 /\ owed = {} => MessagesInput = history
         /\ LinkInv /\ kind = "messages" /\ phase = "idle" /\ turn < MaxTurns =>
              Linked(kind, MessagesInput)
<1>1. PICK base, repeat, outputs :
        /\ base = IF turn = 0 THEN <<>> ELSE history
        /\ repeat = IF owed # {} /\ turn # 0 /\ pending # {}
                      THEN <<Message("assistant", "", pending)>> ELSE <<>>
        /\ outputs = IF owed # {} THEN <<Message("tool", "reply", owed)>> ELSE <<>>
  OBVIOUS
<1>2. PICK m \in Messages : m = Message("assistant", "", pending)
  BY MessageType DEF Roles, Texts, TypeOK
<1>3. /\ base \in Seq(Messages) /\ repeat \in Seq(Messages)
      /\ outputs \in Seq(Messages)
  <2>1. <<>> \in Seq(Messages) /\ <<m>> \in Seq(Messages)
    OBVIOUS
  <2>. QED
    BY <1>1, <1>2, <2>1, OneAnswers DEF TypeOK
<1>4. MessagesInput = (base \o repeat) \o outputs
  BY <1>1 DEF MessagesInput
<1>5. base \o repeat \in Seq(Messages) /\ base \o <<>> = base
  BY <1>3, NothingAdded
<1>6. (base \o repeat) \o outputs \in Seq(Messages)
      /\ (base \o repeat) \o <<>> = base \o repeat
  BY <1>3, <1>5, NothingAdded
<1>7. ASSUME LinkInv, kind = "messages", phase = "idle", turn < MaxTurns
      PROVE  Linked(kind, MessagesInput)
  <2>1. kind # "responses" /\ turn # MaxTurns
    BY <1>7, ProviderAssumption DEF TypeOK
  <2>2. CASE turn = 0
    <3>1. owed = {}
      <4>1. ~(turn > 0)
        BY <2>2
      <4>. QED
        BY <4>1 DEF CountInv
    <3>2. MessagesInput = <<>>
      BY <1>1, <1>4, <1>5, <1>6, <2>2, <3>1
    <3>. QED
      BY <3>2 DEF Linked
  <2>3. CASE turn # 0 /\ owed = {}
    BY <1>1, <1>4, <1>5, <1>6, <1>7, <2>1, <2>3 DEF LinkInv
  <2>4. CASE turn # 0 /\ owed # {}
    <3>1. Open(kind, history, m) /\ pending = owed
      BY <1>2, <1>7, <2>1, <2>4 DEF LinkInv
    <3>2. m.calls = owed
      BY <1>2, <3>1, MessageType DEF Roles, Texts, TypeOK
    <3>3. base \o repeat = Append(history, m)
      <4>1. base = history /\ repeat = <<m>>
        BY <1>1, <1>2, <2>4, <3>1
      <4>2. history \o <<m>> = Append(history, m)
        BY DEF TypeOK
      <4>. QED
        BY <4>1, <4>2
    <3>4. Open(kind, base \o repeat, m)
      BY <1>7, <3>1, <3>3, RepeatOpen DEF TypeOK
    <3>5. Answer(outputs, owed)
      BY <1>1, <2>4, OneAnswers
    <3>. QED
      BY <1>3, <1>4, <1>5, <3>2, <3>4, <3>5, AnswerLinked
  <2>. QED
    BY <2>2, <2>3, <2>4
<1>. QED
  BY <1>1, <1>4, <1>5, <1>6, <1>7

\* A request sends messages.  Past the first turn and with no outputs to send
\* they are the history, and each protocol that keeps one sends it linked.
LEMMA InputLinked ==
  ASSUME TypeOK, CountInv
  PROVE  /\ Input \in Seq(Messages)
         /\ kind # "responses" /\ turn # 0 /\ owed = {} => Input = history
         /\ LinkInv /\ kind # "responses" /\ phase = "idle" /\ turn < MaxTurns =>
              Linked(kind, Input)
<1>1. CASE IsChat
  <2>1. Input = ChatInput
    BY <1>1 DEF Input
  <2>. QED
    BY <1>1, <2>1, ChatInputLinked
<1>2. CASE kind = "messages"
  <2>1. Input = MessagesInput
    BY <1>2 DEF Input, IsChat
  <2>. QED
    BY <1>2, <2>1, MessagesInputLinked
<1>3. CASE kind = "responses"
  <2>1. Input = ResponsesInput
    BY <1>3 DEF Input, IsChat
  <2>2. PICK m \in Messages : m = Message("user", "task", {})
    BY MessageType DEF Roles, Texts
  <2>3. <<m>> \in Seq(Messages)
    OBVIOUS
  <2>. QED
    BY <1>3, <2>1, <2>2, <2>3, OneAnswers DEF ResponsesInput
<1>. QED
  BY <1>1, <1>2, <1>3, ProviderAssumption DEF IsChat, TypeOK

-----------------------------------------------------------------------------
(* Steps.                                                                  *)

LEMMA Bounds ==
  /\ MaxRetries \in Nat /\ MaxTurns \in Nat /\ 0 \in 0 .. MaxTurns
  /\ MaxAsks \in Nat /\ MaxResumes \in Nat
BY ProviderAssumption

LEMMA Types ==
  ASSUME TypeOK
  PROVE  /\ history \in Seq(Messages) /\ sent \in Seq(Messages)
         /\ pending \in SUBSET Calls /\ owed \in SUBSET Calls
         /\ turn \in Nat /\ turn <= MaxTurns /\ turn \in 0 .. MaxTurns
         /\ issued \in Nat /\ asks \in Nat /\ asks <= MaxAsks
         /\ saved # NoCheckpoint =>
              /\ saved.history \in Seq(Messages) /\ saved.pending \in SUBSET Calls
              /\ saved.turn \in 0 .. MaxTurns
<1>1. /\ turn \in Nat /\ turn <= MaxTurns
      /\ issued \in Nat /\ asks \in Nat /\ asks <= MaxAsks
  BY Bounds DEF TypeOK
<1>2. saved # NoCheckpoint =>
        /\ saved.history \in Seq(Messages) /\ saved.pending \in SUBSET Calls
        /\ saved.turn \in 0 .. MaxTurns
  BY DEF TypeOK, Checkpoints
<1>. QED
  BY <1>1, <1>2 DEF TypeOK

LEMMA ConsecutiveCalls ==
  ASSUME NEW last \in Nat
  PROVE  /\ Consecutive({}, last)
         /\ \A n \in 0 .. 2 : Consecutive(last + 1 .. last + n, last + n)
         /\ \A calls : \A n \in Nat : Consecutive(calls, last) => Consecutive(calls, last + n)
<1>1. \A a \in Nat : a + 1 .. a + 0 = {}
  OBVIOUS
<1>2. Consecutive({}, last)
  <2>1. 0 \in Nat /\ 0 \in 0 .. 2 /\ 0 + 0 <= last /\ {} = 0 + 1 .. 0 + 0
    BY <1>1
  <2>. QED
    BY <2>1 DEF Consecutive
<1>3. ASSUME NEW n \in 0 .. 2
      PROVE  Consecutive(last + 1 .. last + n, last + n)
  BY DEF Consecutive
<1>4. ASSUME NEW calls, NEW n \in Nat, Consecutive(calls, last)
      PROVE  Consecutive(calls, last + n)
  <2>1. PICK a \in Nat, l \in 0 .. 2 : a + l <= last /\ calls = a + 1 .. a + l
    BY <1>4 DEF Consecutive
  <2>2. a + l <= last + n
    BY <2>1
  <2>. QED
    BY <2>1, <2>2 DEF Consecutive
<1>. QED
  BY <1>2, <1>3, <1>4

\* Every step keeps the count of operations.
LEMMA RetryStep ==
  ASSUME TypeOK, RetryInv, Next
  PROVE  RetryInv'
<1>0. MaxRetries \in Nat
  BY ProviderAssumption
<1>1. ASSUME NEW stream \in BOOLEAN, Ask(stream)
      PROVE  RetryInv'
  BY <1>0, <1>1 DEF Ask, RetryInv
<1>2. ASSUME NEW e \in Errors, Raises(e)
      PROVE  RetryInv'
  <2>1. attempt \in Nat /\ attempt <= MaxRetries /\ tries = attempt
    BY <1>2 DEF Raises, RetryInv, TypeOK
  <2>2. attempt' = attempt + 1 /\ tries' = attempt + 1 /\ error' = e
    BY <1>2, <2>1 DEF Raises, NextAttempt
  <2>3. attempt' \in 0 .. MaxRetries + 1
    BY <1>0, <2>1, <2>2
  <2>4. CASE attempt' > MaxRetries \/ ~IsRetryable(e)
    <3>1. phase' = "failed"
      BY <1>2, <2>4 DEF Raises, GivesUp
    <3>2. e \in Transient => attempt' = MaxRetries + 1
      BY <1>0, <2>3, <2>4 DEF IsRetryable
    <3>. QED
      BY <2>2, <2>3, <3>1, <3>2 DEF RetryInv
  <2>5. CASE ~(attempt' > MaxRetries \/ ~IsRetryable(e))
    <3>1. phase' = "waiting" /\ e \in Transient
      BY <1>2, <2>5 DEF Raises, GivesUp, IsRetryable
    <3>2. attempt' <= MaxRetries
      BY <1>0, <2>3, <2>5
    <3>. QED
      BY <2>2, <2>3, <3>1, <3>2 DEF RetryInv
  <2>. QED
    BY <2>4, <2>5
<1>3. CASE Wake
  BY <1>3 DEF Wake, RetryInv
<1>4. ASSUME NEW text, NEW n, Respond(text, n)
      PROVE  RetryInv'
  <2>1. UNCHANGED <<attempt, tries>> /\ phase' \in {"failed", "idle"}
        /\ error' \in {"empty", "none"}
    BY <1>4 DEF Respond
  <2>. QED
    BY <2>1 DEF RetryInv, Transient
<1>5. CASE OpenStream
  BY <1>5 DEF OpenStream, RetryInv
<1>6. ASSUME NEW text, EndStream(text)
      PROVE  RetryInv'
  BY <1>6 DEF EndStream, RetryInv
<1>7. CASE StreamBreaks
  BY <1>7 DEF StreamBreaks, RetryInv, Transient
<1>8. CASE Save
  BY <1>8 DEF Save, RetryInv
<1>9. CASE Resume \/ NewTask
  <2>1. UNCHANGED <<attempt, tries>> /\ phase' = "idle"
    BY <1>9 DEF Resume, NewTask
  <2>. QED
    BY <2>1 DEF RetryInv
<1>. QED
  BY <1>1, <1>2, <1>3, <1>4, <1>5, <1>6, <1>7, <1>8, <1>9 DEF Next, Complete

\* What a response appends.
LEMMA AppendedType ==
  ASSUME TypeOK, NEW text \in {"", "reply"}, NEW calls \in SUBSET Calls
  PROVE  /\ Appended(text, calls) \in Seq(Messages)
         /\ kind # "responses" =>
              \E t \in {"", "reply"} :
                /\ Appended(text, calls) = Append(history, Message("assistant", t, calls))
                /\ kind = "messages" /\ calls # {} => t = ""
<1>1. PICK t \in {"", "reply"} :
        t = IF kind = "messages" /\ calls # {} THEN "" ELSE text
  OBVIOUS
<1>2. PICK m \in Messages : m = Message("assistant", t, calls)
  BY AssistantType
<1>3. history \in Seq(Messages)
  BY Types
<1>4. Append(history, m) \in Seq(Messages)
  BY <1>3, AppendType, Zenon
<1>5. Appended(text, calls) = IF kind = "responses" THEN history ELSE Append(history, m)
  BY <1>1, <1>2 DEF Appended
<1>. QED
  BY <1>1, <1>2, <1>3, <1>4, <1>5

\* The calls of a response are new ones.
LEMMA NewCalls ==
  ASSUME TypeOK, CountInv, phase = "sending", NEW n \in 0 .. 2
  PROVE  /\ issued + n <= 2 * asks
         /\ issued + n \in 0 .. 2 * MaxAsks
         /\ issued + 1 .. issued + n \in SUBSET Calls
         /\ IF n = 0 THEN issued + 1 .. issued + n = {} ELSE n > 0
<1>1. issued \in Nat /\ asks \in Nat /\ asks <= MaxAsks /\ MaxAsks \in Nat
  BY Bounds, Types
<1>2. issued <= 2 * (asks - 1)
  BY DEF CountInv, Busy
<1>3. issued + n <= 2 * asks /\ issued + n <= 2 * MaxAsks
  BY <1>1, <1>2
<1>. QED
  BY <1>1, <1>3 DEF Calls

\* The turn a response leads to.
LEMMA NextTurn ==
  ASSUME TypeOK, CountInv, phase \in Busy
  PROVE  turn \in Nat /\ turn + 1 \in 0 .. MaxTurns /\ turn + 1 > 0
<1>1. turn \in Nat /\ MaxTurns \in Nat
  BY Bounds, Types
<1>2. turn < MaxTurns
  BY DEF CountInv
<1>. QED
  BY <1>1, <1>2

\* Every step keeps the counts.
LEMMA CountStep ==
  ASSUME TypeOK, CountInv, Next
  PROVE  CountInv'
<1>0. issued \in Nat /\ asks \in Nat /\ turn \in Nat
  BY Types
<1>1. Consecutive({}, issued)
  BY <1>0, ConsecutiveCalls
<1>2. ASSUME NEW stream \in BOOLEAN, Ask(stream)
      PROVE  CountInv'
  <2>1. /\ issued' = issued /\ asks' = asks + 1 /\ owed' = owed /\ turn' = turn
        /\ purpose' = purpose /\ saved' = saved
        /\ turn < MaxTurns
    BY <1>2 DEF Ask, driver, protocol
  <2>2. issued' <= 2 * asks' /\ asks' > 0 /\ issued' <= 2 * (asks' - 1)
    BY <1>0, <2>1 DEF CountInv
  <2>. QED
    BY <2>1, <2>2 DEF CountInv
<1>3. ASSUME NEW e, Raises(e)
      PROVE  CountInv'
  <2>1. phase \in Busy /\ UNCHANGED <<issued, asks, owed, turn, purpose, saved>>
    BY <1>3 DEF Raises, Busy, driver, protocol, session
  <2>. QED
    BY <2>1 DEF CountInv
<1>4. CASE Wake \/ OpenStream \/ StreamBreaks
  <2>1. phase \in Busy /\ UNCHANGED <<issued, asks, owed, turn, purpose, saved>>
    BY <1>4 DEF Wake, OpenStream, StreamBreaks, Busy, driver, protocol, session
  <2>. QED
    BY <2>1 DEF CountInv
<1>5. ASSUME NEW text, NEW n \in 0 .. 2, Respond(text, n)
      PROVE  CountInv'
  <2>1. PICK calls : calls = issued + 1 .. issued + n
    OBVIOUS
  <2>2. phase = "sending"
    BY <1>5 DEF Respond
  <2>3. issued + n <= 2 * asks
    BY <2>2, NewCalls
  <2>4. /\ phase' \notin Busy /\ issued' = issued + n
        /\ UNCHANGED <<purpose, saved, asks>>
    BY <1>5 DEF Respond, Busy, protocol, session
  <2>5. Consecutive(calls, issued') /\ Consecutive({}, issued')
        /\ Consecutive(owed, issued')
    <3>1. Consecutive(owed, issued) /\ n \in Nat
      BY DEF CountInv
    <3>2. Consecutive(owed, issued + n) /\ Consecutive(calls, issued + n)
      BY <1>0, <2>1, <3>1, ConsecutiveCalls
    <3>3. issued + n \in Nat
      BY <1>0
    <3>4. Consecutive({}, issued + n)
      BY <3>3, ConsecutiveCalls
    <3>. QED
      BY <2>4, <3>2, <3>4
  <2>6. \/ turn' = turn /\ owed' = owed
        \/ purpose # "review" /\ turn' = turn + 1 /\ owed' = calls
        \/ turn' = 0 /\ owed' = {}
    BY <1>5, <2>1 DEF Respond
  <2>7. turn + 1 > 0
    BY <1>0
  <2>. QED
    BY <2>3, <2>4, <2>5, <2>6, <2>7 DEF CountInv
<1>6. ASSUME NEW text, EndStream(text)
      PROVE  CountInv'
  <2>1. /\ owed' = {} /\ phase' = "idle" /\ UNCHANGED <<issued, asks, purpose, saved>>
        /\ (purpose = "review" => turn' = 0)
    BY <1>6 DEF EndStream, protocol, session
  <2>. QED
    BY <1>1, <2>1 DEF CountInv, Busy
<1>7. CASE Save
  <2>1. /\ purpose # "review"
        /\ UNCHANGED <<issued, asks, owed, turn, purpose, phase>>
    BY <1>7 DEF Save, protocol, driver
  <2>. QED
    BY <2>1 DEF CountInv
<1>8. CASE Resume \/ NewTask
  <2>1. /\ owed' = {} /\ phase' = "idle" /\ UNCHANGED <<issued, asks, purpose, saved>>
        /\ saved # NoCheckpoint \/ turn' = 0
    BY <1>8 DEF Resume, NewTask, protocol
  <2>. QED
    BY <1>1, <2>1 DEF CountInv, Busy
<1>. QED
  BY <1>2, <1>3, <1>4, <1>5, <1>6, <1>7, <1>8 DEF Next, Complete

\* Every step keeps the types.
LEMMA TypeStep ==
  ASSUME TypeOK, CountInv, RetryInv, Next
  PROVE  TypeOK'
<1>1. ASSUME NEW stream \in BOOLEAN, Ask(stream)
      PROVE  TypeOK'
  <2>1. Input \in Seq(Messages)
    BY InputLinked
  <2>2. sent' \in Seq(Messages) /\ history' \in Seq(Messages)
    BY <1>1, <2>1, Types DEF Ask
  <2>3. pending' \subseteq Calls
    BY <1>1, Types DEF Ask
  <2>4. asks' \in 0 .. MaxAsks /\ attempt' \in 0 .. MaxRetries + 1
        /\ tries' \in 0 .. MaxRetries + 1
    BY <1>1, Bounds, Types DEF Ask
  <2>5. /\ phase' = "sending" /\ error' = "none" /\ streamed' \in BOOLEAN
        /\ resumed' \in BOOLEAN
        /\ UNCHANGED <<kind, purpose, turn, owed, issued, saved, resumes>>
    BY <1>1 DEF Ask, driver, protocol
  <2>. QED
    BY <2>2, <2>3, <2>4, <2>5 DEF TypeOK
<1>2. ASSUME NEW e \in Errors, Raises(e)
      PROVE  TypeOK'
  <2>1. attempt \in Nat /\ tries = attempt /\ attempt <= MaxRetries
    BY <1>2 DEF Raises, TypeOK, RetryInv
  <2>2. attempt' = attempt + 1 /\ tries' = attempt + 1
    BY <1>2, <2>1 DEF Raises, NextAttempt
  <2>3. attempt' \in 0 .. MaxRetries + 1 /\ tries' \in 0 .. MaxRetries + 1
    BY <2>1, <2>2, Bounds
  <2>4. /\ phase' \in {"failed", "waiting"} /\ error' \in Errors
        /\ UNCHANGED <<kind, purpose, history, pending, streamed, sent, turn, owed, issued,
                       saved, resumed, resumes, asks>>
    BY <1>2 DEF Raises, driver, protocol, session
  <2>. QED
    BY <2>3, <2>4 DEF TypeOK
<1>3. CASE Wake \/ OpenStream \/ StreamBreaks
  <2>1. /\ phase' \in {"sending", "streaming", "failed"} /\ error' \in {error, "broken"}
        /\ UNCHANGED <<kind, purpose, history, pending, streamed, sent, attempt, turn, owed,
                       issued, saved, resumed, resumes, asks, tries>>
    BY <1>3 DEF Wake, OpenStream, StreamBreaks, Retried, driver, protocol, session
  <2>. QED
    BY <2>1 DEF TypeOK
<1>4. ASSUME NEW text \in {"", "reply"}, NEW n \in 0 .. 2, Respond(text, n)
      PROVE  TypeOK'
  <2>1. PICK calls : calls = issued + 1 .. issued + n
    OBVIOUS
  <2>2. phase = "sending" /\ phase \in Busy
    BY <1>4 DEF Respond, Busy
  <2>3. issued + n \in 0 .. 2 * MaxAsks /\ calls \in SUBSET Calls
    BY <2>1, <2>2, NewCalls
  <2>4. /\ phase' \in {"idle", "failed"} /\ issued' = issued + n
        /\ history' = Appended(text, calls) /\ pending' \in {pending, calls}
        /\ error' \in {"none", "empty"}
        /\ turn' \in {turn, turn + 1, 0} /\ owed' \in {owed, calls, {}}
        /\ UNCHANGED <<kind, purpose, streamed, sent, attempt, saved, resumed, resumes, asks,
                       tries>>
    BY <1>4, <2>1 DEF Respond, protocol, session
  <2>5. history' \in Seq(Messages)
    BY <2>3, <2>4, AppendedType
  <2>6. pending' \subseteq Calls /\ owed' \subseteq Calls
    BY <2>3, <2>4, Types
  <2>7. turn' \in 0 .. MaxTurns
    <3>1. turn + 1 \in 0 .. MaxTurns
      BY <2>2, NextTurn
    <3>2. turn \in 0 .. MaxTurns /\ 0 \in 0 .. MaxTurns
      BY Bounds, Types
    <3>. QED
      BY <2>4, <3>1, <3>2
  <2>8. issued' \in 0 .. 2 * MaxAsks
    BY <2>3, <2>4
  <2>. QED
    BY <2>4, <2>5, <2>6, <2>7, <2>8 DEF TypeOK
<1>5. ASSUME NEW text \in {"", "reply"}, EndStream(text)
      PROVE  TypeOK'
  <2>1. PICK m \in Messages : m = Message("assistant", text, {})
    BY AssistantType
  <2>2. Append(history, m) \in Seq(Messages) /\ history \in Seq(Messages)
    <3>1. history \in Seq(Messages)
      BY Types
    <3>. QED
      BY <3>1, AppendType, Zenon
  <2>3. history' \in {history, Append(history, m)}
    BY <1>5, <2>1 DEF EndStream
  <2>4. history' \in Seq(Messages)
    BY <2>2, <2>3
  <2>5. /\ phase = "streaming" /\ phase' = "idle" /\ turn' \in {turn + 1, 0} /\ owed' = {}
        /\ UNCHANGED <<kind, purpose, pending, streamed, sent, attempt, error, issued, saved,
                       resumed, resumes, asks, tries>>
    BY <1>5 DEF EndStream, protocol, session
  <2>6. turn' \in 0 .. MaxTurns
    <3>1. turn + 1 \in 0 .. MaxTurns
      BY <2>5, NextTurn DEF Busy
    <3>2. 0 \in 0 .. MaxTurns
      BY Bounds
    <3>. QED
      BY <2>5, <3>1, <3>2
  <2>. QED
    BY <2>4, <2>5, <2>6 DEF TypeOK
<1>6. CASE Save
  <2>1. saved' \in Checkpoints
    <3>1. history \in Seq(Messages) /\ pending \in SUBSET Calls /\ turn \in 0 .. MaxTurns
      BY Bounds, Types
    <3>2. saved' = [history |-> history, pending |-> pending, turn |-> turn]
      BY <1>6 DEF Save
    <3>. QED
      BY <3>1, <3>2 DEF Checkpoints
  <2>2. UNCHANGED <<kind, purpose, history, pending, phase, streamed, sent, attempt, error,
                    turn, owed, issued, resumed, resumes, asks, tries>>
    BY <1>6 DEF Save, protocol, driver
  <2>. QED
    BY <2>1, <2>2 DEF TypeOK
<1>7. CASE Resume
  <2>1. /\ saved # NoCheckpoint /\ history' = saved.history /\ pending' = saved.pending
        /\ turn' = saved.turn /\ owed' = {} /\ phase' = "idle" /\ error' = "none"
        /\ resumed' = TRUE
        /\ UNCHANGED <<kind, purpose, streamed, sent, attempt, issued, saved, asks, tries>>
    BY <1>7 DEF Resume, RestoredHistory, protocol
  <2>2. /\ history' \in Seq(Messages) /\ pending' \subseteq Calls /\ turn' \in 0 .. MaxTurns
    BY <2>1, Types
  <2>3. resumes' \in 0 .. MaxResumes
    BY <1>7, Bounds DEF Resume, TypeOK
  <2>. QED
    BY <2>1, <2>2, <2>3 DEF TypeOK
<1>8. CASE NewTask
  <2>1. /\ turn' = 0 /\ owed' = {} /\ phase' = "idle" /\ resumed' = FALSE
        /\ UNCHANGED <<kind, purpose, history, pending, streamed, sent, attempt, error, issued,
                       saved, resumes, asks, tries>>
    BY <1>8 DEF NewTask, protocol
  <2>2. turn' \in 0 .. MaxTurns
    BY <2>1, Bounds
  <2>. QED
    BY <2>1, <2>2 DEF TypeOK
<1>. QED
  BY <1>1, <1>2, <1>3, <1>4, <1>5, <1>6, <1>7, <1>8 DEF Next, Complete

\* Only a provider at rest has just been restored.
LEMMA ResumeStep ==
  ASSUME ResumeInv, Next
  PROVE  ResumeInv'
<1>1. CASE \E stream \in BOOLEAN : Ask(stream)
  BY <1>1 DEF Ask, ResumeInv
<1>2. CASE Complete
  <2>1. phase # "idle" /\ resumed' = resumed
    BY <1>2 DEF Complete, Raises, Wake, Respond, OpenStream, EndStream, StreamBreaks, session
  <2>. QED
    BY <2>1 DEF ResumeInv
<1>3. CASE Save
  BY <1>3 DEF Save, ResumeInv
<1>4. CASE Resume
  BY <1>4 DEF Resume, RestoredHistory, ResumeInv
<1>5. CASE NewTask
  BY <1>5 DEF NewTask, ResumeInv
<1>. QED
  BY <1>1, <1>2, <1>3, <1>4, <1>5 DEF Next

\* Every step keeps the histories linked.
LEMMA LinkStep ==
  ASSUME TypeOK, CountInv, LinkInv, Next, kind # "responses"
  PROVE  LinkInv'
<1>0. kind' = kind
  BY DEF Next, Complete, Ask, Raises, Wake, Respond, OpenStream, EndStream, StreamBreaks,
         Save, Resume, NewTask, protocol
<1>1. ASSUME NEW stream \in BOOLEAN, Ask(stream)
      PROVE  LinkInv'
  <2>1. phase = "idle" /\ turn < MaxTurns
    BY <1>1 DEF Ask
  <2>2. Linked(kind, Input)
    BY <2>1, InputLinked
  <2>3. sent' = Input /\ history' = Input /\ phase' = "sending" /\ saved' = saved
    BY <1>1 DEF Ask
  <2>. QED
    BY <1>0, <2>2, <2>3 DEF LinkInv
<1>2. ASSUME Wake \/ OpenStream \/ StreamBreaks \/ \E e \in Errors : Raises(e)
      PROVE  LinkInv'
  <2>1. phase \in Busy /\ phase # "idle" /\ phase' # "idle"
        /\ UNCHANGED <<sent, history, saved>>
    BY <1>2 DEF Wake, Retried, OpenStream, StreamBreaks, Raises, Busy, session
  <2>. QED
    BY <1>0, <2>1 DEF LinkInv
<1>3. ASSUME NEW text \in {"", "reply"}, NEW n \in 0 .. 2, Respond(text, n)
      PROVE  LinkInv'
  <2>1. PICK calls : calls = issued + 1 .. issued + n
    OBVIOUS
  <2>2. phase = "sending"
    BY <1>3 DEF Respond
  <2>3. calls \in SUBSET Calls /\ (n = 0 => calls = {}) /\ (n # 0 => n > 0)
    BY <2>1, <2>2, NewCalls
  <2>4. PICK t \in {"", "reply"} :
          /\ Appended(text, calls) = Append(history, Message("assistant", t, calls))
          /\ kind = "messages" /\ calls # {} => t = ""
    BY <2>3, AppendedType
  <2>5. PICK m \in Messages : m = Message("assistant", t, calls) /\ m.role = "assistant"
                              /\ m.calls = calls
    BY <2>3, AssistantType
  <2>6. history' = Append(history, m)
    BY <1>3, <2>1, <2>4, <2>5 DEF Respond
  <2>7. Linked(kind, history)
    BY <2>2 DEF LinkInv
  <2>8. /\ calls = {} => Linked(kind, history')
        /\ Open(kind, history', m)
    BY <2>5, <2>6, <2>7, AppendLinked, Types
  <2>9. \/ phase' = "failed" /\ n = 0
        \/ phase' = "idle" /\ ((turn' = 0 /\ owed' = {}) \/ owed' = calls)
    BY <1>3, <2>1 DEF Respond
  <2>10. kind = "messages" /\ n > 0 => pending' = calls
    BY <1>3, <2>1 DEF Respond
  <2>11. kind = "messages" /\ calls # {} => pending' = calls
    BY <2>3, <2>10
  <2>12. saved' = saved /\ t \in Texts
    BY <1>3 DEF Respond, session, Texts
  <2>13. phase' = "failed" => Linked(kind, history')
    BY <2>3, <2>8, <2>9
  <2>14. owed' = calls /\ calls # {} =>
           /\ Open(kind, history', Message("assistant", t, owed'))
           /\ kind = "messages" => t = "" /\ pending' = owed'
    BY <2>4, <2>5, <2>8, <2>11
  <2>15. phase' \notin Busy
    BY <2>9 DEF Busy
  <2>. QED
    BY <1>0, <2>8, <2>9, <2>12, <2>13, <2>14, <2>15 DEF LinkInv
<1>4. ASSUME NEW text \in {"", "reply"}, EndStream(text)
      PROVE  LinkInv'
  <2>1. PICK m \in Messages : m = Message("assistant", text, {}) /\ m.role = "assistant"
                              /\ m.calls = {}
    BY AssistantType
  <2>2. history' \in {history, Append(history, m)}
    BY <1>4, <2>1 DEF EndStream
  <2>3. phase = "streaming" /\ phase' = "idle" /\ owed' = {} /\ saved' = saved
    BY <1>4 DEF EndStream, session
  <2>4. Linked(kind, history)
    BY <2>3 DEF LinkInv
  <2>5. Linked(kind, Append(history, m))
    BY <2>1, <2>4, AppendLinked, Types
  <2>. QED
    BY <1>0, <2>2, <2>3, <2>4, <2>5 DEF LinkInv, Busy
<1>5. CASE Save
  <2>1. /\ \/ phase = "failed"
           \/ phase = "idle" /\ (owed = {} \/ turn = MaxTurns)
        /\ saved' = [history |-> history, pending |-> pending, turn |-> turn]
        /\ history' = history /\ pending' = pending /\ phase' = phase /\ sent' = sent
        /\ turn' = turn /\ owed' = owed
    BY <1>5 DEF Save, driver
  <2>2. turn # 0 /\ turn # MaxTurns => Linked(kind, history)
    BY <2>1 DEF LinkInv
  <2>. QED
    BY <1>0, <2>1, <2>2 DEF LinkInv
<1>6. CASE Resume \/ NewTask
  <2>1. /\ phase' = "idle" /\ owed' = {} /\ saved' = saved
        /\ \/ saved # NoCheckpoint /\ history' = saved.history /\ turn' = saved.turn
           \/ turn' = 0
    BY <1>6 DEF Resume, NewTask, RestoredHistory
  <2>. QED
    BY <1>0, <2>1 DEF LinkInv, Busy
<1>. QED
  BY <1>1, <1>2, <1>3, <1>4, <1>5, <1>6 DEF Next, Complete

-----------------------------------------------------------------------------
(* Theorems.                                                               *)

LEMMA Invariance == Spec => []IInv
<1>1. Init => IInv
  <2>1. ASSUME Init
        PROVE  TypeOK
    <3>1. /\ <<>> \in Seq(Messages) /\ {} \subseteq Calls
          /\ 0 \in 0 .. MaxTurns /\ 0 \in 0 .. MaxRetries + 1 /\ 0 \in 0 .. MaxAsks
          /\ 0 \in 0 .. 2 * MaxAsks /\ 0 \in 0 .. MaxResumes
      BY Bounds
    <3>2. "none" \in Errors \cup {"none", "empty", "broken"}
      OBVIOUS
    <3>3. "idle" \in {"idle", "sending", "waiting", "streaming", "failed"}
      OBVIOUS
    <3>. QED
      BY <2>1, <3>1, <3>2, <3>3, Zenon DEF Init, TypeOK
  <2>2. ASSUME Init
        PROVE  CountInv
    <3>1. issued = 0 /\ asks = 0 /\ phase = "idle" /\ turn = 0 /\ saved = NoCheckpoint
          /\ owed = {}
      BY <2>2 DEF Init
    <3>2. Consecutive({}, 0)
      BY ConsecutiveCalls
    <3>. QED
      BY <3>1, <3>2 DEF CountInv, Busy
  <2>3. ASSUME Init
        PROVE  RetryInv /\ ResumeInv /\ LinkInv
    BY <2>3 DEF Init, RetryInv, ResumeInv, LinkInv, Busy
  <2>. QED
    BY <2>1, <2>2, <2>3 DEF IInv
<1>2. IInv /\ [Next]_vars => IInv'
  <2>1. ASSUME IInv, Next
        PROVE  IInv'
    <3>1. TypeOK /\ CountInv /\ RetryInv /\ ResumeInv /\ LinkInv /\ Next
      BY <2>1 DEF IInv
    <3>2. LinkInv'
      <4>1. kind' = kind
        BY <3>1 DEF Next, Complete, Ask, Raises, Wake, Respond, OpenStream, EndStream,
                    StreamBreaks, Save, Resume, NewTask, protocol
      <4>2. kind = "responses" => LinkInv'
        BY <4>1 DEF LinkInv
      <4>. QED
        BY <3>1, <4>2, LinkStep
    <3>. QED
      BY <3>1, <3>2, TypeStep, CountStep, RetryStep, ResumeStep DEF IInv
  <2>2. ASSUME IInv, UNCHANGED vars
        PROVE  IInv'
    <3>1. UNCHANGED <<kind, purpose, history, pending, phase, streamed, sent, attempt, error,
                      turn, owed, issued, saved, resumed, resumes, asks, tries>>
      BY <2>2 DEF vars, protocol, driver, session
    <3>2. TypeOK'
      BY <2>2, <3>1 DEF IInv, TypeOK
    <3>3. CountInv'
      BY <2>2, <3>1 DEF IInv, CountInv
    <3>4. RetryInv'
      BY <2>2, <3>1 DEF IInv, RetryInv
    <3>5. ResumeInv'
      BY <2>2, <3>1 DEF IInv, ResumeInv
    <3>6. LinkInv'
      BY <2>2, <3>1 DEF IInv, LinkInv
    <3>. QED
      BY <3>2, <3>3, <3>4, <3>5, <3>6 DEF IInv
  <2>. QED
    BY <2>1, <2>2
<1>. QED
  BY <1>1, <1>2, PTL DEF Spec

\* The providers keep, send and save messages, whatever the service answers
\* and however often it fails.
THEOREM TypeCorrect == Spec => []TypeOK
<1>1. IInv => TypeOK
  BY DEF IInv
<1>. QED
  BY <1>1, Invariance, PTL

\* _prepare_chat_input, _append_tool_results and the responses they follow:
\* for any number of turns, retries and resumes, every request that sends a
\* history answers each of its calls once, right after the message that makes
\* it, and answers nothing else.
THEOREM CallsAreLinked == Spec => []ToolLinks
<1>1. IInv => ToolLinks
  <2>. SUFFICES ASSUME IInv, phase \in {"sending", "streaming"}, kind # "responses",
                       NEW j \in DOMAIN sent
                PROVE  /\ sent[j].role = "tool" =>
                            \E i \in 1 .. j - 1 :
                              j \in AnswersTo(i) /\ sent[j].calls \subseteq sent[i].calls
                       /\ sent[j].role = "assistant" /\ sent[j].calls # {} =>
                            \/ kind = "messages" /\ j < Len(sent) /\ sent[j + 1] = sent[j]
                            \/ \A c \in sent[j].calls :
                                 Cardinality({k \in AnswersTo(j) : c \in sent[k].calls}) = 1
    BY DEF ToolLinks
  <2>1. \A i : AnswersTo(i) = Answers(sent, i)
    BY DEF AnswersTo, Answers
  <2>2. Settled(kind, sent, j)
    <3>1. sent = history /\ Linked(kind, history)
      BY DEF IInv, LinkInv, Busy
    <3>2. j \in 1 .. Len(sent)
      BY Types DEF IInv
    <3>. QED
      BY <3>1, <3>2 DEF Linked
  <2>3. ASSUME NEW c, AnsweredOnce(sent, j, c)
        PROVE  Cardinality({k \in AnswersTo(j) : c \in sent[k].calls}) = 1
    <3>1. PICK k \in Answers(sent, j) :
            c \in sent[k].calls /\ \A l \in Answers(sent, j) : c \in sent[l].calls => l = k
      BY <2>3 DEF AnsweredOnce
    <3>2. {l \in AnswersTo(j) : c \in sent[l].calls} = {k}
      BY <2>1, <3>1
    <3>. QED
      BY <3>2, FS_Singleton
  <2>. QED
    BY <2>1, <2>2, <2>3 DEF Settled
<1>. QED
  BY <1>1, Invariance, PTL

\* _with_retry: for any max_retries, a request whose errors are transient
\* fails only after max_retries + 1 operations, and no other error is ever
\* waited for.
THEOREM RetriesAreBounded == Spec => []GivesUpForCause
<1>1. IInv => GivesUpForCause
  BY DEF IInv, RetryInv, GivesUpForCause
<1>. QED
  BY <1>1, Invariance, PTL

\* restore_state: the first request after a resume past turn 0 sends the saved
\* history, nothing lost and nothing repeated, on the protocols that keep one.
THEOREM ResumesContinue == Spec => ResumeContinues
<1>1. IInv /\ [Next]_vars =>
        [resumed /\ ~resumed' /\ asks' > asks /\ turn > 0 /\ kind # "responses" =>
           sent' = saved.history]_vars
  <2>. SUFFICES ASSUME IInv, Next, resumed, ~resumed', asks' > asks, turn > 0,
                       kind # "responses"
                PROVE  sent' = saved.history
    OBVIOUS
  <2>1. \E stream \in BOOLEAN : Ask(stream)
    <3>1. asks' # asks
      <4>1. ~(asks > asks)
        BY Types DEF IInv
      <4>. QED
        BY <4>1
    <3>. QED
      BY <3>1 DEF Next, Complete, Raises, Wake, Respond, OpenStream, EndStream,
                  StreamBreaks, Save, Resume, NewTask
  <2>2. sent' = Input
    BY <2>1 DEF Ask
  <2>3. turn # 0
    OBVIOUS
  <2>4. history = saved.history /\ owed = {}
    BY DEF IInv, ResumeInv
  <2>. QED
    BY <2>2, <2>3, <2>4, InputLinked DEF IInv
<1>. QED
  BY <1>1, Invariance, PTL DEF Spec, ResumeContinues
=============================================================================
