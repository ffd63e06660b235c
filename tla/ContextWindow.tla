--------------------------- MODULE ContextWindow ----------------------------
(***************************************************************************)
(* The conversation one agent keeps and the part of it that each request   *)
(* shows (miniclaude/context.py), under instructions that carry the skills *)
(* chosen for the task (miniclaude/skills.py).                             *)
(*                                                                         *)
(* Text is its length.  A message has a number, its place in the           *)
(* conversation (0 for a summary), and, when it is the JSON of a tool's    *)
(* output, the tool it names.  Lengths are small numbers in place of       *)
(* thousands of characters; the constants keep their proportions.          *)
(***************************************************************************)
EXTENDS Totals, FiniteSets, FiniteSetsExt

CONSTANTS
    Configs,          \* the ContextConfig records, see ConfigType
    Tools,            \* names a tool output may carry
    SnapshotTools,    \* those whose newer output replaces the older ones
    NoName,           \* what _tool_name finds in any other content
    Sizes,            \* lengths of contents
    RoleSize,         \* lengths of the words "user", "assistant", "tool"
    MarkerSize,       \* length of the marker of a trimmed output
    SummarySizes,     \* lengths a summarizer may return
    SystemSize,       \* length of the system instructions
    TaskSize,         \* length of the task
    ProjectSizes,     \* lengths of the project's instruction files together
    ProjectMax,       \* max_project_instruction_chars
    Skills,           \* the discovered skills, as numbers in name order
    SkillSize,        \* length of each skill's body
    SkillMax,     \* skill_budget_chars
    Rankings,         \* what a task may score: keywords shared with each
                      \* skill, and similarity to each skill
    MinCosine,        \* the least one the semantic mode takes
    MaxMessages       \* bound on the length of a conversation

Roles == {"user", "assistant", "tool"}
ConfigType == [maxChars : Nat, microMax : Nat, keepHead : Nat, keepTail : Nat,
               summarizes : BOOLEAN, maxSkills : Nat,
               routing : {"keyword", "semantic", "hybrid"},
               layers : Seq({"stale_snip", "micro_compact", "auto_compact"})]

ASSUME ContextAssumption ==
    /\ SnapshotTools \subseteq Tools /\ NoName \notin Tools
    /\ Sizes \subseteq Nat /\ SummarySizes \subseteq Nat
    /\ ProjectSizes \subseteq Nat /\ ProjectMax \in Nat
    /\ SystemSize \in Nat \ {0} /\ TaskSize \in Nat \ {0}
    /\ Rankings \subseteq [keyword : [Skills -> Nat], cosine : [Skills -> Nat]]
    /\ RoleSize \in [Roles -> Nat] /\ MarkerSize \in Nat
    /\ Skills \subseteq Nat /\ IsFiniteSet(Skills) /\ SkillSize \in [Skills -> Nat]
    /\ SkillMax \in Nat /\ MaxMessages \in Nat \ {0}
    /\ Configs \subseteq ConfigType
    /\ \A c \in Configs : /\ c.maxChars >= SystemSize
                          /\ c.maxSkills > 0 /\ c.microMax > 0

VARIABLES
    config,        \* self.config
    messages,      \* self._messages, empty before start
    instructions,  \* length of self._instructions
    skills,        \* self._selected_skills
    skillCut,      \* self._skill_truncated
    ranking,       \* input: what the skills score for the task
    shown          \* history: the last snapshot, until a message is added

vars == <<config, messages, instructions, skills, skillCut, ranking, shown>>

Message == [id : 0..MaxMessages, role : Roles, tool : Tools \cup {NoName},
            size : Nat]
NoStats == [sniped |-> 0, micro |-> 0, auto |-> 0, removed |-> 0]
NoSnapshot == [messages |-> <<>>, truncated |-> FALSE, stats |-> NoStats,
               summary |-> 0]

SizeOf(seq) == Total([i \in DOMAIN seq |-> seq[i].size])
SizeAt(seq, places) ==
    Total([i \in DOMAIN seq |-> IF i \in places THEN seq[i].size ELSE 0])
Smaller(a, b) == IF a <= b THEN a ELSE b

-----------------------------------------------------------------------------
(***************************************************************************)
(* Choosing skills.  ranking.keyword and ranking.cosine are the scores of  *)
(* the task's text, numbers here.                                          *)
(***************************************************************************)
Score(r, mode, s) ==
    IF mode = "keyword" THEN r.keyword[s]
    ELSE IF mode = "semantic" THEN r.cosine[s]
    ELSE r.keyword[s] + 2 * r.cosine[s]

Eligible(r, mode) ==
    {s \in Skills : IF mode = "semantic" THEN r.cosine[s] >= MinCosine
                                         ELSE r.keyword[s] > 0}

Select(r, mode, k) ==
    LET Better(s, t) == \/ Score(r, mode, s) > Score(r, mode, t)
                        \/ /\ Score(r, mode, s) = Score(r, mode, t)
                           /\ s < t
        ranked == Eligible(r, mode)
    IN  [i \in 1..Smaller(k, Cardinality(ranked)) |->
            CHOOSE s \in ranked :
                Cardinality({t \in ranked : Better(t, s)}) = i - 1]

(***************************************************************************)
(* _append_skills: bodies are cut to what is left of the budget, and the   *)
(* skills after the budget is spent stay selected but are not shown.       *)
(***************************************************************************)
SkillChars(chosen) ==
    Smaller(SkillMax, Total([i \in DOMAIN chosen |-> SkillSize[chosen[i]]]))
SkillsCut(chosen) ==
    \E i \in 1..Len(chosen) :
        LET left == SkillMax - SkillChars(SubSeq(chosen, 1, i - 1))
        IN  left <= 0 \/ SkillSize[chosen[i]] > left

(* What start and restore prepare before they take a snapshot. *)
Prepare(c, seq, r, project) ==
    LET chosen == Select(r, c.routing, c.maxSkills)
    IN  /\ config' = c
        /\ messages' = seq
        /\ ranking' = r
        /\ skills' = chosen
        /\ skillCut' = SkillsCut(chosen)
        /\ instructions' = SystemSize + Smaller(ProjectMax, project)
                                       + SkillChars(chosen)

-----------------------------------------------------------------------------
(***************************************************************************)
(* The layers, each a function of the messages and the counts so far.      *)
(***************************************************************************)
\* Mutant of Superseded: the first output of a tool is kept, not the last.
SupersededByFirst(seq, i) ==
    /\ seq[i].role = "tool" /\ seq[i].tool \in SnapshotTools
    /\ \E j \in 1..(i - 1) : seq[j].role = "tool" /\ seq[j].tool = seq[i].tool

Superseded(seq, i) ==
    /\ seq[i].role = "tool" /\ seq[i].tool \in SnapshotTools
    /\ \E j \in (i + 1)..Len(seq) :
            seq[j].role = "tool" /\ seq[j].tool = seq[i].tool

Without(seq, places) ==
    FoldLeftDomain(LAMBDA kept, i :
                        IF i \in places THEN kept ELSE Append(kept, seq[i]),
                   <<>>, seq)

StaleSnip(w) ==
    LET seq == w.messages
        stale == {i \in DOMAIN seq : Superseded(seq, i)}
    IN  [messages |-> Without(seq, stale),
         stats |-> [w.stats EXCEPT
            !.sniped = @ + Cardinality(stale),
            !.removed = @ + SizeAt(seq, stale)]]

\* Mutant of Trimmed: the tail is counted out but not left out.
TrimmedToMarker(c, size) ==
    c.keepHead + MarkerSize + size - c.keepHead

\* content[:keep_head] + marker + content[-keep_tail:], where [-0:] is all
Trimmed(c, size) ==
    Smaller(c.keepHead, size) + MarkerSize
        + IF c.keepTail = 0 THEN size ELSE Smaller(c.keepTail, size)

Oversized(c, m) == m.role = "tool" /\ m.size > c.microMax

MicroCompact(c, w) ==
    LET seq == w.messages
        big == {i \in DOMAIN seq : Oversized(c, seq[i])}
        lost == [i \in DOMAIN seq |->
                    IF i \in big /\ seq[i].size > Trimmed(c, seq[i].size)
                    THEN seq[i].size - Trimmed(c, seq[i].size) ELSE 0]
    IN  [messages |-> [i \in DOMAIN seq |->
                        IF i \in big
                        THEN [seq[i] EXCEPT !.size = Trimmed(c, @),
                                            !.tool = NoName]
                        ELSE seq[i]],
         stats |-> [w.stats EXCEPT
            !.micro = @ + Cardinality(big),
            !.removed = @ + Total(lost)]]

(***************************************************************************)
(* The oldest tool outputs, as many as it takes to reach a quarter of what *)
(* is too much, become one summary in front of everything.  The summarizer *)
(* may return anything; an empty text raises.                              *)
(***************************************************************************)
Summarized(seq, i, target) ==
    LET before == {j \in 1..(i - 1) : seq[j].role = "tool"}
    IN  seq[i].role = "tool" /\ SizeAt(seq, before) < target

AutoCompact(c, w, summary) ==
    LET seq == w.messages
        overflow == SizeOf(seq) - c.maxChars
        target == Max({1, overflow \div 4})
        dropped == {i \in DOMAIN seq : Summarized(seq, i, target)}
        kept == Without(seq, dropped)
    IN  IF ~c.summarizes \/ overflow <= 0 \/ dropped = {} THEN w
        ELSE [messages |-> <<[id |-> 0, role |-> "tool", tool |-> NoName,
                              size |-> summary]>> \o kept,
              stats |-> [w.stats EXCEPT
                !.auto = @ + 1,
                !.removed = @ + SizeAt(seq, dropped) - summary]]

Layer(c, name, w, summary) ==
    IF name = "stale_snip" THEN StaleSnip(w)
    ELSE IF name = "micro_compact" THEN MicroCompact(c, w)
    ELSE AutoCompact(c, w, summary)

Compressed(c, seq, summary) ==
    FoldLeft(LAMBDA w, name : Layer(c, name, w, summary),
             [messages |-> seq, stats |-> NoStats], c.layers)

-----------------------------------------------------------------------------
(***************************************************************************)
(* snapshot: from the newest message back, each one that still fits.       *)
(***************************************************************************)
Cost(m) == RoleSize[m.role] + m.size

Room(c, length) ==
    LET fixed == length + TaskSize
    IN  IF c.maxChars > fixed THEN c.maxChars - fixed ELSE 0

\* Mutant of Chosen: the role of a message is not counted.
ChosenBare(seq, room) ==
    LET Take(acc, m) ==
            IF acc.used + m.size > room THEN [acc EXCEPT !.cut = TRUE]
            ELSE [acc EXCEPT !.used = @ + m.size, !.seq = <<m>> \o @]
    IN  FoldLeft(Take, [used |-> 0, cut |-> FALSE, seq |-> <<>>], Reverse(seq))

Chosen(seq, room) ==
    LET Take(acc, m) ==
            IF acc.used + Cost(m) > room THEN [acc EXCEPT !.cut = TRUE]
            ELSE [acc EXCEPT !.used = @ + Cost(m), !.seq = <<m>> \o @]
    IN  FoldLeft(Take, [used |-> 0, cut |-> FALSE, seq |-> <<>>], Reverse(seq))

Snap(c, seq, length, cut, summary) ==
    LET w == Compressed(c, seq, summary)
        chosen == Chosen(w.messages, Room(c, length))
    IN  [messages |-> chosen.seq, truncated |-> chosen.cut \/ cut,
         stats |-> w.stats, summary |-> summary]

(* An empty summary raises, and nothing is shown. *)
Raises(c, seq, summary) ==
    summary = 0 /\ Compressed(c, seq, summary).stats.auto > 0

Show(summary) ==
    shown' = IF Raises(config', messages', summary) THEN NoSnapshot
             ELSE Snap(config', messages', instructions', skillCut', summary)

-----------------------------------------------------------------------------
Init ==
    /\ config \in Configs
    /\ messages = <<>> /\ skills = <<>> /\ skillCut = FALSE
    /\ \E p \in ProjectSizes : instructions = SystemSize + Smaller(ProjectMax, p)
    /\ ranking = [keyword |-> [s \in Skills |-> 0],
                  cosine |-> [s \in Skills |-> 0]]
    /\ shown = NoSnapshot

Start ==
    \E r \in Rankings, p \in ProjectSizes :
        /\ Prepare(config, <<[id |-> 1, role |-> "user", tool |-> NoName,
                              size |-> TaskSize]>>, r, p)
        /\ Show(0)

(***************************************************************************)
(* A new process restores the exported messages, with a configuration of   *)
(* its own and instruction files that may have changed; the task, and so   *)
(* what the skills score, is the same.                                     *)
(***************************************************************************)
Restore ==
    /\ messages # <<>>
    /\ \E c \in Configs, p \in ProjectSizes, summary \in SummarySizes :
        /\ Prepare(c, messages, ranking, p)
        /\ Show(summary)

(* add_assistant and add_tool; what is empty is not added. *)
Add(role, tool, size) ==
    /\ messages # <<>> /\ Len(messages) < MaxMessages
    /\ size > 0
    /\ messages' = Append(messages, [id |-> Len(messages) + 1, role |-> role,
                                     tool |-> tool, size |-> size])
    /\ shown' = NoSnapshot
    /\ UNCHANGED <<config, instructions, skills, skillCut, ranking>>

AddAssistant == \E size \in Sizes : Add("assistant", NoName, size)
AddTool == \E tool \in Tools \cup {NoName}, size \in Sizes :
                Add("tool", tool, size)

Snapshot ==
    /\ messages # <<>>
    /\ UNCHANGED <<config, messages, instructions, skills, skillCut, ranking>>
    /\ \E summary \in SummarySizes : Show(summary)

Next == Start \/ Restore \/ AddAssistant \/ AddTool \/ Snapshot
Spec == Init /\ [][Next]_vars

-----------------------------------------------------------------------------
(* Lengths are lengths, a conversation begins with its task and counts its *)
(* messages, and skills are chosen up to their limit, each once            *)
(* (context.py:77-101).                                                    *)
TypeOK ==
    /\ config \in Configs
    /\ messages \in Seq(Message) /\ Len(messages) <= MaxMessages
    /\ \A i \in DOMAIN messages : messages[i].id = i
    /\ messages # <<>> => messages[1].role = "user"
    /\ instructions \in Nat /\ skillCut \in BOOLEAN
    /\ skills \in Seq(Skills) /\ IsInjective(skills)
    /\ Len(skills) <= config.maxSkills
    /\ shown.messages \in Seq(Message) /\ shown.truncated \in BOOLEAN

Taken == shown # NoSnapshot
OutputOf(i, tool) == messages[i].role = "tool" /\ messages[i].tool = tool
Ids(seq) == {seq[i].id : i \in DOMAIN seq}

Window == Compressed(config, messages, shown.summary).messages

(***************************************************************************)
(* Compression accounts for whatever it takes out of the conversation      *)
(* (context.py:182-300).  Only outputs of tools are taken: the oldest of   *)
(* them, all up to a certain one, for a summary that is counted, or one    *)
(* whose snapshot tool has a newer output that is kept, itself not         *)
(* replaced or summarized by any layer.  What is left keeps its order.     *)
(* The newer output may come from other arguments, another directory say:  *)
(* the code compares names only, where UPGRADE_PLAN.md:124 asks for the    *)
(* same arguments, so this property does not say that nothing is missed.   *)
(***************************************************************************)
LeftOut == DOMAIN messages \ Ids(Window)
Digested(i) ==
    /\ shown.stats.auto > 0 /\ messages[i].role = "tool"
    /\ \A j \in 1..i : messages[j].role = "tool" => j \in LeftOut
Replaced(i) ==
    \E tool \in SnapshotTools, j \in DOMAIN messages \ LeftOut :
        /\ shown.stats.sniped > 0 /\ i < j
        /\ OutputOf(i, tool) /\ OutputOf(j, tool)
NothingLostSilently ==
    Taken =>
        /\ \A i \in LeftOut : Digested(i) \/ Replaced(i)
        /\ \A i, j \in DOMAIN Window : i < j => Window[i].id < Window[j].id

(***************************************************************************)
(* A request never exceeds max_chars unless the instructions and the task  *)
(* alone do, and a message of the compressed conversation is missing       *)
(* exactly if it does not fit beside the newer ones that are shown         *)
(* (context.py:158-170).                                                   *)
(***************************************************************************)
NewestThatFit ==
    Taken =>
        LET window == Window
            room == Room(config, instructions)
            Costs(S) == Total([i \in DOMAIN window |->
                                IF i \in S THEN Cost(window[i]) ELSE 0])
            Here == {i \in DOMAIN window : window[i].id \in Ids(shown.messages)}
        IN  /\ Costs(Here) <= room
            /\ \A i \in DOMAIN window :
                    i \in Here <=> Costs({j \in Here : j > i})
                                        + Cost(window[i]) <= room
            /\ shown.truncated <=> (Here # DOMAIN window \/ skillCut)

(***************************************************************************)
(* The counts the run reports (context.py:186-191) add up whatever the     *)
(* order of the layers: chars_removed is what the conversation lost, and   *)
(* more than that only where trimming makes an output longer.              *)
(***************************************************************************)
TrimmingShortens ==
    config.keepTail > 0
        /\ config.keepHead + config.keepTail + MarkerSize <= config.microMax
CountsAddUp ==
    Taken =>
        LET lost == SizeOf(messages) - SizeOf(Window)
        IN  /\ shown.stats.removed >= lost
            /\ TrimmingShortens => shown.stats.removed = lost

=============================================================================
