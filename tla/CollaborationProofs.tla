------------------------ MODULE CollaborationProofs ------------------------
(***************************************************************************)
(* The safety properties of Collaboration for any paths, answers, pool     *)
(* size, number of specialists and of observations, and tasks.             *)
(***************************************************************************)
EXTENDS Collaboration, TLAPS

-----------------------------------------------------------------------------
(* Decomposition.                                                          *)

\* What a decomposer returns, cut to what is allowed.
LEMMA FirstOfIs ==
  ASSUME NEW all \in Seq(Subtasks)
  PROVE  /\ FirstOf(all) \in Seq(Subtasks)
         /\ Len(FirstOf(all)) <= Len(all) /\ Len(FirstOf(all)) <= MaxSpecialists
         /\ DOMAIN FirstOf(all) = 1 .. Len(FirstOf(all))
         /\ \A i \in DOMAIN FirstOf(all) : i \in 1 .. Len(all) /\ FirstOf(all)[i] = all[i]
<1>1. MaxSpecialists \in Nat /\ Len(all) \in Nat
  <2>1. MaxSpecialists \in Nat
    BY CollaborationAssumption
  <2>. QED
    BY <2>1
<1>2. PICK n \in Nat : n = IF Len(all) < MaxSpecialists THEN Len(all) ELSE MaxSpecialists
  BY <1>1
<1>3. n <= Len(all) /\ n <= MaxSpecialists
  BY <1>1, <1>2
<1>4. PICK d : d = SubSeq(all, 1, n)
  OBVIOUS
<1>5. d = FirstOf(all)
  BY <1>2, <1>4 DEF FirstOf
<1>6. /\ d \in Seq(Subtasks) /\ Len(d) = n /\ DOMAIN d = 1 .. n
      /\ \A i \in 1 .. n : d[i] = all[i]
  BY <1>3, <1>4
<1>7. \A i \in 1 .. n : i \in 1 .. Len(all)
  BY <1>1, <1>3
<1>. QED
  BY <1>3, <1>5, <1>6, <1>7

\* The default decomposition has subtasks of different specialists.
LEMMA DefaultType ==
  ASSUME NEW analysis \in BOOLEAN, NEW change \in BOOLEAN
  PROVE  \E all :
         /\ all = DefaultDecompose(analysis, change)
         /\ all \in Seq(Subtasks)
         /\ \A i, j \in 1 .. Len(all) : all[i].specialist = all[j].specialist => i = j
<1>1. PICK analyze \in Subtasks : analyze = [specialist |-> "analyzer", tools |-> {"read_file"}]
  BY CollaborationAssumption DEF Subtasks, Tools
<1>2. PICK implement \in Subtasks : implement = [specialist |-> "implementer", tools |-> Tools]
  BY CollaborationAssumption DEF Subtasks, Tools
<1>3. PICK verify \in Subtasks :
        verify = [specialist |-> "verifier", tools |-> {"read_file", "execute_command"}]
  BY CollaborationAssumption DEF Subtasks, Tools
<1>4. PICK alone \in Subtasks : alone = [specialist |-> "analyzer", tools |-> Tools]
  BY CollaborationAssumption DEF Subtasks, Tools
<1>5. [analyze EXCEPT !.tools = Tools] = alone
  BY <1>1, <1>4
<1>6. PICK all : all = DefaultDecompose(analysis, change)
  OBVIOUS
<1>7. \/ all = <<analyze, implement, verify>>
      \/ all = <<analyze>>
      \/ all = <<implement>>
      \/ all = <<alone>>
  BY <1>1, <1>2, <1>3, <1>5, <1>6 DEF DefaultDecompose
<1>8. /\ all \in Seq(Subtasks) /\ Len(all) \in 1 .. 3
      /\ \A i, j \in 1 .. Len(all) : all[i].specialist = all[j].specialist => i = j
  <2>1. CASE all = <<analyze, implement, verify>>
    <3>1. all \in Seq(Subtasks) /\ Len(all) = 3
      BY <2>1
    <3>2. /\ all[1].specialist = "analyzer" /\ all[2].specialist = "implementer"
          /\ all[3].specialist = "verifier"
      BY <1>1, <1>2, <1>3, <2>1
    <3>3. 1 .. Len(all) = {1, 2, 3}
      BY <3>1
    <3>. QED
      BY <3>1, <3>2, <3>3
  <2>2. ASSUME NEW one \in Subtasks, all = <<one>>
        PROVE  <1>8
    BY <2>2
  <2>. QED
    BY <1>7, <2>1, <2>2
<1>. QED
  BY <1>6, <1>8

\* A decomposition has no more subtasks than allowed, and the default one names
\* no specialist twice.
LEMMA DecompositionType ==
  ASSUME NEW d \in Decompositions
  PROVE  /\ d \in Seq(Subtasks) /\ Len(d) <= MaxSpecialists
         /\ d \in Defaults =>
              \A i, j \in DOMAIN d : d[i].specialist = d[j].specialist => i = j
<1>1. ASSUME d \in Defaults
      PROVE  /\ d \in Seq(Subtasks) /\ Len(d) <= MaxSpecialists
             /\ \A i, j \in DOMAIN d : d[i].specialist = d[j].specialist => i = j
  <2>1. PICK analysis \in BOOLEAN, change \in BOOLEAN :
          d = FirstOf(DefaultDecompose(analysis, change))
    BY <1>1 DEF Defaults
  <2>2. PICK all \in Seq(Subtasks) :
          /\ all = DefaultDecompose(analysis, change)
          /\ \A i, j \in 1 .. Len(all) : all[i].specialist = all[j].specialist => i = j
    BY DefaultType
  <2>3. d = FirstOf(all)
    BY <2>1, <2>2
  <2>4. /\ d \in Seq(Subtasks) /\ Len(d) <= MaxSpecialists
        /\ \A i \in DOMAIN d : i \in 1 .. Len(all) /\ d[i] = all[i]
    BY <2>3, FirstOfIs
  <2>. QED
    BY <2>2, <2>4
<1>2. ASSUME NEW all \in Injected, d = FirstOf(all)
      PROVE  d \in Seq(Subtasks) /\ Len(d) <= MaxSpecialists
  <2>1. all \in Seq(Subtasks)
    BY CollaborationAssumption
  <2>. QED
    BY <1>2, <2>1, FirstOfIs
<1>. QED
  BY <1>1, <1>2 DEF Decompositions

-----------------------------------------------------------------------------
(* The inductive invariant.                                                *)

\* The parts of EvidenceIsOwn before and after the publication: what waits to
\* be published was observed, an item is kept under its own digest, and what
\* a result names is on the board.
SeenInv ==
  /\ \A id \in DOMAIN board : <<board[id].agent, id>> \in saw
  /\ \A i \in Indices :
       /\ \A k \in DOMAIN pending[i] :
            pending[i][k][1] # Blank => <<subtasks[i].specialist, pending[i][k]>> \in saw
       /\ result[i] # NoResult => \A id \in result[i].evidence :
            id \in DOMAIN board /\ <<subtasks[i].specialist, id>> \in saw

\* Nothing is at work before the pool and after it, and an index that was
\* submitted has its provider.
PoolInv ==
  /\ phase \in {"idle", "synthesized"} => PoolIsQuiet
  /\ \A s \in DOMAIN providers : providers[s] = s
  /\ \A i \in Indices : stage[i] # "new" => subtasks[i].specialist \in DOMAIN providers
  /\ subtasks \in Defaults =>
       \A i, j \in Indices : subtasks[i].specialist = subtasks[j].specialist => i = j

\* The verdicts on the evidence hold from the check to the next task.
VerdictInv ==
  \/ phase = "synthesized"
  \/ phase = "idle" /\ outcome \in {"completed", "partial"}
  => \A id \in DOMAIN board :
       board[id].source # "" => (board[id].verified <=> board[id].source \in files)

IInv == TypeOK /\ SeenInv /\ PoolInv /\ VerdictInv

-----------------------------------------------------------------------------
(* Types.                                                                  *)

\* A specialist that is publishing has a result.
LEMMA PublishingHasResult ==
  ASSUME TypeOK, NEW i \in Indices, stage[i] = "publishing"
  PROVE  /\ result[i] \in Results
         /\ pending[i] \in Seq((Contents \cup {Blank}) \X Sources)
BY DEF TypeOK

\* No result is NoResult.
LEMMA ResultIsOne ==
  ASSUME NEW r \in Results
  PROVE  r # NoResult
BY DEF Results, NoResult, Statuses

\* A subtask has a specialist and tools.
LEMMA SubtaskType ==
  ASSUME TypeOK, NEW i \in Indices
  PROVE  /\ subtasks[i] \in Subtasks
         /\ subtasks[i].specialist \in Specialists
         /\ subtasks[i].tools \subseteq Tools
<1>1. subtasks \in Seq(Subtasks) /\ i \in DOMAIN subtasks
  BY DEF TypeOK, Indices
<1>2. subtasks[i] \in Subtasks
  BY <1>1
<1>. QED
  BY <1>2 DEF Subtasks

\* What a tool call shows.
LEMMA SeenType ==
  ASSUME NEW name \in Tools, NEW path \in Paths, NEW end \in Ends
  PROVE  << <<name, IF end = "ok" THEN "ok" ELSE "failed">>,
            IF name = "execute_command" \/ end = "failed" THEN "None" ELSE path >>
           \in Contents \X Sources
BY DEF Contents, Sources

\* A check changes nothing but the verdict.
LEMMA CheckedType ==
  ASSUME NEW item \in Evidence
  PROVE  /\ Checked(item) \in Evidence
         /\ Checked(item).agent = item.agent
         /\ Checked(item).content = item.content
         /\ Checked(item).source = item.source
         /\ item.source # "" => (Checked(item).verified <=> item.source \in files)
<1>1. PICK b \in BOOLEAN : b <=> item.source \in files
  <2>1. CASE item.source \in files
    BY <2>1
  <2>2. CASE item.source \notin files
    BY <2>2
  <2>. QED
    BY <2>1, <2>2
<1>2. Checked(item) = IF item.source = "" THEN item ELSE [item EXCEPT !.verified = b]
  BY <1>1 DEF Checked
<1>. QED
  BY <1>1, <1>2 DEF Evidence

\* Sequences with no element, one element, and the elements of two.
LEMMA SequenceTypes ==
  ASSUME NEW S
  PROVE  /\ <<>> \in Seq(S)
         /\ \A e \in S : <<e>> \in Seq(S)
         /\ \A s, t \in Seq(S) : s \o t \in Seq(S)
OBVIOUS

\* Every step keeps the types.
LEMMA TypeStep ==
  ASSUME TypeOK, Next
  PROVE  TypeOK'
<1>1. ASSUME NEW d \in Decompositions, Start(d)
      PROVE  TypeOK'
  <2>1. d \in Seq(Subtasks) /\ Len(d) <= MaxSpecialists
    BY DecompositionType
  <2>2. subtasks' = d
    BY <1>1 DEF Start
  <2>3. runs' \in 0 .. MaxRuns
    <3>1. runs \in 0 .. MaxRuns /\ runs < MaxRuns /\ runs' = runs + 1
      BY <1>1 DEF Start, TypeOK
    <3>2. MaxRuns \in Nat
      BY CollaborationAssumption
    <3>. QED
      BY <3>1, <3>2
  <2>. QED
    BY <1>1, <2>1, <2>2, <2>3 DEF Start, Indices, TypeOK
<1>2. ASSUME NEW i \in Indices, Submit(i)
      PROVE  TypeOK'
  <2>1. subtasks[i].specialist \in Specialists
    BY SubtaskType
  <2>2. /\ DOMAIN providers' \subseteq Specialists
        /\ \A s \in DOMAIN providers' : providers'[s] \in Specialists
    BY <1>2, <2>1 DEF Submit, ProviderKey, TypeOK
  <2>. QED
    BY <1>2, <2>2 DEF Submit, IsNext, Indices, TypeOK
<1>3. ASSUME NEW i \in Indices, FactoryFails(i)
      PROVE  TypeOK'
  BY <1>3 DEF FactoryFails, Indices, TypeOK, pool
<1>4. ASSUME NEW i \in Indices, Begin(i)
      PROVE  TypeOK'
  BY <1>4 DEF Begin, Indices, MayBegin, IsNext, TypeOK
<1>5. ASSUME NEW i \in Indices, NEW name \in Tools, NEW path \in Paths,
             NEW end \in Ends, UseTool(i, name, path, end)
      PROVE  TypeOK'
  <2>1. PICK seen \in Contents \X Sources :
          /\ pending' = [pending EXCEPT ![i] = Append(@, seen)]
          /\ saw' = saw \cup {<<subtasks[i].specialist, seen>>}
    BY <1>5, SeenType DEF UseTool
  <2>2. saw' \subseteq Specialists \X (Contents \X Sources)
    BY <2>1, SubtaskType DEF TypeOK
  <2>3. pending' \in [Indices -> Seq((Contents \cup {Blank}) \X Sources)]
    <3>1. pending[i] \in Seq((Contents \cup {Blank}) \X Sources)
      BY DEF TypeOK
    <3>2. Append(pending[i], seen) \in Seq((Contents \cup {Blank}) \X Sources)
      BY <3>1
    <3>. QED
      BY <2>1, <3>2 DEF TypeOK
  <2>4. files' \subseteq Paths
    BY <1>5 DEF UseTool, TypeOK
  <2>. QED
    BY <1>5, <2>2, <2>3, <2>4 DEF UseTool, Indices, TypeOK
<1>6. ASSUME NEW i \in Indices, NEW status \in Statuses,
             NEW answer \in Answers \cup {"", "blank"}, FinishAgent(i, status, answer)
      PROVE  TypeOK'
  <2>1. PICK new \in Seq((Contents \cup {Blank}) \X Sources) :
          pending' = [pending EXCEPT ![i] = new \o @]
    <3>1. answer # "" => << <<"answer", answer>>, "" >> \in (Contents \cup {Blank}) \X Sources
      BY DEF Contents, Blank, Sources
    <3>. QED
      <4>1. CASE answer = ""
        <5>1. <<>> \in Seq((Contents \cup {Blank}) \X Sources)
          BY SequenceTypes
        <5>. QED
          BY <1>6, <4>1, <5>1 DEF FinishAgent
      <4>2. CASE answer # ""
        <5>1. << << <<"answer", answer>>, "" >> >> \in Seq((Contents \cup {Blank}) \X Sources)
          BY <3>1, <4>2, SequenceTypes
        <5>. QED
          BY <1>6, <4>2, <5>1 DEF FinishAgent
      <4>. QED
        BY <4>1, <4>2
  <2>2. pending' \in [Indices -> Seq((Contents \cup {Blank}) \X Sources)]
    <3>1. pending[i] \in Seq((Contents \cup {Blank}) \X Sources)
      BY DEF TypeOK
    <3>2. new \o pending[i] \in Seq((Contents \cup {Blank}) \X Sources)
      BY <3>1, SequenceTypes
    <3>. QED
      BY <2>1, <3>2 DEF TypeOK
  <2>3. saw' \subseteq Specialists \X (Contents \X Sources)
    <3>1. PICK said : said = << <<"answer", answer>>, "" >>
      OBVIOUS
    <3>2. subtasks[i].specialist \in Specialists
      BY SubtaskType
    <3>3. CASE answer \in Answers
      <4>1. said \in Contents \X Sources
        BY <3>1, <3>3 DEF Contents, Sources
      <4>2. saw' = saw \cup {<<subtasks[i].specialist, said>>}
        BY <1>6, <3>1, <3>3 DEF FinishAgent
      <4>3. saw \subseteq Specialists \X (Contents \X Sources)
        BY DEF TypeOK
      <4>4. <<subtasks[i].specialist, said>> \in Specialists \X (Contents \X Sources)
        BY <3>2, <4>1
      <4>. QED
        BY <4>2, <4>3, <4>4
    <3>4. CASE answer \notin Answers
      BY <1>6, <3>4 DEF FinishAgent, TypeOK
    <3>. QED
      BY <3>3, <3>4
  <2>4. PICK r \in Results : result' = [result EXCEPT ![i] = r]
    BY <1>6 DEF FinishAgent, Results
  <2>5. r # NoResult
    BY ResultIsOne
  <2>. QED
    BY <1>6, <2>2, <2>3, <2>4, <2>5 DEF FinishAgent, Indices, TypeOK
<1>7. ASSUME NEW i \in Indices, AgentRaises(i)
      PROVE  TypeOK'
  <2>1. PICK r \in Results : result' = [result EXCEPT ![i] = r]
    BY <1>7 DEF AgentRaises, Results, Statuses
  <2>2. r # NoResult
    BY ResultIsOne
  <2>3. pending' \in [Indices -> Seq((Contents \cup {Blank}) \X Sources)]
    BY <1>7 DEF AgentRaises, TypeOK
  <2>. QED
    BY <1>7, <2>1, <2>2, <2>3 DEF AgentRaises, Indices, TypeOK, Ended
<1>8. ASSUME NEW i \in Indices, Publish(i)
      PROVE  TypeOK'
  <2>1. PICK content \in Contents, source \in Sources :
          /\ board' = Published(subtasks[i].specialist, content, source)
          /\ result' = [result EXCEPT ![i].evidence = @ \cup {Digest(content, source)}]
    <3>1. Head(pending[i]) \in (Contents \cup {Blank}) \X Sources
      BY <1>8, PublishingHasResult DEF Publish
    <3>2. Head(pending[i])[1] \in Contents /\ Head(pending[i])[2] \in Sources
      BY <1>8, <3>1 DEF Publish
    <3>. QED
      BY <1>8, <3>2 DEF Publish
  <2>2. /\ DOMAIN board' \subseteq Digests
        /\ \A id \in DOMAIN board' :
             /\ board'[id] \in Evidence
             /\ id = <<board'[id].content, board'[id].source>>
    BY <2>1, SubtaskType DEF Published, Digest, Digests, Evidence, TypeOK
  <2>3. PICK r \in Results : result' = [result EXCEPT ![i] = r]
    <3>1. Digest(content, source) \in Digests
      BY <2>1 DEF Digest, Digests
    <3>2. [result[i] EXCEPT !.evidence = @ \cup {Digest(content, source)}] \in Results
      BY <1>8, <3>1, PublishingHasResult DEF Publish, Results
    <3>. QED
      BY <2>1, <3>2
  <2>4. r # NoResult
    BY ResultIsOne
  <2>5. pending' \in [Indices -> Seq((Contents \cup {Blank}) \X Sources)]
    <3>1. Tail(pending[i]) \in Seq((Contents \cup {Blank}) \X Sources)
      BY <1>8, PublishingHasResult DEF Publish
    <3>. QED
      BY <1>8, <3>1 DEF Publish, TypeOK
  <2>6. /\ stage[i] = "publishing"
        /\ UNCHANGED <<files, subtasks, phase, providers, stage, outcome, critic, saw, runs>>
    BY <1>8 DEF Publish
  <2>. QED
    BY <2>2, <2>3, <2>4, <2>5, <2>6 DEF Indices, TypeOK
<1>9. ASSUME NEW i \in Indices, PublishRaises(i)
      PROVE  TypeOK'
  BY <1>9 DEF PublishRaises, Indices, TypeOK, Ended
<1>10. ASSUME NEW i \in Indices, Return(i)
      PROVE  TypeOK'
  BY <1>10 DEF Return, Indices, TypeOK, Ended
<1>11. CASE RunRaises
  BY <1>11 DEF RunRaises, Indices, TypeOK, pool
<1>12. CASE VerifyEvidence
  <2>1. \A id \in DOMAIN board :
          /\ Checked(board[id]) \in Evidence
          /\ Checked(board[id]).content = board[id].content
          /\ Checked(board[id]).source = board[id].source
    BY CheckedType DEF TypeOK
  <2>. QED
    BY <1>12, <2>1 DEF VerifyEvidence, Indices, TypeOK, pool
<1>15. CASE CheckRaises
  <2>1. \A id \in DOMAIN board :
          /\ Checked(board[id]) \in Evidence
          /\ Checked(board[id]).content = board[id].content
          /\ Checked(board[id]).source = board[id].source
    BY CheckedType DEF TypeOK
  <2>2. PICK unchecked : board' = [id \in DOMAIN board |->
          IF id \in unchecked THEN board[id] ELSE Checked(board[id])]
    BY <1>15 DEF CheckRaises
  <2>3. /\ DOMAIN board' \subseteq Digests
        /\ \A id \in DOMAIN board' :
             /\ board'[id] \in Evidence
             /\ id = <<board'[id].content, board'[id].source>>
    BY <2>1, <2>2 DEF TypeOK
  <2>4. /\ phase' = "idle" /\ outcome' = "raised"
        /\ UNCHANGED <<files, subtasks, pool, critic, saw, runs>>
    BY <1>15 DEF CheckRaises
  <2>. QED
    BY <2>3, <2>4 DEF Indices, TypeOK, pool
<1>13. ASSUME NEW verdict \in {"none", "approved", "changes"}, Report(verdict)
       PROVE  TypeOK'
  BY <1>13 DEF Report, Indices, TypeOK, pool
<1>14. CASE CriticFails
  BY <1>14 DEF CriticFails, Indices, TypeOK, pool
<1>. QED
  BY <1>1, <1>2, <1>3, <1>4, <1>5, <1>6, <1>7, <1>8, <1>9, <1>10, <1>11,
     <1>12, <1>13, <1>14, <1>15 DEF Next, Coordinate, Work

-----------------------------------------------------------------------------
(* Evidence.                                                               *)

\* An element put before a sequence.
LEMMA InFront ==
  ASSUME NEW S, NEW s \in Seq(S), NEW e, NEW r, r = <<e>> \o s
  PROVE  /\ DOMAIN r = 1 .. Len(s) + 1
         /\ r[1] = e
         /\ \A k \in 1 .. Len(s) + 1 : k # 1 => k - 1 \in DOMAIN s /\ r[k] = s[k - 1]
<1>1. DOMAIN r = 1 .. Len(s) + 1
  OBVIOUS
<1>2. \A k \in 1 .. Len(s) + 1 : r[k] = IF k = 1 THEN e ELSE s[k - 1]
  OBVIOUS
<1>3. 1 \in 1 .. Len(s) + 1
  OBVIOUS
<1>4. \A k \in 1 .. Len(s) + 1 : k # 1 => k - 1 \in DOMAIN s
  OBVIOUS
<1>. QED
  BY <1>1, <1>2, <1>3, <1>4

\* What a specialist has seen stays seen.
LEMMA SawGrows ==
  ASSUME Next
  PROVE  saw \subseteq saw'
<1>1. ASSUME NEW i \in Indices, NEW name \in Tools, NEW path \in Paths,
             NEW end \in Ends, UseTool(i, name, path, end)
      PROVE  saw \subseteq saw'
  BY <1>1 DEF UseTool
<1>2. ASSUME NEW i \in Indices, NEW status \in Statuses,
             NEW answer \in Answers \cup {"", "blank"}, FinishAgent(i, status, answer)
      PROVE  saw \subseteq saw'
  BY <1>2 DEF FinishAgent
<1>3. CASE UNCHANGED saw
  BY <1>3
<1>. QED
  BY <1>1, <1>2, <1>3
     DEF Next, Coordinate, Work, Start, Submit, FactoryFails, RunRaises,
         VerifyEvidence, CheckRaises, Report, CriticFails, Begin, AgentRaises, Publish,
         PublishRaises, Return

\* A step that leaves the board, what waits and the results alone.
LEMMA SeenKept ==
  ASSUME SeenInv, saw \subseteq saw', UNCHANGED <<board, subtasks, pending, result>>
  PROVE  SeenInv'
BY DEF SeenInv, Indices

\* Observations, publications and checks keep what was seen.
LEMMA SeenStep ==
  ASSUME TypeOK, SeenInv, Next
  PROVE  SeenInv'
<1>0. saw \subseteq saw'
  BY SawGrows
<1>1. ASSUME NEW d \in Decompositions, Start(d)
      PROVE  SeenInv'
  BY <1>1 DEF Start, SeenInv, Indices, NoResult
<1>3. ASSUME NEW i \in Indices, NEW name \in Tools, NEW path \in Paths,
             NEW end \in Ends, UseTool(i, name, path, end)
      PROVE  SeenInv'
  <2>1. PICK seen : /\ pending' = [pending EXCEPT ![i] = Append(@, seen)]
                    /\ saw' = saw \cup {<<subtasks[i].specialist, seen>>}
    BY <1>3 DEF UseTool
  <2>2. pending[i] \in Seq((Contents \cup {Blank}) \X Sources)
    BY DEF TypeOK
  <2>3. pending'[i] = Append(pending[i], seen)
    BY <2>1 DEF TypeOK
  <2>4. ASSUME NEW k \in DOMAIN pending'[i], pending'[i][k][1] # Blank
        PROVE  <<subtasks[i].specialist, pending'[i][k]>> \in saw'
    <3>1. CASE k = Len(pending[i]) + 1
      BY <2>1, <2>2, <2>3, <3>1
    <3>2. CASE k # Len(pending[i]) + 1
      <4>1. k \in DOMAIN pending[i] /\ pending'[i][k] = pending[i][k]
        BY <2>2, <2>3, <2>4, <3>2
      <4>. QED
        BY <1>0, <2>4, <4>1 DEF SeenInv
    <3>. QED
      BY <3>1, <3>2
  <2>5. \A j \in Indices : j # i => pending'[j] = pending[j]
    BY <2>1 DEF TypeOK
  <2>6. UNCHANGED <<board, subtasks, result>>
    BY <1>3 DEF UseTool
  <2>. QED
    BY <1>0, <2>4, <2>5, <2>6 DEF SeenInv, Indices
<1>4. ASSUME NEW i \in Indices, NEW status \in Statuses, NEW answer,
             answer \in Answers \cup {"", "blank"}, FinishAgent(i, status, answer)
      PROVE  SeenInv'
  <2>1. pending[i] \in Seq((Contents \cup {Blank}) \X Sources)
    BY DEF TypeOK
  <2>2. UNCHANGED <<board, subtasks>>
    BY <1>4 DEF FinishAgent
  <2>3. \A j \in Indices : j # i => pending'[j] = pending[j] /\ result'[j] = result[j]
    BY <1>4 DEF FinishAgent, TypeOK
  <2>4. result'[i].evidence = {}
    BY <1>4 DEF FinishAgent, TypeOK
  <2>5. ASSUME NEW k \in DOMAIN pending'[i], pending'[i][k][1] # Blank
        PROVE  <<subtasks[i].specialist, pending'[i][k]>> \in saw'
    <3>1. CASE answer = ""
      <4>1. pending'[i] = <<>> \o pending[i]
        BY <1>4, <3>1 DEF FinishAgent, TypeOK
      <4>2. pending'[i] = pending[i]
        <5>1. PICK S, t : S = (Contents \cup {Blank}) \X Sources /\ t = pending[i]
          OBVIOUS
        <5>2. t \in Seq(S)
          BY <2>1, <5>1
        <5>3. <<>> \o t = t
          BY <5>2
        <5>. QED
          BY <4>1, <5>1, <5>3
      <4>. QED
        BY <1>0, <2>5, <4>2 DEF SeenInv
    <3>2. CASE answer # ""
      <4>1. PICK said : said = << <<"answer", answer>>, "" >>
        OBVIOUS
      <4>2. pending'[i] = <<said>> \o pending[i]
        BY <1>4, <3>2, <4>1 DEF FinishAgent, TypeOK
      <4>3. /\ DOMAIN pending'[i] = 1 .. Len(pending[i]) + 1
            /\ pending'[i][1] = said
            /\ \A l \in 1 .. Len(pending[i]) + 1 :
                 l # 1 => l - 1 \in DOMAIN pending[i] /\ pending'[i][l] = pending[i][l - 1]
        <5>1. PICK S, t, r : /\ S = (Contents \cup {Blank}) \X Sources
                             /\ t = pending[i] /\ r = pending'[i]
          OBVIOUS
        <5>2. t \in Seq(S)
          BY <2>1, <5>1
        <5>3. r = <<said>> \o t
          BY <4>2, <5>1
        <5>4. /\ DOMAIN r = 1 .. Len(t) + 1
              /\ r[1] = said
              /\ \A l \in 1 .. Len(t) + 1 : l # 1 => l - 1 \in DOMAIN t /\ r[l] = t[l - 1]
          BY <5>2, <5>3, InFront
        <5>. QED
          BY <5>1, <5>4
      <4>4. CASE k = 1
        <5>1. pending'[i][k] = said
          BY <4>3, <4>4
        <5>2. said[1] = <<"answer", answer>>
          BY <4>1
        <5>3. answer # "blank"
          BY <2>5, <5>1, <5>2 DEF Blank
        <5>4. answer \in Answers
          BY <1>4, <3>2, <5>3
        <5>5. saw' = saw \cup {<<subtasks[i].specialist, said>>}
          BY <1>4, <4>1, <5>4 DEF FinishAgent
        <5>. QED
          BY <5>1, <5>5
      <4>5. CASE k # 1
        <5>1. k - 1 \in DOMAIN pending[i] /\ pending'[i][k] = pending[i][k - 1]
          BY <2>5, <4>3, <4>5
        <5>. QED
          BY <1>0, <2>5, <5>1 DEF SeenInv
      <4>. QED
        BY <4>4, <4>5
    <3>. QED
      BY <3>1, <3>2
  <2>. QED
    <3>1. \A id \in DOMAIN board' : <<board'[id].agent, id>> \in saw'
      BY <1>0, <2>2 DEF SeenInv
    <3>2. ASSUME NEW j \in Indices', j # i
          PROVE  /\ \A k \in DOMAIN pending'[j] : pending'[j][k][1] # Blank =>
                        <<subtasks'[j].specialist, pending'[j][k]>> \in saw'
                 /\ result'[j] # NoResult => \A id \in result'[j].evidence :
                      id \in DOMAIN board' /\ <<subtasks'[j].specialist, id>> \in saw'
      BY <1>0, <2>2, <2>3, <3>2 DEF SeenInv, Indices
    <3>. QED
      BY <2>2, <2>4, <2>5, <3>1, <3>2 DEF SeenInv, Indices
<1>5. ASSUME NEW i \in Indices, AgentRaises(i)
      PROVE  SeenInv'
  BY <1>0, <1>5 DEF AgentRaises, SeenInv, Indices, TypeOK
<1>6. ASSUME NEW i \in Indices, Publish(i)
      PROVE  SeenInv'
  <2>1. pending[i] \in Seq((Contents \cup {Blank}) \X Sources) /\ pending[i] # <<>>
    BY <1>6 DEF Publish, TypeOK
  <2>2. PICK content, source :
          /\ Head(pending[i]) = <<content, source>> /\ content # Blank
          /\ board' = Published(subtasks[i].specialist, content, source)
          /\ result' = [result EXCEPT ![i].evidence = @ \cup {<<content, source>>}]
    <3>1. Head(pending[i]) \in (Contents \cup {Blank}) \X Sources
      BY <2>1
    <3>2. PICK content, source : Head(pending[i]) = <<content, source>>
      BY <3>1
    <3>3. Head(pending[i])[1] = content /\ Head(pending[i])[2] = source
      BY <3>2
    <3>. QED
      BY <1>6, <3>2, <3>3 DEF Publish, Digest
  <2>3. <<subtasks[i].specialist, <<content, source>>>> \in saw
    <3>1. 1 \in DOMAIN pending[i] /\ pending[i][1] = <<content, source>>
      BY <2>1, <2>2
    <3>. QED
      BY <2>2, <3>1 DEF SeenInv
  <2>4. /\ DOMAIN board' = DOMAIN board \cup {<<content, source>>}
        /\ \A id \in DOMAIN board' : <<board'[id].agent, id>> \in saw
    BY <2>2, <2>3 DEF Published, Digest, SeenInv
  <2>5. \A k \in DOMAIN pending'[i] :
          k + 1 \in DOMAIN pending[i] /\ pending'[i][k] = pending[i][k + 1]
    BY <1>6, <2>1 DEF Publish, TypeOK
  <2>6. result'[i].evidence = result[i].evidence \cup {<<content, source>>}
    BY <1>6, <2>2, PublishingHasResult DEF Publish, Results, TypeOK
  <2>7. \A j \in Indices : j # i => pending'[j] = pending[j] /\ result'[j] = result[j]
    BY <1>6 DEF Publish, TypeOK
  <2>8. result[i] # NoResult
    BY <1>6, PublishingHasResult, ResultIsOne DEF Publish
  <2>9. UNCHANGED <<subtasks, saw>>
    BY <1>6 DEF Publish
  <2>. QED
    <3>1. \A id \in DOMAIN board' : <<board'[id].agent, id>> \in saw'
      BY <2>4, <2>9
    <3>2. ASSUME NEW j \in Indices', j # i
          PROVE  /\ \A k \in DOMAIN pending'[j] : pending'[j][k][1] # Blank =>
                        <<subtasks'[j].specialist, pending'[j][k]>> \in saw'
                 /\ result'[j] # NoResult => \A id \in result'[j].evidence :
                      id \in DOMAIN board' /\ <<subtasks'[j].specialist, id>> \in saw'
      BY <2>4, <2>7, <2>9, <3>2 DEF SeenInv, Indices
    <3>3. \A k \in DOMAIN pending'[i] : pending'[i][k][1] # Blank =>
            <<subtasks'[i].specialist, pending'[i][k]>> \in saw'
      BY <2>5, <2>9 DEF SeenInv
    <3>4. \A id \in result'[i].evidence :
            id \in DOMAIN board' /\ <<subtasks'[i].specialist, id>> \in saw'
      BY <2>3, <2>4, <2>6, <2>8, <2>9 DEF SeenInv
    <3>. QED
      BY <3>1, <3>2, <3>3, <3>4 DEF SeenInv, Indices
<1>7. ASSUME NEW i \in Indices, PublishRaises(i)
      PROVE  SeenInv'
  BY <1>0, <1>7 DEF PublishRaises, SeenInv, Indices, TypeOK
<1>8. CASE VerifyEvidence
  <2>1. \A id \in DOMAIN board : Checked(board[id]).agent = board[id].agent
    BY CheckedType DEF TypeOK
  <2>. QED
    BY <1>0, <1>8, <2>1 DEF VerifyEvidence, SeenInv, Indices, pool
<1>9. CASE UNCHANGED <<board, subtasks, pending, result>>
  BY <1>0, <1>9, SeenKept
<1>10. CASE CheckRaises
  <2>1. \A id \in DOMAIN board : Checked(board[id]).agent = board[id].agent
    BY CheckedType DEF TypeOK
  <2>. QED
    BY <1>0, <1>10, <2>1 DEF CheckRaises, SeenInv, Indices, pool
<1>. QED
  BY <1>1, <1>3, <1>4, <1>5, <1>6, <1>7, <1>8, <1>9, <1>10
     DEF Next, Coordinate, Work, Submit, FactoryFails, RunRaises, Report,
         CriticFails, Begin, Return, pool

-----------------------------------------------------------------------------
(* The pool.                                                               *)

\* Futures come to life in the order new, queued, at work, ended.
LEMMA PoolStep ==
  ASSUME TypeOK, PoolInv, Next
  PROVE  PoolInv'
<1>1. ASSUME NEW d \in Decompositions, Start(d)
      PROVE  PoolInv'
  <2>1. d \in Defaults =>
          \A i, j \in DOMAIN d : d[i].specialist = d[j].specialist => i = j
    BY DecompositionType
  <2>2. subtasks' = d /\ providers' = <<>>
    BY <1>1 DEF Start
  <2>3. \A i \in Indices' : stage'[i] = "new"
    BY <1>1 DEF Start, Indices
  <2>4. PoolIsQuiet'
    BY <2>3 DEF PoolIsQuiet
  <2>. QED
    BY <2>1, <2>2, <2>3, <2>4 DEF PoolInv, Indices
<1>2. ASSUME NEW i \in Indices, Submit(i)
      PROVE  PoolInv'
  <2>1. \A s \in DOMAIN providers' : providers'[s] = s
    BY <1>2 DEF Submit, ProviderKey, PoolInv
  <2>2. \A j \in Indices : stage'[j] # "new" => subtasks[j].specialist \in DOMAIN providers'
    BY <1>2 DEF Submit, PoolInv, TypeOK
  <2>3. phase' \notin {"idle", "synthesized"} /\ subtasks' = subtasks
    BY <1>2 DEF Submit
  <2>. QED
    BY <2>1, <2>2, <2>3 DEF PoolInv, Indices
<1>3. ASSUME NEW i \in Indices, Work(i)
      PROVE  PoolInv'
  <2>1. UNCHANGED <<phase, providers, subtasks>>
    BY <1>3 DEF Work, Begin, FinishAgent, AgentRaises, Publish, PublishRaises, Return
  <2>2. stage[i] \in {"queued", "running", "publishing"}
    BY <1>3 DEF Work, Begin, FinishAgent, AgentRaises, Publish, PublishRaises, Return,
                MayBegin, IsNext
  <2>3. \A j \in Indices : j # i => stage'[j] = stage[j]
    BY <1>3 DEF Work, Begin, FinishAgent, AgentRaises, Publish, PublishRaises, Return, TypeOK
  <2>4. ~PoolIsQuiet
    BY <2>2 DEF PoolIsQuiet, Ended
  <2>. QED
    BY <2>1, <2>2, <2>3, <2>4 DEF PoolInv, Indices
<1>4. CASE UNCHANGED <<subtasks, pool>> /\ (phase' \in {"idle", "synthesized"} => PoolIsQuiet)
  BY <1>4 DEF PoolInv, Indices, PoolIsQuiet, pool
<1>5. CASE RunRaises \/ VerifyEvidence \/ CheckRaises \/ CriticFails
  BY <1>4, <1>5 DEF RunRaises, VerifyEvidence, CheckRaises, AllDone, CriticFails, PoolInv
<1>6. ASSUME NEW verdict \in {"none", "approved", "changes"}, Report(verdict)
      PROVE  PoolInv'
  BY <1>4, <1>6 DEF Report, PoolInv
<1>7. ASSUME NEW i \in Indices, FactoryFails(i)
      PROVE  PoolInv'
  BY <1>4, <1>7 DEF FactoryFails
<1>8. ASSUME NEW i \in Indices, NEW name \in Tools, NEW path \in Paths,
             NEW end \in Ends, UseTool(i, name, path, end)
      PROVE  PoolInv'
  BY <1>8 DEF UseTool, PoolInv, Indices, PoolIsQuiet
<1>. QED
  BY <1>1, <1>2, <1>3, <1>5, <1>6, <1>7, <1>8 DEF Next, Coordinate

-----------------------------------------------------------------------------
(* Verdicts.                                                               *)

\* Files change and items are published while something is at work only.
LEMMA VerdictStep ==
  ASSUME TypeOK, PoolInv, VerdictInv, Next
  PROVE  VerdictInv'
<1>1. CASE phase' \notin {"idle", "synthesized"}
  BY <1>1 DEF VerdictInv
<1>2. CASE VerifyEvidence
  <2>1. \A id \in DOMAIN board :
          /\ Checked(board[id]).source = board[id].source
          /\ board[id].source # "" =>
               (Checked(board[id]).verified <=> board[id].source \in files)
    BY CheckedType DEF TypeOK
  <2>. QED
    BY <1>2, <2>1 DEF VerifyEvidence, VerdictInv
<1>3. ASSUME NEW verdict \in {"none", "approved", "changes"}, Report(verdict)
      PROVE  VerdictInv'
  BY <1>3 DEF Report, VerdictInv
<1>4. CASE RunRaises \/ CheckRaises \/ CriticFails
  BY <1>4 DEF RunRaises, CheckRaises, CriticFails, VerdictInv
<1>5. ASSUME NEW i \in Indices, stage[i] \in {"queued", "running", "publishing"}, phase' = phase
      PROVE  VerdictInv'
  <2>1. ~PoolIsQuiet
    BY <1>5 DEF PoolIsQuiet, Ended
  <2>. QED
    BY <1>1, <1>5, <2>1 DEF PoolInv
<1>6. ASSUME NEW i \in Indices, Work(i)
      PROVE  VerdictInv'
  BY <1>5, <1>6 DEF Work, Begin, FinishAgent, AgentRaises, Publish, PublishRaises, Return,
                    MayBegin, IsNext
<1>7. ASSUME NEW i \in Indices, NEW name \in Tools, NEW path \in Paths,
             NEW end \in Ends, UseTool(i, name, path, end)
      PROVE  VerdictInv'
  BY <1>5, <1>7 DEF UseTool
<1>8. ASSUME NEW i \in Indices, Submit(i) \/ FactoryFails(i)
      PROVE  VerdictInv'
  BY <1>1, <1>8 DEF Submit, FactoryFails
<1>9. ASSUME NEW d \in Decompositions, Start(d)
      PROVE  VerdictInv'
  BY <1>9 DEF Start, VerdictInv
<1>. QED
  BY <1>2, <1>3, <1>4, <1>6, <1>7, <1>8, <1>9 DEF Next, Coordinate

-----------------------------------------------------------------------------
(* Theorems.                                                               *)

\* Every state of a behaviour has the invariant.
LEMMA Invariance == Spec => []IInv
<1>1. Init => IInv
  <2>. SUFFICES ASSUME Init PROVE IInv
    OBVIOUS
  <2>1. /\ DOMAIN board \subseteq Digests
        /\ \A id \in DOMAIN board :
             /\ board[id] \in Evidence /\ board[id].agent = "analyzer"
             /\ id = <<board[id].content, board[id].source>>
    <3>1. CASE board = <<>>
      BY <3>1
    <3>2. ASSUME NEW path \in Paths, NEW verified \in BOOLEAN,
                 board = ReadBoard(path, verified)
          PROVE  <2>1
      <4>1. <<"read_file", "ok">> \in Contents /\ path \in Sources
        BY DEF Contents, Tools, Sources
      <4>. QED
        <5>1. "analyzer" \in Specialists
          BY CollaborationAssumption
        <5>. QED
          BY <3>2, <4>1, <5>1 DEF ReadBoard, Digests, Evidence
    <3>. QED
      BY <3>1, <3>2 DEF Init, EarlierBoards
  <2>2. TypeOK
    <3>1. saw \subseteq Specialists \X (Contents \X Sources)
      BY <2>1, CollaborationAssumption DEF Init, Digests
    <3>2. MaxRuns \in Nat /\ MaxSpecialists \in Nat
      BY CollaborationAssumption
    <3>3. runs = 0 /\ subtasks = <<>>
      BY DEF Init
    <3>4. runs \in 0 .. MaxRuns /\ Len(subtasks) <= MaxSpecialists
      BY <3>2, <3>3
    <3>. QED
      BY <2>1, <3>1, <3>4 DEF Init, TypeOK, Indices
  <2>3. SeenInv
    BY <2>1 DEF Init, SeenInv, Indices
  <2>4. PoolInv
    BY DEF Init, PoolInv, Indices, PoolIsQuiet, Ended
  <2>5. VerdictInv
    BY DEF Init, VerdictInv
  <2>. QED
    BY <2>2, <2>3, <2>4, <2>5 DEF IInv
<1>2. IInv /\ [Next]_vars => IInv'
  <2>1. CASE Next
    BY <2>1, TypeStep, SeenStep, PoolStep, VerdictStep DEF IInv
  <2>2. CASE UNCHANGED vars
    BY <2>2 DEF vars, pool, IInv, TypeOK, SeenInv, PoolInv, VerdictInv, Indices, PoolIsQuiet
  <2>. QED
    BY <2>1, <2>2
<1>. QED
  BY <1>1, <1>2, PTL DEF Spec

\* Type correctness of every reachable state.
THEOREM TypeCorrect == Spec => []TypeOK
<1>1. IInv => TypeOK
  BY DEF IInv
<1>. QED
  BY <1>1, Invariance, PTL

\* Evidence is attributed to a specialist that observed it, for any number of
\* specialists, observations and tasks.
THEOREM EvidenceHasSeen == Spec => []EvidenceIsOwn
<1>1. IInv => EvidenceIsOwn
  <2>. SUFFICES ASSUME IInv PROVE EvidenceIsOwn
    OBVIOUS
  <2>1. \A id \in DOMAIN board : id = <<board[id].content, board[id].source>>
    BY DEF IInv, TypeOK
  <2>. QED
    BY <2>1 DEF IInv, SeenInv, EvidenceIsOwn
<1>. QED
  BY <1>1, Invariance, PTL

\* The verdicts of a reported run are about the workspace it leaves.
THEOREM VerdictsAreFinal == Spec => []VerifiedIsFinal
<1>1. IInv => VerifiedIsFinal
  BY DEF IInv, VerdictInv, VerifiedIsFinal
<1>. QED
  BY <1>1, Invariance, PTL

\* Specialists of two names at work have providers of their own, and all those
\* of the default decomposition, whatever a decomposer returns and however
\* large the pool is.
THEOREM ProvidersAreSeparate == Spec => []ConversationsSeparate
<1>1. IInv => ConversationsSeparate
  BY DEF IInv, PoolInv, ConversationsSeparate, InPool
<1>. QED
  BY <1>1, Invariance, PTL

\* No step takes an item from the board, gives it to another specialist, or
\* changes its verdict, but for the check after the pool.
THEOREM ItemsAreKept == Spec => PublishKeeps
<1>1. IInv /\ [Next]_vars =>
        [\A id \in DOMAIN board :
           /\ id \in DOMAIN board'
           /\ board'[id].agent = board[id].agent
           /\ board'[id] # board[id] => AllDone]_vars
  <2>. SUFFICES ASSUME IInv, Next, NEW id \in DOMAIN board
                PROVE  /\ id \in DOMAIN board'
                       /\ board'[id].agent = board[id].agent
                       /\ board'[id] # board[id] => AllDone
    OBVIOUS
  <2>1. CASE UNCHANGED board
    BY <2>1
  <2>2. ASSUME NEW i \in Indices, Publish(i)
        PROVE  id \in DOMAIN board' /\ board'[id] = board[id]
    BY <2>2 DEF Publish, Published
  <2>3. CASE VerifyEvidence
    <3>1. Checked(board[id]).agent = board[id].agent
      BY CheckedType DEF IInv, TypeOK
    <3>. QED
      BY <2>3, <3>1 DEF VerifyEvidence
  <2>8. CASE CheckRaises
    <3>1. Checked(board[id]).agent = board[id].agent
      BY CheckedType DEF IInv, TypeOK
    <3>. QED
      BY <2>8, <3>1 DEF CheckRaises
  <2>4. ASSUME NEW i \in Indices, Work(i)
        PROVE  Publish(i) \/ UNCHANGED board
    BY <2>4 DEF Work, Begin, FinishAgent, AgentRaises, PublishRaises, Return
  <2>5. CASE Coordinate
    BY <2>1, <2>3, <2>5, <2>8 DEF Coordinate, Submit, FactoryFails, RunRaises, Report, CriticFails
  <2>6. ASSUME NEW d \in Decompositions, Start(d)
        PROVE  UNCHANGED board
    BY <2>6 DEF Start
  <2>7. ASSUME NEW i \in Indices, NEW name \in Tools, NEW path \in Paths,
               NEW end \in Ends, UseTool(i, name, path, end)
        PROVE  UNCHANGED board
    BY <2>7 DEF UseTool
  <2>. QED
    BY <2>1, <2>2, <2>4, <2>5, <2>6, <2>7 DEF Next
<1>. QED
  BY <1>1, Invariance, PTL DEF Spec, PublishKeeps
=============================================================================
