--------------------------- MODULE Collaboration ---------------------------
(***************************************************************************)
(* CoordinatorAgent, its SpecialistAgents and their                        *)
(* CollaborationBlackboard: a task is decomposed, the subtasks run on a    *)
(* thread pool in one workspace, each specialist publishes what it         *)
(* observed after its own run has ended, and the coordinator then checks   *)
(* every item against the workspace and reports.  The blackboard may come  *)
(* filled from an earlier run.                                             *)
(*                                                                         *)
(* A specialist's turns are the environment's: the tools it calls, how its *)
(* run ends and what it answers are free.                                  *)
(***************************************************************************)
EXTENDS Integers, Sequences, FiniteSets, Functions

CONSTANTS
  Paths,           \* paths, as they lead from the workspace
  Answers,         \* texts a specialist may answer
  Specialists,     \* names of specialists
  Blocked,         \* tools of which the policy may block a call
  Injected,        \* what the decomposer given to CoordinatorAgent may return
  Concurrency,     \* CoordinatorAgent's concurrency
  MaxSpecialists,  \* CoordinatorAgent's max_specialists
  MaxObserved,     \* bound: tool calls of one specialist
  MaxRuns          \* bound: tasks given to the coordinator

VARIABLES
  files,      \* paths that exist
  board,      \* CollaborationBlackboard._items
  subtasks,   \* the decomposition of the task
  phase,      \* where CoordinatorAgent.run is
  providers,  \* the provider of each specialist of the run
  stage,      \* where the future of each subtask is
  pending,    \* what its specialist has observed and not published
  result,     \* its SpecialistResult
  outcome,    \* how the last run of the coordinator ended
  critic,     \* the critic's verdict in it
  saw,        \* history: <<specialist, content, source>> observed or answered
  runs        \* tasks started

pool == <<providers, stage, pending, result>>
vars == <<files, board, subtasks, phase, pool, outcome, critic, saw, runs>>

Tools == {"read_file", "write_file", "execute_command"}
Contents == (Tools \X {"ok", "failed"}) \cup ({"answer"} \X Answers)
Blank == <<"answer", "blank">>
Sources == Paths \cup {"", "None"}

\* RunStatus of a run that has ended; "failed" stands for max_turns as well.
Statuses == {"completed", "failed"}

\* tools are those SpecialistAgent.run selects: a subtask that names none gets
\* all there are.
Subtasks == [specialist : Specialists, tools : SUBSET Tools]
Evidence == [agent : Specialists, content : Contents, source : Sources, verified : BOOLEAN]

\* Mutant of Digest: whatever is observed of one file is one item.
DigestOfSource(content, source) == << <<>>, source >>

\* What identifies an item: its content, which starts with its kind or the
\* name of the tool, and its source.
Digests == Contents \X Sources
Digest(content, source) == <<content, source>>

ASSUME CollaborationAssumption ==
  /\ \A x \in {"", "None"} : x \notin Paths
  /\ \A x \in {"", "blank"} : x \notin Answers
  /\ {"analyzer", "implementer", "verifier"} \subseteq Specialists
  /\ Injected \subseteq Seq(Subtasks)
  /\ Concurrency \in Nat \ {0}
  /\ MaxSpecialists \in Nat \ {0}
  /\ MaxObserved \in Nat
  /\ MaxRuns \in Nat

Results == [status : Statuses, evidence : SUBSET Digests]
NoResult == [status |-> "none"]

Indices == DOMAIN subtasks
Ended == {"returned", "raised"}
InPool == {i \in Indices : stage[i] \notin {"new", "queued"} \cup Ended}

TypeOK ==
  /\ files \subseteq Paths
  /\ DOMAIN board \subseteq Digests
  /\ \A id \in DOMAIN board :
       /\ board[id] \in Evidence
       /\ id = <<board[id].content, board[id].source>>
  /\ subtasks \in Seq(Subtasks) /\ Len(subtasks) <= MaxSpecialists
  /\ phase \in {"idle", "submitting", "unwinding", "pool", "synthesized"}
  /\ DOMAIN providers \subseteq Specialists
  /\ \A s \in DOMAIN providers : providers[s] \in Specialists
  /\ stage \in [Indices -> {"new", "queued", "running", "publishing"} \cup Ended]
  /\ pending \in [Indices -> Seq((Contents \cup {Blank}) \X Sources)]
  /\ result \in [Indices -> Results \cup {NoResult}]
  /\ \A i \in Indices : stage[i] \in {"publishing", "returned"} <=> result[i] # NoResult
  /\ outcome \in {"none", "completed", "partial", "raised"}
  /\ critic \in {"none", "approved", "changes"}
  /\ saw \subseteq Specialists \X (Contents \X Sources)
  /\ runs \in 0 .. MaxRuns

\* The board with a file that an analyzer read, found in the workspace at the
\* end of that run or not.
ReadBoard(path, verified) ==
  LET content == <<"read_file", "ok">>
  IN [id \in {<<content, path>>} |->
        [agent |-> "analyzer", content |-> content, source |-> path, verified |-> verified]]

\* The boards an earlier run may leave.
EarlierBoards ==
  {<<>>} \cup {ReadBoard(path, verified) : path \in Paths, verified \in BOOLEAN}

Init ==
  /\ files \in SUBSET Paths
  /\ board \in EarlierBoards
  /\ subtasks = <<>>
  /\ phase = "idle"
  /\ providers = <<>>
  /\ stage = <<>>
  /\ pending = <<>>
  /\ result = <<>>
  /\ outcome = "none"
  /\ critic = "none"
  /\ saw = {"analyzer"} \X DOMAIN board
  /\ runs = 0

-----------------------------------------------------------------------------
(* Decomposition.                                                          *)

\* default_decompose: by the keywords of the task; two subtasks get a third
\* that verifies, a task without a keyword goes to an analyzer with every tool.
DefaultDecompose(analysis, change) ==
  LET analyze == [specialist |-> "analyzer", tools |-> {"read_file"}]
      implement == [specialist |-> "implementer", tools |-> Tools]
      verify == [specialist |-> "verifier", tools |-> {"read_file", "execute_command"}]
  IN IF analysis /\ change THEN <<analyze, implement, verify>>
     ELSE IF analysis THEN <<analyze>>
     ELSE IF change THEN <<implement>>
     ELSE <<[analyze EXCEPT !.tools = Tools]>>

\* CoordinatorAgent.decompose keeps the first max_specialists of what the
\* decomposer returns, the default one or another.
FirstOf(all) ==
  SubSeq(all, 1, IF Len(all) < MaxSpecialists THEN Len(all) ELSE MaxSpecialists)

Defaults == {FirstOf(DefaultDecompose(analysis, change)) : analysis, change \in BOOLEAN}
Decompositions == Defaults \cup {FirstOf(all) : all \in Injected}

-----------------------------------------------------------------------------
(* CoordinatorAgent.run, up to the pool.                                   *)

\* A decomposition without subtasks is refused.
Start(decomposition) ==
  /\ phase = "idle"
  /\ runs < MaxRuns
  /\ subtasks' = decomposition
  /\ phase' = IF decomposition = <<>> THEN "idle" ELSE "submitting"
  /\ outcome' = IF decomposition = <<>> THEN "raised" ELSE "none"
  /\ providers' = <<>>
  /\ stage' = [i \in DOMAIN decomposition |-> "new"]
  /\ pending' = [i \in DOMAIN decomposition |-> <<>>]
  /\ result' = [i \in DOMAIN decomposition |-> NoResult]
  /\ critic' = "none"
  /\ runs' = runs + 1
  /\ UNCHANGED <<files, board, saw>>

\* The subtask that is submitted next.
IsNext(i, where) == stage[i] = where /\ \A j \in 1 .. i - 1 : stage[j] # where

\* Mutant of ProviderKey: one provider serves every specialist.
SharedKey(i) == subtasks[1].specialist

\* make_specialist: a provider per specialist, named here by the specialist
\* it was made for.
ProviderKey(i) == subtasks[i].specialist

Submit(i) ==
  /\ phase = "submitting"
  /\ IsNext(i, "new")
  /\ stage' = [stage EXCEPT ![i] = "queued"]
  /\ providers' = [s \in DOMAIN providers \cup {subtasks[i].specialist} |->
                     IF s \in DOMAIN providers THEN providers[s] ELSE ProviderKey(i)]
  /\ phase' = IF i = Len(subtasks) THEN "pool" ELSE "submitting"
  /\ UNCHANGED <<files, board, subtasks, pending, result, outcome, critic, saw, runs>>

\* provider_factory raises; leaving the with block waits for what was
\* submitted.
FactoryFails(i) ==
  /\ phase = "submitting"
  /\ IsNext(i, "new")
  /\ subtasks[i].specialist \notin DOMAIN providers
  /\ phase' = "unwinding"
  /\ UNCHANGED <<files, board, subtasks, pool, outcome, critic, saw, runs>>

-----------------------------------------------------------------------------
(* SpecialistAgent.run in a thread of the pool.                            *)

\* A free thread takes the oldest work item.
MayBegin(i) ==
  /\ IsNext(i, "queued")
  /\ Cardinality(InPool) < Concurrency

Begin(i) ==
  /\ MayBegin(i)
  /\ stage' = [stage EXCEPT ![i] = "running"]
  /\ UNCHANGED <<files, board, subtasks, phase, providers, pending, result,
                 outcome, critic, saw, runs>>

\* How a tool call ends: "blocked" is the policy's doing, "failed" stands for
\* a handler that raises, for arguments that are not valid and for a tool the
\* specialist does not have, which all leave the same observation.
Ends == {"ok", "failed", "blocked"}

\* One tool call of the specialist's agent.  A command may remove a file, also
\* when it fails.  Its observation has no path argument, and that of a failed
\* call no arguments at all (dispatch): their source is "None".
UseTool(i, name, path, end) ==
  LET seen == << <<name, IF end = "ok" THEN "ok" ELSE "failed">>,
                 IF name = "execute_command" \/ end = "failed" THEN "None" ELSE path >>
  IN /\ stage[i] = "running"
     /\ name \in subtasks[i].tools
     /\ Len(pending[i]) < MaxObserved
     /\ end = "blocked" => name \in Blocked
     /\ name = "read_file" /\ end = "ok" => path \in files
     /\ \/ name = "write_file" /\ end = "ok" /\ files' = files \cup {path}
        \/ name = "execute_command" /\ end # "blocked" /\ files' = files \ {path}
        \/ (name = "write_file" => end # "ok") /\ files' = files
     /\ pending' = [pending EXCEPT ![i] = Append(@, seen)]
     /\ saw' = saw \cup {<<subtasks[i].specialist, seen>>}
     /\ UNCHANGED <<board, subtasks, phase, providers, stage, result, outcome, critic, runs>>

\* The agent's run ends; the answer, if there is one, is published before the
\* observations.
FinishAgent(i, status, answer) ==
  /\ stage[i] = "running"
  /\ answer # "" <=> status = "completed"
  /\ stage' = [stage EXCEPT ![i] = "publishing"]
  /\ pending' = [pending EXCEPT ![i] =
                  (IF answer = "" THEN <<>> ELSE << << <<"answer", answer>>, "" >> >>) \o @]
  /\ result' = [result EXCEPT ![i] = [status |-> status, evidence |-> {}]]
  /\ saw' = saw \cup IF answer \in Answers
                       THEN {<<subtasks[i].specialist, << <<"answer", answer>>, "" >> >>}
                       ELSE {}
  /\ UNCHANGED <<files, board, subtasks, phase, providers, outcome, critic, runs>>

\* run_result raises: a failed result without evidence.
AgentRaises(i) ==
  /\ stage[i] = "running"
  /\ stage' = [stage EXCEPT ![i] = "returned"]
  /\ pending' = [pending EXCEPT ![i] = <<>>]
  /\ result' = [result EXCEPT ![i] = [status |-> "failed", evidence |-> {}]]
  /\ UNCHANGED <<files, board, subtasks, phase, providers, outcome, critic, saw, runs>>

\* Mutant of Published: no deduplication, the last publisher wins.
Republished(agent, content, source) ==
  LET id == Digest(content, source)
      item == [agent |-> agent, content |-> content, source |-> source, verified |-> FALSE]
  IN [x \in DOMAIN board \cup {id} |-> IF x = id THEN item ELSE board[x]]

\* CollaborationBlackboard.publish of a content that is not blank: the first
\* publisher of an item stays its agent.
Published(agent, content, source) ==
  LET id == Digest(content, source)
      item == [agent |-> agent, content |-> content, source |-> source, verified |-> FALSE]
  IN [x \in DOMAIN board \cup {id} |-> IF x \in DOMAIN board THEN board[x] ELSE item]

Publish(i) ==
  /\ stage[i] = "publishing"
  /\ pending[i] # <<>>
  /\ Head(pending[i])[1] # Blank
  /\ LET content == Head(pending[i])[1]
         source == Head(pending[i])[2]
     IN /\ board' = Published(subtasks[i].specialist, content, source)
        /\ result' = [result EXCEPT ![i].evidence = @ \cup {Digest(content, source)}]
  /\ pending' = [pending EXCEPT ![i] = Tail(@)]
  /\ UNCHANGED <<files, subtasks, phase, providers, stage, outcome, critic, saw, runs>>

\* publish refuses a blank answer, outside of the try of SpecialistAgent.run.
PublishRaises(i) ==
  /\ stage[i] = "publishing"
  /\ pending[i] # <<>>
  /\ Head(pending[i])[1] = Blank
  /\ stage' = [stage EXCEPT ![i] = "raised"]
  /\ pending' = [pending EXCEPT ![i] = <<>>]
  /\ result' = [result EXCEPT ![i] = NoResult]
  /\ UNCHANGED <<files, board, subtasks, phase, providers, outcome, critic, saw, runs>>

Return(i) ==
  /\ stage[i] = "publishing"
  /\ pending[i] = <<>>
  /\ stage' = [stage EXCEPT ![i] = "returned"]
  /\ UNCHANGED <<files, board, subtasks, phase, providers, pending, result,
                 outcome, critic, saw, runs>>

-----------------------------------------------------------------------------
(* CoordinatorAgent.run, after the pool.                                   *)

\* Mutant of PoolIsQuiet: a specialist that raised is still waited for.
AllReturned == \A i \in Indices : stage[i] = "returned"

\* The pool is left when no submitted work is under way.
PoolIsQuiet == \A i \in Indices : stage[i] \in Ended \cup {"new"}

RunRaises ==
  /\ PoolIsQuiet
  /\ \/ phase = "unwinding"
     \/ phase = "pool" /\ \E i \in Indices : stage[i] = "raised"
  /\ phase' = "idle"
  /\ outcome' = "raised"
  /\ UNCHANGED <<files, board, subtasks, pool, critic, saw, runs>>

\* Mutant of Checked: what was verified once is not looked at again.
CheckedOnce(item) ==
  IF item.source = "" \/ item.verified THEN item
  ELSE [item EXCEPT !.verified = item.source \in files]

\* Every item with a source is checked again, those of earlier tasks too.
Checked(item) ==
  IF item.source = "" THEN item
  ELSE [item EXCEPT !.verified = item.source \in files]

\* The pool is left with a result of every subtask.
AllDone ==
  /\ phase = "pool"
  /\ PoolIsQuiet
  /\ \A i \in Indices : stage[i] = "returned"

VerifyEvidence ==
  /\ AllDone
  /\ board' = [id \in DOMAIN board |-> Checked(board[id])]
  /\ phase' = "synthesized"
  /\ UNCHANGED <<files, subtasks, pool, outcome, critic, saw, runs>>

\* exists() of a source raises (a name too long, a directory that may not be
\* searched) when some of the items have been checked.
CheckRaises ==
  /\ AllDone
  /\ \E unchecked \in SUBSET DOMAIN board :
       /\ \E id \in unchecked : board[id].source # ""
       /\ board' = [id \in DOMAIN board |->
                     IF id \in unchecked THEN board[id] ELSE Checked(board[id])]
  /\ phase' = "idle"
  /\ outcome' = "raised"
  /\ UNCHANGED <<files, subtasks, pool, critic, saw, runs>>

\* _run_critic, when there is a critic, and the result.
Report(verdict) ==
  /\ phase = "synthesized"
  /\ critic' = verdict
  /\ outcome' = IF \A i \in Indices : result[i].status = "completed"
                  THEN "completed" ELSE "partial"
  /\ phase' = "idle"
  /\ UNCHANGED <<files, board, subtasks, pool, saw, runs>>

CriticFails ==
  /\ phase = "synthesized"
  /\ outcome' = "raised"
  /\ phase' = "idle"
  /\ UNCHANGED <<files, board, subtasks, pool, critic, saw, runs>>

-----------------------------------------------------------------------------
Work(i) ==
  \/ Begin(i)
  \/ \E status \in Statuses, answer \in Answers \cup {"", "blank"} :
       FinishAgent(i, status, answer)
  \/ AgentRaises(i)
  \/ Publish(i)
  \/ PublishRaises(i)
  \/ Return(i)

Coordinate ==
  \/ \E i \in Indices : Submit(i) \/ FactoryFails(i)
  \/ RunRaises
  \/ VerifyEvidence
  \/ CheckRaises
  \/ \E verdict \in {"none", "approved", "changes"} : Report(verdict)
  \/ CriticFails

Next ==
  \/ \E decomposition \in Decompositions : Start(decomposition)
  \/ Coordinate
  \/ \E i \in Indices :
       \/ Work(i)
       \/ \E name \in Tools, path \in Paths, end \in Ends : UseTool(i, name, path, end)

\* A thread that can run does, and so does the coordinator's; a specialist's
\* run ends because its turns are bounded (BoundedRun).
Fairness ==
  /\ WF_vars(Coordinate)
  /\ \A i \in 1 .. MaxSpecialists : WF_vars(i \in Indices /\ Work(i))

Spec == Init /\ [][Next]_vars /\ Fairness

-----------------------------------------------------------------------------
(* Properties.                                                             *)

\* Evidence is attributed to a specialist that did observe it, and the ids a
\* specialist returns name items of the board that this specialist observed,
\* whoever published them first (SpecialistAgent.run and the blackboard's
\* deduplication by kind, content and source).
EvidenceIsOwn ==
  /\ \A id \in DOMAIN board :
       <<board[id].agent, <<board[id].content, board[id].source>>>> \in saw
  /\ \A i \in Indices : result[i] # NoResult =>
       \A id \in result[i].evidence :
         /\ id \in DOMAIN board
         /\ <<subtasks[i].specialist, <<board[id].content, board[id].source>>>> \in saw

\* After a run that reports, an item with a source is verified exactly when
\* the source leads to a file the run left behind, items of earlier
\* runs included (the loop over the blackboard after the pool).
VerifiedIsFinal ==
  phase = "idle" /\ outcome \in {"completed", "partial"} =>
    \A id \in DOMAIN board :
      board[id].source # "" => (board[id].verified <=> board[id].source \in files)

\* Specialists of two names at work never share a provider, whose conversation
\* state one run would overwrite for the other, and of the default
\* decomposition no two subtasks do (make_specialist).  A decomposer that names
\* one specialist twice puts one provider in two threads.
ConversationsSeparate ==
  \A i, j \in InPool :
    providers[subtasks[i].specialist] = providers[subtasks[j].specialist] =>
      /\ subtasks[i].specialist = subtasks[j].specialist
      /\ subtasks \in Defaults => i = j

\* An item that another specialist publishes again keeps its agent and its
\* verification: only the check after the pool changes an item.
PublishKeeps ==
  [][\A id \in DOMAIN board :
       /\ id \in DOMAIN board'
       /\ board'[id].agent = board[id].agent
       /\ board'[id] # board[id] => AllDone]_vars

\* A run of the coordinator ends, though specialists, the provider factory, the
\* check of the evidence or the critic raise.
RunEnds == phase # "idle" ~> phase = "idle"
=============================================================================
