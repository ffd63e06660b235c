-------------------------- MODULE AgentLoopProofs ---------------------------
(***************************************************************************)
(* Invariants of AgentLoop for every value of its constants.               *)
(***************************************************************************)
EXTENDS AgentLoop, TLAPS

-----------------------------------------------------------------------------
(* The inductive invariant, in named parts.                                *)

\* What the process holds at each point of its life.
ProcessInv ==
  /\ pc # "off" => agent.max_turns \in Budgets
  /\ ~HasRun => state = NoState /\ ~dirty /\ finalText = 0
  /\ HasRun => state.run \in 1 .. runs /\ state.max_turns \in Budgets
  /\ InLoop <=> state.status = "running"
  /\ InLoop /\ pc # "turn" => state.turn_count < state.max_turns
  /\ pc = "stopped" => state.status \in {"completed", "max_turns", "failed"}
  /\ pc = "saved" => state.status \in {"max_turns", "failed"}
  /\ HasRun /\ state.status = "max_turns" => state.run \in exhausted

\* A checkpoint on disk belongs to a started run and is not ahead of the run
\* that continues it.
CheckpointInv ==
  /\ \/ checkpoint = NoCheckpoint
     \/ checkpoint.run \in 1 .. runs /\ checkpoint.max_turns \in Budgets
  /\ HasRun /\ checkpoint.run = state.run
       => state.turn_count >= checkpoint.turn_count

\* The text kept by a passed verification is only there while nothing has
\* been edited since.
FinalTextInv ==
  finalText # 0 => ~dirty /\ pc \in {"turn", "stopped", "saved"}

\* _dirty holds whenever the run has an uncovered edit, except while the
\* batch that made it is still being dispatched; it is down in the end.
DirtyInv ==
  /\ SilentEdits = {} /\ ~agent.resumed /\ state.run \in unverified
       => dirty \/ (pc = "tools" /\ wrote)
  /\ config.verifier /\ state.status = "completed" => ~dirty

\* The outputs in hand never exceed the calls they answer.
OutputsInv ==
  /\ pc = "turn" => \/ state.tool_outputs = 0
                    \/ state.turn_count > 0 /\ state.tool_outputs <= owed
  /\ pc = "tools" => state.tool_outputs = 0 /\ batch <= owed
  /\ pc = "verify" => state.tool_outputs = 0

\* The runs whose requests are claimed to answer every call.
Linked ==
  \/ ~agent.resumed
  \/ config.api = "chat" /\ ~HasSummarizer /\ state.run \notin exhausted

\* For these, the outputs in hand are exactly the calls left unanswered.
LinkedInv ==
  /\ Linked =>
       /\ pc = "turn" =>
            \/ state.tool_outputs = owed
            \/ /\ config.api = "chat"
               /\ state.turn_count = 0
               /\ state.tool_outputs = 0
       /\ pc = "asked" => CallsAnswered
       /\ pc = "tools" => batch = owed
       /\ pc = "verify" => owed = 0
  /\ config.api = "chat" /\ ~HasSummarizer =>
       /\ state.run \notin exhausted /\ pc \in {"stopped", "saved"}
            /\ state.status = "failed"
            => owed = 0 \/ state.turn_count = 0
       /\ checkpoint.run \notin exhausted
            => checkpoint.owed = 0 \/ checkpoint.turn_count = 0

IInv ==
  /\ TypeOK
  /\ ProcessInv
  /\ CheckpointInv
  /\ FinalTextInv
  /\ DirtyInv
  /\ OutputsInv
  /\ LinkedInv

-----------------------------------------------------------------------------
(* Types.                                                                  *)

\* What a process that has ended leaves is of the right type.
LEMMA NoProcessTypes ==
  NoAgent \in AgentObjects /\ NoState \in AgentStates /\ 0 \in RunIds
<1>1. 0 \in RunIds /\ "pending" \in Statuses
  BY ConstantsAssumption DEF RunIds, Statuses
<1>2. NoState \in AgentStates
  BY <1>1 DEF NoState, AgentStates
<1>. QED
  BY <1>1, <1>2 DEF NoAgent, AgentObjects

\* A run begins in a well-formed AgentState.
LEMMA RunStateType ==
  ASSUME NEW run \in RunIds, NEW budget \in Nat, NEW turn \in Nat,
         NEW error \in BOOLEAN
  PROVE  RunState(run, budget, turn, error) \in AgentStates
<1>1. 0 \in RunIds /\ "running" \in Statuses
  BY ConstantsAssumption DEF RunIds, Statuses
<1>. QED
  BY <1>1 DEF RunState, AgentStates

\* A decision leaves a well-formed AgentState, whether it ends the run or not.
LEMMA TurnType ==
  ASSUME state \in AgentStates, NEW outputs \in Nat, NEW text \in RunIds,
         Continue(outputs) \/ Complete(text, outputs)
  PROVE  state' \in AgentStates
<1>1. "running" \in Statuses /\ "completed" \in Statuses
  BY DEF Statuses
<1>2. state.turn_count + 1 \in Nat /\ state.output \in RunIds
  BY DEF AgentStates
<1>3. ASSUME NEW n \in Nat, NEW s \in Statuses, NEW t \in RunIds, NEW o \in Nat
      PROVE  [state EXCEPT !.turn_count = n, !.status = s,
                           !.output = t, !.tool_outputs = o] \in AgentStates
  BY DEF AgentStates
<1>4. CASE Continue(outputs)
  BY <1>1, <1>2, <1>3, <1>4 DEF Continue, EndTurn
<1>5. CASE Complete(text, outputs)
  BY <1>1, <1>2, <1>3, <1>5 DEF Complete, EndTurn
<1>. QED
  BY <1>4, <1>5

\* So does a failure.
LEMMA FailType ==
  ASSUME state \in AgentStates, FailRun
  PROVE  state' \in AgentStates
<1>1. "failed" \in Statuses
  BY DEF Statuses
<1>. QED
  BY <1>1 DEF FailRun, AgentStates

\* The budget of the process at hand is a number.
LEMMA BudgetType ==
  ASSUME TypeOK
  PROVE  agent.max_turns \in Nat
<1>1. agent.max_turns \in Budgets \/ agent.max_turns = 0
  BY DEF TypeOK, AgentObjects
<1>2. CASE agent.max_turns \in Budgets
  BY <1>2, ConstantsAssumption
<1>3. CASE agent.max_turns = 0
  BY <1>3
<1>. QED
  BY <1>1, <1>2, <1>3

\* The number of the next run is new.
LEMMA RunNumbers ==
  ASSUME TypeOK
  PROVE  /\ runs \in Nat /\ runs + 1 \in Nat /\ runs + 1 # 0
         /\ runs + 1 \in 1 .. runs + 1
         /\ \A n \in 1 .. runs : n \in 1 .. runs + 1 /\ n # runs + 1
         /\ runs + 1 \notin unverified \cup exhausted
<1>1. runs \in Nat
  BY ConstantsAssumption DEF TypeOK, RunIds
<1>. QED
  BY <1>1 DEF TypeOK

\* Every step of the system keeps the types.
LEMMA TypeStep ==
  ASSUME IInv, [Next]_vars
  PROVE  TypeOK'
<1> USE DEF IInv
<1>1. CASE NewProcess
  <2>1. agent' \in AgentObjects
    BY <1>1 DEF NewProcess, AgentObjects
  <2>. QED
    BY <1>1, <2>1 DEF NewProcess, NoAgent, agentVars, batchVars, diskVars,
             history, TypeOK, PCs
<1>2. CASE StartRun
  <2>1. runs' \in RunIds /\ 1 .. runs \subseteq 1 .. runs'
    BY <1>2, ConstantsAssumption DEF StartRun, RunState, agentVars,
             batchVars, diskVars, history, TypeOK, RunIds
  <2>2. state' \in AgentStates
    BY <1>2, <2>1, RunStateType, BudgetType DEF StartRun, TypeOK
  <2>3. agent' \in AgentObjects
    BY <1>2 DEF StartRun, RunState, agentVars, batchVars, diskVars, history,
             TypeOK, AgentObjects
  <2>. QED
    BY <1>2, <2>1, <2>2, <2>3 DEF StartRun, RunState, agentVars, batchVars,
             diskVars, history, TypeOK, PCs
<1>3. CASE Resume
  <2>1. state' \in AgentStates
    BY <1>3, RunStateType, ConstantsAssumption DEF Resume, ResumedTurn,
             TypeOK, Checkpoints
  <2>2. agent.runs + 1 \in Nat
    BY <1>3 DEF TypeOK, AgentObjects
  <2>3. agent' \in AgentObjects
    BY <1>3, <2>2 DEF Resume, TypeOK, AgentObjects
  <2>4. owed' \in Nat
    BY <1>3 DEF Resume, RunState, ResumedTurn, agentVars, batchVars,
             diskVars, history, bounds, TypeOK, Checkpoints
  <2>. QED
    BY <1>3, <2>1, <2>2, <2>3, <2>4 DEF Resume, RunState, ResumedTurn,
             agentVars, batchVars, diskVars, history, bounds, TypeOK, PCs
<1>4. CASE Crash
  BY <1>4, NoProcessTypes DEF Crash, End, diskVars, history, bounds, TypeOK,
             PCs
<1>5. CASE TurnLimit
  <2>1. state' \in AgentStates
    BY <1>5 DEF TurnLimit, agentVars, batchVars, diskVars, bounds, TypeOK,
             AgentStates, Statuses
  <2>2. exhausted' \subseteq 1 .. runs
    BY <1>5 DEF TurnLimit, agentVars, batchVars, diskVars, bounds, TypeOK,
             ProcessInv, HasRun
  <2>. QED
    BY <1>5, <2>1, <2>2 DEF TurnLimit, agentVars, batchVars, diskVars,
             bounds, TypeOK, PCs
<1>6. CASE FinalizeVerified
  <2>1. state' \in AgentStates
    BY <1>6, TurnType DEF FinalizeVerified, TypeOK, AgentStates
  <2>. QED
    BY <1>6, <2>1, NoProcessTypes DEF FinalizeVerified, MayDecide, batchVars,
             diskVars, history, bounds, Complete, TypeOK, PCs
<1>7. CASE ContextFails
  <2>1. state' \in AgentStates
    BY <1>7, FailType DEF ContextFails, TypeOK
  <2>. QED
    BY <1>7, <2>1 DEF ContextFails, MayDecide, FailRun, agentVars, batchVars,
             diskVars, history, bounds, TypeOK, PCs
<1>8. CASE Ask
  <2>1. state.tool_outputs \in Nat
    BY <1>8 DEF TypeOK, AgentStates
  <2>2. owed' \in Nat
    BY <1>8, <2>1 DEF Ask, MayDecide, ChatOwed, agentVars, batchVars,
             diskVars, history, bounds, TypeOK, OutputsInv
  <2>. QED
    BY <1>8, <2>1, <2>2 DEF Ask, MayDecide, ChatOwed, agentVars, batchVars,
             diskVars, history, bounds, TypeOK, PCs
<1>9. CASE ProviderFails
  <2>1. state' \in AgentStates
    BY <1>9, FailType DEF ProviderFails, TypeOK
  <2>. QED
    BY <1>9, <2>1 DEF ProviderFails, FailRun, agentVars, batchVars, diskVars,
             history, bounds, TypeOK, PCs
<1>10. CASE ReceiveCalls
  <2>1. state' \in AgentStates
    BY <1>10 DEF ReceiveCalls, OutputsAfterResponse, agentVars, diskVars,
             history, bounds, TypeOK, AgentStates
  <2>2. batch' \in Nat /\ todo' \in Nat /\ owed' \in Nat
    BY <1>10, ConstantsAssumption DEF ReceiveCalls, OutputsAfterResponse,
             agentVars, diskVars, history, bounds, TypeOK
  <2>. QED
    BY <1>10, <2>1, <2>2 DEF ReceiveCalls, OutputsAfterResponse, agentVars,
             diskVars, history, bounds, TypeOK, PCs
<1>11. CASE ReceiveDraft
  <2>1. state' \in AgentStates
    BY <1>11 DEF ReceiveDraft, TextReceived, MustVerify,
             OutputsAfterResponse, agentVars, batchVars, diskVars, history,
             bounds, TypeOK, AgentStates
  <2>. QED
    BY <1>11, <2>1 DEF ReceiveDraft, TextReceived, MustVerify,
             OutputsAfterResponse, agentVars, batchVars, diskVars, history,
             bounds, TypeOK, PCs
<1>12. CASE ReceivePlan
  <2>1. state' \in AgentStates
    BY <1>12, TurnType DEF ReceivePlan, OutputsAfterResponse, TypeOK,
             AgentStates
  <2>. QED
    BY <1>12, <2>1 DEF ReceivePlan, TextReceived, MustVerify,
             OutputsAfterResponse, agentVars, batchVars, diskVars, history,
             bounds, Continue, TypeOK, PCs
<1>13. CASE ReceiveAnswer
  <2>1. state' \in AgentStates
    BY <1>13, TurnType DEF ReceiveAnswer, OutputsAfterResponse, TypeOK,
             AgentStates
  <2>. QED
    BY <1>13, <2>1 DEF ReceiveAnswer, TextReceived, MustVerify, agentVars,
             batchVars, diskVars, history, bounds, Complete, TypeOK, PCs
<1>14. CASE RunTool
  <2>1. state.run \in 1 .. runs
    BY <1>14 DEF RunTool, ProcessInv, HasRun
  <2>2. unverified' \subseteq 1 .. runs
    BY <1>14, <2>1 DEF RunTool, Edit, TypeOK
  <2>3. todo' \in Nat
    BY <1>14 DEF RunTool, TypeOK
  <2>4. wrote' \in BOOLEAN
    BY <1>14 DEF RunTool, Edit, TypeOK
  <2>. QED
    BY <1>14, <2>1, <2>2, <2>3, <2>4 DEF RunTool, Edit, agentVars, diskVars,
             bounds, TypeOK, PCs
<1>15. CASE FinishTools
  <2>1. state' \in AgentStates
    BY <1>15, TurnType DEF FinishTools, TypeOK, AgentStates
  <2>. QED
    BY <1>15, <2>1 DEF FinishTools, DirtyAfterBatch, batchVars, diskVars,
             history, bounds, Continue, TypeOK, PCs
<1>16. CASE VerifyPasses
  <2>1. state' \in AgentStates
    BY <1>16, TurnType DEF VerifyPasses, TypeOK, AgentStates
  <2>2. finalText' \in RunIds
    BY <1>16 DEF VerifyPasses, batchVars, diskVars, bounds, Continue, TypeOK,
             AgentStates
  <2>. QED
    BY <1>16, <2>1, <2>2 DEF VerifyPasses, batchVars, diskVars, bounds,
             Continue, TypeOK, PCs
<1>17. CASE VerifyFails
  <2>1. state' \in AgentStates
    BY <1>17, TurnType DEF VerifyFails, TypeOK, AgentStates
  <2>. QED
    BY <1>17, <2>1 DEF VerifyFails, agentVars, batchVars, diskVars, history,
             bounds, Continue, TypeOK, PCs
<1>18. CASE VerifierRaises
  <2>1. state' \in AgentStates
    BY <1>18, FailType DEF VerifierRaises, TypeOK
  <2>. QED
    BY <1>18, <2>1 DEF VerifierRaises, FailRun, agentVars, batchVars,
             diskVars, history, bounds, TypeOK, PCs
<1>19. CASE SaveResult
  <2>1. record' \in Records
    BY <1>19 DEF SaveResult, TypeOK, AgentStates, Records
  <2>2. CASE state.status = "completed"
    <3>1. End /\ UNCHANGED <<config, checkpoint, history, bounds>>
      BY <1>19, <2>2 DEF SaveResult
    <3>. QED
      BY <3>1, <2>1, NoProcessTypes DEF End, history, bounds, TypeOK, PCs
  <2>3. CASE state.status # "completed"
    BY <1>19, <2>1, <2>3
    DEF SaveResult, agentVars, batchVars, history, bounds, TypeOK, PCs
  <2>. QED
    BY <2>2, <2>3
<1>20. CASE SaveCheckpoint
  <2>1. /\ state.run \in RunIds /\ state.turn_count \in Nat
        /\ state.error \in BOOLEAN
    BY DEF TypeOK, AgentStates
  <2>2. checkpoint' \in Checkpoints
    BY <1>20, <2>1, BudgetType DEF SaveCheckpoint, TypeOK, Checkpoints
  <2>. QED
    BY <1>20, <2>1, <2>2, NoProcessTypes DEF SaveCheckpoint, End, history,
             bounds, TypeOK, PCs
<1>21. CASE UNCHANGED vars
  BY <1>21
  DEF vars, TypeOK
<1>22. QED
  BY <1>1, <1>2, <1>3, <1>4, <1>5, <1>6, <1>7, <1>8, <1>9, <1>10, <1>11,
     <1>12, <1>13, <1>14, <1>15, <1>16, <1>17, <1>18, <1>19, <1>20, <1>21
  DEF Next, LoopStep, SaveStep

-----------------------------------------------------------------------------
(* The other parts of the invariant, one lemma for each.                   *)

\* The parts of the process keep agreeing with each other.
LEMMA ProcessStep ==
  ASSUME IInv, [Next]_vars
  PROVE  ProcessInv'
<1> USE ConstantsAssumption DEF IInv, TypeOK, Statuses, AgentStates,
             AgentObjects, PCs, Configs, Checkpoints, ProcessInv, HasRun,
             InLoop, CheckpointInv, NoCheckpoint, NoState, NoAgent
<1>1. CASE NewProcess
  BY <1>1 DEF NewProcess, agentVars, batchVars, diskVars, history
<1>2. CASE StartRun
  BY <1>2, RunNumbers, ConstantsAssumption DEF StartRun, RunState, agentVars,
             batchVars, diskVars, history
<1>3. CASE Resume
  BY <1>3 DEF Resume, RunState, ResumedTurn, agentVars, batchVars, diskVars,
             history, bounds
<1>4. CASE Crash
  BY <1>4 DEF Crash, End, diskVars, history, bounds
<1>5. CASE TurnLimit
  BY <1>5 DEF TurnLimit, agentVars, batchVars, diskVars, bounds
<1>6. CASE FinalizeVerified
  BY <1>6 DEF FinalizeVerified, MayDecide, Complete, EndTurn, batchVars,
             diskVars, history, bounds
<1>7. CASE ContextFails
  BY <1>7 DEF ContextFails, MayDecide, FailRun, agentVars, batchVars,
             diskVars, history, bounds
<1>8. CASE Ask
  BY <1>8 DEF Ask, MayDecide, ChatOwed, agentVars, batchVars, diskVars,
             history, bounds
<1>9. CASE ProviderFails
  BY <1>9 DEF ProviderFails, FailRun, agentVars, batchVars, diskVars,
             history, bounds
<1>10. CASE ReceiveCalls
  BY <1>10 DEF ReceiveCalls, OutputsAfterResponse, agentVars, diskVars,
             history, bounds
<1>11. CASE ReceiveDraft
  BY <1>11 DEF ReceiveDraft, TextReceived, MustVerify, OutputsAfterResponse,
             agentVars, batchVars, diskVars, history, bounds
<1>12. CASE ReceivePlan
  BY <1>12 DEF ReceivePlan, TextReceived, MustVerify, OutputsAfterResponse,
             Continue, EndTurn, agentVars, batchVars, diskVars, history,
             bounds
<1>13. CASE ReceiveAnswer
  BY <1>13 DEF ReceiveAnswer, TextReceived, MustVerify, Complete, EndTurn,
             agentVars, batchVars, diskVars, history, bounds
<1>14. CASE RunTool
  BY <1>14 DEF RunTool, Edit, agentVars, diskVars, bounds
<1>15. CASE FinishTools
  BY <1>15 DEF FinishTools, DirtyAfterBatch, Continue, EndTurn, batchVars,
             diskVars, history, bounds
<1>16. CASE VerifyPasses
  BY <1>16 DEF VerifyPasses, Continue, EndTurn, batchVars, diskVars, bounds
<1>17. CASE VerifyFails
  BY <1>17 DEF VerifyFails, Continue, EndTurn, agentVars, batchVars,
             diskVars, history, bounds
<1>18. CASE VerifierRaises
  BY <1>18 DEF VerifierRaises, FailRun, agentVars, batchVars, diskVars,
             history, bounds
<1>19. CASE SaveResult
  BY <1>19 DEF SaveResult, End, agentVars, batchVars, history, bounds
<1>20. CASE SaveCheckpoint
  BY <1>20 DEF SaveCheckpoint, End, history, bounds
<1>21. CASE UNCHANGED vars
  BY <1>21 DEF vars
<1>22. QED
  BY <1>1, <1>2, <1>3, <1>4, <1>5, <1>6, <1>7, <1>8, <1>9, <1>10, <1>11,
     <1>12, <1>13, <1>14, <1>15, <1>16, <1>17, <1>18, <1>19, <1>20, <1>21
  DEF Next, LoopStep, SaveStep

\* No step takes the running task behind its checkpoint.
LEMMA CheckpointStep ==
  ASSUME IInv, [Next]_vars
  PROVE  CheckpointInv'
<1> USE ConstantsAssumption DEF IInv, TypeOK, Statuses, AgentStates,
             AgentObjects, PCs, Configs, Checkpoints, ProcessInv, HasRun,
             CheckpointInv, NoCheckpoint
<1>1. CASE NewProcess
  BY <1>1 DEF NewProcess, NoAgent, agentVars, batchVars, diskVars, history
<1>2. CASE StartRun
  BY <1>2, RunNumbers, ConstantsAssumption DEF StartRun, RunState, agentVars,
             batchVars, diskVars, history
<1>3. CASE Resume
  BY <1>3 DEF Resume, RunState, ResumedTurn, agentVars, batchVars, diskVars,
             history, bounds
<1>4. CASE Crash
  BY <1>4 DEF Crash, End, NoAgent, NoState, diskVars, history, bounds
<1>5. CASE TurnLimit
  BY <1>5 DEF TurnLimit, agentVars, batchVars, diskVars, bounds
<1>6. CASE FinalizeVerified
  BY <1>6 DEF FinalizeVerified, MayDecide, Complete, EndTurn, batchVars,
             diskVars, history, bounds
<1>7. CASE ContextFails
  BY <1>7 DEF ContextFails, MayDecide, FailRun, agentVars, batchVars,
             diskVars, history, bounds
<1>8. CASE Ask
  BY <1>8 DEF Ask, MayDecide, ChatOwed, agentVars, batchVars, diskVars,
             history, bounds
<1>9. CASE ProviderFails
  BY <1>9 DEF ProviderFails, FailRun, agentVars, batchVars, diskVars,
             history, bounds
<1>10. CASE ReceiveCalls
  BY <1>10 DEF ReceiveCalls, OutputsAfterResponse, agentVars, diskVars,
             history, bounds
<1>11. CASE ReceiveDraft
  BY <1>11 DEF ReceiveDraft, TextReceived, MustVerify, OutputsAfterResponse,
             agentVars, batchVars, diskVars, history, bounds
<1>12. CASE ReceivePlan
  BY <1>12 DEF ReceivePlan, TextReceived, MustVerify, OutputsAfterResponse,
             Continue, EndTurn, agentVars, batchVars, diskVars, history,
             bounds
<1>13. CASE ReceiveAnswer
  BY <1>13 DEF ReceiveAnswer, TextReceived, MustVerify, Complete, EndTurn,
             agentVars, batchVars, diskVars, history, bounds
<1>14. CASE RunTool
  BY <1>14 DEF RunTool, Edit, agentVars, diskVars, bounds
<1>15. CASE FinishTools
  BY <1>15 DEF FinishTools, DirtyAfterBatch, Continue, EndTurn, batchVars,
             diskVars, history, bounds
<1>16. CASE VerifyPasses
  BY <1>16 DEF VerifyPasses, Continue, EndTurn, batchVars, diskVars, bounds
<1>17. CASE VerifyFails
  BY <1>17 DEF VerifyFails, Continue, EndTurn, agentVars, batchVars,
             diskVars, history, bounds
<1>18. CASE VerifierRaises
  BY <1>18 DEF VerifierRaises, FailRun, agentVars, batchVars, diskVars,
             history, bounds
<1>19. CASE SaveResult
  BY <1>19 DEF SaveResult, End, NoAgent, NoState, agentVars, batchVars,
             history, bounds
<1>20. CASE SaveCheckpoint
  BY <1>20 DEF SaveCheckpoint, End, NoAgent, NoState, history, bounds
<1>21. CASE UNCHANGED vars
  BY <1>21 DEF vars
<1>22. QED
  BY <1>1, <1>2, <1>3, <1>4, <1>5, <1>6, <1>7, <1>8, <1>9, <1>10, <1>11,
     <1>12, <1>13, <1>14, <1>15, <1>16, <1>17, <1>18, <1>19, <1>20, <1>21
  DEF Next, LoopStep, SaveStep

\* The text of a passed verification is spent before anything is edited.
LEMMA FinalTextStep ==
  ASSUME IInv, [Next]_vars
  PROVE  FinalTextInv'
<1> USE DEF IInv, TypeOK, Statuses, AgentStates, AgentObjects, PCs, Configs,
            Checkpoints, FinalTextInv, ProcessInv, HasRun
<1>1. CASE NewProcess
  BY <1>1 DEF NewProcess, NoAgent, agentVars, batchVars, diskVars, history
<1>2. CASE StartRun
  BY <1>2, RunNumbers, ConstantsAssumption DEF StartRun, RunState, agentVars,
             batchVars, diskVars, history
<1>3. CASE Resume
  BY <1>3 DEF Resume, RunState, ResumedTurn, agentVars, batchVars, diskVars,
             history, bounds
<1>4. CASE Crash
  BY <1>4 DEF Crash, End, NoAgent, NoState, diskVars, history, bounds
<1>5. CASE TurnLimit
  BY <1>5 DEF TurnLimit, agentVars, batchVars, diskVars, bounds
<1>6. CASE FinalizeVerified
  BY <1>6 DEF FinalizeVerified, MayDecide, Complete, EndTurn, batchVars,
             diskVars, history, bounds
<1>7. CASE ContextFails
  BY <1>7 DEF ContextFails, MayDecide, FailRun, agentVars, batchVars,
             diskVars, history, bounds
<1>8. CASE Ask
  BY <1>8 DEF Ask, MayDecide, ChatOwed, agentVars, batchVars, diskVars,
             history, bounds
<1>9. CASE ProviderFails
  BY <1>9 DEF ProviderFails, FailRun, agentVars, batchVars, diskVars,
             history, bounds
<1>10. CASE ReceiveCalls
  BY <1>10 DEF ReceiveCalls, OutputsAfterResponse, agentVars, diskVars,
             history, bounds
<1>11. CASE ReceiveDraft
  BY <1>11 DEF ReceiveDraft, TextReceived, MustVerify, OutputsAfterResponse,
             agentVars, batchVars, diskVars, history, bounds
<1>12. CASE ReceivePlan
  BY <1>12 DEF ReceivePlan, TextReceived, MustVerify, OutputsAfterResponse,
             Continue, EndTurn, agentVars, batchVars, diskVars, history,
             bounds
<1>13. CASE ReceiveAnswer
  BY <1>13 DEF ReceiveAnswer, TextReceived, MustVerify, Complete, EndTurn,
             agentVars, batchVars, diskVars, history, bounds
<1>14. CASE RunTool
  BY <1>14 DEF RunTool, Edit, agentVars, diskVars, bounds
<1>15. CASE FinishTools
  BY <1>15 DEF FinishTools, DirtyAfterBatch, Continue, EndTurn, batchVars,
             diskVars, history, bounds
<1>16. CASE VerifyPasses
  BY <1>16 DEF VerifyPasses, Continue, EndTurn, batchVars, diskVars, bounds
<1>17. CASE VerifyFails
  BY <1>17 DEF VerifyFails, Continue, EndTurn, agentVars, batchVars,
             diskVars, history, bounds
<1>18. CASE VerifierRaises
  BY <1>18 DEF VerifierRaises, FailRun, agentVars, batchVars, diskVars,
             history, bounds
<1>19. CASE SaveResult
  BY <1>19 DEF SaveResult, End, NoAgent, NoState, agentVars, batchVars,
             history, bounds
<1>20. CASE SaveCheckpoint
  BY <1>20 DEF SaveCheckpoint, End, NoAgent, NoState, history, bounds
<1>21. CASE UNCHANGED vars
  BY <1>21 DEF vars
<1>22. QED
  BY <1>1, <1>2, <1>3, <1>4, <1>5, <1>6, <1>7, <1>8, <1>9, <1>10, <1>11,
     <1>12, <1>13, <1>14, <1>15, <1>16, <1>17, <1>18, <1>19, <1>20, <1>21
  DEF Next, LoopStep, SaveStep

\* Every step that edits is seen by _dirty at the latest when its batch ends.
LEMMA DirtyStep ==
  ASSUME IInv, [Next]_vars
  PROVE  DirtyInv'
<1> USE DEF IInv, TypeOK, Statuses, AgentStates, AgentObjects, PCs, Configs,
            Checkpoints, DirtyInv, FinalTextInv, ProcessInv, HasRun, NoState
<1>1. CASE NewProcess
  BY <1>1 DEF NewProcess, NoAgent, agentVars, batchVars, diskVars, history
<1>2. CASE StartRun
  BY <1>2, RunNumbers, ConstantsAssumption DEF StartRun, RunState, agentVars,
             batchVars, diskVars, history
<1>3. CASE Resume
  BY <1>3 DEF Resume, RunState, ResumedTurn, agentVars, batchVars, diskVars,
             history, bounds
<1>4. CASE Crash
  BY <1>4 DEF Crash, End, NoAgent, diskVars, history, bounds
<1>5. CASE TurnLimit
  BY <1>5 DEF TurnLimit, agentVars, batchVars, diskVars, bounds
<1>6. CASE FinalizeVerified
  BY <1>6 DEF FinalizeVerified, MayDecide, Complete, EndTurn, batchVars,
             diskVars, history, bounds
<1>7. CASE ContextFails
  BY <1>7 DEF ContextFails, MayDecide, FailRun, agentVars, batchVars,
             diskVars, history, bounds
<1>8. CASE Ask
  BY <1>8 DEF Ask, MayDecide, ChatOwed, agentVars, batchVars, diskVars,
             history, bounds
<1>9. CASE ProviderFails
  BY <1>9 DEF ProviderFails, FailRun, agentVars, batchVars, diskVars,
             history, bounds
<1>10. CASE ReceiveCalls
  BY <1>10 DEF ReceiveCalls, OutputsAfterResponse, agentVars, diskVars,
             history, bounds
<1>11. CASE ReceiveDraft
  BY <1>11 DEF ReceiveDraft, TextReceived, MustVerify, OutputsAfterResponse,
             agentVars, batchVars, diskVars, history, bounds
<1>12. CASE ReceivePlan
  BY <1>12 DEF ReceivePlan, TextReceived, MustVerify, OutputsAfterResponse,
             Continue, EndTurn, agentVars, batchVars, diskVars, history,
             bounds
<1>13. CASE ReceiveAnswer
  BY <1>13 DEF ReceiveAnswer, TextReceived, MustVerify, Complete, EndTurn,
             agentVars, batchVars, diskVars, history, bounds
<1>14. CASE RunTool
  BY <1>14 DEF RunTool, Edit, agentVars, diskVars, bounds
<1>15. CASE FinishTools
  BY <1>15 DEF FinishTools, DirtyAfterBatch, Continue, EndTurn, batchVars,
             diskVars, history, bounds
<1>16. CASE VerifyPasses
  BY <1>16 DEF VerifyPasses, Continue, EndTurn, batchVars, diskVars, bounds
<1>17. CASE VerifyFails
  BY <1>17 DEF VerifyFails, Continue, EndTurn, agentVars, batchVars,
             diskVars, history, bounds
<1>18. CASE VerifierRaises
  BY <1>18 DEF VerifierRaises, FailRun, agentVars, batchVars, diskVars,
             history, bounds
<1>19. CASE SaveResult
  BY <1>19 DEF SaveResult, End, NoAgent, agentVars, batchVars, history,
             bounds
<1>20. CASE SaveCheckpoint
  BY <1>20 DEF SaveCheckpoint, End, NoAgent, history, bounds
<1>21. CASE UNCHANGED vars
  BY <1>21 DEF vars
<1>22. QED
  BY <1>1, <1>2, <1>3, <1>4, <1>5, <1>6, <1>7, <1>8, <1>9, <1>10, <1>11,
     <1>12, <1>13, <1>14, <1>15, <1>16, <1>17, <1>18, <1>19, <1>20, <1>21
  DEF Next, LoopStep, SaveStep

\* No step gains an output without a call.
LEMMA OutputsStep ==
  ASSUME IInv, [Next]_vars
  PROVE  OutputsInv'
<1> USE DEF IInv, TypeOK, Statuses, AgentStates, AgentObjects, PCs, Configs,
            Checkpoints, OutputsInv, ProcessInv
<1>1. CASE NewProcess
  BY <1>1 DEF NewProcess, NoAgent, agentVars, batchVars, diskVars, history
<1>2. CASE StartRun
  BY <1>2, RunNumbers, ConstantsAssumption DEF StartRun, RunState, agentVars,
             batchVars, diskVars, history
<1>3. CASE Resume
  BY <1>3 DEF Resume, RunState, ResumedTurn, agentVars, batchVars, diskVars,
             history, bounds
<1>4. CASE Crash
  BY <1>4 DEF Crash, End, NoAgent, NoState, diskVars, history, bounds
<1>5. CASE TurnLimit
  BY <1>5 DEF TurnLimit, agentVars, batchVars, diskVars, bounds
<1>6. CASE FinalizeVerified
  BY <1>6 DEF FinalizeVerified, MayDecide, Complete, EndTurn, batchVars,
             diskVars, history, bounds
<1>7. CASE ContextFails
  BY <1>7 DEF ContextFails, MayDecide, FailRun, agentVars, batchVars,
             diskVars, history, bounds
<1>8. CASE Ask
  BY <1>8 DEF Ask, MayDecide, ChatOwed, agentVars, batchVars, diskVars,
             history, bounds
<1>9. CASE ProviderFails
  BY <1>9 DEF ProviderFails, FailRun, agentVars, batchVars, diskVars,
             history, bounds
<1>10. CASE ReceiveCalls
  BY <1>10 DEF ReceiveCalls, OutputsAfterResponse, agentVars, diskVars,
             history, bounds
<1>11. CASE ReceiveDraft
  BY <1>11 DEF ReceiveDraft, TextReceived, MustVerify, OutputsAfterResponse,
             agentVars, batchVars, diskVars, history, bounds
<1>12. CASE ReceivePlan
  BY <1>12 DEF ReceivePlan, TextReceived, MustVerify, OutputsAfterResponse,
             Continue, EndTurn, agentVars, batchVars, diskVars, history,
             bounds
<1>13. CASE ReceiveAnswer
  BY <1>13 DEF ReceiveAnswer, TextReceived, MustVerify, Complete, EndTurn,
             agentVars, batchVars, diskVars, history, bounds
<1>14. CASE RunTool
  BY <1>14 DEF RunTool, Edit, agentVars, diskVars, bounds
<1>15. CASE FinishTools
  BY <1>15 DEF FinishTools, DirtyAfterBatch, Continue, EndTurn, batchVars,
             diskVars, history, bounds
<1>16. CASE VerifyPasses
  BY <1>16 DEF VerifyPasses, Continue, EndTurn, batchVars, diskVars, bounds
<1>17. CASE VerifyFails
  BY <1>17 DEF VerifyFails, Continue, EndTurn, agentVars, batchVars,
             diskVars, history, bounds
<1>18. CASE VerifierRaises
  BY <1>18 DEF VerifierRaises, FailRun, agentVars, batchVars, diskVars,
             history, bounds
<1>19. CASE SaveResult
  BY <1>19 DEF SaveResult, End, NoAgent, NoState, agentVars, batchVars,
             history, bounds
<1>20. CASE SaveCheckpoint
  BY <1>20 DEF SaveCheckpoint, End, NoAgent, NoState, history, bounds
<1>21. CASE UNCHANGED vars
  BY <1>21 DEF vars
<1>22. QED
  BY <1>1, <1>2, <1>3, <1>4, <1>5, <1>6, <1>7, <1>8, <1>9, <1>10, <1>11,
     <1>12, <1>13, <1>14, <1>15, <1>16, <1>17, <1>18, <1>19, <1>20, <1>21
  DEF Next, LoopStep, SaveStep

\* No step loses an output of a call that is still unanswered.
LEMMA LinkedStep ==
  ASSUME IInv, [Next]_vars
  PROVE  LinkedInv'
<1> USE DEF IInv, TypeOK, Statuses, AgentStates, AgentObjects, PCs, Configs,
            Checkpoints, LinkedInv, Linked, CallsAnswered, ProcessInv,
            HasRun, InLoop, OutputsInv, CheckpointInv, NoCheckpoint, NoState
<1>1. CASE NewProcess
  BY <1>1 DEF NewProcess, NoAgent, agentVars, batchVars, diskVars, history
<1>2. CASE StartRun
  BY <1>2, RunNumbers, ConstantsAssumption DEF StartRun, RunState, agentVars,
             batchVars, diskVars, history
<1>3. CASE Resume
  BY <1>3 DEF Resume, RunState, ResumedTurn, agentVars, batchVars, diskVars,
             history, bounds
<1>4. CASE Crash
  BY <1>4 DEF Crash, End, NoAgent, diskVars, history, bounds
<1>5. CASE TurnLimit
  BY <1>5 DEF TurnLimit, agentVars, batchVars, diskVars, bounds
<1>6. CASE FinalizeVerified
  BY <1>6 DEF FinalizeVerified, MayDecide, Complete, EndTurn, batchVars,
             diskVars, history, bounds
<1>7. CASE ContextFails
  BY <1>7 DEF ContextFails, MayDecide, FailRun, agentVars, batchVars,
             diskVars, history, bounds
<1>8. CASE Ask
  BY <1>8 DEF Ask, MayDecide, ChatOwed, agentVars, batchVars, diskVars,
             history, bounds
<1>9. CASE ProviderFails
  BY <1>9 DEF ProviderFails, FailRun, agentVars, batchVars, diskVars,
             history, bounds
<1>10. CASE ReceiveCalls
  BY <1>10 DEF ReceiveCalls, OutputsAfterResponse, agentVars, diskVars,
             history, bounds
<1>11. CASE ReceiveDraft
  BY <1>11 DEF ReceiveDraft, TextReceived, MustVerify, OutputsAfterResponse,
             agentVars, batchVars, diskVars, history, bounds
<1>12. CASE ReceivePlan
  BY <1>12 DEF ReceivePlan, TextReceived, MustVerify, OutputsAfterResponse,
             Continue, EndTurn, agentVars, batchVars, diskVars, history,
             bounds
<1>13. CASE ReceiveAnswer
  BY <1>13 DEF ReceiveAnswer, TextReceived, MustVerify, Complete, EndTurn,
             agentVars, batchVars, diskVars, history, bounds
<1>14. CASE RunTool
  BY <1>14 DEF RunTool, Edit, agentVars, diskVars, bounds
<1>15. CASE FinishTools
  BY <1>15 DEF FinishTools, DirtyAfterBatch, Continue, EndTurn, batchVars,
             diskVars, history, bounds
<1>16. CASE VerifyPasses
  BY <1>16 DEF VerifyPasses, Continue, EndTurn, batchVars, diskVars, bounds
<1>17. CASE VerifyFails
  BY <1>17 DEF VerifyFails, Continue, EndTurn, agentVars, batchVars,
             diskVars, history, bounds
<1>18. CASE VerifierRaises
  BY <1>18 DEF VerifierRaises, FailRun, agentVars, batchVars, diskVars,
             history, bounds
<1>19. CASE SaveResult
  BY <1>19 DEF SaveResult, End, NoAgent, agentVars, batchVars, history,
             bounds
<1>20. CASE SaveCheckpoint
  BY <1>20 DEF SaveCheckpoint, End, NoAgent, history, bounds
<1>21. CASE UNCHANGED vars
  BY <1>21 DEF vars
<1>22. QED
  BY <1>1, <1>2, <1>3, <1>4, <1>5, <1>6, <1>7, <1>8, <1>9, <1>10, <1>11,
     <1>12, <1>13, <1>14, <1>15, <1>16, <1>17, <1>18, <1>19, <1>20, <1>21
  DEF Next, LoopStep, SaveStep

-----------------------------------------------------------------------------
(* The invariant holds, and what follows from it.                          *)

\* The invariant holds in a new session.
LEMMA InitInv == Init => IInv
<1>1. SUFFICES ASSUME Init PROVE IInv
  OBVIOUS
<1>2. "pending" \in Statuses /\ 0 \in RunIds
  BY ConstantsAssumption DEF Statuses, RunIds
<1>3. TypeOK
  BY <1>1, <1>2, NoProcessTypes
  DEF Init, TypeOK, PCs, NoRecord, Records, NoCheckpoint, Checkpoints
<1>4. ProcessInv /\ CheckpointInv
  BY <1>1
  DEF Init, ProcessInv, CheckpointInv, HasRun, InLoop, NoState, NoCheckpoint
<1>5. FinalTextInv /\ DirtyInv /\ OutputsInv
  BY <1>1 DEF Init, FinalTextInv, DirtyInv, OutputsInv, NoState
<1>6. LinkedInv
  BY <1>1 DEF Init, LinkedInv, NoCheckpoint
<1>. QED
  BY <1>3, <1>4, <1>5, <1>6 DEF IInv

\* Every step of the loop, of the CLI and of a crash keeps it.
LEMMA StepInv == IInv /\ [Next]_vars => IInv'
<1>1. SUFFICES ASSUME IInv, [Next]_vars PROVE IInv'
  OBVIOUS
<1>. QED
  BY <1>1, TypeStep, ProcessStep, CheckpointStep, FinalTextStep, DirtyStep,
     OutputsStep, LinkedStep
  DEF IInv

\* All parts of the invariant hold in every reachable state, for any budgets,
\* batch sizes, number of runs and of processes.
THEOREM InvariantHolds == Spec => []IInv
<1>1. Init => IInv
  BY InitInv
<1>2. IInv /\ [Next]_vars => IInv'
  BY StepInv
<1>. QED
  BY <1>1, <1>2, PTL DEF Spec

\* Every variable keeps its type; in particular the outputs appended to the
\* chat message list never outnumber the calls they answer (owed \in Nat).
THEOREM TypeCorrect == Spec => []TypeOK
<1>1. IInv => TypeOK
  BY DEF IInv
<1>. QED
  BY <1>1, InvariantHolds, PTL

\* No Agent that resumed nothing and edits through the write tools completes a
\* run over an unverified edit, over all its runs and verifications.
THEOREM EditsAreVerified == Spec => []FreshRunVerifies
<1>1. IInv => FreshRunVerifies
  BY DEF IInv, FreshRunVerifies, EditsVerified, ProcessInv, DirtyInv, HasRun,
         InLoop, NoState
<1>. QED
  BY <1>1, InvariantHolds, PTL

\* The requests of Agents that resumed nothing, and of resumed chat runs,
\* answer every call of the conversation they continue.
THEOREM CallsAreAnswered == Spec => []RequestsAnswerCalls
<1>1. IInv => RequestsAnswerCalls
  BY DEF IInv, RequestsAnswerCalls, LinkedInv, Linked
<1>. QED
  BY <1>1, InvariantHolds, PTL

\* A saved checkpoint of a run is never replaced by one that is behind it.
THEOREM CheckpointsAdvance == Spec => CheckpointAdvances
<1>1. IInv /\ [Next]_vars =>
        [checkpoint'.run = checkpoint.run
           => checkpoint'.turn_count >= checkpoint.turn_count]_vars
  <2>1. SUFFICES ASSUME IInv, [Next]_vars, checkpoint'.run = checkpoint.run
                 PROVE  checkpoint'.turn_count >= checkpoint.turn_count
    OBVIOUS
  <2>2. CASE checkpoint' = checkpoint
    BY <2>1, <2>2 DEF IInv, TypeOK, Checkpoints
  <2>3. CASE SaveCheckpoint
    <3>1. HasRun /\ checkpoint.run = state.run
      BY <2>1, <2>3 DEF SaveCheckpoint, HasRun
    <3>. QED
      BY <2>1, <2>3, <3>1 DEF IInv, CheckpointInv, SaveCheckpoint
  <2>. QED
    BY <2>1, <2>2, <2>3
    DEF Next, LoopStep, SaveStep, vars, diskVars, NewProcess, StartRun,
        Resume, Crash, TurnLimit, FinalizeVerified, ContextFails, Ask,
        ProviderFails, ReceiveCalls, ReceiveDraft, ReceivePlan,
        ReceiveAnswer, RunTool, FinishTools, VerifyPasses, VerifyFails,
        VerifierRaises, SaveResult
<1>. QED
  BY <1>1, InvariantHolds, PTL DEF Spec, CheckpointAdvances

\* Every step of the loop is a step of the abstract run, or none of its
\* business.
LEMMA StepRefines ==
  ASSUME IInv, [Next]_vars
  PROVE  [B!Next]_(B!vars)
<1> USE DEF IInv, TypeOK, AgentStates, ProcessInv, CheckpointInv,
            NoCheckpoint, HasRun, InLoop, B!vars, B!Next
<1>1. CASE NewProcess
  BY <1>1 DEF NewProcess
<1>2. CASE StartRun
  BY <1>2 DEF StartRun, RunState, B!Begin, B!Resting
<1>3. CASE Resume
  BY <1>3 DEF Resume, ResumedTurn, RunState, B!Begin, B!Resting, Checkpoints
<1>4. CASE Crash
  BY <1>4 DEF Crash, End, NoState, B!Forget
<1>5. CASE TurnLimit
  BY <1>5 DEF TurnLimit, B!Exhaust
<1>6. CASE FinalizeVerified
  BY <1>6 DEF FinalizeVerified, MayDecide, Complete, EndTurn, B!Decide
<1>7. CASE ContextFails
  BY <1>7 DEF ContextFails, MayDecide, FailRun, B!Fail
<1>8. CASE Ask
  BY <1>8 DEF Ask, MayDecide
<1>9. CASE ProviderFails
  BY <1>9 DEF ProviderFails, FailRun, B!Fail
<1>10. CASE ReceiveCalls
  BY <1>10 DEF ReceiveCalls, OutputsAfterResponse
<1>11. CASE ReceiveDraft
  BY <1>11 DEF ReceiveDraft, OutputsAfterResponse, TextReceived
<1>12. CASE ReceivePlan
  BY <1>12 DEF ReceivePlan, OutputsAfterResponse, Continue, EndTurn,
             TextReceived, B!Decide
<1>13. CASE ReceiveAnswer
  BY <1>13 DEF ReceiveAnswer, Complete, EndTurn, TextReceived, B!Decide
<1>14. CASE RunTool
  BY <1>14 DEF RunTool, Edit
<1>15. CASE FinishTools
  BY <1>15 DEF FinishTools, Continue, EndTurn, B!Decide
<1>16. CASE VerifyPasses
  BY <1>16 DEF VerifyPasses, Continue, EndTurn, B!Decide
<1>17. CASE VerifyFails
  BY <1>17 DEF VerifyFails, Continue, EndTurn, B!Decide
<1>18. CASE VerifierRaises
  BY <1>18 DEF VerifierRaises, FailRun, B!Fail
<1>19. CASE SaveResult
  BY <1>19 DEF SaveResult, End, NoState, B!Forget
<1>20. CASE SaveCheckpoint
  BY <1>20 DEF SaveCheckpoint, End, NoState, B!Forget
<1>21. CASE UNCHANGED vars
  BY <1>21 DEF vars
<1>22. QED
  BY <1>1, <1>2, <1>3, <1>4, <1>5, <1>6, <1>7, <1>8, <1>9, <1>10, <1>11,
     <1>12, <1>13, <1>14, <1>15, <1>16, <1>17, <1>18, <1>19, <1>20, <1>21
  DEF Next, LoopStep, SaveStep

\* The loop implements BoundedRun, but for its liveness: however many budgets,
\* runs and processes, a run takes one turn per decision, never more than its
\* budget, and a finished run is never reopened but by a new run or a resume.
THEOREM ImplementsBoundedRunSafety == Spec => B!Init /\ [][B!Next]_(B!vars)
<1>1. Init => B!Init
  BY DEF Init, HasRun, B!Init
<1>2. IInv /\ [Next]_vars => [B!Next]_(B!vars)
  BY StepRefines
<1>. QED
  BY <1>1, <1>2, InvariantHolds, PTL DEF Spec

=============================================================================
