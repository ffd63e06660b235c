----------------------------- MODULE AgentLoop ------------------------------
(***************************************************************************)
(* The agent loop of MiniClaudeCode: AgentController.run driven by         *)
(* LLMLoopDriver.next, inside an Agent whose process the CLI starts, saves *)
(* and resumes.  One session (one record file, one checkpoint file) is     *)
(* shared by the successive processes.  A turn is split where the process  *)
(* waits on something outside: the provider call, each tool call, the      *)
(* verifier; the process may die at any of these points.                   *)
(*                                                                         *)
(* A run is known by its number, which stands for its task.  Model text is *)
(* known by the run that produced it.  Tool calls are counted: what matters*)
(* of them here is whether they edit the workspace, whether the observation*)
(* says so, and whether their outputs reach the model.                     *)
(***************************************************************************)
EXTENDS Naturals

CONSTANTS
  Budgets,        \* values of max_turns an Agent is built with
  MaxCalls,       \* bound: tool calls in one model response
  MaxRuns,        \* bound: runs started over the history of the session
  MaxProcesses,   \* bound: processes started
  RunsPerAgent,   \* runs one Agent object executes (the CLI executes one)
  Apis,           \* "responses" (OpenAI Responses), "chat" (chat completions)
  HasSummarizer,  \* ContextConfig.summarizer is set, so a snapshot may raise
  SilentEdits     \* workspace edits with no successful write_file/replace_text
                  \* observation: "replace_text" without a read cache,
                  \* "execute_command"

ASSUME ConstantsAssumption ==
  /\ Budgets \subseteq Nat \ {0}
  /\ MaxCalls \in Nat \ {0}
  /\ MaxRuns \in Nat \ {0}
  /\ MaxProcesses \in Nat \ {0}
  /\ RunsPerAgent \in Nat \ {0}
  /\ Apis \subseteq {"responses", "chat"}
  /\ HasSummarizer \in BOOLEAN
  /\ SilentEdits \subseteq {"replace_text", "execute_command"}

VARIABLES
  config,       \* how the session's agents are configured; it never changes
  pc,           \* where the process is
  agent,        \* the Agent object: its controller's budget, its runs so far
  dirty,        \* LLMLoopDriver._dirty
  finalText,    \* LLMLoopDriver._final_text: 0 or the run it was produced in
  state,        \* AgentState of the current or last run
  sent,         \* tool outputs carried by the request in flight
  todo,         \* calls of the current batch not dispatched yet
  batch,        \* calls of the current batch
  wrote,        \* the batch has a successful write observation
  owed,         \* calls of the conversation that no request has answered
  record,       \* the session's saved result
  checkpoint,   \* the session's saved checkpoint
  unverified,   \* history: runs with an edit no passing verification covers
  exhausted,    \* history: runs stopped by their turn budget at least once
  runs,         \* runs started
  processes     \* processes started

agentVars == <<dirty, finalText>>
batchVars == <<todo, batch, wrote>>
diskVars  == <<record, checkpoint>>
bounds    == <<runs, processes>>
history   == <<unverified, exhausted>>
vars == <<config, pc, agent, dirty, finalText, state, sent, todo, batch, wrote,
          owed, record, checkpoint, unverified, exhausted, runs, processes>>

Statuses == {"pending", "running", "completed", "max_turns", "failed"}

PCs == {"off", "ready", "turn", "asked", "tools", "verify", "stopped", "saved"}

\* The loop of AgentController.run is on the stack.
InLoop == pc \in {"turn", "asked", "tools", "verify"}

\* verifier: --verify or --review; plan_first: the driver's default is TRUE.
Configs == [api : Apis, verifier : BOOLEAN, plan_first : BOOLEAN]

AgentObjects == [max_turns : Budgets \cup {0}, resumed : BOOLEAN, runs : Nat]

NoAgent == [max_turns |-> 0, resumed |-> FALSE, runs |-> 0]

RunIds == 0 .. MaxRuns

AgentStates ==
  [run : RunIds, status : Statuses, turn_count : Nat, max_turns : Nat,
   tool_outputs : Nat, output : RunIds, error : BOOLEAN]

\* AgentState(task, max_turns, status=RUNNING, turn_count, error)
RunState(run, budget, turn, error) ==
  [run |-> run, status |-> "running", turn_count |-> turn,
   max_turns |-> budget, tool_outputs |-> 0, output |-> 0, error |-> error]

NoState ==
  [run |-> 0, status |-> "pending", turn_count |-> 0, max_turns |-> 0,
   tool_outputs |-> 0, output |-> 0, error |-> FALSE]

NoRecord == [run |-> 0, status |-> "pending"]

NoCheckpoint ==
  [run |-> 0, turn_count |-> 0, max_turns |-> 0, error |-> FALSE, owed |-> 0]

Checkpoints ==
  [run : RunIds, turn_count : Nat, max_turns : Nat, error : BOOLEAN,
   owed : Nat]

Records == [run : RunIds, status : Statuses]

TypeOK ==
  /\ config \in Configs
  /\ pc \in PCs
  /\ agent \in AgentObjects
  /\ dirty \in BOOLEAN
  /\ finalText \in RunIds
  /\ state \in AgentStates
  /\ sent \in Nat
  /\ todo \in Nat
  /\ batch \in Nat
  /\ wrote \in BOOLEAN
  /\ owed \in Nat
  /\ record \in Records
  /\ checkpoint \in Checkpoints
  /\ unverified \subseteq 1 .. runs
  /\ exhausted \subseteq 1 .. runs
  /\ runs \in RunIds
  /\ processes \in Nat

Init ==
  /\ config \in Configs
  /\ pc = "off"
  /\ agent = NoAgent
  /\ dirty = FALSE
  /\ finalText = 0
  /\ state = NoState
  /\ sent = 0
  /\ todo = 0
  /\ batch = 0
  /\ wrote = FALSE
  /\ owed = 0
  /\ record = NoRecord
  /\ checkpoint = NoCheckpoint
  /\ unverified = {}
  /\ exhausted = {}
  /\ runs = 0
  /\ processes = 0

-----------------------------------------------------------------------------
(* Processes and runs.                                                     *)

\* The process ends: what is not on disk is gone.
End ==
  /\ pc' = "off"
  /\ agent' = NoAgent
  /\ dirty' = FALSE
  /\ finalText' = 0
  /\ state' = NoState
  /\ sent' = 0
  /\ todo' = 0
  /\ batch' = 0
  /\ wrote' = FALSE
  /\ owed' = 0

\* A process builds its provider and its Agent.
NewProcess ==
  /\ pc = "off"
  /\ processes < MaxProcesses
  /\ processes' = processes + 1
  /\ \E budget \in Budgets :
       agent' = [max_turns |-> budget, resumed |-> FALSE, runs |-> 0]
  /\ pc' = "ready"
  /\ UNCHANGED <<config, agentVars, state, sent, batchVars, owed, diskVars,
                 history, runs>>

\* Agent.run_result: a new AgentState; the driver object keeps what it has.
StartRun ==
  /\ pc \in {"ready", "stopped"}
  /\ agent.runs < RunsPerAgent
  /\ runs < MaxRuns
  /\ runs' = runs + 1
  /\ agent' = [agent EXCEPT !.runs = @ + 1]
  /\ state' = RunState(runs + 1, agent.max_turns, 0, FALSE)
  /\ owed' = IF config.api = "responses" THEN 0 ELSE owed
  /\ pc' = "turn"
  /\ UNCHANGED <<config, agentVars, sent, batchVars, diskVars, history,
                 processes>>

\* Mutant of ResumedTurn: the resumed run counts its turns from zero again.
RestartedTurn == 0

\* --resume: load_checkpoint, then Agent.resume with the checkpoint's task.
\* The budget is the checkpoint's; neither _dirty nor _final_text nor the
\* unanswered tool outputs are part of a checkpoint.
ResumedTurn == checkpoint.turn_count

Resume ==
  /\ pc = "ready"
  /\ checkpoint # NoCheckpoint
  /\ agent' = [agent EXCEPT !.resumed = TRUE, !.runs = @ + 1]
  /\ state' = RunState(checkpoint.run, checkpoint.max_turns, ResumedTurn,
                       checkpoint.error)
  /\ owed' = checkpoint.owed
  /\ pc' = "turn"
  /\ UNCHANGED <<config, agentVars, sent, batchVars, diskVars, history,
                 bounds>>

\* The process is killed or interrupted (KeyboardInterrupt is not an
\* Exception, so the loop does not catch it).
Crash ==
  /\ pc # "off"
  /\ End
  /\ UNCHANGED <<config, diskVars, history, bounds>>

-----------------------------------------------------------------------------
(* One turn of the loop.                                                   *)

\* Mutant of EndTurn: the turn is not counted.
UncountedTurn(status, output, outputs) ==
  state' = [state EXCEPT !.status = status, !.output = output,
                         !.tool_outputs = outputs]

\* The decision is returned: the controller counts the turn.
EndTurn(status, output, outputs) ==
  state' = [state EXCEPT !.turn_count = @ + 1, !.status = status,
                         !.output = output, !.tool_outputs = outputs]

Continue(outputs) == EndTurn("running", state.output, outputs) /\ pc' = "turn"

Complete(text, outputs) ==
  EndTurn("completed", text, outputs) /\ pc' = "stopped"

FailRun ==
  /\ state' = [state EXCEPT !.status = "failed", !.error = TRUE]
  /\ pc' = "stopped"

\* The while loop of AgentController.run is over.
TurnLimit ==
  /\ pc = "turn"
  /\ state.turn_count >= state.max_turns
  /\ state' = [state EXCEPT !.status = "max_turns", !.error = TRUE]
  /\ exhausted' = exhausted \cup {state.run}
  /\ pc' = "stopped"
  /\ UNCHANGED <<config, agent, agentVars, sent, batchVars, owed, diskVars,
                 unverified, bounds>>

\* Mutant of MayDecide: one turn more than the budget.
MayDecideOnceMore == pc = "turn" /\ state.turn_count <= state.max_turns

MayDecide == pc = "turn" /\ state.turn_count < state.max_turns

\* The text kept by a passed verification ends the run without a request.
FinalizeVerified ==
  /\ MayDecide
  /\ finalText # 0
  /\ finalText' = 0
  /\ Complete(finalText, state.tool_outputs)
  /\ UNCHANGED <<config, agent, dirty, sent, batchVars, owed, diskVars,
                 history, bounds>>

\* ContextManager.start (reading instructions and skills, turn 0) or
\* ContextManager.snapshot (the summarizer) raises before the request.
ContextFails ==
  /\ MayDecide
  /\ finalText = 0
  /\ state.turn_count = 0 \/ HasSummarizer
  /\ FailRun
  /\ UNCHANGED <<config, agent, agentVars, sent, batchVars, owed, diskVars,
                 history, bounds>>

\* Mutant of ChatOwed: the message list is not emptied on turn 0.
ChatOwedForever == owed

\* The request leaves with the tool outputs of the last round.  The chat
\* provider first appends them to its own message list, which it empties on
\* turn 0; the Responses API continues from previous_response_id.
ChatOwed == IF state.turn_count = 0 THEN 0 ELSE owed

Ask ==
  /\ MayDecide
  /\ finalText = 0
  /\ sent' = state.tool_outputs
  /\ owed' = IF config.api = "chat" THEN ChatOwed - state.tool_outputs
                                    ELSE owed
  /\ pc' = "asked"
  /\ UNCHANGED <<config, agent, agentVars, state, batchVars, diskVars,
                 history, bounds>>

\* provider.complete raises, its retries spent.
ProviderFails ==
  /\ pc = "asked"
  /\ sent' = 0
  /\ FailRun
  /\ UNCHANGED <<config, agent, agentVars, batchVars, owed, diskVars,
                 history, bounds>>

\* Mutant of OutputsAfterResponse: the outputs are sent again and again.
OutputsKept == state.tool_outputs

\* state.tool_outputs.clear()
OutputsAfterResponse == 0

\* A response with tool calls: the new response id stands for a conversation
\* that waits for all of them.
ReceiveCalls ==
  /\ pc = "asked"
  /\ \E n \in 1 .. MaxCalls :
       /\ batch' = n
       /\ todo' = n
       /\ owed' = IF config.api = "chat" THEN owed + n ELSE n
  /\ sent' = 0
  /\ state' = [state EXCEPT !.tool_outputs = OutputsAfterResponse]
  /\ pc' = "tools"
  /\ UNCHANGED <<config, agent, agentVars, wrote, diskVars, history, bounds>>

\* A response with text only; response id and outputs as in ReceiveCalls.
TextReceived ==
  /\ pc = "asked"
  /\ owed' = IF config.api = "chat" THEN owed ELSE 0
  /\ sent' = 0

MustVerify == config.verifier /\ dirty

ReceiveDraft ==
  /\ TextReceived
  /\ MustVerify
  /\ state' = [state EXCEPT !.tool_outputs = OutputsAfterResponse]
  /\ pc' = "verify"
  /\ UNCHANGED <<config, agent, agentVars, batchVars, diskVars,
                 history, bounds>>

ReceivePlan ==
  /\ TextReceived
  /\ ~MustVerify
  /\ config.plan_first /\ state.turn_count = 0
  /\ Continue(OutputsAfterResponse)
  /\ UNCHANGED <<config, agent, agentVars, batchVars, diskVars,
                 history, bounds>>

ReceiveAnswer ==
  /\ TextReceived
  /\ ~MustVerify
  /\ ~(config.plan_first /\ state.turn_count = 0)
  /\ Complete(state.run, OutputsAfterResponse)
  /\ UNCHANGED <<config, agent, agentVars, batchVars, diskVars,
                 history, bounds>>

Edit == unverified' = unverified \cup {state.run}

\* One call of the batch is dispatched: it edits through a write tool that
\* reports success, edits in one of the silent ways, or edits nothing (a
\* read, a blocked, failing or unknown call).
RunTool ==
  /\ pc = "tools"
  /\ todo > 0
  /\ todo' = todo - 1
  /\ \/ wrote' = TRUE /\ Edit
     \/ SilentEdits # {} /\ Edit /\ UNCHANGED wrote
     \/ UNCHANGED <<wrote, unverified>>
  /\ UNCHANGED <<config, pc, agent, agentVars, state, sent, batch, owed,
                 diskVars, exhausted, bounds>>

\* Mutant of DirtyAfterBatch: a batch of reads hides the writes before it.
DirtyOfThisBatch == wrote

DirtyAfterBatch == dirty \/ wrote

\* The observations of the whole batch are the decision of this turn.
FinishTools ==
  /\ pc = "tools"
  /\ todo = 0
  /\ dirty' = DirtyAfterBatch
  /\ batch' = 0
  /\ wrote' = FALSE
  /\ Continue(state.tool_outputs + batch)
  /\ UNCHANGED <<config, agent, finalText, sent, todo, owed, diskVars,
                 history, bounds>>

VerifyPasses ==
  /\ pc = "verify"
  /\ dirty' = FALSE
  /\ unverified' = {}
  /\ finalText' = state.run
  /\ Continue(state.tool_outputs)
  /\ UNCHANGED <<config, agent, sent, batchVars, owed, diskVars, exhausted,
                 bounds>>

VerifyFails ==
  /\ pc = "verify"
  /\ Continue(state.tool_outputs)
  /\ UNCHANGED <<config, agent, agentVars, sent, batchVars, owed, diskVars,
                 history, bounds>>

\* The verifier itself raises (pytest cannot start, the reviewer's provider
\* fails): the run fails, the response already counted.
VerifierRaises ==
  /\ pc = "verify"
  /\ FailRun
  /\ UNCHANGED <<config, agent, agentVars, sent, batchVars, owed, diskVars,
                 history, bounds>>

-----------------------------------------------------------------------------
(* The CLI saves the result, then the checkpoint of an unfinished run.     *)

SaveResult ==
  /\ pc = "stopped"
  /\ record' = [run |-> state.run, status |-> state.status]
  /\ IF state.status = "completed"
     THEN End
     ELSE /\ pc' = "saved"
          /\ UNCHANGED <<agent, agentVars, state, sent, batchVars, owed>>
  /\ UNCHANGED <<config, checkpoint, history, bounds>>

\* build_checkpoint takes the budget of the controller, not of the run.
SaveCheckpoint ==
  /\ pc = "saved"
  /\ checkpoint' = [run |-> state.run, turn_count |-> state.turn_count,
                    max_turns |-> agent.max_turns, error |-> state.error,
                    owed |-> owed]
  /\ End
  /\ UNCHANGED <<config, record, history, bounds>>

-----------------------------------------------------------------------------
LoopStep ==
  \/ TurnLimit \/ FinalizeVerified \/ ContextFails \/ Ask
  \/ ProviderFails \/ ReceiveCalls \/ ReceiveDraft \/ ReceivePlan
  \/ ReceiveAnswer \/ RunTool \/ FinishTools
  \/ VerifyPasses \/ VerifyFails \/ VerifierRaises

SaveStep == SaveResult \/ SaveCheckpoint

Next == NewProcess \/ StartRun \/ Resume \/ Crash \/ LoopStep \/ SaveStep

\* The loop is a plain synchronous call: once entered it keeps stepping.
\* The provider call is bounded by its timeout and retries, commands and the
\* verifier by theirs.
Spec == Init /\ [][Next]_vars /\ WF_vars(LoopStep)

-----------------------------------------------------------------------------
(* What must hold.                                                         *)

\* A run never completes over an edit that no passing verification covers,
\* when a verifier is configured (LLMLoopDriver.next, _dirty).  Resumed runs
\* break it: a checkpoint does not say that files were edited.
EditsVerified ==
  config.verifier /\ state.status = "completed" => state.run \notin unverified

\* The same for the runs of an Agent that resumed nothing and whose edits all
\* show as successful write observations: whatever fails, is retried or is
\* verified in between, and over all the runs of the Agent.
FreshRunVerifies ==
  SilentEdits = {} /\ ~agent.resumed => EditsVerified

\* Every call of the conversation a request continues is answered by that
\* request or before it.
CallsAnswered == IF config.api = "chat" THEN owed = 0 ELSE sent = owed

\* Requests of Agents that resumed nothing answer every call of the last tool
\* round exactly once; so do, on the chat path, the requests of a resumed run,
\* whose provider_state holds the outputs appended before the failing request
\* (unless an earlier process ran out of turns with outputs in hand).
RequestsAnswerCalls ==
  /\ pc = "asked" /\ ~agent.resumed => CallsAnswered
  /\ pc = "asked" /\ config.api = "chat" /\ ~HasSummarizer
       /\ state.run \notin exhausted => CallsAnswered

\* An interrupted run is never set back: the checkpoint of a run only ever
\* moves forward, through any number of crashes and resumed processes.
CheckpointAdvances ==
  [][checkpoint'.run = checkpoint.run
       => checkpoint'.turn_count >= checkpoint.turn_count]_vars

\* A loop that is running comes to rest, or its process dies: no sequence of
\* tool rounds, failed verifications and plans keeps it going.
RunStops == InLoop ~> ~InLoop

\* The run as its caller sees it.
HasRun == pc \notin {"off", "ready"}

B == INSTANCE BoundedRun WITH
       status     <- IF HasRun THEN state.status ELSE "pending",
       turn_count <- IF HasRun THEN state.turn_count ELSE 0,
       max_turns  <- IF HasRun THEN state.max_turns ELSE 0

ImplementsBoundedRun == B!Spec

=============================================================================
