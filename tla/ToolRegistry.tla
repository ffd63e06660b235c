---------------------------- MODULE ToolRegistry ----------------------------
(***************************************************************************)
(* ToolRegistry of MiniClaudeCode with its policy, its ApprovalManager and *)
(* its gating, as LLMLoopDriver uses it: a batch of calls of one model     *)
(* response is dispatched by one thread, or by a pool when no call of it   *)
(* is registered as mutating, and the observations decide which tools the  *)
(* next request offers.                                                    *)
(*                                                                         *)
(* A call is a tool name and an argument value; the exact call is the key  *)
(* an approval is remembered by.  The user, the handlers and the model are *)
(* the environment: they may answer, return, raise or call anything.       *)
(***************************************************************************)
EXTENDS Naturals, Sequences, FiniteSets

CONSTANTS
  Tools,       \* registered tools
  Risk,        \* [Tools -> {"read_only", "mutating", "destructive"}]
  Calls,       \* calls the model may make: [tool, args]
  Assess,      \* assess_argv: the verdict on each argument value of a command
  Modes,       \* permission modes to consider
  PoolSize,    \* threads of the pool at most (the driver's 4)
  MaxCalls,    \* bound: calls in one batch
  MaxBatches,  \* bound: batches in one session
  MaxTasks     \* bound: tasks in one session

ASSUME RegistryAssumption ==
  /\ Risk \in [Tools -> {"read_only", "mutating", "destructive"}]
  /\ "execute_command" \in Tools => Risk["execute_command"] # "read_only"
  /\ Assess \in [{c.args : c \in Calls} -> {"allow", "ask", "deny"}]
  /\ Modes \subseteq {"default", "plan", "accept-edits", "bypass"}
  /\ PoolSize \in Nat \ {0}
  /\ MaxCalls \in Nat \ {0}
  /\ MaxBatches \in Nat \ {0}
  /\ MaxTasks \in Nat \ {0}

VARIABLES
  mode,        \* PermissionModePolicy.mode
  gating,      \* LLMLoopDriver.tool_gating
  approved,    \* ApprovalManager._approved
  gated,       \* _activated is a set, not None
  activated,   \* _activated, when it is a set
  batch,       \* the calls being dispatched, in the order of the response
  stage,       \* where each call of the batch is
  result,      \* its observation, when it is done
  said,        \* history: exact calls the user has said yes to
  used,        \* history: tools that succeeded in earlier batches of the task
  tasks,       \* tasks started
  batches      \* batches dispatched

config == <<mode, gating>>
active == <<gated, activated>>
vars == <<mode, gating, approved, gated, activated, batch, stage, result,
          said, used, tasks, batches>>

Stages == {"waiting", "asking", "granting", "running", "done"}
Results == {"none", "ok", "failed", "blocked"}

\* The positions of the batch.
Positions == DOMAIN batch

TypeOK ==
  /\ mode \in Modes
  /\ gating \in BOOLEAN
  /\ approved \subseteq Calls
  /\ gated \in BOOLEAN
  /\ activated \subseteq Tools
  /\ batch \in Seq(Calls) /\ Len(batch) <= MaxCalls
  /\ stage \in [Positions -> Stages]
  /\ result \in [Positions -> Results]
  /\ \A i \in Positions : result[i] # "none" <=> stage[i] = "done"
  /\ said \subseteq Calls
  /\ used \subseteq Tools
  /\ tasks \in 0 .. MaxTasks
  /\ batches \in 0 .. MaxBatches

Init ==
  /\ mode \in Modes
  /\ gating \in BOOLEAN
  /\ approved = {}
  /\ gated = FALSE
  /\ activated = {}
  /\ batch = <<>>
  /\ stage = <<>>
  /\ result = <<>>
  /\ said = {}
  /\ used = {}
  /\ tasks = 0
  /\ batches = 0

-----------------------------------------------------------------------------
(* Policy.                                                                 *)

\* DefaultSecurityPolicy.evaluate: a command is judged by what it runs, any
\* other tool by its declared risk.
DefaultAction(call) ==
  IF call.tool = "execute_command" THEN Assess[call.args]
  ELSE [read_only |-> "allow", mutating |-> "ask", destructive |-> "deny"]
         [Risk[call.tool]]

\* PermissionModePolicy.evaluate
Evaluate(call) ==
  IF mode = "plan" /\ Risk[call.tool] # "read_only" THEN "deny"
  ELSE IF \/ mode = "bypass"
          \/ /\ mode = "accept-edits"
             /\ Risk[call.tool] = "mutating"
             /\ call.tool = "write_file"
       THEN "allow"
  ELSE DefaultAction(call)

\* The CLI hands the ApprovalManager a callback in the default mode only.
HasCallback == mode = "default"

-----------------------------------------------------------------------------
(* Gating: the tools a request offers.                                     *)

Exposed == IF gated THEN activated ELSE Tools

\* Mutant of Known: names no tool has are kept.
Unchecked(names) == names

\* The names of a skill or a batch that are registered.
Known(names) == names \cap Tools

\* Mutant of Activated: the active set is replaced, not extended.
ActivatedAfresh(names) == Known(names)

\* ToolRegistry.activate: None becomes the empty set, then the names join it.
Activated(names) == (IF gated THEN activated ELSE {}) \cup Known(names)

\* Turn 0 of a task: activate_for_task takes the tools whose keywords match
\* the task, all of them when none does; then each tool the selected skills
\* declare is activated, and an unknown one still ends the exposure of all.
StartTask ==
  /\ batch = <<>>
  /\ tasks < MaxTasks
  /\ tasks' = tasks + 1
  /\ used' = {}
  /\ IF gating
     THEN \E matched \in SUBSET Tools, skill \in SUBSET {c.tool : c \in Calls} :
            /\ gated' = (matched # {} \/ skill # {})
            /\ activated' = matched \cup Known(skill)
     ELSE UNCHANGED active
  /\ UNCHANGED <<config, approved, batch, stage, result, said, batches>>

\* A task resumed in a new process: its turn count is past 0, so that nothing
\* is activated on the new registry, and its approvals are those of no one.
ResumeTask ==
  /\ batch = <<>>
  /\ tasks \in 1 .. MaxTasks - 1
  /\ tasks' = tasks + 1
  /\ used' = {}
  /\ gated' = FALSE
  /\ activated' = {}
  /\ approved' = {}
  /\ said' = {}
  /\ UNCHANGED <<config, batch, stage, result, batches>>

-----------------------------------------------------------------------------
(* Dispatch.                                                               *)

Registered(call) == call.tool \in Tools

\* LLMLoopDriver._is_mutating: an unknown name is not.
Mutating(call) == Registered(call) /\ Risk[call.tool] # "read_only"

\* Mutant of Workers: the batch is judged by its first call.
WorkersByFirst(calls) ==
  IF Len(calls) <= 1 \/ Mutating(calls[1]) THEN 1
  ELSE IF Len(calls) < PoolSize THEN Len(calls) ELSE PoolSize

\* LLMLoopDriver._dispatch_batch
Workers(calls) ==
  IF Len(calls) <= 1 \/ \E i \in DOMAIN calls : Mutating(calls[i]) THEN 1
  ELSE IF Len(calls) < PoolSize THEN Len(calls) ELSE PoolSize

Busy == {i \in Positions : stage[i] \in {"asking", "granting", "running"}}

\* The model answers with tool calls, of offered tools or not.
BeginBatch ==
  /\ tasks > 0
  /\ batch = <<>>
  /\ batches < MaxBatches
  /\ batches' = batches + 1
  /\ \E n \in 1 .. MaxCalls : \E calls \in [1 .. n -> Calls] :
       /\ batch' = calls
       /\ stage' = [i \in 1 .. n |-> "waiting"]
       /\ result' = [i \in 1 .. n |-> "none"]
  /\ UNCHANGED <<config, approved, active, said, used, tasks>>

Done(i, outcome) ==
  /\ stage' = [stage EXCEPT ![i] = "done"]
  /\ result' = [result EXCEPT ![i] = outcome]

Move(i, where) ==
  /\ stage' = [stage EXCEPT ![i] = where]
  /\ UNCHANGED result

\* ApprovalManager.authorize up to the callback.
Authorize(i) ==
  LET call == batch[i] IN
  IF Evaluate(call) = "allow" \/ (Evaluate(call) = "ask" /\ call \in approved)
  THEN Move(i, "running")
  ELSE IF Evaluate(call) = "ask" /\ HasCallback
  THEN Move(i, "asking")
  ELSE Done(i, "blocked")

\* A thread takes the next call: ToolRegistry.dispatch looks the tool up,
\* decodes and validates the arguments and asks for authorization.
Take(i) ==
  /\ stage[i] = "waiting"
  /\ \A j \in 1 .. i - 1 : stage[j] # "waiting"
  /\ Cardinality(Busy) < Workers(batch)
  /\ IF Registered(batch[i]) /\ batch[i].args # "invalid"
     THEN Authorize(i)
     ELSE Done(i, "failed")
  /\ UNCHANGED <<config, approved, active, batch, said, used, tasks, batches>>

UserAllows(i) ==
  /\ stage[i] = "asking"
  /\ said' = said \cup {batch[i]}
  /\ Move(i, "granting")
  /\ UNCHANGED <<config, approved, active, batch, used, tasks, batches>>

\* Mutant of Approval: the yes is not remembered.
NoApproval(call) == {}

\* Mutant of Approval: the approval is kept for the tool, not the exact call.
ApprovalOfTool(call) == {c \in Calls : c.tool = call.tool}

\* The key an approval is kept under.
Approval(call) == {call}

\* Back from the callback, the exact call is remembered under the lock.
Grant(i) ==
  /\ stage[i] = "granting"
  /\ approved' = approved \cup Approval(batch[i])
  /\ Move(i, "running")
  /\ UNCHANGED <<config, active, batch, said, used, tasks, batches>>

\* The user says no, or the callback raises.
UserDenies(i) ==
  /\ stage[i] = "asking"
  /\ \E outcome \in {"blocked", "failed"} : Done(i, outcome)
  /\ UNCHANGED <<config, approved, active, batch, said, used, tasks, batches>>

\* The handler returns or raises; either way there is an observation.
HandlerEnds(i) ==
  /\ stage[i] = "running"
  /\ \E outcome \in {"ok", "failed"} : Done(i, outcome)
  /\ UNCHANGED <<config, approved, active, batch, said, used, tasks, batches>>

Succeeded == {batch[i].tool : i \in {j \in Positions : result[j] = "ok"}}

\* All observations are in: the tools that succeeded are activated.
FinishBatch ==
  /\ batch # <<>>
  /\ \A i \in Positions : stage[i] = "done"
  /\ used' = used \cup Succeeded
  /\ IF gating
     THEN gated' = TRUE /\ activated' = Activated(Succeeded)
     ELSE UNCHANGED active
  /\ batch' = <<>>
  /\ stage' = <<>>
  /\ result' = <<>>
  /\ UNCHANGED <<config, approved, said, tasks, batches>>

Dispatch(i) == Take(i) \/ UserAllows(i) \/ Grant(i) \/ UserDenies(i)
               \/ HandlerEnds(i)

Next ==
  \/ StartTask
  \/ ResumeTask
  \/ BeginBatch
  \/ \E i \in Positions : Dispatch(i)
  \/ FinishBatch

Spec == Init /\ [][Next]_vars

-----------------------------------------------------------------------------
(* What must hold.                                                         *)

\* "approvals and write ordering stay deterministic" (_dispatch_batch): while
\* the user is asked or a mutating handler runs, no other call of the batch is
\* under way, and the calls before it are done and those after it not begun.
MutationsAlone ==
  \A i \in Busy :
    stage[i] \in {"asking", "granting"} \/ Mutating(batch[i]) =>
      \A j \in Positions : /\ j < i => stage[j] = "done"
                           /\ j > i => stage[j] = "waiting"

\* A handler runs only if the policy allows the call, or asks and the user has
\* said yes to exactly this call in this session; whatever was approved or
\* refused before (ApprovalManager.authorize).
OnlyAuthorizedRun ==
  \A i \in Positions : stage[i] = "running" =>
    \/ Evaluate(batch[i]) = "allow"
    \/ Evaluate(batch[i]) = "ask" /\ batch[i] \in said

\* The user is never asked again about a call already allowed in the session,
\* the calls of one batch included.
AskedOnce == \A i \in Positions : stage[i] = "asking" => batch[i] \notin said

\* A tool that the model has used in this task stays offered: gating only ever
\* expands with the tools the model actually uses.
UsedToolsStay == used \subseteq Exposed

=============================================================================
