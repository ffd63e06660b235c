--------------------------- MODULE ToolProcesses ---------------------------
(***************************************************************************)
(* The child processes of one run: the MCP servers, which its MCPClients   *)
(* start and stop, and the commands and file writes of its runtime.  The   *)
(* threads of a multi-agent run use both at the same time; the command     *)
(* line begins tools only while it runs and ends when they have returned.  *)
(***************************************************************************)
EXTENDS MCPClient, LocalRuntime, FiniteSets

CONSTANT MaxTools  \* bound: tool calls, commands and writes together

vars == <<mcpVars, runtimeVars>>

ASSUME ToolProcessesAssumption ==
  /\ Clients \in Nat \ {0}
  /\ Main \notin Threads
  /\ {MaxCalls, MaxNoise, MaxExecutes, MaxWrites, MaxTools} \subseteq Nat

TypeOK == McpTypeOK /\ RuntimeTypeOK

Init == McpInit /\ RuntimeInit

\* Tools begun so far, of either kind.
Begun == calls + executes + Cardinality({w \in Writes : write[w] # "none"})

\* No tool of the runtime is under way.
RuntimeRests == execute = "idle" /\ \A w \in Writes : write[w] \notin {"open", "synced"}

Servers ==
  /\ McpNext
  /\ UNCHANGED runtimeVars
  /\ stage = "running" /\ stage' = "stopping" => RuntimeRests

Runtime ==
  /\ RuntimeNext
  /\ UNCHANGED mcpVars
  /\ Begun' > Begun => stage = "running"

Next ==
  /\ Servers \/ Runtime
  /\ Begun' <= MaxTools

\* The threads run and the system calls of the runtime return; communicate
\* has a timeout, and returns when its pipes end.  A request to a server has
\* none: that a server answers what it has read is assumed of the server.
Fairness ==
  /\ WF_vars(Servers /\ (CommandLine \/ \E a \in Actors : Requester(a)))
  /\ WF_vars(Servers /\ \E c \in 1 .. Clients : Respond(c))
  /\ WF_vars(Runtime /\ (Execution \/ FileStep))

Spec == Init /\ [][Next]_vars /\ Fairness

-----------------------------------------------------------------------------
(* Properties.                                                             *)

\* The command line comes to its end and has stopped its servers, if none of
\* its commands leaves a daemon that holds the command's output for ever.
SessionEnds == []<>("daemon" \notin holders) => <>(stage = "over")

\* execute ends, unless a process that has left the command's group holds on
\* to its pipes: no timeout bounds the second communicate.
ExecuteEnds == execute # "idle" ~> execute = "idle" \/ "daemon" \in holders
=============================================================================
