-------------------------- MODULE MCToolProcesses --------------------------
(***************************************************************************)
(* Two servers and two threads; two tools are begun at most, tool calls, *)
(* commands or writes.                                                     *)
(***************************************************************************)
EXTENDS ToolProcesses
=============================================================================
