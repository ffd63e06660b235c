---------------------------- MODULE MCAgentLoop -----------------------------
(***************************************************************************)
(* Instances of AgentLoop for TLC.  Three turns are enough for a tool      *)
(* round, its verification and the finalizing turn; three processes for a  *)
(* resume of a resumed run; two runs for what one leaves to the next.      *)
(***************************************************************************)
EXTENDS AgentLoop

MCBudgets == {2, 3}
MCApis == {"responses", "chat"}
NoSilentEdits == {}
MCSilentEdits == {"replace_text", "execute_command"}

=============================================================================
