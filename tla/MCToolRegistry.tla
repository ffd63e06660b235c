--------------------------- MODULE MCToolRegistry ---------------------------
(***************************************************************************)
(* Instances of ToolRegistry for TLC: a tool that reads, one that writes   *)
(* (called in two ways), the command tool with a command to ask about and  *)
(* one to refuse, and a name no tool has.                                  *)
(***************************************************************************)
EXTENDS ToolRegistry

MCTools == {"read_file", "write_file", "execute_command"}

MCRisk == [t \in MCTools |-> IF t = "read_file" THEN "read_only"
                                                ELSE "mutating"]

MCModes == {"default", "plan", "accept-edits", "bypass"}

Call(tool, args) == [tool |-> tool, args |-> args]

MCCalls ==
  {Call("read_file", "a"), Call("write_file", "a"), Call("write_file", "b"),
   Call("execute_command", "make"), Call("execute_command", "rm"),
   Call("no_such_tool", "a")}

MCAssess == [a \in {c.args : c \in MCCalls} |-> IF a = "rm" THEN "deny"
                                                         ELSE "ask"]

=============================================================================
