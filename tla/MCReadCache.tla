---------------------------- MODULE MCReadCache -----------------------------
(***************************************************************************)
(* Instances of ReadCache for TLC: one file under two spellings.  Its      *)
(* stamps, model values, differ in their time, their size or not at all.   *)
(***************************************************************************)
EXTENDS ReadCache

MCPaths == {"a", "./a"}
MCFiles == {"file"}
MCResolve == [p \in MCPaths |-> "file"]
MCThreads == {"one", "two"}

=============================================================================
