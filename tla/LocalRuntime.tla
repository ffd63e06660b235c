---------------------------- MODULE LocalRuntime ----------------------------
(***************************************************************************)
(* LocalProcessRuntime: execute runs a command in a session of its own and *)
(* waits for its exit and for the end of its output, at most for the       *)
(* timeout, after which it kills the command's process group and reads the *)
(* output to its end; write_text replaces a file by way of a temporary     *)
(* file.                                                                   *)
(*                                                                         *)
(* A command is its first process, perhaps a helper that stays in its      *)
(* group, and perhaps a daemon that leaves it for a session of its own;    *)
(* each may hold on to the pipes of the command's output or not.  The file *)
(* is known by the write whose content it has.                             *)
(***************************************************************************)
EXTENDS Integers

CONSTANTS
  MaxExecutes,  \* bound: commands executed
  MaxWrites     \* bound: writes begun

VARIABLES
  execute,   \* where the execution of a command is
  alive,     \* the processes of commands that run
  holders,   \* those of them that hold the pipes of the current command
  reported,  \* how the last execution ended
  executes,  \* commands executed
  write,     \* where each write is
  target,    \* the file: whose content it has, and whether all of it
  temps,     \* temporary files, by write
  failed     \* history: writes that raised

runtimeVars == <<execute, alive, holders, reported, executes, write, target, temps, failed>>

Group == {"child", "helper"}
Processes == Group \cup {"daemon"}
Writes == 1 .. MaxWrites

RuntimeTypeOK ==
  /\ execute \in {"idle", "communicating", "draining"}
  /\ alive \subseteq Processes
  /\ holders \subseteq alive
  /\ reported \in {"none", "exited", "timed_out", "not_started", "interrupted"}
  /\ executes \in 0 .. MaxExecutes
  /\ write \in [Writes -> {"none", "open", "synced", "done", "failed", "refused", "crashed"}]
  /\ target \in [by : 0 .. MaxWrites, whole : BOOLEAN]
  /\ temps \subseteq Writes
  /\ failed \subseteq Writes

RuntimeInit ==
  /\ execute = "idle"
  /\ alive = {}
  /\ holders = {}
  /\ reported = "none"
  /\ executes = 0
  /\ write = [w \in Writes |-> "none"]
  /\ target = [by |-> 0, whole |-> TRUE]
  /\ temps = {}
  /\ failed = {}

command == <<execute, alive, holders, reported, executes>>
file == <<write, target, temps, failed>>

-----------------------------------------------------------------------------
(* execute.                                                                *)

\* What an earlier command left running is of no concern to this one; the
\* model keeps the processes of one command at a time.
Popen(starts) ==
  /\ execute = "idle"
  /\ alive = {}
  /\ executes < MaxExecutes
  /\ executes' = executes + 1
  /\ IF starts
       THEN /\ execute' = "communicating"
            /\ alive' = {"child"}
            /\ holders' = {"child"}
            /\ reported' = "none"
       ELSE /\ reported' = "not_started"
            /\ UNCHANGED <<execute, alive, holders>>
  /\ UNCHANGED file

\* The command's child starts another process, with or without its pipes.
Spawn(p, holds) ==
  /\ "child" \in alive
  /\ p \in Processes \ alive
  /\ alive' = alive \cup {p}
  /\ holders' = IF holds /\ "child" \in holders THEN holders \cup {p} ELSE holders
  /\ UNCHANGED <<execute, reported, executes, file>>

ProcessExits(p) ==
  /\ p \in alive
  /\ alive' = alive \ {p}
  /\ holders' = holders \ {p}
  /\ UNCHANGED <<execute, reported, executes, file>>

\* communicate returns: no one can write to the pipes any more, and the child
\* has exited.
OutputEnded == holders = {} /\ "child" \notin alive

Communicated ==
  /\ execute # "idle"
  /\ OutputEnded
  /\ execute' = "idle"
  /\ reported' = IF execute = "draining" THEN "timed_out" ELSE "exited"
  /\ UNCHANGED <<alive, holders, executes, file>>

\* Mutant of Killed: process.kill() in the place of killpg.
KilledChild == {"child"}

\* _terminate_tree: the whole group is killed.
Killed == Group

\* The timeout, while the command runs or its pipes are held.
TimeoutExpires ==
  /\ execute = "communicating"
  /\ execute' = "draining"
  /\ alive' = alive \ Killed
  /\ holders' = holders \ Killed
  /\ UNCHANGED <<reported, executes, file>>

\* An interrupt of the program ends the wait and leaves the command running.
Interrupt ==
  /\ execute # "idle"
  /\ execute' = "idle"
  /\ reported' = "interrupted"
  /\ UNCHANGED <<alive, holders, executes, file>>

-----------------------------------------------------------------------------
(* write_text.                                                             *)

\* Mutant of Opened: the target is opened and so truncated.
OpenedInPlace(w) == target' = [by |-> w, whole |-> FALSE]

\* A temporary file is opened beside the target.
Opened(w) == UNCHANGED target

OpenTemporary(w) ==
  /\ write[w] = "none"
  /\ \A v \in 1 .. w - 1 : write[v] # "none"
  /\ write' = [write EXCEPT ![w] = "open"]
  /\ temps' = temps \cup {w}
  /\ Opened(w)
  /\ UNCHANGED <<failed, command>>

\* write, flush and fsync succeed, or one of them fails.  Then temporary_path
\* is still None, and the temporary file stays.
Sync(w, ok) ==
  /\ write[w] = "open"
  /\ write' = [write EXCEPT ![w] = IF ok THEN "synced" ELSE "failed"]
  /\ failed' = IF ok THEN failed ELSE failed \cup {w}
  /\ UNCHANGED <<target, temps, command>>

\* Mutant of Unlinked: a temporary file that could not be moved stays.
NotUnlinked(w) == {}

Unlinked(w) == {w}

\* os.replace, which may fail.
Replace(w, ok) ==
  /\ write[w] = "synced"
  /\ write' = [write EXCEPT ![w] = IF ok THEN "done" ELSE "refused"]
  /\ target' = IF ok THEN [by |-> w, whole |-> TRUE] ELSE target
  /\ temps' = temps \ IF ok THEN {w} ELSE Unlinked(w)
  /\ failed' = IF ok THEN failed ELSE failed \cup {w}
  /\ UNCHANGED command

\* The program dies in the middle of writes.
CrashWriting ==
  /\ \E w \in Writes : write[w] \in {"open", "synced"}
  /\ write' = [w \in Writes |-> IF write[w] \in {"open", "synced"} THEN "crashed" ELSE write[w]]
  /\ UNCHANGED <<target, temps, failed, command>>

-----------------------------------------------------------------------------
Execution == Communicated \/ TimeoutExpires

FileStep == \E w \in Writes, ok \in BOOLEAN : Sync(w, ok) \/ Replace(w, ok)

RuntimeNext ==
  \/ \E starts \in BOOLEAN : Popen(starts)
  \/ \E p \in Processes, holds \in BOOLEAN : Spawn(p, holds)
  \/ \E p \in Processes : ProcessExits(p)
  \/ Execution
  \/ Interrupt
  \/ \E w \in Writes : OpenTemporary(w)
  \/ FileStep
  \/ CrashWriting

-----------------------------------------------------------------------------
(* Properties.                                                             *)

\* When execute reports a timeout, the command's process group is gone.
TimeoutEndsTheGroup ==
  reported = "timed_out" /\ execute = "idle" => alive \cap Group = {}

\* The file always has the whole content of one write (or its first content),
\* of none that raised, through failures and crashes of other writes; and a
\* write that moved its temporary file, or failed to move it, leaves none.
FileIsOneWrite ==
  /\ target.whole
  /\ target.by \notin failed
  /\ \A w \in temps : write[w] \notin {"done", "refused"}
=============================================================================
