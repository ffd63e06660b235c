----------------------------- MODULE BoundedRun -----------------------------
(***************************************************************************)
(* What an agent run promises its caller, independent of models and tools: *)
(* a run spends at most its turn budget, one turn per decision, and always *)
(* comes to rest as completed, max_turns or failed (RunStatus).  A run may *)
(* be cut short when the process that hosts it dies.                       *)
(***************************************************************************)
EXTENDS Naturals

CONSTANT Budgets            \* turn budgets an agent may be built with

VARIABLES status, turn_count, max_turns

vars == <<status, turn_count, max_turns>>

Resting == {"pending", "completed", "max_turns", "failed"}

TypeOK ==
  /\ status \in Resting \cup {"running"}
  /\ turn_count \in Nat
  /\ max_turns \in Nat

Init ==
  /\ status = "pending"
  /\ turn_count = 0
  /\ max_turns = 0

\* A new run starts at turn 0, a resumed one at the turn of its checkpoint.
Begin ==
  /\ status \in Resting
  /\ status' = "running"
  /\ turn_count' \in Nat
  /\ max_turns' \in Budgets

Decide ==
  /\ status = "running"
  /\ turn_count < max_turns
  /\ turn_count' = turn_count + 1
  /\ status' \in {"running", "completed"}
  /\ UNCHANGED max_turns

Exhaust ==
  /\ status = "running"
  /\ turn_count >= max_turns
  /\ status' = "max_turns"
  /\ UNCHANGED <<turn_count, max_turns>>

Fail ==
  /\ status = "running"
  /\ status' = "failed"
  /\ UNCHANGED <<turn_count, max_turns>>

\* The process is gone, with all it knew of the run.
Forget ==
  /\ status' = "pending"
  /\ turn_count' = 0
  /\ max_turns' = 0

Next == Begin \/ Decide \/ Exhaust \/ Fail \/ Forget

Spec == Init /\ [][Next]_vars /\ WF_vars(Decide \/ Exhaust \/ Fail)

=============================================================================
