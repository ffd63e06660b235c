----------------------------- MODULE Evaluation -----------------------------
(***************************************************************************)
(* The evaluation programs over the same cases: the concurrent benchmark   *)
(* (evaluation/coding/async_runner.py) and strategy evolution              *)
(* (evaluation/evolution.py), each a process of its own.                   *)
(***************************************************************************)
EXTENDS StrategyEvolution

VARIABLE program   \* which of the two this process is

vars == <<program, runnerVars, evolutionVars>>

Init ==
    \/ /\ program = "async_runner"
       /\ \E s \in Selections : RunnerInit(s)
       /\ EvolutionInit /\ extras = <<>>
    \/ program = "evolution" /\ RunnerInit(<<>>) /\ EvolutionInit

RunAsync ==
    /\ program = "async_runner" /\ RunnerStep
    /\ UNCHANGED <<program, evolutionVars>>

Evolve ==
    /\ program = "evolution" /\ EvolutionStep
    /\ UNCHANGED <<program, runnerVars>>

Next == RunAsync \/ Evolve

(***************************************************************************)
(* A case of the benchmark ends: its turns, requests, retries and commands *)
(* are bounded, and nobody is asked for an approval.                       *)
(***************************************************************************)
Spec == Init /\ [][Next]_vars /\ WF_vars(RunAsync)

(***************************************************************************)
(* The concurrent benchmark comes to an end, with a report or with an      *)
(* exception, also when a case raises while others wait for a permit, run, *)
(* or have ended (async_runner.py:50-79).                                  *)
(***************************************************************************)
BenchmarkEnds == program = "async_runner" ~> RunnerIsDone
=============================================================================
