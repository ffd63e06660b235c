------------------------------- MODULE Totals -------------------------------
(***************************************************************************)
(* The sum of a sequence of numbers, as the loops of the context manager   *)
(* (miniclaude/context.py) and of the benchmark's report                   *)
(* (evaluation/coding/models.py) add it up.                                *)
(***************************************************************************)
EXTENDS Integers, Sequences, SequencesExt

Total(values) == FoldLeft(LAMBDA n, v : n + v, 0, values)
=============================================================================
