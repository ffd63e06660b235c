---------------------------- MODULE MCEvaluation ----------------------------
(***************************************************************************)
(* Instances of Evaluation for TLC.  Three places of which two hold the    *)
(* same task, two permits, two threads.  Outcomes: a plain success; a      *)
(* success that recovered, read one missing path twice, and was edited     *)
(* after its green run; a failure that was blocked and timed out.  With    *)
(* the base, one change of it and two candidates of an earlier trace, a    *)
(* generation has up to four candidates, each measured in nine ways, and   *)
(* in three generations every kind of candidate follows every other.       *)
(***************************************************************************)
EXTENDS Evaluation

Observation(name, ok, error, action, pytest) ==
    [name |-> name, success |-> ok, error |-> error, policy_action |-> action,
     given |-> ok \/ error = "blocked",
     path |-> IF name = "read_file" THEN "p" ELSE "", pytest |-> pytest]
Missing == Observation("read_file", FALSE, "execution", "", "no pytest")
Read == Observation("read_file", TRUE, "", "allow", "no pytest")
Write == Observation("write_file", TRUE, "", "allow", "no pytest")
Denied == Observation("write_file", FALSE, "blocked", "deny", "no pytest")
Unasked == Observation("execute_command", FALSE, "blocked", "ask", "no pytest")
TimedOut == Observation("execute_command", FALSE, "timeout", "allow", "no pytest")
Green == Observation("execute_command", TRUE, "", "allow", "green")
Red == Observation("execute_command", TRUE, "", "allow", "red")

Plain == [completed |-> TRUE, checks |-> TRUE, tokens |-> 1, seconds |-> 2,
          trace |-> <<Read, Write, Green, Read>>]
Recovering == [completed |-> TRUE, checks |-> TRUE, tokens |-> 2, seconds |-> 1,
               trace |-> <<Missing, Denied, Green, Missing, Read, Write, Green>>]
Failing == [completed |-> FALSE, checks |-> FALSE, tokens |-> 1, seconds |-> 1,
            trace |-> <<Read, Red, Unasked, TimedOut, Read>>]
MCOutcomes == {Plain, Recovering, Failing}

MCSelections == {<<"a", "b", "a">>, <<"b">>}
MCSplits == [train |-> <<"a">>, holdout |-> <<"b">>]
MCMutations == <<[field |-> "skill_top_k", values |-> 1],
                 [field |-> "retry_max_retries", values |-> 2],
                 [field |-> "tool_gating", values |-> 1]>>
\* No hint; the recovery hint and more skills; the recovery hint and more retries.
MCEarlierTraces == {<<>>, <<Denied, Read>>, <<TimedOut, Green>>}
=============================================================================
