------------------------------ MODULE RunTrace ------------------------------
(***************************************************************************)
(* What is read off the trace of a finished run: its metrics               *)
(* (miniclaude/metrics.py), the attribution of its failures                *)
(* (evaluation/attribution.py), and whether its first green test run was   *)
(* its last word (evaluation/coding/runner.py).                            *)
(*                                                                         *)
(* A trace is the sequence of observations of its tool_results events.  An *)
(* observation has the tool's name, whether it succeeded, the policy's     *)
(* action, why it failed ("blocked" by the policy or the user, "timeout",  *)
(* "unknown tool", "validation", "execution", or "" for a success), the    *)
(* path it records when its arguments are recorded, and how a command that *)
(* runs pytest ended.                                                      *)
(***************************************************************************)
EXTENDS Integers, Sequences, SequencesExt, FiniteSets, FiniteSetsExt

WriteTools == {"write_file", "replace_text"}

\* dispatch says "tool blocked" of what is denied, records the arguments only
\* of a call that succeeded or was blocked, and only commands run pytest.
Observations ==
    {o \in [name : STRING, success : BOOLEAN, error : STRING,
            policy_action : STRING, given : BOOLEAN, path : STRING,
            pytest : {"no pytest", "green", "red"}] :
        /\ o.policy_action = "deny" => ~o.success /\ o.error = "blocked"
        /\ o.given => o.success \/ o.error = "blocked"
        /\ o.pytest # "no pytest" => o.name = "execute_command"}

Count(trace, Is(_)) == Cardinality({i \in DOMAIN trace : Is(trace[i])})

(***************************************************************************)
(* RunMetrics.from_run.  A failure is recoverable when anything follows    *)
(* it, and recovered when the same tool succeeds later.                    *)
(***************************************************************************)
\* Mutant of RecoveredLater: any later success recovers, of whatever tool.
RecoveredByAny(trace, i) ==
    \E j \in (i + 1)..Len(trace) : trace[j].success

RecoveredLater(trace, i) ==
    \E j \in (i + 1)..Len(trace) :
        trace[j].name = trace[i].name /\ trace[j].success

Recoverable(trace) == {i \in 1..(Len(trace) - 1) : ~trace[i].success}
Recovered(trace) == {i \in Recoverable(trace) : RecoveredLater(trace, i)}

ReadStep(m, o) ==
    IF o.name # "read_file" THEN m
    ELSE IF ~o.given THEN [m EXCEPT !.total_reads = @ + 1]
    ELSE [m EXCEPT !.total_reads = @ + 1,
                   !.repeated_reads = @ + (IF o.path \in m.seen THEN 1 ELSE 0),
                   !.seen = @ \cup {o.path}]

Reads(trace) ==
    FoldLeft(ReadStep, [total_reads |-> 0, repeated_reads |-> 0, seen |-> {}],
             trace)

Metrics(trace) ==
    [tool_calls |-> Len(trace),
     tool_successes |-> Count(trace, LAMBDA o : o.success),
     denied |-> Count(trace, LAMBDA o : o.policy_action = "deny"),
     total_reads |-> Reads(trace).total_reads,
     repeated_reads |-> Reads(trace).repeated_reads,
     recoverable |-> Cardinality(Recoverable(trace)),
     recovered |-> Cardinality(Recovered(trace))]

(***************************************************************************)
(* attribute_run counts the failures again, on its own, while it lists the *)
(* tools and the kinds of error.                                           *)
(***************************************************************************)
ErrorKind(o) == IF o.error = "blocked" THEN "policy_denial" ELSE o.error

AttributeStep(trace, a, i) ==
    LET o == trace[i]
    IN  IF o.success THEN a
        ELSE [failed_tools |-> a.failed_tools \cup {o.name},
              error_kinds |-> a.error_kinds \cup {ErrorKind(o)},
              policy_denials |-> a.policy_denials
                    + (IF ErrorKind(o) = "policy_denial" THEN 1 ELSE 0),
              recoverable |-> a.recoverable + (IF i < Len(trace) THEN 1 ELSE 0),
              recovered |-> a.recovered
                    + (IF RecoveredLater(trace, i) THEN 1 ELSE 0)]

Attribution(trace) ==
    FoldLeftDomain(LAMBDA a, i : AttributeStep(trace, a, i),
                   [failed_tools |-> {}, error_kinds |-> {},
                    policy_denials |-> 0, recoverable |-> 0, recovered |-> 0],
                   trace)

(***************************************************************************)
(* compute_first_pass walks the trace: -1 after an edit or a red run that  *)
(* follows a green one, 1 after a green run, 0 before.                     *)
(***************************************************************************)
\* Mutant of PassStep: edits after the green run are not looked at.
PassStepOfTests(seen, o) ==
    IF seen = -1 THEN -1
    ELSE IF o.pytest = "green" THEN 1
    ELSE IF seen = 1 /\ o.pytest = "red" THEN -1
    ELSE seen

PassStep(seen, o) ==
    IF seen = -1 THEN -1
    ELSE IF o.pytest = "green" THEN 1
    ELSE IF seen = 1 /\ (o.pytest = "red" \/ (o.name \in WriteTools /\ o.success))
    THEN -1
    ELSE seen

FirstPass(trace) == FoldLeft(PassStep, 0, trace) = 1
=============================================================================
