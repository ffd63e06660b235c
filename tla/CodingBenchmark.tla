-------------------------- MODULE CodingBenchmark ---------------------------
(***************************************************************************)
(* The coding benchmark: cases, their report (evaluation/coding/runner.py, *)
(* evaluation/coding/models.py), and the runner that keeps several cases   *)
(* in flight (evaluation/coding/async_runner.py).                          *)
(*                                                                         *)
(* A live case is an agent on a fresh copy of its task, run in a thread of *)
(* the event loop's executor.  How it ends is chosen from Outcomes: the    *)
(* run's status, whether the ground truth holds of the workspace it left,  *)
(* its trace, and what it cost.  Rates are kept as the two numbers they    *)
(* divide.                                                                 *)
(***************************************************************************)
EXTENDS RunTrace, Totals

CONSTANTS
    Outcomes,      \* how a case may end
    Selections,    \* sequences of tasks _select_tasks may return
    Concurrency,   \* --concurrency
    PoolSize       \* threads of the default executor

OutcomeFields == {"completed", "checks", "trace", "tokens", "seconds"}

ASSUME BenchmarkAssumption ==
    /\ \A o \in Outcomes :
            /\ DOMAIN o = OutcomeFields
            /\ o.trace \in Seq(Observations) /\ o.tokens \in Nat /\ o.seconds \in Nat
            /\ o.completed \in BOOLEAN /\ o.checks \in BOOLEAN
    /\ \A s \in Selections : DOMAIN s = 1..Len(s) /\ Len(s) \in Nat \ {0}
    /\ Concurrency \in Nat \ {0} /\ PoolSize \in Nat \ {0}

-----------------------------------------------------------------------------
(* _run_live_case and CodingReport.aggregate *)

CaseResult(task, o) ==
    [id |-> task, passed |-> o.completed /\ o.checks,
     first_pass |-> FirstPass(o.trace), metrics |-> Metrics(o.trace),
     tokens |-> o.tokens, seconds |-> o.seconds]

Aggregate(cases) ==
    [total |-> Len(cases),
     passed |-> Count(cases, LAMBDA c : c.passed),
     first_pass |-> Count(cases, LAMBDA c : c.first_pass),
     tokens |-> Total([i \in DOMAIN cases |-> cases[i].tokens]),
     seconds |-> Total([i \in DOMAIN cases |-> cases[i].seconds]),
     denied |-> Total([i \in DOMAIN cases |-> cases[i].metrics.denied]),
     repeated_reads |-> Total([i \in DOMAIN cases |-> cases[i].metrics.repeated_reads]),
     recoverable |-> Total([i \in DOMAIN cases |-> cases[i].metrics.recoverable]),
     recovered |-> Total([i \in DOMAIN cases |-> cases[i].metrics.recovered]),
     cases |-> cases]

-----------------------------------------------------------------------------
VARIABLES
    tasks,      \* the selected tasks, <<>> while the runner is not used
    coroutine,  \* where run_one is, for each place of tasks
    thread,     \* where the case's thread is
    outcome,    \* how the case ended, or NoOutcome
    active,     \* counters of run_tasks_concurrently
    peak,
    main,       \* the awaiting coroutine and the process around it
    report,     \* the persisted report, or NoReport
    finishing,  \* history: the places in the order their cases ended
    most        \* history: the most cases that were ever running at once

runnerVars == <<tasks, coroutine, thread, outcome, active, peak, main, report,
                finishing, most>>

NoOutcome == [completed |-> FALSE]
NoReport == [total |-> -1]
Places == DOMAIN tasks
Inside == {i \in Places : coroutine[i] = "inside"}
Running(t) == {i \in DOMAIN t : t[i] = "running"}
Larger(a, b) == IF a >= b THEN a ELSE b

RunnerInit(s) ==
    /\ tasks = s
    /\ coroutine = [i \in DOMAIN s |-> "waiting"]
    /\ thread = [i \in DOMAIN s |-> "none"]
    /\ outcome = [i \in DOMAIN s |-> NoOutcome]
    /\ active = 0 /\ peak = 0 /\ most = 0
    /\ main = "gathering"
    /\ report = NoReport
    /\ finishing = <<>>

\* Mutant of Permits: the permit is given back when the thread is submitted.
PermitsOfWaiting == Concurrency

\* Mutant of Permits: the permit is not given back.
PermitsKept == Concurrency - Cardinality({i \in Places : coroutine[i] # "waiting"})

Permits == Concurrency - Cardinality(Inside)

(***************************************************************************)
(* The semaphore serves its waiters in order.  Between permit and thread   *)
(* nothing is awaited, as the lock around the counters is never contended. *)
(***************************************************************************)
Enter(i) ==
    /\ main = "gathering" /\ coroutine[i] = "waiting"
    /\ \A j \in 1..(i - 1) : coroutine[j] # "waiting"
    /\ Permits > 0
    /\ coroutine' = [coroutine EXCEPT ![i] = "inside"]
    /\ active' = active + 1
    /\ peak' = Larger(peak, active + 1)
    /\ thread' = [thread EXCEPT ![i] = "submitted"]
    /\ UNCHANGED <<tasks, outcome, main, report, finishing, most>>

StartCase(i) ==
    /\ thread[i] = "submitted"
    /\ \A j \in 1..(i - 1) : thread[j] # "submitted"
    /\ Cardinality(Running(thread)) < PoolSize
    /\ thread' = [thread EXCEPT ![i] = "running"]
    /\ most' = Larger(most, Cardinality(Running(thread')))
    /\ UNCHANGED <<tasks, coroutine, outcome, active, peak, main, report,
                   finishing>>

EndCase(i) ==
    /\ thread[i] = "running"
    /\ finishing' = Append(finishing, i)
    /\ \/ \E o \in Outcomes :
            /\ outcome' = [outcome EXCEPT ![i] = o]
            /\ thread' = [thread EXCEPT ![i] = "finished"]
       \/ /\ thread' = [thread EXCEPT ![i] = "raised"]   \* no provider, a checker raises
          /\ UNCHANGED outcome
    /\ UNCHANGED <<tasks, coroutine, active, peak, main, report, most>>

(* run_one gets the thread's result, counts down and leaves the semaphore. *)
Return(i) ==
    /\ coroutine[i] = "inside" /\ thread[i] \in {"finished", "raised"}
    /\ coroutine' = [coroutine EXCEPT
            ![i] = IF thread[i] = "finished" THEN "returned" ELSE "raised"]
    /\ active' = active - 1
    /\ UNCHANGED <<tasks, thread, outcome, peak, main, report, finishing, most>>

(***************************************************************************)
(* gather raises with the first case that raised; asyncio.run cancels what *)
(* is left of run_one and waits for the threads, which cannot be stopped.  *)
(***************************************************************************)
GatherRaises ==
    /\ main = "gathering" /\ \E i \in Places : coroutine[i] = "raised"
    /\ main' = "failing"
    /\ coroutine' = [i \in Places |->
            IF coroutine[i] \in {"waiting", "inside"} THEN "cancelled"
                                                      ELSE coroutine[i]]
    /\ thread' = [i \in Places |->
            IF thread[i] = "submitted" THEN "none" ELSE thread[i]]
    /\ active' = active - Cardinality(Inside)
    /\ UNCHANGED <<tasks, outcome, peak, report, finishing, most>>

Fail ==
    /\ main = "failing" /\ Running(thread) = {}
    /\ main' = "failed"
    /\ UNCHANGED <<tasks, coroutine, thread, outcome, active, peak, report,
                   finishing, most>>

\* Mutant of Gathered: the results in the order in which the cases ended.
GatheredAsFinished ==
    [i \in Places |-> CaseResult(tasks[i], outcome[finishing[i]])]

Gathered == [i \in Places |-> CaseResult(tasks[i], outcome[i])]

Report ==
    /\ main = "gathering" /\ \A i \in Places : coroutine[i] = "returned"
    /\ tasks # <<>>
    /\ main' = "reported"
    /\ report' = Aggregate(Gathered)
    /\ UNCHANGED <<tasks, coroutine, thread, outcome, active, peak, finishing,
                   most>>

RunnerStep ==
    \/ \E i \in Places : Enter(i) \/ StartCase(i) \/ EndCase(i) \/ Return(i)
    \/ GatherRaises \/ Fail \/ Report

RunnerIsDone == main \in {"reported", "failed"}

-----------------------------------------------------------------------------
(***************************************************************************)
(* No more cases run than --concurrency allows, in no order of their       *)
(* starts, ends and failures and not while a failed run is wound up, and   *)
(* the counter that is reported never says less than what really ran       *)
(* (async_runner.py:50-79).                                                *)
(***************************************************************************)
InFlight ==
    /\ Cardinality(Running(thread)) <= Concurrency
    /\ most <= peak /\ peak <= Concurrency
    /\ active = Cardinality(Inside)

(***************************************************************************)
(* A report has every selected task in order, whatever the order in which  *)
(* the cases ended, each with the result of its own run.  Said without the *)
(* loops that compute them: each case's calls, reads, repeated reads,      *)
(* failures and recoveries and whether its first green test run was its    *)
(* last word, its tokens, the failures attribute_run finds, and the        *)
(* report's numbers of passed and first-pass cases.  The report's sums     *)
(* over the cases are only bound by there being no more recoveries than    *)
(* failures to recover from (async_runner.py:78, models.py:141-221,        *)
(* metrics.py:150-237, attribution.py:74-116, runner.py:106-132).          *)
(***************************************************************************)
LaterSuccess(trace, i) ==
    {j \in DOMAIN trace : j > i /\ trace[j].success /\ trace[j].name = trace[i].name}
GreenAndLast(trace) ==
    \E g \in DOMAIN trace :
        /\ trace[g].pytest = "green"
        /\ \A j \in DOMAIN trace : j > g =>
                /\ trace[j].pytest # "red"
                /\ ~(trace[j].success /\ trace[j].name \in WriteTools)
        /\ \A j \in DOMAIN trace : j < g => trace[j].pytest # "green"
RightMetrics(m, trace) ==
    LET reads == {i \in DOMAIN trace : trace[i].name = "read_file"}
        named == {i \in reads : trace[i].given}
        failures == {i \in DOMAIN trace : ~trace[i].success}
    IN  /\ m.tool_calls = m.tool_successes + Cardinality(failures)
        /\ m.total_reads = Cardinality(reads)
        /\ m.repeated_reads =
                Cardinality(named) - Cardinality({trace[i].path : i \in named})
        /\ m.recoverable = Cardinality(failures \ {Len(trace)})
        /\ m.recovered = Cardinality({i \in failures : LaterSuccess(trace, i) # {}})
        /\ LET a == Attribution(trace)
           IN  /\ m.recoverable = a.recoverable /\ m.recovered = a.recovered
               /\ m.denied <= a.policy_denials
               /\ a.error_kinds = {} <=> failures = {}

ReportIsTrue ==
    report # NoReport =>
        /\ report.total = Len(tasks)
        /\ report.recovered <= report.recoverable
        /\ \A i \in DOMAIN tasks :
            LET case == report.cases[i]
            IN  /\ case.id = tasks[i]
                /\ case.passed = (outcome[i].completed /\ outcome[i].checks)
                /\ case.tokens = outcome[i].tokens
                /\ case.first_pass = GreenAndLast(outcome[i].trace)
                /\ RightMetrics(case.metrics, outcome[i].trace)
        /\ report.passed =
            Cardinality({i \in DOMAIN tasks : outcome[i].completed /\ outcome[i].checks})
        /\ report.first_pass =
            Cardinality({i \in DOMAIN tasks : GreenAndLast(outcome[i].trace)})
=============================================================================
