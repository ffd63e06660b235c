-------------------------- MODULE EvaluationProofs --------------------------
(***************************************************************************)
(* The evaluation programs, for any tasks, outcomes, permits, strategies   *)
(* and measurements and for traces of any length: the concurrent benchmark *)
(* keeps to its permits and its report is true, and evolution promotes     *)
(* only what is better.                                                    *)
(***************************************************************************)
EXTENDS Evaluation, Loops

-----------------------------------------------------------------------------
(* The inductive invariant.                                                *)

RunnerType ==
  /\ IsFiniteSet(Places)
  /\ coroutine \in [Places -> {"waiting", "inside", "returned", "raised",
                               "cancelled"}]
  /\ thread \in [Places -> {"none", "submitted", "running", "finished",
                            "raised"}]
  /\ active \in Nat /\ peak \in Nat /\ most \in Nat

\* Until gather ends, a thread works for a coroutine that holds a permit;
\* afterwards no thread is begun.
ThreadInv ==
  /\ main = "gathering" =>
        \A i \in Places : thread[i] \in {"submitted", "running"} =>
            coroutine[i] = "inside"
  /\ main # "gathering" => \A i \in Places : thread[i] # "submitted"

\* The counters; what runs after gather has raised was within them before.
CounterInv ==
  /\ active = Cardinality(Inside)
  /\ active <= peak /\ peak <= Concurrency
  /\ Cardinality(Running(thread)) <= peak
  /\ most <= peak

IInv == RunnerType /\ ThreadInv /\ CounterInv

-----------------------------------------------------------------------------
LEMMA InitInv ==
  Init => IInv
<1> SUFFICES ASSUME Init
             PROVE  IInv
  OBVIOUS
<1>1. PICK s \in Selections \cup {<<>>} : RunnerInit(s)
  BY DEF Init
<1>2. IsFiniteSet(DOMAIN s)
  <2>1. CASE s = <<>>
    BY <2>1, FS_EmptySet
  <2>2. CASE s \in Selections
    <3>1. DOMAIN s = 1..Len(s) /\ Len(s) \in Nat
      BY <2>2, BenchmarkAssumption
    <3> QED
      BY <3>1, FS_Interval
  <2> QED
    BY <2>1, <2>2, <1>1
<1>3. Inside = {} /\ Running(thread) = {}
  BY <1>1 DEF RunnerInit, Inside, Places, Running
<1>4. Cardinality({}) = 0
  BY FS_EmptySet
<1>5. RunnerType
  BY <1>1, <1>2 DEF RunnerInit, RunnerType, Places
<1>6. ThreadInv
  BY <1>1 DEF RunnerInit, ThreadInv, Places
<1>7. CounterInv
  <2>1. Concurrency \in Nat
    BY BenchmarkAssumption
  <2> QED
    <3>1. active = 0 /\ peak = 0 /\ most = 0
      BY <1>1 DEF RunnerInit
    <3> QED
      BY <1>3, <1>4, <2>1, <3>1 DEF CounterInv
<1> QED
  BY <1>5, <1>6, <1>7 DEF IInv

LEMMA TypeStep ==
  ASSUME IInv, RunnerStep
  PROVE  RunnerType'
<1> USE DEF IInv, RunnerType, Places
<1>0. active = Cardinality(Inside) /\ IsFiniteSet(Inside)
  <2>1. Inside \in SUBSET Places
    BY DEF Inside
  <2> QED
    BY <2>1, FS_Subset DEF CounterInv
<1>1. ASSUME NEW i \in Places, Enter(i)
      PROVE  RunnerType'
  BY <1>1 DEF Enter, Larger
<1>2. ASSUME NEW i \in Places, StartCase(i)
      PROVE  RunnerType'
  <2>1. thread' \in [Places -> {"none", "submitted", "running", "finished",
                                "raised"}]
    BY <1>2 DEF StartCase
  <2>2. IsFiniteSet(Running(thread'))
    <3>1. Running(thread') \in SUBSET Places
      BY <2>1 DEF Running
    <3> QED
      BY <3>1, FS_Subset
  <2>3. Cardinality(Running(thread')) \in Nat
    BY <2>2, FS_CardinalityType
  <2> QED
    BY <1>2, <2>1, <2>3 DEF StartCase, Larger
<1>3. ASSUME NEW i \in Places, EndCase(i)
      PROVE  RunnerType'
  BY <1>3 DEF EndCase
<1>4. ASSUME NEW i \in Places, Return(i)
      PROVE  RunnerType'
  <2>1. i \in Inside
    BY <1>4 DEF Return, Inside
  <2>2. Inside # {} => Cardinality(Inside) # 0
    BY <1>0, FS_EmptySet
  <2>3. active - 1 \in Nat
    BY <1>0, <2>1, <2>2
  <2> QED
    BY <1>4, <2>3 DEF Return
<1>5. ASSUME GatherRaises
      PROVE  RunnerType'
  BY <1>5, <1>0 DEF GatherRaises
<1>6. ASSUME Fail \/ Report
      PROVE  RunnerType'
  BY <1>6 DEF Fail, Report
<1> QED
  BY <1>1, <1>2, <1>3, <1>4, <1>5, <1>6 DEF RunnerStep

LEMMA ThreadStep ==
  ASSUME IInv, RunnerStep
  PROVE  ThreadInv'
<1> USE DEF IInv, RunnerType, ThreadInv, Places
<1>1. ASSUME NEW i \in Places, Enter(i)
      PROVE  ThreadInv'
  BY <1>1 DEF Enter
<1>2. ASSUME NEW i \in Places, StartCase(i)
      PROVE  ThreadInv'
  BY <1>2 DEF StartCase
<1>3. ASSUME NEW i \in Places, EndCase(i)
      PROVE  ThreadInv'
  BY <1>3 DEF EndCase
<1>4. ASSUME NEW i \in Places, Return(i)
      PROVE  ThreadInv'
  BY <1>4 DEF Return
<1>5. CASE GatherRaises
  BY <1>5 DEF GatherRaises
<1>6. CASE Fail
  BY <1>6 DEF Fail
<1>7. CASE Report
  BY <1>7 DEF Report
<1> QED
  BY <1>1, <1>2, <1>3, <1>4, <1>5, <1>6, <1>7 DEF RunnerStep

LEMMA CounterStep ==
  ASSUME IInv, RunnerStep
  PROVE  CounterInv'
<1> USE DEF IInv
<1>0. /\ IsFiniteSet(Inside) /\ Cardinality(Inside) \in Nat
      /\ IsFiniteSet(Running(thread)) /\ Cardinality(Running(thread)) \in Nat
  <2>1. Inside \in SUBSET Places /\ Running(thread) \in SUBSET Places
    BY DEF Inside, Running, RunnerType, Places
  <2>2. IsFiniteSet(Inside) /\ IsFiniteSet(Running(thread))
    BY <2>1, FS_Subset DEF RunnerType
  <2> QED
    BY <2>2, FS_CardinalityType
<1>1. ASSUME NEW i \in Places, Enter(i)
      PROVE  CounterInv'
  <2>1. Cardinality(Inside)' = Cardinality(Inside) + 1
    <3>1. Inside' = Inside \cup {i} /\ i \notin Inside
      BY <1>1 DEF Enter, Inside, Places, RunnerType
    <3> QED
      BY <3>1, <1>0, FS_AddElement
  <2>2. Running(thread)' = Running(thread)
    BY <1>1 DEF Enter, Running, RunnerType, Places, ThreadInv
  <2>3. active + 1 <= Concurrency
    BY <1>1, <1>0, BenchmarkAssumption DEF Enter, Permits, CounterInv
  <2> QED
    BY <1>1, <1>0, <2>1, <2>2, <2>3, BenchmarkAssumption
    DEF Enter, CounterInv, RunnerType, Larger
<1>2. ASSUME NEW i \in Places, StartCase(i)
      PROVE  CounterInv'
  <2>1. main = "gathering"
    BY <1>2 DEF StartCase, ThreadInv
  <2>2. Running(thread') \subseteq Inside
    BY <1>2, <2>1 DEF StartCase, ThreadInv, Running, Inside, RunnerType, Places
  <2>3. Cardinality(Running(thread')) <= Cardinality(Inside)
    BY <2>2, <1>0, FS_Subset
  <2>4. Cardinality(Running(thread')) \in Nat
    BY <2>2, <1>0, FS_Subset, FS_CardinalityType
  <2>5. Inside' = Inside /\ Running(thread)' = Running(thread')
    BY <1>2 DEF StartCase, Inside, Places, Running
  <2> QED
    BY <1>2, <1>0, <2>3, <2>4, <2>5, BenchmarkAssumption
    DEF StartCase, CounterInv, RunnerType, Larger
<1>3. ASSUME NEW i \in Places, EndCase(i)
      PROVE  CounterInv'
  <2>1. Running(thread)' \subseteq Running(thread)
    BY <1>3 DEF EndCase, Running, RunnerType, Places
  <2>2. Cardinality(Running(thread)') <= Cardinality(Running(thread))
    BY <2>1, <1>0, FS_Subset
  <2>3. Cardinality(Running(thread)') \in Nat
    BY <2>1, <1>0, FS_Subset, FS_CardinalityType
  <2>4. Inside' = Inside
    BY <1>3 DEF EndCase, Inside, Places
  <2> QED
    BY <1>3, <1>0, <2>2, <2>3, <2>4 DEF EndCase, CounterInv, RunnerType
<1>4. ASSUME NEW i \in Places, Return(i)
      PROVE  CounterInv'
  <2>1. Cardinality(Inside)' = Cardinality(Inside) - 1
    <3>1. Inside' = Inside \ {i} /\ i \in Inside
      BY <1>4 DEF Return, Inside, Places, RunnerType
    <3> QED
      BY <3>1, <1>0, FS_RemoveElement
  <2>2. Running(thread)' = Running(thread)
    BY <1>4 DEF Return, Running
  <2> QED
    BY <1>4, <1>0, <2>1, <2>2, BenchmarkAssumption
    DEF Return, CounterInv, RunnerType
<1>5. CASE GatherRaises
  <2>1. Inside' = {}
    BY <1>5 DEF GatherRaises, Inside, Places
  <2>2. Cardinality(Inside)' = 0
    BY <2>1, FS_EmptySet
  <2>3. Running(thread)' = Running(thread)
    BY <1>5 DEF GatherRaises, Running, RunnerType, Places
  <2> QED
    BY <1>5, <1>0, <2>2, <2>3, BenchmarkAssumption
    DEF GatherRaises, CounterInv, RunnerType
<1>6. CASE Fail \/ Report
  <2>1. Inside' = Inside /\ Running(thread)' = Running(thread)
    BY <1>6 DEF Fail, Report, Inside, Places, Running
  <2> QED
    BY <1>6, <2>1 DEF Fail, Report, CounterInv
<1> QED
  BY <1>1, <1>2, <1>3, <1>4, <1>5, <1>6 DEF RunnerStep

LEMMA StepInv ==
  IInv /\ [Next]_vars => IInv'
<1> SUFFICES ASSUME IInv, [Next]_vars
             PROVE  IInv'
  OBVIOUS
<1>1. CASE RunnerStep
  BY <1>1, TypeStep, ThreadStep, CounterStep DEF IInv
<1>2. CASE UNCHANGED runnerVars
  BY <1>2 DEF IInv, runnerVars, RunnerType, ThreadInv, CounterInv, Places,
              Inside, Running
<1> QED
  BY <1>1, <1>2 DEF Next, RunAsync, Evolve, vars

(***************************************************************************)
(* The inductive invariant of the concurrent benchmark: a thread works     *)
(* under a permit until gather ends, and no thread is begun afterwards.    *)
(***************************************************************************)
THEOREM InvariantHolds == Spec => []IInv
BY InitInv, StepInv, PTL DEF Spec

(***************************************************************************)
(* Never more cases run than --concurrency allows, also while a failed run *)
(* is wound up, and the reported peak is no less than what ran             *)
(* (async_runner.py:50-79).                                                *)
(***************************************************************************)
THEOREM CasesWithinPermits == Spec => []InFlight
<1>1. IInv => InFlight
  <2> SUFFICES ASSUME IInv
               PROVE  InFlight
    OBVIOUS
  <2>1. Running(thread) \in SUBSET Places
    BY DEF IInv, RunnerType, Running, Places
  <2>2. Cardinality(Running(thread)) \in Nat
    BY <2>1, FS_Subset, FS_CardinalityType DEF IInv, RunnerType
  <2> QED
    BY <2>2, BenchmarkAssumption DEF IInv, RunnerType, CounterInv, InFlight
<1> QED
  BY <1>1, InvariantHolds, PTL
-----------------------------------------------------------------------------
(* What the loops compute.                                                 *)

\* What is appended one by one.
LEMMA ChangesType ==
  Changes \in Seq(Fields \X Nat)
<1> DEFINE n == Len(Mutations)
           T == Seq(Fields \X Nat)
           New(m) == [v \in 1..m.values |-> <<m.field, v>>]
           Solves(iter) == iter = [s \in SUBSET DOMAIN Mutations |->
                   IF s = {} THEN <<>> ELSE iter[s \ {Max(s)}] \o New(Mutations[Max(s)])]
<1>1. n \in Nat /\ DOMAIN Mutations = 1..n
      /\ \A k \in 1..n : Mutations[k] \in [field : STRING, values : Nat \ {0}]
  <2>1. PICK R : R = [field : STRING, values : Nat \ {0}]
    OBVIOUS
  <2>2. Mutations \in Seq(R)
    BY <2>1, EvolutionAssumption
  <2>3. n \in Nat /\ DOMAIN Mutations = 1..n
    BY <2>2
  <2>4. \A k \in 1..n : Mutations[k] \in R
    BY <2>2, <2>3
  <2> QED
    BY <2>1, <2>3, <2>4, Zenon
<1>2. \A k \in 1..n : New(Mutations[k]) \in T
  <2>1. ASSUME NEW k \in 1..n
        PROVE  New(Mutations[k]) \in T
    <3>1. Mutations[k] \in [field : STRING, values : Nat \ {0}]
      BY <1>1
    <3>2. Mutations[k].field \in Fields /\ Mutations[k].values \in Nat
      BY <1>1, <3>1 DEF Fields
    <3>3. New(Mutations[k]) \in [1..Mutations[k].values -> Fields \X Nat]
      BY <3>2
    <3> QED
      BY <3>2, <3>3
  <2> QED
    BY <2>1
<1> HIDE DEF New
<1>3. \E iter : Solves(iter)
  <2>1. PICK step : step = [k \in 1..n |-> [v \in T |-> v \o New(Mutations[k])]]
    OBVIOUS
  <2>2. step \in [1..n -> [T -> T]] /\ <<>> \in T
    BY <1>2, <2>1
  <2>3. PICK iter \in [SUBSET (1..n) -> T] :
          /\ Folding(iter, n, <<>>, step)
          /\ \A s \in SUBSET (1..n) : s # {} => Max(s) \in 1..n /\ iter[s \ {Max(s)}] \in T
    BY <1>1, <2>2, FoldTypes
  <2>4. Solves(iter)
    BY <1>1, <2>1, <2>3 DEF Folding
  <2> QED
    BY <2>4
<1>4. PICK iter : Solves(iter) /\ Changes = iter[DOMAIN Mutations]
  BY <1>3 DEF Changes, FoldLeft, MapThenFoldSet, New
<1>5. iter[{}] = <<>>
  BY <1>4
<1>6. ASSUME NEW k \in 1..n
      PROVE  iter[1..k] = iter[1..k - 1] \o New(Mutations[k])
  <2>1. 1..k \in SUBSET DOMAIN Mutations /\ 1..k # {} /\ Max(1..k) = k
        /\ (1..k) \ {k} = 1..k - 1
    BY <1>1, IntervalFacts
  <2> QED
    BY <1>4, <2>1
<1>7. PICK f : f = [k \in 0..n |-> iter[1..k]]
  OBVIOUS
<1>8. f[0] = <<>> /\ f[n] = Changes
  BY <1>1, <1>4, <1>5, <1>7, EmptyInterval
<1>9. ASSUME NEW k \in 1..n, f[k - 1] \in T
      PROVE  f[k] \in T
  <2>1. f[k] = f[k - 1] \o New(Mutations[k])
    BY <1>1, <1>6, <1>7, IntervalFacts
  <2> QED
    BY <1>2, <1>9, <2>1
<1>10. n \in Nat /\ f[0] \in T
  BY <1>1, <1>8
<1>11. \A k \in 0..n : f[k] \in T
  BY <1>9, <1>10, LoopType
<1> QED
  BY <1>1, <1>8, <1>11, EmptyInterval

-----------------------------------------------------------------------------
(* Strategies.                                                             *)

\* What one change makes of a strategy, and what attribution adds.
Changed(b) == {With(b, "cand", f, v) : f \in Fields, v \in Nat}
Hinted == {With(Default, "attr", f, v) : f \in HintedFields, v \in Nat}
Pool(b) == {b} \cup Changed(b) \cup Hinted

\* The version tells the last change.
Traceable(s) ==
  /\ s = [version |-> s.version, knobs |-> s.knobs]
  /\ s.knobs \in [Fields -> Nat]
  /\ \/ s = Default
     \/ \E f \in Fields, v \in Nat : s.version = <<"cand", f, v>> /\ s.knobs[f] = v
     \/ s \in Hinted

LEMMA WithIs ==
  ASSUME NEW s, NEW k, NEW f, NEW v, s.knobs \in [Fields -> Nat], v \in Nat
  PROVE  /\ With(s, k, f, v).version = <<k, f, v>>
         /\ With(s, k, f, v).knobs = [s.knobs EXCEPT ![f] = v]
         /\ With(s, k, f, v).knobs \in [Fields -> Nat]
         /\ f \in Fields => With(s, k, f, v).knobs[f] = v
         /\ f \in Fields /\ s.knobs[f] = v => With(s, k, f, v).knobs = s.knobs
BY DEF With

LEMMA DefaultIs ==
  /\ Default.version = <<"v1", "", 0>> /\ Default.knobs \in [Fields -> Nat]
  /\ Default = [version |-> Default.version, knobs |-> Default.knobs]
BY DEF Default

LEMMA PoolIsTraceable ==
  ASSUME NEW b, Traceable(b), NEW c \in Pool(b)
  PROVE  Traceable(c)
<1>1. CASE c = b
  BY <1>1
<1>2. CASE c \in Changed(b)
  <2>1. PICK f \in Fields, v \in Nat : c = With(b, "cand", f, v)
    BY <1>2 DEF Changed
  <2>2. b.knobs \in [Fields -> Nat]
    BY DEF Traceable
  <2>3. c.version = <<"cand", f, v>> /\ c.knobs[f] = v /\ c.knobs \in [Fields -> Nat]
    BY <2>1, <2>2 DEF With
  <2>4. c = [version |-> c.version, knobs |-> c.knobs]
    BY <2>1 DEF With
  <2> QED
    BY <2>3, <2>4 DEF Traceable
<1>3. CASE c \in Hinted
  <2>1. PICK f \in HintedFields, v \in Nat : c = With(Default, "attr", f, v)
    BY <1>3 DEF Hinted
  <2>2. c.knobs \in [Fields -> Nat]
    BY <2>1, DefaultIs, WithIs
  <2>3. c = [version |-> c.version, knobs |-> c.knobs]
    BY <2>1 DEF With
  <2> QED
    BY <1>3, <2>2, <2>3 DEF Traceable
<1> QED
  BY <1>1, <1>2, <1>3 DEF Pool

\* Two candidates of one generation that have the same version are wired the
\* same: next() over the candidates finds the measured one or its equal.
LEMMA SameVersion ==
  ASSUME NEW b, Traceable(b), NEW c \in Pool(b), NEW d \in Pool(b),
         c.version = d.version
  PROVE  c.knobs = d.knobs
<1>1. b.knobs \in [Fields -> Nat]
  BY DEF Traceable
<1>2. ASSUME NEW e \in Changed(b)
      PROVE  \E f \in Fields, v \in Nat :
               /\ e.version = <<"cand", f, v>> /\ e.knobs = [b.knobs EXCEPT ![f] = v]
               /\ b.knobs[f] = v => e.knobs = b.knobs
  <2>1. PICK f \in Fields, v \in Nat : e = With(b, "cand", f, v)
    BY <1>2 DEF Changed
  <2> QED
    BY <1>1, <2>1 DEF With
<1>3. ASSUME NEW e \in Hinted
      PROVE  \E f, v : /\ e.version = <<"attr", f, v>>
                       /\ e.knobs = [Default.knobs EXCEPT ![f] = v]
  <2>1. PICK f \in HintedFields, v \in Nat : e = With(Default, "attr", f, v)
    BY <1>3 DEF Hinted
  <2> QED
    BY <2>1, DefaultIs DEF With
<1>4. \/ b.version = <<"v1", "", 0>>
      \/ \E f, v : b.version = <<"cand", f, v>> /\ b.knobs[f] = v
      \/ b \in Hinted
  BY DefaultIs DEF Traceable
<1>5. \A k, l, f, g, v, w : <<k, f, v>> = <<l, g, w>> => k = l /\ f = g /\ v = w
  OBVIOUS
<1>6. ASSUME NEW e \in Changed(b), NEW g \in Changed(b), e.version = g.version
      PROVE  e.knobs = g.knobs
  <2>1. PICK f \in Fields, v \in Nat :
          e.version = <<"cand", f, v>> /\ e.knobs = [b.knobs EXCEPT ![f] = v]
    BY <1>2
  <2>2. PICK h \in Fields, w \in Nat :
          g.version = <<"cand", h, w>> /\ g.knobs = [b.knobs EXCEPT ![h] = w]
    BY <1>2
  <2>3. f = e.version[2] /\ v = e.version[3]
    BY <2>1
  <2>4. h = g.version[2] /\ w = g.version[3]
    BY <2>2
  <2>5. f = h /\ v = w
    BY <1>6, <2>3, <2>4
  <2> QED
    BY <2>1, <2>2, <2>5
<1>7. ASSUME NEW e \in Hinted, NEW g \in Hinted, e.version = g.version
      PROVE  e.knobs = g.knobs
  <2>1. PICK f, v : e.version = <<"attr", f, v>>
                    /\ e.knobs = [Default.knobs EXCEPT ![f] = v]
    BY <1>3
  <2>2. PICK h, w : g.version = <<"attr", h, w>>
                    /\ g.knobs = [Default.knobs EXCEPT ![h] = w]
    BY <1>3
  <2>3. f = e.version[2] /\ v = e.version[3]
    BY <2>1
  <2>4. h = g.version[2] /\ w = g.version[3]
    BY <2>2
  <2>5. f = h /\ v = w
    BY <1>7, <2>3, <2>4
  <2> QED
    BY <2>1, <2>2, <2>5
<1>8. ASSUME NEW e \in Changed(b), NEW g \in Hinted
      PROVE  e.version # g.version
  <2>1. PICK f, v : e.version = <<"cand", f, v>>
    BY <1>2
  <2>2. PICK h, w : g.version = <<"attr", h, w>>
    BY <1>3
  <2>3. "cand" # "attr"
    OBVIOUS
  <2> QED
    BY <1>5, <2>1, <2>2, <2>3
<1>9. ASSUME NEW e \in Changed(b), e.version = b.version
      PROVE  e.knobs = b.knobs
  <2>1. PICK f \in Fields, v \in Nat :
          e.version = <<"cand", f, v>> /\ (b.knobs[f] = v => e.knobs = b.knobs)
    BY <1>2
  <2>2. b \notin Hinted
    BY <1>8, <1>9
  <2>3. "cand" # "v1"
    OBVIOUS
  <2>4. b.knobs[f] = v
    BY <1>4, <1>5, <1>9, <2>1, <2>2, <2>3
  <2> QED
    BY <2>1, <2>4
<1>10. ASSUME NEW e \in Hinted, e.version = b.version
      PROVE  e.knobs = b.knobs
  <2>1. PICK h, w : e.version = <<"attr", h, w>>
    BY <1>3
  <2>2. "attr" # "v1" /\ "attr" # "cand"
    OBVIOUS
  <2>3. b \in Hinted
    BY <1>4, <1>5, <1>10, <2>1, <2>2
  <2> QED
    BY <1>7, <1>10, <2>3
<1>11. c \in {b} \cup Changed(b) \cup Hinted /\ d \in {b} \cup Changed(b) \cup Hinted
  BY DEF Pool
<1> QED
  BY <1>6, <1>7, <1>8, <1>9, <1>10, <1>11

-----------------------------------------------------------------------------
(* The candidates of a generation.                                         *)

\* Sequences of candidates that the base begins.
Led(b, S) == {cs \in Seq(S) : Len(cs) >= 1 /\ cs[1] = b}

LEMMA LedAppend ==
  ASSUME NEW b, NEW S, NEW cs \in Led(b, S), NEW c \in S
  PROVE  Append(cs, c) \in Led(b, S)
<1>1. cs \in Seq(S) /\ Len(cs) >= 1 /\ cs[1] = b
  BY DEF Led
<1>2. Append(cs, c) \in Seq(S)
  BY <1>1
<1>3. Len(Append(cs, c)) = Len(cs) + 1 /\ Len(cs) \in Nat
  BY <1>1
<1>4. Append(cs, c)[1] = b
  BY <1>1, <1>3
<1>5. Len(Append(cs, c)) >= 1
  BY <1>1, <1>3
<1> QED
  BY <1>2, <1>4, <1>5, Zenon DEF Led

LEMMA LedSubSeq ==
  ASSUME NEW b, NEW S, NEW cs \in Led(b, S), NEW k \in 1..Len(cs)
  PROVE  SubSeq(cs, 1, k) \in Led(b, S)
<1>1. cs \in Seq(S) /\ Len(cs) >= 1 /\ cs[1] = b /\ k \in Nat /\ k >= 1 /\ k <= Len(cs)
  BY DEF Led
<1>2. SubSeq(cs, 1, k) \in Seq(S)
  BY <1>1
<1>3. Len(SubSeq(cs, 1, k)) = k /\ SubSeq(cs, 1, k)[1] = cs[1]
  BY <1>1
<1> QED
  BY <1>1, <1>2, <1>3 DEF Led

LEMMA GenerateType ==
  ASSUME NEW b, Traceable(b)
  PROVE  GenerateCandidates(b) \in Led(b, {b} \cup Changed(b))
<1> DEFINE n == Len(Changes)
           S == {b} \cup Changed(b)
           T == Led(b, S)
           Add(cs, c) == IF b.knobs[c[1]] = c[2] THEN cs
                         ELSE Append(cs, With(b, "cand", c[1], c[2]))
           All == FoldLeft(Add, <<b>>, Changes)
           Solves(iter) == iter = [s \in SUBSET DOMAIN Changes |->
                   IF s = {} THEN <<b>> ELSE Add(iter[s \ {Max(s)}], Changes[Max(s)])]
<1>1. n \in Nat /\ DOMAIN Changes = 1..n
      /\ \A k \in 1..n : Changes[k] \in Fields \X Nat
  BY ChangesType
<1>2. \A k \in 1..n : \A cs \in T : Add(cs, Changes[k]) \in T
  <2>1. ASSUME NEW k \in 1..n, NEW cs \in T
        PROVE  Add(cs, Changes[k]) \in T
    <3>1. Changes[k][1] \in Fields /\ Changes[k][2] \in Nat
      BY <1>1
    <3>2. With(b, "cand", Changes[k][1], Changes[k][2]) \in S
      BY <3>1 DEF Changed
    <3> HIDE DEF S
    <3> QED
      BY <3>2, LedAppend
  <2> QED
    BY <2>1
<1>3. <<b>> \in T
  BY DEF Led
<1> HIDE DEF Add
<1>4. \E iter : Solves(iter)
  <2>1. PICK step : step = [k \in 1..n |-> [v \in T |-> Add(v, Changes[k])]]
    OBVIOUS
  <2>2. step \in [1..n -> [T -> T]]
    BY <1>2, <2>1
  <2>3. PICK iter \in [SUBSET (1..n) -> T] :
          /\ Folding(iter, n, <<b>>, step)
          /\ \A s \in SUBSET (1..n) : s # {} => Max(s) \in 1..n /\ iter[s \ {Max(s)}] \in T
    BY <1>1, <1>3, <2>2, FoldTypes
  <2>4. Solves(iter)
    BY <1>1, <2>1, <2>3 DEF Folding
  <2> QED
    BY <2>4
<1>5. PICK iter : Solves(iter) /\ All = iter[DOMAIN Changes]
  BY <1>4 DEF FoldLeft, MapThenFoldSet
<1>6. iter[{}] = <<b>>
  BY <1>5
<1>7. ASSUME NEW k \in 1..n
      PROVE  iter[1..k] = Add(iter[1..k - 1], Changes[k])
  <2>1. 1..k \in SUBSET DOMAIN Changes /\ 1..k # {} /\ Max(1..k) = k
        /\ (1..k) \ {k} = 1..k - 1
    BY <1>1, IntervalFacts
  <2> QED
    BY <1>5, <2>1
<1>8. PICK f : f = [k \in 0..n |-> iter[1..k]]
  OBVIOUS
<1>9. f[0] = <<b>> /\ f[n] = All
  BY <1>1, <1>5, <1>6, <1>8, EmptyInterval
<1>10. ASSUME NEW k \in 1..n, f[k - 1] \in T
       PROVE  f[k] \in T
  <2>1. f[k] = Add(f[k - 1], Changes[k])
    BY <1>1, <1>7, <1>8, IntervalFacts
  <2> QED
    BY <1>2, <1>10, <2>1
<1>11. n \in Nat /\ f[0] \in T
  BY <1>1, <1>3, <1>9
<1>12. \A k \in 0..n : f[k] \in T
  BY <1>10, <1>11, LoopType
<1>13. All \in Led(b, S)
  BY <1>1, <1>9, <1>12, EmptyInterval
<1>14. PICK k : k = IF Len(All) <= Larger(1, MaxCandidates) THEN Len(All)
                    ELSE Larger(1, MaxCandidates)
  OBVIOUS
<1>15. GenerateCandidates(b) = SubSeq(All, 1, k)
  BY <1>14 DEF GenerateCandidates, Add
<1>16. k \in 1..Len(All)
  <2>1. Len(All) \in Nat /\ Len(All) >= 1
    BY <1>13 DEF Led
  <2>2. MaxCandidates \in Nat
    BY EvolutionAssumption
  <2>3. PICK l \in Nat : l = Len(All)
    BY <2>1
  <2> HIDE DEF All
  <2> QED
    BY <1>14, <2>1, <2>2, <2>3 DEF Larger
<1>17. PICK all : all = All
  OBVIOUS
<1>18. SubSeq(all, 1, k) \in Led(b, S)
  <2> HIDE DEF All, S
  <2>1. all \in Led(b, S) /\ k \in 1..Len(all)
    BY <1>13, <1>16, <1>17
  <2> QED
    BY <2>1, LedSubSeq
<1> QED
  BY <1>15, <1>17, <1>18

LEMMA HintsType ==
  ASSUME NEW t
  PROVE  AttributionCandidates(Default, t) \in Seq(Hinted)
<1>1. "instructions" \in HintedFields /\ "skill_top_k" \in HintedFields
      /\ "retry_max_retries" \in HintedFields
  BY DEF HintedFields
<1>2. \A f \in HintedFields, v \in {1, 2} : With(Default, "attr", f, v) \in Hinted
  BY DEF Hinted
<1>3. \A f \in HintedFields, v \in {1, 2} :
        <<With(Default, "attr", f, v)>> \in Seq(Hinted)
  BY <1>2
<1>4. <<>> \in Seq(Hinted)
  OBVIOUS
<1>5. \A u, v \in Seq(Hinted) : u \o v \in Seq(Hinted)
  OBVIOUS
<1>6. PICK p, q, r : p = (Attribution(t).failed_tools # {})
        /\ q = (/\ Attribution(t).recoverable > 0
                /\ 2 * Attribution(t).recovered < Attribution(t).recoverable
                /\ Default.knobs["skill_top_k"] = 0)
        /\ r = (/\ Attribution(t).error_kinds \cap {"timeout", "execution"} # {}
                /\ Default.knobs["retry_max_retries"] # 2)
  OBVIOUS
<1>7. PICK u, v, w :
        /\ u = IF p THEN <<With(Default, "attr", "instructions", 1)>> ELSE <<>>
        /\ v = IF q THEN <<With(Default, "attr", "skill_top_k", 1)>> ELSE <<>>
        /\ w = IF r THEN <<With(Default, "attr", "retry_max_retries", 2)>> ELSE <<>>
  OBVIOUS
<1>8. AttributionCandidates(Default, t) = u \o v \o w
  BY <1>6, <1>7, Zenon DEF AttributionCandidates
<1>9. u \in Seq(Hinted) /\ v \in Seq(Hinted) /\ w \in Seq(Hinted)
  <2>2. /\ <<With(Default, "attr", "instructions", 1)>> \in Seq(Hinted)
        /\ <<With(Default, "attr", "skill_top_k", 1)>> \in Seq(Hinted)
        /\ <<With(Default, "attr", "retry_max_retries", 2)>> \in Seq(Hinted)
    <3>1. 1 \in {1, 2} /\ 2 \in {1, 2}
      OBVIOUS
    <3> QED
      BY <1>1, <1>3, <3>1, Zenon
  <2> QED
    BY <1>4, <1>7, <2>2
<1> QED
  BY <1>5, <1>8, <1>9

LEMMA CandidatesType ==
  ASSUME NEW b, Traceable(b), NEW extra \in Seq(Hinted)
  PROVE  Candidates(b, extra) \in Led(b, Pool(b))
<1> DEFINE n == Len(extra)
           own == GenerateCandidates(b)
           T == Led(b, Pool(b))
           known == {own[i].version : i \in DOMAIN own}
           AddNew(cs, c) == IF c.version \in known THEN cs ELSE Append(cs, c)
           Solves(iter) == iter = [s \in SUBSET DOMAIN extra |->
                   IF s = {} THEN own ELSE AddNew(iter[s \ {Max(s)}], extra[Max(s)])]
<1>1. n \in Nat /\ DOMAIN extra = 1..n /\ \A k \in 1..n : extra[k] \in Hinted
  OBVIOUS
<1>2. \A k \in 1..n : \A cs \in T : AddNew(cs, extra[k]) \in T
  <2>1. ASSUME NEW k \in 1..n, NEW cs \in T
        PROVE  AddNew(cs, extra[k]) \in T
    <3>1. extra[k] \in Pool(b)
      BY <1>1 DEF Pool
    <3> QED
      BY <3>1, LedAppend
  <2> QED
    BY <2>1
<1>3. own \in T
  <2>1. PICK U : U = {b} \cup Changed(b)
    OBVIOUS
  <2>2. own \in Seq(U) /\ Len(own) >= 1 /\ own[1] = b
    BY <2>1, GenerateType DEF Led
  <2>3. U \subseteq Pool(b)
    BY <2>1 DEF Pool
  <2> HIDE DEF own
  <2>4. own \in Seq(Pool(b))
    BY <2>2, <2>3
  <2> QED
    BY <2>2, <2>4 DEF Led
<1> HIDE DEF AddNew, own
<1>4. \E iter : Solves(iter)
  <2>1. PICK step : step = [k \in 1..n |-> [v \in T |-> AddNew(v, extra[k])]]
    OBVIOUS
  <2>2. step \in [1..n -> [T -> T]]
    BY <1>2, <2>1
  <2>3. PICK iter \in [SUBSET (1..n) -> T] :
          /\ Folding(iter, n, own, step)
          /\ \A s \in SUBSET (1..n) : s # {} => Max(s) \in 1..n /\ iter[s \ {Max(s)}] \in T
    BY <1>1, <1>3, <2>2, FoldTypes
  <2>4. Solves(iter)
    BY <1>1, <2>1, <2>3 DEF Folding
  <2> QED
    BY <2>4
<1>5. PICK iter : Solves(iter) /\ Candidates(b, extra) = iter[DOMAIN extra]
  BY <1>4 DEF Candidates, FoldLeft, MapThenFoldSet, AddNew, own
<1>6. iter[{}] = own
  BY <1>5
<1>7. ASSUME NEW k \in 1..n
      PROVE  iter[1..k] = AddNew(iter[1..k - 1], extra[k])
  <2>1. 1..k \in SUBSET DOMAIN extra /\ 1..k # {} /\ Max(1..k) = k
        /\ (1..k) \ {k} = 1..k - 1
    BY <1>1, IntervalFacts
  <2> QED
    BY <1>5, <2>1
<1>8. PICK f : f = [k \in 0..n |-> iter[1..k]]
  OBVIOUS
<1>9. f[0] = own /\ f[n] = Candidates(b, extra)
  BY <1>1, <1>5, <1>6, <1>8, EmptyInterval
<1>10. ASSUME NEW k \in 1..n, f[k - 1] \in T
       PROVE  f[k] \in T
  <2>1. f[k] = AddNew(f[k - 1], extra[k])
    BY <1>1, <1>7, <1>8, IntervalFacts
  <2> QED
    BY <1>2, <1>10, <2>1
<1>11. n \in Nat /\ f[0] \in T
  BY <1>1, <1>3, <1>9
<1>12. \A k \in 0..n : f[k] \in T
  BY <1>10, <1>11, LoopType
<1> QED
  BY <1>1, <1>9, <1>12, EmptyInterval

-----------------------------------------------------------------------------
(* The ranking of measurements.                                            *)

ScoreType == [passed : Nat, tokens : Nat, seconds : Nat, recovered : Nat,
              recoverable : Nat]

\* Fractions are compared by cross-multiplication.
LEMMA Cancel ==
  ASSUME NEW x \in Nat, NEW y \in Nat, NEW z \in Nat, z > 0
  PROVE  /\ x * z \in Nat /\ y * z \in Nat
         /\ x > y <=> x * z > y * z
OBVIOUS

LEMMA Times ==
  ASSUME NEW x \in Nat, NEW y \in Nat, NEW z \in Nat
  PROVE  x * y \in Nat /\ x * y = y * x /\ (x * y) * z = (x * z) * y
OBVIOUS

LEMMA FractionsOrdered ==
  ASSUME NEW p \in Nat, NEW q \in Nat, NEW r \in Nat,
         NEW k \in Nat, NEW l \in Nat, NEW m \in Nat, k > 0, l > 0, m > 0
  PROVE  /\ p * l > q * k /\ q * m > r * l => p * m > r * k
         /\ ~(p * l > q * k) /\ ~(q * m > r * l) => ~(p * m > r * k)
<1>1. /\ (p * l) * m = (p * m) * l /\ (q * k) * m = (q * m) * k
      /\ (r * l) * k = (r * k) * l
  BY Times
<1>2. p * l > q * k <=> (p * m) * l > (q * m) * k
  BY Cancel, Times, <1>1
<1>3. q * m > r * l <=> (q * m) * k > (r * k) * l
  BY Cancel, Times, <1>1
<1>4. p * m > r * k <=> (p * m) * l > (r * k) * l
  BY Cancel, Times, <1>1
<1>5. PICK u, v, w \in Nat : u = (p * m) * l /\ v = (q * m) * k /\ w = (r * k) * l
  BY Times
<1> QED
  BY <1>2, <1>3, <1>4, <1>5

\* A run without failures has recovered as much as one that recovered nothing.
LEMMA RecoveryOrdered ==
  ASSUME NEW a \in ScoreType, NEW b \in ScoreType, NEW c \in ScoreType
  PROVE  /\ ~RecoveredMore(a, a)
         /\ RecoveredMore(a, b) /\ RecoveredMore(b, c) => RecoveredMore(a, c)
         /\ ~RecoveredMore(a, b) /\ ~RecoveredMore(b, c) => ~RecoveredMore(a, c)
<1> DEFINE Num(s) == IF s.recoverable = 0 THEN 0 ELSE s.recovered
           Den(s) == IF s.recoverable = 0 THEN 1 ELSE s.recoverable
<1>1. \A s \in ScoreType : Num(s) \in Nat /\ Den(s) \in Nat /\ Den(s) > 0
  BY DEF ScoreType
<1>2. ASSUME NEW s \in ScoreType, NEW t \in ScoreType
      PROVE  RecoveredMore(s, t) <=> Num(s) * Den(t) > Num(t) * Den(s)
  <2>1. PICK p \in Nat, q \in Nat, k \in Nat, l \in Nat :
          p = s.recovered /\ k = s.recoverable /\ q = t.recovered /\ l = t.recoverable
    BY DEF ScoreType
  <2>2. RecoveredMore(s, t) <=>
          IF k = 0 THEN FALSE ELSE IF l = 0 THEN p > 0 ELSE p * l > q * k
    BY <2>1, Zenon DEF RecoveredMore
  <2>3. /\ Num(s) = (IF k = 0 THEN 0 ELSE p) /\ Den(s) = (IF k = 0 THEN 1 ELSE k)
        /\ Num(t) = (IF l = 0 THEN 0 ELSE q) /\ Den(t) = (IF l = 0 THEN 1 ELSE l)
    BY <2>1
  <2>4. /\ 0 * l = 0 /\ 0 * k = 0 /\ p * 1 = p /\ q * 1 = q /\ 0 * 1 = 0
        /\ q * k >= 0 /\ p * l >= 0
    BY Times
  <2> QED
    BY <2>2, <2>3, <2>4
<1> HIDE DEF Num, Den
<1>3. ~(Num(a) * Den(a) > Num(a) * Den(a))
  BY <1>1, Times
<1> QED
  BY <1>1, <1>2, <1>3, FractionsOrdered

\* RanksHigher is a strict weak order.
LEMMA RankingOrdered ==
  ASSUME NEW a \in ScoreType, NEW b \in ScoreType, NEW c \in ScoreType
  PROVE  /\ ~RanksHigher(a, a)
         /\ RanksHigher(a, b) /\ RanksHigher(b, c) => RanksHigher(a, c)
         /\ ~RanksHigher(a, b) /\ ~RanksHigher(b, c) => ~RanksHigher(a, c)
<1>1. /\ ~RecoveredMore(a, a)
      /\ RecoveredMore(a, b) /\ RecoveredMore(b, c) => RecoveredMore(a, c)
      /\ ~RecoveredMore(a, b) /\ ~RecoveredMore(b, c) => ~RecoveredMore(a, c)
  BY RecoveryOrdered
<1>2. \A s \in ScoreType : s.passed \in Nat /\ s.tokens \in Nat /\ s.seconds \in Nat
  BY DEF ScoreType
<1> QED
  BY <1>1, <1>2 DEF RanksHigher

\* Of finitely many measurements one is the first of the best.
LEMMA FirstBestExists ==
  ASSUME NEW n \in Nat, n > 0, NEW t \in [1..n -> ScoreType]
  PROVE  \E i \in 1..n : /\ \A j \in 1..n : ~RanksHigher(t[j], t[i])
                         /\ \A j \in 1..(i - 1) : RanksHigher(t[i], t[j])
<1> DEFINE First(k) ==
             \E i \in 1..k : /\ \A j \in 1..k : ~RanksHigher(t[j], t[i])
                             /\ \A j \in 1..(i - 1) : RanksHigher(t[i], t[j])
           S == {k \in Nat : k \in 1..n => First(k)}
<1>1. 0 \in S
  OBVIOUS
<1>2. ASSUME NEW k \in S
      PROVE  k + 1 \in S
  <2>1. SUFFICES ASSUME k + 1 \in 1..n
                 PROVE  First(k + 1)
    OBVIOUS
  <2>2. k \in Nat /\ t[k + 1] \in ScoreType /\ k + 1 \in 1..k + 1
        /\ (k + 1) - 1 = k
    BY <2>1
  <2>3. CASE k = 0
    <3>1. 1..k + 1 = {1} /\ 1..(1 - 1) = {} /\ t[1] \in ScoreType
      BY <2>2, <2>3
    <3>2. ~RanksHigher(t[1], t[1])
      BY <3>1, RankingOrdered
    <3> QED
      BY <3>1, <3>2
  <2>4. CASE k > 0
    <3>1. k \in 1..n /\ \A j \in 1..k : j \in 1..k + 1 /\ t[j] \in ScoreType
      BY <2>1, <2>2, <2>4
    <3>2. PICK i \in 1..k : /\ \A j \in 1..k : ~RanksHigher(t[j], t[i])
                            /\ \A j \in 1..(i - 1) : RanksHigher(t[i], t[j])
      BY <3>1
    <3>3. \A j \in 1..k + 1 : j \in 1..k \/ j = k + 1
      BY <2>2
    <3>4. CASE ~RanksHigher(t[k + 1], t[i])
      BY <3>1, <3>2, <3>3, <3>4
    <3>5. CASE RanksHigher(t[k + 1], t[i])
      <4>1. \A j \in 1..k : ~RanksHigher(t[j], t[k + 1]) /\ RanksHigher(t[k + 1], t[j])
        BY <2>2, <3>1, <3>2, <3>5, RankingOrdered
      <4>2. ~RanksHigher(t[k + 1], t[k + 1])
        BY <2>2, RankingOrdered
      <4> QED
        BY <2>2, <3>3, <4>1, <4>2
    <3> QED
      BY <3>4, <3>5
  <2> QED
    BY <2>2, <2>3, <2>4
<1>3. Nat \subseteq S
  <2> HIDE DEF S
  <2> QED
    BY <1>1, <1>2, SetInduction
<1>4. n \in S
  <2> HIDE DEF S
  <2> QED
    BY <1>3
<1>5. n \in 1..n
  OBVIOUS
<1>6. First(n)
  <2> HIDE DEF First
  <2> QED
    BY <1>4, <1>5
<1> QED
  BY <1>6

-----------------------------------------------------------------------------
(* What is measured.                                                       *)

LEMMA MetricsType ==
  ASSUME NEW t \in Seq(Observations)
  PROVE  Metrics(t).recoverable \in Nat /\ Metrics(t).recovered \in Nat
<1>1. Len(t) \in Nat
  OBVIOUS
<1>2. Recoverable(t) \in SUBSET (1..Len(t)) /\ Recovered(t) \in SUBSET (1..Len(t))
  BY <1>1 DEF Recoverable, Recovered
<1>3. Cardinality(Recoverable(t)) \in Nat /\ Cardinality(Recovered(t)) \in Nat
  BY <1>1, <1>2, Counts
<1> QED
  BY <1>3 DEF Metrics

LEMMA ScoresType ==
  ASSUME NEW split \in {"train", "holdout"}, NEW r \in PossibleScores[split]
  PROVE  r \in ScoreType
<1>1. Splits[split] \in Seq(STRING) /\ split \in DOMAIN Splits
  BY EvolutionAssumption
<1>2. PICK n \in Nat : n = Len(Splits[split]) /\ DOMAIN Splits[split] = 1..n
  BY <1>1
<1>3. PICK os \in [1..n -> Outcomes] :
        r = Scores(Aggregate([i \in DOMAIN os |-> CaseResult(Splits[split][i], os[i])]))
  BY <1>1, <1>2 DEF PossibleScores
<1>4. PICK cases : cases = [i \in 1..n |-> CaseResult(Splits[split][i], os[i])]
  OBVIOUS
<1>5. DOMAIN cases = 1..n /\ r = Scores(Aggregate(cases))
  BY <1>3, <1>4
<1>6. ASSUME NEW i \in 1..n
      PROVE  /\ cases[i].tokens \in Nat /\ cases[i].seconds \in Nat
             /\ cases[i].metrics.recoverable \in Nat
             /\ cases[i].metrics.recovered \in Nat
  <2>1. /\ os[i].trace \in Seq(Observations)
        /\ os[i].tokens \in Nat /\ os[i].seconds \in Nat
    BY BenchmarkAssumption
  <2>2. /\ cases[i].tokens = os[i].tokens /\ cases[i].seconds = os[i].seconds
        /\ cases[i].metrics = Metrics(os[i].trace)
    BY <1>4 DEF CaseResult
  <2> QED
    BY <2>1, <2>2, MetricsType
<1>7. /\ [i \in 1..n |-> cases[i].tokens] \in [1..n -> Nat]
      /\ [i \in 1..n |-> cases[i].seconds] \in [1..n -> Nat]
      /\ [i \in 1..n |-> cases[i].metrics.recoverable] \in [1..n -> Nat]
      /\ [i \in 1..n |-> cases[i].metrics.recovered] \in [1..n -> Nat]
  BY <1>6
<1>8. \A values \in [1..n -> Nat] : Total(values) \in Nat
  <2>1. ASSUME NEW values \in [1..n -> Nat]
        PROVE  Total(values) \in Nat
    <3>1. PICK sum \in [0..n -> Nat] : Total(values) = sum[n]
      BY TotalLoop
    <3> QED
      BY <3>1
  <2> QED
    BY <2>1
<1>9. /\ Total([i \in 1..n |-> cases[i].tokens]) \in Nat
      /\ Total([i \in 1..n |-> cases[i].seconds]) \in Nat
      /\ Total([i \in 1..n |-> cases[i].metrics.recoverable]) \in Nat
      /\ Total([i \in 1..n |-> cases[i].metrics.recovered]) \in Nat
  BY <1>7, <1>8, Zenon
<1>10. Cardinality({i \in 1..n : cases[i].passed}) \in Nat
  BY Counts
<1>11. /\ r.passed = Cardinality({i \in 1..n : cases[i].passed})
       /\ r.tokens = Total([i \in 1..n |-> cases[i].tokens])
       /\ r.seconds = Total([i \in 1..n |-> cases[i].seconds])
       /\ r.recoverable = Total([i \in 1..n |-> cases[i].metrics.recoverable])
       /\ r.recovered = Total([i \in 1..n |-> cases[i].metrics.recovered])
  BY <1>5 DEF Scores, Aggregate, Count
<1>12. r = [passed |-> r.passed, tokens |-> r.tokens, seconds |-> r.seconds,
            recovered |-> r.recovered, recoverable |-> r.recoverable]
  BY <1>5 DEF Scores
<1> QED
  BY <1>9, <1>10, <1>11, <1>12 DEF ScoreType

-----------------------------------------------------------------------------
(* The invariant of strategy evolution.                                    *)

\* The results are of the first candidates, and candidates are of the base.
GenerationInv ==
  status \in {"base", "candidates"} =>
    /\ candidates \in Led(base, Pool(base))
    /\ \E S : results \in Seq(S)
    /\ Len(results) <= Len(candidates)
    /\ \A i \in 1..Len(results) :
         results[i].version = candidates[i].version /\ results[i].train \in ScoreType
    /\ status = "base" => results = <<>>

EvolutionInv ==
  /\ Traceable(base) /\ extras \in Seq(Hinted)
  /\ GenerationInv

\* A generation begins without results.
LEMMA GenerationBegins ==
  ASSUME NEW b, Traceable(b), NEW extra \in Seq(Hinted),
         NEW cs, cs = Candidates(b, extra), NEW rs, rs = <<>>
  PROVE  /\ cs \in Led(b, Pool(b)) /\ \E S : rs \in Seq(S)
         /\ Len(rs) <= Len(cs) /\ 1..Len(rs) = {}
<1>1. cs \in Led(b, Pool(b))
  BY CandidatesType
<1>2. rs \in Seq({}) /\ Len(rs) = 0 /\ 1..0 = {}
  OBVIOUS
<1>3. Len(cs) \in Nat /\ Len(cs) >= 1
  BY <1>1 DEF Led
<1> QED
  BY <1>1, <1>2, <1>3

LEMMA EvolutionInitInv ==
  Init => EvolutionInv
<1> SUFFICES ASSUME Init PROVE EvolutionInv
  OBVIOUS
<1>1. EvolutionInit
  BY DEF Init
<1>2. base = Default /\ results = <<>> /\ candidates = Candidates(Default, extras)
  BY <1>1 DEF EvolutionInit
<1>3. PICK t : extras = AttributionCandidates(Default, t)
  BY <1>1 DEF EvolutionInit
<1>4. Traceable(base) /\ extras \in Seq(Hinted)
  BY <1>2, <1>3, DefaultIs, HintsType DEF Traceable
<1>5. /\ candidates \in Led(base, Pool(base)) /\ \E S : results \in Seq(S)
      /\ Len(results) <= Len(candidates) /\ 1..Len(results) = {}
  BY <1>2, <1>4, GenerationBegins
<1>6. GenerationInv
  BY <1>2, <1>5, Zenon DEF GenerationInv
<1> QED
  BY <1>4, <1>6 DEF EvolutionInv

LEMMA MeasureCandidateStep ==
  ASSUME EvolutionInv, MeasureCandidate
  PROVE  EvolutionInv'
<1> USE DEF EvolutionInv
<1>1. PICK t \in PossibleScores["train"], h \in PossibleScores["holdout"] :
        results' = Append(results, [version |-> candidates[Len(results) + 1].version,
                                    train |-> t, holdout |-> h])
  BY DEF MeasureCandidate
<1>2. /\ status = "candidates" /\ status' = "candidates"
      /\ Len(results) < Len(candidates)
      /\ UNCHANGED <<extras, base, candidates>>
  BY DEF MeasureCandidate
<1>3. PICK S : results \in Seq(S)
  BY <1>2 DEF GenerationInv
<1>4. PICK n \in Nat : n = Len(results)
  BY <1>3
<1>5. PICK e : e = [version |-> candidates[n + 1].version, train |-> t, holdout |-> h]
  OBVIOUS
<1>6. e.version = candidates[n + 1].version /\ e.train \in ScoreType
  BY <1>5, ScoresType
<1>7. /\ results' \in Seq(S \cup {e}) /\ Len(results') = n + 1
      /\ results'[n + 1] = e /\ \A i \in 1..n : results'[i] = results[i]
  <2>1. results \in Seq(S \cup {e}) /\ e \in S \cup {e}
    BY <1>3
  <2> QED
    BY <1>1, <1>4, <1>5, <2>1
<1>8. candidates \in Led(base, Pool(base)) /\ n + 1 <= Len(candidates)
  <2>1. candidates \in Led(base, Pool(base))
    BY <1>2 DEF GenerationInv
  <2>2. Len(candidates) \in Nat
    BY <2>1 DEF Led
  <2> QED
    BY <1>2, <1>4, <2>1, <2>2
<1>9. ASSUME NEW i \in 1..n + 1
      PROVE  /\ results'[i].version = candidates'[i].version
             /\ results'[i].train \in ScoreType
  <2>1. CASE i \in 1..n
    <3>1. results[i].version = candidates[i].version /\ results[i].train \in ScoreType
      BY <1>2, <1>4, <2>1 DEF GenerationInv
    <3> QED
      BY <1>2, <1>7, <2>1, <3>1
  <2>2. CASE i = n + 1
    BY <1>2, <1>6, <1>7, <2>2
  <2> QED
    BY <2>1, <2>2
<1>10. GenerationInv'
  <2>1. (candidates \in Led(base, Pool(base)))'
    BY <1>2, <1>8
  <2>2. \E U : results' \in Seq(U)
    BY <1>7
  <2>3. Len(results') <= Len(candidates') /\ 1..Len(results') = 1..n + 1
    BY <1>2, <1>7, <1>8
  <2>4. status' # "base"
    BY <1>2
  <2> QED
    BY <1>9, <2>1, <2>2, <2>3, <2>4, Zenon DEF GenerationInv
<1>11. Traceable(base)' /\ (extras \in Seq(Hinted))'
  BY <1>2 DEF Traceable
<1> QED
  BY <1>10, <1>11

LEMMA LeastExists ==
  ASSUME NEW S \in SUBSET Nat, S # {}
  PROVE  \E x \in S : \A y \in S : x <= y
<1> DEFINE R == OpToRel(<, Nat)
<1>1. IsWellFoundedOn(R, Nat)
  BY NatLessThanWellFounded
<1>2. PICK x \in S : \A y \in S : ~(<<y, x>> \in R)
  <2> HIDE DEF R
  <2> QED
    BY <1>1, WFMin
<1>3. \A y \in S : ~(y < x)
  BY <1>2 DEF OpToRel
<1> QED
  BY <1>3

\* next() over the candidates finds one.
LEMMA NamedIs ==
  ASSUME NEW n \in Nat, DOMAIN candidates = 1..n, NEW k \in 1..n
  PROVE  \E c \in 1..n : /\ Named(candidates[k].version) = candidates[c]
                         /\ candidates[c].version = candidates[k].version
<1> DEFINE version == candidates[k].version
           S == {i \in 1..n : candidates[i].version = version}
<1>1. PICK x \in S : \A y \in S : x <= y
  <2>1. S \in SUBSET Nat /\ S # {}
    OBVIOUS
  <2> HIDE DEF S
  <2> QED
    BY <2>1, LeastExists
<1>2. \A j \in 1..(x - 1) : candidates[j].version # version
  <2>1. \A j \in 1..(x - 1) : j \in 1..n /\ ~(x <= j)
    BY <1>1
  <2> QED
    BY <1>1, <2>1
<1>3. \E i \in DOMAIN candidates :
        /\ candidates[i].version = version
        /\ \A j \in 1..(i - 1) : candidates[j].version # version
  BY <1>1, <1>2
<1> HIDE DEF version
<1>4. PICK c \in DOMAIN candidates :
        Named(version) = candidates[c] /\ candidates[c].version = version
  BY <1>3 DEF Named
<1> QED
  BY <1>4 DEF version

\* max finds the first of the best results.
LEMMA BestIs ==
  ASSUME NEW n \in Nat, n > 0, DOMAIN results = 1..n,
         \A i \in 1..n : results[i].train \in ScoreType
  PROVE  /\ Best \in 1..n
         /\ \A j \in 1..n : ~RanksHigher(results[j].train, results[Best].train)
         /\ \A j \in 1..(Best - 1) : RanksHigher(results[Best].train, results[j].train)
<1>1. PICK t : t = [i \in 1..n |-> results[i].train]
  OBVIOUS
<1>2. t \in [1..n -> ScoreType]
  BY <1>1
<1>3. PICK i \in 1..n : /\ \A j \in 1..n : ~RanksHigher(t[j], t[i])
                        /\ \A j \in 1..(i - 1) : RanksHigher(t[i], t[j])
  BY <1>2, FirstBestExists
<1>4. \A j \in 1..(i - 1) : j \in 1..n
  OBVIOUS
<1>5. /\ \A j \in DOMAIN results : ~RanksHigher(results[j].train, results[i].train)
      /\ \A j \in 1..(i - 1) : RanksHigher(results[i].train, results[j].train)
  BY <1>1, <1>3, <1>4
<1> QED
  BY <1>5 DEF Best

\* What the end of a generation makes the next base: the base as it is, or the
\* candidate that was the best measured, though it is looked up by its name.
LEMMA SuccessorIs ==
  ASSUME EvolutionInv, status = "candidates", Len(results) = Len(candidates),
         NEW next, next = Successor(results[Best])
  PROVE  /\ next \in Pool(base)
         /\ next # base => \E i \in DOMAIN results : Earned(i, next)
<1> USE DEF EvolutionInv
<1>1. candidates \in Led(base, Pool(base))
  BY DEF GenerationInv
<1>2. PICK n \in Nat : n = Len(candidates) /\ DOMAIN candidates = 1..n
  BY <1>1 DEF Led
<1>3. /\ n > 0 /\ candidates[1] = base
      /\ \A i \in 1..n : candidates[i] \in Pool(base)
  BY <1>1, <1>2 DEF Led
<1>4. DOMAIN results = 1..n
  BY <1>2 DEF GenerationInv
<1>5. \A i \in 1..n :
        results[i].version = candidates[i].version /\ results[i].train \in ScoreType
  BY <1>2 DEF GenerationInv
<1>6. PICK b \in 1..n : b = Best
  BY <1>3, <1>4, <1>5, BestIs
<1>7. /\ \A j \in 1..n : ~RanksHigher(results[j].train, results[b].train)
      /\ \A j \in 1..(b - 1) : RanksHigher(results[b].train, results[j].train)
  BY <1>3, <1>4, <1>5, <1>6, BestIs
<1>8. CASE ~Promotes(results[b])
  <2>1. next = base
    BY <1>6, <1>8 DEF Successor
  <2> QED
    BY <2>1 DEF Pool
<1>9. CASE Promotes(results[b])
  <2>1. PICK c \in 1..n : /\ next = candidates[c]
                          /\ candidates[c].version = candidates[b].version
    BY <1>2, <1>5, <1>6, <1>9, NamedIs DEF Successor
  <2>2. next = candidates[b]
    <3>1. next.knobs = candidates[b].knobs /\ next.version = candidates[b].version
      BY <1>3, <2>1, SameVersion
    <3>2. Traceable(next) /\ Traceable(candidates[b])
      BY <1>3, <2>1, PoolIsTraceable
    <3> QED
      BY <3>1, <3>2 DEF Traceable
  <2>3. next \in Pool(base)
    BY <1>3, <2>1
  <2>4. next.version # base.version /\ b # 1
    BY <1>3, <1>5, <1>9, <2>2 DEF Promotes
  <2>5. 1 \in 1..(b - 1)
    BY <2>4
  <2>6. candidates[1] = base /\ RanksHigher(results[b].train, results[1].train)
    BY <1>3, <1>7, <2>5
  <2>7. /\ results[b].holdout.passed >= base_holdout.passed
        /\ \/ results[b].holdout.tokens < base_holdout.tokens
           \/ results[b].holdout.seconds < base_holdout.seconds
           \/ RecoveredMore(results[b].holdout, base_holdout)
    BY <1>9 DEF Promotes, ImprovesHoldout
  <2>8. \E s \in {base, Default} :
          next.knobs = [s.knobs EXCEPT ![next.version[2]] = next.version[3]]
    <3>1. next \in Changed(base) \/ next \in Hinted
      BY <2>3, <2>4 DEF Pool
    <3>2. PICK s \in {base, Default} : \E k, f, v : next = With(s, k, f, v)
      BY <3>1 DEF Changed, Hinted
    <3>5. PICK k, f, v : next = With(s, k, f, v)
      BY <3>2
    <3>3. next.version = <<k, f, v>> /\ next.knobs = [s.knobs EXCEPT ![f] = v]
      BY <3>5 DEF With
    <3>4. next.version[2] = f /\ next.version[3] = v
      BY <3>3
    <3> QED
      BY <3>3, <3>4
  <2>9. \A j \in DOMAIN results : ~RanksHigher(results[j].train, results[b].train)
    BY <1>4, <1>7
  <2>10. Earned(b, next)
    BY <2>2, <2>4, <2>6, <2>7, <2>8, <2>9, Zenon DEF Earned
  <2> QED
    BY <1>4, <2>3, <2>10
<1> QED
  BY <1>8, <1>9

LEMMA DecideStep ==
  ASSUME EvolutionInv, Decide
  PROVE  /\ EvolutionInv'
         /\ base' # base => \E i \in DOMAIN results : Earned(i, base')
<1> USE DEF EvolutionInv
<1>1. PICK next : /\ next = Successor(results[Best])
                  /\ base' = next
                  /\ IF next # base /\ generation < Generations
                     THEN status' = "base" /\ candidates' = Candidates(next, extras)
                     ELSE status' = "saved"
  BY DEF Decide
<1>2. /\ status = "candidates" /\ Len(results) = Len(candidates)
      /\ results' = <<>> /\ UNCHANGED extras
  BY DEF Decide
<1>3. /\ next \in Pool(base)
      /\ next # base => \E i \in DOMAIN results : Earned(i, next)
  BY <1>1, <1>2, SuccessorIs
<1>4. Traceable(next)
  BY <1>3, PoolIsTraceable
<1>5. Traceable(base)' /\ (extras \in Seq(Hinted))'
  BY <1>1, <1>2, <1>4 DEF Traceable
<1>6. GenerationInv'
  <2>1. CASE status' = "base"
    <3>1. /\ candidates' \in Led(next, Pool(next)) /\ \E S : results' \in Seq(S)
          /\ Len(results') <= Len(candidates') /\ 1..Len(results') = {}
      BY <1>1, <1>2, <1>4, <2>1, GenerationBegins
    <3>2. (candidates \in Led(base, Pool(base)))'
      BY <1>1, <3>1
    <3> QED
      BY <1>2, <3>1, <3>2, Zenon DEF GenerationInv
  <2>2. CASE status' = "saved"
    BY <2>2 DEF GenerationInv
  <2> QED
    BY <1>1, <2>1, <2>2
<1> QED
  BY <1>1, <1>3, <1>5, <1>6

LEMMA EvolutionStepInv ==
  EvolutionInv /\ [Next]_vars =>
    /\ EvolutionInv'
    /\ base' # base => \E i \in DOMAIN results : Earned(i, base')
<1> SUFFICES ASSUME EvolutionInv, [Next]_vars
             PROVE  /\ EvolutionInv'
                    /\ base' # base => \E i \in DOMAIN results : Earned(i, base')
  OBVIOUS
<1>1. CASE MeasurementRaises
  <2>1. status' = "failed" /\ UNCHANGED <<extras, base>>
    BY <1>1 DEF MeasurementRaises
  <2> QED
    BY <2>1 DEF EvolutionInv, GenerationInv, Traceable
<1>2. CASE MeasureBase
  <2>1. /\ status = "base" /\ status' = "candidates"
        /\ UNCHANGED <<extras, base, candidates, results>>
    BY <1>2 DEF MeasureBase
  <2>2. /\ candidates \in Led(base, Pool(base)) /\ \E S : results \in Seq(S)
        /\ Len(results) <= Len(candidates) /\ results = <<>>
    BY <2>1 DEF EvolutionInv, GenerationInv
  <2>3. (candidates \in Led(base, Pool(base)))' /\ \E S : results' \in Seq(S)
    BY <2>1, <2>2
  <2>4. Len(results') <= Len(candidates') /\ results' = <<>> /\ 1..Len(results') = {}
    BY <2>1, <2>2
  <2>5. GenerationInv'
    BY <2>3, <2>4, Zenon DEF GenerationInv
  <2> QED
    BY <2>1, <2>5 DEF EvolutionInv, Traceable
<1>3. CASE UNCHANGED evolutionVars
  <2>1. UNCHANGED <<extras, base, candidates, results, status>>
    BY <1>3 DEF evolutionVars
  <2>2. Traceable(base)' /\ (extras \in Seq(Hinted))'
    BY <2>1 DEF EvolutionInv, Traceable
  <2>3. CASE status \notin {"base", "candidates"}
    BY <2>1, <2>2, <2>3 DEF EvolutionInv, GenerationInv
  <2>4. CASE status \in {"base", "candidates"}
    <3>1. /\ candidates \in Led(base, Pool(base)) /\ \E S : results \in Seq(S)
          /\ Len(results) <= Len(candidates)
          /\ \A i \in 1..Len(results) : /\ results[i].version = candidates[i].version
                                        /\ results[i].train \in ScoreType
          /\ status = "base" => results = <<>>
      BY <2>4 DEF EvolutionInv, GenerationInv
    <3>2. (candidates \in Led(base, Pool(base)))' /\ \E S : results' \in Seq(S)
      BY <2>1, <3>1
    <3>3. /\ Len(results') <= Len(candidates')
          /\ \A i \in 1..Len(results') : /\ results'[i].version = candidates'[i].version
                                         /\ results'[i].train \in ScoreType
          /\ status' = "base" => results' = <<>>
      BY <2>1, <3>1
    <3>4. GenerationInv'
      BY <3>2, <3>3, Zenon DEF GenerationInv
    <3> QED
      BY <2>1, <2>2, <3>4 DEF EvolutionInv
  <2> QED
    BY <2>1, <2>3, <2>4
<1>4. CASE MeasureCandidate
  <2>1. base' = base
    BY <1>4 DEF MeasureCandidate
  <2> QED
    BY <1>4, <2>1, MeasureCandidateStep
<1> QED
  BY <1>1, <1>2, <1>3, <1>4, DecideStep
  DEF Next, RunAsync, Evolve, EvolutionStep, vars

(***************************************************************************)
(* Over any number of generations, whatever the mutations, the traces that *)
(* give hints and what each measurement gives, also the same strategy's    *)
(* from one measurement to the next: what becomes the base is the measured *)
(* candidate no other outranks, above the base of its generation on the    *)
(* training tasks and no worse on the holdout tasks, and is that base or   *)
(* the first with the one change its name tells (evolution.py:87-104,      *)
(* 189-301).                                                               *)
(***************************************************************************)
THEOREM PromotionsHold == Spec => PromotionsAreEarned
<1>1. EvolutionInv /\ [Next]_vars =>
        [base' # base => \E i \in DOMAIN results : Earned(i, base')]_evolutionVars
  BY EvolutionStepInv
<1> QED
  BY <1>1, EvolutionInitInv, EvolutionStepInv, PTL DEF Spec, PromotionsAreEarned

-----------------------------------------------------------------------------
(* What is read off a trace.                                               *)

LEMMA TraceIs ==
  ASSUME NEW t \in Seq(Observations)
  PROVE  /\ Len(t) \in Nat /\ DOMAIN t = 1..Len(t)
         /\ \A i \in 1..Len(t) :
              /\ t[i].success \in BOOLEAN /\ t[i].given \in BOOLEAN
              /\ t[i].pytest \in {"no pytest", "green", "red"}
              /\ t[i].policy_action = "deny" => ~t[i].success /\ t[i].error = "blocked"
              /\ t[i].pytest # "no pytest" => t[i].name = "execute_command"
<1>1. PICK R : R = Observations
  OBVIOUS
<1>2. Len(t) \in Nat /\ DOMAIN t = 1..Len(t) /\ \A i \in 1..Len(t) : t[i] \in R
  BY <1>1
<1>3. \A o \in R :
        /\ o.success \in BOOLEAN /\ o.given \in BOOLEAN
        /\ o.pytest \in {"no pytest", "green", "red"}
        /\ o.policy_action = "deny" => ~o.success /\ o.error = "blocked"
        /\ o.pytest # "no pytest" => o.name = "execute_command"
  BY <1>1 DEF Observations
<1> QED
  BY <1>2, <1>3

\* RunMetrics.from_run: the reads of a trace.
ReadsType(t) ==
  [total_reads : Nat, repeated_reads : Nat,
   seen : SUBSET {t[i].path : i \in 1..Len(t)}]

LEMMA ReadsLoop ==
  ASSUME NEW t \in Seq(Observations), NEW n, n = Len(t)
  PROVE  \E f \in [0..n -> ReadsType(t)] :
           /\ f[0] = [total_reads |-> 0, repeated_reads |-> 0, seen |-> {}]
           /\ f[n] = Reads(t)
           /\ \A k \in 1..n : f[k] = ReadStep(f[k - 1], t[k])
<1> DEFINE T == ReadsType(t)
           Zero == [total_reads |-> 0, repeated_reads |-> 0, seen |-> {}]
           Solves(iter) == iter = [s \in SUBSET DOMAIN t |->
                   IF s = {} THEN Zero ELSE ReadStep(iter[s \ {Max(s)}], t[Max(s)])]
<1>1. n \in Nat /\ DOMAIN t = 1..n
  BY TraceIs
<1>2. \A k \in 1..n : \A m \in T : ReadStep(m, t[k]) \in T
  <2>1. ASSUME NEW k \in 1..n, NEW m \in T
        PROVE  ReadStep(m, t[k]) \in T
    <3> USE DEF ReadsType
    <3>1. m.total_reads + 1 \in Nat /\ m.repeated_reads + 1 \in Nat
          /\ m.repeated_reads + 0 \in Nat /\ m.seen \cup {t[k].path} \in SUBSET {t[i].path : i \in 1..Len(t)}
      OBVIOUS
    <3> QED
      BY <3>1 DEF ReadStep
  <2> QED
    BY <2>1
<1>3. Zero \in T
  BY DEF ReadsType
<1> HIDE DEF T, Zero
<1>4. \E iter : Solves(iter)
  <2>1. PICK step : step = [k \in 1..n |-> [v \in T |-> ReadStep(v, t[k])]]
    OBVIOUS
  <2>2. step \in [1..n -> [T -> T]]
    BY <1>2, <2>1
  <2>3. PICK iter \in [SUBSET (1..n) -> T] :
          /\ Folding(iter, n, Zero, step)
          /\ \A s \in SUBSET (1..n) :
               s # {} => Max(s) \in 1..n /\ iter[s \ {Max(s)}] \in T
    BY <1>1, <1>3, <2>2, FoldTypes
  <2>4. Solves(iter)
    BY <1>1, <2>1, <2>3 DEF Folding
  <2> QED
    BY <2>4
<1>5. PICK iter : Solves(iter) /\ Reads(t) = iter[1..n]
  BY <1>1, <1>4 DEF Reads, FoldLeft, MapThenFoldSet, Zero
<1>6. PICK step : step = [k \in 1..n |-> [v \in T |-> ReadStep(v, t[k])]]
  OBVIOUS
<1>7. step \in [1..n -> [T -> T]]
  BY <1>2, <1>6
<1>8. iter[{}] = Zero /\ Zero \in T
  BY <1>3, <1>5
<1>9. ASSUME NEW k \in 1..n, iter[1..k - 1] \in T
      PROVE  iter[1..k] = step[k][iter[1..k - 1]]
  <2>1. 1..k \in SUBSET (1..n) /\ 1..k # {} /\ Max(1..k) = k
        /\ (1..k) \ {k} = 1..k - 1
    BY <1>1, IntervalFacts
  <2>2. iter[1..k] = ReadStep(iter[1..k - 1], t[k])
    BY <1>1, <1>5, <2>1
  <2> QED
    BY <1>6, <1>9, <2>2
<1>10. PICK f \in [0..n -> T] : /\ f[0] = Zero /\ f[n] = iter[1..n]
                               /\ \A k \in 1..n : f[k] = step[k][f[k - 1]]
  <2>1. n \in Nat /\ Follows(iter, n, T, Zero, step)
    BY <1>1, <1>7, <1>8, <1>9 DEF Follows
  <2> QED
    BY <2>1, Iterated
<1>11. \A k \in 1..n : f[k - 1] \in T
  BY <1>1, IntervalFacts
<1>12. \A k \in 1..n : f[k] = ReadStep(f[k - 1], t[k])
  BY <1>6, <1>10, <1>11
<1> QED
  BY <1>5, <1>10, <1>12 DEF T, Zero

\* attribute_run.
AttributionType(t) ==
  [failed_tools : SUBSET {t[i].name : i \in 1..Len(t)},
   error_kinds : SUBSET {ErrorKind(t[i]) : i \in 1..Len(t)},
   policy_denials : Nat, recoverable : Nat, recovered : Nat]

LEMMA AttributionLoop ==
  ASSUME NEW t \in Seq(Observations), NEW n, n = Len(t)
  PROVE  \E f \in [0..n -> AttributionType(t)] :
           /\ f[0] = [failed_tools |-> {}, error_kinds |-> {}, policy_denials |-> 0,
                      recoverable |-> 0, recovered |-> 0]
           /\ f[n] = Attribution(t)
           /\ \A k \in 1..n : f[k] = AttributeStep(t, f[k - 1], k)
<1> DEFINE T == AttributionType(t)
           Zero == [failed_tools |-> {}, error_kinds |-> {}, policy_denials |-> 0,
                    recoverable |-> 0, recovered |-> 0]
           Places1 == [i \in DOMAIN t |-> i]
           Solves(iter) == iter = [s \in SUBSET DOMAIN Places1 |->
                   IF s = {} THEN Zero
                   ELSE AttributeStep(t, iter[s \ {Max(s)}], Places1[Max(s)])]
<1>1. n \in Nat /\ DOMAIN t = 1..n /\ DOMAIN Places1 = 1..n
      /\ \A k \in 1..n : Places1[k] = k
  BY TraceIs
<1>2. \A k \in 1..n : \A a \in T : AttributeStep(t, a, k) \in T
  BY DEF AttributeStep, AttributionType
<1>3. Zero \in T
  BY DEF AttributionType
<1> HIDE DEF T, Zero, Places1
<1>4. \E iter : Solves(iter)
  <2>1. PICK step : step = [k \in 1..n |-> [v \in T |-> AttributeStep(t, v, k)]]
    OBVIOUS
  <2>2. step \in [1..n -> [T -> T]]
    BY <1>2, <2>1
  <2>3. PICK iter \in [SUBSET (1..n) -> T] :
          /\ Folding(iter, n, Zero, step)
          /\ \A s \in SUBSET (1..n) :
               s # {} => Max(s) \in 1..n /\ iter[s \ {Max(s)}] \in T
    BY <1>1, <1>3, <2>2, FoldTypes
  <2>4. \A s \in SUBSET (1..n) : s # {} =>
          step[Max(s)][iter[s \ {Max(s)}]]
            = AttributeStep(t, iter[s \ {Max(s)}], Places1[Max(s)])
    BY <1>1, <2>1, <2>3
  <2>5. Solves(iter)
    BY <1>1, <2>3, <2>4 DEF Folding
  <2> QED
    BY <2>5
<1>5. PICK iter : Solves(iter) /\ Attribution(t) = iter[1..n]
  BY <1>1, <1>4 DEF Attribution, FoldLeftDomain, FoldLeft, MapThenFoldSet, Zero, Places1
<1>6. PICK step : step = [k \in 1..n |-> [v \in T |-> AttributeStep(t, v, k)]]
  OBVIOUS
<1>7. step \in [1..n -> [T -> T]]
  BY <1>2, <1>6
<1>8. iter[{}] = Zero /\ Zero \in T
  BY <1>3, <1>5
<1>9. ASSUME NEW k \in 1..n, iter[1..k - 1] \in T
      PROVE  iter[1..k] = step[k][iter[1..k - 1]]
  <2>1. 1..k \in SUBSET (1..n) /\ 1..k # {} /\ Max(1..k) = k
        /\ (1..k) \ {k} = 1..k - 1
    BY <1>1, IntervalFacts
  <2>3. Places1[Max(1..k)] = k /\ 1..k \in SUBSET DOMAIN Places1
    BY <1>1, <2>1
  <2>4. iter[1..k] = AttributeStep(t, iter[(1..k) \ {k}], k)
    BY <1>5, <2>1, <2>3
  <2>2. iter[1..k] = AttributeStep(t, iter[1..k - 1], k)
    BY <2>1, <2>4
  <2> QED
    BY <1>6, <1>9, <2>2
<1>10. PICK f \in [0..n -> T] : /\ f[0] = Zero /\ f[n] = iter[1..n]
                               /\ \A k \in 1..n : f[k] = step[k][f[k - 1]]
  <2>1. n \in Nat /\ Follows(iter, n, T, Zero, step)
    BY <1>1, <1>7, <1>8, <1>9 DEF Follows
  <2> QED
    BY <2>1, Iterated
<1>11. \A k \in 1..n : f[k - 1] \in T
  BY <1>1, IntervalFacts
<1>12. \A k \in 1..n : f[k] = AttributeStep(t, f[k - 1], k)
  BY <1>6, <1>10, <1>11
<1> QED
  BY <1>5, <1>10, <1>12 DEF T, Zero

\* compute_first_pass.
LEMMA PassLoop ==
  ASSUME NEW t \in Seq(Observations), NEW n, n = Len(t)
  PROVE  \E f \in [0..n -> {-1, 0, 1}] :
           /\ f[0] = 0 /\ FirstPass(t) = (f[n] = 1)
           /\ \A k \in 1..n : f[k] = PassStep(f[k - 1], t[k])
<1> DEFINE T == {-1, 0, 1}
           Solves(iter) == iter = [s \in SUBSET DOMAIN t |->
                   IF s = {} THEN 0 ELSE PassStep(iter[s \ {Max(s)}], t[Max(s)])]
<1>1. n \in Nat /\ DOMAIN t = 1..n
  BY TraceIs
<1>2. \A k \in 1..n : \A v \in T : PassStep(v, t[k]) \in T
  BY DEF PassStep
<1>3. 0 \in T
  OBVIOUS
<1> HIDE DEF T
<1>4. \E iter : Solves(iter)
  <2>1. PICK step : step = [k \in 1..n |-> [v \in T |-> PassStep(v, t[k])]]
    OBVIOUS
  <2>2. step \in [1..n -> [T -> T]]
    BY <1>2, <2>1
  <2>3. PICK iter \in [SUBSET (1..n) -> T] :
          /\ Folding(iter, n, 0, step)
          /\ \A s \in SUBSET (1..n) :
               s # {} => Max(s) \in 1..n /\ iter[s \ {Max(s)}] \in T
    BY <1>1, <1>3, <2>2, FoldTypes
  <2>4. Solves(iter)
    BY <1>1, <2>1, <2>3 DEF Folding
  <2> QED
    BY <2>4
<1>5. PICK iter : Solves(iter) /\ FirstPass(t) = (iter[1..n] = 1)
  BY <1>1, <1>4 DEF FirstPass, FoldLeft, MapThenFoldSet
<1>6. PICK step : step = [k \in 1..n |-> [v \in T |-> PassStep(v, t[k])]]
  OBVIOUS
<1>7. step \in [1..n -> [T -> T]]
  BY <1>2, <1>6
<1>8. iter[{}] = 0 /\ 0 \in T
  BY <1>3, <1>5
<1>9. ASSUME NEW k \in 1..n, iter[1..k - 1] \in T
      PROVE  iter[1..k] = step[k][iter[1..k - 1]]
  <2>1. 1..k \in SUBSET (1..n) /\ 1..k # {} /\ Max(1..k) = k
        /\ (1..k) \ {k} = 1..k - 1
    BY <1>1, IntervalFacts
  <2>2. iter[1..k] = PassStep(iter[1..k - 1], t[k])
    BY <1>1, <1>5, <2>1
  <2> QED
    BY <1>6, <1>9, <2>2
<1>10. PICK f \in [0..n -> T] : /\ f[0] = 0 /\ f[n] = iter[1..n]
                               /\ \A k \in 1..n : f[k] = step[k][f[k - 1]]
  <2>1. n \in Nat /\ Follows(iter, n, T, 0, step)
    BY <1>1, <1>7, <1>8, <1>9 DEF Follows
  <2> QED
    BY <2>1, Iterated
<1>11. \A k \in 1..n : f[k - 1] \in T
  BY <1>1, IntervalFacts
<1>12. \A k \in 1..n : f[k] = PassStep(f[k - 1], t[k])
  BY <1>6, <1>10, <1>11
<1> QED
  BY <1>5, <1>10, <1>12 DEF T

\* A read is repeated when its path has been read: as many as there are more
\* reads than paths.
LEMMA ReadsCounted ==
  ASSUME NEW t \in Seq(Observations), NEW reads,
         reads = {i \in DOMAIN t : t[i].name = "read_file"},
         NEW named, named = {i \in reads : t[i].given}
  PROVE  /\ Reads(t).total_reads = Cardinality(reads)
         /\ Reads(t).repeated_reads
              = Cardinality(named) - Cardinality({t[i].path : i \in named})
<1>1. PICK n \in Nat : n = Len(t) /\ DOMAIN t = 1..n
  BY TraceIs
<1>2. PICK f \in [0..n -> ReadsType(t)] :
        /\ f[0] = [total_reads |-> 0, repeated_reads |-> 0, seen |-> {}]
        /\ f[n] = Reads(t)
        /\ \A k \in 1..n : f[k] = ReadStep(f[k - 1], t[k])
  BY <1>1, ReadsLoop
<1> DEFINE A(k) == {i \in 1..k : t[i].name = "read_file"}
           R(k) == {i \in A(k) : t[i].given}
           P(k) == {t[i].path : i \in R(k)}
           G == {k \in 0..n : /\ f[k].total_reads = Cardinality(A(k))
                              /\ f[k].seen = P(k) /\ IsFiniteSet(P(k))
                              /\ f[k].repeated_reads + Cardinality(P(k)) = Cardinality(R(k))}
<1>3. 0 \in G
  <2>1. A(0) = {} /\ R(0) = {} /\ P(0) = {} /\ 0 \in 0..n
    OBVIOUS
  <2>2. f[0].seen = {} /\ f[0].repeated_reads = 0 /\ f[0].total_reads = 0
    BY <1>2
  <2>3. IsFiniteSet({}) /\ Cardinality({}) = 0
    BY FS_EmptySet
  <2>4. /\ IsFiniteSet(P(0)) /\ Cardinality(P(0)) = 0 /\ Cardinality(R(0)) = 0
        /\ Cardinality(A(0)) = 0
    BY <2>1, <2>3
  <2>5. f[0].total_reads = Cardinality(A(0)) /\ f[0].seen = P(0)
        /\ f[0].repeated_reads + Cardinality(P(0)) = Cardinality(R(0))
    BY <2>1, <2>2, <2>4
  <2> QED
    BY <2>1, <2>4, <2>5
<1>4. ASSUME NEW k \in 1..n, k - 1 \in G
      PROVE  k \in G
  <2>1. k \in Nat /\ k - 1 \in Nat /\ k - 1 \in 0..n /\ k \in 0..n
    OBVIOUS
  <2>2. /\ f[k - 1].total_reads = Cardinality(A(k - 1))
        /\ f[k - 1].seen = P(k - 1) /\ IsFiniteSet(P(k - 1))
        /\ f[k - 1].repeated_reads + Cardinality(P(k - 1)) = Cardinality(R(k - 1))
    BY <1>4
  <2>3. PICK m \in ReadsType(t) : m = f[k - 1]
    BY <1>2, <2>1
  <2>4. f[k] = ReadStep(m, t[k]) /\ m.repeated_reads \in Nat /\ m.total_reads \in Nat
    BY <1>2, <2>3 DEF ReadsType
  <2>5. /\ IsFiniteSet(R(k - 1)) /\ Cardinality(R(k - 1)) \in Nat
        /\ IsFiniteSet(A(k - 1)) /\ Cardinality(A(k - 1)) \in Nat
    <3>1. R(k - 1) \in SUBSET (1..k - 1) /\ A(k - 1) \in SUBSET (1..k - 1)
      OBVIOUS
    <3> QED
      BY <2>1, <3>1, Counts
  <2>6. Cardinality(P(k - 1)) \in Nat
    BY <2>2, FS_CardinalityType
  <2>7. CASE t[k].name # "read_file"
    <3>1. A(k) = A(k - 1) /\ R(k) = R(k - 1)
      BY <2>1, <2>7
    <3>2. P(k) = P(k - 1)
      BY <3>1
    <3>3. f[k] = m
      BY <2>4, <2>7 DEF ReadStep
    <3> QED
      BY <2>1, <2>2, <2>3, <3>1, <3>2, <3>3
  <2>9. ASSUME t[k].name = "read_file", f[k].total_reads = m.total_reads + 1
        PROVE  f[k].total_reads = Cardinality(A(k))
    <3>1. A(k) = A(k - 1) \cup {k} /\ k \notin A(k - 1)
      BY <2>1, <2>9
    <3> HIDE DEF A
    <3>2. Cardinality(A(k)) = Cardinality(A(k - 1)) + 1
      BY <2>5, <3>1, FS_AddElement
    <3> QED
      BY <2>2, <2>3, <2>4, <2>5, <2>9, <3>2
  <2>10. CASE t[k].name = "read_file" /\ ~t[k].given
    <3>1. R(k) = R(k - 1)
      BY <2>1, <2>10
    <3>2. P(k) = P(k - 1)
      BY <3>1
    <3>3. f[k].total_reads = m.total_reads + 1
          /\ f[k].repeated_reads = m.repeated_reads /\ f[k].seen = m.seen
      BY <2>3, <2>4, <2>10 DEF ReadStep, ReadsType
    <3>4. f[k].total_reads = Cardinality(A(k))
      BY <2>9, <2>10, <3>3
    <3> HIDE DEF A, R, P
    <3> QED
      BY <2>1, <2>2, <2>3, <3>1, <3>2, <3>3, <3>4
  <2>8. CASE t[k].name = "read_file" /\ t[k].given
    <3>1. R(k) = R(k - 1) \cup {k} /\ k \notin R(k - 1)
      BY <2>1, <2>8
    <3>2. P(k) = P(k - 1) \cup {t[k].path}
      BY <3>1
    <3>3. /\ f[k].total_reads = m.total_reads + 1
          /\ f[k].seen = m.seen \cup {t[k].path}
          /\ f[k].repeated_reads = m.repeated_reads + (IF t[k].path \in m.seen THEN 1 ELSE 0)
      BY <2>3, <2>4, <2>8 DEF ReadStep, ReadsType
    <3>8. f[k].total_reads = Cardinality(A(k))
      BY <2>8, <2>9, <3>3
    <3> HIDE DEF P, R, A
    <3>4. Cardinality(R(k)) = Cardinality(R(k - 1)) + 1
      BY <2>5, <3>1, FS_AddElement
    <3>5. IsFiniteSet(P(k))
          /\ Cardinality(P(k)) = Cardinality(P(k - 1))
                                   + (IF t[k].path \in P(k - 1) THEN 0 ELSE 1)
      <4>1. CASE t[k].path \in P(k - 1)
        <5>1. P(k) = P(k - 1)
          BY <3>2, <4>1
        <5> QED
          BY <2>2, <2>6, <4>1, <5>1
      <4>2. CASE t[k].path \notin P(k - 1)
        <5>1. PICK p, ps : p = t[k].path /\ ps = P(k - 1)
          OBVIOUS
        <5>2. IsFiniteSet(ps \cup {p})
              /\ Cardinality(ps \cup {p}) = Cardinality(ps) + 1
          <6>1. IsFiniteSet(ps) /\ p \notin ps
            BY <2>2, <4>2, <5>1
          <6> QED
            BY <6>1, FS_AddElement
        <5>3. P(k) = ps \cup {p}
          BY <3>2, <5>1
        <5> QED
          BY <4>2, <5>1, <5>2, <5>3
      <4> QED
        BY <4>1, <4>2
    <3>6. f[k].seen = P(k)
      BY <2>2, <2>3, <3>2, <3>3
    <3>7. f[k].repeated_reads + Cardinality(P(k)) = Cardinality(R(k))
      <4>1. /\ m.repeated_reads + Cardinality(P(k - 1)) = Cardinality(R(k - 1))
            /\ m.seen = P(k - 1)
        BY <2>2, <2>3
      <4> QED
        BY <2>4, <2>5, <2>6, <3>3, <3>4, <3>5, <4>1
    <3> QED
      BY <2>1, <3>5, <3>6, <3>7, <3>8
  <2>11. t[k].given \in BOOLEAN
    BY <1>1, TraceIs
  <2> QED
    BY <2>7, <2>8, <2>10, <2>11
<1>5. n \in G
  <2> HIDE DEF G
  <2>1. \A k \in 0..n : k \in G
    BY <1>3, <1>4, LoopHolds
  <2> QED
    BY <1>1, <2>1, EmptyInterval
<1>6. A(n) = reads /\ R(n) = named
  BY <1>1
<1>7. /\ Reads(t).total_reads = Cardinality(reads)
      /\ Reads(t).repeated_reads + Cardinality({t[i].path : i \in named})
           = Cardinality(named)
      /\ IsFiniteSet({t[i].path : i \in named})
  BY <1>2, <1>5, <1>6
<1>8. Cardinality({t[i].path : i \in named}) \in Nat
  BY <1>7, FS_CardinalityType
<1>9. Reads(t).repeated_reads \in Nat
  BY <1>1, <1>2, EmptyInterval DEF ReadsType
<1> QED
  BY <1>7, <1>8, <1>9

\* attribute_run counts the failures that have the properties it is about.
LEMMA AttributionCounted ==
  ASSUME NEW t \in Seq(Observations), NEW failures,
         failures = {i \in DOMAIN t : ~t[i].success}
  PROVE  /\ Attribution(t).recoverable = Cardinality({i \in failures : i < Len(t)})
         /\ Attribution(t).recovered = Cardinality({i \in failures : RecoveredLater(t, i)})
         /\ Attribution(t).policy_denials
              = Cardinality({i \in failures : ErrorKind(t[i]) = "policy_denial"})
         /\ Attribution(t).error_kinds = {ErrorKind(t[i]) : i \in failures}
<1>1. PICK n \in Nat : n = Len(t) /\ DOMAIN t = 1..n
  BY TraceIs
<1>2. PICK f \in [0..n -> AttributionType(t)] :
        /\ f[0] = [failed_tools |-> {}, error_kinds |-> {}, policy_denials |-> 0,
                   recoverable |-> 0, recovered |-> 0]
        /\ f[n] = Attribution(t)
        /\ \A k \in 1..n : f[k] = AttributeStep(t, f[k - 1], k)
  BY <1>1, AttributionLoop
<1>3. ASSUME NEW k \in 1..n
      PROVE  /\ f[k - 1].recoverable \in Nat /\ f[k - 1].recovered \in Nat
             /\ f[k - 1].policy_denials \in Nat
             /\ t[k].success => f[k] = f[k - 1]
             /\ ~t[k].success =>
                  /\ f[k].recoverable = f[k - 1].recoverable
                       + (IF k < n THEN 1 ELSE 0)
                  /\ f[k].recovered = f[k - 1].recovered
                       + (IF RecoveredLater(t, k) THEN 1 ELSE 0)
                  /\ f[k].policy_denials = f[k - 1].policy_denials
                       + (IF ErrorKind(t[k]) = "policy_denial" THEN 1 ELSE 0)
                  /\ f[k].error_kinds = f[k - 1].error_kinds \cup {ErrorKind(t[k])}
  <2>1. PICK a \in AttributionType(t) : a = f[k - 1]
    BY <1>1, <1>2, IntervalFacts
  <2>2. f[k] = AttributeStep(t, a, k)
    BY <1>2, <2>1
  <2>3. a.recoverable \in Nat /\ a.recovered \in Nat /\ a.policy_denials \in Nat
    BY DEF AttributionType
  <2>4. t[k].success => f[k] = a
    BY <2>2 DEF AttributeStep
  <2>5. ~t[k].success =>
          /\ f[k].recoverable = a.recoverable + (IF k < n THEN 1 ELSE 0)
          /\ f[k].recovered = a.recovered + (IF RecoveredLater(t, k) THEN 1 ELSE 0)
          /\ f[k].policy_denials = a.policy_denials
               + (IF ErrorKind(t[k]) = "policy_denial" THEN 1 ELSE 0)
          /\ f[k].error_kinds = a.error_kinds \cup {ErrorKind(t[k])}
    BY <1>1, <2>2 DEF AttributeStep
  <2> QED
    BY <2>1, <2>3, <2>4, <2>5
<1>4. Attribution(t).recoverable = Cardinality({i \in failures : i < Len(t)})
  <2>1. PICK P, c : /\ P = [i \in 1..n |-> ~t[i].success /\ i < n]
                    /\ c = [k \in 0..n |-> f[k].recoverable]
    OBVIOUS
  <2>2. P \in [1..n -> BOOLEAN] /\ c[0] = 0
    BY <1>1, <1>2, <2>1, EmptyInterval
  <2>3. ASSUME NEW k \in 1..n
        PROVE  c[k] = c[k - 1] + (IF P[k] THEN 1 ELSE 0)
    <3>1. c[k] = f[k].recoverable /\ c[k - 1] = f[k - 1].recoverable
      BY <1>1, <2>1, IntervalFacts
    <3>2. t[k].success => f[k] = f[k - 1] /\ ~P[k]
      BY <1>3, <2>1
    <3>3. ~t[k].success => c[k] = c[k - 1] + (IF P[k] THEN 1 ELSE 0)
      BY <1>3, <2>1, <3>1
    <3>4. c[k - 1] \in Nat
      BY <1>3, <3>1
    <3> QED
      BY <3>1, <3>2, <3>3, <3>4
  <2>4. c[n] = Cardinality({i \in 1..n : P[i]})
    <3>1. Counter(c, n, P)
      BY <2>2, <2>3 DEF Counter
    <3> QED
      BY <1>1, <3>1, CountLoop
  <2>5. {i \in 1..n : P[i]} = {i \in failures : i < Len(t)}
    BY <1>1, <2>1
  <2> QED
    BY <1>1, <1>2, <2>1, <2>4, <2>5, EmptyInterval
<1>5. Attribution(t).recovered = Cardinality({i \in failures : RecoveredLater(t, i)})
  <2>1. PICK P, c : /\ P = [i \in 1..n |-> ~t[i].success /\ RecoveredLater(t, i)]
                    /\ c = [k \in 0..n |-> f[k].recovered]
    OBVIOUS
  <2>2. P \in [1..n -> BOOLEAN] /\ c[0] = 0
    BY <1>1, <1>2, <2>1, EmptyInterval
  <2>3. ASSUME NEW k \in 1..n
        PROVE  c[k] = c[k - 1] + (IF P[k] THEN 1 ELSE 0)
    <3>1. c[k] = f[k].recovered /\ c[k - 1] = f[k - 1].recovered
      BY <1>1, <2>1, IntervalFacts
    <3>2. t[k].success => f[k] = f[k - 1] /\ ~P[k]
      BY <1>3, <2>1
    <3>3. ~t[k].success => c[k] = c[k - 1] + (IF P[k] THEN 1 ELSE 0)
      BY <1>3, <2>1, <3>1
    <3>4. c[k - 1] \in Nat
      BY <1>3, <3>1
    <3> QED
      BY <3>1, <3>2, <3>3, <3>4
  <2>4. c[n] = Cardinality({i \in 1..n : P[i]})
    <3>1. Counter(c, n, P)
      BY <2>2, <2>3 DEF Counter
    <3> QED
      BY <1>1, <3>1, CountLoop
  <2>5. {i \in 1..n : P[i]} = {i \in failures : RecoveredLater(t, i)}
    BY <1>1, <2>1
  <2> QED
    BY <1>1, <1>2, <2>1, <2>4, <2>5, EmptyInterval
<1>6. Attribution(t).policy_denials
        = Cardinality({i \in failures : ErrorKind(t[i]) = "policy_denial"})
  <2>1. PICK P, c : /\ P = [i \in 1..n |-> ~t[i].success
                                            /\ ErrorKind(t[i]) = "policy_denial"]
                    /\ c = [k \in 0..n |-> f[k].policy_denials]
    OBVIOUS
  <2>2. P \in [1..n -> BOOLEAN] /\ c[0] = 0
    BY <1>1, <1>2, <2>1, EmptyInterval
  <2>3. ASSUME NEW k \in 1..n
        PROVE  c[k] = c[k - 1] + (IF P[k] THEN 1 ELSE 0)
    <3>1. c[k] = f[k].policy_denials /\ c[k - 1] = f[k - 1].policy_denials
      BY <1>1, <2>1, IntervalFacts
    <3>2. t[k].success => f[k] = f[k - 1] /\ ~P[k]
      BY <1>3, <2>1
    <3>3. ~t[k].success => c[k] = c[k - 1] + (IF P[k] THEN 1 ELSE 0)
      BY <1>3, <2>1, <3>1
    <3>4. c[k - 1] \in Nat
      BY <1>3, <3>1
    <3> QED
      BY <3>1, <3>2, <3>3, <3>4
  <2>4. c[n] = Cardinality({i \in 1..n : P[i]})
    <3>1. Counter(c, n, P)
      BY <2>2, <2>3 DEF Counter
    <3> QED
      BY <1>1, <3>1, CountLoop
  <2>5. {i \in 1..n : P[i]} = {i \in failures : ErrorKind(t[i]) = "policy_denial"}
    BY <1>1, <2>1
  <2> QED
    BY <1>1, <1>2, <2>1, <2>4, <2>5, EmptyInterval
<1>7. Attribution(t).error_kinds = {ErrorKind(t[i]) : i \in failures}
  <2> DEFINE Failed(k) == {i \in 1..k : ~t[i].success}
             Kinds(k) == {ErrorKind(t[i]) : i \in Failed(k)}
             G == {k \in 0..n : f[k].error_kinds = Kinds(k)}
  <2>1. 0 \in G
    <3>1. Kinds(0) = {} /\ 0 \in 0..n
      BY <1>1
    <3> QED
      BY <1>2, <3>1
  <2>2. ASSUME NEW k \in 1..n, k - 1 \in G
        PROVE  k \in G
    <3>1. k \in 0..n /\ k \in Nat /\ k - 1 \in Nat
      BY <1>1
    <3>2. CASE t[k].success
      <4>1. Failed(k) = Failed(k - 1)
        BY <3>1, <3>2
      <4> QED
        BY <1>3, <2>2, <3>1, <3>2, <4>1
    <3>3. CASE ~t[k].success
      <4>1. Failed(k) = Failed(k - 1) \cup {k}
        BY <3>1, <3>3
      <4>2. Kinds(k) = Kinds(k - 1) \cup {ErrorKind(t[k])}
        BY <4>1
      <4>3. f[k].error_kinds = f[k - 1].error_kinds \cup {ErrorKind(t[k])}
        BY <1>3, <3>3
      <4> QED
        BY <2>2, <3>1, <4>2, <4>3
    <3> QED
      BY <3>2, <3>3
  <2>3. n \in G
    <3> HIDE DEF G
    <3>1. \A k \in 0..n : k \in G
      BY <1>1, <2>1, <2>2, LoopHolds
    <3> QED
      BY <1>1, <3>1, EmptyInterval
  <2>4. Failed(n) = failures
    BY <1>1
  <2> QED
    BY <1>2, <2>3, <2>4
<1> QED
  BY <1>4, <1>5, <1>6, <1>7

\* compute_first_pass: 1 after a green run that nothing has spoiled since.
LEMMA FirstPassIs ==
  ASSUME NEW t \in Seq(Observations)
  PROVE  FirstPass(t) <=> GreenAndLast(t)
<1>1. PICK n \in Nat : n = Len(t) /\ DOMAIN t = 1..n
  BY TraceIs
<1>2. PICK f \in [0..n -> {-1, 0, 1}] :
        /\ f[0] = 0 /\ FirstPass(t) = (f[n] = 1)
        /\ \A k \in 1..n : f[k] = PassStep(f[k - 1], t[k])
  BY <1>1, PassLoop
<1> DEFINE Green(i) == t[i].pytest = "green"
           Spoils(i) == t[i].pytest = "red" \/ (t[i].name \in WriteTools /\ t[i].success)
           FirstGreen(g, k) == /\ g \in 1..k /\ Green(g)
                               /\ \A j \in 1..k : j < g => ~Green(j)
           Clean(g, k) == \A j \in 1..k : j > g => ~Spoils(j)
           G == {k \in 0..n :
                   /\ f[k] = 0 => \A j \in 1..k : ~Green(j)
                   /\ f[k] = 1 => \E g \in 1..k : FirstGreen(g, k) /\ Clean(g, k)
                   /\ f[k] = -1 => \E g \in 1..k : FirstGreen(g, k) /\ ~Clean(g, k)}
<1>3. 0 \in G
  BY <1>1, <1>2
<1>4. ASSUME NEW k \in 1..n, k - 1 \in G
      PROVE  k \in G
  <2>1. /\ k \in Nat /\ k - 1 \in 0..n /\ k \in 0..n /\ k \in 1..k
        /\ \A j \in 1..k : j \in 1..k - 1 \/ j = k
        /\ \A j \in 1..k - 1 : j \in 1..k /\ j < k /\ j \in Nat
    BY <1>1
  <2>2. /\ f[k - 1] = 0 => \A j \in 1..k - 1 : ~Green(j)
        /\ f[k - 1] = 1 => \E g \in 1..k - 1 : FirstGreen(g, k - 1) /\ Clean(g, k - 1)
        /\ f[k - 1] = -1 => \E g \in 1..k - 1 : FirstGreen(g, k - 1) /\ ~Clean(g, k - 1)
    BY <1>4
  <2>3. f[k - 1] \in {-1, 0, 1} /\ f[k] \in {-1, 0, 1}
    BY <1>2, <2>1
  <2>4. Green(k) => ~Spoils(k)
    <3>1. t[k].pytest # "no pytest" => t[k].name = "execute_command"
      BY <1>1, TraceIs
    <3> QED
      BY <3>1 DEF WriteTools
  <2>5. /\ f[k - 1] = -1 => f[k] = -1
        /\ f[k - 1] # -1 /\ Green(k) => f[k] = 1
        /\ f[k - 1] = 1 /\ ~Green(k) => f[k] = IF Spoils(k) THEN -1 ELSE 1
        /\ f[k - 1] = 0 /\ ~Green(k) => f[k] = 0
    BY <1>2, <2>3 DEF PassStep
  <2> HIDE DEF Green, Spoils
  <2>6. \A g \in 1..k - 1 : /\ FirstGreen(g, k - 1) => FirstGreen(g, k)
                            /\ Clean(g, k - 1) /\ ~Spoils(k) => Clean(g, k)
                            /\ ~Clean(g, k - 1) \/ Spoils(k) => ~Clean(g, k)
    BY <2>1
  <2>7. CASE f[k - 1] = 0 /\ Green(k)
    <3>1. FirstGreen(k, k) /\ Clean(k, k)
      BY <2>1, <2>2, <2>7
    <3>2. f[k] = 1
      BY <2>5, <2>7
    <3> QED
      BY <2>1, <3>1, <3>2
  <2>8. CASE f[k - 1] = 0 /\ ~Green(k)
    BY <2>1, <2>2, <2>5, <2>8
  <2>9. CASE f[k - 1] = 1
    <3>1. PICK g \in 1..k - 1 : FirstGreen(g, k - 1) /\ Clean(g, k - 1)
      BY <2>2, <2>9
    <3>2. FirstGreen(g, k) /\ g \in 1..k
      BY <2>1, <2>6, <3>1
    <3>3. IF Spoils(k) THEN ~Clean(g, k) ELSE Clean(g, k)
      BY <2>6, <3>1
    <3>4. f[k] = IF Spoils(k) THEN -1 ELSE 1
      BY <2>4, <2>5, <2>9
    <3> HIDE DEF FirstGreen, Clean
    <3> QED
      BY <2>1, <3>2, <3>3, <3>4
  <2>10. CASE f[k - 1] = -1
    <3>1. PICK g \in 1..k - 1 : FirstGreen(g, k - 1) /\ ~Clean(g, k - 1)
      BY <2>2, <2>10
    <3>2. FirstGreen(g, k) /\ ~Clean(g, k) /\ g \in 1..k
      BY <2>1, <2>6, <3>1
    <3>3. f[k] = -1
      BY <2>5, <2>10
    <3> HIDE DEF FirstGreen, Clean
    <3> QED
      BY <2>1, <3>2, <3>3
  <2> QED
    BY <2>3, <2>7, <2>8, <2>9, <2>10
<1>5. n \in G
  <2> HIDE DEF G
  <2>1. \A k \in 0..n : k \in G
    BY <1>1, <1>3, <1>4, LoopHolds
  <2> QED
    BY <1>1, <2>1, EmptyInterval
<1>6. GreenAndLast(t) <=> \E g \in 1..n : FirstGreen(g, n) /\ Clean(g, n)
  BY <1>1 DEF GreenAndLast
<1>7. f[n] \in {-1, 0, 1}
  BY <1>1, <1>2, EmptyInterval
<1>8. \A g, h \in 1..n : FirstGreen(g, n) /\ FirstGreen(h, n) => g = h
  BY <1>1
<1> QED
  <2> HIDE DEF Clean, Spoils, Green
  <2>1. CASE f[n] = 1
    BY <1>2, <1>5, <1>6, <2>1
  <2>2. CASE f[n] = 0
    <3>1. \A g \in 1..n : ~FirstGreen(g, n)
      BY <1>5, <2>2
    <3>2. ~FirstPass(t)
      <4>1. ~(f[n] = 1)
        BY <2>2
      <4> QED
        BY <1>2, <4>1, Zenon
    <3>3. ~GreenAndLast(t)
      BY <1>6, <3>1, Zenon
    <3> QED
      BY <3>2, <3>3, Zenon
  <2>3. CASE f[n] = -1
    <3>1. PICK g \in 1..n : FirstGreen(g, n) /\ ~Clean(g, n)
      BY <1>5, <2>3
    <3> HIDE DEF FirstGreen
    <3>2. \A h \in 1..n : FirstGreen(h, n) => ~Clean(h, n)
      BY <1>8, <3>1
    <3>3. ~FirstPass(t)
      <4>1. ~(f[n] = 1)
        BY <2>3
      <4> QED
        BY <1>2, <4>1, Zenon
    <3>4. ~GreenAndLast(t)
      BY <1>6, <3>2, Zenon
    <3> QED
      BY <3>3, <3>4, Zenon
  <2> QED
    BY <1>7, <2>1, <2>2, <2>3

LEMMA RightMetricsHold ==
  ASSUME NEW t \in Seq(Observations)
  PROVE  RightMetrics(Metrics(t), t)
<1> DEFINE failures == {i \in DOMAIN t : ~t[i].success}
           reads == {i \in DOMAIN t : t[i].name = "read_file"}
           named == {i \in reads : t[i].given}
           successes == {i \in DOMAIN t : t[i].success}
           denied == {i \in DOMAIN t : t[i].policy_action = "deny"}
           blocked == {i \in failures : ErrorKind(t[i]) = "policy_denial"}
           a == Attribution(t)
           m == Metrics(t)
<1>1. PICK n \in Nat : n = Len(t) /\ DOMAIN t = 1..n
  BY TraceIs
<1>2. /\ m.tool_calls = n /\ m.tool_successes = Cardinality(successes)
      /\ m.denied = Cardinality(denied)
      /\ m.total_reads = Reads(t).total_reads
      /\ m.repeated_reads = Reads(t).repeated_reads
      /\ m.recoverable = Cardinality(Recoverable(t))
      /\ m.recovered = Cardinality(Recovered(t))
  BY <1>1 DEF Metrics, Count
<1>3. m.tool_calls = m.tool_successes + Cardinality(failures)
  <2>1. successes \cup failures = 1..n /\ successes \cap failures = {}
    BY <1>1
  <2>2. /\ IsFiniteSet(successes) /\ IsFiniteSet(failures)
        /\ Cardinality(successes) \in Nat /\ Cardinality(failures) \in Nat
    <3>1. successes \in SUBSET (1..n) /\ failures \in SUBSET (1..n)
      BY <1>1
    <3> QED
      BY <1>1, <3>1, Counts
  <2>3. Cardinality(1..n) = n /\ Cardinality({}) = 0
    BY <1>1, PlacesCounted
  <2>4. Cardinality(successes \cup failures)
          = Cardinality(successes) + Cardinality(failures)
            - Cardinality(successes \cap failures)
    <3> HIDE DEF successes, failures
    <3> QED
      BY <2>2, FS_Union
  <2>5. n = Cardinality(successes) + Cardinality(failures) - 0
    BY <2>1, <2>3, <2>4
  <2>6. PICK x, y : x = Cardinality(successes) /\ y = Cardinality(failures)
    OBVIOUS
  <2>7. n = x + y
    BY <2>2, <2>5, <2>6
  <2>8. m.tool_calls = n /\ m.tool_successes = x
    BY <1>2, <2>6
  <2> HIDE DEF m, successes, failures
  <2> QED
    BY <2>6, <2>7, <2>8
<1>4. /\ m.total_reads = Cardinality(reads)
      /\ m.repeated_reads
           = Cardinality(named) - Cardinality({t[i].path : i \in named})
  BY <1>2, ReadsCounted
<1>5. Recoverable(t) = failures \ {n} /\ Recoverable(t) = {i \in failures : i < n}
  BY <1>1 DEF Recoverable
<1>6. \A i \in 1..n : RecoveredLater(t, i) <=> LaterSuccess(t, i) # {}
  <2>1. ASSUME NEW i \in 1..n
        PROVE  RecoveredLater(t, i) <=> LaterSuccess(t, i) # {}
    <3>1. \A j \in 1..n : j > i <=> j \in (i + 1)..n
      BY <1>1
    <3>2. \A j \in (i + 1)..n : j \in 1..n
      BY <1>1
    <3> QED
      BY <1>1, <3>1, <3>2 DEF RecoveredLater, LaterSuccess
  <2> QED
    BY <2>1
<1>7. Recovered(t) = {i \in failures : RecoveredLater(t, i)}
  <2>1. ASSUME NEW i \in failures, RecoveredLater(t, i)
        PROVE  i < n
    BY <1>1, <2>1 DEF RecoveredLater
  <2> QED
    BY <1>5, <2>1 DEF Recovered
<1>8. Recovered(t) = {i \in failures : LaterSuccess(t, i) # {}}
  BY <1>1, <1>6, <1>7
<1>9. /\ a.recoverable = Cardinality({i \in failures : i < n})
      /\ a.recovered = Cardinality({i \in failures : RecoveredLater(t, i)})
      /\ a.policy_denials = Cardinality(blocked)
      /\ a.error_kinds = {ErrorKind(t[i]) : i \in failures}
  <2>1. PICK F : F = failures
    OBVIOUS
  <2>2. F = {i \in DOMAIN t : ~t[i].success}
    BY <2>1
  <2> HIDE DEF failures
  <2>3. /\ Attribution(t).recoverable = Cardinality({i \in F : i < Len(t)})
        /\ Attribution(t).recovered = Cardinality({i \in F : RecoveredLater(t, i)})
        /\ Attribution(t).policy_denials
             = Cardinality({i \in F : ErrorKind(t[i]) = "policy_denial"})
        /\ Attribution(t).error_kinds = {ErrorKind(t[i]) : i \in F}
    BY <2>2, AttributionCounted
  <2> QED
    BY <1>1, <2>1, <2>3
<1>10. m.denied <= a.policy_denials
  <2>1. \A i \in 1..n :
          t[i].policy_action = "deny" => ~t[i].success /\ t[i].error = "blocked"
    BY <1>1, TraceIs
  <2>2. denied \subseteq blocked
    BY <1>1, <2>1 DEF ErrorKind
  <2>3. IsFiniteSet(blocked)
    <3>1. blocked \in SUBSET (1..n)
      BY <1>1
    <3> QED
      BY <1>1, <3>1, Counts
  <2>4. Cardinality(denied) <= Cardinality(blocked)
    <3> HIDE DEF denied, blocked
    <3> QED
      BY <2>2, <2>3, FS_Subset
  <2> QED
    BY <1>2, <1>9, <2>4
<1>11. a.error_kinds = {} <=> failures = {}
  BY <1>9
<1>12. /\ m.recoverable = Cardinality(failures \ {Len(t)})
       /\ m.recovered = Cardinality({i \in failures : LaterSuccess(t, i) # {}})
       /\ m.recoverable = a.recoverable /\ m.recovered = a.recovered
  BY <1>1, <1>2, <1>5, <1>7, <1>8, <1>9
<1> HIDE DEF a, m
<1> QED
  BY <1>3, <1>4, <1>10, <1>11, <1>12, Zenon DEF RightMetrics, a, m

LEMMA RecoveredAreRecoverable ==
  ASSUME NEW t \in Seq(Observations)
  PROVE  Metrics(t).recovered <= Metrics(t).recoverable
<1>1. PICK n \in Nat : n = Len(t) /\ DOMAIN t = 1..n
  BY TraceIs
<1>2. Recoverable(t) \in SUBSET (1..n) /\ Recovered(t) \subseteq Recoverable(t)
  BY <1>1 DEF Recoverable, Recovered
<1>3. IsFiniteSet(Recoverable(t))
  BY <1>2, Counts
<1>4. Cardinality(Recovered(t)) <= Cardinality(Recoverable(t))
  BY <1>2, <1>3, FS_Subset
<1> QED
  BY <1>4 DEF Metrics

-----------------------------------------------------------------------------
(* The report.                                                             *)

\* ReportIsTrue of a report r, of the tasks ts and the outcomes os.
TrueOf(r, ts, os) ==
  /\ r.total = Len(ts)
  /\ r.recovered <= r.recoverable
  /\ \A i \in DOMAIN ts :
       LET case == r.cases[i]
       IN  /\ case.id = ts[i]
           /\ case.passed = (os[i].completed /\ os[i].checks)
           /\ case.tokens = os[i].tokens
           /\ case.first_pass = GreenAndLast(os[i].trace)
           /\ RightMetrics(case.metrics, os[i].trace)
  /\ r.passed = Cardinality({i \in DOMAIN ts : os[i].completed /\ os[i].checks})
  /\ r.first_pass = Cardinality({i \in DOMAIN ts : GreenAndLast(os[i].trace)})

LEMMA AggregateIsTrue ==
  ASSUME NEW n \in Nat, NEW ts, DOMAIN ts = 1..n, Len(ts) = n, NEW os,
         \A i \in 1..n : os[i] \in Outcomes,
         NEW cases, cases = [i \in 1..n |-> CaseResult(ts[i], os[i])]
  PROVE  TrueOf(Aggregate(cases), ts, os)
<1>1. DOMAIN cases = 1..n /\ Len(cases) = n
  OBVIOUS
<1>2. ASSUME NEW i \in 1..n
      PROVE  /\ cases[i].id = ts[i]
             /\ cases[i].passed = (os[i].completed /\ os[i].checks)
             /\ cases[i].tokens = os[i].tokens
             /\ cases[i].first_pass = FirstPass(os[i].trace)
             /\ cases[i].metrics = Metrics(os[i].trace)
             /\ os[i].trace \in Seq(Observations)
  BY <1>2, BenchmarkAssumption DEF CaseResult
<1>3. ASSUME NEW i \in 1..n
      PROVE  /\ cases[i].first_pass = GreenAndLast(os[i].trace)
             /\ RightMetrics(cases[i].metrics, os[i].trace)
             /\ cases[i].metrics.recoverable \in Nat /\ cases[i].metrics.recovered \in Nat
             /\ cases[i].metrics.recovered <= cases[i].metrics.recoverable
  <2>1. PICK t \in Seq(Observations) : t = os[i].trace
    BY <1>2
  <2>2. FirstPass(t) = GreenAndLast(t)
    <3>1. FirstPass(t) \in BOOLEAN /\ GreenAndLast(t) \in BOOLEAN
      BY DEF FirstPass, GreenAndLast
    <3> QED
      BY <3>1, FirstPassIs
  <2>3. RightMetrics(Metrics(t), t)
    BY RightMetricsHold
  <2>4. /\ Metrics(t).recoverable \in Nat /\ Metrics(t).recovered \in Nat
        /\ Metrics(t).recovered <= Metrics(t).recoverable
    BY MetricsType, RecoveredAreRecoverable
  <2> QED
    BY <1>2, <2>1, <2>2, <2>3, <2>4
<1>4. PICK r : r = Aggregate(cases)
  OBVIOUS
<1>5. /\ r.total = n /\ r.cases = cases
      /\ r.passed = Cardinality({i \in 1..n : cases[i].passed})
      /\ r.first_pass = Cardinality({i \in 1..n : cases[i].first_pass})
      /\ r.recoverable = Total([i \in 1..n |-> cases[i].metrics.recoverable])
      /\ r.recovered = Total([i \in 1..n |-> cases[i].metrics.recovered])
  BY <1>1, <1>4 DEF Aggregate, Count
<1>6. r.recovered <= r.recoverable
  <2>1. PICK u, v : /\ u = [i \in 1..n |-> cases[i].metrics.recovered]
                    /\ v = [i \in 1..n |-> cases[i].metrics.recoverable]
    OBVIOUS
  <2>2. u \in [1..n -> Nat] /\ v \in [1..n -> Nat] /\ \A i \in 1..n : u[i] <= v[i]
    BY <1>3, <2>1
  <2>3. Total(u) <= Total(v)
    BY <2>2, TotalsOrdered
  <2> QED
    BY <1>5, <2>1, <2>3
<1>7. /\ r.passed = Cardinality({i \in DOMAIN ts : os[i].completed /\ os[i].checks})
      /\ r.first_pass = Cardinality({i \in DOMAIN ts : GreenAndLast(os[i].trace)})
  <2>1. /\ {i \in DOMAIN ts : os[i].completed /\ os[i].checks}
            = {i \in 1..n : cases[i].passed}
        /\ {i \in DOMAIN ts : GreenAndLast(os[i].trace)}
            = {i \in 1..n : cases[i].first_pass}
    BY <1>2, <1>3
  <2> QED
    BY <1>5, <2>1
<1>8. \A i \in DOMAIN ts :
        /\ r.cases[i].id = ts[i]
        /\ r.cases[i].passed = (os[i].completed /\ os[i].checks)
        /\ r.cases[i].tokens = os[i].tokens
        /\ r.cases[i].first_pass = GreenAndLast(os[i].trace)
        /\ RightMetrics(r.cases[i].metrics, os[i].trace)
  <2>1. r.cases = cases
    BY <1>5
  <2> QED
    BY <1>2, <1>3, <2>1, Zenon
<1>9. r.total = Len(ts)
  BY <1>5
<1>10. TrueOf(r, ts, os)
  BY <1>6, <1>7, <1>8, <1>9, Zenon DEF TrueOf
<1> QED
  BY <1>4, <1>10

\* Places are numbered, what has finished has an outcome, and once there is a
\* report every case has returned and nothing moves.
ReportInv ==
  /\ DOMAIN tasks = 1..Len(tasks) /\ Len(tasks) \in Nat
  /\ outcome \in [Places -> Outcomes \cup {NoOutcome}]
  /\ \A i \in Places : thread[i] = "finished" => outcome[i] \in Outcomes
  /\ \A i \in Places : coroutine[i] = "returned" => thread[i] = "finished"
  /\ report # NoReport =>
       /\ main = "reported" /\ \A i \in Places : coroutine[i] = "returned"
       /\ report = Aggregate(Gathered)

LEMMA ReportInitInv ==
  Init => ReportInv
<1> SUFFICES ASSUME Init
             PROVE  ReportInv
  OBVIOUS
<1>1. PICK s \in Selections \cup {<<>>} : RunnerInit(s)
  BY DEF Init
<1>2. DOMAIN s = 1..Len(s) /\ Len(s) \in Nat
  <2>1. CASE s = <<>>
    BY <2>1
  <2>2. CASE s \in Selections
    BY <2>2, BenchmarkAssumption
  <2> QED
    BY <1>1, <2>1, <2>2
<1> QED
  BY <1>1, <1>2 DEF RunnerInit, ReportInv, Places

LEMMA ReportStepInv ==
  IInv /\ ReportInv /\ [Next]_vars => ReportInv'
<1> SUFFICES ASSUME IInv, ReportInv, [Next]_vars
             PROVE  ReportInv'
  OBVIOUS
<1> USE DEF Places
<1>1. /\ thread \in [Places -> {"none", "submitted", "running", "finished", "raised"}]
      /\ coroutine \in [Places -> {"waiting", "inside", "returned", "raised",
                                   "cancelled"}]
  BY DEF IInv, RunnerType
<1>2. CASE UNCHANGED runnerVars
  BY <1>2 DEF ReportInv, runnerVars, Gathered
<1>3. ASSUME RunnerStep, report # NoReport
      PROVE  FALSE
  <2>1. /\ main = "reported"
        /\ \A i \in Places : coroutine[i] = "returned" /\ thread[i] = "finished"
    BY <1>3 DEF ReportInv
  <2> QED
    BY <1>3, <2>1 DEF RunnerStep, Enter, StartCase, EndCase, Return, GatherRaises,
                      Fail, Report
<1>4. ASSUME report = NoReport, NEW i \in Places, Enter(i)
      PROVE  ReportInv'
  BY <1>1, <1>4 DEF Enter, ReportInv
<1>5. ASSUME report = NoReport, NEW i \in Places, StartCase(i)
      PROVE  ReportInv'
  BY <1>1, <1>5 DEF StartCase, ReportInv
<1>6. ASSUME report = NoReport, NEW i \in Places, EndCase(i)
      PROVE  ReportInv'
  BY <1>1, <1>6 DEF EndCase, ReportInv
<1>7. ASSUME report = NoReport, NEW i \in Places, Return(i)
      PROVE  ReportInv'
  BY <1>1, <1>7 DEF Return, ReportInv
<1>8. ASSUME report = NoReport, GatherRaises
      PROVE  ReportInv'
  BY <1>1, <1>8 DEF GatherRaises, ReportInv
<1>9. ASSUME report = NoReport, Fail
      PROVE  ReportInv'
  BY <1>9 DEF Fail, ReportInv
<1>10. ASSUME Report
       PROVE  ReportInv'
  <2>1. /\ UNCHANGED <<tasks, coroutine, thread, outcome>>
        /\ main' = "reported" /\ report' = Aggregate(Gathered)
        /\ \A i \in Places : coroutine[i] = "returned"
    BY <1>10 DEF Report
  <2>2. Gathered' = Gathered
    BY <2>1 DEF Gathered
  <2> QED
    BY <2>1, <2>2 DEF ReportInv
<1> QED
  BY <1>2, <1>3, <1>4, <1>5, <1>6, <1>7, <1>8, <1>9, <1>10
  DEF Next, RunAsync, Evolve, vars, RunnerStep

(***************************************************************************)
(* Whatever the order in which the cases end, and for traces of any        *)
(* length: a report has every selected task at its place with the result   *)
(* of its own run, and what the loops over the trace compute is what the   *)
(* trace says (async_runner.py:78, models.py:141-221, metrics.py:150-237,  *)
(* attribution.py:74-116, runner.py:106-132).                              *)
(***************************************************************************)
THEOREM ReportsAreTrue == Spec => []ReportIsTrue
<1>1. ReportInv => ReportIsTrue
  <2> SUFFICES ASSUME ReportInv, report # NoReport
               PROVE  TrueOf(report, tasks, outcome)
    BY Zenon DEF ReportIsTrue, TrueOf
  <2>1. PICK n \in Nat : n = Len(tasks) /\ DOMAIN tasks = 1..n
    BY DEF ReportInv
  <2>2. \A i \in 1..n : outcome[i] \in Outcomes
    BY <2>1 DEF ReportInv, Places
  <2>3. PICK cases : cases = Gathered
    OBVIOUS
  <2>4. cases = [i \in 1..n |-> CaseResult(tasks[i], outcome[i])]
    BY <2>1, <2>3 DEF Gathered, Places
  <2>5. TrueOf(Aggregate(cases), tasks, outcome)
    BY <2>1, <2>2, <2>4, AggregateIsTrue
  <2> QED
    BY <2>3, <2>5 DEF ReportInv
<1> QED
  BY <1>1, ReportInitInv, ReportStepInv, InvariantHolds, PTL DEF Spec
=============================================================================
