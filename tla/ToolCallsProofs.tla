--------------------------- MODULE ToolCallsProofs --------------------------
(***************************************************************************)
(* What a batch of tool calls may do and what its reads return: order,     *)
(* authorization and exposure of the calls in ToolRegistry, for any tools, *)
(* calls, verdicts, pool, batches and tasks, and freshness of the reads in *)
(* ReadCache, for any files, paths, threads and stamps.                    *)
(***************************************************************************)
EXTENDS ToolRegistry, ReadCache, FiniteSetTheorems, SequenceTheorems, TLAPS

-----------------------------------------------------------------------------
(* The registry: its inductive invariant.                                  *)

\* Calls are taken in the order of the batch.
TakenInOrder ==
  \A i, j \in Positions : i < j /\ stage[i] = "waiting" => stage[j] = "waiting"

\* One thread has one call under way, those before it behind it.
OneByOne ==
  Workers(batch) = 1 =>
    \A i \in Busy : \A j \in Positions : /\ j < i => stage[j] = "done"
                                         /\ j > i => stage[j] = "waiting"

\* The user is asked about mutating calls only, and because the policy says so.
AskingInv ==
  \A i \in Positions : stage[i] \in {"asking", "granting"} =>
    Mutating(batch[i]) /\ Evaluate(batch[i]) = "ask"

\* What the user has said yes to is approved, or about to be.
SaidInv ==
  /\ approved \subseteq said
  /\ \A call \in said \ approved :
       \E i \in Positions : stage[i] = "granting" /\ batch[i] = call
  /\ \A i \in Positions : stage[i] = "granting" => batch[i] \in said

\* Only registered tools run and succeed.
RanInv ==
  \A i \in Positions :
    stage[i] = "running" \/ result[i] = "ok" => Registered(batch[i])

\* A task that has used a tool is gated by then, if gating is on.
GatingInv ==
  /\ gated => gating
  /\ gating /\ used # {} => gated
  /\ gated => used \subseteq activated

IInv ==
  /\ TypeOK
  /\ TakenInOrder
  /\ OneByOne
  /\ AskingInv
  /\ SaidInv
  /\ RanInv
  /\ GatingInv
  /\ OnlyAuthorizedRun
  /\ AskedOnce

-----------------------------------------------------------------------------
(* Batches and the pool.                                                   *)

\* Positions are numbers, as many as there are calls.
LEMMA PositionsType ==
  ASSUME TypeOK
  PROVE  /\ Positions = 1 .. Len(batch) /\ Len(batch) \in Nat
         /\ Positions \subseteq Nat
         /\ \A i \in Positions : batch[i] \in Calls
  BY DEF TypeOK, Positions

\* A batch with a mutating call has one thread.
LEMMA MutatingIsAlone ==
  ASSUME NEW i \in Positions, Mutating(batch[i])
  PROVE  Workers(batch) = 1
  BY DEF Workers, Positions

\* The thread of such a batch takes a call only when none is under way.
LEMMA NoneUnderWay ==
  ASSUME TypeOK, Workers(batch) = 1, Cardinality(Busy) < Workers(batch)
  PROVE  Busy = {}
<1>1. IsFiniteSet(Busy)
  <2>1. IsFiniteSet(1 .. Len(batch))
    BY PositionsType, FS_Interval
  <2>2. Busy \subseteq 1 .. Len(batch)
    BY PositionsType DEF Busy
  <2>. QED
    BY <2>1, <2>2, FS_Subset
<1>2. Cardinality(Busy) \in Nat
  BY <1>1, FS_CardinalityType
<1>3. Cardinality(Busy) = 0
  BY <1>2
<1>. QED
  BY <1>1, <1>3, FS_EmptySet

\* The policy asks about mutating calls only.
LEMMA AskedIsMutating ==
  ASSUME NEW call, Registered(call), Evaluate(call) = "ask"
  PROVE  Mutating(call)
  BY RegistryAssumption DEF Registered, Evaluate, DefaultAction, Mutating

\* What taking a call does: it runs, is asked about or is done for.
LEMMA TakeCases ==
  ASSUME TypeOK, NEW i \in Positions, Take(i)
  PROVE  \/ /\ Move(i, "running")
            /\ Registered(batch[i])
            /\ \/ Evaluate(batch[i]) = "allow"
               \/ Evaluate(batch[i]) = "ask" /\ batch[i] \in approved
         \/ /\ Move(i, "asking")
            /\ Registered(batch[i])
            /\ Evaluate(batch[i]) = "ask" /\ batch[i] \notin approved
         \/ Done(i, "blocked")
         \/ Done(i, "failed")
<1>1. CASE Registered(batch[i]) /\ batch[i].args # "invalid"
  BY <1>1 DEF Take, Authorize
<1>2. CASE ~(Registered(batch[i]) /\ batch[i].args # "invalid")
  BY <1>2 DEF Take
<1>. QED
  BY <1>1, <1>2

-----------------------------------------------------------------------------
(* Types.                                                                  *)

\* What TypeOK says of the batch.
BatchTypeOK ==
  /\ batch \in Seq(Calls) /\ Len(batch) <= MaxCalls
  /\ stage \in [Positions -> Stages]
  /\ result \in [Positions -> Results]
  /\ \A i \in Positions : result[i] # "none" <=> stage[i] = "done"

\* A step of a call that is not done moves it on or ends it.
LEMMA DispatchMoves ==
  ASSUME TypeOK, NEW i \in Positions, Dispatch(i)
  PROVE  /\ stage[i] # "done"
         /\ UNCHANGED <<config, active, batch, used, tasks, batches>>
         /\ \/ \E where \in {"asking", "granting", "running"} : Move(i, where)
            \/ \E outcome \in {"ok", "failed", "blocked"} : Done(i, outcome)
<1>1. CASE Take(i)
  BY <1>1, TakeCases DEF Take
<1>2. CASE UserAllows(i)
  BY <1>2 DEF UserAllows
<1>3. CASE Grant(i)
  BY <1>3 DEF Grant
<1>4. CASE UserDenies(i)
  BY <1>4 DEF UserDenies
<1>5. CASE HandlerEnds(i)
  BY <1>5 DEF HandlerEnds
<1>. QED
  BY <1>1, <1>2, <1>3, <1>4, <1>5 DEF Dispatch

\* A call is moved on or ended within the types.
LEMMA DispatchType ==
  ASSUME TypeOK, NEW i \in Positions, Dispatch(i)
  PROVE  BatchTypeOK'
<1>1. stage[i] # "done" /\ batch' = batch
  BY DispatchMoves
<1>2. ASSUME NEW where \in {"asking", "granting", "running"}, Move(i, where)
      PROVE  BatchTypeOK'
  BY <1>1, <1>2 DEF Move, BatchTypeOK, TypeOK, Positions, Stages
<1>3. ASSUME NEW outcome \in {"ok", "failed", "blocked"}, Done(i, outcome)
      PROVE  BatchTypeOK'
  BY <1>1, <1>3 DEF Done, BatchTypeOK, TypeOK, Positions, Stages, Results
<1>. QED
  BY <1>2, <1>3, DispatchMoves

\* There is nothing in an empty batch.
LEMMA EmptyBatch ==
  ASSUME batch' = <<>>, stage' = <<>>, result' = <<>>
  PROVE  BatchTypeOK' /\ Positions' = {}
<1>1. Positions' = {} /\ batch' \in Seq(Calls) /\ Len(batch') = 0
  BY DEF Positions
<1>2. stage' \in [{} -> Stages] /\ result' \in [{} -> Results]
  OBVIOUS
<1>. QED
  BY <1>1, <1>2, RegistryAssumption DEF BatchTypeOK

\* Nor does anything happen to a batch that is left alone.
LEMMA SameBatch ==
  ASSUME TypeOK, UNCHANGED <<batch, stage, result>>
  PROVE  BatchTypeOK'
  BY DEF TypeOK, BatchTypeOK, Positions

\* A new batch waits.
LEMMA NewBatch ==
  ASSUME BeginBatch
  PROVE  /\ BatchTypeOK'
         /\ \A i \in Positions' : stage'[i] = "waiting" /\ result'[i] = "none"
<1>1. PICK n \in 1 .. MaxCalls : \E calls \in [1 .. n -> Calls] :
        /\ batch' = calls
        /\ stage' = [i \in 1 .. n |-> "waiting"]
        /\ result' = [i \in 1 .. n |-> "none"]
  BY DEF BeginBatch
<1>2. n \in Nat /\ n <= MaxCalls
  BY RegistryAssumption
<1>3. batch' \in [1 .. n -> Calls] /\ batch' \in Seq(Calls)
  BY <1>1, <1>2, SeqDef
<1>4. Len(batch') = n /\ Positions' = 1 .. n
  BY <1>2, <1>3 DEF Positions
<1>. QED
  BY <1>1, <1>2, <1>3, <1>4 DEF BatchTypeOK, Stages, Results

\* What the gate makes of a batch: registered tools join what is offered.
LEMMA SucceededAreTools ==
  ASSUME TypeOK, RanInv
  PROVE  Succeeded \subseteq Tools
  BY DEF Succeeded, RanInv, Registered, Positions

\* Every step keeps the types.
LEMMA TypeStep ==
  ASSUME TypeOK, RanInv, Next
  PROVE  TypeOK'
<1>1. CASE StartTask
  <2>1. BatchTypeOK'
    BY <1>1, SameBatch DEF StartTask
  <2>2. gated' \in BOOLEAN
    BY <1>1 DEF StartTask, active, TypeOK
  <2>3. activated' \subseteq Tools
    BY <1>1 DEF StartTask, active, Known, TypeOK
  <2>4. /\ mode' \in Modes /\ gating' \in BOOLEAN
        /\ approved' \subseteq Calls /\ said' \subseteq Calls
        /\ used' \subseteq Tools
    BY <1>1 DEF StartTask, config, TypeOK
  <2>5. tasks' \in 0 .. MaxTasks /\ batches' \in 0 .. MaxBatches
    BY <1>1, RegistryAssumption DEF StartTask, TypeOK
  <2>. QED
    BY <2>1, <2>2, <2>3, <2>4, <2>5 DEF TypeOK, BatchTypeOK
<1>2. CASE ResumeTask
  <2>1. BatchTypeOK'
    BY <1>2, SameBatch DEF ResumeTask
  <2>2. tasks' \in 0 .. MaxTasks
    BY <1>2, RegistryAssumption DEF ResumeTask, TypeOK
  <2>. QED
    BY <1>2, <2>1, <2>2 DEF ResumeTask, config, TypeOK, BatchTypeOK
<1>3. CASE BeginBatch
  <2>1. BatchTypeOK'
    BY <1>3, NewBatch
  <2>2. batches' \in 0 .. MaxBatches
    BY <1>3, RegistryAssumption DEF BeginBatch, TypeOK
  <2>. QED
    BY <1>3, <2>1, <2>2 DEF BeginBatch, config, active, TypeOK, BatchTypeOK
<1>4. ASSUME NEW i \in Positions, Dispatch(i)
      PROVE  TypeOK'
  <2>1. approved' \subseteq Calls /\ said' \subseteq Calls
    <3>1. batch[i] \in Calls
      BY PositionsType
    <3>. QED
      BY <1>4, <3>1 DEF Dispatch, Take, UserAllows, Grant, UserDenies,
                        HandlerEnds, Approval, TypeOK
  <2>2. BatchTypeOK' /\ UNCHANGED <<config, active, used, tasks, batches>>
    BY <1>4, DispatchType, DispatchMoves
  <2>. QED
    BY <2>1, <2>2 DEF BatchTypeOK, config, active, TypeOK
<1>5. CASE FinishBatch
  <2>1. BatchTypeOK'
    BY <1>5, EmptyBatch DEF FinishBatch
  <2>2. used' \subseteq Tools
    BY <1>5, SucceededAreTools DEF FinishBatch, TypeOK
  <2>3. activated' \subseteq Tools /\ gated' \in BOOLEAN
    BY <1>5 DEF FinishBatch, Activated, Known, active, TypeOK
  <2>. QED
    BY <1>5, <2>1, <2>2, <2>3 DEF FinishBatch, config, BatchTypeOK, TypeOK
<1>. QED
  BY <1>1, <1>2, <1>3, <1>4, <1>5 DEF Next

-----------------------------------------------------------------------------
(* Steps of a call.                                                        *)

\* A step of a call leaves the others where they are.
LEMMA DispatchMeans ==
  ASSUME TypeOK, NEW i \in Positions, Dispatch(i)
  PROVE  /\ Positions' = Positions
         /\ \A j \in Positions \ {i} : stage'[j] = stage[j] /\ result'[j] = result[j]
         /\ stage'[i] \in {"asking", "granting", "running", "done"}
         /\ stage[i] # "done"
<1>1. batch' = batch /\ stage[i] # "done"
  BY DispatchMoves
<1>2. ASSUME NEW where \in {"asking", "granting", "running"}, Move(i, where)
      PROVE  /\ \A j \in Positions \ {i} : stage'[j] = stage[j] /\ result'[j] = result[j]
             /\ stage'[i] \in {"asking", "granting", "running", "done"}
  BY <1>2 DEF Move, TypeOK
<1>3. ASSUME NEW outcome \in {"ok", "failed", "blocked"}, Done(i, outcome)
      PROVE  /\ \A j \in Positions \ {i} : stage'[j] = stage[j] /\ result'[j] = result[j]
             /\ stage'[i] \in {"asking", "granting", "running", "done"}
  BY <1>3 DEF Done, TypeOK
<1>. QED
  BY <1>1, <1>2, <1>3, DispatchMoves DEF Positions

\* It changes no verdict and no number of threads.
LEMMA SameVerdicts ==
  ASSUME UNCHANGED <<config, batch>>
  PROVE  /\ \A j \in Positions : /\ Evaluate(batch[j])' = Evaluate(batch[j])
                                 /\ Mutating(batch[j])' = Mutating(batch[j])
                                 /\ Registered(batch[j])' = Registered(batch[j])
         /\ Workers(batch)' = Workers(batch)
  BY DEF config, Evaluate, DefaultAction, Mutating, Registered, Workers

\* Of the calls under way in one thread there is one.
LEMMA OneBusy ==
  ASSUME TypeOK, OneByOne, Workers(batch) = 1, NEW i \in Busy, NEW j \in Busy
  PROVE  i = j
  BY PositionsType DEF OneByOne, Busy

\* Calls go on being taken in order.
LEMMA DispatchInOrder ==
  ASSUME IInv, NEW i \in Positions, Dispatch(i)
  PROVE  TakenInOrder'
<1>. SUFFICES ASSUME NEW a \in Positions, NEW b \in Positions,
                     a < b, stage'[a] = "waiting"
              PROVE  stage'[b] = "waiting"
  BY DispatchMeans DEF IInv, TakenInOrder
<1>1. a # i /\ stage[a] = "waiting"
  BY DispatchMeans DEF IInv
<1>2. stage[b] = "waiting"
  BY <1>1 DEF IInv, TakenInOrder
<1>3. b # i
  <2>. SUFFICES ASSUME b = i PROVE FALSE
    OBVIOUS
  <2>1. Take(i)
    BY <1>2 DEF Dispatch, UserAllows, Grant, UserDenies, HandlerEnds
  <2>2. a \in 1 .. i - 1
    BY PositionsType DEF IInv
  <2>. QED
    BY <1>1, <2>1, <2>2 DEF Take
<1>. QED
  BY <1>2, <1>3, DispatchMeans DEF IInv

\* One thread goes on having one call under way.
LEMMA DispatchOneByOne ==
  ASSUME IInv, NEW i \in Positions, Dispatch(i)
  PROVE  OneByOne'
<1>1. UNCHANGED <<config, batch>> /\ Positions' = Positions
  BY DispatchMoves, DispatchMeans DEF IInv
<1>. SUFFICES ASSUME Workers(batch) = 1,
                     NEW k \in Positions, stage'[k] \in {"asking", "granting", "running"},
                     NEW j \in Positions
              PROVE  /\ j < k => stage'[j] = "done"
                     /\ j > k => stage'[j] = "waiting"
  BY <1>1, SameVerdicts DEF OneByOne, Busy
<1>2. k = i /\ \A l \in Positions : (l < i => stage[l] = "done") /\ (l > i => stage[l] = "waiting")
  <2>1. CASE Take(i)
    <3>1. Busy = {}
      BY <2>1, NoneUnderWay DEF Take, IInv
    <3>2. k = i
      BY <3>1, DispatchMeans DEF Busy, IInv
    <3>3. ASSUME NEW l \in Positions, l < i PROVE stage[l] = "done"
      <4>1. l \in 1 .. i - 1
        BY <3>3, PositionsType DEF IInv
      <4>. QED
        BY <2>1, <3>1, <4>1 DEF Take, Busy, IInv, TypeOK, Stages
    <3>4. ASSUME NEW l \in Positions, l > i PROVE stage[l] = "waiting"
      BY <2>1, <3>4, PositionsType DEF Take, IInv, TakenInOrder
    <3>. QED
      BY <3>2, <3>3, <3>4
  <2>2. CASE ~Take(i)
    <3>1. i \in Busy
      BY <2>2 DEF Dispatch, UserAllows, Grant, UserDenies, HandlerEnds, Busy
    <3>2. k \in Busy
      BY <3>1, DispatchMeans DEF Busy, IInv
    <3>. QED
      BY <3>1, <3>2, OneBusy DEF IInv, OneByOne
  <2>. QED
    BY <2>1, <2>2
<1>. QED
  BY <1>2, PositionsType, DispatchMeans DEF IInv

\* Who is asked, and what has been approved, said, run and authorized.
LEMMA DispatchAuthorizes ==
  ASSUME IInv, NEW i \in Positions, Dispatch(i)
  PROVE  AskingInv' /\ SaidInv' /\ RanInv' /\ OnlyAuthorizedRun' /\ AskedOnce'
<1>. USE DEF IInv
<1>1. /\ UNCHANGED <<config, batch>> /\ Positions' = Positions
      /\ stage \in [Positions -> Stages] /\ result \in [Positions -> Results]
  BY DispatchMoves, DispatchMeans DEF TypeOK
<1>2. \A j \in Positions : /\ Evaluate(batch[j])' = Evaluate(batch[j])
                          /\ Mutating(batch[j])' = Mutating(batch[j])
                          /\ Registered(batch[j])' = Registered(batch[j])
  BY <1>1, SameVerdicts
<1>3. \A j \in Positions \ {i} : stage'[j] = stage[j] /\ result'[j] = result[j]
  BY DispatchMeans
<1>4. CASE Take(i)
  <2>1. UNCHANGED <<approved, said>> /\ stage[i] = "waiting"
    BY <1>4 DEF Take
  <2>2. CASE /\ Move(i, "running") /\ Registered(batch[i])
             /\ \/ Evaluate(batch[i]) = "allow"
                \/ Evaluate(batch[i]) = "ask" /\ batch[i] \in approved
    <3>1. stage'[i] = "running" /\ result' = result
      BY <1>1, <2>2 DEF Move
    <3>. QED
      BY <1>1, <1>2, <1>3, <2>1, <2>2, <3>1
      DEF AskingInv, SaidInv, RanInv, OnlyAuthorizedRun, AskedOnce
  <2>3. CASE /\ Move(i, "asking") /\ Registered(batch[i])
             /\ Evaluate(batch[i]) = "ask" /\ batch[i] \notin approved
    <3>1. stage'[i] = "asking" /\ result' = result
      BY <1>1, <2>3 DEF Move
    <3>2. Mutating(batch[i])
      BY <2>3, AskedIsMutating
    <3>3. Busy = {}
      BY <1>4, <3>2, MutatingIsAlone, NoneUnderWay DEF Take
    <3>4. batch[i] \notin said
      BY <2>3, <3>3 DEF SaidInv, Busy
    <3>. QED
      BY <1>1, <1>2, <1>3, <2>1, <2>3, <3>1, <3>2, <3>4
      DEF AskingInv, SaidInv, RanInv, OnlyAuthorizedRun, AskedOnce
  <2>4. ASSUME NEW outcome \in {"failed", "blocked"}, Done(i, outcome)
        PROVE  AskingInv' /\ SaidInv' /\ RanInv' /\ OnlyAuthorizedRun' /\ AskedOnce'
    <3>1. stage'[i] = "done" /\ result'[i] # "ok"
      BY <1>1, <2>4 DEF Done
    <3>. QED
      BY <1>1, <1>2, <1>3, <2>1, <3>1
      DEF AskingInv, SaidInv, RanInv, OnlyAuthorizedRun, AskedOnce
  <2>. QED
    BY <1>4, <2>2, <2>3, <2>4, TakeCases
<1>5. CASE UserAllows(i)
  <2>1. /\ stage[i] = "asking" /\ stage'[i] = "granting" /\ result' = result
        /\ approved' = approved /\ said' = said \cup {batch[i]}
    BY <1>1, <1>5 DEF UserAllows, Move
  <2>2. \A k \in Positions \ {i} : stage[k] # "asking"
    <3>1. Workers(batch) = 1
      BY <2>1, MutatingIsAlone DEF AskingInv
    <3>. QED
      BY <2>1, <3>1, OneBusy DEF Busy
  <2>. QED
    BY <1>1, <1>2, <1>3, <2>1, <2>2
    DEF AskingInv, SaidInv, RanInv, OnlyAuthorizedRun, AskedOnce
<1>6. CASE Grant(i)
  <2>1. /\ stage[i] = "granting" /\ stage'[i] = "running" /\ result' = result
        /\ approved' = approved \cup {batch[i]} /\ said' = said
    BY <1>1, <1>6 DEF Grant, Move, Approval
  <2>. QED
    BY <1>1, <1>2, <1>3, <2>1
    DEF AskingInv, SaidInv, RanInv, OnlyAuthorizedRun, AskedOnce, Mutating
<1>7. CASE UserDenies(i) \/ HandlerEnds(i)
  <2>1. /\ stage[i] \in {"asking", "running"} /\ stage'[i] = "done"
        /\ UNCHANGED <<approved, said>>
        /\ result'[i] = "ok" => stage[i] = "running"
    BY <1>1, <1>7 DEF UserDenies, HandlerEnds, Done
  <2>. QED
    BY <1>1, <1>2, <1>3, <2>1
    DEF AskingInv, SaidInv, RanInv, OnlyAuthorizedRun, AskedOnce
<1>. QED
  BY <1>4, <1>5, <1>6, <1>7 DEF Dispatch

-----------------------------------------------------------------------------
(* Other steps.                                                            *)

\* Where every call waits, nothing is to be shown of calls.
LEMMA FreshBatch ==
  ASSUME \A i \in Positions' : stage'[i] = "waiting" /\ result'[i] = "none"
  PROVE  /\ TakenInOrder' /\ OneByOne' /\ AskingInv' /\ RanInv'
         /\ OnlyAuthorizedRun' /\ AskedOnce'
  BY DEF TakenInOrder, OneByOne, AskingInv, RanInv, OnlyAuthorizedRun,
         AskedOnce, Busy

\* What a step that begins or ends a task or a batch does to its calls.
LEMMA NotDispatch ==
  ASSUME IInv, StartTask \/ ResumeTask \/ BeginBatch \/ FinishBatch
  PROVE  /\ \A i \in Positions' : stage'[i] = "waiting" /\ result'[i] = "none"
         /\ SaidInv'
<1>1. \A i \in Positions : stage[i] # "granting"
  BY DEF StartTask, ResumeTask, BeginBatch, FinishBatch, Positions
<1>2. said' \subseteq approved' /\ approved' \subseteq said'
  BY <1>1 DEF IInv, SaidInv, StartTask, ResumeTask, BeginBatch, FinishBatch
<1>3. \A i \in Positions' : stage'[i] = "waiting" /\ result'[i] = "none"
  <2>1. CASE StartTask \/ ResumeTask
    BY <2>1 DEF StartTask, ResumeTask, Positions
  <2>2. CASE BeginBatch
    BY <2>2, NewBatch
  <2>3. CASE FinishBatch
    BY <2>3, EmptyBatch DEF FinishBatch
  <2>. QED
    BY <2>1, <2>2, <2>3
<1>. QED
  BY <1>2, <1>3 DEF SaidInv

\* The gate opens with each task, and closes with its first batch.
LEMMA GateStep ==
  ASSUME IInv, Next
  PROVE  GatingInv'
<1>. USE DEF IInv, GatingInv
<1>1. CASE StartTask
  BY <1>1 DEF StartTask, config, active
<1>2. CASE ResumeTask
  BY <1>2 DEF ResumeTask, config
<1>3. CASE BeginBatch
  BY <1>3 DEF BeginBatch, config, active
<1>4. ASSUME NEW i \in Positions, Dispatch(i)
      PROVE  GatingInv'
  BY <1>4, DispatchMoves DEF config, active
<1>5. CASE FinishBatch
  BY <1>5, SucceededAreTools DEF FinishBatch, config, active, Activated, Known
<1>. QED
  BY <1>1, <1>2, <1>3, <1>4, <1>5 DEF Next

-----------------------------------------------------------------------------
(* The registry: the theorems.                                             *)

\* A registry without a batch satisfies the invariant.
LEMMA InitInv == Init => IInv
<1>. SUFFICES ASSUME Init PROVE IInv
  OBVIOUS
<1>1. Positions = {}
  BY DEF Init, Positions
<1>2. TypeOK
  <2>1. batch \in Seq(Calls) /\ Len(batch) = 0
    BY DEF Init
  <2>2. stage \in [{} -> Stages] /\ result \in [{} -> Results]
    BY DEF Init
  <2>3. /\ mode \in Modes /\ gating \in BOOLEAN
        /\ approved = {} /\ gated = FALSE /\ activated = {}
        /\ said = {} /\ used = {} /\ tasks = 0 /\ batches = 0
    BY DEF Init
  <2>4. Len(batch) <= MaxCalls /\ tasks \in 0 .. MaxTasks /\ batches \in 0 .. MaxBatches
    BY <2>1, <2>3, RegistryAssumption
  <2>5. stage \in [Positions -> Stages] /\ result \in [Positions -> Results]
    BY <1>1, <2>2
  <2>6. \A i \in Positions : result[i] # "none" <=> stage[i] = "done"
    BY <1>1
  <2>7. gated \in BOOLEAN
    BY <2>3
  <2>. QED
    BY <2>1, <2>3, <2>4, <2>5, <2>6, <2>7 DEF TypeOK
<1>. QED
  BY <1>1, <1>2 DEF Init, IInv, TakenInOrder, OneByOne, AskingInv, SaidInv,
       RanInv, GatingInv, OnlyAuthorizedRun, AskedOnce, Busy

\* Every step keeps the invariant.
LEMMA StepInv == IInv /\ [Next]_vars => IInv'
<1>. SUFFICES ASSUME IInv, [Next]_vars PROVE IInv'
  OBVIOUS
<1>1. CASE UNCHANGED vars
  BY <1>1 DEF vars, IInv, TypeOK, Positions, TakenInOrder, OneByOne, Workers,
       Mutating, Registered, Busy, AskingInv, SaidInv, RanInv, GatingInv,
       OnlyAuthorizedRun, AskedOnce, Evaluate, DefaultAction
<1>2. CASE Next
  <2>1. TypeOK' /\ GatingInv'
    BY <1>2, TypeStep, GateStep DEF IInv
  <2>2. ASSUME NEW i \in Positions, Dispatch(i)
        PROVE  IInv'
    BY <2>1, <2>2, DispatchInOrder, DispatchOneByOne, DispatchAuthorizes DEF IInv
  <2>3. CASE StartTask \/ ResumeTask \/ BeginBatch \/ FinishBatch
    BY <2>1, <2>3, NotDispatch, FreshBatch DEF IInv
  <2>. QED
    BY <1>2, <2>2, <2>3 DEF Next
<1>. QED
  BY <1>1, <1>2

\* The invariant of the registry: calls are taken in order, asked about alone
\* and approved one by one.
THEOREM InvariantHolds == Spec => []IInv
  BY InitInv, StepInv, PTL DEF Spec

\* The types of ToolRegistry, for any tools, calls and bounds.
THEOREM TypeCorrect == Spec => []TypeOK
<1>1. IInv => TypeOK
  BY DEF IInv
<1>. QED
  BY <1>1, InvariantHolds, PTL

\* _dispatch_batch: while the user is asked or a mutating handler runs, the
\* calls before are done and those after have not begun, for any batch, pool
\* and risks.
THEOREM MutationsRunAlone == Spec => []MutationsAlone
<1>1. IInv => MutationsAlone
  BY MutatingIsAlone DEF IInv, AskingInv, OneByOne, MutationsAlone, Busy
<1>. QED
  BY <1>1, InvariantHolds, PTL

\* ApprovalManager.authorize: no handler runs a call that the policy neither
\* allows nor asks about with a yes of the user to this very call.
THEOREM HandlersAreAuthorized == Spec => []OnlyAuthorizedRun
<1>1. IInv => OnlyAuthorizedRun
  BY DEF IInv
<1>. QED
  BY <1>1, InvariantHolds, PTL

\* Nor is the user asked twice about a call once allowed.
THEOREM UserIsAskedOnce == Spec => []AskedOnce
<1>1. IInv => AskedOnce
  BY DEF IInv
<1>. QED
  BY <1>1, InvariantHolds, PTL

\* ToolRegistry.activate: a tool the task has used stays offered.
THEOREM UsedToolsRemain == Spec => []UsedToolsStay
<1>1. IInv => UsedToolsStay
  BY DEF IInv, TypeOK, GatingInv, UsedToolsStay, Exposed
<1>. QED
  BY <1>1, InvariantHolds, PTL

-----------------------------------------------------------------------------
(* The read cache: its inductive invariant.                                *)

\* The stamp at hand is that of the content the file had when the thread
\* began; content read since is not older; nor is content served, if edits
\* show in their stamps.
ThreadInv(t) ==
  thread[t].at # "idle" =>
    LET f == Resolve[thread[t].path] IN
    /\ thread[t].since \in 1 .. Version(f)
    /\ stamps[f][thread[t].since] = thread[t].stamp
    /\ thread[t].at = "read" => Fresh(t)
    /\ thread[t].at = "served" /\ EditsShow(f) => Fresh(t)

\* The stamp of an entry is that of its content or of an older one: the stat
\* comes before the read.
EntryInv(p) ==
  cache[p].cached =>
    LET f == Resolve[p] IN
    /\ cache[p].content \in 1 .. Version(f)
    /\ \E v \in 1 .. cache[p].content : stamps[f][v] = cache[p].stamp

CacheInv ==
  /\ CacheTypeOK
  /\ \A t \in Threads : ThreadInv(t)
  /\ \A p \in Paths : EntryInv(p)

-----------------------------------------------------------------------------
(* Files.                                                                  *)

\* A path names a file, which has been written at least once.
LEMMA FileOfPath ==
  ASSUME CacheTypeOK, NEW p \in Paths
  PROVE  /\ Resolve[p] \in Files
         /\ Version(Resolve[p]) \in Nat \ {0}
         /\ Stamp(Resolve[p]) \in Stamps
<1>1. Resolve[p] \in Files
  BY CacheAssumption
<1>2. stamps[Resolve[p]] \in Seq(Stamps) /\ stamps[Resolve[p]] # <<>>
  BY <1>1 DEF CacheTypeOK
<1>. QED
  BY <1>1, <1>2 DEF Version, Stamp

\* An edit adds a version and leaves the older ones; if edits show after it,
\* they have shown before.
LEMMA EditAdds ==
  ASSUME CacheTypeOK, NEW f \in Files, Edit(f)
  PROVE  /\ stamps' \in [Files -> Seq(Stamps)]
         /\ \A g \in Files :
              /\ stamps'[g] # <<>>
              /\ Version(g) \in Nat /\ Version(g)' \in Nat
              /\ Version(g) <= Version(g)'
              /\ \A v \in 1 .. Version(g) : stamps'[g][v] = stamps[g][v]
              /\ EditsShow(g)' => EditsShow(g)
<1>1. PICK s \in Stamps : stamps' = [stamps EXCEPT ![f] = Append(@, s)]
  BY DEF Edit
<1>2. stamps' \in [Files -> Seq(Stamps)]
  BY <1>1 DEF CacheTypeOK
<1>3. ASSUME NEW g \in Files
      PROVE  /\ stamps'[g] # <<>>
             /\ Version(g) \in Nat /\ Version(g)' \in Nat
             /\ Version(g) <= Version(g)'
             /\ \A v \in 1 .. Version(g) : stamps'[g][v] = stamps[g][v]
  <2>1. stamps[g] \in Seq(Stamps) /\ stamps[g] # <<>>
    BY DEF CacheTypeOK
  <2>2. CASE g = f
    <3>1. stamps'[g] = Append(stamps[g], s)
      BY <1>1, <2>2 DEF CacheTypeOK
    <3>. QED
      BY <2>1, <3>1 DEF Version
  <2>3. CASE g # f
    <3>1. stamps'[g] = stamps[g]
      BY <1>1, <2>3 DEF CacheTypeOK
    <3>. QED
      BY <2>1, <3>1 DEF Version
  <2>. QED
    BY <2>2, <2>3
<1>4. ASSUME NEW g \in Files, EditsShow(g)'
      PROVE  EditsShow(g)
  <2>. SUFFICES ASSUME NEW i \in 1 .. Version(g), NEW j \in 1 .. Version(g),
                       stamps[g][i] = stamps[g][j]
                PROVE  i = j
    BY DEF EditsShow
  <2>1. i \in 1 .. Version(g)' /\ j \in 1 .. Version(g)'
    BY <1>3
  <2>2. stamps'[g][i] = stamps'[g][j]
    BY <1>3
  <2>. QED
    BY <1>4, <2>1, <2>2 DEF EditsShow
<1>. QED
  BY <1>2, <1>3, <1>4

-----------------------------------------------------------------------------
(* Types.                                                                  *)

\* A thread at work carries a path, a stamp and two versions.
LEMMA ThreadType ==
  ASSUME CacheTypeOK, NEW t \in Threads, thread[t].at # "idle"
  PROVE  /\ thread[t] \in [at : {"stat", "missed", "read", "served", "written"},
                           path : Paths, stamp : Stamps, content : Nat,
                           since : Nat]
         /\ thread[t].path \in Paths
         /\ thread[t].stamp \in Stamps
         /\ thread[t].content \in Nat
         /\ thread[t].since \in Nat
  BY DEF CacheTypeOK, ThreadStates

\* So does an entry.
LEMMA EntryType ==
  ASSUME CacheTypeOK, NEW p \in Paths, cache[p].cached
  PROVE  cache[p].stamp \in Stamps /\ cache[p].content \in Nat
  BY DEF CacheTypeOK, CacheEntries

\* Every step keeps the types.
LEMMA CacheTypeStep ==
  ASSUME CacheTypeOK, CacheNext
  PROVE  CacheTypeOK'
<1>. USE DEF CacheTypeOK
<1>1. ASSUME NEW t \in Threads, NEW p \in Paths, TakeStat(t, p)
      PROVE  CacheTypeOK'
  <2>1. Working("stat", p, Stamp(Resolve[p]), 0, Version(Resolve[p]))
          \in ThreadStates
    BY FileOfPath DEF Working, ThreadStates
  <2>2. disturbed' \subseteq Files
    BY <1>1, FileOfPath DEF TakeStat, Disturb
  <2>. QED
    BY <1>1, <2>1, <2>2 DEF TakeStat
<1>2. ASSUME NEW t \in Threads, NEW p \in Paths, WriteText(t, p)
      PROVE  CacheTypeOK'
  <2>1. Working("written", p, Stamp(Resolve[p]), 0, Version(Resolve[p]))
          \in ThreadStates
    BY FileOfPath DEF Working, ThreadStates
  <2>2. disturbed' \subseteq Files
    BY <1>2, FileOfPath DEF WriteText, Disturb
  <2>. QED
    BY <1>2, <2>1, <2>2, FileOfPath, EditAdds DEF WriteText
<1>3. ASSUME NEW t \in Threads, LookUp(t)
      PROVE  CacheTypeOK'
  <2>1. thread[t].at # "idle" /\ thread[t].path \in Paths
    BY <1>3, ThreadType DEF LookUp
  <2>2. ASSUME cache[thread[t].path].cached
        PROVE  [thread[t] EXCEPT !.at = "served",
                  !.content = cache[thread[t].path].content] \in ThreadStates
    BY <2>1, <2>2, ThreadType, EntryType DEF ThreadStates
  <2>3. [thread[t] EXCEPT !.at = "missed"] \in ThreadStates
    BY <2>1, ThreadType DEF ThreadStates
  <2>. QED
    BY <1>3, <2>2, <2>3 DEF LookUp, Matches
<1>4. ASSUME NEW t \in Threads, ReadText(t)
      PROVE  CacheTypeOK'
  <2>1. thread[t].at # "idle" /\ thread[t].path \in Paths
    BY <1>4, ThreadType DEF ReadText
  <2>2. Version(Resolve[thread[t].path]) \in Nat
    BY <2>1, FileOfPath
  <2>3. [thread[t] EXCEPT !.at = "read",
           !.content = Version(Resolve[thread[t].path])] \in ThreadStates
    BY <2>1, <2>2, ThreadType DEF ThreadStates
  <2>4. thread' = [thread EXCEPT ![t] = [thread[t] EXCEPT !.at = "read",
                     !.content = Version(Resolve[thread[t].path])]]
    BY <1>4 DEF ReadText
  <2>. QED
    BY <1>4, <2>3, <2>4 DEF ReadText
<1>5. ASSUME NEW t \in Threads, StoreEntry(t)
      PROVE  CacheTypeOK'
  <2>1. thread[t].at # "idle" /\ thread[t].path \in Paths
    BY <1>5, ThreadType DEF StoreEntry
  <2>2. Entry(thread[t].stamp, thread[t].content) \in CacheEntries
    BY <2>1, ThreadType DEF Entry, CacheEntries
  <2>3. [thread[t] EXCEPT !.at = "served"] \in ThreadStates
    BY <2>1, ThreadType DEF ThreadStates
  <2>4. thread' = [thread EXCEPT ![t] = [thread[t] EXCEPT !.at = "served"]]
    BY <1>5 DEF StoreEntry
  <2>. QED
    BY <1>5, <2>2, <2>3, <2>4 DEF StoreEntry, StampToKeep
<1>6. ASSUME NEW t \in Threads, Return(t)
      PROVE  CacheTypeOK'
  BY <1>6 DEF Return, Idle, ThreadStates
<1>7. ASSUME NEW t \in Threads, DropEntry(t)
      PROVE  CacheTypeOK'
  BY <1>7 DEF DropEntry, Dropped, NoEntry, Idle, ThreadStates, CacheEntries
<1>8. ASSUME NEW f \in Files, EditOutside(f)
      PROVE  CacheTypeOK'
  BY <1>8, EditAdds DEF EditOutside, Disturb
<1>. QED
  BY <1>1, <1>2, <1>3, <1>4, <1>5, <1>6, <1>7, <1>8 DEF CacheNext

-----------------------------------------------------------------------------
(* Threads and entries.                                                    *)

\* What a thread or an entry knows of a file stays true when the file is
\* edited.
LEMMA EditKeeps ==
  ASSUME CacheInv, NEW f \in Files, Edit(f)
  PROVE  /\ \A t \in Threads : thread'[t] = thread[t] => ThreadInv(t)'
         /\ \A p \in Paths : cache'[p] = cache[p] => EntryInv(p)'
<1>. USE DEF CacheInv
<1>1. ASSUME NEW t \in Threads, thread'[t] = thread[t]
      PROVE  ThreadInv(t)'
  <2>. SUFFICES ASSUME thread[t].at # "idle" PROVE ThreadInv(t)'
    BY <1>1 DEF ThreadInv
  <2>1. PICK g \in Files : g = Resolve[thread[t].path]
    BY ThreadType, FileOfPath
  <2>2. Version(g) \in Nat /\ Version(g)' \in Nat /\ Version(g) <= Version(g)'
    BY <2>1, EditAdds
  <2>3. thread[t].content \in Nat /\ thread[t].since \in Nat
    BY ThreadType
  <2>4. /\ thread[t].since \in 1 .. Version(g)
        /\ stamps[g][thread[t].since] = thread[t].stamp
        /\ thread[t].at = "read" => thread[t].content \in thread[t].since .. Version(g)
        /\ thread[t].at = "served" /\ EditsShow(g)
             => thread[t].content \in thread[t].since .. Version(g)
    BY <2>1 DEF ThreadInv, Fresh
  <2>5. thread[t].since \in 1 .. Version(g)'
    BY <2>2, <2>4
  <2>6. stamps'[g][thread[t].since] = thread[t].stamp
    BY <2>1, <2>4, EditAdds
  <2>7. EditsShow(g)' => EditsShow(g)
    BY <2>1, EditAdds
  <2>8. thread[t].content \in thread[t].since .. Version(g)
          => thread[t].content \in thread[t].since .. Version(g)'
    BY <2>2, <2>3
  <2>. QED
    BY <1>1, <2>1, <2>4, <2>5, <2>6, <2>7, <2>8 DEF ThreadInv, Fresh
<1>2. ASSUME NEW p \in Paths, cache'[p] = cache[p]
      PROVE  EntryInv(p)'
  <2>. SUFFICES ASSUME cache[p].cached PROVE EntryInv(p)'
    BY <1>2 DEF EntryInv
  <2>. DEFINE g == Resolve[p]
  <2>1. g \in Files
    BY FileOfPath
  <2>2. Version(g) \in Nat /\ Version(g)' \in Nat /\ Version(g) <= Version(g)'
    BY <2>1, EditAdds
  <2>3. cache[p].content \in 1 .. Version(g)
    BY DEF EntryInv
  <2>4. PICK v \in 1 .. cache[p].content : stamps[g][v] = cache[p].stamp
    BY DEF EntryInv
  <2>5. stamps'[g][v] = cache[p].stamp
    BY <2>1, <2>2, <2>3, <2>4, EditAdds
  <2>. QED
    BY <1>2, <2>2, <2>3, <2>5 DEF EntryInv
<1>. QED
  BY <1>1, <1>2

\* Nor does it depend on what the others do when no file is edited.
LEMMA OthersKeep ==
  ASSUME CacheInv, stamps' = stamps
  PROVE  /\ \A t \in Threads : thread'[t] = thread[t] => ThreadInv(t)'
         /\ \A p \in Paths : cache'[p] = cache[p] => EntryInv(p)'
  BY DEF CacheInv, ThreadInv, EntryInv, Fresh, EditsShow, Version

\* A matching entry is as new as the stat that found it, if edits show.
LEMMA MatchIsFresh ==
  ASSUME CacheInv, NEW t \in Threads, thread[t].at = "stat",
         Matches(cache[thread[t].path], thread[t].stamp),
         EditsShow(Resolve[thread[t].path])
  PROVE  cache[thread[t].path].content
           \in thread[t].since .. Version(Resolve[thread[t].path])
<1>. DEFINE p == thread[t].path
            f == Resolve[p]
<1>1. p \in Paths /\ thread[t].since \in Nat
  BY ThreadType DEF CacheInv
<1>2. Version(f) \in Nat
  BY <1>1, FileOfPath DEF CacheInv
<1>3. cache[p].cached /\ cache[p].stamp = thread[t].stamp
  BY DEF Matches
<1>4. cache[p].content \in 1 .. Version(f)
  BY <1>1, <1>3 DEF CacheInv, EntryInv
<1>5. PICK v \in 1 .. cache[p].content : stamps[f][v] = cache[p].stamp
  BY <1>1, <1>3 DEF CacheInv, EntryInv
<1>6. /\ thread[t].since \in 1 .. Version(f)
      /\ stamps[f][thread[t].since] = thread[t].stamp
  BY DEF CacheInv, ThreadInv
<1>7. v \in 1 .. Version(f)
  BY <1>2, <1>4
<1>8. v = thread[t].since
  BY <1>3, <1>5, <1>6, <1>7 DEF EditsShow
<1>. QED
  BY <1>2, <1>4, <1>8

\* A new cache and threads at rest satisfy the invariant.
LEMMA CacheInitInv == CacheInit => CacheInv
<1>. SUFFICES ASSUME CacheInit PROVE CacheInv
  OBVIOUS
<1>1. CacheTypeOK
  <2>1. \A s \in Stamps : <<s>> \in Seq(Stamps) /\ <<s>> # <<>>
    OBVIOUS
  <2>2. stamps \in [Files -> {<<s>> : s \in Stamps}]
    BY DEF CacheInit
  <2>3. \A f \in Files : stamps[f] \in Seq(Stamps) /\ stamps[f] # <<>>
    BY <2>1, <2>2
  <2>. QED
    BY <2>2, <2>3 DEF CacheInit, CacheTypeOK, NoEntry, CacheEntries, Idle, ThreadStates
<1>. QED
  BY <1>1 DEF CacheInit, CacheInv, ThreadInv, EntryInv, Idle, NoEntry

\* Every step keeps the invariant.
LEMMA CacheStepInv == CacheInv /\ [CacheNext]_cacheVars => CacheInv'
<1>. SUFFICES ASSUME CacheInv, [CacheNext]_cacheVars PROVE CacheInv'
  OBVIOUS
<1>1. ASSUME UNCHANGED cacheVars PROVE CacheInv'
  <2>1. CacheTypeOK'
    BY <1>1 DEF CacheInv, CacheTypeOK, cacheVars
  <2>. QED
    BY <1>1, <2>1, OthersKeep DEF CacheInv, cacheVars
<1>2. ASSUME CacheNext PROVE CacheInv'
  <2>0. CacheTypeOK'
    BY <1>2, CacheTypeStep DEF CacheInv
  <2>. SUFFICES (\A t \in Threads : ThreadInv(t)') /\ (\A p \in Paths : EntryInv(p)')
    BY <2>0 DEF CacheInv
  <2>1. ASSUME NEW t \in Threads, NEW p \in Paths, TakeStat(t, p)
        PROVE  (\A u \in Threads : ThreadInv(u)') /\ (\A q \in Paths : EntryInv(q)')
    <3>1. thread'[t] = Working("stat", p, Stamp(Resolve[p]), 0, Version(Resolve[p]))
      BY <2>1 DEF TakeStat, CacheInv, CacheTypeOK
    <3>2. ThreadInv(t)'
      BY <2>1, <3>1, FileOfPath
      DEF TakeStat, ThreadInv, Working, Stamp, Version, CacheInv
    <3>. QED
      BY <2>1, <3>2, OthersKeep DEF TakeStat, CacheInv, CacheTypeOK
  <2>2. ASSUME NEW t \in Threads, NEW p \in Paths, WriteText(t, p)
        PROVE  (\A u \in Threads : ThreadInv(u)') /\ (\A q \in Paths : EntryInv(q)')
    <3>. DEFINE f == Resolve[p]
    <3>1. thread'[t] = Working("written", p, Stamp(f), 0, Version(f))
      BY <2>2 DEF WriteText, CacheInv, CacheTypeOK
    <3>2. f \in Files /\ Version(f) \in Nat \ {0} /\ Edit(f)
      BY <2>2, FileOfPath DEF WriteText, CacheInv
    <3>3. /\ Version(f)' \in Nat /\ Version(f) <= Version(f)'
          /\ stamps'[f][Version(f)] = Stamp(f)
      BY <3>2, EditAdds DEF CacheInv, Stamp
    <3>4. ThreadInv(t)'
      BY <3>1, <3>2, <3>3 DEF ThreadInv, Working
    <3>. QED
      BY <2>2, <3>2, <3>4, EditKeeps DEF WriteText, CacheInv, CacheTypeOK
  <2>3. ASSUME NEW t \in Threads, LookUp(t)
        PROVE  (\A u \in Threads : ThreadInv(u)') /\ (\A q \in Paths : EntryInv(q)')
    <3>. DEFINE entry == cache[thread[t].path]
    <3>0. thread[t].at # "idle" /\ thread[t].at = "stat"
      BY <2>3 DEF LookUp
    <3>1. ThreadInv(t)'
      <4>1. CASE Matches(entry, thread[t].stamp)
        <5>1. thread'[t] = [thread[t] EXCEPT !.at = "served",
                                             !.content = entry.content]
          BY <2>3, <4>1 DEF LookUp, CacheInv, CacheTypeOK
        <5>2. /\ thread'[t].path = thread[t].path
              /\ thread'[t].since = thread[t].since
              /\ thread'[t].stamp = thread[t].stamp
              /\ thread'[t].content = entry.content
              /\ thread'[t].at = "served"
          BY <3>0, <5>1, ThreadType DEF CacheInv
        <5>3. EditsShow(Resolve[thread[t].path])
                => entry.content \in thread[t].since
                                      .. Version(Resolve[thread[t].path])
          BY <3>0, <4>1, MatchIsFresh
        <5>. QED
          BY <2>3, <3>0, <5>2, <5>3
          DEF LookUp, CacheInv, ThreadInv, Fresh, EditsShow, Version
      <4>2. CASE ~Matches(entry, thread[t].stamp)
        <5>1. thread'[t] = [thread[t] EXCEPT !.at = "missed"]
          BY <2>3, <4>2 DEF LookUp, CacheInv, CacheTypeOK
        <5>2. /\ thread'[t].path = thread[t].path
              /\ thread'[t].since = thread[t].since
              /\ thread'[t].stamp = thread[t].stamp
              /\ thread'[t].at = "missed"
          BY <3>0, <5>1, ThreadType DEF CacheInv
        <5>. QED
          BY <2>3, <3>0, <5>2 DEF LookUp, CacheInv, ThreadInv, Version
      <4>. QED
        BY <4>1, <4>2
    <3>. QED
      BY <2>3, <3>1, OthersKeep DEF LookUp, CacheInv, CacheTypeOK
  <2>4. ASSUME NEW t \in Threads, ReadText(t)
        PROVE  (\A u \in Threads : ThreadInv(u)') /\ (\A q \in Paths : EntryInv(q)')
    <3>. DEFINE f == Resolve[thread[t].path]
    <3>0. thread[t].at # "idle"
      BY <2>4 DEF ReadText
    <3>1. thread'[t] = [thread[t] EXCEPT !.at = "read", !.content = Version(f)]
      BY <2>4 DEF ReadText, CacheInv, CacheTypeOK
    <3>2. /\ thread'[t].path = thread[t].path
          /\ thread'[t].since = thread[t].since
          /\ thread'[t].stamp = thread[t].stamp
          /\ thread'[t].content = Version(f)
          /\ thread'[t].at = "read"
      BY <3>0, <3>1, ThreadType DEF CacheInv
    <3>3. Version(f) \in Nat
      BY <3>0, ThreadType, FileOfPath DEF CacheInv
    <3>4. ThreadInv(t)'
      BY <2>4, <3>0, <3>2, <3>3 DEF ReadText, CacheInv, ThreadInv, Fresh, Version
    <3>. QED
      BY <2>4, <3>4, OthersKeep DEF ReadText, CacheInv, CacheTypeOK
  <2>5. ASSUME NEW t \in Threads, StoreEntry(t)
        PROVE  (\A u \in Threads : ThreadInv(u)') /\ (\A q \in Paths : EntryInv(q)')
    <3>. DEFINE p == thread[t].path
                f == Resolve[p]
    <3>0. thread[t].at # "idle" /\ thread[t].at = "read" /\ p \in Paths
      BY <2>5, ThreadType DEF StoreEntry, CacheInv
    <3>1. thread'[t] = [thread[t] EXCEPT !.at = "served"]
      BY <2>5 DEF StoreEntry, CacheInv, CacheTypeOK
    <3>2. /\ thread'[t].path = thread[t].path
          /\ thread'[t].since = thread[t].since
          /\ thread'[t].stamp = thread[t].stamp
          /\ thread'[t].content = thread[t].content
          /\ thread'[t].at = "served"
      BY <3>0, <3>1, ThreadType DEF CacheInv
    <3>3. ThreadInv(t)'
      BY <2>5, <3>0, <3>2 DEF StoreEntry, CacheInv, ThreadInv, Fresh, Version
    <3>4. cache'[p] = Entry(thread[t].stamp, thread[t].content)
      BY <2>5, <3>0 DEF StoreEntry, StampToKeep, CacheInv, CacheTypeOK
    <3>5. /\ thread[t].since \in 1 .. Version(f)
          /\ stamps[f][thread[t].since] = thread[t].stamp
          /\ thread[t].content \in thread[t].since .. Version(f)
          /\ Version(f) \in Nat
      BY <3>0, FileOfPath DEF CacheInv, ThreadInv, Fresh
    <3>6. EntryInv(p)'
      BY <2>5, <3>4, <3>5 DEF StoreEntry, EntryInv, Entry, Version
    <3>. QED
      BY <2>5, <3>3, <3>6, OthersKeep DEF StoreEntry, CacheInv, CacheTypeOK
  <2>6. ASSUME NEW t \in Threads, Return(t)
        PROVE  (\A u \in Threads : ThreadInv(u)') /\ (\A q \in Paths : EntryInv(q)')
    <3>1. ThreadInv(t)'
      BY <2>6 DEF Return, ThreadInv, Idle, CacheInv, CacheTypeOK
    <3>. QED
      BY <2>6, <3>1, OthersKeep DEF Return, CacheInv, CacheTypeOK
  <2>7. ASSUME NEW t \in Threads, DropEntry(t)
        PROVE  (\A u \in Threads : ThreadInv(u)') /\ (\A q \in Paths : EntryInv(q)')
    <3>1. ThreadInv(t)'
      BY <2>7 DEF DropEntry, ThreadInv, Idle, CacheInv, CacheTypeOK
    <3>2. PICK p \in Paths : p = thread[t].path
      BY <2>7, ThreadType DEF DropEntry, CacheInv
    <3>3. EntryInv(p)'
      BY <2>7, <3>2 DEF DropEntry, Dropped, NoEntry, EntryInv, CacheInv, CacheTypeOK
    <3>. QED
      BY <2>7, <3>1, <3>2, <3>3, OthersKeep DEF DropEntry, CacheInv, CacheTypeOK
  <2>8. ASSUME NEW f \in Files, EditOutside(f)
        PROVE  (\A u \in Threads : ThreadInv(u)') /\ (\A q \in Paths : EntryInv(q)')
    BY <2>8, EditKeeps DEF EditOutside
  <2>. QED
    BY <1>2, <2>1, <2>2, <2>3, <2>4, <2>5, <2>6, <2>7, <2>8 DEF CacheNext
<1>. QED
  BY <1>1, <1>2

-----------------------------------------------------------------------------
(* The read cache: the theorems.                                           *)

\* The stamp in every hand and every entry is that of the content it goes with
\* or of an older one, whatever the threads and the edits do.
THEOREM CacheInvariant == CacheSpec => []CacheInv
  BY CacheInitInv, CacheStepInv, PTL DEF CacheSpec

\* FileCache, for any number of threads, spellings, files and edits: a read of
\* a file whose edits all show in its stat is answered with content the file
\* had while the read was under way.
THEOREM CachedReadsAreFresh == CacheSpec => []ReadsAreFresh
<1>1. CacheInv => ReadsAreFresh
  BY DEF CacheInv, ThreadInv, ReadsAreFresh, Serving
<1>. QED
  BY <1>1, CacheInvariant, PTL

\* Every variable keeps its type, for any bounds.
THEOREM CacheTypeCorrect == CacheSpec => []CacheTypeOK
<1>1. CacheInv => CacheTypeOK
  BY DEF CacheInv
<1>. QED
  BY <1>1, CacheInvariant, PTL

-----------------------------------------------------------------------------
(* Files that only the tools edit, under one spelling and one after the    *)
(* other.                                                                  *)

Left(p) == Resolve[p] \notin disturbed

\* A thread that reads such a file has seen its only version.
Current(t) ==
  /\ thread[t].at \in {"stat", "missed", "read", "served"} /\ Left(thread[t].path) =>
       thread[t].since = Version(Resolve[thread[t].path])
  /\ thread[t].at \in {"read", "served"} /\ Left(thread[t].path) =>
       thread[t].content = Version(Resolve[thread[t].path])

\* A thread that has written one is the only one at it.
Alone(t) ==
  thread[t].at = "written" /\ Left(thread[t].path) =>
    \A u \in Threads \ {t} : ~On(u, Resolve[thread[t].path])

\* What is cached of one is its content, or about to be dropped.
CurrentEntry(p) ==
  cache[p].cached /\ Left(p) =>
    \/ cache[p].content = Version(Resolve[p])
    \/ \E t \in Threads : thread[t].at = "written" /\ thread[t].path = p

OwnInv ==
  /\ \A t \in Threads : Current(t) /\ Alone(t)
  /\ \A p \in Paths : CurrentEntry(p)

\* A step of one thread that edits nothing leaves the others as they were, if
\* it comes to no file that another is about to invalidate.
LEMMA OwnOthers ==
  ASSUME OwnInv, NEW t \in Threads, UNCHANGED stamps, disturbed \subseteq disturbed',
         \A u \in Threads \ {t} : thread'[u] = thread[u],
         thread'[t].at # "written",
         thread'[t].at # "idle" /\ Resolve[thread'[t].path] \notin disturbed' =>
           \/ thread[t].at # "idle" /\ thread'[t].path = thread[t].path
           \/ \A u \in Threads \ {t} :
                thread[u].at # "written" \/ ~On(u, Resolve[thread'[t].path])
  PROVE  /\ \A u \in Threads \ {t} : Current(u)' /\ Alone(u)'
         /\ Alone(t)'
<1>1. Alone(t)'
  BY DEF Alone
<1>2. ASSUME NEW u \in Threads \ {t}
      PROVE  Current(u)'
  BY <1>2 DEF OwnInv, Current, Left, Version
<1>3. ASSUME NEW u \in Threads \ {t}
      PROVE  Alone(u)'
  <2>. SUFFICES ASSUME thread[u].at = "written", Left(thread[u].path)',
                       NEW v \in Threads \ {u}, On(v, Resolve[thread[u].path])'
                PROVE  FALSE
    BY DEF Alone
  <2>1. Left(thread[u].path)
    BY DEF Left
  <2>2. ~On(v, Resolve[thread[u].path])
    BY <2>1 DEF OwnInv, Alone
  <2>3. v = t
    BY <2>2 DEF On
  <2>4. thread'[t].at # "idle" /\ Resolve[thread'[t].path] = Resolve[thread[u].path]
    BY <2>3 DEF On
  <2>5. Resolve[thread'[t].path] \notin disturbed'
    BY <2>4 DEF Left
  <2>. QED
    BY <2>2, <2>3, <2>4, <2>5 DEF On
<1>. QED
  BY <1>1, <1>2, <1>3

\* While no one has written, no entry waits to be dropped.
LEMMA OwnEntries ==
  ASSUME OwnInv, NEW t \in Threads, UNCHANGED <<stamps, cache>>,
         disturbed \subseteq disturbed', thread[t].at # "written",
         \A u \in Threads \ {t} : thread'[u] = thread[u]
  PROVE  \A p \in Paths : CurrentEntry(p)'
<1>. SUFFICES ASSUME NEW p \in Paths
              PROVE  CurrentEntry(p)'
  OBVIOUS
<1>1. CurrentEntry(p)
  BY DEF OwnInv
<1>. QED
  BY <1>1 DEF CurrentEntry, Left, Version

\* An edit of a file leaves alone who is at others, and leaves the file
\* disturbed unless nobody is at it.
LEMMA OwnEdit ==
  ASSUME CacheTypeOK, NEW f \in Files, Edit(f)
  PROVE  \A g \in Files \ {f} : Version(g)' = Version(g)
BY DEF Edit, CacheTypeOK, Version

\* Every step keeps the invariant.
LEMMA OwnStep ==
  ASSUME CacheInv, OwnInv, CacheNext
  PROVE  OwnInv'
<1>0. CacheTypeOK
  BY DEF CacheInv
<1>1. ASSUME NEW t \in Threads, NEW p \in Paths, TakeStat(t, p)
      PROVE  OwnInv'
  <2>1. /\ thread'[t] = Working("stat", p, Stamp(Resolve[p]), 0, Version(Resolve[p]))
        /\ \A u \in Threads \ {t} : thread'[u] = thread[u]
        /\ UNCHANGED <<stamps, cache>>
        /\ thread[t].at = "idle"
    BY <1>0, <1>1 DEF TakeStat, CacheTypeOK
  <2>2. thread'[t].at = "stat" /\ thread'[t].path = p
        /\ thread'[t].since = Version(Resolve[p])
    BY <2>1 DEF Working
  <2>3. /\ disturbed \subseteq disturbed'
        /\ Resolve[p] \notin disturbed' =>
             \A u \in Threads \ {t} : thread[u].at # "written" \/ ~On(u, Resolve[p])
    BY <1>1 DEF TakeStat, Disturb
  <2>4. Current(t)'
    BY <2>1, <2>2 DEF Current, Version
  <2>5. \A q \in Paths : CurrentEntry(q)'
    BY <2>1, <2>3, OwnEntries
  <2>6. (\A u \in Threads \ {t} : Current(u)' /\ Alone(u)') /\ Alone(t)'
    BY <2>1, <2>2, <2>3, OwnOthers
  <2>. QED
    BY <2>4, <2>5, <2>6 DEF OwnInv
<1>2. ASSUME NEW t \in Threads, LookUp(t)
      PROVE  OwnInv'
  <2>1. thread[t].at = "stat" /\ thread[t].path \in Paths /\ UNCHANGED <<stamps, cache, disturbed>>
    BY <1>0, <1>2, ThreadType DEF LookUp
  <2>2. PICK entry : entry = cache[thread[t].path]
    OBVIOUS
  <2>3. /\ \A u \in Threads \ {t} : thread'[u] = thread[u]
        /\ \/ /\ Matches(entry, thread[t].stamp)
              /\ thread'[t] = [thread[t] EXCEPT !.at = "served", !.content = entry.content]
           \/ thread'[t] = [thread[t] EXCEPT !.at = "missed"]
    BY <1>0, <1>2, <2>2 DEF LookUp, CacheTypeOK
  <2>4. /\ thread'[t].path = thread[t].path
        /\ thread'[t].since = thread[t].since
        /\ \/ /\ entry.cached
              /\ thread'[t].at = "served"
              /\ thread'[t].content = entry.content
           \/ thread'[t].at = "missed"
    <3>1. thread[t] \in [at : {"stat", "missed", "read", "served", "written"},
                         path : Paths, stamp : Stamps, content : Nat, since : Nat]
      BY <1>0, <2>1, ThreadType
    <3>2. CASE Matches(entry, thread[t].stamp)
               /\ thread'[t] = [thread[t] EXCEPT !.at = "served", !.content = entry.content]
      BY <3>1, <3>2 DEF Matches
    <3>3. CASE thread'[t] = [thread[t] EXCEPT !.at = "missed"]
      BY <3>1, <3>3
    <3>. QED
      BY <2>3, <3>2, <3>3
  <2>5. ASSUME entry.cached, Left(thread[t].path)
        PROVE  entry.content = Version(Resolve[thread[t].path])
    <3>1. ASSUME NEW u \in Threads, thread[u].at = "written", thread[u].path = thread[t].path
          PROVE  FALSE
      <4>1. u # t /\ On(t, Resolve[thread[u].path])
        BY <2>1, <3>1 DEF On
      <4>. QED
        BY <2>5, <3>1, <4>1 DEF OwnInv, Alone, Left
    <3>. QED
      BY <2>1, <2>2, <2>5, <3>1 DEF OwnInv, CurrentEntry
  <2>6. Current(t)'
    BY <2>1, <2>4, <2>5 DEF OwnInv, Current, Left, Version
  <2>. QED
    BY <2>1, <2>3, <2>4, <2>6, OwnOthers, OwnEntries DEF OwnInv
<1>3. ASSUME NEW t \in Threads, ReadText(t)
      PROVE  OwnInv'
  <2>1. /\ thread[t].at = "missed" /\ UNCHANGED <<stamps, cache, disturbed>>
        /\ \A u \in Threads \ {t} : thread'[u] = thread[u]
        /\ thread'[t] = [thread[t] EXCEPT !.at = "read",
                                          !.content = Version(Resolve[thread[t].path])]
    BY <1>0, <1>3 DEF ReadText, CacheTypeOK
  <2>2. /\ thread'[t].path = thread[t].path
        /\ thread'[t].since = thread[t].since
        /\ thread'[t].content = Version(Resolve[thread[t].path])
        /\ thread'[t].at = "read"
    BY <1>0, <2>1, ThreadType
  <2>3. Current(t)'
    BY <2>1, <2>2 DEF OwnInv, Current, Left, Version
  <2>. QED
    BY <2>1, <2>2, <2>3, OwnOthers, OwnEntries DEF OwnInv
<1>4. ASSUME NEW t \in Threads, StoreEntry(t)
      PROVE  OwnInv'
  <2>1. /\ thread[t].at = "read" /\ UNCHANGED <<stamps, disturbed>>
        /\ \A u \in Threads \ {t} : thread'[u] = thread[u]
        /\ thread'[t] = [thread[t] EXCEPT !.at = "served"]
    BY <1>0, <1>4 DEF StoreEntry, CacheTypeOK
  <2>2. PICK p \in Paths : p = thread[t].path
    BY <1>0, <2>1, ThreadType
  <2>3. /\ thread'[t].path = p
        /\ thread'[t].since = thread[t].since
        /\ thread'[t].content = thread[t].content
        /\ thread'[t].at = "served"
    BY <1>0, <2>1, <2>2, ThreadType
  <2>4. cache'[p] = Entry(thread[t].stamp, thread[t].content)
        /\ \A q \in Paths \ {p} : cache'[q] = cache[q]
    BY <1>0, <1>4, <2>2 DEF StoreEntry, StampToKeep, CacheTypeOK
  <2>5. Current(t)'
    BY <2>1, <2>2, <2>3 DEF OwnInv, Current, Left, Version
  <2>6. ASSUME NEW q \in Paths
        PROVE  CurrentEntry(q)'
    <3>1. CASE q = p
      <4>1. cache'[p].content = thread[t].content
        BY <2>4 DEF Entry
      <4>. QED
        BY <2>1, <2>2, <3>1, <4>1 DEF OwnInv, Current, CurrentEntry, Left, Version
    <3>2. CASE q # p
      <4>1. CurrentEntry(q) /\ cache'[q] = cache[q]
        BY <2>4, <3>2 DEF OwnInv
      <4>. QED
        BY <2>1, <4>1 DEF CurrentEntry, Left, Version
    <3>. QED
      BY <3>1, <3>2
  <2>. QED
    BY <2>1, <2>2, <2>3, <2>5, <2>6, OwnOthers DEF OwnInv
<1>5. ASSUME NEW t \in Threads, Return(t)
      PROVE  OwnInv'
  <2>1. /\ thread[t].at = "served" /\ UNCHANGED <<stamps, cache, disturbed>>
        /\ \A u \in Threads \ {t} : thread'[u] = thread[u]
        /\ thread'[t].at = "idle"
    BY <1>0, <1>5 DEF Return, Idle, CacheTypeOK
  <2>2. Current(t)'
    BY <2>1 DEF Current
  <2>. QED
    BY <2>1, <2>2, OwnOthers, OwnEntries DEF OwnInv
<1>6. ASSUME NEW t \in Threads, DropEntry(t)
      PROVE  OwnInv'
  <2>1. /\ thread[t].at = "written" /\ UNCHANGED <<stamps, disturbed>>
        /\ \A u \in Threads \ {t} : thread'[u] = thread[u]
        /\ thread'[t].at = "idle"
    BY <1>0, <1>6 DEF DropEntry, Idle, CacheTypeOK
  <2>2. PICK p \in Paths : p = thread[t].path
    BY <1>0, <2>1, ThreadType
  <2>3. ~cache'[p].cached /\ \A q \in Paths \ {p} : cache'[q] = cache[q]
    BY <1>0, <1>6, <2>2 DEF DropEntry, Dropped, NoEntry, CacheTypeOK
  <2>4. Current(t)'
    BY <2>1 DEF Current
  <2>5. ASSUME NEW q \in Paths
        PROVE  CurrentEntry(q)'
    <3>1. CASE q = p
      BY <2>3, <3>1 DEF CurrentEntry
    <3>2. CASE q # p
      <4>1. CurrentEntry(q) /\ cache'[q] = cache[q]
        BY <2>3, <3>2 DEF OwnInv
      <4>. QED
        BY <2>1, <2>2, <3>2, <4>1 DEF CurrentEntry, Left, Version
    <3>. QED
      BY <3>1, <3>2
  <2>. QED
    BY <2>1, <2>4, <2>5, OwnOthers DEF OwnInv
<1>7. ASSUME NEW f \in Files, Edit(f), disturbed \subseteq disturbed'
      PROVE  /\ \A u \in Threads : f \in disturbed' /\ thread'[u] = thread[u] =>
                                     Current(u)' /\ (UNCHANGED thread => Alone(u)')
             /\ \A q \in Paths : f \in disturbed' /\ UNCHANGED <<cache, thread>> => CurrentEntry(q)'
  <2>1. \A p \in Paths : Left(p)' /\ f \in disturbed' =>
          Left(p) /\ Version(Resolve[p])' = Version(Resolve[p])
    BY <1>0, <1>7, OwnEdit, FileOfPath DEF Left
  <2>2. ASSUME NEW u \in Threads, f \in disturbed', thread'[u] = thread[u]
        PROVE  Current(u)' /\ (UNCHANGED thread => Alone(u)')
    <3>1. CASE thread[u].at = "idle"
      BY <2>2, <3>1 DEF Current, Alone
    <3>2. CASE thread[u].at # "idle"
      <4>1. thread[u].path \in Paths
        BY <1>0, <3>2, ThreadType
      <4>2. Left(thread[u].path)' =>
              Left(thread[u].path)
              /\ Version(Resolve[thread[u].path])' = Version(Resolve[thread[u].path])
        BY <2>1, <2>2, <4>1
      <4>3. Current(u)'
        <5>1. Current(u)
          BY DEF OwnInv
        <5>. QED
          BY <2>2, <4>2, <5>1 DEF Current, Left
      <4>4. UNCHANGED thread => Alone(u)'
        BY <4>2 DEF OwnInv, Alone, Left, On
      <4>. QED
        BY <4>3, <4>4
    <3>. QED
      BY <3>1, <3>2
  <2>3. ASSUME NEW q \in Paths, f \in disturbed', UNCHANGED <<cache, thread>>
        PROVE  CurrentEntry(q)'
    BY <2>1, <2>3 DEF OwnInv, CurrentEntry
  <2>. QED
    BY <2>2, <2>3
<1>8. ASSUME NEW f \in Files, EditOutside(f)
      PROVE  OwnInv'
  <2>1. Edit(f) /\ f \in disturbed' /\ disturbed \subseteq disturbed'
        /\ UNCHANGED <<cache, thread>>
    BY <1>8 DEF EditOutside, Disturb
  <2>. QED
    BY <1>7, <2>1 DEF OwnInv
<1>9. ASSUME NEW t \in Threads, NEW p \in Paths, WriteText(t, p)
      PROVE  OwnInv'
  <2>1. PICK f \in Files : f = Resolve[p]
    BY CacheAssumption
  <2>2. /\ Edit(f)
        /\ thread[t].at = "idle"
        /\ thread'[t] = Working("written", p, Stamp(f), 0, Version(f))
        /\ \A u \in Threads \ {t} : thread'[u] = thread[u]
        /\ UNCHANGED cache
    BY <1>0, <1>9, <2>1 DEF WriteText, CacheTypeOK
  <2>3. thread'[t].at = "written" /\ thread'[t].path = p
    BY <2>2 DEF Working
  <2>4. /\ disturbed \subseteq disturbed'
        /\ f \notin disturbed' =>
             /\ \A u \in Threads : ~On(u, f)
             /\ \A q \in Paths \ {p} : Resolve[q] = f => ~cache[q].cached
    BY <1>9, <2>1 DEF WriteText, Disturb
  <2>5. Current(t)'
    BY <2>3 DEF Current
  <2>6. Alone(t)'
    <3>. SUFFICES ASSUME f \notin disturbed', NEW u \in Threads \ {t}
                  PROVE  ~On(u, f)'
      BY <2>1, <2>3 DEF Alone, Left
    <3>1. ~On(u, f)
      BY <2>4
    <3>. QED
      BY <2>2, <3>1 DEF On
  <2>7. \A g \in Files \ {f} : Version(g)' = Version(g)
    BY <1>0, <2>2, OwnEdit
  <2>8. ASSUME NEW u \in Threads \ {t}, thread[u].at # "idle", Left(thread[u].path)'
        PROVE  /\ Left(thread[u].path)
               /\ Resolve[thread[u].path] # f
               /\ Version(Resolve[thread[u].path])' = Version(Resolve[thread[u].path])
    <3>1. Left(thread[u].path) /\ Resolve[thread[u].path] \notin disturbed'
      BY <2>2, <2>4, <2>8 DEF Left
    <3>2. Resolve[thread[u].path] # f
      BY <2>4, <2>8, <3>1 DEF On
    <3>3. Resolve[thread[u].path] \in Files
      BY <1>0, <2>8, ThreadType, FileOfPath
    <3>. QED
      BY <2>2, <2>7, <3>1, <3>2, <3>3 DEF Version
  <2>9. ASSUME NEW u \in Threads \ {t}
        PROVE  Current(u)' /\ Alone(u)'
    <3>0. thread'[u] = thread[u] /\ Current(u) /\ Alone(u)
      BY <2>2 DEF OwnInv
    <3>1. CASE thread[u].at = "idle"
      BY <3>0, <3>1 DEF Current, Alone
    <3>2. CASE thread[u].at # "idle"
      <4>1. Left(thread[u].path)' =>
              /\ Left(thread[u].path)
              /\ Resolve[thread[u].path] # f
              /\ Version(Resolve[thread[u].path])' = Version(Resolve[thread[u].path])
        BY <2>8, <3>2
      <4>2. Current(u)'
        BY <3>0, <4>1 DEF Current, Left
      <4>3. Alone(u)'
        <5>. SUFFICES ASSUME thread[u].at = "written", Left(thread[u].path)',
                             NEW v \in Threads \ {u}
                      PROVE  ~On(v, Resolve[thread[u].path])'
          BY <3>0 DEF Alone
        <5>1. Left(thread[u].path) /\ Resolve[thread[u].path] # f
          BY <3>0, <4>1 DEF Left
        <5>2. ~On(v, Resolve[thread[u].path])
          BY <3>0, <5>1 DEF Alone
        <5>. QED
          BY <2>1, <2>2, <2>3, <3>0, <5>1, <5>2 DEF On
      <4>. QED
        BY <4>2, <4>3
    <3>. QED
      BY <3>1, <3>2
  <2>10. ASSUME NEW q \in Paths
         PROVE  CurrentEntry(q)'
    <3>1. CASE q = p
      BY <2>3, <3>1 DEF CurrentEntry
    <3>2. CASE q # p /\ Resolve[q] = f
      BY <2>2, <2>4, <3>2 DEF CurrentEntry, Left
    <3>3. CASE Resolve[q] # f
      <4>1. Version(Resolve[q])' = Version(Resolve[q]) /\ CurrentEntry(q)
        BY <1>0, <2>7, <3>3, FileOfPath DEF OwnInv
      <4>. QED
        BY <2>2, <2>4, <4>1 DEF CurrentEntry, Left
    <3>. QED
      BY <3>1, <3>2, <3>3
  <2>. QED
    BY <2>5, <2>6, <2>9, <2>10 DEF OwnInv
<1>. QED
  BY <1>1, <1>2, <1>3, <1>4, <1>5, <1>6, <1>8, <1>9 DEF CacheNext

\* FileCache.invalidate: whatever the stat shows of a file, a read of it finds
\* what the tools have written, as long as only they write it, under one
\* spelling and one after the other; for any number of threads and files.
THEOREM OwnWritesAreRead == CacheSpec => []OwnWritesAreSeen
<1>1. CacheInit => OwnInv
  BY DEF CacheInit, OwnInv, Current, Alone, CurrentEntry, Idle, NoEntry
<1>2. CacheInv /\ OwnInv /\ [CacheNext]_cacheVars => OwnInv'
  <2>1. CacheInv /\ OwnInv /\ CacheNext => OwnInv'
    BY OwnStep
  <2>2. OwnInv /\ UNCHANGED cacheVars => OwnInv'
    BY DEF cacheVars, OwnInv, Current, Alone, CurrentEntry, Left, Version, On
  <2>. QED
    BY <2>1, <2>2
<1>3. CacheInv /\ OwnInv => OwnWritesAreSeen
  <2>. SUFFICES ASSUME CacheInv, OwnInv, NEW f \in Files \ disturbed, NEW t \in Threads,
                       Serving(t, f)
                PROVE  Fresh(t)
    BY DEF OwnWritesAreSeen
  <2>1. thread[t].at = "served" /\ Left(thread[t].path) /\ thread[t].path \in Paths
    BY ThreadType DEF Serving, Left, CacheInv
  <2>2. thread[t].since = Version(Resolve[thread[t].path])
        /\ thread[t].content = Version(Resolve[thread[t].path])
    BY <2>1 DEF OwnInv, Current
  <2>. QED
    BY <2>1, <2>2, FileOfPath DEF Fresh, CacheInv
<1>. QED
  BY <1>1, <1>2, <1>3, CacheInvariant, PTL DEF CacheSpec
=============================================================================
