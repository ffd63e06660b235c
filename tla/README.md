# A verification project for MiniClaudeCode

MiniClaudeCode is a coding agent: a loop asks a model what to do, dispatches
the tool calls it answers with, lets a verifier judge edited workspaces, and
saves an interrupted run so that another process can resume it.  Around the
loop are a tool registry with a policy, caches and a memory file, providers for
three wire protocols, specialists that share a blackboard, MCP servers, and
programs that measure and evolve the agent.  This directory holds TLA+ models
of that code, the TLC configurations that check them, and TLAPS proofs of what
matters most.  Paths below are relative to
`src/`.

    tlc  -workers 2 -config AgentLoop.cfg MCAgentLoop      # 15 s
    tlapm AgentLoopProofs.tla

`PROJECT.json` is the index: the components, the runs, for each property a
mutated definition that breaks it, the source lines of each definition, the
disagreements found, the hazards, and the theorems.

## 1. Inventory

| Component | State | Operations | Hard behaviour | Correct when |
|---|---|---|---|---|
| Agent, controller (`miniclaude/agent.py`, `controller.py`) | `AgentState`, budget, trace | run, decide, fail, build checkpoint, resume | crash and resume, several tasks on one Agent | every run ends within its budget; a resumed run continues where it stopped |
| Model driver (`miniclaude/llm/driver.py`) | `_dirty`, `_final_text`, outputs of the last round | one turn: ask, dispatch, plan, verify, finalize | flags that live longer than a run, failures in mid turn | no edit is finished unverified; each answer is to its own task |
| Session store (`miniclaude/session.py`, `cli.py`) | record file, checkpoint file | save, save checkpoint, load | two files, crash between them | a checkpoint never goes back |
| Tool registry (`miniclaude/tools.py`) | `_activated`, tools | dispatch, activate | pool of threads, gating | writes run alone and in order; used tools stay offered |
| Policy, approvals (`security/`) | mode, `_approved` | evaluate, authorize | check, ask, then remember | nothing runs unless allowed or said yes to |
| Read cache (`memory.py`, `runtime_tools.py`) | `_entries` | get, put, invalidate | stat and read apart, edits from outside, threads | content served is content of the file |
| Working, persistent memory (`memory.py`) | entries, JSONL file | put, get, retrieve, save, load | several processes, torn writes, expiry | an unexpired entry survives a restart |
| Context window (`context.py`, `skills.py`) | messages | start, restore, snapshot, compress | budget, four layers | newest and unsuperseded content is kept |
| Providers (`llm/*_provider.py`) | message history, response id | complete, retry, export, restore | retries, half-appended history | every call answered once, in order |
| Collaboration (`agents/`) | blackboard, shared providers | decompose, run specialists, verify evidence | threads over one workspace | evidence is deduplicated, verdicts are about the final workspace |
| MCP client (`mcp/client.py`) | process, request id, lock | start, request, stop | late, foreign and missing answers | an answer goes to its request |
| Process runtime (`runtime/local.py`) | child processes, files | execute, write_text | timeout, kill of the tree, crash in a write | no child outlives a timeout; a file is old or new |
| Metrics, evaluation (`metrics.py`, `evaluation/`) | counts, versions | derive, decide, run tasks | concurrency of the runners | counts agree with the trace |

How they interact: the CLI builds one Agent per process.  `AgentController.run`
calls `LLMLoopDriver.next` once per turn; `next` takes a snapshot of the
context, offers the tools the registry exposes, calls the provider, dispatches
the calls of the response through the registry (policy, approvals, validation,
handler), and marks the run dirty when a write tool succeeded.  A text answer
of a dirty run goes to the verifier (`--verify` runs pytest, `--review` asks a
second model).  Outputs go back to the model with the next request: the
Responses API continues from `previous_response_id`, the chat provider keeps
its own message list.  After the run the CLI saves the record and, unless the
run completed, a checkpoint.  Specialists of the multi-agent mode are Agents
of their own that share tools, workspace and blackboard.

The hazards of each component, with their lines, are in `PROJECT.json`.

## 2. Plan

Written, in this order:

1. `AgentLoop` with its abstract specification `BoundedRun`: the behaviour
   everything else serves, with crash and resume.  `MCAgentLoop` and three
   configurations; `AgentLoopProofs`.
2. `ToolRegistry`: what happens inside the turn's dispatch (`MCToolRegistry`).
3. `ReadCache`: the tools that read and write files, over the cache they share
   (`MCReadCache`).  `ToolCallsProofs` is about both.
4. `PersistentMemory`: the memory file between processes
   (`MCPersistentMemory`, `MemoryProofs`).
5. `Collaboration`: coordinator, specialists on a pool, blackboard and
   evidence, over one workspace (`MCCollaboration`, `CollaborationProofs`).
6. `ProviderHistory`: the history each protocol keeps and sends, the retry loop
   and the exported state (`MCProviderHistory`, two configurations;
   `ProviderHistoryProofs`).
7. `MCPClient` and `LocalRuntime`, composed by `ToolProcesses`: the child
   processes of a run, their pipes and time limits (`MCToolProcesses`,
   `ToolProcessesProofs`).
8. `ContextWindow`: compression, skills and the snapshot (`MCContextWindow`,
   `MemoryProofs`), over `Totals`, the sum of a sequence.
9. `RunTrace` (pure functions of a trace), `CodingBenchmark` (the concurrent
   runner and its report, over `RunTrace`), `StrategyEvolution` (over
   `CodingBenchmark`'s cases), composed by `Evaluation` (`MCEvaluation`,
   `EvaluationProofs`).
10. `Loops`: lemmas on what a loop over a sequence computes, for the proofs of
   8 and 9.

`BoundedRun` is what `Collaboration` and `CodingBenchmark` assume of an agent's
run: that it ends.

To come: the write of the session files step by step (`AgentLoop` has each
file appear whole); `replace_text`'s read half and what two specialists do to
one file with it.

All modules meant for proofs avoid RECURSIVE operators, and CASE, which the SMT
backend does not take.  Loops of the code are `FoldLeft`; where a module is
proved about, not `SelectSeq`, which the prover cannot open.  `ToolRegistry` with
`ReadCache`, and `PersistentMemory` with `ContextWindow`, can be extended by one
module, so the two later ones say `CacheSpec`, `CacheInit`, and the memory file
`MemorySpec`, `MemoryInit`.

## 3. What the modules model

### AgentLoop (`agent.py`, `controller.py`, `llm/driver.py`, `session.py`, `cli.py`)

One session, its two files, and the successive processes that work on it.  A
turn is split where the process waits for something outside, and may die
there: `pc` is `turn` (between decisions), `asked` (request under way),
`tools` (dispatching a batch), `verify`, then `stopped` (result in hand),
`saved` (record written, checkpoint not yet), or `off`.

| TLA+ | code |
|---|---|
| `agent`, `dirty`, `finalText` | the Agent object, `_dirty`, `_final_text`; they outlive a run, not a process |
| `state` | `AgentState`; a task is the number of its run, a text the run it came from |
| `sent`, `owed` | outputs in the request under way; calls of the provider's conversation not answered yet |
| `todo`, `batch`, `wrote` | the batch being dispatched |
| `record`, `checkpoint` | the session's two files |
| `NewProcess`, `StartRun`, `Resume`, `Crash` | CLI, `run_result`, `resume`, a killed process |
| `TurnLimit`, `FinalizeVerified`, `ContextFails`, `Ask` | the top of the loop and of `next` |
| `ProviderFails`, `ReceiveCalls`, `ReceiveDraft`, `ReceivePlan`, `ReceiveAnswer` | the outcomes of `provider.complete` |
| `RunTool`, `FinishTools`, `VerifyPasses`, `VerifyFails`, `VerifierRaises` | dispatch and verification |
| `SaveResult`, `SaveCheckpoint` | `cli.py:282-287` |

`unverified` and `exhausted` are history variables: the edits no verification
covers, and the runs that ran out of turns.  `SilentEdits` names edits that
leave no successful write observation (commands; `replace_text` without a
cache, which raises after it has written).

`BoundedRun` is what a caller is promised: one turn per decision, at most the
budget, and rest.  `ImplementsBoundedRun` maps the run to it.

### ToolRegistry (`tools.py`, `security/`, dispatch part of `driver.py`)

One registry over several tasks.  Each call of a batch goes through the stages
waiting, asking, granting, running, done; `Workers` is the number of threads.
The user, the handlers and the model are free.  `granting` is the window
between the user's yes and the approval under the lock.  `StartTask` is turn 0
of a task with its keyword and skill activation; `ResumeTask` is a task resumed
in a new process, past turn 0, so that nothing is activated and no approval is
left.  The verdict on commands (`assess_argv`) is the constant `Assess`.

### ReadCache (`runtime_tools.py`, `FileCache`)

`read_file` is four steps of a thread: `TakeStat`, `LookUp`, `ReadText`,
`StoreEntry`, with `Return` when its answer is out; `write_file` and the write
of `replace_text` are `WriteText` and `DropEntry`.  Nothing locks the cache, so
the steps of threads interleave, and `EditOutside` (a command, a user) falls
between any two.  The cache key is the spelling of the path, as in the code,
and `Resolve` says which file it names.  Content is the number of the edit that
wrote it; what stat tells (modification time and size) is its stamp, and any
edit may leave any stamp.  `since` and `disturbed` are history: the version
when a read began, and the files that were not left to one writer at a time
under one spelling.

### PersistentMemory (`memory.py`)

Instances over one file, each in a process that may die anywhere.  An entry is
the number of its put.  `Open` is `_load` up to its `save`; `Put` and
`AppendLine` are the two halves of `put` (memory first, then the file);
`SaveTemporary` and `Replace` are `save`, after `GetExpired`, `Invalidate` or
`Open`.  `CloseAppending` leaves an append where it may stop: file created,
line torn, line whole but for its end.  `Expire` is the clock: with one TTL for
all puts (`Agent` passes none of its own), entries expire in their order.
`promised` is history, what completed operations left for each key; an append
counts as completed when its line is written, a save when the file is replaced.
`put` writes U+0085, U+2028 and U+2029 as they are and `_load` splits lines at
them: the puts of `Separated` are entries whose line comes back as pieces that
decode to nothing (`Decodes`).  Their keys are not `Whole`, and the properties
are about the others.

### Collaboration (`agents/`)

One coordinator, its specialists and their blackboard, over several tasks;
`CoordinatorAgent.run` may be given a board an earlier run has filled.  `phase`
is where the coordinator is: `idle`, `submitting` (making specialists and
providers), `pool`, `unwinding` (the provider factory raised, and the `with`
waits for what was submitted), `synthesized`.  `stage[i]` is where the future
of subtask `i` is, `queued` to `returned` or `raised`.

| TLA+ | code |
|---|---|
| `Start`, `Decompositions`, `FirstOf` | `decompose`: the first `max_specialists` of what `default_decompose` (its keyword lists as two Booleans) or an injected decomposer (`Injected`, which may name a specialist twice) returns; without subtasks `run` raises |
| `Submit`, `FactoryFails` | `make_specialist` and `pool.submit` |
| `Begin`, `UseTool`, `FinishAgent`, `AgentRaises` | `SpecialistAgent.run` up to the end of its agent's run |
| `Publish`, `PublishRaises`, `Return` | `_collect_evidence`, one `publish` under the lock per step |
| `RunRaises`, `VerifyEvidence`, `CheckRaises`, `Report`, `CriticFails` | after the pool |

A tool call is a change of the workspace and an observation that waits in
`pending` until the agent's run has ended; this is the window in which other
specialists change what was observed.  A command has no `path` and a failing
call no arguments (`tools.py:217-229`), and the code turns both into the source
`"None"`; a blocked call keeps its arguments.  A path stands for where it leads
from the workspace; `exists` may raise (`CheckRaises`).  A provider is named by
the specialist it was made for: `provider_factory` is taken to make a new one at
each call.  The digest is the pair it hashes.  `saw`
is history.  The specialists' own loops are `AgentLoop`'s business.

### ProviderHistory (`llm/*_provider.py`)

One provider of one of four kinds (`kind`: chat, its asynchronous twin,
Responses, Messages) and its client: the driver or the reviewer (`purpose`).
`Ask` is `complete` or `complete_stream` up to the first operation, with
`ChatInput`, `ResponsesInput`, `MessagesInput` for what is prepared; `Raises`
and `Wake` are `_with_retry`; `Respond` is a whole response, `OpenStream`,
`EndStream`, `StreamBreaks` a stream, whose deltas nothing retries.  `Save`,
`Resume` and `NewTask` are what the driver does between requests.  A message is
its role, a token for its text and the calls it makes or answers.  The service
is the environment.

### MCPClient (`mcp/client.py`, `mcp/demo_server.py`, `_attach_mcp`)

Clients, each with a process, two pipes, a lock and a counter; main attaches
them one by one, threads of the pool call their tools, all are stopped at the
end.  A request is `Write` (lock, counter and write together, as nobody else
can be between), then `ReadLine` until its answer comes, or `ReadEnd`.  The
server (`Respond`, `EmitOther`, `Exit`) is the environment: it answers in
order, but may also notify, print what is no JSON, or exit.  `Respond` is what
the bundled server does.

### LocalRuntime (`runtime/local.py`)

`execute` is `Popen`, `Communicated`, `TimeoutExpires`, `Interrupt`; processes
are the child, a helper in its group and a daemon that left it, each with or
without the pipes.  `write_text` is `OpenTemporary`, `Sync`, `Replace`, with
failure at each and `CrashWriting` anywhere.  POSIX only: on Windows the code
kills the child alone.

`ToolProcesses` composes the two: threads use servers and commands side by
side, the command line begins tools only while it runs.

### ContextWindow (`context.py`, `skills.py`)

Text is its length.  `Start`, `Restore`, `AddAssistant`, `AddTool`, `Snapshot`
are the methods; the layers `StaleSnip`, `MicroCompact`, `AutoCompact` and the
selection `Chosen` are functions on sequences, in the order the configuration
gives.  What a task scores against the skills is an input (`ranking`); how the
scores choose (`Select`) and how bodies are cut to the budget (`SkillChars`)
are the code's.  The properties say what is shown without the loops that
compute it.  A summary of no text makes the code raise: `NoSnapshot`.

### RunTrace, CodingBenchmark, StrategyEvolution, Evaluation (`metrics.py`, `evaluation/`)

`RunTrace` has the three readings of a trace: `Metrics`, `Attribution`,
`FirstPass`.  `CodingBenchmark` is the concurrent runner: a coroutine per case
(`Enter`, `Return`), a thread per case inside (`StartCase`, `EndCase`), the
gathering coroutine (`GatherRaises`, `Fail`, `Report`), and the report,
`Aggregate`.  How a case ends is chosen from `Outcomes`.  `StrategyEvolution`
is `evolve`: candidates, measured one by one on two splits, and the promotion.
Each measurement is any score the split can give (`PossibleScores`), anew every
time, of the base in each generation and of a strategy measured before as well:
`evaluate_live` runs its cases again, and ranks by tokens and seconds.
An observation of `RunTrace` says whether its arguments were recorded (`given`):
a failing or invalid call leaves none, and its read is counted and never
compared with another.
`Evaluation` puts both behind one `Init`, by `program`: they are processes of
their own, which share the definitions of cases and reports and no state.

## 4. Runs

| Run | Shows | States |
|---|---|---|
| `agent_loop` | `FreshRunVerifies`: an Agent that resumed nothing never completes over an unverified edit. `RequestsAnswerCalls`: requests answer all calls of the conversation they continue. `CheckpointAdvances`: a run is never set back. | 774k |
| `agent_outcome` | `ImplementsBoundedRun` and `RunStops`, with a raising summarizer and silent edits | 123k |
| `resumed_edits` | violated: a resumed run completes without verification | |
| `tool_registry` | `MutationsAlone`, `OnlyAuthorizedRun`, `AskedOnce`, `UsedToolsStay` in all four modes, gated or not | 2.3M |
| `read_cache` | `ReadsAreFresh`: if edits show in the stat, no order of stat, look-up, read and store serves old content. `OwnWritesAreSeen`: the tools' own writes are seen even when stat shows nothing. | 662k |
| `persistent_memory` | `EntriesSurvive`, `MemoryIsOnDisk`: instances that follow each other lose nothing and revive nothing of a key whose last value holds no separator of `splitlines`, wherever one died and although another line is not read back | 1.3M |
| `collaboration` | `EvidenceIsOwn`: deduplication never attributes evidence to a specialist that did not observe it. `VerifiedIsFinal`: verdicts are about the workspace the run leaves. `ConversationsSeparate`: specialists of two names at work share no provider, and no two subtasks of the default decomposition do. `PublishKeeps`; `RunEnds` though anything raises. | 532k |
| `provider_history` | `ToolLinks`: each call is answered once, right after it, through retries, failures and resumes. `GivesUpForCause`, `ResumeContinues`, `RequestEnds`. | 1.2M |
| `reviewer_diff` | violated: the reviewer's request does not hold the diff | |
| `tool_processes` | `AnswersAreOwn`: no request returns another's answer, though requests are abandoned with their answers in the pipe. `ServersAreAttached`; `TimeoutEndsTheGroup`; `FileIsOneWrite` wherever a write stops; `SessionEnds`; `ExecuteEnds`. | 101k |
| `context_window` | `NothingLostSilently`, `NewestThatFit`, `CountsAddUp` for every conversation of four messages under four configurations | 27k |
| `evaluation` | `InFlight`: never more cases than permitted, also while a failed run is wound up. `ReportIsTrue`: a report has each task's own result, in order. `PromotionsAreEarned`: what becomes the base outranks it on the training tasks, passes no fewer holdout tasks and is what its name tells, though each measurement is anew. `BenchmarkEnds`. | 224k |

Bounds.  Agent loop: two runs, because what leaks from a run shows in the next
one; three processes, to resume a resumed run; budgets 2 and 3, since three
turns hold a tool round, its verification and the finalizing turn, and two are
needed to run out right after a verification; two calls per batch, so that a
batch may mix a write and a failure.  Two budgets make a process resume a
checkpoint that was saved under another budget.  `agent_outcome` has one call
per batch, as a decision is the same for any number, and two processes.
Registry: three calls and two threads, so that a third call waits for a
thread; two batches, since activation and approvals pass from one to the next;
two tasks; six calls that hit each policy outcome, among them two calls of one
tool, an invalid one being the same as an unknown one.  Cache: one file, since no step relates two;
two spellings and two threads, the fewest that meet; three stamps, of which two
share the tick and two the length; two edits after the first content, so that
an edit may bring back an older stamp.  Memory: two keys, so that a rewrite has
a bystander; three puts, for a key put again beside the other, of which the
second holds a separator, so that it may be its key's first, middle or last; two
instances, which also follow each other any number of times.

Collaboration: three specialists on two threads, all that the default
decomposition ever has, so that one waits while two meet, and one analyzer named
twice or nobody, by a decomposer of the caller's; one tool call each, one path and one
answer, so that their items coincide; one task, on a board that an earlier one
may have left.  Provider: four requests, for two tool rounds, an answer and a
new task; runs of three turns; one retry; one resume.  Processes: two servers,
so that the second fails with the first attached; two threads and two tools,
which meet on one server, on two, or on a server and the runtime; one foreign
line; two writes, the second after the first failed.  Context: four messages
are the task, two outputs of one tool and one thing between or behind them; the
lengths keep the order in which head, tail, marker and limit stand in the code.
Evaluation: three cases on two permits, of which two are the same task; three
outcomes that differ in every count; one change of the base and up to two of
an earlier trace, three generations, so that a promotion follows one of an extra
candidate.

Deadlock is not checked: a session whose bounds are spent really stops.

Fairness.

- `AgentLoop`: `WF_vars(LoopStep)`.  The loop is a synchronous call, and all it
  waits for is bounded (provider timeout and retries, command and verifier
  timeouts).  A user who never answers an approval prompt and an MCP server
  that never answers a request are outside that assumption.  No fairness is
  assumed of starting, resuming or saving.  `RunStops` holds because every
  decision spends a turn: the mutant that forgets to count one loops for ever.
- `Collaboration`: weak fairness of the coordinator's thread and of each
  specialist's; that its run ends is `BoundedRun`.  `UseTool` has none.
- `ProviderHistory`: `WF_vars(Complete)`, as the client's timeout ends an
  operation and a wait is a sleep.
- `ToolProcesses`: the threads run and system calls return.  That a server
  answers what it has read is assumed of the server, since a request has no
  timeout (see 6).  Nothing is assumed of commands: `ExecuteEnds` and
  `SessionEnds` except the daemon that holds the pipes, which nothing bounds.
- `Evaluation`: `WF_vars(RunAsync)`, as a case ends and threads are started.
  Nothing is claimed of `evolve`'s end.

## 5. Proofs

`AgentLoopProofs` proves for all budgets, batch sizes, numbers of runs and
processes, and for both protocols:

- `TypeCorrect`, `EditsAreVerified` (`FreshRunVerifies`), `CallsAreAnswered`
  (`RequestsAnswerCalls`), `CheckpointsAdvance` (`CheckpointAdvances`), and
  `ImplementsBoundedRunSafety`: initial states and steps of `AgentLoop` are
  those of `BoundedRun`.

The assumptions are `ConstantsAssumption` only.  All rest on one inductive
invariant, `IInv`:

- `ProcessInv` ties `pc` to the status of the run, and says that a run inside a
  turn has not spent its budget (needed for `Decide` of `BoundedRun`);
- `CheckpointInv`: a checkpoint belongs to a started run and is not ahead of a
  run that continues it.  Without it, saving could set a run back;
- `FinalTextInv` and `DirtyInv`: a kept text means that nothing is dirty, and an
  unverified edit of an Agent that resumed nothing is either in `_dirty` or in
  the batch being dispatched.  `FreshRunVerifies` alone is not inductive: it
  speaks of completed runs only;
- `OutputsInv`, `LinkedInv`: outputs in hand never exceed the calls owed, and
  are equal to them for the runs whose requests answer everything.  The type of
  `owed` already needs it, as the chat provider subtracts one from the other.

Each part has a step lemma with one case per action; `StepInv` joins them.

`ToolCallsProofs` proves, of the cache, `CacheTypeCorrect` and `CachedReadsAreFresh` (`ReadsAreFresh`) for any files,
spellings, threads, stamps and edits, from `CacheAssumption`.  A served entry
says nothing of how it came to be, so the invariant says it of entries: the
stamp of an entry, and the one a thread has in hand, is that of the content it
goes with *or of an older one* (`EntryInv`, `ThreadInv`).  It holds because the
stat is taken before the content is read; stored under a later stat, the
mutant, an entry would pass for newer than it is.  If no two edits left the
same stamp, an entry that matches a stat is then at least as new as the stat.

Of the registry, `ToolCallsProofs` proves all five invariants of `tool_registry` for any
tools, risks, calls, verdicts, modes, pool, batch and task bounds, from
`RegistryAssumption` (which says of the code that `execute_command` is not
registered as read-only).  The invariant adds to them:

- `TakenInOrder` and `OneByOne`: calls leave the queue in order, and a batch
  with one thread has nothing before its current call unfinished and nothing
  after it begun.  `MutationsAlone` alone is not inductive: it says nothing of a
  read-only call that a mutating one must wait for;
- `AskingInv`: the user is asked about mutating calls only, so that asking is
  never concurrent.  This closes the window in `authorize` between reading the
  approved set and writing it: two equal calls cannot both be asked about;
- `SaidInv`: what the user said yes to is approved or about to be;
- `RanInv`, `GatingInv`: only registered tools succeed, and a task that has
  used one is gated by then, so that `activate` cannot restart from the empty
  set and lose it.

`OwnWritesAreRead` (`OwnWritesAreSeen`), the cache's other theorem, assumes
nothing of stats.  While only the tools edit a file, under one spelling and one
after the other, a writer is the only thread at it (`Alone`), a reader has its
only version (`Current`), and what is cached is its content or is about to be
invalidated by the thread that wrote it (`CurrentEntry`).

`MemoryProofs` proves `MemoryTypeCorrect` for any instances, and `Survival`
and `DiskIsMemory` (`EntriesSurvive`, `MemoryIsOnDisk`) for instances that follow
each other with one TTL, the theorems' assumption (without it they fail, see 7),
and for the keys whose last value can be read back, any other lines being lost.
Both compare the file with the last put of each key, so the invariant says what
the file is:

- `FileInv`: what is promised of a key is the last line of that key, and lines of
  one key stand in the order of their puts.  Order matters because a start
  keeps the last line it reads;
- `ExpireInv`: what was put earlier expires earlier, so that no older line comes
  back when the newest one expires;
- `InstanceInv`: what an instance holds at each step of a put, a save and a load,
  its temporary file included.  An instance may die at any of them, and the
  file it leaves must satisfy `FileInv` already;
- `Follow`: two instances that are up are one.  Under `shared` nothing of this
  holds (see 6).

`CollaborationProofs` proves all safety properties of `collaboration`, for any
paths, answers, observations, pool size, cap on specialists and tasks, from
`CollaborationAssumption`:

- `SeenInv`: what waits to be published was observed by its specialist, an item
  is kept under its own digest, and what a result names is on the board and was
  seen by its author.  `EvidenceIsOwn` speaks of results only, and deduplication
  happens before them;
- `PoolInv`: nothing is at work outside the pool phase, and each provider is the
  one made for its specialist's name; the default decomposition names no
  specialist twice; hence `ConversationsSeparate`;
- `VerdictInv`: the verdicts agree with the workspace from the check of the
  evidence to the next task.  It needs `PoolInv`, as a specialist still at work
  could change a file that was checked.

`ToolProcessesProofs` proves the four safety properties of `tool_processes` for
any servers, threads, calls, commands and writes:

- `AnswersReachTheirRequest` rests on `PipeInv`: whatever is in a pipe, answers
  to abandoned requests included, has an id that was given out, and whoever of
  that client waits with this id is the request itself.  That ids only grow and
  are given out under the lock makes it so;
- `ServersAttached` rests on `AttachInv` (clients are attached in order, and main
  asks no other than the one it is at), `StopInv` and `CallInv` (a tool call,
  also one that waits in a pipe, is to an attached server);
- `GroupIsGone` and `FileIsWhole` rest on invariants of `LocalRuntime` alone,
  which no step of the clients touches.

`ProviderHistoryProofs` proves `TypeCorrect`, `RetriesAreBounded`
(`GivesUpForCause`), `CallsAreLinked` (`ToolLinks`) and `ResumesContinue`
(`ResumeContinues`) for any number of retries, turns, requests and resumes, from
`ProviderAssumption`:

- `RetryInv` ties the counter, the phase and the kind of the error;
- `LinkInv`: `ToolLinks` speaks of requests, and is not inductive.  Between two
  turns the history ends, if calls are owed, with the one message that makes
  just these (`Open`), and is settled before it; the outputs then close it
  (`AnswerLinked`), on the Messages protocol after one more repetition
  (`RepeatOpen`).  What a checkpoint holds is settled too, unless it was saved at
  turn 0, whose history the next request replaces, or after the last turn, which
  asks no more;
- `CountInv`: the calls owed are one or two consecutive ones, so that ordering
  them is ordering an interval, and every request leaves room for the calls of
  its response, which the type needs;
- `ResumeInv`: from a resume to the first request the history is the saved one.

`EvaluationProofs` proves all three safety properties of `evaluation`, for any
tasks, traces, outcomes, permits, pool, mutations, splits and generations.

- `CasesWithinPermits` (`InFlight`) rests on `ThreadInv`: a thread works for a
  coroutine that holds a permit until gather ends, and none is begun afterwards.
  After gather has raised, coroutines are cancelled while their threads run on,
  so that the number of threads is bounded by the peak that was counted before,
  not by the permits held (`CounterInv`).
- `ReportsAreTrue` (`ReportIsTrue`) has a small invariant, `ReportInv` (once there
  is a report every case has returned, and nothing moves), and a large lemma,
  `AggregateIsTrue`: what the three loops over a trace compute is what the
  definitions by sets say.  `ReadsCounted`, `AttributionCounted` and `FirstPassIs`
  each state what the loop has at hand after `k` observations.
- `PromotionsHold` (`PromotionsAreEarned`): the code finds the winner by its
  version name among candidates of two origins, so a version must determine a
  candidate (`SameVersion`), although names are given anew in each generation and
  candidates of the first base come back.  `RanksHigher` is a strict weak order,
  cross products of rates included (`RankingOrdered`), so that a best candidate
  exists and `Best` is one (`BestIs`).  `GenerationInv` says that results are the
  candidates' own, in order; `SuccessorIs` puts the three together.

They assume `BenchmarkAssumption` and `EvolutionAssumption`: the types of
outcomes, mutations and splits, that an observation denied by the policy is a
failed one with the error "blocked", and that only commands run pytest, as
`dispatch` and the tools make it.

`MemoryProofs` proves of `ContextWindow`, from `ContextAssumption`,
`ContextTyped`, `LossesAreAccounted` (`NothingLostSilently`), `RequestsFit`
(`NewestThatFit`) and `RemovalsAddUp` (`CountsAddUp`), for any conversation,
skills and limits and any layers, in any order and any number of times:

- `Work(c, seq0)` is the set of what compression may make of a conversation
  `seq0`: in order, every message stemming from it or a summary, every missing one
  accounted for, the counts adding up.  A later layer may take the newer output
  that stood for an older one; `AccountsKept` passes its account on, to a still
  newer output or to the summary of both.  `StaleStep`, `MicroStep` and `AutoStep`
  show that each layer stays in it, hence any sequence of layers
  (`CompressedIs`).  The properties alone are not kept by a layer: that a trimmed
  output forgets its tool must not make a later layer drop it for another's, and a
  summary in front must be replaced by the next summary, or order is lost; the
  second is why `AutoStep` shows that a summary at the front is always among the
  dropped;
- `ChosenIs`: going back from the newest message, what is taken after `k` steps
  are those of the `k` newest that fit beside the newer ones taken (`Fitting`);
- `ContextInv`: a snapshot is what `Snap` makes of the state it was taken in, as
  every handler that changes the one drops the other.

`Loops` has what these two share.  A fold is defined by a recursive function
chosen by CHOOSE, so `FoldExists` shows that such a function exists and
`Iterated` turns it into the values of a loop, `f[0]` to `f[n]`.  Reasoning about
them is induction over the numbers, for which `SetInduction` uses the least
element of a well-founded order (`WFMin`); `LoopHolds`, `LoopType`, `CountLoop`
and the lemmas on `Total` are its uses.

Only model-checked: liveness (`RunStops`, `RunEnds`, `RequestEnds`,
`SessionEnds`, `ExecuteEnds`, `BenchmarkEnds`, the fairness part of
`ImplementsBoundedRun`), which is out of the prover's reach.  All safety
properties of the passing runs are theorems.

## 6. Disagreements found

Shown by a run:

1. A resumed run may complete unverified (`agent.py:117`; README: "whenever the
   run edited workspace files"): run `resumed_edits`.
2. No provider sends `LLMRequest.messages`, so that the reviewer and the critic
   never see the diff or the answer they judge (`reviewer.py:5`: "a separate
   reviewer LLM call inspects the diff"): run `reviewer_diff`.

Met while reading and modelling, without a run of their own:

3. The stale snip takes an output for superseded by any newer one of the same
   tool (`context.py:213-243` looks at the name only): listing `b` removes the
   listing of `a`, although `UPGRADE_PLAN.md:124` asks for "同工具、参数相同、
   已被更新结果取代" (same tool, same arguments, replaced by a newer result).
   `NothingLostSilently` says what the code does: the kept output is of the same
   tool, whatever its arguments.
4. On the Responses path a resumed run loses the outputs its conversation waits
   for (`agent.py:152`); `RequestsAnswerCalls` excepts them.
5. `_final_text` outlives a run stopped by its turn limit and answers the next
   task (`llm/driver.py:43`).
6. Gating can leave the model without a tool (`tools.py:127`; docstring: "so
   gating never starves the model of capabilities").
7. Two instances over one memory file lose completed puts and share a temporary
   name (`memory.py:270`, 314; docstring: "Entries survive process restarts").
8. An edit of the same length within one clock tick is served from the cache as
   it was before (`memory.py:29`; docstring: "so stale content is never
   served").
9. `micro_compact` lengthens outputs of 2001 to 2333 characters under the
   candidate `micro_compact_max_chars=2000`, whose head and tail are longer
   (`context.py:250`: "Trim oversized tool outputs"); hence `CountsAddUp` has
   `TrimmingShortens` and an inequality.
10. `retry_max_retries` is not handed to the agent that is measured
    (`evolution.py:36`: "Every field here is actually wired into the agent at run
    time"), so that its candidate differs from the base by chance only, and may
    be promoted for it.
11. The Messages history repeats a message with tool uses, and the first request
    does not hold the task (`anthropic_provider.py:198`, 58); `ToolLinks` admits
    the repetition.
12. A blank answer makes `publish` raise out of the pool and lose the results of
    all specialists (`coordinator.py:250`).
13. An MCP request has no timeout, and neither has the second `communicate`
    after a kill (`mcp/client.py:165`, `runtime/local.py:106`).
14. A temporary file stays when writing, flushing or encoding fails
    (`runtime/local.py`; only the replacement unlinks it); `FileIsOneWrite`
    claims no more.
15. One case that raises loses the report of all (`async_runner.py:78`; `evolve`
    likewise).
16. The denials of `RunMetrics` and of `attribute_run` differ: refused asks are
    counted by the second only; `ReportIsTrue` has an inequality.
17. A completed `put` of a value with U+0085, U+2028 or U+2029 is lost at the next
    start, whose rewrite also removes its line, and an older value of the key may
    return: `dumps(ensure_ascii=False)` leaves them as they are (`memory.py:272`),
    `splitlines` ends a line there (`memory.py:237`; docstring: "Entries survive
    process restarts").  `Separated` has such entries, and the properties except
    their keys.
18. A decomposer that names one specialist twice puts one provider, and its
    conversation, in two threads (`coordinator.py:335`, 345-351); the default one
    does not.  `ConversationsSeparate` excepts it.
19. Promotion is by one measurement of each strategy, and measurements differ:
    `evolution.py:9-10` promotes "only when it improves a fixed holdout subset",
    and `reports/latest-evolution-v1.json` measured one strategy at 13642 and at
    9368 tokens on the same holdout.  A strategy may be promoted by luck, or
    return; and a promoted extra candidate, derived from the first base, drops
    what was promoted before it.  `PromotionsAreEarned` claims no more than the
    generation shows.
20. `FileCache.invalidate` tests and deletes without a lock (`memory.py:38-41`):
    of two threads that write one spelling, one may raise `KeyError` after its
    write, and the edit is reported as failed.  `DropEntry` is one step; what
    `ReadsAreFresh` and `OwnWritesAreSeen` speak of is the same in both.

## 7. Not modelled

Workspace path checks, report layout, benchmark tasks and their checkers, prices,
option parsing and printing have no state or no order to get wrong.  The Docker
runtime runs nothing but an external program.  Within the modelled components:

- loop: usage counters, model names and traces; the contents of messages; the
  memory injected on turn 0; `ApprovalManager.clear` and `activate_all`, which
  nothing in the repository calls between runs;
- cache: missing files, for which `read_file` raises and touches nothing, and
  the read half of `replace_text`;
- memory: lines torn inside a character (the next start raises), appends that
  fail (a full disk, a lone surrogate: the entry stays in memory and is not on
  disk), the temporary file half written, TTLs given per put (with them, an
  entry that expires lets the one it replaced return: `EntriesSurvive` fails
  with `OneTtl = FALSE`), and `WorkingMemory`, which the driver fills and
  nothing reads;
- collaboration: a `provider_factory` that gives one provider to two names,
  claims other than observations and answers, the critic's text,
  a `run` called from two threads;
- providers: `restore`, which only tests call; a session resumed under another
  kind of provider, which starts with an empty history; the length of waits;
  connection and timeout errors of the SDKs' own classes, which have no status
  code and are no `TimeoutError`, so that the code does not retry them: the error
  `timeout` of the model is one the code does recognize;
- processes: requests that a server sends to the client with an id of its own,
  Windows, output limits, several commands at a time in one runtime
  (they share no state but files);
- context: how text is scored against skills, `estimate_context_chars`; the
  "request" of `NewestThatFit` is the `ContextSnapshot`, which no provider sends
  as it is (see 6);
- evaluation: recorded and dry runs, the baseline agent, a `--base-version` other
  than `v1`; a case whose command leaves a daemon with its pipes (see
  `ExecuteEnds`) never ends, which `BenchmarkEnds` assumes it does.  The run's
  thread pool has as many threads as there are permits, so that the permits are
  seen in the counted peak; `CasesWithinPermits` is for any pool.
