-------------------------- MODULE ProviderHistory --------------------------
(***************************************************************************)
(* What the providers keep and send: OpenAIProvider and its asynchronous   *)
(* twin on the chat and on the Responses API, and AnthropicProvider on the *)
(* Messages API, each with its retry loop, its streams and the state it    *)
(* exports to a checkpoint.                                                *)
(*                                                                         *)
(* The client is the model driver (purpose "agent": a turn per response,   *)
(* the outputs of the tools it ran in the next request, a checkpoint when  *)
(* the run has ended, and perhaps a resume in a new process) or the        *)
(* reviewer, whose requests all have turn 0.  The service is the           *)
(* environment: it answers anything or fails.                              *)
(*                                                                         *)
(* A message is its role, what its text is, and the tool calls it makes or *)
(* answers.  The chain of response ids is in AgentLoop.                    *)
(***************************************************************************)
EXTENDS Integers, Sequences, FiniteSets, SequencesExt

CONSTANTS
  Kinds,       \* protocols to consider
  MaxRetries,  \* max_retries of the configuration
  MaxTurns,    \* max_turns of a run
  MaxAsks,     \* bound: requests of one client
  MaxResumes   \* bound: resumes of the session

ASSUME ProviderAssumption ==
  /\ Kinds \subseteq {"chat", "async_chat", "responses", "messages"}
  /\ MaxRetries \in Nat
  /\ MaxTurns \in Nat \ {0}
  /\ MaxAsks \in Nat \ {0}
  /\ MaxResumes \in Nat

VARIABLES
  kind,      \* the provider's protocol
  purpose,   \* whom it serves
  history,   \* _chat_messages or _messages
  pending,   \* _pending_tool_uses
  phase,     \* where complete or complete_stream is
  streamed,  \* the request is a stream
  sent,      \* the messages of the request
  attempt,   \* _with_retry's attempt
  error,     \* what the last operation raised
  turn,      \* AgentState.turn_count
  owed,      \* calls of the last response: AgentState.tool_outputs to be
  issued,    \* calls the service has made so far
  saved,     \* the checkpoint
  resumed,   \* history: no request since the resume
  asks,      \* requests begun
  tries,     \* history: operations of this request that have ended
  resumes

protocol == <<kind, purpose>>
driver == <<turn, owed, issued>>
session == <<saved, resumed, resumes>>
vars == <<protocol, history, pending, phase, streamed, sent, attempt, error,
          driver, session, asks, tries>>

Roles == {"system", "user", "assistant", "tool"}
Texts == {"", "task", "context", "diff", "reply"}
Calls == 1 .. 2 * MaxAsks
Messages == [role : Roles, text : Texts, calls : SUBSET Calls]
Message(role, text, calls) == [role |-> role, text |-> text, calls |-> calls]

\* The classes of errors an operation raises.
Transient == {"timeout", "status_408", "status_429", "status_5xx"}
Errors == Transient \cup {"status_4xx", "other"}

Checkpoints == [history : Seq(Messages), pending : SUBSET Calls, turn : 0 .. MaxTurns]
NoCheckpoint == [turn |-> -1]

TypeOK ==
  /\ kind \in Kinds
  /\ purpose \in {"agent", "review"}
  /\ history \in Seq(Messages)
  /\ pending \subseteq Calls
  /\ phase \in {"idle", "sending", "waiting", "streaming", "failed"}
  /\ streamed \in BOOLEAN
  /\ sent \in Seq(Messages)
  /\ attempt \in 0 .. MaxRetries + 1
  /\ error \in Errors \cup {"none", "empty", "broken"}
  /\ turn \in 0 .. MaxTurns
  /\ owed \subseteq Calls
  /\ issued \in 0 .. 2 * MaxAsks
  /\ saved \in Checkpoints \cup {NoCheckpoint}
  /\ resumed \in BOOLEAN
  /\ asks \in 0 .. MaxAsks
  /\ tries \in 0 .. MaxRetries + 1
  /\ resumes \in 0 .. MaxResumes

Init ==
  /\ kind \in Kinds
  /\ purpose \in {"agent", "review"}
  /\ history = <<>>
  /\ pending = {}
  /\ phase = "idle"
  /\ streamed = FALSE
  /\ sent = <<>>
  /\ attempt = 0
  /\ error = "none"
  /\ turn = 0
  /\ owed = {}
  /\ issued = 0
  /\ saved = NoCheckpoint
  /\ resumed = FALSE
  /\ asks = 0
  /\ tries = 0
  /\ resumes = 0

-----------------------------------------------------------------------------
(* A request.                                                              *)

IsChat == kind \in {"chat", "async_chat"}

\* LLMRequest.messages as the reviewer and the driver fill it; no provider
\* reads it.
RequestMessages ==
  IF purpose = "review" THEN <<Message("user", "diff", {})>>
  ELSE <<Message("user", "context", {})>>

\* The owed outputs in the order of their calls.
Outputs ==
  CHOOSE s \in [1 .. Cardinality(owed) -> owed] :
    \A i, j \in DOMAIN s : i < j => s[i] < s[j]

\* _prepare_chat_input, whose outputs are messages of their own.
ChatInput ==
  (IF turn = 0 THEN <<Message("system", "context", {}), Message("user", "task", {})>>
   ELSE history)
  \o [i \in 1 .. Cardinality(owed) |-> Message("tool", "reply", {Outputs[i]})]

\* The input of a Responses request: the outputs, or else the task.
ResponsesInput ==
  IF owed = {} THEN <<Message("user", "task", {})>> ELSE <<Message("tool", "reply", owed)>>

\* complete and _append_tool_results of AnthropicProvider: a first request
\* empties the history and adds nothing to it, and the tool uses that
\* complete has already appended are appended again before their results.
MessagesInput ==
  (IF turn = 0 THEN <<>> ELSE history)
  \o (IF owed # {} /\ turn # 0 /\ pending # {}
        THEN <<Message("assistant", "", pending)>> ELSE <<>>)
  \o (IF owed # {} THEN <<Message("tool", "reply", owed)>> ELSE <<>>)

Input ==
  IF IsChat THEN ChatInput ELSE IF kind = "messages" THEN MessagesInput ELSE ResponsesInput

\* complete or complete_stream, up to the first operation.
Ask(stream) ==
  /\ phase = "idle"
  /\ turn < MaxTurns
  /\ asks < MaxAsks
  /\ sent' = Input
  /\ history' = IF kind = "responses" THEN history ELSE Input
  /\ pending' = IF kind = "messages" /\ (turn = 0 \/ owed # {}) THEN {} ELSE pending
  /\ phase' = "sending"
  /\ streamed' = stream
  /\ attempt' = 0
  /\ tries' = 0
  /\ error' = "none"
  /\ resumed' = FALSE
  /\ asks' = asks + 1
  /\ UNCHANGED <<protocol, driver, saved, resumes>>

-----------------------------------------------------------------------------
(* _with_retry around the operation.                                       *)

IsRetryable(e) == e \in Transient

\* Mutant of GivesUp: one attempt more.
GivesUpLate(n, e) == n > MaxRetries + 1 \/ ~IsRetryable(e)

GivesUp(n, e) == n > MaxRetries \/ ~IsRetryable(e)

\* Mutant of NextAttempt: the count starts again with every wait.
RestartedAttempt == 1

NextAttempt == attempt + 1

\* The operation raises: the service, the network or the client's timeout.
Raises(e) ==
  /\ phase = "sending"
  /\ attempt' = NextAttempt
  /\ tries' = IF tries <= MaxRetries THEN tries + 1 ELSE tries
  /\ error' = e
  /\ phase' = IF GivesUp(attempt', e) THEN "failed" ELSE "waiting"
  /\ UNCHANGED <<protocol, history, pending, streamed, sent, driver, session, asks>>

\* Mutant of Retried: the request is prepared anew, outputs and all.
RetriedAnew == IF kind = "responses" THEN sent ELSE
  history \o (IF owed = {} THEN <<>> ELSE <<Message("tool", "reply", owed)>>)

\* The operation closes over the parameters of the first attempt.
Retried == sent

\* After min(max_delay, base_delay * 2^(attempt - 1)), or a random part of it.
Wake ==
  /\ phase = "waiting"
  /\ phase' = "sending"
  /\ sent' = Retried
  /\ UNCHANGED <<protocol, history, pending, streamed, attempt, error, driver,
                 session, asks, tries>>

-----------------------------------------------------------------------------
(* The response.                                                           *)

\* What each protocol appends for a response.  The chat and the Messages
\* adapter append before LLMResponse refuses a response without text or calls.
Appended(text, calls) ==
  IF kind = "responses" THEN history
  ELSE Append(history, Message("assistant", IF kind = "messages" /\ calls # {}
                                              THEN "" ELSE text, calls))

\* A whole response, with n calls.
Respond(text, n) ==
  LET calls == issued + 1 .. issued + n IN
  /\ phase = "sending"
  /\ ~streamed
  /\ history' = Appended(text, calls)
  /\ pending' = IF kind = "messages" /\ n > 0 THEN calls ELSE pending
  /\ issued' = issued + n
  /\ IF text = "" /\ n = 0
       THEN /\ phase' = "failed"
            /\ error' = "empty"
            /\ UNCHANGED <<turn, owed>>
       ELSE /\ phase' = "idle"
            /\ error' = "none"
            /\ turn' = IF purpose = "agent" THEN turn + 1 ELSE 0
            /\ owed' = IF purpose = "agent" THEN calls ELSE {}
  /\ UNCHANGED <<protocol, streamed, sent, attempt, session, asks, tries>>

\* A stream is opened: its deltas are not retried.
OpenStream ==
  /\ phase = "sending"
  /\ streamed
  /\ phase' = "streaming"
  /\ UNCHANGED <<protocol, history, pending, streamed, sent, attempt, error,
                 driver, session, asks, tries>>

\* The stream ends.  Only the synchronous chat stream remembers its text.
EndStream(text) ==
  /\ phase = "streaming"
  /\ history' = IF kind = "chat" /\ text # ""
                  THEN Append(history, Message("assistant", text, {})) ELSE history
  /\ phase' = "idle"
  /\ turn' = IF purpose = "agent" THEN turn + 1 ELSE 0
  /\ owed' = {}
  /\ UNCHANGED <<protocol, pending, streamed, sent, attempt, error, issued,
                 session, asks, tries>>

StreamBreaks ==
  /\ phase = "streaming"
  /\ phase' = "failed"
  /\ error' = "broken"
  /\ UNCHANGED <<protocol, history, pending, streamed, sent, attempt, driver,
                 session, asks, tries>>

-----------------------------------------------------------------------------
(* The client.                                                             *)

\* The run has ended, by failure, by an answer or by the turn limit, and its
\* checkpoint is built (export_state).
Save ==
  /\ purpose = "agent"
  /\ \/ phase = "failed"
     \/ phase = "idle" /\ (owed = {} \/ turn = MaxTurns)
  /\ ~resumed
  /\ saved' = [history |-> history, pending |-> pending, turn |-> turn]
  /\ UNCHANGED <<protocol, history, pending, phase, streamed, sent, attempt,
                 error, driver, resumed, resumes, asks, tries>>

\* Mutant of RestoredHistory: restore in the place of restore_state, which
\* keeps role and text.
RestoredText ==
  [i \in DOMAIN saved.history |-> [saved.history[i] EXCEPT !.calls = {}]]

\* restore_state
RestoredHistory == saved.history

\* A new process builds a provider of the same kind and resumes: the outputs
\* that were owed are not in the checkpoint.
Resume ==
  /\ saved # NoCheckpoint
  /\ resumes < MaxResumes
  /\ history' = RestoredHistory
  /\ pending' = saved.pending
  /\ turn' = saved.turn
  /\ owed' = {}
  /\ phase' = "idle"
  /\ error' = "none"
  /\ resumed' = TRUE
  /\ resumes' = resumes + 1
  /\ UNCHANGED <<protocol, streamed, sent, attempt, issued, saved, asks, tries>>

\* The next task of the same Agent, or the next review.
NewTask ==
  /\ phase \in {"idle", "failed"}
  /\ asks > 0
  /\ turn' = 0
  /\ owed' = {}
  /\ phase' = "idle"
  /\ resumed' = FALSE
  /\ UNCHANGED <<protocol, history, pending, streamed, sent, attempt, error,
                 issued, saved, resumes, asks, tries>>

-----------------------------------------------------------------------------
Complete ==
  \/ \E e \in Errors : Raises(e)
  \/ Wake
  \/ \E text \in {"", "reply"}, n \in 0 .. 2 : Respond(text, n)
  \/ OpenStream
  \/ \E text \in {"", "reply"} : EndStream(text)
  \/ StreamBreaks

Next ==
  \/ \E stream \in BOOLEAN : Ask(stream)
  \/ Complete
  \/ Save
  \/ Resume
  \/ NewTask

\* An operation ends, if only by the client's timeout, and a wait ends.
Spec == Init /\ [][Next]_vars /\ WF_vars(Complete)

-----------------------------------------------------------------------------
(* Properties.                                                             *)

\* The positions of the run of tool messages after position j.
AnswersTo(j) == {k \in j + 1 .. Len(sent) : \A l \in j + 1 .. k : sent[l].role = "tool"}

\* Every request links calls and outputs as the services demand: an output
\* follows the message that makes its call, and a message with calls has each
\* of them answered once by the tool messages right after it.  Retries,
\* failures after the outputs were appended and resumes do not undo it.  (A
\* Messages request repeats the message with the calls: only the second is
\* followed by results.)
ToolLinks ==
  phase \in {"sending", "streaming"} /\ kind # "responses" =>
    \A j \in DOMAIN sent :
      /\ sent[j].role = "tool" => \E i \in 1 .. j - 1 : j \in AnswersTo(i) /\ sent[j].calls \subseteq sent[i].calls
      /\ sent[j].role = "assistant" /\ sent[j].calls # {} =>
           \/ kind = "messages" /\ j < Len(sent) /\ sent[j + 1] = sent[j]
           \/ \A c \in sent[j].calls :
                Cardinality({k \in AnswersTo(j) : c \in sent[k].calls}) = 1

\* A request whose errors are all transient fails only after max_retries + 1
\* operations; any other error ends it at once, and none is ever waited for.
GivesUpForCause ==
  /\ phase = "failed" /\ error \in Transient => tries = MaxRetries + 1
  /\ phase = "waiting" => error \in Transient /\ tries <= MaxRetries

\* The first request after a resume past turn 0 sends the saved history as it
\* was when the run ended, with nothing lost and nothing repeated.
ResumeContinues ==
  [][resumed /\ ~resumed' /\ asks' > asks /\ turn > 0 /\ kind # "responses" =>
       sent' = saved.history]_vars

\* A request ends, however often the service fails.
RequestEnds == phase = "sending" ~> phase \in {"idle", "failed"}

\* "a separate reviewer LLM call inspects the diff" (reviewer.py:5): the diff
\* is in the request the reviewer's provider sends.
ReviewerIsShownDiff ==
  purpose = "review" /\ phase = "sending" =>
    \E i \in DOMAIN sent : sent[i] \in ToSet(RequestMessages)
=============================================================================
