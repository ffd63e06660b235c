----------------------------- MODULE MCPClient -----------------------------
(***************************************************************************)
(* MCPClient and its use by the command line: _attach_mcp starts the       *)
(* configured servers one after the other and lists their tools, the tool  *)
(* handlers then send requests from the threads of the dispatching pool,   *)
(* and every client is stopped at the end, or when attaching fails.        *)
(*                                                                         *)
(* A client owns one process, a lock and a counter of request ids.  The    *)
(* server is a program of its own, the bundled demo_server or any other:   *)
(* it reads one line after the other, but may also notify, print what is   *)
(* no JSON, or exit.                                                       *)
(***************************************************************************)
EXTENDS Integers, Sequences

CONSTANTS
  Clients,     \* the number of configured servers
  Threads,     \* threads that call tool handlers
  MaxCalls,    \* bound: tool calls of a session
  MaxNoise     \* bound: lines a server prints that answer nothing

VARIABLES
  stage,     \* where the command line is
  at,        \* the client _attach_mcp is at
  started,   \* a client's _process is not None
  lock,      \* who holds a client's _lock, "" when no one
  lastId,    \* _request_id
  server,    \* "none", "up" or "exited", a client's process
  stdin,     \* requests the server has not read
  stdout,    \* lines the client has not read
  request,   \* the request each actor is in
  ready,     \* history: requests main has had answered, by client
  got,       \* history: what an actor's last request was and what answer it got
  run,       \* history: requests a server has carried out, with their client
  calls,     \* tool calls begun
  noise      \* lines printed that answer nothing

mcpVars == <<stage, at, started, lock, lastId, server, stdin, stdout, request,
             ready, got, run, calls, noise>>

Main == "main"
Actors == Threads \cup {Main}
Ids == 0 .. MaxCalls + 2
Requests == [client : 1 .. Clients, actor : Actors, id : Ids,
             method : {"initialize", "tools/list", "tools/call"}]
NoRequest == [client |-> 0]
Waiting == {a \in Actors : request[a] # NoRequest}

\* A line of a server: an answer to a request it has read, or noise.
Line(kind, r) == [kind |-> kind, answers |-> r]
Lines == [kind : {"result", "error", "notification", "invalid"},
          answers : Requests \cup {NoRequest}]

McpTypeOK ==
  /\ stage \in {"attach", "running", "stopping", "over"}
  /\ at \in 1 .. Clients + 1
  /\ started \in [1 .. Clients -> BOOLEAN]
  /\ lock \in [1 .. Clients -> Actors \cup {""}]
  /\ lastId \in [1 .. Clients -> Ids]
  /\ server \in [1 .. Clients -> {"none", "up", "exited"}]
  /\ stdin \in [1 .. Clients -> Seq(Requests)]
  /\ stdout \in [1 .. Clients -> Seq(Lines)]
  /\ request \in [Actors -> Requests \cup {NoRequest}]
  /\ \A c \in 1 .. Clients : lock[c] # "" => request[lock[c]].client = c
  /\ ready \in [1 .. Clients -> SUBSET {"initialize", "tools/list"}]
  /\ got \in [Actors -> [asked : Requests \cup {NoRequest}, answered : Requests \cup {NoRequest}]]
  /\ run \subseteq Requests
  /\ calls \in 0 .. MaxCalls
  /\ noise \in 0 .. MaxNoise

McpInit ==
  /\ stage = "attach"
  /\ at = 1
  /\ started = [c \in 1 .. Clients |-> FALSE]
  /\ lock = [c \in 1 .. Clients |-> ""]
  /\ lastId = [c \in 1 .. Clients |-> 0]
  /\ server = [c \in 1 .. Clients |-> "none"]
  /\ stdin = [c \in 1 .. Clients |-> <<>>]
  /\ stdout = [c \in 1 .. Clients |-> <<>>]
  /\ request = [a \in Actors |-> NoRequest]
  /\ ready = [c \in 1 .. Clients |-> {}]
  /\ got = [a \in Actors |-> [asked |-> NoRequest, answered |-> NoRequest]]
  /\ run = {}
  /\ calls = 0
  /\ noise = 0

-----------------------------------------------------------------------------
(* _request.                                                               *)

\* It is called while the process is there; the id comes with the lock.
Call(a, c, method) ==
  request' = [request EXCEPT ![a] =
                [client |-> c, actor |-> a, id |-> 0, method |-> method]]

\* Mutant of AfterFailure: a server that fails is passed over.
PassOver(a) == stage

\* An exception of a request of main ends the attaching (the except clause of
\* _attach_mcp).
AfterFailure(a) == IF a = Main THEN "stopping" ELSE stage

\* The actor's request ends, with the answer to a request or, when that is
\* NoRequest, with an exception.
EndRequest(a, answer) ==
  /\ request' = [request EXCEPT ![a] = NoRequest]
  /\ got' = [got EXCEPT ![a] = [asked |-> request[a], answered |-> answer]]
  /\ IF answer = NoRequest
       THEN /\ stage' = AfterFailure(a)
            /\ UNCHANGED ready
       ELSE /\ ready' = IF a = Main
                          THEN [ready EXCEPT ![request[a].client] = @ \cup {request[a].method}]
                          ELSE ready
            /\ UNCHANGED stage

\* The lock is taken and the request written, unless the process has exited.
Write(a) ==
  LET c == request[a].client
      numbered == [request[a] EXCEPT !.id = lastId[c] + 1]
  IN /\ a \in Waiting
     /\ request[a].id = 0
     /\ lock[c] = ""
     /\ lastId' = [lastId EXCEPT ![c] = @ + 1]
     /\ IF server[c] = "up"
          THEN /\ lock' = [lock EXCEPT ![c] = a]
               /\ stdin' = [stdin EXCEPT ![c] = Append(@, numbered)]
               /\ request' = [request EXCEPT ![a] = numbered]
               /\ UNCHANGED <<stage, ready, got>>
          ELSE EndRequest(a, NoRequest) /\ UNCHANGED <<lock, stdin>>
     /\ UNCHANGED <<at, started, server, stdout, run, calls, noise>>

\* Mutant of IsForMe: the next line is the answer.
IsForAnyone(line, a) == line.kind # "notification"

\* message.get("id") == request_id; a notification has no id.
IsForMe(line, a) == line.answers # NoRequest /\ line.answers.id = request[a].id

Holds(a) == a \in Waiting /\ request[a].id # 0

\* A line is read: another's answer and a notification are skipped, a line
\* that is no JSON and an error end the request with an exception.
ReadLine(a) ==
  LET c == request[a].client
      line == Head(stdout[c])
      ends == line.kind = "invalid" \/ IsForMe(line, a)
  IN /\ Holds(a)
     /\ stdout[c] # <<>>
     /\ stdout' = [stdout EXCEPT ![c] = Tail(@)]
     /\ IF ends
          THEN /\ lock' = [lock EXCEPT ![c] = ""]
               /\ EndRequest(a, IF line.kind = "result" THEN line.answers ELSE NoRequest)
          ELSE UNCHANGED <<lock, request, got, stage, ready>>
     /\ UNCHANGED <<at, started, lastId, server, stdin, run, calls, noise>>

\* Mutant of AtEnd: an empty read is read again.
NeverAtEnd(c) == FALSE

\* readline returns "": the process has exited and all it printed is read.
AtEnd(c) == server[c] = "exited" /\ stdout[c] = <<>>

ReadEnd(a) ==
  /\ Holds(a)
  /\ AtEnd(request[a].client)
  /\ lock' = [lock EXCEPT ![request[a].client] = ""]
  /\ EndRequest(a, NoRequest)
  /\ UNCHANGED <<at, started, lastId, server, stdin, stdout, run, calls, noise>>

-----------------------------------------------------------------------------
(* _attach_mcp, the run and the end of _run_v5.                            *)

\* start: the process, then initialize.
StartClient ==
  /\ stage = "attach"
  /\ at <= Clients
  /\ ~started[at]
  /\ started' = [started EXCEPT ![at] = TRUE]
  /\ server' = [server EXCEPT ![at] = "up"]
  /\ Call(Main, at, "initialize")
  /\ UNCHANGED <<stage, at, lock, lastId, stdin, stdout, ready, got, run, calls, noise>>

\* Popen raises.
StartFails ==
  /\ stage = "attach"
  /\ at <= Clients
  /\ ~started[at]
  /\ stage' = AfterFailure(Main)
  /\ UNCHANGED <<at, started, lock, lastId, server, stdin, stdout, request,
                 ready, got, run, calls, noise>>

\* list_tools; its call of start returns at once.
ListTools ==
  /\ stage = "attach"
  /\ at <= Clients
  /\ started[at] /\ request[Main] = NoRequest
  /\ "tools/list" \notin ready[at]
  /\ Call(Main, at, "tools/list")
  /\ UNCHANGED <<stage, at, started, lock, lastId, server, stdin, stdout, ready,
                 got, run, calls, noise>>

NextClient ==
  /\ stage = "attach"
  /\ at <= Clients
  /\ "tools/list" \in ready[at]
  /\ at' = at + 1
  /\ stage' = IF at = Clients THEN "running" ELSE "attach"
  /\ UNCHANGED <<started, lock, lastId, server, stdin, stdout, request, ready,
                 got, run, calls, noise>>

\* A thread dispatches a call to the handler of a tool.
CallTool(t, c) ==
  /\ stage = "running"
  /\ request[t] = NoRequest
  /\ calls < MaxCalls
  /\ calls' = calls + 1
  /\ Call(t, c, "tools/call")
  /\ UNCHANGED <<stage, at, started, lock, lastId, server, stdin, stdout, ready,
                 got, run, noise>>

\* The run is over: the pool has ended, the finally clause follows.
EndRun ==
  /\ stage = "running"
  /\ Waiting = {}
  /\ stage' = "stopping"
  /\ UNCHANGED <<at, started, lock, lastId, server, stdin, stdout, request,
                 ready, got, run, calls, noise>>

\* Mutant of ToStop: the client that failed is the one to stop.
LastStarted == {c \in 1 .. Clients : started[c] /\ c = at}

\* The clients that have a process.
ToStop == {c \in 1 .. Clients : started[c]}

\* stop: the pipe is closed, the process terminated or else killed.
StopClient(c) ==
  /\ stage = "stopping"
  /\ c \in ToStop
  /\ started' = [started EXCEPT ![c] = FALSE]
  /\ server' = [server EXCEPT ![c] = "exited"]
  /\ UNCHANGED <<stage, at, lock, lastId, stdin, stdout, request, ready, got,
                 run, calls, noise>>

EndSession ==
  /\ stage = "stopping"
  /\ ToStop = {}
  /\ stage' = "over"
  /\ UNCHANGED <<at, started, lock, lastId, server, stdin, stdout, request,
                 ready, got, run, calls, noise>>

-----------------------------------------------------------------------------
(* The server.                                                             *)

\* main of demo_server: the oldest request is handled and answered, with its
\* id, by a result or by an error.
Serve(c, kind) ==
  /\ server[c] = "up"
  /\ stdin[c] # <<>>
  /\ stdin' = [stdin EXCEPT ![c] = Tail(@)]
  /\ stdout' = [stdout EXCEPT ![c] = Append(@, Line(kind, Head(stdin[c])))]
  /\ run' = run \cup IF kind = "result" THEN {Head(stdin[c])} ELSE {}
  /\ UNCHANGED <<stage, at, started, lock, lastId, server, request, ready, got,
                 calls, noise>>

\* Another server may print lines that answer nothing.
EmitOther(c, kind) ==
  /\ server[c] = "up"
  /\ noise < MaxNoise
  /\ stdout' = [stdout EXCEPT ![c] = Append(@, Line(kind, NoRequest))]
  /\ noise' = noise + 1
  /\ UNCHANGED <<stage, at, started, lock, lastId, server, stdin, request, ready,
                 got, run, calls>>

Exit(c) ==
  /\ server[c] = "up"
  /\ server' = [server EXCEPT ![c] = "exited"]
  /\ UNCHANGED <<stage, at, started, lock, lastId, stdin, stdout, request, ready,
                 got, run, calls, noise>>

-----------------------------------------------------------------------------
CommandLine ==
  \/ StartClient \/ StartFails \/ ListTools \/ NextClient \/ EndRun \/ EndSession
  \/ \E c \in 1 .. Clients : StopClient(c)

Requester(a) == Write(a) \/ ReadLine(a) \/ ReadEnd(a)

Respond(c) == \E kind \in {"result", "error"} : Serve(c, kind)

McpNext ==
  \/ CommandLine
  \/ \E a \in Actors : Requester(a)
  \/ \E t \in Threads, c \in 1 .. Clients : CallTool(t, c)
  \/ \E c \in 1 .. Clients :
       Respond(c) \/ Exit(c) \/ \E kind \in {"notification", "invalid"} : EmitOther(c, kind)

-----------------------------------------------------------------------------
(* Properties.                                                             *)

\* The answer a request returns was given to that very request, though other
\* threads share the pipe and answers to requests that were given up on after
\* an invalid line are still in it.
AnswersAreOwn ==
  \A a \in Actors : got[a].answered \in {NoRequest, got[a].asked}

\* Tools are called on servers that have answered initialize and tools/list,
\* and no server outlives the command line, though attaching may fail half-way.
ServersAreAttached ==
  /\ \A r \in run : r.method = "tools/call" => ready[r.client] = {"initialize", "tools/list"}
  /\ stage = "over" => \A c \in 1 .. Clients : server[c] # "up"
=============================================================================
