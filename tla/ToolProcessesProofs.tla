------------------------ MODULE ToolProcessesProofs ------------------------
(***************************************************************************)
(* The safety properties of ToolProcesses for any number of servers,       *)
(* threads, tool calls, commands and writes.                               *)
(***************************************************************************)
EXTENDS ToolProcesses, TLAPS

-----------------------------------------------------------------------------
(* The runtime.                                                            *)

\* Once the group is killed nothing in it starts again, as only the child
\* starts processes.
GroupInv ==
  execute = "draining" \/ reported = "timed_out" => alive \cap Group = {}

\* How far the write is that the file, a failure or a temporary file tells of.
FileInv ==
  /\ write \in [Writes -> {"none", "open", "synced", "done", "failed", "refused", "crashed"}]
  /\ target.whole
  /\ target.by = 0 \/ (target.by \in Writes /\ write[target.by] = "done")
  /\ failed \subseteq {w \in Writes : write[w] \in {"failed", "refused"}}
  /\ temps \subseteq {w \in Writes : write[w] \notin {"done", "refused"}}

\* Every step of the runtime keeps both.
LEMMA RuntimeStep ==
  ASSUME GroupInv, FileInv, RuntimeNext
  PROVE  GroupInv' /\ FileInv'
<1>1. ASSUME NEW starts \in BOOLEAN, Popen(starts)
      PROVE  GroupInv' /\ FileInv'
  BY <1>1 DEF Popen, GroupInv, FileInv, file
<1>2. ASSUME NEW p \in Processes, NEW holds \in BOOLEAN, Spawn(p, holds)
      PROVE  GroupInv' /\ FileInv'
  BY <1>2 DEF Spawn, GroupInv, FileInv, file, Group
<1>3. ASSUME NEW p \in Processes, ProcessExits(p)
      PROVE  GroupInv' /\ FileInv'
  BY <1>3 DEF ProcessExits, GroupInv, FileInv, file
<1>4. CASE Communicated \/ Interrupt
  BY <1>4 DEF Communicated, Interrupt, GroupInv, FileInv, file
<1>5. CASE TimeoutExpires
  BY <1>5 DEF TimeoutExpires, Killed, GroupInv, FileInv, file
<1>6. ASSUME NEW w \in Writes, OpenTemporary(w)
      PROVE  GroupInv' /\ FileInv'
  BY <1>6 DEF OpenTemporary, Opened, GroupInv, FileInv, command
<1>7. ASSUME NEW w \in Writes, NEW ok \in BOOLEAN, Sync(w, ok)
      PROVE  GroupInv' /\ FileInv'
  BY <1>7 DEF Sync, GroupInv, FileInv, command
<1>8. ASSUME NEW w \in Writes, NEW ok \in BOOLEAN, Replace(w, ok)
      PROVE  GroupInv' /\ FileInv'
  BY <1>8 DEF Replace, Unlinked, GroupInv, FileInv, command
<1>9. CASE CrashWriting
  BY <1>9 DEF CrashWriting, GroupInv, FileInv, command
<1>. QED
  BY <1>1, <1>2, <1>3, <1>4, <1>5, <1>6, <1>7, <1>8, <1>9
     DEF RuntimeNext, Execution, FileStep

-----------------------------------------------------------------------------
(* The clients.                                                            *)

Methods == {"initialize", "tools/list", "tools/call"}
Full == {"initialize", "tools/list"}

\* Requests whose ids are not bounded by the number of calls.
Request == [client : 1 .. Clients, actor : Actors, id : Nat, method : Methods]

Printed == [kind : {"result", "error", "notification", "invalid"},
            answers : Request \cup {NoRequest}]

\* The types of what the requests go through.
WireType ==
  /\ at \in Nat \ {0}
  /\ started \in [1 .. Clients -> BOOLEAN]
  /\ lastId \in [1 .. Clients -> Nat]
  /\ server \in [1 .. Clients -> {"none", "up", "exited"}]
  /\ stdin \in [1 .. Clients -> Seq(Request)]
  /\ stdout \in [1 .. Clients -> Seq(Printed)]
  /\ request \in [Actors -> Request \cup {NoRequest}]
  /\ ready \in [1 .. Clients -> SUBSET Full]
  /\ got \in [Actors -> [asked : Request \cup {NoRequest}, answered : Request \cup {NoRequest}]]

\* A numbered request of client c: whoever waits under its number waits for it.
Unmistaken(r, c) ==
  /\ r.client = c
  /\ r.id \in 1 .. lastId[c]
  /\ \A a \in Actors : request[a].client = c /\ request[a].id = r.id => request[a] = r

\* Everything in the pipes and everyone who waits is such a request.
PipeInv ==
  \A c \in 1 .. Clients :
    /\ \A k \in DOMAIN stdin[c] : Unmistaken(stdin[c][k], c)
    /\ \A k \in DOMAIN stdout[c] :
         stdout[c][k].answers # NoRequest => Unmistaken(stdout[c][k].answers, c)
    /\ \A a \in Actors : request[a].client = c /\ request[a].id # 0 => request[a].id <= lastId[c]

\* Main asks only while it attaches, the client it is at, first initialize and
\* then tools/list; clients before that one are attached, later ones not begun.
AttachInv ==
  /\ request[Main] # NoRequest =>
       /\ stage = "attach" /\ request[Main].client = at /\ at <= Clients /\ started[at]
       /\ request[Main].method = "initialize" => ready[at] = {}
       /\ request[Main].method # "initialize" =>
            request[Main].method = "tools/list" /\ ready[at] = {"initialize"}
  /\ stage = "attach" =>
       \A c \in 1 .. Clients :
         /\ c > at => ~started[c]
         /\ ~started[c] => ready[c] = {}
         /\ c < at => ready[c] = Full
         /\ c = at /\ started[c] /\ request[Main] = NoRequest =>
              "initialize" \in ready[c]
  /\ stage = "running" => \A c \in 1 .. Clients : ready[c] = Full

\* A server is up only if its client will stop it, and at the end all are
\* stopped.
StopInv ==
  /\ \A c \in 1 .. Clients : server[c] = "up" => started[c]
  /\ stage = "over" => \A c \in 1 .. Clients : ~started[c]

\* Tools are called by threads, and on attached servers.
CalledWhenReady(r) == r.method = "tools/call" => ready[r.client] = Full
CallInv ==
  /\ \A a \in Actors : request[a] # NoRequest => CalledWhenReady(request[a])
  /\ \A c \in 1 .. Clients : \A k \in DOMAIN stdin[c] : CalledWhenReady(stdin[c][k])
  /\ \A r \in run : CalledWhenReady(r)

WireInv ==
  /\ WireType
  /\ PipeInv
  /\ AttachInv
  /\ StopInv
  /\ CallInv
  /\ run \subseteq Request
  /\ AnswersAreOwn

IInv == WireInv /\ GroupInv /\ FileInv

-----------------------------------------------------------------------------
(* Types.                                                                  *)

\* A request is not the absence of one.
LEMMA RequestIsOne ==
  ASSUME NEW r \in Request
  PROVE  r # NoRequest /\ r.client \in 1 .. Clients /\ r.client # 0
<1>1. r.client \in 1 .. Clients /\ NoRequest.client = 0
  BY DEF Request, NoRequest
<1>. QED
  BY <1>1

\* An actor that waits waits for a client.
LEMMA WaitingHasRequest ==
  ASSUME WireType, NEW a \in Actors
  PROVE  /\ request[a] \in Request \cup {NoRequest}
         /\ request[a].client # 0 \/ request[a] # NoRequest =>
              /\ request[a] \in Request
              /\ request[a].client \in 1 .. Clients
<1>1. request[a] \in Request \cup {NoRequest}
  BY DEF WireType
<1>2. NoRequest.client = 0
  BY DEF NoRequest
<1>. QED
  BY <1>1, <1>2, RequestIsOne

\* The pipes' contents.
LEMMA PipeTypes ==
  ASSUME WireType, NEW c \in 1 .. Clients
  PROVE  /\ stdin[c] \in Seq(Request)
         /\ stdout[c] \in Seq(Printed)
BY DEF WireType

\* The types of what EndRequest assigns.
LEMMA EndRequestType ==
  ASSUME WireType, AttachInv, NEW a \in Actors, request[a] \in Request,
         NEW answer, answer \in Request \cup {NoRequest}, EndRequest(a, answer)
  PROVE  /\ request' \in [Actors -> Request \cup {NoRequest}]
         /\ ready' \in [1 .. Clients -> SUBSET Full]
         /\ got' \in [Actors -> [asked : Request \cup {NoRequest},
                                 answered : Request \cup {NoRequest}]]
<1>1. request' \in [Actors -> Request \cup {NoRequest}]
  BY DEF EndRequest, WireType
<1>2. got' \in [Actors -> [asked : Request \cup {NoRequest}, answered : Request \cup {NoRequest}]]
  BY DEF EndRequest, WireType
<1>3. a = Main => request[a].method \in Full
  BY RequestIsOne DEF AttachInv, Full, Request, Methods
<1>4. ready' \in [1 .. Clients -> SUBSET Full]
  <2>1. request[a].client \in 1 .. Clients
    BY RequestIsOne
  <2>. QED
    BY <1>3, <2>1 DEF EndRequest, WireType
<1>. QED
  BY <1>1, <1>2, <1>4

\* A request is begun.
LEMMA CallType ==
  ASSUME WireType, NEW a \in Actors, NEW c \in 1 .. Clients, NEW method \in Methods,
         Call(a, c, method)
  PROVE  request' \in [Actors -> Request \cup {NoRequest}]
<1>1. [client |-> c, actor |-> a, id |-> 0, method |-> method] \in Request
  BY DEF Request
<1>. QED
  BY <1>1 DEF Call, WireType

\* Every step of the clients keeps the types.
LEMMA WireTypeStep ==
  ASSUME WireType, AttachInv, McpNext
  PROVE  WireType'
<1>0. Main \in Actors /\ Clients \in Nat \ {0}
  BY ToolProcessesAssumption DEF Actors
<1>1. CASE StartClient
  <2>1. at \in 1 .. Clients
    BY <1>0, <1>1 DEF StartClient, WireType
  <2>2. request' \in [Actors -> Request \cup {NoRequest}]
    <3>1. "initialize" \in Methods /\ Call(Main, at, "initialize")
      BY <1>1 DEF StartClient, Methods
    <3>. QED
      BY <1>0, <2>1, <3>1, CallType
  <2>. QED
    BY <1>1, <2>1, <2>2 DEF StartClient, WireType
<1>2. CASE ListTools
  <2>1. request' \in [Actors -> Request \cup {NoRequest}]
    <3>1. at \in 1 .. Clients
      BY <1>0, <1>2 DEF ListTools, WireType
    <3>2. "tools/list" \in Methods /\ Call(Main, at, "tools/list")
      BY <1>2 DEF ListTools, Methods
    <3>. QED
      BY <1>0, <3>1, <3>2, CallType
  <2>. QED
    BY <1>2, <2>1 DEF ListTools, WireType
<1>3. CASE NextClient
  <2>1. at + 1 \in Nat \ {0}
    BY DEF WireType
  <2>. QED
    BY <1>3, <2>1 DEF NextClient, WireType
<1>11. CASE StartFails \/ EndRun \/ EndSession
  BY <1>11 DEF StartFails, EndRun, EndSession, WireType
<1>4. ASSUME NEW c \in 1 .. Clients, StopClient(c) \/ Exit(c)
      PROVE  WireType'
  BY <1>4 DEF StopClient, Exit, WireType
<1>5. ASSUME NEW t \in Threads, NEW c \in 1 .. Clients, CallTool(t, c)
      PROVE  WireType'
  <2>1. request' \in [Actors -> Request \cup {NoRequest}]
    BY <1>5, CallType DEF CallTool, Methods, Actors
  <2>. QED
    BY <1>5, <2>1 DEF CallTool, WireType
<1>6. ASSUME NEW a \in Actors, Write(a)
      PROVE  WireType'
  <2>1. request[a] \in Request /\ request[a].client \in 1 .. Clients
    BY <1>6, WaitingHasRequest DEF Write, Waiting
  <2>2. PICK c \in 1 .. Clients : c = request[a].client
    BY <2>1
  <2>3. lastId[c] + 1 \in Nat
    BY DEF WireType
  <2>4. PICK r \in Request : r = [request[a] EXCEPT !.id = lastId[c] + 1]
    BY <2>1, <2>3 DEF Request
  <2>5. lastId' \in [1 .. Clients -> Nat]
    BY <1>6, <2>2, <2>3 DEF Write, WireType
  <2>6. CASE server[c] = "up"
    <3>1. Append(stdin[c], r) \in Seq(Request)
      BY PipeTypes
    <3>2. stdin' = [stdin EXCEPT ![c] = Append(stdin[c], r)] /\ request' = [request EXCEPT ![a] = r]
      BY <1>6, <2>2, <2>4, <2>6 DEF Write
    <3>3. stdin' \in [1 .. Clients -> Seq(Request)]
      BY <3>1, <3>2 DEF WireType
    <3>4. request' \in [Actors -> Request \cup {NoRequest}]
      BY <3>2 DEF WireType
    <3>. QED
      BY <1>6, <2>2, <2>5, <2>6, <3>3, <3>4 DEF Write, WireType
  <2>7. CASE server[c] # "up"
    <3>1. EndRequest(a, NoRequest) /\ UNCHANGED stdin
      BY <1>6, <2>2, <2>7 DEF Write
    <3>. QED
      BY <1>6, <2>1, <2>5, <3>1, EndRequestType DEF Write, WireType
  <2>. QED
    BY <2>6, <2>7
<1>7. ASSUME NEW a \in Actors, ReadLine(a)
      PROVE  WireType'
  <2>1. request[a] \in Request /\ request[a].client \in 1 .. Clients
    BY <1>7, WaitingHasRequest DEF ReadLine, Holds, Waiting
  <2>2. PICK c \in 1 .. Clients : c = request[a].client
    BY <2>1
  <2>3. stdout[c] # <<>>
    BY <1>7, <2>2 DEF ReadLine
  <2>4. Head(stdout[c]).answers \in Request \cup {NoRequest}
    <3>1. Head(stdout[c]) \in Printed
      BY <2>3, PipeTypes
    <3>. QED
      BY <3>1 DEF Printed
  <2>5. Tail(stdout[c]) \in Seq(Printed)
    BY <2>3, PipeTypes
  <2>6. stdout' \in [1 .. Clients -> Seq(Printed)]
    BY <1>7, <2>2, <2>5 DEF ReadLine, WireType
  <2>7. /\ request' \in [Actors -> Request \cup {NoRequest}]
        /\ ready' \in [1 .. Clients -> SUBSET Full]
        /\ got' \in [Actors -> [asked : Request \cup {NoRequest},
                                answered : Request \cup {NoRequest}]]
    <3>1. CASE UNCHANGED <<lock, request, got, stage, ready>>
      BY <3>1 DEF WireType
    <3>2. CASE EndRequest(a, IF Head(stdout[c]).kind = "result" THEN Head(stdout[c]).answers
                                                                ELSE NoRequest)
      <4>1. PICK answer : answer = IF Head(stdout[c]).kind = "result" THEN Head(stdout[c]).answers
                                                                      ELSE NoRequest
        OBVIOUS
      <4>2. answer \in Request \cup {NoRequest}
        BY <2>4, <4>1
      <4>3. EndRequest(a, answer)
        BY <3>2, <4>1
      <4>. QED
        BY <2>1, <4>2, <4>3, EndRequestType
    <3>. QED
      BY <1>7, <2>2, <3>1, <3>2 DEF ReadLine
  <2>. QED
    BY <1>7, <2>6, <2>7 DEF ReadLine, WireType
<1>8. ASSUME NEW a \in Actors, ReadEnd(a)
      PROVE  WireType'
  <2>1. request[a] \in Request
    BY <1>8, WaitingHasRequest DEF ReadEnd, Holds, Waiting
  <2>2. EndRequest(a, NoRequest)
    BY <1>8 DEF ReadEnd
  <2>. QED
    BY <1>8, <2>1, <2>2, EndRequestType DEF ReadEnd, WireType
<1>9. ASSUME NEW c \in 1 .. Clients, Respond(c)
      PROVE  WireType'
  <2>1. PICK kind : kind \in {"result", "error"} /\ Serve(c, kind)
    BY <1>9 DEF Respond
  <2>2. Tail(stdin[c]) \in Seq(Request) /\ Head(stdin[c]) \in Request
    BY <2>1, PipeTypes DEF Serve
  <2>3. PICK line : line = Line(kind, Head(stdin[c]))
    OBVIOUS
  <2>4. line \in Printed
    BY <2>1, <2>2, <2>3 DEF Line, Printed
  <2>5. Append(stdout[c], line) \in Seq(Printed)
    BY <2>4, PipeTypes
  <2>. QED
    BY <2>1, <2>2, <2>3, <2>5 DEF Serve, WireType
<1>10. ASSUME NEW c \in 1 .. Clients, NEW kind, kind \in {"notification", "invalid"},
              EmitOther(c, kind)
       PROVE  WireType'
  <2>1. PICK line : line = Line(kind, NoRequest)
    OBVIOUS
  <2>2. line \in Printed
    BY <1>10, <2>1 DEF Line, Printed
  <2>3. Append(stdout[c], line) \in Seq(Printed)
    BY <2>2, PipeTypes
  <2>. QED
    BY <1>10, <2>1, <2>3 DEF EmitOther, WireType
<1>. QED
  BY <1>1, <1>2, <1>3, <1>4, <1>5, <1>6, <1>7, <1>8, <1>9, <1>10, <1>11
     DEF McpNext, CommandLine, Requester

-----------------------------------------------------------------------------
(* The pipes.                                                              *)

\* Steps that number no request, move no other requests through the pipes
\* than those in them, and bring nobody a number.
NoneNumbered ==
  \A b \in Actors :
    request'[b] = request[b] \/ request'[b] = NoRequest \/ request'[b].id = 0
NoneAdded ==
  \A c \in 1 .. Clients :
    /\ lastId[c] <= lastId'[c]
    /\ \A k \in DOMAIN stdin'[c] : \E l \in DOMAIN stdin[c] : stdin'[c][k] = stdin[c][l]
    /\ \A k \in DOMAIN stdout'[c] :
         \/ stdout'[c][k].answers = NoRequest
         \/ \E l \in DOMAIN stdout[c] : stdout'[c][k] = stdout[c][l]
         \/ \E l \in DOMAIN stdin[c] : stdout'[c][k].answers = stdin[c][l]

\* Such steps keep who may be mistaken for whom.
LEMMA PipesKept ==
  ASSUME WireType, WireType', PipeInv, NoneNumbered, NoneAdded
  PROVE  PipeInv'
<1>1. ASSUME NEW c \in 1 .. Clients
      PROVE  lastId[c] \in Nat /\ lastId'[c] \in Nat /\ lastId[c] <= lastId'[c]
  BY DEF WireType, NoneAdded
<1>2. NoRequest.client = 0
  BY DEF NoRequest
<1>3. ASSUME NEW r, NEW c \in 1 .. Clients, Unmistaken(r, c)
      PROVE  /\ r.client = c
             /\ r.id \in 1 .. lastId'[c]
             /\ \A a \in Actors :
                  request'[a].client = c /\ request'[a].id = r.id => request'[a] = r
  <2>1. r.id \in 1 .. lastId'[c] /\ r.id # 0
    BY <1>1, <1>3 DEF Unmistaken
  <2>2. \A a \in Actors : request'[a].client = c /\ request'[a].id = r.id => request'[a] = r
    BY <1>2, <1>3, <2>1 DEF Unmistaken, NoneNumbered
  <2>. QED
    BY <1>3, <2>1, <2>2 DEF Unmistaken
<1>4. ASSUME NEW c \in 1 .. Clients, NEW k \in DOMAIN stdin'[c]
      PROVE  Unmistaken(stdin[c][k], c)'
  <2>1. PICK l \in DOMAIN stdin[c] : stdin'[c][k] = stdin[c][l]
    BY DEF NoneAdded
  <2>2. Unmistaken(stdin[c][l], c)
    BY DEF PipeInv
  <2>. QED
    BY <1>3, <2>1, <2>2 DEF Unmistaken
<1>5. ASSUME NEW c \in 1 .. Clients, NEW k \in DOMAIN stdout'[c],
             stdout'[c][k].answers # NoRequest
      PROVE  Unmistaken(stdout[c][k].answers, c)'
  <2>1. CASE \E l \in DOMAIN stdout[c] : stdout'[c][k] = stdout[c][l]
    <3>1. PICK l \in DOMAIN stdout[c] : stdout'[c][k] = stdout[c][l]
      BY <2>1
    <3>2. Unmistaken(stdout[c][l].answers, c)
      BY <1>5, <3>1 DEF PipeInv
    <3>. QED
      BY <1>3, <3>1, <3>2 DEF Unmistaken
  <2>2. CASE \E l \in DOMAIN stdin[c] : stdout'[c][k].answers = stdin[c][l]
    <3>1. PICK l \in DOMAIN stdin[c] : stdout'[c][k].answers = stdin[c][l]
      BY <2>2
    <3>2. Unmistaken(stdin[c][l], c)
      BY DEF PipeInv
    <3>. QED
      BY <1>3, <3>1, <3>2 DEF Unmistaken
  <2>. QED
    BY <1>5, <2>1, <2>2 DEF NoneAdded
<1>6. ASSUME NEW c \in 1 .. Clients, NEW a \in Actors,
             request'[a].client = c, request'[a].id # 0
      PROVE  request'[a].id <= lastId'[c]
  <2>1. request'[a] = request[a]
    BY <1>2, <1>6 DEF NoneNumbered
  <2>2. request[a].id <= lastId[c] /\ request[a].id \in Nat
    BY <1>6, <2>1, WaitingHasRequest DEF PipeInv, Request
  <2>. QED
    BY <1>1, <2>1, <2>2
<1>. QED
  BY <1>4, <1>5, <1>6 DEF PipeInv

\* A request that ends numbers none.
LEMMA EndNumbersNone ==
  ASSUME WireType, NEW a \in Actors, NEW answer, EndRequest(a, answer)
  PROVE  NoneNumbered
BY DEF EndRequest, NoneNumbered, WireType

\* Neither does one that begins.
LEMMA CallNumbersNone ==
  ASSUME WireType, NEW a \in Actors, NEW c, NEW method, Call(a, c, method)
  PROVE  NoneNumbered
BY DEF Call, NoneNumbered, WireType

\* The elements of a sequence that has grown by one.
LEMMA LastOfAppend ==
  ASSUME NEW S, NEW s \in Seq(S), NEW r \in S, NEW k \in DOMAIN Append(s, r)
  PROVE  Append(s, r)[k] = r \/ (k \in DOMAIN s /\ Append(s, r)[k] = s[k])
<1>1. k \in 1 .. Len(s) + 1 /\ DOMAIN s = 1 .. Len(s) /\ Len(s) \in Nat
  OBVIOUS
<1>2. k = Len(s) + 1 \/ k \in 1 .. Len(s)
  BY <1>1
<1>. QED
  BY <1>1, <1>2

\* A write that numbers a request.
LEMMA WriteKeepsPipes ==
  ASSUME WireType, WireType', PipeInv, NEW a \in Actors, Write(a),
         server[request[a].client] = "up"
  PROVE  PipeInv'
<1>1. request[a] \in Request /\ request[a].client \in 1 .. Clients
  BY WaitingHasRequest DEF Write, Waiting
<1>2. PICK c \in 1 .. Clients : c = request[a].client
  BY <1>1
<1>3. PICK n \in Nat : n = lastId[c]
  BY DEF WireType
<1>4. PICK r \in Request : r = [request[a] EXCEPT !.id = n + 1]
  <2>1. n + 1 \in Nat
    OBVIOUS
  <2>2. PICK m \in Nat : m = n + 1
    BY <2>1
  <2>3. [request[a] EXCEPT !.id = m] \in Request
    BY <1>1 DEF Request
  <2>. QED
    BY <2>2, <2>3
<1>5. r.id = n + 1 /\ r.client = c
  BY <1>1, <1>2, <1>4 DEF Request
<1>6. /\ stdin' = [stdin EXCEPT ![c] = Append(stdin[c], r)]
      /\ request' = [request EXCEPT ![a] = r]
      /\ lastId' = [lastId EXCEPT ![c] = n + 1]
      /\ stdout' = stdout
  BY <1>2, <1>3, <1>4 DEF Write
<1>7. /\ request'[a] = r
      /\ \A b \in Actors : b # a => request'[b] = request[b]
      /\ lastId'[c] = n + 1
      /\ \A d \in 1 .. Clients : d # c => lastId'[d] = lastId[d] /\ stdin'[d] = stdin[d]
      /\ stdin'[c] = Append(stdin[c], r)
  BY <1>6 DEF WireType
<1>8. \A d \in 1 .. Clients : lastId[d] \in Nat
  BY DEF WireType
<1>9. \A b \in Actors : request[b].client = c /\ request[b].id # 0 => request[b].id \in 1 .. n
  BY <1>3, WaitingHasRequest DEF PipeInv, Request
<1>10. ASSUME NEW q, NEW d \in 1 .. Clients, Unmistaken(q, d)
       PROVE  /\ q.client = d
              /\ q.id \in 1 .. lastId'[d]
              /\ \A b \in Actors :
                   request'[b].client = d /\ request'[b].id = q.id => request'[b] = q
  <2>1. CASE d = c
    <3>1. q.client = c /\ q.id \in 1 .. n
      BY <1>3, <1>10, <2>1 DEF Unmistaken
    <3>2. q.id # r.id /\ q.id \in 1 .. lastId'[c]
      BY <1>5, <1>7, <3>1
    <3>. QED
      BY <1>7, <1>10, <2>1, <3>1, <3>2 DEF Unmistaken
  <2>2. CASE d # c
    BY <1>5, <1>7, <1>10, <2>2 DEF Unmistaken
  <2>. QED
    BY <2>1, <2>2
<1>11. /\ r.client = c
       /\ r.id \in 1 .. lastId'[c]
       /\ \A b \in Actors : request'[b].client = c /\ request'[b].id = r.id => request'[b] = r
  <2>1. r.id \in 1 .. lastId'[c]
    BY <1>5, <1>7
  <2>2. n + 1 # 0 /\ n + 1 \notin 1 .. n
    OBVIOUS
  <2>. QED
    BY <1>5, <1>7, <1>9, <2>1, <2>2
<1>12. ASSUME NEW d \in 1 .. Clients, NEW k \in DOMAIN stdin'[d]
       PROVE  Unmistaken(stdin[d][k], d)'
  <2>1. CASE d = c /\ stdin'[d][k] = r
    BY <1>11, <2>1 DEF Unmistaken
  <2>2. CASE k \in DOMAIN stdin[d] /\ stdin'[d][k] = stdin[d][k]
    <3>1. Unmistaken(stdin[d][k], d)
      BY <2>2 DEF PipeInv
    <3>. QED
      BY <1>10, <2>2, <3>1 DEF Unmistaken
  <2>3. CASE d = c
    <3>1. stdin[c] \in Seq(Request)
      BY PipeTypes
    <3>2. k \in DOMAIN Append(stdin[c], r) /\ stdin'[d][k] = Append(stdin[c], r)[k]
      BY <1>7, <2>3
    <3>3. stdin'[d][k] = r \/ (k \in DOMAIN stdin[c] /\ stdin'[d][k] = stdin[c][k])
      BY <3>1, <3>2, LastOfAppend
    <3>. QED
      BY <2>1, <2>2, <2>3, <3>3
  <2>4. CASE d # c
    <3>1. stdin'[d] = stdin[d]
      BY <1>7, <2>4
    <3>. QED
      BY <2>2, <3>1
  <2>. QED
    BY <2>3, <2>4
<1>13. ASSUME NEW d \in 1 .. Clients, NEW k \in DOMAIN stdout'[d],
              stdout'[d][k].answers # NoRequest
       PROVE  Unmistaken(stdout[d][k].answers, d)'
  <2>1. Unmistaken(stdout[d][k].answers, d)
    BY <1>6, <1>13 DEF PipeInv
  <2>. QED
    BY <1>6, <1>10, <2>1 DEF Unmistaken
<1>14. ASSUME NEW d \in 1 .. Clients, NEW b \in Actors,
              request'[b].client = d, request'[b].id # 0
       PROVE  request'[b].id <= lastId'[d]
  <2>1. CASE b = a
    BY <1>5, <1>7, <1>14, <2>1
  <2>2. CASE b # a
    <3>1. request[b].id <= lastId[d] /\ request[b].id \in Nat
      BY <1>7, <1>14, <2>2, WaitingHasRequest DEF PipeInv, Request
    <3>. QED
      BY <1>3, <1>7, <1>8, <2>2, <3>1
  <2>. QED
    BY <2>1, <2>2
<1>. QED
  BY <1>12, <1>13, <1>14 DEF PipeInv

\* The elements of the rest of a sequence.
LEMMA TailOf ==
  ASSUME NEW S, NEW s \in Seq(S), s # <<>>, NEW k \in DOMAIN Tail(s)
  PROVE  \E l \in DOMAIN s : Tail(s)[k] = s[l]
<1>1. /\ Len(s) \in Nat /\ DOMAIN s = 1 .. Len(s)
      /\ Len(Tail(s)) = Len(s) - 1 /\ DOMAIN Tail(s) = 1 .. Len(Tail(s))
  OBVIOUS
<1>2. k + 1 \in DOMAIN s /\ Tail(s)[k] = s[k + 1]
  BY <1>1
<1>. QED
  BY <1>2

\* Steps that leave the pipes alone add nothing to them.
LEMMA NothingAdded ==
  ASSUME WireType, UNCHANGED <<lastId, stdin, stdout>>
  PROVE  NoneAdded
<1>1. \A c \in 1 .. Clients : lastId[c] \in Nat
  BY DEF WireType
<1>. QED
  BY <1>1 DEF NoneAdded

\* The lines of a server that has printed one more.
LEMMA Grown ==
  ASSUME WireType, NEW c \in 1 .. Clients, NEW line,
         NEW k \in DOMAIN Append(stdout[c], line)
  PROVE  \/ Append(stdout[c], line)[k] = line
         \/ k \in DOMAIN stdout[c] /\ Append(stdout[c], line)[k] = stdout[c][k]
<1>1. PICK s : s = stdout[c] /\ s \in Seq(Printed \cup {line})
  BY PipeTypes
<1>2. Append(s, line)[k] = line \/ (k \in DOMAIN s /\ Append(s, line)[k] = s[k])
  BY <1>1, LastOfAppend
<1>. QED
  BY <1>1, <1>2

\* Every step of the clients keeps the requests in the pipes apart.
LEMMA PipeStep ==
  ASSUME WireType, WireType', PipeInv, McpNext
  PROVE  PipeInv'
<1>0. Main \in Actors
  BY DEF Actors
<1>1. CASE StartClient
  <2>1. NoneNumbered
    BY <1>0, <1>1, CallNumbersNone DEF StartClient
  <2>2. NoneAdded
    BY <1>1, NothingAdded DEF StartClient
  <2>. QED
    BY <2>1, <2>2, PipesKept
<1>2. CASE ListTools
  <2>1. NoneNumbered
    BY <1>0, <1>2, CallNumbersNone DEF ListTools
  <2>2. NoneAdded
    BY <1>2, NothingAdded DEF ListTools
  <2>. QED
    BY <2>1, <2>2, PipesKept
<1>3. CASE StartFails \/ NextClient \/ EndRun \/ EndSession
  <2>1. UNCHANGED <<request, lastId, stdin, stdout>>
    BY <1>3 DEF StartFails, NextClient, EndRun, EndSession
  <2>2. NoneNumbered
    BY <2>1 DEF NoneNumbered
  <2>. QED
    BY <2>1, <2>2, NothingAdded, PipesKept
<1>4. ASSUME NEW c \in 1 .. Clients, StopClient(c) \/ Exit(c)
      PROVE  PipeInv'
  <2>1. UNCHANGED <<request, lastId, stdin, stdout>>
    BY <1>4 DEF StopClient, Exit
  <2>2. NoneNumbered
    BY <2>1 DEF NoneNumbered
  <2>. QED
    BY <2>1, <2>2, NothingAdded, PipesKept
<1>5. ASSUME NEW t \in Threads, NEW c \in 1 .. Clients, CallTool(t, c)
      PROVE  PipeInv'
  <2>1. NoneNumbered
    BY <1>5, CallNumbersNone DEF CallTool, Actors
  <2>2. NoneAdded
    BY <1>5, NothingAdded DEF CallTool
  <2>. QED
    BY <2>1, <2>2, PipesKept
<1>6. ASSUME NEW a \in Actors, Write(a)
      PROVE  PipeInv'
  <2>1. CASE server[request[a].client] = "up"
    BY <1>6, <2>1, WriteKeepsPipes
  <2>2. CASE server[request[a].client] # "up"
    <3>1. EndRequest(a, NoRequest) /\ UNCHANGED <<stdin, stdout>>
      BY <1>6, <2>2 DEF Write
    <3>2. PICK c \in 1 .. Clients : c = request[a].client
      BY <1>6, WaitingHasRequest DEF Write, Waiting
    <3>3. lastId' = [lastId EXCEPT ![c] = lastId[c] + 1]
      BY <1>6, <3>2 DEF Write
    <3>4. NoneNumbered
      BY <3>1, EndNumbersNone
    <3>5. \A d \in 1 .. Clients : lastId[d] <= lastId'[d]
      BY <3>3 DEF WireType
    <3>6. NoneAdded
      BY <3>1, <3>5 DEF NoneAdded
    <3>. QED
      BY <3>4, <3>6, PipesKept
  <2>. QED
    BY <2>1, <2>2
<1>7. ASSUME NEW a \in Actors, ReadLine(a)
      PROVE  PipeInv'
  <2>1. PICK c \in 1 .. Clients : c = request[a].client
    BY <1>7, WaitingHasRequest DEF ReadLine, Holds, Waiting
  <2>2. stdout[c] # <<>> /\ stdout' = [stdout EXCEPT ![c] = Tail(stdout[c])]
    BY <1>7, <2>1 DEF ReadLine
  <2>3. UNCHANGED <<lastId, stdin>>
    BY <1>7 DEF ReadLine
  <2>4. NoneNumbered
    <3>1. CASE UNCHANGED request
      BY <3>1 DEF NoneNumbered
    <3>2. ASSUME NEW answer, EndRequest(a, answer)
          PROVE  NoneNumbered
      BY <3>2, EndNumbersNone
    <3>. QED
      BY <1>7, <3>1, <3>2 DEF ReadLine
  <2>5. \A d \in 1 .. Clients : lastId[d] <= lastId'[d]
    BY <2>3 DEF WireType
  <2>6. ASSUME NEW d \in 1 .. Clients, NEW k \in DOMAIN stdout'[d]
        PROVE  \E l \in DOMAIN stdout[d] : stdout'[d][k] = stdout[d][l]
    <3>1. CASE d = c
      <4>1. stdout'[d] = Tail(stdout[c]) /\ stdout[c] \in Seq(Printed)
        BY <2>2, <3>1, PipeTypes DEF WireType
      <4>. QED
        BY <2>2, <3>1, <4>1, TailOf
    <3>2. CASE d # c
      <4>1. stdout'[d] = stdout[d]
        BY <2>2, <3>2 DEF WireType
      <4>. QED
        BY <4>1
    <3>. QED
      BY <3>1, <3>2
  <2>7. NoneAdded
    BY <2>3, <2>5, <2>6 DEF NoneAdded
  <2>. QED
    BY <2>4, <2>7, PipesKept
<1>8. ASSUME NEW a \in Actors, ReadEnd(a)
      PROVE  PipeInv'
  <2>1. NoneNumbered
    BY <1>8, EndNumbersNone DEF ReadEnd
  <2>2. NoneAdded
    BY <1>8, NothingAdded DEF ReadEnd
  <2>. QED
    BY <2>1, <2>2, PipesKept
<1>9. ASSUME NEW c \in 1 .. Clients, Respond(c)
      PROVE  PipeInv'
  <2>1. PICK kind : Serve(c, kind)
    BY <1>9 DEF Respond
  <2>2. /\ UNCHANGED <<request, lastId>>
        /\ stdin[c] # <<>>
        /\ stdin' = [stdin EXCEPT ![c] = Tail(stdin[c])]
        /\ stdout' = [stdout EXCEPT ![c] = Append(stdout[c], Line(kind, Head(stdin[c])))]
    BY <2>1 DEF Serve
  <2>3. PICK line : line = Line(kind, Head(stdin[c]))
    OBVIOUS
  <2>4. line.answers = stdin[c][1] /\ 1 \in DOMAIN stdin[c]
    BY <2>2, <2>3, PipeTypes DEF Line
  <2>5. \A d \in 1 .. Clients : lastId[d] <= lastId'[d]
    <3>1. \A d \in 1 .. Clients : lastId[d] \in Nat
      BY DEF WireType
    <3>. QED
      BY <2>2, <3>1
  <2>6. ASSUME NEW d \in 1 .. Clients, NEW k \in DOMAIN stdin'[d]
        PROVE  \E l \in DOMAIN stdin[d] : stdin'[d][k] = stdin[d][l]
    <3>1. CASE d = c
      <4>1. stdin'[d] = Tail(stdin[c]) /\ stdin[c] \in Seq(Request)
        BY <2>2, <3>1, PipeTypes DEF WireType
      <4>. QED
        BY <2>2, <3>1, <4>1, TailOf
    <3>2. CASE d # c
      <4>1. stdin'[d] = stdin[d]
        BY <2>2, <3>2 DEF WireType
      <4>. QED
        BY <4>1
    <3>. QED
      BY <3>1, <3>2
  <2>7. ASSUME NEW d \in 1 .. Clients, NEW k \in DOMAIN stdout'[d]
        PROVE  \/ \E l \in DOMAIN stdout[d] : stdout'[d][k] = stdout[d][l]
               \/ \E l \in DOMAIN stdin[d] : stdout'[d][k].answers = stdin[d][l]
    <3>1. CASE d = c
      <4>1. stdout'[d] = Append(stdout[c], line)
        BY <2>2, <2>3, <3>1 DEF WireType
      <4>2. stdout'[c][k] = line \/ (k \in DOMAIN stdout[c] /\ stdout'[c][k] = stdout[c][k])
        BY <3>1, <4>1, Grown
      <4>. QED
        BY <2>4, <3>1, <4>2
    <3>2. CASE d # c
      <4>1. stdout'[d] = stdout[d]
        BY <2>2, <3>2 DEF WireType
      <4>. QED
        BY <4>1
    <3>. QED
      BY <3>1, <3>2
  <2>8. NoneAdded
    BY <2>5, <2>6, <2>7 DEF NoneAdded
  <2>9. NoneNumbered
    BY <2>2 DEF NoneNumbered
  <2>. QED
    BY <2>8, <2>9, PipesKept
<1>10. ASSUME NEW c \in 1 .. Clients, NEW kind, EmitOther(c, kind)
       PROVE  PipeInv'
  <2>1. /\ UNCHANGED <<request, lastId, stdin>>
        /\ stdout' = [stdout EXCEPT ![c] = Append(stdout[c], Line(kind, NoRequest))]
    BY <1>10 DEF EmitOther
  <2>2. PICK line : line = Line(kind, NoRequest)
    OBVIOUS
  <2>3. line.answers = NoRequest
    BY <2>2 DEF Line
  <2>4. \A d \in 1 .. Clients : lastId[d] <= lastId'[d]
    BY <2>1 DEF WireType
  <2>5. ASSUME NEW d \in 1 .. Clients, NEW k \in DOMAIN stdout'[d]
        PROVE  \/ stdout'[d][k].answers = NoRequest
               \/ \E l \in DOMAIN stdout[d] : stdout'[d][k] = stdout[d][l]
    <3>1. CASE d = c
      <4>1. stdout'[d] = Append(stdout[c], line)
        BY <2>1, <2>2, <3>1 DEF WireType
      <4>2. stdout'[c][k] = line \/ (k \in DOMAIN stdout[c] /\ stdout'[c][k] = stdout[c][k])
        BY <3>1, <4>1, Grown
      <4>. QED
        BY <2>3, <3>1, <4>2
    <3>2. CASE d # c
      <4>1. stdout'[d] = stdout[d]
        BY <2>1, <3>2 DEF WireType
      <4>. QED
        BY <4>1
    <3>. QED
      BY <3>1, <3>2
  <2>6. NoneAdded
    BY <2>1, <2>4, <2>5 DEF NoneAdded
  <2>7. NoneNumbered
    BY <2>1 DEF NoneNumbered
  <2>. QED
    BY <2>6, <2>7, PipesKept
<1>. QED
  BY <1>1, <1>2, <1>3, <1>4, <1>5, <1>6, <1>7, <1>8, <1>9, <1>10
     DEF McpNext, CommandLine, Requester

-----------------------------------------------------------------------------
(* The order in which main attaches the clients.                           *)

\* The end of a request of main takes it one request further, or ends the
\* attaching.
LEMMA AttachEnds ==
  ASSUME WireType, AttachInv, NEW a \in Actors, request[a] \in Request,
         NEW answer, EndRequest(a, answer), UNCHANGED <<at, started>>
  PROVE  AttachInv'
<1>0. Main \in Actors /\ request[a] # NoRequest
  BY RequestIsOne DEF Actors
<1>1. CASE a # Main
  <2>1. UNCHANGED <<stage, ready>> /\ request'[Main] = request[Main]
    BY <1>0, <1>1 DEF EndRequest, AfterFailure, WireType
  <2>. QED
    BY <2>1 DEF AttachInv
<1>2. CASE a = Main
  <2>1. request'[Main] = NoRequest /\ stage = "attach" /\ request[Main].client = at
        /\ at \in 1 .. Clients
    BY <1>0, <1>2, RequestIsOne DEF EndRequest, AttachInv, WireType
  <2>2. CASE answer = NoRequest
    BY <1>2, <2>1, <2>2 DEF EndRequest, AfterFailure, AttachInv
  <2>3. CASE answer # NoRequest
    <3>1. stage' = "attach" /\ UNCHANGED <<at, started>>
      BY <2>1, <2>3 DEF EndRequest
    <3>2. /\ ready'[at] = ready[at] \cup {request[Main].method}
          /\ \A c \in 1 .. Clients : c # at => ready'[c] = ready[c]
      BY <1>2, <2>1, <2>3 DEF EndRequest, WireType
    <3>3. "initialize" \in ready'[at] /\ started[at]
      BY <1>0, <1>2, <3>2 DEF AttachInv
    <3>. QED
      BY <2>1, <3>1, <3>2, <3>3 DEF AttachInv, WireType
  <2>. QED
    BY <2>2, <2>3
<1>. QED
  BY <1>1, <1>2

\* Every step of the clients keeps the order.
LEMMA AttachStep ==
  ASSUME WireType, WireType', AttachInv, McpNext
  PROVE  AttachInv'
<1>0. Main \in Actors /\ Main \notin Threads /\ Clients \in Nat
  BY ToolProcessesAssumption DEF Actors
<1>1. CASE StartClient
  <2>1. request' = [request EXCEPT ![Main] =
                      [client |-> at, actor |-> Main, id |-> 0, method |-> "initialize"]]
    BY <1>1 DEF StartClient, Call
  <2>2. request'[Main].client = at /\ request'[Main].method = "initialize"
    BY <1>0, <2>1 DEF WireType
  <2>3. at \in 1 .. Clients
    BY <1>0, <1>1 DEF StartClient, WireType
  <2>4. request'[Main] # NoRequest
    BY <2>2, <2>3 DEF NoRequest
  <2>5. started'[at] /\ \A c \in 1 .. Clients : c # at => started'[c] = started[c]
    BY <1>1, <2>3 DEF StartClient, WireType
  <2>. QED
    BY <1>1, <2>2, <2>3, <2>4, <2>5 DEF StartClient, AttachInv, WireType
<1>2. CASE StartFails
  BY <1>2 DEF StartFails, AfterFailure, AttachInv
<1>3. CASE ListTools
  <2>1. request' = [request EXCEPT ![Main] =
                      [client |-> at, actor |-> Main, id |-> 0, method |-> "tools/list"]]
    BY <1>3 DEF ListTools, Call
  <2>2. request'[Main].client = at /\ request'[Main].method = "tools/list"
    BY <1>0, <2>1 DEF WireType
  <2>3. at \in 1 .. Clients
    BY <1>0, <1>3 DEF ListTools, WireType
  <2>4. request'[Main] # NoRequest
    BY <2>2, <2>3 DEF NoRequest
  <2>5. ready[at] = {"initialize"}
    <3>1. "initialize" \in ready[at] /\ "tools/list" \notin ready[at]
      BY <1>3, <2>3 DEF ListTools, AttachInv
    <3>. QED
      BY <2>3, <3>1 DEF WireType, Full
  <2>. QED
    BY <1>3, <2>2, <2>3, <2>4, <2>5 DEF ListTools, AttachInv
<1>4. CASE NextClient
  <2>1. at \in 1 .. Clients /\ "tools/list" \in ready[at]
    BY <1>0, <1>4 DEF NextClient, WireType
  <2>2. started[at]
    BY <1>4, <2>1 DEF NextClient, AttachInv
  <2>3. request[Main] = NoRequest
    BY <1>4, <2>1 DEF NextClient, AttachInv
  <2>4. ready[at] = Full
    <3>1. "initialize" \in ready[at]
      BY <1>4, <2>1, <2>2, <2>3 DEF NextClient, AttachInv
    <3>. QED
      BY <2>1, <3>1 DEF WireType, Full
  <2>5. /\ at' = at + 1 /\ UNCHANGED <<started, request, ready>>
        /\ stage = "attach"
        /\ stage' = IF at = Clients THEN "running" ELSE "attach"
    BY <1>4 DEF NextClient
  <2>6. \A c \in 1 .. Clients :
          /\ c > at => ~started[c]
          /\ ~started[c] => ready[c] = {}
          /\ c <= at => ready[c] = Full
    BY <2>1, <2>4, <2>5 DEF AttachInv
  <2>7. CASE at = Clients
    <3>1. \A c \in 1 .. Clients : c <= at
      BY <1>0, <2>7
    <3>. QED
      BY <2>3, <2>5, <2>6, <2>7, <3>1 DEF AttachInv
  <2>8. CASE at # Clients
    <3>1. \A c \in 1 .. Clients : (c > at + 1 => c > at) /\ (c < at + 1 => c <= at)
                                 /\ (c = at + 1 => c > at)
      BY <2>1
    <3>. QED
      BY <2>3, <2>5, <2>6, <2>8, <3>1 DEF AttachInv
  <2>. QED
    BY <2>7, <2>8
<1>5. CASE EndRun \/ EndSession
  BY <1>5 DEF EndRun, EndSession, AttachInv
<1>6. ASSUME NEW c \in 1 .. Clients, StopClient(c)
      PROVE  AttachInv'
  BY <1>6 DEF StopClient, AttachInv
<1>7. ASSUME NEW c \in 1 .. Clients, Exit(c) \/ Respond(c)
      PROVE  AttachInv'
  BY <1>7 DEF Exit, Respond, Serve, AttachInv
<1>8. ASSUME NEW c \in 1 .. Clients, NEW kind, EmitOther(c, kind)
      PROVE  AttachInv'
  BY <1>8 DEF EmitOther, AttachInv
<1>9. ASSUME NEW t \in Threads, NEW c \in 1 .. Clients, CallTool(t, c)
      PROVE  AttachInv'
  <2>1. request'[Main] = request[Main]
    BY <1>0, <1>9 DEF CallTool, Call, WireType
  <2>. QED
    BY <1>9, <2>1 DEF CallTool, AttachInv
<1>10. ASSUME NEW a \in Actors, Write(a)
       PROVE  AttachInv'
  <2>1. request[a] \in Request /\ UNCHANGED <<at, started>>
    BY <1>10, WaitingHasRequest DEF Write, Waiting
  <2>2. CASE server[request[a].client] = "up"
    <3>1. PICK n : n = lastId[request[a].client] + 1
      OBVIOUS
    <3>2. request' = [request EXCEPT ![a] = [request[a] EXCEPT !.id = n]]
      BY <1>10, <2>2, <3>1 DEF Write
    <3>3. UNCHANGED <<stage, ready>>
      BY <1>10, <2>2 DEF Write
    <3>4. /\ request'[Main].client = request[Main].client
          /\ request'[Main].method = request[Main].method
          /\ request'[Main] # NoRequest => request[Main] # NoRequest
          /\ request[Main] # NoRequest => request'[Main] # NoRequest
      <4>1. CASE a = Main
        <5>1. /\ request'[Main] = [request[a] EXCEPT !.id = n]
              /\ request[a].client # 0
          BY <1>0, <2>1, <3>2, <4>1, RequestIsOne DEF WireType
        <5>2. /\ request'[Main].client = request[Main].client
              /\ request'[Main].method = request[Main].method
          BY <2>1, <4>1, <5>1 DEF Request
        <5>. QED
          BY <2>1, <4>1, <5>1, <5>2, RequestIsOne DEF NoRequest
      <4>2. CASE a # Main
        BY <1>0, <3>2, <4>2 DEF WireType
      <4>. QED
        BY <4>1, <4>2
    <3>. QED
      BY <2>1, <3>3, <3>4 DEF AttachInv
  <2>3. CASE server[request[a].client] # "up"
    BY <1>10, <2>1, <2>3, AttachEnds DEF Write
  <2>. QED
    BY <2>2, <2>3
<1>11. ASSUME NEW a \in Actors, ReadLine(a)
       PROVE  AttachInv'
  <2>1. request[a] \in Request /\ UNCHANGED <<at, started>>
    BY <1>11, WaitingHasRequest DEF ReadLine, Holds, Waiting
  <2>2. CASE UNCHANGED <<lock, request, got, stage, ready>>
    BY <2>1, <2>2 DEF AttachInv
  <2>3. ASSUME NEW answer, EndRequest(a, answer)
        PROVE  AttachInv'
    BY <2>1, <2>3, AttachEnds
  <2>. QED
    BY <1>11, <2>2, <2>3 DEF ReadLine
<1>12. ASSUME NEW a \in Actors, ReadEnd(a)
       PROVE  AttachInv'
  <2>1. request[a] \in Request /\ UNCHANGED <<at, started>>
    BY <1>12, WaitingHasRequest DEF ReadEnd, Holds, Waiting
  <2>. QED
    BY <1>12, <2>1, AttachEnds DEF ReadEnd
<1>. QED
  BY <1>1, <1>2, <1>3, <1>4, <1>5, <1>6, <1>7, <1>8, <1>9, <1>10, <1>11, <1>12
     DEF McpNext, CommandLine, Requester

-----------------------------------------------------------------------------
(* What is stopped, called and answered.                                   *)

\* While main waits the command line attaches, so that no end of a request
\* changes its stage but then.
LEMMA EndedInTime ==
  ASSUME WireType, AttachInv, NEW a \in Actors, request[a] \in Request,
         NEW answer, EndRequest(a, answer)
  PROVE  stage' = stage \/ (stage = "attach" /\ stage' = "stopping")
<1>1. request[a] # NoRequest
  BY RequestIsOne
<1>. QED
  BY <1>1 DEF EndRequest, AfterFailure, AttachInv

\* Every step keeps the processes with those that stop them.
LEMMA StopStep ==
  ASSUME WireType, AttachInv, StopInv, McpNext
  PROVE  StopInv'
<1>1. CASE StartClient
  BY <1>1 DEF StartClient, StopInv, WireType
<1>2. CASE StartFails \/ ListTools \/ NextClient \/ EndRun
  BY <1>2 DEF StartFails, ListTools, NextClient, EndRun, AfterFailure, StopInv
<1>3. CASE EndSession
  BY <1>3 DEF EndSession, ToStop, StopInv
<1>4. ASSUME NEW c \in 1 .. Clients, StopClient(c)
      PROVE  StopInv'
  BY <1>4 DEF StopClient, StopInv, WireType
<1>5. ASSUME NEW c \in 1 .. Clients, Exit(c)
      PROVE  StopInv'
  BY <1>5 DEF Exit, StopInv, WireType
<1>6. ASSUME NEW c \in 1 .. Clients, Respond(c)
      PROVE  StopInv'
  BY <1>6 DEF Respond, Serve, StopInv
<1>7. ASSUME NEW c \in 1 .. Clients, NEW kind, EmitOther(c, kind)
      PROVE  StopInv'
  BY <1>7 DEF EmitOther, StopInv
<1>8. ASSUME NEW t \in Threads, NEW c \in 1 .. Clients, CallTool(t, c)
      PROVE  StopInv'
  BY <1>8 DEF CallTool, StopInv
<1>9. ASSUME NEW a \in Actors, Requester(a)
      PROVE  StopInv'
  <2>1. request[a] \in Request /\ UNCHANGED <<started, server>>
    BY <1>9, WaitingHasRequest DEF Requester, Write, ReadLine, ReadEnd, Holds, Waiting
  <2>2. UNCHANGED stage \/ \E answer : EndRequest(a, answer)
    BY <1>9 DEF Requester, Write, ReadLine, ReadEnd
  <2>3. stage' = stage \/ stage' = "stopping"
    BY <2>1, <2>2, EndedInTime
  <2>. QED
    BY <2>1, <2>3 DEF StopInv
<1>. QED
  BY <1>1, <1>2, <1>3, <1>4, <1>5, <1>6, <1>7, <1>8, <1>9 DEF McpNext, CommandLine

\* What is answered stays answered.
LEMMA ReadyGrows ==
  ASSUME WireType, WireType', McpNext
  PROVE  \A c \in 1 .. Clients : ready[c] = Full => ready'[c] = Full
<1>1. CASE UNCHANGED ready
  BY <1>1
<1>2. ASSUME NEW a \in Actors, NEW answer, request[a] \in Request, EndRequest(a, answer)
      PROVE  \A c \in 1 .. Clients : ready[c] \subseteq ready'[c]
  BY <1>2 DEF EndRequest, WireType
<1>3. UNCHANGED ready \/
        \E a \in Actors : \E answer : request[a] \in Request /\ EndRequest(a, answer)
  <2>1. CASE \E a \in Actors : Requester(a)
    <3>1. PICK a \in Actors : Requester(a)
      BY <2>1
    <3>2. request[a] \in Request
      BY <3>1, WaitingHasRequest DEF Requester, Write, ReadLine, ReadEnd, Holds, Waiting
    <3>. QED
      BY <3>1, <3>2 DEF Requester, Write, ReadLine, ReadEnd
  <2>2. CASE CommandLine
    BY <2>2 DEF CommandLine, StartClient, StartFails, ListTools, NextClient, EndRun,
                EndSession, StopClient
  <2>3. CASE \E t \in Threads, c \in 1 .. Clients : CallTool(t, c)
    BY <2>3 DEF CallTool
  <2>4. CASE \E c \in 1 .. Clients :
               Respond(c) \/ Exit(c) \/ \E kind \in {"notification", "invalid"} : EmitOther(c, kind)
    BY <2>4 DEF Respond, Serve, Exit, EmitOther
  <2>. QED
    BY <2>1, <2>2, <2>3, <2>4 DEF McpNext
<1>. QED
  BY <1>1, <1>2, <1>3 DEF WireType

\* A step that begins no call of a tool brings none to a server.
LEMMA CallsKept ==
  ASSUME WireType, WireType', CallInv, McpNext, NEW r \in Request, CalledWhenReady(r)
  PROVE  CalledWhenReady(r)'
BY RequestIsOne, ReadyGrows DEF CalledWhenReady

\* Every step keeps the calls of tools to attached servers.
LEMMA CallStep ==
  ASSUME WireType, WireType', AttachInv, CallInv, run \subseteq Request, McpNext
  PROVE  CallInv' /\ run' \subseteq Request
<1>0. Main \in Actors /\ Threads \subseteq Actors
  BY DEF Actors
<1>1. ASSUME \A a \in Actors : request'[a] = NoRequest \/ CalledWhenReady(request'[a]),
             \A c \in 1 .. Clients : \A k \in DOMAIN stdin'[c] :
               stdin'[c][k] \in Request /\ CalledWhenReady(stdin'[c][k]),
             \A q \in run' : q \in Request /\ CalledWhenReady(q)
      PROVE  CallInv' /\ run' \subseteq Request
  <2>1. ASSUME NEW a \in Actors, request'[a] # NoRequest
        PROVE  CalledWhenReady(request[a])'
    <3>1. PICK q \in Request : q = request'[a]
      BY <2>1 DEF WireType
    <3>. QED
      BY <1>1, <2>1, <3>1, CallsKept DEF CalledWhenReady
  <2>2. ASSUME NEW c \in 1 .. Clients, NEW k \in DOMAIN stdin'[c]
        PROVE  CalledWhenReady(stdin[c][k])'
    <3>1. PICK q \in Request : q = stdin'[c][k]
      BY <1>1
    <3>. QED
      BY <1>1, <3>1, CallsKept DEF CalledWhenReady
  <2>3. ASSUME NEW q \in run'
        PROVE  CalledWhenReady(q)'
    BY <1>1, CallsKept
  <2>. QED
    BY <1>1, <2>1, <2>2, <2>3 DEF CallInv
<1>2. \A c \in 1 .. Clients : \A k \in DOMAIN stdin[c] :
        stdin[c][k] \in Request /\ CalledWhenReady(stdin[c][k])
  BY PipeTypes DEF CallInv
<1>3. \A a \in Actors : request[a] = NoRequest \/ CalledWhenReady(request[a])
  BY DEF CallInv
<1>4. \A q \in run : q \in Request /\ CalledWhenReady(q)
  BY DEF CallInv
<1>5. ASSUME NEW a \in Actors, NEW c \in 1 .. Clients, NEW method, Call(a, c, method),
             method = "tools/call" => ready[c] = Full
      PROVE  \A b \in Actors : request'[b] = NoRequest \/ CalledWhenReady(request'[b])
  <2>1. request'[a] = [client |-> c, actor |-> a, id |-> 0, method |-> method]
        /\ \A b \in Actors : b # a => request'[b] = request[b]
    BY <1>5 DEF Call, WireType
  <2>. QED
    BY <1>3, <1>5, <2>1 DEF CalledWhenReady
<1>6. CASE StartClient \/ ListTools
  <2>1. at \in 1 .. Clients
    BY <1>6, ToolProcessesAssumption DEF StartClient, ListTools, WireType
  <2>2. \A b \in Actors : request'[b] = NoRequest \/ CalledWhenReady(request'[b])
    BY <1>0, <1>5, <1>6, <2>1 DEF StartClient, ListTools
  <2>3. UNCHANGED <<stdin, run>>
    BY <1>6 DEF StartClient, ListTools
  <2>. QED
    BY <1>1, <1>2, <1>4, <2>2, <2>3
<1>7. CASE StartFails \/ NextClient \/ EndRun \/ EndSession
  <2>1. UNCHANGED <<request, stdin, run>>
    BY <1>7 DEF StartFails, NextClient, EndRun, EndSession
  <2>. QED
    BY <1>1, <1>2, <1>3, <1>4, <2>1
<1>8. ASSUME NEW c \in 1 .. Clients, NEW kind, StopClient(c) \/ Exit(c) \/ EmitOther(c, kind)
      PROVE  CallInv' /\ run' \subseteq Request
  <2>1. UNCHANGED <<request, stdin, run>>
    BY <1>8 DEF StopClient, Exit, EmitOther
  <2>. QED
    BY <1>1, <1>2, <1>3, <1>4, <2>1
<1>9. ASSUME NEW t \in Threads, NEW c \in 1 .. Clients, CallTool(t, c)
      PROVE  CallInv' /\ run' \subseteq Request
  <2>1. ready[c] = Full /\ Call(t, c, "tools/call") /\ UNCHANGED <<stdin, run>>
    BY <1>9 DEF CallTool, AttachInv
  <2>2. \A b \in Actors : request'[b] = NoRequest \/ CalledWhenReady(request'[b])
    BY <1>0, <1>5, <2>1
  <2>. QED
    BY <1>1, <1>2, <1>4, <2>1, <2>2
<1>10. ASSUME NEW a \in Actors, NEW answer, EndRequest(a, answer)
       PROVE  \A b \in Actors : request'[b] = NoRequest \/ CalledWhenReady(request'[b])
  <2>1. \A b \in Actors : request'[b] = NoRequest \/ request'[b] = request[b]
    BY <1>10 DEF EndRequest, WireType
  <2>. QED
    BY <1>3, <2>1
<1>11. ASSUME NEW a \in Actors, ReadLine(a) \/ ReadEnd(a)
       PROVE  CallInv' /\ run' \subseteq Request
  <2>1. UNCHANGED <<stdin, run>>
    BY <1>11 DEF ReadLine, ReadEnd
  <2>2. UNCHANGED request \/ \E answer : EndRequest(a, answer)
    BY <1>11 DEF ReadLine, ReadEnd
  <2>3. \A b \in Actors : request'[b] = NoRequest \/ CalledWhenReady(request'[b])
    BY <1>3, <1>10, <2>2
  <2>. QED
    BY <1>1, <1>2, <1>4, <2>1, <2>3
<1>12. ASSUME NEW a \in Actors, Write(a)
       PROVE  CallInv' /\ run' \subseteq Request
  <2>1. UNCHANGED run
    BY <1>12 DEF Write
  <2>2. CASE server[request[a].client] # "up"
    <3>1. EndRequest(a, NoRequest) /\ UNCHANGED stdin
      BY <1>12, <2>2 DEF Write
    <3>. QED
      BY <1>1, <1>2, <1>4, <1>10, <2>1, <3>1
  <2>3. CASE server[request[a].client] = "up"
    <3>1. request[a] \in Request /\ request[a].client \in 1 .. Clients
          /\ CalledWhenReady(request[a])
      BY <1>3, <1>12, WaitingHasRequest DEF Write, Waiting
    <3>2. PICK c \in 1 .. Clients : c = request[a].client
      BY <3>1
    <3>3. PICK r : r = [request[a] EXCEPT !.id = lastId[c] + 1]
      OBVIOUS
    <3>4. CalledWhenReady(r)
      <4>1. r.client = request[a].client /\ r.method = request[a].method
        BY <3>1, <3>3 DEF Request
      <4>. QED
        BY <3>1, <4>1 DEF CalledWhenReady
    <3>5. /\ stdin' = [stdin EXCEPT ![c] = Append(stdin[c], r)]
          /\ request' = [request EXCEPT ![a] = r]
      BY <1>12, <2>3, <3>2, <3>3 DEF Write
    <3>6. \A b \in Actors : request'[b] = NoRequest \/ CalledWhenReady(request'[b])
      <4>1. \A b \in Actors : request'[b] = r \/ request'[b] = request[b]
        BY <3>5 DEF WireType
      <4>. QED
        BY <1>3, <3>4, <4>1
    <3>7. r \in Request
      BY <1>0, <3>5 DEF WireType, Actors, NoRequest, Request
    <3>8. ASSUME NEW d \in 1 .. Clients, NEW k \in DOMAIN stdin'[d]
          PROVE  stdin'[d][k] \in Request /\ CalledWhenReady(stdin'[d][k])
      <4>1. CASE d = c
        <5>1. stdin'[d] = Append(stdin[c], r) /\ stdin[c] \in Seq(Request)
          BY <3>5, <4>1, PipeTypes DEF WireType
        <5>2. stdin'[d][k] = r \/ (k \in DOMAIN stdin[c] /\ stdin'[d][k] = stdin[c][k])
          BY <3>7, <5>1, LastOfAppend
        <5>. QED
          BY <1>2, <3>4, <3>7, <5>2
      <4>2. CASE d # c
        <5>1. stdin'[d] = stdin[d]
          BY <3>5, <4>2 DEF WireType
        <5>. QED
          BY <1>2, <5>1
      <4>. QED
        BY <4>1, <4>2
    <3>. QED
      BY <1>1, <1>4, <2>1, <3>6, <3>8
  <2>. QED
    BY <2>2, <2>3
<1>13. ASSUME NEW c \in 1 .. Clients, Respond(c)
       PROVE  CallInv' /\ run' \subseteq Request
  <2>1. PICK kind : Serve(c, kind)
    BY <1>13 DEF Respond
  <2>2. /\ UNCHANGED request
        /\ stdin[c] # <<>>
        /\ stdin' = [stdin EXCEPT ![c] = Tail(stdin[c])]
        /\ run' \subseteq run \cup {Head(stdin[c])}
    BY <2>1 DEF Serve
  <2>3. Head(stdin[c]) = stdin[c][1] /\ 1 \in DOMAIN stdin[c]
    BY <2>2, PipeTypes
  <2>4. \A q \in run' : q \in Request /\ CalledWhenReady(q)
    BY <1>2, <1>4, <2>2, <2>3
  <2>5. ASSUME NEW d \in 1 .. Clients, NEW k \in DOMAIN stdin'[d]
        PROVE  \E l \in DOMAIN stdin[d] : stdin'[d][k] = stdin[d][l]
    <3>1. CASE d = c
      <4>1. stdin'[d] = Tail(stdin[c]) /\ stdin[c] \in Seq(Request)
        BY <2>2, <3>1, PipeTypes DEF WireType
      <4>. QED
        BY <2>2, <3>1, <4>1, TailOf
    <3>2. CASE d # c
      <4>1. stdin'[d] = stdin[d]
        BY <2>2, <3>2 DEF WireType
      <4>. QED
        BY <4>1
    <3>. QED
      BY <3>1, <3>2
  <2>. QED
    BY <1>1, <1>2, <1>3, <2>2, <2>4, <2>5
<1>. QED
  BY <1>6, <1>7, <1>8, <1>9, <1>11, <1>12, <1>13 DEF McpNext, CommandLine, Requester

\* Every step gives each request its own answer, if any.
LEMMA AnswerStep ==
  ASSUME WireType, PipeInv, AnswersAreOwn, McpNext
  PROVE  AnswersAreOwn'
<1>1. ASSUME NEW a \in Actors, NEW answer, answer \in {NoRequest, request[a]},
             EndRequest(a, answer)
      PROVE  AnswersAreOwn'
  <2>1. \A b \in Actors : got'[b] = got[b]
                          \/ got'[b] = [asked |-> request[a], answered |-> answer]
    BY <1>1 DEF EndRequest, WireType
  <2>. QED
    BY <1>1, <2>1 DEF AnswersAreOwn
<1>2. CASE UNCHANGED got
  BY <1>2 DEF AnswersAreOwn
<1>3. ASSUME NEW a \in Actors, Write(a) \/ ReadEnd(a)
      PROVE  AnswersAreOwn'
  <2>1. UNCHANGED got \/ EndRequest(a, NoRequest)
    BY <1>3 DEF Write, ReadEnd
  <2>. QED
    BY <1>1, <1>2, <2>1
<1>4. ASSUME NEW a \in Actors, ReadLine(a)
      PROVE  AnswersAreOwn'
  <2>1. PICK c \in 1 .. Clients : c = request[a].client
    BY <1>4, WaitingHasRequest DEF ReadLine, Holds, Waiting
  <2>2. PICK line : line = Head(stdout[c])
    OBVIOUS
  <2>3. stdout[c] # <<>>
    BY <1>4, <2>1 DEF ReadLine
  <2>4. line = stdout[c][1] /\ 1 \in DOMAIN stdout[c]
    BY <2>2, <2>3, PipeTypes
  <2>5. CASE line.kind = "result" /\ IsForMe(line, a)
    <3>1. Unmistaken(line.answers, c)
      BY <2>4, <2>5 DEF PipeInv, IsForMe
    <3>2. line.answers = request[a]
      BY <2>1, <2>5, <3>1 DEF Unmistaken, IsForMe
    <3>3. EndRequest(a, line.answers)
      BY <1>4, <2>1, <2>2, <2>5 DEF ReadLine
    <3>. QED
      BY <1>1, <3>2, <3>3
  <2>6. CASE ~(line.kind = "result" /\ IsForMe(line, a))
    <3>1. UNCHANGED got \/ EndRequest(a, NoRequest)
      BY <1>4, <2>1, <2>2, <2>6 DEF ReadLine
    <3>. QED
      BY <1>1, <1>2, <3>1
  <2>. QED
    BY <2>5, <2>6
<1>5. CASE CommandLine
  BY <1>2, <1>5 DEF CommandLine, StartClient, StartFails, ListTools, NextClient, EndRun,
                    EndSession, StopClient
<1>6. CASE \E t \in Threads, c \in 1 .. Clients : CallTool(t, c)
  BY <1>2, <1>6 DEF CallTool
<1>7. CASE \E c \in 1 .. Clients :
             Respond(c) \/ Exit(c) \/ \E kind \in {"notification", "invalid"} : EmitOther(c, kind)
  BY <1>2, <1>7 DEF Respond, Serve, Exit, EmitOther
<1>. QED
  BY <1>3, <1>4, <1>5, <1>6, <1>7 DEF McpNext, Requester

-----------------------------------------------------------------------------
(* The theorems.                                                           *)

LEMMA Invariance == Spec => []IInv
<1>1. Init => IInv
  <2>. SUFFICES ASSUME Init
                PROVE  IInv
    OBVIOUS
  <2>1. McpInit /\ RuntimeInit
    BY DEF Init
  <2>2. Clients \in Nat \ {0} /\ Main \in Actors
    BY ToolProcessesAssumption DEF Actors
  <2>3. <<>> \in Seq(Request) /\ <<>> \in Seq(Printed) /\ DOMAIN <<>> = {}
    OBVIOUS
  <2>4. WireType
    <3>1. /\ started \in [1 .. Clients -> BOOLEAN]
          /\ lastId \in [1 .. Clients -> Nat]
          /\ server \in [1 .. Clients -> {"none", "up", "exited"}]
          /\ ready \in [1 .. Clients -> SUBSET Full]
      BY <2>1 DEF McpInit
    <3>4. at \in Nat \ {0}
      <4>1. at = 1
        BY <2>1 DEF McpInit
      <4>. QED
        BY <4>1
    <3>2. /\ stdin \in [1 .. Clients -> Seq(Request)]
          /\ stdout \in [1 .. Clients -> Seq(Printed)]
      BY <2>1, <2>3 DEF McpInit
    <3>3. /\ request \in [Actors -> Request \cup {NoRequest}]
          /\ got \in [Actors -> [asked : Request \cup {NoRequest},
                                answered : Request \cup {NoRequest}]]
      BY <2>1 DEF McpInit
    <3>. QED
      BY <3>1, <3>2, <3>3, <3>4 DEF WireType
  <2>5. PipeInv
    <3>1. \A c \in 1 .. Clients : stdin[c] = <<>> /\ stdout[c] = <<>>
      BY <2>1 DEF McpInit
    <3>2. \A c \in 1 .. Clients : c # 0
      OBVIOUS
    <3>3. \A a \in Actors : request[a].client = 0
      BY <2>1 DEF McpInit, NoRequest
    <3>. QED
      BY <2>3, <3>1, <3>2, <3>3 DEF PipeInv
  <2>6. AttachInv
    <3>1. request[Main] = NoRequest /\ at = 1 /\ stage = "attach"
      BY <2>1, <2>2 DEF McpInit
    <3>2. \A c \in 1 .. Clients : ~started[c] /\ ready[c] = {}
      BY <2>1 DEF McpInit
    <3>3. \A c \in 1 .. Clients : ~(c < 1)
      OBVIOUS
    <3>. QED
      BY <3>1, <3>2, <3>3 DEF AttachInv
  <2>7. StopInv
    BY <2>1 DEF McpInit, StopInv
  <2>8. CallInv /\ run \subseteq Request
    <3>1. \A c \in 1 .. Clients : stdin[c] = <<>>
      BY <2>1 DEF McpInit
    <3>2. \A a \in Actors : request[a] = NoRequest
      BY <2>1 DEF McpInit
    <3>3. run = {}
      BY <2>1 DEF McpInit
    <3>. QED
      BY <2>3, <3>1, <3>2, <3>3 DEF CallInv
  <2>9. AnswersAreOwn
    BY <2>1 DEF McpInit, AnswersAreOwn
  <2>10. GroupInv /\ FileInv
    BY <2>1 DEF RuntimeInit, GroupInv, FileInv
  <2>. QED
    BY <2>4, <2>5, <2>6, <2>7, <2>8, <2>9, <2>10 DEF IInv, WireInv
<1>2. IInv /\ [Next]_vars => IInv'
  <2>. SUFFICES ASSUME IInv, [Next]_vars
                PROVE  IInv'
    OBVIOUS
  <2>1. CASE McpNext /\ UNCHANGED runtimeVars
    <3>1. WireType'
      BY <2>1, WireTypeStep DEF IInv, WireInv
    <3>2. WireInv'
      BY <2>1, <3>1, PipeStep, AttachStep, StopStep, CallStep, AnswerStep DEF IInv, WireInv
    <3>3. GroupInv' /\ FileInv'
      BY <2>1 DEF IInv, runtimeVars, GroupInv, FileInv
    <3>. QED
      BY <3>2, <3>3 DEF IInv
  <2>2. ASSUME UNCHANGED mcpVars
        PROVE  WireInv'
    BY <2>2 DEF mcpVars, IInv, WireInv, WireType, PipeInv, Unmistaken, AttachInv, StopInv,
                CallInv, CalledWhenReady, AnswersAreOwn
  <2>3. CASE RuntimeNext /\ UNCHANGED mcpVars
    BY <2>2, <2>3, RuntimeStep DEF IInv
  <2>4. CASE UNCHANGED vars
    <3>1. UNCHANGED mcpVars /\ UNCHANGED runtimeVars
      BY <2>4 DEF vars
    <3>2. GroupInv' /\ FileInv'
      BY <3>1 DEF IInv, runtimeVars, GroupInv, FileInv
    <3>. QED
      BY <2>2, <3>1, <3>2 DEF IInv
  <2>. QED
    BY <2>1, <2>3, <2>4 DEF Next, Servers, Runtime
<1>. QED
  BY <1>1, <1>2, PTL DEF Spec

\* What a request to an MCP server returns was answered to that request, for
\* any number of threads on the pipe and of answers that nobody waits for any
\* more: the ids of a client are those of its _request_id.
THEOREM AnswersReachTheirRequest == Spec => []AnswersAreOwn
<1>1. IInv => AnswersAreOwn
  BY DEF IInv, WireInv
<1>. QED
  BY <1>1, Invariance, PTL

\* _attach_mcp lets no tool be called on a server that has not answered
\* initialize and tools/list, and the command line leaves no server running.
THEOREM ServersAttached == Spec => []ServersAreAttached
<1>1. IInv => ServersAreAttached
  BY DEF IInv, WireInv, CallInv, CalledWhenReady, StopInv, ServersAreAttached, Full
<1>. QED
  BY <1>1, Invariance, PTL

\* After a timeout that execute reports, its command's process group is gone.
THEOREM GroupIsGone == Spec => []TimeoutEndsTheGroup
<1>1. IInv => TimeoutEndsTheGroup
  BY DEF IInv, GroupInv, TimeoutEndsTheGroup
<1>. QED
  BY <1>1, Invariance, PTL

\* write_text leaves the file whole, with the content of a write that did not
\* raise, for any number of writes at the same time and through crashes.
THEOREM FileIsWhole == Spec => []FileIsOneWrite
<1>1. 0 \notin Writes
  BY ToolProcessesAssumption DEF Writes
<1>2. IInv => FileIsOneWrite
  BY <1>1 DEF IInv, FileInv, FileIsOneWrite
<1>. QED
  BY <1>2, Invariance, PTL
=============================================================================
