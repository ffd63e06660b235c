----------------------------- MODULE ReadCache ------------------------------
(***************************************************************************)
(* The read cache of MiniClaudeCode: FileCache, without a lock, under the  *)
(* read_file, write_file and replace_text tools, which the threads of a    *)
(* batch and of several specialists share, while commands edit the same    *)
(* files behind its back.                                                  *)
(*                                                                         *)
(* The content of a file is known by the number of the edit that wrote it, *)
(* and stat tells of it what stamps says: when and how long.  The cache is *)
(* keyed by the spelling of a path, and several paths may name one file.   *)
(***************************************************************************)
EXTENDS Naturals, Sequences, FiniteSets

CONSTANTS
  Paths,       \* spellings of paths
  Files,       \* what they resolve to
  Resolve,     \* [Paths -> Files]
  Threads,     \* threads that run the tools
  Stamps,      \* what stat can tell: modification time and size
  MaxEdits     \* bound: edits of one file

ASSUME CacheAssumption ==
  /\ Resolve \in [Paths -> Files]
  /\ MaxEdits \in Nat
  /\ Stamps # {}

VARIABLES
  stamps,      \* for each file, the stamp of each edit; the last one is it
  cache,       \* FileCache._entries
  thread,      \* what each thread is doing
  disturbed    \* history: files not left to one thread and one spelling

cacheVars == <<stamps, cache, thread, disturbed>>

NoEntry == [cached |-> FALSE]

Entry(stamp, content) ==
  [cached |-> TRUE, stamp |-> stamp, content |-> content]

Version(f) == Len(stamps[f])
Stamp(f) == stamps[f][Version(f)]

\* A thread: its step, the path it was given, the stamp it has seen, the
\* content it has in hand, and (history) the content when it began.
Idle == [at |-> "idle"]

Working(at, p, stamp, content, since) ==
  [at |-> at, path |-> p, stamp |-> stamp, content |-> content,
   since |-> since]

CacheEntries ==
  [cached : {FALSE}]
    \cup [cached : {TRUE}, stamp : Stamps, content : Nat]

ThreadStates ==
  [at : {"idle"}]
    \cup [at : {"stat", "missed", "read", "served", "written"}, path : Paths,
          stamp : Stamps, content : Nat, since : Nat]

CacheTypeOK ==
  /\ stamps \in [Files -> Seq(Stamps)]
  /\ \A f \in Files : stamps[f] # <<>>
  /\ cache \in [Paths -> CacheEntries]
  /\ thread \in [Threads -> ThreadStates]
  /\ disturbed \subseteq Files

CacheInit ==
  /\ stamps \in [Files -> {<<s>> : s \in Stamps}]
  /\ cache = [p \in Paths |-> NoEntry]
  /\ thread = [t \in Threads |-> Idle]
  /\ disturbed = {}

\* The thread is at work on the file.
On(t, f) == thread[t].at # "idle" /\ Resolve[thread[t].path] = f

Disturb(f, here) == disturbed' = IF here THEN disturbed \cup {f} ELSE disturbed

-----------------------------------------------------------------------------
(* read_file.                                                              *)

\* The file is resolved and its stat taken.
TakeStat(t, p) ==
  /\ thread[t].at = "idle"
  /\ thread' = [thread EXCEPT ![t] =
       Working("stat", p, Stamp(Resolve[p]), 0, Version(Resolve[p]))]
  /\ Disturb(Resolve[p], \E u \in Threads \ {t} :
                            thread[u].at = "written" /\ On(u, Resolve[p]))
  /\ UNCHANGED <<stamps, cache>>

\* Mutant of Matches: whatever is cached for the path is served.
MatchesAnything(entry, stamp) == entry.cached

\* FileCache.get
Matches(entry, stamp) == entry.cached /\ entry.stamp = stamp

LookUp(t) ==
  /\ thread[t].at = "stat"
  /\ LET entry == cache[thread[t].path] IN
     thread' = [thread EXCEPT ![t] =
       IF Matches(entry, thread[t].stamp)
       THEN [thread[t] EXCEPT !.at = "served", !.content = entry.content]
       ELSE [thread[t] EXCEPT !.at = "missed"]]
  /\ UNCHANGED <<stamps, cache, disturbed>>

\* The text is read from the file as it is by now.
ReadText(t) ==
  /\ thread[t].at = "missed"
  /\ thread' = [thread EXCEPT ![t].at = "read",
                              ![t].content = Version(Resolve[thread[t].path])]
  /\ UNCHANGED <<stamps, cache, disturbed>>

\* Mutant of StampToKeep: the content is stored in the place of the stamp.
ContentAsStamp(t) == thread[t].content

\* Mutant of StampToKeep: the stat is taken again when the entry is stored.
StampAtStore(t) == Stamp(Resolve[thread[t].path])

\* put stores the content under the stamp taken before it was read.
StampToKeep(t) == thread[t].stamp

StoreEntry(t) ==
  /\ thread[t].at = "read"
  /\ cache' = [cache EXCEPT ![thread[t].path] =
                 Entry(StampToKeep(t), thread[t].content)]
  /\ thread' = [thread EXCEPT ![t].at = "served"]
  /\ UNCHANGED <<stamps, disturbed>>

Return(t) ==
  /\ thread[t].at = "served"
  /\ thread' = [thread EXCEPT ![t] = Idle]
  /\ UNCHANGED <<stamps, cache, disturbed>>

-----------------------------------------------------------------------------
(* Edits.                                                                  *)

Edit(f) ==
  \E s \in Stamps :
    /\ Version(f) <= MaxEdits
    /\ stamps' = [stamps EXCEPT ![f] = Append(@, s)]

\* A command, a user or another process edits the file.
EditOutside(f) ==
  /\ Edit(f)
  /\ Disturb(f, TRUE)
  /\ UNCHANGED <<cache, thread>>

\* write_file, and replace_text after its checks: the file is replaced, then
\* the entry of this spelling dropped.
WriteText(t, p) ==
  /\ thread[t].at = "idle"
  /\ Edit(Resolve[p])
  /\ thread' = [thread EXCEPT ![t] =
       Working("written", p, Stamp(Resolve[p]), 0, Version(Resolve[p]))]
  /\ Disturb(Resolve[p],
       \/ \E u \in Threads : On(u, Resolve[p])
       \/ \E q \in Paths \ {p} : Resolve[q] = Resolve[p] /\ cache[q].cached)
  /\ UNCHANGED cache

\* Mutant of Dropped: the entry stays.
KeptEntry(p) == cache[p]

\* FileCache.invalidate
Dropped(p) == NoEntry

DropEntry(t) ==
  /\ thread[t].at = "written"
  /\ cache' = [cache EXCEPT ![thread[t].path] =
                 Dropped(thread[t].path)]
  /\ thread' = [thread EXCEPT ![t] = Idle]
  /\ UNCHANGED <<stamps, disturbed>>

CacheNext ==
  \/ \E t \in Threads :
       \/ \E p \in Paths : TakeStat(t, p) \/ WriteText(t, p)
       \/ LookUp(t) \/ ReadText(t) \/ StoreEntry(t) \/ Return(t)
       \/ DropEntry(t)
  \/ \E f \in Files : EditOutside(f)

CacheSpec == CacheInit /\ [][CacheNext]_cacheVars

-----------------------------------------------------------------------------
(* What must hold.                                                         *)

\* What a thread serves is content its file has had since it began to read.
Fresh(t) ==
  thread[t].content \in thread[t].since .. Version(Resolve[thread[t].path])

Serving(t, f) == thread[t].at = "served" /\ Resolve[thread[t].path] = f

\* No two edits of the file have left it with the same stat.
EditsShow(f) ==
  \A i, j \in 1 .. Version(f) : stamps[f][i] = stamps[f][j] => i = j

\* "stale content is never served" (FileCache): in whatever order the stat, the
\* look-up, the read and the store of several threads and spellings fall
\* between the edits, as long as each edit of the file shows in its stat.
ReadsAreFresh ==
  \A f \in Files : \A t \in Threads :
    EditsShow(f) /\ Serving(t, f) => Fresh(t)

\* "invalidated when the harness itself writes the file" (memory.py): whatever
\* the stat shows, while only the tools edit the file, under one spelling and
\* one after the other.
OwnWritesAreSeen ==
  \A f \in Files \ disturbed : \A t \in Threads : Serving(t, f) => Fresh(t)

=============================================================================
