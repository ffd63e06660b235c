-------------------------- MODULE PersistentMemory --------------------------
(***************************************************************************)
(* PersistentMemory of MiniClaudeCode: a dictionary of entries kept in a   *)
(* JSONL file, to which put appends and which save rewrites through a      *)
(* temporary file.  Instances of it open the same file, one after the      *)
(* other or side by side, in processes that may die between any two steps. *)
(*                                                                         *)
(* An entry is the number of its put; its key is puts[entry].  A line of   *)
(* the file is the entry it was written for, or Torn.  A value may hold a  *)
(* character at which splitlines ends a line and which dumps writes as it  *)
(* is (U+0085, U+2028, U+2029): what is read of such a line are pieces that*)
(* decode to nothing.  Time is seen in what has expired: with one TTL for  *)
(* all puts, entries expire in their order.                                *)
(***************************************************************************)
EXTENDS Naturals, Sequences, SequencesExt

CONSTANTS
  Instances,   \* PersistentMemory objects over the file
  Keys,        \* memory keys
  OneTtl,      \* every put takes the TTL of the memory, as Agent's does
  MaxPuts,     \* bound: puts over the history of the file
  Separated,   \* the puts whose line holds a separator of splitlines
  NoKey,       \* model value: no key is at hand
  NoFile       \* model value: a file that is not there

ASSUME MemoryAssumption ==
  /\ OneTtl \in BOOLEAN
  /\ MaxPuts \in Nat
  /\ Separated \subseteq Nat \ {0}
  /\ NoKey \notin Keys
  /\ NoFile \notin Seq(Nat)

VARIABLES
  puts,       \* the keys put so far
  expired,    \* entries whose expires_at has passed
  file,       \* the lines of the file, NoFile when there is none
  torn,       \* the last line has no end yet
  temporary,  \* what the ".tmp" file holds, NoFile when there is none
  pc,         \* where each instance is
  entries,    \* _entries of each instance
  task,       \* the key an instance is invalidating, NoKey otherwise
  promised,   \* history: for each key, what completed operations left there
  shared      \* history: two instances have had the file open at once

memoryVars == <<puts, expired, file, torn, temporary, pc, entries, task, promised,
          shared>>

history == <<promised, shared>>

Torn == 0
None == 0

Entries == 1 .. Len(puts)

MemoryTypeOK ==
  /\ puts \in Seq(Keys) /\ Len(puts) <= MaxPuts
  /\ expired \subseteq Entries
  /\ file \in Seq(Entries \cup {Torn}) \cup {NoFile}
  /\ torn \in BOOLEAN
  /\ temporary \in Seq(Entries) \cup {NoFile}
  /\ pc \in [Instances -> {"off", "loading", "rewriting", "up", "putting",
                          "saving", "replacing"}]
  /\ entries \in [Instances -> SUBSET Entries]
  /\ \A i \in Instances : \A m, n \in entries[i] : puts[m] = puts[n] => m = n
  /\ task \in [Instances -> Keys \cup {NoKey}]
  /\ promised \in [Keys -> Entries \cup {None}]
  /\ shared \in BOOLEAN

MemoryInit ==
  /\ puts = <<>>
  /\ expired = {}
  /\ file = NoFile
  /\ torn = FALSE
  /\ temporary = NoFile
  /\ pc = [i \in Instances |-> "off"]
  /\ entries = [i \in Instances |-> {}]
  /\ task = [i \in Instances |-> NoKey]
  /\ promised = [k \in Keys |-> None]
  /\ shared = FALSE

\* Mutant of OfKey: an entry does not replace the one of its key.
NothingOfKey(key) == {}

OfKey(key) == {n \in Entries : puts[n] = key}

Lines == IF file = NoFile THEN <<>> ELSE file

\* What is appended is a line of its own, unless the last one has no end: the
\* line that the two make decodes to nothing.
With(line) ==
  IF torn THEN Append(Front(Lines), Torn) ELSE Append(Lines, line)

\* read_text().splitlines() and loads give back the entry of a line.
Decodes(line) == line \notin Separated \cup {Torn}

\* _load: of the lines that decode and have not expired, the last of each key.
Loaded ==
  LET live == {j \in DOMAIN Lines : Decodes(Lines[j]) /\ Lines[j] \notin expired} IN
  {Lines[j] : j \in {j \in live :
     \A l \in live : l > j => puts[Lines[l]] # puts[Lines[j]]}}

-----------------------------------------------------------------------------
(* Opening and closing.                                                    *)

\* Mutant of AfterLoad: what was loaded is not written back.
NoRewrite == "up"

\* __init__: load, then rewrite the file if there is one.
AfterLoad == IF file = NoFile THEN "up" ELSE "loading"

Open(i) ==
  /\ pc[i] = "off"
  /\ entries' = [entries EXCEPT ![i] = Loaded]
  /\ pc' = [pc EXCEPT ![i] = AfterLoad]
  /\ shared' = (shared \/ \E j \in Instances : pc[j] # "off")
  /\ UNCHANGED <<puts, expired, file, torn, temporary, task, promised>>

Gone(i) ==
  /\ pc' = [pc EXCEPT ![i] = "off"]
  /\ entries' = [entries EXCEPT ![i] = {}]

\* The process ends.
Close(i) ==
  /\ pc[i] # "off"
  /\ Gone(i)
  /\ task' = [task EXCEPT ![i] = NoKey]
  /\ UNCHANGED <<puts, expired, file, torn, temporary, history>>

-----------------------------------------------------------------------------
(* Operations.  The lock of an instance is held from the first step of one *)
(* to its last.                                                            *)

Put(i, key) ==
  /\ pc[i] = "up"
  /\ Len(puts) < MaxPuts
  /\ puts' = Append(puts, key)
  /\ entries' = [entries EXCEPT ![i] = (@ \ OfKey(key)) \cup {Len(puts) + 1}]
  /\ task' = [task EXCEPT ![i] = key]
  /\ pc' = [pc EXCEPT ![i] = "putting"]
  /\ UNCHANGED <<expired, file, torn, temporary, history>>

\* The entry at hand is written.
Write(i) ==
  \E n \in entries[i] :
    /\ puts[n] = task[i]
    /\ file' = With(n)
    /\ promised' = [promised EXCEPT ![task[i]] = n]

AppendLine(i) ==
  /\ pc[i] = "putting"
  /\ Write(i)
  /\ torn' = FALSE
  /\ task' = [task EXCEPT ![i] = NoKey]
  /\ pc' = [pc EXCEPT ![i] = "up"]
  /\ UNCHANGED <<puts, expired, temporary, entries, shared>>

\* The process ends in the append: the file was opened, part of the line was
\* written, or all of it but its end.
CloseAppending(i) ==
  /\ pc[i] = "putting"
  /\ \/ file' = Lines /\ UNCHANGED <<torn, promised>>
     \/ file' = With(Torn) /\ torn' = TRUE /\ UNCHANGED promised
     \/ ~torn /\ Write(i) /\ torn' = TRUE
  /\ Gone(i)
  /\ task' = [task EXCEPT ![i] = NoKey]
  /\ UNCHANGED <<puts, expired, temporary, shared>>

\* get meets an entry that has expired: it is deleted and the rest saved.
GetExpired(i) ==
  /\ pc[i] = "up"
  /\ \E n \in entries[i] \cap expired :
       entries' = [entries EXCEPT ![i] = @ \ {n}]
  /\ pc' = [pc EXCEPT ![i] = "saving"]
  /\ UNCHANGED <<puts, expired, file, torn, temporary, task, history>>

Invalidate(i, key) ==
  /\ pc[i] = "up"
  /\ entries[i] \cap OfKey(key) # {}
  /\ entries' = [entries EXCEPT ![i] = @ \ OfKey(key)]
  /\ task' = [task EXCEPT ![i] = key]
  /\ pc' = [pc EXCEPT ![i] = "saving"]
  /\ UNCHANGED <<puts, expired, file, torn, temporary, history>>

\* Mutant of Rendered: on load, save runs before _entries is assigned.
RenderedTooEarly(i) == IF pc[i] = "loading" THEN <<>> ELSE SetToSeq(entries[i])

\* save writes every entry of the instance, an expired one too.
Rendered(i) == SetToSeq(entries[i])

SaveTemporary(i) ==
  /\ pc[i] \in {"loading", "saving"}
  /\ temporary' = Rendered(i)
  /\ pc' = [pc EXCEPT ![i] = IF @ = "loading" THEN "rewriting" ELSE "replacing"]
  /\ UNCHANGED <<puts, expired, file, torn, entries, task, history>>

\* The temporary file, whoever wrote it, becomes the file.
Replace(i) ==
  /\ pc[i] \in {"rewriting", "replacing"}
  /\ temporary # NoFile
  /\ file' = temporary
  /\ torn' = FALSE
  /\ temporary' = NoFile
  /\ promised' = [k \in Keys |-> IF k = task[i] THEN None ELSE promised[k]]
  /\ task' = [task EXCEPT ![i] = NoKey]
  /\ pc' = [pc EXCEPT ![i] = "up"]
  /\ UNCHANGED <<puts, expired, entries, shared>>

\* Another instance has moved the temporary file: replace raises, out of the
\* operation that saves, or out of the constructor.
ReplaceFails(i) ==
  /\ pc[i] \in {"rewriting", "replacing"}
  /\ temporary = NoFile
  /\ IF pc[i] = "rewriting" THEN Gone(i)
     ELSE pc' = [pc EXCEPT ![i] = "up"] /\ UNCHANGED entries
  /\ task' = [task EXCEPT ![i] = NoKey]
  /\ UNCHANGED <<puts, expired, file, torn, temporary, history>>

\* Time passes.
Expire ==
  /\ \E n \in Entries \ expired :
       /\ OneTtl => \A m \in 1 .. n - 1 : m \in expired
       /\ expired' = expired \cup {n}
  /\ UNCHANGED <<puts, file, torn, temporary, pc, entries, task, history>>

MemoryNext ==
  \/ \E i \in Instances :
       \/ Open(i) \/ Close(i) \/ CloseAppending(i)
       \/ \E key \in Keys : Put(i, key) \/ Invalidate(i, key)
       \/ AppendLine(i) \/ GetExpired(i) \/ SaveTemporary(i)
       \/ Replace(i) \/ ReplaceFails(i)
  \/ Expire

MemorySpec == MemoryInit /\ [][MemoryNext]_memoryVars

-----------------------------------------------------------------------------
(* What must hold.                                                         *)

\* Entries of the keys whose last completed put can be read back.
Whole == {n \in Entries : promised[puts[n]] \notin Separated}

\* What a process that starts now must load: what the operations completed so
\* far have left, time has not taken and can be read back.
Kept == {promised[k] : k \in Keys} \ (expired \cup Separated \cup {None})

\* "Entries survive process restarts, expire by TTL" (PersistentMemory), for
\* instances that follow each other and keys whose last put holds no separator
\* of splitlines: wherever the instance before stopped, in an append, in a
\* save or while it loaded, nothing kept is lost and nothing invalidated,
\* replaced or expired returns.  A put that holds one is lost at the next
\* start, and an older value of its key may return.
EntriesSurvive == ~shared => Loaded \cap Whole = Kept

\* An instance at rest answers as the one that will follow it, for the same
\* instances and keys.
MemoryIsOnDisk ==
  ~shared => \A i \in Instances :
    pc[i] = "up" => (entries[i] \cap Whole) \ expired = Loaded \cap Whole

=============================================================================
