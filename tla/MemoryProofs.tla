---------------------------- MODULE MemoryProofs ----------------------------
(***************************************************************************)
(* What an agent keeps: what PersistentMemory promises to instances that   *)
(* follow each other, for any number of instances, keys and puts, and what *)
(* ContextWindow shows of a conversation, for any messages and any layers  *)
(* of compression in any order.                                            *)
(***************************************************************************)
EXTENDS PersistentMemory, ContextWindow, Loops

-----------------------------------------------------------------------------
(* The memory file: its inductive invariant.                               *)

\* The entries that a sequence of lines holds.
Held(lines) == {lines[j] : j \in DOMAIN lines} \ {Torn}

\* A later line of a key is of a later put.
Ordered(lines) ==
  \A j, l \in DOMAIN lines :
    j < l /\ lines[j] # Torn /\ lines[l] # Torn /\ puts[lines[j]] = puts[lines[l]]
      => lines[j] < lines[l]

\* With one TTL what was put earlier expires earlier.
ExpireInv == \A n \in expired : \A m \in 1 .. n - 1 : m \in expired

\* What is promised of a key, if it can be read back, is the last entry of that
\* key in the file.
FileInv ==
  /\ Ordered(Lines)
  /\ torn => file # NoFile
  /\ \A k \in Keys : promised[k] # None => puts[promised[k]] = k
  /\ \A k \in Keys : promised[k] \notin expired \cup Separated \cup {None} =>
       promised[k] \in Held(Lines)
  /\ \A x \in (Held(Lines) \cap Whole) \ expired : x <= promised[puts[x]]

\* Where an instance is in its operation.
InstanceInv(i) ==
  /\ pc[i] \in {"off", "loading", "rewriting", "up"} => task[i] = NoKey
  /\ pc[i] \in {"loading", "rewriting", "up", "saving", "replacing"} =>
       /\ (entries[i] \cap Whole) \ expired = Kept \ OfKey(task[i])
       /\ entries[i] \cap OfKey(task[i]) = {}
  /\ pc[i] \in {"up", "putting", "saving", "replacing"} => ~torn
  /\ pc[i] \in {"rewriting", "replacing"} =>
       /\ temporary # NoFile
       /\ Held(temporary) = entries[i]
       /\ Ordered(temporary)
  /\ pc[i] = "putting" =>
       /\ task[i] \in Keys
       /\ Len(puts) \in entries[i]
       /\ puts[Len(puts)] = task[i]
       /\ Len(puts) \notin Held(Lines)
       /\ ((entries[i] \cap Whole) \ expired) \ OfKey(task[i]) = Kept \ OfKey(task[i])

\* Instances that follow each other.
Follow == \A i, j \in Instances : pc[i] # "off" /\ pc[j] # "off" => i = j

AloneInv == ~shared => Follow /\ FileInv /\ \A i \in Instances : InstanceInv(i)

MemoryInv == MemoryTypeOK /\ ExpireInv /\ AloneInv

-----------------------------------------------------------------------------
(* Files.                                                                  *)

\* The lines of the file.
LEMMA LinesType ==
  ASSUME MemoryTypeOK
  PROVE  /\ Lines \in Seq(Entries \cup {Torn})
         /\ Entries \subseteq Nat \ {0}
         /\ Held(Lines) \subseteq Entries
         /\ Len(puts) \in Nat
<1>1. Len(puts) \in Nat /\ Entries \subseteq Nat \ {0}
  BY DEF MemoryTypeOK, Entries
<1>2. file # NoFile => file \in Seq(Entries \cup {Torn})
  BY DEF MemoryTypeOK
<1>3. Lines \in Seq(Entries \cup {Torn})
  BY <1>2 DEF Lines
<1>. QED
  BY <1>1, <1>3 DEF Held

\* A file that was written is not the absence of one.
LEMMA WrittenIsFile ==
  ASSUME NEW S, S \subseteq Nat, NEW s \in Seq(S)
  PROVE  s # NoFile
<1>1. S \cup Nat = Nat
  OBVIOUS
<1>2. s \in Seq(S \cup Nat)
  OBVIOUS
<1>3. s \in Seq(Nat)
  BY <1>1, <1>2
<1>. QED
  BY <1>3, MemoryAssumption

\* What is kept: of each key the promised entry, if it has not expired and can
\* be read back.
LEMMA KeptIs ==
  ASSUME MemoryTypeOK, FileInv
  PROVE  /\ Kept \subseteq Entries
         /\ \A x \in Entries :
              x \in Kept <=> x \notin expired \cup Separated /\ promised[puts[x]] = x
         /\ Kept \subseteq Whole
<1>1. \A x \in Entries : puts[x] \in Keys /\ x # None
  BY DEF MemoryTypeOK, Entries, None
<1>2. \A k \in Keys : promised[k] \in Entries \cup {None}
  BY DEF MemoryTypeOK
<1>3. \A x : x \in Kept <=> /\ x # None /\ x \notin expired \cup Separated
                           /\ \E k \in Keys : promised[k] = x
  BY DEF Kept
<1>4. /\ Kept \subseteq Entries
      /\ \A x \in Entries :
           x \in Kept <=> x \notin expired \cup Separated /\ promised[puts[x]] = x
  BY <1>1, <1>2, <1>3 DEF FileInv
<1>. QED
  BY <1>4 DEF Whole

\* What the lines load of the keys that can be read back is what is kept.
LEMMA LoadedIsKept ==
  ASSUME MemoryTypeOK, ExpireInv, FileInv
  PROVE  Loaded \cap Whole = Kept
<1>0. /\ Lines \in Seq(Entries \cup {Torn}) /\ Entries \subseteq Nat \ {0}
      /\ Held(Lines) \subseteq Entries
  BY LinesType
<1>1. ASSUME NEW x \in Loaded \cap Whole
      PROVE  x \in Kept
  <2>1. PICK j \in DOMAIN Lines :
          /\ x = Lines[j] /\ x \notin expired /\ x # Torn /\ x \notin Separated
          /\ \A l \in DOMAIN Lines :
               l > j /\ Lines[l] \notin expired \cup Separated \cup {Torn} =>
                 puts[Lines[l]] # puts[x]
    BY DEF Loaded, Decodes
  <2>2. x \in Held(Lines) /\ x \in Entries /\ promised[puts[x]] \notin Separated
    BY <1>0, <2>1 DEF Held, Whole
  <2>3. puts[x] \in Keys
    BY <2>2 DEF MemoryTypeOK, Entries
  <2>4. PICK p : p = promised[puts[x]]
    OBVIOUS
  <2>5. x <= p /\ p \in Entries /\ puts[p] = puts[x]
    <3>1. x <= p /\ p \in Entries \cup {None}
      BY <2>1, <2>2, <2>3, <2>4 DEF FileInv, MemoryTypeOK, Whole
    <3>2. p # None
      BY <1>0, <2>2, <3>1 DEF None
    <3>. QED
      BY <2>3, <2>4, <3>1, <3>2 DEF FileInv
  <2>6. p \notin expired
    <3>. SUFFICES ASSUME p \in expired
                  PROVE  FALSE
      OBVIOUS
    <3>0. x \in Nat /\ p \in Nat /\ x # 0 /\ x <= p
      BY <1>0, <2>2, <2>5
    <3>1. x # p => x \in 1 .. p - 1
      BY <3>0
    <3>. QED
      BY <2>1, <3>1 DEF ExpireInv
  <2>7. p \in Held(Lines) /\ p \notin Separated
    BY <1>0, <2>2, <2>3, <2>4, <2>5, <2>6 DEF FileInv, None
  <2>8. PICK l \in DOMAIN Lines : p = Lines[l] /\ p # Torn
    BY <2>7 DEF Held
  <2>9. ~(l > j)
    BY <2>1, <2>5, <2>6, <2>7, <2>8
  <2>10. ~(l < j)
    <3>1. l < j => p < x
      BY <2>1, <2>5, <2>8 DEF FileInv, Ordered
    <3>. QED
      BY <1>0, <2>2, <2>5, <3>1
  <2>11. l = j
    BY <1>0, <2>9, <2>10
  <2>12. x = promised[puts[x]]
    BY <2>1, <2>4, <2>8, <2>11
  <2>. QED
    BY <2>1, <2>2, <2>12, KeptIs
<1>2. ASSUME NEW x \in Kept
      PROVE  x \in Loaded \cap Whole
  <2>1. /\ x \in Entries /\ x \notin expired /\ x \notin Separated /\ x \in Whole
        /\ promised[puts[x]] = x /\ puts[x] \in Keys
    BY KeptIs DEF MemoryTypeOK, Entries
  <2>2. x # None /\ x # Torn
    BY <1>0, <2>1 DEF None, Torn
  <2>3. PICK j \in DOMAIN Lines : x = Lines[j]
    BY <2>1, <2>2 DEF FileInv, Held
  <2>4. ASSUME NEW l \in DOMAIN Lines, l > j, Decodes(Lines[l]), Lines[l] \notin expired,
               puts[Lines[l]] = puts[x]
        PROVE  FALSE
    <3>0. PICK y : y = Lines[l]
      OBVIOUS
    <3>1. y \in Held(Lines) \ expired /\ y \in Entries /\ y # Torn
      BY <1>0, <2>4, <3>0 DEF Held, Decodes
    <3>2. y <= x
      <4>1. y \in Whole
        BY <2>1, <2>4, <3>0, <3>1 DEF Whole
      <4>. QED
        BY <2>1, <2>4, <3>0, <3>1, <4>1 DEF FileInv
    <3>3. j < l
      BY <1>0, <2>4
    <3>4. x < y
      BY <2>2, <2>3, <2>4, <3>0, <3>1, <3>3 DEF FileInv, Ordered
    <3>5. x \in Nat /\ y \in Nat
      BY <1>0, <2>1, <3>1
    <3>. QED
      BY <3>2, <3>4, <3>5
  <2>. QED
    BY <2>1, <2>2, <2>3, <2>4 DEF Loaded, Decodes
<1>. QED
  BY <1>1, <1>2

\* What is loaded are entries, one of a key.
LEMMA LoadedType ==
  ASSUME MemoryTypeOK
  PROVE  /\ Loaded \subseteq Entries
         /\ \A m, n \in Loaded : puts[m] = puts[n] => m = n
<1>0. Lines \in Seq(Entries \cup {Torn})
  BY LinesType
<1>1. \A x \in Loaded : \E j \in DOMAIN Lines :
        /\ x = Lines[j] /\ x \notin expired \cup Separated \cup {Torn}
        /\ \A l \in DOMAIN Lines : l > j /\ Lines[l] \notin expired \cup Separated \cup {Torn} =>
             puts[Lines[l]] # puts[x]
  BY DEF Loaded, Decodes
<1>2. Loaded \subseteq Entries
  BY <1>0, <1>1
<1>3. ASSUME NEW m \in Loaded, NEW n \in Loaded, puts[m] = puts[n]
      PROVE  m = n
  <2>1. PICK j \in DOMAIN Lines :
          /\ m = Lines[j] /\ m \notin expired \cup Separated \cup {Torn}
          /\ \A l \in DOMAIN Lines : l > j /\ Lines[l] \notin expired \cup Separated \cup {Torn} =>
               puts[Lines[l]] # puts[m]
    BY <1>1
  <2>2. PICK l \in DOMAIN Lines :
          /\ n = Lines[l] /\ n \notin expired \cup Separated \cup {Torn}
          /\ \A h \in DOMAIN Lines : h > l /\ Lines[h] \notin expired \cup Separated \cup {Torn} =>
               puts[Lines[h]] # puts[n]
    BY <1>1
  <2>3. ~(l > j) /\ ~(j > l)
    BY <1>3, <2>1, <2>2
  <2>4. l = j
    BY <1>0, <2>3
  <2>. QED
    BY <2>1, <2>2, <2>4
<1>. QED
  BY <1>2, <1>3

\* What save writes are the entries, one line each.
LEMMA RenderedIs ==
  ASSUME MemoryTypeOK, NEW i \in Instances
  PROVE  /\ Rendered(i) \in Seq(Entries)
         /\ Rendered(i) # NoFile
         /\ Held(Rendered(i)) = entries[i]
         /\ Ordered(Rendered(i))
<1>1. PICK S : S = entries[i]
  OBVIOUS
<1>2. S \subseteq Entries /\ IsFiniteSet(S)
  <2>1. IsFiniteSet(Entries)
    BY LinesType, FS_Interval DEF Entries
  <2>2. S \subseteq Entries
    BY <1>1 DEF MemoryTypeOK
  <2>. QED
    BY <2>1, <2>2, FS_Subset
<1>3. PICK n \in Nat : n = Cardinality(S)
  BY <1>2, FS_CardinalityType
<1>4. \E f \in [1 .. n -> S] : IsInjective(f)
  BY <1>2, <1>3, FS_CardinalityType DEF ExistsBijection, Bijection, Injection
<1>5. PICK f : f = SetToSeq(S) /\ f \in [1 .. n -> S] /\ IsInjective(f)
  BY <1>3, <1>4 DEF SetToSeq
<1>6. \A x \in S : \E j \in 1 .. n : f[j] = x
  <2>1. f \in Injection(1 .. n, S) /\ Cardinality(1 .. n) = n
    BY <1>5, FS_Interval DEF Injection
  <2>2. f \in Surjection(1 .. n, S)
    BY <1>2, <1>3, <2>1, FS_Injection
  <2>. QED
    BY <2>2 DEF Surjection
<1>7. f \in Seq(S) /\ DOMAIN f = 1 .. n
  BY <1>5
<1>8. f \in Seq(Entries) /\ f # NoFile
  BY <1>2, <1>7, LinesType, WrittenIsFile
<1>9. Held(f) = S
  <2>1. \A j \in DOMAIN f : f[j] \in S /\ f[j] # Torn
    BY <1>2, <1>5, LinesType DEF Torn
  <2>. QED
    BY <1>6, <1>7, <2>1 DEF Held
<1>10. Ordered(f)
  <2>1. \A j, l \in DOMAIN f : puts[f[j]] = puts[f[l]] => f[j] = f[l]
    BY <1>1, <1>5 DEF MemoryTypeOK
  <2>2. \A j, l \in DOMAIN f : j < l => j # l
    BY <1>7
  <2>. QED
    BY <1>5, <2>1, <2>2 DEF Ordered, IsInjective
<1>. QED
  BY <1>1, <1>5, <1>8, <1>9, <1>10 DEF Rendered

-----------------------------------------------------------------------------
(* Types.                                                                  *)

\* A sequence over a set is one over a larger set.
LEMMA Wider ==
  ASSUME NEW S, NEW T, S \subseteq T, NEW s \in Seq(S)
  PROVE  s \in Seq(T)
<1>1. S \cup T = T
  OBVIOUS
<1>2. s \in Seq(S \cup T)
  OBVIOUS
<1>. QED
  BY <1>1, <1>2

\* A put adds an entry and leaves the keys of the others.
LEMMA PutAdds ==
  ASSUME MemoryTypeOK, NEW key \in Keys, puts' = Append(puts, key)
  PROVE  /\ puts' \in Seq(Keys)
         /\ Len(puts') = Len(puts) + 1 /\ Len(puts) + 1 \in Nat \ {0}
         /\ puts'[Len(puts) + 1] = key
         /\ \A n \in Entries : puts'[n] = puts[n] /\ n < Len(puts) + 1
         /\ Entries' = Entries \cup {Len(puts) + 1}
         /\ Len(puts) + 1 \notin Entries
<1>1. puts \in Seq(Keys) /\ Entries = 1 .. Len(puts) /\ Entries' = 1 .. Len(puts')
  BY DEF MemoryTypeOK, Entries
<1>2. /\ puts' \in Seq(Keys) /\ Len(puts') = Len(puts) + 1 /\ Len(puts) \in Nat
      /\ puts'[Len(puts) + 1] = key
      /\ \A n \in 1 .. Len(puts) : puts'[n] = puts[n]
  BY <1>1
<1>3. 1 .. Len(puts) + 1 = (1 .. Len(puts)) \cup {Len(puts) + 1}
  BY <1>2
<1>. QED
  BY <1>1, <1>2, <1>3

\* The lines with one more.
LEMMA WithType ==
  ASSUME MemoryTypeOK, NEW line \in Entries \cup {Torn}
  PROVE  /\ With(line) \in Seq(Entries \cup {Torn})
         /\ With(line) # NoFile
<1>0. Entries \cup {Torn} \subseteq Nat
  <2>1. Torn \in Nat /\ Entries \subseteq Nat
    BY LinesType DEF Torn
  <2>. QED
    BY <2>1
<1>1. PICK S : S = Entries \cup {Torn} /\ S \subseteq Nat
  BY <1>0
<1>2. Lines \in Seq(S) /\ line \in S
  BY <1>1, LinesType
<1>3. Append(Lines, line) \in Seq(S)
  BY <1>2
<1>4. Append(Front(Lines), line) \in Seq(S) /\ Append(Front(Lines), Torn) \in Seq(S)
  <2>1. Front(Lines) \in Seq(S)
    BY <1>2 DEF Front
  <2>. QED
    BY <1>1, <1>2, <2>1
<1>5. With(line) \in Seq(S)
  BY <1>3, <1>4 DEF With
<1>. QED
  BY <1>1, <1>5, WrittenIsFile

\* A write of the entry at hand.
LEMMA WriteType ==
  ASSUME MemoryTypeOK, NEW i \in Instances, Write(i)
  PROVE  /\ file' \in Seq(Entries \cup {Torn})
         /\ file' # NoFile
         /\ promised' \in [Keys -> Entries \cup {None}]
<1>1. PICK n \in entries[i] : /\ puts[n] = task[i] /\ file' = With(n)
                             /\ promised' = [promised EXCEPT ![task[i]] = n]
  BY DEF Write
<1>2. n \in Entries
  BY DEF MemoryTypeOK
<1>. QED
  BY <1>1, <1>2, WithType DEF MemoryTypeOK

\* Every step keeps the types.
LEMMA MemoryTypeStep ==
  ASSUME MemoryTypeOK, MemoryNext
  PROVE  MemoryTypeOK'
<1>1. ASSUME NEW i \in Instances, Open(i)
      PROVE  MemoryTypeOK'
  <2>1. entries' = [entries EXCEPT ![i] = Loaded]
        /\ pc' \in [Instances -> {"off", "loading", "rewriting", "up", "putting",
                                  "saving", "replacing"}]
        /\ shared' \in BOOLEAN
        /\ UNCHANGED <<puts, expired, file, torn, temporary, task, promised>>
    BY <1>1 DEF Open, AfterLoad, MemoryTypeOK
  <2>2. \A j \in Instances : entries'[j] = entries[j] \/ entries'[j] = Loaded
    BY <2>1 DEF MemoryTypeOK
  <2>3. entries' \in [Instances -> SUBSET Entries]
    BY <2>1, LoadedType DEF MemoryTypeOK
  <2>4. \A j \in Instances : \A m, n \in entries'[j] : puts[m] = puts[n] => m = n
    BY <2>2, LoadedType DEF MemoryTypeOK
  <2>. QED
    BY <2>1, <2>3, <2>4 DEF MemoryTypeOK, Entries
<1>2. ASSUME NEW i \in Instances, Close(i) \/ GetExpired(i)
      PROVE  MemoryTypeOK'
  <2>1. \A j \in Instances : entries'[j] \subseteq entries[j]
    BY <1>2 DEF Close, Gone, GetExpired, MemoryTypeOK
  <2>2. /\ entries' \in [Instances -> SUBSET Entries]
        /\ pc' \in [Instances -> {"off", "loading", "rewriting", "up", "putting",
                                  "saving", "replacing"}]
        /\ task' \in [Instances -> Keys \cup {NoKey}]
        /\ UNCHANGED <<puts, expired, file, torn, temporary, promised, shared>>
    BY <1>2 DEF Close, Gone, GetExpired, MemoryTypeOK, history
  <2>3. \A j \in Instances : \A m, n \in entries'[j] : puts[m] = puts[n] => m = n
    BY <2>1 DEF MemoryTypeOK
  <2>. QED
    BY <2>2, <2>3 DEF MemoryTypeOK, Entries
<1>3. ASSUME NEW i \in Instances, CloseAppending(i)
      PROVE  MemoryTypeOK'
  <2>1. \A j \in Instances : entries'[j] \subseteq entries[j]
    BY <1>3 DEF CloseAppending, Gone, MemoryTypeOK
  <2>2. /\ entries' \in [Instances -> SUBSET Entries]
        /\ pc' \in [Instances -> {"off", "loading", "rewriting", "up", "putting",
                                  "saving", "replacing"}]
        /\ task' \in [Instances -> Keys \cup {NoKey}]
        /\ UNCHANGED <<puts, expired, temporary, shared>>
    BY <1>3 DEF CloseAppending, Gone, MemoryTypeOK
  <2>3. \A j \in Instances : \A m, n \in entries'[j] : puts[m] = puts[n] => m = n
    BY <2>1 DEF MemoryTypeOK
  <2>4. file' \in Seq(Entries \cup {Torn}) /\ torn' \in BOOLEAN
        /\ promised' \in [Keys -> Entries \cup {None}]
    BY <1>3, LinesType, WithType, WriteType DEF CloseAppending, MemoryTypeOK
  <2>. QED
    BY <2>2, <2>3, <2>4 DEF MemoryTypeOK, Entries
<1>4. ASSUME NEW i \in Instances, NEW key \in Keys, Put(i, key)
      PROVE  MemoryTypeOK'
  <2>0. PICK new : new = Len(puts) + 1
    OBVIOUS
  <2>1. /\ puts' = Append(puts, key)
        /\ Len(puts) < MaxPuts
        /\ entries' = [entries EXCEPT ![i] = (entries[i] \ OfKey(key)) \cup {new}]
        /\ UNCHANGED <<expired, file, torn, temporary, promised, shared>>
    BY <1>4, <2>0 DEF Put, history
  <2>2. /\ puts' \in Seq(Keys) /\ Len(puts') <= MaxPuts
        /\ Entries' = Entries \cup {new} /\ new \notin Entries
        /\ puts'[new] = key
        /\ \A n \in Entries : puts'[n] = puts[n]
    <3>1. /\ puts' \in Seq(Keys) /\ Len(puts') = new /\ new \in Nat
          /\ Entries' = Entries \cup {new} /\ new \notin Entries
          /\ puts'[new] = key
          /\ \A n \in Entries : puts'[n] = puts[n]
      BY <2>0, <2>1, PutAdds
    <3>2. new <= MaxPuts
      BY <2>0, <2>1, LinesType, MemoryAssumption
    <3>. QED
      BY <3>1, <3>2
  <2>3. /\ task' \in [Instances -> Keys \cup {NoKey}]
        /\ pc' \in [Instances -> {"off", "loading", "rewriting", "up", "putting",
                                  "saving", "replacing"}]
    BY <1>4 DEF Put, MemoryTypeOK
  <2>4. file' \in Seq(Entries' \cup {Torn}) \cup {NoFile}
    <3>1. Entries \cup {Torn} \subseteq Entries' \cup {Torn}
      BY <2>2
    <3>. QED
      BY <2>1, <3>1, Wider DEF MemoryTypeOK
  <2>5. temporary' \in Seq(Entries') \cup {NoFile}
    <3>1. Entries \subseteq Entries'
      BY <2>2
    <3>. QED
      BY <2>1, <3>1, Wider DEF MemoryTypeOK
  <2>6. entries' \in [Instances -> SUBSET Entries']
    BY <2>1, <2>2 DEF MemoryTypeOK
  <2>7. ASSUME NEW j \in Instances, NEW m \in entries'[j], NEW n \in entries'[j],
               puts'[m] = puts'[n]
        PROVE  m = n
    <3>0. \A l \in Instances : entries[l] \subseteq Entries
      BY DEF MemoryTypeOK
    <3>1. CASE j = i
      <4>1. \A l \in entries'[i] : l = new \/ (l \in entries[i] /\ puts[l] # key)
        BY <2>1, <3>0 DEF MemoryTypeOK, OfKey
      <4>2. CASE m \in Entries /\ n \in Entries
        BY <2>2, <2>7, <3>1, <4>1, <4>2 DEF MemoryTypeOK
      <4>3. CASE m = new \/ n = new
        BY <2>2, <2>7, <3>0, <3>1, <4>1, <4>3
      <4>. QED
        BY <3>0, <3>1, <4>1, <4>2, <4>3
    <3>2. CASE j # i
      <4>1. entries'[j] = entries[j]
        BY <2>1, <3>2 DEF MemoryTypeOK
      <4>. QED
        BY <2>2, <2>7, <3>0, <4>1 DEF MemoryTypeOK
    <3>. QED
      BY <3>1, <3>2
  <2>8. expired' \subseteq Entries' /\ promised' \in [Keys -> Entries' \cup {None}]
    BY <2>1, <2>2 DEF MemoryTypeOK
  <2>. QED
    BY <2>1, <2>2, <2>3, <2>4, <2>5, <2>6, <2>7, <2>8 DEF MemoryTypeOK
<1>5. ASSUME NEW i \in Instances, AppendLine(i)
      PROVE  MemoryTypeOK'
  <2>1. /\ file' \in Seq(Entries \cup {Torn})
        /\ promised' \in [Keys -> Entries \cup {None}]
    BY <1>5, WriteType DEF AppendLine
  <2>. QED
    BY <1>5, <2>1 DEF AppendLine, MemoryTypeOK, Entries
<1>6. ASSUME NEW i \in Instances, NEW key \in Keys, Invalidate(i, key)
      PROVE  MemoryTypeOK'
  <2>1. \A j \in Instances : entries'[j] \subseteq entries[j]
    BY <1>6 DEF Invalidate, MemoryTypeOK
  <2>2. /\ entries' \in [Instances -> SUBSET Entries]
        /\ pc' \in [Instances -> {"off", "loading", "rewriting", "up", "putting",
                                  "saving", "replacing"}]
        /\ task' \in [Instances -> Keys \cup {NoKey}]
        /\ UNCHANGED <<puts, expired, file, torn, temporary, promised, shared>>
    BY <1>6 DEF Invalidate, MemoryTypeOK, history
  <2>3. \A j \in Instances : \A m, n \in entries'[j] : puts[m] = puts[n] => m = n
    BY <2>1 DEF MemoryTypeOK
  <2>. QED
    BY <2>2, <2>3 DEF MemoryTypeOK, Entries
<1>7. ASSUME NEW i \in Instances, SaveTemporary(i)
      PROVE  MemoryTypeOK'
  <2>1. temporary' \in Seq(Entries)
    BY <1>7, RenderedIs DEF SaveTemporary
  <2>2. pc' \in [Instances -> {"off", "loading", "rewriting", "up", "putting",
                               "saving", "replacing"}]
    BY <1>7 DEF SaveTemporary, MemoryTypeOK
  <2>. QED
    BY <1>7, <2>1, <2>2 DEF SaveTemporary, MemoryTypeOK, Entries, history
<1>8. ASSUME NEW i \in Instances, Replace(i)
      PROVE  MemoryTypeOK'
  <2>1. file' \in Seq(Entries \cup {Torn}) /\ temporary' = NoFile
    <3>1. temporary \in Seq(Entries) /\ Entries \subseteq Entries \cup {Torn}
      BY <1>8 DEF Replace, MemoryTypeOK
    <3>2. temporary \in Seq(Entries \cup {Torn})
      BY <3>1, Wider
    <3>. QED
      BY <1>8, <3>2 DEF Replace
  <2>2. promised' \in [Keys -> Entries \cup {None}]
    BY <1>8 DEF Replace, MemoryTypeOK
  <2>3. /\ task' \in [Instances -> Keys \cup {NoKey}]
        /\ pc' \in [Instances -> {"off", "loading", "rewriting", "up", "putting",
                                  "saving", "replacing"}]
        /\ torn' \in BOOLEAN
        /\ UNCHANGED <<puts, expired, entries, shared>>
    BY <1>8 DEF Replace, MemoryTypeOK
  <2>. QED
    BY <2>1, <2>2, <2>3 DEF MemoryTypeOK, Entries
<1>9. ASSUME NEW i \in Instances, ReplaceFails(i)
      PROVE  MemoryTypeOK'
  <2>1. \A j \in Instances : entries'[j] \subseteq entries[j]
    BY <1>9 DEF ReplaceFails, Gone, MemoryTypeOK
  <2>2. /\ entries' \in [Instances -> SUBSET Entries]
        /\ pc' \in [Instances -> {"off", "loading", "rewriting", "up", "putting",
                                  "saving", "replacing"}]
        /\ task' \in [Instances -> Keys \cup {NoKey}]
        /\ UNCHANGED <<puts, expired, file, torn, temporary, promised, shared>>
    BY <1>9 DEF ReplaceFails, Gone, MemoryTypeOK, history
  <2>3. \A j \in Instances : \A m, n \in entries'[j] : puts[m] = puts[n] => m = n
    BY <2>1 DEF MemoryTypeOK
  <2>. QED
    BY <2>2, <2>3 DEF MemoryTypeOK, Entries
<1>10. CASE Expire
  BY <1>10 DEF Expire, MemoryTypeOK, Entries, history
<1>. QED
  BY <1>1, <1>2, <1>3, <1>4, <1>5, <1>6, <1>7, <1>8, <1>9, <1>10 DEF MemoryNext

-----------------------------------------------------------------------------
(* Steps of instances that follow each other.                              *)

\* With one TTL every step keeps the order of expiry.
LEMMA ExpireStep ==
  ASSUME OneTtl, MemoryTypeOK, ExpireInv, MemoryNext
  PROVE  ExpireInv'
<1>1. CASE UNCHANGED expired
  BY <1>1 DEF ExpireInv
<1>2. CASE Expire
  <2>1. PICK n \in Entries \ expired :
          (\A m \in 1 .. n - 1 : m \in expired) /\ expired' = expired \cup {n}
    BY <1>2 DEF Expire
  <2>. QED
    BY <2>1 DEF ExpireInv
<1>. QED
  BY <1>1, <1>2 DEF MemoryNext, Open, Close, CloseAppending, Put, Invalidate, AppendLine,
                    GetExpired, SaveTemporary, Replace, ReplaceFails

\* No entry is of no key.
LEMMA OfNoKey ==
  ASSUME MemoryTypeOK
  PROVE  OfKey(NoKey) = {}
<1>1. \A n \in Entries : puts[n] \in Keys
  BY DEF MemoryTypeOK, Entries
<1>. QED
  BY <1>1, MemoryAssumption DEF OfKey

\* A step of the one instance that is on leaves the others off.
LEMMA OthersOff ==
  ASSUME NEW i \in Instances,
         \A j \in Instances \ {i} : pc[j] = "off" /\ InstanceInv(j)
                                    /\ pc'[j] = pc[j] /\ task'[j] = task[j]
  PROVE  Follow' /\ \A j \in Instances \ {i} : InstanceInv(j)'
<1>1. Follow'
  BY DEF Follow
<1>2. ASSUME NEW j \in Instances \ {i}
      PROVE  InstanceInv(j)'
  <2>1. pc'[j] = "off" /\ task'[j] = NoKey
    BY DEF InstanceInv
  <2>. QED
    BY <2>1 DEF InstanceInv
<1>. QED
  BY <1>1, <1>2

\* What the lines hold with one more, and their order.
LEMMA HeldAppend ==
  ASSUME NEW S, NEW lines \in Seq(S), NEW line
  PROVE  /\ Held(Append(lines, line)) = (Held(lines) \cup {line}) \ {Torn}
         /\ Ordered(lines) /\ (line # Torn =>
              \A x \in Held(lines) : puts[x] = puts[line] => x < line)
              => Ordered(Append(lines, line))
<1>0. PICK more : more = Append(lines, line)
  OBVIOUS
<1>1. PICK n \in Nat : n = Len(lines)
  OBVIOUS
<1>2. DOMAIN lines = 1 .. n
  BY <1>1
<1>3. /\ DOMAIN more = 1 .. n + 1
      /\ more[n + 1] = line
      /\ \A j \in 1 .. n : more[j] = lines[j]
  <2>1. lines \in Seq(S \cup {line}) /\ line \in S \cup {line}
    OBVIOUS
  <2>. QED
    BY <1>0, <1>1, <2>1
<1>4. /\ \A j \in 1 .. n + 1 : j = n + 1 \/ j \in 1 .. n
      /\ 1 .. n \subseteq 1 .. n + 1 /\ n + 1 \in 1 .. n + 1
      /\ \A j \in 1 .. n + 1 : ~(n + 1 < j)
  BY <1>1
<1>5. Held(more) = (Held(lines) \cup {line}) \ {Torn}
  BY <1>2, <1>3, <1>4 DEF Held
<1>6. ASSUME Ordered(lines),
             line # Torn => \A x \in Held(lines) : puts[x] = puts[line] => x < line
      PROVE  Ordered(more)
  <2>. SUFFICES ASSUME NEW j \in DOMAIN more, NEW l \in DOMAIN more, j < l,
                       more[j] # Torn, more[l] # Torn, puts[more[j]] = puts[more[l]]
                PROVE  more[j] < more[l]
    BY DEF Ordered
  <2>1. j \in 1 .. n
    BY <1>3, <1>4
  <2>2. CASE l = n + 1
    BY <1>2, <1>3, <1>6, <2>1, <2>2 DEF Held
  <2>3. CASE l \in 1 .. n
    BY <1>2, <1>3, <1>6, <2>1, <2>3 DEF Ordered
  <2>. QED
    BY <1>3, <1>4, <2>2, <2>3
<1>. QED
  BY <1>0, <1>5, <1>6

\* The entry that is put is the latest, and a write promises it.
LEMMA WriteStep ==
  ASSUME MemoryTypeOK, ExpireInv, FileInv, NEW i \in Instances, InstanceInv(i),
         pc[i] = "putting", Write(i), UNCHANGED <<puts, expired>>
  PROVE  FileInv' /\ (entries[i] \cap Whole') \ expired = Kept'
<1>0. PICK n : n = Len(puts)
  OBVIOUS
<1>1. /\ task[i] \in Keys /\ n \in entries[i] /\ puts[n] = task[i]
      /\ n \notin Held(Lines) /\ ~torn
      /\ ((entries[i] \cap Whole) \ expired) \ OfKey(task[i]) = Kept \ OfKey(task[i])
  BY <1>0 DEF InstanceInv
<1>2. /\ Entries = 1 .. n /\ n \in Nat /\ n # 0 /\ n \in Entries
      /\ Held(Lines) \subseteq Entries /\ entries[i] \subseteq Entries
  BY <1>0, <1>1, LinesType DEF Entries, MemoryTypeOK
<1>3. file' = Append(Lines, n) /\ promised' = [promised EXCEPT ![task[i]] = n]
  <2>1. PICK m \in entries[i] : /\ puts[m] = task[i] /\ file' = With(m)
                               /\ promised' = [promised EXCEPT ![task[i]] = m]
    BY DEF Write
  <2>2. m = n
    BY <1>1, <2>1 DEF MemoryTypeOK
  <2>. QED
    BY <1>1, <2>1, <2>2 DEF With
<1>4. file' # NoFile
  BY WriteType
<1>5. Lines' = Append(Lines, n)
  BY <1>3, <1>4 DEF Lines
<1>6. Held(Lines') = Held(Lines) \cup {n}
  <2>1. Torn \notin Held(Lines) /\ n # Torn
    BY <1>2 DEF Held, Torn
  <2>. QED
    BY <1>5, <2>1, LinesType, HeldAppend
<1>7. Ordered(Lines')
  <2>1. \A x \in Held(Lines) : x < n
    BY <1>1, <1>2
  <2>. QED
    BY <1>5, <2>1, LinesType, HeldAppend DEF FileInv
<1>8. promised'[task[i]] = n /\ \A k \in Keys \ {task[i]} : promised'[k] = promised[k]
  BY <1>1, <1>3 DEF MemoryTypeOK
<1>9. \A x \in Held(Lines') : x \in Entries /\ puts[x] \in Keys
  BY <1>2, <1>6 DEF MemoryTypeOK, Entries
<1>w. /\ Whole' \subseteq Entries
      /\ \A x \in Entries : x \in Whole' <=> promised'[puts[x]] \notin Separated
      /\ \A x \in Entries : puts[x] # task[i] => (x \in Whole' <=> x \in Whole)
  <2>1. Whole' = {x \in Entries : promised'[puts[x]] \notin Separated}
    BY DEF Whole, Entries
  <2>2. \A x \in Entries : puts[x] \in Keys
    BY DEF MemoryTypeOK, Entries
  <2>. QED
    BY <1>8, <2>1, <2>2 DEF Whole
<1>10. FileInv'
  <2>1. Ordered(Lines)'
    BY <1>7 DEF Ordered
  <2>2. ASSUME NEW k \in Keys, promised'[k] # None
        PROVE  /\ puts[promised'[k]] = k
               /\ promised'[k] \notin expired \cup Separated => promised'[k] \in Held(Lines')
    BY <1>1, <1>6, <1>8, <2>2 DEF FileInv
  <2>3. ASSUME NEW x \in (Held(Lines') \cap Whole') \ expired
        PROVE  x <= promised'[puts[x]]
    <3>1. CASE puts[x] = task[i]
      BY <1>2, <1>8, <1>9, <2>3, <3>1
    <3>2. CASE puts[x] # task[i]
      <4>1. x \in (Held(Lines) \cap Whole) \ expired
        BY <1>1, <1>6, <1>9, <1>w, <3>2
      <4>. QED
        BY <1>8, <1>9, <3>2, <4>1 DEF FileInv
    <3>. QED
      BY <3>1, <3>2
  <2>. QED
    BY <1>4, <2>1, <2>2, <2>3 DEF FileInv, Held
<1>11. (entries[i] \cap Whole') \ expired = Kept'
  <2>1. \A x \in Entries :
          x \in Kept <=> x \notin expired \cup Separated /\ promised[puts[x]] = x
    BY KeptIs
  <2>2. /\ Kept' \subseteq Entries
        /\ \A x \in Entries :
             x \in Kept' <=> x \notin expired \cup Separated /\ promised'[puts[x]] = x
    <3>1. \A x \in Entries : puts[x] \in Keys /\ x # None
      BY DEF MemoryTypeOK, Entries, None
    <3>2. \A k \in Keys : promised'[k] \in Entries \cup {None}
      BY <1>2, <1>8 DEF MemoryTypeOK
    <3>3. \A x : x \in Kept' <=> /\ x # None /\ x \notin expired \cup Separated
                               /\ \E k \in Keys : promised'[k] = x
      BY DEF Kept
    <3>4. \A k \in Keys : promised'[k] # None => puts[promised'[k]] = k
      BY <1>10 DEF FileInv
    <3>. QED
      BY <3>1, <3>2, <3>3, <3>4
  <2>3. ASSUME NEW x \in Entries
        PROVE  x \in (entries[i] \cap Whole') \ expired <=> x \in Kept'
    <3>1. puts[x] \in Keys
      BY DEF MemoryTypeOK, Entries
    <3>2. CASE puts[x] = task[i]
      <4>1. x \in entries[i] => x = n
        BY <1>1, <3>2 DEF MemoryTypeOK
      <4>. QED
        BY <1>1, <1>8, <1>w, <2>2, <3>2, <4>1
    <3>3. CASE puts[x] # task[i]
      <4>1. x \notin OfKey(task[i])
        BY <3>3 DEF OfKey
      <4>2. x \in (entries[i] \cap Whole) \ expired <=> x \in Kept
        BY <1>1, <4>1
      <4>. QED
        BY <1>8, <1>w, <2>1, <2>2, <3>1, <3>3, <4>2
    <3>. QED
      BY <3>2, <3>3
  <2>. QED
    BY <1>2, <2>2, <2>3
<1>. QED
  BY <1>10, <1>11

\* Steps that leave the file and the promises alone.
LEMMA FileKept ==
  ASSUME FileInv, UNCHANGED <<puts, expired, file, promised>>, torn' => file # NoFile
  PROVE  /\ FileInv' /\ Kept' = Kept /\ Lines' = Lines /\ Whole' = Whole
         /\ \A k : OfKey(k)' = OfKey(k)
<1>1. Lines' = Lines /\ Whole' = Whole
  BY DEF Lines, Whole, Entries
<1>2. FileInv'
  BY <1>1 DEF FileInv, Ordered, Held
<1>. QED
  BY <1>1, <1>2 DEF Kept, OfKey, Entries

\* A step of an instance while no other is on.
LEMMA AloneStep ==
  ASSUME MemoryTypeOK, MemoryTypeOK', ExpireInv, FileInv, NEW i \in Instances, InstanceInv(i),
         \/ Open(i) \/ Close(i) \/ CloseAppending(i)
         \/ \E key \in Keys : Put(i, key) \/ Invalidate(i, key)
         \/ AppendLine(i) \/ GetExpired(i) \/ SaveTemporary(i)
         \/ Replace(i) \/ ReplaceFails(i)
  PROVE  FileInv' /\ InstanceInv(i)'
<1>0. OfKey(NoKey) = {} /\ Kept \cap expired = {}
  BY OfNoKey DEF Kept
<1>1. CASE Open(i)
  <2>1. /\ entries'[i] = Loaded /\ pc'[i] \in {"loading", "up"}
        /\ pc'[i] = "up" => file = NoFile
        /\ task'[i] = NoKey
        /\ UNCHANGED <<puts, expired, file, torn, promised>>
    BY <1>1 DEF Open, AfterLoad, MemoryTypeOK, InstanceInv
  <2>2. FileInv' /\ Kept' = Kept /\ Whole' = Whole /\ \A k : OfKey(k)' = OfKey(k)
    BY <2>1, FileKept DEF FileInv
  <2>3. Loaded \cap Whole = Kept
    BY LoadedIsKept
  <2>. QED
    BY <1>0, <2>1, <2>2, <2>3 DEF InstanceInv, FileInv
<1>2. CASE Close(i)
  <2>1. /\ pc'[i] = "off" /\ task'[i] = NoKey
        /\ UNCHANGED <<puts, expired, file, torn, promised>>
    BY <1>2 DEF Close, Gone, history, MemoryTypeOK
  <2>2. FileInv'
    BY <2>1, FileKept DEF FileInv
  <2>. QED
    BY <2>1, <2>2 DEF InstanceInv
<1>3. CASE CloseAppending(i)
  <2>1. /\ pc'[i] = "off" /\ task'[i] = NoKey /\ pc[i] = "putting" /\ ~torn
        /\ UNCHANGED <<puts, expired>>
    BY <1>3 DEF CloseAppending, Gone, MemoryTypeOK, InstanceInv
  <2>2. InstanceInv(i)'
    BY <2>1 DEF InstanceInv
  <2>3. CASE file' = Lines /\ UNCHANGED <<torn, promised>>
    <3>1. Lines' = Lines
      BY <2>3 DEF Lines
    <3>2. FileInv'
      BY <2>1, <2>3, <3>1 DEF FileInv, Ordered, Held, Whole, Entries
    <3>. QED
      BY <2>2, <3>2
  <2>4. CASE file' = With(Torn) /\ UNCHANGED promised
    <3>1. file' = Append(Lines, Torn) /\ file' # NoFile
      BY <2>1, <2>4, WithType DEF With
    <3>2. Lines' = Append(Lines, Torn)
      BY <3>1 DEF Lines
    <3>3. Ordered(Lines') /\ Held(Lines') = Held(Lines)
      <4>1. Torn \notin Held(Lines) /\ Ordered(Lines)
        BY DEF Held, FileInv
      <4>2. /\ Held(Append(Lines, Torn)) = (Held(Lines) \cup {Torn}) \ {Torn}
            /\ Ordered(Append(Lines, Torn))
        BY <4>1, LinesType, HeldAppend
      <4>. QED
        BY <3>2, <4>1, <4>2
    <3>4. FileInv'
      BY <2>1, <2>4, <3>1, <3>3 DEF FileInv, Ordered, Held, Whole, Entries
    <3>. QED
      BY <2>2, <3>4
  <2>5. CASE Write(i)
    BY <2>1, <2>2, <2>5, WriteStep
  <2>. QED
    BY <1>3, <2>3, <2>4, <2>5 DEF CloseAppending
<1>4. ASSUME NEW key \in Keys, Put(i, key)
      PROVE  FileInv' /\ InstanceInv(i)'
  <2>0. PICK new : new = Len(puts) + 1
    OBVIOUS
  <2>1. /\ puts' = Append(puts, key) /\ pc[i] = "up" /\ pc'[i] = "putting"
        /\ entries'[i] = (entries[i] \ OfKey(key)) \cup {new}
        /\ task'[i] = key
        /\ UNCHANGED <<expired, file, torn, promised>>
    BY <1>4, <2>0 DEF Put, MemoryTypeOK, history
  <2>2. /\ puts'[new] = key /\ Len(puts') = new
        /\ \A n \in Entries : puts'[n] = puts[n]
        /\ Entries' = Entries \cup {new} /\ new \notin Entries
    BY <2>0, <2>1, PutAdds
  <2>3. Lines' = Lines /\ Held(Lines) \subseteq Entries /\ Kept' = Kept
        /\ Kept \subseteq Entries
    BY <2>1, LinesType, KeptIs DEF Lines, Kept
  <2>4. \A k \in Keys : promised[k] # None => promised[k] \in Entries
    BY DEF MemoryTypeOK
  <2>w. \A x \in Entries : x \in Whole' <=> x \in Whole
    BY <2>1, <2>2 DEF Whole
  <2>5. FileInv'
    <3>1. Ordered(Lines)'
      <4>1. \A j \in DOMAIN Lines : Lines[j] # Torn => puts'[Lines[j]] = puts[Lines[j]]
        BY <2>2, <2>3 DEF Held
      <4>. QED
        BY <2>3, <4>1 DEF FileInv, Ordered
    <3>. QED
      <4>1. Held(Lines)' = Held(Lines)
        BY <2>3 DEF Held
      <4>2. \A k \in Keys : promised[k] # None => puts'[promised[k]] = k
        BY <2>2, <2>4 DEF FileInv
      <4>3. \A x \in (Held(Lines) \cap Whole') \ expired : x <= promised[puts'[x]]
        BY <2>2, <2>3, <2>w DEF FileInv
      <4>. QED
        BY <2>1, <3>1, <4>1, <4>2, <4>3 DEF FileInv
  <2>6. OfKey(key)' = OfKey(key) \cup {new}
    BY <2>2 DEF OfKey
  <2>7. new \notin Kept /\ new \notin Held(Lines) /\ new \notin expired
    BY <2>2, <2>3 DEF MemoryTypeOK
  <2>8. (entries[i] \cap Whole) \ expired = Kept /\ entries[i] \subseteq Entries /\ ~torn
    BY <1>0, <2>1 DEF InstanceInv, MemoryTypeOK
  <2>9. ((entries'[i] \cap Whole') \ expired') \ OfKey(key)' = Kept' \ OfKey(key)'
    BY <2>1, <2>3, <2>6, <2>7, <2>8, <2>w
  <2>10. Held(Lines)' = Held(Lines)
    BY <2>3 DEF Held
  <2>. QED
    BY <2>1, <2>2, <2>5, <2>7, <2>8, <2>9, <2>10 DEF InstanceInv
<1>5. ASSUME NEW key \in Keys, Invalidate(i, key)
      PROVE  FileInv' /\ InstanceInv(i)'
  <2>1. /\ pc[i] = "up" /\ pc'[i] = "saving" /\ task'[i] = key
        /\ entries'[i] = entries[i] \ OfKey(key)
        /\ UNCHANGED <<puts, expired, file, torn, promised>>
    BY <1>5 DEF Invalidate, MemoryTypeOK, history
  <2>2. FileInv' /\ Kept' = Kept /\ Whole' = Whole /\ \A k : OfKey(k)' = OfKey(k)
    BY <2>1, FileKept DEF FileInv
  <2>3. (entries[i] \cap Whole) \ expired = Kept /\ ~torn
    BY <1>0, <2>1 DEF InstanceInv
  <2>. QED
    BY <2>1, <2>2, <2>3 DEF InstanceInv
<1>6. CASE AppendLine(i)
  <2>1. /\ pc[i] = "putting" /\ Write(i) /\ ~torn' /\ task'[i] = NoKey /\ pc'[i] = "up"
        /\ UNCHANGED <<puts, expired, entries>>
    BY <1>6 DEF AppendLine, MemoryTypeOK
  <2>2. FileInv' /\ (entries[i] \cap Whole') \ expired = Kept'
    BY <2>1, WriteStep
  <2>3. OfKey(NoKey)' = {}
    BY <1>0, <2>1 DEF OfKey, Entries
  <2>. QED
    BY <2>1, <2>2, <2>3 DEF InstanceInv
<1>7. CASE GetExpired(i)
  <2>1. /\ pc[i] = "up" /\ pc'[i] = "saving" /\ task'[i] = task[i]
        /\ \E n \in expired : entries'[i] = entries[i] \ {n}
        /\ UNCHANGED <<puts, expired, file, torn, promised>>
    BY <1>7 DEF GetExpired, MemoryTypeOK, history
  <2>2. FileInv' /\ Kept' = Kept /\ Whole' = Whole /\ \A k : OfKey(k)' = OfKey(k)
    BY <2>1, FileKept DEF FileInv
  <2>3. /\ (entries'[i] \cap Whole) \ expired = Kept \ OfKey(task[i]) /\ ~torn
        /\ entries'[i] \cap OfKey(task[i]) = {}
    BY <2>1 DEF InstanceInv
  <2>. QED
    BY <2>1, <2>2, <2>3 DEF InstanceInv
<1>8. CASE SaveTemporary(i)
  <2>1. /\ pc[i] \in {"loading", "saving"} /\ task'[i] = task[i]
        /\ pc'[i] = IF pc[i] = "loading" THEN "rewriting" ELSE "replacing"
        /\ temporary' = Rendered(i)
        /\ UNCHANGED <<puts, expired, file, torn, promised, entries>>
    BY <1>8 DEF SaveTemporary, MemoryTypeOK, history
  <2>2. FileInv' /\ Kept' = Kept /\ Whole' = Whole /\ \A k : OfKey(k)' = OfKey(k)
    BY <2>1, FileKept DEF FileInv
  <2>3. temporary' # NoFile /\ Held(temporary') = entries[i] /\ Ordered(temporary)'
    BY <2>1, RenderedIs DEF Ordered
  <2>. QED
    BY <2>1, <2>2, <2>3 DEF InstanceInv, Held
<1>9. CASE Replace(i)
  <2>1. /\ pc[i] \in {"rewriting", "replacing"} /\ pc'[i] = "up"
        /\ file' = temporary /\ ~torn' /\ task'[i] = NoKey
        /\ promised' = [k \in Keys |-> IF k = task[i] THEN None ELSE promised[k]]
        /\ UNCHANGED <<puts, expired, entries>>
    BY <1>9 DEF Replace, MemoryTypeOK
  <2>2. /\ temporary # NoFile /\ Held(temporary) = entries[i] /\ Ordered(temporary)
        /\ (entries[i] \cap Whole) \ expired = Kept \ OfKey(task[i])
        /\ entries[i] \cap OfKey(task[i]) = {} /\ entries[i] \subseteq Entries
    BY <2>1 DEF InstanceInv, MemoryTypeOK
  <2>3. Lines' = temporary
    BY <2>1, <2>2 DEF Lines
  <2>4. \A x \in Entries :
          x \in Kept <=> x \notin expired \cup Separated /\ promised[puts[x]] = x
    BY KeptIs
  <2>5. \A x \in Entries : puts[x] \in Keys /\ x # None
    BY DEF MemoryTypeOK, Entries, None
  <2>6. \A k \in Keys : promised[k] # None => promised[k] \in Entries
    BY DEF MemoryTypeOK
  <2>w. entries[i] \cap Whole' = entries[i] \cap Whole
    <3>1. Whole' = {x \in Entries : promised'[puts[x]] \notin Separated}
      BY <2>1 DEF Whole, Entries
    <3>2. \A x \in entries[i] : puts[x] # task[i] /\ promised'[puts[x]] = promised[puts[x]]
      BY <2>1, <2>2, <2>5 DEF OfKey
    <3>. QED
      BY <2>2, <3>1, <3>2 DEF Whole
  <2>7. FileInv'
    <3>1. Ordered(Lines)' /\ Held(Lines') = entries[i] /\ file' # NoFile
      BY <2>1, <2>2, <2>3 DEF Ordered
    <3>2. ASSUME NEW k \in Keys, promised'[k] # None
          PROVE  /\ puts[promised'[k]] = k
                 /\ promised'[k] \notin expired \cup Separated => promised'[k] \in Held(Lines')
      <4>1. k # task[i] /\ promised'[k] = promised[k]
        BY <2>1, <3>2
      <4>2. promised[k] \in Entries /\ puts[promised[k]] = k
        BY <2>6, <3>2, <4>1 DEF FileInv
      <4>3. promised[k] \notin OfKey(task[i])
        BY <4>1, <4>2 DEF OfKey
      <4>4. promised[k] \notin expired \cup Separated => promised[k] \in Kept
        BY <2>4, <4>2
      <4>. QED
        BY <2>2, <3>1, <4>1, <4>2, <4>3, <4>4
    <3>3. ASSUME NEW x \in (Held(Lines') \cap Whole') \ expired
          PROVE  x <= promised'[puts[x]]
      <4>1. x \in Entries /\ x \in Kept /\ x \notin OfKey(task[i])
        BY <2>2, <2>w, <3>1, <3>3
      <4>2. puts[x] # task[i] /\ puts[x] \in Keys /\ promised[puts[x]] = x
        BY <2>4, <2>5, <4>1 DEF OfKey
      <4>3. promised'[puts[x]] = x
        BY <2>1, <4>2
      <4>. QED
        BY <4>1, <4>3, LinesType
    <3>. QED
      BY <2>1, <3>1, <3>2, <3>3 DEF FileInv, Held
  <2>8. Kept' = Kept \ OfKey(task[i])
    <3>1. \A x : x \in Kept' <=> /\ x # None /\ x \notin expired \cup Separated
                               /\ \E k \in Keys : promised'[k] = x
      BY <2>1 DEF Kept
    <3>2. \A x : x \in Kept <=> /\ x # None /\ x \notin expired \cup Separated
                              /\ \E k \in Keys : promised[k] = x
      BY DEF Kept
    <3>3. \A k \in Keys : promised[k] # None =>
            (promised[k] \in OfKey(task[i]) <=> k = task[i])
      BY <2>6 DEF FileInv, OfKey
    <3>4. \A k \in Keys : promised'[k] = IF k = task[i] THEN None ELSE promised[k]
      BY <2>1
    <3>. QED
      BY <3>1, <3>2, <3>3, <3>4
  <2>9. OfKey(NoKey)' = {}
    BY <1>0, <2>1 DEF OfKey, Entries
  <2>. QED
    BY <2>1, <2>2, <2>7, <2>8, <2>9, <2>w DEF InstanceInv
<1>10. CASE ReplaceFails(i)
  BY <1>10 DEF ReplaceFails, InstanceInv
<1>. QED
  BY <1>1, <1>2, <1>3, <1>4, <1>5, <1>6, <1>7, <1>8, <1>9, <1>10

\* Time takes from what is kept and from what is held alike.
LEMMA AloneExpire ==
  ASSUME MemoryTypeOK, FileInv, Expire
  PROVE  FileInv' /\ \A i \in Instances : InstanceInv(i) => InstanceInv(i)'
<1>1. PICK n : expired' = expired \cup {n}
  BY DEF Expire
<1>2. UNCHANGED <<puts, file, torn, temporary, pc, entries, task, promised>>
  BY DEF Expire, history
<1>3. /\ Lines' = Lines /\ Whole' = Whole /\ Kept' = Kept \ {n}
      /\ \A k : OfKey(k)' = OfKey(k)
  BY <1>1, <1>2 DEF Lines, OfKey, Entries, Kept, Whole
<1>4. FileInv'
  BY <1>1, <1>2, <1>3 DEF FileInv, Ordered, Held
<1>5. ASSUME NEW i \in Instances, InstanceInv(i)
      PROVE  InstanceInv(i)'
  <2>1. (entries[i] \cap Whole) \ expired = Kept \ OfKey(task[i])
          => (entries[i] \cap Whole) \ expired' = Kept' \ OfKey(task[i])
    BY <1>1, <1>3
  <2>2. ((entries[i] \cap Whole) \ expired) \ OfKey(task[i]) = Kept \ OfKey(task[i])
          => ((entries[i] \cap Whole) \ expired') \ OfKey(task[i]) = Kept' \ OfKey(task[i])
    BY <1>1, <1>3
  <2>3. OfKey(task[i])' = OfKey(task[i])
    BY <1>2, <1>3 DEF OfKey
  <2>. QED
    BY <1>2, <1>3, <1>5, <2>1, <2>2, <2>3 DEF InstanceInv, Held, Ordered
<1>. QED
  BY <1>4, <1>5

-----------------------------------------------------------------------------
(* The memory file: the theorems.                                          *)

LEMMA MemoryInitType == MemoryInit => MemoryTypeOK
<1>. SUFFICES ASSUME MemoryInit
              PROVE  MemoryTypeOK
  OBVIOUS
<1>1. /\ pc = [i \in Instances |-> "off"] /\ entries = [i \in Instances |-> {}]
      /\ task = [i \in Instances |-> NoKey] /\ promised = [k \in Keys |-> None]
      /\ expired = {} /\ torn = FALSE /\ shared = FALSE
      /\ file = NoFile /\ temporary = NoFile
  BY DEF MemoryInit
<1>2. puts \in Seq(Keys) /\ Len(puts) = 0
  <2>1. puts = <<>>
    BY DEF MemoryInit
  <2>. QED
    BY <2>1
<1>3. Len(puts) <= MaxPuts
  BY <1>2, MemoryAssumption
<1>. QED
  BY <1>1, <1>2, <1>3 DEF MemoryTypeOK

LEMMA MemoryTypeInvariance == MemorySpec => []MemoryTypeOK
<1>1. MemoryInit => MemoryTypeOK
  BY MemoryInitType
<1>2. MemoryTypeOK /\ [MemoryNext]_memoryVars => MemoryTypeOK'
  <2>1. MemoryTypeOK /\ UNCHANGED memoryVars => MemoryTypeOK'
    BY DEF MemoryTypeOK, Entries, memoryVars, history
  <2>. QED
    BY <2>1, MemoryTypeStep
<1>. QED
  BY <1>1, <1>2, PTL DEF MemorySpec

LEMMA MemoryInvariance ==
  ASSUME OneTtl
  PROVE  MemorySpec => []MemoryInv
<1>1. MemoryInit => MemoryInv
  <2>. SUFFICES ASSUME MemoryInit
                PROVE  ExpireInv /\ AloneInv
    BY MemoryInitType DEF MemoryInv
  <2>1. ExpireInv /\ Follow
    BY DEF MemoryInit, ExpireInv, Follow
  <2>2. FileInv
    <3>1. Lines = <<>> /\ DOMAIN <<>> = {}
      BY DEF MemoryInit, Lines
    <3>2. Ordered(Lines) /\ Held(Lines) = {}
      BY <3>1 DEF Ordered, Held
    <3>. QED
      BY <3>2 DEF FileInv, MemoryInit
  <2>3. \A i \in Instances : InstanceInv(i)
    BY DEF MemoryInit, InstanceInv
  <2>. QED
    BY <2>1, <2>2, <2>3 DEF AloneInv
<1>2. MemoryInv /\ [MemoryNext]_memoryVars => MemoryInv'
  <2>. SUFFICES ASSUME MemoryInv, MemoryNext
                PROVE  MemoryInv'
    <3>1. MemoryInv /\ UNCHANGED memoryVars => MemoryInv'
      BY DEF MemoryInv, MemoryTypeOK, ExpireInv, AloneInv, Follow, FileInv, InstanceInv, Ordered, Held,
             Lines, Kept, Whole, OfKey, Entries, memoryVars, history
    <3>. QED
      BY <3>1
  <2>1. MemoryTypeOK' /\ ExpireInv'
    BY MemoryTypeStep, ExpireStep DEF MemoryInv
  <2>2. ASSUME ~shared'
        PROVE  Follow' /\ FileInv' /\ \A i \in Instances : InstanceInv(i)'
    <3>1. ~shared
      BY <2>2 DEF MemoryInv, MemoryTypeOK, MemoryNext, Open, Close, CloseAppending, Put, Invalidate, AppendLine,
                  GetExpired, SaveTemporary, Replace, ReplaceFails, Expire, history
    <3>2. Follow /\ FileInv /\ \A i \in Instances : InstanceInv(i)
      BY <3>1 DEF MemoryInv, AloneInv
    <3>3. CASE Expire
      BY <3>2, <3>3, AloneExpire DEF MemoryInv, Follow, Expire
    <3>4. ASSUME NEW i \in Instances,
                 \/ Open(i) \/ Close(i) \/ CloseAppending(i)
                 \/ \E key \in Keys : Put(i, key) \/ Invalidate(i, key)
                 \/ AppendLine(i) \/ GetExpired(i) \/ SaveTemporary(i)
                 \/ Replace(i) \/ ReplaceFails(i)
          PROVE  Follow' /\ FileInv' /\ \A j \in Instances : InstanceInv(j)'
      <4>1. FileInv' /\ InstanceInv(i)'
        BY <2>1, <3>2, <3>4, AloneStep DEF MemoryInv
      <4>2. \A j \in Instances \ {i} : pc[j] = "off"
        <5>1. CASE pc[i] # "off"
          BY <3>2, <5>1 DEF Follow
        <5>2. CASE pc[i] = "off"
          BY <2>2, <3>4, <5>2
             DEF Open, Close, CloseAppending, Put, Invalidate, AppendLine,
                 GetExpired, SaveTemporary, Replace, ReplaceFails
        <5>. QED
          BY <5>1, <5>2
      <4>3. \A j \in Instances \ {i} : pc'[j] = pc[j] /\ task'[j] = task[j]
        BY <3>4 DEF MemoryInv, MemoryTypeOK, Open, Close, Gone, CloseAppending, Put, Invalidate, AppendLine,
                    GetExpired, SaveTemporary, Replace, ReplaceFails
      <4>. QED
        BY <3>2, <4>1, <4>2, <4>3, OthersOff
    <3>. QED
      BY <3>3, <3>4 DEF MemoryNext
  <2>. QED
    BY <2>1, <2>2 DEF MemoryInv, AloneInv
<1>. QED
  BY <1>1, <1>2, PTL DEF MemorySpec

\* Every variable keeps its type, however many instances open the file and
\* whatever TTLs the puts take.
THEOREM MemoryTypeCorrect == MemorySpec => []MemoryTypeOK
BY MemoryTypeInvariance

\* "Entries survive process restarts": with one TTL, instances that follow
\* each other load exactly what the operations before them left, wherever the
\* one before has stopped, of every key whose last put holds no separator of
\* splitlines, whatever the puts of the other keys hold.
THEOREM Survival ==
  ASSUME OneTtl
  PROVE  MemorySpec => []EntriesSurvive
<1>1. MemoryInv => EntriesSurvive
  BY LoadedIsKept DEF MemoryInv, AloneInv, EntriesSurvive
<1>. QED
  BY <1>1, MemoryInvariance, PTL

\* With one TTL an instance at rest answers as the one that will follow it, of
\* every key whose last put holds no separator of splitlines.
THEOREM DiskIsMemory ==
  ASSUME OneTtl
  PROVE  MemorySpec => []MemoryIsOnDisk
<1>1. MemoryInv => MemoryIsOnDisk
  BY LoadedIsKept, OfNoKey DEF MemoryInv, AloneInv, InstanceInv, MemoryIsOnDisk
<1>. QED
  BY <1>1, MemoryInvariance, PTL

-----------------------------------------------------------------------------
(* The conversation: the skills that are chosen.                           *)

RankingType == [keyword : [Skills -> Nat], cosine : [Skills -> Nat]]

LEMMA SelectType ==
  ASSUME NEW r \in RankingType, NEW mode, NEW k \in Nat
  PROVE  /\ Select(r, mode, k) \in Seq(Skills) /\ IsInjective(Select(r, mode, k))
         /\ Len(Select(r, mode, k)) <= k
<1> DEFINE E == Eligible(r, mode)
           Above(s) == {t \in E : \/ Score(r, mode, t) > Score(r, mode, s)
                                  \/ /\ Score(r, mode, t) = Score(r, mode, s)
                                     /\ t < s}
<1>1. Select(r, mode, k) = [i \in 1..Smaller(k, Cardinality(E)) |->
                               CHOOSE s \in E : Cardinality(Above(s)) = i - 1]
  BY DEF Select
<1>2. E \in SUBSET Skills /\ IsFiniteSet(E)
  <2>1. E \in SUBSET Skills
    BY DEF Eligible
  <2> QED
    BY <2>1, ContextAssumption, FS_Subset
<1> HIDE DEF E
<1>3. PICK v : v = [s \in E |-> Score(r, mode, s)]
  OBVIOUS
<1>4. v \in [E -> Nat]
  <2>1. \A s \in E : r.keyword[s] \in Nat /\ r.cosine[s] \in Nat
    BY <1>2 DEF RankingType
  <2> QED
    BY <1>3, <2>1 DEF Score
<1> DEFINE Better(s, t) == \/ v[s] > v[t]
                           \/ v[s] = v[t] /\ s < t
<1>5. PICK order : order = [s \in E |-> {t \in E : Better(t, s)}]
  OBVIOUS
<1>6. Ranks(E, order)
  <2>1. \A s \in E : s \in Nat /\ v[s] \in Nat
    BY <1>2, <1>4, ContextAssumption
  <2>2. order \in [E -> SUBSET E] /\ \A s \in E : s \notin order[s]
    BY <1>5, <2>1
  <2>3. \A s, t \in E : t \in order[s] => order[t] \subseteq order[s]
    BY <1>5, <2>1
  <2>4. \A s, t \in E : s # t => s \in order[t] \/ t \in order[s]
    BY <1>5, <2>1
  <2> QED
    BY <2>2, <2>3, <2>4 DEF Ranks
<1>7. /\ Cardinality(E) \in Nat
      /\ \A i \in 0..(Cardinality(E) - 1) : \E s \in E : Cardinality(order[s]) = i
  BY <1>2, <1>6, RankedOnce
<1>8. PICK n \in Nat : n = Smaller(k, Cardinality(E))
  BY <1>7 DEF Smaller
<1>9. n <= k /\ n <= Cardinality(E)
  BY <1>7, <1>8 DEF Smaller
<1>10. PICK chosen : chosen = Select(r, mode, k)
  OBVIOUS
<1>11. \A s \in E : order[s] = Above(s)
  BY <1>3, <1>5
<1> HIDE DEF Above
<1>12. DOMAIN chosen = 1..n
       /\ \A i \in 1..n : chosen[i] = CHOOSE s \in E : Cardinality(Above(s)) = i - 1
  BY <1>1, <1>8, <1>10
<1>13. \A i \in 1..n : chosen[i] \in E /\ Cardinality(order[chosen[i]]) = i - 1
  <2>1. ASSUME NEW i \in 1..n
        PROVE  chosen[i] \in E /\ Cardinality(order[chosen[i]]) = i - 1
    <3>1. i - 1 \in 0..(Cardinality(E) - 1)
      BY <1>7, <1>9
    <3>2. \E s \in E : Cardinality(order[s]) = i - 1
      BY <1>7, <3>1
    <3>3. \E s \in E : Cardinality(Above(s)) = i - 1
      BY <1>11, <3>2
    <3>4. chosen[i] = CHOOSE s \in E : Cardinality(Above(s)) = i - 1
      BY <1>12
    <3>5. chosen[i] \in E /\ Cardinality(Above(chosen[i])) = i - 1
      BY <3>3, <3>4, Zenon
    <3> QED
      BY <1>11, <3>5
  <2> QED
    BY <2>1
<1>14. chosen \in [1..n -> Skills]
  <2>1. chosen = [i \in 1..n |-> chosen[i]]
    BY <1>1, <1>8, <1>10
  <2> QED
    BY <1>2, <1>13, <2>1
<1>15. IsInjective(chosen)
  <2>1. ASSUME NEW i \in 1..n, NEW j \in 1..n, chosen[i] = chosen[j]
        PROVE  i = j
    <3>1. i - 1 = j - 1
      BY <1>13, <2>1
    <3> QED
      BY <3>1
  <2>2. DOMAIN chosen = 1..n
    BY <1>12
  <2> QED
    BY <2>1, <2>2 DEF IsInjective
<1>16. Len(chosen) = n /\ chosen \in Seq(Skills)
  BY <1>14
<1> QED
  BY <1>9, <1>10, <1>15, <1>16

LEMMA SkillCharsType ==
  ASSUME NEW chosen \in Seq(Skills)
  PROVE  SkillChars(chosen) \in Nat
<1>1. PICK n \in Nat : n = Len(chosen) /\ DOMAIN chosen = 1..n
  OBVIOUS
<1>2. [i \in DOMAIN chosen |-> SkillSize[chosen[i]]] \in [1..n -> Nat]
  <2>1. SkillSize \in [Skills -> Nat]
    BY ContextAssumption
  <2> QED
    BY <1>1, <2>1
<1>3. Total([i \in DOMAIN chosen |-> SkillSize[chosen[i]]]) \in Nat
  BY <1>2, TotalType
<1> QED
  BY <1>3, ContextAssumption DEF SkillChars, Smaller

-----------------------------------------------------------------------------
(* Dropping messages.                                                      *)

Dropping(f, n, seq, places) ==
  /\ f[0] = <<>> /\ f[n] = Without(seq, places)
  /\ \A k \in 1..n : f[k] = IF k \in places THEN f[k - 1]
                             ELSE Append(f[k - 1], seq[k])

LEMMA WithoutLoop ==
  ASSUME NEW A, NEW seq \in Seq(A), NEW n, n = Len(seq), NEW places
  PROVE  \E f \in [0..n -> Seq(A)] : Dropping(f, n, seq, places)
<1> DEFINE T == Seq(A)
           Step(v, k) == IF k \in places THEN v ELSE Append(v, seq[k])
           Numbers == [i \in DOMAIN seq |-> i]
           Solves(iter) == iter = [s \in SUBSET DOMAIN Numbers |->
                   IF s = {} THEN <<>>
                   ELSE Step(iter[s \ {Max(s)}], Numbers[Max(s)])]
<1>1. n \in Nat /\ DOMAIN seq = 1..n /\ DOMAIN Numbers = 1..n
      /\ \A k \in 1..n : Numbers[k] = k /\ seq[k] \in A
  OBVIOUS
<1>2. \A k \in 1..n : \A v \in T : Step(v, k) \in T
  BY <1>1
<1>3. <<>> \in T
  OBVIOUS
<1> HIDE DEF T, Numbers
<1>4. \E iter : Solves(iter)
  <2>1. PICK step : step = [k \in 1..n |-> [v \in T |-> Step(v, k)]]
    OBVIOUS
  <2>2. step \in [1..n -> [T -> T]]
    BY <1>2, <2>1
  <2>3. PICK iter \in [SUBSET (1..n) -> T] :
          /\ Folding(iter, n, <<>>, step)
          /\ \A s \in SUBSET (1..n) :
               s # {} => Max(s) \in 1..n /\ iter[s \ {Max(s)}] \in T
    BY <1>1, <1>3, <2>2, FoldTypes
  <2> HIDE DEF Step
  <2>4. \A s \in SUBSET (1..n) : s # {} =>
          step[Max(s)][iter[s \ {Max(s)}]] = Step(iter[s \ {Max(s)}], Numbers[Max(s)])
    BY <1>1, <2>1, <2>3
  <2>5. Solves(iter)
    BY <1>1, <2>3, <2>4 DEF Folding
  <2> QED
    BY <2>5
<1>5. PICK iter : Solves(iter) /\ Without(seq, places) = iter[1..n]
  BY <1>1, <1>4 DEF Without, FoldLeftDomain, FoldLeft, MapThenFoldSet, Numbers
<1> HIDE DEF Step
<1>6. PICK step : step = [k \in 1..n |-> [v \in T |-> Step(v, k)]]
  OBVIOUS
<1>7. step \in [1..n -> [T -> T]]
  BY <1>2, <1>6
<1>8. iter[{}] = <<>>
  BY <1>5
<1>9. ASSUME NEW k \in 1..n, iter[1..k - 1] \in T
      PROVE  iter[1..k] = step[k][iter[1..k - 1]]
  <2>1. 1..k \in SUBSET (1..n) /\ 1..k # {} /\ Max(1..k) = k
        /\ (1..k) \ {k} = 1..k - 1
    BY <1>1, IntervalFacts
  <2>2. Numbers[Max(1..k)] = k /\ 1..k \in SUBSET DOMAIN Numbers
    BY <1>1, <2>1
  <2>3. iter[1..k] = Step(iter[(1..k) \ {k}], k)
    BY <1>5, <2>1, <2>2
  <2> QED
    BY <1>6, <1>9, <2>1, <2>3
<1>10. PICK f \in [0..n -> T] : /\ f[0] = <<>> /\ f[n] = iter[1..n]
                               /\ \A k \in 1..n : f[k] = step[k][f[k - 1]]
  <2>1. n \in Nat /\ Follows(iter, n, T, <<>>, step)
    BY <1>1, <1>3, <1>7, <1>8, <1>9 DEF Follows
  <2> QED
    BY <2>1, Iterated
<1>11. \A k \in 1..n : f[k - 1] \in T
  BY <1>1, IntervalFacts
<1>12. \A k \in 1..n : f[k] = Step(f[k - 1], k)
  BY <1>6, <1>10, <1>11
<1> QED
  BY <1>5, <1>10, <1>12 DEF T, Step, Dropping

\* What is kept are the elements at the other places, and their order.
LEMMA WithoutIs ==
  ASSUME NEW A, NEW seq \in Seq(A), NEW places, NEW kept, kept = Without(seq, places)
  PROVE  /\ kept \in Seq(A)
         /\ \A q \in DOMAIN kept : \E i \in DOMAIN seq \ places : kept[q] = seq[i]
         /\ \A i \in DOMAIN seq \ places : \E q \in DOMAIN kept : kept[q] = seq[i]
<1>1. PICK n \in Nat : n = Len(seq) /\ DOMAIN seq = 1..n
  OBVIOUS
<1>2. PICK f \in [0..n -> Seq(A)] :
        /\ f[0] = <<>> /\ f[n] = kept
        /\ \A k \in 1..n : f[k] = IF k \in places THEN f[k - 1]
                                   ELSE Append(f[k - 1], seq[k])
  BY <1>1, WithoutLoop DEF Dropping
<1> DEFINE Holds(v, k) ==
             /\ \A q \in DOMAIN v : \E i \in 1..k : i \notin places /\ v[q] = seq[i]
             /\ \A i \in 1..k : i \notin places => \E q \in DOMAIN v : v[q] = seq[i]
           G == {k \in 0..n : Holds(f[k], k)}
<1>3. 0 \in G
  BY <1>1, <1>2
<1>4. ASSUME NEW k \in 1..n, k - 1 \in G
      PROVE  k \in G
  <2>1. /\ k \in Nat /\ k \in 0..n /\ k - 1 \in 0..n
        /\ \A i \in 1..k : i \in 1..k - 1 \/ i = k
        /\ \A i \in 1..k - 1 : i \in 1..k
    BY <1>1
  <2>2. PICK g \in Seq(A) : g = f[k - 1]
    BY <1>2, <2>1
  <2>3. /\ \A q \in DOMAIN g : \E i \in 1..k - 1 : i \notin places /\ g[q] = seq[i]
        /\ \A i \in 1..k - 1 : i \notin places => \E q \in DOMAIN g : g[q] = seq[i]
    BY <1>4, <2>2
  <2>4. CASE k \in places
    <3>1. f[k] = g
      BY <1>2, <2>2, <2>4
    <3>2. \A i \in 1..k : i \notin places => i \in 1..k - 1
      BY <2>1, <2>4
    <3>3. \A q \in DOMAIN g : \E i \in 1..k : i \notin places /\ g[q] = seq[i]
      <4>1. ASSUME NEW q \in DOMAIN g
            PROVE  \E i \in 1..k : i \notin places /\ g[q] = seq[i]
        <5>1. PICK i \in 1..k - 1 : i \notin places /\ g[q] = seq[i]
          BY <2>3
        <5> QED
          BY <2>1, <5>1
      <4> QED
        BY <4>1
    <3>4. \A i \in 1..k : i \notin places => \E q \in DOMAIN g : g[q] = seq[i]
      BY <2>3, <3>2, Zenon
    <3> QED
      BY <2>1, <3>1, <3>3, <3>4
  <2>5. CASE k \notin places
    <3>1. f[k] = Append(g, seq[k]) /\ seq[k] \in A
      <4>1. f[k] = Append(f[k - 1], seq[k])
        BY <1>2, <2>5
      <4>2. seq[k] \in A
        BY <1>1
      <4> QED
        BY <2>2, <4>1, <4>2
    <3>2. PICK m \in Nat : m = Len(g) /\ DOMAIN g = 1..m
      OBVIOUS
    <3>3. /\ DOMAIN f[k] = 1..m + 1 /\ f[k][m + 1] = seq[k]
          /\ \A q \in 1..m : f[k][q] = g[q]
          /\ \A q \in 1..m + 1 : q \in 1..m \/ q = m + 1
          /\ \A q \in 1..m : q \in 1..m + 1
          /\ m + 1 \in 1..m + 1
      BY <3>1, <3>2
    <3>4. \A q \in DOMAIN f[k] : \E i \in 1..k : i \notin places /\ f[k][q] = seq[i]
      <4>1. ASSUME NEW q \in 1..m
            PROVE  \E i \in 1..k : i \notin places /\ f[k][q] = seq[i]
        <5>1. PICK i \in 1..k - 1 : i \notin places /\ g[q] = seq[i]
          BY <2>3, <3>2
        <5> QED
          BY <2>1, <3>3, <5>1
      <4>2. k \in 1..k /\ f[k][m + 1] = seq[k]
        BY <2>1, <3>3
      <4> QED
        BY <2>5, <3>3, <4>1, <4>2
    <3>5. \A i \in 1..k : i \notin places => \E q \in DOMAIN f[k] : f[k][q] = seq[i]
      <4>1. ASSUME NEW i \in 1..k - 1, i \notin places
            PROVE  \E q \in DOMAIN f[k] : f[k][q] = seq[i]
        <5>1. PICK q \in 1..m : g[q] = seq[i]
          BY <2>3, <3>2, <4>1
        <5> QED
          BY <3>3, <5>1
      <4> QED
        BY <2>1, <3>3, <4>1
    <3> QED
      BY <2>1, <3>4, <3>5
  <2> QED
    BY <2>4, <2>5
<1>5. n \in G
  <2> HIDE DEF G
  <2>1. \A k \in 0..n : k \in G
    BY <1>3, <1>4, LoopHolds
  <2> QED
    BY <2>1, EmptyInterval
<1>6. kept \in Seq(A)
  BY <1>1, <1>2, EmptyInterval
<1>7. /\ \A q \in DOMAIN kept : \E i \in 1..n : i \notin places /\ kept[q] = seq[i]
      /\ \A i \in 1..n : i \notin places => \E q \in DOMAIN kept : kept[q] = seq[i]
  BY <1>2, <1>5
<1>8. \A i : i \in DOMAIN seq \ places <=> i \in 1..n /\ i \notin places
  BY <1>1
<1> QED
  BY <1>6, <1>7, <1>8, Zenon

InOrder(seq) == \A p, q \in DOMAIN seq : p < q => seq[p].id < seq[q].id

LEMMA WithoutInOrder ==
  ASSUME NEW seq \in Seq(Message), NEW places, InOrder(seq)
  PROVE  InOrder(Without(seq, places))
<1>1. PICK n \in Nat : n = Len(seq) /\ DOMAIN seq = 1..n
  OBVIOUS
<1>2. PICK f \in [0..n -> Seq(Message)] :
        /\ f[0] = <<>> /\ f[n] = Without(seq, places)
        /\ \A k \in 1..n : f[k] = IF k \in places THEN f[k - 1]
                                   ELSE Append(f[k - 1], seq[k])
  <2>1. \E f \in [0..n -> Seq(Message)] : Dropping(f, n, seq, places)
    BY <1>1, WithoutLoop
  <2> QED
    BY <2>1 DEF Dropping
<1> DEFINE Before(v, k) == \A q \in DOMAIN v : \A j \in k + 1..n : v[q].id < seq[j].id
           G == {k \in 0..n : InOrder(f[k]) /\ Before(f[k], k)}
<1>3. 0 \in G
  BY <1>1, <1>2 DEF InOrder
<1>4. ASSUME NEW k \in 1..n, k - 1 \in G
      PROVE  k \in G
  <2>1. k \in Nat /\ k \in 0..n /\ k - 1 \in 0..n /\ (k - 1) + 1 = k /\ k \in k..n
        /\ \A j \in k + 1..n : j \in k..n /\ j \in 1..n /\ k < j
    BY <1>1
  <2>2. PICK g \in Seq(Message) : g = f[k - 1]
    BY <1>2, <2>1
  <2>3. InOrder(g) /\ \A q \in DOMAIN g : \A j \in k..n : g[q].id < seq[j].id
    BY <1>4, <2>1, <2>2
  <2>4. CASE k \in places
    <3>1. f[k] = g
      BY <1>2, <2>2, <2>4
    <3>2. Before(g, k)
      BY <2>1, <2>3
    <3> QED
      BY <2>1, <2>3, <3>1, <3>2
  <2>5. CASE k \notin places
    <3>1. f[k] = Append(g, seq[k]) /\ seq[k] \in Message
      <4>1. f[k] = Append(f[k - 1], seq[k])
        BY <1>2, <2>5
      <4>2. seq[k] \in Message
        BY <1>1
      <4> QED
        BY <2>2, <4>1, <4>2
    <3>2. PICK m \in Nat : m = Len(g) /\ DOMAIN g = 1..m
      OBVIOUS
    <3>3. PICK h : h = f[k]
      OBVIOUS
    <3>4. /\ DOMAIN h = 1..m + 1 /\ h[m + 1] = seq[k]
          /\ \A q \in 1..m : h[q] = g[q]
          /\ \A q \in 1..m + 1 : q \in 1..m \/ q = m + 1
          /\ \A q \in 1..m : q \in 1..m + 1 /\ q < m + 1
          /\ m + 1 \in 1..m + 1
      BY <3>1, <3>2, <3>3
    <3>5. InOrder(h)
      <4>1. SUFFICES ASSUME NEW a \in 1..m + 1, NEW b \in 1..m + 1, a < b
                     PROVE  h[a].id < h[b].id
        BY <3>4 DEF InOrder
      <4>2. a \in 1..m
        BY <4>1
      <4>3. CASE b \in 1..m
        BY <2>3, <3>2, <3>4, <4>1, <4>2, <4>3 DEF InOrder
      <4>4. CASE b = m + 1
        BY <2>1, <2>3, <3>2, <3>4, <4>2, <4>4
      <4> QED
        BY <3>4, <4>3, <4>4
    <3>6. Before(h, k)
      <4>1. SUFFICES ASSUME NEW q \in 1..m + 1, NEW j \in k + 1..n
                     PROVE  h[q].id < seq[j].id
        BY <3>4
      <4>2. CASE q \in 1..m
        BY <2>1, <2>3, <3>2, <3>4, <4>2
      <4>3. CASE q = m + 1
        <5>1. k \in DOMAIN seq /\ j \in DOMAIN seq /\ k < j
          BY <1>1, <2>1
        <5>2. seq[k].id < seq[j].id
          BY <5>1 DEF InOrder
        <5> QED
          BY <3>4, <4>3, <5>2
      <4> QED
        BY <3>4, <4>2, <4>3
    <3> QED
      BY <2>1, <3>3, <3>5, <3>6
  <2> QED
    BY <2>4, <2>5
<1>5. n \in G
  <2> HIDE DEF G
  <2>1. \A k \in 0..n : k \in G
    BY <1>3, <1>4, LoopHolds
  <2> QED
    BY <2>1, EmptyInterval
<1> QED
  BY <1>2, <1>5

-----------------------------------------------------------------------------
(* Sizes.                                                                  *)

LEMMA MessageIs ==
  ASSUME NEW seq \in Seq(Message), NEW i \in DOMAIN seq
  PROVE  /\ seq[i] \in Message /\ seq[i].size \in Nat /\ seq[i].id \in 0..MaxMessages
         /\ seq[i].role \in Roles /\ seq[i].tool \in Tools \cup {NoName}
<1>1. PICK R : R = Message
  OBVIOUS
<1>2. seq[i] \in R
  BY <1>1
<1>3. \A m \in R : /\ m.size \in Nat /\ m.id \in 0..MaxMessages
                   /\ m.role \in Roles /\ m.tool \in Tools \cup {NoName}
  BY <1>1 DEF Message
<1> QED
  BY <1>1, <1>2, <1>3

LEMMA SizesType ==
  ASSUME NEW seq \in Seq(Message), NEW n \in Nat, n = Len(seq), NEW places
  PROVE  /\ DOMAIN seq = 1..n
         /\ [i \in DOMAIN seq |-> seq[i].size] \in [1..n -> Nat]
         /\ [i \in DOMAIN seq |-> IF i \in places THEN seq[i].size ELSE 0] \in [1..n -> Nat]
         /\ SizeOf(seq) \in Nat /\ SizeAt(seq, places) \in Nat
<1>1. DOMAIN seq = 1..n /\ \A i \in 1..n : seq[i].size \in Nat
  BY MessageIs
<1>2. PICK u, v : /\ u = [i \in DOMAIN seq |-> seq[i].size]
                  /\ v = [i \in DOMAIN seq |-> IF i \in places THEN seq[i].size ELSE 0]
  OBVIOUS
<1>3. u \in [1..n -> Nat] /\ v \in [1..n -> Nat]
  BY <1>1, <1>2
<1>4. Total(u) \in Nat /\ Total(v) \in Nat
  BY <1>3, TotalType
<1> QED
  BY <1>1, <1>2, <1>3, <1>4 DEF SizeOf, SizeAt

LEMMA SizeBehind ==
  ASSUME NEW seq \in Seq(Message), NEW m \in Message
  PROVE  SizeOf(Append(seq, m)) = SizeOf(seq) + m.size
<1>1. PICK n \in Nat : n = Len(seq) /\ DOMAIN seq = 1..n
  OBVIOUS
<1>2. PICK longer \in Seq(Message) : longer = Append(seq, m)
  <2>1. PICK A : A = Message
    OBVIOUS
  <2>2. Append(seq, m) \in Seq(A)
    BY <2>1
  <2> QED
    BY <2>1, <2>2, Zenon
<1>3. /\ Len(longer) = n + 1 /\ longer[n + 1] = m
      /\ \A i \in 1..n : longer[i] = seq[i] /\ i \in 1..n + 1
      /\ n + 1 \in 1..n + 1 /\ n + 1 \in Nat
  BY <1>1, <1>2
<1>4. PICK u, v : /\ u = [i \in DOMAIN seq |-> seq[i].size]
                  /\ v = [i \in DOMAIN longer |-> longer[i].size]
  OBVIOUS
<1>5. u \in [1..n -> Nat] /\ v \in [1..n + 1 -> Nat] /\ DOMAIN longer = 1..n + 1
  BY <1>1, <1>3, <1>4, SizesType
<1>6. v[n + 1] = m.size /\ \A i \in 1..n : v[i] = u[i]
  BY <1>1, <1>3, <1>4, <1>5
<1>7. Total(v) = Total(u) + v[n + 1]
  BY <1>5, <1>6, TotalBehind
<1> QED
  BY <1>2, <1>4, <1>6, <1>7 DEF SizeOf

LEMMA SizeInFront ==
  ASSUME NEW seq \in Seq(Message), NEW m \in Message
  PROVE  SizeOf(<<m>> \o seq) = m.size + SizeOf(seq)
<1>1. PICK n \in Nat : n = Len(seq) /\ DOMAIN seq = 1..n
  OBVIOUS
<1>2. PICK longer \in Seq(Message) : longer = <<m>> \o seq
  <2>1. PICK A : A = Message
    OBVIOUS
  <2>2. <<m>> \o seq \in Seq(A)
    BY <2>1
  <2> QED
    BY <2>1, <2>2, Zenon
<1>3. /\ Len(longer) = n + 1 /\ longer[1] = m
      /\ \A i \in 1..n : longer[i + 1] = seq[i] /\ i + 1 \in 1..n + 1
      /\ 1 \in 1..n + 1 /\ n + 1 \in Nat
  BY <1>1, <1>2
<1>4. PICK u, v : /\ u = [i \in DOMAIN seq |-> seq[i].size]
                  /\ v = [i \in DOMAIN longer |-> longer[i].size]
  OBVIOUS
<1>5. u \in [1..n -> Nat] /\ v \in [1..n + 1 -> Nat] /\ DOMAIN longer = 1..n + 1
  BY <1>1, <1>3, <1>4, SizesType
<1>6. v[1] = m.size /\ \A i \in 1..n : v[i + 1] = u[i]
  BY <1>1, <1>3, <1>4, <1>5
<1>7. Total(v) = v[1] + Total(u)
  BY <1>5, <1>6, TotalInFront
<1> QED
  BY <1>2, <1>4, <1>6, <1>7 DEF SizeOf

LEMMA SizeOfNothing ==
  SizeOf(<<>>) = 0 /\ \A seq \in Seq(Message) : SizeAt(seq, {}) = 0
<1>1. SizeOf(<<>>) = 0
  <2>1. PICK u : u = [i \in DOMAIN <<>> |-> <<>>[i].size]
    OBVIOUS
  <2>2. u \in [1..0 -> Nat] /\ \A i \in 1..0 : u[i] = 0
    BY <2>1
  <2>3. Total(u) = 0
    BY <2>2, TotalZero
  <2> QED
    BY <2>1, <2>3 DEF SizeOf
<1>2. ASSUME NEW seq \in Seq(Message)
      PROVE  SizeAt(seq, {}) = 0
  <2>1. PICK n \in Nat : n = Len(seq) /\ DOMAIN seq = 1..n
    OBVIOUS
  <2>2. PICK u : u = [i \in DOMAIN seq |-> IF i \in {} THEN seq[i].size ELSE 0]
    OBVIOUS
  <2>3. u \in [1..n -> Nat] /\ \A i \in 1..n : u[i] = 0
    BY <2>1, <2>2
  <2>4. Total(u) = 0
    BY <2>3, TotalZero
  <2> QED
    BY <2>2, <2>4 DEF SizeAt
<1> QED
  BY <1>1, <1>2

\* What is kept and what is dropped add up to what there was.
LEMMA WithoutSize ==
  ASSUME NEW seq \in Seq(Message), NEW places
  PROVE  SizeOf(seq) = SizeOf(Without(seq, places)) + SizeAt(seq, places)
<1>1. PICK n \in Nat : n = Len(seq) /\ DOMAIN seq = 1..n
  OBVIOUS
<1>2. PICK f \in [0..n -> Seq(Message)] :
        /\ f[0] = <<>> /\ f[n] = Without(seq, places)
        /\ \A k \in 1..n : f[k] = IF k \in places THEN f[k - 1]
                                   ELSE Append(f[k - 1], seq[k])
  <2>1. \E f \in [0..n -> Seq(Message)] : Dropping(f, n, seq, places)
    BY <1>1, WithoutLoop
  <2> QED
    BY <2>1 DEF Dropping
<1>3. PICK u, v, w : /\ u = [i \in DOMAIN seq |-> IF i \in places THEN 0 ELSE seq[i].size]
                     /\ v = [i \in DOMAIN seq |-> IF i \in places THEN seq[i].size ELSE 0]
                     /\ w = [i \in DOMAIN seq |-> seq[i].size]
  OBVIOUS
<1>4. /\ u \in [1..n -> Nat] /\ v \in [1..n -> Nat] /\ w \in [1..n -> Nat]
      /\ \A i \in 1..n : w[i] = u[i] + v[i]
  <2>1. \A i \in 1..n : seq[i].size \in Nat
    BY <1>1, MessageIs
  <2> QED
    BY <1>1, <1>3, <2>1
<1>5. Total(w) = Total(u) + Total(v)
  BY <1>4, TotalsAdd
<1>6. PICK g \in [0..n -> Nat] : /\ Total(u) = g[n] /\ g[0] = 0
                                 /\ \A k \in 1..n : g[k] = g[k - 1] + u[k]
  BY <1>4, TotalLoop
<1>7. PICK G : G = {k \in 0..n : SizeOf(f[k]) = g[k]}
  OBVIOUS
<1>8. 0 \in G
  BY <1>2, <1>6, <1>7, SizeOfNothing
<1>9. ASSUME NEW k \in 1..n, k - 1 \in G
      PROVE  k \in G
  <2>1. k \in 0..n /\ k - 1 \in 0..n /\ SizeOf(f[k - 1]) = g[k - 1] /\ g[k - 1] \in Nat
    BY <1>7, <1>9
  <2>2. g[k] = g[k - 1] + u[k]
    BY <1>6
  <2>5. f[k - 1] \in Seq(Message) /\ seq[k] \in Message
    <3>1. seq[k] \in Message
      BY <1>1, MessageIs
    <3> QED
      BY <1>2, <2>1, <3>1
  <2>3. CASE k \in places
    <3>1. f[k] = f[k - 1] /\ u[k] = 0
      BY <1>1, <1>2, <1>3, <2>3
    <3> QED
      BY <1>7, <2>1, <2>2, <3>1
  <2>4. CASE k \notin places
    <3>1. f[k] = Append(f[k - 1], seq[k]) /\ u[k] = seq[k].size
      BY <1>1, <1>2, <1>3, <2>4
    <3>2. SizeOf(f[k]) = SizeOf(f[k - 1]) + seq[k].size
      BY <2>5, <3>1, SizeBehind
    <3> QED
      BY <1>7, <2>1, <2>2, <3>1, <3>2
  <2> QED
    BY <2>3, <2>4
<1>10. n \in G
  <2>1. \A k \in 0..n : k \in G
    BY <1>8, <1>9, LoopHolds
  <2> QED
    BY <2>1, EmptyInterval
<1>11. SizeOf(Without(seq, places)) = Total(u)
  BY <1>2, <1>6, <1>7, <1>10
<1> QED
  BY <1>3, <1>5, <1>11 DEF SizeOf, SizeAt

-----------------------------------------------------------------------------
(* The layers.                                                             *)

StatsType == [sniped : Nat, micro : Nat, auto : Nat, removed : Int]

LEMMA SizesOrdered ==
  ASSUME NEW seq \in Seq(Message), NEW x, NEW y, x \subseteq y
  PROVE  SizeAt(seq, x) <= SizeAt(seq, y)
<1>1. PICK n \in Nat : DOMAIN seq = 1..n
  OBVIOUS
<1>2. PICK u, v : /\ u = [i \in DOMAIN seq |-> IF i \in x THEN seq[i].size ELSE 0]
                  /\ v = [i \in DOMAIN seq |-> IF i \in y THEN seq[i].size ELSE 0]
  OBVIOUS
<1>3. \A i \in 1..n : seq[i].size \in Nat
  BY <1>1, MessageIs
<1>4. u \in [1..n -> Nat] /\ v \in [1..n -> Nat] /\ \A i \in 1..n : u[i] <= v[i]
  BY <1>1, <1>2, <1>3
<1>5. Total(u) <= Total(v)
  BY <1>4, TotalsOrdered
<1> QED
  BY <1>2, <1>5 DEF SizeAt

\* A message of the compressed conversation is a summary or stems from one.
Stems(m, seq0) ==
  IF m.id = 0 THEN m.role = "tool" /\ m.tool = NoName
  ELSE /\ m.id \in DOMAIN seq0 /\ m.role = seq0[m.id].role
       /\ m.tool \in {seq0[m.id].tool, NoName}

\* A message is still there, or it is accounted for: summarized with all the
\* older outputs, or replaced by a newer one that is still there.
Holds(w, i) == \E p \in DOMAIN w.messages : w.messages[p].id = i
InSummary(i, w, seq0) ==
  /\ w.stats.auto > 0 /\ seq0[i].role = "tool"
  /\ \A j \in 1..i : seq0[j].role = "tool" => ~Holds(w, j)
HasNewer(i, w, seq0) ==
  \E tool \in SnapshotTools, j \in DOMAIN seq0 :
       /\ Holds(w, j) /\ w.stats.sniped > 0 /\ i < j
       /\ seq0[i].role = "tool" /\ seq0[i].tool = tool
       /\ seq0[j].role = "tool" /\ seq0[j].tool = tool
Missed(i, w, seq0) == InSummary(i, w, seq0) \/ HasNewer(i, w, seq0)
Accounted(i, w, seq0) == Holds(w, i) \/ Missed(i, w, seq0)

\* A layer adds nothing of the conversation, and accounts for what it takes.
Advances(w, new, seq0) ==
  /\ w.stats.auto > 0 => new.stats.auto > 0
  /\ w.stats.sniped > 0 => new.stats.sniped > 0
  /\ \A j \in DOMAIN seq0 : Holds(new, j) => Holds(w, j)
  /\ \A j \in DOMAIN seq0 : Holds(w, j) /\ ~Holds(new, j) => Missed(j, new, seq0)

Shortens(c) == c.keepTail > 0 /\ c.keepHead + c.keepTail + MarkerSize <= c.microMax

AddsUp(c, w, seq0) ==
  /\ w.stats.removed >= SizeOf(seq0) - SizeOf(w.messages)
  /\ Shortens(c) => w.stats.removed = SizeOf(seq0) - SizeOf(w.messages)

Work(c, seq0) ==
  {w \in [messages : Seq(Message), stats : StatsType] :
     /\ InOrder(w.messages)
     /\ \A p \in DOMAIN w.messages : Stems(w.messages[p], seq0)
     /\ \A i \in DOMAIN seq0 : Accounted(i, w, seq0)
     /\ AddsUp(c, w, seq0)}

\* What the layers take from the working copy w.
LEMMA WorkIs ==
  ASSUME NEW c, NEW seq0, NEW w \in Work(c, seq0)
  PROVE  /\ w.messages \in Seq(Message) /\ w.stats \in StatsType
         /\ w.stats.sniped \in Nat /\ w.stats.micro \in Nat /\ w.stats.auto \in Nat
         /\ w.stats.removed \in Int
         /\ InOrder(w.messages)
         /\ \A p \in DOMAIN w.messages : Stems(w.messages[p], seq0)
         /\ \A i \in DOMAIN seq0 : Accounted(i, w, seq0)
         /\ AddsUp(c, w, seq0)
<1>1. PICK S : S = Seq(Message)
  OBVIOUS
<1>2. w.messages \in S /\ w.stats \in StatsType
  BY <1>1 DEF Work
<1>3. /\ w.stats.sniped \in Nat /\ w.stats.micro \in Nat /\ w.stats.auto \in Nat
      /\ w.stats.removed \in Int
  BY <1>2 DEF StatsType
<1> QED
  BY <1>1, <1>2, <1>3 DEF Work

\* A sequence of messages that are numbered by their places.
Numbered(seq0) ==
  seq0 \in Seq(Message) /\ \A i \in DOMAIN seq0 : seq0[i].id = i

LEMMA NumberedIs ==
  ASSUME NEW seq0, Numbered(seq0)
  PROVE  /\ seq0 \in Seq(Message) /\ SizeOf(seq0) \in Nat /\ Len(seq0) \in Nat
         /\ DOMAIN seq0 = 1..Len(seq0) /\ \A i \in DOMAIN seq0 : seq0[i].id = i
<1>1. seq0 \in Seq(Message) /\ \A i \in DOMAIN seq0 : seq0[i].id = i
  BY DEF Numbered
<1>2. PICK n \in Nat : n = Len(seq0) /\ DOMAIN seq0 = 1..n
  BY <1>1
<1>3. SizeOf(seq0) \in Nat
  BY <1>1, <1>2, SizesType
<1> QED
  BY <1>1, <1>2, <1>3

\* What was replaced or summarized before a layer still is after it: where the
\* layer takes the newer output, it leaves a newer one or summarizes both.
LEMMA AccountsKept ==
  ASSUME NEW seq0, Numbered(seq0), NEW w, NEW new, Advances(w, new, seq0),
         NEW i \in DOMAIN seq0, Accounted(i, w, seq0)
  PROVE  Accounted(i, new, seq0)
<1>1. PICK n \in Nat : DOMAIN seq0 = 1..n
  BY NumberedIs
<1>2. CASE Holds(w, i)
  BY <1>2 DEF Advances, Accounted
<1>3. CASE InSummary(i, w, seq0)
  <2>1. \A j \in 1..i : j \in DOMAIN seq0
    BY <1>1
  <2>2. InSummary(i, new, seq0)
    BY <1>3, <2>1 DEF Advances, InSummary
  <2> QED
    BY <2>2 DEF Accounted, Missed
<1>4. CASE HasNewer(i, w, seq0)
  <2>1. PICK tool \in SnapshotTools, j \in DOMAIN seq0 :
          /\ Holds(w, j) /\ w.stats.sniped > 0 /\ i < j
          /\ seq0[i].role = "tool" /\ seq0[i].tool = tool
          /\ seq0[j].role = "tool" /\ seq0[j].tool = tool
    BY <1>4 DEF HasNewer
  <2>2. CASE Holds(new, j)
    <3>1. HasNewer(i, new, seq0)
      BY <2>1, <2>2 DEF Advances, HasNewer
    <3> QED
      BY <3>1 DEF Accounted, Missed
  <2>3. CASE InSummary(j, new, seq0)
    <3>1. \A k \in 1..i : k \in 1..j
      BY <1>1, <2>1
    <3>2. InSummary(i, new, seq0)
      BY <2>1, <2>3, <3>1 DEF InSummary
    <3> QED
      BY <3>2 DEF Accounted, Missed
  <2>4. CASE HasNewer(j, new, seq0)
    <3>1. PICK k \in DOMAIN seq0 :
            /\ Holds(new, k) /\ new.stats.sniped > 0 /\ j < k
            /\ seq0[k].role = "tool" /\ seq0[k].tool = tool
      BY <2>1, <2>4 DEF HasNewer
    <3>2. i < k
      BY <1>1, <2>1, <3>1
    <3>3. HasNewer(i, new, seq0)
      BY <2>1, <3>1, <3>2 DEF HasNewer
    <3> QED
      BY <3>3 DEF Accounted, Missed
  <2> QED
    BY <2>1, <2>2, <2>3, <2>4 DEF Advances, Missed
<1> QED
  BY <1>2, <1>3, <1>4 DEF Accounted, Missed

LEMMA StaleStep ==
  ASSUME NEW c, NEW seq0, Numbered(seq0), NEW w \in Work(c, seq0)
  PROVE  StaleSnip(w) \in Work(c, seq0)
<1>1. PICK seq \in Seq(Message), stats \in StatsType : seq = w.messages /\ stats = w.stats
  BY WorkIs
<1>2. /\ stats.sniped \in Nat /\ stats.micro \in Nat /\ stats.auto \in Nat
      /\ stats.removed \in Int /\ SizeOf(seq0) \in Nat
      /\ InOrder(seq) /\ \A p \in DOMAIN seq : Stems(seq[p], seq0)
  <2>1. SizeOf(seq0) \in Nat
    BY NumberedIs
  <2> QED
    BY <1>1, <2>1, WorkIs
<1>3. PICK n \in Nat : n = Len(seq) /\ DOMAIN seq = 1..n
  BY <1>1
<1>4. PICK stale \in SUBSET (1..n) : stale = {i \in DOMAIN seq : Superseded(seq, i)}
  BY <1>3
<1>5. PICK kept \in Seq(Message) : kept = Without(seq, stale)
  BY <1>1, WithoutIs
<1>6. PICK new : new = StaleSnip(w)
  OBVIOUS
<1>7. /\ new.messages = kept
      /\ new.stats = [stats EXCEPT !.sniped = @ + Cardinality(stale),
                                   !.removed = @ + SizeAt(seq, stale)]
      /\ new = [messages |-> new.messages, stats |-> new.stats]
  BY <1>1, <1>4, <1>5, <1>6 DEF StaleSnip
<1>8. Cardinality(stale) \in Nat /\ (stale # {} => Cardinality(stale) > 0)
      /\ SizeAt(seq, stale) \in Nat /\ SizeOf(seq) \in Nat /\ SizeOf(kept) \in Nat
      /\ SizeOf(seq) = SizeOf(kept) + SizeAt(seq, stale)
  <2>1. IsFiniteSet(stale) /\ Cardinality(stale) \in Nat
    BY Counts
  <2>2. stale # {} => Cardinality(stale) # 0
    BY <2>1, FS_EmptySet
  <2>3. Len(kept) \in Nat
    BY <1>5
  <2>4. SizeAt(seq, stale) \in Nat /\ SizeOf(seq) \in Nat /\ SizeOf(kept) \in Nat
    BY <1>3, <2>3, SizesType
  <2> QED
    BY <1>5, <2>1, <2>2, <2>4, WithoutSize
<1>9. /\ new.stats \in StatsType
      /\ new.stats.sniped = stats.sniped + Cardinality(stale)
      /\ new.stats.auto = stats.auto
      /\ new.stats.removed = stats.removed + SizeAt(seq, stale)
  <2>1. PICK a, b : a = Cardinality(stale) /\ b = SizeAt(seq, stale)
    OBVIOUS
  <2>2. a \in Nat /\ b \in Nat
    BY <1>8, <2>1
  <2>3. new.stats = [sniped |-> stats.sniped + a, micro |-> stats.micro,
                     auto |-> stats.auto, removed |-> stats.removed + b]
    BY <1>7, <2>1 DEF StatsType
  <2> QED
    BY <1>2, <2>1, <2>2, <2>3 DEF StatsType
<1>10. InOrder(kept)
  BY <1>2, <1>5, WithoutInOrder
<1>11. /\ \A q \in DOMAIN kept : \E i \in DOMAIN seq \ stale : kept[q] = seq[i]
       /\ \A i \in DOMAIN seq \ stale : \E q \in DOMAIN kept : kept[q] = seq[i]
  BY <1>1, <1>5, WithoutIs
<1>12. \A q \in DOMAIN kept : Stems(kept[q], seq0)
  BY <1>2, <1>11
<1>13. ASSUME NEW i \in DOMAIN seq0, Holds(w, i), ~Holds(new, i)
       PROVE  HasNewer(i, new, seq0)
  <2>1. PICK p \in DOMAIN seq : seq[p].id = i
    BY <1>1, <1>13 DEF Holds
  <2>2. p \in stale
    BY <1>7, <1>11, <1>13, <2>1 DEF Holds
  <2>3. /\ seq[p].role = "tool" /\ seq[p].tool \in SnapshotTools
        /\ \E j \in (p + 1)..Len(seq) :
             seq[j].role = "tool" /\ seq[j].tool = seq[p].tool
    BY <1>4, <2>2 DEF Superseded
  <2>4. PICK same \in SUBSET (1..n) :
          same = {j \in 1..n : seq[j].role = "tool" /\ seq[j].tool = seq[p].tool}
    OBVIOUS
  <2>5. PICK j \in same : p < j /\ \A k \in same : k <= j
    <3>1. PICK k \in (p + 1)..n : seq[k].role = "tool" /\ seq[k].tool = seq[p].tool
      BY <1>3, <2>3
    <3>2. k \in same /\ p < k
      BY <1>3, <2>4, <3>1
    <3>3. PICK j \in same : \A l \in same : l <= j
      BY <3>2, MaxOfSubset
    <3> QED
      BY <1>3, <3>2, <3>3
  <2>6. /\ j \in DOMAIN seq /\ seq[j].role = "tool" /\ seq[j].tool = seq[p].tool
        /\ \A k \in (j + 1)..n : ~(seq[k].role = "tool" /\ seq[k].tool = seq[p].tool)
    BY <1>3, <2>4, <2>5
  <2>7. j \notin stale
    BY <1>3, <1>4, <2>6 DEF Superseded
  <2>8. /\ seq[p].id \in Nat /\ seq[j].id \in Nat /\ i < seq[j].id /\ i > 0
        /\ \A t \in SnapshotTools : t # NoName
    <3>1. seq[p].id \in Nat /\ seq[j].id \in Nat
      BY <2>6, MessageIs
    <3>2. i > 0
      BY NumberedIs
    <3> QED
      BY <1>2, <2>1, <2>5, <2>6, <3>1, <3>2, ContextAssumption DEF InOrder
  <2>9. PICK k \in Nat : k = seq[j].id /\ i < k /\ k > 0
    BY <2>1, <2>8
  <2>10. seq0[i].role = "tool" /\ seq0[i].tool = seq[p].tool
    BY <1>2, <2>1, <2>3, <2>8 DEF Stems
  <2>11. k \in DOMAIN seq0 /\ seq0[k].role = "tool" /\ seq0[k].tool = seq[p].tool
    BY <1>2, <2>3, <2>6, <2>8, <2>9 DEF Stems
  <2>12. Holds(new, k)
    BY <1>7, <1>11, <2>6, <2>7, <2>9 DEF Holds
  <2>13. new.stats.sniped > 0
    BY <1>2, <1>8, <1>9, <2>2
  <2> QED
    BY <2>3, <2>9, <2>10, <2>11, <2>12, <2>13 DEF HasNewer
<1>14. Advances(w, new, seq0)
  <2>1. \A j \in DOMAIN seq0 : Holds(new, j) => Holds(w, j)
    BY <1>1, <1>7, <1>11 DEF Holds
  <2>2. new.stats.sniped >= stats.sniped /\ new.stats.auto = stats.auto
    BY <1>2, <1>8, <1>9
  <2>3. /\ w.stats.auto > 0 => new.stats.auto > 0
        /\ w.stats.sniped > 0 => new.stats.sniped > 0
    BY <1>1, <1>2, <1>9, <1>8, <2>2
  <2> QED
    BY <1>13, <2>1, <2>3 DEF Advances, Missed
<1>15. \A i \in DOMAIN seq0 : Accounted(i, new, seq0)
  BY <1>14, AccountsKept, WorkIs
<1>16. AddsUp(c, new, seq0)
  <2>1. AddsUp(c, w, seq0)
    BY WorkIs
  <2> QED
    BY <1>1, <1>2, <1>7, <1>8, <1>9, <2>1 DEF AddsUp
<1>17. new \in [messages : Seq(Message), stats : StatsType]
  BY <1>7, <1>9
<1> QED
  BY <1>6, <1>7, <1>10, <1>12, <1>15, <1>16, <1>17 DEF Work

LEMMA ConfigIs ==
  ASSUME NEW c \in Configs
  PROVE  /\ c.maxChars \in Nat /\ c.microMax \in Nat /\ c.microMax > 0
         /\ c.keepHead \in Nat /\ c.keepTail \in Nat /\ c.maxSkills \in Nat
         /\ c.layers \in Seq({"stale_snip", "micro_compact", "auto_compact"})
         /\ MarkerSize \in Nat
<1>1. c \in ConfigType /\ c.microMax > 0 /\ MarkerSize \in Nat
  BY ContextAssumption
<1> QED
  BY <1>1 DEF ConfigType

\* What is over the limit gets shorter, where trimming shortens.
LEMMA TrimmedIs ==
  ASSUME NEW c \in Configs, NEW size \in Nat
  PROVE  /\ Trimmed(c, size) \in Nat
         /\ Shortens(c) /\ size > c.microMax => Trimmed(c, size) <= size
<1>1. PICK head \in Nat, tail \in Nat, mark \in Nat, max \in Nat :
        head = c.keepHead /\ tail = c.keepTail /\ mark = MarkerSize /\ max = c.microMax
  BY ConfigIs
<1>2. Trimmed(c, size) = (IF head <= size THEN head ELSE size) + mark
        + IF tail = 0 THEN size ELSE (IF tail <= size THEN tail ELSE size)
  BY <1>1 DEF Trimmed, Smaller
<1>3. Shortens(c) <=> tail > 0 /\ head + tail + mark <= max
  BY <1>1 DEF Shortens
<1> QED
  BY <1>1, <1>2, <1>3

LEMMA MicroStep ==
  ASSUME NEW c \in Configs, NEW seq0, Numbered(seq0), NEW w \in Work(c, seq0)
  PROVE  MicroCompact(c, w) \in Work(c, seq0)
<1>1. PICK seq \in Seq(Message), stats \in StatsType : seq = w.messages /\ stats = w.stats
  BY WorkIs
<1>2. /\ stats.sniped \in Nat /\ stats.micro \in Nat /\ stats.auto \in Nat
      /\ stats.removed \in Int /\ SizeOf(seq0) \in Nat
      /\ InOrder(seq) /\ \A p \in DOMAIN seq : Stems(seq[p], seq0)
  <2>1. SizeOf(seq0) \in Nat
    BY NumberedIs
  <2> QED
    BY <1>1, <2>1, WorkIs
<1>3. PICK n \in Nat : n = Len(seq) /\ DOMAIN seq = 1..n
  BY <1>1
<1>4. PICK big \in SUBSET (1..n) : big = {i \in DOMAIN seq : Oversized(c, seq[i])}
  BY <1>3
<1>5. PICK trimmed : trimmed = [i \in 1..n |->
          IF i \in big THEN [seq[i] EXCEPT !.size = Trimmed(c, @), !.tool = NoName]
                       ELSE seq[i]]
  OBVIOUS
<1>6. PICK lost : lost = [i \in 1..n |->
          IF i \in big /\ seq[i].size > Trimmed(c, seq[i].size)
          THEN seq[i].size - Trimmed(c, seq[i].size) ELSE 0]
  OBVIOUS
<1>7. PICK new : new = MicroCompact(c, w)
  OBVIOUS
<1>8. /\ new.messages = trimmed
      /\ new.stats = [stats EXCEPT !.micro = @ + Cardinality(big),
                                   !.removed = @ + Total(lost)]
      /\ new = [messages |-> new.messages, stats |-> new.stats]
  BY <1>1, <1>3, <1>4, <1>5, <1>6, <1>7 DEF MicroCompact
<1>9. ASSUME NEW i \in 1..n
      PROVE  /\ trimmed[i] \in Message /\ trimmed[i].id = seq[i].id
             /\ trimmed[i].role = seq[i].role /\ trimmed[i].tool \in {seq[i].tool, NoName}
             /\ seq[i].size \in Nat /\ trimmed[i].size \in Nat /\ lost[i] \in Nat
             /\ seq[i].size <= trimmed[i].size + lost[i]
             /\ Shortens(c) => seq[i].size = trimmed[i].size + lost[i]
  <2>1. PICK m \in Message : m = seq[i]
    BY <1>3, MessageIs
  <2>2. m.size \in Nat
    BY DEF Message
  <2>3. PICK t \in Nat : t = Trimmed(c, m.size)
                         /\ (Shortens(c) /\ m.size > c.microMax => t <= m.size)
    BY <2>2, TrimmedIs
  <2>4. CASE i \in big
    <3>1. trimmed[i] = [m EXCEPT !.size = t, !.tool = NoName]
      BY <1>5, <2>1, <2>3, <2>4
    <3>2. trimmed[i] = [id |-> m.id, role |-> m.role, tool |-> NoName, size |-> t]
      BY <3>1 DEF Message
    <3>3. lost[i] = IF m.size > t THEN m.size - t ELSE 0
      BY <1>6, <2>1, <2>3, <2>4
    <3>4. m.size > c.microMax
      BY <1>4, <2>1, <2>4 DEF Oversized
    <3>5. trimmed[i] \in Message
      BY <2>3, <3>2 DEF Message
    <3>6. trimmed[i].size = t /\ lost[i] \in Nat /\ m.size <= t + lost[i]
          /\ (Shortens(c) => m.size = t + lost[i])
      BY <2>2, <2>3, <3>2, <3>3, <3>4
    <3> QED
      BY <2>1, <2>2, <3>2, <3>5, <3>6
  <2>5. CASE i \notin big
    <3>1. trimmed[i] = m
      BY <1>5, <2>1, <2>5
    <3>2. lost[i] = 0
      BY <1>6, <2>5
    <3>3. m.size = m.size + 0 /\ m.size <= m.size + 0
      BY <2>2
    <3> QED
      BY <2>1, <2>2, <3>1, <3>2, <3>3
  <2> QED
    BY <2>4, <2>5
<1>10. PICK u, v : /\ u = [i \in 1..n |-> seq[i].size]
                   /\ v = [i \in 1..n |-> trimmed[i].size]
  OBVIOUS
<1>11. PICK x : x = [i \in 1..n |-> v[i] + lost[i]]
  OBVIOUS
<1>12. /\ u \in [1..n -> Nat] /\ v \in [1..n -> Nat] /\ lost \in [1..n -> Nat]
       /\ x \in [1..n -> Nat] /\ \A i \in 1..n : x[i] = v[i] + lost[i] /\ u[i] <= x[i]
       /\ Shortens(c) => \A i \in 1..n : u[i] = v[i] + lost[i]
  <2>1. lost \in [1..n -> Nat]
    BY <1>6, <1>9
  <2>2. u \in [1..n -> Nat] /\ v \in [1..n -> Nat]
    BY <1>9, <1>10
  <2> QED
    BY <1>9, <1>10, <1>11, <2>1, <2>2
<1>13. /\ Total(u) \in Nat /\ Total(v) \in Nat /\ Total(lost) \in Nat
       /\ Total(u) <= Total(v) + Total(lost)
       /\ Shortens(c) => Total(u) = Total(v) + Total(lost)
  <2>1. Total(u) \in Nat /\ Total(v) \in Nat /\ Total(lost) \in Nat
    BY <1>12, TotalType
  <2>2. Total(u) <= Total(x)
    BY <1>12, TotalsOrdered
  <2>3. Total(x) = Total(v) + Total(lost)
    <3>1. \A i \in 1..n : x[i] = v[i] + lost[i]
      BY <1>12
    <3> QED
      BY <1>12, <3>1, TotalsAdd, Zenon
  <2>4. Shortens(c) => Total(u) = Total(v) + Total(lost)
    BY <1>12, TotalsAdd
  <2> QED
    BY <2>1, <2>2, <2>3, <2>4
<1>14. DOMAIN trimmed = 1..n /\ trimmed \in Seq(Message)
  <2>1. trimmed = [i \in 1..n |-> trimmed[i]]
    BY <1>5
  <2>2. \A i \in 1..n : trimmed[i] \in Message
    BY <1>9
  <2>3. PICK A : A = Message
    OBVIOUS
  <2>4. trimmed \in Seq(A)
    BY <2>1, <2>2, <2>3
  <2> QED
    BY <1>5, <2>3, <2>4
<1>15. SizeOf(seq) = Total(u) /\ SizeOf(trimmed) = Total(v)
  BY <1>3, <1>10, <1>14 DEF SizeOf
<1>16. /\ new.stats \in StatsType /\ new.stats.sniped = stats.sniped
       /\ new.stats.auto = stats.auto
       /\ new.stats.removed = stats.removed + Total(lost)
  <2>1. PICK a, b : a = Cardinality(big) /\ b = Total(lost)
    OBVIOUS
  <2>2. a \in Nat /\ b \in Nat
    BY <1>13, <2>1, Counts
  <2>3. new.stats = [sniped |-> stats.sniped, micro |-> stats.micro + a,
                     auto |-> stats.auto, removed |-> stats.removed + b]
    BY <1>8, <2>1 DEF StatsType
  <2> QED
    BY <1>2, <2>1, <2>2, <2>3 DEF StatsType
<1>17. InOrder(trimmed)
  BY <1>2, <1>3, <1>9, <1>14 DEF InOrder
<1>18. \A p \in DOMAIN trimmed : Stems(trimmed[p], seq0)
  <2>1. ASSUME NEW p \in 1..n
        PROVE  Stems(trimmed[p], seq0)
    BY <1>2, <1>3, <1>9 DEF Stems
  <2> QED
    BY <1>14, <2>1
<1>19. \A i \in DOMAIN seq0 : Accounted(i, new, seq0)
  <2>1. \A i \in DOMAIN seq0 : Holds(new, i) <=> Holds(w, i)
    BY <1>1, <1>3, <1>8, <1>9, <1>14 DEF Holds
  <2>2. Advances(w, new, seq0)
    BY <1>1, <1>8, <1>16, <2>1 DEF Advances
  <2> QED
    BY <2>2, AccountsKept, WorkIs
<1>20. AddsUp(c, new, seq0)
  <2>1. AddsUp(c, w, seq0)
    BY WorkIs
  <2> QED
    BY <1>1, <1>2, <1>8, <1>13, <1>15, <1>16, <2>1 DEF AddsUp
<1>21. new \in [messages : Seq(Message), stats : StatsType]
  BY <1>8, <1>14, <1>16
<1> QED
  BY <1>7, <1>8, <1>17, <1>18, <1>19, <1>20, <1>21 DEF Work

LEMMA AutoStep ==
  ASSUME NEW c \in Configs, NEW seq0, Numbered(seq0), NEW summary \in Nat,
         NEW w \in Work(c, seq0)
  PROVE  AutoCompact(c, w, summary) \in Work(c, seq0)
<1>1. PICK seq \in Seq(Message), stats \in StatsType : seq = w.messages /\ stats = w.stats
  BY WorkIs
<1>2. /\ stats.sniped \in Nat /\ stats.micro \in Nat /\ stats.auto \in Nat
      /\ stats.removed \in Int /\ SizeOf(seq0) \in Nat
      /\ InOrder(seq) /\ \A p \in DOMAIN seq : Stems(seq[p], seq0)
  <2>1. SizeOf(seq0) \in Nat
    BY NumberedIs
  <2> QED
    BY <1>1, <2>1, WorkIs
<1>3. PICK n \in Nat : n = Len(seq) /\ DOMAIN seq = 1..n
  BY <1>1
<1>4. PICK overflow : overflow = SizeOf(seq) - c.maxChars
  OBVIOUS
<1>5. PICK target : target = Max({1, overflow \div 4})
  OBVIOUS
<1>6. PICK dropped \in SUBSET (1..n) :
        dropped = {i \in DOMAIN seq : Summarized(seq, i, target)}
  BY <1>3
<1>7. PICK new : new = AutoCompact(c, w, summary)
  OBVIOUS
<1>8. PICK kept \in Seq(Message) : kept = Without(seq, dropped)
  BY <1>1, WithoutIs
<1>9. PICK m \in Message : m = [id |-> 0, role |-> "tool", tool |-> NoName, size |-> summary]
  <2>1. 0 \in 0..MaxMessages
    BY ContextAssumption
  <2>2. "tool" \in Roles
    BY DEF Roles
  <2>3. [id |-> 0, role |-> "tool", tool |-> NoName, size |-> summary] \in Message
    BY <2>1, <2>2 DEF Message
  <2> QED
    BY <2>3
<1>10. PICK shorter : shorter = <<m>> \o kept
  OBVIOUS
<1>11. CASE ~c.summarizes \/ overflow <= 0 \/ dropped = {}
  <2>1. new = w
    BY <1>1, <1>4, <1>5, <1>6, <1>7, <1>11 DEF AutoCompact
  <2> QED
    BY <1>7, <2>1
<1>12. CASE ~(~c.summarizes \/ overflow <= 0 \/ dropped = {})
  <2>1. /\ new.messages = shorter
        /\ new.stats = [stats EXCEPT !.auto = @ + 1,
                                     !.removed = @ + SizeAt(seq, dropped) - summary]
        /\ new = [messages |-> new.messages, stats |-> new.stats]
    BY <1>1, <1>4, <1>5, <1>6, <1>7, <1>8, <1>9, <1>10, <1>12 DEF AutoCompact
  <2>2. /\ SizeAt(seq, dropped) \in Nat /\ SizeOf(seq) \in Nat /\ SizeOf(kept) \in Nat
        /\ SizeOf(seq) = SizeOf(kept) + SizeAt(seq, dropped)
        /\ SizeOf(shorter) = summary + SizeOf(kept)
    <3>1. Len(kept) \in Nat
      BY <1>8
    <3>2. SizeAt(seq, dropped) \in Nat /\ SizeOf(seq) \in Nat /\ SizeOf(kept) \in Nat
      BY <1>3, <3>1, SizesType
    <3>3. SizeOf(seq) = SizeOf(kept) + SizeAt(seq, dropped)
      BY <1>8, WithoutSize
    <3>4. SizeOf(shorter) = m.size + SizeOf(kept)
      BY <1>10, SizeInFront
    <3>5. m.size = summary
      BY <1>9
    <3> QED
      BY <3>2, <3>3, <3>4, <3>5
  <2>3. /\ new.stats \in StatsType /\ new.stats.sniped = stats.sniped
        /\ new.stats.auto = stats.auto + 1
        /\ new.stats.removed = stats.removed + SizeAt(seq, dropped) - summary
    <3>1. PICK b \in Nat : b = SizeAt(seq, dropped)
      BY <2>2
    <3>2. new.stats = [sniped |-> stats.sniped, micro |-> stats.micro,
                       auto |-> stats.auto + 1, removed |-> stats.removed + b - summary]
      BY <2>1, <3>1 DEF StatsType
    <3> QED
      BY <1>2, <3>1, <3>2 DEF StatsType
  <2>4. InOrder(kept)
    BY <1>2, <1>8, WithoutInOrder
  <2>5. /\ \A q \in DOMAIN kept : \E i \in DOMAIN seq \ dropped : kept[q] = seq[i]
        /\ \A i \in DOMAIN seq \ dropped : \E q \in DOMAIN kept : kept[q] = seq[i]
    BY <1>1, <1>8, WithoutIs
  <2>5a. target \in Nat /\ target > 0
    <3>1. overflow \in Nat
      BY <1>4, <1>12, <2>2, ConfigIs
    <3>2. overflow \div 4 \in Nat
      BY <3>1
    <3>3. PICK x \in Nat : x = overflow \div 4
      BY <3>2
    <3>4. {1, x} \in SUBSET Nat /\ IF x >= 1 THEN x \in {1, x} /\ \A y \in {1, x} : y <= x
                                    ELSE 1 \in {1, x} /\ \A y \in {1, x} : y <= 1
      OBVIOUS
    <3>5. Max({1, x}) = IF x >= 1 THEN x ELSE 1
      BY <3>4, MaxIs
    <3> QED
      BY <1>5, <3>3, <3>5
  <2>6. ASSUME NEW i \in DOMAIN seq, seq[i].id = 0
        PROVE  i \in dropped
    <3>1. seq[i].role = "tool"
      BY <1>2, <2>6 DEF Stems
    <3>2. i = 1
      <4>1. ASSUME i # 1
            PROVE  FALSE
        <5>1. 1 \in DOMAIN seq /\ 1 < i
          BY <1>3, <4>1
        <5>2. seq[1].id < seq[i].id /\ seq[1].id \in 0..MaxMessages
          BY <1>2, <5>1, MessageIs DEF InOrder
        <5> QED
          BY <2>6, <5>2
      <4> QED
        BY <4>1
    <3>3. {j \in 1..(i - 1) : seq[j].role = "tool"} = {}
      BY <3>2
    <3>4. SizeAt(seq, {}) = 0
      BY SizeOfNothing
    <3>5. Summarized(seq, i, target)
      BY <2>5a, <3>1, <3>3, <3>4 DEF Summarized
    <3> QED
      BY <1>6, <3>5
  <2>7. ASSUME NEW q \in DOMAIN kept
        PROVE  /\ kept[q] \in Message /\ kept[q].id \in Nat /\ kept[q].id > 0
               /\ Stems(kept[q], seq0)
    <3>1. PICK i \in DOMAIN seq \ dropped : kept[q] = seq[i]
      BY <2>5
    <3>2. seq[i].id # 0 /\ seq[i].id \in 0..MaxMessages /\ seq[i] \in Message
      BY <2>6, <3>1, MessageIs
    <3> QED
      BY <1>2, <3>1, <3>2, ContextAssumption
  <2>8. PICK k \in Nat : k = Len(kept) /\ DOMAIN kept = 1..k
    BY <1>8
  <2>9. /\ DOMAIN shorter = 1..k + 1 /\ shorter[1] = m
        /\ \A p \in 1..k + 1 : p # 1 => p - 1 \in 1..k /\ shorter[p] = kept[p - 1]
        /\ \A q \in 1..k : q + 1 \in 1..k + 1 /\ shorter[q + 1] = kept[q]
        /\ 1 \in 1..k + 1
    BY <1>8, <1>10, <2>8
  <2>10. shorter \in Seq(Message)
    <3>1. PICK A : A = Message
      OBVIOUS
    <3>2. shorter \in Seq(A)
      BY <1>8, <1>9, <1>10, <3>1
    <3> QED
      BY <3>1, <3>2
  <2>11. m.id = 0 /\ Stems(m, seq0)
    BY <1>9 DEF Stems
  <2>12. InOrder(shorter)
    <3>1. SUFFICES ASSUME NEW a \in 1..k + 1, NEW b \in 1..k + 1, a < b
                   PROVE  shorter[a].id < shorter[b].id
      BY <2>9 DEF InOrder
    <3>2. b # 1 /\ b - 1 \in 1..k /\ shorter[b] = kept[b - 1]
      BY <2>9, <3>1
    <3>3. CASE a = 1
      BY <2>7, <2>8, <2>9, <2>11, <3>2, <3>3
    <3>4. CASE a # 1
      <4>1. a - 1 \in 1..k /\ shorter[a] = kept[a - 1] /\ a - 1 < b - 1
        BY <2>9, <3>1, <3>4
      <4> QED
        BY <2>4, <2>8, <3>2, <4>1 DEF InOrder
    <3> QED
      BY <3>3, <3>4
  <2>13. \A p \in DOMAIN shorter : Stems(shorter[p], seq0)
    BY <2>7, <2>8, <2>9, <2>11
  <2>14. \A j \in DOMAIN seq0 : Holds(new, j) => Holds(w, j)
    <3>1. ASSUME NEW j \in DOMAIN seq0, Holds(new, j)
          PROVE  Holds(w, j)
      <4>1. PICK p \in 1..k + 1 : shorter[p].id = j
        BY <2>1, <2>9, <3>1 DEF Holds
      <4>2. p # 1
        BY <2>9, <2>11, <4>1, NumberedIs
      <4>3. kept[p - 1].id = j /\ p - 1 \in DOMAIN kept
        BY <2>8, <2>9, <4>1, <4>2
      <4> QED
        BY <1>1, <2>5, <4>3 DEF Holds
    <3> QED
      BY <3>1
  <2>15. ASSUME NEW i \in DOMAIN seq, NEW j \in dropped, i <= j, seq[i].role = "tool"
         PROVE  i \in dropped
    <3>1. PICK x, y : x = {l \in 1..(i - 1) : seq[l].role = "tool"}
                      /\ y = {l \in 1..(j - 1) : seq[l].role = "tool"}
      OBVIOUS
    <3>2. i \in 1..n /\ j \in 1..n /\ i - 1 <= j - 1
      BY <1>3, <2>15
    <3>3. x \subseteq y
      BY <3>1, <3>2
    <3>4. SizeAt(seq, x) <= SizeAt(seq, y)
      BY <1>3, <3>3, SizesOrdered
    <3>5. SizeAt(seq, y) < target
      BY <1>6, <2>15, <3>1 DEF Summarized
    <3>6. SizeAt(seq, x) \in Nat /\ SizeAt(seq, y) \in Nat /\ target \in Nat
      BY <1>3, <2>5a, SizesType
    <3>7. SizeAt(seq, x) < target
      BY <3>4, <3>5, <3>6
    <3> QED
      BY <1>6, <2>15, <3>1, <3>7 DEF Summarized
  <2>16. ASSUME NEW i \in DOMAIN seq0, Holds(w, i), ~Holds(new, i)
         PROVE  InSummary(i, new, seq0)
    <3>1. PICK p \in DOMAIN seq : seq[p].id = i
      BY <1>1, <2>16 DEF Holds
    <3>2. ASSUME NEW j \in DOMAIN seq, j \notin dropped
          PROVE  Holds(new, seq[j].id)
      <4>1. PICK q \in 1..k : kept[q] = seq[j]
        BY <2>5, <2>8, <3>2
      <4>2. /\ q + 1 \in DOMAIN new.messages
            /\ new.messages[q + 1].id = seq[j].id
        BY <2>1, <2>9, <4>1
      <4> QED
        BY <4>2 DEF Holds
    <3>3. p \in dropped
      BY <2>16, <3>1, <3>2
    <3>4. seq[p].role = "tool" /\ i # 0
      BY <1>6, <3>3, NumberedIs DEF Summarized
    <3>5. seq0[i].role = "tool"
      BY <1>2, <3>1, <3>4 DEF Stems
    <3>6. ASSUME NEW j \in 1..i, seq0[j].role = "tool", Holds(new, j)
          PROVE  FALSE
      <4>1. j \in DOMAIN seq0 /\ j # 0 /\ j \in Nat /\ i \in Nat /\ j <= i
        BY NumberedIs
      <4>2. PICK q \in 1..k : kept[q].id = j
        <5>1. PICK l \in 1..k + 1 : shorter[l].id = j
          BY <2>1, <2>9, <3>6 DEF Holds
        <5>2. l # 1
          BY <2>9, <2>11, <4>1, <5>1
        <5> QED
          BY <2>9, <5>1, <5>2
      <4>3. PICK l \in DOMAIN seq \ dropped : seq[l].id = j
        BY <2>5, <2>8, <4>2
      <4>4. seq[l].role = "tool"
        BY <1>2, <3>6, <4>1, <4>3 DEF Stems
      <4>5. l <= p
        BY <1>2, <1>3, <3>1, <4>1, <4>3 DEF InOrder
      <4> QED
        BY <2>15, <3>3, <4>3, <4>4, <4>5
    <3>7. new.stats.auto > 0
      BY <1>2, <2>3
    <3> QED
      BY <3>5, <3>6, <3>7 DEF InSummary
  <2>17. Advances(w, new, seq0)
    <3>1. /\ w.stats.auto > 0 => new.stats.auto > 0
          /\ w.stats.sniped > 0 => new.stats.sniped > 0
      BY <1>1, <1>2, <2>3
    <3> QED
      BY <2>14, <2>16, <3>1 DEF Advances, Missed
  <2>18. \A i \in DOMAIN seq0 : Accounted(i, new, seq0)
    BY <2>17, AccountsKept, WorkIs
  <2>19. AddsUp(c, new, seq0)
    <3>1. AddsUp(c, w, seq0)
      BY WorkIs
    <3> QED
      BY <1>1, <1>2, <2>1, <2>2, <2>3, <3>1 DEF AddsUp
  <2>20. new \in [messages : Seq(Message), stats : StatsType]
    BY <2>1, <2>3, <2>10
  <2> QED
    BY <1>7, <2>1, <2>12, <2>13, <2>18, <2>19, <2>20 DEF Work
<1> QED
  BY <1>11, <1>12

\* Any layers in any order, each any number of times.
LEMMA CompressedIs ==
  ASSUME NEW c \in Configs, NEW seq0, Numbered(seq0), NEW summary \in Nat
  PROVE  Compressed(c, seq0, summary) \in Work(c, seq0)
<1> DEFINE T == Work(c, seq0)
           Start0 == [messages |-> seq0, stats |-> NoStats]
           Solves(iter) == iter = [s \in SUBSET DOMAIN c.layers |->
                   IF s = {} THEN Start0
                   ELSE Layer(c, c.layers[Max(s)], iter[s \ {Max(s)}], summary)]
<1>1. PICK n \in Nat : n = Len(c.layers) /\ DOMAIN c.layers = 1..n
  BY ConfigIs
<1>2. \A k \in 1..n : \A v \in T : Layer(c, c.layers[k], v, summary) \in T
  <2>1. ASSUME NEW k \in 1..n, NEW v \in T
        PROVE  Layer(c, c.layers[k], v, summary) \in T
    <3>1. StaleSnip(v) \in T /\ MicroCompact(c, v) \in T /\ AutoCompact(c, v, summary) \in T
      BY StaleStep, MicroStep, AutoStep
    <3> HIDE DEF T
    <3> QED
      BY <3>1 DEF Layer
  <2> QED
    BY <2>1
<1>3. Start0 \in T
  <2>1. /\ seq0 \in Seq(Message) /\ SizeOf(seq0) \in Nat /\ DOMAIN seq0 = 1..Len(seq0)
        /\ Len(seq0) \in Nat /\ \A i \in DOMAIN seq0 : seq0[i].id = i
    BY NumberedIs
  <2>2. NoStats \in StatsType /\ NoStats.removed = 0
    BY DEF NoStats, StatsType
  <2>3. InOrder(seq0)
    BY <2>1 DEF InOrder
  <2>4. \A p \in DOMAIN seq0 : Stems(seq0[p], seq0)
    BY <2>1 DEF Stems
  <2>5. \A i \in DOMAIN seq0 : Accounted(i, Start0, seq0)
    BY <2>1 DEF Accounted, Holds
  <2>6. AddsUp(c, Start0, seq0)
    BY <2>1, <2>2 DEF AddsUp
  <2> QED
    BY <2>1, <2>2, <2>3, <2>4, <2>5, <2>6 DEF Work
<1> HIDE DEF T, Start0
<1>4. \E iter : Solves(iter)
  <2>1. PICK step : step = [k \in 1..n |-> [v \in T |-> Layer(c, c.layers[k], v, summary)]]
    OBVIOUS
  <2>2. step \in [1..n -> [T -> T]]
    BY <1>2, <2>1
  <2>3. PICK iter \in [SUBSET (1..n) -> T] :
          /\ Folding(iter, n, Start0, step)
          /\ \A s \in SUBSET (1..n) :
               s # {} => Max(s) \in 1..n /\ iter[s \ {Max(s)}] \in T
    BY <1>1, <1>3, <2>2, FoldTypes
  <2>4. Solves(iter)
    BY <1>1, <2>1, <2>3 DEF Folding
  <2> QED
    BY <2>4
<1>5. PICK iter : Solves(iter) /\ Compressed(c, seq0, summary) = iter[1..n]
  BY <1>1, <1>4 DEF Compressed, FoldLeft, MapThenFoldSet, Start0
<1>6. PICK step : step = [k \in 1..n |-> [v \in T |-> Layer(c, c.layers[k], v, summary)]]
  OBVIOUS
<1>7. step \in [1..n -> [T -> T]]
  BY <1>2, <1>6
<1>8. iter[{}] = Start0
  BY <1>5
<1>9. ASSUME NEW k \in 1..n, iter[1..k - 1] \in T
      PROVE  iter[1..k] = step[k][iter[1..k - 1]]
  <2>1. 1..k \in SUBSET (1..n) /\ 1..k # {} /\ Max(1..k) = k
        /\ (1..k) \ {k} = 1..k - 1
    BY <1>1, IntervalFacts
  <2>2. iter[1..k] = Layer(c, c.layers[k], iter[1..k - 1], summary)
    BY <1>1, <1>5, <2>1
  <2> QED
    BY <1>6, <1>9, <2>2
<1>10. PICK f \in [0..n -> T] : f[n] = iter[1..n]
  <2>1. Follows(iter, n, T, Start0, step)
    BY <1>3, <1>7, <1>8, <1>9 DEF Follows
  <2> QED
    BY <2>1, Iterated
<1> QED
  BY <1>5, <1>10, EmptyInterval DEF T

-----------------------------------------------------------------------------
(* The messages that fit.                                                  *)

Progress == [used : Nat, cut : BOOLEAN, seq : Seq(Message)]
Nothing == [used |-> 0, cut |-> FALSE, seq |-> <<>>]

\* The loop over the messages from the newest back.
Taking(acc, m, room) ==
  IF acc.used + Cost(m) > room THEN [acc EXCEPT !.cut = TRUE]
  ELSE [acc EXCEPT !.used = @ + Cost(m), !.seq = <<m>> \o @]

Choosing(f, n, seq, room) ==
  /\ f[0] = Nothing /\ f[n] = Chosen(seq, room)
  /\ \A k \in 1..n : f[k] = Taking(f[k - 1], seq[n + 1 - k], room)

LEMMA CostIs ==
  ASSUME NEW m \in Message
  PROVE  Cost(m) \in Nat
<1>1. m.role \in Roles /\ m.size \in Nat
  BY DEF Message
<1>2. RoleSize \in [Roles -> Nat]
  BY ContextAssumption
<1> QED
  BY <1>1, <1>2 DEF Cost

LEMMA TakingIs ==
  ASSUME NEW acc \in Progress, NEW m \in Message, NEW room
  PROVE  /\ acc.used \in Nat /\ acc.cut \in BOOLEAN /\ acc.seq \in Seq(Message)
         /\ Taking(acc, m, room) \in Progress
         /\ acc.used + Cost(m) > room
              => Taking(acc, m, room) = [used |-> acc.used, cut |-> TRUE, seq |-> acc.seq]
         /\ ~(acc.used + Cost(m) > room)
              => Taking(acc, m, room) = [used |-> acc.used + Cost(m), cut |-> acc.cut,
                                         seq |-> <<m>> \o acc.seq]
<1>1. PICK A : A = Message
  OBVIOUS
<1>2. acc \in [used : Nat, cut : BOOLEAN, seq : Seq(A)] /\ m \in A
  BY <1>1 DEF Progress
<1>3. PICK c \in Nat : c = Cost(m)
  BY CostIs
<1>4. <<m>> \o acc.seq \in Seq(A)
  BY <1>2
<1>5. acc.used \in Nat /\ acc.cut \in BOOLEAN /\ acc.seq \in Seq(A) /\ acc.used + c \in Nat
  BY <1>2
<1>6. acc.used + c > room
        => Taking(acc, m, room) = [used |-> acc.used, cut |-> TRUE, seq |-> acc.seq]
  BY <1>2, <1>3 DEF Taking
<1>7. ~(acc.used + c > room)
        => Taking(acc, m, room) = [used |-> acc.used + c, cut |-> acc.cut,
                                   seq |-> <<m>> \o acc.seq]
  <2>1. PICK longer : longer = <<m>> \o acc.seq
    OBVIOUS
  <2>2. ~(acc.used + c > room)
          => Taking(acc, m, room) = [acc EXCEPT !.used = @ + c, !.seq = longer]
    BY <1>3, <2>1 DEF Taking
  <2> QED
    BY <1>2, <2>1, <2>2
<1>8. Taking(acc, m, room) \in [used : Nat, cut : BOOLEAN, seq : Seq(A)]
  <2>1. CASE acc.used + c > room
    <3>1. [used |-> acc.used, cut |-> TRUE, seq |-> acc.seq]
            \in [used : Nat, cut : BOOLEAN, seq : Seq(A)]
      BY <1>5
    <3> QED
      BY <1>6, <2>1, <3>1, Zenon
  <2>2. CASE ~(acc.used + c > room)
    <3>1. [used |-> acc.used + c, cut |-> acc.cut, seq |-> <<m>> \o acc.seq]
            \in [used : Nat, cut : BOOLEAN, seq : Seq(A)]
      BY <1>4, <1>5
    <3> QED
      BY <1>7, <2>2, <3>1, Zenon
  <2> QED
    BY <2>1, <2>2
<1> QED
  BY <1>1, <1>3, <1>5, <1>6, <1>7, <1>8 DEF Progress

LEMMA ChosenLoop ==
  ASSUME NEW seq \in Seq(Message), NEW n, n = Len(seq), NEW room
  PROVE  \E f \in [0..n -> Progress] : Choosing(f, n, seq, room)
<1> DEFINE T == Progress
           Step(acc, m) == Taking(acc, m, room)
           back == Reverse(seq)
<1>1. n \in Nat /\ DOMAIN seq = 1..n
  OBVIOUS
<1>3. DOMAIN back = 1..n /\ \A k \in 1..n : back[k] = seq[n + 1 - k] /\ back[k] \in Message
  <2>1. back = [k \in 1..n |-> seq[(n - k) + 1]]
    BY DEF Reverse
  <2>2. \A k \in 1..n : (n - k) + 1 = n + 1 - k /\ n + 1 - k \in DOMAIN seq
    BY <1>1
  <2>3. \A k \in 1..n : back[k] = seq[n + 1 - k]
    BY <2>1, <2>2
  <2>4. \A k \in 1..n : seq[n + 1 - k] \in Message
    BY <2>2, MessageIs
  <2> QED
    BY <2>1, <2>3, <2>4
<1>4. \A k \in 1..n : \A v \in T : Step(v, back[k]) \in T
  BY <1>3, TakingIs
<1>5. Nothing \in T
  BY DEF Nothing, Progress
<1> DEFINE Solves(iter) == iter = [s \in SUBSET DOMAIN back |->
                   IF s = {} THEN Nothing
                   ELSE Step(iter[s \ {Max(s)}], back[Max(s)])]
<1> HIDE DEF T, back
<1>6. \E iter : Solves(iter)
  <2>1. PICK step : step = [k \in 1..n |-> [v \in T |-> Step(v, back[k])]]
    OBVIOUS
  <2>2. step \in [1..n -> [T -> T]]
    BY <1>4, <2>1
  <2>3. PICK iter \in [SUBSET (1..n) -> T] :
          /\ Folding(iter, n, Nothing, step)
          /\ \A s \in SUBSET (1..n) :
               s # {} => Max(s) \in 1..n /\ iter[s \ {Max(s)}] \in T
    BY <1>1, <1>5, <2>2, FoldTypes
  <2> HIDE DEF Step
  <2>4. Solves(iter)
    BY <1>3, <2>1, <2>3 DEF Folding
  <2> QED
    BY <2>4
<1>7. PICK iter : Solves(iter) /\ Chosen(seq, room) = iter[1..n]
  BY <1>3, <1>6 DEF Chosen, FoldLeft, MapThenFoldSet, Nothing, Taking, back
<1> HIDE DEF Step
<1>8. PICK step : step = [k \in 1..n |-> [v \in T |-> Step(v, back[k])]]
  OBVIOUS
<1>9. step \in [1..n -> [T -> T]]
  BY <1>4, <1>8
<1>10. iter[{}] = Nothing
  BY <1>7
<1>11. ASSUME NEW k \in 1..n, iter[1..k - 1] \in T
       PROVE  iter[1..k] = step[k][iter[1..k - 1]]
  <2>1. 1..k \in SUBSET (1..n) /\ 1..k # {} /\ Max(1..k) = k
        /\ (1..k) \ {k} = 1..k - 1
    BY <1>1, IntervalFacts
  <2>2. 1..k \in SUBSET DOMAIN back
    BY <1>3, <2>1
  <2>3. iter[1..k] = Step(iter[(1..k) \ {k}], back[k])
    BY <1>7, <2>1, <2>2
  <2> QED
    BY <1>8, <1>11, <2>1, <2>3
<1>12. PICK f \in [0..n -> T] : /\ f[0] = Nothing /\ f[n] = iter[1..n]
                               /\ \A k \in 1..n : f[k] = step[k][f[k - 1]]
  <2>1. n \in Nat /\ Follows(iter, n, T, Nothing, step)
    BY <1>1, <1>5, <1>9, <1>10, <1>11 DEF Follows
  <2> QED
    BY <2>1, Iterated
<1>13. \A k \in 1..n : f[k - 1] \in T
  BY <1>1, IntervalFacts
<1>14. \A k \in 1..n : f[k] = Step(f[k - 1], back[k])
  BY <1>8, <1>12, <1>13
<1>15. \A k \in 1..n : f[k] = Taking(f[k - 1], seq[n + 1 - k], room)
  BY <1>3, <1>14 DEF Step
<1>16. Choosing(f, n, seq, room)
  BY <1>7, <1>12, <1>15 DEF Choosing
<1> QED
  BY <1>12, <1>16 DEF T

Costs(seq, S) == Total([i \in DOMAIN seq |-> IF i \in S THEN Cost(seq[i]) ELSE 0])

LEMMA CostsIs ==
  ASSUME NEW seq \in Seq(Message), NEW n \in Nat, n = Len(seq), NEW S
  PROVE  /\ DOMAIN seq = 1..n /\ \A i \in 1..n : Cost(seq[i]) \in Nat
         /\ [i \in DOMAIN seq |-> IF i \in S THEN Cost(seq[i]) ELSE 0] \in [1..n -> Nat]
         /\ Costs(seq, S) \in Nat
<1>1. DOMAIN seq = 1..n
  OBVIOUS
<1>2. \A i \in 1..n : Cost(seq[i]) \in Nat
  <2>1. ASSUME NEW i \in 1..n
        PROVE  Cost(seq[i]) \in Nat
    <3>1. seq[i] \in Message
      BY <1>1, MessageIs
    <3> QED
      BY <3>1, CostIs
  <2> QED
    BY <2>1
<1>3. [i \in DOMAIN seq |-> IF i \in S THEN Cost(seq[i]) ELSE 0] \in [1..n -> Nat]
  BY <1>1, <1>2
<1>4. Costs(seq, S) \in Nat
  BY <1>3, TotalType DEF Costs
<1> QED
  BY <1>1, <1>2, <1>3, <1>4

LEMMA CostsOfNone ==
  ASSUME NEW seq \in Seq(Message)
  PROVE  Costs(seq, {}) = 0
<1>1. PICK n \in Nat : n = Len(seq) /\ DOMAIN seq = 1..n
  OBVIOUS
<1>2. PICK u : u = [i \in DOMAIN seq |-> IF i \in {} THEN Cost(seq[i]) ELSE 0]
  OBVIOUS
<1>3. u \in [1..n -> Nat] /\ \A i \in 1..n : u[i] = 0
  BY <1>1, <1>2
<1>4. Total(u) = 0
  BY <1>3, TotalZero
<1> QED
  BY <1>2, <1>4 DEF Costs

LEMMA CostsOfOneMore ==
  ASSUME NEW seq \in Seq(Message), NEW p \in DOMAIN seq, NEW S, p \notin S
  PROVE  Costs(seq, S \cup {p}) = Costs(seq, S) + Cost(seq[p])
<1>1. PICK n \in Nat : n = Len(seq) /\ DOMAIN seq = 1..n
  OBVIOUS
<1>2. PICK u, v, w :
        /\ u = [i \in DOMAIN seq |-> IF i \in S THEN Cost(seq[i]) ELSE 0]
        /\ v = [i \in DOMAIN seq |-> IF i \in {p} THEN Cost(seq[i]) ELSE 0]
        /\ w = [i \in DOMAIN seq |-> IF i \in S \cup {p} THEN Cost(seq[i]) ELSE 0]
  OBVIOUS
<1>3. u \in [1..n -> Nat] /\ v \in [1..n -> Nat] /\ w \in [1..n -> Nat]
  <2>1. u \in [1..n -> Nat]
    BY <1>1, <1>2, CostsIs
  <2>2. v \in [1..n -> Nat]
    BY <1>1, <1>2, CostsIs
  <2>3. w \in [1..n -> Nat]
    BY <1>1, <1>2, CostsIs
  <2> QED
    BY <2>1, <2>2, <2>3
<1>4. \A i \in 1..n : Cost(seq[i]) \in Nat
  BY <1>1, CostsIs
<1>5. \A i \in 1..n : w[i] = u[i] + v[i]
  BY <1>1, <1>2, <1>4
<1>6. Total(w) = Total(u) + Total(v)
  BY <1>3, <1>5, TotalsAdd
<1>7. Total(v) = v[p]
  <2>1. \A i \in 1..n : i # p => v[i] = 0
    BY <1>1, <1>2
  <2> QED
    BY <1>1, <1>3, <2>1, TotalOfOne
<1>8. v[p] = Cost(seq[p])
  BY <1>2
<1> QED
  BY <1>2, <1>6, <1>7, <1>8 DEF Costs

\* What acc is after the k newest of the n messages, of which those at H were
\* taken.
Fitting(seq, n, room, k, acc, H) ==
  /\ H \in SUBSET ((n + 1 - k)..n)
  /\ acc.used = Costs(seq, H) /\ acc.used <= room
  /\ Ids(acc.seq) = {seq[i].id : i \in H}
  /\ acc.cut <=> H # (n + 1 - k)..n
  /\ \A i \in (n + 1 - k)..n :
       i \in H <=> Costs(seq, {j \in H : j > i}) + Cost(seq[i]) <= room

LEMMA FittingStep ==
  ASSUME NEW seq \in Seq(Message), NEW n \in Nat, n = Len(seq), NEW room \in Nat,
         NEW k \in 1..n, NEW acc \in Progress, NEW H,
         Fitting(seq, n, room, k - 1, acc, H)
  PROVE  \E H2 : Fitting(seq, n, room, k, Taking(acc, seq[n + 1 - k], room), H2)
<1>1. PICK p \in 1..n : p = n + 1 - k
  <2>1. n + 1 - k \in 1..n
    OBVIOUS
  <2> QED
    BY <2>1
<1>2. n + 1 - (k - 1) = p + 1 /\ p..n = (p + 1)..n \cup {p} /\ p \notin (p + 1)..n
      /\ p \in p..n /\ \A i \in (p + 1)..n : i > p /\ i \in Nat /\ i \in p..n
  BY <1>1
<1>3. /\ H \in SUBSET ((p + 1)..n)
      /\ acc.used = Costs(seq, H) /\ acc.used <= room
      /\ Ids(acc.seq) = {seq[i].id : i \in H}
      /\ acc.cut <=> H # (p + 1)..n
      /\ \A i \in (p + 1)..n :
           i \in H <=> Costs(seq, {j \in H : j > i}) + Cost(seq[i]) <= room
  BY <1>2 DEF Fitting
<1>4. /\ DOMAIN seq = 1..n /\ seq[p] \in Message /\ Cost(seq[p]) \in Nat
      /\ Costs(seq, H) \in Nat
  <2>1. DOMAIN seq = 1..n /\ \A i \in 1..n : Cost(seq[i]) \in Nat
    BY CostsIs
  <2>2. Costs(seq, H) \in Nat
    BY CostsIs
  <2>3. seq[p] \in Message
    BY <2>1, MessageIs
  <2> QED
    BY <2>1, <2>2, <2>3
<1>5. PICK m \in Message : m = seq[p]
  BY <1>4
<1>6. PICK new : new = Taking(acc, m, room)
  OBVIOUS
<1>7. H = {j \in H : j > p} /\ p \notin H
  BY <1>2, <1>3
<1>8. CASE acc.used + Cost(m) > room
  <2>1. new = [used |-> acc.used, cut |-> TRUE, seq |-> acc.seq]
    BY <1>6, <1>8, TakingIs
  <2>2. new.used = acc.used /\ new.cut = TRUE /\ new.seq = acc.seq
    BY <2>1
  <2>3. H \in SUBSET (p..n) /\ H # p..n
    BY <1>2, <1>3, <1>7
  <2>4. ASSUME NEW i \in p..n
        PROVE  i \in H <=> Costs(seq, {j \in H : j > i}) + Cost(seq[i]) <= room
    <3>1. CASE i = p
      <4>1. ~(Costs(seq, H) + Cost(seq[p]) <= room)
        BY <1>3, <1>4, <1>5, <1>8
      <4>2. ~(Costs(seq, {j \in H : j > p}) + Cost(seq[p]) <= room)
        BY <1>7, <4>1
      <4> QED
        BY <1>7, <3>1, <4>2
    <3>2. CASE i # p
      BY <1>2, <1>3, <3>2
    <3> QED
      BY <3>1, <3>2
  <2>5. Fitting(seq, n, room, k, new, H)
    BY <1>1, <1>3, <2>2, <2>3, <2>4 DEF Fitting
  <2> QED
    BY <1>1, <1>5, <1>6, <2>5
<1>9. CASE ~(acc.used + Cost(m) > room)
  <2>1. /\ new = [used |-> acc.used + Cost(m), cut |-> acc.cut, seq |-> <<m>> \o acc.seq]
        /\ acc.seq \in Seq(Message) /\ acc.cut \in BOOLEAN
    BY <1>6, <1>9, TakingIs
  <2>2. new.used = acc.used + Cost(m) /\ new.cut = acc.cut /\ new.seq = <<m>> \o acc.seq
    BY <2>1
  <2>3. PICK H2 : H2 = H \cup {p}
    OBVIOUS
  <2>4. H2 \in SUBSET (p..n) /\ (H2 # p..n <=> H # (p + 1)..n)
    BY <1>2, <1>3, <2>3
  <2>5. Costs(seq, H2) = Costs(seq, H) + Cost(seq[p])
    BY <1>4, <1>7, <2>3, CostsOfOneMore
  <2>6. new.used = Costs(seq, H2) /\ new.used <= room
    BY <1>3, <1>4, <1>5, <1>9, <2>2, <2>5
  <2>7. Ids(new.seq) = {seq[i].id : i \in H2}
    <3>1. PICK old : old = acc.seq
      OBVIOUS
    <3>2. PICK l \in Nat : l = Len(old) /\ DOMAIN old = 1..l
      <4>1. PICK A : A = Message
        OBVIOUS
      <4>2. old \in Seq(A)
        BY <2>1, <3>1, <4>1
      <4> QED
        BY <4>2
    <3>3. PICK longer : longer = new.seq
      OBVIOUS
    <3>4. /\ DOMAIN longer = 1..l + 1 /\ longer[1] = m
          /\ \A q \in 1..l + 1 : q # 1 => q - 1 \in 1..l /\ longer[q] = old[q - 1]
          /\ \A q \in 1..l : q + 1 \in 1..l + 1 /\ longer[q + 1] = old[q]
          /\ 1 \in 1..l + 1
      BY <2>1, <2>2, <3>1, <3>2, <3>3
    <3>5. \A x : x \in Ids(longer) <=> x = m.id \/ x \in Ids(old)
      <4>1. ASSUME NEW x \in Ids(longer)
            PROVE  x = m.id \/ x \in Ids(old)
        <5>1. PICK q \in 1..l + 1 : x = longer[q].id
          BY <3>4 DEF Ids
        <5> QED
          BY <3>2, <3>4, <5>1 DEF Ids
      <4>2. m.id \in Ids(longer)
        BY <3>4 DEF Ids
      <4>3. ASSUME NEW x \in Ids(old)
            PROVE  x \in Ids(longer)
        <5>1. PICK q \in 1..l : x = old[q].id
          BY <3>2 DEF Ids
        <5> QED
          BY <3>4, <5>1 DEF Ids
      <4> QED
        BY <4>1, <4>2, <4>3
    <3>6. Ids(old) = {seq[i].id : i \in H}
      BY <1>3, <3>1
    <3>7. \A x : x \in {seq[i].id : i \in H2} <=> x = m.id \/ x \in {seq[i].id : i \in H}
      BY <1>5, <2>3
    <3> QED
      BY <3>3, <3>5, <3>6, <3>7
  <2>8. ASSUME NEW i \in p..n
        PROVE  i \in H2 <=> Costs(seq, {j \in H2 : j > i}) + Cost(seq[i]) <= room
    <3>1. CASE i = p
      <4>1. {j \in H2 : j > p} = H
        BY <1>2, <1>7, <2>3
      <4>2. Costs(seq, H) + Cost(seq[p]) <= room
        BY <2>5, <2>6
      <4>3. Costs(seq, {j \in H2 : j > p}) + Cost(seq[p]) <= room
        BY <4>1, <4>2
      <4> QED
        BY <2>3, <3>1, <4>3
    <3>2. CASE i # p
      <4>1. i \in (p + 1)..n /\ {j \in H2 : j > i} = {j \in H : j > i}
        BY <1>2, <2>3, <3>2
      <4> QED
        BY <1>3, <2>3, <3>2, <4>1
    <3> QED
      BY <3>1, <3>2
  <2>9. new.cut <=> H2 # p..n
    BY <1>3, <2>2, <2>4
  <2>10. Fitting(seq, n, room, k, new, H2)
    BY <1>1, <2>4, <2>6, <2>7, <2>8, <2>9 DEF Fitting
  <2> QED
    BY <1>1, <1>5, <1>6, <2>10
<1> QED
  BY <1>8, <1>9

\* The places of the messages that are chosen.
Present(seq, room, here) ==
  here = {i \in DOMAIN seq : seq[i].id \in Ids(Chosen(seq, room).seq)}

\* From the newest back each message that still fits, and no other.
LEMMA ChosenIs ==
  ASSUME NEW seq \in Seq(Message), InOrder(seq), NEW room \in Nat, NEW here,
         Present(seq, room, here)
  PROVE  /\ Chosen(seq, room) \in Progress
         /\ Costs(seq, here) <= room
         /\ \A i \in DOMAIN seq :
              i \in here <=> Costs(seq, {j \in here : j > i}) + Cost(seq[i]) <= room
         /\ Chosen(seq, room).cut <=> here # DOMAIN seq
<1>1. PICK n \in Nat : n = Len(seq) /\ DOMAIN seq = 1..n
  OBVIOUS
<1>2. PICK f \in [0..n -> Progress] : Choosing(f, n, seq, room)
  BY <1>1, ChosenLoop
<1>3. PICK G : G = {k \in 0..n : \E H : Fitting(seq, n, room, k, f[k], H)}
  OBVIOUS
<1>4. 0 \in G
  <2>1. f[0] = [used |-> 0, cut |-> FALSE, seq |-> <<>>]
    BY <1>2 DEF Choosing, Nothing
  <2>2. (n + 1 - 0)..n = {} /\ Costs(seq, {}) = 0 /\ 0 <= room
    BY CostsOfNone
  <2>3. Ids(f[0].seq) = {}
    BY <2>1 DEF Ids
  <2>4. Fitting(seq, n, room, 0, f[0], {})
    BY <2>1, <2>2, <2>3 DEF Fitting
  <2> QED
    BY <1>1, <1>3, <2>4
<1>5. ASSUME NEW k \in 1..n, k - 1 \in G
      PROVE  k \in G
  <2>1. k \in 0..n /\ k - 1 \in 0..n
    OBVIOUS
  <2>2. PICK H : Fitting(seq, n, room, k - 1, f[k - 1], H)
    BY <1>3, <1>5
  <2>3. f[k - 1] \in Progress
    BY <2>1
  <2>4. \E H2 : Fitting(seq, n, room, k, Taking(f[k - 1], seq[n + 1 - k], room), H2)
    BY <1>1, <2>2, <2>3, FittingStep
  <2>5. f[k] = Taking(f[k - 1], seq[n + 1 - k], room)
    BY <1>2 DEF Choosing
  <2> QED
    BY <1>3, <2>1, <2>4, <2>5
<1>6. n \in G
  <2>1. \A k \in 0..n : k \in G
    BY <1>4, <1>5, LoopHolds
  <2> QED
    BY <2>1, EmptyInterval
<1>7. PICK acc \in Progress : acc = Chosen(seq, room) /\ acc = f[n]
  BY <1>2, EmptyInterval DEF Choosing
<1>8. PICK H : Fitting(seq, n, room, n, acc, H)
  BY <1>3, <1>6, <1>7
<1>9. n + 1 - n = 1
  OBVIOUS
<1>10. /\ H \in SUBSET (1..n) /\ acc.used = Costs(seq, H) /\ acc.used <= room
       /\ Ids(acc.seq) = {seq[i].id : i \in H}
       /\ acc.cut <=> H # 1..n
       /\ \A i \in 1..n : i \in H <=> Costs(seq, {j \in H : j > i}) + Cost(seq[i]) <= room
  BY <1>8, <1>9 DEF Fitting
<1>11. \A i, j \in 1..n : seq[i].id = seq[j].id => i = j
  <2>1. SUFFICES ASSUME NEW i \in 1..n, NEW j \in 1..n, seq[i].id = seq[j].id, i < j
                 PROVE  FALSE
    OBVIOUS
  <2>2. seq[i].id < seq[j].id /\ seq[i].id \in 0..MaxMessages
    BY <1>1, <2>1, MessageIs DEF InOrder
  <2> QED
    BY <2>1, <2>2
<1>12. here = H
  BY <1>1, <1>7, <1>10, <1>11 DEF Present
<1> QED
  BY <1>1, <1>7, <1>10, <1>12

-----------------------------------------------------------------------------
(* The invariant: a snapshot is what Snap makes of the state it was taken  *)
(* in, for no handler changes one without the other.                       *)

ConversationInv ==
  /\ config \in Configs
  /\ Numbered(messages) /\ Len(messages) <= MaxMessages
  /\ messages # <<>> => messages[1].role = "user"
  /\ instructions \in Nat /\ skillCut \in BOOLEAN
  /\ ranking \in RankingType
  /\ skills \in Seq(Skills) /\ IsInjective(skills) /\ Len(skills) <= config.maxSkills

ShownInv ==
  /\ shown.messages \in Seq(Message) /\ shown.truncated \in BOOLEAN
  /\ shown # NoSnapshot =>
       /\ shown.summary \in Nat
       /\ shown = Snap(config, messages, instructions, skillCut, shown.summary)

ContextInv == ConversationInv /\ ShownInv

LEMMA InvTyped ==
  ASSUME ContextInv
  PROVE  TypeOK
BY DEF ContextInv, ConversationInv, ShownInv, TypeOK, Numbered

\* What a snapshot is made of.
Snapping(c, seq0, length, cut, summary, w, chosen, snap) ==
  /\ w = Compressed(c, seq0, summary)
  /\ chosen = Chosen(w.messages, Room(c, length))
  /\ snap = Snap(c, seq0, length, cut, summary)

LEMMA SnapIs ==
  ASSUME NEW c \in Configs, NEW seq0, Numbered(seq0), NEW length \in Nat,
         NEW cut \in BOOLEAN, NEW summary \in Nat, NEW w, NEW chosen, NEW snap,
         Snapping(c, seq0, length, cut, summary, w, chosen, snap)
  PROVE  /\ w \in Work(c, seq0) /\ w.messages \in Seq(Message) /\ InOrder(w.messages)
         /\ Room(c, length) \in Nat
         /\ chosen \in Progress
         /\ snap.messages = chosen.seq /\ snap.messages \in Seq(Message)
         /\ snap.truncated \in BOOLEAN /\ (snap.truncated <=> chosen.cut \/ cut)
         /\ snap.stats = w.stats /\ snap.summary = summary
<1> USE DEF Snapping
<1>1. w \in Work(c, seq0)
  BY CompressedIs
<1>2. w.messages \in Seq(Message) /\ InOrder(w.messages)
  BY <1>1, WorkIs
<1>3. Room(c, length) \in Nat
  <2>1. c.maxChars \in Nat
    BY ConfigIs
  <2>2. TaskSize \in Nat
    BY ContextAssumption
  <2> QED
    BY <2>1, <2>2 DEF Room
<1>4. chosen \in Progress
  <2>1. PICK seq, room, here :
          /\ seq = w.messages /\ room = Room(c, length)
          /\ Present(seq, room, here)
    BY DEF Present
  <2>2. seq \in Seq(Message) /\ InOrder(seq) /\ room \in Nat
    BY <1>2, <1>3, <2>1
  <2>3. Chosen(seq, room) \in Progress
    BY <2>1, <2>2, ChosenIs
  <2> QED
    BY <2>1, <2>3
<1>5. chosen.seq \in Seq(Message) /\ chosen.cut \in BOOLEAN
  <2>1. PICK A : A = Message
    OBVIOUS
  <2>2. chosen.seq \in Seq(A) /\ chosen.cut \in BOOLEAN
    BY <1>4, <2>1 DEF Progress
  <2> QED
    BY <2>1, <2>2
<1>6. snap = [messages |-> chosen.seq, truncated |-> chosen.cut \/ cut,
              stats |-> w.stats, summary |-> summary]
  BY DEF Snap
<1>7. /\ snap.messages = chosen.seq /\ snap.truncated = (chosen.cut \/ cut)
      /\ snap.stats = w.stats /\ snap.summary = summary
  BY <1>6
<1>8. (chosen.cut \/ cut) \in BOOLEAN
  BY <1>5
<1>9. snap.truncated \in BOOLEAN /\ (snap.truncated <=> chosen.cut \/ cut)
  BY <1>7, <1>8
<1> QED
  BY <1>1, <1>2, <1>3, <1>4, <1>5, <1>7, <1>9

LEMMA NothingShown ==
  NoSnapshot.messages \in Seq(Message) /\ NoSnapshot.truncated \in BOOLEAN
BY DEF NoSnapshot

LEMMA ShowStep ==
  ASSUME ConversationInv', NEW summary \in Nat, Show(summary)
  PROVE  ShownInv'
<1>1. /\ config' \in Configs /\ Numbered(messages') /\ instructions' \in Nat
      /\ skillCut' \in BOOLEAN
  BY DEF ConversationInv, Numbered
<1>2. CASE shown' = NoSnapshot
  BY <1>2, NothingShown DEF ShownInv
<1>3. CASE shown' # NoSnapshot
  <2>1. shown' = Snap(config', messages', instructions', skillCut', summary)
    BY <1>3 DEF Show
  <2>2. PICK w, chosen :
          Snapping(config', messages', instructions', skillCut', summary, w, chosen, shown')
    BY <2>1 DEF Snapping
  <2>3. /\ shown'.messages \in Seq(Message) /\ shown'.truncated \in BOOLEAN
        /\ shown'.summary = summary
    BY <1>1, <2>1, <2>2, SnapIs
  <2>4. shown' = Snap(config', messages', instructions', skillCut', shown'.summary)
    BY <2>1, <2>3, Zenon
  <2> QED
    BY <2>3, <2>4 DEF ShownInv
<1> QED
  BY <1>2, <1>3

LEMMA PrepareStep ==
  ASSUME NEW c \in Configs, NEW seq, Numbered(seq), Len(seq) <= MaxMessages,
         seq # <<>> => seq[1].role = "user",
         NEW r \in RankingType, NEW project \in Nat, Prepare(c, seq, r, project)
  PROVE  ConversationInv'
<1>1. PICK chosen : chosen = Select(r, c.routing, c.maxSkills)
  OBVIOUS
<1>2. /\ config' = c /\ messages' = seq /\ ranking' = r /\ skills' = chosen
      /\ skillCut' = SkillsCut(chosen)
      /\ instructions' = SystemSize + Smaller(ProjectMax, project) + SkillChars(chosen)
  BY <1>1 DEF Prepare
<1>3. c.maxSkills \in Nat
  BY ContextAssumption DEF ConfigType
<1>4. chosen \in Seq(Skills) /\ IsInjective(chosen) /\ Len(chosen) <= c.maxSkills
  BY <1>1, <1>3, SelectType
<1>5. SkillChars(chosen) \in Nat
  BY <1>4, SkillCharsType
<1>6. instructions' \in Nat
  <2>1. SystemSize \in Nat /\ Smaller(ProjectMax, project) \in Nat
    BY ContextAssumption DEF Smaller
  <2> QED
    BY <1>2, <1>5, <2>1
<1>7. skillCut' \in BOOLEAN
  BY <1>2 DEF SkillsCut
<1>8. /\ (config \in Configs)' /\ Numbered(messages)' /\ (Len(messages) <= MaxMessages)'
      /\ (messages # <<>> => messages[1].role = "user")'
      /\ (ranking \in RankingType)'
  BY <1>2 DEF Numbered
<1>9. /\ (skills \in Seq(Skills))' /\ IsInjective(skills)'
      /\ (Len(skills) <= config.maxSkills)'
  BY <1>2, <1>4 DEF IsInjective
<1> QED
  BY <1>6, <1>7, <1>8, <1>9 DEF ConversationInv

LEMMA RankingsTyped == Rankings \subseteq RankingType
BY ContextAssumption DEF RankingType

LEMMA ProjectTyped == ProjectSizes \subseteq Nat /\ SummarySizes \subseteq Nat
BY ContextAssumption

LEMMA InitInv == Init => ContextInv
<1> SUFFICES ASSUME Init PROVE ContextInv
  OBVIOUS
<1>1. config \in Configs /\ messages = <<>> /\ skills = <<>> /\ skillCut = FALSE
      /\ shown = NoSnapshot
  BY DEF Init
<1>2. Numbered(messages) /\ Len(messages) <= MaxMessages /\ messages = <<>>
  BY <1>1, ContextAssumption DEF Numbered
<1>3. instructions \in Nat
  <2>1. PICK p \in ProjectSizes : instructions = SystemSize + Smaller(ProjectMax, p)
    BY DEF Init
  <2>2. p \in Nat /\ SystemSize \in Nat /\ ProjectMax \in Nat
    BY ContextAssumption
  <2> QED
    BY <2>1, <2>2 DEF Smaller
<1>4. ranking \in RankingType
  BY DEF Init, RankingType
<1>5. skills \in Seq(Skills) /\ IsInjective(skills) /\ Len(skills) <= config.maxSkills
  <2>1. config.maxSkills \in Nat
    BY <1>1, ContextAssumption DEF ConfigType
  <2> QED
    BY <1>1, <2>1 DEF IsInjective
<1>6. ShownInv
  BY <1>1, NothingShown DEF ShownInv
<1>7. skillCut \in BOOLEAN
  BY <1>1
<1> QED
  BY <1>1, <1>2, <1>3, <1>4, <1>5, <1>6, <1>7 DEF ContextInv, ConversationInv

LEMMA AddStep ==
  ASSUME ContextInv, NEW role \in Roles, NEW tool \in Tools \cup {NoName},
         NEW size \in Sizes, Add(role, tool, size)
  PROVE  ContextInv'
<1>1. PICK m : m = [id |-> Len(messages) + 1, role |-> role, tool |-> tool, size |-> size]
  OBVIOUS
<1>2. /\ messages # <<>> /\ Len(messages) < MaxMessages
      /\ messages' = Append(messages, m) /\ shown' = NoSnapshot
      /\ UNCHANGED <<config, instructions, skills, skillCut, ranking>>
  BY <1>1 DEF Add
<1>3. /\ messages \in Seq(Message) /\ Len(messages) \in Nat
      /\ DOMAIN messages = 1..Len(messages)
      /\ \A i \in DOMAIN messages : messages[i].id = i
  <2>1. Numbered(messages)
    BY DEF ContextInv, ConversationInv
  <2> QED
    BY <2>1, NumberedIs
<1>4. PICK n \in Nat : n = Len(messages)
  BY <1>3
<1>5. m \in Message /\ m.id = n + 1
  <2>1. size \in Nat /\ n + 1 \in 0..MaxMessages
    BY <1>2, <1>4, ContextAssumption
  <2> QED
    BY <1>1, <1>4, <2>1 DEF Message
<1>6. PICK longer : longer = messages'
  OBVIOUS
<1>7. /\ longer \in Seq(Message) /\ Len(longer) = n + 1 /\ DOMAIN longer = 1..n + 1
      /\ longer[n + 1] = m /\ \A i \in 1..n : longer[i] = messages[i]
      /\ \A i \in 1..n + 1 : i \in 1..n \/ i = n + 1
  <2>1. PICK A : A = Message
    OBVIOUS
  <2>2. messages \in Seq(A) /\ m \in A /\ longer = Append(messages, m)
    BY <1>2, <1>3, <1>5, <1>6, <2>1
  <2>3. /\ longer \in Seq(A) /\ Len(longer) = n + 1 /\ DOMAIN longer = 1..n + 1
        /\ longer[n + 1] = m /\ \A i \in 1..n : longer[i] = messages[i]
    BY <1>4, <2>2
  <2> QED
    BY <2>1, <2>3
<1>8. \A i \in DOMAIN longer : longer[i].id = i
  BY <1>3, <1>4, <1>5, <1>7
<1>9. Numbered(longer)
  BY <1>7, <1>8 DEF Numbered
<1>10. n + 1 <= MaxMessages
  BY <1>2, <1>4, ContextAssumption
<1>11. longer[1].role = "user"
  <2>1. 1 \in 1..n /\ messages[1].role = "user"
    <3>1. n # 0
      BY <1>2, <1>3, <1>4
    <3> QED
      BY <1>2, <1>4, <3>1 DEF ContextInv, ConversationInv
  <2> QED
    BY <1>7, <2>1
<1>12. ConversationInv'
  <2>1. /\ (config \in Configs)' /\ (instructions \in Nat)' /\ (skillCut \in BOOLEAN)'
        /\ (ranking \in RankingType)' /\ (skills \in Seq(Skills))' /\ IsInjective(skills)'
        /\ (Len(skills) <= config.maxSkills)'
    BY <1>2 DEF ContextInv, ConversationInv, IsInjective
  <2>2. Numbered(messages)' /\ (Len(messages) <= MaxMessages)'
        /\ (messages[1].role = "user")'
    <3>1. Numbered(messages') /\ Len(messages') <= MaxMessages
          /\ messages'[1].role = "user"
      BY <1>6, <1>7, <1>9, <1>10, <1>11
    <3> QED
      BY <3>1 DEF Numbered
  <2> QED
    BY <2>1, <2>2 DEF ConversationInv
<1>13. ShownInv'
  BY <1>2, NothingShown DEF ShownInv
<1> QED
  BY <1>12, <1>13 DEF ContextInv

LEMMA StepInv == ContextInv /\ [Next]_vars => ContextInv'
<1> SUFFICES ASSUME ContextInv, [Next]_vars PROVE ContextInv'
  OBVIOUS
<1>1. config \in Configs /\ Numbered(messages) /\ Len(messages) <= MaxMessages
      /\ (messages # <<>> => messages[1].role = "user") /\ ranking \in RankingType
  BY DEF ContextInv, ConversationInv
<1>2. CASE Start
  <2>1. PICK m : m = [id |-> 1, role |-> "user", tool |-> NoName, size |-> TaskSize]
    OBVIOUS
  <2>2. PICK r \in Rankings, p \in ProjectSizes : Prepare(config, <<m>>, r, p) /\ Show(0)
    BY <1>2, <2>1 DEF Start
  <2>3. m \in Message /\ m.id = 1 /\ m.role = "user"
    <3>1. TaskSize \in Nat /\ 1 \in 0..MaxMessages /\ "user" \in Roles
      BY ContextAssumption DEF Roles
    <3> QED
      BY <2>1, <3>1 DEF Message
  <2>4. PICK seq : seq = <<m>>
    OBVIOUS
  <2>5. Numbered(seq) /\ Len(seq) <= MaxMessages /\ seq[1].role = "user"
    <3>1. PICK A : A = Message
      OBVIOUS
    <3>2. seq \in Seq(A) /\ Len(seq) = 1 /\ DOMAIN seq = {1} /\ seq[1] = m
      BY <2>3, <2>4, <3>1
    <3>3. 1 <= MaxMessages
      BY ContextAssumption
    <3> QED
      BY <2>3, <3>1, <3>2, <3>3 DEF Numbered
  <2>6. r \in RankingType /\ p \in Nat
    BY RankingsTyped, ProjectTyped
  <2>7. ConversationInv'
    BY <1>1, <2>2, <2>4, <2>5, <2>6, PrepareStep
  <2>8. ShownInv'
    BY <2>2, <2>7, ShowStep
  <2> QED
    BY <2>7, <2>8 DEF ContextInv
<1>3. CASE Restore
  <2>1. PICK c \in Configs, p \in ProjectSizes, summary \in SummarySizes :
          Prepare(c, messages, ranking, p) /\ Show(summary)
    BY <1>3 DEF Restore
  <2>2. p \in Nat /\ summary \in Nat
    BY ProjectTyped
  <2>3. ConversationInv'
    BY <1>1, <2>1, <2>2, PrepareStep
  <2>4. ShownInv'
    BY <2>1, <2>2, <2>3, ShowStep
  <2> QED
    BY <2>3, <2>4 DEF ContextInv
<1>4. CASE AddAssistant
  <2>1. PICK size \in Sizes : Add("assistant", NoName, size)
    BY <1>4 DEF AddAssistant
  <2>2. "assistant" \in Roles /\ NoName \in Tools \cup {NoName}
    BY DEF Roles
  <2> QED
    BY <2>1, <2>2, AddStep
<1>5. CASE AddTool
  <2>1. PICK tool \in Tools \cup {NoName}, size \in Sizes : Add("tool", tool, size)
    BY <1>5 DEF AddTool
  <2>2. "tool" \in Roles
    BY DEF Roles
  <2> QED
    BY <2>1, <2>2, AddStep
<1>6. CASE Snapshot
  <2>1. UNCHANGED <<config, messages, instructions, skills, skillCut, ranking>>
    BY <1>6 DEF Snapshot
  <2>2. PICK summary \in SummarySizes : Show(summary)
    BY <1>6 DEF Snapshot
  <2>3. summary \in Nat
    BY ProjectTyped
  <2>4. ConversationInv'
    BY <2>1 DEF ContextInv, ConversationInv, Numbered, IsInjective
  <2>5. ShownInv'
    BY <2>2, <2>3, <2>4, ShowStep
  <2> QED
    BY <2>4, <2>5 DEF ContextInv
<1>7. CASE UNCHANGED vars
  <2>1. UNCHANGED <<config, messages, instructions, skills, skillCut, ranking>>
        /\ shown' = shown
    BY <1>7 DEF vars
  <2>2. ConversationInv'
    BY <2>1 DEF ContextInv, ConversationInv, Numbered, IsInjective
  <2>3. ShownInv'
    BY <2>1 DEF ContextInv, ShownInv
  <2> QED
    BY <2>2, <2>3 DEF ContextInv
<1> QED
  BY <1>2, <1>3, <1>4, <1>5, <1>6, <1>7 DEF Next

LEMMA InvHolds == Spec => []ContextInv
BY InitInv, StepInv, PTL DEF Spec

-----------------------------------------------------------------------------
(* The conversation: the theorems.                                         *)

Snapped(w, chosen) ==
  Snapping(config, messages, instructions, skillCut, shown.summary, w, chosen, shown)

LEMMA TakenIs ==
  ASSUME ContextInv, Taken, NEW w, NEW chosen, Snapped(w, chosen)
  PROVE  /\ config \in Configs /\ Numbered(messages) /\ Window = w.messages
         /\ w \in Work(config, messages)
         /\ w.messages \in Seq(Message) /\ InOrder(w.messages)
         /\ Room(config, instructions) \in Nat
         /\ shown.messages = chosen.seq /\ shown.stats = w.stats
         /\ shown.truncated <=> chosen.cut \/ skillCut
<1>1. /\ config \in Configs /\ Numbered(messages) /\ instructions \in Nat
      /\ skillCut \in BOOLEAN /\ shown.summary \in Nat
  BY DEF ContextInv, ConversationInv, ShownInv, Taken
<1>2. Window = w.messages
  BY DEF Snapped, Snapping, Window
<1>3. Snapping(config, messages, instructions, skillCut, shown.summary, w, chosen, shown)
  BY DEF Snapped
<1>4. /\ w \in Work(config, messages) /\ w.messages \in Seq(Message)
      /\ InOrder(w.messages) /\ Room(config, instructions) \in Nat
      /\ shown.messages = chosen.seq /\ shown.stats = w.stats
      /\ shown.truncated <=> chosen.cut \/ skillCut
  BY <1>1, <1>3, SnapIs
<1> QED
  BY <1>1, <1>2, <1>4

LEMMA SomeSnapped ==
  ASSUME ContextInv, Taken
  PROVE  \E w, chosen : Snapped(w, chosen)
<1>1. shown = Snap(config, messages, instructions, skillCut, shown.summary)
  BY DEF ContextInv, ShownInv, Taken
<1> QED
  BY <1>1 DEF Snapped, Snapping

LEMMA LostIs ==
  ASSUME ContextInv
  PROVE  NothingLostSilently
<1> SUFFICES ASSUME Taken
             PROVE  /\ \A i \in LeftOut : Digested(i) \/ Replaced(i)
                    /\ \A i, j \in DOMAIN Window : i < j => Window[i].id < Window[j].id
  BY DEF NothingLostSilently
<1>1. PICK w, chosen : Snapped(w, chosen)
  BY SomeSnapped
<1>2. /\ Window = w.messages /\ w \in Work(config, messages) /\ InOrder(w.messages)
      /\ shown.stats = w.stats /\ Numbered(messages)
  BY <1>1, TakenIs
<1>3. \A i \in DOMAIN messages : Accounted(i, w, messages)
  BY <1>2, WorkIs
<1>4. \A i \in DOMAIN messages : i \in LeftOut <=> ~Holds(w, i)
  BY <1>2 DEF LeftOut, Ids, Holds
<1>5. ASSUME NEW i \in LeftOut
      PROVE  Digested(i) \/ Replaced(i)
  <2>1. i \in DOMAIN messages /\ Missed(i, w, messages)
    BY <1>3, <1>4 DEF Accounted, LeftOut
  <2>2. CASE InSummary(i, w, messages)
    <3>1. \A j \in 1..i : j \in DOMAIN messages
      BY <1>2, <2>1, NumberedIs
    <3> QED
      BY <1>2, <1>4, <2>2, <3>1 DEF InSummary, Digested
  <2>3. CASE HasNewer(i, w, messages)
    BY <1>2, <1>4, <2>3 DEF HasNewer, Replaced, OutputOf
  <2> QED
    BY <2>1, <2>2, <2>3 DEF Missed
<1>6. \A i, j \in DOMAIN Window : i < j => Window[i].id < Window[j].id
  BY <1>2 DEF InOrder
<1> QED
  BY <1>5, <1>6

LEMMA FitIs ==
  ASSUME ContextInv
  PROVE  NewestThatFit
<1>1. CASE ~Taken
  BY <1>1 DEF NewestThatFit
<1>2. CASE Taken
  <2>1. PICK w, chosen : Snapped(w, chosen)
    BY <1>2, SomeSnapped
  <2>2. PICK seq, room, here : seq = w.messages /\ room = Room(config, instructions)
                               /\ Present(seq, room, here)
    BY DEF Present
  <2>3. /\ Window = seq /\ seq \in Seq(Message) /\ InOrder(seq) /\ room \in Nat
        /\ shown.messages = chosen.seq /\ (shown.truncated <=> chosen.cut \/ skillCut)
        /\ chosen = Chosen(seq, room)
    BY <1>2, <2>1, <2>2, TakenIs DEF Snapped, Snapping
  <2>4. /\ Costs(seq, here) <= room
        /\ \A i \in DOMAIN seq :
             i \in here <=> Costs(seq, {j \in here : j > i}) + Cost(seq[i]) <= room
        /\ chosen.cut <=> here # DOMAIN seq
    BY <2>2, <2>3, ChosenIs
  <2>5. here = {i \in DOMAIN seq : seq[i].id \in Ids(shown.messages)}
    BY <2>2, <2>3 DEF Present
  <2>6. shown.truncated <=> here # DOMAIN seq \/ skillCut
    BY <2>3, <2>4
  <2> QED
    BY <2>2, <2>3, <2>4, <2>5, <2>6 DEF NewestThatFit, Costs
<1> QED
  BY <1>1, <1>2

LEMMA CountsAre ==
  ASSUME ContextInv
  PROVE  CountsAddUp
<1>1. CASE ~Taken
  BY <1>1 DEF CountsAddUp
<1>2. CASE Taken
  <2>1. PICK w, chosen : Snapped(w, chosen)
    BY <1>2, SomeSnapped
  <2>2. Window = w.messages /\ w \in Work(config, messages) /\ shown.stats = w.stats
    BY <1>2, <2>1, TakenIs
  <2>3. AddsUp(config, w, messages)
    BY <2>2, WorkIs
  <2>4. TrimmingShortens <=> Shortens(config)
    BY DEF TrimmingShortens, Shortens
  <2> QED
    BY <2>2, <2>3, <2>4 DEF AddsUp, CountsAddUp
<1> QED
  BY <1>1, <1>2

(***************************************************************************)
(* Lengths are lengths, a conversation begins with its task and counts its *)
(* messages, and each skill is chosen at most once, up to the limit        *)
(* (context.py:77-101).                                                    *)
(***************************************************************************)
THEOREM ContextTyped == Spec => []TypeOK
<1>1. ContextInv => TypeOK
  BY InvTyped
<1> QED
  BY <1>1, InvHolds, PTL

(***************************************************************************)
(* A message the compressed conversation lacks is the output of a tool: a  *)
(* newer output of the same snapshot tool, from any arguments, is kept, or *)
(* it went into a counted summary with all older outputs, under any layers *)
(* in any order (context.py:182-300).                                      *)
(***************************************************************************)
THEOREM LossesAreAccounted == Spec => []NothingLostSilently
<1>1. ContextInv => NothingLostSilently
  BY LostIs
<1> QED
  BY <1>1, InvHolds, PTL

(***************************************************************************)
(* A request shows exactly the newest messages that fit beside each other, *)
(* and never more than there is room for (context.py:158-170).             *)
(***************************************************************************)
THEOREM RequestsFit == Spec => []NewestThatFit
<1>1. ContextInv => NewestThatFit
  BY FitIs
<1> QED
  BY <1>1, InvHolds, PTL

(***************************************************************************)
(* The characters counted as removed are the ones the conversation lost,   *)
(* or more where trimming makes an output longer (context.py:186-191).     *)
(***************************************************************************)
THEOREM RemovalsAddUp == Spec => []CountsAddUp
<1>1. ContextInv => CountsAddUp
  BY CountsAre
<1> QED
  BY <1>1, InvHolds, PTL
=============================================================================
