-------------------------- MODULE EarlierEnginesProofs -------------------------
(***************************************************************************)
(* Proofs about the engines before nvm_engine_latest, as engines of        *)
(* Engines.tla: nvm_engine_peipei implements PhasedStore, for any keys,    *)
(* sizes of its blocks and number of Sets; nvm_engine answers with the     *)
(* latest value of a key until its count wraps, and owns each item once,   *)
(* for any keys and values, and any hash, index and file that has a        *)
(* position for each key; an Index of nvm_engine_paten leads to its value  *)
(* and recovery finds every key of a Set that returned, for any clients,   *)
(* files and kills; nvm_example implements KVStore, for any slices.        *)
(***************************************************************************)
EXTENDS Engines, WellFoundedInduction, FiniteSetTheorems, TLAPS

------------------------------------------------------------------------------
(* Numbers                                                                 *)

(* A set of numbers that is not empty has a least one.                     *)
LEMMA Least ==
  ASSUME NEW S \in SUBSET Nat, S # {}
  PROVE  \E m \in S : \A n \in S : m <= n
<1>1. IsWellFoundedOn(OpToRel(<, Nat), Nat)
  BY NatLessThanWellFounded
<1>2. PICK R : R = {pair \in Nat \X Nat : pair[1] < pair[2]} /\ IsWellFoundedOn(R, Nat)
  BY <1>1 DEF OpToRel
<1>3. PICK m \in S : \A n \in S : ~(<<n, m>> \in R)
  BY <1>2, WFMin
<1>4. ASSUME NEW n \in S
      PROVE  m <= n
  <2>1. <<n, m>> \in Nat \X Nat /\ <<n, m>>[1] = n /\ <<n, m>>[2] = m
    OBVIOUS
  <2>2. ~(n < m)
    BY <1>2, <1>3, <2>1
  <2>3. QED
    BY <2>2
<1>5. QED
  BY <1>4

(* A set of numbers that is bounded has a greatest one.                    *)
LEMMA Greatest ==
  ASSUME NEW b \in Nat, NEW S \in SUBSET (0..b), S # {}
  PROVE  \E m \in S : \A n \in S : m >= n
<1>1. PICK T : T = {b - n : n \in S} /\ T \subseteq Nat /\ T # {}
  <2>1. {b - n : n \in S} \subseteq Nat
    OBVIOUS
  <2>2. {b - n : n \in S} # {}
    OBVIOUS
  <2>3. QED
    BY <2>1, <2>2
<1>2. PICK l \in T : \A n \in T : l <= n
  BY <1>1, Least
<1>3. PICK m \in S : l = b - m
  BY <1>1
<1>4. \A n \in S : m >= n
  <2>1. ASSUME NEW n \in S
        PROVE  m >= n
    <3>1. b - n \in T /\ n \in 0..b /\ m \in 0..b
      BY <1>1
    <3>2. QED
      BY <1>2, <1>3, <3>1
  <2>2. QED
    BY <2>1
<1>5. QED
  BY <1>4

(* Division by the size of a block.                                        *)
LEMMA Divided ==
  ASSUME NEW size \in Nat \ {0}, NEW n \in Nat
  PROVE  /\ n \div size \in Nat /\ n % size \in 0..size - 1
         /\ n = size * (n \div size) + (n % size)
OBVIOUS

(* Quotients and remainders are what they are by one equation.             *)
LEMMA Quotients ==
  ASSUME NEW size \in Nat \ {0}, NEW n \in Nat, NEW q \in Nat, NEW r \in 0..size - 1,
         n = size * q + r
  PROVE  n \div size = q /\ n % size = r
OBVIOUS

(* Whole blocks keep their order.                                          *)
LEMMA Multiples ==
  ASSUME NEW size \in Nat \ {0}, NEW p \in Nat, NEW q \in Nat, p < q
  PROVE  size * p + size <= size * q
<1>1. PICK d \in Nat : q = p + 1 + d
  <2>1. q - p - 1 \in Nat /\ q = p + 1 + (q - p - 1)
    OBVIOUS
  <2>2. QED
    BY <2>1
<1>2. size * q = size * p + size + size * d /\ size * d \in Nat
  BY <1>1
<1>3. size * p \in Nat
  OBVIOUS
<1>4. QED
  BY <1>2, <1>3

(* Two numbers of which the smaller is not in an earlier block.            *)
LEMMA SameBlock ==
  ASSUME NEW size \in Nat \ {0}, NEW c \in Nat, NEW n \in 0..c, n \div size >= c \div size
  PROVE  n \div size = c \div size /\ (n # c => n % size # c % size)
<1>1. PICK q \in Nat, r \in 0..size - 1 : q = c \div size /\ r = c % size /\ c = size * q + r
  BY Divided
<1>2. PICK p \in Nat, s \in 0..size - 1 : p = n \div size /\ s = n % size /\ n = size * p + s
  BY Divided
<1>3. size * p \in Nat /\ size * q \in Nat
  OBVIOUS
<1>4. ~(q < p)
  <2>1. ASSUME q < p
        PROVE  FALSE
    <3>1. size * q + size <= size * p
      BY <2>1, Multiples
    <3>2. QED
      BY <1>1, <1>2, <1>3, <3>1
  <2>2. QED
    BY <2>1
<1>5. p = q
  BY <1>1, <1>2, <1>4
<1>6. QED
  BY <1>1, <1>2, <1>3, <1>5

(* The last number of a block, and the number behind any.                  *)
LEMMA BlockEnds ==
  ASSUME NEW size \in Nat \ {0}, NEW c \in Nat
  PROVE  /\ (c + 1) % size = 0 => /\ (c + 1) \div size = (c \div size) + 1
                                  /\ \A n \in 0..c : n \div size >= c \div size <=> n \in c + 1 - size..c
                                  /\ c + 1 - size \in 0..c
         /\ (c + 1) % size # 0 => (c + 1) \div size = c \div size
<1>1. PICK q \in Nat, r \in 0..size - 1 : q = c \div size /\ r = c % size /\ c = size * q + r
  BY Divided
<1>2. size * q \in Nat
  OBVIOUS
<1>3. CASE r = size - 1
  <2>1. c + 1 = size * (q + 1) + 0
    BY <1>1, <1>2, <1>3
  <2>2. (c + 1) \div size = q + 1 /\ (c + 1) % size = 0
    <3>1. PICK d \in Nat : d = q + 1
      BY <1>1
    <3>2. c + 1 \in Nat /\ 0 \in 0..size - 1 /\ c + 1 = size * d + 0
      BY <2>1, <3>1
    <3>3. QED
      BY <3>1, <3>2, Quotients
  <2>3. c + 1 - size = size * q
    BY <1>1, <1>2, <1>3
  <2>4. ASSUME NEW n \in 0..c
        PROVE  n \div size >= q <=> n \in c + 1 - size..c
    <3>1. PICK p \in Nat, s \in 0..size - 1 : p = n \div size /\ s = n % size /\ n = size * p + s
      BY Divided
    <3>2. size * p \in Nat
      OBVIOUS
    <3>3. ASSUME p >= q
          PROVE  n >= size * q
      <4>1. CASE p = q
        BY <3>1, <3>2, <4>1
      <4>2. CASE q < p
        BY <1>2, <3>1, <3>2, <4>2, Multiples
      <4>3. QED
        BY <3>3, <4>1, <4>2
    <3>4. ASSUME p < q
          PROVE  n < size * q
      <4>1. size * p + size <= size * q
        BY <3>4, Multiples
      <4>2. QED
        BY <1>2, <3>1, <3>2, <4>1
    <3>5. QED
      BY <1>2, <2>3, <3>1, <3>3, <3>4
  <2>5. QED
    BY <1>1, <1>2, <2>2, <2>3, <2>4
<1>4. CASE r # size - 1
  <2>1. c + 1 = size * q + (r + 1) /\ r + 1 \in 0..size - 1
    BY <1>1, <1>2, <1>4
  <2>2. PICK d \in 0..size - 1 : d = r + 1
    BY <2>1
  <2>3. c + 1 \in Nat /\ c + 1 = size * q + d
    BY <2>1, <2>2
  <2>4. (c + 1) \div size = q /\ (c + 1) % size = d
    BY <2>3, Quotients
  <2>5. d # 0
    BY <2>2
  <2>6. QED
    BY <1>1, <2>4, <2>5
<1>5. QED
  BY <1>3, <1>4

------------------------------------------------------------------------------
(* nvm_engine_peipei: a block and its file                                 *)

(* Entry n of c, in a block b of the given size or behind it in a file f.  *)
Entry(b, f, c, size, n) == IF n \div size >= c \div size THEN b[n % size] ELSE f[n]

(* Block b2 is b with the entry c replaced; file g is f with the block b   *)
(* copied to the places of the entries up to c.                            *)
Replaced(b, b2, c, size) == \A i \in 0..size - 1 : i # c % size => b2[i] = b[i]
BlockCopied(b, f, g, c, size) ==
  \A k \in 0..c : g[k] = IF k \in c + 1 - size..c THEN b[k % size] ELSE f[k]

(* If the entry c fills the block b, the block is in the file f.           *)
FileReady(b, f, c, size) ==
  (c + 1) % size = 0 => \A k \in c + 1 - size..c : f[k] = b[k % size]

(* What is stored in the next place of a block changes no entry.           *)
LEMMA BlockPut ==
  ASSUME NEW size \in Nat \ {0}, NEW c \in Nat, NEW n \in 0..c - 1,
         NEW b, NEW b2, NEW f, Replaced(b, b2, c, size)
  PROVE  Entry(b2, f, c, size, n) = Entry(b, f, c, size, n)
<1>1. n \div size >= c \div size => n % size # c % size
  <2>1. n \in 0..c /\ n # c
    OBVIOUS
  <2>2. QED
    BY <2>1, SameBlock
<1>2. n % size \in 0..size - 1
  BY Divided
<1>3. QED
  BY <1>1, <1>2 DEF Entry, Replaced

(* Nor does the copying of a block that is full with the next entry.       *)
LEMMA BlockCopy ==
  ASSUME NEW size \in Nat \ {0}, NEW c \in Nat, (c + 1) % size = 0,
         NEW b, NEW f, NEW g, BlockCopied(b, f, g, c, size)
  PROVE  /\ \A n \in 0..c - 1 : Entry(b, g, c, size, n) = Entry(b, f, c, size, n)
         /\ \A k \in c + 1 - size..c : g[k] = b[k % size]
<1>1. /\ c + 1 - size \in 0..c
      /\ \A n \in 0..c : n \div size >= c \div size <=> n \in c + 1 - size..c
  BY BlockEnds
<1>3. ASSUME NEW n \in 0..c - 1
      PROVE  Entry(b, g, c, size, n) = Entry(b, f, c, size, n)
  <2>1. n \in 0..c
    OBVIOUS
  <2>2. CASE n \div size >= c \div size
    BY <2>2 DEF Entry
  <2>3. CASE ~(n \div size >= c \div size)
    BY <1>1, <2>1, <2>3 DEF Entry, BlockCopied
  <2>4. QED
    BY <2>2, <2>3
<1>4. \A k \in c + 1 - size..c : k \in 0..c
  BY <1>1
<1>5. QED
  BY <1>3, <1>4 DEF BlockCopied

(* When the number of entries is raised, entries that are in a full block  *)
(* are found in the file, where they were copied.                          *)
LEMMA BlockNext ==
  ASSUME NEW size \in Nat \ {0}, NEW c \in Nat, NEW b, NEW f, FileReady(b, f, c, size)
  PROVE  /\ \A n \in 0..c - 1 : Entry(b, f, c + 1, size, n) = Entry(b, f, c, size, n)
         /\ Entry(b, f, c + 1, size, c) = b[c % size]
<1>1. c \div size \in Nat
  BY Divided
<1>2. CASE (c + 1) % size = 0
  <2>1. /\ (c + 1) \div size = (c \div size) + 1 /\ c + 1 - size \in 0..c
        /\ \A n \in 0..c : n \div size >= c \div size <=> n \in c + 1 - size..c
    BY <1>2, BlockEnds
  <2>2. ASSUME NEW n \in 0..c
        PROVE  /\ Entry(b, f, c + 1, size, n) = f[n]
               /\ Entry(b, f, c, size, n) = f[n]
    <3>1. n \div size \in Nat
      <4>1. n \in Nat
        OBVIOUS
      <4>2. QED
        BY <4>1, Divided
    <3>2. CASE n \div size >= c \div size
      <4>1. n \div size = c \div size
        BY <3>2, SameBlock
      <4>2. ~(n \div size >= (c + 1) \div size)
        BY <1>1, <2>1, <4>1
      <4>3. n \in c + 1 - size..c
        BY <2>1, <3>2
      <4>4. QED
        BY <1>2, <3>2, <4>2, <4>3 DEF Entry, FileReady
    <3>3. CASE ~(n \div size >= c \div size)
      <4>1. ~(n \div size >= (c + 1) \div size)
        BY <1>1, <2>1, <3>1, <3>3
      <4>2. QED
        BY <3>3, <4>1 DEF Entry
    <3>4. QED
      BY <3>2, <3>3
  <2>3. c \div size >= c \div size
    BY <1>1
  <2>4. Entry(b, f, c, size, c) = b[c % size]
    BY <2>3 DEF Entry
  <2>5. \A n \in 0..c - 1 : n \in 0..c
    OBVIOUS
  <2>6. c \in 0..c
    OBVIOUS
  <2>7. QED
    BY <2>2, <2>4, <2>5, <2>6
<1>3. CASE (c + 1) % size # 0
  <2>1. (c + 1) \div size = c \div size
    BY <1>3, BlockEnds
  <2>2. c \div size >= c \div size
    BY <1>1
  <2>3. QED
    BY <2>1, <2>2 DEF Entry
<1>4. QED
  BY <1>2, <1>3

------------------------------------------------------------------------------
(* Its inductive invariant                                                 *)

Opening == {"files", "map", "load"}
Writing == {"value", "key", "valuefile", "keyfile", "count"}
Values == 1..PeipeiSets

PeipeiTyped ==
  /\ disk \in [mapped : BOOLEAN, entry_count_ : Nat, sets : 0..PeipeiSets,
               values : [0..V - 1 -> Values \cup {Zero}], keys : [0..K - 1 -> Keys \cup {Zero}],
               valueFile : [0..PeipeiSets -> Values \cup {Zero}],
               keyFile : [0..PeipeiSets -> Keys \cup {Zero}]]
  /\ mem \in [is_new : BOOLEAN, index_ : SUBSET (Keys \X Nat)]
  /\ client \in [op : Opening \cup Writing \cup {"idle", "return"},
                 key : Keys \cup {Nothing}, value : Values \cup {Nothing}]

(* An entry below the number of entries has a key and a value, and those   *)
(* are what the index can have.                                            *)
EntriesInv ==
  /\ disk.entry_count_ <= disk.sets
  /\ \A n \in 0..disk.entry_count_ - 1 : Peipei!KeyOf(n) \in Keys /\ Peipei!Value(n) \in Values
  /\ \A e \in mem.index_ : e[2] < disk.entry_count_

(* A database whose mapped file is new when it is opened has no entries.   *)
OpeningInv ==
  /\ disk.entry_count_ > 0 => disk.mapped
  /\ client.op \notin {"files", "map"} => disk.mapped
  /\ client.op \in Opening => mem.index_ = {}
  /\ client.op \in {"map", "load"} /\ mem.is_new => disk.entry_count_ = 0

(* What a Write has stored of the entry it makes, and of the block this    *)
(* entry fills.                                                            *)
WriteInv ==
  LET c == disk.entry_count_ IN
  /\ client.key = Nothing <=> client.op \in Opening \cup {"idle"}
  /\ client.op # "idle" => reply = Nothing
  /\ client.op \in Writing => c < disk.sets
  /\ client.op \in Writing \cup {"return"} => client.value \in Values
  /\ client.op \in Writing \ {"value"} => disk.values[c % V] = client.value
  /\ client.op \in Writing \ {"value", "key"} => disk.keys[c % K] = client.key
  /\ client.op = "valuefile" => Peipei!Full(V)
  /\ client.op = "keyfile" => Peipei!Full(K)
  /\ client.op \in {"keyfile", "count"} /\ Peipei!Full(V) =>
       \A n \in c + 1 - V..c : disk.valueFile[n] = disk.values[n % V]
  /\ client.op = "count" /\ Peipei!Full(K) =>
       \A n \in c + 1 - K..c : disk.keyFile[n] = disk.keys[n % K]

PeipeiInv == PeipeiTyped /\ EntriesInv /\ OpeningInv /\ WriteInv

(* PhasedStore, of nvm_engine_peipei alone.                                *)
Phased == INSTANCE PhasedStore WITH
  Answers <- Values, durable <- Peipei!Durable, snapshot <- Peipei!Snapshot,
  call <- Peipei!Call, up <- Peipei!Up, reply <- reply

------------------------------------------------------------------------------
(* Its steps                                                               *)

(* Sizes are not 0, and what stands for no call is no key.                 *)
LEMMA Sizes ==
  /\ V \in Nat \ {0} /\ K \in Nat \ {0} /\ PeipeiSets \in Nat /\ Nothing \notin Keys
BY PeipeiAssumption

(* The entries, as entries of two blocks and their files.                  *)
LEMMA TheEntries ==
  ASSUME NEW n
  PROVE  /\ Peipei!KeyOf(n) = Entry(disk.keys, disk.keyFile, disk.entry_count_, K, n)
         /\ Peipei!Value(n) = Entry(disk.values, disk.valueFile, disk.entry_count_, V, n)
         /\ Peipei!KeyOf(n)' = Entry(disk'.keys, disk'.keyFile, disk'.entry_count_, K, n)
         /\ Peipei!Value(n)' = Entry(disk'.values, disk'.valueFile, disk'.entry_count_, V, n)
BY DEF Peipei!KeyOf, Peipei!Value, Peipei!InBlock, Entry

(* The last entry of a key.                                                *)
LEMMA Last ==
  ASSUME NEW S \in SUBSET (0..PeipeiSets), S # {}
  PROVE  Peipei!Max(S) \in S /\ \A n \in S : Peipei!Max(S) >= n
<1>1. \E m \in S : \A n \in S : m >= n
  BY Sizes, Greatest
<1>2. QED
  BY <1>1 DEF Peipei!Max

(* The entries stay what they are.                                         *)
SameEntries ==
  /\ disk'.entry_count_ = disk.entry_count_
  /\ \A n \in 0..disk.entry_count_ - 1 :
       Peipei!KeyOf(n)' = Peipei!KeyOf(n) /\ Peipei!Value(n)' = Peipei!Value(n)

(* So a search finds what it found.                                        *)
LEMMA SameFinds ==
  ASSUME PeipeiInv, SameEntries, NEW S, \A e \in S : e[2] \in 0..disk.entry_count_ - 1, NEW k
  PROVE  Peipei!Find(S, k)' = Peipei!Find(S, k)
<1>1. PICK ns : ns = {n \in 0..PeipeiSets : <<k, n>> \in S}
  OBVIOUS
<1>2. \A n \in ns : n \in 0..disk.entry_count_ - 1
  BY <1>1
<1>3. CASE ns = {}
  BY <1>1, <1>3 DEF Peipei!Find
<1>4. CASE ns # {}
  <2>1. Peipei!Max(ns) \in 0..disk.entry_count_ - 1
    BY <1>1, <1>2, <1>4, Last
  <2>2. PICK m : m = Peipei!Max(ns)
    OBVIOUS
  <2>3. Peipei!Value(m)' = Peipei!Value(m)
    BY <2>1, <2>2 DEF SameEntries
  <2>4. Peipei!Find(S, k) = Peipei!Value(m) /\ Peipei!Find(S, k)' = Peipei!Value(m)'
    BY <1>1, <1>4, <2>2 DEF Peipei!Find
  <2>5. QED
    BY <2>3, <2>4
<1>5. QED
  BY <1>3, <1>4

(* The entries are the same set, and the store of PhasedStore is the same. *)
LEMMA SameStore ==
  ASSUME PeipeiInv, SameEntries
  PROVE  /\ Peipei!Entries' = Peipei!Entries
         /\ Peipei!Durable' = Peipei!Durable
         /\ mem'.index_ = mem.index_ => Peipei!Snapshot' = Peipei!Snapshot
<1>1. disk.entry_count_ \in Nat
  BY DEF PeipeiInv, PeipeiTyped
<1>2. Peipei!Entries' = Peipei!Entries
  BY DEF SameEntries, Peipei!Entries
<1>3. PICK S : S = Peipei!Entries /\ \A e \in S : e[2] \in 0..disk.entry_count_ - 1
  <2>1. \A e \in Peipei!Entries : e[2] \in 0..disk.entry_count_ - 1
    BY DEF Peipei!Entries
  <2>2. QED
    BY <2>1
<1>4. ASSUME NEW k \in Keys
      PROVE  Peipei!Find(Peipei!Entries, k)' = Peipei!Find(Peipei!Entries, k)
  <2>1. Peipei!Find(S, k)' = Peipei!Find(S, k)
    BY <1>3, SameFinds
  <2>2. QED
    BY <1>2, <1>3, <2>1 DEF Peipei!Find
<1>5. Peipei!Durable' = Peipei!Durable
  BY <1>4 DEF Peipei!Durable
<1>6. ASSUME mem'.index_ = mem.index_
      PROVE  Peipei!Snapshot' = Peipei!Snapshot
  <2>1. PICK I : I = mem.index_ /\ I = mem'.index_ /\ \A e \in I : e[2] \in 0..disk.entry_count_ - 1
    BY <1>1, <1>6 DEF PeipeiInv, PeipeiTyped, EntriesInv
  <2>2. \A k \in Keys : Peipei!Find(I, k)' = Peipei!Find(I, k)
    BY <2>1, SameFinds
  <2>3. \A k \in Keys : Peipei!Find(mem.index_, k)' = Peipei!Find(mem.index_, k)
    BY <2>1, <2>2 DEF Peipei!Find
  <2>4. QED
    BY <2>3 DEF Peipei!Snapshot
<1>7. QED
  BY <1>2, <1>5, <1>6

(* Where the entries, the index and the call are the same, PhasedStore     *)
(* takes no step.                                                          *)
LEMMA Stutters ==
  ASSUME PeipeiInv, SameEntries, disk'.sets = disk.sets, mem'.index_ = mem.index_,
         client'.key = client.key, client'.value = client.value, client.op # "idle",
         client'.op \in Opening <=> client.op \in Opening,
         client'.op = "return" <=> client.op = "return", reply' = Nothing
  PROVE  EntriesInv' /\ UNCHANGED Phased!vars
<1>1. EntriesInv'
  BY DEF PeipeiInv, EntriesInv, SameEntries
<1>2. Peipei!Call' = Peipei!Call /\ Peipei!Up' = Peipei!Up /\ reply' = reply
  BY DEF PeipeiInv, WriteInv, Peipei!Call, Peipei!Up, Opening
<1>3. QED
  BY <1>1, <1>2, SameStore DEF Phased!vars

(* Steps that leave both blocks, both files and the number as they are.    *)
LEMMA SameDisk ==
  ASSUME disk'.entry_count_ = disk.entry_count_, disk'.values = disk.values, disk'.keys = disk.keys,
         disk'.valueFile = disk.valueFile, disk'.keyFile = disk.keyFile
  PROVE  SameEntries
BY TheEntries DEF SameEntries

(* Opening the data files, and mapping the blocks.                         *)
LEMMA OpenFilesStep ==
  ASSUME PeipeiInv, Peipei!OpenFiles
  PROVE  PeipeiInv' /\ [Phased!Next]_(Phased!vars)
<1>1. /\ client.op = "files" /\ mem' = [is_new |-> ~disk.mapped, index_ |-> {}]
      /\ client' = [client EXCEPT !.op = "map"] /\ reply' = Nothing /\ disk' = disk
  BY DEF Peipei!OpenFiles, Peipei!Then
<1>2. /\ client'.op = "map" /\ client'.key = client.key /\ client'.value = client.value
      /\ disk.mapped \in BOOLEAN /\ disk.entry_count_ \in Nat
  BY <1>1 DEF PeipeiInv, PeipeiTyped
<1>3. SameEntries
  BY <1>1, SameDisk
<1>4. EntriesInv' /\ UNCHANGED Phased!vars
  BY <1>1, <1>2, <1>3, Stutters DEF PeipeiInv, OpeningInv, Opening
<1>5. PeipeiTyped'
  BY <1>1, <1>2 DEF PeipeiInv, PeipeiTyped, Opening
<1>6. OpeningInv'
  <2>1. (mem'.is_new => ~disk.mapped) /\ mem'.index_ = {}
    BY <1>1
  <2>2. mem'.is_new => disk'.entry_count_ = 0
    BY <1>1, <1>2, <2>1 DEF PeipeiInv, OpeningInv
  <2>3. QED
    BY <1>1, <1>2, <2>1, <2>2 DEF PeipeiInv, OpeningInv, Opening
<1>7. WriteInv'
  BY <1>1, <1>2 DEF PeipeiInv, WriteInv, Opening, Writing
<1>8. QED
  BY <1>4, <1>5, <1>6, <1>7 DEF PeipeiInv

(* The blocks are mapped; those of a new database are empty.               *)
LEMMA MapBuffersStep ==
  ASSUME PeipeiInv, Peipei!MapBuffers
  PROVE  PeipeiInv' /\ [Phased!Next]_(Phased!vars)
<1>1. /\ client.op = "map" /\ mem' = mem /\ disk' = [disk EXCEPT !.mapped = TRUE]
      /\ client' = [client EXCEPT !.op = "load"] /\ reply' = Nothing
  BY DEF Peipei!MapBuffers, Peipei!Then
<1>2. /\ client'.op = "load" /\ client'.key = client.key /\ client'.value = client.value
      /\ disk'.mapped = TRUE /\ disk'.entry_count_ = disk.entry_count_ /\ disk'.sets = disk.sets
      /\ disk'.values = disk.values /\ disk'.keys = disk.keys
      /\ disk'.valueFile = disk.valueFile /\ disk'.keyFile = disk.keyFile
  BY <1>1 DEF PeipeiInv, PeipeiTyped
<1>3. SameEntries
  BY <1>2, SameDisk
<1>4. EntriesInv' /\ UNCHANGED Phased!vars
  BY <1>1, <1>2, <1>3, Stutters DEF Opening
<1>5. PeipeiTyped'
  BY <1>1 DEF PeipeiInv, PeipeiTyped, Opening
<1>6. OpeningInv'
  BY <1>1, <1>2 DEF PeipeiInv, OpeningInv, Opening
<1>7. WriteInv'
  BY <1>1, <1>2 DEF PeipeiInv, WriteInv, Opening, Writing
<1>8. QED
  BY <1>4, <1>5, <1>6, <1>7 DEF PeipeiInv

(* Loading the index settles what the open store answers.                  *)
LEMMA LoadIndexStep ==
  ASSUME PeipeiInv, Peipei!LoadIndex
  PROVE  PeipeiInv' /\ [Phased!Next]_(Phased!vars)
<1>1. /\ client.op = "load" /\ disk' = disk
      /\ mem' = [mem EXCEPT !.index_ = IF mem.is_new THEN {} ELSE Peipei!Entries]
      /\ client' = [client EXCEPT !.op = "idle"] /\ reply' = Nothing
  BY DEF Peipei!LoadIndex, Peipei!Then
<1>2. /\ client'.op = "idle" /\ client'.key = client.key /\ client'.value = client.value
      /\ client.key = Nothing /\ disk.entry_count_ \in Nat
  BY <1>1 DEF PeipeiInv, PeipeiTyped, WriteInv, Opening
<1>3. mem.is_new => Peipei!Entries = {}
  <2>1. ASSUME mem.is_new
        PROVE  0..disk.entry_count_ - 1 = {}
    BY <1>1, <1>2, <2>1 DEF PeipeiInv, OpeningInv
  <2>2. QED
    BY <2>1 DEF Peipei!Entries
<1>4. mem' = [mem EXCEPT !.index_ = Peipei!Entries] /\ mem'.index_ = Peipei!Entries
  BY <1>1, <1>3 DEF PeipeiInv, PeipeiTyped
<1>5. /\ Peipei!Entries \subseteq Keys \X Nat
      /\ \A e \in Peipei!Entries : e[2] < disk.entry_count_
  BY <1>2 DEF PeipeiInv, EntriesInv, Peipei!Entries
<1>6. SameEntries
  BY <1>1, SameDisk
<1>7. Peipei!Durable' = Peipei!Durable /\ Peipei!Entries' = Peipei!Entries
  BY <1>6, SameStore
<1>8. Peipei!Snapshot' = Peipei!Durable'
  BY <1>4, <1>7 DEF Peipei!Snapshot, Peipei!Durable, Peipei!Find
<1>9. Peipei!Call' = Peipei!Call /\ ~Peipei!Up /\ Peipei!Up' = TRUE
  BY <1>1, <1>2 DEF Peipei!Call, Peipei!Up
<1>10. Phased!Recovered
  BY <1>1, <1>7, <1>8, <1>9 DEF Phased!Recovered
<1>11. PeipeiTyped'
  BY <1>1, <1>4, <1>5 DEF PeipeiInv, PeipeiTyped
<1>12. EntriesInv'
  BY <1>1, <1>4, <1>5, <1>6 DEF PeipeiInv, EntriesInv, SameEntries
<1>13. OpeningInv' /\ WriteInv'
  <2>1. OpeningInv'
    BY <1>1, <1>2 DEF PeipeiInv, OpeningInv, Opening
  <2>2. WriteInv'
    BY <1>1, <1>2 DEF PeipeiInv, WriteInv, Opening, Writing
  <2>3. QED
    BY <2>1, <2>2
<1>14. QED
  BY <1>10, <1>11, <1>12, <1>13 DEF PeipeiInv, Phased!Next

(* A Set begins.                                                           *)
LEMMA SetStep ==
  ASSUME PeipeiInv, NEW k \in Keys, Peipei!Set(k)
  PROVE  PeipeiInv' /\ [Phased!Next]_(Phased!vars)
<1>1. PICK n \in Values : n = disk.sets + 1
  BY Sizes DEF PeipeiInv, PeipeiTyped, Peipei!Set, Values
<1>2. /\ client.op = "idle" /\ client' = [op |-> "value", key |-> k, value |-> n]
      /\ disk' = [disk EXCEPT !.sets = n] /\ reply' = Nothing /\ mem' = mem
  BY <1>1 DEF PeipeiInv, PeipeiTyped, Peipei!Set
<1>3. /\ disk.sets \in Nat /\ disk.entry_count_ \in Nat
      /\ disk'.sets = n /\ disk'.entry_count_ = disk.entry_count_ /\ disk'.mapped = disk.mapped
      /\ disk'.values = disk.values /\ disk'.keys = disk.keys
      /\ disk'.valueFile = disk.valueFile /\ disk'.keyFile = disk.keyFile
  BY <1>2 DEF PeipeiInv, PeipeiTyped
<1>4. client.key = Nothing /\ k # Nothing
  BY <1>2, Sizes DEF PeipeiInv, WriteInv
<1>5. SameEntries
  BY <1>3, SameDisk
<1>6. Phased!Begin(k, n)
  <2>1. Peipei!Durable' = Peipei!Durable /\ Peipei!Snapshot' = Peipei!Snapshot
    BY <1>2, <1>5, SameStore
  <2>2. /\ Peipei!Up /\ Peipei!Up' = Peipei!Up /\ Peipei!Call = Nothing
        /\ Peipei!Call' = [key |-> k, answer |-> n, done |-> FALSE]
    BY <1>2, <1>4 DEF Peipei!Call, Peipei!Up
  <2>3. QED
    BY <1>2, <2>1, <2>2 DEF Phased!Begin
<1>7. PeipeiTyped'
  BY <1>1, <1>2 DEF PeipeiInv, PeipeiTyped, Values, Writing
<1>8. EntriesInv'
  BY <1>1, <1>2, <1>3, <1>5 DEF PeipeiInv, EntriesInv, SameEntries
<1>9. OpeningInv'
  BY <1>2, <1>3 DEF PeipeiInv, OpeningInv, Opening
<1>10. WriteInv'
  BY <1>1, <1>2, <1>3, <1>4 DEF PeipeiInv, EntriesInv, WriteInv, Opening, Writing
<1>11. QED
  BY <1>6, <1>7, <1>8, <1>9, <1>10 DEF PeipeiInv, Phased!Next

(* The value and the key are stored in the next places of their blocks.    *)
LEMMA PutValueStep ==
  ASSUME PeipeiInv, Peipei!PutValue
  PROVE  PeipeiInv' /\ [Phased!Next]_(Phased!vars)
<1>1. PICK c \in Nat, x \in Values : c = disk.entry_count_ /\ x = client.value
  BY DEF PeipeiInv, PeipeiTyped, WriteInv, Writing, Peipei!PutValue
<1>2. /\ client.op = "value" /\ mem' = mem /\ client' = [client EXCEPT !.op = "key"] /\ reply' = Nothing
      /\ disk' = [disk EXCEPT !.values = [disk.values EXCEPT ![c % V] = x]]
  BY <1>1 DEF PeipeiInv, PeipeiTyped, Peipei!PutValue, Peipei!Then, Peipei!count
<1>3. /\ client'.op = "key" /\ client'.key = client.key /\ client'.value = client.value
      /\ disk'.values = [disk.values EXCEPT ![c % V] = x]
      /\ disk'.entry_count_ = c /\ disk'.sets = disk.sets /\ disk'.mapped = disk.mapped
      /\ disk'.keys = disk.keys /\ disk'.valueFile = disk.valueFile /\ disk'.keyFile = disk.keyFile
  BY <1>1, <1>2 DEF PeipeiInv, PeipeiTyped
<1>4. disk.values \in [0..V - 1 -> Values \cup {Zero}] /\ c % V \in 0..V - 1
  BY <1>1, Sizes, Divided DEF PeipeiInv, PeipeiTyped
<1>5. SameEntries
  <2>1. ASSUME NEW n \in 0..c - 1
        PROVE  Entry(disk'.values, disk'.valueFile, c, V, n) = Entry(disk.values, disk.valueFile, c, V, n)
    <3>1. Replaced(disk.values, disk'.values, c, V)
      BY <1>3, <1>4 DEF Replaced
    <3>2. V \in Nat \ {0} /\ disk'.valueFile = disk.valueFile
      BY <1>3, <1>4, Sizes
    <3>3. QED
      BY <3>1, <3>2, BlockPut
  <2>2. QED
    BY <1>1, <1>3, <2>1, TheEntries DEF SameEntries
<1>6. EntriesInv' /\ UNCHANGED Phased!vars
  BY <1>1, <1>2, <1>3, <1>5, Stutters DEF Opening
<1>7. PeipeiTyped'
  <2>1. disk'.values \in [0..V - 1 -> Values \cup {Zero}]
    BY <1>3, <1>4
  <2>2. QED
    BY <1>2, <1>3, <2>1 DEF PeipeiInv, PeipeiTyped, Writing
<1>8. OpeningInv'
  BY <1>1, <1>2, <1>3 DEF PeipeiInv, OpeningInv, Opening
<1>9. disk'.values[c % V] = x
  BY <1>3, <1>4
<1>10. WriteInv'
  BY <1>1, <1>2, <1>3, <1>9 DEF PeipeiInv, WriteInv, Opening, Writing
<1>11. QED
  BY <1>6, <1>7, <1>8, <1>10 DEF PeipeiInv

(* The key is stored in its block, next to the entries that count.         *)
LEMMA PutKeyStep ==
  ASSUME PeipeiInv, Peipei!PutKey
  PROVE  PeipeiInv' /\ [Phased!Next]_(Phased!vars)
<1>1. PICK c \in Nat, k \in Keys : c = disk.entry_count_ /\ k = client.key
  BY DEF PeipeiInv, PeipeiTyped, WriteInv, Opening, Peipei!PutKey
<1>2. PICK op : op = IF Peipei!Full(V) THEN "valuefile" ELSE IF Peipei!Full(K) THEN "keyfile" ELSE "count"
  OBVIOUS
<1>3. /\ client.op = "key" /\ mem' = mem /\ client' = [client EXCEPT !.op = op] /\ reply' = Nothing
      /\ disk' = [disk EXCEPT !.keys = [disk.keys EXCEPT ![c % K] = k]]
  BY <1>1, <1>2 DEF PeipeiInv, PeipeiTyped, Peipei!PutKey, Peipei!Then, Peipei!count
<1>4. /\ client'.op = op /\ client'.key = client.key /\ client'.value = client.value
      /\ disk'.keys = [disk.keys EXCEPT ![c % K] = k]
      /\ disk'.entry_count_ = c /\ disk'.sets = disk.sets /\ disk'.mapped = disk.mapped
      /\ disk'.values = disk.values /\ disk'.valueFile = disk.valueFile /\ disk'.keyFile = disk.keyFile
      /\ op \in {"valuefile", "keyfile", "count"}
  BY <1>1, <1>2, <1>3 DEF PeipeiInv, PeipeiTyped
<1>5. disk.keys \in [0..K - 1 -> Keys \cup {Zero}] /\ c % K \in 0..K - 1
  BY <1>1, Sizes, Divided DEF PeipeiInv, PeipeiTyped
<1>6. SameEntries
  <2>1. ASSUME NEW n \in 0..c - 1
        PROVE  Entry(disk'.keys, disk'.keyFile, c, K, n) = Entry(disk.keys, disk.keyFile, c, K, n)
    <3>1. Replaced(disk.keys, disk'.keys, c, K)
      BY <1>4, <1>5 DEF Replaced
    <3>2. K \in Nat \ {0} /\ disk'.keyFile = disk.keyFile
      BY <1>4, <1>5, Sizes
    <3>3. QED
      BY <3>1, <3>2, BlockPut
  <2>2. QED
    BY <1>1, <1>4, <2>1, TheEntries DEF SameEntries
<1>7. EntriesInv' /\ UNCHANGED Phased!vars
  BY <1>1, <1>3, <1>4, <1>6, Stutters DEF Opening
<1>8. PeipeiTyped'
  <2>1. disk'.keys \in [0..K - 1 -> Keys \cup {Zero}]
    BY <1>4, <1>5
  <2>2. QED
    BY <1>3, <1>4, <2>1 DEF PeipeiInv, PeipeiTyped, Writing
<1>9. OpeningInv'
  BY <1>1, <1>3, <1>4 DEF PeipeiInv, OpeningInv, Opening
<1>10. disk'.keys[c % K] = k
  BY <1>4, <1>5
<1>11. WriteInv'
  <2>1. /\ Peipei!Full(V)' = Peipei!Full(V) /\ Peipei!Full(K)' = Peipei!Full(K)
    BY <1>1, <1>4 DEF Peipei!Full, Peipei!count
  <2>2. /\ op = "valuefile" => Peipei!Full(V)
        /\ op = "keyfile" => Peipei!Full(K)
        /\ op \in {"keyfile", "count"} => ~Peipei!Full(V)
        /\ op = "count" => ~Peipei!Full(K)
    BY <1>2
  <2>3. QED
    BY <1>1, <1>3, <1>4, <1>10, <2>1, <2>2 DEF PeipeiInv, WriteInv, Opening, Writing
<1>12. QED
  BY <1>7, <1>8, <1>9, <1>11 DEF PeipeiInv

(* A full block is copied to its file.                                     *)
LEMMA CopyValuesStep ==
  ASSUME PeipeiInv, Peipei!CopyValues
  PROVE  PeipeiInv' /\ [Phased!Next]_(Phased!vars)
<1>1. PICK c \in Nat : c = disk.entry_count_
  BY DEF PeipeiInv, PeipeiTyped
<1>2. PICK op : op = IF Peipei!Full(K) THEN "keyfile" ELSE "count"
  OBVIOUS
<1>3. PICK g : g = [n \in DOMAIN disk.valueFile |-> IF n \in c + 1 - V..c THEN disk.values[n % V] ELSE disk.valueFile[n]]
  OBVIOUS
<1>4. /\ client.op = "valuefile" /\ mem' = mem /\ client' = [client EXCEPT !.op = op] /\ reply' = Nothing
      /\ disk' = [disk EXCEPT !.valueFile = g]
  BY <1>1, <1>2, <1>3 DEF PeipeiInv, PeipeiTyped, Peipei!CopyValues, Peipei!Then, Peipei!Copied, Peipei!count
<1>5. /\ client'.op = op /\ client'.key = client.key /\ client'.value = client.value
      /\ disk'.valueFile = g
      /\ disk'.entry_count_ = c /\ disk'.sets = disk.sets /\ disk'.mapped = disk.mapped
      /\ disk'.values = disk.values /\ disk'.keys = disk.keys /\ disk'.keyFile = disk.keyFile
      /\ op \in {"keyfile", "count"}
  BY <1>1, <1>2, <1>4 DEF PeipeiInv, PeipeiTyped
<1>6. /\ (c + 1) % V = 0 /\ c <= PeipeiSets
      /\ disk.valueFile \in [0..PeipeiSets -> Values \cup {Zero}]
      /\ disk.values \in [0..V - 1 -> Values \cup {Zero}]
  BY <1>1, <1>4, Sizes DEF PeipeiInv, PeipeiTyped, EntriesInv, WriteInv, Peipei!Full, Peipei!count
<1>7. /\ \A n \in 0..c - 1 : Entry(disk.values, g, c, V, n) = Entry(disk.values, disk.valueFile, c, V, n)
      /\ \A n \in c + 1 - V..c : g[n] = disk.values[n % V]
  <2>1. \A n \in 0..c : n \in 0..PeipeiSets
    BY <1>3, <1>6, Sizes
  <2>2. BlockCopied(disk.values, disk.valueFile, g, c, V)
    BY <1>3, <1>6, <2>1 DEF BlockCopied
  <2>3. V \in Nat \ {0} /\ (c + 1) % V = 0
    BY <1>3, <1>6, Sizes
  <2>4. QED
    BY <2>2, <2>3, BlockCopy
<1>8. SameEntries
  BY <1>1, <1>5, <1>7, TheEntries DEF SameEntries
<1>9. EntriesInv' /\ UNCHANGED Phased!vars
  BY <1>1, <1>4, <1>5, <1>8, Stutters DEF Opening
<1>10. PeipeiTyped'
  <2>1. g \in [0..PeipeiSets -> Values \cup {Zero}]
    <3>1. c + 1 - V \in 0..c
      BY <1>6, Sizes, BlockEnds
    <3>2. \A n \in c + 1 - V..c : n \in Nat /\ n % V \in 0..V - 1
      BY <3>1, Sizes, Divided
    <3>3. QED
      BY <1>3, <1>6, <3>2
  <2>2. QED
    BY <1>4, <1>5, <2>1 DEF PeipeiInv, PeipeiTyped, Writing
<1>11. OpeningInv'
  BY <1>1, <1>4, <1>5 DEF PeipeiInv, OpeningInv, Opening
<1>12. WriteInv'
  <2>1. /\ Peipei!Full(V)' = Peipei!Full(V) /\ Peipei!Full(K)' = Peipei!Full(K)
    BY <1>1, <1>5 DEF Peipei!Full, Peipei!count
  <2>2. /\ op = "keyfile" => Peipei!Full(K)
        /\ op = "count" => ~Peipei!Full(K)
    BY <1>2
  <2>3. QED
    BY <1>1, <1>4, <1>5, <1>7, <2>1, <2>2 DEF PeipeiInv, WriteInv, Opening, Writing
<1>13. QED
  BY <1>9, <1>10, <1>11, <1>12 DEF PeipeiInv

(* A full block of keys is copied to its file.                             *)
LEMMA CopyKeysStep ==
  ASSUME PeipeiInv, Peipei!CopyKeys
  PROVE  PeipeiInv' /\ [Phased!Next]_(Phased!vars)
<1>1. PICK c \in Nat : c = disk.entry_count_
  BY DEF PeipeiInv, PeipeiTyped
<1>2. PICK g : g = [n \in DOMAIN disk.keyFile |-> IF n \in c + 1 - K..c THEN disk.keys[n % K] ELSE disk.keyFile[n]]
  OBVIOUS
<1>3. /\ client.op = "keyfile" /\ mem' = mem /\ client' = [client EXCEPT !.op = "count"] /\ reply' = Nothing
      /\ disk' = [disk EXCEPT !.keyFile = g]
  BY <1>1, <1>2 DEF PeipeiInv, PeipeiTyped, Peipei!CopyKeys, Peipei!Then, Peipei!Copied, Peipei!count
<1>4. /\ client'.op = "count" /\ client'.key = client.key /\ client'.value = client.value
      /\ disk'.keyFile = g
      /\ disk'.entry_count_ = c /\ disk'.sets = disk.sets /\ disk'.mapped = disk.mapped
      /\ disk'.values = disk.values /\ disk'.keys = disk.keys /\ disk'.valueFile = disk.valueFile
  BY <1>1, <1>3 DEF PeipeiInv, PeipeiTyped
<1>5. /\ (c + 1) % K = 0 /\ c <= PeipeiSets
      /\ disk.keyFile \in [0..PeipeiSets -> Keys \cup {Zero}]
      /\ disk.keys \in [0..K - 1 -> Keys \cup {Zero}]
  BY <1>1, <1>3, Sizes DEF PeipeiInv, PeipeiTyped, EntriesInv, WriteInv, Peipei!Full, Peipei!count
<1>6. /\ \A n \in 0..c - 1 : Entry(disk.keys, g, c, K, n) = Entry(disk.keys, disk.keyFile, c, K, n)
      /\ \A n \in c + 1 - K..c : g[n] = disk.keys[n % K]
  <2>1. \A n \in 0..c : n \in 0..PeipeiSets
    BY <1>2, <1>5, Sizes
  <2>2. BlockCopied(disk.keys, disk.keyFile, g, c, K)
    BY <1>2, <1>5, <2>1 DEF BlockCopied
  <2>3. K \in Nat \ {0} /\ (c + 1) % K = 0
    BY <1>2, <1>5, Sizes
  <2>4. QED
    BY <2>2, <2>3, BlockCopy
<1>7. SameEntries
  BY <1>1, <1>4, <1>6, TheEntries DEF SameEntries
<1>8. EntriesInv' /\ UNCHANGED Phased!vars
  BY <1>1, <1>3, <1>4, <1>7, Stutters DEF Opening
<1>9. PeipeiTyped'
  <2>1. g \in [0..PeipeiSets -> Keys \cup {Zero}]
    <3>1. c + 1 - K \in 0..c
      BY <1>5, Sizes, BlockEnds
    <3>2. \A n \in c + 1 - K..c : n \in Nat /\ n % K \in 0..K - 1
      BY <3>1, Sizes, Divided
    <3>3. QED
      BY <1>2, <1>5, <3>2
  <2>2. QED
    BY <1>3, <1>4, <2>1 DEF PeipeiInv, PeipeiTyped, Writing
<1>10. OpeningInv'
  BY <1>1, <1>3, <1>4 DEF PeipeiInv, OpeningInv, Opening
<1>11. WriteInv'
  <2>1. /\ Peipei!Full(V)' = Peipei!Full(V) /\ Peipei!Full(K)' = Peipei!Full(K)
    BY <1>1, <1>4 DEF Peipei!Full, Peipei!count
  <2>2. QED
    BY <1>1, <1>3, <1>4, <1>6, <2>1 DEF PeipeiInv, WriteInv, Opening, Writing
<1>12. QED
  BY <1>8, <1>9, <1>10, <1>11 DEF PeipeiInv

(* What Apply does to a call.                                              *)
LEMMA DoneCall ==
  ASSUME NEW k, NEW x
  PROVE  [[key |-> k, answer |-> x, done |-> FALSE] EXCEPT !.done = TRUE]
           = [key |-> k, answer |-> x, done |-> TRUE]
<1>1. PICK r : r = [key |-> k, answer |-> x, done |-> FALSE]
  OBVIOUS
<1>2. PICK q : q = [r EXCEPT !.done = TRUE]
  OBVIOUS
<1>3. r \in [key : {k}, answer : {x}, done : BOOLEAN]
  BY <1>1
<1>4. q \in [key : {k}, answer : {x}, done : BOOLEAN] /\ q.done = TRUE
  BY <1>2, <1>3
<1>5. q = [key |-> q.key, answer |-> q.answer, done |-> q.done]
  BY <1>4
<1>6. q.key = k /\ q.answer = x
  BY <1>4
<1>7. QED
  BY <1>1, <1>2, <1>4, <1>5, <1>6

(* The number of entries is raised: the entry takes effect.                *)
LEMMA CountStep ==
  ASSUME PeipeiInv, Peipei!Count
  PROVE  PeipeiInv' /\ [Phased!Next]_(Phased!vars)
<1>1. PICK c \in Nat, k \in Keys, x \in Values :
        c = disk.entry_count_ /\ k = client.key /\ x = client.value
  BY DEF PeipeiInv, PeipeiTyped, WriteInv, Opening, Writing, Peipei!Count
<1>2. /\ client.op = "count" /\ mem' = mem /\ client' = [client EXCEPT !.op = "return"] /\ reply' = Nothing
      /\ disk' = [disk EXCEPT !.entry_count_ = c + 1]
  BY <1>1 DEF PeipeiInv, PeipeiTyped, Peipei!Count, Peipei!Then
<1>3. /\ client'.op = "return" /\ client'.key = client.key /\ client'.value = client.value
      /\ disk'.entry_count_ = c + 1 /\ disk'.sets = disk.sets /\ disk'.mapped = disk.mapped
      /\ disk'.values = disk.values /\ disk'.valueFile = disk.valueFile
      /\ disk'.keys = disk.keys /\ disk'.keyFile = disk.keyFile
  BY <1>1, <1>2 DEF PeipeiInv, PeipeiTyped
<1>4. /\ c < disk.sets /\ disk.sets \in 0..PeipeiSets /\ k # Nothing
      /\ disk.values[c % V] = x /\ disk.keys[c % K] = k
  BY <1>1, <1>2, Sizes DEF PeipeiInv, PeipeiTyped, WriteInv, Writing
<1>5. /\ \A n \in 0..c - 1 : Peipei!KeyOf(n)' = Peipei!KeyOf(n) /\ Peipei!Value(n)' = Peipei!Value(n)
      /\ Peipei!KeyOf(c)' = k /\ Peipei!Value(c)' = x
  <2>1. FileReady(disk.values, disk.valueFile, c, V) /\ FileReady(disk.keys, disk.keyFile, c, K)
    BY <1>1, <1>2 DEF PeipeiInv, WriteInv, Peipei!Full, Peipei!count, FileReady
  <2>2. /\ \A n \in 0..c - 1 : Entry(disk.values, disk.valueFile, c + 1, V, n)
                                 = Entry(disk.values, disk.valueFile, c, V, n)
        /\ Entry(disk.values, disk.valueFile, c + 1, V, c) = disk.values[c % V]
    BY <2>1, Sizes, BlockNext
  <2>3. /\ \A n \in 0..c - 1 : Entry(disk.keys, disk.keyFile, c + 1, K, n)
                                 = Entry(disk.keys, disk.keyFile, c, K, n)
        /\ Entry(disk.keys, disk.keyFile, c + 1, K, c) = disk.keys[c % K]
    BY <2>1, Sizes, BlockNext
  <2>4. QED
    BY <1>1, <1>3, <1>4, <2>2, <2>3, TheEntries
<1>6. Peipei!Snapshot' = Peipei!Snapshot
  <2>1. ASSUME NEW h \in Keys
        PROVE  Peipei!Find(mem.index_, h)' = Peipei!Find(mem.index_, h)
    <3>1. PICK ns : ns = {n \in 0..PeipeiSets : <<h, n>> \in mem.index_}
      OBVIOUS
    <3>2. ns = {n \in 0..PeipeiSets : <<h, n>> \in mem'.index_}
      BY <1>2, <3>1
    <3>3. CASE ns = {}
      BY <3>1, <3>2, <3>3 DEF Peipei!Find
    <3>4. CASE ns # {}
      <4>1. PICK m \in ns : m = Peipei!Max(ns)
        BY <3>1, <3>4, Last
      <4>2. m \in 0..c - 1
        BY <1>1, <3>1 DEF PeipeiInv, EntriesInv
      <4>3. Peipei!Value(m)' = Peipei!Value(m)
        BY <1>5, <4>2
      <4>4. /\ Peipei!Find(mem.index_, h) = Peipei!Value(m)
            /\ Peipei!Find(mem.index_, h)' = Peipei!Value(m)'
        BY <3>1, <3>2, <3>4, <4>1 DEF Peipei!Find
      <4>5. QED
        BY <4>3, <4>4
    <3>5. QED
      BY <3>3, <3>4
  <2>2. QED
    BY <2>1 DEF Peipei!Snapshot
<1>7. Peipei!Durable' = [Peipei!Durable EXCEPT ![k] = x]
  <2>1. ASSUME NEW h \in Keys
        PROVE  Peipei!Find(Peipei!Entries, h)' = IF h = k THEN x ELSE Peipei!Find(Peipei!Entries, h)
    <3>1. PICK ns : ns = {n \in 0..PeipeiSets : <<h, n>> \in Peipei!Entries}
      OBVIOUS
    <3>2. PICK ns2 : ns2 = {n \in 0..PeipeiSets : <<h, n>> \in Peipei!Entries'}
      OBVIOUS
    <3>3. \A n : n \in ns <=> n \in 0..c - 1 /\ n \in 0..PeipeiSets /\ Peipei!KeyOf(n) = h
      BY <1>1, <3>1 DEF Peipei!Entries
    <3>4. \A n : n \in ns2 <=> n \in 0..c /\ n \in 0..PeipeiSets /\ Peipei!KeyOf(n)' = h
      <4>1. disk'.entry_count_ - 1 = c
        BY <1>1, <1>3
      <4>2. QED
        BY <3>2, <4>1 DEF Peipei!Entries
    <3>5. c \in 0..PeipeiSets
      BY <1>1, <1>4, Sizes
    <3>6. CASE h = k
      <4>1. c \in ns2 /\ \A n \in ns2 : n <= c
        BY <1>1, <1>5, <3>4, <3>5, <3>6
      <4>2. Peipei!Max(ns2) = c
        <5>1. ns2 \in SUBSET (0..PeipeiSets) /\ ns2 # {}
          BY <3>2, <4>1
        <5>2. PICK m \in ns2 : m = Peipei!Max(ns2) /\ m >= c
          BY <4>1, <5>1, Last
        <5>3. m \in Nat /\ m <= c
          BY <4>1, <5>1
        <5>4. QED
          BY <1>1, <5>2, <5>3
      <4>3. Peipei!Find(Peipei!Entries, h)' = Peipei!Value(c)'
        BY <3>2, <4>1, <4>2 DEF Peipei!Find
      <4>4. QED
        BY <1>5, <3>6, <4>3
    <3>7. CASE h # k
      <4>1. \A n : n \in ns2 <=> n \in ns
        <5>1. ASSUME NEW n
              PROVE  n \in ns2 <=> n \in ns
          <6>1. CASE n = c
            BY <1>1, <1>5, <3>3, <3>4, <3>7, <6>1
          <6>2. CASE n # c
            <7>1. n \in 0..c <=> n \in 0..c - 1
              BY <1>1, <6>2
            <7>2. QED
              BY <1>5, <3>3, <3>4, <7>1
          <6>3. QED
            BY <6>1, <6>2
        <5>2. QED
          BY <5>1
      <4>2. ns2 = ns
        BY <4>1
      <4>3. CASE ns = {}
        BY <3>1, <3>2, <3>7, <4>2, <4>3 DEF Peipei!Find
      <4>4. CASE ns # {}
        <5>1. PICK m \in ns : m = Peipei!Max(ns)
          BY <3>1, <4>4, Last
        <5>2. Peipei!Value(m)' = Peipei!Value(m)
          BY <1>5, <3>3, <5>1
        <5>3. /\ Peipei!Find(Peipei!Entries, h) = Peipei!Value(m)
              /\ Peipei!Find(Peipei!Entries, h)' = Peipei!Value(m)'
          BY <3>1, <3>2, <4>2, <4>4, <5>1 DEF Peipei!Find
        <5>4. QED
          BY <3>7, <5>2, <5>3
      <4>5. QED
        BY <4>3, <4>4
    <3>8. QED
      BY <3>6, <3>7
  <2>2. QED
    BY <2>1 DEF Peipei!Durable
<1>8. Phased!Apply
  <2>1. /\ Peipei!Call = [key |-> k, answer |-> x, done |-> FALSE]
        /\ Peipei!Call' = [key |-> k, answer |-> x, done |-> TRUE]
        /\ Peipei!Call # Nothing
    <3>1. [key |-> k, answer |-> x, done |-> FALSE] # Nothing
      BY PeipeiAssumption DEF Values
    <3>2. Peipei!Call = [key |-> k, answer |-> x, done |-> FALSE]
      BY <1>1, <1>2, <1>4 DEF Peipei!Call
    <3>3. Peipei!Call' = [key |-> k, answer |-> x, done |-> TRUE]
      BY <1>1, <1>3, <1>4 DEF Peipei!Call
    <3>4. QED
      BY <3>1, <3>2, <3>3
  <2>2. Peipei!Up' = Peipei!Up
    BY <1>2, <1>3 DEF Peipei!Up
  <2>3. QED
    <3>1. /\ Peipei!Call.key = k /\ Peipei!Call.answer = x /\ ~Peipei!Call.done
          /\ Peipei!Call' = [Peipei!Call EXCEPT !.done = TRUE]
      <4>1. PICK y : y = Peipei!Call /\ y = [key |-> k, answer |-> x, done |-> FALSE]
        BY <2>1
      <4>2. y.key = k /\ y.answer = x /\ y.done = FALSE
        BY <4>1
      <4>3. [y EXCEPT !.done = TRUE] = [key |-> k, answer |-> x, done |-> TRUE]
        BY <4>1, DoneCall
      <4>4. QED
        BY <2>1, <4>1, <4>2, <4>3
    <3>2. QED
      BY <1>2, <1>6, <1>7, <2>1, <2>2, <3>1 DEF Phased!Apply
<1>9. PeipeiTyped'
  BY <1>1, <1>2 DEF PeipeiInv, PeipeiTyped
<1>10. EntriesInv'
  <2>1. \A n \in 0..c : n \in 0..c - 1 \/ n = c
    BY <1>1
  <2>2. \A n \in 0..c : Peipei!KeyOf(n)' \in Keys /\ Peipei!Value(n)' \in Values
    BY <1>1, <1>5, <2>1 DEF PeipeiInv, EntriesInv
  <2>3. \A e \in mem'.index_ : e[2] < c + 1
    BY <1>1, <1>2 DEF PeipeiInv, EntriesInv, PeipeiTyped
  <2>4. c + 1 <= disk.sets /\ (c + 1) - 1 = c
    BY <1>1, <1>4
  <2>5. QED
    BY <1>3, <2>2, <2>3, <2>4 DEF EntriesInv
<1>11. OpeningInv'
  BY <1>2, <1>3 DEF PeipeiInv, OpeningInv, Opening
<1>12. WriteInv'
  BY <1>1, <1>2, <1>3, <1>4 DEF WriteInv, Opening, Writing
<1>13. QED
  BY <1>8, <1>9, <1>10, <1>11, <1>12 DEF PeipeiInv, Phased!Next

(* A Set returns.                                                          *)
LEMMA ReturnStep ==
  ASSUME PeipeiInv, Peipei!Return
  PROVE  PeipeiInv' /\ [Phased!Next]_(Phased!vars)
<1>1. /\ client.op = "return" /\ client' = [op |-> "idle", key |-> Nothing, value |-> Nothing]
      /\ reply' = Nothing /\ disk' = disk /\ mem' = mem
  BY DEF Peipei!Return, Peipei!At
<1>2. SameEntries
  BY <1>1, SameDisk
<1>3. PICK k \in Keys : k = client.key
  BY <1>1 DEF PeipeiInv, PeipeiTyped, WriteInv, Opening
<1>4. Phased!Return
  <2>1. PICK a : a = client.value /\ a \in Values
    BY <1>1 DEF PeipeiInv, WriteInv
  <2>2. PICK y : y = [key |-> k, answer |-> a, done |-> TRUE] /\ y.done = TRUE
    <3>1. [key |-> k, answer |-> a, done |-> TRUE].done = TRUE
      BY Zenon
    <3>2. QED
      BY <3>1
  <2>3. Peipei!Call = y /\ y # Nothing
    BY <1>1, <1>3, <2>1, <2>2, PeipeiAssumption DEF Peipei!Call, Values
  <2>4. Peipei!Call' = Nothing /\ Peipei!Up' = Peipei!Up
    BY <1>1 DEF Peipei!Call, Peipei!Up
  <2>5. QED
    BY <1>1, <1>2, <2>2, <2>3, <2>4, SameStore DEF Phased!Return
<1>5. PeipeiTyped' /\ EntriesInv' /\ OpeningInv' /\ WriteInv'
  <2>1. PeipeiTyped'
    BY <1>1 DEF PeipeiInv, PeipeiTyped
  <2>2. EntriesInv'
    BY <1>1, <1>2 DEF PeipeiInv, EntriesInv, SameEntries
  <2>3. OpeningInv'
    BY <1>1 DEF PeipeiInv, OpeningInv, Opening
  <2>4. WriteInv'
    BY <1>1 DEF PeipeiInv, WriteInv, Opening, Writing
  <2>5. QED
    BY <2>1, <2>2, <2>3, <2>4
<1>6. QED
  BY <1>4, <1>5 DEF PeipeiInv, Phased!Next

(* A Get answers from the index that was loaded.                           *)
LEMMA GetStep ==
  ASSUME PeipeiInv, NEW k \in Keys, Peipei!Get(k)
  PROVE  PeipeiInv' /\ [Phased!Next]_(Phased!vars)
<1>1. /\ client.op = "idle" /\ disk' = disk /\ mem' = mem /\ client' = client
      /\ reply' = Peipei!Find(mem.index_, k)
  BY DEF Peipei!Get
<1>2. SameEntries
  BY <1>1, SameDisk
<1>3. client.key = Nothing
  BY <1>1 DEF PeipeiInv, WriteInv
<1>4. Phased!Get(k)
  <2>1. /\ Peipei!Call = Nothing /\ Peipei!Call' = Nothing /\ Peipei!Up /\ Peipei!Up' = Peipei!Up
    BY <1>1, <1>3 DEF Peipei!Call, Peipei!Up
  <2>2. reply' = Peipei!Snapshot[k]
    BY <1>1 DEF Peipei!Snapshot
  <2>3. QED
    BY <1>1, <1>2, <2>1, <2>2, SameStore DEF Phased!Get
<1>5. PeipeiInv'
  <2>1. PeipeiTyped' /\ OpeningInv'
    BY <1>1 DEF PeipeiInv, PeipeiTyped, OpeningInv
  <2>2. EntriesInv'
    BY <1>1, <1>2 DEF PeipeiInv, EntriesInv, SameEntries
  <2>3. WriteInv'
    BY <1>1 DEF PeipeiInv, WriteInv, Writing
  <2>4. QED
    BY <2>1, <2>2, <2>3 DEF PeipeiInv
<1>6. QED
  BY <1>4, <1>5 DEF Phased!Next

(* The process stops: a Set in progress has not taken effect, or has when  *)
(* the number was raised.                                                  *)
LEMMA StopStep ==
  ASSUME PeipeiInv, Peipei!Stop
  PROVE  PeipeiInv' /\ [Phased!Next]_(Phased!vars)
<1>1. /\ mem' = [is_new |-> FALSE, index_ |-> {}] /\ disk' = disk /\ reply' = Nothing
      /\ client' = [op |-> "files", key |-> Nothing, value |-> Nothing]
  BY DEF Peipei!Stop, Peipei!Closed, Peipei!At
<1>2. SameEntries
  BY <1>1, SameDisk
<1>3. Phased!Crash
  <2>1. Peipei!Durable' = Peipei!Durable
    BY <1>2, SameStore
  <2>2. Peipei!Snapshot' = [h \in Keys |-> NotFound]
    <3>1. mem'.index_ = {}
      BY <1>1
    <3>2. \A h \in Keys : Peipei!Find(mem.index_, h)' = NotFound
      BY <3>1 DEF Peipei!Find
    <3>3. QED
      BY <3>2 DEF Peipei!Snapshot
  <2>3. Peipei!Call' = Nothing
    BY <1>1 DEF Peipei!Call
  <2>4. Peipei!Up' = FALSE
    BY <1>1 DEF Peipei!Up
  <2>5. QED
    BY <1>1, <2>1, <2>2, <2>3, <2>4 DEF Phased!Crash
<1>4. PeipeiTyped'
  BY <1>1 DEF PeipeiInv, PeipeiTyped, Opening
<1>5. EntriesInv'
  BY <1>1, <1>2 DEF PeipeiInv, EntriesInv, SameEntries
<1>6. OpeningInv' /\ WriteInv'
  <2>1. OpeningInv'
    BY <1>1 DEF PeipeiInv, OpeningInv, Opening
  <2>2. WriteInv'
    BY <1>1 DEF PeipeiInv, WriteInv, Opening, Writing
  <2>3. QED
    BY <2>1, <2>2
<1>7. QED
  BY <1>3, <1>4, <1>5, <1>6 DEF PeipeiInv, Phased!Next

------------------------------------------------------------------------------
(* The refinement                                                          *)

(* A new database is an empty store that is not open.                      *)
LEMMA PeipeiInit ==
  ASSUME Peipei!Init
  PROVE  PeipeiInv /\ Phased!Init
<1>1. /\ disk = [mapped |-> FALSE, entry_count_ |-> 0, sets |-> 0,
                 values |-> [i \in 0..V - 1 |-> Zero], keys |-> [i \in 0..K - 1 |-> Zero],
                 valueFile |-> [i \in 0..PeipeiSets |-> Zero], keyFile |-> [i \in 0..PeipeiSets |-> Zero]]
      /\ mem = [is_new |-> FALSE, index_ |-> {}]
      /\ client = [op |-> "files", key |-> Nothing, value |-> Nothing] /\ reply = Nothing
  BY DEF Peipei!Init, Peipei!Closed, Peipei!At
<1>2. disk.entry_count_ = 0 /\ disk.sets = 0 /\ mem.index_ = {} /\ 0..disk.entry_count_ - 1 = {}
  BY <1>1
<1>3. PeipeiTyped
  BY <1>1, Sizes DEF PeipeiTyped, Opening
<1>4. EntriesInv /\ OpeningInv
  BY <1>1, <1>2 DEF EntriesInv, OpeningInv, Opening
<1>5. WriteInv
  BY <1>1 DEF WriteInv, Opening, Writing
<1>6. Peipei!Entries = {}
  BY <1>2 DEF Peipei!Entries
<1>7. \A k \in Keys : Peipei!Find({}, k) = NotFound
  BY DEF Peipei!Find
<1>8. Peipei!Durable = [k \in Keys |-> NotFound] /\ Peipei!Snapshot = [k \in Keys |-> NotFound]
  BY <1>2, <1>6, <1>7 DEF Peipei!Durable, Peipei!Snapshot
<1>9. Peipei!Call = Nothing /\ Peipei!Up \in BOOLEAN
  BY <1>1 DEF Peipei!Call, Peipei!Up
<1>10. Phased!Init
  BY <1>1, <1>8, <1>9 DEF Phased!Init
<1>11. QED
  BY <1>3, <1>4, <1>5, <1>10 DEF PeipeiInv

(* Every step of the engine is a step of PhasedStore, or none.             *)
LEMMA PeipeiNext ==
  ASSUME PeipeiInv, Peipei!Next
  PROVE  PeipeiInv' /\ [Phased!Next]_(Phased!vars)
<1>1. CASE \E k \in Keys : Peipei!Set(k) \/ Peipei!Get(k)
  BY <1>1, SetStep, GetStep
<1>2. CASE Peipei!OpenFiles \/ Peipei!MapBuffers \/ Peipei!LoadIndex
  BY <1>2, OpenFilesStep, MapBuffersStep, LoadIndexStep
<1>3. CASE Peipei!PutValue \/ Peipei!PutKey
  BY <1>3, PutValueStep, PutKeyStep
<1>4. CASE Peipei!CopyValues \/ Peipei!CopyKeys
  BY <1>4, CopyValuesStep, CopyKeysStep
<1>5. CASE Peipei!Count \/ Peipei!Return
  BY <1>5, CountStep, ReturnStep
<1>6. CASE Peipei!Kill \/ Peipei!ExitOnError
  BY <1>6, StopStep DEF Peipei!Kill, Peipei!ExitOnError
<1>7. QED
  BY <1>1, <1>2, <1>3, <1>4, <1>5, <1>6 DEF Peipei!Next

(* So is a step that leaves all as it is.                                  *)
LEMMA PeipeiUnchanged ==
  ASSUME PeipeiInv, UNCHANGED vars
  PROVE  PeipeiInv' /\ UNCHANGED Phased!vars
<1>1. disk' = disk /\ mem' = mem /\ client' = client /\ reply' = reply
  BY DEF vars, state
<1>2. SameEntries
  BY <1>1, SameDisk
<1>3. UNCHANGED Phased!vars
  BY <1>1, <1>2, SameStore DEF Phased!vars, Peipei!Call, Peipei!Up
<1>4. PeipeiTyped' /\ OpeningInv' /\ EntriesInv'
  BY <1>1, <1>2 DEF PeipeiInv, PeipeiTyped, OpeningInv, EntriesInv, SameEntries
<1>5. WriteInv'
  BY <1>1 DEF PeipeiInv, WriteInv, Peipei!Full, Peipei!count
<1>6. QED
  BY <1>3, <1>4, <1>5 DEF PeipeiInv

(* nvm_engine_peipei implements PhasedStore: whatever is stopped or killed *)
(* between two stores, what a Set wrote is found by the next opening if it *)
(* returned, and as a whole or not at all if it did not; and every Get     *)
(* answers as the opening before it found the store.                       *)
THEOREM PeipeiIsPhased == Spec => PeipeiImplementsPhasedStore
<1> DEFINE Inv == PeipeiOn => PeipeiInv
<1>1. Init => Inv /\ PeipeiStore!Init
  <2>1. ASSUME Init, PeipeiOn
        PROVE  PeipeiInv /\ PeipeiStore!Init
    <3>1. Peipei!Init
      BY <2>1 DEF Init, PeipeiOn
    <3>2. QED
      BY <2>1, <3>1, PeipeiInit DEF Phased!Init, PeipeiStore!Init, Values
  <2>2. ASSUME ~PeipeiOn
        PROVE  PeipeiStore!Init
    BY <2>2 DEF PeipeiStore!Init
  <2>3. QED
    BY <2>1, <2>2
<1>2. Inv /\ [Next]_vars => Inv' /\ [PeipeiStore!Next]_(PeipeiStore!vars)
  <2>1. ASSUME PeipeiInv, PeipeiOn, Next
        PROVE  PeipeiInv' /\ [Phased!Next]_(Phased!vars) /\ PeipeiOn'
    <3>1. Peipei!Next /\ engine' = engine
      BY <2>1 DEF Next, PeipeiOn, FirstStep, P7Step, PeipeiStep, PatenStep, LatestStep, ExampleStep
    <3>2. QED
      BY <2>1, <3>1, PeipeiNext DEF PeipeiOn
  <2>2. ASSUME PeipeiInv, PeipeiOn, UNCHANGED vars
        PROVE  PeipeiInv' /\ [Phased!Next]_(Phased!vars) /\ PeipeiOn'
    BY <2>2, PeipeiUnchanged DEF vars, PeipeiOn
  <2>3. ASSUME PeipeiOn, PeipeiOn', [Phased!Next]_(Phased!vars)
        PROVE  [PeipeiStore!Next]_(PeipeiStore!vars)
    BY <2>3 DEF Phased!Next, Phased!vars, Phased!Begin, Phased!Apply, Phased!Return, Phased!Get, Phased!Crash,
         Phased!Recovered, PeipeiStore!Next, PeipeiStore!vars, PeipeiStore!Begin, PeipeiStore!Apply,
         PeipeiStore!Return, PeipeiStore!Get, PeipeiStore!Crash, PeipeiStore!Recovered, Values
  <2>4. ASSUME ~PeipeiOn, [Next]_vars
        PROVE  ~PeipeiOn' /\ UNCHANGED PeipeiStore!vars
    <3>1. ~PeipeiOn'
      BY <2>4 DEF Next, vars, PeipeiOn
    <3>2. QED
      BY <2>4, <3>1 DEF PeipeiStore!vars
  <2>5. QED
    BY <2>1, <2>2, <2>3, <2>4
<1>3. QED
  BY <1>1, <1>2, PTL DEF Spec, PeipeiImplementsPhasedStore, PeipeiStore!Spec

------------------------------------------------------------------------------
(* nvm_engine: its inductive invariant                                     *)

Positions == 0..Slots - 1
Offsets == First!Offsets
Items == {o \in Offsets : disk[o] # First!Blank}
ItemEnd(o) == o + First!calSizeFromIdx(disk[o].chunk)
Setting == client.op \in {"write", "recycle", "index"}

(* Where an item is: in queue c of the queues f, in one of mem's, in the   *)
(* index.  A queue that is Separate has nothing twice.                     *)
InQueue(f, c, o) == \E i \in 1..Len(f[c]) : f[c][i] = o
Separate(f) == \A c \in First!Chunks : \A i, j \in 1..Len(f[c]) : f[c][i] = f[c][j] => i = j
Taken(f, c) == [f EXCEPT ![c] = Tail(f[c])]
Put(f, c, o) == [f EXCEPT ![c] = Append(f[c], o)]
Queued(o) == \E c \in First!Chunks : InQueue(mem.free_space, c, o)
Indexed(o) == \E p \in Positions : mem.index_offsets[p] = o

(* The entry of a key, and the positions a search of it passes before one. *)
Used(p) == mem.index_offsets[p] # First!EMPTY
KeyAt(p) == disk[mem.index_offsets[p]].key
HasEntry(k) == \E p \in Positions : Used(p) /\ KeyAt(p) = k
Before(k, p) ==
  {q \in Positions : IF Hash[k] <= p THEN Hash[k] <= q /\ q < p ELSE Hash[k] <= q \/ q < p}

(* The items the recovery in progress has come by; all, if there is none.  *)
Known == {o \in Items : client.op = "open" => o < client.new}

Records == [key : Keys, value : FirstValues, cnt : 0..CntMod - 1, chunk : First!Chunks]

FirstTyped ==
  /\ disk \in [Offsets -> Records \cup {First!Blank}]
  /\ mem \in [index_offsets : [Positions -> Offsets \cup {First!EMPTY}],
              free_space : [First!Chunks -> Seq(Offsets)], file_end_offset_ : Offsets]
  /\ client \in [op : {"idle", "open", "write", "recycle", "index"},
                 key : Keys \cup {Nothing}, value : FirstValues \cup {Nothing},
                 old : Offsets \cup {First!EMPTY}, hash_pos : Positions,
                 cnt : 0..CntMod - 1, new : Offsets \cup {First!EMPTY}]
  /\ Setting => client.key \in Keys /\ client.value \in FirstValues /\ client.new \in Offsets
  /\ ghost \in [Keys -> [sets : Nat, latest : FirstValues \cup {NotFound}]]

(* The items lie side by side from 0 to the end e.                         *)
SideBySide(e) ==
  /\ 0 \in Items \cup {e}
  /\ \A o \in Items : o < e /\ ItemEnd(o) \in Items \cup {e}
  /\ \A o, p \in Items : o < p => ItemEnd(o) <= p

(* The end is the one in memory, behind the new item a Set has yet to      *)
(* write, or the one that recovery looks for.                              *)
LayoutInv ==
  \E e \in Offsets :
    /\ SideBySide(e)
    /\ client.op = "open" => client.new \in Items \cup {e}
    /\ client.op # "open" =>
         IF client.op = "write" /\ client.new \notin Items
         THEN e = client.new /\ mem.file_end_offset_ = e + First!ItemSize(client.value)
         ELSE e = mem.file_end_offset_

(* An item is in the index, in the queue of its chunk or the new item of a *)
(* Set, and in one of them only; but the item that a Set replaces is for a *)
(* while in the index and in a queue.                                      *)
FirstOwnInv ==
  /\ \A p \in Positions : Used(p) => mem.index_offsets[p] \in Known
  /\ Separate(mem.free_space)
  /\ \A c \in First!Chunks, o \in Offsets :
       InQueue(mem.free_space, c, o) => o \in Known /\ disk[o].chunk = c
  /\ \A o \in Known : Indexed(o) /\ Queued(o) => client.op = "index" /\ o = client.old
  /\ \A o \in Known : Indexed(o) \/ Queued(o) \/ (Setting /\ o = client.new)
  /\ Setting => ~Indexed(client.new) /\ ~Queued(client.new)

(* A key has one entry, and a search gets to it.                           *)
FirstIndexInv ==
  \A p \in Positions : Used(p) =>
    /\ \A q \in Positions : Used(q) /\ KeyAt(q) = KeyAt(p) => q = p
    /\ \A q \in Before(KeyAt(p), p) : Used(q)

(* What a Set knows of its key and its two items.                          *)
FirstSetInv ==
  Setting =>
    /\ client.old # First!EMPTY =>
         /\ mem.index_offsets[client.hash_pos] = client.old /\ disk[client.old].key = client.key
         /\ client.op = "index" => Queued(client.old)
    /\ client.old = First!EMPTY => client.op # "recycle" /\ ~HasEntry(client.key)
    /\ client.op # "write" => client.new \in Items /\ disk[client.new].key = client.key

(* The key of an item has an entry, or will have by the end of the Set.    *)
FirstCovered ==
  \A o \in Known : \/ HasEntry(disk[o].key)
                   \/ client.op \in {"recycle", "index"} /\ disk[o].key = client.key

(* Item o is one of the key k in S, and none of them has a greater count.  *)
Leads(o, k, S) ==
  /\ o \in S /\ disk[o].key = k
  /\ \A q \in S : disk[q].key = k => disk[q].cnt <= disk[o].cnt

(* Until the count of a key wraps, its last record has the greatest count, *)
(* and the index leads to the greatest one that is known; the record a Set *)
(* writes will have the greatest.                                          *)
FirstLatest(k) ==
  ghost[k].sets < CntMod =>
    /\ ghost[k].sets = 0 => ghost[k].latest = NotFound /\ \A o \in Items : disk[o].key # k
    /\ ghost[k].sets > 0 =>
         \E o \in Items : /\ Leads(o, k, Items)
                          /\ \A q \in Items : Leads(q, k, Items) => q = o
                          /\ disk[o].value = ghost[k].latest /\ disk[o].cnt \in 1..ghost[k].sets
                          /\ client.op \in {"recycle", "index"} /\ client.key = k => o = client.new
    /\ ~(client.op \in {"recycle", "index"} /\ client.key = k) =>
         \A p \in Positions : Used(p) /\ KeyAt(p) = k => Leads(mem.index_offsets[p], k, Known)
    /\ client.op = "write" /\ client.key = k =>
         client.cnt = IF client.old = First!EMPTY THEN 1 ELSE First!NextCnt(disk[client.old].cnt)

FirstLatestInv == \A k \in Keys : FirstLatest(k)

FirstInv ==
  FirstTyped /\ LayoutInv /\ FirstOwnInv /\ FirstIndexInv /\ FirstSetInv /\ FirstCovered /\ FirstLatestInv

------------------------------------------------------------------------------
(* The sizes of items                                                      *)

(* The size of an item follows from its chunk id, and is a number of       *)
(* units of 16 bytes.                                                      *)
LEMMA ItemSizes ==
  ASSUME NEW v \in FirstValues
  PROVE  /\ First!calFreeSpaceIdx(v) \in First!Chunks
         /\ First!calSizeFromIdx(First!calFreeSpaceIdx(v)) = First!ItemSize(v)
         /\ \E q \in Nat \ {0} : First!ItemSize(v) = 16 * q
<1>1. PICK s \in Nat : s = SizeOf[v]
  BY FirstAssumption
<1>2. PICK q \in Int : q = (s + 35) \div 16
  OBVIOUS
<1>3. q > 0 /\ First!ItemSize(v) = 16 * q
  BY <1>1, <1>2 DEF First!ItemSize
<1>4. (16 * q - 112) \div 16 = q - 7
  BY <1>2
<1>5. First!calFreeSpaceIdx(v) = q - 7
  BY <1>3, <1>4 DEF First!calFreeSpaceIdx
<1>6. First!calSizeFromIdx(q - 7) = 16 * q
  BY <1>2 DEF First!calSizeFromIdx
<1>7. QED
  BY <1>3, <1>5, <1>6 DEF First!Chunks

(* So is the size of any chunk.                                            *)
LEMMA ChunkSizes ==
  ASSUME NEW c \in First!Chunks
  PROVE  \E q \in Nat \ {0} : First!calSizeFromIdx(c) = 16 * q
<1>1. PICK v \in FirstValues : c = First!calFreeSpaceIdx(v)
  BY DEF First!Chunks
<1>2. QED
  BY <1>1, ItemSizes

(* The places of items are the multiples of these units in the file.       *)
LEMMA Places ==
  /\ Offsets \subseteq Nat /\ 0 \in Offsets /\ First!EMPTY \notin Offsets
  /\ \A o \in Offsets, q \in Nat : o + 16 * q <= FileSize => o + 16 * q \in Offsets
<1>1. FileSize \in Nat /\ FileSize \div 16 \in Nat
  BY FirstAssumption
<1>2. Offsets \subseteq Nat /\ 0 \in Offsets /\ First!EMPTY \notin Offsets
  BY <1>1 DEF Offsets, First!Offsets, First!EMPTY
<1>3. ASSUME NEW o \in Offsets, NEW q \in Nat, o + 16 * q <= FileSize
      PROVE  o + 16 * q \in Offsets
  <2>1. PICK i \in 0..FileSize \div 16 : o = 16 * i
    BY DEF Offsets, First!Offsets
  <2>2. i \in Nat /\ 16 * (i + q) <= FileSize
    BY <1>3, <2>1
  <2>3. i + q \in 0..FileSize \div 16
    BY <1>1, <2>2
  <2>4. o + 16 * q = 16 * (i + q)
    BY <2>1, <2>2
  <2>5. QED
    BY <2>3, <2>4 DEF Offsets, First!Offsets
<1>4. QED
  BY <1>2, <1>3

------------------------------------------------------------------------------
(* The search of the index                                                 *)

(* Where a search begins, and that any two positions come one after the    *)
(* other in it.                                                            *)
LEMMA InOrder ==
  ASSUME NEW k \in Keys, NEW p \in Positions, NEW q \in Positions
  PROVE  p = q \/ p \in Before(k, q) \/ q \in Before(k, p)
<1>1. Hash[k] \in 0..Slots - 1 /\ Slots \in Nat
  BY FirstAssumption
<1>2. QED
  BY <1>1 DEF Positions, Before

(* The i-th position of a search.                                          *)
LEMMA SearchAt ==
  ASSUME NEW k \in Keys, NEW i \in Positions
  PROVE  /\ (Hash[k] + i) % Slots \in Positions
         /\ (Hash[k] + i) % Slots = IF Hash[k] + i < Slots THEN Hash[k] + i ELSE Hash[k] + i - Slots
<1>1. Hash[k] \in 0..Slots - 1 /\ Slots \in Nat \ {0} /\ i \in 0..Slots - 1
  BY FirstAssumption DEF Positions
<1>2. PICK x \in Nat : x = Hash[k] + i
  BY <1>1
<1>3. CASE x < Slots
  <2>1. x % Slots = x
    BY <1>1, <1>2, <1>3
  <2>2. QED
    BY <1>1, <1>2, <1>3, <2>1 DEF Positions
<1>4. CASE ~(x < Slots)
  <2>1. x - Slots \in 0..Slots - 1 /\ x = 1 * Slots + (x - Slots)
    BY <1>1, <1>2, <1>4
  <2>2. x % Slots = x - Slots
    BY <1>1, <2>1
  <2>3. QED
    BY <1>1, <1>2, <1>4, <2>1, <2>2 DEF Positions
<1>5. QED
  BY <1>3, <1>4

(* Every position has its turn in a search, after those before it.         *)
LEMMA Turns ==
  ASSUME NEW k \in Keys, NEW p \in Positions
  PROVE  \E i \in Positions :
           /\ (Hash[k] + i) % Slots = p
           /\ \A q \in Before(k, p) : \E j \in 0..i - 1 : q = (Hash[k] + j) % Slots
           /\ \A j \in 0..i - 1 : (Hash[k] + j) % Slots \in Before(k, p)
<1>1. Hash[k] \in 0..Slots - 1 /\ Slots \in Nat \ {0} /\ p \in 0..Slots - 1
  BY FirstAssumption DEF Positions
<1>2. PICK i \in Positions : i = IF Hash[k] <= p THEN p - Hash[k] ELSE p + Slots - Hash[k]
  BY <1>1 DEF Positions
<1>3. (Hash[k] + i) % Slots = p
  <2>1. (Hash[k] + i) % Slots = IF Hash[k] + i < Slots THEN Hash[k] + i ELSE Hash[k] + i - Slots
    BY SearchAt
  <2>2. QED
    BY <1>1, <1>2, <2>1
<1>4. ASSUME NEW j \in 0..i - 1
      PROVE  (Hash[k] + j) % Slots \in Before(k, p)
  <2>1. j \in Positions /\ i \in 0..Slots - 1 /\ j \in Nat /\ j < i
    BY <1>1, <1>2 DEF Positions
  <2>2. PICK q \in Positions : q = (Hash[k] + j) % Slots /\
                               q = IF Hash[k] + j < Slots THEN Hash[k] + j ELSE Hash[k] + j - Slots
    BY <2>1, SearchAt
  <2>3. IF Hash[k] <= p THEN Hash[k] <= q /\ q < p ELSE Hash[k] <= q \/ q < p
    BY <1>1, <1>2, <2>1, <2>2
  <2>4. QED
    BY <2>2, <2>3 DEF Before
<1>5. ASSUME NEW q \in Before(k, p)
      PROVE  \E j \in 0..i - 1 : q = (Hash[k] + j) % Slots
  <2>1. /\ q \in 0..Slots - 1
        /\ IF Hash[k] <= p THEN Hash[k] <= q /\ q < p ELSE Hash[k] <= q \/ q < p
    BY <1>5 DEF Before, Positions
  <2>2. PICK j \in Positions : j = IF Hash[k] <= q THEN q - Hash[k] ELSE q + Slots - Hash[k]
    BY <1>1, <2>1 DEF Positions
  <2>3. (Hash[k] + j) % Slots = IF Hash[k] + j < Slots THEN Hash[k] + j ELSE Hash[k] + j - Slots
    BY SearchAt
  <2>4. q = (Hash[k] + j) % Slots
    BY <1>1, <2>1, <2>2, <2>3
  <2>5. j \in 0..i - 1
    BY <1>1, <1>2, <2>1, <2>2
  <2>6. QED
    BY <2>4, <2>5
<1>6. QED
  BY <1>2, <1>3, <1>4, <1>5

(* The entry of a used position is an item.                                *)
LEMMA UsedItems ==
  ASSUME FirstInv, NEW p \in Positions, Used(p)
  PROVE  /\ mem.index_offsets[p] \in Known /\ mem.index_offsets[p] \in Items
         /\ disk[mem.index_offsets[p]] \in Records /\ KeyAt(p) \in Keys
<1>1. mem.index_offsets[p] \in Known /\ mem.index_offsets[p] \in Items
  BY DEF FirstInv, FirstOwnInv, Known
<1>2. disk[mem.index_offsets[p]] \in Records
  BY <1>1 DEF FirstInv, FirstTyped, Items
<1>3. QED
  BY <1>1, <1>2 DEF Records, KeyAt

(* The table has room for another key.                                     *)
LEMMA SomeRoom ==
  ASSUME FirstInv, NEW k \in Keys, ~HasEntry(k)
  PROVE  \E p \in Positions : ~Used(p)
<1> SUFFICES ASSUME \A p \in Positions : Used(p)
             PROVE  FALSE
  OBVIOUS
<1>1. /\ IsFiniteSet(Positions) /\ Cardinality(Positions) = Slots /\ Slots \in Nat
      /\ IsFiniteSet(Keys) /\ Cardinality(Keys) <= Slots
  BY FirstAssumption, FS_Interval DEF Positions
<1>2. /\ IsFiniteSet(Keys \ {k}) /\ Cardinality(Keys \ {k}) = Cardinality(Keys) - 1
      /\ Cardinality(Keys) \in Nat
  BY <1>1, FS_RemoveElement, FS_CardinalityType
<1>3. PICK f : f = [p \in Positions |-> KeyAt(p)]
  OBVIOUS
<1>4. f \in [Positions -> Keys \ {k}]
  BY <1>3, UsedItems DEF HasEntry
<1>5. Cardinality(Keys \ {k}) < Cardinality(Positions)
  BY <1>1, <1>2
<1>6. PICK p \in Positions, q \in Positions : p # q /\ f[p] = f[q]
  BY <1>1, <1>2, <1>4, <1>5, FS_PigeonHole
<1>7. QED
  BY <1>3, <1>6 DEF FirstInv, FirstIndexInv

(* A search of a key ends at the first position that is free or has it.    *)
LEMMA GetEnds ==
  ASSUME FirstInv, NEW k \in Keys, NEW p \in Positions, ~Used(p) \/ KeyAt(p) = k
  PROVE  /\ First!get(k) \in Positions
         /\ ~Used(First!get(k)) \/ KeyAt(First!get(k)) = k
         /\ \A q \in Before(k, First!get(k)) : Used(q) /\ KeyAt(q) # k
<1> DEFINE At(i) == (Hash[k] + i) % Slots
           Ends(q) == mem.index_offsets[q] = First!EMPTY \/ disk[mem.index_offsets[q]].key = k
           Is(i) == Ends(At(i)) /\ \A j \in 0..i - 1 : ~Ends(At(j))
<1>1. PICK n \in Positions : At(n) = p
  BY Turns
<1>2. PICK S : S = {i \in Positions : Ends(At(i))} /\ S \in SUBSET Nat /\ S # {}
  <2>1. n \in {i \in Positions : Ends(At(i))}
    BY <1>1 DEF Used, KeyAt
  <2>2. Positions \subseteq Nat
    BY DEF Positions
  <2>3. QED
    BY <2>1, <2>2
<1>3. PICK m \in S : \A i \in S : m <= i
  BY <1>2, Least
<1>4. m \in 0..Slots - 1 /\ Is(m)
  <2>1. m \in 0..Slots - 1 /\ Ends(At(m)) /\ Slots \in Nat
    BY <1>2, FirstAssumption DEF Positions
  <2>2. ASSUME NEW j \in 0..m - 1, Ends(At(j))
        PROVE  FALSE
    <3>1. j \in Positions /\ j \in Nat /\ j < m
      BY <2>1 DEF Positions
    <3>2. j \in S
      BY <1>2, <2>2, <3>1
    <3>3. m <= j
      BY <1>3, <3>2
    <3>4. QED
      BY <2>1, <3>1, <3>3
  <2>3. QED
    BY <2>1, <2>2
<1>5. PICK e \in 0..Slots - 1 : e = (CHOOSE i \in 0..Slots - 1 : Is(i)) /\ Is(e)
  BY <1>4
<1>6. First!get(k) = At(e)
  BY <1>5 DEF First!get, First!FirstFrom, First!Unused
<1>7. At(e) \in Positions /\ \A q \in Before(k, At(e)) : \E j \in 0..e - 1 : q = At(j)
  <2>1. At(e) \in Positions /\ e \in Positions
    BY SearchAt DEF Positions
  <2>2. PICK i \in Positions : /\ At(i) = At(e)
                               /\ \A q \in Before(k, At(e)) : \E j \in 0..i - 1 : q = At(j)
    <3>1. PICK w \in Positions : w = At(e)
      BY <2>1
    <3>2. QED
      BY <3>1, Turns
  <2>3. i = e
    <3>1. /\ At(i) = IF Hash[k] + i < Slots THEN Hash[k] + i ELSE Hash[k] + i - Slots
          /\ At(e) = IF Hash[k] + e < Slots THEN Hash[k] + e ELSE Hash[k] + e - Slots
      BY <2>1, SearchAt
    <3>2. Hash[k] \in 0..Slots - 1 /\ Slots \in Nat /\ i \in 0..Slots - 1 /\ e \in 0..Slots - 1
      BY FirstAssumption DEF Positions
    <3>3. QED
      BY <2>2, <3>1, <3>2
  <2>4. QED
    BY <2>1, <2>2, <2>3
<1>8. /\ ~Used(At(e)) \/ KeyAt(At(e)) = k
      /\ \A q \in Before(k, At(e)) : Used(q) /\ KeyAt(q) # k
  BY <1>5, <1>7 DEF Used, KeyAt
<1>9. QED
  BY <1>6, <1>7, <1>8

(* A new entry is made at the first position that is free.                 *)
LEMMA PutEnds ==
  ASSUME FirstInv, NEW k \in Keys, NEW p \in Positions, ~Used(p)
  PROVE  /\ First!put(k) \in Positions
         /\ ~Used(First!put(k))
         /\ \A q \in Before(k, First!put(k)) : Used(q)
<1> DEFINE At(i) == (Hash[k] + i) % Slots
           Ends(q) == mem.index_offsets[q] = First!EMPTY
           Is(i) == Ends(At(i)) /\ \A j \in 0..i - 1 : ~Ends(At(j))
<1>1. PICK n \in Positions : At(n) = p
  BY Turns
<1>2. PICK S : S = {i \in Positions : Ends(At(i))} /\ S \in SUBSET Nat /\ S # {}
  <2>1. n \in {i \in Positions : Ends(At(i))}
    BY <1>1 DEF Used
  <2>2. Positions \subseteq Nat
    BY DEF Positions
  <2>3. QED
    BY <2>1, <2>2
<1>3. PICK m \in S : \A i \in S : m <= i
  BY <1>2, Least
<1>4. m \in 0..Slots - 1 /\ Is(m)
  <2>1. m \in 0..Slots - 1 /\ Ends(At(m)) /\ Slots \in Nat
    BY <1>2, FirstAssumption DEF Positions
  <2>2. ASSUME NEW j \in 0..m - 1, Ends(At(j))
        PROVE  FALSE
    <3>1. j \in Positions /\ j \in Nat /\ j < m
      BY <2>1 DEF Positions
    <3>2. j \in S
      BY <1>2, <2>2, <3>1
    <3>3. m <= j
      BY <1>3, <3>2
    <3>4. QED
      BY <2>1, <3>1, <3>3
  <2>3. QED
    BY <2>1, <2>2
<1>5. PICK e \in 0..Slots - 1 : e = (CHOOSE i \in 0..Slots - 1 : Is(i)) /\ Is(e)
  BY <1>4
<1>6. First!put(k) = At(e)
  BY <1>5 DEF First!put, First!FirstFrom, First!Unused
<1>7. At(e) \in Positions /\ \A q \in Before(k, At(e)) : \E j \in 0..e - 1 : q = At(j)
  <2>1. At(e) \in Positions /\ e \in Positions
    BY SearchAt DEF Positions
  <2>2. PICK i \in Positions : /\ At(i) = At(e)
                               /\ \A q \in Before(k, At(e)) : \E j \in 0..i - 1 : q = At(j)
    <3>1. PICK w \in Positions : w = At(e)
      BY <2>1
    <3>2. QED
      BY <3>1, Turns
  <2>3. i = e
    <3>1. /\ At(i) = IF Hash[k] + i < Slots THEN Hash[k] + i ELSE Hash[k] + i - Slots
          /\ At(e) = IF Hash[k] + e < Slots THEN Hash[k] + e ELSE Hash[k] + e - Slots
      BY <2>1, SearchAt
    <3>2. Hash[k] \in 0..Slots - 1 /\ Slots \in Nat /\ i \in 0..Slots - 1 /\ e \in 0..Slots - 1
      BY FirstAssumption DEF Positions
    <3>3. QED
      BY <2>2, <3>1, <3>2
  <2>4. QED
    BY <2>1, <2>2, <2>3
<1>8. /\ ~Used(At(e))
      /\ \A q \in Before(k, At(e)) : Used(q)
  BY <1>5, <1>7 DEF Used
<1>9. QED
  BY <1>6, <1>7, <1>8

(* A search finds the entry of a key, if it has one.                       *)
LEMMA GetFinds ==
  ASSUME FirstInv, NEW k \in Keys, NEW e \in Positions, Used(e), KeyAt(e) = k
  PROVE  First!get(k) = e
<1>1. PICK g \in Positions : /\ g = First!get(k) /\ (~Used(g) \/ KeyAt(g) = k)
                             /\ \A q \in Before(k, g) : KeyAt(q) # k
  BY GetEnds
<1>2. /\ \A q \in Positions : Used(q) /\ KeyAt(q) = k => q = e
      /\ \A q \in Before(k, e) : Used(q)
  BY DEF FirstInv, FirstIndexInv
<1>3. e \notin Before(k, g)
  BY <1>1
<1>4. g \notin Before(k, e)
  <2>1. ASSUME g \in Before(k, e)
        PROVE  FALSE
    <3>1. g = e
      BY <1>1, <1>2, <2>1
    <3>2. e \notin Before(k, e)
      <4>1. e \in Nat /\ Hash[k] \in Nat
        BY FirstAssumption DEF Positions
      <4>2. QED
        BY <4>1 DEF Before
    <3>3. QED
      BY <2>1, <3>1, <3>2
  <2>2. QED
    BY <2>1
<1>5. QED
  BY <1>1, <1>3, <1>4, InOrder

(* If it has none, the search ends at the first free position, where put   *)
(* goes too.                                                               *)
LEMMA GetMisses ==
  ASSUME FirstInv, NEW k \in Keys, ~HasEntry(k)
  PROVE  /\ First!get(k) \in Positions /\ ~Used(First!get(k))
         /\ \A q \in Before(k, First!get(k)) : Used(q)
         /\ First!put(k) \in Positions /\ ~Used(First!put(k))
         /\ \A q \in Before(k, First!put(k)) : Used(q)
<1>1. PICK p \in Positions : ~Used(p)
  BY SomeRoom
<1>2. PICK g \in Positions : /\ g = First!get(k) /\ (~Used(g) \/ KeyAt(g) = k)
                             /\ \A q \in Before(k, g) : Used(q)
  BY <1>1, GetEnds
<1>3. ~Used(g)
  BY <1>2 DEF HasEntry
<1>4. QED
  BY <1>1, <1>2, <1>3, PutEnds

------------------------------------------------------------------------------
(* The queues                                                              *)

(* Tail and Append give sequences.                                         *)
LEMMA SequencesStay ==
  ASSUME NEW S, NEW s \in Seq(S)
  PROVE  /\ s # <<>> => Tail(s) \in Seq(S)
         /\ \A o \in S : Append(s, o) \in Seq(S)
OBVIOUS

(* What is taken from a queue is in it no more.                            *)
LEMMA Popped ==
  ASSUME NEW f \in [First!Chunks -> Seq(Offsets)], Separate(f),
         NEW c \in First!Chunks, f[c] # <<>>,
         NEW g, g = Taken(f, c)
  PROVE  /\ g \in [First!Chunks -> Seq(Offsets)] /\ Separate(g)
         /\ Head(f[c]) \in Offsets /\ InQueue(f, c, Head(f[c]))
         /\ \A d \in First!Chunks : \A x : InQueue(g, d, x) <=> InQueue(f, d, x) /\ (d = c => x # Head(f[c]))
<1>1. PICK s \in Seq(Offsets) : s = f[c] /\ s # <<>>
  OBVIOUS
<1>2. PICK t \in Seq(Offsets) : t = Tail(s)
  BY <1>1, SequencesStay
<1>3. /\ Len(s) \in Nat \ {0} /\ Head(s) = s[1] /\ Len(t) = Len(s) - 1
      /\ \A i \in 1..Len(t) : t[i] = s[i + 1]
  BY <1>1, <1>2
<1>4. g \in [First!Chunks -> Seq(Offsets)] /\ g[c] = t /\ \A d \in First!Chunks : d # c => g[d] = f[d]
  BY <1>1, <1>2 DEF Taken, Put
<1>5. Head(s) \in Offsets /\ InQueue(f, c, Head(s))
  BY <1>1, <1>3 DEF InQueue
<1>6. \A i, j \in 1..Len(s) : s[i] = s[j] => i = j
  BY <1>1 DEF Separate
<1>7. \A i, j \in 1..Len(t) : t[i] = t[j] => i = j
  <2>1. ASSUME NEW i \in 1..Len(t), NEW j \in 1..Len(t), t[i] = t[j]
        PROVE  i = j
    <3>1. i + 1 \in 1..Len(s) /\ j + 1 \in 1..Len(s) /\ s[i + 1] = s[j + 1]
      BY <1>3, <2>1
    <3>2. i + 1 = j + 1
      BY <1>6, <3>1
    <3>3. QED
      BY <1>3, <3>2
  <2>2. QED
    BY <2>1
<1>8. ASSUME NEW x
      PROVE  InQueue(g, c, x) <=> InQueue(f, c, x) /\ x # Head(s)
  <2>1. ASSUME NEW i \in 1..Len(t), t[i] = x
        PROVE  InQueue(f, c, x) /\ x # Head(s)
    <3>1. i + 1 \in 1..Len(s) /\ 1 \in 1..Len(s) /\ s[i + 1] = x /\ i + 1 # 1
      BY <1>3, <2>1
    <3>2. QED
      BY <1>1, <1>3, <1>6, <3>1 DEF InQueue
  <2>2. ASSUME NEW i \in 1..Len(s), s[i] = x, x # Head(s)
        PROVE  \E j \in 1..Len(t) : t[j] = x
    <3>1. i - 1 \in 1..Len(t) /\ t[i - 1] = s[(i - 1) + 1] /\ (i - 1) + 1 = i
      BY <1>3, <2>2
    <3>2. QED
      BY <2>2, <3>1
  <2>3. QED
    BY <1>1, <1>4, <2>1, <2>2 DEF InQueue
<1>9. Separate(g)
  <2>1. ASSUME NEW d \in First!Chunks, d # c
        PROVE  \A i, j \in 1..Len(g[d]) : g[d][i] = g[d][j] => i = j
    BY <1>4, <2>1 DEF Separate
  <2>2. \A i, j \in 1..Len(g[c]) : g[c][i] = g[c][j] => i = j
    BY ONLY <1>4, <1>7, Zenon
  <2>3. ASSUME NEW d \in First!Chunks
        PROVE  \A i, j \in 1..Len(g[d]) : g[d][i] = g[d][j] => i = j
    BY <2>1, <2>2
  <2>4. QED
    BY <2>3 DEF Separate
<1>10. \A d \in First!Chunks : d # c => \A x : InQueue(g, d, x) <=> InQueue(f, d, x)
  BY <1>4 DEF InQueue
<1>11. QED
  BY <1>1, <1>4, <1>5, <1>8, <1>9, <1>10

(* What is put in a queue is at its end.                                   *)
LEMMA Pushed ==
  ASSUME NEW f \in [First!Chunks -> Seq(Offsets)], Separate(f),
         NEW c \in First!Chunks, NEW o \in Offsets, ~InQueue(f, c, o),
         NEW g, g = Put(f, c, o)
  PROVE  /\ g \in [First!Chunks -> Seq(Offsets)] /\ Separate(g)
         /\ \A d \in First!Chunks : \A x : InQueue(g, d, x) <=> InQueue(f, d, x) \/ (d = c /\ x = o)
<1>1. PICK s \in Seq(Offsets) : s = f[c]
  OBVIOUS
<1>2. PICK t \in Seq(Offsets) : t = Append(s, o)
  BY <1>1, SequencesStay
<1>3. /\ Len(s) \in Nat /\ Len(t) = Len(s) + 1 /\ t[Len(s) + 1] = o
      /\ \A i \in 1..Len(s) : t[i] = s[i]
  BY <1>1, <1>2
<1>4. g \in [First!Chunks -> Seq(Offsets)] /\ g[c] = t /\ \A d \in First!Chunks : d # c => g[d] = f[d]
  BY <1>1, <1>2 DEF Taken, Put
<1>5. /\ \A i, j \in 1..Len(s) : s[i] = s[j] => i = j
      /\ \A i \in 1..Len(s) : s[i] # o
  BY <1>1 DEF Separate, InQueue
<1>6. \A i \in 1..Len(t) : i \in 1..Len(s) \/ i = Len(s) + 1
  BY <1>3
<1>7. \A i, j \in 1..Len(t) : t[i] = t[j] => i = j
  BY <1>3, <1>5, <1>6
<1>8. \A i \in 1..Len(s) : i \in 1..Len(t)
  BY <1>3
<1>9. Len(s) + 1 \in 1..Len(t)
  BY <1>3
<1>10. \A x : InQueue(g, c, x) <=> InQueue(f, c, x) \/ x = o
  BY <1>1, <1>3, <1>4, <1>6, <1>8, <1>9 DEF InQueue
<1>11. Separate(g)
  <2>1. ASSUME NEW d \in First!Chunks, d # c
        PROVE  \A i, j \in 1..Len(g[d]) : g[d][i] = g[d][j] => i = j
    BY <1>4, <2>1 DEF Separate
  <2>2. \A i, j \in 1..Len(g[c]) : g[c][i] = g[c][j] => i = j
    BY ONLY <1>4, <1>7, Zenon
  <2>3. ASSUME NEW d \in First!Chunks
        PROVE  \A i, j \in 1..Len(g[d]) : g[d][i] = g[d][j] => i = j
    BY <2>1, <2>2
  <2>4. QED
    BY <2>3 DEF Separate
<1>12. \A d \in First!Chunks : d # c => \A x : InQueue(g, d, x) <=> InQueue(f, d, x)
  BY <1>4 DEF InQueue
<1>13. QED
  BY <1>4, <1>10, <1>11, <1>12

------------------------------------------------------------------------------
(* What the steps have in common                                           *)

(* A step that leaves the disk alone leaves the items where they are.      *)
LEMMA ItemsStay ==
  ASSUME disk' = disk
  PROVE  /\ Items' = Items /\ \A o : ItemEnd(o)' = ItemEnd(o)
         /\ \A e : SideBySide(e)' <=> SideBySide(e)
         /\ \A o, k, S : Leads(o, k, S)' <=> Leads(o, k, S)
BY DEF Items, ItemEnd, SideBySide, Leads

(* One that leaves the index and the keys of its items leaves the entries. *)
LEMMA EntriesStay ==
  ASSUME FirstInv, mem'.index_offsets = mem.index_offsets,
         \A p \in Positions : Used(p) => disk'[mem.index_offsets[p]].key = disk[mem.index_offsets[p]].key
  PROVE  /\ \A p \in Positions : (Used(p)' <=> Used(p)) /\ (Used(p) => KeyAt(p)' = KeyAt(p))
         /\ \A k : HasEntry(k)' <=> HasEntry(k)
         /\ \A o : Indexed(o)' <=> Indexed(o)
         /\ FirstIndexInv'
<1>1. \A p \in Positions : (Used(p)' <=> Used(p)) /\ (Used(p) => KeyAt(p)' = KeyAt(p))
  BY DEF Used, KeyAt
<1>2. \A k : HasEntry(k)' <=> HasEntry(k)
  BY <1>1 DEF HasEntry
<1>3. \A o : Indexed(o)' <=> Indexed(o)
  BY DEF Indexed
<1>4. \A k, p : Before(k, p) \subseteq Positions /\ Before(k, p)' = Before(k, p)
  BY DEF Before
<1>5. FirstIndexInv'
  BY <1>1, <1>4 DEF FirstInv, FirstIndexInv
<1>6. QED
  BY <1>1, <1>2, <1>3, <1>5

(* An item put into the index at the entry of its key, or at the end of    *)
(* its search if it has none, takes the place of what was there.           *)
LEMMA EntryMade ==
  ASSUME FirstInv, disk' = disk, NEW at \in Positions, NEW o \in Items, NEW k \in Keys,
         disk[o].key = k, mem'.index_offsets = [mem.index_offsets EXCEPT ![at] = o],
         \/ Used(at) /\ KeyAt(at) = k
         \/ ~Used(at) /\ ~HasEntry(k) /\ \A q \in Before(k, at) : Used(q)
  PROVE  /\ \A p \in Positions : Used(p)' <=> Used(p) \/ p = at
         /\ \A p \in Positions : KeyAt(p)' = IF p = at THEN k ELSE KeyAt(p)
         /\ \A h : HasEntry(h)' <=> HasEntry(h) \/ h = k
         /\ \A x \in Offsets : Indexed(x)' <=> x = o \/ (Indexed(x) /\ x # mem.index_offsets[at])
         /\ FirstIndexInv'
<1>1. /\ mem.index_offsets \in [Positions -> Offsets \cup {First!EMPTY}]
      /\ mem'.index_offsets[at] = o
      /\ \A p \in Positions : p # at => mem'.index_offsets[p] = mem.index_offsets[p]
  BY DEF FirstInv, FirstTyped
<1>2. o \in Offsets /\ o # First!EMPTY
  BY Places DEF Items
<1>3. /\ \A p \in Positions : Used(p)' <=> Used(p) \/ p = at
      /\ \A p \in Positions : KeyAt(p)' = IF p = at THEN k ELSE KeyAt(p)
  BY <1>1, <1>2 DEF Used, KeyAt
<1>4. ASSUME NEW p \in Positions, Used(p), KeyAt(p) = k
      PROVE  p = at
  BY <1>4 DEF FirstInv, FirstIndexInv, HasEntry
<1>5. \A h : HasEntry(h)' <=> HasEntry(h) \/ h = k
  BY <1>3 DEF HasEntry
<1>6. ASSUME NEW x \in Offsets
      PROVE  Indexed(x)' <=> x = o \/ (Indexed(x) /\ x # mem.index_offsets[at])
  <2>1. ASSUME NEW p \in Positions, p # at, mem.index_offsets[p] = x
        PROVE  x # mem.index_offsets[at]
    <3>1. Used(p) /\ (x = mem.index_offsets[at] => Used(at) /\ KeyAt(p) = KeyAt(at))
      BY <2>1, Places DEF Used, KeyAt
    <3>2. QED
      BY <1>4, <2>1, <3>1
  <2>2. QED
    BY <1>1, <2>1 DEF Indexed
<1>7. \A h, p : Before(h, p) \subseteq Positions /\ Before(h, p)' = Before(h, p)
  BY DEF Before
<1>8. FirstIndexInv'
  <2>1. ASSUME NEW p \in Positions, Used(p)'
        PROVE  /\ \A q \in Positions : Used(q)' /\ KeyAt(q)' = KeyAt(p)' => q = p
               /\ \A q \in Before(KeyAt(p)', p) : Used(q)'
    <3>1. CASE p = at
      <4>1. \A q \in Before(k, at) : Used(q)
        BY DEF FirstInv, FirstIndexInv
      <4>2. QED
        BY <1>3, <1>4, <1>7, <3>1, <4>1
    <3>2. CASE p # at
      <4>1. Used(p) /\ KeyAt(p)' = KeyAt(p) /\ KeyAt(p) # k
        BY <1>3, <1>4, <2>1, <3>2
      <4>2. /\ \A q \in Positions : Used(q) /\ KeyAt(q) = KeyAt(p) => q = p
            /\ \A q \in Before(KeyAt(p), p) : Used(q)
        BY <4>1 DEF FirstInv, FirstIndexInv
      <4>3. QED
        BY <1>3, <1>7, <4>1, <4>2
    <3>3. QED
      BY <3>1, <3>2
  <2>2. QED
    BY <1>7, <2>1 DEF FirstIndexInv
<1>9. QED
  BY <1>3, <1>5, <1>6, <1>8

------------------------------------------------------------------------------
(* Its steps                                                               *)

(* Of the queues with items that fit there is a first one.                 *)
LEMMA FirstFit ==
  ASSUME NEW S \in SUBSET First!Chunks, S # {}
  PROVE  (CHOOSE c \in S : \A d \in S : c <= d) \in S
<1>1. ASSUME NEW c \in S
      PROVE  c \in Int /\ c + 7 \in Nat
  <2>1. PICK v \in FirstValues : c = First!calFreeSpaceIdx(v)
    BY DEF First!Chunks
  <2>2. PICK s \in Nat : s = SizeOf[v]
    BY FirstAssumption
  <2>3. PICK q \in Nat : q = (s + 35) \div 16
    OBVIOUS
  <2>4. c = (16 * q - 112) \div 16
    BY <2>1, <2>2, <2>3 DEF First!calFreeSpaceIdx, First!ItemSize
  <2>5. (16 * q - 112) \div 16 = q - 7
    BY <2>3
  <2>6. QED
    BY <2>3, <2>4, <2>5
<1>2. PICK T : T = {c + 7 : c \in S} /\ T \in SUBSET Nat /\ T # {}
  <2>1. {c + 7 : c \in S} \in SUBSET Nat
    BY <1>1
  <2>2. PICK d : d \in S
    OBVIOUS
  <2>3. d + 7 \in {c + 7 : c \in S}
    BY <2>2
  <2>4. QED
    BY <2>1, <2>3
<1>3. PICK m \in T : \A n \in T : m <= n
  BY <1>2, Least
<1>4. PICK c \in S : m = c + 7
  BY <1>2, <1>3
<1>5. ASSUME NEW d \in S
      PROVE  c <= d
  <2>1. d + 7 \in T
    BY <1>2
  <2>2. QED
    BY <1>1, <1>3, <1>4, <2>1
<1>6. QED
  BY <1>5

(* A Set looks up its key and takes an item: the head of a queue, or a new *)
(* one behind the others.                                                  *)
LEMMA SetStarts ==
  ASSUME FirstInv, NEW k \in Keys, NEW v \in FirstValues, First!Set(k, v)
  PROVE  \E o, pos, old :
           /\ pos = First!get(k) /\ old = mem.index_offsets[pos]
           /\ client' = [op |-> "write", key |-> k, value |-> v, old |-> old, hash_pos |-> pos, new |-> o,
                         cnt |-> IF old = First!EMPTY THEN 1 ELSE First!NextCnt(disk[old].cnt)]
           /\ \/ \E c \in First!Chunks : /\ mem.free_space[c] # <<>> /\ o = Head(mem.free_space[c])
                                         /\ mem' = [mem EXCEPT !.free_space[c] = Tail(mem.free_space[c])]
              \/ /\ o = mem.file_end_offset_ /\ o + First!ItemSize(v) <= FileSize
                 /\ mem' = [mem EXCEPT !.file_end_offset_ = o + First!ItemSize(v)]
<1>1. PICK fits : fits = {c \in First!Chunks : c >= First!calFreeSpaceIdx(v) /\ mem.free_space[c] # <<>>}
  OBVIOUS
<1>2. CASE fits # {}
  <2>1. PICK c \in fits : c = CHOOSE b \in fits : \A d \in fits : b <= d
    BY <1>1, <1>2, FirstFit
  <2>2. c \in First!Chunks /\ mem.free_space[c] # <<>>
    BY <1>1
  <2>3. QED
    <3> WITNESS Head(mem.free_space[c]), First!get(k), mem.index_offsets[First!get(k)]
    <3>1. QED
      BY <1>1, <1>2, <2>1, <2>2 DEF First!Set
<1>3. CASE fits = {}
  BY <1>1, <1>3 DEF First!Set
<1>4. QED
  BY <1>2, <1>3

(* The parts of mem.                                                       *)
LEMMA MemFields ==
  ASSUME FirstInv
  PROVE  /\ mem = [index_offsets |-> mem.index_offsets, free_space |-> mem.free_space,
                   file_end_offset_ |-> mem.file_end_offset_]
         /\ mem.index_offsets \in [Positions -> Offsets \cup {First!EMPTY}]
         /\ mem.free_space \in [First!Chunks -> Seq(Offsets)] /\ mem.file_end_offset_ \in Offsets
         /\ mem.file_end_offset_ \in Nat
BY Places DEF FirstInv, FirstTyped

(* A Set has begun with an item nobody has.                                *)
LEMMA SetKeeps ==
  ASSUME FirstInv, NEW k \in Keys, NEW v \in FirstValues, First!Set(k, v)
  PROVE  FirstInv'
<1>1. client.op = "idle" /\ disk' = disk /\ ghost' = ghost
  BY DEF First!Set
<1>2. PICK o, pos, old :
        /\ pos = First!get(k) /\ old = mem.index_offsets[pos]
        /\ client' = [op |-> "write", key |-> k, value |-> v, old |-> old, hash_pos |-> pos, new |-> o,
                      cnt |-> IF old = First!EMPTY THEN 1 ELSE First!NextCnt(disk[old].cnt)]
        /\ \/ \E c \in First!Chunks : /\ mem.free_space[c] # <<>> /\ o = Head(mem.free_space[c])
                                      /\ mem' = [mem EXCEPT !.free_space[c] = Tail(mem.free_space[c])]
           \/ /\ o = mem.file_end_offset_ /\ o + First!ItemSize(v) <= FileSize
              /\ mem' = [mem EXCEPT !.file_end_offset_ = o + First!ItemSize(v)]
  BY SetStarts
<1>3. /\ client'.op = "write" /\ client'.key = k /\ client'.value = v /\ client'.old = old
      /\ client'.hash_pos = pos /\ client'.new = o
      /\ client'.cnt = IF old = First!EMPTY THEN 1 ELSE First!NextCnt(disk[old].cnt)
  BY <1>2
<1>4. Known = Items /\ Known' = Items
  BY <1>1, <1>3, ItemsStay DEF Known
<1>5. PICK e \in Offsets : SideBySide(e) /\ e = mem.file_end_offset_
  BY <1>1 DEF FirstInv, LayoutInv
<1>6. ~Setting
  BY <1>1 DEF Setting
(* The two ways, in what they have in common.                              *)
<1>7. /\ mem' \in [index_offsets : {mem.index_offsets}, free_space : [First!Chunks -> Seq(Offsets)],
                   file_end_offset_ : Offsets]
      /\ o \in Offsets /\ ~Indexed(o)
      /\ IF o \in Items THEN e = mem'.file_end_offset_
         ELSE e = o /\ mem'.file_end_offset_ = e + First!ItemSize(v)
      /\ Separate(mem'.free_space)
      /\ \A c \in First!Chunks, x \in Offsets :
           InQueue(mem'.free_space, c, x) <=> InQueue(mem.free_space, c, x) /\ x # o
      /\ o \in Items => Queued(o)
  <2>1. CASE \E c \in First!Chunks : /\ mem.free_space[c] # <<>> /\ o = Head(mem.free_space[c])
                                     /\ mem' = [mem EXCEPT !.free_space[c] = Tail(mem.free_space[c])]
    <3>1. PICK c \in First!Chunks : /\ mem.free_space[c] # <<>> /\ o = Head(mem.free_space[c])
                                    /\ mem' = [mem EXCEPT !.free_space[c] = Tail(mem.free_space[c])]
      BY <2>1
    <3>2. PICK g : g = [mem.free_space EXCEPT ![c] = Tail(mem.free_space[c])]
      OBVIOUS
    <3>3. mem' = [index_offsets |-> mem.index_offsets, free_space |-> g,
                  file_end_offset_ |-> mem.file_end_offset_]
      BY <3>1, <3>2, MemFields
    <3>4. /\ g \in [First!Chunks -> Seq(Offsets)] /\ Separate(g)
          /\ o \in Offsets /\ InQueue(mem.free_space, c, o)
          /\ \A d \in First!Chunks : \A x : InQueue(g, d, x) <=> InQueue(mem.free_space, d, x) /\ (d = c => x # o)
      <4>1. mem.free_space \in [First!Chunks -> Seq(Offsets)] /\ Separate(mem.free_space)
        BY MemFields DEF FirstInv, FirstOwnInv
      <4>2. PICK f \in [First!Chunks -> Seq(Offsets)] : f = mem.free_space
        BY <4>1
      <4>3. Separate(f) /\ f[c] # <<>> /\ g = Taken(f, c)
        BY <3>1, <3>2, <4>1, <4>2 DEF Taken
      <4>4. /\ g \in [First!Chunks -> Seq(Offsets)] /\ Separate(g)
            /\ Head(f[c]) \in Offsets /\ InQueue(f, c, Head(f[c]))
            /\ \A d \in First!Chunks : \A x : InQueue(g, d, x) <=> InQueue(f, d, x) /\ (d = c => x # Head(f[c]))
        BY <4>2, <4>3, Popped
      <4>5. QED
        BY <3>1, <4>2, <4>4
    <3>5. o \in Items /\ disk[o].chunk = c /\ Queued(o)
      BY <1>4, <3>4 DEF FirstInv, FirstOwnInv, Queued
    <3>6. ~Indexed(o)
      BY <1>1, <1>4, <3>5 DEF FirstInv, FirstOwnInv
    <3>7. \A d \in First!Chunks : InQueue(mem.free_space, d, o) => d = c
      BY <3>4, <3>5 DEF FirstInv, FirstOwnInv
    <3>8. /\ mem'.free_space = g /\ mem'.file_end_offset_ = mem.file_end_offset_
          /\ mem' \in [index_offsets : {mem.index_offsets}, free_space : [First!Chunks -> Seq(Offsets)],
                       file_end_offset_ : Offsets]
      BY <3>3, <3>4, MemFields
    <3>9. QED
      BY <1>5, <3>4, <3>5, <3>6, <3>7, <3>8
  <2>2. CASE /\ o = mem.file_end_offset_ /\ o + First!ItemSize(v) <= FileSize
             /\ mem' = [mem EXCEPT !.file_end_offset_ = o + First!ItemSize(v)]
    <3>1. PICK q \in Nat \ {0} : First!ItemSize(v) = 16 * q
      BY ItemSizes
    <3>2. o + 16 * q \in Offsets /\ o \in Offsets
      BY <2>2, <3>1, MemFields, Places
    <3>3. mem' = [index_offsets |-> mem.index_offsets, free_space |-> mem.free_space,
                  file_end_offset_ |-> o + 16 * q]
      BY <2>2, <3>1, MemFields
    <3>4. o \notin Items
      BY <1>5, <2>2, <3>2, Places DEF SideBySide
    <3>5. ~Indexed(o) /\ \A c \in First!Chunks : ~InQueue(mem.free_space, c, o)
      BY <1>4, <3>2, <3>4, Places DEF FirstInv, FirstOwnInv, Indexed, Used
    <3>6. /\ mem'.free_space = mem.free_space /\ mem'.file_end_offset_ = o + 16 * q
          /\ mem' \in [index_offsets : {mem.index_offsets}, free_space : [First!Chunks -> Seq(Offsets)],
                       file_end_offset_ : Offsets]
      BY <3>2, <3>3, MemFields
    <3>7. Separate(mem.free_space)
      BY DEF FirstInv, FirstOwnInv
    <3>8. QED
      BY <1>5, <2>2, <3>1, <3>2, <3>4, <3>5, <3>6, <3>7
  <2>3. QED
    BY <1>2, <2>1, <2>2
<1>8. mem'.index_offsets = mem.index_offsets
  BY <1>7
<1>9. /\ \A p \in Positions : (Used(p)' <=> Used(p)) /\ (Used(p) => KeyAt(p)' = KeyAt(p))
      /\ \A h : HasEntry(h)' <=> HasEntry(h)
      /\ \A x : Indexed(x)' <=> Indexed(x)
      /\ FirstIndexInv'
  BY <1>1, <1>8, EntriesStay
<1>10. /\ \A x \in Offsets : Queued(x)' <=> Queued(x) /\ x # o
  BY <1>7 DEF Queued
<1>11. pos \in Positions /\ old \in Offsets \cup {First!EMPTY}
       /\ (old # First!EMPTY => KeyAt(pos) = k /\ old \in Items)
       /\ (old = First!EMPTY => ~HasEntry(k))
  <2>1. CASE HasEntry(k)
    <3>1. PICK p \in Positions : Used(p) /\ KeyAt(p) = k /\ p = pos
      BY <1>2, <2>1, GetFinds DEF HasEntry
    <3>2. QED
      BY <1>2, <3>1, UsedItems, MemFields DEF Used
  <2>2. CASE ~HasEntry(k)
    <3>1. pos \in Positions /\ ~Used(pos)
      BY <1>2, <2>2, GetMisses
    <3>2. QED
      BY <1>2, <2>2, <3>1 DEF Used
  <2>3. QED
    BY <2>1, <2>2
<1>12. FirstTyped'
  <2>1. client'.cnt \in 0..CntMod - 1
    <3>1. CntMod \in Nat \ {0, 1}
      BY FirstAssumption
    <3>2. CASE old = First!EMPTY
      BY <1>3, <3>1, <3>2
    <3>3. CASE old # First!EMPTY
      <4>1. disk[old] \in Records
        BY <1>11, <3>3 DEF FirstInv, FirstTyped, Items
      <4>2. PICK n \in Nat : n = disk[old].cnt + 1
        BY <3>1, <4>1 DEF Records
      <4>3. client'.cnt = n % CntMod
        BY <1>3, <3>3, <4>2 DEF First!NextCnt
      <4>4. QED
        BY <3>1, <4>2, <4>3
    <3>4. QED
      BY <3>2, <3>3
  <2>2. client' \in [op : {"idle", "open", "write", "recycle", "index"},
                 key : Keys \cup {Nothing}, value : FirstValues \cup {Nothing},
                 old : Offsets \cup {First!EMPTY}, hash_pos : Positions,
                 cnt : 0..CntMod - 1, new : Offsets \cup {First!EMPTY}]
    <3>1. PICK n \in 0..CntMod - 1 : client' = [op |-> "write", key |-> k, value |-> v, old |-> old,
                                                hash_pos |-> pos, new |-> o, cnt |-> n]
      BY <1>2, <1>3, <2>1
    <3>2. QED
      BY <1>7, <1>11, <3>1
  <2>3. QED
    BY <1>1, <1>3, <1>7, <2>2, MemFields DEF FirstInv, FirstTyped
<1>13. LayoutInv'
  BY <1>1, <1>3, <1>5, <1>7, ItemsStay DEF LayoutInv
<1>14. FirstOwnInv'
  <2>1. \A p \in Positions : Used(p)' => mem'.index_offsets[p] \in Known'
    BY <1>4, <1>8, <1>9 DEF FirstInv, FirstOwnInv
  <2>2. \A c \in First!Chunks, x \in Offsets :
          InQueue(mem'.free_space, c, x) => x \in Known' /\ disk'[x].chunk = c
    BY <1>1, <1>4, <1>7 DEF FirstInv, FirstOwnInv
  <2>3. /\ \A x \in Known' : ~(Indexed(x)' /\ Queued(x)')
        /\ \A x \in Known' : Indexed(x)' \/ Queued(x)' \/ x = o
    <3>1. \A x \in Items : x \in Offsets
      BY DEF Items
    <3>2. QED
      BY <1>1, <1>4, <1>6, <1>9, <1>10, <3>1 DEF FirstInv, FirstOwnInv
  <2>4. ~Indexed(o)' /\ ~Queued(o)'
    BY <1>7, <1>9, <1>10
  <2>5. QED
    BY <1>3, <1>7, <2>1, <2>2, <2>3, <2>4 DEF FirstOwnInv, Setting
<1>15. FirstSetInv'
  BY <1>1, <1>2, <1>3, <1>8, <1>9, <1>11 DEF FirstSetInv, Setting, KeyAt
<1>16. FirstCovered'
  BY <1>1, <1>4, <1>9 DEF FirstInv, FirstCovered
<1>17. FirstLatestInv'
  BY <1>1, <1>3, <1>4, <1>8, <1>9, ItemsStay DEF FirstInv, FirstLatestInv, FirstLatest
<1>18. QED
  BY <1>9, <1>12, <1>13, <1>14, <1>15, <1>16, <1>17 DEF FirstInv

(* Between two calls, and when the file is opened.                         *)
LEMMA IdleTyped ==
  /\ First!Idle \in [op : {"idle"}, key : {Nothing}, value : {Nothing}, old : {First!EMPTY},
                     hash_pos : Positions, cnt : 0..CntMod - 1, new : {First!EMPTY}]
  /\ First!Opening \in [op : {"open"}, key : {Nothing}, value : {Nothing}, old : {First!EMPTY},
                        hash_pos : Positions, cnt : 0..CntMod - 1, new : {0}]
<1>1. 0 \in Positions /\ 0 \in 0..CntMod - 1
  BY FirstAssumption DEF Positions
<1>2. First!Idle \in [op : {"idle"}, key : {Nothing}, value : {Nothing}, old : {First!EMPTY},
                      hash_pos : Positions, cnt : 0..CntMod - 1, new : {First!EMPTY}]
  BY <1>1 DEF First!Idle
<1>3. QED
  BY <1>2 DEF First!Opening

(* The new item is written: of the records it is one with its old size, or *)
(* the last.                                                               *)
LEMMA WriteKeeps ==
  ASSUME FirstInv, First!Write, NEW k, k = client.key, NEW o, o = client.new
  PROVE  FirstInv'
<1>1. /\ client.op = "write" /\ mem' = mem
      /\ client' = [client EXCEPT !.op = IF client.old = First!EMPTY THEN "index" ELSE "recycle"]
      /\ ghost' = [ghost EXCEPT ![k] = [sets |-> @.sets + 1, latest |-> client.value]]
  BY DEF First!Write
<1>2. /\ k \in Keys /\ client.value \in FirstValues /\ o \in Offsets /\ client.cnt \in 0..CntMod - 1
      /\ Setting
  BY <1>1 DEF FirstInv, FirstTyped, Setting
<1>3. /\ client'.op = IF client.old = First!EMPTY THEN "index" ELSE "recycle"
      /\ client'.key = k /\ client'.value = client.value /\ client'.new = o /\ client'.old = client.old
      /\ client'.hash_pos = client.hash_pos /\ client'.cnt = client.cnt
  BY <1>1 DEF FirstInv, FirstTyped
<1>4. PICK c \in First!Chunks : /\ c = IF o \in Items THEN disk[o].chunk ELSE First!calFreeSpaceIdx(client.value)
                                /\ disk' = [disk EXCEPT ![o] = [key |-> k, value |-> client.value,
                                                                cnt |-> client.cnt, chunk |-> c]]
  <2>1. CASE o \in Items
    <3>1. disk[o] \in Records /\ disk[o] # First!Blank
      BY <2>1 DEF FirstInv, FirstTyped, Items
    <3>2. QED
      BY <2>1, <3>1 DEF First!Write, Records
  <2>2. CASE o \notin Items
    <3>1. disk[o] = First!Blank
      BY <1>2, <2>2 DEF Items
    <3>2. QED
      BY <1>2, <2>2, <3>1, ItemSizes DEF First!Write
  <2>3. QED
    BY <2>1, <2>2
<1>5. /\ disk'[o] = [key |-> k, value |-> client.value, cnt |-> client.cnt, chunk |-> c]
      /\ disk'[o] \in Records /\ disk'[o] # First!Blank
      /\ \A x \in Offsets : x # o => disk'[x] = disk[x]
      /\ disk' \in [Offsets -> Records \cup {First!Blank}]
  <2>1. disk \in [Offsets -> Records \cup {First!Blank}]
    BY DEF FirstInv, FirstTyped
  <2>2. PICK r \in Records : r = [key |-> k, value |-> client.value, cnt |-> client.cnt, chunk |-> c]
    BY <1>2 DEF Records
  <2>3. r # First!Blank
    BY <1>2, <2>2, FirstAssumption DEF First!Blank
  <2>4. QED
    BY <1>2, <1>4, <2>1, <2>2, <2>3
<1>6. \A x : x \in Items' <=> x \in Items \/ x = o
  BY <1>2, <1>5 DEF Items
<1>7. Known = Items /\ Known' = Items'
  BY <1>1, <1>3 DEF Known
<1>8. ~Indexed(o) /\ ~Queued(o)
  BY <1>2 DEF FirstInv, FirstOwnInv
<1>9. \A p \in Positions : Used(p) => mem.index_offsets[p] \in Items /\ mem.index_offsets[p] # o
  BY <1>8, UsedItems DEF Indexed
<1>10. /\ \A p \in Positions : (Used(p)' <=> Used(p)) /\ (Used(p) => KeyAt(p)' = KeyAt(p))
       /\ \A h : HasEntry(h)' <=> HasEntry(h)
       /\ \A x : Indexed(x)' <=> Indexed(x)
       /\ FirstIndexInv'
  <2>1. \A p \in Positions : Used(p) => disk'[mem.index_offsets[p]] = disk[mem.index_offsets[p]]
    BY <1>5, <1>9 DEF Items
  <2>2. mem'.index_offsets = mem.index_offsets
    BY <1>1
  <2>3. QED
    BY <2>1, <2>2, EntriesStay
<1>11. \A x : Queued(x)' <=> Queued(x)
  BY <1>1 DEF Queued
<1>12. FirstTyped'
  <2>1. client' \in [op : {"idle", "open", "write", "recycle", "index"},
                 key : Keys \cup {Nothing}, value : FirstValues \cup {Nothing},
                 old : Offsets \cup {First!EMPTY}, hash_pos : Positions,
                 cnt : 0..CntMod - 1, new : Offsets \cup {First!EMPTY}]
    BY <1>1 DEF FirstInv, FirstTyped
  <2>2. ghost' \in [Keys -> [sets : Nat, latest : FirstValues \cup {NotFound}]]
    BY <1>1, <1>2 DEF FirstInv, FirstTyped
  <2>3. mem' \in [index_offsets : [Positions -> Offsets \cup {First!EMPTY}],
                  free_space : [First!Chunks -> Seq(Offsets)], file_end_offset_ : Offsets]
    BY <1>1 DEF FirstInv, FirstTyped
  <2>4. QED
    BY <1>2, <1>3, <1>5, <2>1, <2>2, <2>3 DEF FirstTyped
<1>13. LayoutInv'
  <2>1. PICK e \in Offsets : SideBySide(e) /\ IF o \notin Items
          THEN e = o /\ mem.file_end_offset_ = e + First!ItemSize(client.value)
          ELSE e = mem.file_end_offset_
    BY <1>1 DEF FirstInv, LayoutInv
  <2>2. \A x \in Items : x # o => ItemEnd(x)' = ItemEnd(x)
    BY <1>5 DEF ItemEnd, Items
  <2>3. CASE o \in Items
    <3>1. ItemEnd(o)' = ItemEnd(o)
      BY <1>4, <1>5, <2>3 DEF ItemEnd
    <3>2. Items' = Items /\ \A x \in Items : ItemEnd(x)' = ItemEnd(x)
      BY <1>6, <2>2, <2>3, <3>1
    <3>3. SideBySide(e)'
      BY <2>1, <3>2 DEF SideBySide
    <3>4. QED
      BY <1>1, <1>3, <2>1, <2>3, <3>3 DEF LayoutInv
  <2>4. CASE o \notin Items
    <3>1. PICK q \in Nat \ {0} : First!ItemSize(client.value) = 16 * q
      BY <1>2, ItemSizes
    <3>2. ItemEnd(o)' = mem.file_end_offset_
      BY <1>2, <1>4, <1>5, <2>1, <2>4, ItemSizes DEF ItemEnd
    <3>3. PICK g \in Offsets : /\ g = mem.file_end_offset_ /\ g = e + 16 * q /\ g \in Nat /\ e \in Nat /\ e < g
      BY <2>1, <2>4, <3>1, MemFields, Places
    <3>4. \A x \in Items : x \in Nat /\ x < e /\ ItemEnd(x) \in Items \cup {e} /\ ItemEnd(x) <= e
      <4>1. \A x \in Items : x \in Nat
        BY Places DEF Items
      <4>2. \A x \in Items : x < e /\ ItemEnd(x) \in Items \cup {e}
        BY <2>1 DEF SideBySide
      <4>3. ASSUME NEW x \in Items
            PROVE  ItemEnd(x) <= e
        <5>1. PICK y \in Items \cup {e} : y = ItemEnd(x)
          BY <4>2
        <5>2. y <= e
          BY <3>3, <4>1, <4>2
        <5>3. QED
          BY <5>1, <5>2
      <4>4. QED
        BY <4>1, <4>2, <4>3
    <3>5. SideBySide(g)'
      <4>1. 0 \in Items' \cup {g}
        BY <1>6, <2>1, <2>4 DEF SideBySide
      <4>2. \A x \in Items' : x < g /\ ItemEnd(x)' \in Items' \cup {g}
        BY <1>6, <2>1, <2>2, <2>4, <3>2, <3>3, <3>4
      <4>3. \A x, y \in Items' : x < y => ItemEnd(x)' <= y
        BY <1>6, <2>1, <2>2, <2>4, <3>3, <3>4 DEF SideBySide
      <4>4. QED
        BY <4>1, <4>2, <4>3 DEF SideBySide
    <3>6. QED
      BY <1>1, <1>3, <3>3, <3>5 DEF LayoutInv
  <2>5. QED
    BY <2>3, <2>4
<1>14. FirstOwnInv'
  <2>1. \A d \in First!Chunks, x \in Offsets :
          InQueue(mem'.free_space, d, x) => x \in Known' /\ disk'[x].chunk = d
    BY <1>1, <1>5, <1>6, <1>7, <1>8 DEF FirstInv, FirstOwnInv, Queued
  <2>2. \A x \in Known' : Indexed(x)' /\ Queued(x)' => FALSE
    BY <1>1, <1>6, <1>7, <1>8, <1>10, <1>11 DEF FirstInv, FirstOwnInv
  <2>3. \A x \in Known' : Indexed(x)' \/ Queued(x)' \/ x = o
    BY <1>1, <1>6, <1>7, <1>10, <1>11 DEF FirstInv, FirstOwnInv
  <2>4. Separate(mem'.free_space) /\ \A p \in Positions : Used(p)' => mem'.index_offsets[p] \in Known'
    BY <1>1, <1>6, <1>7, <1>9, <1>10 DEF FirstInv, FirstOwnInv
  <2>5. Setting'
    BY <1>3 DEF Setting
  <2>6. QED
    BY <1>3, <1>8, <1>10, <1>11, <2>1, <2>2, <2>3, <2>4, <2>5 DEF FirstOwnInv
<1>15. FirstSetInv'
  <2>1. client.old # First!EMPTY => /\ mem.index_offsets[client.hash_pos] = client.old
                                    /\ disk[client.old].key = k
    BY <1>2 DEF FirstInv, FirstSetInv
  <2>2. client.old = First!EMPTY => ~HasEntry(k)
    BY <1>2 DEF FirstInv, FirstSetInv
  <2>3. client.old # First!EMPTY => disk'[client.old].key = k
    BY <1>5, <2>1 DEF FirstInv, FirstTyped
  <2>4. QED
    BY <1>1, <1>3, <1>5, <1>6, <1>10, <2>1, <2>2, <2>3 DEF FirstSetInv
<1>16. FirstCovered'
  <2>1. ASSUME NEW x \in Items, x # o
        PROVE  HasEntry(disk[x].key)'
    BY <1>1, <1>5, <1>7, <1>10, <2>1 DEF FirstInv, FirstCovered, Items
  <2>2. QED
    BY <1>3, <1>5, <1>6, <1>7, <2>1 DEF FirstCovered
<1>17. ASSUME NEW h \in Keys, h # k, ghost[h].sets < CntMod
       PROVE  /\ ghost[h].sets = 0 => ghost[h].latest = NotFound /\ \A x \in Items' : disk'[x].key # h
              /\ ghost[h].sets > 0 =>
                   \E t \in Items' : /\ Leads(t, h, Items)'
                                     /\ \A q \in Items' : Leads(q, h, Items)' => q = t
                                     /\ disk'[t].value = ghost[h].latest /\ disk'[t].cnt \in 1..ghost[h].sets
              /\ \A p \in Positions : Used(p)' /\ KeyAt(p)' = h => Leads(mem.index_offsets[p], h, Known)'
  <2>1. \A x \in Items : x # o => disk'[x] = disk[x]
    BY <1>5 DEF Items
  <2>2. disk'[o].key # h
    BY <1>5, <1>17
  <2>3. \A x \in Items : x # o => (Leads(x, h, Items)' <=> Leads(x, h, Items)) \/ disk[o].key = h
    BY <1>6, <2>1, <2>2 DEF Leads
  <2>4. \A x \in Items' : Leads(x, h, Items)' => x \in Items /\ x # o /\ disk[x].key = h
    BY <1>6, <2>1, <2>2 DEF Leads
  <2>5. \A x \in Items : x # o /\ Leads(x, h, Items) => Leads(x, h, Items)'
    BY <1>6, <2>1, <2>2 DEF Leads
  <2>6. /\ ghost[h].sets = 0 => ghost[h].latest = NotFound /\ \A x \in Items : disk[x].key # h
        /\ \A p \in Positions : Used(p) /\ KeyAt(p) = h => Leads(mem.index_offsets[p], h, Items)
    BY <1>1, <1>7, <1>17 DEF FirstInv, FirstLatestInv, FirstLatest
  <2>7. CASE ghost[h].sets > 0
    <3>1. PICK t \in Items : /\ Leads(t, h, Items) /\ \A q \in Items : Leads(q, h, Items) => q = t
                             /\ disk[t].value = ghost[h].latest /\ disk[t].cnt \in 1..ghost[h].sets
      BY <1>17, <2>7 DEF FirstInv, FirstLatestInv, FirstLatest
    <3>2. HasEntry(h)
      BY <1>1, <1>7, <3>1 DEF FirstInv, FirstCovered, Leads
    <3>3. t # o
      BY <1>9, <2>6, <3>1, <3>2 DEF HasEntry
    <3>4. \A q \in Items' : Leads(q, h, Items)' => q = t
      <4>1. ASSUME NEW q \in Items', Leads(q, h, Items)'
            PROVE  q = t
        <5>1. q \in Items /\ q # o /\ disk[q].key = h
          BY <2>4, <4>1
        <5>2. disk[t].cnt <= disk[q].cnt
          BY <1>6, <2>1, <3>1, <3>3, <4>1, <5>1 DEF Leads
        <5>3. \A x \in Items : disk[x].key = h => disk[x].cnt <= disk[q].cnt
          <6>1. \A x \in Items : disk[x].key = h => disk[x].cnt \in Int /\ disk[x].cnt <= disk[t].cnt
            BY <3>1 DEF Leads, FirstInv, FirstTyped, Items, Records
          <6>2. QED
            BY <3>1, <5>1, <5>2, <6>1
        <5>4. QED
          BY <3>1, <5>1, <5>3 DEF Leads
      <4>2. QED
        BY <4>1
    <3>5. t \in Items' /\ Leads(t, h, Items)' /\ disk'[t] = disk[t]
      BY <1>6, <2>1, <2>5, <3>1, <3>3
    <3>6. \A p \in Positions : Used(p)' /\ KeyAt(p)' = h => Leads(mem.index_offsets[p], h, Known)'
      BY <1>1, <1>7, <1>9, <1>10, <2>5, <2>6
    <3>7. QED
      BY <2>7, <3>1, <3>4, <3>5, <3>6
  <2>8. CASE ghost[h].sets = 0
    <3>1. \A x \in Items' : disk'[x].key # h
      BY <1>6, <2>1, <2>2, <2>6, <2>8
    <3>2. \A p \in Positions : Used(p) => KeyAt(p) # h
      BY <2>6, <2>8, <1>9 DEF KeyAt
    <3>3. QED
      BY <1>10, <2>6, <2>8, <3>1, <3>2
  <2>9. ghost[h].sets \in Nat
    BY <1>17 DEF FirstInv, FirstTyped
  <2>10. QED
    BY <2>7, <2>8, <2>9
<1>18. ASSUME ghost'[k].sets < CntMod
       PROVE  /\ ghost'[k].sets > 0
              /\ Leads(o, k, Items)' /\ \A q \in Items' : Leads(q, k, Items)' => q = o
              /\ disk'[o].value = ghost'[k].latest /\ disk'[o].cnt \in 1..ghost'[k].sets
  <2>1. PICK n \in Nat : /\ n = ghost[k].sets /\ ghost'[k] = [sets |-> n + 1, latest |-> client.value]
                         /\ n + 1 < CntMod /\ n < CntMod /\ CntMod \in Nat
    <3>1. PICK n \in Nat : n = ghost[k].sets
      BY <1>2 DEF FirstInv, FirstTyped
    <3>2. ghost'[k] = [sets |-> n + 1, latest |-> client.value]
      BY <1>1, <1>2, <3>1 DEF FirstInv, FirstTyped
    <3>3. ghost'[k].sets = n + 1 /\ CntMod \in Nat
      BY <3>2, FirstAssumption
    <3>4. QED
      BY <1>18, <3>1, <3>2, <3>3
  <2>2. /\ client.cnt \in 1..n + 1
        /\ \A q \in Items : disk[q].key = k => disk[q].cnt \in Int /\ disk[q].cnt < client.cnt
    <3>1. client.cnt = IF client.old = First!EMPTY THEN 1 ELSE First!NextCnt(disk[client.old].cnt)
      BY <1>1, <1>2, <2>1 DEF FirstInv, FirstLatestInv, FirstLatest
    <3>2. CASE client.old = First!EMPTY
      <4>1. ~HasEntry(k)
        BY <1>2, <3>2 DEF FirstInv, FirstSetInv
      <4>2. \A q \in Items : disk[q].key # k
        BY <1>1, <1>7, <4>1 DEF FirstInv, FirstCovered
      <4>3. QED
        BY <2>1, <3>1, <3>2, <4>2
    <3>3. CASE client.old # First!EMPTY
      <4>1. PICK p \in Positions : p = client.hash_pos /\ mem.index_offsets[p] = client.old
                                   /\ Used(p) /\ KeyAt(p) = k
        BY <1>2, <3>3 DEF FirstInv, FirstSetInv, FirstTyped, Used, KeyAt
      <4>2. Leads(client.old, k, Items)
        BY <1>1, <1>2, <1>7, <2>1, <4>1 DEF FirstInv, FirstLatestInv, FirstLatest
      <4>3. n > 0
        BY <1>2, <2>1, <4>2 DEF FirstInv, FirstLatestInv, FirstLatest, Leads
      <4>4. PICK t \in Items : Leads(t, k, Items) /\ disk[t].cnt \in 1..n
        BY <1>2, <2>1, <4>3 DEF FirstInv, FirstLatestInv, FirstLatest
      <4>5. \A q \in Items : disk[q].key = k => disk[q].cnt \in Int /\ disk[q].cnt <= disk[client.old].cnt
        BY <4>2 DEF Leads, FirstInv, FirstTyped, Items, Records
      <4>6. PICK m \in 1..n : m = disk[client.old].cnt
        <5>1. disk[client.old].cnt = disk[t].cnt
          BY <4>2, <4>4, <4>5 DEF Leads
        <5>2. QED
          BY <4>4, <5>1
      <4>7. (m + 1) % CntMod = m + 1
        BY <2>1
      <4>8. client.cnt = m + 1
        BY <3>1, <3>3, <4>6, <4>7 DEF First!NextCnt
      <4>9. QED
        BY <2>1, <4>5, <4>6, <4>8
    <3>4. QED
      BY <3>2, <3>3
  <2>3. /\ disk'[o].cnt = client.cnt /\ disk'[o].key = k /\ disk'[o].value = client.value
        /\ \A x \in Items : x # o => disk'[x] = disk[x]
    BY <1>5 DEF Items
  <2>4. \A q \in Items' : disk'[q].key = k => q = o \/ (disk'[q].cnt \in Int /\ disk'[q].cnt < client.cnt)
    BY <1>6, <2>2, <2>3
  <2>5. Leads(o, k, Items)'
    BY <1>6, <2>2, <2>3, <2>4 DEF Leads
  <2>6. \A q \in Items' : Leads(q, k, Items)' => q = o
    BY <1>6, <2>2, <2>3, <2>4 DEF Leads
  <2>7. QED
    BY <2>1, <2>2, <2>3, <2>5, <2>6
<1>19. FirstLatestInv'
  <2>1. \A h \in Keys : h # k => ghost'[h] = ghost[h]
    BY <1>1 DEF FirstInv, FirstTyped
  <2>2. client'.op \in {"recycle", "index"}
    BY <1>3
  <2>3. ASSUME NEW h \in Keys, h # k
        PROVE  FirstLatest(h)'
    BY <1>3, <1>17, <2>1, <2>2, <2>3 DEF FirstLatest
  <2>4. FirstLatest(k)'
    <3>1. o \in Items' /\ ghost'[k].sets # 0
      <4>1. ghost[k].sets \in Nat /\ ghost'[k].sets = ghost[k].sets + 1
        BY <1>1, <1>2 DEF FirstInv, FirstTyped
      <4>2. QED
        BY <1>6, <4>1
    <3>2. QED
      BY <1>3, <1>18, <2>2, <3>1 DEF FirstLatest
  <2>5. QED
    BY <1>2, <2>3, <2>4 DEF FirstLatestInv
<1>20. QED
  BY <1>10, <1>12, <1>13, <1>14, <1>15, <1>16, <1>19 DEF FirstInv

(* The item with the record that is replaced is put in the queue of its    *)
(* chunk.                                                                  *)
LEMMA RecycleKeeps ==
  ASSUME FirstInv, First!Recycle, NEW o, o = client.old
  PROVE  FirstInv'
<1>1. /\ client.op = "recycle" /\ disk' = disk /\ ghost' = ghost
      /\ client' = [client EXCEPT !.op = "index"]
      /\ mem' = [mem EXCEPT !.free_space = Put(mem.free_space, disk[o].chunk, o)]
  BY DEF First!Recycle, First!RecycleKV_Data, Put
<1>2. Setting /\ client.key \in Keys /\ client.hash_pos \in Positions
  BY <1>1 DEF FirstInv, FirstTyped, Setting
<1>3. /\ client'.op = "index" /\ client'.key = client.key /\ client'.value = client.value
      /\ client'.new = client.new /\ client'.old = o /\ client'.hash_pos = client.hash_pos
      /\ Setting'
  BY <1>1 DEF FirstInv, FirstTyped, Setting
<1>4. Known = Items /\ Known' = Items
  BY <1>1, <1>3, ItemsStay DEF Known
<1>5. /\ o # First!EMPTY /\ mem.index_offsets[client.hash_pos] = o
      /\ client.new \in Items /\ disk[client.new].key = client.key /\ disk[o].key = client.key
  BY <1>1, <1>2 DEF FirstInv, FirstSetInv
<1>6. o \in Items /\ Indexed(o) /\ ~Queued(o) /\ o \in Offsets
  <2>1. o \in Items /\ Indexed(o)
    BY <1>2, <1>5, UsedItems DEF Used, Indexed
  <2>2. QED
    BY <1>1, <1>4, <2>1 DEF FirstInv, FirstOwnInv, Items
<1>7. PICK c \in First!Chunks : c = disk[o].chunk
  BY <1>6 DEF FirstInv, FirstTyped, Items, Records
<1>8. PICK g : g = Put(mem.free_space, c, o)
  OBVIOUS
<1>9. /\ mem'.free_space = g /\ mem'.index_offsets = mem.index_offsets
      /\ mem'.file_end_offset_ = mem.file_end_offset_
      /\ mem' = [index_offsets |-> mem.index_offsets, free_space |-> g,
                 file_end_offset_ |-> mem.file_end_offset_]
  BY <1>1, <1>7, <1>8, MemFields
<1>10. /\ g \in [First!Chunks -> Seq(Offsets)] /\ Separate(g)
       /\ \A d \in First!Chunks : \A x : InQueue(g, d, x) <=> InQueue(mem.free_space, d, x) \/ (d = c /\ x = o)
  <2>1. PICK f \in [First!Chunks -> Seq(Offsets)] : f = mem.free_space
    BY MemFields
  <2>2. Separate(f) /\ ~InQueue(f, c, o) /\ g = Put(f, c, o)
    BY <1>6, <1>8, <2>1 DEF FirstInv, FirstOwnInv, Queued
  <2>3. QED
    BY <1>6, <2>1, <2>2, Pushed
<1>11. \A x : Queued(x)' <=> Queued(x) \/ x = o
  BY <1>9, <1>10 DEF Queued
<1>12. /\ \A p \in Positions : (Used(p)' <=> Used(p)) /\ (Used(p) => KeyAt(p)' = KeyAt(p))
       /\ \A h : HasEntry(h)' <=> HasEntry(h)
       /\ \A x : Indexed(x)' <=> Indexed(x)
       /\ FirstIndexInv'
  BY <1>1, <1>9, EntriesStay
<1>13. FirstTyped'
  <2>1. client' \in [op : {"idle", "open", "write", "recycle", "index"},
                 key : Keys \cup {Nothing}, value : FirstValues \cup {Nothing},
                 old : Offsets \cup {First!EMPTY}, hash_pos : Positions,
                 cnt : 0..CntMod - 1, new : Offsets \cup {First!EMPTY}]
    BY <1>1 DEF FirstInv, FirstTyped
  <2>2. mem' \in [index_offsets : [Positions -> Offsets \cup {First!EMPTY}],
                  free_space : [First!Chunks -> Seq(Offsets)], file_end_offset_ : Offsets]
    BY <1>9, <1>10, MemFields
  <2>3. QED
    BY <1>1, <1>2, <1>3, <2>1, <2>2 DEF FirstInv, FirstTyped
<1>14. LayoutInv'
  BY <1>1, <1>3, <1>9, ItemsStay DEF FirstInv, LayoutInv
<1>15. FirstOwnInv'
  <2>1. \A d \in First!Chunks, x \in Offsets :
          InQueue(mem'.free_space, d, x) => x \in Known' /\ disk'[x].chunk = d
    BY <1>1, <1>4, <1>6, <1>7, <1>9, <1>10 DEF FirstInv, FirstOwnInv
  <2>2. /\ \A x \in Known' : Indexed(x)' /\ Queued(x)' => x = o
        /\ \A x \in Known' : Indexed(x)' \/ Queued(x)' \/ x = client.new
    BY <1>1, <1>4, <1>11, <1>12 DEF FirstInv, FirstOwnInv
  <2>3. ~Indexed(client.new) /\ ~Queued(client.new) /\ client.new # o
    BY <1>2, <1>6 DEF FirstInv, FirstOwnInv
  <2>4. /\ Separate(mem'.free_space)
        /\ \A p \in Positions : Used(p)' => mem'.index_offsets[p] \in Known'
    BY <1>4, <1>9, <1>10, <1>12 DEF FirstInv, FirstOwnInv
  <2>5. ~Indexed(client.new)' /\ ~Queued(client.new)'
    BY <1>3, <1>9, <1>11, <1>12, <2>3 DEF Queued, Indexed
  <2>6. QED
    BY <1>3, <2>1, <2>2, <2>4, <2>5 DEF FirstOwnInv
<1>16. FirstSetInv'
  <2>1. Queued(o)'
    BY <1>11
  <2>2. QED
    BY <1>1, <1>3, <1>5, <1>9, <1>12, <2>1, ItemsStay DEF FirstSetInv
<1>17. FirstCovered'
  BY <1>1, <1>3, <1>4, <1>12 DEF FirstInv, FirstCovered
<1>18. FirstLatestInv'
  BY <1>1, <1>3, <1>4, <1>9, <1>12, ItemsStay DEF FirstInv, FirstLatestInv, FirstLatest
<1>19. QED
  BY <1>12, <1>13, <1>14, <1>15, <1>16, <1>17, <1>18 DEF FirstInv

(* The new item takes its place in the index, where the replaced one was   *)
(* or where put finds a free position.                                     *)
LEMMA IndexKeeps ==
  ASSUME FirstInv, First!Index, NEW k, k = client.key, NEW o, o = client.new
  PROVE  FirstInv'
<1>1. /\ client.op = "index" /\ disk' = disk /\ ghost' = ghost /\ client' = First!Idle
      /\ mem' = [mem EXCEPT !.index_offsets =
           [mem.index_offsets EXCEPT ![IF client.old = First!EMPTY THEN First!put(k) ELSE client.hash_pos] = o]]
  BY DEF First!Index
<1>2. /\ Setting /\ k \in Keys /\ client.hash_pos \in Positions /\ o \in Items /\ disk[o].key = k
      /\ o \in Offsets
  <2>1. Setting /\ k \in Keys /\ client.hash_pos \in Positions
    BY <1>1 DEF FirstInv, FirstTyped, Setting
  <2>2. QED
    BY <1>1, <2>1 DEF FirstInv, FirstSetInv, Items
<1>3. client'.op = "idle" /\ ~Setting'
  BY <1>1 DEF First!Idle, Setting
<1>4. Known = Items /\ Known' = Items
  BY <1>1, <1>3, ItemsStay DEF Known
<1>5. PICK at \in Positions :
        /\ mem' = [index_offsets |-> [mem.index_offsets EXCEPT ![at] = o], free_space |-> mem.free_space,
                   file_end_offset_ |-> mem.file_end_offset_]
        /\ \/ Used(at) /\ KeyAt(at) = k /\ Queued(mem.index_offsets[at]) /\ mem.index_offsets[at] = client.old
           \/ ~Used(at) /\ ~HasEntry(k) /\ (\A q \in Before(k, at) : Used(q)) /\ client.old = First!EMPTY
  <2>1. CASE client.old = First!EMPTY
    <3>1. ~HasEntry(k)
      BY <1>2, <2>1 DEF FirstInv, FirstSetInv
    <3>2. First!put(k) \in Positions /\ ~Used(First!put(k)) /\ \A q \in Before(k, First!put(k)) : Used(q)
      BY <1>2, <3>1, GetMisses
    <3>3. mem' = [index_offsets |-> [mem.index_offsets EXCEPT ![First!put(k)] = o],
                  free_space |-> mem.free_space, file_end_offset_ |-> mem.file_end_offset_]
      BY <1>1, <2>1, MemFields
    <3>4. QED
      BY <2>1, <3>1, <3>2, <3>3
  <2>2. CASE client.old # First!EMPTY
    <3>1. PICK at \in Positions : at = client.hash_pos
      BY <1>2
    <3>2. Used(at) /\ KeyAt(at) = k /\ Queued(mem.index_offsets[at]) /\ mem.index_offsets[at] = client.old
      BY <1>1, <1>2, <2>2, <3>1 DEF FirstInv, FirstSetInv, Used, KeyAt
    <3>3. mem' = [index_offsets |-> [mem.index_offsets EXCEPT ![at] = o],
                  free_space |-> mem.free_space, file_end_offset_ |-> mem.file_end_offset_]
      BY <1>1, <2>2, <3>1, MemFields
    <3>4. QED
      BY <3>2, <3>3
  <2>3. QED
    BY <2>1, <2>2
<1>6. /\ mem'.index_offsets = [mem.index_offsets EXCEPT ![at] = o] /\ mem'.free_space = mem.free_space
      /\ mem'.file_end_offset_ = mem.file_end_offset_ /\ mem'.index_offsets[at] = o
      /\ \A p \in Positions : p # at => mem'.index_offsets[p] = mem.index_offsets[p]
      /\ mem'.index_offsets \in [Positions -> Offsets \cup {First!EMPTY}]
  BY <1>2, <1>5, MemFields
<1>7. /\ \A p \in Positions : Used(p)' <=> Used(p) \/ p = at
      /\ \A p \in Positions : KeyAt(p)' = IF p = at THEN k ELSE KeyAt(p)
      /\ \A h : HasEntry(h)' <=> HasEntry(h) \/ h = k
      /\ \A x \in Offsets : Indexed(x)' <=> x = o \/ (Indexed(x) /\ x # mem.index_offsets[at])
      /\ FirstIndexInv'
  BY <1>1, <1>2, <1>5, <1>6, EntryMade
<1>8. \A x : Queued(x)' <=> Queued(x)
  BY <1>6 DEF Queued
<1>9. FirstTyped'
  <2>1. client' \in [op : {"idle", "open", "write", "recycle", "index"},
                 key : Keys \cup {Nothing}, value : FirstValues \cup {Nothing},
                 old : Offsets \cup {First!EMPTY}, hash_pos : Positions,
                 cnt : 0..CntMod - 1, new : Offsets \cup {First!EMPTY}]
    BY <1>1, IdleTyped
  <2>2. mem' \in [index_offsets : [Positions -> Offsets \cup {First!EMPTY}],
                  free_space : [First!Chunks -> Seq(Offsets)], file_end_offset_ : Offsets]
    BY <1>5, <1>6, MemFields
  <2>3. QED
    BY <1>1, <1>3, <2>1, <2>2 DEF FirstInv, FirstTyped
<1>10. LayoutInv'
  BY <1>1, <1>3, <1>6, ItemsStay DEF FirstInv, LayoutInv
<1>11. FirstOwnInv'
  <2>1. \A p \in Positions : Used(p)' => mem'.index_offsets[p] \in Known'
    BY <1>2, <1>4, <1>6, <1>7 DEF FirstInv, FirstOwnInv
  <2>2. Separate(mem'.free_space) /\ \A d \in First!Chunks, x \in Offsets :
          InQueue(mem'.free_space, d, x) => x \in Known' /\ disk'[x].chunk = d
    BY <1>1, <1>4, <1>6 DEF FirstInv, FirstOwnInv
  <2>3. ~Queued(o)
    BY <1>2 DEF FirstInv, FirstOwnInv
  <2>4. \A x \in Known' : ~(Indexed(x)' /\ Queued(x)')
    <3>1. ASSUME NEW x \in Items, Indexed(x), x # mem.index_offsets[at], Queued(x)
          PROVE  FALSE
      <4>1. x = client.old /\ x \in Offsets /\ x # First!EMPTY
        BY <1>4, <3>1, Places DEF FirstInv, FirstOwnInv, Items
      <4>2. QED
        BY <1>5, <3>1, <4>1
    <3>2. \A x \in Items : x \in Offsets
      BY DEF Items
    <3>3. QED
      BY <1>4, <1>7, <1>8, <2>3, <3>1, <3>2
  <2>5. \A x \in Known' : Indexed(x)' \/ Queued(x)'
    <3>1. ASSUME NEW x \in Items
          PROVE  Indexed(x)' \/ Queued(x)'
      <4>1. x \in Offsets /\ x # First!EMPTY /\ (Indexed(x) \/ Queued(x) \/ x = o)
        BY <1>4, <3>1, Places DEF FirstInv, FirstOwnInv, Items
      <4>2. CASE x = mem.index_offsets[at]
        <5>1. Queued(x)
          BY <1>5, <4>1, <4>2 DEF Used
        <5>2. QED
          BY <1>8, <5>1
      <4>3. CASE x # mem.index_offsets[at]
        BY <1>7, <1>8, <4>1, <4>3
      <4>4. QED
        BY <4>2, <4>3
    <3>2. QED
      BY <1>4, <3>1
  <2>6. QED
    BY <1>3, <2>1, <2>2, <2>4, <2>5 DEF FirstOwnInv
<1>12. FirstSetInv'
  BY <1>3 DEF FirstSetInv
<1>13. FirstCovered'
  BY <1>1, <1>4, <1>7 DEF FirstInv, FirstCovered
<1>14. FirstLatestInv'
  <2>1. ASSUME NEW h \in Keys, ghost[h].sets < CntMod, NEW p \in Positions, Used(p)', KeyAt(p)' = h
        PROVE  Leads(mem'.index_offsets[p], h, Items)
    <3>1. CASE h = k
      <4>1. p = at
        <5>1. ASSUME p # at
              PROVE  FALSE
          <6>1. Used(p) /\ KeyAt(p) = k
            BY <1>7, <2>1, <3>1, <5>1
          <6>2. ~(Used(at) /\ KeyAt(at) = k)
            BY <5>1, <6>1 DEF FirstInv, FirstIndexInv
          <6>3. QED
            BY <1>5, <6>1, <6>2 DEF HasEntry
        <5>2. QED
          BY <5>1
      <4>2. ghost[k].sets > 0
        BY <1>2, <2>1, <3>1 DEF FirstInv, FirstTyped, FirstLatestInv, FirstLatest
      <4>3. PICK t \in Items : Leads(t, k, Items) /\ t = o
        BY <1>1, <1>2, <2>1, <3>1, <4>2 DEF FirstInv, FirstLatestInv, FirstLatest
      <4>4. QED
        BY <1>6, <3>1, <4>1, <4>3
    <3>2. CASE h # k
      <4>1. p # at /\ Used(p) /\ KeyAt(p) = h
        BY <1>7, <2>1, <3>2
      <4>2. QED
        BY <1>1, <1>4, <1>6, <2>1, <3>2, <4>1 DEF FirstInv, FirstLatestInv, FirstLatest
    <3>3. QED
      BY <3>1, <3>2
  <2>2. ASSUME NEW h \in Keys, ghost[h].sets < CntMod, NEW p \in Positions, Used(p)', KeyAt(p)' = h
        PROVE  Leads(mem.index_offsets[p], h, Known)'
    BY <1>1, <1>4, <2>1, <2>2 DEF Leads
  <2>3. ASSUME NEW h \in Keys, ghost[h].sets < CntMod
        PROVE  /\ ghost[h].sets = 0 => ghost[h].latest = NotFound /\ \A x \in Items' : disk'[x].key # h
               /\ ghost[h].sets > 0 =>
                    \E t \in Items' : /\ Leads(t, h, Items)'
                                      /\ \A q \in Items' : Leads(q, h, Items)' => q = t
                                      /\ disk'[t].value = ghost[h].latest /\ disk'[t].cnt \in 1..ghost[h].sets
    <3>1. /\ ghost[h].sets = 0 => ghost[h].latest = NotFound /\ \A x \in Items : disk[x].key # h
          /\ ghost[h].sets > 0 =>
               \E t \in Items : /\ Leads(t, h, Items)
                                /\ \A q \in Items : Leads(q, h, Items) => q = t
                                /\ disk[t].value = ghost[h].latest /\ disk[t].cnt \in 1..ghost[h].sets
      BY <2>3 DEF FirstInv, FirstLatestInv, FirstLatest
    <3>2. Items' = Items /\ \A x : Leads(x, h, Items)' <=> Leads(x, h, Items)
      BY <1>1 DEF Leads, Items
    <3>3. QED
      BY <1>1, <3>1, <3>2
  <2>4. QED
    BY <1>1, <1>3, <2>2, <2>3 DEF FirstLatestInv, FirstLatest
<1>15. QED
  BY <1>7, <1>9, <1>10, <1>11, <1>12, <1>13, <1>14 DEF FirstInv

(* A Get changes nothing.                                                  *)
LEMMA SameKeeps ==
  ASSUME FirstInv, disk' = disk, mem' = mem, client' = client, ghost' = ghost
  PROVE  FirstInv'
<1>1. /\ Items' = Items /\ Known' = Known /\ (Setting' <=> Setting)
      /\ \A x : Queued(x)' <=> Queued(x)
  BY DEF Items, Known, Setting, Queued
<1>2. /\ \A p \in Positions : (Used(p)' <=> Used(p)) /\ (Used(p) => KeyAt(p)' = KeyAt(p))
      /\ \A h : HasEntry(h)' <=> HasEntry(h)
      /\ \A x : Indexed(x)' <=> Indexed(x)
      /\ FirstIndexInv'
  BY EntriesStay
<1>3. FirstTyped'
  BY <1>1 DEF FirstInv, FirstTyped
<1>4. LayoutInv'
  BY <1>1, ItemsStay DEF FirstInv, LayoutInv
<1>5. FirstOwnInv' /\ FirstSetInv' /\ FirstCovered'
  BY <1>1, <1>2 DEF FirstInv, FirstOwnInv, FirstSetInv, FirstCovered
<1>6. FirstLatestInv'
  BY <1>1, <1>2, ItemsStay DEF FirstInv, FirstLatestInv, FirstLatest
<1>7. QED
  BY <1>2, <1>3, <1>4, <1>5, <1>6 DEF FirstInv

(* The process stops, and opens the file with an empty index.              *)
LEMMA StopKeeps ==
  ASSUME FirstInv, First!Stop
  PROVE  FirstInv'
<1>1. disk' = disk /\ ghost' = ghost /\ mem' = First!Fresh /\ client' = First!Opening
  BY DEF First!Stop
<1>2. client'.op = "open" /\ client'.new = 0 /\ ~Setting'
  BY <1>1, IdleTyped DEF Setting
<1>3. /\ \A p \in Positions : ~Used(p)'
      /\ \A c \in First!Chunks : \A x : ~InQueue(mem'.free_space, c, x)
      /\ Separate(mem'.free_space)
      /\ mem' \in [index_offsets : [Positions -> Offsets \cup {First!EMPTY}],
                   free_space : [First!Chunks -> Seq(Offsets)], file_end_offset_ : Offsets]
  <2>1. mem' = [index_offsets |-> [p \in Positions |-> First!EMPTY],
                free_space |-> [c \in First!Chunks |-> <<>>], file_end_offset_ |-> 0]
    BY <1>1 DEF First!Fresh, Positions
  <2>2. /\ \A p \in Positions : mem'.index_offsets[p] = First!EMPTY
        /\ \A c \in First!Chunks : mem'.free_space[c] = <<>>
    BY <2>1
  <2>3. 1..Len(<<>>) = {}
    OBVIOUS
  <2>4. <<>> \in Seq(Offsets) /\ 0 \in Offsets
    BY Places
  <2>5. /\ \A c \in First!Chunks : \A x : ~InQueue(mem'.free_space, c, x)
        /\ Separate(mem'.free_space)
    BY <2>2, <2>3 DEF InQueue, Separate
  <2>6. QED
    BY <2>1, <2>2, <2>4, <2>5 DEF Used
<1>4. Known' = {}
  <2>1. \A o \in Items' : ~(o < 0)
    BY Places DEF Items
  <2>2. QED
    BY <1>2, <2>1 DEF Known
<1>5. FirstTyped'
  <2>1. client' \in [op : {"idle", "open", "write", "recycle", "index"},
                 key : Keys \cup {Nothing}, value : FirstValues \cup {Nothing},
                 old : Offsets \cup {First!EMPTY}, hash_pos : Positions,
                 cnt : 0..CntMod - 1, new : Offsets \cup {First!EMPTY}]
    BY <1>1, IdleTyped, Places
  <2>2. QED
    BY <1>1, <1>2, <1>3, <2>1 DEF FirstInv, FirstTyped
<1>6. LayoutInv'
  <2>1. PICK e \in Offsets : SideBySide(e)
    BY DEF FirstInv, LayoutInv
  <2>2. 0 \in Items \cup {e}
    BY <2>1 DEF SideBySide
  <2>3. QED
    BY <1>1, <1>2, <2>1, <2>2, ItemsStay DEF LayoutInv
<1>7. FirstOwnInv' /\ FirstIndexInv' /\ FirstSetInv' /\ FirstCovered'
  BY <1>2, <1>3, <1>4 DEF FirstOwnInv, FirstIndexInv, FirstSetInv, FirstCovered
<1>8. FirstLatestInv'
  BY <1>1, <1>2, <1>3, ItemsStay DEF FirstInv, FirstLatestInv, FirstLatest
<1>9. QED
  BY <1>5, <1>6, <1>7, <1>8 DEF FirstInv

(* Recovery has come to the end of the items.                              *)
LEMMA RecoverEndKeeps ==
  ASSUME FirstInv, First!RecoverEnd
  PROVE  FirstInv'
<1>1. /\ client.op = "open" /\ disk[client.new] = First!Blank /\ disk' = disk /\ ghost' = ghost
      /\ client' = First!Idle /\ mem' = [mem EXCEPT !.file_end_offset_ = client.new]
  BY DEF First!RecoverEnd
<1>2. client'.op = "idle" /\ ~Setting' /\ ~Setting
  BY <1>1 DEF First!Idle, Setting
<1>3. PICK e \in Offsets : SideBySide(e) /\ e = client.new
  <2>1. client.new \notin Items
    BY <1>1 DEF Items
  <2>2. QED
    BY <1>1, <2>1 DEF FirstInv, LayoutInv
<1>4. Known = Items /\ Known' = Items
  <2>1. \A o \in Items : o < client.new
    BY <1>3 DEF SideBySide
  <2>2. QED
    BY <1>1, <1>2, <2>1, ItemsStay DEF Known
<1>5. /\ mem' = [index_offsets |-> mem.index_offsets, free_space |-> mem.free_space, file_end_offset_ |-> e]
      /\ mem'.index_offsets = mem.index_offsets /\ mem'.free_space = mem.free_space
      /\ mem'.file_end_offset_ = e
  BY <1>1, <1>3, MemFields
<1>6. /\ \A p \in Positions : (Used(p)' <=> Used(p)) /\ (Used(p) => KeyAt(p)' = KeyAt(p))
      /\ \A h : HasEntry(h)' <=> HasEntry(h)
      /\ \A x : Indexed(x)' <=> Indexed(x)
      /\ FirstIndexInv'
  BY <1>1, <1>5, EntriesStay
<1>7. \A x : Queued(x)' <=> Queued(x)
  BY <1>5 DEF Queued
<1>8. FirstTyped'
  <2>1. client' \in [op : {"idle", "open", "write", "recycle", "index"},
                 key : Keys \cup {Nothing}, value : FirstValues \cup {Nothing},
                 old : Offsets \cup {First!EMPTY}, hash_pos : Positions,
                 cnt : 0..CntMod - 1, new : Offsets \cup {First!EMPTY}]
    BY <1>1, IdleTyped
  <2>2. mem' \in [index_offsets : [Positions -> Offsets \cup {First!EMPTY}],
                  free_space : [First!Chunks -> Seq(Offsets)], file_end_offset_ : Offsets]
    BY <1>5, MemFields
  <2>3. QED
    BY <1>1, <1>2, <2>1, <2>2 DEF FirstInv, FirstTyped
<1>9. LayoutInv'
  BY <1>1, <1>2, <1>3, <1>5, ItemsStay DEF LayoutInv
<1>10. FirstOwnInv'
  BY <1>1, <1>2, <1>4, <1>5, <1>6, <1>7 DEF FirstInv, FirstOwnInv
<1>11. FirstSetInv' /\ FirstCovered'
  BY <1>1, <1>2, <1>4, <1>6 DEF FirstInv, FirstSetInv, FirstCovered
<1>12. FirstLatestInv'
  BY <1>1, <1>2, <1>4, <1>5, <1>6, ItemsStay DEF FirstInv, FirstLatestInv, FirstLatest
<1>13. QED
  BY <1>6, <1>8, <1>9, <1>10, <1>11, <1>12 DEF FirstInv

(* Recovery has come to one more item: it goes into the index, if it is    *)
(* the first of its key or has a greater count than the one there; the     *)
(* one that does not stay there goes to a queue.                           *)
LEMMA RecoverItemKeeps ==
  ASSUME FirstInv, First!RecoverItem, NEW pos, pos = client.new, NEW k, k = disk[pos].key
  PROVE  FirstInv'
<1>1. /\ client.op = "open" /\ disk[pos] # First!Blank /\ disk' = disk /\ ghost' = ghost
      /\ client' = [client EXCEPT !.new = ItemEnd(pos)]
  BY DEF First!RecoverItem, ItemEnd
<1>2. ~Setting
  BY <1>1 DEF Setting
<1>3. PICK e \in Offsets : SideBySide(e) /\ pos \in Items \cup {e}
  BY <1>1 DEF FirstInv, LayoutInv
<1>4. /\ pos \in Items /\ pos \in Offsets /\ pos \in Nat /\ disk[pos] \in Records /\ k \in Keys
      /\ ItemEnd(pos) \in Items \cup {e} /\ ItemEnd(pos) \in Offsets
  <2>1. pos \in Items
    BY <1>1, <1>3 DEF Items
  <2>2. disk[pos] \in Records
    BY <2>1 DEF FirstInv, FirstTyped, Items
  <2>3. ItemEnd(pos) \in Items \cup {e}
    BY <1>3, <2>1 DEF SideBySide
  <2>4. QED
    BY <2>1, <2>2, <2>3, Places DEF Items, Records
<1>5. /\ client'.op = "open" /\ client'.new = ItemEnd(pos) /\ client'.key = client.key
      /\ client'.old = client.old /\ ~Setting'
  BY <1>1 DEF FirstInv, FirstTyped, Setting
<1>6. pos \notin Known /\ \A x : x \in Known' <=> x \in Known \/ x = pos
  <2>1. \A x \in Items : x \in Nat
    BY Places DEF Items
  <2>2. \A x \in Items : pos < x => ItemEnd(pos) <= x
    BY <1>3, <1>4 DEF SideBySide
  <2>3. pos < ItemEnd(pos) /\ ItemEnd(pos) \in Nat
    <3>1. PICK c \in First!Chunks : c = disk[pos].chunk
      BY <1>4 DEF Records
    <3>2. PICK q \in Nat \ {0} : First!calSizeFromIdx(c) = 16 * q
      BY ChunkSizes
    <3>3. QED
      BY <1>4, <3>1, <3>2 DEF ItemEnd
  <2>4. \A x \in Items : x < ItemEnd(pos) <=> x < pos \/ x = pos
    BY <1>4, <2>1, <2>2, <2>3
  <2>5. Items' = Items
    BY <1>1, ItemsStay
  <2>6. QED
    BY <1>1, <1>4, <1>5, <2>4, <2>5 DEF Known
<1>7. ~Indexed(pos) /\ \A c \in First!Chunks : ~InQueue(mem.free_space, c, pos)
  BY <1>4, <1>6, Places DEF FirstInv, FirstOwnInv, Indexed, Used
<1>8. /\ \A x \in Known : x \in Items /\ x \in Offsets /\ x # pos /\ x # First!EMPTY
      /\ \A x \in Known : Indexed(x) \/ Queued(x)
      /\ \A x \in Known : ~(Indexed(x) /\ Queued(x))
  BY <1>1, <1>2, <1>6, Places DEF FirstInv, FirstOwnInv, Known, Items
<1>9. \A x \in Offsets : Indexed(x) \/ Queued(x) => x \in Known
  BY Places DEF FirstInv, FirstOwnInv, Indexed, Queued, Used
<1>10. PICK at, old, newer : /\ at = First!get(k) /\ old = mem.index_offsets[at]
                             /\ newer = (old # First!EMPTY /\ disk[pos].cnt > disk[old].cnt)
  OBVIOUS
<1>11. mem' = [mem EXCEPT
         !.index_offsets[at] = IF old = First!EMPTY \/ newer THEN pos ELSE @,
         !.free_space = IF old = First!EMPTY THEN @
                        ELSE First!RecycleKV_Data(@, IF newer THEN old ELSE pos)]
  BY <1>10 DEF First!RecoverItem
<1>12. \A x \in Items : disk[x].cnt \in Int
  BY DEF FirstInv, FirstTyped, Items, Records
<1>13. \A h \in Keys : ghost[h].sets < CntMod =>
         \A p \in Positions : Used(p) /\ KeyAt(p) = h => Leads(mem.index_offsets[p], h, Known)
  BY <1>1 DEF FirstInv, FirstLatestInv, FirstLatest
<1>14. ASSUME NEW S, \A x : x \in S <=> x \in Known \/ x = pos
       PROVE  /\ mem' \in [index_offsets : [Positions -> Offsets \cup {First!EMPTY}],
                           free_space : [First!Chunks -> Seq(Offsets)], file_end_offset_ : Offsets]
              /\ FirstIndexInv'
              /\ \A p \in Positions : Used(p)' => mem'.index_offsets[p] \in S
              /\ Separate(mem'.free_space)
              /\ \A c \in First!Chunks, x \in Offsets :
                   InQueue(mem'.free_space, c, x) => x \in S /\ disk[x].chunk = c
              /\ \A x \in S : (Indexed(x)' \/ Queued(x)') /\ ~(Indexed(x)' /\ Queued(x)')
              /\ \A h : HasEntry(h)' <=> HasEntry(h) \/ h = k
              /\ \A h \in Keys : ghost[h].sets < CntMod =>
                   \A p \in Positions : Used(p)' /\ KeyAt(p)' = h => Leads(mem'.index_offsets[p], h, S)
  <2>1. \A x, h : h # k /\ Leads(x, h, Known) => Leads(x, h, S)
    BY <1>14 DEF Leads
  <2>2. Separate(mem.free_space) /\ \A c \in First!Chunks, x \in Offsets :
          InQueue(mem.free_space, c, x) => x \in Known /\ disk[x].chunk = c
    BY DEF FirstInv, FirstOwnInv
  <2>3. \A p \in Positions : Used(p) => mem.index_offsets[p] \in Known
    BY DEF FirstInv, FirstOwnInv
  <2>4. CASE ~HasEntry(k)
    <3>1. at \in Positions /\ ~Used(at) /\ \A q \in Before(k, at) : Used(q)
      BY <1>4, <1>10, <2>4, GetMisses
    <3>2. old = First!EMPTY
      BY <1>10, <3>1 DEF Used
    <3>3. /\ mem' = [index_offsets |-> [mem.index_offsets EXCEPT ![at] = pos],
                     free_space |-> mem.free_space, file_end_offset_ |-> mem.file_end_offset_]
          /\ mem'.index_offsets = [mem.index_offsets EXCEPT ![at] = pos]
          /\ mem'.free_space = mem.free_space
      BY <1>11, <3>2, MemFields
    <3>4. /\ \A p \in Positions : Used(p)' <=> Used(p) \/ p = at
          /\ \A p \in Positions : KeyAt(p)' = IF p = at THEN k ELSE KeyAt(p)
          /\ \A h : HasEntry(h)' <=> HasEntry(h) \/ h = k
          /\ \A x \in Offsets : Indexed(x)' <=> x = pos \/ (Indexed(x) /\ x # mem.index_offsets[at])
          /\ FirstIndexInv'
      BY <1>1, <1>4, <2>4, <3>1, <3>3, EntryMade
    <3>5. \A x : Queued(x)' <=> Queued(x)
      BY <3>3 DEF Queued
    <3>6. /\ mem'.index_offsets[at] = pos
          /\ \A p \in Positions : p # at => mem'.index_offsets[p] = mem.index_offsets[p]
          /\ mem' \in [index_offsets : [Positions -> Offsets \cup {First!EMPTY}],
                       free_space : [First!Chunks -> Seq(Offsets)], file_end_offset_ : Offsets]
      BY <1>4, <3>1, <3>3, MemFields
    <3>7. \A x \in S : (Indexed(x)' \/ Queued(x)') /\ ~(Indexed(x)' /\ Queued(x)')
      <4>1. \A x \in Known : Indexed(x)' <=> Indexed(x)
        BY <1>8, <1>10, <3>2, <3>4
      <4>2. Indexed(pos)' /\ ~Queued(pos)'
        BY <1>4, <1>7, <3>4, <3>5 DEF Queued
      <4>3. QED
        BY <1>8, <1>14, <3>5, <4>1, <4>2
    <3>8. Leads(pos, k, S)
      <4>1. \A x \in Known : disk[x].key # k
        BY <1>1, <2>4 DEF FirstInv, FirstCovered
      <4>2. QED
        BY <1>4, <1>12, <1>14, <4>1 DEF Leads
    <3>9. ASSUME NEW h \in Keys, ghost[h].sets < CntMod, NEW p \in Positions, Used(p)', KeyAt(p)' = h
          PROVE  Leads(mem'.index_offsets[p], h, S)
      <4>1. CASE p = at
        BY <3>4, <3>6, <3>8, <3>9, <4>1
      <4>2. CASE p # at
        <5>1. Used(p) /\ KeyAt(p) = h /\ h # k
          BY <2>4, <3>4, <3>9, <4>2 DEF HasEntry
        <5>2. Leads(mem.index_offsets[p], h, Known)
          BY <1>13, <3>9, <5>1
        <5>3. QED
          BY <2>1, <3>6, <4>2, <5>1, <5>2
      <4>3. QED
        BY <4>1, <4>2
    <3>10. \A p \in Positions : Used(p)' => mem'.index_offsets[p] \in S
      BY <1>14, <2>3, <3>4, <3>6
    <3>11. QED
      BY <1>14, <2>2, <3>3, <3>4, <3>6, <3>7, <3>9, <3>10
  <2>5. CASE HasEntry(k)
    <3>1. at \in Positions /\ Used(at) /\ KeyAt(at) = k
      <4>1. PICK p \in Positions : Used(p) /\ KeyAt(p) = k
        BY <2>5 DEF HasEntry
      <4>2. QED
        BY <1>4, <1>10, <4>1, GetFinds
    <3>2. old # First!EMPTY /\ old \in Known /\ disk[old].key = k /\ Indexed(old) /\ old # pos
      BY <1>8, <1>10, <2>3, <3>1 DEF Used, KeyAt, Indexed
    <3>3. ghost[k].sets < CntMod => Leads(old, k, Known)
      BY <1>4, <1>10, <1>13, <3>1
    <3>4. old \in Offsets /\ ~Queued(old) /\ disk[old] \in Records /\ old \in Items
      BY <1>8, <3>2 DEF FirstInv, FirstTyped, Items
    <3>5. CASE newer
      <4>1. PICK c \in First!Chunks : c = disk[old].chunk
        BY <3>4 DEF Records
      <4>2. PICK g : g = Put(mem.free_space, c, old)
        OBVIOUS
      <4>3. /\ mem' = [index_offsets |-> [mem.index_offsets EXCEPT ![at] = pos],
                       free_space |-> g, file_end_offset_ |-> mem.file_end_offset_]
            /\ mem'.index_offsets = [mem.index_offsets EXCEPT ![at] = pos]
            /\ mem'.free_space = g
        BY <1>11, <3>2, <3>5, <4>1, <4>2, MemFields DEF First!RecycleKV_Data, Put
      <4>4. /\ g \in [First!Chunks -> Seq(Offsets)] /\ Separate(g)
            /\ \A d \in First!Chunks : \A x :
                 InQueue(g, d, x) <=> InQueue(mem.free_space, d, x) \/ (d = c /\ x = old)
        <5>1. PICK f \in [First!Chunks -> Seq(Offsets)] : f = mem.free_space
          BY MemFields
        <5>2. Separate(f) /\ ~InQueue(f, c, old) /\ g = Put(f, c, old)
          BY <2>2, <3>4, <4>2, <5>1 DEF Queued
        <5>3. QED
          BY <3>4, <5>1, <5>2, Pushed
      <4>5. /\ \A p \in Positions : Used(p)' <=> Used(p) \/ p = at
            /\ \A p \in Positions : KeyAt(p)' = IF p = at THEN k ELSE KeyAt(p)
            /\ \A h : HasEntry(h)' <=> HasEntry(h) \/ h = k
            /\ \A x \in Offsets : Indexed(x)' <=> x = pos \/ (Indexed(x) /\ x # old)
            /\ FirstIndexInv'
        <5>1. /\ \A p \in Positions : Used(p)' <=> Used(p) \/ p = at
              /\ \A p \in Positions : KeyAt(p)' = IF p = at THEN k ELSE KeyAt(p)
              /\ \A h : HasEntry(h)' <=> HasEntry(h) \/ h = k
              /\ \A x \in Offsets : Indexed(x)' <=> x = pos \/ (Indexed(x) /\ x # mem.index_offsets[at])
              /\ FirstIndexInv'
          BY <1>1, <1>4, <3>1, <4>3, EntryMade
        <5>2. QED
          BY <1>10, <5>1
      <4>6. \A x : Queued(x)' <=> Queued(x) \/ x = old
        BY <4>3, <4>4 DEF Queued
      <4>7. /\ mem'.index_offsets[at] = pos
            /\ \A p \in Positions : p # at => mem'.index_offsets[p] = mem.index_offsets[p]
            /\ mem' \in [index_offsets : [Positions -> Offsets \cup {First!EMPTY}],
                         free_space : [First!Chunks -> Seq(Offsets)], file_end_offset_ : Offsets]
        BY <1>4, <3>1, <4>3, <4>4, MemFields
      <4>8. \A x \in S : (Indexed(x)' \/ Queued(x)') /\ ~(Indexed(x)' /\ Queued(x)')
        <5>1. Indexed(pos)' /\ ~Queued(pos)'
          BY <1>4, <1>7, <3>2, <4>5, <4>6 DEF Queued
        <5>2. \A x \in Known : Indexed(x)' <=> (Indexed(x) /\ x # old)
          BY <1>8, <4>5
        <5>3. QED
          BY <1>8, <1>14, <3>2, <3>4, <4>6, <5>1, <5>2
      <4>9. ghost[k].sets < CntMod => Leads(pos, k, S)
        <5>1. ASSUME ghost[k].sets < CntMod, NEW x \in Known, disk[x].key = k
              PROVE  disk[x].cnt <= disk[pos].cnt
          <6>1. disk[x].cnt <= disk[old].cnt
            BY <3>3, <5>1 DEF Leads
          <6>2. disk[x].cnt \in Int /\ disk[old].cnt \in Int /\ disk[pos].cnt \in Int
            BY <1>4, <1>8, <1>12, <3>4
          <6>3. disk[old].cnt < disk[pos].cnt
            BY <1>10, <3>5, <6>2
          <6>4. QED
            BY <6>1, <6>2, <6>3
        <5>2. disk[pos].cnt \in Int /\ pos \in S /\ disk[pos].key = k
          BY <1>4, <1>12, <1>14
        <5>3. QED
          BY <1>14, <5>1, <5>2 DEF Leads
      <4>10. ASSUME NEW h \in Keys, ghost[h].sets < CntMod, NEW p \in Positions, Used(p)', KeyAt(p)' = h
             PROVE  Leads(mem'.index_offsets[p], h, S)
        <5>1. CASE p = at
          BY <4>5, <4>7, <4>9, <4>10, <5>1
        <5>2. CASE p # at
          <6>1. Used(p) /\ KeyAt(p) = h
            BY <4>5, <4>10, <5>2
          <6>2. h # k
            BY <3>1, <5>2, <6>1 DEF FirstInv, FirstIndexInv
          <6>3. Leads(mem.index_offsets[p], h, Known)
            BY <1>13, <4>10, <6>1
          <6>4. QED
            BY <2>1, <4>7, <5>2, <6>2, <6>3
        <5>3. QED
          BY <5>1, <5>2
      <4>11. \A p \in Positions : Used(p)' => mem'.index_offsets[p] \in S
        BY <1>14, <2>3, <4>5, <4>7
      <4>12. \A d \in First!Chunks, x \in Offsets :
               InQueue(mem'.free_space, d, x) => x \in S /\ disk[x].chunk = d
        BY <1>14, <2>2, <3>2, <4>1, <4>3, <4>4
      <4>13. QED
        BY <4>3, <4>4, <4>5, <4>7, <4>8, <4>10, <4>11, <4>12
    <3>6. CASE ~newer
      <4>1. PICK c \in First!Chunks : c = disk[pos].chunk
        BY <1>4 DEF Records
      <4>2. PICK g : g = Put(mem.free_space, c, pos)
        OBVIOUS
      <4>3. /\ mem' = [index_offsets |-> mem.index_offsets,
                       free_space |-> g, file_end_offset_ |-> mem.file_end_offset_]
            /\ mem'.index_offsets = mem.index_offsets
            /\ mem'.free_space = g
        <5>1. [mem.index_offsets EXCEPT ![at] = mem.index_offsets[at]] = mem.index_offsets
          BY MemFields
        <5>2. QED
          BY <1>11, <3>2, <3>6, <4>1, <4>2, <5>1, MemFields DEF First!RecycleKV_Data, Put
      <4>4. /\ g \in [First!Chunks -> Seq(Offsets)] /\ Separate(g)
            /\ \A d \in First!Chunks : \A x :
                 InQueue(g, d, x) <=> InQueue(mem.free_space, d, x) \/ (d = c /\ x = pos)
        <5>1. PICK f \in [First!Chunks -> Seq(Offsets)] : f = mem.free_space
          BY MemFields
        <5>2. Separate(f) /\ ~InQueue(f, c, pos) /\ g = Put(f, c, pos)
          BY <1>7, <2>2, <4>2, <5>1
        <5>3. QED
          BY <1>4, <5>1, <5>2, Pushed
      <4>5. /\ \A p \in Positions : (Used(p)' <=> Used(p)) /\ (Used(p) => KeyAt(p)' = KeyAt(p))
            /\ \A h : HasEntry(h)' <=> HasEntry(h)
            /\ \A x : Indexed(x)' <=> Indexed(x)
            /\ FirstIndexInv'
        BY <1>1, <4>3, EntriesStay
      <4>6. \A x : Queued(x)' <=> Queued(x) \/ x = pos
        BY <4>3, <4>4 DEF Queued
      <4>7. mem' \in [index_offsets : [Positions -> Offsets \cup {First!EMPTY}],
                      free_space : [First!Chunks -> Seq(Offsets)], file_end_offset_ : Offsets]
        BY <4>3, <4>4, MemFields
      <4>8. \A x \in S : (Indexed(x)' \/ Queued(x)') /\ ~(Indexed(x)' /\ Queued(x)')
        BY <1>7, <1>8, <1>14, <4>5, <4>6
      <4>9. ghost[k].sets < CntMod => Leads(old, k, S)
        <5>1. disk[old].cnt \in Int /\ disk[pos].cnt \in Int
          BY <1>4, <1>12, <3>4
        <5>2. disk[pos].cnt <= disk[old].cnt
          <6>1. ~(disk[pos].cnt > disk[old].cnt)
            BY <1>10, <3>2, <3>6, Zenon
          <6>2. QED
            BY <5>1, <6>1
        <5>3. QED
          BY <1>14, <3>3, <5>2 DEF Leads
      <4>10. ASSUME NEW h \in Keys, ghost[h].sets < CntMod, NEW p \in Positions, Used(p)', KeyAt(p)' = h
             PROVE  Leads(mem'.index_offsets[p], h, S)
        <5>1. Used(p) /\ KeyAt(p) = h
          BY <4>5, <4>10
        <5>2. CASE h = k
          <6>1. p = at
            BY <3>1, <5>1, <5>2 DEF FirstInv, FirstIndexInv
          <6>2. QED
            BY <1>10, <4>3, <4>9, <4>10, <5>2, <6>1
        <5>3. CASE h # k
          BY <1>13, <2>1, <4>3, <4>10, <5>1, <5>3
        <5>4. QED
          BY <5>2, <5>3
      <4>11. \A p \in Positions : Used(p)' => mem'.index_offsets[p] \in S
        BY <1>14, <2>3, <4>3, <4>5
      <4>12. \A d \in First!Chunks, x \in Offsets :
               InQueue(mem'.free_space, d, x) => x \in S /\ disk[x].chunk = d
        BY <1>14, <2>2, <4>1, <4>3, <4>4
      <4>13. \A h : HasEntry(h)' <=> HasEntry(h) \/ h = k
        BY <2>5, <4>5
      <4>14. QED
        BY <4>3, <4>4, <4>5, <4>7, <4>8, <4>10, <4>11, <4>12, <4>13
    <3>7. QED
      BY <3>5, <3>6
  <2>6. QED
    BY <2>4, <2>5
<1>15. PICK S : S = Known' /\ \A x : x \in S <=> x \in Known \/ x = pos
  BY <1>6
<1>16. FirstTyped'
  <2>1. client' \in [op : {"idle", "open", "write", "recycle", "index"},
                 key : Keys \cup {Nothing}, value : FirstValues \cup {Nothing},
                 old : Offsets \cup {First!EMPTY}, hash_pos : Positions,
                 cnt : 0..CntMod - 1, new : Offsets \cup {First!EMPTY}]
    BY <1>1, <1>4 DEF FirstInv, FirstTyped
  <2>2. QED
    BY <1>1, <1>5, <1>14, <1>15, <2>1 DEF FirstInv, FirstTyped
<1>17. LayoutInv'
  BY <1>1, <1>3, <1>4, <1>5, ItemsStay DEF LayoutInv
<1>18. FirstOwnInv'
  BY <1>1, <1>5, <1>14, <1>15 DEF FirstOwnInv
<1>19. FirstSetInv'
  BY <1>5 DEF FirstSetInv
<1>20. FirstCovered'
  <2>1. \A x \in S : HasEntry(disk[x].key) \/ disk[x].key = k
    BY <1>1, <1>15 DEF FirstInv, FirstCovered
  <2>2. \A h : HasEntry(h)' <=> HasEntry(h) \/ h = k
    BY <1>14, <1>15
  <2>3. QED
    BY <1>1, <1>15, <2>1, <2>2 DEF FirstCovered
<1>21. FirstLatestInv'
  <2>1. \A h \in Keys : ghost[h].sets < CntMod =>
          \A p \in Positions : Used(p)' /\ KeyAt(p)' = h => Leads(mem'.index_offsets[p], h, S)
    BY <1>14, <1>15
  <2>2. \A h \in Keys : ghost[h].sets < CntMod =>
          \A p \in Positions : Used(p)' /\ KeyAt(p)' = h => Leads(mem.index_offsets[p], h, Known)'
    BY <1>1, <1>15, <2>1 DEF Leads
  <2>3. Items' = Items /\ \A x, h : Leads(x, h, Items)' <=> Leads(x, h, Items)
    BY <1>1 DEF Items, Leads
  <2>4. QED
    BY <1>1, <1>5, <2>2, <2>3 DEF FirstInv, FirstLatestInv, FirstLatest
<1>22. QED
  BY <1>14, <1>15, <1>16, <1>17, <1>18, <1>19, <1>20, <1>21 DEF FirstInv

(* A file that is new has no items.                                        *)
LEMMA FirstStarts ==
  ASSUME First!Init
  PROVE  FirstInv
<1>1. /\ disk = [o \in Offsets |-> First!Blank] /\ mem = First!Fresh /\ client = First!Opening
      /\ ghost = [k \in Keys |-> [sets |-> 0, latest |-> NotFound]]
  BY DEF First!Init, Offsets
<1>2. client.op = "open" /\ client.new = 0 /\ ~Setting
  BY <1>1, IdleTyped DEF Setting
<1>3. /\ \A p \in Positions : ~Used(p)
      /\ \A c \in First!Chunks : \A x : ~InQueue(mem.free_space, c, x)
      /\ Separate(mem.free_space)
      /\ mem \in [index_offsets : [Positions -> Offsets \cup {First!EMPTY}],
                  free_space : [First!Chunks -> Seq(Offsets)], file_end_offset_ : Offsets]
  <2>1. mem = [index_offsets |-> [p \in Positions |-> First!EMPTY],
               free_space |-> [c \in First!Chunks |-> <<>>], file_end_offset_ |-> 0]
    BY <1>1 DEF First!Fresh, Positions
  <2>2. /\ \A p \in Positions : mem.index_offsets[p] = First!EMPTY
        /\ \A c \in First!Chunks : mem.free_space[c] = <<>>
    BY <2>1
  <2>3. 1..Len(<<>>) = {}
    OBVIOUS
  <2>4. <<>> \in Seq(Offsets) /\ 0 \in Offsets
    BY Places
  <2>5. /\ \A c \in First!Chunks : \A x : ~InQueue(mem.free_space, c, x)
        /\ Separate(mem.free_space)
    BY <2>2, <2>3 DEF InQueue, Separate
  <2>6. QED
    BY <2>1, <2>2, <2>4, <2>5 DEF Used
<1>4. Items = {} /\ Known = {}
  BY <1>1 DEF Items, Known
<1>5. FirstTyped
  <2>1. client \in [op : {"idle", "open", "write", "recycle", "index"},
                key : Keys \cup {Nothing}, value : FirstValues \cup {Nothing},
                old : Offsets \cup {First!EMPTY}, hash_pos : Positions,
                cnt : 0..CntMod - 1, new : Offsets \cup {First!EMPTY}]
    BY <1>1, IdleTyped, Places
  <2>2. ghost \in [Keys -> [sets : Nat, latest : FirstValues \cup {NotFound}]]
    BY <1>1
  <2>3. disk \in [Offsets -> Records \cup {First!Blank}]
    BY <1>1
  <2>4. QED
    BY <1>2, <1>3, <2>1, <2>2, <2>3 DEF FirstTyped
<1>6. LayoutInv
  BY <1>2, <1>4, Places DEF LayoutInv, SideBySide
<1>7. FirstOwnInv /\ FirstIndexInv /\ FirstSetInv /\ FirstCovered
  BY <1>2, <1>3, <1>4 DEF FirstOwnInv, FirstIndexInv, FirstSetInv, FirstCovered
<1>8. FirstLatestInv
  <2>1. \A k \in Keys : ghost[k].sets = 0 /\ ghost[k].latest = NotFound
    BY <1>1
  <2>2. QED
    BY <1>2, <1>3, <1>4, <2>1 DEF FirstLatestInv, FirstLatest
<1>9. QED
  BY <1>5, <1>6, <1>7, <1>8 DEF FirstInv

(* Every step keeps the invariant.                                         *)
LEMMA FirstSteps ==
  ASSUME FirstInv, First!Next
  PROVE  FirstInv'
<1>1. CASE \E k \in Keys, v \in FirstValues : First!Set(k, v)
  BY <1>1, SetKeeps
<1>2. CASE First!Write
  BY <1>2, WriteKeeps
<1>3. CASE First!Recycle
  BY <1>3, RecycleKeeps
<1>4. CASE First!Index
  BY <1>4, IndexKeeps
<1>5. CASE \E k \in Keys : First!Get(k)
  <2>1. disk' = disk /\ mem' = mem /\ client' = client /\ ghost' = ghost
    BY <1>5 DEF First!Get
  <2>2. QED
    BY <2>1, SameKeeps
<1>6. CASE First!Stop
  BY <1>6, StopKeeps
<1>7. CASE First!RecoverItem
  BY <1>7, RecoverItemKeeps
<1>8. CASE First!RecoverEnd
  BY <1>8, RecoverEndKeeps
<1>9. QED
  BY <1>1, <1>2, <1>3, <1>4, <1>5, <1>6, <1>7, <1>8 DEF First!Next

(* The invariant holds of nvm_engine always.                               *)
LEMMA FirstAlways == Spec => [](engine = "nvm_engine" => FirstInv)
<1> DEFINE Inv == engine = "nvm_engine" => FirstInv
<1>1. Init => Inv
  BY FirstStarts DEF Init
<1>2. Inv /\ [Next]_vars => Inv'
  <2> SUFFICES ASSUME Inv, [Next]_vars, engine' = "nvm_engine"
               PROVE  FirstInv'
    OBVIOUS
  <2>1. engine = "nvm_engine" /\ FirstInv
    BY DEF Next, vars
  <2>2. CASE Next
    <3>1. First!Next
      BY <2>1, <2>2 DEF Next, FirstStep, P7Step, PeipeiStep, PatenStep, LatestStep, ExampleStep
    <3>2. QED
      BY <2>1, <3>1, FirstSteps
  <2>3. CASE UNCHANGED vars
    BY <2>1, <2>3, SameKeeps DEF vars, state
  <2>4. QED
    BY <2>2, <2>3
<1>3. QED
  BY <1>1, <1>2, PTL DEF Spec

(* A search finds the item of its key with the greatest count, or nothing  *)
(* if there is no item of the key.                                         *)
LEMMA FirstAnswers ==
  ASSUME FirstInv, client.op = "idle"
  PROVE  First!KeepsTheLatest
<1> SUFFICES ASSUME NEW k \in Keys, ghost[k].sets < CntMod
             PROVE  First!Answer(k) = ghost[k].latest
  BY DEF First!KeepsTheLatest
<1>1. Known = Items /\ FirstLatest(k) /\ ghost[k].sets \in Nat
  BY DEF Known, FirstInv, FirstLatestInv, FirstTyped
<1>2. CASE HasEntry(k)
  <2>1. PICK p \in Positions : Used(p) /\ KeyAt(p) = k
    BY <1>2 DEF HasEntry
  <2>2. PICK o : o = mem.index_offsets[p] /\ o # First!EMPTY /\ o \in Items /\ Leads(o, k, Items)
    BY <1>1, <2>1, UsedItems DEF FirstLatest, Used
  <2>3. ghost[k].sets > 0
    BY <1>1, <2>2 DEF FirstLatest, Leads
  <2>4. disk[o].value = ghost[k].latest
    BY <1>1, <2>2, <2>3 DEF FirstLatest
  <2>5. First!get(k) = p
    BY <2>1, GetFinds
  <2>6. QED
    BY <2>2, <2>4, <2>5 DEF First!Answer
<1>3. CASE ~HasEntry(k)
  <2>1. \A o \in Items : disk[o].key # k
    BY <1>1, <1>3 DEF FirstInv, FirstCovered
  <2>2. ghost[k].sets = 0
    BY <1>1, <2>1 DEF FirstLatest, Leads
  <2>3. mem.index_offsets[First!get(k)] = First!EMPTY
    BY <1>3, GetMisses DEF Used
  <2>4. QED
    BY <1>1, <2>2, <2>3 DEF First!Answer, FirstLatest
<1>4. QED
  BY <1>2, <1>3

(* nvm_engine: as long as its one-byte count has not wrapped, a key has    *)
(* the value of its last record, over any Sets, kills between the steps of *)
(* a Set and recoveries.                                                   *)
THEOREM FirstKeepsTheLatestAlways == Spec => []FirstKeepsTheLatest
<1>1. (engine = "nvm_engine" => FirstInv) => FirstKeepsTheLatest
  BY FirstAnswers DEF FirstKeepsTheLatest, First!KeepsTheLatest
<1>2. QED
  BY <1>1, FirstAlways, PTL

(* Between two Sets every item is in one place of the index or in one of   *)
(* the queue of its chunk, and not in both.                                *)
LEMMA FirstOwned ==
  ASSUME FirstInv, client.op = "idle"
  PROVE  First!ItemsOwnedOnce
<1> DEFINE indexed(o) == {p \in 0..Slots - 1 : mem.index_offsets[p] = o}
           queued(o) == UNION {{<<c, i>> : i \in {j \in DOMAIN mem.free_space[c] :
                                                    mem.free_space[c][j] = o}} : c \in First!Chunks}
           Once(S) == \E x \in S : S = {x}
           Is(o) == \/ Once(indexed(o)) /\ queued(o) = {}
                    \/ indexed(o) = {} /\ Once(queued(o)) /\ \A q \in queued(o) : q[1] = disk[o].chunk
<1>1. ASSUME NEW o \in Items
      PROVE  Is(o)
  <2>1. Known = Items /\ o \in Offsets /\ o # First!EMPTY
    BY <1>1, Places DEF Known, Items
  <2>2. (Indexed(o) \/ Queued(o)) /\ ~(Indexed(o) /\ Queued(o))
    BY <1>1, <2>1 DEF FirstInv, FirstOwnInv, Setting
  <2>3. \A c \in First!Chunks : DOMAIN mem.free_space[c] = 1..Len(mem.free_space[c])
    BY MemFields
  <2>4. \A q : q \in queued(o) <=>
          \E c \in First!Chunks : \E i \in 1..Len(mem.free_space[c]) : q = <<c, i>> /\ mem.free_space[c][i] = o
    BY <2>3
  <2>5. CASE Indexed(o)
    <3>1. PICK p \in Positions : mem.index_offsets[p] = o
      BY <2>5 DEF Indexed
    <3>2. \A q \in Positions : mem.index_offsets[q] = o => q = p
      BY <2>1, <3>1 DEF FirstInv, FirstIndexInv, Used, KeyAt
    <3>3. indexed(o) = {p}
      BY <3>1, <3>2 DEF Positions
    <3>4. queued(o) = {}
      BY <2>2, <2>4, <2>5 DEF Queued, InQueue
    <3>5. QED
      BY <3>3, <3>4
  <2>6. CASE Queued(o)
    <3>1. PICK c \in First!Chunks : InQueue(mem.free_space, c, o)
      BY <2>6 DEF Queued
    <3>2. PICK i \in 1..Len(mem.free_space[c]) : mem.free_space[c][i] = o
      BY <3>1 DEF InQueue
    <3>3. \A d \in First!Chunks : InQueue(mem.free_space, d, o) => d = disk[o].chunk
      BY <2>1 DEF FirstInv, FirstOwnInv
    <3>4. c = disk[o].chunk /\ \A j \in 1..Len(mem.free_space[c]) : mem.free_space[c][j] = o => j = i
      BY <3>1, <3>2, <3>3 DEF FirstInv, FirstOwnInv, Separate
    <3>5. \A q : q \in queued(o) <=> q = <<c, i>>
      BY <2>4, <3>2, <3>3, <3>4 DEF InQueue
    <3>6. queued(o) = {<<c, i>>}
      BY <3>5
    <3>7. indexed(o) = {}
      BY <2>2, <2>6 DEF Indexed, Positions
    <3>8. <<c, i>>[1] = disk[o].chunk
      BY <3>4
    <3>9. \A q \in queued(o) : q[1] = disk[o].chunk
      BY <3>6, <3>8
    <3>10. QED
      BY <3>6, <3>7, <3>9
  <2>7. QED
    BY <2>2, <2>5, <2>6
<1>2. \A o \in {x \in First!Offsets : disk[x] # First!Blank} : Is(o)
  BY <1>1 DEF Items, Offsets
<1>3. QED
  BY <1>2 DEF First!ItemsOwnedOnce

(* nvm_engine: no item is lost, in two places or in the queue of another   *)
(* chunk between two Sets, whatever was killed and recovered before.       *)
THEOREM FirstItemsStayOwned == Spec => []FirstItemsOwnedOnce
<1>1. (engine = "nvm_engine" => FirstInv) => FirstItemsOwnedOnce
  BY FirstOwned DEF FirstItemsOwnedOnce, First!ItemsOwnedOnce
<1>2. QED
  BY <1>1, FirstAlways, PTL

------------------------------------------------------------------------------
(* nvm_engine_paten                                                        *)

Writes == {"reserve", "data", "index", "insert"}
Files == Paten!Files
Indexes == [file : Files, off : Nat, value : Nat, right : BOOLEAN]
Clients == ghost.workload.clients

PatenTyped ==
  /\ disk \in [data : [Files -> Seq(Keys \X Nat)], index : [Files -> Seq(Keys \X Indexes)]]
  /\ mem \in [cursor_ : Files, tables : [Keys -> Indexes \cup {Nothing}],
              replay : (Files \X Nat) \cup {Nothing}, data : [Files -> Nat], index : [Files -> Nat]]
  /\ client \in [Threads -> [op : Writes \cup {"idle"}, key : Keys \cup {Nothing}, value : Nat,
                             file : Files, off : Nat, right : BOOLEAN]]
  /\ ghost \in [sets : Nat, returned : SUBSET Keys, workload : Workloads]

(* Only clients call, and not before the engine is open.                   *)
CallersInv ==
  \A t \in Threads : client[t].op \in Writes => t \in Clients /\ client[t].key \in Keys /\ ~Paten!Recovering

(* Records can go elsewhere than their place: a write can fail, or two     *)
(* clients can append in another order than they reserved.                 *)
Unordered == ghost.workload.fails \/ \E t, u \in Clients : t # u

(* An Index leads to the value of its Set, unless the record went          *)
(* elsewhere.                                                              *)
LeadsRight(k, at) ==
  /\ at.right => at.off < Len(disk.data[at.file]) /\ disk.data[at.file][at.off + 1] = <<k, at.value>>
  /\ ~at.right => Unordered

IndexesInv ==
  /\ \A k \in Keys : mem.tables[k] # Nothing => LeadsRight(k, mem.tables[k])
  /\ \A f \in Files : \A i \in 1..Len(disk.index[f]) : LeadsRight(disk.index[f][i][1], disk.index[f][i][2])
  /\ \A t \in Threads : client[t].op \in {"index", "insert"} => LeadsRight(client[t].key, Paten!Index(client[t]))

(* A client alone has reserved no place but its own, and it is the next.   *)
PlacesInv ==
  ~Unordered =>
    \A f \in Files :
      \/ mem.data[f] = Len(disk.data[f]) /\ \A t \in Threads : client[t].op = "data" => client[t].file # f
      \/ \E t \in Threads : /\ client[t].op = "data" /\ client[t].file = f
                            /\ client[t].off = Len(disk.data[f]) /\ mem.data[f] = client[t].off + 1

(* What returned is in an index file, and recovery finds it there.         *)
InFile(k) == \E f \in Files : \E i \in 1..Len(disk.index[f]) : disk.index[f][i][1] = k
Replayed(f, i) == f < mem.replay[1] \/ (f = mem.replay[1] /\ i <= mem.replay[2])
KeptInv ==
  /\ \A k \in ghost.returned : InFile(k)
  /\ \A t \in Threads : client[t].op = "insert" => InFile(client[t].key)
  /\ ~Paten!Recovering => \A k \in ghost.returned : mem.tables[k] # Nothing
  /\ Paten!Recovering =>
       \A f \in Files : \A i \in 1..Len(disk.index[f]) :
         Replayed(f, i) => mem.tables[disk.index[f][i][1]] # Nothing

PatenInv == PatenTyped /\ CallersInv /\ IndexesInv /\ PlacesInv /\ KeptInv

------------------------------------------------------------------------------
(* No step takes from a data file.                                         *)
DataStays ==
  /\ \A f \in Files : /\ Len(disk.data[f]) <= Len(disk'.data[f])
                      /\ \A i \in 1..Len(disk.data[f]) : disk'.data[f][i] = disk.data[f][i]
  /\ ghost'.workload = ghost.workload

(* The parts of a state have their types.                                  *)
PatenParts ==
  /\ disk.data \in [Files -> Seq(Keys \X Nat)] /\ disk.index \in [Files -> Seq(Keys \X Indexes)]
  /\ \A f \in Files : Len(disk.data[f]) \in Nat /\ Len(disk.index[f]) \in Nat
  /\ \A f \in Files : \A i \in 1..Len(disk.index[f]) :
       disk.index[f][i][1] \in Keys /\ disk.index[f][i][2] \in Indexes
  /\ mem.tables \in [Keys -> Indexes \cup {Nothing}] /\ mem.data \in [Files -> Nat]
  /\ mem.index \in [Files -> Nat] /\ mem.cursor_ \in Files
  /\ mem.replay \in (Files \X Nat) \cup {Nothing}
  /\ \A t \in Threads : /\ client[t].op \in Writes \cup {"idle"} /\ client[t].file \in Files
                        /\ client[t].off \in Nat /\ client[t].value \in Nat
                        /\ client[t].right \in BOOLEAN /\ client[t].key \in Keys \cup {Nothing}
                        /\ Paten!Index(client[t]) \in Indexes
  /\ Clients \subseteq Threads /\ ghost.workload \in Workloads
  /\ Nothing \notin Indexes /\ Nothing \notin Files \X Nat /\ Nothing \notin Keys

(* A state of these types has parts of these types.                        *)
LEMMA PatenFields == PatenTyped => PatenParts
<1> SUFFICES ASSUME PatenTyped
             PROVE  PatenParts
  OBVIOUS
<1>1. /\ disk.data \in [Files -> Seq(Keys \X Nat)] /\ disk.index \in [Files -> Seq(Keys \X Indexes)]
      /\ mem.tables \in [Keys -> Indexes \cup {Nothing}] /\ mem.data \in [Files -> Nat]
      /\ mem.index \in [Files -> Nat] /\ mem.cursor_ \in Files
      /\ mem.replay \in (Files \X Nat) \cup {Nothing}
      /\ ghost.workload \in Workloads
  BY DEF PatenTyped
<1>2. \A t \in Threads : /\ client[t].op \in Writes \cup {"idle"} /\ client[t].file \in Files
                         /\ client[t].off \in Nat /\ client[t].value \in Nat
                         /\ client[t].right \in BOOLEAN /\ client[t].key \in Keys \cup {Nothing}
  BY DEF PatenTyped
<1>3. \A t \in Threads : Paten!Index(client[t]) \in Indexes
  BY <1>2 DEF Paten!Index, Indexes
<1>4. Clients \subseteq Threads
  BY <1>1, PatenAssumption DEF Clients
<1>5. Nothing \notin Indexes /\ Nothing \notin Files \X Nat /\ Nothing \notin Keys
  <2>1. \A f \in Files : f \in Nat
    BY PatenAssumption DEF Files, Paten!Files
  <2>2. Nothing \notin Indexes
    BY PatenAssumption DEF Indexes, Files, Paten!Files
  <2>3. Nothing \notin Files \X Nat
    BY <2>1, PatenAssumption
  <2>4. QED
    BY <2>2, <2>3, EnginesAssumption
<1>6. \A f \in Files : Len(disk.data[f]) \in Nat /\ Len(disk.index[f]) \in Nat
  BY <1>1
<1>7. \A f \in Files : \A i \in 1..Len(disk.index[f]) :
        disk.index[f][i][1] \in Keys /\ disk.index[f][i][2] \in Indexes
  BY <1>1
<1>8. QED
  BY <1>1, <1>2, <1>3, <1>4, <1>5, <1>6, <1>7 DEF PatenParts

(* An Index leads where it led.                                            *)
LEMMA LeadsOn ==
  ASSUME PatenTyped, PatenTyped', DataStays, NEW k, NEW at \in Indexes, LeadsRight(k, at)
  PROVE  LeadsRight(k, at)'
<1>1. at.file \in Files /\ at.off \in Nat /\ Len(disk.data[at.file]) \in Nat
  BY PatenFields DEF PatenParts, Indexes
<1>2. Len(disk'.data[at.file]) \in Nat
  <2>1. (PatenTyped => PatenParts)'
    BY PatenFields, PTL
  <2>2. QED
    BY <1>1, <2>1 DEF PatenParts
<1>3. Unordered' <=> Unordered
  BY DEF DataStays, Unordered, Clients
<1>4. ASSUME at.right
      PROVE  at.off < Len(disk'.data[at.file]) /\ disk'.data[at.file][at.off + 1] = <<k, at.value>>
  <2>1. /\ at.off < Len(disk.data[at.file]) /\ disk.data[at.file][at.off + 1] = <<k, at.value>>
        /\ Len(disk.data[at.file]) <= Len(disk'.data[at.file])
        /\ \A i \in 1..Len(disk.data[at.file]) : disk'.data[at.file][i] = disk.data[at.file][i]
    BY <1>1, <1>4 DEF LeadsRight, DataStays
  <2>2. at.off + 1 \in 1..Len(disk.data[at.file]) /\ at.off < Len(disk'.data[at.file])
    <3>1. PICK o \in Nat, l \in Nat, m \in Nat :
            o = at.off /\ l = Len(disk.data[at.file]) /\ m = Len(disk'.data[at.file])
      BY <1>1, <1>2
    <3>2. o < l /\ l <= m
      BY <2>1, <3>1
    <3>3. o + 1 \in 1..l /\ o < m
      BY <3>2
    <3>4. QED
      BY <3>1, <3>3
  <2>3. QED
    BY <2>1, <2>2
<1>5. QED
  BY <1>3, <1>4 DEF LeadsRight

(* A step keeps IndexesInv if the Indexes it leaves are old ones, or lead  *)
(* right before it already.                                                *)
LEMMA IndexesStay ==
  ASSUME PatenTyped, PatenTyped', DataStays,
         \A k \in Keys : mem'.tables[k] # Nothing => LeadsRight(k, mem'.tables[k]),
         \A f \in Files : \A i \in 1..Len(disk'.index[f]) :
           LeadsRight(disk'.index[f][i][1], disk'.index[f][i][2]),
         \A t \in Threads : client'[t].op \in {"index", "insert"} =>
           LeadsRight(client'[t].key, Paten!Index(client'[t]))
  PROVE  IndexesInv'
<1>1. \A k : \A at \in Indexes : LeadsRight(k, at) => LeadsRight(k, at)'
  BY LeadsOn
<1>2. /\ mem'.tables \in [Keys -> Indexes \cup {Nothing}]
      /\ \A f \in Files : \A i \in 1..Len(disk'.index[f]) :
           disk'.index[f][i][1] \in Keys /\ disk'.index[f][i][2] \in Indexes
      /\ \A t \in Threads : Paten!Index(client'[t]) \in Indexes
  <2>1. (PatenTyped => PatenParts)'
    BY PatenFields, PTL
  <2>2. QED
    BY <2>1 DEF PatenParts
<1>3. ASSUME NEW k \in Keys, mem'.tables[k] # Nothing
      PROVE  LeadsRight(k, mem.tables[k])'
  <2>1. PICK at \in Indexes : at = mem'.tables[k]
    BY <1>2, <1>3
  <2>2. LeadsRight(k, at)'
    BY <1>1, <1>3, <2>1
  <2>3. QED
    BY <2>1, <2>2
<1>4. ASSUME NEW f \in Files, NEW i \in 1..Len(disk'.index[f])
      PROVE  LeadsRight(disk.index[f][i][1], disk.index[f][i][2])'
  <2>1. PICK k \in Keys, at \in Indexes : k = disk'.index[f][i][1] /\ at = disk'.index[f][i][2]
    BY <1>2, <1>4
  <2>2. LeadsRight(k, at)'
    BY <1>1, <1>4, <2>1
  <2>3. QED
    BY <2>1, <2>2
<1>5. ASSUME NEW t \in Threads, client'[t].op \in {"index", "insert"}
      PROVE  LeadsRight(client[t].key, Paten!Index(client[t]))'
  <2>1. PICK k : k = client'[t].key
    OBVIOUS
  <2>3. PICK at \in Indexes : at = Paten!Index(client'[t])
    BY <1>2, <1>5
  <2>2. LeadsRight(k, at)'
    BY <1>1, <1>5, <2>1, <2>3
  <2>4. QED
    BY <2>1, <2>2, <2>3
<1>6. QED
  BY <1>3, <1>4, <1>5 DEF IndexesInv

(* Steps that store nothing keep what is in the files.                     *)
LEMMA SameFiles ==
  ASSUME PatenTyped, disk' = disk, ghost'.workload = ghost.workload
  PROVE  /\ DataStays
         /\ \A k : InFile(k)' <=> InFile(k)
BY PatenFields DEF PatenParts, DataStays, InFile

(* What is kept stays when neither the index files nor the tables change.  *)
LEMMA KeptStays ==
  ASSUME PatenTyped, KeptInv, disk' = disk, ghost'.workload = ghost.workload,
         ghost'.returned = ghost.returned, mem'.tables = mem.tables, mem'.replay = mem.replay,
         \A u \in Threads : client'[u].op = "insert" => client'[u] = client[u]
  PROVE  KeptInv'
<1>1. \A k : InFile(k)' <=> InFile(k)
  BY SameFiles
<1>2. \A u \in Threads : client'[u].op = "insert" => InFile(client[u].key)' /\ client'[u] = client[u]
  <2>1. ASSUME NEW u \in Threads, client'[u].op = "insert"
        PROVE  InFile(client'[u].key)
    BY <2>1 DEF KeptInv
  <2>2. \A u \in Threads : client'[u].op = "insert" => \E k : k = client'[u].key /\ InFile(k)
    BY <2>1
  <2>3. QED
    BY <1>1, <2>2
<1>3. QED
  BY <1>1, <1>2 DEF KeptInv, Replayed, Paten!Recovering

(* The call of a Set that begins.                                          *)
LEMMA PatenCalls ==
  ASSUME NEW k \in Keys, NEW v \in Nat, NEW f \in Files
  PROVE  /\ [Paten!Idle EXCEPT !.op = "reserve", !.key = k, !.value = v, !.file = f]
              \in [op : Writes \cup {"idle"}, key : Keys \cup {Nothing}, value : Nat,
                   file : Files, off : Nat, right : BOOLEAN]
         /\ [Paten!Idle EXCEPT !.op = "reserve", !.key = k, !.value = v, !.file = f].op = "reserve"
         /\ [Paten!Idle EXCEPT !.op = "reserve", !.key = k, !.value = v, !.file = f].key = k
<1> DEFINE c == [Paten!Idle EXCEPT !.op = "reserve", !.key = k, !.value = v, !.file = f]
           e1 == [Paten!Idle EXCEPT !.op = "reserve"]
           e2 == [e1 EXCEPT !.key = k]
           e3 == [e2 EXCEPT !.value = v]
           e4 == [e3 EXCEPT !.file = f]
<1>1. c = e4
  OBVIOUS
<1>2. e1 \in [op : {"reserve"}, key : {Nothing}, value : {0}, file : {0}, off : {0}, right : {TRUE}]
  BY DEF Paten!Idle
<1> HIDE DEF e1
<1>3. e2 \in [op : {"reserve"}, key : {k}, value : {0}, file : {0}, off : {0}, right : {TRUE}]
  BY <1>2
<1> HIDE DEF e2
<1>4. e3 \in [op : {"reserve"}, key : {k}, value : {v}, file : {0}, off : {0}, right : {TRUE}]
  BY <1>3
<1> HIDE DEF e3
<1>5. e4 \in [op : {"reserve"}, key : {k}, value : {v}, file : {f}, off : {0}, right : {TRUE}]
  BY <1>4
<1> HIDE DEF e4, c
<1>6. c \in [op : {"reserve"}, key : {k}, value : {v}, file : {f}, off : {0}, right : {TRUE}]
  BY <1>1, <1>5
<1>7. /\ c \in [op : Writes \cup {"idle"}, key : Keys \cup {Nothing}, value : Nat,
               file : Files, off : Nat, right : BOOLEAN]
      /\ c.op = "reserve" /\ c.key = k
  <2>1. /\ {"reserve"} \subseteq Writes \cup {"idle"} /\ {k} \subseteq Keys \cup {Nothing} /\ {v} \subseteq Nat
        /\ {f} \subseteq Files /\ {0} \subseteq Nat /\ {TRUE} \subseteq BOOLEAN
    BY DEF Writes
  <2>2. c.op = "reserve" /\ c.key = k
    BY <1>6
  <2>3. QED
    BY ONLY <1>6, <2>1, <2>2
<1>8. QED
  BY <1>7 DEF c

(* A Set begins.                                                           *)
LEMMA PatenSetKeeps ==
  ASSUME PatenInv, NEW t \in Threads, NEW k \in Keys, Paten!Set(t, k)
  PROVE  PatenInv'
<1> DEFINE c == [Paten!Idle EXCEPT !.op = "reserve", !.key = k, !.value = ghost.sets + 1, !.file = mem.cursor_]
<1>1. /\ ~Paten!Recovering /\ t \in Clients /\ client[t].op = "idle" /\ disk' = disk
      /\ client' = [client EXCEPT ![t] = c]
      /\ mem' = [mem EXCEPT !.cursor_ = (@ + 1) % MaxFile]
      /\ ghost' = [ghost EXCEPT !.sets = @ + 1]
  BY DEF Paten!Set, Clients
<1>2. PatenTyped /\ CallersInv /\ IndexesInv /\ PlacesInv /\ KeptInv
  BY DEF PatenInv
<1>3. mem.cursor_ \in Files /\ mem.cursor_ \in Nat /\ (mem.cursor_ + 1) % MaxFile \in Files /\ ghost.sets \in Nat
  <2>1. PICK n \in Files : n = mem.cursor_
    BY <1>2, PatenFields DEF PatenParts
  <2>2. MaxFile \in Nat \ {0} /\ Files = 0..MaxFile - 1
    BY PatenAssumption DEF Files, Paten!Files
  <2>3. n \in Nat /\ (n + 1) % MaxFile \in 0..MaxFile - 1
    BY <2>2
  <2>4. ghost.sets \in Nat
    BY <1>2 DEF PatenTyped
  <2>5. QED
    BY <2>1, <2>2, <2>3, <2>4
<1>4. /\ c \in [op : Writes \cup {"idle"}, key : Keys \cup {Nothing}, value : Nat,
               file : Files, off : Nat, right : BOOLEAN]
      /\ c.op = "reserve" /\ c.key = k
  <2>1. ghost.sets + 1 \in Nat
    BY <1>3
  <2>2. QED
    BY <1>3, <2>1, PatenCalls
<1> HIDE DEF c
<1>5. /\ mem'.tables = mem.tables /\ mem'.replay = mem.replay /\ mem'.data = mem.data
      /\ mem'.index = mem.index /\ mem'.cursor_ \in Files
      /\ mem' \in [cursor_ : {mem'.cursor_}, tables : {mem.tables}, replay : {mem.replay},
                   data : {mem.data}, index : {mem.index}]
  BY <1>1, <1>2, <1>3 DEF PatenTyped
<1>6. ghost'.workload = ghost.workload /\ ghost'.returned = ghost.returned /\ Clients' = Clients
  BY <1>1, <1>2 DEF PatenTyped, Clients
<1>7. /\ client'[t] = c /\ \A u \in Threads : u # t => client'[u] = client[u]
  BY <1>1, <1>2 DEF PatenTyped
<1>8. PatenTyped'
  <2>1. ghost' \in [sets : Nat, returned : SUBSET Keys, workload : Workloads]
    <3>1. PICK n \in Nat, r \in SUBSET Keys, w \in Workloads :
            /\ ghost = [sets |-> n, returned |-> r, workload |-> w]
            /\ n = ghost.sets
      BY <1>2 DEF PatenTyped
    <3>2. ghost' = [sets |-> n + 1, returned |-> r, workload |-> w]
      BY <1>1, <3>1
    <3>3. QED
      BY <3>2
  <2>2. mem' \in [cursor_ : Files, tables : [Keys -> Indexes \cup {Nothing}],
                 replay : (Files \X Nat) \cup {Nothing}, data : [Files -> Nat], index : [Files -> Nat]]
    BY <1>2, <1>5, PatenFields DEF PatenParts
  <2>3. QED
    BY <1>1, <1>2, <1>4, <2>1, <2>2 DEF PatenTyped
<1>9. CallersInv'
  BY <1>1, <1>2, <1>4, <1>5, <1>6, <1>7 DEF CallersInv, Paten!Recovering
<1>10. IndexesInv'
  <2>1. \A u \in Threads : client'[u].op \in {"index", "insert"} =>
           LeadsRight(client'[u].key, Paten!Index(client'[u]))
    BY <1>2, <1>4, <1>7 DEF IndexesInv
  <2>2. QED
    BY <1>1, <1>2, <1>5, <1>6, <1>8, <2>1, SameFiles, IndexesStay DEF IndexesInv
<1>11. PlacesInv'
  <2>1. Unordered' <=> Unordered
    BY <1>6 DEF Unordered
  <2>2. \A u \in Threads : client'[u].op = "data" => u # t
    BY <1>4, <1>7
  <2>3. \A u \in Threads : client[u].op = "data" => u # t
    BY <1>1
  <2>4. QED
    BY <1>1, <1>2, <1>5, <1>7, <2>1, <2>2, <2>3 DEF PlacesInv
<1>12. KeptInv'
  <2>1. \A u \in Threads : client'[u].op = "insert" => client'[u] = client[u]
    BY <1>4, <1>7
  <2>2. QED
    BY <1>1, <1>2, <1>5, <1>6, <2>1, SameFiles DEF KeptInv, Paten!Recovering
<1>13. QED
  BY <1>8, <1>9, <1>10, <1>11, <1>12 DEF PatenInv

(* What a call with its next step is.                                      *)
Calls == [op : Writes \cup {"idle"}, key : Keys \cup {Nothing}, value : Nat, file : Files, off : Nat,
          right : BOOLEAN]

(* A call moves on.                                                        *)
LEMMA CallMoves ==
  ASSUME PatenTyped, NEW t \in Threads, NEW op \in Writes
  PROVE  LET c == [client[t] EXCEPT !.op = op] IN
         /\ c \in Calls /\ c.op = op /\ c.key = client[t].key /\ c.file = client[t].file
         /\ c.off = client[t].off /\ c.value = client[t].value /\ c.right = client[t].right
<1>1. client[t] \in Calls
  BY DEF PatenTyped, Calls
<1>2. QED
  BY <1>1 DEF Calls

(* One thread's call changes and no other.                                 *)
LEMMA OneMoves ==
  ASSUME PatenTyped, NEW t \in Threads, NEW c \in Calls, client' = [client EXCEPT ![t] = c]
  PROVE  /\ client' \in [Threads -> Calls]
         /\ client'[t] = c /\ \A u \in Threads : u # t => client'[u] = client[u]
BY DEF PatenTyped, Calls

(* The place of the data is reserved.                                      *)
LEMMA ReserveDataKeeps ==
  ASSUME PatenInv, NEW t \in Threads, Paten!ReserveData(t)
  PROVE  PatenInv'
<1>1. PICK f, d : f = client[t].file /\ d = mem.data[f]
  OBVIOUS
<1> DEFINE b == [client[t] EXCEPT !.op = "data"]
           c == [b EXCEPT !.off = d]
<1>2. PatenTyped /\ CallersInv /\ IndexesInv /\ PlacesInv /\ KeptInv /\ PatenParts
  BY PatenFields DEF PatenInv
<1>3. f \in Files /\ d \in Nat /\ "data" \in Writes
  BY <1>1, <1>2 DEF PatenParts, Writes
<1>4. /\ client[t].op = "reserve" /\ client' = [client EXCEPT ![t] = c]
      /\ mem' = [mem EXCEPT !.data[f] = @ + 1] /\ disk' = disk /\ ghost' = ghost
  BY <1>1, <1>2 DEF Paten!ReserveData
<1>5. /\ b \in Calls /\ b.op = "data" /\ b.key = client[t].key /\ b.file = f
  BY <1>1, <1>2, <1>3, CallMoves
<1> HIDE DEF b
<1>6. c \in Calls /\ c.op = "data" /\ c.key = client[t].key /\ c.file = f /\ c.off = d
  BY <1>3, <1>5 DEF Calls
<1> HIDE DEF c
<1>7. /\ client' \in [Threads -> Calls]
      /\ client'[t] = c /\ \A u \in Threads : u # t => client'[u] = client[u]
  BY <1>2, <1>4, <1>6, OneMoves
<1>8. /\ mem'.tables = mem.tables /\ mem'.replay = mem.replay
      /\ mem'.data = [mem.data EXCEPT ![f] = d + 1]
      /\ mem' \in [cursor_ : {mem.cursor_}, tables : {mem.tables}, replay : {mem.replay},
                   data : {mem'.data}, index : {mem.index}]
  BY <1>1, <1>2, <1>4 DEF PatenTyped
<1>9. t \in Clients /\ client[t].key \in Keys /\ ~Paten!Recovering
  BY <1>2, <1>4 DEF CallersInv, Writes
<1>10. PatenTyped'
  <2>1. mem'.data \in [Files -> Nat]
    BY <1>2, <1>3, <1>8 DEF PatenParts
  <2>2. mem' \in [cursor_ : Files, tables : [Keys -> Indexes \cup {Nothing}],
                 replay : (Files \X Nat) \cup {Nothing}, data : [Files -> Nat], index : [Files -> Nat]]
    BY <1>2, <1>8, <2>1 DEF PatenParts
  <2>3. QED
    BY <1>2, <1>4, <1>7, <2>2 DEF PatenTyped, Calls
<1>11. CallersInv'
  BY <1>2, <1>4, <1>6, <1>7, <1>8, <1>9 DEF CallersInv, Clients, Paten!Recovering
<1>12. IndexesInv'
  <2>1. \A u \in Threads : client'[u].op \in {"index", "insert"} =>
           LeadsRight(client'[u].key, Paten!Index(client'[u]))
    BY <1>2, <1>6, <1>7 DEF IndexesInv
  <2>2. QED
    BY <1>2, <1>4, <1>8, <1>10, <2>1, SameFiles, IndexesStay DEF IndexesInv
<1>13. PlacesInv'
  <2>1. SUFFICES ASSUME ~Unordered, NEW g \in Files
                 PROVE  \/ /\ mem'.data[g] = Len(disk'.data[g])
                           /\ \A u \in Threads : client'[u].op = "data" => client'[u].file # g
                        \/ \E u \in Threads :
                             /\ client'[u].op = "data" /\ client'[u].file = g
                             /\ client'[u].off = Len(disk'.data[g]) /\ mem'.data[g] = client'[u].off + 1
    BY <1>4 DEF PlacesInv, Unordered, Clients
  <2>2. \A u \in Threads : client[u].op # "data"
    BY <1>2, <1>4, <1>9, <2>1 DEF CallersInv, Unordered, Writes
  <2>3. mem.data[g] = Len(disk.data[g])
    BY <1>2, <2>1, <2>2 DEF PlacesInv
  <2>4. CASE g = f
    BY <1>1, <1>2, <1>3, <1>4, <1>6, <1>7, <1>8, <2>3, <2>4 DEF PatenParts
  <2>5. CASE g # f
    BY <1>2, <1>4, <1>6, <1>7, <1>8, <2>2, <2>3, <2>5 DEF PatenParts
  <2>6. QED
    BY <2>4, <2>5
<1>14. KeptInv'
  <2>1. \A u \in Threads : client'[u].op = "insert" => client'[u] = client[u]
    BY <1>6, <1>7
  <2>2. QED
    BY <1>2, <1>4, <1>8, <2>1, KeptStays
<1>15. QED
  BY <1>10, <1>11, <1>12, <1>13, <1>14 DEF PatenInv

(* A file with one more record.                                            *)
LEMMA FileGrows ==
  ASSUME NEW R, NEW file \in [Files -> Seq(R)], NEW f \in Files, NEW r \in R
  PROVE  LET new == [file EXCEPT ![f] = Append(@, r)] IN
         /\ new \in [Files -> Seq(R)]
         /\ \A g \in Files : g # f => new[g] = file[g]
         /\ Len(file[f]) \in Nat /\ Len(new[f]) = Len(file[f]) + 1 /\ new[f][Len(file[f]) + 1] = r
         /\ \A g \in Files : /\ Len(file[g]) \in Nat /\ Len(file[g]) <= Len(new[g])
                             /\ \A i \in 1..Len(file[g]) : new[g][i] = file[g][i]
<1> DEFINE new == [file EXCEPT ![f] = Append(@, r)]
<1>1. PICK s \in Seq(R) : s = file[f]
  OBVIOUS
<1>2. /\ Append(s, r) \in Seq(R) /\ Len(s) \in Nat /\ Len(Append(s, r)) = Len(s) + 1
      /\ Append(s, r)[Len(s) + 1] = r /\ \A i \in 1..Len(s) : Append(s, r)[i] = s[i]
  OBVIOUS
<1>3. new[f] = Append(s, r) /\ new \in [Files -> Seq(R)] /\ \A g \in Files : g # f => new[g] = file[g]
  BY <1>1, <1>2
<1> HIDE DEF new
<1>4. \A g \in Files : Len(file[g]) \in Nat
  OBVIOUS
<1>5. \A g \in Files : /\ Len(file[g]) <= Len(new[g])
                       /\ \A i \in 1..Len(file[g]) : new[g][i] = file[g][i]
  <2>1. ASSUME NEW g \in Files
        PROVE  /\ Len(file[g]) <= Len(new[g])
               /\ \A i \in 1..Len(file[g]) : new[g][i] = file[g][i]
    <3>1. CASE g = f
      BY <1>1, <1>2, <1>3, <3>1
    <3>2. CASE g # f
      BY <1>3, <1>4, <3>2
    <3>3. QED
      BY <3>1, <3>2
  <2>2. QED
    BY <2>1
<1>6. QED
  BY <1>1, <1>2, <1>3, <1>4, <1>5 DEF new

(* The record is appended, at its place if the file ends there.            *)
LEMMA AppendDataKeeps ==
  ASSUME PatenInv, NEW t \in Threads, Paten!AppendData(t)
  PROVE  PatenInv'
<1>1. PICK f, o, k, v, l : /\ f = client[t].file /\ o = client[t].off /\ k = client[t].key
                           /\ v = client[t].value /\ l = Len(disk.data[f])
  OBVIOUS
<1> DEFINE b == [client[t] EXCEPT !.op = "index"]
           right == l = o
           c == [b EXCEPT !.right = right]
<1>2. PatenTyped /\ CallersInv /\ IndexesInv /\ PlacesInv /\ KeptInv /\ PatenParts
  BY PatenFields DEF PatenInv
<1>3. f \in Files /\ o \in Nat /\ v \in Nat /\ l \in Nat /\ "index" \in Writes
  BY <1>1, <1>2 DEF PatenParts, Writes
<1>4. /\ client[t].op = "data" /\ client' = [client EXCEPT ![t] = c]
      /\ disk' = [disk EXCEPT !.data[f] = Append(@, <<k, v>>)] /\ mem' = mem /\ ghost' = ghost
  BY <1>1, <1>2 DEF Paten!AppendData
<1>5. t \in Clients /\ k \in Keys /\ ~Paten!Recovering
  BY <1>1, <1>2, <1>4 DEF CallersInv, Writes
<1>6. /\ b \in Calls /\ b.op = "index" /\ b.key = k /\ b.file = f /\ b.off = o /\ b.value = v
  BY <1>1, <1>2, <1>3, CallMoves
<1> HIDE DEF b
<1>7. /\ c \in Calls /\ c.op = "index" /\ c.key = k /\ c.file = f /\ c.off = o /\ c.value = v
      /\ c.right = right
  <2>1. right \in BOOLEAN
    OBVIOUS
  <2> HIDE DEF right
  <2>2. QED
    BY <1>6, <2>1 DEF Calls
<1> HIDE DEF c
<1>8. /\ client' \in [Threads -> Calls]
      /\ client'[t] = c /\ \A u \in Threads : u # t => client'[u] = client[u]
  BY <1>2, <1>4, <1>7, OneMoves
<1>9. /\ disk'.index = disk.index /\ disk'.data = [disk.data EXCEPT ![f] = Append(@, <<k, v>>)]
      /\ disk' \in [data : {disk'.data}, index : {disk.index}]
  BY <1>2, <1>4 DEF PatenTyped
<1>10. /\ disk'.data \in [Files -> Seq(Keys \X Nat)]
       /\ \A g \in Files : g # f => disk'.data[g] = disk.data[g]
       /\ Len(disk'.data[f]) = l + 1 /\ disk'.data[f][l + 1] = <<k, v>>
       /\ \A g \in Files : /\ Len(disk.data[g]) <= Len(disk'.data[g])
                           /\ \A i \in 1..Len(disk.data[g]) : disk'.data[g][i] = disk.data[g][i]
  <2>1. <<k, v>> \in Keys \X Nat /\ disk.data \in [Files -> Seq(Keys \X Nat)]
    BY <1>2, <1>3, <1>5 DEF PatenParts
  <2>2. PICK file \in [Files -> Seq(Keys \X Nat)], r \in Keys \X Nat : file = disk.data /\ r = <<k, v>>
    BY <2>1
  <2>3. disk'.data = [file EXCEPT ![f] = Append(@, r)]
    BY <1>9, <2>2
  <2>4. PICK new : new = [file EXCEPT ![f] = Append(@, r)]
    OBVIOUS
  <2>5. /\ new \in [Files -> Seq(Keys \X Nat)]
        /\ \A g \in Files : g # f => new[g] = file[g]
        /\ Len(file[f]) \in Nat /\ Len(new[f]) = Len(file[f]) + 1 /\ new[f][Len(file[f]) + 1] = r
        /\ \A g \in Files : /\ Len(file[g]) \in Nat /\ Len(file[g]) <= Len(new[g])
                            /\ \A i \in 1..Len(file[g]) : new[g][i] = file[g][i]
    BY <1>3, <2>4, FileGrows
  <2>6. disk'.data = new
    BY <2>3, <2>4
  <2>7. QED
    BY ONLY <1>1, <2>2, <2>5, <2>6
<1>11. PatenTyped'
  <2>1. disk' \in [data : [Files -> Seq(Keys \X Nat)], index : [Files -> Seq(Keys \X Indexes)]]
    BY <1>2, <1>9, <1>10 DEF PatenParts
  <2>2. QED
    BY <1>2, <1>4, <1>8, <2>1 DEF PatenTyped, Calls
<1>12. CallersInv'
  BY <1>1, <1>2, <1>4, <1>5, <1>7, <1>8 DEF CallersInv, Clients, Paten!Recovering
<1>13. DataStays
  BY <1>4, <1>10 DEF DataStays
<1>14. ~Unordered => /\ l = o /\ mem.data[f] = o + 1
                     /\ \A u \in Threads : client'[u].op # "data"
                     /\ \A g \in Files : g # f => mem.data[g] = Len(disk.data[g])
  <2>1. SUFFICES ASSUME ~Unordered
                 PROVE  /\ l = o /\ mem.data[f] = o + 1
                        /\ \A u \in Threads : client'[u].op # "data"
                        /\ \A g \in Files : g # f => mem.data[g] = Len(disk.data[g])
    OBVIOUS
  <2>2. \A u \in Threads : client[u].op = "data" => u = t
    BY <1>2, <1>5, <2>1 DEF CallersInv, Unordered, Writes
  <2>3. \E u \in Threads : /\ client[u].op = "data" /\ client[u].file = f
                           /\ client[u].off = Len(disk.data[f]) /\ mem.data[f] = client[u].off + 1
    BY <1>1, <1>2, <1>3, <1>4, <2>1 DEF PlacesInv
  <2>4. l = o /\ mem.data[f] = o + 1
    BY <1>1, <2>2, <2>3
  <2>5. \A g \in Files : g # f => mem.data[g] = Len(disk.data[g])
    BY <1>1, <1>2, <2>1, <2>2 DEF PlacesInv
  <2>6. \A u \in Threads : client'[u].op # "data"
    BY <1>7, <1>8, <2>2
  <2>7. QED
    BY <2>4, <2>5, <2>6
<1>15. IndexesInv'
  <2>1. \A j : \A at \in Indexes : LeadsRight(j, at) => LeadsRight(j, at)'
    BY <1>2, <1>11, <1>13, LeadsOn
  <2>2. Unordered' <=> Unordered
    BY <1>4 DEF Unordered, Clients
  <2>3. PICK at \in Indexes : at = Paten!Index(c) /\ at = [file |-> f, off |-> o, value |-> v, right |-> right]
    BY <1>3, <1>7 DEF Indexes, Paten!Index
  <2>4. LeadsRight(k, at)'
    <3>1. at.right = (l = o)
      BY <2>3
    <3>2. at.file = f /\ at.off = o /\ at.value = v
      BY <2>3
    <3>3. l = o => o < Len(disk'.data[f]) /\ disk'.data[f][o + 1] = <<k, v>>
      BY <1>3, <1>10
    <3>4. QED
      BY <1>14, <2>2, <3>1, <3>2, <3>3 DEF LeadsRight
  <2>5. ASSUME NEW u \in Threads, client'[u].op \in {"index", "insert"}
        PROVE  LeadsRight(client[u].key, Paten!Index(client[u]))'
    <3>1. CASE u = t
      BY <1>7, <1>8, <2>3, <2>4, <3>1
    <3>2. CASE u # t
      <4>1. PICK j \in Keys \cup {Nothing}, x \in Indexes : j = client[u].key /\ x = Paten!Index(client[u])
        BY <1>2 DEF PatenParts
      <4>2. client'[u] = client[u] /\ LeadsRight(j, x)
        BY <1>2, <1>8, <2>5, <3>2, <4>1 DEF IndexesInv
      <4>3. LeadsRight(j, x)'
        BY <2>1, <4>2
      <4>4. QED
        BY <4>1, <4>2, <4>3
    <3>3. QED
      BY <3>1, <3>2
  <2>6. ASSUME NEW g \in Files, NEW i \in 1..Len(disk'.index[g])
        PROVE  LeadsRight(disk.index[g][i][1], disk.index[g][i][2])'
    <3>1. i \in 1..Len(disk.index[g])
      BY ONLY <1>9, i \in 1..Len(disk'.index[g])
    <3>2. PICK j \in Keys, x \in Indexes : j = disk.index[g][i][1] /\ x = disk.index[g][i][2]
      BY <1>2, <3>1 DEF PatenParts
    <3>3. LeadsRight(j, x)
      BY <1>2, <3>1, <3>2 DEF IndexesInv
    <3>4. LeadsRight(j, x)'
      BY <2>1, <3>3
    <3>5. QED
      BY <1>9, <3>2, <3>4
  <2>7. ASSUME NEW j \in Keys, mem'.tables[j] # Nothing
        PROVE  LeadsRight(j, mem.tables[j])'
    <3>1. PICK x \in Indexes : x = mem.tables[j] /\ LeadsRight(j, x)
      BY <1>2, <1>4, <2>7 DEF PatenParts, IndexesInv
    <3>2. LeadsRight(j, x)'
      BY <2>1, <3>1
    <3>3. QED
      BY <1>4, <3>1, <3>2
  <2>8. QED
    BY <2>5, <2>6, <2>7 DEF IndexesInv
<1>16. PlacesInv'
  <2>1. Unordered' <=> Unordered
    BY <1>4 DEF Unordered, Clients
  <2>2. ~Unordered => \A g \in Files : mem'.data[g] = Len(disk'.data[g])
    BY <1>4, <1>10, <1>14
  <2>3. QED
    BY <1>14, <2>1, <2>2 DEF PlacesInv
<1>17. KeptInv'
  <2>1. \A u \in Threads : client'[u].op = "insert" => client'[u] = client[u]
    BY <1>7, <1>8
  <2>2. \A j : InFile(j)' <=> InFile(j)
    BY <1>9 DEF InFile
  <2>3. QED
    BY <1>2, <1>4, <1>9, <2>1, <2>2 DEF KeptInv, Replayed, Paten!Recovering
<1>18. QED
  BY <1>11, <1>12, <1>15, <1>16, <1>17 DEF PatenInv

(* The Index is appended to its file.                                      *)
LEMMA AppendIndexKeeps ==
  ASSUME PatenInv, NEW t \in Threads, Paten!AppendIndex(t)
  PROVE  PatenInv'
<1>1. PICK f, k, at, l : /\ f = client[t].file /\ k = client[t].key /\ at = Paten!Index(client[t])
                         /\ l = Len(disk.index[f])
  OBVIOUS
<1> DEFINE c == [client[t] EXCEPT !.op = "insert"]
<1>2. PatenTyped /\ CallersInv /\ IndexesInv /\ PlacesInv /\ KeptInv /\ PatenParts
  BY PatenFields DEF PatenInv
<1>3. f \in Files /\ at \in Indexes /\ l \in Nat /\ "insert" \in Writes
  BY <1>1, <1>2 DEF PatenParts, Writes
<1>4. /\ client[t].op = "index" /\ client' = [client EXCEPT ![t] = c]
      /\ mem' = [mem EXCEPT !.index[f] = @ + 1]
      /\ disk' = [disk EXCEPT !.index[f] = Append(@, <<k, at>>)] /\ ghost' = ghost
  BY <1>1, <1>2 DEF Paten!AppendIndex, Paten!Goto
<1>5. t \in Clients /\ k \in Keys /\ ~Paten!Recovering /\ LeadsRight(k, at)
  BY <1>1, <1>2, <1>4 DEF CallersInv, Writes, IndexesInv
<1>6. c \in Calls /\ c.op = "insert" /\ c.key = k /\ Paten!Index(c) = at
  BY <1>1, <1>2, <1>3, CallMoves DEF Paten!Index
<1> HIDE DEF c
<1>7. /\ client' \in [Threads -> Calls]
      /\ client'[t] = c /\ \A u \in Threads : u # t => client'[u] = client[u]
  BY <1>2, <1>4, <1>6, OneMoves
<1>8. /\ mem'.tables = mem.tables /\ mem'.replay = mem.replay /\ mem'.data = mem.data
      /\ mem'.index = [mem.index EXCEPT ![f] = @ + 1]
      /\ mem' \in [cursor_ : {mem.cursor_}, tables : {mem.tables}, replay : {mem.replay},
                   data : {mem.data}, index : {mem'.index}]
  BY <1>2, <1>4 DEF PatenTyped
<1>9. /\ disk'.data = disk.data /\ disk'.index = [disk.index EXCEPT ![f] = Append(@, <<k, at>>)]
      /\ disk' \in [data : {disk.data}, index : {disk'.index}]
  BY <1>2, <1>4 DEF PatenTyped
<1>10. /\ disk'.index \in [Files -> Seq(Keys \X Indexes)]
       /\ \A g \in Files : g # f => disk'.index[g] = disk.index[g]
       /\ Len(disk'.index[f]) = l + 1 /\ disk'.index[f][l + 1] = <<k, at>>
       /\ \A g \in Files : /\ Len(disk.index[g]) <= Len(disk'.index[g])
                           /\ \A i \in 1..Len(disk.index[g]) : disk'.index[g][i] = disk.index[g][i]
  <2>1. <<k, at>> \in Keys \X Indexes /\ disk.index \in [Files -> Seq(Keys \X Indexes)]
    BY <1>2, <1>3, <1>5 DEF PatenParts
  <2>2. PICK file \in [Files -> Seq(Keys \X Indexes)], r \in Keys \X Indexes :
          file = disk.index /\ r = <<k, at>>
    BY <2>1
  <2>3. disk'.index = [file EXCEPT ![f] = Append(@, r)]
    BY <1>9, <2>2
  <2>4. PICK new : new = [file EXCEPT ![f] = Append(@, r)]
    OBVIOUS
  <2>5. /\ new \in [Files -> Seq(Keys \X Indexes)]
        /\ \A g \in Files : g # f => new[g] = file[g]
        /\ Len(file[f]) \in Nat /\ Len(new[f]) = Len(file[f]) + 1 /\ new[f][Len(file[f]) + 1] = r
        /\ \A g \in Files : /\ Len(file[g]) \in Nat /\ Len(file[g]) <= Len(new[g])
                            /\ \A i \in 1..Len(file[g]) : new[g][i] = file[g][i]
    BY <1>3, <2>4, FileGrows
  <2>6. disk'.index = new
    BY <2>3, <2>4
  <2>7. QED
    BY ONLY <1>1, <2>2, <2>5, <2>6
<1>11. PatenTyped'
  <2>1. disk' \in [data : [Files -> Seq(Keys \X Nat)], index : [Files -> Seq(Keys \X Indexes)]]
    BY <1>2, <1>9, <1>10 DEF PatenParts
  <2>2. mem'.index \in [Files -> Nat]
    BY <1>2, <1>3, <1>8 DEF PatenParts
  <2>3. mem' \in [cursor_ : Files, tables : [Keys -> Indexes \cup {Nothing}],
                 replay : (Files \X Nat) \cup {Nothing}, data : [Files -> Nat], index : [Files -> Nat]]
    BY <1>2, <1>8, <2>2 DEF PatenParts
  <2>4. QED
    BY <1>2, <1>4, <1>7, <2>1, <2>3 DEF PatenTyped, Calls
<1>12. CallersInv'
  BY <1>1, <1>2, <1>4, <1>5, <1>6, <1>7, <1>8 DEF CallersInv, Clients, Paten!Recovering
<1>13. DataStays
  BY <1>2, <1>4, <1>9 DEF DataStays, PatenParts
<1>14. IndexesInv'
  <2>1. \A u \in Threads : client'[u].op \in {"index", "insert"} =>
          LeadsRight(client'[u].key, Paten!Index(client'[u]))
    <3>1. ASSUME NEW u \in Threads, client'[u].op \in {"index", "insert"}
          PROVE  LeadsRight(client'[u].key, Paten!Index(client'[u]))
      <4>1. CASE u = t
        BY <1>5, <1>6, <1>7, <4>1
      <4>2. CASE u # t
        BY <1>2, <1>7, <3>1, <4>2 DEF IndexesInv
      <4>3. QED
        BY <4>1, <4>2
    <3>2. QED
      BY <3>1
  <2>2. \A g \in Files : \A i \in 1..Len(disk'.index[g]) :
          LeadsRight(disk'.index[g][i][1], disk'.index[g][i][2])
    <3>1. ASSUME NEW g \in Files, NEW i \in 1..Len(disk'.index[g])
          PROVE  LeadsRight(disk'.index[g][i][1], disk'.index[g][i][2])
      <4>1. CASE i \in 1..Len(disk.index[g])
        <5>1. disk'.index[g][i] = disk.index[g][i]
          BY <1>10, <4>1
        <5>2. QED
          BY <1>2, <4>1, <5>1 DEF IndexesInv
      <4>2. CASE i \notin 1..Len(disk.index[g])
        <5>1. g = f
          BY <1>10, <4>2
        <5>2. i = l + 1
          <6>1. i \in 1..l + 1 /\ i \notin 1..l
            BY <1>1, <1>10, <4>2, <5>1
          <6>2. QED
            BY ONLY <1>3, <6>1
        <5>3. disk'.index[g][i] = <<k, at>>
          BY <1>10, <5>1, <5>2
        <5>4. QED
          BY <1>5, <5>3
      <4>3. QED
        BY <4>1, <4>2
    <3>2. QED
      BY <3>1
  <2>3. QED
    BY <1>2, <1>8, <1>11, <1>13, <2>1, <2>2, IndexesStay DEF IndexesInv
<1>15. PlacesInv'
  <2>1. Unordered' <=> Unordered
    BY <1>4 DEF Unordered, Clients
  <2>2. \A u \in Threads : client'[u].op = "data" => u # t
    BY <1>6, <1>7
  <2>3. \A u \in Threads : client[u].op = "data" => u # t
    BY <1>4
  <2>4. QED
    BY <1>2, <1>7, <1>8, <1>9, <2>1, <2>2, <2>3 DEF PlacesInv
<1>16. KeptInv'
  <2>1. \A j : InFile(j) => InFile(j)'
    <3>1. ASSUME NEW j, InFile(j)
          PROVE  InFile(j)'
      <4>0. PICK g \in Files : \E i \in 1..Len(disk.index[g]) : disk.index[g][i][1] = j
        BY <3>1 DEF InFile
      <4>1. PICK i \in 1..Len(disk.index[g]) : disk.index[g][i][1] = j
        BY <4>0
      <4>2. Len(disk.index[g]) \in Nat /\ Len(disk'.index[g]) \in Nat
        BY <1>2, <1>10 DEF PatenParts
      <4>3. i \in 1..Len(disk'.index[g]) /\ disk'.index[g][i][1] = j
        BY <1>10, <4>1, <4>2
      <4>4. QED
        BY <4>3 DEF InFile
    <3>2. QED
      BY <3>1
  <2>2. InFile(k)'
    <3>1. l + 1 \in 1..Len(disk'.index[f]) /\ disk'.index[f][l + 1][1] = k
      BY <1>3, <1>10
    <3>2. QED
      BY <1>3, <3>1 DEF InFile
  <2>3. ASSUME NEW u \in Threads, client'[u].op = "insert"
        PROVE  InFile(client[u].key)'
    <3>1. CASE u = t
      BY <1>6, <1>7, <2>2, <3>1
    <3>2. CASE u # t
      <4>1. PICK j : j = client[u].key
        OBVIOUS
      <4>2. client'[u] = client[u] /\ InFile(j)
        BY <1>2, <1>7, <2>3, <3>2, <4>1 DEF KeptInv
      <4>3. QED
        BY <2>1, <4>1, <4>2
    <3>3. QED
      BY <3>1, <3>2
  <2>4. ~Paten!Recovering'
    BY <1>5, <1>8 DEF Paten!Recovering
  <2>5. QED
    BY <1>2, <1>4, <1>5, <1>8, <2>1, <2>3, <2>4 DEF KeptInv
<1>17. QED
  BY <1>11, <1>12, <1>14, <1>15, <1>16 DEF PatenInv

(* A call that is over.                                                    *)
LEMMA PatenIdle ==
  /\ Paten!Idle \in Calls /\ Paten!Idle.op = "idle"
<1>1. 0 \in Files
  BY PatenAssumption DEF Files, Paten!Files
<1>2. QED
  BY <1>1 DEF Paten!Idle, Calls

(* A pwrite fails.                                                         *)
LEMMA FailKeeps ==
  ASSUME PatenInv, NEW t \in Threads, Paten!Fail(t)
  PROVE  PatenInv'
<1>1. PICK f : f = client[t].file
  OBVIOUS
<1>2. PatenTyped /\ CallersInv /\ IndexesInv /\ PlacesInv /\ KeptInv /\ PatenParts
  BY PatenFields DEF PatenInv
<1>3. /\ ghost.workload.fails /\ client[t].op \in {"data", "index"}
      /\ client' = [client EXCEPT ![t] = Paten!Idle]
      /\ mem' = IF client[t].op = "index" THEN [mem EXCEPT !.index[f] = @ + 1] ELSE mem
      /\ disk' = disk /\ ghost' = ghost
  BY <1>1 DEF Paten!Fail
<1>4. f \in Files
  BY <1>1, <1>2 DEF PatenParts
<1>5. /\ client' \in [Threads -> Calls]
      /\ client'[t] = Paten!Idle /\ \A u \in Threads : u # t => client'[u] = client[u]
  BY <1>2, <1>3, OneMoves, PatenIdle
<1>6. /\ mem'.tables = mem.tables /\ mem'.replay = mem.replay /\ mem'.index \in [Files -> Nat]
      /\ mem' \in [cursor_ : {mem.cursor_}, tables : {mem.tables}, replay : {mem.replay},
                   data : {mem.data}, index : {mem'.index}]
  <2>1. CASE client[t].op = "index"
    <3>1. /\ mem'.tables = mem.tables /\ mem'.replay = mem.replay
          /\ mem'.index = [mem.index EXCEPT ![f] = @ + 1]
          /\ mem' \in [cursor_ : {mem.cursor_}, tables : {mem.tables}, replay : {mem.replay},
                       data : {mem.data}, index : {mem'.index}]
      BY <1>2, <1>3, <2>1 DEF PatenTyped
    <3>2. mem'.index \in [Files -> Nat]
      BY <1>2, <1>4, <3>1 DEF PatenParts
    <3>3. QED
      BY <3>1, <3>2
  <2>2. CASE client[t].op # "index"
    <3>1. mem' = mem /\ mem.index \in [Files -> Nat]
      BY <1>2, <1>3, <2>2 DEF PatenParts
    <3>2. QED
      BY <1>2, <3>1 DEF PatenTyped
  <2>3. QED
    BY <2>1, <2>2
<1>7. PatenTyped'
  <2>1. mem' \in [cursor_ : Files, tables : [Keys -> Indexes \cup {Nothing}],
                 replay : (Files \X Nat) \cup {Nothing}, data : [Files -> Nat], index : [Files -> Nat]]
    BY <1>2, <1>6 DEF PatenParts
  <2>2. QED
    BY <1>2, <1>3, <1>5, <2>1 DEF PatenTyped, Calls
<1>8. CallersInv'
  BY <1>2, <1>3, <1>5, <1>6, PatenIdle DEF CallersInv, Clients, Paten!Recovering, Writes
<1>9. IndexesInv'
  <2>1. \A u \in Threads : client'[u].op \in {"index", "insert"} =>
           LeadsRight(client'[u].key, Paten!Index(client'[u]))
    BY <1>2, <1>5, PatenIdle DEF IndexesInv
  <2>2. QED
    BY <1>2, <1>3, <1>6, <1>7, <2>1, SameFiles, IndexesStay DEF IndexesInv
<1>10. PlacesInv'
  BY <1>3 DEF PlacesInv, Unordered
<1>11. KeptInv'
  <2>1. \A u \in Threads : client'[u].op = "insert" => client'[u] = client[u]
    BY <1>5, PatenIdle
  <2>2. QED
    BY <1>2, <1>3, <1>6, <2>1, KeptStays
<1>12. QED
  BY <1>7, <1>8, <1>9, <1>10, <1>11 DEF PatenInv

(* The key is inserted and the Set returns.                                *)
LEMMA PatenInsertKeeps ==
  ASSUME PatenInv, NEW t \in Threads, Paten!Insert(t)
  PROVE  PatenInv'
<1>1. PICK k, at : k = client[t].key /\ at = Paten!Index(client[t])
  OBVIOUS
<1>2. PatenTyped /\ CallersInv /\ IndexesInv /\ PlacesInv /\ KeptInv /\ PatenParts
  BY PatenFields DEF PatenInv
<1>3. /\ client[t].op = "insert" /\ client' = [client EXCEPT ![t] = Paten!Idle]
      /\ mem' = [mem EXCEPT !.tables[k] = at] /\ disk' = disk
      /\ ghost' = [ghost EXCEPT !.returned = @ \cup {k}]
  BY <1>1 DEF Paten!Insert
<1>4. /\ at \in Indexes /\ k \in Keys /\ ~Paten!Recovering /\ LeadsRight(k, at) /\ InFile(k)
      /\ at # Nothing
  BY <1>1, <1>2, <1>3 DEF CallersInv, IndexesInv, KeptInv, PatenParts, Writes
<1>5. /\ client' \in [Threads -> Calls]
      /\ client'[t] = Paten!Idle /\ \A u \in Threads : u # t => client'[u] = client[u]
  BY <1>2, <1>3, OneMoves, PatenIdle
<1>6. /\ mem'.tables = [mem.tables EXCEPT ![k] = at] /\ mem'.replay = mem.replay /\ mem'.data = mem.data
      /\ mem' \in [cursor_ : {mem.cursor_}, tables : {mem'.tables}, replay : {mem.replay},
                   data : {mem.data}, index : {mem.index}]
  BY <1>2, <1>3 DEF PatenTyped
<1>7. /\ mem'.tables \in [Keys -> Indexes \cup {Nothing}] /\ mem'.tables[k] = at
      /\ \A j \in Keys : j # k => mem'.tables[j] = mem.tables[j]
  BY <1>2, <1>4, <1>6 DEF PatenParts
<1>8. /\ ghost'.workload = ghost.workload /\ ghost'.returned = ghost.returned \cup {k}
      /\ ghost' \in [sets : Nat, returned : SUBSET Keys, workload : Workloads]
  <2>1. PICK n \in Nat, r \in SUBSET Keys, w \in Workloads :
          ghost = [sets |-> n, returned |-> r, workload |-> w]
    BY <1>2 DEF PatenTyped
  <2>2. ghost' = [sets |-> n, returned |-> r \cup {k}, workload |-> w]
    BY <1>3, <2>1
  <2>3. QED
    BY <1>4, <2>1, <2>2
<1>9. PatenTyped'
  <2>1. mem' \in [cursor_ : Files, tables : [Keys -> Indexes \cup {Nothing}],
                 replay : (Files \X Nat) \cup {Nothing}, data : [Files -> Nat], index : [Files -> Nat]]
    BY <1>2, <1>6, <1>7 DEF PatenParts
  <2>2. QED
    BY <1>2, <1>3, <1>5, <1>8, <2>1 DEF PatenTyped, Calls
<1>10. CallersInv'
  BY <1>2, <1>5, <1>6, <1>8, PatenIdle DEF CallersInv, Clients, Paten!Recovering, Writes
<1>11. IndexesInv'
  <2>1. \A u \in Threads : client'[u].op \in {"index", "insert"} =>
           LeadsRight(client'[u].key, Paten!Index(client'[u]))
    BY <1>2, <1>5, PatenIdle DEF IndexesInv
  <2>2. \A j \in Keys : mem'.tables[j] # Nothing => LeadsRight(j, mem'.tables[j])
    BY <1>2, <1>4, <1>7 DEF IndexesInv
  <2>3. \A f \in Files : \A i \in 1..Len(disk'.index[f]) :
          LeadsRight(disk'.index[f][i][1], disk'.index[f][i][2])
    BY <1>2, <1>3 DEF IndexesInv
  <2>4. QED
    BY <1>2, <1>3, <1>8, <1>9, <2>1, <2>2, <2>3, SameFiles, IndexesStay
<1>12. PlacesInv'
  <2>1. Unordered' <=> Unordered
    BY <1>8 DEF Unordered, Clients
  <2>2. \A u \in Threads : client'[u].op = "data" => u # t
    BY <1>5, PatenIdle
  <2>3. \A u \in Threads : client[u].op = "data" => u # t
    BY <1>3
  <2>4. QED
    BY <1>2, <1>3, <1>5, <1>6, <2>1, <2>2, <2>3 DEF PlacesInv
<1>13. KeptInv'
  <2>1. \A j : InFile(j)' <=> InFile(j)
    BY <1>2, <1>3, <1>8, SameFiles
  <2>2. \A j \in ghost'.returned : InFile(j)' /\ mem'.tables[j] # Nothing
    <3>1. ASSUME NEW j \in ghost'.returned
          PROVE  InFile(j)' /\ mem'.tables[j] # Nothing
      <4>1. CASE j = k
        BY <1>4, <1>7, <2>1, <4>1
      <4>2. CASE j # k
        <5>1. j \in ghost.returned /\ j \in Keys
          BY <1>2, <1>8, <3>1, <4>2 DEF PatenTyped
        <5>2. QED
          BY <1>2, <1>4, <1>7, <2>1, <4>2, <5>1 DEF KeptInv
      <4>3. QED
        BY <4>1, <4>2
    <3>2. QED
      BY <3>1
  <2>3. ASSUME NEW u \in Threads, client'[u].op = "insert"
        PROVE  InFile(client[u].key)'
    <3>1. PICK j : j = client[u].key
      OBVIOUS
    <3>2. client'[u] = client[u] /\ InFile(j)
      BY <1>2, <1>5, <2>3, <3>1, PatenIdle DEF KeptInv
    <3>3. QED
      BY <2>1, <3>1, <3>2
  <2>4. ~Paten!Recovering'
    BY <1>4, <1>6 DEF Paten!Recovering
  <2>5. QED
    BY <2>2, <2>3, <2>4 DEF KeptInv
<1>14. QED
  BY <1>9, <1>10, <1>11, <1>12, <1>13 DEF PatenInv

(* A lookup changes nothing.                                               *)
LEMMA PatenStays ==
  ASSUME PatenInv, disk' = disk, mem' = mem, client' = client, ghost' = ghost
  PROVE  PatenInv'
<1>1. PatenTyped'
  BY DEF PatenInv, PatenTyped
<1>2. CallersInv'
  BY DEF PatenInv, CallersInv, Clients, Paten!Recovering
<1>3. PlacesInv'
  BY DEF PatenInv, PlacesInv, Unordered, Clients
<1>4. KeptInv'
  BY KeptStays DEF PatenInv
<1>5. IndexesInv'
  BY <1>1, SameFiles, IndexesStay DEF PatenInv, IndexesInv
<1>6. QED
  BY <1>1, <1>2, <1>3, <1>4, <1>5 DEF PatenInv

(* What has been opened over files with what the Indexes lead to.          *)
LEMMA PatenOpens ==
  ASSUME disk \in [data : [Files -> Seq(Keys \X Nat)], index : [Files -> Seq(Keys \X Indexes)]],
         ghost \in [sets : Nat, returned : SUBSET Keys, workload : Workloads],
         \A f \in Files : \A i \in 1..Len(disk.index[f]) : LeadsRight(disk.index[f][i][1], disk.index[f][i][2]),
         \A k \in ghost.returned : InFile(k),
         mem = Paten!Opened(disk), client = [t \in Threads |-> Paten!Idle]
  PROVE  PatenInv
<1>1. /\ mem.cursor_ = 0 /\ mem.tables = [k \in Keys |-> Nothing] /\ mem.replay = <<0, 0>>
      /\ mem.data = [f \in Files |-> Len(disk.data[f])] /\ mem.index = [f \in Files |-> Len(disk.index[f])]
      /\ mem \in [cursor_ : {0}, tables : {mem.tables}, replay : {<<0, 0>>}, data : {mem.data},
                  index : {mem.index}]
  BY DEF Paten!Opened, Files
<1>2. 0 \in Files /\ \A f \in Files : f \in Nat
  BY PatenAssumption DEF Files, Paten!Files
<1>3. \A f \in Files : Len(disk.data[f]) \in Nat /\ Len(disk.index[f]) \in Nat
  OBVIOUS
<1>4. \A t \in Threads : client[t] = Paten!Idle /\ client[t].op = "idle"
  BY PatenIdle
<1>5. PatenTyped
  <2>1. mem \in [cursor_ : Files, tables : [Keys -> Indexes \cup {Nothing}],
                replay : (Files \X Nat) \cup {Nothing}, data : [Files -> Nat], index : [Files -> Nat]]
    <3>1. mem.tables \in [Keys -> Indexes \cup {Nothing}]
      BY <1>1
    <3>2. mem.data \in [Files -> Nat] /\ mem.index \in [Files -> Nat]
      BY <1>1, <1>3
    <3>3. <<0, 0>> \in Files \X Nat
      BY <1>2
    <3>4. QED
      BY <1>1, <1>2, <3>1, <3>2, <3>3
  <2>2. client \in [Threads -> Calls]
    BY PatenIdle
  <2>3. QED
    BY <2>1, <2>2 DEF PatenTyped, Calls
<1>6. CallersInv
  BY <1>4 DEF CallersInv, Writes
<1>7. IndexesInv
  BY <1>1, <1>4 DEF IndexesInv
<1>8. PlacesInv
  BY <1>1, <1>4 DEF PlacesInv
<1>9. KeptInv
  <2>1. Nothing \notin Nat \X Nat /\ <<0, 0>> \in Nat \X Nat
    BY PatenAssumption
  <2>2. Paten!Recovering
    BY <1>1, <2>1 DEF Paten!Recovering
  <2>3. \A f \in Files : \A i \in 1..Len(disk.index[f]) : ~Replayed(f, i)
    BY <1>1, <1>2, <1>3 DEF Replayed
  <2>4. QED
    BY <1>4, <2>2, <2>3 DEF KeptInv
<1>10. QED
  BY <1>5, <1>6, <1>7, <1>8, <1>9 DEF PatenInv

(* A kill leaves the files.                                                *)
LEMMA PatenKillKeeps ==
  ASSUME PatenInv, Paten!Kill
  PROVE  PatenInv'
<1>1. mem' = Paten!Opened(disk) /\ client' = [t \in Threads |-> Paten!Idle] /\ disk' = disk /\ ghost' = ghost
  BY DEF Paten!Kill
<1>2. PatenTyped /\ IndexesInv /\ KeptInv /\ PatenParts
  BY PatenFields DEF PatenInv
<1>3. PICK d, g : d = disk /\ g = ghost
  OBVIOUS
<1>4. \A f \in Files : \A i \in 1..Len(disk'.index[f]) : LeadsRight(disk.index[f][i][1], disk.index[f][i][2])'
  <2>1. \A j, at : LeadsRight(j, at)' <=> LeadsRight(j, at)
    BY <1>1 DEF LeadsRight, Unordered, Clients
  <2>2. ASSUME NEW f \in Files, NEW i \in 1..Len(disk'.index[f])
        PROVE  LeadsRight(disk.index[f][i][1], disk.index[f][i][2])'
    <3>1. PICK j, at : j = disk.index[f][i][1] /\ at = disk.index[f][i][2]
      OBVIOUS
    <3>2. LeadsRight(j, at)
      BY <1>1, <1>2, <3>1 DEF IndexesInv
    <3>3. QED
      BY <1>1, <2>1, <3>1, <3>2
  <2>3. QED
    BY <2>2
<1>5. \A k \in ghost'.returned : InFile(k)'
  BY <1>1, <1>2, SameFiles DEF KeptInv
<1>6. (/\ disk \in [data : [Files -> Seq(Keys \X Nat)], index : [Files -> Seq(Keys \X Indexes)]]
       /\ ghost \in [sets : Nat, returned : SUBSET Keys, workload : Workloads]
       /\ \A f \in Files : \A i \in 1..Len(disk.index[f]) : LeadsRight(disk.index[f][i][1], disk.index[f][i][2])
       /\ \A k \in ghost.returned : InFile(k)
       /\ mem = Paten!Opened(disk) /\ client = [t \in Threads |-> Paten!Idle]
       => PatenInv)'
  BY PatenOpens, PTL
<1>7. mem' = Paten!Opened(disk')
  BY <1>1
<1>8. /\ disk' \in [data : [Files -> Seq(Keys \X Nat)], index : [Files -> Seq(Keys \X Indexes)]]
      /\ ghost' \in [sets : Nat, returned : SUBSET Keys, workload : Workloads]
  BY <1>1, <1>2 DEF PatenTyped
<1>9. QED
  BY <1>1, <1>4, <1>5, <1>6, <1>7, <1>8

(* A record of an index file is replayed.                                  *)
LEMMA ReplayRecordKeeps ==
  ASSUME PatenInv, Paten!ReplayRecord
  PROVE  PatenInv'
<1>1. PICK f, n, k, at : /\ f = mem.replay[1] /\ n = mem.replay[2]
                         /\ k = disk.index[f][n + 1][1] /\ at = disk.index[f][n + 1][2]
  OBVIOUS
<1>2. PatenTyped /\ CallersInv /\ IndexesInv /\ PlacesInv /\ KeptInv /\ PatenParts
  BY PatenFields DEF PatenInv
<1>3. /\ Paten!Recovering /\ f \in Files /\ n < Len(disk.index[f])
      /\ mem' = [mem EXCEPT !.tables[k] = at, !.replay = <<f, n + 1>>]
      /\ disk' = disk /\ client' = client /\ ghost' = ghost
  BY <1>1 DEF Paten!ReplayRecord, Paten!More, Files
<1>4. n \in Nat /\ Len(disk.index[f]) \in Nat /\ n + 1 \in 1..Len(disk.index[f])
  <2>1. mem.replay \in Files \X Nat
    BY <1>2, <1>3 DEF PatenParts, Paten!Recovering
  <2>2. n \in Nat /\ Len(disk.index[f]) \in Nat
    BY <1>1, <1>2, <1>3, <2>1 DEF PatenParts
  <2>3. QED
    BY <1>3, <2>2
<1>5. k \in Keys /\ at \in Indexes /\ at # Nothing /\ LeadsRight(k, at)
  <2>1. k \in Keys /\ at \in Indexes /\ Nothing \notin Indexes
    BY <1>1, <1>2, <1>3, <1>4 DEF PatenParts
  <2>2. LeadsRight(k, at)
    BY <1>1, <1>2, <1>3, <1>4 DEF IndexesInv
  <2>3. QED
    BY <2>1, <2>2
<1>6. /\ mem'.tables = [mem.tables EXCEPT ![k] = at] /\ mem'.replay = <<f, n + 1>> /\ mem'.data = mem.data
      /\ mem' \in [cursor_ : {mem.cursor_}, tables : {mem'.tables}, replay : {<<f, n + 1>>},
                   data : {mem.data}, index : {mem.index}]
  <2> DEFINE e == [mem EXCEPT !.tables[k] = at]
  <2>1. /\ e.tables = [mem.tables EXCEPT ![k] = at] /\ e.data = mem.data
        /\ e \in [cursor_ : {mem.cursor_}, tables : {e.tables}, replay : {mem.replay},
                   data : {mem.data}, index : {mem.index}]
    BY <1>2 DEF PatenTyped
  <2>2. mem' = [e EXCEPT !.replay = <<f, n + 1>>]
    BY <1>3
  <2> HIDE DEF e
  <2>3. QED
    BY <2>1, <2>2
<1>7. /\ mem'.tables \in [Keys -> Indexes \cup {Nothing}] /\ mem'.tables[k] = at
      /\ \A j \in Keys : j # k => mem'.tables[j] = mem.tables[j]
  BY <1>2, <1>5, <1>6 DEF PatenParts
<1>8. <<f, n + 1>> \in Files \X Nat
  BY <1>3, <1>4
<1>9. PatenTyped'
  <2>1. mem' \in [cursor_ : Files, tables : [Keys -> Indexes \cup {Nothing}],
                 replay : (Files \X Nat) \cup {Nothing}, data : [Files -> Nat], index : [Files -> Nat]]
    BY <1>2, <1>6, <1>7, <1>8 DEF PatenParts
  <2>2. QED
    BY <1>2, <1>3, <2>1 DEF PatenTyped
<1>10. Paten!Recovering' /\ \A t \in Threads : client[t].op \notin Writes
  BY <1>2, <1>3, <1>6, <1>8 DEF Paten!Recovering, CallersInv, PatenParts
<1>11. CallersInv'
  BY <1>3, <1>10 DEF CallersInv
<1>12. IndexesInv'
  <2>1. \A j \in Keys : mem'.tables[j] # Nothing => LeadsRight(j, mem'.tables[j])
    BY <1>2, <1>5, <1>7 DEF IndexesInv
  <2>2. QED
    BY <1>2, <1>3, <1>9, <2>1, SameFiles, IndexesStay DEF IndexesInv
<1>13. PlacesInv'
  BY <1>2, <1>3, <1>6 DEF PlacesInv, Unordered, Clients
<1>14. KeptInv'
  <2>1. \A j : InFile(j)' <=> InFile(j)
    BY <1>2, <1>3, SameFiles
  <2>2. \A t \in Threads : client'[t].op # "insert"
    BY <1>3, <1>10 DEF Writes
  <2>3. ASSUME NEW g \in Files, NEW i \in 1..Len(disk.index[g]), g < f \/ (g = f /\ i <= n + 1)
        PROVE  mem'.tables[disk.index[g][i][1]] # Nothing
    <3>1. disk.index[g][i][1] \in Keys
      BY <1>2 DEF PatenParts
    <3>2. CASE disk.index[g][i][1] = k
      BY <1>5, <1>7, <3>2
    <3>3. CASE disk.index[g][i][1] # k
      <4>1. ~(g = f /\ i = n + 1)
        BY <1>1, <3>3
      <4>2. i \in Nat
        BY <1>2 DEF PatenParts
      <4>3. g < f \/ (g = f /\ i <= n)
        BY <1>4, <2>3, <4>1, <4>2
      <4>4. Replayed(g, i)
        BY <1>1, <4>3 DEF Replayed
      <4>5. mem.tables[disk.index[g][i][1]] # Nothing
        BY <1>2, <1>3, <4>4 DEF KeptInv
      <4>6. QED
        BY <1>7, <3>1, <3>3, <4>5
    <3>4. QED
      BY <3>2, <3>3
  <2>4. \A g \in Files : \A i \in 1..Len(disk.index[g]) :
          Replayed(g, i)' => mem'.tables[disk.index[g][i][1]] # Nothing
    BY <1>6, <2>3 DEF Replayed
  <2>5. QED
    BY <1>2, <1>3, <1>10, <2>1, <2>2, <2>4 DEF KeptInv
<1>15. QED
  BY <1>9, <1>11, <1>12, <1>13, <1>14 DEF PatenInv

(* The next index file, or the end of recovery.                            *)
LEMMA ReplayNextFileKeeps ==
  ASSUME PatenInv, Paten!ReplayNextFile
  PROVE  PatenInv'
<1>1. PICK f, n : f = mem.replay[1] /\ n = mem.replay[2]
  OBVIOUS
<1> DEFINE r == IF f + 1 \in Files THEN <<f + 1, 0>> ELSE Nothing
<1>2. PatenTyped /\ CallersInv /\ IndexesInv /\ PlacesInv /\ KeptInv /\ PatenParts
  BY PatenFields DEF PatenInv
<1>3. /\ Paten!Recovering /\ ~(n < Len(disk.index[f]))
      /\ mem' = [mem EXCEPT !.replay = r] /\ disk' = disk /\ client' = client /\ ghost' = ghost
  BY <1>1 DEF Paten!ReplayNextFile, Paten!More, Files
<1>4. f \in Files /\ f \in Nat /\ n \in Nat /\ Len(disk.index[f]) \in Nat /\ Len(disk.index[f]) <= n
  <2>1. mem.replay \in Files \X Nat
    BY <1>2, <1>3 DEF PatenParts, Paten!Recovering
  <2>2. f \in Files /\ n \in Nat
    BY <1>1, <2>1
  <2>3. Len(disk.index[f]) \in Nat
    BY <1>2, <2>2 DEF PatenParts
  <2>4. f \in Nat
    BY <2>2, PatenAssumption DEF Files, Paten!Files
  <2>5. QED
    BY <1>3, <2>2, <2>3, <2>4
<1>5. r \in (Files \X Nat) \cup {Nothing}
  OBVIOUS
<1> HIDE DEF r
<1>6. /\ mem'.tables = mem.tables /\ mem'.replay = r /\ mem'.data = mem.data
      /\ mem' \in [cursor_ : {mem.cursor_}, tables : {mem.tables}, replay : {r},
                   data : {mem.data}, index : {mem.index}]
  BY <1>2, <1>3 DEF PatenTyped
<1>7. PatenTyped'
  <2>1. mem' \in [cursor_ : Files, tables : [Keys -> Indexes \cup {Nothing}],
                 replay : (Files \X Nat) \cup {Nothing}, data : [Files -> Nat], index : [Files -> Nat]]
    BY <1>2, <1>5, <1>6 DEF PatenParts
  <2>2. QED
    BY <1>2, <1>3, <2>1 DEF PatenTyped
<1>8. \A t \in Threads : client[t].op \notin Writes
  BY <1>2, <1>3 DEF CallersInv
<1>9. CallersInv'
  BY <1>3, <1>8 DEF CallersInv
<1>10. IndexesInv'
  BY <1>2, <1>3, <1>6, <1>7, SameFiles, IndexesStay DEF IndexesInv
<1>11. PlacesInv'
  BY <1>2, <1>3, <1>6 DEF PlacesInv, Unordered, Clients
<1>12. \A g \in Files : \A i \in 1..Len(disk.index[g]) : g <= f => mem.tables[disk.index[g][i][1]] # Nothing
  <2>1. ASSUME NEW g \in Files, NEW i \in 1..Len(disk.index[g]), g <= f
        PROVE  mem.tables[disk.index[g][i][1]] # Nothing
    <3>1. g \in Nat /\ i \in Nat /\ i <= Len(disk.index[g])
      <4>1. g \in Nat
        BY PatenAssumption DEF Files, Paten!Files
      <4>2. Len(disk.index[g]) \in Nat
        BY <1>2 DEF PatenParts
      <4>3. QED
        BY <4>1, <4>2
    <3>2. g < f \/ (g = f /\ i <= n)
      <4>1. CASE g = f
        BY <1>4, <3>1, <4>1
      <4>2. CASE g # f
        BY <1>4, <2>1, <3>1, <4>2
      <4>3. QED
        BY <4>1, <4>2
    <3>3. Replayed(g, i)
      BY <1>1, <3>2 DEF Replayed
    <3>4. QED
      BY <1>2, <1>3, <3>3 DEF KeptInv
  <2>2. QED
    BY <2>1
<1>13. KeptInv'
  <2>1. \A j : InFile(j)' <=> InFile(j)
    BY <1>2, <1>3, SameFiles
  <2>2. \A t \in Threads : client'[t].op # "insert"
    BY <1>3, <1>8 DEF Writes
  <2>3. CASE f + 1 \in Files
    <3>1. mem'.replay = <<f + 1, 0>> /\ Paten!Recovering'
      <4>1. <<f + 1, 0>> \in Files \X Nat /\ Nothing \notin Files \X Nat
        BY <1>2, <2>3 DEF PatenParts
      <4>2. QED
        BY <1>6, <2>3, <4>1 DEF r, Paten!Recovering
    <3>2. ASSUME NEW g \in Files, NEW i \in 1..Len(disk.index[g]), g < f + 1 \/ (g = f + 1 /\ i <= 0)
          PROVE  g <= f
      <4>1. g \in Nat
        BY PatenAssumption DEF Files, Paten!Files
      <4>2. i > 0
        BY <1>2 DEF PatenParts
      <4>3. QED
        BY <1>4, <3>2, <4>1, <4>2
    <3>3. \A g \in Files : \A i \in 1..Len(disk.index[g]) :
            Replayed(g, i)' => mem.tables[disk.index[g][i][1]] # Nothing
      BY <1>12, <3>1, <3>2 DEF Replayed
    <3>4. QED
      BY <1>2, <1>3, <1>6, <2>1, <2>2, <3>1, <3>3 DEF KeptInv
  <2>4. CASE f + 1 \notin Files
    <3>1. ~Paten!Recovering'
      BY <1>6, <2>4 DEF r, Paten!Recovering
    <3>2. \A g \in Files : g <= f
      BY <1>4, <2>4, PatenAssumption DEF Files, Paten!Files
    <3>3. \A k \in ghost.returned : mem.tables[k] # Nothing
      <4>1. ASSUME NEW k \in ghost.returned
            PROVE  mem.tables[k] # Nothing
        <5>1. PICK g \in Files : \E i \in 1..Len(disk.index[g]) : disk.index[g][i][1] = k
          BY <1>2 DEF KeptInv, InFile
        <5>2. QED
          BY <1>12, <3>2, <5>1
      <4>2. QED
        BY <4>1
    <3>4. QED
      BY <1>2, <1>3, <1>6, <2>1, <2>2, <3>1, <3>3 DEF KeptInv
  <2>5. QED
    BY <2>3, <2>4
<1>14. QED
  BY <1>7, <1>9, <1>10, <1>11, <1>13 DEF PatenInv

(* The files are empty at first.                                           *)
LEMMA PatenStarts ==
  ASSUME Paten!Init
  PROVE  PatenInv
<1>1. /\ disk = [data |-> [f \in Files |-> <<>>], index |-> [f \in Files |-> <<>>]]
      /\ mem = Paten!Opened(disk) /\ client = [t \in Threads |-> Paten!Idle]
  BY DEF Paten!Init, Paten!Each, Files
<1>2. PICK w \in Workloads : ghost = [sets |-> 0, returned |-> {}, workload |-> w]
  BY DEF Paten!Init
<1>3. disk \in [data : [Files -> Seq(Keys \X Nat)], index : [Files -> Seq(Keys \X Indexes)]]
  BY <1>1
<1>4. ghost \in [sets : Nat, returned : SUBSET Keys, workload : Workloads] /\ ghost.returned = {}
  BY <1>2
<1>5. \A f \in Files : 1..Len(disk.index[f]) = {}
  BY <1>1
<1>6. QED
  BY <1>1, <1>3, <1>4, <1>5, PatenOpens

(* Every step keeps the invariant.                                         *)
LEMMA PatenSteps ==
  ASSUME PatenInv, Paten!Next
  PROVE  PatenInv'
<1>1. ASSUME NEW t \in Threads, NEW k \in Keys, Paten!Set(t, k)
      PROVE  PatenInv'
  BY <1>1, PatenSetKeeps
<1>2. ASSUME NEW t \in Threads, NEW k \in Keys, Paten!Get(t, k)
      PROVE  PatenInv'
  BY <1>2, PatenStays DEF Paten!Get
<1>3. ASSUME NEW t \in Threads,
             \/ Paten!ReserveData(t) \/ Paten!AppendData(t) \/ Paten!AppendIndex(t)
             \/ Paten!Fail(t) \/ Paten!Insert(t)
      PROVE  PatenInv'
  BY <1>3, ReserveDataKeeps, AppendDataKeeps, AppendIndexKeeps, FailKeeps, PatenInsertKeeps
<1>4. QED
  BY <1>1, <1>2, <1>3, PatenKillKeeps, ReplayRecordKeeps, ReplayNextFileKeeps DEF Paten!Next

(* The invariant always holds.                                             *)
LEMMA PatenAlways == Spec => [](engine = "nvm_engine_paten" => PatenInv)
<1>1. Init => (engine = "nvm_engine_paten" => PatenInv)
  BY PatenStarts DEF Init
<1>2. (engine = "nvm_engine_paten" => PatenInv) /\ [Next]_vars => (engine = "nvm_engine_paten" => PatenInv)'
  <2>1. SUFFICES ASSUME engine = "nvm_engine_paten" => PatenInv, [Next]_vars, engine' = "nvm_engine_paten"
                 PROVE  PatenInv'
    OBVIOUS
  <2>2. CASE Next
    <3>1. engine = "nvm_engine_paten" /\ Paten!Next
      BY <2>1, <2>2 DEF Next, FirstStep, P7Step, PeipeiStep, PatenStep, LatestStep, ExampleStep
    <3>2. QED
      BY <2>1, <3>1, PatenSteps
  <2>3. CASE UNCHANGED vars
    BY <2>1, <2>3, PatenStays DEF vars, state
  <2>4. QED
    BY <2>1, <2>2, <2>3
<1>3. QED
  BY <1>1, <1>2, PTL DEF Spec

(* nvm_engine_paten: an Index whose record is where it was to go leads to  *)
(* the value of its Set, records go elsewhere only when a write failed or  *)
(* clients overlap, and a recovery finds every key of a Set that returned, *)
(* for any threads, keys, files, workloads and number of Sets and kills.   *)
THEOREM PatenIndexesLeadToValuesAlways == Spec => []PatenIndexesLeadToValues
<1>1. PatenInv => Paten!IndexesLeadToValues
  <2>1. SUFFICES ASSUME PatenInv
                 PROVE  Paten!IndexesLeadToValues
    OBVIOUS
  <2>2. ASSUME NEW k \in Keys, mem.tables[k] # Nothing
        PROVE  /\ mem.tables[k].right => Paten!Read(mem.tables[k]) = <<k, mem.tables[k].value>>
               /\ ~mem.tables[k].right => ghost.workload.fails \/ \E t, u \in ghost.workload.clients : t # u
    <3>1. LeadsRight(k, mem.tables[k])
      BY <2>1, <2>2 DEF PatenInv, IndexesInv
    <3>2. QED
      BY <3>1 DEF LeadsRight, Paten!Read, Unordered, Clients
  <2>3. QED
    BY <2>1, <2>2 DEF PatenInv, KeptInv, Paten!IndexesLeadToValues
<1>2. QED
  BY <1>1, PatenAlways, PTL DEF PatenIndexesLeadToValues

------------------------------------------------------------------------------
(* nvm_example: the slices of a file                                       *)

(* The slice at an offset and where it ends, and where a pair ends.        *)
Cut(b, at) == [i \in 1..b[at] |-> b[at + i]]
End(b, at) == at + 1 + b[at]
PairEnd(b, at) == End(b, End(b, at))

(* Where the first pairs start, and the one after them.                    *)
AreStarts(b, n, p) == p = [i \in 0..n |-> IF i = 0 THEN 1 ELSE PairEnd(b, p[i - 1])]
Starts(b, n) == CHOOSE p : AreStarts(b, n, p)
StartOf(b, i) == Starts(b, i)[i]

(* The pairs of a key among the first n, the latest of them, and what they *)
(* say: its value's slice, and where that is.                              *)
PairsOf(b, n, k) == {i \in 0..n - 1 : Cut(b, StartOf(b, i)) = k}
LatestOf(S) == CHOOSE i \in S : \A j \in S : j <= i
ValueAt(b, i) == End(b, StartOf(b, i))
Says(b, n) ==
  [k \in ExampleKeys |-> IF PairsOf(b, n, k) = {} THEN NotFound ELSE Cut(b, ValueAt(b, LatestOf(PairsOf(b, n, k))))]
PlacesOf(b, n) ==
  [k \in ExampleKeys |-> IF PairsOf(b, n, k) = {} THEN 0 ELSE ValueAt(b, LatestOf(PairsOf(b, n, k)))]

(* The first n pairs are a key and a value each, one after another.        *)
IsPair(b, at) ==
  /\ b[at] \in Nat /\ Cut(b, at) \in ExampleKeys
  /\ b[End(b, at)] \in Nat /\ Cut(b, End(b, at)) \in ExampleValues
IsLog(b, n) ==
  /\ StartOf(b, n) \in 1..ExampleSize + 1
  /\ \A i \in 0..n : StartOf(b, i) \in 1..StartOf(b, n)
  /\ \A i \in 0..n - 1 : IsPair(b, StartOf(b, i))

(* There are such starts for any number of pairs.                          *)
LEMMA StartsExist ==
  ASSUME NEW b, NEW n \in Nat
  PROVE  AreStarts(b, n, Starts(b, n))
<1> DEFINE S == {m \in Nat : ~ \E p : AreStarts(b, m, p)}
<1>1. S = {}
  <2>1. SUFFICES ASSUME S # {}
                 PROVE  FALSE
    OBVIOUS
  <2>2. PICK m \in S : \A l \in S : m <= l
    BY <2>1, Least
  <2>3. m # 0
    <3>1. AreStarts(b, 0, [i \in 0..0 |-> 1])
      BY DEF AreStarts
    <3>2. QED
      BY <2>2, <3>1
  <2>4. m - 1 \in Nat /\ m - 1 \notin S
    BY <2>2, <2>3
  <2>5. PICK p : AreStarts(b, m - 1, p)
    BY <2>4
  <2>6. PICK q : q = [i \in 0..m |-> IF i = m THEN PairEnd(b, p[m - 1]) ELSE p[i]]
    OBVIOUS
  <2>7. ASSUME NEW i \in 0..m
        PROVE  q[i] = IF i = 0 THEN 1 ELSE PairEnd(b, q[i - 1])
    <3>1. CASE i = m
      <4>1. q[i] = PairEnd(b, p[m - 1]) /\ q[m - 1] = p[m - 1]
        BY <2>2, <2>3, <2>6, <3>1
      <4>2. QED
        BY <2>3, <3>1, <4>1
    <3>2. CASE i # m
      <4>1. i \in 0..m - 1 /\ q[i] = p[i]
        BY <2>2, <2>6, <3>2
      <4>2. p[i] = IF i = 0 THEN 1 ELSE PairEnd(b, p[i - 1])
        BY <2>5, <4>1 DEF AreStarts
      <4>3. i # 0 => q[i - 1] = p[i - 1]
        BY <2>2, <2>6, <3>2
      <4>4. QED
        BY <4>1, <4>2, <4>3
    <3>3. QED
      BY <3>1, <3>2
  <2>8. q = [i \in 0..m |-> IF i = 0 THEN 1 ELSE PairEnd(b, q[i - 1])]
    BY <2>6, <2>7
  <2>9. QED
    BY <2>2, <2>8 DEF AreStarts
<1>2. PICK p : AreStarts(b, n, p)
  BY <1>1
<1>3. QED
  BY <1>2 DEF Starts

(* The starts of more pairs begin with those of fewer.                     *)
LEMMA StartsAgree ==
  ASSUME NEW b, NEW m \in Nat, NEW n \in 0..m, NEW p, NEW q, AreStarts(b, n, p), AreStarts(b, m, q)
  PROVE  \A i \in 0..n : p[i] = q[i]
<1> DEFINE S == {i \in 0..n : p[i] # q[i]}
<1>1. SUFFICES ASSUME S # {}
               PROVE  FALSE
  OBVIOUS
<1>2. PICK i \in S : \A j \in S : i <= j
  <2>1. S \in SUBSET Nat
    OBVIOUS
  <2>2. QED
    BY <1>1, <2>1, Least
<1>3. /\ p[i] = IF i = 0 THEN 1 ELSE PairEnd(b, p[i - 1])
      /\ q[i] = IF i = 0 THEN 1 ELSE PairEnd(b, q[i - 1])
  BY <1>2 DEF AreStarts
<1>4. i # 0
  BY <1>2, <1>3
<1>5. p[i - 1] = q[i - 1]
  <2>1. i - 1 \in 0..n /\ ~(i <= i - 1)
    BY <1>2, <1>4
  <2>2. QED
    BY <1>2, <2>1
<1>6. QED
  BY <1>2, <1>3, <1>4, <1>5

(* The first pair starts at 1, and the next where one ends.                *)
LEMMA StartsFollow ==
  ASSUME NEW b
  PROVE  /\ StartOf(b, 0) = 1
         /\ \A n \in Nat : StartOf(b, n + 1) = PairEnd(b, StartOf(b, n))
         /\ \A n \in Nat : \A i \in 0..n : Starts(b, n)[i] = StartOf(b, i)
<1>1. StartOf(b, 0) = 1
  BY StartsExist DEF AreStarts, StartOf
<1>2. ASSUME NEW n \in Nat, NEW i \in 0..n
      PROVE  Starts(b, n)[i] = StartOf(b, i)
  <2>1. i \in Nat /\ AreStarts(b, n, Starts(b, n)) /\ AreStarts(b, i, Starts(b, i))
    BY StartsExist
  <2>2. Starts(b, i)[i] = Starts(b, n)[i]
    BY <2>1, StartsAgree
  <2>3. QED
    BY <2>2 DEF StartOf
<1>3. ASSUME NEW n \in Nat
      PROVE  StartOf(b, n + 1) = PairEnd(b, StartOf(b, n))
  <2>1. AreStarts(b, n + 1, Starts(b, n + 1))
    BY StartsExist
  <2>2. Starts(b, n + 1)[n + 1] = PairEnd(b, Starts(b, n + 1)[n])
    <3>1. PICK q : q = Starts(b, n + 1)
      OBVIOUS
    <3>2. q = [i \in 0..n + 1 |-> IF i = 0 THEN 1 ELSE PairEnd(b, q[i - 1])]
      BY <2>1, <3>1 DEF AreStarts
    <3>3. n + 1 \in 0..n + 1 /\ n + 1 # 0 /\ n + 1 - 1 = n
      OBVIOUS
    <3>4. q[n + 1] = PairEnd(b, q[n])
      BY <3>2, <3>3
    <3>5. QED
      BY <3>1, <3>4
  <2>3. Starts(b, n + 1)[n] = StartOf(b, n)
    BY <1>2
  <2>4. QED
    BY <2>2, <2>3 DEF StartOf
<1>4. QED
  BY <1>1, <1>2, <1>3

(* The latest of the pairs of a key is one of them.                        *)
LEMMA LatestIs ==
  ASSUME NEW b, NEW n \in Nat, NEW k, PairsOf(b, n, k) # {}
  PROVE  LatestOf(PairsOf(b, n, k)) \in PairsOf(b, n, k) /\ LatestOf(PairsOf(b, n, k)) \in 0..n - 1
<1>1. PairsOf(b, n, k) \in SUBSET (0..n) /\ PairsOf(b, n, k) \subseteq 0..n - 1
  BY DEF PairsOf
<1>2. \E i \in PairsOf(b, n, k) : \A j \in PairsOf(b, n, k) : i >= j
  BY <1>1, Greatest
<1>3. \E i \in PairsOf(b, n, k) : \A j \in PairsOf(b, n, k) : j <= i
  BY <1>1, <1>2
<1>4. QED
  BY <1>1, <1>3 DEF LatestOf

(* What the model says a file's counted pairs say.                         *)
LEMMA LoggedIsSaid ==
  ASSUME disk.sequence \in Nat
  PROVE  Example!Logged = Says(disk.bytes, disk.sequence)
<1> DEFINE b == disk.bytes
           n == disk.sequence
           at == Starts(b, n)
           Of(k) == {i \in 0..n - 1 : Cut(b, at[i]) = k}
<1>1. Example!Logged =
        [k \in ExampleKeys |-> IF Of(k) = {} THEN NotFound ELSE Cut(b, End(b, at[CHOOSE i \in Of(k) : \A j \in Of(k) : j <= i]))]
  BY DEF Example!Logged, Example!Slice, Example!SliceEnd, Starts, AreStarts, Cut, End, PairEnd
<1>2. \A k \in ExampleKeys : Of(k) = PairsOf(b, n, k)
  BY StartsFollow DEF PairsOf
<1>3. \A k \in ExampleKeys : PairsOf(b, n, k) # {} => LatestOf(PairsOf(b, n, k)) \in PairsOf(b, n, k)
  BY LatestIs
<1>4. \A k \in ExampleKeys : PairsOf(b, n, k) # {} => at[LatestOf(PairsOf(b, n, k))] = StartOf(b, LatestOf(PairsOf(b, n, k)))
  <2>1. \A k : \A i \in PairsOf(b, n, k) : i \in 0..n
    BY DEF PairsOf
  <2>2. \A i \in 0..n : at[i] = StartOf(b, i)
    BY StartsFollow
  <2>3. QED
    BY <1>3, <2>1, <2>2
<1>5. \A k \in ExampleKeys : (CHOOSE i \in Of(k) : \A j \in Of(k) : j <= i) = LatestOf(PairsOf(b, n, k))
  BY <1>2 DEF LatestOf
<1> HIDE DEF at, Of
<1>6. \A k \in ExampleKeys : PairsOf(b, n, k) # {} =>
        Cut(b, End(b, at[CHOOSE i \in Of(k) : \A j \in Of(k) : j <= i])) = Cut(b, ValueAt(b, LatestOf(PairsOf(b, n, k))))
  BY <1>4, <1>5 DEF ValueAt
<1>7. \A k \in ExampleKeys :
        (IF Of(k) = {} THEN NotFound ELSE Cut(b, End(b, at[CHOOSE i \in Of(k) : \A j \in Of(k) : j <= i])))
        = IF PairsOf(b, n, k) = {} THEN NotFound ELSE Cut(b, ValueAt(b, LatestOf(PairsOf(b, n, k))))
  BY <1>2, <1>6
<1>8. QED
  BY <1>1, <1>7 DEF Says

(* A log's pairs are followed one by one, and each is behind another.      *)
LEMMA LogOrder ==
  ASSUME NEW b, NEW n \in Nat, IsLog(b, n), NEW i \in 0..n - 1
  PROVE  LET x == StartOf(b, i)
             y == End(b, x)
         IN  /\ x \in Nat \ {0} /\ y \in Nat \ {0} /\ b[x] \in Nat /\ b[y] \in Nat
             /\ y = x + 1 + b[x] /\ y + 1 + b[y] <= StartOf(b, n)
             /\ StartOf(b, i + 1) = y + 1 + b[y]
             /\ y <= ExampleSize
<1> DEFINE x == StartOf(b, i)
           y == End(b, x)
<1>1. x \in Nat \ {0} /\ b[x] \in Nat /\ b[y] \in Nat
  BY DEF IsLog, IsPair
<1>2. y = x + 1 + b[x] /\ y \in Nat \ {0}
  BY <1>1 DEF End
<1>3. StartOf(b, i + 1) = y + 1 + b[y]
  BY StartsFollow DEF PairEnd, End
<1>4. i + 1 \in 0..n /\ StartOf(b, i + 1) <= StartOf(b, n) /\ StartOf(b, n) <= ExampleSize + 1 /\ StartOf(b, n) \in Nat
  BY ExampleAssumption DEF IsLog
<1>5. y <= ExampleSize
  <2> HIDE DEF x, y
  <2>1. b[y] \in Nat /\ y + 1 + b[y] <= StartOf(b, n) /\ StartOf(b, n) <= ExampleSize + 1
    BY <1>1, <1>3, <1>4
  <2>2. QED
    BY <1>2, <1>4, <2>1, ExampleAssumption
<1>6. QED
  BY <1>1, <1>2, <1>3, <1>4, <1>5

(* What is behind a log is not part of it.                                 *)
LEMMA LogStays ==
  ASSUME NEW b, NEW c, NEW n \in Nat, IsLog(b, n), \A x \in 1..StartOf(b, n) - 1 : c[x] = b[x]
  PROVE  /\ \A i \in 0..n : StartOf(c, i) = StartOf(b, i)
         /\ IsLog(c, n) /\ Says(c, n) = Says(b, n) /\ PlacesOf(c, n) = PlacesOf(b, n)
         /\ \A i \in 0..n - 1 : /\ Cut(c, StartOf(b, i)) = Cut(b, StartOf(b, i))
                                /\ ValueAt(c, i) = ValueAt(b, i) /\ Cut(c, ValueAt(b, i)) = Cut(b, ValueAt(b, i))
<1>1. StartOf(b, n) \in Nat
  BY ExampleAssumption DEF IsLog
<1>2. ASSUME NEW i \in 0..n - 1
      PROVE  LET x == StartOf(b, i)
                 y == End(b, x)
             IN  /\ Cut(c, x) = Cut(b, x) /\ End(c, x) = y /\ Cut(c, y) = Cut(b, y) /\ c[x] = b[x] /\ c[y] = b[y]
                 /\ PairEnd(c, x) = PairEnd(b, x)
  <2>1. PICK x : x = StartOf(b, i)
    OBVIOUS
  <2>2. PICK y : y = End(b, x)
    OBVIOUS
  <2>3. /\ x \in Nat \ {0} /\ y \in Nat \ {0} /\ b[x] \in Nat /\ b[y] \in Nat
        /\ y = x + 1 + b[x] /\ y + 1 + b[y] <= StartOf(b, n)
    BY <2>1, <2>2, LogOrder
  <2>4. c[x] = b[x] /\ c[y] = b[y]
    BY <1>1, <2>3
  <2>5. \A j \in 1..b[x] : c[x + j] = b[x + j]
    BY <1>1, <2>3
  <2>6. \A j \in 1..b[y] : c[y + j] = b[y + j]
    BY <1>1, <2>3
  <2>7. End(c, x) = y /\ Cut(c, x) = Cut(b, x) /\ Cut(c, y) = Cut(b, y)
    BY <2>2, <2>4, <2>5, <2>6 DEF End, Cut
  <2>8. PairEnd(c, x) = PairEnd(b, x)
    BY <2>2, <2>4, <2>7 DEF PairEnd, End
  <2>9. QED
    BY <2>1, <2>2, <2>4, <2>7, <2>8
<1>3. \A i \in 0..n : StartOf(c, i) = StartOf(b, i)
  <2> DEFINE S == {i \in 0..n : StartOf(c, i) # StartOf(b, i)}
  <2>1. SUFFICES ASSUME S # {}
                 PROVE  FALSE
    OBVIOUS
  <2>2. S \in SUBSET Nat
    OBVIOUS
  <2>3. PICK i \in S : \A j \in S : i <= j
    BY <2>1, <2>2, Least
  <2>4. i # 0
    BY <2>3, StartsFollow
  <2>5. PICK j \in 0..n - 1 : i = j + 1 /\ j \in Nat
    BY <2>3, <2>4
  <2>6. j \notin S /\ j \in 0..n
    BY <2>3, <2>5
  <2>7. StartOf(c, j) = StartOf(b, j)
    BY <2>6
  <2>8. StartOf(c, j + 1) = PairEnd(c, StartOf(c, j)) /\ StartOf(b, j + 1) = PairEnd(b, StartOf(b, j))
    BY <2>5, StartsFollow
  <2>9. PairEnd(c, StartOf(b, j)) = PairEnd(b, StartOf(b, j))
    BY <1>2
  <2>10. QED
    BY <2>3, <2>5, <2>7, <2>8, <2>9
<1>4. \A i \in 0..n - 1 : StartOf(c, i) = StartOf(b, i)
  BY <1>3
<1>5. \A i \in 0..n - 1 : IsPair(c, StartOf(c, i))
  BY <1>2, <1>4 DEF IsLog, IsPair
<1>6. IsLog(c, n)
  <2>1. n \in 0..n /\ StartOf(c, n) = StartOf(b, n)
    BY <1>3
  <2>2. QED
    BY <1>3, <1>5, <2>1 DEF IsLog
<1>7. \A i \in 0..n - 1 : ValueAt(c, i) = ValueAt(b, i)
  BY <1>2, <1>4 DEF ValueAt
<1>8. \A i \in 0..n - 1 : Cut(c, StartOf(c, i)) = Cut(b, StartOf(b, i)) /\ Cut(c, ValueAt(c, i)) = Cut(b, ValueAt(b, i))
  BY <1>2, <1>4, <1>7 DEF ValueAt
<1>9. \A k : PairsOf(c, n, k) = PairsOf(b, n, k)
  BY <1>8 DEF PairsOf
<1>10. \A k : PairsOf(b, n, k) # {} => LatestOf(PairsOf(b, n, k)) \in 0..n - 1
  BY LatestIs
<1>11. Says(c, n) = Says(b, n)
  BY <1>7, <1>8, <1>9, <1>10 DEF Says
<1>12. PlacesOf(c, n) = PlacesOf(b, n)
  BY <1>7, <1>8, <1>9, <1>10 DEF PlacesOf
<1>13. QED
  BY <1>3, <1>4, <1>6, <1>7, <1>8, <1>11, <1>12

(* One pair more is what its key has from there on.                        *)
LEMMA OnePairMore ==
  ASSUME NEW b, NEW n \in Nat
  PROVE  LET k == Cut(b, StartOf(b, n)) IN
         /\ Says(b, n + 1) = [Says(b, n) EXCEPT ![k] = Cut(b, ValueAt(b, n))]
         /\ PlacesOf(b, n + 1) = [PlacesOf(b, n) EXCEPT ![k] = ValueAt(b, n)]
<1> DEFINE k == Cut(b, StartOf(b, n))
<1>1. ASSUME NEW o, o # k
      PROVE  PairsOf(b, n + 1, o) = PairsOf(b, n, o)
  <2>1. 0..(n + 1) - 1 = 0..n /\ \A i \in 0..n : i = n \/ i \in 0..n - 1
    OBVIOUS
  <2>2. QED
    BY <1>1, <2>1 DEF PairsOf
<1>2. PairsOf(b, n + 1, k) # {} /\ LatestOf(PairsOf(b, n + 1, k)) = n
  <2>1. n \in PairsOf(b, n + 1, k)
    BY DEF PairsOf
  <2>2. \A j \in PairsOf(b, n + 1, k) : j \in Nat /\ j <= n
    BY DEF PairsOf
  <2>3. \A i \in PairsOf(b, n + 1, k) : (\A j \in PairsOf(b, n + 1, k) : j <= i) => i = n
    BY <2>1, <2>2
  <2>4. QED
    BY <2>1, <2>2, <2>3 DEF LatestOf
<1>3. Says(b, n + 1) = [Says(b, n) EXCEPT ![k] = Cut(b, ValueAt(b, n))]
  BY <1>1, <1>2 DEF Says
<1>4. PlacesOf(b, n + 1) = [PlacesOf(b, n) EXCEPT ![k] = ValueAt(b, n)]
  BY <1>1, <1>2 DEF PlacesOf
<1>5. QED
  BY <1>3, <1>4

(* A log with a pair behind it is a longer log.                            *)
LEMMA LogGrows ==
  ASSUME NEW b, NEW n \in Nat, IsLog(b, n), IsPair(b, StartOf(b, n)), StartOf(b, n + 1) <= ExampleSize + 1
  PROVE  IsLog(b, n + 1)
<1> DEFINE x == StartOf(b, n)
           y == End(b, x)
<1>1. x \in Nat \ {0} /\ b[x] \in Nat /\ b[y] \in Nat
  BY ExampleAssumption DEF IsLog, IsPair
<1>2. StartOf(b, n + 1) = x + 1 + b[x] + 1 + b[y]
  BY StartsFollow DEF PairEnd, End
<1>3. StartOf(b, n + 1) \in 1..ExampleSize + 1 /\ x <= StartOf(b, n + 1)
  <2> HIDE DEF x, y
  <2>1. QED
    BY <1>1, <1>2, ExampleAssumption
<1>4. \A i \in 0..n + 1 : StartOf(b, i) \in 1..StartOf(b, n + 1)
  <2>1. SUFFICES ASSUME NEW i \in 0..n + 1
                 PROVE  StartOf(b, i) \in 1..StartOf(b, n + 1)
    OBVIOUS
  <2>2. CASE i = n + 1
    BY <1>3, <2>2
  <2>3. CASE i \in 0..n
    <3>1. StartOf(b, i) \in 1..x
      BY <2>3 DEF IsLog
    <3>2. QED
      BY <1>1, <1>3, <3>1
  <2>4. QED
    BY <2>2, <2>3
<1>5. \A i \in 0..(n + 1) - 1 : IsPair(b, StartOf(b, i))
  <2>1. \A i \in 0..(n + 1) - 1 : i = n \/ i \in 0..n - 1
    OBVIOUS
  <2>2. QED
    BY <2>1 DEF IsLog
<1>6. QED
  BY <1>3, <1>4, <1>5 DEF IsLog

(* The index and the log agree.                                            *)
LEMMA PlacesSay ==
  ASSUME NEW b, NEW n \in Nat, IsLog(b, n), NEW k \in ExampleKeys
  PROVE  /\ Says(b, n)[k] = IF PlacesOf(b, n)[k] = 0 THEN NotFound ELSE Cut(b, PlacesOf(b, n)[k])
         /\ PlacesOf(b, n)[k] \in 0..ExampleSize
         /\ Says(b, n)[k] \in ExampleValues \cup {NotFound}
<1>1. CASE PairsOf(b, n, k) = {}
  BY <1>1, ExampleAssumption DEF Says, PlacesOf
<1>2. CASE PairsOf(b, n, k) # {}
  <2>1. PICK i \in 0..n - 1 : i = LatestOf(PairsOf(b, n, k))
    BY <1>2, LatestIs
  <2>2. ValueAt(b, i) \in Nat \ {0} /\ ValueAt(b, i) <= ExampleSize
    BY LogOrder DEF ValueAt
  <2>3. Cut(b, ValueAt(b, i)) \in ExampleValues
    BY DEF IsLog, IsPair, ValueAt
  <2>4. Says(b, n)[k] = Cut(b, ValueAt(b, i)) /\ PlacesOf(b, n)[k] = ValueAt(b, i)
    BY <1>2, <2>1 DEF Says, PlacesOf
  <2>5. QED
    BY <2>2, <2>3, <2>4, ExampleAssumption
<1>3. QED
  BY <1>1, <1>2

------------------------------------------------------------------------------
(* nvm_example: its inductive invariant                                    *)

Cells == 1..ExampleSize
Contents == Nat \cup UNION {{s[i] : i \in 1..Len(s)} : s \in ExampleKeys \cup ExampleValues}
Storing == {"keysize", "key", "valuesize", "value", "count"}

ExampleTyped ==
  /\ disk \in [sequence : Nat, bytes : [Cells -> Contents]]
  /\ mem \in [hash_map : [ExampleKeys -> Nat], end_off : Nat]
  /\ client \in [op : Storing \cup {"idle", "index", "open"}, key : ExampleKeys \cup {Nothing},
                 value : ExampleValues \cup {Nothing}, current : Nat]
  /\ client.op \in Storing \cup {"index"} => client.key \in ExampleKeys /\ client.value \in ExampleValues
  /\ reply \in ExampleValues \cup {NotFound, Nothing}
  /\ client.op # "idle" => reply = Nothing

(* The end of the log, and of the pair a Set is about to store behind it.  *)
LogEnd == StartOf(disk.bytes, disk.sequence)
ValueStart == LogEnd + 1 + Len(client.key)
NewEnd == ValueStart + 1 + Len(client.value)

(* What of its pair a Set has stored, in bytes b, before each of its steps *)
(* up to the one that counts it.                                           *)
KeyStored(b) == b[LogEnd] = Len(client.key) /\ Cut(b, LogEnd) = client.key
StoredInv ==
  /\ client.op \in Storing => NewEnd <= ExampleSize
  /\ client.op \in {"idle", "keysize", "key"} => mem.end_off = LogEnd
  /\ client.op = "key" => disk.bytes[LogEnd] = Len(client.key)
  /\ client.op \in {"valuesize", "value", "count"} => KeyStored(disk.bytes)
  /\ client.op \in {"valuesize", "value"} => mem.end_off = ValueStart
  /\ client.op \in {"value", "count"} => disk.bytes[ValueStart] = Len(client.value)
  /\ client.op = "count" => Cut(disk.bytes, ValueStart) = client.value /\ mem.end_off = NewEnd

(* The index has the place of every counted pair but the one of a Set that *)
(* is about to put it there; a recovery's, of the pairs it has passed.     *)
PlacedInv ==
  /\ client.op \in Storing \cup {"idle"} => mem.hash_map = PlacesOf(disk.bytes, disk.sequence)
  /\ client.op = "index" =>
       /\ disk.sequence # 0 /\ mem.end_off = LogEnd
       /\ mem.hash_map = PlacesOf(disk.bytes, disk.sequence - 1)
       /\ Cut(disk.bytes, StartOf(disk.bytes, disk.sequence - 1)) = client.key
       /\ disk.bytes[ValueAt(disk.bytes, disk.sequence - 1)] = Len(client.value)
  /\ client.op = "open" =>
       /\ client.current \in 0..disk.sequence /\ mem.end_off = StartOf(disk.bytes, client.current)
       /\ mem.hash_map = PlacesOf(disk.bytes, client.current)

ExampleInv == ExampleTyped /\ IsLog(disk.bytes, disk.sequence) /\ StoredInv /\ PlacedInv

(* KVStore, of nvm_example alone.                                          *)
Durable == INSTANCE KVStore WITH
  Keys <- ExampleKeys, Answers <- ExampleValues, store <- Example!Logged, call <- Example!Call,
  up <- client.op # "open", reply <- reply

------------------------------------------------------------------------------
(* nvm_example: its steps                                                  *)

(* A slice is what it has at each place, and it fits in the file.          *)
LEMMA Slices ==
  /\ ExampleSize \in Nat
  /\ \A s \in ExampleKeys \cup ExampleValues : Len(s) \in Nat /\ s = [i \in 1..Len(s) |-> s[i]]
  /\ \A s \in ExampleKeys \cup ExampleValues : Len(s) \in Contents /\ \A i \in 1..Len(s) : s[i] \in Contents
  /\ Nothing \notin ExampleKeys
  /\ Nothing \notin [key : ExampleKeys, answer : ExampleValues, done : BOOLEAN]
BY ExampleAssumption DEF Contents

(* The order of a Set's steps.                                             *)
LEMMA Orders ==
  /\ Example!Then("idle") = "keysize" /\ Example!Then("keysize") = "key" /\ Example!Then("key") = "valuesize"
  /\ Example!Then("valuesize") = "value" /\ Example!Then("value") = "count" /\ Example!Then("count") = "index"
  /\ Example!Then("index") = "idle"
<1> DEFINE S == <<"idle", "keysize", "key", "valuesize", "value", "count", "index", "idle">>
<1>1. \A i \in 1..7 : i = 1 \/ i = 2 \/ i = 3 \/ i = 4 \/ i = 5 \/ i = 6 \/ i = 7
  OBVIOUS
<1>2. ASSUME NEW n \in 1..7, NEW op, op = S[n]
      PROVE  (CHOOSE i \in 1..7 : S[i] = op) = n
  BY <1>1, <1>2
<1>3. \A n \in 1..7 : Example!Then(S[n]) = S[n + 1]
  <2>1. SUFFICES ASSUME NEW n \in 1..7
                 PROVE  Example!Then(S[n]) = S[n + 1]
    OBVIOUS
  <2>2. PICK op : op = S[n]
    OBVIOUS
  <2>3. (CHOOSE i \in 1..7 : S[i] = op) = n
    BY <1>2, <2>2
  <2>4. QED
    BY <2>2, <2>3 DEF Example!Then, Example!Steps
<1>4. QED
  BY <1>3

(* What a state of the invariant is.                                       *)
ExampleParts ==
  /\ disk.sequence \in Nat /\ disk.bytes \in [Cells -> Contents] /\ mem.end_off \in Nat
  /\ mem.hash_map \in [ExampleKeys -> Nat] /\ client.current \in Nat
  /\ LogEnd \in 1..ExampleSize + 1
  /\ client.op \in Storing \cup {"idle", "index", "open"}
  /\ client.op \in Storing \cup {"index"} =>
       client.key \in ExampleKeys /\ client.value \in ExampleValues
       /\ Len(client.key) \in Nat /\ Len(client.value) \in Nat /\ ValueStart \in Nat /\ NewEnd \in Nat
       /\ ValueStart > LogEnd /\ NewEnd > ValueStart

(* A state of these types has parts of these types.                        *)
LEMMA ExampleFields == ExampleInv => ExampleParts
<1> SUFFICES ASSUME ExampleInv
             PROVE  ExampleParts
  OBVIOUS
<1>1. /\ disk.sequence \in Nat /\ disk.bytes \in [Cells -> Contents] /\ mem.end_off \in Nat
      /\ mem.hash_map \in [ExampleKeys -> Nat] /\ client.current \in Nat
      /\ client.op \in Storing \cup {"idle", "index", "open"}
      /\ client.op \in Storing \cup {"index"} => client.key \in ExampleKeys /\ client.value \in ExampleValues
  BY DEF ExampleInv, ExampleTyped
<1>2. LogEnd \in 1..ExampleSize + 1
  BY DEF ExampleInv, IsLog, LogEnd
<1>3. client.op \in Storing \cup {"index"} => Len(client.key) \in Nat /\ Len(client.value) \in Nat
  BY <1>1, Slices
<1>4. client.op \in Storing \cup {"index"} =>
        ValueStart \in Nat /\ NewEnd \in Nat /\ ValueStart > LogEnd /\ NewEnd > ValueStart
  <2>1. SUFFICES ASSUME client.op \in Storing \cup {"index"}
                 PROVE  ValueStart \in Nat /\ NewEnd \in Nat /\ ValueStart > LogEnd /\ NewEnd > ValueStart
    OBVIOUS
  <2>2. PICK e, k, v \in Nat : e = LogEnd /\ k = Len(client.key) /\ v = Len(client.value)
    BY <1>2, <1>3, <2>1, Slices
  <2>3. ValueStart = e + 1 + k /\ NewEnd = ValueStart + 1 + v
    BY <2>2 DEF ValueStart, NewEnd
  <2>4. e = LogEnd
    BY <2>2
  <2>5. QED
    BY <2>3, <2>4
<1>5. QED
  BY <1>1, <1>2, <1>3, <1>4 DEF ExampleParts

(* A step that adds only behind the log keeps what it says, and so the     *)
(* store the client sees.                                                  *)
LEMMA BehindTheLog ==
  ASSUME ExampleInv, disk'.sequence = disk.sequence, \A x \in 1..LogEnd - 1 : disk'.bytes[x] = disk.bytes[x]
  PROVE  /\ IsLog(disk'.bytes, disk'.sequence) /\ LogEnd' = LogEnd
         /\ Says(disk'.bytes, disk'.sequence) = Says(disk.bytes, disk.sequence)
         /\ PlacesOf(disk'.bytes, disk'.sequence) = PlacesOf(disk.bytes, disk.sequence)
         /\ Example!Logged' = Example!Logged
<1>1. disk.sequence \in Nat /\ IsLog(disk.bytes, disk.sequence)
  BY ExampleFields DEF ExampleParts, ExampleInv
<1>2. PICK b, c, n : b = disk.bytes /\ c = disk'.bytes /\ n = disk.sequence
  OBVIOUS
<1>3. n \in Nat /\ IsLog(b, n) /\ n = disk'.sequence /\ \A x \in 1..StartOf(b, n) - 1 : c[x] = b[x]
  BY <1>1, <1>2 DEF LogEnd
<1>4. IsLog(c, n) /\ Says(c, n) = Says(b, n) /\ PlacesOf(c, n) = PlacesOf(b, n) /\ StartOf(c, n) = StartOf(b, n)
  <2>1. (\A i \in 0..n : StartOf(c, i) = StartOf(b, i)) /\ IsLog(c, n) /\ Says(c, n) = Says(b, n) /\ PlacesOf(c, n) = PlacesOf(b, n)
    <3>1. n \in Nat /\ IsLog(b, n)
      BY <1>3
    <3>2. \A x \in 1..StartOf(b, n) - 1 : c[x] = b[x]
      BY <1>3
    <3>3. /\ \A i \in 0..n : StartOf(c, i) = StartOf(b, i)
          /\ IsLog(c, n) /\ Says(c, n) = Says(b, n) /\ PlacesOf(c, n) = PlacesOf(b, n)
          /\ \A i \in 0..n - 1 : /\ Cut(c, StartOf(b, i)) = Cut(b, StartOf(b, i))
                                 /\ ValueAt(c, i) = ValueAt(b, i) /\ Cut(c, ValueAt(b, i)) = Cut(b, ValueAt(b, i))
      BY <3>1, <3>2, LogStays
    <3>4. QED
      BY <3>3
  <2>2. n \in 0..n
    BY <1>3
  <2>3. QED
    BY <2>1, <2>2
<1>5. LogEnd' = LogEnd
  BY <1>2, <1>3, <1>4 DEF LogEnd
<1>6. Example!Logged = Says(b, n)
  BY <1>1, <1>2, LoggedIsSaid
<1>7. (disk.sequence \in Nat => Example!Logged = Says(disk.bytes, disk.sequence))'
  BY LoggedIsSaid, PTL
<1>8. Example!Logged' = Says(c, n)
  BY <1>2, <1>3, <1>7
<1>9. QED
  BY <1>2, <1>3, <1>4, <1>5, <1>6, <1>8

(* A step of nvm_example as one of a KVStore.                              *)
DurableStep == [Durable!Next]_(Durable!vars)

(* A step of a Set that stores a piece is none that the client sees.       *)
LEMMA PushMaps ==
  ASSUME ExampleInv, Example!Logged' = Example!Logged, client.op \in Storing, client' = [client EXCEPT !.op = Example!Then(@)],
         client.op # "count", reply' = Nothing
  PROVE  DurableStep
<1>1. reply = Nothing /\ client.op # "idle" /\ client.op # "open" /\ client.op # "index"
  BY DEF ExampleInv, ExampleTyped, Storing
<1>2. client.op = "keysize" \/ client.op = "key" \/ client.op = "valuesize" \/ client.op = "value"
  BY DEF Storing
<1>3. client'.op \in {"key", "valuesize", "value", "count"} /\ client'.key = client.key /\ client'.value = client.value
  <2>1. client \in [op : Storing \cup {"idle", "index", "open"}, key : ExampleKeys \cup {Nothing},
                    value : ExampleValues \cup {Nothing}, current : Nat]
    BY DEF ExampleInv, ExampleTyped
  <2>2. client'.op = Example!Then(client.op) /\ client'.key = client.key /\ client'.value = client.value
    BY <2>1
  <2>3. QED
    BY <1>2, <2>2, Orders
<1>4. Example!Call' = Example!Call
  BY <1>1, <1>3 DEF Example!Call
<1>5. (client.op # "open")' = (client.op # "open")
  BY <1>1, <1>3
<1>6. QED
  BY <1>1, <1>4, <1>5 DEF DurableStep, Durable!vars

(* What the next step of a Set leaves of a client, and its type.           *)
LEMMA NextStep ==
  ASSUME ExampleInv, NEW op \in Storing \cup {"index"}, client.op = op, client' = [client EXCEPT !.op = Example!Then(@)]
  PROVE  /\ client'.op = Example!Then(op) /\ client'.op \in Storing \cup {"index", "idle"} /\ client'.op # "keysize"
         /\ client'.key = client.key /\ client'.value = client.value
         /\ client' \in [op : Storing \cup {"idle", "index", "open"}, key : ExampleKeys \cup {Nothing},
                         value : ExampleValues \cup {Nothing}, current : Nat]
         /\ client'.key \in ExampleKeys /\ client'.value \in ExampleValues
<1>1. client \in [op : Storing \cup {"idle", "index", "open"}, key : ExampleKeys \cup {Nothing},
                  value : ExampleValues \cup {Nothing}, current : Nat]
      /\ client.key \in ExampleKeys /\ client.value \in ExampleValues
  BY DEF ExampleInv, ExampleTyped
<1>2. client'.op = Example!Then(op) /\ client'.key = client.key /\ client'.value = client.value /\ client'.current = client.current
  BY <1>1
<1>3. Example!Then(op) \in Storing \cup {"index", "idle"} /\ Example!Then(op) # "keysize"
  BY Orders DEF Storing
<1>4. client' = [client EXCEPT !.op = Example!Then(op)]
  OBVIOUS
<1>5. client' \in [op : Storing \cup {"idle", "index", "open"}, key : ExampleKeys \cup {Nothing},
                   value : ExampleValues \cup {Nothing}, current : Nat]
  BY <1>1, <1>3, <1>4
<1>6. QED
  BY <1>1, <1>2, <1>3, <1>5

(* The size of a slice goes where its file ends.                           *)
LEMMA PushSizeStores ==
  ASSUME ExampleInv, NEW e \in Cells, mem.end_off = e, NEW s \in ExampleKeys \cup ExampleValues,
         disk' = [disk EXCEPT !.bytes[mem.end_off] = Len(s)]
  PROVE  /\ disk' \in [sequence : Nat, bytes : [Cells -> Contents]] /\ disk'.sequence = disk.sequence
         /\ disk'.bytes[e] = Len(s) /\ \A x : x # e => disk'.bytes[x] = disk.bytes[x]
<1>1. disk \in [sequence : Nat, bytes : [Cells -> Contents]]
  BY DEF ExampleInv, ExampleTyped
<1>2. PICK c : c = [disk.bytes EXCEPT ![e] = Len(s)]
  OBVIOUS
<1>3. c \in [Cells -> Contents] /\ c[e] = Len(s)
  BY <1>1, <1>2, Slices
<1>4. \A x : x # e => c[x] = disk.bytes[x]
  BY <1>1, <1>2
<1>5. disk' = [disk EXCEPT !.bytes = c]
  BY <1>2
<1>6. disk' \in [sequence : Nat, bytes : [Cells -> Contents]] /\ disk'.sequence = disk.sequence /\ disk'.bytes = c
  BY <1>1, <1>3, <1>5
<1>7. QED
  BY <1>3, <1>4, <1>6

(* Its bytes go behind the size.                                           *)
LEMMA PushBytesStores ==
  ASSUME ExampleInv, NEW e \in Cells, mem.end_off = e, NEW s \in ExampleKeys \cup ExampleValues, e + Len(s) <= ExampleSize,
         disk.bytes[e] = Len(s),
         disk' = [disk EXCEPT !.bytes =
           [i \in 1..ExampleSize |-> IF i - (mem.end_off + 1) \in 0..Len(s) - 1 THEN s[i - (mem.end_off + 1) + 1] ELSE @[i]]]
  PROVE  /\ disk' \in [sequence : Nat, bytes : [Cells -> Contents]] /\ disk'.sequence = disk.sequence
         /\ \A x \in 1..e : disk'.bytes[x] = disk.bytes[x]
         /\ disk'.bytes[e] = Len(s) /\ Cut(disk'.bytes, e) = s
<1>1. disk \in [sequence : Nat, bytes : [Cells -> Contents]] /\ Len(s) \in Nat /\ e \in Nat /\ ExampleSize \in Nat
  BY Slices DEF ExampleInv, ExampleTyped, Cells
<1>2. PICK c : c = [i \in Cells |-> IF i - (e + 1) \in 0..Len(s) - 1 THEN s[i - (e + 1) + 1] ELSE disk.bytes[i]]
  OBVIOUS
<1>3. \A i \in Cells : c[i] \in Contents
  <2>1. SUFFICES ASSUME NEW i \in Cells
                 PROVE  c[i] \in Contents
    OBVIOUS
  <2>2. CASE i - (e + 1) \in 0..Len(s) - 1
    <3>1. i - (e + 1) + 1 \in 1..Len(s)
      BY <1>1, <2>2 DEF Cells
    <3>2. c[i] = s[i - (e + 1) + 1]
      BY <1>2, <2>2
    <3>3. QED
      BY <3>1, <3>2, Slices
  <2>3. CASE ~(i - (e + 1) \in 0..Len(s) - 1)
    <3>1. c[i] = disk.bytes[i]
      BY <1>2, <2>3
    <3>2. QED
      BY <1>1, <3>1
  <2>4. QED
    BY <2>2, <2>3
<1>4. c \in [Cells -> Contents]
  BY <1>2, <1>3
<1>5. disk' = [disk EXCEPT !.bytes = c]
  BY <1>2 DEF Cells
<1>6. disk' \in [sequence : Nat, bytes : [Cells -> Contents]] /\ disk'.sequence = disk.sequence /\ disk'.bytes = c
  BY <1>1, <1>4, <1>5
<1>7. \A x \in 1..e : c[x] = disk.bytes[x]
  <2>1. SUFFICES ASSUME NEW x \in 1..e
                 PROVE  c[x] = disk.bytes[x]
    OBVIOUS
  <2>2. x \in Cells /\ ~(x - (e + 1) \in 0..Len(s) - 1)
    BY <1>1 DEF Cells
  <2>3. QED
    BY <1>2, <2>2
<1>8. c[e] = Len(s)
  <2>1. e \in 1..e
    BY <1>1 DEF Cells
  <2>2. QED
    BY <1>7, <2>1
<1>9. \A i \in 1..Len(s) : c[e + i] = s[i]
  <2>1. SUFFICES ASSUME NEW i \in 1..Len(s)
                 PROVE  c[e + i] = s[i]
    OBVIOUS
  <2>2. e + i \in Cells /\ (e + i) - (e + 1) \in 0..Len(s) - 1 /\ (e + i) - (e + 1) + 1 = i
    <3>1. PICK l \in Nat : l = Len(s)
      BY <1>1
    <3>2. i \in 1..l /\ e + l <= ExampleSize
      BY <3>1
    <3>3. e + i \in Cells /\ (e + i) - (e + 1) \in 0..l - 1 /\ (e + i) - (e + 1) + 1 = i
      BY <1>1, <3>2 DEF Cells
    <3>4. QED
      BY <3>1, <3>3
  <2>3. QED
    BY <1>2, <2>2
<1>10. Cut(c, e) = s
  <2>1. Cut(c, e) = [i \in 1..Len(s) |-> s[i]]
    BY <1>8, <1>9 DEF Cut
  <2>2. s = [i \in 1..Len(s) |-> s[i]]
    BY Slices
  <2>3. QED
    BY <2>1, <2>2
<1>11. QED
  BY <1>6, <1>7, <1>8, <1>10

------------------------------------------------------------------------------
(* nvm_example: every step keeps the invariant and is one of KVStore       *)

(* Nothing moves but the client, or nothing at all.                        *)
LEMMA LogSame ==
  ASSUME ExampleInv, disk' = disk
  PROVE  /\ IsLog(disk'.bytes, disk'.sequence) /\ LogEnd' = LogEnd /\ Example!Logged' = Example!Logged
         /\ disk' \in [sequence : Nat, bytes : [Cells -> Contents]]
  BY BehindTheLog DEF ExampleInv, ExampleTyped

(* Set: the client has the pair that is to go behind the log.              *)
LEMMA ExampleSetKeeps ==
  ASSUME ExampleInv, NEW k \in ExampleKeys, NEW v \in ExampleValues, Example!Set(k, v)
  PROVE  ExampleInv' /\ DurableStep
<1>1. /\ client.op = "idle" /\ mem.end_off + 1 + Len(k) + Len(v) < ExampleSize
      /\ client' = [Example!Idle EXCEPT !.op = "keysize", !.key = k, !.value = v]
      /\ reply' = Nothing /\ disk' = disk /\ mem' = mem
  BY Orders DEF Example!Set
<1>2. client' = [op |-> "keysize", key |-> k, value |-> v, current |-> 0]
  BY <1>1 DEF Example!Idle
<1>3. ExampleTyped'
  BY <1>1, <1>2 DEF ExampleInv, ExampleTyped, Storing
<1>4. mem.end_off = LogEnd /\ mem.hash_map = PlacesOf(disk.bytes, disk.sequence)
  BY <1>1 DEF ExampleInv, StoredInv, PlacedInv
<1>5. NewEnd' <= ExampleSize
  <2>1. NewEnd' = LogEnd + 1 + Len(k) + 1 + Len(v)
    BY <1>2, LogSame, <1>1 DEF NewEnd, ValueStart
  <2>2. LogEnd \in Nat /\ Len(k) \in Nat /\ Len(v) \in Nat
    BY Slices, ExampleFields DEF ExampleParts
  <2>3. PICK e, l, m \in Nat : e = LogEnd /\ l = Len(k) /\ m = Len(v)
    BY <2>2
  <2>4. e + 1 + l + m < ExampleSize
    BY <1>1, <1>4, <2>3
  <2>5. e + 1 + l + 1 + m <= ExampleSize
    BY <2>4, Slices
  <2>6. QED
    BY <2>1, <2>3, <2>5
<1>6. StoredInv' /\ PlacedInv'
  BY <1>1, <1>2, <1>4, <1>5, LogSame DEF StoredInv, PlacedInv, Storing
<1>7. Durable!Begin(k, v)
  <2>1. Example!Call = Nothing /\ Example!Call' = [key |-> k, answer |-> v, done |-> FALSE]
    BY <1>1, <1>2 DEF Example!Call
  <2>2. QED
    BY <1>1, <1>2, <2>1, LogSame DEF Durable!Begin
<1>8. QED
  BY <1>1, <1>3, <1>6, <1>7, LogSame DEF ExampleInv, DurableStep, Durable!Next

(* _push_back of the key's size.                                           *)
LEMMA KeySizeKeeps ==
  ASSUME ExampleInv, Example!PushSize("keysize", client.key)
  PROVE  ExampleInv' /\ DurableStep
<1>1. /\ client.op = "keysize" /\ disk' = [disk EXCEPT !.bytes[mem.end_off] = Len(client.key)]
      /\ client' = [client EXCEPT !.op = Example!Then(@)] /\ reply' = Nothing /\ mem' = mem
  BY DEF Example!PushSize, Example!Advance
<1>2. /\ client'.op = "key" /\ client'.key = client.key /\ client'.value = client.value
      /\ client' \in [op : Storing \cup {"idle", "index", "open"}, key : ExampleKeys \cup {Nothing},
                      value : ExampleValues \cup {Nothing}, current : Nat]
      /\ client'.key \in ExampleKeys /\ client'.value \in ExampleValues
  BY <1>1, NextStep, Orders DEF Storing
<1>3. mem.end_off = LogEnd /\ LogEnd \in Cells /\ NewEnd <= ExampleSize /\ mem.hash_map = PlacesOf(disk.bytes, disk.sequence)
  <2>1. mem.end_off = LogEnd /\ NewEnd <= ExampleSize /\ mem.hash_map = PlacesOf(disk.bytes, disk.sequence)
    BY <1>1 DEF ExampleInv, StoredInv, PlacedInv, Storing
  <2>2. LogEnd \in Nat \ {0} /\ ValueStart \in Nat /\ NewEnd \in Nat /\ LogEnd < ValueStart /\ ValueStart < NewEnd
    BY <1>1, ExampleFields, Slices DEF ExampleParts, Storing
  <2>3. QED
    BY <2>1, <2>2, Slices DEF Cells
<1>4. /\ disk' \in [sequence : Nat, bytes : [Cells -> Contents]] /\ disk'.sequence = disk.sequence
      /\ disk'.bytes[LogEnd] = Len(client.key) /\ \A x : x # LogEnd => disk'.bytes[x] = disk.bytes[x]
  BY <1>1, <1>2, <1>3, PushSizeStores
<1>5. \A x \in 1..LogEnd - 1 : disk'.bytes[x] = disk.bytes[x]
  BY <1>3, <1>4, Slices DEF Cells
<1>6. /\ IsLog(disk'.bytes, disk'.sequence) /\ LogEnd' = LogEnd
      /\ PlacesOf(disk'.bytes, disk'.sequence) = PlacesOf(disk.bytes, disk.sequence) /\ Example!Logged' = Example!Logged
  BY <1>4, <1>5, BehindTheLog
<1>7. NewEnd' = NewEnd
  BY <1>2, <1>6 DEF NewEnd, ValueStart
<1>8. ExampleTyped'
  BY <1>1, <1>2, <1>4 DEF ExampleInv, ExampleTyped
<1>9. StoredInv' /\ PlacedInv'
  BY <1>1, <1>2, <1>3, <1>4, <1>6, <1>7 DEF StoredInv, PlacedInv, Storing
<1>10. DurableStep
  BY <1>1, <1>6, PushMaps DEF Storing
<1>11. QED
  BY <1>6, <1>8, <1>9, <1>10 DEF ExampleInv

(* _push_back of its bytes.                                                *)
LEMMA KeyBytesKeep ==
  ASSUME ExampleInv, Example!PushBytes("key", client.key)
  PROVE  ExampleInv' /\ DurableStep
<1>1. /\ client.op = "key" /\ mem' = [mem EXCEPT !.end_off = mem.end_off + 1 + Len(client.key)]
      /\ disk' = [disk EXCEPT !.bytes =
           [i \in 1..ExampleSize |-> IF i - (mem.end_off + 1) \in 0..Len(client.key) - 1
                                     THEN client.key[i - (mem.end_off + 1) + 1] ELSE @[i]]]
      /\ client' = [client EXCEPT !.op = Example!Then(@)] /\ reply' = Nothing
  BY DEF Example!PushBytes, Example!Advance
<1>2. /\ client'.op = "valuesize" /\ client'.key = client.key /\ client'.value = client.value
      /\ client' \in [op : Storing \cup {"idle", "index", "open"}, key : ExampleKeys \cup {Nothing},
                      value : ExampleValues \cup {Nothing}, current : Nat]
      /\ client'.key \in ExampleKeys /\ client'.value \in ExampleValues
  BY <1>1, NextStep, Orders DEF Storing
<1>3. /\ mem.end_off = LogEnd /\ LogEnd \in Cells /\ NewEnd <= ExampleSize
      /\ mem.hash_map = PlacesOf(disk.bytes, disk.sequence) /\ disk.bytes[LogEnd] = Len(client.key)
      /\ LogEnd + Len(client.key) <= ExampleSize
  <2>1. mem.end_off = LogEnd /\ NewEnd <= ExampleSize /\ mem.hash_map = PlacesOf(disk.bytes, disk.sequence)
        /\ disk.bytes[LogEnd] = Len(client.key)
    BY <1>1 DEF ExampleInv, StoredInv, PlacedInv, Storing
  <2>2. /\ LogEnd \in Nat \ {0} /\ ValueStart \in Nat /\ NewEnd \in Nat /\ LogEnd < ValueStart /\ ValueStart < NewEnd
        /\ Len(client.key) \in Nat
    BY <1>1, ExampleFields, Slices DEF ExampleParts, Storing
  <2>3. ValueStart = LogEnd + 1 + Len(client.key)
    BY DEF ValueStart
  <2>4. QED
    BY <2>1, <2>2, <2>3, Slices DEF Cells
<1>4. /\ disk' \in [sequence : Nat, bytes : [Cells -> Contents]] /\ disk'.sequence = disk.sequence
      /\ \A x \in 1..LogEnd : disk'.bytes[x] = disk.bytes[x]
      /\ disk'.bytes[LogEnd] = Len(client.key) /\ Cut(disk'.bytes, LogEnd) = client.key
  BY <1>1, <1>2, <1>3, PushBytesStores
<1>5. \A x \in 1..LogEnd - 1 : disk'.bytes[x] = disk.bytes[x]
  BY <1>3, <1>4, Slices DEF Cells
<1>6. /\ IsLog(disk'.bytes, disk'.sequence) /\ LogEnd' = LogEnd
      /\ PlacesOf(disk'.bytes, disk'.sequence) = PlacesOf(disk.bytes, disk.sequence) /\ Example!Logged' = Example!Logged
  BY <1>4, <1>5, BehindTheLog
<1>7. NewEnd' = NewEnd /\ ValueStart' = ValueStart
  BY <1>2, <1>6 DEF NewEnd, ValueStart
<1>8. mem' \in [hash_map : [ExampleKeys -> Nat], end_off : Nat] /\ mem'.hash_map = mem.hash_map /\ mem'.end_off = ValueStart
  <2>1. mem \in [hash_map : [ExampleKeys -> Nat], end_off : Nat]
    BY DEF ExampleInv, ExampleTyped
  <2>2. ValueStart = mem.end_off + 1 + Len(client.key) /\ ValueStart \in Nat
    BY <1>1, <1>3, ExampleFields DEF ExampleParts, Storing, ValueStart
  <2>3. mem' = [mem EXCEPT !.end_off = ValueStart]
    BY <1>1, <2>2
  <2>4. QED
    BY <2>1, <2>2, <2>3
<1>9. ExampleTyped'
  BY <1>1, <1>2, <1>4, <1>8 DEF ExampleInv, ExampleTyped
<1>10. KeyStored(disk.bytes)'
  BY <1>2, <1>4, <1>6 DEF KeyStored
<1>11. StoredInv' /\ PlacedInv'
  BY <1>1, <1>2, <1>3, <1>4, <1>6, <1>7, <1>8, <1>10 DEF StoredInv, PlacedInv, Storing
<1>12. DurableStep
  BY <1>1, <1>6, PushMaps DEF Storing
<1>13. QED
  BY <1>6, <1>9, <1>11, <1>12 DEF ExampleInv

(* A stored key stays, as what is behind it is stored.                     *)
LEMMA KeyStays ==
  ASSUME ExampleInv, client.op \in Storing, KeyStored(disk.bytes), client'.key = client.key, LogEnd' = LogEnd,
         \A x \in 1..ValueStart - 1 : disk'.bytes[x] = disk.bytes[x]
  PROVE  KeyStored(disk.bytes)'
<1>1. LogEnd \in Nat \ {0} /\ Len(client.key) \in Nat /\ ValueStart = LogEnd + 1 + Len(client.key)
  BY ExampleFields, Slices DEF ExampleParts, ValueStart
<1>2. PICK e, l \in Nat : e = LogEnd /\ l = Len(client.key) /\ e # 0 /\ ValueStart = e + 1 + l
  BY <1>1
<1>3. PICK b, c : b = disk.bytes /\ c = disk'.bytes
  OBVIOUS
<1>4. \A x \in 1..e + l : c[x] = b[x]
  <2>1. (e + 1 + l) - 1 = e + l
    OBVIOUS
  <2>2. QED
    BY <1>2, <1>3, <2>1
<1>5. b[e] = l /\ Cut(b, e) = client.key
  BY <1>2, <1>3 DEF KeyStored
<1>6. c[e] = l
  BY <1>2, <1>4, <1>5
<1>7. \A i \in 1..l : c[e + i] = b[e + i]
  BY <1>2, <1>4
<1>8. Cut(c, e) = Cut(b, e)
  BY <1>5, <1>6, <1>7 DEF Cut
<1>9. QED
  BY <1>2, <1>3, <1>5, <1>6, <1>8 DEF KeyStored

(* _push_back of the value's size.                                         *)
LEMMA ValueSizeKeeps ==
  ASSUME ExampleInv, Example!PushSize("valuesize", client.value)
  PROVE  ExampleInv' /\ DurableStep
<1>1. /\ client.op = "valuesize" /\ disk' = [disk EXCEPT !.bytes[mem.end_off] = Len(client.value)]
      /\ client' = [client EXCEPT !.op = Example!Then(@)] /\ reply' = Nothing /\ mem' = mem
  BY DEF Example!PushSize, Example!Advance
<1>2. /\ client'.op = "value" /\ client'.key = client.key /\ client'.value = client.value
      /\ client' \in [op : Storing \cup {"idle", "index", "open"}, key : ExampleKeys \cup {Nothing},
                      value : ExampleValues \cup {Nothing}, current : Nat]
      /\ client'.key \in ExampleKeys /\ client'.value \in ExampleValues
  BY <1>1, NextStep, Orders DEF Storing
<1>3. /\ mem.end_off = ValueStart /\ ValueStart \in Cells /\ NewEnd <= ExampleSize /\ LogEnd \in Nat /\ LogEnd < ValueStart
      /\ mem.hash_map = PlacesOf(disk.bytes, disk.sequence) /\ KeyStored(disk.bytes)
  <2>1. /\ mem.end_off = ValueStart /\ NewEnd <= ExampleSize /\ mem.hash_map = PlacesOf(disk.bytes, disk.sequence)
        /\ KeyStored(disk.bytes)
    BY <1>1 DEF ExampleInv, StoredInv, PlacedInv, Storing
  <2>2. LogEnd \in Nat \ {0} /\ ValueStart \in Nat /\ NewEnd \in Nat /\ LogEnd < ValueStart /\ ValueStart < NewEnd
    BY <1>1, ExampleFields, Slices DEF ExampleParts, Storing
  <2>3. QED
    BY <2>1, <2>2, Slices DEF Cells
<1>4. /\ disk' \in [sequence : Nat, bytes : [Cells -> Contents]] /\ disk'.sequence = disk.sequence
      /\ disk'.bytes[ValueStart] = Len(client.value) /\ \A x : x # ValueStart => disk'.bytes[x] = disk.bytes[x]
  BY <1>1, <1>2, <1>3, PushSizeStores
<1>5. \A x \in 1..ValueStart - 1 : disk'.bytes[x] = disk.bytes[x]
  BY <1>3, <1>4, Slices DEF Cells
<1>6. \A x \in 1..LogEnd - 1 : disk'.bytes[x] = disk.bytes[x]
  <2>1. 1..LogEnd - 1 \subseteq 1..ValueStart - 1
    BY <1>3, Slices DEF Cells
  <2>2. QED
    BY <1>5, <2>1
<1>7. /\ IsLog(disk'.bytes, disk'.sequence) /\ LogEnd' = LogEnd
      /\ PlacesOf(disk'.bytes, disk'.sequence) = PlacesOf(disk.bytes, disk.sequence) /\ Example!Logged' = Example!Logged
  BY <1>4, <1>6, BehindTheLog
<1>8. NewEnd' = NewEnd /\ ValueStart' = ValueStart
  BY <1>2, <1>7 DEF NewEnd, ValueStart
<1>9. KeyStored(disk.bytes)'
  BY <1>1, <1>2, <1>3, <1>5, <1>7, KeyStays DEF Storing
<1>10. ExampleTyped'
  BY <1>1, <1>2, <1>4 DEF ExampleInv, ExampleTyped
<1>11. StoredInv' /\ PlacedInv'
  BY <1>1, <1>2, <1>3, <1>4, <1>7, <1>8, <1>9 DEF StoredInv, PlacedInv, Storing
<1>12. DurableStep
  BY <1>1, <1>7, PushMaps DEF Storing
<1>13. QED
  BY <1>7, <1>10, <1>11, <1>12 DEF ExampleInv

(* _push_back of its bytes.                                                *)
LEMMA ValueBytesKeep ==
  ASSUME ExampleInv, Example!PushBytes("value", client.value)
  PROVE  ExampleInv' /\ DurableStep
<1>1. /\ client.op = "value" /\ mem' = [mem EXCEPT !.end_off = mem.end_off + 1 + Len(client.value)]
      /\ disk' = [disk EXCEPT !.bytes =
           [i \in 1..ExampleSize |-> IF i - (mem.end_off + 1) \in 0..Len(client.value) - 1
                                     THEN client.value[i - (mem.end_off + 1) + 1] ELSE @[i]]]
      /\ client' = [client EXCEPT !.op = Example!Then(@)] /\ reply' = Nothing
  BY DEF Example!PushBytes, Example!Advance
<1>2. /\ client'.op = "count" /\ client'.key = client.key /\ client'.value = client.value
      /\ client' \in [op : Storing \cup {"idle", "index", "open"}, key : ExampleKeys \cup {Nothing},
                      value : ExampleValues \cup {Nothing}, current : Nat]
      /\ client'.key \in ExampleKeys /\ client'.value \in ExampleValues
  BY <1>1, NextStep, Orders DEF Storing
<1>3. /\ mem.end_off = ValueStart /\ ValueStart \in Cells /\ NewEnd <= ExampleSize /\ LogEnd \in Nat /\ LogEnd < ValueStart
      /\ mem.hash_map = PlacesOf(disk.bytes, disk.sequence) /\ KeyStored(disk.bytes)
      /\ disk.bytes[ValueStart] = Len(client.value) /\ ValueStart + Len(client.value) <= ExampleSize
      /\ NewEnd = ValueStart + 1 + Len(client.value) /\ NewEnd \in Nat
  <2>1. /\ mem.end_off = ValueStart /\ NewEnd <= ExampleSize /\ mem.hash_map = PlacesOf(disk.bytes, disk.sequence)
        /\ KeyStored(disk.bytes) /\ disk.bytes[ValueStart] = Len(client.value)
    BY <1>1 DEF ExampleInv, StoredInv, PlacedInv, Storing
  <2>2. /\ LogEnd \in Nat \ {0} /\ ValueStart \in Nat /\ NewEnd \in Nat /\ LogEnd < ValueStart /\ ValueStart < NewEnd
        /\ Len(client.value) \in Nat
    BY <1>1, ExampleFields, Slices DEF ExampleParts, Storing
  <2>3. NewEnd = ValueStart + 1 + Len(client.value)
    BY DEF NewEnd
  <2>4. QED
    BY <2>1, <2>2, <2>3, Slices DEF Cells
<1>4. /\ disk' \in [sequence : Nat, bytes : [Cells -> Contents]] /\ disk'.sequence = disk.sequence
      /\ \A x \in 1..ValueStart : disk'.bytes[x] = disk.bytes[x]
      /\ disk'.bytes[ValueStart] = Len(client.value) /\ Cut(disk'.bytes, ValueStart) = client.value
  BY <1>1, <1>2, <1>3, PushBytesStores
<1>5. \A x \in 1..ValueStart - 1 : disk'.bytes[x] = disk.bytes[x]
  BY <1>3, <1>4, Slices DEF Cells
<1>6. \A x \in 1..LogEnd - 1 : disk'.bytes[x] = disk.bytes[x]
  <2>1. 1..LogEnd - 1 \subseteq 1..ValueStart - 1
    BY <1>3, Slices DEF Cells
  <2>2. QED
    BY <1>5, <2>1
<1>7. /\ IsLog(disk'.bytes, disk'.sequence) /\ LogEnd' = LogEnd
      /\ PlacesOf(disk'.bytes, disk'.sequence) = PlacesOf(disk.bytes, disk.sequence) /\ Example!Logged' = Example!Logged
  BY <1>4, <1>6, BehindTheLog
<1>8. NewEnd' = NewEnd /\ ValueStart' = ValueStart
  BY <1>2, <1>7 DEF NewEnd, ValueStart
<1>9. KeyStored(disk.bytes)'
  BY <1>1, <1>2, <1>3, <1>5, <1>7, KeyStays DEF Storing
<1>10. mem' \in [hash_map : [ExampleKeys -> Nat], end_off : Nat] /\ mem'.hash_map = mem.hash_map /\ mem'.end_off = NewEnd
  <2>1. mem \in [hash_map : [ExampleKeys -> Nat], end_off : Nat]
    BY DEF ExampleInv, ExampleTyped
  <2>2. mem' = [mem EXCEPT !.end_off = NewEnd]
    BY <1>1, <1>3
  <2>3. QED
    BY <1>3, <2>1, <2>2
<1>11. ExampleTyped'
  BY <1>1, <1>2, <1>4, <1>10 DEF ExampleInv, ExampleTyped
<1>12. StoredInv' /\ PlacedInv'
  BY <1>1, <1>2, <1>3, <1>4, <1>7, <1>8, <1>9, <1>10 DEF StoredInv, PlacedInv, Storing
<1>13. DurableStep
  BY <1>1, <1>7, PushMaps DEF Storing
<1>14. QED
  BY <1>7, <1>11, <1>12, <1>13 DEF ExampleInv

(* The pair is counted: the store has the value.                           *)
LEMMA CountKeeps ==
  ASSUME ExampleInv, Example!Count
  PROVE  ExampleInv' /\ DurableStep
<1>1. /\ client.op = "count" /\ disk' = [disk EXCEPT !.sequence = @ + 1]
      /\ client' = [client EXCEPT !.op = Example!Then(@)] /\ reply' = Nothing /\ mem' = mem
  BY DEF Example!Count, Example!Advance
<1>2. /\ client'.op = "index" /\ client'.key = client.key /\ client'.value = client.value
      /\ client' \in [op : Storing \cup {"idle", "index", "open"}, key : ExampleKeys \cup {Nothing},
                      value : ExampleValues \cup {Nothing}, current : Nat]
      /\ client'.key \in ExampleKeys /\ client'.value \in ExampleValues
  BY <1>1, NextStep, Orders DEF Storing
<1>3. PICK b, n, e, y : b = disk.bytes /\ n = disk.sequence /\ e = LogEnd /\ y = ValueStart
  OBVIOUS
<1>4. /\ n \in Nat /\ IsLog(b, n) /\ e = StartOf(b, n) /\ mem.end_off = NewEnd /\ NewEnd <= ExampleSize
      /\ mem.hash_map = PlacesOf(b, n) /\ b[e] = Len(client.key) /\ Cut(b, e) = client.key
      /\ b[y] = Len(client.value) /\ Cut(b, y) = client.value /\ y = e + 1 + Len(client.key)
      /\ NewEnd = y + 1 + Len(client.value)
  <2>1. n \in Nat /\ IsLog(b, n) /\ e = StartOf(b, n)
    BY <1>3, ExampleFields DEF ExampleParts, ExampleInv, LogEnd
  <2>2. /\ mem.end_off = NewEnd /\ NewEnd <= ExampleSize /\ KeyStored(disk.bytes)
        /\ disk.bytes[ValueStart] = Len(client.value) /\ Cut(disk.bytes, ValueStart) = client.value
    BY <1>1 DEF ExampleInv, StoredInv, Storing
  <2>3. mem.hash_map = PlacesOf(b, n)
    BY <1>1, <1>3 DEF ExampleInv, PlacedInv, Storing
  <2>4. b[e] = Len(client.key) /\ Cut(b, e) = client.key
    BY <1>3, <2>2 DEF KeyStored
  <2>5. y = e + 1 + Len(client.key) /\ NewEnd = y + 1 + Len(client.value)
    BY <1>3 DEF NewEnd, ValueStart
  <2>6. QED
    BY <1>3, <2>1, <2>2, <2>3, <2>4, <2>5
<1>5. disk'.sequence = n + 1 /\ disk'.bytes = b /\ disk' \in [sequence : Nat, bytes : [Cells -> Contents]]
  <2>1. disk \in [sequence : Nat, bytes : [Cells -> Contents]]
    BY DEF ExampleInv, ExampleTyped
  <2>2. QED
    BY <1>1, <1>3, <1>4, <2>1
<1>6. End(b, e) = y /\ ValueAt(b, n) = y /\ StartOf(b, n + 1) = NewEnd
  <2>1. End(b, e) = y
    BY <1>4 DEF End
  <2>2. StartOf(b, n + 1) = PairEnd(b, e)
    BY <1>4, StartsFollow
  <2>3. PairEnd(b, e) = NewEnd
    BY <1>4, <2>1 DEF PairEnd, End
  <2>4. QED
    BY <1>4, <2>1, <2>2, <2>3 DEF ValueAt
<1>7. IsLog(b, n + 1)
  <2>1. Len(client.key) \in Nat /\ Len(client.value) \in Nat /\ NewEnd \in Nat /\ ExampleSize \in Nat
    BY <1>1, Slices, ExampleFields DEF ExampleParts, Storing
  <2>2. IsPair(b, StartOf(b, n))
    BY <1>2, <1>4, <1>6, <2>1 DEF IsPair
  <2>3. StartOf(b, n + 1) <= ExampleSize + 1
    BY <1>4, <1>6, <2>1
  <2>4. QED
    BY <1>4, <2>2, <2>3, LogGrows
<1>8. LogEnd' = NewEnd
  BY <1>5, <1>6 DEF LogEnd
<1>9. ExampleTyped'
  BY <1>1, <1>2, <1>5 DEF ExampleInv, ExampleTyped
<1>10. StoredInv'
  BY <1>2 DEF StoredInv, Storing
<1>11. PlacedInv'
  <2>1. n + 1 # 0 /\ (n + 1) - 1 = n
    BY <1>4
  <2>2. /\ disk'.sequence # 0 /\ mem'.end_off = LogEnd' /\ mem'.hash_map = PlacesOf(disk'.bytes, disk'.sequence - 1)
        /\ Cut(disk'.bytes, StartOf(disk'.bytes, disk'.sequence - 1)) = client'.key
        /\ disk'.bytes[ValueAt(disk'.bytes, disk'.sequence - 1)] = Len(client'.value)
    BY <1>1, <1>2, <1>4, <1>5, <1>6, <1>8, <2>1
  <2>3. QED
    BY <1>2, <2>2 DEF PlacedInv, Storing
<1>12. Durable!Apply
  <2>1. Example!Logged = Says(b, n)
    BY <1>3, <1>4, LoggedIsSaid
  <2>2. (disk.sequence \in Nat => Example!Logged = Says(disk.bytes, disk.sequence))'
    BY LoggedIsSaid, PTL
  <2>3. Example!Logged' = Says(b, n + 1)
    BY <1>4, <1>5, <2>2
  <2>4. Says(b, n + 1) = [Says(b, n) EXCEPT ![client.key] = client.value]
    <3>1. Says(b, n + 1) = [Says(b, n) EXCEPT ![Cut(b, StartOf(b, n))] = Cut(b, ValueAt(b, n))]
      BY <1>4, OnePairMore
    <3>2. Cut(b, StartOf(b, n)) = client.key /\ Cut(b, ValueAt(b, n)) = client.value
      BY <1>4, <1>6
    <3>3. QED
      BY <3>1, <3>2
  <2>5. Example!Call = [key |-> client.key, answer |-> client.value, done |-> FALSE]
    BY <1>1 DEF Example!Call
  <2>6. Example!Call' = [key |-> client.key, answer |-> client.value, done |-> TRUE]
    BY <1>2 DEF Example!Call
  <2>7. Example!Call # Nothing
    <3>1. client.key \in ExampleKeys /\ client.value \in ExampleValues
      BY <1>2
    <3>2. PICK k \in ExampleKeys, v \in ExampleValues : k = client.key /\ v = client.value
      BY <3>1
    <3>3. [key |-> k, answer |-> v, done |-> FALSE] \in [key : ExampleKeys, answer : ExampleValues, done : BOOLEAN]
      OBVIOUS
    <3>4. QED
      BY <2>5, <3>2, <3>3, Slices
  <2>8. Example!Call' = [Example!Call EXCEPT !.done = TRUE]
    <3>1. PICK k, v : k = client.key /\ v = client.value
      OBVIOUS
    <3>2. [[key |-> k, answer |-> v, done |-> FALSE] EXCEPT !.done = TRUE] = [key |-> k, answer |-> v, done |-> TRUE]
      BY DoneCall
    <3>3. QED
      BY <2>5, <2>6, <3>1, <3>2
  <2>9. Example!Logged' = [Example!Logged EXCEPT ![Example!Call.key] = Example!Call.answer]
    BY <2>1, <2>3, <2>4, <2>5
  <2>10. QED
    BY <1>1, <1>2, <2>5, <2>7, <2>8, <2>9 DEF Durable!Apply
<1>13. QED
  BY <1>5, <1>7, <1>9, <1>10, <1>11, <1>12 DEF ExampleInv, DurableStep, Durable!Next

(* The map has the pair, and Set returns.                                  *)
LEMMA ExampleIndexKeeps ==
  ASSUME ExampleInv, Example!Index
  PROVE  ExampleInv' /\ DurableStep
<1>1. /\ client.op = "index" /\ mem' = [mem EXCEPT !.hash_map[client.key] = mem.end_off - 1 - Len(client.value)]
      /\ client' = [client EXCEPT !.op = Example!Then(@)] /\ reply' = Nothing /\ disk' = disk
  BY DEF Example!Index, Example!Advance
<1>2. /\ client'.op = "idle" /\ client'.key = client.key /\ client'.value = client.value
      /\ client' \in [op : Storing \cup {"idle", "index", "open"}, key : ExampleKeys \cup {Nothing},
                      value : ExampleValues \cup {Nothing}, current : Nat]
      /\ client.key \in ExampleKeys /\ client.value \in ExampleValues
  <2>1. client.op \in Storing \cup {"index"}
    BY <1>1
  <2>2. QED
    BY <1>1, <2>1, NextStep, Orders
<1>3. PICK b, n : b = disk.bytes /\ n = disk.sequence - 1
  OBVIOUS
<1>4. /\ n \in Nat /\ disk.sequence = n + 1 /\ IsLog(b, n + 1) /\ mem.end_off = StartOf(b, n + 1)
      /\ mem.hash_map = PlacesOf(b, n) /\ Cut(b, StartOf(b, n)) = client.key /\ b[ValueAt(b, n)] = Len(client.value)
      /\ LogEnd = StartOf(b, n + 1)
  <2>1. disk.sequence \in Nat /\ IsLog(disk.bytes, disk.sequence)
    BY ExampleFields DEF ExampleParts, ExampleInv
  <2>2. /\ disk.sequence # 0 /\ mem.end_off = LogEnd
        /\ mem.hash_map = PlacesOf(disk.bytes, disk.sequence - 1)
        /\ Cut(disk.bytes, StartOf(disk.bytes, disk.sequence - 1)) = client.key
        /\ disk.bytes[ValueAt(disk.bytes, disk.sequence - 1)] = Len(client.value)
    BY <1>1 DEF ExampleInv, PlacedInv
  <2>3. n \in Nat /\ disk.sequence = n + 1
    BY <1>3, <2>1, <2>2
  <2>4. QED
    BY <1>3, <2>1, <2>2, <2>3 DEF LogEnd
<1>5. mem.end_off - 1 - Len(client.value) = ValueAt(b, n) /\ ValueAt(b, n) \in Nat
  <2>1. PICK x, y : x = StartOf(b, n) /\ y = End(b, x)
    OBVIOUS
  <2>2. n \in 0..(n + 1) - 1
    BY <1>4
  <2>3. y \in Nat /\ b[y] \in Nat /\ StartOf(b, n + 1) = y + 1 + b[y]
    BY <1>4, <2>1, <2>2, LogOrder
  <2>4. y = ValueAt(b, n)
    BY <2>1 DEF ValueAt
  <2>5. QED
    BY <1>4, <2>3, <2>4
<1>6. PlacesOf(b, n + 1) = [PlacesOf(b, n) EXCEPT ![client.key] = ValueAt(b, n)]
  <2>1. PlacesOf(b, n + 1) = [PlacesOf(b, n) EXCEPT ![Cut(b, StartOf(b, n))] = ValueAt(b, n)]
    BY <1>4, OnePairMore
  <2>2. QED
    BY <1>4, <2>1
<1>7. /\ mem' \in [hash_map : [ExampleKeys -> Nat], end_off : Nat]
      /\ mem'.hash_map = PlacesOf(b, n + 1) /\ mem'.end_off = mem.end_off
  <2>1. mem \in [hash_map : [ExampleKeys -> Nat], end_off : Nat]
    BY DEF ExampleInv, ExampleTyped
  <2>2. PICK h : h = [mem.hash_map EXCEPT ![client.key] = ValueAt(b, n)]
    OBVIOUS
  <2>3. h \in [ExampleKeys -> Nat] /\ h = PlacesOf(b, n + 1)
    BY <1>2, <1>4, <1>5, <1>6, <2>1, <2>2
  <2>4. mem' = [mem EXCEPT !.hash_map = h]
    BY <1>1, <1>5, <2>2
  <2>5. QED
    BY <2>1, <2>3, <2>4
<1>8. ExampleTyped'
  BY <1>1, <1>2, <1>7, LogSame DEF ExampleTyped, Storing
<1>9. StoredInv' /\ PlacedInv'
  <2>1. LogEnd' = LogEnd
    BY <1>1, LogSame
  <2>2. StoredInv'
    BY <1>2, <1>4, <1>7, <2>1 DEF StoredInv, Storing
  <2>3. mem'.hash_map = PlacesOf(disk'.bytes, disk'.sequence)
    BY <1>1, <1>3, <1>4, <1>7
  <2>4. QED
    BY <1>2, <2>2, <2>3 DEF PlacedInv, Storing
<1>10. Durable!Return
  <2>1. Example!Call = [key |-> client.key, answer |-> client.value, done |-> TRUE]
    BY <1>1 DEF Example!Call
  <2>2. Example!Call # Nothing
    <3>1. PICK k \in ExampleKeys, v \in ExampleValues : k = client.key /\ v = client.value
      BY <1>2
    <3>2. [key |-> k, answer |-> v, done |-> TRUE] \in [key : ExampleKeys, answer : ExampleValues, done : BOOLEAN]
      OBVIOUS
    <3>3. QED
      BY <2>1, <3>1, <3>2, Slices
  <2>3. Example!Call' = Nothing
    BY <1>2 DEF Example!Call
  <2>4. QED
    BY <1>1, <1>2, <2>1, <2>2, <2>3, LogSame DEF Durable!Return
<1>11. QED
  BY <1>1, <1>8, <1>9, <1>10, LogSame DEF ExampleInv, DurableStep, Durable!Next

(* Get: the map leads to what the log says.                                *)
LEMMA ExampleGetKeeps ==
  ASSUME ExampleInv, NEW k \in ExampleKeys, Example!Get(k)
  PROVE  ExampleInv' /\ DurableStep
<1>1. /\ client.op = "idle" /\ disk' = disk /\ mem' = mem /\ client' = client
      /\ reply' = IF mem.hash_map[k] = 0 THEN NotFound ELSE Cut(disk.bytes, mem.hash_map[k])
  BY DEF Example!Get, Example!Slice, Cut
<1>2. disk.sequence \in Nat /\ IsLog(disk.bytes, disk.sequence) /\ mem.hash_map = PlacesOf(disk.bytes, disk.sequence)
  BY <1>1, ExampleFields DEF ExampleParts, ExampleInv, PlacedInv
<1>3. reply' = Example!Logged[k] /\ reply' \in ExampleValues \cup {NotFound}
  BY <1>1, <1>2, LoggedIsSaid, PlacesSay
<1>4. ExampleTyped'
  BY <1>1, <1>3 DEF ExampleInv, ExampleTyped
<1>5. StoredInv' /\ PlacedInv'
  BY <1>1, LogSame DEF ExampleInv, StoredInv, PlacedInv, Storing
<1>6. Durable!Get(k)
  <2>1. Example!Call = Nothing /\ Example!Call' = Nothing
    BY <1>1 DEF Example!Call
  <2>2. QED
    BY <1>1, <1>3, <2>1, LogSame DEF Durable!Get
<1>7. QED
  BY <1>1, <1>4, <1>5, <1>6, LogSame DEF ExampleInv, DurableStep, Durable!Next

(* No pair is passed yet.                                                  *)
LEMMA NonePassed ==
  ASSUME NEW b
  PROVE  PlacesOf(b, 0) = [k \in ExampleKeys |-> 0] /\ Says(b, 0) = [k \in ExampleKeys |-> NotFound]
<1>1. \A k : PairsOf(b, 0, k) = {}
  BY DEF PairsOf
<1>2. QED
  BY <1>1 DEF PlacesOf, Says

(* A kill leaves the log; the new process has passed none of it.           *)
LEMMA ExampleKillKeeps ==
  ASSUME ExampleInv, Example!Kill
  PROVE  ExampleInv' /\ DurableStep
<1>1. /\ mem' = [hash_map |-> [k \in ExampleKeys |-> 0], end_off |-> 1]
      /\ client' = [op |-> "open", key |-> Nothing, value |-> Nothing, current |-> 0]
      /\ reply' = Nothing /\ disk' = disk
  BY DEF Example!Kill, Example!Fresh, Example!Opening, Example!Idle
<1>2. ExampleTyped'
  BY <1>1, LogSame DEF ExampleTyped, Storing
<1>3. StoredInv' /\ PlacedInv'
  <2>1. StoredInv'
    BY <1>1 DEF StoredInv, Storing
  <2>2. PICK b : b = disk'.bytes
    OBVIOUS
  <2>3. PlacesOf(b, 0) = [k \in ExampleKeys |-> 0] /\ StartOf(b, 0) = 1
    BY NonePassed, StartsFollow
  <2>4. disk'.sequence \in Nat
    BY <1>1, ExampleFields DEF ExampleParts
  <2>5. mem'.hash_map = PlacesOf(b, 0) /\ mem'.end_off = StartOf(b, 0) /\ 0 \in 0..disk'.sequence
    BY <1>1, <2>3, <2>4
  <2>6. client'.op = "open" /\ client'.current = 0
    BY <1>1
  <2>7. PlacedInv'
    BY <2>2, <2>5, <2>6 DEF PlacedInv, Storing
  <2>8. QED
    BY <2>1, <2>7
<1>4. Durable!Crash
  <2>1. Example!Call' = Nothing
    BY <1>1 DEF Example!Call
  <2>2. QED
    BY <1>1, <2>1, LogSame DEF Durable!Crash
<1>5. QED
  BY <1>1, <1>2, <1>3, <1>4, LogSame DEF ExampleInv, DurableStep, Durable!Next

(* Recovery passes one pair more.                                          *)
LEMMA RecoverSlicesKeeps ==
  ASSUME ExampleInv, Example!RecoverSlices
  PROVE  ExampleInv' /\ DurableStep
<1>1. PICK b, n : b = disk.bytes /\ n = client.current
  OBVIOUS
<1>2. /\ client.op = "open" /\ n < disk.sequence /\ reply' = Nothing /\ disk' = disk
      /\ client' = [client EXCEPT !.current = n + 1]
      /\ mem' = [hash_map |-> [mem.hash_map EXCEPT ![Cut(b, mem.end_off)] = End(b, mem.end_off)],
                 end_off |-> PairEnd(b, mem.end_off)]
  BY <1>1 DEF Example!RecoverSlices, Example!Slice, Example!SliceEnd, Cut, End, PairEnd
<1>3. /\ n \in Nat /\ disk.sequence \in Nat /\ IsLog(b, disk.sequence) /\ n \in 0..disk.sequence - 1
      /\ mem.end_off = StartOf(b, n) /\ mem.hash_map = PlacesOf(b, n)
  <2>1. n \in Nat /\ disk.sequence \in Nat /\ IsLog(b, disk.sequence)
    BY <1>1, ExampleFields DEF ExampleParts, ExampleInv
  <2>2. mem.end_off = StartOf(b, n) /\ mem.hash_map = PlacesOf(b, n)
    BY <1>1, <1>2 DEF ExampleInv, PlacedInv
  <2>3. QED
    BY <1>2, <2>1, <2>2
<1>4. End(b, mem.end_off) = ValueAt(b, n) /\ ValueAt(b, n) \in Nat /\ StartOf(b, n + 1) \in Nat
      /\ PairEnd(b, mem.end_off) = StartOf(b, n + 1)
  <2>1. PICK x, y : x = StartOf(b, n) /\ y = End(b, x)
    OBVIOUS
  <2>2. y \in Nat /\ b[y] \in Nat /\ StartOf(b, n + 1) = y + 1 + b[y]
    BY <1>3, <2>1, LogOrder
  <2>3. StartOf(b, n + 1) = PairEnd(b, StartOf(b, n))
    BY <1>3, StartsFollow
  <2>4. QED
    BY <1>3, <2>1, <2>2, <2>3 DEF ValueAt
<1>5. mem'.hash_map = PlacesOf(b, n + 1) /\ mem'.end_off = StartOf(b, n + 1)
      /\ mem' \in [hash_map : [ExampleKeys -> Nat], end_off : Nat]
  <2>1. PlacesOf(b, n + 1) = [PlacesOf(b, n) EXCEPT ![Cut(b, StartOf(b, n))] = ValueAt(b, n)]
    BY <1>3, OnePairMore
  <2>2. mem' = [hash_map |-> PlacesOf(b, n + 1), end_off |-> StartOf(b, n + 1)]
    BY <1>2, <1>3, <1>4, <2>1
  <2>3. PlacesOf(b, n) \in [ExampleKeys -> Nat]
    BY <1>3, ExampleFields DEF ExampleParts
  <2>4. PlacesOf(b, n + 1) \in [ExampleKeys -> Nat]
    BY <1>4, <2>1, <2>3
  <2>5. QED
    BY <1>4, <2>2, <2>4
<1>6. /\ client'.op = "open" /\ client'.current = n + 1
      /\ client' \in [op : Storing \cup {"idle", "index", "open"}, key : ExampleKeys \cup {Nothing},
                      value : ExampleValues \cup {Nothing}, current : Nat]
  <2>1. client \in [op : Storing \cup {"idle", "index", "open"}, key : ExampleKeys \cup {Nothing},
                    value : ExampleValues \cup {Nothing}, current : Nat]
    BY DEF ExampleInv, ExampleTyped
  <2>2. QED
    BY <1>2, <1>3, <2>1
<1>7. ExampleTyped'
  BY <1>2, <1>5, <1>6, LogSame DEF ExampleTyped, Storing
<1>8. StoredInv' /\ PlacedInv'
  <2>1. StoredInv'
    BY <1>6 DEF StoredInv, Storing
  <2>2. client'.current \in 0..disk'.sequence
    BY <1>2, <1>3, <1>6
  <2>3. QED
    BY <1>1, <1>2, <1>5, <1>6, <2>1, <2>2 DEF PlacedInv, Storing
<1>9. DurableStep
  <2>1. Example!Call = Nothing /\ Example!Call' = Nothing
    BY <1>2, <1>6 DEF Example!Call
  <2>2. reply = Nothing
    BY <1>2 DEF ExampleInv, ExampleTyped
  <2>3. QED
    BY <1>2, <1>6, <2>1, <2>2, LogSame DEF DurableStep, Durable!vars
<1>10. QED
  BY <1>2, <1>7, <1>8, <1>9, LogSame DEF ExampleInv

(* It has passed all: the engine answers.                                  *)
LEMMA ExampleRecoverEndKeeps ==
  ASSUME ExampleInv, Example!RecoverEnd
  PROVE  ExampleInv' /\ DurableStep
<1>1. /\ client.op = "open" /\ client.current = disk.sequence /\ reply' = Nothing /\ disk' = disk /\ mem' = mem
      /\ client' = [op |-> "idle", key |-> Nothing, value |-> Nothing, current |-> 0]
  BY DEF Example!RecoverEnd, Example!Idle
<1>2. ExampleTyped'
  BY <1>1 DEF ExampleInv, ExampleTyped, Storing
<1>3. mem.end_off = LogEnd /\ mem.hash_map = PlacesOf(disk.bytes, disk.sequence)
  BY <1>1 DEF ExampleInv, PlacedInv, LogEnd
<1>4. StoredInv' /\ PlacedInv'
  BY <1>1, <1>3, LogSame DEF StoredInv, PlacedInv, Storing
<1>5. Durable!Recovered
  <2>1. Example!Call = Nothing /\ Example!Call' = Nothing
    BY <1>1 DEF Example!Call
  <2>2. QED
    BY <1>1, <2>1, LogSame DEF Durable!Recovered
<1>6. QED
  BY <1>1, <1>2, <1>4, <1>5, LogSame DEF ExampleInv, DurableStep, Durable!Next

(* A step in which nothing of it moves.                                    *)
LEMMA ExampleStays ==
  ASSUME ExampleInv, UNCHANGED <<disk, mem, client, reply>>
  PROVE  ExampleInv' /\ DurableStep
<1>1. ExampleTyped'
  BY DEF ExampleInv, ExampleTyped
<1>2. StoredInv' /\ PlacedInv'
  BY LogSame DEF ExampleInv, StoredInv, PlacedInv, KeyStored, ValueStart, NewEnd
<1>3. Example!Call' = Example!Call
  BY DEF Example!Call
<1>4. QED
  BY <1>1, <1>2, <1>3, LogSame DEF ExampleInv, DurableStep, Durable!vars

(* The first state.                                                        *)
LEMMA ExampleStarts ==
  ASSUME Example!Init
  PROVE  ExampleInv /\ Durable!Init
<1>1. /\ disk = [sequence |-> 0, bytes |-> [i \in 1..ExampleSize |-> 0]]
      /\ mem = [hash_map |-> [k \in ExampleKeys |-> 0], end_off |-> 1]
      /\ client = [op |-> "idle", key |-> Nothing, value |-> Nothing, current |-> 0] /\ reply = Nothing
  BY DEF Example!Init, Example!Fresh, Example!Idle
<1>2. ExampleTyped
  BY <1>1 DEF ExampleTyped, Storing, Cells, Contents
<1>3. StartOf(disk.bytes, 0) = 1 /\ 1 \in 1..ExampleSize + 1
  BY StartsFollow, Slices
<1>4. IsLog(disk.bytes, 0)
  <2>1. \A i \in 0..0 : i = 0
    OBVIOUS
  <2>2. 0..0 - 1 = {}
    OBVIOUS
  <2>3. \A i \in 0..0 : StartOf(disk.bytes, i) \in 1..StartOf(disk.bytes, 0)
    BY <1>3, <2>1
  <2>4. QED
    BY <1>3, <2>2, <2>3 DEF IsLog
<1>5. StoredInv /\ PlacedInv
  BY <1>1, <1>3, NonePassed DEF StoredInv, PlacedInv, LogEnd, Storing
<1>6. Example!Logged = [k \in ExampleKeys |-> NotFound]
  BY <1>1, LoggedIsSaid, NonePassed
<1>7. Durable!Init
  BY <1>1, <1>6 DEF Durable!Init, Example!Call
<1>8. QED
  BY <1>1, <1>2, <1>4, <1>5, <1>7 DEF ExampleInv

(* Every step.                                                             *)
LEMMA ExampleSteps ==
  ASSUME ExampleInv, Example!Next
  PROVE  ExampleInv' /\ DurableStep
<1>1. ASSUME NEW k \in ExampleKeys, NEW v \in ExampleValues, Example!Set(k, v)
      PROVE  ExampleInv' /\ DurableStep
  BY <1>1, ExampleSetKeeps
<1>2. CASE Example!PushKey
  BY <1>2, KeySizeKeeps, KeyBytesKeep DEF Example!PushKey
<1>3. CASE Example!PushValue
  BY <1>3, ValueSizeKeeps, ValueBytesKeep DEF Example!PushValue
<1>4. ASSUME NEW k \in ExampleKeys, Example!Get(k)
      PROVE  ExampleInv' /\ DurableStep
  BY <1>4, ExampleGetKeeps
<1>5. QED
  BY <1>1, <1>2, <1>3, <1>4, CountKeeps, ExampleIndexKeeps, ExampleKillKeeps, RecoverSlicesKeeps, ExampleRecoverEndKeeps DEF Example!Next

(* nvm_example is a durable store for one client, for any keys, values and *)
(* size of the file: a Set takes effect when it is counted, whole, Get     *)
(* answers with the latest value, and a kill at any store loses no Set     *)
(* that was counted and brings back none that was not.                     *)
THEOREM ExampleIsKVStore == Spec => ExampleImplementsKVStore
<1> DEFINE Inv == ExampleOn => ExampleInv
<1>1. Init => Inv /\ ExampleStore!Init
  <2>1. ASSUME Init, ExampleOn
        PROVE  ExampleInv /\ ExampleStore!Init
    <3>1. Example!Init
      BY <2>1 DEF Init, ExampleOn
    <3>2. QED
      BY <2>1, <3>1, ExampleStarts DEF Durable!Init, ExampleStore!Init
  <2>2. ASSUME ~ExampleOn
        PROVE  ExampleStore!Init
    BY <2>2 DEF ExampleStore!Init
  <2>3. QED
    BY <2>1, <2>2
<1>2. Inv /\ [Next]_vars => Inv' /\ [ExampleStore!Next]_(ExampleStore!vars)
  <2>1. ASSUME ExampleInv, ExampleOn, Next
        PROVE  ExampleInv' /\ [Durable!Next]_(Durable!vars) /\ ExampleOn'
    <3>1. Example!Next /\ engine' = engine
      BY <2>1 DEF Next, ExampleOn, FirstStep, P7Step, PeipeiStep, PatenStep, LatestStep, ExampleStep
    <3>2. QED
      BY <2>1, <3>1, ExampleSteps DEF ExampleOn, DurableStep
  <2>2. ASSUME ExampleInv, ExampleOn, UNCHANGED vars
        PROVE  ExampleInv' /\ [Durable!Next]_(Durable!vars) /\ ExampleOn'
    BY <2>2, ExampleStays DEF vars, state, ExampleOn, DurableStep
  <2>3. ASSUME ExampleOn, ExampleOn', [Durable!Next]_(Durable!vars)
        PROVE  [ExampleStore!Next]_(ExampleStore!vars)
    BY <2>3 DEF Durable!Next, Durable!vars, Durable!Begin, Durable!Apply, Durable!Return, Durable!Get, Durable!Crash,
         Durable!Recovered, ExampleStore!Next, ExampleStore!vars, ExampleStore!Begin, ExampleStore!Apply,
         ExampleStore!Return, ExampleStore!Get, ExampleStore!Crash, ExampleStore!Recovered
  <2>4. ASSUME ~ExampleOn, [Next]_vars
        PROVE  ~ExampleOn' /\ UNCHANGED ExampleStore!vars
    <3>1. ~ExampleOn'
      BY <2>4 DEF Next, vars, ExampleOn
    <3>2. QED
      BY <2>4, <3>1 DEF ExampleStore!vars
  <2>5. QED
    BY <2>1, <2>2, <2>3, <2>4
<1>3. QED
  BY <1>1, <1>2, PTL DEF Spec, ExampleImplementsKVStore, ExampleStore!Spec
==============================================================================
