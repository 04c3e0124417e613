--------------------------- MODULE HotKeyPoolProofs ---------------------------
(***************************************************************************)
(* Proofs about HotKeyPool: its types for any number of threads, and for   *)
(* one thread, for all keys, values and hashes, that the pool agrees with  *)
(* the shards and that the engine behind it is the store of KVStore.       *)
(***************************************************************************)
EXTENDS HotKeyPool, TLAPS

(* A value and its length are an answer, and bytes that can be read.       *)
LEMMA IntactIsBytes ==
  ASSUME NEW v \in Values
  PROVE  /\ Intact(v) \in Answers /\ Intact(v) \in Bytes
         /\ SizeOf[v] \in Lengths
         /\ Intact(v)[1] = SizeOf[v] /\ Intact(v)[2] = v
<1>1. SizeOf[v] \in Lengths
  BY HotKeyPoolAssumption
<1>2. QED
  BY <1>1 DEF Intact, Answers, Bytes

(* An answer is the bytes of a value with their length, and neither of     *)
(* the special values.                                                     *)
LEMMA AnswersAreBytes ==
  ASSUME NEW a \in Answers
  PROVE  /\ a \in Bytes /\ a # NotFound /\ a # Nothing
         /\ a[1] \in Lengths /\ a[2] \in Values /\ a = <<a[1], a[2]>>
<1>1. PICK v \in Values : a = Intact(v)
  BY DEF Answers
<1>2. QED
  BY <1>1, IntactIsBytes, HotKeyPoolAssumption DEF Intact

Entries == [key : Keys \cup {Zero}, value : Values \cup {Zero}, value_size : Lengths \cup {0}]

(* A thread's key has an entry, and storing a part of it keeps its type.   *)
LEMMA EntryType ==
  ASSUME TypeOK, NEW t \in Threads
  PROVE  /\ key_index_offsets \in [Positions -> Entries]
         /\ HotHash[key[t]] \in Positions
         /\ Entry(t) \in Entries
<1>1. key_index_offsets \in [Positions -> Entries]
  BY DEF TypeOK, Entries
<1>2. HotHash[key[t]] \in Positions
  <2>1. key[t] \in Keys
    BY DEF TypeOK
  <2>2. QED
    BY <2>1, Zenon DEF Positions
<1>3. Entry(t) \in Entries
  BY <1>1, <1>2 DEF Entry
<1>4. QED
  BY <1>1, <1>2, <1>3

(* Storing one part of one entry keeps the type of all entries.            *)
LEMMA PartStored ==
  ASSUME NEW K, NEW V, NEW N, NEW P, NEW f \in [P -> [key : K, value : V, value_size : N]],
         NEW h \in P, NEW k \in K, NEW v \in V, NEW n \in N
  PROVE  /\ [f EXCEPT ![h]["key"] = k] \in [P -> [key : K, value : V, value_size : N]]
         /\ [f EXCEPT ![h]["value"] = v] \in [P -> [key : K, value : V, value_size : N]]
         /\ [f EXCEPT ![h]["value_size"] = n] \in [P -> [key : K, value : V, value_size : N]]
  OBVIOUS

(* Storing a key in an entry keeps the type of the entries,                *)
LEMMA SetKeyType ==
  ASSUME TypeOK, NEW t \in Threads, NEW k \in Keys, SetEntry(t, "key", k)
  PROVE  key_index_offsets' \in [Positions -> Entries]
<1>1. key_index_offsets \in [Positions -> Entries] /\ HotHash[key[t]] \in Positions
  BY EntryType
<1>2. QED
  BY <1>1, PartStored DEF SetEntry, Entries

(* storing a size does,                                                    *)
LEMMA SetSizeType ==
  ASSUME TypeOK, NEW t \in Threads, NEW n \in Lengths \cup {0}, SetEntry(t, "value_size", n)
  PROVE  key_index_offsets' \in [Positions -> Entries]
<1>1. key_index_offsets \in [Positions -> Entries] /\ HotHash[key[t]] \in Positions
  BY EntryType
<1>2. QED
  BY <1>1, PartStored DEF SetEntry, Entries

(* and storing the bytes of a value does.                                  *)
LEMMA SetBytesType ==
  ASSUME TypeOK, NEW t \in Threads, NEW v \in Values \cup {Zero}, SetEntry(t, "value", v)
  PROVE  key_index_offsets' \in [Positions -> Entries]
<1>1. key_index_offsets \in [Positions -> Entries] /\ HotHash[key[t]] \in Positions
  BY EntryType
<1>2. QED
  BY <1>1, PartStored DEF SetEntry, Entries

(* What was read so far keeps its type when the bytes are read.            *)
LEMMA BytesParts ==
  ASSUME NEW b \in Bytes
  PROVE  /\ b[1] \in Lengths \cup {0} /\ b[2] \in Values \cup {Zero}
         /\ \A v \in Values \cup {Zero} : <<b[1], v>> \in Bytes
<1>1. b[1] \in Lengths \cup {0} /\ b[2] \in Values \cup {Zero}
  BY DEF Bytes
<1>2. ASSUME NEW n \in Lengths \cup {0}, NEW v \in Values \cup {Zero}
      PROVE  <<n, v>> \in Bytes
  BY DEF Bytes
<1>3. QED
  BY <1>1, <1>2

(* A size with zeros for bytes can be read.                                *)
LEMMA SizeAndZeros ==
  ASSUME NEW n \in Lengths \cup {0}
  PROVE  <<n, Zero>> \in Bytes
  BY Zenon DEF Bytes

------------------------------------------------------------------------------
(* Types, for any number of threads *)

(* What has been read for an answer is there until it is used.             *)
GotIsThere ==
  \A t \in Threads :
    \/ pc[t] = "bytes"
    \/ pc[t] \in {"setkey", "setsize", "setbytes"} /\ val[t] = Nothing
    => got[t] \in Bytes

Typed == TypeOK /\ GotIsThere

(* The variables have their types at first.                                *)
LEMMA TypeInit == Init => Typed
<1> SUFFICES ASSUME Init
             PROVE  Typed
  OBVIOUS
<1>1. (CHOOSE k \in Keys : TRUE) \in Keys
  BY HotKeyPoolAssumption
<1>2. ZeroEntry \in Entries
  BY DEF ZeroEntry, Entries
<1>3. key_index_offsets \in [Positions -> Entries]
  BY <1>2 DEF Init
<1>4. GotIsThere
  BY DEF Init, GotIsThere
<1>5. key \in [Threads -> Keys]
  BY <1>1 DEF Init
<1>6. held \in [Threads -> SUBSET (Answers \cup {NotFound})]
  BY DEF Init
<1>7. /\ pc \in [Threads -> {"idle"}]
      /\ val \in [Threads -> {Nothing}]
      /\ got \in [Threads -> {Nothing}]
      /\ reply \in [Threads -> {Nothing}]
  BY DEF Init
<1>8. store \in [Keys -> Answers \cup {NotFound}]
  BY DEF Init
<1>9. QED
  BY <1>3, <1>4, <1>5, <1>6, <1>7, <1>8 DEF Typed, TypeOK, Entries

(* The history keeps its type whatever the step.                           *)
LEMMA RememberType ==
  ASSUME held \in [Threads -> SUBSET (Answers \cup {NotFound})],
         key' \in [Threads -> Keys],
         store' \in [Keys -> Answers \cup {NotFound}],
         Remember
  PROVE  held' \in [Threads -> SUBSET (Answers \cup {NotFound})]
  BY DEF Remember

(* Every step keeps the types.                                             *)
LEMMA TypeStep == Typed /\ [Next]_vars => Typed'
<1> SUFFICES ASSUME Typed, [Next]_vars
             PROVE  Typed'
  OBVIOUS
<1> DEFINE Rest == /\ key_index_offsets' \in [Positions -> Entries]
                   /\ store' \in [Keys -> Answers \cup {NotFound}]
                   /\ pc' \in [Threads -> {"idle", "check", "compare", "size", "bytes", "store",
                                           "return", "setkey", "setsize", "setbytes"}]
                   /\ key' \in [Threads -> Keys]
                   /\ val' \in [Threads -> Values \cup {Nothing}]
                   /\ got' \in [Threads -> Bytes \cup {Nothing}]
                   /\ reply' \in [Threads -> Bytes \cup {NotFound, Nothing}]
                   /\ GotIsThere'
<1>1. ASSUME Rest, Remember
      PROVE  Typed'
  BY <1>1, RememberType DEF Typed, TypeOK, Entries
<1>e. TypeOK /\ key_index_offsets \in [Positions -> Entries]
  BY DEF Typed, TypeOK, Entries
<1>f. \A t \in Threads :
        /\ Entry(t).value_size \in Lengths \cup {0} /\ Entry(t).value \in Values \cup {Zero}
        /\ <<Entry(t).value_size, Zero>> \in Bytes
  <2> TAKE t \in Threads
  <2>1. Entry(t) \in Entries
    BY <1>e, EntryType
  <2>2. Entry(t).value_size \in Lengths \cup {0} /\ Entry(t).value \in Values \cup {Zero}
    BY <2>1 DEF Entries
  <2>3. QED
    BY <2>2, SizeAndZeros
<1>g. ASSUME NEW t \in Threads, SetSize(t)
      PROVE  key_index_offsets' \in [Positions -> Entries]
  <2> DEFINE n == IF val[t] = Nothing THEN got[t][1] ELSE SizeOf[val[t]]
  <2>1. SetEntry(t, "value_size", n)
    BY <1>g DEF SetSize
  <2>2. n \in Lengths \cup {0}
    <3>1. CASE val[t] = Nothing
      <4>1. got[t] \in Bytes
        BY <1>g, <3>1 DEF SetSize, Goto, Typed, GotIsThere
      <4>2. QED
        BY <3>1, <4>1, BytesParts
    <3>2. CASE val[t] # Nothing
      <4>1. val[t] \in Values
        BY <1>e, <3>2 DEF TypeOK
      <4>2. QED
        BY <3>2, <4>1, IntactIsBytes
    <3>3. QED
      BY <3>1, <3>2
  <2> HIDE DEF n
  <2>3. QED
    BY <1>e, <2>1, <2>2, SetSizeType
<1>h. ASSUME NEW t \in Threads, SetBytes(t)
      PROVE  key_index_offsets' \in [Positions -> Entries]
  <2> DEFINE b == IF val[t] = Nothing THEN got[t][2] ELSE val[t]
  <2>1. SetEntry(t, "value", b)
    BY <1>h DEF SetBytes
  <2>2. b \in Values \cup {Zero}
    <3>1. CASE val[t] = Nothing
      <4>1. got[t] \in Bytes
        BY <1>h, <3>1 DEF SetBytes, Goto, Typed, GotIsThere
      <4>2. QED
        BY <3>1, <4>1, BytesParts
    <3>2. CASE val[t] # Nothing
      BY <1>e, <3>2 DEF TypeOK
    <3>3. QED
      BY <3>1, <3>2
  <2> HIDE DEF b
  <2>3. QED
    BY <1>e, <2>1, <2>2, SetBytesType
<1> USE <1>e DEF Typed, TypeOK, GotIsThere, Goto, Reply
<1>2. ASSUME NEW t \in Threads, NEW k \in Keys, Get(t, k)
      PROVE  Rest
  BY <1>2 DEF Get
<1>3. ASSUME NEW t \in Threads, NEW k \in Keys, NEW v \in Values, Set(t, k, v)
      PROVE  Rest
  BY <1>3 DEF Set
<1>4. ASSUME NEW t \in Threads, CheckEmpty(t) \/ CheckFull(t)
      PROVE  Rest
  BY <1>4 DEF CheckEmpty, CheckFull, Miss
<1>5. ASSUME NEW t \in Threads, Hit(t) \/ Collision(t)
      PROVE  Rest
  BY <1>5 DEF Hit, Collision, Miss
<1>6. ASSUME NEW t \in Threads, ReadSize(t)
      PROVE  Rest
  BY <1>6, <1>f DEF ReadSize
<1>7. ASSUME NEW t \in Threads, ReadBytes(t)
      PROVE  Rest
  <2>1. Entry(t).value \in Values \cup {Zero}
    BY <1>f
  <2>2. <<got[t][1], Entry(t).value>> \in Bytes
    <3>1. got[t] \in Bytes
      BY <1>7 DEF ReadBytes
    <3>2. QED
      BY <2>1, <3>1, BytesParts
  <2>3. QED
    BY <1>7, <2>2 DEF ReadBytes
<1>8. ASSUME NEW t \in Threads, ReadStore(t)
      PROVE  Rest
  <2>1. store[key[t]] = NotFound \/ store[key[t]] \in Bytes
    BY AnswersAreBytes
  <2>2. QED
    BY <1>8, <2>1 DEF ReadStore
<1>9. ASSUME NEW t \in Threads, WriteStore(t)
      PROVE  Rest
  BY <1>9, IntactIsBytes DEF WriteStore
<1>10. ASSUME NEW t \in Threads, Return(t)
       PROVE  Rest
  BY <1>10 DEF Return
<1>11. ASSUME NEW t \in Threads, SetKey(t)
       PROVE  Rest
  <2>1. key[t] \in Keys
    OBVIOUS
  <2>2. key_index_offsets' \in [Positions -> Entries]
    BY <1>11, <2>1, SetKeyType DEF SetKey
  <2>3. QED
    BY <1>11, <2>2 DEF SetKey
<1>12. ASSUME NEW t \in Threads, SetSize(t)
       PROVE  Rest
  <2>1. key_index_offsets' \in [Positions -> Entries]
    BY <1>12, <1>g
  <2>2. pc' \in [Threads -> {"idle", "check", "compare", "size", "bytes", "store",
                            "return", "setkey", "setsize", "setbytes"}]
    BY <1>12 DEF SetSize
  <2>3. reply' \in [Threads -> Bytes \cup {NotFound, Nothing}]
    BY <1>12 DEF SetSize
  <2>4. GotIsThere' /\ got' \in [Threads -> Bytes \cup {Nothing}]
    BY <1>12 DEF SetSize
  <2>5. QED
    BY <1>12, <2>1, <2>2, <2>3, <2>4 DEF SetSize
<1>13. ASSUME NEW t \in Threads, SetBytes(t)
       PROVE  Rest
  <2>1. key_index_offsets' \in [Positions -> Entries]
    BY <1>13, <1>h
  <2>2. pc' \in [Threads -> {"idle", "check", "compare", "size", "bytes", "store",
                            "return", "setkey", "setsize", "setbytes"}]
    BY <1>13 DEF SetBytes
  <2>3. reply' \in [Threads -> Bytes \cup {NotFound, Nothing}]
    BY <1>13 DEF SetBytes
  <2>4. GotIsThere' /\ got' \in [Threads -> Bytes \cup {Nothing}]
    BY <1>13 DEF SetBytes
  <2>5. QED
    BY <1>13, <2>1, <2>2, <2>3, <2>4 DEF SetBytes
<1>14. CASE UNCHANGED vars
  BY <1>14 DEF vars, locals
<1>15. CASE Next
  <2>1. Remember /\ (Call \/ \E t \in Threads : Step(t))
    BY <1>15 DEF Next
  <2>2. Rest
    BY <2>1, <1>2, <1>3, <1>4, <1>5, <1>6, <1>7, <1>8, <1>9, <1>10, <1>11, <1>12, <1>13
       DEF Call, Step
  <2>3. QED
    BY <2>1, <2>2, <1>1
<1>16. QED
  BY <1>14, <1>15

(* Every variable of the pool and its threads keeps its type, however many *)
(* threads run in Set and Get at once (NvmEngine.cpp, hotkeyhash.h).       *)
THEOREM TypeCorrect == Spec => []TypeOK
<1>1. Typed => TypeOK
  BY DEF Typed
<1>2. QED
  BY <1>1, TypeInit, TypeStep, PTL DEF Spec

------------------------------------------------------------------------------
(* The pool with one thread *)

OneThread == \A t, u \in Threads : t = u

(* Where the thread is, what it has in hand. *)
Phases(t) ==
  /\ pc[t] = "idle" => val[t] = Nothing
  /\ pc[t] = "return" => val[t] # Nothing
  /\ pc[t] \in {"size", "bytes", "setkey"} => val[t] = Nothing
  /\ val[t] # Nothing => reply[t] = Nothing

(* A Get that hits reads the entry of its key. *)
Reading(t) ==
  /\ pc[t] = "compare" => Entry(t).value_size # 0
  /\ pc[t] \in {"size", "bytes"} => Entry(t).value_size # 0 /\ Entry(t).key = key[t]
  /\ pc[t] = "bytes" => got[t] = <<Entry(t).value_size, Zero>>

(* A Get that misses fills the entry with the answer of the shards, and a  *)
(* Set that hits fills it with its value, before the shards have it.       *)
Filling(t) ==
  /\ pc[t] \in {"setkey", "setsize", "setbytes"} /\ val[t] = Nothing =>
       store[key[t]] \in Answers /\ got[t] = store[key[t]]
  /\ pc[t] \in {"setsize", "setbytes"} => Entry(t).key = key[t]
  /\ pc[t] = "setbytes" =>
       Entry(t).value_size = IF val[t] = Nothing THEN got[t][1] ELSE SizeOf[val[t]]
  /\ pc[t] = "store" /\ val[t] # Nothing /\ Entry(t).value_size # 0 /\ Entry(t).key = key[t] =>
       Entry(t).value_size = SizeOf[val[t]] /\ Entry(t).value = val[t]

Agrees(p) ==
  LET e == key_index_offsets[p]
  IN e.value_size # 0 =>
       e.key \in Keys /\ HotHash[e.key] = p /\ store[e.key] = <<e.value_size, e.value>>

(* The entry being changed: all others agree with the shards. *)
InChange(t, p) ==
  /\ p = HotHash[key[t]]
  /\ \/ pc[t] \in {"setsize", "setbytes"}
     \/ pc[t] = "store" /\ val[t] # Nothing /\ Entry(t).key = key[t]

OthersAgree(t) == \A p \in Positions : Agrees(p) \/ InChange(t, p)

PoolInv(t) == Phases(t) /\ Reading(t) /\ Filling(t) /\ OthersAgree(t)

(* At first the pool agrees with the shards: all its entries are empty.    *)
LEMMA PoolInit ==
  ASSUME Init, NEW t \in Threads
  PROVE  PoolInv(t)
<1>1. pc[t] = "idle" /\ val[t] = Nothing /\ reply[t] = Nothing
  BY DEF Init
<1>2. \A p \in Positions : key_index_offsets[p].value_size = 0
  BY DEF Init, ZeroEntry
<1>3. OthersAgree(t)
  BY <1>2 DEF OthersAgree, Agrees
<1>4. QED
  BY <1>1, <1>3 DEF PoolInv, Phases, Reading, Filling

(* A step that leaves the entries and the shards alone.                    *)
LEMMA Undisturbed ==
  ASSUME NEW t \in Threads, OthersAgree(t), UNCHANGED <<key_index_offsets, store>>,
         \A p \in Positions : InChange(t, p) => InChange(t, p)' \/ Agrees(p)
  PROVE  OthersAgree(t)'
  BY DEF OthersAgree, Agrees

(* Every step of the thread keeps what is known of its entry and of the    *)
(* others; only WriteStore, SetKey, SetSize and SetBytes can disturb it.   *)
LEMMA PoolStep ==
  ASSUME Typed, NEW t \in Threads, PoolInv(t), Step(t)
  PROVE  PoolInv(t)'
<1>t. TypeOK
  BY DEF Typed
<1>e. HotHash[key[t]] \in Positions /\ Entry(t) \in Entries
  BY <1>t, EntryType
<1>1. CASE CheckEmpty(t)
  <2>1. OthersAgree(t)'
    BY <1>1, Undisturbed DEF CheckEmpty, Miss, Goto, PoolInv, InChange
  <2>2. QED
    BY <1>t, <1>1, <2>1 DEF CheckEmpty, Miss, Goto, PoolInv, TypeOK, Phases, Reading, Filling, Entry
<1>2. CASE CheckFull(t)
  <2>1. OthersAgree(t)'
    BY <1>2, Undisturbed DEF CheckFull, Goto, PoolInv, InChange
  <2>2. QED
    BY <1>t, <1>2, <2>1 DEF CheckFull, Goto, PoolInv, TypeOK, Phases, Reading, Filling, Entry
<1>3. CASE Hit(t)
  <2>1. OthersAgree(t)'
    BY <1>3, Undisturbed DEF Hit, Goto, PoolInv, InChange
  <2>2. QED
    BY <1>t, <1>3, <2>1 DEF Hit, Goto, PoolInv, TypeOK, Phases, Reading, Filling, Entry
<1>4. CASE Collision(t)
  <2>1. OthersAgree(t)'
    BY <1>4, Undisturbed DEF Collision, Miss, Goto, PoolInv, InChange
  <2>2. QED
    BY <1>t, <1>4, <2>1 DEF Collision, Miss, Goto, PoolInv, TypeOK, Phases, Reading, Filling, Entry
<1>5. CASE ReadSize(t)
  <2>1. OthersAgree(t)'
    BY <1>5, Undisturbed DEF ReadSize, Goto, PoolInv, InChange
  <2>2. QED
    BY <1>t, <1>5, <2>1 DEF ReadSize, Goto, PoolInv, TypeOK, Phases, Reading, Filling, Entry
<1>6. CASE ReadBytes(t)
  <2>1. OthersAgree(t)'
    BY <1>6, Undisturbed DEF ReadBytes, Goto, PoolInv, InChange
  <2>2. QED
    BY <1>t, <1>6, <2>1 DEF ReadBytes, Goto, Reply, PoolInv, TypeOK, Phases, Reading, Filling, Entry
<1>7. CASE ReadStore(t)
  <2>1. OthersAgree(t)'
    BY <1>7, Undisturbed DEF ReadStore, Goto, PoolInv, InChange
  <2>2. QED
    BY <1>t, <1>7, <2>1 DEF ReadStore, Goto, PoolInv, TypeOK, Phases, Reading, Filling, Entry
<1>8. CASE WriteStore(t)
  <2>1. Phases(t)' /\ Reading(t)' /\ Filling(t)'
    BY <1>t, <1>8 DEF WriteStore, Goto, PoolInv, TypeOK, Phases, Reading, Filling, Entry
  <2>2. ASSUME NEW p \in Positions
        PROVE  Agrees(p)'
    <3>1. CASE InChange(t, p)
      BY <1>t, <1>8, <3>1
         DEF WriteStore, Goto, PoolInv, TypeOK, Filling, InChange, Agrees, Entry, Intact
    <3>2. CASE Agrees(p) /\ ~InChange(t, p)
      <4>1. key_index_offsets[p].value_size # 0 => key_index_offsets[p].key # key[t]
        BY <1>8, <3>2 DEF WriteStore, Goto, InChange, Agrees, Entry
      <4>2. QED
        BY <1>t, <1>8, <3>2, <4>1 DEF WriteStore, TypeOK, Agrees
    <3>3. QED
      BY <3>1, <3>2 DEF PoolInv, OthersAgree
  <2>3. QED
    BY <2>1, <2>2 DEF PoolInv, OthersAgree
<1>9. CASE Return(t)
  <2>1. OthersAgree(t)'
    BY <1>9, Undisturbed DEF Return, Goto, PoolInv, InChange
  <2>2. QED
    BY <1>t, <1>9, <2>1 DEF Return, Goto, PoolInv, TypeOK, Phases, Reading, Filling, Entry
<1> DEFINE h == HotHash[key[t]]
<1>k. key_index_offsets \in [Positions -> Entries]
  BY <1>t, EntryType
<1>10. CASE SetKey(t)
  <2>1. /\ key_index_offsets'[h].key = key[t]
        /\ \A p \in Positions \ {h} : key_index_offsets'[p] = key_index_offsets[p]
    BY <1>10, <1>e, <1>k DEF SetKey, SetEntry, Entries
  <2>2. OthersAgree(t)'
    <3>1. pc'[t] = "setsize"
      BY <1>t, <1>10 DEF SetKey, Goto, TypeOK
    <3>2. ASSUME NEW p \in Positions \ {h}
          PROVE  Agrees(p)'
      BY <1>10, <2>1 DEF SetKey, PoolInv, OthersAgree, InChange, Agrees
    <3>3. InChange(t, h)'
      BY <1>10, <3>1 DEF SetKey, InChange
    <3>4. QED
      BY <1>10, <3>2, <3>3 DEF SetKey, OthersAgree
  <2>3. QED
    BY <1>t, <1>10, <2>1, <2>2
       DEF SetKey, Goto, PoolInv, TypeOK, Phases, Reading, Filling, Entry
<1>11. CASE SetSize(t)
  <2>1. /\ key_index_offsets'[h].key = key_index_offsets[h].key
        /\ key_index_offsets'[h].value_size = IF val[t] = Nothing THEN got[t][1] ELSE SizeOf[val[t]]
        /\ \A p \in Positions \ {h} : key_index_offsets'[p] = key_index_offsets[p]
    BY <1>11, <1>e, <1>k DEF SetSize, SetEntry, Entries
  <2>2. OthersAgree(t)'
    <3>1. pc'[t] = "setbytes"
      BY <1>t, <1>11 DEF SetSize, Goto, TypeOK
    <3>2. ASSUME NEW p \in Positions \ {h}
          PROVE  Agrees(p)'
      BY <1>11, <2>1 DEF SetSize, PoolInv, OthersAgree, InChange, Agrees
    <3>3. InChange(t, h)'
      BY <1>11, <3>1 DEF SetSize, InChange
    <3>4. QED
      BY <1>11, <3>2, <3>3 DEF SetSize, OthersAgree
  <2>3. QED
    BY <1>t, <1>11, <2>1, <2>2
       DEF SetSize, Goto, PoolInv, TypeOK, Phases, Reading, Filling, Entry
<1>12. CASE SetBytes(t)
  <2>1. /\ key_index_offsets'[h].key = key_index_offsets[h].key
        /\ key_index_offsets'[h].value_size = key_index_offsets[h].value_size
        /\ key_index_offsets'[h].value = IF val[t] = Nothing THEN got[t][2] ELSE val[t]
        /\ \A p \in Positions \ {h} : key_index_offsets'[p] = key_index_offsets[p]
    BY <1>12, <1>e, <1>k DEF SetBytes, SetEntry, Entries
  <2>2. key_index_offsets[h].key = key[t]
    BY <1>12 DEF SetBytes, Goto, PoolInv, Filling, Entry
  <2>3. OthersAgree(t)'
    <3>1. ASSUME NEW p \in Positions \ {h}
          PROVE  Agrees(p)'
      BY <1>12, <2>1 DEF SetBytes, PoolInv, OthersAgree, InChange, Agrees
    <3>2. CASE val[t] = Nothing
      <4>1. store[key[t]] \in Answers /\ got[t] = store[key[t]]
        BY <1>12, <3>2 DEF SetBytes, Goto, PoolInv, Filling
      <4>2. got[t] = <<key_index_offsets'[h].value_size, key_index_offsets'[h].value>>
        BY <1>12, <2>1, <3>2, <4>1, AnswersAreBytes
           DEF SetBytes, Goto, PoolInv, Filling, Entry
      <4>3. Agrees(h)'
        BY <1>t, <1>12, <2>1, <2>2, <4>1, <4>2 DEF SetBytes, Agrees, TypeOK
      <4>4. QED
        BY <1>12, <3>1, <4>3 DEF SetBytes, OthersAgree
    <3>3. CASE val[t] # Nothing
      <4>1. pc'[t] = "store"
        BY <1>t, <1>12, <3>3 DEF SetBytes, Goto, TypeOK
      <4>2. InChange(t, h)'
        BY <1>12, <2>1, <2>2, <3>3, <4>1 DEF SetBytes, InChange, Entry
      <4>3. QED
        BY <1>12, <3>1, <4>2 DEF SetBytes, OthersAgree
    <3>4. QED
      BY <3>2, <3>3
  <2>4. QED
    BY <1>t, <1>12, <2>1, <2>2, <2>3
       DEF SetBytes, Goto, Reply, PoolInv, TypeOK, Phases, Reading, Filling, Entry
<1>13. QED
  BY <1>1, <1>2, <1>3, <1>4, <1>5, <1>6, <1>7, <1>8, <1>9, <1>10, <1>11, <1>12 DEF Step

(* A call changes only the thread's own variables.                         *)
LEMMA PoolCall ==
  ASSUME Typed, NEW t \in Threads, PoolInv(t), NEW k \in Keys,
         Get(t, k) \/ \E v \in Values : Set(t, k, v)
  PROVE  PoolInv(t)'
<1>t. TypeOK
  BY DEF Typed
<1>1. OthersAgree(t)'
  BY Undisturbed DEF Get, Set, Goto, PoolInv, InChange
<1>2. QED
  BY <1>t, <1>1, HotKeyPoolAssumption
     DEF Get, Set, Goto, Reply, PoolInv, TypeOK, Phases, Reading, Filling, Entry

(* The inductive invariant. *)
Good == Typed /\ \A t \in Threads : PoolInv(t)

(* The inductive invariant holds at first,                                 *)
LEMMA GoodInit == Init => Good
  BY TypeInit, PoolInit DEF Good

(* every step of the only thread keeps it,                                 *)
LEMMA GoodStep ==
  ASSUME OneThread, Good, [Next]_vars
  PROVE  Good'
<1>1. Typed'
  BY TypeStep DEF Good
<1>2. ASSUME NEW t \in Threads
      PROVE  PoolInv(t)'
  <2>1. CASE UNCHANGED vars
    BY <2>1 DEF Good, vars, locals, PoolInv, Phases, Reading, Filling, OthersAgree, Agrees,
                InChange, Entry
  <2>2. CASE Call
    BY <2>2, PoolCall DEF Call, Good, OneThread
  <2>3. CASE \E u \in Threads : Step(u)
    BY <2>3, PoolStep DEF Good, OneThread
  <2>4. QED
    BY <2>1, <2>2, <2>3 DEF Next
<1>3. QED
  BY <1>1, <1>2 DEF Good

(* and so it always holds.                                                 *)
LEMMA GoodAlways ==
  ASSUME OneThread
  PROVE  Spec => []Good
<1>1. Good /\ [Next]_vars => Good'
  BY GoodStep
<1>2. QED
  BY <1>1, GoodInit, PTL DEF Spec

(* With one thread the pool agrees with the shards between any two calls,  *)
(* whatever keys share an entry (hotkeyhash.h; Set and Get in              *)
(* NvmEngine.cpp).                                                         *)
THEOREM PoolStaysRight ==
  ASSUME OneThread
  PROVE  Spec => []PoolAgrees
<1>1. Good => PoolAgrees
  <2> SUFFICES ASSUME Good, \A t \in Threads : pc[t] = "idle", NEW p \in Positions
               PROVE  Agrees(p)
    BY DEF PoolAgrees, Agrees
  <2>1. PICK t \in Threads : TRUE
    BY HotKeyPoolAssumption
  <2>2. QED
    BY <2>1 DEF Good, PoolInv, OthersAgree, InChange
<1>2. QED
  BY <1>1, GoodAlways, PTL

------------------------------------------------------------------------------
(* What a Get answers *)

(* A Get that returns answers what the shards hold for its key.            *)
LEMMA AnswerOfGet ==
  ASSUME Good, NEW t \in Threads, Step(t),
         pc[t] # "idle", val[t] = Nothing, pc'[t] = "idle"
  PROVE  UNCHANGED <<store, key, val>> /\ reply' = [reply EXCEPT ![t] = store[key[t]]]
<1>t. TypeOK
  BY DEF Good, Typed
<1>i. PoolInv(t)
  BY DEF Good
<1>e. HotHash[key[t]] \in Positions /\ Entry(t) \in Entries
  BY <1>t, EntryType
<1>1. CASE ReadBytes(t)
  <2>1. Entry(t).key = key[t] /\ Entry(t).value_size # 0 /\ got[t][1] = Entry(t).value_size
    BY <1>1, <1>i DEF ReadBytes, Goto, PoolInv, Reading
  <2>2. Agrees(HotHash[key[t]])
    BY <1>1, <1>i, <1>e DEF ReadBytes, Goto, PoolInv, OthersAgree, InChange
  <2>3. store[key[t]] = <<Entry(t).value_size, Entry(t).value>>
    BY <2>1, <2>2 DEF Agrees, Entry
  <2>4. QED
    BY <1>1, <2>1, <2>3 DEF ReadBytes, Reply
<1>2. CASE ReadStore(t)
  BY <1>t, <1>2 DEF ReadStore, Goto, TypeOK
<1>3. CASE SetBytes(t)
  BY <1>t, <1>i, <1>3 DEF SetBytes, Goto, Reply, PoolInv, Filling, SetEntry
<1>4. CASE CheckEmpty(t) \/ CheckFull(t) \/ Hit(t) \/ Collision(t) \/ ReadSize(t)
  BY <1>t, <1>4 DEF CheckEmpty, CheckFull, Hit, Collision, Miss, ReadSize, Goto, TypeOK
<1>5. CASE WriteStore(t) \/ Return(t)
  BY <1>i, <1>5 DEF WriteStore, Return, Goto, PoolInv, Phases
<1>6. CASE SetKey(t) \/ SetSize(t)
  BY <1>t, <1>6 DEF SetKey, SetSize, Goto, TypeOK
<1>7. QED
  BY <1>1, <1>2, <1>3, <1>4, <1>5, <1>6 DEF Step

(* During a call, the history has the answer the shards hold.              *)
Remembered == \A t \in Threads : pc[t] # "idle" => store[key[t]] \in held[t]

(* It always does: a Set of another thread that changes the answer is      *)
(* added to the history of the calls in progress.                          *)
LEMMA RememberedAlways == Spec => []Remembered
<1>1. Init => Remembered
  BY DEF Init, Remembered
<1>2. Remembered /\ [Next]_vars => Remembered'
  <2>1. CASE UNCHANGED vars
    BY <2>1 DEF Remembered, vars, locals
  <2>2. CASE Next
    BY <2>2 DEF Next, Remember, Remembered
  <2>3. QED
    BY <2>1, <2>2
<1>3. QED
  BY <1>1, <1>2, PTL DEF Spec

(* With one thread every Get answers with the value its key has            *)
(* (NvmEngine::Get through HotKeyPool::getKV).                             *)
THEOREM GetsAreCurrent ==
  ASSUME OneThread
  PROVE  Spec => GetIsCurrent
<1> DEFINE Right == \A t \in Threads :
                      pc[t] # "idle" /\ val[t] = Nothing /\ pc'[t] = "idle" => reply'[t] \in held[t]
<1>1. ASSUME Good, Remembered, [Next]_vars
      PROVE  [Right]_vars
  <2> SUFFICES ASSUME Next, NEW t \in Threads,
                      pc[t] # "idle", val[t] = Nothing, pc'[t] = "idle"
               PROVE  reply'[t] \in held[t]
    BY <1>1
  <2>1. ~Call
    BY DEF Call, Get, Set, Goto, OneThread
  <2>2. Step(t)
    BY <2>1 DEF Next, OneThread
  <2>3. reply' = [reply EXCEPT ![t] = store[key[t]]]
    BY <1>1, <2>2, AnswerOfGet
  <2>4. QED
    BY <1>1, <2>3 DEF Good, Typed, TypeOK, Remembered
<1>2. Spec => [][Right]_vars
  BY <1>1, GoodAlways, RememberedAlways, PTL DEF Spec
<1>3. QED
  BY <1>2 DEF GetIsCurrent

------------------------------------------------------------------------------
(* The engine behind its pool is a KVStore *)

(* With one thread, it is the one the store is seen through.               *)
LEMMA TheOnlyThread ==
  ASSUME OneThread
  PROVE  TheThread \in Threads /\ \A t \in Threads : t = TheThread
<1>1. TheThread \in Threads
  BY HotKeyPoolAssumption DEF TheThread
<1>2. QED
  BY <1>1 DEF OneThread

(* The first state is one of the store.                                    *)
LEMMA KVInit ==
  ASSUME OneThread, Init
  PROVE  PooledKV!Init
  BY TheOnlyThread DEF Init, PooledKV!Init

(* The call KVStore sees. *)
KVCall ==
  IF val[TheThread] = Nothing THEN Nothing
  ELSE [key |-> key[TheThread], answer |-> Intact(val[TheThread]),
        done |-> pc[TheThread] = "return"]

(* Steps KVStore does not see. *)
LEMMA KVStutter ==
  ASSUME UNCHANGED store,
         UNCHANGED <<key[TheThread], val[TheThread], reply[TheThread]>>,
         pc[TheThread] # "return", pc'[TheThread] # "return"
  PROVE  UNCHANGED PooledKV!vars
<1>1. (pc[TheThread] = "return") = FALSE /\ (pc'[TheThread] = "return") = FALSE
  OBVIOUS
<1>2. KVCall' = KVCall
  BY <1>1 DEF KVCall
<1>3. QED
  BY <1>2 DEF PooledKV!vars, KVCall

(* A call of Set is Begin; a call of Get is nothing yet.                   *)
LEMMA KVCallStep ==
  ASSUME Good, OneThread, Call
  PROVE  [PooledKV!Next]_PooledKV!vars
<1> DEFINE t == TheThread
<1>t. t \in Threads /\ TypeOK /\ PoolInv(t)
  BY TheOnlyThread DEF Good, Typed
<1>1. PICK k \in Keys : Get(t, k) \/ \E v \in Values : Set(t, k, v)
  BY TheOnlyThread DEF Call
<1>2. CASE Get(t, k)
  <2>1. val[t] = Nothing /\ val' = val /\ store' = store /\ reply' = reply
    BY <1>t, <1>2 DEF Get, Goto, PoolInv, Phases
  <2>2. KVCall' = KVCall
    BY <2>1 DEF KVCall
  <2>3. QED
    BY <2>1, <2>2 DEF PooledKV!vars, KVCall
<1>3. ASSUME NEW v \in Values, Set(t, k, v)
      PROVE  PooledKV!Begin(k, Intact(v))
  <2>1. val[t] = Nothing
    BY <1>t, <1>3 DEF Set, Goto, PoolInv, Phases
  <2>2. /\ val'[t] = v /\ key'[t] = k /\ pc'[t] = "check" /\ reply'[t] = Nothing
        /\ store' = store
    BY <1>t, <1>3 DEF Set, Goto, Reply, TypeOK
  <2>3. v # Nothing /\ (pc'[t] = "return") = FALSE
    BY <2>2, HotKeyPoolAssumption
  <2>4. QED
    BY <2>1, <2>2, <2>3 DEF PooledKV!Begin, Intact
<1>4. QED
  BY <1>1, <1>2, <1>3, IntactIsBytes DEF PooledKV!Next

(* A call of the store is not what stands for no call.                     *)
LEMMA CallIsSomething ==
  ASSUME NEW k \in Keys, NEW v \in Values, NEW d \in BOOLEAN
  PROVE  [key |-> k, answer |-> Intact(v), done |-> d] # Nothing
<1>1. [key |-> k, answer |-> Intact(v), done |-> d]
        \in [key : Keys, answer : Answers, done : BOOLEAN]
  BY IntactIsBytes
<1>2. QED
  BY <1>1, HotKeyPoolAssumption

(* What Apply does to a call.                                              *)
LEMMA CallDone ==
  ASSUME NEW k \in Keys, NEW a \in Answers
  PROVE  [[key |-> k, answer |-> a, done |-> FALSE] EXCEPT !.done = TRUE]
           = [key |-> k, answer |-> a, done |-> TRUE]
<1> DEFINE r == [key |-> k, answer |-> a, done |-> FALSE]
           q == [r EXCEPT !.done = TRUE]
<1>1. r \in [key : Keys, answer : Answers, done : BOOLEAN]
  OBVIOUS
<1>2. q \in [key : Keys, answer : Answers, done : BOOLEAN]
  BY <1>1
<1>3. q.key = k /\ q.answer = a /\ q.done = TRUE
  OBVIOUS
<1> HIDE DEF q
<1>4. q = [key |-> q.key, answer |-> q.answer, done |-> q.done]
  BY <1>2
<1>5. QED
  BY <1>3, <1>4 DEF q

(* WriteStore is Apply, a step that ends a Get is Get, and Return is       *)
(* Return; KVStore sees no other step.                                     *)
LEMMA KVThreadStep ==
  ASSUME Good, OneThread, Step(TheThread)
  PROVE  [PooledKV!Next]_PooledKV!vars
<1> DEFINE t == TheThread
<1>t. t \in Threads /\ TypeOK /\ PoolInv(t)
  BY TheOnlyThread DEF Good, Typed
<1>1. CASE val[t] = Nothing /\ pc[t] # "idle" /\ pc'[t] = "idle"
  <2>1. /\ UNCHANGED <<store, key, val>> /\ reply'[t] = store[key[t]]
        /\ key[t] \in Keys
    BY <1>t, <1>1, AnswerOfGet DEF TypeOK
  <2>2. KVCall = Nothing /\ KVCall' = Nothing
    BY <1>1, <2>1 DEF KVCall
  <2>3. PooledKV!Get(key[t])
    BY <2>1, <2>2 DEF PooledKV!Get, KVCall
  <2>4. QED
    BY <2>1, <2>3 DEF PooledKV!Next
<1>2. CASE WriteStore(t)
  <2>1. /\ val[t] # Nothing /\ pc[t] = "store" /\ pc'[t] = "return"
        /\ UNCHANGED <<key, val, reply>> /\ reply[t] = Nothing
        /\ store' = [store EXCEPT ![key[t]] = Intact(val[t])]
    BY <1>t, <1>2 DEF WriteStore, Goto, TypeOK, PoolInv, Phases
  <2>2. (pc[t] = "return") = FALSE /\ (pc'[t] = "return") = TRUE
    BY <2>1
  <2>3. /\ KVCall = [key |-> key[t], answer |-> Intact(val[t]), done |-> FALSE]
        /\ KVCall' = [key |-> key[t], answer |-> Intact(val[t]), done |-> TRUE]
    BY <2>1, <2>2 DEF KVCall, Intact
  <2>4. KVCall # Nothing
    <3>1. key[t] \in Keys /\ val[t] \in Values
      BY <1>t, <2>1 DEF TypeOK
    <3>2. QED
      BY <2>3, <3>1, CallIsSomething
  <2>5. /\ ~KVCall.done
        /\ store' = [store EXCEPT ![KVCall.key] = KVCall.answer]
        /\ KVCall' = [KVCall EXCEPT !.done = TRUE]
    <3>1. KVCall.done = FALSE /\ KVCall.key = key[t] /\ KVCall.answer = Intact(val[t])
      BY <2>3
    <3>2. [[key |-> key[t], answer |-> Intact(val[t]), done |-> FALSE] EXCEPT !.done = TRUE]
            = [key |-> key[t], answer |-> Intact(val[t]), done |-> TRUE]
      <4>1. key[t] \in Keys /\ Intact(val[t]) \in Answers
        BY <1>t, <2>1, IntactIsBytes DEF TypeOK
      <4>2. QED
        BY <4>1, CallDone
    <3>3. QED
      BY <2>1, <2>3, <3>1, <3>2
  <2>6. PooledKV!Apply
    BY <2>1, <2>4, <2>5 DEF PooledKV!Apply, KVCall
  <2>7. QED
    BY <2>6 DEF PooledKV!Next
<1>3. CASE Return(t)
  <2>1. /\ val[t] # Nothing /\ pc[t] = "return" /\ val'[t] = Nothing
        /\ UNCHANGED <<store, reply>> /\ reply[t] = Nothing
    BY <1>t, <1>3 DEF Return, Goto, TypeOK, PoolInv, Phases
  <2>2. (pc[t] = "return") = TRUE
    BY <2>1
  <2>3. KVCall = [key |-> key[t], answer |-> Intact(val[t]), done |-> TRUE] /\ KVCall' = Nothing
    BY <2>1, <2>2 DEF KVCall
  <2>4. KVCall # Nothing
    <3>1. key[t] \in Keys /\ val[t] \in Values
      BY <1>t, <2>1 DEF TypeOK
    <3>2. QED
      BY <2>3, <3>1, CallIsSomething
  <2>5. PooledKV!Return
    BY <2>1, <2>3, <2>4 DEF PooledKV!Return, KVCall
  <2>6. QED
    BY <2>5 DEF PooledKV!Next
<1>4. CASE /\ ~(val[t] = Nothing /\ pc'[t] = "idle")
           /\ ~WriteStore(t) /\ ~Return(t)
  <2>1. /\ UNCHANGED store /\ UNCHANGED <<key[t], val[t], reply[t]>>
        /\ pc[t] # "return" /\ pc'[t] # "return"
    <3>1. CASE CheckEmpty(t) \/ CheckFull(t) \/ Hit(t) \/ Collision(t) \/ ReadSize(t)
      BY <1>t, <3>1 DEF CheckEmpty, CheckFull, Hit, Collision, Miss, ReadSize, Goto, TypeOK
    <3>2. CASE ReadBytes(t)
      BY <1>t, <1>4, <3>2 DEF ReadBytes, Goto, TypeOK, PoolInv, Phases
    <3>3. CASE ReadStore(t)
      BY <1>t, <1>4, <3>3 DEF ReadStore, Goto, TypeOK
    <3>4. CASE SetKey(t) \/ SetSize(t)
      BY <1>t, <3>4 DEF SetKey, SetSize, SetEntry, Goto, TypeOK
    <3>5. CASE SetBytes(t)
      BY <1>t, <1>4, <3>5 DEF SetBytes, SetEntry, Goto, TypeOK
    <3>6. QED
      BY <1>4, <3>1, <3>2, <3>3, <3>4, <3>5 DEF Step
  <2>2. QED
    BY <2>1, KVStutter
<1>5. pc[t] # "idle"
  BY DEF Step, CheckEmpty, CheckFull, Hit, Collision, ReadSize, ReadBytes, ReadStore,
         WriteStore, Return, SetKey, SetSize, SetBytes, Miss, Goto
<1>6. QED
  BY <1>1, <1>2, <1>3, <1>4, <1>5

(* With one thread the engine with its pool is the key-value store of      *)
(* include/db.hpp: a Get that hits answers as one that does not.           *)
THEOREM PoolIsTransparent ==
  ASSUME OneThread
  PROVE  Spec => ImplementsKVStore
<1>1. Init => PooledKV!Init
  BY KVInit
<1>2. ASSUME Good, [Next]_vars
      PROVE  [PooledKV!Next]_PooledKV!vars
  <2>1. CASE UNCHANGED vars
    BY <2>1 DEF vars, locals, PooledKV!vars
  <2>2. CASE Call
    BY <1>2, <2>2, KVCallStep
  <2>3. CASE \E t \in Threads : Step(t)
    BY <1>2, <2>3, KVThreadStep, TheOnlyThread
  <2>4. QED
    BY <1>2, <2>1, <2>2, <2>3 DEF Next
<1>3. QED
  BY <1>1, <1>2, GoodAlways, PTL DEF Spec, ImplementsKVStore, PooledKV!Spec

==============================================================================
