---------------------------- MODULE EnginesProofs ----------------------------
(***************************************************************************)
(* Proofs about nvm_engine_latest as a whole (LatestEngine.tla), as one of *)
(* the engines of Engines.tla: for any number of threads and keys, any     *)
(* reserve and any number of Sets and kills, a Get that no Set of its key  *)
(* overlaps answers with what the key has.                                 *)
(***************************************************************************)
EXTENDS Engines, FiniteSetTheorems, SequenceTheorems, TLAPS

------------------------------------------------------------------------------
(* The inductive invariant *)

Items == Latest!Items
EMPTY == Latest!EMPTY
Blank == Latest!Blank

Records == [key : Keys, value : Nat, cnt : Nat]
Stores == [Keys -> Nat \cup {NotFound}]

(* The calls of a thread, between its steps. *)
Calls ==
  {c \in [op : {"idle", "take", "write", "recycle", "index", "read"},
          key : Keys \cup {Nothing}, value : Nat, cnt : Nat,
          old : Items \cup {EMPTY}, new : Items \cup {EMPTY}, disturbed : BOOLEAN] :
     /\ c.op # "idle" => c.key \in Keys
     /\ c.op = "recycle" => c.old # EMPTY}

Typed ==
  /\ disk \in [Items -> Records \cup {Blank}]
  /\ mem \in [up : BOOLEAN, index : [Keys -> Items \cup {EMPTY}], free_space : Seq(Items),
              file_end_offset_ : Items, key_set_cnts_f : Nat]
  /\ client \in [Threads -> Calls]
  /\ ghost \in [sets : 0..MaxSets, stops : Nat, hole : BOOLEAN, current : Stores, stored : Stores]

(* A thread in a Set; one that has taken an item; and one that has written *)
(* its record and not yet moved the index.                                 *)
InSet(t) == client[t].op \notin {"idle", "read"}
Holds(t) == client[t].op \in {"write", "recycle", "index"}
Written(t) == client[t].op \in {"recycle", "index"}
Taking == {t \in Threads : client[t].op = "take"}

Places == 1..Len(mem.free_space)

(* The items in use are fewer than the Sets made, so that there is always  *)
(* one to extend the file by.                                              *)
Room ==
  /\ IsFiniteSet(Taking)
  /\ mem.file_end_offset_ + Cardinality(Taking) <= ghost.sets
  /\ \A o \in Items : disk[o] # Blank => o < ghost.sets
  /\ \A t \in Threads : /\ InSet(t) => client[t].old < ghost.sets
                        /\ Holds(t) => client[t].new \in 0..ghost.sets - 1
  /\ \A k \in Keys : mem.index[k] < ghost.sets
  /\ \A n \in Places : mem.free_space[n] < ghost.sets

(* The index is what leads to the record of k: no Set is about to move it, *)
(* which has given the record away already.                                *)
Kept(k) ==
  /\ mem.index[k] # EMPTY
  /\ \A t \in Threads : client[t].op = "index" => client[t].key # k

(* What a thread knows in the middle of its call. *)
ThreadInv(t) ==
  LET c == client[t] IN
  /\ InSet(t) => /\ c.old = mem.index[c.key]
                 /\ c.cnt <= mem.key_set_cnts_f
                 /\ \A u \in Threads : InSet(u) /\ client[u].key = c.key => u = t
  /\ Written(t) => disk[c.new] = [key |-> c.key, value |-> c.value, cnt |-> c.cnt]
  /\ c.op = "read" /\ ~c.disturbed =>
       /\ c.old = mem.index[c.key] /\ c.old # EMPTY
       /\ \A u \in Threads : InSet(u) => client[u].key # c.key

(* An item has one owner: the list, a thread, or the index.                *)
OwnInv ==
  /\ \A n \in Places :
       /\ mem.free_space[n] < mem.file_end_offset_
       /\ \A m \in Places : mem.free_space[m] = mem.free_space[n] => m = n
  /\ \A t \in Threads : Holds(t) =>
       /\ client[t].new < mem.file_end_offset_
       /\ \A u \in Threads : Holds(u) /\ client[u].new = client[t].new => u = t
       /\ \A n \in Places : mem.free_space[n] # client[t].new
  /\ \A k \in Keys : mem.index[k] < mem.file_end_offset_
  /\ \A k \in Keys : Kept(k) =>
       /\ \A n \in Places : mem.free_space[n] # mem.index[k]
       /\ \A t \in Threads : Holds(t) => client[t].new # mem.index[k]
       /\ \A l \in Keys : Kept(l) /\ mem.index[l] = mem.index[k] => l = k

(* The item o has the record of k with the highest count, and no other one *)
(* has that count.                                                         *)
Top(k, o) ==
  /\ o \in Items /\ disk[o].key = k /\ disk[o].value = ghost.stored[k]
  /\ \A p \in Items : disk[p].key = k => p = o \/ disk[p].cnt < disk[o].cnt
None(k) == ghost.stored[k] = NotFound /\ \A p \in Items : disk[p].key # k

(* Engine open: what the index says is so, and what recovery would find.   *)
OpenInv(k) ==
  /\ IF mem.index[k] = EMPTY THEN ghost.current[k] = NotFound
     ELSE Kept(k) => disk[mem.index[k]].key = k /\ disk[mem.index[k]].value = ghost.current[k]
  /\ \A t \in Threads : client[t].key = k =>
       /\ Written(t) => Top(k, client[t].new)
       /\ client[t].op \in {"take", "write"} =>
            \A p \in Items : disk[p].key = k => disk[p].cnt < client[t].cnt
  /\ \/ \E t \in Threads : Written(t) /\ client[t].key = k
     \/ IF mem.index[k] = EMPTY THEN None(k) ELSE Top(k, mem.index[k])

(* Recovery: of the records walked over, the index has the latest. *)
Walked(k) == {o \in Items : o < mem.file_end_offset_ /\ disk[o].key = k}
RecoveryInv(k) ==
  /\ ghost.current[k] = ghost.stored[k]
  /\ None(k) \/ \E o \in Items : Top(k, o)
  /\ IF mem.index[k] = EMPTY THEN Walked(k) = {}
     ELSE /\ mem.index[k] \in Walked(k)
          /\ \A o \in Walked(k) : disk[o].cnt <= disk[mem.index[k]].cnt

ValueInv ==
  /\ \A o \in Items : mem.up \/ o < mem.file_end_offset_ => disk[o].cnt <= mem.key_set_cnts_f
  /\ \A k \in Keys : IF mem.up THEN OpenInv(k) ELSE RecoveryInv(k)
  /\ mem.up \/ \A o, p \in Items : o < p /\ disk[o] = Blank => disk[p] = Blank
  /\ reply # Nothing => reply.got = reply.current

(* Of an engine that has lost records behind a hole, only the types and    *)
(* the bounds are kept.                                                    *)
LatestInv ==
  /\ Typed /\ Room
  /\ \A t \in Threads : ~mem.up => client[t] = Latest!Idle
  /\ ~ghost.hole => OwnInv /\ ValueInv /\ \A t \in Threads : ThreadInv(t)

------------------------------------------------------------------------------
(* Each step keeps the invariant                                           *)

USE DEF Items, EMPTY, Blank

(* An empty file and fresh objects.                                        *)
LEMMA InitLatest == Latest!Init => LatestInv
<1> SUFFICES ASSUME Latest!Init
             PROVE  LatestInv
  OBVIOUS
<1> USE EnginesAssumption DEF Latest!Init, Latest!Fresh, Latest!Idle, Latest!Blank, Latest!Items, Latest!EMPTY
<1>1. Typed
  BY DEF Typed, Calls, Records, Stores
<1>2. Taking = {}
  BY DEF Taking
<1>3. Room
  BY <1>2, FS_EmptySet DEF Room, Holds, InSet, Places
<1>4. OwnInv
  BY DEF OwnInv, Holds, Kept, Places
<1>5. ValueInv
  BY DEF ValueInv, RecoveryInv, None, Walked
<1>6. \A t \in Threads : client[t] = Latest!Idle
  OBVIOUS
<1>7. \A t \in Threads : ThreadInv(t)
  BY DEF ThreadInv, InSet, Written
<1>8. QED
  BY <1>1, <1>3, <1>4, <1>5, <1>6, <1>7 DEF LatestInv

(* What the fields of the typed records are.                               *)
LEMMA Fields ==
  ASSUME Typed
  PROVE  /\ mem.up \in BOOLEAN /\ mem.index \in [Keys -> Items \cup {EMPTY}]
         /\ mem.free_space \in Seq(Items) /\ mem.file_end_offset_ \in Items
         /\ mem.key_set_cnts_f \in Nat
         /\ ghost.sets \in 0..MaxSets /\ ghost.hole \in BOOLEAN
         /\ ghost.current \in Stores /\ ghost.stored \in Stores
         /\ \A t \in Threads :
              /\ client[t].op \in {"idle", "take", "write", "recycle", "index", "read"}
              /\ client[t].key \in Keys \cup {Nothing}
              /\ client[t].value \in Nat /\ client[t].cnt \in Nat
              /\ client[t].old \in Items \cup {EMPTY} /\ client[t].new \in Items \cup {EMPTY}
              /\ client[t].disturbed \in BOOLEAN
         /\ \A t \in Threads : /\ client[t].op # "idle" => client[t].key \in Keys
                               /\ client[t].op = "recycle" => client[t].old # EMPTY
         /\ \A o \in Items : disk[o] = Blank \/ disk[o] \in Records
         /\ Items \subseteq Nat /\ EMPTY \notin Items
BY EnginesAssumption DEF Typed, Calls, Latest!Items, Latest!EMPTY

(* RecycleKV_Data gives the old item to the list: from now on it is the    *)
(* list's, and no more the index's, though the index leads to it still.    *)
LEMMA RecycleKeeps ==
  ASSUME LatestInv, NEW t \in Threads, Latest!Recycle(t)
  PROVE  LatestInv'
<1> DEFINE c == client[t]
<1>1. /\ c.op = "recycle" /\ reply' = Nothing /\ disk' = disk /\ ghost' = ghost
      /\ mem' = [mem EXCEPT !.free_space = Append(@, client[t].old)]
      /\ client' = [client EXCEPT ![t] = [client[t] EXCEPT !.op = "index"]]
  BY DEF Latest!Recycle, Latest!Goes
<1>2. Typed /\ Room
  BY DEF LatestInv
<1>3. /\ \A u \in Threads : u # t => client'[u] = client[u]
      /\ client'[t] = [client[t] EXCEPT !.op = "index"]
  BY <1>1, <1>2 DEF Typed
<1>4. Typed'
  <2>1. [client[t] EXCEPT !.op = "index"] \in Calls
    BY <1>1, <1>2 DEF Typed, Calls
  <2>2. client' \in [Threads -> Calls]
    BY <1>1, <1>2, <2>1 DEF Typed
  <2>3. c.old \in Items
    BY <1>1, <1>2, Fields
  <2>4. Append(mem.free_space, c.old) \in Seq(Items)
    BY <2>3, <1>2, Fields
  <2>5. mem' \in [up : BOOLEAN, index : [Keys -> Items \cup {EMPTY}], free_space : Seq(Items),
              file_end_offset_ : Items, key_set_cnts_f : Nat]
    BY <1>1, <1>2, <2>4 DEF Typed
  <2>6. QED
    BY <1>1, <1>2, <2>2, <2>5 DEF Typed
<1>5. /\ mem'.up = mem.up /\ mem'.index = mem.index /\ mem'.file_end_offset_ = mem.file_end_offset_
      /\ mem'.key_set_cnts_f = mem.key_set_cnts_f
      /\ mem'.free_space = Append(mem.free_space, c.old)
      /\ c.old \in Items
  BY <1>1, <1>2, Fields DEF Typed
<1>6. /\ Len(mem'.free_space) = Len(mem.free_space) + 1
      /\ \A n \in 1..Len(mem'.free_space) : mem'.free_space[n] =
           IF n = Len(mem.free_space) + 1 THEN c.old ELSE mem.free_space[n]
      /\ Places' = 1..Len(mem.free_space) + 1 /\ Len(mem.free_space) \in Nat
  BY <1>5, <1>2, Fields DEF Places
<1>7. /\ client'[t].op = "index"
      /\ client'[t].key = c.key /\ client'[t].value = c.value /\ client'[t].cnt = c.cnt
      /\ client'[t].old = c.old /\ client'[t].new = c.new
  BY <1>3, <1>2 DEF Typed, Calls
<1>9. mem.up
  BY <1>1 DEF LatestInv, Latest!Idle
<1>8. Room'
  <2>1. Taking' = Taking
    BY <1>1, <1>3, <1>7 DEF Taking
  <2>2. \A u \in Threads : /\ Holds(u)' => Holds(u) /\ client'[u].new = client[u].new
                           /\ InSet(u)' => InSet(u) /\ client'[u].old = client[u].old
    BY <1>1, <1>3, <1>7 DEF Holds, InSet
  <2>3. c.old < ghost.sets
    BY <1>1, <1>2 DEF Room, InSet
  <2>4. \A n \in Places' : mem'.free_space[n] < ghost.sets
    BY <1>2, <1>6, <2>3 DEF Room, Places
  <2>5. QED
    BY <1>1, <1>2, <1>5, <2>1, <2>2, <2>4 DEF Room, Holds, InSet, Places
<1>10. ASSUME ~ghost.hole
       PROVE  OwnInv' /\ ValueInv' /\ \A u \in Threads : ThreadInv(u)'
  <2>1. OwnInv /\ ValueInv /\ \A u \in Threads : ThreadInv(u)
    BY <1>10 DEF LatestInv
  <2>2. \A u \in Threads : /\ Holds(u)' <=> Holds(u)
                           /\ InSet(u)' <=> InSet(u)
                           /\ Written(u)' <=> Written(u)
                           /\ client'[u].new = client[u].new
                           /\ client'[u].key = client[u].key
    BY <1>1, <1>3, <1>7 DEF Holds, InSet, Written
  <2>3. c.key \in Keys /\ c.old = mem.index[c.key] /\ Kept(c.key)
    BY <1>1, <1>2, <2>1, Fields DEF ThreadInv, Kept, InSet
  <2>4. \A k \in Keys : Kept(k)' => Kept(k) /\ k # c.key
    BY <1>1, <1>3, <1>5, <1>7 DEF Kept
  <2>5. OwnInv'
    <3>1. \A n \in Places : mem.free_space[n] # c.old
      BY <2>1, <2>3 DEF OwnInv
    <3>2. \A n \in Places' :
            /\ mem'.free_space[n] < mem.file_end_offset_
            /\ \A m \in Places' : mem'.free_space[m] = mem'.free_space[n] => m = n
      BY <1>6, <2>1, <2>3, <3>1 DEF OwnInv, Places
    <3>3. ASSUME NEW u \in Threads, Holds(u)
          PROVE  /\ client[u].new < mem.file_end_offset_
                 /\ \A v \in Threads : Holds(v) /\ client[v].new = client[u].new => v = u
                 /\ \A n \in Places' : mem'.free_space[n] # client[u].new
      BY <1>6, <2>1, <2>3, <3>3 DEF OwnInv, Places
    <3>4. ASSUME NEW k \in Keys, Kept(k), k # c.key
          PROVE  /\ \A n \in Places' : mem'.free_space[n] # mem.index[k]
                 /\ \A u \in Threads : Holds(u) => client[u].new # mem.index[k]
                 /\ \A l \in Keys : Kept(l) /\ mem.index[l] = mem.index[k] => l = k
      <4>1. mem.index[k] # c.old
        BY <2>1, <2>3, <3>4 DEF OwnInv
      <4>2. \A n \in Places : mem.free_space[n] # mem.index[k]
        BY <2>1, <3>4 DEF OwnInv
      <4>3. \A n \in Places' : mem'.free_space[n] # mem.index[k]
        BY <1>6, <4>1, <4>2 DEF Places
      <4>4. QED
        BY <2>1, <3>4, <4>3 DEF OwnInv
    <3>5. QED
      BY <1>1, <1>5, <2>1, <2>2, <2>4, <3>2, <3>3, <3>4 DEF OwnInv, Holds, Kept, Places
  <2>6. ValueInv'
    <3>1. \A k \in Keys : OpenInv(k)
      BY <1>9, <2>1 DEF ValueInv
    <3>2. ASSUME NEW k \in Keys
          PROVE  OpenInv(k)'
      <4>1. \A o \in Items : (Top(k, o)' <=> Top(k, o))
        BY <1>1 DEF Top
      <4>2. None(k)' <=> None(k)
        BY <1>1 DEF None
      <4>3. QED
        BY <1>1, <1>3, <1>5, <1>7, <2>2, <2>4, <3>1 DEF OpenInv, Top, None, Written
    <3>3. QED
      BY <1>1, <1>5, <1>9, <2>1, <3>2 DEF ValueInv
  <2>7. ASSUME NEW u \in Threads
        PROVE  ThreadInv(u)'
    <3>1. CASE u = t
      <4>1. /\ InSet(t) /\ Written(t)' /\ client'[t].op # "read"
            /\ c.old = mem.index[c.key] /\ c.cnt <= mem.key_set_cnts_f
            /\ disk[c.new] = [key |-> c.key, value |-> c.value, cnt |-> c.cnt]
            /\ \A v \in Threads : InSet(v) /\ client[v].key = c.key => v = t
        BY <1>1, <1>7, <2>1 DEF ThreadInv, InSet, Written
      <4>2. QED
        BY <1>1, <1>5, <1>7, <2>2, <3>1, <4>1 DEF ThreadInv, InSet, Written
    <3>2. CASE u # t
      BY <1>1, <1>3, <1>5, <1>7, <2>1, <2>2, <3>2 DEF ThreadInv, InSet, Written
    <3>3. QED
      BY <3>1, <3>2
  <2>8. QED
    BY <2>5, <2>6, <2>7
<1>11. QED
  BY <1>1, <1>4, <1>5, <1>8, <1>9, <1>10 DEF LatestInv

(* A thread without a call.                                                *)
LEMMA IdleIs == Latest!Idle \in Calls /\ Latest!Idle.op = "idle" /\ Latest!Idle.key = Nothing
BY DEF Latest!Idle, Latest!EMPTY, Calls

(* put or update: the item becomes the index's own.                        *)
LEMMA IndexKeeps ==
  ASSUME LatestInv, NEW t \in Threads, Latest!Index(t)
  PROVE  LatestInv'
<1> DEFINE c == client[t]
<1>1. /\ c.op = "index" /\ reply' = Nothing /\ disk' = disk
      /\ mem' = [mem EXCEPT !.index[c.key] = c.new]
      /\ client' = [client EXCEPT ![t] = Latest!Idle]
      /\ ghost' = [ghost EXCEPT !.current[c.key] = c.value]
  BY DEF Latest!Index, Latest!Goes
<1>2. Typed /\ Room /\ mem.up
  BY <1>1 DEF LatestInv, Latest!Idle
<1>3. /\ \A u \in Threads : u # t => client'[u] = client[u]
      /\ client'[t] = Latest!Idle /\ client'[t].op = "idle" /\ client'[t].key = Nothing
  BY <1>1, <1>2, IdleIs DEF Typed
<1>4. c.key \in Keys /\ c.value \in Nat /\ c.new \in Items /\ c.new \in 0..ghost.sets - 1
  <2>1. c.key \in Keys /\ c.value \in Nat /\ ghost.sets \in 0..MaxSets
    BY <1>1, <1>2, Fields
  <2>2. c.new \in 0..ghost.sets - 1
    BY <1>1, <1>2 DEF Room, Holds
  <2>3. QED
    BY <2>1, <2>2, EnginesAssumption DEF Latest!Items
<1>5. /\ mem'.up = mem.up /\ mem'.file_end_offset_ = mem.file_end_offset_
      /\ mem'.key_set_cnts_f = mem.key_set_cnts_f /\ mem'.free_space = mem.free_space
      /\ mem'.index[c.key] = c.new
      /\ \A k \in Keys : k # c.key => mem'.index[k] = mem.index[k]
      /\ ghost'.sets = ghost.sets /\ ghost'.hole = ghost.hole /\ ghost'.stored = ghost.stored
      /\ ghost'.current[c.key] = c.value
      /\ \A k \in Keys : k # c.key => ghost'.current[k] = ghost.current[k]
  BY <1>1, <1>2, <1>4 DEF Typed, Stores
<1>6. Typed'
  <2>1. client' \in [Threads -> Calls]
    BY <1>1, <1>2, IdleIs DEF Typed
  <2>2. mem' \in [up : BOOLEAN, index : [Keys -> Items \cup {EMPTY}], free_space : Seq(Items),
              file_end_offset_ : Items, key_set_cnts_f : Nat]
    BY <1>1, <1>2, <1>4 DEF Typed
  <2>3. ghost' \in [sets : 0..MaxSets, stops : Nat, hole : BOOLEAN, current : Stores, stored : Stores]
    BY <1>1, <1>2, <1>4 DEF Typed, Stores
  <2>4. QED
    BY <1>1, <1>2, <2>1, <2>2, <2>3 DEF Typed
<1>7. Room'
  <2>1. Taking' = Taking
    BY <1>1, <1>3 DEF Taking
  <2>2. \A u \in Threads : /\ Holds(u)' => Holds(u) /\ client'[u].new = client[u].new
                           /\ InSet(u)' => InSet(u) /\ client'[u].old = client[u].old
    BY <1>1, <1>3 DEF Holds, InSet
  <2>3. c.new < ghost.sets
    BY <1>2, <1>4, Fields
  <2>4. \A k \in Keys : mem'.index[k] < ghost.sets
    BY <1>2, <1>5, <2>3 DEF Room
  <2>5. \A n \in Places' : mem'.free_space[n] < ghost'.sets
    BY <1>2, <1>5 DEF Room, Places
  <2>6. \A u \in Threads : /\ InSet(u)' => client'[u].old < ghost'.sets
                           /\ Holds(u)' => client'[u].new \in 0..ghost'.sets - 1
    BY <1>2, <1>5, <2>2 DEF Room
  <2>7. QED
    BY <1>1, <1>2, <1>5, <2>1, <2>4, <2>5, <2>6 DEF Room
<1>8. ASSUME ~ghost.hole
      PROVE  OwnInv' /\ ValueInv' /\ \A u \in Threads : ThreadInv(u)'
  <2>1. OwnInv /\ ValueInv /\ \A u \in Threads : ThreadInv(u)
    BY <1>8 DEF LatestInv
  <2>2. /\ InSet(t) /\ Written(t) /\ Holds(t)
        /\ disk[c.new] = [key |-> c.key, value |-> c.value, cnt |-> c.cnt]
        /\ \A u \in Threads : InSet(u) /\ client[u].key = c.key => u = t
    BY <1>1, <2>1 DEF ThreadInv, InSet, Written, Holds
  <2>3. \A u \in Threads : u # t => /\ Holds(u)' <=> Holds(u)
                                    /\ InSet(u)' <=> InSet(u)
                                    /\ Written(u)' <=> Written(u)
    BY <1>3 DEF Holds, InSet, Written
  <2>4. ~Holds(t)' /\ ~InSet(t)' /\ ~Written(t)'
    BY <1>3 DEF Holds, InSet, Written
  <2>5. \A k \in Keys : k # c.key => (Kept(k)' <=> Kept(k))
    BY <1>1, <1>3, <1>5 DEF Kept
  <2>6. OwnInv'
    <3>1. \A n \in Places : /\ mem.free_space[n] < mem.file_end_offset_
                            /\ \A m \in Places : mem.free_space[m] = mem.free_space[n] => m = n
      BY <2>1 DEF OwnInv
    <3>2. ASSUME NEW u \in Threads, u # t, Holds(u)
          PROVE  /\ client[u].new < mem.file_end_offset_
                 /\ \A v \in Threads : Holds(v) /\ client[v].new = client[u].new => v = u
                 /\ \A n \in Places : mem.free_space[n] # client[u].new
      BY <2>1, <3>2 DEF OwnInv
    <3>3. /\ c.new < mem.file_end_offset_
          /\ \A v \in Threads : Holds(v) /\ client[v].new = c.new => v = t
          /\ \A n \in Places : mem.free_space[n] # c.new
          /\ \A k \in Keys : Kept(k) => mem.index[k] # c.new
      BY <2>1, <2>2 DEF OwnInv
    <3>4. \A k \in Keys : mem'.index[k] < mem.file_end_offset_
      BY <1>5, <2>1, <3>3 DEF OwnInv
    <3>5. ASSUME NEW k \in Keys, Kept(k), k # c.key
          PROVE  /\ \A n \in Places : mem.free_space[n] # mem.index[k]
                 /\ \A u \in Threads : Holds(u) => client[u].new # mem.index[k]
                 /\ \A l \in Keys : Kept(l) /\ mem.index[l] = mem.index[k] => l = k
      BY <2>1, <3>5 DEF OwnInv
    <3>6. ASSUME NEW k \in Keys, Kept(k)'
          PROVE  /\ \A n \in Places : mem.free_space[n] # mem'.index[k]
                 /\ \A u \in Threads : u # t /\ Holds(u) => client[u].new # mem'.index[k]
                 /\ \A l \in Keys : Kept(l)' /\ mem'.index[l] = mem'.index[k] => l = k
      <4>1. CASE k = c.key
        BY <1>5, <2>5, <3>3, <4>1
      <4>2. CASE k # c.key
        BY <1>5, <2>5, <3>3, <3>5, <3>6, <4>2
      <4>3. QED
        BY <4>1, <4>2
    <3>7. Places' = Places
      BY <1>5 DEF Places
    <3>8. QED
      BY <1>3, <1>5, <2>3, <2>4, <3>1, <3>2, <3>4, <3>6, <3>7 DEF OwnInv, Holds, Kept, Places
  <2>7. ValueInv'
    <3>1. \A k \in Keys : OpenInv(k)
      BY <1>2, <2>1 DEF ValueInv
    <3>2. ASSUME NEW k \in Keys
          PROVE  OpenInv(k)'
      <4>1. \A o \in Items : (Top(k, o)' <=> Top(k, o))
        BY <1>1, <1>5 DEF Top
      <4>2. None(k)' <=> None(k)
        BY <1>1, <1>5 DEF None
      <4>3. CASE k = c.key
        <5>1. Top(k, c.new)
          BY <2>2, <3>1, <4>3 DEF OpenInv
        <5>2. \A u \in Threads : client'[u].key = k => client'[u].op \in {"idle", "read"}
          BY <1>2, <1>3, <2>2, <4>3, Fields DEF InSet
        <5>3. mem'.index[k] = c.new /\ c.new # EMPTY /\ ghost'.current[k] = c.value
              /\ disk'[c.new].key = k /\ disk'[c.new].value = c.value
          BY <1>1, <1>2, <1>4, <1>5, <2>2, <4>3, Fields
        <5>4. PICK o \in Items : o = c.new
          BY <1>4
        <5>5. Top(k, o)'
          BY <1>1, <1>5, <5>1, <5>4 DEF Top
        <5>6. QED
          BY <5>2, <5>3, <5>4, <5>5 DEF OpenInv, Top, Written
      <4>4. CASE k # c.key
        BY <1>1, <1>3, <1>4, <1>5, <2>3, <2>4, <2>5, <3>1, <4>4, EnginesAssumption
           DEF OpenInv, Top, None, Written, Kept
      <4>5. QED
        BY <4>3, <4>4
    <3>3. QED
      BY <1>1, <1>2, <1>5, <2>1, <3>2 DEF ValueInv
  <2>8. ASSUME NEW u \in Threads
        PROVE  ThreadInv(u)'
    <3>1. CASE u = t
      BY <1>3, <3>1 DEF ThreadInv, InSet, Written
    <3>2. CASE u # t
      <4>1. client[u].op \in {"take", "write", "recycle", "index"} => client[u].key # c.key
        BY <2>2, <3>2 DEF InSet
      <4>2. client[u].op = "read" /\ ~client[u].disturbed => client[u].key # c.key
        BY <2>1, <2>2 DEF ThreadInv
      <4>3. client'[u] = client[u] /\ (client[u].op # "idle" => client[u].key \in Keys)
        BY <1>2, <1>3, <3>2, Fields
      <4>4. client[u].op \in {"idle", "take", "write", "recycle", "index", "read"}
        BY <1>2, Fields
      <4>5. QED
        BY <1>1, <1>3, <1>5, <2>1, <3>2, <4>1, <4>2, <4>3, <4>4 DEF ThreadInv, InSet, Written
    <3>3. QED
      BY <3>1, <3>2
  <2>9. QED
    BY <2>6, <2>7, <2>8
<1>9. QED
  BY <1>1, <1>2, <1>5, <1>6, <1>7, <1>8 DEF LatestInv

(* SetKV_Data or CreateKV_Data: the item was nobody else's, and its record *)
(* is the latest of its key from now on.                                   *)
LEMMA WriteKeeps ==
  ASSUME LatestInv, NEW t \in Threads, Latest!Write(t)
  PROVE  LatestInv'
<1> DEFINE c == client[t]
<1> DEFINE d == [client[t] EXCEPT !.op = IF client[t].old = EMPTY THEN "index" ELSE "recycle"]
<1> DEFINE r == [key |-> client[t].key, value |-> client[t].value, cnt |-> client[t].cnt]
<1>1. /\ c.op = "write" /\ reply' = Nothing /\ mem' = mem
      /\ disk' = [disk EXCEPT ![c.new] = r]
      /\ client' = [client EXCEPT ![t] = d]
      /\ ghost' = [ghost EXCEPT !.stored[c.key] = c.value]
  BY DEF Latest!Write, Latest!Goes
<1>2. Typed /\ Room /\ mem.up
  BY <1>1 DEF LatestInv, Latest!Idle
<1>3. /\ \A u \in Threads : u # t => client'[u] = client[u]
      /\ client'[t] = d /\ d \in Calls
  BY <1>1, <1>2 DEF Typed, Calls
<1>4. /\ client'[t].op = IF c.old = EMPTY THEN "index" ELSE "recycle"
      /\ client'[t].key = c.key /\ client'[t].value = c.value /\ client'[t].cnt = c.cnt
      /\ client'[t].old = c.old /\ client'[t].new = c.new
  BY <1>2, <1>3 DEF Typed, Calls
<1>5. /\ c.key \in Keys /\ c.value \in Nat /\ c.cnt \in Nat
      /\ c.new \in Items /\ c.new \in 0..ghost.sets - 1
  <2>1. c.key \in Keys /\ c.value \in Nat /\ c.cnt \in Nat /\ ghost.sets \in 0..MaxSets
    BY <1>1, <1>2, Fields
  <2>2. c.new \in 0..ghost.sets - 1
    BY <1>1, <1>2 DEF Room, Holds
  <2>3. QED
    BY <2>1, <2>2, EnginesAssumption DEF Latest!Items
<1>6. /\ disk'[c.new] = r /\ r \in Records /\ r # Blank
      /\ \A o \in Items : o # c.new => disk'[o] = disk[o]
      /\ ghost'.sets = ghost.sets /\ ghost'.hole = ghost.hole /\ ghost'.current = ghost.current
      /\ ghost'.stored[c.key] = c.value
      /\ \A k \in Keys : k # c.key => ghost'.stored[k] = ghost.stored[k]
  BY <1>1, <1>2, <1>5, EnginesAssumption DEF Typed, Stores, Records, Latest!Blank
<1>7. Typed'
  <2>1. client' \in [Threads -> Calls]
    BY <1>1, <1>2, <1>3 DEF Typed
  <2>2. disk' \in [Items -> Records \cup {Blank}]
    BY <1>1, <1>2, <1>6 DEF Typed
  <2>3. ghost' \in [sets : 0..MaxSets, stops : Nat, hole : BOOLEAN, current : Stores, stored : Stores]
    BY <1>1, <1>2, <1>5 DEF Typed, Stores
  <2>4. QED
    BY <1>1, <1>2, <2>1, <2>2, <2>3 DEF Typed
<1>8. \A u \in Threads : /\ Holds(u)' <=> Holds(u)
                         /\ InSet(u)' <=> InSet(u)
                         /\ client'[u].new = client[u].new
                         /\ client'[u].old = client[u].old
                         /\ client'[u].key = client[u].key
  BY <1>1, <1>3, <1>4 DEF Holds, InSet
<1>9. Room'
  <2>1. Taking' = Taking
    BY <1>1, <1>3, <1>4 DEF Taking
  <2>2. \A u \in Threads : /\ InSet(u)' => client'[u].old < ghost'.sets
                           /\ Holds(u)' => client'[u].new \in 0..ghost'.sets - 1
    BY <1>2, <1>6, <1>8 DEF Room
  <2>3. c.new < ghost.sets
    BY <1>2, <1>5, Fields
  <2>4. \A o \in Items : disk'[o] # Blank => o < ghost.sets
    BY <1>2, <1>6, <2>3 DEF Room
  <2>5. QED
    BY <1>1, <1>2, <1>6, <2>1, <2>2, <2>4 DEF Room, Places
<1>10. ASSUME ~ghost.hole
       PROVE  OwnInv' /\ ValueInv' /\ \A u \in Threads : ThreadInv(u)'
  <2>1. OwnInv /\ ValueInv /\ \A u \in Threads : ThreadInv(u)
    BY <1>10 DEF LatestInv
  <2>2. /\ InSet(t) /\ Holds(t) /\ ~Written(t) /\ Written(t)'
        /\ c.old = mem.index[c.key] /\ c.cnt <= mem.key_set_cnts_f
        /\ \A u \in Threads : InSet(u) /\ client[u].key = c.key => u = t
    BY <1>1, <1>4, <2>1 DEF ThreadInv, InSet, Written, Holds
  <2>3. \A u \in Threads : u # t => (Written(u)' <=> Written(u))
    BY <1>3 DEF Written
  <2>4. \A k \in Keys : Kept(k)' <=> Kept(k)
    BY <1>1, <1>3, <1>4, <2>2 DEF Kept
  <2>5. OwnInv'
    BY <1>1, <1>8, <2>1, <2>4 DEF OwnInv, Holds, Kept, Places
  <2>6. \A u \in Threads : u # t /\ Holds(u) => client[u].new # c.new
    BY <2>1, <2>2 DEF OwnInv
  <2>7. \A k \in Keys : Kept(k) => mem.index[k] # c.new
    BY <2>1, <2>2 DEF OwnInv
  <2>8. ValueInv'
    <3>1. \A k \in Keys : OpenInv(k)
      BY <1>2, <2>1 DEF ValueInv
    <3>2. \A o \in Items : disk'[o].cnt <= mem.key_set_cnts_f
      BY <1>2, <1>6, <2>1, <2>2 DEF ValueInv
    <3>3. ASSUME NEW k \in Keys, k # c.key
          PROVE  /\ \A o \in Items : o # c.new /\ Top(k, o) => Top(k, o)'
                 /\ None(k) => None(k)'
                 /\ \A o \in Items : disk'[o].key = k => disk'[o] = disk[o]
      <4>1. \A o \in Items : disk'[o].key = k => disk'[o] = disk[o]
        BY <1>6, <3>3
      <4>2. ghost'.stored[k] = ghost.stored[k]
        BY <1>6, <3>3
      <4>3. ASSUME NEW o \in Items, o # c.new, Top(k, o)
            PROVE  Top(k, o)'
        BY <1>6, <4>1, <4>2, <4>3 DEF Top
      <4>4. ASSUME None(k)
            PROVE  None(k)'
        BY <4>1, <4>2, <4>4 DEF None
      <4>5. QED
        BY <4>1, <4>3, <4>4
    <3>4. ASSUME NEW k \in Keys, mem.index[k] # EMPTY, Kept(k)
          PROVE  disk'[mem.index[k]] = disk[mem.index[k]] /\ mem.index[k] \in Items
      BY <1>2, <1>6, <2>7, <3>4, Fields
    <3>5. ASSUME NEW k \in Keys
          PROVE  OpenInv(k)'
      <4>1. IF mem.index[k] = EMPTY THEN ghost.current[k] = NotFound
            ELSE Kept(k) => disk'[mem.index[k]].key = k /\ disk'[mem.index[k]].value = ghost.current[k]
        BY <3>1, <3>4 DEF OpenInv
      <4>2. CASE k = c.key
        <5>1. PICK o \in Items : o = c.new
          BY <1>5
        <5>2. \A p \in Items : disk[p].key = k => disk[p].cnt < c.cnt
          BY <1>1, <3>1, <4>2 DEF OpenInv
        <5>3. Top(k, o)'
          BY <1>6, <4>2, <5>1, <5>2 DEF Top
        <5>4. \A u \in Threads : u # t /\ client'[u].key = k => client'[u].op \in {"idle", "read"}
          BY <1>2, <1>3, <2>2, <4>2, Fields DEF InSet
        <5>5. client'[t].new = o /\ client'[t].op \in {"recycle", "index"} /\ client'[t].key = k
          BY <1>4, <4>2, <5>1
        <5>6. QED
          BY <1>1, <1>6, <2>4, <4>1, <5>3, <5>4, <5>5 DEF OpenInv, Top, Written, Kept
      <4>3. CASE k # c.key
        <5>1. ASSUME NEW u \in Threads, client[u].key = k, Written(u)
              PROVE  Top(k, client[u].new) /\ client[u].new # c.new
          <6>1. Top(k, client[u].new)
            BY <3>1, <5>1 DEF OpenInv
          <6>2. u # t /\ Holds(u)
            BY <2>2, <5>1 DEF Holds, Written
          <6>3. QED
            BY <2>6, <6>1, <6>2
        <5>2. ASSUME NEW u \in Threads, client[u].key = k, Written(u)
              PROVE  Written(u)' /\ \E o \in Items : o = client'[u].new /\ Top(k, o)'
          <6>1. PICK o \in Items : o = client[u].new /\ Top(k, o) /\ o # c.new
            BY <5>1, <5>2 DEF Top
          <6>2. Top(k, o)' /\ client'[u].new = o
            BY <1>8, <3>3, <4>3, <6>1
          <6>3. Written(u)'
            BY <2>2, <2>3, <5>2
          <6>4. QED
            BY <6>2, <6>3
        <5>3. ASSUME NEW u \in Threads, client[u].key = k, client[u].op \in {"take", "write"}, u # t
              PROVE  \A p \in Items : disk'[p].key = k => disk'[p].cnt < client'[u].cnt
          BY <1>3, <3>1, <3>3, <4>3, <5>3 DEF OpenInv
        <5>4. ASSUME \A u \in Threads : ~(Written(u) /\ client[u].key = k)
              PROVE  IF mem.index[k] = EMPTY THEN None(k)' ELSE \E o \in Items : o = mem.index[k] /\ Top(k, o)'
          <6>1. CASE mem.index[k] = EMPTY
            BY <3>1, <3>3, <4>3, <5>4, <6>1 DEF OpenInv
          <6>2. CASE mem.index[k] # EMPTY
            <7>1. Kept(k)
              BY <5>4, <6>2 DEF Kept, Written
            <7>2. PICK o \in Items : o = mem.index[k] /\ o # c.new /\ Top(k, o)
              BY <2>7, <3>1, <5>4, <6>2, <7>1 DEF OpenInv, Top
            <7>3. Top(k, o)' /\ mem'.index[k] = o
              BY <1>1, <3>3, <4>3, <7>2
            <7>4. QED
              BY <1>1, <6>2, <7>2, <7>3
          <6>3. QED
            BY <6>1, <6>2
        <5>5. \A u \in Threads : client'[u].key = client[u].key
          BY <1>8
        <5>6. \A u \in Threads : client'[u].key = k => u # t /\ client'[u] = client[u]
          BY <1>3, <1>4, <4>3
        <5>7. ASSUME NEW u \in Threads, client'[u].key = k
              PROVE  /\ Written(u)' => Top(k, client[u].new)'
                     /\ client'[u].op \in {"take", "write"} =>
                          \A p \in Items : disk'[p].key = k => disk'[p].cnt < client'[u].cnt
          <6>1. client'[u] = client[u] /\ u # t /\ client[u].key = k
            BY <5>6, <5>7
          <6>2. ASSUME Written(u)'
                PROVE  Top(k, client[u].new)'
            <7>1. Written(u)
              BY <2>3, <6>1, <6>2
            <7>2. PICK o \in Items : o = client'[u].new /\ Top(k, o)'
              BY <5>2, <6>1, <7>1
            <7>3. QED
              BY <7>2
          <6>3. QED
            BY <5>3, <6>1, <6>2
        <5>8. (\E u \in Threads : Written(u) /\ client[u].key = k)'
              \/ IF mem.index[k] = EMPTY THEN None(k)' ELSE Top(k, mem.index[k])'
          <6>1. CASE \E u \in Threads : Written(u) /\ client[u].key = k
            <7>1. PICK u \in Threads : Written(u) /\ client[u].key = k
              BY <6>1
            <7>2. Written(u)' /\ client'[u].key = k
              BY <5>2, <5>5, <7>1
            <7>3. QED
              BY <7>2
          <6>2. CASE \A u \in Threads : ~(Written(u) /\ client[u].key = k)
            <7>1. CASE mem.index[k] = EMPTY
              BY <5>4, <6>2, <7>1
            <7>2. CASE mem.index[k] # EMPTY
              <8>1. PICK o \in Items : o = mem.index[k] /\ Top(k, o)'
                BY <5>4, <6>2, <7>2
              <8>2. Top(k, mem.index[k])'
                BY <1>1, <8>1
              <8>3. QED
                BY <7>2, <8>2
            <7>3. QED
              BY <7>1, <7>2
          <6>3. QED
            BY <6>1, <6>2
        <5>9. QED
          BY <1>1, <1>6, <2>4, <4>1, <5>7, <5>8 DEF OpenInv, Written, Kept, Top, None
      <4>4. QED
        BY <4>2, <4>3
    <3>6. QED
      BY <1>1, <1>2, <3>2, <3>5 DEF ValueInv
  <2>9. ASSUME NEW u \in Threads
        PROVE  ThreadInv(u)'
    <3>1. CASE u = t
      <4>1. disk'[client'[t].new] = [key |-> client'[t].key, value |-> client'[t].value, cnt |-> client'[t].cnt]
        BY <1>4, <1>6
      <4>2. client'[t].op # "read"
        BY <1>4
      <4>3. QED
        BY <1>1, <1>4, <1>8, <2>2, <3>1, <4>1, <4>2 DEF ThreadInv, InSet, Written
    <3>2. CASE u # t
      <4>1. client'[u] = client[u]
        BY <1>3, <3>2
      <4>2. Written(u) => client[u].new \in Items /\ client[u].new # c.new
        BY <1>2, <2>6, <3>2, EnginesAssumption, Fields DEF Written, Holds, Room, Latest!Items
      <4>3. Written(u) => disk'[client[u].new] = disk[client[u].new]
        BY <1>6, <4>2
      <4>4. (Written(u)' <=> Written(u)) /\ (InSet(u)' <=> InSet(u))
        BY <1>8, <2>3, <3>2
      <4>5. /\ InSet(u) => /\ client[u].old = mem.index[client[u].key]
                           /\ client[u].cnt <= mem.key_set_cnts_f
                           /\ \A v \in Threads : InSet(v) /\ client[v].key = client[u].key => v = u
            /\ Written(u) => disk[client[u].new] =
                 [key |-> client[u].key, value |-> client[u].value, cnt |-> client[u].cnt]
            /\ client[u].op = "read" /\ ~client[u].disturbed =>
                 /\ client[u].old = mem.index[client[u].key] /\ client[u].old # EMPTY
                 /\ \A v \in Threads : InSet(v) => client[v].key # client[u].key
        BY <2>1 DEF ThreadInv
      <4>6. QED
        BY <1>1, <1>8, <4>1, <4>3, <4>4, <4>5 DEF ThreadInv, InSet, Written
    <3>3. QED
      BY <3>1, <3>2
  <2>10. QED
    BY <2>5, <2>8, <2>9
<1>11. QED
  BY <1>1, <1>2, <1>6, <1>7, <1>9, <1>10 DEF LatestInv

(* A stack without its top.                                                *)
LEMMA FrontIs ==
  ASSUME NEW s \in Seq(Items), Len(s) > 0
  PROVE  /\ SubSeq(s, 1, Len(s) - 1) \in Seq(Items) /\ Len(SubSeq(s, 1, Len(s) - 1)) = Len(s) - 1
         /\ \A m \in 1..Len(s) - 1 : SubSeq(s, 1, Len(s) - 1)[m] = s[m]
<1>1. PICK n \in Nat : n = Len(s) - 1
  OBVIOUS
<1>2. \A i \in 1..n : s[i] \in Items
  BY <1>1
<1>3. /\ SubSeq(s, 1, n) \in Seq(Items)
      /\ Len(SubSeq(s, 1, n)) = IF 1 <= n THEN n - 1 + 1 ELSE 0
      /\ \A i \in 1..n - 1 + 1 : SubSeq(s, 1, n)[i] = s[1 + i - 1]
  BY <1>2, SubSeqProperties
<1>4. Len(SubSeq(s, 1, n)) = n
  BY <1>3
<1>5. ASSUME NEW m \in 1..n
      PROVE  SubSeq(s, 1, n)[m] = s[m]
  <2>1. m \in 1..n - 1 + 1 /\ 1 + m - 1 = m
    OBVIOUS
  <2>2. QED
    BY <1>3, <2>1
<1>6. QED
  BY <1>1, <1>3, <1>4, <1>5

(* An item taken from the list or the end: nobody else has it.             *)
LEMMA TakeKeeps ==
  ASSUME LatestInv, NEW t \in Threads, Latest!Take(t)
  PROVE  LatestInv'
<1> DEFINE c == client[t]
<1>1. /\ c.op = "take" /\ reply' = Nothing /\ disk' = disk /\ ghost' = ghost
      /\ IF Len(mem.free_space) > Reserve THEN Latest!Reuse(t) ELSE Latest!Extend(t)
  BY DEF Latest!Take
<1>2. Typed /\ Room /\ mem.up
  BY <1>1 DEF LatestInv, Latest!Idle
<1>3. /\ Len(mem.free_space) \in Nat /\ mem.free_space \in Seq(Items)
      /\ mem.file_end_offset_ \in Items /\ ghost.sets \in 0..MaxSets
      /\ MaxSets \in Nat /\ Reserve \in Nat /\ Items = 0..MaxSets
  BY <1>2, Fields, EnginesAssumption DEF Latest!Items
<1>4. /\ IsFiniteSet(Taking \ {t}) /\ Cardinality(Taking) = Cardinality(Taking \ {t}) + 1
      /\ Cardinality(Taking \ {t}) \in Nat
  <2>1. t \in Taking /\ IsFiniteSet(Taking)
    BY <1>1, <1>2 DEF Taking, Room
  <2>2. Cardinality(Taking) \in Nat /\ IsFiniteSet(Taking \ {t})
    BY <2>1, FS_RemoveElement, FS_CardinalityType
  <2>3. Cardinality(Taking \ {t}) \in Nat /\ Cardinality(Taking \ {t}) = Cardinality(Taking) - 1
    BY <2>1, <2>2, FS_RemoveElement, FS_CardinalityType
  <2>4. QED
    BY <2>2, <2>3
<1>5. mem.file_end_offset_ < ghost.sets
  BY <1>2, <1>3, <1>4 DEF Room
(* The two ways, in what they have in common.                              *)
<1>6. PICK o \in Items :
        /\ client' = [client EXCEPT ![t] = [client[t] EXCEPT !.op = "write", !.new = o]]
        /\ mem'.up = mem.up /\ mem'.index = mem.index /\ mem'.key_set_cnts_f = mem.key_set_cnts_f
        /\ mem'.free_space \in Seq(Items)
        /\ mem'.file_end_offset_ \in {mem.file_end_offset_, mem.file_end_offset_ + 1}
        /\ mem' = [up |-> mem'.up, index |-> mem'.index, free_space |-> mem'.free_space,
                   file_end_offset_ |-> mem'.file_end_offset_, key_set_cnts_f |-> mem'.key_set_cnts_f]
        /\ Places' \subseteq Places /\ \A n \in Places' : mem'.free_space[n] = mem.free_space[n]
        /\ o < ghost.sets
        /\ \/ o = mem.file_end_offset_ /\ mem'.file_end_offset_ = mem.file_end_offset_ + 1
           \/ /\ mem'.file_end_offset_ = mem.file_end_offset_
              /\ \E n \in Places : o = mem.free_space[n] /\ n \notin Places'
  <2>1. CASE Len(mem.free_space) > Reserve
    <3>1. PICK n \in Places : n = Len(mem.free_space)
      BY <1>3, <2>1 DEF Places
    <3>2. mem.free_space[n] \in Items /\ mem.free_space[n] < ghost.sets
      BY <1>2, <1>3, <3>1 DEF Room, Places
    <3>3. PICK s : s = SubSeq(mem.free_space, 1, n - 1)
      OBVIOUS
    <3>4. /\ s \in Seq(Items) /\ Len(s) = n - 1
          /\ \A m \in 1..n - 1 : s[m] = mem.free_space[m]
      <4>1. mem.free_space \in Seq(Items) /\ Len(mem.free_space) > 0
        BY <1>2, <1>3, <2>1, Fields, EnginesAssumption
      <4>2. QED
        BY <3>1, <3>3, <4>1, FrontIs
    <3>5. /\ client' = [client EXCEPT ![t] = [client[t] EXCEPT !.op = "write", !.new = mem.free_space[n]]]
          /\ mem' = [mem EXCEPT !.free_space = s]
      BY <1>1, <2>1, <3>1, <3>3
         DEF Latest!Reuse, Latest!Takes, Latest!Goes, Latest!Last, Latest!Front
    <3>6. /\ mem'.up = mem.up /\ mem'.index = mem.index /\ mem'.key_set_cnts_f = mem.key_set_cnts_f
          /\ mem'.free_space = s /\ mem'.file_end_offset_ = mem.file_end_offset_
          /\ mem' = [up |-> mem'.up, index |-> mem'.index, free_space |-> mem'.free_space,
                     file_end_offset_ |-> mem'.file_end_offset_, key_set_cnts_f |-> mem'.key_set_cnts_f]
      BY <1>2, <3>5 DEF Typed
    <3>7. Places' = 1..n - 1 /\ Places = 1..n
      BY <3>1, <3>4, <3>6 DEF Places
    <3>8. n \in Nat /\ n \notin Places'
      BY <1>3, <3>1, <3>7
    <3>9. Places' \subseteq Places /\ \A m \in Places' : mem'.free_space[m] = mem.free_space[m]
      BY <1>3, <3>1, <3>4, <3>6, <3>7
    <3>10. PICK q \in Items : q = mem.free_space[n]
      BY <3>2
    <3>11. QED
      <4> WITNESS q \in Items
      <4>1. QED
        BY <3>1, <3>2, <3>4, <3>5, <3>6, <3>8, <3>9, <3>10
  <2>2. CASE ~(Len(mem.free_space) > Reserve)
    <3>1. /\ client' = [client EXCEPT ![t] = [client[t] EXCEPT !.op = "write", !.new = mem.file_end_offset_]]
          /\ mem' = [mem EXCEPT !.file_end_offset_ = @ + 1]
      BY <1>1, <2>2 DEF Latest!Extend, Latest!Takes, Latest!Goes
    <3>2. /\ mem'.up = mem.up /\ mem'.index = mem.index /\ mem'.key_set_cnts_f = mem.key_set_cnts_f
          /\ mem'.free_space = mem.free_space /\ mem'.file_end_offset_ = mem.file_end_offset_ + 1
          /\ mem' = [up |-> mem'.up, index |-> mem'.index, free_space |-> mem'.free_space,
                     file_end_offset_ |-> mem'.file_end_offset_, key_set_cnts_f |-> mem'.key_set_cnts_f]
      BY <1>2, <3>1 DEF Typed
    <3>3. Places' = Places
      BY <3>2 DEF Places
    <3>4. QED
      BY <1>3, <1>5, <3>1, <3>2, <3>3
  <2>3. QED
    BY <2>1, <2>2
<1>7. /\ \A u \in Threads : u # t => client'[u] = client[u]
      /\ client'[t] = [client[t] EXCEPT !.op = "write", !.new = o]
      /\ [client[t] EXCEPT !.op = "write", !.new = o] \in Calls
  <2>1. [client[t] EXCEPT !.op = "write", !.new = o] \in Calls
    <3>1. client[t] \in Calls /\ client[t].key \in Keys
      BY <1>1, <1>2, Fields DEF Typed
    <3>2. QED
      BY <1>6, <3>1 DEF Calls
  <2>2. QED
    BY <1>2, <1>6, <2>1 DEF Typed
<1>8. /\ client'[t].op = "write" /\ client'[t].new = o
      /\ client'[t].key = c.key /\ client'[t].value = c.value /\ client'[t].cnt = c.cnt
      /\ client'[t].old = c.old
  BY <1>2, <1>7 DEF Typed, Calls
<1>9. mem'.file_end_offset_ \in Items
  BY <1>3, <1>5, <1>6
<1>10. Typed'
  <2>1. client' \in [Threads -> Calls]
    BY <1>2, <1>6, <1>7 DEF Typed
  <2>2. mem' \in [up : BOOLEAN, index : [Keys -> Items \cup {EMPTY}], free_space : Seq(Items),
              file_end_offset_ : Items, key_set_cnts_f : Nat]
    BY <1>2, <1>6, <1>9, Fields
  <2>3. QED
    BY <1>1, <1>2, <2>1, <2>2 DEF Typed
<1>11. \A u \in Threads : /\ Holds(u)' <=> Holds(u) \/ u = t
                          /\ InSet(u)' <=> InSet(u)
                          /\ Written(u)' <=> Written(u)
                          /\ u # t => client'[u].new = client[u].new
                          /\ client'[u].old = client[u].old
                          /\ client'[u].key = client[u].key
  BY <1>1, <1>7, <1>8 DEF Holds, InSet, Written
<1>12. Room'
  <2>1. Taking' = Taking \ {t}
    BY <1>1, <1>7, <1>8 DEF Taking
  <2>2. mem'.file_end_offset_ + Cardinality(Taking') <= ghost.sets
    BY <1>2, <1>3, <1>4, <1>6, <2>1 DEF Room
  <2>3. \A u \in Threads : /\ InSet(u)' => client'[u].old < ghost.sets
                           /\ Holds(u)' => client'[u].new \in 0..ghost.sets - 1
    BY <1>2, <1>3, <1>6, <1>8, <1>11 DEF Room
  <2>4. \A n \in Places' : mem'.free_space[n] < ghost.sets
    BY <1>2, <1>6 DEF Room
  <2>5. IsFiniteSet(Taking')
    BY <1>4, <2>1
  <2>6. QED
    BY <1>1, <1>2, <1>6, <2>2, <2>3, <2>4, <2>5 DEF Room
<1>13. ASSUME ~ghost.hole
       PROVE  OwnInv' /\ ValueInv' /\ \A u \in Threads : ThreadInv(u)'
  <2>1. OwnInv /\ ValueInv /\ \A u \in Threads : ThreadInv(u)
    BY <1>13 DEF LatestInv
  <2>2. \A k \in Keys : Kept(k)' <=> Kept(k)
    BY <1>1, <1>6, <1>7, <1>8 DEF Kept
  <2>3. mem.file_end_offset_ <= mem'.file_end_offset_
    BY <1>3, <1>6
  <2>4. /\ o < mem'.file_end_offset_
        /\ \A n \in Places' : mem'.free_space[n] # o
        /\ \A u \in Threads : Holds(u) => client[u].new # o
        /\ \A k \in Keys : Kept(k) => mem.index[k] # o
    <3>1. CASE o = mem.file_end_offset_ /\ mem'.file_end_offset_ = mem.file_end_offset_ + 1
      <4>1. \A n \in Places : mem.free_space[n] # o
        BY <1>3, <2>1, <3>1 DEF OwnInv
      <4>2. \A u \in Threads : Holds(u) => client[u].new # o
        BY <1>3, <2>1, <3>1 DEF OwnInv
      <4>3. \A k \in Keys : mem.index[k] # o
        BY <1>3, <2>1, <3>1 DEF OwnInv
      <4>4. QED
        BY <1>3, <1>6, <3>1, <4>1, <4>2, <4>3
    <3>2. CASE /\ mem'.file_end_offset_ = mem.file_end_offset_
               /\ \E n \in Places : o = mem.free_space[n] /\ n \notin Places'
      <4>1. PICK n \in Places : o = mem.free_space[n] /\ n \notin Places'
        BY <3>2
      <4>2. QED
        BY <1>6, <2>1, <3>2, <4>1 DEF OwnInv
    <3>3. QED
      BY <1>6, <3>1, <3>2
  <2>5. OwnInv'
    <3>1. \A n \in Places' :
            /\ mem'.free_space[n] < mem'.file_end_offset_
            /\ \A m \in Places' : mem'.free_space[m] = mem'.free_space[n] => m = n
      <4>1. ASSUME NEW n \in Places'
            PROVE  mem'.free_space[n] < mem'.file_end_offset_
        <5>1. mem'.free_space[n] = mem.free_space[n] /\ n \in Places /\ mem.free_space[n] \in Items
          <6>1. mem'.free_space[n] = mem.free_space[n] /\ n \in Places
            BY <1>6, <4>1
          <6>2. PICK s \in Seq(Items) : s = mem.free_space
            BY <1>3
          <6>3. n \in 1..Len(s)
            BY <6>1, <6>2 DEF Places
          <6>4. s[n] \in Items
            BY <6>2, <6>3
          <6>5. QED
            BY <6>1, <6>2, <6>4
        <5>2. mem.free_space[n] < mem.file_end_offset_
          BY <2>1, <5>1 DEF OwnInv
        <5>3. QED
          BY <1>3, <1>9, <2>3, <5>1, <5>2
      <4>2. QED
        BY <1>6, <2>1, <4>1 DEF OwnInv
    <3>2. ASSUME NEW u \in Threads, Holds(u)'
          PROVE  /\ client'[u].new < mem'.file_end_offset_
                 /\ \A v \in Threads : Holds(v)' /\ client'[v].new = client'[u].new => v = u
                 /\ \A n \in Places' : mem'.free_space[n] # client'[u].new
      <4>1. CASE u = t
        BY <1>8, <1>11, <2>4, <4>1
      <4>2. CASE u # t
        <5>1. Holds(u) /\ client'[u].new = client[u].new /\ client[u].new \in Items
          BY <1>2, <1>3, <1>11, <3>2, <4>2 DEF Room
        <5>2. client[u].new < mem.file_end_offset_
          BY <2>1, <5>1 DEF OwnInv
        <5>3. client[u].new < mem'.file_end_offset_
          BY <1>3, <1>9, <2>3, <5>1, <5>2
        <5>4. \A v \in Threads : Holds(v)' /\ client'[v].new = client'[u].new => v = u
          BY <1>8, <1>11, <2>1, <2>4, <5>1 DEF OwnInv
        <5>5. \A n \in Places' : mem'.free_space[n] # client'[u].new
          BY <1>6, <2>1, <5>1 DEF OwnInv
        <5>6. QED
          BY <5>1, <5>3, <5>4, <5>5
      <4>3. QED
        BY <4>1, <4>2
    <3>3. \A k \in Keys : mem'.index[k] < mem'.file_end_offset_
      <4>1. \A k \in Keys : mem.index[k] \in Int /\ mem.index[k] < mem.file_end_offset_
        <5>1. \A k \in Keys : mem.index[k] \in Items \cup {-1}
          BY <1>2, Fields DEF Latest!EMPTY
        <5>2. ASSUME NEW k \in Keys
              PROVE  mem.index[k] \in Int
          <6>1. mem.index[k] = -1 \/ mem.index[k] \in Nat
            BY <5>1, <1>2, Fields
          <6>2. QED
            BY <6>1
        <5>3. QED
          BY <2>1, <5>2 DEF OwnInv
      <4>2. QED
        BY <1>3, <1>6, <1>9, <2>3, <4>1
    <3>4. ASSUME NEW k \in Keys, Kept(k)
          PROVE  /\ \A n \in Places' : mem'.free_space[n] # mem.index[k]
                 /\ \A u \in Threads : Holds(u)' => client'[u].new # mem.index[k]
                 /\ \A l \in Keys : Kept(l) /\ mem.index[l] = mem.index[k] => l = k
      BY <1>6, <1>8, <1>11, <2>1, <2>4, <3>4 DEF OwnInv
    <3>5. QED
      BY <1>6, <2>2, <3>1, <3>2, <3>3, <3>4 DEF OwnInv, Holds, Kept, Places
  <2>6. ValueInv'
    <3>1. \A k \in Keys : OpenInv(k)
      BY <1>2, <2>1 DEF ValueInv
    <3>2. ASSUME NEW k \in Keys
          PROVE  OpenInv(k)'
      <4>1. \A p \in Items : (Top(k, p)' <=> Top(k, p))
        BY <1>1 DEF Top
      <4>2. None(k)' <=> None(k)
        BY <1>1 DEF None
      <4>3. QED
        BY <1>1, <1>6, <1>7, <1>8, <1>11, <2>2, <3>1 DEF OpenInv, Top, None, Written, Kept
    <3>3. QED
      BY <1>1, <1>2, <1>6, <2>1, <3>2 DEF ValueInv
  <2>7. ASSUME NEW u \in Threads
        PROVE  ThreadInv(u)'
    <3>1. /\ InSet(u) => /\ client[u].old = mem.index[client[u].key]
                         /\ client[u].cnt <= mem.key_set_cnts_f
                         /\ \A v \in Threads : InSet(v) /\ client[v].key = client[u].key => v = u
          /\ Written(u) => disk[client[u].new] =
               [key |-> client[u].key, value |-> client[u].value, cnt |-> client[u].cnt]
          /\ client[u].op = "read" /\ ~client[u].disturbed =>
               /\ client[u].old = mem.index[client[u].key] /\ client[u].old # EMPTY
               /\ \A v \in Threads : InSet(v) => client[v].key # client[u].key
      BY <2>1 DEF ThreadInv
    <3>2. ~Written(t)
      BY <1>1 DEF Written
    <3>3. QED
      BY <1>1, <1>6, <1>7, <1>8, <1>11, <3>1, <3>2 DEF ThreadInv, InSet, Written
  <2>8. QED
    BY <2>5, <2>6, <2>7
<1>14. QED
  BY <1>1, <1>2, <1>6, <1>10, <1>12, <1>13 DEF LatestInv

(* A new call of a thread, and its type.                                   *)
CallOf(op, k, v, n, old, dist) ==
  [Latest!Idle EXCEPT !.op = op, !.key = k, !.value = v, !.cnt = n, !.old = old,
                      !.disturbed = dist]

(* It has its type.                                                        *)
LEMMA CallIs ==
  ASSUME NEW op \in {"take", "write", "index", "read"}, NEW k \in Keys, NEW v \in Nat,
         NEW n \in Nat, NEW old \in Items \cup {EMPTY}, NEW dist \in BOOLEAN
  PROVE  LET c == CallOf(op, k, v, n, old, dist) IN
         /\ c \in Calls
         /\ c.op = op /\ c.key = k /\ c.value = v /\ c.cnt = n /\ c.old = old /\ c.disturbed = dist
<1> DEFINE c == CallOf(op, k, v, n, old, dist)
<1>1. c \in [op : {op}, key : {k}, value : {v}, cnt : {n}, old : {old}, new : {EMPTY},
             disturbed : {dist}]
  <2>1. Latest!Idle \in [op : {"idle"}, key : {Nothing}, value : {0}, cnt : {0},
                         old : {EMPTY}, new : {EMPTY}, disturbed : {FALSE}]
    BY DEF Latest!Idle
  <2>2. QED
    BY <2>1 DEF CallOf
<1>2. EMPTY \in Items \cup {EMPTY}
  OBVIOUS
<1> HIDE DEF c
<1>3. c \in [op : {"idle", "take", "write", "recycle", "index", "read"},
             key : Keys \cup {Nothing}, value : Nat, cnt : Nat,
             old : Items \cup {EMPTY}, new : Items \cup {EMPTY}, disturbed : BOOLEAN]
  BY <1>1, <1>2
<1>4. c.op = op /\ c.key = k /\ c.value = v /\ c.cnt = n /\ c.old = old /\ c.disturbed = dist
  BY <1>1
<1>5. c \in Calls
  BY <1>3, <1>4 DEF Calls
<1>6. QED
  BY <1>4, <1>5 DEF c

(* A Set begins: it has a count above all others of its key, and the Gets  *)
(* of the key that are on their way may answer otherwise.                  *)
LEMMA SetKeeps ==
  ASSUME LatestInv, NEW t \in Threads, NEW k0 \in Keys, Latest!Set(t, k0)
  PROVE  LatestInv'
<1> DEFINE d == [Latest!Idle EXCEPT !.op = "take", !.key = k0, !.value = ghost.sets + 1,
                                    !.cnt = mem.key_set_cnts_f + 1, !.old = mem.index[k0]]
<1>1. /\ mem.up /\ client[t].op = "idle" /\ ghost.sets < MaxSets
      /\ \A u \in Threads : InSet(u) => client[u].key # k0
      /\ client' = [u \in Threads |-> IF u = t THEN d
           ELSE [client[u] EXCEPT !.disturbed = @ \/ (client[u].op = "read" /\ client[u].key = k0)]]
      /\ mem' = [mem EXCEPT !.key_set_cnts_f = @ + 1]
      /\ ghost' = [ghost EXCEPT !.sets = @ + 1]
      /\ reply' = Nothing /\ disk' = disk
  BY DEF Latest!Set, Latest!Setting, InSet
<1>2. Typed /\ Room
  BY DEF LatestInv
<1>3. /\ ghost.sets \in Nat /\ mem.key_set_cnts_f \in Nat /\ MaxSets \in Nat
      /\ mem.index[k0] \in Items \cup {EMPTY}
  BY <1>2, Fields, EnginesAssumption
<1>4. /\ client'[t].op = "take" /\ client'[t].key = k0
      /\ client'[t].cnt = mem.key_set_cnts_f + 1 /\ client'[t].old = mem.index[k0]
      /\ client'[t] \in Calls
  <2>1. d \in [op : {"take"}, key : {k0}, value : {ghost.sets + 1}, cnt : {mem.key_set_cnts_f + 1},
               old : {mem.index[k0]}, new : {EMPTY}, disturbed : {FALSE}]
    <3>1. Latest!Idle \in [op : {"idle"}, key : {Nothing}, value : {0}, cnt : {0},
                            old : {EMPTY}, new : {EMPTY}, disturbed : {FALSE}]
      BY DEF Latest!Idle
    <3>2. QED
      BY <3>1
  <2>2. client'[t] = d
    BY <1>1
  <2>3. d \in Calls
    <3>1. d = CallOf("take", k0, ghost.sets + 1, mem.key_set_cnts_f + 1, mem.index[k0], FALSE)
      BY <2>1 DEF CallOf
    <3>2. ghost.sets + 1 \in Nat /\ mem.key_set_cnts_f + 1 \in Nat /\ FALSE \in BOOLEAN
      BY <1>3
    <3>3. CallOf("take", k0, ghost.sets + 1, mem.key_set_cnts_f + 1, mem.index[k0], FALSE) \in Calls
      BY <1>3, <3>2, CallIs
    <3>4. QED
      BY <3>1, <3>3
  <2>4. QED
    BY <2>1, <2>2, <2>3
<1>5. ASSUME NEW u \in Threads, u # t
      PROVE  /\ client'[u].op = client[u].op /\ client'[u].key = client[u].key
             /\ client'[u].value = client[u].value /\ client'[u].cnt = client[u].cnt
             /\ client'[u].old = client[u].old /\ client'[u].new = client[u].new
             /\ client'[u].disturbed = (client[u].disturbed \/ (client[u].op = "read" /\ client[u].key = k0))
             /\ client'[u] \in Calls
  <2>1. client[u] \in Calls /\ client[u].disturbed \in BOOLEAN
    BY <1>2 DEF Typed, Calls
  <2>2. PICK b \in BOOLEAN : b = (client[u].disturbed \/ (client[u].op = "read" /\ client[u].key = k0))
    BY <2>1, Zenon
  <2>3. client'[u] = [client[u] EXCEPT !.disturbed = b]
    BY <1>1, <1>5, <2>2, Zenon
  <2>4. QED
    BY <2>1, <2>2, <2>3 DEF Calls
<1>6. /\ mem'.up = mem.up /\ mem'.index = mem.index /\ mem'.free_space = mem.free_space
      /\ mem'.file_end_offset_ = mem.file_end_offset_ /\ mem'.key_set_cnts_f = mem.key_set_cnts_f + 1
      /\ ghost'.sets = ghost.sets + 1 /\ ghost'.hole = ghost.hole
      /\ ghost'.current = ghost.current /\ ghost'.stored = ghost.stored
  BY <1>1, <1>2 DEF Typed
<1>7. Typed'
  <2>1. client' \in [Threads -> Calls]
    BY <1>1, <1>4, <1>5
  <2>2. mem' \in [up : BOOLEAN, index : [Keys -> Items \cup {EMPTY}], free_space : Seq(Items),
              file_end_offset_ : Items, key_set_cnts_f : Nat]
    BY <1>1, <1>2, <1>3 DEF Typed
  <2>3. ghost' \in [sets : 0..MaxSets, stops : Nat, hole : BOOLEAN, current : Stores, stored : Stores]
    BY <1>1, <1>2, <1>3 DEF Typed
  <2>4. QED
    BY <1>1, <1>2, <2>1, <2>2, <2>3 DEF Typed
<1>8. \A u \in Threads : /\ Holds(u)' <=> Holds(u)
                         /\ InSet(u)' <=> InSet(u) \/ u = t
                         /\ Written(u)' <=> Written(u)
  BY <1>1, <1>4, <1>5 DEF Holds, InSet, Written
<1>9. ~Holds(t) /\ ~InSet(t) /\ ~Written(t)
  BY <1>1 DEF Holds, InSet, Written
<1>10. Room'
  <2>1. Taking' = Taking \cup {t} /\ t \notin Taking
    BY <1>1, <1>4, <1>5 DEF Taking
  <2>2. IsFiniteSet(Taking) /\ Cardinality(Taking) \in Nat
    BY <1>2, FS_CardinalityType DEF Room
  <2>3. IsFiniteSet(Taking') /\ Cardinality(Taking') = Cardinality(Taking) + 1
    BY <2>1, <2>2, FS_AddElement
  <2>4. mem'.file_end_offset_ + Cardinality(Taking') <= ghost'.sets
    <3>1. mem.file_end_offset_ + Cardinality(Taking) <= ghost.sets /\ mem.file_end_offset_ \in Nat
      BY <1>2, Fields DEF Room
    <3>2. QED
      BY <1>3, <1>6, <2>2, <2>3, <3>1
  <2>5. ASSUME NEW x \in Int, x < ghost.sets
        PROVE  x < ghost'.sets
    BY <1>3, <1>6, <2>5
  <2>6. \A o \in Items : disk'[o] # Blank => o < ghost'.sets
    BY <1>1, <1>2, <2>5, Fields DEF Room
  <2>7. Items \cup {EMPTY} \subseteq Int
    BY <1>2, Fields DEF Latest!EMPTY
  <2>8. \A k \in Keys : mem.index[k] < ghost.sets /\ mem.index[k] \in Int
    BY <1>2, <2>7, Fields DEF Room
  <2>9. \A n \in Places : mem.free_space[n] < ghost.sets /\ mem.free_space[n] \in Int
    <3>1. \A n \in Places : mem.free_space[n] \in Items
      BY <1>2, Fields DEF Places
    <3>2. QED
      BY <1>2, <2>7, <3>1 DEF Room
  <2>10. \A u \in Threads : /\ InSet(u)' => client'[u].old < ghost'.sets
                            /\ Holds(u)' => client'[u].new \in 0..ghost'.sets - 1
    <3>1. client'[t].old < ghost'.sets
      BY <1>4, <2>5, <2>8
    <3>2. ASSUME NEW u \in Threads, u # t, InSet(u)
          PROVE  client'[u].old < ghost'.sets
      <4>1. client[u].old < ghost.sets /\ client[u].old \in Int
        BY <1>2, <2>7, <3>2, Fields DEF Room
      <4>2. QED
        BY <1>5, <2>5, <3>2, <4>1
    <3>3. ASSUME NEW u \in Threads, u # t, Holds(u)
          PROVE  client'[u].new \in 0..ghost'.sets - 1
      <4>1. client[u].new \in 0..ghost.sets - 1
        BY <1>2, <3>3 DEF Room
      <4>2. QED
        BY <1>3, <1>5, <1>6, <3>3, <4>1
    <3>4. QED
      BY <1>8, <1>9, <3>1, <3>2, <3>3
  <2>11. (\A k \in Keys : mem'.index[k] < ghost'.sets) /\ Places' = Places
    BY <1>6, <2>5, <2>8 DEF Places
  <2>12. \A n \in Places' : mem'.free_space[n] < ghost'.sets
    BY <1>6, <2>5, <2>9, <2>11
  <2>13. QED
    BY <2>3, <2>4, <2>6, <2>10, <2>11, <2>12 DEF Room
<1>11. ASSUME ~ghost.hole
       PROVE  OwnInv' /\ ValueInv' /\ \A u \in Threads : ThreadInv(u)'
  <2>1. OwnInv /\ ValueInv /\ \A u \in Threads : ThreadInv(u)
    BY <1>11 DEF LatestInv
  <2>2. \A k \in Keys : Kept(k)' <=> Kept(k)
    BY <1>1, <1>4, <1>5, <1>6 DEF Kept
  <2>3. \A u \in Threads : Holds(u) => u # t /\ client'[u].new = client[u].new
    BY <1>5, <1>9
  <2>4. OwnInv'
    BY <1>6, <1>8, <2>1, <2>2, <2>3 DEF OwnInv, Holds, Kept, Places
  <2>5. \A p \in Items : disk[p].cnt <= mem.key_set_cnts_f /\ disk[p].cnt \in Nat
    BY <1>1, <1>2, <2>1, Fields DEF ValueInv, Records, Latest!Blank
  <2>6. ValueInv'
    <3>1. \A k \in Keys : OpenInv(k)
      BY <1>1, <2>1 DEF ValueInv
    <3>2. ASSUME NEW k \in Keys
          PROVE  OpenInv(k)'
      <4>1. \A p \in Items : (Top(k, p)' <=> Top(k, p))
        BY <1>1, <1>6 DEF Top
      <4>2. None(k)' <=> None(k)
        BY <1>1, <1>6 DEF None
      <4>3. ASSUME NEW u \in Threads, client'[u].key = k
            PROVE  /\ Written(u)' => Top(k, client'[u].new)
                   /\ client'[u].op \in {"take", "write"} =>
                        \A p \in Items : disk[p].key = k => disk[p].cnt < client'[u].cnt
        <5>1. CASE u = t
          BY <1>3, <1>4, <1>8, <1>9, <2>5, <5>1
        <5>2. CASE u # t
          <6>1. client[u].key = k
            BY <1>5, <4>3, <5>2
          <6>2. /\ Written(u) => Top(k, client[u].new)
                /\ client[u].op \in {"take", "write"} =>
                     \A p \in Items : disk[p].key = k => disk[p].cnt < client[u].cnt
            BY <3>1, <6>1 DEF OpenInv
          <6>3. QED
            BY <1>5, <1>8, <5>2, <6>2
        <5>3. QED
          BY <5>1, <5>2
      <4>4. (\E u \in Threads : Written(u) /\ client[u].key = k) =>
              \E u \in Threads : Written(u)' /\ client'[u].key = k
        BY <1>5, <1>8, <1>9
      <4>5. IF mem.index[k] = EMPTY THEN ghost.current[k] = NotFound
            ELSE Kept(k) => disk[mem.index[k]].key = k /\ disk[mem.index[k]].value = ghost.current[k]
        BY <3>1 DEF OpenInv
      <4>6. \/ \E u \in Threads : Written(u) /\ client[u].key = k
            \/ IF mem.index[k] = EMPTY THEN None(k) ELSE Top(k, mem.index[k])
        BY <3>1 DEF OpenInv
      <4>7. QED
        BY <1>1, <1>6, <2>2, <4>2, <4>3, <4>4, <4>5, <4>6 DEF OpenInv, Top, None, Written, Kept
    <3>3. \A p \in Items : disk'[p].cnt <= mem'.key_set_cnts_f
      BY <1>1, <1>3, <1>6, <2>5
    <3>4. QED
      BY <1>1, <1>6, <2>1, <3>2, <3>3 DEF ValueInv
  <2>7. ASSUME NEW u \in Threads
        PROVE  ThreadInv(u)'
    <3>1. /\ InSet(u) => /\ client[u].old = mem.index[client[u].key]
                         /\ client[u].cnt <= mem.key_set_cnts_f
                         /\ \A v \in Threads : InSet(v) /\ client[v].key = client[u].key => v = u
          /\ Written(u) => disk[client[u].new] =
               [key |-> client[u].key, value |-> client[u].value, cnt |-> client[u].cnt]
          /\ client[u].op = "read" /\ ~client[u].disturbed =>
               /\ client[u].old = mem.index[client[u].key] /\ client[u].old # EMPTY
               /\ \A v \in Threads : InSet(v) => client[v].key # client[u].key
      BY <2>1 DEF ThreadInv
    <3>2. CASE u = t
      <4>1. /\ client'[t].old = mem'.index[client'[t].key]
            /\ client'[t].cnt <= mem'.key_set_cnts_f
            /\ \A v \in Threads : InSet(v)' /\ client'[v].key = client'[t].key => v = t
        <5>1. client'[t].old = mem'.index[client'[t].key] /\ client'[t].cnt <= mem'.key_set_cnts_f
          BY <1>3, <1>4, <1>6
        <5>2. \A v \in Threads : v # t /\ InSet(v)' => client'[v].key # k0
          BY <1>1, <1>5, <1>8
        <5>3. QED
          BY <1>4, <5>1, <5>2
      <4>2. ~Written(t)' /\ client'[t].op # "read"
        BY <1>4, <1>8, <1>9
      <4>3. QED
        BY <3>2, <4>1, <4>2 DEF ThreadInv, InSet, Written
    <3>3. CASE u # t
      <4>1. InSet(u)' => /\ client'[u].old = mem'.index[client'[u].key]
                         /\ client'[u].cnt <= mem'.key_set_cnts_f
                         /\ \A v \in Threads : InSet(v)' /\ client'[v].key = client'[u].key => v = u
        <5>1. InSet(u)' => InSet(u) /\ client[u].key # k0
          BY <1>1, <1>8, <3>3
        <5>2. client[u].cnt \in Nat
          BY <1>2, Fields
        <5>3. InSet(u)' => client'[u].cnt <= mem'.key_set_cnts_f
          BY <1>3, <1>5, <1>6, <3>1, <3>3, <5>1, <5>2
        <5>4. QED
          BY <1>4, <1>5, <1>6, <1>8, <3>1, <3>3, <5>1, <5>3
      <4>2. Written(u)' => disk'[client'[u].new] =
              [key |-> client'[u].key, value |-> client'[u].value, cnt |-> client'[u].cnt]
        BY <1>1, <1>5, <1>8, <3>1, <3>3
      <4>3. client'[u].op = "read" /\ ~client'[u].disturbed =>
               /\ client'[u].old = mem'.index[client'[u].key] /\ client'[u].old # EMPTY
               /\ \A v \in Threads : InSet(v)' => client'[v].key # client'[u].key
        <5>1. SUFFICES ASSUME client'[u].op = "read", ~client'[u].disturbed
                       PROVE  /\ client'[u].old = mem'.index[client'[u].key]
                              /\ client'[u].old # EMPTY
                              /\ \A v \in Threads : InSet(v)' => client'[v].key # client'[u].key
          OBVIOUS
        <5>2. /\ client'[u].op = client[u].op /\ client'[u].key = client[u].key
              /\ client'[u].old = client[u].old
              /\ client'[u].disturbed = (client[u].disturbed \/ (client[u].op = "read" /\ client[u].key = k0))
          BY <1>5, <3>3
        <5>3. client[u].op = "read" /\ ~client[u].disturbed /\ client[u].key # k0
          BY <5>1, <5>2
        <5>4. /\ client[u].old = mem.index[client[u].key] /\ client[u].old # EMPTY
              /\ \A v \in Threads : InSet(v) => client[v].key # client[u].key
          BY <3>1, <5>3
        <5>5. ASSUME NEW v \in Threads, InSet(v)'
              PROVE  client'[v].key # client[u].key
          <6>1. CASE v = t
            BY <1>4, <5>3, <6>1
          <6>2. CASE v # t
            BY <1>5, <1>8, <5>4, <5>5, <6>2
          <6>3. QED
            BY <6>1, <6>2
        <5>6. QED
          BY <1>6, <5>2, <5>4, <5>5
      <4>4. QED
        BY <4>1, <4>2, <4>3 DEF ThreadInv, InSet, Written
    <3>4. QED
      BY <3>2, <3>3
  <2>8. QED
    BY <2>4, <2>6, <2>7
<1>12. QED
  BY <1>1, <1>2, <1>6, <1>7, <1>10, <1>11 DEF LatestInv

(* The parts of a Get move only the call of its thread; all that matters   *)
(* is that an undisturbed one knows where the record is.                   *)
LEMMA GetKeeps ==
  ASSUME LatestInv, mem.up, NEW t \in Threads, NEW c \in Calls,
         client[t].op \in {"idle", "read"}, c.op \in {"idle", "read"},
         client' = [client EXCEPT ![t] = c], disk' = disk, mem' = mem, ghost' = ghost,
         c.op = "read" /\ ~ghost.hole /\ ~c.disturbed =>
           /\ c.old = mem.index[c.key] /\ c.old # EMPTY
           /\ \A u \in Threads : InSet(u) => client[u].key # c.key,
         ~ghost.hole /\ reply' # Nothing => reply'.got = reply'.current
  PROVE  LatestInv'
<1>1. Typed /\ Room
  BY DEF LatestInv
<1>2. client'[t] = c /\ \A u \in Threads : u # t => client'[u] = client[u]
  BY <1>1 DEF Typed
<1>3. \A u \in Threads : /\ InSet(u)' <=> InSet(u)
                         /\ Holds(u)' <=> Holds(u)
                         /\ Written(u)' <=> Written(u)
                         /\ InSet(u) \/ Holds(u) \/ Written(u) => u # t
  BY <1>2 DEF InSet, Holds, Written
<1>4. Typed'
  BY <1>1, <1>2 DEF Typed
<1>5. Room'
  <2>1. Taking' = Taking
    BY <1>2 DEF Taking
  <2>2. \A u \in Threads : /\ InSet(u)' => client'[u].old < ghost.sets
                           /\ Holds(u)' => client'[u].new \in 0..ghost.sets - 1
    BY <1>1, <1>2, <1>3 DEF Room
  <2>3. QED
    BY <1>1, <2>1, <2>2 DEF Room, Places
<1>6. ASSUME ~ghost.hole
      PROVE  OwnInv' /\ ValueInv' /\ \A u \in Threads : ThreadInv(u)'
  <2>1. OwnInv /\ ValueInv /\ \A u \in Threads : ThreadInv(u)
    BY <1>6 DEF LatestInv
  <2>2. \A k \in Keys : Kept(k)' <=> Kept(k)
    BY <1>2 DEF Kept
  <2>3. OwnInv'
    BY <1>2, <1>3, <2>1, <2>2 DEF OwnInv, Holds, Kept, Places
  <2>4. ValueInv'
    <3>1. \A k \in Keys : OpenInv(k)
      BY <2>1 DEF ValueInv
    <3>2. ASSUME NEW k \in Keys
          PROVE  OpenInv(k)'
      <4>1. \A p \in Items : (Top(k, p)' <=> Top(k, p))
        BY DEF Top
      <4>2. None(k)' <=> None(k)
        BY DEF None
      <4>3. QED
        BY <1>2, <1>3, <2>2, <3>1, <4>1, <4>2 DEF OpenInv, Top, None, Written, Kept
    <3>3. QED
      BY <1>6, <2>1, <3>2 DEF ValueInv
  <2>5. ASSUME NEW u \in Threads
        PROVE  ThreadInv(u)'
    <3>1. CASE u = t
      BY <1>2, <1>3, <1>6, <3>1 DEF ThreadInv, InSet, Written
    <3>2. CASE u # t
      BY <1>2, <1>3, <2>1, <3>2 DEF ThreadInv, InSet, Written
    <3>3. QED
      BY <3>1, <3>2
  <2>6. QED
    BY <2>3, <2>4, <2>5
<1>7. QED
  BY <1>2, <1>4, <1>5, <1>6 DEF LatestInv

(* A Get begins: where it finds nothing, the key has nothing.              *)
LEMMA LookupKeeps ==
  ASSUME LatestInv, NEW t \in Threads, NEW k \in Keys, Latest!Lookup(t, k)
  PROVE  LatestInv'
<1>1. /\ mem.up /\ client[t].op = "idle" /\ disk' = disk /\ mem' = mem /\ ghost' = ghost
  BY DEF Latest!Lookup
<1>2. Typed
  BY DEF LatestInv
<1>3. CASE mem.index[k] = EMPTY
  <2>1. client' = [client EXCEPT ![t] = client[t]]
    BY <1>2, <1>3 DEF Latest!Lookup, Typed
  <2>2. client[t] \in Calls
    BY <1>2 DEF Typed
  <2>3. reply' = [got |-> NotFound, current |-> ghost.current[k]]
    BY <1>3 DEF Latest!Lookup
  <2>4. ~ghost.hole => ghost.current[k] = NotFound
    BY <1>1, <1>3 DEF LatestInv, ValueInv, OpenInv
  <2>5. ~ghost.hole => reply'.got = reply'.current
    BY <2>3, <2>4
  <2>6. QED
    BY <1>1, <2>1, <2>2, <2>5, GetKeeps
<1>4. CASE mem.index[k] # EMPTY
  <2>1. PICK dist \in BOOLEAN : dist = \E u \in Threads : InSet(u) /\ client[u].key = k
    OBVIOUS
  <2>2. mem.index[k] \in Items \cup {EMPTY} /\ 0 \in Nat
    BY <1>2, Fields
  <2>3. PICK c \in Calls : /\ c = CallOf("read", k, 0, 0, mem.index[k], dist)
                           /\ c.op = "read" /\ c.key = k /\ c.old = mem.index[k] /\ c.disturbed = dist
    BY <2>2, CallIs
  <2>4. /\ client' = [client EXCEPT ![t] = [Latest!Idle EXCEPT !.op = "read", !.key = k,
                        !.old = mem.index[k], !.disturbed = Latest!Setting(k)]]
        /\ reply' = Nothing
    BY <1>4 DEF Latest!Lookup, Latest!Goes
  <2>5. Latest!Setting(k) = dist
    BY <2>1 DEF Latest!Setting, InSet
  <2>6. c = [Latest!Idle EXCEPT !.op = "read", !.key = k, !.old = mem.index[k], !.disturbed = dist]
    <3>1. Latest!Idle \in [op : {"idle"}, key : {Nothing}, value : {0}, cnt : {0},
                           old : {EMPTY}, new : {EMPTY}, disturbed : {FALSE}]
      BY DEF Latest!Idle
    <3>2. c \in [op : {"read"}, key : {k}, value : {0}, cnt : {0},
                 old : {mem.index[k]}, new : {EMPTY}, disturbed : {dist}]
      BY <2>3, <3>1 DEF CallOf
    <3>3. [Latest!Idle EXCEPT !.op = "read", !.key = k, !.old = mem.index[k], !.disturbed = dist]
            \in [op : {"read"}, key : {k}, value : {0}, cnt : {0},
                 old : {mem.index[k]}, new : {EMPTY}, disturbed : {dist}]
      BY <3>1
    <3>4. QED
      BY <3>2, <3>3
  <2>7. client' = [client EXCEPT ![t] = c]
    BY <2>4, <2>5, <2>6
  <2>8. ~c.disturbed => \A u \in Threads : InSet(u) => client[u].key # c.key
    BY <2>1, <2>3
  <2>9. c.op = "read" /\ ~ghost.hole /\ ~c.disturbed =>
          /\ c.old = mem.index[c.key] /\ c.old # EMPTY
          /\ \A u \in Threads : InSet(u) => client[u].key # c.key
    BY <1>4, <2>3, <2>8
  <2>10. ~ghost.hole /\ reply' # Nothing => reply'.got = reply'.current
    BY <2>4
  <2>11. client[t].op \in {"idle", "read"} /\ c.op \in {"idle", "read"}
    BY <1>1, <2>3
  <2>12. QED
    BY <1>1, <2>7, <2>9, <2>10, <2>11, GetKeeps
<1>5. QED
  BY <1>3, <1>4

(* A Get ends: undisturbed, it has read the record of its key.             *)
LEMMA ReadKeeps ==
  ASSUME LatestInv, NEW t \in Threads, Latest!Read(t)
  PROVE  LatestInv'
<1> DEFINE c == client[t]
<1>1. /\ c.op = "read" /\ disk' = disk /\ mem' = mem /\ ghost' = ghost
      /\ client' = [client EXCEPT ![t] = Latest!Idle]
      /\ reply' = IF c.disturbed THEN Nothing
                  ELSE [got |-> disk[c.old].value, current |-> ghost.current[c.key]]
  BY DEF Latest!Read, Latest!Goes
<1>2. Typed /\ mem.up
  BY <1>1 DEF LatestInv, Latest!Idle
<1>3. ASSUME ~ghost.hole, ~c.disturbed
      PROVE  disk[c.old].value = ghost.current[c.key]
  <2>1. ThreadInv(t) /\ ValueInv /\ c.key \in Keys
    BY <1>1, <1>2, <1>3, Fields DEF LatestInv
  <2>2. /\ c.old = mem.index[c.key] /\ c.old # EMPTY
        /\ \A u \in Threads : InSet(u) => client[u].key # c.key
    BY <1>1, <1>3, <2>1 DEF ThreadInv
  <2>3. Kept(c.key)
    BY <2>2 DEF Kept, InSet
  <2>4. QED
    BY <1>2, <2>1, <2>2, <2>3 DEF ValueInv, OpenInv
<1>4. ~ghost.hole /\ reply' # Nothing => reply'.got = reply'.current
  BY <1>1, <1>3
<1>5. QED
  BY <1>1, <1>2, <1>4, IdleIs, GetKeeps

(* A kill: every record is still in the file, and the index of the new     *)
(* process is empty.                                                       *)
LEMMA StopKeeps ==
  ASSUME LatestInv, Latest!Stop
  PROVE  LatestInv'
<1>1. /\ mem' = Latest!Fresh /\ client' = [t \in Threads |-> Latest!Idle]
      /\ disk' = disk /\ reply' = Nothing
      /\ ghost' = [ghost EXCEPT
           !.stops = @ + 1, !.current = ghost.stored,
           !.hole = @ \/ \E o \in Items : disk[o] = Blank /\ \E p \in Items : p > o /\ disk[p] # Blank]
  BY DEF Latest!Stop
<1>2. Typed /\ Room
  BY DEF LatestInv
<1>3. /\ mem'.up = FALSE /\ mem'.free_space = <<>> /\ mem'.file_end_offset_ = 0
      /\ mem'.key_set_cnts_f = 0 /\ \A k \in Keys : mem'.index[k] = EMPTY
  BY <1>1 DEF Latest!Fresh
<1>4. /\ ghost'.sets = ghost.sets /\ ghost'.current = ghost.stored /\ ghost'.stored = ghost.stored
      /\ ghost'.hole = (ghost.hole \/ \E o \in Items : disk[o] = Blank /\ \E p \in Items : p > o /\ disk[p] # Blank)
  BY <1>1, <1>2 DEF Typed
<1>5. \A t \in Threads : client'[t] = Latest!Idle /\ ~InSet(t)' /\ ~Holds(t)' /\ ~Written(t)'
  BY <1>1, IdleIs DEF InSet, Holds, Written
<1>6. Places' = {}
  BY <1>3 DEF Places
<1>7. Typed'
  <2>1. client' \in [Threads -> Calls]
    BY <1>1, IdleIs
  <2>2. mem' \in [up : BOOLEAN, index : [Keys -> Items \cup {EMPTY}], free_space : Seq(Items),
              file_end_offset_ : Items, key_set_cnts_f : Nat]
    BY <1>1, EnginesAssumption DEF Latest!Fresh, Latest!Items
  <2>3. ghost' \in [sets : 0..MaxSets, stops : Nat, hole : BOOLEAN, current : Stores, stored : Stores]
    <3>1. ghost.hole \in BOOLEAN
      BY <1>2, Fields
    <3>2. (ghost.hole \/ \E o \in Items : disk[o] = Blank /\ \E p \in Items : p > o /\ disk[p] # Blank)
            \in BOOLEAN
      BY <3>1, Zenon
    <3>3. PICK h \in BOOLEAN : ghost' = [ghost EXCEPT !.stops = @ + 1, !.current = ghost.stored, !.hole = h]
      BY <1>1, <3>2, Zenon
    <3>4. /\ ghost \in [sets : 0..MaxSets, stops : Nat, hole : BOOLEAN, current : Stores, stored : Stores]
          /\ ghost.stops + 1 \in Nat /\ ghost.stored \in Stores
      BY <1>2 DEF Typed
    <3>5. QED
      BY <3>3, <3>4
  <2>4. QED
    BY <1>1, <1>2, <2>1, <2>2, <2>3 DEF Typed
<1>8. Room'
  <2>1. Taking' = {}
    BY <1>5, IdleIs DEF Taking
  <2>2. IsFiniteSet(Taking') /\ Cardinality(Taking') = 0
    BY <2>1, FS_EmptySet
  <2>3. ghost.sets \in Nat
    BY <1>2, Fields, EnginesAssumption
  <2>4. mem'.file_end_offset_ + Cardinality(Taking') <= ghost'.sets
    BY <1>3, <1>4, <2>2, <2>3
  <2>5. \A k \in Keys : mem'.index[k] < ghost'.sets
    BY <1>3, <1>4, <2>3 DEF Latest!EMPTY
  <2>6. QED
    BY <1>1, <1>2, <1>4, <1>5, <1>6, <2>2, <2>4, <2>5 DEF Room
<1>9. ASSUME ~ghost'.hole
      PROVE  OwnInv' /\ ValueInv' /\ \A u \in Threads : ThreadInv(u)'
  <2>1. /\ ~ghost.hole
        /\ \A o, p \in Items : p > o /\ disk[o] = Blank => disk[p] = Blank
    BY <1>4, <1>9
  <2>2. OwnInv /\ ValueInv /\ \A u \in Threads : ThreadInv(u)
    BY <2>1 DEF LatestInv
  <2>3. OwnInv'
    <3>1. \A k \in Keys : ~Kept(k)' /\ mem'.index[k] < mem'.file_end_offset_
      BY <1>3 DEF Kept, Latest!EMPTY
    <3>2. QED
      BY <1>5, <1>6, <3>1 DEF OwnInv, Kept, Holds, Places
  <2>4. ASSUME NEW k \in Keys
        PROVE  RecoveryInv(k)'
    <3>1. None(k)' <=> None(k)
      BY <1>1, <1>4 DEF None
    <3>2. \A o \in Items : (Top(k, o)' <=> Top(k, o))
      BY <1>1, <1>4 DEF Top
    <3>3. None(k) \/ \E o \in Items : Top(k, o)
      <4>1. CASE mem.up
        BY <2>2, <4>1 DEF ValueInv, OpenInv, Top
      <4>2. CASE ~mem.up
        BY <2>2, <4>2 DEF ValueInv, RecoveryInv
      <4>3. QED
        BY <4>1, <4>2
    <3>4. Walked(k)' = {}
      BY <1>3, EnginesAssumption DEF Walked, Latest!Items
    <3>5. QED
      BY <1>3, <1>4, <3>1, <3>2, <3>3, <3>4 DEF RecoveryInv, Top, None, Walked
  <2>5. ValueInv'
    <3>1. \A o \in Items : ~(o < mem'.file_end_offset_)
      BY <1>3, EnginesAssumption DEF Latest!Items
    <3>2. \A o, p \in Items : o < p /\ disk[o] = Blank => disk[p] = Blank
      BY <2>1, EnginesAssumption DEF Latest!Items
    <3>3. QED
      BY <1>1, <1>3, <2>4, <3>1, <3>2 DEF ValueInv
  <2>6. \A u \in Threads : ThreadInv(u)'
    BY <1>5, IdleIs DEF ThreadInv, InSet, Written
  <2>7. QED
    BY <2>3, <2>5, <2>6
<1>10. QED
  BY <1>5, <1>7, <1>8, <1>9 DEF LatestInv

(* While recovery walks the file, no thread is in a call.                  *)
LEMMA Quiet ==
  ASSUME LatestInv, ~mem.up
  PROVE  /\ \A t \in Threads : client[t] = Latest!Idle /\ client[t].op = "idle" /\ client[t].key = Nothing
         /\ \A t \in Threads : ~InSet(t) /\ ~Holds(t) /\ ~Written(t)
         /\ \A k \in Keys : Kept(k) <=> mem.index[k] # EMPTY
<1>1. \A t \in Threads : client[t] = Latest!Idle /\ client[t].op = "idle" /\ client[t].key = Nothing
  BY IdleIs DEF LatestInv
<1>2. QED
  BY <1>1 DEF InSet, Holds, Written, Kept

(* Recovery ends: all records have been walked over, so what the index has *)
(* is the latest record of each key.                                       *)
LEMMA RecoverEndKeeps ==
  ASSUME LatestInv, Latest!RecoverEnd
  PROVE  LatestInv'
<1> DEFINE end == mem.file_end_offset_
<1>1. /\ ~mem.up /\ disk[end] = Blank /\ mem' = [mem EXCEPT !.up = TRUE] /\ reply' = Nothing
      /\ disk' = disk /\ client' = client /\ ghost' = ghost
  BY DEF Latest!RecoverEnd
<1>2. Typed /\ Room
  BY DEF LatestInv
<1>3. /\ mem'.up /\ mem'.index = mem.index /\ mem'.free_space = mem.free_space
      /\ mem'.file_end_offset_ = end /\ mem'.key_set_cnts_f = mem.key_set_cnts_f
  BY <1>1, <1>2 DEF Typed
<1>4. Typed'
  BY <1>1, <1>2 DEF Typed
<1>5. Room'
  <2>1. Taking' = Taking /\ Places' = Places
    BY <1>1, <1>3 DEF Taking, Places
  <2>2. QED
    BY <1>1, <1>2, <1>3, <2>1 DEF Room, Holds, InSet
<1>6. ASSUME ~ghost.hole
      PROVE  OwnInv' /\ ValueInv' /\ \A u \in Threads : ThreadInv(u)'
  <2>1. OwnInv /\ ValueInv /\ \A u \in Threads : ThreadInv(u)
    BY <1>6 DEF LatestInv
  <2>2. OwnInv'
    BY <1>1, <1>3, <2>1 DEF OwnInv, Holds, Kept, Places
  <2>3. end \in Items /\ Items \subseteq Nat /\ mem.key_set_cnts_f \in Nat
    BY <1>2, Fields
  <2>4. \A p \in Items : disk[p] = Blank \/ p < end
    BY <1>1, <2>1, <2>3 DEF ValueInv
  <2>5. \A p \in Items : disk[p].cnt <= mem.key_set_cnts_f
    <3>1. ASSUME NEW p \in Items, disk[p] = Blank
          PROVE  disk[p].cnt <= mem.key_set_cnts_f
      BY <2>3, <3>1 DEF Latest!Blank
    <3>2. QED
      BY <2>1, <2>4, <3>1 DEF ValueInv
  <2>6. ASSUME NEW k \in Keys
        PROVE  OpenInv(k)'
    <3>1. RecoveryInv(k)
      BY <1>1, <2>1 DEF ValueInv
    <3>2. \A p \in Items : disk[p].key = k => p \in Walked(k)
      BY <2>4, EnginesAssumption DEF Walked, Latest!Blank
    <3>3. /\ None(k)' <=> None(k)
          /\ \A p \in Items : (Top(k, p)' <=> Top(k, p))
          /\ \A u \in Threads : client'[u].key # k
      BY <1>1, Quiet, EnginesAssumption DEF None, Top
    <3>4. CASE mem.index[k] = EMPTY
      <4>1. None(k) /\ ghost.current[k] = NotFound
        BY <3>1, <3>2, <3>4 DEF RecoveryInv, Top, None
      <4>2. QED
        BY <1>1, <1>3, <3>3, <3>4, <4>1 DEF OpenInv, None
    <3>5. CASE mem.index[k] # EMPTY
      <4>1. PICK i \in Items : i = mem.index[k]
        BY <1>2, <3>5, Fields
      <4>2. i \in Walked(k) /\ \A p \in Walked(k) : disk[p].cnt <= disk[i].cnt
        BY <3>1, <3>5, <4>1 DEF RecoveryInv
      <4>3. disk[i].key = k
        BY <4>2 DEF Walked
      <4>4. PICK o \in Items : Top(k, o)
        BY <3>1, <4>3 DEF RecoveryInv, None
      <4>5. i = o \/ disk[i].cnt < disk[o].cnt
        BY <4>3, <4>4 DEF Top
      <4>6. disk[o].cnt <= disk[i].cnt
        BY <3>2, <4>2, <4>4 DEF Top
      <4>7. disk[o].cnt \in Nat /\ disk[i].cnt \in Nat
        BY <1>2, Fields DEF Records, Latest!Blank
      <4>8. i = o
        BY <4>5, <4>6, <4>7
      <4>9. Top(k, i) /\ disk[i].value = ghost.current[k]
        BY <3>1, <4>4, <4>8 DEF Top, RecoveryInv
      <4>10. Top(k, i)'
        BY <3>3, <4>9
      <4>11. QED
        BY <1>1, <1>3, <3>3, <3>5, <4>1, <4>3, <4>9, <4>10 DEF OpenInv
    <3>6. QED
      BY <3>4, <3>5
  <2>7. ValueInv'
    BY <1>1, <1>3, <2>5, <2>6 DEF ValueInv
  <2>8. \A u \in Threads : ThreadInv(u)'
    BY <1>1, Quiet DEF ThreadInv, InSet, Written
  <2>9. QED
    BY <2>2, <2>7, <2>8
<1>7. QED
  BY <1>1, <1>3, <1>4, <1>5, <1>6 DEF LatestInv

(* Recovery goes on by one item: its record takes the index over from an   *)
(* older one of its key, or is given to the free list.                     *)
LEMMA RecoverItemKeeps ==
  ASSUME LatestInv, Latest!RecoverItem
  PROVE  LatestInv'
<1> DEFINE o == mem.file_end_offset_
           k == disk[o].key
           old == mem.index[k]
           newer == old # EMPTY /\ disk[o].cnt > disk[old].cnt
<1>1. /\ ~mem.up /\ disk[o] # Blank /\ reply' = Nothing
      /\ disk' = disk /\ client' = client /\ ghost' = ghost
      /\ mem' = [mem EXCEPT
           !.index[k] = IF old = EMPTY \/ newer THEN o ELSE old,
           !.free_space = IF old = EMPTY THEN @ ELSE Append(@, IF newer THEN old ELSE o),
           !.file_end_offset_ = o + 1,
           !.key_set_cnts_f = IF disk[o].cnt > @ THEN disk[o].cnt ELSE @]
  BY DEF Latest!RecoverItem
<1>2. Typed /\ Room
  BY DEF LatestInv
<1>3. /\ o \in Items /\ o \in Nat /\ Items \subseteq Nat /\ EMPTY \notin Items
      /\ disk[o] \in Records /\ k \in Keys /\ old \in Items \cup {EMPTY}
      /\ ghost.sets \in Nat /\ MaxSets \in Nat /\ ghost.sets <= MaxSets /\ o < ghost.sets
      /\ mem.key_set_cnts_f \in Nat
      /\ \A p \in Items : disk[p].cnt \in Nat
  <2>1. /\ o \in Items /\ o \in Nat /\ Items \subseteq Nat /\ EMPTY \notin Items
        /\ ghost.sets \in Nat /\ MaxSets \in Nat /\ ghost.sets <= MaxSets
        /\ mem.key_set_cnts_f \in Nat
    BY <1>2, Fields, EnginesAssumption
  <2>2. disk[o] \in Records /\ o < ghost.sets
    BY <1>1, <1>2, <2>1, Fields DEF Room
  <2>3. k \in Keys
    BY <2>2 DEF Records
  <2>4. old \in Items \cup {EMPTY}
    BY <1>2, <2>3, Fields
  <2>5. \A p \in Items : disk[p].cnt \in Nat
    BY <1>2, Fields DEF Records, Latest!Blank
  <2>6. QED
    BY <2>1, <2>2, <2>3, <2>4, <2>5
<1>4. o + 1 \in Items /\ o + 1 <= ghost.sets
  BY <1>3 DEF Latest!Items
<1>5. PICK i \in Items, x \in Items, s \in Seq(Items), n \in Nat :
        /\ mem' = [mem EXCEPT !.index[k] = i, !.free_space = s, !.file_end_offset_ = o + 1,
                              !.key_set_cnts_f = n]
        /\ \/ old = EMPTY /\ i = o /\ s = mem.free_space
           \/ /\ old # EMPTY /\ s = Append(mem.free_space, x)
              /\ \/ i = o /\ x = old /\ disk[old].cnt < disk[o].cnt
                 \/ i = old /\ x = o /\ disk[o].cnt <= disk[old].cnt
        /\ mem.key_set_cnts_f <= n /\ disk[o].cnt <= n
  <2>1. PICK n \in Nat : /\ n = IF disk[o].cnt > mem.key_set_cnts_f THEN disk[o].cnt ELSE mem.key_set_cnts_f
                         /\ mem.key_set_cnts_f <= n /\ disk[o].cnt <= n
    <3>1. disk[o].cnt \in Nat /\ mem.key_set_cnts_f \in Nat
      BY <1>3
    <3>2. QED
      BY <3>1
  <2>2. mem.free_space \in Seq(Items)
    BY <1>2, Fields
  <2>3. CASE old = EMPTY
    <3>1. mem' = [mem EXCEPT !.index[k] = o, !.free_space = mem.free_space, !.file_end_offset_ = o + 1,
                             !.key_set_cnts_f = n]
      BY <1>1, <2>1, <2>3
    <3>2. QED
      BY <1>3, <2>1, <2>2, <2>3, <3>1
  <2>4. CASE newer
    <3>1. mem' = [mem EXCEPT !.index[k] = o, !.free_space = Append(mem.free_space, old),
                             !.file_end_offset_ = o + 1, !.key_set_cnts_f = n]
      BY <1>1, <2>1, <2>4
    <3>2. old \in Items /\ Append(mem.free_space, old) \in Seq(Items) /\ disk[old].cnt < disk[o].cnt
      BY <1>3, <2>2, <2>4
    <3>3. QED
      BY <1>3, <2>1, <2>4, <3>1, <3>2
  <2>5. CASE old # EMPTY /\ ~newer
    <3>1. mem' = [mem EXCEPT !.index[k] = old, !.free_space = Append(mem.free_space, o),
                             !.file_end_offset_ = o + 1, !.key_set_cnts_f = n]
      BY <1>1, <2>1, <2>5
    <3>2. old \in Items /\ Append(mem.free_space, o) \in Seq(Items)
      BY <1>3, <2>2, <2>5
    <3>4. disk[o].cnt <= disk[old].cnt
      <4>1. disk[o].cnt \in Nat /\ disk[old].cnt \in Nat
        BY <1>3, <3>2
      <4>2. QED
        BY <2>5, <4>1
    <3>3. QED
      BY <1>3, <2>1, <2>5, <3>1, <3>2, <3>4
  <2>6. QED
    BY <2>3, <2>4, <2>5
<1>6. /\ mem'.up = mem.up /\ mem'.free_space = s /\ mem'.file_end_offset_ = o + 1
      /\ mem'.key_set_cnts_f = n /\ mem'.index[k] = i
      /\ \A l \in Keys : l # k => mem'.index[l] = mem.index[l]
      /\ mem'.index \in [Keys -> Items \cup {EMPTY}]
  BY <1>2, <1>3, <1>5 DEF Typed
<1>7. /\ Places' = Places /\ s = mem.free_space /\ old = EMPTY
      \/ /\ Places' = Places \cup {Len(mem.free_space) + 1} /\ old # EMPTY
         /\ s[Len(mem.free_space) + 1] = x /\ ((i = o /\ x = old) \/ (i = old /\ x = o))
         /\ \A m \in Places : s[m] = mem.free_space[m]
  <2>1. mem.free_space \in Seq(Items) /\ Len(mem.free_space) \in Nat
    BY <1>2, Fields
  <2>2. QED
    BY <1>5, <1>6, <2>1 DEF Places
<1>8. x < ghost.sets \/ old = EMPTY
  BY <1>2, <1>3, <1>5 DEF Room
<1>9. i < ghost.sets
  BY <1>2, <1>3, <1>5 DEF Room
<1>10. Typed'
  <2>1. mem' \in [up : BOOLEAN, index : [Keys -> Items \cup {EMPTY}], free_space : Seq(Items),
              file_end_offset_ : Items, key_set_cnts_f : Nat]
    BY <1>2, <1>3, <1>4, <1>5 DEF Typed
  <2>2. QED
    BY <1>1, <1>2, <2>1 DEF Typed
<1>11. Room'
  <2>1. Taking = {} /\ Taking' = {}
    BY <1>1, Quiet DEF Taking
  <2>2. IsFiniteSet(Taking') /\ Cardinality(Taking') = 0
    BY <2>1, FS_EmptySet
  <2>3. mem'.file_end_offset_ + Cardinality(Taking') <= ghost'.sets
    <3>1. mem'.file_end_offset_ \in Nat /\ mem'.file_end_offset_ <= ghost'.sets
      BY <1>1, <1>3, <1>4, <1>6
    <3>2. QED
      BY <2>2, <3>1
  <2>4. \A l \in Keys : mem'.index[l] < ghost'.sets
    BY <1>1, <1>2, <1>6, <1>9 DEF Room
  <2>5. \A m \in Places' : mem'.free_space[m] < ghost'.sets
    <3>1. (\A m \in Places : mem.free_space[m] < ghost.sets) /\ ghost'.sets = ghost.sets
      BY <1>1, <1>2 DEF Room
    <3>2. \A m \in Places' : s[m] < ghost.sets
      BY <1>7, <1>8, <3>1
    <3>3. QED
      BY <1>6, <3>1, <3>2
  <2>6. QED
    BY <1>1, <1>2, <2>2, <2>3, <2>4, <2>5 DEF Room, Holds, InSet
<1>12. ASSUME ~ghost.hole
       PROVE  OwnInv' /\ ValueInv' /\ \A u \in Threads : ThreadInv(u)'
  <2>1. OwnInv /\ ValueInv /\ \A u \in Threads : ThreadInv(u)
    BY <1>12 DEF LatestInv
  <2>2. /\ \A u \in Threads : ~Holds(u) /\ ~Holds(u)'
        /\ \A l \in Keys : Kept(l) <=> mem.index[l] # EMPTY
        /\ \A l \in Keys : Kept(l)' <=> mem'.index[l] # EMPTY
    BY <1>1, Quiet DEF Holds, Kept
  <2>3. \A m \in Places : mem.free_space[m] \in Items /\ mem.free_space[m] < o
    <3>1. \A m \in Places : mem.free_space[m] \in Items
      BY <1>2, Fields DEF Places
    <3>2. QED
      BY <2>1, <3>1 DEF OwnInv
  <2>4. \A l \in Keys : /\ mem.index[l] < o
                        /\ mem.index[l] # EMPTY => \A m \in Places : mem.free_space[m] # mem.index[l]
                        /\ \A j \in Keys : mem.index[l] # EMPTY /\ mem.index[j] = mem.index[l] => j = l
    BY <2>1, <2>2 DEF OwnInv
  <2>5. i < o + 1 /\ (old # EMPTY => x < o + 1)
    BY <1>3, <1>5, <2>4
  <2>6. old # EMPTY => \A m \in Places : mem.free_space[m] # x
    <3>1. CASE old # EMPTY /\ x = old
      BY <1>3, <2>4, <3>1
    <3>2. CASE x = o
      <4>1. \A m \in Places : mem.free_space[m] # o
        BY <1>3, <2>3
      <4>2. QED
        BY <3>2, <4>1
    <3>3. QED
      BY <1>5, <3>1, <3>2
  <2>7. \A m \in Places : mem.free_space[m] # i
    BY <1>3, <1>5, <2>3, <2>4
  <2>8. \A l \in Keys : l # k /\ mem.index[l] # EMPTY => mem.index[l] # i /\ (old # EMPTY => mem.index[l] # x)
    BY <1>3, <1>5, <2>4
  <2>9. OwnInv'
    <3>1. \A m \in Places' : /\ s[m] < o + 1
                             /\ \A j \in Places' : s[j] = s[m] => j = m
      <4>1. CASE Places' = Places /\ s = mem.free_space
        <5>1. ASSUME NEW m \in Places
              PROVE  s[m] < o + 1
          <6>1. s[m] \in Nat /\ s[m] < o /\ o \in Nat
            BY <1>3, <2>3, <4>1
          <6>2. QED
            BY <6>1
        <5>2. QED
          BY <2>1, <4>1, <5>1 DEF OwnInv
      <4>2. CASE /\ Places' = Places \cup {Len(mem.free_space) + 1} /\ old # EMPTY
                 /\ s[Len(mem.free_space) + 1] = x
                 /\ \A m \in Places : s[m] = mem.free_space[m]
        <5>1. ASSUME NEW m \in Places
              PROVE  s[m] < o + 1
          <6>1. s[m] \in Nat /\ s[m] < o /\ o \in Nat
            BY <1>3, <2>3, <4>2
          <6>2. QED
            BY <6>1
        <5>2. \A m, j \in Places : s[j] = s[m] => j = m
          BY <2>1, <4>2 DEF OwnInv
        <5>3. QED
          BY <2>5, <2>6, <4>2, <5>1, <5>2
      <4>3. QED
        BY <1>7, <4>1, <4>2
    <3>2. \A l \in Keys : mem'.index[l] < o + 1
      <4>1. \A l \in Keys : mem.index[l] = -1 \/ mem.index[l] \in Nat
        BY <1>2, Fields DEF Latest!EMPTY
      <4>2. ASSUME NEW l \in Keys
            PROVE  mem.index[l] < o + 1
        <5>1. (mem.index[l] = -1 \/ mem.index[l] \in Nat) /\ mem.index[l] < o /\ o \in Nat
          BY <1>3, <2>4, <4>1
        <5>2. QED
          BY <5>1
      <4>3. QED
        BY <1>6, <2>5, <4>2
    <3>3. ASSUME NEW l \in Keys, mem'.index[l] # EMPTY
          PROVE  /\ \A m \in Places' : s[m] # mem'.index[l]
                 /\ \A j \in Keys : mem'.index[j] = mem'.index[l] => j = l
      <4>1. CASE l = k
        <5>1. old # EMPTY => x # i
          BY <1>3, <1>5, <2>4
        <5>2. \A m \in Places' : s[m] # i
          BY <1>7, <2>7, <5>1
        <5>3. \A j \in Keys : mem'.index[j] = i => j = k
          BY <1>3, <1>6, <2>8
        <5>4. QED
          BY <1>6, <4>1, <5>2, <5>3
      <4>2. CASE l # k
        <5>1. mem'.index[l] = mem.index[l]
          BY <1>6, <4>2
        <5>2. \A m \in Places' : s[m] # mem.index[l]
          BY <1>7, <2>4, <2>8, <3>3, <4>2, <5>1
        <5>3. \A j \in Keys : mem'.index[j] = mem.index[l] => j = l
          BY <1>6, <2>4, <2>8, <3>3, <4>2, <5>1
        <5>4. QED
          BY <5>1, <5>2, <5>3
      <4>3. QED
        BY <4>1, <4>2
    <3>4. QED
      BY <1>6, <2>2, <3>1, <3>2, <3>3 DEF OwnInv, Holds, Kept, Places
  <2>10. ValueInv'
    <3>1. /\ \A p \in Items : p < o => disk[p].cnt <= mem.key_set_cnts_f
          /\ \A l \in Keys : RecoveryInv(l)
          /\ \A p, q \in Items : p < q /\ disk[p] = Blank => disk[q] = Blank
      BY <1>1, <2>1 DEF ValueInv
    <3>2. \A p \in Items : p < o + 1 => disk[p].cnt <= n
      <4>1. ASSUME NEW p \in Items, p < o + 1
            PROVE  disk[p].cnt <= n
        <5>1. p = o \/ p < o
          BY <1>3, <4>1
        <5>2. QED
          BY <1>3, <1>5, <3>1, <5>1
      <4>2. QED
        BY <4>1
    <3>3. ASSUME NEW l \in Keys
          PROVE  RecoveryInv(l)'
      <4>1. /\ ghost.current[l] = ghost.stored[l] /\ (None(l) \/ \E p \in Items : Top(l, p))
            /\ IF mem.index[l] = EMPTY THEN Walked(l) = {}
               ELSE /\ mem.index[l] \in Walked(l)
                    /\ \A p \in Walked(l) : disk[p].cnt <= disk[mem.index[l]].cnt
        BY <3>1 DEF RecoveryInv
      <4>2. Walked(l)' = {p \in Items : (p < o \/ p = o) /\ disk[p].key = l}
        <5>1. \A p \in Items : p < o + 1 <=> p < o \/ p = o
          BY <1>3
        <5>2. QED
          BY <1>1, <1>6, <5>1 DEF Walked
      <4>3. Walked(l) = {p \in Items : p < o /\ disk[p].key = l}
        BY DEF Walked
      <4>4. CASE l # k
        <5>1. Walked(l)' = Walked(l)
          BY <4>2, <4>3, <4>4
        <5>2. IF mem'.index[l] = EMPTY THEN Walked(l)' = {}
              ELSE /\ mem'.index[l] \in Walked(l)'
                   /\ \A p \in Walked(l)' : disk[p].cnt <= disk[mem'.index[l]].cnt
          BY <1>6, <4>1, <4>4, <5>1
        <5>3. QED
          BY <1>1, <4>1, <5>2 DEF RecoveryInv, Top, None, Walked
      <4>5. CASE l = k
        <5>1. Walked(l)' = Walked(l) \cup {o}
          BY <1>3, <4>2, <4>3, <4>5
        <5>2. \A p \in Walked(l) : disk[p].cnt \in Nat
          BY <1>3, <4>3
        <5>3. i \in Walked(l)' /\ \A p \in Walked(l)' : disk[p].cnt <= disk[i].cnt
          <6>1. CASE old = EMPTY
            BY <1>3, <1>5, <4>1, <4>5, <5>1, <6>1
          <6>2. CASE old # EMPTY
            <7>1. disk[o].cnt \in Nat /\ disk[old].cnt \in Nat
              BY <1>3, <6>2
            <7>2. old \in Walked(l) /\ \A p \in Walked(l) : disk[p].cnt <= disk[old].cnt
              BY <4>1, <4>5, <6>2
            <7>3. CASE i = o /\ disk[old].cnt < disk[o].cnt
              BY <5>1, <5>2, <7>1, <7>2, <7>3
            <7>4. CASE i = old /\ disk[o].cnt <= disk[old].cnt
              BY <5>1, <7>1, <7>2, <7>4
            <7>5. QED
              BY <1>5, <6>2, <7>3, <7>4
          <6>3. QED
            BY <6>1, <6>2
        <5>4. mem'.index[l] = i /\ i # EMPTY
          BY <1>3, <1>6, <4>5
        <5>5. QED
          BY <1>1, <4>1, <5>3, <5>4 DEF RecoveryInv, Walked, Top, None
      <4>6. QED
        BY <4>4, <4>5
    <3>4. QED
      BY <1>1, <1>6, <3>1, <3>2, <3>3 DEF ValueInv
  <2>11. \A u \in Threads : ThreadInv(u)'
    BY <1>1, Quiet DEF ThreadInv, InSet, Written
  <2>12. QED
    BY <2>9, <2>10, <2>11
<1>13. QED
  <2>1. \A u \in Threads : ~mem'.up => client'[u] = Latest!Idle
    BY <1>1, <1>6 DEF LatestInv
  <2>2. QED
    BY <1>1, <1>10, <1>11, <1>12, <2>1 DEF LatestInv

(* Every step of nvm_engine_latest keeps the invariant.                    *)
LEMMA NextKeeps ==
  ASSUME LatestInv, Latest!Next
  PROVE  LatestInv'
BY SetKeeps, LookupKeeps, TakeKeeps, WriteKeeps, RecycleKeeps, IndexKeeps, ReadKeeps,
   StopKeeps, RecoverItemKeeps, RecoverEndKeeps DEF Latest!Next

------------------------------------------------------------------------------
(* The engine as the judge runs it                                         *)

(* A Get of nvm_engine_latest that no Set of its key overlaps answers with *)
(* what the key has, whatever the threads and keys are and however often   *)
(* the process is killed, unless a kill has left a hole in the file.       *)
THEOREM LatestGetsAreCurrent == Spec => []LatestUndisturbedGetsAreCurrent
<1> DEFINE IInv == engine = "nvm_engine_latest" => LatestInv
<1>1. Init => IInv
  BY InitLatest DEF Init
<1>2. IInv /\ [Next]_vars => IInv'
  <2> SUFFICES ASSUME IInv, [Next]_vars, engine' = "nvm_engine_latest"
               PROVE  LatestInv'
    OBVIOUS
  <2>1. CASE UNCHANGED vars
    <3>1. /\ engine = "nvm_engine_latest"
          /\ disk' = disk /\ mem' = mem /\ client' = client /\ reply' = reply /\ ghost' = ghost
      BY <2>1 DEF vars, state
    <3>2. (Typed' <=> Typed) /\ (Room' <=> Room)
      BY <3>1 DEF Typed, Room, Taking, Places, InSet, Holds
    <3>3. OwnInv' <=> OwnInv
      BY <3>1 DEF OwnInv, Holds, Kept, Places
    <3>4. ValueInv' <=> ValueInv
      BY <3>1 DEF ValueInv, OpenInv, RecoveryInv, Kept, Written, Top, None, Walked
    <3>5. \A t \in Threads : ThreadInv(t)' <=> ThreadInv(t)
      BY <3>1 DEF ThreadInv, InSet, Written
    <3>6. QED
      BY <3>1, <3>2, <3>3, <3>4, <3>5 DEF LatestInv
  <2>2. CASE Next
    <3>1. engine = "nvm_engine_latest" /\ Latest!Next
      BY <2>2 DEF Next, FirstStep, P7Step, PeipeiStep, PatenStep, LatestStep, ExampleStep
    <3>2. QED
      BY <3>1, NextKeeps
  <2>3. QED
    BY <2>1, <2>2
<1>3. IInv => LatestUndisturbedGetsAreCurrent
  BY DEF LatestInv, ValueInv, LatestUndisturbedGetsAreCurrent, Latest!UndisturbedGetsAreCurrent
<1>4. QED
  BY <1>1, <1>2, <1>3, PTL DEF Spec
==============================================================================
