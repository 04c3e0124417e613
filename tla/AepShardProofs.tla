---------------------------- MODULE AepShardProofs ----------------------------
(***************************************************************************)
(* Proofs about the shard of nvm_engine_latest (AepShard.tla): its layout, *)
(* the owners of its items, its counts, and that under kills it is a       *)
(* durable key-value store.                                                *)
(*                                                                         *)
(* Two inductive invariants carry the proofs. ShardInv holds under kills   *)
(* and under power losses. It says that the items which the walk of        *)
(* IndexCallback would find lie side by side from offset 0 to the end of   *)
(* the file, but for a new item that a Set is writing there (LayoutInv);   *)
(* what a Set in progress has stored and what it has not (WriteInv); and   *)
(* that each item has one owner at most, the index or one place in one     *)
(* free list (OwnInv). KillInv is about the counts and needs that stores   *)
(* reach the memory in program order: it holds when the process is killed  *)
(* but the power stays.                                                    *)
(***************************************************************************)
EXTENDS AepShard, FiniteSetTheorems, SequenceTheorems, TLAPS

(* Hypotheses of some of the theorems: the process is killed, but the      *)
(* power stays; and no free list is so long that it drops an item. (The    *)
(* code's lists take 1 000 000 items, nvm_engine_latest/config.h line 16;  *)
(* a shard has room for more, so that this depends on the load and not on  *)
(* the constants.)                                                         *)
OnlyKills == CrashKinds \subseteq {"kill"}
RoomInLists == \A c \in Chunks : Len(free_space[c]) < MaxFree

------------------------------------------------------------------------------
(* The layout of the file *)

(* Recovery walks on over this item. *)
Exists(i) == i.vsize # 0 /\ ReadKV_KVs(i) # 0
(* The items in the file, and the bytes that the one at o takes.           *)
Items == {o \in Offsets : Exists(file[o])}
Size(f, o) == calSizeFromIdx(f[o].chunk)

(* The items S lie side by side from offset 0 up to e. *)
Tiled(f, S, e) ==
  /\ \A o \in S : o + Size(f, o) <= e
  /\ \A o, q \in S : o < q => o + Size(f, o) <= q
  /\ \A b \in Offsets : b < e => \E o \in S : o <= b /\ b < o + Size(f, o)

(* The Set in progress writes a new item, at the end of the file. *)
Fresh == pc = "store" /\ ~Exists(write_log)

(* The items lie side by side. Recovery does not know yet where they end,  *)
(* but it is at one of them or at their end; an item that does not exist   *)
(* says nothing of its size.                                               *)
LayoutInv ==
  /\ \A o \in Offsets : ~Exists(file[o]) => file[o].chunk = 0
  /\ pc = "recover" => \E e \in Offsets : Tiled(file, Items, e) /\ (pos \in Items \/ pos = e)
  /\ pc # "recover" => IF Fresh THEN Tiled(file, Items \ {op.off}, op.off)
                       ELSE Tiled(file, Items, file_end_offset)

------------------------------------------------------------------------------
(* Types and the Set in progress                                           *)

(* The halves of keys, and an item: the type of what one offset holds.     *)
Key0s == {k[1] : k \in Keys} \cup {Zero}
Key1s == {k[2] : k \in Keys} \cup {Zero}

IsItem(i) ==
  /\ i = [p \in Parts |-> i[p]]
  /\ i.head \in 0..MaxCnt /\ i.tail \in 0..MaxCnt
  /\ i.key0 \in Key0s /\ i.key1 \in Key1s
  /\ i.vsize \in Nat /\ i.chunk \in Chunks

(* What SetKV_Data and CreateKV_Data can still have to store. *)
Todos ==
  {CreateKV_Data, SetKV_Data,
   <<"key0", "key1", "vsize", "chunk", "val0", "val1", "tail">>,
   <<"key1", "vsize", "chunk", "val0", "val1", "tail">>,
   <<"vsize", "chunk", "val0", "val1", "tail">>,
   <<"chunk", "val0", "val1", "tail">>,
   <<"key0", "key1", "vsize", "val0", "val1", "tail">>,
   <<"key1", "vsize", "val0", "val1", "tail">>,
   <<"vsize", "val0", "val1", "tail">>,
   <<"val0", "val1", "tail">>, <<"val1", "tail">>, <<"tail">>, << >>}

(* The Sets in progress.                                                   *)
Ops == [key : Keys, val : Values, off : Offsets, old : Offsets \cup {Nothing},
        cnt : 1..MaxCnt, todo : Todos]

(* The parts still to be stored; the chunk id of a record of v.            *)
Left(todo) == {todo[n] : n \in DOMAIN todo}
Fit(v) == calFreeSpaceIdx(SizeOf[v])

Typed ==
  /\ file = [o \in Offsets |-> file[o]] /\ \A o \in Offsets : IsItem(file[o])
  /\ index \in [AllKeys -> Offsets \cup {Nothing}]
  /\ free_space \in [Chunks -> Seq(Offsets)]
  /\ file_end_offset \in Offsets
  /\ key_set_cnts_f \in 0..MaxCnt
  /\ pc \in {"idle", "store", "return", "recover"}
  /\ op \in Ops \cup {Nothing}
  /\ pos \in Offsets
  /\ max_set_cnt \in 0..MaxCnt

(* Of the item that a Set writes, the parts left to store are as they were *)
(* when last persisted, and the others are those of the record. A fresh    *)
(* item reaches up to file_end_offset and gets the chunk id of its value;  *)
(* a reused one keeps its chunk id, and exists throughout.                 *)
WriteInv ==
  /\ op = Nothing <=> pc \in {"idle", "recover"}
  /\ pc # "store" => write_log = Nothing
  /\ pc = "store" =>
       /\ IsItem(write_log) /\ \A p \in Left(op.todo) : file[op.off][p] = write_log[p]
       /\ Fresh => /\ op.off + calSizeFromIdx(Fit(op.val)) = file_end_offset
                   /\ file[op.off].chunk = IF "chunk" \in Left(op.todo) THEN 0 ELSE Fit(op.val)
       /\ ~Fresh => /\ "chunk" \notin Left(op.todo)
                    /\ file[op.off].chunk = write_log.chunk
                    /\ Exists(file[op.off])
  /\ pc = "return" => op.todo = << >> /\ Exists(file[op.off])
  /\ op # Nothing =>
       /\ op.old = index[op.key]
       /\ \A p \in Parts \ ({"chunk"} \cup Left(op.todo)) :
            file[op.off][p] = Record(op.key, op.val, op.cnt, Fit(op.val))[p]

(* The items that must have an owner: those recovery has walked over, or   *)
(* all but the one that the Set in progress writes.                        *)
Walked == IF pc = "recover" THEN {o \in Items : o < pos} ELSE Items \ Claimed

(* The items in the free lists fs; each is in one place of one list, the   *)
(* one of its chunk id.                                                    *)
In(fs) == UNION {{fs[c][n] : n \in 1..Len(fs[c])} : c \in Chunks}

Lists(f, fs) ==
  /\ \A c, d \in Chunks : \A m \in 1..Len(fs[c]), n \in 1..Len(fs[d]) :
       fs[c][m] = fs[d][n] => c = d /\ m = n
  /\ \A c \in Chunks : \A n \in 1..Len(fs[c]) : f[fs[c][n]].chunk = c

(* What the index g points at; every item is pointed at by one key. *)
Points(g) == {g[k] : k \in AllKeys} \ {Nothing}
Once(g) == \A k, l \in AllKeys : g[k] = g[l] /\ g[k] # Nothing => k = l

(* Each item has at most one owner among the index and the free lists. *)
Owns(f, g, fs) == Lists(f, fs) /\ Once(g) /\ Points(g) \cap In(fs) = {}
Held(g, fs) == Points(g) \cup In(fs)

OwnInv ==
  /\ Owns(file, index, free_space)
  /\ Held(index, free_space) \subseteq Walked

(* And no item is left out, as long as the lists take what is recycled.    *)
AllHeld == Walked \subseteq Held(index, free_space)

(* The inductive invariant of all that happens, power losses included.     *)
ShardInv == Typed /\ LayoutInv /\ WriteInv /\ OwnInv

------------------------------------------------------------------------------
(* Counts *)

(* The Set in progress has stored its whole record at o.                   *)
Done(o) == op # Nothing /\ o = op.off /\ op.todo = << >>

(* No trailing count is above the shard's counter, and a Set in progress   *)
(* has the highest of all.  Each is at most that of a record in the index: *)
(* recovery, which takes no account of torn records, finds the highest.    *)
TailsRise ==
  pc # "recover" =>
    /\ op = Nothing => \A o \in Offsets : file[o].tail <= key_set_cnts_f
    /\ op # Nothing =>
         /\ op.cnt = key_set_cnts_f
         /\ \A o \in Offsets : ~Done(o) => file[o].tail < op.cnt
    /\ \A o \in Offsets : file[o].tail > 0 /\ ~Done(o) =>
         \E k \in AllKeys : index[k] # Nothing /\ file[o].tail <= file[index[k]].tail

(* The index points at a record of the key, and at the one with the        *)
(* highest count of those that recovery has walked over.                   *)
IndexInv ==
  /\ \A k \in AllKeys : index[k] # Nothing => Valid(file[index[k]]) /\ KeyOf(file[index[k]]) = k
  /\ \A o \in Offsets : Valid(file[o]) /\ ~Done(o) /\ (pc = "recover" => o < pos) =>
       index[KeyOf(file[o])] # Nothing /\ file[o].tail <= file[index[KeyOf(file[o])]].tail

(* What recovery will find, and has found, of the highest count.           *)
MaxInv ==
  pc = "recover" =>
    /\ \A o \in Offsets : file[o].tail > 0 =>
         \E q \in Offsets : Valid(file[q]) /\ file[o].tail <= file[q].tail
    /\ \A o \in Offsets : Valid(file[o]) /\ o < pos => file[o].tail <= max_set_cnt

(* No two valid records have one count.                                    *)
Unique(f) ==
  \A o, q \in Offsets : Valid(f[o]) /\ Valid(f[q]) /\ f[o].tail = f[q].tail => o = q

(* The inductive invariant of a shard whose process may be killed.         *)
KillInv ==
  /\ \A o \in Offsets : file[o].vsize # 0 => file[o].head # 0
  /\ Unique(file) /\ TailsRise /\ IndexInv /\ MaxInv
  /\ pc # "idle" => reply = Nothing

------------------------------------------------------------------------------
(* Sizes and offsets                                                       *)

(* Sizes and offsets are numbers, an item ends where another may begin,    *)
(* and the items of chunk id 0 are the smallest (calSizeFromIdx).          *)
LEMMA Sizes ==
  /\ \A i \in Chunks : calSizeFromIdx(i) \in Nat /\ calSizeFromIdx(i) >= 128
  /\ \A o \in Offsets, i \in Chunks :
       o + calSizeFromIdx(i) <= FileSize => o + calSizeFromIdx(i) \in Offsets
  /\ \A i \in Chunks : calSizeFromIdx(0) <= calSizeFromIdx(i)
  /\ 0 \in Chunks /\ 0 \in Offsets /\ Offsets \subseteq Nat
BY RecordAssumption, ShardAssumption DEF Chunks, calSizeFromIdx, MinItemSize, Granule, Offsets

(* A value has a chunk id and is not empty (calFreeSpaceIdx).              *)
LEMMA FitIsChunk ==
  \A v \in Values : Fit(v) \in Chunks /\ SizeOf[v] \in Nat /\ SizeOf[v] # 0
BY ChunksAssumption, RecordAssumption DEF Fit

(* Storing in an order: the parts left after the next one.                 *)
LEMMA TodoStep ==
  ASSUME NEW t \in Todos, t # << >>
  PROVE  /\ Head(t) \in Left(t) /\ Left(t) \subseteq Parts
         /\ Tail(t) \in Todos
         /\ Left(Tail(t)) = Left(t) \ {Head(t)}
         /\ "tail" \in Left(t)
         /\ Tail(t) = << >> <=> Head(t) = "tail"
         /\ Head(t) # "head" => "head" \notin Left(t)
         /\ Head(t) = "chunk" => "vsize" \notin Left(t)
<1>1. CASE t = CreateKV_Data
  BY <1>1 DEF CreateKV_Data, Todos, Left, Parts
<1>2. CASE t = SetKV_Data
  BY <1>2 DEF SetKV_Data, Todos, Left, Parts
<1>3. CASE t = <<"key0", "key1", "vsize", "chunk", "val0", "val1", "tail">>
  BY <1>3 DEF Todos, Left, Parts
<1>4. CASE t = <<"key1", "vsize", "chunk", "val0", "val1", "tail">>
  BY <1>4 DEF Todos, Left, Parts
<1>5. CASE t = <<"vsize", "chunk", "val0", "val1", "tail">>
  BY <1>5 DEF Todos, Left, Parts
<1>6. CASE t = <<"chunk", "val0", "val1", "tail">>
  BY <1>6 DEF Todos, Left, Parts
<1>7. CASE t = <<"key0", "key1", "vsize", "val0", "val1", "tail">>
  BY <1>7 DEF Todos, Left, Parts
<1>8. CASE t = <<"key1", "vsize", "val0", "val1", "tail">>
  BY <1>8 DEF Todos, Left, Parts
<1>9. CASE t = <<"vsize", "val0", "val1", "tail">>
  BY <1>9 DEF Todos, Left, Parts
<1>10. CASE t = <<"val0", "val1", "tail">>
  BY <1>10 DEF Todos, Left, Parts
<1>11. CASE t = <<"val1", "tail">>
  BY <1>11 DEF Todos, Left, Parts
<1>12. CASE t = <<"tail">>
  BY <1>12 DEF Todos, Left, Parts
<1>13. QED
  BY <1>1, <1>2, <1>3, <1>4, <1>5, <1>6, <1>7, <1>8, <1>9, <1>10, <1>11, <1>12 DEF Todos

(* What is left to store at the beginning of a Set and at its end.         *)
LEMMA Todo0 ==
  /\ CreateKV_Data \in Todos /\ Left(CreateKV_Data) = Parts
  /\ SetKV_Data \in Todos /\ Left(SetKV_Data) = Parts \ {"chunk"}
  /\ << >> \in Todos /\ Left(<< >>) = {}
  /\ \A t \in Todos : t \in Seq(Parts)
BY DEF CreateKV_Data, SetKV_Data, Todos, Left, Parts

------------------------------------------------------------------------------
(* Tiles                                                                   *)

(* An item takes space.                                                    *)
LEMMA SizeOfItem ==
  ASSUME NEW f, \A q \in Offsets : f[q].chunk \in Chunks, NEW q \in Offsets
  PROVE  q \in Nat /\ Size(f, q) \in Nat /\ Size(f, q) > 0
<1>1. f[q].chunk \in Chunks
  OBVIOUS
<1>2. QED
  BY <1>1, Sizes DEF Size

(* An item more at the end.                                                *)
LEMMA Grow ==
  ASSUME NEW f, \A q \in Offsets : f[q].chunk \in Chunks,
         NEW S \in SUBSET Offsets, NEW o \in Offsets, o \notin S, Tiled(f, S, o)
  PROVE  Tiled(f, S \cup {o}, o + Size(f, o))
<1>1. \A q \in S \cup {o} : q \in Nat /\ Size(f, q) \in Nat /\ Size(f, q) > 0
  BY SizeOfItem
<1>2. o + Size(f, o) >= o /\ o + Size(f, o) \in Nat
  BY <1>1
<1>3. \A q \in S \cup {o} : q + Size(f, q) <= o + Size(f, o)
  BY <1>1, <1>2 DEF Tiled
<1>4. \A p, q \in S \cup {o} : p < q => p + Size(f, p) <= q
  <2>1. \A q \in S : q < o
    BY <1>1 DEF Tiled
  <2>2. QED
    BY <1>1, <2>1 DEF Tiled
<1>5. ASSUME NEW b \in Offsets, b < o + Size(f, o)
      PROVE  \E q \in S \cup {o} : q <= b /\ b < q + Size(f, q)
  <2>1. b \in Nat
    BY Sizes
  <2>2. CASE b < o
    BY <2>2 DEF Tiled
  <2>3. CASE o <= b
    BY <1>5, <2>3
  <2>4. QED
    BY <1>1, <2>1, <2>2, <2>3
<1>6. QED
  BY <1>3, <1>4, <1>5 DEF Tiled

(* A walk that steps from item to item comes to the next one, or to the    *)
(* end.                                                                    *)
LEMMA WalkOn ==
  ASSUME NEW f, \A q \in Offsets : f[q].chunk \in Chunks,
         NEW S \in SUBSET Offsets, NEW e \in Offsets, Tiled(f, S, e), NEW o \in S
  PROVE  /\ o + Size(f, o) \in Offsets
         /\ o + Size(f, o) \in S \/ o + Size(f, o) = e
         /\ \A q \in S : q < o + Size(f, o) <=> q < o \/ q = o
<1>1. \A q \in S : q \in Nat /\ Size(f, q) \in Nat /\ Size(f, q) > 0
  BY SizeOfItem
<1>2. e \in Nat /\ e <= FileSize /\ o + Size(f, o) <= e /\ FileSize \in Nat
  BY ShardAssumption DEF Tiled, Offsets
<1>3. o + Size(f, o) \in Offsets
  BY <1>1, <1>2, Sizes DEF Size
<1>4. ASSUME NEW q \in S
      PROVE  q < o + Size(f, o) <=> q < o \/ q = o
  BY <1>1 DEF Tiled
<1>5. CASE o + Size(f, o) < e
  <2>1. PICK q \in S : q <= o + Size(f, o) /\ o + Size(f, o) < q + Size(f, q)
    BY <1>3, <1>5 DEF Tiled
  <2>2. ~(q < o) /\ q # o
    BY <1>1, <2>1 DEF Tiled
  <2>3. ~(q < o + Size(f, o))
    BY <1>4, <2>2
  <2>4. q = o + Size(f, o)
    BY <1>1, <2>1, <2>3
  <2>5. QED
    BY <1>3, <1>4, <2>4
<1>6. CASE o + Size(f, o) = e
  BY <1>3, <1>4, <1>6
<1>7. QED
  BY <1>1, <1>2, <1>5, <1>6

(* Where the walk begins. *)
LEMMA WalkFrom0 ==
  ASSUME NEW f, NEW S \in SUBSET Offsets, NEW e \in Offsets, Tiled(f, S, e)
  PROVE  0 \in S \/ 0 = e
<1>1. e \in Nat /\ 0 \in Offsets /\ \A q \in S : q \in Nat
  BY Sizes
<1>2. CASE 0 < e
  <2>1. PICK q \in S : q <= 0
    BY <1>1, <1>2 DEF Tiled
  <2>2. QED
    BY <1>1, <2>1
<1>3. QED
  BY <1>1, <1>2

(* No item begins where the items end.                                     *)
LEMMA NoneAtEnd ==
  ASSUME NEW f, \A q \in Offsets : f[q].chunk \in Chunks,
         NEW S \in SUBSET Offsets, NEW e \in Offsets, Tiled(f, S, e)
  PROVE  \A o \in S : o < e
<1>1. \A q \in S : q \in Nat /\ Size(f, q) \in Nat /\ Size(f, q) > 0
  BY SizeOfItem
<1>2. e \in Nat
  BY Sizes
<1>3. QED
  BY <1>1, <1>2 DEF Tiled

(* Tiles are a matter of the chunk ids alone.                              *)
LEMMA SameTiles ==
  ASSUME NEW f, NEW g, NEW S, NEW e, Tiled(f, S, e), \A o \in S : g[o].chunk = f[o].chunk
  PROVE  Tiled(g, S, e)
BY DEF Tiled, Size

------------------------------------------------------------------------------
(* One part of an item                                                     *)

(* What the parts of a completed record are, and what it reads as.         *)
LEMMA RecordParts ==
  ASSUME NEW k \in Keys, NEW v \in Values, NEW c \in 1..MaxCnt, NEW ch \in Chunks
  PROVE  /\ IsItem(Record(k, v, c, ch))
         /\ Record(k, v, c, ch).head = c /\ Record(k, v, c, ch).tail = c
         /\ Record(k, v, c, ch).vsize = SizeOf[v] /\ Record(k, v, c, ch).chunk = ch
         /\ KeyOf(Record(k, v, c, ch)) = k
         /\ ReadKV_Data(Record(k, v, c, ch)) = Intact(v)
<1>1. k = <<k[1], k[2]>> /\ k[1] \in Key0s /\ k[2] \in Key1s
  BY RecordAssumption DEF Key0s, Key1s
<1>2. SizeOf[v] \in Nat /\ c \in 0..MaxCnt
  BY FitIsChunk, ShardAssumption
<1>3. QED
  BY <1>1, <1>2 DEF Record, IsItem, Parts, KeyOf, ReadKV_Data, Intact

(* Memory never written holds no item (Init).                              *)
LEMMA ZeroItemIs ==
  IsItem(ZeroItem) /\ ~Exists(ZeroItem) /\ ZeroItem.chunk = 0 /\ ZeroItem.tail = 0
  /\ ZeroItem.vsize = 0 /\ ~Valid(ZeroItem)
<1>1. 0 \in Chunks /\ 0 \in 0..MaxCnt /\ Zero \in Key0s /\ Zero \in Key1s
  BY Sizes, ShardAssumption DEF Key0s, Key1s
<1>2. QED
  BY <1>1 DEF ZeroItem, IsItem, Exists, Valid, Parts

(* Every item, torn or not, reads as some key of AllKeys (ReadKV_KVs).     *)
LEMMA KeyOfItem ==
  ASSUME NEW i, IsItem(i)
  PROVE  KeyOf(i) \in AllKeys
BY DEF IsItem, KeyOf, AllKeys, Key0s, Key1s

(* The keys clients use are among those an item can hold.                  *)
LEMMA KeysAreAllKeys == Keys \subseteq AllKeys
<1> SUFFICES ASSUME NEW k \in Keys
             PROVE  k \in AllKeys
  OBVIOUS
<1>1. k = <<k[1], k[2]>>
  BY RecordAssumption
<1>2. QED
  BY <1>1 DEF AllKeys

(* Nothing is held when a new engine object is made.                       *)
LEMMA Empty ==
  /\ EmptyFreeSpace \in [Chunks -> Seq(Offsets)]
  /\ EmptyIndex \in [AllKeys -> Offsets \cup {Nothing}]
  /\ \A f : Owns(f, EmptyIndex, EmptyFreeSpace)
  /\ Held(EmptyIndex, EmptyFreeSpace) = {}
<1>1. /\ EmptyFreeSpace \in [Chunks -> Seq(Offsets)]
      /\ EmptyIndex \in [AllKeys -> Offsets \cup {Nothing}]
  BY EmptySeq DEF EmptyFreeSpace, EmptyIndex
<1>2. Points(EmptyIndex) = {}
  BY DEF Points, EmptyIndex
<1>3. \A c \in Chunks : Len(EmptyFreeSpace[c]) = 0
  BY DEF EmptyFreeSpace
<1>4. \A c \in Chunks : 1..Len(EmptyFreeSpace[c]) = {}
  BY <1>3
<1>5. In(EmptyFreeSpace) = {}
  BY <1>4 DEF In
<1>6. \A f : Lists(f, EmptyFreeSpace)
  BY <1>4 DEF Lists
<1>7. Once(EmptyIndex)
  BY DEF Once, EmptyIndex
<1>8. QED
  BY <1>1, <1>2, <1>5, <1>6, <1>7 DEF Owns, Held

(* The invariant holds of a new engine on a new file.                      *)
LEMMA InitShard == Init => ShardInv
<1> SUFFICES ASSUME Init
             PROVE  ShardInv
  OBVIOUS
<1>1. \A o \in Offsets : file[o] = ZeroItem
  BY DEF Init
<1>2. Items = {}
  BY <1>1, ZeroItemIs DEF Items
<1>3. Typed
  <2>1. free_space \in [Chunks -> Seq(Offsets)]
    BY EmptySeq DEF Init, EmptyFreeSpace
  <2>2. index \in [AllKeys -> Offsets \cup {Nothing}]
    BY DEF Init, EmptyIndex
  <2>3. 0 \in Offsets /\ 0 \in 0..MaxCnt
    BY Sizes, ShardAssumption
  <2>4. QED
    BY <1>1, <2>1, <2>2, <2>3, ZeroItemIs DEF Init, Typed
<1>4. LayoutInv
  <2>1. Tiled(file, {}, 0)
    BY Sizes DEF Tiled
  <2>2. ~Fresh
    BY DEF Init, Fresh
  <2>3. QED
    BY <1>1, <1>2, <2>1, <2>2, ZeroItemIs DEF LayoutInv, Init
<1>5. WriteInv
  BY DEF WriteInv, Init, Fresh
<1>6. OwnInv
  BY Empty DEF OwnInv, Init
<1>7. QED
  BY <1>3, <1>4, <1>5, <1>6 DEF ShardInv

------------------------------------------------------------------------------
(* Free lists                                                              *)

(* o goes on top of the list of its chunk id. *)
Push(f, fs, c, o, gs) ==
  /\ fs \in [Chunks -> Seq(Offsets)] /\ gs \in [Chunks -> Seq(Offsets)]
  /\ Lists(f, fs) /\ o \in Offsets /\ o \notin In(fs)
  /\ c \in Chunks /\ c = f[o].chunk
  /\ gs[c] = Append(fs[c], o) /\ \A d \in Chunks : d # c => gs[d] = fs[d]

(* o is taken from the top of list c. *)
Pop(f, fs, c, o, gs) ==
  /\ fs \in [Chunks -> Seq(Offsets)] /\ gs \in [Chunks -> Seq(Offsets)]
  /\ Lists(f, fs) /\ c \in Chunks
  /\ Len(fs[c]) > 0 /\ o = fs[c][Len(fs[c])]
  /\ gs[c] = SubSeq(fs[c], 1, Len(fs[c]) - 1) /\ \A d \in Chunks : d # c => gs[d] = fs[d]

(* Pushing an item nobody had in a list adds just that item.               *)
LEMMA Pushed ==
  ASSUME NEW f, NEW fs, NEW c, NEW o, NEW gs, Push(f, fs, c, o, gs)
  PROVE  Lists(f, gs) /\ In(gs) = In(fs) \cup {o}
<1> USE DEF Push
<1>1. PICK n : n = Len(fs[c])
  OBVIOUS
<1>2. PICK s : s = Append(fs[c], o)
  OBVIOUS
<1>3. /\ s \in Seq(Offsets) /\ n \in Nat /\ Len(s) = n + 1
      /\ \A i \in 1..n : s[i] = fs[c][i]
      /\ s[n + 1] = o
  BY <1>1, <1>2, AppendProperties, LenProperties
<1>5. gs[c] = s /\ \A d \in Chunks : d # c => gs[d] = fs[d]
  BY <1>2
<1>6. \A d \in Chunks : \A i \in 1..Len(gs[d]) :
        \/ i \in 1..Len(fs[d]) /\ gs[d][i] = fs[d][i]
        \/ d = c /\ i = n + 1 /\ gs[d][i] = o
  BY <1>1, <1>3, <1>5
<1>7. ASSUME NEW d \in Chunks, NEW i \in 1..Len(fs[d])
      PROVE  i \in 1..Len(gs[d]) /\ gs[d][i] = fs[d][i]
  <2>1. CASE d = c
    <3>1. i \in 1..n /\ Len(gs[d]) = n + 1 /\ gs[d] = s
      BY <1>1, <1>3, <1>5, <2>1
    <3>2. i \in 1..n + 1
      BY <1>3, <3>1
    <3>3. QED
      BY <1>3, <2>1, <3>1, <3>2
  <2>2. CASE d # c
    BY <1>5, <2>2
  <2>3. QED
    BY <2>1, <2>2
<1>8. \A d \in Chunks : \A i \in 1..Len(fs[d]) : fs[d][i] # o
  BY DEF In
<1>9. Lists(f, gs)
  <2>1. ASSUME NEW d \in Chunks, NEW e \in Chunks, NEW i \in 1..Len(gs[d]), NEW j \in 1..Len(gs[e]),
               gs[d][i] = gs[e][j]
        PROVE  d = e /\ i = j
    <3>1. \/ i \in 1..Len(fs[d]) /\ gs[d][i] = fs[d][i]
          \/ d = c /\ i = n + 1 /\ gs[d][i] = o
      BY <1>6
    <3>2. \/ j \in 1..Len(fs[e]) /\ gs[e][j] = fs[e][j]
          \/ e = c /\ j = n + 1 /\ gs[e][j] = o
      BY <1>6
    <3>3. QED
      BY <1>8, <2>1, <3>1, <3>2 DEF Lists
  <2>2. ASSUME NEW d \in Chunks, NEW i \in 1..Len(gs[d])
        PROVE  f[gs[d][i]].chunk = d
    BY <1>6 DEF Lists
  <2>3. QED
    BY <2>1, <2>2 DEF Lists
<1>10. In(gs) = In(fs) \cup {o}
  <2>1. In(gs) \subseteq In(fs) \cup {o}
    <3> SUFFICES ASSUME NEW x \in In(gs)
                 PROVE  x \in In(fs) \cup {o}
      OBVIOUS
    <3>1. PICK d \in Chunks : \E i \in 1..Len(gs[d]) : x = gs[d][i]
      BY DEF In
    <3>2. PICK i \in 1..Len(gs[d]) : x = gs[d][i]
      BY <3>1
    <3>3. x = o \/ (i \in 1..Len(fs[d]) /\ x = fs[d][i])
      BY <1>6, <3>2
    <3>4. QED
      BY <3>3 DEF In
  <2>2. In(fs) \subseteq In(gs)
    BY <1>7 DEF In
  <2>3. o \in In(gs)
    <3>1. n + 1 \in 1..Len(gs[c]) /\ gs[c][n + 1] = o
      BY <1>3, <1>5
    <3>2. QED
      BY <3>1 DEF In
  <2>4. QED
    BY <2>1, <2>2, <2>3
<1>11. QED
  BY <1>9, <1>10

(* Popping the top of a list takes just that item away.                    *)
LEMMA Popped ==
  ASSUME NEW f, NEW fs, NEW c, NEW o, NEW gs, Pop(f, fs, c, o, gs)
  PROVE  Lists(f, gs) /\ o \in In(fs) /\ In(gs) = In(fs) \ {o}
<1> USE DEF Pop
<1>1. PICK n : n = Len(fs[c]) - 1
  OBVIOUS
<1>2. PICK s : s = SubSeq(fs[c], 1, n)
  OBVIOUS
<1>3. /\ n \in Nat /\ Len(fs[c]) = n + 1 /\ Len(fs[c]) \in 1..Len(fs[c])
      /\ \A i \in 1..n : fs[c][i] \in Offsets
  <2>1. Len(fs[c]) \in Nat /\ \A i \in 1..Len(fs[c]) : fs[c][i] \in Offsets
    BY LenProperties, ElementOfSeq
  <2>2. QED
    BY <1>1, <2>1
<1>4. /\ s \in Seq(Offsets) /\ Len(s) = n
      /\ \A i \in 1..n : s[i] = fs[c][i]
  <2>1. /\ s \in Seq(Offsets) /\ Len(s) = IF 1 <= n THEN n - 1 + 1 ELSE 0
        /\ \A i \in 1..n - 1 + 1 : s[i] = fs[c][1 + i - 1]
    BY <1>2, <1>3, SubSeqProperties
  <2>2. QED
    BY <1>3, <2>1
<1>6. gs[c] = s /\ \A d \in Chunks : d # c => gs[d] = fs[d]
  BY <1>1, <1>2
<1>7. o = fs[c][n + 1]
  BY <1>3
<1>8. \A d \in Chunks : \A i \in 1..Len(gs[d]) :
        i \in 1..Len(fs[d]) /\ gs[d][i] = fs[d][i] /\ ~(d = c /\ i = n + 1)
  BY <1>3, <1>4, <1>6
<1>9. \A d \in Chunks : \A i \in 1..Len(fs[d]) :
        (d = c /\ i = n + 1) \/ (i \in 1..Len(gs[d]) /\ gs[d][i] = fs[d][i])
  BY <1>3, <1>4, <1>6
<1>10. Lists(f, gs)
  <2>1. ASSUME NEW d \in Chunks, NEW e \in Chunks, NEW i \in 1..Len(gs[d]), NEW j \in 1..Len(gs[e]),
               gs[d][i] = gs[e][j]
        PROVE  d = e /\ i = j
    BY <1>8, <2>1 DEF Lists
  <2>2. ASSUME NEW d \in Chunks, NEW i \in 1..Len(gs[d])
        PROVE  f[gs[d][i]].chunk = d
    BY <1>8 DEF Lists
  <2>3. QED
    BY <2>1, <2>2 DEF Lists
<1>11. o \in In(fs) /\ In(gs) = In(fs) \ {o}
  <2>1. o \in In(fs)
    BY <1>3, <1>7 DEF In
  <2>2. \A d \in Chunks : \A i \in 1..Len(gs[d]) : gs[d][i] # o
    <3>1. n + 1 \in 1..Len(fs[c]) /\ fs[c][n + 1] = o
      BY <1>3, <1>7
    <3>2. ASSUME NEW d \in Chunks, NEW i \in 1..Len(gs[d]), gs[d][i] = o
          PROVE  FALSE
      <4>1. i \in 1..Len(fs[d]) /\ fs[d][i] = fs[c][n + 1] /\ ~(d = c /\ i = n + 1)
        BY <1>8, <3>1, <3>2
      <4>2. QED
        BY <3>1, <4>1 DEF Lists
    <3>3. QED
      BY <3>2
  <2>3. In(gs) \subseteq In(fs) \ {o}
    <3> SUFFICES ASSUME NEW x \in In(gs)
                 PROVE  x \in In(fs) \ {o}
      OBVIOUS
    <3>1. PICK d \in Chunks : \E i \in 1..Len(gs[d]) : x = gs[d][i]
      BY DEF In
    <3>2. PICK i \in 1..Len(gs[d]) : x = gs[d][i]
      BY <3>1
    <3>3. i \in 1..Len(fs[d]) /\ x = fs[d][i] /\ x # o
      BY <1>8, <2>2, <3>2
    <3>4. QED
      BY <3>3 DEF In
  <2>4. In(fs) \ {o} \subseteq In(gs)
    BY <1>7, <1>9 DEF In
  <2>5. QED
    BY <2>1, <2>3, <2>4
<1>12. QED
  BY <1>10, <1>11

(* RecycleKV_Data of an item in no list: it is in the list of its chunk id *)
(* afterwards, or, when that list is full, in none.                        *)
LEMMA Recycled ==
  ASSUME Typed, NEW fs \in [Chunks -> Seq(Offsets)], Lists(file, fs), NEW o \in Offsets,
         o \notin In(fs), NEW gs, gs = RecycleKV_Data(fs, o)
  PROVE  /\ gs \in [Chunks -> Seq(Offsets)]
         /\ Lists(file, gs)
         /\ In(fs) \subseteq In(gs) /\ In(gs) \subseteq In(fs) \cup {o}
         /\ (\A c \in Chunks : Len(fs[c]) < MaxFree) => In(gs) = In(fs) \cup {o}
<1>1. PICK c \in Chunks : c = file[o].chunk
  BY DEF Typed, IsItem
<1>2. gs = IF Len(fs[c]) < MaxFree THEN [fs EXCEPT ![c] = Append(@, o)] ELSE fs
  BY <1>1 DEF RecycleKV_Data
<1>3. CASE Len(fs[c]) < MaxFree
  <2>1. Append(fs[c], o) \in Seq(Offsets)
    BY AppendProperties
  <2>2. gs = [fs EXCEPT ![c] = Append(fs[c], o)]
    BY <1>2, <1>3
  <2>3. /\ gs \in [Chunks -> Seq(Offsets)] /\ gs[c] = Append(fs[c], o)
        /\ \A d \in Chunks : d # c => gs[d] = fs[d]
    BY <2>1, <2>2
  <2>4. Lists(file, gs) /\ In(gs) = In(fs) \cup {o}
    <3>1. Push(file, fs, c, o, gs)
      BY <1>1, <2>3 DEF Push
    <3>2. QED
      BY <3>1, Pushed
  <2>5. QED
    BY <2>3, <2>4
<1>4. CASE ~(Len(fs[c]) < MaxFree)
  <2>1. gs = fs
    BY <1>2, <1>4
  <2>2. QED
    BY <1>4, <2>1
<1>5. QED
  BY <1>3, <1>4

(* The lists hold the same items when no item of theirs changes its chunk. *)
LEMMA SameLists ==
  ASSUME NEW f, NEW g, NEW fs, Lists(f, fs), \A o \in In(fs) : g[o].chunk = f[o].chunk
  PROVE  Lists(g, fs)
<1>1. \A c \in Chunks : \A n \in 1..Len(fs[c]) : fs[c][n] \in In(fs)
  BY DEF In
<1>2. QED
  BY <1>1 DEF Lists

(* From g to h the index is made to point at o, where key k is concerned. *)
Point(g, k, o, h) ==
  /\ g \in [AllKeys -> Offsets \cup {Nothing}] /\ Once(g)
  /\ k \in AllKeys /\ o \in Offsets /\ o \notin Points(g)
  /\ h = [g EXCEPT ![k] = o]

(* One entry of the index changes.                                         *)
LEMMA Pointed ==
  ASSUME NEW g, NEW k, NEW o, NEW h, Point(g, k, o, h)
  PROVE  /\ h \in [AllKeys -> Offsets \cup {Nothing}]
         /\ Once(h)
         /\ Points(h) = (Points(g) \ {g[k]}) \cup {o}
<1> USE DEF Point
<1>1. /\ h \in [AllKeys -> Offsets \cup {Nothing}]
      /\ h[k] = o /\ \A l \in AllKeys : l # k => h[l] = g[l]
  OBVIOUS
<1>2. o # Nothing
  BY ShardAssumption, Sizes
<1>3. \A l \in AllKeys : g[l] # o
  BY <1>2 DEF Points
<1>4. Once(h)
  BY <1>1, <1>3 DEF Once
<1>5. Points(h) \subseteq (Points(g) \ {g[k]}) \cup {o}
  BY <1>1 DEF Points, Once
<1>6. (Points(g) \ {g[k]}) \cup {o} \subseteq Points(h)
  <2>1. o \in Points(h)
    BY <1>1, <1>2 DEF Points
  <2>2. ASSUME NEW q \in Points(g), q # g[k]
        PROVE  q \in Points(h)
    <3>1. PICK l \in AllKeys : q = g[l] /\ q # Nothing
      BY DEF Points
    <3>2. q = h[l]
      BY <1>1, <2>2, <3>1
    <3>3. QED
      BY <3>1, <3>2 DEF Points
  <2>3. QED
    BY <2>1, <2>2
<1>7. QED
  BY <1>1, <1>4, <1>5, <1>6

(* The end of a Set, and recovery when it meets a record: the index points *)
(* at o, and the item that it pointed at before is recycled.               *)
Move(k, o) ==
  /\ k \in AllKeys /\ o \in Offsets /\ o \notin Held(index, free_space)
  /\ index' = [index EXCEPT ![k] = o]
  /\ free_space' = IF index[k] = Nothing THEN free_space
                   ELSE RecycleKV_Data(free_space, index[k])

(* A move adds the new item to those held and, unless a full list drops    *)
(* the old one, loses none.                                                *)
LEMMA Moved ==
  ASSUME Typed, Owns(file, index, free_space), NEW k, NEW o, Move(k, o)
  PROVE  /\ index' \in [AllKeys -> Offsets \cup {Nothing}]
         /\ free_space' \in [Chunks -> Seq(Offsets)]
         /\ Owns(file, index', free_space')
         /\ Held(index', free_space') \subseteq Held(index, free_space) \cup {o}
         /\ RoomInLists => Held(index', free_space') = Held(index, free_space) \cup {o}
<1>0. /\ index \in [AllKeys -> Offsets \cup {Nothing}] /\ free_space \in [Chunks -> Seq(Offsets)]
      /\ Once(index) /\ Lists(file, free_space) /\ Points(index) \cap In(free_space) = {}
      /\ k \in AllKeys /\ o \in Offsets /\ o \notin Points(index) /\ o \notin In(free_space)
  BY DEF Typed, Owns, Held, Move
<1>1. /\ index' \in [AllKeys -> Offsets \cup {Nothing}]
      /\ Once(index')
      /\ Points(index') = (Points(index) \ {index[k]}) \cup {o}
  <2>1. Point(index, k, o, index')
    BY <1>0 DEF Point, Move
  <2>2. QED
    BY <2>1, Pointed
<1>2. CASE index[k] = Nothing
  <2>1. free_space' = free_space
    BY <1>2 DEF Move
  <2>2. Nothing \notin Points(index)
    BY DEF Points
  <2>3. Points(index') = Points(index) \cup {o}
    BY <1>1, <1>2, <2>2
  <2>4. QED
    BY <1>0, <1>1, <2>1, <2>3 DEF Owns, Held
<1>3. CASE index[k] # Nothing
  <2>1. index[k] \in Points(index) /\ index[k] \in Offsets
    BY <1>0, <1>3 DEF Points
  <2>2. index[k] \notin In(free_space)
    BY <1>0, <2>1
  <2>3. free_space' = RecycleKV_Data(free_space, index[k])
    BY <1>3 DEF Move
  <2>4. /\ free_space' \in [Chunks -> Seq(Offsets)]
        /\ Lists(file, free_space')
        /\ In(free_space) \subseteq In(free_space')
        /\ In(free_space') \subseteq In(free_space) \cup {index[k]}
        /\ RoomInLists => In(free_space') = In(free_space) \cup {index[k]}
    BY <1>0, <2>1, <2>2, <2>3, Recycled DEF RoomInLists
  <2>5. Points(index') \cap In(free_space') = {}
    BY <1>0, <1>1, <2>1, <2>4
  <2>6. QED
    BY <1>1, <2>1, <2>4, <2>5 DEF Owns, Held
<1>4. QED
  BY <1>2, <1>3

------------------------------------------------------------------------------
(* The steps                                                               *)

(* The Sets that can be in progress are calls, and none is Nothing.        *)
LEMMA OpsAreCalls ==
  Ops \subseteq Calls /\ Nothing \notin Ops
<1>1. Ops \subseteq Calls
  BY Todo0 DEF Ops, Calls
<1>2. QED
  BY <1>1, NothingAssumption

(* The Store of a Set: the item, the part and the record.                  *)
Storing(o, p, r, i, j) ==
  /\ o = op.off /\ p = Head(op.todo)
  /\ r = Record(op.key, op.val, op.cnt, Fit(op.val))
  /\ i = file[o] /\ j = file'[o]

(* What a Store does: it changes one part of one item.                     *)
LEMMA Stored ==
  ASSUME ShardInv, Store,
         NEW o, NEW p, NEW r, NEW i, NEW j, Storing(o, p, r, i, j)
  PROVE  /\ o \in Offsets /\ p \in Left(op.todo) /\ p \in Parts /\ op \in Ops /\ op.todo # << >>
         /\ IsItem(r) /\ IsItem(i) /\ IsItem(j)
         /\ r.head = op.cnt /\ r.tail = op.cnt /\ op.cnt \in 1..MaxCnt
         /\ r.vsize = SizeOf[op.val] /\ r.vsize # 0 /\ r.chunk = Fit(op.val)
         /\ \A q \in Parts : j[q] = IF q = p THEN r[q] ELSE i[q]
         /\ file' = [q \in Offsets |-> file'[q]]
         /\ \A q \in Offsets : q # o => file'[q] = file[q]
         /\ op' \in Ops /\ op'.key = op.key /\ op'.val = op.val /\ op'.off = op.off
         /\ op'.old = op.old /\ op'.cnt = op.cnt /\ op'.todo = Tail(op.todo)
         /\ Left(op'.todo) = Left(op.todo) \ {p}
<1>1. pc = "store" /\ op.todo # << >>
  BY DEF Store
<1>2. op \in Ops /\ o \in Offsets /\ i = file[o] /\ IsItem(i) /\ j = file'[o]
  <2>1. op # Nothing /\ op \in Ops
    BY <1>1 DEF ShardInv, Typed, WriteInv
  <2>2. op.off \in Offsets
    BY <2>1 DEF Ops
  <2>3. QED
    BY <2>1, <2>2 DEF Storing, ShardInv, Typed
<1>3. /\ op.key \in Keys /\ op.val \in Values /\ op.cnt \in 1..MaxCnt /\ op.todo \in Todos
  BY <1>2 DEF Ops
<1>4. p \in Left(op.todo) /\ p \in Parts /\ Tail(op.todo) \in Todos
      /\ Left(Tail(op.todo)) = Left(op.todo) \ {p}
  BY <1>1, <1>3, TodoStep DEF Storing
<1>5. Fit(op.val) \in Chunks /\ SizeOf[op.val] # 0
  BY <1>3, FitIsChunk
<1>6. IsItem(r) /\ r.head = op.cnt /\ r.tail = op.cnt /\ r.vsize = SizeOf[op.val]
      /\ r.chunk = Fit(op.val)
  BY <1>3, <1>5, RecordParts DEF Storing
<1>7. file' = [file EXCEPT ![o][p] = r[p]]
  BY DEF Store, Storing, Fit
<1>8. file = [q \in Offsets |-> file[q]]
  BY DEF ShardInv, Typed
<1>9. /\ file' = [q \in Offsets |-> file'[q]]
      /\ \A q \in Offsets : q # o => file'[q] = file[q]
      /\ j = [i EXCEPT ![p] = r[p]]
  BY <1>2, <1>7, <1>8
<1>10. /\ j = [q \in Parts |-> j[q]]
       /\ \A q \in Parts : j[q] = IF q = p THEN r[q] ELSE i[q]
  BY <1>2, <1>4, <1>9 DEF IsItem
<1>11. IsItem(j)
  BY <1>2, <1>6, <1>10 DEF IsItem, Parts
<1>12. op' = [op EXCEPT !.todo = Tail(@)]
  BY DEF Store
<1>13. op' \in Ops /\ op'.key = op.key /\ op'.val = op.val /\ op'.off = op.off
       /\ op'.old = op.old /\ op'.cnt = op.cnt /\ op'.todo = Tail(op.todo)
  BY <1>2, <1>4, <1>12 DEF Ops
<1>14. QED
  BY <1>1, <1>2, <1>3, <1>4, <1>5, <1>6, <1>9, <1>10, <1>11, <1>13

(* Store: the item written stays apart from the others, and its chunk id,  *)
(* once stored, never changes.                                             *)
LEMMA StoreStep ==
  ASSUME ShardInv, Store
  PROVE  ShardInv'
<1>1. PICK o, p, r, i, j : Storing(o, p, r, i, j)
  BY DEF Storing
<1>2. /\ o \in Offsets /\ p \in Left(op.todo) /\ p \in Parts /\ op \in Ops /\ op.todo # << >>
      /\ IsItem(r) /\ IsItem(i) /\ IsItem(j)
      /\ r.head = op.cnt /\ r.tail = op.cnt /\ op.cnt \in 1..MaxCnt
      /\ r.vsize = SizeOf[op.val] /\ r.vsize # 0 /\ r.chunk = Fit(op.val)
      /\ \A q \in Parts : j[q] = IF q = p THEN r[q] ELSE i[q]
      /\ file' = [q \in Offsets |-> file'[q]]
      /\ \A q \in Offsets : q # o => file'[q] = file[q]
      /\ op' \in Ops /\ op'.key = op.key /\ op'.val = op.val /\ op'.off = op.off
      /\ op'.old = op.old /\ op'.cnt = op.cnt /\ op'.todo = Tail(op.todo)
      /\ Left(op'.todo) = Left(op.todo) \ {p}
  BY <1>1, Stored
<1>3. /\ o = op.off /\ p = Head(op.todo) /\ i = file[o] /\ j = file'[o]
      /\ r = Record(op.key, op.val, op.cnt, Fit(op.val))
  BY <1>1 DEF Storing
<1>4. /\ UNCHANGED <<write_log, index, free_space, file_end_offset, key_set_cnts_f>>
      /\ UNCHANGED <<pc, pos, max_set_cnt, reply>> /\ pc = "store"
  BY DEF Store, dram, loop
<1>5. op.todo \in Todos /\ op # Nothing /\ op' # Nothing
  BY <1>2, <1>4, OpsAreCalls DEF Ops
<1>6. /\ "head" \notin Left(op.todo) => i.head = op.cnt
      /\ "vsize" \notin Left(op.todo) => i.vsize = r.vsize
  BY <1>2, <1>3, <1>5 DEF ShardInv, WriteInv, Parts
<1>7. Exists(i) => Exists(j)
  <2>1. r.tail \in Nat /\ r.head # 0 /\ i.head \in Nat
    BY <1>2, ShardAssumption DEF IsItem
  <2>2. /\ j.head = IF "head" = p THEN r.head ELSE i.head
        /\ j.tail = IF "tail" = p THEN r.tail ELSE i.tail
        /\ j.vsize = IF "vsize" = p THEN r.vsize ELSE i.vsize
    BY <1>2 DEF Parts
  <2>3. r.tail = r.head /\ r.vsize # 0
    BY <1>2
  <2>4. QED
    BY <2>1, <2>2, <2>3 DEF Exists, ReadKV_KVs, TornCnt
<1>8. (Fresh <=> Fresh') /\ Fresh' = Fresh
  BY <1>4 DEF Fresh
<1>9. j.chunk = IF p = "chunk" THEN Fit(op.val) ELSE i.chunk
  BY <1>2 DEF Parts
<1>10. Typed'
  BY <1>2, <1>3, <1>4 DEF ShardInv, Typed
<1>11. ~Fresh => j.chunk = i.chunk /\ Exists(i)
  BY <1>2, <1>3, <1>4, <1>9 DEF ShardInv, WriteInv
<1>12. Items' \ {o} = Items \ {o} /\ (~Fresh => Items' = Items)
  BY <1>2, <1>3, <1>7, <1>11 DEF Items
<1>13. LayoutInv'
  <2>1. ~Exists(j) => j.chunk = 0
    <3> SUFFICES ASSUME ~Exists(j)
                 PROVE  j.chunk = 0
      OBVIOUS
    <3>1. ~Exists(i) /\ i.chunk = 0
      BY <1>2, <1>3, <1>7 DEF ShardInv, LayoutInv
    <3>2. i.vsize = 0 \/ i.head = 0
      BY <1>2, <3>1 DEF Exists, ReadKV_KVs, TornCnt, IsItem
    <3>3. p = "chunk" => "vsize" \notin Left(op.todo) /\ "head" \notin Left(op.todo)
      BY <1>2, <1>3, <1>5, TodoStep
    <3>4. p # "chunk"
      BY <1>2, <1>6, <3>2, <3>3
    <3>5. QED
      BY <1>9, <3>1, <3>4
  <2>2. \A q \in Offsets : ~Exists(file'[q]) => file'[q].chunk = 0
    BY <1>2, <1>3, <2>1 DEF ShardInv, LayoutInv
  <2>3. CASE Fresh
    <3>1. Tiled(file, Items \ {o}, o)
      BY <1>3, <1>4, <2>3 DEF ShardInv, LayoutInv
    <3>2. \A q \in Items \ {o} : file'[q].chunk = file[q].chunk
      BY <1>2 DEF Items
    <3>3. Tiled(file', Items \ {o}, o)
      BY <3>1, <3>2, SameTiles
    <3>4. QED
      BY <1>2, <1>3, <1>4, <1>8, <1>12, <2>2, <2>3, <3>3 DEF LayoutInv
  <2>4. CASE ~Fresh
    <3>1. Tiled(file, Items, file_end_offset)
      BY <1>4, <2>4 DEF ShardInv, LayoutInv
    <3>2. \A q \in Items : file'[q].chunk = file[q].chunk
      BY <1>2, <1>3, <1>11, <2>4 DEF Items
    <3>3. Tiled(file', Items, file_end_offset)
      BY <3>1, <3>2, SameTiles
    <3>4. QED
      BY <1>4, <1>8, <1>12, <2>2, <2>4, <3>3 DEF LayoutInv
  <2>5. QED
    BY <2>3, <2>4
<1>14. WriteInv'
  <2>1. \A q \in Left(op'.todo) : file'[op'.off][q] = write_log'[q]
    <3>1. Left(op.todo) \subseteq Parts
      BY <1>2, <1>5, TodoStep
    <3>2. ASSUME NEW q \in Left(op'.todo)
          PROVE  file'[op'.off][q] = write_log'[q]
      <4>1. q \in Left(op.todo) /\ q # p /\ q \in Parts
        BY <1>2, <3>1, <3>2
      <4>2. file[op.off][q] = write_log[q]
        BY <1>4, <4>1 DEF ShardInv, WriteInv
      <4>3. QED
        BY <1>2, <1>3, <1>4, <4>1, <4>2
    <3>3. QED
      BY <3>2
  <2>2. Fresh' => /\ op'.off + calSizeFromIdx(Fit(op'.val)) = file_end_offset'
                  /\ file'[op'.off].chunk = IF "chunk" \in Left(op'.todo) THEN 0 ELSE Fit(op'.val)
    <3> SUFFICES ASSUME Fresh
                 PROVE  /\ op'.off + calSizeFromIdx(Fit(op'.val)) = file_end_offset'
                        /\ j.chunk = IF "chunk" \in Left(op'.todo) THEN 0 ELSE Fit(op'.val)
      BY <1>2, <1>3, <1>8
    <3>1. /\ op.off + calSizeFromIdx(Fit(op.val)) = file_end_offset
          /\ i.chunk = IF "chunk" \in Left(op.todo) THEN 0 ELSE Fit(op.val)
      BY <1>3, <1>4 DEF ShardInv, WriteInv
    <3>2. QED
      BY <1>2, <1>4, <1>9, <3>1
  <2>3. ~Fresh' => /\ "chunk" \notin Left(op'.todo)
                   /\ file'[op'.off].chunk = write_log'.chunk
                   /\ Exists(file'[op'.off])
    <3> SUFFICES ASSUME ~Fresh
                 PROVE  /\ "chunk" \notin Left(op'.todo)
                        /\ j.chunk = write_log.chunk /\ Exists(j)
      BY <1>2, <1>3, <1>4, <1>8
    <3>1. "chunk" \notin Left(op.todo) /\ i.chunk = write_log.chunk
      BY <1>3, <1>4 DEF ShardInv, WriteInv
    <3>2. QED
      BY <1>2, <1>7, <1>11, <3>1
  <2>4. \A q \in Parts \ ({"chunk"} \cup Left(op'.todo)) :
          file'[op'.off][q] = Record(op'.key, op'.val, op'.cnt, Fit(op'.val))[q]
    <3> SUFFICES ASSUME NEW q \in Parts \ ({"chunk"} \cup Left(op'.todo))
                 PROVE  j[q] = r[q]
      BY <1>2, <1>3
    <3>1. CASE q = p
      BY <1>2, <3>1
    <3>2. CASE q # p
      <4>1. q \in Parts \ ({"chunk"} \cup Left(op.todo))
        BY <1>2, <3>2
      <4>2. i[q] = r[q]
        BY <1>3, <1>5, <4>1 DEF ShardInv, WriteInv
      <4>3. QED
        BY <1>2, <3>2, <4>2
    <3>3. QED
      BY <3>1, <3>2
  <2>5. op'.old = index'[op'.key] /\ IsItem(write_log')
    BY <1>2, <1>4, <1>5 DEF ShardInv, WriteInv
  <2>6. QED
    BY <1>4, <1>5, <2>1, <2>2, <2>3, <2>4, <2>5 DEF WriteInv
<1>15. OwnInv'
  <2>1. Walked = Items \ {o} /\ Walked' = Items' \ {o}
    BY <1>2, <1>3, <1>4, <1>5 DEF Walked, Claimed
  <2>2. Held(index, free_space) \subseteq Items \ {o}
    BY <2>1 DEF ShardInv, OwnInv
  <2>3. \A q \in In(free_space) : file'[q].chunk = file[q].chunk
    BY <1>2, <2>2 DEF Held, Items
  <2>4. Lists(file', free_space)
    BY <2>3, SameLists DEF ShardInv, OwnInv, Owns
  <2>5. QED
    BY <1>4, <1>12, <2>1, <2>2, <2>4 DEF ShardInv, OwnInv, Owns
<1>16. QED
  BY <1>10, <1>13, <1>14, <1>15 DEF ShardInv

(* Store: all other items are still held.                                  *)
LEMMA StoreKeepsHeld ==
  ASSUME ShardInv, Store, AllHeld
  PROVE  AllHeld'
<1>1. PICK o, p, r, i, j : Storing(o, p, r, i, j)
  BY DEF Storing
<1>2. /\ o \in Offsets /\ \A q \in Offsets : q # o => file'[q] = file[q]
      /\ op \in Ops /\ op' \in Ops /\ op'.off = op.off
  BY <1>1, Stored
<1>3. o = op.off /\ op # Nothing /\ op' # Nothing
  BY <1>1, <1>2, OpsAreCalls DEF Storing
<1>4. UNCHANGED <<index, free_space, pc>> /\ pc = "store"
  BY DEF Store, dram
<1>5. Items' \ {o} = Items \ {o}
  BY <1>2 DEF Items
<1>6. Walked = Items \ {o} /\ Walked' = Items' \ {o}
  BY <1>2, <1>3, <1>4 DEF Walked, Claimed
<1>7. QED
  BY <1>4, <1>5, <1>6 DEF AllHeld

(* Who holds what while no call is in progress. *)
LEMMA Idle ==
  ASSUME ShardInv, pc = "idle"
  PROVE  /\ op = Nothing /\ ~Fresh /\ Tiled(file, Items, file_end_offset)
         /\ Walked = Items /\ Held(index, free_space) \subseteq Items
         /\ file_end_offset \notin Items
         /\ \A q \in Offsets : file[q].chunk \in Chunks
<1>1. op = Nothing /\ ~Fresh /\ Tiled(file, Items, file_end_offset)
  BY DEF ShardInv, WriteInv, LayoutInv, Fresh
<1>2. Walked = Items
  BY <1>1 DEF Walked, Claimed
<1>3. \A q \in Offsets : file[q].chunk \in Chunks
  BY DEF ShardInv, Typed, IsItem
<1>4. file_end_offset \in Offsets /\ Items \subseteq Offsets
  BY DEF ShardInv, Typed, Items
<1>5. \A q \in Items : q < file_end_offset
  BY <1>1, <1>3, <1>4, NoneAtEnd
<1>6. file_end_offset \notin Items
  BY <1>4, <1>5, Sizes
<1>7. QED
  BY <1>1, <1>2, <1>3, <1>6 DEF ShardInv, OwnInv

(* The Set of k and v begins: it takes the item at o, a fresh one or one   *)
(* from the free lists.                                                    *)
Taking(k, v, o, fresh) ==
  /\ k \in Keys /\ v \in Values /\ o \in Offsets /\ fresh \in BOOLEAN
  /\ IF fresh THEN NewItem(Fit(v), o) ELSE ReuseItem(Fit(v), o)
  /\ op' = [key |-> k, val |-> v, off |-> o, old |-> index[k], cnt |-> key_set_cnts_f + 1,
            todo |-> IF fresh THEN CreateKV_Data ELSE SetKV_Data]
  /\ write_log' = file[o]

(* The item a Set takes is nobody else's from then on.                     *)
LEMMA Taken ==
  ASSUME ShardInv, NEW k, NEW v, NEW o, NEW fresh, Taking(k, v, o, fresh),
         pc = "idle", pc' = "store", key_set_cnts_f < MaxCnt,
         key_set_cnts_f' = key_set_cnts_f + 1,
         UNCHANGED <<file, index, pos, max_set_cnt>>
  PROVE  ShardInv' /\ (AllHeld => AllHeld')
<1>1. /\ op = Nothing /\ ~Fresh /\ Tiled(file, Items, file_end_offset)
      /\ Walked = Items /\ Held(index, free_space) \subseteq Items
      /\ file_end_offset \notin Items
  BY Idle
<1>2. /\ k \in Keys /\ k \in AllKeys /\ v \in Values /\ o \in Offsets /\ fresh \in BOOLEAN
      /\ write_log' = file[o]
  BY KeysAreAllKeys DEF Taking
<1>3. key_set_cnts_f' \in 0..MaxCnt /\ key_set_cnts_f + 1 \in 1..MaxCnt
  BY ShardAssumption DEF ShardInv, Typed
<1>4. /\ op' \in Ops /\ op' # Nothing
      /\ op'.key = k /\ op'.val = v /\ op'.off = o /\ op'.old = index[k]
      /\ op'.cnt = key_set_cnts_f + 1
      /\ op'.todo = IF fresh THEN CreateKV_Data ELSE SetKV_Data
  <2>1. index[k] \in Offsets \cup {Nothing}
    BY <1>2 DEF ShardInv, Typed
  <2>2. op' = [key |-> k, val |-> v, off |-> o, old |-> index[k], cnt |-> key_set_cnts_f + 1,
               todo |-> IF fresh THEN CreateKV_Data ELSE SetKV_Data]
    BY DEF Taking
  <2>3. op' \in Ops
    BY <1>2, <1>3, <2>1, <2>2, Todo0 DEF Ops
  <2>4. QED
    BY <2>2, <2>3, OpsAreCalls
<1>5. Items' = Items /\ Walked' = Items \ {o}
  BY <1>4 DEF Items, Walked, Claimed
<1>6. IsItem(write_log')
  BY <1>2 DEF ShardInv, Typed
<1>7. \A q \in Offsets : ~Exists(file'[q]) => file'[q].chunk = 0
  BY DEF ShardInv, LayoutInv
<1>8. CASE fresh
  <2>1. /\ o = file_end_offset /\ file_end_offset' = o + calSizeFromIdx(Fit(v))
        /\ file_end_offset' <= FileSize /\ free_space' = free_space
    BY <1>8 DEF Taking, NewItem
  <2>2. file_end_offset' \in Offsets
    BY <1>2, <2>1, Sizes, FitIsChunk
  <2>3. ~Exists(file[o]) /\ Fresh' /\ file[o].chunk = 0
    BY <1>1, <1>2, <1>7, <2>1 DEF Items, Fresh
  <2>4. Left(op'.todo) = Parts
    BY <1>4, <1>8, Todo0
  <2>5. Typed'
    BY <1>3, <1>4, <2>1, <2>2 DEF ShardInv, Typed
  <2>6. LayoutInv'
    <3>1. Items' \ {op'.off} = Items
      BY <1>1, <1>4, <1>5, <2>1
    <3>2. Tiled(file', Items' \ {op'.off}, op'.off)
      BY <1>1, <1>4, <2>1, <3>1
    <3>3. QED
      BY <1>7, <2>3, <3>2 DEF LayoutInv
  <2>7. WriteInv'
    <3>1. \A p \in Left(op'.todo) : file'[op'.off][p] = write_log'[p]
      BY <1>2, <1>4
    <3>2. /\ op'.off + calSizeFromIdx(Fit(op'.val)) = file_end_offset'
          /\ file'[op'.off].chunk = IF "chunk" \in Left(op'.todo) THEN 0 ELSE Fit(op'.val)
      BY <1>4, <2>1, <2>3, <2>4 DEF Parts
    <3>3. Parts \ ({"chunk"} \cup Left(op'.todo)) = {}
      BY <2>4
    <3>4. QED
      BY <1>4, <1>6, <2>3, <3>1, <3>2, <3>3 DEF WriteInv
  <2>8. OwnInv' /\ (AllHeld => AllHeld')
    BY <1>1, <1>5, <2>1 DEF ShardInv, OwnInv, Owns, AllHeld
  <2>9. QED
    BY <2>5, <2>6, <2>7, <2>8 DEF ShardInv
<1>9. CASE ~fresh
  <2>1. PICK c : /\ c \in Spare(Fit(v)) /\ o = free_space[c][Len(free_space[c])]
                 /\ free_space' = [free_space EXCEPT ![c] = SubSeq(@, 1, Len(@) - 1)]
                 /\ UNCHANGED file_end_offset
    BY <1>9 DEF Taking, ReuseItem
  <2>2. c \in Chunks /\ Len(free_space[c]) > 0
    <3>1. c \in Chunks /\ Len(free_space[c]) > Reserve /\ free_space[c] \in Seq(Offsets)
      BY <2>1 DEF Spare, ShardInv, Typed
    <3>2. Len(free_space[c]) \in Nat
      BY <3>1, LenProperties
    <3>3. QED
      BY <3>1, <3>2, ShardAssumption
  <2>3. /\ free_space' \in [Chunks -> Seq(Offsets)]
        /\ free_space'[c] = SubSeq(free_space[c], 1, Len(free_space[c]) - 1)
        /\ \A d \in Chunks : d # c => free_space'[d] = free_space[d]
    <3>1. free_space \in [Chunks -> Seq(Offsets)]
      BY DEF ShardInv, Typed
    <3>2. SubSeq(free_space[c], 1, Len(free_space[c]) - 1) \in Seq(Offsets)
      <4>1. Len(free_space[c]) \in Nat /\ \A n \in 1..Len(free_space[c]) : free_space[c][n] \in Offsets
        BY <2>2, <3>1, LenProperties, ElementOfSeq
      <4>2. \A n \in 1..Len(free_space[c]) - 1 : free_space[c][n] \in Offsets
        BY <4>1
      <4>3. QED
        BY <4>1, <4>2, SubSeqProperties
    <3>3. QED
      BY <2>1, <2>2, <3>1, <3>2
  <2>4. Pop(file, free_space, c, o, free_space')
    BY <2>1, <2>2, <2>3 DEF Pop, ShardInv, Typed, OwnInv, Owns
  <2>5. Lists(file, free_space') /\ o \in In(free_space) /\ In(free_space') = In(free_space) \ {o}
    BY <2>4, Popped
  <2>6. o \in Items /\ Exists(file[o]) /\ ~Fresh'
    BY <1>1, <1>2, <2>5 DEF Held, Items, Fresh
  <2>7. Left(op'.todo) = Parts \ {"chunk"}
    BY <1>4, <1>9, Todo0
  <2>8. Typed'
    BY <1>3, <1>4, <2>1, <2>3 DEF ShardInv, Typed
  <2>9. LayoutInv'
    BY <1>1, <1>5, <1>7, <2>1, <2>6 DEF LayoutInv
  <2>10. WriteInv'
    <3>1. \A p \in Left(op'.todo) : file'[op'.off][p] = write_log'[p]
      BY <1>2, <1>4
    <3>2. /\ "chunk" \notin Left(op'.todo) /\ file'[op'.off].chunk = write_log'.chunk
          /\ Exists(file'[op'.off])
      BY <1>2, <1>4, <2>6, <2>7
    <3>3. Parts \ ({"chunk"} \cup Left(op'.todo)) = {}
      BY <2>7
    <3>4. QED
      BY <1>4, <1>6, <2>6, <3>1, <3>2, <3>3 DEF WriteInv
  <2>11. OwnInv' /\ (AllHeld => AllHeld')
    <3>1. Points(index) \cap In(free_space) = {} /\ Once(index)
      BY DEF ShardInv, OwnInv, Owns
    <3>2. Owns(file', index', free_space')
      BY <2>5, <3>1 DEF Owns
    <3>3. Held(index', free_space') = Held(index, free_space) \ {o}
      BY <2>5, <3>1 DEF Held
    <3>4. QED
      BY <1>1, <1>5, <3>2, <3>3 DEF OwnInv, AllHeld
  <2>12. QED
    BY <2>8, <2>9, <2>10, <2>11 DEF ShardInv
<1>10. QED
  BY <1>8, <1>9

(* Set, up to its first store (AppendKV_Data, UpdateKV_Data).              *)
LEMMA SetStep ==
  ASSUME ShardInv, NEW k \in Keys, NEW v \in Values, Set(k, v)
  PROVE  ShardInv' /\ (AllHeld => AllHeld')
<1>1. PICK o \in Offsets, fresh \in BOOLEAN :
        /\ IF fresh THEN NewItem(calFreeSpaceIdx(SizeOf[v]), o)
                    ELSE ReuseItem(calFreeSpaceIdx(SizeOf[v]), o)
        /\ op' = [key |-> k, val |-> v, off |-> o, old |-> index[k], cnt |-> key_set_cnts_f',
                  todo |-> IF fresh THEN CreateKV_Data ELSE SetKV_Data]
        /\ write_log' = file[o]
  BY DEF Set
<1>2. /\ pc = "idle" /\ pc' = "store" /\ key_set_cnts_f < MaxCnt
      /\ key_set_cnts_f' = key_set_cnts_f + 1
      /\ UNCHANGED <<file, index, pos, max_set_cnt>>
  BY DEF Set, loop
<1>3. Taking(k, v, o, fresh)
  BY <1>1, <1>2 DEF Taking, Fit
<1>4. QED
  BY <1>2, <1>3, Taken

(* pmem_persist: a new item has become one more tile.                      *)
LEMMA PersistStep ==
  ASSUME ShardInv, Persist
  PROVE  ShardInv' /\ (AllHeld => AllHeld')
<1>1. /\ pc = "store" /\ op.todo = << >> /\ write_log' = Nothing /\ pc' = "return"
      /\ UNCHANGED <<file, index, free_space, file_end_offset, key_set_cnts_f>>
      /\ UNCHANGED <<op, pos, max_set_cnt, reply>>
  BY DEF Persist, dram, loop
<1>2. op # Nothing /\ op \in Ops
  BY <1>1 DEF ShardInv, Typed, WriteInv
<1>3. op.off \in Offsets /\ op.val \in Values /\ op.key \in Keys /\ op.cnt \in 1..MaxCnt
  BY <1>2 DEF Ops
<1>4. Left(op.todo) = {}
  BY <1>1, Todo0
<1>5. Exists(file[op.off])
  <2>1. file[op.off].head = op.cnt /\ file[op.off].vsize = SizeOf[op.val]
    BY <1>2, <1>3, <1>4 DEF ShardInv, WriteInv, Record, Parts
  <2>2. QED
    BY <1>3, <2>1, FitIsChunk, ShardAssumption DEF Exists, ReadKV_KVs, TornCnt
<1>6. Items' = Items /\ op.off \in Items /\ Walked' = Walked
  BY <1>1, <1>3, <1>5 DEF Items, Walked, Claimed
<1>7. Typed'
  BY <1>1 DEF ShardInv, Typed
<1>8. Tiled(file, Items, file_end_offset)
  <2>1. CASE Fresh
    <3>1. Tiled(file, Items \ {op.off}, op.off)
      BY <1>1, <2>1 DEF ShardInv, LayoutInv
    <3>2. op.off + Size(file, op.off) = file_end_offset
      BY <1>1, <1>4, <2>1 DEF ShardInv, WriteInv, Size
    <3>3. \A q \in Offsets : file[q].chunk \in Chunks
      BY DEF ShardInv, Typed, IsItem
    <3>4. Items \ {op.off} \in SUBSET Offsets /\ op.off \notin Items \ {op.off}
      BY DEF Items
    <3>5. Tiled(file, (Items \ {op.off}) \cup {op.off}, op.off + Size(file, op.off))
      BY <1>3, <3>1, <3>3, <3>4, Grow
    <3>6. (Items \ {op.off}) \cup {op.off} = Items
      BY <1>6
    <3>7. QED
      BY <3>2, <3>5, <3>6
  <2>2. CASE ~Fresh
    BY <1>1, <2>2 DEF ShardInv, LayoutInv
  <2>3. QED
    BY <2>1, <2>2
<1>9. ~Fresh'
  BY <1>1 DEF Fresh
<1>10. LayoutInv'
  BY <1>1, <1>6, <1>8, <1>9 DEF ShardInv, LayoutInv
<1>11. WriteInv'
  <2>1. /\ op.old = index[op.key]
        /\ \A p \in Parts \ ({"chunk"} \cup Left(op.todo)) :
             file[op.off][p] = Record(op.key, op.val, op.cnt, Fit(op.val))[p]
    BY <1>2 DEF ShardInv, WriteInv
  <2>2. QED
    BY <1>1, <1>2, <1>5, <2>1 DEF WriteInv
<1>12. OwnInv' /\ (AllHeld => AllHeld')
  BY <1>1, <1>6 DEF ShardInv, OwnInv, AllHeld
<1>13. QED
  BY <1>7, <1>10, <1>11, <1>12 DEF ShardInv

(* Return: the index takes the new item over, the old one is recycled.     *)
LEMMA ReturnStep ==
  ASSUME ShardInv, Return
  PROVE  ShardInv' /\ (AllHeld /\ RoomInLists => AllHeld')
<1>1. /\ pc = "return" /\ pc' = "idle" /\ op' = Nothing
      /\ free_space' = IF op.old = Nothing THEN free_space ELSE RecycleKV_Data(free_space, op.old)
      /\ index' = [index EXCEPT ![op.key] = op.off]
      /\ UNCHANGED <<file, write_log, file_end_offset, key_set_cnts_f, pos, max_set_cnt>>
  BY DEF Return, loop
<1>2. op # Nothing /\ op \in Ops /\ op.old = index[op.key] /\ Exists(file[op.off])
      /\ write_log = Nothing /\ ~Fresh
  BY <1>1 DEF ShardInv, Typed, WriteInv, Fresh
<1>3. op.off \in Items /\ op.off \in Offsets /\ op.key \in AllKeys
  BY <1>2, KeysAreAllKeys DEF Ops, Items
<1>4. Walked = Items \ {op.off} /\ Items' = Items /\ Walked' = Items
  BY <1>1, <1>2 DEF Walked, Claimed, Items
<1>5. op.off \notin Held(index, free_space) /\ Held(index, free_space) \subseteq Items \ {op.off}
  BY <1>4 DEF ShardInv, OwnInv
<1>6. Move(op.key, op.off)
  BY <1>1, <1>2, <1>3, <1>5 DEF Move
<1>7. /\ index' \in [AllKeys -> Offsets \cup {Nothing}]
      /\ free_space' \in [Chunks -> Seq(Offsets)]
      /\ Owns(file, index', free_space')
      /\ Held(index', free_space') \subseteq Held(index, free_space) \cup {op.off}
      /\ RoomInLists => Held(index', free_space') = Held(index, free_space) \cup {op.off}
  BY <1>6, Moved DEF ShardInv, OwnInv
<1>8. Typed'
  BY <1>1, <1>7 DEF ShardInv, Typed
<1>9. LayoutInv'
  <2>1. ~Fresh'
    BY <1>1 DEF Fresh
  <2>2. Tiled(file, Items, file_end_offset)
    BY <1>1, <1>2 DEF ShardInv, LayoutInv
  <2>3. QED
    BY <1>1, <1>4, <2>1, <2>2 DEF ShardInv, LayoutInv
<1>10. WriteInv'
  BY <1>1, <1>2 DEF WriteInv
<1>11. OwnInv' /\ (AllHeld /\ RoomInLists => AllHeld')
  BY <1>1, <1>3, <1>4, <1>5, <1>7 DEF OwnInv, AllHeld
<1>12. QED
  BY <1>8, <1>9, <1>10, <1>11 DEF ShardInv

(* After a crash: whatever the Set in progress left of its item, the items *)
(* in the file lie side by side, and the walk begins with one or ends.     *)
LEMMA Tiling ==
  ASSUME ShardInv, NEW f, NEW S,
         \A q \in Offsets : f[q].chunk \in Chunks,
         op # Nothing => \A q \in Offsets \ {op.off} : f[q] = file[q],
         op = Nothing => f = file,
         ~Fresh => S = Items /\ \A q \in Offsets : f[q].chunk = file[q].chunk,
         Fresh => S \ {op.off} = Items \ {op.off} /\ S \subseteq Items \cup {op.off}
                  /\ f[op.off].chunk \in {0, Fit(op.val)}
  PROVE  \E e \in Offsets : Tiled(f, S, e) /\ (0 \in S \/ 0 = e)
<1>1. Items \subseteq Offsets /\ op \in Ops \cup {Nothing} /\ file_end_offset \in Offsets
  BY DEF Items, ShardInv, Typed
<1>2. \E e \in Offsets : Tiled(f, S, e) /\ S \subseteq Offsets
  <2>1. CASE ~Fresh
    <3>1. PICK e \in Offsets : Tiled(file, Items, e)
      BY <1>1, <2>1 DEF ShardInv, Typed, LayoutInv
    <3>2. \A q \in Items : f[q].chunk = file[q].chunk
      BY <1>1, <2>1
    <3>3. Tiled(f, Items, e)
      BY <3>1, <3>2, SameTiles
    <3>4. QED
      BY <1>1, <2>1, <3>3
  <2>2. CASE Fresh
    <3>1. pc = "store" /\ op # Nothing
      BY <2>2 DEF Fresh, ShardInv, WriteInv
    <3>2. op.off \in Offsets /\ op.val \in Values
      BY <1>1, <3>1 DEF Ops
    <3>3. Tiled(file, Items \ {op.off}, op.off)
      BY <2>2, <3>1 DEF ShardInv, LayoutInv
    <3>4. \A q \in Items \ {op.off} : f[q].chunk = file[q].chunk
      BY <1>1, <3>1
    <3>5. Tiled(f, S \ {op.off}, op.off)
      <4>1. Tiled(f, Items \ {op.off}, op.off)
        BY <3>3, <3>4, SameTiles
      <4>2. QED
        BY <2>2, <4>1
    <3>6. S \subseteq Offsets
      BY <1>1, <2>2, <3>2
    <3>7. CASE op.off \notin S
      <4>1. S \ {op.off} = S
        BY <3>7
      <4>2. QED
        BY <3>2, <3>5, <3>6, <4>1
    <3>8. CASE op.off \in S
      <4>1. S \ {op.off} \in SUBSET Offsets /\ op.off \notin S \ {op.off}
        BY <3>6
      <4>2. Tiled(f, (S \ {op.off}) \cup {op.off}, op.off + Size(f, op.off))
        BY <3>2, <3>5, <4>1, Grow
      <4>3. (S \ {op.off}) \cup {op.off} = S
        BY <3>8
      <4>4. op.off + Size(f, op.off) \in Offsets
        <5>1. op.off + calSizeFromIdx(Fit(op.val)) = file_end_offset
          BY <2>2, <3>1 DEF ShardInv, WriteInv
        <5>2. file_end_offset <= FileSize /\ FileSize \in Nat /\ file_end_offset \in Nat
          BY <1>1, ShardAssumption DEF Offsets
        <5>3. op.off \in Nat /\ Fit(op.val) \in Chunks /\ 0 \in Chunks
              /\ calSizeFromIdx(0) \in Nat /\ calSizeFromIdx(Fit(op.val)) \in Nat
              /\ calSizeFromIdx(0) <= calSizeFromIdx(Fit(op.val))
          BY <3>2, Sizes, FitIsChunk
        <5>4. op.off + calSizeFromIdx(0) <= FileSize
          BY <5>1, <5>2, <5>3
        <5>5. CASE f[op.off].chunk = 0
          BY <3>2, <5>3, <5>4, <5>5, Sizes DEF Size
        <5>6. CASE f[op.off].chunk = Fit(op.val)
          BY <1>1, <5>1, <5>6 DEF Size
        <5>7. QED
          BY <2>2, <5>5, <5>6
      <4>5. QED
        BY <3>6, <4>2, <4>3, <4>4
    <3>9. QED
      BY <3>7, <3>8
  <2>3. QED
    BY <2>1, <2>2
<1>3. PICK e \in Offsets : Tiled(f, S, e) /\ S \subseteq Offsets
  BY <1>2
<1>4. 0 \in S \/ 0 = e
  BY <1>3, WalkFrom0
<1>5. QED
  BY <1>3, <1>4

(* A new process finds a tiled file, and knows nothing yet. *)
LEMMA Restarted ==
  ASSUME Restart,
         file' = [o \in Offsets |-> file'[o]], \A o \in Offsets : IsItem(file'[o]),
         \A o \in Offsets : ~Exists(file'[o]) => file'[o].chunk = 0,
         \E e \in Offsets : Tiled(file', Items', e) /\ (0 \in Items' \/ 0 = e)
  PROVE  ShardInv' /\ AllHeld'
<1>1. /\ index' = EmptyIndex /\ free_space' = EmptyFreeSpace /\ file_end_offset' = 0
      /\ key_set_cnts_f' = 0 /\ pc' = "recover" /\ op' = Nothing /\ write_log' = Nothing
      /\ pos' = 0 /\ max_set_cnt' = 0 /\ reply' = Nothing
  BY DEF Restart
<1>2. Typed'
  BY <1>1, Empty, Sizes, ShardAssumption DEF Typed
<1>3. LayoutInv'
  BY <1>1 DEF LayoutInv
<1>4. WriteInv'
  BY <1>1 DEF WriteInv
<1>5. Walked' = {}
  <2>1. \A o \in Items' : ~(o < pos')
    BY <1>1, Sizes DEF Items
  <2>2. QED
    BY <1>1, <2>1 DEF Walked
<1>6. OwnInv' /\ AllHeld'
  BY <1>1, <1>5, Empty DEF OwnInv, AllHeld
<1>7. QED
  BY <1>2, <1>3, <1>4, <1>6 DEF ShardInv

(* The item of a Set that writes a new one is as large as its value needs, *)
(* or says nothing of its size yet.                                        *)
LEMMA FreshChunk ==
  ASSUME ShardInv, Fresh
  PROVE  op # Nothing /\ op.off \in Offsets /\ file[op.off].chunk \in {0, Fit(op.val)}
<1>1. pc = "store" /\ op # Nothing
  BY DEF Fresh, ShardInv, WriteInv
<1>2. op.off \in Offsets
  BY <1>1 DEF ShardInv, Typed, Ops
<1>3. QED
  BY <1>1, <1>2 DEF ShardInv, WriteInv

(* Kill: the file stays as it is, and its items lie side by side.          *)
LEMMA KillStep ==
  ASSUME ShardInv, Kill
  PROVE  ShardInv' /\ AllHeld'
<1>1. file' = file /\ Restart
  BY DEF Kill
<1>2. Items' = Items
  BY <1>1 DEF Items
<1>3. \A q \in Offsets : file[q].chunk \in Chunks
  BY DEF ShardInv, Typed, IsItem
<1>4. Fresh => file[op.off].chunk \in {0, Fit(op.val)}
  BY FreshChunk
<1>5. \E e \in Offsets : Tiled(file, Items, e) /\ (0 \in Items \/ 0 = e)
  BY <1>3, <1>4, Tiling
<1>6. QED
  BY <1>1, <1>2, <1>5, Restarted DEF ShardInv, Typed, LayoutInv

(* PowerLoss: whichever words are lost, an item that existed still does,   *)
(* and a new one exists or does not; the items still lie side by side.     *)
LEMMA PowerLossStep ==
  ASSUME ShardInv, PowerLoss
  PROVE  ShardInv' /\ AllHeld'
<1>1. Restart /\ "power" \in CrashKinds /\ write_log # Nothing
  BY DEF PowerLoss
<1>2. MaxIdx = 0 /\ \A c \in Chunks : c = 0
  BY <1>1, ShardAssumption, RecordAssumption DEF Chunks
<1>3. pc = "store" /\ op # Nothing /\ op \in Ops /\ IsItem(write_log)
  BY <1>1 DEF ShardInv, WriteInv, Typed
<1>4. PICK o, t, i, w : o = op.off /\ t = op.todo /\ i = file[o] /\ w = write_log
  OBVIOUS
<1>5. o \in Offsets /\ t \in Todos /\ IsItem(i) /\ IsItem(w) /\ op.cnt \in 1..MaxCnt
      /\ op.val \in Values
  BY <1>3, <1>4 DEF Ops, ShardInv, Typed
<1>6. PICK kept \in SUBSET Words :
        file' = [file EXCEPT ![op.off] =
                   [p \in Parts |-> IF p \in UNION kept THEN @[p] ELSE write_log[p]]]
  BY DEF PowerLoss
<1>7. PICK j : j = [p \in Parts |-> IF p \in UNION kept THEN i[p] ELSE w[p]]
  OBVIOUS
<1>8. file = [q \in Offsets |-> file[q]] /\ \A q \in Offsets : IsItem(file[q])
  BY DEF ShardInv, Typed
<1>9. /\ file' = [q \in Offsets |-> file'[q]]
      /\ file'[o] = j /\ \A q \in Offsets : q # o => file'[q] = file[q]
  <2>1. file' = [file EXCEPT ![o] = [p \in Parts |-> IF p \in UNION kept THEN i[p] ELSE w[p]]]
    BY <1>4, <1>6
  <2>2. file' = [file EXCEPT ![o] = j]
    BY <1>7, <2>1
  <2>3. QED
    BY <1>5, <1>8, <2>2
<1>10. j = [p \in Parts |-> j[p]] /\ \A p \in Parts : j[p] = i[p] \/ j[p] = w[p]
  BY <1>7
<1>11. IsItem(j)
  BY <1>5, <1>10 DEF IsItem, Parts
<1>12. \A q \in Offsets : IsItem(file'[q])
  BY <1>8, <1>9, <1>11
<1>13. \A q \in Offsets : file[q].chunk = 0 /\ file'[q].chunk = 0
  BY <1>2, <1>8, <1>12 DEF IsItem
<1>14. /\ "head" \in Left(t) => i.head = w.head
       /\ "tail" \in Left(t) => i.tail = w.tail
       /\ "head" \notin Left(t) => i.head = op.cnt
       /\ "tail" \notin Left(t) => i.tail = op.cnt
  <2>1. \A p \in Left(t) : i[p] = w[p]
    BY <1>3, <1>4 DEF ShardInv, WriteInv
  <2>2. \A p \in Parts \ ({"chunk"} \cup Left(t)) :
          i[p] = Record(op.key, op.val, op.cnt, Fit(op.val))[p]
    BY <1>3, <1>4 DEF ShardInv, WriteInv
  <2>3. QED
    BY <2>1, <2>2 DEF Parts, Record
<1>15. Exists(w) => Exists(j)
  <2> SUFFICES ASSUME Exists(w)
               PROVE  Exists(j)
    OBVIOUS
  <2>1. ~Fresh
    BY <1>4 DEF Fresh
  <2>2. Exists(i)
    BY <1>3, <1>4, <2>1 DEF ShardInv, WriteInv
  <2>3. /\ j.head = i.head \/ j.head = w.head
        /\ j.tail = i.tail \/ j.tail = w.tail
        /\ j.vsize = i.vsize \/ j.vsize = w.vsize
    BY <1>10 DEF Parts
  <2>4. ~(i.head = 0 /\ i.tail = 0) /\ ~(w.head = 0 /\ w.tail = 0) /\ i.vsize # 0 /\ w.vsize # 0
    BY <1>5, <2>2 DEF Exists, ReadKV_KVs, TornCnt, IsItem
  <2>5. ~(j.head = 0 /\ j.tail = 0)
    BY <1>5, <1>14, <2>3, <2>4
  <2>6. QED
    BY <2>3, <2>4, <2>5, <1>11 DEF Exists, ReadKV_KVs, TornCnt, IsItem
<1>16. Items' \ {o} = Items \ {o} /\ Items' \subseteq Items \cup {o}
  BY <1>9 DEF Items
<1>17. ~Fresh => Items' = Items
  <2> SUFFICES ASSUME ~Fresh
               PROVE  Items' = Items
    OBVIOUS
  <2>1. Exists(w) /\ Exists(i)
    BY <1>3, <1>4 DEF Fresh, ShardInv, WriteInv
  <2>2. o \in Items /\ o \in Items'
    BY <1>4, <1>5, <1>9, <1>15, <2>1 DEF Items
  <2>3. QED
    BY <1>16, <2>2
<1>18. \E e \in Offsets : Tiled(file', Items', e) /\ (0 \in Items' \/ 0 = e)
  <2>1. \A q \in Offsets : file'[q].chunk \in Chunks
    BY <1>13, Sizes
  <2>2. \A q \in Offsets \ {op.off} : file'[q] = file[q]
    BY <1>4, <1>9
  <2>3. /\ ~Fresh => Items' = Items /\ \A q \in Offsets : file'[q].chunk = file[q].chunk
        /\ Fresh => Items' \ {op.off} = Items \ {op.off} /\ Items' \subseteq Items \cup {op.off}
                    /\ file'[op.off].chunk \in {0, Fit(op.val)}
    BY <1>4, <1>5, <1>13, <1>16, <1>17
  <2>4. PICK f, S : f = file' /\ S = Items'
    OBVIOUS
  <2>5. \E e \in Offsets : Tiled(f, S, e) /\ (0 \in S \/ 0 = e)
    BY <1>3, <2>1, <2>2, <2>3, <2>4, Tiling
  <2>6. QED
    BY <2>4, <2>5
<1>19. QED
  BY <1>1, <1>9, <1>12, <1>13, <1>18, Restarted

(* One iteration of the walk: it is on an item, and the next is the next.  *)
LEMMA WalkStep ==
  ASSUME ShardInv, RecoverItem
  PROVE  /\ pc = "recover" /\ op = Nothing /\ pos \in Items /\ pos' \in Offsets
         /\ pos' = pos + Size(file, pos)
         /\ \A q \in Items : q < pos' <=> q < pos \/ q = pos
         /\ Walked = {o \in Items : o < pos} /\ pos \notin Walked
         /\ Walked' = Walked \cup {pos}
         /\ LayoutInv' /\ WriteInv'
<1>1. /\ pc = "recover" /\ pos' = pos + Size(file, pos)
      /\ file[pos].vsize # 0 /\ ReadKV_KVs(file[pos]) # 0
      /\ UNCHANGED <<file, write_log, file_end_offset, pc, op>>
  BY DEF RecoverItem, Size
<1>2. op = Nothing /\ write_log = Nothing /\ pos \in Offsets
  BY <1>1 DEF ShardInv, WriteInv, Typed
<1>3. pos \in Items
  BY <1>1, <1>2 DEF Items, Exists
<1>4. PICK e \in Offsets : Tiled(file, Items, e)
  BY <1>1 DEF ShardInv, LayoutInv
<1>5. \A q \in Offsets : file[q].chunk \in Chunks
  BY DEF ShardInv, Typed, IsItem
<1>6. Items \in SUBSET Offsets /\ Items' = Items
  BY <1>1 DEF Items
<1>7. /\ pos + Size(file, pos) \in Offsets
      /\ pos + Size(file, pos) \in Items \/ pos + Size(file, pos) = e
      /\ \A q \in Items : q < pos + Size(file, pos) <=> q < pos \/ q = pos
  BY <1>3, <1>4, <1>5, <1>6, WalkOn
<1>8. Walked = {o \in Items : o < pos} /\ Walked' = {o \in Items : o < pos'}
  BY <1>1, <1>6 DEF Walked
<1>9. pos \notin Walked
  BY <1>2, <1>8, Sizes
<1>10. Walked' = Walked \cup {pos}
  BY <1>1, <1>3, <1>7, <1>8
<1>11. LayoutInv'
  BY <1>1, <1>4, <1>6, <1>7 DEF ShardInv, LayoutInv
<1>12. WriteInv'
  BY <1>1, <1>2 DEF WriteInv
<1>13. QED
  BY <1>1, <1>2, <1>3, <1>7, <1>8, <1>9, <1>10, <1>11, <1>12

(* One iteration of IndexCallback: the item walked over is in the index or *)
(* in a free list, whatever its counts say.                                *)
LEMMA RecoverItemStep ==
  ASSUME ShardInv, RecoverItem
  PROVE  ShardInv' /\ (AllHeld /\ RoomInLists => AllHeld')
<1>1. PICK k : k = KeyOf(file[pos])
  OBVIOUS
<1>2. PICK cnt : cnt = ReadKV_KVs(file[pos])
  OBVIOUS
<1>3. /\ pc = "recover" /\ op = Nothing /\ pos \in Items /\ pos' \in Offsets
      /\ Walked = {o \in Items : o < pos} /\ pos \notin Walked
      /\ Walked' = Walked \cup {pos}
      /\ LayoutInv' /\ WriteInv'
  BY WalkStep
<1>4. pos \in Offsets /\ IsItem(file[pos]) /\ k \in AllKeys
  <2>1. pos \in Offsets /\ IsItem(file[pos])
    BY DEF ShardInv, Typed
  <2>2. QED
    BY <1>1, <2>1, KeyOfItem
<1>5. /\ max_set_cnt' = IF cnt > max_set_cnt THEN cnt ELSE max_set_cnt
      /\ UNCHANGED <<file, write_log, file_end_offset, key_set_cnts_f, pc, op>>
  BY <1>2 DEF RecoverItem
<1>6. max_set_cnt' \in 0..MaxCnt
  <2>1. max_set_cnt \in 0..MaxCnt
    BY DEF ShardInv, Typed
  <2>2. cnt = -1 \/ cnt \in 0..MaxCnt
    BY <1>2, <1>4 DEF ReadKV_KVs, TornCnt, IsItem
  <2>3. QED
    BY <1>5, <2>1, <2>2, ShardAssumption
<1>7. \/ free_space' = RecycleKV_Data(free_space, pos) /\ index' = index
      \/ /\ index' = [index EXCEPT ![k] = pos]
         /\ free_space' = IF index[k] = Nothing THEN free_space
                          ELSE RecycleKV_Data(free_space, index[k])
  BY <1>1, <1>2 DEF RecoverItem
<1>8. pos \notin Held(index, free_space) /\ Held(index, free_space) \subseteq Walked
      /\ Owns(file, index, free_space)
  BY <1>3 DEF ShardInv, OwnInv
<1>9. /\ index' \in [AllKeys -> Offsets \cup {Nothing}]
      /\ free_space' \in [Chunks -> Seq(Offsets)]
      /\ Owns(file, index', free_space')
      /\ Held(index', free_space') \subseteq Held(index, free_space) \cup {pos}
      /\ RoomInLists => Held(index', free_space') = Held(index, free_space) \cup {pos}
  <2>1. CASE free_space' = RecycleKV_Data(free_space, pos) /\ index' = index
    <3>1. free_space \in [Chunks -> Seq(Offsets)] /\ Lists(file, free_space)
          /\ pos \notin In(free_space) /\ pos \notin Points(index)
      BY <1>8 DEF ShardInv, Typed, Owns, Held
    <3>2. /\ free_space' \in [Chunks -> Seq(Offsets)]
          /\ Lists(file, free_space')
          /\ In(free_space) \subseteq In(free_space')
          /\ In(free_space') \subseteq In(free_space) \cup {pos}
          /\ RoomInLists => In(free_space') = In(free_space) \cup {pos}
      BY <1>4, <2>1, <3>1, Recycled DEF RoomInLists, ShardInv
    <3>3. QED
      BY <1>8, <2>1, <3>1, <3>2 DEF Owns, Held, ShardInv, Typed
  <2>2. CASE /\ index' = [index EXCEPT ![k] = pos]
             /\ free_space' = IF index[k] = Nothing THEN free_space
                              ELSE RecycleKV_Data(free_space, index[k])
    <3>1. Move(k, pos)
      BY <1>4, <1>8, <2>2 DEF Move
    <3>2. QED
      BY <1>8, <3>1, Moved DEF ShardInv
  <2>3. QED
    BY <1>7, <2>1, <2>2
<1>10. Typed'
  BY <1>3, <1>5, <1>6, <1>9 DEF ShardInv, Typed
<1>11. OwnInv' /\ (AllHeld /\ RoomInLists => AllHeld')
  BY <1>3, <1>5, <1>8, <1>9 DEF OwnInv, AllHeld
<1>12. QED
  BY <1>3, <1>10, <1>11 DEF ShardInv

(* The end of the walk is the end of the items.                            *)
LEMMA RecoverEndStep ==
  ASSUME ShardInv, RecoverEnd
  PROVE  ShardInv' /\ (AllHeld => AllHeld')
<1>1. /\ pc = "recover" /\ pc' = "idle" /\ ~Exists(file[pos])
      /\ file_end_offset' = pos /\ key_set_cnts_f' = max_set_cnt
      /\ pos' = 0 /\ max_set_cnt' = 0
      /\ UNCHANGED <<file, write_log, index, free_space, op>>
  BY DEF RecoverEnd, Exists
<1>2. op = Nothing /\ write_log = Nothing /\ pos \in Offsets /\ Items' = Items
  BY <1>1 DEF ShardInv, WriteInv, Typed, Items
<1>3. PICK e \in Offsets : Tiled(file, Items, e) /\ (pos \in Items \/ pos = e)
  BY <1>1 DEF ShardInv, LayoutInv
<1>4. Tiled(file, Items, pos)
  BY <1>1, <1>3 DEF Items
<1>5. \A q \in Offsets : file[q].chunk \in Chunks
  BY DEF ShardInv, Typed, IsItem
<1>6. Items \in SUBSET Offsets
  BY DEF Items
<1>7. \A q \in Items : q < pos
  BY <1>2, <1>4, <1>5, <1>6, NoneAtEnd
<1>8. Walked = Items /\ Walked' = Items
  BY <1>1, <1>2, <1>7 DEF Walked, Claimed
<1>9. Typed'
  BY <1>1, <1>2, Sizes, ShardAssumption DEF ShardInv, Typed
<1>10. ~Fresh'
  BY <1>1 DEF Fresh
<1>11. LayoutInv'
  BY <1>1, <1>2, <1>4, <1>10 DEF ShardInv, LayoutInv
<1>12. WriteInv'
  BY <1>1, <1>2 DEF WriteInv
<1>13. OwnInv' /\ (AllHeld => AllHeld')
  BY <1>1, <1>8 DEF ShardInv, OwnInv, AllHeld
<1>14. QED
  BY <1>9, <1>11, <1>12, <1>13 DEF ShardInv

(* Steps that change none of the state the invariant is about.             *)
LEMMA StutterStep ==
  ASSUME ShardInv, UNCHANGED <<file, write_log, dram, pc, op, loop>>
  PROVE  ShardInv' /\ (AllHeld => AllHeld')
<1>1. /\ file' = file /\ write_log' = write_log /\ index' = index /\ free_space' = free_space
      /\ file_end_offset' = file_end_offset /\ key_set_cnts_f' = key_set_cnts_f
      /\ pc' = pc /\ op' = op /\ pos' = pos /\ max_set_cnt' = max_set_cnt
  BY DEF dram, loop
<1>2. Typed'
  BY <1>1 DEF ShardInv, Typed
<1>3. Items' = Items /\ Fresh' = Fresh /\ Walked' = Walked
  BY <1>1 DEF Items, Fresh, Walked, Claimed
<1>4. LayoutInv'
  BY <1>1, <1>3 DEF ShardInv, LayoutInv
<1>5. WriteInv'
  BY <1>1, <1>3 DEF ShardInv, WriteInv
<1>6. OwnInv' /\ (AllHeld => AllHeld')
  BY <1>1, <1>3 DEF ShardInv, OwnInv, AllHeld
<1>7. QED
  BY <1>2, <1>4, <1>5, <1>6 DEF ShardInv

(* ShardInv is inductive; AllHeld is, while the free lists have room.      *)
LEMMA NextStep ==
  ASSUME ShardInv, [Next]_vars
  PROVE  ShardInv' /\ (AllHeld /\ RoomInLists => AllHeld')
<1>1. ASSUME NEW k \in Keys, NEW v \in Values, Set(k, v)
      PROVE  ShardInv' /\ (AllHeld /\ RoomInLists => AllHeld')
  BY <1>1, SetStep
<1>2. CASE Store
  BY <1>2, StoreStep, StoreKeepsHeld
<1>3. CASE Persist
  BY <1>3, PersistStep
<1>4. CASE Return
  BY <1>4, ReturnStep
<1>5. ASSUME NEW k \in Keys, Get(k)
      PROVE  ShardInv' /\ (AllHeld /\ RoomInLists => AllHeld')
  BY <1>5, StutterStep DEF Get
<1>6. CASE Kill
  BY <1>6, KillStep
<1>7. CASE PowerLoss
  BY <1>7, PowerLossStep
<1>8. CASE RecoverItem
  BY <1>8, RecoverItemStep
<1>9. CASE RecoverEnd
  BY <1>9, RecoverEndStep
<1>10. CASE UNCHANGED vars
  BY <1>10, StutterStep DEF vars
<1>11. QED
  BY <1>1, <1>2, <1>3, <1>4, <1>5, <1>6, <1>7, <1>8, <1>9, <1>10 DEF Next, Crash, Recover

(* The layout, the write protocol and the owners are right in every        *)
(* reachable state, under kills and under power losses.                    *)
THEOREM ShardInvariant == Spec => []ShardInv
<1>1. Init => ShardInv
  BY InitShard
<1>2. ShardInv /\ [Next]_vars => ShardInv'
  BY NextStep
<1>3. QED
  BY <1>1, <1>2, PTL DEF Spec

(* Every variable keeps its type, through every crash and recovery.        *)
THEOREM TypeCorrect == Spec => []TypeOK
<1>1. ShardInv => TypeOK
  <2> SUFFICES ASSUME ShardInv
               PROVE  TypeOK
    OBVIOUS
  <2>1. \A o \in Offsets : IsItem(file[o])
    BY DEF ShardInv, Typed
  <2>2. \A o \in Offsets :
          /\ DOMAIN file[o] = Parts
          /\ file[o].head \in 0..MaxCnt /\ file[o].tail \in 0..MaxCnt
          /\ file[o].vsize \in Nat /\ file[o].chunk \in Chunks
    BY <2>1 DEF IsItem
  <2>3. op \in Calls \cup {Nothing}
    BY OpsAreCalls DEF ShardInv, Typed
  <2>4. QED
    BY <2>2, <2>3 DEF ShardInv, Typed, TypeOK
<1>2. QED
  BY <1>1, ShardInvariant, PTL

------------------------------------------------------------------------------
(* Owners                                                                  *)

(* An item is in the index, once, or in a free list, once, or it is being  *)
(* written by a Set; and no two items in the index or in the free lists    *)
(* cover the same byte.                                                    *)
OneOwnerAtMost ==
  /\ Live \cap Free = {} /\ (Live \cup Free) \cap Claimed = {}
  /\ \A k, l \in AllKeys : index[k] = index[l] /\ index[k] # Nothing => k = l
  /\ \A c, d \in Chunks : \A m \in 1..Len(free_space[c]), n \in 1..Len(free_space[d]) :
       free_space[c][m] = free_space[d][n] => c = d /\ m = n
  /\ \A o, q \in Live \cup Free : \A b \in Offsets : Covers(o, b) /\ Covers(q, b) => o = q

(* The names the properties use.                                           *)
LEMMA LiveAndFree ==
  Live = Points(index) /\ Free = In(free_space) /\ Live \cup Free = Held(index, free_space)
BY DEF Live, Free, Points, In, Held

(* Items that lie side by side do not overlap. *)
LEMMA Apart ==
  ASSUME ShardInv, NEW o \in Items, NEW q \in Items, NEW b \in Offsets,
         NEW S, NEW e, Tiled(file, S, e), o \in S, q \in S, Covers(o, b), Covers(q, b)
  PROVE  o = q
<1>1. o \in Nat /\ q \in Nat /\ b \in Nat
  BY Sizes DEF Items
<1>2. Size(file, o) \in Nat /\ Size(file, q) \in Nat
  <2>1. \A p \in Offsets : file[p].chunk \in Chunks
    BY DEF ShardInv, Typed, IsItem
  <2>2. QED
    BY <2>1, Sizes DEF Size, Items
<1>3. o <= b /\ b < o + Size(file, o) /\ q <= b /\ b < q + Size(file, q)
  BY DEF Covers, Size
<1>4. /\ o < q => o + Size(file, o) <= q
      /\ q < o => q + Size(file, q) <= o
  BY DEF Tiled
<1>5. QED
  BY <1>1, <1>2, <1>3, <1>4

(* Space is never given twice: UpdateKV_Data, RecycleKV_Data and           *)
(* IndexCallback agree on who owns an item, whatever crash comes between   *)
(* them.                                                                   *)
THEOREM OneOwnerAtMostAlways == Spec => []OneOwnerAtMost
<1>1. ShardInv => OneOwnerAtMost
  <2> SUFFICES ASSUME ShardInv
               PROVE  OneOwnerAtMost
    OBVIOUS
  <2>1. Owns(file, index, free_space) /\ Held(index, free_space) \subseteq Walked
    BY DEF ShardInv, OwnInv
  <2>2. Walked \subseteq Items /\ Walked \cap Claimed = {}
    <3>1. pc = "recover" => Claimed = {}
      BY DEF ShardInv, WriteInv, Claimed
    <3>2. QED
      BY <3>1 DEF Walked
  <2>3. \E S, e : Tiled(file, S, e) /\ Walked \subseteq S
    <3>1. CASE pc = "recover"
      BY <3>1, <2>2 DEF ShardInv, LayoutInv
    <3>2. CASE pc # "recover" /\ ~Fresh
      BY <3>2, <2>2 DEF ShardInv, LayoutInv
    <3>3. CASE pc # "recover" /\ Fresh
      <4>1. Tiled(file, Items \ {op.off}, op.off)
        BY <3>3 DEF ShardInv, LayoutInv
      <4>2. Walked \subseteq Items \ {op.off}
        <5>1. pc = "store" /\ op # Nothing
          BY <3>3 DEF Fresh, ShardInv, WriteInv
        <5>2. QED
          BY <5>1 DEF Walked, Claimed
      <4>3. QED
        BY <4>1, <4>2
    <3>4. QED
      BY <3>1, <3>2, <3>3
  <2>4. PICK S, e : Tiled(file, S, e) /\ Walked \subseteq S
    BY <2>3
  <2>5. \A o, q \in Live \cup Free : \A b \in Offsets : Covers(o, b) /\ Covers(q, b) => o = q
    <3>1. ASSUME NEW o \in Live \cup Free, NEW q \in Live \cup Free, NEW b \in Offsets,
                 Covers(o, b), Covers(q, b)
          PROVE  o = q
      <4>1. o \in Items /\ q \in Items /\ o \in S /\ q \in S
        BY <2>1, <2>2, <2>4, LiveAndFree
      <4>2. QED
        BY <2>4, <3>1, <4>1, Apart
    <3>2. QED
      BY <3>1
  <2>6. QED
    BY <2>1, <2>2, <2>5, LiveAndFree DEF OneOwnerAtMost, Owns, Lists, Once
<1>2. QED
  BY <1>1, ShardInvariant, PTL

(* EveryByteOwned: nor is space ever lost, as long as no free list is      *)
(* full. (A full one drops the item, posix_file_aep.cpp, line 175.)        *)
THEOREM EveryByteOwnedAlways ==
  Spec /\ []RoomInLists => []EveryByteOwned
<1>1. Init => ShardInv /\ AllHeld
  <2>1. Init => AllHeld
    <3> SUFFICES ASSUME Init
                 PROVE  AllHeld
      OBVIOUS
    <3>1. Items = {}
      BY ZeroItemIs DEF Init, Items
    <3>2. QED
      BY <3>1 DEF AllHeld, Walked
  <2>2. QED
    BY <2>1, InitShard
<1>2. ShardInv /\ AllHeld /\ RoomInLists /\ [Next]_vars => (ShardInv /\ AllHeld)'
  BY NextStep
<1>3. ShardInv /\ AllHeld /\ OneOwnerAtMost => EveryByteOwned
  <2> SUFFICES ASSUME ShardInv, AllHeld, OneOwnerAtMost, pc = "idle"
               PROVE  EveryByteOwned
    BY DEF EveryByteOwned
  <2>1. /\ Tiled(file, Items, file_end_offset) /\ Walked = Items
        /\ Held(index, free_space) \subseteq Items
    BY Idle
  <2>2. Live \cup Free = Items
    BY <2>1, LiveAndFree DEF AllHeld
  <2>3. ASSUME NEW b \in Offsets
        PROVE  Cardinality({o \in Live \cup Free : Covers(o, b)})
                 = IF b < file_end_offset THEN 1 ELSE 0
    <3>1. CASE b < file_end_offset
      <4>1. PICK o \in Items : o <= b /\ b < o + Size(file, o)
        BY <2>1, <3>1 DEF Tiled
      <4>2. Covers(o, b)
        BY <4>1 DEF Covers, Size
      <4>3. \A q \in Items : Covers(q, b) => q = o
        BY <2>2, <4>2 DEF OneOwnerAtMost
      <4>4. {q \in Live \cup Free : Covers(q, b)} = {o}
        BY <2>2, <4>2, <4>3
      <4>5. Cardinality({o}) = 1
        BY FS_Singleton
      <4>6. QED
        BY <3>1, <4>4, <4>5
    <3>2. CASE ~(b < file_end_offset)
      <4>1. ASSUME NEW q \in Items, Covers(q, b)
            PROVE  FALSE
        <5>1. q + Size(file, q) <= file_end_offset /\ b < q + Size(file, q)
          BY <2>1, <4>1 DEF Tiled, Covers, Size
        <5>2. b \in Nat /\ file_end_offset \in Nat /\ q + Size(file, q) \in Nat
          <6>1. \A p \in Offsets : file[p].chunk \in Chunks
            BY DEF ShardInv, Typed, IsItem
          <6>2. QED
            BY <6>1, Sizes DEF Size, Items, ShardInv, Typed
        <5>3. QED
          BY <3>2, <5>1, <5>2
      <4>2. {q \in Live \cup Free : Covers(q, b)} = {}
        BY <2>2, <4>1
      <4>3. Cardinality({}) = 0
        BY FS_EmptySet
      <4>4. QED
        BY <3>2, <4>2, <4>3
    <3>3. QED
      BY <3>1, <3>2
  <2>4. QED
    BY <2>3 DEF EveryByteOwned, OneOwnerAtMost
<1>4. QED
  BY <1>1, <1>2, <1>3, OneOwnerAtMostAlways, PTL DEF Spec

------------------------------------------------------------------------------
(* Counts, when processes are killed and the power stays                   *)

(* What an item's parts say of it. *)
LEMMA ValidIs ==
  ASSUME NEW i, IsItem(i)
  PROVE  /\ i.head \in Nat /\ i.tail \in Nat
         /\ Valid(i) <=> i.vsize # 0 /\ i.tail # 0 /\ i.head = i.tail
         /\ Valid(i) => Exists(i) /\ ReadKV_KVs(i) = i.tail
         /\ ReadKV_KVs(i) = -1 \/ ReadKV_KVs(i) = i.tail
BY ShardAssumption DEF IsItem, Valid, Exists, ReadKV_KVs, TornCnt

(* What is known of the items, the keys in them and the index.             *)
LEMMA ItemsOf ==
  ASSUME ShardInv
  PROVE  /\ \A o \in Offsets : IsItem(file[o]) /\ file[o].tail \in Nat /\ file[o].head \in Nat
         /\ \A o \in Offsets : Valid(file[o]) => o \in Items
         /\ \A o \in Offsets : KeyOf(file[o]) \in AllKeys
         /\ \A k \in AllKeys : index[k] # Nothing => index[k] \in Items /\ index[k] \in Offsets
<1>1. \A o \in Offsets : IsItem(file[o])
  BY DEF ShardInv, Typed
<1>2. \A o \in Offsets : Valid(file[o]) => o \in Items
  BY <1>1, ValidIs DEF Items
<1>3. Walked \subseteq Items
  BY DEF Walked
<1>4. \A k \in AllKeys : index[k] # Nothing => index[k] \in Items
  BY <1>3 DEF ShardInv, OwnInv, Held, Points
<1>5. QED
  BY <1>1, <1>2, <1>4, ValidIs, KeyOfItem DEF Items

(* The counts are right in a new engine.                                   *)
LEMMA InitKill == Init => KillInv
<1> SUFFICES ASSUME Init
             PROVE  KillInv
  OBVIOUS
<1>1. \A o \in Offsets : file[o] = ZeroItem
  BY DEF Init
<1>2. \A k \in AllKeys : index[k] = Nothing
  BY DEF Init, EmptyIndex
<1>3. pc = "idle" /\ op = Nothing /\ key_set_cnts_f = 0
  BY DEF Init
<1>4. QED
  BY <1>1, <1>2, <1>3, ZeroItemIs DEF KillInv, Unique, TailsRise, IndexInv, MaxInv

(* The items the index points at are not the one being written. *)
LEMMA IndexedElsewhere ==
  ASSUME ShardInv, op # Nothing
  PROVE  \A k \in AllKeys : index[k] # op.off
<1>1. pc # "recover" /\ op.off \notin Walked
  BY DEF ShardInv, WriteInv, Walked, Claimed
<1>2. op \in Ops
  BY DEF ShardInv, Typed
<1>3. op.off # Nothing
  BY <1>2, Sizes, ShardAssumption DEF Ops
<1>4. QED
  BY <1>1, <1>3 DEF ShardInv, OwnInv, Held, Points

(* Store: until the trailing count is stored the item is no valid record,  *)
(* and then it is the one with the highest count.                          *)
LEMMA StoreKill ==
  ASSUME ShardInv, KillInv, Store
  PROVE  KillInv'
<1>1. PICK o, p, r, i, j : Storing(o, p, r, i, j)
  BY DEF Storing
<1>2. /\ o \in Offsets /\ p \in Left(op.todo) /\ p \in Parts /\ op \in Ops /\ op.todo # << >>
      /\ IsItem(r) /\ IsItem(i) /\ IsItem(j)
      /\ r.head = op.cnt /\ r.tail = op.cnt /\ op.cnt \in 1..MaxCnt
      /\ r.vsize = SizeOf[op.val] /\ r.vsize # 0 /\ r.chunk = Fit(op.val)
      /\ \A q \in Parts : j[q] = IF q = p THEN r[q] ELSE i[q]
      /\ file' = [q \in Offsets |-> file'[q]]
      /\ \A q \in Offsets : q # o => file'[q] = file[q]
      /\ op' \in Ops /\ op'.key = op.key /\ op'.val = op.val /\ op'.off = op.off
      /\ op'.old = op.old /\ op'.cnt = op.cnt /\ op'.todo = Tail(op.todo)
      /\ Left(op'.todo) = Left(op.todo) \ {p}
  BY <1>1, Stored
<1>3. /\ o = op.off /\ p = Head(op.todo) /\ i = file[o] /\ j = file'[o]
  BY <1>1 DEF Storing
<1>4. /\ UNCHANGED <<write_log, index, free_space, file_end_offset, key_set_cnts_f>>
      /\ UNCHANGED <<pc, pos, max_set_cnt, reply>> /\ pc = "store"
  BY DEF Store, dram, loop
<1>5. op.todo \in Todos /\ op # Nothing /\ op' # Nothing
  BY <1>2, OpsAreCalls DEF Ops
<1>6. /\ p # "head" => i.head = op.cnt
      /\ op'.todo = << >> <=> p = "tail"
  <2>1. p # "head" => "head" \notin Left(op.todo)
    BY <1>2, <1>3, <1>5, TodoStep
  <2>2. "head" \notin Left(op.todo) => i.head = op.cnt
    BY <1>2, <1>3, <1>5 DEF ShardInv, WriteInv, Parts, Record
  <2>3. op'.todo = << >> <=> p = "tail"
    BY <1>2, <1>3, <1>5, TodoStep
  <2>4. QED
    BY <2>1, <2>2, <2>3
<1>7. /\ j.head = IF p = "head" THEN op.cnt ELSE i.head
      /\ j.tail = IF p = "tail" THEN op.cnt ELSE i.tail
      /\ j.vsize = IF p = "vsize" THEN SizeOf[op.val] ELSE i.vsize
  BY <1>2 DEF Parts
<1>8. /\ op.cnt = key_set_cnts_f /\ \A q \in Offsets : file[q].tail < op.cnt
      /\ \A q \in Offsets : ~Done(q)
  BY <1>2, <1>4, <1>5 DEF KillInv, TailsRise, Done
<1>9. \A q \in Offsets : file[q].tail \in Nat
  BY ItemsOf
<1>10. p # "tail" => ~Valid(j)
  <2> SUFFICES ASSUME p # "tail"
               PROVE  ~Valid(j)
    OBVIOUS
  <2>1. j.head = op.cnt /\ j.tail = i.tail /\ i.tail < op.cnt
    BY <1>2, <1>3, <1>6, <1>7, <1>8
  <2>2. QED
    BY <1>2, <1>3, <1>9, <2>1, ValidIs
<1>11. \A q \in Offsets : Done(q)' <=> q = o /\ p = "tail"
  BY <1>2, <1>3, <1>5, <1>6 DEF Done
<1>12. \A k \in AllKeys : index[k] # Nothing => file'[index[k]] = file[index[k]] /\ index[k] \in Offsets
  BY <1>2, <1>3, <1>5, IndexedElsewhere, ItemsOf
<1>13. \A q \in Offsets : file'[q].vsize # 0 => file'[q].head # 0
  <2>1. j.vsize # 0 => j.head # 0
    <3>1. op.cnt # 0
      BY <1>2, ShardAssumption
    <3>2. QED
      BY <1>6, <1>7, <3>1
  <2>2. QED
    BY <1>2, <1>3, <2>1 DEF KillInv
<1>14. Unique(file')
  <2>1. \A q \in Offsets : q # o => file'[q].tail < op.cnt
    BY <1>2, <1>8
  <2>2. \A q \in Offsets : file'[q].tail \in Nat
    BY <1>2, <1>3, <1>7, <1>9
  <2>3. Valid(j) => j.tail = op.cnt
    BY <1>7, <1>10
  <2>4. ASSUME NEW q \in Offsets, NEW s \in Offsets, Valid(file'[q]), Valid(file'[s]),
               file'[q].tail = file'[s].tail
        PROVE  q = s
    <3>1. CASE q # o /\ s # o
      BY <1>2, <2>4, <3>1 DEF KillInv, Unique
    <3>2. CASE q = o
      BY <1>2, <1>3, <2>1, <2>2, <2>3, <2>4, <3>2
    <3>3. CASE s = o
      BY <1>2, <1>3, <2>1, <2>2, <2>3, <2>4, <3>3
    <3>4. QED
      BY <3>1, <3>2, <3>3
  <2>5. QED
    BY <2>4 DEF Unique
<1>15. TailsRise'
  <2>1. \A q \in Offsets : ~Done(q)' => file'[q].tail = file[q].tail
    BY <1>2, <1>3, <1>7, <1>11
  <2>2. \A q \in Offsets : file'[q].tail > 0 /\ ~Done(q)' =>
          \E k \in AllKeys : index[k] # Nothing /\ file'[q].tail <= file'[index[k]].tail
    BY <1>4, <1>8, <1>12, <2>1 DEF KillInv, TailsRise
  <2>3. QED
    BY <1>2, <1>4, <1>5, <1>8, <2>1, <2>2 DEF TailsRise
<1>16. IndexInv'
  <2>1. \A k \in AllKeys : index[k] # Nothing => Valid(file'[index[k]]) /\ KeyOf(file'[index[k]]) = k
    BY <1>12 DEF KillInv, IndexInv
  <2>2. \A q \in Offsets : Valid(file'[q]) /\ ~Done(q)' => q # o
    BY <1>3, <1>10, <1>11
  <2>3. \A q \in Offsets : Valid(file'[q]) /\ ~Done(q)' =>
          index[KeyOf(file'[q])] # Nothing /\ file'[q].tail <= file'[index[KeyOf(file'[q])]].tail
    <3> SUFFICES ASSUME NEW q \in Offsets, Valid(file'[q]), ~Done(q)'
                 PROVE  index[KeyOf(file'[q])] # Nothing
                        /\ file'[q].tail <= file'[index[KeyOf(file'[q])]].tail
      OBVIOUS
    <3>1. file'[q] = file[q] /\ KeyOf(file[q]) \in AllKeys
      BY <1>2, <2>2, ItemsOf
    <3>2. index[KeyOf(file[q])] # Nothing /\ file[q].tail <= file[index[KeyOf(file[q])]].tail
      BY <1>4, <1>8, <3>1 DEF KillInv, IndexInv
    <3>3. QED
      BY <1>12, <3>1, <3>2
  <2>4. QED
    BY <1>4, <2>1, <2>3 DEF IndexInv
<1>17. QED
  BY <1>4, <1>13, <1>14, <1>15, <1>16 DEF KillInv, MaxInv

(* Set: its count is above all counts in the file.                         *)
LEMMA SetKill ==
  ASSUME ShardInv, KillInv, NEW k \in Keys, NEW v \in Values, Set(k, v)
  PROVE  KillInv'
<1>1. PICK o \in Offsets, fresh \in BOOLEAN :
        op' = [key |-> k, val |-> v, off |-> o, old |-> index[k], cnt |-> key_set_cnts_f',
               todo |-> IF fresh THEN CreateKV_Data ELSE SetKV_Data]
  BY DEF Set
<1>2. /\ pc = "idle" /\ pc' = "store" /\ key_set_cnts_f' = key_set_cnts_f + 1
      /\ reply' = Nothing /\ UNCHANGED <<file, index>>
  BY DEF Set
<1>3. op = Nothing
  BY <1>2 DEF ShardInv, WriteInv
<1>4. op'.todo # << >> /\ op'.cnt = key_set_cnts_f'
  BY <1>1 DEF CreateKV_Data, SetKV_Data
<1>5. op' # Nothing
  BY <1>2, SetStep DEF ShardInv, WriteInv
<1>6. \A q \in Offsets : ~Done(q) /\ ~Done(q)'
  BY <1>3, <1>4 DEF Done
<1>7. \A q \in Offsets : file[q].tail < key_set_cnts_f'
  <2>1. \A q \in Offsets : file[q].tail \in Nat /\ file[q].tail <= key_set_cnts_f
    BY <1>2, <1>3, ItemsOf DEF KillInv, TailsRise
  <2>2. QED
    BY <1>2, <2>1 DEF ShardInv, Typed
<1>8. TailsRise'
  BY <1>2, <1>4, <1>5, <1>6, <1>7 DEF KillInv, TailsRise
<1>9. IndexInv'
  BY <1>2, <1>6 DEF KillInv, IndexInv
<1>10. QED
  BY <1>2, <1>8, <1>9 DEF KillInv, MaxInv

(* A step that leaves the file, the index and the call alone. *)
LEMMA SameKill ==
  ASSUME ShardInv, KillInv, pc # "recover", pc' # "recover",
         UNCHANGED <<file, index, op, key_set_cnts_f>>, pc' # "idle" => reply' = Nothing
  PROVE  KillInv'
<1>1. \A q \in Offsets : Done(q)' <=> Done(q)
  BY DEF Done
<1>2. TailsRise'
  BY <1>1 DEF KillInv, TailsRise
<1>3. IndexInv'
  BY <1>1 DEF KillInv, IndexInv
<1>4. QED
  BY <1>2, <1>3 DEF KillInv, MaxInv

(* The item of a Set that has stored all of its record. *)
LEMMA Complete ==
  ASSUME ShardInv, op # Nothing, op.todo = << >>
  PROVE  /\ op \in Ops /\ op.off \in Offsets /\ op.key \in AllKeys /\ op.key \in Keys
         /\ op.val \in Values /\ op.cnt \in 1..MaxCnt
         /\ Valid(file[op.off]) /\ file[op.off].tail = op.cnt
         /\ KeyOf(file[op.off]) = op.key /\ ReadKV_Data(file[op.off]) = Intact(op.val)
<1>1. op \in Ops
  BY DEF ShardInv, Typed
<1>2. /\ op.off \in Offsets /\ op.key \in AllKeys /\ op.key \in Keys
      /\ op.val \in Values /\ op.cnt \in 1..MaxCnt
  BY <1>1, KeysAreAllKeys DEF Ops
<1>3. Left(op.todo) = {}
  BY Todo0
<1>4. \A p \in Parts \ {"chunk"} : file[op.off][p] = Record(op.key, op.val, op.cnt, Fit(op.val))[p]
  BY <1>3 DEF ShardInv, WriteInv
<1>5. PICK i, r : i = file[op.off] /\ r = Record(op.key, op.val, op.cnt, Fit(op.val))
  OBVIOUS
<1>6. /\ r.head = op.cnt /\ r.tail = op.cnt /\ r.vsize = SizeOf[op.val]
      /\ KeyOf(r) = op.key /\ ReadKV_Data(r) = Intact(op.val)
  BY <1>2, <1>5, RecordParts, FitIsChunk
<1>7. /\ i.head = r.head /\ i.tail = r.tail /\ i.vsize = r.vsize
      /\ i.key0 = r.key0 /\ i.key1 = r.key1 /\ i.val0 = r.val0 /\ i.val1 = r.val1
  BY <1>4, <1>5 DEF Parts
<1>8. KeyOf(i) = op.key /\ ReadKV_Data(i) = Intact(op.val)
  BY <1>6, <1>7 DEF KeyOf, ReadKV_Data
<1>9. IsItem(i) /\ op.cnt # 0 /\ SizeOf[op.val] # 0
  BY <1>2, <1>5, FitIsChunk, ShardAssumption DEF ShardInv, Typed
<1>10. Valid(i)
  BY <1>6, <1>7, <1>9, ValidIs
<1>11. QED
  BY <1>1, <1>2, <1>5, <1>6, <1>7, <1>8, <1>10

(* Return: the index points at the record of the highest count.            *)
LEMMA ReturnKill ==
  ASSUME ShardInv, KillInv, Return
  PROVE  KillInv'
<1>1. /\ pc = "return" /\ pc' = "idle" /\ op' = Nothing
      /\ index' = [index EXCEPT ![op.key] = op.off]
      /\ UNCHANGED <<file, key_set_cnts_f, reply>>
  BY DEF Return
<1>2. op # Nothing /\ op.todo = << >>
  BY <1>1 DEF ShardInv, WriteInv
<1>3. PICK o, k : o = op.off /\ k = op.key
  OBVIOUS
<1>4. /\ o \in Offsets /\ k \in AllKeys /\ op.cnt \in 1..MaxCnt
      /\ Valid(file[o]) /\ file[o].tail = op.cnt /\ KeyOf(file[o]) = k
  BY <1>2, <1>3, Complete
<1>5. /\ index'[k] = o /\ o # Nothing
      /\ \A l \in AllKeys : l # k => index'[l] = index[l]
  <2>1. index \in [AllKeys -> Offsets \cup {Nothing}]
    BY DEF ShardInv, Typed
  <2>2. o # Nothing
    BY <1>4, Sizes, ShardAssumption
  <2>3. QED
    BY <1>1, <1>3, <1>4, <2>1, <2>2
<1>6. \A q \in Offsets : Done(q) <=> q = o
  BY <1>2, <1>3 DEF Done
<1>7. \A q \in Offsets : ~Done(q)'
  BY <1>1 DEF Done
<1>8. op.cnt = key_set_cnts_f /\ \A q \in Offsets : q # o => file[q].tail < op.cnt
  BY <1>1, <1>2, <1>6 DEF KillInv, TailsRise
<1>9. \A q \in Offsets : file[q].tail \in Nat /\ file[q].tail <= file[o].tail
  BY <1>4, <1>8, ItemsOf
<1>10. TailsRise'
  BY <1>1, <1>4, <1>5, <1>8, <1>9 DEF TailsRise
<1>11. IndexInv'
  <2>1. ASSUME NEW l \in AllKeys, index'[l] # Nothing
        PROVE  Valid(file[index'[l]]) /\ KeyOf(file[index'[l]]) = l
    BY <1>4, <1>5, <2>1 DEF KillInv, IndexInv
  <2>2. ASSUME NEW q \in Offsets, Valid(file[q])
        PROVE  index'[KeyOf(file[q])] # Nothing /\ file[q].tail <= file[index'[KeyOf(file[q])]].tail
    <3>1. KeyOf(file[q]) \in AllKeys
      BY ItemsOf
    <3>2. CASE KeyOf(file[q]) = k
      BY <1>5, <1>9, <3>2
    <3>3. CASE KeyOf(file[q]) # k
      <4>1. q # o
        BY <1>4, <3>3
      <4>2. index[KeyOf(file[q])] # Nothing /\ file[q].tail <= file[index[KeyOf(file[q])]].tail
        BY <1>1, <1>6, <2>2, <4>1 DEF KillInv, IndexInv
      <4>3. QED
        BY <1>5, <3>1, <3>3, <4>2
    <3>4. QED
      BY <3>2, <3>3
  <2>3. QED
    BY <1>1, <2>1, <2>2 DEF IndexInv
<1>12. QED
  BY <1>1, <1>10, <1>11 DEF KillInv, MaxInv

(* Kill: every count in the file, torn records' too, is at most a valid    *)
(* one.                                                                    *)
LEMMA KillKill ==
  ASSUME ShardInv, KillInv, Kill
  PROVE  KillInv'
<1>1. /\ file' = file /\ pc' = "recover" /\ op' = Nothing /\ index' = EmptyIndex /\ pos' = 0
      /\ reply' = Nothing
  BY DEF Kill, Restart
<1>2. \A q \in Offsets : ~(q < pos')
  BY <1>1, Sizes
<1>3. \A k \in AllKeys : index'[k] = Nothing
  BY <1>1 DEF EmptyIndex
<1>4. IndexInv'
  BY <1>1, <1>2, <1>3 DEF IndexInv
<1>5. ASSUME NEW o \in Offsets, file[o].tail > 0
      PROVE  \E q \in Offsets : Valid(file[q]) /\ file[o].tail <= file[q].tail
  <2>1. CASE pc = "recover"
    BY <1>5, <2>1 DEF KillInv, MaxInv
  <2>2. CASE pc # "recover" /\ ~Done(o)
    <3>1. PICK k \in AllKeys : index[k] # Nothing /\ file[o].tail <= file[index[k]].tail
      BY <1>5, <2>2 DEF KillInv, TailsRise
    <3>2. index[k] \in Offsets /\ Valid(file[index[k]])
      BY <3>1, ItemsOf DEF KillInv, IndexInv
    <3>3. QED
      BY <3>1, <3>2
  <2>3. CASE Done(o)
    <3>1. Valid(file[o])
      BY <2>3, Complete DEF Done
    <3>2. QED
      BY <3>1, ItemsOf
  <2>4. QED
    BY <2>1, <2>2, <2>3
<1>6. MaxInv'
  BY <1>1, <1>2, <1>5 DEF MaxInv
<1>7. QED
  BY <1>1, <1>4, <1>6 DEF KillInv, TailsRise

(* One iteration of IndexCallback: of two records of a key the one with    *)
(* the higher count is kept.                                               *)
LEMMA RecoverItemKill ==
  ASSUME ShardInv, KillInv, RecoverItem
  PROVE  KillInv'
<1>1. PICK k : k = KeyOf(file[pos])
  OBVIOUS
<1>2. PICK cnt : cnt = ReadKV_KVs(file[pos])
  OBVIOUS
<1>3. /\ pc = "recover" /\ op = Nothing /\ pos \in Offsets
      /\ \A q \in Items : q < pos' <=> q < pos \/ q = pos
  BY WalkStep DEF ShardInv, Typed
<1>4. IsItem(file[pos]) /\ k \in AllKeys /\ file[pos].tail \in Nat
  BY <1>1, <1>3, ItemsOf
<1>5. /\ file[pos].vsize # 0 /\ cnt # 0
      /\ max_set_cnt' = IF cnt > max_set_cnt THEN cnt ELSE max_set_cnt
      /\ UNCHANGED <<file, pc, op, reply>>
      /\ max_set_cnt \in Nat
  BY <1>2, ShardAssumption DEF RecoverItem, ShardInv, Typed
<1>6. Valid(file[pos]) <=> cnt # TornCnt
  BY <1>2, <1>5 DEF Valid
<1>7. Valid(file[pos]) => cnt = file[pos].tail
  BY <1>2, <1>4, ValidIs
<1>8. index' = index \/ index' = [index EXCEPT ![k] = pos]
  BY <1>1, <1>2 DEF RecoverItem
<1>9. /\ \A l \in AllKeys : l # k => index'[l] = index[l]
      /\ index'[k] = index[k] \/ index'[k] = pos
      /\ pos # Nothing
  <2>1. index \in [AllKeys -> Offsets \cup {Nothing}]
    BY DEF ShardInv, Typed
  <2>2. pos # Nothing
    BY <1>3, Sizes, ShardAssumption
  <2>3. QED
    BY <1>4, <1>8, <2>1, <2>2
<1>10. \/ ~Valid(file[pos]) /\ index'[k] = index[k]
       \/ Valid(file[pos]) /\ index[k] = Nothing /\ index'[k] = pos
       \/ Valid(file[pos]) /\ index[k] # Nothing /\ file[pos].tail > file[index[k]].tail
          /\ index'[k] = pos
       \/ Valid(file[pos]) /\ index[k] # Nothing /\ ~(file[pos].tail > file[index[k]].tail)
          /\ index'[k] = index[k]
  <2>1. index \in [AllKeys -> Offsets \cup {Nothing}]
    BY DEF ShardInv, Typed
  <2>2. \/ cnt = TornCnt /\ index' = index
        \/ cnt # TornCnt /\ index[k] = Nothing /\ index' = [index EXCEPT ![k] = pos]
        \/ cnt # TornCnt /\ index[k] # Nothing /\ cnt > file[index[k]].tail
           /\ index' = [index EXCEPT ![k] = pos]
        \/ cnt # TornCnt /\ index[k] # Nothing /\ ~(cnt > file[index[k]].tail) /\ index' = index
    BY <1>1, <1>2 DEF RecoverItem, Supersedes
  <2>3. QED
    BY <1>4, <1>6, <1>7, <2>1, <2>2
<1>11. /\ \A o \in Offsets : IsItem(file[o]) /\ file[o].tail \in Nat
       /\ \A o \in Offsets : Valid(file[o]) => o \in Items
       /\ \A o \in Offsets : KeyOf(file[o]) \in AllKeys
       /\ \A l \in AllKeys : index[l] # Nothing => index[l] \in Offsets
  BY ItemsOf
<1>12. \A l \in AllKeys : index'[l] # Nothing => Valid(file[index'[l]]) /\ KeyOf(file[index'[l]]) = l
  <2> SUFFICES ASSUME NEW l \in AllKeys, index'[l] # Nothing
               PROVE  Valid(file[index'[l]]) /\ KeyOf(file[index'[l]]) = l
    OBVIOUS
  <2>1. CASE index'[l] = index[l]
    BY <2>1 DEF KillInv, IndexInv
  <2>2. CASE index'[l] # index[l]
    BY <1>1, <1>9, <1>10, <2>2
  <2>3. QED
    BY <2>1, <2>2
<1>13. ASSUME NEW o \in Offsets, Valid(file[o]), o < pos'
       PROVE  index'[KeyOf(file[o])] # Nothing /\ file[o].tail <= file[index'[KeyOf(file[o])]].tail
  <2>1. o < pos \/ o = pos
    BY <1>3, <1>11, <1>13
  <2>2. CASE o < pos
    <3>1. index[KeyOf(file[o])] # Nothing /\ file[o].tail <= file[index[KeyOf(file[o])]].tail
      BY <1>3, <1>13, <2>2 DEF KillInv, IndexInv, Done
    <3>2. CASE KeyOf(file[o]) # k
      BY <1>9, <1>11, <3>1, <3>2
    <3>3. CASE KeyOf(file[o]) = k
      <4>1. file[o].tail \in Nat /\ file[pos].tail \in Nat /\ file[index[k]].tail \in Nat
        BY <1>3, <1>4, <1>11, <3>1, <3>3
      <4>2. file[o].tail <= file[index[k]].tail /\ index[k] # Nothing
        BY <3>1, <3>3
      <4>3. QED
        BY <1>9, <1>10, <3>3, <4>1, <4>2
    <3>4. QED
      BY <3>2, <3>3
  <2>3. CASE o = pos
    <3>1. Valid(file[pos]) /\ KeyOf(file[o]) = k
      BY <1>1, <1>13, <2>3
    <3>2. index[k] # Nothing => file[index[k]].tail \in Nat
      BY <1>4, <1>11
    <3>3. QED
      BY <1>4, <1>9, <1>10, <2>3, <3>1, <3>2
  <2>4. QED
    BY <2>1, <2>2, <2>3
<1>14. IndexInv'
  BY <1>3, <1>5, <1>12, <1>13 DEF IndexInv
<1>15. ASSUME NEW o \in Offsets, Valid(file[o]), o < pos'
       PROVE  file[o].tail <= max_set_cnt'
  <2>1. o < pos \/ o = pos
    BY <1>3, <1>11, <1>15
  <2>2. cnt \in Int
    BY <1>2, <1>4, ValidIs
  <2>3. CASE o < pos
    <3>1. file[o].tail <= max_set_cnt
      BY <1>3, <1>15, <2>3 DEF KillInv, MaxInv
    <3>2. file[o].tail \in Nat
      BY <1>11
    <3>3. QED
      BY <1>5, <2>2, <3>1, <3>2
  <2>4. CASE o = pos
    BY <1>4, <1>5, <1>7, <1>15, <2>4
  <2>5. QED
    BY <2>1, <2>3, <2>4
<1>16. MaxInv'
  BY <1>3, <1>5, <1>15 DEF KillInv, MaxInv
<1>17. QED
  BY <1>3, <1>5, <1>14, <1>16 DEF KillInv, TailsRise

(* The shard's counter restarts above every count in the file.             *)
LEMMA RecoverEndKill ==
  ASSUME ShardInv, KillInv, RecoverEnd
  PROVE  KillInv'
<1>1. /\ pc = "recover" /\ pc' = "idle" /\ ~Exists(file[pos])
      /\ key_set_cnts_f' = max_set_cnt
      /\ UNCHANGED <<file, index, op, reply>>
  BY DEF RecoverEnd, Exists
<1>2. op = Nothing /\ pos \in Offsets /\ max_set_cnt \in Nat
  BY <1>1, ShardAssumption DEF ShardInv, WriteInv, Typed
<1>3. \A q \in Items : q < pos
  <2>1. PICK e \in Offsets : Tiled(file, Items, e) /\ (pos \in Items \/ pos = e)
    BY <1>1 DEF ShardInv, LayoutInv
  <2>2. Tiled(file, Items, pos)
    BY <1>1, <2>1 DEF Items
  <2>3. \A q \in Offsets : file[q].chunk \in Chunks
    BY DEF ShardInv, Typed, IsItem
  <2>4. Items \in SUBSET Offsets
    BY DEF Items
  <2>5. QED
    BY <1>2, <2>2, <2>3, <2>4, NoneAtEnd
<1>4. \A q \in Offsets : ~Done(q) /\ ~Done(q)'
  BY <1>1, <1>2 DEF Done
<1>5. ASSUME NEW o \in Offsets, Valid(file[o])
      PROVE  /\ o < pos /\ file[o].tail <= max_set_cnt
             /\ KeyOf(file[o]) \in AllKeys
             /\ index[KeyOf(file[o])] # Nothing
             /\ file[o].tail <= file[index[KeyOf(file[o])]].tail
  <2>1. o < pos
    BY <1>3, <1>5, ItemsOf
  <2>2. QED
    BY <1>1, <1>4, <1>5, <2>1, ItemsOf DEF KillInv, IndexInv, MaxInv
<1>6. ASSUME NEW o \in Offsets, file[o].tail > 0
      PROVE  /\ file[o].tail <= max_set_cnt
             /\ \E k \in AllKeys : index[k] # Nothing /\ file[o].tail <= file[index[k]].tail
  <2>1. PICK q \in Offsets : Valid(file[q]) /\ file[o].tail <= file[q].tail
    BY <1>1, <1>6 DEF KillInv, MaxInv
  <2>2. PICK k \in AllKeys : k = KeyOf(file[q]) /\ index[k] # Nothing
    BY <1>5, <2>1
  <2>3. file[q].tail <= max_set_cnt /\ file[q].tail <= file[index[k]].tail
    BY <1>5, <2>1, <2>2
  <2>4. file[o].tail \in Nat /\ file[q].tail \in Nat /\ file[index[k]].tail \in Nat
    BY <2>2, ItemsOf
  <2>5. QED
    BY <1>2, <2>1, <2>2, <2>3, <2>4
<1>7. \A o \in Offsets : file[o].tail <= max_set_cnt
  <2>1. \A o \in Offsets : file[o].tail \in Nat
    BY ItemsOf
  <2>2. QED
    BY <1>2, <1>6, <2>1
<1>8. TailsRise'
  BY <1>1, <1>2, <1>6, <1>7 DEF TailsRise
<1>9. IndexInv'
  BY <1>1, <1>5 DEF KillInv, IndexInv
<1>10. QED
  BY <1>1, <1>8, <1>9 DEF KillInv, MaxInv

(* Steps that change neither the file nor the index.                       *)
LEMMA SteadyKill ==
  ASSUME ShardInv, KillInv, UNCHANGED <<file, index, op, key_set_cnts_f, pc, pos, max_set_cnt>>,
         pc # "idle" => reply' = reply
  PROVE  KillInv'
<1>1. \A q \in Offsets : Done(q)' <=> Done(q)
  BY DEF Done
<1>2. TailsRise'
  BY <1>1 DEF KillInv, TailsRise
<1>3. IndexInv'
  BY <1>1 DEF KillInv, IndexInv
<1>4. MaxInv'
  BY DEF KillInv, MaxInv
<1>5. QED
  BY <1>2, <1>3, <1>4 DEF KillInv

(* KillInv is inductive when the power stays.                              *)
LEMMA KillNext ==
  ASSUME OnlyKills, ShardInv, KillInv, [Next]_vars
  PROVE  KillInv'
<1>1. ASSUME NEW k \in Keys, NEW v \in Values, Set(k, v)
      PROVE  KillInv'
  BY <1>1, SetKill
<1>2. CASE Store
  BY <1>2, StoreKill
<1>3. CASE Persist
  BY <1>3, SameKill DEF Persist, dram, loop, KillInv
<1>4. CASE Return
  BY <1>4, ReturnKill
<1>5. ASSUME NEW k \in Keys, Get(k)
      PROVE  KillInv'
  BY <1>5, SteadyKill DEF Get, dram, loop
<1>6. CASE Kill
  BY <1>6, KillKill
<1>7. CASE PowerLoss
  BY <1>7 DEF PowerLoss, OnlyKills
<1>8. CASE RecoverItem
  BY <1>8, RecoverItemKill
<1>9. CASE RecoverEnd
  BY <1>9, RecoverEndKill
<1>10. CASE UNCHANGED vars
  BY <1>10, SteadyKill DEF vars, dram, loop
<1>11. QED
  BY <1>1, <1>2, <1>3, <1>4, <1>5, <1>6, <1>7, <1>8, <1>9, <1>10 DEF Next, Crash, Recover

(* Without power losses, the counts and the index are right in every       *)
(* reachable state.                                                        *)
THEOREM KillInvariant ==
  ASSUME OnlyKills
  PROVE  Spec => [](ShardInv /\ KillInv)
<1>1. Init => ShardInv /\ KillInv
  BY InitShard, InitKill
<1>2. ShardInv /\ KillInv /\ [Next]_vars => (ShardInv /\ KillInv)'
  BY NextStep, KillNext
<1>3. QED
  BY <1>1, <1>2, PTL DEF Spec

(* NothingPastEnd: recovery's walk stops at the end of the items, also     *)
(* after a Set there was killed at any of its stores.                      *)
THEOREM NothingPastEndAlways ==
  ASSUME OnlyKills
  PROVE  Spec => []NothingPastEnd
<1>1. ShardInv /\ KillInv => NothingPastEnd
  <2> SUFFICES ASSUME ShardInv, KillInv
               PROVE  NothingPastEnd
    OBVIOUS
  <2>1. \A o \in Offsets : file[o].vsize # 0 => o \in Items
    BY ItemsOf DEF KillInv, Items, Exists, ReadKV_KVs, TornCnt
  <2>2. \A q \in Offsets : file[q].chunk \in Chunks
    BY DEF ShardInv, Typed, IsItem
  <2>3. Items \in SUBSET Offsets /\ file_end_offset \in Offsets
    BY DEF Items, ShardInv, Typed
  <2>4. ASSUME pc # "recover", NEW o \in Items
        PROVE  o < file_end_offset
    <3>1. CASE ~Fresh
      <4>1. Tiled(file, Items, file_end_offset)
        BY <2>4, <3>1 DEF ShardInv, LayoutInv
      <4>2. QED
        BY <2>2, <2>3, <4>1, NoneAtEnd
    <3>2. CASE Fresh
      <4>1. Tiled(file, Items \ {op.off}, op.off)
        BY <2>4, <3>2 DEF ShardInv, LayoutInv
      <4>2. /\ op.off \in Offsets /\ op.val \in Values
            /\ op.off + calSizeFromIdx(Fit(op.val)) = file_end_offset
        <5>1. pc = "store" /\ op # Nothing /\ op \in Ops
          BY <3>2 DEF Fresh, ShardInv, WriteInv, Typed
        <5>2. QED
          BY <3>2, <5>1 DEF Ops, ShardInv, WriteInv
      <4>3. op.off \in Nat /\ op.off < file_end_offset /\ file_end_offset \in Nat /\ o \in Nat
        <5>1. calSizeFromIdx(Fit(op.val)) \in Nat /\ calSizeFromIdx(Fit(op.val)) > 0
          BY <4>2, Sizes, FitIsChunk
        <5>2. op.off \in Nat /\ file_end_offset \in Nat /\ o \in Nat
          BY <2>3, <4>2, Sizes
        <5>3. QED
          BY <4>2, <5>1, <5>2
      <4>4. \A q \in Items \ {op.off} : q < op.off
        BY <2>2, <2>3, <4>1, <4>2, NoneAtEnd
      <4>5. QED
        BY <4>3, <4>4
    <3>3. QED
      BY <3>1, <3>2
  <2>5. pc # "recover" => \A o \in Offsets : o >= file_end_offset => file[o].vsize = 0
    <3> SUFFICES ASSUME pc # "recover", NEW o \in Offsets, o >= file_end_offset
                 PROVE  file[o].vsize = 0
      OBVIOUS
    <3>1. o \in Nat /\ file_end_offset \in Nat
      BY <2>3, Sizes
    <3>2. o \notin Items
      BY <2>4, <3>1
    <3>3. QED
      BY <2>1, <3>2
  <2>6. QED
    BY <2>5 DEF NothingPastEnd, ShardInv, OwnInv, Owns, Lists
<1>2. QED
  BY <1>1, KillInvariant, PTL

(* CountsDecide: no two valid records have the same count, and the         *)
(* counter, which recovery rebuilds from valid records only, is above      *)
(* every count.                                                            *)
THEOREM CountsDecideAlways ==
  ASSUME OnlyKills
  PROVE  Spec => []CountsDecide
<1>1. ShardInv /\ KillInv => CountsDecide
  <2> SUFFICES ASSUME ShardInv, KillInv
               PROVE  CountsDecide
    OBVIOUS
  <2>1. ASSUME pc # "recover", NEW o \in Offsets
        PROVE  file[o].tail <= key_set_cnts_f
    <3>1. file[o].tail \in Nat /\ key_set_cnts_f \in Nat
      BY ItemsOf, ShardAssumption DEF ShardInv, Typed
    <3>2. CASE op = Nothing
      BY <2>1, <3>2 DEF KillInv, TailsRise
    <3>3. CASE op # Nothing /\ ~Done(o)
      BY <2>1, <3>1, <3>3 DEF KillInv, TailsRise
    <3>4. CASE Done(o)
      BY <2>1, <3>1, <3>4, Complete DEF KillInv, TailsRise, Done
    <3>5. QED
      BY <3>2, <3>3, <3>4
  <2>2. QED
    BY <2>1 DEF CountsDecide, KillInv, Unique
<1>2. QED
  BY <1>1, KillInvariant, PTL

(* The record with the highest count of its key. *)
LEMMA LatestIs ==
  ASSUME ShardInv, KillInv, NEW k, NEW o \in Recoverable(k),
         \A q \in Recoverable(k) : file[q].tail <= file[o].tail
  PROVE  Latest(k) = o
<1>1. \A q \in Recoverable(k) : q \in Offsets /\ Valid(file[q]) /\ file[q].tail \in Nat
  BY ItemsOf DEF Recoverable
<1>2. Latest(k) \in Recoverable(k) /\ \A q \in Recoverable(k) : file[q].tail <= file[Latest(k)].tail
  BY DEF Latest
<1>3. file[Latest(k)].tail = file[o].tail
  BY <1>1, <1>2
<1>4. QED
  BY <1>1, <1>2, <1>3 DEF KillInv, Unique

(* The index points at the latest of the records of a key that no Set in   *)
(* progress has just completed.                                            *)
LEMMA IndexPointsAtLatest ==
  ASSUME ShardInv, KillInv, pc # "recover", NEW k \in AllKeys,
         \A o \in Recoverable(k) : ~Done(o)
  PROVE  index[k] = IF Recoverable(k) = {} THEN Nothing ELSE Latest(k)
<1>1. CASE index[k] = Nothing
  <2>1. ASSUME NEW o \in Recoverable(k)
        PROVE  FALSE
    <3>1. o \in Offsets /\ Valid(file[o]) /\ KeyOf(file[o]) = k /\ ~Done(o)
      BY DEF Recoverable
    <3>2. index[k] # Nothing
      BY <3>1 DEF KillInv, IndexInv
    <3>3. QED
      BY <1>1, <3>2
  <2>2. QED
    BY <1>1, <2>1
<1>2. CASE index[k] # Nothing
  <2>1. index[k] \in Recoverable(k)
    BY <1>2, ItemsOf DEF KillInv, IndexInv, Recoverable
  <2>2. \A q \in Recoverable(k) : file[q].tail <= file[index[k]].tail
    BY DEF KillInv, IndexInv, Recoverable
  <2>3. Latest(k) = index[k]
    BY <2>1, <2>2, LatestIs
  <2>4. QED
    BY <2>1, <2>3
<1>3. QED
  BY <1>1, <1>2

(* IndexIsLatest: between calls, after any kills and recoveries, the index *)
(* points at each key's record of the highest count.                       *)
THEOREM IndexIsLatestAlways ==
  ASSUME OnlyKills
  PROVE  Spec => []IndexIsLatest
<1>1. ShardInv /\ KillInv => IndexIsLatest
  <2> SUFFICES ASSUME ShardInv, KillInv, pc = "idle", NEW k \in AllKeys
               PROVE  index[k] = IF Recoverable(k) = {} THEN Nothing ELSE Latest(k)
    BY DEF IndexIsLatest
  <2>1. \A o \in Offsets : ~Done(o)
    BY DEF ShardInv, WriteInv, Done
  <2>2. Recoverable(k) \subseteq Offsets
    BY DEF Recoverable
  <2>3. QED
    BY <2>1, <2>2, IndexPointsAtLatest
<1>2. QED
  BY <1>1, KillInvariant, PTL

------------------------------------------------------------------------------
(* Refinement                                                              *)


(* A new file holds no records.                                            *)
LEMMA ZeroRecoverable ==
  ASSUME Init
  PROVE  \A k : Recoverable(k) = {}
BY ZeroItemIs DEF Init, Recoverable

(* What the file alone says a key's value is, against what Get answers.    *)
LEMMA LatestHeld ==
  ASSUME ShardInv, KillInv, pc # "recover", NEW k \in Keys
  PROVE  Durable(k) = IF op # Nothing /\ op.todo = << >> /\ op.key = k
                      THEN Intact(op.val) ELSE Lookup(k)
<1>1. k \in AllKeys
  BY KeysAreAllKeys
<1>2. CASE op # Nothing /\ op.todo = << >> /\ op.key = k
  <2>1. /\ op.off \in Offsets /\ Valid(file[op.off]) /\ file[op.off].tail = op.cnt
        /\ KeyOf(file[op.off]) = k /\ ReadKV_Data(file[op.off]) = Intact(op.val)
    BY <1>2, Complete
  <2>2. op.off \in Recoverable(k)
    BY <2>1 DEF Recoverable
  <2>3. \A q \in Recoverable(k) : file[q].tail <= file[op.off].tail
    <3>1. \A q \in Offsets : q # op.off => file[q].tail < op.cnt
      BY <1>2 DEF KillInv, TailsRise, Done
    <3>2. \A q \in Offsets : file[q].tail \in Nat
      BY ItemsOf
    <3>3. \A q \in Offsets : file[q].tail <= file[op.off].tail
      BY <2>1, <3>1, <3>2
    <3>4. QED
      BY <3>3 DEF Recoverable
  <2>4. Latest(k) = op.off
    BY <2>2, <2>3, LatestIs
  <2>5. QED
    BY <1>2, <2>1, <2>2, <2>4 DEF Durable
<1>3. CASE ~(op # Nothing /\ op.todo = << >> /\ op.key = k)
  <2>1. \A o \in Recoverable(k) : ~Done(o)
    BY <1>3, Complete DEF Recoverable, Done
  <2>2. index[k] = IF Recoverable(k) = {} THEN Nothing ELSE Latest(k)
    BY <1>1, <2>1, IndexPointsAtLatest
  <2>3. Recoverable(k) # {} => Latest(k) # Nothing
    <3>1. ASSUME NEW o \in Recoverable(k)
          PROVE  index[k] # Nothing
      <4>1. o \in Offsets /\ Valid(file[o]) /\ KeyOf(file[o]) = k /\ ~Done(o)
        BY <2>1 DEF Recoverable
      <4>2. QED
        BY <4>1 DEF KillInv, IndexInv
    <3>2. QED
      BY <2>2, <3>1
  <2>4. QED
    BY <1>3, <2>2, <2>3 DEF Durable, Lookup
<1>4. QED
  BY <1>2, <1>3

(* What Get answers, or the Set that has stored all of its record, is what *)
(* the file alone says.                                                    *)
DurableIs ==
  pc # "recover" =>
    \A k \in Keys : Durable(k) = IF op # Nothing /\ op.todo = << >> /\ op.key = k
                                 THEN Intact(op.val) ELSE Lookup(k)

(* It is so in every state,                                                *)
LEMMA DurableNow == ShardInv /\ KillInv => DurableIs
BY LatestHeld DEF DurableIs

(* and in the next.                                                        *)
LEMMA DurableNext == ShardInv' /\ KillInv' => DurableIs'
BY DurableNow, PTL

(* What is durable is a matter of the file alone.                          *)
LEMMA SameFile ==
  ASSUME file' = file
  PROVE  \A k \in Keys : Durable(k)' = Durable(k)
BY DEF Durable, Recoverable, Latest

(* The Set in progress, as KVStore sees it. *)
CallBar == IF op = Nothing THEN Nothing
           ELSE [key |-> op.key, answer |-> Intact(op.val), done |-> op.todo = << >>]

(* A Set in progress is a call for KVStore.                                *)
LEMMA CallBarIs ==
  ASSUME Typed, op # Nothing
  PROVE  /\ CallBar = [key |-> op.key, answer |-> Intact(op.val), done |-> op.todo = << >>]
         /\ CallBar # Nothing
<1>1. op \in Ops
  BY DEF Typed
<1>2. op.key \in Keys /\ op.val \in Values
  BY <1>1 DEF Ops
<1>3. PICK d \in BOOLEAN : d = (op.todo = << >>)
  OBVIOUS
<1>4. CallBar = [key |-> op.key, answer |-> Intact(op.val), done |-> d]
  BY <1>3 DEF CallBar
<1>5. CallBar \in [key : Keys, answer : {Intact(v) : v \in Values}, done : BOOLEAN]
  BY <1>2, <1>4
<1>6. QED
  BY <1>5, NothingAssumption DEF CallBar

(* The refinement begins: nothing is stored and no call is in progress.    *)
LEMMA KVInit == Init => DurableKV!Init
<1> SUFFICES ASSUME Init
             PROVE  DurableKV!Init
  OBVIOUS
<1>1. \A k \in Keys : Durable(k) = NotFound
  BY ZeroRecoverable DEF Durable
<1>2. op = Nothing /\ pc = "idle" /\ reply = Nothing
  BY DEF Init
<1>3. QED
  BY <1>1, <1>2 DEF DurableKV!Init

(* Set begins a call of KVStore.                                           *)
LEMMA KVSet ==
  ASSUME ShardInv, ShardInv', NEW k \in Keys, NEW v \in Values, Set(k, v)
  PROVE  DurableKV!Begin(k, Intact(v))
<1>1. PICK o \in Offsets, fresh \in BOOLEAN :
        op' = [key |-> k, val |-> v, off |-> o, old |-> index[k], cnt |-> key_set_cnts_f',
               todo |-> IF fresh THEN CreateKV_Data ELSE SetKV_Data]
  BY DEF Set
<1>2. pc = "idle" /\ pc' = "store" /\ reply' = Nothing /\ file' = file
  BY DEF Set
<1>3. op = Nothing /\ op' # Nothing
  BY <1>2 DEF ShardInv, WriteInv
<1>4. op'.key = k /\ op'.val = v /\ op'.todo # << >>
  BY <1>1 DEF CreateKV_Data, SetKV_Data
<1>5. \A l \in Keys : Durable(l)' = Durable(l)
  BY <1>2, SameFile
<1>6. QED
  BY <1>2, <1>3, <1>4, <1>5 DEF DurableKV!Begin

(* The store of the trailing count is KVStore's Apply; KVStore sees no     *)
(* other store.                                                            *)
LEMMA KVStorePart ==
  ASSUME ShardInv, KillInv, ShardInv', KillInv', Store
  PROVE  DurableKV!Apply \/ UNCHANGED DurableKV!vars
<1>1. PICK o, p, r, i, j : Storing(o, p, r, i, j)
  BY DEF Storing
<1>2. /\ o \in Offsets /\ op \in Ops /\ op.todo # << >>
      /\ \A q \in Offsets : q # o => file'[q] = file[q]
      /\ op' \in Ops /\ op'.key = op.key /\ op'.val = op.val
      /\ op'.todo = Tail(op.todo)
  BY <1>1, Stored
<1>3. o = op.off /\ op # Nothing /\ op' # Nothing /\ op.key \in Keys
  BY <1>1, <1>2, OpsAreCalls DEF Storing, Ops
<1>4. pc = "store" /\ pc' = "store" /\ index' = index /\ reply' = reply /\ reply = Nothing
  BY DEF Store, dram, KillInv
<1>5. \A k \in Keys : Lookup(k)' = Lookup(k)
  <2>1. \A k \in AllKeys : index[k] # Nothing => file'[index[k]] = file[index[k]]
    BY <1>2, <1>3, IndexedElsewhere, ItemsOf
  <2>2. QED
    BY <1>4, <2>1, KeysAreAllKeys DEF Lookup
<1>6. \A k \in Keys : Durable(k) = Lookup(k)
  BY <1>2, <1>4, DurableNow DEF DurableIs
<1>7. \A k \in Keys : Durable(k)' = IF op'.todo = << >> /\ op.key = k
                                    THEN Intact(op.val) ELSE Lookup(k)
  BY <1>2, <1>3, <1>4, <1>5, DurableNext DEF DurableIs
<1>8. CASE op'.todo = << >>
  <2>1. [k \in Keys |-> Durable(k)']
          = [[k \in Keys |-> Durable(k)] EXCEPT ![op.key] = Intact(op.val)]
    BY <1>3, <1>6, <1>7, <1>8
  <2>2. CallBar = [key |-> op.key, answer |-> Intact(op.val), done |-> FALSE] /\ CallBar # Nothing
    BY <1>2, <1>3, CallBarIs DEF ShardInv
  <2>3. CallBar' = [key |-> op.key, answer |-> Intact(op.val), done |-> TRUE]
    BY <1>2, <1>3, <1>8 DEF CallBar
  <2>4. CallBar' = [CallBar EXCEPT !.done = TRUE]
    <3>1. PICK c : c = [CallBar EXCEPT !.done = TRUE]
      OBVIOUS
    <3>2. CallBar \in [key : {op.key}, answer : {Intact(op.val)}, done : BOOLEAN]
      BY <2>2
    <3>3. c \in [key : {op.key}, answer : {Intact(op.val)}, done : BOOLEAN] /\ c.done = TRUE
      BY <3>1, <3>2
    <3>4. c = [key |-> c.key, answer |-> c.answer, done |-> c.done]
          /\ c.key = op.key /\ c.answer = Intact(op.val)
      BY <3>3
    <3>5. c = [key |-> op.key, answer |-> Intact(op.val), done |-> TRUE]
      BY <3>3, <3>4
    <3>6. QED
      BY <2>3, <3>1, <3>5
  <2>5. QED
    BY <1>4, <2>1, <2>2, <2>4 DEF DurableKV!Apply, CallBar
<1>9. CASE op'.todo # << >>
  <2>1. \A k \in Keys : Durable(k)' = Durable(k)
    BY <1>6, <1>7, <1>9
  <2>2. CallBar' = CallBar
    BY <1>2, <1>3, <1>9 DEF CallBar
  <2>3. QED
    BY <1>4, <2>1, <2>2 DEF DurableKV!vars, CallBar
<1>10. QED
  BY <1>8, <1>9

(* Steps KVStore does not see, and the ones that leave the file alone. *)
LEMMA KVSame ==
  ASSUME UNCHANGED <<file, op, reply>>, (pc = "recover") = (pc' = "recover")
  PROVE  UNCHANGED DurableKV!vars
<1>1. \A k \in Keys : Durable(k)' = Durable(k)
  BY SameFile
<1>2. CallBar' = CallBar
  BY DEF CallBar
<1>3. QED
  BY <1>1, <1>2 DEF DurableKV!vars, CallBar

(* Return is KVStore's, after Apply.                                       *)
LEMMA KVReturn ==
  ASSUME ShardInv, KillInv, Return
  PROVE  DurableKV!Return
<1>1. /\ pc = "return" /\ pc' = "idle" /\ op' = Nothing /\ file' = file /\ reply' = reply
  BY DEF Return
<1>2. reply = Nothing /\ op # Nothing /\ op.todo = << >>
  BY <1>1 DEF ShardInv, WriteInv, KillInv
<1>3. \A k \in Keys : Durable(k)' = Durable(k)
  BY <1>1, SameFile
<1>4. CallBar = [key |-> op.key, answer |-> Intact(op.val), done |-> TRUE] /\ CallBar # Nothing
  BY <1>2, CallBarIs DEF ShardInv
<1>5. CallBar' = Nothing /\ CallBar.done
  BY <1>1, <1>4 DEF CallBar
<1>6. QED
  BY <1>1, <1>2, <1>3, <1>4, <1>5 DEF DurableKV!Return, CallBar

(* Get answers with what is durable.                                       *)
LEMMA KVGet ==
  ASSUME ShardInv, KillInv, NEW k \in Keys, Get(k)
  PROVE  DurableKV!Get(k)
<1>1. pc = "idle" /\ pc' = "idle" /\ reply' = Lookup(k) /\ file' = file /\ op' = op
  BY DEF Get
<1>2. op = Nothing
  BY <1>1 DEF ShardInv, WriteInv
<1>3. Durable(k) = Lookup(k)
  BY <1>1, <1>2, DurableNow DEF DurableIs
<1>4. \A l \in Keys : Durable(l)' = Durable(l)
  BY <1>1, SameFile
<1>5. QED
  BY <1>1, <1>2, <1>3, <1>4 DEF DurableKV!Get

(* A kill loses nothing of what is durable.                                *)
LEMMA KVKill ==
  ASSUME Kill
  PROVE  DurableKV!Crash
<1>1. file' = file /\ pc' = "recover" /\ op' = Nothing /\ reply' = Nothing
  BY DEF Kill, Restart
<1>2. \A l \in Keys : Durable(l)' = Durable(l)
  BY <1>1, SameFile
<1>3. QED
  BY <1>1, <1>2 DEF DurableKV!Crash

(* The end of recovery is KVStore's Recovered.                             *)
LEMMA KVRecovered ==
  ASSUME KillInv, RecoverEnd
  PROVE  DurableKV!Recovered
<1>1. pc = "recover" /\ pc' = "idle" /\ UNCHANGED <<file, op, reply>>
  BY DEF RecoverEnd
<1>2. reply = Nothing
  BY <1>1 DEF KillInv
<1>3. \A l \in Keys : Durable(l)' = Durable(l)
  BY <1>1, SameFile
<1>4. QED
  BY <1>1, <1>2, <1>3 DEF DurableKV!Recovered

(* ImplementsKVStore: a Set that returned survives any kill, at any point  *)
(* of recovery too, and a killed Set happens entirely or not at all.       *)
THEOREM ShardIsDurable ==
  ASSUME OnlyKills
  PROVE  Spec => ImplementsKVStore
<1>1. Init => DurableKV!Init
  BY KVInit
<1>2. ASSUME ShardInv, KillInv, ShardInv', KillInv', [Next]_vars
      PROVE  [DurableKV!Next]_DurableKV!vars
  <2>1. ASSUME NEW k \in Keys, NEW v \in Values, Set(k, v)
        PROVE  DurableKV!Next
    BY <1>2, <2>1, KVSet DEF DurableKV!Next
  <2>2. CASE Store
    BY <1>2, <2>2, KVStorePart DEF DurableKV!Next
  <2>3. CASE Persist
    BY <2>3, KVSame DEF Persist
  <2>4. CASE Return
    BY <1>2, <2>4, KVReturn DEF DurableKV!Next
  <2>5. ASSUME NEW k \in Keys, Get(k)
        PROVE  DurableKV!Next
    BY <1>2, <2>5, KVGet DEF DurableKV!Next
  <2>6. CASE Kill
    BY <2>6, KVKill DEF DurableKV!Next
  <2>7. CASE PowerLoss
    BY <2>7 DEF PowerLoss, OnlyKills
  <2>8. CASE RecoverItem
    BY <2>8, KVSame DEF RecoverItem
  <2>9. CASE RecoverEnd
    BY <1>2, <2>9, KVRecovered DEF DurableKV!Next
  <2>10. CASE UNCHANGED vars
    BY <2>10, KVSame DEF vars
  <2>11. QED
    BY <1>2, <2>1, <2>2, <2>3, <2>4, <2>5, <2>6, <2>7, <2>8, <2>9, <2>10 DEF Next, Crash, Recover
<1>3. QED
  BY <1>1, <1>2, KillInvariant, PTL DEF Spec, ImplementsKVStore, DurableKV!Spec

(* CrashKeepsReturnedSets, which a power loss violates, holds of every     *)
(* kill.                                                                   *)
THEOREM KillsKeepReturnedSets ==
  ASSUME OnlyKills
  PROVE  Spec => CrashKeepsReturnedSets
<1>1. ASSUME ShardInv, KillInv, Crash, pc # "recover", NEW k \in Keys
      PROVE  Durable(k)' \in
               {Lookup(k)} \cup {Intact(op.val) : o \in {o \in {op} : o # Nothing /\ o.key = k}}
  <2>1. file' = file
    BY <1>1 DEF Crash, Kill, PowerLoss, OnlyKills
  <2>2. Durable(k)' = Durable(k)
    BY <2>1, SameFile
  <2>3. Durable(k) = IF op # Nothing /\ op.todo = << >> /\ op.key = k
                     THEN Intact(op.val) ELSE Lookup(k)
    BY <1>1, DurableNow DEF DurableIs
  <2>4. QED
    BY <2>2, <2>3
<1>2. ShardInv /\ KillInv =>
        [Crash /\ pc # "recover" =>
           \A k \in Keys : Durable(k)' \in
             {Lookup(k)} \cup {Intact(op.val) : o \in {o \in {op} : o # Nothing /\ o.key = k}}]_vars
  BY <1>1
<1>3. QED
  BY <1>2, KillInvariant, PTL DEF Spec, CrashKeepsReturnedSets
==============================================================================
