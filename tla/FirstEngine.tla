------------------------------ MODULE FirstEngine ------------------------------
(***************************************************************************)
(* nvm_engine, the first version: one shard of its file and one client.  A *)
(* record has one count of one byte, its place on the free lists is a FIFO *)
(* queue per chunk, and the index keeps offsets only: a search compares    *)
(* the key with the one in the file.  The process can be killed between    *)
(* the steps of a Set; inside CreateKV_Data and SetKV_Data it is not, for  *)
(* nothing in this version tells a torn record from a whole one.           *)
(***************************************************************************)
EXTENDS Integers, Sequences

CONSTANTS
  Keys, Values,
  SizeOf,        \* SizeOf[v]: the length of v in bytes
  Hash, Slots,   \* Hash[k] \in 0..Slots-1: the position of k in the index
  FileSize,      \* bytes of the shard
  CntMod,        \* 256: the count of a record is one byte
  MaxSets,       \* the bound on the Sets of one key
  NotFound, Nothing

VARIABLES
  disk,     \* offset -> the item there
  mem,      \* [index_offsets, free_space, file_end_offset_]
  client,   \* [op: "idle", "open" or the next step of a Set; its locals]
  reply,
  ghost     \* key -> [sets: the records written, latest: the last one's value]

vars == <<disk, mem, client, reply, ghost>>

EMPTY == -1
ItemSize(v) == 16 * ((SizeOf[v] + 35) \div 16)
calFreeSpaceIdx(v) == (ItemSize(v) - 112) \div 16
calSizeFromIdx(idx) == 112 + 16 * idx
Chunks == {calFreeSpaceIdx(v) : v \in Values}
Offsets == {16 * i : i \in 0..FileSize \div 16}
Blank == [key |-> Nothing, value |-> Nothing, cnt |-> 0, chunk |-> 0]   \* value_size 0

Fresh == [index_offsets |-> [p \in 0..Slots - 1 |-> EMPTY],
          free_space |-> [c \in Chunks |-> <<>>], file_end_offset_ |-> 0]
Idle == [op |-> "idle", key |-> Nothing, value |-> Nothing, old |-> EMPTY,
         hash_pos |-> 0, cnt |-> 0, new |-> EMPTY]
Opening == [Idle EXCEPT !.op = "open", !.new = 0]

Init ==
  /\ disk = [o \in Offsets |-> Blank]
  /\ mem = Fresh
  /\ client = Opening
  /\ reply = Nothing
  /\ ghost = [k \in Keys |-> [sets |-> 0, latest |-> NotFound]]

(* MyHashMap: the first position from the key's own one at which P holds. *)
FirstFrom(k, P(_)) ==
  LET at(i) == (Hash[k] + i) % Slots
  IN at(CHOOSE i \in 0..Slots - 1 : P(at(i)) /\ \A j \in 0..i - 1 : ~P(at(j)))
Unused(p) == mem.index_offsets[p] = EMPTY
get(k) == FirstFrom(k, LAMBDA p : Unused(p) \/ disk[mem.index_offsets[p]].key = k)
put(k) == FirstFrom(k, Unused)

(* RecycleKV_Data as it was first written, by the size of the value. *)
RecycleKV_Data_BySize(free, o) ==
  [free EXCEPT ![calFreeSpaceIdx(disk[o].value)] = Append(@, o)]

RecycleKV_Data(free, o) == [free EXCEPT ![disk[o].chunk] = Append(@, o)]

(* The count UpdateKV_Data gives to the record after one with the count c. *)
NextCnt_Same(c) == c
NextCnt_Wide(c) == c + 1
NextCnt(c) == (c + 1) % CntMod

(* The lookup and, in InsertKV_Data, the item: the first that fits from    *)
(* the free lists, or a new one.                                           *)
Set(k, v) ==
  LET pos == get(k)
      old == mem.index_offsets[pos]
      fits == {c \in Chunks : c >= calFreeSpaceIdx(v) /\ mem.free_space[c] # <<>>}
      chunk == CHOOSE c \in fits : \A d \in fits : c <= d
      Take(o) == client' = [op |-> "write", key |-> k, value |-> v, old |-> old,
                            hash_pos |-> pos, new |-> o,
                            cnt |-> IF old = EMPTY THEN 1 ELSE NextCnt(disk[old].cnt)]
  IN
  /\ client.op = "idle"
  /\ ghost[k].sets < MaxSets
  /\ IF fits # {}
     THEN /\ Take(Head(mem.free_space[chunk]))
          /\ mem' = [mem EXCEPT !.free_space[chunk] = Tail(@)]
     ELSE /\ mem.file_end_offset_ + ItemSize(v) <= FileSize   \* the bound
          /\ Take(mem.file_end_offset_)
          /\ mem' = [mem EXCEPT !.file_end_offset_ = @ + ItemSize(v)]
  /\ reply' = Nothing
  /\ UNCHANGED <<disk, ghost>>

(* CreateKV_Data in a new item; SetKV_Data in an old one keeps its chunk id. *)
Write ==
  LET new == disk[client.new] IN
  /\ client.op = "write"
  /\ disk' = [disk EXCEPT ![client.new] =
       [key |-> client.key, value |-> client.value, cnt |-> client.cnt,
        chunk |-> IF new = Blank THEN calFreeSpaceIdx(client.value) ELSE new.chunk]]
  /\ client' = [client EXCEPT !.op = IF client.old = EMPTY THEN "index" ELSE "recycle"]
  /\ ghost' = [ghost EXCEPT ![client.key] = [sets |-> @.sets + 1, latest |-> client.value]]
  /\ reply' = Nothing
  /\ UNCHANGED mem

Recycle ==
  /\ client.op = "recycle"
  /\ mem' = [mem EXCEPT !.free_space = RecycleKV_Data(@, client.old)]
  /\ client' = [client EXCEPT !.op = "index"]
  /\ reply' = Nothing
  /\ UNCHANGED <<disk, ghost>>

(* put or update, and Set returns. *)
Index ==
  /\ client.op = "index"
  /\ mem' = [mem EXCEPT !.index_offsets =
       [@ EXCEPT ![IF client.old = EMPTY THEN put(client.key) ELSE client.hash_pos] = client.new]]
  /\ client' = Idle
  /\ reply' = Nothing
  /\ UNCHANGED <<disk, ghost>>

Answer(k) ==
  LET o == mem.index_offsets[get(k)] IN IF o = EMPTY THEN NotFound ELSE disk[o].value

Get(k) ==
  /\ client.op = "idle"
  /\ reply' = Answer(k)
  /\ UNCHANGED <<disk, mem, client, ghost>>

(* The process stops, and CreateOrOpen starts with fresh objects. *)
Stop ==
  /\ mem' = Fresh
  /\ client' = Opening
  /\ reply' = Nothing
  /\ UNCHANGED <<disk, ghost>>

(* One round of IndexCallback's loop, at the offset client.new. *)
RecoverItem ==
  LET pos == client.new
      item == disk[pos]
      at == get(item.key)
      old == mem.index_offsets[at]
      newer == old # EMPTY /\ item.cnt > disk[old].cnt
  IN
  /\ client.op = "open"
  /\ item # Blank
  /\ mem' = [mem EXCEPT
       !.index_offsets[at] = IF old = EMPTY \/ newer THEN pos ELSE @,
       !.free_space = IF old = EMPTY THEN @ ELSE RecycleKV_Data(@, IF newer THEN old ELSE pos)]
  /\ client' = [client EXCEPT !.new = pos + calSizeFromIdx(item.chunk)]
  /\ reply' = Nothing
  /\ UNCHANGED <<disk, ghost>>

RecoverEnd ==
  /\ client.op = "open"
  /\ disk[client.new] = Blank
  /\ mem' = [mem EXCEPT !.file_end_offset_ = client.new]
  /\ client' = Idle
  /\ reply' = Nothing
  /\ UNCHANGED <<disk, ghost>>

Next ==
  \/ \E k \in Keys, v \in Values : Set(k, v)
  \/ Write
  \/ Recycle
  \/ Index
  \/ \E k \in Keys : Get(k)
  \/ Stop
  \/ RecoverItem
  \/ RecoverEnd

------------------------------------------------------------------------------
(* While its count has not wrapped, a key has the value of its last record, *)
(* over any Sets, kills and recoveries.                                     *)
KeepsTheLatest ==
  client.op = "idle" =>
    \A k \in Keys : ghost[k].sets < CntMod => Answer(k) = ghost[k].latest

(* Every record below the end is in the index once, or once in the queue of *)
(* its chunk.                                                               *)
ItemsOwnedOnce ==
  LET items == {o \in Offsets : disk[o] # Blank}
      indexed(o) == {p \in 0..Slots - 1 : mem.index_offsets[p] = o}
      queued(o) == UNION {{<<c, i>> : i \in {j \in DOMAIN mem.free_space[c] :
                                               mem.free_space[c][j] = o}} : c \in Chunks}
      Once(S) == \E x \in S : S = {x}
  IN client.op = "idle" =>
       \A o \in items : \/ Once(indexed(o)) /\ queued(o) = {}
                        \/ indexed(o) = {} /\ Once(queued(o)) /\ \A q \in queued(o) : q[1] = disk[o].chunk

TypeOK ==
  /\ mem.index_offsets \in [0..Slots - 1 -> Offsets \cup {EMPTY}]
  /\ mem.file_end_offset_ \in Offsets
  /\ \A c \in Chunks : \A i \in DOMAIN mem.free_space[c] : mem.free_space[c][i] \in Offsets
  /\ \A o \in Offsets : disk[o] = Blank \/ disk[o].cnt \in 0..CntMod - 1
  /\ client.op \in {"idle", "write", "recycle", "index", "open"}
  /\ reply \in Values \cup {NotFound, Nothing}
==============================================================================
