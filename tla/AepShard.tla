------------------------------- MODULE AepShard -------------------------------
(***************************************************************************)
(* One shard of nvm_engine_latest, used by one client thread: the shard of *)
(* the persistent-memory file, and in DRAM its index (hash.h) and its free *)
(* lists (posix_file_aep.h).  A Set is a sequence of stores to persistent  *)
(* memory; a crash may come between any two of them, and recovery (the     *)
(* engine's IndexCallback) rebuilds everything in DRAM from the file.      *)
(*                                                                         *)
(* Two kinds of crash are modelled.  "kill" ends the process: the stores   *)
(* made so far remain, in program order.  "power" cuts the power as        *)
(* judge-persistence/MyPinTool does: of the words stored since the last    *)
(* pmem_persist, any subset is lost.                                       *)
(*                                                                         *)
(* The index is a function from keys to offsets; MyHashMap.tla shows that  *)
(* the open-addressing table of hash.h is one.  The hot-key pool is        *)
(* HotKeyPool.tla's.                                                       *)
(***************************************************************************)
EXTENDS AepRecord, FiniteSets

CONSTANTS
  FileSize,      \* bytes in the shard: 64 GB / 16 in the code, bounded for TLC
  Reserve,       \* a free list with at most this many items is left alone: 15
  MaxFree,       \* MAX_FREE_SPACE_SIZE: a longer free list takes no more items
  MaxCnt,        \* bound on key_set_cnts_f, 2^32 - 2 in the code
  CrashKinds,    \* the crashes that may happen
  NotFound,      \* Get's status for a key that is not in the index
  Nothing        \* no offset, no call, no answer

ASSUME ShardAssumption ==
  /\ FileSize \in Nat
  /\ Reserve \in Nat
  /\ MaxFree \in Nat
  /\ MaxCnt \in Nat
  /\ CrashKinds \subseteq {"kill", "power"}
  /\ "power" \in CrashKinds => MaxIdx = 0    \* see PowerLoss
  /\ Nothing \notin Nat
  /\ NotFound # Nothing

SupSpace == 15           \* a search for a free item looks at 15 free lists

Offsets == {o \in 0..FileSize : o % Granule = 0}

(* The Sets in progress. *)
Calls == [key : Keys, val : Values, off : Offsets, old : Offsets \cup {Nothing},
          cnt : 1..MaxCnt, todo : Seq(Parts)]

(* Nothing is told from what it stands in place of. *)
ASSUME NothingAssumption ==
  /\ Nothing \notin Calls
  /\ Nothing \notin [key : Keys, answer : {Intact(v) : v \in Values}, done : BOOLEAN]

(* The keys an item can hold: a torn one mixes two keys, or a key and zeros. *)
AllKeys == ({k[1] : k \in Keys} \cup {Zero}) \X ({k[2] : k \in Keys} \cup {Zero})

VARIABLES
  file,              \* offset -> the item that begins there (fileptr_)
  write_log,         \* the item being written, as it was when last persisted
  index,             \* key -> offset of its record, or Nothing (MyHashMap)
  free_space,        \* chunk id -> stack of offsets of free items
  file_end_offset,   \* file_end_offset_: the end of the items in use
  key_set_cnts_f,    \* the count of the latest Set
  pc,                \* "idle", "store", "return", or "recover"
  op,                \* the Set in progress, or Nothing
  pos, max_set_cnt,  \* IndexCallback's loop variables
  reply              \* the answer of the Get that has just returned

dram == <<index, free_space, file_end_offset, key_set_cnts_f>>
loop == <<pos, max_set_cnt>>
vars == <<file, write_log, dram, pc, op, loop, reply>>

------------------------------------------------------------------------------
(* The state of a new engine object, before Recover. *)
EmptyIndex == [k \in AllKeys |-> Nothing]
EmptyFreeSpace == [c \in Chunks |-> << >>]

Init ==
  /\ file = [o \in Offsets |-> ZeroItem]
  /\ write_log = Nothing
  /\ index = EmptyIndex
  /\ free_space = EmptyFreeSpace
  /\ file_end_offset = 0
  /\ key_set_cnts_f = 0
  /\ pc = "idle"
  /\ op = Nothing
  /\ pos = 0
  /\ max_set_cnt = 0
  /\ reply = Nothing

(* A mistaken RecycleKV_Data that does not look at the item's chunk id.    *)
RecycleKV_Data_AnyList(fs, o) ==
  IF Len(fs[0]) < MaxFree THEN [fs EXCEPT ![0] = Append(@, o)] ELSE fs

(* RecycleKV_Data on the free lists fs: the item at o goes on top of the   *)
(* list of its chunk id, which is read from the file; a full list drops it.*)
RecycleKV_Data(fs, o) ==
  LET c == file[o].chunk
  IN IF Len(fs[c]) < MaxFree THEN [fs EXCEPT ![c] = Append(@, o)] ELSE fs

(* The chunk ids whose free lists have an item to spare for one of idx.    *)
Spare(idx) == {i \in Chunks : idx <= i /\ i < idx + SupSpace /\ Len(free_space[i]) > Reserve}

(* A free item to overwrite: the top of the first list that can spare one. *)
ReuseItem(idx, o) ==
  \E i \in Spare(idx) :
    /\ \A j \in Spare(idx) : i <= j
    /\ o = free_space[i][Len(free_space[i])]
    /\ free_space' = [free_space EXCEPT ![i] = SubSeq(@, 1, Len(@) - 1)]
    /\ UNCHANGED file_end_offset

(* A mistaken allocation: the end moves by the smallest item. *)
NewItem_MinSize(idx, o) ==
  /\ Spare(idx) = {}
  /\ o = file_end_offset
  /\ file_end_offset' = file_end_offset + MinItemSize
  /\ file_end_offset' <= FileSize
  /\ UNCHANGED free_space

(* If there is none, a new item at the end of the file.                    *)
NewItem(idx, o) ==
  /\ Spare(idx) = {}
  /\ o = file_end_offset
  /\ file_end_offset' = file_end_offset + calSizeFromIdx(idx)
  /\ file_end_offset' <= FileSize    \* bound: the code does not look
  /\ UNCHANGED free_space

(* Set, up to its first store: look the key up, take the next count, find  *)
(* an item.  AppendKV_Data and UpdateKV_Data do the same thing here.       *)
Set(k, v) ==
  /\ pc = "idle"
  /\ key_set_cnts_f < MaxCnt
  /\ key_set_cnts_f' = key_set_cnts_f + 1
  /\ \E o \in Offsets, fresh \in BOOLEAN :
       /\ IF fresh THEN NewItem(calFreeSpaceIdx(SizeOf[v]), o)
                   ELSE ReuseItem(calFreeSpaceIdx(SizeOf[v]), o)
       /\ op' = [key |-> k, val |-> v, off |-> o, old |-> index[k], cnt |-> key_set_cnts_f',
                 todo |-> IF fresh THEN CreateKV_Data ELSE SetKV_Data]
       /\ write_log' = file[o]
  /\ pc' = "store"
  /\ reply' = Nothing
  /\ UNCHANGED <<file, index, loop>>

(* The next store of SetKV_Data or CreateKV_Data.  A new item gets the     *)
(* chunk id of its value; a reused one keeps its own.                      *)
Store ==
  /\ pc = "store"
  /\ op.todo # << >>
  /\ LET p == Head(op.todo)
         r == Record(op.key, op.val, op.cnt, calFreeSpaceIdx(SizeOf[op.val]))
     IN file' = [file EXCEPT ![op.off][p] = r[p]]
  /\ op' = [op EXCEPT !.todo = Tail(@)]
  /\ UNCHANGED <<write_log, dram, pc, loop, reply>>

(* pmem_persist over the whole item. *)
Persist ==
  /\ pc = "store"
  /\ op.todo = << >>
  /\ write_log' = Nothing
  /\ pc' = "return"
  /\ UNCHANGED <<file, dram, op, loop, reply>>

(* The rest of Set: UpdateKV_Data recycles the old item, and the index is  *)
(* made to point at the new one.                                           *)
Return ==
  /\ pc = "return"
  /\ free_space' = IF op.old = Nothing THEN free_space ELSE RecycleKV_Data(free_space, op.old)
  /\ index' = [index EXCEPT ![op.key] = op.off]
  /\ pc' = "idle"
  /\ op' = Nothing
  /\ UNCHANGED <<file, write_log, file_end_offset, key_set_cnts_f, loop, reply>>

Lookup(k) == IF index[k] = Nothing THEN NotFound ELSE ReadKV_Data(file[index[k]])

Get(k) ==
  /\ pc = "idle"
  /\ reply' = Lookup(k)
  /\ UNCHANGED <<file, write_log, dram, pc, op, loop>>

------------------------------------------------------------------------------
(* Crash, and a new process that calls CreateOrOpen *)

Restart ==
  /\ index' = EmptyIndex
  /\ free_space' = EmptyFreeSpace
  /\ file_end_offset' = 0
  /\ key_set_cnts_f' = 0
  /\ pc' = "recover"
  /\ op' = Nothing
  /\ write_log' = Nothing
  /\ pos' = 0
  /\ max_set_cnt' = 0
  /\ reply' = Nothing

(* The process ends; a close of the engine, which stores nothing, is the   *)
(* case of pc = "idle".                                                    *)
Kill ==
  /\ "kill" \in CrashKinds
  /\ UNCHANGED file
  /\ Restart

(* The power fails in the middle of a Set.  Of the words of its item those *)
(* in kept reached the memory, the others are as they were before.  Items  *)
(* have one size then: an item that lost its head might otherwise leave    *)
(* bytes of its value where a smaller item's successor will begin, and     *)
(* this module has no bytes outside items.                                 *)
PowerLoss ==
  /\ "power" \in CrashKinds
  /\ write_log # Nothing
  /\ \E kept \in SUBSET Words :
       file' = [file EXCEPT ![op.off] =
                  [p \in Parts |-> IF p \in UNION kept THEN @[p] ELSE write_log[p]]]
  /\ Restart

Crash == Kill \/ PowerLoss

(* Recovery prefers the record with the higher count; and, mistakenly, the *)
(* one that comes last in the file.                                        *)
Supersedes_LastInFile(cnt, old_cnt) == TRUE
Supersedes(cnt, old_cnt) == cnt > old_cnt

(* One iteration of IndexCallback's loop, for the item at pos.             *)
RecoverItem ==
  LET item == file[pos]
      cnt == ReadKV_KVs(item)
      k == KeyOf(item)
  IN /\ pc = "recover"
     /\ item.vsize # 0 /\ cnt # 0
     /\ max_set_cnt' = IF cnt > max_set_cnt THEN cnt ELSE max_set_cnt
     /\ \/ /\ cnt = TornCnt
           /\ free_space' = RecycleKV_Data(free_space, pos)
           /\ UNCHANGED index
        \/ /\ cnt # TornCnt
           /\ index[k] = Nothing
           /\ index' = [index EXCEPT ![k] = pos]
           /\ UNCHANGED free_space
        \/ /\ cnt # TornCnt
           /\ index[k] # Nothing
           /\ Supersedes(cnt, file[index[k]].tail)
           /\ index' = [index EXCEPT ![k] = pos]
           /\ free_space' = RecycleKV_Data(free_space, index[k])
        \/ /\ cnt # TornCnt
           /\ index[k] # Nothing
           /\ ~Supersedes(cnt, file[index[k]].tail)
           /\ free_space' = RecycleKV_Data(free_space, pos)
           /\ UNCHANGED index
     /\ pos' = pos + calSizeFromIdx(item.chunk)
     /\ UNCHANGED <<file, write_log, file_end_offset, key_set_cnts_f, pc, op, reply>>

(* A mistaken end of recovery: setKeySetCnts is not called. *)
RecoverEnd_NoCnts ==
  /\ pc = "recover"
  /\ file[pos].vsize = 0 \/ ReadKV_KVs(file[pos]) = 0
  /\ file_end_offset' = pos
  /\ pos' = 0
  /\ max_set_cnt' = 0
  /\ pc' = "idle"
  /\ UNCHANGED <<file, write_log, index, free_space, key_set_cnts_f, op, reply>>

(* The loop ends at the first item that was never written.                 *)
RecoverEnd ==
  /\ pc = "recover"
  /\ file[pos].vsize = 0 \/ ReadKV_KVs(file[pos]) = 0
  /\ file_end_offset' = pos
  /\ key_set_cnts_f' = max_set_cnt
  /\ pos' = 0
  /\ max_set_cnt' = 0
  /\ pc' = "idle"
  /\ UNCHANGED <<file, write_log, index, free_space, op, reply>>

Recover == RecoverItem \/ RecoverEnd

Next ==
  \/ \E k \in Keys, v \in Values : Set(k, v)
  \/ Store
  \/ Persist
  \/ Return
  \/ \E k \in Keys : Get(k)
  \/ Crash
  \/ Recover

Spec == Init /\ [][Next]_vars

(* Recovery runs to its end unless it is interrupted: CreateOrOpen joins   *)
(* the recovery threads and the scheduler runs them.                       *)
FairSpec == Spec /\ WF_vars(Recover)

------------------------------------------------------------------------------
(* Properties *)

TypeOK ==
  /\ \A o \in Offsets :
       /\ DOMAIN file[o] = Parts
       /\ file[o].head \in 0..MaxCnt /\ file[o].tail \in 0..MaxCnt
       /\ file[o].vsize \in Nat /\ file[o].chunk \in Chunks
  /\ index \in [AllKeys -> Offsets \cup {Nothing}]
  /\ free_space \in [Chunks -> Seq(Offsets)]
  /\ file_end_offset \in Offsets
  /\ key_set_cnts_f \in 0..MaxCnt
  /\ pc \in {"idle", "store", "return", "recover"}
  /\ op \in Calls \cup {Nothing}
  /\ pos \in Offsets
  /\ max_set_cnt \in 0..MaxCnt

(* The items a key refers to, the free items, and the item of a Set in     *)
(* progress: whoever holds an item may count on nobody else holding it.    *)
Live == {index[k] : k \in AllKeys} \ {Nothing}
Free == UNION {{free_space[c][n] : n \in 1..Len(free_space[c])} : c \in Chunks}
Claimed == IF op = Nothing THEN {} ELSE {op.off}

Covers(o, b) == o <= b /\ b < o + calSizeFromIdx(file[o].chunk)

(* Space is neither lost nor given twice, over any sequence of Sets,       *)
(* crashes and recoveries: between calls every byte below the end of the   *)
(* file is covered by exactly one item, and an item is in the index or in  *)
(* one place of one free list.  (UpdateKV_Data, RecycleKV_Data and the     *)
(* recycling in IndexCallback; the free lists stay below MaxFree here.)    *)
EveryByteOwned ==
  pc = "idle" =>
    /\ Live \cap Free = {}
    /\ \A k, l \in AllKeys : index[k] = index[l] /\ index[k] # Nothing => k = l
    /\ \A c, d \in Chunks : \A m \in 1..Len(free_space[c]), n \in 1..Len(free_space[d]) :
         free_space[c][m] = free_space[d][n] => c = d /\ m = n
    /\ \A b \in Offsets :
         Cardinality({o \in Live \cup Free : Covers(o, b)}) = IF b < file_end_offset THEN 1 ELSE 0

(* The walk of IndexCallback stops where it should: no item at or past the *)
(* end of the file has a value size, even after an interrupted Set there,  *)
(* and every free item says in which list it belongs.                      *)
NothingPastEnd ==
  /\ pc # "recover" => \A o \in Offsets : o >= file_end_offset => file[o].vsize = 0
  /\ pc = "idle" => \A c \in Chunks : \A n \in 1..Len(free_space[c]) :
                      file[free_space[c][n]].chunk = c

(* The count that decides, at recovery, which of a key's records is the    *)
(* latest is unique among the records of the file, and never above the     *)
(* shard's counter, which recovery rebuilds from the completed records     *)
(* alone: the count of a torn record may be given again.                   *)
CountsDecide ==
  /\ \A o, q \in Offsets : Valid(file[o]) /\ Valid(file[q]) /\ file[o].tail = file[q].tail => o = q
  /\ pc # "recover" => \A o \in Offsets : file[o].tail <= key_set_cnts_f

(* The index says what the records say: between calls it points at the     *)
(* completed record of the key with the highest count.                     *)
Recoverable(k) == {o \in Offsets : Valid(file[o]) /\ KeyOf(file[o]) = k}
Latest(k) == CHOOSE o \in Recoverable(k) : \A q \in Recoverable(k) : file[q].tail <= file[o].tail

IndexIsLatest ==
  pc = "idle" => \A k \in AllKeys :
    index[k] = IF Recoverable(k) = {} THEN Nothing ELSE Latest(k)

(* Recovery reaches the end of the file unless the machine keeps crashing. *)
RecoveryEnds == <>[][~Crash]_vars => (pc = "recover" ~> pc = "idle")

------------------------------------------------------------------------------
(* Refinement: under "kill" the shard is a durable key-value store.  What  *)
(* the store owes a client is read off the persistent memory alone; a Set  *)
(* takes effect when it stores the trailing count.                         *)
Durable(k) == IF Recoverable(k) = {} THEN NotFound ELSE ReadKV_Data(file[Latest(k)])

DurableKV == INSTANCE KVStore WITH
  Answers <- {Intact(v) : v \in Values},
  store <- [k \in Keys |-> Durable(k)],
  call <- IF op = Nothing THEN Nothing
          ELSE [key |-> op.key, answer |-> Intact(op.val), done |-> op.todo = << >>],
  up <- pc # "recover"

(* Every step of the shard is a step of KVStore: a Set that returned       *)
(* survives any crash, one that did not return happens entirely or not at  *)
(* all, and a Get answers with the value of the latest Set (README.md,     *)
(* line 14, and include/db.hpp, lines 75 to 85).                           *)
ImplementsKVStore == DurableKV!Spec

(* A crash keeps what was returned: afterwards the file holds, for every   *)
(* key, the answer a Get owed before the crash or, for the key of a Set    *)
(* that had not returned, that Set's value (README.md, line 14: after a    *)
(* call the data is intact and correctly recovered, even when the power    *)
(* fails).  It holds under "kill"; under "power" it does not, because all  *)
(* of a record, both counts included, is persisted by one pmem_persist at  *)
(* the end and nothing else says that the words between them arrived.      *)
CrashKeepsReturnedSets ==
  [][Crash /\ pc # "recover" =>
       \A k \in Keys : Durable(k)' \in
         {Lookup(k)} \cup {Intact(op.val) : o \in {o \in {op} : o # Nothing /\ o.key = k}}]_vars

==============================================================================
