------------------------------ MODULE AepRecord ------------------------------
(***************************************************************************)
(* The record format of nvm_engine_latest/posix_file_aep: one item of a    *)
(* shard of the persistent-memory file is                                  *)
(*                                                                         *)
(*   keysetcnt4 + Key16 + valuesize2 + chunksize1 + value + keysetcnt4     *)
(*                                                                         *)
(* rounded up to a multiple of 32 bytes; the chunk id fixes the size of an *)
(* item once and for all, and the trailing count is the item's last four   *)
(* bytes.  The two counts frame the item: they are equal in a record whose *)
(* writing was completed.                                                  *)
(*                                                                         *)
(* An item is a function from the names of its parts to their contents.    *)
(* A key is split where the 8-byte words of the memory split it, and a     *)
(* value into two parts, so that an interrupted write can leave half of    *)
(* either.  Sizes and offsets are the code's, in bytes.                    *)
(***************************************************************************)
EXTENDS Integers, Sequences

CONSTANTS
  Keys,      \* the keys: pairs <<bytes 0-3, bytes 4-15>>
  Values,    \* the values clients store
  SizeOf,    \* SizeOf[v]: the length in bytes of the value v
  Zero,      \* zero bytes: what a fresh persistent-memory file holds
  MaxIdx     \* the largest chunk id: free_space.size() - 1

ASSUME RecordAssumption ==
  /\ MaxIdx \in Nat
  /\ Keys # {}
  /\ \A k \in Keys : k = <<k[1], k[2]>>
  /\ SizeOf \in [Values -> 80..1024]
  /\ Zero \notin Values

KEY_SIZE == 16
Granule == 32             \* 1 << Config::CHUNK_SIZE
MinItemSize == 128        \* 107 bytes, a record of the shortest value, rounded up

(* Two mistaken sizes: not rounded up, and counted from chunk id 0 = 0. *)
calSizeFromIdx_NotRounded(idx) == 107 + idx * Granule
calSizeFromIdx_NoMin(idx) == idx * Granule
calSizeFromIdx(idx) == MinItemSize + idx * Granule

(* The bytes taken by a record whose value has n bytes, and their chunk id. *)
ItemSize(n) == ((KEY_SIZE + 11 + n + Granule - 1) \div Granule) * Granule
calFreeSpaceIdx(n) == (ItemSize(n) - MinItemSize) \div Granule

Chunks == 0..MaxIdx

ASSUME ChunksAssumption == \A v \in Values : calFreeSpaceIdx(SizeOf[v]) \in Chunks

------------------------------------------------------------------------------
(* Items *)

Parts == {"head", "key0", "key1", "vsize", "chunk", "val0", "val1", "tail"}

ZeroItem ==
  [head |-> 0, key0 |-> Zero, key1 |-> Zero, vsize |-> 0, chunk |-> 0,
   val0 |-> Zero, val1 |-> Zero, tail |-> 0]

(* The record of a completed Set(k, v) that was given the count c, in an   *)
(* item of chunk ch.                                                       *)
Record(k, v, c, ch) ==
  [head |-> c, key0 |-> k[1], key1 |-> k[2], vsize |-> SizeOf[v], chunk |-> ch,
   val0 |-> v, val1 |-> v, tail |-> c]

(* CreateKV_Data and SetKV_Data store the parts in this order.  SetKV_Data *)
(* reuses an item and leaves its chunk id, hence its size, as it is.       *)
CreateKV_Data == <<"head", "key0", "key1", "vsize", "chunk", "val0", "val1", "tail">>
(* A mistaken order: the trailing count before the value. *)
SetKV_Data_TailFirst == <<"head", "key0", "key1", "vsize", "tail", "val0", "val1">>
SetKV_Data == <<"head", "key0", "key1", "vsize", "val0", "val1", "tail">>

(* The 8-byte words of an item: memory keeps or loses a word as a whole.   *)
(* Words 1 and 2 of the key, which the value size shares, count as one.    *)
Words == {{"head", "key0"}, {"key1", "vsize", "chunk"}, {"val0"}, {"val1", "tail"}}

------------------------------------------------------------------------------
(* Readers *)

KeyOf(item) == <<item.key0, item.key1>>

(* ReadKV_Data: value_size bytes, with no look at the key or the counts. *)
ReadKV_Data(item) == <<item.vsize, item.val0, item.val1>>

(* What a Get of the value v has to answer. *)
Intact(v) == <<SizeOf[v], v, v>>

TornCnt == -1             \* 0xFFFFFFFF, the count ReadKV_KVs gives a torn record

(* ReadKV_KVs compares the two counts; a record where they differ is torn. *)
ReadKV_KVs(item) == IF item.head = item.tail THEN item.tail ELSE TornCnt

(* A record that recovery takes into the index. *)
Valid(item) == item.vsize # 0 /\ ReadKV_KVs(item) \notin {0, TornCnt}
==============================================================================
