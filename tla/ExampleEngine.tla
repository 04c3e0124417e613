----------------------------- MODULE ExampleEngine -----------------------------
(***************************************************************************)
(* nvm_example: a log of slices in persistent memory and an unordered_map  *)
(* from keys to the slices of their values.  A mutex is held for the whole *)
(* of Get and of Set, so there is one call at a time.  A slice is its size *)
(* and its bytes; the word before the log counts the Sets it holds.  The   *)
(* process can be killed between any two stores; the memory keeps them.    *)
(***************************************************************************)
EXTENDS Integers, Sequences

CONSTANTS
  Keys, Values,   \* sequences of bytes
  Size,           \* cells of the mapped file (0x1000000 bytes in the code)
  NotFound, Nothing

VARIABLES
  disk,     \* [sequence: the Sets counted, bytes: offset -> a size or a byte]
  mem,      \* [hash_map: key -> offset of its value's slice or 0, end_off]
  client,   \* [op: "idle", "open" or the next step of a Set, key, value, current]
  reply     \* the answer of the Get that has just returned, or Nothing

vars == <<disk, mem, client, reply>>

Fresh == [hash_map |-> [k \in Keys |-> 0], end_off |-> 1]
Idle == [op |-> "idle", key |-> Nothing, value |-> Nothing, current |-> 0]
Opening == [Idle EXCEPT !.op = "open"]

(* A file that has been created: there was nothing to recover. *)
Init ==
  /\ disk = [sequence |-> 0, bytes |-> [i \in 1..Size |-> 0]]
  /\ mem = Fresh
  /\ client = Idle
  /\ reply = Nothing

Slice(at) == [i \in 1..disk.bytes[at] |-> disk.bytes[at + i]]
SliceEnd(at) == at + 1 + disk.bytes[at]

(* Append, then the map: the order of a Set's steps. *)
Steps_CountFirst == <<"idle", "count", "keysize", "key", "valuesize", "value", "index", "idle">>
Steps == <<"idle", "keysize", "key", "valuesize", "value", "count", "index", "idle">>

Then(op) == Steps[(CHOOSE i \in 1..7 : Steps[i] = op) + 1]
Advance == client' = [client EXCEPT !.op = Then(@)] /\ reply' = Nothing

Set(k, v) ==
  /\ client.op = "idle"
  /\ mem.end_off + 1 + Len(k) + Len(v) < Size      \* the bound: the code does not look
  /\ client' = [Idle EXCEPT !.op = Then("idle"), !.key = k, !.value = v]
  /\ reply' = Nothing
  /\ UNCHANGED <<disk, mem>>

(* _push_back stores the size of a slice ... *)
PushSize(op, slice) ==
  /\ client.op = op
  /\ disk' = [disk EXCEPT !.bytes[mem.end_off] = Len(slice)]
  /\ Advance
  /\ UNCHANGED mem

(* ... and its bytes, and moves the end. *)
PushBytes(op, slice) ==
  LET at == mem.end_off + 1 IN
  /\ client.op = op
  /\ disk' = [disk EXCEPT !.bytes =
       [i \in 1..Size |-> IF i - at \in 0..Len(slice) - 1 THEN slice[i - at + 1] ELSE @[i]]]
  /\ mem' = [mem EXCEPT !.end_off = at + Len(slice)]
  /\ Advance

PushKey == PushSize("keysize", client.key) \/ PushBytes("key", client.key)
PushValue == PushSize("valuesize", client.value) \/ PushBytes("value", client.value)

Count ==
  /\ client.op = "count"
  /\ disk' = [disk EXCEPT !.sequence = @ + 1]
  /\ Advance
  /\ UNCHANGED mem

Index ==
  /\ client.op = "index"
  /\ mem' = [mem EXCEPT !.hash_map[client.key] = mem.end_off - 1 - Len(client.value)]
  /\ Advance
  /\ UNCHANGED disk

Get(k) ==
  /\ client.op = "idle"
  /\ reply' = IF mem.hash_map[k] = 0 THEN NotFound ELSE Slice(mem.hash_map[k])
  /\ UNCHANGED <<disk, mem, client>>

(* The process is killed and a new one opens the file. *)
Kill ==
  /\ mem' = Fresh
  /\ client' = Opening
  /\ reply' = Nothing
  /\ UNCHANGED disk

(* One round of Recovery's loop: RecoveryHelper::Next gives two slices. *)
RecoverSlices ==
  /\ client.op = "open"
  /\ client.current < disk.sequence
  /\ LET value == SliceEnd(mem.end_off) IN
     mem' = [hash_map |-> [mem.hash_map EXCEPT ![Slice(mem.end_off)] = value],
             end_off |-> SliceEnd(value)]
  /\ client' = [client EXCEPT !.current = @ + 1]
  /\ reply' = Nothing
  /\ UNCHANGED disk

RecoverEnd ==
  /\ client.op = "open"
  /\ client.current = disk.sequence
  /\ client' = Idle
  /\ reply' = Nothing
  /\ UNCHANGED <<disk, mem>>

Next ==
  \/ \E k \in Keys, v \in Values : Set(k, v)
  \/ PushKey
  \/ PushValue
  \/ Count
  \/ Index
  \/ \E k \in Keys : Get(k)
  \/ Kill
  \/ RecoverSlices
  \/ RecoverEnd

------------------------------------------------------------------------------
(* What the counted slices say of every key. *)
Logged ==
  LET at[i \in 0..disk.sequence] == IF i = 0 THEN 1 ELSE SliceEnd(SliceEnd(at[i - 1]))
      Of(k) == {i \in 0..disk.sequence - 1 : Slice(at[i]) = k}
  IN  [k \in Keys |-> IF Of(k) = {} THEN NotFound
                      ELSE Slice(SliceEnd(at[CHOOSE i \in Of(k) : \A j \in Of(k) : j <= i]))]

Call ==
  IF client.op \in {"idle", "open"} THEN Nothing
  ELSE [key |-> client.key, answer |-> client.value, done |-> client.op = "index"]

TypeOK ==
  /\ disk.sequence \in Nat /\ DOMAIN disk.bytes = 1..Size
  /\ mem.hash_map \in [Keys -> 0..Size] /\ mem.end_off \in 1..Size + 1
  /\ client.op \in {Steps[i] : i \in DOMAIN Steps} \cup {"open"}
  /\ client.current \in 0..disk.sequence
  /\ reply \in Values \cup {NotFound, Nothing}
==============================================================================
