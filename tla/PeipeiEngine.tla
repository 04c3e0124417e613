------------------------------ MODULE PeipeiEngine ------------------------------
(***************************************************************************)
(* nvm_engine_peipei: one bucket.  Entry number n has its value in slot    *)
(* n % V of a block of V values and its key in slot n % K of a block of K  *)
(* keys, both in a mapped file; a block that is full is copied to the data *)
(* files.  The number of entries, in the mapped file too, is raised last.  *)
(* The process can be killed between any two stores: the mapped file and   *)
(* the data files stay.  A database that exists is opened for reading, so  *)
(* that the copying of a block ends the program.                           *)
(***************************************************************************)
EXTENDS Integers, FiniteSetsExt

CONSTANTS
  Keys,
  V, K,          \* VALUE_BUFFER_ITEM_COUNT and KEY_BUFFER_ITEM_COUNT
  MaxSets,       \* the bound on the Sets; a value is the number of its Set
  Zero, NotFound, Nothing

VARIABLES
  disk,     \* [mapped: mapped.data exists, values, keys: the blocks, entry_count_,
            \*  valueFile, keyFile, sets: the Sets made, which number the values]
  mem,      \* [is_new, index_: entries <<key, block_index>>]
  client,   \* [op: "idle", or the next step of opening or of a Write; key, value]
  reply

vars == <<disk, mem, client, reply>>

Closed == [is_new |-> FALSE, index_ |-> {}]
At(op) == [op |-> op, key |-> Nothing, value |-> Nothing]

Init ==
  /\ disk = [mapped |-> FALSE, entry_count_ |-> 0, sets |-> 0,
             values |-> [i \in 0..V - 1 |-> Zero], keys |-> [i \in 0..K - 1 |-> Zero],
             valueFile |-> [i \in 0..MaxSets |-> Zero], keyFile |-> [i \in 0..MaxSets |-> Zero]]
  /\ mem = Closed
  /\ client = At("files")
  /\ reply = Nothing

Then(op) == client' = [client EXCEPT !.op = op] /\ reply' = Nothing

------------------------------------------------------------------------------
(* CreateOrOpen: the data files, the mapped file, and the index.           *)

OpenFiles ==
  /\ client.op = "files"
  /\ mem' = [is_new |-> ~disk.mapped, index_ |-> {}]
  /\ Then("map")
  /\ UNCHANGED disk

MapBuffers ==
  /\ client.op = "map"
  /\ disk' = [disk EXCEPT !.mapped = TRUE]
  /\ Then("load")
  /\ UNCHANGED mem

InBlock(n, size) == n \div size >= disk.entry_count_ \div size
KeyOf(n) == IF InBlock(n, K) THEN disk.keys[n % K] ELSE disk.keyFile[n]
Entries == {<<KeyOf(n), n>> : n \in 0..disk.entry_count_ - 1}

LoadIndex ==
  /\ client.op = "load"
  /\ mem' = [mem EXCEPT !.index_ = IF mem.is_new THEN {} ELSE Entries]
  /\ Then("idle")
  /\ UNCHANGED disk

------------------------------------------------------------------------------
(* Bucket::Write                                                           *)

count == disk.entry_count_
Full(size) == (count + 1) % size = 0

Set(k) ==
  /\ client.op = "idle"
  /\ disk.sets < MaxSets
  /\ client' = [op |-> "value", key |-> k, value |-> disk.sets + 1]
  /\ disk' = [disk EXCEPT !.sets = @ + 1]
  /\ reply' = Nothing
  /\ UNCHANGED mem

PutValue ==
  /\ client.op = "value"
  /\ disk' = [disk EXCEPT !.values[count % V] = client.value]
  /\ Then("key")
  /\ UNCHANGED mem

PutKey ==
  /\ client.op = "key"
  /\ disk' = [disk EXCEPT !.keys[count % K] = client.key]
  /\ Then(IF Full(V) THEN "valuefile" ELSE IF Full(K) THEN "keyfile" ELSE "count")
  /\ UNCHANGED mem

(* pwrite64 of a full block: the file's n-th to last entries. *)
Copied(file, block, size) ==
  [n \in DOMAIN file |-> IF n \in count + 1 - size..count THEN block[n % size] ELSE file[n]]

CopyValues ==
  /\ client.op = "valuefile"
  /\ mem.is_new
  /\ disk' = [disk EXCEPT !.valueFile = Copied(@, disk.values, V)]
  /\ Then(IF Full(K) THEN "keyfile" ELSE "count")
  /\ UNCHANGED mem

CopyKeys ==
  /\ client.op = "keyfile"
  /\ disk' = [disk EXCEPT !.keyFile = Copied(@, disk.keys, K)]
  /\ Then("count")
  /\ UNCHANGED mem

Count ==
  /\ client.op = "count"
  /\ disk' = [disk EXCEPT !.entry_count_ = @ + 1]
  /\ Then("return")
  /\ UNCHANGED mem

Return ==
  /\ client.op = "return"
  /\ client' = At("idle")
  /\ reply' = Nothing
  /\ UNCHANGED <<disk, mem>>

(* The process is killed, or exits because it cannot write a block, and a  *)
(* new one begins to open the database.                                    *)
Stop ==
  /\ mem' = Closed
  /\ client' = At("files")
  /\ reply' = Nothing
  /\ UNCHANGED disk

Kill == client.op # "files" /\ Stop
ExitOnError == client.op = "valuefile" /\ ~mem.is_new /\ Stop

------------------------------------------------------------------------------
(* Bucket::Read: the entries of a key are sorted with the last one first.  *)

Value_NextBlock(n) ==
  IF n \div V > disk.entry_count_ \div V THEN disk.values[n % V] ELSE disk.valueFile[n]

Value(n) == IF InBlock(n, V) THEN disk.values[n % V] ELSE disk.valueFile[n]

Find(entries, k) ==
  LET ns == {n \in 0..MaxSets : <<k, n>> \in entries}
  IN  IF ns = {} THEN NotFound ELSE Value(Max(ns))

Get(k) ==
  /\ client.op = "idle"
  /\ reply' = Find(mem.index_, k)
  /\ UNCHANGED <<disk, mem, client>>

Next ==
  \/ OpenFiles \/ MapBuffers \/ LoadIndex
  \/ \E k \in Keys : Set(k) \/ Get(k)
  \/ PutValue \/ PutKey \/ CopyValues \/ CopyKeys \/ Count \/ Return
  \/ Kill \/ ExitOnError

------------------------------------------------------------------------------
(* What PhasedStore's variables are here. *)
Durable == [k \in Keys |-> Find(Entries, k)]
Snapshot == [k \in Keys |-> Find(mem.index_, k)]
Up == client.op \notin {"files", "map", "load"}
Call == IF client.key = Nothing THEN Nothing
        ELSE [key |-> client.key, answer |-> client.value, done |-> client.op = "return"]

TypeOK ==
  /\ count \in 0..disk.sets /\ disk.sets \in 0..MaxSets
  /\ disk.values \in [0..V - 1 -> 1..MaxSets \cup {Zero}]
  /\ disk.keys \in [0..K - 1 -> Keys \cup {Zero}]
  /\ mem.index_ \subseteq Keys \X (0..count)
  /\ reply \in 1..MaxSets \cup {NotFound, Nothing}
==============================================================================
