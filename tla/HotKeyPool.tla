------------------------------ MODULE HotKeyPool ------------------------------
(***************************************************************************)
(* nvm_engine_latest/hotkeyhash.h and how NvmEngine::Set and Get use it: a *)
(* cache of whole values in front of the shards, one entry per position of *)
(* a hash, filled by Gets and kept up to date by Sets, without a lock.     *)
(*                                                                         *)
(* The shards behind it (index and file) are one step here: `store' is     *)
(* what AepShard answers.  An access to the pool is a step each: the key,  *)
(* the size and the bytes of an entry are read and written one by one.     *)
(* The bytes are those of one value, or zeros; a value that is copied over *)
(* another one replaces it.                                                *)
(***************************************************************************)
EXTENDS Integers

CONSTANTS
  Keys,
  Values,
  SizeOf,      \* SizeOf[v]: the length in bytes of the value v
  HotHash,     \* HotHash[k]: hothash(k), the position of k in the pool
  Threads,
  Zero,        \* zero bytes
  NotFound,
  Nothing      \* no answer, no Set in progress

Intact(v) == <<SizeOf[v], v>>
Answers == {Intact(v) : v \in Values}
Lengths == 80..1024
Bytes == (Lengths \cup {0}) \X (Values \cup {Zero})   \* a size, and the bytes read for it

ASSUME HotKeyPoolAssumption ==
  /\ Keys # {} /\ Threads # {}
  /\ SizeOf \in [Values -> Lengths]
  /\ DOMAIN HotHash = Keys
  /\ Zero \notin Keys \cup Values
  /\ Nothing \notin Values
  /\ NotFound # Nothing
  /\ NotFound \notin Bytes /\ Nothing \notin Bytes
  /\ Nothing \notin [key : Keys, answer : Answers, done : BOOLEAN]

Positions == {HotHash[k] : k \in Keys}

VARIABLES
  key_index_offsets,   \* the pool: position -> [key, value, value_size]
  store,               \* key -> the answer the shards give
  pc,                  \* thread -> where it is
  key, val,            \* thread -> its arguments; val is Nothing in a Get
  got,                 \* thread -> the answer read so far, <<size, bytes>>
  reply,               \* thread -> the answer of the Get that has just returned
  held                 \* thread -> every answer right at some time of its Get (history)

locals == <<pc, key, val, got, reply>>
vars == <<key_index_offsets, store, locals, held>>

ZeroEntry == [key |-> Zero, value |-> Zero, value_size |-> 0]

(* A database that has just been opened: some keys have values, recovered  *)
(* from the file, and the pool is all zeros.                               *)
Init ==
  /\ key_index_offsets = [p \in Positions |-> ZeroEntry]
  /\ store \in [Keys -> Answers \cup {NotFound}]
  /\ pc = [t \in Threads |-> "idle"]
  /\ key = [t \in Threads |-> CHOOSE k \in Keys : TRUE]
  /\ val = [t \in Threads |-> Nothing]
  /\ got = [t \in Threads |-> Nothing]
  /\ reply = [t \in Threads |-> Nothing]
  /\ held = [t \in Threads |-> {}]

Entry(t) == key_index_offsets[HotHash[key[t]]]

Goto(t, from, to) ==
  /\ pc[t] = from
  /\ pc' = [pc EXCEPT ![t] = to]

Reply(t, a) == reply' = [reply EXCEPT ![t] = a]

------------------------------------------------------------------------------
(* The steps of thread t *)

Get(t, k) ==
  /\ Goto(t, "idle", "check")
  /\ key' = [key EXCEPT ![t] = k]
  /\ UNCHANGED <<key_index_offsets, store, val, got, reply>>

Set(t, k, v) ==
  /\ Goto(t, "idle", "check")
  /\ key' = [key EXCEPT ![t] = k]
  /\ val' = [val EXCEPT ![t] = v]
  /\ Reply(t, Nothing)
  /\ UNCHANGED <<key_index_offsets, store, got>>

(* A mistaken get_k, which does not compare the keys. *)
Hit_AnyKey(t) ==
  /\ Goto(t, "compare", IF val[t] = Nothing THEN "size" ELSE "setsize")
  /\ UNCHANGED <<key_index_offsets, store, key, val, got, reply>>

Miss(t, from) ==
  /\ Goto(t, from, "store")
  /\ UNCHANGED <<key_index_offsets, store, key, val, got, reply>>

(* get_k: an entry with value_size 0 is empty ... *)
CheckEmpty(t) == Entry(t).value_size = 0 /\ Miss(t, "check")

(* A mistaken Set that leaves the pool alone. *)
CheckFull_GetOnly(t) ==
  /\ Entry(t).value_size # 0
  /\ Goto(t, "check", IF val[t] = Nothing THEN "compare" ELSE "store")
  /\ UNCHANGED <<key_index_offsets, store, key, val, got, reply>>

CheckFull(t) ==
  /\ Entry(t).value_size # 0
  /\ Goto(t, "check", "compare")
  /\ UNCHANGED <<key_index_offsets, store, key, val, got, reply>>

(* ... and one of another key a collision. *)
Hit(t) ==
  /\ Entry(t).key = key[t]
  /\ Goto(t, "compare", IF val[t] = Nothing THEN "size" ELSE "setsize")
  /\ UNCHANGED <<key_index_offsets, store, key, val, got, reply>>

Collision(t) == Entry(t).key # key[t] /\ Miss(t, "compare")

(* getKV builds the answer from the entry. *)
ReadSize(t) ==
  /\ Goto(t, "size", "bytes")
  /\ got' = [got EXCEPT ![t] = <<Entry(t).value_size, Zero>>]
  /\ UNCHANGED <<key_index_offsets, store, key, val, reply>>

ReadBytes(t) ==
  /\ Goto(t, "bytes", "idle")
  /\ Reply(t, <<got[t][1], Entry(t).value>>)
  /\ got' = [got EXCEPT ![t] = Nothing]
  /\ UNCHANGED <<key_index_offsets, store, key, val>>

(* A mistaken Get that fills the pool with what it did not find. *)
ReadStore_NotFoundToo(t) ==
  /\ val[t] = Nothing
  /\ Goto(t, "store", "setkey")
  /\ got' = [got EXCEPT ![t] = store[key[t]]]
  /\ UNCHANGED <<key_index_offsets, store, key, val, reply>>

(* The shards answer a Get, or take a Set, which then returns. *)
ReadStore(t) ==
  /\ val[t] = Nothing
  /\ Goto(t, "store", IF store[key[t]] = NotFound THEN "idle" ELSE "setkey")
  /\ got' = [got EXCEPT ![t] = IF store[key[t]] = NotFound THEN Nothing ELSE store[key[t]]]
  /\ reply' = IF store[key[t]] = NotFound THEN [reply EXCEPT ![t] = NotFound] ELSE reply
  /\ UNCHANGED <<key_index_offsets, store, key, val>>

WriteStore(t) ==
  /\ val[t] # Nothing
  /\ Goto(t, "store", "return")
  /\ store' = [store EXCEPT ![key[t]] = Intact(val[t])]
  /\ UNCHANGED <<key_index_offsets, key, val, got, reply>>

Return(t) ==
  /\ Goto(t, "return", "idle")
  /\ val' = [val EXCEPT ![t] = Nothing]
  /\ UNCHANGED <<key_index_offsets, store, key, got, reply>>

(* setKV: a Get fills the entry with what it read, a Set overwrites size   *)
(* and bytes of the entry of its key.                                      *)
SetEntry(t, part, x) ==
  key_index_offsets' = [key_index_offsets EXCEPT ![HotHash[key[t]]][part] = x]

(* A mistaken Get that overwrites an entry as a Set does: not the key. *)
SetKey_NotStored(t) ==
  /\ Goto(t, "setkey", "setsize")
  /\ UNCHANGED <<key_index_offsets, store, key, val, got, reply>>

SetKey(t) ==
  /\ Goto(t, "setkey", "setsize")
  /\ SetEntry(t, "key", key[t])
  /\ UNCHANGED <<store, key, val, got, reply>>

SetSize(t) ==
  /\ Goto(t, "setsize", "setbytes")
  /\ SetEntry(t, "value_size", IF val[t] = Nothing THEN got[t][1] ELSE SizeOf[val[t]])
  /\ UNCHANGED <<store, key, val, got, reply>>

SetBytes(t) ==
  /\ Goto(t, "setbytes", IF val[t] = Nothing THEN "idle" ELSE "store")
  /\ SetEntry(t, "value", IF val[t] = Nothing THEN got[t][2] ELSE val[t])
  /\ IF val[t] = Nothing THEN Reply(t, got[t]) ELSE UNCHANGED reply
  /\ got' = [got EXCEPT ![t] = Nothing]
  /\ UNCHANGED <<store, key, val>>

Step(t) ==
  \/ CheckEmpty(t) \/ CheckFull(t) \/ Hit(t) \/ Collision(t)
  \/ ReadSize(t) \/ ReadBytes(t) \/ ReadStore(t) \/ WriteStore(t) \/ Return(t)
  \/ SetKey(t) \/ SetSize(t) \/ SetBytes(t)

Call ==
  \E t \in Threads, k \in Keys : Get(t, k) \/ \E v \in Values : Set(t, k, v)

(* The answers that are right for a Get are those from its call to its end.*)
Remember ==
  held' = [t \in Threads |->
             IF pc'[t] = "idle" THEN {}
             ELSE IF pc[t] = "idle" THEN {store'[key'[t]]} ELSE held[t] \cup {store'[key'[t]]}]

Next == (Call \/ \E t \in Threads : Step(t)) /\ Remember

Spec == Init /\ [][Next]_vars

------------------------------------------------------------------------------
(* Properties *)

TypeOK ==
  /\ key_index_offsets \in [Positions -> [key : Keys \cup {Zero}, value : Values \cup {Zero},
                                          value_size : Lengths \cup {0}]]
  /\ store \in [Keys -> Answers \cup {NotFound}]
  /\ pc \in [Threads -> {"idle", "check", "compare", "size", "bytes", "store", "return",
                         "setkey", "setsize", "setbytes"}]
  /\ key \in [Threads -> Keys]
  /\ val \in [Threads -> Values \cup {Nothing}]
  /\ got \in [Threads -> Bytes \cup {Nothing}]
  /\ reply \in [Threads -> Bytes \cup {NotFound, Nothing}]
  /\ held \in [Threads -> SUBSET (Answers \cup {NotFound})]

(* Between calls an entry of the pool that is in use says what the shards  *)
(* say of its key, and stands where a search for its key looks.            *)
PoolAgrees ==
  (\A t \in Threads : pc[t] = "idle") =>
    \A p \in Positions :
      LET e == key_index_offsets[p]
      IN e.value_size # 0 =>
           /\ e.key \in Keys /\ HotHash[e.key] = p
           /\ store[e.key] = <<e.value_size, e.value>>

(* Get answers with a value its key had at some time between its call and  *)
(* its return (include/db.hpp, lines 75 to 79: Get the value of key).      *)
GetIsCurrent ==
  [][\A t \in Threads :
       pc[t] # "idle" /\ val[t] = Nothing /\ pc'[t] = "idle" => reply'[t] \in held[t]]_vars

------------------------------------------------------------------------------
(* Refinement, for one thread *)

TheThread == CHOOSE t \in Threads : TRUE
PooledKV == INSTANCE KVStore WITH
  call <- IF val[TheThread] = Nothing THEN Nothing
          ELSE [key |-> key[TheThread], answer |-> Intact(val[TheThread]),
                done |-> pc[TheThread] = "return"],
  up <- TRUE,
  reply <- reply[TheThread]

(* With one thread the engine answers through its pool as it would without *)
(* it: it is the store of KVStore, whatever keys share an entry.           *)
ImplementsKVStore == PooledKV!Spec

==============================================================================
