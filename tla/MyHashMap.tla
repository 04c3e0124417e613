------------------------------ MODULE MyHashMap ------------------------------
(***************************************************************************)
(* nvm_engine_latest/hash.h: the index of one shard, an open-addressing    *)
(* hash table used without a lock (its spinlock is commented out).         *)
(*                                                                         *)
(* index_offsets holds, at the position a key hashes to or the first free  *)
(* one after it, the number of the key's entry in key_offset_s.  Readers   *)
(* and writers run step by step, a step being one access to memory that    *)
(* another thread can see.  A Set looks its key up and then puts or        *)
(* updates it; what it does to the file in between is AepShard's.          *)
(***************************************************************************)
EXTENDS Integers, FiniteSets

CONSTANTS
  Keys,
  Hash,        \* Hash[k]: hash(k), the position a search for k begins at
  Offsets,     \* offsets of items in the file
  Size,        \* MAX_INDEX_SIZE_SHARD
  Slots,       \* KEY_OFFSET_SIZE
  Readers,     \* threads that call Get
  Writers,     \* threads that call Set
  Empty,       \* 0xFFFFFFFF: no entry, no offset (INDEX_OFFSET_EMPTY)
  NoKey        \* the bytes 0xFF an unused entry has in place of a key

Threads == Readers \cup Writers
Positions == 0..Size - 1

ASSUME MyHashMapAssumption ==
  /\ Size \in Nat /\ Slots \in Nat
  /\ Slots < Size             \* so that a search comes to a free position
  /\ Hash \in [Keys -> Positions]
  /\ Empty \notin Offsets /\ Empty \notin Nat
  /\ NoKey \notin Keys
  /\ Readers \cap Writers = {}

VARIABLES
  index_offsets,      \* position -> number of an entry, or Empty
  key_offset_s,       \* entries: [key, offset]
  key_offset_s_end,   \* the number of entries given out
  pc,                 \* thread -> where it is
  key, offset,        \* thread -> its arguments
  at,                 \* thread -> position: k in get and put, hash_pos in update
  ticket,             \* thread -> the entry fetch_add gave it
  answer,             \* thread -> what its last Get returned
  held                \* thread -> every answer right at some time of its Get (history)

table == <<index_offsets, key_offset_s, key_offset_s_end>>
locals == <<pc, key, offset, at, ticket, answer>>
vars == <<table, locals, held>>

Init ==
  /\ index_offsets = [p \in Positions |-> Empty]
  /\ key_offset_s = [e \in 0..Slots - 1 |-> [key |-> NoKey, offset |-> Empty]]
  /\ key_offset_s_end = 0
  /\ pc = [t \in Threads |-> "idle"]
  /\ key \in [Threads -> {CHOOSE k \in Keys : TRUE}]
  /\ offset = [t \in Threads |-> Empty]
  /\ at = [t \in Threads |-> 0]
  /\ ticket = [t \in Threads |-> 0]
  /\ answer = [t \in Threads |-> Empty]
  /\ held = [t \in Readers |-> {}]

Occupied(p) == index_offsets[p] # Empty
EntryAt(p) == key_offset_s[index_offsets[p]]

(* A search that ends at the last position instead of going on at 0. *)
NextPosition_NoWrap(p) == IF p + 1 = Size THEN p ELSE p + 1
NextPosition(p) == IF p + 1 = Size THEN 0 ELSE p + 1

(* What get(k) returns if nothing else happens meanwhile: the entry at the *)
(* first position from Hash[k] on that is free or has the key.             *)
Find(k) ==
  LET Pos(d) == (Hash[k] + d) % Size
      Ends(d) == Occupied(Pos(d)) => EntryAt(Pos(d)).key = k
      d == CHOOSE d \in Positions : Ends(d) /\ \A c \in 0..d - 1 : ~Ends(c)
  IN IF Occupied(Pos(d)) THEN EntryAt(Pos(d)).offset ELSE Empty

------------------------------------------------------------------------------
(* The steps of thread t *)

Goto(t, from, to) ==
  /\ pc[t] = from
  /\ pc' = [pc EXCEPT ![t] = to]

Begin(t, k) ==
  /\ key' = [key EXCEPT ![t] = k]
  /\ at' = [at EXCEPT ![t] = Hash[k]]
  /\ answer' = [answer EXCEPT ![t] = Empty]

Get(t, k) ==
  /\ Goto(t, "idle", "search")
  /\ Begin(t, k)
  /\ UNCHANGED <<table, offset, ticket>>

(* Set of k, whose record goes to the item at o.  No two threads Set the   *)
(* same key at the same time here: the clients see to that.                *)
NobodySets(k) == \A t \in Writers : pc[t] # "idle" => key[t] # k

(* A mistaken Set that does not look its key up first. *)
Set_NoLookup(t, k, o) ==
  /\ Goto(t, "idle", "put")
  /\ NobodySets(k)
  /\ Begin(t, k)
  /\ offset' = [offset EXCEPT ![t] = o]
  /\ UNCHANGED <<table, ticket>>

Set(t, k, o) ==
  /\ Goto(t, "idle", "search")
  /\ NobodySets(k)
  /\ Begin(t, k)
  /\ offset' = [offset EXCEPT ![t] = o]
  /\ UNCHANGED <<table, ticket>>

(* get: an entry of another key, or one that has no key yet.  Positions do *)
(* not become free again, so that looking at one twice, as the code does,  *)
(* is looking at it the second time.                                       *)
SearchOn(t) ==
  /\ pc[t] = "search"
  /\ Occupied(at[t])
  /\ EntryAt(at[t]).key # key[t]
  /\ at' = [at EXCEPT ![t] = NextPosition(@)]
  /\ UNCHANGED <<table, pc, key, offset, ticket, answer>>

(* A mistaken search: any entry will do. *)
SearchHit_AnyKey(t) ==
  /\ Goto(t, "search", "hit")
  /\ Occupied(at[t])
  /\ UNCHANGED <<table, key, offset, at, ticket, answer>>

SearchHit(t) ==
  /\ Goto(t, "search", "hit")
  /\ Occupied(at[t])
  /\ EntryAt(at[t]).key = key[t]
  /\ UNCHANGED <<table, key, offset, at, ticket, answer>>

(* A free position: Get returns NotFound, Set goes on to put. *)
SearchMiss(t) ==
  /\ ~Occupied(at[t])
  /\ Goto(t, "search", IF t \in Writers THEN "put" ELSE "idle")
  /\ at' = [at EXCEPT ![t] = Hash[key[t]]]
  /\ UNCHANGED <<table, key, offset, ticket, answer>>

(* get returns the offset in the entry it found; it may be none yet.       *)
ReadOffset(t) ==
  LET o == EntryAt(at[t]).offset
  IN /\ Goto(t, "hit", IF t \in Readers THEN "idle" ELSE IF o = Empty THEN "put" ELSE "update")
     /\ answer' = [answer EXCEPT ![t] = IF t \in Readers THEN o ELSE @]
     /\ at' = [at EXCEPT ![t] = IF pc'[t] = "put" THEN Hash[key[t]] ELSE @]
     /\ UNCHANGED <<table, key, offset, ticket>>

(* A mistaken update, at the position the key hashes to. *)
Update_AtHash(t) ==
  /\ Goto(t, "update", "idle")
  /\ key_offset_s' = [key_offset_s EXCEPT ![index_offsets[Hash[key[t]]]].offset = offset[t]]
  /\ UNCHANGED <<index_offsets, key_offset_s_end, key, offset, at, ticket, answer>>

Update(t) ==
  /\ Goto(t, "update", "idle")
  /\ key_offset_s' = [key_offset_s EXCEPT ![index_offsets[at[t]]].offset = offset[t]]
  /\ UNCHANGED <<index_offsets, key_offset_s_end, key, offset, at, ticket, answer>>

(* put: go to the first free position ... *)
PutOn(t) ==
  /\ pc[t] = "put"
  /\ Occupied(at[t])
  /\ at' = [at EXCEPT ![t] = NextPosition(@)]
  /\ UNCHANGED <<table, pc, key, offset, ticket, answer>>

(* A mistaken put, which takes the position the key hashes to as free. *)
PutFree_NotChecked(t) ==
  /\ Goto(t, "put", "fetch_add")
  /\ UNCHANGED <<table, key, offset, at, ticket, answer>>

PutFree(t) ==
  /\ ~Occupied(at[t])
  /\ Goto(t, "put", "fetch_add")
  /\ UNCHANGED <<table, key, offset, at, ticket, answer>>

(* ... take the next entry ... *)
FetchAdd(t) ==
  /\ Goto(t, "fetch_add", "publish")
  /\ key_offset_s_end < Slots    \* bound: the code does not look
  /\ ticket' = [ticket EXCEPT ![t] = key_offset_s_end]
  /\ key_offset_s_end' = key_offset_s_end + 1
  /\ UNCHANGED <<index_offsets, key_offset_s, key, offset, at, answer>>

(* ... store its number at the position ... *)
Publish(t) ==
  /\ Goto(t, "publish", "key")
  /\ index_offsets' = [index_offsets EXCEPT ![at[t]] = ticket[t]]
  /\ UNCHANGED <<key_offset_s, key_offset_s_end, key, offset, at, ticket, answer>>

(* ... and fill the entry, the key first.  The code reads the number of    *)
(* the entry back from the position; the compiler may reuse what it wrote. *)
Entries(t) == {ticket[t], index_offsets[at[t]]}

PutKey(t) ==
  /\ Goto(t, "key", "offset")
  /\ \E e \in Entries(t) : key_offset_s' = [key_offset_s EXCEPT ![e].key = key[t]]
  /\ UNCHANGED <<index_offsets, key_offset_s_end, key, offset, at, ticket, answer>>

PutOffset(t) ==
  /\ Goto(t, "offset", "idle")
  /\ \E e \in Entries(t) : key_offset_s' = [key_offset_s EXCEPT ![e].offset = offset[t]]
  /\ UNCHANGED <<index_offsets, key_offset_s_end, key, offset, at, ticket, answer>>

Step(t) ==
  \/ SearchOn(t) \/ SearchHit(t) \/ SearchMiss(t) \/ ReadOffset(t) \/ Update(t)
  \/ PutOn(t) \/ PutFree(t) \/ FetchAdd(t) \/ Publish(t) \/ PutKey(t) \/ PutOffset(t)

Call ==
  \/ \E t \in Readers, k \in Keys : Get(t, k)
  \/ \E t \in Writers, k \in Keys, o \in Offsets : Set(t, k, o)

(* The answers that are right for a Get are those from its call to its end.*)
Remember ==
  held' = [t \in Readers |->
             IF pc'[t] = "idle" THEN {}
             ELSE IF pc[t] = "idle" THEN {Find(key[t])'} ELSE held[t] \cup {Find(key[t])'}]

Next == (Call \/ \E t \in Threads : Step(t)) /\ Remember

Spec == Init /\ [][Next]_vars

(* Every thread goes on: they are ordinary threads on a preemptive system. *)
FairSpec == Spec /\ \A t \in Threads : WF_vars(Step(t) /\ Remember)

------------------------------------------------------------------------------
(* Properties *)

(* A key has one entry, so that an update is seen by every search and a    *)
(* search does not depend on the entries before it.                        *)
OneEntryPerKey ==
  \A p, q \in Positions :
    Occupied(p) /\ Occupied(q) /\ EntryAt(p).key = EntryAt(q).key => p = q \/ EntryAt(p).key = NoKey

(* When Set returns, its key is found and has the offset of its record     *)
(* (include/db.hpp, lines 81 to 85: Set key to hold the value).            *)
SetTakesHold ==
  [][\A t \in Writers : pc[t] # "idle" /\ pc'[t] = "idle" => Find(key[t])' = offset[t]]_vars

(* No step of anyone makes a key that can be found impossible to find, nor *)
(* takes it to the offset of another key's record.                         *)
NothingForgotten ==
  [][\A k \in Keys : Find(k) # Empty =>
       Find(k)' = Find(k) \/ \E t \in Writers : key[t] = k /\ Find(k)' = offset[t]]_vars

(* Get answers with an offset its key had at some time between its call    *)
(* and its return, though it sees entries that are not yet filled.         *)
GetIsCurrent ==
  [][\A t \in Readers : pc[t] # "idle" /\ pc'[t] = "idle" => answer'[t] \in held[t]]_vars

(* Every search ends, also the one that goes past the last position.       *)
CallsEnd == \A t \in Threads : pc[t] # "idle" ~> pc[t] = "idle"

==============================================================================
