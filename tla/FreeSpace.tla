------------------------------ MODULE FreeSpace ------------------------------
(***************************************************************************)
(* The free lists of one shard (posix_file_aep), shared by all threads of  *)
(* the engine: a stack of free items per chunk id, each with a spinlock,   *)
(* and the end of the file with a spinlock of its own.                     *)
(*                                                                         *)
(* The spinlocks guard the pushes and pops only.  Whether a list has an    *)
(* item to spare (size() > 15) and whether it has room (size() <           *)
(* MAX_FREE_SPACE_SIZE) is decided before the lock is taken, so that other *)
(* threads may have popped or pushed in between.                           *)
(*                                                                         *)
(* A Set of a thread takes an item for its record, from a list or from the *)
(* end of the file, and then gives the item of the old record, if there is *)
(* one, back.  An item is a pair <<chunk id, number>>, numbered in the     *)
(* order in which the file was extended.  No two threads Set the same key  *)
(* at the same time here.                                                  *)
(***************************************************************************)
EXTENDS Integers, Sequences, FiniteSets

CONSTANTS
  Threads,     \* the threads that call Set: 16 in the code's use
  MaxIdx,      \* the largest chunk id
  SupSpace,    \* how many lists a search looks at: 15
  Reserve,     \* a list with at most this many items is left alone: 15
  MaxFree,     \* MAX_FREE_SPACE_SIZE
  MaxItems,    \* bound on the number of items in the file
  None

ASSUME FreeSpaceAssumption ==
  /\ IsFiniteSet(Threads) /\ Threads # {}
  /\ None \notin Threads
  /\ MaxIdx \in Nat
  /\ SupSpace \in Nat
  /\ Reserve \in Nat
  /\ MaxFree \in Nat
  /\ MaxItems \in Nat

(* The threads may not outnumber the items a list keeps back, plus one:    *)
(* README.md, line 7, has 16 threads and the code the reserve 15.          *)
ASSUME ReserveAssumption == Cardinality(Threads) <= Reserve + 1

Chunks == 0..MaxIdx
Items == Chunks \X Nat
NoItem == <<0, -1>>
ChunkOf(item) == item[1]

VARIABLES
  free_space,        \* chunk id -> stack of free items
  free_space_spls,   \* chunk id -> the thread that holds its spinlock, or None
  items,             \* the number of items in the file (file_end_offset_)
  live,              \* the items index entries refer to, and no Set replaces
  pc,                \* thread -> where in Set it is
  idx,               \* thread -> chunk id of the item it needs
  at,                \* thread -> the list it looks at
  new,               \* thread -> the item it writes its record to, or NoItem
  old                \* thread -> the item it will recycle, or NoItem

vars == <<free_space, free_space_spls, items, live, pc, idx, at, new, old>>

PCs == {"idle", "search", "lock", "pop", "unlock", "extend", "write",
        "recycle", "rlock", "push", "runlock"}

Init ==
  /\ free_space = [c \in Chunks |-> << >>]
  /\ free_space_spls = [c \in Chunks |-> None]
  /\ items = 0
  /\ live = {}
  /\ pc = [t \in Threads |-> "idle"]
  /\ idx = [t \in Threads |-> 0]
  /\ at = [t \in Threads |-> 0]
  /\ new = [t \in Threads |-> NoItem]
  /\ old = [t \in Threads |-> NoItem]

Goto(t, from, to) ==
  /\ pc[t] = from
  /\ pc' = [pc EXCEPT ![t] = to]

------------------------------------------------------------------------------
(* Taking an item: the loop of AppendKV_Data and of UpdateKV_Data *)

(* Two Sets of one key may mistakenly run at once: o stays live.           *)
BeginSet_SharedKey(t, i, o) ==
  /\ Goto(t, "idle", "search")
  /\ o = NoItem \/ o \in live
  /\ old' = [old EXCEPT ![t] = o]
  /\ idx' = [idx EXCEPT ![t] = i]
  /\ at' = [at EXCEPT ![t] = i]
  /\ UNCHANGED <<free_space, free_space_spls, items, live, new>>

(* A Set of a new key (o = NoItem), or of the key whose record is at o.    *)
BeginSet(t, i, o) ==
  /\ Goto(t, "idle", "search")
  /\ o = NoItem \/ o \in live
  /\ live' = live \ {o}
  /\ old' = [old EXCEPT ![t] = o]
  /\ idx' = [idx EXCEPT ![t] = i]
  /\ at' = [at EXCEPT ![t] = i]
  /\ UNCHANGED <<free_space, free_space_spls, items, new>>

InSearch(t) == at[t] <= MaxIdx /\ at[t] < idx[t] + SupSpace

HasSpare_OrMore(c) == Len(free_space[c]) >= Reserve
HasSpare(c) == Len(free_space[c]) > Reserve

(* free_space[i]->size() > 15, without the lock. *)
SeeSpare(t) ==
  /\ InSearch(t)
  /\ HasSpare(at[t])
  /\ Goto(t, "search", "lock")
  /\ UNCHANGED <<free_space, free_space_spls, items, live, idx, at, new, old>>

SeeNone(t) ==
  /\ pc[t] = "search"
  /\ InSearch(t)
  /\ ~HasSpare(at[t])
  /\ at' = [at EXCEPT ![t] = @ + 1]
  /\ UNCHANGED <<free_space, free_space_spls, items, live, pc, idx, new, old>>

SearchEnds(t) ==
  /\ ~InSearch(t)
  /\ Goto(t, "search", "extend")
  /\ UNCHANGED <<free_space, free_space_spls, items, live, idx, at, new, old>>

(* spinlock::lock of list c: the exchange that finds the lock free.        *)
Acquire_NoWait(t, c) == free_space_spls' = [free_space_spls EXCEPT ![c] = t]
Acquire(t, c) ==
  /\ free_space_spls[c] = None
  /\ free_space_spls' = [free_space_spls EXCEPT ![c] = t]

Release(c) == free_space_spls' = [free_space_spls EXCEPT ![c] = None]

Lock(t) ==
  /\ Goto(t, "lock", "pop")
  /\ Acquire(t, at[t])
  /\ UNCHANGED <<free_space, items, live, idx, at, new, old>>

(* top() and pop(): undefined if the stack is empty, so that no step is    *)
(* defined for it here and NeverPopsEmpty says that it does not happen.    *)
Pop(t) ==
  LET s == free_space[at[t]]
  IN /\ Goto(t, "pop", "unlock")
     /\ s # << >>
     /\ new' = [new EXCEPT ![t] = s[Len(s)]]
     /\ free_space' = [free_space EXCEPT ![at[t]] = SubSeq(s, 1, Len(s) - 1)]
     /\ UNCHANGED <<free_space_spls, items, live, idx, at, old>>

Unlock(t) ==
  /\ Goto(t, "unlock", "write")
  /\ Release(at[t])
  /\ UNCHANGED <<free_space, items, live, idx, at, new, old>>

(* file_end_offset_ moves under its spinlock, which holds nothing else.    *)
Extend(t) ==
  /\ Goto(t, "extend", "write")
  /\ items < MaxItems
  /\ new' = [new EXCEPT ![t] = <<idx[t], items>>]
  /\ items' = items + 1
  /\ UNCHANGED <<free_space, free_space_spls, live, idx, at, old>>

(* A mistaken Write: the Set of a new key recycles too. *)
Write_AlwaysRecycle(t) ==
  /\ Goto(t, "write", "recycle")
  /\ live' = live \cup {new[t]}
  /\ new' = [new EXCEPT ![t] = NoItem]
  /\ UNCHANGED <<free_space, free_space_spls, items, idx, at, old>>

(* The record is written: SetKV_Data or CreateKV_Data.  A Set of a new key *)
(* then ends; an update goes on to RecycleKV_Data.                         *)
Write(t) ==
  /\ Goto(t, "write", IF old[t] = NoItem THEN "idle" ELSE "recycle")
  /\ live' = live \cup {new[t]}
  /\ new' = [new EXCEPT ![t] = NoItem]
  /\ UNCHANGED <<free_space, free_space_spls, items, idx, at, old>>

------------------------------------------------------------------------------
(* Giving an item back: RecycleKV_Data *)

HasRoom_OneMore(c) == Len(free_space[c]) <= MaxFree
HasRoom(c) == Len(free_space[c]) < MaxFree

(* free_space[idx]->size() < MAX_FREE_SPACE_SIZE, without the lock.        *)
SeeRoom(t) ==
  /\ HasRoom(ChunkOf(old[t]))
  /\ Goto(t, "recycle", "rlock")
  /\ at' = [at EXCEPT ![t] = ChunkOf(old[t])]
  /\ UNCHANGED <<free_space, free_space_spls, items, live, idx, new, old>>

(* The list is full: the item is dropped, until the next recovery.         *)
Drop(t) ==
  /\ ~HasRoom(ChunkOf(old[t]))
  /\ Goto(t, "recycle", "idle")
  /\ old' = [old EXCEPT ![t] = NoItem]
  /\ UNCHANGED <<free_space, free_space_spls, items, live, idx, at, new>>

RecycleLock(t) ==
  /\ Goto(t, "rlock", "push")
  /\ Acquire(t, at[t])
  /\ UNCHANGED <<free_space, items, live, idx, at, new, old>>

Push(t) ==
  /\ Goto(t, "push", "runlock")
  /\ free_space' = [free_space EXCEPT ![at[t]] = Append(@, old[t])]
  /\ old' = [old EXCEPT ![t] = NoItem]
  /\ UNCHANGED <<free_space_spls, items, live, idx, at, new>>

RecycleUnlock(t) ==
  /\ Goto(t, "runlock", "idle")
  /\ Release(at[t])
  /\ UNCHANGED <<free_space, items, live, idx, at, new, old>>

Step(t) ==
  \/ SeeSpare(t) \/ SeeNone(t) \/ SearchEnds(t)
  \/ Lock(t) \/ Pop(t) \/ Unlock(t) \/ Extend(t) \/ Write(t)
  \/ SeeRoom(t) \/ Drop(t) \/ RecycleLock(t) \/ Push(t) \/ RecycleUnlock(t)

Next ==
  \E t \in Threads :
    \/ \E i \in Chunks, o \in live \cup {NoItem} : BeginSet(t, i, o)
    \/ Step(t)

Spec == Init /\ [][Next]_vars

------------------------------------------------------------------------------
(* Properties *)

Holding == {"pop", "unlock", "push", "runlock"}

TypeOK ==
  /\ free_space \in [Chunks -> Seq(Items)]
  /\ free_space_spls \in [Chunks -> Threads \cup {None}]
  /\ items \in Nat
  /\ live \subseteq Items
  /\ pc \in [Threads -> PCs]
  /\ idx \in [Threads -> Chunks]
  /\ at \in [Threads -> Nat]
  /\ new \in [Threads -> Items \cup {NoItem}]
  /\ old \in [Threads -> Items \cup {NoItem}]
  /\ \A t \in Threads :
       /\ pc[t] \in Holding \cup {"lock", "rlock"} => at[t] \in Chunks
       /\ pc[t] \in {"recycle", "rlock", "push"} => old[t] # NoItem
       /\ pc[t] \in {"unlock", "write"} => new[t] # NoItem

(* No thread calls top() and pop() on an empty stack, though the size it   *)
(* checked may be long out of date: 16 threads that all saw 16 items find  *)
(* one each.  (posix_file_aep.cpp, lines 88 to 91 and 135 to 138)          *)
NeverPopsEmpty == \A t \in Threads : pc[t] = "pop" => free_space[at[t]] # << >>

(* The unlocked check of RecycleKV_Data lets a list outgrow                *)
(* MAX_FREE_SPACE_SIZE, by less than the number of threads.                *)
ListsBounded == \A c \in Chunks : Len(free_space[c]) < MaxFree + Cardinality(Threads)

(* The thread inside a list is the one that holds the list's spinlock, so  *)
(* there is at most one, and the holder of a spinlock never waits.         *)
LocksGuard ==
  \A c \in Chunks, t \in Threads :
    free_space_spls[c] = t <=> pc[t] \in Holding /\ at[t] = c

(* No item has two owners: it is in one place of one list, or the record   *)
(* of one key, or the item one thread is writing or giving back.           *)
Listed(c) == {free_space[c][n] : n \in 1..Len(free_space[c])}
Holds(t) == {new[t], old[t]} \ {NoItem}

ListedOnce ==
  \A c, d \in Chunks : \A m \in 1..Len(free_space[c]), n \in 1..Len(free_space[d]) :
    free_space[c][m] = free_space[d][n] => c = d /\ m = n

ListedIsFree == \A c \in Chunks : Listed(c) \cap (live \cup UNION {Holds(t) : t \in Threads}) = {}

HeldAlone ==
  \A t \in Threads :
    /\ Holds(t) \cap live = {}
    /\ \A u \in Threads \ {t} : Holds(t) \cap Holds(u) = {}
    /\ new[t] = old[t] => new[t] = NoItem

OneOwner == ListedOnce /\ ListedIsFree /\ HeldAlone

==============================================================================
