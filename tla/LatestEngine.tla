----------------------------- MODULE LatestEngine -----------------------------
(***************************************************************************)
(* nvm_engine_latest as a whole: one shard, its index and its free list    *)
(* under several threads and kills.  The other modules have the parts in   *)
(* detail; here a record is written in one step (AepRecord has the         *)
(* stores), the index is a function (MyHashMap), the list is entered at    *)
(* once (FreeSpace).  Items have one size and are numbered by their place  *)
(* in the file.                                                            *)
(***************************************************************************)
EXTENDS Integers, Sequences, SequencesExt

CONSTANTS
  Keys, Threads,
  Reserve,              \* 15 in the code
  MaxSets, MaxStops,    \* the bounds on Sets and kills
  NotFound, Nothing

VARIABLES
  disk,     \* the items
  mem,      \* [up: CreateOrOpen has returned, index, free_space, file_end_offset_,
            \*  key_set_cnts_f]
  client,   \* thread -> its call
  reply,    \* the last answer: [got, current], current being what was to be got
  ghost     \* [sets, stops, current: what a key has, stored: its last record's value,
            \*  hole: whether a kill left a hole before a record]

vars == <<disk, mem, client, reply, ghost>>

EMPTY == -1
Items == 0..MaxSets
Blank == [key |-> Nothing, value |-> 0, cnt |-> 0]
Idle == [op |-> "idle", key |-> Nothing, value |-> 0, cnt |-> 0, old |-> EMPTY, new |-> EMPTY,
         disturbed |-> FALSE]
Fresh == [up |-> FALSE, index |-> [k \in Keys |-> EMPTY], free_space |-> <<>>,
          file_end_offset_ |-> 0, key_set_cnts_f |-> 0]

Init ==
  /\ disk = [o \in Items |-> Blank]
  /\ mem = Fresh
  /\ client = [t \in Threads |-> Idle]
  /\ reply = Nothing
  /\ ghost = [sets |-> 0, stops |-> 0, hole |-> FALSE,
              current |-> [k \in Keys |-> NotFound], stored |-> [k \in Keys |-> NotFound]]

Goes(t, c) == client' = [client EXCEPT ![t] = c]
Setting(k) == \E t \in Threads : client[t].key = k /\ client[t].op \notin {"idle", "read"}

(* The lookup and the count.  The clients do not Set one key twice at once. *)
Set(t, k) ==
  LET value == ghost.sets + 1 IN
  /\ mem.up /\ client[t].op = "idle"
  /\ ghost.sets < MaxSets
  /\ ~Setting(k)
  /\ client' = [u \in Threads |->
       IF u = t THEN [Idle EXCEPT !.op = "take", !.key = k, !.value = value,
                                  !.cnt = mem.key_set_cnts_f + 1, !.old = mem.index[k]]
       ELSE [client[u] EXCEPT !.disturbed = @ \/ (client[u].op = "read" /\ client[u].key = k)]]
  /\ mem' = [mem EXCEPT !.key_set_cnts_f = @ + 1]
  /\ ghost' = [ghost EXCEPT !.sets = value]
  /\ reply' = Nothing
  /\ UNCHANGED disk

Takes(t, o) == Goes(t, [client[t] EXCEPT !.op = "write", !.new = o])

(* A mistaken Reuse: top() without pop(). *)
Reuse_NoPop(t) ==
  /\ Takes(t, Last(mem.free_space))
  /\ UNCHANGED mem

Reuse(t) ==
  /\ Takes(t, Last(mem.free_space))
  /\ mem' = [mem EXCEPT !.free_space = Front(@)]

Extend(t) ==
  /\ Takes(t, mem.file_end_offset_)
  /\ mem' = [mem EXCEPT !.file_end_offset_ = @ + 1]

Take(t) ==
  /\ client[t].op = "take"
  /\ IF Len(mem.free_space) > Reserve THEN Reuse(t) ELSE Extend(t)
  /\ reply' = Nothing
  /\ UNCHANGED <<disk, ghost>>

(* SetKV_Data or CreateKV_Data *)
Write(t) ==
  LET c == client[t] IN
  /\ c.op = "write"
  /\ disk' = [disk EXCEPT ![c.new] = [key |-> c.key, value |-> c.value, cnt |-> c.cnt]]
  /\ Goes(t, [c EXCEPT !.op = IF c.old = EMPTY THEN "index" ELSE "recycle"])
  /\ ghost' = [ghost EXCEPT !.stored[c.key] = c.value]
  /\ reply' = Nothing
  /\ UNCHANGED mem

(* RecycleKV_Data, while the index leads to the item still. *)
Recycle(t) ==
  /\ client[t].op = "recycle"
  /\ mem' = [mem EXCEPT !.free_space = Append(@, client[t].old)]
  /\ Goes(t, [client[t] EXCEPT !.op = "index"])
  /\ reply' = Nothing
  /\ UNCHANGED <<disk, ghost>>

(* put or update, and Set returns. *)
Index(t) ==
  LET c == client[t] IN
  /\ c.op = "index"
  /\ mem' = [mem EXCEPT !.index[c.key] = c.new]
  /\ Goes(t, Idle)
  /\ ghost' = [ghost EXCEPT !.current[c.key] = c.value]
  /\ reply' = Nothing
  /\ UNCHANGED disk

Lookup(t, k) ==
  /\ mem.up /\ client[t].op = "idle"
  /\ IF mem.index[k] = EMPTY
     THEN /\ reply' = [got |-> NotFound, current |-> ghost.current[k]]
          /\ UNCHANGED client
     ELSE /\ Goes(t, [Idle EXCEPT !.op = "read", !.key = k, !.old = mem.index[k],
                                  !.disturbed = Setting(k)])
          /\ reply' = Nothing
  /\ UNCHANGED <<disk, mem, ghost>>

(* ReadKV_Data looks at neither the key nor the counts. *)
Read(t) ==
  LET c == client[t] IN
  /\ c.op = "read"
  /\ reply' = IF c.disturbed THEN Nothing
              ELSE [got |-> disk[c.old].value, current |-> ghost.current[c.key]]
  /\ Goes(t, Idle)
  /\ UNCHANGED <<disk, mem, ghost>>

(* A kill, and the objects of a new process. *)
Stop ==
  /\ ghost.stops < MaxStops
  /\ mem' = Fresh
  /\ client' = [t \in Threads |-> Idle]
  /\ ghost' = [ghost EXCEPT
       !.stops = @ + 1, !.current = ghost.stored,
       !.hole = @ \/ \E o \in Items : disk[o] = Blank /\ \E p \in Items : p > o /\ disk[p] # Blank]
  /\ reply' = Nothing
  /\ UNCHANGED disk

(* One round of IndexCallback's loop: the item at the end so far is the    *)
(* record of its key from now on, if it is the first or a newer one.       *)
RecoverItem ==
  LET o == mem.file_end_offset_
      k == disk[o].key
      old == mem.index[k]
      newer == old # EMPTY /\ disk[o].cnt > disk[old].cnt
  IN
  /\ ~mem.up
  /\ disk[o] # Blank
  /\ mem' = [mem EXCEPT
       !.index[k] = IF old = EMPTY \/ newer THEN o ELSE old,
       !.free_space = IF old = EMPTY THEN @ ELSE Append(@, IF newer THEN old ELSE o),
       !.file_end_offset_ = o + 1,
       !.key_set_cnts_f = IF disk[o].cnt > @ THEN disk[o].cnt ELSE @]
  /\ reply' = Nothing
  /\ UNCHANGED <<disk, client, ghost>>

(* The loop ends at the first item without a record. *)
RecoverEnd ==
  /\ ~mem.up
  /\ disk[mem.file_end_offset_] = Blank
  /\ mem' = [mem EXCEPT !.up = TRUE]
  /\ reply' = Nothing
  /\ UNCHANGED <<disk, client, ghost>>

Next ==
  \/ \E t \in Threads :
       \/ \E k \in Keys : Set(t, k) \/ Lookup(t, k)
       \/ Take(t)
       \/ Write(t)
       \/ Recycle(t)
       \/ Index(t)
       \/ Read(t)
  \/ Stop
  \/ RecoverItem
  \/ RecoverEnd

------------------------------------------------------------------------------
(* A Get that no Set of its key overlaps answers with what the key has,    *)
(* though items are recycled and given to other threads meanwhile; and a   *)
(* kill keeps every record, unless it left an item without a record before *)
(* one that has one.                                                       *)
UndisturbedGetsAreCurrent == reply # Nothing /\ ~ghost.hole => reply.got = reply.current

TypeOK ==
  /\ mem.index \in [Keys -> Items \cup {EMPTY}]
  /\ mem.file_end_offset_ \in 0..MaxSets
  /\ mem.key_set_cnts_f \in 0..MaxSets
  /\ ToSet(mem.free_space) \subseteq Items
  /\ \A t \in Threads : client[t].op \in {"idle", "take", "write", "recycle", "index", "read"}
==============================================================================
