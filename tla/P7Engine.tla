------------------------------- MODULE P7Engine -------------------------------
(***************************************************************************)
(* nvm_engine_p7: one of its 4096 logs.  Values go to a block of P pages   *)
(* and from there to the log's slot of a value file, keys to its slot of a *)
(* mapped key file; a log that fills its slot moves to a file of its own.  *)
(* A key's position in the log is its value's.  Only opening builds the    *)
(* sorted index, so that Get answers from what was there at the time.      *)
(*                                                                         *)
(* A Set runs under the log's mutex and is one step.  The block is mapped  *)
(* privately and is lost if the process is killed: here it is closed.  A   *)
(* log by itself has no neighbours, so that a Set has no step if it fills  *)
(* the slot without enlarging it (see Fits).  A page is the number of the  *)
(* Set that stores it, which tells it from all others.                     *)
(***************************************************************************)
EXTENDS Integers, Sequences, FiniteSetsExt

CONSTANTS
  Keys,          \* numbers from 1 (a key 0 ends the reading of a key log)
  KeyMod, MaxLengthInsertSort,
  N,             \* NUM_PER_SLOT
  P,             \* PAGE_PER_BLOCK
  Enlarged,      \* 20010: the positions of an enlarged log
  MaxSets,       \* the bound on the Sets, below Enlarged
  Kinds,         \* subset of {"even", "odd", "cached"}, see Init
  Zero, Foreign, NotFound, Nothing

VARIABLES
  disk,     \* [slot, enlarged: a log or Nothing]; a log is [values, keys]
  mem,      \* [filePosition, block, sort: SortLog or Nothing, cache or Nothing]
  client,   \* [op: "idle" or "closed", kind]
  reply,
  ghost     \* [sets, latest: key -> value, opened: latest at the last open, damaged]

vars == <<disk, mem, client, reply, ghost>>

SortLog == INSTANCE SortLog

Blank(n) == [values |-> [p \in 0..n - 1 |-> Zero], keys |-> [p \in 0..n - 1 |-> 0]]
IsEnlarged == disk.enlarged # Nothing
Current(d) == IF d.enlarged # Nothing THEN d.enlarged ELSE d.slot

(* A database that is new.  The recovery threads deal with their logs in   *)
(* passes: in the even ones they sort before they set the log's end.  The  *)
(* first logs, of pass 0, have a cache.                                    *)
Init ==
  /\ disk = [slot |-> Blank(N), enlarged |-> Nothing]
  /\ mem = [filePosition |-> 0, block |-> <<>>, sort |-> Nothing, cache |-> Nothing]
  /\ client \in [op : {"idle"}, kind : Kinds]
  /\ reply = Nothing
  /\ LET none == [k \in Keys |-> NotFound]
     IN ghost = [sets |-> 0, latest |-> none, opened |-> none, damaged |-> FALSE]

keyBufferPosition == mem.filePosition + Len(mem.block)

(* pwrite of pages from a position on. *)
Written(log, at, pages) ==
  [log EXCEPT !.values =
    [p \in DOMAIN @ |-> IF p - at \in 0..Len(pages) - 1 THEN pages[p - at + 1] ELSE @[p]]]

(* A mistaken copy that stops before the last block. *)
Enlarge_AllButLast(log, end) ==
  [values |-> [p \in 0..Enlarged - 1 |-> IF p < end - P THEN log.values[p] ELSE Zero],
   keys |-> [p \in 0..Enlarged - 1 |-> IF p < N THEN log.keys[p] ELSE 0]]

(* The log's own file, with the blocks before `end' and the keys copied.   *)
Enlarge(log, end) ==
  [values |-> [p \in 0..Enlarged - 1 |-> IF p < end THEN log.values[p] ELSE Zero],
   keys |-> [p \in 0..Enlarged - 1 |-> IF p < N THEN log.keys[p] ELSE 0]]

PutKey(d, k) ==
  IF d.enlarged # Nothing THEN [d EXCEPT !.enlarged.keys[keyBufferPosition] = k]
  ELSE [d EXCEPT !.slot.keys[keyBufferPosition] = k]

(* putValueKey: the page, with a full block its flush, at the slot's end   *)
(* the enlargement, and then the key.                                      *)
PutBlock(block) ==
  LET log == Written(Current(disk), mem.filePosition, block)
      end == mem.filePosition + P
  IN IF Len(block) < P THEN disk
     ELSE IF end + P > N /\ end <= N
          THEN [slot |-> IF IsEnlarged THEN disk.slot ELSE log,
                enlarged |-> IF IsEnlarged THEN log ELSE Enlarge(log, end)]
          ELSE IF IsEnlarged THEN [disk EXCEPT !.enlarged = log] ELSE [disk EXCEPT !.slot = log]

(* The bounds.  A log that was closed within a block of the slot's end     *)
(* does not meet the test for its end any more and goes on in the slot of  *)
(* the next log, and one that is full is read on there.                    *)
Fits(d) ==
  /\ ghost.sets < MaxSets
  /\ d.enlarged # Nothing \/ keyBufferPosition + 1 < N

Set(k) ==
  LET page == ghost.sets + 1
      block == Append(mem.block, page)
      full == Len(block) = P
      d == PutBlock(block)
  IN
  /\ client.op = "idle"
  /\ Fits(d)
  /\ disk' = PutKey(d, k)
  /\ mem' = [mem EXCEPT !.block = IF full THEN <<>> ELSE block,
                        !.filePosition = IF full THEN @ + P ELSE @]
  /\ ghost' = [ghost EXCEPT !.sets = page, !.latest[k] = page,
                 !.damaged = @ \/ Current(d).keys[keyBufferPosition] # 0]
  /\ reply' = Nothing
  /\ UNCHANGED client

(* PEngine::Get, when the engine has an index. *)
Answer(k) ==
  LET index == SortLog!find(mem.sort, k)
  IN IF index = -1 THEN NotFound
     ELSE IF mem.cache = Nothing THEN Current(disk).values[index]
     ELSE IF index < N THEN mem.cache[index] ELSE Foreign   \* the next log's cache

Get(k) ==
  /\ client.op = "idle"
  /\ mem.sort # Nothing
  /\ reply' = Answer(k)
  /\ UNCHANGED <<disk, mem, client, ghost>>

(* A mistaken destructor, which forgets the block that is not full. *)
Close_NoFlush ==
  /\ client.op = "idle"
  /\ client' = [client EXCEPT !.op = "closed"]
  /\ reply' = Nothing
  /\ UNCHANGED <<disk, mem, ghost>>

Close ==
  /\ client.op = "idle"
  /\ LET log == Written(Current(disk), mem.filePosition, mem.block)
     IN disk' = IF IsEnlarged THEN [disk EXCEPT !.enlarged = log] ELSE [disk EXCEPT !.slot = log]
  /\ client' = [client EXCEPT !.op = "closed"]
  /\ reply' = Nothing
  /\ UNCHANGED <<mem, ghost>>

(* getKey and put until a key is 0. *)
Entries(log) ==
  LET end == Min({p \in DOMAIN log.keys : log.keys[p] = 0})
  IN [i \in 1..end |-> <<log.keys[i - 1], i - 1>>]

(* The PEngine of a database that exists.  In an even pass the log ends    *)
(* with the number of its different keys, in an odd one with that of its   *)
(* entries.  The cache is used if the whole database is large enough.      *)
Open ==
  LET log == Current(disk)
      sort == SortLog!quicksort(Entries(log))
      end == Len(IF client.kind = "odd" THEN Entries(log) ELSE sort)
      cache == [p \in 0..N - 1 |-> log.values[p]]
  IN
  /\ client.op = "closed"
  /\ \E c \in {Nothing} \cup (IF client.kind = "cached" THEN {cache} ELSE {}) :
       mem' = [filePosition |-> end, block |-> <<>>, sort |-> sort, cache |-> c]
  /\ client' = [client EXCEPT !.op = "idle"]
  /\ ghost' = [ghost EXCEPT !.opened = ghost.latest]
  /\ reply' = Nothing
  /\ UNCHANGED disk

Next ==
  \/ \E k \in Keys : Set(k) \/ Get(k)
  \/ Close
  \/ Open

------------------------------------------------------------------------------
(* A Get answers with the last value its key had when the database was     *)
(* opened, over flushes, the move to an enlarged log, and Sets that come   *)
(* after the open: unless a Set after an open has taken the position of an *)
(* earlier one, which it does not in a log of an odd pass, the cache of    *)
(* the next log is read, or the key is the greatest one.                   *)
AnswersAreLatest ==
  /\ client.op = "idle" /\ mem.sort # Nothing /\ ~ghost.damaged =>
       \A k \in Keys : Answer(k) \in {ghost.opened[k], Foreign} \/ k = KeyMod - 1
  /\ client.kind = "odd" => ~ghost.damaged

TypeOK ==
  /\ disk.slot.keys \in [0..N - 1 -> Keys \cup {0}]
  /\ mem.filePosition \in 0..MaxSets + P /\ Len(mem.block) < P
  /\ client.op \in {"idle", "closed"} /\ client.kind \in Kinds
  /\ ghost.latest \in [Keys -> 1..MaxSets \cup {NotFound}]
  /\ reply \in 1..MaxSets \cup {NotFound, Foreign, Nothing}
==============================================================================
