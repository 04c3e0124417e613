------------------------------ MODULE PatenEngine ------------------------------
(***************************************************************************)
(* nvm_engine_paten, the predecessor of nvm_engine_patentair on ordinary   *)
(* files: a Set appends its value to a data file and an Index to an index  *)
(* file of the same number.  The place of a record is the file_offset_     *)
(* that a fetch_add reserves, but the files are opened with O_APPEND, and  *)
(* so the record goes to the end of the file, wherever pwrite is told to   *)
(* write.  Offsets count records.  The skip lists are functions (see       *)
(* SkipList).                                                              *)
(*                                                                         *)
(* Threads Set and Get, a pwrite can fail, and the process can be killed   *)
(* between any two steps; a pwrite writes its record as a whole.           *)
(***************************************************************************)
EXTENDS Integers, Sequences

CONSTANTS
  Keys, Threads,
  MaxFile,         \* max_file_: twice the number of processors, a power of 2
  MaxSets,         \* the bound on the Sets; a value is the number of its Set
  Workloads,       \* [clients: the threads that call, fails: pwrite may fail]
  NotFound, Nothing

VARIABLES
  disk,     \* [data, index: file -> the records in it]
  mem,      \* [cursor_, data, index: file -> file_offset_, tables: key -> Index,
            \*  replay: <<file, records read>> of recovery or Nothing]
  client,   \* thread -> [op, key, value, file, off: the place reserved, right]
  reply,
  ghost     \* [sets, returned: the keys of Sets that returned, workload]

vars == <<disk, mem, client, reply, ghost>>

Files == 0..MaxFile - 1
Each(x) == [f \in Files |-> x]
Idle == [op |-> "idle", key |-> Nothing, value |-> 0, file |-> 0, off |-> 0, right |-> TRUE]

(* NewFile takes the size of an existing file for its file_offset_. *)
Opened(d) ==
  [cursor_ |-> 0, tables |-> [k \in Keys |-> Nothing], replay |-> <<0, 0>>,
   data |-> [f \in Files |-> Len(d.data[f])], index |-> [f \in Files |-> Len(d.index[f])]]

Init ==
  /\ disk = [data |-> Each(<<>>), index |-> Each(<<>>)]
  /\ mem = Opened(disk)
  /\ client = [t \in Threads |-> Idle]
  /\ reply = Nothing
  /\ \E w \in Workloads : ghost = [sets |-> 0, returned |-> {}, workload |-> w]

Recovering == mem.replay # Nothing

Goto(t, from, to) ==
  /\ client[t].op = from
  /\ client' = [client EXCEPT ![t].op = to]
  /\ reply' = Nothing

Set(t, k) ==
  /\ ~Recovering
  /\ t \in ghost.workload.clients
  /\ client[t].op = "idle"
  /\ ghost.sets < MaxSets
  /\ client' = [client EXCEPT ![t] = [Idle EXCEPT
       !.op = "reserve", !.key = k, !.value = ghost.sets + 1, !.file = mem.cursor_]]
  /\ mem' = [mem EXCEPT !.cursor_ = (@ + 1) % MaxFile]
  /\ ghost' = [ghost EXCEPT !.sets = @ + 1]
  /\ reply' = Nothing
  /\ UNCHANGED disk

(* AppendData: the place ... *)
ReserveData(t) ==
  /\ client[t].op = "reserve"
  /\ client' = [client EXCEPT ![t].op = "data", ![t].off = mem.data[client[t].file]]
  /\ mem' = [mem EXCEPT !.data[client[t].file] = @ + 1]
  /\ reply' = Nothing
  /\ UNCHANGED <<disk, ghost>>

(* ... and the record, which is at the right place if the file ends there. *)
AppendData(t) ==
  LET c == client[t] IN
  /\ c.op = "data"
  /\ disk' = [disk EXCEPT !.data[c.file] = Append(@, <<c.key, c.value>>)]
  /\ client' = [client EXCEPT ![t].op = "index", ![t].right = Len(disk.data[c.file]) = c.off]
  /\ reply' = Nothing
  /\ UNCHANGED <<mem, ghost>>

(* The Index a Set makes; `value' and `right' are history.                 *)
Index(c) == [file |-> c.file, off |-> c.off, value |-> c.value, right |-> c.right]

AppendIndex(t) ==
  LET c == client[t] IN
  /\ Goto(t, "index", "insert")
  /\ mem' = [mem EXCEPT !.index[c.file] = @ + 1]
  /\ disk' = [disk EXCEPT !.index[c.file] = Append(@, <<c.key, Index(c)>>)]
  /\ UNCHANGED ghost

(* A pwrite fails: Set returns NotFound, and the place stays reserved.     *)
Fail(t) ==
  LET c == client[t] IN
  /\ ghost.workload.fails
  /\ c.op \in {"data", "index"}
  /\ client' = [client EXCEPT ![t] = Idle]
  /\ mem' = IF c.op = "index" THEN [mem EXCEPT !.index[c.file] = @ + 1] ELSE mem
  /\ reply' = Nothing
  /\ UNCHANGED <<disk, ghost>>

Insert(t) ==
  LET c == client[t] IN
  /\ c.op = "insert"
  /\ mem' = [mem EXCEPT !.tables[c.key] = Index(c)]
  /\ client' = [client EXCEPT ![t] = Idle]
  /\ ghost' = [ghost EXCEPT !.returned = @ \cup {c.key}]
  /\ reply' = Nothing
  /\ UNCHANGED disk

(* Read at an Index; a read behind the end gives nothing. *)
Read(at) == IF at.off < Len(disk.data[at.file]) THEN disk.data[at.file][at.off + 1] ELSE <<>>

Answer(k) ==
  IF mem.tables[k] = Nothing THEN NotFound
  ELSE LET record == Read(mem.tables[k]) IN IF record = <<>> THEN Nothing ELSE record[2]

Get(t, k) ==
  /\ ~Recovering
  /\ t \in ghost.workload.clients
  /\ client[t].op = "idle"
  /\ reply' = Answer(k)
  /\ UNCHANGED <<disk, mem, client, ghost>>

Kill ==
  /\ mem' = Opened(disk)
  /\ client' = [t \in Threads |-> Idle]
  /\ reply' = Nothing
  /\ UNCHANGED <<disk, ghost>>

(* A mistaken IndexCallback, which leaves out the last record. *)
More_NotTheLast(f, n) == n + 1 < Len(disk.index[f])
More(f, n) == n < Len(disk.index[f])

(* Recover: the index files one after the other, and IndexCallback's loop. *)
ReplayRecord ==
  /\ Recovering
  /\ LET f == mem.replay[1]  n == mem.replay[2] IN
     /\ f \in Files
     /\ More(f, n)
     /\ LET record == disk.index[f][n + 1]
        IN mem' = [mem EXCEPT !.tables[record[1]] = record[2], !.replay = <<f, n + 1>>]
  /\ reply' = Nothing
  /\ UNCHANGED <<disk, client, ghost>>

ReplayNextFile ==
  /\ Recovering
  /\ LET f == mem.replay[1]  n == mem.replay[2] IN
     /\ ~More(f, n)
     /\ mem' = [mem EXCEPT !.replay = IF f + 1 \in Files THEN <<f + 1, 0>> ELSE Nothing]
  /\ reply' = Nothing
  /\ UNCHANGED <<disk, client, ghost>>

Next ==
  \/ \E t \in Threads :
       \/ \E k \in Keys : Set(t, k) \/ Get(t, k)
       \/ ReserveData(t) \/ AppendData(t) \/ AppendIndex(t) \/ Fail(t) \/ Insert(t)
  \/ Kill
  \/ ReplayRecord
  \/ ReplayNextFile

------------------------------------------------------------------------------
(* An Index leads to the value its Set stored, if its record went to the   *)
(* place reserved for it: as it always does with one thread and no failed  *)
(* write.  A kill and a recovery keep every key whose Set returned.        *)
IndexesLeadToValues ==
  /\ ~Recovering => \A k \in ghost.returned : mem.tables[k] # Nothing
  /\ \A k \in Keys :
       LET at == mem.tables[k] IN
       at # Nothing =>
         /\ at.right => Read(at) = <<k, at.value>>
         /\ ~at.right => ghost.workload.fails \/ \E t, u \in ghost.workload.clients : t # u

TypeOK ==
  /\ mem.cursor_ \in Files
  /\ \A f \in Files : mem.data[f] >= Len(disk.data[f]) /\ mem.index[f] >= Len(disk.index[f])
  /\ \A t \in Threads :
       client[t].op \in {"idle", "reserve", "data", "index", "insert"} /\ client[t].file \in Files
  /\ reply \in 1..MaxSets \cup {NotFound, Nothing}
==============================================================================
