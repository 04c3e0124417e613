--------------------------- MODULE PatentairEngine ---------------------------
(***************************************************************************)
(* nvm_engine_patentair: values are appended to max_file_ data files and   *)
(* described by entries appended to as many index files, all of them       *)
(* mapped persistent memory; the end of every file is persisted in a file  *)
(* of its own.  In DRAM, skip lists map a key to its latest Index.         *)
(*                                                                         *)
(* Client threads Set and Get; the machine or the process may stop between *)
(* any two steps.  Every store is persisted before the next one, and what  *)
(* lies past a persisted end is never read by recovery: a power loss in    *)
(* the middle of a store leaves what a stop before that store leaves.      *)
(*                                                                         *)
(* Offsets count records, not bytes: the file position of a record is      *)
(* fixed by those before it, whatever their sizes.  The links of the skip  *)
(* lists are left out, but not the overwriting of an Index field by field. *)
(***************************************************************************)
EXTENDS Integers, FiniteSets

CONSTANTS
  Keys, Values,
  Threads,       \* the client threads
  MaxFile,       \* max_file_: twice the number of processors
  MaxRecords,    \* bound on the records of a file, which the code ignores
  Workloads,     \* [clients |-> threads that call, sets, crashes |-> bounds]
  NotFound,      \* Get's status for a key that no table has
  Zeros,         \* what a file holds where nothing was written
  Nothing        \* no call, no answer, no table entry

ASSUME EngineAssumption ==
  /\ \E e \in 0..8 : MaxFile = 2^e    \* the mask max_file_ - 1 relies on it
  /\ MaxFile \in Nat \ {0} /\ MaxRecords \in Nat \ {0}
  /\ \A w \in Workloads : w.clients \subseteq Threads /\ w.crashes \in Nat /\ w.sets \in 0..MaxRecords
  /\ {NotFound, Zeros, Nothing} \cap Values = {}
  /\ NotFound # Zeros /\ NotFound # Nothing /\ Zeros # Nothing

Files == 0..(MaxFile - 1)
Positions == 0..(MaxRecords - 1)
Kinds == {"data", "index"}

(* An Index is where a value is: which data file, and its position there.  *)
Indexes == [file : Files, off : Positions]
IndexRecords == [key : Keys, at : Indexes]
DataRecords == [key : Keys, val : Values]

(* Nothing and Zeros are told from what they stand in place of. *)
ASSUME MarksAssumption ==
  /\ Nothing \notin [file : Files, off : Nat] /\ Nothing \notin [Files -> Nat]
  /\ Zeros \notin DataRecords /\ Zeros \notin [key : Keys, at : [file : Files, off : Nat]]

VARIABLES
  region,       \* [kind][file][position]: the files' contents
  file_end,     \* [kind][file]: the persisted end, *fileendptr_
  file_offset,  \* [kind][file]: file_offset_, the end in DRAM
  cursor,       \* cursor_, modulo max_file_
  tables,       \* key -> Index, or Nothing: the skip lists
  pc, op,       \* thread -> where it is, and its call
  reply,        \* thread -> the answer its Get is returning, or Nothing
  pos,          \* file -> IndexCallback's position
  clients, sets, crashes,  \* the workload: who calls, what is left of its bounds
  store,        \* history: key -> value its last Insert made current
  given,        \* history: the pairs of key and value that were Set
  cut           \* history: those whose Set the last crash interrupted

pmem == <<region, file_end>>
workload == <<clients, sets, crashes>>
history == <<store, given, cut>>
vars == <<pmem, file_offset, cursor, tables, pc, op, reply, pos, workload, history>>

Recovering == pos # Nothing

(* Another Insert of the key holds the table's lock in its critical part.  *)
Locked(k) == \E t \in Threads : pc[t] = "overwrite" /\ op[t].key = k

------------------------------------------------------------------------------
Init ==
  /\ region = [kind \in Kinds |-> [f \in Files |-> [p \in Positions |-> Zeros]]]
  /\ file_end = [kind \in Kinds |-> [f \in Files |-> 0]]
  /\ file_offset = file_end
  /\ cursor = 0
  /\ tables = [k \in Keys |-> Nothing]
  /\ pc = [t \in Threads |-> "idle"]
  /\ op = [t \in Threads |-> Nothing]
  /\ reply = [t \in Threads |-> Nothing]
  /\ pos = Nothing
  /\ \E w \in Workloads : clients = w.clients /\ sets = w.sets /\ crashes = w.crashes
  /\ store = [k \in Keys |-> NotFound]
  /\ given = {}
  /\ cut = {}

Goto(t, label) == pc' = [pc EXCEPT ![t] = label]

(* cursor_++ & (max_file_ - 1): max_file_ is a power of 2. *)
NextFile(c) == (c + 1) % MaxFile

(* Set, up to its first append: the cursor picks the pair of files.        *)
Set(t, k, v) ==
  /\ ~Recovering
  /\ pc[t] = "idle"
  /\ sets > 0
  /\ sets' = sets - 1
  /\ cursor' = NextFile(cursor)
  /\ op' = [op EXCEPT ![t] = [key |-> k, val |-> v, file |-> cursor, kind |-> "data",
                              slot |-> 0, end |-> 0, off |-> 0]]
  /\ Goto(t, "reserve")
  /\ given' = given \cup {<<k, v>>}
  /\ UNCHANGED <<pmem, file_offset, tables, reply, pos, clients, crashes, store, cut>>

(* AppendData and AppendIndex: file_offset_.fetch_add reserves the record. *)
Reserve(t) ==
  LET f == op[t].file  kind == op[t].kind  p == file_offset[kind][f]
  IN /\ pc[t] = "reserve"
     /\ file_offset' = [file_offset EXCEPT ![kind][f] = p + 1]
     /\ op' = [op EXCEPT ![t].slot = p, ![t].off = IF kind = "data" THEN p ELSE @]
     /\ Goto(t, "write")
     /\ UNCHANGED <<pmem, cursor, tables, reply, pos, workload, history>>

(* A mistaken Index, of the position last reserved: the index file's.      *)
IndexOf_LastSlot(o) == [file |-> o.file, off |-> o.slot]

(* The Index that a Set makes of its key's value. *)
IndexOf(o) == [file |-> o.file, off |-> o.off]

(* The bytes an append copies into its reservation. *)
Encode(o) == IF o.kind = "data" THEN [key |-> o.key, val |-> o.val]
             ELSE [key |-> o.key, at |-> IndexOf(o)]

(* memcpy and pmem_persist of the record. *)
Write(t) ==
  /\ pc[t] = "write"
  /\ region' = [region EXCEPT ![op[t].kind][op[t].file][op[t].slot] = Encode(op[t])]
  /\ Goto(t, "load_end")
  /\ UNCHANGED <<file_end, file_offset, cursor, tables, op, reply, pos, workload, history>>

(* A mistaken end: the record's own position, before it rather than after. *)
End_OwnSlot(o) == o.slot

(* The current end, other threads' reservations included.                  *)
End(o) == file_offset[o.kind][o.file]

(* fileend = file_offset_. *)
LoadEnd(t) ==
  /\ pc[t] = "load_end"
  /\ op' = [op EXCEPT ![t].end = End(op[t])]
  /\ Goto(t, "store_end")
  /\ UNCHANGED <<pmem, file_offset, cursor, tables, reply, pos, workload, history>>

(* The end just read is stored, whatever was stored since; AppendData is   *)
(* followed by AppendIndex, and that by Insert.                            *)
StoreEnd(t) ==
  /\ pc[t] = "store_end"
  /\ file_end' = [file_end EXCEPT ![op[t].kind][op[t].file] = op[t].end]
  /\ \/ /\ op[t].kind = "data"
        /\ op' = [op EXCEPT ![t].kind = "index"]
        /\ Goto(t, "reserve")
     \/ /\ op[t].kind = "index"
        /\ Goto(t, "insert")
        /\ UNCHANGED op
  /\ UNCHANGED <<region, file_offset, cursor, tables, reply, pos, workload, history>>

Return(t) ==
  /\ Goto(t, "idle")
  /\ op' = [op EXCEPT ![t] = Nothing]

(* Insert of a key the table does not have: the node is published whole.   *)
InsertNew(t) ==
  /\ pc[t] = "insert"
  /\ tables[op[t].key] = Nothing
  /\ tables' = [tables EXCEPT ![op[t].key] = IndexOf(op[t])]
  /\ store' = [store EXCEPT ![op[t].key] = op[t].val]
  /\ Return(t)
  /\ UNCHANGED <<pmem, file_offset, cursor, reply, pos, workload, given, cut>>

(* Insert of a key it has: Index::operator= assigns the fields of the      *)
(* linked node one after the other, under the lock that readers ignore.    *)
InsertOld(t) ==
  /\ pc[t] = "insert"
  /\ tables[op[t].key] # Nothing
  /\ ~Locked(op[t].key)
  /\ tables' = [tables EXCEPT ![op[t].key].file = op[t].file]
  /\ Goto(t, "overwrite")
  /\ UNCHANGED <<pmem, file_offset, cursor, op, reply, pos, workload, history>>

Overwrite(t) ==
  /\ pc[t] = "overwrite"
  /\ tables' = [tables EXCEPT ![op[t].key].off = op[t].off]
  /\ store' = [store EXCEPT ![op[t].key] = op[t].val]
  /\ Return(t)
  /\ UNCHANGED <<pmem, file_offset, cursor, reply, pos, workload, given, cut>>

(* Get: the lookup, and the copy of the first field of the Index found.    *)
Get(t, k) ==
  /\ ~Recovering
  /\ pc[t] = "idle"
  /\ \/ /\ tables[k] = Nothing
        /\ reply' = [reply EXCEPT ![t] = NotFound]
        /\ Goto(t, "answered")
        /\ UNCHANGED op
     \/ /\ tables[k] # Nothing
        /\ op' = [op EXCEPT ![t] = [key |-> k, file |-> tables[k].file, off |-> 0]]
        /\ Goto(t, "copy")
        /\ UNCHANGED reply
  /\ UNCHANGED <<pmem, file_offset, cursor, tables, pos, workload, history>>

(* The copy of the second field. *)
Copy(t) ==
  /\ pc[t] = "copy"
  /\ op' = [op EXCEPT ![t].off = tables[op[t].key].off]
  /\ Goto(t, "read")
  /\ UNCHANGED <<pmem, file_offset, cursor, tables, reply, pos, workload, history>>

(* A mistaken read, of the file the cursor is at. *)
ReadData_AtCursor(f, p) ==
  {IF region["data"][cursor][p] = Zeros THEN Zeros ELSE region["data"][cursor][p].val}

(* The values PosixAepFile::Read and DecodeData can make of a position:    *)
(* what is there, of whichever key; past the end of the file, anything.    *)
ReadData(f, p) ==
  IF p > file_offset["data"][f] THEN Values \cup {Zeros, NotFound}
  ELSE {IF region["data"][f][p] = Zeros THEN Zeros ELSE region["data"][f][p].val}

(* Get reads the data file, and has its answer. *)
Answer(t) ==
  /\ pc[t] = "read"
  /\ \E v \in ReadData(op[t].file, op[t].off) : reply' = [reply EXCEPT ![t] = v]
  /\ Goto(t, "answered")
  /\ op' = [op EXCEPT ![t] = Nothing]
  /\ UNCHANGED <<pmem, file_offset, cursor, tables, pos, workload, history>>

GetReturn(t) ==
  /\ pc[t] = "answered"
  /\ reply' = [reply EXCEPT ![t] = Nothing]
  /\ Goto(t, "idle")
  /\ UNCHANGED <<pmem, file_offset, cursor, tables, op, pos, workload, history>>

------------------------------------------------------------------------------
(* A mistaken reopening, which does not read the ends of the data files.   *)
ReadEnds_IndexOnly == [file_end EXCEPT !["data"] = [f \in Files |-> 0]]

(* The ends NewFile reads back. *)
ReadEnds == file_end

(* A stop of the process or the machine, and CreateOrOpen, which reads the *)
(* ends and starts a recovery thread for every index file.                 *)
Crash ==
  /\ crashes > 0
  /\ crashes' = crashes - 1
  /\ file_offset' = ReadEnds
  /\ cursor' = 0
  /\ tables' = [k \in Keys |-> Nothing]
  /\ pc' = [t \in Threads |-> "idle"]
  /\ op' = [t \in Threads |-> Nothing]
  /\ reply' = [t \in Threads |-> Nothing]
  /\ pos' = [f \in Files |-> 0]
  /\ cut' = (IF Recovering THEN cut ELSE {}) \cup
            {<<op[t].key, op[t].val>> :
               t \in {u \in Threads : op[u] # Nothing /\ pc[u] \notin {"copy", "read"}}}
  /\ UNCHANGED <<pmem, clients, sets, store, given>>

(* What DecodeIndex can make of a position: the record there, or, from a   *)
(* reservation never written, whose size reads as 0, stray memory (which   *)
(* no run reaches: one client leaves no such position below an end).       *)
ReadIndex(f, p) ==
  IF region["index"][f][p] = Zeros THEN IndexRecords ELSE {region["index"][f][p]}

(* A mistaken loop that keeps reading one record. *)
NextRecord_Same(p) == p

NextRecord(p) == p + 1

(* One iteration of IndexCallback for index file f.  Its threads take      *)
(* their records in no particular order, and the last Insert stays.        *)
IndexCallback(f) ==
  /\ Recovering
  /\ pos[f] < file_offset["index"][f]
  /\ \E r \in ReadIndex(f, pos[f]) : tables' = [tables EXCEPT ![r.key] = r.at]
  /\ pos' = [pos EXCEPT ![f] = NextRecord(@)]
  /\ UNCHANGED <<pmem, file_offset, cursor, pc, op, reply, workload, history>>

(* The value the tables lead a key to. *)
Current(k) ==
  IF tables[k] = Nothing THEN NotFound
  ELSE LET r == region["data"][tables[k].file][tables[k].off]
       IN IF r = Zeros THEN Zeros ELSE r.val

(* Recover has joined its threads: what they found is now the store.       *)
Recovered ==
  /\ Recovering
  /\ \A f \in Files : pos[f] >= file_offset["index"][f]
  /\ pos' = Nothing
  /\ store' = [k \in Keys |-> Current(k)]
  /\ UNCHANGED <<pmem, file_offset, cursor, tables, pc, op, reply, workload, given, cut>>

Recover == (\E f \in Files : IndexCallback(f)) \/ Recovered

SetStep(t) == Reserve(t) \/ Write(t) \/ LoadEnd(t) \/ StoreEnd(t)
              \/ InsertNew(t) \/ InsertOld(t) \/ Overwrite(t)
GetStep(t) == Copy(t) \/ Answer(t) \/ GetReturn(t)

Next ==
  \/ \E t \in clients, k \in Keys, v \in Values : Set(t, k, v)
  \/ \E t \in clients, k \in Keys : Get(t, k)
  \/ \E t \in clients : SetStep(t) \/ GetStep(t)
  \/ Crash
  \/ Recover

Spec == Init /\ [][Next]_vars

(* CreateOrOpen joins the recovery threads, and the scheduler runs them.   *)
FairSpec == Spec /\ WF_vars(Recover)

------------------------------------------------------------------------------
(* Properties *)

(* t has reserved a record and not yet finished appending it.              *)
Appending(t) == pc[t] \in {"write", "load_end", "store_end"}

(* The engine appends: no store lands on a record that another Set is      *)
(* working on, or on a value some key leads to, over any number of Sets,   *)
(* crashes and recoveries (file_offset_ in AppendData and AppendIndex and  *)
(* the ends that NewFile reads back).                                      *)
AppendsOnly ==
  /\ \A t, u \in Threads :
       t # u /\ Appending(t) /\ Appending(u) /\ op[t].kind = op[u].kind /\ op[t].file = op[u].file
         => op[t].slot # op[u].slot
  /\ \A t \in Threads, k \in Keys :
       Appending(t) /\ op[t].kind = "data" /\ tables[k] # Nothing /\ ~Locked(k)
         => tables[k] # [file |-> op[t].file, off |-> op[t].slot]

(* While no Insert is half done with a key, its table entry leads to the   *)
(* value of the last Insert of the key, and to a record of the key itself: *)
(* the value was written before the Index was published, and since then    *)
(* nobody has written over it (NvmEngine::Set, skiplist.h Insert).         *)
EntriesLeadToValues ==
  ~Recovering => \A k \in Keys : ~Locked(k) =>
    /\ Current(k) = store[k]
    /\ tables[k] # Nothing =>
         /\ region["data"][tables[k].file][tables[k].off] # Zeros
         /\ region["data"][tables[k].file][tables[k].off].key = k
    /\ store[k] # NotFound => <<k, store[k]>> \in given

(* A Get answers with the value of the last Insert of its key, unless an   *)
(* Insert of the key came between its copy of the Index and its answer or  *)
(* during the copy (skiplist.h Get takes no lock).                         *)
UndisturbedGetsAreCurrent ==
  [][\A t \in Threads :
       pc[t] = "read" /\ pc'[t] = "answered"
       /\ tables[op[t].key] = [file |-> op[t].file, off |-> op[t].off] /\ ~Locked(op[t].key)
         => reply'[t] = store[op[t].key]]_vars

(* After a crash, every key whose Set had returned is found again, with a  *)
(* value that was Set for it, though perhaps an earlier one: with one      *)
(* client thread no entry that recovery should read lies past the          *)
(* persisted end, and no position it reads was left unwritten.             *)
RestartKeepsEveryKey ==
  [][Recovering /\ pos' = Nothing =>
       \A k \in Keys :
         /\ store[k] # NotFound => store'[k] # NotFound
         /\ store'[k] # NotFound => <<k, store'[k]>> \in given]_vars

(* Recovery ends, unless the machine keeps crashing (there are finitely    *)
(* many crashes here): IndexCallback's loop advances with every record.    *)
RecoveryEnds == Recovering ~> ~Recovering

(* README.md, line 14: after a call, and even when the power fails, the    *)
(* data is complete and correctly recovered.  After recovery a key has the *)
(* value it had, or that of a Set the crash interrupted.  It does not hold *)
(* here: the Sets of a key go to different index files, which recovery     *)
(* reads in threads that do not wait for each other.                       *)
RestartKeepsTheLatest ==
  [][Recovering /\ pos' = Nothing =>
       \A k \in Keys : store'[k] = store[k] \/ <<k, store'[k]>> \in cut]_vars

==============================================================================
