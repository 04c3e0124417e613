------------------------ MODULE PatentairEngineProofs ------------------------
(***************************************************************************)
(* Proofs about PatentairEngine, for any number of threads, keys, files    *)
(* and records: appends never land on what is in use, table entries lead   *)
(* to the last value of their key, undisturbed Gets answer with it, and a  *)
(* restart finds every key again.                                          *)
(*                                                                         *)
(* The invariant, LogInv, says what a thread in the middle of its Set      *)
(* knows (ThreadInv), that no two threads hold the same position           *)
(* (PairInv), what an entry leads to (EntryInv), and that the files have   *)
(* room for the records still to come (Room).  For one client it also says *)
(* how far the persisted ends are behind those in memory and that what     *)
(* lies below them leads to every value that was current (SoloInv).        *)
(***************************************************************************)
EXTENDS PatentairEngine, FiniteSetTheorems, TLAPS

(* The hypothesis of the theorems: a workload with crashes has one client. *)
(* With two, an end that is persisted may cover a record that another      *)
(* thread has reserved and not written, and recovery reads what is there.  *)
CrashesAreSolo == \A w \in Workloads : w.crashes = 0 \/ \E t \in Threads : w.clients = {t}

SetPhases == {"reserve", "write", "load_end", "store_end", "insert", "overwrite"}
GetPhases == {"copy", "read"}
Phases == {"idle", "answered"} \cup SetPhases \cup GetPhases

SetOps == [key : Keys, val : Values, file : Files, kind : Kinds, slot : Nat, end : Nat, off : Nat]
GetOps == [key : Keys, file : Files, off : Nat]
Places == [file : Files, off : Nat]
Records == DataRecords \cup [key : Keys, at : Places] \cup {Zeros}
Ends == [Kinds -> [Files -> Nat]]

Setting(t) == pc[t] \in SetPhases

Typed ==
  /\ region \in [Kinds -> [Files -> [Positions -> Records]]]
  /\ file_end \in Ends /\ file_offset \in Ends
  /\ cursor \in Files
  /\ tables \in [Keys -> Places \cup {Nothing}]
  /\ pc \in [Threads -> Phases]
  /\ op \in [Threads -> SetOps \cup GetOps \cup {Nothing}]
  /\ \A t \in Threads : /\ Setting(t) => op[t] \in SetOps
                        /\ pc[t] \in GetPhases => op[t] \in GetOps
                        /\ pc[t] \in {"idle", "answered"} => op[t] = Nothing
                        /\ pc[t] \in {"insert", "overwrite"} => op[t].kind = "index"
  /\ pos \in [Files -> Nat] \cup {Nothing}
  /\ clients \subseteq Threads /\ sets \in Nat /\ crashes \in Nat
  /\ store \in [Keys -> Values \cup {NotFound}]
  /\ given \subseteq Keys \X Values

(* Threads that have not reserved their record of a kind yet: there is     *)
(* room for it in every file.                                              *)
Due(kind) ==
  {t \in Threads : /\ Setting(t)
                   /\ \/ pc[t] = "reserve" /\ op[t].kind = kind
                      \/ kind = "index" /\ op[t].kind = "data"}

Room ==
  \A kind \in Kinds :
    /\ IsFiniteSet(Due(kind))
    /\ \A f \in Files : file_offset[kind][f] + sets + Cardinality(Due(kind)) <= MaxRecords

(* A thread holds the position of its value from the moment it reserves it.*)
Holds(t) == Setting(t) /\ ~(pc[t] = "reserve" /\ op[t].kind = "data")
Written(t) == Setting(t) /\ (op[t].kind = "index" \/ pc[t] \in {"load_end", "store_end"})
ValueAt(i) == region["data"][i.file][i.off]
Below(ends, i) == i.off < ends["data"][i.file]

ThreadInv(t) ==
  /\ pc[t] # "idle" => t \in clients /\ ~Recovering
  /\ Appending(t) => op[t].slot < file_offset[op[t].kind][op[t].file]
  /\ Appending(t) /\ op[t].kind = "data" => op[t].slot = op[t].off
  /\ Holds(t) => Below(file_offset, IndexOf(op[t]))
  /\ Written(t) => ValueAt(IndexOf(op[t])) = [key |-> op[t].key, val |-> op[t].val]
  /\ Setting(t) => <<op[t].key, op[t].val>> \in given
  /\ pc[t] = "copy" => tables[op[t].key] # Nothing
  /\ pc[t] = "overwrite" => tables[op[t].key] # Nothing /\ tables[op[t].key].file = op[t].file

PairInv(t, u) ==
  /\ Appending(t) /\ Appending(u) /\ op[t].kind = op[u].kind /\ op[t].file = op[u].file
       => op[t].slot # op[u].slot
  /\ Holds(t) /\ Holds(u) => IndexOf(op[t]) # IndexOf(op[u])
  /\ pc[t] = "overwrite" /\ pc[u] = "overwrite" => op[t].key # op[u].key

EntryInv(k) ==
  /\ tables[k] # Nothing /\ ~Locked(k) =>
       /\ Below(file_offset, tables[k])
       /\ \A t \in Threads : Holds(t) => IndexOf(op[t]) # tables[k]
       /\ ~Recovering => ValueAt(tables[k]) = [key |-> k, val |-> store[k]]
  /\ ~Recovering => (tables[k] = Nothing <=> store[k] = NotFound)
  /\ store[k] # NotFound => <<k, store[k]>> \in given

(* What holds on top when there is one client: the persisted ends are those*)
(* in memory but for the record being appended, and the index files up to  *)
(* their ends lead to every value that was current.                        *)
Solo == \E t \in Threads : clients = {t}

Idle(kind, f) == \A t \in Threads : ~(Appending(t) /\ op[t].kind = kind /\ op[t].file = f)

Sound(r) ==
  /\ r \in [key : Keys, at : Places]
  /\ Below(file_end, r.at)
  /\ ValueAt(r.at) \in DataRecords
  /\ ValueAt(r.at).key = r.key /\ <<r.key, ValueAt(r.at).val>> \in given

Indexed(k) ==
  \E f \in Files : \E p \in 0..file_end["index"][f] - 1 : region["index"][f][p].key = k

FilesInv ==
  /\ \A kind \in Kinds, f \in Files :
       Idle(kind, f) => file_offset[kind][f] = file_end[kind][f]
  /\ \A f \in Files : \A p \in 0..file_end["index"][f] - 1 : Sound(region["index"][f][p])
  /\ \A k \in Keys : store[k] # NotFound => Indexed(k)

AppendInv(t) ==
  /\ Appending(t) =>
       /\ op[t].slot = file_end[op[t].kind][op[t].file]
       /\ file_offset[op[t].kind][op[t].file] = op[t].slot + 1
  /\ pc[t] = "store_end" => op[t].end = op[t].slot + 1
  /\ pc[t] \in {"load_end", "store_end"} /\ op[t].kind = "index" =>
       region["index"][op[t].file][op[t].slot] = [key |-> op[t].key, at |-> IndexOf(op[t])]
  /\ Setting(t) /\ op[t].kind = "index" => Below(file_end, IndexOf(op[t]))
  /\ pc[t] \in {"insert", "overwrite"} => Indexed(op[t].key)

RecoveryInv ==
  Recovering =>
    /\ \A f \in Files : pos[f] <= file_end["index"][f]
    /\ \A f \in Files : \A p \in 0..pos[f] - 1 : tables[region["index"][f][p].key] # Nothing
    /\ \A k \in Keys : tables[k] # Nothing => Sound([key |-> k, at |-> tables[k]]) /\ Indexed(k)

SoloInv ==
  /\ FilesInv /\ RecoveryInv
  /\ \A t \in Threads : AppendInv(t)

LogInv ==
  /\ Typed /\ Room
  /\ \A t \in Threads : ThreadInv(t)
  /\ \A t, u \in Threads : t # u => PairInv(t, u)
  /\ \A k \in Keys : EntryInv(k)
  /\ Solo => SoloInv
  /\ ~Solo => crashes = 0 /\ ~Recovering

------------------------------------------------------------------------------
(* Stores                                                                  *)

(* A store to one file's end, and one to one position of a file.           *)
LEMMA EndStored ==
  \A g \in Ends, kind \in Kinds, f \in Files, n \in Nat :
    /\ [g EXCEPT ![kind][f] = n] \in Ends
    /\ \A c \in Kinds, h \in Files :
         [g EXCEPT ![kind][f] = n][c][h] = IF c = kind /\ h = f THEN n ELSE g[c][h]
BY DEF Ends

(* The engine starts with empty files, and all of the invariant holds of   *)
(* them.                                                                   *)
LEMMA InitLog == CrashesAreSolo /\ Init => LogInv
<1> SUFFICES ASSUME CrashesAreSolo, Init
             PROVE  LogInv
  OBVIOUS
<1>1. 0 \in Files /\ 0 \in Nat
  BY EngineAssumption DEF Files
<1>2. PICK w \in Workloads : clients = w.clients /\ sets = w.sets /\ crashes = w.crashes
  BY DEF Init
<1>3. /\ clients \subseteq Threads /\ crashes \in Nat /\ sets \in 0..MaxRecords
      /\ MaxRecords \in Nat
  BY <1>2, EngineAssumption
<1>4. \A t \in Threads : pc[t] = "idle" /\ ~Setting(t) /\ ~Appending(t) /\ ~Holds(t) /\ ~Written(t)
  BY DEF Init, Setting, SetPhases, Appending, Holds, Written
<1>5. Typed
  <2>1. region \in [Kinds -> [Files -> [Positions -> Records]]]
    BY DEF Init, Records
  <2>2. file_end \in Ends /\ file_offset \in Ends
    BY <1>1 DEF Init, Ends
  <2>3. sets \in Nat
    BY <1>3
  <2>4. QED
    BY <1>1, <1>3, <1>4, <2>1, <2>2, <2>3
       DEF Init, Typed, Setting, SetPhases, GetPhases, Phases
<1>6. Room
  <2>1. \A kind : Due(kind) = {}
    BY <1>4 DEF Due
  <2>2. \A kind \in Kinds, f \in Files : file_offset[kind][f] = 0
    BY DEF Init
  <2>3. QED
    BY <1>3, <2>1, <2>2, FS_EmptySet DEF Room
<1>7. ASSUME NEW t \in Threads
      PROVE  ThreadInv(t)
  BY <1>4 DEF ThreadInv
<1>8. ASSUME NEW t \in Threads, NEW u \in Threads
      PROVE  PairInv(t, u)
  BY <1>4 DEF PairInv
<1>9. ASSUME NEW k \in Keys
      PROVE  EntryInv(k)
  BY DEF EntryInv, Init
<1>10. SoloInv
  <2>1. \A f \in Files : 0..file_end["index"][f] - 1 = {}
    BY DEF Init, Kinds
  <2>2. FilesInv
    BY <2>1 DEF FilesInv, Init
  <2>3. RecoveryInv
    BY DEF RecoveryInv, Recovering, Init
  <2>4. \A t \in Threads : AppendInv(t)
    BY <1>4 DEF AppendInv
  <2>5. QED
    BY <2>2, <2>3, <2>4 DEF SoloInv
<1>11. ~Solo => crashes = 0 /\ ~Recovering
  BY <1>2 DEF CrashesAreSolo, Solo, Recovering, Init
<1>12. QED
  BY <1>5, <1>6, <1>7, <1>8, <1>9, <1>10, <1>11 DEF LogInv

------------------------------------------------------------------------------
(* What a step leaves alone                                                *)

Others(t) == \A u \in Threads : u # t => pc'[u] = pc[u] /\ op'[u] = op[u]

(* The ends in memory do not go back, and what was Set stays known.        *)
Forward ==
  /\ \A kind \in Kinds, f \in Files : file_offset[kind][f] <= file_offset'[kind][f]
  /\ given \subseteq given'
  /\ UNCHANGED <<pos, clients>>

(* A thread that does nothing keeps its part of the invariant.             *)
LEMMA ThreadStays ==
  ASSUME Typed, Typed', Forward, NEW t \in Threads, ThreadInv(t), pc'[t] = pc[t], op'[t] = op[t],
         Written(t) => ValueAt(IndexOf(op[t]))' = ValueAt(IndexOf(op[t])),
         pc[t] \in {"copy", "overwrite"} => tables'[op[t].key] # Nothing,
         pc[t] = "overwrite" => tables'[op[t].key].file = tables[op[t].key].file
  PROVE  ThreadInv(t)'
<1>1. /\ Setting(t)' <=> Setting(t)
      /\ Appending(t)' <=> Appending(t)
      /\ Holds(t)' <=> Holds(t)
      /\ Written(t)' <=> Written(t)
      /\ Recovering' <=> Recovering
  BY DEF Setting, Appending, Holds, Written, Forward, Recovering
<1>2. Setting(t) => /\ op[t].kind \in Kinds /\ op[t].file \in Files
                    /\ op[t].slot \in Nat /\ op[t].off \in Nat
  BY DEF Typed, SetOps
<1>3. Appending(t) => Setting(t)
  BY DEF Appending, Setting, SetPhases
<1>4. Holds(t) \/ Written(t) => Setting(t)
  BY DEF Holds, Written
<1>5. Appending(t) => op[t].slot < file_offset'[op[t].kind][op[t].file]
  BY <1>2, <1>3 DEF ThreadInv, Forward, Typed, Ends
<1>6. Holds(t) => op[t].off < file_offset'["data"][op[t].file]
  BY <1>2, <1>4 DEF ThreadInv, Forward, Typed, Ends, Below, IndexOf, Kinds
<1>7. QED
  BY <1>1, <1>5, <1>6 DEF ThreadInv, Forward, Below, IndexOf

(* A step of one thread leaves any two others as they were: only its own   *)
(* pairs can be disturbed.                                                 *)
LEMMA PairsStay ==
  ASSUME LogInv, NEW t \in Threads, Others(t), \A u \in Threads : u # t => PairInv(t, u)'
  PROVE  \A u, v \in Threads : u # v => PairInv(u, v)'
<1> SUFFICES ASSUME NEW u \in Threads, NEW v \in Threads, u # v
             PROVE  PairInv(u, v)'
  OBVIOUS
<1>1. CASE u = t
  BY <1>1
<1>2. CASE v = t
  <2>1. PairInv(t, u)'
    BY <1>2
  <2>2. QED
    BY <1>2, <2>1 DEF PairInv
<1>3. CASE u # t /\ v # t
  <2>1. PairInv(u, v)
    BY DEF LogInv
  <2>2. pc'[u] = pc[u] /\ op'[u] = op[u] /\ pc'[v] = pc[v] /\ op'[v] = op[v]
    BY <1>3 DEF Others
  <2>3. QED
    BY <2>1, <2>2 DEF PairInv, Appending, Holds, Setting, IndexOf
<1>4. QED
  BY <1>1, <1>2, <1>3

(* A key whose entry is not touched keeps its part.                        *)
LEMMA EntryStays ==
  ASSUME Typed, Typed', Forward, NEW k \in Keys, EntryInv(k),
         tables'[k] = tables[k], store'[k] = store[k], Locked(k)' <=> Locked(k),
         tables[k] # Nothing /\ ~Locked(k) =>
           /\ ValueAt(tables[k])' = ValueAt(tables[k])
           /\ \A t \in Threads : Holds(t)' => IndexOf(op[t])' # tables[k]
  PROVE  EntryInv(k)'
<1>1. Recovering' <=> Recovering
  BY DEF Forward, Recovering
<1>2. tables[k] # Nothing => tables[k].file \in Files /\ tables[k].off \in Nat
  BY DEF Typed, Places
<1>3. tables[k] # Nothing /\ ~Locked(k) => Below(file_offset, tables[k])'
  BY <1>2 DEF EntryInv, Below, Forward, Typed, Ends, Kinds
<1>4. QED
  BY <1>1, <1>3 DEF EntryInv, Forward

(* Fewer threads that still have to reserve need less room.                *)
LEMMA RoomStays ==
  ASSUME Typed, Typed', Room, UNCHANGED <<file_offset, sets>>,
         \A kind \in Kinds : Due(kind)' \subseteq Due(kind)
  PROVE  Room'
<1> SUFFICES ASSUME NEW kind \in Kinds
             PROVE  /\ IsFiniteSet(Due(kind)')
                    /\ \A f \in Files : file_offset[kind][f] + sets + Cardinality(Due(kind)') <= MaxRecords
  BY DEF Room
<1>1. IsFiniteSet(Due(kind)) /\ Due(kind)' \subseteq Due(kind)
  BY DEF Room
<1>2. IsFiniteSet(Due(kind)') /\ Cardinality(Due(kind)') <= Cardinality(Due(kind))
      /\ Cardinality(Due(kind)') \in Nat /\ Cardinality(Due(kind)) \in Nat
  BY <1>1, FS_Subset, FS_CardinalityType
<1>3. ASSUME NEW f \in Files
      PROVE  file_offset[kind][f] + sets + Cardinality(Due(kind)') <= MaxRecords
  <2>1. file_offset[kind][f] \in Nat /\ sets \in Nat /\ MaxRecords \in Nat
    BY EngineAssumption DEF Typed, Ends
  <2>2. file_offset[kind][f] + sets + Cardinality(Due(kind)) <= MaxRecords
    BY DEF Room
  <2>3. QED
    BY <1>2, <2>1, <2>2
<1>4. QED
  BY <1>2, <1>3

(* The index files keep what they lead to when no file changes.            *)
LEMMA FilesKept ==
  ASSUME FilesInv, UNCHANGED pmem, given \subseteq given',
         \A kind \in Kinds, f \in Files : Idle(kind, f)' => file_offset'[kind][f] = file_end'[kind][f],
         \A k \in Keys : store'[k] # NotFound => store[k] # NotFound \/ Indexed(k)
  PROVE  FilesInv'
<1>1. region' = region /\ file_end' = file_end
  BY DEF pmem
<1>2. \A r : Sound(r) => Sound(r)'
  BY <1>1 DEF Sound, Below, ValueAt
<1>3. \A k : Indexed(k)' <=> Indexed(k)
  BY <1>1 DEF Indexed
<1>4. \A f \in Files : \A p \in 0..file_end'["index"][f] - 1 : Sound(region["index"][f][p])'
  BY <1>1, <1>2 DEF FilesInv
<1>5. \A k \in Keys : store'[k] # NotFound => Indexed(k)'
  BY <1>3 DEF FilesInv
<1>6. QED
  BY <1>1, <1>4, <1>5 DEF FilesInv

(* The same, when no end in memory changes either. *)
LEMMA FilesStay ==
  ASSUME FilesInv, UNCHANGED <<pmem, file_offset>>, given \subseteq given',
         \A kind \in Kinds, f \in Files : Idle(kind, f)' <=> Idle(kind, f),
         \A k \in Keys : store'[k] # NotFound => store[k] # NotFound \/ Indexed(k)
  PROVE  FilesInv'
<1>1. \A kind \in Kinds, f \in Files : Idle(kind, f)' => file_offset'[kind][f] = file_end'[kind][f]
  BY DEF FilesInv, pmem
<1>2. QED
  BY <1>1, FilesKept

(* What a step of a client has to keep.                                    *)
LEMMA ClientStep ==
  ASSUME LogInv, NEW t \in clients, Others(t), Forward, ~Recovering, UNCHANGED crashes,
         Typed', Room', \A u \in Threads : ThreadInv(u)',
         \A u \in Threads : u # t => PairInv(t, u)', \A k \in Keys : EntryInv(k)',
         Solo => FilesInv' /\ AppendInv(t)'
  PROVE  LogInv'
<1>1. t \in Threads
  BY DEF LogInv, Typed
<1>2. \A u, v \in Threads : u # v => PairInv(u, v)'
  BY <1>1, PairsStay
<1>3. ~Recovering' /\ (Solo' <=> Solo)
  BY DEF Recovering, Solo, Forward
<1>4. ASSUME Solo
      PROVE  SoloInv'
  <2>1. clients = {t}
    BY <1>4 DEF Solo
  <2>2. ASSUME NEW u \in Threads, u # t
        PROVE  AppendInv(u)'
    <3>1. pc[u] = "idle"
      BY <2>1, <2>2 DEF LogInv, ThreadInv
    <3>2. pc'[u] = "idle"
      BY <2>2, <3>1 DEF Others
    <3>3. QED
      BY <3>2 DEF AppendInv, Appending, Setting, SetPhases
  <2>3. RecoveryInv'
    BY <1>3 DEF RecoveryInv
  <2>4. QED
    BY <1>4, <2>2, <2>3 DEF SoloInv
<1>5. ~Solo => crashes = 0
  BY DEF LogInv
<1>6. QED
  BY <1>2, <1>3, <1>4, <1>5 DEF LogInv

------------------------------------------------------------------------------
(* The steps of a Get                                                      *)

(* What the steps of a Get, the answer's copy included, change and leave   *)
(* alone.                                                                  *)
LEMMA ReadTypes ==
  ASSUME LogInv, NEW t \in clients,
         GetStep(t) \/ \E k \in Keys : Get(t, k)
  PROVE  /\ Typed' /\ Others(t) /\ ~Setting(t) /\ ~Setting(t)' /\ ~Recovering
         /\ pc'[t] = "copy" => tables[op'[t].key] # Nothing
         /\ UNCHANGED <<pmem, file_offset, tables, pos, workload, history>>
<1>1. t \in Threads /\ Typed /\ ThreadInv(t)
  BY DEF LogInv, Typed
<1>2. ASSUME NEW k \in Keys, Get(t, k)
      PROVE  /\ Typed' /\ Others(t) /\ ~Setting(t) /\ ~Setting(t)' /\ ~Recovering
             /\ pc'[t] = "copy" => tables[op'[t].key] # Nothing
             /\ UNCHANGED <<pmem, file_offset, tables, pos, workload, history>>
  <2>1. /\ pc[t] = "idle" /\ op[t] = Nothing /\ ~Recovering
        /\ UNCHANGED <<pmem, file_offset, cursor, tables, pos, workload, history>>
    BY <1>1, <1>2 DEF Get, Typed
  <2>2. CASE tables[k] = Nothing
    <3>1. pc' = [pc EXCEPT ![t] = "answered"] /\ op' = op
      BY <1>2, <2>2 DEF Get, Goto
    <3>2. QED
      BY <1>1, <2>1, <3>1
         DEF Typed, Others, Setting, SetPhases, GetPhases, Phases, pmem, workload, history
  <2>3. CASE tables[k] # Nothing
    <3>1. /\ pc' = [pc EXCEPT ![t] = "copy"]
          /\ op' = [op EXCEPT ![t] = [key |-> k, file |-> tables[k].file, off |-> 0]]
      BY <1>2, <2>3 DEF Get, Goto
    <3>2. [key |-> k, file |-> tables[k].file, off |-> 0] \in GetOps
      BY <1>1, <2>3 DEF Typed, Places, GetOps
    <3>3. op'[t] \in GetOps /\ op'[t].key = k /\ pc'[t] = "copy"
      BY <1>1, <3>1, <3>2 DEF Typed
    <3>4. Others(t)
      BY <1>1, <3>1 DEF Others, Typed
    <3>5. Typed'
      BY <1>1, <2>1, <3>1, <3>2, <3>3
         DEF Typed, Setting, SetPhases, GetPhases, Phases, pmem, workload, history
    <3>6. QED
      BY <2>1, <2>3, <3>3, <3>4, <3>5 DEF Setting, SetPhases
  <2>4. QED
    BY <2>2, <2>3
<1>3. CASE Copy(t)
  <2>1. /\ pc[t] = "copy" /\ op[t] \in GetOps /\ ~Recovering /\ tables[op[t].key] \in Places
        /\ pc' = [pc EXCEPT ![t] = "read"]
        /\ op' = [op EXCEPT ![t].off = tables[op[t].key].off]
        /\ UNCHANGED <<pmem, file_offset, cursor, tables, pos, workload, history>>
    BY <1>1, <1>3 DEF Copy, Goto, Typed, ThreadInv, GetPhases, GetOps
  <2>2. op'[t] \in GetOps /\ pc'[t] = "read"
    BY <1>1, <2>1 DEF Typed, GetOps, Places
  <2>3. Others(t)
    BY <1>1, <2>1 DEF Others, Typed
  <2>4. op' \in [Threads -> SetOps \cup GetOps \cup {Nothing}]
    BY <1>1, <2>1, <2>2, <2>3 DEF Typed, Others
  <2>5. Typed'
    BY <1>1, <2>1, <2>2, <2>3, <2>4
       DEF Typed, Setting, SetPhases, GetPhases, Phases, pmem, workload, history, Others
  <2>6. QED
    BY <2>1, <2>2, <2>3, <2>5 DEF Setting, SetPhases
<1>4. CASE Answer(t) \/ GetReturn(t)
  <2>1. /\ pc[t] \in {"read", "answered"} /\ ~Recovering
        /\ \E c \in {"idle", "answered"} : pc' = [pc EXCEPT ![t] = c]
        /\ op' = [op EXCEPT ![t] = Nothing]
        /\ UNCHANGED <<pmem, file_offset, cursor, tables, pos, workload, history>>
    BY <1>1, <1>4 DEF Answer, GetReturn, Goto, Typed, ThreadInv
  <2>2. op'[t] = Nothing /\ pc'[t] \in {"idle", "answered"}
    BY <1>1, <2>1 DEF Typed
  <2>3. Others(t)
    BY <1>1, <2>1 DEF Others, Typed
  <2>4. Typed'
    BY <1>1, <2>1, <2>2, <2>3
       DEF Typed, Setting, SetPhases, GetPhases, Phases, pmem, workload, history, Others
  <2>5. QED
    BY <2>1, <2>2, <2>3, <2>4 DEF Setting, SetPhases
<1>5. QED
  BY <1>2, <1>3, <1>4 DEF GetStep

(* A Get, and every later step of it, preserves the invariant. *)
LEMMA ReadStep ==
  ASSUME LogInv, NEW t \in clients,
         GetStep(t) \/ \E k \in Keys : Get(t, k)
  PROVE  LogInv'
<1>1. /\ Typed' /\ Others(t) /\ ~Setting(t) /\ ~Setting(t)' /\ ~Recovering
      /\ pc'[t] = "copy" => tables[op'[t].key] # Nothing
      /\ UNCHANGED <<pmem, file_offset, tables, pos, workload, history>>
  BY ReadTypes
<1>2. /\ t \in Threads /\ Typed
      /\ region' = region /\ file_end' = file_end /\ file_offset' = file_offset
      /\ tables' = tables /\ pos' = pos /\ clients' = clients /\ sets' = sets
      /\ crashes' = crashes /\ store' = store /\ given' = given
  BY <1>1 DEF LogInv, Typed, pmem, workload, history
<1>3. Forward
  BY <1>2 DEF Forward, Typed, Ends
<1>4. /\ ~Holds(t) /\ ~Holds(t)' /\ ~Appending(t) /\ ~Appending(t)'
      /\ ~Written(t)' /\ pc[t] # "overwrite" /\ pc'[t] # "overwrite"
      /\ \A kind : t \notin Due(kind)'
  BY <1>1 DEF Holds, Appending, Written, Setting, SetPhases, Due
<1>5. Room'
  <2>1. \A kind \in Kinds : Due(kind)' \subseteq Due(kind)
    BY <1>1, <1>4 DEF Due, Others, Setting
  <2>2. QED
    BY <1>1, <1>2, <2>1, RoomStays DEF LogInv
<1>6. ASSUME NEW u \in Threads
      PROVE  ThreadInv(u)'
  <2>1. CASE u = t
    BY <1>1, <1>2, <1>4, <2>1 DEF ThreadInv, Recovering
  <2>2. CASE u # t
    <3>1. pc'[u] = pc[u] /\ op'[u] = op[u] /\ ThreadInv(u)
      BY <1>1, <2>2 DEF Others, LogInv
    <3>2. ValueAt(IndexOf(op[u]))' = ValueAt(IndexOf(op[u]))
      BY <1>2, <3>1 DEF ValueAt, IndexOf
    <3>3. pc[u] \in {"copy", "overwrite"} => tables'[op[u].key] # Nothing
      BY <1>2, <3>1 DEF ThreadInv
    <3>4. QED
      BY <1>1, <1>2, <1>3, <3>1, <3>2, <3>3, ThreadStays
  <2>3. QED
    BY <2>1, <2>2
<1>7. \A u \in Threads : u # t => PairInv(t, u)'
  BY <1>4 DEF PairInv
<1>8. ASSUME NEW k \in Keys
      PROVE  EntryInv(k)'
  <2>1. EntryInv(k)
    BY DEF LogInv
  <2>2. Locked(k)' <=> Locked(k)
    BY <1>1, <1>4 DEF Locked, Others
  <2>3. \A u \in Threads : Holds(u)' => Holds(u) /\ IndexOf(op[u])' = IndexOf(op[u])
    BY <1>1, <1>4 DEF Others, Holds, Setting, IndexOf
  <2>4. ValueAt(tables[k])' = ValueAt(tables[k])
    BY <1>2 DEF ValueAt
  <2>5. QED
    BY <1>1, <1>2, <1>3, <2>1, <2>2, <2>3, <2>4, EntryStays DEF EntryInv
<1>9. ASSUME Solo
      PROVE  FilesInv' /\ AppendInv(t)'
  <2>1. \A kind \in Kinds, f \in Files : Idle(kind, f)' <=> Idle(kind, f)
    BY <1>1, <1>4 DEF Idle, Others, Appending
  <2>2. FilesInv'
    BY <1>2, <1>9, <2>1, FilesStay DEF LogInv, SoloInv, pmem
  <2>3. AppendInv(t)'
    BY <1>1, <1>4 DEF AppendInv, Setting, SetPhases
  <2>4. QED
    BY <2>2, <2>3
<1>10. QED
  BY <1>1, <1>2, <1>3, <1>5, <1>6, <1>7, <1>8, <1>9, ClientStep

------------------------------------------------------------------------------
(* The steps of a Set                                                      *)

(* The sets that Room counts are finite, and what it adds up are numbers. *)
LEMMA Due1 ==
  ASSUME Typed, Room, NEW kind \in Kinds, NEW f \in Files
  PROVE  /\ file_offset[kind][f] \in Nat /\ sets \in Nat /\ MaxRecords \in Nat
         /\ IsFiniteSet(Due(kind)) /\ Cardinality(Due(kind)) \in Nat
         /\ file_offset[kind][f] + sets + Cardinality(Due(kind)) <= MaxRecords
         /\ file_offset[kind][f] <= MaxRecords
<1>1. file_offset[kind][f] \in Nat /\ sets \in Nat /\ MaxRecords \in Nat
  BY EngineAssumption DEF Typed, Ends
<1>2. IsFiniteSet(Due(kind)) /\ Cardinality(Due(kind)) \in Nat
  BY FS_CardinalityType DEF Room
<1>3. file_offset[kind][f] + sets + Cardinality(Due(kind)) <= MaxRecords
  BY DEF Room
<1>4. file_offset[kind][f] <= MaxRecords
  BY <1>1, <1>2, <1>3
<1>5. QED
  BY <1>1, <1>2, <1>3, <1>4

(* What the call of a thread inside a Set holds. *)
LEMMA SetFacts ==
  ASSUME LogInv, NEW t \in clients, Setting(t)
  PROVE  /\ t \in Threads /\ op[t] \in SetOps /\ ~Recovering
         /\ op[t].key \in Keys /\ op[t].val \in Values /\ op[t].file \in Files
         /\ op[t].kind \in Kinds /\ op[t].kind \in {"data", "index"}
         /\ op[t].slot \in Nat /\ op[t].end \in Nat /\ op[t].off \in Nat
         /\ IndexOf(op[t]) \in Places
         /\ Appending(t) => op[t].slot \in Positions
<1>1. t \in Threads /\ Typed /\ ThreadInv(t)
  BY DEF LogInv, Typed
<1>2. op[t] \in SetOps /\ pc[t] # "idle"
  BY <1>1 DEF Typed, Setting, SetPhases
<1>3. ASSUME Appending(t)
      PROVE  op[t].slot \in Positions
  <2>1. op[t].kind \in Kinds /\ op[t].file \in Files /\ op[t].slot \in Nat
    BY <1>2 DEF SetOps
  <2>2. op[t].slot < file_offset[op[t].kind][op[t].file]
    BY <1>1, <1>3 DEF ThreadInv
  <2>3. file_offset[op[t].kind][op[t].file] <= MaxRecords
        /\ file_offset[op[t].kind][op[t].file] \in Nat /\ MaxRecords \in Nat
    BY <2>1, Due1 DEF LogInv
  <2>4. QED
    BY <2>1, <2>2, <2>3 DEF Positions
<1>4. QED
  BY <1>1, <1>2, <1>3 DEF ThreadInv, SetOps, IndexOf, Places, Kinds

(* Set preserves the invariant: what it takes from the bound on Sets is    *)
(* the room of the records it will reserve.                                *)
LEMMA SetCall ==
  ASSUME LogInv, NEW t \in clients, NEW k \in Keys, NEW v \in Values, Set(t, k, v)
  PROVE  LogInv'
<1> DEFINE o == [key |-> k, val |-> v, file |-> cursor, kind |-> "data",
                 slot |-> 0, end |-> 0, off |-> 0]
<1>1. /\ t \in Threads /\ Typed /\ Room /\ ~Recovering /\ pc[t] = "idle" /\ op[t] = Nothing
      /\ sets > 0 /\ sets' = sets - 1 /\ cursor' = NextFile(cursor)
      /\ op' = [op EXCEPT ![t] = o] /\ pc' = [pc EXCEPT ![t] = "reserve"]
      /\ given' = given \cup {<<k, v>>}
      /\ UNCHANGED <<region, file_end, file_offset, tables, pos, clients, crashes, store>>
  BY DEF LogInv, Typed, Set, Goto, pmem
<1>2. op'[t] = o /\ pc'[t] = "reserve" /\ o \in SetOps
  BY <1>1 DEF Typed, SetOps, Kinds
<1>3. Others(t)
  BY <1>1 DEF Others, Typed
<1>4. Forward
  BY <1>1 DEF Forward, Typed, Ends
<1>5. Typed'
  <2>1. cursor' \in Files
    <3>1. MaxFile \in Nat \ {0} /\ cursor \in Nat
      BY <1>1, EngineAssumption DEF Typed, Files
    <3>2. (cursor + 1) % MaxFile \in 0..MaxFile - 1
      BY <3>1
    <3>3. QED
      BY <1>1, <3>2 DEF NextFile, Files
  <2>2. sets' \in Nat
    BY <1>1 DEF Typed
  <2>3. QED
    BY <1>1, <1>2, <1>3, <2>1, <2>2
       DEF Typed, Setting, SetPhases, GetPhases, Phases, Others
<1>6. /\ Setting(t)' /\ ~Setting(t) /\ ~Holds(t) /\ ~Holds(t)' /\ ~Appending(t) /\ ~Appending(t)'
      /\ ~Written(t)'
  BY <1>1, <1>2 DEF Holds, Appending, Written, Setting, SetPhases
<1>7. Room'
  <2>1. ASSUME NEW kind \in Kinds
        PROVE  Due(kind)' = Due(kind) \cup {t} /\ t \notin Due(kind)
    BY <1>1, <1>2, <1>3, <1>6 DEF Due, Others, Setting, Kinds
  <2>2. ASSUME NEW kind \in Kinds, NEW f \in Files
        PROVE  /\ IsFiniteSet(Due(kind)')
               /\ file_offset[kind][f] + sets' + Cardinality(Due(kind)') <= MaxRecords
    <3>1. IsFiniteSet(Due(kind)') /\ Cardinality(Due(kind)') = Cardinality(Due(kind)) + 1
      BY <1>1, <2>1, Due1, FS_AddElement
    <3>2. QED
      BY <1>1, <3>1, Due1
  <2>3. ASSUME NEW kind \in Kinds
        PROVE  IsFiniteSet(Due(kind)')
    BY <1>1, <2>1, Due1, FS_AddElement DEF Room
  <2>4. QED
    BY <1>1, <2>2, <2>3 DEF Room
<1>8. ASSUME NEW u \in Threads
      PROVE  ThreadInv(u)'
  <2>1. CASE u = t
    BY <1>1, <1>2, <1>6, <2>1 DEF ThreadInv, Recovering
  <2>2. CASE u # t
    <3>1. pc'[u] = pc[u] /\ op'[u] = op[u] /\ ThreadInv(u)
      BY <1>3, <2>2 DEF Others, LogInv
    <3>2. ValueAt(IndexOf(op[u]))' = ValueAt(IndexOf(op[u]))
      BY <1>1, <3>1 DEF ValueAt, IndexOf
    <3>3. pc[u] \in {"copy", "overwrite"} => tables'[op[u].key] # Nothing
      BY <1>1, <3>1 DEF ThreadInv
    <3>4. QED
      BY <1>1, <1>4, <1>5, <3>1, <3>2, <3>3, ThreadStays
  <2>3. QED
    BY <2>1, <2>2
<1>9. \A u \in Threads : u # t => PairInv(t, u)'
  BY <1>2, <1>6 DEF PairInv
<1>10. ASSUME NEW l \in Keys
       PROVE  EntryInv(l)'
  <2>1. EntryInv(l)
    BY DEF LogInv
  <2>2. Locked(l)' <=> Locked(l)
    BY <1>1, <1>2, <1>3 DEF Locked, Others
  <2>3. \A u \in Threads : Holds(u)' => Holds(u) /\ IndexOf(op[u])' = IndexOf(op[u])
    BY <1>3, <1>6 DEF Others, Holds, Setting, IndexOf
  <2>4. ValueAt(tables[l])' = ValueAt(tables[l])
    BY <1>1 DEF ValueAt
  <2>5. QED
    BY <1>1, <1>4, <1>5, <2>1, <2>2, <2>3, <2>4, EntryStays DEF EntryInv
<1>11. ASSUME Solo
       PROVE  FilesInv' /\ AppendInv(t)'
  <2>1. \A kind \in Kinds, f \in Files : Idle(kind, f)' <=> Idle(kind, f)
    BY <1>3, <1>6 DEF Idle, Others, Appending
  <2>2. FilesInv'
    BY <1>1, <1>11, <2>1, FilesStay DEF LogInv, SoloInv, pmem
  <2>3. AppendInv(t)'
    BY <1>2, <1>6 DEF AppendInv
  <2>4. QED
    BY <2>2, <2>3
<1>12. QED
  BY <1>1, <1>3, <1>4, <1>5, <1>7, <1>8, <1>9, <1>10, <1>11, ClientStep

(* AppendData's and AppendIndex's fetch_add preserves the invariant: the   *)
(* position it hands out is one nobody holds and no key leads to.          *)
LEMMA ReserveStep ==
  ASSUME LogInv, NEW t \in clients, Reserve(t)
  PROVE  LogInv'
<1>0. PICK c \in Kinds, f \in Files, p \in Nat :
        c = op[t].kind /\ f = op[t].file /\ p = file_offset[c][f]
  <2>1. Setting(t)
    BY DEF Reserve, Setting, SetPhases
  <2>2. op[t].kind \in Kinds /\ op[t].file \in Files
    BY <2>1, SetFacts
  <2>3. QED
    BY <2>2 DEF LogInv, Typed, Ends
<1>1. /\ Setting(t) /\ t \in Threads /\ op[t] \in SetOps /\ ~Recovering
      /\ Typed /\ Room /\ ThreadInv(t) /\ pc[t] = "reserve" /\ c \in {"data", "index"}
      /\ UNCHANGED <<region, file_end, cursor, tables, pos, clients, sets, crashes, store, given>>
  BY <1>0, SetFacts DEF Reserve, Setting, SetPhases, LogInv, pmem, workload, history
<1>2. /\ file_offset' = [file_offset EXCEPT ![c][f] = p + 1]
      /\ op' = [op EXCEPT ![t].slot = p, ![t].off = IF c = "data" THEN p ELSE @]
      /\ pc' = [pc EXCEPT ![t] = "write"]
  BY <1>0 DEF Reserve, Goto
<1>3. /\ op'[t] \in SetOps /\ op'[t].key = op[t].key /\ op'[t].val = op[t].val
      /\ op'[t].file = f /\ op'[t].kind = c /\ op'[t].slot = p
      /\ op'[t].off = (IF c = "data" THEN p ELSE op[t].off)
      /\ pc'[t] = "write"
  BY <1>0, <1>1, <1>2 DEF Typed, SetOps
<1>4. Others(t)
  BY <1>1, <1>2 DEF Others, Typed
<1>5. /\ file_offset' \in Ends
      /\ \A d \in Kinds, h \in Files :
           file_offset'[d][h] = IF d = c /\ h = f THEN p + 1 ELSE file_offset[d][h]
  <2>1. PICK n \in Nat : n = p + 1
    OBVIOUS
  <2>2. file_offset \in Ends /\ file_offset' = [file_offset EXCEPT ![c][f] = n]
    BY <1>1, <1>2, <2>1 DEF Typed
  <2>3. QED
    BY <2>1, <2>2 DEF Ends
<1>6. Forward
  BY <1>0, <1>1, <1>2, <1>5 DEF Forward, Typed, Ends
<1>7. Typed'
  <2>1. op' \in [Threads -> SetOps \cup GetOps \cup {Nothing}]
    BY <1>1, <1>2, <1>3, <1>4 DEF Typed, Others
  <2>2. pc' \in [Threads -> Phases]
    BY <1>1, <1>2 DEF Typed, Phases, SetPhases
  <2>3. QED
    BY <1>1, <1>2, <1>3, <1>4, <1>5, <2>1, <2>2 DEF Typed, Setting, SetPhases, GetPhases, Others
<1>8. /\ Setting(t)' /\ Holds(t)' /\ Appending(t)' /\ ~Appending(t)
      /\ c = "index" => Holds(t) /\ Written(t)
      /\ Written(t)' => c = "index"
  BY <1>0, <1>1, <1>3 DEF Holds, Appending, Written, Setting, SetPhases
<1>9. Room'
  <2>1. /\ t \in Due(c) /\ Due(c)' = Due(c) \ {t}
        /\ \A d \in Kinds : d # c => Due(d)' = Due(d)
    BY <1>0, <1>1, <1>3, <1>4, <1>8 DEF Due, Others, Setting, Kinds
  <2>2. IsFiniteSet(Due(c)') /\ Cardinality(Due(c)') = Cardinality(Due(c)) - 1
    BY <1>1, <2>1, Due1, FS_RemoveElement
  <2>3. ASSUME NEW h \in Files
        PROVE  file_offset'[c][h] + sets' + Cardinality(Due(c)') <= MaxRecords
    <3>1. sets' = sets /\ file_offset'[c][h] <= file_offset[c][h] + 1 /\ file_offset'[c][h] \in Nat
      BY <1>0, <1>1, <1>5, Due1
    <3>2. QED
      BY <1>1, <2>2, <3>1, Due1
  <2>4. ASSUME NEW d \in Kinds, d # c
        PROVE  /\ IsFiniteSet(Due(d)')
               /\ \A h \in Files : file_offset'[d][h] + sets' + Cardinality(Due(d)') <= MaxRecords
    BY <1>1, <1>5, <2>1, <2>4 DEF Room
  <2>5. QED
    BY <2>2, <2>3, <2>4 DEF Room
<1>10. c = "index" => IndexOf(op'[t]) = IndexOf(op[t])
  BY <1>0, <1>3 DEF IndexOf
<1>11. ASSUME NEW u \in Threads
       PROVE  ThreadInv(u)'
  <2>1. CASE u = t
    <3>1. t \in clients' /\ ~Recovering'
      BY <1>1, <1>2 DEF Recovering
    <3>2. op'[t].slot < file_offset'[op'[t].kind][op'[t].file]
      BY <1>3, <1>5
    <3>3. Below(file_offset, IndexOf(op[t]))'
      <4>1. CASE c = "data"
        BY <1>3, <1>5, <4>1 DEF Below, IndexOf
      <4>2. CASE c = "index"
        <5>1. Below(file_offset, IndexOf(op[t]))
          BY <1>1, <1>8, <4>2 DEF ThreadInv
        <5>2. QED
          BY <1>0, <1>1, <1>3, <1>5, <4>2, <5>1 DEF Below, IndexOf, Kinds
      <4>3. QED
        BY <1>1, <4>1, <4>2
    <3>4. Written(t)' => ValueAt(IndexOf(op[t]))' = [key |-> op'[t].key, val |-> op'[t].val]
      BY <1>1, <1>3, <1>8, <1>10 DEF ThreadInv, ValueAt
    <3>5. <<op'[t].key, op'[t].val>> \in given'
      BY <1>1, <1>3 DEF ThreadInv
    <3>6. QED
      BY <1>3, <2>1, <3>1, <3>2, <3>3, <3>4, <3>5 DEF ThreadInv
  <2>2. CASE u # t
    <3>1. pc'[u] = pc[u] /\ op'[u] = op[u] /\ ThreadInv(u)
      BY <1>4, <2>2 DEF Others, LogInv
    <3>2. ValueAt(IndexOf(op[u]))' = ValueAt(IndexOf(op[u]))
      BY <1>1, <3>1 DEF ValueAt, IndexOf
    <3>3. pc[u] \in {"copy", "overwrite"} => tables'[op[u].key] # Nothing
      BY <1>1, <3>1 DEF ThreadInv
    <3>4. QED
      BY <1>1, <1>6, <1>7, <3>1, <3>2, <3>3, ThreadStays
  <2>3. QED
    BY <2>1, <2>2
<1>12. ASSUME NEW u \in Threads, u # t
       PROVE  PairInv(t, u)'
  <2>1. pc'[u] = pc[u] /\ op'[u] = op[u] /\ ThreadInv(u) /\ PairInv(t, u)
    BY <1>1, <1>4, <1>12 DEF Others, LogInv
  <2>2. (Appending(u)' <=> Appending(u)) /\ (Holds(u)' <=> Holds(u))
    BY <2>1 DEF Appending, Holds, Setting
  <2>3. Appending(u) /\ op[u].kind = c /\ op[u].file = f => op[u].slot # p
    BY <1>0, <1>1, <2>1 DEF ThreadInv, Appending, Typed, Setting, SetPhases, SetOps
  <2>4. Holds(u) => IndexOf(op'[t]) # IndexOf(op[u])
    <3>1. CASE c = "data"
      <4>1. Holds(u) /\ op[u].file = f => op[u].off < p /\ op[u].off \in Nat
        BY <1>0, <1>1, <2>1, <3>1 DEF ThreadInv, Holds, Below, IndexOf, Typed, SetOps
      <4>2. QED
        BY <1>3, <3>1, <4>1 DEF IndexOf
    <3>2. CASE c = "index"
      BY <1>8, <1>10, <2>1, <3>2 DEF PairInv
    <3>3. QED
      BY <1>1, <3>1, <3>2
  <2>5. QED
    BY <1>3, <2>1, <2>2, <2>3, <2>4 DEF PairInv
<1>13. ASSUME NEW l \in Keys
       PROVE  EntryInv(l)'
  <2>1. EntryInv(l)
    BY DEF LogInv
  <2>2. Locked(l)' <=> Locked(l)
    BY <1>1, <1>3, <1>4 DEF Locked, Others
  <2>3. ValueAt(tables[l])' = ValueAt(tables[l])
    BY <1>1 DEF ValueAt
  <2>4. ASSUME tables[l] # Nothing, ~Locked(l), NEW u \in Threads, Holds(u)'
        PROVE  IndexOf(op[u])' # tables[l]
    <3>1. CASE u # t
      BY <1>4, <2>1, <2>4, <3>1 DEF Others, Holds, Setting, IndexOf, EntryInv
    <3>2. CASE u = t /\ c = "index"
      BY <1>1, <1>8, <1>10, <2>1, <2>4, <3>2 DEF EntryInv
    <3>3. CASE u = t /\ c = "data"
      <4>1. tables[l] \in Places /\ Below(file_offset, tables[l])
        BY <1>1, <2>1, <2>4 DEF EntryInv, Typed
      <4>2. tables[l].file = f => tables[l].off < p /\ tables[l].off \in Nat
        BY <1>0, <3>3, <4>1 DEF Below, Places
      <4>3. QED
        BY <1>3, <3>3, <4>2 DEF IndexOf
    <3>4. QED
      BY <1>1, <3>1, <3>2, <3>3
  <2>5. QED
    BY <1>1, <1>6, <1>7, <2>1, <2>2, <2>3, <2>4, EntryStays
<1>14. ASSUME Solo
       PROVE  FilesInv' /\ AppendInv(t)'
  <2>1. FilesInv /\ AppendInv(t)
    BY <1>1, <1>14 DEF LogInv, SoloInv
  <2>2. \A u \in Threads : ~Appending(u)
    <3>1. clients = {t}
      BY <1>14 DEF Solo
    <3>2. \A u \in Threads : u # t => pc[u] = "idle"
      BY <3>1 DEF LogInv, ThreadInv
    <3>3. QED
      BY <1>8, <3>2 DEF Appending
  <2>3. \A d \in Kinds, h \in Files : file_offset[d][h] = file_end[d][h]
    BY <2>1, <2>2 DEF FilesInv, Idle
  <2>4. \A d \in Kinds, h \in Files : Idle(d, h)' => file_offset'[d][h] = file_end'[d][h]
    <3>1. ~Idle(c, f)'
      BY <1>1, <1>3, <1>8 DEF Idle
    <3>2. QED
      BY <1>1, <1>5, <2>3, <3>1
  <2>5. FilesInv'
    BY <1>1, <2>1, <2>4, FilesKept DEF pmem
  <2>6. AppendInv(t)'
    <3>1. p = file_end[c][f]
      BY <1>0, <2>3
    <3>2. c = "index" => Below(file_end, IndexOf(op[t]))'
      BY <1>0, <1>1, <1>10, <2>1 DEF AppendInv, Below
    <3>3. QED
      BY <1>1, <1>3, <1>5, <3>1, <3>2 DEF AppendInv
  <2>7. QED
    BY <2>5, <2>6
<1>15. QED
  BY <1>1, <1>4, <1>6, <1>7, <1>9, <1>11, <1>12, <1>13, <1>14, ClientStep

(* Steps that leave the pairs of threads as they were.                     *)
LEMMA SamePair ==
  ASSUME LogInv, NEW t \in Threads, Others(t), NEW u \in Threads, u # t,
         op'[t].kind = op[t].kind, op'[t].file = op[t].file, op'[t].slot = op[t].slot,
         op'[t].off = op[t].off, op'[t].key = op[t].key,
         Appending(t)' => Appending(t), Holds(t)' => Holds(t),
         pc'[t] = "overwrite" => pc[t] = "overwrite"
  PROVE  PairInv(t, u)'
<1>1. pc'[u] = pc[u] /\ op'[u] = op[u] /\ PairInv(t, u)
  BY DEF Others, LogInv
<1>2. (Appending(u)' <=> Appending(u)) /\ (Holds(u)' <=> Holds(u))
  BY <1>1 DEF Appending, Holds, Setting
<1>3. QED
  BY <1>1, <1>2 DEF PairInv, IndexOf

(* The store of a record preserves the invariant: it lands on a position   *)
(* that no other thread holds, no key leads to and no recovery reads.      *)
LEMMA WriteStep ==
  ASSUME LogInv, NEW t \in clients, Write(t)
  PROVE  LogInv'
<1>0. /\ Setting(t) /\ t \in Threads /\ op[t] \in SetOps /\ ~Recovering
      /\ Typed /\ Room /\ ThreadInv(t) /\ pc[t] = "write"
      /\ Appending(t) /\ Holds(t)
      /\ UNCHANGED <<op, file_end, file_offset, cursor, tables, pos, clients, sets, crashes, store, given>>
  BY SetFacts DEF Write, Setting, SetPhases, LogInv, workload, history, Appending, Holds
<1>1. PICK c \in Kinds, f \in Files, p \in Positions :
        /\ c = op[t].kind /\ f = op[t].file /\ p = op[t].slot
        /\ c \in {"data", "index"} /\ op[t].off \in Nat /\ op[t].key \in Keys /\ op[t].val \in Values
  BY <1>0, SetFacts
<1>2. Encode(op[t]) \in Records
  BY <1>1 DEF Encode, Records, DataRecords, Places, IndexOf
<1>3. PICK r \in Records : r = Encode(op[t])
  BY <1>2
<1>4. region' = [region EXCEPT ![c][f][p] = r] /\ pc' = [pc EXCEPT ![t] = "load_end"]
  BY <1>1, <1>3 DEF Write, Goto
<1>5. /\ region' \in [Kinds -> [Files -> [Positions -> Records]]]
      /\ \A d \in Kinds, h \in Files, q \in Positions :
           region'[d][h][q] = IF d = c /\ h = f /\ q = p THEN r ELSE region[d][h][q]
  BY <1>0, <1>4 DEF Typed
<1>6. pc'[t] = "load_end" /\ op'[t] = op[t] /\ Others(t)
  BY <1>0, <1>4 DEF Typed, Others
<1>7. Forward
  BY <1>0 DEF Forward, Typed, Ends
<1>8. Typed'
  <2>1. pc' \in [Threads -> Phases]
    BY <1>0, <1>4 DEF Typed, Phases, SetPhases
  <2>2. QED
    BY <1>0, <1>5, <1>6, <2>1 DEF Typed, Setting, SetPhases, GetPhases, Others
<1>9. /\ Setting(t)' /\ Holds(t)' /\ Appending(t)'
      /\ c = "index" => Written(t)
  BY <1>0, <1>1, <1>6 DEF Holds, Appending, Written, Setting, SetPhases
<1>10. ASSUME NEW i \in Places, i.off \in Positions, c = "data" => i # IndexOf(op[t])
       PROVE  ValueAt(i)' = ValueAt(i)
  <2>1. i.file \in Files /\ i = [file |-> i.file, off |-> i.off]
    BY DEF Places
  <2>2. c = "data" => op[t].slot = op[t].off
    BY <1>0, <1>1 DEF ThreadInv
  <2>3. ~("data" = c /\ i.file = f /\ i.off = p)
    BY <1>1, <1>10, <2>1, <2>2 DEF IndexOf
  <2>4. QED
    BY <1>5, <1>10, <2>1, <2>3 DEF ValueAt, Kinds
<1>11. ASSUME NEW i \in Places, Below(file_offset, i)
       PROVE  i.off \in Positions
  <2>1. i.file \in Files /\ i.off \in Nat /\ "data" \in Kinds
    BY DEF Places, Kinds
  <2>2. file_offset["data"][i.file] \in Nat /\ MaxRecords \in Nat /\ file_offset["data"][i.file] <= MaxRecords
    BY <1>0, <2>1, Due1
  <2>3. QED
    BY <1>11, <2>1, <2>2 DEF Below, Positions
<1>12. Room'
  <2>1. \A kind \in Kinds : Due(kind)' \subseteq Due(kind)
    BY <1>0, <1>6 DEF Due, Others, Setting
  <2>2. QED
    BY <1>0, <1>8, <2>1, RoomStays
<1>13. ASSUME NEW u \in Threads
       PROVE  ThreadInv(u)'
  <2>1. CASE u = t
    <3>1. Written(t)' => ValueAt(IndexOf(op[t]))' = [key |-> op'[t].key, val |-> op'[t].val]
      <4>1. IndexOf(op[t]) \in Places /\ IndexOf(op[t]).off \in Positions
        BY <1>0, <1>11, SetFacts DEF ThreadInv
      <4>2. CASE c = "index"
        <5>1. ValueAt(IndexOf(op[t])) = [key |-> op[t].key, val |-> op[t].val]
          BY <1>0, <1>9, <4>2 DEF ThreadInv
        <5>2. region'["data"][op[t].file][op[t].off] = region["data"][op[t].file][op[t].off]
          BY <1>1, <1>5, <4>1, <4>2 DEF IndexOf, Kinds
        <5>3. QED
          BY <1>6, <5>1, <5>2 DEF ValueAt, IndexOf
      <4>3. CASE c = "data"
        <5>1. op[t].slot = op[t].off
          BY <1>0, <1>1, <4>3 DEF ThreadInv
        <5>2. region'["data"][op[t].file][op[t].off] = r
          BY <1>1, <1>5, <4>3, <5>1
        <5>3. r = [key |-> op[t].key, val |-> op[t].val]
          BY <1>1, <1>3, <4>3 DEF Encode
        <5>4. QED
          BY <1>6, <5>2, <5>3 DEF ValueAt, IndexOf
      <4>4. QED
        BY <1>1, <4>2, <4>3
    <3>2. QED
      BY <1>0, <1>6, <1>9, <2>1, <3>1 DEF ThreadInv, Recovering, Below, IndexOf
  <2>2. CASE u # t
    <3>1. pc'[u] = pc[u] /\ op'[u] = op[u] /\ ThreadInv(u) /\ PairInv(t, u) /\ u \in Threads
      BY <1>0, <1>6, <2>2 DEF Others, LogInv
    <3>2. Written(u) => ValueAt(IndexOf(op[u]))' = ValueAt(IndexOf(op[u]))
      <4>1. SUFFICES ASSUME Written(u)
                     PROVE  ValueAt(IndexOf(op[u]))' = ValueAt(IndexOf(op[u]))
        OBVIOUS
      <4>2. Setting(u) /\ Holds(u)
        BY <4>1 DEF Written, Holds
      <4>3. op[u] \in SetOps
        BY <1>0, <3>1, <4>2 DEF Typed
      <4>4. PICK i \in Places : i = IndexOf(op[u])
        BY <4>3 DEF IndexOf, Places, SetOps
      <4>5. i # IndexOf(op[t]) /\ Below(file_offset, i)
        BY <1>0, <3>1, <4>2, <4>4 DEF PairInv, ThreadInv
      <4>6. ValueAt(i)' = ValueAt(i)
        BY <1>10, <1>11, <4>5
      <4>7. IndexOf(op[u])' = i
        BY <3>1, <4>4 DEF IndexOf
      <4>8. QED
        BY <4>4, <4>6, <4>7 DEF ValueAt
    <3>3. pc[u] \in {"copy", "overwrite"} => tables'[op[u].key] # Nothing
      BY <1>0, <3>1 DEF ThreadInv
    <3>4. QED
      BY <1>0, <1>7, <1>8, <3>1, <3>2, <3>3, ThreadStays
  <2>3. QED
    BY <2>1, <2>2
<1>14. ASSUME NEW u \in Threads, u # t
       PROVE  PairInv(t, u)'
  BY <1>0, <1>6, <1>14, SamePair
<1>15. ASSUME NEW l \in Keys
       PROVE  EntryInv(l)'
  <2>1. EntryInv(l)
    BY DEF LogInv
  <2>2. Locked(l)' <=> Locked(l)
    BY <1>0, <1>6 DEF Locked, Others
  <2>3. \A u \in Threads : Holds(u)' => Holds(u) /\ IndexOf(op[u])' = IndexOf(op[u])
    BY <1>0, <1>6 DEF Others, Holds, Setting, IndexOf
  <2>4. tables[l] # Nothing /\ ~Locked(l) => ValueAt(tables[l])' = ValueAt(tables[l])
    <3>1. SUFFICES ASSUME tables[l] # Nothing, ~Locked(l)
                   PROVE  ValueAt(tables[l])' = ValueAt(tables[l])
      OBVIOUS
    <3>2. PICK i \in Places : i = tables[l]
      BY <1>0, <3>1 DEF Typed
    <3>3. Below(file_offset, i) /\ i # IndexOf(op[t])
      BY <1>0, <2>1, <3>1, <3>2 DEF EntryInv
    <3>4. ValueAt(i)' = ValueAt(i)
      BY <1>10, <1>11, <3>3
    <3>5. tables'[l] = i
      BY <1>0, <3>2
    <3>6. QED
      BY <3>2, <3>4, <3>5 DEF ValueAt
  <2>5. QED
    BY <1>0, <1>7, <1>8, <2>1, <2>2, <2>3, <2>4, EntryStays DEF EntryInv
<1>16. ASSUME Solo
       PROVE  FilesInv' /\ AppendInv(t)'
  <2>1. FilesInv /\ AppendInv(t)
    BY <1>0, <1>16 DEF LogInv, SoloInv
  <2>2. p = file_end[c][f]
    BY <1>0, <1>1, <2>1 DEF AppendInv
  <2>3. \A d \in Kinds, h \in Files : file_end[d][h] \in Nat
    BY <1>0 DEF Typed, Ends
  <2>4. \A d \in Kinds, h \in Files : file_end[d][h] <= MaxRecords /\ MaxRecords \in Nat
    <3>1. ASSUME NEW d \in Kinds, NEW h \in Files
          PROVE  file_end[d][h] <= MaxRecords /\ MaxRecords \in Nat
      <4>1. file_offset[d][h] <= MaxRecords /\ file_offset[d][h] \in Nat /\ MaxRecords \in Nat
        BY <1>0, Due1
      <4>2. CASE Idle(d, h)
        BY <2>1, <4>1, <4>2 DEF FilesInv
      <4>3. CASE ~Idle(d, h)
        <5>1. clients = {t}
          BY <1>16 DEF Solo
        <5>2. \A u \in Threads : Appending(u) => u = t
          BY <5>1 DEF LogInv, ThreadInv, Appending
        <5>3. d = c /\ h = f
          BY <1>1, <4>3, <5>2 DEF Idle
        <5>4. QED
          BY <2>2, <4>1, <5>3 DEF Positions
      <4>4. QED
        BY <4>2, <4>3
    <3>2. QED
      BY <3>1
  <2>5. \A d \in Kinds, h \in Files : \A q \in 0..file_end[d][h] - 1 :
          q \in Positions /\ region'[d][h][q] = region[d][h][q]
    <3>1. ASSUME NEW d \in Kinds, NEW h \in Files, NEW q \in 0..file_end[d][h] - 1
          PROVE  q \in Positions /\ region'[d][h][q] = region[d][h][q]
      <4>1. q \in Positions /\ q < file_end[d][h]
        BY <2>3, <2>4 DEF Positions
      <4>2. ~(d = c /\ h = f /\ q = p)
        BY <2>2, <2>3, <4>1
      <4>3. QED
        BY <1>5, <4>1, <4>2
    <3>2. QED
      BY <3>1
  <2>6. ASSUME NEW r1, Sound(r1)
        PROVE  Sound(r1)'
    <3>1. r1.at.file \in Files /\ r1.at.off \in 0..file_end["data"][r1.at.file] - 1
      BY <2>3, <2>6 DEF Sound, Below, Places, Kinds
    <3>2. ValueAt(r1.at)' = ValueAt(r1.at)
      BY <2>5, <3>1 DEF ValueAt, Kinds
    <3>3. QED
      BY <1>0, <2>6, <3>2 DEF Sound, Below
  <2>7. \A h \in Files : \A q \in 0..file_end["index"][h] - 1 : Sound(region["index"][h][q])'
    <3>1. ASSUME NEW h \in Files, NEW q \in 0..file_end["index"][h] - 1
          PROVE  Sound(region["index"][h][q])'
      <4>1. PICK r1 : r1 = region["index"][h][q]
        OBVIOUS
      <4>2. Sound(r1)'
        BY <2>1, <2>6, <4>1 DEF FilesInv
      <4>3. region'["index"][h][q] = r1
        BY <2>5, <4>1 DEF Kinds
      <4>4. QED
        BY <4>2, <4>3 DEF Sound, ValueAt, Below
    <3>2. QED
      BY <3>1
  <2>8. \A k \in Keys : Indexed(k) => Indexed(k)'
    BY <1>0, <2>5 DEF Indexed, Kinds
  <2>9. \A d \in Kinds, h \in Files : Idle(d, h)' <=> Idle(d, h)
    BY <1>0, <1>6 DEF Idle, Others, Appending
  <2>10. FilesInv'
    BY <1>0, <2>1, <2>7, <2>8, <2>9 DEF FilesInv
  <2>11. AppendInv(t)'
    <3>1. c = "index" => region'["index"][op[t].file][op[t].slot] = [key |-> op[t].key, at |-> IndexOf(op[t])]
      BY <1>1, <1>3, <1>5 DEF Encode
    <3>2. QED
      BY <1>0, <1>1, <1>6, <1>9, <2>1, <3>1 DEF AppendInv, IndexOf, Below
  <2>12. QED
    BY <2>10, <2>11
<1>17. QED
  BY <1>0, <1>6, <1>7, <1>8, <1>12, <1>13, <1>14, <1>15, <1>16, ClientStep

(* Steps that change no file, no table and no thread but t's own place.    *)
LEMMA OthersStay ==
  ASSUME LogInv, NEW t \in Threads, Others(t), Forward, Typed',
         UNCHANGED <<region, file_offset, tables, store, given>>,
         op'[t].file = op[t].file, op'[t].off = op[t].off, op'[t].key = op[t].key,
         Holds(t)' => Holds(t), pc[t] # "overwrite", pc'[t] # "overwrite"
  PROVE  /\ \A u \in Threads : u # t => ThreadInv(u)'
         /\ \A k \in Keys : EntryInv(k)'
<1>1. Typed
  BY DEF LogInv
<1>2. ASSUME NEW u \in Threads, u # t
      PROVE  ThreadInv(u)'
  <2>1. pc'[u] = pc[u] /\ op'[u] = op[u] /\ ThreadInv(u)
    BY <1>2 DEF Others, LogInv
  <2>2. ValueAt(IndexOf(op[u]))' = ValueAt(IndexOf(op[u]))
    BY <2>1 DEF ValueAt, IndexOf
  <2>3. pc[u] \in {"copy", "overwrite"} => tables'[op[u].key] # Nothing
    BY <2>1 DEF ThreadInv
  <2>4. QED
    BY <1>1, <2>1, <2>2, <2>3, ThreadStays
<1>3. ASSUME NEW k \in Keys
      PROVE  EntryInv(k)'
  <2>1. EntryInv(k)
    BY DEF LogInv
  <2>2. Locked(k)' <=> Locked(k)
    BY DEF Locked, Others
  <2>3. \A u \in Threads : Holds(u)' => Holds(u) /\ IndexOf(op[u])' = IndexOf(op[u])
    BY DEF Others, Holds, Setting, IndexOf
  <2>4. ValueAt(tables[k])' = ValueAt(tables[k])
    BY DEF ValueAt
  <2>5. QED
    BY <1>1, <2>1, <2>2, <2>3, <2>4, EntryStays DEF EntryInv
<1>4. QED
  BY <1>2, <1>3

(* Reading the end preserves the invariant: with one client it is the      *)
(* position after the record just written.                                 *)
LEMMA LoadEndStep ==
  ASSUME LogInv, NEW t \in clients, LoadEnd(t)
  PROVE  LogInv'
<1>1. /\ Setting(t) /\ t \in Threads /\ op[t] \in SetOps /\ ~Recovering
      /\ Typed /\ Room /\ ThreadInv(t) /\ pc[t] = "load_end"
      /\ Appending(t) /\ Holds(t)
      /\ UNCHANGED <<region, file_end, file_offset, cursor, tables, pos, clients, sets, crashes, store, given>>
  BY SetFacts DEF LoadEnd, Setting, SetPhases, LogInv, workload, history, pmem, Appending, Holds
<1>2. PICK c \in Kinds, f \in Files, n \in Nat :
        c = op[t].kind /\ f = op[t].file /\ n = file_offset[c][f]
  BY <1>1, SetFacts DEF Typed, Ends
<1>3. op' = [op EXCEPT ![t].end = n] /\ pc' = [pc EXCEPT ![t] = "store_end"]
  BY <1>2 DEF LoadEnd, Goto, End
<1>4. /\ op'[t] \in SetOps /\ op'[t].key = op[t].key /\ op'[t].val = op[t].val
      /\ op'[t].file = f /\ op'[t].kind = c /\ op'[t].slot = op[t].slot
      /\ op'[t].off = op[t].off /\ op'[t].end = n /\ pc'[t] = "store_end"
  BY <1>1, <1>2, <1>3 DEF Typed, SetOps
<1>5. Others(t)
  BY <1>1, <1>3 DEF Others, Typed
<1>6. Forward
  BY <1>1 DEF Forward, Typed, Ends
<1>7. Typed'
  <2>1. op' \in [Threads -> SetOps \cup GetOps \cup {Nothing}]
    BY <1>1, <1>3, <1>4, <1>5 DEF Typed, Others
  <2>2. pc' \in [Threads -> Phases]
    BY <1>1, <1>3 DEF Typed, Phases, SetPhases
  <2>3. QED
    BY <1>1, <1>4, <1>5, <2>1, <2>2 DEF Typed, Setting, SetPhases, GetPhases, Others
<1>8. Setting(t)' /\ Holds(t)' /\ Appending(t)' /\ Written(t)
  BY <1>1, <1>4 DEF Holds, Appending, Written, Setting, SetPhases
<1>9. IndexOf(op'[t]) = IndexOf(op[t])
  BY <1>2, <1>4 DEF IndexOf
<1>10. Room'
  <2>1. \A kind \in Kinds : Due(kind)' \subseteq Due(kind)
    BY <1>1, <1>2, <1>4, <1>5 DEF Due, Others, Setting
  <2>2. QED
    BY <1>1, <1>7, <2>1, RoomStays
<1>11. /\ \A u \in Threads : u # t => ThreadInv(u)'
       /\ \A k \in Keys : EntryInv(k)'
  BY <1>1, <1>2, <1>4, <1>5, <1>6, <1>7, OthersStay
<1>12. ThreadInv(t)'
  <2>1. ~Recovering'
    BY <1>1 DEF Recovering
  <2>2. ValueAt(IndexOf(op[t]))' = [key |-> op'[t].key, val |-> op'[t].val]
    BY <1>1, <1>4, <1>8, <1>9 DEF ThreadInv, ValueAt
  <2>3. Below(file_offset, IndexOf(op[t]))'
    BY <1>1, <1>9 DEF ThreadInv, Below
  <2>4. QED
    BY <1>1, <1>2, <1>4, <2>1, <2>2, <2>3 DEF ThreadInv
<1>13. \A u \in Threads : u # t => PairInv(t, u)'
  BY <1>1, <1>2, <1>4, <1>5, SamePair
<1>14. ASSUME Solo
       PROVE  FilesInv' /\ AppendInv(t)'
  <2>1. FilesInv /\ AppendInv(t)
    BY <1>1, <1>14 DEF LogInv, SoloInv
  <2>2. \A d \in Kinds, h \in Files : Idle(d, h)' <=> Idle(d, h)
    BY <1>1, <1>2, <1>4, <1>5, <1>8 DEF Idle, Others, Appending
  <2>3. FilesInv'
    BY <1>1, <2>1, <2>2, FilesStay DEF pmem
  <2>4. op[t].slot = file_end[c][f] /\ n = op[t].slot + 1
    BY <1>1, <1>2, <2>1 DEF AppendInv
  <2>5. c = "index" =>
          /\ region["index"][f][op[t].slot] = [key |-> op[t].key, at |-> IndexOf(op[t])]
          /\ Below(file_end, IndexOf(op[t]))
    BY <1>1, <1>2, <2>1 DEF AppendInv
  <2>6. AppendInv(t)'
    BY <1>1, <1>2, <1>4, <1>9, <2>4, <2>5 DEF AppendInv, Below
  <2>7. QED
    BY <2>3, <2>6
<1>15. QED
  BY <1>1, <1>5, <1>6, <1>7, <1>10, <1>11, <1>12, <1>13, <1>14, ClientStep

(* Storing the end preserves the invariant: with one client a data record  *)
(* is below its file's end before its index record is, and an index record *)
(* only once it is written.                                                *)
LEMMA StoreEndStep ==
  ASSUME LogInv, NEW t \in clients, StoreEnd(t)
  PROVE  LogInv'
<1>1. /\ Setting(t) /\ t \in Threads /\ op[t] \in SetOps /\ ~Recovering
      /\ Typed /\ Room /\ ThreadInv(t) /\ pc[t] = "store_end"
      /\ Appending(t) /\ Holds(t) /\ Written(t)
      /\ UNCHANGED <<region, file_offset, cursor, tables, pos, clients, sets, crashes, store, given>>
  BY SetFacts DEF StoreEnd, Setting, SetPhases, LogInv, workload, history, pmem, Appending, Holds,
                  Written
<1>2. PICK c \in Kinds, f \in Files, n \in Nat :
        c = op[t].kind /\ f = op[t].file /\ n = op[t].end /\ c \in {"data", "index"}
  BY <1>1, SetFacts
<1>3. file_end' = [file_end EXCEPT ![c][f] = n]
  BY <1>2 DEF StoreEnd
<1>4. /\ file_end' \in Ends
      /\ \A d \in Kinds, h \in Files :
           file_end'[d][h] = IF d = c /\ h = f THEN n ELSE file_end[d][h]
  BY <1>1, <1>3 DEF Typed, Ends
<1>5. \/ /\ c = "data" /\ op' = [op EXCEPT ![t].kind = "index"]
         /\ pc' = [pc EXCEPT ![t] = "reserve"]
      \/ /\ c = "index" /\ op' = op /\ pc' = [pc EXCEPT ![t] = "insert"]
  BY <1>2 DEF StoreEnd, Goto
<1>6. /\ op'[t] \in SetOps /\ op'[t].key = op[t].key /\ op'[t].val = op[t].val
      /\ op'[t].file = f /\ op'[t].kind = "index" /\ op'[t].slot = op[t].slot
      /\ op'[t].off = op[t].off /\ op'[t].end = n
      /\ pc'[t] = IF c = "data" THEN "reserve" ELSE "insert"
  <2>1. CASE c = "data"
    BY <1>1, <1>2, <1>5, <2>1 DEF Typed, SetOps, Kinds
  <2>2. CASE c = "index"
    BY <1>1, <1>2, <1>5, <2>2 DEF Typed
  <2>3. QED
    BY <1>2, <2>1, <2>2
<1>7. Others(t)
  BY <1>1, <1>5 DEF Others, Typed
<1>8. Forward
  BY <1>1 DEF Forward, Typed, Ends
<1>9. Typed'
  <2>1. op' \in [Threads -> SetOps \cup GetOps \cup {Nothing}]
    BY <1>1, <1>5, <1>6, <1>7 DEF Typed, Others
  <2>2. pc' \in [Threads -> Phases]
    BY <1>1, <1>5 DEF Typed, Phases, SetPhases
  <2>3. QED
    BY <1>1, <1>4, <1>6, <1>7, <2>1, <2>2 DEF Typed, Setting, SetPhases, GetPhases, Others
<1>10. Setting(t)' /\ Holds(t)' /\ ~Appending(t)' /\ pc'[t] \in {"reserve", "insert"}
  BY <1>1, <1>6 DEF Holds, Appending, Setting, SetPhases
<1>11. IndexOf(op'[t]) = IndexOf(op[t])
  BY <1>2, <1>6 DEF IndexOf
<1>12. Room'
  <2>1. \A kind \in Kinds : Due(kind)' \subseteq Due(kind)
    BY <1>1, <1>2, <1>6, <1>7 DEF Due, Others, Setting, Kinds
  <2>2. QED
    BY <1>1, <1>9, <2>1, RoomStays
<1>13. /\ \A u \in Threads : u # t => ThreadInv(u)'
       /\ \A k \in Keys : EntryInv(k)'
  BY <1>1, <1>2, <1>6, <1>7, <1>8, <1>9, <1>10, OthersStay
<1>14. ThreadInv(t)'
  <2>1. ~Recovering'
    BY <1>1 DEF Recovering
  <2>2. ValueAt(IndexOf(op[t]))' = [key |-> op'[t].key, val |-> op'[t].val]
    BY <1>1, <1>6, <1>11 DEF ThreadInv, ValueAt
  <2>3. Below(file_offset, IndexOf(op[t]))'
    BY <1>1, <1>11 DEF ThreadInv, Below
  <2>4. <<op'[t].key, op'[t].val>> \in given'
    BY <1>1, <1>6 DEF ThreadInv
  <2>5. QED
    BY <1>1, <1>10, <2>1, <2>2, <2>3, <2>4 DEF ThreadInv
<1>15. ASSUME NEW u \in Threads, u # t
       PROVE  PairInv(t, u)'
  <2>1. pc'[u] = pc[u] /\ op'[u] = op[u] /\ PairInv(t, u)
    BY <1>1, <1>7, <1>15 DEF Others, LogInv
  <2>2. Holds(u)' <=> Holds(u)
    BY <2>1 DEF Holds, Setting
  <2>3. QED
    BY <1>1, <1>10, <1>11, <2>1, <2>2 DEF PairInv
<1>16. ASSUME Solo
       PROVE  FilesInv' /\ AppendInv(t)'
  <2>1. FilesInv /\ AppendInv(t)
    BY <1>1, <1>16 DEF LogInv, SoloInv
  <2>2. op[t].slot = file_end[c][f] /\ file_offset[c][f] = op[t].slot + 1 /\ n = op[t].slot + 1
    BY <1>1, <1>2, <2>1 DEF AppendInv
  <2>3. \A d \in Kinds, h \in Files : /\ file_end[d][h] \in Nat /\ file_end'[d][h] \in Nat
                                      /\ file_end[d][h] <= file_end'[d][h]
    <3>1. \A d \in Kinds, h \in Files : file_end[d][h] \in Nat /\ file_end'[d][h] \in Nat
      BY <1>1, <1>4 DEF Typed, Ends
    <3>2. file_end[c][f] <= n
      BY <2>2, <3>1
    <3>3. QED
      BY <1>4, <3>1, <3>2
  <2>4. \A d \in Kinds, h \in Files : Idle(d, h)' => file_offset'[d][h] = file_end'[d][h]
    <3>1. ASSUME NEW d \in Kinds, NEW h \in Files, Idle(d, h)', ~(d = c /\ h = f)
          PROVE  Idle(d, h)
      BY <1>1, <1>2, <1>7, <3>1 DEF Idle, Others, Appending
    <3>2. QED
      BY <1>1, <1>4, <2>1, <2>2, <3>1 DEF FilesInv
  <2>5. ASSUME NEW r, Sound(r)
        PROVE  Sound(r)'
    <3>1. r.at.file \in Files /\ r.at.off \in Nat
      BY <2>5 DEF Sound, Places
    <3>2. Below(file_end', r.at)
      <4>1. r.at.off < file_end["data"][r.at.file]
        BY <2>5 DEF Sound, Below
      <4>2. QED
        BY <2>3, <3>1, <4>1 DEF Below, Kinds
    <3>3. QED
      BY <1>1, <2>5, <3>2 DEF Sound, ValueAt, Below
  <2>6. c = "index" =>
          /\ region["index"][f][op[t].slot] = [key |-> op[t].key, at |-> IndexOf(op[t])]
          /\ Below(file_end, IndexOf(op[t]))
    BY <1>1, <1>2, <2>1 DEF AppendInv
  <2>7. c = "index" => Sound(region["index"][f][op[t].slot])
    <3>1. IndexOf(op[t]) \in Places /\ op[t].key \in Keys /\ op[t].val \in Values
      BY <1>1, SetFacts
    <3>2. ValueAt(IndexOf(op[t])) = [key |-> op[t].key, val |-> op[t].val]
          /\ <<op[t].key, op[t].val>> \in given
      BY <1>1 DEF ThreadInv
    <3>3. QED
      BY <2>6, <3>1, <3>2 DEF Sound, DataRecords
  <2>8. \A h \in Files : \A q \in 0..file_end'["index"][h] - 1 : Sound(region["index"][h][q])'
    <3>1. ASSUME NEW h \in Files, NEW q \in 0..file_end'["index"][h] - 1
          PROVE  Sound(region["index"][h][q])
      <4>1. q \in 0..file_end["index"][h] - 1 \/ (c = "index" /\ h = f /\ q = op[t].slot)
        BY <1>4, <2>2, <2>3 DEF Kinds
      <4>2. QED
        BY <2>1, <2>7, <4>1 DEF FilesInv
    <3>2. ASSUME NEW h \in Files, NEW q \in 0..file_end'["index"][h] - 1
          PROVE  Sound(region["index"][h][q])'
      <4>1. PICK r : r = region["index"][h][q]
        OBVIOUS
      <4>2. Sound(r)'
        BY <2>5, <3>1, <4>1
      <4>3. region'["index"][h][q] = r
        BY <1>1, <4>1
      <4>4. QED
        BY <4>2, <4>3 DEF Sound, ValueAt, Below
    <3>3. QED
      BY <3>2
  <2>9. \A k : Indexed(k) => Indexed(k)'
    <3>1. ASSUME NEW h \in Files, NEW q \in 0..file_end["index"][h] - 1
          PROVE  q \in 0..file_end'["index"][h] - 1
      BY <1>4, <2>3 DEF Ends, Kinds
    <3>2. QED
      BY <1>1, <3>1 DEF Indexed
  <2>10. FilesInv'
    BY <1>1, <2>1, <2>4, <2>8, <2>9 DEF FilesInv
  <2>11. Below(file_end, IndexOf(op[t]))'
    <3>1. CASE c = "data"
      <4>1. op[t].off = op[t].slot /\ op[t].slot \in Nat
        BY <1>1, <1>2, <3>1, SetFacts DEF ThreadInv
      <4>2. QED
        <5>1. file_end'["data"][f] = op[t].slot + 1
          BY <1>4, <2>2, <3>1
        <5>2. IndexOf(op[t])' = [file |-> f, off |-> op[t].slot]
          BY <1>6, <4>1 DEF IndexOf
        <5>3. QED
          BY <4>1, <5>1, <5>2 DEF Below
    <3>2. CASE c = "index"
      <4>1. op[t].off \in Nat /\ op[t].file \in Files
        BY <1>1, SetFacts
      <4>2. QED
        BY <1>4, <1>11, <2>6, <3>2, <4>1 DEF Below, IndexOf, Kinds
    <3>3. QED
      BY <1>2, <3>1, <3>2
  <2>12. pc'[t] = "insert" => Indexed(op[t].key)'
    <3>1. SUFFICES ASSUME c = "index"
                   PROVE  Indexed(op[t].key)'
      BY <1>2, <1>6
    <3>2. op[t].slot \in 0..file_end'["index"][f] - 1
      BY <1>1, <1>4, <2>2, <3>1, SetFacts DEF Kinds
    <3>3. region'["index"][f][op[t].slot].key = op'[t].key
      BY <1>1, <1>6, <2>6, <3>1
    <3>4. QED
      BY <3>2, <3>3 DEF Indexed
  <2>13. AppendInv(t)'
    BY <1>10, <2>11, <2>12 DEF AppendInv
  <2>14. QED
    BY <2>10, <2>13
<1>17. QED
  BY <1>1, <1>7, <1>8, <1>9, <1>12, <1>13, <1>14, <1>15, <1>16, ClientStep

(* The first half of an Index's overwriting preserves the invariant: the   *)
(* key is locked, and other entries stay.                                  *)
LEMMA InsertOldStep ==
  ASSUME LogInv, NEW t \in clients, InsertOld(t)
  PROVE  LogInv'
<1>1. /\ Setting(t) /\ t \in Threads /\ op[t] \in SetOps /\ ~Recovering
      /\ Typed /\ Room /\ ThreadInv(t) /\ pc[t] = "insert"
      /\ ~Appending(t) /\ Holds(t) /\ Written(t) /\ op[t].kind = "index"
      /\ UNCHANGED <<op, region, file_end, file_offset, cursor, pos, clients, sets, crashes, store, given>>
  BY SetFacts DEF InsertOld, Setting, SetPhases, LogInv, workload, history, pmem, Appending, Holds,
                  Written, Typed
<1>2. PICK l \in Keys, f \in Files : l = op[t].key /\ f = op[t].file
  BY <1>1, SetFacts
<1>3. /\ tables[l] \in Places /\ ~Locked(l)
      /\ tables' = [tables EXCEPT ![l].file = f] /\ pc' = [pc EXCEPT ![t] = "overwrite"]
  BY <1>1, <1>2 DEF InsertOld, Goto, Typed
<1>4. /\ tables'[l] \in Places /\ tables'[l].file = f /\ tables'[l] # Nothing
      /\ \A k \in Keys : k # l => tables'[k] = tables[k]
  BY <1>1, <1>3, MarksAssumption DEF Typed, Places
<1>5. pc'[t] = "overwrite" /\ op'[t] = op[t] /\ Others(t)
  BY <1>1, <1>3 DEF Typed, Others
<1>6. Forward
  BY <1>1 DEF Forward, Typed, Ends
<1>7. Typed'
  <2>1. tables' \in [Keys -> Places \cup {Nothing}]
    BY <1>1, <1>3, <1>4 DEF Typed
  <2>2. pc' \in [Threads -> Phases]
    BY <1>1, <1>3 DEF Typed, Phases, SetPhases
  <2>3. QED
    BY <1>1, <1>5, <2>1, <2>2 DEF Typed, Setting, SetPhases, GetPhases, Others
<1>8. Setting(t)' /\ Holds(t)' /\ ~Appending(t)'
  BY <1>1, <1>5 DEF Holds, Appending, Setting, SetPhases
<1>9. \A u \in Threads : pc[u] = "overwrite" => op[u].key # l
  BY <1>3 DEF Locked
<1>10. Room'
  <2>1. \A kind \in Kinds : Due(kind)' \subseteq Due(kind)
    BY <1>1, <1>5 DEF Due, Others, Setting
  <2>2. QED
    BY <1>1, <1>7, <2>1, RoomStays
<1>11. ASSUME NEW u \in Threads
       PROVE  ThreadInv(u)'
  <2>1. CASE u = t
    <3>1. ~Recovering'
      BY <1>1 DEF Recovering
    <3>2. ValueAt(IndexOf(op[t]))' = [key |-> op'[t].key, val |-> op'[t].val]
      BY <1>1, <1>5 DEF ThreadInv, ValueAt, IndexOf
    <3>3. Below(file_offset, IndexOf(op[t]))'
      BY <1>1, <1>5 DEF ThreadInv, Below, IndexOf
    <3>4. QED
      BY <1>1, <1>2, <1>4, <1>5, <1>8, <2>1, <3>1, <3>2, <3>3 DEF ThreadInv
  <2>2. CASE u # t
    <3>1. pc'[u] = pc[u] /\ op'[u] = op[u] /\ ThreadInv(u)
      BY <1>5, <2>2 DEF Others, LogInv
    <3>2. ValueAt(IndexOf(op[u]))' = ValueAt(IndexOf(op[u]))
      BY <1>1, <3>1 DEF ValueAt, IndexOf
    <3>3. pc[u] \in {"copy", "overwrite"} => op[u].key \in Keys
      BY <1>1 DEF Typed, Setting, SetPhases, GetPhases, SetOps, GetOps
    <3>4. pc[u] \in {"copy", "overwrite"} => tables'[op[u].key] # Nothing
      BY <1>4, <3>1, <3>3 DEF ThreadInv
    <3>5. pc[u] = "overwrite" => tables'[op[u].key].file = tables[op[u].key].file
      BY <1>4, <1>9, <3>3
    <3>6. QED
      BY <1>1, <1>6, <1>7, <3>1, <3>2, <3>4, <3>5, ThreadStays
  <2>3. QED
    BY <2>1, <2>2
<1>12. ASSUME NEW u \in Threads, u # t
       PROVE  PairInv(t, u)'
  <2>1. pc'[u] = pc[u] /\ op'[u] = op[u] /\ PairInv(t, u)
    BY <1>1, <1>5, <1>12 DEF Others, LogInv
  <2>2. Holds(u)' <=> Holds(u)
    BY <2>1 DEF Holds, Setting
  <2>3. pc'[u] = "overwrite" => op'[t].key # op'[u].key
    BY <1>2, <1>5, <1>9, <2>1
  <2>4. QED
    BY <1>1, <1>5, <1>8, <2>1, <2>2, <2>3 DEF PairInv, IndexOf
<1>13. ASSUME NEW k \in Keys
       PROVE  EntryInv(k)'
  <2>1. EntryInv(k)
    BY DEF LogInv
  <2>2. CASE k = l
    <3>1. Locked(k)' /\ ~Recovering'
      BY <1>1, <1>2, <1>5, <2>2 DEF Locked, Recovering
    <3>2. QED
      BY <1>1, <1>3, <1>4, <2>1, <2>2, <3>1, MarksAssumption DEF EntryInv, Places
  <2>3. CASE k # l
    <3>1. Locked(k)' <=> Locked(k)
      BY <1>1, <1>2, <1>5, <2>3 DEF Locked, Others
    <3>2. \A u \in Threads : Holds(u)' => Holds(u) /\ IndexOf(op[u])' = IndexOf(op[u])
      BY <1>1, <1>5 DEF Others, Holds, Setting, IndexOf
    <3>3. tables'[k] = tables[k] /\ ValueAt(tables[k])' = ValueAt(tables[k])
      BY <1>1, <1>4, <2>3 DEF ValueAt
    <3>4. QED
      BY <1>1, <1>6, <1>7, <2>1, <3>1, <3>2, <3>3, EntryStays DEF EntryInv
  <2>4. QED
    BY <2>2, <2>3
<1>14. ASSUME Solo
       PROVE  FilesInv' /\ AppendInv(t)'
  <2>1. FilesInv /\ AppendInv(t)
    BY <1>1, <1>14 DEF LogInv, SoloInv
  <2>2. \A d \in Kinds, h \in Files : Idle(d, h)' <=> Idle(d, h)
    BY <1>1, <1>5, <1>8 DEF Idle, Others, Appending
  <2>3. FilesInv'
    BY <1>1, <2>1, <2>2, FilesStay DEF pmem
  <2>4. AppendInv(t)'
    BY <1>1, <1>5, <1>8, <2>1 DEF AppendInv, Below, IndexOf, Indexed
  <2>5. QED
    BY <2>3, <2>4
<1>15. QED
  BY <1>1, <1>5, <1>6, <1>7, <1>10, <1>11, <1>12, <1>13, <1>14, ClientStep

(* An Insert is done, be it of a new key or over an old Index.             *)
LEMMA Inserted ==
  ASSUME LogInv, NEW t \in clients, pc[t] \in {"insert", "overwrite"},
         pc[t] = "insert" => tables[op[t].key] = Nothing,
         tables' = [tables EXCEPT ![op[t].key] = IndexOf(op[t])],
         store' = [store EXCEPT ![op[t].key] = op[t].val],
         Return(t), UNCHANGED <<pmem, file_offset, cursor, pos, workload, given>>
  PROVE  LogInv'
<1>1. /\ Setting(t) /\ t \in Threads /\ op[t] \in SetOps /\ ~Recovering
      /\ Typed /\ Room /\ ThreadInv(t) /\ ~Appending(t) /\ Holds(t) /\ Written(t)
      /\ op[t].kind = "index"
      /\ UNCHANGED <<region, file_end, file_offset, cursor, pos, clients, sets, crashes, given>>
  BY SetFacts DEF Setting, SetPhases, LogInv, workload, pmem, Appending, Holds, Written, Typed
<1>2. PICK l \in Keys, i \in Places, v \in Values :
        l = op[t].key /\ i = IndexOf(op[t]) /\ v = op[t].val
  BY <1>1, SetFacts
<1>3. /\ tables' = [tables EXCEPT ![l] = i] /\ store' = [store EXCEPT ![l] = v]
      /\ pc' = [pc EXCEPT ![t] = "idle"] /\ op' = [op EXCEPT ![t] = Nothing]
  BY <1>2 DEF Return, Goto
<1>4. /\ tables'[l] = i /\ i # Nothing /\ store'[l] = v /\ v # NotFound
      /\ \A k \in Keys : k # l => tables'[k] = tables[k] /\ store'[k] = store[k]
  BY <1>1, <1>3, MarksAssumption, EngineAssumption DEF Typed, Places
<1>5. pc'[t] = "idle" /\ op'[t] = Nothing /\ Others(t)
  BY <1>1, <1>3 DEF Typed, Others
<1>6. Forward
  BY <1>1 DEF Forward, Typed, Ends
<1>7. Typed'
  <2>1. tables' \in [Keys -> Places \cup {Nothing}] /\ store' \in [Keys -> Values \cup {NotFound}]
    <3>1. tables \in [Keys -> Places \cup {Nothing}] /\ store \in [Keys -> Values \cup {NotFound}]
      BY <1>1 DEF Typed
    <3>2. tables' = [tables EXCEPT ![l] = i] /\ store' = [store EXCEPT ![l] = v]
      BY <1>3
    <3>3. QED
      BY <3>1, <3>2
  <2>2. pc' \in [Threads -> Phases] /\ op' \in [Threads -> SetOps \cup GetOps \cup {Nothing}]
    BY <1>1, <1>3 DEF Typed, Phases
  <2>3. QED
    BY <1>1, <1>5, <2>1, <2>2 DEF Typed, Setting, SetPhases, GetPhases, Others
<1>8. ~Setting(t)' /\ ~Holds(t)' /\ ~Appending(t)'
  BY <1>5 DEF Holds, Appending, Setting, SetPhases
<1>9. \A u \in Threads : u # t /\ pc[u] = "overwrite" => op[u].key # l
  <2>1. CASE pc[t] = "insert"
    BY <1>2, <2>1 DEF LogInv, ThreadInv
  <2>2. CASE pc[t] = "overwrite"
    BY <1>1, <1>2, <2>2 DEF LogInv, PairInv
  <2>3. QED
    BY <2>1, <2>2
<1>10. Room'
  <2>1. \A kind \in Kinds : Due(kind)' \subseteq Due(kind)
    BY <1>1, <1>5, <1>8 DEF Due, Others, Setting
  <2>2. QED
    BY <1>1, <1>7, <2>1, RoomStays
<1>11. ASSUME NEW u \in Threads
       PROVE  ThreadInv(u)'
  <2>1. CASE u = t
    BY <1>5, <1>8, <2>1 DEF ThreadInv, Written
  <2>2. CASE u # t
    <3>1. pc'[u] = pc[u] /\ op'[u] = op[u] /\ ThreadInv(u)
      BY <1>5, <2>2 DEF Others, LogInv
    <3>2. ValueAt(IndexOf(op[u]))' = ValueAt(IndexOf(op[u]))
      BY <1>1, <3>1 DEF ValueAt, IndexOf
    <3>3. pc[u] \in {"copy", "overwrite"} => op[u].key \in Keys
      BY <1>1 DEF Typed, Setting, SetPhases, GetPhases, SetOps, GetOps
    <3>4. pc[u] \in {"copy", "overwrite"} => tables'[op[u].key] # Nothing
      BY <1>4, <3>1, <3>3 DEF ThreadInv
    <3>5. pc[u] = "overwrite" => tables'[op[u].key].file = tables[op[u].key].file
      BY <1>4, <1>9, <2>2, <3>3
    <3>6. QED
      BY <1>1, <1>6, <1>7, <3>1, <3>2, <3>4, <3>5, ThreadStays
  <2>3. QED
    BY <2>1, <2>2
<1>12. \A u \in Threads : u # t => PairInv(t, u)'
  BY <1>5, <1>8 DEF PairInv
<1>13. ASSUME NEW u \in Threads, Holds(u)'
       PROVE  u # t /\ Holds(u) /\ IndexOf(op[u])' = IndexOf(op[u])
  BY <1>5, <1>8, <1>13 DEF Others, Holds, Setting, IndexOf
<1>14. ASSUME NEW k \in Keys
       PROVE  EntryInv(k)'
  <2>1. EntryInv(k)
    BY DEF LogInv
  <2>2. CASE k = l
    <3>1. Below(file_offset, i)
      BY <1>1, <1>2 DEF ThreadInv
    <3>2. \A u \in Threads : Holds(u)' => IndexOf(op[u])' # i
      BY <1>1, <1>2, <1>13 DEF LogInv, PairInv
    <3>3. ValueAt(i) = [key |-> l, val |-> v] /\ <<l, v>> \in given
      BY <1>1, <1>2 DEF ThreadInv
    <3>4. ValueAt(tables[k])' = [key |-> k, val |-> store'[k]]
      BY <1>1, <1>4, <2>2, <3>3 DEF ValueAt
    <3>5. Below(file_offset, tables[k])'
      BY <1>1, <1>4, <2>2, <3>1 DEF Below
    <3>6. QED
      BY <1>1, <1>4, <2>2, <3>2, <3>3, <3>4, <3>5 DEF EntryInv
  <2>3. CASE k # l
    <3>1. Locked(k)' <=> Locked(k)
      BY <1>2, <1>5, <2>3 DEF Locked, Others
    <3>2. tables'[k] = tables[k] /\ store'[k] = store[k] /\ ValueAt(tables[k])' = ValueAt(tables[k])
      BY <1>1, <1>4, <2>3 DEF ValueAt
    <3>3. QED
      BY <1>1, <1>6, <1>7, <1>13, <2>1, <3>1, <3>2, EntryStays DEF EntryInv
  <2>4. QED
    BY <2>2, <2>3
<1>15. ASSUME Solo
       PROVE  FilesInv' /\ AppendInv(t)'
  <2>1. FilesInv /\ AppendInv(t)
    BY <1>1, <1>15 DEF LogInv, SoloInv
  <2>2. \A d \in Kinds, h \in Files : Idle(d, h)' <=> Idle(d, h)
    BY <1>1, <1>5, <1>8 DEF Idle, Others, Appending
  <2>3. \A k \in Keys : store'[k] # NotFound => store[k] # NotFound \/ Indexed(k)
    BY <1>2, <1>4, <2>1 DEF AppendInv
  <2>4. FilesInv'
    BY <1>1, <2>1, <2>2, <2>3, FilesStay DEF pmem
  <2>5. AppendInv(t)'
    BY <1>5, <1>8 DEF AppendInv
  <2>6. QED
    BY <2>4, <2>5
<1>16. QED
  BY <1>1, <1>5, <1>6, <1>7, <1>10, <1>11, <1>12, <1>14, <1>15, ClientStep

(* A Set that publishes its Index, whole or by its second half, preserves  *)
(* the invariant.                                                          *)
LEMMA InsertStep ==
  ASSUME LogInv, NEW t \in clients, InsertNew(t) \/ Overwrite(t)
  PROVE  LogInv'
<1>1. CASE InsertNew(t)
  BY <1>1, Inserted DEF InsertNew
<1>2. CASE Overwrite(t)
  <2>1. /\ Setting(t) /\ t \in Threads /\ op[t] \in SetOps /\ Typed /\ ThreadInv(t)
        /\ pc[t] = "overwrite"
    BY <1>2, SetFacts DEF Overwrite, Setting, SetPhases, LogInv
  <2>2. op[t].key \in Keys /\ IndexOf(op[t]) \in Places
    BY <2>1, SetFacts
  <2>3. tables[op[t].key] \in Places /\ tables[op[t].key].file = op[t].file
    BY <2>1, <2>2 DEF Typed, ThreadInv
  <2>4. [tables[op[t].key] EXCEPT !.off = op[t].off] = IndexOf(op[t])
    BY <2>3 DEF IndexOf, Places
  <2>5. tables' = [tables EXCEPT ![op[t].key] = IndexOf(op[t])]
    BY <1>2, <2>4 DEF Overwrite
  <2>6. QED
    BY <1>2, <2>1, <2>5, Inserted DEF Overwrite
<1>3. QED
  BY <1>1, <1>2

------------------------------------------------------------------------------
(* Crash and recovery                                                      *)

(* A thread that has a call is not there while the engine recovers, and    *)
(* the ends in memory are then the persisted ones.                         *)
LEMMA Resting ==
  ASSUME LogInv, Recovering
  PROVE  /\ \A t \in Threads : pc[t] = "idle" /\ ~Setting(t) /\ ~Holds(t) /\ ~Appending(t)
         /\ SoloInv /\ Solo
         /\ \A kind \in Kinds, f \in Files : file_offset[kind][f] = file_end[kind][f]
<1>1. \A t \in Threads : pc[t] = "idle"
  BY DEF LogInv, ThreadInv
<1>2. \A t \in Threads : ~Setting(t) /\ ~Holds(t) /\ ~Appending(t)
  BY <1>1 DEF Setting, SetPhases, Holds, Appending
<1>3. SoloInv /\ Solo
  BY DEF LogInv
<1>4. \A kind \in Kinds, f \in Files : file_offset[kind][f] = file_end[kind][f]
  BY <1>2, <1>3 DEF SoloInv, FilesInv, Idle
<1>5. QED
  BY <1>1, <1>2, <1>3, <1>4

(* A crash preserves the invariant: with one client what reopening reads   *)
(* back as an end is at most one record short of the end in memory.        *)
LEMMA CrashStep ==
  ASSUME LogInv, Crash
  PROVE  LogInv'
<1>1. /\ Typed /\ Room /\ crashes > 0 /\ crashes' = crashes - 1
      /\ file_offset' = file_end /\ cursor' = 0
      /\ tables' = [k \in Keys |-> Nothing] /\ pc' = [t \in Threads |-> "idle"]
      /\ op' = [t \in Threads |-> Nothing] /\ pos' = [f \in Files |-> 0]
      /\ UNCHANGED <<region, file_end, clients, sets, store, given>>
  BY DEF LogInv, Crash, ReadEnds, pmem
<1>2. Solo /\ SoloInv /\ FilesInv
  <2>1. Solo
    BY <1>1 DEF LogInv, Typed
  <2>2. QED
    BY <2>1 DEF LogInv, SoloInv
<1>3. Recovering'
  <2>1. pos' \in [Files -> Nat]
    BY <1>1
  <2>2. QED
    BY <2>1, MarksAssumption DEF Recovering
<1>4. Typed'
  <2>1. crashes' \in Nat /\ 0 \in Files
    BY <1>1, EngineAssumption DEF Typed, Files
  <2>2. QED
    BY <1>1, <2>1 DEF Typed, Setting, SetPhases, GetPhases, Phases
<1>5. \A t \in Threads : pc'[t] = "idle" /\ ~Setting(t)' /\ ~Holds(t)' /\ ~Appending(t)' /\ ~Written(t)'
  BY <1>1 DEF Setting, SetPhases, Holds, Appending, Written
<1>6. Room'
  <2>1. \A kind : Due(kind)' = {}
    BY <1>5 DEF Due
  <2>2. \A kind \in Kinds, f \in Files : file_end[kind][f] \in Nat /\ file_end[kind][f] <= file_offset[kind][f]
    <3>1. ASSUME NEW kind \in Kinds, NEW f \in Files
          PROVE  file_end[kind][f] \in Nat /\ file_end[kind][f] <= file_offset[kind][f]
      <4>1. file_end[kind][f] \in Nat /\ file_offset[kind][f] \in Nat
        BY <1>1 DEF Typed, Ends
      <4>2. CASE Idle(kind, f)
        BY <1>2, <4>1, <4>2 DEF FilesInv
      <4>3. CASE ~Idle(kind, f)
        <5>1. PICK t \in Threads : Appending(t) /\ op[t].kind = kind /\ op[t].file = f
          BY <4>3 DEF Idle
        <5>2. op[t].slot = file_end[kind][f] /\ file_offset[kind][f] = op[t].slot + 1
          BY <1>2, <5>1 DEF SoloInv, AppendInv
        <5>3. QED
          BY <4>1, <5>2
      <4>4. QED
        BY <4>2, <4>3
    <3>2. QED
      BY <3>1
  <2>3. ASSUME NEW kind \in Kinds, NEW f \in Files
        PROVE  file_end[kind][f] + sets + 0 <= MaxRecords
    <3>1. /\ file_offset[kind][f] \in Nat /\ sets \in Nat /\ MaxRecords \in Nat
          /\ Cardinality(Due(kind)) \in Nat
          /\ file_offset[kind][f] + sets + Cardinality(Due(kind)) <= MaxRecords
      BY <1>1, Due1
    <3>2. QED
      BY <2>2, <3>1
  <2>4. QED
    BY <1>1, <2>1, <2>3, FS_EmptySet DEF Room
<1>7. \A t \in Threads : ThreadInv(t)'
  BY <1>5 DEF ThreadInv
<1>8. \A t, u \in Threads : t # u => PairInv(t, u)'
  BY <1>5 DEF PairInv
<1>9. ASSUME NEW k \in Keys
      PROVE  EntryInv(k)'
  <2>1. tables'[k] = Nothing /\ EntryInv(k)
    BY <1>1 DEF LogInv
  <2>2. QED
    BY <1>1, <1>3, <2>1 DEF EntryInv
<1>10. SoloInv'
  <2>1. FilesInv'
    BY <1>1, <1>2, FilesKept DEF pmem
  <2>2. RecoveryInv'
    <3>1. \A f \in Files : pos'[f] = 0 /\ file_end'["index"][f] \in Nat
      BY <1>1 DEF Typed, Ends, Kinds
    <3>2. \A f \in Files : 0..pos'[f] - 1 = {}
      BY <3>1
    <3>3. QED
      BY <1>1, <3>1, <3>2 DEF RecoveryInv
  <2>3. \A t \in Threads : AppendInv(t)'
    BY <1>5 DEF AppendInv
  <2>4. QED
    BY <2>1, <2>2, <2>3 DEF SoloInv
<1>11. Solo'
  BY <1>1, <1>2 DEF Solo
<1>12. QED
  BY <1>4, <1>6, <1>7, <1>8, <1>9, <1>10, <1>11 DEF LogInv

(* Recovery of one index record preserves the invariant: below the         *)
(* persisted end every record is written, and leads to a value of its key. *)
LEMMA CallbackStep ==
  ASSUME LogInv, NEW f \in Files, IndexCallback(f)
  PROVE  LogInv'
<1>1. /\ Recovering /\ Typed /\ Room /\ SoloInv /\ Solo /\ FilesInv /\ RecoveryInv
      /\ \A t \in Threads : pc[t] = "idle" /\ ~Setting(t) /\ ~Holds(t) /\ ~Appending(t)
      /\ \A kind \in Kinds, h \in Files : file_offset[kind][h] = file_end[kind][h]
      /\ UNCHANGED <<region, file_end, file_offset, cursor, pc, op, clients, sets, crashes, store, given>>
  BY Resting DEF IndexCallback, LogInv, SoloInv, pmem, workload, history
<1>2. pos \in [Files -> Nat] /\ pos[f] < file_end["index"][f] /\ file_end["index"][f] \in Nat
  BY <1>1 DEF IndexCallback, Typed, Recovering, Ends, Kinds
<1>3. PICK p \in Nat : p = pos[f] /\ p \in 0..file_end["index"][f] - 1
  BY <1>2
<1>4. PICK r : r = region["index"][f][p]
  OBVIOUS
<1>5. Sound(r)
  BY <1>1, <1>3, <1>4 DEF FilesInv
<1>6. PICK l \in Keys, i \in Places : r = [key |-> l, at |-> i] /\ i # Nothing
  <2>1. r \in [key : Keys, at : Places]
    BY <1>5 DEF Sound
  <2>2. r = [key |-> r.key, at |-> r.at] /\ r.key \in Keys /\ r.at \in Places
    BY <2>1
  <2>3. QED
    BY <2>2, MarksAssumption DEF Places
<1>7. ReadIndex(f, p) = {r}
  BY <1>4, <1>6, MarksAssumption DEF ReadIndex, Places
<1>8. /\ tables' = [tables EXCEPT ![l] = i]
      /\ pos' = [pos EXCEPT ![f] = p + 1]
  <2>1. \E x \in ReadIndex(f, pos[f]) : tables' = [tables EXCEPT ![x.key] = x.at]
    BY DEF IndexCallback
  <2>2. PICK x \in ReadIndex(f, p) : tables' = [tables EXCEPT ![x.key] = x.at]
    BY <1>3, <2>1
  <2>3. x = r /\ r.key = l /\ r.at = i
    BY <1>6, <1>7, <2>2
  <2>4. tables' = [tables EXCEPT ![l] = i]
    BY <2>2, <2>3
  <2>5. pos' = [pos EXCEPT ![f] = pos[f] + 1]
    BY <1>2 DEF IndexCallback, NextRecord
  <2>6. QED
    BY <1>3, <2>4, <2>5
<1>9. /\ tables'[l] = i
      /\ \A k \in Keys : k # l => tables'[k] = tables[k]
      /\ tables' \in [Keys -> Places \cup {Nothing}]
  BY <1>1, <1>8 DEF Typed
<1>10. /\ pos' \in [Files -> Nat] /\ pos'[f] = p + 1
       /\ \A h \in Files : h # f => pos'[h] = pos[h]
  BY <1>2, <1>8
<1>11. Recovering' /\ (Solo' <=> Solo)
  BY <1>1, <1>10, MarksAssumption DEF Recovering, Solo
<1>12. Typed'
  BY <1>1, <1>9, <1>10 DEF Typed, Setting
<1>13. \A t \in Threads : pc'[t] = "idle" /\ ~Setting(t)' /\ ~Holds(t)' /\ ~Appending(t)' /\ ~Written(t)'
  BY <1>1 DEF Setting, SetPhases, Holds, Appending, Written
<1>14. Room'
  <2>1. \A kind \in Kinds : Due(kind)' \subseteq Due(kind)
    BY <1>13 DEF Due
  <2>2. QED
    BY <1>1, <1>12, <2>1, RoomStays
<1>15. \A t \in Threads : ThreadInv(t)'
  BY <1>13 DEF ThreadInv
<1>16. \A t, u \in Threads : t # u => PairInv(t, u)'
  BY <1>13 DEF PairInv
<1>17. ASSUME NEW k \in Keys
       PROVE  EntryInv(k)'
  <2>1. EntryInv(k)
    BY DEF LogInv
  <2>2. \A t \in Threads : pc[t] # "overwrite"
    BY <1>1
  <2>3. ~Locked(k)
    BY <2>2 DEF Locked
  <2>4. tables'[k] # Nothing => Below(file_offset, tables[k])'
    <3>1. CASE k = l
      <4>1. Below(file_end, i)
        BY <1>5, <1>6 DEF Sound
      <4>2. i.file \in Files
        BY DEF Places
      <4>3. QED
        BY <1>1, <1>9, <3>1, <4>1, <4>2 DEF Below, Kinds
    <3>2. CASE k # l
      BY <1>1, <1>9, <2>1, <2>3, <3>2 DEF EntryInv, Below
    <3>3. QED
      BY <3>1, <3>2
  <2>5. QED
    BY <1>1, <1>11, <1>13, <2>1, <2>4 DEF EntryInv
<1>18. SoloInv'
  <2>1. FilesInv'
    <3>1. \A kind \in Kinds, h \in Files : file_offset'[kind][h] = file_end'[kind][h]
      BY <1>1
    <3>2. QED
      BY <1>1, <3>1, FilesKept DEF pmem
  <2>2. RecoveryInv'
    <3>1. \A h \in Files : pos'[h] <= file_end'["index"][h]
      BY <1>1, <1>2, <1>3, <1>10 DEF RecoveryInv
    <3>2. ASSUME NEW h \in Files, NEW q \in 0..pos'[h] - 1
          PROVE  tables'[region["index"][h][q].key] # Nothing
      <4>1. q \in 0..pos[h] - 1 \/ (h = f /\ q = p)
        BY <1>2, <1>3, <1>10
      <4>2. CASE q \in 0..pos[h] - 1
        <5>1. tables[region["index"][h][q].key] # Nothing
          BY <1>1, <4>2 DEF RecoveryInv
        <5>2. region["index"][h][q].key \in Keys
          <6>1. q \in 0..file_end["index"][h] - 1
            BY <1>1, <1>2, <4>2 DEF RecoveryInv, Typed, Ends, Kinds
          <6>2. Sound(region["index"][h][q])
            BY <1>1, <6>1 DEF FilesInv
          <6>3. QED
            BY <6>2 DEF Sound
        <5>3. QED
          BY <1>6, <1>9, <5>1, <5>2
      <4>3. CASE h = f /\ q = p
        <5>1. region["index"][h][q] = r
          BY <1>4, <4>3
        <5>2. r.key = l
          BY <1>6
        <5>3. tables'[region["index"][h][q].key] = i
          BY <1>9, <5>1, <5>2
        <5>4. QED
          BY <1>6, <5>3
      <4>4. QED
        BY <4>1, <4>2, <4>3
    <3>3. ASSUME NEW k \in Keys, tables'[k] # Nothing
          PROVE  Sound([key |-> k, at |-> tables'[k]]) /\ Indexed(k)
      <4>1. CASE k = l
        <5>1. Indexed(l)
          <6>1. region["index"][f][p].key = l /\ p \in 0..file_end["index"][f] - 1
            BY <1>3, <1>4, <1>6
          <6>2. QED
            BY <6>1 DEF Indexed
        <5>2. QED
          BY <1>5, <1>6, <1>9, <4>1, <5>1
      <4>2. CASE k # l
        BY <1>1, <1>9, <3>3, <4>2 DEF RecoveryInv
      <4>3. QED
        BY <4>1, <4>2
    <3>4. ASSUME NEW k \in Keys, tables'[k] # Nothing
          PROVE  Sound([key |-> k, at |-> tables[k]])' /\ Indexed(k)'
      <4>1. PICK j : j = tables'[k]
        OBVIOUS
      <4>2. Sound([key |-> k, at |-> j]) /\ Indexed(k)
        BY <3>3, <3>4, <4>1
      <4>3. Sound([key |-> k, at |-> j])'
        BY <1>1, <4>2 DEF Sound, ValueAt, Below
      <4>4. QED
        BY <1>1, <4>1, <4>2, <4>3 DEF Sound, ValueAt, Below, Indexed
    <3>5. QED
      BY <1>1, <3>1, <3>2, <3>4 DEF RecoveryInv
  <2>3. \A t \in Threads : AppendInv(t)'
    BY <1>13 DEF AppendInv
  <2>4. QED
    BY <2>1, <2>2, <2>3 DEF SoloInv
<1>19. QED
  BY <1>1, <1>11, <1>12, <1>14, <1>15, <1>16, <1>17, <1>18 DEF LogInv

(* What the tables lead to is a value, when recovery has read it all.      *)
LEMMA RecoveredFacts ==
  ASSUME LogInv, Recovered
  PROVE  /\ Recovering /\ Typed /\ RecoveryInv /\ FilesInv
         /\ \A k \in Keys : tables[k] = Nothing => store'[k] = NotFound
         /\ \A k \in Keys : tables[k] # Nothing =>
              /\ store'[k] \in Values /\ store'[k] # NotFound
              /\ ValueAt(tables[k]) = [key |-> k, val |-> store'[k]]
              /\ <<k, store'[k]>> \in given
              /\ Indexed(k)
         /\ \A k \in Keys : store[k] # NotFound => tables[k] # Nothing
<1>1. /\ Recovering /\ Typed /\ RecoveryInv /\ FilesInv
      /\ \A kind \in Kinds, f \in Files : file_offset[kind][f] = file_end[kind][f]
      /\ \A f \in Files : pos[f] >= file_offset["index"][f]
      /\ store' = [k \in Keys |-> Current(k)]
  BY Resting DEF Recovered, LogInv, SoloInv
<1>2. ASSUME NEW k \in Keys, tables[k] # Nothing
      PROVE  /\ store'[k] \in Values /\ store'[k] # NotFound
             /\ ValueAt(tables[k]) = [key |-> k, val |-> store'[k]]
             /\ <<k, store'[k]>> \in given
             /\ Indexed(k)
  <2>1. Sound([key |-> k, at |-> tables[k]]) /\ Indexed(k)
    BY <1>1, <1>2 DEF RecoveryInv
  <2>2. /\ ValueAt(tables[k]) \in DataRecords /\ ValueAt(tables[k]).key = k
        /\ <<k, ValueAt(tables[k]).val>> \in given
    BY <2>1 DEF Sound
  <2>3. store'[k] = ValueAt(tables[k]).val
    BY <1>1, <1>2, <2>2, MarksAssumption DEF Current, ValueAt
  <2>4. QED
    BY <2>1, <2>2, <2>3, EngineAssumption DEF DataRecords
<1>3. ASSUME NEW k \in Keys, store[k] # NotFound
      PROVE  tables[k] # Nothing
  <2>1. PICK f \in Files : \E p \in 0..file_end["index"][f] - 1 : region["index"][f][p].key = k
    BY <1>1, <1>3 DEF FilesInv, Indexed
  <2>2. PICK p \in 0..file_end["index"][f] - 1 : region["index"][f][p].key = k
    BY <2>1
  <2>3. pos[f] \in Nat /\ file_end["index"][f] \in Nat /\ pos[f] >= file_end["index"][f]
    BY <1>1 DEF Typed, Recovering, Ends, Kinds
  <2>4. p \in 0..pos[f] - 1
    BY <2>3
  <2>5. QED
    BY <1>1, <2>2, <2>4 DEF RecoveryInv
<1>4. QED
  BY <1>1, <1>2, <1>3 DEF Current

(* The end of recovery preserves the invariant. *)
LEMMA RecoveredStep ==
  ASSUME LogInv, Recovered
  PROVE  LogInv'
<1>1. /\ Recovering /\ Typed /\ Room /\ Solo /\ FilesInv /\ pos' = Nothing
      /\ \A t \in Threads : pc[t] = "idle" /\ ~Setting(t) /\ ~Holds(t) /\ ~Appending(t)
      /\ \A kind \in Kinds, f \in Files : file_offset[kind][f] = file_end[kind][f]
      /\ store' = [k \in Keys |-> store'[k]]
      /\ UNCHANGED <<region, file_end, file_offset, cursor, tables, pc, op, clients, sets, crashes, given>>
  BY Resting DEF Recovered, LogInv, SoloInv, pmem, workload
<1>2. /\ \A k \in Keys : tables[k] = Nothing => store'[k] = NotFound
      /\ \A k \in Keys : tables[k] # Nothing =>
           /\ store'[k] \in Values /\ store'[k] # NotFound
           /\ ValueAt(tables[k]) = [key |-> k, val |-> store'[k]]
           /\ <<k, store'[k]>> \in given
           /\ Indexed(k)
  BY RecoveredFacts
<1>3. ~Recovering' /\ (Solo' <=> Solo)
  BY <1>1 DEF Recovering, Solo
<1>4. Typed'
  <2>1. store' \in [Keys -> Values \cup {NotFound}]
    BY <1>1, <1>2
  <2>2. QED
    BY <1>1, <2>1 DEF Typed, Setting
<1>5. \A t \in Threads : pc'[t] = "idle" /\ ~Setting(t)' /\ ~Holds(t)' /\ ~Appending(t)' /\ ~Written(t)'
  BY <1>1 DEF Setting, SetPhases, Holds, Appending, Written
<1>6. Room'
  <2>1. \A kind \in Kinds : Due(kind)' \subseteq Due(kind)
    BY <1>5 DEF Due
  <2>2. QED
    BY <1>1, <1>4, <2>1, RoomStays
<1>7. \A t \in Threads : ThreadInv(t)'
  BY <1>5 DEF ThreadInv
<1>8. \A t, u \in Threads : t # u => PairInv(t, u)'
  BY <1>5 DEF PairInv
<1>9. ASSUME NEW k \in Keys
      PROVE  EntryInv(k)'
  <2>1. EntryInv(k) /\ ~Locked(k)
    BY <1>1 DEF LogInv, Locked
  <2>2. tables[k] # Nothing => Below(file_offset, tables[k])'
    BY <1>1, <2>1 DEF EntryInv, Below
  <2>3. tables[k] # Nothing => ValueAt(tables[k])' = [key |-> k, val |-> store'[k]]
    BY <1>1, <1>2 DEF ValueAt
  <2>4. QED
    BY <1>1, <1>2, <1>5, <2>2, <2>3 DEF EntryInv
<1>10. SoloInv'
  <2>1. FilesInv'
    <3>1. \A k \in Keys : store'[k] # NotFound => store[k] # NotFound \/ Indexed(k)
      BY <1>2
    <3>2. QED
      BY <1>1, <3>1, FilesKept DEF pmem
  <2>2. RecoveryInv'
    BY <1>3 DEF RecoveryInv
  <2>3. \A t \in Threads : AppendInv(t)'
    BY <1>5 DEF AppendInv
  <2>4. QED
    BY <2>1, <2>2, <2>3 DEF SoloInv
<1>11. QED
  BY <1>1, <1>3, <1>4, <1>6, <1>7, <1>8, <1>9, <1>10 DEF LogInv

------------------------------------------------------------------------------
(* The theorems                                                            *)

(* Every step preserves the invariant. *)
LEMMA LogInvNext == LogInv /\ [Next]_vars => LogInv'
<1> SUFFICES ASSUME LogInv, [Next]_vars
             PROVE  LogInv'
  OBVIOUS
<1>1. ASSUME NEW t \in clients, NEW k \in Keys, NEW v \in Values, Set(t, k, v)
      PROVE  LogInv'
  BY <1>1, SetCall
<1>2. ASSUME NEW t \in clients, \E k \in Keys : Get(t, k)
      PROVE  LogInv'
  BY <1>2, ReadStep
<1>3. ASSUME NEW t \in clients, SetStep(t)
      PROVE  LogInv'
  BY <1>3, ReserveStep, WriteStep, LoadEndStep, StoreEndStep, InsertOldStep, InsertStep DEF SetStep
<1>4. ASSUME NEW t \in clients, GetStep(t)
      PROVE  LogInv'
  BY <1>4, ReadStep DEF GetStep
<1>5. CASE Crash
  BY <1>5, CrashStep
<1>6. CASE Recover
  BY <1>6, CallbackStep, RecoveredStep DEF Recover
<1>7. CASE UNCHANGED vars
  <2>1. UNCHANGED <<region, file_end, file_offset, cursor, tables, pc, op, reply, pos,
                    clients, sets, crashes, store, given, cut>>
    BY <1>7 DEF vars, pmem, workload, history
  <2>2. /\ \A t \in Threads : Setting(t)' = Setting(t) /\ Appending(t)' = Appending(t)
        /\ \A t \in Threads : Holds(t)' = Holds(t) /\ Written(t)' = Written(t)
        /\ \A k \in Keys : Locked(k)' = Locked(k) /\ Indexed(k)' = Indexed(k)
        /\ Recovering' = Recovering /\ Solo' = Solo
    BY <2>1 DEF Setting, Appending, Holds, Written, Locked, Indexed, Recovering, Solo
  <2>3. Typed'
    BY <2>1 DEF LogInv, Typed, Setting
  <2>4. Room'
    <3>1. \A kind \in Kinds : Due(kind)' = Due(kind)
      BY <2>1 DEF Due, Setting
    <3>2. QED
      BY <2>1, <2>3, <3>1, RoomStays DEF LogInv
  <2>5. ASSUME NEW t \in Threads
        PROVE  ThreadInv(t)'
    BY <2>1, <2>2 DEF LogInv, ThreadInv, Below, ValueAt, IndexOf
  <2>6. ASSUME NEW t \in Threads, NEW u \in Threads, t # u
        PROVE  PairInv(t, u)'
    <3>1. PairInv(t, u)
      BY <2>6 DEF LogInv
    <3>2. QED
      BY <2>1, <3>1 DEF PairInv, Appending, Holds, Setting, IndexOf
  <2>7. ASSUME NEW k \in Keys
        PROVE  EntryInv(k)'
    <3>1. EntryInv(k)
      BY DEF LogInv
    <3>2. QED
      BY <2>1, <2>2, <3>1 DEF EntryInv, Below, ValueAt, IndexOf
  <2>8. SoloInv => SoloInv'
    <3>1. FilesInv => FilesInv'
      <4>1. \A kind \in Kinds, f \in Files : Idle(kind, f)' = Idle(kind, f)
        BY <2>1 DEF Idle, Appending
      <4>2. QED
        BY <2>1, <4>1, FilesStay DEF pmem
    <3>2. RecoveryInv => RecoveryInv'
      BY <2>1, <2>2 DEF RecoveryInv, Sound, Below, ValueAt
    <3>3. ASSUME NEW t \in Threads, AppendInv(t)
          PROVE  AppendInv(t)'
      BY <2>1, <3>3 DEF AppendInv, Appending, Setting, Below, IndexOf, Indexed
    <3>4. QED
      BY <3>1, <3>2, <3>3 DEF SoloInv
  <2>9. QED
    BY <2>1, <2>2, <2>3, <2>4, <2>5, <2>6, <2>7, <2>8 DEF LogInv
<1>8. QED
  BY <1>1, <1>2, <1>3, <1>4, <1>5, <1>6, <1>7 DEF Next

(* The invariant holds of every behaviour. *)
LEMMA SpecLogInv ==
  ASSUME CrashesAreSolo
  PROVE  Spec => []LogInv
<1>1. Init => LogInv
  BY InitLog
<1>2. LogInv /\ [Next]_vars => LogInv'
  BY LogInvNext
<1>3. QED
  BY <1>1, <1>2, PTL DEF Spec

(* No store lands on a record that another Set is working on, or on a      *)
(* value that some key leads to, for any number of threads, files, records *)
(* and keys, and over any crashes of an engine with one client             *)
(* (file_offset_, the ends NewFile reads back).                            *)
THEOREM AppendsOnlyAlways ==
  ASSUME CrashesAreSolo
  PROVE  Spec => []AppendsOnly
<1>1. LogInv => AppendsOnly
  <2> SUFFICES ASSUME LogInv
               PROVE  AppendsOnly
    OBVIOUS
  <2>1. ASSUME NEW t \in Threads, NEW u \in Threads, t # u, Appending(t), Appending(u),
               op[t].kind = op[u].kind, op[t].file = op[u].file
        PROVE  op[t].slot # op[u].slot
    BY <2>1 DEF LogInv, PairInv
  <2>2. ASSUME NEW t \in Threads, NEW k \in Keys, Appending(t), op[t].kind = "data",
               tables[k] # Nothing, ~Locked(k)
        PROVE  tables[k] # [file |-> op[t].file, off |-> op[t].slot]
    <3>1. Holds(t) /\ ThreadInv(t) /\ EntryInv(k)
      BY <2>2 DEF LogInv, Holds, Setting, SetPhases, Appending
    <3>2. IndexOf(op[t]) # tables[k] /\ op[t].slot = op[t].off
      BY <2>2, <3>1 DEF EntryInv, ThreadInv
    <3>3. QED
      BY <3>2 DEF IndexOf
  <2>3. QED
    BY <2>1, <2>2 DEF AppendsOnly
<1>2. QED
  BY <1>1, SpecLogInv, PTL

(* While no Insert is half done with a key, its table entry leads to the   *)
(* value of its last Insert and to a record of the key itself              *)
(* (NvmEngine::Set, skiplist.h Insert).                                    *)
THEOREM EntriesLeadToValuesAlways ==
  ASSUME CrashesAreSolo
  PROVE  Spec => []EntriesLeadToValues
<1>1. LogInv => EntriesLeadToValues
  <2> SUFFICES ASSUME LogInv, ~Recovering, NEW k \in Keys, ~Locked(k)
               PROVE  /\ Current(k) = store[k]
                      /\ tables[k] # Nothing =>
                           /\ region["data"][tables[k].file][tables[k].off] # Zeros
                           /\ region["data"][tables[k].file][tables[k].off].key = k
                      /\ store[k] # NotFound => <<k, store[k]>> \in given
    BY DEF EntriesLeadToValues
  <2>1. EntryInv(k) /\ store[k] \in Values \cup {NotFound}
    BY DEF LogInv, Typed
  <2>2. CASE tables[k] = Nothing
    BY <2>1, <2>2 DEF EntryInv, Current
  <2>3. CASE tables[k] # Nothing
    <3>1. /\ region["data"][tables[k].file][tables[k].off] = [key |-> k, val |-> store[k]]
          /\ store[k] \in Values
      BY <2>1, <2>3 DEF EntryInv, ValueAt
    <3>2. [key |-> k, val |-> store[k]] # Zeros
      BY <3>1, MarksAssumption DEF DataRecords
    <3>3. QED
      BY <2>1, <2>3, <3>1, <3>2 DEF EntryInv, Current
  <2>4. QED
    BY <2>2, <2>3
<1>2. QED
  BY <1>1, SpecLogInv, PTL

(* Every thread has its reply. *)
Replies == reply = [t \in Threads |-> reply[t]]

(* Every step only changes the reply of a thread, or resets them all. *)
LEMMA RepliesAlways == Spec => []Replies
<1>1. Init => Replies
  BY DEF Init, Replies
<1>2. Replies /\ [Next]_vars => Replies'
  <2> SUFFICES ASSUME Replies, [Next]_vars
               PROVE  Replies'
    OBVIOUS
  <2>1. ASSUME NEW t \in clients, NEW k \in Keys, NEW v \in Values, Set(t, k, v)
        PROVE  Replies'
    BY <2>1 DEF Set, Replies
  <2>2. ASSUME NEW t \in clients, NEW k \in Keys, Get(t, k)
        PROVE  Replies'
    BY <2>2 DEF Get, Replies
  <2>3. ASSUME NEW t \in clients, SetStep(t)
        PROVE  Replies'
    BY <2>3 DEF SetStep, Reserve, Write, LoadEnd, StoreEnd, InsertNew, InsertOld, Overwrite, Replies
  <2>4. ASSUME NEW t \in clients, GetStep(t)
        PROVE  Replies'
    BY <2>4 DEF GetStep, Copy, Answer, GetReturn, Replies
  <2>5. CASE Crash
    BY <2>5 DEF Crash, Replies
  <2>6. CASE Recover
    BY <2>6 DEF Recover, IndexCallback, Recovered, Replies
  <2>7. CASE UNCHANGED vars
    BY <2>7 DEF vars, Replies
  <2>8. QED
    BY <2>1, <2>2, <2>3, <2>4, <2>5, <2>6, <2>7 DEF Next
<1>3. QED
  BY <1>1, <1>2, PTL DEF Spec

(* A thread that answers does so by Answer, from a position where its      *)
(* key's value is: ReadData has one value to give.                         *)
LEMMA UndisturbedGet ==
  ASSUME LogInv, Replies, [Next]_vars, NEW t \in Threads, pc[t] = "read", pc'[t] = "answered",
         tables[op[t].key] = [file |-> op[t].file, off |-> op[t].off], ~Locked(op[t].key)
  PROVE  reply'[t] = store[op[t].key]
<1>1. Typed /\ ThreadInv(t) /\ t \in clients /\ op[t] \in GetOps /\ ~Recovering
  BY DEF LogInv, Typed, ThreadInv, GetPhases
<1>2. PICK k \in Keys, i \in Places : /\ k = op[t].key /\ i.file = op[t].file /\ i.off = op[t].off
                                      /\ tables[k] = i
  <2>1. op[t].key \in Keys /\ [file |-> op[t].file, off |-> op[t].off] \in Places
    BY <1>1 DEF GetOps, Places
  <2>2. QED
    BY <2>1
<1>3. tables[k] # Nothing
  BY <1>2, MarksAssumption DEF Places
<1>4. /\ Below(file_offset, i) /\ ValueAt(i) = [key |-> k, val |-> store[k]]
      /\ store[k] \in Values
  <2>1. EntryInv(k) /\ ~Locked(k)
    BY <1>2 DEF LogInv
  <2>2. /\ Below(file_offset, i) /\ ValueAt(i) = [key |-> k, val |-> store[k]]
        /\ store[k] # NotFound
    BY <1>1, <1>2, <1>3, <2>1 DEF EntryInv
  <2>3. QED
    BY <1>1, <2>2 DEF Typed
<1>5. ReadData(op[t].file, op[t].off) = {store[k]}
  <2>1. i.off \in Nat /\ file_offset["data"][i.file] \in Nat /\ i.off < file_offset["data"][i.file]
    BY <1>1, <1>4 DEF Places, Typed, Ends, Kinds, Below
  <2>2. ~(op[t].off > file_offset["data"][op[t].file])
    BY <1>2, <2>1
  <2>3. region["data"][op[t].file][op[t].off] = [key |-> k, val |-> store[k]]
    BY <1>2, <1>4 DEF ValueAt
  <2>4. region["data"][op[t].file][op[t].off] # Zeros
    BY <1>4, <2>3, MarksAssumption DEF DataRecords
  <2>5. QED
    BY <2>2, <2>3, <2>4 DEF ReadData
<1>6. Answer(t)
  <2>1. ASSUME NEW u \in clients, u # t,
               \/ \E k1 \in Keys, v \in Values : Set(u, k1, v)
               \/ \E k1 \in Keys : Get(u, k1)
               \/ SetStep(u) \/ GetStep(u)
        PROVE  pc'[t] = pc[t]
    BY <1>1, <2>1 DEF Set, Get, SetStep, GetStep, Reserve, Write, LoadEnd, StoreEnd, InsertNew,
       InsertOld, Overwrite, Copy, Answer, GetReturn, Return, Goto, LogInv, Typed
  <2>2. ASSUME \/ \E k1 \in Keys, v \in Values : Set(t, k1, v)
               \/ \E k1 \in Keys : Get(t, k1)
               \/ SetStep(t)
        PROVE  FALSE
    BY <1>1, <2>2 DEF Set, Get, SetStep, Reserve, Write, LoadEnd, StoreEnd, InsertNew, InsertOld, Overwrite
  <2>3. Copy(t) \/ GetReturn(t) => FALSE
    BY DEF Copy, GetReturn
  <2>4. Crash \/ Recover => FALSE
    <3>1. Crash => pc'[t] = "idle"
      BY DEF Crash
    <3>2. ~Recover
      BY <1>1 DEF Recover, IndexCallback, Recovered
    <3>3. QED
      BY <3>1, <3>2
  <2>5. vars' = vars => FALSE
    BY DEF vars
  <2>6. QED
    BY <2>1, <2>2, <2>3, <2>4, <2>5 DEF Next, GetStep
<1>7. \E v \in {store[k]} : reply' = [reply EXCEPT ![t] = v]
  BY <1>5, <1>6 DEF Answer
<1>8. QED
  BY <1>2, <1>7 DEF Replies

(* A Get whose copied Index is still its key's when it answers, and not    *)
(* half overwritten, answers with the value of the last Insert (skiplist.h *)
(* Get takes no lock).                                                     *)
THEOREM UndisturbedGetsAreCurrentAlways ==
  ASSUME CrashesAreSolo
  PROVE  Spec => UndisturbedGetsAreCurrent
<1>1. LogInv /\ Replies /\ [Next]_vars =>
        [\A t \in Threads :
           pc[t] = "read" /\ pc'[t] = "answered"
           /\ tables[op[t].key] = [file |-> op[t].file, off |-> op[t].off] /\ ~Locked(op[t].key)
             => reply'[t] = store[op[t].key]]_vars
  BY UndisturbedGet
<1>2. QED
  BY <1>1, SpecLogInv, RepliesAlways, PTL DEF Spec, UndisturbedGetsAreCurrent

(* Only the end of Recover makes the engine serve again, and then every    *)
(* key that had a value has one that was Set for it.                       *)
LEMMA RecoveryCompletes ==
  ASSUME LogInv, [Next]_vars, Recovering, pos' = Nothing, NEW k \in Keys
  PROVE  /\ store[k] # NotFound => store'[k] # NotFound
         /\ store'[k] # NotFound => <<k, store'[k]>> \in given
<1>1. Recovered
  <2>1. \A u \in clients : pc[u] = "idle"
    BY Resting DEF LogInv, Typed
  <2>2. ASSUME NEW u \in clients
        PROVE  /\ \A k1 \in Keys, v \in Values : ~Set(u, k1, v)
               /\ \A k1 \in Keys : ~Get(u, k1)
               /\ ~SetStep(u) /\ ~GetStep(u)
    BY <2>1 DEF Set, Get, SetStep, GetStep, Reserve, Write, LoadEnd, StoreEnd, InsertNew,
       InsertOld, Overwrite, Copy, Answer, GetReturn
  <2>3. ~Crash
    <3>1. Crash => pos' \in [Files -> Nat]
      BY DEF Crash
    <3>2. QED
      BY <3>1, MarksAssumption
  <2>4. ASSUME NEW f \in Files, IndexCallback(f)
        PROVE  FALSE
    <3>1. pos \in [Files -> Nat]
      BY DEF LogInv, Typed, Recovering
    <3>2. pos' \in [Files -> Nat]
      BY <2>4, <3>1 DEF IndexCallback, NextRecord
    <3>3. QED
      BY <3>2, MarksAssumption
  <2>5. vars' # vars
    BY DEF vars, Recovering
  <2>6. QED
    BY <2>2, <2>3, <2>4, <2>5 DEF Next, Recover
<1>2. QED
  BY <1>1, RecoveredFacts

(* After a crash every key whose Set had returned is found again, with a   *)
(* value that was Set for it, for any number of files, records, keys and   *)
(* crashes, with one client thread (NewFile, IndexCallback, Recover).      *)
THEOREM RestartKeepsEveryKeyAlways ==
  ASSUME CrashesAreSolo
  PROVE  Spec => RestartKeepsEveryKey
<1>1. LogInv /\ [Next]_vars =>
        [Recovering /\ pos' = Nothing =>
           \A k \in Keys :
             /\ store[k] # NotFound => store'[k] # NotFound
             /\ store'[k] # NotFound => <<k, store'[k]>> \in given]_vars
  BY RecoveryCompletes
<1>2. QED
  BY <1>1, SpecLogInv, PTL DEF Spec, RestartKeepsEveryKey
==============================================================================
