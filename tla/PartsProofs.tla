------------------------------ MODULE PartsProofs ------------------------------
(***************************************************************************)
(* Proofs about what stands beside the engines (Parts.tla): the table of   *)
(* yet_another_nvm_example, for any number of threads, keys and positions  *)
(* and any hash function; the two allocators, for any sizes and any number *)
(* of blocks; the judge of persistence, for any numbers of words and of    *)
(* writes; and the skip list of the paten engines, for any number of       *)
(* threads, keys, levels and Inserts.                                      *)
(***************************************************************************)
EXTENDS Parts, FiniteSetTheorems, SequenceTheorems, TLAPS

------------------------------------------------------------------------------
(* The table: its inductive invariant                                      *)

N == BUCKET_MAX
Positions == Table!Positions
Slots == {Table!Slot(p) : p \in Positions}

Occupied(p) == shared.bucket[p] # 0
Key(p) == shared.entry[shared.bucket[p]].key
Found(k, p) == Occupied(p) /\ Key(p) = k

(* The positions a search for k looks at before it comes to p. *)
Before(k, p) ==
  {q \in Positions : IF Hash[k] <= p THEN Hash[k] <= q /\ q < p ELSE Hash[k] <= q \/ q < p}

Outcomes == Nat \cup {Nothing, NotFound, Ok, OutOfMemory}
Calls == [op : {"idle", "lock", "probe", "fill"}, call : {"Get", "Set", Nothing},
          key : TableKeys \cup {Nothing}, value : Nat \cup {Nothing},
          hash : Positions, slot : Slots \cup {0}, i : 0..N,
          answer : [returned : Outcomes, current : Outcomes] \cup {Nothing}]

TableTyped ==
  /\ shared \in [bucket : [Positions -> 0..N], entry_cnt : 1..N + 1,
                 entry : [1..N -> [key : TableKeys \cup {Nothing}, value : Nat \cup {Nothing}]],
                 slot_mut : [Slots -> Threads \cup {Nothing}]]
  /\ thread \in [Threads -> Calls]
  /\ history \in [begun : Nat, latest : [TableKeys -> Nat \cup {NotFound}]]

(* The entries used are those below entry_cnt, each at one position; an    *)
(* entry is filled or a Set is about to fill it; a search for a key that   *)
(* has an entry comes to it, and it has the value stored last.             *)
EntriesInv ==
  /\ \A p \in Positions : shared.bucket[p] < shared.entry_cnt
  /\ \A p, q \in Positions : Occupied(p) /\ shared.bucket[p] = shared.bucket[q] => p = q
  /\ \A e \in 1..N : IF e < shared.entry_cnt THEN \E p \in Positions : shared.bucket[p] = e
                     ELSE shared.entry[e] = Table!Zeros
  /\ \A e \in 1..N : shared.entry[e].key = Nothing => shared.entry[e] = Table!Zeros
  /\ \A p \in Positions : Occupied(p) =>
       Key(p) \in TableKeys \/ \E t \in Threads : thread[t].op = "fill" /\ thread[t].hash = p
KeysInv ==
  /\ \A k \in TableKeys, p \in Positions : Found(k, p) =>
       /\ shared.entry[shared.bucket[p]].value = history.latest[k]
       /\ \A q \in Before(k, p) : Occupied(q)
       /\ \A q \in Positions : Found(k, q) => q = p
  /\ \A k \in TableKeys : history.latest[k] # NotFound => \E p \in Positions : Found(k, p)

(* The positions a call has left behind it: all, if it has gone round. *)
Passed(c) == IF c.i < N THEN Before(c.key, c.hash) ELSE Positions

(* A call has seen no entry of its key, and what it has seen is filled.    *)
CallInv(c) ==
  /\ c.answer # Nothing => c.answer.returned = c.answer.current
  /\ c.op # "idle" =>
       /\ c.key \in TableKeys /\ c.call \in {"Get", "Set"} /\ c.slot = Table!Slot(c.hash)
       /\ c.call = "Set" => c.value \in Nat
       /\ IF c.i = N THEN c.hash = Hash[c.key]
          ELSE c.i = IF Hash[c.key] <= c.hash THEN c.hash - Hash[c.key] ELSE c.hash + N - Hash[c.key]
       /\ \A q \in Passed(c) : Occupied(q) /\ Key(q) \in TableKeys /\ Key(q) # c.key

(* It holds the mutex of the stripe it is in.                              *)
Holding(t) == thread[t].op \in {"probe", "fill"} => shared.slot_mut[thread[t].slot] = t

(* A Set that has published an entry is alone with its key.                *)
FillInv(t) ==
  LET c == thread[t] IN
  c.op = "fill" =>
    /\ c.call = "Set" /\ c.i < N /\ Occupied(c.hash)
    /\ shared.entry[shared.bucket[c.hash]] = Table!Zeros
    /\ \A q \in Positions : ~Found(c.key, q)
    /\ \A u \in Threads : thread[u].op = "fill" /\ thread[u].key = c.key => u = t

TableInv ==
  /\ TableTyped /\ EntriesInv /\ KeysInv
  /\ \A t \in Threads : CallInv(thread[t]) /\ Holding(t) /\ FillInv(t)

USE DEF N, Positions

------------------------------------------------------------------------------
(* Searches                                                                *)

(* What stands for no key is none.                                         *)
LEMMA KeysAreSomething ==
  ASSUME NEW k \in TableKeys
  PROVE  k # Nothing
BY PartsAssumption

(* Where a search begins, and that any two positions come one after the    *)
(* other in it.                                                            *)
LEMMA InOrder ==
  ASSUME NEW k \in TableKeys, NEW p \in Positions, NEW q \in Positions
  PROVE  /\ Hash[k] \in Positions /\ Before(k, Hash[k]) = {}
         /\ p = q \/ p \in Before(k, q) \/ q \in Before(k, p)
<1>1. Hash[k] \in Positions /\ N \in Nat
  BY PartsAssumption DEF Table!Positions
<1>2. QED
  BY <1>1 DEF Table!Positions, Before

(* What a thread that has not found its key at the position it has locked  *)
(* knows: nobody is filling the entry there.                               *)
LEMMA SeenFilled ==
  ASSUME TableInv, NEW t \in Threads, thread[t].op = "probe", Occupied(thread[t].hash)
  PROVE  Key(thread[t].hash) \in TableKeys
<1> DEFINE c == thread[t]
<1>1. c.hash \in Positions /\ c.slot = Table!Slot(c.hash) /\ shared.slot_mut[c.slot] = t
  BY DEF TableInv, TableTyped, Calls, CallInv, Holding
<1>2. ASSUME NEW u \in Threads, thread[u].op = "fill", thread[u].hash = c.hash
      PROVE  FALSE
  <2>1. thread[u].slot = Table!Slot(c.hash) /\ shared.slot_mut[thread[u].slot] = u
    BY <1>2 DEF TableInv, CallInv, Holding
  <2>2. QED
    BY <1>1, <1>2, <2>1
<1>3. QED
  BY <1>1, <1>2 DEF TableInv, EntriesInv

(* A search that has come to its end has no entry to find.                 *)
LEMMA NotThere ==
  ASSUME TableInv, NEW t \in Threads, thread[t].op = "probe", ~Table!More(t)
  PROVE  /\ \A q \in Positions : ~Found(thread[t].key, q)
         /\ history.latest[thread[t].key] = NotFound
<1> DEFINE c == thread[t]
<1>1. /\ c.hash \in Positions /\ c.i \in 0..N /\ c.key \in TableKeys
      /\ \A q \in Passed(c) : Occupied(q) /\ Key(q) \in TableKeys /\ Key(q) # c.key
  BY DEF TableInv, TableTyped, Calls, CallInv
<1>2. ASSUME NEW q \in Positions
      PROVE  ~Found(c.key, q)
  <2>1. CASE c.i = N
    BY <1>1, <2>1, PartsAssumption DEF Passed, Found
  <2>2. CASE c.i # N
    <3>1. c.i < N /\ ~Occupied(c.hash)
      BY <1>1, <2>2, PartsAssumption DEF Table!More, Occupied
    <3>2. q = c.hash \/ q \in Before(c.key, c.hash) \/ c.hash \in Before(c.key, q)
      BY <1>1, InOrder
    <3>3. c.hash \in Before(c.key, q) => ~Found(c.key, q)
      BY <1>1, <3>1 DEF TableInv, KeysInv
    <3>4. QED
      BY <1>1, <3>1, <3>2, <3>3 DEF Passed, Found
  <2>3. QED
    BY <2>1, <2>2
<1>3. QED
  BY <1>1, <1>2 DEF TableInv, KeysInv

------------------------------------------------------------------------------
(* Each step keeps the invariant                                           *)

(* A call moves on and leaves the table as it is.                          *)
LEMMA TableStays ==
  ASSUME TableInv, NEW t \in Threads, NEW c \in Calls,
         thread' = [thread EXCEPT ![t] = c], thread[t].op # "fill", c.op # "fill",
         shared'.bucket = shared.bucket, shared'.entry = shared.entry,
         shared'.entry_cnt = shared.entry_cnt, history'.latest = history.latest,
         TableTyped', CallInv(c),
         c.op = "probe" => shared'.slot_mut[c.slot] = t,
         \A u \in Threads : u # t /\ thread[u].op \in {"probe", "fill"} =>
           shared'.slot_mut[thread[u].slot] = u
  PROVE  TableInv'
<1>1. thread'[t] = c /\ \A u \in Threads : u # t => thread'[u] = thread[u]
  BY DEF TableInv, TableTyped
<1>2. \A u \in Threads : /\ thread'[u].op = "fill" <=> thread[u].op = "fill"
                         /\ thread[u].op = "fill" => thread'[u] = thread[u]
  BY <1>1
<1>3. EntriesInv'
  BY <1>2 DEF TableInv, EntriesInv, Occupied, Key
<1>4. KeysInv'
  BY DEF TableInv, KeysInv, Found, Occupied, Key
<1>5. ASSUME NEW d, CallInv(d)
      PROVE  CallInv(d)'
  BY <1>5 DEF CallInv, Occupied, Key
<1>6. ASSUME NEW u \in Threads
      PROVE  CallInv(thread[u])' /\ Holding(u)' /\ FillInv(u)'
  <2>1. CallInv(thread[u])'
    <3>1. PICK d : d = thread'[u]
      OBVIOUS
    <3>2. CallInv(d)
      BY <1>1, <3>1 DEF TableInv
    <3>3. QED
      BY <1>5, <3>1, <3>2 DEF CallInv
  <2>2. Holding(u)'
    BY <1>1 DEF Holding
  <2>3. FillInv(u)'
    BY <1>2 DEF TableInv, FillInv, Found, Occupied, Key
  <2>4. QED
    BY <2>1, <2>2, <2>3
<1>7. QED
  BY <1>3, <1>4, <1>6 DEF TableInv

(* A call, or none, and the type of what it is left with.                  *)
LEMMA CallFields ==
  ASSUME TableInv, NEW t \in Threads
  PROVE  LET c == thread[t] IN
         /\ c \in Calls /\ Table!Idle \in Calls
         /\ c.op \in {"idle", "lock", "probe", "fill"} /\ c.call \in {"Get", "Set", Nothing}
         /\ c.key \in TableKeys \cup {Nothing} /\ c.value \in Nat \cup {Nothing}
         /\ c.hash \in Positions /\ c.slot \in Slots \cup {0} /\ c.i \in 0..N
         /\ N \in Nat \ {0} /\ c.hash \in 0..N - 1
         /\ c.op # "idle" => /\ c.key \in TableKeys /\ c.call \in {"Get", "Set"}
                             /\ c.slot = Table!Slot(c.hash) /\ c.slot \in Slots
<1>1. N \in Nat \ {0} /\ 0 \in Positions
  BY PartsAssumption DEF Table!Positions
<1>2. Table!Idle \in Calls
  BY <1>1 DEF Calls, Table!Idle
<1>3. thread[t] \in Calls
  BY DEF TableInv, TableTyped
<1>4. QED
  BY <1>1, <1>2, <1>3 DEF TableInv, CallInv, Calls, Slots, Table!Positions

(* The types of the table's fields.                                        *)
LEMMA TableFields ==
  ASSUME TableInv
  PROVE  /\ shared.bucket \in [Positions -> 0..N] /\ shared.entry_cnt \in 1..N + 1
         /\ shared.entry \in [1..N -> [key : TableKeys \cup {Nothing}, value : Nat \cup {Nothing}]]
         /\ shared.slot_mut \in [Slots -> Threads \cup {Nothing}]
         /\ history.begun \in Nat /\ history.latest \in [TableKeys -> Nat \cup {NotFound}]
         /\ N \in Nat \ {0} /\ Nothing \notin Threads
BY PartsAssumption DEF TableInv, TableTyped

(* What a mutex that is taken or given back leaves as it was.              *)
LEMMA MutexTyped ==
  ASSUME TableInv, NEW s \in Slots, NEW o \in Threads \cup {Nothing}, NEW t \in Threads, NEW c \in Calls,
         shared' = [shared EXCEPT !.slot_mut[s] = o],
         thread' = [thread EXCEPT ![t] = c], history' = history
  PROVE  /\ TableTyped'
         /\ shared'.bucket = shared.bucket /\ shared'.entry = shared.entry
         /\ shared'.entry_cnt = shared.entry_cnt
         /\ shared'.slot_mut[s] = o
         /\ \A r \in Slots : r # s => shared'.slot_mut[r] = shared.slot_mut[r]
BY DEF TableInv, TableTyped

(* A thread that is in no call.                                            *)
LEMMA IdleFields ==
  Table!Idle \in [op : {"idle"}, call : {Nothing}, key : {Nothing}, value : {Nothing},
                  hash : {0}, slot : {0}, i : {0}, answer : {Nothing}]
BY DEF Table!Idle

(* A call that has begun.                                                  *)
LEMMA StartKeeps ==
  ASSUME TableInv, NEW t \in Threads, NEW k \in TableKeys, NEW call \in {"Get", "Set"},
         NEW v \in Nat \cup {Nothing}, call = "Set" => v \in Nat,
         Table!Start(t, call, k, v), history' \in [begun : Nat, latest : {history.latest}]
  PROVE  TableInv'
<1>1. /\ thread[t].op = "idle" /\ shared' = shared
      /\ thread' = [thread EXCEPT ![t] = [Table!Idle EXCEPT !.op = "lock", !.call = call, !.key = k,
                      !.value = v, !.hash = Hash[k], !.slot = Table!Slot(Hash[k])]]
  BY DEF Table!Start, Table!Does, Table!Goes
<1>2. Hash[k] \in Positions /\ Table!Slot(Hash[k]) \in Slots /\ N \in Nat \ {0} /\ Hash[k] \in 0..N - 1
  BY PartsAssumption DEF Table!Positions, Slots
<1>3. PICK c : c = [Table!Idle EXCEPT !.op = "lock", !.call = call, !.key = k, !.value = v,
                                      !.hash = Hash[k], !.slot = Table!Slot(Hash[k])]
  OBVIOUS
<1>4. c \in [op : {"lock"}, call : {call}, key : {k}, value : {v}, hash : {Hash[k]},
              slot : {Table!Slot(Hash[k])}, i : {0}, answer : {Nothing}]
  BY <1>3, IdleFields
<1>5. /\ c.op = "lock" /\ c.call = call /\ c.key = k /\ c.value = v /\ c.hash = Hash[k]
       /\ c.slot = Table!Slot(Hash[k]) /\ c.i = 0 /\ c.answer = Nothing
  BY <1>4
<1>6. thread' = [thread EXCEPT ![t] = c]
  BY <1>1, <1>3
<1>7. c \in Calls
  BY <1>2, <1>4 DEF Calls
<1>8. CallInv(c)
  <2>1. Passed(c) = {}
    <3>1. Before(k, Hash[k]) = {} /\ 0 < N
      BY <1>2, InOrder
    <3>2. QED
      BY <1>5, <3>1 DEF Passed
  <2>2. c.i # N /\ c.i = c.hash - Hash[c.key] /\ Hash[c.key] <= c.hash
    BY <1>2, <1>5
  <2>3. QED
    BY <1>5, <2>1, <2>2 DEF CallInv
<1>9. TableTyped'
  BY <1>1, <1>6, <1>7 DEF TableInv, TableTyped
<1>10. \A u \in Threads : u # t /\ thread[u].op \in {"probe", "fill"} => shared'.slot_mut[thread[u].slot] = u
  BY <1>1 DEF TableInv, Holding
<1>11. history'.latest = history.latest
  OBVIOUS
<1>12. QED
  BY <1>1, <1>5, <1>6, <1>7, <1>8, <1>9, <1>10, <1>11, TableStays

(* A thread enters a stripe that nobody is in.                             *)
LEMMA LockKeeps ==
  ASSUME TableInv, NEW t \in Threads, Table!Lock(t)
  PROVE  TableInv'
<1> DEFINE d == thread[t]
<1>1. /\ d.op = "lock" /\ history' = history
      /\ shared.slot_mut[d.slot] = Nothing
      /\ shared' = [shared EXCEPT !.slot_mut[d.slot] = t]
      /\ thread' = [thread EXCEPT ![t] = [d EXCEPT !.op = "probe"]]
  BY DEF Table!Lock, Table!Lock_NoWait, Table!Does, Table!Goes
<1>2. PICK c \in Calls : /\ c = [d EXCEPT !.op = "probe"]
                         /\ c.op = "probe" /\ c.call = d.call /\ c.key = d.key /\ c.value = d.value
                         /\ c.hash = d.hash /\ c.slot = d.slot /\ c.i = d.i /\ c.answer = d.answer
  <2>1. d \in Calls
    BY CallFields
  <2>2. PICK c : c = [d EXCEPT !.op = "probe"]
    OBVIOUS
  <2>3. c \in Calls
    BY <2>1, <2>2 DEF Calls
  <2>4. /\ c.op = "probe" /\ c.call = d.call /\ c.key = d.key /\ c.value = d.value
        /\ c.hash = d.hash /\ c.slot = d.slot /\ c.i = d.i /\ c.answer = d.answer
    BY <2>1, <2>2 DEF Calls
  <2>5. QED
    BY <2>2, <2>3, <2>4
<1>3. d.slot \in Slots
  BY <1>1, CallFields
<1>4. /\ TableTyped'
      /\ shared'.bucket = shared.bucket /\ shared'.entry = shared.entry
      /\ shared'.entry_cnt = shared.entry_cnt
      /\ shared'.slot_mut[d.slot] = t
      /\ \A r \in Slots : r # d.slot => shared'.slot_mut[r] = shared.slot_mut[r]
  BY <1>1, <1>2, <1>3, MutexTyped
<1>5. CallInv(c)
  <2>1. CallInv(d)
    BY DEF TableInv
  <2>2. Passed(c) = Passed(d)
    BY <1>2 DEF Passed
  <2>3. QED
    BY <1>1, <1>2, <2>1, <2>2 DEF CallInv
<1>6. ASSUME NEW u \in Threads, thread[u].op \in {"probe", "fill"}
      PROVE  shared'.slot_mut[thread[u].slot] = u
  <2>1. shared.slot_mut[thread[u].slot] = u /\ thread[u].slot \in Slots
    BY <1>6, CallFields DEF TableInv, Holding
  <2>2. thread[u].slot # d.slot
    BY <1>1, <2>1, TableFields
  <2>3. QED
    BY <1>4, <2>1, <2>2
<1>7. QED
  BY <1>1, <1>2, <1>4, <1>5, <1>6, TableStays

(* A call that leaves a stripe: nobody else holds its mutex.               *)
LEMMA LeaveKeeps ==
  ASSUME TableInv, NEW t \in Threads, thread[t].op = "probe", NEW c \in Calls, CallInv(c),
         c.op \in {"idle", "lock"}, thread' = [thread EXCEPT ![t] = c],
         shared' = Table!Unlocked(thread[t].slot), history' = history
  PROVE  TableInv'
<1> DEFINE d == thread[t]
<1>1. d.slot \in Slots
  BY CallFields
<1>2. shared' = [shared EXCEPT !.slot_mut[d.slot] = Nothing]
  BY DEF Table!Unlocked
<1>3. /\ TableTyped'
      /\ shared'.bucket = shared.bucket /\ shared'.entry = shared.entry
      /\ shared'.entry_cnt = shared.entry_cnt
      /\ \A r \in Slots : r # d.slot => shared'.slot_mut[r] = shared.slot_mut[r]
  BY <1>1, <1>2, MutexTyped
<1>4. ASSUME NEW u \in Threads, u # t, thread[u].op \in {"probe", "fill"}
      PROVE  shared'.slot_mut[thread[u].slot] = u
  <2>1. shared.slot_mut[thread[u].slot] = u /\ thread[u].slot \in Slots /\ shared.slot_mut[d.slot] = t
    BY <1>4, CallFields DEF TableInv, Holding
  <2>2. QED
    BY <1>3, <1>4, <2>1
<1>5. QED
  BY <1>3, <1>4, TableStays

(* What a call that returns leaves its thread with.                        *)
LEMMA Returned ==
  ASSUME TableInv, NEW t \in Threads, NEW r \in Outcomes, Table!Returns(t, r, r)
  PROVE  \E c \in Calls : /\ thread' = [thread EXCEPT ![t] = c] /\ c.op = "idle"
                          /\ c.answer # Nothing => c.answer.returned = c.answer.current
<1> DEFINE a == [returned |-> r, current |-> r]
<1>1. PICK c : c = [Table!Idle EXCEPT !.answer = a]
  OBVIOUS
<1>2. c \in [op : {"idle"}, call : {Nothing}, key : {Nothing}, value : {Nothing},
             hash : {0}, slot : {0}, i : {0}, answer : {a}]
  BY <1>1, IdleFields
<1>3. c.op = "idle" /\ c.answer = a /\ a.returned = a.current
  BY <1>2
<1>4. thread' = [thread EXCEPT ![t] = c]
  BY <1>1 DEF Table!Returns, Table!Goes
<1>5. 0 \in Positions /\ 0 \in 0..N
  BY PartsAssumption DEF Table!Positions
<1>6. a \in [returned : Outcomes, current : Outcomes]
  OBVIOUS
<1>7. c \in Calls
  BY <1>2, <1>5, <1>6 DEF Calls
<1>8. QED
  BY <1>3, <1>4, <1>7

(* A call that returns at its last position.                               *)
LEMMA ReturnKeeps ==
  ASSUME TableInv, NEW t \in Threads, thread[t].op = "probe", NEW r \in Outcomes,
         Table!Returns(t, r, r), shared' = Table!Unlocked(thread[t].slot), history' = history
  PROVE  TableInv'
<1>1. PICK c \in Calls : /\ thread' = [thread EXCEPT ![t] = c] /\ c.op = "idle"
                         /\ c.answer # Nothing => c.answer.returned = c.answer.current
  BY Returned
<1>2. CallInv(c)
  BY <1>1 DEF CallInv
<1>3. QED
  BY <1>1, <1>2, LeaveKeeps

(* What a Get that finds an entry answers with was stored last.            *)
LEMMA GetHitKeeps ==
  ASSUME TableInv, NEW t \in Threads, Table!GetHit(t)
  PROVE  TableInv'
<1> DEFINE d == thread[t]
<1>1. /\ d.op = "probe" /\ history' = history /\ shared' = Table!Unlocked(d.slot)
      /\ Table!Returns(t, shared.entry[shared.bucket[d.hash]].value, history.latest[d.key])
      /\ Found(d.key, d.hash)
  BY DEF Table!GetHit, Table!Does, Table!Hit, Table!More, Table!EntryAt, Table!Latest, Found, Occupied, Key
<1>2. shared.entry[shared.bucket[d.hash]].value = history.latest[d.key]
  BY <1>1, CallFields, SMTT(30) DEF TableInv, KeysInv
<1>3. history.latest[d.key] \in Outcomes
  BY <1>1, CallFields, TableFields DEF Outcomes
<1>4. QED
  BY <1>1, <1>2, <1>3, ReturnKeeps

(* A Get that finds nothing: no Set of its key has stored.                 *)
LEMMA GetMissKeeps ==
  ASSUME TableInv, NEW t \in Threads, Table!GetMiss(t)
  PROVE  TableInv'
<1>1. /\ thread[t].op = "probe" /\ history' = history /\ shared' = Table!Unlocked(thread[t].slot)
      /\ Table!Returns(t, NotFound, history.latest[thread[t].key]) /\ ~Table!More(t)
  BY DEF Table!GetMiss, Table!Does, Table!Latest
<1>2. history.latest[thread[t].key] = NotFound
  BY <1>1, NotThere
<1>3. QED
  BY <1>1, <1>2, ReturnKeeps DEF Outcomes

(* A Set that has gone round: the table is full and its key not in it.     *)
LEMMA SetFullKeeps ==
  ASSUME TableInv, NEW t \in Threads, Table!SetFull(t)
  PROVE  TableInv'
<1> DEFINE d == thread[t]
<1>1. /\ d.op = "probe" /\ d.i = N /\ history' = history /\ shared' = Table!Unlocked(d.slot)
      /\ Table!Returns(t, OutOfMemory,
           IF Table!Full /\ history.latest[d.key] = NotFound THEN OutOfMemory ELSE Ok)
  BY DEF Table!SetFull, Table!Does, Table!Latest
<1>2. ~Table!More(t)
  BY <1>1, PartsAssumption DEF Table!More
<1>3. history.latest[d.key] = NotFound
  BY <1>1, <1>2, NotThere
<1>4. Table!Full
  <2>1. Passed(d) = Positions
    BY <1>1, PartsAssumption DEF Passed
  <2>2. \A q \in Passed(d) : Occupied(q)
    BY <1>1 DEF TableInv, CallInv
  <2>3. QED
    BY <2>1, <2>2 DEF Table!Full, Occupied
<1>5. QED
  BY <1>1, <1>3, <1>4, ReturnKeeps DEF Outcomes

(* A Set that finds the entry of its key stores in it.                     *)
LEMMA SetHitKeeps ==
  ASSUME TableInv, NEW t \in Threads, Table!SetHit(t)
  PROVE  TableInv'
<1> DEFINE d == thread[t]
           p == d.hash
           e == shared.bucket[p]
<1>1. /\ d.op = "probe" /\ d.call = "Set" /\ Found(d.key, p)
      /\ shared' = [Table!Unlocked(d.slot) EXCEPT !.entry[e].value = d.value]
      /\ history' = [history EXCEPT !.latest[d.key] = d.value]
      /\ Table!Returns(t, Ok, Ok)
  BY DEF Table!SetHit, Table!Does, Table!Hit, Table!More, Table!EntryAt, Table!Stores, Found, Occupied, Key
<1>2. /\ d.key \in TableKeys /\ p \in Positions /\ d.slot \in Slots /\ d.value \in Nat
      /\ d.key # Nothing /\ shared.slot_mut[d.slot] = t
  <2>1. /\ d.key \in TableKeys /\ p \in Positions /\ d.slot \in Slots
    BY <1>1, CallFields
  <2>2. d.value \in Nat /\ shared.slot_mut[d.slot] = t
    BY <1>1 DEF TableInv, CallInv, Holding
  <2>3. QED
    BY <2>1, <2>2, KeysAreSomething
<1>3. e \in 1..N /\ shared.entry[e].key = d.key
  <2>1. e \in 0..N /\ e # 0 /\ N \in Nat
    BY <1>1, <1>2, TableFields DEF Found, Occupied
  <2>2. e \in 1..N
    BY <2>1
  <2>3. shared.entry[e].key = d.key
    BY <1>1 DEF Found, Key
  <2>4. QED
    BY <2>2, <2>3
<1>4. PICK c \in Calls : /\ thread' = [thread EXCEPT ![t] = c] /\ c.op = "idle"
                         /\ c.answer # Nothing => c.answer.returned = c.answer.current
  BY <1>1, Returned DEF Outcomes
<1>5. /\ thread'[t] = c /\ \A u \in Threads : u # t => thread'[u] = thread[u]
      /\ thread' \in [Threads -> Calls]
  BY <1>4 DEF TableInv, TableTyped
<1>6. /\ shared'.bucket = shared.bucket /\ shared'.entry_cnt = shared.entry_cnt
      /\ shared'.slot_mut = [shared.slot_mut EXCEPT ![d.slot] = Nothing]
      /\ shared'.entry = [shared.entry EXCEPT ![e].value = d.value]
      /\ shared' \in [bucket : {shared'.bucket}, entry_cnt : {shared'.entry_cnt},
                      slot_mut : {shared'.slot_mut}, entry : {shared'.entry}]
  BY <1>1 DEF Table!Unlocked, TableInv, TableTyped
<1>7. /\ \A f \in 1..N : /\ shared'.entry[f].key = shared.entry[f].key
                         /\ f # e => shared'.entry[f] = shared.entry[f]
      /\ shared'.entry[e].value = d.value
      /\ shared'.entry \in [1..N -> [key : TableKeys \cup {Nothing}, value : Nat \cup {Nothing}]]
  <2>1. PICK E, F, r :
          /\ E = shared.entry /\ F = shared'.entry /\ r = [E[e] EXCEPT !.value = d.value]
          /\ F = [E EXCEPT ![e] = r]
    BY <1>6
  <2>2. E \in [1..N -> [key : TableKeys \cup {Nothing}, value : Nat \cup {Nothing}]]
    BY <2>1, TableFields
  <2>3. PICK o, v : o = E[e] /\ v = d.value /\ r = [o EXCEPT !.value = v]
    BY <2>1
  <2>4. o \in [key : TableKeys \cup {Nothing}, value : Nat \cup {Nothing}] /\ v \in Nat
    BY <1>2, <1>3, <2>2, <2>3
  <2>5. /\ r \in [key : TableKeys \cup {Nothing}, value : Nat \cup {Nothing}]
        /\ r.key = o.key /\ r.value = v
    BY <2>3, <2>4
  <2>6. PICK i : i = e
    OBVIOUS
  <2>7. F = [E EXCEPT ![i] = r] /\ i \in 1..N
    BY <1>3, <2>1, <2>6
  <2>8. /\ F \in [1..N -> [key : TableKeys \cup {Nothing}, value : Nat \cup {Nothing}]]
        /\ F[i] = r /\ \A f \in 1..N : f # i => F[f] = E[f]
    BY <2>2, <2>5, <2>7
  <2>9. \A f \in 1..N : F[f].key = E[f].key
    BY <2>3, <2>5, <2>6, <2>8
  <2>10. QED
    BY <2>1, <2>3, <2>5, <2>6, <2>8, <2>9
<1>8. /\ history'.latest[d.key] = d.value
      /\ \A k \in TableKeys : k # d.key => history'.latest[k] = history.latest[k]
      /\ history' \in [begun : Nat, latest : [TableKeys -> Nat \cup {NotFound}]]
  BY <1>1, <1>2 DEF TableInv, TableTyped
<1>9. TableTyped'
  <2>1. shared'.slot_mut \in [Slots -> Threads \cup {Nothing}]
    BY <1>2, <1>6, TableFields
  <2>2. QED
    BY <1>5, <1>6, <1>7, <1>8, <2>1, TableFields DEF TableTyped
<1>10. \A q \in Positions : /\ Occupied(q)' <=> Occupied(q)
                            /\ Occupied(q) => Key(q)' = Key(q) /\ shared.bucket[q] \in 1..N
  <2>1. ASSUME NEW q \in Positions, shared.bucket[q] # 0
        PROVE  shared.bucket[q] \in 1..N
    BY <2>1, TableFields
  <2>2. QED
    BY <1>6, <1>7, <2>1 DEF Occupied, Key
<1>11. EntriesInv'
  <2>1. \A f \in 1..N : f >= shared.entry_cnt => shared.entry[f] = Table!Zeros
    BY TableFields DEF TableInv, EntriesInv
  <2>2. e < shared.entry_cnt
    BY <1>2 DEF TableInv, EntriesInv
  <2>3. \A f \in 1..N : IF f < shared.entry_cnt THEN \E q \in Positions : shared.bucket[q] = f
                        ELSE shared'.entry[f] = Table!Zeros
    BY <1>7, <2>2 DEF TableInv, EntriesInv
  <2>4. \A f \in 1..N : shared'.entry[f].key = Nothing => shared'.entry[f] = Table!Zeros
    BY <1>2, <1>3, <1>7 DEF TableInv, EntriesInv
  <2>5. \A q \in Positions : Occupied(q)' =>
          Key(q)' \in TableKeys \/ \E u \in Threads : thread'[u].op = "fill" /\ thread'[u].hash = q
    <3>1. \A u \in Threads : thread[u].op = "fill" => thread'[u] = thread[u]
      BY <1>1, <1>5
    <3>2. QED
      BY <1>10, <3>1, SMTT(30) DEF TableInv, EntriesInv
  <2>6. /\ \A q \in Positions : shared.bucket[q] < shared.entry_cnt
        /\ \A q, r \in Positions : Occupied(q)' /\ shared.bucket[q] = shared.bucket[r] => q = r
    BY <1>10 DEF TableInv, EntriesInv
  <2>7. QED
    BY <1>6, <2>3, <2>4, <2>5, <2>6 DEF EntriesInv
<1>12. \A k \in TableKeys, q \in Positions : Found(k, q)' <=> Found(k, q)
  BY <1>10 DEF Found
<1>13. KeysInv'
  <2>1. ASSUME NEW k \in TableKeys, NEW q \in Positions, Found(k, q)
        PROVE  shared'.entry[shared'.bucket[q]].value = history'.latest[k]
    <3>1. CASE k = d.key
      <4>1. q = p
        BY <1>1, <1>2, <2>1, <3>1 DEF TableInv, KeysInv
      <4>2. QED
        BY <1>6, <1>7, <1>8, <3>1, <4>1
    <3>2. CASE k # d.key
      <4>1. shared.bucket[q] \in 1..N /\ shared.bucket[q] # e
        BY <1>3, <1>10, <2>1, <3>2 DEF Found, Key
      <4>2. shared.entry[shared.bucket[q]].value = history.latest[k]
        BY <2>1 DEF TableInv, KeysInv
      <4>3. QED
        BY <1>6, <1>7, <1>8, <3>2, <4>1, <4>2, ZenonT(40)
    <3>3. QED
      BY <3>1, <3>2
  <2>2. \A k \in TableKeys, q \in Positions : Found(k, q) =>
           /\ \A r \in Before(k, q) : Occupied(r)'
           /\ \A r \in Positions : Found(k, r) => r = q
    BY <1>10 DEF TableInv, KeysInv, Before
  <2>3. \A k \in TableKeys : history'.latest[k] # NotFound => \E q \in Positions : Found(k, q)
    <3>1. ASSUME NEW k \in TableKeys, k # d.key, history'.latest[k] # NotFound
          PROVE  \E q \in Positions : Found(k, q)
      BY <1>8, <3>1 DEF TableInv, KeysInv
    <3>2. QED
      BY <1>1, <1>2, <3>1
  <2>4. QED
    BY <1>12, <2>1, <2>2, <2>3 DEF KeysInv
<1>14. ASSUME NEW u \in Threads
       PROVE  CallInv(thread[u])' /\ Holding(u)' /\ FillInv(u)'
  <2>1. CASE u = t
    BY <1>4, <1>5, <2>1 DEF CallInv, Holding, FillInv
  <2>2. CASE u # t
    <3>1. thread'[u] = thread[u] /\ thread[u] \in Calls
      BY <1>5, <2>2, CallFields
    <3>2. CallInv(thread[u])'
      <4>1. \A q \in Positions : Occupied(q) => Occupied(q)' /\ Key(q)' = Key(q)
        BY <1>10
      <4>2. \A q \in Passed(thread[u]) : q \in Positions
        BY DEF Passed, Before
      <4>3. PICK b : b = thread[u] /\ b = thread'[u]
        BY <3>1
      <4>4. CallInv(b)
        BY <4>3 DEF TableInv
      <4>5. CallInv(b)'
        BY <4>1, <4>2, <4>3, <4>4 DEF CallInv
      <4>6. QED
        BY <4>3, <4>5 DEF CallInv
    <3>3. Holding(u)'
      <4>1. thread[u].op \in {"probe", "fill"} => thread[u].slot \in Slots /\ thread[u].slot # d.slot
        BY <1>2, <2>2, CallFields DEF TableInv, Holding
      <4>2. QED
        BY <1>2, <1>6, <3>1, <4>1, TableFields, SMTT(45) DEF TableInv, Holding
    <3>4. FillInv(u)'
      <4>1. ASSUME thread[u].op = "fill"
            PROVE  /\ shared.bucket[thread[u].hash] \in 1..N
                   /\ shared.bucket[thread[u].hash] # e
                   /\ thread[u].key \in TableKeys /\ thread[u].hash \in Positions
        <5>1. /\ thread[u].hash \in Positions /\ thread[u].key \in TableKeys /\ Occupied(thread[u].hash)
              /\ shared.entry[shared.bucket[thread[u].hash]] = Table!Zeros
          BY <4>1, CallFields DEF TableInv, FillInv
        <5>2. QED
          BY <1>2, <1>3, <1>10, <5>1 DEF Table!Zeros
      <4>2. PICK b : b = thread[u] /\ b = thread'[u]
        BY <3>1
      <4>3. ASSUME b.op = "fill"
            PROVE  /\ b.call = "Set" /\ b.i < N /\ Occupied(b.hash)
                   /\ shared.entry[shared.bucket[b.hash]] = Table!Zeros
                   /\ \A q \in Positions : ~Found(b.key, q)
                   /\ \A w \in Threads : thread[w].op = "fill" /\ thread[w].key = b.key => w = u
        BY <4>2, <4>3 DEF TableInv, FillInv
      <4>4. \A w \in Threads : thread'[w].op = "fill" /\ thread'[w].key = b.key => (b.op = "fill" => w = u)
        BY <1>4, <1>5, <4>3
      <4>5. ASSUME b.op = "fill"
            PROVE  /\ shared'.entry[shared'.bucket[b.hash]] = Table!Zeros /\ Occupied(b.hash)'
                   /\ \A q \in Positions : ~Found(b.key, q)'
        BY <1>6, <1>7, <1>10, <1>12, <4>1, <4>2, <4>3, <4>5
      <4>6. QED
        BY <4>2, <4>3, <4>4, <4>5 DEF FillInv
    <3>5. QED
      BY <3>2, <3>3, <3>4
  <2>3. QED
    BY <2>1, <2>2
<1>15. QED
  BY <1>9, <1>11, <1>13, <1>14 DEF TableInv

(* The position after p in the order from h, and those that come before.   *)
LEMMA NextInOrder ==
  ASSUME NEW n \in Nat \ {0}, NEW h \in 0..n - 1, NEW p \in 0..n - 1, NEW i \in Nat, NEW next \in 0..n - 1,
         i = IF h <= p THEN p - h ELSE p + n - h, next = IF p + 1 < n THEN p + 1 ELSE 0, i < n
  PROVE  /\ IF i + 1 = n THEN next = h
            ELSE i + 1 = IF h <= next THEN next - h ELSE next + n - h
         /\ \A q \in 0..n - 1 :
              (i + 1 < n => IF h <= next THEN h <= q /\ q < next ELSE h <= q \/ q < next) =>
              (IF h <= p THEN h <= q /\ q < p ELSE h <= q \/ q < p) \/ q = p
<1>1. CASE p + 1 < n
  BY <1>1
<1>2. CASE p + 1 = n
  BY <1>2
<1>3. QED
  BY <1>1, <1>2

(* A search goes on: it has looked at its position too.                    *)
LEMMA AdvanceKeeps ==
  ASSUME TableInv, NEW t \in Threads, Table!Advance(t)
  PROVE  TableInv'
<1> DEFINE d == thread[t]
           p == d.hash
           next == (p + 1) % N
           crosses == Table!Slot(next) # d.slot
<1>1. /\ d.op = "probe" /\ d.i < N /\ Occupied(p) /\ Key(p) # d.key /\ history' = history
      /\ shared' = IF crosses THEN Table!Unlocked(d.slot) ELSE shared
      /\ thread' = [thread EXCEPT ![t] = [d EXCEPT !.hash = next, !.slot = Table!Slot(next),
                      !.i = @ + 1, !.op = IF crosses THEN "lock" ELSE "probe"]]
  BY DEF Table!Advance, Table!Does, Table!Goes, Table!Hit, Table!More, Table!EntryAt, Occupied, Key
<1>2. /\ d \in Calls /\ p \in 0..N - 1 /\ d.i \in Nat /\ N \in Nat \ {0} /\ d.key \in TableKeys
      /\ Hash[d.key] \in 0..N - 1 /\ d.slot \in Slots
  BY <1>1, CallFields, PartsAssumption
<1>3. /\ next = IF p + 1 < N THEN p + 1 ELSE 0
      /\ next \in 0..N - 1 /\ next \in Positions /\ Table!Slot(next) \in Slots
  <2>1. next = IF p + 1 < N THEN p + 1 ELSE 0
    BY <1>2
  <2>2. QED
    BY <1>2, <2>1 DEF Table!Positions, Slots
<1>4. PICK c \in Calls :
        /\ thread' = [thread EXCEPT ![t] = c]
        /\ c.op = (IF crosses THEN "lock" ELSE "probe") /\ c.call = d.call /\ c.key = d.key
        /\ c.value = d.value /\ c.hash = next /\ c.slot = Table!Slot(next) /\ c.i = d.i + 1
        /\ c.answer = d.answer
  <2>1. PICK c : c = [d EXCEPT !.hash = next, !.slot = Table!Slot(next), !.i = @ + 1,
                              !.op = IF crosses THEN "lock" ELSE "probe"]
    OBVIOUS
  <2>2. d.i + 1 \in 0..N
    BY <1>1, <1>2
  <2>3. c \in Calls
    BY <1>2, <1>3, <2>1, <2>2 DEF Calls
  <2>4. /\ c.op = (IF crosses THEN "lock" ELSE "probe") /\ c.call = d.call /\ c.key = d.key
        /\ c.value = d.value /\ c.hash = next /\ c.slot = Table!Slot(next) /\ c.i = d.i + 1
        /\ c.answer = d.answer
    BY <1>2, <2>1 DEF Calls
  <2>5. QED
    BY <1>1, <2>1, <2>3, <2>4
<1>5. CallInv(c)
  <2>1. /\ CallInv(d) /\ d.i = IF Hash[d.key] <= p THEN p - Hash[d.key] ELSE p + N - Hash[d.key]
        /\ \A q \in Before(d.key, p) : Occupied(q) /\ Key(q) \in TableKeys /\ Key(q) # d.key
    <3>1. CallInv(d)
      BY DEF TableInv
    <3>2. d.op # "idle" /\ d.i # N
      BY <1>1, <1>2
    <3>3. Passed(d) = Before(d.key, p)
      BY <1>1 DEF Passed
    <3>4. QED
      BY <3>1, <3>2, <3>3 DEF CallInv
  <2>2. Key(p) \in TableKeys
    BY <1>1, SeenFilled
  <2>3. IF c.i = N THEN c.hash = Hash[c.key]
        ELSE c.i = IF Hash[c.key] <= c.hash THEN c.hash - Hash[c.key] ELSE c.hash + N - Hash[c.key]
    <3>1. PICK n, h, x, i, y : n = N /\ h = Hash[d.key] /\ x = p /\ i = d.i /\ y = next
      OBVIOUS
    <3>2. /\ n \in Nat \ {0} /\ h \in 0..n - 1 /\ x \in 0..n - 1 /\ i \in Nat /\ y \in 0..n - 1
          /\ i = (IF h <= x THEN x - h ELSE x + n - h) /\ y = (IF x + 1 < n THEN x + 1 ELSE 0) /\ i < n
      BY <1>1, <1>2, <1>3, <2>1, <3>1
    <3>3. IF i + 1 = n THEN y = h
          ELSE i + 1 = IF h <= y THEN y - h ELSE y + n - h
      BY <3>2, NextInOrder
    <3>4. IF d.i + 1 = N THEN next = Hash[d.key]
          ELSE d.i + 1 = IF Hash[d.key] <= next THEN next - Hash[d.key] ELSE next + N - Hash[d.key]
      BY <3>1, <3>3
    <3>5. QED
      BY <1>4, <3>4
  <2>4. \A q \in Passed(c) : q \in Before(d.key, p) \/ q = p
    <3>1. ASSUME NEW q \in 0..N - 1,
                 d.i + 1 < N => IF Hash[d.key] <= next THEN Hash[d.key] <= q /\ q < next
                                ELSE Hash[d.key] <= q \/ q < next
          PROVE  (IF Hash[d.key] <= p THEN Hash[d.key] <= q /\ q < p ELSE Hash[d.key] <= q \/ q < p) \/ q = p
      <4>1. PICK n, h, x, i, y : n = N /\ h = Hash[d.key] /\ x = p /\ i = d.i /\ y = next
        OBVIOUS
      <4>2. /\ n \in Nat \ {0} /\ h \in 0..n - 1 /\ x \in 0..n - 1 /\ i \in Nat /\ y \in 0..n - 1
            /\ i = (IF h <= x THEN x - h ELSE x + n - h) /\ y = (IF x + 1 < n THEN x + 1 ELSE 0) /\ i < n
        BY <1>1, <1>2, <1>3, <2>1, <4>1
      <4>3. q \in 0..n - 1 /\ (i + 1 < n => IF h <= y THEN h <= q /\ q < y ELSE h <= q \/ q < y)
        BY <3>1, <4>1
      <4>4. (IF h <= x THEN h <= q /\ q < x ELSE h <= q \/ q < x) \/ q = x
        BY <4>2, <4>3, NextInOrder
      <4>5. QED
        BY <4>1, <4>4
    <3>2. QED
      BY <1>4, <3>1 DEF Passed, Before, Table!Positions
  <2>5. c.op # "idle" /\ d.op # "idle"
    BY <1>1, <1>4
  <2>6. QED
    BY <1>1, <1>4, <2>1, <2>2, <2>3, <2>4, <2>5 DEF CallInv
<1>6. CASE crosses
  BY <1>1, <1>4, <1>5, <1>6, LeaveKeeps
<1>7. CASE ~crosses
  <2>1. shared' = shared /\ c.op = "probe" /\ c.slot = d.slot
    BY <1>1, <1>4, <1>7
  <2>2. TableTyped'
    BY <1>1, <1>4, <2>1 DEF TableInv, TableTyped
  <2>3. /\ shared'.slot_mut[c.slot] = t
        /\ \A u \in Threads : u # t /\ thread[u].op \in {"probe", "fill"} => shared'.slot_mut[thread[u].slot] = u
    BY <1>1, <2>1 DEF TableInv, Holding
  <2>4. QED
    BY <1>1, <1>4, <1>5, <2>1, <2>2, <2>3, TableStays
<1>8. QED
  BY <1>6, <1>7

(* There is an entry left for every position that has none.                *)
LEMMA EntryLeft ==
  ASSUME TableInv, NEW p \in Positions, ~Occupied(p)
  PROVE  shared.entry_cnt \in 1..N
<1>1. shared.entry_cnt \in 1..N + 1 /\ N \in Nat \ {0}
  BY TableFields
<1>2. ASSUME shared.entry_cnt = N + 1
      PROVE  FALSE
  <2>1. \A e \in 1..N : \E q \in Positions : shared.bucket[q] = e
    BY <1>1, <1>2 DEF TableInv, EntriesInv
  <2>2. PICK f : f = [e \in 1..N |-> CHOOSE q \in Positions : shared.bucket[q] = e]
    OBVIOUS
  <2>3. \A e \in 1..N : f[e] \in Positions /\ shared.bucket[f[e]] = e
    BY <2>1, <2>2
  <2>4. \A e \in 1..N : f[e] # p
    BY <1>1, <2>3 DEF Occupied
  <2>5. f \in [1..N -> Positions \ {p}]
    BY <2>2, <2>3, <2>4
  <2>6. IsFiniteSet(Positions) /\ Cardinality(Positions) = N
    <3>1. 0 \in Int /\ N - 1 \in Int /\ ~(0 > N - 1) /\ N - 1 - 0 + 1 = N
      BY <1>1
    <3>2. QED
      BY <3>1, FS_Interval DEF Table!Positions
  <2>7. IsFiniteSet(1..N) /\ Cardinality(1..N) = N
    <3>1. 1 \in Int /\ N \in Int /\ ~(1 > N) /\ N - 1 + 1 = N
      BY <1>1
    <3>2. QED
      BY <3>1, FS_Interval
  <2>8. PICK e1, e2 \in 1..N : e1 # e2 /\ f[e1] = f[e2]
    <3>1. IsFiniteSet(Positions \ {p}) /\ Cardinality(Positions \ {p}) = N - 1
      BY <2>6, FS_RemoveElement
    <3>2. Cardinality(Positions \ {p}) < Cardinality(1..N)
      BY <1>1, <2>7, <3>1
    <3>3. PICK S, T : S = 1..N /\ T = Positions \ {p}
      OBVIOUS
    <3>4. /\ IsFiniteSet(S) /\ IsFiniteSet(T) /\ Cardinality(T) < Cardinality(S)
          /\ f \in [S -> T]
      BY <2>5, <2>7, <3>1, <3>2, <3>3
    <3>5. \E e1, e2 \in S : e1 # e2 /\ f[e1] = f[e2]
      BY <3>4, FS_PigeonHole
    <3>6. QED
      BY <3>3, <3>5
  <2>9. QED
    BY <2>3, <2>8
<1>3. QED
  BY <1>1, <1>2

(* A Set takes the next entry for a position that has none.                *)
LEMMA PublishKeeps ==
  ASSUME TableInv, NEW t \in Threads, Table!Publish(t)
  PROVE  TableInv'
<1>d. PICK d : d = thread[t]
  OBVIOUS
<1> USE <1>d
<1> DEFINE p == d.hash
           cnt == shared.entry_cnt
<1>1. /\ d.op = "probe" /\ d.call = "Set" /\ d.i < N /\ ~Table!More(t) /\ history' = history
      /\ shared' = [shared EXCEPT !.bucket[p] = cnt, !.entry_cnt = cnt + 1]
      /\ thread' = [thread EXCEPT ![t] = [d EXCEPT !.op = "fill"]]
  BY DEF Table!Publish, Table!Does, Table!Goes
<1>2. d \in Calls /\ p \in Positions /\ d.key \in TableKeys /\ ~Occupied(p)
  BY <1>1, CallFields DEF Table!More, Occupied
<1>3. cnt \in 1..N /\ cnt # 0 /\ N \in Nat \ {0} /\ d.key # Nothing
  BY <1>2, EntryLeft, TableFields, PartsAssumption
<1>4. shared.entry[cnt] = Table!Zeros
  BY <1>3 DEF TableInv, EntriesInv
<1>5. PICK c \in Calls : /\ thread' = [thread EXCEPT ![t] = c]
                         /\ c.op = "fill" /\ c.call = d.call /\ c.key = d.key /\ c.value = d.value
                         /\ c.hash = p /\ c.slot = d.slot /\ c.i = d.i /\ c.answer = d.answer
  <2>1. PICK c : c = [d EXCEPT !.op = "fill"]
    OBVIOUS
  <2>2. c \in Calls
    BY <1>2, <2>1 DEF Calls
  <2>3. /\ c.op = "fill" /\ c.call = d.call /\ c.key = d.key /\ c.value = d.value
        /\ c.hash = p /\ c.slot = d.slot /\ c.i = d.i /\ c.answer = d.answer
    BY <1>2, <2>1 DEF Calls
  <2>4. QED
    BY <1>1, <2>1, <2>2, <2>3
<1>6. /\ thread'[t] = c /\ \A u \in Threads : u # t => thread'[u] = thread[u]
      /\ thread' \in [Threads -> Calls]
  BY <1>5 DEF TableInv, TableTyped
<1>7. /\ shared'.bucket = [shared.bucket EXCEPT ![p] = cnt] /\ shared'.entry_cnt = cnt + 1
      /\ shared'.slot_mut = shared.slot_mut /\ shared'.entry = shared.entry
      /\ shared' \in [bucket : {shared'.bucket}, entry_cnt : {shared'.entry_cnt},
                      slot_mut : {shared'.slot_mut}, entry : {shared'.entry}]
  BY <1>1 DEF TableInv, TableTyped
<1>8. /\ shared'.bucket[p] = cnt /\ \A q \in Positions : q # p => shared'.bucket[q] = shared.bucket[q]
      /\ shared'.bucket \in [Positions -> 0..N]
  <2>1. cnt \in 0..N
    BY <1>3
  <2>2. QED
    BY <1>2, <1>7, <2>1, TableFields
<1>9. TableTyped'
  <2>1. cnt + 1 \in 1..N + 1
    BY <1>3
  <2>2. QED
    BY <1>1, <1>6, <1>7, <1>8, <2>1, TableFields DEF TableInv, TableTyped
<1>10. /\ Occupied(p)' /\ Key(p)' = Nothing
       /\ \A q \in Positions : q # p => (Occupied(q)' <=> Occupied(q)) /\ Key(q)' = Key(q)
  BY <1>3, <1>4, <1>7, <1>8 DEF Occupied, Key, Table!Zeros
<1>11. \A k \in TableKeys, q \in Positions : Found(k, q)' <=> Found(k, q)
  BY <1>2, <1>10, PartsAssumption DEF Found
<1>12. EntriesInv'
  <2>1. \A q \in Positions : shared.bucket[q] < cnt /\ shared.bucket[q] \in Nat
    BY TableFields DEF TableInv, EntriesInv
  <2>2. \A q \in Positions : shared'.bucket[q] < cnt + 1
    <3>1. ASSUME NEW q \in Positions
          PROVE  shared'.bucket[q] < cnt + 1
      <4>1. CASE q = p
        BY <1>3, <1>8, <4>1
      <4>2. CASE q # p
        BY <1>3, <1>8, <2>1, <4>2
      <4>3. QED
        BY <4>1, <4>2
    <3>2. QED
      BY <3>1
  <2>3. \A q \in Positions : shared.bucket[q] # cnt
    <3>1. ASSUME NEW q \in Positions
          PROVE  shared.bucket[q] # cnt
      BY <1>3, <2>1
    <3>2. QED
      BY <3>1
  <2>4. \A q, r \in Positions : Occupied(q)' /\ shared'.bucket[q] = shared'.bucket[r] => q = r
    BY <1>8, <1>10, <2>3 DEF TableInv, EntriesInv, Occupied
  <2>5. ASSUME NEW e \in 1..N
        PROVE  IF e < cnt + 1 THEN \E q \in Positions : shared'.bucket[q] = e ELSE shared.entry[e] = Table!Zeros
    <3>1. CASE e < cnt
      <4>1. e < cnt + 1 /\ e # 0
        BY <1>3, <3>1
      <4>2. PICK q \in Positions : shared.bucket[q] = e
        BY <3>1 DEF TableInv, EntriesInv
      <4>3. QED
        BY <1>2, <1>8, <4>1, <4>2 DEF Occupied
    <3>2. CASE e = cnt
      BY <1>2, <1>3, <1>8, <3>2
    <3>3. CASE e > cnt
      <4>1. ~(e < cnt) /\ ~(e < cnt + 1)
        BY <1>3, <3>3
      <4>2. QED
        BY <4>1 DEF TableInv, EntriesInv
    <3>4. QED
      BY <1>3, <3>1, <3>2, <3>3
  <2>6. \A q \in Positions : Occupied(q)' =>
          Key(q)' \in TableKeys \/ \E u \in Threads : thread'[u].op = "fill" /\ thread'[u].hash = q
    <3>1. thread'[t].op = "fill" /\ thread'[t].hash = p
      BY <1>5, <1>6
    <3>2. \A u \in Threads : thread[u].op = "fill" => thread'[u] = thread[u]
      BY <1>1, <1>6
    <3>3. QED
      BY <1>10, <3>1, <3>2 DEF TableInv, EntriesInv
  <2>7. QED
    BY <1>7, <2>2, <2>4, <2>5, <2>6 DEF TableInv, EntriesInv
<1>13. KeysInv'
  <2>1. ASSUME NEW k \in TableKeys, NEW q \in Positions, Found(k, q)
        PROVE  /\ shared'.entry[shared'.bucket[q]].value = history.latest[k]
               /\ \A r \in Before(k, q) : Occupied(r)'
               /\ \A r \in Positions : Found(k, r) => r = q
    <3>1. q # p
      BY <1>2, <2>1 DEF Found
    <3>2. QED
      BY <1>7, <1>8, <1>10, <2>1, <3>1 DEF TableInv, KeysInv, Before
  <2>2. QED
    BY <1>1, <1>11, <2>1 DEF TableInv, KeysInv
<1>14. ASSUME NEW b, CallInv(b)
       PROVE  CallInv(b)'
  <2>1. \A q \in Passed(b) : q \in Positions
    BY DEF Passed, Before
  <2>2. \A q \in Positions : Occupied(q) => Occupied(q)' /\ Key(q)' = Key(q)
    BY <1>2, <1>10
  <2>3. QED
    BY <1>14, <2>1, <2>2 DEF CallInv
<1>15. /\ \A q \in Positions : ~Found(d.key, q)
       /\ \A u \in Threads : thread[u].op = "fill" => thread[u].key # d.key
  <2>1. \A q \in Positions : ~Found(d.key, q)
    BY <1>1, NotThere
  <2>2. ASSUME NEW u \in Threads, thread[u].op = "fill", thread[u].key = d.key
        PROVE  FALSE
    <3>1. PICK r \in Positions : r = thread[u].hash
      BY CallFields
    <3>2. Occupied(r) /\ Key(r) = Nothing
      BY <2>2, <3>1 DEF TableInv, FillInv, Key, Table!Zeros
    <3>3. \A q \in Before(d.key, r) : Occupied(q)
      BY <2>2, <3>1 DEF TableInv, FillInv, CallInv, Passed
    <3>4. \A q \in Before(d.key, p) : Key(q) \in TableKeys
      BY <1>1 DEF TableInv, CallInv, Passed
    <3>5. p = r \/ p \in Before(d.key, r) \/ r \in Before(d.key, p)
      BY <1>2, InOrder
    <3>6. QED
      BY <1>2, <3>2, <3>3, <3>4, <3>5, PartsAssumption
  <2>3. QED
    BY <2>1, <2>2
<1>16. ASSUME NEW u \in Threads
       PROVE  CallInv(thread[u])' /\ Holding(u)' /\ FillInv(u)'
  <2>1. CASE u = t
    <3>1. CallInv(c)
      <4>1. CallInv(d)
        BY DEF TableInv
      <4>2. Passed(c) = Passed(d)
        BY <1>5 DEF Passed
      <4>3. QED
        BY <1>1, <1>5, <4>1, <4>2 DEF CallInv
    <3>2. CallInv(c)'
      BY <1>14, <3>1
    <3>3. CallInv(thread[u])'
      BY <1>6, <2>1, <3>2 DEF CallInv
    <3>4. Holding(u)'
      BY <1>1, <1>5, <1>6, <1>7, <2>1 DEF TableInv, Holding
    <3>5. FillInv(u)'
      <4>1. \A w \in Threads : thread'[w].op = "fill" /\ thread'[w].key = d.key => w = t
        BY <1>6, <1>15
      <4>2. shared'.entry[shared'.bucket[p]] = Table!Zeros
        BY <1>4, <1>7, <1>8
      <4>3. \A q \in Positions : ~Found(d.key, q)'
        BY <1>2, <1>11, <1>15
      <4>4. QED
        BY <1>1, <1>5, <1>6, <1>10, <2>1, <4>1, <4>2, <4>3 DEF FillInv
    <3>6. QED
      BY <3>3, <3>4, <3>5
  <2>2. CASE u # t
    <3>1. PICK b : b = thread[u] /\ b = thread'[u]
      BY <1>6, <2>2
    <3>2. CallInv(thread[u])'
      <4>1. CallInv(b)
        BY <3>1 DEF TableInv
      <4>2. CallInv(b)'
        BY <1>14, <4>1
      <4>3. QED
        BY <3>1, <4>2 DEF CallInv
    <3>3. Holding(u)'
      BY <1>7, <3>1 DEF TableInv, Holding
    <3>4. FillInv(u)'
      <4>1. ASSUME b.op = "fill"
            PROVE  /\ b.hash \in Positions /\ b.key \in TableKeys /\ b.hash # p /\ b.key # d.key
                   /\ b.call = "Set" /\ b.i < N /\ Occupied(b.hash)
                   /\ shared.entry[shared.bucket[b.hash]] = Table!Zeros
                   /\ \A q \in Positions : ~Found(b.key, q)
                   /\ \A w \in Threads : thread[w].op = "fill" /\ thread[w].key = b.key => w = u
        BY <1>2, <1>15, <3>1, <4>1, CallFields, ZenonT(40) DEF TableInv, FillInv
      <4>2. \A w \in Threads : thread'[w].op = "fill" /\ thread'[w].key = b.key =>
              (b.op = "fill" => w = u)
        BY <1>5, <1>6, <4>1
      <4>3. QED
        BY <1>7, <1>8, <1>10, <1>11, <3>1, <4>1, <4>2 DEF FillInv
    <3>5. QED
      BY <3>2, <3>3, <3>4
  <2>3. QED
    BY <2>1, <2>2
<1>17. QED
  BY <1>9, <1>12, <1>13, <1>16 DEF TableInv

(* A Set that has published its entry fills it.                            *)
LEMMA FillKeeps ==
  ASSUME TableInv, NEW t \in Threads, Table!Fill(t)
  PROVE  TableInv'
<1>d. PICK d : d = thread[t]
  OBVIOUS
<1> USE <1>d
<1> DEFINE p == d.hash
           e == shared.bucket[p]
<1>1. /\ d.op = "fill"
      /\ shared' = [Table!Unlocked(d.slot) EXCEPT !.entry[e] = [key |-> d.key, value |-> d.value]]
      /\ history' = [history EXCEPT !.latest[d.key] = d.value]
      /\ Table!Returns(t, Ok, Ok)
  BY DEF Table!Fill, Table!Does, Table!Stores
<1>2. /\ d.key \in TableKeys /\ p \in Positions /\ d.slot \in Slots /\ d.value \in Nat
      /\ d.key # Nothing /\ shared.slot_mut[d.slot] = t
  <2>1. /\ d.key \in TableKeys /\ p \in Positions /\ d.slot \in Slots
    BY <1>1, CallFields
  <2>2. CallInv(d) /\ Holding(t) /\ FillInv(t)
    BY DEF TableInv
  <2>3. d.value \in Nat /\ shared.slot_mut[d.slot] = t
    BY <1>1, <2>2 DEF CallInv, Holding, FillInv
  <2>4. QED
    BY <2>1, <2>3, KeysAreSomething
<1>3. /\ Occupied(p) /\ shared.entry[e] = Table!Zeros /\ Key(p) = Nothing
      /\ \A q \in Positions : ~Found(d.key, q)
      /\ \A u \in Threads : thread[u].op = "fill" /\ thread[u].key = d.key => u = t
      /\ \A q \in Before(d.key, p) : Occupied(q)
  BY <1>1 DEF TableInv, FillInv, CallInv, Passed, Key, Table!Zeros
<1>4. e \in 1..N
  <2>1. e \in 0..N /\ e # 0 /\ N \in Nat
    BY <1>2, <1>3, TableFields DEF Occupied
  <2>2. QED
    BY <2>1
<1>5. PICK c \in Calls : /\ thread' = [thread EXCEPT ![t] = c] /\ c.op = "idle"
                         /\ c.answer # Nothing => c.answer.returned = c.answer.current
  BY <1>1, Returned DEF Outcomes
<1>6. /\ thread'[t] = c /\ \A u \in Threads : u # t => thread'[u] = thread[u]
      /\ thread' \in [Threads -> Calls]
  BY <1>5 DEF TableInv, TableTyped
<1>7. /\ shared'.bucket = shared.bucket /\ shared'.entry_cnt = shared.entry_cnt
      /\ shared'.slot_mut = [shared.slot_mut EXCEPT ![d.slot] = Nothing]
      /\ shared'.entry = [shared.entry EXCEPT ![e] = [key |-> d.key, value |-> d.value]]
      /\ shared' \in [bucket : {shared'.bucket}, entry_cnt : {shared'.entry_cnt},
                      slot_mut : {shared'.slot_mut}, entry : {shared'.entry}]
  BY <1>1 DEF Table!Unlocked, TableInv, TableTyped
<1>8. /\ \A f \in 1..N : f # e => shared'.entry[f] = shared.entry[f]
      /\ shared'.entry[e].key = d.key /\ shared'.entry[e].value = d.value
      /\ shared'.entry \in [1..N -> [key : TableKeys \cup {Nothing}, value : Nat \cup {Nothing}]]
  BY <1>2, <1>4, <1>7, TableFields
<1>9. /\ history'.latest[d.key] = d.value
      /\ \A k \in TableKeys : k # d.key => history'.latest[k] = history.latest[k]
      /\ history' \in [begun : Nat, latest : [TableKeys -> Nat \cup {NotFound}]]
  BY <1>1, <1>2 DEF TableInv, TableTyped
<1>10. TableTyped'
  <2>1. shared'.slot_mut \in [Slots -> Threads \cup {Nothing}]
    BY <1>2, <1>7, TableFields
  <2>2. QED
    BY <1>6, <1>7, <1>8, <1>9, <2>1, TableFields DEF TableTyped
<1>11. /\ \A q \in Positions : Occupied(q)' <=> Occupied(q)
       /\ \A q \in Positions : Occupied(q) /\ q # p =>
            /\ shared.bucket[q] \in 1..N /\ shared.bucket[q] # e /\ Key(q)' = Key(q)
            /\ shared'.entry[shared'.bucket[q]] = shared.entry[shared.bucket[q]]
       /\ Occupied(p)' /\ Key(p)' = d.key
  <2>1. ASSUME NEW q \in Positions, Occupied(q), q # p
        PROVE  shared.bucket[q] \in 1..N /\ shared.bucket[q] # e
    <3>1. shared.bucket[q] # e
      BY <1>2, <2>1 DEF TableInv, EntriesInv
    <3>2. shared.bucket[q] \in 0..N /\ shared.bucket[q] # 0 /\ N \in Nat
      BY <2>1, TableFields DEF Occupied
    <3>3. QED
      BY <3>1, <3>2
  <2>2. QED
    BY <1>3, <1>7, <1>8, <2>1, SMTT(30) DEF Occupied, Key
<1>12. EntriesInv'
  <2>1. e < shared.entry_cnt
    BY <1>2 DEF TableInv, EntriesInv
  <2>2. \A f \in 1..N : IF f < shared.entry_cnt THEN \E q \in Positions : shared.bucket[q] = f
                        ELSE shared'.entry[f] = Table!Zeros
    BY <1>8, <2>1 DEF TableInv, EntriesInv
  <2>3. \A f \in 1..N : shared'.entry[f].key = Nothing => shared'.entry[f] = Table!Zeros
    BY <1>2, <1>8 DEF TableInv, EntriesInv
  <2>4. ASSUME NEW q \in Positions, Occupied(q)
        PROVE  Key(q)' \in TableKeys \/ \E u \in Threads : thread'[u].op = "fill" /\ thread'[u].hash = q
    <3>1. CASE q = p
      BY <1>2, <1>11, <3>1
    <3>2. CASE q # p
      BY <1>6, <1>11, <2>4, <3>2 DEF TableInv, EntriesInv
    <3>3. QED
      BY <3>1, <3>2
  <2>5. QED
    BY <1>7, <1>11, <2>2, <2>3, <2>4 DEF TableInv, EntriesInv, Occupied
<1>13. /\ Found(d.key, p)'
       /\ \A k \in TableKeys, q \in Positions :
            /\ q # p => (Found(k, q)' <=> Found(k, q)) /\ (Found(k, q) => k # d.key)
            /\ Found(k, p)' => k = d.key
            /\ ~Found(k, p)
  BY <1>2, <1>3, <1>11, PartsAssumption DEF Found
<1>14. KeysInv'
  <2>1. ASSUME NEW k \in TableKeys, NEW q \in Positions, Found(k, q)'
        PROVE  /\ shared'.entry[shared'.bucket[q]].value = history'.latest[k]
               /\ \A r \in Before(k, q) : Occupied(r)'
               /\ \A r \in Positions : Found(k, r)' => r = q
    <3>1. CASE q = p
      <4>1. k = d.key /\ \A r \in Positions : Found(k, r)' => r = q
        BY <1>2, <1>13, <2>1, <3>1
      <4>2. shared'.entry[shared'.bucket[q]].value = history'.latest[k]
        BY <1>7, <1>8, <1>9, <3>1, <4>1
      <4>3. \A r \in Before(k, q) : Occupied(r)'
        BY <1>3, <1>11, <3>1, <4>1 DEF Before
      <4>4. QED
        BY <4>1, <4>2, <4>3
    <3>2. CASE q # p
      <4>1. Found(k, q) /\ k # d.key /\ Occupied(q)
        BY <1>13, <2>1, <3>2 DEF Found
      <4>2. \A r \in Positions : Found(k, r)' => r = q
        BY <1>13, <4>1 DEF TableInv, KeysInv
      <4>3. \A r \in Before(k, q) : Occupied(r)'
        BY <1>11, <4>1 DEF TableInv, KeysInv, Before
      <4>4. shared'.entry[shared'.bucket[q]].value = history'.latest[k]
        BY <1>9, <1>11, <3>2, <4>1 DEF TableInv, KeysInv
      <4>5. QED
        BY <4>2, <4>3, <4>4
    <3>3. QED
      BY <3>1, <3>2
  <2>2. ASSUME NEW k \in TableKeys, history'.latest[k] # NotFound
        PROVE  \E q \in Positions : Found(k, q)'
    <3>1. CASE k = d.key
      BY <1>2, <1>13, <3>1
    <3>2. CASE k # d.key
      <4>1. PICK q \in Positions : Found(k, q)
        BY <1>9, <2>2, <3>2 DEF TableInv, KeysInv
      <4>2. QED
        BY <1>13, <4>1
    <3>3. QED
      BY <3>1, <3>2
  <2>3. QED
    BY <2>1, <2>2 DEF KeysInv
<1>15. ASSUME NEW u \in Threads
       PROVE  CallInv(thread[u])' /\ Holding(u)' /\ FillInv(u)'
  <2>1. CASE u = t
    BY <1>5, <1>6, <2>1 DEF CallInv, Holding, FillInv
  <2>2. CASE u # t
    <3>1. PICK b : b = thread[u] /\ b = thread'[u]
      BY <1>6, <2>2
    <3>2. CallInv(thread[u])'
      <4>1. CallInv(b)
        BY <3>1 DEF TableInv
      <4>2. \A q \in Passed(b) : q \in Positions
        BY DEF Passed, Before
      <4>3. \A q \in Positions : Occupied(q) /\ Key(q) \in TableKeys => Occupied(q)' /\ Key(q)' = Key(q)
        BY <1>3, <1>11, PartsAssumption
      <4>4. CallInv(b)'
        BY <4>1, <4>2, <4>3 DEF CallInv
      <4>5. QED
        BY <3>1, <4>4 DEF CallInv
    <3>3. ASSUME b.op \in {"probe", "fill"}
          PROVE  b.slot \in Slots /\ shared.slot_mut[b.slot] = u /\ b.slot # d.slot
      <4>1. b.slot \in Slots
        BY <3>1, <3>3, CallFields
      <4>2. shared.slot_mut[b.slot] = u
        BY <3>1, <3>3 DEF TableInv, Holding
      <4>3. QED
        BY <1>2, <2>2, <4>1, <4>2
    <3>4. Holding(u)'
      BY <1>2, <1>7, <3>1, <3>3, TableFields DEF Holding
    <3>5. FillInv(u)'
      <4>1. ASSUME b.op = "fill"
            PROVE  /\ b.hash \in Positions /\ b.key \in TableKeys /\ b.hash # p /\ b.key # d.key
                   /\ b.call = "Set" /\ b.i < N /\ Occupied(b.hash)
                   /\ shared.entry[shared.bucket[b.hash]] = Table!Zeros
                   /\ \A q \in Positions : ~Found(b.key, q)
                   /\ \A w \in Threads : thread[w].op = "fill" /\ thread[w].key = b.key => w = u
        <5>1. b.slot = Table!Slot(b.hash) /\ b.hash \in Positions /\ b.key \in TableKeys
          BY <3>1, <4>1, CallFields
        <5>2. d.slot = Table!Slot(p)
          BY <1>1, CallFields
        <5>3. FillInv(u)
          BY DEF TableInv
        <5>4. b.key # d.key
          BY <1>3, <2>2, <3>1, <4>1
        <5>5. QED
          BY <3>1, <3>3, <4>1, <5>1, <5>2, <5>3, <5>4 DEF FillInv
      <4>2. b.op = "fill" => \A q \in Positions : ~Found(b.key, q)'
        BY <1>13, <4>1
      <4>3. \A w \in Threads : thread'[w].op = "fill" /\ thread'[w].key = b.key => (b.op = "fill" => w = u)
        BY <1>5, <1>6, <4>1
      <4>4. QED
        BY <1>11, <3>1, <4>1, <4>2, <4>3 DEF FillInv
    <3>6. QED
      BY <3>2, <3>4, <3>5
  <2>3. QED
    BY <2>1, <2>2
<1>16. QED
  BY <1>10, <1>12, <1>14, <1>15 DEF TableInv

------------------------------------------------------------------------------
(* The table: the theorem                                                  *)

(* An empty table and threads in no call.                                  *)
LEMMA TableInit ==
  ASSUME Table!Init
  PROVE  TableInv
<1>1. /\ shared.bucket = [p \in Positions |-> 0] /\ shared.entry_cnt = 1
      /\ shared.entry = [e \in 1..N |-> Table!Zeros] /\ shared.slot_mut = [s \in Slots |-> Nothing]
      /\ shared \in [bucket : {shared.bucket}, entry_cnt : {shared.entry_cnt},
                     slot_mut : {shared.slot_mut}, entry : {shared.entry}]
      /\ thread = [t \in Threads |-> Table!Idle]
      /\ history = [begun |-> 0, latest |-> [k \in TableKeys |-> NotFound]]
  BY DEF Table!Init, Slots
<1>2. N \in Nat \ {0} /\ 0 \in Positions /\ 0 \in 0..N /\ 1 \in 1..N + 1
  BY PartsAssumption DEF Table!Positions
<1>3. Table!Idle \in Calls /\ Table!Idle.op = "idle" /\ Table!Idle.answer = Nothing
  BY <1>2, IdleFields DEF Calls
<1>4. TableTyped
  <2>1. Table!Zeros \in [key : TableKeys \cup {Nothing}, value : Nat \cup {Nothing}]
    BY DEF Table!Zeros
  <2>2. QED
    BY <1>1, <1>2, <1>3, <2>1 DEF TableTyped
<1>5. \A p \in Positions : ~Occupied(p)
  BY <1>1 DEF Occupied
<1>6. EntriesInv
  <2>1. \A e \in 1..N : ~(e < 1)
    OBVIOUS
  <2>2. QED
    BY <1>1, <1>5, <2>1 DEF EntriesInv
<1>7. KeysInv
  BY <1>1, <1>5 DEF KeysInv, Found
<1>8. \A t \in Threads : CallInv(thread[t]) /\ Holding(t) /\ FillInv(t)
  BY <1>1, <1>3 DEF CallInv, Holding, FillInv
<1>9. QED
  BY <1>4, <1>6, <1>7, <1>8 DEF TableInv

(* Every step of the table keeps the invariant.                            *)
LEMMA TableNext ==
  ASSUME TableInv, Table!Next
  PROVE  TableInv'
<1>1. PICK t \in Threads :
        \/ \E k \in TableKeys : Table!Get(t, k) \/ Table!Set(t, k)
        \/ Table!Lock(t) \/ Table!GetHit(t) \/ Table!SetHit(t) \/ Table!Advance(t)
        \/ Table!GetMiss(t) \/ Table!SetFull(t) \/ Table!Publish(t) \/ Table!Fill(t)
  BY DEF Table!Next
<1>2. ASSUME NEW k \in TableKeys, Table!Get(t, k)
      PROVE  TableInv'
  <2>1. history' \in [begun : Nat, latest : {history.latest}]
    BY <1>2 DEF Table!Get, TableInv, TableTyped
  <2>2. QED
    BY <1>2, <2>1, StartKeeps DEF Table!Get
<1>3. ASSUME NEW k \in TableKeys, Table!Set(t, k)
      PROVE  TableInv'
  <2>1. history.begun + 1 \in Nat /\ history' \in [begun : Nat, latest : {history.latest}]
    BY <1>3 DEF Table!Set, TableInv, TableTyped
  <2>2. QED
    BY <1>3, <2>1, StartKeeps DEF Table!Set
<1>4. QED
  BY <1>1, <1>2, <1>3, LockKeeps, GetHitKeeps, SetHitKeeps, AdvanceKeeps, GetMissKeeps,
     SetFullKeeps, PublishKeeps, FillKeeps

(* A state that does not change keeps it.                                  *)
LEMMA TableUnchanged ==
  ASSUME TableInv, UNCHANGED state
  PROVE  TableInv'
<1>1. shared' = shared /\ thread' = thread /\ history' = history
  BY DEF state
<1>2. TableTyped' /\ EntriesInv' /\ KeysInv'
  BY <1>1 DEF TableInv, TableTyped, EntriesInv, KeysInv, Found, Occupied, Key
<1>3. ASSUME NEW t \in Threads
      PROVE  CallInv(thread[t])' /\ Holding(t)' /\ FillInv(t)'
  <2>1. CallInv(thread[t])'
    BY <1>1 DEF TableInv, CallInv, Occupied, Key
  <2>2. Holding(t)' /\ FillInv(t)'
    BY <1>1 DEF TableInv, Holding, FillInv, Found, Occupied, Key
  <2>3. QED
    BY <2>1, <2>2
<1>4. QED
  BY <1>2, <1>3 DEF TableInv

(* In such a state every answer was right, and no key has two entries.     *)
LEMMA CallsLookAtomic ==
  ASSUME TableInv
  PROVE  Table!CallsAreAtomic
<1>1. \A t \in Threads : thread[t].answer # Nothing => thread[t].answer.returned = thread[t].answer.current
  BY DEF TableInv, CallInv
<1>2. ASSUME NEW e \in 1..N, NEW f \in 1..N, shared.entry[e].key = shared.entry[f].key,
             shared.entry[e] # Table!Zeros
      PROVE  e = f
  <2>1. /\ shared.entry[e].key \in TableKeys /\ shared.entry[f].key \in TableKeys
        /\ shared.entry[f] # Table!Zeros
    <3>1. shared.entry[e].key # Nothing
      BY <1>2 DEF TableInv, EntriesInv
    <3>2. QED
      BY <1>2, <3>1, TableFields DEF Table!Zeros
  <2>2. PICK p, q \in Positions : shared.bucket[p] = e /\ shared.bucket[q] = f
    BY <1>2, <2>1 DEF TableInv, EntriesInv
  <2>3. e # 0 /\ f # 0
    OBVIOUS
  <2>4. Found(shared.entry[e].key, p) /\ Found(shared.entry[e].key, q)
    BY <1>2, <2>2, <2>3 DEF Found, Occupied, Key
  <2>5. p = q
    BY <2>1, <2>4 DEF TableInv, KeysInv
  <2>6. QED
    BY <2>2, <2>5
<1>3. QED
  BY <1>1, <1>2 DEF Table!CallsAreAtomic

(* Of yet_another_nvm_example, with any number of threads, keys and        *)
(* positions and any stripes: every Get and Set, though it hands over from *)
(* one stripe's mutex to the next without both, acts as if it happened at  *)
(* once, and no key gets two entries.                                      *)
THEOREM TableCallsHappenAtOnce == Spec => []TableCallsAreAtomic
<1> DEFINE Inv == part = "yet_another_nvm_example" => TableInv
<1>1. Init => Inv
  BY TableInit DEF Init
<1>2. Inv /\ [Next]_vars => Inv'
  <2>1. ASSUME TableInv, part = "yet_another_nvm_example", Next
        PROVE  TableInv'
    <3>1. Table!Next
      BY <2>1 DEF Next, ListStep, TableStep, BlocksStep, ObjectsStep, TracerStep, IndexStep, DigestStep
    <3>2. QED
      BY <2>1, <3>1, TableNext
  <2>2. ASSUME TableInv, UNCHANGED vars
        PROVE  TableInv'
    BY <2>2, TableUnchanged DEF vars
  <2>3. part' = part \/ ~[Next]_vars
    BY DEF Next, vars
  <2>4. QED
    BY <2>1, <2>2, <2>3
<1>3. Inv => TableCallsAreAtomic
  BY CallsLookAtomic DEF TableCallsAreAtomic
<1>4. QED
  BY <1>1, <1>2, <1>3, PTL DEF Spec

------------------------------------------------------------------------------
(* The arena                                                               *)

(* The current block ends where what is left of it ends; a region lies in  *)
(* its block, and in the current one before the next address to hand out.  *)
Regions == [block : Nat, from : Nat, to : Nat, aligned : BOOLEAN]
InBlock(r) == /\ r.block \in 1..Len(shared.blocks_) /\ r.to <= shared.blocks_[r.block]
              /\ r.block = shared.block => r.to <= shared.alloc_ptr_
              /\ r.aligned => r.from % align = 0

ArenaTyped ==
  /\ shared \in [blocks_ : Seq(Nat), block : Nat, alloc_ptr_ : Nat, alloc_bytes_remaining_ : Nat,
                 memory_usage_ : Nat]
  /\ history \in SUBSET Regions
ArenaInv ==
  /\ ArenaTyped
  /\ IF shared.block = 0 THEN shared.alloc_bytes_remaining_ = 0
     ELSE /\ shared.block <= Len(shared.blocks_)
          /\ shared.alloc_ptr_ + shared.alloc_bytes_remaining_ <= shared.blocks_[shared.block]
  /\ \A r \in history : InBlock(r)
  /\ \A r, s \in history : r = s \/ Blocks!Apart(r, s)

(* The next aligned address is the address and the slop.                   *)
LEMMA SlopAligns ==
  ASSUME NEW a \in Nat \ {0}, NEW p \in Nat
  PROVE  LET slop == (a - (p % a)) % a IN slop \in Nat /\ (p + slop) % a = 0
<1>1. /\ p = a * (p \div a) + (p % a) /\ p \div a \in Nat /\ p % a \in 0..a - 1
  OBVIOUS
<1>2. CASE p % a = 0
  <2>1. (a - (p % a)) % a = 0
    BY <1>2
  <2>2. QED
    BY <1>2, <2>1
<1>3. CASE p % a # 0
  <2>1. PICK q \in Nat, m \in 1..a - 1 : q = p \div a /\ m = p % a
    BY <1>1, <1>3
  <2>2. (a - m) % a = a - m /\ a - m \in Nat
    BY <2>1
  <2>3. p + (a - m) = a * (q + 1)
    BY <1>1, <2>1
  <2>4. (a * (q + 1)) % a = 0
    <3>1. PICK n \in Nat : n = q + 1
      BY <2>1
    <3>2. (a * n) % a = 0
      OBVIOUS
    <3>3. QED
      BY <3>1, <3>2
  <2>5. QED
    BY <2>1, <2>2, <2>3, <2>4
<1>4. QED
  BY <1>2, <1>3

(* A region is handed out from the current block.                          *)
LEMMA BumpKeeps ==
  ASSUME ArenaInv, NEW bytes \in Nat \ {0}, NEW slop \in Nat, NEW aligned \in BOOLEAN,
         bytes + slop <= shared.alloc_bytes_remaining_,
         aligned => (shared.alloc_ptr_ + slop) % align = 0,
         Blocks!Bump(bytes, slop, aligned)
  PROVE  ArenaInv'
<1>1. PICK ptr \in Nat, rem \in Nat, block \in Nat, blocks \in Seq(Nat) :
        /\ ptr = shared.alloc_ptr_ /\ rem = shared.alloc_bytes_remaining_
        /\ block = shared.block /\ blocks = shared.blocks_
  BY DEF ArenaInv, ArenaTyped
<1>2. bytes + slop <= rem /\ rem # 0
  BY <1>1
<1>3. /\ block # 0 /\ block \in 1..Len(blocks) /\ ptr + rem <= blocks[block]
      /\ blocks[block] \in Nat
  <2>1. block # 0
    BY <1>1, <1>2 DEF ArenaInv
  <2>2. block <= Len(blocks) /\ ptr + rem <= blocks[block]
    BY <1>1, <2>1 DEF ArenaInv
  <2>3. block \in 1..Len(blocks)
    BY <1>1, <2>1, <2>2
  <2>4. QED
    BY <1>1, <2>1, <2>2, <2>3, SMTT(30)
<1>4. PICK new : new = [block |-> block, from |-> ptr + slop, to |-> ptr + slop + bytes, aligned |-> aligned]
  OBVIOUS
<1>5. /\ new \in Regions /\ new.block = block /\ new.from = ptr + slop /\ new.to = ptr + slop + bytes
      /\ new.aligned = aligned
  <2>1. ptr + slop \in Nat /\ ptr + slop + bytes \in Nat
    OBVIOUS
  <2>2. QED
    BY <1>4, <2>1 DEF Regions
<1>6. history' = history \cup {new}
  BY <1>1, <1>4 DEF Blocks!Bump, Blocks!HandsOut
<1>7. /\ shared'.alloc_ptr_ = ptr + slop + bytes /\ shared'.alloc_bytes_remaining_ = rem - slop - bytes
      /\ shared'.block = block /\ shared'.blocks_ = blocks /\ shared'.memory_usage_ = shared.memory_usage_
      /\ shared' \in [blocks_ : {blocks}, block : {block}, alloc_ptr_ : {ptr + slop + bytes},
                      alloc_bytes_remaining_ : {rem - slop - bytes}, memory_usage_ : {shared.memory_usage_}]
  BY <1>1 DEF Blocks!Bump, ArenaInv, ArenaTyped
<1>8. ptr + slop + bytes \in Nat /\ rem - slop - bytes \in Nat
  BY <1>2
<1>9. ArenaTyped'
  BY <1>5, <1>6, <1>7, <1>8 DEF ArenaInv, ArenaTyped
<1>10. ASSUME NEW r \in history
       PROVE  /\ InBlock(r)' /\ Blocks!Apart(r, new) /\ Blocks!Apart(new, r)
  <2>1. /\ r.block \in 1..Len(blocks) /\ r.to <= blocks[r.block] /\ r.to \in Nat
        /\ r.block = block => r.to <= ptr
        /\ r.aligned => r.from % align = 0
    BY <1>1 DEF ArenaInv, ArenaTyped, InBlock, Regions
  <2>2. r.to <= ptr => r.to <= ptr + slop + bytes /\ r.to <= ptr + slop
    BY <2>1
  <2>3. InBlock(r)'
    BY <1>7, <2>1, <2>2 DEF InBlock
  <2>4. QED
    BY <1>5, <2>1, <2>2, <2>3 DEF Blocks!Apart
<1>11. InBlock(new)'
  <2>1. ptr + slop + bytes <= blocks[block] /\ ptr + slop + bytes <= ptr + slop + bytes
    BY <1>2, <1>3
  <2>2. new.aligned => new.from % align = 0
    BY <1>1, <1>5
  <2>3. QED
    BY <1>3, <1>5, <1>7, <2>1, <2>2 DEF InBlock
<1>12. /\ shared'.block # 0 /\ shared'.block <= Len(shared'.blocks_)
       /\ shared'.alloc_ptr_ + shared'.alloc_bytes_remaining_ <= shared'.blocks_[shared'.block]
  <2>1. (ptr + slop + bytes) + (rem - slop - bytes) = ptr + rem
    OBVIOUS
  <2>2. QED
    BY <1>3, <1>7, <2>1
<1>13. \A r, s \in history' : r = s \/ Blocks!Apart(r, s)
  BY <1>6, <1>10 DEF ArenaInv, Blocks!Apart
<1>14. QED
  BY <1>6, <1>9, <1>10, <1>11, <1>12, <1>13 DEF ArenaInv, Blocks!Apart

(* A region is handed out from a block allocated for it.                   *)
LEMMA FallbackKeeps ==
  ASSUME ArenaInv, NEW bytes \in Nat \ {0}, NEW aligned \in BOOLEAN,
         Blocks!AllocateFallback(bytes, aligned)
  PROVE  ArenaInv'
<1>1. PICK block \in Nat, blocks \in Seq(Nat), ptr \in Nat, rem \in Nat :
        /\ block = shared.block /\ blocks = shared.blocks_
        /\ ptr = shared.alloc_ptr_ /\ rem = shared.alloc_bytes_remaining_
  BY DEF ArenaInv, ArenaTyped
<1>2. PICK own \in Nat : own = Len(blocks) + 1
  BY <1>1
<1>3. PICK new : new = [block |-> own, from |-> 0, to |-> bytes, aligned |-> aligned]
  OBVIOUS
<1>4. /\ new \in Regions /\ new.block = own /\ new.from = 0 /\ new.to = bytes
  BY <1>3 DEF Regions
<1>5. history' = history \cup {new}
  <2>1. 0 + bytes = bytes
    OBVIOUS
  <2>2. QED
    BY <1>1, <1>2, <1>3, <2>1 DEF Blocks!AllocateFallback, Blocks!HandsOut
<1>6. kBlockSize \in Nat /\ align \in Nat \ {0} /\ 0 % align = 0
  BY PartsAssumption
<1>7. PICK size \in Nat, b \in {block, own}, p \in Nat, m \in Nat :
        /\ bytes <= size /\ (b = own => p = bytes /\ p + m <= size)
        /\ b = block => p = ptr /\ m = rem
        /\ shared'.blocks_ = Append(blocks, size) /\ shared'.block = b
        /\ shared'.alloc_ptr_ = p /\ shared'.alloc_bytes_remaining_ = m
        /\ shared' \in [blocks_ : {Append(blocks, size)}, block : {b}, alloc_ptr_ : {p},
                        alloc_bytes_remaining_ : {m}, memory_usage_ : Nat]
  <2>1. PICK usage \in Nat : usage = shared.memory_usage_
    BY DEF ArenaInv, ArenaTyped
  <2>2. CASE bytes > kBlockSize \div 4
    <3>1. shared' = [shared EXCEPT !.blocks_ = Append(blocks, bytes), !.memory_usage_ = usage + bytes + 1]
      BY <1>1, <2>1, <2>2 DEF Blocks!AllocateFallback, Blocks!WithNewBlock
    <3>2. usage + bytes + 1 \in Nat
      OBVIOUS
    <3>3. /\ shared'.blocks_ = Append(blocks, bytes) /\ shared'.block = block
          /\ shared'.alloc_ptr_ = ptr /\ shared'.alloc_bytes_remaining_ = rem
          /\ shared' \in [blocks_ : {Append(blocks, bytes)}, block : {block}, alloc_ptr_ : {ptr},
                          alloc_bytes_remaining_ : {rem}, memory_usage_ : Nat]
      BY <1>1, <3>1, <3>2 DEF ArenaInv, ArenaTyped
    <3>4. block # own
      BY <1>1, <1>2 DEF ArenaInv
    <3>5. QED
      BY <3>3, <3>4
  <2>3. CASE ~(bytes > kBlockSize \div 4)
    <3>1. bytes <= kBlockSize /\ kBlockSize - bytes \in Nat /\ bytes + (kBlockSize - bytes) <= kBlockSize
      BY <1>6, <2>3
    <3>2. shared' = [[shared EXCEPT !.blocks_ = Append(blocks, kBlockSize), !.memory_usage_ = usage + kBlockSize + 1]
                       EXCEPT !.block = own, !.alloc_ptr_ = bytes, !.alloc_bytes_remaining_ = kBlockSize - bytes]
      BY <1>1, <1>2, <2>1, <2>3 DEF Blocks!AllocateFallback, Blocks!WithNewBlock
    <3>3. usage + kBlockSize + 1 \in Nat
      BY <1>6
    <3>4. /\ shared'.blocks_ = Append(blocks, kBlockSize) /\ shared'.block = own
          /\ shared'.alloc_ptr_ = bytes /\ shared'.alloc_bytes_remaining_ = kBlockSize - bytes
          /\ shared' \in [blocks_ : {Append(blocks, kBlockSize)}, block : {own}, alloc_ptr_ : {bytes},
                          alloc_bytes_remaining_ : {kBlockSize - bytes}, memory_usage_ : Nat]
      BY <1>1, <3>2, <3>3 DEF ArenaInv, ArenaTyped
    <3>5. block # own
      BY <1>1, <1>2 DEF ArenaInv
    <3>6. QED
      BY <1>6, <3>1, <3>4, <3>5
  <2>4. QED
    BY <2>2, <2>3
<1>8. /\ Append(blocks, size) \in Seq(Nat) /\ Len(Append(blocks, size)) = own
      /\ Append(blocks, size)[own] = size
      /\ \A i \in 1..Len(blocks) : i \in 1..own /\ i # own /\ Append(blocks, size)[i] = blocks[i]
  <2>1. Len(blocks) \in Nat /\ own = Len(blocks) + 1
    BY <1>1, <1>2
  <2>2. \A i \in 1..Len(blocks) : i \in 1..own /\ i # own
    BY <2>1
  <2>3. Append(blocks, size)[own] = size
    BY <1>1, <1>7, <2>1
  <2>4. QED
    BY <1>1, <1>7, <2>1, <2>2, <2>3
<1>9. ArenaTyped'
  BY <1>4, <1>5, <1>7, <1>8 DEF ArenaInv, ArenaTyped
<1>10. ASSUME NEW r \in history
       PROVE  /\ InBlock(r)' /\ r.block # own
  <2>1. /\ r.block \in 1..Len(blocks) /\ r.to <= blocks[r.block]
        /\ r.block = block => r.to <= ptr
        /\ r.aligned => r.from % align = 0
    BY <1>1 DEF ArenaInv, InBlock
  <2>2. QED
    BY <1>7, <1>8, <2>1, SMTT(30) DEF InBlock
<1>11. InBlock(new)'
  <2>1. own \in 1..own /\ block # own
    BY <1>1, <1>2 DEF ArenaInv
  <2>2. own = b => bytes <= p
    BY <1>7, <2>1
  <2>3. QED
    BY <1>4, <1>6, <1>7, <1>8, <2>1, <2>2 DEF InBlock
<1>12. IF shared'.block = 0 THEN shared'.alloc_bytes_remaining_ = 0
       ELSE /\ shared'.block <= Len(shared'.blocks_)
            /\ shared'.alloc_ptr_ + shared'.alloc_bytes_remaining_ <= shared'.blocks_[shared'.block]
  <2>1. CASE b = own
    <3>1. own # 0 /\ own <= own
      BY <1>2
    <3>2. QED
      BY <1>7, <1>8, <2>1, <3>1
  <2>2. CASE b = block
    <3>1. IF block = 0 THEN rem = 0
          ELSE block \in 1..Len(blocks) /\ block <= own /\ ptr + rem <= blocks[block]
      BY <1>1, <1>2 DEF ArenaInv
    <3>2. QED
      BY <1>7, <1>8, <2>2, <3>1
  <2>3. QED
    BY <1>7, <2>1, <2>2
<1>13. \A r, s \in history' : r = s \/ Blocks!Apart(r, s)
  BY <1>4, <1>5, <1>10 DEF ArenaInv, Blocks!Apart
<1>14. QED
  BY <1>5, <1>9, <1>10, <1>11, <1>12, <1>13 DEF ArenaInv, Blocks!Apart

(* Every step of the arena keeps its invariant.                            *)
LEMMA ArenaNext ==
  ASSUME ArenaInv, Blocks!Next
  PROVE  ArenaInv'
<1>1. ASSUME NEW bytes \in Sizes, Blocks!Allocate(bytes)
      PROVE  ArenaInv'
  <2>1. bytes \in Nat \ {0} /\ bytes + 0 = bytes /\ FALSE \in BOOLEAN
    BY PartsAssumption
  <2>2. CASE bytes <= shared.alloc_bytes_remaining_
    BY <1>1, <2>1, <2>2, BumpKeeps DEF Blocks!Allocate
  <2>3. CASE ~(bytes <= shared.alloc_bytes_remaining_)
    BY <1>1, <2>1, <2>3, FallbackKeeps DEF Blocks!Allocate
  <2>4. QED
    BY <2>2, <2>3
<1>2. ASSUME NEW bytes \in Sizes, Blocks!AllocateAligned(bytes)
      PROVE  ArenaInv'
  <2>1. bytes \in Nat \ {0} /\ TRUE \in BOOLEAN
    BY PartsAssumption
  <2>2. Blocks!Slop \in Nat /\ (shared.alloc_ptr_ + Blocks!Slop) % align = 0
    BY SlopAligns, PartsAssumption DEF Blocks!Slop, ArenaInv, ArenaTyped
  <2>3. CASE bytes + Blocks!Slop <= shared.alloc_bytes_remaining_
    BY <1>2, <2>1, <2>2, <2>3, BumpKeeps DEF Blocks!AllocateAligned
  <2>4. CASE ~(bytes + Blocks!Slop <= shared.alloc_bytes_remaining_)
    BY <1>2, <2>1, <2>4, FallbackKeeps DEF Blocks!AllocateAligned
  <2>5. QED
    BY <2>3, <2>4
<1>3. ASSUME Blocks!Delete
      PROVE  ArenaInv'
  BY <1>3 DEF Blocks!Delete, ArenaInv, ArenaTyped
<1>4. QED
  BY <1>1, <1>2, <1>3 DEF Blocks!Next

------------------------------------------------------------------------------
(* test/auto_alloc                                                         *)

(* Each of the blocks 1..n is in the sequence, once.                       *)
Once(s, n) ==
  /\ \A i \in 1..Len(s) : s[i] \in 1..n
  /\ \A i, j \in 1..Len(s) : s[i] = s[j] => i = j
  /\ \A b \in 1..n : \E i \in 1..Len(s) : s[i] = b

(* While it allocates, what is free is the front of the first block, where *)
(* nothing has been handed out; and it frees when it has destroyed.        *)
Spans == [block : Nat, from : Nat, to : Nat]

AllocTyped ==
  /\ shared \in [chain : Seq(Nat), free : Nat, destroy : Seq(Spans)]
  /\ thread \in {"alloc", "destroy"}
  /\ history \in [size : Seq(Nat), regions : SUBSET Spans, freed : Seq(Nat)]
FrontFree ==
  /\ history.freed = <<>>
  /\ IF shared.chain = <<>> THEN shared.free = 0
     ELSE /\ shared.free <= history.size[shared.chain[1]]
          /\ \A r \in history.regions : r.block = shared.chain[1] => shared.free <= r.from
Disjoint(r, s) == r.block # s.block \/ r.to <= s.from \/ s.to <= r.from
AllocInv ==
  /\ AllocTyped
  /\ thread = "alloc" => FrontFree
  /\ Once(shared.chain \o history.freed, Len(history.size))
  /\ \A r \in history.regions : r.block \in 1..Len(history.size) /\ r.to <= history.size[r.block]
  /\ \A r, s \in history.regions : r = s \/ Disjoint(r, s)
  /\ history.freed = <<>> \/ shared.destroy = <<>>

(* A new block, put first or behind the first.                             *)
LEMMA OneMore ==
  ASSUME NEW s \in Seq(Nat), NEW n \in Nat, Once(s, n), NEW t,
         t = <<n + 1>> \o s \/ t = Objects!Behind(s, n + 1)
  PROVE  /\ t \in Seq(Nat) /\ Once(t, n + 1) /\ t # <<>>
         /\ t = <<n + 1>> \o s => t[1] = n + 1
         /\ t = Objects!Behind(s, n + 1) /\ s # <<>> => t[1] = s[1]
<1>1. n + 1 \in Nat /\ 1..n \subseteq 1..(n + 1) /\ n + 1 \in 1..(n + 1) /\ n + 1 \notin 1..n
      /\ \A b \in 1..(n + 1) : b # n + 1 => b \in 1..n
  OBVIOUS
<1>2. Len(s) \in Nat /\ \A i \in 1..Len(s) : s[i] # n + 1
  BY <1>1 DEF Once
<1>3. CASE t = <<n + 1>> \o s
  <2>1. /\ t \in Seq(Nat) /\ Len(t) = Len(s) + 1 /\ t[1] = n + 1
        /\ \A i \in 1..Len(s) : t[i + 1] = s[i]
    BY <1>1, <1>3
  <2>2. ASSUME NEW i \in 1..Len(t), i # 1
        PROVE  \E j \in 1..Len(s) : i = j + 1 /\ t[i] = s[j]
    <3>1. PICK j \in 1..Len(s) : j = i - 1 /\ i = j + 1
      BY <1>2, <2>1, <2>2
    <3>2. QED
      BY <2>1, <3>1
  <2>3. \A i \in 1..Len(t) : t[i] \in 1..(n + 1)
    BY <1>1, <2>1, <2>2 DEF Once
  <2>4. \A i, j \in 1..Len(t) : t[i] = t[j] => i = j
    <3>1. ASSUME NEW i \in 1..Len(t), NEW j \in 1..Len(t), t[i] = t[j], i # 1, j # 1
          PROVE  i = j
      <4>1. PICK x, y \in 1..Len(s) : i = x + 1 /\ t[i] = s[x] /\ j = y + 1 /\ t[j] = s[y]
        BY <2>2, <3>1
      <4>2. x = y
        BY <3>1, <4>1 DEF Once
      <4>3. QED
        BY <4>1, <4>2
    <3>2. \A i \in 1..Len(t) : i # 1 => t[i] # t[1]
      BY <1>2, <2>1, <2>2
    <3>3. QED
      BY <3>1, <3>2
  <2>5. \A b \in 1..(n + 1) : \E i \in 1..Len(t) : t[i] = b
    <3>1. 1 \in 1..Len(t) /\ \A i \in 1..Len(s) : i + 1 \in 1..Len(t)
      BY <1>2, <2>1
    <3>2. QED
      BY <1>1, <2>1, <3>1 DEF Once
  <2>6. t # <<>>
    BY <1>2, <2>1
  <2>7. t = Objects!Behind(s, n + 1) /\ s # <<>> => t[1] = s[1]
    <3>1. ASSUME s # <<>>
          PROVE  Objects!Behind(s, n + 1)[1] = s[1]
      BY <1>1, <3>1 DEF Objects!Behind, Objects!InsertAt
    <3>2. QED
      BY <3>1
  <2>8. QED
    BY <2>1, <2>3, <2>4, <2>5, <2>6, <2>7 DEF Once
<1>4. CASE t # <<n + 1>> \o s /\ t = Objects!Behind(s, n + 1)
  <2>1. s # <<>>
    <3>1. <<n + 1>> \o <<>> = <<n + 1>>
      BY <1>1
    <3>2. QED
      BY <1>4, <3>1 DEF Objects!Behind
  <2>2. Len(s) >= 1
    BY <1>2, <2>1
  <2>3. t = SubSeq(s, 1, 1) \o <<n + 1>> \o SubSeq(s, 2, Len(s))
    BY <1>4, <2>1 DEF Objects!Behind, Objects!InsertAt
  <2>4. /\ t \in Seq(Nat) /\ Len(t) = Len(s) + 1 /\ t[1] = s[1] /\ t[2] = n + 1
        /\ \A i \in 2..Len(s) : t[i + 1] = s[i]
    BY <1>1, <1>2, <2>2, <2>3
  <2>5. ASSUME NEW i \in 1..Len(t), i # 1, i # 2
        PROVE  \E j \in 1..Len(s) : i = j + 1 /\ j # 1 /\ t[i] = s[j]
    <3>1. PICK j \in 2..Len(s) : j = i - 1 /\ i = j + 1
      BY <1>2, <2>4, <2>5
    <3>2. j \in 1..Len(s) /\ j # 1
      OBVIOUS
    <3>3. QED
      BY <2>4, <3>1, <3>2
  <2>6. 1 \in 1..Len(s) /\ 1 \in 1..Len(t) /\ 2 \in 1..Len(t)
    BY <1>2, <2>2, <2>4
  <2>7. \A i \in 1..Len(t) : t[i] \in 1..(n + 1)
    <3>1. \A j \in 1..Len(s) : s[j] \in 1..(n + 1)
      BY <1>1 DEF Once
    <3>2. QED
      BY <1>1, <2>4, <2>5, <2>6, <3>1
  <2>8. \A i, j \in 1..Len(t) : t[i] = t[j] => i = j
    <3>1. ASSUME NEW i \in 1..Len(t), NEW j \in 1..Len(t), t[i] = t[j], i # 1, j # 1, i # 2, j # 2
          PROVE  i = j
      <4>1. PICK x, y \in 1..Len(s) : i = x + 1 /\ t[i] = s[x] /\ j = y + 1 /\ t[j] = s[y]
        BY <2>5, <3>1
      <4>2. x = y
        BY <3>1, <4>1 DEF Once
      <4>3. QED
        BY <4>1, <4>2
    <3>2. \A i \in 1..Len(t) : i # 1 /\ i # 2 => t[i] # t[1]
      <4>1. ASSUME NEW i \in 1..Len(t), i # 1, i # 2, t[i] = t[1]
            PROVE  FALSE
        <5>1. PICK j \in 1..Len(s) : j # 1 /\ s[j] = s[1]
          BY <2>4, <2>5, <4>1
        <5>2. QED
          BY <2>6, <5>1 DEF Once
      <4>2. QED
        BY <4>1
    <3>3. \A i \in 1..Len(t) : i # 2 => t[i] # t[2]
      BY <1>2, <2>4, <2>5, <2>6
    <3>4. QED
      BY <2>6, <3>1, <3>2, <3>3
  <2>9. \A b \in 1..(n + 1) : \E i \in 1..Len(t) : t[i] = b
    <3>1. \A i \in 2..Len(s) : i + 1 \in 1..Len(t)
      BY <1>2, <2>4
    <3>2. \A i \in 1..Len(s) : i = 1 \/ i \in 2..Len(s)
      BY <1>2
    <3>3. ASSUME NEW b \in 1..n
          PROVE  \E i \in 1..Len(t) : t[i] = b
      <4>1. PICK i \in 1..Len(s) : s[i] = b
        BY DEF Once
      <4>2. CASE i = 1
        BY <2>4, <2>6, <4>1, <4>2
      <4>3. CASE i # 1
        BY <2>4, <3>1, <3>2, <4>1, <4>3
      <4>4. QED
        BY <4>2, <4>3
    <3>4. QED
      BY <1>1, <2>4, <2>6, <3>3
  <2>10. t # <<>>
    BY <1>2, <2>4
  <2>11. QED
    BY <1>4, <2>4, <2>7, <2>8, <2>9, <2>10 DEF Once
<1>5. QED
  BY <1>3, <1>4

(* The first block of the chain goes to the end of those freed.            *)
LEMMA OneFreed ==
  ASSUME NEW c \in Seq(Nat), NEW f \in Seq(Nat), NEW n \in Nat, c # <<>>, Once(c \o f, n)
  PROVE  Once(Tail(c) \o Append(f, Head(c)), n)
<1>1. PICK s, t : s = c \o f /\ t = Tail(c) \o Append(f, Head(c))
  OBVIOUS
<1>2. PICK m \in Nat, k \in Nat : m = Len(c) /\ k = Len(f) /\ m >= 1
  OBVIOUS
<1>3. /\ Tail(c) \in Seq(Nat) /\ Len(Tail(c)) = m - 1 /\ \A i \in 1..m - 1 : Tail(c)[i] = c[i + 1]
      /\ Append(f, Head(c)) \in Seq(Nat) /\ Len(Append(f, Head(c))) = k + 1
      /\ \A i \in 1..k : Append(f, Head(c))[i] = f[i]
      /\ Append(f, Head(c))[k + 1] = c[1]
  BY <1>2
<1>4. /\ Len(s) = m + k /\ Len(t) = m + k
      /\ \A i \in 1..m : s[i] = c[i]
      /\ \A i \in 1..k : s[m + i] = f[i]
      /\ \A i \in 1..m - 1 : t[i] = c[i + 1]
      /\ \A i \in 1..k + 1 : t[m - 1 + i] = Append(f, Head(c))[i]
  BY <1>1, <1>2, <1>3
<1>5. /\ t[m + k] = s[1] /\ 1 \in 1..m + k /\ m + k \in 1..m + k
      /\ \A i \in 1..m + k : i # m + k => i + 1 \in 1..m + k /\ t[i] = s[i + 1]
  <2>1. k + 1 \in 1..k + 1 /\ m - 1 + (k + 1) = m + k /\ 1 \in 1..m
    BY <1>2
  <2>2. ASSUME NEW i \in 1..m + k, i # m + k
        PROVE  i + 1 \in 1..m + k /\ t[i] = s[i + 1]
    <3>1. CASE i <= m - 1
      <4>1. i \in 1..m - 1 /\ i + 1 \in 1..m /\ i + 1 \in 1..m + k
        BY <1>2, <3>1
      <4>2. QED
        BY <1>4, <4>1
    <3>2. CASE ~(i <= m - 1)
      <4>1. PICK j \in Int : j = i - (m - 1)
        OBVIOUS
      <4>2. i = m - 1 + j /\ i + 1 = m + j /\ j \in 1..k /\ j \in 1..k + 1 /\ i + 1 \in 1..m + k
        BY <1>2, <2>2, <3>2, <4>1
      <4>3. t[i] = f[j] /\ s[i + 1] = f[j]
        BY <1>3, <1>4, <4>2
      <4>4. QED
        BY <4>2, <4>3
    <3>3. QED
      BY <3>1, <3>2
  <2>3. t[m + k] = s[1]
    BY <1>3, <1>4, <2>1
  <2>4. QED
    BY <1>2, <2>2, <2>3
<1>6. Once(s, n)
  BY <1>1
<1>7. ASSUME NEW i \in 1..Len(t)
      PROVE  t[i] \in 1..n
  <2>1. PICK j \in 1..Len(s) : t[i] = s[j]
    BY <1>4, <1>5, ZenonT(40)
  <2>2. QED
    BY <1>6, <2>1 DEF Once
<1>8. \A i, j \in 1..Len(t) : t[i] = t[j] => i = j
  <2>1. ASSUME NEW i \in 1..m + k, NEW j \in 1..m + k, t[i] = t[j], i # m + k, j # m + k
        PROVE  i = j
    <3>1. i + 1 = j + 1
      BY <1>4, <1>5, <1>6, <2>1, SMTT(30) DEF Once
    <3>2. QED
      BY <3>1
  <2>2. ASSUME NEW i \in 1..m + k, i # m + k, t[i] = t[m + k]
        PROVE  FALSE
    <3>1. i + 1 = 1
      BY <1>4, <1>5, <1>6, <2>2 DEF Once
    <3>2. QED
      BY <3>1
  <2>3. QED
    BY <1>4, <2>1, <2>2
<1>9. ASSUME NEW b \in 1..n
      PROVE  \E i \in 1..Len(t) : t[i] = b
  <2>1. PICK i \in 1..m + k : s[i] = b
    BY <1>4, <1>6 DEF Once
  <2>2. CASE i = 1
    BY <1>4, <1>5, <2>1, <2>2
  <2>3. CASE i # 1
    <3>1. PICK j \in 1..m + k : j = i - 1 /\ j # m + k /\ j + 1 = i
      BY <1>2, <2>3
    <3>2. t[j] = b
      BY <1>5, <2>1, <3>1
    <3>3. QED
      BY <1>4, <3>1, <3>2
  <2>4. QED
    BY <2>2, <2>3
<1>10. QED
  BY <1>1, <1>7, <1>8, <1>9 DEF Once

(* What Alloc does: a region from the front of the first block, from a new *)
(* block behind it, or from a new first one.                               *)
SpanStep(cb, chain, free, size, new, chain2, free2, size2, region, block, from) ==
  /\ thread = "alloc" /\ thread' = thread /\ cb \in Nat \ {0}
  /\ chain = shared.chain /\ free = shared.free /\ size = history.size /\ new = Len(size) + 1
  /\ free2 \in Nat /\ region \in Spans /\ from \in Nat
  /\ region.block = block /\ region.from = from /\ region.to = from + cb
  /\ shared' \in [chain : {chain2}, free : {free2}, destroy : Seq(Spans)]
  /\ history' \in [size : {size2}, regions : {history.regions \cup {region}}, freed : {history.freed}]
  /\ \/ /\ cb <= free /\ chain2 = chain /\ free2 = free - cb /\ size2 = size
        /\ block = chain[1] /\ from = free - cb /\ chain # <<>>
     \/ /\ chain2 = Objects!Behind(chain, new) /\ free2 = free /\ size2 = Append(size, cb)
        /\ block = new /\ from = 0
     \/ /\ chain2 = <<new>> \o chain /\ free2 = BlockSize - cb /\ size2 = Append(size, BlockSize)
        /\ block = new /\ from = BlockSize - cb

(* It keeps the invariant.                                                 *)
LEMMA SpanKeeps ==
  ASSUME AllocInv, NEW cb, NEW chain, NEW free, NEW size, NEW new, NEW chain2, NEW free2, NEW size2,
         NEW region, NEW block, NEW from,
         SpanStep(cb, chain, free, size, new, chain2, free2, size2, region, block, from)
  PROVE  AllocInv'
<1> chain \in Seq(Nat) /\ free \in Nat /\ size \in Seq(Nat) /\ new \in Nat
  BY DEF SpanStep, AllocInv, AllocTyped
<1> /\ thread = "alloc" /\ thread' = thread /\ cb \in Nat \ {0}
    /\ chain = shared.chain /\ free = shared.free /\ size = history.size /\ new = Len(size) + 1
    /\ free2 \in Nat /\ region \in Spans /\ from \in Nat
    /\ region.block = block /\ region.from = from /\ region.to = from + cb
  BY DEF SpanStep
<1>1. /\ FrontFree /\ BlockSize \in Nat /\ chain \o history.freed = chain /\ Once(chain, Len(size))
  <2>1. FrontFree
    BY DEF AllocInv
  <2>2. chain \o history.freed = chain
    BY <2>1 DEF FrontFree
  <2>3. QED
    BY <2>1, <2>2, PartsAssumption DEF AllocInv
<1>2. /\ shared'.chain = chain2 /\ shared'.free = free2 /\ shared'.destroy \in Seq(Spans)
      /\ shared' \in [chain : {chain2}, free : {free2}, destroy : Seq(Spans)]
  BY DEF SpanStep
<1>3. /\ history'.size = size2 /\ history'.regions = history.regions \cup {region}
      /\ history'.freed = history.freed
      /\ history' \in [size : {size2}, regions : {history.regions \cup {region}}, freed : {history.freed}]
  BY DEF SpanStep
<1>4. /\ Len(size) \in Nat /\ Append(size, cb) \in Seq(Nat) /\ Append(size, BlockSize) \in Seq(Nat)
      /\ Len(Append(size, cb)) = new /\ Len(Append(size, BlockSize)) = new
      /\ Append(size, cb)[new] = cb /\ Append(size, BlockSize)[new] = BlockSize
      /\ \A i \in 1..Len(size) : Append(size, cb)[i] = size[i] /\ Append(size, BlockSize)[i] = size[i]
      /\ new \in 1..new /\ new \notin 1..Len(size) /\ 1..Len(size) \subseteq 1..new
  BY <1>1
<1>5. /\ size2 \in Seq(Nat) /\ block \in 1..Len(size2) /\ from + cb <= size2[block]
      /\ Len(size2) \in {Len(size), new}
      /\ \A i \in 1..Len(size) : i \in 1..Len(size2) /\ size2[i] = size[i]
      /\ chain2 \in Seq(Nat) /\ Once(chain2, Len(size2)) /\ chain2 # <<>>
  <2>1. CASE cb <= free /\ chain2 = chain /\ size2 = size /\ block = chain[1] /\ from = free - cb /\ chain # <<>>
    <3>1. free <= size[chain[1]] /\ from + cb = free
      BY <1>1, <2>1 DEF FrontFree
    <3>2. 1 \in 1..Len(chain)
      BY <2>1
    <3>3. chain[1] \in 1..Len(size)
      BY <1>1, <3>2 DEF Once
    <3>4. QED
      BY <1>1, <2>1, <3>1, <3>3
  <2>2. CASE chain2 = Objects!Behind(chain, new) /\ size2 = Append(size, cb) /\ block = new /\ from = 0
    <3>1. chain2 \in Seq(Nat) /\ Once(chain2, new) /\ chain2 # <<>>
      <4>1. PICK n \in Nat : n = Len(size)
        BY <1>4
      <4>2. Once(chain, n) /\ new = n + 1
        BY <1>1, <4>1
      <4>3. chain2 = Objects!Behind(chain, n + 1)
        BY <2>2, <4>2
      <4>4. Once(chain2, n + 1) /\ chain2 \in Seq(Nat) /\ chain2 # <<>>
        BY <4>2, <4>3, OneMore
      <4>5. QED
        BY <4>2, <4>4
    <3>2. from + cb <= cb
      BY <2>2
    <3>3. QED
      BY <1>4, <2>2, <3>1, <3>2
  <2>3. CASE chain2 = <<new>> \o chain /\ size2 = Append(size, BlockSize) /\ block = new /\ from = BlockSize - cb
    <3>1. chain2 \in Seq(Nat) /\ Once(chain2, new) /\ chain2 # <<>>
      <4>1. PICK n \in Nat : n = Len(size)
        BY <1>4
      <4>2. Once(chain, n) /\ new = n + 1
        BY <1>1, <4>1
      <4>3. Once(chain2, n + 1) /\ chain2 \in Seq(Nat) /\ chain2 # <<>>
        BY <2>3, <4>2, OneMore, ZenonT(40)
      <4>4. QED
        BY <4>2, <4>3
    <3>2. from + cb <= BlockSize
      BY <1>1, <2>3
    <3>3. QED
      BY <1>4, <2>3, <3>1, <3>2
  <2>4. QED
    BY <2>1, <2>2, <2>3 DEF SpanStep
<1>6. AllocTyped'
  <2>1. history.regions \cup {region} \in SUBSET Spans /\ history.freed \in Seq(Nat)
    BY DEF AllocInv, AllocTyped
  <2>2. QED
    BY <1>2, <1>3, <1>5, <2>1 DEF AllocTyped
<1>7. ASSUME NEW r \in history.regions
       PROVE  /\ r.block \in 1..Len(size2) /\ r.to <= size2[r.block]
              /\ Disjoint(r, region) /\ Disjoint(region, r)
  <2>1. r.block \in 1..Len(size) /\ r.to <= size[r.block]
    BY DEF AllocInv
  <2>2. block # new /\ r.block = block => free <= r.from /\ from + cb = free
    <3>1. block # new => block = chain[1] /\ chain # <<>> /\ from = free - cb
      BY DEF SpanStep
    <3>2. from = free - cb => from + cb = free
      OBVIOUS
    <3>3. QED
      BY <1>1, <3>1, <3>2 DEF FrontFree
  <2>3. block = new => r.block # block
    BY <1>4, <2>1
  <2>4. r.block = block => free <= r.from /\ from + cb = free
    BY <2>2, <2>3
  <2>5. r.block = block => region.to <= r.from
    BY <2>4
  <2>6. r.block \in 1..Len(size2) /\ r.to <= size2[r.block]
    BY <1>5, <2>1
  <2>7. QED
    BY <2>5, <2>6 DEF Disjoint
<1>8. \A r, s \in history'.regions : r = s \/ Disjoint(r, s)
  BY <1>3, <1>7 DEF AllocInv
<1>9. \A r \in history'.regions : r.block \in 1..Len(size2) /\ r.to <= size2[r.block]
  BY <1>3, <1>5, <1>7
<1>10. FrontFree'
  <2>1. free2 <= size2[chain2[1]] /\ \A r \in history.regions \cup {region} : r.block = chain2[1] => free2 <= r.from
    <3>1. CASE /\ cb <= free /\ chain2 = chain /\ free2 = free - cb /\ size2 = size
               /\ block = chain[1] /\ from = free - cb /\ chain # <<>>
      <4>1. /\ free <= size[chain[1]] /\ chain[1] \in 1..Len(size)
            /\ \A r \in history.regions : r.block = chain[1] => free <= r.from
        BY <1>1, <1>5, <3>1 DEF FrontFree
      <4>2. size[chain[1]] \in Nat /\ \A r \in history.regions : r.from \in Nat
        <5>1. size[chain[1]] \in Nat
          BY <4>1, ElementOfSeq
        <5>2. history.regions \subseteq Spans
          BY DEF AllocInv, AllocTyped
        <5>3. QED
          BY <5>1, <5>2 DEF Spans
      <4>3. \A x \in Nat : free <= x => free - cb <= x
        OBVIOUS
      <4>4. free - cb <= size[chain[1]] /\ free - cb <= from
        <5>1. PICK x \in Nat : x = size[chain[1]]
          BY <4>2
        <5>2. free <= x
          BY <4>1, <5>1
        <5>3. free - cb <= x
          BY <4>3, <5>2
        <5>4. free - cb <= from
          BY <3>1
        <5>5. QED
          BY <5>1, <5>3, <5>4
      <4>5. \A r \in history.regions : r.block = chain[1] => free - cb <= r.from
        BY <4>1, <4>2, <4>3
      <4>6. QED
        BY <3>1, <4>4, <4>5
    <3>2. CASE chain2 = Objects!Behind(chain, new) /\ free2 = free /\ size2 = Append(size, cb) /\ block = new /\ from = 0
      <4>1. CASE chain = <<>>
        <5>1. chain2 = <<new>> /\ free2 = 0
          BY <1>1, <3>2, <4>1 DEF Objects!Behind, FrontFree
        <5>2. chain2[1] = new /\ size2[new] = cb /\ 0 <= cb
          BY <1>4, <3>2, <5>1
        <5>3. \A r \in history.regions : r.from \in Nat
          <6>1. history.regions \subseteq Spans
            BY DEF AllocInv, AllocTyped
          <6>2. QED
            BY <6>1 DEF Spans
        <5>4. \A r \in history.regions \cup {region} : 0 <= r.from
          BY <5>3
        <5>5. QED
          BY <5>1, <5>2, <5>4
      <4>2. CASE chain # <<>>
        <5>1. chain2[1] = chain[1]
          BY <3>2, <4>2 DEF Objects!Behind, Objects!InsertAt
        <5>2. chain[1] \in 1..Len(size)
          <6>1. 1 \in 1..Len(chain)
            BY <4>2
          <6>2. QED
            BY <1>1, <6>1 DEF Once
        <5>3. free <= size[chain[1]] /\ \A r \in history.regions : r.block = chain[1] => free <= r.from
          BY <1>1, <4>2 DEF FrontFree
        <5>4. size2[chain[1]] = size[chain[1]] /\ chain[1] # new
          BY <1>4, <1>5, <5>2
        <5>5. QED
          BY <3>2, <5>1, <5>3, <5>4
      <4>3. QED
        BY <4>1, <4>2
    <3>3. CASE /\ chain2 = <<new>> \o chain /\ free2 = BlockSize - cb /\ size2 = Append(size, BlockSize)
               /\ block = new /\ from = BlockSize - cb
      <4>1. chain2[1] = new
        BY <3>3
      <4>2. BlockSize - cb <= BlockSize
        BY <1>1
      <4>3. \A r \in history.regions : r.block # new
        BY <1>4 DEF AllocInv
      <4>4. free2 <= from
        BY <3>3
      <4>5. QED
        BY <1>4, <3>3, <4>1, <4>2, <4>3, <4>4
    <3>4. QED
      BY <3>1, <3>2, <3>3 DEF SpanStep
  <2>2. history'.freed = <<>>
    BY <1>1, <1>3 DEF FrontFree
  <2>3. QED
    BY <1>2, <1>3, <1>5, <2>1, <2>2 DEF FrontFree
<1>11. Once(shared'.chain \o history'.freed, Len(history'.size))
  <2>1. chain2 \o history.freed = chain2
    BY <1>1, <1>5 DEF FrontFree
  <2>2. QED
    BY <1>2, <1>3, <1>5, <2>1
<1>12. QED
  BY <1>1, <1>3, <1>6, <1>8, <1>9, <1>10, <1>11 DEF AllocInv, FrontFree, Disjoint, Once

(* Alloc: from the first block, from a block behind it, or from a new first. *)
LEMMA AllocKeeps ==
  ASSUME AllocInv, NEW cb \in Nat \ {0}, NEW destructor \in BOOLEAN, Objects!Alloc(cb, destructor)
  PROVE  AllocInv'
<1>1. PICK chain \in Seq(Nat), free \in Nat, size \in Seq(Nat), old \in Seq(Spans) :
        chain = shared.chain /\ free = shared.free /\ size = history.size /\ old = shared.destroy
  BY DEF AllocInv, AllocTyped
<1>2. PICK new \in Nat : new = Len(size) + 1
  BY <1>1
<1>3. thread = "alloc" /\ thread' = thread /\ BlockSize \in Nat
  BY PartsAssumption DEF Objects!Alloc
<1>4. ASSUME NEW region \in Spans
      PROVE  (IF destructor THEN <<region>> \o old ELSE old) \in Seq(Spans)
  OBVIOUS
<1>5. ASSUME NEW block \in Nat, NEW from \in Nat
      PROVE  \E region \in Spans : /\ region = [block |-> block, from |-> from, to |-> from + cb]
                                   /\ region.block = block /\ region.from = from /\ region.to = from + cb
  <2>1. from + cb \in Nat
    OBVIOUS
  <2>2. PICK region : region = [block |-> block, from |-> from, to |-> from + cb]
    OBVIOUS
  <2>3. region \in Spans /\ region.block = block /\ region.from = from /\ region.to = from + cb
    BY <2>1, <2>2 DEF Spans
  <2>4. QED
    BY <2>2, <2>3
<1>6. CASE cb <= free
  <2>1. PICK from \in Nat : from = free - cb
    BY <1>6
  <2>2. chain # <<>> /\ Head(chain) = chain[1] /\ chain[1] \in Nat /\ cb <= shared.free
    BY <1>1, <1>3, <1>6 DEF AllocInv, FrontFree
  <2>3. PICK block \in Nat : block = chain[1]
    BY <2>2
  <2>4. PICK region \in Spans : /\ region = [block |-> block, from |-> from, to |-> from + cb]
                                /\ region.block = block /\ region.from = from /\ region.to = from + cb
    BY <1>5
  <2>5. shared' = [[shared EXCEPT !.free = from] EXCEPT !.destroy = IF destructor THEN <<region>> \o @ ELSE @]
    BY <1>1, <2>1, <2>2, <2>3, <2>4 DEF Objects!Alloc
  <2>6. [shared EXCEPT !.free = from] = [shared EXCEPT !.chain = chain, !.free = from]
    BY <1>1 DEF AllocInv, AllocTyped
  <2>7. history' = [history EXCEPT !.size = size, !.regions = @ \cup {region}]
    BY <1>1, <2>1, <2>2, <2>3, <2>4 DEF Objects!Alloc
  <2>8. PICK destroy \in Seq(Spans) : destroy = IF destructor THEN <<region>> \o old ELSE old
    BY <1>4
  <2>9. /\ shared' \in [chain : {chain}, free : {from}, destroy : Seq(Spans)]
        /\ history' \in [size : {size}, regions : {history.regions \cup {region}}, freed : {history.freed}]
    <3>1. shared' = [[shared EXCEPT !.chain = chain, !.free = from] EXCEPT !.destroy = destroy]
      BY <1>1, <2>5, <2>6, <2>8 DEF AllocInv, AllocTyped
    <3>2. shared' \in [chain : {chain}, free : {from}, destroy : Seq(Spans)]
      BY <3>1 DEF AllocInv, AllocTyped
    <3>3. QED
      BY <2>7, <3>2 DEF AllocInv, AllocTyped
  <2>10. SpanStep(cb, chain, free, size, new, chain, from, size, region, block, from)
    BY <1>1, <1>2, <1>3, <1>6, <2>1, <2>2, <2>3, <2>4, <2>9 DEF SpanStep
  <2>11. QED
    BY <2>10, SpanKeeps
<1>7. CASE ~(cb <= free) /\ cb >= BlockSize
  <2>1. ~(cb <= shared.free) /\ cb > shared.free
    BY <1>1, <1>7
  <2>2. PICK region \in Spans : /\ region = [block |-> new, from |-> 0, to |-> 0 + cb]
                                /\ region.block = new /\ region.from = 0 /\ region.to = 0 + cb
    BY <1>5, ZenonT(40)
  <2>3. PICK chain2 : chain2 = Objects!Behind(chain, new)
    OBVIOUS
  <2>4. shared' = [[shared EXCEPT !.chain = chain2] EXCEPT !.destroy = IF destructor THEN <<region>> \o @ ELSE @]
    BY <1>1, <1>2, <1>7, <2>1, <2>2, <2>3 DEF Objects!Alloc
  <2>5. [shared EXCEPT !.chain = chain2] = [shared EXCEPT !.chain = chain2, !.free = free]
    BY <1>1 DEF AllocInv, AllocTyped
  <2>6. history' = [history EXCEPT !.size = Append(size, cb), !.regions = @ \cup {region}]
    BY <1>1, <1>2, <1>7, <2>1, <2>2 DEF Objects!Alloc
  <2>7. PICK destroy \in Seq(Spans) : destroy = IF destructor THEN <<region>> \o old ELSE old
    BY <1>4
  <2>8. /\ shared' \in [chain : {chain2}, free : {free}, destroy : Seq(Spans)]
        /\ history' \in [size : {Append(size, cb)}, regions : {history.regions \cup {region}}, freed : {history.freed}]
    <3>1. shared' = [[shared EXCEPT !.chain = chain2, !.free = free] EXCEPT !.destroy = destroy]
      BY <1>1, <2>4, <2>5, <2>7 DEF AllocInv, AllocTyped
    <3>2. shared' \in [chain : {chain2}, free : {free}, destroy : Seq(Spans)]
      BY <3>1 DEF AllocInv, AllocTyped
    <3>3. QED
      BY <2>6, <3>2 DEF AllocInv, AllocTyped
  <2>9. PICK zero \in Nat : zero = 0
    OBVIOUS
  <2>10. region.from = zero /\ region.to = zero + cb
    BY <2>2, <2>9
  <2>11. SpanStep(cb, chain, free, size, new, chain2, free, Append(size, cb), region, new, zero)
    BY <1>1, <1>2, <1>3, <2>2, <2>3, <2>8, <2>9, <2>10 DEF SpanStep
  <2>12. QED
    BY <2>11, SpanKeeps
<1>8. CASE ~(cb <= free) /\ ~(cb >= BlockSize)
  <2>1. ~(cb <= shared.free) /\ ~(cb > shared.free /\ cb >= BlockSize)
    BY <1>1, <1>8
  <2>2. PICK from \in Nat : from = BlockSize - cb
    BY <1>3, <1>8
  <2>3. PICK region \in Spans : /\ region = [block |-> new, from |-> from, to |-> from + cb]
                                /\ region.block = new /\ region.from = from /\ region.to = from + cb
    BY <1>5
  <2>4. PICK chain2 : chain2 = <<new>> \o chain
    OBVIOUS
  <2>5. shared' = [[shared EXCEPT !.chain = chain2, !.free = from]
                     EXCEPT !.destroy = IF destructor THEN <<region>> \o @ ELSE @]
    BY <1>1, <1>2, <1>8, <2>1, <2>2, <2>3, <2>4 DEF Objects!Alloc
  <2>6. history' = [history EXCEPT !.size = Append(size, BlockSize), !.regions = @ \cup {region}]
    BY <1>1, <1>2, <1>8, <2>1, <2>2, <2>3 DEF Objects!Alloc
  <2>7. PICK destroy \in Seq(Spans) : destroy = IF destructor THEN <<region>> \o old ELSE old
    BY <1>4
  <2>8. /\ shared' \in [chain : {chain2}, free : {from}, destroy : Seq(Spans)]
        /\ history' \in [size : {Append(size, BlockSize)}, regions : {history.regions \cup {region}},
                         freed : {history.freed}]
    <3>1. shared' = [[shared EXCEPT !.chain = chain2, !.free = from] EXCEPT !.destroy = destroy]
      BY <1>1, <2>5, <2>7 DEF AllocInv, AllocTyped
    <3>2. shared' \in [chain : {chain2}, free : {from}, destroy : Seq(Spans)]
      BY <3>1 DEF AllocInv, AllocTyped
    <3>3. QED
      BY <2>6, <3>2 DEF AllocInv, AllocTyped
  <2>9. SpanStep(cb, chain, free, size, new, chain2, from, Append(size, BlockSize), region, new, from)
    BY <1>1, <1>2, <1>3, <2>2, <2>3, <2>4, <2>8 DEF SpanStep
  <2>10. QED
    BY <2>9, SpanKeeps
<1>9. QED
  BY <1>6, <1>7, <1>8

(* Every step of auto_alloc keeps its invariant.                           *)
LEMMA ObjectsNext ==
  ASSUME AllocInv, Objects!Next
  PROVE  AllocInv'
<1>1. ASSUME NEW cb \in Sizes, NEW destructor \in BOOLEAN, Objects!Alloc(cb, destructor)
      PROVE  AllocInv'
  <2>1. cb \in Nat \ {0}
    BY PartsAssumption
  <2>2. QED
    BY <1>1, <2>1, AllocKeeps
<1>2. ASSUME NEW cb \in Sizes, Objects!AllocWithDestructor(cb)
      PROVE  AllocInv'
  <2>1. NodeSize + cb \in Nat \ {0} /\ TRUE \in BOOLEAN
    BY PartsAssumption
  <2>2. QED
    BY <1>2, <2>1, AllocKeeps DEF Objects!AllocWithDestructor
<1>3. ASSUME Objects!Clear
      PROVE  AllocInv'
  BY <1>3 DEF Objects!Clear, AllocInv, AllocTyped, Once, Disjoint
<1>4. ASSUME Objects!Destroy
      PROVE  AllocInv'
  <2>1. /\ thread' = "destroy" /\ shared.destroy # <<>>
        /\ shared' \in [chain : {shared.chain}, free : {shared.free}, destroy : {Tail(shared.destroy)}]
        /\ history' \in [size : {history.size}, regions : {history.regions \ {Head(shared.destroy)}},
                         freed : {history.freed}]
    BY <1>4 DEF Objects!Destroy, AllocInv, AllocTyped
  <2>2. Tail(shared.destroy) \in Seq(Spans) /\ history.freed = <<>>
    BY <2>1 DEF AllocInv, AllocTyped
  <2>3. QED
    BY <2>1, <2>2, ZenonT(60) DEF AllocInv, AllocTyped, Once, Disjoint
<1>5. ASSUME Objects!Free
      PROVE  AllocInv'
  <2>1. PICK chain \in Seq(Nat), freed \in Seq(Nat), n \in Nat :
          chain = shared.chain /\ freed = history.freed /\ n = Len(history.size)
    BY DEF AllocInv, AllocTyped
  <2>2. /\ thread = "destroy" /\ thread' = "destroy" /\ shared.destroy = <<>> /\ chain # <<>>
        /\ shared' \in [chain : {Tail(chain)}, free : {shared.free}, destroy : {<<>>}]
        /\ history' \in [size : {history.size}, regions : SUBSET history.regions,
                         freed : {Append(freed, Head(chain))}]
    BY <1>5, <2>1 DEF Objects!Free, AllocInv, AllocTyped
  <2>3. Once(chain \o freed, n)
    BY <2>1 DEF AllocInv
  <2>4. Once(Tail(chain) \o Append(freed, Head(chain)), n)
    BY <2>2, <2>3, OneFreed
  <2>5. Tail(chain) \in Seq(Nat) /\ Append(freed, Head(chain)) \in Seq(Nat)
    BY <2>2
  <2>6. AllocTyped'
    BY <2>2, <2>5 DEF AllocInv, AllocTyped
  <2>7. Once(shared'.chain \o history'.freed, Len(history'.size))
    BY <2>1, <2>2, <2>4
  <2>8. /\ \A r \in history'.regions : r.block \in 1..Len(history'.size) /\ r.to <= history'.size[r.block]
        /\ \A r, s \in history'.regions : r = s \/ Disjoint(r, s)
    BY <2>2 DEF AllocInv
  <2>9. QED
    BY <2>2, <2>6, <2>7, <2>8 DEF AllocInv, Disjoint, Once
<1>6. ASSUME Objects!Cleared
      PROVE  AllocInv'
  <2>1. /\ thread' = "alloc" /\ history' = [size |-> <<>>, regions |-> {}, freed |-> <<>>]
        /\ shared' \in [chain : {<<>>}, free : {0}, destroy : {<<>>}]
    BY <1>6 DEF Objects!Cleared, AllocInv, AllocTyped
  <2>2. history'.size = <<>> /\ history'.regions = {} /\ history'.freed = <<>>
    BY <2>1
  <2>3. AllocTyped'
    <3>1. <<>> \in Seq(Nat) /\ <<>> \in Seq(Spans) /\ 0 \in Nat
      OBVIOUS
    <3>2. history' \in [size : Seq(Nat), regions : SUBSET Spans, freed : Seq(Nat)]
      BY <2>1, <3>1
    <3>3. shared' \in [chain : Seq(Nat), free : Nat, destroy : Seq(Spans)]
      <4>1. PICK x \in Seq(Nat), y \in Seq(Spans), z \in Nat : x = <<>> /\ y = <<>> /\ z = 0
        BY <3>1
      <4>2. shared' \in [chain : {x}, free : {z}, destroy : {y}]
        BY <2>1, <4>1
      <4>3. QED
        BY <4>2
    <3>4. QED
      BY <2>1, <3>2, <3>3 DEF AllocTyped
  <2>4. Once(shared'.chain \o history'.freed, Len(history'.size))
    BY <2>1, <2>2 DEF Once
  <2>5. QED
    BY <2>1, <2>2, <2>3, <2>4 DEF AllocInv, FrontFree, Once, Disjoint
<1>7. QED
  BY <1>1, <1>2, <1>3, <1>4, <1>5, <1>6 DEF Objects!Next

(* In such a state nothing has leaked and nothing overlaps.                *)
LEMMA NothingLeaks ==
  ASSUME AllocInv
  PROVE  Objects!NothingLeaksOrOverlaps
<1>1. PICK blocks : blocks = shared.chain \o history.freed
  OBVIOUS
<1>2. blocks \in Seq(Nat) /\ Once(blocks, Len(history.size)) /\ DOMAIN history.size = 1..Len(history.size)
  BY <1>1 DEF AllocInv, AllocTyped
<1>3. DOMAIN blocks = 1..Len(blocks)
  BY <1>2
<1>4. Objects!IsInjective(blocks)
  BY <1>2, <1>3 DEF Once, Objects!IsInjective
<1>5. Objects!ToSet(blocks) = DOMAIN history.size
  <2>1. \A i \in DOMAIN blocks : blocks[i] \in DOMAIN history.size
    BY <1>2, <1>3 DEF Once
  <2>2. \A b \in DOMAIN history.size : \E i \in DOMAIN blocks : b = blocks[i]
    BY <1>2, <1>3 DEF Once
  <2>3. QED
    BY <2>1, <2>2 DEF Objects!ToSet
<1>6. \A r \in history.regions : r.from >= 0 /\ r.to <= history.size[r.block]
  <2>1. history.regions \subseteq Spans
    BY DEF AllocInv, AllocTyped
  <2>2. \A r \in history.regions : r.from >= 0
    BY <2>1 DEF Spans
  <2>3. QED
    BY <2>2 DEF AllocInv
<1>7. \A i \in DOMAIN shared.destroy : ~Objects!Contains(history.freed, shared.destroy[i].block)
  <2>1. CASE history.freed = <<>>
    BY <2>1 DEF Objects!Contains
  <2>2. CASE shared.destroy = <<>>
    BY <2>2
  <2>3. QED
    BY <2>1, <2>2 DEF AllocInv
<1>8. \A r, s \in history.regions : r = s \/ r.block # s.block \/ r.to <= s.from \/ s.to <= r.from
  BY DEF AllocInv, Disjoint
<1>9. QED
  BY <1>1, <1>4, <1>5, <1>6, <1>7, <1>8 DEF Objects!NothingLeaksOrOverlaps

------------------------------------------------------------------------------
(* The allocators: the theorem                                             *)

(* Both begin with nothing.                                                *)
LEMMA AllocatorsInit ==
  /\ Blocks!Init => ArenaInv
  /\ Objects!Init => AllocInv
<1>1. ASSUME Blocks!Init
      PROVE  ArenaInv
  BY <1>1 DEF Blocks!Init, ArenaInv, ArenaTyped
<1>2. ASSUME Objects!Init
      PROVE  AllocInv
  <2>1. <<>> \in Seq(Nat) /\ <<>> \in Seq(Spans)
    OBVIOUS
  <2>2. /\ shared.chain = <<>> /\ shared.free = 0 /\ shared.destroy = <<>> /\ thread = "alloc"
        /\ history.size = <<>> /\ history.regions = {} /\ history.freed = <<>>
    BY <1>2 DEF Objects!Init
  <2>3. AllocTyped
    <3>1. history \in [size : Seq(Nat), regions : SUBSET Spans, freed : Seq(Nat)]
      BY <1>2, <2>1 DEF Objects!Init
    <3>2. PICK x \in Seq(Nat), y \in Seq(Spans), z \in Nat : x = <<>> /\ y = <<>> /\ z = 0
      BY <2>1
    <3>3. shared \in [chain : {x}, free : {z}, destroy : {y}]
      BY <1>2, <3>2 DEF Objects!Init
    <3>4. shared \in [chain : Seq(Nat), free : Nat, destroy : Seq(Spans)]
      BY <3>3
    <3>5. QED
      BY <2>2, <3>1, <3>4 DEF AllocTyped
  <2>4. Once(shared.chain \o history.freed, Len(history.size))
    BY <2>2 DEF Once
  <2>5. QED
    BY <2>2, <2>3, <2>4 DEF AllocInv, FrontFree
<1>3. QED
  BY <1>1, <1>2

(* Of the two allocators, for any sizes asked for: what they hand out      *)
(* shares no byte with anything else that is in use and lies in its block, *)
(* an aligned address is aligned, no block is lost or freed twice, and a   *)
(* destructor runs before its memory is freed.                             *)
THEOREM AllocatorsHandOutOnce == Spec => []AllocationsApart
<1> DEFINE Inv == /\ part = "arena" => ArenaInv
                  /\ part = "auto_alloc" => AllocInv
<1>1. Init => Inv
  BY AllocatorsInit DEF Init
<1>2. Inv /\ [Next]_vars => Inv'
  <2>1. ASSUME ArenaInv, part = "arena", Next
        PROVE  ArenaInv'
    <3>1. Blocks!Next
      BY <2>1 DEF Next, ListStep, TableStep, BlocksStep, ObjectsStep, TracerStep, IndexStep, DigestStep
    <3>2. QED
      BY <2>1, <3>1, ArenaNext
  <2>2. ASSUME AllocInv, part = "auto_alloc", Next
        PROVE  AllocInv'
    <3>1. Objects!Next
      BY <2>2 DEF Next, ListStep, TableStep, BlocksStep, ObjectsStep, TracerStep, IndexStep, DigestStep
    <3>2. QED
      BY <2>2, <3>1, ObjectsNext
  <2>3. ASSUME ArenaInv, UNCHANGED vars
        PROVE  ArenaInv'
    BY <2>3 DEF vars, state, ArenaInv, ArenaTyped, InBlock, Blocks!Apart
  <2>4. ASSUME AllocInv, UNCHANGED vars
        PROVE  AllocInv'
    BY <2>4 DEF vars, state, AllocInv, AllocTyped, FrontFree, Once, Disjoint
  <2>5. part' = part \/ ~[Next]_vars
    BY DEF Next, vars
  <2>6. QED
    BY <2>1, <2>2, <2>3, <2>4, <2>5
<1>3. Inv => AllocationsApart
  <2>1. ArenaInv => Blocks!RegionsApart
    BY DEF ArenaInv, InBlock, Blocks!RegionsApart
  <2>2. QED
    BY <2>1, NothingLeaks DEF AllocationsApart
<1>4. QED
  BY <1>1, <1>2, <1>3, PTL DEF Spec

------------------------------------------------------------------------------
(* The persistence judge                                                   *)

(* What a power failure may leave of a word is what the log can put back.  *)
Undone(w) == Tracer!ToSet(shared.write_log[w]) \cup {shared.memory[w]}

TracerTyped ==
  /\ shared \in [memory : [Words -> Nat], write_log : [Words -> Seq(Nat)],
                 state : [Words -> {Nothing, 0, 1}]]
  /\ thread \in {"run", "drain", "final", "exit"}
  /\ history \in [writes : Nat, survivors : [Words -> SUBSET Nat], flushed : SUBSET Words,
                  skipped : SUBSET Words]

(* Only within pmem_persist is a word about to be written back, and those  *)
(* are the words of its flush.                                             *)
TracerInv ==
  /\ TracerTyped
  /\ thread = "drain" => \A w \in Words : shared.state[w] = 1 <=> w \in history.flushed
  /\ thread \in {"run", "final"} => history.flushed = {} /\ \A w \in Words : shared.state[w] # 1
  /\ IF thread = "exit" THEN \A w \in Words : shared.memory[w] \in history.survivors[w]
     ELSE \A w \in Words : /\ Undone(w) \subseteq history.survivors[w]
                           /\ w \notin history.skipped => Undone(w) = history.survivors[w]

(* A start: nothing has been written.                                      *)
LEMMA TracerStarts ==
  ASSUME NEW m \in [Words -> Nat], shared = Tracer!Started(m), thread = "run",
         history = Tracer!Persistent(m)
  PROVE  TracerInv
<1>1. shared.memory = m /\ shared.write_log = [w \in Words |-> <<>>] /\ shared.state = [w \in Words |-> Nothing]
  BY DEF Tracer!Started
<1>2. /\ history.survivors = [w \in Words |-> {m[w]}] /\ history.flushed = {} /\ history.skipped = {}
      /\ history.writes = 0
  BY DEF Tracer!Persistent
<1>3. TracerTyped
  <2>1. shared \in [memory : {m}, write_log : [Words -> Seq(Nat)], state : [Words -> {Nothing}]]
    BY DEF Tracer!Started
  <2>2. history \in [writes : Nat, survivors : [Words -> SUBSET Nat], flushed : SUBSET Words,
                     skipped : SUBSET Words]
    BY DEF Tracer!Persistent
  <2>3. QED
    BY <2>1, <2>2 DEF TracerTyped
<1>4. \A w \in Words : Undone(w) = history.survivors[w]
  BY <1>1, <1>2 DEF Undone, Tracer!ToSet
<1>5. \A w \in Words : shared.state[w] # 1
  BY <1>1, PartsAssumption
<1>6. QED
  BY <1>2, <1>3, <1>4, <1>5 DEF TracerInv

(* A store adds what it overwrites to the log, and its value to what may   *)
(* be left.                                                                *)
LEMMA WriteKeeps ==
  ASSUME TracerInv, NEW words \in SUBSET Words, Tracer!Write(words)
  PROVE  TracerInv'
<1>1. PICK value \in Nat : value = history.writes + 1
  BY DEF TracerInv, TracerTyped
<1>2. PICK memory \in [Words -> Nat], log \in [Words -> Seq(Nat)], status \in [Words -> {Nothing, 0, 1}],
           survivors \in [Words -> SUBSET Nat] :
        /\ memory = shared.memory /\ log = shared.write_log /\ status = shared.state
        /\ survivors = history.survivors
  BY DEF TracerInv, TracerTyped
<1>3. /\ thread = "run" /\ thread' = "run"
      /\ shared'.memory = [w \in Words |-> IF w \in words THEN value ELSE memory[w]]
      /\ shared'.write_log = [w \in Words |-> IF w \in words THEN Append(log[w], memory[w]) ELSE log[w]]
      /\ shared'.state = Tracer!Plus(status, words, 0)
      /\ shared' \in [memory : {shared'.memory}, write_log : {shared'.write_log}, state : {shared'.state}]
  BY <1>1, <1>2 DEF Tracer!Write, Tracer!modified
<1>4. /\ history'.survivors = [w \in Words |-> IF w \in words THEN survivors[w] \cup {value} ELSE survivors[w]]
      /\ history'.flushed = history.flushed /\ history'.skipped = history.skipped
      /\ history' \in [writes : {value}, survivors : {history'.survivors}, flushed : {history.flushed},
                       skipped : {history.skipped}]
  BY <1>1, <1>2 DEF Tracer!Write, TracerInv, TracerTyped
<1>5. history.flushed = {} /\ \A w \in Words : status[w] \in {Nothing, 0}
  BY <1>2, <1>3 DEF TracerInv
<1>6. \A w \in Words : shared'.state[w] \in {Nothing, 0}
  <2>1. 0 + 0 = 0
    OBVIOUS
  <2>2. QED
    BY <1>3, <1>5, <2>1 DEF Tracer!Plus
<1>7. TracerTyped'
  <2>1. shared'.memory \in [Words -> Nat] /\ shared'.write_log \in [Words -> Seq(Nat)]
    BY <1>3
  <2>2. shared'.state \in [Words -> {Nothing, 0, 1}]
    BY <1>3, <1>6 DEF Tracer!Plus
  <2>3. history'.survivors \in [Words -> SUBSET Nat]
    BY <1>4
  <2>4. history.flushed \in SUBSET Words /\ history.skipped \in SUBSET Words
    BY DEF TracerInv, TracerTyped
  <2>5. shared' \in [memory : [Words -> Nat], write_log : [Words -> Seq(Nat)], state : [Words -> {Nothing, 0, 1}]]
    BY <1>3, <2>1, <2>2
  <2>6. history' \in [writes : Nat, survivors : [Words -> SUBSET Nat], flushed : SUBSET Words,
                      skipped : SUBSET Words]
    BY <1>4, <2>3, <2>4
  <2>7. QED
    BY <1>3, <2>5, <2>6 DEF TracerTyped
<1>8. ASSUME NEW w \in Words
      PROVE  /\ Undone(w)' \subseteq history'.survivors[w]
             /\ w \notin history.skipped => Undone(w)' = history'.survivors[w]
  <2>1. /\ Undone(w) \subseteq survivors[w]
        /\ w \notin history.skipped => Undone(w) = survivors[w]
    BY <1>2, <1>3 DEF TracerInv
  <2>2. Undone(w)' = Undone(w) \cup (IF w \in words THEN {value} ELSE {})
    <3>1. CASE w \in words
      <4>1. PICK s \in Seq(Nat), m \in Nat : s = log[w] /\ m = memory[w]
        OBVIOUS
      <4>2. Tracer!ToSet(Append(s, m)) = Tracer!ToSet(s) \cup {m}
        <5>1. /\ DOMAIN Append(s, m) = 1..Len(s) + 1 /\ DOMAIN s = 1..Len(s) /\ Len(s) \in Nat
              /\ \A i \in 1..Len(s) : Append(s, m)[i] = s[i] /\ i \in 1..Len(s) + 1
              /\ Append(s, m)[Len(s) + 1] = m /\ Len(s) + 1 \in 1..Len(s) + 1
              /\ \A i \in 1..Len(s) + 1 : i = Len(s) + 1 \/ i \in 1..Len(s)
          OBVIOUS
        <5>2. QED
          BY <5>1 DEF Tracer!ToSet
      <4>3. Undone(w)' = Tracer!ToSet(Append(s, m)) \cup {value}
        BY <1>3, <3>1, <4>1 DEF Undone
      <4>4. Undone(w) = Tracer!ToSet(s) \cup {m}
        BY <1>2, <4>1 DEF Undone
      <4>5. QED
        BY <3>1, <4>2, <4>3, <4>4
    <3>2. CASE w \notin words
      BY <1>2, <1>3, <3>2 DEF Undone
    <3>3. QED
      BY <3>1, <3>2
  <2>3. history'.survivors[w] = survivors[w] \cup (IF w \in words THEN {value} ELSE {})
    BY <1>4
  <2>4. QED
    BY <2>1, <2>2, <2>3
<1>9. \A w \in Words : shared'.state[w] # 1
  <2>1. Nothing # 1 /\ 0 # 1
    BY ONLY PartsAssumption
  <2>2. \A v \in {Nothing, 0} : v # 1
    BY ONLY <2>1
  <2>3. QED
    BY ONLY <1>6, <2>2
<1>10. history'.flushed = {}
  BY <1>4, <1>5
<1>11. QED
  BY <1>3, <1>4, <1>7, <1>8, <1>9, <1>10 DEF TracerInv

(* pmem_persist begins.                                                    *)
LEMMA FlushKeeps ==
  ASSUME TracerInv, NEW words \in SUBSET Words, Tracer!Flush(words)
  PROVE  TracerInv'
<1>1. /\ thread = "run" /\ thread' = "drain"
      /\ shared'.memory = shared.memory /\ shared'.write_log = shared.write_log
      /\ shared'.state = Tracer!Plus(shared.state, words, 1)
      /\ shared' \in [memory : {shared.memory}, write_log : {shared.write_log}, state : {shared'.state}]
      /\ history'.survivors = history.survivors /\ history'.skipped = history.skipped
      /\ history'.flushed = words
      /\ history' \in [writes : {history.writes}, survivors : {history.survivors}, flushed : {words},
                       skipped : {history.skipped}]
  BY DEF Tracer!Flush, Tracer!writeback, TracerInv, TracerTyped
<1>2. \A w \in Words : shared.state[w] \in {Nothing, 0}
  BY <1>1 DEF TracerInv, TracerTyped
<1>3. \A w \in Words : IF w \in words THEN shared'.state[w] = 1 ELSE shared'.state[w] \in {Nothing, 0}
  <2>1. 0 + 1 = 1
    OBVIOUS
  <2>2. QED
    BY <1>1, <1>2, <2>1 DEF Tracer!Plus
<1>4. TracerTyped'
  <2>1. shared'.state \in [Words -> {Nothing, 0, 1}]
    BY <1>1, <1>3 DEF Tracer!Plus
  <2>2. QED
    BY <1>1, <2>1 DEF TracerInv, TracerTyped
<1>5. \A w \in Words : shared'.state[w] = 1 <=> w \in words
  BY <1>3, PartsAssumption
<1>6. \A w \in Words : Undone(w)' = Undone(w)
  BY <1>1 DEF Undone
<1>7. QED
  BY <1>1, <1>4, <1>5, <1>6 DEF TracerInv

(* ... and ends: the log forgets the words of the flush, and others behind *)
(* them.                                                                   *)
LEMMA DrainKeeps ==
  ASSUME TracerInv, Tracer!Drain
  PROVE  TracerInv'
<1>1. thread = "drain" /\ thread' = "run"
  BY DEF Tracer!Drain
<1>2. PICK done, dropped \in SUBSET Words :
        done = history.flushed /\ dropped = done \cup {w \in Words : w - 1 \in done}
  BY DEF TracerInv, TracerTyped
<1>3. Tracer!Written(shared.state) = done /\ Tracer!Dropped(shared.state) = dropped
  <2>1. Tracer!Written(shared.state) = done
    BY <1>1, <1>2 DEF Tracer!Written, Tracer!writeback, TracerInv
  <2>2. QED
    BY <1>2, <2>1 DEF Tracer!Dropped
<1>4. /\ shared'.memory = shared.memory
      /\ shared'.write_log = [w \in Words |-> IF w \in dropped THEN <<>> ELSE shared.write_log[w]]
      /\ shared'.state = [w \in Words |-> IF w \in done THEN Nothing ELSE shared.state[w]]
      /\ shared' \in [memory : {shared.memory}, write_log : {shared'.write_log}, state : {shared'.state}]
  BY <1>3 DEF Tracer!Drain, TracerInv, TracerTyped
<1>5. /\ history'.survivors = [w \in Words |-> IF w \in done THEN {shared.memory[w]} ELSE history.survivors[w]]
      /\ history'.flushed = {}
      /\ history'.skipped = (history.skipped \ done) \cup {w \in Words \ done :
                               w - 1 \in done /\ history.survivors[w] # {shared.memory[w]}}
      /\ history' \in [writes : {history.writes}, survivors : {history'.survivors}, flushed : {{}},
                       skipped : {history'.skipped}]
  BY <1>2 DEF Tracer!Drain, TracerInv, TracerTyped
<1>6. TracerTyped'
  <2>1. shared'.write_log \in [Words -> Seq(Nat)]
    <3>1. <<>> \in Seq(Nat) /\ shared.write_log \in [Words -> Seq(Nat)]
      BY DEF TracerInv, TracerTyped
    <3>2. QED
      BY <1>4, <3>1
  <2>2. shared'.state \in [Words -> {Nothing, 0, 1}] /\ shared.memory \in [Words -> Nat]
    BY <1>4 DEF TracerInv, TracerTyped
  <2>3. history'.survivors \in [Words -> SUBSET Nat] /\ history.writes \in Nat
    BY <1>5 DEF TracerInv, TracerTyped
  <2>4. history'.skipped \in SUBSET Words
    BY <1>5 DEF TracerInv, TracerTyped
  <2>5. shared' \in [memory : [Words -> Nat], write_log : [Words -> Seq(Nat)], state : [Words -> {Nothing, 0, 1}]]
    BY <1>4, <2>1, <2>2
  <2>6. history' \in [writes : Nat, survivors : [Words -> SUBSET Nat], flushed : SUBSET Words,
                      skipped : SUBSET Words]
    BY <1>5, <2>3, <2>4
  <2>7. QED
    BY <1>1, <2>5, <2>6 DEF TracerTyped
<1>7. \A w \in Words : shared'.state[w] # 1
  BY <1>1, <1>2, <1>4, PartsAssumption DEF TracerInv
<1>8. ASSUME NEW w \in Words
      PROVE  /\ Undone(w)' \subseteq history'.survivors[w]
             /\ w \notin history'.skipped => Undone(w)' = history'.survivors[w]
  <2>1. /\ Undone(w) \subseteq history.survivors[w] /\ shared.memory[w] \in Undone(w)
        /\ w \notin history.skipped => Undone(w) = history.survivors[w]
    BY <1>1 DEF TracerInv, Undone
  <2>2. CASE w \in dropped
    <3>1. Undone(w)' = {shared.memory[w]}
      BY <1>4, <2>2 DEF Undone, Tracer!ToSet
    <3>2. QED
      BY <1>2, <1>5, <2>1, <2>2, <3>1
  <2>3. CASE w \notin dropped
    <3>1. Undone(w)' = Undone(w)
      BY <1>4, <2>3 DEF Undone
    <3>2. history'.survivors[w] = history.survivors[w] /\ (w \notin history'.skipped => w \notin history.skipped)
      BY <1>2, <1>5, <2>3
    <3>3. QED
      BY <2>1, <3>1, <3>2
  <2>4. QED
    BY <2>2, <2>3
<1>9. QED
  BY <1>1, <1>5, <1>6, <1>7, <1>8 DEF TracerInv

(* Every step of the judge keeps its invariant.                            *)
LEMMA TracerNext ==
  ASSUME TracerInv, Tracer!Next
  PROVE  TracerInv'
<1>1. ASSUME NEW words \in Tracer!Ranges
      PROVE  words \in SUBSET Words
  BY DEF Tracer!Ranges
<1>2. ASSUME Tracer!Final
      PROVE  TracerInv'
  BY <1>2 DEF Tracer!Final, TracerInv, TracerTyped, Undone
<1>3. ASSUME Tracer!MakeTest
      PROVE  TracerInv'
  <2>1. \A w \in Words : Undone(w) \subseteq history.survivors[w]
    BY <1>3 DEF Tracer!MakeTest, TracerInv
  <2>2. PICK kept \in [Words -> Nat] :
          /\ \A w \in Words : kept[w] \in Undone(w)
          /\ shared' \in [memory : {kept}, write_log : {shared.write_log}, state : {shared.state}]
    <3>1. CASE shared' = shared
      <4>1. /\ shared.memory \in [Words -> Nat] /\ \A w \in Words : shared.memory[w] \in Undone(w)
            /\ shared' \in [memory : {shared.memory}, write_log : {shared.write_log}, state : {shared.state}]
        BY <3>1 DEF TracerInv, TracerTyped, Undone
      <4>2. QED
        BY <4>1
    <3>2. CASE shared' # shared
      <4>1. PICK kept \in [Words -> 0..MaxWrites] :
              /\ \A w \in Words : kept[w] \in Undone(w)
              /\ shared' = [shared EXCEPT !.memory = kept]
        BY <1>3, <3>2 DEF Tracer!MakeTest, Undone
      <4>2. kept \in [Words -> Nat]
        OBVIOUS
      <4>3. shared' \in [memory : {kept}, write_log : {shared.write_log}, state : {shared.state}]
        BY <4>1 DEF TracerInv, TracerTyped
      <4>4. QED
        BY <4>1, <4>2, <4>3
    <3>3. QED
      BY <3>1, <3>2
  <2>3. thread' = "exit" /\ history' = history
    BY <1>3 DEF Tracer!MakeTest
  <2>4. TracerTyped'
    BY <2>2, <2>3 DEF TracerInv, TracerTyped
  <2>5. \A w \in Words : shared'.memory[w] \in history'.survivors[w]
    BY <2>1, <2>2, <2>3
  <2>6. QED
    BY <2>3, <2>4, <2>5 DEF TracerInv
<1>4. ASSUME Tracer!Restart
      PROVE  TracerInv'
  <2>1. PICK m \in [Words -> Nat] : m = [w \in Words |-> 0]
    OBVIOUS
  <2>2. shared' = Tracer!Started(m) /\ thread' = "run" /\ shared'.memory = m
    BY <1>4, <2>1 DEF Tracer!Restart, Tracer!Started
  <2>3. history' = Tracer!Persistent(m)
    BY <1>4, <2>2 DEF Tracer!Restart
  <2>4. /\ shared'.write_log = [w \in Words |-> <<>>] /\ shared'.state = [w \in Words |-> Nothing]
        /\ history'.survivors = [w \in Words |-> {m[w]}] /\ history'.flushed = {} /\ history'.skipped = {}
    BY <2>2, <2>3 DEF Tracer!Started, Tracer!Persistent
  <2>5. TracerTyped'
    <3>1. shared' \in [memory : {m}, write_log : [Words -> Seq(Nat)], state : [Words -> {Nothing}]]
      BY <2>2 DEF Tracer!Started
    <3>2. history' \in [writes : Nat, survivors : [Words -> SUBSET Nat], flushed : SUBSET Words,
                       skipped : SUBSET Words]
      BY <2>3 DEF Tracer!Persistent
    <3>3. QED
      BY <2>2, <3>1, <3>2 DEF TracerTyped
  <2>6. \A w \in Words : Undone(w)' = history'.survivors[w]
    BY <2>2, <2>4 DEF Undone, Tracer!ToSet
  <2>7. \A w \in Words : shared'.state[w] # 1
    BY <2>4, PartsAssumption
  <2>8. QED
    BY <2>2, <2>4, <2>5, <2>6, <2>7 DEF TracerInv
<1>5. QED
  BY <1>1, <1>2, <1>3, <1>4, WriteKeeps, FlushKeeps, DrainKeeps DEF Tracer!Next

(* Of MyPinTool, for any number of words and any stores, flushes and       *)
(* drains: the memory it leaves is one a power failure can leave, and it   *)
(* can leave every such value of a word it has not passed over.            *)
THEOREM TracerIsFair == Spec => []TracerUndoesWhatMayBeLost
<1> DEFINE Inv == part = "MyPinTool" => TracerInv
<1>1. Init => Inv
  <2>1. ASSUME Tracer!Init
        PROVE  TracerInv
    <3>1. PICK m \in [Words -> Nat] : m = [w \in Words |-> 0]
      OBVIOUS
    <3>2. shared = Tracer!Started(m) /\ thread = "run" /\ shared.memory = m
      BY <2>1, <3>1 DEF Tracer!Init, Tracer!Started
    <3>3. history = Tracer!Persistent(m)
      BY <2>1, <3>2 DEF Tracer!Init
    <3>4. QED
      BY <3>2, <3>3, TracerStarts
  <2>2. QED
    BY <2>1 DEF Init
<1>2. Inv /\ [Next]_vars => Inv'
  <2>1. ASSUME TracerInv, part = "MyPinTool", Next
        PROVE  TracerInv'
    <3>1. Tracer!Next
      BY <2>1 DEF Next, ListStep, TableStep, BlocksStep, ObjectsStep, TracerStep, IndexStep, DigestStep
    <3>2. QED
      BY <2>1, <3>1, TracerNext
  <2>2. ASSUME TracerInv, UNCHANGED vars
        PROVE  TracerInv'
    BY <2>2 DEF vars, state, TracerInv, TracerTyped, Undone
  <2>3. part' = part \/ ~[Next]_vars
    BY DEF Next, vars
  <2>4. QED
    BY <2>1, <2>2, <2>3
<1>3. Inv => TracerUndoesWhatMayBeLost
  BY DEF TracerInv, Undone, TracerUndoesWhatMayBeLost, Tracer!UndoesWhatMayBeLost
<1>4. QED
  BY <1>1, <1>2, <1>3, PTL DEF Spec

------------------------------------------------------------------------------
(* The skip list: its inductive invariant                                  *)

Root == List!head_
On(i) == List!OnLevel(i)
KeyOf(n) == shared.node[n].key
ValOf(n) == shared.node[n].val
Link(n, i) == shared.node[n].next[i]
Links(n) == DOMAIN shared.node[n].next
Made == DOMAIN shared.node

(* A list of the nodes S in the order of their keys K, with the links X.   *)
After(S, K, n) == {m \in S \ {Root} : n = Root \/ K[m] > K[n]}
Chained(S, K, X) ==
  \A n \in S :
    /\ \A m \in S \ {Root, n} : n # Root => K[m] # K[n]
    /\ IF After(S, K, n) = {} THEN X[n] = List!nullptr
       ELSE \E m \in After(S, K, n) : X[n] = m /\ \A o \in After(S, K, n) : K[m] <= K[o]

(* Node n of level i is the last one below the key k.                      *)
Below(n, k) == n = Root \/ KeyOf(n) < k
Precedes(n, i, k) ==
  /\ n \in On(i) /\ Below(n, k)
  /\ \A m \in On(i) \ {Root} : KeyOf(m) < k => n # Root /\ KeyOf(m) <= KeyOf(n)
HasNode(k) == \E n \in On(0) \ {Root} : KeyOf(n) = k

ListOps == {"idle", "lock", "search", "found", "overwrite", "new", "setnext", "publish", "unlock"}
ListCalls == {"Get", "Insert", "Seek", "SeekToFirst", "SeekToLast", "Next", "Prev"}
ListThreads == [op : ListOps, call : ListCalls \cup {Nothing}, key : ListKeys \cup {Nothing}, x : Nat,
                level : 0..kMaxHeight, prev : [List!Levels -> Nat], height : 0..kMaxHeight,
                since : Nat, old : SUBSET ListKeys]
ListNodes == [key : ListKeys \cup {Nothing}, val : Nat \cup {NotFound},
              next : UNION {[0..h - 1 -> Int] : h \in 1..kMaxHeight}]

ListTyped ==
  /\ shared \in [node : Seq(ListNodes), max_height_ : 1..kMaxHeight, lock_ : Threads \cup {Nothing}]
  /\ thread \in [Threads -> ListThreads]
  /\ history \in [begun : Nat, stored : [ListKeys -> Nat], returned : [ListKeys -> Nat]]

(* The nodes of a level are made and have a link on it, and they are on    *)
(* all levels below; levels not in use have the head alone.                *)
NodesInv ==
  /\ Root \in Made
  /\ \A i \in List!Levels : \A n \in On(i) :
       n \in Made /\ i \in Links(n) /\ (n # Root => KeyOf(n) \in ListKeys)
  /\ \A i, j \in List!Levels : j <= i => On(i) \subseteq On(j)
  /\ \A i \in List!Levels : i >= shared.max_height_ => On(i) = {Root}

(* A key with an Insert that has taken place has a node, with what the     *)
(* last one stored; one that returned has taken place.                     *)
StoredInv ==
  /\ \A k \in ListKeys : history.stored[k] > 0 => HasNode(k)
  /\ \A n \in On(0) \ {Root} : ValOf(n) = history.stored[KeyOf(n)] /\ ValOf(n) > 0
  /\ \A k \in ListKeys : history.returned[k] <= history.stored[k]

(* What a thread knows without the lock: the node it is at is on its level *)
(* and before the key it looks for.                                        *)
PlaceInv(t) ==
  LET c == thread[t] IN
  /\ c.op = "idle" => c.x = List!nullptr \/ c.x \in On(0) \ {Root}
  /\ c.op = "lock" => c.key \in ListKeys
  /\ c.op \in {"overwrite", "new", "setnext", "publish", "unlock"} => c.call = "Insert"
  /\ c.op \notin {"idle", "lock"} => c.call \in ListCalls
  /\ c.op \notin {"idle", "lock"} /\ c.call \notin {"SeekToFirst", "SeekToLast"} => c.key \in ListKeys
  /\ c.op = "search" => /\ c.call \notin {"SeekToFirst", "Next"}
                        /\ c.level \in List!Levels /\ c.x \in On(c.level)
                        /\ c.call # "SeekToLast" => Below(c.x, c.key)
  /\ c.op = "found" => c.x \in On(0) \cup {List!nullptr}
  /\ c.op \in {"search", "found"} /\ c.call = "Get" => c.since <= history.returned[c.key]
  /\ \A k \in c.old : HasNode(k)

GetInv(t) ==
  LET c == thread[t] IN
  c.op = "found" /\ c.call = "Get" =>
    c.x # Root /\ (c.x = List!nullptr \/ KeyOf(c.x) # c.key => c.since = 0)

Ahead(t) ==
  {k \in ListKeys : CASE thread[t].call = "Seek" -> k >= thread[t].key
                      [] thread[t].call = "Next" -> k > thread[t].key
                      [] thread[t].call = "Prev" -> k < thread[t].key
                      [] OTHER -> TRUE}
Forward(t) == thread[t].call \in {"Seek", "SeekToFirst", "Next"}
WalkInv(t) ==
  LET c == thread[t] IN
  c.op = "found" /\ c.call \notin {"Get", "Insert"} =>
    IF c.x \in {Root, List!nullptr} THEN c.old \cap Ahead(t) = {}
    ELSE /\ KeyOf(c.x) \in Ahead(t)
         /\ \A k \in c.old \cap Ahead(t) : IF Forward(t) THEN KeyOf(c.x) <= k ELSE k <= KeyOf(c.x)

(* What the Insert with the lock knows: the node before its key on each    *)
(* level it has searched, and how far its own node is linked.              *)
Inserting(t) == thread[t].call = "Insert" /\ thread[t].op \notin {"idle", "lock"}
SearchInv(t) ==
  LET c == thread[t] IN
  /\ c.op = "search" => /\ c.level < shared.max_height_
                        /\ \A i \in c.level + 1..shared.max_height_ - 1 : Precedes(c.prev[i], i, c.key)
  /\ c.op = "found" => /\ c.level = 0 /\ c.x = Link(c.prev[0], 0)
                       /\ \A i \in 0..shared.max_height_ - 1 : Precedes(c.prev[i], i, c.key)
  /\ c.op = "overwrite" => c.x \in On(0) \ {Root} /\ KeyOf(c.x) = c.key
  /\ c.op = "new" => c.level = 0 /\ ~HasNode(c.key)
  /\ c.op \in {"new", "setnext", "publish"} =>
       /\ c.height \in 1..shared.max_height_ /\ c.level < c.height
       /\ \A i \in c.level..c.height - 1 : Precedes(c.prev[i], i, c.key)
LinkInv(t) ==
  LET c == thread[t] IN
  c.op \in {"setnext", "publish"} =>
    /\ c.x \in Made /\ c.x # Root /\ KeyOf(c.x) = c.key /\ Links(c.x) = 0..c.height - 1
    /\ \A i \in List!Levels : c.x \in On(i) <=> i < c.level
    /\ c.level = 0 => ~HasNode(c.key) /\ ValOf(c.x) = history.stored[c.key] + 1
    /\ \A i \in c.level + 1..c.height - 1 : Link(c.x, i) = List!Garbage
    /\ Link(c.x, c.level) = IF c.op = "setnext" THEN List!Garbage ELSE Link(c.prev[c.level], c.level)
InsertInv(t) ==
  Inserting(t) => shared.lock_ = t /\ SearchInv(t) /\ LinkInv(t)

ListInv ==
  /\ ListTyped /\ NodesInv /\ List!LevelsAgree /\ StoredInv
  /\ \A t \in Threads : PlaceInv(t) /\ GetInv(t) /\ WalkInv(t) /\ InsertInv(t)

------------------------------------------------------------------------------
(* Its nodes and levels                                                    *)

(* The numbers that stand for nodes or for none.                           *)
LEMMA Marks ==
  /\ Root \in Nat /\ List!nullptr \in Nat /\ Root # List!nullptr
  /\ List!Garbage \notin Nat /\ List!Garbage \in Int
  /\ 0 \in List!Levels /\ List!Levels = 0..kMaxHeight - 1
  /\ kMaxHeight \in Nat \ {0} /\ ListKeys \subseteq Int
BY PartsAssumption DEF Root, List!head_, List!nullptr, List!Garbage, List!Levels

(* A node that is made has its fields.                                     *)
LEMMA NodeFields ==
  ASSUME ListTyped
  PROVE  /\ Made = 1..Len(shared.node) /\ Len(shared.node) \in Nat /\ Made \subseteq Nat
         /\ List!nullptr \notin Made
         /\ \A n \in Made :
              /\ shared.node[n] \in ListNodes
              /\ shared.node[n] = [key |-> KeyOf(n), val |-> ValOf(n), next |-> shared.node[n].next]
              /\ \A i \in Links(n) : i \in List!Levels /\ Link(n, i) \in Int
<1>1. PICK s \in Seq(ListNodes) : s = shared.node
  BY DEF ListTyped
<1>2. DOMAIN s = 1..Len(s) /\ Len(s) \in Nat /\ \A n \in 1..Len(s) : s[n] \in ListNodes
  OBVIOUS
<1>3. ASSUME NEW n \in Made
      PROVE  /\ shared.node[n] \in ListNodes
             /\ shared.node[n] = [key |-> KeyOf(n), val |-> ValOf(n), next |-> shared.node[n].next]
             /\ \A i \in Links(n) : i \in List!Levels /\ Link(n, i) \in Int
  <2>1. s[n] \in ListNodes
    BY <1>1, <1>2, <1>3 DEF Made
  <2>2. PICK h \in 1..kMaxHeight : s[n].next \in [0..h - 1 -> Int]
    BY <2>1 DEF ListNodes
  <2>3. \A i \in 0..h - 1 : i \in 0..kMaxHeight - 1
    BY Marks
  <2>4. QED
    BY <1>1, <2>1, <2>2, <2>3, Marks DEF KeyOf, ValOf, Link, Links, ListNodes
<1>4. List!nullptr \notin Made
  BY <1>1, <1>2 DEF Made, List!nullptr
<1>5. QED
  BY <1>1, <1>2, <1>3, <1>4 DEF Made

(* The nodes of a level, as those that a link leads to.                    *)
LEMMA OnIs ==
  ASSUME NEW i
  PROVE  \A m : m \in On(i) <=>
           \/ m = Root
           \/ /\ m # List!nullptr /\ m # List!Garbage
              /\ \E n \in Made : i \in Links(n) /\ m = Link(n, i)
BY DEF On, List!OnLevel, Root, Made, Links, Link, List!Node

KeysOn(i) == [n \in On(i) |-> KeyOf(n)]
LinksOn(i) == [n \in On(i) |-> Link(n, i)]

(* What LevelsAgree says of one level.                                     *)
LEMMA LevelsChained ==
  ASSUME NodesInv
  PROVE  List!LevelsAgree <=> \A i \in List!Levels : Chained(On(i), KeysOn(i), LinksOn(i))
<1>1. ASSUME NEW i \in List!Levels
      PROVE  Chained(On(i), KeysOn(i), LinksOn(i)) <=>
               \A n \in On(i) :
                 LET after == {m \in On(i) \ {Root} : n = Root \/ KeyOf(m) > KeyOf(n)}
                 IN /\ \A m \in On(i) \ {Root, n} : n # Root => KeyOf(m) # KeyOf(n)
                    /\ IF after = {} THEN Link(n, i) = List!nullptr
                       ELSE \E m \in after : /\ Link(n, i) = m
                                             /\ \A o \in after : KeyOf(m) <= KeyOf(o)
  <2>1. \A n \in On(i) : KeysOn(i)[n] = KeyOf(n) /\ LinksOn(i)[n] = Link(n, i)
    BY DEF KeysOn, LinksOn
  <2>2. \A n \in On(i) : After(On(i), KeysOn(i), n) = {m \in On(i) \ {Root} : n = Root \/ KeyOf(m) > KeyOf(n)}
    BY <2>1 DEF After
  <2>3. \A n \in On(i) : \A m \in After(On(i), KeysOn(i), n) : m \in On(i)
    BY DEF After
  <2>4. QED
    BY <2>1, <2>2, <2>3 DEF Chained
<1>2. \A i \in List!Levels : i > 0 => i - 1 \in List!Levels /\ i - 1 <= i
  BY Marks
<1>3. \A i \in List!Levels : i > 0 => List!OnLevel(i) \subseteq List!OnLevel(i - 1)
  BY <1>2 DEF NodesInv, On
<1>4. QED
  BY <1>1, <1>3 DEF List!LevelsAgree, On, Root, KeyOf, Link, List!Node

(* A node of a level leads to the next one in the order of the keys.       *)
LEMMA LinkLeads ==
  ASSUME ListInv, NEW i \in List!Levels, NEW n \in On(i)
  PROVE  /\ n \in Made /\ i \in Links(n) /\ n # List!nullptr
         /\ n # Root => KeyOf(n) \in ListKeys /\ KeyOf(n) \in Int
         /\ \A m \in On(i) \ {Root} : KeyOf(m) \in ListKeys /\ KeyOf(m) \in Int
         /\ Link(n, i) # List!nullptr =>
              /\ Link(n, i) \in On(i) \ {Root} /\ (n # Root => KeyOf(n) < KeyOf(Link(n, i)))
              /\ \A m \in On(i) \ {Root} : n = Root \/ KeyOf(m) > KeyOf(n) => KeyOf(Link(n, i)) <= KeyOf(m)
         /\ Link(n, i) = List!nullptr =>
              \A m \in On(i) \ {Root} : n # Root /\ KeyOf(m) <= KeyOf(n)
         /\ \A m \in On(i) \ {Root} : n # Root /\ KeyOf(m) = KeyOf(n) => m = n
<1>1. Chained(On(i), KeysOn(i), LinksOn(i))
  BY LevelsChained DEF ListInv
<1>2. \A m \in On(i) : m \in Made /\ i \in Links(m) /\ (m # Root => KeyOf(m) \in ListKeys)
  BY DEF ListInv, NodesInv
<1>3. n # List!nullptr
  BY <1>2, NodeFields DEF ListInv
<1>4. \A m \in On(i) : KeysOn(i)[m] = KeyOf(m) /\ LinksOn(i)[m] = Link(m, i)
  BY DEF KeysOn, LinksOn
<1>5. \A m \in After(On(i), KeysOn(i), n) : m # List!nullptr
  BY <1>2, NodeFields DEF ListInv, After
<1>6. \A m : m \in After(On(i), KeysOn(i), n) <=> m \in On(i) \ {Root} /\ (n = Root \/ KeyOf(m) > KeyOf(n))
  BY <1>4 DEF After
<1>7. \A m \in On(i) \ {Root} : KeyOf(m) \in ListKeys /\ KeyOf(m) \in Int
  BY <1>2, Marks
<1>8. CASE After(On(i), KeysOn(i), n) = {}
  <2>1. Link(n, i) = List!nullptr
    BY <1>1, <1>4, <1>8 DEF Chained
  <2>2. QED
    BY <1>1, <1>2, <1>3, <1>4, <1>6, <1>7, <1>8, <2>1 DEF Chained
<1>9. CASE After(On(i), KeysOn(i), n) # {}
  <2>1. PICK m \in After(On(i), KeysOn(i), n) :
          Link(n, i) = m /\ \A o \in After(On(i), KeysOn(i), n) : KeyOf(m) <= KeyOf(o)
    BY <1>1, <1>4, <1>6, <1>9 DEF Chained
  <2>2. \A o \in On(i) \ {Root, n} : n # Root => KeyOf(o) # KeyOf(n)
    BY <1>1, <1>4 DEF Chained
  <2>3. QED
    BY <1>2, <1>3, <1>5, <1>6, <1>7, <2>1, <2>2
<1>10. QED
  BY <1>8, <1>9

(* A node behind which a search for k does not go on is the last below k.  *)
LEMMA SearchEnds ==
  ASSUME ListInv, NEW i \in List!Levels, NEW n \in On(i), NEW k \in ListKeys, Below(n, k),
         ~List!KeyIsAfterNode(k, Link(n, i))
  PROVE  /\ Precedes(n, i, k)
         /\ i = 0 /\ HasNode(k) => Link(n, i) # List!nullptr /\ KeyOf(Link(n, i)) = k
<1>1. k \in Int
  BY Marks
<1>2. Link(n, i) # List!nullptr => ~(KeyOf(Link(n, i)) < k)
  BY DEF List!KeyIsAfterNode, KeyOf, List!Node
<1>3. ASSUME NEW m \in On(i) \ {Root}, KeyOf(m) < k
      PROVE  n # Root /\ KeyOf(m) <= KeyOf(n)
  <2>1. KeyOf(m) \in Int /\ (n # Root => KeyOf(n) \in Int)
    BY <1>3, LinkLeads
  <2>2. CASE Link(n, i) = List!nullptr
    BY <1>3, <2>2, LinkLeads
  <2>3. CASE Link(n, i) # List!nullptr
    <3>1. Link(n, i) \in On(i) \ {Root} /\ KeyOf(Link(n, i)) \in Int
      BY <2>3, LinkLeads
    <3>2. ~(n = Root \/ KeyOf(m) > KeyOf(n))
      <4>1. ~(KeyOf(Link(n, i)) <= KeyOf(m))
        BY <1>1, <1>2, <1>3, <2>1, <2>3, <3>1
      <4>2. QED
        BY <1>3, <2>3, <4>1, LinkLeads
    <3>3. QED
      BY <2>1, <3>2
  <2>4. QED
    BY <2>2, <2>3
<1>4. Precedes(n, i, k)
  BY <1>3 DEF Precedes
<1>5. ASSUME i = 0, HasNode(k)
      PROVE  Link(n, i) # List!nullptr /\ KeyOf(Link(n, i)) = k
  <2>1. PICK m \in On(i) \ {Root} : KeyOf(m) = k
    BY <1>5 DEF HasNode
  <2>2. n = Root \/ (KeyOf(n) \in Int /\ KeyOf(n) < KeyOf(m))
    BY <2>1, LinkLeads DEF Below
  <2>3. Link(n, i) # List!nullptr
    BY <1>1, <2>1, <2>2, LinkLeads
  <2>4. KeyOf(Link(n, i)) <= k /\ KeyOf(Link(n, i)) \in Int
    BY <1>1, <2>1, <2>2, <2>3, LinkLeads
  <2>5. QED
    BY <1>1, <1>2, <2>3, <2>4
<1>6. QED
  BY <1>4, <1>5

------------------------------------------------------------------------------
(* What a step leaves as it is                                             *)

(* The list is its nodes.                                                  *)
LEMMA ListStays ==
  ASSUME shared'.node = shared.node
  PROVE  /\ Made' = Made /\ List!LevelsAgree' = List!LevelsAgree
         /\ \A i : On(i)' = On(i)
         /\ \A n : KeyOf(n)' = KeyOf(n) /\ ValOf(n)' = ValOf(n) /\ Links(n)' = Links(n)
         /\ \A n, i : Link(n, i)' = Link(n, i)
         /\ \A k : HasNode(k)' = HasNode(k)
         /\ \A n, k : Below(n, k)' = Below(n, k)
         /\ \A n, i, k : Precedes(n, i, k)' = Precedes(n, i, k)
<1>1. Made' = Made /\ List!LevelsAgree' = List!LevelsAgree
  BY DEF Made, List!LevelsAgree, List!OnLevel, List!Node
<1>2. \A i : On(i)' = On(i)
  BY DEF On, List!OnLevel, List!Node
<1>3. \A n : KeyOf(n)' = KeyOf(n) /\ ValOf(n)' = ValOf(n) /\ Links(n)' = Links(n)
  BY DEF KeyOf, ValOf, Links
<1>4. \A n, i : Link(n, i)' = Link(n, i)
  BY DEF Link
<1>5. \A k : HasNode(k)' = HasNode(k)
  BY <1>2, <1>3 DEF HasNode, Root
<1>6. \A n, k : Below(n, k)' = Below(n, k)
  BY <1>3 DEF Below, Root
<1>7. \A n, i, k : Precedes(n, i, k)' = Precedes(n, i, k)
  BY <1>2, <1>3, <1>6 DEF Precedes, Root
<1>8. QED
  BY <1>1, <1>2, <1>3, <1>4, <1>5, <1>6, <1>7

(* Nodes stay on their levels with their keys, and what had returned has.  *)
Grows ==
  /\ \A i \in List!Levels : \A n \in On(i) : n \in On(i)' /\ KeyOf(n)' = KeyOf(n)
  /\ \A k \in ListKeys : history.returned[k] <= history'.returned[k]

(* A thread that does nothing keeps its place in a list that grows.        *)
LEMMA PlacesKept ==
  ASSUME ListInv, ListTyped', Grows, NEW u \in Threads, thread'[u] = thread[u]
  PROVE  PlaceInv(u)' /\ GetInv(u)' /\ WalkInv(u)'
<1>1. PICK c \in ListThreads : c = thread[u]
  BY DEF ListInv, ListTyped
<1>2. PlaceInv(u) /\ GetInv(u) /\ WalkInv(u)
  BY DEF ListInv
<1>3. \A k : HasNode(k) => HasNode(k)'
  BY Marks DEF Grows, HasNode, Root
<1>4. \A n \in On(0) : n \in On(0)' /\ KeyOf(n)' = KeyOf(n)
  BY Marks DEF Grows
<1>5. c.key \in ListKeys /\ c.since <= history.returned[c.key] => c.since <= history'.returned[c.key]
  <2>1. \A k \in ListKeys : history.returned[k] \in Nat /\ history'.returned[k] \in Nat
    BY DEF ListInv, ListTyped
  <2>2. c.since \in Nat
    BY DEF ListThreads
  <2>3. QED
    BY <2>1, <2>2 DEF Grows
<1>6. PlaceInv(u)'
  <2>1. c.op = "search" => c.level \in List!Levels /\ c.x \in On(c.level)' /\ KeyOf(c.x)' = KeyOf(c.x)
    BY <1>1, <1>2 DEF PlaceInv, Grows
  <2>2. \A k \in c.old : HasNode(k)'
    BY <1>1, <1>2, <1>3 DEF PlaceInv
  <2>3. c.op \in {"search", "found"} /\ c.call = "Get" => c.since <= history'.returned[c.key]
    BY <1>1, <1>2, <1>5 DEF PlaceInv
  <2>4. QED
    BY <1>1, <1>2, <1>4, <2>1, <2>2, <2>3 DEF PlaceInv, Below, Root
<1>7. c.op = "found" => c.x = List!nullptr \/ (c.x \in On(0)' /\ KeyOf(c.x)' = KeyOf(c.x))
  BY <1>1, <1>2, <1>4 DEF PlaceInv
<1>8. GetInv(u)'
  BY <1>1, <1>2, <1>7 DEF GetInv, Root
<1>9. Ahead(u)' = Ahead(u) /\ Forward(u)' = Forward(u)
  BY DEF Ahead, Forward
<1>10. WalkInv(u)'
  BY <1>1, <1>2, <1>7, <1>9 DEF WalkInv, Root
<1>11. QED
  BY <1>6, <1>8, <1>10

(* So does an Insert, when the list and the lock stay as they are.         *)
LEMMA InsertKept ==
  ASSUME ListInv, shared' = shared, history'.stored = history.stored,
         NEW u \in Threads, thread'[u] = thread[u]
  PROVE  InsertInv(u)'
<1>1. InsertInv(u) /\ Inserting(u)' = Inserting(u)
  BY DEF ListInv, Inserting
<1>2. SearchInv(u)' = SearchInv(u)
  BY ListStays DEF SearchInv, Root
<1>3. LinkInv(u)' = LinkInv(u)
  BY ListStays DEF LinkInv, Root
<1>4. QED
  BY <1>1, <1>2, <1>3 DEF InsertInv

(* What is left to show of a step of the thread t.                         *)
LEMMA StepKeeps ==
  ASSUME ListInv, NEW t \in Threads, ListTyped', NodesInv', List!LevelsAgree', StoredInv', Grows,
         \A u \in Threads \ {t} : thread'[u] = thread[u],
         shared.lock_ \in {t, Nothing} \/ (shared' = shared /\ history'.stored = history.stored),
         PlaceInv(t)', GetInv(t)', WalkInv(t)', InsertInv(t)'
  PROVE  ListInv'
<1>1. ASSUME NEW u \in Threads \ {t}
      PROVE  PlaceInv(u)' /\ GetInv(u)' /\ WalkInv(u)' /\ InsertInv(u)'
  <2>1. PlaceInv(u)' /\ GetInv(u)' /\ WalkInv(u)'
    BY <1>1, PlacesKept
  <2>2. CASE shared.lock_ \in {t, Nothing}
    <3>1. InsertInv(u) /\ Inserting(u)' = Inserting(u)
      BY <1>1 DEF ListInv, Inserting
    <3>2. shared.lock_ # u
      BY <1>1, <2>2, PartsAssumption
    <3>3. QED
      BY <2>1, <3>1, <3>2 DEF InsertInv
  <2>3. CASE shared' = shared /\ history'.stored = history.stored
    BY <1>1, <2>1, <2>3, InsertKept
  <2>4. QED
    BY <2>2, <2>3
<1>2. QED
  BY <1>1 DEF ListInv

(* A step that takes the thread t to r and changes nothing else.           *)
LEMMA QuietKeeps ==
  ASSUME ListInv, NEW t \in Threads, NEW r \in ListThreads, thread' = [thread EXCEPT ![t] = r],
         shared' = shared, history' = history,
         PlaceInv(t)', GetInv(t)', WalkInv(t)', InsertInv(t)'
  PROVE  ListInv'
<1>1. ListTyped'
  BY DEF ListInv, ListTyped
<1>2. NodesInv' /\ List!LevelsAgree' /\ StoredInv'
  <2>1. NodesInv'
    BY ListStays DEF ListInv, NodesInv, Root
  <2>2. StoredInv'
    BY ListStays DEF ListInv, StoredInv, Root
  <2>3. QED
    BY <2>1, <2>2, ListStays DEF ListInv
<1>3. Grows
  BY ListStays DEF Grows, ListInv, ListTyped
<1>4. \A u \in Threads \ {t} : thread'[u] = thread[u]
  BY DEF ListInv, ListTyped
<1>5. QED
  BY <1>1, <1>2, <1>3, <1>4, StepKeeps

------------------------------------------------------------------------------
(* Calls begin and end                                                     *)

(* A thread at rest.                                                       *)
LEMMA AtRest ==
  /\ List!Idle \in ListThreads
  /\ List!Idle.op = "idle" /\ List!Idle.x = List!nullptr /\ List!Idle.old = {}
BY Marks DEF List!Idle, ListThreads, ListOps

(* Keys whose Insert has returned have nodes.                              *)
LEMMA OldHaveNodes ==
  ASSUME ListInv
  PROVE  List!Old \subseteq ListKeys /\ \A k \in List!Old : HasNode(k)
<1>1. \A k \in ListKeys : history.returned[k] \in Nat /\ history.stored[k] \in Nat
  BY DEF ListInv, ListTyped
<1>2. QED
  BY <1>1 DEF List!Old, ListInv, StoredInv

(* A record of a thread at rest, with fields set one by one.               *)
IdleWith(op, call, key, x, level, prev) ==
  [op |-> op, call |-> call, key |-> key, x |-> x, level |-> level, prev |-> prev,
   height |-> 0, since |-> 0, old |-> {}]
Becomes(d, op, call, k, n, m) == [d EXCEPT !.op = op, !.call = call, !.key = k, !.x = n, !.level = m]
(* Each field is set once.                                                 *)
LEMMA IdleBecomes ==
  ASSUME NEW op, NEW call, NEW k, NEW n, NEW m, NEW p,
         NEW d, d = IdleWith("idle", Nothing, Nothing, List!nullptr, 0, p)
  PROVE  Becomes(d, op, call, k, n, m) = IdleWith(op, call, k, n, m, p)
<1> DEFINE e1 == [d EXCEPT !.op = op]
           e2 == [e1 EXCEPT !.call = call]
           e3 == [e2 EXCEPT !.key = k]
           e4 == [e3 EXCEPT !.x = n]
           e5 == [e4 EXCEPT !.level = m]
<1>1. e5 = Becomes(d, op, call, k, n, m)
  BY DEF Becomes
<1>2. e1 = IdleWith(op, Nothing, Nothing, List!nullptr, 0, p)
  BY DEF IdleWith
<1> HIDE DEF e1
<1>3. e2 = IdleWith(op, call, Nothing, List!nullptr, 0, p)
  BY <1>2 DEF IdleWith
<1> HIDE DEF e2
<1>4. e3 = IdleWith(op, call, k, List!nullptr, 0, p)
  BY <1>3 DEF IdleWith
<1> HIDE DEF e3
<1>5. e4 = IdleWith(op, call, k, n, 0, p)
  BY <1>4 DEF IdleWith
<1> HIDE DEF e4
<1>6. e5 = IdleWith(op, call, k, n, m, p)
  BY <1>5 DEF IdleWith
<1>7. QED
  BY <1>1, <1>6

(* A search that begins is at the head of the highest level.               *)
SearchFrom(call, k, since, old) ==
  [op |-> "search", call |-> call, key |-> k, x |-> Root, level |-> shared.max_height_ - 1,
   prev |-> [i \in List!Levels |-> List!nullptr], height |-> 0, since |-> since, old |-> old]
(* The record a search begins with, as Get, Insert and the iterator make   *)
(* it.                                                                     *)
LEMMA SearchRecords ==
  ASSUME NEW call, NEW k
  PROVE  /\ List!Searching(call, k) = SearchFrom(call, k, 0, {})
         /\ \A since : [List!Searching(call, k) EXCEPT !.since = since] = SearchFrom(call, k, since, {})
         /\ \A old : [List!Searching(call, k) EXCEPT !.old = old] = SearchFrom(call, k, 0, old)
<1>1. List!Searching(call, k) = SearchFrom(call, k, 0, {})
  <2> DEFINE p == [i \in List!Levels |-> List!nullptr]
             m == shared.max_height_ - 1
  <2>1. List!Idle = IdleWith("idle", Nothing, Nothing, List!nullptr, 0, p)
    BY DEF List!Idle, IdleWith
  <2>2. List!Searching(call, k) = Becomes(List!Idle, "search", call, k, Root, m)
    BY DEF List!Searching, Becomes, Root
  <2> HIDE DEF p
  <2> HIDE DEF m
  <2>3. List!Searching(call, k) = IdleWith("search", call, k, Root, m, p)
    BY <2>1, <2>2, IdleBecomes
  <2>4. QED
    BY <2>3 DEF SearchFrom, IdleWith, p, m
<1>2. ASSUME NEW since
      PROVE  [SearchFrom(call, k, 0, {}) EXCEPT !.since = since] = SearchFrom(call, k, since, {})
  BY DEF SearchFrom
<1>3. ASSUME NEW old
      PROVE  [SearchFrom(call, k, 0, {}) EXCEPT !.old = old] = SearchFrom(call, k, 0, old)
  BY DEF SearchFrom
<1>4. QED
  BY <1>1, <1>2, <1>3

(* A thread whose search begins knows nothing but that it is at the head.  *)
LEMMA SearchBegins ==
  ASSUME ListInv, shared'.node = shared.node, shared'.max_height_ = shared.max_height_,
         history' = history, NEW t \in Threads,
         NEW call \in ListCalls \ {"SeekToFirst", "Next"}, NEW k \in ListKeys \cup {Nothing},
         NEW since \in Nat, NEW old \in SUBSET ListKeys,
         call # "SeekToLast" => k \in ListKeys, call = "Get" => since <= history.returned[k],
         \A j \in old : HasNode(j),
         List!Goes(t, SearchFrom(call, k, since, old))
  PROVE  /\ SearchFrom(call, k, since, old) \in ListThreads
         /\ thread'[t] = SearchFrom(call, k, since, old)
         /\ PlaceInv(t)' /\ GetInv(t)' /\ WalkInv(t)'
         /\ thread'[t].call = call /\ thread'[t].op = "search"
         /\ thread'[t].level = shared.max_height_ - 1
<1> DEFINE r == SearchFrom(call, k, since, old)
<1>1. shared.max_height_ \in 1..kMaxHeight /\ shared.max_height_ - 1 \in List!Levels
  BY Marks DEF ListInv, ListTyped
<1>2. r \in ListThreads
  BY <1>1, Marks DEF ListThreads, ListOps, SearchFrom
<1>3. /\ r.op = "search" /\ r.call = call /\ r.key = k /\ r.x = Root
      /\ r.level = shared.max_height_ - 1 /\ r.since = since /\ r.old = old
  BY DEF SearchFrom
<1> HIDE DEF r
<1>4. thread'[t] = r
  BY DEF ListInv, ListTyped, List!Goes, r
<1>5. \A i : Root \in On(i)'
  BY OnIs, ListStays
<1>6. \A j \in old : HasNode(j)'
  BY ListStays
<1>7. PlaceInv(t)'
  BY ONLY <1>1, <1>3, <1>4, <1>5, <1>6, history' = history, call \in ListCalls \ {"SeekToFirst", "Next"},
     call # "SeekToLast" => k \in ListKeys, call = "Get" => since <= history.returned[k]
  DEF PlaceInv, Below, Root
<1>8. GetInv(t)' /\ WalkInv(t)'
  BY ONLY <1>3, <1>4 DEF GetInv, WalkInv
<1>9. QED
  BY <1>2, <1>3, <1>4, <1>7, <1>8 DEF r

(* A Get begins: it will see every Insert that has returned.               *)
LEMMA GetKeeps ==
  ASSUME ListInv, NEW t \in Threads, NEW k \in ListKeys, List!Get(t, k)
  PROVE  ListInv'
<1> DEFINE r == SearchFrom("Get", k, history.returned[k], {})
<1>1. thread' = [thread EXCEPT ![t] = r] /\ shared' = shared /\ history' = history
  BY SearchRecords DEF List!Get, List!Goes
<1>2. history.returned[k] \in Nat
  BY DEF ListInv, ListTyped
<1> HIDE DEF r
<1>3. /\ r \in ListThreads /\ thread'[t] = r
      /\ PlaceInv(t)' /\ GetInv(t)' /\ WalkInv(t)' /\ thread'[t].call = "Get"
  <2>1. "Get" \in ListCalls \ {"SeekToFirst", "Next"} /\ {} \in SUBSET ListKeys
        /\ history.returned[k] <= history.returned[k] /\ "Get" # "SeekToLast"
    BY <1>2 DEF ListCalls
  <2>2. PICK call, old, since : call = "Get" /\ old = {} /\ since = history.returned[k]
    OBVIOUS
  <2>3. /\ List!Goes(t, SearchFrom(call, k, since, old))
        /\ k \in ListKeys \cup {Nothing} /\ since \in Nat /\ old \in SUBSET ListKeys
        /\ \A j \in old : HasNode(j)
        /\ call \in ListCalls \ {"SeekToFirst", "Next"}
        /\ call = "Get" => since <= history.returned[k]
    BY <1>1, <1>2, <2>1, <2>2 DEF r, List!Goes
  <2>6. ListInv /\ t \in Threads /\ k \in ListKeys /\ shared'.node = shared.node
        /\ shared'.max_height_ = shared.max_height_
    BY <1>1, <1>2, <2>3
  <2>4. /\ SearchFrom(call, k, since, old) \in ListThreads
        /\ thread'[t] = SearchFrom(call, k, since, old)
        /\ PlaceInv(t)' /\ GetInv(t)' /\ WalkInv(t)' /\ thread'[t].call = call
    BY ONLY <1>1, <2>3, <2>6, SearchBegins
  <2>5. QED
    BY <2>2, <2>4 DEF r
<1>4. InsertInv(t)'
  BY <1>3 DEF InsertInv, Inserting
<1>5. QED
  BY <1>1, <1>3, <1>4, QuietKeeps

(* Seek, SeekToLast and Prev begin a search.                               *)
LEMMA StartWalkKeeps ==
  ASSUME ListInv, NEW t \in Threads, NEW call \in {"Seek", "SeekToLast", "Prev"},
         NEW k \in ListKeys \cup {Nothing}, call # "SeekToLast" => k \in ListKeys,
         List!StartWalk(t, call, k)
  PROVE  ListInv'
<1> DEFINE r == SearchFrom(call, k, 0, List!Old)
<1>1. thread' = [thread EXCEPT ![t] = r] /\ shared' = shared /\ history' = history
  <2>1. [List!Searching(call, k) EXCEPT !.old = List!Old] = r
    BY SearchRecords
  <2>2. QED
    BY <2>1 DEF List!StartWalk, List!Goes
<1> HIDE DEF r
<1>2. /\ r \in ListThreads /\ thread'[t] = r
      /\ PlaceInv(t)' /\ GetInv(t)' /\ WalkInv(t)' /\ thread'[t].call = call
  <2>1. call \in ListCalls \ {"SeekToFirst", "Next"} /\ call # "Get" /\ List!Old \in SUBSET ListKeys
    BY OldHaveNodes DEF ListCalls
  <2>2. QED
    BY <1>1, <2>1, OldHaveNodes, SearchBegins DEF r, List!Goes
<1>3. InsertInv(t)'
  BY <1>2 DEF InsertInv, Inserting
<1>4. QED
  BY <1>1, <1>2, <1>3, QuietKeeps

(* An Insert takes the lock, which no other one had.                       *)
LEMMA ListLockKeeps ==
  ASSUME ListInv, NEW t \in Threads, List!Lock(t)
  PROVE  ListInv'
<1> DEFINE k == thread[t].key
           r == SearchFrom("Insert", k, 0, {})
<1>1. /\ thread' = [thread EXCEPT ![t] = r] /\ history' = history
      /\ shared' = [shared EXCEPT !.lock_ = t] /\ shared.lock_ = Nothing
      /\ thread[t].op = "lock"
  BY SearchRecords DEF List!Lock, List!Goes, List!Does
<1>2. /\ shared'.node = shared.node /\ shared'.max_height_ = shared.max_height_ /\ shared'.lock_ = t
      /\ k \in ListKeys /\ ListTyped /\ shared.max_height_ \in 1..kMaxHeight
  BY <1>1 DEF ListInv, ListTyped, PlaceInv
<1> HIDE DEF k
<1> HIDE DEF r
<1>3. /\ r \in ListThreads /\ thread'[t] = r
      /\ PlaceInv(t)' /\ GetInv(t)' /\ WalkInv(t)'
      /\ thread'[t].call = "Insert" /\ thread'[t].op = "search"
      /\ thread'[t].level = shared.max_height_ - 1
  <2>1. "Insert" \in ListCalls \ {"SeekToFirst", "Next"} /\ k \in ListKeys \cup {Nothing}
        /\ 0 \in Nat /\ {} \in SUBSET ListKeys /\ "Insert" # "Get" /\ \A j \in {} : HasNode(j)
    BY <1>2 DEF ListCalls
  <2>2. PICK call, old, since : call = "Insert" /\ old = {} /\ since = 0
    OBVIOUS
  <2>3. /\ List!Goes(t, SearchFrom(call, k, since, old))
        /\ since \in Nat /\ old \in SUBSET ListKeys /\ \A j \in old : HasNode(j)
        /\ call \in ListCalls \ {"SeekToFirst", "Next"} /\ call # "Get"
    BY <1>1, <2>1, <2>2 DEF r, List!Goes
  <2>6. ListInv /\ t \in Threads /\ k \in ListKeys /\ shared'.node = shared.node
        /\ shared'.max_height_ = shared.max_height_
    BY <1>1, <1>2, <2>3
  <2>4. /\ SearchFrom(call, k, since, old) \in ListThreads
        /\ thread'[t] = SearchFrom(call, k, since, old)
        /\ PlaceInv(t)' /\ GetInv(t)' /\ WalkInv(t)'
        /\ thread'[t].call = call /\ thread'[t].op = "search"
        /\ thread'[t].level = shared.max_height_ - 1
    BY ONLY <1>1, <1>2, <2>1, <2>3, <2>6, SearchBegins
  <2>5. QED
    BY <2>2, <2>4 DEF r
<1>4. InsertInv(t)'
  <2>1. SearchInv(t)' /\ LinkInv(t)'
    BY <1>2, <1>3 DEF SearchInv, LinkInv
  <2>2. QED
    BY <1>2, <2>1 DEF InsertInv
<1>5. ListTyped'
  BY <1>1, <1>2, <1>3 DEF ListTyped
<1>6. NodesInv' /\ List!LevelsAgree' /\ StoredInv'
  <2>1. NodesInv'
    BY <1>2, ListStays DEF ListInv, NodesInv, Root
  <2>2. StoredInv'
    BY <1>1, <1>2, ListStays DEF ListInv, StoredInv, Root
  <2>3. QED
    BY <1>2, <2>1, <2>2, ListStays DEF ListInv
<1>7. Grows
  BY <1>1, <1>2, ListStays DEF Grows, ListInv, ListTyped
<1>8. \A u \in Threads \ {t} : thread'[u] = thread[u]
  BY <1>1 DEF ListInv, ListTyped
<1>9. QED
  BY <1>1, <1>3, <1>4, <1>5, <1>6, <1>7, <1>8, StepKeeps

(* An Insert begins, without the lock.                                     *)
LEMMA InsertKeeps ==
  ASSUME ListInv, NEW t \in Threads, NEW k \in ListKeys, List!Insert(t, k)
  PROVE  ListInv'
<1> DEFINE r == [List!Idle EXCEPT !.op = "lock", !.key = k]
<1>1. /\ thread' = [thread EXCEPT ![t] = r] /\ shared' = shared
      /\ history' = [history EXCEPT !.begun = @ + 1]
  BY DEF List!Insert, List!Goes
<1>2. r \in ListThreads /\ r.op = "lock" /\ r.key = k /\ r.old = {} /\ ListTyped
  BY AtRest, ZenonT(60) DEF ListThreads, ListOps, ListInv, List!Idle
<1> HIDE DEF r
<1>3. /\ history'.stored = history.stored /\ history'.returned = history.returned
      /\ thread'[t] = r
  BY <1>1, <1>2 DEF ListTyped
<1>4. ListTyped'
  BY <1>1, <1>2 DEF ListTyped
<1>5. NodesInv' /\ List!LevelsAgree' /\ StoredInv'
  <2>1. NodesInv'
    BY <1>1, ListStays DEF ListInv, NodesInv, Root
  <2>2. StoredInv'
    BY <1>1, <1>3, ListStays DEF ListInv, StoredInv, Root
  <2>3. QED
    BY <1>1, <2>1, <2>2, ListStays DEF ListInv
<1>6. Grows
  BY <1>1, <1>3, ListStays DEF Grows, ListInv, ListTyped
<1>7. \A u \in Threads \ {t} : thread'[u] = thread[u]
  BY <1>1, <1>2 DEF ListTyped
<1>8. PlaceInv(t)' /\ GetInv(t)' /\ WalkInv(t)' /\ InsertInv(t)'
  BY <1>2, <1>3 DEF PlaceInv, GetInv, WalkInv, InsertInv, Inserting
<1>9. QED
  BY <1>1, <1>3, <1>4, <1>5, <1>6, <1>7, <1>8, StepKeeps

(* SeekToFirst and Next: from the head or a node to the next one.          *)
LEMMA LoadLinkKeeps ==
  ASSUME ListInv, NEW t \in Threads, NEW call, NEW n \in On(0),
         \/ call = "SeekToFirst" /\ n = Root
         \/ call = "Next" /\ n # Root,
         List!LoadLink(t, call, n)
  PROVE  ListInv'
<1> DEFINE r == [List!Idle EXCEPT !.op = "found", !.call = call, !.key = KeyOf(n),
                                  !.x = Link(n, 0), !.old = List!Old]
<1>1. thread' = [thread EXCEPT ![t] = r] /\ shared' = shared /\ history' = history
  BY DEF List!LoadLink, List!Goes, KeyOf, Link, List!Node
<1>2. /\ n \in Made /\ (n # Root => KeyOf(n) \in ListKeys)
      /\ KeyOf(n) \in ListKeys \cup {Nothing} /\ Link(n, 0) \in On(0) \cup {List!nullptr}
  <2>1. n \in Made /\ (n # Root => KeyOf(n) \in ListKeys)
    BY LinkLeads, Marks
  <2>2. KeyOf(n) \in ListKeys \cup {Nothing}
    BY <2>1, NodeFields DEF ListInv, ListNodes, KeyOf
  <2>3. QED
    BY <2>1, <2>2, LinkLeads, Marks
<1>3. \A m \in On(0) : m \in Nat
  BY NodeFields, Marks DEF ListInv, NodesInv
<1>4. /\ r \in ListThreads /\ r.op = "found" /\ r.call = call /\ r.key = KeyOf(n) /\ r.x = Link(n, 0)
      /\ r.old = List!Old /\ thread'[t] = r
  BY <1>1, <1>2, <1>3, AtRest, OldHaveNodes, Marks, ZenonT(60)
  DEF ListThreads, ListOps, ListCalls, ListInv, ListTyped, List!Idle
<1> HIDE DEF r
<1>5. PlaceInv(t)'
  BY <1>1, <1>2, <1>4, OldHaveNodes, ListStays DEF PlaceInv, ListCalls
<1>6. GetInv(t)' /\ InsertInv(t)'
  BY <1>4 DEF GetInv, InsertInv, Inserting
<1>7. Ahead(t)' = {k \in ListKeys : n = Root \/ k > KeyOf(n)} /\ Forward(t)'
  BY <1>4 DEF Ahead, Forward
<1>8. \A k \in List!Old : \E m \in On(0) \ {Root} : KeyOf(m) = k
  BY OldHaveNodes DEF HasNode
<1>9. WalkInv(t)'
  <2>1. CASE Link(n, 0) = List!nullptr
    <3>1. \A k \in List!Old : n # Root /\ k <= KeyOf(n) /\ k \in Int /\ KeyOf(n) \in Int
      BY <1>8, <2>1, LinkLeads, Marks
    <3>2. List!Old \cap Ahead(t)' = {}
      BY <1>7, <3>1
    <3>3. QED
      BY <1>4, <2>1, <3>2 DEF WalkInv
  <2>2. CASE Link(n, 0) # List!nullptr
    <3>1. /\ Link(n, 0) \in On(0) \ {Root} /\ (n # Root => KeyOf(n) < KeyOf(Link(n, 0)))
          /\ KeyOf(Link(n, 0)) \in ListKeys /\ KeyOf(Link(n, 0)) \in Int /\ (n # Root => KeyOf(n) \in Int)
      BY <2>2, LinkLeads, Marks
    <3>2. KeyOf(Link(n, 0)) \in Ahead(t)'
      BY <1>7, <3>1
    <3>3. \A k \in List!Old \cap Ahead(t)' : KeyOf(Link(n, 0)) <= k
      BY <1>7, <1>8, <2>2, LinkLeads, Marks
    <3>4. QED
      BY <1>1, <1>4, <1>7, <2>2, <3>1, <3>2, <3>3, ListStays DEF WalkInv, Root
  <2>3. QED
    BY <2>1, <2>2
<1>10. QED
  BY <1>1, <1>4, <1>5, <1>6, <1>9, QuietKeeps

(* An iterator rests at the node it has found, or at none.                 *)
LEMMA WalkEndsKeeps ==
  ASSUME ListInv, NEW t \in Threads, List!WalkEnds(t)
  PROVE  ListInv'
<1> DEFINE r == [List!Idle EXCEPT !.x = IF thread[t].x = Root THEN List!nullptr ELSE thread[t].x]
<1>1. thread' = [thread EXCEPT ![t] = r] /\ shared' = shared /\ history' = history /\ thread[t].op = "found"
  BY DEF List!WalkEnds, List!Goes, Root, List!Does
<1>2. thread[t].x \in On(0) \cup {List!nullptr} /\ thread[t].x \in Nat
  BY <1>1 DEF ListInv, PlaceInv, ListTyped, ListThreads
<1>3. r \in ListThreads /\ r.op = "idle" /\ r.x \in (On(0) \ {Root}) \cup {List!nullptr} /\ r.old = {}
  BY <1>2, AtRest, Marks DEF ListThreads, List!Idle
<1> HIDE DEF r
<1>4. thread'[t] = r
  BY <1>1 DEF ListInv, ListTyped
<1>5. PlaceInv(t)' /\ GetInv(t)' /\ WalkInv(t)' /\ InsertInv(t)'
  BY <1>1, <1>3, <1>4, ListStays DEF PlaceInv, GetInv, WalkInv, InsertInv, Inserting, Root
<1>6. QED
  BY <1>1, <1>3, <1>5, QuietKeeps

(* A Get returns.                                                          *)
LEMMA GetReturnKeeps ==
  ASSUME ListInv, NEW t \in Threads, List!GetReturn(t)
  PROVE  ListInv'
<1>1. thread' = [thread EXCEPT ![t] = List!Idle] /\ shared' = shared /\ history' = history
  BY DEF List!GetReturn, List!Goes
<1>2. thread'[t] = List!Idle
  BY <1>1 DEF ListInv, ListTyped
<1>3. PlaceInv(t)' /\ GetInv(t)' /\ WalkInv(t)' /\ InsertInv(t)'
  BY <1>2, AtRest DEF PlaceInv, GetInv, WalkInv, InsertInv, Inserting
<1>4. QED
  BY <1>1, <1>3, AtRest, QuietKeeps

------------------------------------------------------------------------------
(* A search goes on                                                        *)

(* A thread that searches is at a node of its level before its key.        *)
LEMMA Searches ==
  ASSUME ListInv, NEW t \in Threads, thread[t].op = "search"
  PROVE  LET c == thread[t]
             y == Link(c.x, c.level) IN
         /\ c \in ListThreads /\ c.level \in List!Levels /\ c.x \in On(c.level)
         /\ c.call \in {"Get", "Insert", "Seek", "SeekToLast", "Prev"}
         /\ c.call # "SeekToLast" => c.key \in ListKeys /\ Below(c.x, c.key)
         /\ y = List!Following(t) /\ y \in Nat
         /\ y = List!nullptr \/ y \in On(c.level) \ {Root}
         /\ \A i \in List!Levels : On(i) \subseteq On(0) /\ On(i) \subseteq Nat
<1> DEFINE c == thread[t]
           y == Link(c.x, c.level)
<1>1. c \in ListThreads
  BY DEF ListInv, ListTyped
<1>2. /\ c.level \in List!Levels /\ c.x \in On(c.level)
      /\ c.call \in {"Get", "Insert", "Seek", "SeekToLast", "Prev"}
      /\ c.call # "SeekToLast" => c.key \in ListKeys /\ Below(c.x, c.key)
  BY DEF ListInv, PlaceInv, ListCalls
<1>3. y = List!Following(t)
  BY DEF List!Following, Link, List!Node
<1>4. \A i \in List!Levels : On(i) \subseteq On(0) /\ On(i) \subseteq Nat
  BY Marks, NodeFields DEF ListInv, NodesInv
<1>5. y = List!nullptr \/ y \in On(c.level) \ {Root}
  BY <1>2, LinkLeads
<1>6. y \in Nat
  BY <1>2, <1>4, <1>5, Marks
<1>7. QED
  BY <1>1, <1>2, <1>3, <1>4, <1>5, <1>6

(* What becomes of the thread.                                             *)
Forth(t) == [thread[t] EXCEPT !.x = List!Node(thread[t].x).next[thread[t].level]]
Kept(t) == [thread[t] EXCEPT !.prev[thread[t].level] =
              IF thread[t].call = "Insert" THEN thread[t].x ELSE thread[t].prev[thread[t].level]]
Down(t) == [Kept(t) EXCEPT !.level = @ - 1]
Ends(t, n) == [Kept(t) EXCEPT !.x = n, !.op = "found"]

(* The thread that goes on, and the one that keeps the node as the last of *)
(* its level.                                                              *)
LEMMA KeptFields ==
  ASSUME ListInv, NEW t \in Threads, thread[t].op = "search"
  PROVE  LET c == thread[t] IN
         /\ Forth(t) = [op |-> c.op, call |-> c.call, key |-> c.key, x |-> Link(c.x, c.level),
                        level |-> c.level, prev |-> c.prev, height |-> c.height, since |-> c.since, old |-> c.old]
         /\ Forth(t) \in ListThreads
         /\ \E p \in [List!Levels -> Nat] :
              /\ \A i \in List!Levels :
                   p[i] = IF i = c.level /\ c.call = "Insert" THEN c.x ELSE c.prev[i]
              /\ Kept(t) = [op |-> c.op, call |-> c.call, key |-> c.key, x |-> c.x, level |-> c.level,
                            prev |-> p, height |-> c.height, since |-> c.since, old |-> c.old]
<1> DEFINE c == thread[t]
           p == [c.prev EXCEPT ![c.level] = IF c.call = "Insert" THEN c.x ELSE c.prev[c.level]]
<1>1. c \in ListThreads /\ c.level \in List!Levels /\ c.x \in Nat /\ Link(c.x, c.level) \in Nat
  BY Searches DEF ListThreads
<1>2. Forth(t) = [op |-> c.op, call |-> c.call, key |-> c.key, x |-> Link(c.x, c.level), level |-> c.level,
                  prev |-> c.prev, height |-> c.height, since |-> c.since, old |-> c.old]
  BY <1>1 DEF Forth, ListThreads, Link, List!Node
<1>3. Forth(t) \in ListThreads
  BY <1>1, <1>2 DEF ListThreads
<1>4. p \in [List!Levels -> Nat]
      /\ \A i \in List!Levels : p[i] = IF i = c.level /\ c.call = "Insert" THEN c.x ELSE c.prev[i]
  BY <1>1 DEF ListThreads
<1>5. Kept(t) = [op |-> c.op, call |-> c.call, key |-> c.key, x |-> c.x, level |-> c.level,
                 prev |-> p, height |-> c.height, since |-> c.since, old |-> c.old]
  BY <1>1 DEF Kept, ListThreads
<1>6. QED
  BY <1>2, <1>3, <1>4, <1>5

(* The thread that goes a level down.                                      *)
LEMMA DownFields ==
  ASSUME ListInv, NEW t \in Threads, thread[t].op = "search", thread[t].level > 0
  PROVE  LET c == thread[t]
             d == Down(t) IN
         /\ d \in ListThreads /\ d.op = c.op /\ d.call = c.call /\ d.key = c.key /\ d.x = c.x
         /\ d.level = c.level - 1 /\ d.since = c.since /\ d.old = c.old
         /\ \A i \in List!Levels : d.prev[i] = IF i = c.level /\ c.call = "Insert" THEN c.x ELSE c.prev[i]
<1> DEFINE c == thread[t]
<1>1. PICK p \in [List!Levels -> Nat] :
        /\ \A i \in List!Levels : p[i] = IF i = c.level /\ c.call = "Insert" THEN c.x ELSE c.prev[i]
        /\ Kept(t) = [op |-> c.op, call |-> c.call, key |-> c.key, x |-> c.x, level |-> c.level,
                      prev |-> p, height |-> c.height, since |-> c.since, old |-> c.old]
  BY KeptFields
<1>2. c \in ListThreads /\ c.level - 1 \in 0..kMaxHeight
  <2>1. c \in ListThreads /\ c.level \in List!Levels
    BY Searches
  <2>2. QED
    BY <2>1, Marks
<1>3. Down(t) = [op |-> c.op, call |-> c.call, key |-> c.key, x |-> c.x, level |-> c.level - 1,
                 prev |-> p, height |-> c.height, since |-> c.since, old |-> c.old]
  BY <1>1 DEF Down
<1>4. QED
  BY <1>1, <1>2, <1>3 DEF ListThreads

(* The thread whose search ends.                                           *)
LEMMA EndsFields ==
  ASSUME ListInv, NEW t \in Threads, thread[t].op = "search", NEW n \in Nat
  PROVE  LET c == thread[t]
             d == Ends(t, n) IN
         /\ d \in ListThreads /\ d.op = "found" /\ d.call = c.call /\ d.key = c.key /\ d.x = n
         /\ d.level = c.level /\ d.since = c.since /\ d.old = c.old
         /\ \A i \in List!Levels : d.prev[i] = IF i = c.level /\ c.call = "Insert" THEN c.x ELSE c.prev[i]
<1> DEFINE c == thread[t]
<1>1. PICK p \in [List!Levels -> Nat] :
        /\ \A i \in List!Levels : p[i] = IF i = c.level /\ c.call = "Insert" THEN c.x ELSE c.prev[i]
        /\ Kept(t) = [op |-> c.op, call |-> c.call, key |-> c.key, x |-> c.x, level |-> c.level,
                      prev |-> p, height |-> c.height, since |-> c.since, old |-> c.old]
  BY KeptFields
<1>2. c \in ListThreads
  BY Searches
<1>3. Ends(t, n) = [op |-> "found", call |-> c.call, key |-> c.key, x |-> n, level |-> c.level,
                    prev |-> p, height |-> c.height, since |-> c.since, old |-> c.old]
  <2> DEFINE e1 == [Kept(t) EXCEPT !.x = n]
             e2 == [e1 EXCEPT !.op = "found"]
  <2>1. Ends(t, n) = e2
    BY DEF Ends
  <2>2. e1 = [op |-> c.op, call |-> c.call, key |-> c.key, x |-> n, level |-> c.level,
              prev |-> p, height |-> c.height, since |-> c.since, old |-> c.old]
    BY <1>1
  <2> HIDE DEF e1
  <2>3. e2 = [op |-> "found", call |-> c.call, key |-> c.key, x |-> n, level |-> c.level,
              prev |-> p, height |-> c.height, since |-> c.since, old |-> c.old]
    BY <2>2
  <2>4. QED
    BY <2>1, <2>3
<1>4. QED
  BY <1>1, <1>2, <1>3 DEF ListThreads, ListOps

(* Every round of a search leaves the list alone.                          *)
LEMMA SearchOnGoes ==
  ASSUME NEW t \in Threads, NEW b \in BOOLEAN, NEW n, List!SearchOn(t, b, n)
  PROVE  /\ thread[t].op = "search" /\ shared' = shared /\ history' = history
         /\ b => List!Goes(t, Forth(t))
         /\ ~b /\ thread[t].level > 0 => List!Goes(t, Down(t))
         /\ ~b /\ ~(thread[t].level > 0) => List!Goes(t, Ends(t, n))
BY DEF List!SearchOn, List!Does, Forth, Down, Ends, Kept

(* It goes on on its level, to a node that is not behind its key,          *)
LEMMA ForthKeeps ==
  ASSUME ListInv, NEW t \in Threads, thread[t].op = "search", shared' = shared, history' = history,
         List!Goes(t, Forth(t)), List!Following(t) # List!nullptr,
         thread[t].call # "SeekToLast" => KeyOf(List!Following(t)) < thread[t].key
  PROVE  ListInv'
<1> DEFINE c == thread[t]
           y == Link(c.x, c.level)
<1>1. PICK d \in ListThreads :
        /\ d = Forth(t) /\ d.op = c.op /\ d.call = c.call /\ d.key = c.key /\ d.x = y
        /\ d.level = c.level /\ d.prev = c.prev /\ d.since = c.since /\ d.old = c.old
  BY KeptFields
<1>2. thread' = [thread EXCEPT ![t] = d] /\ thread'[t] = d
  BY <1>1 DEF List!Goes, ListInv, ListTyped
<1>3. y \in On(c.level) \ {Root} /\ (c.call # "SeekToLast" => KeyOf(y) < c.key)
  BY Searches
<1>4. PlaceInv(t) /\ InsertInv(t)
  BY DEF ListInv
<1>5. PlaceInv(t)'
  BY <1>1, <1>2, <1>3, <1>4, ListStays DEF PlaceInv, Below, Root
<1>6. GetInv(t)' /\ WalkInv(t)'
  BY <1>1, <1>2 DEF GetInv, WalkInv
<1>7. InsertInv(t)'
  BY <1>1, <1>2, <1>4, ListStays DEF InsertInv, Inserting, SearchInv, LinkInv
<1>8. QED
  BY <1>2, <1>5, <1>6, <1>7, QuietKeeps

(* or a level down, from the last node before its key,                     *)
LEMMA DownKeeps ==
  ASSUME ListInv, NEW t \in Threads, thread[t].op = "search", shared' = shared, history' = history,
         List!Goes(t, Down(t)), thread[t].level > 0,
         thread[t].call = "Insert" => Precedes(thread[t].x, thread[t].level, thread[t].key)
  PROVE  ListInv'
<1> DEFINE c == thread[t]
<1>1. PICK d \in ListThreads :
        /\ d = Down(t) /\ d.op = c.op /\ d.call = c.call /\ d.key = c.key /\ d.x = c.x
        /\ d.level = c.level - 1 /\ d.since = c.since /\ d.old = c.old
        /\ \A i \in List!Levels : d.prev[i] = IF i = c.level /\ c.call = "Insert" THEN c.x ELSE c.prev[i]
  BY DownFields
<1>2. thread' = [thread EXCEPT ![t] = d] /\ thread'[t] = d
  BY <1>1 DEF List!Goes, ListInv, ListTyped
<1>3. c.level \in List!Levels /\ d.level \in List!Levels /\ c.x \in On(d.level)
  <2>1. c.level \in List!Levels /\ c.x \in On(c.level)
    BY Searches
  <2>2. d.level \in List!Levels /\ d.level <= c.level
    BY <1>1, <2>1, Marks
  <2>3. QED
    BY <2>1, <2>2 DEF ListInv, NodesInv
<1>4. PlaceInv(t) /\ InsertInv(t)
  BY DEF ListInv
<1>5. PlaceInv(t)'
  BY <1>1, <1>2, <1>3, <1>4, ListStays DEF PlaceInv, Below, Root
<1>6. GetInv(t)' /\ WalkInv(t)'
  BY <1>1, <1>2 DEF GetInv, WalkInv
<1>7. InsertInv(t)'
  <2>1. CASE c.call # "Insert"
    BY <1>1, <1>2, <2>1 DEF InsertInv, Inserting
  <2>2. CASE c.call = "Insert"
    <3>1. shared.lock_ = t /\ SearchInv(t)
      BY <1>4, <2>2 DEF InsertInv, Inserting
    <3>2. shared.max_height_ \in 1..kMaxHeight
      BY DEF ListInv, ListTyped
    <3>3. ASSUME NEW i \in d.level + 1..shared.max_height_ - 1
          PROVE  Precedes(d.prev[i], i, c.key)
      <4>1. i \in List!Levels /\ (i = c.level \/ i \in c.level + 1..shared.max_height_ - 1)
        BY <1>1, <1>3, <3>2, <3>3, Marks
      <4>2. CASE i = c.level
        BY <1>1, <2>2, <4>1, <4>2
      <4>3. CASE i # c.level
        BY <1>1, <3>1, <4>1, <4>3 DEF SearchInv
      <4>4. QED
        BY <4>2, <4>3
    <3>4. d.level < shared.max_height_
      <4>1. c.level < shared.max_height_
        BY <3>1 DEF SearchInv
      <4>2. QED
        BY <1>1, <1>3, <3>2, <4>1, Marks
    <3>5. SearchInv(t)' /\ LinkInv(t)'
      BY <1>1, <1>2, <3>3, <3>4, ListStays DEF SearchInv, LinkInv
    <3>6. QED
      BY <3>1, <3>5 DEF InsertInv
  <2>3. QED
    BY <2>1, <2>2
<1>8. QED
  BY <1>2, <1>5, <1>6, <1>7, QuietKeeps

(* or ends on the lowest level.                                            *)
LEMMA EndsKeeps ==
  ASSUME ListInv, NEW t \in Threads, thread[t].op = "search", shared' = shared, history' = history,
         NEW n \in On(0) \cup {List!nullptr}, List!Goes(t, Ends(t, n)), ~(thread[t].level > 0),
         LET c == thread[t]
         IN /\ c.call = "Insert" => n = Link(c.x, 0) /\ Precedes(c.x, 0, c.key)
            /\ c.call = "Get" => /\ n # Root
                                 /\ n = List!nullptr \/ KeyOf(n) # c.key => ~HasNode(c.key)
            /\ c.call \notin {"Get", "Insert"} =>
                 IF n \in {Root, List!nullptr} THEN \A k \in c.old \cap Ahead(t) : ~HasNode(k)
                 ELSE /\ KeyOf(n) \in Ahead(t)
                      /\ \A k \in c.old \cap Ahead(t) : HasNode(k) =>
                           IF Forward(t) THEN KeyOf(n) <= k ELSE k <= KeyOf(n)
  PROVE  ListInv'
<1> DEFINE c == thread[t]
<1>1. n \in Nat /\ c.level \in List!Levels /\ c.level = 0
  <2>1. c.level \in List!Levels /\ (n \in On(0) => n \in Nat)
    BY Searches, Marks
  <2>2. QED
    BY <2>1, Marks
<1>2. PICK d \in ListThreads :
        /\ d = Ends(t, n) /\ d.op = "found" /\ d.call = c.call /\ d.key = c.key /\ d.x = n
        /\ d.level = c.level /\ d.since = c.since /\ d.old = c.old
        /\ \A i \in List!Levels : d.prev[i] = IF i = c.level /\ c.call = "Insert" THEN c.x ELSE c.prev[i]
  BY <1>1, EndsFields
<1>3. thread' = [thread EXCEPT ![t] = d] /\ thread'[t] = d
  BY <1>2 DEF List!Goes, ListInv, ListTyped
<1>4. PlaceInv(t) /\ InsertInv(t)
  BY DEF ListInv
<1>5. PlaceInv(t)'
  BY <1>2, <1>3, <1>4, ListStays DEF PlaceInv
<1>6. GetInv(t)'
  <2>1. CASE c.call # "Get"
    BY <1>2, <1>3, <2>1 DEF GetInv
  <2>2. CASE c.call = "Get" /\ (n = List!nullptr \/ KeyOf(n) # c.key)
    <3>1. ~HasNode(c.key) /\ c.key \in ListKeys /\ c.since <= history.returned[c.key]
      BY <1>4, <2>2 DEF PlaceInv
    <3>2. /\ history.stored[c.key] \in Nat /\ history.returned[c.key] \in Nat
          /\ history.returned[c.key] <= history.stored[c.key] /\ ~(history.stored[c.key] > 0)
      BY <3>1 DEF ListInv, ListTyped, StoredInv
    <3>3. c.since \in Nat
      BY DEF ListInv, ListTyped, ListThreads
    <3>4. c.since = 0
      BY <3>1, <3>2, <3>3
    <3>5. QED
      BY <1>2, <1>3, <2>2, <3>4 DEF GetInv, Root
  <2>3. CASE c.call = "Get" /\ ~(n = List!nullptr \/ KeyOf(n) # c.key)
    BY <1>2, <1>3, <2>3, ListStays DEF GetInv, Root
  <2>4. QED
    BY <2>1, <2>2, <2>3
<1>7. WalkInv(t)'
  <2>1. Ahead(t)' = Ahead(t) /\ Forward(t)' = Forward(t)
    BY <1>2, <1>3 DEF Ahead, Forward
  <2>2. \A k \in c.old : HasNode(k)
    BY <1>4 DEF PlaceInv
  <2>3. QED
    BY <1>2, <1>3, <2>1, <2>2, ListStays DEF WalkInv, Root
<1>8. InsertInv(t)'
  <2>1. CASE c.call # "Insert"
    BY <1>2, <1>3, <2>1 DEF InsertInv, Inserting
  <2>2. CASE c.call = "Insert"
    <3>1. shared.lock_ = t /\ SearchInv(t)
      BY <1>4, <2>2 DEF InsertInv, Inserting
    <3>2. shared.max_height_ \in 1..kMaxHeight
      BY DEF ListInv, ListTyped
    <3>3. ASSUME NEW i \in 0..shared.max_height_ - 1
          PROVE  Precedes(d.prev[i], i, c.key)
      <4>1. i \in List!Levels /\ (i = 0 \/ i \in c.level + 1..shared.max_height_ - 1)
        BY <1>1, <3>2, <3>3, Marks
      <4>2. CASE i = 0
        BY <1>1, <1>2, <2>2, <4>1, <4>2
      <4>3. CASE i # 0
        BY <1>1, <1>2, <3>1, <4>1, <4>3 DEF SearchInv
      <4>4. QED
        BY <4>2, <4>3
    <3>4. d.prev[0] = c.x
      BY <1>1, <1>2, <2>2
    <3>5. SearchInv(t)' /\ LinkInv(t)'
      BY <1>1, <1>2, <1>3, <2>2, <3>3, <3>4, ListStays DEF SearchInv, LinkInv
    <3>6. QED
      BY <3>1, <3>5 DEF InsertInv
  <2>3. QED
    BY <2>1, <2>2
<1>9. QED
  BY <1>3, <1>5, <1>6, <1>7, <1>8, QuietKeeps

(* A round of the search of Get, Insert and Seek, which ends with the      *)
(* first key that is not below its own.                                    *)
LEMMA FindGreaterOrEqualKeeps ==
  ASSUME ListInv, NEW t \in Threads, List!FindGreaterOrEqual(t)
  PROVE  ListInv'
<1> DEFINE c == thread[t]
           y == Link(c.x, c.level)
<1>1. PICK b \in BOOLEAN : b = List!KeyIsAfterNode(c.key, y)
  BY DEF List!KeyIsAfterNode
<1>2. c.op = "search"
  BY DEF List!FindGreaterOrEqual, List!SearchOn, List!Does
<1>3. y = List!Following(t) /\ c.call \in {"Get", "Insert", "Seek"} /\ List!SearchOn(t, b, y)
  BY <1>1, <1>2, Searches DEF List!FindGreaterOrEqual
<1>4. /\ shared' = shared /\ history' = history
      /\ b => List!Goes(t, Forth(t))
      /\ ~b /\ c.level > 0 => List!Goes(t, Down(t))
      /\ ~b /\ ~(c.level > 0) => List!Goes(t, Ends(t, y))
  BY <1>3, SearchOnGoes
<1>5. c.key \in ListKeys /\ Below(c.x, c.key) /\ c.level \in List!Levels /\ c.x \in On(c.level)
      /\ y \in (On(c.level) \ {Root}) \cup {List!nullptr}
  BY <1>2, <1>3, Searches
<1>6. CASE b
  <2>1. y # List!nullptr /\ KeyOf(y) < c.key
    BY <1>1, <1>6 DEF List!KeyIsAfterNode, KeyOf, List!Node
  <2>2. QED
    BY <1>2, <1>3, <1>4, <1>6, <2>1, ForthKeeps
<1>7. CASE ~b /\ c.level > 0
  <2>1. Precedes(c.x, c.level, c.key)
    BY <1>1, <1>5, <1>7, SearchEnds
  <2>2. QED
    BY <1>2, <1>4, <1>7, <2>1, DownKeeps
<1>8. CASE ~b /\ ~(c.level > 0)
  <2>1. c.level = 0 /\ y = Link(c.x, 0) /\ c.x \in On(0) /\ y \in (On(0) \ {Root}) \cup {List!nullptr}
    BY <1>5, <1>8, Marks
  <2>2. Precedes(c.x, 0, c.key) /\ (HasNode(c.key) => y # List!nullptr /\ KeyOf(y) = c.key)
    BY <1>1, <1>5, <1>8, <2>1, SearchEnds
  <2>3. ASSUME c.call = "Seek"
        PROVE  IF y \in {Root, List!nullptr} THEN \A k \in c.old \cap Ahead(t) : ~HasNode(k)
               ELSE /\ KeyOf(y) \in Ahead(t)
                    /\ \A k \in c.old \cap Ahead(t) : HasNode(k) =>
                         IF Forward(t) THEN KeyOf(y) <= k ELSE k <= KeyOf(y)
    <3>1. Ahead(t) = {k \in ListKeys : k >= c.key} /\ Forward(t)
      BY <2>3 DEF Ahead, Forward
    <3>2. c.key \in Int /\ \A m \in On(0) \ {Root} : KeyOf(m) \in Int /\ KeyOf(m) \in ListKeys
      BY <1>5, <2>1, LinkLeads, Marks
    <3>3. ASSUME NEW m \in On(0) \ {Root}, KeyOf(m) >= c.key
          PROVE  y # List!nullptr /\ KeyOf(y) <= KeyOf(m)
      <4>1. c.x = Root \/ KeyOf(m) > KeyOf(c.x)
        BY <1>5, <2>1, <3>2, <3>3 DEF Below
      <4>2. c.x # Root => KeyOf(c.x) \in Int
        BY <2>1, <3>2
      <4>3. QED
        BY <2>1, <3>2, <3>3, <4>1, <4>2, LinkLeads, Marks
    <3>4. CASE y = List!nullptr
      BY <3>1, <3>3, <3>4 DEF HasNode
    <3>5. CASE y # List!nullptr
      <4>1. ~(KeyOf(y) < c.key)
        BY <1>1, <1>8, <3>5 DEF List!KeyIsAfterNode, KeyOf, List!Node
      <4>2. KeyOf(y) \in Ahead(t)
        BY <2>1, <3>1, <3>2, <3>5, <4>1
      <4>3. \A k \in c.old \cap Ahead(t) : HasNode(k) => KeyOf(y) <= k
        BY <3>1, <3>3 DEF HasNode
      <4>4. QED
        BY <2>1, <3>1, <3>5, <4>2, <4>3
    <3>6. QED
      BY <3>4, <3>5
  <2>4. c.call = "Get" => y # Root /\ (y = List!nullptr \/ KeyOf(y) # c.key => ~HasNode(c.key))
    BY <2>1, <2>2, Marks
  <2>5. QED
    BY <1>2, <1>3, <1>4, <1>8, <2>1, <2>2, <2>3, <2>4, EndsKeeps
<1>9. QED
  BY <1>6, <1>7, <1>8

(* A round of the search of Prev, which ends with the last key below its   *)
(* own.                                                                    *)
LEMMA FindLessThanKeeps ==
  ASSUME ListInv, NEW t \in Threads, List!FindLessThan(t)
  PROVE  ListInv'
<1> DEFINE c == thread[t]
           y == Link(c.x, c.level)
<1>1. PICK b \in BOOLEAN : b = List!KeyIsAfterNode(c.key, y)
  BY DEF List!KeyIsAfterNode
<1>2. c.op = "search"
  BY DEF List!FindLessThan, List!SearchOn, List!Does
<1>3. y = List!Following(t) /\ c.call = "Prev" /\ List!SearchOn(t, b, c.x)
  BY <1>1, <1>2, Searches DEF List!FindLessThan
<1>4. /\ shared' = shared /\ history' = history
      /\ b => List!Goes(t, Forth(t))
      /\ ~b /\ c.level > 0 => List!Goes(t, Down(t))
      /\ ~b /\ ~(c.level > 0) => List!Goes(t, Ends(t, c.x))
  BY <1>3, SearchOnGoes
<1>5. c.key \in ListKeys /\ Below(c.x, c.key) /\ c.level \in List!Levels /\ c.x \in On(c.level)
  BY <1>2, <1>3, Searches
<1>6. CASE b
  <2>1. y # List!nullptr /\ KeyOf(y) < c.key
    BY <1>1, <1>6 DEF List!KeyIsAfterNode, KeyOf, List!Node
  <2>2. QED
    BY <1>2, <1>3, <1>4, <1>6, <2>1, ForthKeeps
<1>7. CASE ~b /\ c.level > 0
  BY <1>2, <1>3, <1>4, <1>7, DownKeeps
<1>8. CASE ~b /\ ~(c.level > 0)
  <2>1. c.level = 0 /\ c.x \in On(0)
    BY <1>5, <1>8, Marks
  <2>2. Precedes(c.x, 0, c.key)
    BY <1>1, <1>5, <1>8, <2>1, SearchEnds
  <2>3. Ahead(t) = {k \in ListKeys : k < c.key} /\ ~Forward(t)
    BY <1>3 DEF Ahead, Forward
  <2>4. c.x # List!nullptr /\ (c.x # Root => KeyOf(c.x) \in ListKeys)
    BY <2>1, LinkLeads, Marks
  <2>5. c.x = Root => \A k \in c.old \cap Ahead(t) : ~HasNode(k)
    BY <2>2, <2>3 DEF HasNode, Precedes
  <2>6. c.x # Root => KeyOf(c.x) \in Ahead(t) /\ \A k \in c.old \cap Ahead(t) : HasNode(k) => k <= KeyOf(c.x)
    BY <2>2, <2>3, <2>4 DEF HasNode, Precedes, Below
  <2>7. QED
    BY <1>2, <1>3, <1>4, <1>8, <2>1, <2>3, <2>4, <2>5, <2>6, EndsKeeps
<1>9. QED
  BY <1>6, <1>7, <1>8

(* A round of the search of SeekToLast, which ends with the last key.      *)
LEMMA FindLastKeeps ==
  ASSUME ListInv, NEW t \in Threads, List!FindLast(t)
  PROVE  ListInv'
<1> DEFINE c == thread[t]
           y == Link(c.x, c.level)
<1>1. PICK b \in BOOLEAN : b = (y # List!nullptr)
  OBVIOUS
<1>2. c.op = "search"
  BY DEF List!FindLast, List!SearchOn, List!Does
<1>3. y = List!Following(t) /\ c.call = "SeekToLast" /\ List!SearchOn(t, b, c.x)
  BY <1>1, <1>2, Searches DEF List!FindLast
<1>4. /\ shared' = shared /\ history' = history
      /\ b => List!Goes(t, Forth(t))
      /\ ~b /\ c.level > 0 => List!Goes(t, Down(t))
      /\ ~b /\ ~(c.level > 0) => List!Goes(t, Ends(t, c.x))
  BY <1>3, SearchOnGoes
<1>5. c.level \in List!Levels /\ c.x \in On(c.level)
  BY <1>2, Searches
<1>6. CASE b
  BY <1>1, <1>2, <1>3, <1>4, <1>6, ForthKeeps
<1>7. CASE ~b /\ c.level > 0
  BY <1>2, <1>3, <1>4, <1>7, DownKeeps
<1>8. CASE ~b /\ ~(c.level > 0)
  <2>1. c.level = 0 /\ c.x \in On(0) /\ Link(c.x, 0) = List!nullptr
    <3>1. c.level = 0
      BY <1>5, <1>8, Marks
    <3>2. y = List!nullptr
      BY <1>1, <1>8
    <3>3. QED
      BY <1>5, <3>1, <3>2
  <2>2. Ahead(t) = ListKeys /\ ~Forward(t)
    BY <1>3 DEF Ahead, Forward
  <2>3. c.x # List!nullptr /\ (c.x # Root => KeyOf(c.x) \in ListKeys)
    BY <2>1, LinkLeads, Marks
  <2>4. \A m \in On(0) \ {Root} : c.x # Root /\ KeyOf(m) <= KeyOf(c.x)
    BY <2>1, LinkLeads, Marks
  <2>5. c.x = Root => \A k \in c.old \cap Ahead(t) : ~HasNode(k)
    BY <2>4 DEF HasNode
  <2>6. c.x # Root => KeyOf(c.x) \in Ahead(t) /\ \A k \in c.old \cap Ahead(t) : HasNode(k) => k <= KeyOf(c.x)
    BY <2>2, <2>3, <2>4 DEF HasNode
  <2>7. QED
    BY <1>2, <1>3, <1>4, <1>8, <2>1, <2>2, <2>3, <2>5, <2>6, EndsKeeps
<1>9. QED
  BY <1>6, <1>7, <1>8

------------------------------------------------------------------------------
(* What an Insert changes                                                  *)

(* The thread whose Insert is past the lock has it, and knows the levels.  *)
LEMMA Inserts ==
  ASSUME ListInv, NEW t \in Threads,
         thread[t].op \in {"overwrite", "new", "setnext", "publish", "unlock"}
         \/ (thread[t].op = "found" /\ thread[t].call = "Insert")
  PROVE  LET c == thread[t] IN
         /\ c \in ListThreads /\ c.call = "Insert" /\ Inserting(t) /\ c.key \in ListKeys
         /\ shared.lock_ = t /\ SearchInv(t) /\ LinkInv(t)
         /\ shared.max_height_ \in 1..kMaxHeight
         /\ history.stored[c.key] \in Nat /\ history.returned[c.key] \in Nat
<1> DEFINE c == thread[t]
<1>1. c \in ListThreads /\ shared.max_height_ \in 1..kMaxHeight
  BY DEF ListInv, ListTyped
<1>2. c.call = "Insert" /\ c.op \notin {"idle", "lock"} /\ c.key \in ListKeys
  BY DEF ListInv, PlaceInv
<1>3. Inserting(t)
  BY <1>2 DEF Inserting
<1>4. history.stored[c.key] \in Nat /\ history.returned[c.key] \in Nat
  BY <1>2 DEF ListInv, ListTyped
<1>5. InsertInv(t)
  BY DEF ListInv
<1>6. QED
  BY <1>1, <1>2, <1>3, <1>4, <1>5 DEF InsertInv

(* The levels are as they were.                                            *)
LEMMA LevelsSame ==
  ASSUME ListInv, shared'.max_height_ = shared.max_height_,
         \A i \in List!Levels : On(i)' = On(i),
         \A i \in List!Levels : \A n \in On(i) :
           n \in Made' /\ i \in Links(n)' /\ KeyOf(n)' = KeyOf(n) /\ Link(n, i)' = Link(n, i)
  PROVE  /\ NodesInv' /\ List!LevelsAgree'
         /\ \A k : HasNode(k)' = HasNode(k)
         /\ \A i \in List!Levels : \A n, k : Precedes(n, i, k)' = Precedes(n, i, k)
         /\ \A i \in List!Levels : \A n \in On(i) : n \in On(i)' /\ KeyOf(n)' = KeyOf(n)
<1>1. NodesInv'
  <2>1. NodesInv /\ Root \in On(0) /\ Root' = Root
    BY OnIs DEF Root, ListInv
  <2>2. Root \in Made'
    BY <2>1, Marks
  <2>3. \A i \in List!Levels : \A n \in On(i)' :
          n \in Made' /\ i \in Links(n)' /\ (n # Root => KeyOf(n)' \in ListKeys)
    BY <2>1 DEF NodesInv
  <2>4. \A i, j \in List!Levels : j <= i => On(i)' \subseteq On(j)'
    BY <2>1 DEF NodesInv
  <2>5. \A i \in List!Levels : i >= shared'.max_height_ => On(i)' = {Root}
    BY <2>1 DEF NodesInv
  <2>6. QED
    BY <2>1, <2>2, <2>3, <2>4, <2>5 DEF NodesInv
<1>2. List!LevelsAgree'
  <2>1. ASSUME NEW i \in List!Levels
        PROVE  KeysOn(i)' = KeysOn(i) /\ LinksOn(i)' = LinksOn(i)
    BY <2>1 DEF KeysOn, LinksOn
  <2>2. \A i \in List!Levels : Chained(On(i), KeysOn(i), LinksOn(i))
    BY LevelsChained DEF ListInv
  <2>3. \A i \in List!Levels : Chained(On(i), KeysOn(i), LinksOn(i))'
    BY <2>1, <2>2 DEF Chained, After, Root
  <2>4. (NodesInv => (List!LevelsAgree <=> \A i \in List!Levels : Chained(On(i), KeysOn(i), LinksOn(i))))'
    BY LevelsChained, PTL
  <2>5. QED
    BY <1>1, <2>3, <2>4
<1>3. \A k : HasNode(k)' = HasNode(k)
  BY Marks DEF HasNode, Root
<1>4. \A i \in List!Levels : \A n, k : Precedes(n, i, k)' = Precedes(n, i, k)
  BY DEF Precedes, Below, Root
<1>5. QED
  BY <1>1, <1>2, <1>3, <1>4

(* A node gets a link.                                                     *)
WithLink(n, i, y) == [shared EXCEPT !.node[n].next[i] = y]
(* All other links, and all keys and values, stay.                         *)
LEMMA LinkSet ==
  ASSUME ListTyped, NEW n \in Made, NEW i \in Links(n), NEW y \in Int,
         shared' = WithLink(n, i, y)
  PROVE  /\ shared' \in [node : Seq(ListNodes), max_height_ : 1..kMaxHeight, lock_ : Threads \cup {Nothing}]
         /\ shared'.max_height_ = shared.max_height_ /\ shared'.lock_ = shared.lock_ /\ Made' = Made
         /\ \A m \in Made : KeyOf(m)' = KeyOf(m) /\ ValOf(m)' = ValOf(m) /\ Links(m)' = Links(m)
         /\ \A m \in Made : \A j \in Links(m) : Link(m, j)' = IF m = n /\ j = i THEN y ELSE Link(m, j)
<1>1. PICK s \in Seq(ListNodes) : s = shared.node
  BY DEF ListTyped
<1>2. n \in DOMAIN s /\ s[n] \in ListNodes /\ i \in DOMAIN s[n].next
  BY <1>1 DEF Made, Links
<1>3. PICK h \in 1..kMaxHeight : s[n].next \in [0..h - 1 -> Int]
  BY <1>2 DEF ListNodes
<1> DEFINE x == [s[n].next EXCEPT ![i] = y]
           w == [s[n] EXCEPT !.next = x]
<1>4. x \in [0..h - 1 -> Int] /\ \A j \in DOMAIN s[n].next : x[j] = IF j = i THEN y ELSE s[n].next[j]
  BY <1>2, <1>3
<1>5. DOMAIN x = DOMAIN s[n].next
  OBVIOUS
<1> HIDE DEF x
<1>6. w = [key |-> s[n].key, val |-> s[n].val, next |-> x]
  <2>1. PICK d : d = s[n] /\ d = [key |-> s[n].key, val |-> s[n].val, next |-> s[n].next]
    BY <1>2 DEF ListNodes
  <2>2. [d EXCEPT !.next = x] = [key |-> s[n].key, val |-> s[n].val, next |-> x]
    BY <2>1
  <2>3. QED
    BY <2>1, <2>2
<1>7. w \in ListNodes
  BY <1>2, <1>4, <1>6 DEF ListNodes
<1>8. shared' = [shared EXCEPT !.node = [s EXCEPT ![n] = w]]
  BY <1>1 DEF x, WithLink
<1> HIDE DEF w
<1>9. [s EXCEPT ![n] = w] \in Seq(ListNodes) /\ DOMAIN [s EXCEPT ![n] = w] = DOMAIN s
      /\ \A m \in DOMAIN s : [s EXCEPT ![n] = w][m] = IF m = n THEN w ELSE s[m]
  BY <1>2, <1>7
<1>10. shared'.node = [s EXCEPT ![n] = w]
       /\ shared'.max_height_ = shared.max_height_ /\ shared'.lock_ = shared.lock_
       /\ shared' \in [node : Seq(ListNodes), max_height_ : 1..kMaxHeight, lock_ : Threads \cup {Nothing}]
  BY <1>8, <1>9 DEF ListTyped
<1>11. \A m \in Made : shared'.node[m] = IF m = n THEN w ELSE shared.node[m]
  BY <1>1, <1>9, <1>10 DEF Made
<1>12. Made' = Made
  BY <1>1, <1>9, <1>10 DEF Made
<1>13. \A m \in Made : KeyOf(m)' = KeyOf(m) /\ ValOf(m)' = ValOf(m) /\ Links(m)' = Links(m)
  BY <1>1, <1>5, <1>6, <1>11 DEF KeyOf, ValOf, Links
<1>14. ASSUME NEW m \in Made, NEW j \in Links(m)
       PROVE  Link(m, j)' = IF m = n /\ j = i THEN y ELSE Link(m, j)
  <2>1. CASE m = n
    <3>1. Link(m, j)' = w.next[j] /\ w.next = x /\ j \in DOMAIN s[n].next
      BY <1>1, <1>6, <1>11, <1>14, <2>1 DEF Link, Links
    <3>2. QED
      BY <1>1, <1>4, <2>1, <3>1 DEF Link
  <2>2. CASE m # n
    BY <1>11, <2>2 DEF Link
  <2>3. QED
    BY <2>1, <2>2
<1>15. QED
  BY <1>10, <1>12, <1>13, <1>14

(* The nodes of a level after a step.                                      *)
LEMMA OnIsNext ==
  ASSUME NEW i
  PROVE  \A m : m \in On(i)' <=>
           \/ m = Root
           \/ /\ m # List!nullptr /\ m # List!Garbage
              /\ \E n \in Made' : i \in Links(n)' /\ m = Link(n, i)'
BY DEF On, List!OnLevel, Root, Made, Links, Link, List!Node

------------------------------------------------------------------------------
(* The steps of an Insert with the lock                                    *)

(* A thread as it is, and with the height it has drawn.                    *)
Raised(c, p, height, op) == [c EXCEPT !.prev = p, !.height = height, !.op = op]
(* The height drawn leaves the rest of the thread as it was.               *)
LEMMA RaisedFields ==
  ASSUME NEW c \in ListThreads, NEW p \in [List!Levels -> Nat], NEW height \in 1..kMaxHeight,
         NEW op \in {"overwrite", "new"}
  PROVE  LET r == Raised(c, p, height, op) IN
         /\ r \in ListThreads /\ r.op = op /\ r.call = c.call /\ r.key = c.key /\ r.x = c.x
         /\ r.level = c.level /\ r.prev = p /\ r.height = height /\ r.old = c.old
<1> DEFINE R(o, q, h) == [op |-> o, call |-> c.call, key |-> c.key, x |-> c.x, level |-> c.level,
                          prev |-> q, height |-> h, since |-> c.since, old |-> c.old]
           e1 == [c EXCEPT !.prev = p]
           e2 == [e1 EXCEPT !.height = height]
           e3 == [e2 EXCEPT !.op = op]
<1>1. c = R(c.op, c.prev, c.height)
  BY DEF ListThreads
<1>2. Raised(c, p, height, op) = e3
  BY DEF Raised
<1>3. e1 = R(c.op, p, c.height)
  BY <1>1
<1> HIDE DEF e1
<1>4. e2 = R(c.op, p, height)
  BY <1>3
<1> HIDE DEF e2
<1>5. e3 = R(op, p, height)
  BY <1>4
<1>6. R(op, p, height) \in ListThreads
  BY Marks DEF ListThreads, ListOps
<1>7. QED
  BY <1>2, <1>5, <1>6

(* The levels not in use begin at the head.                                *)
LEMMA RaiseKeeps ==
  ASSUME ListInv, NEW t \in Threads, NEW height \in 1..kMaxHeight, List!Raise(t, height)
  PROVE  ListInv'
<1> DEFINE c == thread[t]
           max == shared.max_height_
           top == IF height > max THEN height ELSE max
           op == IF List!Equal(t) THEN "overwrite" ELSE "new"
           p == [i \in List!Levels |-> IF i \in max..height - 1 THEN Root ELSE c.prev[i]]
           r == Raised(c, p, height, op)
<1>1. c.op = "found" /\ c.call = "Insert" /\ history' = history
  BY DEF List!Raise, List!Does
<1>2. /\ c \in ListThreads /\ Inserting(t) /\ c.key \in ListKeys
      /\ shared.lock_ = t /\ SearchInv(t) /\ max \in 1..kMaxHeight
  BY <1>1, Inserts
<1>3. thread' = [thread EXCEPT ![t] = r]
  BY DEF List!Raise, List!Goes, Root, Raised
<1>4. shared' = [shared EXCEPT !.max_height_ = top]
  BY DEF List!Raise
<1>5. p \in [List!Levels -> Nat] /\ op \in {"overwrite", "new"}
  BY <1>2, Marks DEF ListThreads
<1> HIDE DEF p
<1> HIDE DEF op
<1>6. /\ r \in ListThreads /\ r.op = op /\ r.call = c.call /\ r.key = c.key /\ r.x = c.x
      /\ r.level = c.level /\ r.prev = p /\ r.height = height /\ r.old = c.old
  BY <1>2, <1>5, RaisedFields
<1> HIDE DEF r
<1>7. thread'[t] = r
  BY <1>3 DEF ListInv, ListTyped
<1>8. /\ shared'.node = shared.node /\ shared'.lock_ = shared.lock_ /\ shared'.max_height_ = top
      /\ top \in 1..kMaxHeight /\ top >= max /\ height <= top
  BY <1>2, <1>4, Marks DEF ListInv, ListTyped
<1>9. ListTyped'
  BY <1>1, <1>3, <1>4, <1>6, <1>8 DEF ListInv, ListTyped
<1>10. NodesInv'
  <2>1. NodesInv
    BY DEF ListInv
  <2>2. \A i \in List!Levels : i >= shared'.max_height_ => On(i) = {Root}
    BY <1>2, <1>8, <2>1, Marks DEF NodesInv
  <2>3. /\ Root \in Made /\ \A i, j \in List!Levels : j <= i => On(i) \subseteq On(j)
        /\ \A i \in List!Levels : \A n \in On(i) :
             n \in Made /\ i \in Links(n) /\ (n # Root => KeyOf(n) \in ListKeys)
    BY <2>1 DEF NodesInv
  <2>4. QED
    BY <1>8, <2>2, <2>3, ListStays DEF NodesInv, Root
<1>11. StoredInv' /\ List!LevelsAgree'
  BY <1>1, <1>8, ListStays DEF ListInv, StoredInv, Root
<1>12. Grows
  BY <1>1, <1>8, ListStays DEF Grows, ListInv, ListTyped
<1>13. \A u \in Threads \ {t} : thread'[u] = thread[u]
  BY <1>3 DEF ListInv, ListTyped
<1>14. PlaceInv(t) /\ c.x \in On(0) \cup {List!nullptr}
  BY <1>1 DEF ListInv, PlaceInv
<1>15. PlaceInv(t)' /\ GetInv(t)' /\ WalkInv(t)'
  BY <1>1, <1>2, <1>5, <1>6, <1>7, <1>8, <1>14, ListStays DEF PlaceInv, GetInv, WalkInv, ListCalls
<1>16. /\ c.level = 0 /\ c.x = Link(c.prev[0], 0) /\ Precedes(c.prev[0], 0, c.key)
       /\ \A i \in 0..max - 1 : Precedes(c.prev[i], i, c.key)
  BY <1>1, <1>2 DEF SearchInv
<1>17. op = "overwrite" => c.x \in On(0) \ {Root} /\ KeyOf(c.x) = c.key
  <2>1. c.prev[0] \in On(0)
    BY <1>16 DEF Precedes
  <2>2. c.x # List!nullptr => c.x # Root
    BY <1>16, <2>1, LinkLeads, Marks
  <2>3. QED
    BY <1>14, <2>2 DEF op, List!Equal, KeyOf, List!Node
<1>18. op = "new" => ~HasNode(c.key)
  <2>1. c.prev[0] \in On(0) /\ Below(c.prev[0], c.key)
    BY <1>16 DEF Precedes
  <2>2. ~List!KeyIsAfterNode(c.key, c.x)
    <3>1. SUFFICES ASSUME c.x # List!nullptr, KeyOf(c.x) < c.key PROVE FALSE
      BY DEF List!KeyIsAfterNode, KeyOf, List!Node
    <3>2. /\ c.x \in On(0) \ {Root} /\ KeyOf(c.x) \in Int
          /\ (c.prev[0] # Root => KeyOf(c.prev[0]) < KeyOf(c.x) /\ KeyOf(c.prev[0]) \in Int)
      BY <1>16, <2>1, <3>1, LinkLeads, Marks
    <3>3. c.prev[0] # Root /\ KeyOf(c.x) <= KeyOf(c.prev[0])
      BY <1>16, <3>1, <3>2 DEF Precedes
    <3>4. QED
      BY <3>2, <3>3
  <2>3. HasNode(c.key) => c.x # List!nullptr /\ KeyOf(c.x) = c.key
    <3>1. 0 \in List!Levels /\ ~List!KeyIsAfterNode(c.key, Link(c.prev[0], 0))
      BY <1>16, <2>2, Marks
    <3>2. HasNode(c.key) => Link(c.prev[0], 0) # List!nullptr /\ KeyOf(Link(c.prev[0], 0)) = c.key
      BY <1>2, <2>1, <3>1, SearchEnds
    <3>3. QED
      BY <1>16, <3>2
  <2>4. QED
    BY <2>3 DEF op, List!Equal, KeyOf, List!Node
<1>19. \A i \in 0..height - 1 : Precedes(p[i], i, c.key)
  <2>1. ASSUME NEW i \in 0..height - 1
        PROVE  Precedes(p[i], i, c.key)
    <3>1. i \in List!Levels /\ (i \in max..height - 1 <=> ~(i \in 0..max - 1))
      BY <1>2, Marks
    <3>2. CASE i \in 0..max - 1
      BY <1>16, <3>1, <3>2 DEF p
    <3>3. CASE i \in max..height - 1
      <4>1. On(i) = {Root}
        BY <1>2, <3>1, <3>3 DEF ListInv, NodesInv
      <4>2. QED
        BY <3>1, <3>3, <4>1 DEF p, Precedes, Below
    <3>4. QED
      BY <3>1, <3>2, <3>3
  <2>2. QED
    BY <2>1
<1>20. InsertInv(t)'
  <2>1. SearchInv(t)'
    BY <1>5, <1>6, <1>7, <1>8, <1>16, <1>17, <1>18, <1>19, ListStays DEF SearchInv, Root
  <2>2. LinkInv(t)'
    BY <1>5, <1>6, <1>7 DEF LinkInv
  <2>3. QED
    BY <1>2, <1>8, <2>1, <2>2 DEF InsertInv
<1>21. QED
  BY <1>2, <1>9, <1>10, <1>11, <1>12, <1>13, <1>15, <1>20, StepKeeps

(* An Insert returns: what it stored is what a later Get may not miss.     *)
LEMMA UnlockKeeps ==
  ASSUME ListInv, NEW t \in Threads, List!Unlock(t)
  PROVE  ListInv'
<1> DEFINE c == thread[t]
<1>1. /\ c.op = "unlock" /\ shared' = [shared EXCEPT !.lock_ = Nothing]
      /\ thread' = [thread EXCEPT ![t] = List!Idle]
      /\ history' = [history EXCEPT !.returned[c.key] = history.stored[c.key]]
  BY DEF List!Unlock, List!Does, List!Goes, List!Returned
<1>2. /\ c.key \in ListKeys /\ shared.lock_ = t /\ history.stored[c.key] \in Nat /\ history.returned[c.key] \in Nat
  BY <1>1, Inserts
<1>3. shared'.node = shared.node /\ shared'.max_height_ = shared.max_height_ /\ ListTyped
  BY <1>1 DEF ListInv, ListTyped
<1>4. ListTyped'
  BY <1>1, <1>2, <1>3, AtRest DEF ListTyped
<1>5. history'.stored = history.stored
      /\ \A k \in ListKeys : history'.returned[k] = IF k = c.key THEN history.stored[k] ELSE history.returned[k]
  BY <1>1, <1>3 DEF ListTyped
<1>6. NodesInv' /\ List!LevelsAgree'
  BY <1>3, ListStays DEF ListInv, NodesInv, Root
<1>7. StoredInv /\ \A k \in ListKeys : history.stored[k] \in Nat /\ history.returned[k] \in Nat
  BY <1>3 DEF ListInv, ListTyped
<1>8. StoredInv'
  BY <1>3, <1>5, <1>7, ListStays DEF StoredInv, Root
<1>9. Grows
  BY <1>3, <1>5, <1>7, ListStays DEF Grows, StoredInv
<1>10. \A u \in Threads \ {t} : thread'[u] = thread[u]
  BY <1>1, <1>3 DEF ListTyped
<1>11. thread'[t] = List!Idle
  BY <1>1, <1>3 DEF ListTyped
<1>12. PlaceInv(t)' /\ GetInv(t)' /\ WalkInv(t)' /\ InsertInv(t)'
  BY <1>11, AtRest DEF PlaceInv, GetInv, WalkInv, InsertInv, Inserting
<1>13. QED
  BY <1>2, <1>4, <1>6, <1>8, <1>9, <1>10, <1>12, StepKeeps

(* The node of the key gets the value of the Insert.                       *)
LEMMA OverwriteKeeps ==
  ASSUME ListInv, NEW t \in Threads, List!Overwrite(t)
  PROVE  ListInv'
<1> DEFINE c == thread[t]
           v == history.stored[c.key] + 1
           r == [c EXCEPT !.op = "unlock"]
<1>1. /\ c.op = "overwrite" /\ shared' = [shared EXCEPT !.node[c.x].val = v]
      /\ thread' = [thread EXCEPT ![t] = r]
      /\ history' = [history EXCEPT !.stored[c.key] = v]
  BY DEF List!Overwrite, List!Does, List!Goes, List!Stored
<1>2. /\ c \in ListThreads /\ c.call = "Insert" /\ c.key \in ListKeys /\ shared.lock_ = t
      /\ history.stored[c.key] \in Nat /\ v \in Nat
  BY <1>1, Inserts
<1>3. c.x \in On(0) \ {Root} /\ KeyOf(c.x) = c.key
  <2>1. SearchInv(t)
    BY <1>1, Inserts
  <2>2. QED
    BY <1>1, <2>1 DEF SearchInv
<1>4. c.x \in Made /\ ListTyped
  BY <1>3, Marks DEF ListInv, NodesInv
<1>5. PICK s \in Seq(ListNodes) : s = shared.node
  BY <1>4 DEF ListTyped
<1> DEFINE w == [s[c.x] EXCEPT !.val = v]
<1>6. w = [key |-> s[c.x].key, val |-> v, next |-> s[c.x].next] /\ w \in ListNodes
  <2>1. s[c.x] \in ListNodes
    BY <1>4, <1>5 DEF Made
  <2>2. PICK d : d = s[c.x] /\ d = [key |-> s[c.x].key, val |-> s[c.x].val, next |-> s[c.x].next]
    BY <2>1 DEF ListNodes
  <2>3. [d EXCEPT !.val = v] = [key |-> s[c.x].key, val |-> v, next |-> s[c.x].next]
    BY <2>2
  <2>4. w = [key |-> s[c.x].key, val |-> v, next |-> s[c.x].next]
    BY <2>2, <2>3
  <2>5. QED
    BY <1>2, <2>1, <2>4 DEF ListNodes
<1>7. shared' = [shared EXCEPT !.node = [s EXCEPT ![c.x] = w]]
  BY <1>1, <1>5
<1> HIDE DEF w
<1>8. [s EXCEPT ![c.x] = w] \in Seq(ListNodes) /\ DOMAIN [s EXCEPT ![c.x] = w] = DOMAIN s
      /\ \A m \in DOMAIN s : [s EXCEPT ![c.x] = w][m] = IF m = c.x THEN w ELSE s[m]
  BY <1>4, <1>5, <1>6 DEF Made
<1>9. shared'.node = [s EXCEPT ![c.x] = w]
      /\ shared'.max_height_ = shared.max_height_ /\ shared'.lock_ = shared.lock_
      /\ shared' \in [node : Seq(ListNodes), max_height_ : 1..kMaxHeight, lock_ : Threads \cup {Nothing}]
  BY <1>4, <1>7, <1>8 DEF ListTyped
<1>10. Made' = Made /\ \A m \in Made : shared'.node[m] = IF m = c.x THEN w ELSE shared.node[m]
  BY <1>5, <1>8, <1>9 DEF Made
<1>11. \A m \in Made : /\ KeyOf(m)' = KeyOf(m) /\ Links(m)' = Links(m)
                       /\ ValOf(m)' = IF m = c.x THEN v ELSE ValOf(m)
                       /\ \A i : Link(m, i)' = Link(m, i)
  BY <1>5, <1>6, <1>10 DEF KeyOf, ValOf, Links, Link
<1>12. ASSUME NEW i PROVE On(i)' = On(i)
  <2>1. \A m : m \in On(i)' <=> m \in On(i)
    BY <1>10, <1>11, OnIs, OnIsNext
  <2>2. QED
    BY <2>1 DEF On, List!OnLevel
<1>13. NodesInv
  BY DEF ListInv
<1>14. /\ NodesInv' /\ List!LevelsAgree' /\ \A k : HasNode(k)' = HasNode(k)
       /\ \A i \in List!Levels : \A n \in On(i) : n \in On(i)' /\ KeyOf(n)' = KeyOf(n)
  <2>1. \A i \in List!Levels : On(i)' = On(i)
    BY <1>12
  <2>2. \A i \in List!Levels : \A n \in On(i) :
          n \in Made' /\ i \in Links(n)' /\ KeyOf(n)' = KeyOf(n) /\ Link(n, i)' = Link(n, i)
    BY <1>10, <1>11, <1>13 DEF NodesInv
  <2>3. QED
    BY <1>9, <2>1, <2>2, LevelsSame
<1>15. /\ r \in ListThreads /\ r.op = "unlock" /\ r.call = c.call /\ r.key = c.key /\ r.x = c.x
       /\ r.old = c.old
  BY <1>2 DEF ListThreads, ListOps
<1> HIDE DEF r
<1>16. thread'[t] = r /\ \A u \in Threads \ {t} : thread'[u] = thread[u]
  BY <1>1, <1>4 DEF ListTyped
<1>17. history'.returned = history.returned
       /\ \A k \in ListKeys : history'.stored[k] = IF k = c.key THEN v ELSE history.stored[k]
  BY <1>1, <1>4 DEF ListTyped
<1>18. ListTyped'
  BY <1>1, <1>2, <1>4, <1>9, <1>15 DEF ListTyped
<1>19. \A k \in ListKeys : history.stored[k] \in Nat /\ history.returned[k] \in Nat
  BY <1>4 DEF ListTyped
<1>20. StoredInv'
  <2>1. StoredInv
    BY DEF ListInv
  <2>2. ASSUME NEW n \in On(0) \ {Root}
        PROVE  ValOf(n)' = history'.stored[KeyOf(n)'] /\ ValOf(n)' > 0
    <3>1. n \in Made /\ KeyOf(n) \in ListKeys /\ KeyOf(n)' = KeyOf(n)
      BY <1>11, <1>13, Marks DEF NodesInv
    <3>2. CASE n = c.x
      BY <1>2, <1>3, <1>11, <1>17, <3>1, <3>2
    <3>3. CASE n # c.x
      <4>1. KeyOf(n) # c.key
        <5>1. c.x = Root \/ n # c.x
          BY <3>3
        <5>2. KeyOf(n) = KeyOf(c.x) => n = c.x
          BY <1>3, LinkLeads, Marks
        <5>3. QED
          BY <1>3, <3>3, <5>2
      <4>2. QED
        BY <1>11, <1>17, <2>1, <3>1, <3>3, <4>1 DEF StoredInv
    <3>4. QED
      BY <3>2, <3>3
  <2>3. \A k \in ListKeys : history'.stored[k] > 0 => HasNode(k)'
    <3>1. HasNode(c.key)
      BY <1>3 DEF HasNode
    <3>2. QED
      BY <1>14, <1>17, <2>1, <3>1 DEF StoredInv
  <2>4. \A k \in ListKeys : history'.returned[k] <= history'.stored[k]
    BY <1>2, <1>17, <1>19, <2>1 DEF StoredInv
  <2>5. QED
    BY <1>12, <2>2, <2>3, <2>4 DEF StoredInv, Root
<1>21. Grows
  BY <1>14, <1>17, <1>19 DEF Grows
<1>22. PlaceInv(t)' /\ GetInv(t)' /\ WalkInv(t)'
  <2>1. PlaceInv(t)
    BY DEF ListInv
  <2>2. QED
    BY <1>1, <1>2, <1>14, <1>15, <1>16, <2>1 DEF PlaceInv, GetInv, WalkInv
<1>23. InsertInv(t)'
  BY <1>2, <1>9, <1>15, <1>16 DEF InsertInv, SearchInv, LinkInv
<1>24. QED
  BY <1>2, <1>14, <1>16, <1>18, <1>20, <1>21, <1>22, <1>23, StepKeeps

(* A new node is on no level yet.                                          *)
LEMMA NewNodeKeeps ==
  ASSUME ListInv, NEW t \in Threads, List!NewNode(t)
  PROVE  ListInv'
<1>0. PICK c, x : c = thread[t] /\ x = Len(shared.node) + 1
  OBVIOUS
<1> DEFINE v == history.stored[c.key] + 1
           next == [i \in 0..c.height - 1 |-> List!Garbage]
           w == [key |-> c.key, val |-> v, next |-> next]
           r == [c EXCEPT !.x = x, !.op = "setnext", !.level = 0]
<1>1. /\ c.op = "new" /\ shared' = [shared EXCEPT !.node = Append(shared.node, w)]
      /\ thread' = [thread EXCEPT ![t] = r] /\ history' = history
  BY <1>0 DEF List!NewNode, List!Does, List!Goes
<1>2. /\ c \in ListThreads /\ c.call = "Insert" /\ c.key \in ListKeys /\ shared.lock_ = t
      /\ history.stored[c.key] \in Nat /\ v \in Nat /\ SearchInv(t) /\ shared.max_height_ \in 1..kMaxHeight
  BY <1>0, <1>1, Inserts
<1>3. /\ c.level = 0 /\ ~HasNode(c.key) /\ c.height \in 1..shared.max_height_ /\ c.height \in 1..kMaxHeight
      /\ \A i \in 0..c.height - 1 : Precedes(c.prev[i], i, c.key)
  <2>1. /\ c.level = 0 /\ ~HasNode(c.key) /\ c.height \in 1..shared.max_height_
        /\ \A i \in c.level..c.height - 1 : Precedes(c.prev[i], i, c.key)
    BY <1>0, <1>1, <1>2 DEF SearchInv
  <2>2. QED
    BY <1>2, <2>1, Marks
<1>4. PICK s \in Seq(ListNodes) : s = shared.node
  BY DEF ListInv, ListTyped
<1>5. w \in ListNodes
  <2>1. next \in [0..c.height - 1 -> Int]
    BY Marks
  <2>2. next \in UNION {[0..h - 1 -> Int] : h \in 1..kMaxHeight}
    <3>1. [0..c.height - 1 -> Int] \in {[0..h - 1 -> Int] : h \in 1..kMaxHeight}
      BY <1>3
    <3>2. QED
      BY <2>1, <3>1
  <2>3. QED
    BY <1>2, <2>2 DEF ListNodes
<1>6. /\ x = Len(s) + 1 /\ Append(s, w) \in Seq(ListNodes) /\ DOMAIN Append(s, w) = DOMAIN s \cup {x}
      /\ x \notin DOMAIN s /\ x \in Nat
      /\ \A m \in DOMAIN s : Append(s, w)[m] = s[m]
      /\ Append(s, w)[x] = w
  <2> HIDE DEF w
  <2>1. Append(s, w) \in Seq(ListNodes) /\ Len(Append(s, w)) = Len(s) + 1 /\ Len(s) \in Nat
        /\ (\A m \in 1..Len(s) : Append(s, w)[m] = s[m]) /\ Append(s, w)[Len(s) + 1] = w
    BY <1>5
  <2>2. DOMAIN s = 1..Len(s) /\ DOMAIN Append(s, w) = 1..Len(s) + 1 /\ x = Len(s) + 1
    BY <1>0, <1>4, <2>1
  <2>3. QED
    BY <2>1, <2>2
<1>7. /\ shared'.node = Append(s, w)
      /\ shared'.max_height_ = shared.max_height_ /\ shared'.lock_ = shared.lock_
      /\ shared' \in [node : Seq(ListNodes), max_height_ : 1..kMaxHeight, lock_ : Threads \cup {Nothing}]
  <2> HIDE DEF w
  <2>1. QED
    BY <1>1, <1>4, <1>6 DEF ListInv, ListTyped
<1>8. /\ Made' = Made \cup {x} /\ x \notin Made
      /\ \A m \in Made : shared'.node[m] = shared.node[m]
      /\ shared'.node[x] = w
  BY <1>4, <1>6, <1>7 DEF Made
<1>9. /\ \A m \in Made : /\ KeyOf(m)' = KeyOf(m) /\ Links(m)' = Links(m) /\ ValOf(m)' = ValOf(m)
                         /\ \A i : Link(m, i)' = Link(m, i)
      /\ KeyOf(x)' = c.key /\ ValOf(x)' = v /\ Links(x)' = 0..c.height - 1
      /\ \A i \in 0..c.height - 1 : Link(x, i)' = List!Garbage
  BY <1>8 DEF KeyOf, ValOf, Links, Link
<1>10. ASSUME NEW i PROVE On(i)' = On(i)
  <2>1. ASSUME NEW m \in On(i), m # Root
        PROVE  m \in On(i)'
    <3>1. PICK n \in Made : i \in Links(n) /\ m = Link(n, i) /\ m # List!nullptr /\ m # List!Garbage
      BY <2>1, OnIs
    <3>2. n \in Made' /\ i \in Links(n)' /\ m = Link(n, i)'
      BY <1>8, <1>9, <3>1
    <3>3. QED
      BY <3>1, <3>2, OnIsNext
  <2>2. ASSUME NEW m \in On(i)', m # Root
        PROVE  m \in On(i)
    <3>1. PICK n \in Made' : i \in Links(n)' /\ m = Link(n, i)' /\ m # List!nullptr /\ m # List!Garbage
      BY <2>2, OnIsNext
    <3>2. n # x
      BY <1>9, <3>1
    <3>3. n \in Made /\ i \in Links(n) /\ m = Link(n, i)
      BY <1>8, <1>9, <3>1, <3>2
    <3>4. QED
      BY <3>1, <3>3, OnIs
  <2>3. Root \in On(i) /\ Root \in On(i)'
    BY OnIs, OnIsNext
  <2>4. \A m : m \in On(i)' <=> m \in On(i)
    BY <2>1, <2>2, <2>3
  <2>5. QED
    BY <2>4 DEF On, List!OnLevel
<1>11. NodesInv /\ StoredInv
  BY DEF ListInv
<1>12. /\ NodesInv' /\ List!LevelsAgree' /\ \A k : HasNode(k)' = HasNode(k)
       /\ \A i \in List!Levels : \A n, k : Precedes(n, i, k)' = Precedes(n, i, k)
       /\ \A i \in List!Levels : \A n \in On(i) : n \in On(i)' /\ KeyOf(n)' = KeyOf(n)
  <2>1. \A i \in List!Levels : On(i)' = On(i)
    BY <1>10
  <2>2. \A i \in List!Levels : \A n \in On(i) :
          n \in Made' /\ i \in Links(n)' /\ KeyOf(n)' = KeyOf(n) /\ Link(n, i)' = Link(n, i)
    BY <1>8, <1>9, <1>11 DEF NodesInv
  <2>3. QED
    BY <1>7, <2>1, <2>2, LevelsSame
<1>13. /\ r \in ListThreads /\ r.op = "setnext" /\ r.call = c.call /\ r.key = c.key /\ r.x = x
       /\ r.level = 0 /\ r.prev = c.prev /\ r.height = c.height /\ r.old = c.old
  <2> DEFINE R(o, n, l) == [op |-> o, call |-> c.call, key |-> c.key, x |-> n, level |-> l,
                            prev |-> c.prev, height |-> c.height, since |-> c.since, old |-> c.old]
             e1 == [c EXCEPT !.x = x]
             e2 == [e1 EXCEPT !.op = "setnext"]
             e3 == [e2 EXCEPT !.level = 0]
  <2>1. c = R(c.op, c.x, c.level) /\ c \in ListThreads
    BY <1>2 DEF ListThreads
  <2>2. r = e3
    OBVIOUS
  <2> HIDE DEF r
  <2>3. e1 = R(c.op, x, c.level)
    BY <2>1
  <2> HIDE DEF e1
  <2>4. e2 = R("setnext", x, c.level)
    BY <2>3
  <2> HIDE DEF e2
  <2>5. e3 = R("setnext", x, 0)
    BY <2>4
  <2> HIDE DEF e3
  <2>6. R("setnext", x, 0) \in ListThreads
    BY <1>6, <2>1, Marks DEF ListThreads, ListOps
  <2>7. QED
    BY <2>2, <2>5, <2>6
<1> HIDE DEF r
<1> HIDE DEF w
<1>14. thread'[t] = r /\ \A u \in Threads \ {t} : thread'[u] = thread[u]
  BY <1>1 DEF ListInv, ListTyped
<1>15. ListTyped'
  BY <1>1, <1>7, <1>13 DEF ListInv, ListTyped
<1>16. StoredInv'
  <2>1. \A n \in On(0) \ {Root} : ValOf(n)' = ValOf(n) /\ KeyOf(n)' = KeyOf(n)
    BY <1>9, <1>11, Marks DEF NodesInv
  <2>2. On(0)' = On(0)
    BY <1>10
  <2>3. QED
    BY <1>1, <1>11, <1>12, <2>1, <2>2 DEF StoredInv, Root
<1>17. Grows
  BY <1>1, <1>12 DEF Grows, ListInv, ListTyped
<1>18. PlaceInv(t)' /\ GetInv(t)' /\ WalkInv(t)'
  <2>1. PlaceInv(t)
    BY DEF ListInv
  <2>2. QED
    BY <1>0, <1>1, <1>2, <1>12, <1>13, <1>14, <2>1 DEF PlaceInv, GetInv, WalkInv, ListCalls
<1>19. \A i \in List!Levels : x \notin On(i)'
  BY <1>8, <1>10, <1>11 DEF NodesInv
<1>20. InsertInv(t)'
  <2>1. \A i \in 0..c.height - 1 : i \in List!Levels
    BY <1>3, Marks
  <2>2. SearchInv(t)'
    BY <1>3, <1>7, <1>12, <1>13, <1>14, <2>1 DEF SearchInv
  <2>3. x # Root /\ x \in Made'
    BY <1>8, <1>11 DEF NodesInv
  <2>4. /\ \A i \in List!Levels : ~(i < 0)
        /\ 0 \in 0..c.height - 1 /\ \A i \in 0 + 1..c.height - 1 : i \in 0..c.height - 1
    BY <1>3, Marks
  <2>5. LinkInv(t)'
    BY <1>1, <1>3, <1>9, <1>12, <1>13, <1>14, <1>19, <2>3, <2>4 DEF LinkInv, Root
  <2>6. QED
    BY <1>2, <1>7, <2>2, <2>5 DEF InsertInv
<1>21. QED
  BY <1>2, <1>12, <1>14, <1>15, <1>16, <1>17, <1>18, <1>20, StepKeeps

(* It gets its link on a level, which no thread follows yet.               *)
LEMMA SetNextKeeps ==
  ASSUME ListInv, NEW t \in Threads, List!SetNext(t)
  PROVE  ListInv'
<1>0. PICK c, p, y : c = thread[t] /\ p = c.prev[c.level] /\ y = Link(p, c.level)
  OBVIOUS
<1> DEFINE r == [c EXCEPT !.op = "publish"]
<1>1. /\ c.op = "setnext" /\ shared' = [shared EXCEPT !.node[c.x].next[c.level] = y]
      /\ thread' = [thread EXCEPT ![t] = r] /\ history' = history
  BY <1>0 DEF List!SetNext, List!Does, List!Goes, List!Node, Link
<1>2. /\ c \in ListThreads /\ c.call = "Insert" /\ c.key \in ListKeys /\ shared.lock_ = t
      /\ SearchInv(t) /\ LinkInv(t) /\ shared.max_height_ \in 1..kMaxHeight
  BY <1>0, <1>1, Inserts
<1>3. /\ c.height \in 1..shared.max_height_ /\ c.level < c.height
      /\ \A i \in c.level..c.height - 1 : Precedes(c.prev[i], i, c.key)
      /\ c.x \in Made /\ c.x # Root /\ KeyOf(c.x) = c.key /\ Links(c.x) = 0..c.height - 1
      /\ \A i \in List!Levels : c.x \in On(i) <=> i < c.level
      /\ c.level = 0 => ~HasNode(c.key) /\ ValOf(c.x) = history.stored[c.key] + 1
      /\ \A i \in c.level + 1..c.height - 1 : Link(c.x, i) = List!Garbage
      /\ Link(c.x, c.level) = List!Garbage
  BY <1>0, <1>1, <1>2 DEF SearchInv, LinkInv
<1>4. c.level \in List!Levels /\ c.level \in Links(c.x) /\ c.level \in c.level..c.height - 1 /\ c.level \in Nat
  BY <1>2, <1>3, Marks DEF ListThreads
<1>5. p \in On(c.level) /\ y \in (On(c.level) \ {Root}) \cup {List!nullptr}
  <2>1. p \in On(c.level)
    BY <1>0, <1>3, <1>4 DEF Precedes
  <2>2. QED
    BY <1>0, <1>4, <2>1, LinkLeads
<1>6. \A i \in List!Levels : On(i) \subseteq Made /\ On(i) \subseteq Nat /\ \A n \in On(i) : i \in Links(n)
  BY NodeFields DEF ListInv, NodesInv
<1>7. y \in Int /\ y # List!Garbage
  BY <1>4, <1>5, <1>6, Marks
<1>8. /\ shared' \in [node : Seq(ListNodes), max_height_ : 1..kMaxHeight, lock_ : Threads \cup {Nothing}]
      /\ shared'.max_height_ = shared.max_height_ /\ shared'.lock_ = shared.lock_ /\ Made' = Made
      /\ \A m \in Made : KeyOf(m)' = KeyOf(m) /\ ValOf(m)' = ValOf(m) /\ Links(m)' = Links(m)
      /\ \A m \in Made : \A j \in Links(m) : Link(m, j)' = IF m = c.x /\ j = c.level THEN y ELSE Link(m, j)
  <2>1. shared' = WithLink(c.x, c.level, y) /\ ListTyped
    BY <1>1 DEF WithLink, ListInv
  <2>2. c.x \in Made /\ c.level \in Links(c.x) /\ y \in Int
    BY <1>3, <1>4, <1>7
  <2>3. QED
    BY ONLY <2>1, <2>2, LinkSet
<1>9. ASSUME NEW i \in List!Levels PROVE On(i)' = On(i)
  <2>1. ASSUME NEW m \in On(i) \ {Root}
        PROVE  m \in On(i)'
    <3>1. PICK n \in Made : i \in Links(n) /\ m = Link(n, i) /\ m # List!nullptr /\ m # List!Garbage
      BY <2>1, OnIs
    <3>2. ~(n = c.x /\ i = c.level)
      BY <1>3, <3>1
    <3>3. QED
      BY <1>8, <3>1, <3>2, OnIsNext
  <2>2. ASSUME NEW m \in On(i)', m # Root
        PROVE  m \in On(i)
    <3>1. PICK n \in Made : i \in Links(n) /\ m = Link(n, i)' /\ m # List!nullptr /\ m # List!Garbage
      BY <1>8, <2>2, OnIsNext
    <3>2. CASE n = c.x /\ i = c.level
      BY <1>5, <1>8, <3>1, <3>2
    <3>3. CASE ~(n = c.x /\ i = c.level)
      BY <1>8, <3>1, <3>3, OnIs
    <3>4. QED
      BY <3>2, <3>3
  <2>3. Root \in On(i) /\ Root \in On(i)'
    BY OnIs, OnIsNext
  <2>4. \A m : m \in On(i)' <=> m \in On(i)
    BY <2>1, <2>2, <2>3
  <2>5. QED
    BY <2>4 DEF On, List!OnLevel
<1>10. NodesInv /\ StoredInv /\ PlaceInv(t)
  BY DEF ListInv
<1>11. \A i \in List!Levels : \A n \in On(i) : Link(n, i)' = Link(n, i)
  <2>1. ASSUME NEW i \in List!Levels, NEW n \in On(i)
        PROVE  ~(n = c.x /\ i = c.level)
    BY <1>3, <1>4, <2>1
  <2>2. QED
    BY <1>6, <1>8, <2>1
<1>12. /\ NodesInv' /\ List!LevelsAgree' /\ \A k : HasNode(k)' = HasNode(k)
       /\ \A i \in List!Levels : \A n, k : Precedes(n, i, k)' = Precedes(n, i, k)
       /\ \A i \in List!Levels : \A n \in On(i) : n \in On(i)' /\ KeyOf(n)' = KeyOf(n)
  <2>1. \A i \in List!Levels : \A n \in On(i) :
          n \in Made' /\ i \in Links(n)' /\ KeyOf(n)' = KeyOf(n) /\ Link(n, i)' = Link(n, i)
    BY <1>6, <1>8, <1>11
  <2>2. QED
    BY <1>8, <1>9, <2>1, LevelsSame
<1>13. /\ r \in ListThreads /\ r.op = "publish" /\ r.call = c.call /\ r.key = c.key /\ r.x = c.x
       /\ r.level = c.level /\ r.prev = c.prev /\ r.height = c.height /\ r.old = c.old
  BY <1>2 DEF ListThreads, ListOps
<1> HIDE DEF r
<1>14. thread'[t] = r /\ \A u \in Threads \ {t} : thread'[u] = thread[u]
  BY <1>1 DEF ListInv, ListTyped
<1>15. ListTyped'
  BY <1>1, <1>8, <1>13 DEF ListInv, ListTyped
<1>16. StoredInv'
  <2>1. \A n \in On(0) \ {Root} : ValOf(n)' = ValOf(n) /\ KeyOf(n)' = KeyOf(n)
    BY <1>6, <1>8, Marks
  <2>2. On(0)' = On(0)
    BY <1>9, Marks
  <2>3. QED
    BY <1>1, <1>10, <1>12, <2>1, <2>2 DEF StoredInv, Root
<1>17. Grows
  BY <1>1, <1>12 DEF Grows, ListInv, ListTyped
<1>18. PlaceInv(t)' /\ GetInv(t)' /\ WalkInv(t)'
  BY <1>0, <1>1, <1>2, <1>10, <1>12, <1>13, <1>14 DEF PlaceInv, GetInv, WalkInv, ListCalls
<1>19. InsertInv(t)'
  <2>1. \A i \in c.level..c.height - 1 : i \in List!Levels
    BY <1>2, <1>3, <1>4, Marks
  <2>2. SearchInv(t)'
    BY <1>3, <1>8, <1>12, <1>13, <1>14, <2>1 DEF SearchInv
  <2>3. /\ Link(c.x, c.level)' = y /\ Link(p, c.level)' = y
        /\ \A i \in c.level + 1..c.height - 1 : Link(c.x, i)' = List!Garbage
    <3>1. \A i \in c.level + 1..c.height - 1 : i \in Links(c.x) /\ i # c.level
      BY <1>3, <1>4
    <3>2. QED
      BY <1>0, <1>3, <1>4, <1>5, <1>8, <1>11, <3>1
  <2>4. c.level = 0 => ~HasNode(c.key)' /\ ValOf(c.x)' = history'.stored[c.key] + 1
    BY <1>1, <1>3, <1>8, <1>12
  <2>5. \A i \in List!Levels : c.x \in On(i)' <=> i < c.level
    BY <1>3, <1>9
  <2>6. c.x \in Made' /\ KeyOf(c.x)' = c.key /\ Links(c.x)' = 0..c.height - 1
    BY <1>3, <1>8
  <2>7. LinkInv(t)'
    BY <1>0, <1>3, <1>13, <1>14, <2>3, <2>4, <2>5, <2>6 DEF LinkInv, Root
  <2>8. QED
    BY <1>2, <1>8, <2>2, <2>7 DEF InsertInv
<1>20. QED
  BY <1>2, <1>12, <1>14, <1>15, <1>16, <1>17, <1>18, <1>19, StepKeeps

------------------------------------------------------------------------------
(* The node becomes visible on a level                                     *)

(* A list with one more node, behind the last one below its key.           *)
LEMMA Inserted ==
  ASSUME NEW S, NEW K, NEW X, NEW J, NEW Y, NEW x, NEW p \in S, NEW k \in Int,
         Root \in S, x \notin S, Chained(S, K, X),
         \A m \in S \ {Root} : K[m] \in Int /\ K[m] # k,
         J[x] = k, \A m \in S : J[m] = K[m],
         p = Root \/ K[p] < k,
         \A m \in S \ {Root} : K[m] < k => p # Root /\ K[m] <= K[p],
         Y[p] = x, Y[x] = X[p], \A m \in S \ {p} : Y[m] = X[m]
  PROVE  Chained(S \cup {x}, J, Y)
<1> DEFINE T == S \cup {x}
<1>1. \A n \in S : \A m : m \in After(S, K, n) <=> m \in S \ {Root} /\ (n = Root \/ K[m] > K[n])
  BY DEF After
<1>2. \A n \in T : \A m : m \in After(T, J, n) <=> m \in T \ {Root} /\ (n = Root \/ J[m] > J[n])
  BY DEF After
<1>3. \A n \in T : \A m \in T \ {Root, n} : n # Root => J[m] # J[n]
  BY DEF Chained
<1>4. ASSUME NEW n \in T
      PROVE  IF After(T, J, n) = {} THEN Y[n] = List!nullptr
             ELSE \E m \in After(T, J, n) : Y[n] = m /\ \A o \in After(T, J, n) : J[m] <= J[o]
  <2>1. CASE n = x
    <3>1. \A m : m \in After(T, J, x) <=> m \in After(S, K, p)
      <4>1. \A m \in S \ {Root} : K[m] > k <=> (p = Root \/ K[m] > K[p])
        OBVIOUS
      <4>2. QED
        BY <1>1, <1>2, <4>1
    <3>2. After(T, J, x) = After(S, K, p)
      BY <3>1
    <3>3. \A o \in After(S, K, p) : J[o] = K[o]
      BY <1>1
    <3>4. /\ After(S, K, p) = {} => X[p] = List!nullptr
          /\ After(S, K, p) # {} =>
               \E m \in After(S, K, p) : X[p] = m /\ \A o \in After(S, K, p) : K[m] <= K[o]
      BY DEF Chained
    <3>5. After(S, K, p) # {} =>
            \E m \in After(S, K, p) : Y[x] = m /\ \A o \in After(S, K, p) : J[m] <= J[o]
      BY <3>3, <3>4
    <3>6. QED
      BY <2>1, <3>2, <3>4, <3>5
  <2>2. CASE n = p
    <3>1. x \in After(T, J, p) /\ \A o \in After(T, J, p) : J[x] <= J[o]
      <4>1. x # Root /\ (p = Root \/ J[x] > J[p])
        OBVIOUS
      <4>2. ASSUME NEW o \in After(T, J, p)
            PROVE  J[x] <= J[o]
        <5>1. o \in T \ {Root} /\ (p = Root \/ J[o] > J[p])
          BY <1>2, <4>2
        <5>2. CASE o = x
          BY <5>2
        <5>3. CASE o # x
          BY <5>1, <5>3
        <5>4. QED
          BY <5>2, <5>3
      <4>3. QED
        BY <1>2, <4>1, <4>2
    <3>2. QED
      BY <2>2, <3>1
  <2>3. CASE n \in S \ {p}
    <3>1. J[n] = K[n] /\ Y[n] = X[n]
      BY <2>3
    <3>2. CASE n = Root \/ K[n] < k
      <4>1. p \in After(S, K, n)
        <5>1. p # Root
          BY <2>3, <3>2
        <5>2. n # Root => K[n] <= K[p] /\ K[n] # K[p]
          BY <2>3, <3>2, <5>1 DEF Chained
        <5>3. QED
          BY <1>1, <2>3, <5>1, <5>2
      <4>2. PICK m \in After(S, K, n) : X[n] = m /\ \A o \in After(S, K, n) : K[m] <= K[o]
        BY <2>3, <4>1 DEF Chained
      <4>3. m \in S \ {Root} /\ K[m] <= K[p] /\ p # Root
        BY <1>1, <2>3, <4>1, <4>2
      <4>4. m \in After(T, J, n)
        BY <1>1, <1>2, <2>3, <3>1, <4>2
      <4>5. ASSUME NEW o \in After(T, J, n)
            PROVE  J[m] <= J[o]
        <5>1. CASE o = x
          BY <4>3, <5>1
        <5>2. CASE o # x
          BY <1>1, <1>2, <2>3, <3>1, <4>2, <4>3, <4>5, <5>2
        <5>3. QED
          BY <5>1, <5>2
      <4>6. QED
        BY <3>1, <4>2, <4>4, <4>5
    <3>3. CASE n # Root /\ ~(K[n] < k)
      <4>1. \A m : m \in After(T, J, n) <=> m \in After(S, K, n)
        <5>1. K[n] \in Int /\ ~(k > K[n])
          BY <2>3, <3>3
        <5>2. x \notin After(T, J, n)
          BY <1>2, <2>3, <3>1, <3>3, <5>1
        <5>3. \A m \in S : m \in After(T, J, n) <=> m \in After(S, K, n)
          <6>1. \A m \in S : J[m] = K[m] /\ m \in T
            OBVIOUS
          <6>2. n \in S /\ n \in T /\ J[n] = K[n]
            BY <2>3, <3>1, <6>1
          <6>3. QED
            BY ONLY <1>1, <1>2, <6>1, <6>2
        <5>4. QED
          BY <1>1, <1>2, <2>3, <5>2, <5>3
      <4>2. After(T, J, n) = After(S, K, n)
        BY <4>1
      <4>3. \A o \in After(S, K, n) : J[o] = K[o]
        BY <1>1, <2>3
      <4>4. QED
        BY <2>3, <3>1, <4>2, <4>3 DEF Chained
    <3>4. QED
      BY <3>2, <3>3
  <2>4. QED
    BY <2>1, <2>2, <2>3
<1>5. QED
  BY <1>3, <1>4 DEF Chained

(* The nodes and levels after a Publish.                                   *)
LEMMA Published ==
  ASSUME ListInv, NEW t \in Threads, NEW c, NEW p, c = thread[t], c.op = "publish", p = c.prev[c.level],
         shared' = WithLink(p, c.level, c.x)
  PROVE  /\ c.level \in List!Levels /\ c.level < shared.max_height_ /\ c.height \in 1..shared.max_height_
         /\ c.level < c.height /\ c.x \in Made \ {Root} /\ KeyOf(c.x) = c.key /\ c.x \notin On(c.level)
         /\ p \in On(c.level) /\ c.x # p
         /\ shared' \in [node : Seq(ListNodes), max_height_ : 1..kMaxHeight, lock_ : Threads \cup {Nothing}]
         /\ shared'.max_height_ = shared.max_height_ /\ shared'.lock_ = shared.lock_ /\ Made' = Made
         /\ \A m \in Made : KeyOf(m)' = KeyOf(m) /\ ValOf(m)' = ValOf(m) /\ Links(m)' = Links(m)
         /\ \A m \in Made : \A j \in Links(m) :
              Link(m, j)' = IF m = p /\ j = c.level THEN c.x ELSE Link(m, j)
         /\ Link(c.x, c.level) = Link(p, c.level)
         /\ \A i \in List!Levels : On(i)' = IF i = c.level THEN On(i) \cup {c.x} ELSE On(i)
<1>1. /\ c \in ListThreads /\ c.key \in ListKeys
      /\ SearchInv(t) /\ LinkInv(t) /\ shared.max_height_ \in 1..kMaxHeight
  BY Inserts
<1>2. /\ c.height \in 1..shared.max_height_ /\ c.level < c.height
      /\ \A i \in c.level..c.height - 1 : Precedes(c.prev[i], i, c.key)
      /\ c.x \in Made /\ c.x # Root /\ KeyOf(c.x) = c.key /\ Links(c.x) = 0..c.height - 1
      /\ \A i \in List!Levels : c.x \in On(i) <=> i < c.level
      /\ Link(c.x, c.level) = Link(p, c.level)
  BY <1>1 DEF SearchInv, LinkInv
<1>3. c.level \in List!Levels /\ c.level \in Links(c.x) /\ c.level \in c.level..c.height - 1
      /\ c.level \in Nat /\ c.level < shared.max_height_
  <2>1. PICK level \in Nat, height \in Nat, max_height \in Nat :
          level = c.level /\ height = c.height /\ max_height = shared.max_height_
    BY <1>1, Marks DEF ListThreads
  <2>2. level < height /\ height <= max_height /\ max_height <= kMaxHeight /\ kMaxHeight \in Nat
    BY ONLY <1>1, <1>2, <2>1, Marks
  <2>3. /\ level \in 0..kMaxHeight - 1 /\ level \in 0..height - 1 /\ level \in level..height - 1
        /\ level < max_height
    BY ONLY <2>1, <2>2
  <2>4. Links(c.x) = 0..height - 1 /\ List!Levels = 0..kMaxHeight - 1
    BY ONLY <1>2, <2>1, Marks
  <2>5. QED
    BY ONLY <2>1, <2>3, <2>4
<1>4. \A i \in List!Levels : On(i) \subseteq Made /\ On(i) \subseteq Nat /\ \A n \in On(i) : i \in Links(n)
  BY NodeFields DEF ListInv, NodesInv
<1>5. p \in On(c.level) /\ c.x \notin On(c.level) /\ c.x # p
  BY <1>2, <1>3 DEF Precedes
<1>6. c.x \in Int /\ c.x # List!nullptr /\ c.x # List!Garbage
  BY <1>2, NodeFields, Marks DEF ListInv
<1>7. /\ shared' \in [node : Seq(ListNodes), max_height_ : 1..kMaxHeight, lock_ : Threads \cup {Nothing}]
      /\ shared'.max_height_ = shared.max_height_ /\ shared'.lock_ = shared.lock_ /\ Made' = Made
      /\ \A m \in Made : KeyOf(m)' = KeyOf(m) /\ ValOf(m)' = ValOf(m) /\ Links(m)' = Links(m)
      /\ \A m \in Made : \A j \in Links(m) :
           Link(m, j)' = IF m = p /\ j = c.level THEN c.x ELSE Link(m, j)
  <2>1. shared' = WithLink(p, c.level, c.x) /\ ListTyped
    BY DEF ListInv
  <2>2. p \in Made /\ c.level \in Links(p) /\ c.x \in Int
    BY <1>3, <1>4, <1>5, <1>6
  <2>3. QED
    BY ONLY <2>1, <2>2, LinkSet
<1>8. ASSUME NEW i \in List!Levels
      PROVE  On(i)' = IF i = c.level THEN On(i) \cup {c.x} ELSE On(i)
  <2>1. ASSUME NEW m \in On(i), m # Root
        PROVE  m \in On(i)'
    <3>1. PICK n \in Made : i \in Links(n) /\ m = Link(n, i) /\ m # List!nullptr /\ m # List!Garbage
      BY <2>1, OnIs
    <3>2. CASE n = p /\ i = c.level
      <4>1. c.x \in Made /\ i \in Links(c.x) /\ m = Link(c.x, i)
        BY <1>2, <1>3, <3>1, <3>2
      <4>2. c.x \in Made' /\ i \in Links(c.x)' /\ m = Link(c.x, i)'
        <5>1. ~(c.x = p /\ i = c.level)
          BY <1>5
        <5>2. PICK n2 \in Made : n2 = c.x /\ i \in Links(n2) /\ m = Link(n2, i) /\ n2 # p
          BY <1>5, <4>1
        <5>3. n2 \in Made' /\ i \in Links(n2)' /\ m = Link(n2, i)'
          BY <1>7, <5>2
        <5>4. QED
          BY <5>2, <5>3
      <4>3. QED
        BY <3>1, <4>2, OnIsNext
    <3>3. CASE ~(n = p /\ i = c.level)
      BY <1>7, <3>1, <3>3, OnIsNext
    <3>4. QED
      BY <3>2, <3>3
  <2>2. i = c.level => c.x \in On(i)'
    <3>1. SUFFICES ASSUME i = c.level PROVE c.x \in On(i)'
      OBVIOUS
    <3>2. p \in Made /\ i \in Links(p)
      BY <1>4, <1>5, <3>1
    <3>3. p \in Made' /\ i \in Links(p)' /\ c.x = Link(p, i)'
      BY <1>7, <3>1, <3>2
    <3>4. QED
      BY <1>6, <3>3, OnIsNext
  <2>3. ASSUME NEW m \in On(i)', m # Root
        PROVE  m \in On(i) \/ (i = c.level /\ m = c.x)
    <3>1. PICK n \in Made : i \in Links(n) /\ m = Link(n, i)' /\ m # List!nullptr /\ m # List!Garbage
      BY <1>7, <2>3, OnIsNext
    <3>2. CASE n = p /\ i = c.level
      BY <1>7, <3>1, <3>2
    <3>3. CASE ~(n = p /\ i = c.level)
      BY <1>7, <3>1, <3>3, OnIs
    <3>4. QED
      BY <3>2, <3>3
  <2>4. Root \in On(i) /\ Root \in On(i)'
    BY OnIs, OnIsNext
  <2>5. CASE i = c.level
    <3>1. \A m : m \in On(i)' <=> m \in On(i) \cup {c.x}
      BY <2>1, <2>2, <2>3, <2>4, <2>5
    <3>2. On(i)' = On(i) \cup {c.x}
      BY <3>1 DEF On, List!OnLevel
    <3>3. QED
      BY <2>5, <3>2
  <2>6. CASE i # c.level
    <3>1. \A m : m \in On(i)' <=> m \in On(i)
      BY <2>1, <2>3, <2>4, <2>6
    <3>2. On(i)' = On(i)
      BY <3>1 DEF On, List!OnLevel
    <3>3. QED
      BY <2>6, <3>2
  <2>7. QED
    BY <2>5, <2>6
<1>9. QED
  BY <1>2, <1>3, <1>5, <1>7, <1>8

(* The node of an Insert becomes visible on one more level, and with the   *)
(* lowest one its value is stored.                                         *)
LEMMA ListPublishKeeps ==
  ASSUME ListInv, NEW t \in Threads, List!Publish(t)
  PROVE  ListInv'
<1>0. PICK c, p : c = thread[t] /\ p = c.prev[c.level]
  OBVIOUS
<1> DEFINE op == IF c.level + 1 < c.height THEN "setnext" ELSE "unlock"
           r == [c EXCEPT !.level = @ + 1, !.op = op]
<1>1. /\ c.op = "publish" /\ shared' = WithLink(p, c.level, c.x)
      /\ thread' = [thread EXCEPT ![t] = r]
      /\ IF c.level = 0 THEN history' = [history EXCEPT !.stored[c.key] = @ + 1] ELSE history' = history
  BY <1>0 DEF List!Publish, List!Does, List!Goes, List!Stored, WithLink
<1>2. /\ c \in ListThreads /\ c.call = "Insert" /\ c.key \in ListKeys /\ shared.lock_ = t
      /\ SearchInv(t) /\ LinkInv(t) /\ shared.max_height_ \in 1..kMaxHeight
      /\ history.stored[c.key] \in Nat
  BY <1>0, <1>1, Inserts
<1>3. /\ c.level \in List!Levels /\ c.level < shared.max_height_ /\ c.height \in 1..shared.max_height_
      /\ c.level < c.height /\ c.x \in Made \ {Root} /\ KeyOf(c.x) = c.key /\ c.x \notin On(c.level)
      /\ p \in On(c.level) /\ c.x # p
  BY <1>0, <1>1, Published
<1>4. /\ shared' \in [node : Seq(ListNodes), max_height_ : 1..kMaxHeight, lock_ : Threads \cup {Nothing}]
      /\ shared'.max_height_ = shared.max_height_ /\ shared'.lock_ = shared.lock_ /\ Made' = Made
      /\ \A m \in Made : KeyOf(m)' = KeyOf(m) /\ ValOf(m)' = ValOf(m) /\ Links(m)' = Links(m)
      /\ \A m \in Made : \A j \in Links(m) :
           Link(m, j)' = IF m = p /\ j = c.level THEN c.x ELSE Link(m, j)
      /\ Link(c.x, c.level) = Link(p, c.level)
      /\ \A i \in List!Levels : On(i)' = IF i = c.level THEN On(i) \cup {c.x} ELSE On(i)
  BY <1>0, <1>1, Published
<1>5. /\ \A i \in c.level..c.height - 1 : Precedes(c.prev[i], i, c.key)
      /\ Links(c.x) = 0..c.height - 1
      /\ \A i \in List!Levels : c.x \in On(i) <=> i < c.level
      /\ c.level = 0 => ~HasNode(c.key) /\ ValOf(c.x) = history.stored[c.key] + 1
      /\ \A i \in c.level + 1..c.height - 1 : Link(c.x, i) = List!Garbage
  <2>1. c.op = "publish" /\ c = thread[t] /\ SearchInv(t) /\ LinkInv(t)
    BY ONLY <1>0, <1>1, <1>2
  <2>2. \A i \in c.level..c.height - 1 : Precedes(c.prev[i], i, c.key)
    BY ONLY <2>1 DEF SearchInv
  <2>3. QED
    BY ONLY <2>1, <2>2 DEF LinkInv
<1>6. NodesInv /\ StoredInv /\ PlaceInv(t) /\ ListTyped
  BY DEF ListInv
<1>7. c.level \in Nat /\ c.height \in Nat /\ c.height <= kMaxHeight /\ c.level \in Links(c.x)
      /\ c.level \in c.level..c.height - 1 /\ c.level + 1 \in 0..kMaxHeight
  <2>1. PICK level \in Nat, height \in Nat, max_height \in Nat :
          level = c.level /\ height = c.height /\ max_height = shared.max_height_
    BY <1>2, Marks DEF ListThreads
  <2>2. level < height /\ height <= max_height /\ max_height <= kMaxHeight /\ kMaxHeight \in Nat
    BY ONLY <1>2, <1>3, <2>1, Marks
  <2>3. Links(c.x) = 0..height - 1
    BY ONLY <1>5, <2>1
  <2>4. /\ level \in 0..height - 1 /\ level \in level..height - 1 /\ level + 1 \in 0..kMaxHeight
        /\ height <= kMaxHeight
    BY ONLY <2>1, <2>2
  <2>5. QED
    BY ONLY <2>1, <2>3, <2>4
<1>8. NodesInv'
  <2>1. Root \in Made'
    BY <1>4, <1>6 DEF NodesInv
  <2>2. \A i \in List!Levels : \A n \in On(i)' :
          n \in Made' /\ i \in Links(n)' /\ (n # Root => KeyOf(n)' \in ListKeys)
    <3>1. ASSUME NEW i \in List!Levels, NEW n \in On(i)'
          PROVE  n \in Made /\ i \in Links(n) /\ (n # Root => KeyOf(n) \in ListKeys)
      <4>1. n \in On(i) \/ (n = c.x /\ i = c.level)
        BY <1>4, <3>1
      <4>2. QED
        BY <1>2, <1>3, <1>6, <1>7, <4>1 DEF NodesInv
    <3>2. QED
      BY <1>4, <3>1
  <2>3. ASSUME NEW i \in List!Levels, NEW j \in List!Levels, j <= i
        PROVE  On(i)' \subseteq On(j)'
    <3>1. On(i) \subseteq On(j)
      BY <1>6, <2>3 DEF NodesInv
    <3>2. CASE i = c.level
      <4>1. CASE j = i
        BY <4>1
      <4>2. CASE j # i
        <5>1. c.x \in On(j)
          BY <1>5, <1>7, <2>3, <3>2, <4>2, Marks
        <5>2. QED
          BY <1>4, <3>1, <3>2, <4>2, <5>1
      <4>3. QED
        BY <4>1, <4>2
    <3>3. CASE i # c.level
      BY <1>4, <3>1, <3>3
    <3>4. QED
      BY <3>2, <3>3
  <2>4. \A i \in List!Levels : i >= shared'.max_height_ => On(i)' = {Root}
    <3>1. \A i \in List!Levels : i >= shared.max_height_ => i # c.level /\ On(i) = {Root}
      BY <1>2, <1>3, <1>6, <1>7, Marks DEF NodesInv
    <3>2. QED
      BY <1>4, <3>1
  <2>5. Root' = Root
    BY DEF Root
  <2>6. QED
    BY <2>1, <2>2, <2>3, <2>4, <2>5 DEF NodesInv
<1>9. \A i \in List!Levels : \A n \in On(i) : n \in On(i)' /\ n \in Made /\ KeyOf(n)' = KeyOf(n)
  BY <1>4, <1>6 DEF NodesInv
<1>10. \A i \in List!Levels : \A n \in On(i) : i \in Links(n)
       /\ Link(n, i)' = IF n = p /\ i = c.level THEN c.x ELSE Link(n, i)
  BY <1>4, <1>6 DEF NodesInv
<1>11. \A m \in On(c.level) \ {Root} : KeyOf(m) \in Int /\ KeyOf(m) # c.key
  <2>1. ASSUME NEW m \in On(c.level) \ {Root}
        PROVE  KeyOf(m) \in Int /\ KeyOf(m) # c.key
    <3>1. m \in On(0) \ {Root} /\ KeyOf(m) \in Int
      <4>1. m \in On(0)
        <5>1. c.level \in List!Levels /\ 0 \in List!Levels /\ 0 <= c.level
          BY <1>3, <1>7, Marks
        <5>2. On(c.level) \subseteq On(0)
          BY <1>6, <5>1 DEF NodesInv
        <5>3. QED
          BY <2>1, <5>2
      <4>2. KeyOf(m) \in ListKeys
        BY <1>3, <1>6, <2>1 DEF NodesInv
      <4>3. QED
        BY <2>1, <4>1, <4>2, Marks
    <3>2. CASE c.level = 0
      BY <1>5, <3>1, <3>2 DEF HasNode
    <3>3. CASE c.level # 0
      <4>1. c.x \in On(0) \ {Root} /\ m # c.x
        BY <1>3, <1>5, <1>7, <2>1, <3>3, Marks
      <4>2. QED
        BY <1>3, <3>1, <4>1, LinkLeads, Marks
    <3>4. QED
      BY <3>2, <3>3
  <2>2. QED
    BY <2>1
<1>12. List!LevelsAgree'
  <2>1. \A i \in List!Levels : Chained(On(i), KeysOn(i), LinksOn(i))
    BY LevelsChained DEF ListInv
  <2>2. ASSUME NEW i \in List!Levels
        PROVE  Chained(On(i), KeysOn(i), LinksOn(i))'
    <3>1. CASE i # c.level
      <4>1. On(i)' = On(i) /\ KeysOn(i)' = KeysOn(i) /\ LinksOn(i)' = LinksOn(i)
        BY <1>4, <1>9, <1>10, <3>1 DEF KeysOn, LinksOn
      <4>2. QED
        BY <2>1, <4>1 DEF Chained, After, Root
    <3>2. CASE i = c.level
      <4>1. PICK S, K, X, J, Y :
              /\ S = On(i) /\ K = KeysOn(i) /\ X = LinksOn(i)
              /\ J = KeysOn(i)' /\ Y = LinksOn(i)' /\ On(i)' = S \cup {c.x}
        BY <1>4, <3>2
      <4>2. Chained(S, K, X) /\ p \in S /\ Root \in S /\ c.x \notin S
        BY <1>3, <2>1, <3>2, <4>1, OnIs
      <4>3. \A m \in S : K[m] = KeyOf(m) /\ X[m] = Link(m, i)
        BY <4>1 DEF KeysOn, LinksOn
      <4>4. /\ \A m \in S \cup {c.x} : J[m] = KeyOf(m) /\ m \in Made
            /\ Y[c.x] = X[p] /\ Y[p] = c.x /\ \A m \in S \ {p} : Y[m] = X[m]
        <5>1. \A m \in S \cup {c.x} : J[m] = KeyOf(m)' /\ Y[m] = Link(m, i)'
          BY <4>1 DEF KeysOn, LinksOn
        <5>2. \A m \in S \cup {c.x} : m \in Made /\ i \in Links(m)
          BY <1>3, <1>7, <1>9, <1>10, <3>2, <4>1
        <5>3. \A m \in S \cup {c.x} : KeyOf(m)' = KeyOf(m)
              /\ Link(m, i)' = IF m = p THEN c.x ELSE Link(m, i)
          BY <1>4, <3>2, <5>2
        <5>4. QED
          BY <1>3, <1>4, <3>2, <4>2, <4>3, <5>1, <5>2, <5>3
      <4>5. /\ p = Root \/ K[p] < c.key
            /\ \A m \in S \ {Root} : K[m] < c.key => p # Root /\ K[m] <= K[p]
        <5>1. Precedes(p, i, c.key)
          BY <1>0, <1>5, <1>7, <3>2
        <5>2. QED
          BY <4>1, <4>2, <4>3, <5>1 DEF Precedes, Below
      <4>6. /\ \A m \in S \ {Root} : K[m] \in Int /\ K[m] # c.key
            /\ J[c.x] = c.key /\ \A m \in S : J[m] = K[m]
        BY <1>3, <1>11, <3>2, <4>1, <4>3, <4>4
      <4>7. c.key \in Int
        BY <1>2, Marks
      <4>8. Chained(S \cup {c.x}, J, Y)
        BY <4>2, <4>4, <4>5, <4>6, <4>7, Inserted
      <4>9. QED
        BY <4>1, <4>8 DEF Chained, After, Root
    <3>3. QED
      BY <3>1, <3>2
  <2>3. (NodesInv => (List!LevelsAgree <=> \A i \in List!Levels : Chained(On(i), KeysOn(i), LinksOn(i))))'
    BY LevelsChained, PTL
  <2>4. QED
    BY <1>8, <2>2, <2>3
<1>13. /\ r \in ListThreads /\ r.op = op /\ r.call = c.call /\ r.key = c.key /\ r.x = c.x
       /\ r.level = c.level + 1 /\ r.prev = c.prev /\ r.height = c.height /\ r.old = c.old
  <2> DEFINE R(o, l) == [op |-> o, call |-> c.call, key |-> c.key, x |-> c.x, level |-> l,
                         prev |-> c.prev, height |-> c.height, since |-> c.since, old |-> c.old]
             e1 == [c EXCEPT !.level = c.level + 1]
             e2 == [e1 EXCEPT !.op = op]
  <2>1. c = R(c.op, c.level) /\ c \in ListThreads
    BY <1>2 DEF ListThreads
  <2>2. r = e2
    BY <2>1
  <2>3. op \in {"setnext", "unlock"}
    OBVIOUS
  <2> HIDE DEF r
  <2> HIDE DEF op
  <2>4. e1 = R(c.op, c.level + 1)
    BY <2>1
  <2> HIDE DEF e1
  <2>5. e2 = R(op, c.level + 1)
    BY <2>4
  <2> HIDE DEF e2
  <2>6. R(op, c.level + 1) \in ListThreads
    BY <1>7, <2>1, <2>3 DEF ListThreads, ListOps
  <2>7. QED
    BY <2>2, <2>5, <2>6
<1> HIDE DEF r
<1>14. thread'[t] = r /\ \A u \in Threads \ {t} : thread'[u] = thread[u]
  BY <1>1, <1>6 DEF ListTyped
<1>15. /\ history' \in [begun : Nat, stored : [ListKeys -> Nat], returned : [ListKeys -> Nat]]
       /\ history'.returned = history.returned
       /\ \A k \in ListKeys : history'.stored[k] =
            IF c.level = 0 /\ k = c.key THEN history.stored[k] + 1 ELSE history.stored[k]
  <2>1. history \in [begun : Nat, stored : [ListKeys -> Nat], returned : [ListKeys -> Nat]]
    BY <1>6 DEF ListTyped
  <2>2. CASE c.level = 0
    <3>1. history' = [history EXCEPT !.stored = [history.stored EXCEPT ![c.key] = history.stored[c.key] + 1]]
      BY <1>1, <2>1, <2>2
    <3>2. /\ [history.stored EXCEPT ![c.key] = history.stored[c.key] + 1] \in [ListKeys -> Nat]
          /\ \A k \in ListKeys : [history.stored EXCEPT ![c.key] = history.stored[c.key] + 1][k] =
               IF k = c.key THEN history.stored[k] + 1 ELSE history.stored[k]
      BY <1>2, <2>1
    <3>3. QED
      BY <2>1, <2>2, <3>1, <3>2
  <2>3. CASE c.level # 0
    BY <1>1, <2>1, <2>3
  <2>4. QED
    BY <2>2, <2>3
<1>16. ListTyped'
  BY <1>1, <1>4, <1>6, <1>13, <1>15 DEF ListTyped
<1>17. On(0)' = (IF c.level = 0 THEN On(0) \cup {c.x} ELSE On(0)) /\ Root' = Root
  BY <1>4, Marks DEF Root
<1>18. \A k : HasNode(k)' <=> HasNode(k) \/ (c.level = 0 /\ k = c.key)
  <2>1. \A n \in On(0) : KeyOf(n)' = KeyOf(n)
    BY <1>9, Marks
  <2>2. KeyOf(c.x)' = c.key
    <3>1. PICK x \in Made : x = c.x /\ KeyOf(x) = c.key
      BY <1>3
    <3>2. QED
      BY <1>4, <3>1
  <2>3. QED
    BY <1>3, <1>17, <2>1, <2>2 DEF HasNode
<1>19. StoredInv'
  <2>1. ASSUME NEW n \in On(0)' \ {Root}
        PROVE  ValOf(n)' = history'.stored[KeyOf(n)'] /\ ValOf(n)' > 0
    <3>1. CASE n \in On(0)
      <4>1. n \in Made /\ KeyOf(n) \in ListKeys /\ KeyOf(n)' = KeyOf(n) /\ ValOf(n)' = ValOf(n)
        BY <1>4, <1>6, <2>1, <3>1, Marks DEF NodesInv
      <4>2. ValOf(n) = history.stored[KeyOf(n)] /\ ValOf(n) > 0
        BY <1>6, <2>1, <3>1 DEF StoredInv
      <4>3. ~(c.level = 0 /\ KeyOf(n) = c.key)
        BY <1>11, <2>1, <3>1
      <4>4. QED
        BY <1>15, <4>1, <4>2, <4>3
    <3>2. CASE n \notin On(0)
      <4>1. n = c.x /\ c.level = 0 /\ n \in Made
        BY <1>3, <1>17, <2>1, <3>2
      <4>2. ValOf(n) = history.stored[c.key] + 1 /\ KeyOf(n) = c.key
        BY <1>3, <1>5, <4>1
      <4>3. QED
        BY <1>2, <1>4, <1>15, <4>1, <4>2
    <3>3. QED
      BY <3>1, <3>2
  <2>2. \A k \in ListKeys : history'.stored[k] > 0 => HasNode(k)'
    BY <1>6, <1>15, <1>18 DEF StoredInv
  <2>3. \A k \in ListKeys : history'.returned[k] <= history'.stored[k]
    <3>1. \A k \in ListKeys : /\ history.returned[k] \in Nat /\ history.stored[k] \in Nat
                              /\ history.returned[k] <= history.stored[k]
      BY <1>6 DEF ListTyped, StoredInv
    <3>2. QED
      BY <1>15, <3>1
  <2>4. QED
    BY <1>17, <2>1, <2>2, <2>3 DEF StoredInv
<1>20. Grows
  <2>1. \A k \in ListKeys : history.returned[k] \in Nat
    BY <1>6 DEF ListTyped
  <2>2. QED
    BY <1>9, <1>15, <2>1 DEF Grows
<1>21. PlaceInv(t)' /\ GetInv(t)' /\ WalkInv(t)'
  <2>1. op \in {"setnext", "unlock"}
    OBVIOUS
  <2> HIDE DEF op
  <2>2. \A k \in c.old : HasNode(k)'
    BY <1>0, <1>6, <1>18 DEF PlaceInv
  <2>3. QED
    BY <1>2, <1>13, <1>14, <2>1, <2>2 DEF PlaceInv, GetInv, WalkInv, ListCalls
<1>22. InsertInv(t)'
  <2>1. CASE ~(c.level + 1 < c.height)
    <3>1. r.op = "unlock"
      BY <1>13, <2>1
    <3>2. QED
      BY <1>2, <1>4, <1>14, <3>1 DEF InsertInv, SearchInv, LinkInv
  <2>2. CASE c.level + 1 < c.height
    <3>1. r.op = "setnext"
      BY <1>13, <2>2
    <3>2. \A i \in c.level + 1..c.height - 1 : i \in List!Levels /\ i # c.level /\ i \in c.level..c.height - 1
      BY <1>7, Marks
    <3>3. ASSUME NEW i \in c.level + 1..c.height - 1
          PROVE  Precedes(c.prev[i], i, c.key)'
      <4>1. On(i)' = On(i) /\ Precedes(c.prev[i], i, c.key) /\ i \in List!Levels
        BY <1>4, <1>5, <3>2, <3>3
      <4>2. PICK n : n = c.prev[i] /\ n \in On(i)
        BY <4>1 DEF Precedes
      <4>3. \A m \in On(i) : KeyOf(m)' = KeyOf(m)
        BY <1>9, <4>1
      <4>4. Precedes(n, i, c.key)'
        BY <1>17, <4>1, <4>2, <4>3 DEF Precedes, Below
      <4>5. QED
        BY <4>2, <4>4
    <3>4. SearchInv(t)'
      BY <1>3, <1>4, <1>7, <1>13, <1>14, <2>2, <3>1, <3>3 DEF SearchInv
    <3>5. \A i \in List!Levels : c.x \in On(i)' <=> i < c.level + 1
      BY <1>3, <1>4, <1>5, <1>7, Marks
    <3>6. \A i \in c.level + 1..c.height - 1 : Link(c.x, i)' = List!Garbage
      <4>1. \A i \in c.level + 1..c.height - 1 : i \in Links(c.x)
        BY <1>5, <1>7
      <4>2. PICK x \in Made : x = c.x /\ x # p /\ \A i \in c.level + 1..c.height - 1 :
                                 i \in Links(x) /\ Link(x, i) = List!Garbage
        BY <1>3, <1>5, <4>1
      <4>3. QED
        BY <1>4, <4>2
    <3>7. c.x \in Made' /\ c.x # Root /\ KeyOf(c.x)' = c.key /\ Links(c.x)' = 0..c.height - 1
      <4>1. PICK x \in Made : x = c.x /\ x # Root /\ KeyOf(x) = c.key /\ Links(x) = 0..c.height - 1
        BY <1>3, <1>5
      <4>2. QED
        BY <1>4, <4>1
    <3>8. /\ c.level + 1 # 0 /\ c.level + 1 \in c.level + 1..c.height - 1
          /\ \A i \in c.level + 1 + 1..c.height - 1 : i \in c.level + 1..c.height - 1
      BY <1>7, <2>2
    <3>9. LinkInv(t)'
      BY <1>13, <1>14, <1>17, <3>1, <3>5, <3>6, <3>7, <3>8 DEF LinkInv
    <3>10. QED
      BY <1>2, <1>4, <3>4, <3>9 DEF InsertInv
  <2>3. QED
    BY <2>1, <2>2
<1>23. QED
  BY <1>2, <1>8, <1>12, <1>14, <1>16, <1>19, <1>20, <1>21, <1>22, StepKeeps

------------------------------------------------------------------------------
(* The skip list stays searchable                                          *)

(* The list begins with its head alone.                                    *)
LEMMA ListInit ==
  List!Init => ListInv
<1> SUFFICES ASSUME List!Init PROVE ListInv
  OBVIOUS
<1> DEFINE h == [key |-> Nothing, val |-> NotFound, next |-> [i \in List!Levels |-> List!nullptr]]
<1>1. /\ shared = [node |-> <<h>>, max_height_ |-> 1, lock_ |-> Nothing]
      /\ thread = [t \in Threads |-> List!Idle]
      /\ history = [begun |-> 0, stored |-> [k \in ListKeys |-> 0], returned |-> [k \in ListKeys |-> 0]]
  BY DEF List!Init
<1>2. h \in ListNodes
  <2>1. [0..kMaxHeight - 1 -> Int] \in {[0..g - 1 -> Int] : g \in 1..kMaxHeight}
    BY Marks
  <2>2. [i \in List!Levels |-> List!nullptr] \in [0..kMaxHeight - 1 -> Int]
    BY Marks
  <2>3. [i \in List!Levels |-> List!nullptr] \in UNION {[0..g - 1 -> Int] : g \in 1..kMaxHeight}
    BY <2>1, <2>2
  <2>4. QED
    BY <2>3 DEF ListNodes
<1>3. h.next = [i \in List!Levels |-> List!nullptr]
  OBVIOUS
<1> HIDE DEF h
<1>4. <<h>> \in Seq(ListNodes) /\ DOMAIN <<h>> = {1} /\ <<h>>[1] = h
  BY <1>2
<1>5. ListTyped
  BY <1>1, <1>4, AtRest, Marks DEF ListTyped
<1>6. Made = {Root} /\ Links(Root) = List!Levels /\ \A i \in List!Levels : Link(Root, i) = List!nullptr
  BY <1>1, <1>3, <1>4 DEF Made, Root, List!head_, Links, Link
<1>7. \A i \in List!Levels : On(i) = {Root}
  <2>1. ASSUME NEW i \in List!Levels
        PROVE  On(i) = {Root}
    <3>1. \A m : m \in On(i) <=> m = Root
      BY <1>6, <2>1, OnIs
    <3>2. QED
      BY <3>1 DEF On, List!OnLevel
  <2>2. QED
    BY <2>1
<1>8. NodesInv
  BY <1>6, <1>7 DEF NodesInv
<1>9. List!LevelsAgree
  <2>1. ASSUME NEW i \in List!Levels
        PROVE  Chained(On(i), KeysOn(i), LinksOn(i))
    <3>1. LinksOn(i)[Root] = List!nullptr /\ On(i) = {Root}
      BY <1>6, <1>7, <2>1 DEF LinksOn
    <3>2. After(On(i), KeysOn(i), Root) = {}
      BY <3>1 DEF After
    <3>3. QED
      BY <3>1, <3>2 DEF Chained
  <2>2. QED
    BY <1>8, <2>1, LevelsChained
<1>10. StoredInv
  BY <1>1, <1>7, Marks DEF StoredInv
<1>11. \A t \in Threads : thread[t] = List!Idle
  BY <1>1
<1>12. \A t \in Threads : PlaceInv(t) /\ GetInv(t) /\ WalkInv(t) /\ InsertInv(t)
  BY <1>11, AtRest DEF PlaceInv, GetInv, WalkInv, InsertInv, Inserting
<1>13. QED
  BY <1>5, <1>8, <1>9, <1>10, <1>12 DEF ListInv

(* Every step of the list keeps the invariant.                             *)
LEMMA ListNext ==
  ASSUME ListInv, List!Next
  PROVE  ListInv'
<1>1. PICK t \in Threads :
        \/ \E k \in ListKeys : List!Get(t, k)
        \/ \E k \in ListKeys : List!Insert(t, k)
        \/ List!Lock(t)
        \/ \E k \in ListKeys : List!Iterator_Seek(t, k)
        \/ List!Iterator_SeekToFirst(t)
        \/ List!Iterator_SeekToLast(t)
        \/ List!Iterator_Next(t)
        \/ List!Iterator_Prev(t)
        \/ List!FindGreaterOrEqual(t)
        \/ List!FindLessThan(t)
        \/ List!FindLast(t)
        \/ List!WalkEnds(t)
        \/ List!GetReturn(t)
        \/ \E height \in 1..kMaxHeight : List!Raise(t, height)
        \/ List!Overwrite(t)
        \/ List!NewNode(t)
        \/ List!SetNext(t)
        \/ List!Publish(t)
        \/ List!Unlock(t)
  BY DEF List!Next
<1>2. ASSUME thread[t].x # List!nullptr, thread[t].op = "idle"
      PROVE  thread[t].x \in On(0) /\ thread[t].x # Root /\ KeyOf(thread[t].x) \in ListKeys
  BY <1>2, LinkLeads, Marks DEF ListInv, PlaceInv
<1>3. ASSUME NEW k \in ListKeys, List!Iterator_Seek(t, k) PROVE ListInv'
  BY <1>3, StartWalkKeeps DEF List!Iterator_Seek
<1>4. CASE List!Iterator_SeekToFirst(t)
  <2>1. PICK call, n : call = "SeekToFirst" /\ n = Root
    OBVIOUS
  <2>2. List!LoadLink(t, call, n) /\ n \in On(0)
    BY <1>4, <2>1, OnIs DEF List!Iterator_SeekToFirst, Root
  <2>3. QED
    BY <2>1, <2>2, LoadLinkKeeps
<1>5. CASE List!Iterator_SeekToLast(t)
  <2>1. PICK call, k : call = "SeekToLast" /\ k = Nothing
    OBVIOUS
  <2>2. List!StartWalk(t, call, k) /\ call \in {"Seek", "SeekToLast", "Prev"} /\ k \in ListKeys \cup {Nothing}
    BY <1>5, <2>1 DEF List!Iterator_SeekToLast
  <2>3. QED
    BY <2>1, <2>2, StartWalkKeeps
<1>6. CASE List!Iterator_Next(t)
  <2>1. PICK call, n : call = "Next" /\ n = thread[t].x
    OBVIOUS
  <2>2. List!LoadLink(t, call, n) /\ n # List!nullptr /\ thread[t].op = "idle"
    BY <1>6, <2>1 DEF List!Iterator_Next, List!LoadLink, List!Does
  <2>3. n \in On(0) /\ n # Root
    BY <1>2, <2>1, <2>2
  <2>4. QED
    BY <2>1, <2>2, <2>3, LoadLinkKeeps
<1>7. CASE List!Iterator_Prev(t)
  <2>1. PICK call, k : call = "Prev" /\ k = KeyOf(thread[t].x)
    OBVIOUS
  <2>2. List!StartWalk(t, call, k) /\ thread[t].x # List!nullptr /\ thread[t].op = "idle"
    BY <1>7, <2>1 DEF List!Iterator_Prev, List!StartWalk, List!Does, KeyOf, List!Node
  <2>3. k \in ListKeys
    BY <1>2, <2>1, <2>2
  <2>4. QED
    BY <2>1, <2>2, <2>3, StartWalkKeeps
<1>8. QED
  BY <1>1, <1>3, <1>4, <1>5, <1>6, <1>7, GetKeeps, InsertKeeps, ListLockKeeps, FindGreaterOrEqualKeeps,
     FindLessThanKeeps, FindLastKeeps, WalkEndsKeeps, GetReturnKeeps, RaiseKeeps, OverwriteKeeps,
     NewNodeKeeps, SetNextKeeps, ListPublishKeeps, UnlockKeeps

(* So does a step of nothing.                                              *)
LEMMA ListUnchanged ==
  ASSUME ListInv, UNCHANGED vars
  PROVE  ListInv'
<1>1. shared' = shared /\ thread' = thread /\ history' = history
  BY DEF vars, state
<1>2. ListTyped' /\ NodesInv' /\ List!LevelsAgree' /\ StoredInv'
  <2>1. NodesInv'
    BY <1>1, ListStays DEF ListInv, NodesInv, Root
  <2>2. StoredInv'
    BY <1>1, ListStays DEF ListInv, StoredInv, Root
  <2>3. QED
    BY <1>1, <2>1, <2>2, ListStays DEF ListInv, ListTyped
<1>3. Grows
  BY <1>1, ListStays DEF Grows, ListInv, ListTyped
<1>4. ASSUME NEW u \in Threads
      PROVE  PlaceInv(u)' /\ GetInv(u)' /\ WalkInv(u)' /\ InsertInv(u)'
  BY <1>1, <1>2, <1>3, PlacesKept, InsertKept
<1>5. QED
  BY <1>2, <1>4 DEF ListInv

(* What the invariant says of the answers and of the iterators.            *)
LEMMA ListAnswers ==
  ASSUME ListInv
  PROVE  List!LevelsAgree /\ List!AnswersAreCurrent /\ List!WalksMissNothing
<1>1. ASSUME NEW t \in Threads, thread[t].op = "found", thread[t].call = "Get"
      PROVE  IF List!Answer(t) = NotFound THEN thread[t].since = 0
             ELSE List!Answer(t) \in thread[t].since..history.stored[thread[t].key] \ {0}
  <2> DEFINE c == thread[t]
  <2>1. /\ c.key \in ListKeys /\ c.x \in On(0) \cup {List!nullptr} /\ c.since <= history.returned[c.key]
        /\ c.x # Root /\ (c.x = List!nullptr \/ KeyOf(c.x) # c.key => c.since = 0)
    BY <1>1 DEF ListInv, PlaceInv, GetInv
  <2>2. /\ c.since \in Nat /\ history.returned[c.key] \in Nat /\ history.stored[c.key] \in Nat
        /\ history.returned[c.key] <= history.stored[c.key]
    BY <2>1 DEF ListInv, ListTyped, ListThreads, StoredInv
  <2>3. List!Equal(t) <=> ~(c.x = List!nullptr \/ KeyOf(c.x) # c.key)
    BY DEF List!Equal, KeyOf, List!Node
  <2>4. CASE ~List!Equal(t)
    BY <2>1, <2>3, <2>4 DEF List!Answer
  <2>5. CASE List!Equal(t)
    <3>1. List!Answer(t) = ValOf(c.x)
      BY <2>5 DEF List!Answer, ValOf, List!Node
    <3>2. ValOf(c.x) = history.stored[c.key] /\ ValOf(c.x) > 0
      BY <2>1, <2>3, <2>5 DEF ListInv, StoredInv
    <3>3. List!Answer(t) # NotFound
      BY <2>2, <3>1, <3>2, PartsAssumption
    <3>4. QED
      BY <2>1, <2>2, <3>1, <3>2, <3>3
  <2>6. QED
    BY <2>4, <2>5
<1>2. List!AnswersAreCurrent
  BY <1>1 DEF List!AnswersAreCurrent, List!Does
<1>3. ASSUME NEW t \in Threads
      PROVE  WalkInv(t)
  BY DEF ListInv
<1>4. List!WalksMissNothing
  BY <1>3 DEF List!WalksMissNothing, WalkInv, Ahead, Forward, KeyOf, List!Node, Root
<1>5. QED
  BY <1>2, <1>4 DEF ListInv

(* Of the skip list of nvm_engine_paten and nvm_engine_patentair, for any  *)
(* number of threads, keys, levels and Inserts, and any heights drawn: its *)
(* levels stay sorted parts of each other while an Insert links its node,  *)
(* a Get without the lock sees every Insert that returned before it began, *)
(* and an iterator passes over no key of such an Insert.                   *)
THEOREM SkipListStaysSearchable == Spec => []SkipListIsSearchable
<1> DEFINE Inv == part = "skiplist" => ListInv
<1>1. Init => Inv
  <2> SUFFICES ASSUME Init, part = "skiplist" PROVE ListInv
    OBVIOUS
  <2>1. List!Init
    BY DEF Init
  <2>2. QED
    BY <2>1, ListInit
<1>2. Inv /\ [Next]_vars => Inv'
  <2> SUFFICES ASSUME Inv, [Next]_vars, part' = "skiplist" PROVE ListInv'
    OBVIOUS
  <2>1. part = "skiplist"
    BY DEF Next, vars
  <2>2. ListInv
    BY <2>1
  <2>3. CASE Next
    <3>1. List!Next
      BY <2>1, <2>3 DEF Next, ListStep, TableStep, BlocksStep, ObjectsStep, TracerStep, IndexStep, DigestStep
    <3>2. QED
      BY <2>2, <3>1, ListNext
  <2>4. CASE UNCHANGED vars
    BY <2>2, <2>4, ListUnchanged
  <2>5. QED
    BY <2>3, <2>4
<1>3. Inv => SkipListIsSearchable
  BY ListAnswers DEF SkipListIsSearchable
<1>4. QED
  BY <1>1, <1>2, <1>3, PTL DEF Spec
==============================================================================
