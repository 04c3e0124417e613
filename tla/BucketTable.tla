------------------------------ MODULE BucketTable ------------------------------
(***************************************************************************)
(* yet_another_nvm_example: a table of entry numbers, searched linearly,   *)
(* with a mutex for each stripe of BUCKET_PER_MUTEX positions.  A search   *)
(* that leaves a stripe unlocks it before it locks the next one.  The      *)
(* entries are in persistent memory and the table is not: nothing is       *)
(* recovered, so that there is no restart here.                            *)
(***************************************************************************)
EXTENDS Integers

CONSTANTS
  Keys, Threads,
  Hash,                          \* Hash[k] \in 0..BUCKET_MAX - 1
  BUCKET_MAX, BUCKET_PER_MUTEX,
  MaxSets,                       \* the bound on Sets
  NotFound, Ok, OutOfMemory, Nothing

VARIABLES
  shared,    \* [bucket, entry, entry_cnt, slot_mut]
  thread,    \* what each thread is doing
  history    \* [begun: Sets, latest: key -> the value stored last]

vars == <<shared, thread, history>>

Positions == 0..BUCKET_MAX - 1
Slot(hash) == hash \div BUCKET_PER_MUTEX
Zeros == [key |-> Nothing, value |-> Nothing]
Idle == [op |-> "idle", call |-> Nothing, key |-> Nothing, value |-> Nothing,
         hash |-> 0, slot |-> 0, i |-> 0, answer |-> Nothing]

Init ==
  /\ shared = [bucket |-> [p \in Positions |-> 0], entry_cnt |-> 1,
               entry |-> [e \in 1..BUCKET_MAX |-> Zeros],
               slot_mut |-> [s \in {Slot(p) : p \in Positions} |-> Nothing]]
  /\ thread = [t \in Threads |-> Idle]
  /\ history = [begun |-> 0, latest |-> [k \in Keys |-> NotFound]]

Does(t, op) == thread[t].op = op
Goes(t, rec) == thread' = [thread EXCEPT ![t] = rec]
Unlocked(s) == [shared EXCEPT !.slot_mut[s] = Nothing]

Start(t, call, k, v) ==
  /\ Does(t, "idle")
  /\ Goes(t, [Idle EXCEPT !.op = "lock", !.call = call, !.key = k, !.value = v,
                          !.hash = Hash[k], !.slot = Slot(Hash[k])])
  /\ UNCHANGED shared

Get(t, k) == Start(t, "Get", k, Nothing) /\ UNCHANGED history

Set(t, k) ==
  /\ history.begun < MaxSets
  /\ Start(t, "Set", k, history.begun + 1)
  /\ history' = [history EXCEPT !.begun = @ + 1]

(* A mistaken one: it does not wait. *)
Lock_NoWait(t) ==
  /\ Does(t, "lock")
  /\ shared' = [shared EXCEPT !.slot_mut[thread[t].slot] = t]
  /\ Goes(t, [thread[t] EXCEPT !.op = "probe"])
  /\ UNCHANGED history

Lock(t) ==
  /\ shared.slot_mut[thread[t].slot] = Nothing
  /\ Lock_NoWait(t)

(* The loops of Get and Set go on as long as `More', through `Next'. *)
More(t) == thread[t].i < BUCKET_MAX /\ shared.bucket[thread[t].hash] # 0
EntryAt(t) == shared.entry[shared.bucket[thread[t].hash]]
Hit(t) == More(t) /\ EntryAt(t).key = thread[t].key

(* What a call returns, beside what is so at this moment. *)
Returns(t, what, current) ==
  Goes(t, [Idle EXCEPT !.answer = [returned |-> what, current |-> current]])
Latest(t) == history.latest[thread[t].key]
Full == \A p \in Positions : shared.bucket[p] # 0
Stores(t) == history' = [history EXCEPT !.latest[thread[t].key] = thread[t].value]

GetHit(t) ==
  /\ Does(t, "probe") /\ thread[t].call = "Get" /\ Hit(t)
  /\ Returns(t, EntryAt(t).value, Latest(t))
  /\ shared' = Unlocked(thread[t].slot)
  /\ UNCHANGED history

SetHit(t) ==
  LET slot == thread[t].slot IN
  /\ Does(t, "probe") /\ thread[t].call = "Set" /\ Hit(t)
  /\ shared' = [Unlocked(slot) EXCEPT
       !.entry[shared.bucket[thread[t].hash]].value = thread[t].value]
  /\ Returns(t, Ok, Ok)
  /\ Stores(t)

(* The lock of the next stripe is taken in a step of its own. *)
Advance(t) ==
  LET c == thread[t]
      next == (c.hash + 1) % BUCKET_MAX
      crosses == Slot(next) # c.slot
  IN
  /\ Does(t, "probe") /\ More(t) /\ ~Hit(t)
  /\ Goes(t, [c EXCEPT !.hash = next, !.slot = Slot(next), !.i = @ + 1,
                       !.op = IF crosses THEN "lock" ELSE "probe"])
  /\ shared' = IF crosses THEN Unlocked(c.slot) ELSE shared
  /\ UNCHANGED history

GetMiss(t) ==
  /\ Does(t, "probe") /\ thread[t].call = "Get" /\ ~More(t)
  /\ Returns(t, NotFound, Latest(t))
  /\ shared' = Unlocked(thread[t].slot)
  /\ UNCHANGED history

SetFull(t) ==
  /\ Does(t, "probe") /\ thread[t].call = "Set" /\ thread[t].i = BUCKET_MAX
  /\ Returns(t, OutOfMemory, IF Full /\ Latest(t) = NotFound THEN OutOfMemory ELSE Ok)
  /\ shared' = Unlocked(thread[t].slot)
  /\ UNCHANGED history

(* bucket[hash] = entry_cnt.fetch_add(1) *)
Publish(t) ==
  /\ Does(t, "probe") /\ thread[t].call = "Set"
  /\ thread[t].i < BUCKET_MAX /\ ~More(t)
  /\ shared' = [shared EXCEPT !.bucket[thread[t].hash] = shared.entry_cnt, !.entry_cnt = @ + 1]
  /\ Goes(t, [thread[t] EXCEPT !.op = "fill"])
  /\ UNCHANGED history

Fill(t) ==
  /\ Does(t, "fill")
  /\ shared' = [Unlocked(thread[t].slot) EXCEPT
       !.entry[shared.bucket[thread[t].hash]] = [key |-> thread[t].key, value |-> thread[t].value]]
  /\ Returns(t, Ok, Ok)
  /\ Stores(t)

Next ==
  \E t \in Threads :
    \/ \E k \in Keys : Get(t, k) \/ Set(t, k)
    \/ Lock(t)
    \/ GetHit(t)
    \/ SetHit(t)
    \/ Advance(t)
    \/ GetMiss(t)
    \/ SetFull(t)
    \/ Publish(t)
    \/ Fill(t)

------------------------------------------------------------------------------
(* Though no call holds the locks of two stripes, every call acts as if it *)
(* happened at once, when it unlocks for the last time: a Get answers with *)
(* what its key has then, and a Set says OutOfMemory only if the table is  *)
(* full and no Set of its key has stored.  No key gets two entries.        *)
CallsAreAtomic ==
  /\ \A t \in Threads : thread[t].answer # Nothing =>
       thread[t].answer.returned = thread[t].answer.current
  /\ \A e, f \in 1..BUCKET_MAX :
       shared.entry[e].key = shared.entry[f].key => e = f \/ shared.entry[e] = Zeros
==============================================================================
