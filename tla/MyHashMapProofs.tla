--------------------------- MODULE MyHashMapProofs ---------------------------
(***************************************************************************)
(* Proofs about MyHashMap: for one thread that writes, and for any number  *)
(* of readers, keys, hashes, positions and entries, that no key is lost or *)
(* has two entries, and that a Get that runs while the writer does still   *)
(* answers what was right while it ran.  With two threads that write none  *)
(* of this holds: put takes a position that it saw free some steps before. *)
(***************************************************************************)
EXTENDS MyHashMap, FiniteSetTheorems, WellFoundedInduction, TLAPS

(* The position d after the one k hashes to. *)
Pos(k, d) == (Hash[k] + d) % Size

(* A search does not leave the table: the remainder is at most one turn.   *)
LEMMA PosIs ==
  ASSUME NEW k \in Keys, NEW d \in Positions
  PROVE  /\ Hash[k] \in Positions
         /\ Pos(k, d) \in Positions
         /\ Pos(k, d) = IF Hash[k] + d < Size THEN Hash[k] + d ELSE Hash[k] + d - Size
<1>1. Hash[k] \in Positions /\ Size \in Nat /\ Size > 0
  BY MyHashMapAssumption DEF Positions
<1>2. \A x \in 0..Size - 1 : x % Size = x
  BY <1>1
<1>3. ASSUME NEW x \in Size..2 * Size - 1
      PROVE  x % Size = x - Size
  <2>1. x \in Int /\ x - Size \in 0..Size - 1 /\ x = 1 * Size + (x - Size)
    BY <1>1
  <2>2. QED
    BY <1>1, <2>1
<1>4. Hash[k] \in 0..Size - 1 /\ d \in 0..Size - 1
  BY <1>1 DEF Positions
<1>5. CASE Hash[k] + d < Size
  <2>1. Hash[k] + d \in 0..Size - 1
    BY <1>1, <1>4, <1>5
  <2>2. Pos(k, d) = Hash[k] + d
    BY <1>2, <2>1 DEF Pos
  <2>3. QED
    BY <1>1, <1>5, <2>1, <2>2 DEF Positions
<1>6. CASE ~(Hash[k] + d < Size)
  <2>1. Hash[k] + d \in Size..2 * Size - 1 /\ Hash[k] + d - Size \in 0..Size - 1
    BY <1>1, <1>4, <1>6
  <2>2. Pos(k, d) = Hash[k] + d - Size
    BY <1>1, <1>3, <1>4, <2>1 DEF Pos
  <2>3. QED
    BY <1>1, <1>6, <2>1, <2>2 DEF Positions
<1>7. QED
  BY <1>5, <1>6

(* A set of natural numbers that is not empty has a least one.             *)
LEMMA LeastNat ==
  ASSUME NEW S, S \subseteq Nat, S # {}
  PROVE  \E m \in S : \A n \in S : m <= n
<1>1. \E m \in S : \A n \in S : ~(<<n, m>> \in OpToRel(<, Nat))
  BY NatLessThanWellFounded, WFMin
<1>2. PICK m \in S : \A n \in S : ~(<<n, m>> \in OpToRel(<, Nat))
  BY <1>1
<1>3. ASSUME NEW n \in S
      PROVE  m <= n
  <2>1. ~(<<n, m>> \in {ss \in Nat \X Nat : ss[1] < ss[2]})
    BY <1>2 DEF OpToRel
  <2>2. QED
    BY <2>1
<1>4. QED
  BY <1>2, <1>3

------------------------------------------------------------------------------
(* The inductive invariant                                                 *)

(* The hypothesis of the theorems.                                         *)
OneWriter == \E w : Writers = {w}

(* The positions a search for k looks at before it comes to p. *)
Before(k, p) ==
  {q \in Positions : IF Hash[k] <= p THEN Hash[k] <= q /\ q < p ELSE Hash[k] <= q \/ q < p}

Reached(k, p) == \A q \in Before(k, p) : Occupied(q)
Found(k, p) == Occupied(p) /\ EntryAt(p).key = k
Absent(k) == \A p \in Positions : ~Found(k, p)

Blank == [key |-> NoKey, offset |-> Empty]
AnyOffset == Offsets \cup {Empty}
Phases == {"idle", "search", "hit", "update", "put", "fetch_add", "publish", "key", "offset"}

Tables == [0..Slots - 1 -> [key : Keys \cup {NoKey}, offset : AnyOffset]]

Typed ==
  /\ index_offsets \in [Positions -> 0..Slots - 1 \cup {Empty}]
  /\ key_offset_s \in Tables
  /\ key_offset_s_end \in 0..Slots
  /\ pc \in [Threads -> Phases]
  /\ key \in [Threads -> Keys \cup {CHOOSE k \in Keys : TRUE}]
  /\ offset \in [Threads -> AnyOffset] /\ answer \in [Threads -> AnyOffset]
  /\ at \in [Threads -> Positions]
  /\ ticket \in [Threads -> Nat]

(* Used entries have numbers of their own, the others are blank; an entry  *)
(* that has a key is where a search for it comes to, and is complete but   *)
(* for the one the writer is filling.                                      *)
TableInv ==
  /\ \A p \in Positions : Occupied(p) => index_offsets[p] < key_offset_s_end
  /\ \A p, q \in Positions : Occupied(p) /\ index_offsets[p] = index_offsets[q] => p = q
  /\ \A e \in key_offset_s_end..Slots - 1 : key_offset_s[e] = Blank
  /\ \A k \in Keys, p \in Positions : Found(k, p) => Reached(k, p)
  /\ OneEntryPerKey

Filled ==
  \A p \in Positions : Occupied(p) =>
    \/ EntryAt(p).key \in Keys /\ EntryAt(p).offset \in Offsets
    \/ \E t \in Writers : pc[t] \in {"key", "offset"} /\ at[t] = p

WriterInv(t) ==
  /\ pc[t] # "idle" => key[t] \in Keys /\ offset[t] \in Offsets
  /\ pc[t] = "search" => \A q \in Before(key[t], at[t]) : Occupied(q) /\ ~Found(key[t], q)
  /\ pc[t] \in {"hit", "update"} => Found(key[t], at[t])
  /\ pc[t] \in {"put", "fetch_add", "publish", "key"} =>
       Absent(key[t]) /\ Reached(key[t], at[t])
  /\ pc[t] \in {"fetch_add", "publish"} => ~Occupied(at[t])
  /\ pc[t] \in {"publish", "key", "offset"} => ticket[t] < key_offset_s_end
  /\ pc[t] = "publish" => \A p \in Positions : index_offsets[p] # ticket[t]
  /\ pc[t] \in {"key", "offset"} => index_offsets[at[t]] = ticket[t]
  /\ pc[t] \in {"publish", "key"} => key_offset_s[ticket[t]] = Blank
  /\ pc[t] = "offset" => key_offset_s[ticket[t]] = [key |-> key[t], offset |-> Empty]

(* A reader may have passed its key's entry only before that had the key,  *)
(* when to find nothing was right.                                         *)
ReaderInv(t) ==
  /\ pc[t] \in {"idle", "search", "hit"}
  /\ pc[t] # "idle" => key[t] \in Keys /\ answer[t] = Empty /\ Find(key[t]) \in held[t]
  /\ pc[t] = "search" =>
       \A q \in Before(key[t], at[t]) : Occupied(q) /\ (Found(key[t], q) => Empty \in held[t])
  /\ pc[t] = "hit" => Found(key[t], at[t])

IndexInv ==
  /\ Typed /\ TableInv /\ Filled
  /\ \A t \in Writers : WriterInv(t)
  /\ \A t \in Readers : ReaderInv(t)

------------------------------------------------------------------------------
(* Searches                                                                *)

(* The positions that are nearer to Hash[k] than p are those before p.     *)
LEMMA Distance ==
  ASSUME NEW k \in Keys, NEW p \in Positions
  PROVE  \E d \in Positions : /\ Pos(k, d) = p
                              /\ \A c \in Positions : c < d <=> Pos(k, c) \in Before(k, p)
<1>1. Hash[k] \in Positions /\ Size \in Nat
  BY MyHashMapAssumption
<1> DEFINE d == IF Hash[k] <= p THEN p - Hash[k] ELSE p + Size - Hash[k]
<1>2. d \in Positions
  BY <1>1 DEF Positions
<1>3. Pos(k, d) = p
  BY <1>1, <1>2, PosIs DEF Positions
<1>4. ASSUME NEW c \in Positions
      PROVE  c < d <=> Pos(k, c) \in Before(k, p)
  BY <1>1, PosIs DEF Positions, Before
<1>5. QED
  BY <1>2, <1>3, <1>4

(* Any two positions are met one after the other by a search.              *)
LEMMA InOrder ==
  ASSUME NEW k \in Keys, NEW p \in Positions, NEW q \in Positions
  PROVE  /\ p = q \/ p \in Before(k, q) \/ q \in Before(k, p)
         /\ Before(k, Hash[k]) = {}
<1>1. Hash[k] \in Positions /\ Size \in Nat
  BY MyHashMapAssumption
<1>2. QED
  BY <1>1 DEF Positions, Before

(* A search that goes on has one more position behind it, NextPosition     *)
(* wrapping at the end of the table.                                       *)
LEMMA BeforeNext ==
  ASSUME NEW k \in Keys, NEW p \in Positions
  PROVE  /\ NextPosition(p) \in Positions
         /\ \A q \in Before(k, NextPosition(p)) : q = p \/ q \in Before(k, p)
<1>1. Hash[k] \in Positions /\ Size \in Nat
  BY MyHashMapAssumption
<1>2. QED
  BY <1>1 DEF Positions, Before, NextPosition

(* There are fewer entries than positions, and no two share one.           *)
LEMMA SomeFree == Typed /\ TableInv => \E p \in Positions : ~Occupied(p)
<1> SUFFICES ASSUME Typed, TableInv, \A p \in Positions : Occupied(p)
             PROVE  FALSE
  OBVIOUS
<1> DEFINE T == 0..Slots - 1
<1>1. /\ IsFiniteSet(Positions) /\ Cardinality(Positions) = Size
      /\ IsFiniteSet(T) /\ Cardinality(T) = Slots
  <2>1. Size \in Nat /\ Slots \in Nat /\ Size > 0
    BY MyHashMapAssumption
  <2>2. QED
    BY <2>1, FS_Interval DEF Positions
<1>2. index_offsets \in [Positions -> T]
  BY DEF Typed, Occupied
<1>3. Cardinality(T) < Cardinality(Positions)
  BY <1>1, MyHashMapAssumption
<1>4. PICK p \in Positions, q \in Positions : p # q /\ index_offsets[p] = index_offsets[q]
  BY <1>1, <1>2, <1>3, FS_PigeonHole
<1>5. QED
  BY <1>4 DEF TableInv

(* Find ends at distance d if it is the first at which a search may end.   *)
LEMMA FindEnds ==
  ASSUME NEW k \in Keys, NEW d \in Positions,
         Occupied(Pos(k, d)) => EntryAt(Pos(k, d)).key = k,
         \A c \in 0..d - 1 : ~(Occupied(Pos(k, c)) => EntryAt(Pos(k, c)).key = k)
  PROVE  Find(k) = IF Occupied(Pos(k, d)) THEN EntryAt(Pos(k, d)).offset ELSE Empty
<1> DEFINE Ends(c) == Occupied(Pos(k, c)) => EntryAt(Pos(k, c)).key = k
           First(c) == Ends(c) /\ \A b \in 0..c - 1 : ~Ends(b)
           e == CHOOSE c \in Positions : First(c)
<1>1. First(d)
  OBVIOUS
<1>2. e \in Positions /\ First(e)
  BY <1>1
<1>3. e = d
  <2>1. Size \in Nat
    BY MyHashMapAssumption
  <2>2. d \in Nat /\ e \in Nat
    BY <1>2, <2>1 DEF Positions
  <2>3. ~(d < e)
    <3>1. ASSUME d < e PROVE FALSE
      <4>1. d \in 0..e - 1
        BY <2>2, <3>1
      <4>2. QED
        BY <4>1, <1>1, <1>2
    <3>2. QED
      BY <3>1
  <2>4. ~(e < d)
    <3>1. ASSUME e < d PROVE FALSE
      <4>1. e \in 0..d - 1
        BY <2>2, <3>1
      <4>2. QED
        BY <4>1, <1>1, <1>2
    <3>2. QED
      BY <3>1
  <2>5. QED
    BY <2>2, <2>3, <2>4
<1>4. Find(k) = IF Occupied(Pos(k, e)) THEN EntryAt(Pos(k, e)).offset ELSE Empty
  BY DEF Find, Pos
<1>5. QED
  BY <1>3, <1>4

(* A key that has an entry is found in it ...                              *)
LEMMA FindHit ==
  Typed /\ TableInv =>
    \A k \in Keys, p \in Positions : Found(k, p) => Find(k) = EntryAt(p).offset
<1> SUFFICES ASSUME Typed, TableInv, NEW k \in Keys, NEW p \in Positions, Found(k, p)
             PROVE  Find(k) = EntryAt(p).offset
  OBVIOUS
<1>1. PICK d \in Positions : /\ Pos(k, d) = p
                             /\ \A c \in Positions : c < d <=> Pos(k, c) \in Before(k, p)
  BY Distance
<1>2. ASSUME NEW c \in 0..d - 1
      PROVE  Occupied(Pos(k, c)) /\ EntryAt(Pos(k, c)).key # k
  <2>1. c \in Positions /\ c < d
    BY MyHashMapAssumption DEF Positions
  <2>2. Pos(k, c) \in Before(k, p) /\ Pos(k, c) \in Positions
    BY <1>1, <2>1, PosIs
  <2>3. Pos(k, c) # p
    BY <2>2, MyHashMapAssumption DEF Before, Positions
  <2>4. Occupied(Pos(k, c))
    BY <2>2 DEF TableInv, Reached
  <2>5. k # NoKey
    BY MyHashMapAssumption
  <2>6. QED
    BY <2>2, <2>3, <2>4, <2>5 DEF TableInv, OneEntryPerKey, Found
<1>3. Occupied(Pos(k, d)) /\ EntryAt(Pos(k, d)).key = k
  BY <1>1 DEF Found
<1>4. QED
  BY <1>1, <1>2, <1>3, FindEnds

(* ... and one that has none is not found.                                 *)
LEMMA FindMiss ==
  Typed /\ TableInv => \A k \in Keys : Absent(k) => Find(k) = Empty
<1> SUFFICES ASSUME Typed, TableInv, NEW k \in Keys, Absent(k)
             PROVE  Find(k) = Empty
  OBVIOUS
<1> DEFINE S == {d \in Positions : ~Occupied(Pos(k, d))}
<1>1. S # {}
  BY SomeFree, Distance
<1>2. S \subseteq Nat
  BY MyHashMapAssumption DEF Positions
<1>3. PICK d \in S : \A c \in S : d <= c
  BY <1>1, <1>2, LeastNat
<1>4. ASSUME NEW c \in 0..d - 1
      PROVE  Occupied(Pos(k, c)) /\ EntryAt(Pos(k, c)).key # k
  <2>1. c \in Positions /\ ~(d <= c)
    BY <1>2, MyHashMapAssumption DEF Positions
  <2>2. Occupied(Pos(k, c))
    BY <1>3, <2>1
  <2>3. Pos(k, c) \in Positions
    BY <2>1, PosIs
  <2>4. QED
    BY <2>2, <2>3 DEF Absent, Found
<1>5. QED
  BY <1>3, <1>4, FindEnds

(* The same of the next state.                                             *)
LEMMA FindNext ==
  ASSUME Typed', TableInv'
  PROVE  /\ \A k \in Keys, p \in Positions : Found(k, p)' => Find(k)' = EntryAt(p)'.offset
         /\ \A k \in Keys : Absent(k)' => Find(k)' = Empty
<1>1. (Typed /\ TableInv =>
         \A k \in Keys, p \in Positions : Found(k, p) => Find(k) = EntryAt(p).offset)'
  BY FindHit, PTL
<1>2. (Typed /\ TableInv => \A k \in Keys : Absent(k) => Find(k) = Empty)'
  BY FindMiss, PTL
<1>3. QED
  BY <1>1, <1>2

------------------------------------------------------------------------------
(* Types                                                                   *)

(* An empty table and idle threads satisfy the invariant.                  *)
LEMMA InitInv == Init => IndexInv
<1> SUFFICES ASSUME Init
             PROVE  IndexInv
  OBVIOUS
<1>1. 0 \in Positions /\ Slots \in Nat
  BY MyHashMapAssumption DEF Positions
<1>2. Typed
  BY <1>1 DEF Init, Typed, Tables, Phases, AnyOffset
<1>3. \A p \in Positions : ~Occupied(p)
  BY DEF Init, Occupied
<1>4. TableInv
  BY <1>1, <1>3 DEF Init, TableInv, Found, OneEntryPerKey, Blank
<1>5. Filled
  BY <1>3 DEF Filled
<1>6. ASSUME NEW t \in Writers
      PROVE  WriterInv(t)
  <2>1. pc[t] = "idle"
    BY DEF Init, Threads
  <2>2. QED
    BY <2>1 DEF WriterInv
<1>7. ASSUME NEW t \in Readers
      PROVE  ReaderInv(t)
  <2>1. pc[t] = "idle"
    BY DEF Init, Threads
  <2>2. QED
    BY <2>1 DEF ReaderInv
<1>8. QED
  BY <1>2, <1>4, <1>5, <1>6, <1>7 DEF IndexInv

(* A call keeps the types.                                                 *)
LEMMA TypedCall ==
  ASSUME Typed, Call
  PROVE  Typed'
<1>1. Hash \in [Keys -> Positions]
  BY MyHashMapAssumption
<1>2. ASSUME NEW t \in Readers, NEW k \in Keys, Get(t, k)
      PROVE  Typed'
  BY <1>1, <1>2 DEF Typed, Get, Goto, Begin, table, Phases, AnyOffset, Threads
<1>3. ASSUME NEW t \in Writers, NEW k \in Keys, NEW o \in Offsets, Set(t, k, o)
      PROVE  Typed'
  BY <1>1, <1>3 DEF Typed, Set, Goto, Begin, table, Phases, AnyOffset, Threads
<1>4. QED
  BY <1>2, <1>3 DEF Call

(* Storing one part of one entry keeps the type of all entries.            *)
LEMMA PartStored ==
  ASSUME Typed, NEW e \in 0..Slots - 1, NEW k \in Keys, NEW o \in Offsets
  PROVE  /\ [key_offset_s EXCEPT ![e].key = k] \in Tables
         /\ [key_offset_s EXCEPT ![e].offset = o] \in Tables
BY DEF Typed, Tables, AnyOffset

(* Where a thread's step leads the thread.                                 *)
LEMMA StepIn ==
  ASSUME Typed, NEW t \in Threads, Step(t)
  PROVE  /\ pc[t] # "idle"
         /\ pc' = [pc EXCEPT ![t] = pc'[t]] /\ pc'[t] \in Phases
         /\ UNCHANGED <<key, offset>>
BY DEF Step, SearchOn, SearchHit, SearchMiss, ReadOffset, Update, PutOn, PutFree, FetchAdd,
       Publish, PutKey, PutOffset, Goto, Phases, Typed

(* A step of a thread keeps the types. The thread stores at the number of  *)
(* an entry, which the invariant knows to be one.                          *)
LEMMA TypedStep ==
  ASSUME IndexInv, NEW t \in Threads, Step(t)
  PROVE  Typed'
<1>1. Typed /\ pc[t] # "idle"
  BY StepIn DEF IndexInv
<1>2. /\ key[t] \in Keys /\ Hash[key[t]] \in Positions
      /\ at[t] \in Positions /\ NextPosition(at[t]) \in Positions
  <2>1. key[t] \in Keys
    BY <1>1 DEF IndexInv, WriterInv, ReaderInv, Threads
  <2>2. QED
    BY <1>1, <2>1, BeforeNext, MyHashMapAssumption DEF Typed
<1>3. pc' \in [Threads -> Phases] /\ UNCHANGED <<key, offset>>
  BY <1>1, StepIn DEF Typed
<1>4. CASE SearchOn(t) \/ SearchHit(t) \/ SearchMiss(t) \/ PutOn(t) \/ PutFree(t)
  BY <1>1, <1>2, <1>3, <1>4
     DEF Typed, SearchOn, SearchHit, SearchMiss, PutOn, PutFree, table
<1>5. CASE ReadOffset(t)
  <2>1. EntryAt(at[t]).offset \in AnyOffset
    <3>1. Found(key[t], at[t]) /\ pc[t] = "hit"
      BY <1>1, <1>5 DEF ReadOffset, Goto, IndexInv, WriterInv, ReaderInv, Threads
    <3>2. index_offsets[at[t]] \in 0..Slots - 1
      BY <1>1, <1>2, <3>1 DEF Found, Occupied, Typed
    <3>3. QED
      BY <1>1, <3>2 DEF EntryAt, Typed, Tables
  <2>2. answer' \in [Threads -> AnyOffset] /\ at' \in [Threads -> Positions]
    BY <1>1, <1>2, <1>5, <2>1 DEF Typed, ReadOffset
  <2>3. QED
    BY <1>1, <1>3, <1>5, <2>2 DEF Typed, ReadOffset, table
<1>6. CASE FetchAdd(t)
  BY <1>1, <1>3, <1>6, MyHashMapAssumption DEF Typed, FetchAdd
<1>7. CASE Publish(t) \/ PutKey(t) \/ PutOffset(t) \/ Update(t)
  <2>1. t \in Writers /\ pc[t] \in {"publish", "key", "offset", "update"}
    BY <1>1, <1>7 DEF Publish, PutKey, PutOffset, Update, Goto, IndexInv, ReaderInv, Threads
  <2>2. pc[t] # "update" => ticket[t] \in 0..Slots - 1
    <3>1. pc[t] # "update" => ticket[t] < key_offset_s_end
      BY <2>1 DEF IndexInv, WriterInv
    <3>2. ticket[t] \in Nat /\ key_offset_s_end \in 0..Slots
      BY <1>1 DEF Typed
    <3>3. QED
      BY <3>1, <3>2, MyHashMapAssumption
  <2>3. offset[t] \in Offsets
    BY <1>1, <2>1 DEF IndexInv, WriterInv
  <2>4. CASE Publish(t)
    BY <1>1, <1>3, <2>2, <2>4 DEF Typed, Publish, Goto
  <2>5. CASE PutKey(t)
    <3>1. Entries(t) = {ticket[t]} /\ ticket[t] \in 0..Slots - 1
      BY <2>1, <2>2, <2>5 DEF PutKey, Goto, Entries, IndexInv, WriterInv
    <3>2. key_offset_s' = [key_offset_s EXCEPT ![ticket[t]].key = key[t]]
      BY <2>5, <3>1 DEF PutKey
    <3>3. key_offset_s' \in Tables
      BY <1>1, <1>2, <2>3, <3>1, <3>2, PartStored
    <3>4. QED
      BY <1>1, <1>3, <2>5, <3>3 DEF Typed, PutKey
  <2>6. CASE PutOffset(t)
    <3>1. Entries(t) = {ticket[t]} /\ ticket[t] \in 0..Slots - 1
      BY <2>1, <2>2, <2>6 DEF PutOffset, Goto, Entries, IndexInv, WriterInv
    <3>2. key_offset_s' = [key_offset_s EXCEPT ![ticket[t]].offset = offset[t]]
      BY <2>6, <3>1 DEF PutOffset
    <3>3. key_offset_s' \in Tables
      BY <1>1, <1>2, <2>3, <3>1, <3>2, PartStored
    <3>4. QED
      BY <1>1, <1>3, <2>6, <3>3 DEF Typed, PutOffset
  <2>7. CASE Update(t)
    <3>1. Found(key[t], at[t])
      BY <2>1, <2>7 DEF Update, Goto, IndexInv, WriterInv
    <3>2. PICK e \in 0..Slots - 1 : e = index_offsets[at[t]]
      BY <1>1, <1>2, <3>1 DEF Found, Occupied, Typed
    <3>3. key_offset_s' \in Tables
      <4>1. key_offset_s' = [key_offset_s EXCEPT ![e].offset = offset[t]]
        BY <2>7, <3>2 DEF Update
      <4>2. QED
        BY <1>1, <1>2, <2>3, <3>2, <4>1, PartStored
    <3>4. QED
      BY <1>1, <1>3, <2>7, <3>3 DEF Typed, Update
  <2>8. QED
    BY <1>7, <2>4, <2>5, <2>6, <2>7
<1>8. QED
  BY <1>4, <1>5, <1>6, <1>7 DEF Step

(* Every step keeps the types.                                             *)
LEMMA TypedNext ==
  ASSUME IndexInv, [Next]_vars
  PROVE  Typed'
<1>1. CASE UNCHANGED vars
  BY <1>1 DEF IndexInv, Typed, vars, table, locals
<1>2. CASE Next
  BY <1>2, TypedCall, TypedStep DEF Next, IndexInv
<1>3. QED
  BY <1>1, <1>2

------------------------------------------------------------------------------
(* What one step leaves alone                                              *)

Stays(t) ==
  /\ pc'[t] = pc[t] /\ key'[t] = key[t] /\ offset'[t] = offset[t]
  /\ at'[t] = at[t] /\ ticket'[t] = ticket[t] /\ answer'[t] = answer[t]

(* Entries come, and stay where they are; only the writer of a key touches *)
(* the entry of that key.                                                  *)
Grows ==
  \A q \in Positions :
    /\ Occupied(q) => Occupied(q)'
    /\ \A k \in Keys :
         /\ Found(k, q)' => Found(k, q) \/ Absent(k)
         /\ Found(k, q) =>
              /\ Found(k, q)'
              /\ \/ EntryAt(q)'.offset = EntryAt(q).offset
                 \/ \E t \in Writers : key[t] = k /\ EntryAt(q)'.offset = offset[t]

(* A thread's step is no step of another.                                  *)
LEMMA OneMoves ==
  ASSUME Typed, NEW t \in Threads, NEW s \in Threads, s # t,
         \/ Step(t)
         \/ \E k \in Keys : Get(t, k)
         \/ \E k \in Keys, o \in Offsets : Set(t, k, o)
  PROVE  Stays(s)
<1>1. CASE Step(t)
  <2>1. pc'[s] = pc[s] /\ key'[s] = key[s] /\ offset'[s] = offset[s]
    BY <1>1, StepIn DEF Typed
  <2>2. at'[s] = at[s] /\ ticket'[s] = ticket[s] /\ answer'[s] = answer[s]
    BY <1>1 DEF Step, SearchOn, SearchHit, SearchMiss, ReadOffset, Update, PutOn, PutFree,
                FetchAdd, Publish, PutKey, PutOffset, Typed
  <2>3. QED
    BY <2>1, <2>2 DEF Stays
<1>2. ASSUME NEW k \in Keys, Get(t, k)
      PROVE  Stays(s)
  BY <1>2 DEF Get, Goto, Begin, Stays, Typed
<1>3. ASSUME NEW k \in Keys, NEW o \in Offsets, Set(t, k, o)
      PROVE  Stays(s)
  BY <1>3 DEF Set, Goto, Begin, Stays, Typed
<1>4. QED
  BY <1>1, <1>2, <1>3

(* Nothing about the table changes when its memory does not.               *)
LEMMA SameTable ==
  ASSUME TableInv, UNCHANGED table
  PROVE  TableInv' /\ Grows
<1>1. \A q : (Occupied(q)' <=> Occupied(q)) /\ EntryAt(q)' = EntryAt(q)
  BY DEF table, Occupied, EntryAt
<1>2. TableInv'
  BY <1>1 DEF table, TableInv, OneEntryPerKey, Found, Reached
<1>3. Grows
  BY <1>1 DEF Grows, Found
<1>4. QED
  BY <1>2, <1>3

(* A reader that does nothing stays right whatever happens to the table:   *)
(* what comes to a position it has passed was not there when its Get was   *)
(* already running.                                                        *)
LEMMA ReaderStays ==
  ASSUME IndexInv, Grows, Remember, Typed', TableInv', NEW t \in Readers, Stays(t)
  PROVE  ReaderInv(t)'
<1>1. ReaderInv(t) /\ Typed /\ TableInv
  BY DEF IndexInv
<1>2. pc'[t] = pc[t] /\ key'[t] = key[t] /\ at'[t] = at[t] /\ answer'[t] = answer[t]
  BY DEF Stays
<1>3. pc[t] # "idle" => Find(key[t])' \in held'[t] /\ held[t] \subseteq held'[t]
  BY <1>2 DEF Remember
<1>4. pc[t] # "idle" /\ Absent(key[t]) => Empty \in held[t]
  BY <1>1, FindMiss DEF ReaderInv
<1>5. pc[t] # "idle" => key[t] \in Keys
  BY <1>1, <1>2 DEF ReaderInv
<1>6. pc[t] = "search" =>
        \A q \in Before(key[t], at[t]) : Occupied(q)' /\ (Found(key[t], q)' => Empty \in held'[t])
  BY <1>1, <1>2, <1>3, <1>4, <1>5 DEF ReaderInv, Grows, Before
<1>7. pc[t] = "hit" => Found(key[t], at[t])'
  BY <1>1, <1>2, <1>5 DEF ReaderInv, Grows, Typed, Threads
<1>8. QED
  BY <1>1, <1>2, <1>3, <1>5, <1>6, <1>7 DEF ReaderInv

(* A writer that does nothing, with a table nobody else changes.           *)
LEMMA WriterStays ==
  ASSUME NEW w, WriterInv(w), Stays(w), UNCHANGED table
  PROVE  WriterInv(w)'
<1>1. \A q : (Occupied(q)' <=> Occupied(q)) /\ EntryAt(q)' = EntryAt(q)
  BY DEF table, Occupied, EntryAt
<1>2. \A k, q : (Found(k, q)' <=> Found(k, q)) /\ (Reached(k, q)' <=> Reached(k, q))
                /\ (Absent(k)' <=> Absent(k))
  BY <1>1 DEF Found, Reached, Absent
<1>3. QED
  BY <1>1, <1>2 DEF WriterInv, Stays, table

(* A thread that is not the writer does not change the table.              *)
LEMMA TableIsTheWriters ==
  ASSUME IndexInv, NEW t \in Readers, Step(t)
  PROVE  UNCHANGED table
<1>1. pc[t] \in {"idle", "search", "hit"} /\ t \notin Writers
  BY MyHashMapAssumption DEF IndexInv, ReaderInv
<1>2. QED
  BY <1>1 DEF Step, SearchOn, SearchHit, SearchMiss, ReadOffset, Update, PutOn, PutFree,
              FetchAdd, Publish, PutKey, PutOffset, Goto, table

(* Keys that stay in their entries stay found.                             *)
LEMMA KeysStay ==
  ASSUME UNCHANGED index_offsets, \A q \in Positions : Occupied(q) => EntryAt(q)'.key = EntryAt(q).key
  PROVE  /\ \A q : Occupied(q)' <=> Occupied(q)
         /\ \A k \in Keys, q \in Positions : Found(k, q)' <=> Found(k, q)
         /\ \A k \in Keys, q \in Positions : Reached(k, q)' <=> Reached(k, q)
         /\ \A k \in Keys : Absent(k)' <=> Absent(k)
         /\ OneEntryPerKey => OneEntryPerKey'
<1>1. \A q : Occupied(q)' <=> Occupied(q)
  BY DEF Occupied
<1>2. \A k \in Keys, q \in Positions : Found(k, q)' <=> Found(k, q)
  BY <1>1 DEF Found
<1>3. \A k \in Keys, q \in Positions : Reached(k, q)' <=> Reached(k, q)
  BY <1>1 DEF Reached
<1>4. \A k \in Keys : Absent(k)' <=> Absent(k)
  BY <1>2 DEF Absent
<1>5. OneEntryPerKey => OneEntryPerKey'
  BY <1>1 DEF OneEntryPerKey
<1>6. QED
  BY <1>1, <1>2, <1>3, <1>4, <1>5

------------------------------------------------------------------------------
(* The steps of a reader                                                   *)

(* A Get begins with nothing behind it, and what Find gives then is an     *)
(* answer it may return.                                                   *)
LEMMA GetStep ==
  ASSUME IndexInv, NEW t \in Readers, NEW k \in Keys, Get(t, k), Remember
  PROVE  ReaderInv(t)' /\ UNCHANGED table
<1>1. /\ pc[t] = "idle" /\ pc'[t] = "search" /\ key'[t] = k /\ at'[t] = Hash[k]
      /\ answer'[t] = Empty /\ UNCHANGED table
  BY DEF Get, Goto, Begin, IndexInv, Typed, Threads
<1>2. Find(key[t])' \in held'[t]
  BY <1>1 DEF Remember
<1>3. Before(k, Hash[k]) = {}
  BY InOrder, MyHashMapAssumption
<1>4. \A q \in Before(key[t], at[t])' : FALSE
  BY <1>1, <1>3 DEF Before
<1>5. QED
  BY <1>1, <1>2, <1>4 DEF ReaderInv

(* A reader's step, which goes past an entry only when that has another    *)
(* key.                                                                    *)
LEMMA ReaderStep ==
  ASSUME IndexInv, NEW t \in Readers, Step(t), Remember
  PROVE  ReaderInv(t)'
<1>1. ReaderInv(t) /\ Typed /\ TableInv /\ t \notin Writers /\ t \in Threads
  BY MyHashMapAssumption DEF IndexInv, Threads
<1>2. UNCHANGED table
  BY TableIsTheWriters
<1>3. pc[t] \in {"search", "hit"} /\ key'[t] = key[t] /\ key[t] \in Keys
  BY <1>1, StepIn DEF ReaderInv
<1>4. pc'[t] # "idle" => Find(key[t])' \in held'[t]
  BY <1>3 DEF Remember
<1>5. pc'[t] # "idle" => held[t] \subseteq held'[t]
  BY <1>3 DEF Remember
<1>6. \A q : (Occupied(q)' <=> Occupied(q)) /\ EntryAt(q)' = EntryAt(q)
  BY <1>2 DEF table, Occupied, EntryAt
<1>7. CASE SearchOn(t)
  <2>1. /\ pc'[t] = "search" /\ pc[t] = "search" /\ answer'[t] = answer[t]
        /\ at[t] \in Positions /\ at'[t] = NextPosition(at[t])
        /\ Occupied(at[t]) /\ ~Found(key[t], at[t])
    BY <1>1, <1>7 DEF SearchOn, Typed, Found
  <2>2. ASSUME NEW q \in Before(key[t], at[t])'
        PROVE  Occupied(q)' /\ (Found(key[t], q)' => Empty \in held'[t])
    <3>1. q \in Before(key[t], NextPosition(at[t]))
      BY <1>3, <2>1, <2>2 DEF Before
    <3>2. q = at[t] \/ q \in Before(key[t], at[t])
      BY <1>3, <2>1, <3>1, BeforeNext
    <3>3. Found(key[t], q)' => Found(key[t], q)
      BY <1>3, <1>6 DEF Found
    <3>4. QED
      BY <1>1, <1>5, <1>6, <2>1, <3>2, <3>3 DEF ReaderInv
  <2>3. QED
    BY <1>1, <1>3, <1>4, <2>1, <2>2 DEF ReaderInv
<1>8. CASE SearchHit(t)
  <2>1. /\ pc'[t] = "hit" /\ pc[t] = "search" /\ answer'[t] = answer[t]
        /\ at'[t] = at[t] /\ Found(key[t], at[t])
    BY <1>1, <1>8 DEF SearchHit, Goto, Typed, Found
  <2>2. Found(key[t], at[t])'
    BY <1>3, <1>6, <2>1 DEF Found
  <2>3. QED
    BY <1>1, <1>3, <1>4, <2>1, <2>2 DEF ReaderInv
<1>9. CASE SearchMiss(t) \/ ReadOffset(t)
  <2>1. pc'[t] = "idle"
    BY <1>1, <1>9 DEF SearchMiss, ReadOffset, Goto, Typed
  <2>2. QED
    BY <2>1 DEF ReaderInv
<1>10. QED
  BY <1>3, <1>7, <1>8, <1>9 DEF Step, Update, PutOn, PutFree, FetchAdd, Publish, PutKey,
                               PutOffset, Goto

------------------------------------------------------------------------------
(* The steps of the writer that do not change the table                    *)

(* While the writer is not filling an entry all entries are complete, and  *)
(* stay so in a step that changes none.                                    *)
LEMMA AllFilled ==
  ASSUME IndexInv, NEW w, Writers = {w}, pc[w] \notin {"key", "offset"}
  PROVE  /\ \A p \in Positions :
              Occupied(p) => EntryAt(p).key \in Keys /\ EntryAt(p).offset \in Offsets
         /\ UNCHANGED table => Filled'
<1>1. \A p \in Positions :
        Occupied(p) => EntryAt(p).key \in Keys /\ EntryAt(p).offset \in Offsets
  BY DEF IndexInv, Filled
<1>2. UNCHANGED table => \A q : (Occupied(q)' <=> Occupied(q)) /\ EntryAt(q)' = EntryAt(q)
  BY DEF table, Occupied, EntryAt
<1>3. QED
  BY <1>1, <1>2 DEF Filled

(* A Set begins with nothing behind it and all entries complete.           *)
LEMMA SetStep ==
  ASSUME IndexInv, NEW w, Writers = {w}, NEW k \in Keys, NEW o \in Offsets, Set(w, k, o)
  PROVE  WriterInv(w)' /\ Filled' /\ UNCHANGED table
<1>1. /\ pc[w] = "idle" /\ pc'[w] = "search" /\ key'[w] = k /\ at'[w] = Hash[k]
      /\ offset'[w] = o /\ UNCHANGED table
  BY DEF Set, Goto, Begin, IndexInv, Typed, Threads
<1>2. \A q \in Before(key[w], at[w])' : FALSE
  BY <1>1, InOrder, MyHashMapAssumption DEF Before
<1>3. QED
  BY <1>1, <1>2, AllFilled DEF WriterInv

(* A search that comes to a free position knows that its key has no entry: *)
(* that entry would lie before the free position or behind it.             *)
LEMMA FreeMeansAbsent ==
  ASSUME IndexInv, NEW w \in Writers, pc[w] = "search", ~Occupied(at[w])
  PROVE  Absent(key[w])
<1>1. key[w] \in Keys /\ at[w] \in Positions
  BY DEF IndexInv, WriterInv, Typed, Threads
<1>2. SUFFICES ASSUME NEW p \in Positions, Found(key[w], p)
               PROVE  FALSE
  BY DEF Absent
<1>3. CASE p = at[w]
  BY <1>2, <1>3 DEF Found
<1>4. CASE p \in Before(key[w], at[w])
  BY <1>2, <1>4 DEF IndexInv, WriterInv
<1>5. CASE at[w] \in Before(key[w], p)
  <2>1. Reached(key[w], p)
    BY <1>1, <1>2 DEF IndexInv, TableInv
  <2>2. QED
    BY <1>5, <2>1 DEF Reached
<1>6. QED
  BY <1>1, <1>3, <1>4, <1>5, InOrder

(* The steps with which the writer looks for its key and for a free        *)
(* position.                                                               *)
LEMMA LookStep ==
  ASSUME IndexInv, NEW w, Writers = {w},
         \/ SearchOn(w) \/ SearchHit(w) \/ SearchMiss(w) \/ ReadOffset(w)
         \/ PutOn(w) \/ PutFree(w)
  PROVE  WriterInv(w)' /\ Filled' /\ UNCHANGED table
<1>1. WriterInv(w) /\ Typed /\ TableInv /\ w \in Threads /\ w \in Writers /\ w \notin Readers
  BY MyHashMapAssumption DEF IndexInv, Threads
<1>2. UNCHANGED table /\ key'[w] = key[w] /\ offset'[w] = offset[w]
  BY DEF SearchOn, SearchHit, SearchMiss, ReadOffset, PutOn, PutFree, table
<1>3. pc[w] \in {"search", "hit", "put"}
  BY DEF SearchOn, SearchHit, SearchMiss, ReadOffset, PutOn, PutFree, Goto
<1>4. Filled'
  BY <1>2, <1>3, AllFilled
<1>5. key[w] \in Keys /\ offset[w] \in Offsets /\ at[w] \in Positions /\ Hash[key[w]] \in Positions
  BY <1>1, <1>3, MyHashMapAssumption DEF WriterInv, Typed
<1>6. \A q : (Occupied(q)' <=> Occupied(q)) /\ EntryAt(q)' = EntryAt(q)
  BY <1>2 DEF table, Occupied, EntryAt
<1>7. /\ \A k, q : Found(k, q)' <=> Found(k, q)
      /\ \A k : Absent(k)' <=> Absent(k)
  BY <1>6 DEF Found, Absent
<1>8. Before(key[w], Hash[key[w]]) = {}
  BY <1>5, InOrder
<1>9. CASE SearchOn(w)
  <2>1. /\ pc'[w] = "search" /\ pc[w] = "search" /\ at'[w] = NextPosition(at[w])
        /\ Occupied(at[w]) /\ ~Found(key[w], at[w])
    BY <1>1, <1>9 DEF SearchOn, Typed, Found
  <2>2. \A q \in Before(key[w], NextPosition(at[w])) : Occupied(q) /\ ~Found(key[w], q)
    BY <1>1, <1>5, <2>1, BeforeNext DEF WriterInv
  <2>3. \A q \in Before(key[w], at[w])' : Occupied(q)' /\ ~Found(key[w], q)'
    BY <1>2, <1>6, <2>1, <2>2 DEF Before, Found
  <2>4. QED
    BY <1>2, <1>4, <1>5, <2>1, <2>3 DEF WriterInv
<1>10. CASE SearchHit(w)
  <2>1. pc'[w] = "hit" /\ at'[w] = at[w] /\ Found(key[w], at[w])
    BY <1>1, <1>10 DEF SearchHit, Goto, Typed, Found
  <2>2. Found(key[w], at[w])'
    BY <1>2, <1>6, <2>1 DEF Found
  <2>3. QED
    BY <1>2, <1>4, <1>5, <2>1, <2>2 DEF WriterInv
<1>11. CASE SearchMiss(w)
  <2>1. pc'[w] = "put" /\ pc[w] = "search" /\ at'[w] = Hash[key[w]] /\ ~Occupied(at[w])
    BY <1>1, <1>11 DEF SearchMiss, Goto, Typed
  <2>2. Absent(key[w])'
    BY <1>1, <1>2, <1>6, <2>1, FreeMeansAbsent DEF Absent, Found
  <2>3. Reached(key[w], at[w])'
    BY <1>2, <1>8, <2>1 DEF Reached, Before
  <2>4. QED
    BY <1>2, <1>4, <1>5, <2>1, <2>2, <2>3 DEF WriterInv
<1>12. CASE ReadOffset(w)
  <2>1. pc[w] = "hit" /\ Found(key[w], at[w])
    BY <1>1, <1>12 DEF ReadOffset, Goto, WriterInv
  <2>2. EntryAt(at[w]).offset # Empty
    BY <1>5, <2>1, AllFilled, MyHashMapAssumption DEF Found
  <2>3. pc'[w] = "update" /\ at'[w] = at[w]
    BY <1>1, <1>12, <2>2 DEF ReadOffset, Goto, Typed
  <2>4. Found(key[w], at[w])'
    BY <1>2, <1>6, <2>1, <2>3 DEF Found
  <2>5. QED
    BY <1>2, <1>4, <1>5, <2>3, <2>4 DEF WriterInv
<1>13. CASE PutOn(w) \/ PutFree(w)
  <2>1. pc[w] = "put" /\ Absent(key[w]) /\ Reached(key[w], at[w])
    BY <1>1, <1>13 DEF PutOn, PutFree, Goto, WriterInv
  <2>2. Absent(key[w])'
    BY <1>2, <1>6, <2>1 DEF Absent, Found
  <2>3. CASE PutOn(w)
    <3>1. pc'[w] = "put" /\ at'[w] = NextPosition(at[w]) /\ Occupied(at[w])
      BY <1>1, <2>1, <2>3 DEF PutOn, Typed
    <3>2. Reached(key[w], NextPosition(at[w]))
      BY <1>5, <2>1, <3>1, BeforeNext DEF Reached
    <3>3. Reached(key[w], at[w])'
      BY <1>2, <1>6, <3>1, <3>2 DEF Reached, Before
    <3>4. QED
      BY <1>2, <1>4, <1>5, <2>2, <3>1, <3>3 DEF WriterInv
  <2>4. CASE PutFree(w)
    <3>1. pc'[w] = "fetch_add" /\ at'[w] = at[w] /\ ~Occupied(at[w])
      BY <1>1, <2>4 DEF PutFree, Goto, Typed
    <3>2. Reached(key[w], at[w])' /\ ~Occupied(at[w])'
      BY <1>2, <1>6, <2>1, <3>1 DEF Reached, Before, Occupied
    <3>3. QED
      BY <1>2, <1>4, <1>5, <2>2, <3>1, <3>2 DEF WriterInv
  <2>5. QED
    BY <1>13, <2>3, <2>4
<1>14. QED
  BY <1>9, <1>10, <1>11, <1>12, <1>13

------------------------------------------------------------------------------
(* The steps of the writer that change the table                           *)

(* The next entry is blank, and its number is at no position yet.          *)
LEMMA FetchAddStep ==
  ASSUME IndexInv, NEW w, Writers = {w}, FetchAdd(w), Typed'
  PROVE  WriterInv(w)' /\ Filled' /\ TableInv' /\ Grows
<1>1. /\ pc[w] = "fetch_add" /\ pc'[w] = "publish" /\ key_offset_s_end < Slots
      /\ ticket'[w] = key_offset_s_end /\ key_offset_s_end' = key_offset_s_end + 1
      /\ at'[w] = at[w] /\ key'[w] = key[w] /\ offset'[w] = offset[w]
      /\ UNCHANGED <<index_offsets, key_offset_s>>
  BY DEF FetchAdd, Goto, IndexInv, Typed, Threads
<1>2. key_offset_s_end \in Nat /\ key_offset_s_end \in 0..Slots - 1 /\ Slots \in Nat
  BY <1>1, MyHashMapAssumption DEF IndexInv, Typed
<1>3. \A q : (Occupied(q)' <=> Occupied(q)) /\ EntryAt(q)' = EntryAt(q)
  BY <1>1 DEF Occupied, EntryAt
<1>4. \A k, q : (Found(k, q)' <=> Found(k, q)) /\ (Reached(k, q)' <=> Reached(k, q))
                /\ (Absent(k)' <=> Absent(k))
  BY <1>3 DEF Found, Reached, Absent
<1>5. \A p \in Positions : Occupied(p) => index_offsets[p] \in Nat /\ index_offsets[p] < key_offset_s_end
  BY DEF IndexInv, TableInv, Typed, Occupied
<1>6. TableInv'
  <2>1. \A p \in Positions : Occupied(p) => index_offsets[p] < key_offset_s_end + 1
    BY <1>2, <1>5
  <2>2. \A e \in key_offset_s_end + 1..Slots - 1 : key_offset_s[e] = Blank
    BY <1>2 DEF IndexInv, TableInv
  <2>3. \A p, q \in Positions : Occupied(p) /\ index_offsets[p] = index_offsets[q] => p = q
    BY DEF IndexInv, TableInv
  <2>4. OneEntryPerKey' /\ \A k \in Keys, p \in Positions : Found(k, p)' => Reached(k, p)'
    BY <1>3, <1>4 DEF IndexInv, TableInv, OneEntryPerKey
  <2>5. QED
    BY <1>1, <1>3, <2>1, <2>2, <2>3, <2>4 DEF TableInv
<1>7. Grows
  BY <1>3, <1>4 DEF Grows
<1>8. Filled'
  BY <1>1, <1>3, AllFilled DEF Filled
<1>9. WriterInv(w)'
  <2>1. WriterInv(w)
    BY DEF IndexInv
  <2>2. Absent(key[w])' /\ Reached(key[w], at[w])' /\ ~Occupied(at[w])'
    BY <1>1, <1>3, <1>4, <2>1 DEF WriterInv, Absent, Reached, Found, Before
  <2>3. \A p \in Positions : index_offsets[p] # key_offset_s_end
    BY <1>2, <1>5, MyHashMapAssumption DEF Occupied
  <2>4. key_offset_s[key_offset_s_end] = Blank
    BY <1>2 DEF IndexInv, TableInv
  <2>5. key_offset_s_end < key_offset_s_end + 1
    BY <1>2
  <2>6. QED
    BY <1>1, <2>1, <2>2, <2>3, <2>4, <2>5 DEF WriterInv
<1>10. QED
  BY <1>6, <1>7, <1>8, <1>9

(* The number of a blank entry comes to a free position: searches go past  *)
(* it from now on, and find no key in it.                                  *)
LEMMA PublishStep ==
  ASSUME IndexInv, NEW w, Writers = {w}, Publish(w), Typed'
  PROVE  WriterInv(w)' /\ Filled' /\ TableInv' /\ Grows
<1>0. PICK p0 \in Positions, e0 \in Nat : p0 = at[w] /\ e0 = ticket[w]
  BY DEF IndexInv, Typed, Threads
<1>1. /\ pc[w] = "publish" /\ pc'[w] = "key" /\ ticket'[w] = ticket[w]
      /\ at'[w] = at[w] /\ key'[w] = key[w] /\ offset'[w] = offset[w]
      /\ UNCHANGED <<key_offset_s, key_offset_s_end>>
  BY DEF Publish, Goto, IndexInv, Typed, Threads
<1>2. /\ e0 < key_offset_s_end
      /\ ~Occupied(p0) /\ key_offset_s[e0] = Blank
      /\ \A p \in Positions : index_offsets[p] # e0
      /\ Absent(key[w]) /\ Reached(key[w], p0) /\ key[w] \in Keys /\ offset[w] \in Offsets
  BY <1>0, <1>1 DEF IndexInv, WriterInv, Typed, Threads
<1>3. /\ index_offsets'[p0] = e0
      /\ \A q \in Positions : q # p0 => index_offsets'[q] = index_offsets[q]
  BY <1>0 DEF Publish, IndexInv, Typed
<1>4. Occupied(p0)' /\ EntryAt(p0)' = Blank
  BY <1>1, <1>2, <1>3, MyHashMapAssumption DEF Occupied, EntryAt
<1>5. \A q \in Positions : q # p0 => (Occupied(q)' <=> Occupied(q)) /\ EntryAt(q)' = EntryAt(q)
  BY <1>1, <1>3 DEF Occupied, EntryAt
<1>6. \A k \in Keys, q \in Positions : Found(k, q)' <=> Found(k, q)
  BY <1>2, <1>4, <1>5, MyHashMapAssumption DEF Found, Blank
<1>7. \A k \in Keys, q \in Positions : Reached(k, q) => Reached(k, q)'
  BY <1>4, <1>5 DEF Reached, Before
<1>8. TableInv'
  <2>1. \A p \in Positions : Occupied(p)' => index_offsets'[p] < key_offset_s_end'
    BY <1>1, <1>2, <1>3, <1>5 DEF IndexInv, TableInv
  <2>2. \A p, q \in Positions : Occupied(p)' /\ index_offsets'[p] = index_offsets'[q] => p = q
    BY <1>2, <1>3, <1>5 DEF IndexInv, TableInv
  <2>3. \A e \in key_offset_s_end'..Slots - 1 : key_offset_s'[e] = Blank
    BY <1>1 DEF IndexInv, TableInv
  <2>4. \A k \in Keys, p \in Positions : Found(k, p)' => Reached(k, p)'
    BY <1>6, <1>7 DEF IndexInv, TableInv
  <2>5. OneEntryPerKey'
    BY <1>4, <1>5 DEF IndexInv, TableInv, OneEntryPerKey, Blank
  <2>6. QED
    BY <2>1, <2>2, <2>3, <2>4, <2>5 DEF TableInv
<1>9. Grows
  BY <1>2, <1>4, <1>5, <1>6 DEF Grows, Found
<1>10. Filled'
  BY <1>0, <1>1, <1>5, AllFilled DEF Filled
<1>11. WriterInv(w)'
  <2>1. Absent(key[w])'
    BY <1>1, <1>2, <1>6 DEF Absent
  <2>2. Reached(key[w], at[w])'
    BY <1>0, <1>1, <1>2, <1>7 DEF Reached, Before
  <2>3. QED
    BY <1>0, <1>1, <1>2, <1>3, <2>1, <2>2 DEF WriterInv
<1>12. QED
  BY <1>8, <1>9, <1>10, <1>11

(* The key comes into the blank entry: from this step on it has an entry,  *)
(* where a search for it comes to, and it had none before.                 *)
LEMMA PutKeyStep ==
  ASSUME IndexInv, NEW w, Writers = {w}, PutKey(w), Typed'
  PROVE  WriterInv(w)' /\ Filled' /\ TableInv' /\ Grows
<1>1. PICK p0 \in Positions, e0 \in 0..Slots - 1 : p0 = at[w] /\ e0 = ticket[w]
  <2>1. ticket[w] < key_offset_s_end /\ at[w] \in Positions
    BY DEF PutKey, Goto, IndexInv, WriterInv, Typed, Threads
  <2>2. QED
    BY <2>1, MyHashMapAssumption DEF IndexInv, Typed, Threads
<1>2. /\ pc[w] = "key" /\ pc'[w] = "offset" /\ ticket'[w] = ticket[w]
      /\ at'[w] = at[w] /\ key'[w] = key[w] /\ offset'[w] = offset[w]
      /\ UNCHANGED <<index_offsets, key_offset_s_end>>
  BY DEF PutKey, Goto, IndexInv, Typed, Threads
<1>3. /\ e0 < key_offset_s_end /\ index_offsets[p0] = e0 /\ key_offset_s[e0] = Blank
      /\ Absent(key[w]) /\ Reached(key[w], p0) /\ key[w] \in Keys /\ offset[w] \in Offsets
  BY <1>1, <1>2 DEF IndexInv, WriterInv
<1>4. key_offset_s' = [key_offset_s EXCEPT ![e0].key = key[w]]
  BY <1>1, <1>3 DEF PutKey, Entries
<1>5. /\ key_offset_s'[e0] = [key |-> key[w], offset |-> Empty]
      /\ \A e \in 0..Slots - 1 : e # e0 => key_offset_s'[e] = key_offset_s[e]
  BY <1>1, <1>3, <1>4 DEF Blank, IndexInv, Typed, Tables
<1>6. \A q \in Positions : Occupied(q)' <=> Occupied(q)
  BY <1>2 DEF Occupied
<1>7. Occupied(p0) /\ EntryAt(p0)' = [key |-> key[w], offset |-> Empty]
  BY <1>1, <1>2, <1>3, <1>5, MyHashMapAssumption DEF Occupied, EntryAt
<1>8. \A q \in Positions : q # p0 /\ Occupied(q) => EntryAt(q)' = EntryAt(q)
  <2>1. \A q \in Positions : q # p0 /\ Occupied(q) =>
          index_offsets[q] \in 0..Slots - 1 /\ index_offsets[q] # e0
    BY <1>3, <1>7 DEF IndexInv, Typed, TableInv, Occupied
  <2>2. QED
    BY <1>2, <1>5, <2>1 DEF EntryAt
<1>9. \A q \in Positions, k \in Keys : Found(k, q)' <=> (Found(k, q) \/ (q = p0 /\ k = key[w]))
  <2>1. ~Found(key[w], p0) /\ EntryAt(p0).key = NoKey
    BY <1>3 DEF Absent, EntryAt, Blank
  <2>2. QED
    BY <1>6, <1>7, <1>8, <2>1, MyHashMapAssumption DEF Found
<1>10. \A k \in Keys, q \in Positions : Reached(k, q)' <=> Reached(k, q)
  BY <1>6 DEF Reached, Before
<1>11. TableInv'
  <2>1. \A e \in key_offset_s_end..Slots - 1 : key_offset_s'[e] = Blank
    <3>1. key_offset_s_end \in Nat /\ e0 \in Nat /\ Slots \in Nat
      BY MyHashMapAssumption DEF IndexInv, Typed
    <3>2. \A e \in key_offset_s_end..Slots - 1 : e \in 0..Slots - 1 /\ e # e0
      BY <1>3, <3>1
    <3>3. QED
      BY <1>5, <3>2 DEF IndexInv, TableInv
  <2>2. \A k \in Keys, p \in Positions : Found(k, p)' => Reached(k, p)'
    BY <1>3, <1>9, <1>10 DEF IndexInv, TableInv
  <2>3. ASSUME NEW p \in Positions, NEW q \in Positions, p # q, Occupied(p)', Occupied(q)',
               EntryAt(p)'.key = EntryAt(q)'.key
        PROVE  EntryAt(p)'.key = NoKey
    <3>1. \A r \in Positions : Occupied(r) => EntryAt(r).key # key[w]
      BY <1>3 DEF Absent, Found
    <3>2. p # p0 /\ q # p0
      BY <1>6, <1>7, <1>8, <2>3, <3>1
    <3>3. QED
      BY <1>6, <1>8, <2>3, <3>2 DEF IndexInv, TableInv, OneEntryPerKey
  <2>4. OneEntryPerKey'
    BY <2>3 DEF OneEntryPerKey
  <2>5. QED
    BY <1>2, <1>6, <2>1, <2>2, <2>4 DEF IndexInv, TableInv
<1>12. Grows
  <2>1. \A q \in Positions, k \in Keys : Found(k, q)' => Found(k, q) \/ Absent(k)
    BY <1>3, <1>9
  <2>2. \A q \in Positions, k \in Keys : Found(k, q) => Found(k, q)'
    BY <1>9
  <2>3. \A q \in Positions, k \in Keys : Found(k, q) => EntryAt(q)' = EntryAt(q)
    <3>1. EntryAt(p0).key = NoKey
      BY <1>3 DEF EntryAt, Blank
    <3>2. QED
      BY <1>8, <3>1, MyHashMapAssumption DEF Found
  <2>4. QED
    BY <1>6, <2>1, <2>2, <2>3 DEF Grows
<1>13. Filled'
  BY <1>1, <1>2, <1>6, <1>8 DEF Filled, IndexInv
<1>14. WriterInv(w)'
  BY <1>1, <1>2, <1>3, <1>5 DEF WriterInv
<1>15. QED
  BY <1>11, <1>12, <1>13, <1>14

(* Storing an offset in the entry of the writer's key, with which its call *)
(* ends.                                                                   *)
LEMMA LastStep ==
  ASSUME IndexInv, NEW w, Writers = {w}, PutOffset(w) \/ Update(w), Typed'
  PROVE  /\ WriterInv(w)' /\ Filled' /\ TableInv' /\ Grows
         /\ Find(key[w])' = offset[w]
<1>1. PICK p0 \in Positions : p0 = at[w]
  BY DEF IndexInv, Typed, Threads
<1>2. /\ pc[w] \in {"offset", "update"} /\ pc'[w] = "idle" /\ key'[w] = key[w]
      /\ UNCHANGED <<index_offsets, key_offset_s_end>>
  BY DEF PutOffset, Update, Goto, IndexInv, Typed, Threads
<1>3. key[w] \in Keys /\ offset[w] \in Offsets
  BY <1>2 DEF IndexInv, WriterInv
<1>4. PICK e0 \in 0..Slots - 1 : /\ e0 = index_offsets[p0] /\ e0 < key_offset_s_end
                                /\ key_offset_s' = [key_offset_s EXCEPT ![e0].offset = offset[w]]
                                /\ Found(key[w], p0)
  <2>1. CASE PutOffset(w)
    <3>1. /\ ticket[w] < key_offset_s_end /\ index_offsets[p0] = ticket[w]
          /\ key_offset_s[ticket[w]] = [key |-> key[w], offset |-> Empty]
      BY <1>1, <2>1 DEF PutOffset, Goto, IndexInv, WriterInv
    <3>2. ticket[w] \in 0..Slots - 1 /\ ticket[w] # Empty
      BY <3>1, MyHashMapAssumption DEF IndexInv, Typed, Threads
    <3>3. key_offset_s' = [key_offset_s EXCEPT ![ticket[w]].offset = offset[w]]
      BY <1>1, <2>1, <3>1 DEF PutOffset, Entries
    <3>4. Found(key[w], p0)
      BY <3>1, <3>2 DEF Found, Occupied, EntryAt
    <3>5. QED
      BY <3>1, <3>2, <3>3, <3>4
  <2>2. CASE Update(w)
    <3>1. Found(key[w], p0)
      BY <1>1, <2>2 DEF Update, Goto, IndexInv, WriterInv
    <3>2. index_offsets[p0] \in 0..Slots - 1 /\ index_offsets[p0] < key_offset_s_end
      BY <3>1 DEF IndexInv, Typed, TableInv, Found, Occupied
    <3>3. QED
      BY <1>1, <2>2, <3>1, <3>2 DEF Update
  <2>3. QED
    BY <2>1, <2>2
<1>5. /\ key_offset_s'[e0].key = key_offset_s[e0].key /\ key_offset_s'[e0].offset = offset[w]
      /\ \A e \in 0..Slots - 1 : e # e0 => key_offset_s'[e] = key_offset_s[e]
  BY <1>4 DEF IndexInv, Typed, Tables
<1>6. /\ EntryAt(p0)'.key = EntryAt(p0).key /\ EntryAt(p0)'.offset = offset[w]
      /\ EntryAt(p0).key = key[w]
  BY <1>2, <1>4, <1>5 DEF EntryAt, Found
<1>7. \A q \in Positions : q # p0 /\ Occupied(q) => EntryAt(q)' = EntryAt(q)
  <2>1. \A q \in Positions : q # p0 /\ Occupied(q) =>
          index_offsets[q] \in 0..Slots - 1 /\ index_offsets[q] # e0
    BY <1>4 DEF IndexInv, Typed, TableInv, Occupied
  <2>2. QED
    BY <1>2, <1>5, <2>1 DEF EntryAt
<1>8. /\ \A q : Occupied(q)' <=> Occupied(q)
      /\ \A k \in Keys, q \in Positions : Found(k, q)' <=> Found(k, q)
      /\ \A k \in Keys, q \in Positions : Reached(k, q)' <=> Reached(k, q)
      /\ OneEntryPerKey => OneEntryPerKey'
  BY <1>2, <1>6, <1>7, KeysStay
<1>9. TableInv'
  <2>1. \A e \in key_offset_s_end..Slots - 1 : key_offset_s'[e] = Blank
    BY <1>4, <1>5, MyHashMapAssumption DEF IndexInv, TableInv, Typed
  <2>2. QED
    BY <1>2, <1>8, <2>1 DEF IndexInv, TableInv
<1>10. Grows
  <2>1. \A q \in Positions, k \in Keys : Found(k, q) =>
          \/ EntryAt(q)'.offset = EntryAt(q).offset
          \/ \E t \in Writers : key[t] = k /\ EntryAt(q)'.offset = offset[t]
    BY <1>6, <1>7 DEF Found
  <2>2. QED
    BY <1>8, <2>1 DEF Grows
<1>11. Filled'
  BY <1>1, <1>2, <1>3, <1>6, <1>7, <1>8 DEF Filled, IndexInv
<1>12. WriterInv(w)'
  BY <1>2 DEF WriterInv
<1>13. Find(key[w])' = offset[w]
  <2>1. Found(key[w], p0)'
    BY <1>2, <1>3, <1>4, <1>8 DEF Found
  <2>2. QED
    BY <1>2, <1>3, <1>6, <1>9, <2>1, FindNext
<1>14. QED
  BY <1>9, <1>10, <1>11, <1>12, <1>13

------------------------------------------------------------------------------
(* Every step                                                              *)

(* Every step of the writer.                                               *)
LEMMA WriterStep ==
  ASSUME IndexInv, NEW w, Writers = {w}, Step(w), Typed'
  PROVE  WriterInv(w)' /\ Filled' /\ TableInv' /\ Grows
<1>1. CASE \/ SearchOn(w) \/ SearchHit(w) \/ SearchMiss(w) \/ ReadOffset(w)
           \/ PutOn(w) \/ PutFree(w)
  BY <1>1, LookStep, SameTable DEF IndexInv
<1>2. CASE FetchAdd(w)
  BY <1>2, FetchAddStep
<1>3. CASE Publish(w)
  BY <1>3, PublishStep
<1>4. CASE PutKey(w)
  BY <1>4, PutKeyStep
<1>5. CASE PutOffset(w) \/ Update(w)
  BY <1>5, LastStep
<1>6. QED
  BY <1>1, <1>2, <1>3, <1>4, <1>5 DEF Step

(* What a step of a reader means for the others.                           *)
LEMMA ReaderMoves ==
  ASSUME IndexInv, NEW w, Writers = {w}, NEW t \in Readers,
         Step(t) \/ \E k \in Keys : Get(t, k),
         Remember, Typed'
  PROVE  IndexInv' /\ UNCHANGED table
<1>1. UNCHANGED table
  BY TableIsTheWriters, GetStep
<1>2. TableInv' /\ Grows
  BY <1>1, SameTable DEF IndexInv
<1>3. w \in Threads /\ t \in Threads /\ t # w
  BY MyHashMapAssumption DEF Threads
<1>4. Stays(w)
  BY <1>3, OneMoves DEF IndexInv
<1>5. WriterInv(w)'
  BY <1>1, <1>4, WriterStays DEF IndexInv
<1>6. Filled'
  <2>1. \A q : (Occupied(q)' <=> Occupied(q)) /\ EntryAt(q)' = EntryAt(q)
    BY <1>1 DEF table, Occupied, EntryAt
  <2>2. QED
    BY <1>4, <2>1 DEF IndexInv, Filled, Stays
<1>7. ASSUME NEW s \in Readers
      PROVE  ReaderInv(s)'
  <2>1. CASE s = t
    BY <2>1, ReaderStep, GetStep
  <2>2. CASE s # t
    <3>1. Stays(s)
      BY <1>3, <2>2, OneMoves DEF IndexInv, Threads
    <3>2. QED
      BY <1>2, <3>1, ReaderStays
  <2>3. QED
    BY <2>1, <2>2
<1>8. QED
  BY <1>1, <1>2, <1>5, <1>6, <1>7 DEF IndexInv

(* What a step of the writer means for the readers.                        *)
LEMMA WriterMoves ==
  ASSUME IndexInv, NEW w, Writers = {w},
         Step(w) \/ \E k \in Keys, o \in Offsets : Set(w, k, o),
         Remember, Typed'
  PROVE  IndexInv' /\ Grows
<1>1. WriterInv(w)' /\ Filled' /\ TableInv' /\ Grows
  BY WriterStep, SetStep, SameTable DEF IndexInv
<1>2. ASSUME NEW s \in Readers
      PROVE  ReaderInv(s)'
  <2>1. w \in Threads /\ s \in Threads /\ s # w
    BY MyHashMapAssumption DEF Threads
  <2>2. Stays(s)
    BY <2>1, OneMoves DEF IndexInv
  <2>3. QED
    BY <1>1, <2>2, ReaderStays
<1>3. QED
  BY <1>1, <1>2 DEF IndexInv

(* The invariant is inductive when one thread writes.                      *)
LEMMA IndexInvNext ==
  ASSUME OneWriter, IndexInv, [Next]_vars
  PROVE  IndexInv' /\ Grows
<1>1. PICK w : Writers = {w}
  BY DEF OneWriter
<1>2. Typed'
  BY TypedNext
<1>3. CASE UNCHANGED vars
  <2>1. TableInv' /\ Grows
    BY <1>3, SameTable DEF vars, IndexInv
  <2>2. UNCHANGED table /\ (\A q : (Occupied(q)' <=> Occupied(q)) /\ EntryAt(q)' = EntryAt(q))
    BY <1>3 DEF vars, table, Occupied, EntryAt
  <2>3. Filled'
    BY <1>3, <2>2 DEF vars, locals, IndexInv, Filled
  <2>4. ASSUME NEW t \in Writers
        PROVE  WriterInv(t)'
    BY <1>3, <2>2, WriterStays DEF vars, locals, IndexInv, Stays
  <2>5. \A k \in Keys : Find(k)' = Find(k)
    BY <1>2, <2>1, <2>2, FindHit, FindMiss, FindNext DEF IndexInv, Absent, Found
  <2>6. ASSUME NEW t \in Readers
        PROVE  ReaderInv(t)'
    <3>1. /\ pc'[t] = pc[t] /\ key'[t] = key[t] /\ at'[t] = at[t] /\ answer'[t] = answer[t]
          /\ held'[t] = held[t]
      BY <1>3 DEF vars, locals
    <3>2. ReaderInv(t)
      BY DEF IndexInv
    <3>3. pc[t] # "idle" => Find(key[t])' = Find(key[t])
      BY <2>5, <3>1, <3>2 DEF ReaderInv
    <3>4. \A q : Found(key[t], q)' <=> Found(key[t], q)
      BY <2>2, <3>1 DEF Found
    <3>5. pc[t] = "hit" => Found(key[t], at[t])'
      BY <2>2, <3>1, <3>2 DEF Found, ReaderInv
    <3>6. Before(key[t], at[t])' = Before(key[t], at[t])
      BY <3>1 DEF Before
    <3>7. QED
      BY <2>2, <3>1, <3>2, <3>3, <3>4, <3>5, <3>6 DEF ReaderInv
  <2>7. QED
    BY <1>2, <2>1, <2>3, <2>4, <2>6 DEF IndexInv
<1>4. CASE Next
  <2>1. Remember
    BY <1>4 DEF Next
  <2>2. CASE \E t \in Threads : Step(t)
    BY <1>1, <1>2, <2>1, <2>2, ReaderMoves, WriterMoves, SameTable DEF Threads, IndexInv
  <2>3. CASE Call
    BY <1>1, <1>2, <2>1, <2>3, ReaderMoves, WriterMoves, SameTable DEF Call, IndexInv
  <2>4. QED
    BY <1>4, <2>2, <2>3 DEF Next
<1>5. QED
  BY <1>3, <1>4

(* So it holds in every behaviour.                                         *)
LEMMA SpecIndexInv ==
  ASSUME OneWriter
  PROVE  Spec => []IndexInv
<1>1. Init => IndexInv
  BY InitInv
<1>2. IndexInv /\ [Next]_vars => IndexInv'
  BY IndexInvNext
<1>3. QED
  BY <1>1, <1>2, PTL DEF Spec

------------------------------------------------------------------------------
(* Theorems                                                                *)

(* No two entries have the same key, for any number of keys, readers,      *)
(* positions and entries.                                                  *)
THEOREM OneEntryPerKeyAlways ==
  ASSUME OneWriter
  PROVE  Spec => []OneEntryPerKey
<1>1. IndexInv => OneEntryPerKey
  BY DEF IndexInv, TableInv
<1>2. QED
  BY <1>1, SpecIndexInv, PTL

(* When Set returns its key is found, with the offset of its record.       *)
THEOREM SetTakesHoldAlways ==
  ASSUME OneWriter
  PROVE  Spec => SetTakesHold
<1> DEFINE TakesHold(t) == pc[t] # "idle" /\ pc'[t] = "idle" => Find(key[t])' = offset[t]
<1>1. ASSUME IndexInv, [Next]_vars, NEW t \in Writers, pc[t] # "idle", pc'[t] = "idle"
      PROVE  Find(key[t])' = offset[t]
  <2>1. Writers = {t} /\ t \in Threads
    BY <1>1 DEF OneWriter, Threads
  <2>2. Typed' /\ Typed
    BY <1>1, TypedNext DEF IndexInv
  <2>3. CASE Step(t)
    <3>1. PutOffset(t) \/ Update(t)
      BY <1>1, <2>1, <2>2, <2>3, MyHashMapAssumption
         DEF Step, SearchOn, SearchHit, SearchMiss, ReadOffset, PutOn, PutFree, FetchAdd,
             Publish, PutKey, Goto, Typed
    <3>2. QED
      BY <1>1, <2>1, <2>2, <3>1, LastStep
  <2>4. CASE ~Step(t)
    <3>1. ASSUME UNCHANGED vars
          PROVE  Stays(t)
      BY <3>1 DEF vars, locals, Stays
    <3>2. ASSUME NEW s \in Threads, s # t,
                 Step(s) \/ \E k \in Keys : Get(s, k)
          PROVE  Stays(t)
      BY <2>1, <2>2, <3>2, OneMoves
    <3>3. ASSUME NEW k \in Keys, NEW o \in Offsets, Set(t, k, o)
          PROVE  FALSE
      BY <1>1, <3>3 DEF Set, Goto
    <3>4. Stays(t)
      BY <1>1, <2>1, <2>4, <3>1, <3>2, <3>3, MyHashMapAssumption DEF Next, Call, Threads
    <3>5. QED
      BY <1>1, <3>4 DEF Stays
  <2>5. QED
    BY <2>3, <2>4
<1>2. IndexInv /\ [Next]_vars => [\A t \in Writers : TakesHold(t)]_vars
  BY <1>1
<1>3. QED
  BY <1>2, SpecIndexInv, PTL DEF Spec, SetTakesHold

(* A key that is found stays found, with the offset it had or the one that *)
(* a Set of this very key stores.                                          *)
THEOREM NothingForgottenAlways ==
  ASSUME OneWriter
  PROVE  Spec => NothingForgotten
<1> DEFINE Kept(k) == Find(k) # Empty =>
             Find(k)' = Find(k) \/ \E t \in Writers : key[t] = k /\ Find(k)' = offset[t]
<1>1. ASSUME IndexInv, [Next]_vars, NEW k \in Keys, Find(k) # Empty
      PROVE  Find(k)' = Find(k) \/ \E t \in Writers : key[t] = k /\ Find(k)' = offset[t]
  <2>1. IndexInv' /\ Grows
    BY <1>1, IndexInvNext
  <2>2. PICK p \in Positions : Found(k, p)
    BY <1>1, FindMiss DEF IndexInv, Absent
  <2>3. Find(k) = EntryAt(p).offset
    BY <1>1, <2>2, FindHit DEF IndexInv
  <2>4. Find(k)' = EntryAt(p)'.offset
    BY <2>1, <2>2, FindNext DEF IndexInv, Grows
  <2>5. QED
    BY <2>1, <2>2, <2>3, <2>4 DEF Grows
<1>2. IndexInv /\ [Next]_vars => [\A k \in Keys : Kept(k)]_vars
  BY <1>1
<1>3. QED
  BY <1>2, SpecIndexInv, PTL DEF Spec, NothingForgotten

(* Get answers what its key's entry held at some time between its call and *)
(* its return, though it reads the entry while the writer fills it.        *)
THEOREM GetIsCurrentAlways ==
  ASSUME OneWriter
  PROVE  Spec => GetIsCurrent
<1> DEFINE Current(t) == pc[t] # "idle" /\ pc'[t] = "idle" => answer'[t] \in held[t]
<1>1. ASSUME IndexInv, [Next]_vars, NEW t \in Readers, pc[t] # "idle", pc'[t] = "idle"
      PROVE  answer'[t] \in held[t]
  <2>1. ReaderInv(t) /\ Typed /\ TableInv /\ t \in Threads /\ t \notin Writers
    BY <1>1, MyHashMapAssumption DEF IndexInv, Threads
  <2>2. Step(t)
    BY <1>1, <2>1, OneMoves DEF Next, Call, Threads, Stays, vars, locals, Get, Goto
  <2>3. CASE SearchMiss(t)
    <3>1. answer'[t] = Empty /\ pc[t] = "search" /\ ~Occupied(at[t])
      BY <1>1, <2>1, <2>3 DEF SearchMiss, Goto, ReaderInv
    <3>2. key[t] \in Keys /\ at[t] \in Positions
      BY <2>1, <3>1 DEF ReaderInv, Typed
    <3>3. CASE Absent(key[t])
      BY <2>1, <3>1, <3>2, <3>3, FindMiss DEF ReaderInv
    <3>4. CASE ~Absent(key[t])
      <4>1. PICK p \in Positions : Found(key[t], p)
        BY <3>4 DEF Absent
      <4>2. p # at[t] /\ at[t] \notin Before(key[t], p)
        BY <2>1, <3>1, <3>2, <4>1 DEF Found, TableInv, Reached
      <4>3. p \in Before(key[t], at[t])
        BY <3>2, <4>2, InOrder
      <4>4. QED
        BY <2>1, <3>1, <4>1, <4>3 DEF ReaderInv
    <3>5. QED
      BY <3>3, <3>4
  <2>4. CASE ReadOffset(t)
    <3>1. Found(key[t], at[t]) /\ key[t] \in Keys /\ at[t] \in Positions
      BY <2>1, <2>4 DEF ReadOffset, Goto, ReaderInv, Typed
    <3>2. answer'[t] = EntryAt(at[t]).offset
      BY <2>1, <2>4 DEF ReadOffset, Typed
    <3>3. QED
      BY <1>1, <2>1, <3>1, <3>2, FindHit DEF ReaderInv
  <2>5. QED
    BY <1>1, <2>1, <2>2, <2>3, <2>4
       DEF Step, SearchOn, SearchHit, Update, PutOn, PutFree, FetchAdd, Publish, PutKey,
           PutOffset, Goto, ReaderInv, Typed
<1>2. IndexInv /\ [Next]_vars => [\A t \in Readers : Current(t)]_vars
  BY <1>1
<1>3. QED
  BY <1>2, SpecIndexInv, PTL DEF Spec, GetIsCurrent
==============================================================================
