--------------------------- MODULE FreeSpaceProofs ---------------------------
(***************************************************************************)
(* Proofs about FreeSpace, for any number of threads, lists and items.     *)
(***************************************************************************)
EXTENDS FreeSpace, TLAPS, FiniteSetTheorems, SequenceTheorems

(* What top() and pop() do to a stack that is not empty. *)
LEMMA PopLemma ==
  ASSUME NEW S, NEW s \in Seq(S), s # << >>
  PROVE  /\ Len(s) \in Nat \ {0}
         /\ s[Len(s)] \in S
         /\ SubSeq(s, 1, Len(s) - 1) \in Seq(S)
         /\ Len(SubSeq(s, 1, Len(s) - 1)) = Len(s) - 1
         /\ \A n \in 1..Len(s) - 1 : SubSeq(s, 1, Len(s) - 1)[n] = s[n]
<1>1. Len(s) \in Nat \ {0}
  BY EmptySeq
<1>2. \A n \in 1..Len(s) : s[n] \in S
  BY ElementOfSeq
<1>3. \A n \in 1..Len(s) - 1 : s[n] \in S
  BY <1>1, <1>2
<1> DEFINE m == Len(s) - 1
<1>4. m \in Nat /\ \A n \in 1..m : s[n] \in S
  BY <1>1, <1>3
<1> HIDE DEF m
<1>5. /\ SubSeq(s, 1, m) \in Seq(S)
      /\ Len(SubSeq(s, 1, m)) = IF 1 <= m THEN m - 1 + 1 ELSE 0
      /\ \A n \in 1..m - 1 + 1 : SubSeq(s, 1, m)[n] = s[1 + n - 1]
  BY <1>4, SubSeqProperties
<1>6. /\ SubSeq(s, 1, m) \in Seq(S)
      /\ Len(SubSeq(s, 1, m)) = m
      /\ \A n \in 1..m : SubSeq(s, 1, m)[n] = s[n]
  BY <1>4, <1>5
<1>7. QED
  BY <1>1, <1>2, <1>6 DEF m

(* What push() does to a stack. *)
LEMMA PushLemma ==
  ASSUME NEW S, NEW s \in Seq(S), NEW e \in S
  PROVE  /\ Len(s) \in Nat
         /\ Append(s, e) \in Seq(S)
         /\ Len(Append(s, e)) = Len(s) + 1
         /\ \A n \in 1..Len(s) : Append(s, e)[n] = s[n]
         /\ Append(s, e)[Len(s) + 1] = e
  BY AppendProperties, LenProperties

------------------------------------------------------------------------------
(* Types *)

(* The variables have their types at first.                                *)
LEMMA TypeInit == Init => TypeOK
  BY FreeSpaceAssumption, EmptySeq
     DEF Init, TypeOK, Chunks, PCs, Holding, NoItem

(* The steps of a Set keep every variable in its type.                     *)
LEMMA TypeStep == TypeOK /\ [Next]_vars => TypeOK'
<1> SUFFICES ASSUME TypeOK, [Next]_vars
             PROVE  TypeOK'
  OBVIOUS
<1> USE FreeSpaceAssumption DEF TypeOK, Holding, PCs, Goto
<1>1. ASSUME NEW t \in Threads, NEW i \in Chunks, NEW o \in live \cup {NoItem},
             BeginSet(t, i, o)
      PROVE  TypeOK'
  BY <1>1 DEF BeginSet, Chunks
<1>2. ASSUME NEW t \in Threads, SeeSpare(t)
      PROVE  TypeOK'
  BY <1>2 DEF SeeSpare, InSearch, Chunks
<1>3. ASSUME NEW t \in Threads, SeeNone(t)
      PROVE  TypeOK'
  BY <1>3 DEF SeeNone
<1>4. ASSUME NEW t \in Threads, SearchEnds(t)
      PROVE  TypeOK'
  BY <1>4 DEF SearchEnds
<1>5. ASSUME NEW t \in Threads, Lock(t)
      PROVE  TypeOK'
  BY <1>5 DEF Lock, Acquire
<1>6. ASSUME NEW t \in Threads, Pop(t)
      PROVE  TypeOK'
  <2> DEFINE s == free_space[at[t]]
  <2>1. s \in Seq(Items) /\ s # << >>
    BY <1>6 DEF Pop
  <2>2. s[Len(s)] \in Items /\ SubSeq(s, 1, Len(s) - 1) \in Seq(Items)
    BY <2>1, PopLemma
  <2>3. NoItem \notin Items
    BY DEF NoItem, Items
  <2>4. QED
    BY <1>6, <2>2, <2>3 DEF Pop
<1>7. ASSUME NEW t \in Threads, Unlock(t)
      PROVE  TypeOK'
  BY <1>7 DEF Unlock, Release
<1>8. ASSUME NEW t \in Threads, Extend(t)
      PROVE  TypeOK'
  <2>1. <<idx[t], items>> \in Items /\ <<idx[t], items>> # NoItem
    BY DEF Items, NoItem
  <2>2. QED
    BY <1>8, <2>1 DEF Extend
<1>9. ASSUME NEW t \in Threads, Write(t)
      PROVE  TypeOK'
  BY <1>9 DEF Write
<1>10. ASSUME NEW t \in Threads, SeeRoom(t)
       PROVE  TypeOK'
  <2>1. ChunkOf(old[t]) \in Chunks
    BY <1>10 DEF SeeRoom, ChunkOf, Items
  <2>2. QED
    BY <1>10, <2>1 DEF SeeRoom, Chunks
<1>11. ASSUME NEW t \in Threads, Drop(t)
       PROVE  TypeOK'
  BY <1>11 DEF Drop
<1>12. ASSUME NEW t \in Threads, RecycleLock(t)
       PROVE  TypeOK'
  BY <1>12 DEF RecycleLock, Acquire
<1>13. ASSUME NEW t \in Threads, Push(t)
       PROVE  TypeOK'
  <2>1. at[t] \in Chunks /\ old[t] \in Items
    BY <1>13 DEF Push
  <2>2. Append(free_space[at[t]], old[t]) \in Seq(Items)
    BY <2>1, PushLemma
  <2>3. QED
    BY <1>13, <2>1, <2>2 DEF Push
<1>14. ASSUME NEW t \in Threads, RecycleUnlock(t)
       PROVE  TypeOK'
  BY <1>14 DEF RecycleUnlock, Release
<1>15. CASE UNCHANGED vars
  BY <1>15 DEF vars
<1>16. QED
  BY <1>1, <1>2, <1>3, <1>4, <1>5, <1>6, <1>7, <1>8, <1>9, <1>10, <1>11, <1>12,
     <1>13, <1>14, <1>15 DEF Next, Step

(* Every variable keeps its type, whatever the threads do.                 *)
THEOREM TypeCorrect == Spec => []TypeOK
<1>1. QED
  BY TypeInit, TypeStep, PTL DEF Spec

------------------------------------------------------------------------------
(* Locks *)

(* The spinlock of a list is held by the one thread inside the list.       *)
LEMMA LocksStep == TypeOK /\ LocksGuard /\ [Next]_vars => LocksGuard'
<1> SUFFICES ASSUME TypeOK, LocksGuard, [Next]_vars
             PROVE  LocksGuard'
  OBVIOUS
<1> USE FreeSpaceAssumption DEF TypeOK, LocksGuard, Holding, Goto
<1>1. ASSUME NEW t \in Threads, Lock(t) \/ RecycleLock(t)
      PROVE  LocksGuard'
  <2>1. /\ at[t] \in Chunks /\ at' = at
        /\ free_space_spls[at[t]] = None
        /\ free_space_spls' = [free_space_spls EXCEPT ![at[t]] = t]
        /\ pc[t] \notin Holding
        /\ \E p \in Holding : pc' = [pc EXCEPT ![t] = p]
    BY <1>1 DEF Lock, RecycleLock, Acquire
  <2>2. ASSUME NEW c \in Chunks, NEW u \in Threads
        PROVE  free_space_spls'[c] = u <=> pc'[u] \in Holding /\ at'[u] = c
    <3>1. CASE u = t
      BY <2>1, <3>1
    <3>2. CASE u # t
      BY <2>1, <3>2
    <3>3. QED
      BY <3>1, <3>2
  <2>3. QED
    BY <2>2
<1>2. ASSUME NEW t \in Threads, Unlock(t) \/ RecycleUnlock(t)
      PROVE  LocksGuard'
  <2>1. /\ at[t] \in Chunks /\ at' = at
        /\ free_space_spls[at[t]] = t
        /\ free_space_spls' = [free_space_spls EXCEPT ![at[t]] = None]
        /\ \E p \in PCs \ Holding : pc' = [pc EXCEPT ![t] = p]
    BY <1>2 DEF Unlock, RecycleUnlock, Release, PCs
  <2>2. ASSUME NEW c \in Chunks, NEW u \in Threads
        PROVE  free_space_spls'[c] = u <=> pc'[u] \in Holding /\ at'[u] = c
    <3>1. CASE u = t
      BY <2>1, <3>1
    <3>2. CASE u # t
      BY <2>1, <3>2
    <3>3. QED
      BY <3>1, <3>2
  <2>3. QED
    BY <2>2
<1>3. ASSUME NEW t \in Threads, Pop(t) \/ Push(t)
      PROVE  LocksGuard'
  BY <1>3 DEF Pop, Push
<1>4. ASSUME NEW t \in Threads, SeeSpare(t) \/ SeeNone(t) \/ SearchEnds(t)
      PROVE  LocksGuard'
  BY <1>4 DEF SeeSpare, SeeNone, SearchEnds
<1>5. ASSUME NEW t \in Threads, Extend(t) \/ Write(t)
      PROVE  LocksGuard'
  BY <1>5 DEF Extend, Write
<1>6. ASSUME NEW t \in Threads, SeeRoom(t) \/ Drop(t)
      PROVE  LocksGuard'
  <2>1. /\ UNCHANGED free_space_spls
        /\ pc[t] \notin Holding /\ pc'[t] \notin Holding
        /\ \A u \in Threads \ {t} : pc'[u] = pc[u] /\ at'[u] = at[u]
    BY <1>6 DEF SeeRoom, Drop
  <2>2. QED
    BY <2>1
<1>7. ASSUME NEW t \in Threads, NEW i \in Chunks, NEW o \in live \cup {NoItem},
             BeginSet(t, i, o)
      PROVE  LocksGuard'
  BY <1>7 DEF BeginSet
<1>8. CASE UNCHANGED vars
  BY <1>8 DEF vars
<1>9. QED
  BY <1>1, <1>2, <1>3, <1>4, <1>5, <1>6, <1>7, <1>8 DEF Next, Step

(* Every list is entered by one thread at a time, the holder of its lock.  *)
THEOREM MutualExclusion == Spec => []LocksGuard
<1>1. Init => LocksGuard
  BY FreeSpaceAssumption DEF Init, LocksGuard, Holding
<1>2. QED
  BY <1>1, LocksStep, TypeCorrect, PTL DEF Spec
------------------------------------------------------------------------------
(* The lengths of the lists *)

(* The threads that are about to pop a list they found to have an item to  *)
(* spare: the list must hold one item for each of them.                    *)
Takers(c) == {t \in Threads : pc[t] \in {"lock", "pop"} /\ at[t] = c}
EnoughForTakers == \A c \in Chunks : Cardinality(Takers(c)) <= Len(free_space[c])

(* The threads that are about to push on a list they found to have room.   *)
Pushers(c) == {t \in Threads : pc[t] \in {"rlock", "push"} /\ at[t] = c}
RoomForPushers ==
  \A c \in Chunks :
    Len(free_space[c]) + Cardinality(Pushers(c)) < MaxFree + Cardinality(Threads)

(* A set of threads has no more members than Threads, and at least one if  *)
(* it has a member.                                                        *)
LEMMA SomeThreads ==
  ASSUME NEW T \in SUBSET Threads
  PROVE  /\ IsFiniteSet(T)
         /\ Cardinality(T) \in Nat
         /\ Cardinality(Threads) \in Nat \ {0}
         /\ Cardinality(T) <= Cardinality(Threads)
         /\ T # {} => Cardinality(T) >= 1
<1>1. IsFiniteSet(T) /\ Cardinality(T) <= Cardinality(Threads)
  BY FreeSpaceAssumption, FS_Subset
<1>2. Cardinality(T) \in Nat /\ Cardinality(Threads) \in Nat
  BY <1>1, FreeSpaceAssumption, FS_CardinalityType
<1>3. T # {} => Cardinality(T) # 0
  BY <1>1, FS_EmptySet
<1>4. Cardinality(Threads) # 0
  BY FreeSpaceAssumption, FS_EmptySet
<1>5. QED
  BY <1>1, <1>2, <1>3, <1>4

(* A set of threads that loses members does not grow, and one that loses a *)
(* given member shrinks by one.                                            *)
LEMMA FewerThreads ==
  ASSUME NEW T \in SUBSET Threads, NEW U \in SUBSET T
  PROVE  /\ Cardinality(U) \in Nat /\ Cardinality(T) \in Nat
         /\ Cardinality(U) <= Cardinality(T)
         /\ \A t \in T : t \notin U => Cardinality(U) <= Cardinality(T) - 1
<1>1. IsFiniteSet(T) /\ IsFiniteSet(U)
  BY SomeThreads
<1>2. Cardinality(U) <= Cardinality(T)
  BY <1>1, FS_Subset
<1>3. ASSUME NEW t \in T, t \notin U
      PROVE  Cardinality(U) <= Cardinality(T) - 1
  <2>1. IsFiniteSet(T \ {t}) /\ Cardinality(T \ {t}) = Cardinality(T) - 1
    BY <1>1, <1>3, FS_RemoveElement
  <2>2. U \in SUBSET (T \ {t})
    BY <1>3
  <2>3. QED
    BY <2>1, <2>2, FS_Subset
<1>4. QED
  BY <1>2, <1>3, SomeThreads

(* A free list has a length.                                               *)
LEMMA LensAreNat == TypeOK => \A c \in Chunks : Len(free_space[c]) \in Nat
  BY LenProperties DEF TypeOK

(* The free lists and the sets of takers and pushers, step by step: a step *)
(* that leaves the lists alone adds a taker only where there is an item to *)
(* spare, and a pusher only where there is room; a pop removes a taker and *)
(* a push a pusher.                                                        *)
LEMMA ListSteps ==
  ASSUME TypeOK, [Next]_vars
  PROVE  \/ /\ UNCHANGED free_space
            /\ \A c \in Chunks :
                 /\ Takers(c)' \subseteq Takers(c) \/ HasSpare(c)
                 /\ Pushers(c)' \subseteq Pushers(c) \/ HasRoom(c)
         \/ \E t \in Threads : Pop(t) \/ Push(t)
<1> USE FreeSpaceAssumption DEF TypeOK, Goto, Takers, Pushers
<1>1. ASSUME NEW t \in Threads, NEW i \in Chunks, NEW o \in live \cup {NoItem},
             BeginSet(t, i, o)
      PROVE  UNCHANGED free_space /\ \A c \in Chunks :
               Takers(c)' \subseteq Takers(c) /\ Pushers(c)' \subseteq Pushers(c)
  BY <1>1 DEF BeginSet
<1>2. ASSUME NEW t \in Threads, SeeSpare(t)
      PROVE  UNCHANGED free_space /\ \A c \in Chunks :
               /\ Takers(c)' \subseteq Takers(c) \/ HasSpare(c)
               /\ Pushers(c)' \subseteq Pushers(c)
  BY <1>2 DEF SeeSpare
<1>3. ASSUME NEW t \in Threads, SeeRoom(t)
      PROVE  UNCHANGED free_space /\ \A c \in Chunks :
               /\ Takers(c)' \subseteq Takers(c)
               /\ Pushers(c)' \subseteq Pushers(c) \/ HasRoom(c)
  BY <1>3 DEF SeeRoom
<1>4. ASSUME NEW t \in Threads, SeeNone(t) \/ SearchEnds(t)
      PROVE  UNCHANGED free_space /\ \A c \in Chunks :
               Takers(c)' \subseteq Takers(c) /\ Pushers(c)' \subseteq Pushers(c)
  BY <1>4 DEF SeeNone, SearchEnds
<1>5. ASSUME NEW t \in Threads, Lock(t) \/ Unlock(t)
      PROVE  UNCHANGED free_space /\ \A c \in Chunks :
               Takers(c)' \subseteq Takers(c) /\ Pushers(c)' \subseteq Pushers(c)
  BY <1>5 DEF Lock, Unlock
<1>6. ASSUME NEW t \in Threads, RecycleLock(t) \/ RecycleUnlock(t)
      PROVE  UNCHANGED free_space /\ \A c \in Chunks :
               Takers(c)' \subseteq Takers(c) /\ Pushers(c)' \subseteq Pushers(c)
  BY <1>6 DEF RecycleLock, RecycleUnlock
<1>7. ASSUME NEW t \in Threads, Extend(t) \/ Write(t) \/ Drop(t)
      PROVE  UNCHANGED free_space /\ \A c \in Chunks :
               Takers(c)' \subseteq Takers(c) /\ Pushers(c)' \subseteq Pushers(c)
  BY <1>7 DEF Extend, Write, Drop
<1>8. CASE UNCHANGED vars
  BY <1>8 DEF vars
<1>9. QED
  BY <1>1, <1>2, <1>3, <1>4, <1>5, <1>6, <1>7, <1>8 DEF Next, Step

(* A pop takes one item off its list and one thread from its takers.       *)
LEMMA PopStep ==
  ASSUME TypeOK, NEW t \in Threads, Pop(t)
  PROVE  /\ at[t] \in Chunks
         /\ Len(free_space[at[t]]) \in Nat \ {0}
         /\ Len(free_space'[at[t]]) = Len(free_space[at[t]]) - 1
         /\ \A c \in Chunks : c # at[t] => free_space'[c] = free_space[c]
         /\ \A c \in Chunks : Takers(c)' \subseteq Takers(c) /\ Pushers(c)' \subseteq Pushers(c)
         /\ t \in Takers(at[t]) /\ t \notin Takers(at[t])'
<1>1. at[t] \in Chunks /\ free_space[at[t]] \in Seq(Items) /\ free_space[at[t]] # << >>
  BY DEF TypeOK, Pop, Goto, Holding
<1>2. /\ free_space' = [free_space EXCEPT ![at[t]] =
                           SubSeq(free_space[at[t]], 1, Len(free_space[at[t]]) - 1)]
      /\ at' = at
      /\ pc[t] = "pop" /\ pc' = [pc EXCEPT ![t] = "unlock"]
  BY DEF Pop, Goto
<1>3. /\ Len(free_space[at[t]]) \in Nat \ {0}
      /\ Len(SubSeq(free_space[at[t]], 1, Len(free_space[at[t]]) - 1)) = Len(free_space[at[t]]) - 1
  BY <1>1, PopLemma
<1>4. QED
  BY <1>1, <1>2, <1>3 DEF TypeOK, Takers, Pushers

(* A push puts one item on its list and takes one thread from its pushers. *)
LEMMA PushStep ==
  ASSUME TypeOK, NEW t \in Threads, Push(t)
  PROVE  /\ at[t] \in Chunks
         /\ Len(free_space[at[t]]) \in Nat
         /\ Len(free_space'[at[t]]) = Len(free_space[at[t]]) + 1
         /\ \A c \in Chunks : c # at[t] => free_space'[c] = free_space[c]
         /\ \A c \in Chunks : Takers(c)' \subseteq Takers(c) /\ Pushers(c)' \subseteq Pushers(c)
         /\ t \in Pushers(at[t]) /\ t \notin Pushers(at[t])'
<1>1. at[t] \in Chunks /\ free_space[at[t]] \in Seq(Items) /\ old[t] \in Items
  BY DEF TypeOK, Push, Goto, Holding
<1>2. /\ free_space' = [free_space EXCEPT ![at[t]] = Append(free_space[at[t]], old[t])]
      /\ at' = at
      /\ pc[t] = "push" /\ pc' = [pc EXCEPT ![t] = "runlock"]
  BY DEF Push, Goto
<1>3. /\ Len(free_space[at[t]]) \in Nat
      /\ Len(Append(free_space[at[t]], old[t])) = Len(free_space[at[t]]) + 1
  BY <1>1, PushLemma
<1>4. QED
  BY <1>1, <1>2, <1>3 DEF TypeOK, Takers, Pushers

(* A list keeps one item for each of its takers: a thread becomes one only *)
(* if there are as many items as threads, and leaves with one item.        *)
LEMMA TakersStep == TypeOK /\ EnoughForTakers /\ [Next]_vars => EnoughForTakers'
<1> SUFFICES ASSUME TypeOK, EnoughForTakers, [Next]_vars, NEW c \in Chunks
             PROVE  Cardinality(Takers(c)') <= Len(free_space'[c])
  BY DEF EnoughForTakers
<1>1. /\ Cardinality(Takers(c)) <= Len(free_space[c])
      /\ Len(free_space[c]) \in Nat
  BY LensAreNat DEF EnoughForTakers
<1>2. Takers(c) \in SUBSET Threads /\ Takers(c)' \in SUBSET Threads
  BY DEF Takers
<1>3. /\ Cardinality(Takers(c)) \in Nat /\ Cardinality(Takers(c)') \in Nat
      /\ Cardinality(Takers(c)') <= Cardinality(Threads)
      /\ Cardinality(Threads) \in Nat
  BY <1>2, SomeThreads
<1>4. Takers(c)' \subseteq Takers(c) => Cardinality(Takers(c)') <= Cardinality(Takers(c))
  BY <1>2, FewerThreads
<1>5. ASSUME UNCHANGED free_space, Takers(c)' \subseteq Takers(c) \/ HasSpare(c)
      PROVE  Cardinality(Takers(c)') <= Len(free_space'[c])
  BY <1>1, <1>3, <1>4, <1>5, FreeSpaceAssumption, ReserveAssumption DEF HasSpare
<1>6. ASSUME NEW t \in Threads, Pop(t)
      PROVE  Cardinality(Takers(c)') <= Len(free_space'[c])
  <2>1. CASE c = at[t]
    <3>1. Cardinality(Takers(c)') <= Cardinality(Takers(c)) - 1
      BY <1>2, <1>6, <2>1, PopStep, FewerThreads
    <3>2. Len(free_space'[c]) = Len(free_space[c]) - 1
      BY <1>6, <2>1, PopStep
    <3>3. QED
      BY <1>1, <1>3, <3>1, <3>2
  <2>2. CASE c # at[t]
    BY <1>1, <1>3, <1>4, <1>6, <2>2, PopStep
  <2>3. QED
    BY <2>1, <2>2
<1>7. ASSUME NEW t \in Threads, Push(t)
      PROVE  Cardinality(Takers(c)') <= Len(free_space'[c])
  BY <1>1, <1>3, <1>4, <1>7, PushStep
<1>8. QED
  BY <1>5, <1>6, <1>7, ListSteps

(* A list never outgrows MaxFree by as many items as there are threads,    *)
(* the items of its pushers counted: they all found room in it.            *)
LEMMA PushersStep == TypeOK /\ RoomForPushers /\ [Next]_vars => RoomForPushers'
<1> SUFFICES ASSUME TypeOK, RoomForPushers, [Next]_vars, NEW c \in Chunks
             PROVE  Len(free_space'[c]) + Cardinality(Pushers(c)') < MaxFree + Cardinality(Threads)
  BY DEF RoomForPushers
<1>1. /\ Len(free_space[c]) + Cardinality(Pushers(c)) < MaxFree + Cardinality(Threads)
      /\ Len(free_space[c]) \in Nat
  BY LensAreNat DEF RoomForPushers
<1>2. Pushers(c) \in SUBSET Threads /\ Pushers(c)' \in SUBSET Threads
  BY DEF Pushers
<1>3. /\ Cardinality(Pushers(c)) \in Nat /\ Cardinality(Pushers(c)') \in Nat
      /\ Cardinality(Pushers(c)') <= Cardinality(Threads)
      /\ Cardinality(Threads) \in Nat /\ MaxFree \in Nat
  BY <1>2, SomeThreads, FreeSpaceAssumption
<1>4. Pushers(c)' \subseteq Pushers(c) => Cardinality(Pushers(c)') <= Cardinality(Pushers(c))
  BY <1>2, FewerThreads
<1>5. ASSUME UNCHANGED free_space, Pushers(c)' \subseteq Pushers(c) \/ HasRoom(c)
      PROVE  Len(free_space'[c]) + Cardinality(Pushers(c)') < MaxFree + Cardinality(Threads)
  BY <1>1, <1>3, <1>4, <1>5 DEF HasRoom
<1>6. ASSUME NEW t \in Threads, Push(t)
      PROVE  Len(free_space'[c]) + Cardinality(Pushers(c)') < MaxFree + Cardinality(Threads)
  <2>1. CASE c = at[t]
    <3>1. Cardinality(Pushers(c)') <= Cardinality(Pushers(c)) - 1
      BY <1>2, <1>6, <2>1, PushStep, FewerThreads
    <3>2. Len(free_space'[c]) = Len(free_space[c]) + 1
      BY <1>6, <2>1, PushStep
    <3>3. QED
      BY <1>1, <1>3, <3>1, <3>2
  <2>2. CASE c # at[t]
    BY <1>1, <1>3, <1>4, <1>6, <2>2, PushStep
  <2>3. QED
    BY <2>1, <2>2
<1>7. ASSUME NEW t \in Threads, Pop(t)
      PROVE  Len(free_space'[c]) + Cardinality(Pushers(c)') < MaxFree + Cardinality(Threads)
  BY <1>1, <1>3, <1>4, <1>7, PopStep
<1>8. QED
  BY <1>5, <1>6, <1>7, ListSteps

(* At first nobody has seen room or an item in a list.                     *)
LEMMA ListsInit == Init => EnoughForTakers /\ RoomForPushers
<1> SUFFICES ASSUME Init, NEW c \in Chunks
             PROVE  /\ Cardinality(Takers(c)) <= Len(free_space[c])
                    /\ Len(free_space[c]) + Cardinality(Pushers(c)) < MaxFree + Cardinality(Threads)
  BY DEF EnoughForTakers, RoomForPushers
<1>1. Takers(c) = {} /\ Pushers(c) = {}
  BY DEF Init, Takers, Pushers
<1>2. Len(free_space[c]) = 0
  BY EmptySeq DEF Init
<1>3. Cardinality(Threads) \in Nat \ {0}
  BY SomeThreads
<1>4. QED
  BY <1>1, <1>2, <1>3, FS_EmptySet, FreeSpaceAssumption

(* No thread pops an empty stack, for any number of threads that is at     *)
(* most one more than the reserve.                                         *)
THEOREM PopsFindAnItem == Spec => []NeverPopsEmpty
<1>1. TypeOK /\ EnoughForTakers => NeverPopsEmpty
  <2> SUFFICES ASSUME TypeOK, EnoughForTakers, NEW t \in Threads, pc[t] = "pop"
               PROVE  free_space[at[t]] # << >>
    BY DEF NeverPopsEmpty
  <2>1. at[t] \in Chunks
    BY DEF TypeOK, Holding
  <2>2. Takers(at[t]) \in SUBSET Threads /\ Takers(at[t]) # {}
    BY DEF Takers
  <2>3. Cardinality(Takers(at[t])) >= 1 /\ Cardinality(Takers(at[t])) \in Nat
    BY <2>2, SomeThreads
  <2>4. Len(free_space[at[t]]) >= 1
    BY <2>1, <2>3, LensAreNat DEF EnoughForTakers
  <2>5. QED
    BY <2>4, EmptySeq
<1>2. QED
  BY <1>1, ListsInit, TakersStep, TypeCorrect, PTL DEF Spec

(* No list outgrows MAX_FREE_SPACE_SIZE by as many items as there are      *)
(* threads.                                                                *)
THEOREM ListsStayBounded == Spec => []ListsBounded
<1>1. TypeOK /\ RoomForPushers => ListsBounded
  <2> SUFFICES ASSUME TypeOK, RoomForPushers, NEW c \in Chunks
               PROVE  Len(free_space[c]) < MaxFree + Cardinality(Threads)
    BY DEF ListsBounded
  <2>1. Pushers(c) \in SUBSET Threads
    BY DEF Pushers
  <2>2. Cardinality(Pushers(c)) \in Nat /\ Cardinality(Threads) \in Nat
    BY <2>1, SomeThreads
  <2>3. QED
    BY <2>2, LensAreNat, FreeSpaceAssumption DEF RoomForPushers
<1>2. QED
  BY <1>1, ListsInit, PushersStep, TypeCorrect, PTL DEF Spec
------------------------------------------------------------------------------
(* Ownership *)

(* The items in use are those the file was extended by: a new one is new.  *)
Numbered ==
  /\ \A i \in live : i[2] < items
  /\ \A c \in Chunks : \A n \in 1..Len(free_space[c]) : free_space[c][n][2] < items
  /\ \A t \in Threads : new[t][2] < items /\ old[t][2] < items

OwnerInv == TypeOK /\ OneOwner /\ Numbered

(* Items are pairs with a number; NoItem is none of them. *)
LEMMA ItemFacts ==
  /\ NoItem \notin Items /\ NoItem[2] = -1
  /\ \A i \in Items : i[2] \in Nat
  /\ \A c \in Chunks, n \in Nat : <<c, n>> \in Items /\ <<c, n>>[2] = n
  BY DEF NoItem, Items

(* A step of t that changes nobody else's items leaves every item a thread *)
(* holds to that thread, if t has taken no item of another's.              *)
LEMMA HoldersStep ==
  ASSUME HeldAlone, NEW t \in Threads,
         \A u \in Threads \ {t} : new'[u] = new[u] /\ old'[u] = old[u],
         \A u \in Threads : Holds(u)' \cap live' = {},
         \A u \in Threads \ {t} : Holds(t)' \cap Holds(u) = {},
         new'[t] = old'[t] => new'[t] = NoItem
  PROVE  HeldAlone'
<1>1. \A u \in Threads \ {t} : Holds(u)' = Holds(u)
  BY DEF Holds
<1>2. ASSUME NEW u \in Threads, NEW v \in Threads \ {u}
      PROVE  Holds(u)' \cap Holds(v)' = {}
  <2>1. CASE u # t /\ v # t
    BY <1>1, <2>1 DEF HeldAlone
  <2>2. CASE u = t
    BY <1>1, <2>2
  <2>3. CASE v = t
    BY <1>1, <2>3
  <2>4. QED
    BY <2>1, <2>2, <2>3
<1>3. \A u \in Threads : new'[u] = old'[u] => new'[u] = NoItem
  BY DEF HeldAlone
<1>4. QED
  BY <1>2, <1>3 DEF HeldAlone

(* Taking the top item off a list gives it to a thread alone.              *)
LEMMA OwnerPop ==
  ASSUME OwnerInv, NEW t \in Threads, Pop(t)
  PROVE  OneOwner' /\ Numbered'
<1> DEFINE a == at[t]
           s == free_space[a]
           top == s[Len(s)]
<1>1. a \in Chunks /\ s \in Seq(Items) /\ s # << >>
  BY DEF OwnerInv, TypeOK, Pop, Goto, Holding
<1>2. /\ free_space' = [free_space EXCEPT ![a] = SubSeq(s, 1, Len(s) - 1)]
      /\ new' = [new EXCEPT ![t] = top]
      /\ UNCHANGED <<live, old, items>>
  BY DEF Pop
<1>3. /\ Len(s) \in Nat \ {0} /\ top \in Items
      /\ Len(SubSeq(s, 1, Len(s) - 1)) = Len(s) - 1
      /\ \A n \in 1..Len(s) - 1 : SubSeq(s, 1, Len(s) - 1)[n] = s[n]
  BY <1>1, PopLemma
<1>4. \A c \in Chunks : Len(free_space[c]) \in Nat
  BY LensAreNat DEF OwnerInv
<1> HIDE DEF a
<1>5. /\ \A c \in Chunks : Len(free_space'[c]) \in Nat /\ Len(free_space'[c]) <= Len(free_space[c])
      /\ \A c \in Chunks : \A n \in 1..Len(free_space'[c]) : free_space'[c][n] = free_space[c][n]
      /\ Len(free_space'[a]) = Len(s) - 1
  BY <1>1, <1>2, <1>3, <1>4 DEF OwnerInv, TypeOK
<1>6. \A c \in Chunks : \A n \in 1..Len(free_space'[c]) : n \in 1..Len(free_space[c])
  BY <1>4, <1>5
<1>7. \A c \in Chunks : \A n \in 1..Len(free_space'[c]) : free_space'[c][n] # top
  BY <1>1, <1>3, <1>5, <1>6 DEF OwnerInv, OneOwner, ListedOnce
<1>8. ListedOnce'
  BY <1>5, <1>6 DEF OwnerInv, OneOwner, ListedOnce
<1>9. top \in Listed(a)
  BY <1>3 DEF Listed
<1>10. /\ top \notin live /\ \A u \in Threads : top \notin Holds(u)
       /\ top # NoItem
  BY <1>1, <1>3, <1>9, ItemFacts DEF OwnerInv, OneOwner, ListedIsFree
<1>11. /\ Holds(t)' \subseteq Holds(t) \cup {top}
       /\ \A u \in Threads \ {t} : Holds(u)' = Holds(u)
       /\ new'[t] = top /\ old'[t] = old[t]
  BY <1>2 DEF Holds, OwnerInv, TypeOK
<1>12. \A c \in Chunks : Listed(c)' \subseteq Listed(c) \ {top}
  BY <1>5, <1>6, <1>7 DEF Listed
<1>13. ListedIsFree'
  BY <1>2, <1>11, <1>12 DEF OwnerInv, OneOwner, ListedIsFree
<1>14. old[t] # top
  BY <1>10 DEF Holds
<1>15. HeldAlone'
  <2>1. HeldAlone
    BY DEF OwnerInv, OneOwner
  <2>2. \A u \in Threads \ {t} : new'[u] = new[u] /\ old'[u] = old[u]
    BY <1>2 DEF OwnerInv, TypeOK
  <2>3. \A u \in Threads : Holds(u)' \cap live' = {}
    BY <1>2, <1>10, <1>11, <2>1 DEF HeldAlone
  <2>4. \A u \in Threads \ {t} : Holds(t)' \cap Holds(u) = {}
    BY <1>10, <1>11, <2>1 DEF HeldAlone
  <2>5. QED
    BY <1>11, <1>14, <2>1, <2>2, <2>3, <2>4, HoldersStep
<1>16. Numbered'
  BY <1>1, <1>2, <1>3, <1>5, <1>6 DEF OwnerInv, Numbered, TypeOK
<1>17. QED
  BY <1>8, <1>13, <1>15, <1>16 DEF OneOwner

(* Putting the old item on its list takes it from the thread.              *)
LEMMA OwnerPush ==
  ASSUME OwnerInv, NEW t \in Threads, Push(t)
  PROVE  OneOwner' /\ Numbered'
<1> DEFINE a == at[t]
           s == free_space[a]
           e == old[t]
<1>1. a \in Chunks /\ s \in Seq(Items) /\ e \in Items /\ e # NoItem
  BY DEF OwnerInv, TypeOK, Push, Goto, Holding
<1>2. /\ free_space' = [free_space EXCEPT ![a] = Append(s, e)]
      /\ old' = [old EXCEPT ![t] = NoItem]
      /\ UNCHANGED <<live, new, items>>
  BY DEF Push
<1>3. /\ Len(s) \in Nat
      /\ Len(Append(s, e)) = Len(s) + 1
      /\ \A n \in 1..Len(s) : Append(s, e)[n] = s[n]
      /\ Append(s, e)[Len(s) + 1] = e
  BY <1>1, PushLemma
<1>4. \A c \in Chunks : Len(free_space[c]) \in Nat
  BY LensAreNat DEF OwnerInv
<1>5. e \in Holds(t)
  BY <1>1 DEF Holds
<1> HIDE DEF a, e
<1>6. /\ \A c \in Chunks \ {a} : free_space'[c] = free_space[c]
      /\ free_space'[a] = Append(s, e)
  BY <1>1, <1>2 DEF OwnerInv, TypeOK
<1>7. \A c \in Chunks : \A n \in 1..Len(free_space'[c]) :
        \/ n \in 1..Len(free_space[c]) /\ free_space'[c][n] = free_space[c][n]
        \/ c = a /\ n = Len(s) + 1 /\ free_space'[c][n] = e
  BY <1>3, <1>4, <1>6
<1>8. \A c \in Chunks : \A n \in 1..Len(free_space[c]) : free_space[c][n] # e
  BY <1>5 DEF OwnerInv, OneOwner, ListedIsFree, Listed
<1>9. ListedOnce'
  BY <1>7, <1>8 DEF OwnerInv, OneOwner, ListedOnce
<1>10. \A c \in Chunks : Listed(c)' \subseteq Listed(c) \cup {e}
  BY <1>7 DEF Listed
<1>11. /\ Holds(t)' \subseteq Holds(t) \ {e}
       /\ \A u \in Threads \ {t} : Holds(u)' = Holds(u) /\ e \notin Holds(u)
       /\ e \notin live
  <2>1. HeldAlone
    BY DEF OwnerInv, OneOwner
  <2>2. new[t] # e
    BY <1>1, <2>1 DEF HeldAlone, e
  <2>3. /\ new' = new /\ old'[t] = NoItem
        /\ \A u \in Threads \ {t} : old'[u] = old[u]
    BY <1>2 DEF OwnerInv, TypeOK
  <2>4. Holds(t)' \subseteq Holds(t) \ {e}
    BY <2>2, <2>3 DEF Holds
  <2>5. \A u \in Threads \ {t} : Holds(u)' = Holds(u)
    BY <2>3 DEF Holds
  <2>6. e \notin live /\ \A u \in Threads \ {t} : e \notin Holds(u)
    BY <1>5, <2>1 DEF HeldAlone
  <2>7. QED
    BY <2>4, <2>5, <2>6
<1>12. ListedIsFree'
  BY <1>2, <1>10, <1>11 DEF OwnerInv, OneOwner, ListedIsFree
<1>13. HeldAlone'
  <2>1. HeldAlone
    BY DEF OwnerInv, OneOwner
  <2>2. \A u \in Threads \ {t} : new'[u] = new[u] /\ old'[u] = old[u]
    BY <1>2 DEF OwnerInv, TypeOK
  <2>3. \A u \in Threads : Holds(u)' \cap live' = {}
    BY <1>2, <1>11, <2>1 DEF HeldAlone
  <2>4. \A u \in Threads \ {t} : Holds(t)' \cap Holds(u) = {}
    BY <1>11, <2>1 DEF HeldAlone
  <2>5. old'[t] = NoItem
    BY <1>2 DEF OwnerInv, TypeOK
  <2>6. QED
    BY <2>1, <2>2, <2>3, <2>4, <2>5, HoldersStep
<1>14. e[2] < items
  BY DEF OwnerInv, Numbered, e
<1>15. Numbered'
  BY <1>2, <1>7, <1>14, ItemFacts DEF OwnerInv, Numbered, TypeOK
<1>16. QED
  BY <1>9, <1>12, <1>13, <1>15 DEF OneOwner
(* The steps that take no item from anywhere and give none to anyone.      *)
LEMMA OwnerOther ==
  ASSUME OwnerInv, UNCHANGED <<free_space, items, live, new, old>>
  PROVE  OneOwner' /\ Numbered'
<1>1. ListedOnce'
  BY DEF OwnerInv, OneOwner, ListedOnce
<1>2. /\ \A c \in Chunks : Listed(c)' = Listed(c)
      /\ \A t \in Threads : Holds(t)' = Holds(t)
  BY DEF Listed, Holds
<1>3. ListedIsFree' /\ HeldAlone'
  BY <1>2 DEF OwnerInv, OneOwner, ListedIsFree, HeldAlone
<1>4. Numbered'
  BY DEF OwnerInv, Numbered
<1>5. QED
  BY <1>1, <1>3, <1>4 DEF OneOwner

(* The beginning of an update: the old record is the thread's to recycle.  *)
LEMMA OwnerBegin ==
  ASSUME OwnerInv, NEW t \in Threads, NEW i \in Chunks, NEW o \in live \cup {NoItem},
         BeginSet(t, i, o), new[t] = NoItem
  PROVE  OneOwner' /\ Numbered'
<1>1. /\ live' = live \ {o} /\ old' = [old EXCEPT ![t] = o]
      /\ UNCHANGED <<free_space, items, new>>
  BY DEF BeginSet
<1>2. ListedOnce /\ ListedIsFree /\ HeldAlone
  BY DEF OwnerInv, OneOwner
<1>3. /\ \A u \in Threads \ {t} : new'[u] = new[u] /\ old'[u] = old[u]
      /\ new'[t] = NoItem /\ old'[t] = o
  BY <1>1 DEF OwnerInv, TypeOK
<1>4. /\ Holds(t)' = {o} \ {NoItem}
      /\ \A u \in Threads \ {t} : Holds(u)' = Holds(u)
  BY <1>3 DEF Holds
<1>5. ListedOnce'
  BY <1>1, <1>2 DEF ListedOnce
<1>6. \A c \in Chunks : Listed(c)' = Listed(c)
  BY <1>1 DEF Listed
<1>7. ListedIsFree'
  BY <1>1, <1>2, <1>4, <1>6 DEF ListedIsFree
<1>8. HeldAlone'
  <2>1. \A u \in Threads : Holds(u)' \cap live' = {}
    BY <1>1, <1>2, <1>4 DEF HeldAlone
  <2>2. \A u \in Threads \ {t} : Holds(t)' \cap Holds(u) = {}
    BY <1>2, <1>4 DEF HeldAlone
  <2>3. QED
    BY <1>2, <1>3, <2>1, <2>2, HoldersStep
<1>9. 0 <= items /\ o[2] < items
  BY ItemFacts DEF OwnerInv, Numbered, TypeOK
<1>10. Numbered'
  BY <1>1, <1>3, <1>9 DEF OwnerInv, Numbered
<1>11. QED
  BY <1>5, <1>7, <1>8, <1>10 DEF OneOwner

(* The item the file is extended by has a number no item has.              *)
LEMMA OwnerExtend ==
  ASSUME OwnerInv, NEW t \in Threads, Extend(t)
  PROVE  OneOwner' /\ Numbered'
<1> DEFINE e == <<idx[t], items>>
<1>1. /\ new' = [new EXCEPT ![t] = e] /\ items' = items + 1
      /\ UNCHANGED <<free_space, live, old>>
  BY DEF Extend
<1>2. items \in Nat /\ e \in Items /\ e[2] = items /\ e # NoItem
  BY ItemFacts DEF OwnerInv, TypeOK
<1>3. ListedOnce /\ ListedIsFree /\ HeldAlone /\ Numbered
  BY DEF OwnerInv, OneOwner
<1> HIDE DEF e
<1>4. /\ \A u \in Threads \ {t} : new'[u] = new[u] /\ old'[u] = old[u]
      /\ new'[t] = e /\ old'[t] = old[t]
  BY <1>1 DEF OwnerInv, TypeOK
<1>5. /\ e \notin live /\ \A c \in Chunks : e \notin Listed(c)
      /\ \A u \in Threads : e # new[u] /\ e # old[u] /\ e \notin Holds(u)
  BY <1>2, <1>3 DEF Numbered, Listed, Holds
<1>6. /\ Holds(t)' \subseteq Holds(t) \cup {e}
      /\ \A u \in Threads \ {t} : Holds(u)' = Holds(u)
  BY <1>4 DEF Holds
<1>7. ListedOnce'
  BY <1>1, <1>3 DEF ListedOnce
<1>8. \A c \in Chunks : Listed(c)' = Listed(c)
  BY <1>1 DEF Listed
<1>9. ListedIsFree'
  BY <1>1, <1>3, <1>5, <1>6, <1>8 DEF ListedIsFree
<1>10. HeldAlone'
  <2>1. \A u \in Threads : Holds(u)' \cap live' = {}
    BY <1>1, <1>3, <1>5, <1>6 DEF HeldAlone
  <2>2. \A u \in Threads \ {t} : Holds(t)' \cap Holds(u) = {}
    BY <1>3, <1>5, <1>6 DEF HeldAlone
  <2>3. QED
    BY <1>3, <1>4, <1>5, <2>1, <2>2, HoldersStep
<1>11. Numbered'
  <2>1. /\ \A i \in live : i[2] \in Int
        /\ \A c \in Chunks : \A n \in 1..Len(free_space[c]) : free_space[c][n][2] \in Int
        /\ \A u \in Threads : new[u][2] \in Int /\ old[u][2] \in Int
    BY ItemFacts, ElementOfSeq DEF OwnerInv, TypeOK
  <2>2. QED
    BY <1>1, <1>2, <1>3, <1>4, <2>1 DEF Numbered
<1>12. QED
  BY <1>7, <1>9, <1>10, <1>11 DEF OneOwner

(* A finished record belongs to its key, no longer to the thread.          *)
LEMMA OwnerWrite ==
  ASSUME OwnerInv, NEW t \in Threads, Write(t)
  PROVE  OneOwner' /\ Numbered'
<1> DEFINE e == new[t]
<1>1. /\ live' = live \cup {e} /\ new' = [new EXCEPT ![t] = NoItem]
      /\ UNCHANGED <<free_space, items, old>>
  BY DEF Write
<1>2. e # NoItem /\ e \in Holds(t)
  BY DEF OwnerInv, TypeOK, Write, Goto, Holding, Holds
<1>3. ListedOnce /\ ListedIsFree /\ HeldAlone /\ Numbered
  BY DEF OwnerInv, OneOwner
<1>4. e # old[t] /\ e[2] < items
  BY <1>2, <1>3 DEF HeldAlone, Numbered
<1> HIDE DEF e
<1>5. /\ \A u \in Threads \ {t} : new'[u] = new[u] /\ old'[u] = old[u]
      /\ new'[t] = NoItem /\ old'[t] = old[t]
  BY <1>1 DEF OwnerInv, TypeOK
<1>6. /\ Holds(t)' \subseteq Holds(t) \ {e}
      /\ \A u \in Threads \ {t} : Holds(u)' = Holds(u) /\ e \notin Holds(u)
  BY <1>2, <1>3, <1>4, <1>5 DEF Holds, HeldAlone
<1>7. \A c \in Chunks : Listed(c)' = Listed(c) /\ e \notin Listed(c)
  BY <1>1, <1>2, <1>3 DEF Listed, ListedIsFree
<1>8. ListedOnce'
  BY <1>1, <1>3 DEF ListedOnce
<1>9. ListedIsFree'
  BY <1>1, <1>3, <1>6, <1>7 DEF ListedIsFree
<1>10. HeldAlone'
  <2>1. \A u \in Threads : Holds(u)' \cap live' = {}
    BY <1>1, <1>3, <1>6 DEF HeldAlone
  <2>2. \A u \in Threads \ {t} : Holds(t)' \cap Holds(u) = {}
    BY <1>3, <1>6 DEF HeldAlone
  <2>3. QED
    BY <1>3, <1>5, <2>1, <2>2, HoldersStep
<1>11. Numbered'
  <2>1. items \in Nat /\ NoItem[2] < items
    BY ItemFacts DEF OwnerInv, TypeOK
  <2>2. QED
    BY <1>1, <1>3, <1>4, <1>5, <2>1 DEF Numbered
<1>12. QED
  BY <1>8, <1>9, <1>10, <1>11 DEF OneOwner

(* A full list takes no item: the thread forgets it.                       *)
LEMMA OwnerDrop ==
  ASSUME OwnerInv, NEW t \in Threads, Drop(t)
  PROVE  OneOwner' /\ Numbered'
<1>1. old' = [old EXCEPT ![t] = NoItem] /\ UNCHANGED <<free_space, items, live, new>>
  BY DEF Drop
<1>2. ListedOnce /\ ListedIsFree /\ HeldAlone /\ Numbered
  BY DEF OwnerInv, OneOwner
<1>3. /\ \A u \in Threads \ {t} : new'[u] = new[u] /\ old'[u] = old[u]
      /\ new'[t] = new[t] /\ old'[t] = NoItem
  BY <1>1 DEF OwnerInv, TypeOK
<1>4. \A u \in Threads : Holds(u)' \subseteq Holds(u)
  BY <1>3 DEF Holds
<1>5. ListedOnce' /\ \A c \in Chunks : Listed(c)' = Listed(c)
  BY <1>1, <1>2 DEF ListedOnce, Listed
<1>6. ListedIsFree'
  BY <1>1, <1>2, <1>4, <1>5 DEF ListedIsFree
<1>7. HeldAlone'
  <2>1. \A u \in Threads : Holds(u)' \cap live' = {}
    BY <1>1, <1>2, <1>4 DEF HeldAlone
  <2>2. \A u \in Threads \ {t} : Holds(t)' \cap Holds(u) = {}
    BY <1>2, <1>4 DEF HeldAlone
  <2>3. QED
    BY <1>2, <1>3, <2>1, <2>2, HoldersStep
<1>8. Numbered'
  <2>1. items \in Nat /\ NoItem[2] < items
    BY ItemFacts DEF OwnerInv, TypeOK
  <2>2. QED
    BY <1>1, <1>2, <1>3, <2>1 DEF Numbered
<1>9. QED
  BY <1>5, <1>6, <1>7, <1>8 DEF OneOwner

(* A thread outside a Set holds no item to write a record to. *)
IdleHoldsNoNew ==
  \A t \in Threads : pc[t] \notin {"unlock", "write"} => new[t] = NoItem

(* A thread outside a Set holds no new item, after any step.               *)
LEMMA IdleStep == TypeOK /\ IdleHoldsNoNew /\ [Next]_vars => IdleHoldsNoNew'
<1> SUFFICES ASSUME TypeOK, IdleHoldsNoNew, [Next]_vars
             PROVE  IdleHoldsNoNew'
  OBVIOUS
<1> USE DEF TypeOK, IdleHoldsNoNew, Goto
<1>1. ASSUME NEW t \in Threads, NEW i \in Chunks, NEW o \in live \cup {NoItem},
             BeginSet(t, i, o)
      PROVE  IdleHoldsNoNew'
  BY <1>1 DEF BeginSet
<1>2. ASSUME NEW t \in Threads, SeeSpare(t) \/ SeeNone(t) \/ SearchEnds(t) \/ Lock(t)
      PROVE  IdleHoldsNoNew'
  BY <1>2 DEF SeeSpare, SeeNone, SearchEnds, Lock
<1>3. ASSUME NEW t \in Threads, Pop(t) \/ Unlock(t) \/ Extend(t) \/ Write(t)
      PROVE  IdleHoldsNoNew'
  BY <1>3 DEF Pop, Unlock, Extend, Write
<1>4. ASSUME NEW t \in Threads,
             SeeRoom(t) \/ Drop(t) \/ RecycleLock(t) \/ Push(t) \/ RecycleUnlock(t)
      PROVE  IdleHoldsNoNew'
  BY <1>4 DEF SeeRoom, Drop, RecycleLock, Push, RecycleUnlock
<1>5. CASE UNCHANGED vars
  BY <1>5 DEF vars
<1>6. QED
  BY <1>1, <1>2, <1>3, <1>4, <1>5 DEF Next, Step

(* A step gives no item a second owner, and keeps the items of the file    *)
(* numbered to its end.                                                    *)
LEMMA OwnerStep == OwnerInv /\ IdleHoldsNoNew /\ [Next]_vars => OneOwner' /\ Numbered'
<1> SUFFICES ASSUME OwnerInv, IdleHoldsNoNew, [Next]_vars
             PROVE  OneOwner' /\ Numbered'
  OBVIOUS
<1>1. ASSUME NEW t \in Threads, NEW i \in Chunks, NEW o \in live \cup {NoItem},
             BeginSet(t, i, o)
      PROVE  OneOwner' /\ Numbered'
  <2>1. new[t] = NoItem
    BY <1>1 DEF BeginSet, Goto, IdleHoldsNoNew
  <2>2. QED
    BY <1>1, <2>1, OwnerBegin
<1>2. ASSUME NEW t \in Threads,
             SeeSpare(t) \/ SeeNone(t) \/ SearchEnds(t) \/ Lock(t) \/ Unlock(t)
               \/ SeeRoom(t) \/ RecycleLock(t) \/ RecycleUnlock(t)
      PROVE  OneOwner' /\ Numbered'
  <2>1. UNCHANGED <<free_space, items, live, new, old>>
    BY <1>2 DEF SeeSpare, SeeNone, SearchEnds, Lock, Unlock, SeeRoom, RecycleLock, RecycleUnlock
  <2>2. QED
    BY <2>1, OwnerOther
<1>3. CASE UNCHANGED vars
  BY <1>3, OwnerOther DEF vars
<1>4. QED
  BY <1>1, <1>2, <1>3, OwnerPop, OwnerPush, OwnerExtend, OwnerWrite, OwnerDrop DEF Next, Step

(* No item is in two lists, in two places of one, in a list and in use, or *)
(* in the hands of two threads, whatever the threads do at the same time.  *)
THEOREM ItemsHaveOneOwner == Spec => []OneOwner
<1>1. Init => OneOwner /\ Numbered /\ IdleHoldsNoNew
  BY ItemFacts, EmptySeq DEF Init, OneOwner, ListedOnce, ListedIsFree, HeldAlone, Holds, Listed,
                             Numbered, IdleHoldsNoNew
<1>2. TypeOK /\ OneOwner /\ Numbered /\ IdleHoldsNoNew /\ [Next]_vars
        => OneOwner' /\ Numbered' /\ IdleHoldsNoNew'
  BY OwnerStep, IdleStep DEF OwnerInv
<1>3. QED
  BY <1>1, <1>2, TypeCorrect, PTL DEF Spec

==============================================================================
