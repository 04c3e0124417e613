-------------------------------- MODULE SortLog --------------------------------
(***************************************************************************)
(* nvm_engine_p7/SortLog.h: the sorted index of one log, as operators.  An *)
(* entry is <<key, value>>, its value the position at which the log holds  *)
(* it.  Positions begin with 1 here; `values' count from 0 as in the code. *)
(* A key is a number below KeyMod (2^64 in the code), already in the byte  *)
(* order in which the code compares keys.                                  *)
(***************************************************************************)
EXTENDS Integers, Sequences, SequencesExt, FiniteSetsExt

CONSTANTS KeyMod, MaxLengthInsertSort   \* 2^64 and 12 in the code

Entries == Nat \X Nat

Less(a, b) == a[1] < b[1] \/ (a[1] = b[1] /\ a[2] < b[2])

(* put: the entry's value is its number. *)
put(s, key) == Append(s, <<key, Len(s)>>)

swap(s, i, j) == [s EXCEPT ![i] = s[j], ![j] = s[i]]

(* The loop of insertSort for one entry i: it goes before the greater ones. *)
InsertOne(s, low, i) ==
  LET at == Min({i} \cup {j \in low..i - 1 : \A m \in j..i - 1 : Less(s[i], s[m])})
  IN  [m \in DOMAIN s |-> IF m = at THEN s[i] ELSE IF m \in at + 1..i THEN s[m - 1] ELSE s[m]]

insertSort(s, low, high) ==
  FoldLeft(LAMBDA t, i : InsertOne(t, low, i), s, [i \in 1..high - low |-> low + i])

medianOfThree(s, low, high) ==
  LET mid == low + (high - low) \div 2
      t == IF Less(s[high], s[mid]) THEN swap(s, mid, high) ELSE s
  IN  IF Less(t[mid], t[low]) THEN swap(t, low, mid) ELSE t

(* The loop of partition: entries less than the pivot move to the left of  *)
(* it, greater ones to the right, until the two scans meet.                *)
Meet[s \in Seq(Entries), pivot \in Entries, low \in Nat, high \in Nat] ==
  IF low >= high THEN <<[s EXCEPT ![low] = pivot], low>>
  ELSE LET h == Max({low} \cup {i \in low + 1..high : Less(s[i], pivot)})
           t == [s EXCEPT ![low] = s[h]]
           l == Min({h} \cup {i \in low..h - 1 : Less(pivot, t[i])})
       IN  Meet[[t EXCEPT ![h] = t[l]], pivot, l, h]

partition(s, low, high) ==
  LET t == medianOfThree(s, low, high) IN Meet[t, t[low], low, high]

SortRange[s \in Seq(Entries), low \in Nat, high \in Nat] ==
  IF high - low + 1 <= MaxLengthInsertSort THEN insertSort(s, low, high)
  ELSE LET p == partition(s, low, high)
       IN  SortRange[SortRange[p[1], low, p[2] - 1], p[2] + 1, high]

(* quicksort keeps the last one of the entries of a key ... *)
Keeps_First(s, i) == i = 1 \/ s[i][1] # s[i - 1][1]    \* a mistaken one: the first
Keeps(s, i) == i = Len(s) \/ s[i][1] # s[i + 1][1]

(* ... after it sorted them. *)
quicksort(s) ==
  LET t == SortRange[s, 1, Len(s)]
  IN  FoldLeftDomain(LAMBDA kept, i : IF Keeps(t, i) THEN Append(kept, t[i]) ELSE kept, <<>>, t)

(* The binary searches: the halving of [left, right) until it is empty. *)
Halve(Below(_), left, right) ==
  LET halve[l \in Nat, r \in Nat] ==
        LET middle == l + (r - l) \div 2
        IN IF l >= r THEN l
           ELSE IF Below(middle) THEN halve[middle + 1, r] ELSE halve[l, middle]
  IN  halve[left, right]

(* find: the value of the last entry not above the key, or -1.             *)
(* key + 1 wraps: the greatest key is never found.                         *)
find(s, key) ==
  LET kk == (key + 1) % KeyMod
      left == Halve(LAMBDA m : s[m][1] < kk, 1, Len(s) + 1)
  IN  IF left > 1 /\ s[left - 1][1] = key THEN s[left - 1][2] ELSE -1

(* The bounds of a range, as indexes from 0. *)
getMinIndexGreaterEqualThan(s, key) == Halve(LAMBDA m : key > s[m][1], 1, Len(s)) - 1
getMaxIndexLessThan(s, key) == Halve(LAMBDA m : key > s[m][1], 1, Len(s) + 1) - 2

------------------------------------------------------------------------------
(* What sorting and searching are for, of the log whose keys are `log':    *)
(* find leads to the last position at which a key was put, or to none, and *)
(* a range of keys to its first and last entries.                          *)
FindsTheLast(log) ==
  LET filled == FoldLeft(put, <<>>, log)
      s == quicksort(filled)
      Of(key) == {i \in DOMAIN log : log[i] = key}
  IN \A key \in 0..KeyMod - 2 :
       /\ find(s, key) = IF Of(key) = {} THEN -1 ELSE Max(Of(key)) - 1
       /\ s # <<>> /\ key <= Last(s)[1] =>
            getMinIndexGreaterEqualThan(s, key) = Cardinality({k \in ToSet(log) : k < key})
       /\ s # <<>> =>
            getMaxIndexLessThan(s, key) = Cardinality({k \in ToSet(log) : k < key}) - 1
==============================================================================
