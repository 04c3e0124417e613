------------------------------- MODULE SkipList -------------------------------
(***************************************************************************)
(* The skip list of nvm_engine_paten and nvm_engine_patentair (the same    *)
(* file twice).  Insert takes the lock and links its node level by level;  *)
(* Get and the Iterator follow the links without a lock, one load at a     *)
(* time.  The copy Get makes of the Index it finds is one step here;       *)
(* PatentairEngine has its parts.                                          *)
(***************************************************************************)
EXTENDS Integers, Sequences

CONSTANTS
  Keys,         \* numbers, in the order of the comparator
  Threads,
  kMaxHeight,
  MaxInserts,   \* the bound on Inserts
  NotFound, Nothing

VARIABLES
  shared,    \* [node: the nodes, max_height_, lock_]
  thread,    \* what each thread is doing
  history    \* [begun: Inserts, stored, returned: key -> how many of its Inserts]

vars == <<shared, thread, history>>

head_ == 1
nullptr == 0
Garbage == -1        \* a link of a new node that is not set yet
Levels == 0..kMaxHeight - 1
Idle == [op |-> "idle", call |-> Nothing, key |-> Nothing, x |-> nullptr, level |-> 0,
         prev |-> [i \in Levels |-> nullptr], height |-> 0, since |-> 0, old |-> {}]
         \* idle with an x: an Iterator at the node x

Init ==
  /\ shared = [node |-> <<[key |-> Nothing, val |-> NotFound,
                           next |-> [i \in Levels |-> nullptr]]>>,
               max_height_ |-> 1, lock_ |-> Nothing]
  /\ thread = [t \in Threads |-> Idle]
  /\ history = [begun |-> 0, stored |-> [k \in Keys |-> 0], returned |-> [k \in Keys |-> 0]]

Node(n) == shared.node[n]
Does(t, op) == thread[t].op = op
Goes(t, rec) == thread' = [thread EXCEPT ![t] = rec]

(* A search starts at the head of the highest level in use. *)
Searching(call, k) ==
  [Idle EXCEPT !.op = "search", !.call = call, !.key = k, !.x = head_,
               !.level = shared.max_height_ - 1]

Get(t, k) ==
  /\ Does(t, "idle")
  /\ Goes(t, [Searching("Get", k) EXCEPT !.since = history.returned[k]])
  /\ UNCHANGED <<shared, history>>

Insert(t, k) ==
  /\ Does(t, "idle")
  /\ history.begun < MaxInserts
  /\ Goes(t, [Idle EXCEPT !.op = "lock", !.key = k])
  /\ history' = [history EXCEPT !.begun = @ + 1]
  /\ UNCHANGED shared

(* The Iterator: Seek, SeekToLast and Prev search, SeekToFirst and Next    *)
(* load one link.  `old' are the keys whose Insert has returned by now.    *)
Old == {k \in Keys : history.returned[k] > 0}

StartWalk(t, call, k) ==
  /\ Does(t, "idle")
  /\ Goes(t, [Searching(call, k) EXCEPT !.old = Old])
  /\ UNCHANGED <<shared, history>>

Iterator_Seek(t, k) == StartWalk(t, "Seek", k)
Iterator_SeekToLast(t) == StartWalk(t, "SeekToLast", Nothing)
Iterator_Prev(t) == thread[t].x # nullptr /\ StartWalk(t, "Prev", Node(thread[t].x).key)

LoadLink(t, call, n) ==
  /\ Does(t, "idle")
  /\ Goes(t, [Idle EXCEPT !.op = "found", !.call = call, !.key = Node(n).key,
                          !.x = Node(n).next[0], !.old = Old])
  /\ UNCHANGED <<shared, history>>

Iterator_SeekToFirst(t) == LoadLink(t, "SeekToFirst", head_)
Iterator_Next(t) == thread[t].x # nullptr /\ LoadLink(t, "Next", thread[t].x)

(* The Iterator is at the node found, or at none (Valid). *)
WalkEnds(t) ==
  /\ Does(t, "found") /\ thread[t].call \notin {"Get", "Insert"}
  /\ Goes(t, [Idle EXCEPT !.x = IF thread[t].x = head_ THEN nullptr ELSE thread[t].x])
  /\ UNCHANGED <<shared, history>>

Lock(t) ==
  /\ Does(t, "lock")
  /\ shared.lock_ = Nothing
  /\ shared' = [shared EXCEPT !.lock_ = t]
  /\ Goes(t, Searching("Insert", thread[t].key))
  /\ UNCHANGED history

KeyIsAfterNode(k, n) == n # nullptr /\ Node(n).key < k

(* One round of a search: to the next node of the level, or a level down,  *)
(* or to the result.  Insert keeps the last node of each level.            *)
SearchOn(t, goesOn, result) ==
  LET c == thread[t]
      kept == [c EXCEPT !.prev[c.level] = IF c.call = "Insert" THEN c.x ELSE @]
  IN
  /\ Does(t, "search")
  /\ Goes(t, CASE goesOn -> [c EXCEPT !.x = Node(c.x).next[c.level]]
               [] ~goesOn /\ c.level > 0 -> [kept EXCEPT !.level = @ - 1]
               [] OTHER -> [kept EXCEPT !.x = result, !.op = "found"])
  /\ UNCHANGED <<shared, history>>

Following(t) == Node(thread[t].x).next[thread[t].level]

FindGreaterOrEqual(t) ==
  /\ thread[t].call \in {"Get", "Insert", "Seek"}
  /\ SearchOn(t, KeyIsAfterNode(thread[t].key, Following(t)), Following(t))

FindLessThan(t) ==
  /\ thread[t].call = "Prev"
  /\ SearchOn(t, KeyIsAfterNode(thread[t].key, Following(t)), thread[t].x)

(* A mistaken FindLast, which ends with the last node of any level. *)
FindLast_Level(t) ==
  /\ thread[t].call = "SeekToLast"
  /\ IF Following(t) # nullptr THEN SearchOn(t, TRUE, thread[t].x)
     ELSE /\ Does(t, "search")
          /\ Goes(t, [thread[t] EXCEPT !.op = "found"])
          /\ UNCHANGED <<shared, history>>

FindLast(t) ==
  /\ thread[t].call = "SeekToLast"
  /\ SearchOn(t, Following(t) # nullptr, thread[t].x)

(* The node found has the key. *)
Equal(t) == thread[t].x # nullptr /\ Node(thread[t].x).key = thread[t].key

(* What Get copies. *)
Answer(t) == IF Equal(t) THEN Node(thread[t].x).val ELSE NotFound

GetReturn(t) ==
  /\ Does(t, "found") /\ thread[t].call = "Get"
  /\ Goes(t, Idle)
  /\ UNCHANGED <<shared, history>>

(* RandomHeight, and the levels above those in use begin at the head. *)
Raise(t, height) ==
  LET c == thread[t] IN
  /\ Does(t, "found") /\ c.call = "Insert"
  /\ Goes(t, [c EXCEPT
       !.prev = [i \in Levels |-> IF i \in shared.max_height_..height - 1 THEN head_ ELSE @[i]],
       !.height = height,
       !.op = IF Equal(t) THEN "overwrite" ELSE "new"])
  /\ shared' = [shared EXCEPT !.max_height_ = IF height > @ THEN height ELSE @]
  /\ UNCHANGED history

Stored(k) == history' = [history EXCEPT !.stored[k] = @ + 1]
Returned(k) == history' = [history EXCEPT !.returned[k] = history.stored[k]]

(* x->key = key *)
Overwrite(t) ==
  LET c == thread[t] IN
  /\ Does(t, "overwrite")
  /\ shared' = [shared EXCEPT !.node[c.x].val = history.stored[c.key] + 1]
  /\ Goes(t, [c EXCEPT !.op = "unlock"])
  /\ Stored(c.key)

NewNode(t) ==
  LET c == thread[t] IN
  /\ Does(t, "new")
  /\ shared' = [shared EXCEPT !.node = Append(@,
       [key |-> c.key, val |-> history.stored[c.key] + 1,
        next |-> [i \in 0..c.height - 1 |-> Garbage]])]
  /\ Goes(t, [c EXCEPT !.x = Len(shared.node) + 1, !.op = "setnext", !.level = 0])
  /\ UNCHANGED history

(* A mistaken SetNext, which takes the links of the lowest level. *)
SetNext_Lowest(t) ==
  LET c == thread[t] IN
  /\ Does(t, "setnext")
  /\ shared' = [shared EXCEPT !.node[c.x].next[c.level] = Node(c.prev[c.level]).next[0]]
  /\ Goes(t, [c EXCEPT !.op = "publish"])
  /\ UNCHANGED history

(* x->NoBarrier_SetNext *)
SetNext(t) ==
  LET c == thread[t] IN
  /\ Does(t, "setnext")
  /\ shared' = [shared EXCEPT !.node[c.x].next[c.level] = Node(c.prev[c.level]).next[c.level]]
  /\ Goes(t, [c EXCEPT !.op = "publish"])
  /\ UNCHANGED history

(* prev[i]->SetNext *)
Publish(t) ==
  LET c == thread[t] IN
  /\ Does(t, "publish")
  /\ shared' = [shared EXCEPT !.node[c.prev[c.level]].next[c.level] = c.x]
  /\ Goes(t, [c EXCEPT !.level = @ + 1,
                       !.op = IF c.level + 1 < c.height THEN "setnext" ELSE "unlock"])
  /\ IF c.level = 0 THEN Stored(c.key) ELSE UNCHANGED history

Unlock(t) ==
  /\ Does(t, "unlock")
  /\ shared' = [shared EXCEPT !.lock_ = Nothing]
  /\ Goes(t, Idle)
  /\ Returned(thread[t].key)

Next ==
  \E t \in Threads :
    \/ \E k \in Keys : Get(t, k)
    \/ \E k \in Keys : Insert(t, k)
    \/ Lock(t)
    \/ \E k \in Keys : Iterator_Seek(t, k)
    \/ Iterator_SeekToFirst(t)
    \/ Iterator_SeekToLast(t)
    \/ Iterator_Next(t)
    \/ Iterator_Prev(t)
    \/ FindGreaterOrEqual(t)
    \/ FindLessThan(t)
    \/ FindLast(t)
    \/ WalkEnds(t)
    \/ GetReturn(t)
    \/ \E height \in 1..kMaxHeight : Raise(t, height)
    \/ Overwrite(t)
    \/ NewNode(t)
    \/ SetNext(t)
    \/ Publish(t)
    \/ Unlock(t)

------------------------------------------------------------------------------
(* The nodes linked on a level, the head among them. *)
OnLevel(i) ==
  {head_} \cup ({Node(m).next[i] : m \in {n \in DOMAIN shared.node : i \in DOMAIN Node(n).next}}
                \ {nullptr, Garbage})

(* Each level is a list in the order of the keys, through nodes that are   *)
(* on the level below too: a search may change levels at any of them,      *)
(* whatever part of its links an Insert has made.                          *)
LevelsAgree ==
  \A i \in Levels :
    /\ i > 0 => OnLevel(i) \subseteq OnLevel(i - 1)
    /\ \A n \in OnLevel(i) :
         LET after == {m \in OnLevel(i) \ {head_} : n = head_ \/ Node(m).key > Node(n).key}
         IN /\ \A m \in OnLevel(i) \ {head_, n} : n # head_ => Node(m).key # Node(n).key
            /\ IF after = {} THEN Node(n).next[i] = nullptr
               ELSE \E m \in after : /\ Node(n).next[i] = m
                                     /\ \A o \in after : Node(m).key <= Node(o).key

(* A Get answers with an Insert of its key that is not older than the last *)
(* one that had returned when it began.                                    *)
AnswersAreCurrent ==
  \A t \in Threads : Does(t, "found") /\ thread[t].call = "Get" =>
    IF Answer(t) = NotFound THEN thread[t].since = 0
    ELSE Answer(t) \in thread[t].since..history.stored[thread[t].key] \ {0}

(* An Iterator finds the next key in its direction: it passes over none    *)
(* whose Insert had returned before the call, and ends only when none of   *)
(* these is left.                                                          *)
WalksMissNothing ==
  \A t \in Threads :
    LET c == thread[t]
        Ahead == {k \in Keys : CASE c.call = "Seek" -> k >= c.key
                                 [] c.call = "Next" -> k > c.key
                                 [] c.call = "Prev" -> k < c.key
                                 [] OTHER -> TRUE}
        forward == c.call \in {"Seek", "SeekToFirst", "Next"}
    IN c.op = "found" /\ c.call \notin {"Get", "Insert"} =>
         IF c.x \in {head_, nullptr} THEN c.old \cap Ahead = {}
         ELSE /\ Node(c.x).key \in Ahead
              /\ \A k \in c.old \cap Ahead :
                   IF forward THEN Node(c.x).key <= k ELSE k <= Node(c.x).key
==============================================================================
