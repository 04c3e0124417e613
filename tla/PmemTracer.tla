------------------------------ MODULE PmemTracer ------------------------------
(***************************************************************************)
(* MyPinTool of judge-persistence: it follows the stores, flushes and      *)
(* drains of a program in persistent memory, and at a drain or at the end  *)
(* it puts back old values of words that are not persistent, for a power   *)
(* failure.  The program has one thread, as onceset has, and calls         *)
(* pmem_persist: a flush and then a drain.  Addresses are 8-byte words.    *)
(***************************************************************************)
EXTENDS Integers, Sequences, SequencesExt, FiniteSetsExt

CONSTANTS
  Words,       \* 0..n
  MaxWrites,   \* the bound on stores
  None         \* a word that `state' does not have

VARIABLES
  shared,    \* [memory, write_log: word -> its old values, state: word -> its status]
  thread,    \* "run", "drain" within pmem_persist, "final", or "exit"
  history    \* [writes, survivors: word -> the values a power failure may leave,
             \*  flushed: the words of the last flush, skipped]

vars == <<shared, thread, history>>

modified == 0
writeback == 1
Ranges == {{w \in Words : low <= w /\ w <= high} : low \in Words, high \in Words} \ {{}}

Started(memory) ==
  [memory |-> memory, write_log |-> [w \in Words |-> <<>>], state |-> [w \in Words |-> None]]
Persistent(memory) ==
  [writes |-> 0, survivors |-> [w \in Words |-> {memory[w]}], flushed |-> {}, skipped |-> {}]

Init ==
  /\ shared = Started([w \in Words |-> 0])
  /\ thread = "run"
  /\ history = Persistent(shared.memory)

(* state += : the map adds the statuses of an interval to those it has. *)
Plus(state, words, status) ==
  [w \in Words |-> IF w \notin words THEN state[w]
                   ELSE IF state[w] = None THEN status ELSE state[w] + status]

(* record_write runs before the store itself. *)
Write(words) ==
  LET value == history.writes + 1 IN
  /\ thread = "run"
  /\ value <= MaxWrites
  /\ shared' = [memory |-> [w \in Words |-> IF w \in words THEN value ELSE shared.memory[w]],
                write_log |-> [w \in Words |-> IF w \in words
                                 THEN Append(shared.write_log[w], shared.memory[w])
                                 ELSE shared.write_log[w]],
                state |-> Plus(shared.state, words, modified)]
  /\ history' = [history EXCEPT !.writes = value,
       !.survivors = [w \in Words |-> IF w \in words THEN @[w] \cup {value} ELSE @[w]]]
  /\ UNCHANGED thread

(* pmem_persist: record_flush ... *)
Flush(words) ==
  /\ thread = "run"
  /\ shared' = [shared EXCEPT !.state = Plus(@, words, writeback)]
  /\ thread' = "drain"
  /\ history' = [history EXCEPT !.flushed = words]

(* A mistaken Dropped: all the words the tool knows of. *)
Dropped_All(state) == {w \in Words : state[w] # None}

(* The words record_drain drops from write_log: those of the intervals     *)
(* written back, and by upper_bound(upper()) the word behind each one too. *)
Written(state) == {w \in Words : state[w] = writeback}
Dropped(state) == Written(state) \cup {w \in Words : w - 1 \in Written(state)}

(* ... and record_drain, with the drain behind it. *)
Drain ==
  LET done == Written(shared.state)
      dropped == Dropped(shared.state)
  IN
  /\ thread = "drain"
  /\ shared' = [shared EXCEPT
       !.write_log = [w \in Words |-> IF w \in dropped THEN <<>> ELSE @[w]],
       !.state = [w \in Words |-> IF w \in done THEN None ELSE @[w]]]
  /\ thread' = "run"
  /\ history' = [history EXCEPT
       !.survivors = [w \in Words |-> IF w \in history.flushed THEN {shared.memory[w]} ELSE @[w]],
       !.flushed = {},
       !.skipped = (@ \ history.flushed) \cup {w \in Words \ history.flushed :
                                                      w - 1 \in history.flushed /\ history.survivors[w] # {shared.memory[w]}}]

(* trigger_exit *)
Final ==
  /\ thread = "run"
  /\ thread' = "final"
  /\ UNCHANGED <<shared, history>>

(* make_test, in a drain chosen at random or in the end: every entry of    *)
(* the log is put back or not, in the order of the log, unless it is the   *)
(* only one.                                                               *)
Logged == FoldSet(LAMBDA w, n : n + Len(shared.write_log[w]), 0, Words)
MakeTest ==
  /\ thread \in {"drain", "final"}
  /\ IF Logged > 1
     THEN \E kept \in [Words -> 0..MaxWrites] :
            /\ \A w \in Words : kept[w] \in ToSet(shared.write_log[w]) \cup {shared.memory[w]}
            /\ shared' = [shared EXCEPT !.memory = kept]
     ELSE UNCHANGED shared
  /\ thread' = "exit"
  /\ UNCHANGED history

(* main.sh runs the tool again, on what is left: the words' values are     *)
(* numbered anew, what they are at the start being 0 for each.             *)
Restart ==
  /\ thread = "exit"
  /\ shared' = Started([w \in Words |-> 0])
  /\ thread' = "run"
  /\ history' = Persistent(shared'.memory)

Next ==
  \/ \E words \in Ranges : Write(words) \/ Flush(words)
  \/ Drain
  \/ Final
  \/ MakeTest
  \/ Restart

------------------------------------------------------------------------------
(* The memory the tool leaves is one a power failure can leave, and it can *)
(* leave every such value of a word, except of a word that follows a range *)
(* flushed while the word was not persistent.                              *)
UndoesWhatMayBeLost ==
  \A w \in Words :
    LET undone == ToSet(shared.write_log[w]) \cup {shared.memory[w]} IN
    IF thread = "exit" THEN shared.memory[w] \in history.survivors[w]
    ELSE /\ undone \subseteq history.survivors[w]
         /\ w \notin history.skipped => undone = history.survivors[w]
==============================================================================
