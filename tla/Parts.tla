--------------------------------- MODULE Parts ---------------------------------
(***************************************************************************)
(* What stands beside the engines or inside of one, each part in a module  *)
(* of its own, over the same variables: what is shared, what the threads   *)
(* are doing, and history.  `part' is the one looked at; the parts do not  *)
(* meet, and Put is all that happens to a log before it is sorted.         *)
(***************************************************************************)
EXTENDS Integers, Sequences, TLC

CONSTANTS
  Threads,
  ListKeys, kMaxHeight, MaxInserts,                \* SkipList's
  TableKeys, Hash, BUCKET_MAX, BUCKET_PER_MUTEX,   \* BucketTable's
  kBlockSize, align,                               \* Arena's
  BlockSize, NodeSize,                             \* AutoAlloc's
  Sizes, MaxBlocks,                                \* of both
  Words,                                           \* PmemTracer's
  MaxSets, MaxWrites,                              \* the bounds of the two
  NotFound, Ok, OutOfMemory, Nothing

ASSUME PartsAssumption ==
  /\ BUCKET_MAX \in Nat \ {0} /\ Hash \in [TableKeys -> 0..BUCKET_MAX - 1]
  /\ Nothing \notin TableKeys \cup Threads /\ Nothing \notin Nat /\ NotFound \notin Nat
  /\ kBlockSize \in Nat /\ align \in Nat \ {0} /\ BlockSize \in Nat /\ NodeSize \in Nat
  /\ Sizes \subseteq Nat \ {0} /\ Words \subseteq Int
  /\ ListKeys \subseteq Int /\ kMaxHeight \in Nat \ {0} /\ MaxInserts \in Nat

VARIABLES part, shared, thread, history

state == <<shared, thread, history>>
vars == <<part, state>>

List == INSTANCE SkipList WITH Keys <- ListKeys

Table == INSTANCE BucketTable WITH Keys <- TableKeys

Blocks == INSTANCE Arena

Objects == INSTANCE AutoAlloc

Tracer == INSTANCE PmemTracer WITH None <- Nothing

Index == INSTANCE SortLog WITH KeyMod <- 4, MaxLengthInsertSort <- 2
Murmur == INSTANCE MurmurHash3

Digest == INSTANCE XXHash WITH MaxInput <- 70, Pieces <- {1, 7, 15, 16, 17, 31, 32, 33}

MaxLog == 6          \* the bound on the entries of a log

Init ==
  \/ part = "skiplist" /\ List!Init
  \/ part = "yet_another_nvm_example" /\ Table!Init
  \/ part = "arena" /\ Blocks!Init /\ thread = Nothing
  \/ part = "auto_alloc" /\ Objects!Init
  \/ part = "MyPinTool" /\ Tracer!Init
  \/ part = "SortLog" /\ shared = <<>> /\ thread = Nothing /\ history = Nothing
  \/ part = "algorithm" /\ Digest!Init /\ thread = Nothing

(* A key is put into a log; a full one makes way for an empty one. *)
Put(key) ==
  /\ shared' = IF Len(shared) < MaxLog THEN Append(shared, key) ELSE <<>>
  /\ UNCHANGED <<thread, history>>

ListStep == part = "skiplist" /\ List!Next
TableStep == part = "yet_another_nvm_example" /\ Table!Next
BlocksStep == part = "arena" /\ Blocks!Next /\ UNCHANGED thread
ObjectsStep == part = "auto_alloc" /\ Objects!Next
TracerStep == part = "MyPinTool" /\ Tracer!Next
DigestStep == part = "algorithm" /\ Digest!Next /\ UNCHANGED thread
IndexStep == part = "SortLog" /\ \E key \in 0..3 : Put(key)

Next ==
  /\ ListStep \/ TableStep \/ BlocksStep \/ ObjectsStep \/ TracerStep \/ IndexStep \/ DigestStep
  /\ UNCHANGED part

Spec == Init /\ [][Next]_vars

------------------------------------------------------------------------------
(* The levels of a skip list are sorted parts of each other, while an      *)
(* Insert links its node; a Get sees every Insert that returned before it  *)
(* began, and an iterator passes over no key of such an Insert.            *)
SkipListIsSearchable ==
  part = "skiplist" => List!LevelsAgree /\ List!AnswersAreCurrent /\ List!WalksMissNothing

(* The calls of yet_another_nvm_example, which hand over from mutex to     *)
(* mutex, are atomic.                                                      *)
TableCallsAreAtomic == part = "yet_another_nvm_example" => Table!CallsAreAtomic

(* The allocators hand out every byte once and lose no block.              *)
AllocationsApart ==
  /\ part = "arena" => Blocks!RegionsApart
  /\ part = "auto_alloc" => Objects!NothingLeaksOrOverlaps

(* The persistence judge undoes what a power failure may undo.             *)
TracerUndoesWhatMayBeLost == part = "MyPinTool" => Tracer!UndoesWhatMayBeLost

(* The sorted index of nvm_engine_p7 leads to the last entry of a key.     *)
IndexFindsTheLast == part = "SortLog" => Index!FindsTheLast(shared)

(* A hash does not depend on how its input is cut into pieces, and takes   *)
(* in every byte of it, once and at its place.                             *)
HashesTakeInTheInput ==
  part = "algorithm" => Digest!StreamIsOneShot /\ Murmur!MixesEveryByte(Digest!Input(1, history))
==============================================================================
