--------------------------------- MODULE Arena ---------------------------------
(***************************************************************************)
(* The allocator of the skip lists (arena.h and arena.cpp, the same in     *)
(* nvm_engine_paten and nvm_engine_patentair).  An address is a block and  *)
(* an offset in it; `new' returns aligned blocks.                          *)
(***************************************************************************)
EXTENDS Integers, Sequences

CONSTANTS
  kBlockSize, align,   \* 4096 and 8 in the code
  Sizes,               \* the sizes asked for
  MaxBlocks            \* the bound on blocks

VARIABLES
  shared,    \* [blocks_: their sizes, block, alloc_ptr_, alloc_bytes_remaining_, memory_usage_]
  history    \* the regions handed out: [block, from, to, aligned]

vars == <<shared, history>>

Init ==
  /\ shared = [blocks_ |-> <<>>, block |-> 0, alloc_ptr_ |-> 0,
               alloc_bytes_remaining_ |-> 0, memory_usage_ |-> 0]
  /\ history = {}

HandsOut(block, from, bytes, aligned) ==
  history' = history \cup {[block |-> block, from |-> from, to |-> from + bytes, aligned |-> aligned]}

Bump(bytes, slop, aligned) ==
  /\ shared' = [shared EXCEPT !.alloc_ptr_ = @ + slop + bytes,
                              !.alloc_bytes_remaining_ = @ - slop - bytes]
  /\ HandsOut(shared.block, shared.alloc_ptr_ + slop, bytes, aligned)

(* AllocateNewBlock; a pointer is counted as one more unit. *)
WithNewBlock(bytes) ==
  [shared EXCEPT !.blocks_ = Append(@, bytes), !.memory_usage_ = @ + bytes + 1]

(* A block of its own for a large object, and a new current one for others. *)
AllocateFallback(bytes, aligned) ==
  LET block == Len(shared.blocks_) + 1 IN
  /\ Len(shared.blocks_) < MaxBlocks
  /\ shared' = IF bytes > kBlockSize \div 4 THEN WithNewBlock(bytes)
               ELSE [WithNewBlock(kBlockSize) EXCEPT
                       !.block = block, !.alloc_ptr_ = bytes,
                       !.alloc_bytes_remaining_ = kBlockSize - bytes]
  /\ HandsOut(block, 0, bytes, aligned)

Allocate(bytes) ==
  IF bytes <= shared.alloc_bytes_remaining_ THEN Bump(bytes, 0, FALSE)
  ELSE AllocateFallback(bytes, FALSE)

(* The bytes before the next aligned address. *)
Slop == (align - (shared.alloc_ptr_ % align)) % align

(* A mistaken one: the slop is not counted. *)
AllocateAligned_NoSlop(bytes) ==
  IF bytes <= shared.alloc_bytes_remaining_ THEN Bump(bytes, Slop, TRUE)
  ELSE AllocateFallback(bytes, TRUE)

AllocateAligned(bytes) ==
  IF bytes + Slop <= shared.alloc_bytes_remaining_ THEN Bump(bytes, Slop, TRUE)
  ELSE AllocateFallback(bytes, TRUE)

(* ~Arena, and the next list's Arena. *)
Delete ==
  /\ shared.blocks_ # <<>>
  /\ shared' = [blocks_ |-> <<>>, block |-> 0, alloc_ptr_ |-> 0,
                alloc_bytes_remaining_ |-> 0, memory_usage_ |-> 0]
  /\ history' = {}

Next ==
  \/ \E bytes \in Sizes : Allocate(bytes)
  \/ \E bytes \in Sizes : AllocateAligned(bytes)
  \/ Delete

------------------------------------------------------------------------------
Apart(r, s) == r.block # s.block \/ r.to <= s.from \/ s.to <= r.from

(* Over any allocations what is handed out lies in its block, is aligned   *)
(* if it is to be, and shares no byte with anything else.                  *)
RegionsApart ==
  /\ \A r, s \in history : r = s \/ Apart(r, s)
  /\ \A r \in history : /\ r.to <= shared.blocks_[r.block]
                        /\ r.aligned => r.from % align = 0
==============================================================================
