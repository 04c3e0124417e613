------------------------------- MODULE AutoAlloc -------------------------------
(***************************************************************************)
(* test/auto_alloc: an allocator that hands out memory from the end of its *)
(* current block downwards, remembers destructors, and frees everything in *)
(* Clear, here one destructor call or one free() at a time.                *)
(***************************************************************************)
EXTENDS Integers, Sequences, SequencesExt

CONSTANTS
  BlockSize, NodeSize,   \* 2048, and sizeof(_DestroyNode)
  Sizes,                 \* the sizes asked for
  MaxBlocks              \* the bound on blocks

VARIABLES
  shared,    \* [chain: the blocks by pPrev, free: m_end - m_begin, destroy: m_destroyChain]
  thread,    \* "alloc", or the loop Clear is in
  history    \* [size: of every block, regions: live ones, freed: the blocks freed]

vars == <<shared, thread, history>>

Init ==
  /\ shared = [chain |-> <<>>, free |-> 0, destroy |-> <<>>]
  /\ thread = "alloc"
  /\ history = [size |-> <<>>, regions |-> {}, freed |-> <<>>]

(* pNew becomes the current block, or, being large, the one behind it. *)
Behind(chain, new) == IF chain = <<>> THEN <<new>> ELSE InsertAt(chain, 2, new)

(* Alloc(cb), which the other Alloc calls for a node and cb bytes. *)
Alloc(cb, destructor) ==
  LET new == Len(history.size) + 1
      Hands(block, from) == [block |-> block, from |-> from, to |-> from + cb]
      Done(s, size, region) ==
        /\ shared' = [s EXCEPT !.destroy = IF destructor THEN <<region>> \o @ ELSE @]
        /\ history' = [history EXCEPT !.size = size, !.regions = @ \cup {region}]
  IN
  /\ thread = "alloc"
  /\ cb > shared.free => new <= MaxBlocks
  /\ CASE cb <= shared.free ->
            Done([shared EXCEPT !.free = @ - cb], history.size,
                 Hands(Head(shared.chain), shared.free - cb))
       [] cb > shared.free /\ cb >= BlockSize ->
            Done([shared EXCEPT !.chain = Behind(@, new)], Append(history.size, cb), Hands(new, 0))
       [] OTHER ->
            Done([shared EXCEPT !.chain = <<new>> \o @, !.free = BlockSize - cb],
                 Append(history.size, BlockSize), Hands(new, BlockSize - cb))
  /\ UNCHANGED thread

AllocWithDestructor(cb) == Alloc(NodeSize + cb, TRUE)

Clear ==
  /\ thread = "alloc"
  /\ thread' = "destroy"
  /\ UNCHANGED <<shared, history>>

Destroy ==
  /\ thread = "destroy" /\ shared.destroy # <<>>
  /\ shared' = [shared EXCEPT !.destroy = Tail(@)]
  /\ history' = [history EXCEPT !.regions = @ \ {Head(shared.destroy)}]
  /\ UNCHANGED thread

(* The second loop of Clear begins when the first has no node left. *)
Free ==
  /\ thread = "destroy" /\ shared.destroy = <<>> /\ shared.chain # <<>>
  /\ shared' = [shared EXCEPT !.chain = Tail(@)]
  /\ history' = [history EXCEPT !.freed = Append(@, Head(shared.chain)),
                                !.regions = {r \in @ : r.block # Head(shared.chain)}]
  /\ UNCHANGED thread

Cleared ==
  /\ thread = "destroy" /\ shared.destroy = <<>> /\ shared.chain = <<>>
  /\ shared' = [shared EXCEPT !.free = 0]
  /\ thread' = "alloc"
  /\ history' = [size |-> <<>>, regions |-> {}, freed |-> <<>>]

Next ==
  \/ \E cb \in Sizes : Alloc(cb, FALSE)
  \/ \E cb \in Sizes : AllocWithDestructor(cb)
  \/ Clear
  \/ Destroy
  \/ Free
  \/ Cleared

------------------------------------------------------------------------------
(* Live regions share no byte; every block is on the chain or was freed,   *)
(* once; and no destructor that is still to run has lost its memory.       *)
NothingLeaksOrOverlaps ==
  LET blocks == shared.chain \o history.freed IN
  /\ \A r, s \in history.regions :
       r = s \/ r.block # s.block \/ r.to <= s.from \/ s.to <= r.from
  /\ \A r \in history.regions : r.from >= 0 /\ r.to <= history.size[r.block]
  /\ IsInjective(blocks) /\ ToSet(blocks) = DOMAIN history.size
  /\ \A i \in DOMAIN shared.destroy : ~Contains(history.freed, shared.destroy[i].block)
==============================================================================
