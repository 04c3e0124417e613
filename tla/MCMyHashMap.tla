----------------------------- MODULE MCMyHashMap -----------------------------
(* A table of four positions and three keys: two of them hash to the last  *)
(* position, so that the second is stored at position 0, where the third   *)
(* hashes to.                                                              *)
EXTENDS MyHashMap, TLC

CONSTANTS k1, k2, k3

MCKeys == {k1, k2, k3}
MCHash == k1 :> 3 @@ k2 :> 3 @@ k3 :> 0
==============================================================================
