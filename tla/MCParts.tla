-------------------------------- MODULE MCParts --------------------------------
(***************************************************************************)
(* The constants of Parts that a .cfg cannot write: two of the four keys   *)
(* of the table have the same position, and one the last.                  *)
(***************************************************************************)
EXTENDS Parts

MCHash == [k \in TableKeys |-> IF k < 3 THEN 1 ELSE IF k = 3 THEN 2 ELSE 0]

(* Nothing tells the threads apart. *)
Symmetry == Permutations(Threads)
==============================================================================
