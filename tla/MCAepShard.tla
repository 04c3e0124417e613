------------------------------ MODULE MCAepShard ------------------------------
(* A small shard: two keys, a value of 80 and one of 110 bytes, which need *)
(* items of 128 (chunk 0) and 160 bytes (chunk 1).                         *)
EXTENDS AepShard, TLC

CONSTANTS a, b, x, y, short, long

MCKeys == {<<a, x>>, <<a, y>>}
MCMixedKeys == {<<a, x>>, <<b, y>>}
MCValues == {short, long}
MCSizeOf == short :> 80 @@ long :> 110
MCShort == {short}
MCShortSize == short :> 80
MCZero == 0
==============================================================================
