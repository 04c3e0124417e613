---------------------------- MODULE MCHotKeyPool ----------------------------
(* Three keys, two of which share an entry of the pool, and two values of  *)
(* different sizes.                                                        *)
EXTENDS HotKeyPool, TLC

CONSTANTS k1, k2, k3, short, long, t1, t2

MCKeys == {k1, k2, k3}
MCValues == {short, long}
MCSizeOf == short :> 80 @@ long :> 110
MCHotHash == k1 :> 0 @@ k2 :> 0 @@ k3 :> 1
MCOneKey == {k1}
MCOneHotHash == k1 :> 0
==============================================================================
