------------------------------- MODULE MCEngines -------------------------------
(***************************************************************************)
(* The constants of Engines that a .cfg cannot write: FirstEngine's keys   *)
(* have the same position, and it is the last; nvm_engine_paten has two    *)
(* clients, or one with or without failing writes.                         *)
(***************************************************************************)
EXTENDS Engines

CONSTANTS
  short, long,   \* values, and bytes of nvm_example's values
  Alone          \* the thread that is alone in some workloads

MCExampleKeys == {<<k>> : k \in Keys}
MCExampleValues == {<<short>>, <<short, long>>}
MCHash == [k \in Keys |-> 2]
MCWorkloads == {[clients |-> Threads, fails |-> FALSE],
                [clients |-> {Alone}, fails |-> TRUE], [clients |-> {Alone}, fails |-> FALSE]}
MCSizeOf == [v \in FirstValues |-> IF v = short THEN 80 ELSE 100]
==============================================================================
