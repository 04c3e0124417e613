-------------------------------- MODULE Engines --------------------------------
(***************************************************************************)
(* The engines behind include/db.hpp: nvm_engine_latest as a whole, and    *)
(* those before it and beside it.  The makefile links one of them,         *)
(* TARGET_ENGINE, to the judge; `engine' is that choice.  Each has a       *)
(* module of its own, over the same variables: what is on the disk or in   *)
(* persistent memory, what is in DRAM, the callers, the last answer, and   *)
(* history.                                                                *)
(***************************************************************************)
EXTENDS Integers, Sequences, FiniteSets

CONSTANTS
  Keys,                      \* the keys of all engines but nvm_engine_p7 and nvm_example
  Threads,
  Reserve, MaxSets, MaxStops,   \* LatestEngine's
  V, K, PeipeiSets,             \* PeipeiEngine's
  MaxFile, PatenSets, Workloads,   \* PatenEngine's
  ExampleKeys, ExampleValues, ExampleSize,   \* ExampleEngine's
  FirstValues, SizeOf, Hash, Slots, FileSize, CntMod, FirstSets,   \* FirstEngine's
  Zero, Foreign, NotFound, Nothing

ASSUME EnginesAssumption ==
  /\ Reserve \in Nat /\ MaxSets \in Nat
  /\ NotFound \notin Nat /\ Nothing \notin Keys

ASSUME PeipeiAssumption ==
  /\ V \in Nat \ {0} /\ K \in Nat \ {0} /\ PeipeiSets \in Nat /\ Nothing \notin Keys
  /\ \A k \in Keys, a \in 1..PeipeiSets, d \in BOOLEAN :
       [key |-> k, answer |-> a, done |-> d] # Nothing

ASSUME FirstAssumption ==
  /\ SizeOf \in [FirstValues -> Nat] /\ FileSize \in Nat
  /\ Slots \in Nat \ {0} /\ Hash \in [Keys -> 0..Slots - 1]
  /\ IsFiniteSet(Keys) /\ Cardinality(Keys) <= Slots
  /\ CntMod \in Nat \ {0, 1} /\ FirstSets \in Nat /\ Nothing \notin Keys

ASSUME PatenAssumption ==
  /\ MaxFile \in Nat \ {0} /\ PatenSets \in Nat
  /\ Workloads \subseteq [clients : SUBSET Threads, fails : BOOLEAN]
  /\ Nothing \notin Nat \X Nat
  /\ Nothing \notin [file : 0..MaxFile - 1, off : Nat, value : Nat, right : BOOLEAN]

ASSUME ExampleAssumption ==
  /\ ExampleSize \in Nat
  /\ \A s \in ExampleKeys \cup ExampleValues : Len(s) \in Nat /\ s = [i \in 1..Len(s) |-> s[i]]
  /\ Nothing \notin ExampleKeys
  /\ Nothing \notin [key : ExampleKeys, answer : ExampleValues, done : BOOLEAN]

VARIABLES engine, disk, mem, client, reply, ghost

state == <<disk, mem, client, reply, ghost>>
vars == <<engine, state>>

First == INSTANCE FirstEngine WITH Values <- FirstValues, MaxSets <- FirstSets

P7 == INSTANCE P7Engine WITH
  Keys <- 1..3, KeyMod <- 4, MaxLengthInsertSort <- 2, N <- 4, P <- 2, Enlarged <- 7,
  MaxSets <- 5, Kinds <- {"even", "odd", "cached"}

Peipei == INSTANCE PeipeiEngine WITH MaxSets <- PeipeiSets

Paten == INSTANCE PatenEngine WITH MaxSets <- PatenSets

Latest == INSTANCE LatestEngine

Example == INSTANCE ExampleEngine WITH Keys <- ExampleKeys, Values <- ExampleValues, Size <- ExampleSize

Init ==
  \/ engine = "nvm_engine" /\ First!Init
  \/ engine = "nvm_engine_p7" /\ P7!Init
  \/ engine = "nvm_engine_peipei" /\ Peipei!Init /\ ghost = Nothing
  \/ engine = "nvm_engine_paten" /\ Paten!Init
  \/ engine = "nvm_engine_latest" /\ Latest!Init
  \/ engine = "nvm_example" /\ Example!Init /\ ghost = Nothing

FirstStep == engine = "nvm_engine" /\ First!Next
P7Step == engine = "nvm_engine_p7" /\ P7!Next
PeipeiStep == engine = "nvm_engine_peipei" /\ Peipei!Next /\ UNCHANGED ghost
PatenStep == engine = "nvm_engine_paten" /\ Paten!Next
LatestStep == engine = "nvm_engine_latest" /\ Latest!Next
ExampleStep == engine = "nvm_example" /\ Example!Next /\ UNCHANGED ghost

Next ==
  /\ FirstStep \/ P7Step \/ PeipeiStep \/ PatenStep \/ LatestStep \/ ExampleStep
  /\ UNCHANGED engine

Spec == Init /\ [][Next]_vars

------------------------------------------------------------------------------
TypeOK ==
  /\ engine = "nvm_engine" => First!TypeOK
  /\ engine = "nvm_engine_p7" => P7!TypeOK
  /\ engine = "nvm_engine_peipei" => Peipei!TypeOK
  /\ engine = "nvm_engine_paten" => Paten!TypeOK
  /\ engine = "nvm_engine_latest" => Latest!TypeOK
  /\ engine = "nvm_example" => Example!TypeOK

(* nvm_engine: over any Sets, kills and recoveries a key has the value of  *)
(* its last record, as long as its one-byte count has not wrapped.         *)
FirstKeepsTheLatest == engine = "nvm_engine" => First!KeepsTheLatest

(* nvm_engine: every item is in the index or in its free list, and once.   *)
FirstItemsOwnedOnce == engine = "nvm_engine" => First!ItemsOwnedOnce

(* nvm_engine_p7: a Get finds the last value its key had at the open.      *)
P7AnswersAreLatest == engine = "nvm_engine_p7" => P7!AnswersAreLatest

(* nvm_engine_paten: an Index whose record is where it was to go leads to  *)
(* its value, and no key is lost by a kill.                                *)
PatenIndexesLeadToValues == engine = "nvm_engine_paten" => Paten!IndexesLeadToValues

(* nvm_engine_latest: a Get that no Set of its key overlaps answers with   *)
(* what the key has, though threads recycle and reuse items beside it, and *)
(* a kill keeps every record that has no hole before it.                   *)
LatestUndisturbedGetsAreCurrent == engine = "nvm_engine_latest" => Latest!UndisturbedGetsAreCurrent

(* nvm_example is a durable store for a client whose process may be killed *)
(* at any store.                                                           *)
ExampleOn == engine = "nvm_example"
ExampleStore == INSTANCE KVStore WITH
  Keys <- ExampleKeys, Answers <- ExampleValues,
  store <- IF ExampleOn THEN Example!Logged ELSE [k \in ExampleKeys |-> NotFound],
  call <- IF ExampleOn THEN Example!Call ELSE Nothing,
  up <- IF ExampleOn THEN client.op # "open" ELSE TRUE,
  reply <- IF ExampleOn THEN reply ELSE Nothing
ExampleImplementsKVStore == ExampleStore!Spec

(* nvm_engine_peipei answers from what it held when it was opened, and     *)
(* keeps every Set that returned for the next opening.                     *)
PeipeiOn == engine = "nvm_engine_peipei"
PeipeiStore == INSTANCE PhasedStore WITH
  Answers <- 1..PeipeiSets,
  durable <- IF PeipeiOn THEN Peipei!Durable ELSE [k \in Keys |-> NotFound],
  snapshot <- IF PeipeiOn THEN Peipei!Snapshot ELSE [k \in Keys |-> NotFound],
  call <- IF PeipeiOn THEN Peipei!Call ELSE Nothing,
  up <- IF PeipeiOn THEN Peipei!Up ELSE TRUE,
  reply <- IF PeipeiOn THEN reply ELSE Nothing
PeipeiImplementsPhasedStore == PeipeiStore!Spec
==============================================================================
