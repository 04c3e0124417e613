------------------------------ MODULE PhasedStore ------------------------------
(***************************************************************************)
(* What an engine promises that is filled in one run of the program and    *)
(* read in the next, as in the phases of the judge: a Get answers with     *)
(* what the store held when it was opened, and the Sets since then are     *)
(* there at the next opening, the one that was interrupted as a whole or   *)
(* not at all.  KVStore without reading one's own writes.                  *)
(***************************************************************************)
CONSTANTS Keys, Answers, NotFound, Nothing

VARIABLES
  durable,    \* key -> what the next opening will find
  snapshot,   \* key -> what the last opening found
  call,       \* the Set in progress: [key, answer, done], or Nothing
  up,         \* the engine is open
  reply       \* the answer of the Get that has just returned, or Nothing

vars == <<durable, snapshot, call, up, reply>>

Init ==
  /\ durable \in [Keys -> Answers \cup {NotFound}]
  /\ snapshot = durable
  /\ call = Nothing
  /\ up \in BOOLEAN
  /\ reply = Nothing

Begin(k, a) ==
  /\ up
  /\ call = Nothing
  /\ call' = [key |-> k, answer |-> a, done |-> FALSE]
  /\ reply' = Nothing
  /\ UNCHANGED <<durable, snapshot, up>>

Apply ==
  /\ call # Nothing
  /\ ~call.done
  /\ durable' = [durable EXCEPT ![call.key] = call.answer]
  /\ call' = [call EXCEPT !.done = TRUE]
  /\ reply' = Nothing
  /\ UNCHANGED <<snapshot, up>>

Return ==
  /\ call # Nothing
  /\ call.done
  /\ call' = Nothing
  /\ reply' = Nothing
  /\ UNCHANGED <<durable, snapshot, up>>

Get(k) ==
  /\ up
  /\ call = Nothing
  /\ reply' = snapshot[k]
  /\ UNCHANGED <<durable, snapshot, call, up>>

(* The program stops: a Set in progress takes effect or does not.  What    *)
(* the store answers in the next run is settled when that run opens it.    *)
Crash ==
  /\ \/ UNCHANGED durable
     \/ /\ call # Nothing
        /\ durable' = [durable EXCEPT ![call.key] = call.answer]
  /\ snapshot' \in {snapshot, [k \in Keys |-> NotFound]}
  /\ call' = Nothing
  /\ up' = FALSE
  /\ reply' = Nothing

Recovered ==
  /\ ~up
  /\ up' = TRUE
  /\ snapshot' = durable
  /\ reply' = Nothing
  /\ UNCHANGED <<durable, call>>

Next ==
  \/ \E k \in Keys, a \in Answers : Begin(k, a)
  \/ Apply
  \/ Return
  \/ \E k \in Keys : Get(k)
  \/ Crash
  \/ Recovered

Spec == Init /\ [][Next]_vars
==============================================================================
