------------------------------- MODULE KVStore -------------------------------
(***************************************************************************)
(* What include/db.hpp and README.md promise of one engine used by one     *)
(* client: Get answers with the value of the latest Set of its key, or     *)
(* NotFound, and a restart loses no Set that returned.  A Set that was     *)
(* interrupted has either happened or not happened, as a whole.            *)
(*                                                                         *)
(* This is the abstract specification; the engines' modules instantiate it *)
(* with a refinement mapping.                                              *)
(***************************************************************************)
CONSTANTS
  Keys,      \* the keys a client uses
  Answers,   \* what a Get can return with status Ok
  NotFound,  \* the status of a Get that finds no value
  Nothing    \* no call in progress; no answer outstanding

VARIABLES
  store,     \* key -> the answer a Get of it owes the client
  call,      \* the Set in progress: [key, answer, done], or Nothing
  up,        \* the engine is open (FALSE from a crash until recovery ends)
  reply      \* the answer of the Get that has just returned, or Nothing

vars == <<store, call, up, reply>>

(* A database that was created, or opened with what it held. *)
Init ==
  /\ store \in [Keys -> Answers \cup {NotFound}]
  /\ call = Nothing
  /\ up = TRUE
  /\ reply = Nothing

(* Set is called: from here on the new value may become visible. *)
Begin(k, a) ==
  /\ up
  /\ call = Nothing
  /\ call' = [key |-> k, answer |-> a, done |-> FALSE]
  /\ reply' = Nothing
  /\ UNCHANGED <<store, up>>

(* The one moment at which a Set takes effect. *)
Apply ==
  /\ call # Nothing
  /\ ~call.done
  /\ store' = [store EXCEPT ![call.key] = call.answer]
  /\ call' = [call EXCEPT !.done = TRUE]
  /\ reply' = Nothing
  /\ UNCHANGED up

(* Set returns Ok, which it may do only after it took effect. *)
Return ==
  /\ call # Nothing
  /\ call.done
  /\ call' = Nothing
  /\ reply' = Nothing
  /\ UNCHANGED <<store, up>>

(* Get(k): the client has one thread, so no Set is in progress. *)
Get(k) ==
  /\ up
  /\ call = Nothing
  /\ reply' = store[k]
  /\ UNCHANGED <<store, call, up>>

(* The machine stops.  A Set in progress has happened, or it has not. *)
Crash ==
  /\ \/ UNCHANGED store
     \/ /\ call # Nothing
        /\ store' = [store EXCEPT ![call.key] = call.answer]
  /\ call' = Nothing
  /\ up' = FALSE
  /\ reply' = Nothing

(* CreateOrOpen returns: the engine answers again, from what it recovered. *)
Recovered ==
  /\ ~up
  /\ up' = TRUE
  /\ reply' = Nothing
  /\ UNCHANGED <<store, call>>

Next ==
  \/ \E k \in Keys, a \in Answers : Begin(k, a)
  \/ Apply
  \/ Return
  \/ \E k \in Keys : Get(k)
  \/ Crash
  \/ Recovered

Spec == Init /\ [][Next]_vars

==============================================================================
