-------------------------- MODULE MCPatentairEngine --------------------------
(* Two pairs of files and two keys, with one client and crashes, or with   *)
(* two clients and none.                                                   *)
EXTENDS PatentairEngine

CONSTANTS t1, t2

MCThreads == {t1, t2}
OneClient == [clients |-> {t1}, sets |-> 4, crashes |-> 2]
TwoClients == [clients |-> {t1, t2}, sets |-> 3, crashes |-> 0]
MCWorkloads == {OneClient, TwoClients}
MCOneClient == {OneClient}
==============================================================================
