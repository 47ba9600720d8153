-------------------------- MODULE MCSnowcastServer --------------------------
(* Small instances of SnowcastServer for TLC.                                *)
EXTENDS SnowcastServer, TLC

\* The entries of g_clients, and the addresses malloc returns, are alike.
Alike == Permutations(Slots) \cup Permutations(Stations)
=============================================================================
