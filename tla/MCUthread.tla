------------------------------ MODULE MCUthread ------------------------------
(* Small instances of Uthread for TLC: what the clients of each run do.      *)
EXTENDS Uthread

LifeCalls == {"yield", "create", "exit", "join", "detach"}

SyncCalls == {"yield", "create", "mtx", "cond"}

AllMistakes ==
  {"bad_prio", "bad_id", "touch_reaper", "second_join", "self_join", "detach_joined",
   "detach_zombie", "relock", "unlock_unowned", "exit_holding"}

\* Clients that keep to the rules.
RuleClient == LifeCalls \cup SyncCalls

\* Some that never detach and use no condition variable.
LiveClient == {"yield", "create", "exit", "join", "mtx"}

AnyClient == LifeCalls \cup SyncCalls \cup {"setprio"} \cup AllMistakes
=============================================================================
