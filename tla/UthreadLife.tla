----------------------------- MODULE UthreadLife -----------------------------
(* The life of a thread, uthread.c: uthread_create, uthread_exit,            *)
(* uthread_join, uthread_detach, and the reaper that frees dead threads.     *)
EXTENDS UthreadSched

CONSTANT MaxCreate  \* bound on the threads created after main

ASSUME CreateAssumption == MaxCreate \in Nat

VARIABLES ut_has_exited,  \* uthreads[i].ut_has_exited
          ut_exit,        \* uthreads[i].ut_exit
          ut_detached,    \* uthreads[i].ut_detached
          ut_waiter,      \* uthreads[i].ut_waiter
          ut_stack,       \* uthreads[i].ut_stack is not NULL
          stacks,         \* number of stacks on the heap
          reap_queue,     \* dead threads for the reaper, oldest first
          join_uid,       \* the uid argument of a blocked uthread_join, or NULL
          created,        \* history: number of threads created
          born,           \* history: which creation made the thread in a slot
          join_born       \* history: born[uid] when uthread_join(uid) was called

lifeVars == <<ut_has_exited, ut_exit, ut_detached, ut_waiter, ut_stack, stacks,
              reap_queue, join_uid, created, born, join_born>>

\* Exit statuses are abstracted to the creation number of the thread that
\* exits, so that a status tells whose it is.
Births == 0..(MaxCreate + 2)

LifeTypeOK ==
  /\ ut_has_exited \in [Slots -> BOOLEAN]
  /\ ut_exit \in [Slots -> Births]
  /\ ut_detached \in [Slots -> BOOLEAN]
  /\ ut_waiter \in [Slots -> Slots \cup {NULL}]
  /\ ut_stack \in [Slots -> BOOLEAN]
  /\ stacks \in Int
  /\ reap_queue \in Seq(Slots)
  /\ join_uid \in [Slots -> Slots \cup {NULL}]
  /\ created \in Births
  /\ born \in [Slots -> Births]
  /\ join_born \in [Slots -> Births]

\* reaper_init and create_first_thr; main is detached.
LifeInit ==
  /\ ut_has_exited = [t \in Slots |-> FALSE]
  /\ ut_exit = [t \in Slots |-> 0]
  /\ ut_detached = [t \in Slots |-> t = main_thr]
  /\ ut_waiter = [t \in Slots |-> NULL]
  /\ ut_stack = [t \in Slots |-> FALSE]
  /\ stacks = 2
  /\ reap_queue = << >>
  /\ join_uid = [t \in Slots |-> NULL]
  /\ created = 2
  /\ born = [t \in Slots |->
               IF t = reaper_thr_id THEN 1 ELSE IF t = main_thr THEN 2 ELSE 0]
  /\ join_born = [t \in Slots |-> 0]

-----------------------------------------------------------------------------
\* Mutant: the state is not looked at.
MutantIsAllocated(uid) ==
  /\ uid \in Slots
  /\ \A s \in Slots : s < uid => ut_state[s] # "NO_STATE"

\* uthread_alloc: the first free slot.
IsAllocated(uid) ==
  /\ uid \in Slots
  /\ ut_state[uid] = "NO_STATE"
  /\ \A s \in Slots : s < uid => ut_state[s] # "NO_STATE"

\* Mutant: has_exited is left as it was.
MutantClearSlot(uid) ==
  /\ ut_exit' = [ut_exit EXCEPT ![uid] = 0]
  /\ ut_detached' = [ut_detached EXCEPT ![uid] = FALSE]
  /\ ut_waiter' = [ut_waiter EXCEPT ![uid] = NULL]
  /\ ut_stack' = [ut_stack EXCEPT ![uid] = FALSE]
  /\ UNCHANGED ut_has_exited

\* memset(&uthreads[uid], 0, ...), the fields of this module.
ClearSlot(uid) ==
  /\ ut_has_exited' = [ut_has_exited EXCEPT ![uid] = FALSE]
  /\ ut_exit' = [ut_exit EXCEPT ![uid] = 0]
  /\ ut_detached' = [ut_detached EXCEPT ![uid] = FALSE]
  /\ ut_waiter' = [ut_waiter EXCEPT ![uid] = NULL]
  /\ ut_stack' = [ut_stack EXCEPT ![uid] = FALSE]

\* uthread_create fills slot uid.  The stack is allocated, but its address is
\* only given to the context: ut_stack stays NULL, as memset left it.
Create(thr, uid, prio) ==
  /\ May("create")
  /\ Running(thr, "user")
  /\ created < MaxCreate + 2
  /\ prio \in Prios
  /\ IsAllocated(uid)
  /\ ut_state' = [ut_state EXCEPT ![uid] = "RUNNABLE"]
  /\ ut_prio' = [ut_prio EXCEPT ![uid] = prio]
  /\ ut_errno' = [ut_errno EXCEPT ![uid] = "0"]
  /\ runq_table' = EnqueueOn(runq_table, prio, uid)
  /\ ctx' = [ctx EXCEPT ![uid] = "user"]
  /\ ClearSlot(uid)
  /\ stacks' = stacks + 1
  /\ created' = created + 1
  /\ born' = [born EXCEPT ![uid] = created + 1]
  /\ UNCHANGED <<ut_curthr, switching, status, reap_queue, join_uid, join_born>>

\* No slot is free: uthread_create returns -1.
CreateFull(thr) ==
  /\ May("create")
  /\ Running(thr, "user")
  /\ \A s \in Slots : ut_state[s] # "NO_STATE"
  /\ UNCHANGED <<schedVars, lifeVars>>

\* uthread_setprio refuses the priority.  The slot is RUNNABLE by then, but on
\* no queue and without a context; write() is usr_write, which yields, and when
\* the thread runs again it calls exit(EXIT_FAILURE).
CreateBadPrio(thr, uid) ==
  /\ May("create") /\ May("bad_prio")
  /\ Running(thr, "user")
  /\ created < MaxCreate + 2
  /\ IsAllocated(uid)
  /\ ut_state' = [ut_state EXCEPT ![uid] = "RUNNABLE", ![thr] = "RUNNABLE"]
  /\ ut_prio' = [ut_prio EXCEPT ![uid] = 0]
  /\ ut_errno' = [ut_errno EXCEPT ![uid] = "0", ![thr] = "EINVAL"]
  /\ runq_table' = EnqueueOn(runq_table, ut_prio[thr], thr)
  /\ ctx' = [ctx EXCEPT ![uid] = "none", ![thr] = "create_failed"]
  /\ switching' = TRUE
  /\ created' = created + 1
  /\ born' = [born EXCEPT ![uid] = created + 1]
  /\ ClearSlot(uid)
  /\ UNCHANGED <<ut_curthr, status, stacks, reap_queue, join_uid, join_born>>

CreateFailed(thr) ==
  /\ Running(thr, "create_failed")
  /\ status' = "failure"
  /\ UNCHANGED <<ut_state, ut_prio, ut_errno, runq_table, ut_curthr, switching,
                 ctx, lifeVars>>

\* A switch to a thread without a context.
RunNoContext(thr) ==
  /\ Running(thr, "none")
  /\ status' = "corrupt"
  /\ UNCHANGED <<ut_state, ut_prio, ut_errno, runq_table, ut_curthr, switching,
                 ctx, lifeVars>>

-----------------------------------------------------------------------------
\* uthread_exit: a detached thread goes to the reaper, another one wakes the
\* thread that waits to join it.
Exit(thr) ==
  LET dead == [ut_state EXCEPT ![thr] = "ZOMBIE"]
      woken == IF ut_detached[thr] THEN reaper_thr_id ELSE ut_waiter[thr]
  IN  /\ May("exit")
      /\ Running(thr, "user")
      /\ ut_exit' = [ut_exit EXCEPT ![thr] = born[thr]]
      /\ ut_has_exited' = [ut_has_exited EXCEPT ![thr] = TRUE]
      /\ reap_queue' = IF ut_detached[thr] THEN list_insert_tail(reap_queue, thr)
                                           ELSE reap_queue
      /\ IF woken = NULL
         THEN ut_state' = dead /\ UNCHANGED runq_table
         ELSE ut_state' = WakeState(dead, woken) /\ runq_table' = WakeRunq(dead, woken)
      /\ switching' = TRUE
      /\ UNCHANGED <<ut_prio, ut_errno, ut_curthr, ctx, status, ut_detached,
                     ut_waiter, ut_stack, stacks, join_uid, created, born, join_born>>

-----------------------------------------------------------------------------
\* The end of uthread_join, once uid has exited: it is detached and handed to
\* the reaper.  Inserting a thread that is on the reap queue already corrupts
\* the list.
JoinFinish(thr, uid) ==
  IF OnQueue(uid, reap_queue)
  THEN /\ status' = "corrupt"
       /\ UNCHANGED <<ut_state, runq_table, ctx, reap_queue, ut_detached, join_uid,
                      join_born>>
  ELSE /\ ut_detached' = [ut_detached EXCEPT ![uid] = TRUE]
       /\ reap_queue' = list_insert_tail(reap_queue, uid)
       /\ Wake(reaper_thr_id)
       /\ ctx' = [ctx EXCEPT ![thr] = "user"]
       /\ join_uid' = [join_uid EXCEPT ![thr] = NULL]
       /\ join_born' = [join_born EXCEPT ![thr] = 0]
       /\ UNCHANGED status

\* Mutant: the two tests of the caller's waiter are missing.
MutantJoinError(thr, uid) ==
  IF ~GoodId(uid) THEN "ESRCH" ELSE IF ut_detached[uid] THEN "EINVAL" ELSE "0"

\* The error uthread_join returns, or "0".  The last test reads the waiter of
\* the calling thread, not of uid.
JoinError(thr, uid) ==
  IF ~GoodId(uid) THEN "ESRCH"
  ELSE IF ut_waiter[thr] = uid THEN "EDEADLK"
  ELSE IF ut_waiter[thr] # NULL \/ ut_detached[uid] THEN "EINVAL"
  ELSE "0"

JoinRefused(thr, uid) ==
  /\ May("join")
  /\ Running(thr, "user")
  /\ GoodId(uid) \/ May("bad_id")
  /\ JoinError(thr, uid) # "0"
  /\ ut_errno' = [ut_errno EXCEPT ![thr] = JoinError(thr, uid)]
  /\ UNCHANGED <<ut_state, ut_prio, runq_table, ut_curthr, switching, ctx, status,
                 lifeVars>>

\* uthread_join up to its first uthread_block, or to its end when uid is dead.
Join(thr, uid) ==
  /\ May("join")
  /\ Running(thr, "user")
  /\ JoinError(thr, uid) = "0"
  /\ ut_waiter[uid] # NULL => May("second_join")
  /\ uid = thr => May("self_join")
  /\ uid = reaper_thr_id => May("touch_reaper")
  /\ ut_waiter' = [ut_waiter EXCEPT ![uid] = thr]
  /\ IF ut_has_exited[uid]
     THEN JoinFinish(thr, uid) /\ UNCHANGED switching
     ELSE /\ Block(thr, "join")
          /\ join_uid' = [join_uid EXCEPT ![thr] = uid]
          /\ join_born' = [join_born EXCEPT ![thr] = born[uid]]
          /\ UNCHANGED <<runq_table, status, reap_queue, ut_detached>>
  /\ UNCHANGED <<ut_prio, ut_errno, ut_curthr, ut_has_exited, ut_exit, ut_stack,
                 stacks, created, born>>

\* uthread_block returns inside uthread_join: the loop tests has_exited again.
JoinResume(thr) ==
  /\ Running(thr, "join")
  /\ IF ut_has_exited[join_uid[thr]]
     THEN JoinFinish(thr, join_uid[thr]) /\ UNCHANGED switching
     ELSE /\ Block(thr, "join")
          /\ UNCHANGED <<runq_table, status, reap_queue, ut_detached, join_uid,
                         join_born>>
  /\ UNCHANGED <<ut_prio, ut_errno, ut_curthr, ut_has_exited, ut_exit, ut_waiter,
                 ut_stack, stacks, created, born>>

-----------------------------------------------------------------------------
\* The error uthread_detach returns, or "0"; again the caller's waiter is read.
DetachError(thr, uid) ==
  IF ~GoodId(uid) THEN "ESRCH"
  ELSE IF ut_detached[uid] \/ ut_waiter[thr] # NULL THEN "EINVAL"
  ELSE "0"

DetachRefused(thr, uid) ==
  /\ May("detach")
  /\ Running(thr, "user")
  /\ GoodId(uid) \/ May("bad_id")
  /\ DetachError(thr, uid) # "0"
  /\ ut_errno' = [ut_errno EXCEPT ![thr] = DetachError(thr, uid)]
  /\ UNCHANGED <<ut_state, ut_prio, runq_table, ut_curthr, switching, ctx, status,
                 lifeVars>>

\* uthread_detach.  A dead thread is passed to make_reapable with ut_detached
\* still false, and make_reapable asserts it.
Detach(thr, uid) ==
  /\ May("detach")
  /\ Running(thr, "user")
  /\ DetachError(thr, uid) = "0"
  /\ ut_waiter[uid] # NULL => May("detach_joined")
  /\ ut_state[uid] = "ZOMBIE" => May("detach_zombie")
  /\ uid = reaper_thr_id => May("touch_reaper")
  /\ IF ut_state[uid] = "ZOMBIE"
     THEN Abort /\ UNCHANGED ut_detached
     ELSE ut_detached' = [ut_detached EXCEPT ![uid] = TRUE] /\ UNCHANGED status
  /\ UNCHANGED <<ut_state, ut_prio, ut_errno, runq_table, ut_curthr, switching, ctx,
                 ut_has_exited, ut_exit, ut_waiter, ut_stack, stacks, reap_queue,
                 join_uid, created, born, join_born>>

-----------------------------------------------------------------------------
\* The reaper's first uthread_block.
ReaperStart ==
  /\ Running(reaper_thr_id, "reaper_start")
  /\ Block(reaper_thr_id, "reaper")
  /\ UNCHANGED <<ut_prio, ut_errno, runq_table, ut_curthr, status, lifeVars>>

\* One round of the reaper's loop over the reap queue: uthread_destroy frees
\* the stack if ut_stack has one, and clears the slot.
Reap ==
  /\ Running(reaper_thr_id, "reaper")
  /\ reap_queue # << >>
  /\ LET uid == list_head(reap_queue) IN
       /\ ut_state' = [ut_state EXCEPT ![uid] = "NO_STATE"]
       /\ ut_prio' = [ut_prio EXCEPT ![uid] = 0]
       /\ ut_errno' = [ut_errno EXCEPT ![uid] = "0"]
       /\ stacks' = IF ut_stack[uid] THEN stacks - 1 ELSE stacks
       /\ ClearSlot(uid)
       /\ born' = [born EXCEPT ![uid] = 0]
  /\ reap_queue' = list_remove_head(reap_queue)
  /\ UNCHANGED <<runq_table, ut_curthr, switching, ctx, status, join_uid, created,
                 join_born>>

\* The reap queue is empty: exit(0) when the reaper is alone, else block again.
ReaperRest ==
  /\ Running(reaper_thr_id, "reaper")
  /\ reap_queue = << >>
  /\ IF \A t \in Slots \ {reaper_thr_id} : ut_state[t] = "NO_STATE"
     THEN status' = "exit" /\ UNCHANGED <<ut_state, ctx, switching>>
     ELSE Block(reaper_thr_id, "reaper") /\ UNCHANGED status
  /\ UNCHANGED <<ut_prio, ut_errno, runq_table, ut_curthr, lifeVars>>
=============================================================================
