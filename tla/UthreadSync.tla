----------------------------- MODULE UthreadSync -----------------------------
(* Mutexes (uthread_mtx.c) and condition variables (uthread_cond.c).         *)
EXTENDS UthreadSched

CONSTANTS Mutexes,    \* the client's mutexes, initialised
          Conds       \* the client's condition variables, initialised

VARIABLES m_owner,    \* owner of each mutex, or NULL
          m_waiters,  \* threads waiting for each mutex
          uc_waiters, \* threads waiting on each condition variable
          on_mtx,     \* the mutex argument of a thread's pending call, or None
          on_cond,    \* the condition argument of its pending call, or None
          holding     \* the mutexes a thread has locked: its lock or wait call
                      \* has returned and it has not unlocked since

syncVars == <<m_owner, m_waiters, uc_waiters, on_mtx, on_cond, holding>>

\* No argument.
None == "none"

SyncTypeOK ==
  /\ m_owner \in [Mutexes -> Slots \cup {NULL}]
  /\ m_waiters \in [Mutexes -> Seq(Slots)]
  /\ uc_waiters \in [Conds -> Seq(Slots)]
  /\ on_mtx \in [Slots -> Mutexes \cup {None}]
  /\ on_cond \in [Slots -> Conds \cup {None}]
  /\ holding \in [Slots -> SUBSET Mutexes]

\* uthread_mtx_init and uthread_cond_init.
SyncInit ==
  /\ m_owner = [m \in Mutexes |-> NULL]
  /\ m_waiters = [m \in Mutexes |-> utqueue_init]
  /\ uc_waiters = [c \in Conds |-> utqueue_init]
  /\ on_mtx = [t \in Slots |-> None]
  /\ on_cond = [t \in Slots |-> None]
  /\ holding = [t \in Slots |-> {}]

-----------------------------------------------------------------------------
\* uthread_mtx_lock queues the thread unless it owns the mutex already.
MustQueue(thr, m) == m_owner[m] # thr

\* The body of uthread_mtx_lock.  An owner that locks again blocks without
\* being queued.
LockBody(thr, m) ==
  IF m_owner[m] = NULL
  THEN /\ m_owner' = [m_owner EXCEPT ![m] = thr]
       /\ holding' = [holding EXCEPT ![thr] = @ \cup {m}]
       /\ ctx' = [ctx EXCEPT ![thr] = "user"]
       /\ on_mtx' = [on_mtx EXCEPT ![thr] = None]
       /\ UNCHANGED <<m_waiters, ut_state, switching>>
  ELSE /\ m_waiters' = IF MustQueue(thr, m)
                       THEN EnqueueOn(m_waiters, m, thr)
                       ELSE m_waiters
       /\ on_mtx' = [on_mtx EXCEPT ![thr] = m]
       /\ Block(thr, "mtx")
       /\ UNCHANGED <<m_owner, holding>>

Lock(thr, m) ==
  /\ May("mtx")
  /\ Running(thr, "user")
  /\ m_owner[m] = thr => May("relock")
  /\ LockBody(thr, m)
  /\ UNCHANGED <<ut_prio, ut_errno, runq_table, ut_curthr, status, uc_waiters, on_cond>>

\* uthread_block returns inside uthread_mtx_lock, which returns without
\* looking at the mutex again.
LockResume(thr) ==
  /\ Running(thr, "mtx")
  /\ holding' = [holding EXCEPT ![thr] = @ \cup {on_mtx[thr]}]
  /\ ctx' = [ctx EXCEPT ![thr] = "user"]
  /\ on_mtx' = [on_mtx EXCEPT ![thr] = None]
  /\ UNCHANGED <<ut_state, ut_prio, ut_errno, runq_table, ut_curthr, switching, status,
                 m_owner, m_waiters, uc_waiters, on_cond>>

\* uthread_mtx_trylock never blocks.
TryLock(thr, m) ==
  /\ May("mtx")
  /\ Running(thr, "user")
  /\ IF m_owner[m] = NULL
     THEN /\ m_owner' = [m_owner EXCEPT ![m] = thr]
          /\ holding' = [holding EXCEPT ![thr] = @ \cup {m}]
     ELSE UNCHANGED <<m_owner, holding>>
  /\ UNCHANGED <<schedVars, m_waiters, uc_waiters, on_mtx, on_cond>>

\* What uthread_mtx_unlock does to the mutex: the first waiter becomes the
\* owner.  UnlockWakes is the thread it wakes, or NULL.
UnlockWakes(m) ==
  IF utqueue_empty(m_waiters[m]) THEN NULL ELSE utqueue_first(m_waiters[m])

\* Mutant: the mutex is freed, and the woken thread has to find out.
MutantUnlockBody(thr, m) ==
  /\ m_owner' = [m_owner EXCEPT ![m] = NULL]
  /\ m_waiters' = IF utqueue_empty(m_waiters[m])
                  THEN m_waiters
                  ELSE DequeueFrom(m_waiters, m)
  /\ holding' = [holding EXCEPT ![thr] = @ \ {m}]

UnlockBody(thr, m) ==
  /\ m_owner' = [m_owner EXCEPT ![m] = UnlockWakes(m)]
  /\ m_waiters' = IF utqueue_empty(m_waiters[m])
                  THEN m_waiters
                  ELSE DequeueFrom(m_waiters, m)
  /\ holding' = [holding EXCEPT ![thr] = @ \ {m}]

Unlock(thr, m) ==
  /\ May("mtx")
  /\ Running(thr, "user")
  /\ m_owner[m] = thr
  /\ UnlockBody(thr, m)
  /\ IF UnlockWakes(m) = NULL
     THEN UNCHANGED <<ut_state, runq_table>>
     ELSE Wake(UnlockWakes(m))
  /\ UNCHANGED <<ut_prio, ut_errno, ut_curthr, switching, ctx, status, uc_waiters,
                 on_mtx, on_cond>>

\* uthread_mtx_unlock and uthread_cond_wait assert that the caller owns the
\* mutex.
UnlockUnowned(thr, m) ==
  /\ May("mtx") /\ May("unlock_unowned")
  /\ Running(thr, "user")
  /\ m_owner[m] # thr
  /\ Abort
  /\ UNCHANGED <<ut_state, ut_prio, ut_errno, runq_table, ut_curthr, switching, ctx,
                 syncVars>>

-----------------------------------------------------------------------------
\* uthread_cond_wait up to its uthread_block: the thread is on the condition's
\* queue before the mutex is released.
CondWait(thr, c, m) ==
  /\ May("cond")
  /\ Running(thr, "user")
  /\ m_owner[m] = thr
  /\ uc_waiters' = EnqueueOn(uc_waiters, c, thr)
  /\ UnlockBody(thr, m)
  /\ on_mtx' = [on_mtx EXCEPT ![thr] = m]
  /\ on_cond' = [on_cond EXCEPT ![thr] = c]
  /\ IF UnlockWakes(m) = NULL
     THEN Block(thr, "cond") /\ UNCHANGED runq_table
     ELSE WakeAndBlock(UnlockWakes(m), thr, "cond")
  /\ UNCHANGED <<ut_prio, ut_errno, ut_curthr, status>>

\* Woken in uthread_cond_wait: lock the mutex again.
CondResume(thr) ==
  /\ Running(thr, "cond")
  /\ LockBody(thr, on_mtx[thr])
  /\ on_cond' = [on_cond EXCEPT ![thr] = None]
  /\ UNCHANGED <<ut_prio, ut_errno, runq_table, ut_curthr, status, uc_waiters>>

\* uthread_wake(utqueue_dequeue(&cond->uc_waiters)).
WakeFirst(c) ==
  /\ uc_waiters' = DequeueFrom(uc_waiters, c)
  /\ Wake(utqueue_first(uc_waiters[c]))

\* uthread_cond_signal.
Signal(thr, c) ==
  /\ May("cond")
  /\ Running(thr, "user")
  /\ IF utqueue_empty(uc_waiters[c])
     THEN UNCHANGED <<uc_waiters, ut_state, runq_table>>
     ELSE WakeFirst(c)
  /\ UNCHANGED <<ut_prio, ut_errno, ut_curthr, switching, ctx, status, m_owner,
                 m_waiters, on_mtx, on_cond, holding>>

\* uthread_cond_broadcast: its loop, one thread a step.
Broadcast(thr, c) ==
  /\ May("cond")
  /\ Running(thr, "user")
  /\ ctx' = [ctx EXCEPT ![thr] = "broadcast"]
  /\ on_cond' = [on_cond EXCEPT ![thr] = c]
  /\ UNCHANGED <<ut_state, ut_prio, ut_errno, runq_table, ut_curthr, switching, status,
                 m_owner, m_waiters, uc_waiters, on_mtx, holding>>

BroadcastLoop(thr) ==
  /\ Running(thr, "broadcast")
  /\ IF utqueue_empty(uc_waiters[on_cond[thr]])
     THEN /\ ctx' = [ctx EXCEPT ![thr] = "user"]
          /\ on_cond' = [on_cond EXCEPT ![thr] = None]
          /\ UNCHANGED <<uc_waiters, ut_state, runq_table>>
     ELSE /\ WakeFirst(on_cond[thr])
          /\ UNCHANGED <<ctx, on_cond>>
  /\ UNCHANGED <<ut_prio, ut_errno, ut_curthr, switching, status, m_owner, m_waiters,
                 on_mtx, holding>>
=============================================================================
