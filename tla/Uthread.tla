------------------------------- MODULE Uthread -------------------------------
(* The user-level thread library: the scheduler, the life of threads, and    *)
(* mutexes and condition variables, driven by client programs that call any  *)
(* of its functions in any order.                                            *)
EXTENDS UthreadLife, UthreadSync

vars == <<schedVars, lifeVars, syncVars>>

Init == SchedInit /\ LifeInit /\ SyncInit

\* A mutex a thread held stays owned by its slot after uthread_exit.
ExitThread(thr) ==
  /\ holding[thr] # {} => May("exit_holding")
  /\ Exit(thr)
  /\ holding' = [holding EXCEPT ![thr] = {}]
  /\ UNCHANGED <<m_owner, m_waiters, uc_waiters, on_mtx, on_cond>>

Ids == Slots \cup {NULL, UTH_MAX_UTHREADS}

SchedStep ==
  /\ \/ uthread_switch
     \/ uthread_idle
     \/ \E thr \in Slots :
          \/ Yield(thr)
          \/ \E id \in Ids, prio \in Prios \cup {NULL} : SetPrio(thr, id, prio)
  /\ UNCHANGED <<lifeVars, syncVars>>

LifeStep ==
  \/ /\ \/ \E thr \in Slots :
             \/ \E uid \in Slots, prio \in Prios : Create(thr, uid, prio)
             \/ CreateFull(thr)
             \/ \E uid \in Slots : CreateBadPrio(thr, uid)
             \/ CreateFailed(thr)
             \/ RunNoContext(thr)
             \/ \E uid \in Ids : JoinRefused(thr, uid)
             \/ \E uid \in Slots : Join(thr, uid)
             \/ JoinResume(thr)
             \/ \E uid \in Ids : DetachRefused(thr, uid)
             \/ \E uid \in Slots : Detach(thr, uid)
        \/ ReaperStart
        \/ Reap
        \/ ReaperRest
     /\ UNCHANGED syncVars
  \/ \E thr \in Slots : ExitThread(thr)

SyncStep ==
  /\ \E thr \in Slots :
       \/ \E m \in Mutexes :
            \/ Lock(thr, m)
            \/ TryLock(thr, m)
            \/ Unlock(thr, m)
            \/ UnlockUnowned(thr, m)
            \/ \E c \in Conds : CondWait(thr, c, m)
       \/ LockResume(thr)
       \/ CondResume(thr)
       \/ \E c \in Conds : Signal(thr, c) \/ Broadcast(thr, c)
       \/ BroadcastLoop(thr)
  /\ UNCHANGED lifeVars

Next == SchedStep \/ LifeStep \/ SyncStep

Spec == Init /\ [][Next]_vars

-----------------------------------------------------------------------------
(* Fairness.  The processor goes on: a pending uthread_switch, and whatever  *)
(* a woken library call or the reaper has left to do, is done.  Of clients   *)
(* it is assumed that a thread does not keep the processor for ever (every   *)
(* interposed system call yields first) and that it unlocks what it locked.  *)
LibraryStep ==
  \/ /\ \/ \E thr \in Slots : JoinResume(thr) \/ CreateFailed(thr)
        \/ ReaperStart
        \/ Reap
        \/ ReaperRest
     /\ UNCHANGED syncVars
  \/ /\ \E thr \in Slots : LockResume(thr) \/ CondResume(thr) \/ BroadcastLoop(thr)
     /\ UNCHANGED lifeVars

\* The running thread calls something that switches.
GiveUp == Next /\ ~switching /\ switching'

FairSpec ==
  /\ Spec
  /\ WF_vars(uthread_switch /\ UNCHANGED <<lifeVars, syncVars>>)
  /\ WF_vars(LibraryStep)
  /\ SF_vars(GiveUp)
  /\ \A thr \in Slots, m \in Mutexes : SF_vars(Unlock(thr, m) /\ UNCHANGED lifeVars)

-----------------------------------------------------------------------------
TypeOK == SchedTypeOK /\ LifeTypeOK /\ SyncTypeOK

\* The processor belongs to one thread: outside uthread_switch, ut_curthr is
\* ON_CPU, and no other thread ever is (the asserts of uthread_exit and
\* uthread_join, and what uthread_block and uthread_yield rely on).
OneOnCpu ==
  /\ ~switching => ut_curthr # NULL /\ ut_state[ut_curthr] = "ON_CPU"
  /\ \A t \in Slots : ut_state[t] = "ON_CPU" => ~switching /\ t = ut_curthr

\* The run queues hold the runnable threads, each once, each in the queue of
\* its current priority: no wake-up or change of priority loses a thread, and
\* the asserts of uthread_switch, utqueue_enqueue and utqueue_remove hold.  (A
\* thread whose creation failed half-way is RUNNABLE on no queue.)
RunQueueExact ==
  /\ \A p \in Prios : Distinct(runq_table[p])
  /\ \A t \in Slots, p \in Prios :
       OnQueue(t, runq_table[p]) => ut_state[t] = "RUNNABLE" /\ ut_prio[t] = p
  /\ \A t \in Slots :
       ut_state[t] = "RUNNABLE" /\ ctx[t] # "none" => OnQueue(t, runq_table[ut_prio[t]])

\* A thread on the queue of a mutex or of a condition variable is asleep in the
\* call that put it there, and is there once: only the matching unlock, signal
\* or broadcast wakes it, so uthread_mtx_lock may return after its uthread_block
\* without looking at the mutex again.
WaitQueuesExact ==
  /\ \A m \in Mutexes :
       /\ Distinct(m_waiters[m])
       /\ \A t \in Slots : OnQueue(t, m_waiters[m]) =>
            ut_state[t] = "WAIT" /\ ctx[t] = "mtx" /\ on_mtx[t] = m /\ m_owner[m] # t
  /\ \A c \in Conds :
       /\ Distinct(uc_waiters[c])
       /\ \A t \in Slots : OnQueue(t, uc_waiters[c]) =>
            ut_state[t] = "WAIT" /\ ctx[t] = "cond" /\ on_cond[t] = c

\* A mutex nobody owns has no waiters: uthread_mtx_unlock hands it over, and
\* nothing else frees it.
NoWaiterOnFreeMutex ==
  \A m \in Mutexes : m_owner[m] = NULL => m_waiters[m] = << >>

\* A thread inside a critical section owns its mutex, so two threads never are
\* in critical sections of the same one, whichever of lock, trylock, unlock and
\* cond_wait brought them there.
MutualExclusion ==
  \A t \in Slots : \A m \in holding[t] : m_owner[m] = t

\* The reap queue holds the dead threads that are detached, each once (the
\* asserts of make_reapable and of the reaper).
ReapQueueExact ==
  /\ Distinct(reap_queue)
  /\ \A t \in Slots :
       OnQueue(t, reap_queue) <=> ut_state[t] = "ZOMBIE" /\ ut_detached[t]

\* While a thread waits for the reaper, the reaper is not asleep: no uthread_wake
\* of make_reapable is lost.
ReaperAwake ==
  reap_queue # << >> => ut_state[reaper_thr_id] \in {"RUNNABLE", "ON_CPU"}

\* Every sleeping thread is known to the one that has to wake it: the owner of
\* its mutex (who is another thread), the queue of its condition variable, the
\* thread it joins, or make_reapable.
WaitHasWaker ==
  \A t \in Slots : ut_state[t] = "WAIT" =>
    \/ /\ ctx[t] = "mtx"
       /\ OnQueue(t, m_waiters[on_mtx[t]])
       /\ m_owner[on_mtx[t]] \notin {t, NULL}
       /\ ut_state[m_owner[on_mtx[t]]] \notin {"NO_STATE", "ZOMBIE"}
    \/ ctx[t] = "cond" /\ OnQueue(t, uc_waiters[on_cond[t]])
    \/ /\ ctx[t] = "join"
       /\ ut_waiter[join_uid[t]] = t
       /\ ut_state[join_uid[t]] \notin {"NO_STATE", "ZOMBIE"}
       /\ ~ut_detached[join_uid[t]]
    \/ ctx[t] = "reaper" /\ t = reaper_thr_id /\ reap_queue = << >>

\* The argument of a blocked call is where its context will look for it, and
\* only the reaper runs the reaper's loop; a dead or free slot has no pending
\* call, and has_exited is set exactly on zombies.
ContextInv ==
  /\ \A t \in Slots :
       /\ ctx[t] \in {"reaper_start", "reaper"} <=> t = reaper_thr_id
       /\ ctx[t] = "join" => join_uid[t] \in Slots
       /\ ctx[t] \in {"mtx", "cond"} => on_mtx[t] \in Mutexes
       /\ ctx[t] \in {"cond", "broadcast"} => on_cond[t] \in Conds
       /\ ut_state[t] \in {"NO_STATE", "ZOMBIE"} => ctx[t] = "user"
       /\ ut_has_exited[t] <=> ut_state[t] = "ZOMBIE"
  /\ ut_state[reaper_thr_id] \notin {"NO_STATE", "ZOMBIE"}

\* The thread a live thread would wake when it exits is asleep in its join: the
\* uthread_wake of uthread_exit finds neither a free slot (its assert) nor a
\* thread that sleeps for another reason.
JoinerAsleep ==
  \A t \in Slots :
    ut_state[t] \notin {"NO_STATE", "ZOMBIE"} /\ ut_waiter[t] # NULL =>
      /\ ut_state[ut_waiter[t]] = "WAIT"
      /\ ctx[ut_waiter[t]] = "join"
      /\ join_uid[ut_waiter[t]] = t

\* A thread woken inside uthread_mtx_lock has been made the owner.
WokenOwnsMutex ==
  \A t \in Slots : ctx[t] = "mtx" /\ ut_state[t] # "WAIT" => m_owner[on_mtx[t]] = t

\* The reaper reaches its first uthread_block before any other thread runs.
ReaperFirst ==
  ctx[reaper_thr_id] = "reaper_start" =>
    /\ reap_queue = << >>
    /\ \/ ~switching /\ ut_curthr = reaper_thr_id
       \/ /\ switching
          /\ ut_state[reaper_thr_id] = "RUNNABLE"
          /\ ~utqueue_empty(runq_table[UTH_MAXPRIO])
          /\ utqueue_first(runq_table[UTH_MAXPRIO]) = reaper_thr_id

\* What holds of the library whatever its clients call, misuse included.
SafeForAnyClient ==
  /\ TypeOK
  /\ OneOnCpu
  /\ RunQueueExact
  /\ WaitQueuesExact
  /\ NoWaiterOnFreeMutex
  /\ MutualExclusion
  /\ ReapQueueExact
  /\ ReaperAwake
  /\ ContextInv
  /\ JoinerAsleep
  /\ WokenOwnsMutex
  /\ ReaperFirst

\* No group of threads waits in uthread_join for one another: a thread that is
\* being joined is refused every join of its own.
NoJoinCycle ==
  \A S \in (SUBSET Slots) \ {{}} :
    \E t \in S : ~(ut_state[t] = "WAIT" /\ ctx[t] = "join" /\ join_uid[t] \in S)

\* uthread_join returns the exit status of the thread it was called for, never
\* that of an earlier or later thread in the same slot, whether the thread was
\* dead already or had to be waited for.
JoinReturnsItsThread ==
  [][/\ \A t \in Slots : join_uid[t] # NULL /\ join_uid'[t] = NULL
          => ut_exit[join_uid[t]] = join_born[t]
     /\ \A t, uid \in Slots :
          Running(t, "user") /\ ut_waiter[uid] # t /\ ut_waiter'[uid] = t /\ join_uid'[t] = NULL
          => ut_exit[uid] = born[uid]]_vars

\* uthread_switch gives the processor to a thread of the highest priority that
\* is runnable at that moment, whatever uthread_setprio did meanwhile.
HighestPriorityRuns ==
  [][switching /\ ~switching' =>
       \A t \in Slots : ut_state[t] = "RUNNABLE" /\ ctx[t] # "none"
         => ut_prio[t] <= ut_prio[ut_curthr']]_vars

-----------------------------------------------------------------------------
\* A dead thread that is detached, or was joined, is destroyed in the end and
\* its slot is free again: the reaper's uthread_block never misses a
\* make_reapable.
ReapedEventually ==
  \A t \in Slots :
    ut_state[t] = "ZOMBIE" /\ ut_detached[t] ~> ut_state[t] = "NO_STATE"

\* A runnable thread of the highest priority gets the processor: threads of one
\* priority take turns.
TopPriorityRuns ==
  \A t \in Slots :
    ut_state[t] = "RUNNABLE" /\ ut_prio[t] = UTH_MAXPRIO
      ~> ut_state[t] = "ON_CPU" \/ ut_prio[t] # UTH_MAXPRIO

\* uthread_join returns once the thread has exited, if the caller has the
\* highest priority: the uthread_wake of uthread_exit reaches it.
JoinReturns ==
  \A t \in Slots :
    join_uid[t] # NULL /\ ut_has_exited[join_uid[t]] /\ ut_prio[t] = UTH_MAXPRIO
      ~> join_uid[t] = NULL

\* A thread that waits for a mutex gets it, even while others keep calling
\* uthread_mtx_trylock, unless an owner of the mutex goes to sleep in
\* uthread_join.
LockGranted ==
  \A t \in Slots, m \in Mutexes :
    OnQueue(t, m_waiters[m])
      ~> m \in holding[t] \/ (m_owner[m] # NULL /\ ctx[m_owner[m]] = "join")

-----------------------------------------------------------------------------
\* Mutexes are FIFO locks.  The scheduler, the life of threads and condition
\* variables are hidden; a wait on a condition variable is a Leave, and the
\* uthread_mtx_lock at its end a Take or an Enqueue.
Locks == INSTANCE FifoLocks
           WITH Thread <- Slots, Mutex <- Mutexes, Nobody <- NULL,
                owner <- m_owner, queue <- m_waiters, inside <- holding

LocksAreFifo == Locks!LockSpec
=============================================================================
