---------------------------- MODULE UthreadSched ----------------------------
(* The scheduler of uthread_sched.c: the thread table, the priority run      *)
(* queues, the running thread, and the operations that move threads between  *)
(* them.                                                                     *)
(*                                                                           *)
(* Threads are never preempted.  A library call runs to its end or to        *)
(* uthread_switch, so one call is one step; uthread_switch itself is a step  *)
(* of its own (switching = TRUE), the only one enabled while it is pending.  *)
(* What a thread does after uthread_switch brings it back is in ctx, its     *)
(* saved context.                                                            *)
EXTENDS UthreadQueue, FiniteSets

CONSTANTS UTH_MAX_UTHREADS,  \* size of the thread table
          UTH_MAXPRIO,       \* highest priority
          Client             \* what the client programs do: a set of API
                             \* calls and of kinds of misuse (see May)

ASSUME TableAssumption == UTH_MAX_UTHREADS \in Nat /\ UTH_MAX_UTHREADS >= 2
ASSUME PrioAssumption == UTH_MAXPRIO \in Nat

Slots == 0..(UTH_MAX_UTHREADS - 1)
Prios == 0..UTH_MAXPRIO

\* The NULL thread pointer.  As ut_curthr it also stands for the temporary
\* `hack' thread that runs create_first_thr.
NULL == -1

\* uthread_alloc gives the first two slots to the reaper and to main.
reaper_thr_id == 0
main_thr == 1

States == {"NO_STATE", "ON_CPU", "RUNNABLE", "WAIT", "ZOMBIE"}
Errors == {"0", "EINVAL", "ESRCH", "EDEADLK"}

\* Where a thread continues: in the client's code, in the loop of the reaper,
\* after the uthread_block of a library call, in the loop of a broadcast, in
\* uthread_create's error path, or nowhere (no context was made yet).
Contexts == {"user", "reaper_start", "reaper", "join", "mtx", "cond",
             "broadcast", "create_failed", "none"}

\* How the process is doing: running, gone by exit(0) or exit(EXIT_FAILURE),
\* aborted by an assert, or running on corrupted memory (not modelled further).
Statuses == {"run", "exit", "failure", "assert", "corrupt"}

VARIABLES ut_state,    \* uthreads[i].ut_state
          ut_prio,     \* uthreads[i].ut_prio
          ut_errno,    \* uthreads[i].ut_errno
          runq_table,  \* the run queue of each priority
          ut_curthr,   \* the thread that has the processor
          switching,   \* ut_curthr is in uthread_switch
          ctx,         \* uthreads[i].ut_ctx
          status       \* of the process

schedVars == <<ut_state, ut_prio, ut_errno, runq_table, ut_curthr, switching,
               ctx, status>>

SchedTypeOK ==
  /\ ut_state \in [Slots -> States]
  /\ ut_prio \in [Slots -> Prios]
  /\ ut_errno \in [Slots -> Errors]
  /\ runq_table \in [Prios -> Seq(Slots)]
  /\ ut_curthr \in Slots \cup {NULL}
  /\ switching \in BOOLEAN
  /\ ctx \in [Slots -> Contexts]
  /\ status \in Statuses

-----------------------------------------------------------------------------
\* uthread_sched_init, reaper_init and create_first_thr, up to the first
\* uthread_switch: the reaper and main are runnable, in this order.
SchedInit ==
  /\ ut_state = [t \in Slots |->
                   IF t \in {reaper_thr_id, main_thr} THEN "RUNNABLE" ELSE "NO_STATE"]
  /\ ut_prio = [t \in Slots |->
                  IF t \in {reaper_thr_id, main_thr} THEN UTH_MAXPRIO ELSE 0]
  /\ ut_errno = [t \in Slots |-> "0"]
  /\ runq_table = [p \in Prios |->
                     IF p = UTH_MAXPRIO THEN <<reaper_thr_id, main_thr>>
                                        ELSE utqueue_init]
  /\ ut_curthr = NULL
  /\ switching = TRUE
  /\ ctx = [t \in Slots |-> IF t = reaper_thr_id THEN "reaper_start" ELSE "user"]
  /\ status = "run"

\* thr has the processor and continues at c.
Running(thr, c) ==
  /\ status = "run"
  /\ ~switching
  /\ ut_curthr = thr
  /\ ctx[thr] = c

\* The client programs explored may do k.
May(k) == k \in Client

\* id names a thread of the table.
GoodId(id) == id \in Slots /\ ut_state[id] # "NO_STATE"

\* A failed assert aborts the process.
Abort == status' = "assert"

-----------------------------------------------------------------------------
\* Mutants: the state is not set; the thread is not put on a run queue.
MutantWakeState(s, thr) == s
MutantWakeRunq(s, thr) == runq_table

\* uthread_wake(thr), when the states are s: only a waiting thread is woken.
\* It is on no queue, so uthread_setprio only enqueues it.
WakeState(s, thr) ==
  IF s[thr] = "WAIT" THEN [s EXCEPT ![thr] = "RUNNABLE"] ELSE s

WakeRunq(s, thr) ==
  IF s[thr] = "WAIT"
  THEN EnqueueOn(runq_table, ut_prio[thr], thr)
  ELSE runq_table

\* uthread_wake(thr) alone.
Wake(thr) ==
  /\ ut_state' = WakeState(ut_state, thr)
  /\ runq_table' = WakeRunq(ut_state, thr)

\* uthread_block: the running thread is ON_CPU whenever it is called (OneOnCpu),
\* so the branches for the other states are never taken.
Block(thr, c) ==
  /\ ut_state' = [ut_state EXCEPT ![thr] = "WAIT"]
  /\ ctx' = [ctx EXCEPT ![thr] = c]
  /\ switching' = TRUE

\* uthread_block after uthread_wake(w) in the same call.
WakeAndBlock(w, thr, c) ==
  /\ ut_state' = [WakeState(ut_state, w) EXCEPT ![thr] = "WAIT"]
  /\ runq_table' = WakeRunq(ut_state, w)
  /\ ctx' = [ctx EXCEPT ![thr] = c]
  /\ switching' = TRUE

\* uthread_yield: to the end of the run queue of its priority, then switch.
uthread_yield(thr, c) ==
  /\ ut_state' = [ut_state EXCEPT ![thr] = "RUNNABLE"]
  /\ runq_table' = EnqueueOn(runq_table, ut_prio[thr], thr)
  /\ ctx' = [ctx EXCEPT ![thr] = c]
  /\ switching' = TRUE

\* uthread_yield, called by a thread itself or by an interposed system call,
\* all of which yield first but fork and perror.
Yield(thr) ==
  /\ May("yield")
  /\ Running(thr, "user")
  /\ uthread_yield(thr, "user")
  /\ UNCHANGED <<ut_prio, ut_errno, ut_curthr, status>>

\* Mutant: it stays linked.
MutantRequeue(id, prio) ==
  IF ut_state[id] = "RUNNABLE" THEN EnqueueOn(runq_table, prio, id) ELSE runq_table

\* What uthread_setprio does to the run queues: a runnable thread that is
\* linked leaves its queue, and goes to the end of the queue of prio.
Requeue(id, prio) ==
  LET linked == OnQueue(id, runq_table[ut_prio[id]])
      left == IF linked
              THEN RemoveFrom(runq_table, ut_prio[id], id)
              ELSE runq_table
  IN  IF ut_state[id] = "RUNNABLE"
      THEN EnqueueOn(left, prio, id)
      ELSE runq_table

\* The range check of uthread_setprio.
PrioRefused(prio) == prio \notin Prios

\* uthread_setprio(id, prio) called by the client.
SetPrio(thr, id, prio) ==
  /\ May("setprio")
  /\ Running(thr, "user")
  /\ prio \in Prios \/ May("bad_prio")
  /\ GoodId(id) \/ May("bad_id")
  /\ id = reaper_thr_id => May("touch_reaper")
  /\ IF PrioRefused(prio)
     THEN /\ ut_errno' = [ut_errno EXCEPT ![thr] = "EINVAL"]
          /\ UNCHANGED <<ut_prio, runq_table>>
     ELSE IF id \notin Slots \/ ut_state[id] \in {"NO_STATE", "ZOMBIE"}
     THEN /\ ut_errno' = [ut_errno EXCEPT ![thr] = "ESRCH"]
          /\ UNCHANGED <<ut_prio, runq_table>>
     ELSE /\ ut_prio' = [ut_prio EXCEPT ![id] = prio]
          /\ runq_table' = Requeue(id, prio)
          /\ UNCHANGED ut_errno
  /\ UNCHANGED <<ut_state, ut_curthr, switching, ctx, status>>

-----------------------------------------------------------------------------
\* Mutant: the queues are searched from the lowest priority up.
MutantChosen(p) ==
  /\ ~utqueue_empty(runq_table[p])
  /\ \A q \in Prios : q < p => utqueue_empty(runq_table[q])

\* p is the highest priority with a thread on its run queue.
Chosen(p) ==
  /\ ~utqueue_empty(runq_table[p])
  /\ \A q \in Prios : q > p => utqueue_empty(runq_table[q])

\* uthread_switch with a runnable thread: the first one of the highest run
\* queue that is not empty gets the processor.
uthread_switch ==
  /\ status = "run"
  /\ switching
  /\ \E p \in Prios :
       /\ Chosen(p)
       /\ LET thr == utqueue_first(runq_table[p]) IN
            /\ ut_curthr' = thr
            /\ ut_state' = [ut_state EXCEPT ![thr] = "ON_CPU"]
       /\ runq_table' = DequeueFrom(runq_table, p)
  /\ switching' = FALSE
  /\ UNCHANGED <<ut_prio, ut_errno, ctx, status>>

\* Nothing is runnable: the loop of uthread_switch spins in uthread_idle.  No
\* one is left to wake a thread, so it spins for ever.
uthread_idle ==
  /\ status = "run"
  /\ switching
  /\ \A p \in Prios : utqueue_empty(runq_table[p])
  /\ UNCHANGED schedVars
=============================================================================
