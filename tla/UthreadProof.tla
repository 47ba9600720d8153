---------------------------- MODULE UthreadProof ----------------------------
(* SafeForAnyClient is an inductive invariant of the thread library: it      *)
(* holds for every size of the thread table, every number of priorities,     *)
(* every set of mutexes and condition variables and every client.  Ruly is   *)
(* the invariant for the clients that keep to the rules: their sleepers are  *)
(* known to who must wake them, and their joins return.                      *)
EXTENDS Uthread, SequenceTheorems, TLAPS

-----------------------------------------------------------------------------
(* Lemmas about the operations of uthread_queue.c and list.h.                *)

\* utqueue_enqueue adds a thread that was not linked, and no other.
LEMMA EnqueueLemma ==
  ASSUME NEW S, NEW q \in Seq(S), NEW thr \in S
  PROVE  /\ utqueue_enqueue(q, thr) \in Seq(S)
         /\ ~utqueue_empty(utqueue_enqueue(q, thr))
         /\ \A x : OnQueue(x, utqueue_enqueue(q, thr)) <=> OnQueue(x, q) \/ x = thr
         /\ Distinct(q) /\ ~OnQueue(thr, q) => Distinct(utqueue_enqueue(q, thr))
<1> DEFINE r == Append(q, thr)
<1>1. /\ r \in Seq(S) /\ Len(r) = Len(q) + 1 /\ Len(q) \in Nat
      /\ \A i \in 1..Len(q) : r[i] = q[i]
      /\ r[Len(q) + 1] = thr
  BY AppendProperties, LenProperties
<1>2. r # << >>
  BY <1>1
<1> HIDE DEF r
<1>4. \A x : OnQueue(x, r) <=> OnQueue(x, q) \/ x = thr
  BY <1>1 DEF OnQueue
<1>5. Distinct(q) /\ ~OnQueue(thr, q) => Distinct(r)
  BY <1>1 DEF OnQueue, Distinct
<1> QED
  BY <1>1, <1>2, <1>4, <1>5
     DEF r, utqueue_enqueue, utqueue_empty

\* utqueue_dequeue takes the first thread away, and no other.
LEMMA DequeueLemma ==
  ASSUME NEW S, NEW q \in Seq(S), ~utqueue_empty(q)
  PROVE  /\ utqueue_first(q) \in S
         /\ OnQueue(utqueue_first(q), q)
         /\ utqueue_dequeue(q) \in Seq(S)
         /\ Distinct(q) =>
              /\ Distinct(utqueue_dequeue(q))
              /\ \A x : OnQueue(x, utqueue_dequeue(q)) <=> OnQueue(x, q) /\ x # utqueue_first(q)
<1> DEFINE r == Tail(q)
           h == Head(q)
<1>1. /\ r \in Seq(S) /\ Len(r) = Len(q) - 1 /\ Len(q) \in Nat /\ Len(q) # 0
      /\ \A i \in 1..Len(r) : r[i] = q[i + 1]
      /\ h = q[1] /\ h \in S
  BY HeadTailProperties, LenProperties, EmptySeq DEF utqueue_empty
<1> HIDE DEF r, h
<1>2. OnQueue(h, q)
  BY <1>1 DEF OnQueue
<1>3. Distinct(q) => Distinct(r)
  BY <1>1 DEF Distinct
<1>4. ASSUME Distinct(q), NEW x PROVE OnQueue(x, r) <=> OnQueue(x, q) /\ x # h
  <2>1. OnQueue(x, r) => OnQueue(x, q) /\ x # h
    BY <1>1, <1>4 DEF OnQueue, Distinct
  <2>2. ASSUME OnQueue(x, q), x # h PROVE OnQueue(x, r)
    <3>1. PICK i \in 1..Len(q) : q[i] = x
      BY <2>2 DEF OnQueue
    <3>2. i - 1 \in 1..Len(r) /\ r[i - 1] = x
      BY <1>1, <2>2, <3>1
    <3> QED
      BY <3>2 DEF OnQueue
  <2> QED
    BY <2>1, <2>2
<1> QED
  BY <1>1, <1>2, <1>3, <1>4 DEF r, h, utqueue_first, utqueue_dequeue

\* utqueue_remove takes the given thread away, and no other.
LEMMA RemoveLemma ==
  ASSUME NEW S, NEW q \in Seq(S), NEW thr \in S, OnQueue(thr, q), Distinct(q)
  PROVE  /\ utqueue_remove(q, thr) \in Seq(S)
         /\ Distinct(utqueue_remove(q, thr))
         /\ \A x : OnQueue(x, utqueue_remove(q, thr)) <=> OnQueue(x, q) /\ x # thr
<1> DEFINE pos == CHOOSE i \in 1..Len(q) : q[i] = thr
           r == [i \in 1..(Len(q) - 1) |-> IF i < pos THEN q[i] ELSE q[i + 1]]
<1>1. Len(q) \in Nat /\ \A i \in 1..Len(q) : q[i] \in S
  BY LenProperties, ElementOfSeq
<1>2. pos \in 1..Len(q) /\ q[pos] = thr
  BY DEF OnQueue
<1> HIDE DEF pos
<1>3. /\ Len(q) - 1 \in Nat
      /\ \A i \in 1..(Len(q) - 1) : (IF i < pos THEN q[i] ELSE q[i + 1]) \in S
  BY <1>1, <1>2
<1>4. r \in Seq(S) /\ Len(r) = Len(q) - 1
  BY <1>3, IsASeq
<1>5. \A i \in 1..Len(r) : r[i] = IF i < pos THEN q[i] ELSE q[i + 1]
  BY <1>4
<1> HIDE DEF r
<1>6. Distinct(r)
  <2> SUFFICES ASSUME NEW i \in 1..Len(r), NEW j \in 1..Len(r), r[i] = r[j]
               PROVE  i = j
    BY DEF Distinct
  <2> DEFINE at(k) == IF k < pos THEN k ELSE k + 1
  <2>1. /\ at(i) \in 1..Len(q) /\ at(j) \in 1..Len(q)
        /\ q[at(i)] = r[i] /\ q[at(j)] = r[j]
    BY <1>1, <1>2, <1>4, <1>5
  <2>2. at(i) = at(j)
    BY <2>1 DEF Distinct
  <2> QED
    BY <1>1, <1>2, <1>4, <2>2
<1>7. ASSUME NEW x PROVE OnQueue(x, r) <=> OnQueue(x, q) /\ x # thr
  <2>1. OnQueue(x, r) => OnQueue(x, q) /\ x # thr
    BY <1>1, <1>2, <1>4, <1>5 DEF OnQueue, Distinct
  <2>2. ASSUME OnQueue(x, q), x # thr PROVE OnQueue(x, r)
    <3>1. PICK i \in 1..Len(q) : q[i] = x
      BY <2>2 DEF OnQueue
    <3>2. CASE i < pos
      <4>1. i \in 1..Len(r) /\ r[i] = x
        BY <1>1, <1>2, <1>4, <1>5, <3>1, <3>2
      <4> QED
        BY <4>1 DEF OnQueue
    <3>3. CASE i > pos
      <4>1. i - 1 \in 1..Len(r) /\ r[i - 1] = x
        BY <1>1, <1>2, <1>4, <1>5, <3>1, <3>3
      <4> QED
        BY <4>1 DEF OnQueue
    <3> QED
      BY <1>1, <1>2, <2>2, <3>1, <3>2, <3>3
  <2> QED
    BY <2>1, <2>2
<1> QED
  BY <1>4, <1>6, <1>7 DEF r, pos, utqueue_remove

\* Nothing is on an empty queue.
LEMMA EmptyLemma ==
  /\ utqueue_empty(utqueue_init)
  /\ \A q : utqueue_empty(q) => Distinct(q) /\ \A x : ~OnQueue(x, q)
BY DEF utqueue_empty, utqueue_init, Distinct, OnQueue

\* list_insert_tail and list_remove_head, likewise.
LEMMA ListInsertLemma ==
  ASSUME NEW S, NEW q \in Seq(S), NEW thr \in S
  PROVE  /\ list_insert_tail(q, thr) \in Seq(S)
         /\ list_insert_tail(q, thr) # << >>
         /\ \A x : OnQueue(x, list_insert_tail(q, thr)) <=> OnQueue(x, q) \/ x = thr
         /\ Distinct(q) /\ ~OnQueue(thr, q) => Distinct(list_insert_tail(q, thr))
BY EnqueueLemma DEF list_insert_tail, utqueue_enqueue, utqueue_empty

\* list_remove_head of a list that is not empty.
LEMMA ListRemoveLemma ==
  ASSUME NEW S, NEW q \in Seq(S), q # << >>
  PROVE  /\ list_head(q) \in S
         /\ OnQueue(list_head(q), q)
         /\ list_remove_head(q) \in Seq(S)
         /\ Distinct(q) =>
              /\ Distinct(list_remove_head(q))
              /\ \A x : OnQueue(x, list_remove_head(q)) <=> OnQueue(x, q) /\ x # list_head(q)
BY DequeueLemma
   DEF list_head, list_remove_head, utqueue_first, utqueue_dequeue, utqueue_empty

-----------------------------------------------------------------------------
(* The same operations on one queue of a table.                              *)

\* Enqueueing on one queue of a table leaves the other queues alone.
LEMMA EnqueueOnLemma ==
  ASSUME NEW D, NEW S, NEW qs \in [D -> Seq(S)], NEW k \in D, NEW thr \in S,
         \A d \in D : Distinct(qs[d]), ~OnQueue(thr, qs[k])
  PROVE  /\ EnqueueOn(qs, k, thr) \in [D -> Seq(S)]
         /\ \A t \in S, d \in D :
              OnQueue(t, EnqueueOn(qs, k, thr)[d]) <=> OnQueue(t, qs[d]) \/ (t = thr /\ d = k)
         /\ \A d \in D : Distinct(EnqueueOn(qs, k, thr)[d])
<1> DEFINE new == EnqueueOn(qs, k, thr)
           q == utqueue_enqueue(qs[k], thr)
<1>1. /\ q \in Seq(S)
      /\ ~utqueue_empty(q)
      /\ \A x : OnQueue(x, q) <=> OnQueue(x, qs[k]) \/ x = thr
      /\ Distinct(qs[k]) /\ ~OnQueue(thr, qs[k]) => Distinct(q)
  BY EnqueueLemma
<1>2. /\ new \in [D -> Seq(S)]
      /\ \A d \in D : new[d] = IF d = k THEN q ELSE qs[d]
  BY <1>1 DEF EnqueueOn
<1> QED
  BY <1>1, <1>2

\* Dequeueing takes the first thread of that queue, and no other.
LEMMA DequeueFromLemma ==
  ASSUME NEW D, NEW S, NEW qs \in [D -> Seq(S)], NEW k \in D, ~utqueue_empty(qs[k]),
         \A d \in D : Distinct(qs[d])
  PROVE  /\ utqueue_first(qs[k]) \in S
         /\ OnQueue(utqueue_first(qs[k]), qs[k])
         /\ DequeueFrom(qs, k) \in [D -> Seq(S)]
         /\ \A d \in D : Distinct(DequeueFrom(qs, k)[d])
         /\ \A t \in S, d \in D :
              OnQueue(t, DequeueFrom(qs, k)[d]) <=>
                OnQueue(t, qs[d]) /\ ~(d = k /\ t = utqueue_first(qs[k]))
<1> DEFINE new == DequeueFrom(qs, k)
           q == utqueue_dequeue(qs[k])
<1>1. /\ utqueue_first(qs[k]) \in S
      /\ OnQueue(utqueue_first(qs[k]), qs[k])
      /\ q \in Seq(S)
      /\ Distinct(q)
      /\ \A x : OnQueue(x, q) <=> OnQueue(x, qs[k]) /\ x # utqueue_first(qs[k])
  BY DequeueLemma
<1>2. /\ new \in [D -> Seq(S)]
      /\ \A d \in D : new[d] = IF d = k THEN q ELSE qs[d]
  BY <1>1 DEF DequeueFrom
<1> QED
  BY <1>1, <1>2

\* Removing a thread takes it off its queue, and no other.
LEMMA RemoveFromLemma ==
  ASSUME NEW D, NEW S, NEW qs \in [D -> Seq(S)], NEW k \in D, NEW thr \in S,
         OnQueue(thr, qs[k]), \A d \in D : Distinct(qs[d])
  PROVE  /\ RemoveFrom(qs, k, thr) \in [D -> Seq(S)]
         /\ \A d \in D : Distinct(RemoveFrom(qs, k, thr)[d])
         /\ \A t \in S, d \in D :
              OnQueue(t, RemoveFrom(qs, k, thr)[d]) <=> OnQueue(t, qs[d]) /\ ~(d = k /\ t = thr)
<1> DEFINE new == RemoveFrom(qs, k, thr)
           q == utqueue_remove(qs[k], thr)
<1>1. /\ q \in Seq(S)
      /\ Distinct(q)
      /\ \A x : OnQueue(x, q) <=> OnQueue(x, qs[k]) /\ x # thr
  BY RemoveLemma
<1>2. /\ new \in [D -> Seq(S)]
      /\ \A d \in D : new[d] = IF d = k THEN q ELSE qs[d]
  BY <1>1 DEF RemoveFrom
<1> QED
  BY <1>1, <1>2

-----------------------------------------------------------------------------
(* What the actions build on them.                                           *)

\* The reaper and main have slots of their own, and NULL is none.
LEMMA ConstLemma ==
  /\ reaper_thr_id \in Slots /\ main_thr \in Slots /\ reaper_thr_id # main_thr
  /\ NULL \notin Slots
  /\ UTH_MAXPRIO \in Prios
  /\ 0 \in Prios
BY TableAssumption, PrioAssumption
   DEF reaper_thr_id, main_thr, NULL, Slots, Prios

\* A thread enqueued on a run queue is on it, once, and on no other.
LEMMA RunqEnqueueLemma ==
  ASSUME NEW rq \in [Prios -> Seq(Slots)], NEW prio \in Prios, NEW thr \in Slots,
         \A p \in Prios : Distinct(rq[p]), ~OnQueue(thr, rq[prio])
  PROVE  /\ EnqueueOn(rq, prio, thr) \in [Prios -> Seq(Slots)]
         /\ \A p \in Prios : Distinct(EnqueueOn(rq, prio, thr)[p])
         /\ \A t \in Slots, p \in Prios :
              OnQueue(t, EnqueueOn(rq, prio, thr)[p]) <=> OnQueue(t, rq[p]) \/ (t = thr /\ p = prio)
BY EnqueueOnLemma, SMTT(30)

\* Dequeueing from a run queue returns a thread that was on it, and removes it only.
LEMMA RunqDequeueLemma ==
  ASSUME NEW rq \in [Prios -> Seq(Slots)], NEW prio \in Prios,
         \A p \in Prios : Distinct(rq[p]), ~utqueue_empty(rq[prio])
  PROVE  /\ utqueue_first(rq[prio]) \in Slots
         /\ OnQueue(utqueue_first(rq[prio]), rq[prio])
         /\ DequeueFrom(rq, prio) \in [Prios -> Seq(Slots)]
         /\ \A p \in Prios : Distinct(DequeueFrom(rq, prio)[p])
         /\ \A t \in Slots, p \in Prios :
              OnQueue(t, DequeueFrom(rq, prio)[p]) <=>
                OnQueue(t, rq[p]) /\ ~(p = prio /\ t = utqueue_first(rq[prio]))
BY DequeueFromLemma

\* A thread enqueued on a mutex is on its queue, once, and on no other.
LEMMA MtxEnqueueLemma ==
  ASSUME NEW mq \in [Mutexes -> Seq(Slots)], NEW m \in Mutexes, NEW thr \in Slots,
         \A x \in Mutexes : Distinct(mq[x]), ~OnQueue(thr, mq[m])
  PROVE  /\ EnqueueOn(mq, m, thr) \in [Mutexes -> Seq(Slots)]
         /\ \A x \in Mutexes : Distinct(EnqueueOn(mq, m, thr)[x])
         /\ \A t \in Slots, x \in Mutexes :
              OnQueue(t, EnqueueOn(mq, m, thr)[x]) <=> OnQueue(t, mq[x]) \/ (t = thr /\ x = m)
BY EnqueueOnLemma, SMTT(30)

\* The thread dequeued from the queue of a mutex was on it, and leaves it.
LEMMA MtxDequeueLemma ==
  ASSUME NEW mq \in [Mutexes -> Seq(Slots)], NEW m \in Mutexes,
         \A x \in Mutexes : Distinct(mq[x]), ~utqueue_empty(mq[m])
  PROVE  /\ utqueue_first(mq[m]) \in Slots
         /\ OnQueue(utqueue_first(mq[m]), mq[m])
         /\ DequeueFrom(mq, m) \in [Mutexes -> Seq(Slots)]
         /\ \A x \in Mutexes : Distinct(DequeueFrom(mq, m)[x])
         /\ \A t \in Slots, x \in Mutexes :
              OnQueue(t, DequeueFrom(mq, m)[x]) <=>
                OnQueue(t, mq[x]) /\ ~(x = m /\ t = utqueue_first(mq[m]))
BY DequeueFromLemma

\* A thread enqueued on a condition variable is on its queue, once, and on no other.
LEMMA CondEnqueueLemma ==
  ASSUME NEW cq \in [Conds -> Seq(Slots)], NEW c \in Conds, NEW thr \in Slots,
         \A x \in Conds : Distinct(cq[x]), ~OnQueue(thr, cq[c])
  PROVE  /\ EnqueueOn(cq, c, thr) \in [Conds -> Seq(Slots)]
         /\ \A x \in Conds : Distinct(EnqueueOn(cq, c, thr)[x])
         /\ \A t \in Slots, x \in Conds :
              OnQueue(t, EnqueueOn(cq, c, thr)[x]) <=> OnQueue(t, cq[x]) \/ (t = thr /\ x = c)
BY EnqueueOnLemma, SMTT(30)

\* The thread dequeued from a condition variable was on its queue, and leaves it.
LEMMA CondDequeueLemma ==
  ASSUME NEW cq \in [Conds -> Seq(Slots)], NEW c \in Conds,
         \A x \in Conds : Distinct(cq[x]), ~utqueue_empty(cq[c])
  PROVE  /\ utqueue_first(cq[c]) \in Slots
         /\ OnQueue(utqueue_first(cq[c]), cq[c])
         /\ DequeueFrom(cq, c) \in [Conds -> Seq(Slots)]
         /\ \A x \in Conds : Distinct(DequeueFrom(cq, c)[x])
         /\ \A t \in Slots, x \in Conds :
              OnQueue(t, DequeueFrom(cq, c)[x]) <=>
                OnQueue(t, cq[x]) /\ ~(x = c /\ t = utqueue_first(cq[c]))
BY DequeueFromLemma

\* What the invariant says of the run queues alone.
LEMMA RunqFacts ==
  ASSUME SafeForAnyClient
  PROVE  /\ runq_table \in [Prios -> Seq(Slots)]
         /\ \A p \in Prios : Distinct(runq_table[p])
         /\ \A t \in Slots : ut_prio[t] \in Prios
BY DEF SafeForAnyClient, TypeOK, SchedTypeOK, RunQueueExact

\* uthread_wake, when the states are s and w, if it waits, is on no run queue.
LEMMA WakeLemma ==
  ASSUME SafeForAnyClient, NEW s \in [Slots -> States], NEW w \in Slots,
         s[w] = "WAIT" => ~OnQueue(w, runq_table[ut_prio[w]])
  PROVE  /\ WakeState(s, w) \in [Slots -> States]
         /\ \A t \in Slots : WakeState(s, w)[t] =
              IF t = w /\ s[w] = "WAIT" THEN "RUNNABLE" ELSE s[t]
         /\ WakeRunq(s, w) \in [Prios -> Seq(Slots)]
         /\ \A p \in Prios : Distinct(WakeRunq(s, w)[p])
         /\ \A t \in Slots, p \in Prios :
              OnQueue(t, WakeRunq(s, w)[p]) <=>
                OnQueue(t, runq_table[p]) \/ (t = w /\ s[w] = "WAIT" /\ p = ut_prio[w])
<1>1. /\ runq_table \in [Prios -> Seq(Slots)] /\ ut_prio[w] \in Prios
      /\ \A p \in Prios : Distinct(runq_table[p])
  BY DEF SafeForAnyClient, TypeOK, SchedTypeOK, RunQueueExact
<1>2. CASE s[w] = "WAIT"
  <2>1. WakeRunq(s, w) = EnqueueOn(runq_table, ut_prio[w], w)
    BY <1>2 DEF WakeRunq
  <2>2. /\ WakeState(s, w) \in [Slots -> States]
        /\ \A t \in Slots : WakeState(s, w)[t] = IF t = w THEN "RUNNABLE" ELSE s[t]
    BY <1>2 DEF WakeState, States
  <2>3. /\ WakeRunq(s, w) \in [Prios -> Seq(Slots)]
        /\ \A p \in Prios : Distinct(WakeRunq(s, w)[p])
        /\ \A t \in Slots, p \in Prios :
             OnQueue(t, WakeRunq(s, w)[p]) <=>
               OnQueue(t, runq_table[p]) \/ (t = w /\ p = ut_prio[w])
    BY <1>1, <1>2, <2>1, RunqEnqueueLemma, SMTT(30)
  <2> QED
    BY <1>2, <2>2, <2>3
<1>3. CASE s[w] # "WAIT"
  BY <1>1, <1>3 DEF WakeState, WakeRunq
<1> QED
  BY <1>2, <1>3

-----------------------------------------------------------------------------
(* Steps of the scheduler.                                                   *)

\* A step that changes no more than an errno or the status of the process.
LEMMA QuietSafe ==
  ASSUME SafeForAnyClient,
         UNCHANGED <<ut_state, ut_prio, runq_table, ut_curthr, switching, ctx, lifeVars,
                     syncVars>>,
         ut_errno' \in [Slots -> Errors],
         status' \in Statuses
  PROVE  SafeForAnyClient'
<1>1. TypeOK'
  BY DEF SafeForAnyClient, TypeOK, SchedTypeOK, LifeTypeOK, SyncTypeOK, lifeVars, syncVars
<1>2. OneOnCpu'
  BY DEF SafeForAnyClient, OneOnCpu
<1>3. RunQueueExact'
  BY DEF SafeForAnyClient, RunQueueExact, TypeOK, SchedTypeOK
<1>4. WaitQueuesExact'
  BY DEF SafeForAnyClient, WaitQueuesExact, syncVars
<1>5. NoWaiterOnFreeMutex'
  BY DEF SafeForAnyClient, NoWaiterOnFreeMutex, syncVars
<1>6. MutualExclusion'
  BY DEF SafeForAnyClient, MutualExclusion, syncVars
<1>7. ReapQueueExact'
  BY DEF SafeForAnyClient, ReapQueueExact, lifeVars
<1>8. ReaperAwake'
  BY DEF SafeForAnyClient, ReaperAwake, lifeVars
<1>9. ContextInv'
  BY DEF SafeForAnyClient, ContextInv, lifeVars, syncVars
<1>10. JoinerAsleep'
  BY DEF SafeForAnyClient, JoinerAsleep, TypeOK, LifeTypeOK, lifeVars
<1>11. WokenOwnsMutex'
  BY DEF SafeForAnyClient, WokenOwnsMutex, syncVars
<1>12. ReaperFirst'
  BY DEF SafeForAnyClient, ReaperFirst, ContextInv, lifeVars
<1> QED
  BY <1>1, <1>2, <1>3, <1>4, <1>5, <1>6, <1>7, <1>8, <1>9, <1>10, <1>11, <1>12
     DEF SafeForAnyClient

\* uthread_yield.
LEMMA YieldSafe ==
  ASSUME SafeForAnyClient,
         NEW thr \in Slots, Yield(thr), UNCHANGED <<lifeVars, syncVars>>
  PROVE  SafeForAnyClient'
<1>1. /\ ut_state[thr] = "ON_CPU" /\ ctx[thr] = "user" /\ ut_curthr = thr /\ ~switching
      /\ thr # reaper_thr_id
      /\ ut_prio[thr] \in Prios /\ ~OnQueue(thr, runq_table[ut_prio[thr]])
  BY ConstLemma DEF SafeForAnyClient, Yield, Running, OneOnCpu, ContextInv,
         TypeOK, SchedTypeOK, RunQueueExact
<1>2. /\ runq_table' \in [Prios -> Seq(Slots)]
      /\ \A p \in Prios : Distinct(runq_table'[p])
      /\ \A t \in Slots, p \in Prios :
           OnQueue(t, runq_table'[p]) <=> OnQueue(t, runq_table[p]) \/ (t = thr /\ p = ut_prio[thr])
  BY <1>1, RunqEnqueueLemma
     DEF SafeForAnyClient, Yield, uthread_yield, TypeOK, SchedTypeOK, RunQueueExact
<1>3. /\ ut_state' \in [Slots -> States]
      /\ \A t \in Slots : ut_state'[t] = IF t = thr THEN "RUNNABLE" ELSE ut_state[t]
      /\ ctx' = ctx /\ switching' = TRUE
      /\ UNCHANGED <<ut_prio, ut_errno, ut_curthr, status, lifeVars, syncVars>>
  BY <1>1 DEF SafeForAnyClient, Yield, uthread_yield, TypeOK, SchedTypeOK, States
<1>4. TypeOK'
  BY <1>2, <1>3
     DEF SafeForAnyClient, TypeOK, SchedTypeOK, LifeTypeOK, SyncTypeOK, lifeVars, syncVars
<1>5. OneOnCpu'
  BY <1>1, <1>3, ConstLemma
     DEF SafeForAnyClient, OneOnCpu
<1>6. RunQueueExact'
  <2>1. \A p \in Prios : Distinct(runq_table'[p])
    BY <1>2
  <2>2. ASSUME NEW t \in Slots, NEW k \in Prios, OnQueue(t, runq_table'[k])
        PROVE  ut_state'[t] = "RUNNABLE" /\ ut_prio'[t] = k
    BY <2>2, <1>1, <1>2, <1>3 DEF SafeForAnyClient, RunQueueExact
  <2>3. ASSUME NEW t \in Slots, ut_state'[t] = "RUNNABLE", ctx'[t] # "none"
        PROVE  OnQueue(t, runq_table'[ut_prio'[t]])
    BY <2>3, <1>1, <1>2, <1>3, RunqFacts DEF SafeForAnyClient, RunQueueExact
  <2> QED
    BY <2>1, <2>2, <2>3 DEF RunQueueExact
<1>7. WaitQueuesExact'
  BY <1>1, <1>3, ConstLemma
     DEF SafeForAnyClient, WaitQueuesExact, syncVars
<1>8. NoWaiterOnFreeMutex'
  BY <1>3
     DEF SafeForAnyClient, NoWaiterOnFreeMutex, syncVars
<1>9. MutualExclusion'
  BY <1>3
     DEF SafeForAnyClient, MutualExclusion, syncVars
<1>10. ReapQueueExact'
  BY <1>1, <1>3
     DEF SafeForAnyClient, ReapQueueExact, lifeVars
<1>11. ReaperAwake'
  BY <1>1, <1>3, ConstLemma
     DEF SafeForAnyClient, ReaperAwake, lifeVars
<1>12. ContextInv'
  BY <1>1, <1>3, ConstLemma
     DEF SafeForAnyClient, ContextInv, lifeVars, syncVars
<1>13. JoinerAsleep'
  BY <1>1, <1>3, ConstLemma
     DEF SafeForAnyClient, JoinerAsleep, TypeOK, LifeTypeOK, lifeVars
<1>14. WokenOwnsMutex'
  BY <1>1, <1>3, ConstLemma
     DEF SafeForAnyClient, WokenOwnsMutex, syncVars
<1>15. ReaperFirst'
  BY <1>1, <1>3, ConstLemma
     DEF SafeForAnyClient, ReaperFirst, ContextInv, lifeVars
<1> QED
  BY <1>4, <1>5, <1>6, <1>7, <1>8, <1>9, <1>10, <1>11, <1>12, <1>13, <1>14, <1>15
     DEF SafeForAnyClient

\* uthread_switch.
LEMMA SwitchSafe ==
  ASSUME SafeForAnyClient,
         uthread_switch, UNCHANGED <<lifeVars, syncVars>>
  PROVE  SafeForAnyClient'
<1>1. PICK p \in Prios :
        /\ ~utqueue_empty(runq_table[p])
        /\ \A q \in Prios : q > p => utqueue_empty(runq_table[q])
        /\ ut_curthr' = utqueue_first(runq_table[p])
        /\ ut_state' = [ut_state EXCEPT ![utqueue_first(runq_table[p])] = "ON_CPU"]
        /\ runq_table' = DequeueFrom(runq_table, p)
  BY DEF uthread_switch, Chosen
<1>2. /\ ut_curthr' \in Slots
      /\ OnQueue(ut_curthr', runq_table[p])
      /\ runq_table' \in [Prios -> Seq(Slots)]
      /\ \A q \in Prios : Distinct(runq_table'[q])
      /\ \A t \in Slots, q \in Prios :
           OnQueue(t, runq_table'[q]) <=> OnQueue(t, runq_table[q]) /\ ~(q = p /\ t = ut_curthr')
  BY <1>1, RunqDequeueLemma
     DEF SafeForAnyClient, TypeOK, SchedTypeOK, RunQueueExact
<1>3. \A q \in Prios : OnQueue(ut_curthr', runq_table[q]) => q = p
  BY <1>2 DEF SafeForAnyClient, RunQueueExact
<1>4. /\ ut_curthr' \in Slots
      /\ ut_state[ut_curthr'] = "RUNNABLE" /\ ut_prio[ut_curthr'] = p
      /\ switching /\ switching' = FALSE
      /\ ut_state' \in [Slots -> States]
      /\ \A t \in Slots : ut_state'[t] = IF t = ut_curthr' THEN "ON_CPU" ELSE ut_state[t]
      /\ UNCHANGED <<ut_prio, ut_errno, ctx, status, lifeVars, syncVars>>
  BY <1>1, <1>2 DEF SafeForAnyClient, uthread_switch, TypeOK, SchedTypeOK, States, RunQueueExact
<1>5. ctx[reaper_thr_id] = "reaper_start" => ut_curthr' = reaper_thr_id
  BY <1>1, <1>4, ConstLemma, PrioAssumption DEF SafeForAnyClient, ReaperFirst, Prios, OneOnCpu
<1>6. TypeOK'
  BY <1>2, <1>3, <1>4
     DEF SafeForAnyClient, TypeOK, SchedTypeOK, LifeTypeOK, SyncTypeOK, lifeVars, syncVars
<1>7. OneOnCpu'
  BY <1>4, ConstLemma
     DEF SafeForAnyClient, OneOnCpu
<1>8. RunQueueExact'
  <2>1. \A q \in Prios : Distinct(runq_table'[q])
    BY <1>2, <1>3
  <2>2. ASSUME NEW t \in Slots, NEW k \in Prios, OnQueue(t, runq_table'[k])
        PROVE  ut_state'[t] = "RUNNABLE" /\ ut_prio'[t] = k
    BY <2>2, <1>2, <1>3, <1>4 DEF SafeForAnyClient, RunQueueExact
  <2>3. ASSUME NEW t \in Slots, ut_state'[t] = "RUNNABLE", ctx'[t] # "none"
        PROVE  OnQueue(t, runq_table'[ut_prio'[t]])
    BY <2>3, <1>2, <1>3, <1>4, RunqFacts DEF SafeForAnyClient, RunQueueExact
  <2> QED
    BY <2>1, <2>2, <2>3 DEF RunQueueExact
<1>9. WaitQueuesExact'
  BY <1>4, ConstLemma
     DEF SafeForAnyClient, WaitQueuesExact, syncVars
<1>10. NoWaiterOnFreeMutex'
  BY <1>4
     DEF SafeForAnyClient, NoWaiterOnFreeMutex, syncVars
<1>11. MutualExclusion'
  BY <1>4
     DEF SafeForAnyClient, MutualExclusion, syncVars
<1>12. ReapQueueExact'
  BY <1>4
     DEF SafeForAnyClient, ReapQueueExact, lifeVars
<1>13. ReaperAwake'
  BY <1>4, ConstLemma
     DEF SafeForAnyClient, ReaperAwake, lifeVars
<1>14. ContextInv'
  BY <1>4, ConstLemma
     DEF SafeForAnyClient, ContextInv, lifeVars, syncVars
<1>15. JoinerAsleep'
  BY <1>4, ConstLemma
     DEF SafeForAnyClient, JoinerAsleep, TypeOK, LifeTypeOK, lifeVars
<1>16. WokenOwnsMutex'
  BY <1>4, ConstLemma
     DEF SafeForAnyClient, WokenOwnsMutex, syncVars
<1>17. ReaperFirst'
  BY <1>4, <1>5, ConstLemma
     DEF SafeForAnyClient, ReaperFirst, ContextInv, lifeVars
<1> QED
  BY <1>6, <1>7, <1>8, <1>9, <1>10, <1>11, <1>12, <1>13, <1>14, <1>15, <1>16, <1>17
     DEF SafeForAnyClient

\* uthread_setprio on a thread of the table.
LEMMA SetPrioSafe ==
  ASSUME SafeForAnyClient,
         NEW id \in Slots, NEW prio \in Prios,
         ut_prio' = [ut_prio EXCEPT ![id] = prio], runq_table' = Requeue(id, prio),
         UNCHANGED <<ut_state, ut_errno, ut_curthr, switching, ctx, status, lifeVars,
                     syncVars>>,
         ~switching
  PROVE  SafeForAnyClient'
<1>1. /\ \A t \in Slots : ut_prio'[t] = IF t = id THEN prio ELSE ut_prio[t]
      /\ ut_prio' \in [Slots -> Prios]
      /\ UNCHANGED <<ut_state, ut_errno, ut_curthr, switching, ctx, status, lifeVars, syncVars>>
  BY DEF SafeForAnyClient, TypeOK, SchedTypeOK
<1>2. /\ runq_table \in [Prios -> Seq(Slots)] /\ ut_prio[id] \in Prios
      /\ \A p \in Prios : Distinct(runq_table[p])
  BY DEF SafeForAnyClient, TypeOK, SchedTypeOK, RunQueueExact
<1>3. /\ runq_table' \in [Prios -> Seq(Slots)]
      /\ \A p \in Prios : Distinct(runq_table'[p])
      /\ \A t \in Slots, p \in Prios : OnQueue(t, runq_table'[p]) <=>
           IF t = id /\ ut_state[id] = "RUNNABLE" THEN p = prio ELSE OnQueue(t, runq_table[p])
  <2> DEFINE left == IF OnQueue(id, runq_table[ut_prio[id]])
                     THEN RemoveFrom(runq_table, ut_prio[id], id) ELSE runq_table
  <2>1. CASE ut_state[id] # "RUNNABLE"
    BY <1>2, <2>1 DEF Requeue
  <2>2. CASE ut_state[id] = "RUNNABLE"
    <3>1. \A p \in Prios : OnQueue(id, runq_table[p]) => p = ut_prio[id]
      BY DEF SafeForAnyClient, RunQueueExact
    <3>2. /\ left \in [Prios -> Seq(Slots)]
          /\ \A p \in Prios : Distinct(left[p])
          /\ \A t \in Slots, p \in Prios : OnQueue(t, left[p]) <=> OnQueue(t, runq_table[p]) /\ t # id
      <4>1. CASE OnQueue(id, runq_table[ut_prio[id]])
        <5>1. /\ left \in [Prios -> Seq(Slots)]
              /\ \A p \in Prios : Distinct(left[p])
              /\ \A t \in Slots, p \in Prios : OnQueue(t, left[p]) <=>
                   OnQueue(t, runq_table[p]) /\ ~(p = ut_prio[id] /\ t = id)
          BY <1>2, <4>1, RemoveFromLemma, SMTT(30)
        <5> HIDE DEF left
        <5> QED
          BY <3>1, <5>1
      <4>2. CASE ~OnQueue(id, runq_table[ut_prio[id]])
        BY <1>2, <3>1, <4>2
      <4> QED
        BY <4>1, <4>2
    <3>3. runq_table' = EnqueueOn(left, prio, id)
      BY <2>2 DEF Requeue
    <3> HIDE DEF left
    <3>4. /\ runq_table' \in [Prios -> Seq(Slots)]
          /\ \A p \in Prios : Distinct(runq_table'[p])
          /\ \A t \in Slots, p \in Prios :
               OnQueue(t, runq_table'[p]) <=> OnQueue(t, left[p]) \/ (t = id /\ p = prio)
      BY <3>2, <3>3, RunqEnqueueLemma
    <3> QED
      BY <2>2, <3>2, <3>4
  <2> QED
    BY <2>1, <2>2
<1>4. TypeOK'
  BY <1>1, <1>3
     DEF SafeForAnyClient, TypeOK, SchedTypeOK, LifeTypeOK, SyncTypeOK, lifeVars, syncVars
<1>5. OneOnCpu'
  BY <1>1, ConstLemma
     DEF SafeForAnyClient, OneOnCpu
<1>6. RunQueueExact'
  <2>1. \A p \in Prios : Distinct(runq_table'[p])
    BY <1>3
  <2>2. ASSUME NEW t \in Slots, NEW k \in Prios, OnQueue(t, runq_table'[k])
        PROVE  ut_state'[t] = "RUNNABLE" /\ ut_prio'[t] = k
    BY <2>2, <1>1, <1>3 DEF SafeForAnyClient, RunQueueExact
  <2>3. ASSUME NEW t \in Slots, ut_state'[t] = "RUNNABLE", ctx'[t] # "none"
        PROVE  OnQueue(t, runq_table'[ut_prio'[t]])
    BY <2>3, <1>1, <1>3, RunqFacts DEF SafeForAnyClient, RunQueueExact
  <2> QED
    BY <2>1, <2>2, <2>3 DEF RunQueueExact
<1>7. WaitQueuesExact'
  BY <1>1, ConstLemma
     DEF SafeForAnyClient, WaitQueuesExact, syncVars
<1>8. NoWaiterOnFreeMutex'
  BY <1>1
     DEF SafeForAnyClient, NoWaiterOnFreeMutex, syncVars
<1>9. MutualExclusion'
  BY <1>1
     DEF SafeForAnyClient, MutualExclusion, syncVars
<1>10. ReapQueueExact'
  BY <1>1
     DEF SafeForAnyClient, ReapQueueExact, lifeVars
<1>11. ReaperAwake'
  BY <1>1, ConstLemma
     DEF SafeForAnyClient, ReaperAwake, lifeVars
<1>12. ContextInv'
  BY <1>1, ConstLemma
     DEF SafeForAnyClient, ContextInv, lifeVars, syncVars
<1>13. JoinerAsleep'
  BY <1>1, ConstLemma
     DEF SafeForAnyClient, JoinerAsleep, TypeOK, LifeTypeOK, lifeVars
<1>14. WokenOwnsMutex'
  BY <1>1, ConstLemma
     DEF SafeForAnyClient, WokenOwnsMutex, syncVars
<1>15. ReaperFirst'
  BY <1>1, ConstLemma
     DEF SafeForAnyClient, ReaperFirst, ContextInv, lifeVars
<1> QED
  BY <1>4, <1>5, <1>6, <1>7, <1>8, <1>9, <1>10, <1>11, <1>12, <1>13, <1>14, <1>15
     DEF SafeForAnyClient

-----------------------------------------------------------------------------
(* Steps of the life of threads.                                             *)

\* uthread_create.
LEMMA CreateSafe ==
  ASSUME SafeForAnyClient,
         NEW thr \in Slots, NEW uid \in Slots, NEW prio \in Prios, Create(thr, uid, prio),
         UNCHANGED syncVars
  PROVE  SafeForAnyClient'
<1>1. /\ ut_state[thr] = "ON_CPU" /\ ctx[thr] = "user" /\ ut_curthr = thr /\ ~switching
      /\ thr # reaper_thr_id
  BY ConstLemma DEF SafeForAnyClient, Create, Running, OneOnCpu, ContextInv
<1>2. /\ uid \in Slots /\ ut_state[uid] = "NO_STATE" /\ uid # thr /\ uid # reaper_thr_id
      /\ \A p \in Prios : ~OnQueue(uid, runq_table[p])
  BY <1>1 DEF SafeForAnyClient, Create, IsAllocated, RunQueueExact, ContextInv
<1>3. runq_table' = EnqueueOn(runq_table, prio, uid)
  BY DEF Create
<1>4. /\ runq_table' \in [Prios -> Seq(Slots)]
      /\ \A p \in Prios : Distinct(runq_table'[p])
      /\ \A t \in Slots, p \in Prios :
           OnQueue(t, runq_table'[p]) <=> OnQueue(t, runq_table[p]) \/ (t = uid /\ p = prio)
  BY <1>2, <1>3, RunqEnqueueLemma, RunqFacts
<1>5. /\ ut_state' \in [Slots -> States] /\ ctx' \in [Slots -> Contexts]
      /\ \A t \in Slots : ut_state'[t] = IF t = uid THEN "RUNNABLE" ELSE ut_state[t]
      /\ \A t \in Slots : ut_prio'[t] = IF t = uid THEN prio ELSE ut_prio[t]
      /\ \A t \in Slots : ctx'[t] = IF t = uid THEN "user" ELSE ctx[t]
      /\ \A t \in Slots : ut_has_exited'[t] = IF t = uid THEN FALSE ELSE ut_has_exited[t]
      /\ \A t \in Slots : ut_waiter'[t] = IF t = uid THEN NULL ELSE ut_waiter[t]
      /\ \A t \in Slots : ut_detached'[t] = IF t = uid THEN FALSE ELSE ut_detached[t]
      /\ UNCHANGED <<ut_curthr, switching, status, reap_queue, join_uid, join_born, syncVars>>
  BY DEF SafeForAnyClient, Create, ClearSlot, TypeOK, SchedTypeOK, LifeTypeOK, States, Contexts
<1>6. 0 \in Births /\ created + 1 \in Births
  BY CreateAssumption DEF SafeForAnyClient, Create, TypeOK, LifeTypeOK, Births
<1>7. /\ ut_prio' \in [Slots -> Prios] /\ ut_errno' \in [Slots -> Errors]
      /\ ut_has_exited' \in [Slots -> BOOLEAN] /\ ut_exit' \in [Slots -> Births]
      /\ ut_detached' \in [Slots -> BOOLEAN] /\ ut_waiter' \in [Slots -> Slots \cup {NULL}]
      /\ ut_stack' \in [Slots -> BOOLEAN] /\ stacks' \in Int /\ created' \in Births
      /\ born' \in [Slots -> Births]
  BY <1>6, ConstLemma
     DEF SafeForAnyClient, Create, ClearSlot, TypeOK, SchedTypeOK, LifeTypeOK, Errors
<1>8. TypeOK'
  BY <1>4, <1>5, <1>7
     DEF SafeForAnyClient, TypeOK, SchedTypeOK, LifeTypeOK, SyncTypeOK, lifeVars, syncVars
<1>9. OneOnCpu'
  BY <1>1, <1>2, <1>5, ConstLemma
     DEF SafeForAnyClient, OneOnCpu
<1>10. RunQueueExact'
  <2>1. \A p \in Prios : Distinct(runq_table'[p])
    BY <1>4
  <2>2. ASSUME NEW t \in Slots, NEW k \in Prios, OnQueue(t, runq_table'[k])
        PROVE  ut_state'[t] = "RUNNABLE" /\ ut_prio'[t] = k
    BY <2>2, <1>1, <1>2, <1>4, <1>5 DEF SafeForAnyClient, RunQueueExact
  <2>3. ASSUME NEW t \in Slots, ut_state'[t] = "RUNNABLE", ctx'[t] # "none"
        PROVE  OnQueue(t, runq_table'[ut_prio'[t]])
    BY <2>3, <1>1, <1>2, <1>4, <1>5, RunqFacts DEF SafeForAnyClient, RunQueueExact
  <2> QED
    BY <2>1, <2>2, <2>3 DEF RunQueueExact
<1>11. WaitQueuesExact'
  BY <1>1, <1>2, <1>5, ConstLemma
     DEF SafeForAnyClient, WaitQueuesExact, syncVars
<1>12. NoWaiterOnFreeMutex'
  BY <1>5
     DEF SafeForAnyClient, NoWaiterOnFreeMutex, syncVars
<1>13. MutualExclusion'
  BY <1>5
     DEF SafeForAnyClient, MutualExclusion, syncVars
<1>14. ReapQueueExact'
  BY <1>1, <1>2, <1>5
     DEF SafeForAnyClient, ReapQueueExact, lifeVars
<1>15. ReaperAwake'
  BY <1>1, <1>2, <1>5, ConstLemma
     DEF SafeForAnyClient, ReaperAwake, lifeVars
<1>16. ContextInv'
  <2>1. \A t \in Slots :
          /\ ctx'[t] \in {"reaper_start", "reaper"} <=> t = reaper_thr_id
          /\ ctx'[t] = "join" => join_uid'[t] \in Slots
    BY <1>1, <1>2, <1>5, ConstLemma DEF SafeForAnyClient, ContextInv, lifeVars, syncVars
  <2>2. \A t \in Slots :
          /\ ctx'[t] \in {"mtx", "cond"} => on_mtx'[t] \in Mutexes
          /\ ctx'[t] \in {"cond", "broadcast"} => on_cond'[t] \in Conds
    BY <1>1, <1>2, <1>5, ConstLemma DEF SafeForAnyClient, ContextInv, lifeVars, syncVars
  <2>3. \A t \in Slots : ut_state'[t] \in {"NO_STATE", "ZOMBIE"} => ctx'[t] = "user"
    BY <1>1, <1>2, <1>5, ConstLemma DEF SafeForAnyClient, ContextInv, lifeVars, syncVars
  <2>4. \A t \in Slots : ut_has_exited'[t] <=> ut_state'[t] = "ZOMBIE"
    BY <1>1, <1>2, <1>5, ConstLemma DEF SafeForAnyClient, ContextInv, lifeVars, syncVars
  <2>5. ut_state'[reaper_thr_id] \notin {"NO_STATE", "ZOMBIE"}
    BY <1>1, <1>2, <1>5, ConstLemma DEF SafeForAnyClient, ContextInv, lifeVars, syncVars
  <2> QED
    BY <2>1, <2>2, <2>3, <2>4, <2>5 DEF ContextInv
<1>17. JoinerAsleep'
  BY <1>1, <1>2, <1>5, ConstLemma, SMTT(30)
     DEF SafeForAnyClient, JoinerAsleep, TypeOK, LifeTypeOK, lifeVars
<1>18. WokenOwnsMutex'
  BY <1>1, <1>2, <1>5, ConstLemma
     DEF SafeForAnyClient, WokenOwnsMutex, syncVars
<1>19. ReaperFirst'
  BY <1>1, <1>2, <1>5, ConstLemma
     DEF SafeForAnyClient, ReaperFirst, ContextInv, lifeVars
<1> QED
  BY <1>8, <1>9, <1>10, <1>11, <1>12, <1>13, <1>14, <1>15, <1>16, <1>17, <1>18, <1>19
     DEF SafeForAnyClient

\* uthread_create with a priority that is refused.
LEMMA CreateBadPrioSafe ==
  ASSUME SafeForAnyClient,
         NEW thr \in Slots, NEW uid \in Slots, CreateBadPrio(thr, uid), UNCHANGED syncVars
  PROVE  SafeForAnyClient'
<1>1. /\ ut_state[thr] = "ON_CPU" /\ ctx[thr] = "user" /\ ut_curthr = thr /\ ~switching
      /\ thr # reaper_thr_id
      /\ ut_prio[thr] \in Prios /\ ~OnQueue(thr, runq_table[ut_prio[thr]])
  BY ConstLemma DEF SafeForAnyClient, CreateBadPrio, Running, OneOnCpu, ContextInv,
         TypeOK, SchedTypeOK, RunQueueExact
<1>2. /\ uid \in Slots /\ ut_state[uid] = "NO_STATE" /\ uid # thr /\ uid # reaper_thr_id
      /\ \A p \in Prios : ~OnQueue(uid, runq_table[p])
  BY <1>1 DEF SafeForAnyClient, CreateBadPrio, IsAllocated, RunQueueExact, ContextInv
<1>3. runq_table' = EnqueueOn(runq_table, ut_prio[thr], thr)
  BY DEF CreateBadPrio
<1>4. /\ runq_table' \in [Prios -> Seq(Slots)]
      /\ \A p \in Prios : Distinct(runq_table'[p])
      /\ \A t \in Slots, p \in Prios :
           OnQueue(t, runq_table'[p]) <=> OnQueue(t, runq_table[p]) \/ (t = thr /\ p = ut_prio[thr])
  BY <1>1, <1>3, RunqEnqueueLemma, RunqFacts
<1>5. /\ ut_state' \in [Slots -> States] /\ ctx' \in [Slots -> Contexts]
      /\ \A t \in Slots : ut_state'[t] = IF t \in {uid, thr} THEN "RUNNABLE" ELSE ut_state[t]
      /\ \A t \in Slots : ut_prio'[t] = IF t = uid THEN 0 ELSE ut_prio[t]
      /\ \A t \in Slots : ctx'[t] =
           IF t = uid THEN "none" ELSE IF t = thr THEN "create_failed" ELSE ctx[t]
      /\ \A t \in Slots : ut_has_exited'[t] = IF t = uid THEN FALSE ELSE ut_has_exited[t]
      /\ \A t \in Slots : ut_waiter'[t] = IF t = uid THEN NULL ELSE ut_waiter[t]
      /\ \A t \in Slots : ut_detached'[t] = IF t = uid THEN FALSE ELSE ut_detached[t]
      /\ switching' = TRUE
      /\ UNCHANGED <<ut_curthr, status, stacks, reap_queue, join_uid, join_born, syncVars>>
  BY <1>2 DEF SafeForAnyClient, CreateBadPrio, ClearSlot, TypeOK, SchedTypeOK, LifeTypeOK, States, Contexts
<1>6. 0 \in Births /\ created + 1 \in Births
  BY CreateAssumption DEF SafeForAnyClient, CreateBadPrio, TypeOK, LifeTypeOK, Births
<1>7. /\ ut_prio' \in [Slots -> Prios] /\ ut_errno' \in [Slots -> Errors]
      /\ ut_has_exited' \in [Slots -> BOOLEAN] /\ ut_exit' \in [Slots -> Births]
      /\ ut_detached' \in [Slots -> BOOLEAN] /\ ut_waiter' \in [Slots -> Slots \cup {NULL}]
      /\ ut_stack' \in [Slots -> BOOLEAN] /\ stacks' \in Int /\ created' \in Births
      /\ born' \in [Slots -> Births]
  BY <1>6, ConstLemma
     DEF SafeForAnyClient, CreateBadPrio, ClearSlot, TypeOK, SchedTypeOK, LifeTypeOK, Errors
<1>8. TypeOK'
  BY <1>4, <1>5, <1>7
     DEF SafeForAnyClient, TypeOK, SchedTypeOK, LifeTypeOK, SyncTypeOK, lifeVars, syncVars
<1>9. OneOnCpu'
  BY <1>1, <1>2, <1>5, ConstLemma
     DEF SafeForAnyClient, OneOnCpu
<1>10. RunQueueExact'
  <2>1. \A p \in Prios : Distinct(runq_table'[p])
    BY <1>4
  <2>2. ASSUME NEW t \in Slots, NEW k \in Prios, OnQueue(t, runq_table'[k])
        PROVE  ut_state'[t] = "RUNNABLE" /\ ut_prio'[t] = k
    BY <2>2, <1>1, <1>2, <1>4, <1>5 DEF SafeForAnyClient, RunQueueExact
  <2>3. ASSUME NEW t \in Slots, ut_state'[t] = "RUNNABLE", ctx'[t] # "none"
        PROVE  OnQueue(t, runq_table'[ut_prio'[t]])
    <3>1. t # uid
      BY <2>3, <1>5
    <3>2. CASE t = thr
      BY <3>1, <3>2, <1>1, <1>4, <1>5
    <3>3. CASE t # thr
      <4>1. OnQueue(t, runq_table[ut_prio[t]]) /\ ut_prio'[t] = ut_prio[t]
        BY <2>3, <3>1, <3>3, <1>5 DEF SafeForAnyClient, RunQueueExact
      <4> QED
        BY <4>1, <1>4, RunqFacts
    <3> QED
      BY <3>2, <3>3
  <2> QED
    BY <2>1, <2>2, <2>3 DEF RunQueueExact
<1>11. WaitQueuesExact'
  BY <1>1, <1>2, <1>5, ConstLemma
     DEF SafeForAnyClient, WaitQueuesExact, syncVars
<1>12. NoWaiterOnFreeMutex'
  BY <1>5
     DEF SafeForAnyClient, NoWaiterOnFreeMutex, syncVars
<1>13. MutualExclusion'
  BY <1>5
     DEF SafeForAnyClient, MutualExclusion, syncVars
<1>14. ReapQueueExact'
  BY <1>1, <1>2, <1>5
     DEF SafeForAnyClient, ReapQueueExact, lifeVars
<1>15. ReaperAwake'
  BY <1>1, <1>2, <1>5, ConstLemma
     DEF SafeForAnyClient, ReaperAwake, lifeVars
<1>16. ContextInv'
  <2>1. \A t \in Slots :
          /\ ctx'[t] \in {"reaper_start", "reaper"} <=> t = reaper_thr_id
          /\ ctx'[t] = "join" => join_uid'[t] \in Slots
    BY <1>1, <1>2, <1>5, ConstLemma DEF SafeForAnyClient, ContextInv, lifeVars, syncVars
  <2>2. \A t \in Slots :
          /\ ctx'[t] \in {"mtx", "cond"} => on_mtx'[t] \in Mutexes
          /\ ctx'[t] \in {"cond", "broadcast"} => on_cond'[t] \in Conds
    BY <1>1, <1>2, <1>5, ConstLemma DEF SafeForAnyClient, ContextInv, lifeVars, syncVars
  <2>3. \A t \in Slots : ut_state'[t] \in {"NO_STATE", "ZOMBIE"} => ctx'[t] = "user"
    BY <1>1, <1>2, <1>5, ConstLemma DEF SafeForAnyClient, ContextInv, lifeVars, syncVars
  <2>4. \A t \in Slots : ut_has_exited'[t] <=> ut_state'[t] = "ZOMBIE"
    BY <1>1, <1>2, <1>5, ConstLemma DEF SafeForAnyClient, ContextInv, lifeVars, syncVars
  <2>5. ut_state'[reaper_thr_id] \notin {"NO_STATE", "ZOMBIE"}
    BY <1>1, <1>2, <1>5, ConstLemma DEF SafeForAnyClient, ContextInv, lifeVars, syncVars
  <2> QED
    BY <2>1, <2>2, <2>3, <2>4, <2>5 DEF ContextInv
<1>17. JoinerAsleep'
  BY <1>1, <1>2, <1>5, ConstLemma, SMTT(30)
     DEF SafeForAnyClient, JoinerAsleep, TypeOK, LifeTypeOK, lifeVars
<1>18. WokenOwnsMutex'
  BY <1>1, <1>2, <1>5, ConstLemma
     DEF SafeForAnyClient, WokenOwnsMutex, syncVars
<1>19. ReaperFirst'
  BY <1>1, <1>2, <1>5, ConstLemma
     DEF SafeForAnyClient, ReaperFirst, ContextInv, lifeVars
<1> QED
  BY <1>8, <1>9, <1>10, <1>11, <1>12, <1>13, <1>14, <1>15, <1>16, <1>17, <1>18, <1>19
     DEF SafeForAnyClient

\* uthread_exit.
LEMMA ExitSafe ==
  ASSUME SafeForAnyClient,
         NEW thr \in Slots, ExitThread(thr)
  PROVE  SafeForAnyClient'
<1>1. /\ ut_state[thr] = "ON_CPU" /\ ctx[thr] = "user" /\ ut_curthr = thr /\ ~switching
      /\ thr # reaper_thr_id
  BY ConstLemma DEF SafeForAnyClient, ExitThread, Exit, Running, OneOnCpu, ContextInv
<1>2. PICK w :
        /\ w = IF ut_detached[thr] THEN reaper_thr_id ELSE ut_waiter[thr]
        /\ w # NULL => w \in Slots
  BY ConstLemma DEF SafeForAnyClient, TypeOK, LifeTypeOK
<1>3. w # NULL =>
        /\ w \in Slots /\ w # thr /\ ut_state[w] # "ZOMBIE"
        /\ ctx[w] \in {"join", "reaper", "reaper_start"}
        /\ w # reaper_thr_id => ~ut_detached[thr] /\ ctx[w] = "join" /\ join_uid[w] = thr
  BY <1>1, <1>2, ConstLemma DEF SafeForAnyClient, JoinerAsleep, ContextInv
<1>4. ut_detached[thr] => w = reaper_thr_id
  BY <1>2
<1> DEFINE dead == [ut_state EXCEPT ![thr] = "ZOMBIE"]
<1>5. /\ dead \in [Slots -> States]
      /\ \A t \in Slots : dead[t] = IF t = thr THEN "ZOMBIE" ELSE ut_state[t]
      /\ w = NULL => ut_state' = dead /\ runq_table' = runq_table
      /\ w # NULL => ut_state' = WakeState(dead, w) /\ runq_table' = WakeRunq(dead, w)
  BY <1>2 DEF ExitThread, Exit, SafeForAnyClient, TypeOK, SchedTypeOK, States
<1> HIDE DEF dead
<1>6. /\ ut_state' \in [Slots -> States]
      /\ \A t \in Slots : ut_state'[t] = IF t = thr THEN "ZOMBIE"
           ELSE IF t = w /\ ut_state[t] = "WAIT" THEN "RUNNABLE" ELSE ut_state[t]
  <2>1. CASE w = NULL
    BY <1>5, <2>1, ConstLemma
  <2>2. CASE w # NULL
    <3>1. ut_state[w] = "WAIT" => ~OnQueue(w, runq_table[ut_prio[w]])
      BY <1>3, <2>2, RunqFacts DEF SafeForAnyClient, RunQueueExact
    <3> QED
      BY <1>3, <1>5, <2>2, <3>1, WakeLemma
  <2> QED
    BY <2>1, <2>2
<1>7. /\ runq_table' \in [Prios -> Seq(Slots)]
      /\ \A p \in Prios : Distinct(runq_table'[p])
      /\ \A t \in Slots, p \in Prios : OnQueue(t, runq_table'[p]) <=>
           OnQueue(t, runq_table[p]) \/ (t = w /\ ut_state[t] = "WAIT" /\ p = ut_prio[t])
  <2>1. CASE w = NULL
    BY <1>5, <2>1, ConstLemma, RunqFacts
  <2>2. CASE w # NULL
    <3>1. ut_state[w] = "WAIT" => ~OnQueue(w, runq_table[ut_prio[w]])
      BY <1>3, <2>2, RunqFacts DEF SafeForAnyClient, RunQueueExact
    <3> QED
      BY <1>3, <1>5, <2>2, <3>1, WakeLemma
  <2> QED
    BY <2>1, <2>2
<1>8. /\ \A t \in Slots : ut_has_exited'[t] = IF t = thr THEN TRUE ELSE ut_has_exited[t]
      /\ switching' = TRUE
      /\ UNCHANGED <<ut_prio, ut_errno, ut_curthr, ctx, status, ut_detached, ut_waiter, ut_stack,
                     stacks, join_uid, created, born, join_born, m_owner, m_waiters, uc_waiters,
                     on_mtx, on_cond>>
  BY DEF ExitThread, Exit, SafeForAnyClient, TypeOK, LifeTypeOK
<1>9. /\ reap_queue' \in Seq(Slots) /\ Distinct(reap_queue')
      /\ \A t \in Slots : OnQueue(t, reap_queue') <=>
           OnQueue(t, reap_queue) \/ (t = thr /\ ut_detached[thr])
      /\ ~ut_detached[thr] => reap_queue' = reap_queue
  <2>1. /\ reap_queue \in Seq(Slots) /\ Distinct(reap_queue) /\ ~OnQueue(thr, reap_queue)
        /\ reap_queue' = IF ut_detached[thr] THEN list_insert_tail(reap_queue, thr) ELSE reap_queue
    BY <1>1 DEF SafeForAnyClient, TypeOK, LifeTypeOK, ReapQueueExact, ExitThread, Exit
  <2> QED
    BY <2>1, ListInsertLemma
<1>10. /\ ut_has_exited' \in [Slots -> BOOLEAN] /\ ut_exit' \in [Slots -> Births]
       /\ holding' \in [Slots -> SUBSET Mutexes]
  BY DEF ExitThread, Exit, SafeForAnyClient, TypeOK, LifeTypeOK, SyncTypeOK
<1>11. \A t \in Slots : holding'[t] = IF t = thr THEN {} ELSE holding[t]
  BY DEF ExitThread, SafeForAnyClient, TypeOK, SyncTypeOK
<1>12. \A t \in Slots \ {thr} :
         ut_state[t] \notin {"NO_STATE", "ZOMBIE"} /\ ut_waiter[t] # NULL => ut_waiter[t] # w
  BY <1>3, ConstLemma DEF SafeForAnyClient, JoinerAsleep, ContextInv
<1>13. TypeOK'
  BY <1>6, <1>7, <1>8, <1>9, <1>10, <1>11
     DEF SafeForAnyClient, TypeOK, SchedTypeOK, LifeTypeOK, SyncTypeOK, lifeVars, syncVars
<1>14. OneOnCpu'
  BY <1>1, <1>3, <1>4, <1>6, <1>8, ConstLemma
     DEF SafeForAnyClient, OneOnCpu
<1>15. RunQueueExact'
  <2>1. \A p \in Prios : Distinct(runq_table'[p])
    BY <1>7
  <2>2. ASSUME NEW t \in Slots, NEW k \in Prios, OnQueue(t, runq_table'[k])
        PROVE  ut_state'[t] = "RUNNABLE" /\ ut_prio'[t] = k
    BY <2>2, <1>1, <1>3, <1>4, <1>6, <1>7, <1>8 DEF SafeForAnyClient, RunQueueExact
  <2>3. ASSUME NEW t \in Slots, ut_state'[t] = "RUNNABLE", ctx'[t] # "none"
        PROVE  OnQueue(t, runq_table'[ut_prio'[t]])
    BY <2>3, <1>1, <1>3, <1>4, <1>6, <1>7, <1>8, RunqFacts DEF SafeForAnyClient, RunQueueExact
  <2> QED
    BY <2>1, <2>2, <2>3 DEF RunQueueExact
<1>16. WaitQueuesExact'
  BY <1>1, <1>3, <1>4, <1>6, <1>8, ConstLemma
     DEF SafeForAnyClient, WaitQueuesExact, syncVars
<1>17. NoWaiterOnFreeMutex'
  BY <1>6, <1>8
     DEF SafeForAnyClient, NoWaiterOnFreeMutex, syncVars
<1>18. MutualExclusion'
  BY <1>6, <1>8, <1>11
     DEF SafeForAnyClient, MutualExclusion, syncVars
<1>19. ReapQueueExact'
  BY <1>1, <1>3, <1>4, <1>6, <1>8, <1>9
     DEF SafeForAnyClient, ReapQueueExact, lifeVars
<1>20. ReaperAwake'
  BY <1>1, <1>3, <1>4, <1>6, <1>8, <1>9, ConstLemma
     DEF SafeForAnyClient, ReaperAwake, lifeVars, ContextInv, TypeOK, SchedTypeOK, States
<1>21. ContextInv'
  <2>1. \A t \in Slots :
          /\ ctx'[t] \in {"reaper_start", "reaper"} <=> t = reaper_thr_id
          /\ ctx'[t] = "join" => join_uid'[t] \in Slots
    BY <1>1, <1>3, <1>4, <1>6, <1>8, ConstLemma DEF SafeForAnyClient, ContextInv, lifeVars, syncVars
  <2>2. \A t \in Slots :
          /\ ctx'[t] \in {"mtx", "cond"} => on_mtx'[t] \in Mutexes
          /\ ctx'[t] \in {"cond", "broadcast"} => on_cond'[t] \in Conds
    BY <1>1, <1>3, <1>4, <1>6, <1>8, ConstLemma DEF SafeForAnyClient, ContextInv, lifeVars, syncVars
  <2>3. \A t \in Slots : ut_state'[t] \in {"NO_STATE", "ZOMBIE"} => ctx'[t] = "user"
    BY <1>1, <1>3, <1>4, <1>6, <1>8, ConstLemma DEF SafeForAnyClient, ContextInv, lifeVars, syncVars
  <2>4. \A t \in Slots : ut_has_exited'[t] <=> ut_state'[t] = "ZOMBIE"
    BY <1>1, <1>3, <1>4, <1>6, <1>8, ConstLemma DEF SafeForAnyClient, ContextInv, lifeVars, syncVars
  <2>5. ut_state'[reaper_thr_id] \notin {"NO_STATE", "ZOMBIE"}
    BY <1>1, <1>3, <1>4, <1>6, <1>8, ConstLemma DEF SafeForAnyClient, ContextInv, lifeVars, syncVars
  <2> QED
    BY <2>1, <2>2, <2>3, <2>4, <2>5 DEF ContextInv
<1>22. JoinerAsleep'
  BY <1>1, <1>3, <1>4, <1>6, <1>8, <1>12, ConstLemma
     DEF SafeForAnyClient, JoinerAsleep, TypeOK, LifeTypeOK, lifeVars
<1>23. WokenOwnsMutex'
  BY <1>1, <1>3, <1>4, <1>6, <1>8, ConstLemma
     DEF SafeForAnyClient, WokenOwnsMutex, syncVars
<1>24. ReaperFirst'
  BY <1>1, <1>3, <1>4, <1>6, <1>8, ConstLemma
     DEF SafeForAnyClient, ReaperFirst, ContextInv, lifeVars
<1> QED
  BY <1>13, <1>14, <1>15, <1>16, <1>17, <1>18, <1>19, <1>20, <1>21, <1>22, <1>23, <1>24
     DEF SafeForAnyClient

\* The end of uthread_join, with uid on the reap queue already.
LEMMA JoinCorruptSafe ==
  ASSUME SafeForAnyClient,
         NEW thr \in Slots, NEW uid \in Slots, ~switching, ut_curthr = thr,
         ctx[thr] \in {"user", "join"}, ut_has_exited[uid],
         ut_waiter' \in {ut_waiter, [ut_waiter EXCEPT ![uid] = thr]},
         status' \in Statuses,
         UNCHANGED <<ut_state, ut_prio, ut_errno, runq_table, ut_curthr, switching, ctx,
                     ut_has_exited, ut_exit, ut_detached, ut_stack, stacks, reap_queue,
                     join_uid, created, born, join_born, syncVars>>
  PROVE  SafeForAnyClient'
<1>1. /\ ut_state[thr] = "ON_CPU" /\ thr # reaper_thr_id
      /\ ut_state[uid] = "ZOMBIE" /\ uid # reaper_thr_id
      /\ ut_state[reaper_thr_id] \notin {"NO_STATE", "ZOMBIE"}
      /\ ctx[reaper_thr_id] \in {"reaper", "reaper_start"}
  BY ConstLemma DEF SafeForAnyClient, OneOnCpu, ContextInv
<1>2. /\ ut_waiter' \in [Slots -> Slots \cup {NULL}]
      /\ \A t \in Slots \ {uid} : ut_waiter'[t] = ut_waiter[t]
  BY DEF SafeForAnyClient, TypeOK, LifeTypeOK
<1>3. TypeOK'
  BY <1>2
     DEF SafeForAnyClient, TypeOK, SchedTypeOK, LifeTypeOK, SyncTypeOK, lifeVars, syncVars
<1>4. OneOnCpu'
  BY <1>1, ConstLemma
     DEF SafeForAnyClient, OneOnCpu
<1>5. RunQueueExact'
  BY <1>1
     DEF SafeForAnyClient, RunQueueExact, TypeOK, SchedTypeOK
<1>6. WaitQueuesExact'
  BY <1>1, ConstLemma
     DEF SafeForAnyClient, WaitQueuesExact, syncVars
<1>7. NoWaiterOnFreeMutex'
  BY DEF SafeForAnyClient, NoWaiterOnFreeMutex, syncVars
<1>8. MutualExclusion'
  BY DEF SafeForAnyClient, MutualExclusion, syncVars
<1>9. ReapQueueExact'
  BY <1>1
     DEF SafeForAnyClient, ReapQueueExact, lifeVars
<1>10. ReaperAwake'
  BY <1>1, ConstLemma
     DEF SafeForAnyClient, ReaperAwake, lifeVars
<1>11. ContextInv'
  BY <1>1, ConstLemma
     DEF SafeForAnyClient, ContextInv, lifeVars, syncVars
<1>12. JoinerAsleep'
  BY <1>1, <1>2, ConstLemma
     DEF SafeForAnyClient, JoinerAsleep, TypeOK, LifeTypeOK, lifeVars
<1>13. WokenOwnsMutex'
  BY <1>1, ConstLemma
     DEF SafeForAnyClient, WokenOwnsMutex, syncVars
<1>14. ReaperFirst'
  BY <1>1, ConstLemma
     DEF SafeForAnyClient, ReaperFirst, ContextInv, lifeVars
<1> QED
  BY <1>3, <1>4, <1>5, <1>6, <1>7, <1>8, <1>9, <1>10, <1>11, <1>12, <1>13, <1>14
     DEF SafeForAnyClient

\* The end of uthread_join.
LEMMA JoinFinishSafe ==
  ASSUME SafeForAnyClient,
         NEW thr \in Slots, NEW uid \in Slots, ~switching, ut_curthr = thr,
         ctx[thr] \in {"user", "join"}, ut_has_exited[uid],
         ut_waiter' \in {ut_waiter, [ut_waiter EXCEPT ![uid] = thr]},
         ~OnQueue(uid, reap_queue),
         ut_detached' = [ut_detached EXCEPT ![uid] = TRUE],
         reap_queue' = list_insert_tail(reap_queue, uid),
         Wake(reaper_thr_id),
         ctx' = [ctx EXCEPT ![thr] = "user"],
         join_uid' = [join_uid EXCEPT ![thr] = NULL],
         join_born' = [join_born EXCEPT ![thr] = 0],
         UNCHANGED <<ut_prio, ut_errno, ut_curthr, switching, status, ut_has_exited, ut_exit,
                     ut_stack, stacks, created, born, syncVars>>
  PROVE  SafeForAnyClient'
<1>1. /\ ut_state[thr] = "ON_CPU" /\ thr # reaper_thr_id
      /\ ut_state[uid] = "ZOMBIE" /\ uid # reaper_thr_id
      /\ ut_state[reaper_thr_id] \notin {"NO_STATE", "ZOMBIE"}
      /\ ctx[reaper_thr_id] \in {"reaper", "reaper_start"}
  BY ConstLemma DEF SafeForAnyClient, OneOnCpu, ContextInv
<1>2. /\ ut_waiter' \in [Slots -> Slots \cup {NULL}]
      /\ \A t \in Slots \ {uid} : ut_waiter'[t] = ut_waiter[t]
  BY DEF SafeForAnyClient, TypeOK, LifeTypeOK
<1>3. /\ ut_state' \in [Slots -> States]
      /\ \A t \in Slots : ut_state'[t] =
           IF t = reaper_thr_id /\ ut_state[t] = "WAIT" THEN "RUNNABLE" ELSE ut_state[t]
  <2>1. ut_state \in [Slots -> States]
    BY DEF SafeForAnyClient, TypeOK, SchedTypeOK
  <2>2. ut_state[reaper_thr_id] = "WAIT" => ~OnQueue(reaper_thr_id, runq_table[ut_prio[reaper_thr_id]])
    BY RunqFacts, ConstLemma DEF SafeForAnyClient, RunQueueExact
  <2> QED
    BY <2>1, <2>2, ConstLemma, WakeLemma DEF Wake
<1>4. /\ runq_table' \in [Prios -> Seq(Slots)]
      /\ \A p \in Prios : Distinct(runq_table'[p])
      /\ \A t \in Slots, p \in Prios : OnQueue(t, runq_table'[p]) <=>
           \/ OnQueue(t, runq_table[p])
           \/ t = reaper_thr_id /\ ut_state[t] = "WAIT" /\ p = ut_prio[t]
  <2>1. ut_state \in [Slots -> States]
    BY DEF SafeForAnyClient, TypeOK, SchedTypeOK
  <2>2. ut_state[reaper_thr_id] = "WAIT" => ~OnQueue(reaper_thr_id, runq_table[ut_prio[reaper_thr_id]])
    BY RunqFacts, ConstLemma DEF SafeForAnyClient, RunQueueExact
  <2> QED
    BY <2>1, <2>2, ConstLemma, WakeLemma DEF Wake
<1>5. /\ ctx' \in [Slots -> Contexts] /\ join_uid' \in [Slots -> Slots \cup {NULL}]
      /\ \A t \in Slots : ctx'[t] = IF t = thr THEN "user" ELSE ctx[t]
      /\ \A t \in Slots \ {thr} : join_uid'[t] = join_uid[t]
      /\ ut_detached' \in [Slots -> BOOLEAN]
      /\ \A t \in Slots : ut_detached'[t] = IF t = uid THEN TRUE ELSE ut_detached[t]
  BY DEF SafeForAnyClient, TypeOK, SchedTypeOK, LifeTypeOK, Contexts
<1>6. /\ reap_queue' \in Seq(Slots) /\ Distinct(reap_queue')
      /\ \A t \in Slots : OnQueue(t, reap_queue') <=> OnQueue(t, reap_queue) \/ t = uid
  BY ListInsertLemma DEF SafeForAnyClient, TypeOK, LifeTypeOK, ReapQueueExact
<1>7. join_born' \in [Slots -> Births]
  BY CreateAssumption DEF SafeForAnyClient, TypeOK, LifeTypeOK, Births
<1>8. \A t \in Slots : ut_state[t] \notin {"NO_STATE", "ZOMBIE"} /\ ut_waiter[t] # NULL =>
        ut_waiter[t] \in Slots \ {thr, reaper_thr_id} /\ t # uid
  BY <1>1, ConstLemma DEF SafeForAnyClient, JoinerAsleep, TypeOK, LifeTypeOK
<1>9. ctx[reaper_thr_id] # "reaper_start"
  BY <1>1 DEF SafeForAnyClient, ReaperFirst
<1>10. TypeOK'
  BY <1>2, <1>3, <1>4, <1>5, <1>6, <1>7, <1>8
     DEF SafeForAnyClient, TypeOK, SchedTypeOK, LifeTypeOK, SyncTypeOK, lifeVars, syncVars
<1>11. OneOnCpu'
  BY <1>1, <1>3, <1>5, ConstLemma
     DEF SafeForAnyClient, OneOnCpu
<1>12. RunQueueExact'
  <2>1. \A p \in Prios : Distinct(runq_table'[p])
    BY <1>4
  <2>2. ASSUME NEW t \in Slots, NEW k \in Prios, OnQueue(t, runq_table'[k])
        PROVE  ut_state'[t] = "RUNNABLE" /\ ut_prio'[t] = k
    BY <2>2, <1>1, <1>3, <1>4, <1>5 DEF SafeForAnyClient, RunQueueExact
  <2>3. ASSUME NEW t \in Slots, ut_state'[t] = "RUNNABLE", ctx'[t] # "none"
        PROVE  OnQueue(t, runq_table'[ut_prio'[t]])
    <3>1. t # thr /\ ut_prio'[t] = ut_prio[t] /\ ctx[t] # "none"
      BY <2>3, <1>1, <1>3, <1>5
    <3> QED
      BY <2>3, <3>1, <1>3, <1>4, RunqFacts DEF SafeForAnyClient, RunQueueExact
  <2> QED
    BY <2>1, <2>2, <2>3 DEF RunQueueExact
<1>13. WaitQueuesExact'
  <2>1. ASSUME NEW t \in Slots, ut_state[t] = "WAIT", ctx[t] \in {"mtx", "cond"}
        PROVE  ut_state'[t] = "WAIT" /\ ctx'[t] = ctx[t]
    BY <2>1, <1>1, <1>3, <1>5
  <2>2. UNCHANGED <<m_waiters, uc_waiters, on_mtx, on_cond, m_owner>>
    BY DEF syncVars
  <2> QED
    BY <2>1, <2>2 DEF SafeForAnyClient, WaitQueuesExact
<1>14. NoWaiterOnFreeMutex'
  BY <1>3, <1>5
     DEF SafeForAnyClient, NoWaiterOnFreeMutex, syncVars
<1>15. MutualExclusion'
  BY <1>3, <1>5
     DEF SafeForAnyClient, MutualExclusion, syncVars
<1>16. ReapQueueExact'
  BY <1>1, <1>3, <1>5, <1>6
     DEF SafeForAnyClient, ReapQueueExact, lifeVars
<1>17. ReaperAwake'
  BY <1>1, <1>3, <1>5, <1>6, ConstLemma
     DEF SafeForAnyClient, ReaperAwake, lifeVars, ContextInv, TypeOK, SchedTypeOK, States
<1>18. ContextInv'
  <2>1. \A t \in Slots :
          /\ ctx'[t] \in {"reaper_start", "reaper"} <=> t = reaper_thr_id
          /\ ctx'[t] = "join" => join_uid'[t] \in Slots
    BY <1>1, <1>3, <1>5, ConstLemma DEF SafeForAnyClient, ContextInv, lifeVars, syncVars
  <2>2. \A t \in Slots :
          /\ ctx'[t] \in {"mtx", "cond"} => on_mtx'[t] \in Mutexes
          /\ ctx'[t] \in {"cond", "broadcast"} => on_cond'[t] \in Conds
    BY <1>1, <1>3, <1>5, ConstLemma DEF SafeForAnyClient, ContextInv, lifeVars, syncVars
  <2>3. \A t \in Slots : ut_state'[t] \in {"NO_STATE", "ZOMBIE"} => ctx'[t] = "user"
    BY <1>1, <1>3, <1>5, ConstLemma DEF SafeForAnyClient, ContextInv, lifeVars, syncVars
  <2>4. \A t \in Slots : ut_has_exited'[t] <=> ut_state'[t] = "ZOMBIE"
    BY <1>1, <1>3, <1>5, ConstLemma DEF SafeForAnyClient, ContextInv, lifeVars, syncVars
  <2>5. ut_state'[reaper_thr_id] \notin {"NO_STATE", "ZOMBIE"}
    BY <1>1, <1>3, <1>5, ConstLemma DEF SafeForAnyClient, ContextInv, lifeVars, syncVars
  <2> QED
    BY <2>1, <2>2, <2>3, <2>4, <2>5 DEF ContextInv
<1>19. JoinerAsleep'
  <2>1. ASSUME NEW t \in Slots, ut_state'[t] \notin {"NO_STATE", "ZOMBIE"}, ut_waiter'[t] # NULL
        PROVE  /\ ut_state'[ut_waiter'[t]] = "WAIT"
               /\ ctx'[ut_waiter'[t]] = "join"
               /\ join_uid'[ut_waiter'[t]] = t
    <3>1. ut_state[t] \notin {"NO_STATE", "ZOMBIE"} /\ t # uid
      BY <2>1, <1>1, <1>3
    <3>2. ut_waiter'[t] = ut_waiter[t]
      BY <3>1, <1>2
    <3>3. ut_waiter[t] \in Slots \ {thr, reaper_thr_id}
      BY <2>1, <3>1, <3>2, <1>8
    <3> QED
      BY <2>1, <3>1, <3>2, <3>3, <1>3, <1>5 DEF SafeForAnyClient, JoinerAsleep
  <2> QED
    BY <2>1 DEF JoinerAsleep
<1>20. WokenOwnsMutex'
  BY <1>1, <1>3, <1>5, ConstLemma
     DEF SafeForAnyClient, WokenOwnsMutex, syncVars
<1>21. ReaperFirst'
  BY <1>1, <1>3, <1>5, <1>9, ConstLemma
     DEF SafeForAnyClient, ReaperFirst, ContextInv, lifeVars
<1> QED
  BY <1>10, <1>11, <1>12, <1>13, <1>14, <1>15, <1>16, <1>17, <1>18, <1>19, <1>20, <1>21
     DEF SafeForAnyClient

\* uthread_join blocks.
LEMMA JoinBlockSafe ==
  ASSUME SafeForAnyClient,
         NEW thr \in Slots, NEW uid \in Slots, ~switching, ut_curthr = thr, ctx[thr] = "user",
         ut_state[uid] # "NO_STATE", ~ut_has_exited[uid],
         ut_waiter' = [ut_waiter EXCEPT ![uid] = thr],
         Block(thr, "join"),
         join_uid' = [join_uid EXCEPT ![thr] = uid],
         join_born' = [join_born EXCEPT ![thr] = born[uid]],
         UNCHANGED <<ut_prio, ut_errno, runq_table, ut_curthr, status, ut_has_exited, ut_exit,
                     ut_detached, ut_stack, stacks, reap_queue, created, born, syncVars>>
  PROVE  SafeForAnyClient'
<1>1. /\ ut_state[thr] = "ON_CPU" /\ thr # reaper_thr_id
      /\ \A p \in Prios : ~OnQueue(thr, runq_table[p])
  BY ConstLemma DEF SafeForAnyClient, OneOnCpu, ContextInv, RunQueueExact
<1>2. /\ ut_state' \in [Slots -> States] /\ ctx' \in [Slots -> Contexts]
      /\ \A t \in Slots : ut_state'[t] = IF t = thr THEN "WAIT" ELSE ut_state[t]
      /\ \A t \in Slots : ctx'[t] = IF t = thr THEN "join" ELSE ctx[t]
      /\ switching' = TRUE
  BY DEF SafeForAnyClient, Block, TypeOK, SchedTypeOK, States, Contexts
<1>3. /\ ut_waiter' \in [Slots -> Slots \cup {NULL}] /\ join_uid' \in [Slots -> Slots \cup {NULL}]
      /\ \A t \in Slots : ut_waiter'[t] = IF t = uid THEN thr ELSE ut_waiter[t]
      /\ \A t \in Slots : join_uid'[t] = IF t = thr THEN uid ELSE join_uid[t]
  BY DEF SafeForAnyClient, TypeOK, LifeTypeOK
<1>4. join_born' \in [Slots -> Births]
  BY DEF SafeForAnyClient, TypeOK, LifeTypeOK
<1>5. TypeOK'
  BY <1>2, <1>3, <1>4
     DEF SafeForAnyClient, TypeOK, SchedTypeOK, LifeTypeOK, SyncTypeOK, lifeVars, syncVars
<1>6. OneOnCpu'
  BY <1>1, <1>2, <1>3, ConstLemma
     DEF SafeForAnyClient, OneOnCpu
<1>7. RunQueueExact'
  <2>1. ASSUME NEW t \in Slots, NEW k \in Prios, OnQueue(t, runq_table[k])
        PROVE  ut_state'[t] = "RUNNABLE"
    BY <2>1, <1>1, <1>2 DEF SafeForAnyClient, RunQueueExact
  <2>2. ASSUME NEW t \in Slots, ut_state'[t] = "RUNNABLE", ctx'[t] # "none"
        PROVE  ut_state[t] = "RUNNABLE" /\ ctx[t] # "none"
    BY <2>2, <1>2
  <2>3. UNCHANGED <<runq_table, ut_prio>>
    OBVIOUS
  <2> QED
    BY <2>1, <2>2, <2>3 DEF SafeForAnyClient, RunQueueExact
<1>8. WaitQueuesExact'
  BY <1>1, <1>2, <1>3, ConstLemma
     DEF SafeForAnyClient, WaitQueuesExact, syncVars
<1>9. NoWaiterOnFreeMutex'
  BY <1>2, <1>3
     DEF SafeForAnyClient, NoWaiterOnFreeMutex, syncVars
<1>10. MutualExclusion'
  BY <1>2, <1>3
     DEF SafeForAnyClient, MutualExclusion, syncVars
<1>11. ReapQueueExact'
  BY <1>1, <1>2, <1>3
     DEF SafeForAnyClient, ReapQueueExact, lifeVars
<1>12. ReaperAwake'
  BY <1>1, <1>2, <1>3, ConstLemma
     DEF SafeForAnyClient, ReaperAwake, lifeVars
<1>13. ContextInv'
  <2>1. \A t \in Slots :
          /\ ctx'[t] \in {"reaper_start", "reaper"} <=> t = reaper_thr_id
          /\ ctx'[t] = "join" => join_uid'[t] \in Slots
    BY <1>1, <1>2, <1>3, ConstLemma DEF SafeForAnyClient, ContextInv, lifeVars, syncVars
  <2>2. \A t \in Slots :
          /\ ctx'[t] \in {"mtx", "cond"} => on_mtx'[t] \in Mutexes
          /\ ctx'[t] \in {"cond", "broadcast"} => on_cond'[t] \in Conds
    BY <1>1, <1>2, <1>3, ConstLemma DEF SafeForAnyClient, ContextInv, lifeVars, syncVars
  <2>3. \A t \in Slots : ut_state'[t] \in {"NO_STATE", "ZOMBIE"} => ctx'[t] = "user"
    BY <1>1, <1>2, <1>3, ConstLemma DEF SafeForAnyClient, ContextInv, lifeVars, syncVars
  <2>4. \A t \in Slots : ut_has_exited'[t] <=> ut_state'[t] = "ZOMBIE"
    BY <1>1, <1>2, <1>3, ConstLemma DEF SafeForAnyClient, ContextInv, lifeVars, syncVars
  <2>5. ut_state'[reaper_thr_id] \notin {"NO_STATE", "ZOMBIE"}
    BY <1>1, <1>2, <1>3, ConstLemma DEF SafeForAnyClient, ContextInv, lifeVars, syncVars
  <2> QED
    BY <2>1, <2>2, <2>3, <2>4, <2>5 DEF ContextInv
<1>14. JoinerAsleep'
  BY <1>1, <1>2, <1>3, ConstLemma
     DEF SafeForAnyClient, JoinerAsleep, TypeOK, LifeTypeOK, lifeVars
<1>15. WokenOwnsMutex'
  BY <1>1, <1>2, <1>3, ConstLemma
     DEF SafeForAnyClient, WokenOwnsMutex, syncVars
<1>16. ReaperFirst'
  BY <1>1, <1>2, <1>3, ConstLemma
     DEF SafeForAnyClient, ReaperFirst, ContextInv, lifeVars
<1> QED
  BY <1>5, <1>6, <1>7, <1>8, <1>9, <1>10, <1>11, <1>12, <1>13, <1>14, <1>15, <1>16
     DEF SafeForAnyClient

\* uthread_join blocks again.
LEMMA JoinAgainSafe ==
  ASSUME SafeForAnyClient,
         NEW thr \in Slots, ~switching, ut_curthr = thr, ctx[thr] = "join",
         Block(thr, "join"),
         UNCHANGED <<ut_prio, ut_errno, runq_table, ut_curthr, status, lifeVars, syncVars>>
  PROVE  SafeForAnyClient'
<1>1. /\ ut_state[thr] = "ON_CPU" /\ thr # reaper_thr_id
      /\ \A p \in Prios : ~OnQueue(thr, runq_table[p])
  BY ConstLemma DEF SafeForAnyClient, OneOnCpu, ContextInv, RunQueueExact
<1>2. /\ ut_state' \in [Slots -> States] /\ ctx' \in [Slots -> Contexts]
      /\ \A t \in Slots : ut_state'[t] = IF t = thr THEN "WAIT" ELSE ut_state[t]
      /\ \A t \in Slots : ctx'[t] = IF t = thr THEN "join" ELSE ctx[t]
      /\ switching' = TRUE
  BY DEF SafeForAnyClient, Block, TypeOK, SchedTypeOK, States, Contexts
<1>3. TypeOK'
  BY <1>2
     DEF SafeForAnyClient, TypeOK, SchedTypeOK, LifeTypeOK, SyncTypeOK, lifeVars, syncVars
<1>4. OneOnCpu'
  BY <1>1, <1>2, ConstLemma
     DEF SafeForAnyClient, OneOnCpu
<1>5. RunQueueExact'
  BY <1>1, <1>2
     DEF SafeForAnyClient, RunQueueExact, TypeOK, SchedTypeOK
<1>6. WaitQueuesExact'
  BY <1>1, <1>2, ConstLemma
     DEF SafeForAnyClient, WaitQueuesExact, syncVars
<1>7. NoWaiterOnFreeMutex'
  BY <1>2
     DEF SafeForAnyClient, NoWaiterOnFreeMutex, syncVars
<1>8. MutualExclusion'
  BY <1>2
     DEF SafeForAnyClient, MutualExclusion, syncVars
<1>9. ReapQueueExact'
  BY <1>1, <1>2
     DEF SafeForAnyClient, ReapQueueExact, lifeVars
<1>10. ReaperAwake'
  BY <1>1, <1>2, ConstLemma
     DEF SafeForAnyClient, ReaperAwake, lifeVars
<1>11. ContextInv'
  <2>1. \A t \in Slots :
          /\ ctx'[t] \in {"reaper_start", "reaper"} <=> t = reaper_thr_id
          /\ ctx'[t] = "join" => join_uid'[t] \in Slots
    BY <1>1, <1>2, ConstLemma DEF SafeForAnyClient, ContextInv, lifeVars, syncVars
  <2>2. \A t \in Slots :
          /\ ctx'[t] \in {"mtx", "cond"} => on_mtx'[t] \in Mutexes
          /\ ctx'[t] \in {"cond", "broadcast"} => on_cond'[t] \in Conds
    BY <1>1, <1>2, ConstLemma DEF SafeForAnyClient, ContextInv, lifeVars, syncVars
  <2>3. \A t \in Slots : ut_state'[t] \in {"NO_STATE", "ZOMBIE"} => ctx'[t] = "user"
    BY <1>1, <1>2, ConstLemma DEF SafeForAnyClient, ContextInv, lifeVars, syncVars
  <2>4. \A t \in Slots : ut_has_exited'[t] <=> ut_state'[t] = "ZOMBIE"
    BY <1>1, <1>2, ConstLemma DEF SafeForAnyClient, ContextInv, lifeVars, syncVars
  <2>5. ut_state'[reaper_thr_id] \notin {"NO_STATE", "ZOMBIE"}
    BY <1>1, <1>2, ConstLemma DEF SafeForAnyClient, ContextInv, lifeVars, syncVars
  <2> QED
    BY <2>1, <2>2, <2>3, <2>4, <2>5 DEF ContextInv
<1>12. JoinerAsleep'
  BY <1>1, <1>2, ConstLemma
     DEF SafeForAnyClient, JoinerAsleep, TypeOK, LifeTypeOK, lifeVars
<1>13. WokenOwnsMutex'
  BY <1>1, <1>2, ConstLemma
     DEF SafeForAnyClient, WokenOwnsMutex, syncVars
<1>14. ReaperFirst'
  BY <1>1, <1>2, ConstLemma
     DEF SafeForAnyClient, ReaperFirst, ContextInv, lifeVars
<1> QED
  BY <1>3, <1>4, <1>5, <1>6, <1>7, <1>8, <1>9, <1>10, <1>11, <1>12, <1>13, <1>14
     DEF SafeForAnyClient

\* uthread_detach of a thread that is not dead.
LEMMA DetachSafe ==
  ASSUME SafeForAnyClient,
         NEW uid \in Slots, ut_state[uid] # "ZOMBIE",
         ut_detached' = [ut_detached EXCEPT ![uid] = TRUE],
         UNCHANGED <<schedVars, ut_has_exited, ut_exit, ut_waiter, ut_stack, stacks,
                     reap_queue, join_uid, created, born, join_born, syncVars>>
  PROVE  SafeForAnyClient'
<1>1. /\ ut_detached' \in [Slots -> BOOLEAN]
      /\ \A t \in Slots : ut_detached'[t] = IF t = uid THEN TRUE ELSE ut_detached[t]
      /\ UNCHANGED <<ut_state, ut_prio, ut_errno, runq_table, ut_curthr, switching, ctx, status>>
  BY DEF SafeForAnyClient, TypeOK, LifeTypeOK, schedVars
<1>2. TypeOK'
  BY <1>1
     DEF SafeForAnyClient, TypeOK, SchedTypeOK, LifeTypeOK, SyncTypeOK, lifeVars, syncVars
<1>3. OneOnCpu'
  BY <1>1, ConstLemma
     DEF SafeForAnyClient, OneOnCpu
<1>4. RunQueueExact'
  BY <1>1
     DEF SafeForAnyClient, RunQueueExact, TypeOK, SchedTypeOK
<1>5. WaitQueuesExact'
  BY <1>1, ConstLemma
     DEF SafeForAnyClient, WaitQueuesExact, syncVars
<1>6. NoWaiterOnFreeMutex'
  BY <1>1
     DEF SafeForAnyClient, NoWaiterOnFreeMutex, syncVars
<1>7. MutualExclusion'
  BY <1>1
     DEF SafeForAnyClient, MutualExclusion, syncVars
<1>8. ReapQueueExact'
  BY <1>1
     DEF SafeForAnyClient, ReapQueueExact, lifeVars
<1>9. ReaperAwake'
  BY <1>1, ConstLemma
     DEF SafeForAnyClient, ReaperAwake, lifeVars
<1>10. ContextInv'
  BY <1>1, ConstLemma
     DEF SafeForAnyClient, ContextInv, lifeVars, syncVars
<1>11. JoinerAsleep'
  BY <1>1, ConstLemma
     DEF SafeForAnyClient, JoinerAsleep, TypeOK, LifeTypeOK, lifeVars
<1>12. WokenOwnsMutex'
  BY <1>1, ConstLemma
     DEF SafeForAnyClient, WokenOwnsMutex, syncVars
<1>13. ReaperFirst'
  BY <1>1, ConstLemma
     DEF SafeForAnyClient, ReaperFirst, ContextInv, lifeVars
<1> QED
  BY <1>2, <1>3, <1>4, <1>5, <1>6, <1>7, <1>8, <1>9, <1>10, <1>11, <1>12, <1>13
     DEF SafeForAnyClient

\* The reaper blocks.
LEMMA ReaperBlockSafe ==
  ASSUME SafeForAnyClient,
         ~switching, ut_curthr = reaper_thr_id, reap_queue = << >>,
         Block(reaper_thr_id, "reaper"),
         UNCHANGED <<ut_prio, ut_errno, runq_table, ut_curthr, status, lifeVars, syncVars>>
  PROVE  SafeForAnyClient'
<1>1. /\ ut_state[reaper_thr_id] = "ON_CPU"
      /\ ctx[reaper_thr_id] \in {"reaper", "reaper_start"}
  BY ConstLemma DEF SafeForAnyClient, OneOnCpu, ContextInv
<1>2. /\ ut_state' \in [Slots -> States] /\ ctx' \in [Slots -> Contexts]
      /\ \A t \in Slots : ut_state'[t] = IF t = reaper_thr_id THEN "WAIT" ELSE ut_state[t]
      /\ \A t \in Slots : ctx'[t] = IF t = reaper_thr_id THEN "reaper" ELSE ctx[t]
      /\ switching' = TRUE
  BY ConstLemma DEF SafeForAnyClient, Block, TypeOK, SchedTypeOK, States, Contexts
<1>3. TypeOK'
  BY <1>2
     DEF SafeForAnyClient, TypeOK, SchedTypeOK, LifeTypeOK, SyncTypeOK, lifeVars, syncVars
<1>4. OneOnCpu'
  BY <1>1, <1>2, ConstLemma
     DEF SafeForAnyClient, OneOnCpu
<1>5. RunQueueExact'
  BY <1>1, <1>2
     DEF SafeForAnyClient, RunQueueExact, TypeOK, SchedTypeOK
<1>6. WaitQueuesExact'
  BY <1>1, <1>2, ConstLemma
     DEF SafeForAnyClient, WaitQueuesExact, syncVars
<1>7. NoWaiterOnFreeMutex'
  BY <1>2
     DEF SafeForAnyClient, NoWaiterOnFreeMutex, syncVars
<1>8. MutualExclusion'
  BY <1>2
     DEF SafeForAnyClient, MutualExclusion, syncVars
<1>9. ReapQueueExact'
  BY <1>1, <1>2
     DEF SafeForAnyClient, ReapQueueExact, lifeVars
<1>10. ReaperAwake'
  BY <1>1, <1>2, ConstLemma
     DEF SafeForAnyClient, ReaperAwake, lifeVars
<1>11. ContextInv'
  <2>1. \A t \in Slots :
          /\ ctx'[t] \in {"reaper_start", "reaper"} <=> t = reaper_thr_id
          /\ ctx'[t] = "join" => join_uid'[t] \in Slots
    BY <1>1, <1>2, ConstLemma DEF SafeForAnyClient, ContextInv, lifeVars, syncVars
  <2>2. \A t \in Slots :
          /\ ctx'[t] \in {"mtx", "cond"} => on_mtx'[t] \in Mutexes
          /\ ctx'[t] \in {"cond", "broadcast"} => on_cond'[t] \in Conds
    BY <1>1, <1>2, ConstLemma DEF SafeForAnyClient, ContextInv, lifeVars, syncVars
  <2>3. \A t \in Slots : ut_state'[t] \in {"NO_STATE", "ZOMBIE"} => ctx'[t] = "user"
    BY <1>1, <1>2, ConstLemma DEF SafeForAnyClient, ContextInv, lifeVars, syncVars
  <2>4. \A t \in Slots : ut_has_exited'[t] <=> ut_state'[t] = "ZOMBIE"
    BY <1>1, <1>2, ConstLemma DEF SafeForAnyClient, ContextInv, lifeVars, syncVars
  <2>5. ut_state'[reaper_thr_id] \notin {"NO_STATE", "ZOMBIE"}
    BY <1>1, <1>2, ConstLemma DEF SafeForAnyClient, ContextInv, lifeVars, syncVars
  <2> QED
    BY <2>1, <2>2, <2>3, <2>4, <2>5 DEF ContextInv
<1>12. JoinerAsleep'
  BY <1>1, <1>2, ConstLemma
     DEF SafeForAnyClient, JoinerAsleep, TypeOK, LifeTypeOK, lifeVars
<1>13. WokenOwnsMutex'
  BY <1>1, <1>2, ConstLemma
     DEF SafeForAnyClient, WokenOwnsMutex, syncVars
<1>14. ReaperFirst'
  BY <1>1, <1>2, ConstLemma
     DEF SafeForAnyClient, ReaperFirst, ContextInv, lifeVars
<1> QED
  BY <1>3, <1>4, <1>5, <1>6, <1>7, <1>8, <1>9, <1>10, <1>11, <1>12, <1>13, <1>14
     DEF SafeForAnyClient

\* The reaper destroys a thread.
LEMMA ReapSafe ==
  ASSUME SafeForAnyClient,
         Reap, UNCHANGED syncVars
  PROVE  SafeForAnyClient'
<1>1. PICK uid \in Slots :
        /\ uid = list_head(reap_queue) /\ OnQueue(uid, reap_queue)
        /\ reap_queue' \in Seq(Slots) /\ Distinct(reap_queue')
        /\ \A t \in Slots : OnQueue(t, reap_queue') <=> OnQueue(t, reap_queue) /\ t # uid
  BY ListRemoveLemma DEF Reap, SafeForAnyClient, TypeOK, LifeTypeOK, ReapQueueExact
<1>2. /\ ut_state[uid] = "ZOMBIE" /\ uid # reaper_thr_id /\ ctx[uid] = "user"
      /\ \A p \in Prios : ~OnQueue(uid, runq_table[p])
      /\ ut_state[reaper_thr_id] = "ON_CPU" /\ ctx[reaper_thr_id] = "reaper" /\ ~switching
  BY <1>1, ConstLemma
     DEF Reap, Running, SafeForAnyClient, OneOnCpu, ContextInv, ReapQueueExact, RunQueueExact
<1>3. /\ reap_queue' \in Seq(Slots) /\ Distinct(reap_queue')
      /\ \A t \in Slots : OnQueue(t, reap_queue') <=> OnQueue(t, reap_queue) /\ t # uid
  BY <1>1
<1>4. /\ ut_state' \in [Slots -> States]
      /\ \A t \in Slots : ut_state'[t] = IF t = uid THEN "NO_STATE" ELSE ut_state[t]
      /\ \A t \in Slots : ut_prio'[t] = IF t = uid THEN 0 ELSE ut_prio[t]
      /\ \A t \in Slots : ut_has_exited'[t] = IF t = uid THEN FALSE ELSE ut_has_exited[t]
      /\ \A t \in Slots : ut_waiter'[t] = IF t = uid THEN NULL ELSE ut_waiter[t]
      /\ \A t \in Slots : ut_detached'[t] = IF t = uid THEN FALSE ELSE ut_detached[t]
      /\ UNCHANGED <<runq_table, ut_curthr, switching, ctx, status, join_uid, created, join_born,
                     syncVars>>
  BY <1>1 DEF SafeForAnyClient, Reap, ClearSlot, TypeOK, SchedTypeOK, LifeTypeOK, States
<1>5. 0 \in Births
  BY CreateAssumption DEF Births
<1>6. /\ ut_prio' \in [Slots -> Prios] /\ ut_errno' \in [Slots -> Errors]
      /\ ut_has_exited' \in [Slots -> BOOLEAN] /\ ut_exit' \in [Slots -> Births]
      /\ ut_detached' \in [Slots -> BOOLEAN] /\ ut_waiter' \in [Slots -> Slots \cup {NULL}]
      /\ ut_stack' \in [Slots -> BOOLEAN] /\ stacks' \in Int
      /\ born' \in [Slots -> Births]
  BY <1>1, <1>5, ConstLemma
     DEF SafeForAnyClient, Reap, ClearSlot, TypeOK, SchedTypeOK, LifeTypeOK, Errors
<1>7. TypeOK'
  BY <1>3, <1>4, <1>6
     DEF SafeForAnyClient, TypeOK, SchedTypeOK, LifeTypeOK, SyncTypeOK, lifeVars, syncVars
<1>8. OneOnCpu'
  BY <1>2, <1>4, ConstLemma
     DEF SafeForAnyClient, OneOnCpu
<1>9. RunQueueExact'
  <2>1. ASSUME NEW t \in Slots, NEW k \in Prios, OnQueue(t, runq_table[k])
        PROVE  ut_state'[t] = "RUNNABLE" /\ ut_prio'[t] = k
    BY <2>1, <1>2, <1>4 DEF SafeForAnyClient, RunQueueExact
  <2>2. ASSUME NEW t \in Slots, ut_state'[t] = "RUNNABLE", ctx'[t] # "none"
        PROVE  OnQueue(t, runq_table'[ut_prio'[t]])
    BY <2>2, <1>4 DEF SafeForAnyClient, RunQueueExact
  <2> QED
    BY <2>1, <2>2, <1>4 DEF SafeForAnyClient, RunQueueExact
<1>10. WaitQueuesExact'
  BY <1>2, <1>4, ConstLemma
     DEF SafeForAnyClient, WaitQueuesExact, syncVars
<1>11. NoWaiterOnFreeMutex'
  BY <1>4
     DEF SafeForAnyClient, NoWaiterOnFreeMutex, syncVars
<1>12. MutualExclusion'
  BY <1>4
     DEF SafeForAnyClient, MutualExclusion, syncVars
<1>13. ReapQueueExact'
  BY <1>2, <1>3, <1>4
     DEF SafeForAnyClient, ReapQueueExact, lifeVars
<1>14. ReaperAwake'
  BY <1>2, <1>3, <1>4, ConstLemma
     DEF SafeForAnyClient, ReaperAwake, lifeVars
<1>15. ContextInv'
  <2>1. \A t \in Slots :
          /\ ctx'[t] \in {"reaper_start", "reaper"} <=> t = reaper_thr_id
          /\ ctx'[t] = "join" => join_uid'[t] \in Slots
    BY <1>2, <1>4, ConstLemma DEF SafeForAnyClient, ContextInv, lifeVars, syncVars
  <2>2. \A t \in Slots :
          /\ ctx'[t] \in {"mtx", "cond"} => on_mtx'[t] \in Mutexes
          /\ ctx'[t] \in {"cond", "broadcast"} => on_cond'[t] \in Conds
    BY <1>2, <1>4, ConstLemma DEF SafeForAnyClient, ContextInv, lifeVars, syncVars
  <2>3. \A t \in Slots : ut_state'[t] \in {"NO_STATE", "ZOMBIE"} => ctx'[t] = "user"
    BY <1>2, <1>4, ConstLemma DEF SafeForAnyClient, ContextInv, lifeVars, syncVars
  <2>4. \A t \in Slots : ut_has_exited'[t] <=> ut_state'[t] = "ZOMBIE"
    BY <1>2, <1>4, ConstLemma DEF SafeForAnyClient, ContextInv, lifeVars, syncVars
  <2>5. ut_state'[reaper_thr_id] \notin {"NO_STATE", "ZOMBIE"}
    BY <1>2, <1>4, ConstLemma DEF SafeForAnyClient, ContextInv, lifeVars, syncVars
  <2> QED
    BY <2>1, <2>2, <2>3, <2>4, <2>5 DEF ContextInv
<1>16. JoinerAsleep'
  BY <1>2, <1>4, ConstLemma
     DEF SafeForAnyClient, JoinerAsleep, TypeOK, LifeTypeOK, lifeVars
<1>17. WokenOwnsMutex'
  BY <1>2, <1>4, ConstLemma
     DEF SafeForAnyClient, WokenOwnsMutex, syncVars
<1>18. ReaperFirst'
  BY <1>2, <1>4, ConstLemma
     DEF SafeForAnyClient, ReaperFirst, ContextInv, lifeVars
<1> QED
  BY <1>7, <1>8, <1>9, <1>10, <1>11, <1>12, <1>13, <1>14, <1>15, <1>16, <1>17, <1>18
     DEF SafeForAnyClient

-----------------------------------------------------------------------------
(* Steps of mutexes and condition variables.                                 *)

\* A free mutex is acquired, by uthread_mtx_lock or uthread_mtx_trylock.
LEMMA LockAcquireSafe ==
  ASSUME SafeForAnyClient,
         NEW thr \in Slots, ~switching, ut_curthr = thr,
         NEW m \in Mutexes, ctx[thr] \in {"user", "cond"}, m_owner[m] = NULL,
         m_owner' = [m_owner EXCEPT ![m] = thr],
         holding' = [holding EXCEPT ![thr] = @ \cup {m}],
         ctx' \in [Slots -> Contexts],
         \A t \in Slots : ctx'[t] = IF t = thr THEN "user" ELSE ctx[t],
         on_mtx' \in [Slots -> Mutexes \cup {None}],
         \A t \in Slots \ {thr} : on_mtx'[t] = on_mtx[t],
         on_cond' \in [Slots -> Conds \cup {None}],
         \A t \in Slots \ {thr} : on_cond'[t] = on_cond[t],
         UNCHANGED <<ut_state, ut_prio, ut_errno, runq_table, ut_curthr, switching, status,
                     m_waiters, uc_waiters, lifeVars>>
  PROVE  SafeForAnyClient'
<1>1. /\ ut_state[thr] = "ON_CPU" /\ thr # reaper_thr_id
      /\ ctx[reaper_thr_id] # "reaper_start"
      /\ \A x \in Mutexes : ~OnQueue(thr, m_waiters[x])
      /\ \A x \in Conds : ~OnQueue(thr, uc_waiters[x])
  BY ConstLemma DEF SafeForAnyClient, OneOnCpu, ContextInv, ReaperFirst, WaitQueuesExact
<1>2. /\ m_owner' \in [Mutexes -> Slots \cup {NULL}]
      /\ \A x \in Mutexes : m_owner'[x] = IF x = m THEN thr ELSE m_owner[x]
      /\ \A t \in Slots : ~OnQueue(t, m_waiters[m])
  BY EmptyLemma DEF SafeForAnyClient, TypeOK, SyncTypeOK, NoWaiterOnFreeMutex, utqueue_empty
<1>3. /\ holding' \in [Slots -> SUBSET Mutexes]
      /\ \A t \in Slots : holding'[t] = IF t = thr THEN holding[t] \cup {m} ELSE holding[t]
  BY DEF SafeForAnyClient, TypeOK, SyncTypeOK
<1>4. TypeOK'
  BY <1>2, <1>3
     DEF SafeForAnyClient, TypeOK, SchedTypeOK, LifeTypeOK, SyncTypeOK, lifeVars, syncVars
<1>5. OneOnCpu'
  BY <1>1, ConstLemma
     DEF SafeForAnyClient, OneOnCpu
<1>6. RunQueueExact'
  BY <1>1
     DEF SafeForAnyClient, RunQueueExact, TypeOK, SchedTypeOK
<1>7. WaitQueuesExact'
  BY <1>1, <1>2, ConstLemma
     DEF SafeForAnyClient, WaitQueuesExact, syncVars
<1>8. NoWaiterOnFreeMutex'
  BY <1>2
     DEF SafeForAnyClient, NoWaiterOnFreeMutex, syncVars
<1>9. MutualExclusion'
  <2> SUFFICES ASSUME NEW t \in Slots, NEW x \in holding'[t]
               PROVE  m_owner'[x] = t
    BY DEF MutualExclusion
  <2>1. x \in Mutexes
    BY <1>3
  <2>2. CASE x \in holding[t]
    BY <2>1, <2>2, <1>2, ConstLemma DEF SafeForAnyClient, MutualExclusion
  <2>3. CASE x \notin holding[t]
    BY <2>1, <2>3, <1>2, <1>3
  <2> QED
    BY <2>2, <2>3
<1>10. ReapQueueExact'
  BY <1>1
     DEF SafeForAnyClient, ReapQueueExact, lifeVars
<1>11. ReaperAwake'
  BY <1>1, ConstLemma
     DEF SafeForAnyClient, ReaperAwake, lifeVars
<1>12. ContextInv'
  <2>1. \A t \in Slots :
          /\ ctx'[t] \in {"reaper_start", "reaper"} <=> t = reaper_thr_id
          /\ ctx'[t] = "join" => join_uid'[t] \in Slots
    BY <1>1, ConstLemma DEF SafeForAnyClient, ContextInv, lifeVars, syncVars
  <2>2. \A t \in Slots :
          /\ ctx'[t] \in {"mtx", "cond"} => on_mtx'[t] \in Mutexes
          /\ ctx'[t] \in {"cond", "broadcast"} => on_cond'[t] \in Conds
    BY <1>1, ConstLemma DEF SafeForAnyClient, ContextInv, lifeVars, syncVars
  <2>3. \A t \in Slots : ut_state'[t] \in {"NO_STATE", "ZOMBIE"} => ctx'[t] = "user"
    BY <1>1, ConstLemma DEF SafeForAnyClient, ContextInv, lifeVars, syncVars
  <2>4. \A t \in Slots : ut_has_exited'[t] <=> ut_state'[t] = "ZOMBIE"
    BY <1>1, ConstLemma DEF SafeForAnyClient, ContextInv, lifeVars, syncVars
  <2>5. ut_state'[reaper_thr_id] \notin {"NO_STATE", "ZOMBIE"}
    BY <1>1, ConstLemma DEF SafeForAnyClient, ContextInv, lifeVars, syncVars
  <2> QED
    BY <2>1, <2>2, <2>3, <2>4, <2>5 DEF ContextInv
<1>13. JoinerAsleep'
  BY <1>1, ConstLemma
     DEF SafeForAnyClient, JoinerAsleep, TypeOK, LifeTypeOK, lifeVars
<1>14. WokenOwnsMutex'
  <2> SUFFICES ASSUME NEW t \in Slots, ctx'[t] = "mtx", ut_state'[t] # "WAIT"
               PROVE  m_owner'[on_mtx'[t]] = t
    BY DEF WokenOwnsMutex
  <2>1. t # thr /\ on_mtx'[t] = on_mtx[t] /\ on_mtx[t] \in Mutexes /\ m_owner[on_mtx[t]] = t
    BY DEF SafeForAnyClient, WokenOwnsMutex, ContextInv
  <2> QED
    BY <2>1, <1>2, ConstLemma
<1>15. ReaperFirst'
  BY <1>1, ConstLemma
     DEF SafeForAnyClient, ReaperFirst, ContextInv, lifeVars
<1> QED
  BY <1>4, <1>5, <1>6, <1>7, <1>8, <1>9, <1>10, <1>11, <1>12, <1>13, <1>14, <1>15
     DEF SafeForAnyClient

\* uthread_mtx_lock blocks on a mutex that is owned.
LEMMA LockWaitSafe ==
  ASSUME SafeForAnyClient,
         NEW thr \in Slots, ~switching, ut_curthr = thr,
         NEW m \in Mutexes, ctx[thr] \in {"user", "cond"}, m_owner[m] # NULL,
         m_waiters' = IF m_owner[m] # thr THEN EnqueueOn(m_waiters, m, thr) ELSE m_waiters,
         on_mtx' = [on_mtx EXCEPT ![thr] = m],
         Block(thr, "mtx"),
         on_cond' \in [Slots -> Conds \cup {None}],
         \A t \in Slots \ {thr} : on_cond'[t] = on_cond[t],
         UNCHANGED <<ut_prio, ut_errno, runq_table, ut_curthr, status, m_owner, holding,
                     uc_waiters, lifeVars>>
  PROVE  SafeForAnyClient'
<1>1. /\ ut_state[thr] = "ON_CPU" /\ thr # reaper_thr_id
      /\ ctx[reaper_thr_id] # "reaper_start"
      /\ \A x \in Mutexes : ~OnQueue(thr, m_waiters[x])
      /\ \A x \in Conds : ~OnQueue(thr, uc_waiters[x])
  BY ConstLemma DEF SafeForAnyClient, OneOnCpu, ContextInv, ReaperFirst, WaitQueuesExact
<1>2. /\ ut_state' \in [Slots -> States] /\ ctx' \in [Slots -> Contexts]
      /\ \A t \in Slots : ut_state'[t] = IF t = thr THEN "WAIT" ELSE ut_state[t]
      /\ \A t \in Slots : ctx'[t] = IF t = thr THEN "mtx" ELSE ctx[t]
      /\ switching' = TRUE
  BY DEF SafeForAnyClient, Block, TypeOK, SchedTypeOK, States, Contexts
<1>3. /\ on_mtx' \in [Slots -> Mutexes \cup {None}]
      /\ \A t \in Slots : on_mtx'[t] = IF t = thr THEN m ELSE on_mtx[t]
  BY DEF SafeForAnyClient, TypeOK, SyncTypeOK
<1>4. /\ m_waiters' \in [Mutexes -> Seq(Slots)]
      /\ \A x \in Mutexes : Distinct(m_waiters'[x])
      /\ \A x \in Mutexes : x # m => m_waiters'[x] = m_waiters[x]
      /\ \A t \in Slots, x \in Mutexes : OnQueue(t, m_waiters'[x]) =>
           OnQueue(t, m_waiters[x]) \/ (t = thr /\ x = m /\ m_owner[m] # thr)
  <2>1. /\ m_waiters \in [Mutexes -> Seq(Slots)]
        /\ \A x \in Mutexes : Distinct(m_waiters[x])
        /\ ~OnQueue(thr, m_waiters[m])
    BY <1>1 DEF SafeForAnyClient, TypeOK, SyncTypeOK, WaitQueuesExact
  <2>2. CASE m_owner[m] = thr
    BY <2>1, <2>2
  <2>3. CASE m_owner[m] # thr
    <3>1. \A x \in Mutexes : x # m => EnqueueOn(m_waiters, m, thr)[x] = m_waiters[x]
      BY <2>1 DEF EnqueueOn
    <3> HIDE DEF EnqueueOn
    <3>2. m_waiters' = EnqueueOn(m_waiters, m, thr)
      BY <2>3
    <3> QED
      BY <2>1, <2>3, <3>1, <3>2, MtxEnqueueLemma
  <2> QED
    BY <2>2, <2>3
<1>5. TypeOK'
  BY <1>2, <1>3, <1>4
     DEF SafeForAnyClient, TypeOK, SchedTypeOK, LifeTypeOK, SyncTypeOK, lifeVars, syncVars
<1>6. OneOnCpu'
  BY <1>1, <1>2, <1>3, ConstLemma
     DEF SafeForAnyClient, OneOnCpu
<1>7. RunQueueExact'
  <2>1. ASSUME NEW t \in Slots, NEW k \in Prios, OnQueue(t, runq_table[k])
        PROVE  ut_state'[t] = "RUNNABLE"
    BY <2>1, <1>1, <1>2 DEF SafeForAnyClient, RunQueueExact
  <2>2. ASSUME NEW t \in Slots, ut_state'[t] = "RUNNABLE", ctx'[t] # "none"
        PROVE  ut_state[t] = "RUNNABLE" /\ ctx[t] # "none"
    BY <2>2, <1>2
  <2>3. UNCHANGED <<runq_table, ut_prio>>
    OBVIOUS
  <2> QED
    BY <2>1, <2>2, <2>3 DEF SafeForAnyClient, RunQueueExact
<1>8. WaitQueuesExact'
  <2>1. ASSUME NEW x \in Mutexes, NEW t \in Slots, OnQueue(t, m_waiters'[x])
        PROVE  ut_state'[t] = "WAIT" /\ ctx'[t] = "mtx" /\ on_mtx'[t] = x /\ m_owner'[x] # t
    <3>1. CASE t = thr /\ x = m /\ m_owner[m] # thr
      BY <3>1, <1>2, <1>3
    <3>2. CASE OnQueue(t, m_waiters[x])
      <4>1. t # thr
        BY <3>2, <1>1
      <4>2. ut_state[t] = "WAIT" /\ ctx[t] = "mtx" /\ on_mtx[t] = x /\ m_owner[x] # t
        BY <3>2 DEF SafeForAnyClient, WaitQueuesExact
      <4> QED
        BY <4>1, <4>2, <1>2, <1>3
    <3> QED
      BY <2>1, <3>1, <3>2, <1>4
  <2>2. ASSUME NEW c \in Conds, NEW t \in Slots, OnQueue(t, uc_waiters[c])
        PROVE  ut_state'[t] = "WAIT" /\ ctx'[t] = "cond" /\ on_cond'[t] = c
    <3>1. t # thr
      BY <2>2, <1>1
    <3>2. ut_state[t] = "WAIT" /\ ctx[t] = "cond" /\ on_cond[t] = c
      BY <2>2 DEF SafeForAnyClient, WaitQueuesExact
    <3> QED
      BY <3>1, <3>2, <1>2
  <2>3. UNCHANGED uc_waiters
    OBVIOUS
  <2> QED
    BY <2>1, <2>2, <2>3, <1>4 DEF SafeForAnyClient, WaitQueuesExact
<1>9. NoWaiterOnFreeMutex'
  BY <1>2, <1>3, <1>4
     DEF SafeForAnyClient, NoWaiterOnFreeMutex, syncVars
<1>10. MutualExclusion'
  BY <1>2, <1>3, <1>4
     DEF SafeForAnyClient, MutualExclusion, syncVars
<1>11. ReapQueueExact'
  BY <1>1, <1>2, <1>3
     DEF SafeForAnyClient, ReapQueueExact, lifeVars
<1>12. ReaperAwake'
  BY <1>1, <1>2, <1>3, ConstLemma
     DEF SafeForAnyClient, ReaperAwake, lifeVars
<1>13. ContextInv'
  <2>1. \A t \in Slots :
          /\ ctx'[t] \in {"reaper_start", "reaper"} <=> t = reaper_thr_id
          /\ ctx'[t] = "join" => join_uid'[t] \in Slots
    BY <1>1, <1>2, <1>3, ConstLemma DEF SafeForAnyClient, ContextInv, lifeVars, syncVars
  <2>2. \A t \in Slots :
          /\ ctx'[t] \in {"mtx", "cond"} => on_mtx'[t] \in Mutexes
          /\ ctx'[t] \in {"cond", "broadcast"} => on_cond'[t] \in Conds
    BY <1>1, <1>2, <1>3, ConstLemma DEF SafeForAnyClient, ContextInv, lifeVars, syncVars
  <2>3. \A t \in Slots : ut_state'[t] \in {"NO_STATE", "ZOMBIE"} => ctx'[t] = "user"
    BY <1>1, <1>2, <1>3, ConstLemma DEF SafeForAnyClient, ContextInv, lifeVars, syncVars
  <2>4. \A t \in Slots : ut_has_exited'[t] <=> ut_state'[t] = "ZOMBIE"
    BY <1>1, <1>2, <1>3, ConstLemma DEF SafeForAnyClient, ContextInv, lifeVars, syncVars
  <2>5. ut_state'[reaper_thr_id] \notin {"NO_STATE", "ZOMBIE"}
    BY <1>1, <1>2, <1>3, ConstLemma DEF SafeForAnyClient, ContextInv, lifeVars, syncVars
  <2> QED
    BY <2>1, <2>2, <2>3, <2>4, <2>5 DEF ContextInv
<1>14. JoinerAsleep'
  BY <1>1, <1>2, <1>3, ConstLemma
     DEF SafeForAnyClient, JoinerAsleep, TypeOK, LifeTypeOK, lifeVars
<1>15. WokenOwnsMutex'
  BY <1>1, <1>2, <1>3, <1>4, ConstLemma
     DEF SafeForAnyClient, WokenOwnsMutex, syncVars
<1>16. ReaperFirst'
  BY <1>1, <1>2, <1>3, ConstLemma
     DEF SafeForAnyClient, ReaperFirst, ContextInv, lifeVars
<1> QED
  BY <1>5, <1>6, <1>7, <1>8, <1>9, <1>10, <1>11, <1>12, <1>13, <1>14, <1>15, <1>16
     DEF SafeForAnyClient

\* uthread_mtx_lock returns to a thread that was woken in it.
LEMMA LockResumeSafe ==
  ASSUME SafeForAnyClient,
         NEW thr \in Slots, ~switching, ut_curthr = thr,
         ctx[thr] = "mtx",
         holding' = [holding EXCEPT ![thr] = @ \cup {on_mtx[thr]}],
         ctx' = [ctx EXCEPT ![thr] = "user"],
         on_mtx' = [on_mtx EXCEPT ![thr] = None],
         UNCHANGED <<ut_state, ut_prio, ut_errno, runq_table, ut_curthr, switching, status,
                     m_owner, m_waiters, uc_waiters, on_cond, lifeVars>>
  PROVE  SafeForAnyClient'
<1>1. /\ ut_state[thr] = "ON_CPU" /\ thr # reaper_thr_id
      /\ ctx[reaper_thr_id] # "reaper_start"
      /\ \A x \in Mutexes : ~OnQueue(thr, m_waiters[x])
      /\ \A x \in Conds : ~OnQueue(thr, uc_waiters[x])
  BY ConstLemma DEF SafeForAnyClient, OneOnCpu, ContextInv, ReaperFirst, WaitQueuesExact
<1>2. /\ ctx' \in [Slots -> Contexts] /\ on_mtx' \in [Slots -> Mutexes \cup {None}]
      /\ \A t \in Slots : ctx'[t] = IF t = thr THEN "user" ELSE ctx[t]
      /\ \A t \in Slots : on_mtx'[t] = IF t = thr THEN None ELSE on_mtx[t]
  BY DEF SafeForAnyClient, TypeOK, SchedTypeOK, SyncTypeOK, Contexts
<1>3. /\ on_mtx[thr] \in Mutexes /\ m_owner[on_mtx[thr]] = thr
      /\ holding' \in [Slots -> SUBSET Mutexes]
      /\ \A t \in Slots : holding'[t] = IF t = thr THEN holding[t] \cup {on_mtx[thr]} ELSE holding[t]
  BY <1>1 DEF SafeForAnyClient, TypeOK, SyncTypeOK, ContextInv, WokenOwnsMutex
<1>4. TypeOK'
  BY <1>2, <1>3
     DEF SafeForAnyClient, TypeOK, SchedTypeOK, LifeTypeOK, SyncTypeOK, lifeVars, syncVars
<1>5. OneOnCpu'
  BY <1>1, <1>2, ConstLemma
     DEF SafeForAnyClient, OneOnCpu
<1>6. RunQueueExact'
  BY <1>1, <1>2
     DEF SafeForAnyClient, RunQueueExact, TypeOK, SchedTypeOK
<1>7. WaitQueuesExact'
  BY <1>1, <1>2, ConstLemma
     DEF SafeForAnyClient, WaitQueuesExact, syncVars
<1>8. NoWaiterOnFreeMutex'
  BY <1>2
     DEF SafeForAnyClient, NoWaiterOnFreeMutex, syncVars
<1>9. MutualExclusion'
  BY <1>2, <1>3
     DEF SafeForAnyClient, MutualExclusion, syncVars
<1>10. ReapQueueExact'
  BY <1>1, <1>2
     DEF SafeForAnyClient, ReapQueueExact, lifeVars
<1>11. ReaperAwake'
  BY <1>1, <1>2, ConstLemma
     DEF SafeForAnyClient, ReaperAwake, lifeVars
<1>12. ContextInv'
  <2>1. \A t \in Slots :
          /\ ctx'[t] \in {"reaper_start", "reaper"} <=> t = reaper_thr_id
          /\ ctx'[t] = "join" => join_uid'[t] \in Slots
    BY <1>1, <1>2, ConstLemma DEF SafeForAnyClient, ContextInv, lifeVars, syncVars
  <2>2. \A t \in Slots :
          /\ ctx'[t] \in {"mtx", "cond"} => on_mtx'[t] \in Mutexes
          /\ ctx'[t] \in {"cond", "broadcast"} => on_cond'[t] \in Conds
    BY <1>1, <1>2, ConstLemma DEF SafeForAnyClient, ContextInv, lifeVars, syncVars
  <2>3. \A t \in Slots : ut_state'[t] \in {"NO_STATE", "ZOMBIE"} => ctx'[t] = "user"
    BY <1>1, <1>2, ConstLemma DEF SafeForAnyClient, ContextInv, lifeVars, syncVars
  <2>4. \A t \in Slots : ut_has_exited'[t] <=> ut_state'[t] = "ZOMBIE"
    BY <1>1, <1>2, ConstLemma DEF SafeForAnyClient, ContextInv, lifeVars, syncVars
  <2>5. ut_state'[reaper_thr_id] \notin {"NO_STATE", "ZOMBIE"}
    BY <1>1, <1>2, ConstLemma DEF SafeForAnyClient, ContextInv, lifeVars, syncVars
  <2> QED
    BY <2>1, <2>2, <2>3, <2>4, <2>5 DEF ContextInv
<1>13. JoinerAsleep'
  BY <1>1, <1>2, ConstLemma
     DEF SafeForAnyClient, JoinerAsleep, TypeOK, LifeTypeOK, lifeVars
<1>14. WokenOwnsMutex'
  BY <1>1, <1>2, ConstLemma
     DEF SafeForAnyClient, WokenOwnsMutex, syncVars
<1>15. ReaperFirst'
  BY <1>1, <1>2, ConstLemma
     DEF SafeForAnyClient, ReaperFirst, ContextInv, lifeVars
<1> QED
  BY <1>4, <1>5, <1>6, <1>7, <1>8, <1>9, <1>10, <1>11, <1>12, <1>13, <1>14, <1>15
     DEF SafeForAnyClient

\* The thread uthread_mtx_unlock wakes is asleep in uthread_mtx_lock.
LEMMA HandoverWakesLemma ==
  ASSUME SafeForAnyClient, NEW m \in Mutexes, UnlockWakes(m) # NULL
  PROVE  /\ UnlockWakes(m) \in Slots /\ OnQueue(UnlockWakes(m), m_waiters[m])
         /\ ut_state[UnlockWakes(m)] = "WAIT" /\ ctx[UnlockWakes(m)] = "mtx"
         /\ on_mtx[UnlockWakes(m)] = m /\ m_owner[m] # UnlockWakes(m)
         /\ \A p \in Prios : ~OnQueue(UnlockWakes(m), runq_table[p])
<1>1. /\ m_waiters \in [Mutexes -> Seq(Slots)]
      /\ \A x \in Mutexes : Distinct(m_waiters[x])
      /\ ~utqueue_empty(m_waiters[m])
      /\ UnlockWakes(m) = utqueue_first(m_waiters[m])
  BY DEF SafeForAnyClient, TypeOK, SyncTypeOK, WaitQueuesExact, UnlockWakes
<1>2. UnlockWakes(m) \in Slots /\ OnQueue(UnlockWakes(m), m_waiters[m])
  BY <1>1, MtxDequeueLemma
<1> QED
  BY <1>2 DEF SafeForAnyClient, WaitQueuesExact, RunQueueExact

\* What uthread_mtx_unlock does to the owner and to the queue of its mutex.
LEMMA HandoverLemma ==
  ASSUME SafeForAnyClient, NEW thr \in Slots, NEW m \in Mutexes, UnlockBody(thr, m)
  PROVE  /\ m_owner' \in [Mutexes -> Slots \cup {NULL}]
         /\ \A x \in Mutexes : m_owner'[x] = IF x = m THEN UnlockWakes(m) ELSE m_owner[x]
         /\ m_waiters' \in [Mutexes -> Seq(Slots)]
         /\ \A x \in Mutexes : Distinct(m_waiters'[x])
         /\ \A t \in Slots, x \in Mutexes : OnQueue(t, m_waiters'[x]) =>
              OnQueue(t, m_waiters[x]) /\ ~(x = m /\ t = UnlockWakes(m))
         /\ \A x \in Mutexes : x # m => m_waiters'[x] = m_waiters[x]
         /\ UnlockWakes(m) = NULL => m_waiters'[m] = << >>
         /\ holding' \in [Slots -> SUBSET Mutexes]
         /\ \A t \in Slots : holding'[t] = IF t = thr THEN holding[t] \ {m} ELSE holding[t]
<1>1. /\ m_waiters \in [Mutexes -> Seq(Slots)]
      /\ \A x \in Mutexes : Distinct(m_waiters[x])
  BY DEF SafeForAnyClient, TypeOK, SyncTypeOK, WaitQueuesExact
<1>2. /\ holding' \in [Slots -> SUBSET Mutexes]
      /\ \A t \in Slots : holding'[t] = IF t = thr THEN holding[t] \ {m} ELSE holding[t]
  BY DEF UnlockBody, SafeForAnyClient, TypeOK, SyncTypeOK
<1>3. UnlockWakes(m) \in Slots \cup {NULL}
  BY HandoverWakesLemma
<1>4. /\ m_owner' \in [Mutexes -> Slots \cup {NULL}]
      /\ \A x \in Mutexes : m_owner'[x] = IF x = m THEN UnlockWakes(m) ELSE m_owner[x]
  BY <1>3 DEF UnlockBody, SafeForAnyClient, TypeOK, SyncTypeOK
<1>5. CASE utqueue_empty(m_waiters[m])
  <2>1. m_waiters' = m_waiters /\ UnlockWakes(m) = NULL /\ m_waiters[m] = << >>
    BY <1>5 DEF UnlockBody, UnlockWakes, utqueue_empty
  <2> QED
    BY <1>1, <1>2, <1>4, <2>1, ConstLemma
<1>6. CASE ~utqueue_empty(m_waiters[m])
  <2>1. m_waiters' = DequeueFrom(m_waiters, m) /\ UnlockWakes(m) = utqueue_first(m_waiters[m])
    BY <1>6 DEF UnlockBody, UnlockWakes
  <2>2. \A x \in Mutexes : x # m => DequeueFrom(m_waiters, m)[x] = m_waiters[x]
    BY <1>1 DEF DequeueFrom
  <2>3. UnlockWakes(m) \in Slots
    BY <1>1, <1>6, <2>1, MtxDequeueLemma
  <2>4. /\ m_waiters' \in [Mutexes -> Seq(Slots)]
        /\ \A x \in Mutexes : Distinct(m_waiters'[x])
        /\ \A t \in Slots, x \in Mutexes : OnQueue(t, m_waiters'[x]) =>
             OnQueue(t, m_waiters[x]) /\ ~(x = m /\ t = UnlockWakes(m))
    BY <1>1, <1>6, <2>1, MtxDequeueLemma
  <2> QED
    BY <1>2, <1>4, <2>1, <2>2, <2>3, <2>4, ConstLemma
<1> QED
  BY <1>5, <1>6

\* uthread_mtx_unlock.
LEMMA UnlockSafe ==
  ASSUME SafeForAnyClient,
         NEW thr \in Slots, ~switching, ut_curthr = thr,
         NEW m \in Mutexes, ctx[thr] = "user", m_owner[m] = thr,
         UnlockBody(thr, m),
         IF UnlockWakes(m) = NULL THEN UNCHANGED <<ut_state, runq_table>> ELSE Wake(UnlockWakes(m)),
         UNCHANGED <<ut_prio, ut_errno, ut_curthr, switching, ctx, status, uc_waiters,
                     on_mtx, on_cond, lifeVars>>
  PROVE  SafeForAnyClient'
<1>1. /\ ut_state[thr] = "ON_CPU" /\ thr # reaper_thr_id
      /\ ctx[reaper_thr_id] # "reaper_start"
      /\ \A x \in Mutexes : ~OnQueue(thr, m_waiters[x])
      /\ \A x \in Conds : ~OnQueue(thr, uc_waiters[x])
  BY ConstLemma DEF SafeForAnyClient, OneOnCpu, ContextInv, ReaperFirst, WaitQueuesExact
<1>2. PICK w : w = UnlockWakes(m)
  OBVIOUS
<1>3. w # NULL =>
        /\ w \in Slots \ {thr, reaper_thr_id} /\ ut_state[w] = "WAIT" /\ ctx[w] = "mtx"
        /\ on_mtx[w] = m /\ ~OnQueue(w, runq_table[ut_prio[w]])
  BY <1>1, <1>2, HandoverWakesLemma, RunqFacts, ConstLemma DEF SafeForAnyClient, ContextInv
<1>4. /\ m_owner' \in [Mutexes -> Slots \cup {NULL}]
      /\ \A x \in Mutexes : m_owner'[x] = IF x = m THEN w ELSE m_owner[x]
  BY <1>2, HandoverLemma
<1>5. /\ m_waiters' \in [Mutexes -> Seq(Slots)]
      /\ \A x \in Mutexes : Distinct(m_waiters'[x])
      /\ \A t \in Slots, x \in Mutexes : OnQueue(t, m_waiters'[x]) =>
           OnQueue(t, m_waiters[x]) /\ ~(x = m /\ t = w)
      /\ \A x \in Mutexes : x # m => m_waiters'[x] = m_waiters[x]
      /\ w = NULL => m_waiters'[m] = << >>
  BY <1>2, HandoverLemma
<1>6. /\ holding' \in [Slots -> SUBSET Mutexes]
      /\ \A t \in Slots : holding'[t] = IF t = thr THEN holding[t] \ {m} ELSE holding[t]
  BY <1>2, HandoverLemma
<1>7. /\ ut_state' \in [Slots -> States]
      /\ \A t \in Slots : ut_state'[t] = IF t = w THEN "RUNNABLE" ELSE ut_state[t]
  <2>1. CASE w = NULL
    BY <1>2, <2>1, ConstLemma, RunqFacts DEF SafeForAnyClient, TypeOK, SchedTypeOK
  <2>2. CASE w # NULL
    <3>1. ut_state \in [Slots -> States]
      BY DEF SafeForAnyClient, TypeOK, SchedTypeOK
    <3>2. ut_state' = WakeState(ut_state, w) /\ runq_table' = WakeRunq(ut_state, w)
      BY <1>2, <2>2 DEF Wake
    <3>3. /\ WakeState(ut_state, w) \in [Slots -> States]
          /\ \A t \in Slots : WakeState(ut_state, w)[t] = IF t = w THEN "RUNNABLE" ELSE ut_state[t]
      BY <1>3, <2>2, <3>1, WakeLemma
    <3>4. /\ WakeRunq(ut_state, w) \in [Prios -> Seq(Slots)]
          /\ \A p \in Prios : Distinct(WakeRunq(ut_state, w)[p])
          /\ \A t \in Slots, p \in Prios : OnQueue(t, WakeRunq(ut_state, w)[p]) <=>
               OnQueue(t, runq_table[p]) \/ (t = w /\ p = ut_prio[t])
      BY <1>3, <2>2, <3>1, WakeLemma
    <3> QED
      BY <1>3, <2>2, <3>2, <3>3, <3>4
  <2> QED
    BY <2>1, <2>2
<1>8. /\ runq_table' \in [Prios -> Seq(Slots)]
      /\ \A p \in Prios : Distinct(runq_table'[p])
      /\ \A t \in Slots, p \in Prios : OnQueue(t, runq_table'[p]) <=>
           OnQueue(t, runq_table[p]) \/ (t = w /\ p = ut_prio[t])
  <2>1. CASE w = NULL
    BY <1>2, <2>1, ConstLemma, RunqFacts DEF SafeForAnyClient, TypeOK, SchedTypeOK
  <2>2. CASE w # NULL
    <3>1. ut_state \in [Slots -> States]
      BY DEF SafeForAnyClient, TypeOK, SchedTypeOK
    <3>2. ut_state' = WakeState(ut_state, w) /\ runq_table' = WakeRunq(ut_state, w)
      BY <1>2, <2>2 DEF Wake
    <3>3. /\ WakeState(ut_state, w) \in [Slots -> States]
          /\ \A t \in Slots : WakeState(ut_state, w)[t] = IF t = w THEN "RUNNABLE" ELSE ut_state[t]
      BY <1>3, <2>2, <3>1, WakeLemma
    <3>4. /\ WakeRunq(ut_state, w) \in [Prios -> Seq(Slots)]
          /\ \A p \in Prios : Distinct(WakeRunq(ut_state, w)[p])
          /\ \A t \in Slots, p \in Prios : OnQueue(t, WakeRunq(ut_state, w)[p]) <=>
               OnQueue(t, runq_table[p]) \/ (t = w /\ p = ut_prio[t])
      BY <1>3, <2>2, <3>1, WakeLemma
    <3> QED
      BY <1>3, <2>2, <3>2, <3>3, <3>4
  <2> QED
    BY <2>1, <2>2
<1>9. TypeOK'
  BY <1>4, <1>5, <1>6, <1>7, <1>8
     DEF SafeForAnyClient, TypeOK, SchedTypeOK, LifeTypeOK, SyncTypeOK, lifeVars, syncVars
<1>10. OneOnCpu'
  BY <1>1, <1>3, <1>7, ConstLemma
     DEF SafeForAnyClient, OneOnCpu
<1>11. RunQueueExact'
  <2>1. \A p \in Prios : Distinct(runq_table'[p])
    BY <1>8
  <2>2. ASSUME NEW t \in Slots, NEW k \in Prios, OnQueue(t, runq_table'[k])
        PROVE  ut_state'[t] = "RUNNABLE" /\ ut_prio'[t] = k
    BY <2>2, <1>1, <1>3, <1>7, <1>8 DEF SafeForAnyClient, RunQueueExact
  <2>3. ASSUME NEW t \in Slots, ut_state'[t] = "RUNNABLE", ctx'[t] # "none"
        PROVE  OnQueue(t, runq_table'[ut_prio'[t]])
    BY <2>3, <1>1, <1>3, <1>7, <1>8, RunqFacts DEF SafeForAnyClient, RunQueueExact
  <2> QED
    BY <2>1, <2>2, <2>3 DEF RunQueueExact
<1>12. WaitQueuesExact'
  <2>1. ASSUME NEW x \in Mutexes, NEW t \in Slots, OnQueue(t, m_waiters'[x])
        PROVE  ut_state'[t] = "WAIT" /\ ctx'[t] = "mtx" /\ on_mtx'[t] = x /\ m_owner'[x] # t
    <3>1. OnQueue(t, m_waiters[x]) /\ ~(x = m /\ t = w)
      BY <2>1, <1>5
    <3>2. ut_state[t] = "WAIT" /\ ctx[t] = "mtx" /\ on_mtx[t] = x /\ m_owner[x] # t
      BY <3>1 DEF SafeForAnyClient, WaitQueuesExact
    <3>3. t # w /\ t # thr
      BY <3>1, <3>2, <1>1, <1>3, ConstLemma
    <3> QED
      BY <3>1, <3>2, <3>3, <1>4, <1>7
  <2>2. ASSUME NEW c \in Conds, NEW t \in Slots, OnQueue(t, uc_waiters[c])
        PROVE  ut_state'[t] = "WAIT" /\ ctx'[t] = "cond" /\ on_cond'[t] = c
    <3>1. ut_state[t] = "WAIT" /\ ctx[t] = "cond" /\ on_cond[t] = c
      BY <2>2 DEF SafeForAnyClient, WaitQueuesExact
    <3> QED
      BY <3>1, <1>3, <1>7, ConstLemma
  <2>3. UNCHANGED uc_waiters
    OBVIOUS
  <2> QED
    BY <2>1, <2>2, <2>3, <1>5 DEF SafeForAnyClient, WaitQueuesExact
<1>13. NoWaiterOnFreeMutex'
  <2> SUFFICES ASSUME NEW x \in Mutexes, m_owner'[x] = NULL
               PROVE  m_waiters'[x] = << >>
    BY DEF NoWaiterOnFreeMutex
  <2>1. CASE x = m
    BY <2>1, <1>4, <1>5
  <2>2. CASE x # m
    BY <2>2, <1>4, <1>5 DEF SafeForAnyClient, NoWaiterOnFreeMutex
  <2> QED
    BY <2>1, <2>2
<1>14. MutualExclusion'
  <2> SUFFICES ASSUME NEW t \in Slots, NEW x \in holding'[t]
               PROVE  m_owner'[x] = t
    BY DEF MutualExclusion
  <2>1. x \in Mutexes /\ x \in holding[t] /\ m_owner[x] = t /\ x # m
    BY <1>6 DEF SafeForAnyClient, MutualExclusion
  <2> QED
    BY <2>1, <1>4
<1>15. ReapQueueExact'
  <2>1. \A t \in Slots : ut_state'[t] = "ZOMBIE" <=> ut_state[t] = "ZOMBIE"
    BY <1>1, <1>3, <1>7, ConstLemma
  <2> QED
    BY <2>1 DEF SafeForAnyClient, ReapQueueExact, lifeVars
<1>16. ReaperAwake'
  BY <1>1, <1>3, <1>7, ConstLemma
     DEF SafeForAnyClient, ReaperAwake, lifeVars
<1>17. ContextInv'
  <2>1. \A t \in Slots :
          /\ ctx'[t] \in {"reaper_start", "reaper"} <=> t = reaper_thr_id
          /\ ctx'[t] = "join" => join_uid'[t] \in Slots
    BY <1>1, <1>3, <1>7, ConstLemma DEF SafeForAnyClient, ContextInv, lifeVars, syncVars
  <2>2. \A t \in Slots :
          /\ ctx'[t] \in {"mtx", "cond"} => on_mtx'[t] \in Mutexes
          /\ ctx'[t] \in {"cond", "broadcast"} => on_cond'[t] \in Conds
    BY <1>1, <1>3, <1>7, ConstLemma DEF SafeForAnyClient, ContextInv, lifeVars, syncVars
  <2>3. \A t \in Slots : ut_state'[t] \in {"NO_STATE", "ZOMBIE"} => ctx'[t] = "user"
    BY <1>1, <1>3, <1>7, ConstLemma DEF SafeForAnyClient, ContextInv, lifeVars, syncVars
  <2>4. \A t \in Slots : ut_has_exited'[t] <=> ut_state'[t] = "ZOMBIE"
    BY <1>1, <1>3, <1>7, ConstLemma DEF SafeForAnyClient, ContextInv, lifeVars, syncVars
  <2>5. ut_state'[reaper_thr_id] \notin {"NO_STATE", "ZOMBIE"}
    BY <1>1, <1>3, <1>7, ConstLemma DEF SafeForAnyClient, ContextInv, lifeVars, syncVars
  <2> QED
    BY <2>1, <2>2, <2>3, <2>4, <2>5 DEF ContextInv
<1>18. JoinerAsleep'
  BY <1>1, <1>3, <1>7, ConstLemma
     DEF SafeForAnyClient, JoinerAsleep, TypeOK, LifeTypeOK, lifeVars
<1>19. WokenOwnsMutex'
  <2> SUFFICES ASSUME NEW t \in Slots, ctx'[t] = "mtx", ut_state'[t] # "WAIT"
               PROVE  m_owner'[on_mtx'[t]] = t
    BY DEF WokenOwnsMutex
  <2>1. CASE t = w
    BY <2>1, <1>3, <1>4, ConstLemma
  <2>2. CASE t # w
    <3>1. ctx[t] = "mtx" /\ ut_state[t] # "WAIT" /\ t # thr
      BY <2>2, <1>7
    <3>2. on_mtx[t] \in Mutexes /\ m_owner[on_mtx[t]] = t
      BY <3>1 DEF SafeForAnyClient, WokenOwnsMutex, ContextInv
    <3> QED
      BY <3>1, <3>2, <1>4
  <2> QED
    BY <2>1, <2>2
<1>20. ReaperFirst'
  BY <1>1, <1>3, <1>7, ConstLemma
     DEF SafeForAnyClient, ReaperFirst, ContextInv, lifeVars
<1> QED
  BY <1>9, <1>10, <1>11, <1>12, <1>13, <1>14, <1>15, <1>16, <1>17, <1>18, <1>19, <1>20
     DEF SafeForAnyClient

\* uthread_cond_wait blocks.
LEMMA CondWaitSafe ==
  ASSUME SafeForAnyClient,
         NEW thr \in Slots, ~switching, ut_curthr = thr,
         NEW c \in Conds, NEW m \in Mutexes, ctx[thr] = "user", m_owner[m] = thr,
         uc_waiters' = EnqueueOn(uc_waiters, c, thr),
         UnlockBody(thr, m),
         on_mtx' = [on_mtx EXCEPT ![thr] = m],
         on_cond' = [on_cond EXCEPT ![thr] = c],
         IF UnlockWakes(m) = NULL
         THEN Block(thr, "cond") /\ UNCHANGED runq_table
         ELSE WakeAndBlock(UnlockWakes(m), thr, "cond"),
         UNCHANGED <<ut_prio, ut_errno, ut_curthr, status, lifeVars>>
  PROVE  SafeForAnyClient'
<1>1. /\ ut_state[thr] = "ON_CPU" /\ thr # reaper_thr_id
      /\ ctx[reaper_thr_id] # "reaper_start"
      /\ \A x \in Mutexes : ~OnQueue(thr, m_waiters[x])
      /\ \A x \in Conds : ~OnQueue(thr, uc_waiters[x])
  BY ConstLemma DEF SafeForAnyClient, OneOnCpu, ContextInv, ReaperFirst, WaitQueuesExact
<1>2. PICK w : w = UnlockWakes(m)
  OBVIOUS
<1>3. w # NULL =>
        /\ w \in Slots \ {thr, reaper_thr_id} /\ ut_state[w] = "WAIT" /\ ctx[w] = "mtx"
        /\ on_mtx[w] = m /\ ~OnQueue(w, runq_table[ut_prio[w]])
  BY <1>1, <1>2, HandoverWakesLemma, RunqFacts, ConstLemma DEF SafeForAnyClient, ContextInv
<1>4. /\ m_owner' \in [Mutexes -> Slots \cup {NULL}]
      /\ \A x \in Mutexes : m_owner'[x] = IF x = m THEN w ELSE m_owner[x]
  BY <1>2, HandoverLemma
<1>5. /\ m_waiters' \in [Mutexes -> Seq(Slots)]
      /\ \A x \in Mutexes : Distinct(m_waiters'[x])
      /\ \A t \in Slots, x \in Mutexes : OnQueue(t, m_waiters'[x]) =>
           OnQueue(t, m_waiters[x]) /\ ~(x = m /\ t = w)
      /\ \A x \in Mutexes : x # m => m_waiters'[x] = m_waiters[x]
      /\ w = NULL => m_waiters'[m] = << >>
  BY <1>2, HandoverLemma
<1>6. /\ holding' \in [Slots -> SUBSET Mutexes]
      /\ \A t \in Slots : holding'[t] = IF t = thr THEN holding[t] \ {m} ELSE holding[t]
  BY <1>2, HandoverLemma
<1>7. /\ ut_state' \in [Slots -> States]
      /\ \A t \in Slots : ut_state'[t] = IF t = thr THEN "WAIT"
                                         ELSE IF t = w THEN "RUNNABLE" ELSE ut_state[t]
  <2>1. CASE w = NULL
    BY <1>2, <2>1, ConstLemma, RunqFacts DEF SafeForAnyClient, TypeOK, SchedTypeOK, Block, States
  <2>2. CASE w # NULL
    <3>1. ut_state \in [Slots -> States]
      BY DEF SafeForAnyClient, TypeOK, SchedTypeOK
    <3>2. ut_state' = [WakeState(ut_state, w) EXCEPT ![thr] = "WAIT"] /\ runq_table' = WakeRunq(ut_state, w)
      BY <1>2, <2>2 DEF WakeAndBlock
    <3>3. /\ WakeState(ut_state, w) \in [Slots -> States]
          /\ \A t \in Slots : WakeState(ut_state, w)[t] = IF t = w THEN "RUNNABLE" ELSE ut_state[t]
      BY <1>3, <2>2, <3>1, WakeLemma
    <3>4. /\ WakeRunq(ut_state, w) \in [Prios -> Seq(Slots)]
          /\ \A p \in Prios : Distinct(WakeRunq(ut_state, w)[p])
          /\ \A t \in Slots, p \in Prios : OnQueue(t, WakeRunq(ut_state, w)[p]) <=>
               OnQueue(t, runq_table[p]) \/ (t = w /\ p = ut_prio[t])
      BY <1>3, <2>2, <3>1, WakeLemma
    <3> QED
      BY <1>3, <2>2, <3>2, <3>3, <3>4 DEF States
  <2> QED
    BY <2>1, <2>2
<1>8. /\ runq_table' \in [Prios -> Seq(Slots)]
      /\ \A p \in Prios : Distinct(runq_table'[p])
      /\ \A t \in Slots, p \in Prios : OnQueue(t, runq_table'[p]) <=>
           OnQueue(t, runq_table[p]) \/ (t = w /\ p = ut_prio[t])
  <2>1. CASE w = NULL
    BY <1>2, <2>1, ConstLemma, RunqFacts DEF SafeForAnyClient, TypeOK, SchedTypeOK, Block
  <2>2. CASE w # NULL
    <3>1. ut_state \in [Slots -> States]
      BY DEF SafeForAnyClient, TypeOK, SchedTypeOK
    <3>2. ut_state' = [WakeState(ut_state, w) EXCEPT ![thr] = "WAIT"] /\ runq_table' = WakeRunq(ut_state, w)
      BY <1>2, <2>2 DEF WakeAndBlock
    <3>3. /\ WakeState(ut_state, w) \in [Slots -> States]
          /\ \A t \in Slots : WakeState(ut_state, w)[t] = IF t = w THEN "RUNNABLE" ELSE ut_state[t]
      BY <1>3, <2>2, <3>1, WakeLemma
    <3>4. /\ WakeRunq(ut_state, w) \in [Prios -> Seq(Slots)]
          /\ \A p \in Prios : Distinct(WakeRunq(ut_state, w)[p])
          /\ \A t \in Slots, p \in Prios : OnQueue(t, WakeRunq(ut_state, w)[p]) <=>
               OnQueue(t, runq_table[p]) \/ (t = w /\ p = ut_prio[t])
      BY <1>3, <2>2, <3>1, WakeLemma
    <3> QED
      BY <1>3, <2>2, <3>2, <3>3, <3>4
  <2> QED
    BY <2>1, <2>2
<1>9. /\ ctx' \in [Slots -> Contexts] /\ switching' = TRUE
      /\ \A t \in Slots : ctx'[t] = IF t = thr THEN "cond" ELSE ctx[t]
  BY DEF Block, WakeAndBlock, SafeForAnyClient, TypeOK, SchedTypeOK, Contexts
<1>10. /\ on_mtx' \in [Slots -> Mutexes \cup {None}] /\ on_cond' \in [Slots -> Conds \cup {None}]
       /\ \A t \in Slots : on_mtx'[t] = IF t = thr THEN m ELSE on_mtx[t]
       /\ \A t \in Slots : on_cond'[t] = IF t = thr THEN c ELSE on_cond[t]
  <2>1. on_mtx \in [Slots -> Mutexes \cup {None}] /\ on_cond \in [Slots -> Conds \cup {None}]
    BY DEF SafeForAnyClient, TypeOK, SyncTypeOK
  <2>2. /\ on_mtx' \in [Slots -> Mutexes \cup {None}]
        /\ \A t \in Slots : on_mtx'[t] = IF t = thr THEN m ELSE on_mtx[t]
    BY <2>1
  <2>3. /\ on_cond' \in [Slots -> Conds \cup {None}]
        /\ \A t \in Slots : on_cond'[t] = IF t = thr THEN c ELSE on_cond[t]
    BY <2>1
  <2> QED
    BY <2>2, <2>3
<1>11. /\ uc_waiters' \in [Conds -> Seq(Slots)]
       /\ \A x \in Conds : Distinct(uc_waiters'[x])
       /\ \A t \in Slots, x \in Conds : OnQueue(t, uc_waiters'[x]) <=>
            OnQueue(t, uc_waiters[x]) \/ (t = thr /\ x = c)
  <2>1. /\ uc_waiters \in [Conds -> Seq(Slots)]
        /\ \A x \in Conds : Distinct(uc_waiters[x])
        /\ ~OnQueue(thr, uc_waiters[c])
    BY <1>1 DEF SafeForAnyClient, TypeOK, SyncTypeOK, WaitQueuesExact
  <2> QED
    BY <2>1, CondEnqueueLemma
<1>12. TypeOK'
  BY <1>4, <1>5, <1>6, <1>7, <1>8, <1>9, <1>10, <1>11
     DEF SafeForAnyClient, TypeOK, SchedTypeOK, LifeTypeOK, SyncTypeOK, lifeVars, syncVars
<1>13. OneOnCpu'
  BY <1>1, <1>3, <1>7, <1>9, <1>10, ConstLemma
     DEF SafeForAnyClient, OneOnCpu
<1>14. RunQueueExact'
  <2>1. \A p \in Prios : Distinct(runq_table'[p])
    BY <1>8
  <2>2. ASSUME NEW t \in Slots, NEW k \in Prios, OnQueue(t, runq_table'[k])
        PROVE  ut_state'[t] = "RUNNABLE" /\ ut_prio'[t] = k
    <3>1. CASE OnQueue(t, runq_table[k])
      <4>1. ut_state[t] = "RUNNABLE" /\ ut_prio[t] = k /\ t # thr
        BY <3>1, <1>1 DEF SafeForAnyClient, RunQueueExact
      <4> QED
        BY <4>1, <1>7
    <3>2. CASE t = w /\ k = ut_prio[t]
      BY <3>2, <1>3, <1>7, ConstLemma
    <3> QED
      BY <2>2, <3>1, <3>2, <1>8
  <2>3. ASSUME NEW t \in Slots, ut_state'[t] = "RUNNABLE", ctx'[t] # "none"
        PROVE  OnQueue(t, runq_table'[ut_prio'[t]])
    <3>1. t # thr /\ ctx[t] # "none" /\ (t = w \/ ut_state[t] = "RUNNABLE")
      BY <2>3, <1>7, <1>9
    <3>2. ut_prio[t] \in Prios /\ (t = w \/ OnQueue(t, runq_table[ut_prio[t]]))
      BY <3>1, RunqFacts DEF SafeForAnyClient, RunQueueExact
    <3> QED
      BY <3>2, <1>8
  <2> QED
    BY <2>1, <2>2, <2>3 DEF RunQueueExact
<1>15. WaitQueuesExact'
  <2>1. ASSUME NEW x \in Mutexes, NEW t \in Slots, OnQueue(t, m_waiters'[x])
        PROVE  ut_state'[t] = "WAIT" /\ ctx'[t] = "mtx" /\ on_mtx'[t] = x /\ m_owner'[x] # t
    <3>1. OnQueue(t, m_waiters[x]) /\ ~(x = m /\ t = w)
      BY <2>1, <1>5
    <3>2. ut_state[t] = "WAIT" /\ ctx[t] = "mtx" /\ on_mtx[t] = x /\ m_owner[x] # t
      BY <3>1 DEF SafeForAnyClient, WaitQueuesExact
    <3>3. t # w /\ t # thr
      BY <3>1, <3>2, <1>1, <1>3, ConstLemma
    <3> QED
      BY <3>1, <3>2, <3>3, <1>4, <1>7, <1>9, <1>10
  <2>2. ASSUME NEW x \in Conds, NEW t \in Slots, OnQueue(t, uc_waiters'[x])
        PROVE  ut_state'[t] = "WAIT" /\ ctx'[t] = "cond" /\ on_cond'[t] = x
    <3>1. CASE t = thr /\ x = c
      BY <3>1, <1>7, <1>9, <1>10
    <3>2. CASE OnQueue(t, uc_waiters[x])
      <4>1. ut_state[t] = "WAIT" /\ ctx[t] = "cond" /\ on_cond[t] = x /\ t # thr
        BY <3>2, <1>1 DEF SafeForAnyClient, WaitQueuesExact
      <4> QED
        BY <4>1, <1>3, <1>7, <1>9, <1>10, ConstLemma
    <3> QED
      BY <2>2, <3>1, <3>2, <1>11
  <2> QED
    BY <2>1, <2>2, <1>5, <1>11 DEF WaitQueuesExact
<1>16. NoWaiterOnFreeMutex'
  <2> SUFFICES ASSUME NEW x \in Mutexes, m_owner'[x] = NULL
               PROVE  m_waiters'[x] = << >>
    BY DEF NoWaiterOnFreeMutex
  <2>1. CASE x = m
    BY <2>1, <1>4, <1>5
  <2>2. CASE x # m
    BY <2>2, <1>4, <1>5 DEF SafeForAnyClient, NoWaiterOnFreeMutex
  <2> QED
    BY <2>1, <2>2
<1>17. MutualExclusion'
  <2> SUFFICES ASSUME NEW t \in Slots, NEW x \in holding'[t]
               PROVE  m_owner'[x] = t
    BY DEF MutualExclusion
  <2>1. x \in Mutexes /\ x \in holding[t] /\ m_owner[x] = t /\ x # m
    BY <1>6 DEF SafeForAnyClient, MutualExclusion
  <2> QED
    BY <2>1, <1>4
<1>18. ReapQueueExact'
  <2>1. \A t \in Slots : ut_state'[t] = "ZOMBIE" <=> ut_state[t] = "ZOMBIE"
    BY <1>1, <1>3, <1>7, ConstLemma
  <2> QED
    BY <2>1 DEF SafeForAnyClient, ReapQueueExact, lifeVars
<1>19. ReaperAwake'
  BY <1>1, <1>3, <1>7, <1>9, <1>10, ConstLemma
     DEF SafeForAnyClient, ReaperAwake, lifeVars
<1>20. ContextInv'
  <2>1. \A t \in Slots :
          /\ ctx'[t] \in {"reaper_start", "reaper"} <=> t = reaper_thr_id
          /\ ctx'[t] = "join" => join_uid'[t] \in Slots
    BY <1>1, <1>3, <1>7, <1>9, <1>10, ConstLemma DEF SafeForAnyClient, ContextInv, lifeVars, syncVars
  <2>2. \A t \in Slots :
          /\ ctx'[t] \in {"mtx", "cond"} => on_mtx'[t] \in Mutexes
          /\ ctx'[t] \in {"cond", "broadcast"} => on_cond'[t] \in Conds
    BY <1>1, <1>3, <1>7, <1>9, <1>10, ConstLemma DEF SafeForAnyClient, ContextInv, lifeVars, syncVars
  <2>3. \A t \in Slots : ut_state'[t] \in {"NO_STATE", "ZOMBIE"} => ctx'[t] = "user"
    BY <1>1, <1>3, <1>7, <1>9, <1>10, ConstLemma DEF SafeForAnyClient, ContextInv, lifeVars, syncVars
  <2>4. \A t \in Slots : ut_has_exited'[t] <=> ut_state'[t] = "ZOMBIE"
    BY <1>1, <1>3, <1>7, <1>9, <1>10, ConstLemma DEF SafeForAnyClient, ContextInv, lifeVars, syncVars
  <2>5. ut_state'[reaper_thr_id] \notin {"NO_STATE", "ZOMBIE"}
    BY <1>1, <1>3, <1>7, <1>9, <1>10, ConstLemma DEF SafeForAnyClient, ContextInv, lifeVars, syncVars
  <2> QED
    BY <2>1, <2>2, <2>3, <2>4, <2>5 DEF ContextInv
<1>21. JoinerAsleep'
  BY <1>1, <1>3, <1>7, <1>9, <1>10, ConstLemma
     DEF SafeForAnyClient, JoinerAsleep, TypeOK, LifeTypeOK, lifeVars
<1>22. WokenOwnsMutex'
  <2> SUFFICES ASSUME NEW t \in Slots, ctx'[t] = "mtx", ut_state'[t] # "WAIT"
               PROVE  m_owner'[on_mtx'[t]] = t
    BY DEF WokenOwnsMutex
  <2>1. t # thr /\ on_mtx'[t] = on_mtx[t]
    BY <1>9, <1>10
  <2>2. CASE t = w
    BY <2>1, <2>2, <1>3, <1>4, ConstLemma
  <2>3. CASE t # w
    <3>1. ctx[t] = "mtx" /\ ut_state[t] # "WAIT"
      BY <2>1, <2>3, <1>7, <1>9
    <3>2. on_mtx[t] \in Mutexes /\ m_owner[on_mtx[t]] = t
      BY <3>1 DEF SafeForAnyClient, WokenOwnsMutex, ContextInv
    <3> QED
      BY <2>1, <3>1, <3>2, <1>4
  <2> QED
    BY <2>2, <2>3
<1>23. ReaperFirst'
  BY <1>1, <1>3, <1>7, <1>9, <1>10, ConstLemma
     DEF SafeForAnyClient, ReaperFirst, ContextInv, lifeVars
<1> QED
  BY <1>12, <1>13, <1>14, <1>15, <1>16, <1>17, <1>18, <1>19, <1>20, <1>21, <1>22, <1>23
     DEF SafeForAnyClient

\* uthread_cond_signal, and one round of uthread_cond_broadcast, with a thread to wake.
LEMMA WakeFirstSafe ==
  ASSUME SafeForAnyClient,
         NEW thr \in Slots, ~switching, ut_curthr = thr,
         NEW c \in Conds, ctx[thr] \in {"user", "broadcast"}, ~utqueue_empty(uc_waiters[c]),
         WakeFirst(c),
         UNCHANGED <<ut_prio, ut_errno, ut_curthr, switching, ctx, status, m_owner, m_waiters,
                     on_mtx, on_cond, holding, lifeVars>>
  PROVE  SafeForAnyClient'
<1>1. /\ ut_state[thr] = "ON_CPU" /\ thr # reaper_thr_id
      /\ ctx[reaper_thr_id] # "reaper_start"
      /\ \A x \in Mutexes : ~OnQueue(thr, m_waiters[x])
      /\ \A x \in Conds : ~OnQueue(thr, uc_waiters[x])
  BY ConstLemma DEF SafeForAnyClient, OneOnCpu, ContextInv, ReaperFirst, WaitQueuesExact
<1>2. /\ uc_waiters \in [Conds -> Seq(Slots)] /\ \A x \in Conds : Distinct(uc_waiters[x])
      /\ ut_state \in [Slots -> States]
  BY DEF SafeForAnyClient, TypeOK, SyncTypeOK, SchedTypeOK, WaitQueuesExact
<1>3. PICK w \in Slots : w = utqueue_first(uc_waiters[c]) /\ OnQueue(w, uc_waiters[c])
  BY <1>2, CondDequeueLemma
<1>4. /\ uc_waiters' \in [Conds -> Seq(Slots)]
      /\ \A x \in Conds : Distinct(uc_waiters'[x])
      /\ \A t \in Slots, x \in Conds : OnQueue(t, uc_waiters'[x]) =>
           OnQueue(t, uc_waiters[x]) /\ ~(x = c /\ t = w)
  <2>1. uc_waiters' = DequeueFrom(uc_waiters, c)
    BY DEF WakeFirst
  <2> QED
    BY <1>2, <1>3, <2>1, CondDequeueLemma
<1>5. /\ ut_state[w] = "WAIT" /\ ctx[w] = "cond" /\ on_cond[w] = c
      /\ w # thr /\ w # reaper_thr_id /\ \A p \in Prios : ~OnQueue(w, runq_table[p])
  BY <1>1, <1>3, ConstLemma DEF SafeForAnyClient, WaitQueuesExact, ContextInv, RunQueueExact
<1>6. /\ ut_state' = WakeState(ut_state, w) /\ runq_table' = WakeRunq(ut_state, w)
      /\ ~OnQueue(w, runq_table[ut_prio[w]])
  BY <1>3, <1>5, RunqFacts DEF WakeFirst, Wake
<1>7. /\ ut_state' \in [Slots -> States]
      /\ \A t \in Slots : ut_state'[t] = IF t = w THEN "RUNNABLE" ELSE ut_state[t]
  <2>1. /\ WakeState(ut_state, w) \in [Slots -> States]
        /\ \A t \in Slots : WakeState(ut_state, w)[t] =
             IF t = w /\ ut_state[w] = "WAIT" THEN "RUNNABLE" ELSE ut_state[t]
    BY <1>2, <1>6, WakeLemma
  <2> QED
    BY <1>5, <1>6, <2>1
<1>8. /\ runq_table' \in [Prios -> Seq(Slots)]
      /\ \A p \in Prios : Distinct(runq_table'[p])
      /\ \A t \in Slots, p \in Prios : OnQueue(t, runq_table'[p]) <=>
           OnQueue(t, runq_table[p]) \/ (t = w /\ p = ut_prio[t])
  BY <1>2, <1>5, <1>6, WakeLemma
<1>9. TypeOK'
  BY <1>4, <1>7, <1>8
     DEF SafeForAnyClient, TypeOK, SchedTypeOK, LifeTypeOK, SyncTypeOK, lifeVars, syncVars
<1>10. OneOnCpu'
  BY <1>1, <1>5, <1>7, ConstLemma
     DEF SafeForAnyClient, OneOnCpu
<1>11. RunQueueExact'
  <2>1. \A p \in Prios : Distinct(runq_table'[p])
    BY <1>8
  <2>2. ASSUME NEW t \in Slots, NEW k \in Prios, OnQueue(t, runq_table'[k])
        PROVE  ut_state'[t] = "RUNNABLE" /\ ut_prio'[t] = k
    BY <2>2, <1>1, <1>5, <1>7, <1>8 DEF SafeForAnyClient, RunQueueExact
  <2>3. ASSUME NEW t \in Slots, ut_state'[t] = "RUNNABLE", ctx'[t] # "none"
        PROVE  OnQueue(t, runq_table'[ut_prio'[t]])
    BY <2>3, <1>1, <1>5, <1>7, <1>8, RunqFacts DEF SafeForAnyClient, RunQueueExact
  <2> QED
    BY <2>1, <2>2, <2>3 DEF RunQueueExact
<1>12. WaitQueuesExact'
  <2>1. ASSUME NEW x \in Mutexes, NEW t \in Slots, OnQueue(t, m_waiters[x])
        PROVE  ut_state'[t] = "WAIT"
    BY <2>1, <1>5, <1>7 DEF SafeForAnyClient, WaitQueuesExact
  <2>2. ASSUME NEW x \in Conds, NEW t \in Slots, OnQueue(t, uc_waiters'[x])
        PROVE  ut_state'[t] = "WAIT" /\ ctx'[t] = "cond" /\ on_cond'[t] = x
    BY <2>2, <1>4, <1>5, <1>7 DEF SafeForAnyClient, WaitQueuesExact
  <2>3. UNCHANGED <<m_waiters, m_owner, on_mtx, ctx>>
    OBVIOUS
  <2> QED
    BY <2>1, <2>2, <2>3, <1>4 DEF SafeForAnyClient, WaitQueuesExact
<1>13. NoWaiterOnFreeMutex'
  BY <1>7
     DEF SafeForAnyClient, NoWaiterOnFreeMutex, syncVars
<1>14. MutualExclusion'
  BY <1>7
     DEF SafeForAnyClient, MutualExclusion, syncVars
<1>15. ReapQueueExact'
  BY <1>1, <1>5, <1>7
     DEF SafeForAnyClient, ReapQueueExact, lifeVars
<1>16. ReaperAwake'
  BY <1>1, <1>5, <1>7, ConstLemma
     DEF SafeForAnyClient, ReaperAwake, lifeVars
<1>17. ContextInv'
  <2>1. \A t \in Slots :
          /\ ctx'[t] \in {"reaper_start", "reaper"} <=> t = reaper_thr_id
          /\ ctx'[t] = "join" => join_uid'[t] \in Slots
    BY <1>1, <1>5, <1>7, ConstLemma DEF SafeForAnyClient, ContextInv, lifeVars, syncVars
  <2>2. \A t \in Slots :
          /\ ctx'[t] \in {"mtx", "cond"} => on_mtx'[t] \in Mutexes
          /\ ctx'[t] \in {"cond", "broadcast"} => on_cond'[t] \in Conds
    BY <1>1, <1>5, <1>7, ConstLemma DEF SafeForAnyClient, ContextInv, lifeVars, syncVars
  <2>3. \A t \in Slots : ut_state'[t] \in {"NO_STATE", "ZOMBIE"} => ctx'[t] = "user"
    BY <1>1, <1>5, <1>7, ConstLemma DEF SafeForAnyClient, ContextInv, lifeVars, syncVars
  <2>4. \A t \in Slots : ut_has_exited'[t] <=> ut_state'[t] = "ZOMBIE"
    BY <1>1, <1>5, <1>7, ConstLemma DEF SafeForAnyClient, ContextInv, lifeVars, syncVars
  <2>5. ut_state'[reaper_thr_id] \notin {"NO_STATE", "ZOMBIE"}
    BY <1>1, <1>5, <1>7, ConstLemma DEF SafeForAnyClient, ContextInv, lifeVars, syncVars
  <2> QED
    BY <2>1, <2>2, <2>3, <2>4, <2>5 DEF ContextInv
<1>18. JoinerAsleep'
  BY <1>1, <1>5, <1>7, ConstLemma
     DEF SafeForAnyClient, JoinerAsleep, TypeOK, LifeTypeOK, lifeVars
<1>19. WokenOwnsMutex'
  BY <1>1, <1>5, <1>7, ConstLemma
     DEF SafeForAnyClient, WokenOwnsMutex, syncVars
<1>20. ReaperFirst'
  BY <1>1, <1>5, <1>7, ConstLemma
     DEF SafeForAnyClient, ReaperFirst, ContextInv, lifeVars
<1> QED
  BY <1>9, <1>10, <1>11, <1>12, <1>13, <1>14, <1>15, <1>16, <1>17, <1>18, <1>19, <1>20
     DEF SafeForAnyClient

\* uthread_cond_broadcast starts, or ends.
LEMMA BroadcastEndsSafe ==
  ASSUME SafeForAnyClient,
         NEW thr \in Slots, ~switching, ut_curthr = thr,
         NEW k \in {"user", "broadcast"}, ctx[thr] \in {"user", "broadcast"},
         ctx' = [ctx EXCEPT ![thr] = k],
         on_cond' \in [Slots -> Conds \cup {None}],
         \A t \in Slots : t # thr => on_cond'[t] = on_cond[t],
         k = "broadcast" => on_cond'[thr] \in Conds,
         UNCHANGED <<ut_state, ut_prio, ut_errno, runq_table, ut_curthr, switching, status,
                     m_owner, m_waiters, uc_waiters, on_mtx, holding, lifeVars>>
  PROVE  SafeForAnyClient'
<1>1. /\ ut_state[thr] = "ON_CPU" /\ thr # reaper_thr_id
      /\ ctx[reaper_thr_id] # "reaper_start"
      /\ \A x \in Mutexes : ~OnQueue(thr, m_waiters[x])
      /\ \A x \in Conds : ~OnQueue(thr, uc_waiters[x])
  BY ConstLemma DEF SafeForAnyClient, OneOnCpu, ContextInv, ReaperFirst, WaitQueuesExact
<1>2. /\ ctx' \in [Slots -> Contexts]
      /\ \A t \in Slots : ctx'[t] = IF t = thr THEN k ELSE ctx[t]
  BY DEF SafeForAnyClient, TypeOK, SchedTypeOK, Contexts
<1>3. TypeOK'
  BY <1>2
     DEF SafeForAnyClient, TypeOK, SchedTypeOK, LifeTypeOK, SyncTypeOK, lifeVars, syncVars
<1>4. OneOnCpu'
  BY <1>1, <1>2, ConstLemma
     DEF SafeForAnyClient, OneOnCpu
<1>5. RunQueueExact'
  BY <1>1, <1>2
     DEF SafeForAnyClient, RunQueueExact, TypeOK, SchedTypeOK
<1>6. WaitQueuesExact'
  BY <1>1, <1>2, ConstLemma
     DEF SafeForAnyClient, WaitQueuesExact, syncVars
<1>7. NoWaiterOnFreeMutex'
  BY <1>2
     DEF SafeForAnyClient, NoWaiterOnFreeMutex, syncVars
<1>8. MutualExclusion'
  BY <1>2
     DEF SafeForAnyClient, MutualExclusion, syncVars
<1>9. ReapQueueExact'
  BY <1>1, <1>2
     DEF SafeForAnyClient, ReapQueueExact, lifeVars
<1>10. ReaperAwake'
  BY <1>1, <1>2, ConstLemma
     DEF SafeForAnyClient, ReaperAwake, lifeVars
<1>11. ContextInv'
  <2>1. \A t \in Slots :
          /\ ctx'[t] \in {"reaper_start", "reaper"} <=> t = reaper_thr_id
          /\ ctx'[t] = "join" => join_uid'[t] \in Slots
    BY <1>1, <1>2, ConstLemma DEF SafeForAnyClient, ContextInv, lifeVars, syncVars
  <2>2. \A t \in Slots :
          /\ ctx'[t] \in {"mtx", "cond"} => on_mtx'[t] \in Mutexes
          /\ ctx'[t] \in {"cond", "broadcast"} => on_cond'[t] \in Conds
    BY <1>1, <1>2, ConstLemma DEF SafeForAnyClient, ContextInv, lifeVars, syncVars
  <2>3. \A t \in Slots : ut_state'[t] \in {"NO_STATE", "ZOMBIE"} => ctx'[t] = "user"
    BY <1>1, <1>2, ConstLemma DEF SafeForAnyClient, ContextInv, lifeVars, syncVars
  <2>4. \A t \in Slots : ut_has_exited'[t] <=> ut_state'[t] = "ZOMBIE"
    BY <1>1, <1>2, ConstLemma DEF SafeForAnyClient, ContextInv, lifeVars, syncVars
  <2>5. ut_state'[reaper_thr_id] \notin {"NO_STATE", "ZOMBIE"}
    BY <1>1, <1>2, ConstLemma DEF SafeForAnyClient, ContextInv, lifeVars, syncVars
  <2> QED
    BY <2>1, <2>2, <2>3, <2>4, <2>5 DEF ContextInv
<1>12. JoinerAsleep'
  BY <1>1, <1>2, ConstLemma
     DEF SafeForAnyClient, JoinerAsleep, TypeOK, LifeTypeOK, lifeVars
<1>13. WokenOwnsMutex'
  BY <1>1, <1>2, ConstLemma
     DEF SafeForAnyClient, WokenOwnsMutex, syncVars
<1>14. ReaperFirst'
  BY <1>1, <1>2, ConstLemma
     DEF SafeForAnyClient, ReaperFirst, ContextInv, lifeVars
<1> QED
  BY <1>3, <1>4, <1>5, <1>6, <1>7, <1>8, <1>9, <1>10, <1>11, <1>12, <1>13, <1>14
     DEF SafeForAnyClient

-----------------------------------------------------------------------------
(* The initial states, and every step.                                       *)

\* uthread_init establishes the invariant.
LEMMA InitSafe == Init => SafeForAnyClient
<1> SUFFICES ASSUME Init PROVE SafeForAnyClient
  OBVIOUS
<1>1. /\ \A t \in Slots : ut_state[t] = IF t \in {reaper_thr_id, main_thr} THEN "RUNNABLE" ELSE "NO_STATE"
      /\ \A t \in Slots : ut_prio[t] = IF t \in {reaper_thr_id, main_thr} THEN UTH_MAXPRIO ELSE 0
      /\ \A p \in Prios : runq_table[p] = IF p = UTH_MAXPRIO THEN <<reaper_thr_id, main_thr>> ELSE << >>
      /\ \A t \in Slots : ctx[t] = IF t = reaper_thr_id THEN "reaper_start" ELSE "user"
      /\ ut_curthr = NULL /\ switching = TRUE
  BY DEF Init, SchedInit, utqueue_init
<1>2. /\ \A t \in Slots : ut_has_exited[t] = FALSE /\ ut_waiter[t] = NULL
      /\ reap_queue = << >>
  BY DEF Init, LifeInit
<1>3. /\ \A m \in Mutexes : m_owner[m] = NULL /\ m_waiters[m] = << >>
      /\ \A c \in Conds : uc_waiters[c] = << >>
      /\ \A t \in Slots : holding[t] = {}
  BY DEF Init, SyncInit, utqueue_init
<1>4. TypeOK
  <2>1. SchedTypeOK
    BY ConstLemma DEF Init, SchedInit, SchedTypeOK, States, Errors, Contexts, Statuses, utqueue_init
  <2>2. LifeTypeOK
    BY CreateAssumption DEF Init, LifeInit, LifeTypeOK, Births
  <2>3. SyncTypeOK
    BY DEF Init, SyncInit, SyncTypeOK, utqueue_init
  <2> QED
    BY <2>1, <2>2, <2>3 DEF TypeOK
<1>5. OneOnCpu
  BY <1>1 DEF OneOnCpu
<1>6. RunQueueExact
  <2>1. Distinct(<< >>) /\ \A t : ~OnQueue(t, << >>)
    BY EmptyLemma DEF utqueue_empty
  <2>2. Distinct(<<reaper_thr_id, main_thr>>)
    BY ConstLemma DEF Distinct
  <2>3. \A t : OnQueue(t, <<reaper_thr_id, main_thr>>) <=> t \in {reaper_thr_id, main_thr}
    BY DEF OnQueue
  <2> QED
    BY <1>1, <2>1, <2>2, <2>3, ConstLemma DEF RunQueueExact
<1>7. WaitQueuesExact
  BY <1>3, EmptyLemma DEF WaitQueuesExact, utqueue_empty
<1>8. NoWaiterOnFreeMutex /\ MutualExclusion
  BY <1>3 DEF NoWaiterOnFreeMutex, MutualExclusion
<1>9. ReapQueueExact
  BY <1>1, <1>2, EmptyLemma DEF ReapQueueExact, utqueue_empty
<1>10. ReaperAwake
  BY <1>2 DEF ReaperAwake
<1>11. ContextInv
  BY <1>1, <1>2, ConstLemma DEF ContextInv
<1>12. JoinerAsleep
  BY <1>2 DEF JoinerAsleep
<1>13. WokenOwnsMutex
  BY <1>1 DEF WokenOwnsMutex
<1>14. ReaperFirst
  BY <1>1, <1>2, ConstLemma DEF ReaperFirst, utqueue_empty, utqueue_first
<1> QED
  BY <1>4, <1>5, <1>6, <1>7, <1>8, <1>9, <1>10, <1>11, <1>12, <1>13, <1>14 DEF SafeForAnyClient

\* The type of the two variables a quiet step may change.
LEMMA QuietTypes ==
  ASSUME SafeForAnyClient
  PROVE  /\ ut_errno \in [Slots -> Errors] /\ status \in Statuses
         /\ \A t \in Slots, e \in Errors : [ut_errno EXCEPT ![t] = e] \in [Slots -> Errors]
BY DEF SafeForAnyClient, TypeOK, SchedTypeOK

\* Every step of the scheduler preserves the invariant.
LEMMA SchedStepSafe ==
  ASSUME SafeForAnyClient, SchedStep
  PROVE  SafeForAnyClient'
<1>1. UNCHANGED <<lifeVars, syncVars>>
  BY DEF SchedStep
<1>2. CASE uthread_switch
  BY <1>1, <1>2, SwitchSafe
<1>3. CASE uthread_idle
  BY <1>1, <1>3, QuietTypes, QuietSafe DEF uthread_idle, schedVars
<1>4. ASSUME NEW thr \in Slots, Yield(thr)
      PROVE  SafeForAnyClient'
  BY <1>1, <1>4, YieldSafe
<1>5. ASSUME NEW thr \in Slots, NEW id, NEW prio, SetPrio(thr, id, prio)
      PROVE  SafeForAnyClient'
  <2>1. /\ UNCHANGED <<ut_state, ut_curthr, switching, ctx, status>>
        /\ ~switching
    BY <1>5 DEF SetPrio, Running
  <2>2. CASE prio \notin Prios
    BY <1>1, <1>5, <2>1, <2>2, QuietTypes, QuietSafe DEF SetPrio, PrioRefused, Errors
  <2>3. CASE prio \in Prios /\ (id \notin Slots \/ ut_state[id] \in {"NO_STATE", "ZOMBIE"})
    BY <1>1, <1>5, <2>1, <2>3, QuietTypes, QuietSafe DEF SetPrio, PrioRefused, Errors
  <2>4. CASE prio \in Prios /\ ~(id \notin Slots \/ ut_state[id] \in {"NO_STATE", "ZOMBIE"})
    <3>1. /\ ut_prio' = [ut_prio EXCEPT ![id] = prio]
          /\ runq_table' = Requeue(id, prio)
          /\ UNCHANGED ut_errno
      BY <1>5, <2>4 DEF SetPrio, PrioRefused
    <3> QED
      BY <1>1, <2>1, <2>4, <3>1, SetPrioSafe
  <2> QED
    BY <2>2, <2>3, <2>4
<1> QED
  BY <1>2, <1>3, <1>4, <1>5 DEF SchedStep

\* The end of uthread_join, whatever the reap queue holds.
LEMMA JoinEndSafe ==
  ASSUME SafeForAnyClient, NEW thr \in Slots, NEW uid \in Slots,
         ~switching, ut_curthr = thr, ctx[thr] \in {"user", "join"}, ut_has_exited[uid],
         ut_waiter' \in {ut_waiter, [ut_waiter EXCEPT ![uid] = thr]},
         JoinFinish(thr, uid), UNCHANGED switching,
         UNCHANGED <<ut_prio, ut_errno, ut_curthr, ut_has_exited, ut_exit, ut_stack, stacks,
                     created, born, syncVars>>
  PROVE  SafeForAnyClient'
<1>1. CASE OnQueue(uid, reap_queue)
  BY <1>1, JoinCorruptSafe DEF JoinFinish, Statuses
<1>2. CASE ~OnQueue(uid, reap_queue)
  <2>1. /\ ut_detached' = [ut_detached EXCEPT ![uid] = TRUE]
        /\ reap_queue' = list_insert_tail(reap_queue, uid)
        /\ Wake(reaper_thr_id)
        /\ ctx' = [ctx EXCEPT ![thr] = "user"]
        /\ join_uid' = [join_uid EXCEPT ![thr] = NULL]
        /\ join_born' = [join_born EXCEPT ![thr] = 0]
        /\ UNCHANGED status
    BY <1>2 DEF JoinFinish
  <2> QED
    BY <1>2, <2>1, JoinFinishSafe
<1> QED
  BY <1>1, <1>2

\* uthread_join, when it is called.
LEMMA JoinSafe ==
  ASSUME SafeForAnyClient, NEW thr \in Slots, NEW uid \in Slots, Join(thr, uid),
         UNCHANGED syncVars
  PROVE  SafeForAnyClient'
<1>1. /\ ~switching /\ ut_curthr = thr /\ ctx[thr] = "user"
      /\ ut_waiter' = [ut_waiter EXCEPT ![uid] = thr]
      /\ UNCHANGED <<ut_prio, ut_errno, ut_curthr, ut_has_exited, ut_exit, ut_stack, stacks,
                     created, born>>
  BY DEF Join, Running
<1>2. CASE ut_has_exited[uid]
  <2>1. JoinFinish(thr, uid) /\ UNCHANGED switching
    BY <1>2 DEF Join
  <2> QED
    BY <1>1, <1>2, <2>1, JoinEndSafe
<1>3. CASE ~ut_has_exited[uid]
  <2>1. /\ Block(thr, "join")
        /\ join_uid' = [join_uid EXCEPT ![thr] = uid]
        /\ join_born' = [join_born EXCEPT ![thr] = born[uid]]
        /\ UNCHANGED <<runq_table, status, reap_queue, ut_detached>>
    BY <1>3 DEF Join
  <2>2. ut_state[uid] # "NO_STATE"
    BY DEF Join, JoinError, GoodId
  <2> QED
    BY <1>1, <1>3, <2>1, <2>2, JoinBlockSafe
<1> QED
  BY <1>2, <1>3

\* uthread_join, when uthread_block returns in it.
LEMMA JoinResumeSafe ==
  ASSUME SafeForAnyClient, NEW thr \in Slots, JoinResume(thr), UNCHANGED syncVars
  PROVE  SafeForAnyClient'
<1>1. /\ ~switching /\ ut_curthr = thr /\ ctx[thr] = "join"
      /\ UNCHANGED <<ut_prio, ut_errno, ut_curthr, ut_has_exited, ut_exit, ut_waiter, ut_stack,
                     stacks, created, born>>
  BY DEF JoinResume, Running
<1>2. PICK uid \in Slots : uid = join_uid[thr]
  BY <1>1 DEF SafeForAnyClient, ContextInv
<1>3. CASE ut_has_exited[uid]
  <2>1. JoinFinish(thr, uid) /\ UNCHANGED switching
    BY <1>2, <1>3 DEF JoinResume
  <2> QED
    BY <1>1, <1>3, <2>1, JoinEndSafe
<1>4. CASE ~ut_has_exited[uid]
  <2>1. /\ Block(thr, "join")
        /\ UNCHANGED <<runq_table, status, reap_queue, ut_detached, join_uid, join_born>>
    BY <1>2, <1>4 DEF JoinResume
  <2> QED
    BY <1>1, <2>1, JoinAgainSafe DEF lifeVars
<1> QED
  BY <1>3, <1>4

\* Every step of a thread's life preserves the invariant.
LEMMA LifeStepSafe ==
  ASSUME SafeForAnyClient, LifeStep
  PROVE  SafeForAnyClient'
<1>1. CASE \E thr \in Slots : ExitThread(thr)
  BY <1>1, ExitSafe
<1>2. CASE UNCHANGED syncVars
  <2>1. ASSUME NEW thr \in Slots, NEW uid \in Slots, NEW prio \in Prios, Create(thr, uid, prio)
        PROVE  SafeForAnyClient'
    BY <1>2, <2>1, CreateSafe
  <2>2. ASSUME NEW thr \in Slots, CreateFull(thr) \/ CreateFailed(thr) \/ RunNoContext(thr)
        PROVE  SafeForAnyClient'
    <3>1. /\ UNCHANGED <<ut_state, ut_prio, ut_errno, runq_table, ut_curthr, switching, ctx, lifeVars>>
          /\ status' \in {status, "failure", "corrupt"}
      BY <2>2 DEF CreateFull, CreateFailed, RunNoContext, schedVars
    <3> QED
      BY <1>2, <3>1, QuietTypes, QuietSafe DEF Statuses
  <2>3. ASSUME NEW thr \in Slots, NEW uid \in Slots, CreateBadPrio(thr, uid)
        PROVE  SafeForAnyClient'
    BY <1>2, <2>3, CreateBadPrioSafe
  <2>4. ASSUME NEW thr \in Slots, NEW uid, JoinRefused(thr, uid) \/ DetachRefused(thr, uid)
        PROVE  SafeForAnyClient'
    <3>1. UNCHANGED <<ut_state, ut_prio, runq_table, ut_curthr, switching, ctx, status, lifeVars>>
      BY <2>4 DEF JoinRefused, DetachRefused
    <3>2. ut_errno' \in [Slots -> Errors]
      BY <2>4, QuietTypes DEF JoinRefused, DetachRefused, JoinError, DetachError, Errors
    <3> QED
      BY <1>2, <3>1, <3>2, QuietTypes, QuietSafe
  <2>5. ASSUME NEW thr \in Slots, NEW uid \in Slots, Join(thr, uid)
        PROVE  SafeForAnyClient'
    BY <1>2, <2>5, JoinSafe
  <2>6. ASSUME NEW thr \in Slots, JoinResume(thr)
        PROVE  SafeForAnyClient'
    BY <1>2, <2>6, JoinResumeSafe
  <2>7. ASSUME NEW thr \in Slots, NEW uid \in Slots, Detach(thr, uid)
        PROVE  SafeForAnyClient'
    <3>1. UNCHANGED <<ut_state, ut_prio, ut_errno, runq_table, ut_curthr, switching, ctx,
                      ut_has_exited, ut_exit, ut_waiter, ut_stack, stacks, reap_queue,
                      join_uid, created, born, join_born>>
      BY <2>7 DEF Detach
    <3>2. CASE ut_state[uid] = "ZOMBIE"
      BY <1>2, <2>7, <3>1, <3>2, QuietTypes, QuietSafe DEF Detach, Abort, lifeVars, Statuses
    <3>3. CASE ut_state[uid] # "ZOMBIE"
      BY <1>2, <2>7, <3>1, <3>3, DetachSafe DEF Detach, schedVars
    <3> QED
      BY <3>2, <3>3
  <2>8. CASE ReaperStart
    <3>1. /\ ~switching /\ ut_curthr = reaper_thr_id /\ Block(reaper_thr_id, "reaper")
          /\ ctx[reaper_thr_id] = "reaper_start"
          /\ UNCHANGED <<ut_prio, ut_errno, runq_table, ut_curthr, status, lifeVars>>
      BY <2>8 DEF ReaperStart, Running
    <3>2. reap_queue = << >>
      BY <3>1 DEF SafeForAnyClient, ReaperFirst
    <3> QED
      BY <1>2, <3>1, <3>2, ReaperBlockSafe
  <2>9. CASE Reap
    BY <1>2, <2>9, ReapSafe
  <2>10. CASE ReaperRest
    <3>1. /\ ~switching /\ ut_curthr = reaper_thr_id /\ reap_queue = << >>
          /\ UNCHANGED <<ut_prio, ut_errno, runq_table, ut_curthr, lifeVars>>
      BY <2>10 DEF ReaperRest, Running
    <3>2. CASE Block(reaper_thr_id, "reaper") /\ UNCHANGED status
      BY <1>2, <3>1, <3>2, ReaperBlockSafe
    <3>3. CASE status' = "exit" /\ UNCHANGED <<ut_state, ctx, switching>>
      BY <1>2, <3>1, <3>3, QuietTypes, QuietSafe DEF Statuses
    <3> QED
      BY <2>10, <3>2, <3>3 DEF ReaperRest
  <2> QED
    BY <2>1, <2>2, <2>3, <2>4, <2>5, <2>6, <2>7, <2>8, <2>9, <2>10, <1>1 DEF LifeStep
<1> QED
  BY <1>1, <1>2 DEF LifeStep

\* The body of uthread_mtx_lock preserves the invariant.
LEMMA LockBodySafe ==
  ASSUME SafeForAnyClient, NEW thr \in Slots, NEW m \in Mutexes,
         ~switching, ut_curthr = thr, ctx[thr] \in {"user", "cond"}, LockBody(thr, m),
         on_cond' \in [Slots -> Conds \cup {None}],
         \A t \in Slots \ {thr} : on_cond'[t] = on_cond[t],
         UNCHANGED <<ut_prio, ut_errno, runq_table, ut_curthr, status, uc_waiters, lifeVars>>
  PROVE  SafeForAnyClient'
<1>1. ctx \in [Slots -> Contexts] /\ on_mtx \in [Slots -> Mutexes \cup {None}]
  BY DEF SafeForAnyClient, TypeOK, SchedTypeOK, SyncTypeOK
<1>2. CASE m_owner[m] = NULL
  <2>1. /\ m_owner' = [m_owner EXCEPT ![m] = thr]
        /\ holding' = [holding EXCEPT ![thr] = @ \cup {m}]
        /\ UNCHANGED <<m_waiters, ut_state, switching>>
    BY <1>2 DEF LockBody
  <2>2. /\ ctx' \in [Slots -> Contexts]
        /\ \A t \in Slots : ctx'[t] = IF t = thr THEN "user" ELSE ctx[t]
    BY <1>1, <1>2 DEF LockBody, Contexts
  <2>3. /\ on_mtx' \in [Slots -> Mutexes \cup {None}]
        /\ \A t \in Slots \ {thr} : on_mtx'[t] = on_mtx[t]
    BY <1>1, <1>2 DEF LockBody
  <2> QED
    BY <1>2, <2>1, <2>2, <2>3, LockAcquireSafe
<1>3. CASE m_owner[m] # NULL
  <2>1. /\ m_waiters' = IF m_owner[m] # thr THEN EnqueueOn(m_waiters, m, thr) ELSE m_waiters
        /\ on_mtx' = [on_mtx EXCEPT ![thr] = m]
        /\ Block(thr, "mtx")
        /\ UNCHANGED <<m_owner, holding>>
    BY <1>3 DEF LockBody, MustQueue
  <2> QED
    BY <1>3, <2>1, LockWaitSafe
<1> QED
  BY <1>2, <1>3

\* Every step of mutexes and condition variables preserves the invariant.
LEMMA SyncStepSafe ==
  ASSUME SafeForAnyClient, SyncStep
  PROVE  SafeForAnyClient'
<1>1. UNCHANGED lifeVars
  BY DEF SyncStep
<1>2. /\ on_cond \in [Slots -> Conds \cup {None}] /\ ctx \in [Slots -> Contexts]
      /\ on_mtx \in [Slots -> Mutexes \cup {None}]
  BY DEF SafeForAnyClient, TypeOK, SchedTypeOK, SyncTypeOK
<1>3. ASSUME NEW thr \in Slots, NEW m \in Mutexes, Lock(thr, m)
      PROVE  SafeForAnyClient'
  <2>1. /\ ~switching /\ ut_curthr = thr /\ ctx[thr] = "user" /\ LockBody(thr, m)
        /\ UNCHANGED <<ut_prio, ut_errno, runq_table, ut_curthr, status, uc_waiters, on_cond>>
    BY <1>3 DEF Lock, Running
  <2> QED
    BY <1>1, <1>2, <2>1, LockBodySafe
<1>4. ASSUME NEW thr \in Slots, NEW m \in Mutexes, TryLock(thr, m)
      PROVE  SafeForAnyClient'
  <2>1. /\ ~switching /\ ut_curthr = thr /\ ctx[thr] = "user"
        /\ UNCHANGED <<ut_state, ut_prio, ut_errno, runq_table, ut_curthr, switching, ctx, status,
                       m_waiters, uc_waiters, on_mtx, on_cond>>
    BY <1>4 DEF TryLock, Running, schedVars
  <2>2. CASE m_owner[m] = NULL
    BY <1>1, <1>2, <1>4, <2>1, <2>2, LockAcquireSafe DEF TryLock
  <2>3. CASE m_owner[m] # NULL
    BY <1>1, <1>4, <2>1, <2>3, QuietTypes, QuietSafe DEF TryLock, syncVars
  <2> QED
    BY <2>2, <2>3
<1>5. ASSUME NEW thr \in Slots, NEW m \in Mutexes, Unlock(thr, m)
      PROVE  SafeForAnyClient'
  <2>1. /\ ~switching /\ ut_curthr = thr /\ ctx[thr] = "user" /\ m_owner[m] = thr
        /\ UnlockBody(thr, m)
        /\ IF UnlockWakes(m) = NULL THEN UNCHANGED <<ut_state, runq_table>> ELSE Wake(UnlockWakes(m))
        /\ UNCHANGED <<ut_prio, ut_errno, ut_curthr, switching, ctx, status, uc_waiters,
                       on_mtx, on_cond>>
    BY <1>5 DEF Unlock, Running
  <2> QED
    BY <1>1, <2>1, UnlockSafe
<1>6. ASSUME NEW thr \in Slots, NEW m \in Mutexes, UnlockUnowned(thr, m)
      PROVE  SafeForAnyClient'
  BY <1>1, <1>6, QuietTypes, QuietSafe DEF UnlockUnowned, Abort, Statuses
<1>7. ASSUME NEW thr \in Slots, NEW m \in Mutexes, NEW c \in Conds, CondWait(thr, c, m)
      PROVE  SafeForAnyClient'
  <2>1. /\ ~switching /\ ut_curthr = thr /\ ctx[thr] = "user" /\ m_owner[m] = thr
        /\ uc_waiters' = EnqueueOn(uc_waiters, c, thr)
        /\ UnlockBody(thr, m)
        /\ on_mtx' = [on_mtx EXCEPT ![thr] = m]
        /\ on_cond' = [on_cond EXCEPT ![thr] = c]
        /\ IF UnlockWakes(m) = NULL
           THEN Block(thr, "cond") /\ UNCHANGED runq_table
           ELSE WakeAndBlock(UnlockWakes(m), thr, "cond")
        /\ UNCHANGED <<ut_prio, ut_errno, ut_curthr, status>>
    BY <1>7 DEF CondWait, Running
  <2> QED
    BY <1>1, <2>1, CondWaitSafe
<1>8. ASSUME NEW thr \in Slots, LockResume(thr)
      PROVE  SafeForAnyClient'
  BY <1>1, <1>8, LockResumeSafe DEF LockResume, Running
<1>9. ASSUME NEW thr \in Slots, CondResume(thr)
      PROVE  SafeForAnyClient'
  <2>1. /\ ~switching /\ ut_curthr = thr /\ ctx[thr] = "cond" /\ LockBody(thr, on_mtx[thr])
        /\ UNCHANGED <<ut_prio, ut_errno, runq_table, ut_curthr, status, uc_waiters>>
    BY <1>9 DEF CondResume, Running
  <2>2. /\ on_cond' \in [Slots -> Conds \cup {None}]
        /\ \A t \in Slots \ {thr} : on_cond'[t] = on_cond[t]
    BY <1>2, <1>9 DEF CondResume
  <2>3. on_mtx[thr] \in Mutexes
    BY <2>1 DEF SafeForAnyClient, ContextInv
  <2> QED
    BY <1>1, <2>1, <2>2, <2>3, LockBodySafe
<1>10. ASSUME NEW thr \in Slots, NEW c \in Conds, Signal(thr, c)
       PROVE  SafeForAnyClient'
  <2>1. /\ ~switching /\ ut_curthr = thr /\ ctx[thr] = "user"
        /\ UNCHANGED <<ut_prio, ut_errno, ut_curthr, switching, ctx, status, m_owner, m_waiters,
                       on_mtx, on_cond, holding>>
    BY <1>10 DEF Signal, Running
  <2>2. CASE utqueue_empty(uc_waiters[c])
    BY <1>1, <1>10, <2>1, <2>2, QuietTypes, QuietSafe DEF Signal, syncVars
  <2>3. CASE ~utqueue_empty(uc_waiters[c])
    <3>1. WakeFirst(c)
      BY <1>10, <2>3 DEF Signal
    <3> QED
      BY <1>1, <2>1, <2>3, <3>1, WakeFirstSafe
  <2> QED
    BY <2>2, <2>3
<1>11. ASSUME NEW thr \in Slots, NEW c \in Conds, Broadcast(thr, c)
       PROVE  SafeForAnyClient'
  <2>1. /\ ~switching /\ ut_curthr = thr /\ ctx[thr] = "user"
        /\ ctx' = [ctx EXCEPT ![thr] = "broadcast"]
        /\ UNCHANGED <<ut_state, ut_prio, ut_errno, runq_table, ut_curthr, switching, status,
                       m_owner, m_waiters, uc_waiters, on_mtx, holding>>
    BY <1>11 DEF Broadcast, Running
  <2>2. /\ on_cond' \in [Slots -> Conds \cup {None}] /\ on_cond'[thr] \in Conds
        /\ \A t \in Slots : t # thr => on_cond'[t] = on_cond[t]
    BY <1>2, <1>11 DEF Broadcast
  <2> QED
    BY <1>1, <2>1, <2>2, BroadcastEndsSafe
<1>12. ASSUME NEW thr \in Slots, BroadcastLoop(thr)
       PROVE  SafeForAnyClient'
  <2>1. /\ ~switching /\ ut_curthr = thr /\ ctx[thr] = "broadcast"
        /\ UNCHANGED <<ut_prio, ut_errno, ut_curthr, switching, status, m_owner, m_waiters,
                       on_mtx, holding>>
    BY <1>12 DEF BroadcastLoop, Running
  <2>2. PICK c \in Conds : c = on_cond[thr]
    BY <2>1 DEF SafeForAnyClient, ContextInv
  <2>3. CASE utqueue_empty(uc_waiters[c])
    <3>1. /\ ctx' = [ctx EXCEPT ![thr] = "user"]
          /\ UNCHANGED <<uc_waiters, ut_state, runq_table>>
      BY <1>12, <2>2, <2>3 DEF BroadcastLoop
    <3>2. /\ on_cond' \in [Slots -> Conds \cup {None}]
          /\ \A t \in Slots : t # thr => on_cond'[t] = on_cond[t]
      BY <1>2, <1>12, <2>2, <2>3 DEF BroadcastLoop
    <3> QED
      BY <1>1, <2>1, <3>1, <3>2, BroadcastEndsSafe
  <2>4. CASE ~utqueue_empty(uc_waiters[c])
    <3>1. WakeFirst(c) /\ UNCHANGED <<ctx, on_cond>>
      BY <1>12, <2>2, <2>4 DEF BroadcastLoop
    <3> QED
      BY <1>1, <2>1, <2>4, <3>1, WakeFirstSafe
  <2> QED
    BY <2>3, <2>4
<1> QED
  BY <1>3, <1>4, <1>5, <1>6, <1>7, <1>8, <1>9, <1>10, <1>11, <1>12 DEF SyncStep

\* SafeForAnyClient is inductive: no call of any client, and no step of the
\* library on its behalf, breaks it.
LEMMA NextSafe ==
  ASSUME SafeForAnyClient, [Next]_vars
  PROVE  SafeForAnyClient'
<1>1. CASE SchedStep
  BY <1>1, SchedStepSafe
<1>2. CASE LifeStep
  BY <1>2, LifeStepSafe
<1>3. CASE SyncStep
  BY <1>3, SyncStepSafe
<1>4. CASE UNCHANGED vars
  BY <1>4, QuietTypes, QuietSafe DEF vars, schedVars
<1> QED
  BY <1>1, <1>2, <1>3, <1>4 DEF Next

-----------------------------------------------------------------------------
\* Whatever its clients call, and however they misuse it, the library keeps
\* its run queues, wait queues, reap queue, mutexes and contexts consistent.
THEOREM LibrarySafe == Spec => []SafeForAnyClient
<1>1. Init => SafeForAnyClient
  BY InitSafe
<1>2. SafeForAnyClient /\ [Next]_vars => SafeForAnyClient'
  BY NextSafe
<1> QED
  BY <1>1, <1>2, PTL DEF Spec

\* The variables keep their types, the thread ids and queue entries included.
THEOREM TypeCorrect == Spec => []TypeOK
<1>1. SafeForAnyClient => TypeOK
  BY DEF SafeForAnyClient
<1> QED
  BY <1>1, LibrarySafe, PTL

\* No wake-up, yield, change of priority, creation or exit loses a runnable
\* thread or queues it twice.
THEOREM RunnableThreadsQueued == Spec => [](OneOnCpu /\ RunQueueExact)
<1>1. SafeForAnyClient => OneOnCpu /\ RunQueueExact
  BY DEF SafeForAnyClient
<1> QED
  BY <1>1, LibrarySafe, PTL

\* A thread in a critical section owns its mutex, although uthread_mtx_lock
\* does not look at the mutex again after its uthread_block.
THEOREM MutexesExclude == Spec => [](MutualExclusion /\ NoWaiterOnFreeMutex /\ WaitQueuesExact)
<1>1. SafeForAnyClient => MutualExclusion /\ NoWaiterOnFreeMutex /\ WaitQueuesExact
  BY DEF SafeForAnyClient
<1> QED
  BY <1>1, LibrarySafe, PTL

\* Every dead detached thread is on the reap queue, once, and the reaper is
\* awake while there is one.
THEOREM DeadThreadsReachReaper == Spec => [](ReapQueueExact /\ ReaperAwake)
<1>1. SafeForAnyClient => ReapQueueExact /\ ReaperAwake
  BY DEF SafeForAnyClient
<1> QED
  BY <1>1, LibrarySafe, PTL

\* uthread_switch gives the processor to a thread of the highest priority that
\* is runnable.
THEOREM SwitchPicksHighest == Spec => HighestPriorityRuns
<1> DEFINE Highest == switching /\ ~switching' =>
             \A t \in Slots : ut_state[t] = "RUNNABLE" /\ ctx[t] # "none"
               => ut_prio[t] <= ut_prio[ut_curthr']
<1>1. ASSUME SafeForAnyClient, [Next]_vars
      PROVE  [Highest]_vars
  <2> SUFFICES ASSUME switching, ~switching', NEW t \in Slots,
                      ut_state[t] = "RUNNABLE", ctx[t] # "none"
               PROVE  ut_prio[t] <= ut_prio[ut_curthr']
    OBVIOUS
  <2>1. uthread_switch
    <3>1. CASE SchedStep
      BY <3>1 DEF SchedStep, uthread_idle, Yield, SetPrio, Running, schedVars
    <3>2. CASE LifeStep
      BY <3>2 DEF LifeStep, Create, CreateFull, CreateBadPrio, CreateFailed, RunNoContext,
         JoinRefused, Join, JoinResume, DetachRefused, Detach, ReaperStart, Reap, ReaperRest,
         ExitThread, Exit, Running
    <3>3. CASE SyncStep
      BY <3>3 DEF SyncStep, Lock, TryLock, Unlock, UnlockUnowned, CondWait, LockResume,
         CondResume, Signal, Broadcast, BroadcastLoop, Running
    <3>4. CASE UNCHANGED vars
      BY <3>4 DEF vars, schedVars
    <3> QED
      BY <1>1, <3>1, <3>2, <3>3, <3>4 DEF Next
  <2>2. PICK p \in Prios :
          /\ ~utqueue_empty(runq_table[p])
          /\ \A q \in Prios : q > p => utqueue_empty(runq_table[q])
          /\ ut_curthr' = utqueue_first(runq_table[p])
    BY <2>1 DEF uthread_switch, Chosen
  <2>3. ut_curthr' \in Slots /\ OnQueue(ut_curthr', runq_table[p])
    BY <1>1, <2>2, RunqFacts, RunqDequeueLemma
  <2>4. ut_prio[ut_curthr'] = p
    BY <1>1, <2>3 DEF SafeForAnyClient, RunQueueExact
  <2>5. ut_prio[t] \in Prios /\ ~utqueue_empty(runq_table[ut_prio[t]])
    BY <1>1, RunqFacts, EmptyLemma DEF SafeForAnyClient, RunQueueExact
  <2> QED
    BY <2>2, <2>4, <2>5, PrioAssumption DEF Prios
<1> QED
  BY <1>1, LibrarySafe, PTL DEF Spec, HighestPriorityRuns

-----------------------------------------------------------------------------
(* Mutexes implement FIFO locks: every step is a step of FifoLocks or leaves *)
(* its variables alone.                                                      *)

\* The running thread waits for no mutex.
LEMMA RunningWaitsForNone ==
  ASSUME SafeForAnyClient, NEW thr \in Slots, ~switching, ut_curthr = thr
  PROVE  \A m \in Mutexes : ~OnQueue(thr, m_waiters[m])
BY DEF SafeForAnyClient, OneOnCpu, WaitQueuesExact

\* uthread_mtx_lock takes a free mutex or joins its queue; locking again does neither.
LEMMA LockBodyRefines ==
  ASSUME SafeForAnyClient, NEW thr \in Slots, NEW m \in Mutexes,
         ~switching, ut_curthr = thr, LockBody(thr, m)
  PROVE  \/ Locks!Take(thr, m)
         \/ Locks!Enqueue(thr, m)
         \/ UNCHANGED <<m_owner, m_waiters, holding>>
<1>1. CASE m_owner[m] = NULL
  <2>1. m_waiters[m] = << >>
    BY <1>1 DEF SafeForAnyClient, NoWaiterOnFreeMutex
  <2>2. Locks!Take(thr, m)
    BY <1>1, <2>1 DEF Locks!Take, LockBody
  <2> QED
    BY <2>2
<1>2. CASE m_owner[m] = thr
  BY <1>2, ConstLemma DEF LockBody, MustQueue
<1>3. CASE m_owner[m] \notin {NULL, thr}
  <2>1. m_waiters' = [m_waiters EXCEPT ![m] = Append(@, thr)] /\ UNCHANGED <<m_owner, holding>>
    BY <1>3 DEF LockBody, MustQueue, EnqueueOn, utqueue_enqueue
  <2>2. \A k \in Mutexes : ~Locks!Waits(thr, k)
    BY RunningWaitsForNone DEF Locks!Waits, OnQueue
  <2>3. Locks!Enqueue(thr, m)
    BY <1>3, <2>1, <2>2 DEF Locks!Enqueue
  <2> QED
    BY <2>3
<1> QED
  BY <1>1, <1>2, <1>3

\* uthread_mtx_unlock hands the mutex to its first waiter.
LEMMA UnlockBodyRefines ==
  ASSUME NEW thr \in Slots, NEW m \in Mutexes, m_owner[m] = thr, UnlockBody(thr, m)
  PROVE  Locks!Leave(thr, m)
<1>1. CASE m_waiters[m] = << >>
  BY <1>1 DEF UnlockBody, UnlockWakes, utqueue_empty, Locks!Leave
<1>2. CASE m_waiters[m] # << >>
  BY <1>2
     DEF UnlockBody, UnlockWakes, utqueue_empty, utqueue_first, utqueue_dequeue, DequeueFrom,
         Locks!Leave
<1> QED
  BY <1>1, <1>2

\* Every step of the library is a step of the FIFO locks, or none.
LEMMA StepRefines ==
  ASSUME SafeForAnyClient, [Next]_vars
  PROVE  [Locks!LockNext]_(Locks!lockVars)
<1> SUFFICES Locks!LockNext \/ UNCHANGED <<m_owner, m_waiters, holding>>
  BY DEF Locks!lockVars
<1>1. CASE SchedStep
  BY <1>1 DEF SchedStep, syncVars
<1>2. CASE LifeStep
  <2>1. CASE UNCHANGED syncVars
    BY <2>1 DEF syncVars
  <2>2. ASSUME NEW thr \in Slots, ExitThread(thr)
        PROVE  Locks!LockNext
    BY <2>2 DEF ExitThread, Locks!LockNext, Locks!Die
  <2> QED
    BY <1>2, <2>1, <2>2 DEF LifeStep
<1>3. CASE SyncStep
  <2>1. ASSUME NEW thr \in Slots, NEW m \in Mutexes, Lock(thr, m)
        PROVE  Locks!LockNext \/ UNCHANGED <<m_owner, m_waiters, holding>>
    BY <2>1, LockBodyRefines DEF Lock, Running, Locks!LockNext
  <2>2. ASSUME NEW thr \in Slots, NEW m \in Mutexes, TryLock(thr, m)
        PROVE  Locks!LockNext \/ UNCHANGED <<m_owner, m_waiters, holding>>
    <3>1. CASE m_owner[m] = NULL
      <4>1. m_waiters[m] = << >>
        BY <3>1 DEF SafeForAnyClient, NoWaiterOnFreeMutex
      <4>2. Locks!Take(thr, m)
        BY <2>2, <3>1, <4>1 DEF TryLock, Locks!Take
      <4> QED
        BY <4>2 DEF Locks!LockNext
    <3>2. CASE m_owner[m] # NULL
      BY <2>2, <3>2 DEF TryLock
    <3> QED
      BY <3>1, <3>2
  <2>3. ASSUME NEW thr \in Slots, NEW m \in Mutexes, Unlock(thr, m)
        PROVE  Locks!LockNext
    BY <2>3, UnlockBodyRefines DEF Unlock, Locks!LockNext
  <2>4. ASSUME NEW thr \in Slots, NEW m \in Mutexes, UnlockUnowned(thr, m)
        PROVE  UNCHANGED <<m_owner, m_waiters, holding>>
    BY <2>4 DEF UnlockUnowned, syncVars
  <2>5. ASSUME NEW thr \in Slots, NEW m \in Mutexes, NEW c \in Conds, CondWait(thr, c, m)
        PROVE  Locks!LockNext
    BY <2>5, UnlockBodyRefines DEF CondWait, Locks!LockNext
  <2>6. ASSUME NEW thr \in Slots, LockResume(thr)
        PROVE  Locks!LockNext
    <3>1. on_mtx[thr] \in Mutexes /\ m_owner[on_mtx[thr]] = thr
      BY <2>6 DEF LockResume, Running, SafeForAnyClient, OneOnCpu, ContextInv, WokenOwnsMutex
    <3>2. Locks!Enter(thr, on_mtx[thr])
      BY <2>6, <3>1 DEF LockResume, Locks!Enter
    <3> QED
      BY <3>1, <3>2 DEF Locks!LockNext
  <2>7. ASSUME NEW thr \in Slots, CondResume(thr)
        PROVE  Locks!LockNext \/ UNCHANGED <<m_owner, m_waiters, holding>>
    <3>1. on_mtx[thr] \in Mutexes
      BY <2>7 DEF CondResume, Running, SafeForAnyClient, ContextInv
    <3> QED
      BY <2>7, <3>1, LockBodyRefines DEF CondResume, Running, Locks!LockNext
  <2>8. ASSUME NEW thr \in Slots,
               (\E c \in Conds : Signal(thr, c) \/ Broadcast(thr, c)) \/ BroadcastLoop(thr)
        PROVE  UNCHANGED <<m_owner, m_waiters, holding>>
    BY <2>8 DEF Signal, Broadcast, BroadcastLoop
  <2> QED
    BY <1>3, <2>1, <2>2, <2>3, <2>4, <2>5, <2>6, <2>7, <2>8 DEF SyncStep
<1>4. CASE UNCHANGED vars
  BY <1>4 DEF vars, syncVars
<1> QED
  BY <1>1, <1>2, <1>3, <1>4 DEF Next

\* The mutexes of uthread_mtx.c, with the releases and acquisitions hidden in
\* uthread_cond_wait, implement FIFO locks, whatever the clients do.
THEOREM MutexesAreFifoLocks == Spec => LocksAreFifo
<1>1. Init => Locks!LockInit
  BY DEF Init, SyncInit, utqueue_init, Locks!LockInit
<1>2. SafeForAnyClient /\ [Next]_vars => [Locks!LockNext]_(Locks!lockVars)
  BY StepRefines
<1> QED
  BY <1>1, <1>2, LibrarySafe, PTL DEF Spec, LocksAreFifo, Locks!LockSpec
-----------------------------------------------------------------------------
(* Clients that keep to the rules: they do not lock a mutex they own, exit    *)
(* with one, join themselves or a thread that another one joins, or detach    *)
(* a thread that is being joined.  Nothing else is asked of them.             *)

RulesKept ==
  /\ "relock" \notin Client /\ "exit_holding" \notin Client
  /\ "second_join" \notin Client /\ "self_join" \notin Client
  /\ "detach_joined" \notin Client

Dead == {"NO_STATE", "ZOMBIE"}

\* A thread sleeps in one of four calls, and on the queue of its mutex or
\* condition variable.
SleepersOK ==
  \A t \in Slots : ut_state[t] = "WAIT" =>
    /\ ctx[t] \in {"mtx", "cond", "join", "reaper"}
    /\ ctx[t] = "mtx" => OnQueue(t, m_waiters[on_mtx[t]])
    /\ ctx[t] = "cond" => OnQueue(t, uc_waiters[on_cond[t]])

\* The owner of a mutex is in its critical section, or about to return from
\* uthread_mtx_lock; threads in critical sections are alive, and threads in
\* uthread_cond_wait have given up their mutex.
OwnersOK ==
  /\ \A m \in Mutexes : m_owner[m] # NULL =>
       \/ m \in holding[m_owner[m]]
       \/ ctx[m_owner[m]] = "mtx" /\ on_mtx[m_owner[m]] = m
  /\ \A t \in Slots : holding[t] # {} => ut_state[t] \notin Dead
  /\ \A t \in Slots : ctx[t] = "cond" => m_owner[on_mtx[t]] # t

\* t is the one thread that joins join_uid[t], which is still the thread that
\* it was; t sleeps until that one is dead.
JoinOK(t) ==
  LET uid == join_uid[t] IN
  /\ ut_waiter[uid] = t /\ ~ut_detached[uid] /\ born[uid] = join_born[t]
  /\ ut_state[uid] # "NO_STATE"
  /\ ut_state[t] = "WAIT" <=> ut_state[uid] # "ZOMBIE"

JoinsOK ==
  /\ \A t \in Slots : join_uid[t] # NULL <=> ctx[t] = "join"
  /\ \A t \in Slots : ctx[t] = "join" => JoinOK(t)
  /\ \A t \in Slots : ut_has_exited[t] => ut_exit[t] = born[t]
  /\ NoJoinCycle

Ruly == SleepersOK /\ OwnersOK /\ JoinsOK
-----------------------------------------------------------------------------
(* Steps that leave a part of it alone.                                      *)

\* A step that leaves the queues alone and puts to sleep joiners and the reaper only.
LEMMA SleepersKept ==
  ASSUME SleepersOK, UNCHANGED <<m_waiters, uc_waiters, on_mtx, on_cond>>,
         \A t \in Slots : ut_state'[t] = "WAIT" =>
           \/ ut_state[t] = "WAIT" /\ ctx'[t] = ctx[t]
           \/ ctx'[t] \in {"join", "reaper"}
  PROVE  SleepersOK'
BY DEF SleepersOK

\* A step that leaves the mutexes alone and ends no thread in a critical section.
LEMMA OwnersKept ==
  ASSUME SafeForAnyClient, OwnersOK, UNCHANGED <<m_owner, holding, on_mtx>>,
         \A t \in Slots : /\ ctx[t] = "mtx" => ctx'[t] = "mtx"
                          /\ ctx'[t] = "cond" => ctx[t] = "cond"
                          /\ ut_state[t] \notin Dead => ut_state'[t] \notin Dead
  PROVE  OwnersOK'
<1>1. \A m \in Mutexes : m_owner[m] # NULL => m_owner[m] \in Slots
  BY DEF SafeForAnyClient, TypeOK, SyncTypeOK
<1> QED
  BY <1>1 DEF OwnersOK

\* No new thread sleeps in uthread_join.
LEMMA CyclesKept ==
  ASSUME NoJoinCycle,
         \A t \in Slots : ut_state'[t] = "WAIT" /\ ctx'[t] = "join" =>
           ut_state[t] = "WAIT" /\ ctx[t] = "join" /\ join_uid'[t] = join_uid[t]
  PROVE  NoJoinCycle'
<1> SUFFICES ASSUME NEW S \in (SUBSET Slots) \ {{}}
             PROVE  \E t \in S : ~(ut_state'[t] = "WAIT" /\ ctx'[t] = "join" /\ join_uid'[t] \in S)
  BY DEF NoJoinCycle
<1>1. PICK t \in S : ~(ut_state[t] = "WAIT" /\ ctx[t] = "join" /\ join_uid[t] \in S)
  BY DEF NoJoinCycle
<1> QED
  BY <1>1

\* Steps of the scheduler, of mutexes and of condition variables.
LEMMA JoinsKept ==
  ASSUME SafeForAnyClient, JoinsOK, UNCHANGED lifeVars,
         \A t \in Slots :
           /\ ctx'[t] = "join" <=> ctx[t] = "join"
           /\ ctx[t] = "join" => (ut_state'[t] = "WAIT" <=> ut_state[t] = "WAIT")
           /\ ut_state'[t] = "ZOMBIE" <=> ut_state[t] = "ZOMBIE"
           /\ ut_state'[t] = "NO_STATE" => ut_state[t] = "NO_STATE"
  PROVE  JoinsOK'
<1>1. NoJoinCycle'
  BY CyclesKept DEF JoinsOK, lifeVars
<1>2. ASSUME NEW t \in Slots, ctx'[t] = "join"
      PROVE  JoinOK(t)'
  <2>1. JoinOK(t) /\ join_uid[t] \in Slots
    BY <1>2 DEF JoinsOK, SafeForAnyClient, ContextInv
  <2> QED
    BY <1>2, <2>1 DEF JoinOK, lifeVars
<1> QED
  BY <1>1, <1>2 DEF JoinsOK, lifeVars

\* A step that leaves states and contexts alone.
LEMMA QuietRuly ==
  ASSUME SafeForAnyClient, Ruly, UNCHANGED <<ut_state, ctx, lifeVars, syncVars>>
  PROVE  Ruly'
<1>1. SleepersOK'
  BY SleepersKept DEF Ruly, syncVars
<1>2. OwnersOK'
  BY OwnersKept DEF Ruly, syncVars
<1>3. JoinsOK'
  BY JoinsKept DEF Ruly
<1> QED
  BY <1>1, <1>2, <1>3 DEF Ruly

\* What the running thread is.
LEMMA RunningFacts ==
  ASSUME SafeForAnyClient, NEW thr \in Slots, NEW c, Running(thr, c)
  PROVE  /\ ut_state[thr] = "ON_CPU" /\ ctx[thr] = c /\ ~switching /\ ut_curthr = thr
         /\ ut_state \in [Slots -> States] /\ ctx \in [Slots -> Contexts]
BY DEF SafeForAnyClient, OneOnCpu, Running, TypeOK, SchedTypeOK

\* The scheduler's steps keep Ruly.
LEMMA SchedStepRuly ==
  ASSUME SafeForAnyClient, Ruly, SchedStep
  PROVE  Ruly'
<1>1. UNCHANGED <<lifeVars, syncVars>>
  BY DEF SchedStep
<1>2. ASSUME UNCHANGED ctx,
             \A t \in Slots :
               /\ ut_state'[t] = "WAIT" <=> ut_state[t] = "WAIT"
               /\ ut_state'[t] = "ZOMBIE" <=> ut_state[t] = "ZOMBIE"
               /\ ut_state'[t] = "NO_STATE" <=> ut_state[t] = "NO_STATE"
      PROVE  Ruly'
  <2>1. SleepersOK'
    BY <1>1, <1>2, SleepersKept DEF Ruly, syncVars
  <2>2. OwnersOK'
    BY <1>1, <1>2, OwnersKept DEF Ruly, syncVars, Dead
  <2>3. JoinsOK'
    BY <1>1, <1>2, JoinsKept DEF Ruly
  <2> QED
    BY <2>1, <2>2, <2>3 DEF Ruly
<1>3. CASE uthread_switch
  <2>1. PICK p \in Prios : /\ ~utqueue_empty(runq_table[p]) /\ UNCHANGED ctx
                           /\ ut_state' = [ut_state EXCEPT ![utqueue_first(runq_table[p])] = "ON_CPU"]
    BY <1>3 DEF uthread_switch, Chosen
  <2>2. PICK thr \in Slots : thr = utqueue_first(runq_table[p]) /\ OnQueue(thr, runq_table[p])
    BY <2>1, RunqFacts, RunqDequeueLemma
  <2>3. ut_state[thr] = "RUNNABLE" /\ ut_state \in [Slots -> States]
    BY <2>2 DEF SafeForAnyClient, RunQueueExact, TypeOK, SchedTypeOK
  <2> QED
    BY <1>2, <2>1, <2>2, <2>3
<1>4. CASE uthread_idle
  BY <1>1, <1>4, QuietRuly DEF uthread_idle, schedVars
<1>5. ASSUME NEW thr \in Slots, Yield(thr)
      PROVE  Ruly'
  <2>1. Running(thr, "user") /\ uthread_yield(thr, "user")
    BY <1>5 DEF Yield
  <2>2. /\ ut_state[thr] = "ON_CPU" /\ ctx[thr] = "user"
        /\ ut_state \in [Slots -> States] /\ ctx \in [Slots -> Contexts]
    BY <2>1, RunningFacts
  <2>3. UNCHANGED ctx
    BY <2>1, <2>2 DEF uthread_yield
  <2> QED
    BY <1>2, <2>1, <2>2, <2>3 DEF uthread_yield
<1>6. ASSUME NEW thr \in Slots, NEW id, NEW prio, SetPrio(thr, id, prio)
      PROVE  Ruly'
  BY <1>1, <1>6, QuietRuly DEF SetPrio
<1> QED
  BY <1>3, <1>4, <1>5, <1>6 DEF SchedStep

-----------------------------------------------------------------------------
(* Mutexes and condition variables.                                          *)

\* What steps of the library's lifeless part do to the joins.
LEMMA SyncJoins ==
  ASSUME SafeForAnyClient, JoinsOK, UNCHANGED lifeVars, NEW thr \in Slots,
         ut_state[thr] = "ON_CPU", ctx[thr] # "join", ctx'[thr] # "join",
         ut_state'[thr] \in {"ON_CPU", "WAIT"},
         \A t \in Slots \ {thr} :
           /\ ctx'[t] = ctx[t]
           /\ \/ ut_state'[t] = ut_state[t]
              \/ ut_state[t] = "WAIT" /\ ut_state'[t] = "RUNNABLE" /\ ctx[t] \in {"mtx", "cond"}
  PROVE  JoinsOK'
<1>1. ASSUME NEW t \in Slots
      PROVE  /\ ctx'[t] = "join" <=> ctx[t] = "join"
             /\ ctx[t] = "join" => (ut_state'[t] = "WAIT" <=> ut_state[t] = "WAIT")
             /\ ut_state'[t] = "ZOMBIE" <=> ut_state[t] = "ZOMBIE"
             /\ ut_state'[t] = "NO_STATE" => ut_state[t] = "NO_STATE"
  <2>1. CASE t = thr
    BY <2>1
  <2>2. CASE t # thr
    BY <2>2
  <2> QED
    BY <2>1, <2>2
<1> QED
  BY <1>1, JoinsKept

\* uthread_mtx_lock or uthread_mtx_trylock of a free mutex.
LEMMA LockAcquireRuly ==
  ASSUME SafeForAnyClient, Ruly, NEW thr \in Slots, NEW m \in Mutexes,
         ut_state[thr] = "ON_CPU", ctx[thr] \in {"user", "cond"}, m_owner[m] = NULL,
         m_owner' = [m_owner EXCEPT ![m] = thr],
         holding' = [holding EXCEPT ![thr] = @ \cup {m}],
         ctx' = [ctx EXCEPT ![thr] = "user"],
         \A t \in Slots \ {thr} : on_mtx'[t] = on_mtx[t] /\ on_cond'[t] = on_cond[t],
         UNCHANGED <<ut_state, m_waiters, uc_waiters, lifeVars>>
  PROVE  Ruly'
<1>1. /\ m_owner \in [Mutexes -> Slots \cup {NULL}] /\ holding \in [Slots -> SUBSET Mutexes]
      /\ ctx \in [Slots -> Contexts] /\ ctx[thr] # "mtx"
  BY DEF SafeForAnyClient, TypeOK, SyncTypeOK, SchedTypeOK
<1>2. /\ \A t \in Slots : ctx'[t] = IF t = thr THEN "user" ELSE ctx[t]
      /\ \A t \in Slots : holding'[t] = IF t = thr THEN holding[t] \cup {m} ELSE holding[t]
      /\ \A x \in Mutexes : m_owner'[x] = IF x = m THEN thr ELSE m_owner[x]
  BY <1>1
<1>3. SleepersOK'
  BY <1>2 DEF Ruly, SleepersOK
<1>4. OwnersOK'
  <2>1. ASSUME NEW x \in Mutexes, m_owner'[x] # NULL
        PROVE  \/ x \in holding'[m_owner'[x]]
               \/ ctx'[m_owner'[x]] = "mtx" /\ on_mtx'[m_owner'[x]] = x
    <3>1. CASE x = m
      BY <1>1, <1>2, <3>1
    <3>2. CASE x # m
      <4>1. m_owner'[x] = m_owner[x] /\ m_owner[x] \in Slots
        BY <1>1, <1>2, <2>1, <3>2
      <4>2. \/ x \in holding[m_owner[x]]
            \/ ctx[m_owner[x]] = "mtx" /\ on_mtx[m_owner[x]] = x
        BY <2>1, <4>1 DEF Ruly, OwnersOK
      <4> QED
        BY <1>1, <1>2, <4>1, <4>2
    <3> QED
      BY <3>1, <3>2
  <2>2. ASSUME NEW t \in Slots, holding'[t] # {}
        PROVE  ut_state'[t] \notin Dead
    BY <1>2, <2>2 DEF Ruly, OwnersOK, Dead
  <2>3. ASSUME NEW t \in Slots, ctx'[t] = "cond"
        PROVE  m_owner'[on_mtx'[t]] # t
    <3>1. t # thr /\ ctx[t] = "cond" /\ on_mtx'[t] = on_mtx[t]
      BY <1>2, <2>3
    <3>2. on_mtx[t] \in Mutexes /\ m_owner[on_mtx[t]] # t
      BY <3>1 DEF SafeForAnyClient, ContextInv, Ruly, OwnersOK
    <3> QED
      BY <1>2, <3>1, <3>2
  <2> QED
    BY <2>1, <2>2, <2>3 DEF OwnersOK
<1>5. JoinsOK'
  BY <1>2, SyncJoins DEF Ruly
<1> QED
  BY <1>3, <1>4, <1>5 DEF Ruly

\* uthread_mtx_lock of a mutex of another thread.
LEMMA LockWaitRuly ==
  ASSUME SafeForAnyClient, Ruly, NEW thr \in Slots, NEW m \in Mutexes,
         ut_state[thr] = "ON_CPU", ctx[thr] \in {"user", "cond"},
         m_waiters' = EnqueueOn(m_waiters, m, thr),
         on_mtx' = [on_mtx EXCEPT ![thr] = m], Block(thr, "mtx"),
         \A t \in Slots \ {thr} : on_cond'[t] = on_cond[t],
         UNCHANGED <<m_owner, holding, uc_waiters, lifeVars>>
  PROVE  Ruly'
<1>1. /\ m_owner \in [Mutexes -> Slots \cup {NULL}] /\ m_waiters \in [Mutexes -> Seq(Slots)]
      /\ ctx \in [Slots -> Contexts] /\ ut_state \in [Slots -> States]
      /\ on_mtx \in [Slots -> Mutexes \cup {None}] /\ ctx[thr] # "mtx"
      /\ \A x \in Mutexes : Distinct(m_waiters[x])
      /\ ~OnQueue(thr, m_waiters[m])
  BY DEF SafeForAnyClient, TypeOK, SyncTypeOK, SchedTypeOK, WaitQueuesExact
<1>2. /\ \A t \in Slots : ctx'[t] = IF t = thr THEN "mtx" ELSE ctx[t]
      /\ \A t \in Slots : ut_state'[t] = IF t = thr THEN "WAIT" ELSE ut_state[t]
      /\ \A t \in Slots : on_mtx'[t] = IF t = thr THEN m ELSE on_mtx[t]
  BY <1>1 DEF Block
<1>3. \A t \in Slots, x \in Mutexes :
        OnQueue(t, m_waiters'[x]) <=> OnQueue(t, m_waiters[x]) \/ (t = thr /\ x = m)
  BY <1>1, MtxEnqueueLemma
<1>4. SleepersOK'
  <2>1. ASSUME NEW t \in Slots, ut_state'[t] = "WAIT"
        PROVE  /\ ctx'[t] \in {"mtx", "cond", "join", "reaper"}
               /\ ctx'[t] = "mtx" => OnQueue(t, m_waiters'[on_mtx'[t]])
               /\ ctx'[t] = "cond" => OnQueue(t, uc_waiters'[on_cond'[t]])
    <3>1. CASE t = thr
      BY <1>2, <1>3, <3>1
    <3>2. CASE t # thr
      <4>1. ut_state[t] = "WAIT" /\ ctx'[t] = ctx[t] /\ on_mtx'[t] = on_mtx[t]
        BY <1>2, <2>1, <3>2
      <4>2. ctx[t] = "mtx" => on_mtx[t] \in Mutexes
        BY DEF SafeForAnyClient, ContextInv
      <4> QED
        BY <1>3, <3>2, <4>1, <4>2 DEF Ruly, SleepersOK
    <3> QED
      BY <3>1, <3>2
  <2> QED
    BY <2>1 DEF SleepersOK
<1>5. OwnersOK'
  <2>1. ASSUME NEW x \in Mutexes, m_owner[x] # NULL
        PROVE  \/ x \in holding[m_owner[x]]
               \/ ctx'[m_owner[x]] = "mtx" /\ on_mtx'[m_owner[x]] = x
    <3>1. m_owner[x] \in Slots
      BY <1>1, <2>1
    <3>2. \/ x \in holding[m_owner[x]]
          \/ ctx[m_owner[x]] = "mtx" /\ on_mtx[m_owner[x]] = x
      BY <2>1 DEF Ruly, OwnersOK
    <3> QED
      BY <1>1, <1>2, <3>1, <3>2
  <2>2. \A t \in Slots : holding[t] # {} => ut_state'[t] \notin Dead
    BY <1>2 DEF Ruly, OwnersOK, Dead
  <2>3. \A t \in Slots : ctx'[t] = "cond" => m_owner[on_mtx'[t]] # t
    BY <1>2 DEF Ruly, OwnersOK
  <2> QED
    BY <2>1, <2>2, <2>3 DEF OwnersOK
<1>6. JoinsOK'
  BY <1>2, SyncJoins DEF Ruly
<1> QED
  BY <1>4, <1>5, <1>6 DEF Ruly

\* The body of uthread_mtx_lock.
LEMMA LockBodyRuly ==
  ASSUME SafeForAnyClient, Ruly, NEW thr \in Slots, NEW m \in Mutexes,
         ut_state[thr] = "ON_CPU", ctx[thr] \in {"user", "cond"},
         m_owner[m] # thr, LockBody(thr, m),
         \A t \in Slots \ {thr} : on_cond'[t] = on_cond[t],
         UNCHANGED <<uc_waiters, lifeVars>>
  PROVE  Ruly'
<1>1. on_mtx \in [Slots -> Mutexes \cup {None}]
  BY DEF SafeForAnyClient, TypeOK, SyncTypeOK
<1>2. CASE m_owner[m] = NULL
  <2>1. /\ m_owner' = [m_owner EXCEPT ![m] = thr]
        /\ holding' = [holding EXCEPT ![thr] = @ \cup {m}]
        /\ ctx' = [ctx EXCEPT ![thr] = "user"]
        /\ on_mtx' = [on_mtx EXCEPT ![thr] = None]
        /\ UNCHANGED <<m_waiters, ut_state>>
    BY <1>2 DEF LockBody
  <2>2. \A t \in Slots \ {thr} : on_mtx'[t] = on_mtx[t]
    BY <1>1, <2>1
  <2> QED
    BY <1>2, <2>1, <2>2, LockAcquireRuly
<1>3. CASE m_owner[m] # NULL
  <2>1. /\ m_waiters' = EnqueueOn(m_waiters, m, thr)
        /\ on_mtx' = [on_mtx EXCEPT ![thr] = m]
        /\ Block(thr, "mtx")
        /\ UNCHANGED <<m_owner, holding>>
    BY <1>3 DEF LockBody, MustQueue
  <2> QED
    BY <2>1, LockWaitRuly
<1> QED
  BY <1>2, <1>3

\* uthread_mtx_lock returns.
LEMMA LockResumeRuly ==
  ASSUME SafeForAnyClient, Ruly, NEW thr \in Slots, LockResume(thr), UNCHANGED lifeVars
  PROVE  Ruly'
<1>1. /\ ut_state[thr] = "ON_CPU" /\ ctx[thr] = "mtx"
      /\ ut_state \in [Slots -> States] /\ ctx \in [Slots -> Contexts]
  BY RunningFacts DEF LockResume
<1>2. /\ m_owner \in [Mutexes -> Slots \cup {NULL}] /\ holding \in [Slots -> SUBSET Mutexes]
      /\ on_mtx \in [Slots -> Mutexes \cup {None}]
  BY DEF SafeForAnyClient, TypeOK, SyncTypeOK
<1>3. /\ \A t \in Slots : ctx'[t] = IF t = thr THEN "user" ELSE ctx[t]
      /\ \A t \in Slots : on_mtx'[t] = IF t = thr THEN None ELSE on_mtx[t]
      /\ \A t \in Slots : holding'[t] =
           IF t = thr THEN holding[t] \cup {on_mtx[thr]} ELSE holding[t]
      /\ UNCHANGED <<ut_state, m_owner, m_waiters, uc_waiters, on_cond>>
  BY <1>1, <1>2 DEF LockResume
<1>4. SleepersOK'
  BY <1>1, <1>3 DEF Ruly, SleepersOK
<1>5. OwnersOK'
  <2>1. ASSUME NEW x \in Mutexes, m_owner[x] # NULL
        PROVE  \/ x \in holding'[m_owner[x]]
               \/ ctx'[m_owner[x]] = "mtx" /\ on_mtx'[m_owner[x]] = x
    <3>1. m_owner[x] \in Slots
      BY <1>2, <2>1
    <3>2. \/ x \in holding[m_owner[x]]
          \/ ctx[m_owner[x]] = "mtx" /\ on_mtx[m_owner[x]] = x
      BY <2>1 DEF Ruly, OwnersOK
    <3>3. CASE m_owner[x] = thr
      BY <1>3, <3>1, <3>2, <3>3
    <3>4. CASE m_owner[x] # thr
      BY <1>3, <3>1, <3>2, <3>4
    <3> QED
      BY <3>3, <3>4
  <2>2. \A t \in Slots : holding'[t] # {} => ut_state[t] \notin Dead
    BY <1>1, <1>3 DEF Ruly, OwnersOK, Dead
  <2>3. \A t \in Slots : ctx'[t] = "cond" => m_owner[on_mtx'[t]] # t
    BY <1>3 DEF Ruly, OwnersOK
  <2> QED
    BY <1>3, <2>1, <2>2, <2>3 DEF OwnersOK
<1>6. JoinsOK'
  BY <1>1, <1>3, SyncJoins DEF Ruly
<1> QED
  BY <1>4, <1>5, <1>6 DEF Ruly

\* uthread_mtx_unlock keeps the other waiters.
LEMMA HandoverKeeps ==
  ASSUME SafeForAnyClient, NEW thr \in Slots, NEW m \in Mutexes, UnlockBody(thr, m),
         NEW t \in Slots, NEW x \in Mutexes, OnQueue(t, m_waiters[x]),
         ~(x = m /\ t = UnlockWakes(m))
  PROVE  OnQueue(t, m_waiters'[x])
<1>1. /\ m_waiters \in [Mutexes -> Seq(Slots)]
      /\ \A y \in Mutexes : Distinct(m_waiters[y])
  BY DEF SafeForAnyClient, TypeOK, SyncTypeOK, WaitQueuesExact
<1>2. CASE utqueue_empty(m_waiters[m])
  BY <1>2 DEF UnlockBody
<1>3. CASE ~utqueue_empty(m_waiters[m])
  <2>1. m_waiters' = DequeueFrom(m_waiters, m) /\ UnlockWakes(m) = utqueue_first(m_waiters[m])
    BY <1>3 DEF UnlockBody, UnlockWakes
  <2> QED
    BY <1>1, <1>3, <2>1, MtxDequeueLemma
<1> QED
  BY <1>2, <1>3

\* uthread_mtx_unlock as far as the owners are concerned; the caller goes on, or
\* sleeps on a condition variable.
LEMMA UnlockOwners ==
  ASSUME SafeForAnyClient, Ruly, NEW thr \in Slots, NEW m \in Mutexes,
         ut_state[thr] = "ON_CPU", ctx[thr] = "user", m_owner[m] = thr, UnlockBody(thr, m),
         ut_state'[thr] \in {"ON_CPU", "WAIT"},
         \A t \in Slots \ {thr} :
           /\ ut_state'[t] = IF t = UnlockWakes(m) THEN "RUNNABLE" ELSE ut_state[t]
           /\ ctx'[t] = ctx[t] /\ on_mtx'[t] = on_mtx[t],
         ctx'[thr] = "cond" => on_mtx'[thr] = m
  PROVE  OwnersOK'
<1>1. PICK w : w = UnlockWakes(m)
  OBVIOUS
<1>2. w # NULL => w \in Slots \ {thr} /\ ctx[w] = "mtx" /\ on_mtx[w] = m
  BY <1>1, HandoverWakesLemma
<1>3. /\ \A x \in Mutexes : m_owner'[x] = IF x = m THEN w ELSE m_owner[x]
      /\ \A t \in Slots : holding'[t] = IF t = thr THEN holding[t] \ {m} ELSE holding[t]
  <2>1. \A x \in Mutexes : m_owner'[x] = IF x = m THEN w ELSE m_owner[x]
    BY <1>1, HandoverLemma
  <2>2. \A t \in Slots : holding'[t] = IF t = thr THEN holding[t] \ {m} ELSE holding[t]
    BY HandoverLemma
  <2> QED
    BY <2>1, <2>2
<1>4. ASSUME NEW x \in Mutexes, m_owner'[x] # NULL
      PROVE  \/ x \in holding'[m_owner'[x]]
             \/ ctx'[m_owner'[x]] = "mtx" /\ on_mtx'[m_owner'[x]] = x
  <2>1. CASE x = m
    BY <1>2, <1>3, <1>4, <2>1
  <2>2. CASE x # m
    <3>1. m_owner'[x] = m_owner[x] /\ m_owner[x] \in Slots
      BY <1>3, <1>4, <2>2 DEF SafeForAnyClient, TypeOK, SyncTypeOK
    <3>2. \/ x \in holding[m_owner[x]]
          \/ ctx[m_owner[x]] = "mtx" /\ on_mtx[m_owner[x]] = x
      BY <1>4, <3>1 DEF Ruly, OwnersOK
    <3> QED
      BY <1>3, <2>2, <3>1, <3>2
  <2> QED
    BY <2>1, <2>2
<1>5. ASSUME NEW t \in Slots, holding'[t] # {}
      PROVE  ut_state'[t] \notin Dead
  BY <1>3, <1>5 DEF Ruly, OwnersOK, Dead
<1>6. ASSUME NEW t \in Slots, ctx'[t] = "cond"
      PROVE  m_owner'[on_mtx'[t]] # t
  <2>1. CASE t = thr
    BY <1>2, <1>3, <1>6, <2>1, ConstLemma
  <2>2. CASE t # thr
    <3>1. ctx[t] = "cond" /\ on_mtx'[t] = on_mtx[t]
      BY <1>6, <2>2
    <3>2. on_mtx[t] \in Mutexes /\ m_owner[on_mtx[t]] # t
      BY <3>1 DEF SafeForAnyClient, ContextInv, Ruly, OwnersOK
    <3> QED
      BY <1>2, <1>3, <3>1, <3>2, ConstLemma
  <2> QED
    BY <2>1, <2>2
<1> QED
  BY <1>4, <1>5, <1>6 DEF OwnersOK

\* uthread_mtx_unlock.
LEMMA UnlockRuly ==
  ASSUME SafeForAnyClient, Ruly, NEW thr \in Slots, NEW m \in Mutexes, Unlock(thr, m),
         UNCHANGED lifeVars
  PROVE  Ruly'
<1>1. /\ ut_state[thr] = "ON_CPU" /\ ctx[thr] = "user" /\ m_owner[m] = thr
      /\ ut_state \in [Slots -> States]
      /\ UnlockBody(thr, m) /\ UNCHANGED <<ctx, uc_waiters, on_mtx, on_cond>>
  BY RunningFacts DEF Unlock
<1>2. PICK w : w = UnlockWakes(m)
  OBVIOUS
<1>3. w # NULL => /\ w \in Slots \ {thr} /\ ut_state[w] = "WAIT" /\ ctx[w] = "mtx"
                  /\ on_mtx[w] = m
  BY <1>1, <1>2, HandoverWakesLemma
<1>4. \A t \in Slots : ut_state'[t] = IF t = w THEN "RUNNABLE" ELSE ut_state[t]
  BY <1>1, <1>2, <1>3, ConstLemma DEF Unlock, Wake, WakeState
<1>5. SleepersOK'
  <2>1. ASSUME NEW t \in Slots, ut_state'[t] = "WAIT"
        PROVE  /\ ctx[t] \in {"mtx", "cond", "join", "reaper"}
               /\ ctx[t] = "mtx" => OnQueue(t, m_waiters'[on_mtx[t]])
               /\ ctx[t] = "cond" => OnQueue(t, uc_waiters[on_cond[t]])
    <3>1. ut_state[t] = "WAIT" /\ t # w
      BY <1>4, <2>1
    <3>2. ctx[t] = "mtx" => on_mtx[t] \in Mutexes
      BY DEF SafeForAnyClient, ContextInv
    <3> QED
      BY <1>1, <1>2, <3>1, <3>2, HandoverKeeps DEF Ruly, SleepersOK
  <2> QED
    BY <1>1, <2>1 DEF SleepersOK
<1>6. OwnersOK'
  <2>1. \A t \in Slots \ {thr} :
          /\ ut_state'[t] = IF t = UnlockWakes(m) THEN "RUNNABLE" ELSE ut_state[t]
          /\ ctx'[t] = ctx[t] /\ on_mtx'[t] = on_mtx[t]
    BY <1>1, <1>2, <1>4
  <2>2. ut_state'[thr] = "ON_CPU" /\ ctx'[thr] = "user"
    BY <1>1, <1>3, <1>4, ConstLemma
  <2> QED
    BY <1>1, <2>1, <2>2, UnlockOwners
<1>7. JoinsOK'
  <2>1. ut_state'[thr] = "ON_CPU" /\ ctx'[thr] = "user"
    BY <1>1, <1>3, <1>4, ConstLemma
  <2>2. \A t \in Slots \ {thr} :
          /\ ctx'[t] = ctx[t]
          /\ \/ ut_state'[t] = ut_state[t]
             \/ ut_state[t] = "WAIT" /\ ut_state'[t] = "RUNNABLE" /\ ctx[t] \in {"mtx", "cond"}
    BY <1>1, <1>3, <1>4, ConstLemma
  <2> QED
    BY <1>1, <2>1, <2>2, SyncJoins DEF Ruly
<1> QED
  BY <1>5, <1>6, <1>7 DEF Ruly

\* uthread_cond_wait up to its uthread_block.
LEMMA CondWaitRuly ==
  ASSUME SafeForAnyClient, Ruly, NEW thr \in Slots, NEW c \in Conds, NEW m \in Mutexes,
         CondWait(thr, c, m), UNCHANGED lifeVars
  PROVE  Ruly'
<1>1. /\ ut_state[thr] = "ON_CPU" /\ ctx[thr] = "user" /\ m_owner[m] = thr
      /\ ut_state \in [Slots -> States] /\ ctx \in [Slots -> Contexts]
      /\ UnlockBody(thr, m) /\ uc_waiters' = EnqueueOn(uc_waiters, c, thr)
  BY RunningFacts DEF CondWait
<1>2. PICK w : w = UnlockWakes(m)
  OBVIOUS
<1>3. w # NULL => /\ w \in Slots \ {thr} /\ ut_state[w] = "WAIT" /\ ctx[w] = "mtx"
                  /\ on_mtx[w] = m
  BY <1>1, <1>2, HandoverWakesLemma
<1>4. /\ \A t \in Slots : ut_state'[t] = IF t = thr THEN "WAIT"
                            ELSE IF t = w THEN "RUNNABLE" ELSE ut_state[t]
      /\ \A t \in Slots : ctx'[t] = IF t = thr THEN "cond" ELSE ctx[t]
  <2>1. CASE w = NULL
    BY <1>1, <1>2, <2>1, ConstLemma DEF CondWait, Block
  <2>2. CASE w # NULL
    BY <1>1, <1>2, <1>3, <2>2 DEF CondWait, WakeAndBlock, WakeState
  <2> QED
    BY <2>1, <2>2
<1>5. /\ \A t \in Slots : on_mtx'[t] = IF t = thr THEN m ELSE on_mtx[t]
      /\ \A t \in Slots : on_cond'[t] = IF t = thr THEN c ELSE on_cond[t]
  BY DEF CondWait, SafeForAnyClient, TypeOK, SyncTypeOK
<1>6. \A t \in Slots, x \in Conds :
        OnQueue(t, uc_waiters'[x]) <=> OnQueue(t, uc_waiters[x]) \/ (t = thr /\ x = c)
  <2>1. /\ uc_waiters \in [Conds -> Seq(Slots)] /\ \A x \in Conds : Distinct(uc_waiters[x])
        /\ ~OnQueue(thr, uc_waiters[c])
    BY <1>1 DEF SafeForAnyClient, TypeOK, SyncTypeOK, WaitQueuesExact
  <2> QED
    BY <1>1, <2>1, CondEnqueueLemma
<1>7. SleepersOK'
  <2>1. ASSUME NEW t \in Slots, ut_state'[t] = "WAIT"
        PROVE  /\ ctx'[t] \in {"mtx", "cond", "join", "reaper"}
               /\ ctx'[t] = "mtx" => OnQueue(t, m_waiters'[on_mtx'[t]])
               /\ ctx'[t] = "cond" => OnQueue(t, uc_waiters'[on_cond'[t]])
    <3>1. CASE t = thr
      BY <1>4, <1>5, <1>6, <3>1
    <3>2. CASE t # thr
      <4>1. /\ ut_state[t] = "WAIT" /\ t # w /\ ctx'[t] = ctx[t]
            /\ on_mtx'[t] = on_mtx[t] /\ on_cond'[t] = on_cond[t]
        BY <1>4, <1>5, <2>1, <3>2
      <4>2. /\ ctx[t] = "mtx" => on_mtx[t] \in Mutexes
            /\ ctx[t] = "cond" => on_cond[t] \in Conds
        BY DEF SafeForAnyClient, ContextInv
      <4>3. ctx[t] = "mtx" => OnQueue(t, m_waiters'[on_mtx[t]])
        BY <1>1, <1>2, <4>1, <4>2, HandoverKeeps DEF Ruly, SleepersOK
      <4>4. ctx[t] = "cond" => OnQueue(t, uc_waiters'[on_cond[t]])
        BY <1>6, <4>1, <4>2 DEF Ruly, SleepersOK
      <4> QED
        BY <4>1, <4>3, <4>4 DEF Ruly, SleepersOK
    <3> QED
      BY <3>1, <3>2
  <2> QED
    BY <2>1 DEF SleepersOK
<1>8. OwnersOK'
  <2>1. \A t \in Slots \ {thr} :
          /\ ut_state'[t] = IF t = UnlockWakes(m) THEN "RUNNABLE" ELSE ut_state[t]
          /\ ctx'[t] = ctx[t] /\ on_mtx'[t] = on_mtx[t]
    BY <1>2, <1>4, <1>5
  <2>2. ut_state'[thr] = "WAIT" /\ on_mtx'[thr] = m
    BY <1>4, <1>5
  <2> QED
    BY <1>1, <2>1, <2>2, UnlockOwners
<1>9. JoinsOK'
  <2>1. ut_state'[thr] = "WAIT" /\ ctx'[thr] = "cond"
    BY <1>4
  <2>2. \A t \in Slots \ {thr} :
          /\ ctx'[t] = ctx[t]
          /\ \/ ut_state'[t] = ut_state[t]
             \/ ut_state[t] = "WAIT" /\ ut_state'[t] = "RUNNABLE" /\ ctx[t] \in {"mtx", "cond"}
    BY <1>3, <1>4, ConstLemma
  <2> QED
    BY <1>1, <2>1, <2>2, SyncJoins DEF Ruly
<1> QED
  BY <1>7, <1>8, <1>9 DEF Ruly

\* One thread is woken by uthread_cond_signal or uthread_cond_broadcast.
LEMMA WakeFirstRuly ==
  ASSUME SafeForAnyClient, Ruly, NEW thr \in Slots, NEW c \in Conds,
         ut_state[thr] = "ON_CPU", ctx[thr] \in {"user", "broadcast"},
         ~utqueue_empty(uc_waiters[c]), WakeFirst(c),
         UNCHANGED <<ctx, m_owner, m_waiters, on_mtx, on_cond, holding, lifeVars>>
  PROVE  Ruly'
<1>1. /\ uc_waiters \in [Conds -> Seq(Slots)] /\ \A x \in Conds : Distinct(uc_waiters[x])
      /\ ut_state \in [Slots -> States]
  BY DEF SafeForAnyClient, TypeOK, SyncTypeOK, SchedTypeOK, WaitQueuesExact
<1>2. PICK w \in Slots : w = utqueue_first(uc_waiters[c]) /\ OnQueue(w, uc_waiters[c])
  BY <1>1, CondDequeueLemma
<1>3. ut_state[w] = "WAIT" /\ ctx[w] = "cond" /\ on_cond[w] = c /\ w # thr
  BY <1>2 DEF SafeForAnyClient, WaitQueuesExact
<1>4. \A t \in Slots : ut_state'[t] = IF t = w THEN "RUNNABLE" ELSE ut_state[t]
  BY <1>1, <1>2, <1>3 DEF WakeFirst, Wake, WakeState
<1>5. \A t \in Slots, x \in Conds :
        OnQueue(t, uc_waiters'[x]) <=> OnQueue(t, uc_waiters[x]) /\ ~(x = c /\ t = w)
  <2>1. uc_waiters' = DequeueFrom(uc_waiters, c)
    BY DEF WakeFirst
  <2> QED
    BY <1>1, <1>2, <2>1, CondDequeueLemma
<1>6. SleepersOK'
  <2>1. ASSUME NEW t \in Slots, ut_state'[t] = "WAIT"
        PROVE  /\ ctx[t] \in {"mtx", "cond", "join", "reaper"}
               /\ ctx[t] = "mtx" => OnQueue(t, m_waiters[on_mtx[t]])
               /\ ctx[t] = "cond" => OnQueue(t, uc_waiters'[on_cond[t]])
    <3>1. ut_state[t] = "WAIT" /\ t # w
      BY <1>4, <2>1
    <3>2. ctx[t] = "cond" => on_cond[t] \in Conds
      BY DEF SafeForAnyClient, ContextInv
    <3> QED
      BY <1>5, <3>1, <3>2 DEF Ruly, SleepersOK
  <2> QED
    BY <2>1 DEF SleepersOK
<1>7. OwnersOK'
  BY <1>3, <1>4, OwnersKept DEF Ruly, Dead
<1>8. JoinsOK'
  BY <1>3, <1>4, SyncJoins DEF Ruly
<1> QED
  BY <1>6, <1>7, <1>8 DEF Ruly

\* uthread_cond_broadcast begins or ends.
LEMMA BroadcastRuly ==
  ASSUME SafeForAnyClient, Ruly, NEW thr \in Slots, NEW c \in {"user", "broadcast"},
         ut_state[thr] = "ON_CPU", ctx[thr] \in {"user", "broadcast"},
         ctx' = [ctx EXCEPT ![thr] = c],
         \A t \in Slots \ {thr} : on_cond'[t] = on_cond[t],
         UNCHANGED <<ut_state, m_owner, m_waiters, uc_waiters, on_mtx, holding, lifeVars>>
  PROVE  Ruly'
<1>1. \A t \in Slots : ctx'[t] = IF t = thr THEN c ELSE ctx[t]
  BY DEF SafeForAnyClient, TypeOK, SchedTypeOK
<1>2. SleepersOK'
  BY <1>1 DEF Ruly, SleepersOK
<1>3. OwnersOK'
  BY <1>1, OwnersKept DEF Ruly
<1>4. JoinsOK'
  BY <1>1, SyncJoins DEF Ruly
<1> QED
  BY <1>2, <1>3, <1>4 DEF Ruly

\* The steps of the mutexes and condition variables keep Ruly.
LEMMA SyncStepRuly ==
  ASSUME RulesKept, SafeForAnyClient, Ruly, SyncStep
  PROVE  Ruly'
<1>1. UNCHANGED lifeVars
  BY DEF SyncStep
<1>2. on_cond \in [Slots -> Conds \cup {None}] /\ ctx \in [Slots -> Contexts]
  BY DEF SafeForAnyClient, TypeOK, SchedTypeOK, SyncTypeOK
<1>3. ASSUME NEW thr \in Slots, NEW m \in Mutexes, Lock(thr, m)
      PROVE  Ruly'
  <2>1. m_owner[m] # thr /\ LockBody(thr, m) /\ UNCHANGED <<uc_waiters, on_cond>>
    BY <1>3 DEF Lock, RulesKept, May
  <2>2. ut_state[thr] = "ON_CPU" /\ ctx[thr] = "user"
    BY <1>3, RunningFacts DEF Lock
  <2> QED
    BY <1>1, <2>1, <2>2, LockBodyRuly
<1>4. ASSUME NEW thr \in Slots, NEW m \in Mutexes, TryLock(thr, m)
      PROVE  Ruly'
  <2>1. ut_state[thr] = "ON_CPU" /\ ctx[thr] = "user"
    BY <1>4, RunningFacts DEF TryLock
  <2>2. UNCHANGED <<ut_state, ctx, m_waiters, uc_waiters, on_mtx, on_cond>>
    BY <1>4 DEF TryLock, schedVars
  <2>3. CASE m_owner[m] = NULL
    <3>1. /\ m_owner' = [m_owner EXCEPT ![m] = thr]
          /\ holding' = [holding EXCEPT ![thr] = @ \cup {m}]
      BY <1>4, <2>3 DEF TryLock
    <3>2. ctx' = [ctx EXCEPT ![thr] = "user"]
      BY <1>2, <2>1, <2>2
    <3> QED
      BY <1>1, <2>1, <2>2, <2>3, <3>1, <3>2, LockAcquireRuly
  <2>4. CASE m_owner[m] # NULL
    BY <1>1, <1>4, <2>2, <2>4, QuietRuly DEF TryLock, syncVars
  <2> QED
    BY <2>3, <2>4
<1>5. ASSUME NEW thr \in Slots, NEW m \in Mutexes, Unlock(thr, m)
      PROVE  Ruly'
  BY <1>1, <1>5, UnlockRuly
<1>6. ASSUME NEW thr \in Slots, NEW m \in Mutexes, UnlockUnowned(thr, m)
      PROVE  Ruly'
  BY <1>1, <1>6, QuietRuly DEF UnlockUnowned
<1>7. ASSUME NEW thr \in Slots, NEW m \in Mutexes, NEW c \in Conds, CondWait(thr, c, m)
      PROVE  Ruly'
  BY <1>1, <1>7, CondWaitRuly
<1>8. ASSUME NEW thr \in Slots, LockResume(thr)
      PROVE  Ruly'
  BY <1>1, <1>8, LockResumeRuly
<1>9. ASSUME NEW thr \in Slots, CondResume(thr)
      PROVE  Ruly'
  <2>1. ut_state[thr] = "ON_CPU" /\ ctx[thr] = "cond"
    BY <1>9, RunningFacts DEF CondResume
  <2>2. PICK m \in Mutexes : m = on_mtx[thr]
    BY <2>1 DEF SafeForAnyClient, ContextInv
  <2>3. LockBody(thr, m) /\ UNCHANGED uc_waiters
    BY <1>9, <2>2 DEF CondResume
  <2>4. \A t \in Slots \ {thr} : on_cond'[t] = on_cond[t]
    BY <1>2, <1>9 DEF CondResume
  <2>5. m_owner[m] # thr
    BY <2>1, <2>2 DEF Ruly, OwnersOK
  <2> QED
    BY <1>1, <2>1, <2>3, <2>4, <2>5, LockBodyRuly
<1>10. ASSUME NEW thr \in Slots, NEW c \in Conds, Signal(thr, c)
       PROVE  Ruly'
  <2>1. ut_state[thr] = "ON_CPU" /\ ctx[thr] = "user"
    BY <1>10, RunningFacts DEF Signal
  <2>2. UNCHANGED <<ctx, m_owner, m_waiters, on_mtx, on_cond, holding>>
    BY <1>10 DEF Signal
  <2>3. CASE utqueue_empty(uc_waiters[c])
    BY <1>1, <1>10, <2>2, <2>3, QuietRuly DEF Signal, syncVars
  <2>4. CASE ~utqueue_empty(uc_waiters[c])
    <3>1. WakeFirst(c)
      BY <1>10, <2>4 DEF Signal
    <3> QED
      BY <1>1, <2>1, <2>2, <2>4, <3>1, WakeFirstRuly
  <2> QED
    BY <2>3, <2>4
<1>11. ASSUME NEW thr \in Slots, NEW c \in Conds, Broadcast(thr, c)
       PROVE  Ruly'
  <2>1. ut_state[thr] = "ON_CPU" /\ ctx[thr] = "user"
    BY <1>11, RunningFacts DEF Broadcast
  <2>2. /\ ctx' = [ctx EXCEPT ![thr] = "broadcast"]
        /\ UNCHANGED <<ut_state, m_owner, m_waiters, uc_waiters, on_mtx, holding>>
    BY <1>11 DEF Broadcast
  <2>3. \A t \in Slots \ {thr} : on_cond'[t] = on_cond[t]
    BY <1>2, <1>11 DEF Broadcast
  <2> QED
    BY <1>1, <2>1, <2>2, <2>3, BroadcastRuly
<1>12. ASSUME NEW thr \in Slots, BroadcastLoop(thr)
       PROVE  Ruly'
  <2>1. ut_state[thr] = "ON_CPU" /\ ctx[thr] = "broadcast"
    BY <1>12, RunningFacts DEF BroadcastLoop
  <2>2. PICK c \in Conds : c = on_cond[thr]
    BY <2>1 DEF SafeForAnyClient, ContextInv
  <2>3. UNCHANGED <<m_owner, m_waiters, on_mtx, holding>>
    BY <1>12 DEF BroadcastLoop
  <2>4. CASE utqueue_empty(uc_waiters[c])
    <3>1. ctx' = [ctx EXCEPT ![thr] = "user"] /\ UNCHANGED <<uc_waiters, ut_state>>
      BY <1>12, <2>2, <2>4 DEF BroadcastLoop
    <3>2. \A t \in Slots \ {thr} : on_cond'[t] = on_cond[t]
      BY <1>2, <1>12, <2>2, <2>4 DEF BroadcastLoop
    <3> QED
      BY <1>1, <2>1, <2>3, <3>1, <3>2, BroadcastRuly
  <2>5. CASE ~utqueue_empty(uc_waiters[c])
    <3>1. WakeFirst(c) /\ UNCHANGED <<ctx, on_cond>>
      BY <1>12, <2>2, <2>5 DEF BroadcastLoop
    <3> QED
      BY <1>1, <2>1, <2>3, <2>5, <3>1, WakeFirstRuly
  <2> QED
    BY <2>4, <2>5
<1> QED
  BY <1>3, <1>4, <1>5, <1>6, <1>7, <1>8, <1>9, <1>10, <1>11, <1>12 DEF SyncStep

-----------------------------------------------------------------------------
(* The life of threads.                                                      *)

\* A slot that uthread_create fills, or the reaper clears, is nobody's to join.
LEMMA SlotJoins ==
  ASSUME SafeForAnyClient, JoinsOK, NEW uid \in Slots,
         ut_state[uid] = "NO_STATE" \/ ut_detached[uid],
         ctx[uid] # "join", ctx'[uid] # "join", ut_has_exited'[uid] = FALSE,
         \A t \in Slots \ {uid} :
           /\ ctx'[t] = "join" <=> ctx[t] = "join"
           /\ ctx[t] = "join" => ut_state'[t] = ut_state[t]
           /\ ut_state'[t] = "ZOMBIE" <=> ut_state[t] = "ZOMBIE"
           /\ ut_state'[t] = "NO_STATE" => ut_state[t] = "NO_STATE"
           /\ ut_has_exited'[t] = ut_has_exited[t] /\ ut_exit'[t] = ut_exit[t]
           /\ ut_detached'[t] = ut_detached[t] /\ ut_waiter'[t] = ut_waiter[t]
           /\ born'[t] = born[t],
         UNCHANGED <<join_uid, join_born>>
  PROVE  JoinsOK'
<1>1. \A t \in Slots : ctx'[t] = "join" <=> ctx[t] = "join"
  OBVIOUS
<1>2. NoJoinCycle'
  BY CyclesKept DEF JoinsOK
<1>3. ASSUME NEW t \in Slots, ctx'[t] = "join"
      PROVE  JoinOK(t)'
  <2>1. ctx[t] = "join" /\ t # uid
    BY <1>1, <1>3
  <2>2. JoinOK(t) /\ join_uid[t] \in Slots
    BY <2>1 DEF JoinsOK, SafeForAnyClient, ContextInv
  <2>3. join_uid[t] # uid
    BY <2>2 DEF JoinOK
  <2> QED
    BY <2>1, <2>2, <2>3 DEF JoinOK
<1>4. \A t \in Slots : ut_has_exited'[t] => ut_exit'[t] = born'[t]
  BY DEF JoinsOK
<1>5. \A t \in Slots : join_uid'[t] # NULL <=> ctx'[t] = "join"
  BY <1>1 DEF JoinsOK
<1> QED
  BY <1>2, <1>3, <1>4, <1>5 DEF JoinsOK

\* uthread_create takes a free slot, which nobody joins.
LEMMA CreateRuly ==
  ASSUME SafeForAnyClient, Ruly, NEW thr \in Slots, NEW uid \in Slots, NEW prio \in Prios,
         Create(thr, uid, prio), UNCHANGED syncVars
  PROVE  Ruly'
<1>1. /\ ut_state[uid] = "NO_STATE" /\ ctx[uid] = "user"
      /\ ut_state \in [Slots -> States] /\ ctx \in [Slots -> Contexts]
  BY DEF Create, IsAllocated, SafeForAnyClient, ContextInv, TypeOK, SchedTypeOK
<1>2. /\ \A t \in Slots : ut_state'[t] = IF t = uid THEN "RUNNABLE" ELSE ut_state[t]
      /\ \A t \in Slots : ctx'[t] = ctx[t]
  BY <1>1 DEF Create
<1>3. SleepersOK'
  BY <1>2, SleepersKept DEF Ruly, syncVars
<1>4. OwnersOK'
  BY <1>2, OwnersKept DEF Ruly, Dead, syncVars
<1>5. /\ ut_has_exited'[uid] = FALSE /\ UNCHANGED <<join_uid, join_born>>
      /\ \A t \in Slots \ {uid} :
           /\ ut_has_exited'[t] = ut_has_exited[t] /\ ut_exit'[t] = ut_exit[t]
           /\ ut_detached'[t] = ut_detached[t] /\ ut_waiter'[t] = ut_waiter[t]
           /\ born'[t] = born[t]
  BY DEF Create, ClearSlot, SafeForAnyClient, TypeOK, LifeTypeOK
<1>6. JoinsOK'
  BY <1>1, <1>2, <1>5, SlotJoins DEF Ruly
<1> QED
  BY <1>3, <1>4, <1>6 DEF Ruly

\* uthread_create that fails after it has marked its slot.
LEMMA CreateBadPrioRuly ==
  ASSUME SafeForAnyClient, Ruly, NEW thr \in Slots, NEW uid \in Slots,
         CreateBadPrio(thr, uid), UNCHANGED syncVars
  PROVE  Ruly'
<1>1. /\ ut_state[uid] = "NO_STATE" /\ ctx[uid] = "user"
      /\ ut_state[thr] = "ON_CPU" /\ ctx[thr] = "user"
      /\ ut_state \in [Slots -> States] /\ ctx \in [Slots -> Contexts]
  BY RunningFacts DEF CreateBadPrio, IsAllocated, SafeForAnyClient, ContextInv
<1>2. /\ \A t \in Slots : ut_state'[t] = IF t \in {uid, thr} THEN "RUNNABLE" ELSE ut_state[t]
      /\ \A t \in Slots : ctx'[t] = IF t = uid THEN "none"
                            ELSE IF t = thr THEN "create_failed" ELSE ctx[t]
  BY <1>1 DEF CreateBadPrio
<1>3. SleepersOK'
  BY <1>2, SleepersKept DEF Ruly, syncVars
<1>4. OwnersOK'
  BY <1>1, <1>2, OwnersKept DEF Ruly, Dead, syncVars
<1>5. /\ ut_has_exited'[uid] = FALSE /\ UNCHANGED <<join_uid, join_born>>
      /\ \A t \in Slots \ {uid} :
           /\ ut_has_exited'[t] = ut_has_exited[t] /\ ut_exit'[t] = ut_exit[t]
           /\ ut_detached'[t] = ut_detached[t] /\ ut_waiter'[t] = ut_waiter[t]
           /\ born'[t] = born[t]
  BY DEF CreateBadPrio, ClearSlot, SafeForAnyClient, TypeOK, LifeTypeOK
<1>6. JoinsOK'
  BY <1>1, <1>2, <1>5, SlotJoins DEF Ruly
<1> QED
  BY <1>3, <1>4, <1>6 DEF Ruly

\* The reaper destroys detached threads, which nobody joins.
LEMMA ReapRuly ==
  ASSUME SafeForAnyClient, Ruly, Reap, UNCHANGED syncVars
  PROVE  Ruly'
<1>1. PICK uid \in Slots : uid = list_head(reap_queue) /\ OnQueue(uid, reap_queue)
  BY ListRemoveLemma DEF Reap, SafeForAnyClient, TypeOK, LifeTypeOK, ReapQueueExact
<1>2. /\ ut_state[uid] = "ZOMBIE" /\ ut_detached[uid] /\ ctx[uid] = "user"
      /\ ut_state \in [Slots -> States]
  BY <1>1 DEF SafeForAnyClient, ReapQueueExact, ContextInv, TypeOK, SchedTypeOK
<1>3. /\ \A t \in Slots : ut_state'[t] = IF t = uid THEN "NO_STATE" ELSE ut_state[t]
      /\ UNCHANGED ctx
  BY <1>1, <1>2 DEF Reap
<1>4. SleepersOK'
  BY <1>3, SleepersKept DEF Ruly, syncVars
<1>5. OwnersOK'
  BY <1>2, <1>3, OwnersKept DEF Ruly, Dead, syncVars
<1>6. /\ ut_has_exited'[uid] = FALSE /\ UNCHANGED <<join_uid, join_born>>
      /\ \A t \in Slots \ {uid} :
           /\ ut_has_exited'[t] = ut_has_exited[t] /\ ut_exit'[t] = ut_exit[t]
           /\ ut_detached'[t] = ut_detached[t] /\ ut_waiter'[t] = ut_waiter[t]
           /\ born'[t] = born[t]
  BY <1>1 DEF Reap, ClearSlot, SafeForAnyClient, TypeOK, LifeTypeOK
<1>7. JoinsOK'
  BY <1>2, <1>3, <1>6, SlotJoins DEF Ruly
<1> QED
  BY <1>4, <1>5, <1>7 DEF Ruly

\* A thread that exits holds no mutex, and wakes the one that joins it.
LEMMA ExitRuly ==
  ASSUME RulesKept, SafeForAnyClient, Ruly, NEW thr \in Slots, ExitThread(thr)
  PROVE  Ruly'
<1>1. /\ ut_state[thr] = "ON_CPU" /\ ctx[thr] = "user" /\ holding[thr] = {}
      /\ ut_state \in [Slots -> States] /\ thr # reaper_thr_id
  <2>1. Running(thr, "user") /\ holding[thr] = {}
    BY DEF ExitThread, Exit, RulesKept, May
  <2>2. ut_state[thr] = "ON_CPU" /\ ctx[thr] = "user" /\ ut_state \in [Slots -> States]
    BY <2>1, RunningFacts
  <2> QED
    BY <2>1, <2>2 DEF SafeForAnyClient, ContextInv
<1>2. PICK w :
        /\ w = IF ut_detached[thr] THEN reaper_thr_id ELSE ut_waiter[thr]
        /\ w # NULL => w \in Slots
  BY ConstLemma DEF SafeForAnyClient, TypeOK, LifeTypeOK
<1>3. w # NULL =>
        /\ w \in Slots /\ w # thr
        /\ ctx[w] \in {"join", "reaper", "reaper_start"}
        /\ ctx[w] = "join" => ~ut_detached[thr] /\ join_uid[w] = thr
  BY <1>1, <1>2, ConstLemma DEF SafeForAnyClient, JoinerAsleep, ContextInv
<1>4. /\ \A t \in Slots : ut_state'[t] = IF t = thr THEN "ZOMBIE"
                            ELSE IF t = w /\ ut_state[t] = "WAIT" THEN "RUNNABLE" ELSE ut_state[t]
      /\ UNCHANGED <<ctx, ut_detached, ut_waiter, join_uid, born, join_born, m_owner, m_waiters,
                     uc_waiters, on_mtx, on_cond>>
  <2>1. CASE w = NULL
    BY <1>1, <1>2, <2>1, ConstLemma DEF ExitThread, Exit
  <2>2. CASE w # NULL
    BY <1>1, <1>2, <1>3, <2>2 DEF ExitThread, Exit, WakeState
  <2> QED
    BY <2>1, <2>2
<1>5. /\ \A t \in Slots : holding'[t] = holding[t]
      /\ \A t \in Slots : ut_exit'[t] = IF t = thr THEN born[thr] ELSE ut_exit[t]
      /\ \A t \in Slots : ut_has_exited'[t] = IF t = thr THEN TRUE ELSE ut_has_exited[t]
  BY <1>1 DEF ExitThread, Exit, SafeForAnyClient, TypeOK, LifeTypeOK, SyncTypeOK
<1>6. SleepersOK'
  BY <1>4, SleepersKept DEF Ruly
<1>7. OwnersOK'
  <2>1. ASSUME NEW m \in Mutexes, m_owner[m] # NULL
        PROVE  \/ m \in holding'[m_owner[m]]
               \/ ctx[m_owner[m]] = "mtx" /\ on_mtx[m_owner[m]] = m
    <3>1. m_owner[m] \in Slots
      BY <2>1 DEF SafeForAnyClient, TypeOK, SyncTypeOK
    <3> QED
      BY <1>5, <2>1, <3>1 DEF Ruly, OwnersOK
  <2>2. \A t \in Slots : holding'[t] # {} => ut_state'[t] \notin Dead
    BY <1>1, <1>4, <1>5 DEF Ruly, OwnersOK, Dead
  <2> QED
    BY <1>4, <2>1, <2>2 DEF Ruly, OwnersOK
<1>8. JoinsOK'
  <2>1. ASSUME NEW t \in Slots, ctx[t] = "join"
        PROVE  JoinOK(t)'
    <3>1. JoinOK(t) /\ join_uid[t] \in Slots /\ t # thr
      BY <1>1, <2>1 DEF Ruly, JoinsOK, SafeForAnyClient, ContextInv
    <3>2. CASE join_uid[t] = thr
      <4>1. w = t /\ ut_state[t] = "WAIT"
        BY <1>1, <1>2, <3>1, <3>2 DEF JoinOK
      <4> QED
        BY <1>4, <1>5, <3>1, <3>2, <4>1 DEF JoinOK
    <3>3. CASE join_uid[t] # thr
      <4>1. t # w
        BY <1>3, <2>1, <3>3, ConstLemma
      <4> QED
        BY <1>4, <3>1, <3>3, <4>1 DEF JoinOK
    <3> QED
      BY <3>2, <3>3
  <2>2. NoJoinCycle'
    BY <1>4, CyclesKept DEF Ruly, JoinsOK
  <2>3. \A t \in Slots : ut_has_exited'[t] => ut_exit'[t] = born[t]
    BY <1>5 DEF Ruly, JoinsOK
  <2> QED
    BY <1>4, <2>1, <2>2, <2>3 DEF Ruly, JoinsOK
<1> QED
  BY <1>6, <1>7, <1>8 DEF Ruly

\* uthread_join ends: uid, which nobody else joins, goes to the reaper.
LEMMA JoinFinishRuly ==
  ASSUME SafeForAnyClient, Ruly, NEW thr \in Slots, NEW uid \in Slots,
         ut_state[thr] = "ON_CPU", ctx[thr] \in {"user", "join"},
         \A t \in Slots \ {thr} : ctx[t] = "join" => join_uid[t] # uid,
         \A t \in Slots \ {uid} : ut_waiter'[t] = ut_waiter[t],
         ~OnQueue(uid, reap_queue), JoinFinish(thr, uid),
         UNCHANGED <<ut_has_exited, ut_exit, born, syncVars>>
  PROVE  Ruly'
<1>1. /\ ut_state \in [Slots -> States] /\ ctx \in [Slots -> Contexts]
      /\ join_uid \in [Slots -> Slots \cup {NULL}] /\ join_born \in [Slots -> Births]
      /\ ut_detached \in [Slots -> BOOLEAN] /\ thr # reaper_thr_id /\ ctx[reaper_thr_id] # "join"
  BY ConstLemma DEF SafeForAnyClient, TypeOK, SchedTypeOK, LifeTypeOK, ContextInv
<1>2. /\ \A t \in Slots : ctx'[t] = IF t = thr THEN "user" ELSE ctx[t]
      /\ \A t \in Slots : join_uid'[t] = IF t = thr THEN NULL ELSE join_uid[t]
      /\ \A t \in Slots : t # thr => join_born'[t] = join_born[t]
      /\ \A t \in Slots : t # uid => ut_detached'[t] = ut_detached[t]
      /\ \A t \in Slots : ut_state'[t] =
           IF t = reaper_thr_id /\ ut_state[t] = "WAIT" THEN "RUNNABLE" ELSE ut_state[t]
  BY <1>1 DEF JoinFinish, Wake, WakeState
<1>3. SleepersOK'
  BY <1>2, SleepersKept DEF Ruly, syncVars
<1>4. OwnersOK'
  BY <1>2, OwnersKept DEF Ruly, Dead, syncVars
<1>5. JoinsOK'
  <2>1. ASSUME NEW t \in Slots, ctx'[t] = "join"
        PROVE  JoinOK(t)'
    <3>1. t # thr /\ ctx[t] = "join" /\ t # reaper_thr_id
      BY <1>1, <1>2, <2>1
    <3>2. JoinOK(t) /\ join_uid[t] \in Slots /\ join_uid[t] # uid
      BY <3>1 DEF Ruly, JoinsOK, SafeForAnyClient, ContextInv
    <3> QED
      BY <1>2, <3>1, <3>2 DEF JoinOK
  <2>2. NoJoinCycle'
    BY <1>2, CyclesKept DEF Ruly, JoinsOK
  <2>3. \A t \in Slots : join_uid'[t] # NULL <=> ctx'[t] = "join"
    BY <1>2 DEF Ruly, JoinsOK
  <2> QED
    BY <2>1, <2>2, <2>3 DEF Ruly, JoinsOK
<1> QED
  BY <1>3, <1>4, <1>5 DEF Ruly

\* uthread_join blocks: nobody joins thr, so that it closes no cycle.
LEMMA JoinBlockRuly ==
  ASSUME SafeForAnyClient, Ruly, NEW thr \in Slots, NEW uid \in Slots, uid # thr,
         ut_state[thr] = "ON_CPU", ctx[thr] = "user",
         ut_waiter[thr] = NULL, ut_waiter[uid] = NULL,
         ut_state[uid] \notin Dead, ~ut_detached[uid],
         ut_waiter' = [ut_waiter EXCEPT ![uid] = thr], Block(thr, "join"),
         join_uid' = [join_uid EXCEPT ![thr] = uid],
         join_born' = [join_born EXCEPT ![thr] = born[uid]],
         UNCHANGED <<ut_has_exited, ut_exit, ut_detached, born, syncVars>>
  PROVE  Ruly'
<1>1. /\ ut_state \in [Slots -> States] /\ ctx \in [Slots -> Contexts]
      /\ join_uid \in [Slots -> Slots \cup {NULL}] /\ join_born \in [Slots -> Births]
      /\ ut_waiter \in [Slots -> Slots \cup {NULL}]
  BY DEF SafeForAnyClient, TypeOK, SchedTypeOK, LifeTypeOK
<1>2. /\ \A t \in Slots : ut_state'[t] = IF t = thr THEN "WAIT" ELSE ut_state[t]
      /\ \A t \in Slots : ctx'[t] = IF t = thr THEN "join" ELSE ctx[t]
      /\ \A t \in Slots : join_uid'[t] = IF t = thr THEN uid ELSE join_uid[t]
      /\ \A t \in Slots : join_born'[t] = IF t = thr THEN born[uid] ELSE join_born[t]
      /\ \A t \in Slots : ut_waiter'[t] = IF t = uid THEN thr ELSE ut_waiter[t]
  BY <1>1 DEF Block
<1>3. ASSUME NEW t \in Slots, ctx[t] = "join"
      PROVE  JoinOK(t) /\ join_uid[t] \in Slots \ {thr, uid}
  <2>1. JoinOK(t) /\ join_uid[t] \in Slots
    BY <1>3 DEF Ruly, JoinsOK, SafeForAnyClient, ContextInv
  <2> QED
    BY <2>1, ConstLemma DEF JoinOK
<1>4. SleepersOK'
  <2>1. \A t \in Slots : ut_state'[t] = "WAIT" =>
          (ut_state[t] = "WAIT" /\ ctx'[t] = ctx[t]) \/ ctx'[t] \in {"join", "reaper"}
    BY <1>2
  <2> QED
    BY <2>1, SleepersKept DEF Ruly, syncVars
<1>5. OwnersOK'
  BY <1>2, OwnersKept DEF Ruly, Dead, syncVars
<1>6. ASSUME NEW t \in Slots, ctx'[t] = "join"
      PROVE  JoinOK(t)'
  <2>1. CASE t = thr
    BY <1>2, <2>1 DEF JoinOK, Dead
  <2>2. CASE t # thr
    <3>1. ctx[t] = "join"
      BY <1>2, <1>6, <2>2
    <3> QED
      BY <1>2, <1>3, <2>2, <3>1 DEF JoinOK
  <2> QED
    BY <2>1, <2>2
<1>7. NoJoinCycle'
  <2> SUFFICES ASSUME NEW S \in (SUBSET Slots) \ {{}},
                      \A t \in S : ut_state'[t] = "WAIT" /\ ctx'[t] = "join" /\ join_uid'[t] \in S
               PROVE  FALSE
    BY DEF NoJoinCycle
  <2>1. ASSUME NEW t \in S, t # thr
        PROVE  ut_state[t] = "WAIT" /\ ctx[t] = "join" /\ join_uid[t] \in S \ {thr}
    BY <1>2, <1>3, <2>1
  <2>2. S \ {thr} # {}
    <3>1. PICK t \in S : TRUE
      OBVIOUS
    <3>2. CASE t = thr
      BY <1>2, <3>2
    <3>3. CASE t # thr
      BY <3>3
    <3> QED
      BY <3>2, <3>3
  <2>3. S \ {thr} \in (SUBSET Slots) \ {{}}
    BY <2>2
  <2>4. PICK t \in S \ {thr} :
          ~(ut_state[t] = "WAIT" /\ ctx[t] = "join" /\ join_uid[t] \in S \ {thr})
    BY <2>3 DEF Ruly, JoinsOK, NoJoinCycle
  <2> QED
    BY <2>1, <2>4
<1>8. \A t \in Slots : join_uid'[t] # NULL <=> ctx'[t] = "join"
  BY <1>2, ConstLemma DEF Ruly, JoinsOK
<1>9. JoinsOK'
  BY <1>6, <1>7, <1>8 DEF Ruly, JoinsOK
<1> QED
  BY <1>4, <1>5, <1>9 DEF Ruly

\* What uthread_join has checked when it goes on.
LEMMA JoinFacts ==
  ASSUME RulesKept, SafeForAnyClient, Ruly, NEW thr \in Slots, NEW uid \in Slots,
         Join(thr, uid)
  PROVE  /\ ut_state[thr] = "ON_CPU" /\ ctx[thr] = "user" /\ uid # thr
         /\ ut_waiter[thr] = NULL /\ ut_waiter[uid] = NULL
         /\ ut_state[uid] # "NO_STATE" /\ ~ut_detached[uid] /\ ~OnQueue(uid, reap_queue)
         /\ \A t \in Slots : ctx[t] = "join" => join_uid[t] # uid
<1>1. Running(thr, "user") /\ uid # thr /\ ut_waiter[uid] = NULL /\ JoinError(thr, uid) = "0"
  BY DEF Join, RulesKept, May
<1>2. ut_waiter[thr] = NULL /\ ~ut_detached[uid] /\ ut_state[uid] # "NO_STATE"
  BY <1>1 DEF JoinError, GoodId
<1>3. ~OnQueue(uid, reap_queue)
  BY <1>2 DEF SafeForAnyClient, ReapQueueExact
<1>4. \A t \in Slots : ctx[t] = "join" => join_uid[t] # uid
  BY <1>1, ConstLemma DEF Ruly, JoinsOK, JoinOK
<1> QED
  BY <1>1, <1>2, <1>3, <1>4, RunningFacts

\* uthread_join by a thread that nobody joins closes no cycle.
LEMMA JoinRuly ==
  ASSUME RulesKept, SafeForAnyClient, Ruly, NEW thr \in Slots, NEW uid \in Slots,
         Join(thr, uid), UNCHANGED syncVars
  PROVE  Ruly'
<1>1. /\ ut_waiter' = [ut_waiter EXCEPT ![uid] = thr]
      /\ UNCHANGED <<ut_has_exited, ut_exit, born>>
  BY DEF Join
<1>2. CASE ut_has_exited[uid]
  <2>1. JoinFinish(thr, uid)
    BY <1>2 DEF Join
  <2>2. \A t \in Slots \ {uid} : ut_waiter'[t] = ut_waiter[t]
    BY <1>1 DEF SafeForAnyClient, TypeOK, LifeTypeOK
  <2> QED
    BY <1>1, <2>1, <2>2, JoinFacts, JoinFinishRuly
<1>3. CASE ~ut_has_exited[uid]
  <2>1. /\ Block(thr, "join")
        /\ join_uid' = [join_uid EXCEPT ![thr] = uid]
        /\ join_born' = [join_born EXCEPT ![thr] = born[uid]]
        /\ UNCHANGED ut_detached
    BY <1>3 DEF Join
  <2>2. ut_state[uid] \notin Dead
    BY <1>3, JoinFacts DEF Dead, SafeForAnyClient, ContextInv
  <2> QED
    BY <1>1, <2>1, <2>2, JoinFacts, JoinBlockRuly
<1> QED
  BY <1>2, <1>3

\* A thread that wakes in uthread_join finds its thread dead, and not reaped.
LEMMA WokenFacts ==
  ASSUME SafeForAnyClient, Ruly, NEW thr \in Slots, JoinResume(thr)
  PROVE  \E uid \in Slots :
           /\ uid = join_uid[thr] /\ ut_state[thr] = "ON_CPU" /\ ctx[thr] = "join"
           /\ ut_has_exited[uid] /\ ut_exit[uid] = join_born[thr]
           /\ ~OnQueue(uid, reap_queue) /\ JoinFinish(thr, uid)
           /\ \A t \in Slots \ {thr} : ctx[t] = "join" => join_uid[t] # uid
<1>1. ut_state[thr] = "ON_CPU" /\ ctx[thr] = "join"
  BY RunningFacts DEF JoinResume
<1>2. PICK uid \in Slots : uid = join_uid[thr]
  BY <1>1 DEF SafeForAnyClient, ContextInv
<1>3. /\ ut_waiter[uid] = thr /\ ~ut_detached[uid] /\ born[uid] = join_born[thr]
      /\ ut_state[uid] = "ZOMBIE"
  BY <1>1, <1>2 DEF Ruly, JoinsOK, JoinOK
<1>4. ut_has_exited[uid] /\ ~OnQueue(uid, reap_queue)
  BY <1>3 DEF SafeForAnyClient, ContextInv, ReapQueueExact
<1>5. ut_exit[uid] = join_born[thr]
  BY <1>3, <1>4 DEF Ruly, JoinsOK
<1>6. JoinFinish(thr, uid)
  BY <1>2, <1>4 DEF JoinResume
<1>7. \A t \in Slots \ {thr} : ctx[t] = "join" => join_uid[t] # uid
  BY <1>3 DEF Ruly, JoinsOK, JoinOK
<1> QED
  BY <1>1, <1>2, <1>4, <1>5, <1>6, <1>7

\* A joiner that is woken finds the thread it waited for dead.
LEMMA JoinResumeRuly ==
  ASSUME SafeForAnyClient, Ruly, NEW thr \in Slots, JoinResume(thr), UNCHANGED syncVars
  PROVE  Ruly'
<1>1. PICK uid \in Slots :
        /\ uid = join_uid[thr] /\ ut_state[thr] = "ON_CPU" /\ ctx[thr] = "join"
        /\ ~OnQueue(uid, reap_queue) /\ JoinFinish(thr, uid)
        /\ \A t \in Slots \ {thr} : ctx[t] = "join" => join_uid[t] # uid
  BY WokenFacts
<1>2. UNCHANGED <<ut_waiter, ut_has_exited, ut_exit, born>>
  BY DEF JoinResume
<1> QED
  BY <1>1, <1>2, JoinFinishRuly

\* uthread_detach of a thread that nobody joins.
LEMMA DetachRuly ==
  ASSUME RulesKept, SafeForAnyClient, Ruly, NEW thr \in Slots, NEW uid \in Slots,
         Detach(thr, uid), UNCHANGED syncVars
  PROVE  Ruly'
<1>1. /\ ut_waiter[uid] = NULL
      /\ UNCHANGED <<ut_state, ctx, ut_has_exited, ut_exit, ut_waiter, join_uid, born, join_born>>
      /\ \A t \in Slots \ {uid} : ut_detached'[t] = ut_detached[t]
  <2>1. /\ ut_waiter[uid] = NULL
        /\ UNCHANGED <<ut_state, ctx, ut_has_exited, ut_exit, ut_waiter, join_uid, born, join_born>>
    BY DEF Detach, RulesKept, May
  <2>2. \A t \in Slots \ {uid} : ut_detached'[t] = ut_detached[t]
    BY DEF Detach, SafeForAnyClient, TypeOK, LifeTypeOK
  <2> QED
    BY <2>1, <2>2
<1>2. SleepersOK' /\ OwnersOK'
  BY <1>1, SleepersKept, OwnersKept DEF Ruly, syncVars
<1>3. ASSUME NEW t \in Slots, ctx[t] = "join"
      PROVE  JoinOK(t)'
  <2>1. JoinOK(t) /\ join_uid[t] \in Slots
    BY <1>3 DEF Ruly, JoinsOK, SafeForAnyClient, ContextInv
  <2>2. join_uid[t] # uid
    BY <1>1, <2>1, ConstLemma DEF JoinOK
  <2> QED
    BY <1>1, <2>1, <2>2 DEF JoinOK
<1>4. NoJoinCycle'
  BY <1>1, CyclesKept DEF Ruly, JoinsOK
<1>5. JoinsOK'
  BY <1>1, <1>3, <1>4 DEF Ruly, JoinsOK
<1> QED
  BY <1>2, <1>5 DEF Ruly

\* The reaper goes to sleep.
LEMMA ReaperBlockRuly ==
  ASSUME SafeForAnyClient, Ruly, Block(reaper_thr_id, "reaper"),
         ut_state[reaper_thr_id] = "ON_CPU", UNCHANGED <<lifeVars, syncVars>>
  PROVE  Ruly'
<1>1. /\ ut_state \in [Slots -> States] /\ ctx \in [Slots -> Contexts]
      /\ ctx[reaper_thr_id] \in {"reaper_start", "reaper"} /\ reaper_thr_id \in Slots
  BY ConstLemma DEF SafeForAnyClient, TypeOK, SchedTypeOK, ContextInv
<1>2. /\ \A t \in Slots : ut_state'[t] = IF t = reaper_thr_id THEN "WAIT" ELSE ut_state[t]
      /\ \A t \in Slots : ctx'[t] = IF t = reaper_thr_id THEN "reaper" ELSE ctx[t]
  BY <1>1 DEF Block
<1>3. SleepersOK'
  <2>1. \A t \in Slots : ut_state'[t] = "WAIT" =>
          (ut_state[t] = "WAIT" /\ ctx'[t] = ctx[t]) \/ ctx'[t] \in {"join", "reaper"}
    BY <1>2
  <2> QED
    BY <2>1, SleepersKept DEF Ruly, syncVars
<1>4. OwnersOK'
  BY <1>1, <1>2, OwnersKept DEF Ruly, Dead, syncVars
<1>5. JoinsOK'
  BY <1>1, <1>2, SyncJoins DEF Ruly
<1> QED
  BY <1>3, <1>4, <1>5 DEF Ruly

\* The steps of the threads' life cycle keep Ruly.
LEMMA LifeStepRuly ==
  ASSUME RulesKept, SafeForAnyClient, Ruly, LifeStep
  PROVE  Ruly'
<1>1. CASE \E thr \in Slots : ExitThread(thr)
  BY <1>1, ExitRuly
<1>2. CASE UNCHANGED syncVars
  <2>1. ASSUME NEW thr \in Slots, NEW uid \in Slots, NEW prio \in Prios, Create(thr, uid, prio)
        PROVE  Ruly'
    BY <1>2, <2>1, CreateRuly
  <2>2. ASSUME NEW thr \in Slots, CreateFull(thr) \/ CreateFailed(thr) \/ RunNoContext(thr)
        PROVE  Ruly'
    BY <1>2, <2>2, QuietRuly DEF CreateFull, CreateFailed, RunNoContext, schedVars
  <2>3. ASSUME NEW thr \in Slots, NEW uid \in Slots, CreateBadPrio(thr, uid)
        PROVE  Ruly'
    BY <1>2, <2>3, CreateBadPrioRuly
  <2>4. ASSUME NEW thr \in Slots, NEW uid, JoinRefused(thr, uid) \/ DetachRefused(thr, uid)
        PROVE  Ruly'
    BY <1>2, <2>4, QuietRuly DEF JoinRefused, DetachRefused
  <2>5. ASSUME NEW thr \in Slots, NEW uid \in Slots, Join(thr, uid)
        PROVE  Ruly'
    BY <1>2, <2>5, JoinRuly
  <2>6. ASSUME NEW thr \in Slots, JoinResume(thr)
        PROVE  Ruly'
    BY <1>2, <2>6, JoinResumeRuly
  <2>7. ASSUME NEW thr \in Slots, NEW uid \in Slots, Detach(thr, uid)
        PROVE  Ruly'
    BY <1>2, <2>7, DetachRuly
  <2>8. CASE ReaperStart
    BY <1>2, <2>8, ConstLemma, RunningFacts, ReaperBlockRuly DEF ReaperStart
  <2>9. CASE Reap
    BY <1>2, <2>9, ReapRuly
  <2>10. CASE ReaperRest
    <3>1. ut_state[reaper_thr_id] = "ON_CPU" /\ UNCHANGED lifeVars
      BY <2>10, ConstLemma, RunningFacts DEF ReaperRest
    <3>2. CASE Block(reaper_thr_id, "reaper")
      BY <1>2, <3>1, <3>2, ReaperBlockRuly
    <3>3. CASE UNCHANGED <<ut_state, ctx>>
      BY <1>2, <3>1, <3>3, QuietRuly
    <3> QED
      BY <2>10, <3>2, <3>3 DEF ReaperRest
  <2> QED
    BY <2>1, <2>2, <2>3, <2>4, <2>5, <2>6, <2>7, <2>8, <2>9, <2>10, <1>1 DEF LifeStep
<1> QED
  BY <1>1, <1>2 DEF LifeStep

\* Nobody sleeps, owns or joins at the start.
LEMMA InitRuly == Init => Ruly
<1> SUFFICES ASSUME Init PROVE Ruly
  OBVIOUS
<1>1. /\ \A t \in Slots : ut_state[t] \in {"RUNNABLE", "NO_STATE"}
      /\ \A t \in Slots : ctx[t] \in {"reaper_start", "user"}
      /\ \A t \in Slots : join_uid[t] = NULL /\ ut_has_exited[t] = FALSE
      /\ \A t \in Slots : holding[t] = {}
      /\ \A m \in Mutexes : m_owner[m] = NULL
  BY DEF Init, SchedInit, LifeInit, SyncInit
<1>2. SleepersOK /\ OwnersOK
  BY <1>1 DEF SleepersOK, OwnersOK
<1>3. NoJoinCycle
  BY <1>1 DEF NoJoinCycle
<1> QED
  BY <1>1, <1>2, <1>3 DEF Ruly, JoinsOK

\* Every step keeps Ruly.
LEMMA NextRuly ==
  ASSUME RulesKept, SafeForAnyClient, Ruly, [Next]_vars
  PROVE  Ruly'
<1>1. CASE SchedStep
  BY <1>1, SchedStepRuly
<1>2. CASE LifeStep
  BY <1>2, LifeStepRuly
<1>3. CASE SyncStep
  BY <1>3, SyncStepRuly
<1>4. CASE UNCHANGED vars
  BY <1>4, QuietRuly DEF vars, schedVars
<1> QED
  BY <1>1, <1>2, <1>3, <1>4 DEF Next

\* What the invariant says of the sleepers.
LEMMA RulyImpliesWaker ==
  ASSUME SafeForAnyClient, Ruly
  PROVE  WaitHasWaker
<1> SUFFICES ASSUME NEW t \in Slots, ut_state[t] = "WAIT"
             PROVE  \/ /\ ctx[t] = "mtx"
                       /\ OnQueue(t, m_waiters[on_mtx[t]])
                       /\ m_owner[on_mtx[t]] \notin {t, NULL}
                       /\ ut_state[m_owner[on_mtx[t]]] \notin {"NO_STATE", "ZOMBIE"}
                    \/ ctx[t] = "cond" /\ OnQueue(t, uc_waiters[on_cond[t]])
                    \/ /\ ctx[t] = "join"
                       /\ ut_waiter[join_uid[t]] = t
                       /\ ut_state[join_uid[t]] \notin {"NO_STATE", "ZOMBIE"}
                       /\ ~ut_detached[join_uid[t]]
                    \/ ctx[t] = "reaper" /\ t = reaper_thr_id /\ reap_queue = << >>
  BY DEF WaitHasWaker
<1>1. CASE ctx[t] = "mtx"
  <2>1. on_mtx[t] \in Mutexes /\ OnQueue(t, m_waiters[on_mtx[t]])
    BY <1>1 DEF SafeForAnyClient, ContextInv, Ruly, SleepersOK
  <2>2. m_owner[on_mtx[t]] # t
    BY <2>1 DEF SafeForAnyClient, WaitQueuesExact
  <2>3. m_owner[on_mtx[t]] # NULL
    BY <2>1, EmptyLemma DEF SafeForAnyClient, NoWaiterOnFreeMutex, utqueue_empty
  <2>4. m_owner[on_mtx[t]] \in Slots
    BY <2>1, <2>3 DEF SafeForAnyClient, TypeOK, SyncTypeOK
  <2>5. holding[m_owner[on_mtx[t]]] # {} \/ ctx[m_owner[on_mtx[t]]] = "mtx"
    BY <2>1, <2>3 DEF Ruly, OwnersOK
  <2>6. ut_state[m_owner[on_mtx[t]]] \notin {"NO_STATE", "ZOMBIE"}
    BY <2>4, <2>5 DEF Ruly, OwnersOK, Dead, SafeForAnyClient, ContextInv
  <2> QED
    BY <1>1, <2>1, <2>2, <2>3, <2>6
<1>2. CASE ctx[t] = "cond"
  BY <1>2 DEF Ruly, SleepersOK
<1>3. CASE ctx[t] = "join"
  BY <1>3 DEF Ruly, JoinsOK, JoinOK
<1>4. CASE ctx[t] = "reaper"
  BY <1>4 DEF SafeForAnyClient, ContextInv, ReaperAwake
<1> QED
  BY <1>1, <1>2, <1>3, <1>4 DEF Ruly, SleepersOK

\* No wake-up is lost: whoever sleeps is known to the one that has to wake it,
\* and that one is alive (uthread_mtx_unlock, uthread_cond_signal, uthread_exit
\* and make_reapable wake the thread that their queue or ut_waiter names).
THEOREM SleepersAreKnown ==
  ASSUME RulesKept
  PROVE  Spec => []WaitHasWaker
<1>1. SafeForAnyClient /\ Ruly => WaitHasWaker
  BY RulyImpliesWaker
<1>2. SafeForAnyClient /\ Ruly /\ [Next]_vars => Ruly'
  BY NextRuly
<1>3. SafeForAnyClient /\ [Next]_vars => SafeForAnyClient'
  BY NextSafe
<1> QED
  BY <1>1, <1>2, <1>3, InitSafe, InitRuly, PTL DEF Spec

\* No group of threads waits in uthread_join for one another, however many
\* threads there are: the test of the caller's own ut_waiter is enough.
THEOREM JoinsNeverCycle ==
  ASSUME RulesKept
  PROVE  Spec => []NoJoinCycle
<1>1. Ruly => NoJoinCycle
  BY DEF Ruly, JoinsOK
<1>2. SafeForAnyClient /\ Ruly /\ [Next]_vars => Ruly'
  BY NextRuly
<1>3. SafeForAnyClient /\ [Next]_vars => SafeForAnyClient'
  BY NextSafe
<1> QED
  BY <1>1, <1>2, <1>3, InitSafe, InitRuly, PTL DEF Spec

\* Steps other than those of uthread_join neither begin nor end one.
LEMMA JoinArguments ==
  ASSUME SafeForAnyClient, [Next]_vars,
         ~\E thr \in Slots : JoinResume(thr) \/ \E uid \in Slots : Join(thr, uid)
  PROVE  UNCHANGED join_uid /\ \A uid \in Slots : ut_waiter'[uid] \in {ut_waiter[uid], NULL}
<1>1. ut_waiter \in [Slots -> Slots \cup {NULL}]
  BY DEF SafeForAnyClient, TypeOK, LifeTypeOK
<1>2. CASE SchedStep \/ SyncStep \/ UNCHANGED vars
  BY <1>2 DEF SchedStep, SyncStep, vars, lifeVars
<1>3. CASE LifeStep
  <2>1. ASSUME NEW uid \in Slots, ClearSlot(uid)
        PROVE  \A t \in Slots : ut_waiter'[t] \in {ut_waiter[t], NULL}
    BY <1>1, <2>1 DEF ClearSlot
  <2>2. CASE \E thr \in Slots : ExitThread(thr)
    BY <2>2 DEF ExitThread, Exit
  <2>3. ASSUME NEW thr \in Slots, NEW uid \in Slots,
               CreateBadPrio(thr, uid) \/ \E prio \in Prios : Create(thr, uid, prio)
        PROVE  UNCHANGED join_uid /\ ClearSlot(uid)
    BY <2>3 DEF CreateBadPrio, Create
  <2>4. ASSUME NEW thr \in Slots, CreateFull(thr) \/ CreateFailed(thr) \/ RunNoContext(thr)
        PROVE  UNCHANGED lifeVars
    BY <2>4 DEF CreateFull, CreateFailed, RunNoContext
  <2>5. ASSUME NEW thr \in Slots, NEW uid, JoinRefused(thr, uid) \/ DetachRefused(thr, uid)
        PROVE  UNCHANGED lifeVars
    BY <2>5 DEF JoinRefused, DetachRefused
  <2>6. ASSUME NEW thr \in Slots, NEW uid \in Slots, Detach(thr, uid)
        PROVE  UNCHANGED <<join_uid, ut_waiter>>
    BY <2>6 DEF Detach
  <2>7. ReaperStart \/ ReaperRest => UNCHANGED lifeVars
    BY DEF ReaperStart, ReaperRest
  <2>8. ASSUME Reap
        PROVE  \E uid \in Slots : UNCHANGED join_uid /\ ClearSlot(uid)
    <3>1. list_head(reap_queue) \in Slots
      BY <2>8, ListRemoveLemma DEF Reap, SafeForAnyClient, TypeOK, LifeTypeOK, ReapQueueExact
    <3> QED
      BY <2>8, <3>1 DEF Reap
  <2> QED
    BY <1>3, <2>1, <2>2, <2>3, <2>4, <2>5, <2>6, <2>7, <2>8 DEF LifeStep, lifeVars
<1> QED
  BY <1>2, <1>3 DEF Next

\* The statement of JoinReturnsItsThread for one step.
JoinStepOK ==
  /\ \A t \in Slots : join_uid[t] # NULL /\ join_uid'[t] = NULL
       => ut_exit[join_uid[t]] = join_born[t]
  /\ \A t, uid \in Slots :
       Running(t, "user") /\ ut_waiter[uid] # t /\ ut_waiter'[uid] = t /\ join_uid'[t] = NULL
       => ut_exit[uid] = born[uid]

\* A step that ends a join, at once or after a block, ends it with its thread's status.
LEMMA StepJoins ==
  ASSUME RulesKept, SafeForAnyClient, Ruly, [Next]_vars
  PROVE  JoinStepOK
<1>1. /\ ut_waiter \in [Slots -> Slots \cup {NULL}]
      /\ join_uid \in [Slots -> Slots \cup {NULL}]
  BY DEF SafeForAnyClient, TypeOK, LifeTypeOK
<1>2. ASSUME NEW thr \in Slots, JoinResume(thr)
      PROVE  JoinStepOK
  <2>1. PICK uid \in Slots :
          /\ uid = join_uid[thr] /\ ut_exit[uid] = join_born[thr]
          /\ ~OnQueue(uid, reap_queue) /\ JoinFinish(thr, uid)
    BY <1>2, WokenFacts
  <2>2. join_uid' = [join_uid EXCEPT ![thr] = NULL] /\ UNCHANGED ut_waiter
    BY <1>2, <2>1 DEF JoinResume, JoinFinish
  <2> QED
    BY <1>1, <2>1, <2>2 DEF JoinStepOK
<1>3. ASSUME NEW thr \in Slots, NEW uid \in Slots, Join(thr, uid)
      PROVE  JoinStepOK
  <2>1. join_uid[thr] = NULL
    BY <1>3, JoinFacts DEF Ruly, JoinsOK
  <2>2. ut_waiter' = [ut_waiter EXCEPT ![uid] = thr]
    BY <1>3 DEF Join
  <2>3. CASE ut_has_exited[uid]
    <3>1. join_uid' = [join_uid EXCEPT ![thr] = NULL]
      BY <1>3, <2>3, JoinFacts DEF Join, JoinFinish
    <3>2. ut_exit[uid] = born[uid]
      BY <2>3 DEF Ruly, JoinsOK
    <3> QED
      BY <1>1, <2>1, <2>2, <3>1, <3>2 DEF JoinStepOK
  <2>4. CASE ~ut_has_exited[uid]
    <3>1. join_uid' = [join_uid EXCEPT ![thr] = uid]
      BY <1>3, <2>4 DEF Join
    <3> QED
      BY <1>1, <2>1, <2>2, <3>1, ConstLemma DEF JoinStepOK
  <2> QED
    BY <2>3, <2>4
<1>4. CASE ~\E thr \in Slots : JoinResume(thr) \/ \E uid \in Slots : Join(thr, uid)
  BY <1>4, JoinArguments, ConstLemma DEF JoinStepOK
<1> QED
  BY <1>2, <1>3, <1>4

\* uthread_join returns the exit status of the thread that it was called for,
\* not that of another thread in its slot, for any size of the table.
THEOREM JoinsReturnTheirThread ==
  ASSUME RulesKept
  PROVE  Spec => JoinReturnsItsThread
<1>1. SafeForAnyClient /\ Ruly /\ [Next]_vars => Ruly'
  BY NextRuly
<1>2. SafeForAnyClient /\ [Next]_vars => SafeForAnyClient'
  BY NextSafe
<1>3. SafeForAnyClient /\ Ruly /\ [Next]_vars =>
        [/\ \A t \in Slots : join_uid[t] # NULL /\ join_uid'[t] = NULL
              => ut_exit[join_uid[t]] = join_born[t]
         /\ \A t, uid \in Slots :
              Running(t, "user") /\ ut_waiter[uid] # t /\ ut_waiter'[uid] = t /\ join_uid'[t] = NULL
              => ut_exit[uid] = born[uid]]_vars
  BY StepJoins DEF JoinStepOK
<1> QED
  BY <1>1, <1>2, <1>3, InitSafe, InitRuly, PTL DEF Spec, JoinReturnsItsThread
=============================================================================
