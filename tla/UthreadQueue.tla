---------------------------- MODULE UthreadQueue ----------------------------
(* The thread queues of uthread_queue.c, which hold the scheduler's runnable *)
(* threads and the waiters of every mutex and condition variable.            *)
(*                                                                           *)
(* The C queue is a circular doubly linked list: a thread is inserted at the *)
(* head and taken from the tail.  A queue is written here in the order in    *)
(* which it is served: Head(q) is the tail of the C list.  A thread has one  *)
(* link (ut_link), so it can be on one list at a time.                       *)
EXTENDS Integers, Sequences

\* list.h, as the reaper uses it: insertion at the tail, removal at the head.
list_insert_tail(list, thr) == Append(list, thr)
list_head(list) == Head(list)
list_remove_head(list) == Tail(list)

utqueue_init == << >>

utqueue_empty(q) == q = << >>

\* Mutant: the thread is put at the end that is served next.
MutantEnqueueAtTail(q, thr) == <<thr>> \o q

utqueue_enqueue(q, thr) == Append(q, thr)

\* The thread utqueue_dequeue returns, and the queue it leaves.
utqueue_first(q) == Head(q)
utqueue_dequeue(q) == Tail(q)

\* list_remove of the link of a thread that is on q.
utqueue_remove(q, thr) ==
  LET pos == CHOOSE i \in 1..Len(q) : q[i] = thr
  IN  [i \in 1..(Len(q) - 1) |-> IF i < pos THEN q[i] ELSE q[i + 1]]

\* The same operations on queue k of a table of queues.
EnqueueOn(qs, k, thr) == [qs EXCEPT ![k] = utqueue_enqueue(@, thr)]
DequeueFrom(qs, k) == [qs EXCEPT ![k] = utqueue_dequeue(@)]
RemoveFrom(qs, k, thr) == [qs EXCEPT ![k] = utqueue_remove(@, thr)]

\* thr is on q: its link is not NULL.
OnQueue(thr, q) == \E i \in 1..Len(q) : q[i] = thr

\* No thread is on q twice.
Distinct(q) == \A i, j \in 1..Len(q) : q[i] = q[j] => i = j
=============================================================================
