----------------------------- MODULE FifoLocks -----------------------------
(* What mutexes promise, without a scheduler: a lock has one owner, threads  *)
(* that find it taken are served in the order in which they asked, and the   *)
(* owner that leaves hands the lock to the first of them.  A thread that     *)
(* takes a lock without waiting may do so only while nobody owns it.         *)
EXTENDS Integers, Sequences

CONSTANTS Thread, Mutex, Nobody

VARIABLES owner,   \* the owner of each lock, or Nobody
          queue,   \* the threads that wait for each lock, in order
          inside   \* for each thread, the locks it has been let into

lockVars == <<owner, queue, inside>>

LockInit ==
  /\ owner = [l \in Mutex |-> Nobody]
  /\ queue = [l \in Mutex |-> << >>]
  /\ inside = [t \in Thread |-> {}]

Waits(t, l) == \E i \in 1..Len(queue[l]) : queue[l][i] = t

\* A free lock is taken at once.
Take(t, l) ==
  /\ owner[l] = Nobody
  /\ queue[l] = << >>
  /\ owner' = [owner EXCEPT ![l] = t]
  /\ inside' = [inside EXCEPT ![t] = @ \cup {l}]
  /\ UNCHANGED queue

\* A thread waits for a lock of another thread, and for one lock at a time.
Enqueue(t, l) ==
  /\ owner[l] \notin {Nobody, t}
  /\ \A k \in Mutex : ~Waits(t, k)
  /\ queue' = [queue EXCEPT ![l] = Append(@, t)]
  /\ UNCHANGED <<owner, inside>>

\* The owner leaves: the first waiter owns the lock, or nobody does.
Leave(t, l) ==
  /\ owner[l] = t
  /\ inside' = [inside EXCEPT ![t] = @ \ {l}]
  /\ \/ /\ queue[l] = << >>
        /\ owner' = [owner EXCEPT ![l] = Nobody]
        /\ UNCHANGED queue
     \/ /\ queue[l] # << >>
        /\ owner' = [owner EXCEPT ![l] = Head(queue[l])]
        /\ queue' = [queue EXCEPT ![l] = Tail(@)]

\* A waiter that became the owner is let in.
Enter(t, l) ==
  /\ owner[l] = t
  /\ inside' = [inside EXCEPT ![t] = @ \cup {l}]
  /\ UNCHANGED <<owner, queue>>

\* A thread ends inside its locks, which keep their owner.
Die(t) ==
  /\ inside' = [inside EXCEPT ![t] = {}]
  /\ UNCHANGED <<owner, queue>>

LockNext ==
  \E t \in Thread :
    \/ \E l \in Mutex : Take(t, l) \/ Enqueue(t, l) \/ Leave(t, l) \/ Enter(t, l)
    \/ Die(t)

LockSpec == LockInit /\ [][LockNext]_lockVars
=============================================================================
