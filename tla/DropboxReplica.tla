---------------------------- MODULE DropboxReplica ----------------------------
(***************************************************************************)
(* What the file server promises about an account's files: users make      *)
(* versions of a file, and the copy on the server only ever moves on to a  *)
(* newer one, never back, as long as synchronisation is in order.          *)
(***************************************************************************)
EXTENDS Naturals

CONSTANT Files

VARIABLES newest,   \* versions that users made of each file so far
          stored,   \* the version on the server, 0 before the first
          ordered   \* has nothing gone wrong yet?

Init == /\ newest = [f \in Files |-> 0] /\ stored = [f \in Files |-> 0]
        /\ ordered = TRUE

Make(f) == newest' = [newest EXCEPT ![f] = @ + 1] /\ UNCHANGED stored

Store(f) ==
  /\ \E v \in stored[f] + 1 .. newest[f] : stored' = [stored EXCEPT ![f] = v]
  /\ UNCHANGED newest

\* A deleted directory takes all its files along.
StoreAll(fs) ==
  /\ stored' \in [Files -> Nat]
  /\ \A f \in Files \ fs : stored'[f] = stored[f]
  /\ \A f \in fs : stored'[f] > stored[f] /\ stored'[f] <= newest[f]
  /\ UNCHANGED newest

InOrder == /\ ordered /\ UNCHANGED ordered
           /\ \/ \E f \in Files : Make(f) \/ Store(f)
              \/ \E fs \in SUBSET Files : StoreAll(fs)

\* It goes out of order for good; nothing is promised from then on.
Lapse == /\ ordered' = FALSE
         /\ newest' \in [Files -> Nat] /\ stored' \in [Files -> Nat]

Next == InOrder \/ Lapse

Spec == Init /\ [][Next]_<<newest, stored, ordered>>
=============================================================================
