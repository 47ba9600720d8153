------------------------- MODULE SnowcastServerProof -------------------------
(* Proofs about the threads of snowcast_server.c, and about the linked lists *)
(* they share: what a walk over the listeners of a station visits, and what  *)
(* the operations on g_station_list and on a list of listeners do to it.     *)
EXTENDS SnowcastServer, LeastNumbers, FiniteSetTheorems, SequenceTheorems, TLAPS

-----------------------------------------------------------------------------
(* The linked lists.                                                         *)

\* The table of clients has finitely many entries.
LEMMA SlotsFinite == Cardinality(Slots) \in Nat /\ NULL \notin Slots /\ NULL \notin Stations
  BY ListsAssumption, FS_CardinalityType

\* Walk satisfies the equation it is defined by, and visits clients only.
LEMMA WalkEquation ==
  ASSUME ListsTypeOK, NEW s \in Stations
  PROVE  /\ Walk(s) \in [0..Cardinality(Slots) -> Slots \cup {NULL}]
         /\ Walk(s)[0] = head_clients[s]
         /\ \A n \in 1..Cardinality(Slots) :
              Walk(s)[n] = IF Walk(s)[n - 1] = NULL THEN NULL ELSE next_client[Walk(s)[n - 1]]
<1> DEFINE max == Cardinality(Slots)
           Good(f, k) == f = [n \in 0..k |->
                                IF n = 0 THEN head_clients[s]
                                ELSE IF f[n - 1] = NULL THEN NULL ELSE next_client[f[n - 1]]]
           bad == {k \in Nat : ~ \E f : Good(f, k)}
<1>1. bad = {}
  <2> SUFFICES ASSUME bad # {} PROVE FALSE
    OBVIOUS
  <2>1. PICK k \in bad : \A m \in bad : k <= m
    BY LeastNumber
  <2>2. k # 0
    <3>1. Good([n \in 0..0 |-> head_clients[s]], 0)
      OBVIOUS
    <3> QED
      BY <2>1, <3>1
  <2>3. PICK f : Good(f, k - 1)
    BY <2>1, <2>2
  <2> DEFINE last == IF f[k - 1] = NULL THEN NULL ELSE next_client[f[k - 1]]
             g == [n \in 0..k |-> IF n = k THEN last ELSE f[n]]
  <2>4. Good(g, k)
    <3>1. k \in Nat /\ k # 0
      BY <2>1, <2>2
    <3>2. \A n \in 0..(k - 1) : g[n] = f[n]
      BY <3>1
    <3>3. g[k] = last
      BY <3>1
    <3>4. ASSUME NEW n \in 0..k
          PROVE  g[n] = IF n = 0 THEN head_clients[s]
                        ELSE IF g[n - 1] = NULL THEN NULL ELSE next_client[g[n - 1]]
      <4> HIDE DEF g
      <4>1. CASE n = k
        <5>1. k - 1 \in 0..(k - 1)
          BY <3>1
        <5>2. g[k - 1] = f[k - 1]
          BY <3>2, <5>1
        <5> QED
          BY <3>1, <3>3, <4>1, <5>2
      <4>2. CASE n # k
        <5>1. n \in 0..(k - 1)
          BY <3>1, <4>2
        <5>2. f[n] = IF n = 0 THEN head_clients[s]
                     ELSE IF f[n - 1] = NULL THEN NULL ELSE next_client[f[n - 1]]
          BY <2>3, <5>1
        <5>3. n # 0 => n - 1 \in 0..(k - 1)
          BY <3>1, <5>1
        <5> QED
          BY <3>2, <5>1, <5>2, <5>3
      <4> QED
        BY <4>1, <4>2
    <3> QED
      BY <3>4, Zenon
  <2> QED
    BY <2>1, <2>4
<1>2. \E f : Good(f, max)
  BY <1>1, SlotsFinite
<1>3. Good(Walk(s), max)
  BY <1>2 DEF Walk
<1>4. /\ Walk(s)[0] = head_clients[s]
      /\ \A n \in 1..max :
           Walk(s)[n] = IF Walk(s)[n - 1] = NULL THEN NULL ELSE next_client[Walk(s)[n - 1]]
      /\ DOMAIN Walk(s) = 0..max
      /\ Walk(s) = [n \in 0..max |-> Walk(s)[n]]
  BY <1>3, SlotsFinite
<1> DEFINE odd == {n \in 0..max : Walk(s)[n] \notin Slots \cup {NULL}}
<1>5. odd = {}
  <2> SUFFICES ASSUME odd # {} PROVE FALSE
    OBVIOUS
  <2>1. odd \in SUBSET Nat
    BY SlotsFinite
  <2>2. PICK k \in odd : \A m \in odd : k <= m
    BY <2>1, LeastNumber
  <2>3. k # 0
    BY <1>4, <2>2 DEF ListsTypeOK
  <2>4. k - 1 \in 0..max /\ Walk(s)[k - 1] \in Slots \cup {NULL}
    BY <2>2, <2>3, SlotsFinite
  <2>5. k \in 1..max
    BY <2>2, <2>3, SlotsFinite
  <2>6. Walk(s)[k] = IF Walk(s)[k - 1] = NULL THEN NULL ELSE next_client[Walk(s)[k - 1]]
    BY <1>4, <2>5
  <2>7. Walk(s)[k] \in Slots \cup {NULL}
    BY <2>4, <2>6 DEF ListsTypeOK
  <2> QED
    BY <2>2, <2>7
<1> QED
  BY <1>4, <1>5

\* remove_client_from_station finds a client or none, and the listeners that a
\* walk reaches are clients.
LEMMA WalkTypes ==
  ASSUME ListsTypeOK, NEW s \in Stations, NEW c
  PROVE  /\ Before(s, c) \in Slots \cup {NULL}
         /\ Reached(s) \subseteq Slots
<1> DEFINE at == {n \in 0..Cardinality(Slots) :
                    Walk(s)[n] # NULL /\ next_client[Walk(s)[n]] = c}
<1>1. at # {} => (CHOOSE n \in at : \A m \in at : n <= m) \in at
  <2>1. at \in SUBSET Nat
    BY SlotsFinite
  <2> QED
    BY <2>1, LeastNumber
<1>2. Before(s, c) \in Slots \cup {NULL}
  BY <1>1, WalkEquation, Zenon DEF Before
<1>3. Reached(s) \subseteq Slots
  <2>1. \A n \in 0..Cardinality(Slots) : Walk(s)[n] \in Slots \cup {NULL}
    BY WalkEquation
  <2> QED
    BY <2>1 DEF Reached
<1> QED
  BY <1>2, <1>3

-----------------------------------------------------------------------------
(* Lists of listeners.                                                       *)

\* The list of station s consists of the n clients q[1] to q[n], each once,
\* linked in this order.
Chain(s, n, q) ==
  /\ \A i, j \in 1..n : q[i] = q[j] => i = j
  /\ head_clients[s] = IF n = 0 THEN NULL ELSE q[1]
  /\ tail_clients[s] = IF n = 0 THEN NULL ELSE q[n]
  /\ \A i \in 1..n : next_client[q[i]] = IF i = n THEN NULL ELSE q[i + 1]

\* A list of distinct clients is not longer than the table of clients.
LEMMA ChainFits ==
  ASSUME NEW n \in Nat, NEW q \in [1..n -> Slots],
         \A i, j \in 1..n : q[i] = q[j] => i = j
  PROVE  n <= Cardinality(Slots)
<1>1. q \in Injection(1..n, Slots)
  BY DEF Injection, IsInjective
<1>2. Cardinality(1..n) <= Cardinality(Slots)
  BY <1>1, FS_Injection, ListsAssumption
<1>3. Cardinality(1..n) = n
  BY FS_Interval
<1> QED
  BY <1>2, <1>3

\* A walk over such a list visits its clients in order and then ends.
LEMMA ChainWalk ==
  ASSUME ListsTypeOK, NEW s \in Stations, NEW n \in Nat, NEW q \in [1..n -> Slots],
         Chain(s, n, q)
  PROVE  /\ \A k \in 0..Cardinality(Slots) : Walk(s)[k] = IF k < n THEN q[k + 1] ELSE NULL
         /\ Reached(s) = {q[i] : i \in 1..n}
         /\ ~Cyclic(s)
<1> DEFINE max == Cardinality(Slots)
           odd == {k \in 0..max : Walk(s)[k] # IF k < n THEN q[k + 1] ELSE NULL}
<1>1. n <= max /\ max \in Nat
  BY ChainFits, SlotsFinite DEF Chain
<1>2. odd = {}
  <2> SUFFICES ASSUME odd # {} PROVE FALSE
    OBVIOUS
  <2>1. odd \in SUBSET Nat
    BY <1>1
  <2>2. PICK k \in odd : \A m \in odd : k <= m
    BY <2>1, LeastNumber
  <2>3. k # 0
    BY <1>1, <2>2, WalkEquation DEF Chain
  <2>4. k \in 1..max /\ k - 1 \in 0..max /\ k - 1 \notin odd
    BY <1>1, <2>2, <2>3
  <2>5. Walk(s)[k - 1] = IF k - 1 < n THEN q[k] ELSE NULL
    BY <2>4
  <2>6. Walk(s)[k] = IF Walk(s)[k - 1] = NULL THEN NULL ELSE next_client[Walk(s)[k - 1]]
    BY <2>4, WalkEquation
  <2>7. Walk(s)[k] = IF k < n THEN q[k + 1] ELSE NULL
    <3>1. CASE k - 1 < n
      <4>1. k \in 1..n /\ q[k] \in Slots
        BY <2>4, <3>1
      <4> QED
        BY <2>5, <2>6, <3>1, <4>1, SlotsFinite DEF Chain
    <3>2. CASE ~(k - 1 < n)
      BY <2>4, <2>5, <2>6, <3>2
    <3> QED
      BY <3>1, <3>2
  <2> QED
    BY <2>2, <2>7
<1>3. \A k \in 0..max : Walk(s)[k] = IF k < n THEN q[k + 1] ELSE NULL
  BY <1>2
<1>4. Reached(s) = {q[i] : i \in 1..n}
  <2>1. ASSUME NEW c \in Reached(s) PROVE c \in {q[i] : i \in 1..n}
    <3>1. PICK k \in 0..max : Walk(s)[k] = c /\ c # NULL
      BY <2>1 DEF Reached
    <3>2. k + 1 \in 1..n /\ c = q[k + 1]
      BY <1>1, <1>3, <3>1
    <3> QED
      BY <3>2
  <2>2. ASSUME NEW i \in 1..n PROVE q[i] \in Reached(s)
    <3>1. i - 1 \in 0..max /\ Walk(s)[i - 1] = q[i] /\ q[i] \in Slots
      BY <1>1, <1>3
    <3> QED
      BY <3>1, SlotsFinite DEF Reached
  <2> QED
    BY <2>1, <2>2
<1>5. ~Cyclic(s)
  BY <1>1, <1>3 DEF Cyclic
<1> QED
  BY <1>3, <1>4, <1>5

\* remove_client_from_station finds the client in front of the one it looks
\* for.
LEMMA ChainBefore ==
  ASSUME ListsTypeOK, NEW s \in Stations, NEW n \in Nat, NEW q \in [1..n -> Slots],
         Chain(s, n, q), NEW i \in 2..n
  PROVE  Before(s, q[i]) = q[i - 1]
<1> DEFINE max == Cardinality(Slots)
           at == {k \in 0..max : Walk(s)[k] # NULL /\ next_client[Walk(s)[k]] = q[i]}
<1>1. n <= max /\ max \in Nat
  BY ChainFits, SlotsFinite DEF Chain
<1>2. i - 2 \in at
  <2>1. i - 2 \in 0..max /\ Walk(s)[i - 2] = q[i - 1] /\ i - 1 \in 1..n
    BY <1>1, ChainWalk
  <2>2. q[i - 1] # NULL /\ next_client[q[i - 1]] = q[i]
    BY <2>1, SlotsFinite DEF Chain
  <2> QED
    BY <2>1, <2>2
<1>3. ASSUME NEW k \in at PROVE k = i - 2
  <2>1. k < n /\ Walk(s)[k] = q[k + 1] /\ k + 1 \in 1..n
    BY <1>1, ChainWalk
  <2>2. next_client[q[k + 1]] = q[i]
    BY <2>1
  <2>3. q[i] \in Slots /\ i \in 1..n
    OBVIOUS
  <2>4. k + 1 # n /\ q[k + 2] = q[i] /\ k + 2 \in 1..n
    BY <2>1, <2>2, <2>3, SlotsFinite DEF Chain
  <2>5. k + 2 = i
    BY <2>3, <2>4 DEF Chain
  <2> QED
    BY <2>1, <2>5
<1>4. (CHOOSE k \in at : \A m \in at : k <= m) = i - 2
  <2>1. \A m \in at : i - 2 <= m
    BY <1>1, <1>3
  <2> QED
    BY <1>2, <1>3, <2>1
<1>5. Walk(s)[i - 2] = q[i - 1]
  BY <1>1, ChainWalk
<1> HIDE DEF at
<1>6. Before(s, q[i]) = IF at = {} THEN NULL ELSE Walk(s)[CHOOSE k \in at : \A m \in at : k <= m]
  BY Zenon DEF Before, at
<1> QED
  BY <1>2, <1>4, <1>5, <1>6

\* append_client_to_station puts a client that is not on the list, and that
\* is linked to nobody, behind the last one.
LEMMA ChainAppend ==
  ASSUME ListsTypeOK, NEW s \in Stations, NEW n \in Nat, NEW q \in [1..n -> Slots],
         Chain(s, n, q), NEW c \in Slots, \A i \in 1..n : q[i] # c,
         next_client[c] = NULL, cur_station[c] # s, AppendBody(s, c)
  PROVE  LET r == [i \in 1..(n + 1) |-> IF i = n + 1 THEN c ELSE q[i]]
         IN /\ r \in [1..(n + 1) -> Slots]
            /\ Chain(s, n + 1, r)'
            /\ \A d \in Slots : (\A i \in 1..n : q[i] # d) => next_client'[d] = next_client[d]
<1> DEFINE r == [i \in 1..(n + 1) |-> IF i = n + 1 THEN c ELSE q[i]]
<1>1. r \in [1..(n + 1) -> Slots]
  OBVIOUS
<1>2. r[n + 1] = c /\ \A i \in 1..n : r[i] = q[i]
  OBVIOUS
<1>a. n + 1 \in Nat /\ n + 1 # 0
  OBVIOUS
<1>b. \A i \in 1..(n + 1) : i = n + 1 \/ i \in 1..n
  OBVIOUS
<1> HIDE DEF r
<1>3. \A i, j \in 1..(n + 1) : r[i] = r[j] => i = j
  BY <1>2, <1>b DEF Chain
<1>4. tail_clients'[s] = c
  BY DEF AppendBody, ListsTypeOK
<1>5. head_clients'[s] = r[1]
  <2>1. CASE n = 0
    BY <1>2, <2>1 DEF AppendBody, ListsTypeOK, Chain
  <2>2. CASE n # 0
    <3>1. 1 \in 1..n /\ head_clients[s] = q[1] /\ q[1] # NULL
      BY <2>2, SlotsFinite DEF Chain
    <3> QED
      BY <1>2, <3>1 DEF AppendBody
  <2> QED
    BY <2>1, <2>2
<1>6. ASSUME NEW d \in Slots
      PROVE  next_client'[d] = IF n # 0 /\ d = q[n] THEN c ELSE next_client[d]
  <2>1. CASE n = 0
    BY <2>1 DEF AppendBody, ListsTypeOK, Chain
  <2>2. CASE n # 0
    <3>1. n \in 1..n /\ 1 \in 1..n /\ head_clients[s] # NULL /\ tail_clients[s] = q[n]
      BY <2>2, SlotsFinite DEF Chain
    <3>2. next_client' = [next_client EXCEPT ![q[n]] = c]
      BY <3>1 DEF AppendBody
    <3> QED
      BY <2>2, <3>1, <3>2 DEF ListsTypeOK
  <2> QED
    BY <2>1, <2>2
<1>7. ASSUME NEW i \in 1..(n + 1)
      PROVE  next_client'[r[i]] = IF i = n + 1 THEN NULL ELSE r[i + 1]
  <2>1. CASE i = n + 1
    <3>1. n # 0 => n \in 1..n
      OBVIOUS
    <3> QED
      BY <1>2, <1>6, <2>1, <3>1
  <2>2. CASE i \in 1..n
    <3>1. r[i] = q[i] /\ q[i] \in Slots /\ n \in 1..n /\ i # n + 1
      BY <1>2, <2>2
    <3>2. next_client'[q[i]] = IF i = n THEN c ELSE next_client[q[i]]
      BY <1>6, <2>2, <3>1 DEF Chain
    <3>3. i # n => i + 1 \in 1..n /\ r[i + 1] = q[i + 1]
      BY <1>2, <2>2
    <3> QED
      BY <1>2, <2>2, <3>1, <3>2, <3>3 DEF Chain
  <2> QED
    BY <1>b, <2>1, <2>2
<1>8. Chain(s, n + 1, r)'
  BY <1>2, <1>3, <1>4, <1>5, <1>7, <1>a DEF Chain
<1>9. \A d \in Slots : (\A i \in 1..n : q[i] # d) => next_client'[d] = next_client[d]
  <2>1. n # 0 => n \in 1..n
    OBVIOUS
  <2> QED
    BY <1>6, <2>1
<1> QED
  BY <1>1, <1>8, <1>9 DEF r

\* remove_client_from_station takes its client off the list, and no other.
LEMMA ChainRemove ==
  ASSUME ListsTypeOK, NEW s \in Stations, NEW n \in Nat, NEW q \in [1..n -> Slots],
         Chain(s, n, q), NEW p \in 1..n, RemoveBody(s, q[p])
  PROVE  LET r == [i \in 1..(n - 1) |-> q[IF i < p THEN i ELSE i + 1]]
         IN /\ r \in [1..(n - 1) -> Slots]
            /\ {r[i] : i \in 1..(n - 1)} = {q[i] : i \in 1..n} \ {q[p]}
            /\ Chain(s, n - 1, r)'
            /\ \A d \in Slots : (\A i \in 1..n : q[i] # d) => next_client'[d] = next_client[d]
<1> DEFINE c == q[p]
           at(i) == IF i < p THEN i ELSE i + 1
           r == [i \in 1..(n - 1) |-> q[at(i)]]
<1>1. /\ n - 1 \in Nat
      /\ \A i \in 1..(n - 1) : at(i) \in 1..n /\ at(i) # p
  OBVIOUS
<1>2. r \in [1..(n - 1) -> Slots]
  BY <1>1
<1>3. \A i \in 1..(n - 1) : r[i] = q[at(i)]
  OBVIOUS
<1>4. \A i, j \in 1..(n - 1) : at(i) = at(j) => i = j
  OBVIOUS
<1>5. \A i \in 1..n : i # p => \E j \in 1..(n - 1) : at(j) = i
  <2> SUFFICES ASSUME NEW i \in 1..n, i # p PROVE \E j \in 1..(n - 1) : at(j) = i
    OBVIOUS
  <2>1. CASE i < p
    <3>1. i \in 1..(n - 1) /\ at(i) = i
      BY <2>1
    <3> QED
      BY <3>1
  <2>2. CASE i > p
    <3>1. i - 1 \in 1..(n - 1) /\ at(i - 1) = i
      BY <2>2
    <3> QED
      BY <3>1
  <2> QED
    BY <2>1, <2>2
<1>6. next_client[c] = IF p = n THEN NULL ELSE q[p + 1]
  BY DEF Chain
<1>7. \A i, j \in 1..(n - 1) : r[i] = r[j] => i = j
  BY <1>1, <1>3, <1>4 DEF Chain
<1>8. {r[i] : i \in 1..(n - 1)} = {q[i] : i \in 1..n} \ {q[p]}
  <2>1. ASSUME NEW i \in 1..(n - 1) PROVE r[i] \in {q[j] : j \in 1..n} \ {q[p]}
    BY <1>1, <1>3 DEF Chain
  <2>2. ASSUME NEW i \in 1..n, q[i] # q[p] PROVE q[i] \in {r[j] : j \in 1..(n - 1)}
    <3>1. PICK j \in 1..(n - 1) : at(j) = i
      BY <1>5, <2>2
    <3> QED
      BY <1>3, <3>1
  <2> QED
    BY <2>1, <2>2
<1>9. /\ \A i \in 1..n : q[i] \in Slots /\ q[i] # NULL
      /\ c \in Slots /\ c # NULL
  BY SlotsFinite
<1>10. CASE p = 1
  <2>1. head_clients[s] = c
    BY <1>10 DEF Chain
  <2>2. /\ head_clients' = [head_clients EXCEPT ![s] = next_client[c]]
        /\ tail_clients' = [tail_clients EXCEPT ![s] = IF @ = c THEN next_client[c] ELSE @]
        /\ next_client' = next_client
    BY <2>1 DEF RemoveBody
  <2>3. \A i \in 1..(n - 1) : r[i] = q[i + 1]
    BY <1>3, <1>10
  <2>4. head_clients'[s] = IF n - 1 = 0 THEN NULL ELSE r[1]
    BY <1>6, <1>10, <2>2, <2>3 DEF ListsTypeOK
  <2>5. tail_clients'[s] = IF n - 1 = 0 THEN NULL ELSE r[n - 1]
    <3>1. tail_clients[s] = q[n] /\ n \in 1..n
      BY DEF Chain
    <3>2. CASE n = 1
      BY <1>6, <1>10, <2>2, <3>1, <3>2 DEF ListsTypeOK
    <3>3. CASE n # 1
      <4>1. q[n] # c
        BY <1>10, <3>1, <3>3 DEF Chain
      <4>2. n - 1 \in 1..(n - 1) /\ r[n - 1] = q[n]
        BY <2>3, <3>3
      <4> QED
        BY <2>2, <3>1, <3>3, <4>1, <4>2 DEF ListsTypeOK
    <3> QED
      BY <3>2, <3>3
  <2>6. \A i \in 1..(n - 1) : next_client'[r[i]] = IF i = n - 1 THEN NULL ELSE r[i + 1]
    BY <2>2, <2>3 DEF Chain
  <2>7. Chain(s, n - 1, r)'
    BY <1>7, <2>4, <2>5, <2>6 DEF Chain
  <2> QED
    BY <1>2, <1>8, <2>2, <2>7
<1>11. CASE p # 1
  <2> DEFINE b == q[p - 1]
  <2>1. p \in 2..n /\ p - 1 \in 1..n /\ 1 \in 1..n
    BY <1>11
  <2>2. Before(s, c) = b /\ b # NULL /\ b \in Slots
    BY <1>9, <2>1, ChainBefore
  <2>3. head_clients[s] = q[1] /\ q[1] # c
    BY <1>11, <2>1 DEF Chain
  <2>4. /\ next_client' = [d \in Slots |-> IF d = b THEN next_client[c] ELSE next_client[d]]
        /\ tail_clients' = [tail_clients EXCEPT ![s] = IF next_client[c] = NULL THEN b ELSE @]
        /\ head_clients' = head_clients
    BY <2>2, <2>3 DEF RemoveBody
  <2>5. head_clients'[s] = r[1] /\ 1 \in 1..(n - 1) /\ n - 1 # 0
    BY <1>3, <1>11, <2>1, <2>3, <2>4
  <2>6. tail_clients'[s] = r[n - 1]
    <3>1. tail_clients[s] = q[n] /\ n \in 1..n /\ n - 1 \in 1..(n - 1)
      BY <2>5 DEF Chain
    <3>2. CASE p = n
      BY <1>3, <1>6, <2>4, <3>1, <3>2 DEF ListsTypeOK
    <3>3. CASE p # n
      <4>1. next_client[c] # NULL
        BY <1>6, <1>9, <3>3
      <4>2. r[n - 1] = q[n]
        BY <1>3, <3>1, <3>3
      <4> QED
        BY <2>4, <3>1, <4>1, <4>2 DEF ListsTypeOK
    <3> QED
      BY <3>2, <3>3
  <2>7. ASSUME NEW i \in 1..(n - 1)
        PROVE  next_client'[r[i]] = IF i = n - 1 THEN NULL ELSE r[i + 1]
    <3>1. r[i] = q[at(i)] /\ at(i) \in 1..n /\ q[at(i)] \in Slots
      BY <1>1, <1>3
    <3>2. q[at(i)] = b <=> at(i) = p - 1
      BY <2>1, <3>1 DEF Chain
    <3>3. i # n - 1 => i + 1 \in 1..(n - 1) /\ r[i + 1] = q[at(i + 1)]
      BY <1>3
    <3>4. CASE at(i) = p - 1
      <4>1. i = p - 1 /\ next_client'[r[i]] = next_client[c]
        BY <2>4, <3>1, <3>2, <3>4
      <4> QED
        BY <1>6, <3>3, <4>1
    <3>5. CASE at(i) # p - 1
      <4>1. next_client'[r[i]] = next_client[q[at(i)]]
        BY <2>4, <3>1, <3>2, <3>5
      <4>2. next_client[q[at(i)]] = IF at(i) = n THEN NULL ELSE q[at(i) + 1]
        BY <3>1 DEF Chain
      <4>3. at(i) = n <=> i = n - 1
        BY <3>1, <3>5
      <4>4. i # n - 1 => at(i + 1) = at(i) + 1
        BY <3>5
      <4> QED
        BY <3>3, <4>1, <4>2, <4>3, <4>4
    <3> QED
      BY <3>4, <3>5
  <2>8. Chain(s, n - 1, r)'
    BY <1>7, <2>5, <2>6, <2>7 DEF Chain
  <2>9. \A d \in Slots : (\A i \in 1..n : q[i] # d) => next_client'[d] = next_client[d]
    BY <2>1, <2>4
  <2> QED
    BY <1>2, <1>8, <2>8, <2>9
<1> QED
  BY <1>10, <1>11

-----------------------------------------------------------------------------
(* g_station_list.                                                           *)

Listed(s) == \E n \in DOMAIN station_list : station_list[n] = s

EachOnce == \A m, n \in DOMAIN station_list : station_list[m] = station_list[n] => m = n

\* What is on the list is a station.
LEMMA ListFacts ==
  ASSUME ListsTypeOK
  PROVE  /\ Len(station_list) \in Nat
         /\ DOMAIN station_list = 1..Len(station_list)
         /\ \A n \in DOMAIN station_list : station_list[n] \in Stations
         /\ station_list # <<>> => 1 \in DOMAIN station_list
         /\ station_list # <<>> => Head(station_list) = station_list[1]
<1>1. station_list \in Seq(Stations)
  BY DEF ListsTypeOK
<1>2. /\ Len(station_list) \in Nat /\ station_list \in [1..Len(station_list) -> Stations]
      /\ DOMAIN station_list = 1..Len(station_list)
  BY <1>1, LenProperties
<1>3. station_list # <<>> => Len(station_list) \in Nat \ {0}
  BY <1>1, EmptySeq
<1> QED
  BY <1>1, <1>2, <1>3

\* find_station_from_id and head_station return a station of the list, or NULL.
LEMMA FindFacts ==
  ASSUME ListsTypeOK, NEW i
  PROVE  /\ find_station_from_id(i) # NULL
            => find_station_from_id(i) \in Stations /\ Listed(find_station_from_id(i))
         /\ head_station # NULL => head_station \in Stations /\ Listed(head_station)
<1> DEFINE at == {n \in DOMAIN station_list : id[station_list[n]] = i}
<1>1. at # {} => (CHOOSE n \in at : \A m \in at : n <= m) \in at
  <2>1. at \in SUBSET Nat
    BY ListFacts
  <2> QED
    BY <2>1, LeastNumber
<1>2. find_station_from_id(i)
        = IF at = {} THEN NULL ELSE station_list[CHOOSE n \in at : \A m \in at : n <= m]
  BY Zenon DEF find_station_from_id
<1>3. head_station # NULL => head_station \in Stations /\ Listed(head_station)
  BY ListFacts DEF head_station, Listed
<1> HIDE DEF at
<1>4. at \subseteq DOMAIN station_list
  BY DEF at
<1> QED
  BY <1>1, <1>2, <1>3, <1>4, ListFacts DEF Listed

\* next_station returns a station of the list or NULL; on a list that names
\* each station once it is the one behind.
LEMMA NextFacts ==
  ASSUME ListsTypeOK, NEW s \in Stations, Listed(s)
  PROVE  /\ next_station(s) # NULL
            => next_station(s) \in Stations /\ Listed(next_station(s))
         /\ EachOnce => \A n \in DOMAIN station_list : station_list[n] = s =>
              next_station(s) = IF n = Len(station_list) THEN NULL ELSE station_list[n + 1]
<1> DEFINE k == CHOOSE n \in DOMAIN station_list : station_list[n] = s
<1>1. k \in DOMAIN station_list /\ station_list[k] = s
  BY DEF Listed
<1>2. next_station(s) = IF k = Len(station_list) THEN NULL ELSE station_list[k + 1]
  BY DEF next_station
<1> HIDE DEF k
<1>3. k # Len(station_list) => k + 1 \in DOMAIN station_list
  BY <1>1, ListFacts
<1>4. next_station(s) # NULL => next_station(s) \in Stations /\ Listed(next_station(s))
  BY <1>2, <1>3, ListFacts DEF Listed
<1> QED
  BY <1>1, <1>2, <1>4 DEF EachOnce

\* The number of a new station is a natural number.
LEMMA NextAvailableType ==
  ASSUME ListsTypeOK
  PROVE  NextAvailable \in Nat
<1> DEFINE gaps == {n \in DOMAIN station_list : id[station_list[n]] # n - 1}
<1>1. gaps # {} => (CHOOSE n \in gaps : \A m \in gaps : n <= m) \in gaps
  <2>1. gaps \in SUBSET Nat
    BY ListFacts
  <2> QED
    BY <2>1, LeastNumber
<1>2. NextAvailable = IF gaps = {} THEN Len(station_list)
                      ELSE (CHOOSE n \in gaps : \A m \in gaps : n <= m) - 1
  BY DEF NextAvailable
<1>3. gaps \subseteq DOMAIN station_list
  OBVIOUS
<1> HIDE DEF gaps
<1> QED
  BY <1>1, <1>2, <1>3, ListFacts

\* push_station_to_list adds its station and no other.
LEMMA PushFacts ==
  ASSUME ListsTypeOK, NEW s \in Stations, PushBody(s)
  PROVE  /\ station_list' \in Seq(Stations)
         /\ \A t : Listed(t)' <=> Listed(t) \/ t = s
         /\ EachOnce /\ ~Listed(s) => EachOnce'
<1> DEFINE l == Append(station_list, s)
           n == Len(station_list)
<1>1. station_list' = l /\ station_list \in Seq(Stations)
  BY DEF PushBody, ListsTypeOK
<1>2. /\ l \in Seq(Stations) /\ Len(l) = n + 1
      /\ \A i \in 1..n : l[i] = station_list[i]
      /\ l[n + 1] = s
  BY <1>1, AppendProperties
<1>3. n \in Nat /\ DOMAIN station_list = 1..n /\ DOMAIN l = 1..(n + 1)
  BY <1>1, <1>2, ListFacts, LenProperties
<1>4. \A i \in 1..(n + 1) : i = n + 1 \/ i \in 1..n
  BY <1>3
<1>5. \A i \in 1..n : i \in 1..(n + 1) /\ i # n + 1
  BY <1>3
<1>6. n + 1 \in 1..(n + 1)
  BY <1>3
<1> HIDE DEF l, n
<1>7. \A t : Listed(t)' <=> Listed(t) \/ t = s
  BY <1>1, <1>2, <1>3, <1>4, <1>5, <1>6 DEF Listed
<1>8. EachOnce /\ ~Listed(s) => EachOnce'
  BY <1>1, <1>2, <1>3, <1>4 DEF Listed, EachOnce
<1> QED
  BY <1>1, <1>2, <1>7, <1>8

\* remove_station unlinks its station and no other.
LEMMA UnlinkedFacts ==
  ASSUME ListsTypeOK, NEW s \in Stations, Listed(s), station_list' = Unlinked(s)
  PROVE  /\ station_list' \in Seq(Stations)
         /\ EachOnce => EachOnce'
         /\ \A t : Listed(t)' => Listed(t)
         /\ \A t : Listed(t) /\ t # s => Listed(t)'
         /\ EachOnce => ~Listed(s)'
<1> DEFINE p == CHOOSE n \in DOMAIN station_list : station_list[n] = s
           n == Len(station_list)
           at(i) == IF i < p THEN i ELSE i + 1
           l == [i \in 1..(n - 1) |-> station_list[at(i)]]
<1>1. p \in DOMAIN station_list /\ station_list[p] = s
  BY DEF Listed
<1>2. station_list' = l
  BY DEF Unlinked
<1> HIDE DEF p
<1>3. n \in Nat /\ DOMAIN station_list = 1..n /\ \A i \in 1..n : station_list[i] \in Stations
  BY ListFacts
<1>4. n - 1 \in Nat /\ \A i \in 1..(n - 1) : at(i) \in 1..n /\ at(i) # p
  BY <1>1, <1>3
<1>5. \A i \in 1..(n - 1) : l[i] = station_list[at(i)] /\ l[i] \in Stations
  BY <1>3, <1>4
<1>6. \A i, j \in 1..(n - 1) : at(i) = at(j) => i = j
  BY <1>1, <1>3
<1>7. \A i \in 1..n : i # p => \E j \in 1..(n - 1) : at(j) = i
  <2> SUFFICES ASSUME NEW i \in 1..n, i # p PROVE \E j \in 1..(n - 1) : at(j) = i
    OBVIOUS
  <2>1. CASE i < p
    <3>1. i \in 1..(n - 1) /\ at(i) = i
      BY <1>1, <1>3, <2>1
    <3> QED
      BY <3>1
  <2>2. CASE i > p
    <3>1. i - 1 \in 1..(n - 1) /\ at(i - 1) = i
      BY <1>1, <1>3, <2>2
    <3> QED
      BY <3>1
  <2> QED
    BY <1>1, <1>3, <2>1, <2>2
<1>8. DOMAIN l = 1..(n - 1)
  OBVIOUS
<1>9. l \in Seq(Stations)
  BY <1>4, <1>5, IsASeq
<1> HIDE DEF l, n, at
<1>10. \A t : Listed(t)' => Listed(t)
  BY <1>2, <1>3, <1>4, <1>5, <1>8 DEF Listed
<1>11. \A t : Listed(t) /\ t # s => Listed(t)'
  BY <1>1, <1>2, <1>3, <1>5, <1>7, <1>8 DEF Listed
<1>12. EachOnce => ~Listed(s)'
  BY <1>1, <1>2, <1>3, <1>4, <1>5, <1>8 DEF Listed, EachOnce
<1>13. EachOnce => EachOnce'
  BY <1>2, <1>3, <1>4, <1>5, <1>6, <1>8 DEF EachOnce
<1> QED
  BY <1>2, <1>9, <1>10, <1>11, <1>12, <1>13

-----------------------------------------------------------------------------
(* What holds whatever the clients and the operator do.                      *)

\* The handlers of main have the client and the stations they work with.  A
\* station they point to was allocated, and may have been freed.
MainOK ==
  /\ main.pc \in {"remove", "remove_lock", "append", "reset", "cur_song"} => main.c \in Slots
  /\ main.pc \in {"remove_lock", "use"} => main.ptr \in Stations
  /\ main.pc = "append" => main.target \in Stations
  /\ main.target # NULL => heap[main.target] # "unused"
  /\ main.ptr # NULL => heap[main.ptr] # "unused"
  /\ fault = "none" /\ main.pc = "walk" /\ main.ptr # NULL
     => Listed(main.ptr) \/ heap[main.ptr] = "freed"

\* The operator's thread has the station it works with.  One that it adds has
\* no sender yet, one that it removes or prints is on the list, and those that
\* release_stations still has in front of it are live.
OpOK ==
  /\ op.pc \in {"push", "remove", "close"} => op.st \in Stations
  /\ op.pc = "push" => heap[op.st] = "live" /\ sender[op.st].pc = "none" /\ ~Listed(op.st)
  /\ fault = "none" /\ op.pc \in {"remove", "close"} => Listed(op.st)
  /\ fault = "none" /\ op.pc = "print" /\ op.st # NULL => Listed(op.st)
  /\ fault = "none" /\ op.pc = "release" =>
       /\ EachOnce
       /\ op.st # NULL => \E k \in DOMAIN station_list :
            /\ station_list[k] = op.st
            /\ \A n \in DOMAIN station_list : n >= k => heap[station_list[n]] = "live"

\* A station that was not allocated has no sender, is on no list and is
\* nobody's.
UnusedOK ==
  \A s \in Stations : heap[s] = "unused" =>
    /\ sender[s].pc = "none"
    /\ ~Listed(s)
    /\ \A c \in Slots : cur_station[c] # s

Safe == LockedStationLive /\ MainOK /\ OpOK /\ UnusedOK /\ ListedAreLive

\* The server starts with its stations on the list, one sender each.
LEMMA InitSafe == Init => Safe
<1> SUFFICES ASSUME Init PROVE Safe
  OBVIOUS
<1>1. PICK initial \in [1..InitialStations -> Stations] :
        /\ \A i, j \in 1..InitialStations : initial[i] = initial[j] => i = j
        /\ ListsInit(initial)
  BY DEF Init
<1>2. InitialStations \in Nat /\ initial \in Seq(Stations)
  <2>1. InitialStations \in Nat
    BY ServerAssumption, ListsAssumption
  <2> QED
    BY <2>1
<1>3. station_list = initial /\ DOMAIN station_list = 1..InitialStations
  BY <1>1 DEF ListsInit
<1>4. \A s \in Stations : heap[s] = IF Listed(s) THEN "live" ELSE "unused"
  BY <1>1, <1>3 DEF ListsInit, Listed
<1>5. id \in [Stations -> Nat]
  <2>1. ASSUME NEW s \in Stations PROVE id[s] \in Nat
    <3>1. CASE \E i \in DOMAIN initial : initial[i] = s
      <4>1. (CHOOSE i \in DOMAIN initial : initial[i] = s) \in 1..InitialStations
        BY <1>3, <3>1
      <4> QED
        BY <1>1, <1>2, <3>1, <4>1 DEF ListsInit
    <3>2. CASE ~ \E i \in DOMAIN initial : initial[i] = s
      BY <1>1, <3>2 DEF ListsInit
    <3> QED
      BY <3>1, <3>2
  <2> QED
    BY <1>1, <2>1 DEF ListsInit
<1>6. ListsTypeOK
  <2>1. heap \in [Stations -> {"unused", "live", "freed"}]
    BY <1>1 DEF ListsInit
  <2> QED
    BY <1>1, <1>2, <1>5, <2>1 DEF ListsInit, ListsTypeOK
<1>7. sender \in [Stations -> SenderStates]
  <2>1. sender = [s \in Stations |-> SenderAt(IF heap[s] = "live" THEN "read" ELSE "none")]
    BY DEF Init
  <2>2. \A s \in Stations :
          SenderAt(IF heap[s] = "live" THEN "read" ELSE "none") \in SenderStates
    BY SMT DEF SenderAt, SenderStates
  <2> QED
    BY <2>1, <2>2
<1>8. main = MainIdle /\ op = OpIdle /\ fault = "none"
      /\ lock = [s \in Stations |-> FALSE] /\ list_lock = FALSE /\ cancelled = {}
      /\ sender = [s \in Stations |-> SenderAt(IF heap[s] = "live" THEN "read" ELSE "none")]
  BY DEF Init
<1>9. TypeOK
  <2>1. MainIdle \in MainStates /\ OpIdle \in OpStates
    BY DEF MainIdle, OpIdle, MainStates, OpStates
  <2>2. [s \in Stations |-> FALSE] \in [Stations -> BOOLEAN]
    OBVIOUS
  <2>3. "none" \in Faults
    BY DEF Faults
  <2> QED
    BY <1>6, <1>7, <1>8, <2>1, <2>2, <2>3 DEF TypeOK
<1>10. MainOK /\ OpOK
  BY <1>8, SlotsFinite DEF MainOK, OpOK, MainIdle, OpIdle
<1>11. UnusedOK
  BY <1>1, <1>4, <1>8, SlotsFinite DEF UnusedOK, SenderAt, ListsInit
<1>12. ListedAreLive
  BY <1>1, <1>3, <1>4, <1>8 DEF ListedAreLive, Listed, OpIdle
<1>13. LockedStationLive
  BY <1>8, <1>9 DEF LockedStationLive
<1> QED
  BY <1>9, <1>10, <1>11, <1>12, <1>13 DEF Safe

\* A process that ends leaves its memory as it is.
LEMMA FailSafe ==
  ASSUME Safe, fault = "none", NEW why \in Faults \ {"none"}, Fail(why)
  PROVE  Safe'
<1>1. /\ UNCHANGED <<listVars, lock, list_lock, cancelled, main, op, sender>>
      /\ fault' \in Faults /\ fault' # "none"
  BY DEF Fail
<1>2. /\ UNCHANGED <<heap, station_list, cur_station, lock, sender, main, op>>
      /\ UNCHANGED <<state, udp_sock, next_client, head_clients, tail_clients, counter, id>>
  BY <1>1 DEF listVars, clientVars, stationVars
<1>3. TypeOK'
  BY <1>1, <1>2 DEF Safe, LockedStationLive, TypeOK, ListsTypeOK
<1>4. \A s : Listed(s)' <=> Listed(s)
  BY <1>2 DEF Listed
<1>5. LockedStationLive'
  BY <1>2, <1>3 DEF Safe, LockedStationLive
<1>6. MainOK' /\ OpOK' /\ UnusedOK' /\ ListedAreLive'
  BY <1>1, <1>2, <1>4 DEF Safe, MainOK, OpOK, UnusedOK, ListedAreLive
<1> QED
  BY <1>5, <1>6 DEF Safe

\* A step of main frees and lists no station.
LEMMA MainFrame ==
  ASSUME Safe, fault = "none", MainKeeps, UNCHANGED <<heap, station_list>>,
         ListsTypeOK', main' \in MainStates, MainOK',
         \A s \in Stations : heap[s] = "unused" => \A c \in Slots : cur_station'[c] # s
  PROVE  Safe'
<1>1. UNCHANGED <<lock, list_lock, cancelled, op, sender, fault>>
  BY DEF MainKeeps
<1>2. TypeOK'
  BY <1>1 DEF Safe, LockedStationLive, TypeOK
<1>3. (\A s : Listed(s)' <=> Listed(s)) /\ (EachOnce' <=> EachOnce)
  BY DEF Listed, EachOnce
<1>4. LockedStationLive'
  BY <1>1, <1>2 DEF Safe, LockedStationLive
<1>5. OpOK'
  BY <1>1, <1>3 DEF Safe, OpOK
<1>6. UnusedOK'
  BY <1>1, <1>3 DEF Safe, UnusedOK
<1>7. ListedAreLive'
  BY <1>1 DEF Safe, ListedAreLive
<1> QED
  BY <1>4, <1>5, <1>6, <1>7 DEF Safe

\* A step of main that changes nothing but where main is.
LEMMA MainMoves ==
  ASSUME Safe, fault = "none", MainKeeps, UNCHANGED listVars, main' \in MainStates, MainOK'
  PROVE  Safe'
<1>1. /\ UNCHANGED <<heap, station_list, cur_station>>
      /\ UNCHANGED <<state, udp_sock, next_client, head_clients, tail_clients, counter, id>>
  BY DEF listVars, clientVars, stationVars
<1>2. ListsTypeOK'
  BY <1>1 DEF Safe, LockedStationLive, TypeOK, ListsTypeOK
<1> QED
  BY <1>1, <1>2, MainFrame DEF Safe, UnusedOK

\* Where main is idle, nothing is asked of it.
LEMMA IdleOK ==
  /\ MainIdle \in MainStates /\ OpIdle \in OpStates
  /\ main' = MainIdle => MainOK'
  /\ op' = OpIdle => OpOK'
<1>1. MainIdle \in MainStates /\ OpIdle \in OpStates
  BY DEF MainIdle, OpIdle, MainStates, OpStates
<1> QED
  BY <1>1 DEF MainIdle, OpIdle, MainOK, OpOK

\* The steps of parse_and_send and its handlers.
LEMMA RemoveReadSafe ==
  ASSUME Safe, fault = "none", RemoveRead
  PROVE  Safe'
<1> USE DEF Safe, LockedStationLive, TypeOK
<1> DEFINE st == cur_station[main.c]
<1>1. main.pc = "remove" /\ main.c \in Slots /\ main \in MainStates /\ MainKeeps
  BY DEF RemoveRead, MainOK
<1>2. st \in Stations \cup {NULL} /\ (st # NULL => heap[st] # "unused")
  BY <1>1 DEF ListsTypeOK, UnusedOK
<1>3. /\ main' = [main EXCEPT !.pc = IF st = NULL THEN AfterRemove ELSE "remove_lock", !.ptr = st]
      /\ UNCHANGED listVars
  BY DEF RemoveRead
<1> HIDE DEF st
<1>4. UNCHANGED <<heap, fault>>
  BY <1>1, <1>3 DEF listVars, stationVars, MainKeeps
<1>5. main' \in MainStates
  BY <1>1, <1>2, <1>3 DEF MainStates, AfterRemove
<1>6. MainOK'
  BY <1>1, <1>2, <1>3, <1>4 DEF MainOK, AfterRemove, MainStates
<1> QED
  BY <1>1, <1>3, <1>5, <1>6, MainMoves

LEMMA RemoveSafe ==
  ASSUME Safe, fault = "none", Remove
  PROVE  Safe'
<1> USE DEF Safe, LockedStationLive, TypeOK
<1> DEFINE s == main.ptr
           c == main.c
<1>1. main.pc = "remove_lock" /\ c \in Slots /\ s \in Stations /\ main \in MainStates
  BY DEF Remove, MainOK
<1>2. /\ main' = [main EXCEPT !.pc = AfterRemove, !.ptr = NULL]
      /\ MainKeeps /\ RemoveBody(s, c)
  BY DEF Remove
<1> HIDE DEF s, c
<1>3. UNCHANGED <<state, udp_sock, cur_station, counter, heap, id, station_list>>
  BY <1>2 DEF RemoveBody
<1>4. Before(s, c) \in Slots \cup {NULL} /\ next_client[c] \in Slots \cup {NULL}
  BY <1>1, WalkTypes DEF ListsTypeOK
<1>5. ListsTypeOK'
  <2>1. next_client' \in [Slots -> Slots \cup {NULL}]
    BY <1>1, <1>2, <1>4 DEF RemoveBody, ListsTypeOK
  <2>2. /\ head_clients' \in [Stations -> Slots \cup {NULL}]
        /\ tail_clients' \in [Stations -> Slots \cup {NULL}]
    BY <1>1, <1>2, <1>4 DEF RemoveBody, ListsTypeOK
  <2> QED
    BY <1>3, <2>1, <2>2 DEF ListsTypeOK
<1>6. main' \in MainStates
  BY <1>1, <1>2 DEF MainStates, AfterRemove
<1>7. MainOK'
  BY <1>1, <1>2, <1>3 DEF MainOK, AfterRemove, MainStates, MainKeeps, c
<1>8. \A t \in Stations : heap[t] = "unused" => \A d \in Slots : cur_station'[d] # t
  BY <1>3 DEF UnusedOK
<1> QED
  BY <1>2, <1>3, <1>5, <1>6, <1>7, <1>8, MainFrame

LEMMA RemoveFailsSafe ==
  ASSUME Safe, fault = "none", RemoveFails
  PROVE  Safe'
<1>1. Fail("freed station") \/ Fail("endless list") \/ Fail("assert list")
  BY DEF RemoveFails
<1> QED
  BY <1>1, FailSafe DEF Faults

LEMMA AppendSafe ==
  ASSUME Safe, fault = "none", AppendClient
  PROVE  Safe'
<1> USE DEF Safe, LockedStationLive, TypeOK
<1> DEFINE s == main.target
           c == main.c
<1>1. main.pc = "append" /\ c \in Slots /\ s \in Stations /\ main \in MainStates
  BY DEF AppendClient, MainOK
<1>2. CASE heap[s] = "freed"
  BY <1>2, FailSafe DEF AppendClient, Faults
<1>3. CASE heap[s] # "freed"
  <2>1. /\ main' = [main EXCEPT !.pc = "cur_song"]
        /\ MainKeeps /\ AppendBody(s, c)
    BY <1>3 DEF AppendClient
  <2>2. s # NULL /\ heap[s] # "unused"
    BY <1>1, SlotsFinite DEF MainOK
  <2>3. main' \in MainStates
    BY <1>1, <2>1 DEF MainStates
  <2> HIDE DEF s, c
  <2>4. UNCHANGED <<heap, station_list, fault, state, udp_sock, id>>
    BY <2>1 DEF AppendBody, MainKeeps, listVars, clientVars, stationVars
  <2>5. MainOK'
    BY <1>1, <2>1, <2>4 DEF MainOK, MainStates, c
  <2>6. CASE cur_station[c] = s
    BY <2>1, <2>3, <2>5, <2>6, MainMoves DEF AppendBody
  <2>7. CASE cur_station[c] # s
    <3>1. /\ next_client' = next_client \/ next_client' = [next_client EXCEPT ![tail_clients[s]] = c]
          /\ head_clients' = head_clients \/ head_clients' = [head_clients EXCEPT ![s] = c]
          /\ tail_clients' = [tail_clients EXCEPT ![s] = c]
          /\ counter' = [counter EXCEPT ![s] = @ + 1]
          /\ cur_station' = [cur_station EXCEPT ![c] = s]
      BY <2>1, <2>7 DEF AppendBody
    <3>2. ListsTypeOK'
      <4>1. next_client' \in [Slots -> Slots \cup {NULL}]
        BY <1>1, <3>1 DEF ListsTypeOK
      <4>2. /\ head_clients' \in [Stations -> Slots \cup {NULL}]
            /\ tail_clients' \in [Stations -> Slots \cup {NULL}]
        BY <1>1, <3>1 DEF ListsTypeOK
      <4>3. counter' \in [Stations -> Nat] /\ cur_station' \in [Slots -> Stations \cup {NULL}]
        BY <1>1, <3>1 DEF ListsTypeOK
      <4> QED
        BY <2>4, <4>1, <4>2, <4>3 DEF ListsTypeOK
    <3>3. \A t \in Stations : heap[t] = "unused" => \A d \in Slots : cur_station'[d] # t
      BY <1>1, <2>2, <3>1 DEF UnusedOK, ListsTypeOK
    <3> QED
      BY <2>1, <2>3, <2>4, <2>5, <3>2, <3>3, MainFrame
  <2> QED
    BY <2>6, <2>7
<1> QED
  BY <1>2, <1>3

LEMMA ResetSafe ==
  ASSUME Safe, fault = "none", Reset
  PROVE  Safe'
<1> USE DEF Safe, LockedStationLive, TypeOK
<1>1. /\ main.c \in Slots /\ main' = MainIdle /\ MainKeeps
      /\ ResetBody(main.c)
  BY DEF Reset, MainOK
<1>2. /\ UNCHANGED <<heap, station_list, head_clients, tail_clients, counter, id>>
      /\ cur_station' = [cur_station EXCEPT ![main.c] = NULL]
      /\ next_client' = [next_client EXCEPT ![main.c] = NULL]
      /\ state' = [state EXCEPT ![main.c] = "NO_STATE"]
      /\ udp_sock' = [udp_sock EXCEPT ![main.c] = FALSE]
  BY <1>1 DEF ResetBody, stationVars
<1>3. ListsTypeOK'
  BY <1>1, <1>2 DEF ListsTypeOK
<1>4. \A t \in Stations : heap[t] = "unused" => \A d \in Slots : cur_station'[d] # t
  BY <1>1, <1>2, SlotsFinite DEF UnusedOK, ListsTypeOK
<1> QED
  BY <1>1, <1>2, <1>3, <1>4, IdleOK, MainFrame

LEMMA SongSafe ==
  ASSUME Safe, fault = "none", CurSong \/ UseStation
  PROVE  Safe'
<1> USE DEF Safe, LockedStationLive, TypeOK
<1>1. CASE CurSong
  <2>1. main.c \in Slots /\ main.pc = "cur_song" /\ main \in MainStates
    BY <1>1 DEF CurSong, MainOK
  <2>2. CASE cur_station[main.c] = NULL
    BY <1>1, <2>2, FailSafe DEF CurSong, Faults
  <2>3. CASE cur_station[main.c] # NULL
    <3> DEFINE s == cur_station[main.c]
    <3>1. /\ main' = [main EXCEPT !.pc = "use", !.ptr = s]
          /\ UNCHANGED listVars /\ MainKeeps
      BY <1>1, <2>3 DEF CurSong
    <3>2. s \in Stations /\ heap[s] # "unused"
      BY <2>1, <2>3 DEF ListsTypeOK, UnusedOK
    <3> HIDE DEF s
    <3>3. UNCHANGED <<heap, fault>>
      BY <3>1 DEF listVars, stationVars, MainKeeps
    <3>4. main' \in MainStates
      BY <2>1, <3>1, <3>2 DEF MainStates
    <3>5. MainOK'
      BY <2>1, <3>1, <3>2, <3>3 DEF MainOK, MainStates
    <3> QED
      BY <3>1, <3>4, <3>5, MainMoves
  <2> QED
    BY <2>2, <2>3
<1>2. CASE UseStation
  <2>1. Fail("freed station") \/ (main' = MainIdle /\ UNCHANGED listVars /\ MainKeeps)
    BY <1>2 DEF UseStation
  <2> QED
    BY <2>1, FailSafe, MainMoves, IdleOK DEF Faults
<1> QED
  BY <1>1, <1>2

LEMMA WalkSafe ==
  ASSUME Safe, fault = "none", WalkStations
  PROVE  Safe'
<1> USE DEF Safe, LockedStationLive, TypeOK
<1> DEFINE s == main.ptr
<1>1. main.pc = "walk" /\ main \in MainStates
  BY DEF WalkStations
<1>2. CASE s = NULL
  BY <1>2, MainMoves, IdleOK DEF WalkStations
<1>3. CASE s # NULL /\ heap[s] = "freed"
  BY <1>3, FailSafe DEF WalkStations, Faults
<1>4. CASE s # NULL /\ heap[s] # "freed"
  <2> DEFINE t == next_station(s)
  <2>1. main' = [main EXCEPT !.ptr = t] /\ UNCHANGED listVars /\ MainKeeps
    BY <1>4 DEF WalkStations
  <2>2. s \in Stations /\ Listed(s)
    BY <1>1, <1>4 DEF MainOK, MainStates
  <2>3. t # NULL => t \in Stations /\ Listed(t) /\ heap[t] # "unused"
    BY <2>2, NextFacts DEF UnusedOK
  <2> HIDE DEF t
  <2>4. UNCHANGED <<heap, fault, station_list>> /\ \A u : Listed(u)' <=> Listed(u)
    BY <2>1 DEF listVars, stationVars, MainKeeps, Listed
  <2>5. main' \in MainStates
    BY <1>1, <2>1, <2>3 DEF MainStates
  <2>6. MainOK'
    BY <1>1, <2>1, <2>3, <2>4 DEF MainOK, MainStates
  <2> QED
    BY <2>1, <2>5, <2>6, MainMoves
<1> QED
  BY <1>2, <1>3, <1>4

LEMMA MainStepSafe ==
  ASSUME Safe, fault = "none", MainStep
  PROVE  Safe'
  BY RemoveReadSafe, RemoveSafe, RemoveFailsSafe, AppendSafe, ResetSafe, SongSafe, WalkSafe
     DEF MainStep

\* What a client may do next: connect, say HELLO, ask, disconnect.
LEMMA ClientEventSafe ==
  ASSUME Safe, fault = "none", ClientEvent
  PROVE  Safe'
<1> USE DEF Safe, LockedStationLive, TypeOK
<1>1. CASE AcceptBusy
  BY <1>1, FailSafe DEF AcceptBusy, Faults
<1>2. ASSUME NEW c \in Slots,
             Accept(c) \/ \E built \in BOOLEAN : Hello(c, built)
      PROVE  Safe'
  <2>1. /\ UNCHANGED <<cur_station, next_client, stationVars, main>> /\ MainKeeps
        /\ state' \in [Slots -> {"NO_STATE", "INIT_STATE", "HANDSHAKED"}]
        /\ udp_sock' \in [Slots -> BOOLEAN]
    BY <1>2 DEF Accept, Hello, ListsTypeOK
  <2>2. UNCHANGED <<cur_station, next_client, head_clients, tail_clients, counter, heap, id,
                    station_list, main, fault>>
    BY <2>1 DEF stationVars, MainKeeps
  <2>3. ListsTypeOK'
    BY <2>1, <2>2 DEF ListsTypeOK
  <2>4. MainOK'
    BY <2>2 DEF MainOK, Listed
  <2>5. main' \in MainStates
    BY <2>2
  <2>6. \A t \in Stations : heap[t] = "unused" => \A d \in Slots : cur_station'[d] # t
    BY <2>2 DEF UnusedOK
  <2> QED
    BY <2>1, <2>2, <2>3, <2>4, <2>5, <2>6, MainFrame
<1>3. ASSUME NEW c \in Slots, NEW i \in 0..MAX_STATION_NUM, SetStation(c, i)
      PROVE  Safe'
  <2> DEFINE t == find_station_from_id(i)
  <2>1. /\ main' = [MainIdle EXCEPT !.pc = "remove", !.c = c, !.target = t]
        /\ UNCHANGED listVars /\ MainKeeps /\ t # NULL
    BY <1>3 DEF SetStation
  <2>2. t \in Stations /\ heap[t] # "unused"
    BY <2>1, FindFacts DEF UnusedOK
  <2> HIDE DEF t
  <2>3. UNCHANGED <<heap, fault>>
    BY <2>1 DEF listVars, stationVars, MainKeeps
  <2>4. main' \in MainStates /\ MainOK'
    BY <2>1, <2>2, <2>3 DEF MainStates, MainOK, MainIdle
  <2> QED
    BY <2>1, <2>4, MainMoves
<1>4. ASSUME NEW c \in Slots, Disconnect(c) \/ RequestSongs(c)
      PROVE  Safe'
  <2>1. /\ \/ main' = [MainIdle EXCEPT !.pc = "remove", !.c = c]
           \/ main' = [MainIdle EXCEPT !.pc = "cur_song", !.c = c]
        /\ UNCHANGED listVars /\ MainKeeps
    BY <1>4 DEF Disconnect, RequestSongs
  <2>2. main' \in MainStates /\ MainOK'
    BY <2>1 DEF MainStates, MainOK, MainIdle
  <2> QED
    BY <2>1, <2>2, MainMoves
<1>5. ASSUME NEW c \in Slots, RequestStations(c)
      PROVE  Safe'
  <2> DEFINE t == head_station
  <2>1. /\ main' = [MainIdle EXCEPT !.pc = "walk", !.c = c, !.ptr = t]
        /\ UNCHANGED listVars /\ MainKeeps
    BY <1>5 DEF RequestStations
  <2>2. t # NULL => t \in Stations /\ Listed(t) /\ heap[t] # "unused"
    BY FindFacts DEF UnusedOK
  <2> HIDE DEF t
  <2>3. UNCHANGED <<heap, fault, station_list>> /\ \A u : Listed(u)' <=> Listed(u)
    BY <2>1 DEF listVars, stationVars, MainKeeps, Listed
  <2>4. main' \in MainStates /\ MainOK'
    BY <2>1, <2>2, <2>3 DEF MainStates, MainOK, MainIdle
  <2> QED
    BY <2>1, <2>4, MainMoves
<1>6. ASSUME NEW c \in Slots, DisconnectEarly(c)
      PROVE  Safe'
  BY <1>6, FailSafe DEF DisconnectEarly, Faults
<1>7. \A built \in {TRUE} \cup (IF "no_udp" \in Env THEN {FALSE} ELSE {}) : built \in BOOLEAN
  OBVIOUS
<1> QED
  BY <1>1, <1>2, <1>3, <1>4, <1>5, <1>6, <1>7 DEF ClientEvent

\* A step of the operator's thread that changes nothing but where it is, what
\* is cancelled and the lock of the list.
LEMMA OpMoves ==
  ASSUME Safe, fault = "none", OpKeeps, UNCHANGED <<listVars, lock, sender>>,
         list_lock' \in BOOLEAN, cancelled' \subseteq Stations, op' \in OpStates, OpOK',
         op.pc \notin {"push", "release"}, op'.pc # "push"
  PROVE  Safe'
<1>1. /\ UNCHANGED <<heap, station_list, cur_station, lock, sender, main, fault>>
      /\ UNCHANGED <<state, udp_sock, next_client, head_clients, tail_clients, counter, id>>
  BY DEF OpKeeps, listVars, clientVars, stationVars
<1>2. TypeOK'
  BY <1>1 DEF Safe, LockedStationLive, TypeOK, ListsTypeOK
<1>3. \A s : Listed(s)' <=> Listed(s)
  BY <1>1 DEF Listed
<1>4. LockedStationLive'
  BY <1>1, <1>2 DEF Safe, LockedStationLive
<1>5. MainOK' /\ UnusedOK'
  BY <1>1, <1>3 DEF Safe, MainOK, UnusedOK
<1>6. ListedAreLive'
  BY <1>1 DEF Safe, ListedAreLive
<1> QED
  BY <1>4, <1>5, <1>6 DEF Safe

\* add_station: the new station is not on the list yet.
LEMMA AddStationSafe ==
  ASSUME Safe, fault = "none", NEW s \in Stations, AddStation(s)
  PROVE  Safe'
<1> USE DEF Safe, LockedStationLive, TypeOK
<1>1. /\ op.pc = "input" /\ heap[s] = "unused"
      /\ heap' = [heap EXCEPT ![s] = "live"]
      /\ op' = [pc |-> "push", cmd |-> "a", st |-> s]
      /\ UNCHANGED <<clientVars, head_clients, tail_clients, counter, id, station_list>>
      /\ UNCHANGED <<lock, list_lock, cancelled, sender, main, fault>>
  BY DEF AddStation, OpKeeps
<1>2. UNCHANGED <<state, udp_sock, cur_station, next_client>>
  BY <1>1 DEF clientVars
<1>3. \A t \in Stations : heap'[t] = IF t = s THEN "live" ELSE heap[t]
  BY <1>1 DEF ListsTypeOK
<1>4. \A t : Listed(t)' <=> Listed(t)
  BY <1>1 DEF Listed
<1>5. TypeOK'
  <2>1. heap' \in [Stations -> {"unused", "live", "freed"}]
    BY <1>1 DEF ListsTypeOK
  <2>2. op' \in OpStates
    BY <1>1 DEF OpStates
  <2> QED
    BY <1>1, <1>2, <2>1, <2>2 DEF ListsTypeOK
<1>6. LockedStationLive'
  BY <1>1, <1>3, <1>5
<1>7. MainOK'
  BY <1>1, <1>3, <1>4 DEF MainOK, MainStates
<1>8. OpOK'
  BY <1>1, <1>3, <1>4 DEF OpOK, UnusedOK
<1>9. UnusedOK'
  BY <1>1, <1>2, <1>3, <1>4 DEF UnusedOK
<1>10. ListedAreLive'
  BY <1>1, <1>3, <1>4 DEF ListedAreLive, UnusedOK, Listed
<1> QED
  BY <1>6, <1>7, <1>8, <1>9, <1>10

\* push_station_to_list and spawn_sender.
LEMMA PushSafe ==
  ASSUME Safe, fault = "none", Push
  PROVE  Safe'
<1> USE DEF Safe, LockedStationLive, TypeOK
<1> DEFINE s == op.st
<1>1. /\ op.pc = "push" /\ s \in Stations
      /\ heap[s] = "live" /\ sender[s].pc = "none" /\ ~Listed(s)
  BY DEF Push, OpOK
<1>2. /\ sender' = [sender EXCEPT ![s] = SenderAt("read")]
      /\ op' = OpIdle /\ PushBody(s)
      /\ UNCHANGED <<lock, list_lock, cancelled, main, fault>>
  BY DEF Push, OpKeeps
<1> HIDE DEF s
<1>3. /\ UNCHANGED <<clientVars, head_clients, tail_clients, counter, heap>>
      /\ id' = [id EXCEPT ![s] = NextAvailable]
  BY <1>2 DEF PushBody
<1>4. UNCHANGED <<state, udp_sock, cur_station, next_client>>
  BY <1>3 DEF clientVars
<1>5. /\ station_list' \in Seq(Stations)
      /\ \A t : Listed(t)' <=> Listed(t) \/ t = s
      /\ EachOnce => EachOnce'
  BY <1>1, <1>2, PushFacts
<1>6. \A t \in Stations : sender'[t] = IF t = s THEN SenderAt("read") ELSE sender[t]
  BY <1>1, <1>2
<1>7. TypeOK'
  <2>1. id' \in [Stations -> Nat]
    BY <1>1, <1>3, NextAvailableType DEF ListsTypeOK
  <2>2. SenderAt("read") \in SenderStates
    BY DEF SenderAt, SenderStates
  <2>3. sender' \in [Stations -> SenderStates]
    BY <1>1, <1>2, <2>2
  <2>4. ListsTypeOK'
    BY <1>3, <1>4, <1>5, <2>1 DEF ListsTypeOK
  <2> QED
    BY <1>2, <2>3, <2>4, IdleOK
<1>8. LockedStationLive'
  <2>1. ~lock[s]
    BY <1>1
  <2> QED
    BY <1>2, <1>3, <1>6, <1>7, <2>1
<1>9. MainOK'
  BY <1>2, <1>3, <1>5 DEF MainOK
<1>10. OpOK'
  BY <1>2, IdleOK
<1>11. UnusedOK'
  BY <1>1, <1>3, <1>4, <1>5, <1>6 DEF UnusedOK
<1>12. EachOnce /\ \A t \in Stations : (heap[t] = "live" /\ t # s) <=> Listed(t)
  BY <1>1 DEF ListedAreLive, Listed, EachOnce, s
<1>13. EachOnce' /\ \A t \in Stations : heap'[t] = "live" <=> Listed(t)'
  BY <1>1, <1>3, <1>5, <1>12
<1>14. ListedAreLive'
  BY <1>2, <1>13 DEF ListedAreLive, Listed, EachOnce, OpIdle
<1> QED
  BY <1>8, <1>9, <1>10, <1>11, <1>14

\* The commands that find a station or take the lock of the list.
LEMMA CommandSafe ==
  ASSUME Safe, fault = "none",
         (\E i \in 0..MAX_STATION_NUM : Delete(i)) \/ Shutdown \/ Quit \/ List
  PROVE  Safe'
<1> USE DEF Safe, LockedStationLive, TypeOK
<1>0. /\ UNCHANGED <<heap, station_list>> => \A u : Listed(u)' <=> Listed(u)
      /\ UNCHANGED <<heap, station_list>> => (EachOnce' <=> EachOnce)
  BY DEF Listed, EachOnce
<1>1. ASSUME NEW i \in 0..MAX_STATION_NUM, Delete(i) PROVE Safe'
  <2> DEFINE t == find_station_from_id(i)
  <2>1. /\ op.pc = "input" /\ t # NULL /\ op' = [pc |-> "remove", cmd |-> "d", st |-> t]
        /\ UNCHANGED <<listVars, lock, list_lock, cancelled, sender>> /\ OpKeeps
    BY <1>1 DEF Delete
  <2>2. t \in Stations /\ Listed(t)
    BY <2>1, FindFacts
  <2> HIDE DEF t
  <2>3. UNCHANGED <<heap, station_list, sender>>
    BY <2>1 DEF listVars, stationVars
  <2>4. op' \in OpStates /\ OpOK'
    BY <1>0, <2>1, <2>2, <2>3 DEF OpStates, OpOK
  <2> QED
    BY <2>1, <2>4, OpMoves
<1>2. CASE Shutdown
  <2> DEFINE t == head_station
  <2>1. /\ op.pc = "input" /\ station_list # <<>> /\ op' = [pc |-> "remove", cmd |-> "s", st |-> t]
        /\ UNCHANGED <<listVars, lock, list_lock, cancelled, sender>> /\ OpKeeps
    BY <1>2 DEF Shutdown
  <2>2. t \in Stations /\ Listed(t)
    BY <2>1, ListFacts DEF head_station, Listed
  <2> HIDE DEF t
  <2>3. UNCHANGED <<heap, station_list, sender>>
    BY <2>1 DEF listVars, stationVars
  <2>4. op' \in OpStates /\ OpOK'
    BY <1>0, <2>1, <2>2, <2>3 DEF OpStates, OpOK
  <2> QED
    BY <2>1, <2>4, OpMoves
<1>3. CASE List
  <2> DEFINE t == head_station
  <2>1. /\ op.pc = "input" /\ op' = [pc |-> "print", cmd |-> "l", st |-> t] /\ list_lock' = TRUE
        /\ UNCHANGED <<listVars, lock, cancelled, sender>> /\ OpKeeps
    BY <1>3 DEF List
  <2>2. t # NULL => t \in Stations /\ Listed(t)
    BY FindFacts
  <2> HIDE DEF t
  <2>3. UNCHANGED <<heap, station_list, sender>>
    BY <2>1 DEF listVars, stationVars
  <2>4. op' \in OpStates /\ OpOK'
    BY <1>0, <2>1, <2>2, <2>3 DEF OpStates, OpOK
  <2> QED
    BY <2>1, <2>4, OpMoves
<1>4. CASE Quit
  <2>1. CASE \E n \in DOMAIN station_list : sender[station_list[n]].pc = "dead"
    BY <1>4, <2>1, FailSafe DEF Quit, Faults
  <2>2. CASE ~ \E n \in DOMAIN station_list : sender[station_list[n]].pc = "dead"
    <3> DEFINE t == head_station
    <3>1. /\ op.pc = "input" /\ op' = [pc |-> "release", cmd |-> "q", st |-> t]
          /\ list_lock' = TRUE
          /\ cancelled' = cancelled \cup {station_list[n] : n \in DOMAIN station_list}
          /\ UNCHANGED <<listVars, lock, sender>> /\ OpKeeps
      BY <1>4, <2>2 DEF Quit
    <3>2. t # NULL => t \in Stations /\ 1 \in DOMAIN station_list /\ station_list[1] = t
      BY ListFacts DEF head_station
    <3>3. EachOnce /\ \A n \in DOMAIN station_list : heap[station_list[n]] = "live"
      BY <3>1, ListFacts DEF ListedAreLive, EachOnce
    <3> HIDE DEF t
    <3>4. UNCHANGED <<heap, station_list, sender>>
      BY <3>1 DEF listVars, stationVars
    <3>5. cancelled' \subseteq Stations
      BY <3>1, ListFacts
    <3>6. op' \in OpStates /\ OpOK'
      BY <1>0, <3>1, <3>2, <3>3, <3>4 DEF OpStates, OpOK
    <3> QED
      BY <3>1, <3>5, <3>6, OpMoves
  <2> QED
    BY <2>1, <2>2
<1> QED
  BY <1>1, <1>2, <1>3, <1>4

\* remove_station up to the lock of the station, and print_stations.
LEMMA RemoveStationSafe ==
  ASSUME Safe, fault = "none", RemoveStation \/ PrintStations
  PROVE  Safe'
<1> USE DEF Safe, LockedStationLive, TypeOK
<1> DEFINE s == op.st
<1>0. /\ UNCHANGED station_list => \A u : Listed(u)' <=> Listed(u)
      /\ UNCHANGED <<listVars, sender>> => UNCHANGED <<heap, station_list, sender>>
  BY DEF Listed, listVars, stationVars
<1>1. CASE RemoveStation
  <2>1. CASE sender[s].pc = "dead"
    BY <1>1, <2>1, FailSafe DEF RemoveStation, Faults
  <2>2. CASE sender[s].pc # "dead"
    <3>1. /\ op.pc = "remove" /\ list_lock' = TRUE /\ cancelled' = cancelled \cup {s}
          /\ op' = [op EXCEPT !.pc = "close"]
          /\ UNCHANGED <<listVars, lock, sender>> /\ OpKeeps
      BY <1>1, <2>2 DEF RemoveStation
    <3>2. s \in Stations /\ Listed(s)
      BY <3>1 DEF OpOK
    <3>3. op' \in OpStates /\ OpOK'
      BY <1>0, <3>1, <3>2 DEF OpStates, OpOK
    <3> QED
      BY <3>1, <3>2, <3>3, OpMoves
  <2> QED
    BY <2>1, <2>2
<1>2. CASE PrintStations
  <2>1. CASE s = NULL
    <3>1. op.pc = "print" /\ list_lock' = FALSE /\ op' = OpIdle
          /\ UNCHANGED <<listVars, lock, cancelled, sender>> /\ OpKeeps
      BY <1>2, <2>1 DEF PrintStations
    <3>2. OpIdle.pc # "push"
      BY DEF OpIdle
    <3> QED
      BY <3>1, <3>2, IdleOK, OpMoves
  <2>2. CASE s # NULL /\ Cyclic(s)
    BY <1>2, <2>2, FailSafe DEF PrintStations, Faults
  <2>3. CASE s # NULL /\ ~Cyclic(s)
    <3> DEFINE t == next_station(s)
    <3>1. /\ op.pc = "print" /\ op' = [op EXCEPT !.st = t]
          /\ UNCHANGED <<listVars, lock, list_lock, cancelled, sender>> /\ OpKeeps
      BY <1>2, <2>3 DEF PrintStations
    <3>2. s \in Stations /\ Listed(s)
      BY <2>3, <3>1 DEF OpOK, OpStates
    <3>3. t # NULL => t \in Stations /\ Listed(t)
      BY <3>2, NextFacts
    <3> HIDE DEF t
    <3>4. op' \in OpStates /\ OpOK'
      BY <1>0, <3>1, <3>3 DEF OpStates, OpOK
    <3>5. op'.pc = "print"
      BY <3>1 DEF OpStates
    <3> QED
      BY <3>1, <3>4, <3>5, OpMoves
  <2> QED
    BY <2>1, <2>2, <2>3
<1> QED
  BY <1>1, <1>2

\* What the visit of its listeners leaves of a station that is closed.
LEMMA ForgetTypes ==
  ASSUME ListsTypeOK, NEW s \in Stations, Forget(s)
  PROVE  /\ next_client' \in [Slots -> Slots \cup {NULL}]
         /\ cur_station' \in [Slots -> Stations \cup {NULL}]
         /\ \A c \in Slots : cur_station'[c] # NULL => cur_station'[c] = cur_station[c]
<1>1. /\ next_client' = [c \in Slots |-> IF c \in Reached(s) THEN NULL ELSE next_client[c]]
      /\ cur_station' = [c \in Slots |-> IF c \in Reached(s) THEN NULL ELSE cur_station[c]]
  BY DEF Forget
<1> QED
  BY <1>1 DEF ListsTypeOK

\* The end of remove_station, with the lock of its station.
LEMMA CloseStationSafe ==
  ASSUME Safe, fault = "none", CloseStation
  PROVE  Safe'
<1> USE DEF Safe, LockedStationLive, TypeOK
<1> DEFINE s == op.st
<1>1. op.pc = "close" /\ s \in Stations /\ Listed(s) /\ ~lock[s] /\ op \in OpStates
  BY DEF CloseStation, OpOK
<1>2. CASE CounterAfterClose(s) # 0
  BY <1>2, FailSafe DEF CloseStation, Faults
<1>3. CASE CounterAfterClose(s) = 0
  <2>1. /\ CloseBody(s) /\ list_lock' = FALSE
        /\ op' = IF op.cmd = "s" /\ station_list' # <<>>
                 THEN [op EXCEPT !.pc = "remove", !.st = Head(station_list')] ELSE OpIdle
        /\ UNCHANGED <<lock, cancelled, sender, main, fault>>
    BY <1>3 DEF CloseStation, OpKeeps
  <2> HIDE DEF s
  <2>2. /\ Forget(s) /\ counter' = [counter EXCEPT ![s] = 0]
        /\ heap' = [heap EXCEPT ![s] = "freed"] /\ station_list' = Unlinked(s)
        /\ UNCHANGED <<state, udp_sock, head_clients, tail_clients, id>>
    BY <1>3, <2>1 DEF CloseBody
  <2>3. EachOnce /\ \A t \in Stations : heap[t] = "live" <=> Listed(t)
    BY <1>1 DEF ListedAreLive, EachOnce, Listed
  <2>4. /\ station_list' \in Seq(Stations) /\ EachOnce'
        /\ \A t \in Stations : Listed(t)' <=> Listed(t) /\ t # s
    BY <1>1, <2>2, <2>3, UnlinkedFacts
  <2>5. \A t \in Stations : heap'[t] = IF t = s THEN "freed" ELSE heap[t]
    BY <1>1, <2>2 DEF ListsTypeOK
  <2>6. ListsTypeOK'
    <3>1. counter' \in [Stations -> Nat] /\ heap' \in [Stations -> {"unused", "live", "freed"}]
      BY <1>1, <2>2 DEF ListsTypeOK
    <3> QED
      BY <1>1, <2>2, <2>4, <3>1, ForgetTypes DEF ListsTypeOK
  <2>7. station_list' # <<>> =>
          /\ Head(station_list') \in Stations
          /\ \E n \in DOMAIN station_list' : station_list'[n] = Head(station_list')
    <3>1. station_list' # <<>> =>
            1 \in DOMAIN station_list' /\ Head(station_list') = station_list'[1]
                /\ station_list'[1] \in Stations
      BY <2>4, EmptySeq, LenProperties
    <3> QED
      BY <3>1
  <2>8. op' \in OpStates
    BY <1>1, <2>1, <2>7, IdleOK DEF OpStates
  <2>9. TypeOK'
    BY <2>1, <2>6, <2>8
  <2>10. LockedStationLive'
    BY <1>1, <2>1, <2>5, <2>9
  <2>11. MainOK'
    <3>1. main.ptr # NULL => main.ptr \in Stations
      BY DEF MainStates
    <3>2. main.target # NULL => main.target \in Stations
      BY DEF MainStates
    <3> QED
      BY <2>1, <2>4, <2>5, <3>1, <3>2 DEF MainOK
  <2>12. OpOK'
    <3>1. CASE op.cmd = "s" /\ station_list' # <<>>
      <4>1. op'.pc = "remove" /\ op'.st = Head(station_list')
        BY <1>1, <2>1, <3>1 DEF OpStates
      <4> QED
        BY <2>7, <3>1, <4>1 DEF OpOK, Listed
    <3>2. CASE ~(op.cmd = "s" /\ station_list' # <<>>)
      BY <2>1, <3>2, IdleOK
    <3> QED
      BY <3>1, <3>2
  <2>13. UnusedOK'
    BY <1>1, <2>1, <2>2, <2>4, <2>5, ForgetTypes, SlotsFinite DEF UnusedOK, ListsTypeOK
  <2>14. ListedAreLive'
    <3>1. op'.pc # "push"
      BY <1>1, <2>1 DEF OpIdle, OpStates
    <3>2. \A t \in Stations : heap'[t] = "live" <=> Listed(t)'
      BY <2>3, <2>4, <2>5
    <3> QED
      BY <2>4, <3>1, <3>2 DEF ListedAreLive, Listed, EachOnce
  <2> QED
    BY <2>10, <2>11, <2>12, <2>13, <2>14
<1> QED
  BY <1>2, <1>3

\* release_stations.
LEMMA ReleaseSafe ==
  ASSUME Safe, fault = "none", Release
  PROVE  Safe'
<1> USE DEF Safe, LockedStationLive, TypeOK
<1> DEFINE s == op.st
<1>1. op.pc = "release" /\ s \in Stations /\ ~lock[s] /\ op \in OpStates /\ s # NULL
  BY DEF Release, OpStates
<1>2. PICK k \in DOMAIN station_list :
         /\ station_list[k] = s
         /\ \A n \in DOMAIN station_list : n >= k => heap[station_list[n]] = "live"
  BY <1>1 DEF OpOK
<1>3. Listed(s) /\ EachOnce
  BY <1>1, <1>2 DEF OpOK, Listed
<1>4. CASE CounterAfterClose(s) # 0
  BY <1>4, FailSafe DEF Release, Faults
<1>5. CASE CounterAfterClose(s) = 0
  <2>1. /\ Forget(s) /\ counter' = [counter EXCEPT ![s] = 0]
        /\ head_clients' = [head_clients EXCEPT ![s] = NULL]
        /\ tail_clients' = [tail_clients EXCEPT ![s] = NULL]
        /\ heap' = [heap EXCEPT ![s] = "freed"]
        /\ op' = [op EXCEPT !.st = next_station(s)]
        /\ UNCHANGED <<state, udp_sock, id, station_list>>
        /\ UNCHANGED <<lock, list_lock, cancelled, sender, main, fault>>
    BY <1>5 DEF Release, OpKeeps
  <2> DEFINE t == next_station(s)
  <2>2. t = IF k = Len(station_list) THEN NULL ELSE station_list[k + 1]
    BY <1>1, <1>2, <1>3, NextFacts
  <2>3. t # NULL => t \in Stations
    BY <1>1, <1>3, NextFacts
  <2> HIDE DEF s, t
  <2>4. \A u \in Stations : heap'[u] = IF u = s THEN "freed" ELSE heap[u]
    BY <1>1, <2>1 DEF ListsTypeOK
  <2>5. (\A u : Listed(u)' <=> Listed(u)) /\ EachOnce'
    BY <1>3, <2>1 DEF Listed, EachOnce
  <2>6. ListsTypeOK'
    <3>1. counter' \in [Stations -> Nat] /\ heap' \in [Stations -> {"unused", "live", "freed"}]
      BY <1>1, <2>1 DEF ListsTypeOK
    <3>2. /\ head_clients' \in [Stations -> Slots \cup {NULL}]
          /\ tail_clients' \in [Stations -> Slots \cup {NULL}]
      BY <1>1, <2>1 DEF ListsTypeOK
    <3> QED
      BY <1>1, <2>1, <3>1, <3>2, ForgetTypes DEF ListsTypeOK
  <2>7. op' \in OpStates /\ op'.pc = "release" /\ op'.st = t
    BY <1>1, <2>1, <2>3 DEF OpStates, t
  <2>8. TypeOK'
    BY <2>1, <2>6, <2>7
  <2>9. LockedStationLive'
    BY <1>1, <2>1, <2>4, <2>8
  <2>10. MainOK'
    <3>1. main.ptr # NULL => main.ptr \in Stations
      BY DEF MainStates
    <3>2. main.target # NULL => main.target \in Stations
      BY DEF MainStates
    <3> QED
      BY <2>1, <2>4, <2>5, <3>1, <3>2 DEF MainOK
  <2>11. OpOK'
    <3>1. ASSUME t # NULL
          PROVE  /\ k + 1 \in DOMAIN station_list /\ station_list[k + 1] = t
                 /\ \A n \in DOMAIN station_list : n >= k + 1 => heap'[station_list[n]] = "live"
      <4>1. k \in Nat /\ k + 1 \in DOMAIN station_list /\ station_list[k + 1] = t
        BY <1>2, <2>2, <3>1, ListFacts
      <4>2. ASSUME NEW n \in DOMAIN station_list, n >= k + 1 PROVE heap'[station_list[n]] = "live"
        <5>1. n >= k /\ n # k
          BY <4>1, <4>2, ListFacts
        <5>2. station_list[n] # s /\ station_list[n] \in Stations
          BY <1>2, <1>3, <5>1, ListFacts DEF EachOnce
        <5> QED
          BY <1>2, <2>4, <5>1, <5>2
      <4> QED
        BY <4>1, <4>2
    <3> QED
      BY <2>1, <2>5, <2>7, <3>1 DEF OpOK
  <2>12. UnusedOK'
    BY <1>1, <2>1, <2>4, <2>5, ForgetTypes, SlotsFinite DEF UnusedOK, ListsTypeOK
  <2>13. ListedAreLive'
    BY <2>7 DEF ListedAreLive
  <2> QED
    BY <2>9, <2>10, <2>11, <2>12, <2>13
<1> QED
  BY <1>4, <1>5

LEMMA ReleasedSafe ==
  ASSUME Safe, fault = "none", Released
  PROVE  Safe'
<1> USE DEF Safe, LockedStationLive, TypeOK
<1>1. /\ op.pc = "release" /\ station_list' = <<>> /\ fault' = "destroyed lock"
      /\ UNCHANGED <<clientVars, head_clients, tail_clients, counter, heap, id>>
      /\ UNCHANGED <<lock, list_lock, cancelled, main, op, sender>>
  BY DEF Released
<1>2. UNCHANGED <<state, udp_sock, cur_station, next_client>>
  BY <1>1 DEF clientVars
<1>3. station_list' \in Seq(Stations) /\ \A u : ~Listed(u)'
  <2>1. station_list' \in Seq(Stations) /\ Len(station_list') = 0
    BY <1>1, EmptySeq
  <2>2. DOMAIN station_list' = 1..0
    BY <2>1, LenProperties
  <2> QED
    BY <2>1, <2>2 DEF Listed
<1>4. TypeOK'
  <2>1. station_list' \in Seq(Stations) /\ fault' \in Faults
    BY <1>1, <1>3 DEF Faults
  <2>2. ListsTypeOK'
    BY <1>1, <1>2, <2>1 DEF ListsTypeOK
  <2> QED
    BY <1>1, <2>1, <2>2
<1>5. LockedStationLive'
  BY <1>1, <1>4
<1>6. MainOK' /\ OpOK'
  BY <1>1 DEF MainOK, OpOK
<1>7. UnusedOK' /\ ListedAreLive'
  BY <1>1, <1>2, <1>3 DEF UnusedOK, ListedAreLive
<1> QED
  BY <1>5, <1>6, <1>7

LEMMA OpStepSafe ==
  ASSUME Safe, fault = "none", OpStep \/ Command
  PROVE  Safe'
  BY PushSafe, RemoveStationSafe, CloseStationSafe, ReleaseSafe, ReleasedSafe, AddStationSafe,
     CommandSafe
     DEF OpStep, Command

\* A step of a sender keeps everything but its own state and its lock.
LEMMA SenderMoves ==
  ASSUME Safe, fault = "none", NEW s \in Stations, NEW next \in SenderStates, Become(s, next),
         sender[s].pc # "none", next.pc # "none", lock' \in [Stations -> BOOLEAN],
         \A t \in Stations : t # s => lock'[t] = lock[t],
         lock'[s] => heap[s] = "live" /\ next.pc \in {"send", "dead"}
  PROVE  Safe'
<1> USE DEF Safe, LockedStationLive, TypeOK
<1>1. /\ sender' = [sender EXCEPT ![s] = next]
      /\ UNCHANGED <<listVars, list_lock, cancelled, main, op, fault>>
  BY DEF Become
<1>2. /\ UNCHANGED <<heap, station_list, cur_station>>
      /\ UNCHANGED <<state, udp_sock, next_client, head_clients, tail_clients, counter, id>>
  BY <1>1 DEF listVars, clientVars, stationVars
<1>3. \A t \in Stations : sender'[t] = IF t = s THEN next ELSE sender[t]
  BY <1>1
<1>4. (\A t : Listed(t)' <=> Listed(t)) /\ (EachOnce' <=> EachOnce)
  BY <1>2 DEF Listed, EachOnce
<1>5. TypeOK'
  <2>1. sender' \in [Stations -> SenderStates]
    BY <1>1
  <2>2. ListsTypeOK'
    BY <1>2 DEF ListsTypeOK
  <2> QED
    BY <1>1, <2>1, <2>2
<1>6. LockedStationLive'
  BY <1>2, <1>3, <1>5
<1>7. MainOK'
  BY <1>1, <1>2, <1>4 DEF MainOK
<1>8. OpOK'
  <2>1. op.pc = "push" => op.st # s
    BY DEF OpOK
  <2> QED
    BY <1>1, <1>2, <1>3, <1>4, <2>1 DEF OpOK
<1>9. UnusedOK'
  BY <1>2, <1>3, <1>4 DEF UnusedOK
<1>10. ListedAreLive'
  BY <1>1, <1>2 DEF ListedAreLive
<1> QED
  BY <1>6, <1>7, <1>8, <1>9, <1>10

LEMMA SenderStepSafe ==
  ASSUME Safe, fault = "none", NEW s \in Stations, SenderStep(s)
  PROVE  Safe'
<1> USE DEF Safe, LockedStationLive, TypeOK
<1>1. /\ sender[s] \in SenderStates
      /\ \A pc \in {"read", "lock", "next", "announce", "dead"} : SenderAt(pc) \in SenderStates
      /\ \A pc : SenderAt(pc).pc = pc
  BY DEF SenderAt, SenderStates
<1>2. head_clients[s] \in Slots \cup {NULL} /\ sender[s].at \in Slots \cup {NULL}
  BY <1>1 DEF ListsTypeOK, SenderStates
<1>3. \A c \in Slots : next_client[c] \in Slots \cup {NULL}
  BY DEF ListsTypeOK
<1>4. ASSUME NEW eof \in BOOLEAN, Read(s, eof) PROVE Safe'
  <2>1. /\ sender[s].pc = "read" /\ lock' = lock
        /\ \/ Become(s, SenderAt("dead"))
           \/ Become(s, [SenderAt("lock") EXCEPT !.eof = eof])
    BY <1>4 DEF Read
  <2>2. ~lock[s]
    BY <2>1
  <2>3. [SenderAt("lock") EXCEPT !.eof = eof] \in SenderStates
        /\ [SenderAt("lock") EXCEPT !.eof = eof].pc = "lock"
    BY DEF SenderAt, SenderStates
  <2> QED
    BY <1>1, <2>1, <2>2, <2>3, SenderMoves
<1>5. CASE OpenFails(s)
  <2>1. sender[s].pc = "read" /\ lock' = lock /\ Become(s, SenderAt("dead"))
    BY <1>5 DEF OpenFails
  <2>2. ~lock[s]
    BY <2>1
  <2> QED
    BY <1>1, <2>1, <2>2, SenderMoves
<1>6. CASE LockStation(s)
  <2>1. CASE heap[s] = "freed"
    BY <1>6, <2>1, FailSafe DEF LockStation, Faults
  <2>2. CASE heap[s] # "freed"
    <3> DEFINE next == [sender[s] EXCEPT !.pc = "send", !.at = head_clients[s]]
    <3>1. /\ sender[s].pc = "lock" /\ Become(s, next) /\ lock' = [lock EXCEPT ![s] = TRUE]
      BY <1>6, <2>2 DEF LockStation
    <3>2. next \in SenderStates /\ next.pc = "send"
      BY <1>1, <1>2 DEF SenderStates
    <3>3. heap[s] = "live"
      BY <2>2, <3>1 DEF UnusedOK, ListsTypeOK
    <3>4. lock' \in [Stations -> BOOLEAN]
      BY <3>1
    <3>5. \A t \in Stations : t # s => lock'[t] = lock[t]
      BY <3>1
    <3> HIDE DEF next
    <3> QED
      BY <3>1, <3>2, <3>3, <3>4, <3>5, SenderMoves
  <2> QED
    BY <2>1, <2>2
<1>7. CASE SendChunk(s)
  <2> DEFINE c == sender[s].at
             next == [sender[s] EXCEPT !.at = next_client[c], !.sent = @ \cup {c}]
  <2>1. sender[s].pc = "send" /\ c # NULL /\ c \in Slots
    BY <1>2, <1>7 DEF SendChunk
  <2>2. CASE state[c] # "HANDSHAKED" \/ ~udp_sock[c]
    BY <1>7, <2>2, FailSafe DEF SendChunk, Faults
  <2>3. CASE ~(state[c] # "HANDSHAKED" \/ ~udp_sock[c])
    <3>1. lock' = lock /\ (Become(s, SenderAt("dead")) \/ Become(s, next))
      BY <1>7, <2>3 DEF SendChunk
    <3>2. next \in SenderStates /\ next.pc = "send"
      BY <1>1, <1>3, <2>1 DEF SenderStates
    <3> HIDE DEF next
    <3> QED
      BY <1>1, <2>1, <3>1, <3>2, SenderMoves
  <2> QED
    BY <2>2, <2>3
<1>8. CASE UnlockStation(s)
  <2>1. /\ sender[s].pc = "send" /\ lock' = [lock EXCEPT ![s] = FALSE]
        /\ Become(s, SenderAt("next")) \/ Become(s, SenderAt("read"))
    BY <1>8 DEF UnlockStation
  <2>2. lock' \in [Stations -> BOOLEAN]
    BY <2>1
  <2>3. \A t \in Stations : t # s => lock'[t] = lock[t]
    BY <2>1
  <2>4. ASSUME NEW pc \in {"next", "read"}, Become(s, SenderAt(pc)) PROVE Safe'
    <3>1. SenderAt(pc) \in SenderStates /\ SenderAt(pc).pc # "none"
      BY <1>1
    <3>2. lock'[s] => heap[s] = "live" /\ SenderAt(pc).pc \in {"send", "dead"}
      BY <2>1
    <3> QED
      BY <2>1, <2>2, <2>3, <2>4, <3>1, <3>2, SenderMoves
  <2> QED
    BY <2>1, <2>4
<1>9. CASE NextSong(s)
  <2>1. CASE heap[s] = "freed"
    BY <1>9, <2>1, FailSafe DEF NextSong, Faults
  <2>2. CASE heap[s] # "freed"
    <3> DEFINE next == [SenderAt("announce") EXCEPT !.at = head_clients[s]]
    <3>1. sender[s].pc = "next" /\ Become(s, next) /\ lock' = lock
      BY <1>9, <2>2 DEF NextSong
    <3>2. next \in SenderStates /\ next.pc = "announce"
      BY <1>2 DEF SenderStates, SenderAt
    <3>3. ~lock[s]
      BY <3>1
    <3> HIDE DEF next
    <3> QED
      BY <3>1, <3>2, <3>3, SenderMoves
  <2> QED
    BY <2>1, <2>2
<1>10. CASE Announce(s)
  <2> DEFINE c == sender[s].at
             next == [sender[s] EXCEPT !.at = next_client[c]]
  <2>1. sender[s].pc = "announce" /\ ~lock[s]
    BY <1>10 DEF Announce
  <2>2. \/ Fail("freed station") \/ Fail("assert announce")
        \/ lock' = lock /\ (Become(s, SenderAt("read")) \/ Become(s, SenderAt("dead")))
        \/ lock' = lock /\ c # NULL /\ Become(s, next)
    BY <1>10 DEF Announce
  <2>3. c # NULL => next \in SenderStates /\ next.pc = "announce"
    BY <1>1, <1>2, <1>3, <2>1 DEF SenderStates
  <2> HIDE DEF next
  <2>4. "freed station" \in Faults \ {"none"} /\ "assert announce" \in Faults \ {"none"}
    BY DEF Faults
  <2> QED
    BY <1>1, <2>1, <2>2, <2>3, <2>4, SenderMoves, FailSafe
<1>11. \A eof \in {FALSE} \cup (IF "next_song" \in Env THEN {TRUE} ELSE {}) : eof \in BOOLEAN
  OBVIOUS
<1> QED
  BY <1>4, <1>5, <1>6, <1>7, <1>8, <1>9, <1>10, <1>11 DEF SenderStep

\* Every step keeps the inductive invariant.
LEMMA NextSafe ==
  ASSUME Safe, [Next]_vars
  PROVE  Safe'
<1>1. CASE Next
  BY <1>1, MainStepSafe, ClientEventSafe, OpStepSafe, SenderStepSafe DEF Next
<1>2. CASE UNCHANGED vars
  <2>1. /\ UNCHANGED <<heap, station_list, cur_station, lock, sender, main, op, list_lock, cancelled>>
        /\ UNCHANGED <<state, udp_sock, next_client, head_clients, tail_clients, counter, id, fault>>
    BY <1>2 DEF vars, threadVars, listVars, clientVars, stationVars
  <2>2. TypeOK'
    BY <2>1 DEF Safe, LockedStationLive, TypeOK, ListsTypeOK
  <2>3. LockedStationLive'
    BY <2>1, <2>2 DEF Safe, LockedStationLive
  <2>4. (\A t : Listed(t)' <=> Listed(t)) /\ (EachOnce' <=> EachOnce)
    BY <2>1 DEF Listed, EachOnce
  <2>5. MainOK' /\ OpOK' /\ UnusedOK' /\ ListedAreLive'
    BY <2>1, <2>4 DEF Safe, MainOK, OpOK, UnusedOK, ListedAreLive
  <2> QED
    BY <2>3, <2>5 DEF Safe
<1> QED
  BY <1>1, <1>2

\* Whatever the clients, the operator and the files do, the state of the server
\* stays well typed and a sender that holds the lock of its station has a
\* station that was not freed.
THEOREM LocksKeepStations == Spec => []LockedStationLive
<1>1. Safe => LockedStationLive
  BY DEF Safe
<1> QED
  BY <1>1, InitSafe, NextSafe, PTL DEF Spec

\* g_station_list names exactly the stations that are live, each once, whatever
\* order add_station, remove_station and shutdown_all come in.
THEOREM StationListExact == Spec => []ListedAreLive
<1>1. Safe => ListedAreLive
  BY DEF Safe
<1> QED
  BY <1>1, InitSafe, NextSafe, PTL DEF Spec

-----------------------------------------------------------------------------
(* What holds when no client sets a station twice.  A client that moves is   *)
(* appended with the successor it had on its old list, and one that sets the *)
(* station it has is taken off the list and not put back.                    *)

StationsSetOnce == "move" \notin Env /\ "same" \notin Env

\* The clients whose cur_station is s.
Tuned(s) == {c \in Slots : cur_station[c] = s}

\* The list of s is q[1] to q[n], its listeners, and a sender that is in the
\* middle of a pass has served the first k of them and comes to the next one.
Line(s, n, q) ==
  /\ Chain(s, n, q)
  /\ {q[i] : i \in 1..n} = Listeners(s)
  /\ sender[s].pc = "send" =>
       \E k \in 0..n : /\ sender[s].at = IF k = n THEN NULL ELSE q[k + 1]
                       /\ sender[s].sent = {q[i] : i \in 1..k}

InLine(s) == \E n \in Nat : \E q \in [1..n -> Slots] : Line(s, n, q)

\* A station that is not allocated has an empty list, and a live one counts at
\* least the clients that are tuned to it.
CountsOK ==
  \A s \in Stations :
    /\ heap[s] = "unused" => head_clients[s] = NULL /\ tail_clients[s] = NULL
    /\ heap[s] = "live" => counter[s] >= Cardinality(Tuned(s))

\* A client without a station is linked to nobody, unless it is on its way out.
LooseOK ==
  \A c \in Slots : cur_station[c] = NULL /\ ~(main.c = c /\ main.pc = "reset")
    => next_client[c] = NULL

\* A client gets a station only if it has none, and the station that it leaves
\* is its own as long as it is live.
HandlerOK ==
  /\ main.pc \in {"remove", "append"} /\ main.target # NULL => cur_station[main.c] = NULL
  /\ main.pc \in {"remove_lock", "reset"} => main.target = NULL
  /\ main.pc = "remove_lock" /\ heap[main.ptr] = "live" => cur_station[main.c] = main.ptr

\* A sender in the middle of a pass has the lock, and begins with nobody
\* served.
PassOK ==
  \A s \in Stations :
    /\ sender[s].pc = "send" => lock[s]
    /\ sender[s].pc = "lock" => sender[s].sent = {}

Linked ==
  fault = "none" =>
    /\ CurStationLive
    /\ \A s \in Stations : heap[s] = "live" => InLine(s)
    /\ CountsOK /\ LooseOK /\ HandlerOK /\ PassOK

\* What the three properties say follows.
LEMMA LinkedImplies ==
  ASSUME Safe, Linked
  PROVE  ListsExact /\ CurStationLive /\ PassServesListeners
<1>1. CurStationLive
  BY DEF Linked, CurStationLive
<1>2. ASSUME fault = "none", NEW s \in Stations, heap[s] = "live"
      PROVE  /\ ~Cyclic(s)
             /\ Reached(s) = Listeners(s)
             /\ head_clients[s] = NULL <=> tail_clients[s] = NULL
             /\ tail_clients[s] # NULL
                => tail_clients[s] \in Reached(s) /\ next_client[tail_clients[s]] = NULL
             /\ counter[s] >= Cardinality(Reached(s))
             /\ sender[s].pc = "send" /\ sender[s].at = NULL => sender[s].sent = Listeners(s)
  <2>0. PICK n \in Nat : \E q \in [1..n -> Slots] : Line(s, n, q)
    BY <1>2 DEF Linked, InLine
  <2>1. PICK q \in [1..n -> Slots] : Line(s, n, q)
    BY <2>0
  <2>2. Chain(s, n, q) /\ {q[i] : i \in 1..n} = Listeners(s)
    BY <2>1 DEF Line
  <2>3. ~Cyclic(s) /\ Reached(s) = Listeners(s)
    BY <2>2, ChainWalk DEF Safe, LockedStationLive, TypeOK
  <2>4. n # 0 => /\ 1 \in 1..n /\ n \in 1..n
                 /\ q[1] # NULL /\ q[n] # NULL
    BY SlotsFinite
  <2>5. head_clients[s] = NULL <=> tail_clients[s] = NULL
    BY <2>2, <2>4 DEF Chain
  <2>6. tail_clients[s] # NULL
           => tail_clients[s] \in Reached(s) /\ next_client[tail_clients[s]] = NULL
    BY <2>2, <2>3, <2>4 DEF Chain
  <2>7. counter[s] >= Cardinality(Reached(s))
    <3>1. Listeners(s) \in SUBSET Tuned(s) /\ Tuned(s) \in SUBSET Slots
      BY DEF Listeners, Tuned
    <3>2. IsFiniteSet(Tuned(s))
      BY <3>1, FS_Subset, ListsAssumption
    <3>3. /\ Cardinality(Listeners(s)) <= Cardinality(Tuned(s))
          /\ Cardinality(Tuned(s)) \in Nat /\ Cardinality(Listeners(s)) \in Nat
      BY <3>1, <3>2, FS_Subset, FS_CardinalityType
    <3>4. counter[s] \in Nat /\ counter[s] >= Cardinality(Tuned(s))
      BY <1>2 DEF Linked, CountsOK, Safe, LockedStationLive, TypeOK, ListsTypeOK
    <3> QED
      BY <2>3, <3>3, <3>4
  <2>8. ASSUME sender[s].pc = "send", sender[s].at = NULL PROVE sender[s].sent = Listeners(s)
    <3>1. PICK k \in 0..n : /\ sender[s].at = IF k = n THEN NULL ELSE q[k + 1]
                            /\ sender[s].sent = {q[i] : i \in 1..k}
      BY <2>1, <2>8 DEF Line
    <3>2. k # n => k + 1 \in 1..n /\ q[k + 1] \in Slots
      OBVIOUS
    <3>3. k = n
      BY <2>8, <3>1, <3>2, SlotsFinite
    <3> QED
      BY <2>2, <3>1, <3>3
  <2> QED
    BY <2>3, <2>5, <2>6, <2>7, <2>8
<1>3. ListsExact
  BY <1>2 DEF ListsExact
<1>4. PassServesListeners
  <2>1. \A s \in Stations : fault = "none" /\ sender[s].pc = "send" => heap[s] = "live"
    BY DEF Linked, PassOK, Safe, LockedStationLive
  <2> QED
    BY <1>2, <2>1 DEF PassServesListeners
<1> QED
  BY <1>1, <1>3, <1>4

\* At the start every list is empty.
LEMMA InitLinked == Init => Linked
<1> SUFFICES ASSUME Init PROVE Linked
  OBVIOUS
<1>1. /\ cur_station = [c \in Slots |-> NULL] /\ next_client = [c \in Slots |-> NULL]
      /\ head_clients = [s \in Stations |-> NULL] /\ tail_clients = [s \in Stations |-> NULL]
      /\ counter = [s \in Stations |-> 0] /\ main = MainIdle
      /\ sender = [s \in Stations |-> SenderAt(IF heap[s] = "live" THEN "read" ELSE "none")]
  BY DEF Init, ListsInit
<1>2. CurStationLive /\ LooseOK
  BY <1>1, SlotsFinite DEF CurStationLive, LooseOK
<1>3. HandlerOK
  BY <1>1 DEF HandlerOK, MainIdle
<1>4. \A s \in Stations : sender[s].pc \notin {"send", "lock"}
  BY <1>1 DEF SenderAt
<1>5. PassOK
  BY <1>4 DEF PassOK
<1>6. \A s \in Stations : Tuned(s) = {} /\ Listeners(s) = {}
  BY <1>1, SlotsFinite DEF Tuned, Listeners
<1>7. CountsOK
  BY <1>1, <1>6, FS_EmptySet DEF CountsOK
<1>8. ASSUME NEW s \in Stations PROVE InLine(s)
  <2> DEFINE q == [i \in 1..0 |-> NULL]
  <2>1. q \in [1..0 -> Slots]
    OBVIOUS
  <2>2. Line(s, 0, q)
    BY <1>1, <1>4, <1>6 DEF Line, Chain
  <2> QED
    BY <2>1, <2>2 DEF InLine
<1> QED
  BY <1>2, <1>3, <1>5, <1>7, <1>8 DEF Linked

\* A list stays as it is when its ends and its links do, and no pass over it
\* moves.
LEMMA InLineKept ==
  ASSUME NEW s \in Stations, InLine(s),
         head_clients'[s] = head_clients[s], tail_clients'[s] = tail_clients[s],
         Listeners(s)' = Listeners(s),
         \A c \in Listeners(s) : next_client'[c] = next_client[c],
         sender'[s] = sender[s] \/ sender'[s].pc # "send"
  PROVE  InLine(s)'
<1>1. PICK n \in Nat : \E q \in [1..n -> Slots] : Line(s, n, q)
  BY DEF InLine
<1>2. PICK q \in [1..n -> Slots] : Line(s, n, q)
  BY <1>1
<1>3. \A i \in 1..n : q[i] \in Listeners(s)
  BY <1>2 DEF Line
<1>4. Chain(s, n, q)'
  BY <1>2, <1>3 DEF Line, Chain
<1>5. Line(s, n, q)'
  BY <1>2, <1>4 DEF Line
<1> QED
  BY <1>5 DEF InLine

\* A step of main that touches no list.
LEMMA MainLinked ==
  ASSUME Safe, Linked, fault = "none", MainKeeps,
         UNCHANGED <<cur_station, next_client, head_clients, tail_clients, counter, heap>>,
         \A s \in Stations : Listeners(s)' = Listeners(s), LooseOK', HandlerOK'
  PROVE  Linked'
<1>1. UNCHANGED <<lock, sender, fault>>
  BY DEF MainKeeps
<1>2. CurStationLive' /\ PassOK' /\ CountsOK'
  BY <1>1 DEF Linked, CurStationLive, PassOK, CountsOK, Tuned
<1>3. \A s \in Stations : heap'[s] = "live" => InLine(s)'
  BY <1>1, InLineKept DEF Linked
<1> QED
  BY <1>2, <1>3 DEF Linked

\* One that only moves main, from and to where no client is between two lists.
LEMMA MainPassesBy ==
  ASSUME Safe, Linked, fault = "none", MainKeeps,
         UNCHANGED <<cur_station, next_client, stationVars>>,
         main.pc \notin {"append", "reset"}, main'.pc \notin {"append", "reset"}, HandlerOK'
  PROVE  Linked'
<1>1. UNCHANGED <<head_clients, tail_clients, counter, heap>>
  BY DEF stationVars
<1>2. \A s \in Stations : Listeners(s)' = Listeners(s)
  BY DEF Listeners
<1>3. LooseOK'
  BY DEF Linked, LooseOK
<1> QED
  BY <1>1, <1>2, <1>3, MainLinked

LEMMA FailLinked ==
  ASSUME NEW why \in Faults \ {"none"}, Fail(why)
  PROVE  Linked'
  BY DEF Fail, Linked

LEMMA RemoveReadLinked ==
  ASSUME Safe, Linked, fault = "none", RemoveRead
  PROVE  Linked'
<1> DEFINE c == main.c
           t == cur_station[c]
<1>1. main.pc = "remove" /\ c \in Slots /\ main \in MainStates
  BY DEF RemoveRead, Safe, MainOK, LockedStationLive, TypeOK
<1>2. /\ main' = [main EXCEPT !.pc = IF t = NULL THEN AfterRemove ELSE "remove_lock", !.ptr = t]
      /\ UNCHANGED listVars /\ MainKeeps
  BY DEF RemoveRead
<1>3. UNCHANGED <<cur_station, next_client, head_clients, tail_clients, counter, heap>>
  BY <1>2 DEF listVars, clientVars, stationVars
<1>4. /\ main'.c = c /\ main'.target = main.target /\ main'.ptr = t
      /\ main'.pc = IF t = NULL THEN AfterRemove ELSE "remove_lock"
  BY <1>1, <1>2 DEF MainStates
<1>5. \A s \in Stations : Listeners(s)' = Listeners(s)
  BY <1>1, <1>3, <1>4, SlotsFinite DEF Listeners
<1>6. LooseOK'
  BY <1>1, <1>3, <1>4 DEF LooseOK, Linked
<1>7. HandlerOK'
  BY <1>1, <1>3, <1>4 DEF HandlerOK, Linked, AfterRemove
<1> QED
  BY <1>2, <1>3, <1>5, <1>6, <1>7, MainLinked

LEMMA RemoveLinked ==
  ASSUME Safe, Linked, fault = "none", Remove
  PROVE  Linked'
<1>0. PICK c \in Slots, s \in Stations : c = main.c /\ s = main.ptr
  BY DEF Remove, Safe, MainOK
<1>1. main.pc = "remove_lock" /\ main \in MainStates /\ ListsTypeOK
  BY DEF Remove, Safe, LockedStationLive, TypeOK
<1>2. /\ heap[s] = "live" /\ ~lock[s] /\ RemoveBody(s, c)
      /\ main' = [main EXCEPT !.pc = AfterRemove, !.ptr = NULL] /\ MainKeeps
  BY <1>0 DEF Remove
<1>3. main.target = NULL /\ cur_station[c] = s
  BY <1>0, <1>1, <1>2 DEF Linked, HandlerOK
<1>4. main'.c = c /\ main'.target = NULL /\ main'.pc = "reset"
  BY <1>0, <1>1, <1>2, <1>3 DEF MainStates, AfterRemove
<1>5. /\ UNCHANGED <<cur_station, counter, heap, sender, lock, fault>>
      /\ \A t \in Stations : t # s =>
           head_clients'[t] = head_clients[t] /\ tail_clients'[t] = tail_clients[t]
  BY <1>1, <1>2 DEF RemoveBody, MainKeeps, ListsTypeOK
<1>6. PICK n \in Nat : \E q \in [1..n -> Slots] : Line(s, n, q)
  BY <1>1, <1>2 DEF Linked, InLine
<1>7. PICK q \in [1..n -> Slots] : Line(s, n, q)
  BY <1>6
<1>8. Chain(s, n, q) /\ {q[i] : i \in 1..n} = Listeners(s)
  BY <1>7 DEF Line
<1>9. c \in Listeners(s)
  BY <1>1, <1>3 DEF Listeners
<1>10. PICK p \in 1..n : q[p] = c
  BY <1>8, <1>9
<1> DEFINE r == [i \in 1..(n - 1) |-> q[IF i < p THEN i ELSE i + 1]]
<1>11. /\ r \in [1..(n - 1) -> Slots]
       /\ {r[i] : i \in 1..(n - 1)} = {q[i] : i \in 1..n} \ {q[p]}
       /\ Chain(s, n - 1, r)'
       /\ \A d \in Slots : (\A i \in 1..n : q[i] # d) => next_client'[d] = next_client[d]
  BY <1>1, <1>2, <1>8, <1>10, ChainRemove
<1>12. \A d \in Slots : d \notin Listeners(s) => next_client'[d] = next_client[d]
  BY <1>8, <1>11
<1>13. Listeners(s)' = Listeners(s) \ {c}
  BY <1>0, <1>1, <1>4, <1>5 DEF Listeners
<1>14. \A t \in Stations : t # s => Listeners(t)' = Listeners(t)
  BY <1>0, <1>1, <1>3, <1>4, <1>5 DEF Listeners
<1>15. InLine(s)'
  <2>1. n - 1 \in Nat
    BY <1>10
  <2>2. sender'[s].pc # "send"
    BY <1>1, <1>2, <1>5 DEF Linked, PassOK
  <2> HIDE DEF r
  <2>3. Line(s, n - 1, r)'
    BY <1>8, <1>10, <1>11, <1>13, <2>2 DEF Line
  <2> QED
    BY <1>11, <2>1, <2>3 DEF InLine
<1>16. ASSUME NEW t \in Stations, t # s, heap[t] = "live" PROVE InLine(t)'
  <2>1. \A d \in Listeners(t) : d \in Slots /\ d \notin Listeners(s)
    BY <1>16 DEF Listeners
  <2>2. InLine(t)
    BY <1>16 DEF Linked
  <2> QED
    BY <1>5, <1>12, <1>14, <1>16, <2>1, <2>2, InLineKept
<1>17. CurStationLive' /\ PassOK'
  BY <1>5 DEF Linked, CurStationLive, PassOK
<1>18. CountsOK'
  BY <1>2, <1>5 DEF Linked, CountsOK, Tuned
<1>19. LooseOK'
  <2>1. \A d \in Listeners(s) : cur_station[d] = s /\ s # NULL
    BY <1>1, SlotsFinite DEF Listeners
  <2> QED
    BY <1>1, <1>4, <1>5, <1>12, <2>1 DEF Linked, LooseOK
<1>20. HandlerOK'
  BY <1>4 DEF HandlerOK
<1> QED
  BY <1>5, <1>15, <1>16, <1>17, <1>18, <1>19, <1>20 DEF Linked

LEMMA AppendLinked ==
  ASSUME Safe, Linked, fault = "none", AppendClient
  PROVE  Linked'
<1>0. PICK c \in Slots, s \in Stations : c = main.c /\ s = main.target
  BY DEF AppendClient, Safe, MainOK
<1>1. main.pc = "append" /\ main \in MainStates /\ ListsTypeOK /\ s # NULL
  BY SlotsFinite DEF AppendClient, Safe, LockedStationLive, TypeOK
<1>2. CASE heap[s] = "freed"
  BY <1>0, <1>2, FailLinked DEF AppendClient, Faults
<1>3. CASE heap[s] # "freed"
  <2>1. /\ ~lock[s] /\ AppendBody(s, c)
        /\ main' = [main EXCEPT !.pc = "cur_song"] /\ MainKeeps
    BY <1>0, <1>3 DEF AppendClient
  <2>2. heap[s] = "live"
    BY <1>0, <1>1, <1>3 DEF Safe, MainOK, ListsTypeOK
  <2>3. cur_station[c] = NULL
    BY <1>0, <1>1 DEF Linked, HandlerOK
  <2>4. main'.c = c /\ main'.pc = "cur_song"
    BY <1>0, <1>1, <2>1 DEF MainStates
  <2>5. next_client[c] = NULL
    BY <1>1, <2>3 DEF Linked, LooseOK
  <2>6. /\ tail_clients' = [tail_clients EXCEPT ![s] = c]
        /\ counter' = [counter EXCEPT ![s] = @ + 1]
        /\ cur_station' = [cur_station EXCEPT ![c] = s]
        /\ head_clients' = [head_clients EXCEPT ![s] = c] \/ head_clients' = head_clients
        /\ UNCHANGED <<heap, sender, lock, fault>>
    BY <1>1, <2>1, <2>3 DEF AppendBody, MainKeeps
  <2>7. \A t \in Stations : t # s =>
          /\ head_clients'[t] = head_clients[t] /\ tail_clients'[t] = tail_clients[t]
          /\ counter'[t] = counter[t]
    BY <1>1, <2>6 DEF ListsTypeOK
  <2>8. \A d \in Slots : cur_station'[d] = IF d = c THEN s ELSE cur_station[d]
    BY <1>1, <2>6 DEF ListsTypeOK
  <2>9. PICK n \in Nat : \E q \in [1..n -> Slots] : Line(s, n, q)
    BY <1>1, <2>2 DEF Linked, InLine
  <2>10. PICK q \in [1..n -> Slots] : Line(s, n, q)
    BY <2>9
  <2>11. Chain(s, n, q) /\ {q[i] : i \in 1..n} = Listeners(s)
    BY <2>10 DEF Line
  <2>12. c \notin Listeners(s)
    BY <1>1, <2>3 DEF Listeners
  <2>13. \A i \in 1..n : q[i] # c
    BY <2>11, <2>12
  <2> DEFINE r == [i \in 1..(n + 1) |-> IF i = n + 1 THEN c ELSE q[i]]
  <2>14. /\ r \in [1..(n + 1) -> Slots]
         /\ Chain(s, n + 1, r)'
         /\ \A d \in Slots : (\A i \in 1..n : q[i] # d) => next_client'[d] = next_client[d]
    BY <1>1, <2>1, <2>3, <2>5, <2>11, <2>13, ChainAppend
  <2>15. {r[i] : i \in 1..(n + 1)} = Listeners(s) \cup {c}
    <3>1. \A i \in 1..n : i \in 1..(n + 1) /\ r[i] = q[i]
      OBVIOUS
    <3>2. \A i \in 1..(n + 1) : i = n + 1 \/ i \in 1..n
      OBVIOUS
    <3>3. n + 1 \in 1..(n + 1) /\ r[n + 1] = c
      OBVIOUS
    <3> HIDE DEF r
    <3> QED
      BY <2>11, <3>1, <3>2, <3>3
  <2>16. \A d \in Slots : d \notin Listeners(s) => next_client'[d] = next_client[d]
    BY <2>11, <2>14
  <2>17. Listeners(s)' = Listeners(s) \cup {c}
    BY <1>0, <1>1, <2>4, <2>8 DEF Listeners
  <2>18. \A t \in Stations : t # s => Listeners(t)' = Listeners(t)
    BY <1>0, <1>1, <2>3, <2>4, <2>8, SlotsFinite DEF Listeners
  <2>19. InLine(s)'
    <3>1. n + 1 \in Nat
      OBVIOUS
    <3>2. sender'[s].pc # "send"
      BY <1>1, <2>1, <2>6 DEF Linked, PassOK
    <3> HIDE DEF r
    <3>3. Line(s, n + 1, r)'
      BY <2>14, <2>15, <2>17, <3>2 DEF Line
    <3> QED
      BY <2>14, <3>1, <3>3 DEF InLine
  <2>20. ASSUME NEW t \in Stations, t # s, heap[t] = "live" PROVE InLine(t)'
    <3>1. \A d \in Listeners(t) : d \in Slots /\ d \notin Listeners(s)
      BY <2>20 DEF Listeners
    <3>2. InLine(t)
      BY <2>20 DEF Linked
    <3> QED
      BY <2>6, <2>7, <2>16, <2>18, <2>20, <3>1, <3>2, InLineKept
  <2>21. CurStationLive' /\ PassOK'
    BY <1>1, <2>2, <2>6, <2>8 DEF Linked, CurStationLive, PassOK
  <2>22. CountsOK'
    <3>1. ASSUME NEW t \in Stations, t # s PROVE Tuned(t)' = Tuned(t)
      BY <1>1, <2>3, <2>8, <3>1, SlotsFinite DEF Tuned
    <3>2. Tuned(s)' = Tuned(s) \cup {c} /\ c \notin Tuned(s) /\ Tuned(s) \in SUBSET Slots
      BY <1>1, <2>3, <2>8 DEF Tuned
    <3>3. IsFiniteSet(Tuned(s)) /\ Cardinality(Tuned(s)) \in Nat
      BY <3>2, FS_Subset, FS_CardinalityType, ListsAssumption
    <3>4. Cardinality(Tuned(s)') = Cardinality(Tuned(s)) + 1
      BY <3>2, <3>3, FS_AddElement
    <3>5. counter[s] \in Nat /\ counter'[s] = counter[s] + 1
      BY <1>1, <2>6 DEF ListsTypeOK
    <3>6. counter'[s] >= Cardinality(Tuned(s)')
      BY <1>1, <2>2, <3>3, <3>4, <3>5 DEF Linked, CountsOK
    <3> QED
      BY <2>2, <2>6, <2>7, <3>1, <3>6 DEF Linked, CountsOK
  <2>23. LooseOK'
    <3>1. \A d \in Listeners(s) : cur_station[d] = s
      BY DEF Listeners
    <3> QED
      BY <1>1, <2>4, <2>8, <2>16, <3>1 DEF Linked, LooseOK
  <2>24. HandlerOK'
    BY <2>4 DEF HandlerOK
  <2> QED
    BY <2>6, <2>19, <2>20, <2>21, <2>22, <2>23, <2>24 DEF Linked
<1> QED
  BY <1>2, <1>3

LEMMA ResetLinked ==
  ASSUME Safe, Linked, fault = "none", Reset
  PROVE  Linked'
<1>0. PICK c \in Slots : c = main.c
  BY DEF Reset, Safe, MainOK
<1>1. main.pc = "reset" /\ main' = MainIdle /\ MainKeeps /\ ResetBody(c) /\ ListsTypeOK
  BY <1>0 DEF Reset, Safe, LockedStationLive, TypeOK
<1>2. /\ UNCHANGED <<heap, head_clients, tail_clients, counter, sender, lock, fault>>
      /\ \A d \in Slots : cur_station'[d] = IF d = c THEN NULL ELSE cur_station[d]
      /\ \A d \in Slots : next_client'[d] = IF d = c THEN NULL ELSE next_client[d]
  BY <1>1 DEF ResetBody, stationVars, MainKeeps, ListsTypeOK
<1>3. main'.pc = "select" /\ main'.target = NULL
  BY <1>1 DEF MainIdle
<1>4. \A s \in Stations : c \notin Listeners(s) /\ Listeners(s)' = Listeners(s)
  BY <1>0, <1>1, <1>2, <1>3, SlotsFinite DEF Listeners
<1>5. ASSUME NEW s \in Stations, heap[s] = "live" PROVE InLine(s)'
  <2>1. InLine(s) /\ \A d \in Listeners(s) : d \in Slots /\ d # c
    BY <1>4, <1>5 DEF Linked, Listeners
  <2> QED
    BY <1>2, <1>4, <2>1, InLineKept
<1>6. CurStationLive' /\ PassOK'
  BY <1>2 DEF Linked, CurStationLive, PassOK
<1>7. CountsOK'
  <2>1. ASSUME NEW s \in Stations, heap[s] = "live" PROVE counter[s] >= Cardinality(Tuned(s)')
    <3>1. Tuned(s)' \in SUBSET Tuned(s) /\ Tuned(s) \in SUBSET Slots
      BY <1>2, SlotsFinite DEF Tuned
    <3>2. IsFiniteSet(Tuned(s))
      BY <3>1, FS_Subset, ListsAssumption
    <3>3. /\ Cardinality(Tuned(s)') <= Cardinality(Tuned(s))
          /\ Cardinality(Tuned(s)') \in Nat /\ Cardinality(Tuned(s)) \in Nat
      BY <3>1, <3>2, FS_Subset, FS_CardinalityType
    <3>4. counter[s] \in Nat /\ counter[s] >= Cardinality(Tuned(s))
      BY <1>1, <2>1 DEF Linked, CountsOK, ListsTypeOK
    <3> QED
      BY <3>3, <3>4
  <2> QED
    BY <1>2, <2>1 DEF Linked, CountsOK
<1>8. LooseOK'
  BY <1>0, <1>2, <1>3 DEF Linked, LooseOK
<1>9. HandlerOK'
  BY <1>3 DEF HandlerOK
<1> QED
  BY <1>2, <1>5, <1>6, <1>7, <1>8, <1>9 DEF Linked

LEMMA MainStepLinked ==
  ASSUME Safe, Linked, fault = "none", MainStep
  PROVE  Linked'
<1>1. CASE RemoveFails
  <2>1. Fail("freed station") \/ Fail("endless list") \/ Fail("assert list")
    BY <1>1 DEF RemoveFails
  <2> QED
    BY <2>1, FailLinked DEF Faults
<1>2. CASE CurSong \/ UseStation \/ WalkStations
  <2>1. main.pc \in {"cur_song", "use", "walk"} /\ main \in MainStates
    BY <1>2 DEF CurSong, UseStation, WalkStations, Safe, LockedStationLive, TypeOK
  <2>2. \/ Fail("assert station") \/ Fail("freed station")
        \/ /\ UNCHANGED listVars /\ MainKeeps
           /\ \/ main' = MainIdle
              \/ \E t : main' = [main EXCEPT !.pc = "use", !.ptr = t]
              \/ main.pc = "walk" /\ \E t : main' = [main EXCEPT !.ptr = t]
    BY <1>2 DEF CurSong, UseStation, WalkStations
  <2>3. CASE Fail("assert station") \/ Fail("freed station")
    BY <2>3, FailLinked DEF Faults
  <2>4. CASE /\ UNCHANGED listVars /\ MainKeeps
             /\ \/ main' = MainIdle
                \/ \E t : main' = [main EXCEPT !.pc = "use", !.ptr = t]
                \/ main.pc = "walk" /\ \E t : main' = [main EXCEPT !.ptr = t]
    <3>1. main'.pc \in {"select", "use", "walk"}
      <4>1. CASE main' = MainIdle
        BY <4>1 DEF MainIdle
      <4>2. ASSUME NEW t, main' = [main EXCEPT !.pc = "use", !.ptr = t]
            PROVE  main'.pc = "use"
        BY <2>1, <4>2 DEF MainStates
      <4>3. ASSUME NEW t, main.pc = "walk", main' = [main EXCEPT !.ptr = t]
            PROVE  main'.pc = "walk"
        BY <2>1, <4>3 DEF MainStates
      <4> QED
        BY <2>4, <4>1, <4>2, <4>3
    <3>2. HandlerOK'
      BY <3>1 DEF HandlerOK
    <3>3. UNCHANGED <<cur_station, next_client, stationVars>>
      BY <2>4 DEF listVars, clientVars
    <3> QED
      BY <2>1, <2>4, <3>1, <3>2, <3>3, MainPassesBy
  <2> QED
    BY <2>2, <2>3, <2>4
<1> QED
  BY <1>1, <1>2, RemoveReadLinked, RemoveLinked, AppendLinked, ResetLinked DEF MainStep

LEMMA ClientEventLinked ==
  ASSUME Safe, Linked, fault = "none", ClientEvent, StationsSetOnce
  PROVE  Linked'
<1>1. CASE AcceptBusy
  BY <1>1, FailLinked DEF AcceptBusy, Faults
<1>2. ASSUME NEW c \in Slots, Accept(c) \/ \E built : Hello(c, built)
      PROVE  Linked'
  <2>1. /\ UNCHANGED <<cur_station, next_client, stationVars, main>> /\ MainKeeps
        /\ main.pc = "select"
    BY <1>2 DEF Accept, Hello
  <2>2. HandlerOK'
    BY <2>1 DEF HandlerOK
  <2> QED
    BY <2>1, <2>2, MainPassesBy
<1>3. ASSUME NEW c \in Slots, NEW i, SetStation(c, i)
      PROVE  Linked'
  <2>1. /\ main.pc = "select" /\ UNCHANGED listVars /\ MainKeeps
        /\ main' = [MainIdle EXCEPT !.pc = "remove", !.c = c, !.target = find_station_from_id(i)]
        /\ cur_station[c] = NULL
    BY <1>3 DEF SetStation, StationsSetOnce
  <2>2. main'.pc = "remove" /\ main'.c = c
    BY <2>1 DEF MainIdle
  <2>3. UNCHANGED <<cur_station, next_client, stationVars>>
    BY <2>1 DEF listVars, clientVars
  <2>4. HandlerOK'
    BY <2>1, <2>2, <2>3 DEF HandlerOK
  <2> QED
    BY <2>1, <2>2, <2>3, <2>4, MainPassesBy
<1>4. ASSUME NEW c \in Slots, Disconnect(c) \/ RequestSongs(c) \/ RequestStations(c)
      PROVE  Linked'
  <2>1. /\ main.pc = "select" /\ UNCHANGED listVars /\ MainKeeps
        /\ \/ main' = [MainIdle EXCEPT !.pc = "remove", !.c = c]
           \/ main' = [MainIdle EXCEPT !.pc = "cur_song", !.c = c]
           \/ main' = [MainIdle EXCEPT !.pc = "walk", !.c = c, !.ptr = head_station]
    BY <1>4 DEF Disconnect, RequestSongs, RequestStations
  <2>2. main'.pc \in {"remove", "cur_song", "walk"} /\ main'.target = NULL
    BY <2>1 DEF MainIdle
  <2>3. UNCHANGED <<cur_station, next_client, stationVars>>
    BY <2>1 DEF listVars, clientVars
  <2>4. HandlerOK'
    BY <2>2 DEF HandlerOK
  <2> QED
    BY <2>1, <2>2, <2>3, <2>4, MainPassesBy
<1>5. ASSUME NEW c \in Slots, DisconnectEarly(c)
      PROVE  Linked'
  BY <1>5, FailLinked DEF DisconnectEarly, Faults
<1> QED
  BY <1>1, <1>2, <1>3, <1>4, <1>5 DEF ClientEvent

\* A step of the operator's thread or of a sender that touches no list.
LEMMA ListsUntouched ==
  ASSUME Safe, Linked, fault = "none",
         UNCHANGED <<cur_station, next_client, head_clients, tail_clients, counter, main>>,
         \A s \in Stations : heap'[s] = heap[s],
         \A s \in Stations : heap[s] = "live" => InLine(s)',
         PassOK'
  PROVE  Linked'
<1>1. CurStationLive'
  <2>1. \A c \in Slots : cur_station[c] # NULL => cur_station[c] \in Stations
    BY DEF Safe, LockedStationLive, TypeOK, ListsTypeOK
  <2> QED
    BY <2>1 DEF Linked, CurStationLive
<1>2. CountsOK' /\ LooseOK'
  BY DEF Linked, CountsOK, LooseOK, Tuned
<1>3. HandlerOK'
  <2>1. main.pc = "remove_lock" => main.ptr \in Stations
    BY DEF Safe, MainOK
  <2> QED
    BY <2>1 DEF Linked, HandlerOK
<1> QED
  BY <1>1, <1>2, <1>3 DEF Linked

\* The operator's commands, but for those that add and free a station.
LEMMA CommandLinked ==
  ASSUME Safe, Linked, fault = "none",
         \/ \E i : Delete(i)
         \/ Shutdown \/ Quit \/ List \/ RemoveStation \/ PrintStations \/ Released \/ Push
  PROVE  Linked'
<1>1. CASE Fail("dead thread") \/ Fail("endless list")
  BY <1>1, FailLinked DEF Faults
<1>2. CASE Released
  BY <1>2 DEF Released, Linked
<1>3. CASE UNCHANGED <<listVars, main, sender, lock, fault>>
  <2>1. UNCHANGED <<cur_station, next_client, head_clients, tail_clients, counter, heap, main,
                    sender, lock>>
    BY <1>3 DEF listVars, clientVars, stationVars
  <2>2. \A s \in Stations : Listeners(s)' = Listeners(s)
    BY <2>1 DEF Listeners
  <2>3. PassOK'
    BY <2>1 DEF Linked, PassOK
  <2>4. \A s \in Stations : heap[s] = "live" => InLine(s)'
    BY <2>1, <2>2, InLineKept DEF Linked
  <2> QED
    BY <2>1, <2>3, <2>4, ListsUntouched
<1>4. CASE Push
  <2>1. PICK s \in Stations : s = op.st
    BY <1>4 DEF Push, Safe, OpOK
  <2>2. /\ sender' = [sender EXCEPT ![s] = SenderAt("read")] /\ PushBody(s)
        /\ UNCHANGED <<lock, main>> /\ sender \in [Stations -> SenderStates]
    BY <1>4, <2>1 DEF Push, OpKeeps, Safe, LockedStationLive, TypeOK
  <2>3. UNCHANGED <<cur_station, next_client, head_clients, tail_clients, counter, heap>>
    BY <2>2 DEF PushBody, clientVars
  <2>4. \A t \in Stations : sender'[t] = sender[t] \/ sender'[t].pc = "read"
    BY <2>2 DEF SenderAt
  <2>5. \A t \in Stations : Listeners(t)' = Listeners(t)
    BY <2>2, <2>3 DEF Listeners
  <2>6. PassOK'
    BY <2>2, <2>4 DEF Linked, PassOK
  <2>7. \A t \in Stations : heap[t] = "live" => InLine(t)'
    BY <2>3, <2>4, <2>5, InLineKept DEF Linked
  <2> QED
    BY <2>2, <2>3, <2>6, <2>7, ListsUntouched
<1> QED
  BY <1>1, <1>2, <1>3, <1>4
     DEF Delete, Shutdown, Quit, List, RemoveStation, PrintStations, OpKeeps

LEMMA AddStationLinked ==
  ASSUME Safe, Linked, fault = "none", NEW s \in Stations, AddStation(s)
  PROVE  Linked'
<1>1. /\ heap[s] = "unused" /\ heap' = [heap EXCEPT ![s] = "live"]
      /\ UNCHANGED <<clientVars, head_clients, tail_clients, counter, lock, sender, main, fault>>
  BY DEF AddStation, OpKeeps
<1>2. UNCHANGED <<cur_station, next_client>>
  BY <1>1 DEF clientVars
<1>3. \A t \in Stations : heap'[t] = IF t = s THEN "live" ELSE heap[t]
  BY <1>1 DEF Safe, LockedStationLive, TypeOK, ListsTypeOK
<1>4. (\A t \in Stations : Listeners(t)' = Listeners(t)) /\ Listeners(s) = {} /\ Tuned(s)' = {}
  BY <1>1, <1>2 DEF Listeners, Tuned, Safe, UnusedOK
<1>5. InLine(s)'
  <2> DEFINE q == [i \in 1..0 |-> NULL]
  <2>1. q \in [1..0 -> Slots]
    OBVIOUS
  <2>2. sender'[s].pc = "none"
    BY <1>1 DEF Safe, UnusedOK
  <2>3. head_clients'[s] = NULL /\ tail_clients'[s] = NULL
    BY <1>1 DEF Linked, CountsOK
  <2>4. Line(s, 0, q)'
    BY <1>4, <2>2, <2>3 DEF Line, Chain
  <2> QED
    BY <2>1, <2>4 DEF InLine
<1>6. \A t \in Stations : t # s /\ heap[t] = "live" => InLine(t)'
  BY <1>1, <1>2, <1>4, InLineKept DEF Linked
<1>7. CurStationLive'
  BY <1>1, <1>2, <1>3 DEF Linked, CurStationLive, Safe, LockedStationLive, TypeOK, ListsTypeOK
<1>8. PassOK' /\ LooseOK'
  BY <1>1, <1>2 DEF Linked, PassOK, LooseOK
<1>9. HandlerOK'
  <2>1. main.pc = "remove_lock" => main.ptr \in Stations /\ main.ptr # NULL
    BY SlotsFinite DEF Safe, MainOK
  <2>2. main.pc = "remove_lock" => heap[main.ptr] # "unused"
    BY <2>1 DEF Safe, MainOK
  <2> QED
    BY <1>1, <1>2, <1>3, <2>1, <2>2 DEF Linked, HandlerOK
<1>10. CountsOK'
  <2>1. counter'[s] \in Nat /\ counter'[s] >= Cardinality(Tuned(s)')
    BY <1>1, <1>4, FS_EmptySet DEF Safe, LockedStationLive, TypeOK, ListsTypeOK
  <2>2. \A t \in Stations : Tuned(t)' = Tuned(t)
    BY <1>2 DEF Tuned
  <2> QED
    BY <1>1, <1>3, <2>1, <2>2 DEF Linked, CountsOK
<1> QED
  BY <1>3, <1>5, <1>6, <1>7, <1>8, <1>9, <1>10 DEF Linked

\* A station whose counter is right when it is closed has told every client
\* that is tuned to it: no handler is in the middle of a disconnection.
LEMMA ClosedAll ==
  ASSUME Safe, Linked, fault = "none", NEW s \in Stations, heap[s] = "live",
         CounterAfterClose(s) = 0
  PROVE  Reached(s) = Tuned(s) /\ Reached(s) = Listeners(s)
<1>1. /\ ~Cyclic(s) /\ Reached(s) = Listeners(s)
  BY LinkedImplies DEF ListsExact
<1>2. Listeners(s) \in SUBSET Tuned(s) /\ Tuned(s) \in SUBSET Slots
  BY DEF Listeners, Tuned
<1>3. IsFiniteSet(Tuned(s))
  BY <1>2, FS_Subset, ListsAssumption
<1>4. /\ Cardinality(Listeners(s)) <= Cardinality(Tuned(s))
      /\ Cardinality(Tuned(s)) \in Nat /\ Cardinality(Listeners(s)) \in Nat
      /\ Cardinality(Tuned(s)) = Cardinality(Listeners(s)) => Tuned(s) = Listeners(s)
  BY <1>2, <1>3, FS_Subset, FS_CardinalityType
<1>5. counter[s] \in Nat /\ counter[s] >= Cardinality(Tuned(s))
  BY DEF Linked, CountsOK, Safe, LockedStationLive, TypeOK, ListsTypeOK
<1>6. counter[s] - Cardinality(Listeners(s)) = 0
  BY <1>1, <1>4, <1>5 DEF CounterAfterClose
<1> QED
  BY <1>1, <1>4, <1>5, <1>6

\* remove_station and release_stations free a station.
LEMMA FreeLinked ==
  ASSUME Safe, Linked, fault = "none", NEW s \in Stations, heap[s] = "live",
         CounterAfterClose(s) = 0, Forget(s), heap' = [heap EXCEPT ![s] = "freed"],
         \A t \in Stations : t # s =>
           /\ head_clients'[t] = head_clients[t] /\ tail_clients'[t] = tail_clients[t]
           /\ counter'[t] = counter[t],
         UNCHANGED <<main, sender, lock, fault>>
  PROVE  Linked'
<1>1. Reached(s) = Tuned(s) /\ Reached(s) = Listeners(s)
  BY ClosedAll
<1>2. /\ \A c \in Slots : next_client'[c] = IF c \in Tuned(s) THEN NULL ELSE next_client[c]
      /\ \A c \in Slots : cur_station'[c] = IF c \in Tuned(s) THEN NULL ELSE cur_station[c]
  BY <1>1 DEF Forget
<1>3. \A t \in Stations : heap'[t] = IF t = s THEN "freed" ELSE heap[t]
  BY DEF Safe, LockedStationLive, TypeOK, ListsTypeOK
<1>4. \A t \in Stations : t # s => Listeners(t)' = Listeners(t) /\ Tuned(t)' = Tuned(t)
  BY <1>2, SlotsFinite DEF Listeners, Tuned
<1>5. ASSUME NEW t \in Stations, t # s, heap[t] = "live" PROVE InLine(t)'
  <2>1. InLine(t) /\ \A c \in Listeners(t) : c \in Slots /\ c \notin Tuned(s)
    BY <1>5 DEF Linked, Listeners, Tuned
  <2> QED
    BY <1>2, <1>4, <1>5, <2>1, InLineKept
<1>6. CurStationLive'
  BY <1>2, <1>3 DEF Linked, CurStationLive, Tuned, Safe, LockedStationLive, TypeOK, ListsTypeOK
<1>7. CountsOK'
  BY <1>3, <1>4 DEF Linked, CountsOK
<1>8. LooseOK' /\ PassOK'
  BY <1>2 DEF Linked, LooseOK, PassOK
<1>9. HandlerOK'
  <2>1. main.pc = "remove_lock" => main.ptr \in Stations
    BY DEF Safe, MainOK
  <2>2. main.pc \in {"remove", "append", "remove_lock"} => main.c \in Slots
    BY DEF Safe, MainOK
  <2> QED
    BY <1>2, <1>3, <2>1, <2>2 DEF Linked, HandlerOK, Tuned
<1> QED
  BY <1>3, <1>5, <1>6, <1>7, <1>8, <1>9 DEF Linked

LEMMA CloseLinked ==
  ASSUME Safe, Linked, fault = "none", CloseStation \/ Release
  PROVE  Linked'
<1> USE DEF Safe, LockedStationLive, TypeOK
<1>1. CASE Fail("assert counter")
  BY <1>1, FailLinked DEF Faults
<1>2. CASE ~Fail("assert counter")
  <2>1. PICK s \in Stations : s = op.st /\ heap[s] = "live"
    <3>1. CASE CloseStation
      <4>1. op.pc = "close" /\ op.st \in Stations /\ Listed(op.st)
        BY <3>1 DEF CloseStation, OpOK
      <4>2. heap[op.st] = "live"
        BY <4>1 DEF ListedAreLive, Listed
      <4> QED
        BY <4>1, <4>2
    <3>2. CASE Release
      <4>1. op.pc = "release" /\ op.st # NULL /\ op.st \in Stations
        BY <3>2 DEF Release, OpStates
      <4>2. PICK k \in DOMAIN station_list :
               /\ station_list[k] = op.st
               /\ \A n \in DOMAIN station_list : n >= k => heap[station_list[n]] = "live"
        BY <4>1 DEF OpOK
      <4>3. k >= k
        BY <4>2, ListFacts
      <4> QED
        BY <4>1, <4>2, <4>3
    <3> QED
      BY <3>1, <3>2
  <2>2. /\ CounterAfterClose(s) = 0 /\ Forget(s) /\ heap' = [heap EXCEPT ![s] = "freed"]
        /\ counter' = [counter EXCEPT ![s] = CounterAfterClose(s)]
        /\ head_clients' = head_clients \/ head_clients' = [head_clients EXCEPT ![s] = NULL]
        /\ tail_clients' = tail_clients \/ tail_clients' = [tail_clients EXCEPT ![s] = NULL]
        /\ UNCHANGED <<main, sender, lock, fault>>
    BY <1>2, <2>1 DEF CloseStation, Release, CloseBody, OpKeeps
  <2>3. \A t \in Stations : t # s =>
          /\ head_clients'[t] = head_clients[t] /\ tail_clients'[t] = tail_clients[t]
          /\ counter'[t] = counter[t]
    BY <2>2 DEF ListsTypeOK
  <2> QED
    BY <2>1, <2>2, <2>3, FreeLinked
<1> QED
  BY <1>1, <1>2

\* A sender that is where x says is in the middle of a pass over the list of s.
MidPass(s, x) ==
  \A n \in Nat : \A q \in [1..n -> Slots] : Line(s, n, q) =>
    \E k \in 0..n : /\ x.at = IF k = n THEN NULL ELSE q[k + 1]
                    /\ x.sent = {q[i] : i \in 1..k}

\* A sender moves along the list of its station, which nobody changes while it
\* has the lock.
LEMMA SenderStepLinked ==
  ASSUME Safe, Linked, fault = "none", NEW s \in Stations, SenderStep(s)
  PROVE  Linked'
<1> USE DEF Safe, LockedStationLive, TypeOK
<1>1. sender \in [Stations -> SenderStates] /\ lock \in [Stations -> BOOLEAN]
  OBVIOUS
<1>2. \A t \in Stations : heap[t] = "live" => InLine(t)
  BY DEF Linked
<1>3. \A t \in Stations : /\ sender[t].pc = "send" => lock[t]
                          /\ sender[t].pc = "lock" => sender[t].sent = {}
  BY DEF Linked, PassOK
<1>4. ASSUME NEW next, Become(s, next), next.pc \notin {"send", "lock"},
             UNCHANGED lock \/ lock' = [lock EXCEPT ![s] = FALSE]
      PROVE  Linked'
  <2>1. /\ UNCHANGED <<cur_station, next_client, head_clients, tail_clients, counter, main, heap>>
        /\ \A t \in Stations : sender'[t] = IF t = s THEN next ELSE sender[t]
    BY <1>1, <1>4 DEF Become, listVars, clientVars, stationVars
  <2>2. \A t \in Stations : Listeners(t)' = Listeners(t)
    BY <2>1 DEF Listeners
  <2>3. \A t \in Stations : heap[t] = "live" => InLine(t)'
    BY <1>2, <1>4, <2>1, <2>2, InLineKept
  <2>4. \A t \in Stations : t # s /\ lock[t] => lock'[t]
    BY <1>1, <1>4
  <2>5. PassOK'
    BY <1>3, <1>4, <2>1, <2>4 DEF PassOK
  <2> QED
    BY <2>1, <2>3, <2>5, ListsUntouched
<1>5. ASSUME NEW next, Become(s, next), next.pc = "lock", next.sent = {}, UNCHANGED lock
      PROVE  Linked'
  <2>1. /\ UNCHANGED <<cur_station, next_client, head_clients, tail_clients, counter, main, heap>>
        /\ \A t \in Stations : sender'[t] = IF t = s THEN next ELSE sender[t]
    BY <1>1, <1>5 DEF Become, listVars, clientVars, stationVars
  <2>2. \A t \in Stations : Listeners(t)' = Listeners(t)
    BY <2>1 DEF Listeners
  <2>3. \A t \in Stations : heap[t] = "live" => InLine(t)'
    BY <1>2, <1>5, <2>1, <2>2, InLineKept
  <2>4. PassOK'
    BY <1>3, <1>5, <2>1 DEF PassOK
  <2> QED
    BY <2>1, <2>3, <2>4, ListsUntouched
<1>6. ASSUME NEW next, Become(s, next), next.pc = "send", lock'[s],
             \A t \in Stations : t # s /\ lock[t] => lock'[t],
             MidPass(s, next)
      PROVE  Linked'
  <2>1. /\ UNCHANGED <<cur_station, next_client, head_clients, tail_clients, counter, main, heap>>
        /\ \A t \in Stations : sender'[t] = IF t = s THEN next ELSE sender[t]
    BY <1>1, <1>6 DEF Become, listVars, clientVars, stationVars
  <2>2. \A t \in Stations : Listeners(t)' = Listeners(t)
    BY <2>1 DEF Listeners
  <2>3. \A t \in Stations : t # s /\ heap[t] = "live" => InLine(t)'
    BY <1>2, <1>6, <2>1, <2>2, InLineKept
  <2>4. ASSUME heap[s] = "live" PROVE InLine(s)'
    <3>1. PICK n \in Nat : \E q \in [1..n -> Slots] : Line(s, n, q)
      BY <1>2, <2>4 DEF InLine
    <3>2. PICK q \in [1..n -> Slots] : Line(s, n, q)
      BY <3>1
    <3>3. PICK k \in 0..n : /\ next.at = IF k = n THEN NULL ELSE q[k + 1]
                            /\ next.sent = {q[i] : i \in 1..k}
      BY <1>6, <3>2 DEF MidPass
    <3>4. Chain(s, n, q)'
      BY <2>1, <3>2 DEF Line, Chain
    <3>5. Line(s, n, q)'
      BY <2>1, <2>2, <3>2, <3>3, <3>4 DEF Line
    <3> QED
      BY <3>5 DEF InLine
  <2>5. PassOK'
    BY <1>3, <1>6, <2>1 DEF PassOK
  <2> QED
    BY <2>1, <2>3, <2>4, <2>5, ListsUntouched
<1>7. ASSUME NEW why \in Faults \ {"none"}, Fail(why) PROVE Linked'
  BY <1>7, FailLinked
<1>8. \A pc : SenderAt(pc).pc = pc /\ SenderAt(pc).sent = {}
  BY DEF SenderAt
<1>9. ASSUME NEW eof, Read(s, eof) PROVE Linked'
  <2> DEFINE locking == [SenderAt("lock") EXCEPT !.eof = eof]
  <2>1. locking.pc = "lock" /\ locking.sent = {}
    BY DEF SenderAt
  <2>2. UNCHANGED lock /\ (Become(s, SenderAt("dead")) \/ Become(s, locking))
    BY <1>9 DEF Read
  <2> HIDE DEF locking
  <2> QED
    BY <1>4, <1>5, <1>8, <2>1, <2>2
<1>10. CASE OpenFails(s)
  BY <1>4, <1>8, <1>10 DEF OpenFails
<1>11. CASE LockStation(s)
  <2>1. CASE heap[s] = "freed"
    BY <1>7, <1>11, <2>1 DEF LockStation, Faults
  <2>2. CASE heap[s] # "freed"
    <3> DEFINE next == [sender[s] EXCEPT !.pc = "send", !.at = head_clients[s]]
    <3>1. /\ sender[s].pc = "lock" /\ ~lock[s] /\ Become(s, next)
          /\ lock' = [lock EXCEPT ![s] = TRUE]
      BY <1>11, <2>2 DEF LockStation
    <3>2. next.pc = "send" /\ next.at = head_clients[s] /\ next.sent = {}
      BY <1>1, <1>3, <3>1 DEF SenderStates
    <3>3. lock'[s]
      BY <1>1, <3>1
    <3>4. \A t \in Stations : t # s /\ lock[t] => lock'[t]
      BY <1>1, <3>1
    <3>5. ASSUME NEW n \in Nat, NEW q \in [1..n -> Slots], Line(s, n, q)
          PROVE  \E k \in 0..n : /\ next.at = IF k = n THEN NULL ELSE q[k + 1]
                                 /\ next.sent = {q[i] : i \in 1..k}
      <4>1. 0 \in 0..n /\ head_clients[s] = IF 0 = n THEN NULL ELSE q[0 + 1]
        BY <3>5 DEF Line, Chain
      <4>2. {q[i] : i \in 1..0} = {}
        OBVIOUS
      <4> QED
        BY <3>2, <4>1, <4>2
    <3> HIDE DEF next
    <3>6. MidPass(s, next)
      BY <3>5 DEF MidPass
    <3> QED
      BY <1>6, <3>1, <3>2, <3>3, <3>4, <3>6
  <2> QED
    BY <2>1, <2>2
<1>12. CASE SendChunk(s)
  <2> DEFINE c == sender[s].at
             next == [sender[s] EXCEPT !.at = next_client[c], !.sent = @ \cup {c}]
  <2>1. sender[s].pc = "send" /\ c # NULL /\ c \in Slots
    BY <1>1, <1>12 DEF SendChunk, SenderStates
  <2>2. \/ Fail("assert handshaked")
        \/ UNCHANGED lock /\ (Become(s, SenderAt("dead")) \/ Become(s, next))
    BY <1>12 DEF SendChunk
  <2>3. next.pc = "send" /\ next.at = next_client[c] /\ next.sent = sender[s].sent \cup {c}
    BY <1>1, <2>1 DEF SenderStates
  <2>4. ASSUME NEW n \in Nat, NEW q \in [1..n -> Slots], Line(s, n, q)
        PROVE  \E k \in 0..n : /\ next.at = IF k = n THEN NULL ELSE q[k + 1]
                               /\ next.sent = {q[i] : i \in 1..k}
    <3>1. PICK k \in 0..n : /\ c = IF k = n THEN NULL ELSE q[k + 1]
                            /\ sender[s].sent = {q[i] : i \in 1..k}
      BY <2>1, <2>4 DEF Line
    <3>2. k + 1 \in 1..n /\ k + 1 \in 0..n /\ c = q[k + 1] /\ k \in Nat
      BY <2>1, <3>1
    <3>3. next_client[c] = IF k + 1 = n THEN NULL ELSE q[(k + 1) + 1]
      BY <2>4, <3>2 DEF Line, Chain
    <3>4. {q[i] : i \in 1..(k + 1)} = {q[i] : i \in 1..k} \cup {q[k + 1]}
      <4>1. \A i \in 1..(k + 1) : i \in 1..k \/ i = k + 1
        BY <3>2
      <4>2. (\A i \in 1..k : i \in 1..(k + 1)) /\ k + 1 \in 1..(k + 1)
        BY <3>2
      <4> QED
        BY <4>1, <4>2
    <3> HIDE DEF next, c
    <3> QED
      BY <2>3, <3>1, <3>2, <3>3, <3>4
  <2>5. lock[s]
    BY <1>3, <2>1
  <2> HIDE DEF next
  <2>6. MidPass(s, next)
    BY <2>4 DEF MidPass
  <2>7. CASE Fail("assert handshaked")
    BY <1>7, <2>7 DEF Faults
  <2>8. CASE UNCHANGED lock /\ Become(s, SenderAt("dead"))
    BY <1>4, <1>8, <2>8
  <2>9. CASE UNCHANGED lock /\ Become(s, next)
    BY <1>6, <2>3, <2>5, <2>6, <2>9
  <2> QED
    BY <2>2, <2>7, <2>8, <2>9
<1>13. CASE UnlockStation(s)
  BY <1>4, <1>8, <1>13 DEF UnlockStation
<1>14. CASE NextSong(s)
  <2> DEFINE next == [SenderAt("announce") EXCEPT !.at = head_clients[s]]
  <2>1. next.pc = "announce"
    BY DEF SenderAt
  <2>2. Fail("freed station") \/ (UNCHANGED lock /\ Become(s, next))
    BY <1>14 DEF NextSong
  <2> HIDE DEF next
  <2> QED
    BY <1>4, <1>7, <2>1, <2>2 DEF Faults
<1>15. CASE Announce(s)
  <2> DEFINE next == [sender[s] EXCEPT !.at = next_client[sender[s].at]]
  <2>1. next.pc = "announce"
    BY <1>1, <1>15 DEF Announce, SenderStates
  <2>2. \/ Fail("freed station") \/ Fail("assert announce")
        \/ UNCHANGED lock /\ (\/ Become(s, SenderAt("read")) \/ Become(s, SenderAt("dead"))
                              \/ Become(s, next))
    BY <1>15 DEF Announce
  <2> HIDE DEF next
  <2> QED
    BY <1>4, <1>7, <1>8, <2>1, <2>2 DEF Faults
<1> QED
  BY <1>9, <1>10, <1>11, <1>12, <1>13, <1>14, <1>15 DEF SenderStep

LEMMA NextLinked ==
  ASSUME StationsSetOnce
  PROVE  Safe /\ Linked /\ [Next]_vars => Linked'
<1> SUFFICES ASSUME Safe, Linked, [Next]_vars PROVE Linked'
  OBVIOUS
<1>1. CASE Next
  <2>1. fault = "none"
    BY <1>1 DEF Next
  <2>2. CASE MainStep \/ ClientEvent
    BY <2>1, <2>2, MainStepLinked, ClientEventLinked
  <2>3. CASE OpStep \/ Command
    BY <2>1, <2>3, CommandLinked, AddStationLinked, CloseLinked DEF OpStep, Command
  <2>4. CASE \E s \in Stations : SenderStep(s)
    BY <2>1, <2>4, SenderStepLinked
  <2> QED
    BY <1>1, <2>2, <2>3, <2>4 DEF Next
<1>2. CASE UNCHANGED vars
  <2>1. /\ UNCHANGED <<heap, cur_station, lock, sender, main, fault>>
        /\ UNCHANGED <<next_client, head_clients, tail_clients, counter>>
    BY <1>2 DEF vars, threadVars, listVars, clientVars, stationVars
  <2>2. CASE fault # "none"
    BY <2>1, <2>2 DEF Linked
  <2>3. CASE fault = "none"
    <3>1. \A s \in Stations : Listeners(s)' = Listeners(s)
      BY <2>1 DEF Listeners
    <3>2. \A s \in Stations : heap[s] = "live" => InLine(s)'
      BY <2>1, <2>3, <3>1, InLineKept DEF Linked
    <3>3. PassOK'
      BY <2>1, <2>3 DEF Linked, PassOK
    <3> QED
      BY <2>1, <2>3, <3>2, <3>3, ListsUntouched
  <2> QED
    BY <2>2, <2>3
<1> QED
  BY <1>1, <1>2

\* As long as the clients set their stations once, the list of every live
\* station is exactly its listeners, however many clients and stations there
\* are and whatever the operator does.
THEOREM ListenersExact ==
  ASSUME StationsSetOnce
  PROVE  Spec => []ListsExact
<1>1. Safe /\ Linked => ListsExact
  BY LinkedImplies
<1> QED
  BY <1>1, InitSafe, NextSafe, InitLinked, NextLinked, PTL DEF Spec

\* Then no client keeps a station that remove_station or release_stations freed:
\* their assert on the counter ends the process before.
THEOREM StationsOfClientsLive ==
  ASSUME StationsSetOnce
  PROVE  Spec => []CurStationLive
<1>1. Safe /\ Linked => CurStationLive
  BY LinkedImplies
<1> QED
  BY <1>1, InitSafe, NextSafe, InitLinked, NextLinked, PTL DEF Spec

\* And a pass of a sender serves every listener once, and nobody else.
THEOREM PassesComplete ==
  ASSUME StationsSetOnce
  PROVE  Spec => []PassServesListeners
<1>1. Safe /\ Linked => PassServesListeners
  BY LinkedImplies
<1> QED
  BY <1>1, InitSafe, NextSafe, InitLinked, NextLinked, PTL DEF Spec

-----------------------------------------------------------------------------
(* What holds when nothing goes wrong: clients shake hands, set a station at *)
(* most once, ask and leave, songs do not end, and the operator adds and     *)
(* lists stations.  Any other event has a run of the program that ends it.   *)

OrderlyUse == Env \subseteq {"leave", "bad_song"} /\ Commands \subseteq {"a", "l"}

\* No station is freed, no sender leaves the lock to announce a song, and
\* whoever is on a list or on the way to one shook hands and has a udp socket.
Calm ==
  /\ fault = "none"
  /\ op.pc \in {"input", "push", "print"}
  /\ \A s \in Stations : /\ heap[s] # "freed"
                         /\ sender[s].pc \notin {"next", "announce"}
                         /\ sender[s].eof = FALSE
  /\ \A c \in Slots : /\ state[c] = "HANDSHAKED" => udp_sock[c]
                      /\ cur_station[c] # NULL => state[c] = "HANDSHAKED"
  /\ main.pc \in {"remove", "append"} /\ main.target # NULL => state[main.c] = "HANDSHAKED"
  /\ main.pc = "cur_song" => cur_station[main.c] # NULL

LEMMA InitCalm == Init => Calm
<1> SUFFICES ASSUME Init PROVE Calm
  OBVIOUS
<1>1. /\ state = [c \in Slots |-> "NO_STATE"] /\ cur_station = [c \in Slots |-> NULL]
      /\ main = MainIdle /\ op = OpIdle /\ fault = "none"
      /\ \A s \in Stations : heap[s] # "freed"
      /\ sender = [s \in Stations |-> SenderAt(IF heap[s] = "live" THEN "read" ELSE "none")]
  BY DEF Init, ListsInit
<1>2. \A s \in Stations : sender[s].pc \in {"read", "none"} /\ sender[s].eof = FALSE
  BY <1>1 DEF SenderAt
<1> QED
  BY <1>1, <1>2 DEF Calm, MainIdle, OpIdle

\* A step of main that leaves the clients' states and stations alone.
LEMMA MainCalm ==
  ASSUME Calm, MainKeeps, UNCHANGED <<state, udp_sock, cur_station, heap>>,
         main'.pc \in {"remove", "append"} /\ main'.target # NULL => state[main'.c] = "HANDSHAKED",
         main'.pc = "cur_song" => cur_station[main'.c] # NULL
  PROVE  Calm'
  BY DEF Calm, MainKeeps

LEMMA MainStepCalm ==
  ASSUME Safe, Linked, Calm, MainStep
  PROVE  Calm'
<1> USE DEF Safe, LockedStationLive, TypeOK
<1>1. \A t \in Stations : heap[t] \in {"unused", "live"}
  BY DEF Calm, ListsTypeOK
<1>2. main \in MainStates
  OBVIOUS
<1>3. fault = "none"
  BY DEF Calm
<1>4. CASE RemoveRead
  <2> DEFINE t == cur_station[main.c]
  <2>1. /\ main.pc = "remove" /\ UNCHANGED listVars /\ MainKeeps
        /\ main' = [main EXCEPT !.pc = IF t = NULL THEN AfterRemove ELSE "remove_lock",
                                !.ptr = t]
    BY <1>4 DEF RemoveRead
  <2>2. /\ main'.c = main.c /\ main'.target = main.target
        /\ main'.pc \in {"reset", "append", "remove_lock"}
    BY <1>2, <2>1 DEF MainStates, AfterRemove
  <2>3. UNCHANGED <<state, udp_sock, cur_station, heap>>
    BY <2>1 DEF listVars, clientVars, stationVars
  <2>4. main.target # NULL => state[main.c] = "HANDSHAKED"
    BY <2>1 DEF Calm
  <2> QED
    BY <2>1, <2>2, <2>3, <2>4, MainCalm
<1>5. CASE Remove
  <2>1. /\ main.pc = "remove_lock" /\ MainKeeps /\ RemoveBody(main.ptr, main.c)
        /\ main' = [main EXCEPT !.pc = AfterRemove, !.ptr = NULL]
    BY <1>5 DEF Remove
  <2>2. main.target = NULL
    BY <1>3, <2>1 DEF Linked, HandlerOK
  <2>3. main'.pc = "reset"
    BY <1>2, <2>1, <2>2 DEF MainStates, AfterRemove
  <2>4. UNCHANGED <<state, udp_sock, cur_station, heap>>
    BY <2>1 DEF RemoveBody
  <2> QED
    BY <2>1, <2>3, <2>4, MainCalm
<1>6. ~RemoveFails
  <2> SUFFICES ASSUME RemoveFails PROVE FALSE
    OBVIOUS
  <2>1. PICK c \in Slots, s \in Stations : c = main.c /\ s = main.ptr
    BY DEF RemoveFails, MainOK
  <2>2. main.pc = "remove_lock" /\ s # NULL
    BY <2>1, SlotsFinite DEF RemoveFails
  <2>3. heap[s] = "live"
    BY <1>1, <2>1, <2>2 DEF MainOK
  <2>4. cur_station[c] = s
    BY <1>3, <2>1, <2>2, <2>3 DEF Linked, HandlerOK
  <2>5. c \in Listeners(s)
    BY <2>2, <2>4 DEF Listeners
  <2>6. PICK n \in Nat : \E q \in [1..n -> Slots] : Line(s, n, q)
    BY <1>3, <2>3 DEF Linked, InLine
  <2>7. PICK q \in [1..n -> Slots] : Line(s, n, q)
    BY <2>6
  <2>8. Chain(s, n, q) /\ {q[i] : i \in 1..n} = Listeners(s)
    BY <2>7 DEF Line
  <2>9. 1 \in 1..n /\ n # 0
    BY <2>5, <2>8
  <2>10. head_clients[s] # NULL
    BY <2>8, <2>9, SlotsFinite DEF Chain
  <2>11. tail_clients[s] = c => next_client[c] = NULL
    BY <1>3, <2>3, SlotsFinite, LinkedImplies DEF ListsExact
  <2>12. ~Cyclic(s)
    BY <1>3, <2>3, LinkedImplies DEF ListsExact
  <2> QED
    BY <2>1, <2>3, <2>10, <2>11, <2>12 DEF RemoveFails, RemoveAsserts, RemoveSpins
<1>7. CASE AppendClient
  <2>1. PICK c \in Slots, s \in Stations : c = main.c /\ s = main.target
    BY <1>7 DEF AppendClient, MainOK
  <2>2. main.pc = "append" /\ s # NULL
    BY <1>7, SlotsFinite DEF AppendClient
  <2>3. /\ AppendBody(s, c) /\ MainKeeps
        /\ main' = [main EXCEPT !.pc = "cur_song"]
    BY <1>1, <1>7, <2>1 DEF AppendClient
  <2>4. main'.c = c /\ main'.pc = "cur_song"
    BY <1>2, <2>1, <2>3 DEF MainStates
  <2>5. state[c] = "HANDSHAKED"
    BY <2>1, <2>2 DEF Calm
  <2>6. cur_station[c] = NULL
    BY <1>3, <2>1, <2>2 DEF Linked, HandlerOK
  <2>7. /\ UNCHANGED <<state, udp_sock, heap>>
        /\ \A d \in Slots : cur_station'[d] = IF d = c THEN s ELSE cur_station[d]
    BY <2>2, <2>3, <2>6 DEF AppendBody, ListsTypeOK
  <2> QED
    BY <2>2, <2>3, <2>4, <2>5, <2>7 DEF Calm, MainKeeps
<1>8. CASE Reset
  <2>1. PICK c \in Slots : c = main.c
    BY <1>8 DEF Reset, MainOK
  <2>2. main' = MainIdle /\ MainKeeps /\ ResetBody(c) /\ main'.pc = "select"
    BY <1>8, <2>1 DEF Reset, MainIdle
  <2>3. /\ UNCHANGED heap
        /\ \A d \in Slots : state'[d] = IF d = c THEN "NO_STATE" ELSE state[d]
        /\ \A d \in Slots : d # c => udp_sock'[d] = udp_sock[d]
        /\ \A d \in Slots : cur_station'[d] = IF d = c THEN NULL ELSE cur_station[d]
    BY <2>2 DEF ResetBody, stationVars, ListsTypeOK
  <2> QED
    BY <2>2, <2>3 DEF Calm, MainKeeps
<1>9. CASE CurSong
  <2>1. main.pc = "cur_song" /\ cur_station[main.c] # NULL
    BY <1>9 DEF CurSong, Calm
  <2>2. /\ main' = [main EXCEPT !.pc = "use", !.ptr = cur_station[main.c]]
        /\ UNCHANGED listVars /\ MainKeeps
    BY <1>9, <2>1 DEF CurSong
  <2>3. main'.pc = "use"
    BY <1>2, <2>2 DEF MainStates
  <2> QED
    BY <2>2, <2>3, MainCalm DEF listVars, clientVars, stationVars
<1>10. CASE UseStation
  <2>1. main.ptr \in Stations
    BY <1>10 DEF UseStation, MainOK
  <2>2. main' = MainIdle /\ UNCHANGED listVars /\ MainKeeps
    BY <1>1, <1>10, <2>1 DEF UseStation
  <2> QED
    BY <2>2, MainCalm DEF listVars, clientVars, stationVars, MainIdle
<1>11. CASE WalkStations
  <2>1. main.ptr # NULL => main.ptr \in Stations
    BY <1>2 DEF MainStates
  <2>2. /\ UNCHANGED listVars /\ MainKeeps
        /\ main' = MainIdle \/ main' = [main EXCEPT !.ptr = next_station(main.ptr)]
    BY <1>1, <1>11, <2>1 DEF WalkStations
  <2>3. main'.pc \in {"select", "walk"}
    <3>1. CASE main' = MainIdle
      BY <3>1 DEF MainIdle
    <3>2. CASE main' = [main EXCEPT !.ptr = next_station(main.ptr)]
      BY <1>2, <1>11, <3>2 DEF WalkStations, MainStates
    <3> QED
      BY <2>2, <3>1, <3>2
  <2> QED
    BY <2>2, <2>3, MainCalm DEF listVars, clientVars, stationVars
<1> QED
  BY <1>4, <1>5, <1>6, <1>7, <1>8, <1>9, <1>10, <1>11 DEF MainStep

LEMMA ClientEventCalm ==
  ASSUME Safe, Calm, ClientEvent, OrderlyUse
  PROVE  Calm'
<1> USE DEF Safe, LockedStationLive, TypeOK
<1>1. "early_set" \notin Env /\ "early_leave" \notin Env /\ "busy" \notin Env /\ "no_udp" \notin Env
  BY DEF OrderlyUse
<1>2. ASSUME NEW c \in Slots, Accept(c) PROVE Calm'
  <2>1. /\ state[c] = "NO_STATE" /\ state' = [state EXCEPT ![c] = "INIT_STATE"]
        /\ UNCHANGED <<udp_sock, cur_station, stationVars, main>> /\ MainKeeps
        /\ main.pc = "select"
    BY <1>2 DEF Accept
  <2>2. UNCHANGED heap /\ \A d \in Slots : state'[d] = IF d = c THEN "INIT_STATE" ELSE state[d]
    BY <2>1 DEF ListsTypeOK, stationVars
  <2> QED
    BY <2>1, <2>2 DEF Calm, MainKeeps
<1>3. ASSUME NEW c \in Slots, NEW built \in {TRUE}, Hello(c, built) PROVE Calm'
  <2>1. /\ state' = [state EXCEPT ![c] = "HANDSHAKED"]
        /\ udp_sock' = [udp_sock EXCEPT ![c] = TRUE]
        /\ UNCHANGED <<cur_station, stationVars, main>> /\ MainKeeps
        /\ main.pc = "select"
    BY <1>3 DEF Hello
  <2>2. UNCHANGED heap /\ \A d \in Slots : state'[d] = IF d = c THEN "HANDSHAKED" ELSE state[d]
    BY <2>1 DEF ListsTypeOK, stationVars
  <2>3. \A d \in Slots : (d = c => udp_sock'[d]) /\ (udp_sock[d] => udp_sock'[d])
    BY <2>1, Zenon DEF ListsTypeOK
  <2> QED
    BY <2>1, <2>2, <2>3 DEF Calm, MainKeeps
<1>4. ASSUME NEW c \in Slots, NEW i, SetStation(c, i) PROVE Calm'
  <2>1. /\ UNCHANGED listVars /\ MainKeeps
        /\ main' = [MainIdle EXCEPT !.pc = "remove", !.c = c, !.target = find_station_from_id(i)]
        /\ state[c] = "HANDSHAKED"
    BY <1>1, <1>4 DEF SetStation, ListsTypeOK
  <2>2. main'.pc = "remove" /\ main'.c = c
    BY <2>1 DEF MainIdle
  <2> QED
    BY <2>1, <2>2, MainCalm DEF listVars, clientVars, stationVars
<1>5. ASSUME NEW c \in Slots, Disconnect(c) \/ RequestSongs(c) \/ RequestStations(c)
      PROVE  Calm'
  <2>1. /\ UNCHANGED listVars /\ MainKeeps
        /\ \/ main' = [MainIdle EXCEPT !.pc = "remove", !.c = c]
           \/ main' = [MainIdle EXCEPT !.pc = "cur_song", !.c = c] /\ cur_station[c] # NULL
           \/ main' = [MainIdle EXCEPT !.pc = "walk", !.c = c, !.ptr = head_station]
    BY <1>5 DEF Disconnect, RequestSongs, RequestStations
  <2>2. /\ main'.target = NULL /\ main'.c = c
        /\ main'.pc = "cur_song" => cur_station[c] # NULL
    BY <2>1 DEF MainIdle
  <2> QED
    BY <2>1, <2>2, MainCalm DEF listVars, clientVars, stationVars
<1> QED
  BY <1>1, <1>2, <1>3, <1>4, <1>5 DEF ClientEvent, AcceptBusy, DisconnectEarly

LEMMA OperatorCalm ==
  ASSUME Safe, Linked, Calm, OpStep \/ Command, OrderlyUse
  PROVE  Calm'
<1> USE DEF Safe, LockedStationLive, TypeOK
<1>1. /\ op.pc \in {"input", "push", "print"} /\ op \in OpStates
      /\ Commands \subseteq {"a", "l"} /\ fault = "none"
  BY DEF Calm, OrderlyUse
<1>2. ~RemoveStation /\ ~CloseStation /\ ~Release /\ ~Released /\ ~Quit /\ ~Shutdown
      /\ \A i : ~Delete(i)
  BY <1>1 DEF RemoveStation, CloseStation, Release, Released, Quit, Shutdown, Delete
<1>3. ASSUME UNCHANGED <<state, udp_sock, cur_station, heap, main, fault>>,
             op'.pc \in {"input", "push", "print"},
             \A s \in Stations : sender'[s] = sender[s] \/ sender'[s] = SenderAt("read")
      PROVE  Calm'
  BY <1>3 DEF Calm, SenderAt
<1>4. CASE Push
  <2>1. /\ PushBody(op.st) /\ sender' = [sender EXCEPT ![op.st] = SenderAt("read")]
        /\ op' = OpIdle /\ OpKeeps
    BY <1>4 DEF Push
  <2>2. \A s \in Stations : sender'[s] = sender[s] \/ sender'[s] = SenderAt("read")
    BY <2>1
  <2> QED
    BY <1>3, <2>1, <2>2 DEF PushBody, OpIdle, OpKeeps, clientVars
<1>5. CASE List
  BY <1>3, <1>5 DEF List, OpKeeps, listVars, clientVars, stationVars
<1>6. CASE PrintStations
  <2>1. op.pc = "print" /\ (op.st # NULL => op.st \in Stations)
    BY <1>1, <1>6 DEF PrintStations, OpStates
  <2>2. op.st # NULL => heap[op.st] = "live"
    BY <1>1, <2>1 DEF OpOK, ListedAreLive, Listed
  <2>3. op.st # NULL => ~Cyclic(op.st)
    BY <1>1, <2>1, <2>2, LinkedImplies DEF ListsExact
  <2>4. /\ op' = OpIdle \/ op' = [op EXCEPT !.st = next_station(op.st)]
        /\ UNCHANGED <<listVars, sender, main, fault>>
    BY <1>6, <2>3 DEF PrintStations, OpKeeps
  <2>5. op'.pc \in {"input", "print"}
    BY <1>1, <2>1, <2>4 DEF OpIdle, OpStates
  <2> QED
    BY <1>3, <2>4, <2>5 DEF listVars, clientVars, stationVars
<1>7. ASSUME NEW s \in Stations, AddStation(s) PROVE Calm'
  <2>1. /\ heap' = [heap EXCEPT ![s] = "live"] /\ op' = [pc |-> "push", cmd |-> "a", st |-> s]
        /\ UNCHANGED <<state, udp_sock, cur_station, sender, main, fault>>
    BY <1>7 DEF AddStation, OpKeeps, clientVars
  <2>2. op'.pc = "push" /\ \A t \in Stations : heap'[t] = IF t = s THEN "live" ELSE heap[t]
    BY <2>1 DEF ListsTypeOK
  <2> QED
    BY <2>1, <2>2 DEF Calm
<1> QED
  BY <1>2, <1>4, <1>5, <1>6, <1>7 DEF OpStep, Command

LEMMA SenderStepCalm ==
  ASSUME Safe, Linked, Calm, NEW s \in Stations, SenderStep(s), OrderlyUse
  PROVE  Calm'
<1> USE DEF Safe, LockedStationLive, TypeOK
<1>1. /\ sender \in [Stations -> SenderStates] /\ sender[s].eof = FALSE
      /\ sender[s].pc \notin {"next", "announce"} /\ heap[s] # "freed" /\ "next_song" \notin Env
  BY DEF Calm, OrderlyUse
<1>2. ASSUME NEW next, Become(s, next), next.pc \notin {"next", "announce"}, next.eof = FALSE
      PROVE  Calm'
  <2>1. /\ UNCHANGED <<state, udp_sock, cur_station, heap, main, op, fault>>
        /\ \A t \in Stations : sender'[t] = IF t = s THEN next ELSE sender[t]
    BY <1>1, <1>2 DEF Become, listVars, clientVars, stationVars
  <2> QED
    BY <1>2, <2>1 DEF Calm
<1>3. \A pc : SenderAt(pc).pc = pc /\ SenderAt(pc).eof = FALSE
  BY DEF SenderAt
<1>4. ASSUME NEW eof \in {FALSE}, Read(s, eof) PROVE Calm'
  <2> DEFINE next == [SenderAt("lock") EXCEPT !.eof = eof]
  <2>1. next.pc = "lock" /\ next.eof = FALSE
    BY <1>4 DEF SenderAt
  <2>2. Become(s, SenderAt("dead")) \/ Become(s, next)
    BY <1>4 DEF Read
  <2> HIDE DEF next
  <2> QED
    BY <1>2, <1>3, <2>1, <2>2
<1>5. CASE OpenFails(s)
  BY <1>2, <1>3, <1>5 DEF OpenFails
<1>6. CASE LockStation(s)
  <2> DEFINE next == [sender[s] EXCEPT !.pc = "send", !.at = head_clients[s]]
  <2>1. next.pc = "send" /\ next.eof = FALSE
    BY <1>1 DEF SenderStates
  <2>2. Become(s, next)
    BY <1>1, <1>6 DEF LockStation
  <2> HIDE DEF next
  <2> QED
    BY <1>2, <2>1, <2>2
<1>7. CASE SendChunk(s)
  <2> DEFINE c == sender[s].at
             next == [sender[s] EXCEPT !.at = next_client[c], !.sent = @ \cup {c}]
  <2>1. sender[s].pc = "send" /\ c # NULL /\ c \in Slots
    BY <1>1, <1>7 DEF SendChunk, SenderStates
  <2>2. lock[s] /\ fault = "none"
    BY <2>1 DEF Linked, PassOK, Calm
  <2>3. heap[s] = "live"
    BY <2>2
  <2>4. PICK n \in Nat : \E q \in [1..n -> Slots] : Line(s, n, q)
    BY <2>2, <2>3 DEF Linked, InLine
  <2>5. PICK q \in [1..n -> Slots] : Line(s, n, q)
    BY <2>4
  <2>6. PICK k \in 0..n : c = IF k = n THEN NULL ELSE q[k + 1]
    BY <2>1, <2>5 DEF Line
  <2>7. k + 1 \in 1..n /\ c = q[k + 1]
    BY <2>1, <2>6
  <2>8. c \in Listeners(s)
    BY <2>5, <2>7 DEF Line
  <2>9. cur_station[c] # NULL
    BY <2>8, SlotsFinite DEF Listeners
  <2>10. state[c] = "HANDSHAKED" /\ udp_sock[c]
    BY <2>1, <2>9 DEF Calm
  <2>11. Become(s, SenderAt("dead")) \/ Become(s, next)
    BY <1>7, <2>10 DEF SendChunk
  <2>12. next.pc = "send" /\ next.eof = FALSE
    BY <1>1, <2>1 DEF SenderStates
  <2> HIDE DEF next
  <2> QED
    BY <1>2, <1>3, <2>11, <2>12
<1>8. CASE UnlockStation(s)
  BY <1>1, <1>2, <1>3, <1>8 DEF UnlockStation
<1> QED
  BY <1>1, <1>4, <1>5, <1>6, <1>7, <1>8 DEF SenderStep, NextSong, Announce

LEMMA NextCalm ==
  ASSUME OrderlyUse
  PROVE  Safe /\ Linked /\ Calm /\ [Next]_vars => Calm'
<1> SUFFICES ASSUME Safe, Linked, Calm, [Next]_vars PROVE Calm'
  OBVIOUS
<1>1. CASE Next
  BY <1>1, MainStepCalm, ClientEventCalm, OperatorCalm, SenderStepCalm DEF Next
<1>2. CASE UNCHANGED vars
  BY <1>2 DEF vars, threadVars, listVars, clientVars, stationVars, Calm
<1> QED
  BY <1>1, <1>2

\* However many clients and stations there are: no assert of the server fails,
\* no freed station is used and no loop over a list is endless while clients
\* join and leave in order and the operator adds and lists stations.
THEOREM NothingFails ==
  ASSUME OrderlyUse
  PROVE  Spec => []NoFault
<1>1. StationsSetOnce
  BY DEF OrderlyUse, StationsSetOnce
<1>2. Safe /\ Linked /\ [Next]_vars => Linked'
  BY <1>1, NextLinked
<1>3. Calm => NoFault
  BY DEF Calm, NoFault
<1> QED
  BY <1>2, <1>3, InitSafe, NextSafe, InitLinked, InitCalm, NextCalm, PTL DEF Spec
=============================================================================
