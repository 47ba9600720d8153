------------------------- MODULE SnowcastControlProof -------------------------
(* The pending commands of snowcast_control stay in step with its connection, *)
(* for any numbers, ports and stations and any number of commands.            *)
EXTENDS SnowcastControl, LeastNumbers, FiniteSetTheorems, SequenceTheorems, TLAPS

-----------------------------------------------------------------------------
(* Ranks of places, which are finite sets of numbers.                        *)

Places(S) == IsFiniteSet(S) /\ S \subseteq Nat \ {0}
Below(S, T) == \A s \in S, t \in T : s < t
\* T is S when the first k places are dropped.
Dropped(S, k, T) == \A n \in Nat \ {0} : n \in T <=> n + k \in S

\* The places of a sequence.
LEMMA PlacesLemma ==
  ASSUME NEW len \in Nat, NEW S, S \subseteq 1..len
  PROVE  Places(S)
<1>1. IsFiniteSet(1..len)
  BY FS_Interval
<1>2. IsFiniteSet(S)
  BY <1>1, FS_Subset
<1> QED
  BY <1>2 DEF Places

\* Ranks are between one and the number of places.
LEMMA RankType ==
  ASSUME NEW S, Places(S)
  PROVE  /\ Cardinality(S) \in Nat
         /\ \A n \in S : Rank(S, n) \in 1..Cardinality(S)
<1>1. IsFiniteSet(S) /\ S \subseteq Nat \ {0}
  BY DEF Places
<1>2. Cardinality(S) \in Nat
  BY <1>1, FS_CardinalityType
<1>3. ASSUME NEW n \in S
      PROVE  Rank(S, n) \in 1..Cardinality(S)
  <2> DEFINE T == {m \in S : m <= n}
  <2>1. T \in SUBSET S /\ n \in T
    BY <1>1
  <2>2. IsFiniteSet(T) /\ Cardinality(T) <= Cardinality(S)
    BY <1>1, <2>1, FS_Subset
  <2>3. Cardinality(T) \in Nat /\ Cardinality(T) # 0
    BY <2>1, <2>2, FS_CardinalityType, FS_EmptySet
  <2> QED
    BY <1>2, <2>2, <2>3 DEF Rank
<1> QED
  BY <1>2, <1>3

\* Places behind others.
LEMMA RankUnion ==
  ASSUME NEW S, NEW T, Places(S), Places(T), Below(S, T)
  PROVE  /\ Cardinality(S \cup T) = Cardinality(S) + Cardinality(T)
         /\ \A n \in S : Rank(S \cup T, n) = Rank(S, n)
         /\ \A n \in T : Rank(S \cup T, n) = Cardinality(S) + Rank(T, n)
<1>1. /\ IsFiniteSet(S) /\ IsFiniteSet(T) /\ S \subseteq Nat /\ T \subseteq Nat
      /\ \A s \in S, t \in T : s < t
  BY DEF Places, Below
<1>2. ASSUME NEW U \in SUBSET T
      PROVE  Cardinality(S \cup U) = Cardinality(S) + Cardinality(U)
  <2>1. IsFiniteSet(U)
    BY <1>1, FS_Subset
  <2>2. S \cap U = {}
    BY <1>1
  <2>3. Cardinality(S \cup U) = Cardinality(S) + Cardinality(U) - Cardinality(S \cap U)
    BY <1>1, <2>1, FS_Union
  <2>4. Cardinality(S \cap U) = 0
    BY <2>2, FS_EmptySet
  <2>5. Cardinality(S) \in Nat /\ Cardinality(U) \in Nat
    BY <1>1, <2>1, FS_CardinalityType
  <2> QED
    BY <2>3, <2>4, <2>5
<1>3. ASSUME NEW n \in S
      PROVE  Rank(S \cup T, n) = Rank(S, n)
  <2>1. \A m \in T : ~(m <= n)
    BY <1>1
  <2>2. {m \in S \cup T : m <= n} = {m \in S : m <= n}
    BY <2>1, Zenon
  <2> QED
    BY <2>2 DEF Rank
<1>4. ASSUME NEW n \in T
      PROVE  Rank(S \cup T, n) = Cardinality(S) + Rank(T, n)
  <2>1. \A m \in S : m <= n
    BY <1>1
  <2>2. {m \in S \cup T : m <= n} = S \cup {m \in T : m <= n}
    BY <2>1, Zenon
  <2>3. {m \in T : m <= n} \in SUBSET T
    OBVIOUS
  <2> QED
    BY <1>2, <2>2, <2>3 DEF Rank
<1> QED
  BY <1>2, <1>3, <1>4

\* One more place behind the others.
LEMMA RankAppend ==
  ASSUME NEW S, Places(S), NEW x \in Nat \ {0}, \A s \in S : s < x
  PROVE  /\ Cardinality(S \cup {x}) = Cardinality(S) + 1
         /\ \A n \in S : Rank(S \cup {x}, n) = Rank(S, n)
         /\ Rank(S \cup {x}, x) = Cardinality(S) + 1
<1> DEFINE X == {x}
<1>1. x \in X /\ \A m \in X : m = x
  OBVIOUS
<1>2. IsFiniteSet(X) /\ Cardinality(X) = 1
  BY FS_Singleton
<1>3. Places(X)
  BY <1>2 DEF Places
<1>4. Below(S, X)
  BY DEF Below
<1>5. Rank(X, x) = 1
  <2>1. \A m \in X : m <= x
    OBVIOUS
  <2>2. {m \in X : m <= x} = X
    BY <2>1, Zenon
  <2> QED
    BY <1>2, <2>2 DEF Rank
<1> HIDE DEF X
<1>6. /\ Cardinality(S \cup X) = Cardinality(S) + Cardinality(X)
      /\ \A n \in S : Rank(S \cup X, n) = Rank(S, n)
      /\ \A n \in X : Rank(S \cup X, n) = Cardinality(S) + Rank(X, n)
  BY <1>3, <1>4, RankUnion
<1>7. /\ Cardinality(S \cup X) = Cardinality(S) + 1
      /\ \A n \in S : Rank(S \cup X, n) = Rank(S, n)
      /\ Rank(S \cup X, x) = Cardinality(S) + 1
  BY <1>1, <1>2, <1>5, <1>6
<1> QED
  BY <1>7 DEF X

\* Places of which none is among the first k that are dropped.
LEMMA RankShift ==
  ASSUME NEW S, NEW T, NEW k \in Nat, Places(S), Places(T), Dropped(S, k, T),
         \A s \in S : s > k
  PROVE  /\ Cardinality(T) = Cardinality(S)
         /\ \A n \in T : Rank(T, n) = Rank(S, n + k)
<1>1. /\ IsFiniteSet(T) /\ S \subseteq Nat \ {0} /\ T \subseteq Nat \ {0}
      /\ \A n \in Nat \ {0} : n \in T <=> n + k \in S
  BY DEF Places, Dropped
<1>2. ASSUME NEW U \in SUBSET S, NEW V \in SUBSET T,
             \A n \in Nat \ {0} : n \in V <=> n + k \in U
      PROVE  Cardinality(V) = Cardinality(U)
  <2> DEFINE f == [n \in V |-> n + k]
  <2>1. f \in Bijection(V, U)
    <3>1. f \in [V -> U]
      BY <1>1, <1>2
    <3>2. \A a, b \in V : f[a] = f[b] => a = b
      BY <1>1, <1>2
    <3>3. ASSUME NEW u \in U
          PROVE  \E v \in V : f[v] = u
      <4>1. u - k \in Nat \ {0} /\ (u - k) + k = u
        BY <1>1, <1>2
      <4>2. u - k \in V /\ f[u - k] = u
        BY <1>2, <4>1
      <4> QED
        BY <4>2
    <3> QED
      BY <3>1, <3>2, <3>3 DEF Bijection, Injection, Surjection, IsInjective
  <2>2. IsFiniteSet(V)
    BY <1>1, FS_Subset
  <2> QED
    BY <2>1, <2>2, FS_Bijection DEF ExistsBijection
<1>3. ASSUME NEW n \in T
      PROVE  Rank(T, n) = Rank(S, n + k)
  <2> DEFINE U == {m \in S : m <= n + k}
             V == {m \in T : m <= n}
  <2>1. U \in SUBSET S /\ V \in SUBSET T
    OBVIOUS
  <2>2. \A m \in Nat \ {0} : m <= n <=> m + k <= n + k
    BY <1>1
  <2>3. \A m \in Nat \ {0} : m \in V <=> m + k \in U
    BY <1>1, <2>2
  <2> HIDE DEF U, V
  <2>4. Cardinality(V) = Cardinality(U)
    BY <1>2, <2>1, <2>3
  <2> QED
    BY <2>4 DEF Rank, U, V
<1>4. S \in SUBSET S /\ T \in SUBSET T
  OBVIOUS
<1> QED
  BY <1>1, <1>2, <1>3, <1>4

\* Places of which the first is dropped with all numbers before the second.
LEMMA RankDrop ==
  ASSUME NEW S, NEW T, NEW k \in Nat \ {0}, Places(S), Places(T), Dropped(S, k, T),
         1 \in S, \A s \in S \ {1} : s > k
  PROVE  /\ Rank(S, 1) = 1
         /\ Cardinality(S) = 1 + Cardinality(T)
         /\ \A n \in T : n + k \in S /\ Rank(S, n + k) = 1 + Rank(T, n)
<1> DEFINE U == S \ {1}
<1>1. k \in Nat /\ S \subseteq Nat \ {0} /\ IsFiniteSet(S) /\ T \subseteq Nat \ {0}
      /\ \A n \in Nat \ {0} : n \in T <=> n + k \in S
  BY DEF Places, Dropped
<1>2. IsFiniteSet(U) /\ IsFiniteSet({1})
  BY <1>1, FS_RemoveElement, FS_Singleton
<1>3. Places(U) /\ Places({1})
  BY <1>1, <1>2 DEF Places
<1>4. Below({1}, U)
  BY <1>1 DEF Below
<1>5. \A n \in Nat \ {0} : n \in T <=> n + k \in U
  BY <1>1
<1>6. Dropped(U, k, T)
  BY <1>5 DEF Dropped
<1>7. S = {1} \cup U /\ \A s \in U : s > k
  OBVIOUS
<1> HIDE DEF U
<1>8. Cardinality(T) = Cardinality(U) /\ \A n \in T : Rank(T, n) = Rank(U, n + k)
  BY <1>1, <1>3, <1>6, <1>7, RankShift
<1>9. Cardinality({1}) = 1
  BY FS_Singleton
<1>10. /\ Cardinality({1} \cup U) = Cardinality({1}) + Cardinality(U)
       /\ \A n \in U : Rank({1} \cup U, n) = Cardinality({1}) + Rank(U, n)
  BY <1>3, <1>4, RankUnion
<1>11. Rank(S, 1) = 1
  <2>1. \A m \in S : m <= 1 <=> m = 1
    BY <1>1
  <2>2. {m \in S : m <= 1} = {1}
    BY <2>1, Zenon
  <2> QED
    BY <1>9, <2>2 DEF Rank
<1>12. \A n \in T : n + k \in U
  BY <1>1, <1>5
<1> QED
  BY <1>7, <1>8, <1>9, <1>10, <1>11, <1>12
-----------------------------------------------------------------------------
(* A queue q of commands with their numbers a, in step with messages s on    *)
(* their way to the client and bytes b on their way to the server.           *)

RepliesIn(s) == {n \in 1..Len(s) : Answers(s[n]) # {}}

\* A line of the client starts at n, and its number contains no newline.
LineAt(b, n) ==
  \/ /\ b[n] \in {CMD_HELLO, CMD_SETSTATION} /\ n + 3 <= Len(b)
     /\ b[n + 1] # NL /\ b[n + 2] # NL /\ b[n + 3] = NL
  \/ /\ b[n] = CMD_REQUEST /\ n + 2 <= Len(b)
     /\ b[n + 1] \in 0..2 /\ b[n + 2] = NL

\* The i-th command is answered by msg, or is the line at n.
ReplyOK(q, a, msg, i) ==
  /\ q[i] \in Answers(msg)
  /\ msg.text = "SetConfirmed" => msg.num = a[i] % 65536
LineOK(q, a, b, n, i) ==
  /\ LineAt(b, n)
  /\ q[i] = b[n]
  /\ b[n] = CMD_SETSTATION => b[n + 1] * 256 + b[n + 2] = a[i] % 65536

InStep(q, a, s, b) ==
  /\ Len(q) = Cardinality(RepliesIn(s)) + Cardinality(Lines(b))
  /\ \A n \in RepliesIn(s) : ReplyOK(q, a, s[n], Rank(RepliesIn(s), n))
  /\ \A n \in Lines(b) :
       LineOK(q, a, b, n, Cardinality(RepliesIn(s)) + Rank(Lines(b), n))

Commands == {CMD_HELLO, CMD_SETSTATION, CMD_REQUEST}
Ended(b) == b # <<>> => b[Len(b)] = NL

\* Replies and lines are at places.
LEMMA PlacesOf ==
  ASSUME NEW s \in Seq(Messages), NEW b \in Seq(0..255)
  PROVE  Places(RepliesIn(s)) /\ Places(Lines(b))
<1>1. Len(s) \in Nat /\ Len(b) \in Nat
  OBVIOUS
<1>2. RepliesIn(s) \subseteq 1..Len(s) /\ Lines(b) \subseteq 1..Len(b)
  BY DEF RepliesIn, Lines
<1> QED
  BY <1>1, <1>2, PlacesLemma

\* The server says something that is no answer.
LEMMA StepNews ==
  ASSUME NEW q, NEW a, NEW s \in Seq(Messages), NEW b, NEW msg \in Messages,
         Answers(msg) = {}, InStep(q, a, s, b)
  PROVE  InStep(q, a, Append(s, msg), b)
<1>1. /\ Len(Append(s, msg)) = Len(s) + 1
      /\ \A n \in 1..Len(s) : Append(s, msg)[n] = s[n]
      /\ Append(s, msg)[Len(s) + 1] = msg
      /\ Len(s) \in Nat
  OBVIOUS
<1>2. \A n : n \in RepliesIn(Append(s, msg)) <=> n \in RepliesIn(s)
  BY <1>1 DEF RepliesIn
<1>3. RepliesIn(Append(s, msg)) = RepliesIn(s)
  BY <1>2
<1>4. \A n \in RepliesIn(s) : Append(s, msg)[n] = s[n]
  BY <1>1 DEF RepliesIn
<1> QED
  BY <1>3, <1>4 DEF InStep

\* The client receives something that is no answer.
LEMMA StepIgnore ==
  ASSUME NEW q, NEW a, NEW s \in Seq(Messages), NEW b \in Seq(0..255), s # <<>>,
         Answers(Head(s)) = {}, InStep(q, a, s, b)
  PROVE  InStep(q, a, Tail(s), b)
<1> DEFINE R == RepliesIn(s)
           T == RepliesIn(Tail(s))
<1>1. /\ Tail(s) \in Seq(Messages) /\ Len(Tail(s)) = Len(s) - 1 /\ Len(s) \in Nat \ {0}
      /\ \A n \in 1..(Len(s) - 1) : Tail(s)[n] = s[n + 1]
      /\ Head(s) = s[1]
  OBVIOUS
<1>2. Places(R) /\ Places(T)
  BY <1>1, PlacesOf
<1>3. Dropped(R, 1, T)
  BY <1>1 DEF Dropped, RepliesIn
<1>4. \A n \in R : n > 1
  BY <1>1 DEF RepliesIn
<1>5. \A n \in T : n + 1 \in R /\ Tail(s)[n] = s[n + 1]
  BY <1>1 DEF RepliesIn
<1> HIDE DEF R, T
<1>6. Cardinality(T) = Cardinality(R) /\ \A n \in T : Rank(T, n) = Rank(R, n + 1)
  BY <1>2, <1>3, <1>4, RankShift
<1>7. /\ Len(q) = Cardinality(R) + Cardinality(Lines(b))
      /\ \A n \in R : ReplyOK(q, a, s[n], Rank(R, n))
      /\ \A n \in Lines(b) : LineOK(q, a, b, n, Cardinality(R) + Rank(Lines(b), n))
  BY DEF InStep, R
<1>8. /\ Len(q) = Cardinality(T) + Cardinality(Lines(b))
      /\ \A n \in T : ReplyOK(q, a, Tail(s)[n], Rank(T, n))
      /\ \A n \in Lines(b) : LineOK(q, a, b, n, Cardinality(T) + Rank(Lines(b), n))
  BY <1>5, <1>6, <1>7
<1> QED
  BY <1>8 DEF InStep, T

\* ReplyOK and LineOK are about one entry of the queue.
LEMMA SameEntry ==
  ASSUME NEW q, NEW a, NEW q2, NEW a2, NEW i, NEW j, q2[i] = q[j], a2[i] = a[j]
  PROVE  /\ \A msg : ReplyOK(q, a, msg, j) => ReplyOK(q2, a2, msg, i)
         /\ \A b, n : LineOK(q, a, b, n, j) => LineOK(q2, a2, b, n, i)
<1>1. ASSUME NEW msg, ReplyOK(q, a, msg, j) PROVE ReplyOK(q2, a2, msg, i)
  BY <1>1 DEF ReplyOK
<1>2. ASSUME NEW b, NEW n, LineOK(q, a, b, n, j) PROVE LineOK(q2, a2, b, n, i)
  BY <1>2 DEF LineOK
<1> QED
  BY <1>1, <1>2

\* The first command has left.
LEMMA TailOK ==
  ASSUME NEW q \in Seq(Commands), NEW a \in Seq(Int), Len(a) = Len(q),
         NEW i \in 1..(Len(q) - 1)
  PROVE  /\ \A msg : ReplyOK(q, a, msg, i + 1) => ReplyOK(Tail(q), Tail(a), msg, i)
         /\ \A b, n : LineOK(q, a, b, n, i + 1) => LineOK(Tail(q), Tail(a), b, n, i)
<1>1. Tail(q)[i] = q[i + 1] /\ Tail(a)[i] = a[i + 1]
  OBVIOUS
<1>2. \A msg : ReplyOK(q, a, msg, i + 1) => ReplyOK(Tail(q), Tail(a), msg, i)
  BY <1>1, SameEntry
<1>3. \A b, n : LineOK(q, a, b, n, i + 1) => LineOK(Tail(q), Tail(a), b, n, i)
  BY <1>1, SameEntry
<1> QED
  BY <1>2, <1>3

\* The client receives an answer: to the first of its commands, which leaves.
LEMMA StepReceive ==
  ASSUME NEW q \in Seq(Commands), NEW a \in Seq(Int), Len(a) = Len(q),
         NEW s \in Seq(Messages), NEW b \in Seq(0..255), s # <<>>,
         Answers(Head(s)) # {}, InStep(q, a, s, b)
  PROVE  /\ q # <<>> /\ Head(q) \in Answers(Head(s))
         /\ InStep(Tail(q), Tail(a), Tail(s), b)
<1> DEFINE R == RepliesIn(s)
           T == RepliesIn(Tail(s))
           L == Lines(b)
<1>1. /\ Tail(s) \in Seq(Messages) /\ Len(Tail(s)) = Len(s) - 1 /\ Len(s) \in Nat \ {0}
      /\ \A n \in 1..(Len(s) - 1) : Tail(s)[n] = s[n + 1]
      /\ Head(s) = s[1]
  OBVIOUS
<1>2. Places(R) /\ Places(T) /\ Places(L)
  BY <1>1, PlacesOf
<1>3. Dropped(R, 1, T)
  BY <1>1 DEF Dropped, RepliesIn
<1>4. 1 \in R /\ \A n \in R \ {1} : n > 1
  BY <1>1 DEF RepliesIn
<1>5. \A n \in T : Tail(s)[n] = s[n + 1]
  BY <1>1 DEF RepliesIn
<1>6. /\ Len(q) = Cardinality(R) + Cardinality(L)
      /\ \A n \in R : ReplyOK(q, a, s[n], Rank(R, n))
      /\ \A n \in L : LineOK(q, a, b, n, Cardinality(R) + Rank(L, n))
  BY DEF InStep
<1> HIDE DEF R, T, L
<1>7. /\ Rank(R, 1) = 1 /\ Cardinality(R) = 1 + Cardinality(T)
      /\ \A n \in T : n + 1 \in R /\ Rank(R, n + 1) = 1 + Rank(T, n)
  BY <1>2, <1>3, <1>4, RankDrop
<1>8. /\ Cardinality(L) \in Nat /\ \A n \in L : Rank(L, n) \in 1..Cardinality(L)
      /\ Cardinality(T) \in Nat /\ \A n \in T : Rank(T, n) \in 1..Cardinality(T)
  BY <1>2, RankType
<1>9. /\ q # <<>> /\ a # <<>> /\ Len(q) > 0
      /\ Len(Tail(q)) = Len(q) - 1
      /\ \A i \in 1..(Len(q) - 1) : Tail(q)[i] = q[i + 1] /\ Tail(a)[i] = a[i + 1]
      /\ Head(q) = q[1]
  <2>1. Len(q) > 0 /\ Len(a) > 0
    BY <1>6, <1>7, <1>8
  <2> QED
    BY <2>1
<1>10. Head(q) \in Answers(Head(s))
  <2>1. ReplyOK(q, a, s[1], 1)
    BY <1>4, <1>6, <1>7
  <2>2. q[1] \in Answers(s[1])
    BY <2>1 DEF ReplyOK
  <2> QED
    BY <1>1, <1>9, <2>2, Zenon
<1>11. ASSUME NEW n \in T
       PROVE  ReplyOK(Tail(q), Tail(a), Tail(s)[n], Rank(T, n))
  <2>1. Rank(T, n) \in 1..(Len(q) - 1) /\ Rank(R, n + 1) = Rank(T, n) + 1
    <3>1. Rank(T, n) \in 1..Cardinality(T)
      BY <1>8
    <3>2. Cardinality(T) <= Len(q) - 1
      BY <1>6, <1>7, <1>8
    <3>3. Rank(R, n + 1) = 1 + Rank(T, n)
      BY <1>7
    <3> QED
      BY <1>8, <3>1, <3>2, <3>3
  <2>2. ReplyOK(q, a, s[n + 1], Rank(R, n + 1))
    BY <1>6, <1>7
  <2>3. ReplyOK(q, a, Tail(s)[n], Rank(T, n) + 1)
    BY <1>5, <2>1, <2>2
  <2> QED
    BY <2>1, <2>3, TailOK
<1>12. ASSUME NEW n \in L
       PROVE  LineOK(Tail(q), Tail(a), b, n, Cardinality(T) + Rank(L, n))
  <2>1. LineOK(q, a, b, n, Cardinality(T) + Rank(L, n) + 1)
    <3>1. Cardinality(R) + Rank(L, n) = Cardinality(T) + Rank(L, n) + 1
      BY <1>7, <1>8
    <3> QED
      BY <1>6, <3>1
  <2>2. Cardinality(T) + Rank(L, n) \in 1..(Len(q) - 1)
    <3>1. Rank(L, n) \in 1..Cardinality(L)
      BY <1>8
    <3>2. Cardinality(T) + Cardinality(L) = Len(q) - 1
      BY <1>6, <1>7, <1>8
    <3> QED
      BY <1>8, <3>1, <3>2
  <2> QED
    BY <2>1, <2>2, TailOK
<1>13. Len(Tail(q)) = Cardinality(T) + Cardinality(L)
  BY <1>6, <1>7, <1>8, <1>9
<1> QED
  BY <1>9, <1>10, <1>11, <1>12, <1>13 DEF InStep, T, L
\* A line is where it was, or k places further to the front.
LEMMA DropOK ==
  ASSUME NEW q, NEW a, NEW b \in Seq(0..255), NEW d \in Seq(0..255), NEW k \in Nat,
         Len(d) = Len(b) - k, \A m \in 1..(Len(b) - k) : d[m] = b[m + k],
         NEW n \in 1..(Len(b) - k), NEW i, LineOK(q, a, b, n + k, i)
  PROVE  LineOK(q, a, d, n, i)
<1>1. LineAt(b, n + k)
  BY DEF LineOK
<1>2. n + k + 2 <= Len(b) /\ (b[n + k] # CMD_REQUEST => n + k + 3 <= Len(b))
  BY <1>1 DEF LineAt
<1>3. /\ d[n] = b[n + k]
      /\ d[n + 1] = b[n + k + 1] /\ d[n + 2] = b[n + k + 2]
      /\ b[n + k] # CMD_REQUEST => d[n + 3] = b[n + k + 3]
  <2>1. /\ n + 1 \in 1..(Len(b) - k) /\ n + 2 \in 1..(Len(b) - k)
        /\ b[n + k] # CMD_REQUEST => n + 3 \in 1..(Len(b) - k)
    BY <1>2
  <2>2. n + 1 + k = n + k + 1 /\ n + 2 + k = n + k + 2 /\ n + 3 + k = n + k + 3
    OBVIOUS
  <2>3. d[n + 1] = b[n + 1 + k] /\ d[n + 2] = b[n + 2 + k] /\ d[n] = b[n + k]
    BY <2>1
  <2>4. b[n + k] # CMD_REQUEST => d[n + 3] = b[n + 3 + k]
    BY <2>1
  <2> QED
    BY <2>2, <2>3, <2>4
<1>4. LineAt(d, n)
  BY <1>1, <1>2, <1>3 DEF LineAt, CMD_HELLO, CMD_SETSTATION, CMD_REQUEST
<1> QED
  BY <1>3, <1>4 DEF LineOK

\* What is left of a sequence when k of its elements are dropped.
LEMMA Suffix ==
  ASSUME NEW X, NEW b \in Seq(X), NEW k \in 0..Len(b)
  PROVE  /\ SubSeq(b, k + 1, Len(b)) \in Seq(X)
         /\ Len(SubSeq(b, k + 1, Len(b))) = Len(b) - k /\ Len(b) \in Nat
         /\ \A n \in 1..(Len(b) - k) : SubSeq(b, k + 1, Len(b))[n] = b[n + k]
<1>1. Len(b) \in Nat /\ k + 1 \in 1..(Len(b) + 1)
  OBVIOUS
<1>2. \A i \in (k + 1)..Len(b) : i \in 1..Len(b)
  BY <1>1
<1>3. /\ SubSeq(b, k + 1, Len(b)) \in Seq(X)
      /\ Len(SubSeq(b, k + 1, Len(b))) = Len(b) - k
  BY <1>1, <1>2
<1>4. ASSUME NEW n \in 1..(Len(b) - k)
      PROVE  SubSeq(b, k + 1, Len(b))[n] = b[n + k]
  BY <1>1, <1>4
<1> QED
  BY <1>1, <1>3, <1>4

\* The first k elements of a sequence.
LEMMA Prefix ==
  ASSUME NEW X, NEW b \in Seq(X), NEW k \in 0..Len(b)
  PROVE  /\ SubSeq(b, 1, k) \in Seq(X) /\ Len(SubSeq(b, 1, k)) = k
         /\ \A n \in 1..k : SubSeq(b, 1, k)[n] = b[n]
<1>1. Len(b) \in Nat /\ \A n \in 1..k : n \in 1..Len(b)
  OBVIOUS
<1> QED
  BY <1>1

\* Two sequences, one behind the other.
LEMMA Behind ==
  ASSUME NEW X, NEW a \in Seq(X), NEW b \in Seq(X)
  PROVE  /\ a \o b \in Seq(X) /\ Len(a \o b) = Len(a) + Len(b)
         /\ \A n \in 1..Len(a) : (a \o b)[n] = a[n]
         /\ \A n \in 1..Len(b) : (a \o b)[Len(a) + n] = b[n]
OBVIOUS

\* Elements are dropped from the first of the two.
LEMMA DropBehind ==
  ASSUME NEW X, NEW a \in Seq(X), NEW b \in Seq(X), NEW k \in 0..Len(a)
  PROVE  SubSeq(a, k + 1, Len(a)) \o b = SubSeq(a \o b, k + 1, Len(a \o b))
<1> DEFINE t == SubSeq(a, k + 1, Len(a))
           c == a \o b
           d == SubSeq(c, k + 1, Len(c))
<1>1. /\ c \in Seq(X) /\ Len(c) = Len(a) + Len(b) /\ Len(a) \in Nat /\ Len(b) \in Nat
      /\ \A n \in 1..Len(a) : c[n] = a[n]
      /\ \A n \in 1..Len(b) : c[Len(a) + n] = b[n]
  BY Behind
<1> HIDE DEF c
<1>2. /\ t \in Seq(X) /\ Len(t) = Len(a) - k
      /\ \A n \in 1..(Len(a) - k) : t[n] = a[n + k]
  BY Suffix
<1>3. k \in 0..Len(c)
  BY <1>1
<1>4. /\ d \in Seq(X) /\ Len(d) = Len(c) - k
      /\ \A n \in 1..(Len(c) - k) : d[n] = c[n + k]
  BY <1>1, <1>3, Suffix
<1> HIDE DEF t, d
<1>5. /\ t \o b \in Seq(X) /\ Len(t \o b) = Len(t) + Len(b)
      /\ \A n \in 1..Len(t) : (t \o b)[n] = t[n]
      /\ \A n \in 1..Len(b) : (t \o b)[Len(t) + n] = b[n]
  <2>1. t \in Seq(X)
    BY <1>2
  <2>2. t \o b \in Seq(X) /\ Len(t \o b) = Len(t) + Len(b)
    BY <2>1
  <2>3. \A n \in 1..Len(t) : (t \o b)[n] = t[n]
    BY <2>1
  <2>4. \A n \in 1..Len(b) : (t \o b)[Len(t) + n] = b[n]
    BY <2>1
  <2> QED
    BY <2>2, <2>3, <2>4
<1>6. Len(t \o b) = Len(d)
  BY <1>1, <1>2, <1>4, <1>5
<1>7. ASSUME NEW n \in 1..Len(d)
      PROVE  (t \o b)[n] = d[n]
  <2>1. CASE n \in 1..Len(t)
    <3>1. /\ n \in 1..(Len(a) - k) /\ n + k \in 1..Len(a) /\ n \in 1..(Len(c) - k)
      BY <1>1, <1>2, <2>1
    <3> QED
      BY <1>1, <1>2, <1>4, <1>5, <2>1, <3>1
  <2>2. CASE n \notin 1..Len(t)
    <3> DEFINE j == n - Len(t)
    <3>1. /\ j \in 1..Len(b) /\ Len(t) + j = n /\ n + k = Len(a) + j
          /\ n \in 1..(Len(c) - k)
      BY <1>1, <1>2, <1>4, <2>2
    <3> HIDE DEF j
    <3>2. (t \o b)[n] = b[j] /\ d[n] = c[Len(a) + j]
      BY <1>4, <1>5, <3>1
    <3> QED
      BY <1>1, <3>1, <3>2
  <2> QED
    BY <2>1, <2>2
<1>8. t \o b = d
  BY <1>4, <1>5, <1>6, <1>7, SeqEqual
<1> QED
  BY <1>8 DEF t, d, c

\* The server reads the first line, up to its newline at k, and answers it.
LEMMA StepServe ==
  ASSUME NEW q, NEW a, NEW s \in Seq(Messages), NEW b \in Seq(0..255),
         InStep(q, a, s, b), NEW k \in 1..Len(b), b[k] = NL, \A m \in 1..(k - 1) : b[m] # NL,
         NEW msg \in Messages, b[1] \in Answers(msg),
         msg.text = "SetConfirmed" => b[1] = CMD_SETSTATION /\ msg.num = b[2] * 256 + b[3]
  PROVE  InStep(q, a, Append(s, msg), SubSeq(b, k + 1, Len(b)))
<1> DEFINE R == RepliesIn(s)
           R2 == RepliesIn(Append(s, msg))
           d == SubSeq(b, k + 1, Len(b))
           L == Lines(b)
           T == Lines(d)
<1>1. /\ Append(s, msg) \in Seq(Messages) /\ Len(Append(s, msg)) = Len(s) + 1
      /\ \A n \in 1..Len(s) : Append(s, msg)[n] = s[n]
      /\ Append(s, msg)[Len(s) + 1] = msg
      /\ Len(s) \in Nat
  OBVIOUS
<1>2. /\ d \in Seq(0..255) /\ Len(d) = Len(b) - k /\ Len(b) \in Nat
      /\ \A n \in 1..(Len(b) - k) : d[n] = b[n + k]
  BY Suffix
<1> HIDE DEF d
<1>3. Places(R) /\ Places(R2) /\ Places(L) /\ Places(T)
  BY <1>1, <1>2, PlacesOf
<1>4. Dropped(L, k, T)
  <2> SUFFICES ASSUME NEW n \in Nat \ {0}
               PROVE  n \in T <=> n + k \in L
    BY DEF Dropped
  <2>1. n \in T <=> n \in 1..(Len(b) - k) /\ (n = 1 \/ d[n - 1] = NL)
    BY <1>2 DEF Lines
  <2>2. n + k \in L <=> n \in 1..(Len(b) - k) /\ b[n + k - 1] = NL
    BY <1>2 DEF Lines
  <2>3. CASE n = 1
    BY <2>1, <2>2, <2>3
  <2>4. CASE n # 1
    <3>1. n \in 1..(Len(b) - k) => d[n - 1] = b[n + k - 1]
      <4>1. ASSUME n \in 1..(Len(b) - k)
            PROVE  n - 1 \in 1..(Len(b) - k) /\ n - 1 + k = n + k - 1
        BY <2>4, <4>1
      <4> QED
        BY <1>2, <4>1
    <3> QED
      BY <2>1, <2>2, <2>4, <3>1
  <2> QED
    BY <2>3, <2>4
<1>5. 1 \in L /\ \A n \in L \ {1} : n > k
  BY <1>2 DEF Lines
<1>6. Len(s) + 1 \notin R /\ \A n : n \in R2 <=> n \in R \/ n = Len(s) + 1
  <2>1. PICK t : /\ t = Append(s, msg) /\ Len(t) = Len(s) + 1 /\ t[Len(s) + 1] = msg
                 /\ \A n \in 1..Len(s) : t[n] = s[n]
    BY <1>1
  <2>2. /\ \A n : n \in R <=> n \in 1..Len(s) /\ Answers(s[n]) # {}
        /\ \A n : n \in R2 <=> n \in 1..Len(t) /\ Answers(t[n]) # {}
    BY <2>1 DEF RepliesIn
  <2>3. Len(s) + 1 \notin 1..Len(s) /\ \A n : n \in 1..Len(t) <=> n \in 1..Len(s) \/ n = Len(s) + 1
    BY <1>1, <2>1
  <2>4. Answers(t[Len(s) + 1]) # {}
    BY <2>1
  <2> HIDE DEF R, R2
  <2>5. PICK z : z = Len(s) + 1
    OBVIOUS
  <2>6. z \notin R
    BY <2>2, <2>3, <2>5
  <2>7. ASSUME NEW n PROVE n \in R2 <=> n \in R \/ n = z
    <3>1. CASE n = z
      BY <2>2, <2>3, <2>4, <2>5, <3>1
    <3>2. CASE n # z
      <4>1. n \in 1..Len(t) <=> n \in 1..Len(s)
        BY <2>3, <2>5, <3>2
      <4>2. n \in 1..Len(s) => t[n] = s[n]
        BY <2>1
      <4> QED
        BY <2>2, <3>2, <4>1, <4>2
    <3> QED
      BY <3>1, <3>2
  <2> QED
    BY <2>5, <2>6, <2>7
<1>7. R2 = R \cup {Len(s) + 1}
  BY <1>6
<1>8. Len(s) + 1 \in Nat \ {0} /\ \A n \in R : n < Len(s) + 1
  BY <1>1 DEF RepliesIn
<1>11. \A n \in R : Append(s, msg)[n] = s[n]
  BY <1>1 DEF RepliesIn
<1>12. \A n \in T : n \in 1..Len(d)
  BY DEF Lines
<1>13. /\ Len(q) = Cardinality(R) + Cardinality(L)
       /\ \A n \in R : ReplyOK(q, a, s[n], Rank(R, n))
       /\ \A n \in L : LineOK(q, a, b, n, Cardinality(R) + Rank(L, n))
  BY DEF InStep
<1> HIDE DEF R, R2, L, T
<1>14. /\ Rank(L, 1) = 1 /\ Cardinality(L) = 1 + Cardinality(T)
       /\ \A n \in T : n + k \in L /\ Rank(L, n + k) = 1 + Rank(T, n)
  BY <1>3, <1>4, <1>5, RankDrop
<1>15. /\ Cardinality(T) \in Nat /\ \A n \in T : Rank(T, n) \in 1..Cardinality(T)
       /\ Cardinality(R) \in Nat /\ \A n \in R : Rank(R, n) \in 1..Cardinality(R)
  BY <1>3, RankType
<1>16. /\ Cardinality(R2) = Cardinality(R) + 1
       /\ \A n \in R : Rank(R2, n) = Rank(R, n)
       /\ Rank(R2, Len(s) + 1) = Cardinality(R) + 1
  <2>1. PICK z \in Nat \ {0} : z = Len(s) + 1
    BY <1>8
  <2>2. Places(R) /\ \A n \in R : n < z
    BY <1>3, <1>8, <2>1
  <2>3. /\ Cardinality(R \cup {z}) = Cardinality(R) + 1
        /\ \A n \in R : Rank(R \cup {z}, n) = Rank(R, n)
        /\ Rank(R \cup {z}, z) = Cardinality(R) + 1
    BY <2>2, RankAppend
  <2>4. R2 = R \cup {z}
    BY <1>7, <2>1
  <2> QED
    BY <2>1, <2>3, <2>4
<1>17. LineOK(q, a, b, 1, Cardinality(R) + 1)
  BY <1>5, <1>13, <1>14
<1>18. ReplyOK(q, a, msg, Cardinality(R) + 1)
  BY <1>17 DEF ReplyOK, LineOK
<1>19. ASSUME NEW n \in R2
       PROVE  ReplyOK(q, a, Append(s, msg)[n], Rank(R2, n))
  <2>1. CASE n \in R
    BY <1>11, <1>13, <1>16, <2>1
  <2>2. CASE n = Len(s) + 1
    BY <1>1, <1>16, <1>18, <2>2
  <2> QED
    BY <1>6, <2>1, <2>2 DEF R2
<1>20. ASSUME NEW n \in T
       PROVE  LineOK(q, a, d, n, Cardinality(R2) + Rank(T, n))
  <2>1. Cardinality(R) + Rank(L, n + k) = Cardinality(R2) + Rank(T, n)
    BY <1>14, <1>15, <1>16
  <2>2. LineOK(q, a, b, n + k, Cardinality(R2) + Rank(T, n))
    BY <1>13, <1>14, <2>1
  <2>3. n \in 1..(Len(b) - k)
    BY <1>2, <1>12
  <2> QED
    BY <1>2, <2>2, <2>3, DropOK
<1>21. Len(q) = Cardinality(R2) + Cardinality(T)
  BY <1>13, <1>14, <1>15, <1>16
<1> QED
  BY <1>19, <1>20, <1>21 DEF InStep, R2, T, d

\* A line is where it was when bytes follow.
LEMMA LongerOK ==
  ASSUME NEW q, NEW a, NEW b \in Seq(0..255), NEW d \in Seq(0..255), Len(d) >= Len(b),
         \A m \in 1..Len(b) : d[m] = b[m], NEW n \in 1..Len(b), NEW i, LineOK(q, a, b, n, i)
  PROVE  LineOK(q, a, d, n, i)
<1>1. LineAt(b, n)
  BY DEF LineOK
<1>2. n + 2 <= Len(b) /\ (b[n] # CMD_REQUEST => n + 3 <= Len(b))
  BY <1>1 DEF LineAt
<1>3. /\ d[n] = b[n] /\ d[n + 1] = b[n + 1] /\ d[n + 2] = b[n + 2]
      /\ b[n] # CMD_REQUEST => d[n + 3] = b[n + 3]
  BY <1>2
<1>4. LineAt(d, n)
  BY <1>1, <1>2, <1>3 DEF LineAt, CMD_HELLO, CMD_SETSTATION, CMD_REQUEST
<1> QED
  BY <1>3, <1>4 DEF LineOK

\* A line of the client: its command, and its number num if it has one.
OneLine(l, cmd, num) ==
  /\ l \in Seq(0..255) /\ Len(l) \in {3, 4} /\ l[1] = cmd /\ l[Len(l)] = NL
  /\ \A m \in 1..(Len(l) - 1) : l[m] # NL
  /\ LineAt(l, 1)
  /\ cmd = CMD_SETSTATION => l[2] * 256 + l[3] = num % 65536

\* The client queues a command and sends its line behind what is under way.
LEMMA StepType ==
  ASSUME NEW q \in Seq(Commands), NEW a \in Seq(Int), Len(a) = Len(q),
         NEW s \in Seq(Messages), NEW b \in Seq(0..255), Ended(b), InStep(q, a, s, b),
         NEW l, NEW cmd \in Commands, NEW num \in Int, OneLine(l, cmd, num)
  PROVE  InStep(Append(q, cmd), Append(a, num), s, b \o l)
<1> DEFINE R == RepliesIn(s)
           L == Lines(b)
           T == Lines(b \o l)
           x == Len(b) + 1
           i == Cardinality(R) + Cardinality(L) + 1
<1>1. /\ l \in Seq(0..255) /\ Len(l) \in {3, 4} /\ l[1] = cmd /\ l[Len(l)] = NL
      /\ \A m \in 1..(Len(l) - 1) : l[m] # NL
      /\ LineAt(l, 1)
      /\ cmd = CMD_SETSTATION => l[2] * 256 + l[3] = num % 65536
  BY DEF OneLine
<1>2. /\ b \o l \in Seq(0..255) /\ Len(b \o l) = Len(b) + Len(l) /\ Len(b) \in Nat
      /\ \A n \in 1..Len(b) : (b \o l)[n] = b[n]
      /\ \A n \in 1..Len(l) : (b \o l)[n + Len(b)] = l[n]
  BY <1>1
<1>3. Places(R) /\ Places(L)
  BY PlacesOf
<1>4. ASSUME NEW n \in Nat \ {0}
      PROVE  n \in T <=> n \in L \/ n = x
  <2>1. n \in T <=> n \in 1..(Len(b) + Len(l)) /\ (n = 1 \/ (b \o l)[n - 1] = NL)
    BY <1>2 DEF Lines
  <2>2. n \in L <=> n \in 1..Len(b) /\ (n = 1 \/ b[n - 1] = NL)
    BY DEF Lines
  <2>3. CASE n \in 1..Len(b)
    <3>1. n # 1 => (b \o l)[n - 1] = b[n - 1]
      BY <1>2, <2>3
    <3> QED
      BY <1>1, <1>2, <2>1, <2>2, <2>3, <3>1
  <2>4. CASE n = x
    <3>1. n # 1 => (b \o l)[n - 1] = NL
      BY <1>2, <2>4 DEF Ended
    <3> QED
      BY <1>1, <1>2, <2>1, <2>4, <3>1
  <2>5. CASE n > x
    <3>1. ASSUME n \in 1..(Len(b) + Len(l))
          PROVE  (b \o l)[n - 1] # NL
      <4>1. n - 1 - Len(b) \in 1..(Len(l) - 1) /\ n - 1 - Len(b) + Len(b) = n - 1
        BY <1>1, <1>2, <2>5, <3>1
      <4>2. (b \o l)[n - 1] = l[n - 1 - Len(b)]
        BY <1>1, <1>2, <4>1
      <4> QED
        BY <1>1, <4>1, <4>2
    <3> QED
      BY <1>2, <2>1, <2>2, <2>5, <3>1
  <2> QED
    BY <1>2, <2>3, <2>4, <2>5
<1>5. T = L \cup {x}
  <2>1. T \subseteq Nat \ {0} /\ L \subseteq Nat \ {0} /\ x \in Nat \ {0}
    BY <1>2 DEF Lines
  <2> HIDE DEF T, L, x
  <2> QED
    BY <1>4, <2>1
<1>6. x \in Nat \ {0} /\ \A n \in L : n < x
  BY <1>2 DEF Lines
<1>7. /\ Len(q) = Cardinality(R) + Cardinality(L)
      /\ \A n \in R : ReplyOK(q, a, s[n], Rank(R, n))
      /\ \A n \in L : LineOK(q, a, b, n, Cardinality(R) + Rank(L, n))
  BY DEF InStep
<1>8. \A n \in L : n \in 1..Len(b)
  BY DEF Lines
<1> HIDE DEF R, L, T, x
<1>9. /\ Cardinality(T) = Cardinality(L) + 1
      /\ \A n \in L : Rank(T, n) = Rank(L, n)
      /\ Rank(T, x) = Cardinality(L) + 1
  BY <1>3, <1>5, <1>6, RankAppend
<1>10. /\ Cardinality(L) \in Nat /\ \A n \in L : Rank(L, n) \in 1..Cardinality(L)
       /\ Cardinality(R) \in Nat /\ \A n \in R : Rank(R, n) \in 1..Cardinality(R)
  BY <1>3, RankType
<1>11. /\ Len(Append(q, cmd)) = Len(q) + 1 /\ i = Len(q) + 1
       /\ \A j \in 1..Len(q) : Append(q, cmd)[j] = q[j] /\ Append(a, num)[j] = a[j]
       /\ Append(q, cmd)[i] = cmd /\ Append(a, num)[i] = num
  BY <1>7
<1> HIDE DEF i
<1>12. ASSUME NEW n \in R
       PROVE  ReplyOK(Append(q, cmd), Append(a, num), s[n], Rank(R, n))
  <2>1. Rank(R, n) \in 1..Len(q)
    BY <1>7, <1>10
  <2>2. ReplyOK(q, a, s[n], Rank(R, n))
    BY <1>7
  <2> QED
    BY <1>11, <2>1, <2>2, SameEntry
<1>13. ASSUME NEW n \in L
       PROVE  LineOK(Append(q, cmd), Append(a, num), b \o l, n, Cardinality(R) + Rank(T, n))
  <2> DEFINE j == Cardinality(R) + Rank(L, n)
  <2>1. j \in 1..Len(q) /\ LineOK(q, a, b, n, j)
    <3>1. Rank(L, n) \in 1..Cardinality(L)
      BY <1>10
    <3> QED
      BY <1>7, <1>10, <3>1
  <2> HIDE DEF j
  <2>2. LineOK(Append(q, cmd), Append(a, num), b, n, j)
    BY <1>11, <2>1, SameEntry
  <2>3. LineOK(Append(q, cmd), Append(a, num), b \o l, n, j)
    <3> DEFINE d == b \o l
               q2 == Append(q, cmd)
               a2 == Append(a, num)
    <3>1. /\ d \in Seq(0..255) /\ Len(d) >= Len(b) /\ n \in 1..Len(b)
          /\ \A m \in 1..Len(b) : d[m] = b[m]
      BY <1>1, <1>2, <1>8
    <3> HIDE DEF d, q2, a2
    <3>2. LineOK(q2, a2, d, n, j)
      BY <2>2, <3>1, LongerOK DEF q2, a2
    <3> QED
      BY <3>2 DEF d, q2, a2
  <2> QED
    BY <1>9, <2>3 DEF j
<1>14. LineOK(Append(q, cmd), Append(a, num), b \o l, x, i)
  <2>1. /\ (b \o l)[x] = l[1] /\ (b \o l)[x + 1] = l[2] /\ (b \o l)[x + 2] = l[3]
        /\ Len(l) = 4 => (b \o l)[x + 3] = l[4]
    <3>1. /\ x = 1 + Len(b) /\ x + 1 = 2 + Len(b) /\ x + 2 = 3 + Len(b)
          /\ x + 3 = 4 + Len(b)
      BY <1>2 DEF x
    <3> QED
      BY <1>1, <1>2, <3>1
  <2>2. LineAt(b \o l, x)
    <3>1. x \in Nat /\ Len(b \o l) = x - 1 + Len(l)
      BY <1>1, <1>2 DEF x
    <3>2. \/ /\ l[1] \in {CMD_HELLO, CMD_SETSTATION} /\ Len(l) = 4
             /\ l[2] # NL /\ l[3] # NL /\ l[4] = NL
          \/ l[1] = CMD_REQUEST /\ l[2] \in 0..2 /\ l[3] = NL
      <4>1. LineAt(l, 1) /\ Len(l) \in {3, 4}
        BY <1>1
      <4>2. 1 + 1 = 2 /\ 1 + 2 = 3 /\ 1 + 3 = 4
        OBVIOUS
      <4> QED
        BY <4>1, <4>2 DEF LineAt
    <3>3. PICK d : d = b \o l
      OBVIOUS
    <3>4. /\ d[x] = l[1] /\ d[x + 1] = l[2] /\ d[x + 2] = l[3] /\ x + 2 <= Len(d)
          /\ Len(l) = 4 => d[x + 3] = l[4] /\ x + 3 <= Len(d)
      <4>1. Len(l) \in {3, 4}
        BY <1>1
      <4>2. Len(d) = x - 1 + Len(l) /\ x \in Nat
        BY <3>1, <3>3
      <4>3. x + 2 <= Len(d) /\ (Len(l) = 4 => x + 3 <= Len(d))
        <5>1. CASE Len(l) = 3
          BY <4>2, <5>1
        <5>2. CASE Len(l) = 4
          BY <4>2, <5>2
        <5> QED
          BY <4>1, <5>1, <5>2
      <4> QED
        BY <2>1, <3>3, <4>3
    <3>5. LineAt(d, x)
      BY <3>2, <3>4 DEF LineAt
    <3> QED
      BY <3>3, <3>5
  <2> QED
    BY <1>1, <1>11, <2>1, <2>2 DEF LineOK
<1>15. ASSUME NEW n \in T
       PROVE  LineOK(Append(q, cmd), Append(a, num), b \o l, n, Cardinality(R) + Rank(T, n))
  <2>1. CASE n = x
    <3>1. Cardinality(R) + Rank(T, n) = i
      BY <1>9, <1>10, <2>1 DEF i
    <3> QED
      BY <1>14, <2>1, <3>1
  <2> QED
    BY <1>5, <1>13, <2>1
<1>16. Len(Append(q, cmd)) = Cardinality(R) + Cardinality(T)
  BY <1>7, <1>9, <1>10, <1>11
<1> QED
  BY <1>12, <1>15, <1>16 DEF InStep, R, T

-----------------------------------------------------------------------------
(* The inductive invariant.                                                  *)

Bytes == to_server \o sending

Typed == TypeOK /\ asked \in Seq(Int) /\ Ended(to_server) /\ Ended(sending)

\* HELLO is the first line, and the server waits for it.
HelloOK ==
  /\ ~shaken => Bytes # <<>> /\ Bytes[1] = CMD_HELLO
  /\ \A n \in Lines(Bytes) : Bytes[n] = CMD_HELLO => n = 1 /\ ~shaken

Sync ==
  ~split => conn = "open" /\ HelloOK /\ InStep(g_cmd_queue, asked, to_client, Bytes)

\* The lines of send_hello and send_set_station.
LEMMA NumberLine ==
  ASSUME NEW n \in Nat, NEW cmd \in {CMD_HELLO, CMD_SETSTATION}
  PROVE  /\ LineOfNumber(cmd, n) \in Seq(0..255) /\ Ended(LineOfNumber(cmd, n))
         /\ LineOfNumber(cmd, n) # <<>>
         /\ ~Splits(LineOfNumber(cmd, n)) => OneLine(LineOfNumber(cmd, n), cmd, n)
<1> DEFINE hi == (n % 65536) \div 256
           lo == n % 256
           l == <<cmd, hi, lo, NL>>
<1>1. hi \in 0..255 /\ lo \in 0..255 /\ hi * 256 + lo = n % 65536
  OBVIOUS
<1>2. cmd \in 0..1
  BY DEF CMD_HELLO, CMD_SETSTATION
<1> HIDE DEF hi, lo
<1>3. l \in Seq(0..255) /\ Len(l) = 4 /\ l[1] = cmd /\ l[2] = hi /\ l[3] = lo /\ l[4] = NL
  BY <1>1, <1>2 DEF NL
<1>4. l # <<>>
  BY <1>3
<1> HIDE DEF l
<1>5. ASSUME ~Splits(l)
      PROVE  OneLine(l, cmd, n)
  <2>1. \A m \in 1..3 : l[m] # NL
    BY <1>3, <1>5 DEF Splits
  <2>2. LineAt(l, 1)
    BY <1>3, <2>1 DEF LineAt
  <2>3. \A m \in 1..(Len(l) - 1) : l[m] # NL
    BY <1>3, <2>1
  <2>4. l[2] * 256 + l[3] = n % 65536
    BY <1>1, <1>3
  <2> QED
    BY <1>3, <2>2, <2>3, <2>4 DEF OneLine
<1>6. Ended(l)
  BY <1>3 DEF Ended
<1> QED
  BY <1>3, <1>4, <1>5, <1>6 DEF LineOfNumber, l, hi, lo

\* The line of send_request.
LEMMA RequestLine ==
  ASSUME NEW type \in 0..2
  PROVE  /\ LineOfRequest(type) \in Seq(0..255) /\ Ended(LineOfRequest(type))
         /\ LineOfRequest(type) # <<>>
         /\ OneLine(LineOfRequest(type), CMD_REQUEST, None)
<1> DEFINE l == <<CMD_REQUEST, type, NL>>
<1>1. l \in Seq(0..255) /\ Len(l) = 3 /\ l[1] = CMD_REQUEST /\ l[2] = type /\ l[3] = NL
  BY DEF CMD_REQUEST, NL
<1>2. l # <<>>
  BY <1>1
<1> HIDE DEF l
<1>3. \A m \in 1..(Len(l) - 1) : l[m] # NL
  BY <1>1 DEF NL, CMD_REQUEST
<1>4. LineAt(l, 1)
  BY <1>1 DEF LineAt
<1>5. OneLine(l, CMD_REQUEST, None)
  BY <1>1, <1>3, <1>4 DEF OneLine, CMD_REQUEST, CMD_SETSTATION
<1>6. Ended(l)
  BY <1>1 DEF Ended
<1> QED
  BY <1>1, <1>2, <1>5, <1>6 DEF LineOfRequest, l

\* Bytes that end with a newline have a first line.
LEMMA FirstLine ==
  ASSUME to_server \in Seq(0..255), to_server # <<>>, Ended(to_server)
  PROVE  /\ LineLength \in Nat /\ LineLength + 1 \in 1..Len(to_server)
         /\ to_server[LineLength + 1] = NL
         /\ \A m \in 1..LineLength : to_server[m] # NL
<1> DEFINE S == {n \in 1..Len(to_server) : to_server[n] = NL}
           First(n) == to_server[n] = NL /\ \A m \in 1..(n - 1) : to_server[m] # NL
<1>1. Len(to_server) \in Nat \ {0} /\ Len(to_server) \in S
  BY DEF Ended
<1>2. S \in SUBSET Nat /\ S # {}
  BY <1>1
<1>3. PICK n \in S : \A m \in S : n <= m
  BY <1>2, LeastNumber
<1>4. n \in 1..Len(to_server) /\ to_server[n] = NL /\ \A m \in 1..(n - 1) : to_server[m] # NL
  BY <1>1, <1>3
<1> DEFINE k == CHOOSE j \in 1..Len(to_server) : First(j)
<1>5. k \in 1..Len(to_server) /\ First(k)
  BY <1>4
<1>6. LineLength = k - 1
  BY DEF LineLength
<1> HIDE DEF k
<1> QED
  BY <1>1, <1>5, <1>6

\* What the server sends.
LEMMA MessageTypes ==
  /\ Welcome \in Messages /\ Invalid \in Messages /\ News \in Messages /\ Rest \in Messages
  /\ \A n \in Nat \cup {None} : /\ Confirm("SetConfirmed", n) \in Messages
                                /\ Confirm("RequestConfirmed", n) \in Messages
BY DEF Welcome, Invalid, News, Rest, Confirm, Messages, Texts, None

\* The lines of an announcement: one that the client only prints, and more
\* only if a text was cut.
LEMMA AnnouncedLines ==
  ASSUME NEW k \in Nat, NEW texts \in [1..k -> Sizes]
  PROVE  /\ Announced(texts) \in Seq(Messages)
         /\ \A s \in Seq(Messages) : Cut(s \o Announced(texts)) \/ Announced(texts) = <<News>>
<1> DEFINE S == {i \in DOMAIN texts : texts[i] % 256 = NL}
           c == Cardinality(S)
           rests == [n \in 1..c |-> Rest]
<1>1. c \in Nat
  <2>1. IsFiniteSet(1..k)
    BY FS_Interval
  <2>2. S \subseteq 1..k
    OBVIOUS
  <2>3. IsFiniteSet(S)
    BY <2>1, <2>2, FS_Subset
  <2> QED
    BY <2>3, FS_CardinalityType
<1>2. Announced(texts) = <<News>> \o rests
  BY DEF Announced
<1> HIDE DEF c
<1>3. rests \in Seq(Messages) /\ Len(rests) = c /\ \A n \in 1..c : rests[n] = Rest
  BY <1>1, MessageTypes
<1>4. News \in Messages
  BY MessageTypes
<1> HIDE DEF rests
<1>5. Announced(texts) \in Seq(Messages)
  BY <1>2, <1>3, <1>4
<1>6. CASE c = 0
  <2>1. rests = <<>>
    BY <1>3, <1>6
  <2>2. Announced(texts) = <<News>>
    BY <1>2, <2>1
  <2> QED
    BY <1>5, <2>2
<1>7. CASE c # 0
  <2> SUFFICES ASSUME NEW s \in Seq(Messages)
               PROVE  Cut(s \o Announced(texts))
    BY <1>5
  <2> DEFINE a == Announced(texts)
  <2>1. Len(a) = 1 + c /\ a[2] = Rest
    BY <1>1, <1>2, <1>3, <1>4, <1>7
  <2> HIDE DEF a
  <2>2. a \in Seq(Messages) /\ Len(s) \in Nat
    BY <1>5 DEF a
  <2>3. (s \o a)[Len(s) + 2] = a[2] /\ Len(s) + 2 \in 1..Len(s \o a)
    BY <1>1, <1>7, <2>1, <2>2
  <2>4. Cut(s \o a)
    BY <2>1, <2>3 DEF Cut
  <2> QED
    BY <2>4 DEF a
<1> QED
  BY <1>6, <1>7

\* What its messages answer.
LEMMA MessageAnswers ==
  /\ Answers(News) = {} /\ CMD_HELLO \in Answers(Welcome) /\ Welcome.text # "SetConfirmed"
  /\ Commands \subseteq Answers(Invalid) /\ Invalid.text # "SetConfirmed"
  /\ \A n : /\ CMD_SETSTATION \in Answers(Confirm("SetConfirmed", n))
            /\ Confirm("SetConfirmed", n).num = n
            /\ CMD_REQUEST \in Answers(Confirm("RequestConfirmed", n))
            /\ Confirm("RequestConfirmed", n).text # "SetConfirmed"
BY DEF Welcome, Invalid, News, Confirm, Answers, Commands

-----------------------------------------------------------------------------
(* Type correctness, whatever is written.                                    *)

\* The state is well typed at the start.
LEMMA InitTyped == Init => Typed
<1> SUFFICES ASSUME Init PROVE Typed
  OBVIOUS
<1>1. PICK port \in Ports : /\ to_server = LineOfNumber(CMD_HELLO, port)
                            /\ split = Splits(LineOfNumber(CMD_HELLO, port))
  BY DEF Init
<1>2. port \in Nat
  BY ControlAssumption
<1>3. to_server \in Seq(0..255) /\ Ended(to_server)
  BY <1>1, <1>2, NumberLine
<1>4. split \in BOOLEAN
  BY <1>1 DEF Splits
<1>5. /\ g_cmd_queue \in Seq({CMD_HELLO, CMD_SETSTATION, CMD_REQUEST})
      /\ Len(asked) = Len(g_cmd_queue) /\ asked \in Seq(Int)
      /\ sending \in Seq(0..255) /\ to_client \in Seq(Messages) /\ Ended(sending)
  BY DEF Init, None, Ended
<1>6. /\ wait_for_announce \in {0, 1} /\ shaken \in BOOLEAN
      /\ conn \in {"open", "closed", "left"} /\ cur_station \in Ids \cup {None}
  BY DEF Init
<1>7. typed \in 0..MaxCommands /\ news \in 0..MaxNews
  <2>1. MaxCommands \in Nat /\ MaxNews \in Nat
    BY ControlAssumption
  <2> QED
    BY <2>1 DEF Init
<1> QED
  BY <1>3, <1>4, <1>5, <1>6, <1>7 DEF Typed, TypeOK

\* A command is queued.
LEMMA EnqueueTyped ==
  ASSUME Typed, NEW cmd \in Commands, NEW number \in Int, NEW line \in Seq(0..255),
         Ended(line), Enqueue(cmd, number, line)
  PROVE  Typed'
<1>1. /\ g_cmd_queue' \in Seq({CMD_HELLO, CMD_SETSTATION, CMD_REQUEST})
      /\ Len(asked') = Len(g_cmd_queue') /\ asked' \in Seq(Int)
  BY DEF Enqueue, Typed, TypeOK, Commands
<1>2. sending' \in Seq(0..255) /\ Ended(sending)' /\ split' \in BOOLEAN
  BY DEF Enqueue, Typed, TypeOK, Ended, Splits
<1>3. typed' \in 0..MaxCommands
  BY ControlAssumption DEF Enqueue, Typed, TypeOK
<1>4. UNCHANGED <<wait_for_announce, shaken, cur_station, conn, to_server, to_client, news>>
  BY DEF Enqueue, serverVars
<1>5. Ended(to_server)'
  BY <1>4 DEF Typed, Ended
<1> QED
  BY <1>1, <1>2, <1>3, <1>4, <1>5 DEF Typed, TypeOK

\* The line is sent.
LEMMA SendAllTyped ==
  ASSUME Typed, SendAll
  PROVE  Typed'
<1>1. /\ sending' = <<>> /\ sending \in Seq(0..255) /\ sending # <<>>
      /\ to_server' = IF conn = "open" THEN to_server \o sending ELSE to_server
      /\ UNCHANGED <<g_cmd_queue, asked, wait_for_announce, typed, split, shaken,
                     cur_station, conn, to_client, news>>
  BY DEF SendAll, serverVars, Typed, TypeOK
<1>2. to_server' \in Seq(0..255) /\ Ended(to_server)'
  BY <1>1 DEF Typed, TypeOK, Ended
<1>3. sending' \in Seq(0..255) /\ Ended(sending)'
  BY <1>1 DEF Ended
<1> QED
  BY <1>1, <1>2, <1>3 DEF Typed, TypeOK

\* What ServeLine does to the bytes and to what the client gets.
LEMMA ServeTyped ==
  ASSUME Typed, ServeLine
  PROVE  Typed'
<1> DEFINE line == SubSeq(to_server, 1, LineLength)
<1>1. /\ to_server \in Seq(0..255) /\ to_server # <<>> /\ Ended(to_server)
      /\ to_client \in Seq(Messages)
  BY DEF ServeLine, Typed, TypeOK
<1>2. /\ LineLength \in Nat /\ LineLength + 1 \in 1..Len(to_server)
      /\ to_server[LineLength + 1] = NL
  BY <1>1, FirstLine
<1>3. to_server' = SubSeq(to_server, (LineLength + 1) + 1, Len(to_server))
  <2>2. LineLength + 2 = (LineLength + 1) + 1
    BY <1>2
  <2> QED
    BY <2>2 DEF ServeLine
<1>4. /\ to_server' \in Seq(0..255) /\ Len(to_server') = Len(to_server) - (LineLength + 1)
      /\ \A n \in 1..(Len(to_server) - (LineLength + 1)) :
           to_server'[n] = to_server[n + (LineLength + 1)]
  <2> DEFINE k == LineLength + 1
  <2>1. k \in 0..Len(to_server)
    BY <1>2
  <2> HIDE DEF k
  <2>2. to_server' = SubSeq(to_server, k + 1, Len(to_server))
    BY <1>3 DEF k
  <2>3. /\ to_server' \in Seq(0..255) /\ Len(to_server') = Len(to_server) - k
        /\ \A n \in 1..(Len(to_server) - k) : to_server'[n] = to_server[n + k]
    BY <1>1, <2>1, <2>2, Suffix
  <2> QED
    BY <2>3 DEF k
<1>5. Ended(to_server)'
  <2> SUFFICES ASSUME to_server' # <<>>
               PROVE  to_server'[Len(to_server')] = NL
    BY DEF Ended
  <2>1. Len(to_server') # 0 /\ Len(to_server') \in Nat
    BY <1>4
  <2>2. Len(to_server') \in 1..(Len(to_server) - (LineLength + 1))
    BY <1>1, <1>2, <1>4, <2>1
  <2>3. Len(to_server') + (LineLength + 1) = Len(to_server)
    <3>1. Len(to_server) \in Nat
      BY <1>1
    <3> QED
      BY <1>2, <1>4, <3>1
  <2> QED
    BY <1>1, <1>4, <2>2, <2>3 DEF Ended
<1>6. /\ UNCHANGED <<g_cmd_queue, asked, wait_for_announce, sending, typed, news>>
      /\ split' = (split \/ Cut(to_client'))
      /\ \/ conn' = "closed" /\ UNCHANGED <<shaken, cur_station, to_client>>
         \/ UNCHANGED conn /\ AnswerHello
         \/ /\ UNCHANGED <<conn, shaken>>
            /\ \E texts \in [1..1 -> Sizes] : AnswerSet(NumberOf(line), texts)
         \/ /\ UNCHANGED <<conn, shaken>>
            /\ \E texts \in [1..MaxSongs -> Sizes] : AnswerRequest(ByteOf(line, 2), texts)
         \/ UNCHANGED <<conn, shaken, cur_station, to_client>>
  BY DEF ServeLine, clientVars
<1> HIDE DEF line
<1>7. ASSUME AnswerHello
      PROVE  shaken' \in BOOLEAN /\ cur_station' = cur_station /\ to_client' \in Seq(Messages)
  BY <1>1, <1>7, MessageTypes DEF AnswerHello
<1>8. ASSUME NEW n, NEW texts \in [1..1 -> Sizes], AnswerSet(n, texts)
      PROVE  cur_station' \in Ids \cup {None} /\ to_client' \in Seq(Messages)
  <2> DEFINE base == IF shaken THEN to_client ELSE Append(to_client, Invalid)
  <2>1. base \in Seq(Messages)
    BY <1>1, MessageTypes
  <2>2. CASE n \in Ids
    <3>1. Confirm("SetConfirmed", n) \in Messages /\ Announced(texts) \in Seq(Messages)
      <4>1. Confirm("SetConfirmed", n) \in Messages
        BY <2>2, MessageTypes, ControlAssumption
      <4>2. 1 \in Nat
        OBVIOUS
      <4>3. Announced(texts) \in Seq(Messages)
        BY <1>8, <4>2, AnnouncedLines
      <4> QED
        BY <4>1, <4>3
    <3>2. /\ cur_station' = n
          /\ to_client' = base \o <<Confirm("SetConfirmed", n)>> \o Announced(texts)
      BY <1>8, <2>2 DEF AnswerSet
    <3> HIDE DEF base
    <3> QED
      BY <2>1, <2>2, <3>1, <3>2
  <2>3. CASE n \notin Ids
    <3>1. cur_station' = cur_station /\ to_client' = base \o <<Invalid>>
      BY <1>8, <2>3 DEF AnswerSet
    <3> HIDE DEF base
    <3>2. to_client' \in Seq(Messages)
      BY <2>1, <3>1, MessageTypes
    <3> QED
      BY <3>1, <3>2 DEF Typed, TypeOK
  <2> QED
    BY <2>2, <2>3
<1>9. ASSUME NEW n, NEW texts \in [1..MaxSongs -> Sizes], AnswerRequest(n, texts)
      PROVE  cur_station' = cur_station /\ to_client' \in Seq(Messages)
  <2>1. /\ Confirm("RequestConfirmed", None) \in Messages
        /\ Announced(texts) \in Seq(Messages)
    BY <1>9, MessageTypes, ControlAssumption, AnnouncedLines
  <2> QED
    BY <1>1, <1>9, <2>1, MessageTypes DEF AnswerRequest
<1>10. /\ shaken' \in BOOLEAN /\ cur_station' \in Ids \cup {None}
       /\ to_client' \in Seq(Messages) /\ conn' \in {"open", "closed", "left"}
  BY <1>1, <1>6, <1>7, <1>8, <1>9 DEF Typed, TypeOK
<1>11. Ended(sending)'
  BY <1>6 DEF Typed, Ended
<1>12. split' \in BOOLEAN
  BY <1>6 DEF Typed, TypeOK, Cut
<1> QED
  BY <1>4, <1>5, <1>6, <1>10, <1>11, <1>12 DEF Typed, TypeOK

\* Announcements.
LEMMA NewsTyped ==
  ASSUME Typed, Announce \/ StationCloses
  PROVE  Typed'
<1>1. /\ to_client' \in Seq(Messages) /\ news' \in 0..MaxNews
      /\ cur_station' \in Ids \cup {None}
      /\ UNCHANGED <<clientVars, shaken, conn, to_server>> /\ split' \in BOOLEAN
  <2>1. /\ \/ to_client' = Append(to_client, News)
           \/ \E texts \in [1..1 -> Sizes] : to_client' = to_client \o Announced(texts)
        /\ news < MaxNews /\ news' = news + 1
        /\ UNCHANGED <<clientVars, shaken, conn, to_server>>
        /\ cur_station' = cur_station \/ cur_station' = None
        /\ split' = split \/ split' = (split \/ Cut(to_client'))
    BY DEF Announce, StationCloses, serverVars
  <2>2. to_client \in Seq(Messages) /\ news \in 0..MaxNews /\ cur_station \in Ids \cup {None}
    BY DEF Typed, TypeOK
  <2>3. to_client' \in Seq(Messages)
    <3>1. 1 \in Nat
      OBVIOUS
    <3>2. \A texts \in [1..1 -> Sizes] : Announced(texts) \in Seq(Messages)
      BY <3>1, AnnouncedLines
    <3>3. CASE to_client' = Append(to_client, News)
      BY <2>2, <3>3, MessageTypes
    <3>4. ASSUME NEW texts \in [1..1 -> Sizes], to_client' = to_client \o Announced(texts)
          PROVE  to_client' \in Seq(Messages)
      <4>1. Announced(texts) \in Seq(Messages)
        BY <3>2
      <4> QED
        BY <2>2, <3>4, <4>1
    <3> QED
      BY <2>1, <3>3, <3>4
  <2>4. MaxNews \in Nat
    BY ControlAssumption
  <2>5. news' \in 0..MaxNews
    BY <2>1, <2>2, <2>4
  <2>6. split' \in BOOLEAN
    BY <2>1 DEF Typed, TypeOK, Cut
  <2> QED
    BY <2>1, <2>2, <2>3, <2>5, <2>6
<1>2. Ended(to_server)' /\ Ended(sending)'
  BY <1>1 DEF Typed, Ended, clientVars
<1> QED
  BY <1>1, <1>2 DEF Typed, TypeOK, clientVars

\* The client receives a message, or the end of the connection.
LEMMA ReceiveTyped ==
  ASSUME Typed, ReceiverParser \/ Leave
  PROVE  Typed'
<1>1. CASE ReceiverParser
  <2>1. to_client' \in Seq(Messages) /\ wait_for_announce' \in {0, 1}
    BY <1>1 DEF ReceiverParser, Typed, TypeOK
  <2>2. UNCHANGED <<sending, typed, split, shaken, cur_station, conn, to_server, news>>
    BY <1>1 DEF ReceiverParser, serverVars
  <2>3. \/ UNCHANGED <<g_cmd_queue, asked>>
        \/ g_cmd_queue # <<>> /\ g_cmd_queue' = Tail(g_cmd_queue) /\ asked' = Tail(asked)
    BY <1>1 DEF ReceiverParser, Dequeue
  <2>4. /\ g_cmd_queue' \in Seq({CMD_HELLO, CMD_SETSTATION, CMD_REQUEST})
        /\ Len(asked') = Len(g_cmd_queue') /\ asked' \in Seq(Int)
    <3> DEFINE C == {CMD_HELLO, CMD_SETSTATION, CMD_REQUEST}
    <3>1. asked \in Seq(Int) /\ g_cmd_queue \in Seq(C) /\ Len(asked) = Len(g_cmd_queue)
      BY DEF Typed, TypeOK
    <3> HIDE DEF C
    <3>2. ASSUME g_cmd_queue # <<>>
          PROVE  /\ Tail(g_cmd_queue) \in Seq(C) /\ Tail(asked) \in Seq(Int)
                 /\ Len(Tail(asked)) = Len(Tail(g_cmd_queue))
      <4>1. asked # <<>>
        BY <3>1, <3>2
      <4> QED
        BY <3>1, <3>2, <4>1
    <3>3. /\ g_cmd_queue' \in Seq(C) /\ asked' \in Seq(Int)
          /\ Len(asked') = Len(g_cmd_queue')
      BY <2>3, <3>1, <3>2
    <3> QED
      BY <3>3 DEF C
  <2>5. Ended(to_server)' /\ Ended(sending)'
    BY <2>2 DEF Typed, Ended
  <2> QED
    BY <2>1, <2>2, <2>4, <2>5 DEF Typed, TypeOK
<1>2. CASE Leave
  <2>1. conn' = "left" /\ UNCHANGED <<clientVars, shaken, cur_station, to_server, to_client,
                                       news, split>>
    BY <1>2 DEF Leave
  <2> QED
    BY <2>1 DEF Typed, TypeOK, Ended, clientVars
<1> QED
  BY <1>1, <1>2

\* The commands a user types.
LEMMA TypeTyped ==
  ASSUME Typed, Type
  PROVE  Typed'
<1>1. ASSUME NEW n \in Numbers, SendSetStation(n)
      PROVE  Typed'
  <2>1. n \in Nat /\ n \in Int /\ CMD_SETSTATION \in {CMD_HELLO, CMD_SETSTATION}
    BY ControlAssumption
  <2>2. Enqueue(CMD_SETSTATION, n, LineOfNumber(CMD_SETSTATION, n))
    BY <1>1 DEF SendSetStation
  <2>3. LineOfNumber(CMD_SETSTATION, n) \in Seq(0..255) /\ Ended(LineOfNumber(CMD_SETSTATION, n))
    BY <2>1, NumberLine
  <2> QED
    BY <2>1, <2>2, <2>3, EnqueueTyped DEF Commands
<1>2. ASSUME NEW type \in 0..2, SendRequest(type)
      PROVE  Typed'
  <2>1. LineOfRequest(type) \in Seq(0..255) /\ Ended(LineOfRequest(type))
    BY RequestLine
  <2>2. None \in Int
    BY DEF None
  <2> QED
    BY <1>2, <2>1, <2>2, EnqueueTyped DEF Commands, SendRequest
<1> QED
  BY <1>1, <1>2 DEF Type

\* Every step keeps the types.
LEMMA NextTyped == Typed /\ [Next]_vars => Typed'
<1> SUFFICES ASSUME Typed, [Next]_vars PROVE Typed'
  OBVIOUS
<1>1. CASE UNCHANGED vars
  BY <1>1 DEF Typed, TypeOK, Ended, vars, clientVars, serverVars
<1> QED
  BY <1>1, TypeTyped, SendAllTyped, ServeTyped, NewsTyped, ReceiveTyped DEF Next

-----------------------------------------------------------------------------
(* In step, until a line is split.                                           *)

\* HELLO has been queued and sent.
LEMMA InitSync == Init => Sync
<1> SUFFICES ASSUME Init, ~split PROVE conn = "open" /\ HelloOK
                                       /\ InStep(g_cmd_queue, asked, to_client, Bytes)
  BY DEF Sync
<1>1. PICK port \in Ports : /\ to_server = LineOfNumber(CMD_HELLO, port)
                            /\ split = Splits(LineOfNumber(CMD_HELLO, port))
  BY DEF Init
<1> DEFINE l == LineOfNumber(CMD_HELLO, port)
           C == Commands
<1>2. port \in Nat
  BY ControlAssumption
<1>3. l \in Seq(0..255) /\ OneLine(l, CMD_HELLO, port)
  BY <1>1, <1>2, NumberLine
<1>4. OneLine(l, CMD_HELLO, None)
  BY <1>3 DEF OneLine, CMD_HELLO, CMD_SETSTATION
<1>5. Bytes = l /\ shaken = FALSE /\ conn = "open"
  BY <1>1, <1>3 DEF Bytes, Init
<1> HIDE DEF l
<1>6. l # <<>> /\ l[1] = CMD_HELLO /\ \A n \in Lines(l) : n = 1
  <2>1. /\ l[1] = CMD_HELLO /\ Len(l) \in {3, 4}
        /\ \A m \in 1..(Len(l) - 1) : l[m] # NL
    BY <1>4 DEF OneLine
  <2> QED
    BY <2>1 DEF Lines
<1>7. HelloOK
  BY <1>5, <1>6 DEF HelloOK
<1>8. InStep(<<>>, <<>>, <<>>, <<>>)
  <2>1. RepliesIn(<<>>) = {} /\ Lines(<<>>) = {}
    BY DEF RepliesIn, Lines
  <2>2. Cardinality({}) = 0
    BY FS_EmptySet
  <2> QED
    <3>1. Len(<<>>) = Cardinality(RepliesIn(<<>>)) + Cardinality(Lines(<<>>))
      <4> DEFINE m == Cardinality(RepliesIn(<<>>))
                 n == Cardinality(Lines(<<>>))
      <4>1. m = 0 /\ n = 0
        BY <2>1, <2>2, Zenon
      <4> HIDE DEF m, n
      <4>2. Len(<<>>) = m + n
        BY <4>1
      <4> QED
        BY <4>2 DEF m, n
    <3>2. (\A n \in RepliesIn(<<>>) : FALSE) /\ (\A n \in Lines(<<>>) : FALSE)
      BY <2>1
    <3> QED
      BY <3>1, <3>2, Zenon DEF InStep
<1>9. InStep(Append(<<>>, CMD_HELLO), Append(<<>>, None), <<>>, <<>> \o l)
  <2>1. /\ <<>> \in Seq(C) /\ <<>> \in Seq(Int) /\ <<>> \in Seq(Messages)
        /\ <<>> \in Seq(0..255) /\ Ended(<<>>) /\ Len(<<>>) = Len(<<>>)
        /\ CMD_HELLO \in C /\ None \in Int
    BY DEF Ended, Commands, None
  <2> QED
    BY <1>4, <1>8, <2>1, StepType
<1>10. /\ Append(<<>>, CMD_HELLO) = g_cmd_queue /\ Append(<<>>, None) = asked
       /\ <<>> = to_client /\ <<>> \o l = Bytes
  BY <1>3, <1>5 DEF Init
<1> QED
  BY <1>5, <1>7, <1>9, <1>10

\* A command is queued and its line is to be sent.
LEMMA EnqueueSync ==
  ASSUME Typed, Sync, NEW cmd \in Commands \ {CMD_HELLO}, NEW number \in Int,
         NEW line \in Seq(0..255), ~Splits(line) => OneLine(line, cmd, number),
         Enqueue(cmd, number, line)
  PROVE  Sync'
<1> SUFFICES ASSUME ~split'
             PROVE  conn' = "open" /\ HelloOK' /\ InStep(g_cmd_queue, asked, to_client, Bytes)'
  BY DEF Sync
<1>1. ~split /\ OneLine(line, cmd, number)
  BY DEF Enqueue
<1>2. /\ conn = "open" /\ HelloOK /\ InStep(g_cmd_queue, asked, to_client, Bytes)
  BY <1>1 DEF Sync
<1>3. /\ to_server \in Seq(0..255) /\ Ended(to_server) /\ to_client \in Seq(Messages)
      /\ g_cmd_queue \in Seq(Commands) /\ asked \in Seq(Int) /\ Len(asked) = Len(g_cmd_queue)
  BY DEF Typed, TypeOK, Commands
<1>4. /\ g_cmd_queue' = Append(g_cmd_queue, cmd) /\ asked' = Append(asked, number)
      /\ sending = <<>> /\ sending' = line
      /\ UNCHANGED <<conn, shaken, to_server, to_client>>
  BY DEF Enqueue, serverVars
<1>5. Bytes = to_server /\ Bytes' = Bytes \o line
  BY <1>3, <1>4 DEF Bytes
<1>6. InStep(g_cmd_queue', asked', to_client', Bytes \o line)
  BY <1>1, <1>2, <1>3, <1>4, <1>5, StepType
<1>7. HelloOK'
  <2>1. /\ line[1] = cmd /\ Len(line) \in {3, 4} /\ line \in Seq(0..255)
        /\ \A m \in 1..(Len(line) - 1) : line[m] # NL
    BY <1>1 DEF OneLine
  <2>2. /\ Len(Bytes') = Len(Bytes) + Len(line) /\ Len(Bytes) \in Nat
        /\ \A n \in 1..Len(Bytes) : Bytes'[n] = Bytes[n]
        /\ \A n \in 1..Len(line) : Bytes'[n + Len(Bytes)] = line[n]
    BY <1>3, <1>5, <2>1
  <2>3. ~shaken' => Bytes' # <<>> /\ Bytes'[1] = CMD_HELLO
    <3> SUFFICES ASSUME ~shaken PROVE Bytes' # <<>> /\ Bytes'[1] = CMD_HELLO
      BY <1>4
    <3>1. Bytes # <<>> /\ Bytes[1] = CMD_HELLO
      BY <1>2 DEF HelloOK
    <3>2. Len(Bytes) # 0
      BY <1>3, <1>5, <3>1
    <3>3. Len(Bytes') # 0 /\ Bytes'[1] = CMD_HELLO
      BY <2>1, <2>2, <3>1, <3>2
    <3> QED
      BY <3>3
  <2>4. ASSUME NEW n \in Lines(Bytes'), Bytes'[n] = CMD_HELLO
        PROVE  n = 1 /\ ~shaken'
    <3>1. n \in 1..(Len(Bytes) + Len(line)) /\ (n = 1 \/ Bytes'[n - 1] = NL)
      BY <2>2 DEF Lines
    <3>2. CASE n \in 1..Len(Bytes)
      <4>1. n \in Lines(Bytes)
        <5>1. n # 1 => Bytes'[n - 1] = Bytes[n - 1]
          BY <2>2, <3>2
        <5> QED
          BY <3>1, <3>2, <5>1 DEF Lines
      <4>2. Bytes[n] = CMD_HELLO
        BY <2>2, <2>4, <3>2
      <4> QED
        BY <1>2, <1>4, <4>1, <4>2 DEF HelloOK
    <3>3. CASE n = 1 + Len(Bytes)
      <4>1. Bytes'[n] = line[1]
        BY <2>1, <2>2, <3>3
      <4> QED
        BY <2>1, <2>4, <4>1
    <3>4. CASE n > 1 + Len(Bytes)
      <4> DEFINE j == n - 1 - Len(Bytes)
      <4>1. j \in 1..(Len(line) - 1) /\ j \in 1..Len(line) /\ j + Len(Bytes) = n - 1
        BY <2>1, <2>2, <3>1, <3>4
      <4> HIDE DEF j
      <4>2. Bytes'[n - 1] = line[j]
        BY <2>2, <4>1
      <4>3. Bytes'[n - 1] # NL
        BY <2>1, <4>1, <4>2
      <4> QED
        BY <2>2, <3>1, <3>4, <4>3
    <3> QED
      BY <2>2, <3>1, <3>2, <3>3, <3>4
  <2> QED
    BY <2>3, <2>4 DEF HelloOK
<1> QED
  BY <1>2, <1>4, <1>5, <1>6, <1>7

\* The commands a user types.
LEMMA TypeSync ==
  ASSUME Typed, Sync, Type
  PROVE  Sync'
<1>0. CMD_SETSTATION \in Commands \ {CMD_HELLO} /\ CMD_REQUEST \in Commands \ {CMD_HELLO}
  BY DEF Commands, CMD_HELLO, CMD_SETSTATION, CMD_REQUEST
<1>1. ASSUME NEW n \in Numbers, SendSetStation(n)
      PROVE  Sync'
  <2>1. n \in Nat /\ n \in Int /\ CMD_SETSTATION \in {CMD_HELLO, CMD_SETSTATION}
    BY ControlAssumption
  <2> DEFINE l == LineOfNumber(CMD_SETSTATION, n)
  <2>2. Enqueue(CMD_SETSTATION, n, l)
    BY <1>1 DEF SendSetStation
  <2>3. l \in Seq(0..255) /\ (~Splits(l) => OneLine(l, CMD_SETSTATION, n))
    BY <2>1, NumberLine
  <2> HIDE DEF l
  <2> QED
    BY <1>0, <2>1, <2>2, <2>3, EnqueueSync
<1>2. ASSUME NEW type \in 0..2, SendRequest(type)
      PROVE  Sync'
  <2> DEFINE l == LineOfRequest(type)
  <2>1. l \in Seq(0..255) /\ OneLine(l, CMD_REQUEST, None)
    BY RequestLine
  <2>2. None \in Int
    BY DEF None
  <2>3. Enqueue(CMD_REQUEST, None, l)
    BY <1>2 DEF SendRequest
  <2> HIDE DEF l
  <2> QED
    BY <1>0, <2>1, <2>2, <2>3, EnqueueSync
<1> QED
  BY <1>1, <1>2 DEF Type

\* A step that leaves the bytes, the queue and the server's view alone.
LEMMA SendAllSync ==
  ASSUME Typed, Sync, SendAll
  PROVE  Sync'
<1>1. /\ to_server' = IF conn = "open" THEN to_server \o sending ELSE to_server
      /\ sending' = <<>> /\ to_server \in Seq(0..255) /\ sending \in Seq(0..255)
      /\ UNCHANGED <<g_cmd_queue, asked, to_client, split, shaken, conn>>
  BY DEF SendAll, serverVars, Typed, TypeOK
<1> SUFFICES ASSUME ~split
             PROVE  conn' = "open" /\ HelloOK' /\ InStep(g_cmd_queue, asked, to_client, Bytes)'
  BY <1>1 DEF Sync
<1>2. /\ conn = "open" /\ HelloOK /\ InStep(g_cmd_queue, asked, to_client, Bytes)
  BY DEF Sync
<1>3. Bytes' = Bytes
  BY <1>1, <1>2 DEF Bytes
<1>4. HelloOK'
  BY <1>1, <1>2, <1>3 DEF HelloOK
<1> QED
  BY <1>1, <1>2, <1>3, <1>4

\* Announcements.
LEMMA NewsSync ==
  ASSUME Typed, Sync, Announce \/ StationCloses
  PROVE  Sync'
<1> SUFFICES ASSUME ~split'
             PROVE  conn' = "open" /\ HelloOK' /\ InStep(g_cmd_queue, asked, to_client, Bytes)'
  BY DEF Sync
<1>1. /\ to_client' = Append(to_client, News) /\ ~split
      /\ UNCHANGED <<g_cmd_queue, asked, to_server, sending, shaken, conn>>
  <2>1. UNCHANGED <<g_cmd_queue, asked, to_server, sending, shaken, conn>>
    BY DEF Announce, StationCloses, clientVars, serverVars
  <2>2. CASE Announce
    <3>1. /\ ~split /\ ~Cut(to_client')
          /\ \E texts \in [1..1 -> Sizes] : to_client' = to_client \o Announced(texts)
      BY <2>2 DEF Announce
    <3>2. PICK texts \in [1..1 -> Sizes] : to_client' = to_client \o Announced(texts)
      BY <3>1
    <3>3. to_client \in Seq(Messages)
      BY DEF Typed, TypeOK
    <3>4. Announced(texts) = <<News>>
      BY <3>1, <3>2, <3>3, AnnouncedLines
    <3>5. to_client \o <<News>> = Append(to_client, News)
      BY <3>3
    <3> QED
      BY <2>1, <3>1, <3>2, <3>4, <3>5
  <2>3. CASE StationCloses
    BY <2>1, <2>3 DEF StationCloses
  <2> QED
    BY <2>2, <2>3
<1>2. /\ conn = "open" /\ HelloOK /\ InStep(g_cmd_queue, asked, to_client, Bytes)
  BY <1>1 DEF Sync
<1>3. Bytes' = Bytes
  BY <1>1 DEF Bytes
<1>4. HelloOK'
  BY <1>1, <1>2, <1>3 DEF HelloOK
<1>5. to_client \in Seq(Messages) /\ News \in Messages /\ Answers(News) = {}
  BY MessageTypes, MessageAnswers DEF Typed, TypeOK
<1>6. InStep(g_cmd_queue, asked, Append(to_client, News), Bytes)
  BY <1>2, <1>5, StepNews
<1> QED
  BY <1>1, <1>2, <1>3, <1>4, <1>6

\* The client receives a message.
LEMMA ReceiveSync ==
  ASSUME Typed, Sync, ReceiverParser
  PROVE  Sync'
<1>1. /\ to_client # <<>> /\ to_client' = Tail(to_client)
      /\ IF g_cmd_queue # <<>> /\ Head(g_cmd_queue) \in Answers(Head(to_client))
         THEN Dequeue ELSE UNCHANGED <<g_cmd_queue, asked>>
      /\ UNCHANGED <<to_server, sending, split, shaken, conn>>
  BY DEF ReceiverParser, serverVars
<1> SUFFICES ASSUME ~split
             PROVE  conn' = "open" /\ HelloOK' /\ InStep(g_cmd_queue, asked, to_client, Bytes)'
  BY <1>1 DEF Sync
<1>2. /\ conn = "open" /\ HelloOK /\ InStep(g_cmd_queue, asked, to_client, Bytes)
  BY DEF Sync
<1>3. Bytes' = Bytes
  BY <1>1 DEF Bytes
<1>4. HelloOK'
  BY <1>1, <1>2, <1>3 DEF HelloOK
<1>5. /\ to_client \in Seq(Messages) /\ Bytes \in Seq(0..255)
      /\ g_cmd_queue \in Seq(Commands) /\ asked \in Seq(Int) /\ Len(asked) = Len(g_cmd_queue)
  BY DEF Typed, TypeOK, Commands, Bytes
<1>6. CASE Answers(Head(to_client)) = {}
  <2>1. UNCHANGED <<g_cmd_queue, asked>>
    BY <1>1, <1>6
  <2>2. InStep(g_cmd_queue, asked, Tail(to_client), Bytes)
    BY <1>1, <1>2, <1>5, <1>6, StepIgnore
  <2> QED
    BY <1>1, <1>2, <1>3, <1>4, <2>1, <2>2
<1>7. CASE Answers(Head(to_client)) # {}
  <2>1. /\ g_cmd_queue # <<>> /\ Head(g_cmd_queue) \in Answers(Head(to_client))
        /\ InStep(Tail(g_cmd_queue), Tail(asked), Tail(to_client), Bytes)
    BY <1>1, <1>2, <1>5, <1>7, StepReceive
  <2>2. g_cmd_queue' = Tail(g_cmd_queue) /\ asked' = Tail(asked)
    BY <1>1, <2>1 DEF Dequeue
  <2> QED
    BY <1>1, <1>2, <1>3, <1>4, <2>1, <2>2
<1> QED
  BY <1>6, <1>7

\* The first line that the server reads is one the client wrote.
LEMMA ServedLine ==
  ASSUME Typed, Sync, ~split, to_server # <<>>
  PROVE  /\ Bytes \in Seq(0..255) /\ LineLength \in Nat /\ LineLength + 1 \in 1..Len(Bytes)
         /\ Bytes[LineLength + 1] = NL /\ \A m \in 1..LineLength : Bytes[m] # NL
         /\ SubSeq(to_server, 1, LineLength) # <<>>
         /\ SubSeq(to_server, 1, LineLength)[1] = Bytes[1]
         /\ Bytes[1] = CMD_HELLO \/ Bytes[1] = CMD_SETSTATION \/ Bytes[1] = CMD_REQUEST
         /\ Bytes[1] = CMD_HELLO <=> ~shaken
         /\ Bytes[1] = CMD_SETSTATION
              => NumberOf(SubSeq(to_server, 1, LineLength)) = Bytes[2] * 256 + Bytes[3]
         /\ Bytes[1] = CMD_REQUEST => ByteOf(SubSeq(to_server, 1, LineLength), 2) \in 0..2
         /\ SubSeq(to_server, LineLength + 2, Len(to_server)) \o sending
              = SubSeq(Bytes, LineLength + 2, Len(Bytes))
<1> DEFINE line == SubSeq(to_server, 1, LineLength)
           k == LineLength + 1
<1>1. /\ to_server \in Seq(0..255) /\ sending \in Seq(0..255) /\ Ended(to_server)
      /\ to_client \in Seq(Messages)
  BY DEF Typed, TypeOK
<1>2. /\ LineLength \in Nat /\ LineLength + 1 \in 1..Len(to_server)
      /\ to_server[LineLength + 1] = NL
      /\ \A m \in 1..LineLength : to_server[m] # NL
  BY <1>1, FirstLine
<1>3. /\ Bytes \in Seq(0..255) /\ Len(Bytes) = Len(to_server) + Len(sending)
      /\ Len(to_server) \in Nat /\ Len(sending) \in Nat
      /\ \A m \in 1..Len(to_server) : Bytes[m] = to_server[m]
      /\ \A m \in 1..Len(sending) : Bytes[Len(to_server) + m] = sending[m]
  BY <1>1 DEF Bytes
<1>4. /\ LineLength + 1 \in 1..Len(Bytes) /\ Bytes[LineLength + 1] = NL
      /\ \A m \in 1..LineLength : Bytes[m] # NL
  BY <1>2, <1>3
<1>5. HelloOK /\ InStep(g_cmd_queue, asked, to_client, Bytes)
  BY DEF Sync
<1>6. 1 \in Lines(Bytes)
  BY <1>3, <1>4 DEF Lines
<1>7. LineAt(Bytes, 1)
  BY <1>5, <1>6 DEF InStep, LineOK
<1>8. /\ Bytes[1] = CMD_HELLO \/ Bytes[1] = CMD_SETSTATION \/ Bytes[1] = CMD_REQUEST
      /\ Bytes[1] # CMD_REQUEST =>
           4 \in 1..Len(Bytes) /\ Bytes[2] # NL /\ Bytes[3] # NL /\ Bytes[4] = NL
      /\ Bytes[1] = CMD_REQUEST => 3 \in 1..Len(Bytes) /\ Bytes[2] \in 0..2 /\ Bytes[3] = NL
  BY <1>3, <1>7 DEF LineAt, CMD_HELLO, CMD_SETSTATION, CMD_REQUEST
<1>9. Bytes[1] = CMD_HELLO <=> ~shaken
  BY <1>5, <1>6 DEF HelloOK
<1>10. LineLength = IF Bytes[1] = CMD_REQUEST THEN 2 ELSE 3
  <2>1. Bytes[1] # NL
    BY <1>8 DEF CMD_HELLO, CMD_SETSTATION, CMD_REQUEST, NL
  <2>2. CASE Bytes[1] = CMD_REQUEST
    <3>1. Bytes[2] # NL /\ Bytes[3] = NL
      BY <1>8, <2>2 DEF NL
    <3>2. ~(3 \in 1..LineLength) /\ LineLength + 1 # 1 /\ LineLength + 1 # 2
      BY <1>2, <1>4, <2>1, <3>1
    <3> QED
      BY <1>2, <2>2, <3>2
  <2>3. CASE Bytes[1] # CMD_REQUEST
    <3>1. Bytes[2] # NL /\ Bytes[3] # NL /\ Bytes[4] = NL
      BY <1>8, <2>3
    <3>2. /\ ~(4 \in 1..LineLength) /\ LineLength + 1 # 1 /\ LineLength + 1 # 2
          /\ LineLength + 1 # 3
      BY <1>2, <1>4, <2>1, <3>1
    <3> QED
      BY <1>2, <2>3, <3>2
  <2> QED
    BY <2>2, <2>3
<1>11. /\ line \in Seq(0..255) /\ Len(line) = LineLength
       /\ \A m \in 1..LineLength : line[m] = Bytes[m]
  <2>1. \A m \in 1..LineLength : m \in 1..Len(to_server)
    BY <1>2, <1>3
  <2>2. LineLength \in 0..Len(to_server)
    BY <1>2, <1>3
  <2>3. /\ line \in Seq(0..255) /\ Len(line) = LineLength
        /\ \A m \in 1..LineLength : line[m] = to_server[m]
    BY <1>1, <2>2, Prefix
  <2> QED
    BY <1>3, <2>1, <2>3
<1>12. line # <<>> /\ line[1] = Bytes[1]
  BY <1>10, <1>11
<1>13. Bytes[1] = CMD_SETSTATION => NumberOf(line) = Bytes[2] * 256 + Bytes[3]
  <2> HIDE DEF line
  <2> SUFFICES ASSUME Bytes[1] = CMD_SETSTATION
               PROVE  NumberOf(line) = Bytes[2] * 256 + Bytes[3]
    OBVIOUS
  <2>1. LineLength = 3
    BY <1>10 DEF CMD_SETSTATION, CMD_REQUEST
  <2>2. Len(line) = 3 /\ line[2] = Bytes[2] /\ line[3] = Bytes[3]
    BY <1>11, <2>1
  <2>3. ByteOf(line, 2) = Bytes[2] /\ ByteOf(line, 3) = Bytes[3]
    BY <2>2 DEF ByteOf
  <2> QED
    BY <2>3 DEF NumberOf
<1>14. Bytes[1] = CMD_REQUEST => ByteOf(line, 2) \in 0..2
  <2> HIDE DEF line
  <2> SUFFICES ASSUME Bytes[1] = CMD_REQUEST
               PROVE  ByteOf(line, 2) \in 0..2
    OBVIOUS
  <2>1. Len(line) = 2 /\ line[2] = Bytes[2]
    BY <1>10, <1>11
  <2> QED
    BY <1>8, <2>1 DEF ByteOf
<1>15. SubSeq(to_server, LineLength + 2, Len(to_server)) \o sending
         = SubSeq(Bytes, LineLength + 2, Len(Bytes))
  <2>1. k \in 0..Len(to_server) /\ LineLength + 2 = k + 1
    BY <1>2, <1>3
  <2> HIDE DEF k
  <2>2. SubSeq(to_server, k + 1, Len(to_server)) \o sending
          = SubSeq(Bytes, k + 1, Len(Bytes))
    BY <1>1, <2>1, DropBehind DEF Bytes
  <2> QED
    BY <2>1, <2>2
<1> QED
  BY <1>2, <1>3, <1>4, <1>8, <1>9, <1>12, <1>13, <1>14, <1>15

\* The server reads a line and answers it.
LEMMA ServeSync ==
  ASSUME Typed, Sync, ServeLine
  PROVE  Sync'
<1> DEFINE line == SubSeq(to_server, 1, LineLength)
           k == LineLength + 1
           b == Bytes
           d == SubSeq(Bytes, k + 1, Len(Bytes))
           In(s) == InStep(g_cmd_queue, asked, s, d)
           Set(n) == \E texts \in [1..1 -> Sizes] : AnswerSet(n, texts)
           Request(n) == \E texts \in [1..MaxSongs -> Sizes] : AnswerRequest(n, texts)
<1>1. /\ conn = "open" /\ to_server # <<>>
      /\ to_server' = SubSeq(to_server, LineLength + 2, Len(to_server))
      /\ UNCHANGED <<g_cmd_queue, asked, sending>>
      /\ split' = (split \/ Cut(to_client'))
  BY DEF ServeLine, clientVars
<1> SUFFICES ASSUME ~split, ~Cut(to_client')
             PROVE  conn' = "open" /\ HelloOK' /\ InStep(g_cmd_queue, asked, to_client, Bytes)'
  BY <1>1 DEF Sync
<1>2. HelloOK /\ InStep(g_cmd_queue, asked, to_client, Bytes)
  BY DEF Sync
<1>3. to_client \in Seq(Messages) /\ shaken \in BOOLEAN
  BY DEF Typed, TypeOK
<1>4. /\ b \in Seq(0..255) /\ LineLength \in Nat /\ k \in 1..Len(b)
      /\ b[k] = NL /\ \A m \in 1..LineLength : b[m] # NL
      /\ line # <<>> /\ line[1] = b[1]
      /\ b[1] = CMD_HELLO \/ b[1] = CMD_SETSTATION \/ b[1] = CMD_REQUEST
      /\ b[1] = CMD_HELLO <=> ~shaken
      /\ b[1] = CMD_SETSTATION => NumberOf(line) = b[2] * 256 + b[3]
      /\ b[1] = CMD_REQUEST => ByteOf(line, 2) \in 0..2
  BY <1>1, ServedLine
<1>5. Bytes' = d
  <2>1. LineLength + 2 = k + 1
    BY <1>4
  <2>2. SubSeq(to_server, LineLength + 2, Len(to_server)) \o sending
          = SubSeq(Bytes, LineLength + 2, Len(Bytes))
    BY <1>1, ServedLine
  <2> QED
    BY <1>1, <2>1, <2>2 DEF Bytes
<1>6. /\ UNCHANGED conn
      /\ \/ b[1] = CMD_HELLO /\ AnswerHello
         \/ b[1] = CMD_SETSTATION /\ Set(NumberOf(line)) /\ UNCHANGED shaken
         \/ b[1] = CMD_REQUEST /\ Request(ByteOf(line, 2)) /\ UNCHANGED shaken
  <2>1. \/ line[1] = CMD_HELLO /\ AnswerHello
        \/ line[1] = CMD_SETSTATION /\ Set(NumberOf(line)) /\ UNCHANGED shaken
        \/ line[1] = CMD_REQUEST /\ Request(ByteOf(line, 2)) /\ UNCHANGED shaken
        \/ line[1] > CMD_REQUEST
    BY <1>4 DEF ServeLine
  <2>2. ~(line[1] > CMD_REQUEST)
    BY <1>4 DEF CMD_HELLO, CMD_SETSTATION, CMD_REQUEST
  <2>3. UNCHANGED conn
    BY <1>4 DEF ServeLine
  <2> QED
    BY <1>4, <2>1, <2>2, <2>3
<1> HIDE DEF line
<1>7. ASSUME NEW msg \in Messages, b[1] \in Answers(msg),
             msg.text = "SetConfirmed" => b[1] = CMD_SETSTATION /\ msg.num = b[2] * 256 + b[3]
      PROVE  In(Append(to_client, msg)) /\ In(Append(Append(to_client, msg), News))
  <2>1. \A m \in 1..(k - 1) : b[m] # NL
    BY <1>4
  <2> HIDE DEF k
  <2>2. In(Append(to_client, msg))
    BY <1>2, <1>3, <1>4, <1>7, <2>1, StepServe
  <2>3. Append(to_client, msg) \in Seq(Messages)
    BY <1>3, <1>7
  <2>4. News \in Messages /\ Answers(News) = {}
    BY MessageTypes, MessageAnswers
  <2> HIDE DEF d
  <2>5. In(Append(Append(to_client, msg), News))
    BY <2>2, <2>3, <2>4, StepNews
  <2> QED
    BY <2>2, <2>5
<1> HIDE DEF b, d, k
<1>8. ASSUME NEW r \in Messages, NEW n \in Nat, NEW texts \in [1..n -> Sizes],
             to_client' = to_client \o <<r>> \o Announced(texts)
      PROVE  to_client' = Append(Append(to_client, r), News)
  <2>1. to_client \o <<r>> \in Seq(Messages) /\ to_client \o <<r>> = Append(to_client, r)
    BY <1>3
  <2>2. Announced(texts) = <<News>>
    BY <1>8, <2>1, AnnouncedLines
  <2> HIDE DEF b, d, k, In
  <2>3. Append(to_client, r) \o <<News>> = Append(Append(to_client, r), News)
    BY <1>3
  <2> QED
    BY <1>8, <2>1, <2>2, <2>3
<1>9. \A r : to_client \o <<r>> = Append(to_client, r)
  BY <1>3
<1> HIDE DEF In
<1>10. In(to_client')
  <2>1. CASE b[1] = CMD_HELLO /\ AnswerHello
    <3>1. to_client' = Append(to_client, Welcome)
      BY <1>4, <2>1 DEF AnswerHello
    <3> QED
      BY <1>7, <2>1, <3>1, MessageTypes, MessageAnswers
  <2>2. CASE b[1] = CMD_SETSTATION /\ Set(NumberOf(line))
    <3> PICK texts \in [1..1 -> Sizes] : AnswerSet(NumberOf(line), texts)
      BY <2>2
    <3>1. shaken
      BY <1>4, <2>2 DEF CMD_HELLO, CMD_SETSTATION
    <3>2. CASE NumberOf(line) \in Ids
      <4> DEFINE r == Confirm("SetConfirmed", NumberOf(line))
      <4>1. to_client' = to_client \o <<r>> \o Announced(texts)
        BY <2>2, <3>1, <3>2 DEF AnswerSet
      <4>2. NumberOf(line) \in Nat
        <5>1. \A i \in Ids : i \in Nat
          BY ControlAssumption
        <5> QED
          BY <3>2, <5>1
      <4>3. r \in Messages
        BY <4>2, MessageTypes
      <4>4. CMD_SETSTATION \in Answers(r) /\ r.num = NumberOf(line)
        BY MessageAnswers
      <4>5. r.num = b[2] * 256 + b[3]
        BY <1>4, <2>2, <4>4
      <4> HIDE DEF r
      <4>6. In(Append(Append(to_client, r), News))
        BY <1>7, <2>2, <4>3, <4>4, <4>5
      <4> QED
        BY <1>8, <4>1, <4>3, <4>6
    <3>3. CASE NumberOf(line) \notin Ids
      <4>1. to_client' = to_client \o <<Invalid>>
        BY <2>2, <3>1, <3>3 DEF AnswerSet
      <4>2. b[1] \in Commands
        BY <2>2 DEF Commands
      <4>3. In(Append(to_client, Invalid))
        BY <1>7, <4>2, MessageTypes, MessageAnswers
      <4> QED
        BY <1>9, <4>1, <4>3
    <3> QED
      BY <3>2, <3>3
  <2>3. CASE b[1] = CMD_REQUEST /\ Request(ByteOf(line, 2))
    <3> PICK texts \in [1..MaxSongs -> Sizes] : AnswerRequest(ByteOf(line, 2), texts)
      BY <2>3
    <3> DEFINE r == Confirm("RequestConfirmed", None)
    <3>1. shaken /\ ByteOf(line, 2) \in 0..2 /\ b[1] \in Commands
      BY <1>4, <2>3 DEF CMD_HELLO, CMD_REQUEST, Commands
    <3>2. \/ to_client' = to_client \o <<r>> \o Announced(texts)
          \/ to_client' = to_client \o (<<r>> \o Announced(texts))
          \/ to_client' = to_client \o <<Invalid>>
      BY <3>1 DEF AnswerRequest, TYPE_ALL_STATION
    <3>3. r \in Messages /\ b[1] \in Answers(r) /\ r.text # "SetConfirmed"
      BY <2>3, MessageTypes, MessageAnswers
    <3> HIDE DEF r
    <3>4. In(Append(Append(to_client, r), News))
      BY <1>7, <3>3
    <3>5. In(Append(to_client, Invalid))
      BY <1>7, <3>1, MessageTypes, MessageAnswers
    <3>6. /\ MaxSongs \in Nat
          /\ to_client \o (<<r>> \o Announced(texts)) = to_client \o <<r>> \o Announced(texts)
      <4>1. MaxSongs \in Nat
        BY ControlAssumption
      <4>2. Announced(texts) \in Seq(Messages)
        BY <4>1, AnnouncedLines
      <4> QED
        BY <1>3, <3>3, <4>1, <4>2
    <3> QED
      BY <1>8, <1>9, <3>2, <3>3, <3>4, <3>5, <3>6
  <2> QED
    BY <1>6, <2>1, <2>2, <2>3
<1>11. HelloOK'
  <2>1. shaken'
    BY <1>4, <1>6 DEF AnswerHello, CMD_HELLO, CMD_SETSTATION, CMD_REQUEST
  <2>2. k \in 0..Len(Bytes) /\ Bytes \in Seq(0..255)
    BY <1>4 DEF b
  <2>3. /\ Len(d) = Len(Bytes) - k /\ Len(Bytes) \in Nat
        /\ \A n \in 1..(Len(Bytes) - k) : d[n] = Bytes[n + k]
    BY <2>2, Suffix DEF d
  <2>4. ASSUME NEW n \in Lines(d), d[n] = CMD_HELLO
        PROVE  FALSE
    <3>1. n \in 1..(Len(Bytes) - k) /\ (n = 1 \/ d[n - 1] = NL)
      BY <2>3 DEF Lines
    <3>2. n + k \in 1..Len(Bytes) /\ n + k # 1
      BY <1>4, <2>2, <2>3, <3>1 DEF b
    <3>3. Bytes[(n + k) - 1] = NL
      <4>1. CASE n = 1
        <5>1. (n + k) - 1 = k
          BY <2>2, <4>1
        <5> QED
          BY <1>4, <5>1 DEF b
      <4>2. CASE n # 1
        <5>1. n - 1 \in 1..(Len(Bytes) - k) /\ (n - 1) + k = (n + k) - 1
          BY <2>2, <2>3, <3>1, <4>2
        <5> QED
          BY <2>3, <3>1, <4>2, <5>1
      <4> QED
        BY <4>1, <4>2
    <3>4. n + k \in Lines(Bytes)
      <4>1. \A m \in 1..Len(Bytes) : Bytes[m - 1] = NL => m \in Lines(Bytes)
        BY DEF Lines
      <4> QED
        BY <3>2, <3>3, <4>1
    <3>5. Bytes[n + k] = CMD_HELLO
      BY <2>3, <2>4, <3>1
    <3> QED
      BY <1>2, <3>2, <3>4, <3>5 DEF HelloOK
  <2> QED
    BY <1>5, <2>1, <2>4 DEF HelloOK
<1>12. InStep(g_cmd_queue, asked, to_client', d)
  BY <1>10 DEF In
<1> QED
  BY <1>1, <1>5, <1>6, <1>11, <1>12

\* Every step keeps the queue in step with the connection.
LEMMA NextSync == Typed /\ Sync /\ [Next]_vars => Sync'
<1> SUFFICES ASSUME Typed, Sync, [Next]_vars PROVE Sync'
  OBVIOUS
<1>1. CASE Leave
  <2>1. conn = "closed" /\ UNCHANGED split
    BY <1>1 DEF Leave
  <2> QED
    BY <2>1 DEF Sync
<1>2. CASE UNCHANGED vars
  <2>1. UNCHANGED <<g_cmd_queue, asked, sending, split, shaken, conn, to_server, to_client>>
    BY <1>2 DEF vars, clientVars, serverVars
  <2>2. Bytes' = Bytes
    BY <2>1 DEF Bytes
  <2> QED
    BY <2>1, <2>2 DEF Sync, HelloOK
<1> QED
  BY <1>1, <1>2, TypeSync, SendAllSync, ServeSync, NewsSync, ReceiveSync DEF Next

\* The invariant of the proof holds in every reachable state.
LEMMA AlwaysInStep == Spec => [](Typed /\ Sync)
<1>1. Init => Typed /\ Sync
  BY InitTyped, InitSync
<1>2. Typed /\ Sync /\ [Next]_vars => (Typed /\ Sync)'
  BY NextTyped, NextSync
<1> QED
  BY <1>1, <1>2, PTL DEF Spec

\* For any numbers, ports, stations and songs: as long as neither side writes a
\* newline inside a message, the replies on their way answer the first pending
\* commands in order and the lines on their way are the others, so that
\* receiver_parser always removes the command its message answers.
THEOREM QueueStaysInStep == Spec => []QueueInStep
<1>1. Typed /\ Sync => QueueInStep
  <2> SUFFICES ASSUME Typed, Sync PROVE QueueInStep
    OBVIOUS
  <2>1. TypeOK
    BY DEF Typed
  <2>2. Replies = RepliesIn(to_client) /\ Bytes = to_server \o sending
    BY DEF Replies, RepliesIn, Bytes
  <2>3. ASSUME ~split
        PROVE  /\ Len(g_cmd_queue) = Cardinality(Replies) + Cardinality(Lines(Bytes))
               /\ \A n \in Replies : g_cmd_queue[Rank(Replies, n)] \in Answers(to_client[n])
               /\ \A n \in Lines(Bytes) :
                    g_cmd_queue[Cardinality(Replies) + Rank(Lines(Bytes), n)] = Bytes[n]
    <3>1. InStep(g_cmd_queue, asked, to_client, Bytes)
      BY <2>3 DEF Sync
    <3>2. /\ Len(g_cmd_queue) = Cardinality(Replies) + Cardinality(Lines(Bytes))
          /\ \A n \in Replies :
               ReplyOK(g_cmd_queue, asked, to_client[n], Rank(Replies, n))
          /\ \A n \in Lines(Bytes) :
               LineOK(g_cmd_queue, asked, Bytes, n,
                      Cardinality(Replies) + Rank(Lines(Bytes), n))
      BY <2>2, <3>1, Zenon DEF InStep
    <3>3. ASSUME NEW n \in Replies
          PROVE  g_cmd_queue[Rank(Replies, n)] \in Answers(to_client[n])
      BY <3>2 DEF ReplyOK
    <3>4. ASSUME NEW n \in Lines(Bytes)
          PROVE  g_cmd_queue[Cardinality(Replies) + Rank(Lines(Bytes), n)] = Bytes[n]
      <4> DEFINE i == Cardinality(Replies) + Rank(Lines(Bytes), n)
      <4>1. LineOK(g_cmd_queue, asked, Bytes, n, i)
        BY <3>2
      <4> HIDE DEF i
      <4>2. g_cmd_queue[i] = Bytes[n]
        BY <4>1 DEF LineOK
      <4> QED
        BY <4>2 DEF i
    <3> QED
      BY <3>2, <3>3, <3>4
  <2> QED
    BY <2>1, <2>2, <2>3 DEF QueueInStep
<1> QED
  BY <1>1, AlwaysInStep, PTL

\* And the station a client is told it got is the one, modulo 65536, that it
\* asked for with the command at that place of the queue.
THEOREM ConfirmationsAsAsked == Spec => []ConfirmedAsAsked
<1>1. Typed /\ Sync => ConfirmedAsAsked
  <2> SUFFICES ASSUME Typed, Sync, NEW n \in Replies, ~split,
                      to_client[n].text = "SetConfirmed"
               PROVE  /\ Rank(Replies, n) <= Len(asked)
                      /\ to_client[n].num = asked[Rank(Replies, n)] % 65536
    BY DEF ConfirmedAsAsked
  <2> DEFINE R == RepliesIn(to_client)
             L == Lines(Bytes)
  <2>1. Replies = R
    BY DEF Replies, RepliesIn
  <2>2. to_client \in Seq(Messages) /\ Bytes \in Seq(0..255) /\ Len(asked) = Len(g_cmd_queue)
    BY DEF Typed, TypeOK, Bytes
  <2>3. Places(R) /\ Places(L)
    BY <2>2, PlacesOf
  <2>4. InStep(g_cmd_queue, asked, to_client, Bytes)
    BY DEF Sync
  <2>5. Len(g_cmd_queue) = Cardinality(R) + Cardinality(L)
    BY <2>4 DEF InStep
  <2>6. ReplyOK(g_cmd_queue, asked, to_client[n], Rank(R, n))
    BY <2>1, <2>4 DEF InStep
  <2> HIDE DEF R, L
  <2>7. Cardinality(R) \in Nat /\ Cardinality(L) \in Nat /\ Rank(R, n) \in 1..Cardinality(R)
    BY <2>1, <2>3, RankType
  <2>8. Rank(R, n) <= Len(asked)
    BY <2>2, <2>5, <2>7
  <2>9. to_client[n].num = asked[Rank(R, n)] % 65536
    BY <2>6 DEF ReplyOK
  <2> QED
    BY <2>1, <2>8, <2>9
<1> QED
  BY <1>1, AlwaysInStep, PTL

=============================================================================
