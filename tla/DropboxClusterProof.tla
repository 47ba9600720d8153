------------------------- MODULE DropboxClusterProof -------------------------
(* Proofs about the master and the file servers of the Dropbox sample.       *)
EXTENDS DropboxCluster, LeastNumbers, SequenceTheorems, TLAPS

-----------------------------------------------------------------------------
(* Types.                                                                    *)

\* None is no server, name, password, node, thread or answer.
LEMMA NoneIsNone ==
  /\ None \notin Servers /\ None \notin Names /\ None \notin Pwds /\ None \notin Nodes
  /\ None \notin Accepts /\ None \notin {"CFM", "ERM", "BAD", "STAT"}
  BY MasterAssumption

\* findFileServer returns a listed node that has the id, or none.
LEMMA FindFacts ==
  ASSUME fsnodes \in Seq(Nodes), NEW id, findFileServer(id) # None
  PROVE  findFileServer(id) \in Nodes /\ node[findFileServer(id)].id = id
<1> DEFINE at == {i \in 1..Len(fsnodes) : node[fsnodes[i]].id = id}
<1>1. at # {}
  BY DEF findFileServer, SelectInSeq
<1>2. PICK i \in at : \A j \in at : i <= j
  <2>1. at \in SUBSET Nat
    OBVIOUS
  <2> QED
    BY <1>1, <2>1, LeastNumber
<1>3. Min(at) \in at
  BY <1>2 DEF Min
<1>4. SelectInSeq(fsnodes, LAMBDA n : node[n].id = id) = Min(at)
  BY <1>1 DEF SelectInSeq
<1>5. Min(at) # 0 /\ findFileServer(id) = fsnodes[Min(at)]
  BY <1>3, <1>4 DEF findFileServer
<1> HIDE DEF at
<1>6. Min(at) \in 1..Len(fsnodes) /\ node[fsnodes[Min(at)]].id = id
  BY <1>3 DEF at
<1> QED
  BY <1>5, <1>6

\* What is kept of a list of nodes is a list of nodes.
LEMMA KeepType ==
  ASSUME fsnodes \in Seq(Nodes), NEW set
  PROVE  Keep(set) \in Seq(Nodes)
<1> DEFINE max == Len(fsnodes)
           More(q, i) == IF fsnodes[i] \in set THEN Append(q, fsnodes[i]) ELSE q
           Good(f, k) == f = [i \in 0..k |-> IF i = 0 THEN <<>> ELSE More(f[i - 1], i)]
           bad == {k \in Nat : ~ \E f : Good(f, k)}
<1>0. max \in Nat
  OBVIOUS
<1>1. bad = {}
  <2> SUFFICES ASSUME bad # {} PROVE FALSE
    OBVIOUS
  <2>1. PICK k \in bad : \A m \in bad : k <= m
    BY LeastNumber
  <2>2. k # 0
    <3>1. Good([i \in 0..0 |-> <<>>], 0)
      OBVIOUS
    <3> QED
      BY <2>1, <3>1
  <2> HIDE DEF More
  <2>3. PICK f : Good(f, k - 1)
    <3>1. k - 1 \in Nat /\ k - 1 \notin bad
      BY <2>1, <2>2
    <3> QED
      BY <3>1
  <2> DEFINE g == [i \in 0..k |-> IF i = k THEN More(f[k - 1], k) ELSE f[i]]
  <2>4. Good(g, k)
    <3>1. k \in Nat /\ k # 0
      BY <2>1, <2>2
    <3>2. \A i \in 0..(k - 1) : g[i] = f[i]
      BY <3>1
    <3>3. g[k] = More(f[k - 1], k)
      BY <3>1
    <3>4. ASSUME NEW i \in 0..k
          PROVE  g[i] = IF i = 0 THEN <<>> ELSE More(g[i - 1], i)
      <4> HIDE DEF g
      <4>1. CASE i = k
        <5>1. k - 1 \in 0..(k - 1)
          BY <3>1
        <5>2. g[k - 1] = f[k - 1]
          BY <3>2, <5>1
        <5> QED
          BY <3>1, <3>3, <4>1, <5>2
      <4>2. CASE i # k
        <5>1. i \in 0..(k - 1)
          BY <3>1, <4>2
        <5>2. f[i] = IF i = 0 THEN <<>> ELSE More(f[i - 1], i)
          BY <2>3, <5>1
        <5>3. i # 0 => i - 1 \in 0..(k - 1)
          BY <3>1, <5>1
        <5> QED
          BY <3>2, <5>1, <5>2, <5>3
      <4> QED
        BY <4>1, <4>2
    <3> QED
      BY <3>4, Zenon
  <2> QED
    BY <2>1, <2>4
<1>2. \E f : Good(f, max)
  BY <1>0, <1>1
<1>3. PICK f : Good(f, max) /\ Keep(set) = f[max]
  BY <1>2 DEF Keep
<1> DEFINE odd == {i \in 0..max : f[i] \notin Seq(Nodes)}
<1>4. odd = {}
  <2> SUFFICES ASSUME odd # {} PROVE FALSE
    OBVIOUS
  <2>1. odd \in SUBSET Nat
    BY <1>0
  <2>2. PICK k \in odd : \A m \in odd : k <= m
    BY <2>1, LeastNumber
  <2>3. k # 0
    BY <1>3, <2>2
  <2>4. k - 1 \in 0..max /\ f[k - 1] \in Seq(Nodes) /\ k \in 1..max
    BY <1>0, <2>2, <2>3
  <2>5. fsnodes[k] \in Nodes /\ f[k] = More(f[k - 1], k)
    <3> HIDE DEF More
    <3>1. \A i \in 0..max : f[i] = IF i = 0 THEN <<>> ELSE More(f[i - 1], i)
      BY <1>3
    <3> QED
      BY <2>2, <2>3, <2>4, <3>1
  <2>6. f[k] \in Seq(Nodes)
    BY <2>4, <2>5
  <2> QED
    BY <2>2, <2>6
<1>5. max \in 0..max
  BY <1>0
<1> QED
  BY <1>3, <1>4, <1>5

\* The threads of the master have the nodes they work for, ClusterNet's thread
\* the line it parses, and a user's command its arguments.
AcceptsOK ==
  \A a \in Accepts : IF accept[a].pc = "none" THEN accept[a] = NoAccept
                     ELSE accept[a].node \in Nodes

ListenOK ==
  /\ lst.pc \in {"find", "add", "set", "start"} => lst.msg \in Lines /\ lst.msg.kind # "EOF"
  /\ lst.pc \in {"add", "set", "start"} => lst.node \in Nodes
  /\ lst.pc = "add" => lst.msg.kind = "IDF" /\ \A c \in lst.todo : lst.msg.entries[c] # None
  /\ lst.pc = "set" => lst.msg.kind = "USR"

UsersOK ==
  \A s \in Servers :
    /\ srv[s].user \in {"made", "adding", "removing", "changing", "local"}
       => srv[s].arg \in Names
    /\ srv[s].user \in {"made", "changing"} => srv[s].old \in Pwds

WellTyped == TypeOK /\ AcceptsOK /\ ListenOK /\ UsersOK

LEMMA NoneTyped ==
  /\ NoNode \in NodeStates /\ NoAccept \in AcceptStates /\ Idle \in ListenStates
  /\ [Idle EXCEPT !.pc = "stopped"] \in ListenStates /\ NoClients \in Clients
<1>1. NoClients \in Clients
  BY DEF NoClients, Clients
<1>2. NoNode \in NodeStates
  BY DEF NoNode, NodeStates, Peers
<1>3. NoAccept \in AcceptStates
  BY DEF NoAccept, AcceptStates, Peers
<1>4. Idle \in ListenStates /\ [Idle EXCEPT !.pc = "stopped"] \in ListenStates
  BY DEF Idle, ListenStates
<1> QED
  BY <1>1, <1>2, <1>3, <1>4

LEMMA InitTyped == Init => WellTyped
<1> SUFFICES ASSUME Init PROVE WellTyped
  OBVIOUS
<1>1. TypeOK
  <2>1. Off(NoClients, [c \in Names |-> "no"]) \in ServerStates
    BY NoneTyped, ServerAssumption DEF Off, ServerStates
  <2> QED
    BY <2>1, NoneTyped DEF Init, MasterInit, ServerInit, TypeOK
<1>2. AcceptsOK /\ ListenOK
  BY DEF Init, MasterInit, AcceptsOK, ListenOK, NoAccept, Idle
<1>3. UsersOK
  BY DEF Init, ServerInit, UsersOK, Off
<1> QED
  BY <1>1, <1>2, <1>3 DEF WellTyped

\* No thread can be stopped again.
LEMMA StoppedNoAccept == [NoAccept EXCEPT !.t = FALSE] = NoAccept
<1> DEFINE x == [NoAccept EXCEPT !.t = FALSE]
           fields == {"pc", "t", "node", "peer", "in"}
<1>1. x = [f \in fields |-> x[f]]
  BY DEF NoAccept
<1>2. NoAccept = [f \in fields |-> NoAccept[f]]
  BY DEF NoAccept
<1>3. \A f \in fields : f # "t" => x[f] = NoAccept[f]
  BY DEF NoAccept
<1>4. x["t"] = NoAccept["t"]
  BY Zenon DEF NoAccept
<1> HIDE DEF x
<1>5. \A f \in fields : x[f] = NoAccept[f]
  BY <1>3, <1>4, Zenon
<1> HIDE DEF fields
<1>6. [f \in fields |-> x[f]] = [f \in fields |-> NoAccept[f]]
  BY <1>5, Zenon
<1> QED
  BY <1>1, <1>2, <1>6, Zenon DEF x

\* destroy changes neither the threads' places nor whose node it is.
LEMMA DestroyFacts ==
  ASSUME WellTyped, NEW n \in Nodes
  PROVE  /\ DestroyedNode(n) \in NodeStates
         /\ DestroyedNode(n).of = node[n].of /\ DestroyedNode(n).id = node[n].id
         /\ DestroyedNode(n).pc = node[n].pc
         /\ ~DestroyedNode(n).alive => ~node[n].alive \/ ~DestroyThrows(n)
         /\ DestroyedAccept(n) \in [Accepts -> AcceptStates]
         /\ \A a \in Accepts : DestroyedAccept(n)[a] = accept[a]
                               \/ DestroyedAccept(n)[a] = [accept[a] EXCEPT !.t = FALSE]
         /\ \A a \in Accepts : accept[a].pc = "none" => DestroyedAccept(n)[a] = NoAccept
<1> USE DEF WellTyped, TypeOK
<1>1. node[n] \in NodeStates
  OBVIOUS
<1>2. /\ DestroyedNode(n) \in NodeStates
      /\ DestroyedNode(n).of = node[n].of /\ DestroyedNode(n).id = node[n].id
      /\ DestroyedNode(n).pc = node[n].pc
      /\ ~DestroyedNode(n).alive => ~node[n].alive \/ ~DestroyThrows(n)
  BY <1>1 DEF DestroyedNode, NodeStates, Peers
<1>3. \A a \in Accepts : [accept[a] EXCEPT !.t = FALSE] \in AcceptStates
  BY DEF AcceptStates
<1>4. /\ DestroyedAccept(n) \in [Accepts -> AcceptStates]
      /\ \A a \in Accepts : DestroyedAccept(n)[a] = accept[a]
                            \/ DestroyedAccept(n)[a] = [accept[a] EXCEPT !.t = FALSE]
  BY <1>3 DEF DestroyedAccept
<1>5. \A a \in Accepts : accept[a].pc = "none" => DestroyedAccept(n)[a] = NoAccept
  <2>1. \A a \in Accepts : accept[a].pc = "none" => accept[a] = NoAccept
    BY DEF AcceptsOK
  <2> QED
    BY <1>4, <2>1, StoppedNoAccept
<1> QED
  BY <1>2, <1>4, <1>5

\* A node that is collected is nobody's.
LEMMA CollectFacts ==
  ASSUME NEW nd \in [Nodes -> NodeStates]
  PROVE  /\ Collected(nd) \in [Nodes -> NodeStates]
         /\ \A n \in Nodes :
              \/ Collected(nd)[n] = nd[n]
              \/ /\ Collected(nd)[n] = NoNode /\ lst.node # n /\ nd[n].pc \in {"none", "end"}
                 /\ \A r \in records' : r.owner # n
                 /\ \A a \in Accepts : accept'[a].node # n
<1>1. \A n \in Nodes :
        \/ Collected(nd)[n] = nd[n]
        \/ /\ Collected(nd)[n] = NoNode /\ lst.node # n /\ nd[n].pc \in {"none", "end"}
           /\ \A r \in records' : r.owner # n
           /\ \A a \in Accepts : accept'[a].node # n
  BY DEF Collected
<1>2. Collected(nd) = [n \in Nodes |-> Collected(nd)[n]]
  BY DEF Collected
<1>3. \A n \in Nodes : Collected(nd)[n] \in NodeStates
  BY <1>1, NoneTyped
<1>4. Collected(nd) \in [Nodes -> NodeStates]
  BY <1>2, <1>3
<1> QED
  BY <1>1, <1>4

\* An answer of the master changes nothing else in a server.
Answers == {None, "CFM", "ERM", "BAD", "STAT"}

LEMMA ReplyFacts ==
  ASSUME WellTyped, NEW p \in Peers, NEW r \in Answers
  PROVE  /\ Reply(p, r) \in [Servers -> ServerStates]
         /\ \A s \in Servers : Reply(p, r)[s] = IF s = p THEN [srv[s] EXCEPT !.reply = r]
                                              ELSE srv[s]
<1>1. \A s \in Servers : [srv[s] EXCEPT !.reply = r] \in ServerStates
  <2> SUFFICES ASSUME NEW s \in Servers PROVE [srv[s] EXCEPT !.reply = r] \in ServerStates
    OBVIOUS
  <2>1. srv[s] \in ServerStates
    BY DEF WellTyped, TypeOK
  <2> QED
    BY <2>1 DEF ServerStates, Answers
<1>2. CASE p = None
  BY <1>2, NoneIsNone DEF WellTyped, TypeOK, Reply
<1>3. CASE p \in Servers
  <2>1. Reply(p, r) = [srv EXCEPT ![p] = [srv[p] EXCEPT !.reply = r]]
    BY <1>3, NoneIsNone DEF Reply
  <2>2. srv \in [Servers -> ServerStates]
    BY DEF WellTyped, TypeOK
  <2> QED
    BY <1>1, <1>3, <2>1, <2>2
<1> QED
  BY <1>2, <1>3 DEF Peers

LEMMA ReplyUsers ==
  ASSUME WellTyped, NEW p \in Peers, NEW r \in Answers, srv' = Reply(p, r)
  PROVE  UsersOK'
<1> SUFFICES ASSUME NEW s \in Servers
             PROVE  /\ srv'[s].user = srv[s].user /\ srv'[s].arg = srv[s].arg
                    /\ srv'[s].old = srv[s].old
  BY DEF WellTyped, UsersOK
<1>1. srv'[s] = srv[s] \/ srv'[s] = [srv[s] EXCEPT !.reply = r]
  BY ReplyFacts
<1>2. srv[s] \in ServerStates
  BY DEF WellTyped, TypeOK
<1> QED
  BY <1>1, <1>2 DEF ServerStates

\* A step of the master's threads that leaves the thread of ClusterNet and the
\* connections that wait alone, and the servers but for an answer.
LEMMA QuietTyped ==
  ASSUME WellTyped, UNCHANGED <<backlog, lost>>, fsnodes' \in Seq(Nodes),
         records' \subseteq [name : Names, pwd : Pwds, owner : Nodes], stolen' \subseteq Names,
         node' \in [Nodes -> NodeStates], accept' \in [Accepts -> AcceptStates], AcceptsOK',
         \/ UNCHANGED srv
         \/ \E p \in Peers, r \in Answers : srv' = Reply(p, r),
         \/ UNCHANGED lst
         \/ \E b \in BOOLEAN : lst' = [lst EXCEPT !.changed = b]
  PROVE  WellTyped'
<1>1. /\ lst' \in ListenStates /\ lst'.pc = lst.pc /\ lst'.msg = lst.msg
      /\ lst'.node = lst.node /\ lst'.todo = lst.todo
  BY DEF WellTyped, TypeOK, ListenStates
<1>2. srv' \in [Servers -> ServerStates] /\ UsersOK'
  <2>1. CASE UNCHANGED srv
    BY <2>1 DEF WellTyped, TypeOK, UsersOK
  <2>2. CASE \E p \in Peers, r \in Answers : srv' = Reply(p, r)
    BY <2>2, ReplyFacts, ReplyUsers
  <2> QED
    BY <2>1, <2>2
<1>3. TypeOK'
  BY <1>1, <1>2 DEF WellTyped, TypeOK
<1>4. ListenOK'
  BY <1>1 DEF WellTyped, ListenOK
<1> QED
  BY <1>2, <1>3, <1>4 DEF WellTyped

LEMMA RequestTyped ==
  ASSUME WellTyped, NEW n \in Nodes,
         RequestBeat(n) \/ RequestAnswer(n) \/ RequestClear(n) \/ RequestDestroy(n)
         \/ RequestRemove(n)
  PROVE  WellTyped'
<1> USE DEF WellTyped, TypeOK
<1>1. node[n] \in NodeStates /\ \A pc : [node[n] EXCEPT !.pc = pc].alive = node[n].alive
  BY DEF NodeStates
<1>2. CASE RequestBeat(n) \/ RequestAnswer(n) \/ RequestClear(n)
  <2>1. UNCHANGED <<records, fsnodes, accept, lst, backlog, lost, stolen, echo, srv>>
    BY <1>2 DEF RequestBeat, RequestAnswer, RequestClear
  <2>2. \E v \in NodeStates : node' = [node EXCEPT ![n] = v]
    <3>1. \A pc \in {"wait", "sleep", "clear"} : [node[n] EXCEPT !.pc = pc] \in NodeStates
      BY <1>1 DEF NodeStates
    <3>2. \A pc \in {"destroy", "remove"} :
            [node[n] EXCEPT !.peer = None, !.pc = pc] \in NodeStates
      BY <1>1 DEF NodeStates, Peers
    <3>3. CASE RequestBeat(n) \/ RequestAnswer(n)
      BY <1>1, <3>1, <3>3 DEF RequestBeat, RequestAnswer, SetPc
    <3>4. CASE RequestClear(n)
      BY <1>1, <3>2, <3>4 DEF RequestClear
    <3> QED
      BY <1>2, <3>3, <3>4
  <2>3. node' \in [Nodes -> NodeStates]
    BY <2>2
  <2>4. AcceptsOK'
    BY <2>1 DEF AcceptsOK
  <2> QED
    BY <2>1, <2>3, <2>4, QuietTyped
<1>3. CASE RequestDestroy(n)
  <2> DEFINE v == [DestroyedNode(n) EXCEPT !.pc = IF DestroyThrows(n) THEN "end" ELSE "remove"]
             nd == [node EXCEPT ![n] = v]
  <2>1. /\ accept' = DestroyedAccept(n) /\ node' = Collected(nd)
        /\ UNCHANGED <<records, fsnodes, lst, backlog, lost, stolen, srv>>
    BY <1>3 DEF RequestDestroy
  <2>2. v \in NodeStates
    BY DestroyFacts DEF NodeStates
  <2> HIDE DEF v
  <2>3. nd \in [Nodes -> NodeStates]
    BY <2>2
  <2>4. node' \in [Nodes -> NodeStates]
    BY <2>1, <2>3, CollectFacts
  <2>5. AcceptsOK'
    <3> SUFFICES ASSUME NEW a \in Accepts
                 PROVE  IF accept'[a].pc = "none" THEN accept'[a] = NoAccept
                        ELSE accept'[a].node \in Nodes
      BY DEF AcceptsOK
    <3>1. /\ accept'[a] = accept[a] \/ accept'[a] = [accept[a] EXCEPT !.t = FALSE]
          /\ accept[a].pc = "none" => accept'[a] = NoAccept
      BY <2>1, DestroyFacts
    <3>2. accept'[a].pc = accept[a].pc /\ accept'[a].node = accept[a].node
      BY <3>1 DEF AcceptStates
    <3> QED
      BY <3>1, <3>2 DEF AcceptsOK
  <2> QED
    BY <2>1, <2>4, <2>5, DestroyFacts, QuietTyped
<1>4. CASE RequestRemove(n)
  <2> DEFINE v == [node[n] EXCEPT !.pc = "end"]
             nd == [node EXCEPT ![n] = v]
  <2>1. /\ node' = Collected(nd) /\ removeDead(n) /\ Disturb
        /\ UNCHANGED <<accept, backlog, lost, stolen, srv>>
    BY <1>4 DEF RequestRemove
  <2>2. v \in NodeStates
    BY <1>1 DEF NodeStates
  <2> HIDE DEF v
  <2>3. node' \in [Nodes -> NodeStates]
    BY <2>1, <2>2, CollectFacts
  <2>4. AcceptsOK'
    BY <2>1 DEF AcceptsOK
  <2>5. records' \subseteq records /\ fsnodes' \in Seq(Nodes)
    BY <2>1, KeepType DEF removeDead
  <2>6. \E b \in BOOLEAN : lst' = [lst EXCEPT !.changed = b]
    BY <2>1 DEF Disturb, ListenStates
  <2> QED
    BY <2>1, <2>3, <2>4, <2>5, <2>6, QuietTyped
<1> QED
  BY <1>2, <1>3, <1>4

\* The Accept threads stay in place when one of them changes its state.
LEMMA AcceptsTyped ==
  ASSUME WellTyped, NEW f \in [Accepts -> AcceptStates], NEW b \in Accepts, NEW v \in AcceptStates,
         \A a \in Accepts : accept[a].pc = "none" => f[a] = NoAccept,
         \A a \in Accepts : f[a] = accept[a] \/ f[a] = [accept[a] EXCEPT !.t = FALSE],
         v = NoAccept \/ (v.pc # "none" /\ v.node \in Nodes),
         accept' = [f EXCEPT ![b] = v]
  PROVE  AcceptsOK' /\ accept' \in [Accepts -> AcceptStates]
<1> SUFFICES ASSUME NEW a \in Accepts
             PROVE  IF accept'[a].pc = "none" THEN accept'[a] = NoAccept
                    ELSE accept'[a].node \in Nodes
  BY DEF AcceptsOK
<1>1. CASE a = b
  BY <1>1 DEF NoAccept
<1>2. CASE a # b
  <2>1. accept'[a] = f[a]
    BY <1>2
  <2>2. f[a].pc = accept[a].pc /\ f[a].node = accept[a].node
    BY DEF WellTyped, TypeOK, AcceptStates
  <2> QED
    BY <2>1, <2>2 DEF WellTyped, AcceptsOK
<1> QED
  BY <1>1, <1>2

\* The arguments of a command of a user.
LEMMA OrderFacts ==
  ASSUME NEW m \in Orders
  PROVE  /\ m.op \in {"ADD", "PWD"} => m.name \in Names /\ m.pwd \in Pwds
         /\ m.op = "RMV" => m.name \in Names
         /\ m.op \in {"ADD", "PWD", "RMV", "RFS", "CLS"}
  BY DEF Orders

LEMMA AcceptMessageTyped ==
  ASSUME WellTyped, NEW a \in Accepts, AcceptMessage(a)
  PROVE  WellTyped'
<1> USE DEF WellTyped, TypeOK
<1> DEFINE m == accept[a].in
           n == accept[a].node
           v(pc) == [accept[a] EXCEPT !.in = None, !.pc = pc]
           next == [accept EXCEPT ![a] = v(AfterMessage(a))]
<1>1. /\ accept[a] \in AcceptStates /\ accept[a].pc = "run" /\ n \in Nodes
      /\ accept[a].peer \in Peers /\ m \in Orders
  BY DEF AcceptMessage, AcceptStates, AcceptsOK
<1>2. \A pc \in {"run", "clear"} : v(pc) \in AcceptStates /\ v(pc).pc # "none" /\ v(pc).node \in Nodes
  BY <1>1 DEF AcceptStates
<1>3. AfterMessage(a) \in {"run", "clear"}
  BY DEF AfterMessage
<1>4. UNCHANGED <<fsnodes, lst, backlog, lost>>
  BY DEF AcceptMessage
<1>5. accept' = next => AcceptsOK' /\ accept' \in [Accepts -> AcceptStates]
  <2> HIDE DEF v
  <2> QED
    BY <1>2, <1>3, AcceptsTyped DEF AcceptsOK
<1>6. CASE m.op = "CLS"
  <2>1. /\ node' = [node EXCEPT ![n] = DestroyedNode(n)]
        /\ accept' = [DestroyedAccept(n) EXCEPT ![a] =
                        [DestroyedAccept(n)[a] EXCEPT !.in = None, !.pc = "clear"]]
        /\ UNCHANGED <<records, stolen, srv>>
    BY <1>6 DEF AcceptMessage
  <2>2. node' \in [Nodes -> NodeStates]
    BY <1>1, <2>1, DestroyFacts
  <2> DEFINE w == [DestroyedAccept(n)[a] EXCEPT !.in = None, !.pc = "clear"]
  <2>3. w \in AcceptStates /\ w.pc # "none" /\ w.node \in Nodes
    <3>1. DestroyedAccept(n)[a] \in AcceptStates /\ DestroyedAccept(n)[a].node = n
      <4>1. /\ DestroyedAccept(n)[a] \in AcceptStates
            /\ \/ DestroyedAccept(n)[a] = accept[a]
               \/ DestroyedAccept(n)[a] = [accept[a] EXCEPT !.t = FALSE]
        BY <1>1, DestroyFacts
      <4> QED
        BY <1>1, <4>1 DEF AcceptStates
    <3> QED
      BY <1>1, <3>1 DEF AcceptStates
  <2> HIDE DEF w
  <2>4. AcceptsOK' /\ accept' \in [Accepts -> AcceptStates]
    BY <1>1, <2>1, <2>3, DestroyFacts, AcceptsTyped DEF w
  <2> QED
    BY <1>4, <2>1, <2>2, <2>4, QuietTyped
<1>7. CASE m.op = "RFS"
  <2>1. accept' = next /\ srv' = Reply(accept[a].peer, "STAT") /\ UNCHANGED <<records, stolen, node>>
    BY <1>7 DEF AcceptMessage
  <2> HIDE DEF next
  <2> QED
    BY <1>1, <1>4, <1>5, <2>1, QuietTyped DEF Answers
<1>8. CASE m.op = "ADD"
  <2>1. /\ accept' = next /\ records' = addClient(m.name, m.pwd, n)
        /\ srv' = Reply(accept[a].peer, IF clientExist(m.name) THEN "ERM" ELSE "CFM")
        /\ UNCHANGED <<stolen, node>>
    BY <1>8 DEF AcceptMessage
  <2>2. records' \subseteq [name : Names, pwd : Pwds, owner : Nodes]
    BY <1>1, <1>8, <2>1, OrderFacts DEF addClient
  <2>3. \E r \in Answers : srv' = Reply(accept[a].peer, r)
    BY <2>1 DEF Answers
  <2> HIDE DEF next
  <2> QED
    BY <1>1, <1>4, <1>5, <2>1, <2>2, <2>3, QuietTyped
<1>9. CASE m.op \in {"RMV", "PWD"}
  <2> DEFINE foreign == {r.name : r \in {q \in records : q.name = m.name /\ q.owner # n}}
  <2>1. /\ accept' = next /\ stolen' = stolen \cup foreign /\ UNCHANGED node
        /\ records' = removeClient(m.name) \/ records' = changePassword(m.name, m.pwd)
        /\ m.op = "RMV" => records' = removeClient(m.name)
        /\ \E r \in {"CFM", "ERM", "BAD"} : srv' = Reply(accept[a].peer, r)
    BY <1>9 DEF AcceptMessage
  <2>2. records' \subseteq [name : Names, pwd : Pwds, owner : Nodes]
    <3>1. CASE m.op = "RMV"
      BY <2>1, <3>1 DEF removeClient
    <3>2. CASE m.op = "PWD"
      <4>1. m.pwd \in Pwds
        BY <1>1, <3>2, OrderFacts
      <4>2. \A r \in records : [r EXCEPT !.pwd = IF r.name = m.name THEN m.pwd ELSE r.pwd]
                               \in [name : Names, pwd : Pwds, owner : Nodes]
        BY <4>1
      <4> QED
        BY <2>1, <4>2 DEF removeClient, changePassword
    <3> QED
      BY <1>9, <3>1, <3>2
  <2>3. stolen' \subseteq Names
    BY <2>1
  <2>4. \E r \in Answers : srv' = Reply(accept[a].peer, r)
    BY <2>1 DEF Answers
  <2> HIDE DEF next
  <2> QED
    BY <1>1, <1>4, <1>5, <2>1, <2>2, <2>3, <2>4, QuietTyped
<1> QED
  BY <1>1, <1>6, <1>7, <1>8, <1>9, OrderFacts

LEMMA AcceptEndTyped ==
  ASSUME WellTyped, NEW a \in Accepts,
         AcceptEof(a) \/ AcceptClear(a) \/ AcceptDestroy(a) \/ AcceptRemove(a)
  PROVE  WellTyped'
<1> USE DEF WellTyped, TypeOK
<1>1. accept[a] \in AcceptStates /\ accept[a].pc # "none" /\ accept[a].node \in Nodes
  BY DEF AcceptStates, AcceptsOK, AcceptEof, AcceptClear, AcceptDestroy, AcceptRemove
<1> DEFINE n == accept[a].node
<1>2. CASE AcceptEof(a) \/ AcceptClear(a)
  <2>1. PICK pc \in {"clear", "destroy", "remove"}, p \in {accept[a].peer, None} :
          accept' = [accept EXCEPT ![a] = [accept[a] EXCEPT !.peer = p, !.pc = pc]]
    <3>1. CASE AcceptEof(a)
      <4>1. [accept[a] EXCEPT !.pc = "clear"] = [accept[a] EXCEPT !.peer = accept[a].peer, !.pc = "clear"]
        BY <1>1 DEF AcceptStates
      <4> QED
        BY <3>1, <4>1 DEF AcceptEof
    <3>2. CASE AcceptClear(a)
      BY <3>2 DEF AcceptClear
    <3> QED
      BY <1>2, <3>1, <3>2
  <2>2. UNCHANGED <<records, fsnodes, node, lst, backlog, lost, stolen, echo, srv>>
    BY <1>2 DEF AcceptEof, AcceptClear
  <2> DEFINE v == [accept[a] EXCEPT !.peer = p, !.pc = pc]
  <2>3. v \in AcceptStates /\ v.pc # "none" /\ v.node \in Nodes
    BY <1>1 DEF AcceptStates, Peers
  <2> HIDE DEF v
  <2>4. AcceptsOK' /\ accept' \in [Accepts -> AcceptStates]
    BY <2>1, <2>3, AcceptsTyped DEF v, AcceptsOK
  <2> QED
    BY <2>2, <2>4, QuietTyped
<1>3. CASE AcceptDestroy(a)
  <2> DEFINE v == IF DestroyThrows(n) THEN NoAccept
                  ELSE [accept[a] EXCEPT !.pc = "remove", !.t = FALSE]
             w == [DestroyedNode(n) EXCEPT !.fsa = IF @ = a THEN None ELSE @]
             nd == [node EXCEPT ![n] = w]
  <2>1. /\ accept' = [DestroyedAccept(n) EXCEPT ![a] = v] /\ node' = Collected(nd)
        /\ UNCHANGED <<records, fsnodes, lst, backlog, lost, stolen, srv>>
    BY <1>3 DEF AcceptDestroy
  <2>2. v \in AcceptStates /\ (v = NoAccept \/ (v.pc # "none" /\ v.node \in Nodes))
    BY <1>1, NoneTyped DEF AcceptStates
  <2>3. w \in NodeStates
    BY <1>1, DestroyFacts DEF NodeStates
  <2> HIDE DEF v, w
  <2>4. AcceptsOK' /\ accept' \in [Accepts -> AcceptStates]
    BY <1>1, <2>1, <2>2, DestroyFacts, AcceptsTyped
  <2>5. nd \in [Nodes -> NodeStates]
    BY <2>3
  <2>6. node' \in [Nodes -> NodeStates]
    BY <2>1, <2>5, CollectFacts
  <2> QED
    BY <2>1, <2>4, <2>6, QuietTyped
<1>4. CASE AcceptRemove(a)
  <2> DEFINE nd == [k \in Nodes |-> [node[k] EXCEPT !.fsa = IF @ = a THEN None ELSE @]]
  <2>1. /\ node' = Collected(nd) /\ accept' = [accept EXCEPT ![a] = NoAccept]
        /\ removeDead(n) /\ Disturb /\ UNCHANGED <<backlog, lost, stolen, srv>>
    BY <1>4 DEF AcceptRemove
  <2>2. nd \in [Nodes -> NodeStates]
    BY DEF NodeStates
  <2> HIDE DEF nd
  <2>3. node' \in [Nodes -> NodeStates]
    BY <2>1, <2>2, CollectFacts
  <2>4. AcceptsOK' /\ accept' \in [Accepts -> AcceptStates]
    BY <2>1, NoneTyped, AcceptsTyped DEF AcceptsOK
  <2>5. records' \subseteq records /\ fsnodes' \in Seq(Nodes)
    BY <2>1, KeepType DEF removeDead
  <2>6. \E b \in BOOLEAN : lst' = [lst EXCEPT !.changed = b]
    BY <2>1 DEF Disturb, ListenStates
  <2> QED
    BY <2>1, <2>3, <2>4, <2>5, <2>6, QuietTyped
<1> QED
  BY <1>2, <1>3, <1>4

LEMMA EchoTyped ==
  ASSUME WellTyped, Echo
  PROVE  WellTyped'
<1> USE DEF WellTyped, TypeOK
<1>1. node' = Collected(node) /\ fsnodes' = Keep({n \in Nodes : node[n].alive}) /\ Disturb
      /\ UNCHANGED <<records, accept, backlog, lost, stolen, srv>>
  BY DEF Echo
<1>2. node' \in [Nodes -> NodeStates] /\ fsnodes' \in Seq(Nodes)
  BY <1>1, CollectFacts, KeepType
<1>3. AcceptsOK'
  BY <1>1 DEF AcceptsOK
<1>4. \E b \in BOOLEAN : lst' = [lst EXCEPT !.changed = b]
  BY <1>1 DEF Disturb, ListenStates
<1> QED
  BY <1>1, <1>2, <1>3, <1>4, QuietTyped

\* The first line of a connection.
LEMMA LineFacts ==
  ASSUME NEW m \in Lines
  PROVE  /\ m.kind \in {"IDF", "USR", "EOF"} /\ m.peer \in Peers /\ m.entries \in Clients
         /\ m.kind # "EOF" => m.id \in Servers
         /\ m.kind = "EOF" => m.peer = None
  BY NoneTyped DEF Lines, Peers

LEMMA NewFacts ==
  /\ NodeLeft => NewNode \in Nodes /\ FreeNode(NewNode)
  /\ AcceptLeft => NewAccept \in Accepts /\ FreeAccept(NewAccept)
  BY DEF NodeLeft, NewNode, AcceptLeft, NewAccept

LEMMA IdleTyped ==
  ASSUME lst' = Idle \/ lst' = [Idle EXCEPT !.pc = "stopped"]
  PROVE  lst' \in ListenStates /\ ListenOK'
<1>1. lst' \in ListenStates
  BY NoneTyped
<1>2. lst'.pc \in {"accept", "stopped"}
  BY DEF Idle
<1> QED
  BY <1>1, <1>2 DEF ListenOK

LEMMA ListenTyped ==
  ASSUME WellTyped, ListenReceive \/ ListenThrows
  PROVE  WellTyped'
<1> USE DEF WellTyped, TypeOK
<1>1. UNCHANGED <<records, fsnodes, node, accept, stolen, srv>>
  BY DEF ListenReceive, ListenThrows
<1>2. /\ lst' \in ListenStates /\ ListenOK' /\ backlog' \in Seq(Lines) /\ lost' \subseteq Servers
  <2>1. CASE ListenReceive
    <3>1. Head(backlog) \in Lines /\ Tail(backlog) \in Seq(Lines) /\ <<>> \in Seq(Lines)
      BY <2>1 DEF ListenReceive
    <3>2. CASE Head(backlog).kind = "EOF"
      BY <2>1, <3>1, <3>2, NoneTyped DEF ListenReceive, ListenOK, Idle
    <3>3. CASE Head(backlog).kind # "EOF"
      <4>1. /\ lst' = [Idle EXCEPT !.pc = "find", !.msg = Head(backlog)]
            /\ backlog' = Tail(backlog) /\ lost' = lost
        BY <2>1, <3>3 DEF ListenReceive
      <4> QED
        BY <3>1, <3>3, <4>1 DEF ListenOK, ListenStates, Idle
    <3> QED
      BY <3>2, <3>3
  <2>2. CASE ListenThrows
    <3>1. lst.msg \in Lines
      BY <2>2 DEF ListenThrows, ListenOK
    <3>2. lost' \subseteq Servers
      BY <2>2, <3>1, LineFacts DEF ListenThrows, Peers
    <3>3. backlog' \in Seq(Lines)
      BY <2>2 DEF ListenThrows
    <3>4. lst' = Idle \/ lst' = [Idle EXCEPT !.pc = "stopped"]
      BY <2>2 DEF ListenThrows
    <3> QED
      BY <3>2, <3>3, <3>4, IdleTyped
  <2> QED
    BY <2>1, <2>2
<1>3. AcceptsOK' /\ UsersOK'
  BY <1>1 DEF AcceptsOK, UsersOK
<1> QED
  BY <1>1, <1>2, <1>3

LEMMA IdfTyped ==
  ASSUME WellTyped, IdfFind \/ IdfAdd \/ IdfInsert
  PROVE  WellTyped'
<1> USE DEF WellTyped, TypeOK
<1>1. lst \in ListenStates /\ lst.msg \in Lines /\ lst.msg.kind = "IDF"
  BY DEF IdfFind, IdfAdd, IdfInsert, ListenOK
<1>2. lst.msg.id \in Servers /\ lst.msg.peer \in Peers /\ lst.msg.entries \in Clients
  BY <1>1, LineFacts
<1>3. CASE IdfFind
  <2> DEFINE v == [NoNode EXCEPT !.of = lst.msg.id]
  <2>1. /\ NewNode \in Nodes /\ node' = [node EXCEPT ![NewNode] = v]
        /\ lst' = [lst EXCEPT !.pc = "add", !.node = NewNode,
                   !.todo = {c \in Names : lst.msg.entries[c] # None}]
        /\ UNCHANGED <<records, fsnodes, accept, backlog, lost, stolen, srv>>
    BY <1>3, NewFacts DEF IdfFind
  <2>2. v \in NodeStates
    BY <1>2, NoneTyped DEF NodeStates, Peers
  <2>3. lst' \in ListenStates /\ ListenOK'
    BY <1>1, <2>1 DEF ListenStates, ListenOK
  <2> HIDE DEF v
  <2>4. node' \in [Nodes -> NodeStates]
    BY <2>1, <2>2
  <2> QED
    BY <2>1, <2>3, <2>4 DEF AcceptsOK, UsersOK
<1>4. CASE IdfAdd
  <2>1. PICK c \in lst.todo :
          /\ records' = addClient(c, lst.msg.entries[c], lst.node)
          /\ IF clientExist(c) THEN srv' = Reply(lst.msg.peer, "ERM") /\ lst' = Idle
             ELSE lst' = [lst EXCEPT !.todo = @ \ {c}] /\ UNCHANGED srv
    BY <1>4 DEF IdfAdd
  <2>2. UNCHANGED <<fsnodes, node, accept, backlog, lost, stolen>>
    BY <1>4 DEF IdfAdd
  <2>3. c \in Names /\ lst.msg.entries[c] \in Pwds /\ lst.node \in Nodes
    BY <1>1, <1>2, <1>4 DEF IdfAdd, ListenOK, ListenStates, Clients
  <2>4. records' \subseteq [name : Names, pwd : Pwds, owner : Nodes]
    BY <2>1, <2>3 DEF addClient
  <2>5. srv' \in [Servers -> ServerStates] /\ UsersOK'
    <3>1. CASE clientExist(c)
      BY <1>2, <2>1, <3>1, ReplyFacts, ReplyUsers DEF Answers
    <3>2. CASE ~clientExist(c)
      BY <2>1, <3>2 DEF UsersOK
    <3> QED
      BY <3>1, <3>2
  <2>6. lst' \in ListenStates /\ ListenOK'
    <3>1. CASE clientExist(c)
      BY <2>1, <3>1, IdleTyped
    <3>2. CASE ~clientExist(c)
      BY <1>1, <1>4, <2>1, <2>3, <3>2 DEF IdfAdd, ListenOK, ListenStates
    <3> QED
      BY <3>1, <3>2
  <2> QED
    BY <2>2, <2>4, <2>5, <2>6 DEF AcceptsOK
<1>5. CASE IdfInsert
  <2> DEFINE v == [node[lst.node] EXCEPT !.id = lst.msg.id, !.ip = TRUE, !.pc = "sleep",
                     !.t = TRUE, !.peer = lst.msg.peer]
  <2>1. /\ lst.node \in Nodes /\ node' = [node EXCEPT ![lst.node] = v]
        /\ fsnodes' = Append(fsnodes, lst.node) /\ lst' = Idle
        /\ UNCHANGED <<records, accept, backlog, lost, stolen>>
    BY <1>5 DEF IdfInsert, ListenOK
  <2>2. v \in NodeStates
    <3>1. node[lst.node] \in NodeStates
      BY <2>1
    <3> QED
      BY <1>2, <3>1 DEF NodeStates, Peers
  <2> HIDE DEF v
  <2>3. node' \in [Nodes -> NodeStates] /\ fsnodes' \in Seq(Nodes)
    BY <2>1, <2>2
  <2>4. lst' \in ListenStates /\ ListenOK'
    BY <2>1, IdleTyped
  <2>5. srv' \in [Servers -> ServerStates] /\ UsersOK'
    <3>1. CASE lst.msg.peer = None
      BY <1>5, <3>1 DEF IdfInsert, UsersOK
    <3>2. CASE lst.msg.peer # None
      <4> DEFINE s == lst.msg.peer
                 w == [srv[s] EXCEPT !.reply = "CFM", !.main = lst.node]
      <4>1. s \in Servers /\ srv' = [srv EXCEPT ![s] = w]
        BY <1>2, <1>5, <3>2 DEF IdfInsert, Peers
      <4>2. srv[s] \in ServerStates
        BY <4>1
      <4>3. /\ w \in ServerStates /\ w.user = srv[s].user /\ w.arg = srv[s].arg
            /\ w.old = srv[s].old
        BY <2>1, <4>2 DEF ServerStates
      <4> HIDE DEF w
      <4> QED
        BY <4>1, <4>3 DEF UsersOK
    <3> QED
      BY <3>1, <3>2
  <2> QED
    BY <2>1, <2>3, <2>4, <2>5 DEF AcceptsOK
<1> QED
  BY <1>3, <1>4, <1>5

LEMMA UsrTyped ==
  ASSUME WellTyped, UsrFind \/ UsrSet \/ UsrStart
  PROVE  WellTyped'
<1> USE DEF WellTyped, TypeOK
<1>1. lst \in ListenStates /\ lst.msg \in Lines
  BY DEF UsrFind, UsrSet, UsrStart, ListenOK
<1>2. /\ lst.msg.kind # "EOF" => lst.msg.id \in Servers
      /\ lst.msg.peer \in Peers
  BY <1>1, LineFacts
<1>3. CASE UsrFind
  <2> DEFINE v == [NoNode EXCEPT !.of = lst.msg.id]
  <2>1. UNCHANGED <<records, accept, backlog, lost, stolen, srv>> /\ lst.msg.kind = "USR"
    BY <1>3 DEF UsrFind
  <2>2. PICK n \in Nodes : lst' = [lst EXCEPT !.pc = "set", !.node = n]
    <3>1. CASE findFileServer(lst.msg.id) # None
      BY <1>3, <3>1, FindFacts DEF UsrFind
    <3>2. CASE findFileServer(lst.msg.id) = None
      BY <1>3, <3>2, NewFacts DEF UsrFind
    <3> QED
      BY <3>1, <3>2
  <2>3. lst' \in ListenStates /\ ListenOK'
    BY <1>1, <2>1, <2>2 DEF ListenStates, ListenOK
  <2>4. v \in NodeStates
    BY <1>2, <2>1, NoneTyped DEF NodeStates, Peers
  <2>5. node' \in [Nodes -> NodeStates] /\ fsnodes' \in Seq(Nodes)
    <3>1. CASE findFileServer(lst.msg.id) # None
      BY <1>3, <3>1 DEF UsrFind
    <3>2. CASE findFileServer(lst.msg.id) = None
      <4>1. /\ NewNode \in Nodes /\ node' = [node EXCEPT ![NewNode] = v]
            /\ fsnodes' = Append(fsnodes, NewNode)
        BY <1>3, <3>2, NewFacts DEF UsrFind
      <4> HIDE DEF v
      <4> QED
        BY <2>4, <4>1
    <3> QED
      BY <3>1, <3>2
  <2> QED
    BY <2>1, <2>3, <2>5 DEF AcceptsOK, UsersOK
<1>4. CASE UsrSet
  <2> DEFINE v == [NoAccept EXCEPT !.pc = "new", !.node = lst.node, !.peer = lst.msg.peer]
             w == [node[lst.node] EXCEPT !.fsa = NewAccept]
  <2>1. /\ NewAccept \in Accepts /\ lst.node \in Nodes
        /\ accept' = [accept EXCEPT ![NewAccept] = v]
        /\ node' = [node EXCEPT ![lst.node] = w]
        /\ srv' = Reply(lst.msg.peer, "CFM") /\ lst' = [lst EXCEPT !.pc = "start"]
        /\ UNCHANGED <<records, fsnodes, backlog, lost, stolen>>
    BY <1>4, NewFacts DEF UsrSet, ListenOK
  <2>2. v \in AcceptStates /\ v.pc # "none" /\ v.node \in Nodes
    BY <1>2, <2>1, NoneTyped DEF AcceptStates, NoAccept
  <2>3. w \in NodeStates
    <3>1. node[lst.node] \in NodeStates
      BY <2>1
    <3> QED
      BY <2>1, <3>1 DEF NodeStates
  <2>4. lst' \in ListenStates /\ ListenOK'
    BY <1>1, <1>4, <2>1 DEF UsrSet, ListenStates, ListenOK
  <2> HIDE DEF v, w
  <2>5. AcceptsOK' /\ accept' \in [Accepts -> AcceptStates]
    BY <2>1, <2>2, AcceptsTyped DEF AcceptsOK
  <2>6. node' \in [Nodes -> NodeStates]
    BY <2>1, <2>3
  <2>7. srv' \in [Servers -> ServerStates] /\ UsersOK'
    BY <1>2, <2>1, ReplyFacts, ReplyUsers DEF Answers
  <2> QED
    BY <2>1, <2>4, <2>5, <2>6, <2>7
<1>5. CASE UsrStart
  <2>1. PICK a \in Accepts : /\ accept[a].pc = "new"
                             /\ accept' = [accept EXCEPT ![a] = [accept[a] EXCEPT !.pc = "run", !.t = TRUE]]
    BY <1>5 DEF UsrStart
  <2> DEFINE v == [accept[a] EXCEPT !.pc = "run", !.t = TRUE]
  <2>2. lst' = Idle /\ UNCHANGED <<records, fsnodes, node, backlog, lost, stolen, srv>>
    BY <1>5 DEF UsrStart
  <2>3. v \in AcceptStates /\ v.pc # "none" /\ v.node \in Nodes
    BY <2>1 DEF AcceptStates, AcceptsOK
  <2> HIDE DEF v
  <2>4. AcceptsOK' /\ accept' \in [Accepts -> AcceptStates]
    BY <2>1, <2>3, AcceptsTyped DEF AcceptsOK, v
  <2>5. lst' \in ListenStates /\ ListenOK'
    BY <2>2, IdleTyped
  <2> QED
    BY <2>2, <2>4, <2>5 DEF UsersOK
<1> QED
  BY <1>3, <1>4, <1>5

\* The closing of connections.
LEMMA CloseTyped ==
  ASSUME WellTyped, NEW s \in Servers
  PROVE  /\ CloseMain(s) => node' \in [Nodes -> NodeStates]
         /\ CloseUser(s) => accept' \in [Accepts -> AcceptStates] /\ AcceptsOK'
         /\ backlog' = [i \in DOMAIN backlog |-> [backlog[i] EXCEPT !.peer = Hang(@, s)]]
            => backlog' \in Seq(Lines)
<1> USE DEF WellTyped, TypeOK
<1>0. None # s /\ \A p \in Peers : Hang(p, s) \in Peers
  BY NoneIsNone DEF Hang, Peers
<1>1. ASSUME CloseMain(s) PROVE node' \in [Nodes -> NodeStates]
  <2>1. \A n \in Nodes : [node[n] EXCEPT !.peer = Hang(@, s)] \in NodeStates
    BY <1>0 DEF NodeStates
  <2> QED
    BY <1>1, <2>1 DEF CloseMain
<1>2. ASSUME CloseUser(s) PROVE accept' \in [Accepts -> AcceptStates] /\ AcceptsOK'
  <2>1. \A a \in Accepts : [accept[a] EXCEPT !.peer = Hang(@, s)] \in AcceptStates
    BY <1>0 DEF AcceptStates
  <2>2. accept' \in [Accepts -> AcceptStates]
    BY <1>2, <2>1 DEF CloseUser
  <2>3. [NoAccept EXCEPT !.peer = Hang(@, s)] = NoAccept
    BY <1>0 DEF NoAccept, Hang
  <2> SUFFICES ASSUME NEW a \in Accepts
               PROVE  IF accept'[a].pc = "none" THEN accept'[a] = NoAccept
                      ELSE accept'[a].node \in Nodes
    BY <2>2 DEF AcceptsOK
  <2>4. accept'[a] = [accept[a] EXCEPT !.peer = Hang(@, s)]
    BY <1>2 DEF CloseUser
  <2>5. accept'[a].pc = accept[a].pc /\ accept'[a].node = accept[a].node
    BY <2>4 DEF AcceptStates
  <2>6. accept[a].pc = "none" => accept[a] = NoAccept
    BY DEF AcceptsOK
  <2> QED
    BY <2>3, <2>4, <2>5, <2>6 DEF AcceptsOK
<1>3. ASSUME backlog' = [i \in DOMAIN backlog |-> [backlog[i] EXCEPT !.peer = Hang(@, s)]]
      PROVE  backlog' \in Seq(Lines)
  <2>1. \A m \in Lines : [m EXCEPT !.peer = Hang(@, s)] \in Lines
    BY <1>0 DEF Lines, Hang
  <2>2. \A i \in 1..Len(backlog) : [backlog[i] EXCEPT !.peer = Hang(@, s)] \in Lines
    BY <2>1
  <2>3. backlog' \in [1..Len(backlog) -> Lines] /\ Len(backlog) \in Nat
    BY <1>3, <2>2
  <2>4. \A n \in Nat : \A f \in [1..n -> Lines] : f \in Seq(Lines)
    BY SeqDef
  <2> QED
    BY <2>3, <2>4, Zenon
<1> QED
  BY <1>1, <1>2, <1>3

\* A process that changes its own state.
LEMMA SetTyped ==
  ASSUME WellTyped, NEW s \in Servers, NEW v \in ServerStates, Set(s, v),
         v.user \in {"made", "adding", "removing", "changing", "local"} => v.arg \in Names,
         v.user \in {"made", "changing"} => v.old \in Pwds
  PROVE  srv' \in [Servers -> ServerStates] /\ UsersOK'
<1>1. srv' = [srv EXCEPT ![s] = v] /\ srv \in [Servers -> ServerStates]
  BY DEF Set, WellTyped, TypeOK
<1> QED
  BY <1>1 DEF WellTyped, UsersOK

LEMMA OffTyped ==
  ASSUME NEW v \in ServerStates
  PROVE  Off(v.file, v.dir) \in ServerStates /\ Off(v.file, v.dir).user = "none"
  BY NoneTyped, ServerAssumption DEF Off, ServerStates

LEMMA FailConnectTyped ==
  ASSUME WellTyped, NEW s \in Servers, FailConnect(s)
  PROVE  WellTyped'
<1> USE DEF WellTyped, TypeOK
<1>1. Set(s, Retry(srv[s])) /\ UNCHANGED <<records, fsnodes, lst, echo, commands, stolen>>
  BY DEF FailConnect
<1>2. /\ node' \in [Nodes -> NodeStates] /\ accept' \in [Accepts -> AcceptStates] /\ AcceptsOK'
      /\ lost' \subseteq Servers /\ backlog' \in Seq(Lines)
  <2>1. CASE srv[s].tries + 1 = MAX_TRY
    BY <2>1, CloseTyped DEF FailConnect
  <2>2. CASE srv[s].tries + 1 # MAX_TRY
    BY <2>2 DEF FailConnect, AcceptsOK
  <2> QED
    BY <2>1, <2>2
<1>3. srv[s] \in ServerStates
  OBVIOUS
<1>4. /\ Retry(srv[s]) \in ServerStates
      /\ \/ Retry(srv[s]).user = "none"
         \/ /\ Retry(srv[s]).user = srv[s].user /\ Retry(srv[s]).arg = srv[s].arg
            /\ Retry(srv[s]).old = srv[s].old
  <2>1. CASE srv[s].tries + 1 = MAX_TRY
    <3>1. Retry(srv[s]) = Off(srv[s].file, srv[s].dir)
      BY <2>1 DEF Retry
    <3>2. Off(srv[s].file, srv[s].dir) \in ServerStates /\ Off(srv[s].file, srv[s].dir).user = "none"
      BY <1>3, OffTyped
    <3> QED
      BY <3>1, <3>2
  <2>2. CASE srv[s].tries + 1 # MAX_TRY
    <3>1. Retry(srv[s]) = [srv[s] EXCEPT !.pc = "connect", !.tries = @ + 1, !.reply = None]
      BY <2>2 DEF Retry
    <3>2. srv[s].tries + 1 \in 0 .. MAX_TRY - 1
      BY <1>3, <2>2, ServerAssumption DEF ServerStates
    <3> QED
      BY <1>3, <3>1, <3>2 DEF ServerStates
  <2> QED
    BY <2>1, <2>2
<1>5. srv' \in [Servers -> ServerStates] /\ UsersOK'
  BY <1>1, <1>4, SetTyped DEF UsersOK
<1> QED
  BY <1>1, <1>2, <1>5 DEF ListenOK

LEMMA ConnectTyped ==
  ASSUME WellTyped, NEW s \in Servers, ConnectMain(s) \/ ConnectUser(s) \/ ConnectRefused(s)
  PROVE  WellTyped'
<1> USE DEF WellTyped, TypeOK
<1>1. CASE FailConnect(s)
  BY <1>1, FailConnectTyped
<1>2. ASSUME ~FailConnect(s) PROVE WellTyped'
  <2>1. PICK kind \in {"IDF", "USR"}, pc \in {"idf", "usr"} :
          Send(s, kind) /\ Set(s, [srv[s] EXCEPT !.pc = pc, !.reply = None])
    BY <1>2 DEF ConnectMain, ConnectUser, ConnectRefused
  <2>2. UNCHANGED <<records, fsnodes, node, accept, lst, lost, stolen>>
    BY <1>2 DEF ConnectMain, ConnectUser, ConnectRefused
  <2>3. srv[s] \in ServerStates /\ srv[s].clients \in Clients
    BY DEF ServerStates
  <2>4. backlog' \in Seq(Lines)
    <3> DEFINE m == [kind |-> kind, peer |-> s, id |-> s,
                     entries |-> IF kind = "IDF" THEN srv[s].clients ELSE NoClients]
    <3>1. m \in Lines
      BY <2>3, NoneTyped DEF Lines, Peers
    <3>2. backlog' = Append(backlog, m)
      BY <2>1 DEF Send
    <3> HIDE DEF m
    <3> QED
      BY <3>1, <3>2
  <2> DEFINE v == [srv[s] EXCEPT !.pc = pc, !.reply = None]
  <2>5. /\ v \in ServerStates /\ v.user = srv[s].user /\ v.arg = srv[s].arg
        /\ v.old = srv[s].old
    BY <2>3 DEF ServerStates
  <2> HIDE DEF v
  <2>6. srv' \in [Servers -> ServerStates] /\ UsersOK'
    BY <2>1, <2>5, SetTyped DEF UsersOK, v
  <2> QED
    BY <2>2, <2>4, <2>6 DEF ListenOK, AcceptsOK
<1> QED
  BY <1>1, <1>2

\* Sending a line to the master.
LEMMA AskTyped ==
  ASSUME WellTyped, NEW s \in Servers, NEW v \in ServerStates, NEW m \in Orders,
         NEW st \in {"status", "adding", "removing", "changing"},
         st # "status" => v.arg \in Names, st = "changing" => v.old \in Pwds,
         Ask(s, v, m, st)
  PROVE  /\ srv' \in [Servers -> ServerStates] /\ UsersOK'
         /\ accept' \in [Accepts -> AcceptStates] /\ AcceptsOK'
<1>1. CASE Line(s) = {}
  <2> DEFINE w == [v EXCEPT !.user = "none", !.arg = None, !.old = None]
  <2>1. Set(s, w) /\ UNCHANGED accept
    BY <1>1 DEF Ask
  <2>2. w \in ServerStates /\ w.user = "none"
    BY DEF ServerStates
  <2> HIDE DEF w
  <2>3. srv' \in [Servers -> ServerStates] /\ UsersOK'
    BY <2>1, <2>2, SetTyped
  <2> QED
    BY <2>1, <2>3 DEF WellTyped, TypeOK, AcceptsOK
<1>2. CASE Line(s) # {}
  <2> DEFINE w == [v EXCEPT !.user = st]
  <2>1. /\ Set(s, w)
        /\ accept' = [a \in Accepts |-> IF a \in Line(s) THEN [accept[a] EXCEPT !.in = m]
                                       ELSE accept[a]]
    BY <1>2 DEF Ask
  <2>2. w \in ServerStates /\ w.user = st /\ w.arg = v.arg /\ w.old = v.old
    BY DEF ServerStates
  <2> HIDE DEF w
  <2>3. srv' \in [Servers -> ServerStates] /\ UsersOK'
    BY <2>1, <2>2, SetTyped
  <2>4. \A a \in Accepts : [accept[a] EXCEPT !.in = m] \in AcceptStates
    BY DEF WellTyped, TypeOK, AcceptStates
  <2>5. accept' \in [Accepts -> AcceptStates]
    BY <2>1, <2>4 DEF WellTyped, TypeOK
  <2>6. ASSUME NEW a \in Accepts
        PROVE  IF accept'[a].pc = "none" THEN accept'[a] = NoAccept
               ELSE accept'[a].node \in Nodes
    <3>1. CASE a \in Line(s)
      <4>1. accept[a] \in AcceptStates /\ accept'[a] = [accept[a] EXCEPT !.in = m]
        BY <2>1, <3>1 DEF WellTyped, TypeOK
      <4>2. accept[a].peer # None
        BY <3>1, NoneIsNone DEF Line
      <4>3. accept[a].pc # "none" /\ accept[a].node \in Nodes
        BY <4>2 DEF WellTyped, AcceptsOK, NoAccept
      <4> QED
        BY <4>1, <4>3 DEF AcceptStates
    <3>2. CASE a \notin Line(s)
      BY <2>1, <3>2 DEF WellTyped, AcceptsOK
    <3> QED
      BY <3>1, <3>2
  <2> QED
    BY <2>3, <2>5, <2>6 DEF AcceptsOK
<1> QED
  BY <1>1, <1>2

\* A step of a server that changes its own state, and may have sent a line.
LEMMA OwnTyped ==
  ASSUME WellTyped, UNCHANGED <<records, fsnodes, node, lst, backlog, lost, stolen>>,
         srv' \in [Servers -> ServerStates], UsersOK',
         \/ UNCHANGED accept
         \/ accept' \in [Accepts -> AcceptStates] /\ AcceptsOK'
  PROVE  WellTyped'
<1>1. accept' \in [Accepts -> AcceptStates] /\ AcceptsOK'
  BY DEF WellTyped, TypeOK, AcceptsOK
<1> QED
  BY <1>1 DEF WellTyped, TypeOK, ListenOK

LEMMA MainThreadTyped ==
  ASSUME WellTyped, NEW s \in Servers, Boot(s) \/ Registered(s) \/ Broken(s)
  PROVE  WellTyped'
<1> USE DEF WellTyped, TypeOK
<1>1. srv[s] \in ServerStates
  OBVIOUS
<1>2. CASE Boot(s)
  <2> DEFINE v == [srv[s] EXCEPT !.pc = "connect", !.clients = srv[s].file,
                     !.dir = [c \in Names |-> IF srv[s].file[c] # None /\ @[c] = "no"
                                              THEN "empty" ELSE @[c]]]
  <2>1. Set(s, v) /\ UNCHANGED masterVars
    BY <1>2 DEF Boot
  <2>2. v \in ServerStates /\ v.user = srv[s].user /\ v.arg = srv[s].arg /\ v.old = srv[s].old
    BY <1>1 DEF ServerStates
  <2> HIDE DEF v
  <2>3. srv' \in [Servers -> ServerStates] /\ UsersOK'
    BY <2>1, <2>2, SetTyped DEF UsersOK
  <2> QED
    BY <2>1, <2>3, OwnTyped DEF masterVars
<1>3. CASE Registered(s)
  <2> DEFINE v == [srv[s] EXCEPT !.pc = "up", !.tries = 0, !.reply = None, !.user = "idle"]
  <2>1. Set(s, v) /\ UNCHANGED masterVars
    BY <1>3 DEF Registered
  <2>2. v \in ServerStates /\ v.user = "idle"
    <3>1. 0 \in 0 .. MAX_TRY - 1
      BY ServerAssumption
    <3> QED
      BY <1>1, <3>1 DEF ServerStates
  <2> HIDE DEF v
  <2>3. srv' \in [Servers -> ServerStates] /\ UsersOK'
    BY <2>1, <2>2, SetTyped
  <2> QED
    BY <2>1, <2>3, OwnTyped DEF masterVars
<1>4. CASE Broken(s)
  <2> DEFINE v == [srv[s] EXCEPT !.pc = "connect", !.reply = None, !.main = None,
                     !.user = "none", !.arg = None, !.old = None]
  <2>1. Set(s, v) /\ CloseUser(s) /\ UNCHANGED <<records, fsnodes, node, lst, backlog, lost, stolen>>
    BY <1>4 DEF Broken
  <2>2. v \in ServerStates /\ v.user = "none"
    BY <1>1 DEF ServerStates
  <2> HIDE DEF v
  <2>3. srv' \in [Servers -> ServerStates] /\ UsersOK'
    BY <2>1, <2>2, SetTyped
  <2> QED
    BY <2>1, <2>3, CloseTyped, OwnTyped
<1> QED
  BY <1>2, <1>3, <1>4

LEMMA CommandTyped ==
  ASSUME WellTyped, NEW s \in Servers, UNCHANGED stolen,
         \/ CmdStatus(s) \/ AddAsk(s)
         \/ \E c \in Names : CmdRemove(s, c) \/ ClientStores(s, c)
                             \/ \E p \in Pwds : CmdAdd(s, c, p) \/ CmdPassword(s, c, p)
  PROVE  WellTyped'
<1> USE DEF WellTyped, TypeOK
<1>1. srv[s] \in ServerStates
  OBVIOUS
<1>2. CASE CmdStatus(s)
  <2>1. /\ Ask(s, srv[s], Message("RFS", None, None), "status")
        /\ UNCHANGED <<records, fsnodes, node, lst, backlog, lost>>
    BY <1>2 DEF CmdStatus
  <2>2. Message("RFS", None, None) \in Orders
    BY DEF Message, Orders
  <2> QED
    BY <1>1, <2>1, <2>2, AskTyped, OwnTyped
<1>3. CASE AddAsk(s)
  <2> DEFINE v == [srv[s] EXCEPT !.clients[srv[s].arg] = srv[s].old, !.file[srv[s].arg] = srv[s].old]
             m == Message("ADD", srv[s].arg, srv[s].old)
  <2>1. /\ Ask(s, v, m, "adding") /\ srv[s].arg \in Names /\ srv[s].old \in Pwds
        /\ UNCHANGED <<records, fsnodes, node, lst, backlog, lost>>
    BY <1>3 DEF AddAsk, UsersOK
  <2>2. v \in ServerStates /\ v.arg \in Names
    BY <1>1, <2>1 DEF ServerStates, Clients
  <2>3. m \in Orders
    BY <2>1 DEF Message, Orders
  <2> HIDE DEF v, m
  <2> QED
    BY <2>1, <2>2, <2>3, AskTyped, OwnTyped
<1>4. ASSUME NEW c \in Names, CmdRemove(s, c) PROVE WellTyped'
  <2> DEFINE v == [srv[s] EXCEPT !.arg = c]
             m == Message("RMV", c, None)
  <2>1. /\ Ask(s, v, m, "removing")
        /\ UNCHANGED <<records, fsnodes, node, lst, backlog, lost>>
    BY <1>4 DEF CmdRemove
  <2>2. v \in ServerStates /\ v.arg \in Names
    BY <1>1 DEF ServerStates
  <2>3. m \in Orders
    BY DEF Message, Orders
  <2> HIDE DEF v, m
  <2> QED
    BY <2>1, <2>2, <2>3, AskTyped, OwnTyped
<1>5. ASSUME NEW c \in Names, NEW p \in Pwds, CmdAdd(s, c, p) PROVE WellTyped'
  <2> DEFINE v == [srv[s] EXCEPT !.user = "made", !.arg = c, !.old = p, !.dir[c] = "empty"]
  <2>1. Set(s, v) /\ UNCHANGED masterVars
    BY <1>5 DEF CmdAdd
  <2>2. v \in ServerStates /\ v.arg \in Names /\ v.old \in Pwds
    BY <1>1 DEF ServerStates
  <2> HIDE DEF v
  <2>3. srv' \in [Servers -> ServerStates] /\ UsersOK'
    BY <2>1, <2>2, SetTyped
  <2> QED
    BY <2>1, <2>3, OwnTyped DEF masterVars
<1>6. ASSUME NEW c \in Names, NEW p \in Pwds, CmdPassword(s, c, p) PROVE WellTyped'
  <2> DEFINE v == [srv[s] EXCEPT !.arg = c, !.old = srv[s].clients[c], !.clients[c] = p]
             m == Message("PWD", c, p)
  <2>1. /\ Ask(s, v, m, "changing") /\ srv[s].clients[c] # None
        /\ UNCHANGED <<records, fsnodes, node, lst, backlog, lost>>
    BY <1>6 DEF CmdPassword
  <2>2. srv[s].clients[c] \in Pwds
    BY <1>1, <2>1 DEF ServerStates, Clients
  <2>3. v \in ServerStates /\ v.arg \in Names /\ v.old \in Pwds
    BY <1>1, <2>2 DEF ServerStates, Clients
  <2>4. m \in Orders
    BY DEF Message, Orders
  <2> HIDE DEF v, m
  <2> QED
    BY <2>1, <2>3, <2>4, AskTyped, OwnTyped
<1>7. ASSUME NEW c \in Names, ClientStores(s, c) PROVE WellTyped'
  <2> DEFINE v == [srv[s] EXCEPT !.dir[c] = "full"]
  <2>1. Set(s, v) /\ UNCHANGED masterVars
    BY <1>7 DEF ClientStores
  <2>2. v \in ServerStates /\ v.user = srv[s].user /\ v.arg = srv[s].arg /\ v.old = srv[s].old
    BY <1>1 DEF ServerStates
  <2> HIDE DEF v
  <2>3. srv' \in [Servers -> ServerStates] /\ UsersOK'
    BY <2>1, <2>2, SetTyped DEF UsersOK
  <2> QED
    BY <2>1, <2>3, OwnTyped DEF masterVars
<1> QED
  BY <1>2, <1>3, <1>4, <1>5, <1>6, <1>7

LEMMA ErasedTyped ==
  ASSUME NEW v \in ServerStates, NEW c \in Names
  PROVE  /\ Erased(v, c) \in ServerStates /\ Erased(v, c).pc = v.pc
         /\ Erased(v, c).user = v.user /\ Erased(v, c).arg = v.arg
         /\ Erased(v, c).old = v.old /\ Erased(v, c).reply = v.reply
         /\ Erased(v, c).file = v.file /\ Erased(v, c).clients[c] = None
         /\ \A d \in Names : d # c => Erased(v, c).clients[d] = v.clients[d]
<1>1. CASE v.clients[c] = None
  BY <1>1 DEF Erased
<1>2. CASE v.clients[c] # None
  <2> DEFINE d == IF v.dir[c] = "empty" THEN "no" ELSE v.dir[c]
  <2>1. Erased(v, c) = [v EXCEPT !.clients[c] = None, !.dir[c] = d]
    BY <1>2 DEF Erased
  <2>2. d \in {"no", "empty", "full"}
    BY DEF ServerStates
  <2> HIDE DEF d
  <2>3. Erased(v, c) \in ServerStates
    <3> DEFINE x == [v.clients EXCEPT ![c] = None]
               y == [v.dir EXCEPT ![c] = d]
    <3>1. x \in Clients /\ y \in [Names -> {"no", "empty", "full"}]
      BY <2>2 DEF ServerStates, Clients
    <3>2. Erased(v, c) = [v EXCEPT !.clients = x, !.dir = y]
      BY <2>1
    <3> HIDE DEF x, y
    <3> QED
      BY <3>1, <3>2 DEF ServerStates
  <2>4. /\ Erased(v, c).pc = v.pc /\ Erased(v, c).user = v.user /\ Erased(v, c).arg = v.arg
        /\ Erased(v, c).old = v.old /\ Erased(v, c).reply = v.reply
        /\ Erased(v, c).file = v.file /\ Erased(v, c).clients = [v.clients EXCEPT ![c] = None]
    BY <2>1 DEF ServerStates
  <2>5. v.clients \in [Names -> Pwds \cup {None}]
    BY DEF ServerStates, Clients
  <2> QED
    BY <2>3, <2>4, <2>5
<1> QED
  BY <1>1, <1>2

LEMMA RestTyped ==
  ASSUME NEW v \in ServerStates
  PROVE  /\ Rest(v) \in ServerStates /\ Rest(v).user = "idle" /\ Rest(v).reply = None
         /\ Rest(v).pc = v.pc /\ Rest(v).clients = v.clients /\ Rest(v).file = v.file
  BY DEF Rest, ServerStates

\* The states that the user thread is in after an answer of the master.
LEMMA UserAnswerFacts ==
  ASSUME WellTyped, NEW s \in Servers, UserAnswer(s)
  PROVE  \E v \in ServerStates :
           /\ Set(s, v) /\ v.pc = srv[s].pc /\ v.reply = None /\ v.file = srv[s].file
           /\ v.arg \in Names \/ v.user # "local"
           /\ \/ v.user = "idle" /\ v.clients = srv[s].clients
              \/ /\ srv[s].user = "adding" /\ srv[s].reply # "CFM" /\ v.user \in {"idle", "erased"}
                 /\ v.clients[srv[s].arg] = None
                 /\ \A d \in Names : d # srv[s].arg => v.clients[d] = srv[s].clients[d]
              \/ /\ srv[s].user = "removing" /\ srv[s].reply = "CFM" /\ v.user = "local"
                 /\ v.clients = srv[s].clients /\ v.arg = srv[s].arg
              \/ /\ srv[s].user = "changing" /\ v.user = "idle"
                 /\ v.clients = [srv[s].clients EXCEPT ![srv[s].arg] = srv[s].old]
<1> DEFINE u == srv[s]
           c == srv[s].arg
<1>1. /\ u \in ServerStates /\ u.pc = "up" /\ u.reply # None
      /\ u.user \in {"adding", "removing", "changing"} => c \in Names
      /\ u.user = "changing" => u.old \in Pwds
  BY DEF WellTyped, TypeOK, UserAnswer, UsersOK
<1>2. CASE Set(s, Rest(u))
  BY <1>1, <1>2, RestTyped
<1>3. CASE u.user = "adding" /\ u.reply # "CFM" /\ ~Set(s, Rest(u))
  <2>1. Set(s, IF Deletes(u, c) THEN [Erased(u, c) EXCEPT !.user = "erased", !.reply = None]
               ELSE Rest(Erased(u, c)))
    BY <1>3 DEF UserAnswer
  <2>2. PICK e \in ServerStates :
          /\ e = Erased(u, c) /\ e.pc = u.pc /\ e.file = u.file /\ e.clients[c] = None
          /\ \A d \in Names : d # c => e.clients[d] = u.clients[d]
    BY <1>1, <1>3, ErasedTyped
  <2>3. CASE Deletes(u, c)
    <3> DEFINE v == [e EXCEPT !.user = "erased", !.reply = None]
    <3>1. v \in ServerStates /\ v.user = "erased" /\ v.reply = None /\ v.pc = e.pc
          /\ v.file = e.file /\ v.clients = e.clients
      BY DEF ServerStates
    <3>2. Set(s, v)
      BY <2>1, <2>2, <2>3
    <3> HIDE DEF v
    <3> QED
      BY <1>3, <2>2, <3>1, <3>2
  <2>4. CASE ~Deletes(u, c)
    <3>1. Set(s, Rest(e))
      BY <2>1, <2>2, <2>4
    <3> QED
      BY <1>3, <2>2, <3>1, RestTyped
  <2> QED
    BY <2>3, <2>4
<1>4. CASE u.user = "removing" /\ u.reply = "CFM" /\ ~Set(s, Rest(u))
  <2> DEFINE v == [u EXCEPT !.user = "local", !.reply = None]
  <2>1. Set(s, v)
    BY <1>4 DEF UserAnswer
  <2>2. /\ v \in ServerStates /\ v.user = "local" /\ v.reply = None /\ v.pc = u.pc
        /\ v.file = u.file /\ v.clients = u.clients /\ v.arg = c
    BY <1>1 DEF ServerStates
  <2> HIDE DEF v
  <2> QED
    BY <1>1, <1>4, <2>1, <2>2
<1>5. CASE u.user = "changing" /\ ~Set(s, Rest(u))
  <2> DEFINE v == [u EXCEPT !.clients[c] = u.old]
  <2>1. Set(s, Rest(v))
    BY <1>5 DEF UserAnswer
  <2>2. /\ v \in ServerStates /\ v.pc = u.pc /\ v.file = u.file
        /\ v.clients = [u.clients EXCEPT ![c] = u.old]
    BY <1>1, <1>5 DEF ServerStates, Clients
  <2> HIDE DEF v
  <2> QED
    BY <1>5, <2>1, <2>2, RestTyped
<1> QED
  BY <1>2, <1>3, <1>4, <1>5 DEF UserAnswer

LEMMA UserThreadTyped ==
  ASSUME WellTyped, NEW s \in Servers,
         UserAnswer(s) \/ RemoveLocal(s) \/ TruncateFile(s) \/ WriteFile(s) \/ UserBroken(s)
  PROVE  WellTyped'
<1>1. srv[s] \in ServerStates
  BY DEF WellTyped, TypeOK
<1>2. UNCHANGED masterVars
  BY DEF UserAnswer, RemoveLocal, TruncateFile, WriteFile, UserBroken
<1>3. \E v \in ServerStates :
        /\ Set(s, v) /\ v.user \in {"idle", "erased", "truncated", "local", "none"}
        /\ v.user = "local" => v.arg \in Names
  <2>1. CASE UserAnswer(s)
    BY <2>1, UserAnswerFacts
  <2>2. CASE RemoveLocal(s)
    <3>1. srv[s].arg \in Names
      BY <2>2 DEF RemoveLocal, WellTyped, UsersOK
    <3>2. PICK e \in ServerStates : e = Erased(srv[s], srv[s].arg) /\ e.arg = srv[s].arg
      BY <1>1, <3>1, ErasedTyped
    <3>3. PICK st \in {"erased", "local"} : Set(s, [e EXCEPT !.user = st])
      BY <2>2, <3>2 DEF RemoveLocal
    <3>4. /\ [e EXCEPT !.user = st] \in ServerStates /\ [e EXCEPT !.user = st].user = st
          /\ [e EXCEPT !.user = st].arg = e.arg
      BY DEF ServerStates
    <3> QED
      BY <3>1, <3>2, <3>3, <3>4
  <2>3. CASE WriteFile(s)
    <3> DEFINE v == [srv[s] EXCEPT !.file = srv[s].clients]
    <3>1. v \in ServerStates
      BY <1>1 DEF ServerStates
    <3>2. Set(s, Rest(v))
      BY <2>3 DEF WriteFile
    <3> HIDE DEF v
    <3> QED
      BY <3>1, <3>2, RestTyped
  <2>4. CASE TruncateFile(s)
    <3> DEFINE v == [srv[s] EXCEPT !.file = NoClients, !.user = "truncated"]
    <3>1. NoClients \in Clients
      BY DEF NoClients, Clients
    <3>2. v \in ServerStates /\ v.user = "truncated"
      BY <1>1, <3>1 DEF ServerStates
    <3>3. Set(s, v)
      BY <2>4 DEF TruncateFile
    <3> HIDE DEF v
    <3> QED
      BY <3>2, <3>3
  <2>5. CASE UserBroken(s)
    <3> DEFINE v == [srv[s] EXCEPT !.user = "none", !.arg = None, !.old = None]
    <3>1. v \in ServerStates /\ v.user = "none"
      BY <1>1 DEF ServerStates
    <3>2. Set(s, v)
      BY <2>5 DEF UserBroken
    <3> HIDE DEF v
    <3> QED
      BY <3>1, <3>2
  <2> QED
    BY <2>1, <2>2, <2>3, <2>4, <2>5
<1>4. srv' \in [Servers -> ServerStates] /\ UsersOK'
  BY <1>3, SetTyped
<1> QED
  BY <1>2, <1>4, OwnTyped DEF masterVars

LEMMA ServerTyped ==
  ASSUME WellTyped, NEW s \in Servers, ServerStep(s), UNCHANGED stolen
  PROVE  WellTyped'
<1>1. CASE Boot(s) \/ Registered(s) \/ Broken(s)
  BY <1>1, MainThreadTyped
<1>2. CASE ConnectMain(s) \/ ConnectUser(s) \/ ConnectRefused(s)
  BY <1>2, ConnectTyped
<1>3. CASE UserAnswer(s) \/ RemoveLocal(s) \/ TruncateFile(s) \/ WriteFile(s) \/ UserBroken(s)
  BY <1>3, UserThreadTyped
<1> QED
  BY <1>1, <1>2, <1>3, CommandTyped DEF ServerStep

LEMMA EndTyped ==
  ASSUME WellTyped, NEW s \in Servers, Crash(s) \/ CmdClose(s)
  PROVE  WellTyped'
<1> USE DEF WellTyped, TypeOK
<1>1. EndProcess(s)
  BY DEF Crash, CmdClose
<1>2. srv' \in [Servers -> ServerStates] /\ UsersOK'
  <2>1. Set(s, Off(srv[s].file, srv[s].dir))
    BY <1>1 DEF EndProcess
  <2>2. Off(srv[s].file, srv[s].dir) \in ServerStates /\ Off(srv[s].file, srv[s].dir).user = "none"
    BY OffTyped
  <2> QED
    BY <2>1, <2>2, SetTyped
<1>3. node' \in [Nodes -> NodeStates] /\ backlog' \in Seq(Lines) /\ lost' \subseteq Servers
  BY <1>1, CloseTyped DEF EndProcess
<1>4. lst' \in ListenStates /\ ListenOK'
  <2>1. CASE lst.msg = None
    BY <1>1, <2>1 DEF EndProcess, ListenOK
  <2>2. CASE lst.msg # None
    <3> DEFINE m == [lst.msg EXCEPT !.peer = Hang(@, s)]
    <3>1. lst' = [lst EXCEPT !.msg = m]
      BY <1>1, <2>2 DEF EndProcess
    <3>2. lst.msg \in Lines
      BY <2>2 DEF ListenStates
    <3>3. m \in Lines /\ m.kind = lst.msg.kind /\ m.entries = lst.msg.entries
      BY <3>2 DEF Lines, Hang, Peers
    <3> HIDE DEF m
    <3>4. /\ lst' \in ListenStates /\ lst'.pc = lst.pc /\ lst'.node = lst.node
          /\ lst'.todo = lst.todo /\ lst'.msg = m
      BY <3>1, <3>3 DEF ListenStates
    <3> QED
      BY <3>3, <3>4 DEF ListenOK
  <2> QED
    BY <2>1, <2>2
<1>5. accept' \in [Accepts -> AcceptStates] /\ AcceptsOK'
  <2>1. CASE CloseUser(s)
    BY <2>1, CloseTyped
  <2>2. ASSUME NEW m \in {None, Message("CLS", None, None)},
               accept' = [a \in Accepts |-> IF a \in Line(s)
                            THEN [accept[a] EXCEPT !.in = m, !.peer = None] ELSE accept[a]]
        PROVE  accept' \in [Accepts -> AcceptStates] /\ AcceptsOK'
    <3>1. m \in Orders \cup {None}
      BY DEF Message, Orders
    <3>2. \A a \in Accepts : [accept[a] EXCEPT !.in = m, !.peer = None] \in AcceptStates
      BY <3>1 DEF AcceptStates, Peers
    <3>3. accept' \in [Accepts -> AcceptStates]
      BY <2>2, <3>2
    <3>4. ASSUME NEW a \in Accepts
          PROVE  IF accept'[a].pc = "none" THEN accept'[a] = NoAccept
                 ELSE accept'[a].node \in Nodes
      <4>1. CASE a \in Line(s)
        <5>1. accept[a] \in AcceptStates /\ accept'[a] = [accept[a] EXCEPT !.in = m, !.peer = None]
          BY <2>2, <4>1
        <5>2. accept[a].peer # None
          BY <4>1, NoneIsNone DEF Line
        <5>3. accept[a].pc # "none" /\ accept[a].node \in Nodes
          BY <5>2 DEF AcceptsOK, NoAccept
        <5> QED
          BY <5>1, <5>3 DEF AcceptStates
      <4>2. CASE a \notin Line(s)
        BY <2>2, <4>2 DEF AcceptsOK
      <4> QED
        BY <4>1, <4>2
    <3> QED
      BY <3>3, <3>4 DEF AcceptsOK
  <2> QED
    BY <2>1, <2>2 DEF Crash, CmdClose
<1>6. records' = records /\ fsnodes' = fsnodes /\ stolen' = stolen
  BY <1>1 DEF EndProcess
<1> QED
  BY <1>2, <1>3, <1>4, <1>5, <1>6

LEMMA CutTyped ==
  ASSUME WellTyped,
         \/ \E n \in Nodes : CutMain(n)
         \/ \E a \in Accepts : CutUser(a)
         \/ \E i \in DOMAIN backlog : CutPending(i)
         \/ HalfConnect
  PROVE  WellTyped'
<1> USE DEF WellTyped, TypeOK
<1>1. ASSUME NEW n \in Nodes, CutMain(n) PROVE WellTyped'
  <2> DEFINE v == [node[n] EXCEPT !.peer = None]
  <2>1. node' = [node EXCEPT ![n] = v]
        /\ UNCHANGED <<records, fsnodes, accept, lst, backlog, lost, stolen, srv>>
    BY <1>1 DEF CutMain, serverVars
  <2>2. v \in NodeStates
    BY DEF NodeStates, Peers
  <2> HIDE DEF v
  <2> QED
    BY <2>1, <2>2 DEF AcceptsOK, ListenOK, UsersOK
<1>2. ASSUME NEW a \in Accepts, CutUser(a) PROVE WellTyped'
  <2> DEFINE v == [accept[a] EXCEPT !.peer = None, !.in = None]
  <2>1. accept' = [accept EXCEPT ![a] = v]
        /\ UNCHANGED <<records, fsnodes, node, lst, backlog, lost, stolen, srv>>
    BY <1>2 DEF CutUser, serverVars
  <2>2. accept[a] \in AcceptStates /\ accept[a].pc # "none" /\ accept[a].node \in Nodes
    BY <1>2 DEF CutUser, AcceptsOK, NoAccept
  <2>3. v \in AcceptStates /\ v.pc # "none" /\ v.node \in Nodes
    BY <2>2 DEF AcceptStates, Peers
  <2> HIDE DEF v
  <2>4. accept' \in [Accepts -> AcceptStates] /\ AcceptsOK'
    BY <2>1, <2>3, AcceptsTyped DEF AcceptsOK
  <2> QED
    BY <2>1, <2>4 DEF ListenOK, UsersOK
<1>3. ASSUME NEW i \in DOMAIN backlog, CutPending(i) PROVE WellTyped'
  <2> DEFINE v == [backlog[i] EXCEPT !.peer = None]
  <2>1. backlog' = [backlog EXCEPT ![i] = v]
        /\ UNCHANGED <<records, fsnodes, node, accept, lst, lost, stolen, srv>>
    BY <1>3 DEF CutPending, serverVars
  <2>2. v \in Lines
    <3>1. backlog[i] \in Lines
      OBVIOUS
    <3>2. \A m \in Lines : [m EXCEPT !.peer = None] \in Lines
      BY DEF Lines, Peers
    <3> QED
      BY <3>1, <3>2
  <2> HIDE DEF v
  <2>3. backlog' \in Seq(Lines)
    BY <2>1, <2>2
  <2> QED
    BY <2>1, <2>3 DEF AcceptsOK, ListenOK, UsersOK
<1>4. ASSUME HalfConnect PROVE WellTyped'
  <2> DEFINE v == [kind |-> "EOF", peer |-> None, id |-> None, entries |-> NoClients]
  <2>1. backlog' = Append(backlog, v)
        /\ UNCHANGED <<records, fsnodes, node, accept, lst, lost, stolen, srv>>
    BY <1>4 DEF HalfConnect, serverVars
  <2>2. v \in Lines
    BY DEF Lines
  <2> HIDE DEF v
  <2> QED
    BY <2>1, <2>2 DEF AcceptsOK, ListenOK, UsersOK
<1> QED
  BY <1>1, <1>2, <1>3, <1>4

LEMMA MasterEndTyped ==
  ASSUME WellTyped, MasterCrash \/ MasterStart
  PROVE  WellTyped'
<1> USE DEF WellTyped, TypeOK
<1>1. CASE MasterCrash
  <2>1. lst' \in ListenStates /\ ListenOK'
    BY <1>1, IdleTyped DEF MasterCrash
  <2>2. /\ records' = {} /\ fsnodes' = <<>> /\ backlog' = <<>> /\ lost' = {} /\ stolen' = {}
        /\ node' \in [Nodes -> NodeStates] /\ srv' = srv
    BY <1>1, NoneTyped DEF MasterCrash, serverVars
  <2>3. accept' \in [Accepts -> AcceptStates] /\ AcceptsOK'
    BY <1>1, NoneTyped DEF MasterCrash, AcceptsOK, NoAccept
  <2> QED
    BY <2>1, <2>2, <2>3 DEF UsersOK
<1>2. CASE MasterStart
  <2>1. lst' \in ListenStates /\ ListenOK'
    BY <1>2, IdleTyped DEF MasterStart
  <2> QED
    BY <1>2, <2>1 DEF MasterStart, serverVars, AcceptsOK, UsersOK
<1> QED
  BY <1>1, <1>2

LEMMA NextTyped ==
  ASSUME WellTyped, [Next]_vars
  PROVE  WellTyped'
<1>1. CASE MasterStep
  BY <1>1, ListenTyped, IdfTyped, UsrTyped, RequestTyped, AcceptMessageTyped, AcceptEndTyped,
     EchoTyped DEF MasterStep
<1>2. CASE (\E s \in Servers : ServerStep(s)) /\ UNCHANGED stolen
  BY <1>2, ServerTyped
<1>3. CASE FaultStep \/ MasterStart
  BY <1>3, EndTyped, CutTyped, MasterEndTyped DEF FaultStep
<1>4. CASE UNCHANGED vars
  <2>1. UNCHANGED <<records, fsnodes, node, accept, lst, backlog, lost, stolen, srv>>
    BY <1>4 DEF vars, masterVars, serverVars
  <2> QED
    BY <2>1 DEF WellTyped, TypeOK, AcceptsOK, ListenOK, UsersOK
<1> QED
  BY <1>1, <1>2, <1>3, <1>4 DEF Next

-----------------------------------------------------------------------------
(* One record for a name.                                                    *)

\* A thread adds a record of a new name, changes the password of one or
\* removes some.
LEMMA RecordSteps ==
  ASSUME [Next]_vars
  PROVE  \/ records' \subseteq records
         \/ \E c, p, n : records' = addClient(c, p, n)
         \/ \E c, p : records' = changePassword(c, p)
<1>1. ASSUME NEW a \in Accepts, AcceptMessage(a)
      PROVE  \/ records' \subseteq records
             \/ \E c, p, n : records' = addClient(c, p, n)
             \/ \E c, p : records' = changePassword(c, p)
  BY <1>1 DEF AcceptMessage, removeClient
<1>2. ASSUME NEW n \in Nodes, RequestRemove(n) PROVE records' \subseteq records
  BY <1>2 DEF RequestRemove, removeDead
<1>3. ASSUME NEW a \in Accepts, AcceptRemove(a) PROVE records' \subseteq records
  BY <1>3 DEF AcceptRemove, removeDead
<1>4. ASSUME IdfAdd PROVE \E c, p, n : records' = addClient(c, p, n)
  BY <1>4 DEF IdfAdd
<1>5. ASSUME MasterStep
      PROVE  \/ records' \subseteq records
             \/ \E c, p, n : records' = addClient(c, p, n)
             \/ \E c, p : records' = changePassword(c, p)
  <2>1. ASSUME NEW n \in Nodes, RequestBeat(n) \/ RequestAnswer(n) \/ RequestClear(n) \/ RequestDestroy(n)
        PROVE  records' = records
    BY <2>1 DEF RequestBeat, RequestAnswer, RequestClear, RequestDestroy
  <2>2. ASSUME NEW a \in Accepts, AcceptEof(a) \/ AcceptClear(a) \/ AcceptDestroy(a)
        PROVE  records' = records
    BY <2>2 DEF AcceptEof, AcceptClear, AcceptDestroy
  <2>3. ASSUME ListenReceive \/ ListenThrows \/ IdfFind \/ IdfInsert \/ UsrFind \/ UsrSet \/ UsrStart \/ Echo
        PROVE  records' = records
    BY <2>3 DEF ListenReceive, ListenThrows, IdfFind, IdfInsert, UsrFind, UsrSet, UsrStart, Echo
  <2> QED
    BY <1>1, <1>2, <1>3, <1>4, <1>5, <2>1, <2>2, <2>3 DEF MasterStep
<1>6. ASSUME NEW s \in Servers, ServerStep(s) PROVE records' = records
  <2>1. FailConnect(s) => records' = records
    BY DEF FailConnect
  <2>2. ASSUME Boot(s) \/ ConnectMain(s) \/ ConnectUser(s) \/ ConnectRefused(s) \/ Registered(s) \/ Broken(s)
        PROVE  records' = records
    BY <2>1, <2>2 DEF Boot, ConnectMain, ConnectUser, ConnectRefused, Registered, Broken, masterVars
  <2>3. ASSUME CmdStatus(s) \/ AddAsk(s) \/ UserAnswer(s) \/ RemoveLocal(s) \/ TruncateFile(s) \/ WriteFile(s) \/ UserBroken(s)
        PROVE  records' = records
    BY <2>3 DEF CmdStatus, AddAsk, UserAnswer, RemoveLocal, TruncateFile, WriteFile, UserBroken, masterVars
  <2>4. ASSUME NEW c \in Names, CmdRemove(s, c) \/ ClientStores(s, c) PROVE records' = records
    BY <2>4 DEF CmdRemove, ClientStores, masterVars
  <2>5. ASSUME NEW c \in Names, NEW p \in Pwds, CmdAdd(s, c, p) \/ CmdPassword(s, c, p)
        PROVE  records' = records
    BY <2>5 DEF CmdAdd, CmdPassword, masterVars
  <2> QED
    BY <1>6, <2>2, <2>3, <2>4, <2>5 DEF ServerStep
<1>7. ASSUME FaultStep \/ MasterStart PROVE records' \subseteq records
  <2>1. ASSUME NEW s \in Servers, Crash(s) \/ CmdClose(s) PROVE records' = records
    BY <2>1 DEF Crash, CmdClose, EndProcess
  <2> QED
    BY <1>7, <2>1 DEF FaultStep, MasterStart, CutMain, CutUser, CutPending, MasterCrash, HalfConnect
<1> QED
  BY <1>5, <1>6, <1>7 DEF Next, vars, masterVars

\* The master never has two records of one name (addClient looks and adds in
\* one synchronized step, from ClusterNet's thread and from the Accept
\* threads), and every variable has its type: for any number of servers,
\* names, threads, commands and faults.
THEOREM OneRecordPerName == Spec => []NamesUnique
<1> DEFINE Inv == WellTyped /\ torn \subseteq Nodes /\ \A r, q \in records : r.name = q.name => r = q
<1>1. Init => Inv
  BY InitTyped DEF Init, MasterInit
<1>2. Inv /\ [Next]_vars => Inv'
  <2> SUFFICES ASSUME WellTyped, torn \subseteq Nodes,
                      \A r, q \in records : r.name = q.name => r = q, [Next]_vars
               PROVE  /\ torn' \subseteq Nodes
                      /\ \A r, q \in records' : r.name = q.name => r = q
    BY NextTyped
  <2>0. torn' \subseteq Nodes
    <3>1. ASSUME NEW z, Crash(z) PROVE torn' \subseteq Nodes
      BY <3>1 DEF Crash
    <3>2. ASSUME FaultStep, \A z : ~Crash(z) PROVE torn' \subseteq Nodes
      BY <3>2 DEF FaultStep, CmdClose, CutMain, CutUser, CutPending, MasterCrash, HalfConnect
    <3>3. ASSUME KeepTorn \/ UNCHANGED torn \/ MasterStart PROVE torn' \subseteq Nodes
      BY <3>3 DEF KeepTorn, MasterStart
    <3> QED
      BY <3>1, <3>2, <3>3 DEF Next, vars
  <2>1. CASE records' \subseteq records
    BY <2>0, <2>1
  <2>2. ASSUME NEW c, NEW p, NEW n, records' = addClient(c, p, n)
        PROVE  \A r, q \in records' : r.name = q.name => r = q
    BY <2>2 DEF addClient, clientExist
  <2>3. ASSUME NEW c, NEW p, records' = changePassword(c, p)
        PROVE  \A r, q \in records' : r.name = q.name => r = q
    <3> SUFFICES ASSUME NEW r \in records', NEW q \in records', r.name = q.name
                 PROVE  r = q
      OBVIOUS
    <3>1. PICK x \in records : r = [x EXCEPT !.pwd = IF x.name = c THEN p ELSE x.pwd]
      BY <2>3 DEF changePassword
    <3>2. PICK y \in records : q = [y EXCEPT !.pwd = IF y.name = c THEN p ELSE y.pwd]
      BY <2>3 DEF changePassword
    <3>3. r.name = x.name /\ q.name = y.name
      BY <3>1, <3>2 DEF WellTyped, TypeOK
    <3>4. x = y
      BY <3>3
    <3> QED
      BY <3>1, <3>2, <3>4
  <2> QED
    BY <2>0, <2>1, <2>2, <2>3, RecordSteps
<1>3. Inv => NamesUnique
  BY DEF WellTyped, NamesUnique
<1> QED
  BY <1>1, <1>2, <1>3, PTL DEF Spec

-----------------------------------------------------------------------------
(* Records of dead nodes.                                                    *)

\* The node that ClusterNet's thread fills in is nobody else's.
FreshOK ==
  lst.pc = "add" => /\ node[lst.node].alive /\ node[lst.node].pc = "none"
                    /\ \A a \in Accepts : accept[a].node # lst.node

\* Some thread of n has its removeDead before it.
HasRemover(n) ==
  \/ node[n].pc \in {"sleep", "wait", "clear", "remove"}
  \/ \E a \in Accepts : accept[a].node = n /\ accept[a].pc \in {"new", "run", "clear", "remove"}

DeadOK == FreshOK /\ \A r \in records : ~node[r.owner].alive => HasRemover(r.owner)

\* The servers and the network change connections and lines, and nothing else
\* of the master's threads.
LEMMA CloseFacts ==
  ASSUME WellTyped, NEW s \in Servers
  PROVE  /\ CloseMain(s) => \A n \in Nodes : \/ node'[n] = node[n]
                                             \/ node'[n] = [node[n] EXCEPT !.peer = None]
         /\ CloseUser(s) => \A a \in Accepts :
              /\ accept'[a].pc = accept[a].pc /\ accept'[a].node = accept[a].node
              /\ accept'[a].in = accept[a].in
              /\ accept'[a].peer = Hang(accept[a].peer, s)
<1>1. ASSUME CloseMain(s), NEW n \in Nodes
      PROVE  node'[n] = node[n] \/ node'[n] = [node[n] EXCEPT !.peer = None]
  <2>1. node'[n] = [node[n] EXCEPT !.peer = Hang(node[n].peer, s)] /\ node[n] \in NodeStates
    BY <1>1 DEF CloseMain, WellTyped, TypeOK
  <2>2. [node[n] EXCEPT !.peer = node[n].peer] = node[n]
    BY <2>1 DEF NodeStates
  <2> QED
    BY <2>1, <2>2 DEF Hang
<1>2. ASSUME CloseUser(s), NEW a \in Accepts
      PROVE  /\ accept'[a].pc = accept[a].pc /\ accept'[a].node = accept[a].node
             /\ accept'[a].in = accept[a].in
             /\ accept'[a].peer = Hang(accept[a].peer, s)
  <2>1. accept'[a] = [accept[a] EXCEPT !.peer = Hang(accept[a].peer, s)] /\ accept[a] \in AcceptStates
    BY <1>2 DEF CloseUser, WellTyped, TypeOK
  <2> QED
    BY <2>1 DEF AcceptStates
<1> QED
  BY <1>1, <1>2

Aside ==
  /\ records' = records
  /\ \A n \in Nodes : node'[n] = node[n] \/ node'[n] = [node[n] EXCEPT !.peer = None]
  /\ \A a \in Accepts : /\ accept'[a].pc = accept[a].pc /\ accept'[a].node = accept[a].node
                         /\ accept'[a].peer \in {accept[a].peer, None}
  /\ lst'.pc = lst.pc /\ lst'.node = lst.node

LEMMA FailConnectAside ==
  ASSUME WellTyped, NEW s \in Servers, FailConnect(s)
  PROVE  Aside
<1>1. CASE srv[s].tries + 1 = MAX_TRY
  BY <1>1, CloseFacts DEF FailConnect, Aside, Hang
<1>2. CASE srv[s].tries + 1 # MAX_TRY
  BY <1>2 DEF FailConnect, Aside
<1> QED
  BY <1>1, <1>2

LEMMA AskAside ==
  ASSUME WellTyped, NEW s \in Servers, NEW v, NEW m, NEW st, Ask(s, v, m, st)
  PROVE  \A a \in Accepts : /\ accept'[a].pc = accept[a].pc /\ accept'[a].node = accept[a].node
                            /\ accept'[a].peer = accept[a].peer
<1> SUFFICES ASSUME NEW a \in Accepts
             PROVE  /\ accept'[a].pc = accept[a].pc /\ accept'[a].node = accept[a].node
                    /\ accept'[a].peer = accept[a].peer
  OBVIOUS
<1>1. accept[a] \in AcceptStates
  BY DEF WellTyped, TypeOK
<1>2. accept'[a] = accept[a] \/ accept'[a] = [accept[a] EXCEPT !.in = m]
  BY DEF Ask
<1> QED
  BY <1>1, <1>2 DEF AcceptStates

LEMMA ServerAside ==
  ASSUME WellTyped, NEW s \in Servers, ServerStep(s)
  PROVE  Aside
<1>1. CASE UNCHANGED masterVars
  BY <1>1 DEF masterVars, Aside
<1>2. CASE FailConnect(s)
  BY <1>2, FailConnectAside
<1>3. ASSUME NEW v, NEW m, NEW st, Ask(s, v, m, st), UNCHANGED <<records, node, lst>>
      PROVE  Aside
  BY <1>3, AskAside DEF Aside
<1>4. CASE Broken(s)
  BY <1>4, CloseFacts DEF Broken, Aside, Hang
<1>5. CASE ConnectMain(s) \/ ConnectUser(s) \/ ConnectRefused(s)
  BY <1>2, <1>5 DEF ConnectMain, ConnectUser, ConnectRefused, Aside
<1>6. CASE Boot(s) \/ Registered(s) \/ UserAnswer(s) \/ RemoveLocal(s) \/ TruncateFile(s) \/ WriteFile(s) \/ UserBroken(s)
  BY <1>1, <1>6 DEF Boot, Registered, UserAnswer, RemoveLocal, TruncateFile, WriteFile, UserBroken
<1>7. CASE CmdStatus(s) \/ AddAsk(s)
  BY <1>3, <1>7 DEF CmdStatus, AddAsk
<1>8. ASSUME NEW c \in Names, CmdRemove(s, c) \/ ClientStores(s, c) PROVE Aside
  BY <1>1, <1>3, <1>8 DEF CmdRemove, ClientStores
<1>9. ASSUME NEW c \in Names, NEW p \in Pwds, CmdAdd(s, c, p) \/ CmdPassword(s, c, p) PROVE Aside
  BY <1>1, <1>3, <1>9 DEF CmdAdd, CmdPassword
<1> QED
  BY <1>4, <1>5, <1>6, <1>7, <1>8, <1>9 DEF ServerStep

LEMMA FaultAside ==
  ASSUME WellTyped, FaultStep
  PROVE  Aside \/ MasterCrash
<1>1. ASSUME NEW s \in Servers, Crash(s) \/ CmdClose(s) PROVE Aside
  <2>1. EndProcess(s)
    BY <1>1 DEF Crash, CmdClose
  <2>2. lst'.pc = lst.pc /\ lst'.node = lst.node
    BY <2>1 DEF EndProcess, WellTyped, TypeOK, ListenStates
  <2>3. ASSUME NEW a \in Accepts
        PROVE  /\ accept'[a].pc = accept[a].pc /\ accept'[a].node = accept[a].node
               /\ accept'[a].peer \in {accept[a].peer, None}
    <3>1. accept[a] \in AcceptStates
      BY DEF WellTyped, TypeOK
    <3>2. CASE CloseUser(s)
      BY <3>2, CloseFacts DEF Hang
    <3>3. ASSUME NEW m, accept' = [b \in Accepts |-> IF b \in Line(s)
                   THEN [accept[b] EXCEPT !.in = m, !.peer = None] ELSE accept[b]]
          PROVE  /\ accept'[a].pc = accept[a].pc /\ accept'[a].node = accept[a].node
                 /\ accept'[a].peer \in {accept[a].peer, None}
      BY <3>1, <3>3 DEF AcceptStates
    <3> QED
      BY <1>1, <3>2, <3>3 DEF Crash, CmdClose
  <2> QED
    BY <2>1, <2>2, <2>3, CloseFacts DEF EndProcess, Aside
<1>2. ASSUME NEW n \in Nodes, CutMain(n) PROVE Aside
  BY <1>2 DEF CutMain, Aside, WellTyped, TypeOK
<1>3. ASSUME NEW a \in Accepts, CutUser(a) PROVE Aside
  BY <1>3 DEF CutUser, Aside, WellTyped, TypeOK, AcceptStates
<1>4. ASSUME (\E i \in DOMAIN backlog : CutPending(i)) \/ HalfConnect PROVE Aside
  BY <1>4 DEF CutPending, HalfConnect, Aside
<1> QED
  BY <1>1, <1>2, <1>3, <1>4 DEF FaultStep

LEMMA AsideDead ==
  ASSUME WellTyped, DeadOK, Aside
  PROVE  DeadOK'
<1>1. ASSUME NEW n \in Nodes PROVE node'[n].alive = node[n].alive /\ node'[n].pc = node[n].pc
  <2>1. node[n] \in NodeStates /\ (node'[n] = node[n] \/ node'[n] = [node[n] EXCEPT !.peer = None])
    BY DEF Aside, WellTyped, TypeOK
  <2> QED
    BY <2>1 DEF NodeStates
<1>2. \A n \in Nodes : HasRemover(n) => HasRemover(n)'
  BY <1>1 DEF Aside, HasRemover
<1>3. lst.pc = "add" => lst.node \in Nodes
  BY DEF WellTyped, ListenOK
<1>4. \A r \in records : r.owner \in Nodes
  BY DEF WellTyped, TypeOK
<1> QED
  BY <1>1, <1>2, <1>3, <1>4 DEF DeadOK, FreshOK, Aside

\* The master has records of k.
Owns(k) == \E r \in records : r.owner = k

LEMMA SteadyDead ==
  ASSUME WellTyped, WellTyped', DeadOK, FreshOK',
         \A k \in Nodes : Owns(k)' =>
           \/ node'[k].alive
           \/ HasRemover(k)'
           \/ /\ Owns(k) /\ (node[k].alive => node'[k].alive)
              /\ HasRemover(k) => HasRemover(k)'
  PROVE  DeadOK'
<1> SUFFICES ASSUME NEW r \in records', ~node'[r.owner].alive
             PROVE  HasRemover(r.owner)'
  BY DEF DeadOK
<1>1. r.owner \in Nodes /\ Owns(r.owner)'
  BY DEF WellTyped, TypeOK, Owns
<1>2. CASE Owns(r.owner) /\ ~node[r.owner].alive
  BY <1>1, <1>2 DEF DeadOK, Owns
<1> QED
  BY <1>1, <1>2

\* What a thread needs to know of the threads that it leaves alone.
LEMMA KeptRemover ==
  ASSUME NEW k, node'[k].pc = node[k].pc,
         \A a \in Accepts : accept[a].node = k /\ accept[a].pc \in {"new", "run", "clear", "remove"}
                           => accept'[a].node = k /\ accept'[a].pc \in {"new", "run", "clear", "remove"}
  PROVE  HasRemover(k) => HasRemover(k)'
  BY DEF HasRemover

LEMMA DestroyedSame ==
  ASSUME WellTyped, NEW n \in Nodes
  PROVE  \A a \in Accepts : /\ DestroyedAccept(n)[a].pc = accept[a].pc
                            /\ DestroyedAccept(n)[a].node = accept[a].node
                            /\ DestroyedAccept(n)[a].peer = accept[a].peer
                            /\ DestroyedAccept(n)[a].in = accept[a].in
<1> SUFFICES ASSUME NEW a \in Accepts
             PROVE  /\ DestroyedAccept(n)[a].pc = accept[a].pc
                    /\ DestroyedAccept(n)[a].node = accept[a].node
                    /\ DestroyedAccept(n)[a].peer = accept[a].peer
                    /\ DestroyedAccept(n)[a].in = accept[a].in
  OBVIOUS
<1>1. /\ accept[a] \in AcceptStates
      /\ \/ DestroyedAccept(n)[a] = accept[a]
         \/ DestroyedAccept(n)[a] = [accept[a] EXCEPT !.t = FALSE]
  BY DestroyFacts DEF WellTyped, TypeOK
<1> QED
  BY <1>1 DEF AcceptStates

LEMMA RequestDead ==
  ASSUME WellTyped, WellTyped', DeadOK, NEW n \in Nodes,
         RequestBeat(n) \/ RequestAnswer(n) \/ RequestClear(n) \/ RequestDestroy(n)
         \/ RequestRemove(n)
  PROVE  DeadOK'
<1>1. node \in [Nodes -> NodeStates] /\ node[n] \in NodeStates
  BY DEF WellTyped, TypeOK
<1>2. lst.pc = "add" => lst.node \in Nodes \ {n}
  BY DEF DeadOK, FreshOK, WellTyped, ListenOK, RequestBeat, RequestAnswer, RequestClear,
         RequestDestroy, RequestRemove
<1>3. CASE RequestBeat(n) \/ RequestAnswer(n) \/ RequestClear(n)
  <2>1. UNCHANGED <<records, accept, lst>>
    BY <1>3 DEF RequestBeat, RequestAnswer, RequestClear
  <2>2. \A k \in Nodes : k # n => node'[k] = node[k]
    BY <1>1, <1>3 DEF RequestBeat, RequestAnswer, RequestClear, SetPc
  <2>3. node'[n].alive \/ node'[n].pc \in {"sleep", "wait", "clear", "remove"}
    BY <1>1, <1>3 DEF RequestBeat, RequestAnswer, RequestClear, SetPc, NodeStates
  <2>4. FreshOK'
    BY <1>2, <2>1, <2>2 DEF DeadOK, FreshOK
  <2>5. \A k \in Nodes : k # n => (HasRemover(k) => HasRemover(k)') /\ (Owns(k)' => Owns(k))
    BY <2>1, <2>2 DEF HasRemover, Owns
  <2> QED
    BY <2>2, <2>3, <2>4, <2>5, SteadyDead DEF HasRemover
<1>4. CASE RequestDestroy(n)
  <2> DEFINE v == [DestroyedNode(n) EXCEPT !.pc = IF DestroyThrows(n) THEN "end" ELSE "remove"]
             nd == [node EXCEPT ![n] = v]
  <2>1. /\ accept' = DestroyedAccept(n) /\ node' = Collected(nd) /\ node[n].pc = "destroy"
        /\ UNCHANGED <<records, fsnodes, lst, backlog, lost, stolen, srv>>
    BY <1>4 DEF RequestDestroy
  <2>2. /\ v \in NodeStates /\ v.pc = IF DestroyThrows(n) THEN "end" ELSE "remove"
        /\ v.alive = DestroyedNode(n).alive
    BY DestroyFacts DEF NodeStates
  <2>3. DestroyThrows(n) => (node[n].alive => v.alive)
    BY <1>1, <2>2 DEF DestroyedNode, NodeStates
  <2> HIDE DEF v
  <2>4. nd \in [Nodes -> NodeStates]
    BY <1>1, <2>2
  <2>5. \A k \in Nodes : Owns(k)' \/ lst.node = k => node'[k] = nd[k]
    BY <2>1, <2>4, CollectFacts DEF Owns
  <2>6. nd[n] = v /\ \A k \in Nodes : k # n => nd[k] = node[k]
    BY <1>1
  <2> HIDE DEF nd
  <2>7. \A a \in Accepts : accept'[a].pc = accept[a].pc /\ accept'[a].node = accept[a].node
    BY <2>1, DestroyedSame
  <2>8. FreshOK'
    BY <1>2, <2>1, <2>5, <2>6, <2>7 DEF DeadOK, FreshOK
  <2>9. ASSUME NEW k \in Nodes, Owns(k)'
        PROVE  \/ HasRemover(k)'
               \/ /\ Owns(k) /\ (node[k].alive => node'[k].alive)
                  /\ HasRemover(k) => HasRemover(k)'
    <3>1. Owns(k)
      BY <2>1, <2>9 DEF Owns
    <3>2. CASE k # n
      <4>1. node'[k] = node[k]
        BY <2>5, <2>6, <2>9, <3>2
      <4> QED
        BY <2>7, <3>1, <4>1, KeptRemover
    <3>3. CASE k = n
      BY <2>1, <2>2, <2>3, <2>5, <2>6, <2>7, <2>9, <3>1, <3>3 DEF HasRemover
    <3> QED
      BY <3>2, <3>3
  <2> QED
    BY <2>8, <2>9, SteadyDead
<1>5. CASE RequestRemove(n)
  <2> DEFINE v == [node[n] EXCEPT !.pc = "end"]
             nd == [node EXCEPT ![n] = v]
  <2>1. node' = Collected(nd) /\ removeDead(n) /\ Disturb /\ accept' = accept
    BY <1>5 DEF RequestRemove
  <2>2. v \in NodeStates
    BY <1>1 DEF NodeStates
  <2> HIDE DEF v
  <2>3. nd \in [Nodes -> NodeStates]
    BY <1>1, <2>2
  <2>4. \A k \in Nodes : k # n => nd[k] = node[k]
    BY <1>1
  <2>5. \A k \in Nodes : Owns(k)' \/ lst.node = k => node'[k] = nd[k]
    BY <2>1, <2>3, CollectFacts DEF Owns
  <2> HIDE DEF nd
  <2>6. ~Owns(n)' /\ \A k : Owns(k)' => Owns(k)
    BY <2>1 DEF removeDead, Owns
  <2>7. lst'.pc = lst.pc /\ lst'.node = lst.node
    BY <2>1 DEF Disturb, WellTyped, TypeOK, ListenStates
  <2>8. FreshOK'
    BY <1>2, <2>1, <2>4, <2>5, <2>7 DEF DeadOK, FreshOK
  <2>9. \A k \in Nodes : Owns(k)' => node'[k] = node[k] /\ (HasRemover(k) => HasRemover(k)')
    BY <2>1, <2>4, <2>5, <2>6 DEF HasRemover
  <2> QED
    BY <2>6, <2>8, <2>9, SteadyDead
<1> QED
  BY <1>3, <1>4, <1>5

\* The state of the table and the threads after a line was worked on.
LEMMA AcceptMessageFacts ==
  ASSUME WellTyped, NEW a \in Accepts, AcceptMessage(a), NEW n, n = accept[a].node
  PROVE
         /\ n \in Nodes /\ \A k \in Nodes : k # n => node'[k] = node[k]
         /\ node'[n] = node[n] \/ node'[n] = DestroyedNode(n)
         /\ \A b \in Accepts : /\ accept'[b].node = accept[b].node /\ accept'[b].peer = accept[b].peer
                               /\ b # a => accept'[b].pc = accept[b].pc /\ accept'[b].in = accept[b].in
         /\ accept'[a].pc \in {"run", "clear"} /\ accept'[a].in = None
         /\ UNCHANGED <<lst, backlog>>
         /\ \A k : Owns(k)' => Owns(k) \/ k = n
<1> DEFINE m == accept[a].in
           next == [accept EXCEPT ![a].in = None, ![a].pc = AfterMessage(a)]
<1>1. /\ accept \in [Accepts -> AcceptStates] /\ accept[a] \in AcceptStates /\ n \in Nodes
      /\ node \in [Nodes -> NodeStates] /\ m \in Orders
  BY DEF WellTyped, TypeOK, AcceptMessage, AcceptsOK, AcceptStates
<1>2. UNCHANGED <<lst, backlog>>
  BY DEF AcceptMessage
<1>3. CASE m.op = "CLS"
  <2> DEFINE f == DestroyedAccept(n)
  <2>1. /\ node' = [node EXCEPT ![n] = DestroyedNode(n)] /\ records' = records
        /\ accept' = [f EXCEPT ![a] = [f[a] EXCEPT !.in = None, !.pc = "clear"]]
    BY <1>3 DEF AcceptMessage
  <2>2. /\ f \in [Accepts -> AcceptStates] /\ f[a] \in AcceptStates
        /\ \A b \in Accepts : /\ f[b].pc = accept[b].pc /\ f[b].node = accept[b].node
                              /\ f[b].peer = accept[b].peer /\ f[b].in = accept[b].in
    BY <1>1, DestroyFacts, DestroyedSame
  <2> HIDE DEF f
  <2>3. /\ accept'[a].node = f[a].node /\ accept'[a].peer = f[a].peer
        /\ accept'[a].pc = "clear" /\ accept'[a].in = None
        /\ \A b \in Accepts : b # a => accept'[b] = f[b]
    BY <2>1, <2>2 DEF AcceptStates
  <2>4. \A b \in Accepts : /\ accept'[b].node = accept[b].node /\ accept'[b].peer = accept[b].peer
                           /\ b # a => accept'[b].pc = accept[b].pc /\ accept'[b].in = accept[b].in
    BY <2>2, <2>3
  <2>5. node'[n] = DestroyedNode(n) /\ \A k \in Nodes : k # n => node'[k] = node[k]
    BY <1>1, <2>1
  <2> QED
    BY <1>1, <1>2, <2>1, <2>3, <2>4, <2>5 DEF Owns
<1>4. CASE m.op # "CLS"
  <2>1. accept' = next /\ node' = node
    BY <1>4 DEF AcceptMessage
  <2>2. AfterMessage(a) \in {"run", "clear"}
    BY DEF AfterMessage
  <2>3. /\ accept'[a].node = accept[a].node /\ accept'[a].peer = accept[a].peer
        /\ accept'[a].pc \in {"run", "clear"} /\ accept'[a].in = None
        /\ \A b \in Accepts : b # a => accept'[b] = accept[b]
    BY <1>1, <2>1, <2>2 DEF AcceptStates
  <2>4. \/ records' = records \/ records' = removeClient(m.name)
        \/ records' = addClient(m.name, m.pwd, n) \/ records' = changePassword(m.name, m.pwd)
    BY <1>4 DEF AcceptMessage
  <2>5. \A k : Owns(k)' => Owns(k) \/ k = n
    <3> SUFFICES ASSUME NEW r \in records'
                 PROVE  r.owner = n \/ \E q \in records : q.owner = r.owner
      BY DEF Owns
    <3>1. CASE r \in records
      BY <3>1
    <3>2. CASE r \notin records /\ records' = addClient(m.name, m.pwd, n)
      BY <3>2 DEF addClient
    <3>3. CASE records' = changePassword(m.name, m.pwd)
      BY <3>3 DEF changePassword, WellTyped, TypeOK
    <3> QED
      BY <2>4, <3>1, <3>2, <3>3 DEF removeClient
  <2> QED
    BY <1>1, <1>2, <2>1, <2>3, <2>5
<1> QED
  BY <1>3, <1>4

LEMMA AcceptMessageDead ==
  ASSUME WellTyped, WellTyped', DeadOK, NEW a \in Accepts, AcceptMessage(a)
  PROVE  DeadOK'
<1>0. PICK n : n = accept[a].node
  OBVIOUS
<1>1. /\ n \in Nodes /\ \A k \in Nodes : k # n => node'[k] = node[k]
      /\ \A b \in Accepts : /\ accept'[b].node = accept[b].node
                            /\ b # a => accept'[b].pc = accept[b].pc
      /\ accept'[a].pc \in {"run", "clear"} /\ lst' = lst
      /\ \A k : Owns(k)' => Owns(k) \/ k = n
  BY <1>0, AcceptMessageFacts
<1>2. lst.pc = "add" => lst.node \in Nodes \ {n}
  BY <1>0 DEF DeadOK, FreshOK, WellTyped, ListenOK
<1>3. FreshOK'
  BY <1>1, <1>2 DEF DeadOK, FreshOK
<1>4. HasRemover(n)'
  BY <1>0, <1>1 DEF HasRemover
<1>5. ASSUME NEW k \in Nodes, k # n PROVE HasRemover(k) => HasRemover(k)'
  BY <1>0, <1>1, <1>5 DEF HasRemover
<1> QED
  BY <1>1, <1>3, <1>4, <1>5, SteadyDead

\* A thread that ends leaves the threads of the other nodes alone.
LEMMA AcceptEndFacts ==
  ASSUME WellTyped, NEW a \in Accepts,
         AcceptEof(a) \/ AcceptClear(a) \/ AcceptDestroy(a) \/ AcceptRemove(a),
         NEW n, n = accept[a].node
  PROVE
         /\ n \in Nodes
         /\ \A k \in Nodes : Owns(k)' \/ lst.node = k \/ (\E b \in Accepts : accept'[b].node = k)
              => /\ node'[k].pc = node[k].pc /\ node'[k].of = node[k].of /\ node'[k].id = node[k].id
                 /\ node'[k].alive = node[k].alive
                    \/ (k = n /\ AcceptDestroy(a) /\ ~DestroyThrows(n))
         /\ \A b \in Accepts : b # a =>
              /\ accept'[b].node = accept[b].node /\ accept'[b].peer = accept[b].peer
              /\ accept'[b].pc = accept[b].pc /\ accept'[b].in = accept[b].in
         /\ \/ /\ accept'[a] = NoAccept
               /\ (accept[a].pc = "destroy" /\ DestroyThrows(n)) \/ ~Owns(n)'
            \/ /\ accept'[a].node = n /\ accept'[a].peer \in {accept[a].peer, None}
               /\ accept'[a].in = accept[a].in
               /\ \/ accept'[a].pc \in {"clear", "remove"}
                  \/ AcceptClear(a) /\ node[n].alive /\ accept'[a].pc = "destroy"
         /\ records' \subseteq records
         /\ lst'.pc = lst.pc /\ lst'.node = lst.node /\ lst'.msg = lst.msg /\ backlog' = backlog
         /\ srv' = srv
<1>1. /\ accept \in [Accepts -> AcceptStates] /\ accept[a] \in AcceptStates /\ n \in Nodes
      /\ node \in [Nodes -> NodeStates]
  BY DEF WellTyped, TypeOK, AcceptsOK, AcceptEof, AcceptClear, AcceptDestroy, AcceptRemove
<1>2. CASE AcceptEof(a) \/ AcceptClear(a)
  <2>1. UNCHANGED <<records, node, lst, backlog, srv>>
    BY <1>2 DEF AcceptEof, AcceptClear
  <2>2. \A b \in Accepts : b # a => accept'[b] = accept[b]
    BY <1>1, <1>2 DEF AcceptEof, AcceptClear
  <2>3. /\ accept'[a].node = n /\ accept'[a].peer \in {accept[a].peer, None}
        /\ accept'[a].in = accept[a].in
        /\ \/ accept'[a].pc \in {"clear", "remove"}
           \/ AcceptClear(a) /\ node[n].alive /\ accept'[a].pc = "destroy"
    <3>1. CASE AcceptEof(a)
      BY <1>1, <3>1 DEF AcceptEof, AcceptStates
    <3>2. CASE AcceptClear(a)
      BY <1>1, <3>2 DEF AcceptClear, AcceptStates
    <3> QED
      BY <1>2, <3>1, <3>2
  <2> QED
    BY <1>1, <2>1, <2>2, <2>3
<1>3. CASE AcceptDestroy(a)
  <2> DEFINE v == IF DestroyThrows(n) THEN NoAccept
                  ELSE [accept[a] EXCEPT !.pc = "remove", !.t = FALSE]
             w == [DestroyedNode(n) EXCEPT !.fsa = IF @ = a THEN None ELSE @]
             nd == [node EXCEPT ![n] = w]
             f == DestroyedAccept(n)
  <2>1. /\ accept' = [f EXCEPT ![a] = v] /\ node' = Collected(nd) /\ accept[a].pc = "destroy"
        /\ UNCHANGED <<records, lst, backlog, srv>>
    BY <1>3 DEF AcceptDestroy
  <2>2. /\ w \in NodeStates /\ w.pc = node[n].pc /\ w.of = node[n].of /\ w.id = node[n].id
        /\ w.alive = DestroyedNode(n).alive
    BY <1>1, DestroyFacts DEF NodeStates
  <2>3. w.alive = node[n].alive \/ ~DestroyThrows(n)
    BY <1>1, <2>2 DEF DestroyedNode, NodeStates
  <2>4. /\ f \in [Accepts -> AcceptStates]
        /\ \A b \in Accepts : /\ f[b].pc = accept[b].pc /\ f[b].node = accept[b].node
                              /\ f[b].peer = accept[b].peer /\ f[b].in = accept[b].in
    BY <1>1, DestroyFacts, DestroyedSame
  <2>5. \/ v = NoAccept /\ DestroyThrows(n)
        \/ v.node = n /\ v.peer = accept[a].peer /\ v.in = accept[a].in /\ v.pc = "remove"
    BY <1>1 DEF AcceptStates
  <2> HIDE DEF v, w, f
  <2>6. nd \in [Nodes -> NodeStates] /\ nd[n] = w /\ \A k \in Nodes : k # n => nd[k] = node[k]
    BY <1>1, <2>2
  <2> HIDE DEF nd
  <2>7. \A k \in Nodes : Owns(k)' \/ lst.node = k \/ (\E b \in Accepts : accept'[b].node = k)
                        => node'[k] = nd[k]
    BY <2>1, <2>6, CollectFacts DEF Owns
  <2>8. accept'[a] = v /\ \A b \in Accepts : b # a => accept'[b] = f[b]
    BY <2>1, <2>4
  <2>9. \A k \in Nodes : /\ nd[k].pc = node[k].pc /\ nd[k].of = node[k].of /\ nd[k].id = node[k].id
                         /\ nd[k].alive = node[k].alive \/ (k = n /\ ~DestroyThrows(n))
    BY <2>2, <2>3, <2>6
  <2>10. \A k \in Nodes : Owns(k)' \/ lst.node = k \/ (\E b \in Accepts : accept'[b].node = k)
          => /\ node'[k].pc = node[k].pc /\ node'[k].of = node[k].of /\ node'[k].id = node[k].id
             /\ node'[k].alive = node[k].alive \/ (k = n /\ ~DestroyThrows(n))
    BY <2>7, <2>9
  <2> QED
    BY <1>1, <1>3, <2>1, <2>4, <2>5, <2>8, <2>10
<1>4. CASE AcceptRemove(a)
  <2> DEFINE nd == [k \in Nodes |-> [node[k] EXCEPT !.fsa = IF @ = a THEN None ELSE @]]
  <2>1. /\ node' = Collected(nd) /\ accept' = [accept EXCEPT ![a] = NoAccept]
        /\ removeDead(n) /\ Disturb /\ UNCHANGED <<backlog, srv>>
    BY <1>4 DEF AcceptRemove
  <2>2. nd \in [Nodes -> NodeStates]
    BY <1>1 DEF NodeStates
  <2>3. \A k \in Nodes : /\ nd[k].pc = node[k].pc /\ nd[k].of = node[k].of /\ nd[k].id = node[k].id
                         /\ nd[k].alive = node[k].alive
    BY <1>1 DEF NodeStates
  <2> HIDE DEF nd
  <2>4. \A k \in Nodes : Owns(k)' \/ lst.node = k \/ (\E b \in Accepts : accept'[b].node = k)
                        => node'[k] = nd[k]
    BY <2>1, <2>2, CollectFacts DEF Owns
  <2>5. /\ lst'.pc = lst.pc /\ lst'.node = lst.node /\ lst'.msg = lst.msg
    BY <2>1 DEF Disturb, WellTyped, TypeOK, ListenStates
  <2>6. ~Owns(n)' /\ records' \subseteq records
    BY <2>1 DEF removeDead, Owns
  <2>7. accept'[a] = NoAccept /\ \A b \in Accepts : b # a => accept'[b] = accept[b]
    BY <1>1, <2>1
  <2> QED
    BY <1>1, <2>1, <2>3, <2>4, <2>5, <2>6, <2>7
<1> QED
  BY <1>2, <1>3, <1>4

LEMMA AcceptEndDead ==
  ASSUME WellTyped, WellTyped', DeadOK, NEW a \in Accepts,
         AcceptEof(a) \/ AcceptClear(a) \/ AcceptDestroy(a) \/ AcceptRemove(a)
  PROVE  DeadOK'
<1>0. PICK n : n = accept[a].node
  OBVIOUS
<1>1. /\ n \in Nodes
      /\ \A k \in Nodes : Owns(k)' \/ lst.node = k \/ (\E b \in Accepts : accept'[b].node = k)
           => /\ node'[k].pc = node[k].pc
              /\ node'[k].alive = node[k].alive
                 \/ (k = n /\ AcceptDestroy(a) /\ ~DestroyThrows(n))
      /\ \A b \in Accepts : b # a => accept'[b].node = accept[b].node /\ accept'[b].pc = accept[b].pc
      /\ \/ /\ accept'[a] = NoAccept
            /\ (accept[a].pc = "destroy" /\ DestroyThrows(n)) \/ ~Owns(n)'
         \/ /\ accept'[a].node = n
            /\ \/ accept'[a].pc \in {"clear", "remove"}
               \/ AcceptClear(a) /\ node[n].alive /\ accept'[a].pc = "destroy"
      /\ records' \subseteq records /\ lst'.pc = lst.pc /\ lst'.node = lst.node
  BY <1>0, AcceptEndFacts
<1>2. lst.pc = "add" => lst.node \in Nodes \ {n}
  BY <1>0 DEF DeadOK, FreshOK, WellTyped, ListenOK
<1>3. FreshOK'
  <2> SUFFICES ASSUME lst.pc = "add"
               PROVE  /\ node'[lst.node].alive /\ node'[lst.node].pc = "none"
                      /\ \A b \in Accepts : accept'[b].node # lst.node
    BY <1>1 DEF FreshOK
  <2>1. /\ node[lst.node].alive /\ node[lst.node].pc = "none" /\ lst.node \in Nodes \ {n}
        /\ \A b \in Accepts : accept[b].node # lst.node
    BY <1>2 DEF DeadOK, FreshOK
  <2>2. node'[lst.node].alive /\ node'[lst.node].pc = "none"
    BY <1>1, <2>1
  <2>3. accept'[a].node # lst.node
    BY <1>1, <2>1, NoneIsNone DEF NoAccept
  <2> QED
    BY <1>1, <2>1, <2>2, <2>3
<1>4. ASSUME NEW k \in Nodes, Owns(k)'
      PROVE  \/ node'[k].alive
             \/ HasRemover(k)'
             \/ /\ Owns(k) /\ (node[k].alive => node'[k].alive)
                /\ HasRemover(k) => HasRemover(k)'
  <2>1. Owns(k) /\ node'[k].pc = node[k].pc
    BY <1>1, <1>4 DEF Owns
  <2>2. CASE k # n
    <3>1. node'[k].alive = node[k].alive
      BY <1>1, <1>4, <2>2
    <3>2. HasRemover(k) => HasRemover(k)'
      BY <1>0, <1>1, <2>1, <2>2, KeptRemover
    <3> QED
      BY <2>1, <3>1, <3>2
  <2>3. CASE k = n /\ accept'[a].node = n /\ accept'[a].pc \in {"clear", "remove"}
    BY <2>3 DEF HasRemover
  <2>4. CASE k = n /\ AcceptClear(a) /\ node[n].alive
    <3>1. ~AcceptDestroy(a)
      BY <2>4 DEF AcceptClear, AcceptDestroy
    <3>2. node'[k].alive = node[k].alive
      BY <1>1, <1>4, <3>1
    <3> QED
      BY <2>4, <3>2
  <2>5. CASE k = n /\ accept[a].pc = "destroy" /\ DestroyThrows(n)
    <3>1. node'[k].alive = node[k].alive
      BY <1>1, <1>4, <2>5
    <3>2. HasRemover(k) => HasRemover(k)'
      BY <1>0, <1>1, <2>1, <2>5, KeptRemover
    <3> QED
      BY <2>1, <3>1, <3>2
  <2> QED
    BY <1>1, <1>4, <2>2, <2>3, <2>4, <2>5
<1> QED
  BY <1>3, <1>4, SteadyDead

LEMMA EchoDead ==
  ASSUME WellTyped, WellTyped', DeadOK, Echo
  PROVE  DeadOK'
<1>1. node' = Collected(node) /\ UNCHANGED <<records, accept>> /\ Disturb
      /\ node \in [Nodes -> NodeStates]
  BY DEF Echo, WellTyped, TypeOK
<1>2. \A k \in Nodes : Owns(k)' \/ lst.node = k => node'[k] = node[k]
  BY <1>1, CollectFacts DEF Owns
<1>3. lst'.pc = lst.pc /\ lst'.node = lst.node
  BY <1>1 DEF Disturb, WellTyped, TypeOK, ListenStates
<1>4. FreshOK'
  BY <1>1, <1>2, <1>3 DEF DeadOK, FreshOK, WellTyped, ListenOK
<1>5. \A k \in Nodes : Owns(k)' => Owns(k) /\ (HasRemover(k) => HasRemover(k)')
  BY <1>1, <1>2 DEF Owns, HasRemover
<1> QED
  BY <1>2, <1>4, <1>5, SteadyDead

LEMMA ListenDead ==
  ASSUME WellTyped, WellTyped', DeadOK,
         ListenReceive \/ ListenThrows \/ IdfFind \/ IdfAdd \/ IdfInsert
         \/ UsrFind \/ UsrSet \/ UsrStart
  PROVE  DeadOK'
<1>1. node \in [Nodes -> NodeStates] /\ accept \in [Accepts -> AcceptStates] /\ lst \in ListenStates
  BY DEF WellTyped, TypeOK
<1>2. CASE ListenReceive \/ ListenThrows
  <2>1. UNCHANGED <<records, node, accept>>
    BY <1>2 DEF ListenReceive, ListenThrows
  <2>2. lst'.pc # "add"
    <3>1. \/ lst' = Idle \/ lst' = [Idle EXCEPT !.pc = "stopped"]
          \/ lst' = [Idle EXCEPT !.pc = "find", !.msg = Head(backlog)]
      BY <1>2 DEF ListenReceive, ListenThrows
    <3>2. CASE lst' = Idle
      BY <3>2 DEF Idle
    <3>3. CASE lst' = [Idle EXCEPT !.pc = "stopped"]
      BY <3>3 DEF Idle
    <3>4. CASE lst' = [Idle EXCEPT !.pc = "find", !.msg = Head(backlog)]
      BY <3>4 DEF Idle
    <3> QED
      BY <3>1, <3>2, <3>3, <3>4
  <2>3. \A k \in Nodes : (HasRemover(k) => HasRemover(k)') /\ (Owns(k)' => Owns(k))
    BY <2>1 DEF HasRemover, Owns
  <2> QED
    BY <2>1, <2>2, <2>3, SteadyDead DEF FreshOK
<1>3. CASE IdfFind
  <2>1. /\ NewNode \in Nodes /\ FreeNode(NewNode) /\ UNCHANGED <<records, accept>>
        /\ node' = [node EXCEPT ![NewNode] = [NoNode EXCEPT !.of = lst.msg.id]]
        /\ lst' = [lst EXCEPT !.pc = "add", !.node = NewNode,
                   !.todo = {c \in Names : lst.msg.entries[c] # None}]
    BY <1>3, NewFacts DEF IdfFind
  <2>2. PICK n \in Nodes : n = NewNode
    BY <2>1
  <2>3. node'[n].alive /\ node'[n].pc = "none" /\ \A k \in Nodes : k # n => node'[k] = node[k]
    BY <1>1, <2>1, <2>2 DEF NoNode
  <2>4. lst'.node = n /\ ~Owns(n) /\ \A a \in Accepts : accept[a].node # n
    BY <1>1, <2>1, <2>2 DEF FreeNode, Owns, ListenStates
  <2>5. FreshOK'
    BY <2>1, <2>3, <2>4 DEF FreshOK
  <2>6. ASSUME NEW k \in Nodes, k # n PROVE HasRemover(k) => HasRemover(k)'
    BY <2>1, <2>3, <2>6 DEF HasRemover
  <2>7. \A k \in Nodes : Owns(k)' => Owns(k)
    BY <2>1 DEF Owns
  <2> QED
    BY <2>3, <2>4, <2>5, <2>6, <2>7, SteadyDead
<1>4. CASE IdfAdd
  <2>1. UNCHANGED <<node, accept>> /\ lst.pc = "add"
    BY <1>4 DEF IdfAdd
  <2>2. PICK c \in lst.todo :
          /\ records' = addClient(c, lst.msg.entries[c], lst.node)
          /\ lst' = Idle \/ lst' = [lst EXCEPT !.todo = @ \ {c}]
    BY <1>4 DEF IdfAdd
  <2>3. FreshOK'
    <3>1. CASE lst' = Idle
      BY <3>1 DEF FreshOK, Idle
    <3>2. CASE lst' = [lst EXCEPT !.todo = @ \ {c}]
      BY <1>1, <2>1, <3>2 DEF DeadOK, FreshOK, ListenStates
    <3> QED
      BY <2>2, <3>1, <3>2
  <2>4. \A k : Owns(k)' => Owns(k) \/ k = lst.node
    BY <2>2 DEF Owns, addClient
  <2>5. node[lst.node].alive
    BY <2>1 DEF DeadOK, FreshOK
  <2>6. \A k \in Nodes : HasRemover(k) => HasRemover(k)'
    BY <2>1 DEF HasRemover
  <2> QED
    BY <2>1, <2>3, <2>4, <2>5, <2>6, SteadyDead
<1>5. CASE IdfInsert
  <2>1. PICK n \in Nodes : n = lst.node
    BY <1>5 DEF IdfInsert, WellTyped, ListenOK
  <2>2. /\ UNCHANGED <<records, accept>> /\ lst' = Idle /\ node'[n].pc = "sleep"
        /\ \A k \in Nodes : k # n => node'[k] = node[k]
    BY <1>1, <1>5, <2>1 DEF IdfInsert, NodeStates
  <2>3. FreshOK' /\ HasRemover(n)'
    BY <2>2 DEF FreshOK, Idle, HasRemover
  <2>4. ASSUME NEW k \in Nodes, k # n PROVE HasRemover(k) => HasRemover(k)'
    BY <2>2, <2>4 DEF HasRemover
  <2>5. \A k \in Nodes : Owns(k)' => Owns(k)
    BY <2>2 DEF Owns
  <2> QED
    BY <2>2, <2>3, <2>4, <2>5, SteadyDead
<1>6. CASE UsrFind
  <2>1. UNCHANGED <<records, accept>> /\ lst'.pc = "set"
    BY <1>1, <1>6 DEF UsrFind, ListenStates
  <2>2. \A k \in Nodes : Owns(k)' => node'[k] = node[k]
    <3>1. CASE node' = node
      BY <3>1
    <3>2. CASE node' # node
      <4>1. NewNode \in Nodes /\ FreeNode(NewNode)
            /\ node' = [node EXCEPT ![NewNode] = [NoNode EXCEPT !.of = lst.msg.id]]
        BY <1>6, <3>2, NewFacts DEF UsrFind
      <4> QED
        BY <1>1, <2>1, <4>1 DEF FreeNode, Owns
    <3> QED
      BY <3>1, <3>2
  <2>3. FreshOK'
    BY <2>1 DEF FreshOK
  <2>4. \A k \in Nodes : Owns(k)' => Owns(k) /\ (HasRemover(k) => HasRemover(k)')
    BY <2>1, <2>2 DEF HasRemover, Owns
  <2> QED
    BY <2>2, <2>3, <2>4, SteadyDead
<1>7. CASE UsrSet
  <2>1. /\ NewAccept \in Accepts /\ accept[NewAccept].pc = "none" /\ lst.node \in Nodes
        /\ accept' = [accept EXCEPT ![NewAccept] = [NoAccept EXCEPT !.pc = "new", !.node = lst.node,
                                                                   !.peer = lst.msg.peer]]
        /\ node' = [node EXCEPT ![lst.node].fsa = NewAccept]
        /\ lst' = [lst EXCEPT !.pc = "start"] /\ records' = records
    BY <1>7, NewFacts DEF UsrSet, FreeAccept, WellTyped, ListenOK
  <2>2. \A k \in Nodes : node'[k].alive = node[k].alive /\ node'[k].pc = node[k].pc
    BY <1>1, <2>1 DEF NodeStates
  <2>3. \A a \in Accepts : accept[a].pc # "none" => accept'[a] = accept[a]
    BY <1>1, <2>1
  <2>4. FreshOK'
    BY <1>1, <2>1 DEF FreshOK, ListenStates
  <2>5. \A k \in Nodes : (HasRemover(k) => HasRemover(k)') /\ (Owns(k)' => Owns(k))
    BY <2>1, <2>2, <2>3 DEF HasRemover, Owns
  <2> QED
    BY <2>2, <2>4, <2>5, SteadyDead
<1>8. CASE UsrStart
  <2>1. PICK a \in Accepts : accept' = [accept EXCEPT ![a].pc = "run", ![a].t = TRUE]
    BY <1>8 DEF UsrStart
  <2>2. UNCHANGED <<records, node>> /\ lst' = Idle
    BY <1>8 DEF UsrStart
  <2>3. \A b \in Accepts : /\ accept'[b].node = accept[b].node
                           /\ accept'[b].pc = accept[b].pc \/ accept'[b].pc = "run"
    BY <1>1, <2>1 DEF AcceptStates
  <2>4. FreshOK'
    BY <2>2 DEF FreshOK, Idle
  <2>5. \A k \in Nodes : (HasRemover(k) => HasRemover(k)') /\ (Owns(k)' => Owns(k))
    BY <2>2, <2>3 DEF HasRemover, Owns
  <2> QED
    BY <2>2, <2>4, <2>5, SteadyDead
<1> QED
  BY <1>2, <1>3, <1>4, <1>5, <1>6, <1>7, <1>8

LEMMA InitDead == Init => DeadOK
  BY DEF Init, MasterInit, DeadOK, FreshOK, Idle

LEMMA NextDead ==
  ASSUME WellTyped, WellTyped', DeadOK, [Next]_vars
  PROVE  DeadOK'
<1>1. CASE MasterStep
  BY <1>1, ListenDead, RequestDead, AcceptMessageDead, AcceptEndDead, EchoDead DEF MasterStep
<1>2. CASE \E s \in Servers : ServerStep(s)
  BY <1>2, ServerAside, AsideDead
<1>3. CASE MasterCrash
  BY <1>3 DEF MasterCrash, DeadOK, FreshOK, Idle
<1>4. CASE FaultStep
  BY <1>3, <1>4, FaultAside, AsideDead
<1>5. CASE MasterStart
  <2>1. UNCHANGED <<records, node, accept>> /\ lst'.pc = "accept"
    BY <1>5 DEF MasterStart, Idle
  <2> QED
    BY <2>1 DEF DeadOK, FreshOK, HasRemover
<1>6. CASE UNCHANGED vars
  <2>1. UNCHANGED <<records, node, accept, lst>>
    BY <1>6 DEF vars, masterVars
  <2> QED
    BY <2>1 DEF DeadOK, FreshOK, HasRemover
<1> QED
  BY <1>1, <1>2, <1>4, <1>5, <1>6 DEF Next

\* A record of a node that was destroyed is still going to be removed: of the
\* threads that meet at a dead node (Request and Accept threads that end,
\* garbageCollection, a command CLS, ADD lines that arrive late) one that has
\* not called removeDead yet is always left.
THEOREM DeadRecordsAreRemoved == Spec => []DeadRecordsHaveRemover
<1>1. Init => WellTyped /\ DeadOK
  BY InitTyped, InitDead
<1>2. WellTyped /\ DeadOK /\ [Next]_vars => (WellTyped /\ DeadOK)'
  BY NextTyped, NextDead
<1>3. DeadOK => DeadRecordsHaveRemover
  BY DEF DeadOK, HasRemover, DeadRecordsHaveRemover
<1> QED
  BY <1>1, <1>2, <1>3, PTL DEF Spec
=============================================================================
