------------------------- MODULE DropboxDurableProof -------------------------
(***************************************************************************)
(* Every client that the master records is in clients.txt of its server,   *)
(* and a registered server and the master have the same clients between two*)
(* commands.  Both invariants follow a line from the server that sends it  *)
(* to the thread of the master that works on it; the second adds what the  *)
(* line carries.                                                           *)
(***************************************************************************)
EXTENDS DropboxClusterProof

-----------------------------------------------------------------------------
(* The invariant.                                                            *)

\* Nodes and threads belong to the server they were made for.
OriginsOK ==
  /\ \A n \in Nodes : node[n].id # None => node[n].of = node[n].id
  /\ lst.pc \in {"add", "set", "start"} => node[lst.node].of = lst.msg.id
  /\ \A a \in Accepts : accept[a].peer # None => node[accept[a].node].of = accept[a].peer
  /\ \A a \in Accepts : accept[a].pc # "none" => node[accept[a].node].of \in Servers
  /\ \A r \in records : node[r.owner].of \in Servers

\* ClusterNet's thread works on a line that was not answered.
Reading == lst.pc \in {"find", "add", "set"}

\* A server waits for the answer to the one line that it has on a connection,
\* and older lines that it sent come before it.
Waits(s, m) == /\ m.id = s /\ srv[s].reply = None
               /\ srv[s].pc = IF m.kind = "IDF" THEN "idf" ELSE "usr"

QueueOK(s) ==
  /\ \A i \in DOMAIN backlog : backlog[i].peer = s => Waits(s, backlog[i])
  /\ Reading /\ lst.msg.peer = s => Waits(s, lst.msg)
  /\ \A i, j \in DOMAIN backlog : i < j /\ backlog[j].id = s => backlog[i].peer # s
  /\ Reading /\ lst.msg.peer = s => \A i \in DOMAIN backlog : backlog[i].id # s

\* A line IDF of s that the master has still to work on.
Registers(s, m) == m.kind = "IDF" /\ m.id = s

\* When the master has accepted the name list of s there is no older one left.
AcceptedOK(s) ==
  srv[s].pc \in {"usr", "up"} \/ (srv[s].pc = "idf" /\ srv[s].reply = "CFM")
    => /\ \A i \in DOMAIN backlog : ~Registers(s, backlog[i])
       /\ lst.pc \in {"find", "add"} => ~Registers(s, lst.msg)

\* The user connection of s leads to one thread, and a line in it is the one
\* that the user thread waits for, or was left by a user thread that ended.
Commands(s, m) ==
  /\ srv[s].reply = None
  /\ \/ m.op = "ADD" /\ srv[s].user = "adding" /\ m.name = srv[s].arg
     \/ m.op = "RMV" /\ srv[s].user = "removing" /\ m.name = srv[s].arg
     \/ m.op = "PWD" /\ srv[s].user = "changing"
     \/ m.op = "RFS" /\ srv[s].user = "status"

OwnedBy(s, a) == accept[a].in # None /\ node[accept[a].node].of = s

LinesOK(s) ==
  /\ \A a \in Accepts : accept[a].peer = s =>
       \/ srv[s].pc = "up"
       \/ srv[s].pc = "usr" /\ srv[s].reply = "CFM" /\ accept[a].in = None
  /\ \A a, b \in Accepts : accept[a].peer = s /\ accept[b].peer = s => a = b
  /\ \A a \in Accepts : OwnedBy(s, a) =>
       \/ srv[s].pc \in {"down", "connect"}
       \/ srv[s].pc = "up" /\ srv[s].user = "none"
       \/ srv[s].pc = "up" /\ accept[a].peer = s /\ Commands(s, accept[a].in)
       \/ srv[s].pc = "up" /\ accept[a].pc \in {"clear", "destroy", "remove"}

\* c is in clients.txt of s, unless it is being written, and in its map while s
\* runs.
Holds(s, c) ==
  /\ srv[s].file[c] # None \/ srv[s].user = "truncated"
  /\ srv[s].pc # "down" => srv[s].clients[c] # None

\* The master records c for s, which was not killed while it wrote the file.
Recorded(s, c) ==
  \E r \in records : r.owner \notin torn /\ r.name = c /\ node[r.owner].of = s

\* Only the end of a record ends the mark that its server lost the file.
TornKept == \A r \in records' : r.owner \in torn => r.owner \in torn'

DurableOK(s) ==
  /\ \A c \in Names : Recorded(s, c) => Holds(s, c)
  /\ \A i \in DOMAIN backlog : Registers(s, backlog[i]) =>
       \A c \in Names : backlog[i].entries[c] # None => Holds(s, c)
  /\ lst.pc \in {"find", "add"} /\ Registers(s, lst.msg) =>
       \A c \in Names : lst.msg.entries[c] # None => Holds(s, c)
  /\ \A a \in Accepts : OwnedBy(s, a) /\ accept[a].in.op = "ADD"
                        /\ accept[a].pc \in {"new", "run"} => Holds(s, accept[a].in.name)
  /\ srv[s].pc # "down" => \A c \in Names : srv[s].clients[c] # None =>
                            srv[s].file[c] # None \/ srv[s].user = "truncated"

\* The user thread of s between its steps.
UserOK(s) ==
  /\ srv[s].user # "none" => srv[s].pc = "up"
  /\ srv[s].user \in {"idle", "made", "local", "erased", "truncated"} => srv[s].reply = None
  /\ srv[s].user = "made" => srv[s].clients[srv[s].arg] = None
  /\ srv[s].user = "changing" => srv[s].clients[srv[s].arg] # None
  /\ srv[s].user = "adding" /\ srv[s].reply # "CFM" => ~Recorded(s, srv[s].arg)
  /\ srv[s].user = "removing" /\ srv[s].reply = "CFM" => ~Recorded(s, srv[s].arg)
  /\ srv[s].user = "local" => ~Recorded(s, srv[s].arg)

ServerOK(s) == QueueOK(s) /\ AcceptedOK(s) /\ LinesOK(s) /\ DurableOK(s) /\ UserOK(s)

Durable == OriginsOK /\ \A s \in Servers : ServerOK(s)

-----------------------------------------------------------------------------
(* Steps of the master that answer nothing.                                  *)

\* What the steps leave of the thread of ClusterNet ...
ListenKept ==
  \/ lst'.pc \in {"accept", "stopped"}
  \/ /\ lst'.msg = lst.msg /\ (Reading' => Reading)
     /\ lst'.pc \in {"find", "add"} => lst.pc \in {"find", "add"}
     /\ lst'.pc \in {"add", "set", "start"} => node'[lst'.node].of = lst'.msg.id

\* ... of the nodes, unless nobody refers to them ...
NodesKept ==
  /\ \A k \in Nodes : node'[k].id # None => node'[k].of = node'[k].id
  /\ \A k \in Nodes : Owns(k)' \/ (\E a \in Accepts : accept'[a].node = k)
                      => node'[k].of = node[k].of

\* ... and of the Accept threads.
AcceptKept(a) ==
  \/ accept'[a] = NoAccept
  \/ /\ accept'[a].node = accept[a].node /\ accept[a].pc # "none"
     /\ accept'[a].peer \in {accept[a].peer, None}
     /\ accept'[a].in \in {accept[a].in, None}
     /\ accept'[a].pc \in {"new", "run"} => accept[a].pc \in {"new", "run"}
     /\ \/ accept'[a].in = None
        \/ accept'[a].pc \in {"clear", "destroy", "remove"}
        \/ /\ accept'[a].peer = accept[a].peer
           /\ accept[a].pc \notin {"clear", "destroy", "remove"}

LEMMA QuietOrigins ==
  ASSUME WellTyped, WellTyped', OriginsOK, records' \subseteq records,
         ListenKept, NodesKept, \A a \in Accepts : AcceptKept(a)
  PROVE  OriginsOK'
<1>1. \A r \in records' : node'[r.owner].of \in Servers
  <2> SUFFICES ASSUME NEW r \in records' PROVE node'[r.owner].of \in Servers
    OBVIOUS
  <2>1. r \in records /\ r.owner \in Nodes /\ Owns(r.owner)'
    BY DEF WellTyped, TypeOK, Owns
  <2> QED
    BY <2>1 DEF NodesKept, OriginsOK
<1>2. ASSUME NEW a \in Accepts
      PROVE  /\ accept'[a].peer # None => node'[accept'[a].node].of = accept'[a].peer
             /\ accept'[a].pc # "none" => node'[accept'[a].node].of \in Servers
  <2>1. CASE accept'[a] = NoAccept
    BY <2>1 DEF NoAccept
  <2>2. CASE accept'[a] # NoAccept
    <3>1. /\ accept'[a].node = accept[a].node /\ accept[a].pc # "none"
          /\ accept'[a].peer \in {accept[a].peer, None}
      BY <2>2 DEF AcceptKept
    <3>2. accept[a].node \in Nodes
      BY <3>1 DEF WellTyped, AcceptsOK
    <3>3. node'[accept[a].node].of = node[accept[a].node].of
      BY <3>1, <3>2 DEF NodesKept
    <3> QED
      BY <3>1, <3>3 DEF OriginsOK
  <2> QED
    BY <2>1, <2>2
<1>3. lst'.pc \in {"add", "set", "start"} => node'[lst'.node].of = lst'.msg.id
  BY DEF ListenKept
<1>4. \A k \in Nodes : node'[k].id # None => node'[k].of = node'[k].id
  BY DEF NodesKept
<1> QED
  BY <1>1, <1>2, <1>3, <1>4 DEF OriginsOK

LEMMA KeptRecords ==
  ASSUME WellTyped, TornKept, records' \subseteq records, NodesKept, NEW s, NEW c, Recorded(s, c)'
  PROVE  Recorded(s, c)
<1>1. PICK r \in records' : r.owner \notin torn' /\ r.name = c /\ node'[r.owner].of = s
  BY DEF Recorded
<1>2. r \in records /\ r.owner \in Nodes /\ Owns(r.owner)'
  BY DEF WellTyped, TypeOK, Owns
<1>3. node[r.owner].of = s
  BY <1>1, <1>2 DEF NodesKept
<1> QED
  BY <1>1, <1>2, <1>3 DEF Recorded, TornKept

LEMMA KeptLines ==
  ASSUME WellTyped, NodesKept, NEW a \in Accepts, AcceptKept(a), NEW s, OwnedBy(s, a)'
  PROVE  /\ OwnedBy(s, a) /\ accept'[a].in = accept[a].in /\ accept[a].in # None
         /\ accept'[a].pc \in {"new", "run"} => accept[a].pc \in {"new", "run"}
         /\ \/ accept'[a].pc \in {"clear", "destroy", "remove"}
            \/ /\ accept'[a].peer = accept[a].peer
               /\ accept[a].pc \notin {"clear", "destroy", "remove"}
<1>1. accept'[a].in # None /\ node'[accept'[a].node].of = s
  BY DEF OwnedBy
<1>2. accept'[a] # NoAccept
  BY <1>1 DEF NoAccept
<1>3. accept'[a].node = accept[a].node /\ accept[a].pc # "none" /\ accept'[a].in = accept[a].in
  BY <1>1, <1>2 DEF AcceptKept
<1>4. accept[a].node \in Nodes
  BY <1>3 DEF WellTyped, AcceptsOK
<1>5. node'[accept[a].node].of = node[accept[a].node].of
  BY <1>3, <1>4 DEF NodesKept
<1>6. OwnedBy(s, a)
  BY <1>1, <1>3, <1>5 DEF OwnedBy
<1> QED
  BY <1>1, <1>2, <1>3, <1>6 DEF AcceptKept

LEMMA QuietDurable ==
  ASSUME WellTyped, WellTyped', Durable, TornKept, srv' = srv, backlog' = backlog \/ backlog' = <<>>,
         records' \subseteq records, ListenKept, NodesKept, \A a \in Accepts : AcceptKept(a)
  PROVE  Durable'
<1>1. OriginsOK'
  BY QuietOrigins DEF Durable
<1> SUFFICES ASSUME NEW s \in Servers PROVE ServerOK(s)'
  BY <1>1 DEF Durable
<1>2. ServerOK(s)
  BY DEF Durable
<1>3. /\ Reading' => Reading /\ lst'.msg = lst.msg
      /\ lst'.pc \in {"find", "add"} => lst.pc \in {"find", "add"} /\ lst'.msg = lst.msg
  BY DEF ListenKept, Reading
<1>4. \A i \in DOMAIN backlog' : i \in DOMAIN backlog /\ backlog'[i] = backlog[i]
  OBVIOUS
<1>5. QueueOK(s)'
  <2>1. \A m : Waits(s, m) => Waits(s, m)'
    BY DEF Waits
  <2> QED
    BY <1>2, <1>3, <1>4, <2>1 DEF ServerOK, QueueOK
<1>6. AcceptedOK(s)'
  BY <1>2, <1>3, <1>4 DEF ServerOK, AcceptedOK, Registers
<1>7. LinesOK(s)'
  <2>1. \A a \in Accepts : accept'[a].peer = s => accept[a].peer = s /\ accept'[a].in \in {accept[a].in, None}
    BY NoneIsNone DEF AcceptKept, NoAccept
  <2>2. ASSUME NEW a \in Accepts, OwnedBy(s, a)'
        PROVE  \/ srv'[s].pc \in {"down", "connect"}
               \/ srv'[s].pc = "up" /\ srv'[s].user = "none"
               \/ srv'[s].pc = "up" /\ accept'[a].peer = s /\ Commands(s, accept[a].in)'
               \/ srv'[s].pc = "up" /\ accept'[a].pc \in {"clear", "destroy", "remove"}
    <3>1. /\ OwnedBy(s, a) /\ accept'[a].in = accept[a].in
          /\ \/ accept'[a].pc \in {"clear", "destroy", "remove"}
             \/ /\ accept'[a].peer = accept[a].peer
                /\ accept[a].pc \notin {"clear", "destroy", "remove"}
      BY <2>2, KeptLines
    <3> QED
      BY <1>2, <3>1 DEF ServerOK, LinesOK, Commands
  <2> QED
    BY <1>2, <2>1, <2>2 DEF ServerOK, LinesOK
<1>8. DurableOK(s)'
  <2>1. \A c : Holds(s, c) => Holds(s, c)'
    BY DEF Holds
  <2>2. \A c \in Names : Recorded(s, c)' => Recorded(s, c)
    BY KeptRecords
  <2>3. \A a \in Accepts : OwnedBy(s, a)' =>
          /\ OwnedBy(s, a) /\ accept'[a].in = accept[a].in
          /\ accept'[a].pc \in {"new", "run"} => accept[a].pc \in {"new", "run"}
    BY KeptLines
  <2> QED
    BY <1>2, <1>3, <1>4, <2>1, <2>2, <2>3 DEF ServerOK, DurableOK, Registers
<1>9. UserOK(s)'
  <2>1. \A c : Recorded(s, c)' => Recorded(s, c)
    BY KeptRecords
  <2> QED
    BY <1>2, <2>1 DEF ServerOK, UserOK
<1> QED
  BY <1>5, <1>6, <1>7, <1>8, <1>9 DEF ServerOK
LEMMA CollectKept ==
  ASSUME OriginsOK, NEW nd \in [Nodes -> NodeStates], node' = Collected(nd),
         \A k \in Nodes : nd[k].of = node[k].of /\ nd[k].id = node[k].id
  PROVE  NodesKept
<1>1. \A k \in Nodes : \/ node'[k] = nd[k]
                       \/ /\ node'[k] = NoNode /\ ~Owns(k)'
                          /\ \A a \in Accepts : accept'[a].node # k
  BY CollectFacts DEF Owns
<1>2. NoNode.id = None
  BY DEF NoNode
<1>3. \A k \in Nodes : node'[k].id # None => node'[k].of = node'[k].id
  BY <1>1, <1>2 DEF OriginsOK
<1>4. \A k \in Nodes : Owns(k)' \/ (\E a \in Accepts : accept'[a].node = k)
                       => node'[k].of = node[k].of
  BY <1>1
<1> QED
  BY <1>3, <1>4 DEF NodesKept

LEMMA SameNodes ==
  ASSUME OriginsOK, \A k \in Nodes : node'[k].of = node[k].of /\ node'[k].id = node[k].id
  PROVE  NodesKept
  BY DEF NodesKept, OriginsOK

LEMMA SameListen ==
  ASSUME OriginsOK, lst'.pc = lst.pc, lst'.msg = lst.msg, lst'.node = lst.node,
         lst.pc \in {"add", "set", "start"} => node'[lst.node].of = node[lst.node].of
  PROVE  ListenKept
  BY DEF ListenKept, Reading, OriginsOK

\* Threads that only lose their stop flag, or nothing.
LEMMA SameAccepts ==
  ASSUME WellTyped, NEW a \in Accepts,
         accept'[a].node = accept[a].node, accept'[a].pc = accept[a].pc,
         accept'[a].peer = accept[a].peer, accept'[a].in = accept[a].in,
         accept[a].pc = "none" => accept'[a] = NoAccept
  PROVE  AcceptKept(a)
  BY DEF AcceptKept

LEMMA IdleAccepts ==
  ASSUME WellTyped, accept' = accept
  PROVE  \A a \in Accepts : AcceptKept(a)
<1> SUFFICES ASSUME NEW a \in Accepts PROVE AcceptKept(a)
  OBVIOUS
<1>1. accept[a].pc = "none" => accept'[a] = NoAccept
  BY DEF WellTyped, AcceptsOK
<1> QED
  BY <1>1, SameAccepts

LEMMA RequestDurable ==
  ASSUME WellTyped, WellTyped', Durable, TornKept, NEW n \in Nodes,
         RequestBeat(n) \/ RequestAnswer(n) \/ RequestClear(n) \/ RequestDestroy(n)
         \/ RequestRemove(n)
  PROVE  Durable'
<1>0. OriginsOK /\ node \in [Nodes -> NodeStates] /\ node[n] \in NodeStates
  BY DEF Durable, WellTyped, TypeOK
<1>1. lst.pc \in {"add", "set", "start"} => lst.node \in Nodes
  BY DEF WellTyped, ListenOK
<1>2. CASE RequestBeat(n) \/ RequestAnswer(n) \/ RequestClear(n)
  <2>1. UNCHANGED <<records, accept, lst, backlog, srv>>
    BY <1>2 DEF RequestBeat, RequestAnswer, RequestClear
  <2>2. \A k \in Nodes : node'[k].of = node[k].of /\ node'[k].id = node[k].id
    BY <1>0, <1>2 DEF RequestBeat, RequestAnswer, RequestClear, SetPc, NodeStates
  <2>3. NodesKept /\ ListenKept
    BY <1>0, <1>1, <2>1, <2>2, SameNodes, SameListen
  <2> QED
    BY <2>1, <2>3, IdleAccepts, QuietDurable
<1>3. CASE RequestDestroy(n)
  <2> DEFINE v == [DestroyedNode(n) EXCEPT !.pc = IF DestroyThrows(n) THEN "end" ELSE "remove"]
             nd == [node EXCEPT ![n] = v]
  <2>1. /\ accept' = DestroyedAccept(n) /\ node' = Collected(nd)
        /\ UNCHANGED <<records, lst, backlog, srv>>
    BY <1>3 DEF RequestDestroy
  <2>2. v \in NodeStates /\ v.of = node[n].of /\ v.id = node[n].id
    BY DestroyFacts DEF NodeStates
  <2> HIDE DEF v
  <2>3. /\ nd \in [Nodes -> NodeStates]
        /\ \A k \in Nodes : nd[k].of = node[k].of /\ nd[k].id = node[k].id
    BY <1>0, <2>2
  <2> HIDE DEF nd
  <2>4. NodesKept
    BY <1>0, <2>1, <2>3, CollectKept
  <2>5. lst.node \in Nodes => node'[lst.node].of = node[lst.node].of
    BY <2>1, <2>3, CollectFacts
  <2>6. ListenKept
    BY <1>0, <1>1, <2>1, <2>5, SameListen
  <2>7. \A a \in Accepts : AcceptKept(a)
    BY <2>1, DestroyFacts, DestroyedSame, SameAccepts
  <2> QED
    BY <2>1, <2>4, <2>6, <2>7, QuietDurable
<1>4. CASE RequestRemove(n)
  <2> DEFINE v == [node[n] EXCEPT !.pc = "end"]
             nd == [node EXCEPT ![n] = v]
  <2>1. /\ node' = Collected(nd) /\ removeDead(n) /\ Disturb
        /\ UNCHANGED <<accept, backlog, srv>>
    BY <1>4 DEF RequestRemove
  <2>2. v \in NodeStates /\ v.of = node[n].of /\ v.id = node[n].id
    BY <1>0 DEF NodeStates
  <2> HIDE DEF v
  <2>3. /\ nd \in [Nodes -> NodeStates]
        /\ \A k \in Nodes : nd[k].of = node[k].of /\ nd[k].id = node[k].id
    BY <1>0, <2>2
  <2> HIDE DEF nd
  <2>4. NodesKept
    BY <1>0, <2>1, <2>3, CollectKept
  <2>5. lst.node \in Nodes => node'[lst.node].of = node[lst.node].of
    BY <2>1, <2>3, CollectFacts
  <2>6. lst'.pc = lst.pc /\ lst'.node = lst.node /\ lst'.msg = lst.msg
    BY <2>1 DEF Disturb, WellTyped, TypeOK, ListenStates
  <2>7. ListenKept
    BY <1>0, <1>1, <2>5, <2>6, SameListen
  <2>8. records' \subseteq records
    BY <2>1 DEF removeDead
  <2> QED
    BY <2>1, <2>4, <2>7, <2>8, IdleAccepts, QuietDurable
<1> QED
  BY <1>2, <1>3, <1>4

LEMMA AcceptEndDurable ==
  ASSUME WellTyped, WellTyped', Durable, TornKept, NEW a \in Accepts,
         AcceptEof(a) \/ AcceptClear(a) \/ AcceptDestroy(a) \/ AcceptRemove(a)
  PROVE  Durable'
<1>0. PICK n : n = accept[a].node
  OBVIOUS
<1>1. /\ n \in Nodes
      /\ \A k \in Nodes : Owns(k)' \/ lst.node = k \/ (\E b \in Accepts : accept'[b].node = k)
           => node'[k].of = node[k].of
      /\ \A b \in Accepts : b # a =>
           /\ accept'[b].node = accept[b].node /\ accept'[b].peer = accept[b].peer
           /\ accept'[b].pc = accept[b].pc /\ accept'[b].in = accept[b].in
      /\ \/ accept'[a] = NoAccept
         \/ /\ accept'[a].node = n /\ accept'[a].peer \in {accept[a].peer, None}
            /\ accept'[a].in = accept[a].in
            /\ accept'[a].pc \in {"clear", "remove", "destroy"}
      /\ records' \subseteq records /\ backlog' = backlog /\ srv' = srv
      /\ lst'.pc = lst.pc /\ lst'.node = lst.node /\ lst'.msg = lst.msg
  BY <1>0, AcceptEndFacts
<1>2. /\ OriginsOK /\ node \in [Nodes -> NodeStates]
      /\ lst.pc \in {"add", "set", "start"} => lst.node \in Nodes
  BY DEF Durable, WellTyped, TypeOK, ListenOK
<1>3. NodesKept
  <2>1. CASE AcceptEof(a) \/ AcceptClear(a)
    <3>1. node' = node
      BY <2>1 DEF AcceptEof, AcceptClear
    <3> QED
      BY <1>2, <3>1, SameNodes
  <2>2. CASE AcceptDestroy(a)
    <3> DEFINE w == [DestroyedNode(n) EXCEPT !.fsa = IF @ = a THEN None ELSE @]
               nd == [node EXCEPT ![n] = w]
    <3>1. node' = Collected(nd)
      BY <1>0, <2>2 DEF AcceptDestroy
    <3>2. w \in NodeStates /\ w.of = node[n].of /\ w.id = node[n].id
      BY <1>1, DestroyFacts DEF NodeStates
    <3> HIDE DEF w
    <3>3. /\ nd \in [Nodes -> NodeStates]
          /\ \A k \in Nodes : nd[k].of = node[k].of /\ nd[k].id = node[k].id
      BY <1>2, <3>2
    <3> HIDE DEF nd
    <3> QED
      BY <1>2, <3>1, <3>3, CollectKept
  <2>3. CASE AcceptRemove(a)
    <3> DEFINE nd == [k \in Nodes |-> [node[k] EXCEPT !.fsa = IF @ = a THEN None ELSE @]]
    <3>1. node' = Collected(nd)
      BY <2>3 DEF AcceptRemove
    <3>2. /\ nd \in [Nodes -> NodeStates]
          /\ \A k \in Nodes : nd[k].of = node[k].of /\ nd[k].id = node[k].id
      BY <1>2 DEF NodeStates
    <3> HIDE DEF nd
    <3> QED
      BY <1>2, <3>1, <3>2, CollectKept
  <2> QED
    BY <2>1, <2>2, <2>3
<1>4. ListenKept
  BY <1>1, <1>2, SameListen
<1>5. ASSUME NEW b \in Accepts PROVE AcceptKept(b)
  <2>1. accept[a].pc # "none"
    BY DEF AcceptEof, AcceptClear, AcceptDestroy, AcceptRemove
  <2>2. CASE b = a
    BY <1>0, <1>1, <2>1, <2>2 DEF AcceptKept
  <2>3. CASE b # a
    <3>1. accept[b].pc = "none" => accept'[b] = NoAccept
      BY <1>1, <2>3 DEF WellTyped, AcceptsOK
    <3> QED
      BY <1>1, <2>3, <3>1, SameAccepts
  <2> QED
    BY <2>2, <2>3
<1> QED
  BY <1>1, <1>3, <1>4, <1>5, QuietDurable

LEMMA ListenQuietDurable ==
  ASSUME WellTyped, WellTyped', Durable, TornKept,
         Echo \/ ListenThrows \/ UsrStart \/ IdfFind \/ UsrFind
  PROVE  Durable'
<1>1. /\ OriginsOK /\ node \in [Nodes -> NodeStates] /\ lst \in ListenStates
      /\ accept \in [Accepts -> AcceptStates]
      /\ lst.pc \in {"add", "set", "start"} => lst.node \in Nodes
  BY DEF Durable, WellTyped, TypeOK, ListenOK
<1>2. CASE Echo
  <2>1. node' = Collected(node) /\ UNCHANGED <<records, accept, backlog, srv>> /\ Disturb
    BY <1>2 DEF Echo
  <2>2. NodesKept
    BY <1>1, <2>1, CollectKept
  <2>3. lst'.pc = lst.pc /\ lst'.node = lst.node /\ lst'.msg = lst.msg
    BY <1>1, <2>1 DEF Disturb, ListenStates
  <2>4. lst.node \in Nodes => node'[lst.node].of = node[lst.node].of
    BY <1>1, <2>1, CollectFacts
  <2>5. ListenKept
    BY <1>1, <2>3, <2>4, SameListen
  <2> QED
    BY <2>1, <2>2, <2>5, IdleAccepts, QuietDurable
<1>3. CASE ListenThrows
  <2>1. UNCHANGED <<records, node, accept, srv>> /\ (backlog' = backlog \/ backlog' = <<>>)
    BY <1>3 DEF ListenThrows
  <2>2. lst' = Idle \/ lst' = [Idle EXCEPT !.pc = "stopped"]
    BY <1>3 DEF ListenThrows
  <2>3. lst'.pc \in {"accept", "stopped"}
    BY <2>2 DEF Idle
  <2> QED
    BY <1>1, <2>1, <2>3, SameNodes, IdleAccepts, QuietDurable DEF ListenKept
<1>4. CASE UsrStart
  <2>1. PICK a \in Accepts : /\ accept[a].pc = "new"
                             /\ accept' = [accept EXCEPT ![a].pc = "run", ![a].t = TRUE]
    BY <1>4 DEF UsrStart
  <2>2. UNCHANGED <<records, node, backlog, srv>> /\ lst'.pc = "accept"
    BY <1>4 DEF UsrStart, Idle
  <2>3. ASSUME NEW b \in Accepts PROVE AcceptKept(b)
    <3>1. CASE b = a
      BY <1>1, <2>1, <3>1 DEF AcceptKept, AcceptStates
    <3>2. CASE b # a
      <4>1. accept'[b] = accept[b]
        BY <1>1, <2>1, <3>2
      <4>2. accept[b].pc = "none" => accept[b] = NoAccept
        BY DEF WellTyped, AcceptsOK
      <4> QED
        BY <4>1, <4>2, SameAccepts
    <3> QED
      BY <3>1, <3>2
  <2> QED
    BY <1>1, <2>2, <2>3, SameNodes, QuietDurable DEF ListenKept
<1>5. ASSUME NEW n \in Nodes, FreeNode(n), NEW pc \in {"add", "set"}, lst.pc = "find",
             node' = [node EXCEPT ![n] = [NoNode EXCEPT !.of = lst.msg.id]],
             lst'.pc = pc, pc = "add" \/ pc = "set", lst'.node = n, lst'.msg = lst.msg,
             UNCHANGED <<records, accept, backlog, srv>>
      PROVE  Durable'
  <2>1. /\ node'[n].of = lst.msg.id /\ node'[n].id = None
        /\ \A k \in Nodes : k # n => node'[k] = node[k]
    BY <1>1, <1>5 DEF NoNode
  <2>2. NodesKept
    BY <1>1, <1>5, <2>1 DEF NodesKept, FreeNode, Owns, OriginsOK
  <2>3. ListenKept
    BY <1>5, <2>1 DEF ListenKept, Reading
  <2> QED
    BY <1>5, <2>2, <2>3, IdleAccepts, QuietDurable
<1>6. CASE IdfFind
  <2>1. PICK n \in Nodes : n = NewNode /\ FreeNode(n)
    BY <1>6, NewFacts DEF IdfFind
  <2>2. lst'.pc = "add" /\ lst'.node = n /\ lst'.msg = lst.msg /\ lst.pc = "find"
    BY <1>1, <1>6, <2>1 DEF IdfFind, ListenStates
  <2> QED
    BY <1>5, <1>6, <2>1, <2>2 DEF IdfFind
<1>7. CASE UsrFind /\ findFileServer(lst.msg.id) = None
  <2>1. PICK n \in Nodes : n = NewNode /\ FreeNode(n)
    BY <1>7, NewFacts DEF UsrFind
  <2>2. lst'.pc = "set" /\ lst'.node = n /\ lst'.msg = lst.msg /\ lst.pc = "find"
    BY <1>1, <1>7, <2>1 DEF UsrFind, ListenStates
  <2> QED
    BY <1>5, <1>7, <2>1, <2>2 DEF UsrFind
<1>8. CASE UsrFind /\ findFileServer(lst.msg.id) # None
  <2>1. PICK n \in Nodes : n = findFileServer(lst.msg.id) /\ node[n].id = lst.msg.id
    BY <1>8, FindFacts DEF WellTyped, TypeOK
  <2>2. /\ lst'.pc = "set" /\ lst'.node = n /\ lst'.msg = lst.msg /\ lst.pc = "find"
        /\ UNCHANGED <<records, accept, backlog, srv, node>>
    BY <1>1, <1>8, <2>1 DEF UsrFind, ListenStates
  <2>3. lst.msg.id # None
    BY <1>8, LineFacts, NoneIsNone DEF UsrFind, WellTyped, ListenOK
  <2>4. node[n].of = lst.msg.id
    BY <1>1, <2>1, <2>3 DEF OriginsOK
  <2>5. ListenKept
    BY <2>2, <2>4 DEF ListenKept, Reading
  <2> QED
    BY <1>1, <2>2, <2>5, SameNodes, IdleAccepts, QuietDurable
<1> QED
  BY <1>2, <1>3, <1>4, <1>6, <1>7, <1>8

LEMMA MasterEndDurable ==
  ASSUME WellTyped, WellTyped', Durable, TornKept, MasterCrash \/ MasterStart
  PROVE  Durable'
<1>0. OriginsOK
  BY DEF Durable
<1>1. CASE MasterCrash
  <2>1. /\ records' = {} /\ backlog' = <<>> /\ lst'.pc = "stopped" /\ srv' = srv
        /\ \A k \in Nodes : node'[k] = NoNode
        /\ \A a \in Accepts : accept'[a] = NoAccept
    BY <1>1 DEF MasterCrash, Idle, serverVars
  <2>2. NodesKept
    BY <2>1, NoneIsNone DEF NodesKept, NoNode, NoAccept, Owns
  <2>3. ListenKept /\ \A a \in Accepts : AcceptKept(a)
    BY <2>1 DEF ListenKept, AcceptKept
  <2> QED
    BY <2>1, <2>2, <2>3, QuietDurable
<1>2. CASE MasterStart
  <2>1. UNCHANGED <<records, node, accept, backlog, srv>> /\ lst'.pc = "accept"
    BY <1>2 DEF MasterStart, Idle, serverVars
  <2>2. NodesKept /\ ListenKept
    BY <1>0, <2>1, SameNodes DEF ListenKept
  <2> QED
    BY <2>1, <2>2, IdleAccepts, QuietDurable
<1> QED
  BY <1>1, <1>2

LEMMA CutDurable ==
  ASSUME WellTyped, WellTyped', Durable, TornKept,
         (\E n \in Nodes : CutMain(n)) \/ (\E a \in Accepts : CutUser(a))
  PROVE  Durable'
<1>1. /\ OriginsOK /\ node \in [Nodes -> NodeStates] /\ accept \in [Accepts -> AcceptStates]
      /\ lst.pc \in {"add", "set", "start"} => lst.node \in Nodes
  BY DEF Durable, WellTyped, TypeOK, ListenOK
<1>2. ASSUME NEW n \in Nodes, CutMain(n) PROVE Durable'
  <2>1. UNCHANGED <<records, accept, lst, backlog, srv>> /\ node' = [node EXCEPT ![n].peer = None]
    BY <1>2 DEF CutMain, serverVars
  <2>2. \A k \in Nodes : node'[k].of = node[k].of /\ node'[k].id = node[k].id
    BY <1>1, <2>1 DEF NodeStates
  <2>3. NodesKept /\ ListenKept
    BY <1>1, <2>1, <2>2, SameNodes, SameListen
  <2> QED
    BY <2>1, <2>3, IdleAccepts, QuietDurable
<1>3. ASSUME NEW a \in Accepts, CutUser(a) PROVE Durable'
  <2>1. /\ UNCHANGED <<records, node, lst, backlog, srv>> /\ accept[a].peer # None
        /\ accept' = [accept EXCEPT ![a].peer = None, ![a].in = None]
    BY <1>3 DEF CutUser, serverVars
  <2>2. NodesKept /\ ListenKept
    BY <1>1, <2>1, SameNodes, SameListen
  <2>3. ASSUME NEW b \in Accepts PROVE AcceptKept(b)
    <3>1. accept[b].pc = "none" => accept[b] = NoAccept
      BY DEF WellTyped, AcceptsOK
    <3>2. CASE b = a
      <4>1. accept[a].pc # "none"
        BY <2>1, <3>1, <3>2 DEF NoAccept
      <4> QED
        BY <1>1, <2>1, <3>2, <4>1 DEF AcceptKept, AcceptStates
    <3>3. CASE b # a
      <4>1. accept'[b] = accept[b]
        BY <1>1, <2>1, <3>3
      <4> QED
        BY <3>1, <4>1, SameAccepts
    <3> QED
      BY <3>2, <3>3
  <2> QED
    BY <2>1, <2>2, <2>3, QuietDurable
<1> QED
  BY <1>2, <1>3
-----------------------------------------------------------------------------
(* Steps that change the lines that wait.                                    *)

\* Every line that waits or is read after a step was one before.
LEMMA LinesDurable ==
  ASSUME WellTyped, Durable, TornKept, UNCHANGED <<records, node, accept, srv>>,
         lst' = lst \/ lst'.pc \in {"accept", "find", "stopped"},
         \A i \in DOMAIN backlog' : \E j \in DOMAIN backlog :
           backlog'[i] \in {backlog[j], [backlog[j] EXCEPT !.peer = None]},
         lst' # lst /\ lst'.pc = "find" => \E j \in DOMAIN backlog : lst'.msg = backlog[j],
         \A s \in Servers : QueueOK(s)'
  PROVE  Durable'
<1>1. OriginsOK'
  BY DEF Durable, OriginsOK
<1> SUFFICES ASSUME NEW s \in Servers PROVE AcceptedOK(s)' /\ LinesOK(s)' /\ DurableOK(s)' /\ UserOK(s)'
  BY <1>1 DEF Durable, ServerOK
<1>2. ServerOK(s) /\ backlog \in Seq(Lines)
  BY DEF Durable, WellTyped, TypeOK
<1>3. \A i \in DOMAIN backlog' : \E j \in DOMAIN backlog :
        /\ backlog'[i].kind = backlog[j].kind /\ backlog'[i].id = backlog[j].id
        /\ backlog'[i].entries = backlog[j].entries
  <2> SUFFICES ASSUME NEW i \in DOMAIN backlog', NEW j \in DOMAIN backlog,
                      backlog'[i] = [backlog[j] EXCEPT !.peer = None]
               PROVE  /\ backlog'[i].kind = backlog[j].kind /\ backlog'[i].id = backlog[j].id
                      /\ backlog'[i].entries = backlog[j].entries
    OBVIOUS
  <2>1. backlog[j] \in Lines
    BY <1>2
  <2> QED
    BY <2>1 DEF Lines
<1>4. AcceptedOK(s)'
  BY <1>2, <1>3 DEF ServerOK, AcceptedOK, Registers
<1>5. LinesOK(s)'
  BY <1>2 DEF ServerOK, LinesOK, OwnedBy, Commands
<1>6. DurableOK(s)'
  <2>1. \A c : (Holds(s, c) <=> Holds(s, c)') /\ (Recorded(s, c)' => Recorded(s, c))
    BY DEF Holds, Recorded, TornKept
  <2>2. \A a \in Accepts : OwnedBy(s, a)' <=> OwnedBy(s, a)
    BY DEF OwnedBy
  <2> QED
    BY <1>2, <1>3, <2>1, <2>2 DEF ServerOK, DurableOK, Registers
<1>7. UserOK(s)'
  BY <1>2 DEF ServerOK, UserOK, Recorded, TornKept
<1> QED
  BY <1>4, <1>5, <1>6, <1>7

LEMMA ReceiveDurable ==
  ASSUME WellTyped, Durable, TornKept, ListenReceive
  PROVE  Durable'
<1>1. /\ UNCHANGED <<records, node, accept, srv>> /\ lst.pc = "accept" /\ backlog # <<>>
      /\ backlog \in Seq(Lines)
  BY DEF ListenReceive, WellTyped, TypeOK
<1>2. CASE Head(backlog).kind = "EOF"
  <2>1. backlog' = <<>> /\ lst'.pc = "stopped"
    BY <1>2 DEF ListenReceive, Idle
  <2>2. \A s \in Servers : QueueOK(s)'
    BY <2>1 DEF QueueOK, Reading
  <2> QED
    BY <1>1, <2>1, <2>2, LinesDurable
<1>3. CASE Head(backlog).kind # "EOF"
  <2>1. backlog' = Tail(backlog) /\ lst'.pc = "find" /\ lst'.msg = Head(backlog)
    BY <1>3 DEF ListenReceive, Idle
  <2>2. /\ 1 \in DOMAIN backlog /\ lst'.msg = backlog[1]
        /\ \A i \in DOMAIN backlog' : /\ i \in Nat /\ i + 1 \in DOMAIN backlog /\ 1 < i + 1
                                      /\ backlog'[i] = backlog[i + 1]
    BY <1>1, <2>1
  <2>3. ASSUME NEW s \in Servers PROVE QueueOK(s)'
    <3>1. QueueOK(s)
      BY DEF Durable, ServerOK
    <3>2. \A m : Waits(s, m) <=> Waits(s, m)'
      BY <1>1 DEF Waits
    <3>3. \A i \in DOMAIN backlog' : backlog'[i].peer = s => Waits(s, backlog'[i])
      BY <2>2, <3>1 DEF QueueOK
    <3>4. lst'.msg.peer = s => Waits(s, lst'.msg)
      BY <2>2, <3>1 DEF QueueOK
    <3>5. \A i, j \in DOMAIN backlog' : i < j /\ backlog'[j].id = s => backlog'[i].peer # s
      <4> SUFFICES ASSUME NEW i \in DOMAIN backlog', NEW j \in DOMAIN backlog', i < j,
                          backlog'[j].id = s
                   PROVE  backlog'[i].peer # s
        OBVIOUS
      <4>1. i + 1 < j + 1 /\ i + 1 \in DOMAIN backlog /\ j + 1 \in DOMAIN backlog
        BY <2>2
      <4> QED
        BY <2>2, <3>1, <4>1 DEF QueueOK
    <3>6. lst'.msg.peer = s => \A i \in DOMAIN backlog' : backlog'[i].id # s
      BY <2>2, <3>1 DEF QueueOK
    <3> QED
      BY <3>2, <3>3, <3>4, <3>5, <3>6 DEF QueueOK
  <2> QED
    BY <1>1, <2>1, <2>2, <2>3, LinesDurable
<1> QED
  BY <1>2, <1>3

LEMMA PendingDurable ==
  ASSUME WellTyped, Durable, TornKept, (\E i \in DOMAIN backlog : CutPending(i)) \/ HalfConnect
  PROVE  Durable'
<1>1. UNCHANGED <<records, node, accept, lst, srv>> /\ backlog \in Seq(Lines)
  BY DEF CutPending, HalfConnect, serverVars, WellTyped, TypeOK
<1>2. ASSUME NEW n \in DOMAIN backlog, CutPending(n) PROVE Durable'
  <2>1. /\ DOMAIN backlog' = DOMAIN backlog
        /\ \A i \in DOMAIN backlog : i # n => backlog'[i] = backlog[i]
        /\ backlog'[n] = [backlog[n] EXCEPT !.peer = None]
    BY <1>1, <1>2 DEF CutPending
  <2>2. backlog'[n].peer = None /\ backlog'[n].id = backlog[n].id
    <3>1. backlog[n] \in Lines
      BY <1>1
    <3> QED
      BY <2>1, <3>1 DEF Lines
  <2>3. ASSUME NEW s \in Servers PROVE QueueOK(s)'
    <3>1. QueueOK(s) /\ s # None
      BY NoneIsNone DEF Durable, ServerOK
    <3>2. \A i \in DOMAIN backlog : /\ backlog'[i].id = backlog[i].id
                                    /\ backlog'[i].peer = s => backlog'[i] = backlog[i]
      BY <2>1, <2>2, <3>1
    <3>3. \A m : Waits(s, m) <=> Waits(s, m)'
      BY <1>1 DEF Waits
    <3>4. \A i \in DOMAIN backlog' : backlog'[i].peer = s => Waits(s, backlog'[i])
      BY <2>1, <3>1, <3>2 DEF QueueOK
    <3>5. \A i, j \in DOMAIN backlog' : i < j /\ backlog'[j].id = s => backlog'[i].peer # s
      BY <2>1, <3>1, <3>2 DEF QueueOK
    <3> QED
      BY <1>1, <2>1, <3>1, <3>2, <3>3, <3>4, <3>5 DEF QueueOK, Reading
  <2> QED
    BY <1>1, <2>1, <2>3, LinesDurable
<1>3. CASE HalfConnect
  <2> DEFINE e == [kind |-> "EOF", peer |-> None, id |-> None, entries |-> NoClients]
  <2>1. backlog' = Append(backlog, e)
    BY <1>3 DEF HalfConnect
  <2>2. e.kind = "EOF" /\ e.peer = None /\ e.id = None
    OBVIOUS
  <2> HIDE DEF e
  <2>3. \A i \in DOMAIN backlog' : (i \in DOMAIN backlog /\ backlog'[i] = backlog[i]) \/ backlog'[i] = e
    BY <1>1, <2>1
  <2>4. OriginsOK'
    BY <1>1 DEF Durable, OriginsOK
  <2>5. ASSUME NEW s \in Servers PROVE ServerOK(s)'
    <3>1. ServerOK(s) /\ s # None
      BY NoneIsNone DEF Durable
    <3>2. \A m : Waits(s, m) <=> Waits(s, m)'
      BY <1>1 DEF Waits
    <3>3. \A i \in DOMAIN backlog' : backlog'[i].peer = s \/ backlog'[i].id = s
                                     => i \in DOMAIN backlog /\ backlog'[i] = backlog[i]
      BY <2>2, <2>3, <3>1
    <3>4. \A i, j \in DOMAIN backlog' : i < j /\ backlog'[j].id = s => backlog'[i].peer # s
      BY <3>1, <3>3 DEF ServerOK, QueueOK
    <3>5. \A i \in DOMAIN backlog' : backlog'[i].peer = s => Waits(s, backlog'[i])
      BY <3>1, <3>3 DEF ServerOK, QueueOK
    <3>6. QueueOK(s)'
      BY <1>1, <3>1, <3>2, <3>3, <3>4, <3>5 DEF ServerOK, QueueOK, Reading
    <3>7. AcceptedOK(s)'
      BY <1>1, <3>1, <3>3 DEF ServerOK, AcceptedOK, Registers
    <3>8. LinesOK(s)'
      BY <1>1, <3>1 DEF ServerOK, LinesOK, OwnedBy, Commands
    <3>9. \A c : (Holds(s, c) <=> Holds(s, c)') /\ (Recorded(s, c)' => Recorded(s, c))
      BY <1>1 DEF Holds, Recorded, TornKept
    <3>10. \A a \in Accepts : OwnedBy(s, a)' <=> OwnedBy(s, a)
      BY <1>1 DEF OwnedBy
    <3>11. DurableOK(s)'
      BY <1>1, <3>1, <3>3, <3>9, <3>10 DEF ServerOK, DurableOK, Registers
    <3>12. UserOK(s)'
      BY <1>1, <3>1 DEF ServerOK, UserOK, Recorded, TornKept
    <3> QED
      BY <3>6, <3>7, <3>8, <3>11, <3>12 DEF ServerOK
  <2> QED
    BY <2>4, <2>5 DEF Durable
<1> QED
  BY <1>2, <1>3
-----------------------------------------------------------------------------
(* Answers of ClusterNet's thread.                                           *)

\* A server whose line is being worked on waits, and has nothing else under way.
LEMMA PeerFacts ==
  ASSUME WellTyped, Durable, Reading, NEW s \in Servers, lst.msg.peer = s
  PROVE  /\ srv[s].pc = IF lst.msg.kind = "IDF" THEN "idf" ELSE "usr"
         /\ lst.msg.id = s /\ srv[s].user = "none"
         /\ \A i \in DOMAIN backlog : backlog[i].peer # s /\ backlog[i].id # s
         /\ \A a \in Accepts : accept[a].peer # s /\ ~OwnedBy(s, a)
<1>1. ServerOK(s)
  BY DEF Durable
<1>2. Waits(s, lst.msg) /\ \A i \in DOMAIN backlog : backlog[i].id # s
  BY <1>1 DEF ServerOK, QueueOK
<1>3. \A i \in DOMAIN backlog : backlog[i].peer # s
  BY <1>1, <1>2 DEF ServerOK, QueueOK, Waits
<1>4. srv[s].pc \in {"idf", "usr"} /\ srv[s].reply # "CFM"
  BY <1>2, NoneIsNone DEF Waits
<1>5. \A a \in Accepts : accept[a].peer # s /\ ~OwnedBy(s, a)
  BY <1>1, <1>4 DEF ServerOK, LinesOK
<1>6. srv[s].user = "none"
  BY <1>1, <1>4 DEF ServerOK, UserOK
<1> QED
  BY <1>2, <1>3, <1>5, <1>6 DEF Waits

\* The line is answered; at most one Accept thread b is new.
LEMMA AnsweredDurable ==
  ASSUME WellTyped, WellTyped', Durable, TornKept, Reading, ~Reading', OriginsOK',
         UNCHANGED <<records, backlog>>,
         \A k \in Nodes : node'[k].of = node[k].of,
         \A s \in Servers : s # lst.msg.peer => srv'[s] = srv[s],
         \A s \in Servers : s = lst.msg.peer =>
           /\ srv'[s].pc = srv[s].pc /\ srv'[s].user = srv[s].user
           /\ srv'[s].clients = srv[s].clients /\ srv'[s].file = srv[s].file,
         NEW b, \A a \in Accepts : a # b => accept'[a] = accept[a],
         b \in Accepts =>
           \/ accept'[b] = accept[b]
           \/ /\ accept'[b].in = None /\ accept'[b].peer = lst.msg.peer
              /\ lst.msg.kind = "USR"
              /\ \A s \in Servers : s = lst.msg.peer => srv'[s].reply = "CFM"
  PROVE  Durable'
<1> SUFFICES ASSUME NEW s \in Servers PROVE ServerOK(s)'
  BY DEF Durable
<1>1. ServerOK(s) /\ s # None
  BY NoneIsNone DEF Durable
<1>2. /\ srv'[s].pc = srv[s].pc /\ srv'[s].user = srv[s].user
      /\ srv'[s].clients = srv[s].clients /\ srv'[s].file = srv[s].file
  OBVIOUS
<1>3. \A c : Recorded(s, c)' => Recorded(s, c)
  <2>1. \A r \in records : r.owner \in Nodes
    BY DEF WellTyped, TypeOK
  <2> QED
    BY <2>1 DEF Recorded, TornKept
<1>4. \A c : Holds(s, c)' <=> Holds(s, c)
  BY <1>2 DEF Holds
<1>5. ASSUME NEW a \in Accepts, OwnedBy(s, a)'
      PROVE  OwnedBy(s, a) /\ accept'[a] = accept[a] /\ s # lst.msg.peer
  <2>1. accept'[a] = accept[a]
    BY <1>5 DEF OwnedBy
  <2>2. accept[a].in # None
    BY <1>5, <2>1 DEF OwnedBy
  <2>3. accept[a].node \in Nodes
    BY <2>2 DEF WellTyped, AcceptsOK, NoAccept
  <2>4. OwnedBy(s, a)
    BY <1>5, <2>1, <2>3 DEF OwnedBy
  <2> QED
    BY <2>1, <2>4, PeerFacts
<1>6. QueueOK(s)'
  <2>1. \A i \in DOMAIN backlog : backlog[i].peer = s => Waits(s, backlog[i])'
    BY <1>1, PeerFacts DEF ServerOK, QueueOK, Waits
  <2>2. \A i, j \in DOMAIN backlog : i < j /\ backlog[j].id = s => backlog[i].peer # s
    BY <1>1 DEF ServerOK, QueueOK
  <2> QED
    BY <2>1, <2>2 DEF QueueOK
<1>7. AcceptedOK(s)'
  <2>1. lst'.pc \notin {"find", "add"}
    BY DEF Reading
  <2>2. CASE s = lst.msg.peer
    BY <2>1, <2>2, PeerFacts DEF AcceptedOK, Registers
  <2>3. CASE s # lst.msg.peer
    BY <1>1, <2>1, <2>3 DEF ServerOK, AcceptedOK, Registers
  <2> QED
    BY <2>2, <2>3
<1>8. LinesOK(s)'
  <2>1. ASSUME NEW a \in Accepts, accept'[a].peer = s
        PROVE  \/ srv'[s].pc = "up"
               \/ srv'[s].pc = "usr" /\ srv'[s].reply = "CFM" /\ accept'[a].in = None
    <3>1. CASE accept'[a] = accept[a]
      BY <1>1, <2>1, <3>1, PeerFacts DEF ServerOK, LinesOK
    <3>2. CASE accept'[a] # accept[a]
      BY <1>2, <2>1, <3>2, PeerFacts
    <3> QED
      BY <3>1, <3>2
  <2>2. ASSUME NEW a \in Accepts, NEW d \in Accepts, accept'[a].peer = s, accept'[d].peer = s
        PROVE  a = d
    <3>1. CASE s = lst.msg.peer
      BY <2>2, <3>1, PeerFacts
    <3>2. CASE s # lst.msg.peer
      BY <1>1, <2>2, <3>2 DEF ServerOK, LinesOK
    <3> QED
      BY <3>1, <3>2
  <2>3. ASSUME NEW a \in Accepts, OwnedBy(s, a)'
        PROVE  \/ srv'[s].pc \in {"down", "connect"}
               \/ srv'[s].pc = "up" /\ srv'[s].user = "none"
               \/ srv'[s].pc = "up" /\ accept'[a].peer = s /\ Commands(s, accept[a].in)'
               \/ srv'[s].pc = "up" /\ accept'[a].pc \in {"clear", "destroy", "remove"}
    <3>1. OwnedBy(s, a) /\ accept'[a] = accept[a] /\ srv'[s] = srv[s]
      BY <1>5, <2>3
    <3> QED
      BY <1>1, <3>1 DEF ServerOK, LinesOK, Commands
  <2> QED
    BY <1>5, <2>1, <2>2, <2>3 DEF LinesOK
<1>9. DurableOK(s)'
  <2>1. lst'.pc \notin {"find", "add"}
    BY DEF Reading
  <2> QED
    BY <1>1, <1>2, <1>3, <1>4, <1>5, <2>1 DEF ServerOK, DurableOK, Registers
<1>10. UserOK(s)'
  <2>1. CASE s = lst.msg.peer
    BY <1>2, <2>1, PeerFacts DEF UserOK
  <2>2. CASE s # lst.msg.peer
    BY <1>1, <1>3, <2>2 DEF ServerOK, UserOK
  <2> QED
    BY <2>1, <2>2
<1> QED
  BY <1>6, <1>7, <1>8, <1>9, <1>10 DEF ServerOK
LEMMA ReplyKept ==
  ASSUME WellTyped, NEW p \in Peers, NEW r \in Answers, srv' = Reply(p, r), NEW s \in Servers
  PROVE  /\ s # p => srv'[s] = srv[s]
         /\ s = p => srv'[s].reply = r
         /\ srv'[s].pc = srv[s].pc /\ srv'[s].user = srv[s].user /\ srv'[s].arg = srv[s].arg
         /\ srv'[s].clients = srv[s].clients /\ srv'[s].file = srv[s].file
<1>1. srv[s] \in ServerStates
  BY DEF WellTyped, TypeOK
<1>2. srv'[s] = IF s = p THEN [srv[s] EXCEPT !.reply = r] ELSE srv[s]
  BY ReplyFacts
<1> QED
  BY <1>1, <1>2 DEF ServerStates

LEMMA IdfAddDurable ==
  ASSUME WellTyped, WellTyped', Durable, TornKept, IdfAdd
  PROVE  Durable'
<1>1. /\ lst.pc = "add" /\ Reading /\ UNCHANGED <<node, accept, backlog>>
      /\ lst \in ListenStates /\ lst.msg \in Lines /\ lst.msg.kind = "IDF"
      /\ lst.node \in Nodes /\ node[lst.node].of = lst.msg.id /\ lst.msg.id \in Servers
  BY LineFacts DEF IdfAdd, Reading, Durable, OriginsOK, WellTyped, TypeOK, ListenOK
<1>2. PICK c \in lst.todo :
        /\ records' = addClient(c, lst.msg.entries[c], lst.node)
        /\ IF clientExist(c)
           THEN /\ srv' = Reply(lst.msg.peer, "ERM")
                /\ lst' = Idle
           ELSE /\ lst' = [lst EXCEPT !.todo = @ \ {c}]
                /\ UNCHANGED srv
  BY DEF IdfAdd
<1>3. c \in Names /\ lst.msg.entries[c] # None
  BY <1>1 DEF ListenStates, WellTyped, ListenOK
<1>4. CASE clientExist(c)
  <2>1. records' = records /\ lst'.pc = "accept" /\ srv' = Reply(lst.msg.peer, "ERM")
    BY <1>2, <1>4 DEF addClient, Idle
  <2>2. ASSUME NEW s \in Servers
        PROVE  /\ s # lst.msg.peer => srv'[s] = srv[s]
               /\ srv'[s].pc = srv[s].pc /\ srv'[s].user = srv[s].user
               /\ srv'[s].clients = srv[s].clients /\ srv'[s].file = srv[s].file
    BY <1>1, <2>1, LineFacts, ReplyKept DEF Answers
  <2>4. OriginsOK' /\ ~Reading'
    BY <1>1, <2>1 DEF Durable, OriginsOK, Reading
  <2> QED
    BY <1>1, <2>1, <2>2, <2>4, AnsweredDurable
<1>5. CASE ~clientExist(c)
  <2> DEFINE r == [name |-> c, pwd |-> lst.msg.entries[c], owner |-> lst.node]
  <2>1. records' = records \cup {r} /\ srv' = srv /\ lst' = [lst EXCEPT !.todo = @ \ {c}]
    BY <1>2, <1>5 DEF addClient
  <2>2. lst'.pc = lst.pc /\ lst'.msg = lst.msg /\ lst'.node = lst.node
    BY <1>1, <2>1 DEF ListenStates
  <2>3. r.name = c /\ r.owner = lst.node
    OBVIOUS
  <2> HIDE DEF r
  <2>4. OriginsOK'
    BY <1>1, <2>1, <2>2, <2>3 DEF Durable, OriginsOK
  <2>5. ASSUME NEW s \in Servers PROVE ServerOK(s)'
    <3>1. ServerOK(s)
      BY DEF Durable
    <3>2. \A m : Waits(s, m)' <=> Waits(s, m)
      BY <2>1 DEF Waits
    <3>3. Reading' <=> Reading
      BY <2>2 DEF Reading
    <3>4. QueueOK(s)'
      BY <1>1, <2>2, <3>1, <3>2, <3>3 DEF ServerOK, QueueOK
    <3>5. AcceptedOK(s)'
      BY <1>1, <2>1, <2>2, <3>1 DEF ServerOK, AcceptedOK, Registers
    <3>6. LinesOK(s)'
      BY <1>1, <2>1, <3>1 DEF ServerOK, LinesOK, OwnedBy, Commands
    <3>7. \A d : Recorded(s, d)' => Recorded(s, d) \/ (d = c /\ s = lst.msg.id)
      BY <1>1, <2>1, <2>3 DEF Recorded, TornKept
    <3>8. \A d : Holds(s, d)' <=> Holds(s, d)
      BY <2>1 DEF Holds
    <3>9. s = lst.msg.id => Holds(s, c)
      BY <1>1, <1>3, <3>1 DEF ServerOK, DurableOK, Registers
    <3>10. \A a \in Accepts : OwnedBy(s, a)' <=> OwnedBy(s, a)
      BY <1>1 DEF OwnedBy
    <3>11. DurableOK(s)'
      BY <1>1, <2>1, <2>2, <3>1, <3>7, <3>8, <3>9, <3>10 DEF ServerOK, DurableOK, Registers
    <3>12. s = lst.msg.id => srv[s].pc # "up"
      BY <1>1, <3>1 DEF ServerOK, AcceptedOK, Registers
    <3>13. UserOK(s)'
      BY <2>1, <3>1, <3>7, <3>12 DEF ServerOK, UserOK
    <3> QED
      BY <3>4, <3>5, <3>6, <3>11, <3>13 DEF ServerOK
  <2> QED
    BY <2>4, <2>5 DEF Durable
<1> QED
  BY <1>4, <1>5

LEMMA IdfInsertDurable ==
  ASSUME WellTyped, WellTyped', Durable, TornKept, IdfInsert
  PROVE  Durable'
<1>1. /\ lst.pc = "add" /\ Reading /\ UNCHANGED <<records, accept, backlog>>
      /\ lst.msg \in Lines /\ lst.node \in Nodes /\ node[lst.node].of = lst.msg.id
      /\ lst.msg.id \in Servers
  BY LineFacts DEF IdfInsert, Reading, Durable, OriginsOK, WellTyped, TypeOK, ListenOK
<1>2. PICK n \in Nodes, p \in Peers, id \in Servers : n = lst.node /\ p = lst.msg.peer /\ id = lst.msg.id
  BY <1>1, LineFacts
<1>3. /\ node' = [node EXCEPT ![n] = [@ EXCEPT !.id = id, !.ip = TRUE, !.pc = "sleep",
                                              !.t = TRUE, !.peer = p]]
      /\ srv' = IF p = None THEN srv
                ELSE [srv EXCEPT ![p].reply = "CFM", ![p].main = n]
      /\ lst'.pc = "accept"
  BY <1>2 DEF IdfInsert, Idle
<1>4. /\ \A k \in Nodes : k # n => node'[k] = node[k]
      /\ node'[n].of = node[n].of /\ node'[n].id = id
  <2>1. node[n] \in NodeStates /\ node \in [Nodes -> NodeStates]
    BY DEF WellTyped, TypeOK
  <2> QED
    BY <1>3, <2>1 DEF NodeStates
<1>5. ASSUME NEW s \in Servers
      PROVE  /\ s # p => srv'[s] = srv[s]
             /\ srv'[s].pc = srv[s].pc /\ srv'[s].user = srv[s].user
             /\ srv'[s].clients = srv[s].clients /\ srv'[s].file = srv[s].file
  <2>1. srv[s] \in ServerStates /\ srv \in [Servers -> ServerStates]
    BY DEF WellTyped, TypeOK
  <2> QED
    BY <1>3, <2>1 DEF ServerStates
<1>6. ~Reading'
  BY <1>3 DEF Reading
<1>7. OriginsOK'
  <2>1. \A k \in Nodes : node'[k].of = node[k].of
    BY <1>4
  <2>2. \A k \in Nodes : node'[k].id # None => node'[k].of = node'[k].id
    BY <1>1, <1>2, <1>4 DEF Durable, OriginsOK
  <2>3. \A r \in records : r.owner \in Nodes
    BY DEF WellTyped, TypeOK
  <2>4. \A a \in Accepts : accept[a].peer # None \/ accept[a].pc # "none" => accept[a].node \in Nodes
    BY DEF WellTyped, AcceptsOK, NoAccept
  <2> QED
    BY <1>1, <1>3, <2>1, <2>2, <2>3, <2>4 DEF Durable, OriginsOK
<1> QED
  BY <1>1, <1>2, <1>4, <1>5, <1>6, <1>7, AnsweredDurable

LEMMA UsrSetDurable ==
  ASSUME WellTyped, WellTyped', Durable, TornKept, UsrSet
  PROVE  Durable'
<1>1. /\ lst.pc = "set" /\ Reading /\ UNCHANGED <<records, backlog>> /\ lst \in ListenStates
      /\ lst.msg \in Lines /\ lst.node \in Nodes /\ node[lst.node].of = lst.msg.id
      /\ lst.msg.id \in Servers /\ lst.msg.kind = "USR" /\ lst.msg.peer \in Peers
  BY LineFacts DEF UsrSet, Reading, Durable, OriginsOK, WellTyped, TypeOK, ListenOK
<1>2. PICK b \in Accepts : b = NewAccept /\ FreeAccept(b)
  BY NewFacts DEF UsrSet
<1>3. PICK n \in Nodes, p \in Peers : n = lst.node /\ p = lst.msg.peer
  BY <1>1
<1>4. /\ accept' = [accept EXCEPT ![b] = [NoAccept EXCEPT !.pc = "new", !.node = n, !.peer = p]]
      /\ node' = [node EXCEPT ![n].fsa = b]
      /\ srv' = Reply(p, "CFM") /\ lst' = [lst EXCEPT !.pc = "start"]
  BY <1>2, <1>3 DEF UsrSet
<1>5. /\ \A a \in Accepts : a # b => accept'[a] = accept[a]
      /\ accept'[b].in = None /\ accept'[b].peer = p /\ accept'[b].node = n
  BY <1>4 DEF NoAccept, WellTyped, TypeOK
<1>6. \A k \in Nodes : node'[k].of = node[k].of /\ node'[k].id = node[k].id
  BY <1>4 DEF WellTyped, TypeOK, NodeStates
<1>7. ASSUME NEW s \in Servers
      PROVE  /\ s # p => srv'[s] = srv[s]
             /\ s = p => srv'[s].reply = "CFM"
             /\ srv'[s].pc = srv[s].pc /\ srv'[s].user = srv[s].user
             /\ srv'[s].clients = srv[s].clients /\ srv'[s].file = srv[s].file
  BY <1>4, ReplyKept DEF Answers
<1>9. lst'.pc = "start" /\ lst'.msg = lst.msg /\ lst'.node = lst.node
  BY <1>1, <1>4 DEF ListenStates
<1>10. ~Reading'
  BY <1>9 DEF Reading
<1>11. OriginsOK'
  <2>1. \A r \in records : r.owner \in Nodes
    BY DEF WellTyped, TypeOK
  <2>2. \A a \in Accepts : accept[a].peer # None \/ accept[a].pc # "none" => accept[a].node \in Nodes
    BY DEF WellTyped, AcceptsOK, NoAccept
  <2>3. p # None => node[n].of = p
    BY <1>1, <1>3, PeerFacts DEF Peers
  <2>4. \A a \in Accepts : /\ accept'[a].peer # None => node'[accept'[a].node].of = accept'[a].peer
                           /\ accept'[a].pc # "none" => node'[accept'[a].node].of \in Servers
    BY <1>1, <1>3, <1>5, <1>6, <2>2, <2>3 DEF Durable, OriginsOK
  <2> QED
    BY <1>1, <1>3, <1>6, <1>9, <2>1, <2>4 DEF Durable, OriginsOK
<1>12. \A s \in Servers : s = lst.msg.peer => srv'[s].reply = "CFM"
  BY <1>3, <1>7
<1>13. accept'[b].in = None /\ accept'[b].peer = lst.msg.peer /\ lst.msg.kind = "USR"
  BY <1>1, <1>3, <1>5
<1>14. /\ \A s \in Servers : s # lst.msg.peer => srv'[s] = srv[s]
       /\ \A s \in Servers : s = lst.msg.peer =>
           /\ srv'[s].pc = srv[s].pc /\ srv'[s].user = srv[s].user
           /\ srv'[s].clients = srv[s].clients /\ srv'[s].file = srv[s].file
  BY <1>3, <1>7
<1> QED
  BY <1>1, <1>5, <1>6, <1>10, <1>11, <1>12, <1>13, <1>14, AnsweredDurable
-----------------------------------------------------------------------------
(* Answers of the Accept threads.                                            *)

\* Accept thread a answers its line m with x.
LEMMA MessageDurable ==
  ASSUME WellTyped, WellTyped', Durable, TornKept, OriginsOK', UNCHANGED <<lst, backlog>>,
         NEW a \in Accepts, accept[a].pc = "run", NEW m, m = accept[a].in, m # None,
         accept'[a].in = None, accept'[a].peer = accept[a].peer,
         \A b \in Accepts : b # a =>
           /\ accept'[b].node = accept[b].node /\ accept'[b].peer = accept[b].peer
           /\ accept'[b].pc = accept[b].pc /\ accept'[b].in = accept[b].in,
         \A k \in Nodes : node'[k].of = node[k].of,
         NEW x \in Answers, srv' = Reply(accept[a].peer, x),
         \A s \in Servers : \A c : Recorded(s, c)' =>
           \/ Recorded(s, c)
           \/ OwnedBy(s, a) /\ m.op = "ADD" /\ c = m.name,
         m.op = "ADD" /\ x # "CFM" => records' = records,
         m.op = "RMV" => \A s \in Servers : ~Recorded(s, m.name)'
  PROVE  Durable'
<1> SUFFICES ASSUME NEW s \in Servers PROVE ServerOK(s)'
  BY DEF Durable
<1> DEFINE p == accept[a].peer
<1>1. /\ ServerOK(s) /\ p \in Peers /\ s # None
      /\ \A r \in records : r.owner \in Nodes
      /\ accept[a].node \in Nodes /\ (p # None => node[accept[a].node].of = p)
  BY NoneIsNone DEF Durable, OriginsOK, WellTyped, TypeOK, AcceptsOK, AcceptStates
<1>2. /\ s # p => srv'[s] = srv[s]
      /\ s = p => srv'[s].reply = x
      /\ srv'[s].pc = srv[s].pc /\ srv'[s].user = srv[s].user /\ srv'[s].arg = srv[s].arg
      /\ srv'[s].clients = srv[s].clients /\ srv'[s].file = srv[s].file
  BY <1>1, ReplyKept
<1>3. s = p => srv[s].pc = "up" /\ OwnedBy(s, a)
  BY <1>1 DEF ServerOK, LinesOK, OwnedBy
<1>4. ASSUME NEW b \in Accepts, OwnedBy(s, b)'
      PROVE  OwnedBy(s, b) /\ b # a
  <2>1. b # a /\ accept[b].in # None
    BY <1>4 DEF OwnedBy
  <2>2. accept[b].node \in Nodes
    BY <2>1 DEF WellTyped, AcceptsOK, NoAccept
  <2> QED
    BY <1>4, <2>1, <2>2 DEF OwnedBy
<1>5. \A c : Holds(s, c)' <=> Holds(s, c)
  BY <1>2 DEF Holds
<1>6. QueueOK(s)'
  <2>1. \A k : Waits(s, k) => Waits(s, k)'
    BY <1>2, <1>3 DEF Waits
  <2>2. Reading' <=> Reading
    BY DEF Reading
  <2> QED
    BY <1>1, <2>1, <2>2 DEF ServerOK, QueueOK
<1>7. AcceptedOK(s)'
  BY <1>1, <1>2, <1>3 DEF ServerOK, AcceptedOK, Registers
<1>8. \/ s # p /\ srv'[s] = srv[s]
      \/ s = p /\ srv[s].pc = "up" /\ srv[s].user = "none"
      \/ s = p /\ srv[s].pc = "up" /\ Commands(s, m)
  BY <1>1, <1>2, <1>3 DEF ServerOK, LinesOK
<1>9. LinesOK(s)'
  <2>1. ASSUME NEW b \in Accepts, accept'[b].peer = s
        PROVE  \/ srv'[s].pc = "up"
               \/ srv'[s].pc = "usr" /\ srv'[s].reply = "CFM" /\ accept'[b].in = None
    <3>1. accept[b].peer = s
      BY <2>1
    <3> QED
      BY <1>1, <1>2, <1>8, <3>1 DEF ServerOK, LinesOK
  <2>2. \A b, d \in Accepts : accept'[b].peer = s /\ accept'[d].peer = s => b = d
    BY <1>1 DEF ServerOK, LinesOK
  <2>3. ASSUME NEW b \in Accepts, OwnedBy(s, b)'
        PROVE  \/ srv'[s].pc \in {"down", "connect"}
               \/ srv'[s].pc = "up" /\ srv'[s].user = "none"
               \/ srv'[s].pc = "up" /\ accept'[b].peer = s /\ Commands(s, accept[b].in)'
               \/ srv'[s].pc = "up" /\ accept'[b].pc \in {"clear", "destroy", "remove"}
    <3>1. OwnedBy(s, b) /\ b # a
      BY <1>4, <2>3
    <3>2. accept'[b].peer = accept[b].peer /\ accept'[b].pc = accept[b].pc /\ accept'[b].in = accept[b].in
      BY <3>1
    <3>3. s = p => accept[b].peer # s
      BY <1>1, <3>1 DEF ServerOK, LinesOK
    <3>4. Commands(s, accept[b].in) /\ s # p => Commands(s, accept[b].in)'
      BY <1>2, <3>2 DEF Commands
    <3> QED
      BY <1>1, <1>2, <3>1, <3>2, <3>3, <3>4 DEF ServerOK, LinesOK
  <2>4. \A b \in Accepts : OwnedBy(s, b)' => accept'[b].in = accept[b].in
    BY <1>4
  <2> QED
    BY <2>1, <2>2, <2>3, <2>4 DEF LinesOK
<1>10. DurableOK(s)'
  <2>1. OwnedBy(s, a) /\ m.op = "ADD" => Holds(s, m.name)
    BY <1>1 DEF ServerOK, DurableOK
  <2>2. \A c \in Names : Recorded(s, c)' => Holds(s, c)
    BY <1>1, <2>1 DEF ServerOK, DurableOK
  <2> QED
    BY <1>1, <1>2, <1>4, <1>5, <2>2 DEF ServerOK, DurableOK, Registers
<1>11. UserOK(s)'
  <2>1. CASE s # p /\ srv'[s] = srv[s]
    <3>1. \A c : Recorded(s, c)' => Recorded(s, c) \/ (OwnedBy(s, a) /\ m.op = "ADD" /\ c = m.name)
      OBVIOUS
    <3>2. OwnedBy(s, a) => srv[s].user = "none"
      BY <1>1, <2>1 DEF ServerOK, LinesOK, UserOK
    <3> QED
      BY <1>1, <2>1, <3>1, <3>2 DEF ServerOK, UserOK
  <2>2. CASE srv[s].user = "none"
    BY <1>2, <2>2 DEF UserOK
  <2>3. CASE s = p /\ srv[s].pc = "up" /\ Commands(s, m)
    <3>1. srv'[s].reply = x /\ srv[s].reply = None /\ srv[s].reply # "CFM"
      BY <1>2, <2>3, NoneIsNone DEF Commands
    <3>2. CASE m.op = "ADD" /\ srv[s].user = "adding" /\ m.name = srv[s].arg
      <4>1. x # "CFM" => ~Recorded(s, srv[s].arg)'
        <5> SUFFICES ASSUME x # "CFM" PROVE ~Recorded(s, srv[s].arg)'
          OBVIOUS
        <5>1. records' = records
          BY <3>2
        <5>2. ~Recorded(s, srv[s].arg)
          BY <1>1, <3>1, <3>2 DEF ServerOK, UserOK
        <5> QED
          BY <1>1, <1>2, <5>1, <5>2 DEF Recorded, TornKept
      <4> QED
        BY <1>2, <2>3, <3>1, <3>2, <4>1 DEF UserOK
    <3>3. CASE m.op = "RMV" /\ srv[s].user = "removing" /\ m.name = srv[s].arg
      <4>1. ~Recorded(s, srv[s].arg)'
        BY <1>2, <3>3 DEF Recorded, TornKept
      <4> QED
        BY <1>2, <2>3, <3>3, <4>1 DEF UserOK
    <3>4. CASE srv[s].user \in {"changing", "status"}
      BY <1>1, <1>2, <2>3, <3>4 DEF ServerOK, UserOK
    <3> QED
      BY <2>3, <3>2, <3>3, <3>4 DEF Commands
  <2> QED
    BY <1>8, <2>1, <2>2, <2>3
<1> QED
  BY <1>6, <1>7, <1>9, <1>10, <1>11 DEF ServerOK
LEMMA AcceptMessageDurable ==
  ASSUME WellTyped, WellTyped', Durable, TornKept, NEW a \in Accepts, AcceptMessage(a)
  PROVE  Durable'
<1>0. PICK n, m : n = accept[a].node /\ m = accept[a].in
  OBVIOUS
<1>1. /\ n \in Nodes /\ \A k \in Nodes : k # n => node'[k] = node[k]
      /\ node'[n] = node[n] \/ node'[n] = DestroyedNode(n)
      /\ \A b \in Accepts : /\ accept'[b].node = accept[b].node /\ accept'[b].peer = accept[b].peer
                            /\ b # a => accept'[b].pc = accept[b].pc /\ accept'[b].in = accept[b].in
      /\ accept'[a].pc \in {"run", "clear"} /\ accept'[a].in = None
      /\ UNCHANGED <<lst, backlog>>
  BY <1>0, AcceptMessageFacts
<1>2. \A k \in Nodes : node'[k].of = node[k].of /\ node'[k].id = node[k].id
  BY <1>1, DestroyFacts
<1>3. /\ OriginsOK /\ accept[a].pc = "run" /\ m # None /\ m \in Orders /\ accept[a].peer \in Peers
      /\ lst.pc \in {"add", "set", "start"} => lst.node \in Nodes
      /\ \A r \in records : r.owner \in Nodes
      /\ \A r \in records' : r.owner \in Nodes
  BY <1>0 DEF AcceptMessage, Durable, WellTyped, TypeOK, ListenOK, AcceptStates
<1>4. CASE m.op = "CLS"
  <2>1. srv' = srv /\ records' = records
    BY <1>0, <1>4 DEF AcceptMessage
  <2>2. ListenKept /\ NodesKept
    BY <1>1, <1>2, <1>3, SameListen, SameNodes
  <2>3. ASSUME NEW b \in Accepts PROVE AcceptKept(b)
    <3>1. CASE b = a
      BY <1>1, <1>3, <3>1 DEF AcceptKept
    <3>2. CASE b # a
      <4>1. accept[b].pc = "none" => accept'[b] = NoAccept
        BY <1>1, <3>2 DEF WellTyped, AcceptsOK
      <4> QED
        BY <1>1, <3>2, <4>1, SameAccepts
    <3> QED
      BY <3>1, <3>2
  <2> QED
    BY <1>1, <2>1, <2>2, <2>3, QuietDurable
<1>5. OwnedBy(node[n].of, a) /\ node[n].of \in Servers
  BY <1>0, <1>3 DEF OwnedBy, OriginsOK
<1>6. ASSUME NEW x \in Answers, srv' = Reply(accept[a].peer, x),
             \A r \in records' : \/ \E q \in records : q.name = r.name /\ q.owner = r.owner
                                 \/ m.op = "ADD" /\ r.name = m.name /\ r.owner = n,
             m.op = "ADD" /\ x # "CFM" => records' = records,
             m.op = "RMV" => \A r \in records' : r.name # m.name
      PROVE  Durable'
  <2>1. OriginsOK'
    <3>1. \A b \in Accepts : accept[b].peer # None \/ accept[b].pc # "none" => accept[b].node \in Nodes
      BY DEF WellTyped, AcceptsOK, NoAccept
    <3>2. \A r \in records' : node'[r.owner].of \in Servers
      BY <1>2, <1>3, <1>5, <1>6 DEF OriginsOK
    <3>3. \A b \in Accepts : /\ accept'[b].peer # None => node'[accept'[b].node].of = accept'[b].peer
                             /\ accept'[b].pc # "none" => node'[accept'[b].node].of \in Servers
      BY <1>1, <1>2, <1>3, <3>1 DEF OriginsOK
    <3> QED
      BY <1>1, <1>2, <1>3, <3>2, <3>3 DEF OriginsOK
  <2>2. ASSUME NEW s \in Servers, NEW c, Recorded(s, c)'
        PROVE  \/ Recorded(s, c)
               \/ OwnedBy(s, a) /\ m.op = "ADD" /\ c = m.name
    <3>1. PICK r \in records' : r.owner \notin torn' /\ r.name = c /\ node'[r.owner].of = s
      BY <2>2 DEF Recorded
    <3>2. r.owner \in Nodes /\ node[r.owner].of = s /\ r.owner \notin torn
      BY <1>2, <1>3, <3>1 DEF TornKept
    <3> QED
      BY <1>5, <1>6, <3>1, <3>2 DEF Recorded, TornKept
  <2>3. m.op = "RMV" => \A s \in Servers : ~Recorded(s, m.name)'
    BY <1>6 DEF Recorded, TornKept
  <2>4. /\ accept'[a].peer = accept[a].peer
        /\ \A b \in Accepts : b # a =>
           /\ accept'[b].node = accept[b].node /\ accept'[b].peer = accept[b].peer
           /\ accept'[b].pc = accept[b].pc /\ accept'[b].in = accept[b].in
    BY <1>1
  <2>5. \A s \in Servers : \A c : Recorded(s, c)' =>
          \/ Recorded(s, c)
          \/ OwnedBy(s, a) /\ m.op = "ADD" /\ c = m.name
    BY <2>2
  <2>6. /\ \A k \in Nodes : node'[k].of = node[k].of
        /\ accept'[a].in = None /\ UNCHANGED <<lst, backlog>>
    BY <1>1, <1>2
  <2>7. m.op = "ADD" /\ x # "CFM" => records' = records
    BY <1>6
  <2> QED
    BY <1>0, <1>3, <1>6, <2>1, <2>3, <2>4, <2>5, <2>6, <2>7, MessageDurable
<1>7. "CFM" \in Answers /\ "ERM" \in Answers /\ "BAD" \in Answers /\ "STAT" \in Answers
  BY DEF Answers
<1>8. CASE m.op = "RFS"
  <2>1. srv' = Reply(accept[a].peer, "STAT") /\ records' = records
    BY <1>0, <1>8 DEF AcceptMessage
  <2> QED
    BY <1>6, <1>7, <1>8, <2>1
<1>9. CASE m.op = "ADD"
  <2>1. /\ srv' = Reply(accept[a].peer, IF clientExist(m.name) THEN "ERM" ELSE "CFM")
        /\ records' = addClient(m.name, m.pwd, n)
    BY <1>0, <1>9 DEF AcceptMessage
  <2>2. CASE clientExist(m.name)
    <3>1. srv' = Reply(accept[a].peer, "ERM") /\ records' = records
      BY <2>1, <2>2 DEF addClient
    <3> QED
      BY <1>6, <1>7, <1>9, <3>1
  <2>3. CASE ~clientExist(m.name)
    <3>1. srv' = Reply(accept[a].peer, "CFM")
      BY <2>1, <2>3
    <3>2. \A r \in records' : r \in records \/ (r.name = m.name /\ r.owner = n)
      BY <2>1, <2>3 DEF addClient
    <3> QED
      BY <1>6, <1>7, <1>9, <3>1, <3>2
  <2> QED
    BY <2>2, <2>3
<1>10. CASE m.op = "RMV"
  <2>1. /\ srv' = Reply(accept[a].peer, IF clientExist(m.name) THEN "CFM" ELSE "ERM")
        /\ records' = removeClient(m.name)
    BY <1>0, <1>10 DEF AcceptMessage
  <2>2. \E x \in Answers : srv' = Reply(accept[a].peer, x)
    BY <1>7, <2>1
  <2>3. \A r \in records' : r \in records /\ r.name # m.name
    BY <2>1 DEF removeClient
  <2> QED
    BY <1>6, <1>10, <2>2, <2>3
<1>11. CASE m.op = "PWD"
  <2>1. /\ srv' = Reply(accept[a].peer, IF clientExist(m.name) THEN "CFM" ELSE "BAD")
        /\ records' = changePassword(m.name, m.pwd)
    BY <1>0, <1>11 DEF AcceptMessage
  <2>2. \E x \in Answers : srv' = Reply(accept[a].peer, x)
    BY <1>7, <2>1
  <2>3. ASSUME NEW r \in records' PROVE \E q \in records : q.name = r.name /\ q.owner = r.owner
    <3>1. PICK q \in records : r = [q EXCEPT !.pwd = IF q.name = m.name THEN m.pwd ELSE @]
      BY <2>1 DEF changePassword
    <3>2. q \in [name : Names, pwd : Pwds, owner : Nodes]
      BY DEF WellTyped, TypeOK
    <3> QED
      BY <3>1, <3>2
  <2> QED
    BY <1>6, <1>11, <2>2, <2>3
<1> QED
  BY <1>3, <1>4, <1>8, <1>9, <1>10, <1>11, OrderFacts
-----------------------------------------------------------------------------
(* Steps of a file server.                                                   *)

\* What a step of server z may change: its own state, and its own ends of
\* connections and lines.
OwnStep(z) ==
  /\ records' = records
  /\ \A k \in Nodes : node'[k].of = node[k].of /\ node'[k].id = node[k].id
  /\ \A s \in Servers : s # z => srv'[s] = srv[s]
  /\ lst'.pc = lst.pc /\ lst'.node = lst.node
  /\ lst.pc \in {"find", "add", "set", "start"} =>
       /\ lst'.msg.kind = lst.msg.kind /\ lst'.msg.id = lst.msg.id
       /\ lst'.msg.entries = lst.msg.entries
       /\ \/ lst'.msg.peer = lst.msg.peer
          \/ lst.msg.peer = z /\ lst'.msg.peer = None
  /\ \A i \in DOMAIN backlog' :
       \/ /\ i \in DOMAIN backlog /\ backlog'[i].kind = backlog[i].kind
          /\ backlog'[i].id = backlog[i].id /\ backlog'[i].entries = backlog[i].entries
          /\ \/ backlog'[i].peer = backlog[i].peer
             \/ backlog[i].peer = z /\ backlog'[i].peer = None
       \/ /\ backlog'[i].peer = z /\ backlog'[i].id = z
          /\ \A j \in DOMAIN backlog : j < i
  /\ \A a \in Accepts :
       /\ accept'[a].pc = accept[a].pc /\ accept'[a].node = accept[a].node
       /\ accept[a].peer # z => accept'[a].peer = accept[a].peer /\ accept'[a].in = accept[a].in
       /\ accept[a].peer = z => accept'[a].peer \in {z, None}

LEMMA OwnStepOwned ==
  ASSUME WellTyped, OriginsOK, NEW z \in Servers, OwnStep(z), NEW s \in Servers, NEW a \in Accepts,
         OwnedBy(s, a)'
  PROVE  \/ OwnedBy(s, a) /\ accept'[a].in = accept[a].in
         \/ s = z /\ accept[a].peer = z
<1>1. z # None /\ accept'[a].pc = accept[a].pc /\ accept'[a].node = accept[a].node
  BY NoneIsNone DEF OwnStep
<1>2. accept'[a].in # None /\ node'[accept[a].node].of = s
  BY <1>1 DEF OwnedBy
<1>3. accept[a].pc # "none" => accept[a].node \in Nodes
  BY DEF WellTyped, AcceptsOK
<1>4. CASE accept[a].peer = z
  <2>1. accept[a].pc # "none"
    BY <1>1, <1>4 DEF WellTyped, AcceptsOK, NoAccept
  <2> QED
    BY <1>1, <1>2, <1>3, <1>4, <2>1 DEF OwnStep, OriginsOK
<1>5. CASE accept[a].peer # z
  <2>1. accept'[a].in = accept[a].in
    BY <1>5 DEF OwnStep
  <2>2. accept[a].pc # "none"
    BY <1>2, <2>1 DEF WellTyped, AcceptsOK, NoAccept
  <2> QED
    BY <1>2, <1>3, <2>1, <2>2 DEF OwnStep, OwnedBy
<1> QED
  BY <1>4, <1>5

LEMMA OwnStepRecorded ==
  ASSUME WellTyped, TornKept, NEW z, OwnStep(z), NEW s, NEW c
  PROVE  Recorded(s, c)' => Recorded(s, c)
<1>1. \A r \in records : r.owner \in Nodes
  BY DEF WellTyped, TypeOK
<1> QED
  BY <1>1 DEF OwnStep, Recorded, TornKept

\* Such a step leaves what is known of the other servers.
LEMMA OthersDurable ==
  ASSUME WellTyped, WellTyped', Durable, TornKept, NEW z \in Servers, OwnStep(z), ServerOK(z)'
  PROVE  Durable'
<1>0. OriginsOK /\ z # None
  BY NoneIsNone DEF Durable
<1>1. OriginsOK'
  <2>1. \A r \in records : r.owner \in Nodes
    BY DEF WellTyped, TypeOK
  <2>2. \A a \in Accepts : accept[a].peer # None \/ accept[a].pc # "none" => accept[a].node \in Nodes
    BY DEF WellTyped, AcceptsOK, NoAccept
  <2>3. lst.pc \in {"add", "set", "start"} => lst.node \in Nodes
    BY DEF WellTyped, ListenOK
  <2>4. \A a \in Accepts : /\ accept'[a].peer # None => node'[accept'[a].node].of = accept'[a].peer
                           /\ accept'[a].pc # "none" => node'[accept'[a].node].of \in Servers
    BY <1>0, <2>2 DEF OriginsOK, OwnStep
  <2>5. /\ \A k \in Nodes : node'[k].id # None => node'[k].of = node'[k].id
        /\ \A r \in records' : node'[r.owner].of \in Servers
    BY <1>0, <2>1 DEF OriginsOK, OwnStep
  <2>6. lst'.pc \in {"add", "set", "start"} => node'[lst'.node].of = lst'.msg.id
    BY <1>0, <2>3 DEF OriginsOK, OwnStep
  <2> QED
    BY <2>4, <2>5, <2>6 DEF OriginsOK
<1> SUFFICES ASSUME NEW s \in Servers, s # z PROVE ServerOK(s)'
  BY <1>1 DEF Durable
<1>2. ServerOK(s) /\ srv'[s] = srv[s] /\ s # None
  BY NoneIsNone DEF Durable, OwnStep
<1>3. /\ Reading' <=> Reading
      /\ Reading => /\ lst'.msg.kind = lst.msg.kind /\ lst'.msg.id = lst.msg.id
                    /\ lst'.msg.entries = lst.msg.entries
                    /\ lst'.msg.peer = s => lst.msg.peer = s
      /\ lst'.pc \in {"find", "add"} <=> lst.pc \in {"find", "add"}
  BY <1>2 DEF OwnStep, Reading
<1>4. \A i \in DOMAIN backlog' : backlog'[i].peer = s \/ backlog'[i].id = s =>
        /\ i \in DOMAIN backlog /\ backlog'[i].kind = backlog[i].kind
        /\ backlog'[i].id = backlog[i].id /\ backlog'[i].entries = backlog[i].entries
        /\ backlog'[i].peer = s => backlog[i].peer = s
  BY <1>2 DEF OwnStep
<1>5. QueueOK(s)'
  <2>1. \A i \in DOMAIN backlog' : backlog'[i].peer = s => Waits(s, backlog[i])
    BY <1>2, <1>4 DEF ServerOK, QueueOK
  <2>2. \A i \in DOMAIN backlog' : backlog'[i].peer = s => Waits(s, backlog[i])'
    BY <1>2, <1>4, <2>1 DEF Waits
  <2>3. Reading /\ lst'.msg.peer = s => Waits(s, lst.msg)
    BY <1>2, <1>3 DEF ServerOK, QueueOK
  <2>4. Reading /\ lst'.msg.peer = s => Waits(s, lst.msg)'
    BY <1>2, <1>3, <2>3 DEF Waits
  <2>5. \A i, j \in DOMAIN backlog' : i < j /\ backlog'[j].id = s => backlog'[i].peer # s
    BY <1>2, <1>4 DEF ServerOK, QueueOK
  <2>6. Reading /\ lst'.msg.peer = s => \A i \in DOMAIN backlog' : backlog'[i].id # s
    BY <1>2, <1>3, <1>4 DEF ServerOK, QueueOK
  <2> QED
    BY <1>3, <2>2, <2>4, <2>5, <2>6 DEF QueueOK
<1>6. \A i \in DOMAIN backlog' : Registers(s, backlog[i])' =>
        i \in DOMAIN backlog /\ Registers(s, backlog[i]) /\ backlog'[i].entries = backlog[i].entries
  BY <1>4 DEF Registers
<1>7. lst.pc \in {"find", "add"} => (Registers(s, lst.msg)' <=> Registers(s, lst.msg))
  BY <1>3 DEF Registers, Reading
<1>8. AcceptedOK(s)'
  BY <1>2, <1>3, <1>6, <1>7 DEF ServerOK, AcceptedOK
<1>9. ASSUME NEW a \in Accepts
      PROVE  /\ accept'[a].peer = s => accept[a].peer = s /\ accept'[a].in = accept[a].in
             /\ OwnedBy(s, a)' => /\ OwnedBy(s, a) /\ accept'[a].in = accept[a].in
                                  /\ accept'[a].peer = accept[a].peer
  <2>1. accept'[a].peer = s => accept[a].peer = s /\ accept'[a].in = accept[a].in
    BY <1>2 DEF OwnStep
  <2>2. ASSUME OwnedBy(s, a)'
        PROVE  /\ OwnedBy(s, a) /\ accept'[a].in = accept[a].in
               /\ accept'[a].peer = accept[a].peer
    <3>1. OwnedBy(s, a) /\ accept'[a].in = accept[a].in
      BY <1>0, <2>2, OwnStepOwned
    <3>2. accept[a].peer # z
      BY <1>0, <3>1 DEF OwnedBy, OriginsOK
    <3> QED
      BY <3>1, <3>2 DEF OwnStep
  <2> QED
    BY <2>1, <2>2
<1>10. LinesOK(s)'
  <2>1. \A a \in Accepts : accept'[a].pc = accept[a].pc
    BY DEF OwnStep
  <2>2. \A a \in Accepts : OwnedBy(s, a)' /\ Commands(s, accept[a].in) => Commands(s, accept[a].in)'
    BY <1>2, <1>9 DEF Commands
  <2> QED
    BY <1>2, <1>9, <2>1, <2>2 DEF ServerOK, LinesOK
<1>11. DurableOK(s)'
  <2>1. \A c : Holds(s, c)' <=> Holds(s, c)
    BY <1>2 DEF Holds
  <2>2. \A c : Recorded(s, c)' => Recorded(s, c)
    BY OwnStepRecorded
  <2>3. \A a \in Accepts : accept'[a].pc = accept[a].pc
    BY DEF OwnStep
  <2>4. lst.pc \in {"find", "add"} => lst'.msg.entries = lst.msg.entries
    BY DEF OwnStep
  <2>5. \A a \in Accepts : OwnedBy(s, a)' /\ accept'[a].in.op = "ADD"
                        /\ accept'[a].pc \in {"new", "run"} => Holds(s, accept[a].in.name)'
    BY <1>2, <1>9, <2>1, <2>3 DEF ServerOK, DurableOK
  <2>6. /\ \A c \in Names : Recorded(s, c)' => Holds(s, c)'
        /\ \A i \in DOMAIN backlog' : Registers(s, backlog[i])' =>
             \A c \in Names : backlog'[i].entries[c] # None => Holds(s, c)'
        /\ lst'.pc \in {"find", "add"} /\ Registers(s, lst.msg)' =>
             \A c \in Names : lst'.msg.entries[c] # None => Holds(s, c)'
    BY <1>2, <1>3, <1>6, <1>7, <2>1, <2>2, <2>4 DEF ServerOK, DurableOK
  <2>7. srv'[s].pc # "down" => \A c \in Names : srv'[s].clients[c] # None =>
                                 srv'[s].file[c] # None \/ srv'[s].user = "truncated"
    BY <1>2 DEF ServerOK, DurableOK
  <2> QED
    BY <2>5, <2>6, <2>7 DEF DurableOK
<1>12. UserOK(s)'
  <2>1. \A c : Recorded(s, c)' => Recorded(s, c)
    BY OwnStepRecorded
  <2> QED
    BY <1>2, <2>1 DEF ServerOK, UserOK
<1> QED
  BY <1>5, <1>8, <1>10, <1>11, <1>12 DEF ServerOK
\* z ends, starts, or is about to connect again: nothing it sent is waited for.
LEMMA RestartDurable ==
  ASSUME WellTyped, WellTyped', Durable, TornKept, NEW z \in Servers, OwnStep(z),
         srv'[z].user = "none", srv'[z].file = srv[z].file,
         \/ srv[z].user # "truncated"
         \/ srv'[z].pc = "down" /\ \A c \in Names : ~Recorded(z, c)',
         \/ srv'[z].pc = "down"
         \/ /\ srv'[z].pc = "connect"
            /\ \/ srv'[z].clients = srv[z].file
               \/ srv[z].pc # "down" /\ srv'[z].clients = srv[z].clients,
         \A i \in DOMAIN backlog' : backlog'[i].peer # z,
         Reading' => lst'.msg.peer # z,
         \A a \in Accepts : /\ accept'[a].peer # z
                            /\ \/ accept'[a].in \in {accept[a].in, None}
                               \/ accept'[a].in.op # "ADD"
  PROVE  Durable'
<1> SUFFICES ServerOK(z)'
  BY OthersDurable
<1>1. ServerOK(z) /\ OriginsOK
  BY DEF Durable
<1>2. QueueOK(z)' /\ AcceptedOK(z)' /\ LinesOK(z)' /\ UserOK(z)'
  BY DEF QueueOK, AcceptedOK, LinesOK, UserOK
<1>3. srv[z].user # "truncated" => \A c \in Names : Holds(z, c) => Holds(z, c)'
  BY DEF Holds
<1>11. ASSUME srv[z].user = "truncated"
       PROVE  /\ \A i \in DOMAIN backlog : ~Registers(z, backlog[i])
              /\ lst.pc \in {"find", "add"} => ~Registers(z, lst.msg)
              /\ \A a \in Accepts : OwnedBy(z, a) => accept[a].pc \notin {"new", "run"}
  <2>1. srv[z].pc = "up" /\ \A a \in Accepts : ~Commands(z, accept[a].in)
    BY <1>1, <1>11 DEF ServerOK, UserOK, Commands
  <2> QED
    BY <1>1, <1>11, <2>1 DEF ServerOK, AcceptedOK, LinesOK
<1>4. \A c : Recorded(z, c)' => Recorded(z, c)
  BY OwnStepRecorded
<1>5. ASSUME NEW i \in DOMAIN backlog', Registers(z, backlog[i])', NEW c \in Names,
             backlog'[i].entries[c] # None
      PROVE  Holds(z, c)'
  <2>1. i \in DOMAIN backlog /\ Registers(z, backlog[i]) /\ backlog'[i].entries = backlog[i].entries
    BY <1>5 DEF OwnStep, Registers
  <2> QED
    BY <1>1, <1>3, <1>5, <1>11, <2>1 DEF ServerOK, DurableOK
<1>6. ASSUME lst'.pc \in {"find", "add"}, Registers(z, lst.msg)', NEW c \in Names,
             lst'.msg.entries[c] # None
      PROVE  Holds(z, c)'
  <2>1. lst.pc \in {"find", "add"} /\ Registers(z, lst.msg) /\ lst'.msg.entries = lst.msg.entries
    BY <1>6 DEF OwnStep, Registers
  <2> QED
    BY <1>1, <1>3, <1>6, <1>11, <2>1 DEF ServerOK, DurableOK
<1>7. ASSUME NEW a \in Accepts, OwnedBy(z, a)', accept'[a].in.op = "ADD",
             accept'[a].pc \in {"new", "run"}
      PROVE  Holds(z, accept[a].in.name)'
  <2>1. accept'[a].in = accept[a].in /\ accept'[a].pc = accept[a].pc /\ accept[a].in # None
    BY <1>7 DEF OwnedBy, OwnStep
  <2>2. OwnedBy(z, a)
    <3>1. CASE accept[a].peer = z
      BY <1>1, <2>1, <3>1, NoneIsNone DEF OwnedBy, OriginsOK
    <3>2. CASE accept[a].peer # z
      BY <1>1, <1>7, <3>2, OwnStepOwned
    <3> QED
      BY <3>1, <3>2
  <2>3. accept[a].in.name \in Names
    <3>1. accept[a].in \in Orders
      BY <2>1 DEF WellTyped, TypeOK, AcceptStates
    <3> QED
      BY <1>7, <2>1, <3>1, OrderFacts
  <2>4. Holds(z, accept[a].in.name)
    BY <1>1, <1>7, <2>1, <2>2 DEF ServerOK, DurableOK
  <2>5. srv[z].user # "truncated"
    BY <1>7, <1>11, <2>1, <2>2
  <2> QED
    BY <1>3, <2>1, <2>3, <2>4, <2>5 DEF Holds
<1>8. srv'[z].pc # "down" => \A c \in Names : srv'[z].clients[c] # None => srv'[z].file[c] # None
  BY <1>1 DEF ServerOK, DurableOK
<1>9. \A c \in Names : Recorded(z, c)' => Holds(z, c)'
  BY <1>1, <1>3, <1>4 DEF ServerOK, DurableOK
<1>10. DurableOK(z)'
  BY <1>5, <1>6, <1>7, <1>8, <1>9 DEF DurableOK
<1> QED
  BY <1>2, <1>10 DEF ServerOK

\* z has no line that it waits for.
LEMMA QuietServer ==
  ASSUME WellTyped, Durable, NEW z \in Servers,
         srv[z].pc \in {"down", "connect", "up"} \/ srv[z].reply # None
  PROVE  /\ \A i \in DOMAIN backlog : backlog[i].peer # z
         /\ Reading => lst.msg.peer # z
<1>1. QueueOK(z)
  BY DEF Durable, ServerOK
<1> QED
  BY <1>1 DEF QueueOK, Waits

LEMMA BootDurable ==
  ASSUME WellTyped, WellTyped', Durable, TornKept, NEW z \in Servers, Boot(z)
  PROVE  Durable'
<1>1. srv \in [Servers -> ServerStates] /\ srv[z] \in ServerStates
  BY DEF WellTyped, TypeOK
<1>2. /\ srv[z].pc = "down" /\ srv'[z].pc = "connect" /\ srv'[z].user = srv[z].user
      /\ srv'[z].file = srv[z].file /\ srv'[z].clients = srv[z].file
      /\ \A s \in Servers : s # z => srv'[s] = srv[s]
      /\ UNCHANGED masterVars
  BY <1>1 DEF Boot, Set, ServerStates
<1>3. OwnStep(z)
  BY <1>2 DEF OwnStep, masterVars
<1>4. srv[z].user = "none" /\ \A a \in Accepts : accept[a].peer # z
  BY <1>2 DEF Durable, ServerOK, UserOK, LinesOK
<1>5. Reading' <=> Reading
  BY <1>2 DEF masterVars, Reading
<1> QED
  BY <1>2, <1>3, <1>4, <1>5, QuietServer, RestartDurable DEF masterVars

LEMMA BrokenDurable ==
  ASSUME WellTyped, WellTyped', Durable, TornKept, NEW z \in Servers, Broken(z)
  PROVE  Durable'
<1>1. srv \in [Servers -> ServerStates] /\ srv[z] \in ServerStates /\ z # None
  BY NoneIsNone DEF WellTyped, TypeOK
<1>2. /\ srv[z].pc = "up" /\ srv'[z].pc = "connect" /\ srv'[z].user = "none"
      /\ srv'[z].file = srv[z].file /\ srv'[z].clients = srv[z].clients
      /\ srv[z].user # "truncated"
      /\ \A s \in Servers : s # z => srv'[s] = srv[s]
      /\ UNCHANGED <<records, node, lst, backlog>>
  BY <1>1 DEF Broken, UserRests, Set, ServerStates
<1>3. \A a \in Accepts : /\ accept'[a].pc = accept[a].pc /\ accept'[a].node = accept[a].node
                         /\ accept'[a].in = accept[a].in
                         /\ accept'[a].peer = Hang(accept[a].peer, z)
  BY CloseFacts DEF Broken
<1>4. OwnStep(z)
  BY <1>2, <1>3 DEF OwnStep, Hang
<1>5. Reading' <=> Reading
  BY <1>2 DEF Reading
<1>6. \A a \in Accepts : accept'[a].peer # z /\ accept'[a].in \in {accept[a].in, None}
  BY <1>1, <1>3 DEF Hang
<1> QED
  BY <1>2, <1>4, <1>5, <1>6, QuietServer, RestartDurable

LEMMA HungLines ==
  ASSUME WellTyped, NEW z \in Servers,
         backlog' = [i \in DOMAIN backlog |-> [backlog[i] EXCEPT !.peer = Hang(@, z)]]
  PROVE  \A i \in DOMAIN backlog' :
           /\ i \in DOMAIN backlog /\ backlog'[i].kind = backlog[i].kind
           /\ backlog'[i].id = backlog[i].id /\ backlog'[i].entries = backlog[i].entries
           /\ backlog'[i].peer # z
           /\ \/ backlog'[i].peer = backlog[i].peer
              \/ backlog[i].peer = z /\ backlog'[i].peer = None
<1> SUFFICES ASSUME NEW i \in DOMAIN backlog
             PROVE  /\ backlog'[i].kind = backlog[i].kind
                    /\ backlog'[i].id = backlog[i].id /\ backlog'[i].entries = backlog[i].entries
                    /\ backlog'[i].peer # z
                    /\ \/ backlog'[i].peer = backlog[i].peer
                       \/ backlog[i].peer = z /\ backlog'[i].peer = None
  OBVIOUS
<1>1. backlog[i] \in Lines /\ z # None
  BY NoneIsNone DEF WellTyped, TypeOK
<1>2. backlog'[i] = [backlog[i] EXCEPT !.peer = Hang(@, z)]
  OBVIOUS
<1> QED
  BY <1>1, <1>2 DEF Lines, Hang

LEMMA HungNodes ==
  ASSUME WellTyped, NEW z \in Servers, CloseMain(z)
  PROVE  \A k \in Nodes : node'[k].of = node[k].of /\ node'[k].id = node[k].id
<1> SUFFICES ASSUME NEW k \in Nodes PROVE node'[k].of = node[k].of /\ node'[k].id = node[k].id
  OBVIOUS
<1>1. node[k] \in NodeStates
  BY DEF WellTyped, TypeOK
<1>2. node'[k] = node[k] \/ node'[k] = [node[k] EXCEPT !.peer = None]
  BY CloseFacts
<1> QED
  BY <1>1, <1>2 DEF NodeStates

LEMMA FailDurable ==
  ASSUME WellTyped, WellTyped', Durable, TornKept, NEW z \in Servers, FailConnect(z),
         srv[z].pc \in {"connect", "idf", "usr"},
         srv[z].pc # "usr" \/ srv[z].reply # "CFM",
         \A i \in DOMAIN backlog : backlog[i].peer # z,
         Reading => lst.msg.peer # z
  PROVE  Durable'
<1>1. srv \in [Servers -> ServerStates] /\ srv[z] \in ServerStates /\ z # None
  BY NoneIsNone DEF WellTyped, TypeOK
<1>2. srv' = [srv EXCEPT ![z] = Retry(srv[z])] /\ UNCHANGED <<records, lst>>
  BY DEF FailConnect, Set
<1>3. srv[z].user = "none" /\ \A a \in Accepts : accept[a].peer # z
  BY DEF Durable, ServerOK, UserOK, LinesOK
<1>4. Reading' <=> Reading
  BY <1>2 DEF Reading
<1>5. CASE srv[z].tries + 1 = MAX_TRY
  <2>1. /\ CloseMain(z) /\ CloseUser(z)
        /\ backlog' = [i \in DOMAIN backlog |-> [backlog[i] EXCEPT !.peer = Hang(@, z)]]
    BY <1>5 DEF FailConnect
  <2>2. /\ srv'[z].pc = "down" /\ srv'[z].user = "none" /\ srv'[z].file = srv[z].file
        /\ \A s \in Servers : s # z => srv'[s] = srv[s]
    BY <1>1, <1>2, <1>5 DEF Retry, Off
  <2>3. \A a \in Accepts : /\ accept'[a].pc = accept[a].pc /\ accept'[a].node = accept[a].node
                           /\ accept'[a].in = accept[a].in /\ accept'[a].peer = accept[a].peer
    BY <1>3, <2>1, CloseFacts DEF Hang
  <2>4. \A i \in DOMAIN backlog' :
          /\ i \in DOMAIN backlog /\ backlog'[i].kind = backlog[i].kind
          /\ backlog'[i].id = backlog[i].id /\ backlog'[i].entries = backlog[i].entries
          /\ \/ backlog'[i].peer = backlog[i].peer
             \/ backlog[i].peer = z /\ backlog'[i].peer = None
    BY <2>1, HungLines
  <2>5. OwnStep(z)
    <3>1. \A k \in Nodes : node'[k].of = node[k].of /\ node'[k].id = node[k].id
      BY <2>1, HungNodes
    <3> QED
      BY <1>2, <1>3, <2>2, <2>3, <2>4, <3>1 DEF OwnStep
  <2>6. /\ \A i \in DOMAIN backlog' : backlog'[i].peer # z
        /\ \A a \in Accepts : accept'[a].peer # z /\ accept'[a].in \in {accept[a].in, None}
    BY <1>3, <2>3, <2>4
  <2>7. srv[z].user # "truncated"
    BY <1>3
  <2> QED
    BY <1>2, <1>4, <2>2, <2>5, <2>6, <2>7, RestartDurable
<1>6. CASE srv[z].tries + 1 # MAX_TRY
  <2>1. UNCHANGED <<node, accept, backlog>>
    BY <1>6 DEF FailConnect
  <2>2. /\ srv'[z].pc = "connect" /\ srv'[z].user = srv[z].user /\ srv'[z].file = srv[z].file
        /\ srv'[z].clients = srv[z].clients
        /\ \A s \in Servers : s # z => srv'[s] = srv[s]
    BY <1>1, <1>2, <1>6 DEF Retry, ServerStates
  <2>3. OwnStep(z)
    BY <1>2, <2>1, <2>2 DEF OwnStep
  <2> QED
    BY <1>2, <1>3, <1>4, <2>1, <2>2, <2>3, RestartDurable
<1> QED
  BY <1>5, <1>6
\* z sends the line IDF or USR.
LEMMA SendDurable ==
  ASSUME WellTyped, WellTyped', Durable, TornKept, NEW z \in Servers, NEW kind \in {"IDF", "USR"},
         Send(z, kind), UNCHANGED <<records, node, accept, lst>>,
         srv' = [srv EXCEPT ![z] = [srv[z] EXCEPT
                   !.pc = IF kind = "IDF" THEN "idf" ELSE "usr", !.reply = None]],
         IF kind = "IDF" THEN srv[z].pc = "connect" /\ OldLinesRead(z)
         ELSE srv[z].pc = "idf" /\ srv[z].reply = "CFM"
  PROVE  Durable'
<1> DEFINE e == [kind |-> kind, peer |-> z, id |-> z,
                 entries |-> IF kind = "IDF" THEN srv[z].clients ELSE NoClients]
<1>1. srv \in [Servers -> ServerStates] /\ srv[z] \in ServerStates /\ backlog \in Seq(Lines)
  BY DEF WellTyped, TypeOK
<1>2. /\ srv'[z].pc = (IF kind = "IDF" THEN "idf" ELSE "usr") /\ srv'[z].reply = None
      /\ srv'[z].user = srv[z].user /\ srv'[z].clients = srv[z].clients
      /\ srv'[z].file = srv[z].file
      /\ \A s \in Servers : s # z => srv'[s] = srv[s]
  BY <1>1 DEF ServerStates
<1>3. backlog' = Append(backlog, e)
  BY DEF Send
<1>4. /\ e.kind = kind /\ e.peer = z /\ e.id = z
      /\ kind = "IDF" => e.entries = srv[z].clients
  OBVIOUS
<1> HIDE DEF e
<1>5. /\ \A i \in DOMAIN backlog' :
           \/ i \in DOMAIN backlog /\ backlog'[i] = backlog[i]
           \/ backlog'[i] = e /\ i = Len(backlog) + 1
      /\ \A i \in DOMAIN backlog' : i \in Nat
      /\ \A i \in DOMAIN backlog : i < Len(backlog) + 1
  BY <1>1, <1>3
<1>6. OwnStep(z)
  BY <1>2, <1>4, <1>5 DEF OwnStep
<1>7. srv[z].reply # None \/ srv[z].pc = "connect"
  BY NoneIsNone DEF Durable
<1>8. /\ \A i \in DOMAIN backlog : backlog[i].peer # z
      /\ Reading => lst.msg.peer # z
  BY <1>7, QuietServer
<1>9. ServerOK(z) /\ srv[z].user = "none"
  BY DEF Durable, ServerOK, UserOK
<1>10. \A a \in Accepts : accept[a].peer # z /\ ~OwnedBy(z, a)
  BY <1>9 DEF ServerOK, LinesOK, OldLinesRead, OwnedBy
<1>11. QueueOK(z)'
  <2>1. ASSUME NEW i \in DOMAIN backlog', backlog'[i].peer = z PROVE Waits(z, backlog[i])'
    <3>1. backlog'[i] = e
      BY <1>5, <1>8, <2>1
    <3> QED
      BY <1>2, <1>4, <3>1 DEF Waits
  <2>2. ASSUME NEW i \in DOMAIN backlog', NEW j \in DOMAIN backlog', i < j PROVE backlog'[i].peer # z
    BY <1>5, <1>8, <2>2
  <2>3. ~(Reading' /\ lst'.msg.peer = z)
    BY <1>8 DEF Reading
  <2> QED
    BY <2>1, <2>2, <2>3 DEF QueueOK
<1>12. AcceptedOK(z)'
  <2>1. CASE kind = "IDF"
    BY <1>2, <2>1, NoneIsNone DEF AcceptedOK
  <2>2. CASE kind = "USR"
    BY <1>4, <1>5, <1>9, <2>2 DEF ServerOK, AcceptedOK, Registers
  <2> QED
    BY <2>1, <2>2
<1>13. \A a \in Accepts : ~OwnedBy(z, a)'
  BY <1>10 DEF OwnedBy
<1>14. LinesOK(z)'
  BY <1>10, <1>13 DEF LinesOK
<1>15. UserOK(z)'
  BY <1>2, <1>9 DEF UserOK
<1>16. DurableOK(z)'
  <2>1. srv[z].pc # "down" /\ srv'[z].pc # "down"
    BY <1>2
  <2>2. \A c : Holds(z, c)' <=> Holds(z, c)
    BY <1>2, <2>1 DEF Holds
  <2>3. \A c : Recorded(z, c)' => Recorded(z, c)
    BY <1>6, OwnStepRecorded
  <2>4. \A c \in Names : srv[z].clients[c] # None => Holds(z, c)
    BY <1>9, <2>1 DEF ServerOK, DurableOK, Holds
  <2>5. ASSUME NEW i \in DOMAIN backlog', Registers(z, backlog[i])', NEW c \in Names,
               backlog'[i].entries[c] # None
        PROVE  Holds(z, c)
    BY <1>4, <1>5, <1>9, <2>4, <2>5 DEF Registers, ServerOK, DurableOK
  <2>6. ASSUME lst'.pc \in {"find", "add"}, Registers(z, lst.msg)', NEW c \in Names,
               lst'.msg.entries[c] # None
        PROVE  Holds(z, c)
    BY <1>9, <2>6 DEF Registers, ServerOK, DurableOK
  <2>7. /\ \A c \in Names : Recorded(z, c)' => Holds(z, c)'
        /\ \A c \in Names : srv'[z].clients[c] # None => srv'[z].file[c] # None
    BY <1>2, <1>9, <2>1, <2>2, <2>3 DEF ServerOK, DurableOK
  <2> QED
    BY <1>13, <2>2, <2>5, <2>6, <2>7 DEF DurableOK
<1> QED
  BY <1>6, <1>11, <1>12, <1>14, <1>15, <1>16, OthersDurable DEF ServerOK

LEMMA ConnectDurable ==
  ASSUME WellTyped, WellTyped', Durable, TornKept, NEW z \in Servers,
         ConnectMain(z) \/ ConnectUser(z) \/ ConnectRefused(z)
  PROVE  Durable'
<1>1. CASE ConnectMain(z) /\ FailConnect(z)
  <2>1. srv[z].pc = "connect"
    BY <1>1 DEF ConnectMain
  <2> QED
    BY <1>1, <2>1, QuietServer, FailDurable
<1>2. CASE ConnectMain(z) /\ ~FailConnect(z)
  BY <1>2, SendDurable DEF ConnectMain, Set
<1>3. CASE ConnectUser(z) /\ FailConnect(z)
  <2>1. srv[z].pc = "idf" /\ srv[z].reply = "CFM" /\ srv[z].reply # None
    BY <1>3, NoneIsNone DEF ConnectUser
  <2> QED
    BY <1>3, <2>1, QuietServer, FailDurable
<1>4. CASE ConnectUser(z) /\ ~FailConnect(z)
  BY <1>4, SendDurable DEF ConnectUser, Set
<1>5. CASE ConnectRefused(z)
  <2>1. FailConnect(z) /\ srv[z].pc \in {"connect", "idf", "usr"}
    BY <1>5 DEF ConnectRefused
  <2>2. CASE srv[z].pc = "idf" /\ srv[z].reply = "ERM"
    <3>1. srv[z].reply # None
      BY <2>2, NoneIsNone
    <3> QED
      BY <2>1, <2>2, <3>1, QuietServer, FailDurable
  <2>3. CASE srv[z].reply = None /\ ~Pending(z)
    <3>1. Reading => lst.msg # None
      BY ClusterAssumption DEF Reading, WellTyped, ListenOK
    <3>2. (\A i \in DOMAIN backlog : backlog[i].peer # z) /\ (Reading => lst.msg.peer # z)
      BY <2>3, <3>1 DEF Pending
    <3>3. srv[z].reply # "CFM"
      BY <2>3, NoneIsNone
    <3> QED
      BY <2>1, <3>2, <3>3, FailDurable
  <2> QED
    BY <1>5, <2>2, <2>3 DEF ConnectRefused
<1> QED
  BY <1>1, <1>2, <1>3, <1>4, <1>5

LEMMA RegisteredDurable ==
  ASSUME WellTyped, WellTyped', Durable, TornKept, NEW z \in Servers, Registered(z)
  PROVE  Durable'
<1>1. srv \in [Servers -> ServerStates] /\ srv[z] \in ServerStates
  BY DEF WellTyped, TypeOK
<1>2. /\ srv[z].pc = "usr" /\ srv[z].reply = "CFM" /\ srv'[z].pc = "up" /\ srv'[z].reply = None
      /\ srv'[z].user = "idle" /\ srv'[z].clients = srv[z].clients
      /\ srv'[z].file = srv[z].file
      /\ \A s \in Servers : s # z => srv'[s] = srv[s]
      /\ UNCHANGED <<records, node, accept, lst, backlog>>
  BY <1>1 DEF Registered, Set, ServerStates, masterVars
<1>3. ServerOK(z) /\ srv[z].reply # None /\ srv[z].user = "none"
  BY <1>2, NoneIsNone DEF Durable, ServerOK, UserOK
<1>4. OwnStep(z)
  BY <1>2 DEF OwnStep
<1>5. QueueOK(z)'
  <2>1. (\A i \in DOMAIN backlog' : backlog'[i].peer # z) /\ ~(Reading' /\ lst'.msg.peer = z)
    BY <1>2, <1>3, QuietServer DEF Reading
  <2> QED
    BY <2>1 DEF QueueOK
<1>6. AcceptedOK(z)'
  BY <1>2, <1>3 DEF ServerOK, AcceptedOK, Registers
<1>7. \A a \in Accepts : ~OwnedBy(z, a) /\ ~OwnedBy(z, a)'
  BY <1>2, <1>3 DEF ServerOK, LinesOK, OwnedBy
<1>8. LinesOK(z)'
  BY <1>2, <1>3, <1>7 DEF ServerOK, LinesOK
<1>9. UserOK(z)'
  BY <1>2 DEF UserOK
<1>10. DurableOK(z)'
  <2>1. \A c : (Holds(z, c)' <=> Holds(z, c)) /\ (Recorded(z, c)' => Recorded(z, c))
    BY <1>2, <1>3 DEF Holds, Recorded, TornKept
  <2> QED
    BY <1>2, <1>3, <1>7, <2>1 DEF ServerOK, DurableOK, Registers
<1> QED
  BY <1>4, <1>5, <1>6, <1>8, <1>9, <1>10, OthersDurable DEF ServerOK
-----------------------------------------------------------------------------
(* The user thread.                                                          *)

\* A step of the user thread of z, which may write a line on its connection.
LEMMA UserDurable ==
  ASSUME WellTyped, WellTyped', Durable, TornKept, NEW z \in Servers,
         UNCHANGED <<records, node, lst, backlog>>, srv[z].pc = "up", srv'[z].pc = "up",
         \A s \in Servers : s # z => srv'[s] = srv[s],
         \A a \in Accepts :
           /\ accept'[a].pc = accept[a].pc /\ accept'[a].node = accept[a].node
           /\ accept'[a].peer = accept[a].peer
           /\ accept[a].peer # z => accept'[a].in = accept[a].in,
         \A a \in Accepts : OwnedBy(z, a)' =>
           \/ srv'[z].user = "none"
           \/ accept[a].peer = z /\ Commands(z, accept[a].in)'
           \/ accept[a].pc \in {"clear", "destroy", "remove"},
         \A a \in Accepts : OwnedBy(z, a)' /\ accept'[a].in.op = "ADD"
                            /\ accept[a].pc \in {"new", "run"} => Holds(z, accept[a].in.name)',
         \A c \in Names : Recorded(z, c) => Holds(z, c)',
         \A c \in Names : srv'[z].clients[c] # None =>
           srv'[z].file[c] # None \/ srv'[z].user = "truncated",
         UserOK(z)'
  PROVE  Durable'
<1>1. OwnStep(z)
  BY DEF OwnStep
<1>2. ServerOK(z)
  BY DEF Durable
<1>3. (\A i \in DOMAIN backlog' : backlog'[i].peer # z) /\ ~(Reading' /\ lst'.msg.peer = z)
  BY QuietServer DEF Reading
<1>4. QueueOK(z)'
  BY <1>3 DEF QueueOK
<1>5. AcceptedOK(z)'
  BY <1>2 DEF ServerOK, AcceptedOK, Registers
<1>6. LinesOK(z)'
  <2>1. /\ \A a \in Accepts : accept'[a].peer = z => srv'[z].pc = "up"
        /\ \A a, b \in Accepts : accept'[a].peer = z /\ accept'[b].peer = z => a = b
    BY <1>2 DEF ServerOK, LinesOK
  <2> QED
    BY <2>1 DEF LinesOK
<1>7. DurableOK(z)'
  <2>1. \A c : Recorded(z, c)' => Recorded(z, c)
    BY <1>1, OwnStepRecorded
  <2>2. /\ \A i \in DOMAIN backlog' : ~Registers(z, backlog[i])'
        /\ lst'.pc \in {"find", "add"} => ~Registers(z, lst.msg)'
    BY <1>5 DEF AcceptedOK
  <2> QED
    BY <2>1, <2>2 DEF DurableOK
<1> QED
  BY <1>1, <1>4, <1>5, <1>6, <1>7, OthersDurable DEF ServerOK

\* A step of the user thread that only changes the server's own state; either
\* there is no line of the user thread left, or the thread ends.
LEMMA UserOwnDurable ==
  ASSUME WellTyped, WellTyped', Durable, TornKept, NEW z \in Servers,
         UNCHANGED <<records, node, accept, lst, backlog>>,
         srv[z].pc = "up", srv'[z].pc = "up",
         \A s \in Servers : s # z => srv'[s] = srv[s],
         \/ srv[z].user \notin {"none", "status", "adding", "removing", "changing"}
         \/ srv[z].reply # None /\ srv[z].user # "none"
         \/ /\ srv'[z].user = "none" /\ srv'[z].clients = srv[z].clients
            /\ srv'[z].file = srv[z].file /\ srv[z].user # "truncated",
         \A c \in Names : Recorded(z, c) => Holds(z, c)',
         \A c \in Names : srv'[z].clients[c] # None =>
           srv'[z].file[c] # None \/ srv'[z].user = "truncated",
         UserOK(z)'
  PROVE  Durable'
<1>1. ServerOK(z)
  BY DEF Durable
<1>2. \A a \in Accepts : OwnedBy(z, a)' <=> OwnedBy(z, a)
  BY DEF OwnedBy
<1>3. CASE /\ srv'[z].user = "none" /\ srv'[z].clients = srv[z].clients
           /\ srv'[z].file = srv[z].file /\ srv[z].user # "truncated"
  <2>1. \A c : Holds(z, c)' <=> Holds(z, c)
    BY <1>3 DEF Holds
  <2>2. \A a \in Accepts : OwnedBy(z, a)' /\ accept'[a].in.op = "ADD"
                            /\ accept[a].pc \in {"new", "run"} => Holds(z, accept[a].in.name)'
    BY <1>1, <1>2, <2>1 DEF ServerOK, DurableOK
  <2> QED
    BY <1>3, <2>2, UserDurable
<1>4. CASE \/ srv[z].user \notin {"none", "status", "adding", "removing", "changing"}
           \/ srv[z].reply # None /\ srv[z].user # "none"
  <2>1. \A a \in Accepts : ~Commands(z, accept[a].in)
    BY <1>4 DEF Commands
  <2>2. \A a \in Accepts : OwnedBy(z, a) => accept[a].pc \in {"clear", "destroy", "remove"}
    BY <1>1, <1>4, <2>1 DEF ServerOK, LinesOK
  <2> QED
    BY <1>2, <2>2, UserDurable
<1> QED
  BY <1>3, <1>4

\* The user thread writes m and waits, or finds its connection broken.
LEMMA AskDurable ==
  ASSUME WellTyped, WellTyped', Durable, TornKept, NEW z \in Servers,
         UNCHANGED <<records, node, lst, backlog>>,
         srv[z].pc = "up", srv[z].user \in {"idle", "made"},
         NEW v \in ServerStates, v.pc = "up", v.reply = srv[z].reply,
         NEW m, NEW st, Ask(z, v, m, st),
         \/ m.op = "ADD" /\ st = "adding" /\ m.name = v.arg
         \/ m.op = "RMV" /\ st = "removing" /\ m.name = v.arg
         \/ m.op = "PWD" /\ st = "changing"
         \/ m.op = "RFS" /\ st = "status",
         \A c \in Names : srv[z].clients[c] # None => v.clients[c] # None,
         \A c \in Names : srv[z].file[c] # None => v.file[c] # None,
         \A c \in Names : v.clients[c] # None => v.file[c] # None,
         st \in {"adding", "changing"} => v.arg \in Names /\ v.clients[v.arg] # None,
         st = "adding" => ~Recorded(z, v.arg)
  PROVE  Durable'
<1>1. /\ ServerOK(z) /\ srv \in [Servers -> ServerStates]
      /\ accept \in [Accepts -> AcceptStates]
  BY DEF Durable, WellTyped, TypeOK
<1>2. srv[z].reply = None /\ srv[z].reply # "CFM"
  BY <1>1, NoneIsNone DEF ServerOK, UserOK
<1>3. /\ \A s \in Servers : s # z => srv'[s] = srv[s]
      /\ srv'[z].clients = v.clients /\ srv'[z].file = v.file /\ srv'[z].pc = "up"
      /\ srv'[z].reply = srv[z].reply
      /\ srv'[z].user = IF Line(z) = {} THEN "none" ELSE st
      /\ Line(z) # {} => srv'[z].arg = v.arg
  <2>1. CASE Line(z) = {}
    <3>1. srv' = [srv EXCEPT ![z] = [v EXCEPT !.user = "none", !.arg = None, !.old = None]]
      BY <2>1 DEF Ask, Set
    <3> QED
      BY <1>1, <2>1, <3>1 DEF ServerStates
  <2>2. CASE Line(z) # {}
    <3>1. srv' = [srv EXCEPT ![z] = [v EXCEPT !.user = st]]
      BY <2>2 DEF Ask, Set
    <3> QED
      BY <1>1, <2>2, <3>1 DEF ServerStates
  <2> QED
    BY <2>1, <2>2
<1>4. ASSUME NEW a \in Accepts
      PROVE  /\ accept'[a].pc = accept[a].pc /\ accept'[a].node = accept[a].node
             /\ accept'[a].peer = accept[a].peer
             /\ accept'[a].in = IF accept[a].peer = z THEN m ELSE accept[a].in
  <2>1. accept[a] \in AcceptStates
    BY <1>1
  <2>2. accept'[a] = IF accept[a].peer = z THEN [accept[a] EXCEPT !.in = m] ELSE accept[a]
    BY <1>1 DEF Ask, Line
  <2> QED
    BY <2>1, <2>2 DEF AcceptStates
<1>5. \A a \in Accepts : ~Commands(z, accept[a].in)
  BY DEF Commands
<1>6. \A a \in Accepts : OwnedBy(z, a) => accept[a].pc \in {"clear", "destroy", "remove"}
  BY <1>1, <1>5 DEF ServerOK, LinesOK
<1>7. \A a \in Accepts : accept[a].peer = z => Commands(z, accept[a].in)'
  <2> SUFFICES ASSUME NEW a \in Accepts, accept[a].peer = z PROVE Commands(z, accept[a].in)'
    OBVIOUS
  <2>1. accept'[a].in = m /\ Line(z) # {}
    BY <1>4 DEF Line
  <2> QED
    BY <1>2, <1>3, <2>1 DEF Commands
<1>8. \A a \in Accepts : OwnedBy(z, a)' =>
        \/ accept[a].peer = z
        \/ accept[a].pc \in {"clear", "destroy", "remove"}
  BY <1>4, <1>6 DEF OwnedBy
<1>9. \A c \in Names : v.clients[c] # None => Holds(z, c)'
  BY <1>3 DEF Holds
<1>10. \A c \in Names : Recorded(z, c) => Holds(z, c)'
  BY <1>1, <1>9 DEF ServerOK, DurableOK, Holds
<1>11. ASSUME NEW a \in Accepts, OwnedBy(z, a)', accept'[a].in.op = "ADD",
              accept[a].pc \in {"new", "run"}
       PROVE  Holds(z, accept[a].in.name)'
  <2>1. accept[a].peer = z /\ accept'[a].in = m
    BY <1>4, <1>8, <1>11
  <2>2. st = "adding" /\ m.name = v.arg /\ v.arg \in Names /\ v.clients[v.arg] # None
    BY <1>11, <2>1
  <2>3. Holds(z, m.name)'
    BY <1>9, <2>2
  <2> QED
    BY <2>1, <2>3 DEF Holds
<1>12. UserOK(z)'
  <2>1. \A c : Recorded(z, c)' => Recorded(z, c)
    BY DEF Recorded, TornKept
  <2>2. CASE Line(z) = {}
    BY <1>3, <2>2 DEF UserOK
  <2>3. CASE Line(z) # {}
    <3>1. st = "adding" => ~Recorded(z, srv[z].arg)'
      BY <1>3, <2>1, <2>3 DEF Recorded, TornKept
    <3>2. st = "changing" => srv'[z].clients[srv'[z].arg] # None
      BY <1>3, <2>3
    <3>3. srv'[z].pc = "up" /\ srv'[z].user = st /\ srv'[z].reply # "CFM"
      BY <1>2, <1>3, <2>3
    <3> QED
      BY <3>1, <3>2, <3>3 DEF UserOK
  <2> QED
    BY <2>2, <2>3
<1>13. \A c \in Names : srv'[z].clients[c] # None => srv'[z].file[c] # None
  BY <1>3
<1> QED
  BY <1>3, <1>4, <1>7, <1>8, <1>10, <1>11, <1>12, <1>13, UserDurable
LEMMA CommandDurable ==
  ASSUME WellTyped, WellTyped', Durable, TornKept, NEW z \in Servers,
         \/ CmdStatus(z) \/ AddAsk(z)
         \/ \E c \in Names : CmdRemove(z, c) \/ ClientStores(z, c)
                             \/ \E p \in Pwds : CmdAdd(z, c, p) \/ CmdPassword(z, c, p)
  PROVE  Durable'
<1>1. /\ ServerOK(z) /\ srv \in [Servers -> ServerStates] /\ srv[z] \in ServerStates
      /\ srv[z].clients \in Clients /\ srv[z].file \in Clients
  BY DEF Durable, WellTyped, TypeOK, ServerStates
<1>2. /\ srv[z].user \in {"idle", "made"}
      /\ srv[z].user # "none" => srv[z].pc = "up"
      /\ srv[z].pc = "up" => \A c \in Names : srv[z].clients[c] # None => srv[z].file[c] # None
      /\ srv[z].pc = "up" => \A c \in Names : Recorded(z, c) =>
           srv[z].clients[c] # None /\ srv[z].file[c] # None
  <2>1. srv[z].user \in {"idle", "made"}
    BY DEF CmdStatus, AddAsk, CmdRemove, ClientStores, CmdAdd, CmdPassword, Typed
  <2> QED
    BY <1>1, <2>1 DEF ServerOK, UserOK, DurableOK, Holds
<1>3. CASE CmdStatus(z)
  <2>1. /\ srv[z].pc = "up" /\ srv[z].user = "idle" /\ UNCHANGED <<records, node, lst, backlog>>
        /\ Ask(z, srv[z], Message("RFS", None, None), "status")
    BY <1>3 DEF CmdStatus, Typed
  <2>2. Message("RFS", None, None).op = "RFS"
    BY DEF Message
  <2> QED
    BY <1>1, <1>2, <2>1, <2>2, AskDurable
<1>4. CASE AddAsk(z)
  <2> DEFINE v == [srv[z] EXCEPT !.clients[srv[z].arg] = srv[z].old, !.file[srv[z].arg] = srv[z].old]
             m == Message("ADD", srv[z].arg, srv[z].old)
  <2>1. /\ srv[z].pc = "up" /\ srv[z].user = "made" /\ UNCHANGED <<records, node, lst, backlog>>
        /\ Ask(z, v, m, "adding")
    BY <1>2, <1>4 DEF AddAsk
  <2>2. srv[z].arg \in Names /\ srv[z].old \in Pwds /\ srv[z].old # None
    BY <2>1, NoneIsNone DEF WellTyped, UsersOK
  <2>3. /\ v \in ServerStates /\ v.pc = srv[z].pc /\ v.reply = srv[z].reply /\ v.arg = srv[z].arg
        /\ v.clients = [srv[z].clients EXCEPT ![srv[z].arg] = srv[z].old]
        /\ v.file = [srv[z].file EXCEPT ![srv[z].arg] = srv[z].old]
    BY <1>1, <2>2 DEF ServerStates, Clients
  <2>4. m.op = "ADD" /\ m.name = srv[z].arg
    BY DEF Message
  <2> HIDE DEF v, m
  <2>5. /\ \A c \in Names : srv[z].clients[c] # None => v.clients[c] # None
        /\ \A c \in Names : srv[z].file[c] # None => v.file[c] # None
        /\ \A c \in Names : v.clients[c] # None => v.file[c] # None
        /\ v.clients[v.arg] # None
    BY <1>1, <1>2, <2>1, <2>2, <2>3 DEF Clients
  <2>6. ~Recorded(z, v.arg)
    BY <1>1, <1>2, <2>1, <2>2, <2>3 DEF ServerOK, UserOK
  <2>7. m.name = v.arg /\ v.arg \in Names /\ v.pc = "up"
    BY <2>1, <2>2, <2>3, <2>4
  <2>8. srv[z].user \in {"idle", "made"}
    BY <2>1
  <2> QED
    BY <2>1, <2>3, <2>4, <2>5, <2>6, <2>7, <2>8, AskDurable
<1>5. ASSUME NEW c \in Names, CmdRemove(z, c) PROVE Durable'
  <2> DEFINE v == [srv[z] EXCEPT !.arg = c]
             m == Message("RMV", c, None)
  <2>1. /\ srv[z].pc = "up" /\ srv[z].user = "idle" /\ UNCHANGED <<records, node, lst, backlog>>
        /\ Ask(z, v, m, "removing")
    BY <1>5 DEF CmdRemove, Typed
  <2>2. /\ v \in ServerStates /\ v.pc = srv[z].pc /\ v.reply = srv[z].reply /\ v.arg = c
        /\ v.clients = srv[z].clients /\ v.file = srv[z].file
    BY <1>1 DEF ServerStates
  <2>3. m.op = "RMV" /\ m.name = c
    BY DEF Message
  <2> HIDE DEF v, m
  <2> QED
    BY <1>2, <2>1, <2>2, <2>3, AskDurable
<1>6. ASSUME NEW c \in Names, NEW p \in Pwds, CmdPassword(z, c, p) PROVE Durable'
  <2> DEFINE v == [srv[z] EXCEPT !.arg = c, !.old = srv[z].clients[c], !.clients[c] = p]
             m == Message("PWD", c, p)
  <2>1. /\ srv[z].pc = "up" /\ srv[z].user = "idle" /\ UNCHANGED <<records, node, lst, backlog>>
        /\ Ask(z, v, m, "changing") /\ srv[z].clients[c] # None /\ p # None
    BY <1>6, NoneIsNone DEF CmdPassword, Typed
  <2>2. /\ v \in ServerStates /\ v.pc = srv[z].pc /\ v.reply = srv[z].reply /\ v.arg = c
        /\ v.clients = [srv[z].clients EXCEPT ![c] = p] /\ v.file = srv[z].file
    BY <1>1 DEF ServerStates, Clients
  <2>3. m.op = "PWD"
    BY DEF Message
  <2> HIDE DEF v, m
  <2>4. /\ \A d \in Names : srv[z].clients[d] # None => v.clients[d] # None
        /\ \A d \in Names : v.clients[d] # None => v.file[d] # None
        /\ v.clients[v.arg] # None
    BY <1>1, <1>2, <2>1, <2>2 DEF Clients
  <2>5. v.arg \in Names /\ v.pc = "up" /\ srv[z].user \in {"idle", "made"}
    BY <2>1, <2>2
  <2>6. \A d \in Names : srv[z].file[d] # None => v.file[d] # None
    BY <2>2
  <2> QED
    BY <2>1, <2>2, <2>3, <2>4, <2>5, <2>6, AskDurable
<1>7. ASSUME NEW c \in Names, ClientStores(z, c) \/ \E p \in Pwds : CmdAdd(z, c, p)
      PROVE  Durable'
  <2>1. /\ srv[z].pc = "up" /\ srv[z].user = "idle" /\ UNCHANGED <<records, node, accept, lst, backlog>>
    BY <1>7 DEF CmdAdd, ClientStores, Typed, masterVars
  <2>2. PICK w : /\ srv' = [srv EXCEPT ![z] = w] /\ w.pc = "up" /\ w.reply = srv[z].reply
                 /\ w.clients = srv[z].clients /\ w.file = srv[z].file
                 /\ w.user = "idle" \/ (w.user = "made" /\ w.clients[w.arg] = None)
    <3>1. CASE ClientStores(z, c)
      <4> DEFINE u == [srv[z] EXCEPT !.dir[c] = "full"]
      <4>1. srv' = [srv EXCEPT ![z] = u]
        BY <3>1 DEF ClientStores, Set
      <4>2. /\ u.pc = "up" /\ u.reply = srv[z].reply /\ u.clients = srv[z].clients
            /\ u.file = srv[z].file /\ u.user = "idle"
        BY <1>1, <2>1 DEF ServerStates
      <4> HIDE DEF u
      <4> QED
        BY <4>1, <4>2
    <3>2. ASSUME NEW p \in Pwds, CmdAdd(z, c, p)
          PROVE  \E w : /\ srv' = [srv EXCEPT ![z] = w] /\ w.pc = "up" /\ w.reply = srv[z].reply
                        /\ w.clients = srv[z].clients /\ w.file = srv[z].file
                        /\ w.user = "idle" \/ (w.user = "made" /\ w.clients[w.arg] = None)
      <4> DEFINE u == [srv[z] EXCEPT !.user = "made", !.arg = c, !.old = p, !.dir[c] = "empty"]
      <4>1. srv' = [srv EXCEPT ![z] = u] /\ srv[z].clients[c] = None
        BY <3>2 DEF CmdAdd, Set
      <4>2. /\ u.pc = "up" /\ u.reply = srv[z].reply /\ u.clients = srv[z].clients
            /\ u.file = srv[z].file /\ u.user = "made" /\ u.arg = c
        BY <1>1, <2>1 DEF ServerStates
      <4> HIDE DEF u
      <4> QED
        BY <4>1, <4>2
    <3> QED
      BY <1>7, <3>1, <3>2
  <2>3. srv'[z] = w /\ \A s \in Servers : s # z => srv'[s] = srv[s]
    BY <1>1, <2>2
  <2>4. srv[z].reply = None
    BY <1>1, <2>1 DEF ServerOK, UserOK
  <2>5. UserOK(z)'
    BY <2>2, <2>3, <2>4 DEF UserOK
  <2>6. \A d \in Names : Recorded(z, d) => Holds(z, d)'
    BY <1>2, <2>1, <2>2, <2>3 DEF Holds
  <2>7. srv'[z].pc = "up" /\ \A d \in Names : srv'[z].clients[d] # None => srv'[z].file[d] # None
    BY <1>2, <2>1, <2>2, <2>3
  <2> QED
    BY <2>1, <2>3, <2>5, <2>6, <2>7, UserOwnDurable
<1> QED
  BY <1>3, <1>4, <1>5, <1>6, <1>7

LEMMA UserThreadDurable ==
  ASSUME WellTyped, WellTyped', Durable, TornKept, NEW z \in Servers,
         UserAnswer(z) \/ RemoveLocal(z) \/ TruncateFile(z) \/ WriteFile(z)
         \/ UserBroken(z)
  PROVE  Durable'
<1>1. /\ ServerOK(z) /\ srv \in [Servers -> ServerStates] /\ srv[z] \in ServerStates
      /\ srv[z].clients \in Clients /\ srv[z].file \in Clients
  BY DEF Durable, WellTyped, TypeOK, ServerStates
<1>2. srv[z].user # "none" /\ srv[z].pc = "up"
  BY <1>1 DEF UserAnswer, RemoveLocal, TruncateFile, WriteFile, UserBroken, ServerOK, UserOK
<1>3. /\ \A c \in Names : srv[z].clients[c] # None =>
           srv[z].file[c] # None \/ srv[z].user = "truncated"
      /\ \A c \in Names : Recorded(z, c) =>
           /\ srv[z].clients[c] # None
           /\ srv[z].file[c] # None \/ srv[z].user = "truncated"
  BY <1>1, <1>2 DEF ServerOK, DurableOK, Holds
<1>4. UNCHANGED <<records, node, accept, lst, backlog>>
  BY DEF UserAnswer, RemoveLocal, TruncateFile, WriteFile, UserBroken, masterVars
<1>5. ASSUME NEW v, srv' = [srv EXCEPT ![z] = v], v.pc = "up",
             v.user \in {"none", "idle", "erased", "local", "truncated"},
             v.user # "none" => v.reply = None,
             v.user = "local" => ~Recorded(z, v.arg),
             \/ srv[z].user \notin {"none", "status", "adding", "removing", "changing"}
             \/ srv[z].reply # None
             \/ /\ v.user = "none" /\ v.clients = srv[z].clients /\ v.file = srv[z].file
                /\ srv[z].user # "truncated",
             \A c \in Names : Recorded(z, c) => v.clients[c] # None,
             \A c \in Names : v.clients[c] # None => v.file[c] # None \/ v.user = "truncated"
      PROVE  Durable'
  <2>1. srv'[z] = v /\ \A s \in Servers : s # z => srv'[s] = srv[s]
    BY <1>1, <1>5
  <2>2. UserOK(z)'
    BY <1>4, <1>5, <2>1 DEF UserOK, Recorded, TornKept
  <2>3. \A c \in Names : Recorded(z, c) => Holds(z, c)'
    BY <1>5, <2>1 DEF Holds
  <2> QED
    BY <1>2, <1>4, <1>5, <2>1, <2>2, <2>3, UserOwnDurable
<1>6. CASE UserAnswer(z)
  <2>1. PICK v \in ServerStates :
           /\ Set(z, v) /\ v.pc = srv[z].pc /\ v.reply = None /\ v.file = srv[z].file
           /\ v.arg \in Names \/ v.user # "local"
           /\ \/ v.user = "idle" /\ v.clients = srv[z].clients
              \/ /\ srv[z].user = "adding" /\ srv[z].reply # "CFM" /\ v.user \in {"idle", "erased"}
                 /\ v.clients[srv[z].arg] = None
                 /\ \A d \in Names : d # srv[z].arg => v.clients[d] = srv[z].clients[d]
              \/ /\ srv[z].user = "removing" /\ srv[z].reply = "CFM" /\ v.user = "local"
                 /\ v.clients = srv[z].clients /\ v.arg = srv[z].arg
              \/ /\ srv[z].user = "changing" /\ v.user = "idle"
                 /\ v.clients = [srv[z].clients EXCEPT ![srv[z].arg] = srv[z].old]
    BY <1>6, UserAnswerFacts
  <2>2. /\ srv[z].reply # None /\ srv' = [srv EXCEPT ![z] = v] /\ v.pc = "up"
        /\ srv[z].user # "truncated"
    BY <1>2, <1>6, <2>1 DEF UserAnswer, Set
  <2>3. CASE v.user = "idle" /\ v.clients = srv[z].clients
    <3>1. v.user \in {"none", "idle", "erased", "local", "truncated"} /\ v.reply = None /\ v.user # "local"
      BY <2>1, <2>3
    <3>2. \A c \in Names : Recorded(z, c) => v.clients[c] # None
      BY <1>3, <2>1, <2>2, <2>3
    <3>3. \A c \in Names : v.clients[c] # None => v.file[c] # None \/ v.user = "truncated"
      BY <1>3, <2>1, <2>2, <2>3
    <3> QED
      BY <1>5, <2>2, <3>1, <3>2, <3>3
  <2>4. CASE /\ srv[z].user = "adding" /\ srv[z].reply # "CFM" /\ v.user \in {"idle", "erased"}
             /\ v.clients[srv[z].arg] = None
             /\ \A d \in Names : d # srv[z].arg => v.clients[d] = srv[z].clients[d]
    <3>1. ~Recorded(z, srv[z].arg)
      BY <1>1, <2>4 DEF ServerOK, UserOK
    <3>2. \A c \in Names : Recorded(z, c) => v.clients[c] # None
      BY <1>3, <2>1, <2>2, <2>4, <3>1
    <3>3. \A c \in Names : v.clients[c] # None => v.file[c] # None \/ v.user = "truncated"
      BY <1>3, <2>1, <2>2, <2>4
    <3> QED
      BY <1>5, <2>1, <2>2, <2>4, <3>2, <3>3
  <2>5. CASE /\ srv[z].user = "removing" /\ srv[z].reply = "CFM" /\ v.user = "local"
             /\ v.clients = srv[z].clients /\ v.arg = srv[z].arg
    <3>1. ~Recorded(z, v.arg)
      BY <1>1, <2>5 DEF ServerOK, UserOK
    <3> QED
      BY <1>3, <1>5, <2>1, <2>2, <2>5, <3>1
  <2>6. CASE /\ srv[z].user = "changing" /\ v.user = "idle"
             /\ v.clients = [srv[z].clients EXCEPT ![srv[z].arg] = srv[z].old]
    <3>1. srv[z].arg \in Names /\ srv[z].old # None /\ srv[z].clients[srv[z].arg] # None
      BY <1>1, <2>6, NoneIsNone DEF WellTyped, UsersOK, ServerOK, UserOK
    <3>2. \A c \in Names : v.clients[c] # None <=> srv[z].clients[c] # None
      BY <1>1, <2>6, <3>1 DEF Clients
    <3>3. v.user \in {"none", "idle", "erased", "local", "truncated"} /\ v.reply = None /\ v.user # "local"
      BY <2>1, <2>6
    <3>4. \A c \in Names : Recorded(z, c) => v.clients[c] # None
      BY <1>3, <2>1, <2>2, <3>2
    <3>5. \A c \in Names : v.clients[c] # None => v.file[c] # None \/ v.user = "truncated"
      BY <1>3, <2>1, <2>2, <3>2
    <3> QED
      BY <1>5, <2>2, <3>3, <3>4, <3>5
  <2> QED
    BY <2>1, <2>3, <2>4, <2>5, <2>6
<1>7. CASE RemoveLocal(z)
  <2> DEFINE u == Erased(srv[z], srv[z].arg)
             st == IF Deletes(srv[z], srv[z].arg) THEN "erased" ELSE "local"
             v == [u EXCEPT !.user = st]
  <2>1. srv[z].user = "local" /\ srv' = [srv EXCEPT ![z] = v]
    BY <1>7 DEF RemoveLocal, Set
  <2>2. srv[z].arg \in Names /\ ~Recorded(z, srv[z].arg) /\ srv[z].reply = None
    BY <1>1, <2>1 DEF WellTyped, UsersOK, ServerOK, UserOK
  <2>3. /\ u \in ServerStates /\ u.pc = srv[z].pc /\ u.arg = srv[z].arg
        /\ u.reply = srv[z].reply /\ u.file = srv[z].file /\ u.clients[srv[z].arg] = None
        /\ \A d \in Names : d # srv[z].arg => u.clients[d] = srv[z].clients[d]
    BY <1>1, <2>2, ErasedTyped
  <2>4. st \in {"erased", "local"}
    OBVIOUS
  <2> HIDE DEF u, st
  <2>5. /\ v.user = st /\ v.pc = "up" /\ v.arg = srv[z].arg /\ v.reply = None
        /\ v.file = srv[z].file /\ v.clients = u.clients
    BY <1>2, <2>2, <2>3 DEF ServerStates
  <2> HIDE DEF v
  <2>6. /\ \A c \in Names : Recorded(z, c) => v.clients[c] # None
        /\ \A c \in Names : v.clients[c] # None => v.file[c] # None \/ v.user = "truncated"
    BY <1>3, <2>1, <2>2, <2>3, <2>5
  <2>7. /\ v.user \in {"none", "idle", "erased", "local", "truncated"}
        /\ v.user # "none" => v.reply = None
        /\ v.user = "local" => ~Recorded(z, v.arg)
        /\ srv[z].user \notin {"none", "status", "adding", "removing", "changing"}
    BY <2>1, <2>2, <2>4, <2>5
  <2> QED
    BY <1>5, <2>1, <2>5, <2>6, <2>7
<1>11. CASE TruncateFile(z)
  <2> DEFINE v == [srv[z] EXCEPT !.file = NoClients, !.user = "truncated"]
  <2>1. srv[z].user = "erased" /\ srv' = [srv EXCEPT ![z] = v]
    BY <1>11 DEF TruncateFile, Set
  <2>2. srv[z].reply = None
    BY <1>1, <2>1 DEF ServerOK, UserOK
  <2>3. /\ v.user = "truncated" /\ v.reply = None /\ v.pc = "up"
        /\ v.clients = srv[z].clients
    BY <1>1, <1>2, <2>2 DEF ServerStates
  <2> HIDE DEF v
  <2>4. \A c \in Names : Recorded(z, c) => v.clients[c] # None
    BY <1>3, <2>3
  <2>5. \A c \in Names : v.clients[c] # None => v.file[c] # None \/ v.user = "truncated"
    BY <2>3
  <2>6. /\ v.user \in {"none", "idle", "erased", "local", "truncated"}
        /\ v.user # "none" => v.reply = None
        /\ v.user # "local"
        /\ srv[z].user \notin {"none", "status", "adding", "removing", "changing"}
    BY <2>1, <2>3
  <2> QED
    BY <1>5, <2>1, <2>3, <2>4, <2>5, <2>6
<1>8. CASE WriteFile(z)
  <2> DEFINE u == [srv[z] EXCEPT !.file = srv[z].clients]
             v == Rest(u)
  <2>1. srv[z].user = "truncated" /\ srv' = [srv EXCEPT ![z] = v]
    BY <1>8 DEF WriteFile, Set
  <2>2. /\ u \in ServerStates /\ u.pc = "up" /\ u.clients = srv[z].clients
        /\ u.file = srv[z].clients
    BY <1>1, <1>2 DEF ServerStates
  <2> HIDE DEF u
  <2>3. /\ v.user = "idle" /\ v.reply = None /\ v.pc = "up" /\ v.clients = srv[z].clients
        /\ v.file = srv[z].clients
    BY <2>2, RestTyped
  <2> HIDE DEF v
  <2>4. /\ v.user \in {"none", "idle", "erased", "local", "truncated"}
        /\ v.user # "none" => v.reply = None
        /\ v.user # "local"
        /\ srv[z].user \notin {"none", "status", "adding", "removing", "changing"}
    BY <2>1, <2>3
  <2>5. /\ \A c \in Names : Recorded(z, c) => v.clients[c] # None
        /\ \A c \in Names : v.clients[c] # None => v.file[c] # None \/ v.user = "truncated"
    BY <1>3, <2>3
  <2> QED
    BY <1>5, <2>1, <2>3, <2>4, <2>5
<1>9. CASE UserBroken(z)
  <2> DEFINE v == [srv[z] EXCEPT !.user = "none", !.arg = None, !.old = None]
  <2>1. srv' = [srv EXCEPT ![z] = v] /\ srv[z].user # "truncated"
    BY <1>9 DEF UserBroken, Set
  <2>2. v.user = "none" /\ v.pc = "up" /\ v.clients = srv[z].clients /\ v.file = srv[z].file
    BY <1>1, <1>2 DEF ServerStates
  <2> HIDE DEF v
  <2> QED
    BY <1>3, <1>5, <2>1, <2>2
<1> QED
  BY <1>6, <1>7, <1>8, <1>9, <1>11
-----------------------------------------------------------------------------
(* A file server ends.                                                       *)

LEMMA EndDurable ==
  ASSUME WellTyped, WellTyped', Durable, NEW z \in Servers, Crash(z) \/ CmdClose(z)
  PROVE  Durable'
<1>1. EndProcess(z) /\ z # None
  BY NoneIsNone DEF Crash, CmdClose
<1>2. /\ srv'[z].pc = "down" /\ srv'[z].user = "none" /\ srv'[z].file = srv[z].file
      /\ \A s \in Servers : s # z => srv'[s] = srv[s]
  <2>1. srv \in [Servers -> ServerStates]
    BY DEF WellTyped, TypeOK
  <2> QED
    BY <1>1, <2>1 DEF EndProcess, Set, Off
<1>3. /\ lst'.pc = lst.pc /\ lst'.node = lst.node
      /\ lst.pc \in {"find", "add", "set", "start"} =>
           /\ lst'.msg.kind = lst.msg.kind /\ lst'.msg.id = lst.msg.id
           /\ lst'.msg.entries = lst.msg.entries /\ lst'.msg.peer # z
           /\ \/ lst'.msg.peer = lst.msg.peer
              \/ lst.msg.peer = z /\ lst'.msg.peer = None
  <2>1. CASE lst.msg = None
    <3>1. lst' = lst /\ lst.pc \notin {"find", "add", "set", "start"}
      BY <1>1, <2>1, ClusterAssumption DEF EndProcess, WellTyped, ListenOK
    <3> QED
      BY <3>1
  <2>2. CASE lst.msg # None
    <3> DEFINE m == [lst.msg EXCEPT !.peer = Hang(@, z)]
    <3>1. lst' = [lst EXCEPT !.msg = m] /\ lst \in ListenStates /\ lst.msg \in Lines
      BY <1>1, <2>2 DEF EndProcess, WellTyped, TypeOK, ListenStates
    <3>2. /\ m.kind = lst.msg.kind /\ m.id = lst.msg.id /\ m.entries = lst.msg.entries
          /\ m.peer = Hang(lst.msg.peer, z)
      BY <3>1 DEF Lines
    <3> HIDE DEF m
    <3>3. lst'.pc = lst.pc /\ lst'.node = lst.node /\ lst'.msg = m
      BY <3>1 DEF ListenStates
    <3> QED
      BY <1>1, <3>2, <3>3 DEF Hang
  <2> QED
    BY <2>1, <2>2
<1>4. ASSUME NEW a \in Accepts
      PROVE  /\ accept'[a].pc = accept[a].pc /\ accept'[a].node = accept[a].node
             /\ accept[a].peer # z => accept'[a].peer = accept[a].peer /\ accept'[a].in = accept[a].in
             /\ accept[a].peer = z => accept'[a].peer = None
             /\ \/ accept'[a].in \in {accept[a].in, None}
                \/ accept'[a].in.op # "ADD"
  <2>1. accept[a] \in AcceptStates
    BY DEF WellTyped, TypeOK
  <2>2. CASE CloseUser(z)
    BY <2>2, CloseFacts DEF Hang
  <2>3. ASSUME NEW m \in {None, Message("CLS", None, None)},
               accept' = [b \in Accepts |-> IF b \in Line(z)
                            THEN [accept[b] EXCEPT !.in = m, !.peer = None] ELSE accept[b]]
        PROVE  /\ accept'[a].pc = accept[a].pc /\ accept'[a].node = accept[a].node
               /\ accept[a].peer # z => accept'[a].peer = accept[a].peer /\ accept'[a].in = accept[a].in
               /\ accept[a].peer = z => accept'[a].peer = None
               /\ \/ accept'[a].in \in {accept[a].in, None}
                  \/ accept'[a].in.op # "ADD"
    <3>1. accept'[a] = IF accept[a].peer = z
                       THEN [accept[a] EXCEPT !.in = m, !.peer = None] ELSE accept[a]
      BY <2>3 DEF Line
    <3>2. m = None \/ m.op # "ADD"
      BY DEF Message
    <3> QED
      BY <2>1, <3>1, <3>2 DEF AcceptStates
  <2> QED
    BY <2>2, <2>3 DEF Crash, CmdClose
<1>5. \A i \in DOMAIN backlog' :
        /\ i \in DOMAIN backlog /\ backlog'[i].kind = backlog[i].kind
        /\ backlog'[i].id = backlog[i].id /\ backlog'[i].entries = backlog[i].entries
        /\ backlog'[i].peer # z
        /\ \/ backlog'[i].peer = backlog[i].peer
           \/ backlog[i].peer = z /\ backlog'[i].peer = None
  BY <1>1, HungLines DEF EndProcess
<1>6. OwnStep(z)
  <2>1. \A k \in Nodes : node'[k].of = node[k].of /\ node'[k].id = node[k].id
    BY <1>1, HungNodes DEF EndProcess
  <2>2. records' = records
    BY <1>1 DEF EndProcess
  <2> QED
    BY <1>2, <1>3, <1>4, <1>5, <2>1, <2>2 DEF OwnStep
<1>7. Reading' => lst'.msg.peer # z
  BY <1>3 DEF Reading
<1>8. \A a \in Accepts : /\ accept'[a].peer # z
                         /\ \/ accept'[a].in \in {accept[a].in, None}
                            \/ accept'[a].in.op # "ADD"
  BY <1>1, <1>4
<1>9. TornKept
  BY DEF TornKept, Crash, CmdClose
<1>10. \/ srv[z].user # "truncated"
       \/ srv'[z].pc = "down" /\ \A c \in Names : ~Recorded(z, c)'
  <2> SUFFICES ASSUME srv[z].user = "truncated", NEW c, Recorded(z, c)' PROVE FALSE
    BY <1>2
  <2>1. torn' = torn \cup {n \in Nodes : node[n].of = z}
    BY DEF Crash, CmdClose
  <2>2. PICK r \in records' : r.owner \notin torn' /\ node'[r.owner].of = z
    BY DEF Recorded
  <2>3. records' = records /\ r.owner \in Nodes
    BY <1>1, <2>2 DEF EndProcess, WellTyped, TypeOK
  <2>4. node[r.owner].of = z
    BY <1>6, <2>2, <2>3 DEF OwnStep
  <2> QED
    BY <2>1, <2>2, <2>3, <2>4
<1> QED
  BY <1>2, <1>5, <1>6, <1>7, <1>8, <1>9, <1>10, RestartDurable

-----------------------------------------------------------------------------
LEMMA InitDurable == Init => Durable
<1> SUFFICES ASSUME Init PROVE Durable
  OBVIOUS
<1> USE DEF Init, MasterInit, ServerInit
<1>1. /\ records = {} /\ backlog = <<>> /\ lst.pc = "accept"
      /\ \A k \in Nodes : node[k].id = None
      /\ \A a \in Accepts : accept[a].pc = "none" /\ accept[a].peer = None /\ accept[a].in = None
      /\ \A s \in Servers : srv[s].pc = "down" /\ srv[s].user = "none"
  BY DEF Idle, NoNode, NoAccept, Off
<1>2. OriginsOK
  BY <1>1 DEF OriginsOK
<1>3. ASSUME NEW s \in Servers PROVE ServerOK(s)
  <2>1. s # None
    BY NoneIsNone
  <2>2. QueueOK(s)
    BY <1>1 DEF QueueOK, Reading
  <2>3. AcceptedOK(s) /\ LinesOK(s) /\ UserOK(s)
    BY <1>1, <1>3, <2>1 DEF AcceptedOK, LinesOK, OwnedBy, UserOK
  <2>4. DurableOK(s)
    BY <1>1, <1>3 DEF DurableOK, OwnedBy, Recorded
  <2> QED
    BY <2>2, <2>3, <2>4 DEF ServerOK
<1> QED
  BY <1>2, <1>3 DEF Durable

LEMMA NextDurable ==
  ASSUME WellTyped, WellTyped', Durable, [Next]_vars
  PROVE  Durable'
<1>1. CASE MasterStep /\ KeepTorn
  <2>1. TornKept
    BY <1>1 DEF KeepTorn, TornKept
  <2> QED
    BY <1>1, <2>1, RequestDurable, AcceptEndDurable, AcceptMessageDurable, ListenQuietDurable,
       ReceiveDurable, IdfAddDurable, IdfInsertDurable, UsrSetDurable DEF MasterStep
<1>2. ASSUME NEW z \in Servers, ServerStep(z), torn' = torn PROVE Durable'
  <2>1. TornKept
    BY <1>2 DEF TornKept
  <2> QED
    BY <1>2, <2>1, BootDurable, ConnectDurable, RegisteredDurable, BrokenDurable,
       CommandDurable, UserThreadDurable DEF ServerStep
<1>3. CASE MasterStart \/ FaultStep
  <2>1. ASSUME NEW z \in Servers, Crash(z) \/ CmdClose(z) PROVE Durable'
    BY <2>1, EndDurable
  <2>2. CASE MasterStart \/ MasterCrash
    <3>1. TornKept
      BY <2>2 DEF MasterStart, MasterCrash, TornKept
    <3> QED
      BY <2>2, <3>1, MasterEndDurable
  <2>3. CASE (\E n \in Nodes : CutMain(n)) \/ (\E a \in Accepts : CutUser(a))
    <3>1. TornKept
      BY <2>3 DEF CutMain, CutUser, TornKept
    <3> QED
      BY <2>3, <3>1, CutDurable
  <2>4. CASE (\E i \in DOMAIN backlog : CutPending(i)) \/ HalfConnect
    <3>1. TornKept
      BY <2>4 DEF CutPending, HalfConnect, TornKept
    <3> QED
      BY <2>4, <3>1, PendingDurable
  <2> QED
    BY <1>3, <2>1, <2>2, <2>3, <2>4 DEF FaultStep
<1>4. CASE UNCHANGED vars
  <2>3. TornKept
    BY <1>4 DEF vars, masterVars, TornKept
  <2>1. UNCHANGED <<records, node, accept, lst, backlog, srv>> /\ OriginsOK
    BY <1>4 DEF vars, masterVars, serverVars, Durable
  <2>2. lst.pc \in {"add", "set", "start"} => lst.node \in Nodes
    BY DEF WellTyped, ListenOK
  <2> QED
    BY <2>1, <2>2, <2>3, SameNodes, SameListen, IdleAccepts, QuietDurable
<1> QED
  BY <1>1, <1>2, <1>3, <1>4 DEF Next

\* A client that the master records is in clients.txt of the server that the
\* record is for, or in the map that the server is writing to it, at every
\* moment of every behaviour: so a server that crashes and reads clients.txt
\* again still has it, unless it was killed while removeClient wrote the file.
THEOREM RecordsAreDurable == Spec => []RecordedIsDurable
<1>1. Init => WellTyped /\ Durable
  BY InitTyped, InitDurable
<1>2. WellTyped /\ Durable /\ [Next]_vars => (WellTyped /\ Durable)'
  BY NextTyped, NextDurable
<1>3. WellTyped /\ Durable => RecordedIsDurable
  <2> SUFFICES ASSUME WellTyped, Durable, NEW r \in records, r.owner \notin torn
               PROVE  LET v == srv[node[r.owner].of]
                      IN  \/ v.file[r.name] # None
                          \/ v.user = "truncated" /\ v.clients[r.name] # None
    BY DEF RecordedIsDurable
  <2>1. /\ r.name \in Names /\ node[r.owner].of \in Servers
        /\ srv[node[r.owner].of].user = "truncated" => srv[node[r.owner].of].pc = "up"
    BY DEF WellTyped, TypeOK, Durable, OriginsOK, ServerOK, UserOK
  <2>2. Recorded(node[r.owner].of, r.name)
    BY DEF Recorded
  <2>3. Holds(node[r.owner].of, r.name)
    BY <2>1, <2>2 DEF Durable, ServerOK, DurableOK
  <2> QED
    BY <2>1, <2>3 DEF Holds
<1> QED
  BY <1>1, <1>2, <1>3, PTL DEF Spec

-----------------------------------------------------------------------------
(* The master and a registered server agree.                                 *)

\* The master has c with password p for node n.
Has(n, c, p) == [name |-> c, pwd |-> p, owner |-> n] \in records

\* A connected node has a Request thread that has not come to its end, and a
\* thread that removes the records of a node finds it dead.
PeersOK ==
  /\ \A n \in Nodes : node[n].peer # None =>
       node[n].pc \in {"sleep", "wait", "clear"} /\ node[n].of = node[n].peer
  /\ \A a \in Accepts : accept[a].pc = "remove" => ~node[accept[a].node].alive

\* The records of the node that ClusterNet's thread fills in are the entries
\* it has worked on.
AddingOK ==
  lst.pc = "add" =>
    /\ node[lst.node].peer = None
    /\ \A c \in Names \ stolen, p \in Pwds :
         Has(lst.node, c, p) <=> c \notin lst.todo /\ lst.msg.entries[c] = p

\* A name list under way is the map of the server that waits for the answer.
EntriesOK(s) ==
  /\ \A i \in DOMAIN backlog : backlog[i].kind = "IDF" /\ backlog[i].peer = s =>
       backlog[i].entries = srv[s].clients
  /\ lst.pc \in {"find", "add"} /\ lst.msg.kind = "IDF" /\ lst.msg.peer = s =>
       lst.msg.entries = srv[s].clients

\* A command under way is the one that the user thread waits for, and has its
\* arguments.
OrdersOK(s) ==
  \A a \in Accepts : accept[a].peer = s /\ accept[a].in # None /\ srv[s].user # "none" =>
    /\ Commands(s, accept[a].in)
    /\ accept[a].in.op = "ADD" => accept[a].in.pwd = srv[s].clients[srv[s].arg]
    /\ accept[a].in.op = "PWD" => /\ accept[a].in.name = srv[s].arg
                                  /\ accept[a].in.pwd = srv[s].clients[srv[s].arg]

\* What the master has for c once it has done what it answered to s.
View(s, c) ==
  IF c # srv[s].arg THEN srv[s].clients[c]
  ELSE IF \/ srv[s].user = "local"
          \/ srv[s].user = "adding" /\ srv[s].reply # "CFM"
          \/ srv[s].user = "removing" /\ srv[s].reply = "CFM"
       THEN None
  ELSE IF srv[s].user = "changing" /\ srv[s].reply # "CFM" THEN srv[s].old
  ELSE srv[s].clients[c]

\* s is registered with node n, and its commands go there.
Serves(s, n) ==
  /\ srv[s].main = n /\ node[n].peer = s /\ node[n].alive
  /\ \/ srv[s].pc = "idf" /\ srv[s].reply = "CFM"
     \/ srv[s].pc = "usr"
     \/ /\ srv[s].pc = "up" /\ srv[s].user # "none"
        /\ \E a \in Accepts : accept[a].peer = s /\ accept[a].node = n

AgreeOK(s) ==
  \A n \in Nodes : Serves(s, n) =>
    \A c \in Names \ stolen, p \in Pwds : Has(n, c, p) <=> View(s, c) = p

Agreed ==
  /\ PeersOK /\ AddingOK
  /\ \A s \in Servers : EntriesOK(s) /\ OrdersOK(s) /\ AgreeOK(s)

\* The step leaves the records of k alone, and what it steals aside.
SameHas(k) == \A c \in Names \ stolen', p \in Pwds : Has(k, c, p)' <=> Has(k, c, p)

\* The step leaves what s and its node depend on alone ...
NodesFor(s) ==
  \A k \in Nodes : node'[k].peer = s /\ node'[k].alive =>
    node[k].peer = s /\ node[k].alive /\ SameHas(k)
AcceptsFor(s) ==
  \A a \in Accepts : accept'[a].peer = s =>
    /\ accept[a].peer = s /\ accept'[a].node = accept[a].node
    /\ accept'[a].in \in {accept[a].in, None}

\* ... and every line of s that is under way was under way before.
OldLine(m) ==
  \/ lst.pc \in {"find", "add"} /\ m.kind = lst.msg.kind /\ m.peer = lst.msg.peer
     /\ m.entries = lst.msg.entries
  \/ \E j \in DOMAIN backlog : m.kind = backlog[j].kind /\ m.peer = backlog[j].peer
                               /\ m.entries = backlog[j].entries
LinesFor(s) ==
  /\ \A i \in DOMAIN backlog' :
       backlog'[i].kind = "IDF" /\ backlog'[i].peer = s => OldLine(backlog'[i])
  /\ lst'.pc \in {"find", "add"} /\ lst'.msg.kind = "IDF" /\ lst'.msg.peer = s
       => OldLine(lst'.msg)

\* The step and the server itself keep what the master is to have for it.
LEMMA AgreeKept ==
  ASSUME NEW s, AgreeOK(s), stolen \subseteq stolen', NodesFor(s),
         \A n \in Nodes : Serves(s, n)' => Serves(s, n),
         \A c \in Names : View(s, c)' = View(s, c)
  PROVE  AgreeOK(s)'
<1> SUFFICES ASSUME NEW n \in Nodes, Serves(s, n)', NEW c \in Names \ stolen', NEW p \in Pwds
             PROVE  Has(n, c, p)' <=> View(s, c)' = p
  BY DEF AgreeOK
<1>1. Serves(s, n) /\ node'[n].peer = s /\ node'[n].alive
  BY DEF Serves
<1>2. SameHas(n)
  BY <1>1 DEF NodesFor
<1>3. c \in Names \ stolen
  OBVIOUS
<1>4. Has(n, c, p) <=> View(s, c) = p
  BY <1>1, <1>3 DEF AgreeOK
<1>5. Has(n, c, p)' <=> Has(n, c, p)
  BY <1>2 DEF SameHas
<1> QED
  BY <1>4, <1>5

\* A server that the step leaves alone.
LEMMA ServesKept ==
  ASSUME NEW s, srv'[s] = srv[s], NodesFor(s), AcceptsFor(s), NEW n \in Nodes, Serves(s, n)'
  PROVE  Serves(s, n)
<1>1. node[n].peer = s /\ node[n].alive
  BY DEF Serves, NodesFor
<1>2. \A a \in Accepts : accept'[a].peer = s /\ accept'[a].node = n
                         => accept[a].peer = s /\ accept[a].node = n
  BY DEF AcceptsFor
<1> QED
  BY <1>1, <1>2 DEF Serves

LEMMA EntriesKept ==
  ASSUME NEW s, srv'[s].clients = srv[s].clients, EntriesOK(s), LinesFor(s)
  PROVE  EntriesOK(s)'
<1>1. \A m : OldLine(m) /\ m.kind = "IDF" /\ m.peer = s => m.entries = srv[s].clients
  BY DEF OldLine, EntriesOK
<1> QED
  BY <1>1 DEF EntriesOK, LinesFor

LEMMA OrdersKept ==
  ASSUME NEW s, srv'[s] = srv[s], OrdersOK(s), AcceptsFor(s)
  PROVE  OrdersOK(s)'
  BY DEF OrdersOK, AcceptsFor, Commands

LEMMA KeptServer ==
  ASSUME NEW s, srv'[s] = srv[s], stolen \subseteq stolen', NodesFor(s), AcceptsFor(s),
         LinesFor(s), EntriesOK(s), OrdersOK(s), AgreeOK(s)
  PROVE  EntriesOK(s)' /\ OrdersOK(s)' /\ AgreeOK(s)'
<1>1. EntriesOK(s)'
  BY EntriesKept
<1>2. OrdersOK(s)'
  BY OrdersKept
<1>3. \A c \in Names : View(s, c)' = View(s, c)
  BY DEF View
<1>4. \A n \in Nodes : Serves(s, n)' => Serves(s, n)
  BY ServesKept
<1>5. AgreeOK(s)'
  BY <1>3, <1>4, AgreeKept
<1> QED
  BY <1>1, <1>2, <1>5

\* What a step of the master leaves of the connections.
ConnectedKept ==
  /\ \A k \in Nodes : node'[k].peer # None =>
       /\ node'[k].peer = node[k].peer /\ node'[k].of = node[k].of
       /\ node'[k].pc \in {"sleep", "wait", "clear"}
       /\ node'[k].alive => node[k].alive /\ SameHas(k)
  /\ \A a \in Accepts : accept'[a].peer # None =>
       /\ accept'[a].peer = accept[a].peer /\ accept'[a].node = accept[a].node
       /\ accept'[a].in \in {accept[a].in, None}
  /\ \A a \in Accepts : accept'[a].pc = "remove" => ~node'[accept'[a].node].alive

LEMMA ConnectedFor ==
  ASSUME ConnectedKept, NEW s \in Servers
  PROVE  NodesFor(s) /\ AcceptsFor(s)
  BY NoneIsNone DEF ConnectedKept, NodesFor, AcceptsFor

LEMMA ConnectedPeers ==
  ASSUME ConnectedKept, PeersOK
  PROVE  PeersOK'
  BY DEF ConnectedKept, PeersOK

\* A step of the master that answers nobody.
LEMMA QuietAgree ==
  ASSUME Agreed, srv' = srv, stolen \subseteq stolen', ConnectedKept, AddingOK',
         \A s \in Servers : LinesFor(s)
  PROVE  Agreed'
<1>1. PeersOK'
  BY ConnectedPeers DEF Agreed
<1>2. ASSUME NEW s \in Servers PROVE EntriesOK(s)' /\ OrdersOK(s)' /\ AgreeOK(s)'
  BY ConnectedFor, KeptServer DEF Agreed
<1> QED
  BY <1>1, <1>2 DEF Agreed

\* ClusterNet's thread is left alone.
LEMMA AddingKept ==
  ASSUME WellTyped, AddingOK, stolen \subseteq stolen', lst'.pc = lst.pc, lst'.node = lst.node,
         lst'.todo = lst.todo, lst'.msg.entries = lst.msg.entries,
         lst.pc = "add" => node'[lst.node].peer \in {node[lst.node].peer, None} /\ SameHas(lst.node)
  PROVE  AddingOK'
<1> SUFFICES ASSUME lst.pc = "add"
             PROVE  /\ node'[lst.node].peer = None
                    /\ \A c \in Names \ stolen', p \in Pwds :
                         Has(lst.node, c, p)' <=> c \notin lst.todo /\ lst.msg.entries[c] = p
  BY DEF AddingOK, Has
<1>1. node'[lst.node].peer = None
  BY DEF AddingOK
<1>2. ASSUME NEW c \in Names \ stolen', NEW p \in Pwds
      PROVE  Has(lst.node, c, p)' <=> c \notin lst.todo /\ lst.msg.entries[c] = p
  <2>1. Has(lst.node, c, p) <=> c \notin lst.todo /\ lst.msg.entries[c] = p
    BY DEF AddingOK
  <2>2. Has(lst.node, c, p)' <=> [name |-> c, pwd |-> p, owner |-> lst.node] \in records
    BY DEF SameHas, Has
  <2> QED
    BY <2>1, <2>2 DEF Has
<1> QED
  BY <1>1, <1>2

-----------------------------------------------------------------------------
(* Steps of the master that answer nobody.                                   *)

LEMMA SameRecords ==
  ASSUME records' = records, NEW k
  PROVE  SameHas(k)
  BY DEF SameHas, Has

LEMMA RemovedRecords ==
  ASSUME NEW n, removeDead(n), NEW k, k # n
  PROVE  SameHas(k)
<1> SUFFICES ASSUME NEW c \in Names \ stolen', NEW p \in Pwds
             PROVE  Has(k, c, p)' <=> Has(k, c, p)
  BY DEF SameHas
<1> DEFINE r == [name |-> c, pwd |-> p, owner |-> k]
<1>1. r.owner # n
  OBVIOUS
<1> HIDE DEF r
<1>2. r \in records' <=> r \in records
  BY <1>1 DEF removeDead
<1> QED
  BY <1>2 DEF Has, r

\* Lines that stay where they are.
LEMMA SameLines ==
  ASSUME backlog' = backlog, lst'.pc = lst.pc, lst'.msg = lst.msg, NEW s
  PROVE  LinesFor(s)
  BY DEF LinesFor, OldLine

LEMMA CollectConnected ==
  ASSUME NEW nd \in [Nodes -> NodeStates], node' = Collected(nd),
         \A k \in Nodes : nd[k].peer # None =>
           /\ nd[k].peer = node[k].peer /\ nd[k].of = node[k].of
           /\ nd[k].pc \in {"sleep", "wait", "clear"}
           /\ nd[k].alive => node[k].alive /\ SameHas(k),
         \A a \in Accepts : accept'[a].peer # None =>
           /\ accept'[a].peer = accept[a].peer /\ accept'[a].node = accept[a].node
           /\ accept'[a].in \in {accept[a].in, None},
         \A a \in Accepts : accept'[a].pc = "remove" =>
           accept'[a].node \in Nodes /\ ~nd[accept'[a].node].alive
  PROVE  ConnectedKept
<1>1. \A k \in Nodes : node'[k] = nd[k] \/ (node'[k] = NoNode /\ \A a \in Accepts : accept'[a].node # k)
  BY CollectFacts
<1>2. NoNode.peer = None
  BY DEF NoNode
<1>3. ASSUME NEW k \in Nodes, node'[k].peer # None
      PROVE  /\ node'[k].peer = node[k].peer /\ node'[k].of = node[k].of
             /\ node'[k].pc \in {"sleep", "wait", "clear"}
             /\ node'[k].alive => node[k].alive /\ SameHas(k)
  <2>1. node'[k] = nd[k]
    BY <1>1, <1>2, <1>3
  <2> QED
    BY <1>3, <2>1
<1>4. ASSUME NEW a \in Accepts, accept'[a].pc = "remove"
      PROVE  ~node'[accept'[a].node].alive
  BY <1>1, <1>4
<1> QED
  BY <1>3, <1>4 DEF ConnectedKept

\* The Request threads.
LEMMA RequestAgree ==
  ASSUME WellTyped, WellTyped', DeadOK, Agreed, NEW n \in Nodes,
         RequestBeat(n) \/ RequestAnswer(n) \/ RequestClear(n) \/ RequestDestroy(n)
         \/ RequestRemove(n)
  PROVE  Agreed'
<1>0. /\ node \in [Nodes -> NodeStates] /\ node[n] \in NodeStates /\ PeersOK /\ AddingOK
      /\ \A a \in Accepts : accept[a].pc # "none" => accept[a].node \in Nodes
  BY DEF Agreed, WellTyped, TypeOK, AcceptsOK
<1>1. lst.pc = "add" => lst.node \in Nodes \ {n}
  BY DEF DeadOK, FreshOK, WellTyped, ListenOK, RequestBeat, RequestAnswer, RequestClear,
         RequestDestroy, RequestRemove
<1>2. srv' = srv /\ stolen' = stolen /\ backlog' = backlog
  BY DEF RequestBeat, RequestAnswer, RequestClear, RequestDestroy, RequestRemove
<1>3. CASE RequestBeat(n) \/ RequestAnswer(n) \/ RequestClear(n)
  <2>1. UNCHANGED <<records, accept, lst>>
    BY <1>3 DEF RequestBeat, RequestAnswer, RequestClear
  <2>2. \A k \in Nodes : k # n => node'[k] = node[k]
    BY <1>0, <1>3 DEF RequestBeat, RequestAnswer, RequestClear, SetPc
  <2>3. /\ node'[n].alive = node[n].alive /\ node'[n].of = node[n].of
        /\ node'[n].peer = None
           \/ (node'[n].peer = node[n].peer /\ node'[n].pc \in {"sleep", "wait", "clear"})
    BY <1>0, <1>3 DEF RequestBeat, RequestAnswer, RequestClear, SetPc, NodeStates
  <2>4. \A k : SameHas(k)
    BY <2>1, SameRecords
  <2>5. ConnectedKept
    <3>1. ASSUME NEW a \in Accepts, accept'[a].pc = "remove"
          PROVE  ~node'[accept'[a].node].alive
      BY <1>0, <2>1, <2>2, <2>3, <3>1 DEF PeersOK
    <3> QED
      BY <1>0, <2>1, <2>2, <2>3, <2>4, <3>1 DEF ConnectedKept, PeersOK
  <2>6. AddingOK'
    BY <1>0, <1>1, <1>2, <2>1, <2>2, <2>4, AddingKept
  <2> QED
    BY <1>2, <2>1, <2>5, <2>6, SameLines, QuietAgree
<1>4. CASE RequestDestroy(n)
  <2> DEFINE v == [DestroyedNode(n) EXCEPT !.pc = IF DestroyThrows(n) THEN "end" ELSE "remove"]
             nd == [node EXCEPT ![n] = v]
  <2>1. /\ accept' = DestroyedAccept(n) /\ node' = Collected(nd) /\ node[n].pc = "destroy"
        /\ UNCHANGED <<records, lst>>
    BY <1>4 DEF RequestDestroy
  <2>2. node[n].peer = None
    BY <1>0, <2>1 DEF PeersOK
  <2>3. v \in NodeStates /\ v.peer = None /\ (v.alive => node[n].alive)
    <3>1. DestroyedNode(n) \in NodeStates
      BY DestroyFacts
    <3>2. DestroyedNode(n).peer = None /\ (DestroyedNode(n).alive => node[n].alive)
      BY <1>0, <2>2 DEF DestroyedNode, NodeStates
    <3> QED
      BY <3>1, <3>2 DEF NodeStates
  <2> HIDE DEF v
  <2>4. /\ nd \in [Nodes -> NodeStates] /\ nd[n] = v
        /\ \A k \in Nodes : k # n => nd[k] = node[k]
    BY <1>0, <2>3
  <2>5. lst.node \in Nodes => node'[lst.node] = nd[lst.node]
    BY <2>1, <2>4, CollectFacts
  <2> HIDE DEF nd
  <2>6. \A k : SameHas(k)
    BY <2>1, SameRecords
  <2>7. \A a \in Accepts : /\ accept'[a].peer = accept[a].peer /\ accept'[a].node = accept[a].node
                           /\ accept'[a].in = accept[a].in /\ accept'[a].pc = accept[a].pc
    BY <2>1, DestroyedSame
  <2>8. \A a \in Accepts : accept'[a].pc = "remove" =>
          accept'[a].node \in Nodes /\ ~nd[accept'[a].node].alive
    BY <1>0, <2>3, <2>4, <2>7 DEF PeersOK
  <2>9. \A k \in Nodes : nd[k].peer # None =>
          /\ nd[k].peer = node[k].peer /\ nd[k].of = node[k].of
          /\ nd[k].pc \in {"sleep", "wait", "clear"}
          /\ nd[k].alive => node[k].alive /\ SameHas(k)
    BY <1>0, <2>3, <2>4, <2>6 DEF PeersOK
  <2>10. ConnectedKept
    BY <2>1, <2>4, <2>7, <2>8, <2>9, CollectConnected
  <2>11. AddingOK'
    BY <1>0, <1>1, <1>2, <2>1, <2>4, <2>5, <2>6, AddingKept
  <2> QED
    BY <1>2, <2>1, <2>10, <2>11, SameLines, QuietAgree
<1>5. CASE RequestRemove(n)
  <2> DEFINE v == [node[n] EXCEPT !.pc = "end"]
             nd == [node EXCEPT ![n] = v]
  <2>1. /\ node' = Collected(nd) /\ removeDead(n) /\ Disturb /\ accept' = accept
        /\ node[n].pc = "remove"
    BY <1>5 DEF RequestRemove
  <2>2. node[n].peer = None
    BY <1>0, <2>1 DEF PeersOK
  <2>3. v \in NodeStates /\ v.peer = None /\ v.alive = node[n].alive
    BY <1>0, <2>2 DEF NodeStates
  <2> HIDE DEF v
  <2>4. /\ nd \in [Nodes -> NodeStates] /\ nd[n] = v
        /\ \A k \in Nodes : k # n => nd[k] = node[k]
    BY <1>0, <2>3
  <2>5. lst.node \in Nodes => node'[lst.node] = nd[lst.node]
    BY <2>1, <2>4, CollectFacts
  <2> HIDE DEF nd
  <2>6. \A k : k # n => SameHas(k)
    BY <2>1, RemovedRecords
  <2>7. /\ lst'.pc = lst.pc /\ lst'.node = lst.node /\ lst'.msg = lst.msg
        /\ lst'.todo = lst.todo
    BY <2>1 DEF Disturb, WellTyped, TypeOK, ListenStates
  <2>8. \A a \in Accepts : accept'[a].pc = "remove" =>
          accept'[a].node \in Nodes /\ ~nd[accept'[a].node].alive
    BY <1>0, <2>1, <2>3, <2>4 DEF PeersOK
  <2>9. \A k \in Nodes : nd[k].peer # None =>
          /\ nd[k].peer = node[k].peer /\ nd[k].of = node[k].of
          /\ nd[k].pc \in {"sleep", "wait", "clear"}
          /\ nd[k].alive => node[k].alive /\ SameHas(k)
    BY <1>0, <2>3, <2>4, <2>6 DEF PeersOK
  <2>10. ConnectedKept
    BY <2>1, <2>4, <2>8, <2>9, CollectConnected
  <2>11. AddingOK'
    <3>1. lst.pc = "add" => node'[lst.node].peer = node[lst.node].peer /\ SameHas(lst.node)
      BY <1>1, <2>4, <2>5, <2>1, RemovedRecords
    <3> QED
      BY <1>0, <1>2, <2>7, <3>1, AddingKept
  <2> QED
    BY <1>2, <2>7, <2>10, <2>11, SameLines, QuietAgree
<1> QED
  BY <1>3, <1>4, <1>5

\* The Accept threads that end.
LEMMA AcceptEndAgree ==
  ASSUME WellTyped, WellTyped', DeadOK, Agreed, NEW a \in Accepts,
         AcceptEof(a) \/ AcceptClear(a) \/ AcceptDestroy(a) \/ AcceptRemove(a)
  PROVE  Agreed'
<1>0. PICK n : n = accept[a].node
  OBVIOUS
<1>1. /\ node \in [Nodes -> NodeStates] /\ accept \in [Accepts -> AcceptStates]
      /\ n \in Nodes /\ node[n] \in NodeStates /\ accept[a] \in AcceptStates /\ accept[a].pc # "none"
      /\ PeersOK /\ AddingOK
      /\ \A b \in Accepts : accept[b].pc # "none" => accept[b].node \in Nodes
  BY <1>0 DEF Agreed, WellTyped, TypeOK, AcceptsOK, AcceptEof, AcceptClear, AcceptDestroy, AcceptRemove
<1>2. lst.pc = "add" => lst.node \in Nodes \ {n}
  BY <1>0 DEF DeadOK, FreshOK, WellTyped, ListenOK
<1>3. srv' = srv /\ stolen' = stolen /\ backlog' = backlog
  BY DEF AcceptEof, AcceptClear, AcceptDestroy, AcceptRemove
<1>4. CASE AcceptEof(a) \/ AcceptClear(a)
  <2>1. UNCHANGED <<records, node, lst>>
    BY <1>4 DEF AcceptEof, AcceptClear
  <2>2. /\ accept'[a].node = accept[a].node /\ accept'[a].peer \in {accept[a].peer, None}
        /\ accept'[a].in = accept[a].in /\ (accept'[a].pc = "remove" => ~node[n].alive)
        /\ \A b \in Accepts : b # a => accept'[b] = accept[b]
    <3>1. CASE AcceptEof(a)
      BY <1>1, <3>1 DEF AcceptEof, AcceptStates
    <3>2. CASE AcceptClear(a)
      BY <1>0, <1>1, <3>2 DEF AcceptClear, AcceptStates
    <3> QED
      BY <1>4, <3>1, <3>2
  <2>3. \A k : SameHas(k)
    BY <2>1, SameRecords
  <2>4. ConnectedKept
    BY <1>0, <1>1, <2>1, <2>2, <2>3 DEF ConnectedKept, PeersOK
  <2>5. AddingOK'
    BY <1>1, <1>3, <2>1, <2>3, AddingKept
  <2> QED
    BY <1>3, <2>1, <2>4, <2>5, SameLines, QuietAgree
<1>5. CASE AcceptDestroy(a)
  <2> DEFINE v == IF DestroyThrows(n) THEN NoAccept
                  ELSE [accept[a] EXCEPT !.pc = "remove", !.t = FALSE]
             w == [DestroyedNode(n) EXCEPT !.fsa = IF @ = a THEN None ELSE @]
             nd == [node EXCEPT ![n] = w]
             f == DestroyedAccept(n)
  <2>1. /\ accept' = [f EXCEPT ![a] = v] /\ node' = Collected(nd)
        /\ UNCHANGED <<records, lst>>
    BY <1>0, <1>5 DEF AcceptDestroy
  <2>2. /\ w \in NodeStates /\ w.pc = node[n].pc /\ w.of = node[n].of
        /\ w.alive = DestroyedNode(n).alive /\ w.peer = DestroyedNode(n).peer
    BY <1>1, DestroyFacts DEF NodeStates
  <2>3. /\ w.alive => node[n].alive /\ DestroyThrows(n)
        /\ w.peer \in {node[n].peer, None}
    BY <1>1, <2>2 DEF DestroyedNode, NodeStates, DestroyThrows
  <2>4. /\ f \in [Accepts -> AcceptStates]
        /\ \A b \in Accepts : /\ f[b].pc = accept[b].pc /\ f[b].node = accept[b].node
                              /\ f[b].peer = accept[b].peer /\ f[b].in = accept[b].in
    BY <1>1, DestroyFacts, DestroyedSame
  <2>5. \/ v.peer = None /\ v.pc = "none"
        \/ /\ v.node = n /\ v.peer = accept[a].peer /\ v.in = accept[a].in /\ v.pc = "remove"
           /\ ~DestroyThrows(n)
    BY <1>0, <1>1 DEF AcceptStates, NoAccept
  <2> HIDE DEF v, w, f
  <2>6. nd \in [Nodes -> NodeStates] /\ nd[n] = w /\ \A k \in Nodes : k # n => nd[k] = node[k]
    BY <1>1, <2>2
  <2>7. lst.node \in Nodes => node'[lst.node] = nd[lst.node]
    BY <2>1, <2>6, CollectFacts
  <2> HIDE DEF nd
  <2>8. accept'[a] = v /\ \A b \in Accepts : b # a => accept'[b] = f[b]
    BY <2>1, <2>4
  <2>9. \A k : SameHas(k)
    BY <2>1, SameRecords
  <2>10. \A b \in Accepts : accept'[b].pc = "remove" =>
           accept'[b].node \in Nodes /\ ~nd[accept'[b].node].alive
    <3>1. nd[n].alive => node[n].alive /\ DestroyThrows(n)
      BY <2>3, <2>6
    <3>2. accept'[a].pc = "remove" => accept'[a].node = n /\ ~DestroyThrows(n)
      BY <2>5, <2>8
    <3>3. ASSUME NEW b \in Accepts, b # a, accept'[b].pc = "remove"
          PROVE  accept'[b].node \in Nodes /\ ~nd[accept'[b].node].alive
      <4>1. accept[b].pc = "remove" /\ accept'[b].node = accept[b].node
        BY <2>4, <2>8, <3>3
      <4>2. accept[b].node \in Nodes /\ ~node[accept[b].node].alive
        BY <1>1, <4>1 DEF PeersOK
      <4> QED
        BY <2>6, <3>1, <4>1, <4>2
    <3> QED
      BY <1>1, <3>1, <3>2, <3>3
  <2>11. \A k \in Nodes : nd[k].peer # None =>
          /\ nd[k].peer = node[k].peer /\ nd[k].of = node[k].of
          /\ nd[k].pc \in {"sleep", "wait", "clear"}
          /\ nd[k].alive => node[k].alive /\ SameHas(k)
    BY <1>1, <2>2, <2>3, <2>6, <2>9 DEF PeersOK
  <2>12. \A b \in Accepts : accept'[b].peer # None =>
           /\ accept'[b].peer = accept[b].peer /\ accept'[b].node = accept[b].node
           /\ accept'[b].in \in {accept[b].in, None}
    BY <1>0, <2>4, <2>5, <2>8
  <2>13. ConnectedKept
    BY <2>1, <2>6, <2>10, <2>11, <2>12, CollectConnected
  <2>14. AddingOK'
    BY <1>1, <1>2, <1>3, <2>1, <2>6, <2>7, <2>9, AddingKept
  <2> QED
    BY <1>3, <2>1, <2>13, <2>14, SameLines, QuietAgree
<1>6. CASE AcceptRemove(a)
  <2> DEFINE nd == [k \in Nodes |-> [node[k] EXCEPT !.fsa = IF @ = a THEN None ELSE @]]
  <2>1. /\ node' = Collected(nd) /\ accept' = [accept EXCEPT ![a] = NoAccept]
        /\ removeDead(n) /\ Disturb /\ accept[a].pc = "remove"
    BY <1>0, <1>6 DEF AcceptRemove
  <2>2. nd \in [Nodes -> NodeStates]
    BY <1>1 DEF NodeStates
  <2>3. \A k \in Nodes : /\ nd[k].pc = node[k].pc /\ nd[k].of = node[k].of
                         /\ nd[k].peer = node[k].peer /\ nd[k].alive = node[k].alive
    BY <1>1 DEF NodeStates
  <2> HIDE DEF nd
  <2>4. lst.node \in Nodes => node'[lst.node] = nd[lst.node]
    BY <2>1, <2>2, CollectFacts
  <2>5. /\ lst'.pc = lst.pc /\ lst'.node = lst.node /\ lst'.msg = lst.msg
        /\ lst'.todo = lst.todo
    BY <2>1 DEF Disturb, WellTyped, TypeOK, ListenStates
  <2>6. ~node[n].alive /\ \A k : k # n => SameHas(k)
    BY <1>0, <1>1, <2>1, RemovedRecords DEF PeersOK
  <2>7. accept'[a] = NoAccept /\ \A b \in Accepts : b # a => accept'[b] = accept[b]
    BY <1>1, <2>1
  <2>8. NoAccept.peer = None /\ NoAccept.pc = "none"
    BY DEF NoAccept
  <2>9. \A b \in Accepts : accept'[b].pc = "remove" =>
          accept'[b].node \in Nodes /\ ~nd[accept'[b].node].alive
    BY <1>1, <2>3, <2>7, <2>8 DEF PeersOK
  <2>10. \A k \in Nodes : nd[k].peer # None =>
          /\ nd[k].peer = node[k].peer /\ nd[k].of = node[k].of
          /\ nd[k].pc \in {"sleep", "wait", "clear"}
          /\ nd[k].alive => node[k].alive /\ SameHas(k)
    BY <1>1, <2>3, <2>6 DEF PeersOK
  <2>11. \A b \in Accepts : accept'[b].peer # None =>
           /\ accept'[b].peer = accept[b].peer /\ accept'[b].node = accept[b].node
           /\ accept'[b].in \in {accept[b].in, None}
    BY <2>7, <2>8
  <2>12. ConnectedKept
    BY <2>1, <2>2, <2>9, <2>10, <2>11, CollectConnected
  <2>13. AddingOK'
    <3>1. lst.pc = "add" => node'[lst.node].peer = node[lst.node].peer /\ SameHas(lst.node)
      BY <1>2, <2>3, <2>4, <2>6
    <3> QED
      BY <1>1, <1>3, <2>5, <3>1, AddingKept
  <2> QED
    BY <1>3, <2>5, <2>12, <2>13, SameLines, QuietAgree
<1> QED
  BY <1>4, <1>5, <1>6

LEMMA EchoAgree ==
  ASSUME WellTyped, WellTyped', Agreed, Echo
  PROVE  Agreed'
<1>1. /\ node' = Collected(node) /\ UNCHANGED <<records, accept, backlog, srv, stolen>> /\ Disturb
      /\ node \in [Nodes -> NodeStates] /\ PeersOK /\ AddingOK
      /\ \A a \in Accepts : accept[a].pc # "none" => accept[a].node \in Nodes
  BY DEF Echo, WellTyped, TypeOK, AcceptsOK, Agreed
<1>2. \A k : SameHas(k)
  BY <1>1, SameRecords
<1>3. ConnectedKept
  <2>1. /\ \A k \in Nodes : node[k].peer # None => node[k].pc \in {"sleep", "wait", "clear"} /\ SameHas(k)
        /\ \A a \in Accepts : accept'[a].pc = "remove" =>
             accept'[a].node \in Nodes /\ ~node[accept'[a].node].alive
    BY <1>1, <1>2 DEF PeersOK
  <2> QED
    BY <1>1, <2>1, CollectConnected
<1>4. lst'.pc = lst.pc /\ lst'.node = lst.node /\ lst'.msg = lst.msg /\ lst'.todo = lst.todo
  BY <1>1 DEF Disturb, WellTyped, TypeOK, ListenStates
<1>5. lst.pc = "add" => node'[lst.node] = node[lst.node]
  BY <1>1, CollectFacts DEF WellTyped, ListenOK
<1>6. AddingOK'
  BY <1>1, <1>2, <1>4, <1>5, AddingKept
<1> QED
  BY <1>1, <1>3, <1>4, <1>6, SameLines, QuietAgree

\* ClusterNet's thread has no list of names in hand.
LEMMA NoAdding ==
  ASSUME lst'.pc # "add"
  PROVE  AddingOK'
  BY DEF AddingOK

LEMMA IdleFacts ==
  ASSUME lst' = Idle \/ lst' = [Idle EXCEPT !.pc = "stopped"]
  PROVE  lst'.pc \in {"accept", "stopped"}
  BY DEF Idle

LEMMA IdleLines ==
  ASSUME lst'.pc \in {"accept", "stopped", "set", "start"}, backlog' = backlog \/ backlog' = <<>>, NEW s
  PROVE  LinesFor(s)
<1>1. \A i \in DOMAIN backlog' : i \in DOMAIN backlog /\ backlog'[i] = backlog[i]
  OBVIOUS
<1> QED
  BY <1>1 DEF LinesFor, OldLine

\* The node list and the threads do not change.
LEMMA SameConnected ==
  ASSUME PeersOK, records' = records,
         \A k \in Nodes : \/ node'[k] = node[k]
                          \/ node'[k].peer = None /\ \A a \in Accepts : accept'[a].node # k,
         \A a \in Accepts :
           /\ accept'[a].peer = accept[a].peer /\ accept'[a].node = accept[a].node
           /\ accept'[a].in = accept[a].in
           /\ accept'[a].pc = "remove" => accept[a].pc = "remove" /\ accept[a].node \in Nodes
  PROVE  ConnectedKept
<1>1. \A k : SameHas(k)
  BY SameRecords
<1>2. \A a \in Accepts : accept'[a].pc = "remove" => ~node'[accept'[a].node].alive
  BY DEF PeersOK
<1> QED
  BY <1>1, <1>2 DEF ConnectedKept, PeersOK

LEMMA ListenQuietAgree ==
  ASSUME WellTyped, WellTyped', DeadOK, Agreed,
         ListenReceive \/ ListenThrows \/ UsrStart \/ IdfFind \/ UsrFind \/ MasterStart
  PROVE  Agreed'
<1>1. /\ node \in [Nodes -> NodeStates] /\ accept \in [Accepts -> AcceptStates]
      /\ lst \in ListenStates /\ backlog \in Seq(Lines) /\ PeersOK /\ AddingOK
      /\ \A a \in Accepts : accept[a].pc # "none" => accept[a].node \in Nodes
  BY DEF Agreed, WellTyped, TypeOK, AcceptsOK
<1>2. srv' = srv /\ stolen' = stolen /\ records' = records
  BY DEF ListenReceive, ListenThrows, UsrStart, IdfFind, UsrFind, MasterStart, serverVars
<1>3. ASSUME node' = node, accept' = accept PROVE ConnectedKept
  BY <1>1, <1>2, <1>3, SameConnected
<1>4. CASE ListenReceive
  <2>1. node' = node /\ accept' = accept /\ backlog # <<>>
    BY <1>4 DEF ListenReceive
  <2>2. PICK m : m = Head(backlog)
    OBVIOUS
  <2>3. m = backlog[1] /\ 1 \in DOMAIN backlog
    BY <1>1, <2>1, <2>2
  <2>4. CASE lst' = [Idle EXCEPT !.pc = "stopped"] /\ backlog' = <<>>
    <3>1. lst'.pc \in {"accept", "stopped"}
      BY <2>4, IdleFacts
    <3> QED
      BY <1>2, <1>3, <2>1, <2>4, <3>1, IdleLines, NoAdding, QuietAgree
  <2>5. CASE lst' = [Idle EXCEPT !.pc = "find", !.msg = m] /\ backlog' = Tail(backlog)
    <3>1. lst'.pc = "find" /\ lst'.msg = m
      BY <2>5 DEF Idle
    <3>2. \A i \in DOMAIN backlog' : i + 1 \in DOMAIN backlog /\ backlog'[i] = backlog[i + 1]
      BY <1>1, <2>1, <2>5
    <3>3. \A s \in Servers : LinesFor(s)
      BY <2>3, <3>1, <3>2 DEF LinesFor, OldLine
    <3> QED
      BY <1>2, <1>3, <2>1, <3>1, <3>3, NoAdding, QuietAgree
  <2> QED
    BY <1>4, <2>2, <2>4, <2>5 DEF ListenReceive
<1>5. CASE ListenThrows
  <2>1. /\ node' = node /\ accept' = accept /\ (backlog' = backlog \/ backlog' = <<>>)
        /\ lst' = Idle \/ lst' = [Idle EXCEPT !.pc = "stopped"]
    BY <1>5 DEF ListenThrows
  <2>2. lst'.pc \in {"accept", "stopped"}
    BY <2>1, IdleFacts
  <2> QED
    BY <1>2, <1>3, <2>1, <2>2, IdleLines, NoAdding, QuietAgree
<1>6. CASE UsrStart
  <2>1. PICK a \in Accepts : accept' = [accept EXCEPT ![a].pc = "run", ![a].t = TRUE]
    BY <1>6 DEF UsrStart
  <2>2. node' = node /\ backlog' = backlog /\ lst' = Idle
    BY <1>6 DEF UsrStart
  <2>3. lst'.pc \in {"accept", "stopped"}
    BY <2>2, IdleFacts
  <2>4. \A b \in Accepts : /\ accept'[b].peer = accept[b].peer /\ accept'[b].node = accept[b].node
                           /\ accept'[b].in = accept[b].in
                           /\ accept'[b].pc = "remove" => accept[b].pc = "remove"
    BY <1>1, <2>1 DEF AcceptStates
  <2>5. ConnectedKept
    BY <1>1, <1>2, <2>2, <2>4, SameConnected
  <2> QED
    BY <1>2, <2>2, <2>3, <2>5, IdleLines, NoAdding, QuietAgree
<1>7. ASSUME NEW n \in Nodes, FreeNode(n), accept' = accept,
             node' = [node EXCEPT ![n] = [NoNode EXCEPT !.of = lst.msg.id]]
      PROVE  ConnectedKept /\ node'[n].peer = None
  <2>1. node'[n].peer = None /\ \A k \in Nodes : k # n => node'[k] = node[k]
    BY <1>1, <1>7 DEF NoNode
  <2>2. \A a \in Accepts : accept'[a].node # n
    BY <1>7 DEF FreeNode
  <2> QED
    BY <1>1, <1>2, <1>7, <2>1, <2>2, SameConnected
<1>8. CASE IdfFind
  <2>1. PICK n \in Nodes : n = NewNode /\ FreeNode(n)
    BY <1>8, NewFacts DEF IdfFind
  <2> DEFINE todo == {c \in Names : lst.msg.entries[c] # None}
  <2>2. /\ node' = [node EXCEPT ![n] = [NoNode EXCEPT !.of = lst.msg.id]]
        /\ accept' = accept /\ backlog' = backlog /\ lst.pc = "find"
        /\ lst' = [lst EXCEPT !.pc = "add", !.node = n, !.todo = todo]
    BY <1>8, <2>1 DEF IdfFind
  <2>3. ConnectedKept /\ node'[n].peer = None
    BY <1>7, <2>1, <2>2
  <2>4. lst'.pc = "add" /\ lst'.node = n /\ lst'.todo = todo /\ lst'.msg = lst.msg
    BY <1>1, <2>2 DEF ListenStates
  <2>5. \A s \in Servers : LinesFor(s)
    BY <2>2, <2>4 DEF LinesFor, OldLine
  <2>6. AddingOK'
    <3>1. \A c, p : ~Has(n, c, p)
      BY <2>1 DEF FreeNode, Has
    <3>2. \A c, p : ~Has(n, c, p)'
      BY <1>2, <3>1 DEF Has
    <3>3. \A c \in Names, p \in Pwds : ~(c \notin todo /\ lst.msg.entries[c] = p)
      BY NoneIsNone
    <3> QED
      BY <2>3, <2>4, <3>2, <3>3 DEF AddingOK, Has
  <2> QED
    BY <1>2, <2>3, <2>5, <2>6, QuietAgree
<1>9. CASE UsrFind
  <2>1. accept' = accept /\ backlog' = backlog /\ lst'.pc = "set"
    BY <1>1, <1>9 DEF UsrFind, ListenStates
  <2>2. ConnectedKept
    <3>1. CASE node' = node
      BY <1>3, <2>1, <3>1
    <3>2. CASE node' # node
      <4>1. /\ NodeLeft /\ node' = [node EXCEPT ![NewNode] = [NoNode EXCEPT !.of = lst.msg.id]]
        BY <1>9, <3>2 DEF UsrFind
      <4> QED
        BY <1>7, <2>1, <4>1, NewFacts
    <3> QED
      BY <3>1, <3>2
  <2> QED
    BY <1>2, <2>1, <2>2, IdleLines, NoAdding, QuietAgree
<1>10. CASE MasterStart
  <2>1. node' = node /\ accept' = accept /\ backlog' = backlog /\ lst' = Idle
    BY <1>10 DEF MasterStart
  <2>2. lst'.pc \in {"accept", "stopped"}
    BY <2>1, IdleFacts
  <2> QED
    BY <1>2, <1>3, <2>1, <2>2, IdleLines, NoAdding, QuietAgree
<1> QED
  BY <1>4, <1>5, <1>6, <1>8, <1>9, <1>10

\* Nobody is connected to the master that has just stopped.
LEMMA MasterCrashAgree ==
  ASSUME MasterCrash
  PROVE  Agreed'
<1>1. /\ \A n \in Nodes : node'[n].peer = None
      /\ \A a \in Accepts : accept'[a].peer = None /\ accept'[a].pc = "none"
      /\ backlog' = <<>>
  BY DEF MasterCrash, NoNode, NoAccept
<1>2. lst'.pc \in {"accept", "stopped"}
  BY IdleFacts DEF MasterCrash
<1>3. PeersOK' /\ AddingOK'
  BY <1>1, <1>2 DEF PeersOK, AddingOK
<1>4. \A s \in Servers : EntriesOK(s)' /\ OrdersOK(s)' /\ AgreeOK(s)'
  BY <1>1, <1>2, NoneIsNone DEF EntriesOK, OrdersOK, AgreeOK, Serves
<1> QED
  BY <1>3, <1>4 DEF Agreed

-----------------------------------------------------------------------------
(* Answers of ClusterNet's thread.                                           *)

\* The server that is answered has nothing else under way.
LEMMA AnsweredPeer ==
  ASSUME WellTyped, Durable, Reading, NEW s \in Servers, lst.msg.peer = s, backlog' = backlog,
         lst'.pc \notin {"find", "add"},
         \A a \in Accepts : accept'[a].peer = s => accept[a].peer = s \/ accept'[a].in = None
  PROVE  EntriesOK(s)' /\ OrdersOK(s)'
<1>1. /\ \A i \in DOMAIN backlog' : backlog'[i].peer # s
      /\ \A a \in Accepts : accept'[a].peer = s => accept'[a].in = None
  BY PeerFacts
<1> QED
  BY <1>1 DEF EntriesOK, OrdersOK

LEMMA IdfAddAgree ==
  ASSUME WellTyped, WellTyped', DeadOK, Durable, Agreed, IdfAdd
  PROVE  Agreed'
<1>1. /\ lst.pc = "add" /\ Reading /\ UNCHANGED <<node, accept, backlog, stolen>>
      /\ lst \in ListenStates /\ lst.msg \in Lines /\ lst.msg.kind = "IDF" /\ lst.node \in Nodes
      /\ lst.msg.peer \in Peers /\ PeersOK /\ AddingOK
      /\ \A a \in Accepts : accept[a].pc # "none" => accept[a].node \in Nodes
  BY LineFacts DEF IdfAdd, Reading, WellTyped, TypeOK, ListenOK, AcceptsOK, Agreed
<1>2. PICK c \in lst.todo :
        /\ records' = addClient(c, lst.msg.entries[c], lst.node)
        /\ IF clientExist(c)
           THEN /\ srv' = Reply(lst.msg.peer, "ERM")
                /\ lst' = Idle
           ELSE /\ lst' = [lst EXCEPT !.todo = @ \ {c}]
                /\ UNCHANGED srv
  BY DEF IdfAdd
<1>3. CASE clientExist(c)
  <2>1. records' = records /\ srv' = Reply(lst.msg.peer, "ERM") /\ lst'.pc \in {"accept", "stopped"}
    BY <1>2, <1>3, IdleFacts DEF addClient
  <2>2. ConnectedKept
    BY <1>1, <2>1, SameConnected
  <2>3. PeersOK' /\ AddingOK'
    BY <1>1, <2>1, <2>2, ConnectedPeers, NoAdding
  <2>4. ASSUME NEW s \in Servers PROVE EntriesOK(s)' /\ OrdersOK(s)' /\ AgreeOK(s)'
    <3>1. CASE s # lst.msg.peer
      <4>1. srv'[s] = srv[s]
        BY <1>1, <2>1, <3>1, ReplyKept DEF Answers
      <4> QED
        BY <1>1, <2>1, <2>2, <4>1, ConnectedFor, IdleLines, KeptServer DEF Agreed
    <3>2. CASE s = lst.msg.peer
      <4>1. srv'[s].pc = "idf" /\ srv'[s].reply = "ERM"
        BY <1>1, <2>1, <3>2, ReplyKept, PeerFacts DEF Answers
      <4>2. EntriesOK(s)' /\ OrdersOK(s)'
        BY <1>1, <2>1, <3>2, AnsweredPeer
      <4>3. AgreeOK(s)'
        BY <4>1 DEF AgreeOK, Serves
      <4> QED
        BY <4>2, <4>3
    <3> QED
      BY <3>1, <3>2
  <2> QED
    BY <2>3, <2>4 DEF Agreed
<1>4. CASE ~clientExist(c)
  <2>1. PICK n \in Nodes : n = lst.node
    BY <1>1
  <2>2. PICK w : w = lst.msg.entries[c]
    OBVIOUS
  <2>3. PICK r : r = [name |-> c, pwd |-> w, owner |-> n]
    OBVIOUS
  <2>4. /\ records' = records \cup {r} /\ srv' = srv
        /\ lst'.pc = lst.pc /\ lst'.node = n /\ lst'.msg = lst.msg /\ lst'.todo = lst.todo \ {c}
    BY <1>1, <1>2, <1>4, <2>1, <2>2, <2>3 DEF addClient, ListenStates
  <2>5. \A k, d, p : Has(k, d, p)' <=> Has(k, d, p) \/ (k = n /\ d = c /\ p = w)
    BY <2>3, <2>4 DEF Has
  <2>6. \A k \in Nodes : k # n => SameHas(k)
    BY <2>5 DEF SameHas
  <2>7. ConnectedKept
    <3>1. node[n].peer = None
      BY <1>1, <2>1 DEF AddingOK
    <3> QED
      BY <1>1, <2>6, <3>1 DEF ConnectedKept, PeersOK
  <2>8. AddingOK'
    <3> SUFFICES ASSUME NEW d \in Names \ stolen, NEW p \in Pwds
                 PROVE  Has(n, d, p)' <=> d \notin lst'.todo /\ lst.msg.entries[d] = p
      BY <1>1, <2>1, <2>4 DEF AddingOK, Has
    <3>1. Has(n, d, p) <=> d \notin lst.todo /\ lst.msg.entries[d] = p
      BY <1>1, <2>1 DEF AddingOK
    <3> QED
      BY <1>2, <2>2, <2>4, <2>5, <3>1
  <2> QED
    BY <1>1, <2>4, <2>7, <2>8, SameLines, QuietAgree
<1> QED
  BY <1>3, <1>4

LEMMA IdfInsertAgree ==
  ASSUME WellTyped, WellTyped', DeadOK, Durable, Agreed, IdfInsert
  PROVE  Agreed'
<1>1. /\ lst.pc = "add" /\ Reading /\ lst.todo = {}
      /\ UNCHANGED <<records, accept, backlog, stolen>>
      /\ lst.msg \in Lines /\ lst.msg.kind = "IDF"
      /\ lst.msg.peer \in Peers /\ PeersOK /\ AddingOK
      /\ node \in [Nodes -> NodeStates] /\ srv \in [Servers -> ServerStates]
      /\ \A a \in Accepts : accept[a].pc # "none" => accept[a].node \in Nodes
  BY LineFacts DEF IdfInsert, Reading, WellTyped, TypeOK, ListenOK, AcceptsOK, Agreed
<1>2. PICK n \in Nodes : n = lst.node
  BY <1>1 DEF WellTyped, ListenOK
<1>3. PICK z : z = lst.msg.peer
  OBVIOUS
<1>4. /\ node'[n].peer = z /\ node'[n].pc = "sleep" /\ node'[n].of = node[n].of
      /\ node'[n].alive = node[n].alive
      /\ \A k \in Nodes : k # n => node'[k] = node[k]
  BY <1>1, <1>2, <1>3 DEF IdfInsert, NodeStates
<1>5. lst'.pc \in {"accept", "stopped"}
  BY IdleFacts DEF IdfInsert
<1>6. \A s \in Servers : s # z => srv'[s] = srv[s]
  BY <1>1, <1>3 DEF IdfInsert
<1>7. z \in Servers => /\ srv'[z].main = n /\ srv'[z].clients = srv[z].clients
                       /\ srv'[z].user = srv[z].user /\ srv'[z].pc = srv[z].pc
  <2> SUFFICES ASSUME z \in Servers
               PROVE  /\ srv'[z].main = n /\ srv'[z].clients = srv[z].clients
                      /\ srv'[z].user = srv[z].user /\ srv'[z].pc = srv[z].pc
    OBVIOUS
  <2>1. srv'[z] = [srv[z] EXCEPT !.reply = "CFM", !.main = n] /\ srv[z] \in ServerStates
    BY <1>1, <1>2, <1>3, NoneIsNone DEF IdfInsert
  <2> QED
    BY <2>1 DEF ServerStates
<1>8. PeersOK'
  <2>1. z # None => node[n].of = z
    <3> SUFFICES ASSUME z \in Servers PROVE node[n].of = z
      BY <1>1, <1>3 DEF Peers
    <3>1. lst.msg.id = z
      BY <1>1, <1>3, PeerFacts
    <3> QED
      BY <1>1, <1>2, <3>1 DEF Durable, OriginsOK
  <2>2. \A a \in Accepts : accept[a].node # n
    BY <1>1, <1>2 DEF DeadOK, FreshOK
  <2> QED
    BY <1>1, <1>4, <2>1, <2>2 DEF PeersOK
<1>9. \A k : SameHas(k)
  BY <1>1, SameRecords
<1>10. ASSUME NEW s \in Servers, s # z PROVE EntriesOK(s)' /\ OrdersOK(s)' /\ AgreeOK(s)'
  <2>1. NodesFor(s) /\ AcceptsFor(s)
    BY <1>1, <1>4, <1>9, <1>10 DEF NodesFor, AcceptsFor
  <2>2. LinesFor(s) /\ srv'[s] = srv[s]
    BY <1>1, <1>5, <1>6, <1>10, IdleLines
  <2> QED
    BY <1>1, <2>1, <2>2, KeptServer DEF Agreed
<1>11. ASSUME z \in Servers PROVE EntriesOK(z)' /\ OrdersOK(z)' /\ AgreeOK(z)'
  <2>1. EntriesOK(z)' /\ OrdersOK(z)'
    BY <1>1, <1>3, <1>5, <1>11, AnsweredPeer
  <2>2. srv[z].user = "none" /\ lst.msg.entries = srv[z].clients
    BY <1>1, <1>3, <1>11, PeerFacts DEF Agreed, EntriesOK
  <2>3. \A c : View(z, c)' = lst.msg.entries[c]
    BY <1>7, <1>11, <2>2 DEF View
  <2>4. \A c \in Names \ stolen, p \in Pwds : Has(n, c, p) <=> lst.msg.entries[c] = p
    BY <1>1, <1>2 DEF AddingOK
  <2>5. \A c \in Names \ stolen, p \in Pwds : Has(n, c, p)' <=> lst.msg.entries[c] = p
    BY <1>1, <2>4 DEF Has
  <2>6. AgreeOK(z)'
    BY <1>1, <1>7, <1>11, <2>3, <2>5 DEF AgreeOK, Serves
  <2> QED
    BY <2>1, <2>6
<1> QED
  BY <1>5, <1>8, <1>10, <1>11, NoAdding DEF Agreed

LEMMA UsrSetAgree ==
  ASSUME WellTyped, WellTyped', Durable, Agreed, UsrSet
  PROVE  Agreed'
<1>1. /\ lst.pc = "set" /\ Reading /\ UNCHANGED <<records, backlog, stolen>>
      /\ lst \in ListenStates /\ lst.msg \in Lines /\ lst.msg.kind = "USR" /\ lst.node \in Nodes
      /\ lst.msg.peer \in Peers /\ PeersOK
      /\ node \in [Nodes -> NodeStates] /\ accept \in [Accepts -> AcceptStates]
      /\ \A a \in Accepts : accept[a].pc # "none" => accept[a].node \in Nodes
  BY LineFacts DEF UsrSet, Reading, WellTyped, TypeOK, ListenOK, AcceptsOK, Agreed
<1>2. PICK b \in Accepts : b = NewAccept
  BY NewFacts DEF UsrSet
<1>3. PICK z : z = lst.msg.peer
  OBVIOUS
<1>4. /\ accept'[b].pc = "new" /\ accept'[b].peer = z /\ accept'[b].in = None
      /\ \A a \in Accepts : a # b => accept'[a] = accept[a]
  BY <1>1, <1>2, <1>3 DEF UsrSet, NoAccept
<1>5. \A k \in Nodes : /\ node'[k].peer = node[k].peer /\ node'[k].alive = node[k].alive
                       /\ node'[k].pc = node[k].pc /\ node'[k].of = node[k].of
  BY <1>1 DEF UsrSet, NodeStates
<1>6. lst'.pc = "start"
  BY <1>1 DEF UsrSet, ListenStates
<1>7. srv' = Reply(z, "CFM") /\ z \in Peers
  BY <1>1, <1>3 DEF UsrSet
<1>8. \A k : SameHas(k)
  BY <1>1, SameRecords
<1>9. \A s : NodesFor(s)
  BY <1>5, <1>8 DEF NodesFor
<1>10. PeersOK'
  BY <1>1, <1>4, <1>5 DEF PeersOK
<1>11. ASSUME NEW s \in Servers, s # z PROVE EntriesOK(s)' /\ OrdersOK(s)' /\ AgreeOK(s)'
  <2>1. AcceptsFor(s)
    BY <1>4, <1>11 DEF AcceptsFor
  <2>2. LinesFor(s)
    BY <1>1, <1>6, IdleLines
  <2>3. srv'[s] = srv[s]
    BY <1>7, <1>11, ReplyKept DEF Answers
  <2> QED
    BY <1>1, <1>9, <2>1, <2>2, <2>3, KeptServer DEF Agreed
<1>12. ASSUME z \in Servers PROVE EntriesOK(z)' /\ OrdersOK(z)' /\ AgreeOK(z)'
  <2>1. EntriesOK(z)' /\ OrdersOK(z)'
    BY <1>1, <1>3, <1>4, <1>6, <1>12, AnsweredPeer
  <2>2. srv[z].user = "none" /\ srv[z].pc = "usr"
    BY <1>1, <1>3, <1>12, PeerFacts
  <2>3. /\ srv'[z].user = srv[z].user /\ srv'[z].pc = srv[z].pc
        /\ srv'[z].clients = srv[z].clients
    BY <1>7, <1>12, ReplyKept DEF Answers
  <2>4. srv'[z].main = srv[z].main
    <3>1. srv'[z] = [srv[z] EXCEPT !.reply = "CFM"] /\ srv[z] \in ServerStates
      BY <1>7, <1>12, ReplyFacts DEF Answers, WellTyped, TypeOK
    <3> QED
      BY <3>1 DEF ServerStates
  <2>5. \A c : View(z, c)' = View(z, c)
    BY <2>2, <2>3 DEF View
  <2>6. \A n \in Nodes : Serves(z, n)' => Serves(z, n)
    BY <1>5, <2>2, <2>3, <2>4 DEF Serves
  <2>7. AgreeOK(z)'
    BY <1>1, <1>9, <1>12, <2>5, <2>6, AgreeKept DEF Agreed
  <2> QED
    BY <2>1, <2>7
<1> QED
  BY <1>6, <1>10, <1>11, <1>12, NoAdding DEF Agreed

-----------------------------------------------------------------------------
(* Commands.                                                                 *)

LEMMA AddedRecords ==
  ASSUME NEW c, NEW w, NEW n, records' = addClient(c, w, n)
  PROVE  \A k, d, p : Has(k, d, p)' <=>
           Has(k, d, p) \/ (~clientExist(c) /\ k = n /\ d = c /\ p = w)
<1>1. CASE clientExist(c)
  BY <1>1 DEF addClient, Has
<1>2. CASE ~clientExist(c)
  BY <1>2 DEF addClient, Has
<1> QED
  BY <1>1, <1>2

LEMMA ClearedRecords ==
  ASSUME NEW c, records' = removeClient(c)
  PROVE  \A k, d, p : Has(k, d, p)' <=> Has(k, d, p) /\ d # c
  BY DEF removeClient, Has

LEMMA RecordFacts ==
  ASSUME WellTyped, NEW r \in records
  PROVE  r = [name |-> r.name, pwd |-> r.pwd, owner |-> r.owner]
  BY DEF WellTyped, TypeOK

LEMMA ChangedRecords ==
  ASSUME WellTyped, NEW c, NEW w, records' = changePassword(c, w)
  PROVE  \A k, d, p : Has(k, d, p)' <=>
           IF d = c THEN p = w /\ \E q : Has(k, c, q) ELSE Has(k, d, p)
<1> DEFINE Set1(r) == [name |-> r.name, pwd |-> IF r.name = c THEN w ELSE r.pwd, owner |-> r.owner]
<1>1. \A r \in records : [r EXCEPT !.pwd = IF r.name = c THEN w ELSE @] = Set1(r)
  BY DEF WellTyped, TypeOK
<1>2. \A x : x \in records' <=> \E r \in records : x = Set1(r)
  BY <1>1 DEF changePassword
<1>3. ASSUME NEW k, NEW d, NEW p, Has(k, d, p)'
      PROVE  IF d = c THEN p = w /\ \E q : Has(k, c, q) ELSE Has(k, d, p)
  <2>1. PICK r \in records : [name |-> d, pwd |-> p, owner |-> k] = Set1(r)
    BY <1>2, <1>3 DEF Has
  <2>2. r.name = d /\ r.owner = k /\ p = IF r.name = c THEN w ELSE r.pwd
    BY <2>1
  <2>3. Has(k, d, r.pwd)
    BY <2>2, RecordFacts DEF Has
  <2> QED
    BY <2>2, <2>3
<1>4. ASSUME NEW k, NEW d, NEW p, IF d = c THEN p = w /\ \E q : Has(k, c, q) ELSE Has(k, d, p)
      PROVE  Has(k, d, p)'
  <2>1. PICK q : Has(k, d, q) /\ p = IF d = c THEN w ELSE q
    BY <1>4
  <2>2. PICK r \in records : r = [name |-> d, pwd |-> q, owner |-> k]
    BY <2>1 DEF Has
  <2>3. Set1(r) = [name |-> d, pwd |-> p, owner |-> k]
    BY <2>1, <2>2
  <2> QED
    BY <1>2, <2>3 DEF Has
<1> QED
  BY <1>3, <1>4

LEMMA ExistsHas ==
  ASSUME WellTyped, NEW c
  PROVE  clientExist(c) <=> \E k, p : Has(k, c, p)
<1>1. ASSUME clientExist(c) PROVE \E k, p : Has(k, c, p)
  <2>1. PICK r \in records : r.name = c
    BY <1>1 DEF clientExist
  <2>2. Has(r.owner, c, r.pwd)
    BY <2>1, RecordFacts DEF Has
  <2> QED
    BY <2>2
<1>2. ASSUME NEW k, NEW p, Has(k, c, p) PROVE clientExist(c)
  BY <1>2 DEF Has, clientExist
<1> QED
  BY <1>1, <1>2

\* A name of another node than n that a command removes or changes is stolen.
Taken(n, c) == stolen' = stolen \cup
  {r.name : r \in {q \in records : q.name = c /\ q.owner # n}}

LEMMA TakenFacts ==
  ASSUME NEW n, NEW c, Taken(n, c)
  PROVE  stolen \subseteq stolen' /\ \A k, p : k # n /\ Has(k, c, p) => c \in stolen'
  BY DEF Taken, Has

\* A command changes the records of its own node, and others are stolen.
LEMMA MessageRecords ==
  ASSUME WellTyped, NEW a \in Accepts, AcceptMessage(a), NEW n, n = accept[a].node,
         NEW k, k # n
  PROVE  SameHas(k) /\ stolen \subseteq stolen'
<1>1. PICK m : m = accept[a].in
  OBVIOUS
<1>2. CASE m.op \in {"CLS", "RFS"}
  <2>1. UNCHANGED <<records, stolen>>
    BY <1>1, <1>2 DEF AcceptMessage
  <2> QED
    BY <2>1, SameRecords
<1>3. CASE m.op = "ADD"
  <2>1. records' = addClient(m.name, m.pwd, n) /\ stolen' = stolen
    BY <1>1, <1>3 DEF AcceptMessage
  <2> QED
    BY <2>1, AddedRecords DEF SameHas
<1>4. CASE m.op = "RMV"
  <2>1. records' = removeClient(m.name) /\ Taken(n, m.name)
    BY <1>1, <1>4 DEF AcceptMessage, Taken
  <2>2. \A d, p : Has(k, d, p)' <=> Has(k, d, p) /\ d # m.name
    BY <2>1, ClearedRecords
  <2>3. stolen \subseteq stolen' /\ \A p : Has(k, m.name, p) => m.name \in stolen'
    BY <2>1, TakenFacts
  <2> QED
    BY <2>2, <2>3 DEF SameHas
<1>5. CASE m.op = "PWD"
  <2>1. records' = changePassword(m.name, m.pwd) /\ Taken(n, m.name)
    BY <1>1, <1>5 DEF AcceptMessage, Taken
  <2>2. \A d, p : Has(k, d, p)' <=>
          IF d = m.name THEN p = m.pwd /\ \E q : Has(k, m.name, q) ELSE Has(k, d, p)
    BY <2>1, ChangedRecords
  <2>3. stolen \subseteq stolen' /\ \A p : Has(k, m.name, p) => m.name \in stolen'
    BY <2>1, TakenFacts
  <2> QED
    BY <2>2, <2>3 DEF SameHas
<1> QED
  BY <1>1, <1>2, <1>3, <1>4, <1>5 DEF AcceptMessage

\* A command that closes the server.
LEMMA CloseMessageAgree ==
  ASSUME WellTyped, WellTyped', DeadOK, Agreed, NEW a \in Accepts, AcceptMessage(a),
         accept[a].in.op = "CLS"
  PROVE  Agreed'
<1>0. PICK n : n = accept[a].node
  OBVIOUS
<1>1. /\ n \in Nodes /\ \A k \in Nodes : k # n => node'[k] = node[k]
      /\ node'[n] = DestroyedNode(n)
      /\ \A b \in Accepts : /\ accept'[b].node = accept[b].node /\ accept'[b].peer = accept[b].peer
                            /\ b # a => accept'[b].pc = accept[b].pc /\ accept'[b].in = accept[b].in
      /\ accept'[a].pc \in {"run", "clear"} /\ accept'[a].in = None
      /\ UNCHANGED <<lst, backlog>>
  BY <1>0, AcceptMessageFacts DEF AcceptMessage, WellTyped, TypeOK
<1>2. records' = records /\ stolen' = stolen /\ srv' = srv
  BY DEF AcceptMessage
<1>3. /\ PeersOK /\ AddingOK /\ node[n] \in NodeStates
      /\ \A b \in Accepts : accept[b].pc # "none" => accept[b].node \in Nodes
  BY <1>1 DEF Agreed, WellTyped, TypeOK, AcceptsOK
<1>4. /\ node'[n].alive => node[n].alive /\ node'[n].peer \in {node[n].peer, None}
      /\ node'[n].peer # None => node'[n].peer = node[n].peer
      /\ node'[n].of = node[n].of /\ node'[n].pc = node[n].pc
  BY <1>1, <1>3 DEF DestroyedNode, NodeStates
<1>5. \A k : SameHas(k)
  BY <1>2, SameRecords
<1>6. \A b \in Accepts : accept'[b].pc = "remove" => ~node'[accept'[b].node].alive
  BY <1>1, <1>3, <1>4 DEF PeersOK
<1>7. ConnectedKept
  BY <1>1, <1>3, <1>4, <1>5, <1>6 DEF ConnectedKept, PeersOK
<1>8. lst.pc = "add" => lst.node \in Nodes \ {n}
  BY <1>0 DEF DeadOK, FreshOK, WellTyped, ListenOK
<1>9. AddingOK'
  BY <1>1, <1>2, <1>3, <1>5, <1>8, AddingKept
<1> QED
  BY <1>1, <1>2, <1>7, <1>9, SameLines, QuietAgree

\* A command for the node that serves s is the one that its user waits for.
LEMMA OwnCommand ==
  ASSUME WellTyped, Durable, PeersOK, NEW a \in Accepts, accept[a].pc = "run", accept[a].in # None,
         NEW s \in Servers, NEW k \in Nodes, Serves(s, k), accept[a].node = k
  PROVE  accept[a].peer = s /\ srv[s].pc = "up" /\ Commands(s, accept[a].in)
<1>1. node[k].of = s
  BY NoneIsNone DEF Serves, PeersOK
<1>2. OwnedBy(s, a) /\ LinesOK(s)
  BY <1>1 DEF OwnedBy, Durable, ServerOK
<1>3. srv[s].pc \notin {"down", "connect"} /\ (srv[s].pc = "up" => srv[s].user # "none")
  BY DEF Serves
<1> QED
  BY <1>2, <1>3 DEF LinesOK

\* Its answer is in step with what it does to the records.
LEMMA CommandAgree ==
  ASSUME WellTyped, Durable, Agreed, NEW a \in Accepts, AcceptMessage(a), accept[a].in.op # "CLS",
         NEW s \in Servers, NEW n \in Nodes, n = accept[a].node, Serves(s, n),
         NEW c \in Names \ stolen', NEW p \in Pwds
  PROVE  Has(n, c, p)' <=> View(s, c)' = p
<1>1. PICK m : m = accept[a].in
  OBVIOUS
<1>2. accept[a].peer = s /\ Commands(s, m) /\ OrdersOK(s)
  BY <1>1, OwnCommand DEF AcceptMessage, Agreed
<1>3. srv[s] \in ServerStates /\ srv[s].reply = None /\ s # None /\ None # "CFM"
  BY <1>2, NoneIsNone DEF Commands, WellTyped, TypeOK
<1>4. ASSUME NEW r \in Answers, srv' = Reply(accept[a].peer, r)
      PROVE  /\ srv'[s].reply = r /\ srv'[s].user = srv[s].user /\ srv'[s].arg = srv[s].arg
             /\ srv'[s].old = srv[s].old /\ srv'[s].clients = srv[s].clients
  <2>1. srv'[s] = [srv[s] EXCEPT !.reply = r]
    BY <1>2, <1>4, ReplyFacts DEF Peers
  <2> QED
    BY <1>3, <2>1 DEF ServerStates
<1>5. stolen \subseteq stolen' => (Has(n, c, p) <=> View(s, c) = p)
  BY DEF Agreed, AgreeOK
<1>6. CASE m.op = "RFS"
  <2>1. UNCHANGED <<records, stolen>> /\ srv' = Reply(accept[a].peer, "STAT")
    BY <1>1, <1>6 DEF AcceptMessage
  <2>2. srv[s].user = "status"
    BY <1>2, <1>6 DEF Commands
  <2>3. View(s, c)' = View(s, c)
    BY <1>4, <2>1, <2>2 DEF View, Answers
  <2> QED
    BY <1>5, <2>1, <2>3 DEF Has
<1>7. CASE m.op = "ADD"
  <2>1. /\ records' = addClient(m.name, m.pwd, n) /\ stolen' = stolen
        /\ srv' = Reply(accept[a].peer, IF clientExist(m.name) THEN "ERM" ELSE "CFM")
    BY <1>1, <1>7 DEF AcceptMessage
  <2>2. srv[s].user = "adding" /\ m.name = srv[s].arg /\ m.pwd = srv[s].clients[srv[s].arg]
    BY <1>1, <1>2, <1>7, NoneIsNone DEF Commands, OrdersOK, AcceptMessage
  <2>3. Has(n, c, p)' <=> Has(n, c, p) \/ (~clientExist(m.name) /\ c = m.name /\ p = m.pwd)
    BY <2>1, AddedRecords
  <2>4. CASE clientExist(m.name)
    <3>1. View(s, c)' = View(s, c)
      BY <1>3, <1>4, <2>1, <2>2, <2>4 DEF View, Answers
    <3> QED
      BY <1>5, <2>1, <2>3, <2>4, <3>1
  <2>5. CASE ~clientExist(m.name)
    <3>1. View(s, c)' = srv[s].clients[c]
      BY <1>4, <2>1, <2>2, <2>5 DEF View, Answers
    <3>2. View(s, c) = IF c = m.name THEN None ELSE srv[s].clients[c]
      BY <1>3, <2>2 DEF View
    <3> QED
      BY <1>5, <2>1, <2>2, <2>3, <2>5, <3>1, <3>2, NoneIsNone
  <2> QED
    BY <2>4, <2>5
<1>8. CASE m.op = "RMV"
  <2>1. /\ records' = removeClient(m.name) /\ Taken(n, m.name)
        /\ srv' = Reply(accept[a].peer, IF clientExist(m.name) THEN "CFM" ELSE "ERM")
    BY <1>1, <1>8 DEF AcceptMessage, Taken
  <2>2. srv[s].user = "removing" /\ m.name = srv[s].arg
    BY <1>2, <1>8 DEF Commands
  <2>3. Has(n, c, p)' <=> Has(n, c, p) /\ c # m.name
    BY <2>1, ClearedRecords
  <2>4. stolen \subseteq stolen' /\ View(s, c) = srv[s].clients[c]
    BY <1>3, <2>1, <2>2, TakenFacts DEF View
  <2>5. CASE clientExist(m.name)
    <3>1. View(s, c)' = IF c = m.name THEN None ELSE srv[s].clients[c]
      BY <1>4, <2>1, <2>2, <2>5 DEF View, Answers
    <3> QED
      BY <1>5, <2>3, <2>4, <3>1, NoneIsNone
  <2>6. CASE ~clientExist(m.name)
    <3>1. View(s, c)' = srv[s].clients[c]
      BY <1>4, <2>1, <2>2, <2>6 DEF View, Answers
    <3>2. c = m.name => ~Has(n, c, p)
      BY <2>6, ExistsHas
    <3> QED
      BY <1>5, <2>3, <2>4, <3>1, <3>2
  <2> QED
    BY <2>5, <2>6
<1>9. CASE m.op = "PWD"
  <2>1. /\ records' = changePassword(m.name, m.pwd) /\ Taken(n, m.name)
        /\ srv' = Reply(accept[a].peer, IF clientExist(m.name) THEN "CFM" ELSE "BAD")
    BY <1>1, <1>9 DEF AcceptMessage, Taken
  <2>2. srv[s].user = "changing" /\ m.name = srv[s].arg /\ m.pwd = srv[s].clients[srv[s].arg]
    BY <1>1, <1>2, <1>9, NoneIsNone DEF Commands, OrdersOK, AcceptMessage
  <2>3. Has(n, c, p)' <=>
          IF c = m.name THEN p = m.pwd /\ \E q : Has(n, m.name, q) ELSE Has(n, c, p)
    BY <2>1, ChangedRecords
  <2>4. /\ stolen \subseteq stolen'
        /\ \A k, q : k # n /\ Has(k, m.name, q) => m.name \in stolen'
    BY <2>1, TakenFacts
  <2>5. View(s, c) = IF c = m.name THEN srv[s].old ELSE srv[s].clients[c]
    BY <1>3, <2>2 DEF View
  <2>6. CASE clientExist(m.name)
    <3>1. View(s, c)' = srv[s].clients[c]
      BY <1>4, <2>1, <2>2, <2>6 DEF View, Answers
    <3>2. c = m.name => \E q : Has(n, m.name, q)
      BY <2>4, <2>6, ExistsHas
    <3> QED
      BY <1>5, <2>2, <2>3, <2>4, <2>5, <3>1, <3>2
  <2>7. CASE ~clientExist(m.name)
    <3>1. View(s, c)' = View(s, c)
      BY <1>4, <2>1, <2>2, <2>5, <2>7 DEF View, Answers
    <3>2. \A q : ~Has(n, m.name, q)
      BY <2>7, ExistsHas
    <3> QED
      BY <1>5, <2>3, <2>4, <3>1, <3>2
  <2> QED
    BY <2>6, <2>7
<1> QED
  BY <1>1, <1>6, <1>7, <1>8, <1>9 DEF AcceptMessage

LEMMA AcceptMessageAgree ==
  ASSUME WellTyped, WellTyped', DeadOK, Durable, Agreed, NEW a \in Accepts, AcceptMessage(a)
  PROVE  Agreed'
<1> SUFFICES ASSUME accept[a].in.op # "CLS" PROVE Agreed'
  BY CloseMessageAgree
<1>0. PICK n : n = accept[a].node
  OBVIOUS
<1>1. /\ n \in Nodes /\ node' = node
      /\ \A b \in Accepts : /\ accept'[b].node = accept[b].node /\ accept'[b].peer = accept[b].peer
                            /\ b # a => accept'[b].pc = accept[b].pc /\ accept'[b].in = accept[b].in
      /\ accept'[a].pc \in {"run", "clear"} /\ accept'[a].in = None
      /\ UNCHANGED <<lst, backlog>>
  BY <1>0, AcceptMessageFacts DEF AcceptMessage
<1>2. /\ \A k : k # n => SameHas(k)
      /\ stolen \subseteq stolen'
  <2>1. PICK k : k # n
    BY <1>1, NoneIsNone
  <2> QED
    BY <1>0, <2>1, MessageRecords
<1>3. PICK r \in Answers : srv' = Reply(accept[a].peer, r)
  BY DEF AcceptMessage, Answers
<1>4. PeersOK /\ AddingOK /\ accept[a].peer \in Peers /\ accept[a] \in AcceptStates
  BY DEF Agreed, WellTyped, TypeOK, AcceptStates
<1>5. PeersOK'
  BY <1>1, <1>4 DEF PeersOK
<1>6. AddingOK'
  <2>1. lst.pc = "add" => lst.node \in Nodes \ {n}
    BY <1>0 DEF DeadOK, FreshOK, WellTyped, ListenOK
  <2> QED
    BY <1>1, <1>2, <1>4, <2>1, AddingKept
<1>7. ASSUME NEW s \in Servers PROVE EntriesOK(s)' /\ OrdersOK(s)' /\ AgreeOK(s)'
  <2>1. /\ EntriesOK(s) /\ OrdersOK(s) /\ AgreeOK(s) /\ AcceptsFor(s) /\ LinesFor(s)
    BY <1>1, SameLines DEF Agreed, AcceptsFor
  <2>2. /\ s # accept[a].peer => srv'[s] = srv[s]
        /\ srv'[s].pc = srv[s].pc /\ srv'[s].user = srv[s].user /\ srv'[s].arg = srv[s].arg
        /\ srv'[s].clients = srv[s].clients
    BY <1>3, <1>4, ReplyKept
  <2>3. srv'[s].main = srv[s].main
    <3>1. srv'[s] = IF s = accept[a].peer THEN [srv[s] EXCEPT !.reply = r] ELSE srv[s]
      BY <1>3, <1>4, ReplyFacts
    <3>2. srv[s] \in ServerStates
      BY DEF WellTyped, TypeOK
    <3> QED
      BY <3>1, <3>2 DEF ServerStates
  <2>4. EntriesOK(s)' /\ OrdersOK(s)'
    <3>1. EntriesOK(s)'
      BY <2>1, <2>2, EntriesKept
    <3>2. CASE s # accept[a].peer
      BY <2>1, <2>2, <3>1, <3>2, OrdersKept
    <3>3. CASE s = accept[a].peer
      <4>1. \A b \in Accepts : accept'[b].peer = s => accept'[b].in = None
        BY <1>1, <3>3 DEF Durable, ServerOK, LinesOK
      <4> QED
        BY <3>1, <4>1 DEF OrdersOK
    <3> QED
      BY <3>2, <3>3
  <2>5. s = accept[a].peer => srv[s].pc = "up"
    BY DEF Durable, ServerOK, LinesOK, AcceptMessage
  <2>6. ASSUME NEW k \in Nodes, Serves(s, k)' PROVE Serves(s, k)
    <3>1. \A b \in Accepts : accept'[b].peer = accept[b].peer /\ accept'[b].node = accept[b].node
      BY <1>1
    <3> QED
      BY <1>1, <2>2, <2>3, <2>5, <2>6, <3>1 DEF Serves
  <2>7. ASSUME NEW k \in Nodes, Serves(s, k), NEW c \in Names \ stolen', NEW p \in Pwds
        PROVE  Has(k, c, p)' <=> View(s, c)' = p
    <3>1. CASE k = n
      BY <1>0, <2>7, <3>1, CommandAgree
    <3>2. CASE k # n
      <4>1. s # accept[a].peer
        <5> SUFFICES ASSUME s = accept[a].peer PROVE FALSE
          OBVIOUS
        <5>1. LinesOK(s) /\ srv[s].pc = "up"
          BY <2>5 DEF Durable, ServerOK
        <5>2. PICK b \in Accepts : accept[b].peer = s /\ accept[b].node = k
          BY <2>7, <5>1 DEF Serves
        <5>3. b = a
          BY <5>1, <5>2 DEF LinesOK
        <5> QED
          BY <1>0, <3>2, <5>2, <5>3
      <4>2. View(s, c)' = View(s, c)
        BY <2>2, <4>1 DEF View
      <4>3. Has(k, c, p) <=> View(s, c) = p
        BY <1>2, <2>1, <2>7 DEF AgreeOK
      <4>4. Has(k, c, p)' <=> Has(k, c, p)
        BY <1>2, <3>2 DEF SameHas
      <4> QED
        BY <4>2, <4>3, <4>4
    <3> QED
      BY <3>1, <3>2
  <2>8. AgreeOK(s)'
    BY <2>6, <2>7 DEF AgreeOK
  <2> QED
    BY <2>4, <2>8
<1> QED
  BY <1>5, <1>6, <1>7 DEF Agreed

-----------------------------------------------------------------------------
(* Steps of a file server.                                                   *)

\* What a step of server z, or a fault of its own, may change.
OwnAside(z) ==
  /\ Aside /\ stolen' = stolen /\ lst'.todo = lst.todo
  /\ \A s \in Servers : s # z => srv'[s] = srv[s]
  /\ lst.pc \in {"find", "add"} =>
       /\ lst'.msg.kind = lst.msg.kind /\ lst'.msg.entries = lst.msg.entries
       /\ lst'.msg.peer \in {lst.msg.peer, None}
  /\ \A i \in DOMAIN backlog' : backlog'[i].peer \in {z, None} \/ OldLine(backlog'[i])
  /\ \A a \in Accepts : accept'[a].peer \notin {z, None} => accept'[a].in = accept[a].in

\* No server is at the end of a connection that was not there.
LEMMA AsideNodes ==
  ASSUME WellTyped, PeersOK, Aside, stolen' = stolen
  PROVE  PeersOK' /\ \A s \in Servers : NodesFor(s)
<1>1. ASSUME NEW k \in Nodes
      PROVE  /\ node'[k].alive = node[k].alive /\ node'[k].of = node[k].of /\ node'[k].pc = node[k].pc
             /\ node'[k].peer \in {node[k].peer, None}
  <2>1. node[k] \in NodeStates /\ (node'[k] = node[k] \/ node'[k] = [node[k] EXCEPT !.peer = None])
    BY DEF WellTyped, TypeOK, Aside
  <2> QED
    BY <2>1 DEF NodeStates
<1>2. \A k : SameHas(k)
  BY SameRecords DEF Aside
<1>3. \A a \in Accepts : accept[a].pc = "remove" => accept[a].node \in Nodes
  BY DEF WellTyped, AcceptsOK
<1>4. PeersOK'
  BY <1>1, <1>3 DEF PeersOK, Aside
<1>5. \A s \in Servers : NodesFor(s)
  BY <1>1, <1>2, NoneIsNone DEF NodesFor
<1> QED
  BY <1>4, <1>5

\* Such a step leaves what is known of the other servers.
LEMMA OthersAgree ==
  ASSUME WellTyped, Agreed, NEW z \in Servers, OwnAside(z),
         EntriesOK(z)', OrdersOK(z)', AgreeOK(z)'
  PROVE  Agreed'
<1>1. PeersOK /\ AddingOK /\ Aside /\ stolen' = stolen
  BY DEF Agreed, OwnAside
<1>2. PeersOK' /\ \A s \in Servers : NodesFor(s)
  BY <1>1, AsideNodes
<1>3. AddingOK'
  <2>1. SameHas(lst.node) /\ lst'.pc = lst.pc /\ lst'.node = lst.node /\ lst'.todo = lst.todo
    BY <1>1, SameRecords DEF Aside, OwnAside
  <2>2. CASE lst.pc = "add"
    <3>1. lst.node \in Nodes /\ lst'.msg.entries = lst.msg.entries
      BY <2>2 DEF WellTyped, ListenOK, OwnAside
    <3>2. node'[lst.node].peer \in {node[lst.node].peer, None}
      BY <1>1, <3>1 DEF Aside, WellTyped, TypeOK, NodeStates
    <3> QED
      BY <1>1, <2>1, <3>1, <3>2, AddingKept
  <2> QED
    BY <2>1, <2>2, NoAdding
<1>4. ASSUME NEW s \in Servers, s # z PROVE EntriesOK(s)' /\ OrdersOK(s)' /\ AgreeOK(s)'
  <2>1. srv'[s] = srv[s] /\ s # None
    BY <1>4, NoneIsNone DEF OwnAside
  <2>2. AcceptsFor(s)
    BY <1>1, <1>4, <2>1 DEF AcceptsFor, Aside, OwnAside
  <2>3. LinesFor(s)
    <3>1. \A i \in DOMAIN backlog' : backlog'[i].peer = s => OldLine(backlog'[i])
      BY <1>4, <2>1 DEF OwnAside
    <3>2. lst'.pc \in {"find", "add"} /\ lst'.msg.peer = s => OldLine(lst'.msg)
      BY <1>1, <2>1 DEF OwnAside, Aside, OldLine
    <3> QED
      BY <3>1, <3>2 DEF LinesFor
  <2> QED
    BY <1>1, <1>2, <2>1, <2>2, <2>3, KeptServer DEF Agreed
<1> QED
  BY <1>2, <1>3, <1>4 DEF Agreed

\* z has ended, or is about to connect.
LEMMA RestartAgree ==
  ASSUME WellTyped, Durable', Agreed, NEW z \in Servers, OwnAside(z),
         srv'[z].pc \in {"down", "connect"}
  PROVE  Agreed'
<1>1. QueueOK(z)' /\ LinesOK(z)'
  BY DEF Durable, ServerOK
<1>2. EntriesOK(z)'
  <2>1. \A m : ~Waits(z, m)'
    BY DEF Waits
  <2> QED
    BY <1>1, <2>1 DEF QueueOK, EntriesOK, Reading
<1>3. OrdersOK(z)' /\ AgreeOK(z)'
  BY <1>1 DEF LinesOK, OrdersOK, AgreeOK, Serves
<1> QED
  BY <1>2, <1>3, OthersAgree

LEMMA QuietOwn ==
  ASSUME NEW z \in Servers, UNCHANGED <<records, node, accept, lst, backlog, stolen>>,
         \A s \in Servers : s # z => srv'[s] = srv[s]
  PROVE  OwnAside(z)
  BY DEF OwnAside, Aside, OldLine

LEMMA SetOthers ==
  ASSUME WellTyped, NEW z \in Servers, NEW v, Set(z, v)
  PROVE  srv'[z] = v /\ \A s \in Servers : s # z => srv'[s] = srv[s]
  BY DEF WellTyped, TypeOK, Set

LEMMA FailOwn ==
  ASSUME WellTyped, NEW z \in Servers, FailConnect(z)
  PROVE  OwnAside(z) /\ srv'[z].pc \in {"down", "connect"}
<1>1. Aside /\ stolen' = stolen /\ lst' = lst /\ srv'[z] = Retry(srv[z])
      /\ \A s \in Servers : s # z => srv'[s] = srv[s]
  BY FailConnectAside, SetOthers DEF FailConnect
<1>2. srv'[z].pc \in {"down", "connect"}
  BY <1>1 DEF Retry, Off, WellTyped, TypeOK, ServerStates
<1>3. CASE srv[z].tries + 1 = MAX_TRY
  <2>1. /\ CloseUser(z)
        /\ backlog' = [i \in DOMAIN backlog |-> [backlog[i] EXCEPT !.peer = Hang(@, z)]]
    BY <1>3 DEF FailConnect
  <2>2. \A i \in DOMAIN backlog' : backlog'[i].peer \in {z, None} \/ OldLine(backlog'[i])
    BY <2>1, HungLines DEF OldLine
  <2>3. \A a \in Accepts : accept'[a].in = accept[a].in
    BY <2>1, CloseFacts
  <2> QED
    BY <1>1, <1>2, <2>2, <2>3 DEF OwnAside
<1>4. CASE srv[z].tries + 1 # MAX_TRY
  <2>1. backlog' = backlog /\ accept' = accept
    BY <1>4 DEF FailConnect
  <2> QED
    BY <1>1, <1>2, <2>1 DEF OwnAside, OldLine
<1> QED
  BY <1>3, <1>4

LEMMA EndOwn ==
  ASSUME WellTyped, NEW z \in Servers, Crash(z) \/ CmdClose(z)
  PROVE  OwnAside(z) /\ srv'[z].pc \in {"down", "connect"}
<1>1. /\ EndProcess(z) /\ Aside
      /\ CloseUser(z) \/ \E m : accept' = [a \in Accepts |-> IF a \in Line(z)
          THEN [accept[a] EXCEPT !.in = m, !.peer = None] ELSE accept[a]]
  <2>1. FaultStep
    BY DEF FaultStep
  <2>2. ~MasterCrash
    <3>1. srv[z].pc # "down" /\ srv'[z] = Off(srv[z].file, srv[z].dir)
      BY SetOthers DEF Crash, CmdClose, EndProcess
    <3>2. srv' # srv
      BY <3>1 DEF Off
    <3> QED
      BY <3>2 DEF MasterCrash, serverVars
  <2>3. Aside
    BY <2>1, <2>2, FaultAside
  <2> QED
    BY <2>3 DEF Crash, CmdClose
<1>2. /\ stolen' = stolen /\ srv'[z] = Off(srv[z].file, srv[z].dir)
      /\ \A s \in Servers : s # z => srv'[s] = srv[s]
  BY <1>1, SetOthers DEF EndProcess
<1>3. srv'[z].pc = "down"
  BY <1>2 DEF Off
<1>4. \A i \in DOMAIN backlog' : backlog'[i].peer \in {z, None} \/ OldLine(backlog'[i])
  BY <1>1, HungLines DEF EndProcess, OldLine
<1>5. \A a \in Accepts : accept'[a].peer \notin {z, None} => accept'[a].in = accept[a].in
  <2>1. CASE CloseUser(z)
    BY <2>1, CloseFacts
  <2>2. ASSUME NEW m, accept' = [a \in Accepts |-> IF a \in Line(z)
          THEN [accept[a] EXCEPT !.in = m, !.peer = None] ELSE accept[a]],
               NEW a \in Accepts, accept'[a].peer \notin {z, None}
        PROVE  accept'[a].in = accept[a].in
    <3>1. accept[a] \in AcceptStates
      BY DEF WellTyped, TypeOK
    <3>2. a \notin Line(z)
      BY <2>2, <3>1 DEF AcceptStates
    <3> QED
      BY <2>2, <3>2
  <2> QED
    BY <1>1, <2>1, <2>2
<1>6. lst'.todo = lst.todo
  BY <1>1 DEF EndProcess, WellTyped, TypeOK, ListenStates
<1>7. lst.pc \in {"find", "add"} =>
        /\ lst'.msg.kind = lst.msg.kind /\ lst'.msg.entries = lst.msg.entries
        /\ lst'.msg.peer \in {lst.msg.peer, None}
  <2> SUFFICES ASSUME lst.pc \in {"find", "add"}
               PROVE  /\ lst'.msg.kind = lst.msg.kind /\ lst'.msg.entries = lst.msg.entries
                      /\ lst'.msg.peer \in {lst.msg.peer, None}
    OBVIOUS
  <2>1. lst.msg \in Lines /\ lst.msg # None /\ lst \in ListenStates
    BY ClusterAssumption DEF WellTyped, TypeOK, ListenOK
  <2>2. lst'.msg = [lst.msg EXCEPT !.peer = Hang(@, z)]
    BY <1>1, <2>1 DEF EndProcess, ListenStates
  <2> QED
    BY <2>1, <2>2 DEF Lines, Hang
<1> QED
  BY <1>1, <1>2, <1>3, <1>4, <1>5, <1>6, <1>7 DEF OwnAside

\* A server sends its first line on a new connection.
LEMMA SendOwn ==
  ASSUME WellTyped, NEW z \in Servers, NEW kind, Send(z, kind),
         UNCHANGED <<records, node, accept, lst, stolen>>,
         \A s \in Servers : s # z => srv'[s] = srv[s]
  PROVE  /\ OwnAside(z)
         /\ \A i \in DOMAIN backlog' :
              \/ i \in DOMAIN backlog /\ backlog'[i] = backlog[i]
              \/ /\ backlog'[i].kind = kind
                 /\ backlog'[i].entries = IF kind = "IDF" THEN srv[z].clients ELSE NoClients
<1>1. PICK m : m = [kind |-> kind, peer |-> z, id |-> z,
                    entries |-> IF kind = "IDF" THEN srv[z].clients ELSE NoClients]
  OBVIOUS
<1>2. backlog' = Append(backlog, m) /\ backlog \in Seq(Lines)
  BY <1>1 DEF Send, WellTyped, TypeOK
<1>3. \A i \in DOMAIN backlog' :
        \/ i \in DOMAIN backlog /\ backlog'[i] = backlog[i]
        \/ backlog'[i] = m
  BY <1>2
<1>4. \A i \in DOMAIN backlog' : backlog'[i].peer \in {z, None} \/ OldLine(backlog'[i])
  BY <1>1, <1>3 DEF OldLine
<1>5. OwnAside(z)
  BY <1>4 DEF OwnAside, Aside
<1> QED
  BY <1>1, <1>3, <1>5

LEMMA MainThreadAgree ==
  ASSUME WellTyped, Durable, Durable', Agreed, stolen' = stolen, NEW z \in Servers,
         \/ Boot(z) \/ ConnectMain(z) \/ ConnectUser(z) \/ ConnectRefused(z)
         \/ Registered(z) \/ Broken(z)
  PROVE  Agreed'
<1>1. /\ srv[z] \in ServerStates /\ QueueOK(z) /\ LinesOK(z) /\ UserOK(z)
      /\ QueueOK(z)' /\ LinesOK(z)' /\ EntriesOK(z) /\ AgreeOK(z)
  BY DEF WellTyped, TypeOK, Durable, ServerOK, Agreed
<1>2. CASE FailConnect(z)
  BY <1>2, FailOwn, RestartAgree
<1>3. CASE Boot(z)
  <2>1. /\ UNCHANGED <<records, node, accept, lst, backlog>> /\ srv'[z].pc = "connect"
        /\ \A s \in Servers : s # z => srv'[s] = srv[s]
    <3>1. srv \in [Servers -> ServerStates]
      BY DEF WellTyped, TypeOK
    <3> QED
      BY <1>1, <1>3, <3>1 DEF Boot, Set, masterVars, ServerStates
  <2> QED
    BY <2>1, QuietOwn, RestartAgree
<1>4. CASE Broken(z)
  <2>1. /\ UNCHANGED <<records, node, lst, backlog>> /\ srv'[z].pc = "connect" /\ CloseUser(z)
        /\ \A s \in Servers : s # z => srv'[s] = srv[s]
    <3>1. srv \in [Servers -> ServerStates]
      BY DEF WellTyped, TypeOK
    <3> QED
      BY <1>1, <1>4, <3>1 DEF Broken, Set, ServerStates
  <2>2. OwnAside(z)
    BY <2>1, CloseFacts DEF OwnAside, Aside, OldLine, Hang
  <2> QED
    BY <2>1, <2>2, RestartAgree
<1>5. CASE ConnectMain(z) /\ ~FailConnect(z)
  <2>1. /\ Send(z, "IDF") /\ UNCHANGED <<records, node, accept, lst>>
        /\ srv'[z] = [srv[z] EXCEPT !.pc = "idf", !.reply = None]
        /\ \A s \in Servers : s # z => srv'[s] = srv[s]
        /\ srv[z].pc = "connect"
    BY <1>5, SetOthers DEF ConnectMain
  <2>2. srv'[z].pc = "idf" /\ srv'[z].reply # "CFM" /\ srv'[z].clients = srv[z].clients
    BY <1>1, <2>1, NoneIsNone DEF ServerStates
  <2>3. /\ OwnAside(z)
        /\ \A i \in DOMAIN backlog' :
             \/ i \in DOMAIN backlog /\ backlog'[i] = backlog[i]
             \/ backlog'[i].entries = srv[z].clients
    BY <2>1, SendOwn
  <2>4. EntriesOK(z)'
    <3>1. (\A i \in DOMAIN backlog : backlog[i].peer # z) /\ (Reading => lst.msg.peer # z)
      BY <2>1, QuietServer
    <3> QED
      BY <2>1, <2>2, <2>3, <3>1 DEF EntriesOK, Reading
  <2>5. OrdersOK(z)' /\ AgreeOK(z)'
    BY <1>1, <2>2 DEF LinesOK, OrdersOK, AgreeOK, Serves
  <2> QED
    BY <2>3, <2>4, <2>5, OthersAgree
<1>6. CASE ConnectUser(z) /\ ~FailConnect(z)
  <2>1. /\ Send(z, "USR") /\ UNCHANGED <<records, node, accept, lst>>
        /\ srv'[z] = [srv[z] EXCEPT !.pc = "usr", !.reply = None]
        /\ \A s \in Servers : s # z => srv'[s] = srv[s]
        /\ srv[z].pc = "idf" /\ srv[z].reply = "CFM"
    BY <1>6, SetOthers DEF ConnectUser
  <2>2. /\ srv'[z].pc = "usr" /\ srv'[z].clients = srv[z].clients /\ srv'[z].main = srv[z].main
        /\ srv'[z].user = "none" /\ srv[z].user = "none"
    BY <1>1, <2>1 DEF ServerStates, UserOK
  <2>3. OwnAside(z)
    BY <2>1, SendOwn
  <2>4. EntriesOK(z)'
    BY <1>1, <2>2 DEF EntriesOK, QueueOK, Waits, Reading
  <2>5. OrdersOK(z)'
    BY <2>2 DEF OrdersOK
  <2>6. \A c : View(z, c)' = View(z, c)
    BY <2>2 DEF View
  <2>7. \A n \in Nodes : Serves(z, n)' => Serves(z, n)
    BY <2>1, <2>2 DEF Serves
  <2>8. NodesFor(z)
    BY <2>3, AsideNodes DEF Agreed, OwnAside
  <2>9. AgreeOK(z)'
    BY <1>1, <2>6, <2>7, <2>8, AgreeKept
  <2> QED
    BY <2>3, <2>4, <2>5, <2>9, OthersAgree
<1>7. CASE Registered(z)
  <2>1. /\ UNCHANGED <<records, node, accept, lst, backlog>>
        /\ srv'[z] = [srv[z] EXCEPT !.pc = "up", !.tries = 0, !.reply = None, !.user = "idle"]
        /\ \A s \in Servers : s # z => srv'[s] = srv[s]
        /\ srv[z].pc = "usr"
    BY <1>7, SetOthers DEF Registered, masterVars
  <2>2. /\ srv'[z].pc = "up" /\ srv'[z].clients = srv[z].clients /\ srv'[z].main = srv[z].main
        /\ srv'[z].user = "idle" /\ srv[z].user = "none"
    BY <1>1, <2>1 DEF ServerStates, UserOK
  <2>3. OwnAside(z)
    BY <2>1, QuietOwn
  <2>4. EntriesOK(z)'
    BY <1>1, <2>2 DEF EntriesOK, QueueOK, Waits, Reading
  <2>5. OrdersOK(z)'
    BY <1>1, <2>1 DEF OrdersOK, LinesOK
  <2>6. \A c : View(z, c)' = View(z, c)
    BY <2>2 DEF View
  <2>7. \A n \in Nodes : Serves(z, n)' => Serves(z, n)
    BY <2>1, <2>2 DEF Serves
  <2>8. NodesFor(z)
    BY <2>3, AsideNodes DEF Agreed, OwnAside
  <2>9. AgreeOK(z)'
    BY <1>1, <2>6, <2>7, <2>8, AgreeKept
  <2> QED
    BY <2>3, <2>4, <2>5, <2>9, OthersAgree
<1> QED
  BY <1>2, <1>3, <1>4, <1>5, <1>6, <1>7 DEF ConnectRefused

-----------------------------------------------------------------------------
(* The user thread.                                                          *)

\* A step of the user thread of z keeps what the master is to have, or ends it.
LEMMA UserAgree ==
  ASSUME WellTyped, Durable, Agreed, NEW z \in Servers,
         UNCHANGED <<records, node, lst, backlog, stolen>>,
         srv[z].pc = "up", srv'[z].pc = "up", srv'[z].main = srv[z].main,
         \A s \in Servers : s # z => srv'[s] = srv[s],
         \A a \in Accepts :
           /\ accept'[a].pc = accept[a].pc /\ accept'[a].node = accept[a].node
           /\ accept'[a].peer = accept[a].peer
           /\ accept[a].peer # z => accept'[a].in = accept[a].in,
         OrdersOK(z)',
         srv'[z].user # "none" =>
           srv[z].user # "none" /\ \A c \in Names : View(z, c)' = View(z, c)
  PROVE  Agreed'
<1>1. OwnAside(z)
  BY DEF OwnAside, Aside, OldLine
<1>2. EntriesOK(z)'
  <2>1. (\A i \in DOMAIN backlog : backlog[i].peer # z) /\ (Reading => lst.msg.peer # z)
    BY QuietServer
  <2> QED
    BY <2>1 DEF EntriesOK, Reading
<1>3. NodesFor(z)
  BY <1>1, AsideNodes DEF Agreed, OwnAside
<1>4. AgreeOK(z)'
  <2>1. CASE srv'[z].user = "none"
    BY <2>1 DEF AgreeOK, Serves
  <2>2. CASE srv'[z].user # "none"
    <3>1. \A n \in Nodes : Serves(z, n)' => Serves(z, n)
      BY <2>2 DEF Serves
    <3> QED
      BY <1>3, <2>2, <3>1, AgreeKept DEF Agreed
  <2> QED
    BY <2>1, <2>2
<1> QED
  BY <1>1, <1>2, <1>4, OthersAgree

\* A user thread that waits for no answer has sent nothing.
LEMMA NoOrders ==
  ASSUME Agreed, NEW z \in Servers, srv[z].user # "none",
         \/ srv[z].user \notin {"status", "adding", "removing", "changing"}
         \/ srv[z].reply # None
  PROVE  \A a \in Accepts : accept[a].peer = z => accept[a].in = None
  BY DEF Agreed, OrdersOK, Commands

LEMMA OwnAgree ==
  ASSUME WellTyped, Durable, Agreed, NEW z \in Servers,
         UNCHANGED <<records, node, accept, lst, backlog, stolen>>,
         NEW v, Set(z, v), srv[z].pc = "up", v.pc = "up", v.main = srv[z].main,
         \/ v.user = "none"
         \/ /\ srv[z].user # "none"
            /\ \/ srv[z].user \notin {"status", "adding", "removing", "changing"}
               \/ srv[z].reply # None
            /\ \A c \in Names : View(z, c)' = View(z, c)
  PROVE  Agreed'
<1>1. srv'[z] = v /\ \A s \in Servers : s # z => srv'[s] = srv[s]
  BY SetOthers
<1>2. OrdersOK(z)'
  <2>1. CASE v.user = "none"
    BY <1>1, <2>1 DEF OrdersOK
  <2>2. CASE v.user # "none"
    BY <2>2, NoOrders DEF OrdersOK
  <2> QED
    BY <2>1, <2>2
<1> QED
  BY <1>1, <1>2, UserAgree

\* The user thread writes m and waits, or finds its connection broken.
LEMMA AskAgree ==
  ASSUME WellTyped, Durable, Agreed, NEW z \in Servers,
         UNCHANGED <<records, node, lst, backlog, stolen>>,
         srv[z].pc = "up", srv[z].user \in {"idle", "made"},
         NEW v \in ServerStates, v.pc = "up", v.reply = srv[z].reply, v.main = srv[z].main,
         NEW m, NEW st, Ask(z, v, m, st),
         \/ m.op = "ADD" /\ st = "adding" /\ m.name = v.arg /\ m.pwd = v.clients[v.arg]
         \/ m.op = "RMV" /\ st = "removing" /\ m.name = v.arg
         \/ m.op = "PWD" /\ st = "changing" /\ m.name = v.arg /\ m.pwd = v.clients[v.arg]
         \/ m.op = "RFS" /\ st = "status",
         \A c \in Names : View(z, c) =
           IF c = v.arg /\ st = "adding" THEN None
           ELSE IF c = v.arg /\ st = "changing" THEN v.old ELSE v.clients[c]
  PROVE  Agreed'
<1>1. srv[z].reply = None /\ None # "CFM"
  BY NoneIsNone DEF Durable, ServerOK, UserOK
<1>2. ASSUME NEW a \in Accepts
      PROVE  /\ accept'[a].pc = accept[a].pc /\ accept'[a].node = accept[a].node
             /\ accept'[a].peer = accept[a].peer
             /\ accept'[a].in = IF accept[a].peer = z THEN m ELSE accept[a].in
  <2>1. accept[a] \in AcceptStates /\ accept \in [Accepts -> AcceptStates]
    BY DEF WellTyped, TypeOK
  <2>2. accept'[a] = IF accept[a].peer = z THEN [accept[a] EXCEPT !.in = m] ELSE accept[a]
    BY <2>1 DEF Ask, Line
  <2> QED
    BY <2>1, <2>2 DEF AcceptStates
<1>3. CASE Line(z) = {}
  <2>1. /\ srv'[z] = [v EXCEPT !.user = "none", !.arg = None, !.old = None]
        /\ \A s \in Servers : s # z => srv'[s] = srv[s]
    BY <1>3, SetOthers DEF Ask
  <2>2. srv'[z].user = "none" /\ srv'[z].pc = "up" /\ srv'[z].main = srv[z].main
    BY <2>1 DEF ServerStates
  <2>3. OrdersOK(z)'
    BY <2>2 DEF OrdersOK
  <2> QED
    BY <1>2, <2>1, <2>2, <2>3, UserAgree
<1>4. CASE Line(z) # {}
  <2>1. /\ srv'[z] = [v EXCEPT !.user = st]
        /\ \A s \in Servers : s # z => srv'[s] = srv[s]
    BY <1>4, SetOthers DEF Ask
  <2>2. /\ srv'[z].user = st /\ srv'[z].pc = "up" /\ srv'[z].main = srv[z].main
        /\ srv'[z].reply = None /\ srv'[z].arg = v.arg /\ srv'[z].old = v.old
        /\ srv'[z].clients = v.clients
    BY <1>1, <2>1 DEF ServerStates
  <2>3. OrdersOK(z)'
    <3> SUFFICES ASSUME NEW a \in Accepts, accept'[a].peer = z
                 PROVE  /\ Commands(z, accept[a].in)'
                        /\ accept'[a].in.op = "ADD" => accept'[a].in.pwd = srv'[z].clients[srv'[z].arg]
                        /\ accept'[a].in.op = "PWD" => /\ accept'[a].in.name = srv'[z].arg
                                                       /\ accept'[a].in.pwd = srv'[z].clients[srv'[z].arg]
      BY DEF OrdersOK
    <3>1. accept'[a].in = m
      BY <1>2
    <3>2. Commands(z, accept[a].in)'
      BY <2>2, <3>1 DEF Commands
    <3> QED
      BY <2>2, <3>1, <3>2
  <2>4. \A c \in Names : View(z, c)' = View(z, c)
    BY <1>1, <2>2 DEF View
  <2>5. srv[z].user # "none"
    OBVIOUS
  <2> QED
    BY <1>2, <2>1, <2>2, <2>3, <2>4, <2>5, UserAgree
<1> QED
  BY <1>3, <1>4

LEMMA CommandStepsAgree ==
  ASSUME WellTyped, Durable, Agreed, stolen' = stolen, NEW z \in Servers,
         \/ CmdStatus(z) \/ AddAsk(z)
         \/ \E c \in Names : CmdRemove(z, c) \/ ClientStores(z, c)
                             \/ \E p \in Pwds : CmdAdd(z, c, p) \/ CmdPassword(z, c, p)
  PROVE  Agreed'
<1>1. /\ UserOK(z) /\ srv[z] \in ServerStates /\ srv[z].clients \in Clients
  BY DEF Durable, ServerOK, WellTyped, TypeOK, ServerStates
<1>2. srv[z].user \in {"idle", "made"} => \A c \in Names : View(z, c) = srv[z].clients[c]
  BY DEF View
<1>3. CASE CmdStatus(z)
  <2>1. /\ srv[z].pc = "up" /\ srv[z].user = "idle" /\ UNCHANGED <<records, node, lst, backlog>>
        /\ Ask(z, srv[z], Message("RFS", None, None), "status")
    BY <1>3 DEF CmdStatus, Typed
  <2>2. Message("RFS", None, None).op = "RFS"
    BY DEF Message
  <2> QED
    BY <1>1, <1>2, <2>1, <2>2, AskAgree
<1>4. CASE AddAsk(z)
  <2> DEFINE v == [srv[z] EXCEPT !.clients[srv[z].arg] = srv[z].old, !.file[srv[z].arg] = srv[z].old]
             m == Message("ADD", srv[z].arg, srv[z].old)
  <2>1. /\ srv[z].pc = "up" /\ srv[z].user = "made" /\ UNCHANGED <<records, node, lst, backlog>>
        /\ Ask(z, v, m, "adding")
    BY <1>1, <1>4 DEF AddAsk, UserOK
  <2>2. srv[z].arg \in Names /\ srv[z].old \in Pwds
    BY <2>1 DEF WellTyped, UsersOK
  <2>3. /\ v \in ServerStates /\ v.pc = srv[z].pc /\ v.reply = srv[z].reply /\ v.arg = srv[z].arg
        /\ v.clients = [srv[z].clients EXCEPT ![srv[z].arg] = srv[z].old] /\ v.main = srv[z].main
    BY <1>1, <2>2 DEF ServerStates, Clients
  <2>4. m.op = "ADD" /\ m.name = srv[z].arg /\ m.pwd = srv[z].old
    BY DEF Message
  <2> HIDE DEF v, m
  <2>5. m.name = v.arg /\ m.pwd = v.clients[v.arg] /\ v.pc = "up" /\ srv[z].user \in {"idle", "made"}
    BY <1>1, <2>1, <2>2, <2>3, <2>4 DEF Clients
  <2>6. \A c \in Names : View(z, c) = IF c = v.arg THEN None ELSE v.clients[c]
    <3>1. srv[z].clients[srv[z].arg] = None
      BY <1>1, <2>1 DEF UserOK
    <3> QED
      BY <1>1, <1>2, <2>1, <2>3, <3>1 DEF Clients
  <2> QED
    BY <2>1, <2>3, <2>4, <2>5, <2>6, AskAgree
<1>5. ASSUME NEW c \in Names, CmdRemove(z, c) PROVE Agreed'
  <2> DEFINE v == [srv[z] EXCEPT !.arg = c]
             m == Message("RMV", c, None)
  <2>1. /\ srv[z].pc = "up" /\ srv[z].user = "idle" /\ UNCHANGED <<records, node, lst, backlog>>
        /\ Ask(z, v, m, "removing")
    BY <1>5 DEF CmdRemove, Typed
  <2>2. /\ v \in ServerStates /\ v.pc = srv[z].pc /\ v.reply = srv[z].reply /\ v.arg = c
        /\ v.clients = srv[z].clients /\ v.main = srv[z].main
    BY <1>1 DEF ServerStates
  <2>3. m.op = "RMV" /\ m.name = c
    BY DEF Message
  <2> HIDE DEF v, m
  <2> QED
    BY <1>2, <2>1, <2>2, <2>3, AskAgree
<1>6. ASSUME NEW c \in Names, NEW p \in Pwds, CmdPassword(z, c, p) PROVE Agreed'
  <2> DEFINE v == [srv[z] EXCEPT !.arg = c, !.old = srv[z].clients[c], !.clients[c] = p]
             m == Message("PWD", c, p)
  <2>1. /\ srv[z].pc = "up" /\ srv[z].user = "idle" /\ UNCHANGED <<records, node, lst, backlog>>
        /\ Ask(z, v, m, "changing")
    BY <1>6 DEF CmdPassword, Typed
  <2>2. /\ v \in ServerStates /\ v.pc = srv[z].pc /\ v.reply = srv[z].reply /\ v.arg = c
        /\ v.clients = [srv[z].clients EXCEPT ![c] = p] /\ v.main = srv[z].main
        /\ v.old = srv[z].clients[c]
    BY <1>1 DEF ServerStates, Clients
  <2>3. m.op = "PWD" /\ m.name = c /\ m.pwd = p
    BY DEF Message
  <2> HIDE DEF v, m
  <2>4. m.name = v.arg /\ m.pwd = v.clients[v.arg] /\ v.pc = "up" /\ srv[z].user \in {"idle", "made"}
    BY <1>1, <2>1, <2>2, <2>3 DEF Clients
  <2>5. \A d \in Names : View(z, d) = IF d = v.arg THEN v.old ELSE v.clients[d]
    BY <1>1, <1>2, <2>1, <2>2 DEF Clients
  <2>6. PICK st : st = "changing"
    OBVIOUS
  <2>7. \A d \in Names : View(z, d) =
          IF d = v.arg /\ st = "adding" THEN None
          ELSE IF d = v.arg /\ st = "changing" THEN v.old ELSE v.clients[d]
    BY <2>5, <2>6
  <2>8. /\ Ask(z, v, m, st) /\ v.reply = srv[z].reply /\ v.main = srv[z].main
        /\ v \in ServerStates /\ srv[z].pc = "up" /\ UNCHANGED <<records, node, lst, backlog>>
    BY <2>1, <2>2, <2>6
  <2>9. m.op = "PWD" /\ st = "changing" /\ m.name = v.arg /\ m.pwd = v.clients[v.arg]
    BY <2>3, <2>4, <2>6
  <2>10. v.pc = "up" /\ srv[z].user \in {"idle", "made"}
    BY <2>4
  <2> QED
    BY <2>7, <2>8, <2>9, <2>10, AskAgree
<1>7. ASSUME NEW v, Set(z, v), srv[z].pc = "up", srv[z].user = "idle",
             UNCHANGED <<records, node, accept, lst, backlog>>,
             v.pc = "up", v.main = srv[z].main, v.user \in {"idle", "made"}, v.clients = srv[z].clients
      PROVE  Agreed'
  <2>1. srv'[z] = v
    BY <1>7, SetOthers
  <2>2. \A c \in Names : View(z, c)' = View(z, c)
    BY <1>2, <1>7, <2>1 DEF View
  <2> QED
    BY <1>7, <2>2, OwnAgree
<1>8. ASSUME NEW c \in Names, ClientStores(z, c) PROVE Agreed'
  <2> DEFINE v == [srv[z] EXCEPT !.dir[c] = "full"]
  <2>1. /\ srv[z].pc = "up" /\ srv[z].user = "idle" /\ Set(z, v)
        /\ UNCHANGED <<records, node, accept, lst, backlog>>
    BY <1>8 DEF ClientStores, masterVars
  <2>2. v.pc = "up" /\ v.main = srv[z].main /\ v.user = "idle" /\ v.clients = srv[z].clients
    BY <1>1, <2>1 DEF ServerStates
  <2> HIDE DEF v
  <2> QED
    BY <1>7, <2>1, <2>2
<1>9. ASSUME NEW c \in Names, NEW p \in Pwds, CmdAdd(z, c, p) PROVE Agreed'
  <2> DEFINE v == [srv[z] EXCEPT !.user = "made", !.arg = c, !.old = p, !.dir[c] = "empty"]
  <2>1. /\ srv[z].pc = "up" /\ srv[z].user = "idle" /\ Set(z, v)
        /\ UNCHANGED <<records, node, accept, lst, backlog>>
    BY <1>9 DEF CmdAdd, Typed, masterVars
  <2>2. v.pc = "up" /\ v.main = srv[z].main /\ v.user = "made" /\ v.clients = srv[z].clients
    BY <1>1, <2>1 DEF ServerStates
  <2> HIDE DEF v
  <2> QED
    BY <1>7, <2>1, <2>2
<1> QED
  BY <1>3, <1>4, <1>5, <1>6, <1>8, <1>9

LEMMA RestFacts ==
  ASSUME NEW v \in ServerStates
  PROVE  /\ Rest(v).user = "idle" /\ Rest(v).pc = v.pc /\ Rest(v).clients = v.clients
         /\ Rest(v).main = v.main
  BY DEF Rest, ServerStates

LEMMA ErasedMain ==
  ASSUME NEW v \in ServerStates, NEW c
  PROVE  Erased(v, c).main = v.main
  BY DEF Erased, ServerStates

LEMMA UserThreadAgree ==
  ASSUME WellTyped, Durable, Agreed, NEW z \in Servers,
         UserAnswer(z) \/ RemoveLocal(z) \/ TruncateFile(z) \/ WriteFile(z)
         \/ UserBroken(z)
  PROVE  Agreed'
<1>1. PICK u \in ServerStates : u = srv[z]
  BY DEF WellTyped, TypeOK
<1>2. u.user # "none" /\ u.pc = "up" /\ UserOK(z) /\ u.clients \in Clients
  BY <1>1 DEF UserAnswer, RemoveLocal, TruncateFile, WriteFile, UserBroken, Durable,
       ServerOK, UserOK, ServerStates
<1>3. UNCHANGED <<records, node, accept, lst, backlog, stolen>>
  BY DEF UserAnswer, RemoveLocal, TruncateFile, WriteFile, UserBroken, masterVars
<1>4. PICK c : c = u.arg /\ (u.user \in {"adding", "removing", "changing", "local"} => c \in Names)
  BY <1>1 DEF WellTyped, UsersOK
<1>5. ASSUME NEW v, Set(z, v), v.pc = "up", v.main = u.main,
             v.user \in {"idle", "erased", "truncated"},
             u.user \notin {"status", "adding", "removing", "changing"} \/ u.reply # None,
             \A d \in Names : v.clients[d] = View(z, d)
      PROVE  Agreed'
  <2>1. srv'[z] = v
    BY <1>5, SetOthers
  <2>2. \A d \in Names : View(z, d)' = View(z, d)
    BY <1>5, <2>1 DEF View
  <2> QED
    BY <1>1, <1>2, <1>3, <1>5, <2>2, OwnAgree
<1>6. ASSUME NEW v, Set(z, v), v.pc = "up", v.main = u.main, v.user = "local", v.arg = c,
             u.user \notin {"status", "adding", "removing", "changing"} \/ u.reply # None,
             \A d \in Names : View(z, d) = IF d = c THEN None ELSE v.clients[d]
      PROVE  Agreed'
  <2>1. srv'[z] = v
    BY <1>6, SetOthers
  <2>2. \A d \in Names : View(z, d)' = View(z, d)
    BY <1>6, <2>1 DEF View
  <2> QED
    BY <1>1, <1>2, <1>3, <1>6, <2>2, OwnAgree
<1>7. CASE UserAnswer(z)
  <2>1. u.reply # None
    BY <1>1, <1>7 DEF UserAnswer
  <2>2. CASE /\ Set(z, Rest(u))
             /\ \/ u.user = "status"
                \/ u.user = "adding" /\ u.reply = "CFM"
                \/ u.user = "removing" /\ u.reply # "CFM"
                \/ u.user = "changing" /\ u.reply = "CFM"
    <3>1. \A d \in Names : View(z, d) = u.clients[d]
      BY <1>1, <2>2 DEF View
    <3>2. PICK v : v = Rest(u)
      OBVIOUS
    <3>3. v.user = "idle" /\ v.pc = "up" /\ v.clients = u.clients /\ v.main = u.main
      BY <1>2, <3>2, RestFacts
    <3> QED
      BY <1>5, <2>1, <2>2, <3>1, <3>2, <3>3
  <2>3. CASE /\ u.user = "adding" /\ u.reply # "CFM"
             /\ Set(z, IF Deletes(u, c)
                       THEN [Erased(u, c) EXCEPT !.user = "erased", !.reply = None]
                       ELSE Rest(Erased(u, c)))
    <3>1. PICK e \in ServerStates :
            /\ e = Erased(u, c) /\ e.pc = u.pc /\ e.main = u.main /\ e.clients[c] = None
            /\ \A d \in Names : d # c => e.clients[d] = u.clients[d]
      BY <1>4, <2>3, ErasedTyped, ErasedMain
    <3>2. \A d \in Names : e.clients[d] = View(z, d)
      BY <1>1, <1>4, <2>3, <3>1 DEF View
    <3>3. PICK v : v = IF Deletes(u, c) THEN [e EXCEPT !.user = "erased", !.reply = None]
                       ELSE Rest(e)
      OBVIOUS
    <3>4. v.user \in {"idle", "erased"} /\ v.pc = e.pc /\ v.clients = e.clients /\ v.main = e.main
      <4>1. LET w == [e EXCEPT !.user = "erased", !.reply = None]
            IN  w.user = "erased" /\ w.pc = e.pc /\ w.clients = e.clients /\ w.main = e.main
        BY DEF ServerStates
      <4> QED
        BY <3>3, <4>1, RestFacts
    <3>5. Set(z, v)
      BY <2>3, <3>1, <3>3
    <3> QED
      BY <1>2, <1>5, <2>1, <3>1, <3>2, <3>4, <3>5
  <2>4. CASE /\ u.user = "removing" /\ u.reply = "CFM"
             /\ Set(z, [u EXCEPT !.user = "local", !.reply = None])
    <3>1. PICK v : v = [u EXCEPT !.user = "local", !.reply = None]
      OBVIOUS
    <3>2. v.user = "local" /\ v.pc = u.pc /\ v.clients = u.clients /\ v.main = u.main /\ v.arg = c
      BY <1>4, <3>1 DEF ServerStates
    <3>3. \A d \in Names : View(z, d) = IF d = c THEN None ELSE u.clients[d]
      BY <1>1, <1>4, <2>4 DEF View
    <3>4. \A d \in Names : View(z, d) = IF d = c THEN None ELSE v.clients[d]
      BY <3>2, <3>3
    <3>5. Set(z, v)
      BY <2>4, <3>1
    <3>6. v.pc = "up" /\ v.main = u.main /\ v.user = "local" /\ v.arg = c
      BY <1>2, <3>2
    <3> QED
      BY <1>6, <2>1, <3>4, <3>5, <3>6
  <2>5. CASE /\ u.user = "changing" /\ u.reply # "CFM"
             /\ Set(z, Rest([u EXCEPT !.clients[c] = u.old]))
    <3>1. PICK w : w = [u EXCEPT !.clients[c] = u.old]
      OBVIOUS
    <3>2. c \in Names /\ u.old \in Pwds
      BY <1>1, <1>4, <2>5 DEF WellTyped, UsersOK
    <3>3. /\ w \in ServerStates /\ w.pc = u.pc /\ w.main = u.main
          /\ w.clients = [u.clients EXCEPT ![c] = u.old]
      BY <3>1, <3>2 DEF ServerStates, Clients
    <3>4. \A d \in Names : w.clients[d] = View(z, d)
      BY <1>1, <1>2, <1>4, <2>5, <3>2, <3>3 DEF View, Clients
    <3>5. PICK v : v = Rest(w)
      OBVIOUS
    <3>6. v.user = "idle" /\ v.pc = "up" /\ v.clients = w.clients /\ v.main = u.main
      BY <1>2, <3>3, <3>5, RestFacts
    <3>7. Set(z, v)
      BY <2>5, <3>1, <3>5
    <3> QED
      BY <1>5, <2>1, <3>4, <3>6, <3>7
  <2>6. srv[z] = u /\ srv[z].arg = c
    BY <1>1, <1>4
  <2>7. \/ u.user = "status" /\ Set(z, Rest(u))
        \/ u.user = "adding" /\ u.reply = "CFM" /\ Set(z, Rest(u))
        \/ /\ u.user = "adding" /\ u.reply # "CFM"
           /\ Set(z, IF Deletes(u, c)
                     THEN [Erased(u, c) EXCEPT !.user = "erased", !.reply = None]
                     ELSE Rest(Erased(u, c)))
        \/ /\ u.user = "removing" /\ u.reply = "CFM"
           /\ Set(z, [u EXCEPT !.user = "local", !.reply = None])
        \/ u.user = "removing" /\ u.reply # "CFM" /\ Set(z, Rest(u))
        \/ u.user = "changing" /\ u.reply = "CFM" /\ Set(z, Rest(u))
        \/ /\ u.user = "changing" /\ u.reply # "CFM"
           /\ Set(z, Rest([u EXCEPT !.clients[c] = u.old]))
    BY <1>7, <2>6 DEF UserAnswer
  <2> QED
    BY <2>2, <2>3, <2>4, <2>5, <2>7
<1>8. CASE RemoveLocal(z)
  <2>1. /\ u.user = "local" /\ c \in Names
        /\ Set(z, [Erased(u, c) EXCEPT !.user = IF Deletes(u, c) THEN "erased" ELSE "local"])
    BY <1>1, <1>4, <1>8 DEF RemoveLocal
  <2>2. PICK e \in ServerStates :
          /\ e = Erased(u, c) /\ e.pc = u.pc /\ e.main = u.main /\ e.clients[c] = None
          /\ e.arg = u.arg /\ \A d \in Names : d # c => e.clients[d] = u.clients[d]
    BY <2>1, ErasedTyped, ErasedMain
  <2>3. \A d \in Names : /\ View(z, d) = IF d = c THEN None ELSE u.clients[d]
                         /\ e.clients[d] = View(z, d)
    BY <1>1, <1>4, <2>1, <2>2 DEF View
  <2>4. PICK st \in {"erased", "local"} : st = IF Deletes(u, c) THEN "erased" ELSE "local"
    OBVIOUS
  <2>5. PICK v : v = [e EXCEPT !.user = st]
    OBVIOUS
  <2>6. v.user = st /\ v.pc = "up" /\ v.clients = e.clients /\ v.main = u.main /\ v.arg = c
    BY <1>2, <1>4, <2>2, <2>5 DEF ServerStates
  <2>7. Set(z, v)
    BY <2>1, <2>2, <2>4, <2>5
  <2>8. CASE st = "erased"
    BY <1>5, <2>1, <2>3, <2>6, <2>7, <2>8
  <2>9. CASE st = "local"
    BY <1>6, <2>1, <2>2, <2>3, <2>6, <2>7, <2>9
  <2> QED
    BY <2>4, <2>8, <2>9
<1>11. CASE TruncateFile(z)
  <2>1. u.user = "erased" /\ Set(z, [u EXCEPT !.file = NoClients, !.user = "truncated"])
    BY <1>1, <1>11 DEF TruncateFile
  <2>2. PICK v : v = [u EXCEPT !.file = NoClients, !.user = "truncated"]
    OBVIOUS
  <2>3. v.user = "truncated" /\ v.pc = "up" /\ v.clients = u.clients /\ v.main = u.main
    BY <1>2, <2>2 DEF ServerStates
  <2>4. \A d \in Names : View(z, d) = u.clients[d]
    BY <1>1, <2>1 DEF View
  <2>5. Set(z, v)
    BY <2>1, <2>2
  <2> QED
    BY <1>5, <2>1, <2>3, <2>4, <2>5
<1>9. CASE WriteFile(z)
  <2>1. u.user = "truncated" /\ Set(z, Rest([u EXCEPT !.file = u.clients]))
    BY <1>1, <1>9 DEF WriteFile
  <2>2. PICK w : w = [u EXCEPT !.file = u.clients]
    OBVIOUS
  <2>3. w \in ServerStates /\ w.pc = u.pc /\ w.clients = u.clients /\ w.main = u.main
    BY <2>2 DEF ServerStates
  <2>4. PICK v : v = Rest(w)
    OBVIOUS
  <2>5. v.user = "idle" /\ v.pc = "up" /\ v.clients = u.clients /\ v.main = u.main /\ Set(z, v)
    BY <1>2, <2>1, <2>2, <2>3, <2>4, RestFacts
  <2>6. \A d \in Names : View(z, d) = u.clients[d]
    BY <1>1, <2>1 DEF View
  <2> QED
    BY <1>5, <2>1, <2>5, <2>6
<1>10. CASE UserBroken(z)
  <2>1. PICK v : v = [u EXCEPT !.user = "none", !.arg = None, !.old = None]
    OBVIOUS
  <2>2. Set(z, v)
    BY <1>1, <1>10, <2>1 DEF UserBroken
  <2>3. v.user = "none" /\ v.pc = "up" /\ v.main = u.main
    BY <1>2, <2>1 DEF ServerStates
  <2> QED
    BY <1>1, <1>2, <1>3, <2>2, <2>3, OwnAgree
<1> QED
  BY <1>7, <1>8, <1>9, <1>10, <1>11

-----------------------------------------------------------------------------
(* Faults, and the theorem.                                                  *)

LEMMA CutAgree ==
  ASSUME WellTyped, Agreed,
         \/ \E n \in Nodes : CutMain(n)
         \/ \E a \in Accepts : CutUser(a)
         \/ \E i \in DOMAIN backlog : CutPending(i)
         \/ HalfConnect
  PROVE  Agreed'
<1>1. /\ node \in [Nodes -> NodeStates] /\ accept \in [Accepts -> AcceptStates]
      /\ backlog \in Seq(Lines) /\ PeersOK /\ AddingOK
      /\ \A a \in Accepts : accept[a].pc # "none" => accept[a].node \in Nodes
      /\ lst.pc = "add" => lst.node \in Nodes
  BY DEF Agreed, WellTyped, TypeOK, AcceptsOK, ListenOK
<1>2. srv' = srv /\ stolen' = stolen /\ records' = records /\ lst' = lst
  BY DEF CutMain, CutUser, CutPending, HalfConnect, serverVars
<1>3. \A k : SameHas(k)
  BY <1>2, SameRecords
<1>4. ASSUME NEW k \in Nodes
      PROVE  /\ node'[k].alive = node[k].alive /\ node'[k].of = node[k].of /\ node'[k].pc = node[k].pc
             /\ node'[k].peer \in {node[k].peer, None}
  <2>1. CASE node' = node
    BY <2>1
  <2>2. ASSUME NEW n \in Nodes, node' = [node EXCEPT ![n].peer = None]
        PROVE  /\ node'[k].alive = node[k].alive /\ node'[k].of = node[k].of
               /\ node'[k].pc = node[k].pc /\ node'[k].peer \in {node[k].peer, None}
    <3>1. node[n] \in NodeStates
      BY <1>1
    <3>2. node'[k] = IF k = n THEN [node[n] EXCEPT !.peer = None] ELSE node[k]
      BY <1>1, <1>4, <2>2
    <3> QED
      BY <3>1, <3>2 DEF NodeStates
  <2> QED
    BY <2>1, <2>2 DEF CutMain, CutUser, CutPending, HalfConnect
<1>5. ASSUME NEW a \in Accepts
      PROVE  /\ accept'[a].pc = accept[a].pc /\ accept'[a].node = accept[a].node
             /\ accept'[a].peer \in {accept[a].peer, None}
             /\ accept'[a].in \in {accept[a].in, None}
  <2>1. CASE accept' = accept
    BY <2>1
  <2>2. ASSUME NEW b \in Accepts, accept' = [accept EXCEPT ![b].peer = None, ![b].in = None]
        PROVE  /\ accept'[a].pc = accept[a].pc /\ accept'[a].node = accept[a].node
               /\ accept'[a].peer \in {accept[a].peer, None}
               /\ accept'[a].in \in {accept[a].in, None}
    <3>1. accept[b] \in AcceptStates
      BY <1>1
    <3>2. accept'[a] = IF a = b THEN [accept[b] EXCEPT !.peer = None, !.in = None] ELSE accept[a]
      BY <1>1, <1>5, <2>2
    <3> QED
      BY <3>1, <3>2 DEF AcceptStates
  <2> QED
    BY <2>1, <2>2 DEF CutMain, CutUser, CutPending, HalfConnect
<1>6. ConnectedKept
  BY <1>1, <1>3, <1>4, <1>5 DEF ConnectedKept, PeersOK
<1>7. AddingOK'
  BY <1>1, <1>2, <1>3, <1>4, AddingKept
<1>8. ASSUME NEW s \in Servers PROVE LinesFor(s)
  <2>1. \A i \in DOMAIN backlog' : backlog'[i].peer = s => OldLine(backlog'[i])
    <3>1. CASE backlog' = backlog
      BY <3>1 DEF OldLine
    <3>2. ASSUME NEW j \in DOMAIN backlog, CutPending(j), NEW i \in DOMAIN backlog', backlog'[i].peer = s
          PROVE  OldLine(backlog'[i])
      <4>1. backlog' = [backlog EXCEPT ![j] = [backlog[j] EXCEPT !.peer = None]]
        BY <3>2 DEF CutPending
      <4>2. backlog[j] \in Lines /\ i \in DOMAIN backlog
        BY <1>1, <4>1
      <4>3. [backlog[j] EXCEPT !.peer = None].peer = None
        BY <4>2 DEF Lines
      <4>4. i # j
        BY <3>2, <4>1, <4>2, <4>3, NoneIsNone
      <4>5. backlog'[i] = backlog[i]
        BY <4>1, <4>2, <4>4
      <4> QED
        BY <4>2, <4>5 DEF OldLine
    <3>3. ASSUME HalfConnect, NEW i \in DOMAIN backlog', backlog'[i].peer = s
          PROVE  OldLine(backlog'[i])
      <4>1. PICK m : m.peer = None /\ backlog' = Append(backlog, m)
        BY <3>3 DEF HalfConnect
      <4>2. i \in DOMAIN backlog /\ backlog'[i] = backlog[i]
        BY <1>1, <3>3, <4>1, NoneIsNone
      <4> QED
        BY <4>2 DEF OldLine
    <3> QED
      BY <3>1, <3>2, <3>3 DEF CutMain, CutUser
  <2> QED
    BY <1>2, <2>1 DEF LinesFor, OldLine
<1> QED
  BY <1>2, <1>6, <1>7, <1>8, QuietAgree

LEMMA InitAgree == Init => Agreed
<1> SUFFICES ASSUME Init PROVE Agreed
  OBVIOUS
<1>1. /\ \A n \in Nodes : node[n].peer = None
      /\ \A a \in Accepts : accept[a].peer = None /\ accept[a].pc = "none"
      /\ backlog = <<>> /\ lst.pc = "accept"
  BY DEF Init, MasterInit, NoNode, NoAccept, Idle
<1>2. PeersOK /\ AddingOK
  BY <1>1 DEF PeersOK, AddingOK
<1>3. \A s \in Servers : EntriesOK(s) /\ OrdersOK(s) /\ AgreeOK(s)
  BY <1>1, NoneIsNone DEF EntriesOK, OrdersOK, AgreeOK, Serves
<1> QED
  BY <1>2, <1>3 DEF Agreed

LEMMA NextAgree ==
  ASSUME WellTyped, WellTyped', DeadOK, Durable, Durable', Agreed, [Next]_vars
  PROVE  Agreed'
<1>1. CASE UNCHANGED vars
  <2>1. UNCHANGED <<records, node, accept, lst, backlog, stolen, srv>>
    BY <1>1 DEF vars, masterVars, serverVars
  <2> QED
    BY <2>1 DEF Agreed, PeersOK, AddingOK, EntriesOK, OrdersOK, AgreeOK, Serves, View, Has, Commands
<1>2. CASE MasterStep
  BY <1>2, ListenQuietAgree, IdfAddAgree, IdfInsertAgree, UsrSetAgree, RequestAgree,
     AcceptMessageAgree, AcceptEndAgree, EchoAgree DEF MasterStep
<1>3. ASSUME NEW s \in Servers, ServerStep(s), stolen' = stolen PROVE Agreed'
  BY <1>3, MainThreadAgree, CommandStepsAgree, UserThreadAgree DEF ServerStep
<1>4. CASE MasterStart
  BY <1>4, ListenQuietAgree
<1>5. CASE FaultStep
  <2>1. ASSUME NEW s \in Servers, Crash(s) \/ CmdClose(s) PROVE Agreed'
    BY <2>1, EndOwn, RestartAgree
  <2> QED
    BY <1>5, <2>1, CutAgree, MasterCrashAgree DEF FaultStep
<1> QED
  BY <1>1, <1>2, <1>3, <1>4, <1>5 DEF Next

\* What the invariant says of a server between two commands.
LEMMA AgreedRecords == WellTyped /\ Agreed => RecordsAgree
<1> SUFFICES ASSUME WellTyped, Agreed, NEW s \in Servers, NEW n \in Nodes, Settled(s, n),
                    NEW c \in Names \ stolen
             PROVE  srv[s].clients[c] =
                      LET mine == {r \in records : r.name = c /\ r.owner = n}
                      IN  IF mine = {} THEN None ELSE (CHOOSE r \in mine : TRUE).pwd
  BY DEF RecordsAgree
<1> DEFINE mine == {r \in records : r.name = c /\ r.owner = n}
<1>1. Serves(s, n) /\ View(s, c) = srv[s].clients[c]
  BY DEF Settled, Serves, View
<1>2. \A p \in Pwds : Has(n, c, p) <=> srv[s].clients[c] = p
  BY <1>1 DEF Agreed, AgreeOK
<1>3. srv[s].clients[c] \in Pwds \cup {None}
  BY DEF WellTyped, TypeOK, ServerStates, Clients
<1>4. \A r \in mine : srv[s].clients[c] = r.pwd
  <2> SUFFICES ASSUME NEW r \in records, r.name = c, r.owner = n PROVE srv[s].clients[c] = r.pwd
    OBVIOUS
  <2>1. r.pwd \in Pwds
    BY DEF WellTyped, TypeOK
  <2>2. Has(n, c, r.pwd)
    BY RecordFacts DEF Has
  <2> QED
    BY <1>2, <2>1, <2>2
<1>5. srv[s].clients[c] \in Pwds => mine # {}
  <2> SUFFICES ASSUME NEW p \in Pwds, srv[s].clients[c] = p PROVE mine # {}
    OBVIOUS
  <2>1. [name |-> c, pwd |-> p, owner |-> n] \in records
    BY <1>2 DEF Has
  <2>2. [name |-> c, pwd |-> p, owner |-> n] \in mine
    BY <2>1
  <2> QED
    BY <2>2
<1> HIDE DEF mine
<1>6. CASE mine = {}
  BY <1>3, <1>5, <1>6 DEF mine
<1>7. CASE mine # {}
  <2>1. (CHOOSE r \in mine : TRUE) \in mine
    BY <1>7
  <2> QED
    BY <1>4, <1>7, <2>1 DEF mine
<1> QED
  BY <1>6, <1>7

\* While a file server is registered and between two commands, the master has
\* exactly its clients with the same passwords, but for names that another
\* server took: parse's ADD, RMV and PWD and their answers stay in step with
\* the map that userAdd, userRemove and userPassword keep, through refused
\* commands, broken connections and restarts on either side.
THEOREM RecordsStayInAgreement == Spec => []RecordsAgree
<1>1. Init => WellTyped /\ DeadOK /\ Durable /\ Agreed
  BY InitTyped, InitDead, InitDurable, InitAgree
<1>2. WellTyped /\ DeadOK /\ Durable /\ Agreed /\ [Next]_vars
      => (WellTyped /\ DeadOK /\ Durable /\ Agreed)'
  <2> SUFFICES ASSUME WellTyped, DeadOK, Durable, Agreed, [Next]_vars
               PROVE  (WellTyped /\ DeadOK /\ Durable /\ Agreed)'
    OBVIOUS
  <2>1. WellTyped'
    BY NextTyped
  <2>2. DeadOK'
    BY <2>1, NextDead
  <2>3. Durable'
    BY <2>1, NextDurable
  <2>4. Agreed'
    BY <2>1, <2>3, NextAgree
  <2> QED
    BY <2>1, <2>2, <2>3, <2>4
<1> QED
  BY <1>1, <1>2, AgreedRecords, PTL DEF Spec
=============================================================================
