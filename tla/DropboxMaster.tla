---------------------------- MODULE DropboxMaster ----------------------------
(***************************************************************************)
(* The master of the Dropbox sample (src/Dropbox_wrapper/Dropbox/src/      *)
(* master): the table of client records, the list of registered file       *)
(* servers, the thread that registers file servers (ClusterNet), and for   *)
(* each registered server a Request thread (heartbeats on the main         *)
(* connection) and an Accept thread (commands on the user connection).     *)
(*                                                                         *)
(* A TCP connection is the field peer of the thread that serves it: the    *)
(* server process at the other end, None once either end closed it.  What  *)
(* was sent before the close can still be read.                            *)
(***************************************************************************)
EXTENDS Naturals, Sequences, SequencesExt, FiniteSets

CONSTANTS
  Servers,   \* file server processes; also the ids they are started with
  Names,     \* client names
  Pwds,      \* passwords
  Nodes,     \* bound: FileServerNode objects that exist at one time
  Accepts,   \* bound: Accept threads that exist at one time
  None,      \* no object, no message
  Env        \* the faults and the races that may happen, see DropboxCluster

ASSUME MasterAssumption ==
  None \notin Servers \cup Names \cup Pwds \cup Nodes \cup Accepts
             \cup {"CFM", "ERM", "BAD", "STAT"}

VARIABLES
  records,   \* _clients: set of [name, pwd, owner]
  fsnodes,   \* _fsnodes: sequence of nodes
  node,      \* FileServerNode objects, each with its Request thread
  accept,    \* Accept threads
  lst,       \* ClusterNet's thread and what it is working on
  backlog,   \* connections to the cluster port that wait to be accepted
  lost,      \* servers whose first line got no answer and no close
  stolen,    \* history: names removed or changed by a command that came
             \* for another node than the owner
  echo,      \* the timer thread: "run" or "dead"
  srv        \* the file servers: see DropboxFileServer

masterVars == <<records, fsnodes, node, accept, lst, backlog, lost, stolen, echo>>

\* pc and t are the Request thread's: t says whether its _t is set.  of is
\* the server the node was made for, which the code does not keep.
NoNode == [id |-> None, ip |-> FALSE, alive |-> TRUE, fsa |-> None,
           pc |-> "none", t |-> FALSE, peer |-> None, of |-> None]
NoAccept == [pc |-> "none", t |-> FALSE, node |-> None, peer |-> None,
             in |-> None]
Idle == [pc |-> "accept", msg |-> None, node |-> None, todo |-> {},
         changed |-> FALSE]
NoClients == [c \in Names |-> None]

MasterInit ==
  /\ records = {}
  /\ fsnodes = <<>>
  /\ node = [n \in Nodes |-> NoNode]
  /\ accept = [a \in Accepts |-> NoAccept]
  /\ lst = Idle
  /\ backlog = <<>>
  /\ lost = {}
  /\ stolen = {}
  /\ echo = "run"

-----------------------------------------------------------------------------
(* Tables *)

clientExist(name) == \E r \in records : r.name = name

\* Mutant: the name is not looked up.
MutantAddClient(name, pwd, n) ==
  records \cup {[name |-> name, pwd |-> pwd, owner |-> n]}

addClient(name, pwd, n) ==
  IF clientExist(name) THEN records
  ELSE records \cup {[name |-> name, pwd |-> pwd, owner |-> n]}

removeClient(name) == {r \in records : r.name # name}

changePassword(name, pwd) ==
  {[r EXCEPT !.pwd = IF r.name = name THEN pwd ELSE @] : r \in records}

\* The first node of the list that has the id.
findFileServer(id) ==
  LET i == SelectInSeq(fsnodes, LAMBDA n : node[n].id = id)
  IN  IF i = 0 THEN None ELSE fsnodes[i]

\* The list with the nodes of S only: what a walk with an iterator that
\* removes the others leaves.
Keep(S) ==
  LET kept[i \in 0..Len(fsnodes)] ==
        IF i = 0 THEN <<>>
        ELSE IF fsnodes[i] \in S THEN Append(kept[i - 1], fsnodes[i]) ELSE kept[i - 1]
  IN  kept[Len(fsnodes)]

\* An object nobody refers to any more is garbage.
FreeNode(n) ==
  /\ n \notin Range(fsnodes)
  /\ node[n].pc \in {"none", "end"}
  /\ \A r \in records : r.owner # n
  /\ \A a \in Accepts : accept[a].node # n
  /\ lst.node # n

FreeAccept(a) == accept[a].pc = "none"

\* Which free object is taken makes no difference.
NewNode == CHOOSE n \in Nodes : FreeNode(n)
NewAccept == CHOOSE a \in Accepts : FreeAccept(a)
NodeLeft == \E n \in Nodes : FreeNode(n)
AcceptLeft == \E a \in Accepts : FreeAccept(a)

\* findFileServer walks the list without the monitor: a change of the list
\* while it does may make it throw.
Disturb ==
  lst' = [lst EXCEPT !.changed = @ \/ (fsnodes' # fsnodes /\ lst.pc = "find")]

\* removeDead: the records of the node go first, then the node.  Printing
\* the list afterwards may end the calling thread, which ends anyway.
removeDead(n) ==
  /\ records' = {r \in records : r.owner # n}
  /\ fsnodes' = Keep(Nodes \ {n})

(* FileServerNode.destroy.  A thread that was set but not started, or was  *)
(* stopped already, has no _t and terminated() throws; so does clearClients*)
(* on a node that was cleared before.                                      *)
DestroyThrows(n) ==
  LET v == node[n] IN
  \/ ~v.alive
  \/ v.pc # "none" /\ ~v.t
  \/ v.fsa # None /\ ~accept[v.fsa].t

\* What destroy leaves behind, on its normal end and when it throws.
DestroyedNode(n) ==
  IF DestroyThrows(n)
  THEN [node[n] EXCEPT !.t = FALSE]
  ELSE [node[n] EXCEPT !.alive = FALSE, !.ip = FALSE, !.t = FALSE,
                       !.fsa = None, !.peer = None]
DestroyedAccept(n) ==
  LET v == node[n] IN
  IF v.fsa # None /\ (v.pc = "none" \/ v.t \/ ~v.alive)
  THEN [accept EXCEPT ![v.fsa].t = FALSE] ELSE accept

\* The node left by the last thread that refers to it is collected.
Collected(nd) ==
  [n \in Nodes |->
     IF /\ nd[n].pc \in {"none", "end"}
        /\ n \notin Range(fsnodes') /\ lst.node # n
        /\ \A r \in records' : r.owner # n
        /\ \A a \in Accepts : accept'[a].node # n
     THEN NoNode ELSE nd[n]]

-----------------------------------------------------------------------------
(* ClusterNet: one thread accepts, reads one line and parses it.           *)

Reply(s, r) == IF s = None THEN srv ELSE [srv EXCEPT ![s].reply = r]

\* A connection that ends before its line is read ends the thread, and the
\* server socket with it.
ListenReceive ==
  /\ lst.pc = "accept" /\ backlog # <<>>
  /\ LET m == Head(backlog) IN
     IF m.kind = "EOF"
     THEN /\ lst' = [Idle EXCEPT !.pc = "stopped"]
          /\ backlog' = <<>>
     ELSE /\ lst' = [Idle EXCEPT !.pc = "find", !.msg = m]
          /\ backlog' = Tail(backlog)
  /\ UNCHANGED <<records, fsnodes, node, accept, lost, stolen, echo, srv>>

\* findFileServer throws when the list changed under it: parse's IDF branch
\* catches that and answers nothing, in the USR branch it ends the thread.
ListenThrows ==
  /\ "cme" \in Env
  /\ lst.pc = "find" /\ lst.changed
  /\ lst' = IF lst.msg.kind = "IDF" THEN Idle ELSE [Idle EXCEPT !.pc = "stopped"]
  /\ lost' = IF lst.msg.peer = None THEN lost ELSE lost \cup {lst.msg.peer}
  /\ backlog' = IF lst.msg.kind = "IDF" THEN backlog ELSE <<>>
  /\ UNCHANGED <<records, fsnodes, node, accept, stolen, echo, srv>>

\* parse, IDF: the node found for the id is replaced by a new one.
IdfFind ==
  /\ lst.pc = "find" /\ lst.msg.kind = "IDF"
  /\ NodeLeft
  /\ lst' = [lst EXCEPT !.pc = "add", !.node = NewNode,
             !.todo = {c \in Names : lst.msg.entries[c] # None}]
  /\ node' = [node EXCEPT ![NewNode] = [NoNode EXCEPT !.of = lst.msg.id]]
  /\ UNCHANGED <<records, fsnodes, accept, backlog, lost, stolen, echo, srv>>

\* parse, IDF: one client record per entry, in the map's order.  The first
\* conflict refuses the server; the records added before it stay.
IdfAdd ==
  /\ lst.pc = "add"
  /\ \E c \in lst.todo :
       /\ records' = addClient(c, lst.msg.entries[c], lst.node)
       /\ IF clientExist(c)
          THEN /\ srv' = Reply(lst.msg.peer, "ERM")
               /\ lst' = Idle
          ELSE /\ lst' = [lst EXCEPT !.todo = @ \ {c}]
               /\ UNCHANGED srv
  /\ UNCHANGED <<fsnodes, node, accept, backlog, lost, stolen, echo>>

\* parse, IDF: the node is filled in, listed, confirmed, and its Request
\* thread started.
IdfInsert ==
  /\ lst.pc = "add" /\ lst.todo = {}
  /\ node' = [node EXCEPT ![lst.node] =
                [@ EXCEPT !.id = lst.msg.id, !.ip = TRUE, !.pc = "sleep",
                          !.t = TRUE, !.peer = lst.msg.peer]]
  /\ fsnodes' = Append(fsnodes, lst.node)
  /\ srv' = IF lst.msg.peer = None THEN srv
            ELSE [srv EXCEPT ![lst.msg.peer].reply = "CFM",
                             ![lst.msg.peer].main = lst.node]
  /\ lst' = Idle
  /\ UNCHANGED <<records, accept, backlog, lost, stolen, echo>>

\* parse, USR: the first node with the id, or a new one without id.
UsrFind ==
  /\ lst.pc = "find" /\ lst.msg.kind = "USR"
  /\ LET n == findFileServer(lst.msg.id) IN
     IF n # None
     THEN /\ lst' = [lst EXCEPT !.pc = "set", !.node = n]
          /\ UNCHANGED <<fsnodes, node>>
     ELSE /\ NodeLeft
          /\ lst' = [lst EXCEPT !.pc = "set", !.node = NewNode]
          /\ node' = [node EXCEPT ![NewNode] = [NoNode EXCEPT !.of = lst.msg.id]]
          /\ fsnodes' = Append(fsnodes, NewNode)
  /\ UNCHANGED <<records, accept, backlog, lost, stolen, echo, srv>>

\* parse, USR: confirm, make the Accept thread and set it in the node ...
UsrSet ==
  /\ lst.pc = "set" /\ AcceptLeft
  /\ accept' = [accept EXCEPT ![NewAccept] =
                  [NoAccept EXCEPT !.pc = "new", !.node = lst.node,
                                   !.peer = lst.msg.peer]]
  /\ node' = [node EXCEPT ![lst.node].fsa = NewAccept]
  /\ srv' = Reply(lst.msg.peer, "CFM")
  /\ lst' = [lst EXCEPT !.pc = "start"]
  /\ UNCHANGED <<records, fsnodes, backlog, lost, stolen, echo>>

\* ... and start it.
UsrStart ==
  /\ lst.pc = "start"
  /\ \E a \in Accepts :
       /\ accept[a].pc = "new"
       /\ accept' = [accept EXCEPT ![a].pc = "run", ![a].t = TRUE]
  /\ lst' = Idle
  /\ UNCHANGED <<records, fsnodes, node, backlog, lost, stolen, echo, srv>>

-----------------------------------------------------------------------------
(* Request thread of node n: a heartbeat every HEART_BEAT_HZ, sent and     *)
(* answered inside the static monitor of NetComm.sendAndRecv, which all    *)
(* Request threads share.                                                  *)

SetPc(n, pc) == node' = [node EXCEPT ![n].pc = pc]

RequestBeat(n) ==
  /\ node[n].pc = "sleep"
  /\ \A m \in Nodes : node[m].pc # "wait"
  /\ SetPc(n, "wait")
  /\ UNCHANGED <<records, fsnodes, accept, lst, backlog, lost, stolen, echo, srv>>

\* Mutant: a heartbeat that fails is tried again.
MutantRequestAnswer(n) ==
  LET s == node[n].peer IN
  /\ node[n].pc = "wait"
  /\ \/ s = None /\ SetPc(n, "sleep")
     \/ /\ s # None /\ srv[s].pc = "up" /\ srv[s].main = n
        /\ SetPc(n, IF node[n].t THEN "sleep" ELSE "clear")
  /\ UNCHANGED <<records, fsnodes, accept, lst, backlog, lost, stolen, echo, srv>>

\* The answer comes from a server that listens on this connection; a closed
\* connection throws.
RequestAnswer(n) ==
  LET s == node[n].peer IN
  /\ node[n].pc = "wait"
  /\ \/ s = None /\ SetPc(n, "clear")
     \/ /\ s # None /\ srv[s].pc = "up" /\ srv[s].main = n
        /\ SetPc(n, IF node[n].t THEN "sleep" ELSE "clear")
  /\ UNCHANGED <<records, fsnodes, accept, lst, backlog, lost, stolen, echo, srv>>

\* No node is destroyed between the two statements that set and start an
\* Accept thread, unless Env says otherwise.
StartIsTimely == "slow_start" \in Env \/ lst.pc # "start"

\* clear: close the connection, look whether the node is alive ...
RequestClear(n) ==
  /\ node[n].pc = "clear"
  /\ node' = [node EXCEPT ![n].peer = None,
                ![n].pc = IF node[n].alive THEN "destroy" ELSE "remove"]
  /\ UNCHANGED <<records, fsnodes, accept, lst, backlog, lost, stolen, echo, srv>>

\* ... destroy it if so; an exception ends the thread ...
RequestDestroy(n) ==
  /\ node[n].pc = "destroy" /\ StartIsTimely
  /\ accept' = DestroyedAccept(n)
  /\ UNCHANGED <<records, fsnodes>>
  /\ node' = Collected([node EXCEPT ![n] =
       [DestroyedNode(n) EXCEPT
          !.pc = IF DestroyThrows(n) THEN "end" ELSE "remove"]])
  /\ UNCHANGED <<lst, backlog, lost, stolen, echo, srv>>

\* ... and remove it from the master.
RequestRemove(n) ==
  /\ node[n].pc = "remove"
  /\ removeDead(n)
  /\ UNCHANGED accept
  /\ node' = Collected([node EXCEPT ![n].pc = "end"])
  /\ Disturb
  /\ UNCHANGED <<backlog, lost, stolen, echo, srv>>

-----------------------------------------------------------------------------
(* Accept thread a: the commands of the server's user.                     *)

\* The loop goes on unless destroy stopped the thread.
AfterMessage(a) == IF accept[a].t THEN "run" ELSE "clear"

AcceptMessage(a) ==
  LET m == accept[a].in
      next == [accept EXCEPT ![a].in = None, ![a].pc = AfterMessage(a)]
      Answer(r) == srv' = Reply(accept[a].peer, r)
      ok == clientExist(m.name)
      Foreign == {r.name : r \in {q \in records :
                    q.name = m.name /\ q.owner # accept[a].node}}
  IN
  /\ accept[a].pc = "run" /\ m # None
  /\ \/ /\ m.op = "CLS"
        /\ node' = [node EXCEPT ![accept[a].node] = DestroyedNode(accept[a].node)]
        /\ accept' = [DestroyedAccept(accept[a].node) EXCEPT
                        ![a].in = None, ![a].pc = "clear"]
        /\ UNCHANGED <<records, stolen, srv>>
     \/ /\ m.op = "RFS"
        /\ accept' = next /\ Answer("STAT") /\ UNCHANGED <<records, stolen, node>>
     \/ /\ m.op = "ADD"
        /\ records' = addClient(m.name, m.pwd, accept[a].node)
        /\ accept' = next /\ Answer(IF ok THEN "ERM" ELSE "CFM")
        /\ UNCHANGED <<stolen, node>>
     \/ /\ m.op = "RMV"
        /\ records' = removeClient(m.name)
        /\ accept' = next /\ Answer(IF ok THEN "CFM" ELSE "ERM")
        /\ stolen' = stolen \cup Foreign
        /\ UNCHANGED node
     \/ /\ m.op = "PWD"
        /\ records' = changePassword(m.name, m.pwd)
        /\ accept' = next /\ Answer(IF ok THEN "CFM" ELSE "BAD")
        /\ stolen' = stolen \cup Foreign
        /\ UNCHANGED node
  /\ UNCHANGED <<fsnodes, lst, backlog, lost, echo>>

\* The connection is closed and everything sent on it was read.
AcceptEof(a) ==
  /\ accept[a].pc = "run" /\ accept[a].in = None /\ accept[a].peer = None
  /\ accept' = [accept EXCEPT ![a].pc = "clear"]
  /\ UNCHANGED <<records, fsnodes, node, lst, backlog, lost, stolen, echo, srv>>

\* Mutant: nothing is left to do for a node that is dead.
MutantAcceptClear(a) ==
  /\ accept[a].pc = "clear"
  /\ accept' = [accept EXCEPT ![a] =
       IF node[accept[a].node].alive THEN [@ EXCEPT !.peer = None, !.pc = "destroy"]
       ELSE NoAccept]
  /\ UNCHANGED <<records, fsnodes, node, lst, backlog, lost, stolen, echo, srv>>

AcceptClear(a) ==
  /\ accept[a].pc = "clear"
  /\ accept' = [accept EXCEPT ![a].peer = None,
       ![a].pc = IF node[accept[a].node].alive THEN "destroy" ELSE "remove"]
  /\ UNCHANGED <<records, fsnodes, node, lst, backlog, lost, stolen, echo, srv>>

AcceptDestroy(a) ==
  LET n == accept[a].node IN
  /\ accept[a].pc = "destroy" /\ StartIsTimely
  /\ accept' = [DestroyedAccept(n) EXCEPT ![a] =
                  IF DestroyThrows(n) THEN NoAccept
                  ELSE [accept[a] EXCEPT !.pc = "remove", !.t = FALSE]]
  /\ UNCHANGED <<records, fsnodes>>
  /\ node' = Collected([node EXCEPT ![n] =
       [DestroyedNode(n) EXCEPT !.fsa = IF @ = a THEN None ELSE @]])
  /\ UNCHANGED <<lst, backlog, lost, stolen, echo, srv>>

AcceptRemove(a) ==
  /\ accept[a].pc = "remove"
  /\ removeDead(accept[a].node)
  /\ accept' = [accept EXCEPT ![a] = NoAccept]
  /\ node' = Collected([n \in Nodes |->
       [node[n] EXCEPT !.fsa = IF @ = a THEN None ELSE @]])
  /\ Disturb
  /\ UNCHANGED <<backlog, lost, stolen, echo, srv>>

-----------------------------------------------------------------------------
(* Echo: the timer collects dead nodes, then prints the list without the   *)
(* monitor.  When another thread destroys a node, or changes the list,     *)
(* meanwhile, printing throws and ends the timer.                          *)

OthersChangeNodes ==
  \/ \E n \in Nodes : node[n].pc \in {"destroy", "remove"}
  \/ \E a \in Accepts : accept[a].pc \in {"destroy", "remove"}
  \/ \E a \in Accepts : accept[a].in # None /\ accept[a].in.op = "CLS"
  \/ lst.pc = "add" \/ (lst.pc = "find" /\ lst.msg.kind = "USR")

Echo ==
  /\ echo = "run"
  /\ fsnodes' = Keep({n \in Nodes : node[n].alive})
  /\ UNCHANGED <<records, accept>>
  /\ node' = Collected(node)
  /\ Disturb
  /\ \/ echo' = echo
     \/ OthersChangeNodes /\ fsnodes' # <<>> /\ echo' = "dead"
  /\ UNCHANGED <<backlog, lost, stolen, srv>>

-----------------------------------------------------------------------------
MasterStep ==
  \/ ListenReceive \/ ListenThrows
  \/ IdfFind \/ IdfAdd \/ IdfInsert
  \/ UsrFind \/ UsrSet \/ UsrStart
  \/ \E n \in Nodes : RequestBeat(n) \/ RequestAnswer(n) \/ RequestClear(n)
                      \/ RequestDestroy(n) \/ RequestRemove(n)
  \/ \E a \in Accepts : AcceptMessage(a) \/ AcceptEof(a) \/ AcceptClear(a)
                        \/ AcceptDestroy(a) \/ AcceptRemove(a)
  \/ Echo
=============================================================================
