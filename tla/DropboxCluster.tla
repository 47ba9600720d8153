--------------------------- MODULE DropboxCluster ----------------------------
(***************************************************************************)
(* The master, the file servers and the faults between them.  Env names    *)
(* the faults and races of an instance:                                    *)
(*   "crash"       a file server process ends (killed, or command -s)      *)
(*   "close"       command -z: say CLS to the master and end               *)
(*   "master"      the master process ends and is started again            *)
(*   "cut"         a connection of a registered server breaks              *)
(*   "cut_early"   a connection breaks while the server registers          *)
(*   "half"        a connection ends before its first line was sent        *)
(*   "foreign"     command -r names a client of another server             *)
(*   "full"        clients store files, so directories are not empty       *)
(*   "cme"         an unguarded walk of the node list meets a change       *)
(*   "slow_start"  an Accept thread is started a heartbeat after it was set*)
(***************************************************************************)
EXTENDS DropboxFileServer

CONSTANT MaxFaults    \* bound: faults in a behaviour

VARIABLES
  faults,
  torn    \* history: the nodes of servers that were killed between emptying
          \* and writing clients.txt, as long as records name them

vars == <<masterVars, serverVars, faults, torn>>

Init == MasterInit /\ ServerInit /\ faults = 0 /\ torn = {}

Fault(f) == f \in Env /\ faults < MaxFaults /\ faults' = faults + 1

\* The process ends: all its connections are closed; disk contents stay.
EndProcess(s) ==
  /\ CloseMain(s)
  /\ lost' = lost \ {s}
  /\ backlog' = [i \in DOMAIN backlog |-> [backlog[i] EXCEPT !.peer = Hang(@, s)]]
  /\ lst' = IF lst.msg = None THEN lst ELSE [lst EXCEPT !.msg.peer = Hang(@, s)]
  /\ Set(s, Off(srv[s].file, srv[s].dir))
  /\ UNCHANGED <<records, fsnodes, stolen, echo>>

\* A line that the master has not read yet may be lost with the process.
Crash(s) ==
  /\ Fault("crash") /\ srv[s].pc # "down"
  /\ \/ CloseUser(s)
     \/ accept' = [a \in Accepts |-> IF a \in Line(s)
          THEN [accept[a] EXCEPT !.in = None, !.peer = None] ELSE accept[a]]
  /\ EndProcess(s)
  /\ torn' = IF srv[s].user = "truncated"
             THEN torn \cup {n \in Nodes : node[n].of = s} ELSE torn
  /\ UNCHANGED commands

\* Command -z.
CmdClose(s) ==
  /\ Fault("close") /\ srv[s].pc = "up" /\ srv[s].user = "idle"
  /\ accept' = [a \in Accepts |-> IF a \in Line(s)
       THEN [accept[a] EXCEPT !.in = Message("CLS", None, None), !.peer = None]
       ELSE accept[a]]
  /\ EndProcess(s)
  /\ UNCHANGED <<commands, torn>>

\* The master process ends; its tables are in memory only.
MasterCrash ==
  /\ Fault("master")
  /\ records' = {} /\ fsnodes' = <<>> /\ backlog' = <<>>
  /\ node' = [n \in Nodes |-> NoNode]
  /\ accept' = [a \in Accepts |-> NoAccept]
  /\ lst' = [Idle EXCEPT !.pc = "stopped"]
  /\ lost' = {} /\ stolen' = {} /\ torn' = {} /\ echo' = "dead"
  /\ UNCHANGED serverVars

MasterStart ==
  /\ "master" \in Env /\ lst.pc = "stopped" /\ echo = "dead" /\ fsnodes = <<>>
  /\ \A n \in Nodes : node[n] = NoNode
  /\ lst' = Idle /\ echo' = "run"
  /\ UNCHANGED <<records, fsnodes, node, accept, backlog, lost, stolen,
                 serverVars, faults, torn>>

\* A connection breaks under both ends.
CutMain(n) ==
  LET s == node[n].peer IN
  /\ s # None /\ Fault(IF srv[s].pc = "up" THEN "cut" ELSE "cut_early")
  /\ node' = [node EXCEPT ![n].peer = None]
  /\ UNCHANGED <<records, fsnodes, accept, lst, backlog, lost, stolen, echo,
                 serverVars, torn>>
CutUser(a) ==
  LET s == accept[a].peer IN
  /\ s # None /\ Fault(IF srv[s].pc = "up" THEN "cut" ELSE "cut_early")
  /\ accept' = [accept EXCEPT ![a].peer = None, ![a].in = None]
  /\ UNCHANGED <<records, fsnodes, node, lst, backlog, lost, stolen, echo,
                 serverVars, torn>>

CutPending(i) ==
  /\ backlog[i].peer # None /\ Fault("cut_early")
  /\ backlog' = [backlog EXCEPT ![i].peer = None]
  /\ UNCHANGED <<records, fsnodes, node, accept, lst, lost, stolen, echo,
                 serverVars, torn>>

\* Something connects to the cluster port and closes without a line.
HalfConnect ==
  /\ Fault("half") /\ lst.pc # "stopped"
  /\ backlog' = Append(backlog, [kind |-> "EOF", peer |-> None, id |-> None,
                                 entries |-> NoClients])
  /\ UNCHANGED <<records, fsnodes, node, accept, lst, lost, stolen, echo,
                 serverVars, torn>>

FaultStep ==
  \/ \E s \in Servers : Crash(s) \/ CmdClose(s)
  \/ \E n \in Nodes : CutMain(n)
  \/ \E a \in Accepts : CutUser(a)
  \/ \E i \in DOMAIN backlog : CutPending(i)
  \/ MasterCrash \/ HalfConnect

KeepTorn == torn' = {n \in torn : \E r \in records' : r.owner = n}

Next ==
  \/ MasterStep /\ KeepTorn /\ UNCHANGED <<commands, faults>>
  \/ (\E s \in Servers : ServerStep(s)) /\ UNCHANGED <<stolen, faults, torn>>
  \/ MasterStart \/ FaultStep

Spec == Init /\ [][Next]_vars

(* Every thread that can go on does so.  Request threads meet at NetComm's *)
(* monitor again and again, and the holder sleeps HEART_BEAT_HZ before it  *)
(* comes back, so none is passed over for ever.  Servers are started and   *)
(* commands are typed by people: no fairness.                              *)
M(A) == A /\ KeepTorn /\ UNCHANGED <<commands, faults>>
S(A) == A /\ UNCHANGED <<stolen, faults, torn>>
Fairness ==
  /\ WF_vars(M(ListenReceive \/ IdfFind \/ IdfAdd \/ IdfInsert \/ UsrFind
               \/ UsrSet \/ UsrStart))
  /\ \A n \in Nodes :
       /\ SF_vars(M(RequestBeat(n)))
       /\ WF_vars(M(RequestAnswer(n) \/ RequestClear(n) \/ RequestDestroy(n)
                    \/ RequestRemove(n)))
  /\ \A a \in Accepts :
       WF_vars(M(AcceptMessage(a) \/ AcceptEof(a) \/ AcceptClear(a)
                 \/ AcceptDestroy(a) \/ AcceptRemove(a)))
  /\ \A s \in Servers :
       WF_vars(S(ConnectUser(s) \/ ConnectRefused(s) \/ Registered(s)))
FairSpec == Spec /\ Fairness

-----------------------------------------------------------------------------
(* Properties *)

Clients == [Names -> Pwds \cup {None}]
Peers == Servers \cup {None}

\* The first lines of connections, and the lines of users.
Lines == [kind : {"IDF", "USR"}, peer : Peers, id : Servers, entries : Clients]
         \cup [kind : {"EOF"}, peer : {None}, id : {None}, entries : {NoClients}]
ASSUME ClusterAssumption == None \notin Lines

Orders == [op : {"ADD", "PWD"}, name : Names, pwd : Pwds]
          \cup [op : {"RMV"}, name : Names, pwd : {None}]
          \cup [op : {"RFS", "CLS"}, name : {None}, pwd : {None}]

NodeStates ==
  [id : Peers, ip : BOOLEAN, alive : BOOLEAN, fsa : Accepts \cup {None},
   pc : {"none", "sleep", "wait", "clear", "destroy", "remove", "end"},
   t : BOOLEAN, peer : Peers, of : Peers]
AcceptStates ==
  [pc : {"none", "new", "run", "clear", "destroy", "remove"}, t : BOOLEAN,
   node : Nodes \cup {None}, peer : Peers, in : Orders \cup {None}]
ListenStates ==
  [pc : {"accept", "find", "add", "set", "start", "stopped"}, msg : Lines \cup {None},
   node : Nodes \cup {None}, todo : SUBSET Names, changed : BOOLEAN]
ServerStates ==
  [pc : {"down", "connect", "idf", "usr", "up"}, tries : 0 .. MAX_TRY - 1,
   reply : {None, "CFM", "ERM", "BAD", "STAT"}, main : Nodes \cup {None},
   user : {"none", "idle", "status", "made", "adding", "removing", "changing",
           "local", "erased", "truncated"},
   arg : Names \cup {None}, old : Pwds \cup {None}, clients : Clients, file : Clients,
   dir : [Names -> {"no", "empty", "full"}]]

TypeOK ==
  /\ records \subseteq [name : Names, pwd : Pwds, owner : Nodes]
  /\ fsnodes \in Seq(Nodes)
  /\ node \in [Nodes -> NodeStates]
  /\ accept \in [Accepts -> AcceptStates]
  /\ lst \in ListenStates
  /\ backlog \in Seq(Lines)
  /\ lost \subseteq Servers /\ stolen \subseteq Names
  /\ srv \in [Servers -> ServerStates]

\* The master never has two records of one name: addClient looks and adds in
\* one synchronized step, whichever threads call it.  And the state is well
\* typed; a server in particular never tries more than MAX_TRY times.
NamesUnique ==
  /\ TypeOK /\ torn \subseteq Nodes
  /\ \A r, q \in records : r.name = q.name => r = q

\* A record whose owner was destroyed is still going to be removed: some
\* thread of that node has its removeDead before it.  garbageCollection may
\* drop the node first, an Accept thread may add a record to a node that the
\* Request thread already removed, destroy may throw in one of them.
DeadRecordsHaveRemover ==
  \A r \in records : ~node[r.owner].alive =>
    \/ node[r.owner].pc \in {"sleep", "wait", "clear", "remove"}
    \/ \E a \in Accepts : /\ accept[a].node = r.owner
                          /\ accept[a].pc \in {"new", "run", "clear", "remove"}

\* s is registered: both connections lead to threads of one live node, and
\* the user thread is between two commands.
Settled(s, n) ==
  /\ srv[s].pc = "up" /\ srv[s].user = "idle"
  /\ srv[s].main = n /\ node[n].peer = s /\ node[n].alive
  /\ \E a \in Accepts : accept[a].peer = s /\ accept[a].node = n

\* While a file server is registered and no command is under way, the master
\* knows exactly its clients, with the same passwords: after refused and
\* confirmed commands, broken connections and restarts on either side.  A
\* name that another server removed or changed is excepted (RMV and PWD do
\* not look at the owner).
RecordsAgree ==
  \A s \in Servers, n \in Nodes : Settled(s, n) =>
    \A c \in Names \ stolen :
      srv[s].clients[c] =
        LET mine == {r \in records : r.name = c /\ r.owner = n}
        IN  IF mine = {} THEN None ELSE (CHOOSE r \in mine : TRUE).pwd

\* A client the master records is in clients.txt of its server, so that the
\* server still has it after a crash: -a writes the file before it asks the
\* master, -r asks the master before it writes the file.  While -r rewrites the
\* file it is empty; what is about to be written has the client then, and only
\* the records that the master has of a server killed at that moment are lost.
RecordedIsDurable ==
  \A r \in records :
    LET v == srv[node[r.owner].of]
    IN  \/ v.file[r.name] # None
        \/ v.user = "truncated" /\ v.clients[r.name] # None
        \/ r.owner \in torn

\* A registered file server whose connection is gone is removed with all its
\* records (the heartbeat fails, clear destroys the node, removeDead).
GoneIsForgotten ==
  \A n \in Nodes :
    (n \in Range(fsnodes) /\ node[n].peer = None)
      ~> (n \notin Range(fsnodes) /\ \A r \in records : r.owner # n)
=============================================================================
