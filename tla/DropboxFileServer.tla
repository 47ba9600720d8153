-------------------------- MODULE DropboxFileServer --------------------------
(***************************************************************************)
(* The file servers of the Dropbox sample (src/Dropbox_wrapper/Dropbox/src/*)
(* fileserver): the client map with its clients.txt and its directories,   *)
(* the main thread that registers with the master and answers heartbeats,  *)
(* and the user thread that changes the client map.  Priorities are left   *)
(* out: nothing but printing reads them.                                   *)
(***************************************************************************)
EXTENDS DropboxMaster

CONSTANTS
  MAX_TRY,        \* attempts to connect before the server gives up
  MaxClientNum,   \* the option -mc of each server
  MaxCommands     \* bound: user commands in a behaviour

ASSUME ServerAssumption == MAX_TRY \in Nat \ {0}

VARIABLES
  commands        \* user commands typed so far

serverVars == <<srv, commands>>

(* pc: "down", "connect", "idf" and "usr" (a line was sent, no answer yet),*)
(* "up".  user: what the user thread does, "none" when there is none.      *)
(* main: the node whose main connection the process reads.                 *)
Off(file, dir) ==
  [pc |-> "down", tries |-> 0, reply |-> None, main |-> None,
   user |-> "none", arg |-> None, old |-> None, clients |-> NoClients,
   file |-> file, dir |-> dir]

ServerInit ==
  /\ srv = [s \in Servers |-> Off(NoClients, [c \in Names |-> "no"])]
  /\ commands = 0

Set(s, v) == srv' = [srv EXCEPT ![s] = v]
NumClients(s) == Cardinality({c \in Names : srv[s].clients[c] # None})

\* The process ends or closes its connections: no peer any more.
Hang(p, s) == IF p = s THEN None ELSE p
CloseMain(s) == node' = [n \in Nodes |-> [node[n] EXCEPT !.peer = Hang(@, s)]]
CloseUser(s) == accept' = [a \in Accepts |-> [accept[a] EXCEPT !.peer = Hang(@, s)]]

-----------------------------------------------------------------------------
(* Start and registration *)

\* Constructor: loadClientsFromFile, which makes the directories that are
\* missing.
Boot(s) ==
  /\ srv[s].pc = "down"
  /\ Set(s, [srv[s] EXCEPT !.pc = "connect", !.clients = srv[s].file,
               !.dir = [c \in Names |-> IF srv[s].file[c] # None /\ @[c] = "no"
                                        THEN "empty" ELSE @[c]]])
  /\ UNCHANGED <<masterVars, commands>>

Send(s, kind) ==
  backlog' = Append(backlog, [kind |-> kind, peer |-> s, id |-> s,
               entries |-> IF kind = "IDF" THEN srv[s].clients ELSE NoClients])

Refused == lst.pc = "stopped"

\* openConnections after a connect that returned false.  The sockets of the
\* failed attempt stay open.  After MAX_TRY attempts run() returns and the
\* process ends.
Retry(v) ==
  IF v.tries + 1 = MAX_TRY THEN Off(v.file, v.dir)
  ELSE [v EXCEPT !.pc = "connect", !.tries = @ + 1, !.reply = None]

\* A process that ends closes what it has open.
FailConnect(s) ==
  /\ Set(s, Retry(srv[s]))
  /\ IF srv[s].tries + 1 = MAX_TRY
     THEN /\ CloseMain(s) /\ CloseUser(s)
          /\ lost' = lost \ {s}
          /\ backlog' = [i \in DOMAIN backlog |->
                           [backlog[i] EXCEPT !.peer = Hang(@, s)]]
     ELSE UNCHANGED <<node, accept, lost, backlog>>
  /\ UNCHANGED <<records, fsnodes, lst, echo, commands, stolen>>

\* Timing: before a server connects again it slept TRY_CONNECT_MILLIS or was
\* started anew; by then the master has read the last line that the server
\* sent on an older connection.
OldLinesRead(s) ==
  \A a \in Accepts : accept[a].in # None => node[accept[a].node].of # s

\* connect: the main connection and the line IDF with all clients.
ConnectMain(s) ==
  /\ srv[s].pc = "connect" /\ OldLinesRead(s)
  /\ \/ Refused /\ FailConnect(s)
     \/ /\ ~Refused
        /\ Send(s, "IDF")
        /\ Set(s, [srv[s] EXCEPT !.pc = "idf", !.reply = None])
        /\ UNCHANGED <<records, fsnodes, node, accept, lst, lost, echo,
                       commands, stolen>>

\* The line s sent is waiting, or being worked on.
Pending(s) ==
  \/ \E i \in DOMAIN backlog : backlog[i].peer = s
  \/ lst.msg # None /\ lst.msg.peer = s
  \/ s \in lost

\* connect: the user connection and the line USR.
ConnectUser(s) ==
  /\ srv[s].pc = "idf" /\ srv[s].reply = "CFM"
  /\ \/ Refused /\ FailConnect(s)
     \/ /\ ~Refused
        /\ Send(s, "USR")
        /\ Set(s, [srv[s] EXCEPT !.pc = "usr", !.reply = None])
        /\ UNCHANGED <<records, fsnodes, node, accept, lst, lost, echo,
                       commands, stolen>>

\* connect: refused by the master, or the connection broke.
ConnectRefused(s) ==
  /\ \/ srv[s].pc = "idf" /\ srv[s].reply = "ERM"
     \/ srv[s].pc \in {"idf", "usr"} /\ srv[s].reply = None /\ ~Pending(s)
  /\ FailConnect(s)

\* connect returns true: client connections are accepted, the user thread
\* starts, the main thread listens to the master.
Registered(s) ==
  /\ srv[s].pc = "usr" /\ srv[s].reply = "CFM"
  /\ Set(s, [srv[s] EXCEPT !.pc = "up", !.tries = 0, !.reply = None,
                           !.user = "idle"])
  /\ UNCHANGED <<masterVars, commands>>

\* The user thread is not between two local steps: those take far less than
\* the TRY_CONNECT_MILLIS that the main thread sleeps.
UserRests(s) == srv[s].user \notin {"made", "erased", "truncated"}

\* listen: the main connection broke.  Both connections are closed, the user
\* thread is stopped, and the server registers again.  What cancelSyncers does
\* to the client nodes is CancelSyncers of DropboxSync.
Broken(s) ==
  /\ srv[s].pc = "up" /\ node[srv[s].main].peer # s /\ UserRests(s)
  /\ Set(s, [srv[s] EXCEPT !.pc = "connect", !.reply = None, !.main = None,
               !.user = "none", !.arg = None, !.old = None])
  /\ CloseUser(s)
  /\ UNCHANGED <<records, fsnodes, node, lst, backlog, lost, echo,
                 commands, stolen>>

-----------------------------------------------------------------------------
(* The user thread.  A command sends one line to the Accept thread and     *)
(* waits for its answer; an exception ends the user thread.                *)

Line(s) == {a \in Accepts : accept[a].peer = s}
Message(op, c, p) == [op |-> op, name |-> c, pwd |-> p]

\* Send m and wait in state st, or end the thread when the connection broke.
Ask(s, v, m, st) ==
  IF Line(s) = {}
  THEN /\ Set(s, [v EXCEPT !.user = "none", !.arg = None, !.old = None])
       /\ UNCHANGED accept
  ELSE /\ Set(s, [v EXCEPT !.user = st])
       /\ accept' = [a \in Accepts |-> IF a \in Line(s)
                       THEN [accept[a] EXCEPT !.in = m] ELSE accept[a]]

Typed(s) ==
  /\ srv[s].pc = "up" /\ srv[s].user = "idle" /\ commands < MaxCommands
  /\ commands' = commands + 1

\* -q
CmdStatus(s) ==
  /\ Typed(s)
  /\ Ask(s, srv[s], Message("RFS", None, None), "status")
  /\ UNCHANGED <<records, fsnodes, node, lst, backlog, lost, echo, stolen>>

\* -a: checks, then the directory ...
CmdAdd(s, c, p) ==
  /\ Typed(s)
  /\ NumClients(s) # MaxClientNum
  /\ srv[s].clients[c] = None /\ srv[s].dir[c] = "no"
  /\ Set(s, [srv[s] EXCEPT !.user = "made", !.arg = c, !.old = p,
                           !.dir[c] = "empty"])
  /\ UNCHANGED masterVars

\* ... the map, the line in clients.txt, and the master.
AddAsk(s) ==
  LET c == srv[s].arg
      v == [srv[s] EXCEPT !.clients[c] = srv[s].old, !.file[c] = srv[s].old]
  IN
  /\ srv[s].user = "made"
  /\ Ask(s, v, Message("ADD", c, srv[s].old), "adding")
  /\ UNCHANGED <<records, fsnodes, node, lst, backlog, lost, echo,
                 commands, stolen>>

\* -r: the master removes the name first, whoever owns it.
CmdRemove(s, c) ==
  /\ Typed(s)
  /\ "foreign" \in Env \/ srv[s].clients[c] # None
  /\ Ask(s, [srv[s] EXCEPT !.arg = c], Message("RMV", c, None), "removing")
  /\ UNCHANGED <<records, fsnodes, node, lst, backlog, lost, echo, stolen>>

\* -w: the map (never clients.txt), then the master.
CmdPassword(s, c, p) ==
  /\ Typed(s)
  /\ srv[s].clients[c] # None
  /\ Ask(s, [srv[s] EXCEPT !.arg = c, !.old = srv[s].clients[c],
                           !.clients[c] = p],
         Message("PWD", c, p), "changing")
  /\ UNCHANGED <<records, fsnodes, node, lst, backlog, lost, echo, stolen>>

Rest(v) == [v EXCEPT !.user = "idle", !.arg = None, !.old = None,
                     !.reply = None]

\* Mutant: a refused add is not undone.
MutantErased(v, c) == v

\* ClientNode.clear deletes the directory only when it is empty; the name
\* leaves the map in any case.  A name that is not in the map leaves all
\* as it is.
Erased(v, c) ==
  IF v.clients[c] = None THEN v
  ELSE [v EXCEPT !.clients[c] = None,
                 !.dir[c] = IF @ = "empty" THEN "no" ELSE @]
Deletes(v, c) == v.clients[c] # None /\ v.dir[c] = "empty"

\* The answer of the master.  A refused add is undone, a confirmed remove is
\* done locally until it succeeds, a refused password is set back.
UserAnswer(s) ==
  LET v == srv[s]  c == srv[s].arg  yes == srv[s].reply = "CFM" IN
  /\ v.pc = "up" /\ v.reply # None
  /\ \/ v.user = "status" /\ Set(s, Rest(v))
     \/ v.user = "adding" /\ yes /\ Set(s, Rest(v))
     \/ /\ v.user = "adding" /\ ~yes
        /\ Set(s, IF Deletes(v, c)
                  THEN [Erased(v, c) EXCEPT !.user = "erased", !.reply = None]
                  ELSE Rest(Erased(v, c)))
     \/ v.user = "removing" /\ yes /\ Set(s, [v EXCEPT !.user = "local", !.reply = None])
     \/ v.user = "removing" /\ ~yes /\ Set(s, Rest(v))
     \/ v.user = "changing" /\ yes /\ Set(s, Rest(v))
     \/ v.user = "changing" /\ ~yes /\ Set(s, Rest([v EXCEPT !.clients[c] = v.old]))
  /\ UNCHANGED <<masterVars, commands>>

\* The loop of -r: removeClient until it returns true.
RemoveLocal(s) ==
  LET v == srv[s]  c == srv[s].arg IN
  /\ v.user = "local"
  /\ Set(s, [Erased(v, c) EXCEPT
               !.user = IF Deletes(v, c) THEN "erased" ELSE "local"])
  /\ UNCHANGED <<masterVars, commands>>

\* removeClient: writeClientsToFile opens clients.txt, which empties it ...
TruncateFile(s) ==
  /\ srv[s].user = "erased"
  /\ Set(s, [srv[s] EXCEPT !.file = NoClients, !.user = "truncated"])
  /\ UNCHANGED <<masterVars, commands>>

\* Mutant: what is written stays in the buffer of the writer.
MutantWriteFile(s) ==
  /\ srv[s].user = "truncated"
  /\ Set(s, Rest(srv[s]))
  /\ UNCHANGED <<masterVars, commands>>

\* ... and writes the map to it.
WriteFile(s) ==
  /\ srv[s].user = "truncated"
  /\ Set(s, Rest([srv[s] EXCEPT !.file = srv[s].clients]))
  /\ UNCHANGED <<masterVars, commands>>

\* An answer that can no longer come ends the user thread.
UserBroken(s) ==
  /\ srv[s].pc = "up" /\ srv[s].reply = None /\ Line(s) = {}
  /\ srv[s].user \in {"status", "adding", "removing", "changing"}
  /\ Set(s, [srv[s] EXCEPT !.user = "none", !.arg = None, !.old = None])
  /\ UNCHANGED <<masterVars, commands>>

\* A client stores its first file.
ClientStores(s, c) ==
  /\ "full" \in Env
  /\ srv[s].pc = "up" /\ srv[s].clients[c] # None /\ srv[s].dir[c] = "empty"
  /\ srv[s].user = "idle"
  /\ Set(s, [srv[s] EXCEPT !.dir[c] = "full"])
  /\ UNCHANGED <<masterVars, commands>>

ServerStep(s) ==
  \/ Boot(s) \/ ConnectMain(s) \/ ConnectUser(s) \/ ConnectRefused(s)
  \/ Registered(s) \/ Broken(s) \/ CmdStatus(s) \/ AddAsk(s)
  \/ UserAnswer(s) \/ RemoveLocal(s) \/ TruncateFile(s) \/ WriteFile(s) \/ UserBroken(s)
  \/ \E c \in Names : CmdRemove(s, c) \/ ClientStores(s, c)
                      \/ \E p \in Pwds : CmdAdd(s, c, p) \/ CmdPassword(s, c, p)
=============================================================================
