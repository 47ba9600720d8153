----------------------------- MODULE DropboxSync ------------------------------
(***************************************************************************)
(* The synchronisation of one account of the Dropbox sample: terminals     *)
(* (client processes of the account, src/.../client), the syncer threads   *)
(* that serve them (src/.../fileserver), and the file manager with its     *)
(* stream writer and parser, which both sides use (src/.../utils).         *)
(*                                                                         *)
(* The master is left out: finding the file server succeeds or fails, and   *)
(* the server may lose the master, which makes it cancel its syncers.       *)
(* A path is a file or a directory for ever, directories do not nest, and  *)
(* two edits of a file have different modification times.                  *)
(***************************************************************************)
EXTENDS Naturals, FiniteSets, Sequences

CONSTANTS
  Terminals,   \* client processes of the account
  Dirs, Files, \* paths below the home directory
  In,          \* the directory of each file, or Home
  Home, None,
  MaxEdits,    \* bound: user edits in a behaviour
  MaxFaults    \* bound: faults in a behaviour

Paths == Dirs \cup Files

ASSUME SyncAssumption ==
  /\ Dirs \cap Files = {} /\ Home \notin Paths
  /\ In \in [Files -> Dirs \cup {Home}]

VARIABLES
  home,    \* the directory of each terminal
  cl,      \* the client process of each terminal
  sy,      \* the syncer of each terminal
  disk,    \* the directory of the account on the server
  up,      \* is the terminal's connection to the file server open?
  orphans, \* terminals whose last confirmed connection is closed
  wire,    \* the message on that connection; the two sides take turns
  newest,  \* versions made of each file so far
  local,   \* history: paths that processReceivedFileMap recorded in the
           \* client's map although the server did not have them so
  writer,  \* the stream each client writes: the file whose length is written
           \* and not yet its content, what is written, and if it is in step
  list,    \* terminals whose syncers are on the client node's list
  ending,  \* terminals whose cancelled syncer is to leave its loop
  left,    \* cancelled syncers whose terminals have connected again
  overlap, \* history: a syncer was accepted beside one that was cancelled
  garbled, \* history: a stream got out of step
  edits, faults

syncing == <<list, ending, left, overlap>>
writing == <<writer, garbled>>

vars == <<home, cl, sy, disk, up, orphans, wire, newest, local, syncing, writing,
          edits, faults>>

\* An entry of a directory: directories have no versions.
Absent == [v |-> 0, there |-> FALSE]
Same(a, b) == a.there = b.there /\ (a.there => a.v = b.v)

(* known compares the file map with the directory: the entry is not in the *)
(* map ("none"), in it with the present modification time ("same"), or in  *)
(* it with another time or gone ("old").                                   *)
NoMap == [p \in Paths |-> "none"]
NoOps == [p \in Paths |-> "-"]
Nothing == [p \in Paths |-> Absent]
Unwritten == [open |-> None, done |-> {}, fit |-> TRUE]
Party(pc) == [pc |-> pc, known |-> NoMap, ops |-> NoOps, vals |-> Nothing]

Init ==
  /\ home = [t \in Terminals |-> Nothing]
  /\ cl = [t \in Terminals |-> Party("off")]
  /\ sy = [t \in Terminals |-> Party("none")]
  /\ disk = Nothing
  /\ up = [t \in Terminals |-> FALSE]
  /\ orphans = Terminals
  /\ wire = [t \in Terminals |-> None]
  /\ newest = [f \in Files |-> 0]
  /\ local = [t \in Terminals |-> {}]
  /\ writer = [t \in Terminals |-> Unwritten]
  /\ list = {} /\ ending = {} /\ left = <<>>
  /\ overlap = FALSE /\ garbled = FALSE
  /\ edits = 0 /\ faults = 0

-----------------------------------------------------------------------------
(* DropboxFileManager, SyncStreamWriter and SyncStreamParser               *)

\* buildFileMapRecursive
Scan(dir) == [p \in Paths |-> IF dir[p].there THEN "same" ELSE "none"]

\* writeFromFileMap: what the new map differs in from the previous one.
Operations(known, dir) ==
  [p \in Paths |-> CASE dir[p].there /\ known[p] = "none" -> "ADD"
                     [] dir[p].there /\ known[p] = "old"  -> "MOD"
                     [] ~dir[p].there /\ known[p] # "none" -> "DEL"
                     [] OTHER -> "-"]

\* checkDiff after buildFileMap: the maps are equal.
checkDiff(known, dir) == Operations(known, dir) = NoOps

\* A change of an entry changes its time and that of its directory.
Touch(known, p) ==
  [q \in Paths |-> IF known[q] = "same" /\ (q = p \/ (p \in Files /\ q = In[p]))
                   THEN "old" ELSE known[q]]

\* What a step of another syncer does to a file map.
Moved(known, from, to) ==
  [q \in Paths |-> IF known[q] = "same"
                      /\ \/ from[q] # to[q]
                         \/ \E f \in Files : In[f] = q /\ from[f] # to[f]
                   THEN "old" ELSE known[q]]

\* writeOperations opens each of these again; one that is gone throws.
Contents(ops) == {p \in Paths : ops[p] \in {"ADD", "MOD"}}

Todo(x) == {p \in Paths : x.ops[p] # "-"}

\* processReceivedFileMap: directories first.
Ready(x, p) == p \in Todo(x) /\ (p \in Files => Todo(x) \cap Dirs = {})

\* Creating a file in a directory that is not there throws.
Throws(x, dir, p) ==
  /\ p \in Files /\ x.ops[p] \in {"ADD", "MOD"}
  /\ In[p] # Home /\ ~dir[In[p]].there

\* A directory is deleted with all its files.
Deleted(x, dir, d) ==
  [q \in Paths |-> IF q = d THEN Absent
                  ELSE IF q \in Files /\ In[q] = d /\ dir[q].there
                  THEN [v |-> x.vals[q].v, there |-> FALSE] ELSE dir[q]]

\* One entry of it.
Applied(x, dir, p) ==
  CASE p \in Dirs /\ x.ops[p] = "ADD" -> [dir EXCEPT ![p].there = TRUE]
    [] p \in Dirs /\ x.ops[p] = "DEL" -> Deleted(x, dir, p)
    [] p \in Files /\ x.ops[p] \in {"ADD", "MOD"} -> [dir EXCEPT ![p] = x.vals[p]]
    [] p \in Files /\ x.ops[p] = "DEL" ->
         IF dir[p].there THEN [dir EXCEPT ![p] = x.vals[p]] ELSE dir
    [] OTHER -> dir

Done(x, p) == [x EXCEPT !.ops[p] = "-"]

Message(to, head) == [to |-> to, head |-> head, ops |-> NoOps, vals |-> Nothing]
Data(to, x) == [to |-> to, head |-> "DATA", ops |-> x.ops, vals |-> x.vals]

SetCl(t, x) == cl' = [cl EXCEPT ![t] = x]
SetSy(t, x) == sy' = [sy EXCEPT ![t] = x]
Send(t, m) == wire' = [wire EXCEPT ![t] = IF up[t] THEN m ELSE None]
Arrived(t, to, head) == wire[t] # None /\ wire[t].to = to /\ wire[t].head = head
Close(t) == up' = [up EXCEPT ![t] = FALSE] /\ orphans' = orphans \cup {t}

-----------------------------------------------------------------------------
(* DropboxClient                                                           *)

Keeps(x) == [x EXCEPT !.ops = NoOps, !.vals = Nothing]
Reconnect(t) == SetCl(t, [Keeps(cl[t]) EXCEPT !.pc = "connect"])

\* The user starts the client: empty file maps.
Start(t) ==
  /\ cl[t].pc = "off"
  /\ SetCl(t, Party("connect"))
  /\ UNCHANGED <<home, sy, disk, up, orphans, wire, newest, local, syncing, writing, edits, faults>>

\* run: ask the master, connect to the file server, send the account.
Connect(t) ==
  /\ cl[t].pc = "connect" /\ wire[t] = None
  /\ up' = [up EXCEPT ![t] = TRUE]
  /\ wire' = [wire EXCEPT ![t] = Message("server", "INIT")]
  /\ SetCl(t, [cl[t] EXCEPT !.pc = "init"])
  /\ UNCHANGED <<home, sy, disk, orphans, newest, local, syncing, writing, edits, faults>>

\* run: the master or the file server is not there, and the client ends.
Abort(t) ==
  /\ cl[t].pc = "connect" /\ faults < MaxFaults
  /\ faults' = faults + 1
  /\ SetCl(t, Party("off"))
  /\ UNCHANGED <<home, sy, disk, up, orphans, wire, newest, local, syncing, writing, edits>>

\* run: confirmed, prepareSync sends the query; refused, the client ends.
ClientReply(t) ==
  /\ cl[t].pc = "init" /\ up[t]
  /\ \/ /\ Arrived(t, "client", "CONFIRM")
        /\ SetCl(t, [cl[t] EXCEPT !.pc = "query"])
        /\ Send(t, Message("server", "QUERY"))
        /\ UNCHANGED <<up, orphans>>
     \/ /\ Arrived(t, "client", "FULL")
        /\ SetCl(t, Party("off"))
        /\ wire' = [wire EXCEPT ![t] = None]
        /\ Close(t)
  /\ UNCHANGED <<home, sy, disk, newest, local, syncing, writing, edits, faults>>

\* Mutant: a client that has files skips the first download.
MutantClientData(t) ==
  /\ cl[t].pc \in {"query", "wait"} /\ Arrived(t, "client", "DATA")
  /\ IF cl[t].pc = "query" /\ home[t] # Nothing
     THEN SetCl(t, [cl[t] EXCEPT !.pc = "wait"]) /\ Send(t, Message("server", "NULL"))
     ELSE /\ SetCl(t, [cl[t] EXCEPT !.pc = "apply", !.ops = wire[t].ops, !.vals = wire[t].vals])
          /\ wire' = [wire EXCEPT ![t] = None]
  /\ UNCHANGED <<home, sy, disk, up, orphans, newest, local, syncing, writing, edits, faults>>

\* sync, PACK_DATA_HEAD: the whole stream is parsed first.
ClientData(t) ==
  /\ cl[t].pc \in {"query", "wait"} /\ Arrived(t, "client", "DATA")
  /\ SetCl(t, [cl[t] EXCEPT !.pc = "apply", !.ops = wire[t].ops, !.vals = wire[t].vals])
  /\ wire' = [wire EXCEPT ![t] = None]
  /\ UNCHANGED <<home, sy, disk, up, orphans, newest, local, syncing, writing, edits, faults>>

\* processReceivedFileMap on the client, between edits of its user.
ClientApply(t, p) ==
  /\ cl[t].pc = "apply" /\ Ready(cl[t], p)
  /\ IF Throws(cl[t], home[t], p)
     THEN Reconnect(t) /\ Close(t) /\ UNCHANGED home
     ELSE /\ home' = [home EXCEPT ![t] = Applied(cl[t], home[t], p)]
          /\ SetCl(t, [Done(cl[t], p) EXCEPT !.known = Touch(@, p)])
          /\ UNCHANGED <<up, orphans>>
  /\ UNCHANGED <<sy, disk, wire, newest, local, syncing, writing, edits, faults>>

\* Its end: both maps are built anew from the directory, and an empty
\* header is sent.
ClientApplied(t) ==
  /\ cl[t].pc = "apply" /\ Todo(cl[t]) = {}
  /\ SetCl(t, [Keeps(cl[t]) EXCEPT !.pc = "wait", !.known = Scan(home[t])])
  /\ local' = [local EXCEPT ![t] = {p \in Paths : ~Same(home[t][p], disk[p])}]
  /\ Send(t, Message("server", "NULL"))
  /\ UNCHANGED <<home, sy, disk, up, orphans, newest, syncing, writing, edits, faults>>

\* What a scan sends is no longer unknown to the server.
Sends(ops) == {p \in Paths : ops[p] \in {"ADD", "DEL"} \/ (p \in Files /\ ops[p] = "MOD")}

\* sync, PACK_NULL_HEAD: the client's turn.
ClientTurn(t) ==
  LET ops == Operations(cl[t].known, home[t]) IN
  /\ cl[t].pc = "wait" /\ Arrived(t, "client", "NULL")
  /\ IF checkDiff(cl[t].known, home[t])
     THEN Send(t, Message("server", "NULL")) /\ UNCHANGED <<cl, local, writer>>
     ELSE /\ SetCl(t, [cl[t] EXCEPT !.pc = "write", !.ops = ops, !.vals = home[t],
                                    !.known = Scan(home[t])])
          /\ wire' = [wire EXCEPT ![t] = None]
          /\ local' = [local EXCEPT ![t] = @ \ Sends(ops)]
          /\ writer' = [writer EXCEPT ![t] = Unwritten]
  /\ UNCHANGED <<home, sy, disk, up, orphans, newest, syncing, garbled, edits, faults>>

\* writeOperations: an entry is written as it is then, for the user may have
\* edited since the scan. A file is opened and its length written ...
WriteEntry(t, p) ==
  /\ cl[t].pc = "write" /\ up[t] /\ writer[t].open = None
  /\ p \in Contents(cl[t].ops) \ writer[t].done
  /\ IF ~home[t][p].there
     THEN Reconnect(t) /\ Close(t) /\ UNCHANGED writer
     ELSE /\ SetCl(t, [cl[t] EXCEPT !.vals[p] = home[t][p]])
          /\ writer' = [writer EXCEPT ![t].open = IF p \in Files THEN p ELSE None,
                                      ![t].done = @ \cup {p}]
          /\ UNCHANGED <<up, orphans>>
  /\ UNCHANGED <<home, sy, disk, wire, newest, local, syncing, garbled, edits, faults>>

\* ... and then its content, up to its end. After an edit in between that is
\* the old file, another one of the same length, or one that does not fit.
WriteContent(t) ==
  LET p == writer[t].open IN
  /\ cl[t].pc = "write" /\ up[t] /\ p # None
  /\ \E v \in {cl[t].vals[p], home[t][p]}, fit \in BOOLEAN :
       /\ v.there
       /\ ~fit => v = cl[t].vals[p] /\ home[t][p] # v
       /\ SetCl(t, [cl[t] EXCEPT !.vals[p] = v])
       /\ writer' = [writer EXCEPT ![t].open = None, ![t].fit = @ /\ fit]
       /\ garbled' = (garbled \/ ~fit)
  /\ UNCHANGED <<home, sy, disk, up, orphans, wire, newest, local, syncing, edits, faults>>

\* Mutant: the map is built anew once the stream is written.
MutantClientWrite(t) ==
  /\ cl[t].pc = "write" /\ up[t] /\ writer[t].open = None
  /\ Contents(cl[t].ops) \subseteq writer[t].done
  /\ Send(t, IF writer[t].fit THEN Data("server", cl[t]) ELSE Message("server", "JUNK"))
  /\ SetCl(t, [Keeps(cl[t]) EXCEPT !.pc = "wait", !.known = Scan(home[t])])
  /\ writer' = [writer EXCEPT ![t] = Unwritten]
  /\ UNCHANGED <<home, sy, disk, up, orphans, newest, local, syncing, garbled, edits, faults>>

\* The stream is written.
ClientWrite(t) ==
  /\ cl[t].pc = "write" /\ up[t] /\ writer[t].open = None
  /\ Contents(cl[t].ops) \subseteq writer[t].done
  /\ Send(t, IF writer[t].fit THEN Data("server", cl[t]) ELSE Message("server", "JUNK"))
  /\ SetCl(t, [Keeps(cl[t]) EXCEPT !.pc = "wait"])
  /\ writer' = [writer EXCEPT ![t] = Unwritten]
  /\ UNCHANGED <<home, sy, disk, up, orphans, newest, local, syncing, garbled, edits, faults>>

\* A stream out of step: the client waits for the rest of what it takes for
\* a length or skips what it takes for a head, or it ends with an exception.
ClientJunk(t) ==
  /\ cl[t].pc \in {"query", "wait"} /\ Arrived(t, "client", "JUNK")
  /\ wire' = [wire EXCEPT ![t] = None]
  /\ \/ UNCHANGED <<cl, up, orphans>>
     \/ SetCl(t, Party("off")) /\ Close(t)
  /\ UNCHANGED <<home, sy, disk, newest, local, syncing, writing, edits, faults>>

\* An IOException of a closed connection; what arrived is read first.
ClientBroken(t) ==
  /\ ~up[t] /\ cl[t].pc \in {"init", "query", "wait", "write"}
  /\ wire[t] = None
  /\ Reconnect(t)
  /\ UNCHANGED <<home, sy, disk, up, orphans, wire, newest, local, syncing, writing, edits, faults>>

ClientStep(t) ==
  \/ Connect(t) \/ ClientReply(t) \/ ClientData(t) \/ ClientApplied(t)
  \/ ClientTurn(t) \/ WriteContent(t) \/ ClientWrite(t) \/ ClientJunk(t)
  \/ ClientBroken(t)
  \/ \E p \in Paths : ClientApply(t, p) \/ WriteEntry(t, p)

-----------------------------------------------------------------------------
(* DropboxFileServerClientNet and DropboxFileServerSyncer                  *)

\* run of ClientNet: one syncer of the account may be on the list, dead ones
\* included, which the timer takes off. One that was cancelled is not on it.
Accept(t) ==
  /\ Arrived(t, "server", "INIT")
  /\ IF list # {}
     THEN Send(t, Message("client", "FULL")) /\ UNCHANGED <<sy, orphans, syncing>>
     ELSE /\ Send(t, Message("client", "CONFIRM"))
          /\ SetSy(t, Party("read"))
          /\ list' = {t} /\ ending' = ending \ {t}
          /\ left' = IF sy[t].pc = "apply" THEN Append(left, sy[t]) ELSE left
          /\ overlap' = (overlap \/ \E s \in Terminals : sy[s].pc # "none")
          /\ orphans' = IF up[t] THEN orphans \ {t} ELSE orphans
  /\ UNCHANGED <<home, cl, disk, up, newest, local, writing, edits, faults>>

\* A cancelled syncer leaves its loop after the message it was reading.
Leaves(t) == ending' = IF t \in list THEN ending ELSE ending \cup {t}

\* sync, PACK_QUERY_HEAD and PACK_NULL_HEAD: the server's turn.
SyncerTurn(t) ==
  LET ops == Operations(sy[t].known, disk) IN
  /\ sy[t].pc = "read" /\ t \notin ending
  /\ Arrived(t, "server", "QUERY") \/ Arrived(t, "server", "NULL")
  /\ IF wire[t].head = "NULL" /\ checkDiff(sy[t].known, disk)
     THEN Send(t, Message("client", "NULL")) /\ UNCHANGED sy
     ELSE /\ Send(t, Data("client", [sy[t] EXCEPT !.ops = ops, !.vals = disk]))
          /\ SetSy(t, [sy[t] EXCEPT !.known = Scan(disk)])
  /\ Leaves(t)
  /\ UNCHANGED <<home, cl, disk, up, orphans, newest, local, list, left, overlap,
                 writing, edits, faults>>

\* run and clear: a syncer ends. The timer takes it off the list.
Ends(t) == SetSy(t, Party(IF t \in list THEN "dead" ELSE "none"))
Hangup(t) == IF t \in orphans THEN UNCHANGED <<up, orphans>> ELSE Close(t)

\* Its stream gets out of step, or a file of it is gone, when another syncer
\* applies one meanwhile.
SyncerMeddled(t) ==
  /\ sy[t].pc = "read" /\ t \notin ending
  /\ Arrived(t, "server", "QUERY") \/ Arrived(t, "server", "NULL")
  /\ \/ \E s \in Terminals \ {t} : sy[s].pc = "apply"
     \/ \E i \in DOMAIN left : left[i].pc = "apply"
  /\ \/ /\ Send(t, Message("client", "JUNK")) /\ garbled' = TRUE
        /\ SetSy(t, [sy[t] EXCEPT !.known = Scan(disk)]) /\ Leaves(t)
        /\ UNCHANGED <<up, orphans>>
     \/ /\ Ends(t) /\ Hangup(t)
        /\ wire' = [wire EXCEPT ![t] = None]
        /\ UNCHANGED <<ending, garbled>>
  /\ UNCHANGED <<home, cl, disk, newest, local, list, left, overlap, writer, edits, faults>>

\* sync, PACK_DATA_HEAD.
SyncerData(t) ==
  /\ sy[t].pc = "read" /\ t \notin ending /\ Arrived(t, "server", "DATA")
  /\ SetSy(t, [sy[t] EXCEPT !.pc = "apply", !.ops = wire[t].ops, !.vals = wire[t].vals])
  /\ wire' = [wire EXCEPT ![t] = None]
  /\ UNCHANGED <<home, cl, disk, up, orphans, newest, local, syncing, writing, edits, faults>>

\* A stream out of step: see ClientJunk. The exception is none that run
\* catches: the syncer stays on the list and its connection open.
SyncerJunk(t) ==
  /\ sy[t].pc = "read" /\ t \notin ending /\ Arrived(t, "server", "JUNK")
  /\ wire' = [wire EXCEPT ![t] = None]
  /\ UNCHANGED sy \/ SetSy(t, Party(IF t \in list THEN "hung" ELSE "none"))
  /\ UNCHANGED <<home, cl, disk, up, orphans, newest, local, syncing, writing, edits, faults>>

\* processReceivedFileMap on the server.
SyncerApply(t, p) ==
  LET to == Applied(sy[t], disk, p) IN
  /\ sy[t].pc = "apply" /\ Ready(sy[t], p)
  /\ IF Throws(sy[t], disk, p)
     THEN Ends(t) /\ Hangup(t) /\ UNCHANGED disk
     ELSE /\ disk' = to
          /\ sy' = [s \in Terminals |->
                      IF s = t THEN [Done(sy[t], p) EXCEPT !.known = Touch(@, p)]
                      ELSE [sy[s] EXCEPT !.known = Moved(@, disk, to)]]
          /\ UNCHANGED <<up, orphans>>
  /\ UNCHANGED <<home, cl, wire, newest, local, syncing, writing, edits, faults>>

SyncerApplied(t) ==
  /\ sy[t].pc = "apply" /\ Todo(sy[t]) = {}
  /\ SetSy(t, [Keeps(sy[t]) EXCEPT !.pc = "read", !.known = Scan(disk)])
  /\ IF t \in orphans THEN UNCHANGED wire ELSE Send(t, Message("client", "NULL"))
  /\ Leaves(t)
  /\ UNCHANGED <<home, cl, disk, up, orphans, newest, local, list, left, overlap,
                 writing, edits, faults>>

\* run: the connection is closed; clear.
SyncerBroken(t) ==
  /\ sy[t].pc = "read" /\ t \in orphans
  /\ wire[t] # None => wire[t].head \in {"INIT", "FULL"}
  /\ Ends(t) /\ ending' = ending \ {t}
  /\ UNCHANGED <<home, cl, disk, up, orphans, wire, newest, local, list, left, overlap,
                 writing, edits, faults>>

\* Mutant: the connection stays open.
MutantSyncerEnds(t) ==
  /\ t \in ending /\ ending' = ending \ {t}
  /\ SetSy(t, Party("none"))
  /\ UNCHANGED <<home, cl, disk, up, orphans, wire, newest, local, list, left, overlap,
                 writing, edits, faults>>

\* run: the syncer was cancelled; clear. What arrived meanwhile is lost.
SyncerEnds(t) ==
  /\ t \in ending /\ ending' = ending \ {t}
  /\ SetSy(t, Party("none")) /\ Hangup(t)
  /\ wire' = [wire EXCEPT ![t] = IF @ # None /\ @.to = "server" /\ @.head # "INIT"
                                 THEN None ELSE @]
  /\ UNCHANGED <<home, cl, disk, newest, local, list, left, overlap, writing, edits, faults>>

\* The same for a cancelled syncer whose terminal has connected again.
LateApply(i, p) ==
  LET x == left[i]
      to == Applied(x, disk, p)
  IN
  /\ x.pc = "apply" /\ Ready(x, p)
  /\ IF Throws(x, disk, p)
     THEN left' = [left EXCEPT ![i] = Party("none")] /\ UNCHANGED <<sy, disk>>
     ELSE /\ left' = [left EXCEPT ![i] = Done(x, p)] /\ disk' = to
          /\ sy' = [s \in Terminals |-> [sy[s] EXCEPT !.known = Moved(@, disk, to)]]
  /\ UNCHANGED <<home, cl, up, orphans, wire, newest, local, list, ending, overlap,
                 writing, edits, faults>>

LateApplied(i) ==
  /\ left[i].pc = "apply" /\ Todo(left[i]) = {}
  /\ left' = [left EXCEPT ![i] = Party("none")]
  /\ UNCHANGED <<home, cl, sy, disk, up, orphans, wire, newest, local, list, ending, overlap,
                 writing, edits, faults>>

LateStep == \E i \in DOMAIN left : LateApplied(i) \/ \E p \in Paths : LateApply(i, p)

\* The timer: removeDeadSyncer.
garbageCollection ==
  LET dead == {t \in Terminals : sy[t].pc = "dead"} IN
  /\ dead # {} /\ list' = list \ dead
  /\ sy' = [t \in Terminals |-> IF t \in dead THEN Party("none") ELSE sy[t]]
  /\ UNCHANGED <<home, cl, disk, up, orphans, wire, newest, local, ending, left, overlap,
                 writing, edits, faults>>

SyncerStep(t) ==
  \/ SyncerTurn(t) \/ SyncerMeddled(t) \/ SyncerData(t) \/ SyncerJunk(t)
  \/ SyncerApplied(t) \/ SyncerBroken(t) \/ SyncerEnds(t)
  \/ \E p \in Paths : SyncerApply(t, p)

-----------------------------------------------------------------------------
(* Users and faults                                                        *)

\* The user writes, deletes, makes or removes an entry of a terminal's home.
Edit(t, p) ==
  /\ edits < MaxEdits /\ edits' = edits + 1
  /\ \/ /\ p \in Files /\ (In[p] # Home => home[t][In[p]].there)
        /\ \E b \in BOOLEAN :
             /\ b \/ home[t][p].there
             /\ home' = [home EXCEPT ![t][p] = [v |-> newest[p] + 1, there |-> b]]
        /\ newest' = [newest EXCEPT ![p] = @ + 1]
     \/ /\ p \in Dirs /\ \A f \in Files : In[f] = p => ~home[t][f].there
        /\ home' = [home EXCEPT ![t][p].there = ~@]
        /\ UNCHANGED newest
  /\ SetCl(t, [cl[t] EXCEPT !.known = Touch(@, p)])
  /\ UNCHANGED <<sy, disk, up, orphans, wire, local, syncing, writing, faults>>

Fault == faults < MaxFaults /\ faults' = faults + 1

\* The connection breaks; what was sent on it arrives or is lost.
Cut(t) ==
  /\ up[t] /\ Fault
  /\ Close(t)
  /\ wire' \in {wire, [wire EXCEPT ![t] = None]}
  /\ UNCHANGED <<home, cl, sy, disk, newest, local, syncing, writing, edits>>

\* The client process is killed.
ClientCrash(t) ==
  /\ cl[t].pc # "off" /\ Fault
  /\ SetCl(t, Party("off"))
  /\ Close(t)
  /\ wire' = [wire EXCEPT ![t] = IF @ # None /\ @.to = "client" THEN None ELSE @]
  /\ UNCHANGED <<home, sy, disk, newest, local, syncing, writing, edits>>

\* The file server process is killed and started again.
ServerCrash ==
  /\ Fault
  /\ sy' = [t \in Terminals |-> Party("none")]
  /\ up' = [t \in Terminals |-> FALSE]
  /\ orphans' = Terminals
  /\ wire' = [t \in Terminals |-> IF wire[t] # None /\ wire[t].to = "server"
                                  THEN None ELSE wire[t]]
  /\ list' = {} /\ ending' = {} /\ left' = <<>>
  /\ UNCHANGED <<home, cl, disk, newest, local, overlap, writing, edits>>

\* The file server loses the master: cancelSyncers. stop tells each syncer to
\* leave its loop and forgets the thread, so that join has none to wait for;
\* one that is between two messages sees it, one that reads does not.
CancelSyncers ==
  /\ list # {} /\ Fault
  /\ list' = {}
  /\ sy' = [t \in Terminals |-> IF sy[t].pc \in {"dead", "hung"} THEN Party("none")
                                 ELSE sy[t]]
  /\ \E between \in SUBSET {t \in list : sy[t].pc = "read"} : ending' = ending \cup between
  /\ UNCHANGED <<home, cl, disk, up, orphans, wire, newest, local, left, overlap,
                 writing, edits>>

-----------------------------------------------------------------------------
Next ==
  \/ \E t \in Terminals :
       \/ Start(t) \/ Abort(t) \/ ClientStep(t) \/ Accept(t) \/ SyncerStep(t)
       \/ Cut(t) \/ ClientCrash(t)
       \/ \E p \in Paths : Edit(t, p)
  \/ LateStep \/ garbageCollection \/ ServerCrash \/ CancelSyncers

Spec == Init /\ [][Next]_vars

\* Threads that can go on do.  Users start clients and edit as they like.
FairSpec ==
  /\ Spec
  /\ \A t \in Terminals : WF_vars(ClientStep(t)) /\ WF_vars(SyncerStep(t))
  /\ WF_vars(LateStep)

-----------------------------------------------------------------------------
(* Properties *)
Entries == [v : Nat, there : BOOLEAN]
Trees == [Paths -> Entries]
Parties(pcs) == [pc : pcs, known : [Paths -> {"none", "same", "old"}],
                 ops : [Paths -> {"-", "ADD", "MOD", "DEL"}], vals : Trees]
Clients == Parties({"off", "connect", "init", "query", "wait", "apply", "write"})
Syncers == Parties({"none", "read", "apply", "dead", "hung"})
Packs == [to : {"client", "server"},
          head : {"INIT", "CONFIRM", "FULL", "QUERY", "NULL", "DATA", "JUNK"},
          ops : [Paths -> {"-", "ADD", "MOD", "DEL"}], vals : Trees]

Writers == [open : Files \cup {None}, done : SUBSET Paths, fit : BOOLEAN]

ASSUME PacksAssumption == None \notin Packs

TypeOK ==
  /\ home \in [Terminals -> Trees] /\ disk \in Trees
  /\ cl \in [Terminals -> Clients] /\ sy \in [Terminals -> Syncers]
  /\ up \in [Terminals -> BOOLEAN] /\ orphans \subseteq Terminals
  /\ wire \in [Terminals -> Packs \cup {None}]
  /\ newest \in [Files -> Nat] /\ local \in [Terminals -> SUBSET Paths]
  /\ writer \in [Terminals -> Writers] /\ left \in Seq(Syncers)
  /\ list \subseteq Terminals /\ ending \subseteq Terminals
  /\ overlap \in BOOLEAN /\ garbled \in BOOLEAN
  /\ \A f \in Files, dir \in {disk} \cup {home[t] : t \in Terminals} :
       dir[f].there /\ In[f] # Home => dir[In[f]].there

Synced(t) == t \notin orphans /\ cl[t].pc \in {"wait", "write"}

\* Synchronisation is in order: no stream got out of step, and no syncer was
\* accepted beside a cancelled one. Else the server may get anything.
InOrder == ~overlap /\ ~garbled

\* What a client takes for synchronised is on the server while all is in
\* order: when it is quiet between the two, every entry that was not changed
\* since the client last looked is the server's, unless it was recorded unsent
\* before (an edit made while the client was not connected or was applying the
\* first download). And the state is well typed, in order or not: on both sides
\* a file is in a directory that is there, however streams are applied.
SyncedIsOnServer ==
  /\ TypeOK
  /\ InOrder =>
       \A t \in Terminals :
         Synced(t) /\ (Arrived(t, "server", "NULL") \/ Arrived(t, "client", "NULL"))
           => \A p \in Paths \ local[t] :
                Operations(cl[t].known, home[t])[p] = "-" => Same(home[t][p], disk[p])

\* The server's copy never goes back to an older version while all is in
\* order: not when a terminal comes back with old files, when two terminals
\* take turns, when an edit races the stream that sends it, after a crash of
\* either side, or when the syncers are cancelled.
Replica == INSTANCE DropboxReplica
             WITH stored <- [f \in Files |-> disk[f].v], ordered <- InOrder
ServerMovesOn == Replica!Spec

\* A synchronised terminal catches up while all is in order: once its user
\* pauses, the server has all its files as they are, or the connection breaks,
\* whatever was edited while the stream was written, sent and applied.
CatchesUp ==
  \A t \in Terminals :
    []<>(InOrder /\ Synced(t) => \A p \in Paths \ local[t] : Same(home[t][p], disk[p]))
=============================================================================
