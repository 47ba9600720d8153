--------------------------- MODULE SnowcastServer ---------------------------
(* The threads of snowcast_server.c: the select loop of main, the operator's *)
(* user_input, and the loop_song of each station, over the shared lists.     *)
(* Code between a lock and its unlock is one step unless another thread can  *)
(* be in the middle of it.  The model stops where the process would: at a    *)
(* failed assert, at a use of freed or NULL memory, at exit.                 *)
EXTENDS SnowcastLists

CONSTANTS InitialStations,  \* how many stations the command line names
          MaxCounter,       \* bound on counter, which nothing takes down again
          Env,              \* what the clients, files and sockets may do
          Commands          \* the commands the operator may type

\* leave: a client disconnects; move: it changes its station; same: it sets the
\* station it has; early_set: it sets one before HELLO; early_leave: it leaves
\* before HELLO; busy: more clients connect than the table holds; no_udp: the
\* udp socket cannot be made; next_song: songs end; bad_song: one cannot be
\* opened.
Events == {"leave", "move", "same", "early_set", "early_leave", "busy", "no_udp",
           "next_song", "bad_song"}

ASSUME ServerAssumption ==
  /\ Env \subseteq Events
  /\ Commands \subseteq {"a", "d", "s", "l", "q"}
  /\ InitialStations \in 0..MAX_STATION_NUM
  /\ MaxCounter \in Nat

VARIABLES lock,       \* whether each station's lock is held
          list_lock,  \* whether g_station_list.lock is held across steps
          cancelled,  \* stations whose sender pthread_cancel was called for
          main,       \* the select loop: where it is, its client and stations
          op,         \* user_input: where it is, its station and command
          sender,     \* loop_song of each station: where it is, its client
          fault       \* what ended the process, or "none"

threadVars == <<lock, list_lock, cancelled, main, op, sender, fault>>
vars == <<listVars, threadVars>>

MainIdle == [pc |-> "select", c |-> NULL, target |-> NULL, ptr |-> NULL]
OpIdle == [pc |-> "input", cmd |-> "none", st |-> NULL]
SenderAt(pc) == [pc |-> pc, at |-> NULL, eof |-> FALSE, sent |-> {}]

\* What ends the process, or "none".
Faults == {"none", "select failed", "endless list", "freed station", "destroyed lock",
           "dead thread", "assert udp_sock", "assert list", "assert station",
           "assert counter", "assert handshaked", "assert announce"}

MainStates ==
  [pc : {"select", "remove", "remove_lock", "append", "reset", "cur_song", "use", "walk"},
   c : Slots \cup {NULL}, target : Stations \cup {NULL}, ptr : Stations \cup {NULL}]
OpStates ==
  [pc : {"input", "push", "remove", "close", "release", "print"},
   cmd : {"none", "a", "d", "s", "l", "q"}, st : Stations \cup {NULL}]
SenderStates ==
  [pc : {"none", "read", "lock", "send", "next", "announce", "dead"},
   at : Slots \cup {NULL}, eof : BOOLEAN, sent : SUBSET Slots]

TypeOK ==
  /\ ListsTypeOK
  /\ lock \in [Stations -> BOOLEAN]
  /\ list_lock \in BOOLEAN
  /\ cancelled \subseteq Stations
  /\ main \in MainStates
  /\ op \in OpStates
  /\ sender \in [Stations -> SenderStates]
  /\ fault \in Faults

Init ==
  /\ \E initial \in [1..InitialStations -> Stations] :
       /\ \A i, j \in 1..InitialStations : initial[i] = initial[j] => i = j
       /\ ListsInit(initial)
  /\ lock = [s \in Stations |-> FALSE]
  /\ list_lock = FALSE
  /\ cancelled = {}
  /\ main = MainIdle
  /\ op = OpIdle
  /\ sender = [s \in Stations |-> SenderAt(IF heap[s] = "live" THEN "read" ELSE "none")]
  /\ fault = "none"

\* The process ends here.
Fail(why) ==
  /\ fault' = why
  /\ UNCHANGED <<listVars, lock, list_lock, cancelled, main, op, sender>>

-----------------------------------------------------------------------------
(* server_listen and the handlers of parse_and_send.                         *)

MainKeeps == UNCHANGED <<lock, list_lock, cancelled, op, sender, fault>>

\* accept, for which find_first_client found an entry.
Accept(c) ==
  /\ main.pc = "select"
  /\ state[c] = "NO_STATE"
  /\ state' = [state EXCEPT ![c] = "INIT_STATE"]
  /\ UNCHANGED <<udp_sock, cur_station, next_client, stationVars, main>>
  /\ MainKeeps

\* accept with a full table.  The new descriptor is closed and stays in the
\* master set, so the next select fails and main exits.
AcceptBusy ==
  /\ "busy" \in Env
  /\ main.pc = "select"
  /\ \A c \in Slots : state[c] # "NO_STATE"
  /\ Fail("select failed")

\* CMD_HELLO.  A second one is refused.
Hello(c, built) ==
  /\ main.pc = "select"
  /\ state[c] = "INIT_STATE"
  /\ state' = [state EXCEPT ![c] = "HANDSHAKED"]
  /\ udp_sock' = [udp_sock EXCEPT ![c] = built]
  /\ UNCHANGED <<cur_station, next_client, stationVars, main>>
  /\ MainKeeps

\* CMD_SETSTATION up to the return of find_station_from_id.  A client that did
\* not shake hands is told so and served all the same.
SetStation(c, i) ==
  LET target == find_station_from_id(i)
  IN /\ main.pc = "select"
     /\ ~list_lock
     /\ state[c] # "NO_STATE"
     /\ state[c] = "INIT_STATE" => "early_set" \in Env
     /\ target # NULL
     /\ counter[target] < MaxCounter
     /\ cur_station[c] \notin {NULL, target} => "move" \in Env
     /\ cur_station[c] = target => "same" \in Env
     /\ main' = [MainIdle EXCEPT !.pc = "remove", !.c = c, !.target = target]
     /\ UNCHANGED listVars
     /\ MainKeeps

\* read_line found the connection closed or broken.  close_client has no
\* target.
Disconnect(c) ==
  /\ "leave" \in Env
  /\ main.pc = "select"
  /\ state[c] # "NO_STATE"
  /\ udp_sock[c]
  /\ main' = [MainIdle EXCEPT !.pc = "remove", !.c = c]
  /\ UNCHANGED listVars
  /\ MainKeeps

\* Without a udp socket there is no udp_addrinfo for the STOP datagram, and the
\* assert of close_client fails.
DisconnectEarly(c) ==
  /\ "early_leave" \in Env
  /\ main.pc = "select"
  /\ state[c] # "NO_STATE"
  /\ ~udp_sock[c]
  /\ Fail("assert udp_sock")

AfterRemove == IF main.target = NULL THEN "reset" ELSE "append"

\* Mutant: close_client leaves the client on the list.
MutantRemoveRead ==
  /\ main.pc = "remove"
  /\ main' = [main EXCEPT !.pc = AfterRemove]
  /\ UNCHANGED listVars
  /\ MainKeeps

\* remove_client_from_station reads cur_station before it locks.
RemoveRead ==
  /\ main.pc = "remove"
  /\ main' = [main EXCEPT !.pc = IF cur_station[main.c] = NULL THEN AfterRemove ELSE "remove_lock",
                          !.ptr = cur_station[main.c]]
  /\ UNCHANGED listVars
  /\ MainKeeps

Remove ==
  LET s == main.ptr
  IN /\ main.pc = "remove_lock"
     /\ heap[s] = "live"
     /\ ~lock[s]
     /\ ~RemoveSpins(s, main.c)
     /\ RemoveAsserts(s, main.c)
     /\ RemoveBody(s, main.c)
     /\ main' = [main EXCEPT !.pc = AfterRemove, !.ptr = NULL]
     /\ MainKeeps

RemoveFails ==
  LET s == main.ptr
  IN /\ main.pc = "remove_lock"
     /\ \/ heap[s] = "freed" /\ Fail("freed station")
        \/ heap[s] = "live" /\ ~lock[s] /\ RemoveSpins(s, main.c) /\ Fail("endless list")
        \/ heap[s] = "live" /\ ~lock[s] /\ ~RemoveAsserts(s, main.c) /\ Fail("assert list")

\* append_client_to_station, to the station found before the lock was given up.
AppendClient ==
  LET s == main.target
  IN /\ main.pc = "append"
     /\ IF heap[s] = "freed"
        THEN Fail("freed station")
        ELSE /\ ~lock[s]
             /\ AppendBody(s, main.c)
             /\ main' = [main EXCEPT !.pc = "cur_song"]
             /\ MainKeeps

\* The end of close_client.
Reset ==
  /\ main.pc = "reset"
  /\ ResetBody(main.c)
  /\ main' = MainIdle
  /\ MainKeeps

\* CMD_REQUEST for the songs, or the current song, of the client's station.
\* Without a station it is refused.
RequestSongs(c) ==
  /\ main.pc = "select"
  /\ state[c] # "NO_STATE"
  /\ cur_station[c] # NULL
  /\ main' = [MainIdle EXCEPT !.pc = "cur_song", !.c = c]
  /\ UNCHANGED listVars
  /\ MainKeeps

\* send_cur_song and send_station_songs assert their station ...
CurSong ==
  /\ main.pc = "cur_song"
  /\ IF cur_station[main.c] = NULL
     THEN Fail("assert station")
     ELSE /\ main' = [main EXCEPT !.pc = "use", !.ptr = cur_station[main.c]]
          /\ UNCHANGED listVars
          /\ MainKeeps

\* ... and read it without its lock.
UseStation ==
  /\ main.pc = "use"
  /\ IF heap[main.ptr] = "freed"
     THEN Fail("freed station")
     ELSE /\ main' = MainIdle
          /\ UNCHANGED listVars
          /\ MainKeeps

\* CMD_REQUEST for all stations: send_all_station_cur_song walks the list of
\* stations without its lock.
RequestStations(c) ==
  /\ main.pc = "select"
  /\ state[c] # "NO_STATE"
  /\ main' = [MainIdle EXCEPT !.pc = "walk", !.c = c, !.ptr = head_station]
  /\ UNCHANGED listVars
  /\ MainKeeps

WalkStations ==
  /\ main.pc = "walk"
  /\ IF main.ptr = NULL
     THEN main' = MainIdle /\ UNCHANGED listVars /\ MainKeeps
     ELSE IF heap[main.ptr] = "freed"
     THEN Fail("freed station")
     ELSE /\ main' = [main EXCEPT !.ptr = next_station(main.ptr)]
          /\ UNCHANGED listVars
          /\ MainKeeps

-----------------------------------------------------------------------------
(* user_input: the operator's commands.                                      *)

OpKeeps == UNCHANGED <<main, fault>>

\* add_station checks the number of stations, lets go of the lock, and
\* allocates the station and reads its songs.  A path without songs is given up
\* before anybody sees the station.
AddStation(s) ==
  /\ "a" \in Commands
  /\ op.pc = "input"
  /\ ~list_lock
  /\ Len(station_list) # MAX_STATION_NUM
  /\ heap[s] = "unused"
  /\ heap' = [heap EXCEPT ![s] = "live"]
  /\ op' = [pc |-> "push", cmd |-> "a", st |-> s]
  /\ UNCHANGED <<clientVars, head_clients, tail_clients, counter, id, station_list>>
  /\ UNCHANGED <<lock, list_lock, cancelled, sender>>
  /\ OpKeeps

\* push_station_to_list and spawn_sender.
Push ==
  /\ op.pc = "push"
  /\ ~list_lock
  /\ PushBody(op.st)
  /\ sender' = [sender EXCEPT ![op.st] = SenderAt("read")]
  /\ op' = OpIdle
  /\ UNCHANGED <<lock, list_lock, cancelled>>
  /\ OpKeeps

\* The command d up to the return of find_station_from_id.  A number that is
\* not below the number of stations is ignored.
Delete(i) ==
  /\ "d" \in Commands
  /\ op.pc = "input"
  /\ ~list_lock
  /\ i < Len(station_list)
  /\ find_station_from_id(i) # NULL
  /\ op' = [pc |-> "remove", cmd |-> "d", st |-> find_station_from_id(i)]
  /\ UNCHANGED <<listVars, lock, list_lock, cancelled, sender>>
  /\ OpKeeps

\* shutdown_all removes the head until there is none.
Shutdown ==
  /\ "s" \in Commands
  /\ op.pc = "input"
  /\ station_list # <<>>
  /\ op' = [pc |-> "remove", cmd |-> "s", st |-> head_station]
  /\ UNCHANGED <<listVars, lock, list_lock, cancelled, sender>>
  /\ OpKeeps

\* remove_station locks the list and cancels the sender.  To cancel a detached
\* thread that has ended is undefined.
RemoveStation ==
  /\ op.pc = "remove"
  /\ ~list_lock
  /\ IF sender[op.st].pc = "dead"
     THEN Fail("dead thread")
     ELSE /\ list_lock' = TRUE
          /\ cancelled' = cancelled \cup {op.st}
          /\ op' = [op EXCEPT !.pc = "close"]
          /\ UNCHANGED <<listVars, lock, sender>>
          /\ OpKeeps

\* Mutant: remove_station does not take the lock of the station.
MutantCloseStation ==
  /\ op.pc = "close"
  /\ CounterAfterClose(op.st) = 0
  /\ CloseBody(op.st)
  /\ list_lock' = FALSE
  /\ op' = OpIdle
  /\ UNCHANGED <<lock, cancelled, sender>>
  /\ OpKeeps

\* The rest of remove_station, under the lock of the station: it tells the
\* listeners, unlinks the station, frees it, and unlocks the list.
CloseStation ==
  /\ op.pc = "close"
  /\ ~lock[op.st]
  /\ IF CounterAfterClose(op.st) # 0
     THEN Fail("assert counter")
     ELSE /\ CloseBody(op.st)
          /\ list_lock' = FALSE
          /\ op' = IF op.cmd = "s" /\ station_list' # <<>>
                   THEN [op EXCEPT !.pc = "remove", !.st = Head(station_list')]
                   ELSE OpIdle
          /\ UNCHANGED <<lock, cancelled, sender>>
          /\ OpKeeps

\* The command q: release_stations locks the list and cancels every sender.
Quit ==
  /\ "q" \in Commands
  /\ op.pc = "input"
  /\ ~list_lock
  /\ IF \E n \in DOMAIN station_list : sender[station_list[n]].pc = "dead"
     THEN Fail("dead thread")
     ELSE /\ list_lock' = TRUE
          /\ cancelled' = cancelled \cup {station_list[n] : n \in DOMAIN station_list}
          /\ op' = [pc |-> "release", cmd |-> "q", st |-> head_station]
          /\ UNCHANGED <<listVars, lock, sender>>
          /\ OpKeeps

\* One turn of its second loop.  The list still names the freed stations.
Release ==
  LET s == op.st
  IN /\ op.pc = "release"
     /\ s # NULL
     /\ ~lock[s]
     /\ IF CounterAfterClose(s) # 0
        THEN Fail("assert counter")
        ELSE /\ Forget(s)
             /\ counter' = [counter EXCEPT ![s] = CounterAfterClose(s)]
             /\ head_clients' = [head_clients EXCEPT ![s] = NULL]
             /\ tail_clients' = [tail_clients EXCEPT ![s] = NULL]
             /\ heap' = [heap EXCEPT ![s] = "freed"]
             /\ op' = [op EXCEPT !.st = next_station(s)]
             /\ UNCHANGED <<state, udp_sock, id, station_list>>
             /\ UNCHANGED <<lock, list_lock, cancelled, sender>>
             /\ OpKeeps

\* Its end: the lock of the list is destroyed, and the print_stations that
\* follows locks it.
Released ==
  /\ op.pc = "release"
  /\ op.st = NULL
  /\ station_list' = <<>>
  /\ fault' = "destroyed lock"
  /\ UNCHANGED <<clientVars, head_clients, tail_clients, counter, heap, id>>
  /\ UNCHANGED <<lock, list_lock, cancelled, main, op, sender>>

\* The command l: print_stations holds the lock of the list ...
List ==
  /\ "l" \in Commands
  /\ op.pc = "input"
  /\ ~list_lock
  /\ station_list # <<>>
  /\ list_lock' = TRUE
  /\ op' = [pc |-> "print", cmd |-> "l", st |-> head_station]
  /\ UNCHANGED <<listVars, lock, cancelled, sender>>
  /\ OpKeeps

\* ... while it takes the lock of one station after the other.
PrintStations ==
  /\ op.pc = "print"
  /\ IF op.st = NULL
     THEN /\ list_lock' = FALSE
          /\ op' = OpIdle
          /\ UNCHANGED <<listVars, lock, cancelled, sender>>
          /\ OpKeeps
     ELSE /\ ~lock[op.st]
          /\ IF Cyclic(op.st)
             THEN Fail("endless list")
             ELSE /\ op' = [op EXCEPT !.st = next_station(op.st)]
                  /\ UNCHANGED <<listVars, lock, list_lock, cancelled, sender>>
                  /\ OpKeeps

-----------------------------------------------------------------------------
(* loop_song: the sender thread of a station.                                *)

Become(s, next) ==
  /\ sender' = [sender EXCEPT ![s] = next]
  /\ UNCHANGED <<listVars, list_lock, cancelled, main, op, fault>>

\* read, the sleep before it, and, at the end of a song, close and open: the
\* points where a cancelled sender ends without a lock.
Read(s, eof) ==
  /\ sender[s].pc = "read"
  /\ Become(s, IF s \in cancelled THEN SenderAt("dead")
               ELSE [SenderAt("lock") EXCEPT !.eof = eof])
  /\ UNCHANGED lock

\* open fails and loop_song returns.
OpenFails(s) ==
  /\ "bad_song" \in Env
  /\ sender[s].pc = "read"
  /\ Become(s, SenderAt("dead"))
  /\ UNCHANGED lock

\* Mutant: the pass begins without the lock.
MutantLockStation(s) ==
  /\ sender[s].pc = "lock"
  /\ Become(s, [sender[s] EXCEPT !.pc = "send", !.at = head_clients[s]])
  /\ UNCHANGED lock

\* The sender takes the lock of its station, if the station is still there.
LockStation(s) ==
  /\ sender[s].pc = "lock"
  /\ IF heap[s] = "freed"
     THEN Fail("freed station")
     ELSE /\ ~lock[s]
          /\ Become(s, [sender[s] EXCEPT !.pc = "send", !.at = head_clients[s]])
          /\ lock' = [lock EXCEPT ![s] = TRUE]

\* Mutant: the loop does not go on to the next listener.
MutantSendChunk(s) ==
  LET c == sender[s].at
  IN /\ sender[s].pc = "send"
     /\ c # NULL
     /\ Become(s, [sender[s] EXCEPT !.at = IF next_client[c] = NULL THEN NULL ELSE c,
                                    !.sent = @ \cup {c}])
     /\ UNCHANGED lock

\* sendto for one listener, a cancellation point.  A cancelled sender ends
\* with the lock held.
SendChunk(s) ==
  LET c == sender[s].at
  IN /\ sender[s].pc = "send"
     /\ c # NULL
     /\ IF state[c] # "HANDSHAKED" \/ ~udp_sock[c]
        THEN Fail("assert handshaked")
        ELSE /\ Become(s, IF s \in cancelled THEN SenderAt("dead")
                          ELSE [sender[s] EXCEPT !.at = next_client[c],
                                                 !.sent = @ \cup {c}])
             /\ UNCHANGED lock

\* Mutant: the lock is kept.
MutantUnlockStation(s) ==
  /\ sender[s].pc = "send"
  /\ sender[s].at = NULL
  /\ Become(s, SenderAt(IF sender[s].eof THEN "next" ELSE "read"))
  /\ UNCHANGED lock

UnlockStation(s) ==
  /\ sender[s].pc = "send"
  /\ sender[s].at = NULL
  /\ Become(s, SenderAt(IF sender[s].eof THEN "next" ELSE "read"))
  /\ lock' = [lock EXCEPT ![s] = FALSE]

\* After a song the sender reads the list again, without the lock, ...
NextSong(s) ==
  /\ sender[s].pc = "next"
  /\ IF heap[s] = "freed"
     THEN Fail("freed station")
     ELSE /\ Become(s, [SenderAt("announce") EXCEPT !.at = head_clients[s]])
          /\ UNCHANGED lock

\* ... and announces the next song to each listener.
Announce(s) ==
  LET c == sender[s].at
  IN /\ sender[s].pc = "announce"
     /\ IF c = NULL
        THEN Become(s, SenderAt("read")) /\ UNCHANGED lock
        ELSE IF heap[s] = "freed"
        THEN Fail("freed station")
        ELSE IF state[c] # "HANDSHAKED"
        THEN Fail("assert announce")
        ELSE /\ Become(s, IF s \in cancelled THEN SenderAt("dead")
                          ELSE [sender[s] EXCEPT !.at = next_client[c]])
             /\ UNCHANGED lock

-----------------------------------------------------------------------------
MainStep ==
  \/ RemoveRead \/ Remove \/ RemoveFails \/ AppendClient \/ Reset
  \/ CurSong \/ UseStation \/ WalkStations

ClientEvent ==
  \/ AcceptBusy
  \/ \E c \in Slots :
       \/ Accept(c)
       \/ \E built \in {TRUE} \cup (IF "no_udp" \in Env THEN {FALSE} ELSE {}) : Hello(c, built)
       \/ \E i \in 0..MAX_STATION_NUM : SetStation(c, i)
       \/ Disconnect(c) \/ DisconnectEarly(c)
       \/ RequestSongs(c) \/ RequestStations(c)

OpStep == Push \/ RemoveStation \/ CloseStation \/ Release \/ Released \/ PrintStations

Command ==
  \/ \E s \in Stations : AddStation(s)
  \/ \E i \in 0..MAX_STATION_NUM : Delete(i)
  \/ Shutdown \/ Quit \/ List

SenderStep(s) ==
  \/ \E eof \in {FALSE} \cup (IF "next_song" \in Env THEN {TRUE} ELSE {}) : Read(s, eof)
  \/ OpenFails(s) \/ LockStation(s) \/ SendChunk(s) \/ UnlockStation(s)
  \/ NextSong(s) \/ Announce(s)

Next ==
  /\ fault = "none"
  /\ \/ MainStep \/ ClientEvent \/ OpStep \/ Command
     \/ \E s \in Stations : SenderStep(s)

Spec == Init /\ [][Next]_vars

\* Every thread that can run does, and one that waits for a lock gets it when
\* it is free time and again: a sender sleeps most of every second.
FairSpec ==
  /\ Spec
  /\ SF_vars(fault = "none" /\ MainStep)
  /\ SF_vars(fault = "none" /\ OpStep)
  /\ \A s \in Stations : SF_vars(fault = "none" /\ SenderStep(s))

-----------------------------------------------------------------------------
(* Properties.                                                               *)

\* The clients that the server has put on the list of a station: cur_station
\* says so, and main is not between the removal and what follows it.
Listeners(s) ==
  {c \in Slots : cur_station[c] = s /\ ~(main.c = c /\ main.pc \in {"append", "reset"})}

\* The list of each live station, walked from head_clients, is exactly the
\* clients that set it, each once, and tail_clients is its last one, whatever
\* interleaving of joins, disconnections and removals of stations led there.
\* Its counter, which removals leave alone, is never below its length.
ListsExact ==
  fault = "none" =>
    \A s \in Stations : heap[s] = "live" =>
      /\ ~Cyclic(s)
      /\ Reached(s) = Listeners(s)
      /\ head_clients[s] = NULL <=> tail_clients[s] = NULL
      /\ tail_clients[s] # NULL
         => tail_clients[s] \in Reached(s) /\ next_client[tail_clients[s]] = NULL
      /\ counter[s] >= Cardinality(Reached(s))

\* A pass of loop_song over its station's list sends the chunk to every client
\* that listens when it ends, and to nobody who left before it began: sent is
\* complete when the sender is about to unlock.
PassServesListeners ==
  fault = "none" =>
    \A s \in Stations : sender[s].pc = "send" /\ sender[s].at = NULL
      => sender[s].sent = Listeners(s)

\* No client's cur_station is a station that remove_station freed.
CurStationLive ==
  fault = "none" => \A c \in Slots : cur_station[c] # NULL => heap[cur_station[c]] = "live"

\* A sender that holds its station's lock still has a station: remove_station
\* waits for the lock before it frees.  And the state is well typed; the
\* counters of the lists in particular never go below zero.
LockedStationLive ==
  /\ TypeOK
  /\ \A s \in Stations : lock[s] => heap[s] = "live" /\ sender[s].pc \in {"send", "dead"}

\* g_station_list names each live station once and no freed one, except while
\* add_station has not pushed its station and while release_stations runs.
ListedAreLive ==
  fault = "none" /\ op.pc # "release" =>
    /\ \A s \in Stations :
         (heap[s] = "live" /\ ~(op.pc = "push" /\ op.st = s))
           <=> \E n \in DOMAIN station_list : station_list[n] = s
    /\ \A m, n \in DOMAIN station_list : station_list[m] = station_list[n] => m = n

\* No assert fails, no freed station is used and no list is endless.
NoFault == fault = "none"

\* While no station is removed, no sender is cancelled and every handler of
\* main comes back to select, and so does every command of the operator, who
\* keeps the lock of the list while waiting for those of the stations: nobody
\* waits for a lock for ever.
HandlersReturn ==
  /\ main.pc # "select" ~> main.pc = "select"
  /\ op.pc # "input" ~> op.pc = "input"

\* A client that listens to a station gets the next chunk, or stops listening.
StreamFlows ==
  \A c \in Slots, s \in Stations :
    c \in Listeners(s) ~> c \in sender[s].sent \/ c \notin Listeners(s)
=============================================================================
