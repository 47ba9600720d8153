---------------------------- MODULE SnowcastLists ----------------------------
(* The data of snowcast_server.c that its threads share: the table g_clients, *)
(* the stations with their linked lists of listeners, and g_station_list.     *)
EXTENDS Integers, Sequences, FiniteSets

CONSTANTS Slots,            \* the entries of g_clients, MAX_CLIENT_NUM of them
          Stations,         \* the station_t the heap can hand out, each once
          MAX_STATION_NUM,
          NULL

ASSUME ListsAssumption ==
  /\ MAX_STATION_NUM \in Nat
  /\ IsFiniteSet(Slots)
  /\ NULL \notin Slots \cup Stations

VARIABLES state,            \* state_t of each client
          udp_sock,         \* whether its udp_sock is set
          cur_station,      \* its station, or NULL
          next_client,      \* its successor in a list of listeners, or NULL
          head_clients,     \* first listener of each station, or NULL
          tail_clients,     \* last one, or NULL
          counter,          \* connected_clients.counter
          heap,             \* whether a station is unused, live or freed
          id,               \* its id
          station_list      \* g_station_list, from head_station to tail_station

clientVars == <<state, udp_sock, cur_station, next_client>>
stationVars == <<head_clients, tail_clients, counter, heap, id, station_list>>
listVars == <<clientVars, stationVars>>

ListsTypeOK ==
  /\ state \in [Slots -> {"NO_STATE", "INIT_STATE", "HANDSHAKED"}]
  /\ udp_sock \in [Slots -> BOOLEAN]
  /\ cur_station \in [Slots -> Stations \cup {NULL}]
  /\ next_client \in [Slots -> Slots \cup {NULL}]
  /\ head_clients \in [Stations -> Slots \cup {NULL}]
  /\ tail_clients \in [Stations -> Slots \cup {NULL}]
  /\ counter \in [Stations -> Nat]
  /\ heap \in [Stations -> {"unused", "live", "freed"}]
  /\ id \in [Stations -> Nat]
  /\ station_list \in Seq(Stations)

\* init_globals, then read_station with the stations of the command line.
ListsInit(initial) ==
  /\ state = [c \in Slots |-> "NO_STATE"]
  /\ udp_sock = [c \in Slots |-> FALSE]
  /\ cur_station = [c \in Slots |-> NULL]
  /\ next_client = [c \in Slots |-> NULL]
  /\ head_clients = [s \in Stations |-> NULL]
  /\ tail_clients = [s \in Stations |-> NULL]
  /\ counter = [s \in Stations |-> 0]
  /\ station_list = initial
  /\ heap = [s \in Stations |-> IF \E i \in DOMAIN initial : initial[i] = s
                                THEN "live" ELSE "unused"]
  /\ id = [s \in Stations |-> IF \E i \in DOMAIN initial : initial[i] = s
                              THEN (CHOOSE i \in DOMAIN initial : initial[i] = s) - 1 ELSE 0]

-----------------------------------------------------------------------------
(* Lists of listeners.                                                       *)

\* The n-th listener of a walk that starts at head_clients and follows
\* next_client.  A walk that is not over after every slot never ends.
Walk(s) ==
  LET w[n \in 0..Cardinality(Slots)] ==
        IF n = 0 THEN head_clients[s]
        ELSE IF w[n - 1] = NULL THEN NULL ELSE next_client[w[n - 1]]
  IN w

Reached(s) == {Walk(s)[n] : n \in 0..Cardinality(Slots)} \ {NULL}

Cyclic(s) == Walk(s)[Cardinality(Slots)] # NULL

\* The slot remove_client_from_station finds in front of c, or NULL.
Before(s, c) ==
  LET at == {n \in 0..Cardinality(Slots) :
               Walk(s)[n] # NULL /\ next_client[Walk(s)[n]] = c}
  IN IF at = {} THEN NULL ELSE Walk(s)[CHOOSE n \in at : \A m \in at : n <= m]

\* Mutant: the tail stays on the client that left.
MutantRemoveBody(s, c) ==
  /\ IF head_clients[s] = c
     THEN /\ head_clients' = [head_clients EXCEPT ![s] = next_client[c]]
          /\ tail_clients' = [tail_clients EXCEPT ![s] = IF @ = c THEN next_client[c] ELSE @]
          /\ UNCHANGED next_client
     ELSE /\ next_client' = [p \in Slots |-> IF p = Before(s, c) THEN next_client[c]
                                             ELSE next_client[p]]
          /\ UNCHANGED <<head_clients, tail_clients>>
  /\ UNCHANGED <<state, udp_sock, cur_station, counter, heap, id, station_list>>

\* remove_client_from_station between lock and unlock, when no assert fails and
\* the walk ends.  The client's own next_client and cur_station and the
\* station's counter are left as they are.
RemoveBody(s, c) ==
  /\ IF head_clients[s] = c
     THEN /\ head_clients' = [head_clients EXCEPT ![s] = next_client[c]]
          /\ tail_clients' = [tail_clients EXCEPT ![s] = IF @ = c THEN next_client[c] ELSE @]
          /\ UNCHANGED next_client
     ELSE /\ next_client' = [p \in Slots |-> IF p = Before(s, c) THEN next_client[c]
                                             ELSE next_client[p]]
          /\ tail_clients' = [tail_clients EXCEPT ![s] =
                                IF next_client[c] = NULL /\ Before(s, c) # NULL
                                THEN Before(s, c) ELSE @]
          /\ UNCHANGED head_clients
  /\ UNCHANGED <<state, udp_sock, cur_station, counter, heap, id, station_list>>

\* Its asserts: the list is not empty, and a tail that leaves from the head
\* leaves it empty.
RemoveAsserts(s, c) ==
  /\ head_clients[s] # NULL
  /\ head_clients[s] = c /\ tail_clients[s] = c => next_client[c] = NULL

\* Its loop never ends: c is not the head and the walk never comes to it.
RemoveSpins(s, c) == head_clients[s] # c /\ Before(s, c) = NULL /\ Cyclic(s)

\* append_client_to_station between lock and unlock.
AppendBody(s, c) ==
  IF cur_station[c] = s
  THEN UNCHANGED listVars
  ELSE /\ IF head_clients[s] = NULL
          THEN /\ head_clients' = [head_clients EXCEPT ![s] = c]
               /\ UNCHANGED next_client
          ELSE /\ next_client' = [next_client EXCEPT ![tail_clients[s]] = c]
               /\ UNCHANGED head_clients
       /\ tail_clients' = [tail_clients EXCEPT ![s] = c]
       /\ counter' = [counter EXCEPT ![s] = @ + 1]
       /\ cur_station' = [cur_station EXCEPT ![c] = s]
       /\ UNCHANGED <<state, udp_sock, heap, id, station_list>>

\* Mutant: the fields are reset one by one and next_client is forgotten.
MutantResetBody(c) ==
  /\ state' = [state EXCEPT ![c] = "NO_STATE"]
  /\ udp_sock' = [udp_sock EXCEPT ![c] = FALSE]
  /\ cur_station' = [cur_station EXCEPT ![c] = NULL]
  /\ UNCHANGED <<next_client, stationVars>>

\* The memset at the end of close_client.
ResetBody(c) ==
  /\ state' = [state EXCEPT ![c] = "NO_STATE"]
  /\ udp_sock' = [udp_sock EXCEPT ![c] = FALSE]
  /\ cur_station' = [cur_station EXCEPT ![c] = NULL]
  /\ next_client' = [next_client EXCEPT ![c] = NULL]
  /\ UNCHANGED stationVars

-----------------------------------------------------------------------------
(* g_station_list.                                                           *)

\* find_station_from_id: the first station with that id, or NULL.
find_station_from_id(i) ==
  LET at == {n \in DOMAIN station_list : id[station_list[n]] = i}
  IN IF at = {} THEN NULL ELSE station_list[CHOOSE n \in at : \A m \in at : n <= m]

\* next_station: NULL behind the last one.
next_station(s) ==
  LET n == CHOOSE n \in DOMAIN station_list : station_list[n] = s
  IN IF n = Len(station_list) THEN NULL ELSE station_list[n + 1]

\* The list without a station.
Unlinked(s) ==
  LET at == CHOOSE n \in DOMAIN station_list : station_list[n] = s
  IN [n \in 1..(Len(station_list) - 1) |-> station_list[IF n < at THEN n ELSE n + 1]]

head_station == IF station_list = <<>> THEN NULL ELSE Head(station_list)

\* push_station_to_list gives the new station the first position whose station
\* has another id.
NextAvailable ==
  LET gaps == {n \in DOMAIN station_list : id[station_list[n]] # n - 1}
  IN IF gaps = {} THEN Len(station_list) ELSE (CHOOSE n \in gaps : \A m \in gaps : n <= m) - 1

PushBody(s) ==
  /\ id' = [id EXCEPT ![s] = NextAvailable]
  /\ station_list' = Append(station_list, s)
  /\ UNCHANGED <<clientVars, head_clients, tail_clients, counter, heap>>

\* The counter of a station after remove_station and release_stations visited
\* its listeners.  They clear next_client on the way, so a cycle is left at the
\* second visit of the client it comes back to.
CounterAfterClose(s) == counter[s] - Cardinality(Reached(s)) - (IF Cyclic(s) THEN 1 ELSE 0)

\* Mutant: remove_station leaves cur_station alone.
MutantForget(s) ==
  /\ next_client' = [c \in Slots |-> IF c \in Reached(s) THEN NULL ELSE next_client[c]]
  /\ UNCHANGED cur_station

\* What that visit does to the listeners.
Forget(s) ==
  /\ next_client' = [c \in Slots |-> IF c \in Reached(s) THEN NULL ELSE next_client[c]]
  /\ cur_station' = [c \in Slots |-> IF c \in Reached(s) THEN NULL ELSE cur_station[c]]

\* Mutant: the head of the list is unlinked, whichever station is removed.
MutantCloseBody(s) ==
  /\ Forget(s)
  /\ counter' = [counter EXCEPT ![s] = CounterAfterClose(s)]
  /\ heap' = [heap EXCEPT ![s] = "freed"]
  /\ station_list' = Tail(station_list)
  /\ UNCHANGED <<state, udp_sock, head_clients, tail_clients, id>>

\* remove_station from the lock of the station on, when its assert holds.
CloseBody(s) ==
  /\ Forget(s)
  /\ counter' = [counter EXCEPT ![s] = CounterAfterClose(s)]
  /\ heap' = [heap EXCEPT ![s] = "freed"]
  /\ station_list' = Unlinked(s)
  /\ UNCHANGED <<state, udp_sock, head_clients, tail_clients, id>>
=============================================================================
