--------------------------- MODULE SnowcastControl ---------------------------
(* One snowcast_control with its pending-command queue, the bytes and lines   *)
(* on its TCP connection, and what parse_and_send of the server does with     *)
(* them.  The server's other clients and its threads are in SnowcastServer.   *)
EXTENDS Integers, Sequences, FiniteSets

CONSTANTS Numbers,      \* the numbers the user types behind Set
          Ports,        \* the udp ports snowcast_control may be started with
          Ids,          \* the ids of the server's stations
          Sizes,        \* the lengths of the texts with a song's name
          MaxSongs,     \* bound on the songs announced together
          MaxCommands,  \* bound on the commands typed
          MaxNews       \* bound on announcements nobody asked for

\* The largest uint16_t.
USHRT_MAX == 65535

ASSUME ControlAssumption ==
  /\ Numbers \subseteq Nat
  /\ Ports \subseteq 1..USHRT_MAX
  /\ Ids \subseteq 0..USHRT_MAX
  /\ Sizes \subseteq Nat
  /\ MaxSongs \in Nat
  /\ MaxCommands \in Nat
  /\ MaxNews \in Nat

VARIABLES g_cmd_queue,        \* the pending commands
          asked,              \* the number typed with each of them
          wait_for_announce,
          sending,            \* what send_message has queued and not yet sent
          to_server,          \* bytes on their way to the server
          to_client,          \* lines on their way to the client
          shaken,             \* the server's record of the client is HANDSHAKED
          cur_station,        \* its station there, or None
          conn,               \* the connection: open, closed by the server, or left
          typed, news,        \* what the bounds count
          split               \* history: one side wrote a newline inside a message

clientVars == <<g_cmd_queue, asked, wait_for_announce, sending, typed>>
serverVars == <<shaken, cur_station, conn>>
vars == <<clientVars, serverVars, to_server, to_client, news, split>>

CMD_HELLO == 0
CMD_SETSTATION == 1
CMD_REQUEST == 2
TYPE_ALL_STATION == 2
NL == 10
None == -1

Texts == {"SetConfirmed", "RequestConfirmed", "news"}
Messages == [type : {"WELCOME", "ANNOUNCE", "INVALID", "OTHER"}, text : Texts \cup {"none"},
             num : Nat \cup {None}]

Welcome == [type |-> "WELCOME", text |-> "none", num |-> None]
Invalid == [type |-> "INVALID", text |-> "none", num |-> None]
News == [type |-> "ANNOUNCE", text |-> "news", num |-> None]
Rest == [type |-> "OTHER", text |-> "none", num |-> None]

\* The lines the client reads of announcements with these text lengths.  The
\* size byte of a text of length 10 modulo 256 is a newline: the client reads
\* an announcement without text, and the text as a line of its own.  One News
\* stands for what it only prints.
Announced(texts) ==
  <<News>> \o [n \in 1..Cardinality({i \in DOMAIN texts : texts[i] % 256 = NL}) |-> Rest]

\* Confirmations carry the station that the server then has for the client,
\* which the program does not send.
Confirm(text, num) == [type |-> "ANNOUNCE", text |-> text, num |-> num]

TypeOK ==
  /\ g_cmd_queue \in Seq({CMD_HELLO, CMD_SETSTATION, CMD_REQUEST})
  /\ Len(asked) = Len(g_cmd_queue)
  /\ wait_for_announce \in {0, 1}
  /\ sending \in Seq(0..255) /\ to_server \in Seq(0..255)
  /\ to_client \in Seq(Messages)
  /\ shaken \in BOOLEAN /\ conn \in {"open", "closed", "left"}
  /\ cur_station \in Ids \cup {None}
  /\ typed \in 0..MaxCommands /\ news \in 0..MaxNews
  /\ split \in BOOLEAN

\* Mutant: the number is sent low byte first.
MutantLineOfNumber(cmd, n) == <<cmd, n % 256, (n % 65536) \div 256, NL>>

\* The lines of send_hello, send_set_station and send_request: the number is
\* cut to 16 bits and sent high byte first.
LineOfNumber(cmd, n) == <<cmd, (n % 65536) \div 256, n % 256, NL>>
LineOfRequest(type) == <<CMD_REQUEST, type, NL>>

\* The server will read more than one line in it.
Splits(line) == \E n \in 1..(Len(line) - 1) : line[n] = NL

\* The text of an announcement is among the lines.
Cut(lines) == \E n \in 1..Len(lines) : lines[n] = Rest

\* open_connection has queued and sent HELLO before the threads start.
Init ==
  /\ g_cmd_queue = <<CMD_HELLO>>
  /\ asked = <<None>>
  /\ wait_for_announce = 0
  /\ sending = <<>>
  /\ \E port \in Ports :
       /\ to_server = LineOfNumber(CMD_HELLO, port)
       /\ split = Splits(LineOfNumber(CMD_HELLO, port))
  /\ to_client = <<>>
  /\ shaken = FALSE
  /\ cur_station = None
  /\ conn = "open"
  /\ typed = 0
  /\ news = 0

-----------------------------------------------------------------------------
(* The thread send_message.                                                  *)

Enqueue(cmd, number, line) ==
  /\ conn # "left"
  /\ sending = <<>>
  /\ typed < MaxCommands
  /\ typed' = typed + 1
  /\ g_cmd_queue' = Append(g_cmd_queue, cmd)
  /\ asked' = Append(asked, number)
  /\ sending' = line
  /\ split' = (split \/ Splits(line))
  /\ UNCHANGED <<wait_for_announce, serverVars, to_server, to_client, news>>

\* Set [number]: refused while wait_for_announce is 1, which nothing sets.
SendSetStation(n) ==
  /\ wait_for_announce # 1
  /\ Enqueue(CMD_SETSTATION, n, LineOfNumber(CMD_SETSTATION, n))

\* Reqall, Reqcur and Reqast.
SendRequest(type) == Enqueue(CMD_REQUEST, None, LineOfRequest(type))

SendAll ==
  /\ conn # "left"
  /\ sending # <<>>
  /\ to_server' = IF conn = "open" THEN to_server \o sending ELSE to_server
  /\ sending' = <<>>
  /\ UNCHANGED <<g_cmd_queue, asked, wait_for_announce, typed, split, serverVars,
                 to_client, news>>

-----------------------------------------------------------------------------
(* The server: read_line and parse_and_send.                                 *)

\* The length of the first line, without its NL.
LineLength == (CHOOSE n \in 1..Len(to_server) :
                 to_server[n] = NL /\ \A m \in 1..(n - 1) : to_server[m] # NL) - 1

\* A byte of the line.  The buffer behind it is zero.
ByteOf(line, n) == IF n <= Len(line) THEN line[n] ELSE 0

NumberOf(line) == ByteOf(line, 2) * 256 + ByteOf(line, 3)

\* Mutant: a refused Set is not answered.
MutantAnswerSet(n, texts) ==
  IF n \in Ids
  THEN /\ cur_station' = n
       /\ to_client' = to_client \o <<Confirm("SetConfirmed", n)>> \o Announced(texts)
  ELSE UNCHANGED <<cur_station, to_client>>

\* CMD_SETSTATION.
AnswerSet(n, texts) ==
  IF n \in Ids
  THEN /\ cur_station' = n
       /\ to_client' = (IF shaken THEN to_client ELSE Append(to_client, Invalid))
                         \o <<Confirm("SetConfirmed", n)>> \o Announced(texts)
  ELSE /\ to_client' = (IF shaken THEN to_client ELSE Append(to_client, Invalid))
                         \o <<Invalid>>
       /\ UNCHANGED cur_station

\* CMD_REQUEST.  The two refusals do not exclude each other.
AnswerRequest(type, texts) ==
  /\ to_client' =
       IF type = TYPE_ALL_STATION
       THEN to_client \o <<Confirm("RequestConfirmed", None)>> \o Announced(texts)
       ELSE IF type \notin {0, 1} THEN to_client
       ELSE (IF shaken THEN to_client ELSE Append(to_client, Invalid))
              \o (IF cur_station = None THEN <<Invalid>>
                  ELSE <<Confirm("RequestConfirmed", None)>> \o Announced(texts))
  /\ UNCHANGED cur_station

\* CMD_HELLO.
AnswerHello ==
  /\ shaken' = TRUE
  /\ to_client' = Append(to_client, IF shaken THEN Invalid ELSE Welcome)
  /\ UNCHANGED cur_station

\* One line.  An empty one looks like a closed connection, and a line with
\* another first byte is not answered.
ServeLine ==
  LET line == SubSeq(to_server, 1, LineLength)
  IN /\ conn = "open"
     /\ to_server # <<>>
     /\ to_server' = SubSeq(to_server, LineLength + 2, Len(to_server))
     /\ IF line = <<>>
        THEN conn' = "closed" /\ UNCHANGED <<shaken, cur_station, to_client>>
        ELSE /\ UNCHANGED conn
             /\ \/ line[1] = CMD_HELLO /\ AnswerHello
                \/ /\ line[1] = CMD_SETSTATION
                   /\ \E texts \in [1..1 -> Sizes] : AnswerSet(NumberOf(line), texts)
                   /\ UNCHANGED shaken
                \/ /\ line[1] = CMD_REQUEST
                   /\ \E texts \in [1..MaxSongs -> Sizes] : AnswerRequest(ByteOf(line, 2), texts)
                   /\ UNCHANGED shaken
                \/ line[1] > CMD_REQUEST /\ UNCHANGED <<shaken, cur_station, to_client>>
     /\ split' = (split \/ Cut(to_client'))
     /\ UNCHANGED <<clientVars, news>>

\* The operator adds a station, or a song ends and the next is announced.
Announce ==
  /\ conn = "open"
  /\ news < MaxNews
  /\ news' = news + 1
  /\ \E texts \in [1..1 -> Sizes] : to_client' = to_client \o Announced(texts)
  /\ split' = (split \/ Cut(to_client'))
  /\ UNCHANGED <<clientVars, serverVars, to_server>>

\* The operator removes the client's station.
StationCloses ==
  /\ conn = "open"
  /\ cur_station # None
  /\ news < MaxNews
  /\ news' = news + 1
  /\ cur_station' = None
  /\ to_client' = Append(to_client, News)
  /\ UNCHANGED <<clientVars, shaken, conn, to_server, split>>

-----------------------------------------------------------------------------
(* The thread recv_message.                                                  *)

Dequeue ==
  IF g_cmd_queue = <<>>
  THEN UNCHANGED <<g_cmd_queue, asked>>
  ELSE g_cmd_queue' = Tail(g_cmd_queue) /\ asked' = Tail(asked)

\* The commands a line takes from the head of the queue.  An INVALID and a line
\* of no known type take any.
Answers(msg) ==
  IF msg.type = "WELCOME" THEN {CMD_HELLO}
  ELSE IF msg.type \in {"INVALID", "OTHER"} THEN {CMD_HELLO, CMD_SETSTATION, CMD_REQUEST}
  ELSE IF msg.text = "SetConfirmed" THEN {CMD_SETSTATION}
  ELSE IF msg.text = "RequestConfirmed" THEN {CMD_REQUEST}
  ELSE {}

\* Mutant: every announcement is taken for an answer.
MutantReceiverParser ==
  /\ to_client # <<>>
  /\ to_client' = Tail(to_client)
  /\ Dequeue
  /\ UNCHANGED <<wait_for_announce, sending, typed, split, serverVars, to_server, news>>

\* receiver_parser.  For a line of another type it takes the command without
\* the lock of the queue.
ReceiverParser ==
  LET msg == Head(to_client)
  IN /\ to_client # <<>>
     /\ to_client' = Tail(to_client)
     /\ IF g_cmd_queue # <<>> /\ Head(g_cmd_queue) \in Answers(msg)
        THEN Dequeue
        ELSE UNCHANGED <<g_cmd_queue, asked>>
     /\ wait_for_announce' =
          IF g_cmd_queue # <<>> /\ Head(g_cmd_queue) = CMD_SETSTATION
             /\ msg.type # "OTHER" /\ CMD_SETSTATION \in Answers(msg)
          THEN 0 ELSE wait_for_announce
     /\ UNCHANGED <<sending, typed, split, serverVars, to_server, news>>

\* recv_message reads the end of the connection and exits.
Leave ==
  /\ conn = "closed"
  /\ to_client = <<>>
  /\ conn' = "left"
  /\ UNCHANGED <<clientVars, shaken, cur_station, to_server, to_client, news, split>>

-----------------------------------------------------------------------------
Type ==
  \/ \E n \in Numbers : SendSetStation(n)
  \/ \E type \in 0..2 : SendRequest(type)

Next == Type \/ SendAll \/ ServeLine \/ Announce \/ StationCloses \/ ReceiverParser \/ Leave

Spec == Init /\ [][Next]_vars

\* The server reads what arrives, and both threads of the client run.
FairSpec == Spec /\ WF_vars(SendAll) /\ WF_vars(ServeLine) /\ WF_vars(ReceiverParser)

-----------------------------------------------------------------------------
(* Properties.                                                               *)

\* Where the lines to the client that take a command are, and where those to
\* the server begin.
Replies == {n \in 1..Len(to_client) : Answers(to_client[n]) # {}}
Lines(bytes) == {n \in 1..Len(bytes) : n = 1 \/ bytes[n - 1] = NL}

\* n is the how-manieth of S.
Rank(S, n) == Cardinality({m \in S : m <= n})

\* The queue of pending commands is in step with the connection, across both
\* threads of the client and whatever the server announces meanwhile: the
\* replies on their way answer its first commands, in order, and the lines on
\* their way are the rest of it.  This holds until one side writes a newline
\* inside a message: the client one among the bytes of a number or a port, the
\* server one as the size of a text.  And the state is well typed whatever is
\* written: the client only ever gets stations that exist.
QueueInStep ==
  LET count == Cardinality(Replies)
      bytes == to_server \o sending
  IN /\ TypeOK
     /\ ~split =>
          /\ Len(g_cmd_queue) = count + Cardinality(Lines(bytes))
          /\ \A n \in Replies : g_cmd_queue[Rank(Replies, n)] \in Answers(to_client[n])
          /\ \A n \in Lines(bytes) : g_cmd_queue[count + Rank(Lines(bytes), n)] = bytes[n]

\* A "SetConfirmed" answers the Set that asked for the station the
\* client got, up to the cut to 16 bits, again unless a message was split.
ConfirmedAsAsked ==
  \A n \in Replies :
    ~split /\ to_client[n].text = "SetConfirmed"
      => /\ Rank(Replies, n) <= Len(asked)
         /\ to_client[n].num = asked[Rank(Replies, n)] % 65536

\* Every command is answered in the end and leaves the queue, again unless a
\* message was split.
PendingDrains == []<>(g_cmd_queue = <<>> \/ split)

=============================================================================
