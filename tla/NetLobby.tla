-------------------------------- MODULE NetLobby --------------------------------
(***************************************************************************)
(* The lobby of a network game: the slots of a server (net_server.cc), the *)
(* players it numbers, the waiting data and the start of the game it sends *)
(* to its clients, and the clients that connect, wait and play             *)
(* (net_client.cc, D_NetWait).                                             *)
(*                                                                         *)
(* Connections are those of NetConn without their clocks: a time-out may   *)
(* pass whenever its condition can be met.  A packet that is repeated      *)
(* until it is answered is a datagram that may be sent again; datagrams of *)
(* one kind are not told apart, but the latest waiting data counts.  A     *)
(* reliable packet is received once and in order, and acknowledged         *)
(* (NetReliable).  A program leaves by ending: nothing calls D_QuitNetGame, *)
(* so no client sends a DISCONNECT and no slot sleeps.  The tics of the    *)
(* game are those of NetTics.                                              *)
(***************************************************************************)
EXTENDS Integers, Sequences, FiniteSets, Ranking

CONSTANTS
  Client,         \* the addresses clients connect from
  Drone,          \* those that run with -drone
  NoClient,       \* the address of a slot nobody has
  MaxNodes,       \* MAXNETNODES (8)
  MaxPlayers,     \* MAXPLAYERS (4)
  MaxConnects,    \* bound on the programs that connect from one address
  MaxUpsets       \* bound on the datagrams lost, the programs that are ended,
                  \* those that are started again, and the keys pressed in
                  \* D_NetWait after the first

ASSUME LobbyAssumption ==
  /\ IsFiniteSet(Client) /\ NoClient \notin Client /\ Drone \subseteq Client
  /\ MaxNodes \in Nat \ {0} /\ MaxPlayers \in Nat \ {0}
  /\ {MaxConnects, MaxUpsets} \subseteq Nat

Slot == 0 .. MaxNodes - 1
NoStart == [num |-> 0]

VARIABLES
  server,     \* server_state, clients[] and sv_players[]
  client,     \* client[c]: the program at address c
  up, down,   \* up[c], down[c]: datagrams under way from and to c
  games,      \* history: games started
  keys,       \* history: keys pressed in D_NetWait
  upsets      \* history: what MaxUpsets bounds

vars == <<server, client, up, down, games, keys, upsets>>

\* A slot that is not active.  Nothing of it is read before it is set again.
\* due: what is repeated every second (ACK, waiting data, DISCONNECT) has not
\* been sent yet in this state: last_send_time is -1.
Free == [active |-> FALSE, addr |-> NoClient, state |-> "DISCONNECTED",
         drone |-> FALSE, due |-> TRUE, start |-> NoStart]

\* A program that does not run.  showing is the id of D_NetWait, count is
\* net_clients_in_game, number is consoleplayer, ingame is client_state.
Off == [phase |-> "off", conn |-> "DISCONNECTED", ingame |-> FALSE,
        number |-> 0, num |-> 0, game |-> 0, count |-> 0, showing |-> 0,
        start |-> FALSE, connects |-> 0]

Init ==
  /\ server = [state |-> "WAITING_START", slot |-> [s \in Slot |-> Free], players |-> << >>]
  /\ client = [c \in Client |-> Off]
  /\ up = [c \in Client |-> {}]
  /\ down = [c \in Client |-> {}]
  /\ games = 0 /\ keys = 0 /\ upsets = 0

ConnState == {"WAITING_ACK", "CONNECTED", "DISCONNECTING", "DISCONNECTED"}

TypeOK ==
  /\ server.state \in {"WAITING_START", "IN_GAME"}
  /\ \A s \in Slot :
       LET k == server.slot[s] IN
       /\ k.active => k.addr \in Client /\ (k.drone <=> k.addr \in Drone)
       /\ k.active \/ k = Free
       /\ k.state \in ConnState
       /\ \A t \in Slot \ {s} : k.active => server.slot[t].addr # k.addr
  /\ server.players \in UNION {[1 .. n -> Slot] : n \in 0 .. MaxNodes}
  /\ \A c \in Client :
       /\ client[c].phase \in {"off", "connecting", "waiting", "playing"}
       /\ client[c].conn \in {"CONNECTING", "CONNECTED", "DISCONNECTED"}
       /\ client[c].count \in 0 .. MaxNodes /\ client[c].showing \in 0 .. MaxNodes
       /\ client[c].game \in 0 .. games
       /\ up[c] \subseteq {"SYN", "ACK", "DISCONNECT_ACK"}
       /\ \A m \in down[c] : m.kind \in {"ACK", "REJECTED", "WAITING_DATA", "DISCONNECT"}
  /\ upsets \in 0 .. MaxUpsets /\ keys \in 0 .. MaxUpsets + 1

-----------------------------------------------------------------------------
(* The server's slots and players.  sv is a value of the variable server. *)

\* ClientConnected
Connected(sv, s) == sv.slot[s].active /\ sv.slot[s].state = "CONNECTED"

Players(sv) == {s \in Slot : Connected(sv, s) /\ ~sv.slot[s].drone}

\* NET_SV_AssignPlayers.  Player pl is at place pl + 1; more than MaxPlayers of
\* them are more than sv_players has room for.
AssignPlayers(sv) == [sv EXCEPT !.players = Ascending(Players(sv))]

\* The player_number of the client in slot s after NET_SV_AssignPlayers; 0 is
\* the -1 of a drone, and player numbers count from 1 here.
PlayerNumber(sv, s) ==
  IF \E i \in DOMAIN sv.players : sv.players[i] = s
  THEN CHOOSE i \in DOMAIN sv.players : sv.players[i] = s ELSE 0

\* NET_SV_NumPlayers: of sv_players as it was last assigned.
NumPlayers(sv) ==
  Cardinality({i \in DOMAIN sv.players : i <= MaxPlayers /\ Connected(sv, sv.players[i])})

\* NET_SV_NumClients
NumClients(sv) == Cardinality({s \in Slot : Connected(sv, s)})

\* NET_SV_Controller: the first connected client that is not a drone.
IsController(sv, s) == s \in Players(sv) /\ \A t \in Players(sv) : s <= t

\* NET_SV_FindClient
SlotsOf(sv, c) == {s \in Slot : sv.slot[s].active /\ sv.slot[s].addr = c}

-----------------------------------------------------------------------------
(* Datagrams *)

Plain(kind) == [kind |-> kind]
WaitingData(n) == [kind |-> "WAITING_DATA", num |-> n]

\* The datagrams on their way to c when m is sent as well.  Waiting data takes
\* the place of older waiting data, and nobody reads what is sent to a program
\* that has ended.
With(datagrams, c, m) ==
  IF client[c].phase = "off" THEN datagrams
  ELSE {m} \cup (IF m.kind = "WAITING_DATA"
                 THEN {d \in datagrams : d.kind # "WAITING_DATA"} ELSE datagrams)

\* What the program can do without counts, for MaxUpsets.
Upset(counts) ==
  /\ counts => upsets < MaxUpsets
  /\ upsets' = upsets + IF counts THEN 1 ELSE 0

\* A datagram to or from a client is lost.  What is repeated may be sent again.
Lose ==
  /\ Upset(TRUE)
  /\ \E c \in Client :
       \/ \E m \in up[c] : up' = [up EXCEPT ![c] = @ \ {m}] /\ UNCHANGED down
       \/ \E m \in down[c] : down' = [down EXCEPT ![c] = @ \ {m}] /\ UNCHANGED up
  /\ UNCHANGED <<server, client, games, keys>>

-----------------------------------------------------------------------------
(* What the server does with a packet from address c. *)

\* NET_SV_InitNewClient
NewClient(c) ==
  [active |-> TRUE, addr |-> c, state |-> "WAITING_ACK",
   drone |-> c \in Drone, due |-> TRUE, start |-> NoStart]

\* The slots a SYN of c can be given: the one c has or, if it has none, the
\* first that is free.
SlotFor(c) ==
  IF SlotsOf(server, c) # {} THEN SlotsOf(server, c)
  ELSE {s \in Slot : /\ ~server.slot[s].active
                     /\ \A t \in 0 .. s - 1 : server.slot[t].active}

\* A slot whose client may be replaced: "recently-disconnected" counts.
Vacant(s) == server.slot[s].state = "DISCONNECTED"

Refused(c) == down' = [down EXCEPT ![c] = With(@, c, Plain("REJECTED"))] /\ UNCHANGED server

Awaited(s) ==
  /\ server' = [server EXCEPT !.slot[s].due = @ \/ server.slot[s].state = "WAITING_ACK"]
  /\ UNCHANGED down

ParseSYN_NotNumbered(c) ==
  IF server.state # "WAITING_START" THEN Refused(c)
  ELSE \E s \in SlotFor(c) :
         IF ~Vacant(s) THEN Awaited(s)
         ELSE IF \/ c \notin Drone /\ NumPlayers(server) >= MaxPlayers
                 \/ NumClients(server) >= MaxNodes
         THEN Refused(c)
         ELSE server' = [server EXCEPT !.slot[s] = NewClient(c)] /\ UNCHANGED down

ParseSYN_AnyTime(c) ==
  \E s \in SlotFor(c) :
    LET sv == AssignPlayers([server EXCEPT !.slot[s] = Free]) IN
    IF ~Vacant(s) THEN Awaited(s)
    ELSE IF \/ c \notin Drone /\ NumPlayers(sv) >= MaxPlayers
            \/ NumClients(sv) >= MaxNodes
    THEN /\ server' = sv
         /\ down' = [down EXCEPT ![c] = With(@, c, Plain("REJECTED"))]
    ELSE server' = [sv EXCEPT !.slot[s] = NewClient(c)] /\ UNCHANGED down

\* NET_SV_ParseSYN.  A client that waits for an ACK is sent another.
ParseSYN(c) ==
  IF server.state # "WAITING_START" THEN Refused(c)
  ELSE \E s \in SlotFor(c) :
    LET sv == AssignPlayers([server EXCEPT !.slot[s] = Free]) IN
    IF ~Vacant(s) THEN Awaited(s)
    ELSE IF \/ c \notin Drone /\ NumPlayers(sv) >= MaxPlayers
            \/ NumClients(sv) >= MaxNodes
    THEN /\ server' = sv
         /\ down' = [down EXCEPT ![c] = With(@, c, Plain("REJECTED"))]
    ELSE server' = [sv EXCEPT !.slot[s] = NewClient(c)] /\ UNCHANGED down

\* The common packets, for slot s (NET_Conn_Packet).
ParseCommon(s, kind) ==
  /\ server' =
       LET k == server.slot[s] IN
       CASE kind = "ACK" /\ k.state = "WAITING_ACK" ->
              [server EXCEPT !.slot[s].state = "CONNECTED", !.slot[s].due = TRUE]
         [] kind = "DISCONNECT_ACK" /\ k.state = "DISCONNECTING" ->
              [server EXCEPT !.slot[s].state = "DISCONNECTED"]
         [] OTHER -> server
  /\ UNCHANGED down

\* NET_SV_Packet
ServerReceive(c) ==
  /\ UNCHANGED <<client, games, keys, upsets>>
  /\ \E kind \in up[c] :
       /\ up' = [up EXCEPT ![c] = @ \ {kind}]
       /\ IF kind = "SYN" THEN ParseSYN(c) \/ (SlotFor(c) = {} /\ UNCHANGED <<server, down>>)
          ELSE \/ SlotsOf(server, c) = {} /\ UNCHANGED <<server, down>>
               \/ \E s \in SlotsOf(server, c) : ParseCommon(s, kind)

\* The clients that NET_SV_ParseGameStart sends start packets to.
StartPackets(sv) ==
  [s \in Slot |->
     IF Connected(sv, s)
     THEN [num |-> NumPlayers(sv), number |-> PlayerNumber(sv, s), game |-> games + 1,
           sent |-> FALSE]
     ELSE NoStart]

\* NET_SV_ParseGameStart, of the reliable packet that c has to send.
ServerGameStart(c) ==
  \E s \in SlotsOf(server, c) :
    LET sv == AssignPlayers(server) IN
    /\ client[c].conn = "CONNECTED" /\ client[c].start
    /\ client' = [client EXCEPT ![c].start = FALSE]
    /\ IF IsController(server, s) /\ server.state = "WAITING_START"
       THEN /\ server' = [sv EXCEPT !.state = "IN_GAME",
                                    !.slot = [t \in Slot |->
                                      IF Connected(sv, t)
                                      THEN [@[t] EXCEPT !.start = StartPackets(sv)[t]]
                                      ELSE @[t]]]
            /\ games' = games + 1
       ELSE UNCHANGED <<server, games>>
    /\ UNCHANGED <<up, down, keys, upsets>>

-----------------------------------------------------------------------------
(* NET_SV_RunClient, for each active slot in turn.  x holds the server and  *)
(* the datagrams to the clients as the slots before have left them.         *)

\* NET_SV_DisconnectClient
Disconnect(k) ==
  IF k.active /\ k.state \in {"WAITING_ACK", "CONNECTED"}
  THEN [k EXCEPT !.state = "DISCONNECTING", !.due = TRUE] ELSE k

\* NET_SV_GameEnded
GameEnded(sv) ==
  [sv EXCEPT !.state = "WAITING_START", !.slot = [s \in Slot |-> Disconnect(@[s])]]

Sends(x, s, m) ==
  LET c == x.sv.slot[s].addr
  IN  [x EXCEPT !.down[c] = With(@, c, m), !.sv.slot[s].due = FALSE]

\* NET_Conn_Run.  expired: the retries are used up, or the other end has been
\* silent for 10 s.
ConnRun(x, s, expired, late) ==
  LET k == x.sv.slot[s] IN
  IF expired THEN [x EXCEPT !.sv.slot[s].state = "DISCONNECTED"]
  ELSE CASE k.state = "WAITING_ACK" /\ (k.due \/ late) -> Sends(x, s, Plain("ACK"))
         [] k.state = "DISCONNECTING" /\ (k.due \/ late) -> Sends(x, s, Plain("DISCONNECT"))
         [] k.state = "CONNECTED" /\ k.start # NoStart ->
              [x EXCEPT !.sv.slot[s].start.sent = TRUE]
         [] OTHER -> x

DropDisconnected_NeverEnds(x, s) ==
  IF x.sv.slot[s].state = "DISCONNECTED" THEN [x EXCEPT !.sv.slot[s] = Free] ELSE x

\* A disconnected client gives its slot back; with the last player the game ends.
DropDisconnected(x, s) ==
  IF x.sv.slot[s].state # "DISCONNECTED" THEN x
  ELSE LET sv == [x.sv EXCEPT !.slot[s] = Free]
       IN  [x EXCEPT !.sv = IF NumPlayers(sv) = 0 THEN GameEnded(sv) ELSE sv]

\* NET_SV_SendWaitingData, at once to a client that has had none.
SendWaiting(x, s, late) ==
  IF /\ Connected(x.sv, s) /\ x.sv.state = "WAITING_START"
     /\ late \/ x.sv.slot[s].due
  THEN LET sv == AssignPlayers(x.sv)
       IN  Sends([x EXCEPT !.sv = sv], s, WaitingData(NumPlayers(sv)))
  ELSE x

RunClient(x, s, expired, late) ==
  IF ~x.sv.slot[s].active THEN x
  ELSE SendWaiting(DropDisconnected(ConnRun(x, s, expired, late), s), s, late)

\* Whatever takes a second or more happens to client c when nothing is under
\* way to or from it and its slot has nothing to say at once.
Quiet(c) ==
  /\ up[c] = {} /\ down[c] = {}
  /\ \A s \in SlotsOf(server, c) :
       server.slot[s].due => server.slot[s].state \notin {"WAITING_ACK", "DISCONNECTING"}

\* A time-out that can have passed when the server runs slot s.  A client that
\* runs sends keepalives, so only one that does not is silent for 10 s.
MayExpire(s) ==
  LET k == server.slot[s] IN
  /\ k.active /\ Quiet(k.addr)
  /\ k.state = "CONNECTED" =>
       client[k.addr].phase = "off" \/ client[k.addr].conn = "CONNECTING"

\* NET_SV_Run after the packets were read.  late: a second has passed.  A slot
\* that another slot's turn has changed does not expire.
RunClients(expired, late) ==
  LET run[i \in 0 .. MaxNodes] ==
        IF i = 0 THEN [sv |-> server, down |-> down]
        ELSE RunClient(run[i - 1], i - 1,
                       /\ i - 1 \in expired
                       /\ run[i - 1].sv.slot[i - 1] = server.slot[i - 1], late)
  IN run[MaxNodes]

ServerRun(expired, late) ==
  LET x == RunClients(expired, late) IN
  /\ \A s \in expired : MayExpire(s)
  /\ late => \A c \in Client : Quiet(c)
  /\ server' = x.sv
  /\ down' = x.down
  /\ UNCHANGED <<client, up, games, keys, upsets>>

-----------------------------------------------------------------------------
(* The client *)

\* NET_CL_Connect by a program that has just been started.
ClientConnect(c) ==
  /\ client[c].phase = "off" /\ client[c].connects < MaxConnects
  /\ Upset(client[c].connects > 0)
  /\ client' = [client EXCEPT ![c] = [Off EXCEPT !.phase = "connecting", !.conn = "CONNECTING",
                                                 !.connects = client[c].connects + 1]]
  /\ UNCHANGED <<server, up, down, games, keys>>

\* The program ends, or it shuts the client down and has nothing more to do
\* with the network (NET_CL_Run, when the connection has ended: D_NetWait,
\* NET_CL_Connect and a drone's game stop, and a player plays on alone).
Ends(c) ==
  client' = [client EXCEPT ![c] = [Off EXCEPT !.connects = client[c].connects]]

\* The loop of NET_CL_Connect, "every second".
SendSYN(c) ==
  /\ client[c].phase = "connecting" /\ client[c].conn = "CONNECTING" /\ Quiet(c)
  /\ up' = [up EXCEPT ![c] = @ \cup {"SYN"}]
  /\ UNCHANGED <<server, client, down, games, keys, upsets>>

\* The program goes on once it is connected: to D_NetWait, which it leaves at
\* once if net_waiting_for_start says that the game has started.
Proceeds(c) == IF client[c].ingame THEN "playing" ELSE "waiting"

ConnectLoop_KeepsState(c) ==
  /\ client[c].phase = "connecting"
  /\ IF client[c].conn = "CONNECTED"
     THEN client' = [client EXCEPT ![c].phase = Proceeds(c)]
     ELSE Ends(c) /\ Quiet(c)
  /\ UNCHANGED <<server, up, down, games, keys, upsets>>

\* The end of NET_CL_Connect, after the NET_CL_Run that connected: client_state
\* is set, whatever else that NET_CL_Run has received.  If not: I_Error.
ConnectLoop(c) ==
  /\ client[c].phase = "connecting"
  /\ IF client[c].conn = "CONNECTED"
     THEN client' = [client EXCEPT ![c].phase = Proceeds(c), ![c].ingame = FALSE]
     ELSE Ends(c) /\ Quiet(c)
  /\ UNCHANGED <<server, up, down, games, keys, upsets>>

\* NET_CL_ParseWaitingData.  A server never counts more than MAXPLAYERS
\* players; what it says of player numbers is not used before the game starts.
ParseWaitingData(c, m) == [client[c] EXCEPT !.count = m.num]

ClientParse(c, m) ==
  CASE m.kind = "ACK" /\ client[c].conn = "CONNECTING" ->
         /\ client' = [client EXCEPT ![c].conn = "CONNECTED"]
         /\ up' = [up EXCEPT ![c] = @ \cup {"ACK"}]
    [] m.kind = "REJECTED" /\ client[c].conn = "CONNECTING" ->
         Ends(c) /\ UNCHANGED up
    [] m.kind = "WAITING_DATA" ->
         client' = [client EXCEPT ![c] = ParseWaitingData(c, m)] /\ UNCHANGED up
    [] m.kind = "DISCONNECT" ->
         /\ Ends(c)
         /\ up' = [up EXCEPT ![c] = @ \cup {"DISCONNECT_ACK"}]
    [] OTHER -> UNCHANGED <<client, up>>

\* The client code is in use (net_client_connected).
Running(c) == client[c].phase \in {"connecting", "waiting", "playing"}

\* NET_CL_ParsePacket
ClientReceive(c) ==
  /\ Running(c)
  /\ \E m \in down[c] :
       /\ ClientParse(c, m)
       /\ down' = [down EXCEPT ![c] = IF client'[c].phase = "off" THEN {} ELSE @ \ {m}]
  /\ UNCHANGED <<server, games, keys, upsets>>

\* NET_CL_ParseGameStart, of the reliable packet the server has for the
\* client.  The packet is acknowledged whatever the client's state is.
ClientGameStart(c) ==
  \E s \in SlotsOf(server, c) :
    LET p == server.slot[s].start IN
    /\ Running(c) /\ p # NoStart /\ p.sent
    /\ server' = [server EXCEPT !.slot[s].start = NoStart]
    /\ client' = [client EXCEPT ![c] =
                    IF @.ingame \/ p.number > p.num \/ (p.number = 0 /\ c \notin Drone) THEN @
                    ELSE [@ EXCEPT !.ingame = TRUE, !.number = p.number,
                                   !.num = p.num, !.game = p.game]]
    /\ UNCHANGED <<up, down, games, keys, upsets>>

\* The loop of D_NetWait: the name of the last player is shown when their
\* number has changed, and the loop is left when the game has started.
NetWait(c) ==
  /\ client[c].phase = "waiting"
  /\ client' = [client EXCEPT ![c] =
                  IF @.ingame THEN [@ EXCEPT !.phase = "playing", !.showing = 0, !.count = 0]
                  ELSE [@ EXCEPT !.showing = client[c].count]]
  /\ UNCHANGED <<server, up, down, games, keys, upsets>>

\* A key in D_NetWait: NET_CL_StartGame, in whoever's program.
StartGame(c) ==
  /\ client[c].phase = "waiting" /\ ~client[c].start /\ Upset(keys > 0)
  /\ client' = [client EXCEPT ![c].start = TRUE]
  /\ keys' = keys + 1
  /\ UNCHANGED <<server, up, down, games>>

\* The program ends.
Quit(c) ==
  /\ client[c].phase # "off" /\ Upset(TRUE)
  /\ Ends(c)
  /\ down' = [down EXCEPT ![c] = {}]
  /\ UNCHANGED <<server, up, games, keys>>

Next ==
  \/ Lose
  \/ \E expired \in SUBSET Slot, late \in BOOLEAN : ServerRun(expired, late)
  \/ \E c \in Client :
       \/ ServerReceive(c)
       \/ ServerGameStart(c)
       \/ ClientConnect(c)
       \/ SendSYN(c)
       \/ ConnectLoop(c)
       \/ ClientReceive(c)
       \/ ClientGameStart(c)
       \/ NetWait(c)
       \/ StartGame(c)
       \/ Quit(c)

Spec == Init /\ [][Next]_vars

-----------------------------------------------------------------------------
(* Properties *)

\* The clients of one game agree on it: they have the same number of players
\* (NET_CL_ParseGameStart), and the player_number of each is the place at
\* which the server keeps the client, for as long as both are in the game.
NumbersAgree ==
  \A c \in Client :
    client[c].phase = "playing" /\ client[c].game = games /\ server.state = "IN_GAME" =>
      /\ client[c].num = Len(server.players)
      /\ c \notin Drone =>
           \A s \in SlotsOf(server, c) : server.players[client[c].number] = s

\* What NET_SV_NumPlayers counts is a player, although sv_players is assigned
\* only now and then and slots are given to other clients.
PlayersCounted ==
  \A i \in DOMAIN server.players :
    Connected(server, server.players[i]) => ~server.slot[server.players[i]].drone

\* D_NetWait shows net_player_names[net_clients_in_game - 1] whenever the
\* number has changed: it does not change to 0 (a drone may be told of no
\* players, but not after it was told of some).  A program that is started
\* again and hears the waiting data of its old slot is left out.
NameShown ==
  \A c \in Client :
    client[c].phase = "waiting" /\ client[c].showing > 0 /\ client[c].connects = 1
      => client[c].count > 0

\* The numbers that everybody is told while they wait are those of players.
PlayersShown == PlayersCounted /\ NameShown

\* The game ends with its last player, in whatever order the slots are freed: a
\* server without clients, or with drones only, waits for the next game.
GameEnds ==
  (\A s \in Slot : server.slot[s].active => server.slot[s].drone) => server.state = "WAITING_START"

-----------------------------------------------------------------------------
(* What the comments claim and the code does not do *)

\* "Before accepting a new client, check that there is a slot free"
\* (net_server.cc:568): the players fit into sv_players.
PlayersFit == Len(server.players) <= MaxPlayers

\* NET_SV_GameEnded is "Called when all players have disconnected"
\* (net_server.cc:1421): it disconnects no player that is connected.
PlayersKept ==
  [][\A s \in Slot : Connected(server, s) /\ ~server.slot[s].drone
                      => server'.slot[s].state # "DISCONNECTING"]_vars

\* "not accepting new connections?" (net_server.cc:517): while a game is
\* played, nobody comes in.
NoLateJoin ==
  [][server.state = "IN_GAME" =>
       \A s \in Slot : Connected(server', s) => Connected(server, s)]_vars

\* CLIENT_STATE_WAITING_START stands for "waiting for the game to start"
\* (net_client.cc:54): a client whose game has started is in another state.
StartKept == \A c \in Client : client[c].phase = "playing" => client[c].ingame
================================================================================
