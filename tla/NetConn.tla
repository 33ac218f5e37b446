-------------------------------- MODULE NetConn --------------------------------
(***************************************************************************)
(* A client's connection to a server: the state machine of net_common.cc   *)
(* on both ends, the loops of net_client.cc that connect, run and leave,   *)
(* and the slot the server keeps for the client's address (net_server.cc). *)
(*                                                                         *)
(* Time passes in ticks of a little more than a second, so that whatever   *)
(* was sent before a tick is "> 1000" ms old after it.  Both programs come *)
(* round their loops every few milliseconds, so no tick passes before each *)
(* has run since the last tick and since it received something.  A         *)
(* datagram is at most MaxDelay ticks under way.                           *)
(* One client and its slot are modelled: slots do not share state but for  *)
(* the count of players, which is an external choice here (NetLobby).      *)
(***************************************************************************)
EXTENDS Naturals, FiniteSets

CONSTANTS
  MaxRetries,     \* MAX_RETRIES (5)
  SilenceTicks,   \* CONNECTION_TIMEOUT_LEN (10)
  SleepTicks,     \* the 5000 of NET_CONN_STATE_DISCONNECTED_SLEEP
  LoopTicks,      \* the 5000 of NET_CL_Connect and NET_CL_Disconnect
  MaxDelay,       \* ticks a datagram may be under way
  MaxFaults,      \* bound on the datagrams lost or delivered again
  MaxConnects,    \* bound on the calls of NET_CL_Connect
  Leaving         \* how a program leaves a game: "disconnect" and "exit"

ASSUME TicksAssumption ==
  /\ {MaxRetries, SilenceTicks, SleepTicks, LoopTicks} \subseteq Nat \ {0}
  /\ {MaxDelay, MaxFaults, MaxConnects} \subseteq Nat
  /\ Leaving \subseteq {"disconnect", "exit"}

VARIABLES
  conn,       \* conn[e]: the net_connection_t of end e
  active,     \* server: clients[i].active
  phase,      \* client: which loop the program is in
  elapsed,    \* client: ticks since that loop's start_time
  wire,       \* wire[e]: datagrams under way to end e
  ran,        \* the ends that have run since the last tick
  faults,     \* history: datagrams lost or delivered again
  connects,   \* history: calls of NET_CL_Connect
  asked,      \* history: the ends whose program asked to disconnect
  gaveUp      \* history: what an end stopped waiting for, or that it quit

vars == <<conn, active, phase, elapsed, wire, ran, faults, connects, asked, gaveUp>>

End == {"client", "server"}
Other(e) == CHOOSE f \in End : f # e

State == {"CONNECTING", "WAITING_ACK", "CONNECTED", "DISCONNECTING",
          "DISCONNECTED", "DISCONNECTED_SLEEP"}
Reason == {"NONE", "LOCAL", "REMOTE", "TIMEOUT"}
Kind == {"SYN", "ACK", "REJECTED", "KEEPALIVE", "DISCONNECT", "DISCONNECT_ACK"}
Datagram == [kind : Kind, age : 0 .. MaxDelay]

\* due: last_send_time is -1 or more than a second ago.  quiet: nothing was
\* sent for more than KEEPALIVE_PERIOD.  silent, idle: ticks since
\* keepalive_recv_time, and since last_send_time in DISCONNECTED_SLEEP.
Connection ==
  [state : State, reason : Reason, num_retries : 0 .. MaxRetries,
   due : BOOLEAN, quiet : BOOLEAN, silent : 0 .. SilenceTicks, idle : 0 .. SleepTicks]

Event == {"connect", "handshake", "disconnect", "silence", "quit"}

TypeOK ==
  /\ conn \in [End -> Connection]
  /\ active \in BOOLEAN
  /\ phase \in {"idle", "connecting", "playing", "leaving"}
  /\ elapsed \in 0 .. LoopTicks
  /\ wire \in [End -> SUBSET Datagram]
  /\ ran \in SUBSET End
  /\ faults \in 0 .. MaxFaults
  /\ connects \in 0 .. MaxConnects
  /\ asked \in SUBSET End
  /\ gaveUp \in SUBSET (End \X Event)

\* NET_Conn_Init, with the state that InitClient and InitServer give it.
Fresh(state) ==
  [state |-> state, reason |-> "NONE", num_retries |-> 0, due |-> TRUE,
   quiet |-> TRUE, silent |-> 0, idle |-> 0]

Init ==
  /\ conn = [e \in End |-> Fresh("DISCONNECTED")]
  /\ active = FALSE
  /\ phase = "idle"
  /\ elapsed = 0
  /\ wire = [e \in End |-> {}]
  /\ ran = {}
  /\ faults = 0
  /\ connects = 0
  /\ asked = {}
  /\ gaveUp = {}

\* NET_SendPacket: datagrams of these kinds leave for the other end.
Sent(e, kinds) ==
  [wire EXCEPT ![Other(e)] = @ \cup {[kind |-> k, age |-> 0] : k \in kinds}]

\* What is left on the wires when datagram d is delivered to end e: a fault of
\* the network is that it will be delivered again.
Received(e, d, again) ==
  IF again THEN wire ELSE [wire EXCEPT ![e] = @ \ {d}]

\* Whether a delivery is repeated, for the faults that are left.
Repeated(again) ==
  /\ again => faults < MaxFaults
  /\ faults' = faults + IF again THEN 1 ELSE 0

-----------------------------------------------------------------------------
(* net_common.cc: what a connection becomes, and what it sends. *)

\* The result of a handler: the connection and the kinds of packets sent.
Result(c, kinds) ==
  [conn |-> IF kinds = {} THEN c ELSE [c EXCEPT !.quiet = FALSE], send |-> kinds]

\* NET_Conn_ParseACK
ParseACK(c) ==
  CASE c.state = "CONNECTING" -> Result([c EXCEPT !.state = "CONNECTED"], {"ACK"})
    [] c.state = "WAITING_ACK" -> Result([c EXCEPT !.state = "CONNECTED"], {})
    [] OTHER -> Result(c, {})

ParseDisconnect_OwnReason(c) ==
  Result([c EXCEPT !.state = "DISCONNECTED_SLEEP", !.reason = "LOCAL",
                   !.due = FALSE, !.idle = 0],
         {"DISCONNECT_ACK"})

\* NET_Conn_ParseDisconnect, in whatever state the connection is.
ParseDisconnect(c) ==
  Result([c EXCEPT !.state = "DISCONNECTED_SLEEP", !.reason = "REMOTE",
                   !.due = FALSE, !.idle = 0],
         {"DISCONNECT_ACK"})

\* NET_Conn_ParseDisconnectACK
ParseDisconnectACK(c) ==
  IF c.state = "DISCONNECTING"
  THEN Result([c EXCEPT !.state = "DISCONNECTED", !.reason = "LOCAL", !.due = TRUE], {})
  ELSE Result(c, {})

\* NET_Conn_ParseReject
ParseReject(c) ==
  IF c.state = "CONNECTING"
  THEN Result([c EXCEPT !.state = "DISCONNECTED", !.reason = "REMOTE"], {})
  ELSE Result(c, {})

\* keepalive_recv_time is now.
Heard(c) == [c EXCEPT !.silent = 0]

\* NET_Conn_Packet.  A SYN that reaches the client is not a common packet
\* and nothing else.
ConnPacket(c, kind) ==
  CASE kind = "ACK" -> ParseACK(Heard(c))
    [] kind = "DISCONNECT" -> ParseDisconnect(Heard(c))
    [] kind = "DISCONNECT_ACK" -> ParseDisconnectACK(Heard(c))
    [] kind = "REJECTED" -> ParseReject(Heard(c))
    [] OTHER -> Result(Heard(c), {})

\* NET_Conn_Disconnect
ConnDisconnect(c) ==
  IF c.state \in {"DISCONNECTED", "DISCONNECTING", "DISCONNECTED_SLEEP"} THEN c
  ELSE [c EXCEPT !.state = "DISCONNECTING", !.reason = "LOCAL",
                 !.due = TRUE, !.num_retries = 0]

\* The two states that repeat a packet until it is answered.
Resend(c, kind, reason) ==
  IF ~c.due THEN Result(c, {})
  ELSE IF c.num_retries < MaxRetries
  THEN Result([c EXCEPT !.due = FALSE, !.num_retries = @ + 1], {kind})
  ELSE Result([c EXCEPT !.state = "DISCONNECTED", !.reason = reason], {})

RunConnected_NoKeepalive(c) ==
  Result(IF c.silent >= SilenceTicks
         THEN [c EXCEPT !.state = "DISCONNECTED", !.reason = "TIMEOUT"] ELSE c, {})

\* NET_CONN_STATE_CONNECTED in NET_Conn_Run: the keepalive counters.
RunConnected(c) ==
  Result(IF c.silent >= SilenceTicks
         THEN [c EXCEPT !.state = "DISCONNECTED", !.reason = "TIMEOUT"] ELSE c,
         IF c.quiet THEN {"KEEPALIVE"} ELSE {})

\* NET_Conn_Run
ConnRun(c) ==
  CASE c.state = "CONNECTED" -> RunConnected(c)
    [] c.state = "WAITING_ACK" -> Resend(c, "ACK", "TIMEOUT")
    [] c.state = "DISCONNECTING" -> Resend(c, "DISCONNECT", "LOCAL")
    [] c.state = "DISCONNECTED_SLEEP" /\ c.idle >= SleepTicks ->
         Result([c EXCEPT !.state = "DISCONNECTED", !.reason = "REMOTE"], {})
    [] OTHER -> Result(c, {})

\* What an end stopped waiting for when NET_Conn_Run closed the connection.
Abandoned(e, c) ==
  CASE c.state = "CONNECTED" -> {<<e, "silence">>}
    [] c.state = "WAITING_ACK" -> {<<e, "handshake">>}
    [] c.state = "DISCONNECTING" -> {<<e, "disconnect">>}
    [] OTHER -> {}

-----------------------------------------------------------------------------
(* The client, net_client.cc *)

\* NET_CL_Connect, up to the loop.
ClientConnect ==
  /\ phase = "idle"
  /\ connects < MaxConnects
  /\ connects' = connects + 1
  /\ conn' = [conn EXCEPT !["client"] = Fresh("CONNECTING")]
  /\ phase' = "connecting"
  /\ elapsed' = 0
  /\ ran' = ran \ {"client"}
  /\ UNCHANGED <<active, wire, faults, asked, gaveUp>>

\* NET_CL_ParsePacket of a packet from the server.
ClientReceive ==
  \E d \in wire["client"], again \in BOOLEAN :
    LET r == ConnPacket(conn["client"], d.kind)
        w == Received("client", d, again)
    IN
    /\ phase # "idle"
    /\ Repeated(again)
    /\ conn' = [conn EXCEPT !["client"] = r.conn]
    /\ wire' = [w EXCEPT !["server"] = @ \cup {[kind |-> k, age |-> 0] : k \in r.send}]
    /\ ran' = ran \ {"client"}
    /\ UNCHANGED <<active, phase, elapsed, connects, asked, gaveUp>>

ClientRun_NoShutdown(c, sent) ==
  LET r == ConnRun(c) IN
  /\ conn' = [conn EXCEPT !["client"] = r.conn]
  /\ wire' = Sent("client", sent \cup r.send)
  /\ phase' = IF phase = "connecting" /\ r.conn.state = "CONNECTED" THEN "playing" ELSE phase
  /\ gaveUp' = IF r.conn.state = "DISCONNECTED" THEN gaveUp \cup Abandoned("client", c)
               ELSE gaveUp

\* NET_CL_Run after the packets were read: the connection runs, and the
\* client shuts down as soon as it is disconnected or asleep.  sent are the
\* kinds that were sent on the way here.
ClientRun(c, sent) ==
  LET r == ConnRun(c)
      over == r.conn.state \in {"DISCONNECTED", "DISCONNECTED_SLEEP"}
  IN
  /\ conn' = [conn EXCEPT !["client"] = r.conn]
  /\ wire' = Sent("client", sent \cup r.send)
  /\ phase' = IF over THEN "idle"
              ELSE IF phase = "connecting" /\ r.conn.state = "CONNECTED" THEN "playing"
              ELSE phase
  /\ gaveUp' = IF r.conn.state = "DISCONNECTED" THEN gaveUp \cup Abandoned("client", c)
               ELSE gaveUp

\* The loop of NET_CL_Connect runs out of time: NET_CL_Shutdown.
ConnectTimeout ==
  /\ elapsed >= LoopTicks
  /\ conn["client"].state = "CONNECTING"
  /\ phase' = "idle"
  /\ wire' = IF conn["client"].due THEN Sent("client", {"SYN"}) ELSE wire
  /\ gaveUp' = gaveUp \cup {<<"client", "connect">>}
  /\ UNCHANGED conn

\* Once round the loop of NET_CL_Connect.  The packets were read inside
\* NET_CL_Run: once one has changed the state, the rest of NET_CL_Run is next.
ConnectLoop ==
  /\ phase = "connecting"
  /\ \/ ConnectTimeout
     \/ /\ elapsed < LoopTicks \/ conn["client"].state # "CONNECTING"
        /\ LET c == conn["client"] IN
           IF c.due /\ c.state = "CONNECTING"
           THEN ClientRun([c EXCEPT !.due = FALSE, !.quiet = FALSE], {"SYN"})
           ELSE ClientRun(c, {})
  /\ ran' = ran \cup {"client"}
  /\ UNCHANGED <<active, elapsed, faults, connects, asked>>

\* NetUpdate during a game.
PlayLoop ==
  /\ phase = "playing"
  /\ ClientRun(conn["client"], {})
  /\ ran' = ran \cup {"client"}
  /\ UNCHANGED <<active, elapsed, faults, connects, asked>>

\* NET_CL_Disconnect, up to the loop.  Only D_QuitNetGame calls it, which
\* nothing calls in turn.
ClientDisconnect ==
  /\ "disconnect" \in Leaving /\ phase = "playing"
  /\ conn' = [conn EXCEPT !["client"] = ConnDisconnect(@)]
  /\ asked' = asked \cup {"client"}
  /\ phase' = "leaving"
  /\ elapsed' = 0
  /\ ran' = ran \ {"client"}
  /\ UNCHANGED <<active, wire, faults, connects, gaveUp>>

\* I_Quit: the program ends without a word to the server.
Quit ==
  /\ "exit" \in Leaving /\ phase = "playing"
  /\ phase' = "idle"
  /\ gaveUp' = gaveUp \cup {<<"client", "quit">>}
  /\ UNCHANGED <<conn, active, elapsed, wire, ran, faults, connects, asked>>

\* Once round the loop of NET_CL_Disconnect.  A connection that is already
\* over is shut down without a word.
DisconnectLoop ==
  /\ phase = "leaving"
  /\ \/ /\ \/ conn["client"].state \in {"DISCONNECTED", "DISCONNECTED_SLEEP"}
           \/ elapsed >= LoopTicks
        /\ phase' = "idle"
        /\ gaveUp' = IF conn["client"].state = "DISCONNECTING"
                     THEN gaveUp \cup {<<"client", "disconnect">>} ELSE gaveUp
        /\ UNCHANGED <<conn, wire>>
     \/ /\ conn["client"].state \notin {"DISCONNECTED", "DISCONNECTED_SLEEP"}
        /\ elapsed < LoopTicks
        /\ ClientRun(conn["client"], {})
  /\ ran' = ran \cup {"client"}
  /\ UNCHANGED <<active, elapsed, faults, connects, asked>>

-----------------------------------------------------------------------------
(* The server, net_server.cc *)

SlotAfterSYN_NoHandshake == Fresh("CONNECTED")

\* The slot after a SYN that is accepted.  A slot that was not deactivated
\* keeps its connection; one that waits for an ACK answers at once.
SlotAfterSYN ==
  LET c == conn["server"]
      d == IF active /\ c.state # "DISCONNECTED" THEN c ELSE Fresh("WAITING_ACK")
  IN  IF d.state = "WAITING_ACK" THEN [d EXCEPT !.due = TRUE] ELSE d

\* NET_SV_ParseSYN: rejected, when a game is in progress or the server is
\* full (by then a slot that was disconnected is deactivated), or accepted.
ParseSYN ==
  \E d \in wire["server"], again \in BOOLEAN :
    LET w == Received("server", d, again) IN
    /\ d.kind = "SYN"
    /\ Repeated(again)
    /\ \/ /\ wire' = [w EXCEPT !["client"] = @ \cup {[kind |-> "REJECTED", age |-> 0]}]
          /\ active' \in {active, active /\ conn["server"].state # "DISCONNECTED"}
          /\ UNCHANGED conn
       \/ /\ conn' = [conn EXCEPT !["server"] = SlotAfterSYN]
          /\ active' = TRUE
          /\ wire' = w

\* Any other packet, from the address of the slot or from a stranger.
ServerPacket ==
  \E d \in wire["server"], again \in BOOLEAN :
    LET r == ConnPacket(conn["server"], d.kind)
        w == Received("server", d, again)
    IN
    /\ d.kind # "SYN"
    /\ Repeated(again)
    /\ IF active
       THEN /\ conn' = [conn EXCEPT !["server"] = r.conn]
            /\ wire' = [w EXCEPT !["client"] = @ \cup {[kind |-> k, age |-> 0] : k \in r.send}]
       ELSE /\ wire' = w
            /\ UNCHANGED conn
    /\ UNCHANGED active

ServerReceive ==
  /\ ParseSYN \/ ServerPacket
  /\ ran' = ran \ {"server"}
  /\ UNCHANGED <<phase, elapsed, connects, asked, gaveUp>>

\* A client that is disconnected gives its slot back.
SlotKept(c) == c.state # "DISCONNECTED"

\* NET_SV_RunClient
ServerRun ==
  LET c == conn["server"]
      r == ConnRun(c)
  IN
  /\ active
  /\ conn' = [conn EXCEPT !["server"] = r.conn]
  /\ wire' = Sent("server", r.send)
  /\ active' = SlotKept(r.conn)
  /\ gaveUp' = IF r.conn.state = "DISCONNECTED" THEN gaveUp \cup Abandoned("server", c)
               ELSE gaveUp
  /\ ran' = ran \cup {"server"}
  /\ UNCHANGED <<phase, elapsed, faults, connects, asked>>

\* NET_SV_DisconnectClient, from NET_SV_GameEnded or NET_SV_Shutdown.
ServerDisconnect ==
  /\ active
  /\ conn' = [conn EXCEPT !["server"] = ConnDisconnect(@)]
  /\ asked' = asked \cup {"server"}
  /\ conn' # conn
  /\ UNCHANGED <<active, phase, elapsed, wire, ran, faults, connects, gaveUp>>

-----------------------------------------------------------------------------
(* The network and the clock *)

Lose ==
  /\ faults < MaxFaults
  /\ \E e \in End : \E d \in wire[e] : wire' = [wire EXCEPT ![e] = @ \ {d}]
  /\ faults' = faults + 1
  /\ UNCHANGED <<conn, active, phase, elapsed, ran, connects, asked, gaveUp>>

Capped(n, limit) == IF n < limit THEN n + 1 ELSE limit

Later(c) ==
  [c EXCEPT !.due = TRUE, !.quiet = TRUE,
            !.silent = Capped(@, SilenceTicks),
            !.idle = IF c.state = "DISCONNECTED_SLEEP" THEN Capped(@, SleepTicks) ELSE 0]

\* A tick of the clock.
Tick ==
  /\ phase # "idle" => "client" \in ran
  /\ active => "server" \in ran
  /\ \A e \in End : \A d \in wire[e] : d.age < MaxDelay
  /\ conn' = [e \in End |-> Later(conn[e])]
  /\ elapsed' = IF phase \in {"connecting", "leaving"} THEN Capped(elapsed, LoopTicks) ELSE 0
  /\ wire' = [e \in End |-> {[d EXCEPT !.age = @ + 1] : d \in wire[e]}]
  /\ ran' = {}
  /\ UNCHANGED <<active, phase, faults, connects, asked, gaveUp>>

\* A datagram that reaches a client which is not listening is gone.
Ignored ==
  /\ phase = "idle"
  /\ \E d \in wire["client"] : wire' = [wire EXCEPT !["client"] = @ \ {d}]
  /\ UNCHANGED <<conn, active, phase, elapsed, ran, faults, connects, asked, gaveUp>>

Next ==
  \/ ClientConnect \/ ClientReceive \/ ConnectLoop \/ PlayLoop
  \/ ClientDisconnect \/ DisconnectLoop \/ Quit
  \/ ServerReceive \/ ServerRun \/ ServerDisconnect
  \/ Lose \/ Ignored \/ Tick

Spec == Init /\ [][Next]_vars

\* Both programs keep running their loops, time passes, and a datagram ends
\* its way.  Nobody has to connect or disconnect.
Fairness ==
  /\ WF_vars(ConnectLoop)
  /\ WF_vars(PlayLoop)
  /\ WF_vars(DisconnectLoop)
  /\ WF_vars(ServerRun)
  /\ WF_vars(ClientReceive)
  /\ WF_vars(ServerReceive)
  /\ WF_vars(Ignored)
  /\ WF_vars(Tick)

FairSpec == Spec /\ Fairness

-----------------------------------------------------------------------------
(* Properties *)

\* NET_Conn_ParseACK: the server takes a client for connected only after the
\* client has taken the server for connected, however old the packets are.
HandshakeOrder ==
  active /\ conn["server"].state = "CONNECTED" => conn["client"].state # "CONNECTING"

\* disconnect_reason blames the right end: REMOTE only when the other
\* program asked to disconnect, LOCAL only when this one did, although the
\* requests may cross on the wire.  (A client turned away while connecting
\* has the reason REMOTE too, but never sleeps.)
ReasonTruth ==
  /\ conn["server"].reason = "REMOTE" => "client" \in asked
  /\ conn["client"].state = "DISCONNECTED_SLEEP" => "server" \in asked
  /\ \A e \in End : conn[e].reason = "LOCAL" => e \in asked

\* While nobody leaves, no end of a connection falls silent for the other as
\* long as the datagrams lost and delayed do not fill CONNECTION_TIMEOUT_LEN
\* and the handshake went well (the keepalives of NET_Conn_Run).
KeepalivesSuffice ==
  faults + MaxDelay < SilenceTicks - 1 /\ asked = {} /\ gaveUp \subseteq End \X {"silence"}
    => gaveUp = {}

\* The loops of NET_CL_Connect and NET_CL_Disconnect, which hold up the whole
\* program, come to an end whatever the server and the network do.
LoopsEnd == phase \in {"connecting", "leaving"} ~> phase \in {"idle", "playing"}

\* A slot whose client is gone is given back, however the client went
\* (NET_SV_RunClient), unless the client comes again.
HalfOpenEnds == active /\ phase = "idle" ~> ~active \/ phase # "idle"

\* A client whose slot is gone finds out (NET_CL_Run), or was let in again.
OrphanEnds == phase = "playing" /\ ~active ~> phase # "playing" \/ active

\* A slot that was told to disconnect is given back (NET_Conn_Run).
ServerDisconnectEnds ==
  active /\ conn["server"].state = "DISCONNECTING" ~>
    ~active \/ conn["server"].state = "WAITING_ACK"

\* Whatever is half over comes to an end, at both ends.
ConnectionsEnd == LoopsEnd /\ HalfOpenEnds /\ OrphanEnds /\ ServerDisconnectEnds

-----------------------------------------------------------------------------
(* What the comments claim and the code does not do *)

\* "it has been a second since the last ACK was sent, and still no reply.
\* send another ACK" (net_common.cc:383): one lost datagram does not make
\* the server give up on a client that is connected.
OneLossHandshake ==
  faults <= 1 /\ phase = "playing" => <<"server", "handshake">> \notin gaveUp

\* "waiting in case we need to send a DISCONNECT_ACK to the server again"
\* (net_common.cc:441): one lost datagram does not make the server run out
\* of retries.
OneLossDisconnect == faults <= 1 => <<"server", "disconnect">> \notin gaveUp

\* "If this is a recently-disconnected client, deactivate to allow immediate
\* reconnection" (net_server.cc:553): with nothing lost and nobody turned
\* away, NET_CL_Connect does not time out.
ImmediateReconnection == faults = 0 => <<"client", "connect">> \notin gaveUp

\* D_QuitNetGame is "Called before quitting to leave a net game without
\* hanging the other players" (d_net.cc:421): with nothing lost, the server
\* does not have to wait for CONNECTION_TIMEOUT_LEN to see that a client left.
QuitIsTold == faults = 0 => <<"server", "silence">> \notin gaveUp
================================================================================
