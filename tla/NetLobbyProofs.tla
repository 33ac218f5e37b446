---------------------------- MODULE NetLobbyProofs ----------------------------
(***************************************************************************)
(* Proofs about NetLobby, for any clients and drones and any number of     *)
(* slots and players.                                                      *)
(*                                                                         *)
(* The server's turn goes from slot to slot, and what holds between two    *)
(* slots is what holds between two turns: the invariant is about a state   *)
(* sv of the server and datagrams dn to the clients, wherever they are     *)
(* between.  Most steps of the server are tame: slots are given back or go *)
(* on to the end of a connection, and players only go if everybody does.   *)
(***************************************************************************)
EXTENDS NetLobby, Functions, NaturalsInduction, FiniteSetTheorems, TLAPS

---------------------------------------------------------------------------
(* Sets of numbers: the least, the greatest, and counting off.             *)

\* A set of numbers that is not empty has a least one.
LEMMA LeastNumber ==
  ASSUME NEW S, S \subseteq Nat, S # {}
  PROVE  \E n \in S : \A m \in S : n =< m
<1> DEFINE R == OpToRel(<, Nat)
<1>1. \E n \in S : \A m \in S : ~ (<<m, n>> \in R)
  BY NatLessThanWellFounded, WFMin
<1>2. \A m, n \in Nat : m < n => <<m, n>> \in R
  BY DEF OpToRel
<1> HIDE DEF R
<1>3. PICK n \in S : \A m \in S : ~ (<<m, n>> \in R)
  BY <1>1
<1>4. ASSUME NEW m \in S PROVE n =< m
  <2>1. m \in Nat /\ n \in Nat /\ ~ (m < n)
    BY <1>2, <1>3
  <2> QED BY <2>1
<1> QED BY <1>3, <1>4

\* A finite set of numbers can be counted off upwards.
LEMMA Ranks ==
  ASSUME NEW D, D \subseteq Nat, IsFiniteSet(D)
  PROVE  \A i \in 1 .. Cardinality(D) : \E s \in D : Cardinality({r \in D : r =< s}) = i
<1> DEFINE n == Cardinality(D)
           rank == [s \in D |-> Cardinality({r \in D : r =< s})]
<1>1. n \in Nat /\ IsFiniteSet(1 .. n) /\ Cardinality(1 .. n) = n
  BY FS_CardinalityType, FS_Interval
<1>2. \A s \in D : rank[s] \in 1 .. n
  <2> TAKE s \in D
  <2>1. {r \in D : r =< s} \in SUBSET D /\ s \in {r \in D : r =< s}
    OBVIOUS
  <2>2. /\ IsFiniteSet({r \in D : r =< s})
        /\ Cardinality({r \in D : r =< s}) =< n
    BY <2>1, FS_Subset
  <2>3. Cardinality({r \in D : r =< s}) \in Nat /\ Cardinality({r \in D : r =< s}) # 0
    BY <2>1, <2>2, FS_CardinalityType, FS_EmptySet
  <2> QED BY <1>1, <2>2, <2>3
<1>3. \A s, t \in D : s < t => rank[s] # rank[t]
  <2> SUFFICES ASSUME NEW s \in D, NEW t \in D, s < t PROVE rank[s] # rank[t]
    OBVIOUS
  <2>0. s \in Nat /\ t \in Nat /\ t =< t /\ ~ (t =< s)
        /\ \A r \in D : r \in Nat /\ (r =< s => r =< t)
    OBVIOUS
  <2>1. /\ {r \in D : r =< s} \in SUBSET {r \in D : r =< t}
        /\ t \in {r \in D : r =< t} /\ t \notin {r \in D : r =< s}
    BY <2>0
  <2>2. IsFiniteSet({r \in D : r =< t})
    BY FS_Subset
  <2> QED BY <2>1, <2>2, FS_Subset
<1>4. rank \in Injection(D, 1 .. n)
  <2>1. \A s, t \in D : rank[s] = rank[t] => s = t
    BY <1>3
  <2>2. rank \in [D -> 1 .. n]
    BY <1>2
  <2> QED BY <2>1, <2>2, Zenon DEF Injection, IsInjective
<1>5. rank \in Surjection(D, 1 .. n)
  BY <1>1, <1>4, FS_Injection
<1> QED BY <1>5 DEF Surjection

\* Ascending(D) has every element of D once, and in their order.
LEMMA AscendingFacts ==
  ASSUME NEW D, D \subseteq Nat, IsFiniteSet(D)
  PROVE  /\ Cardinality(D) \in Nat
         /\ Ascending(D) \in [1 .. Cardinality(D) -> D]
         /\ Ascending(D) \in Seq(D) /\ Len(Ascending(D)) = Cardinality(D)
         /\ \A i, j \in 1 .. Cardinality(D) : i < j => Ascending(D)[i] < Ascending(D)[j]
         /\ \A s \in D : \E i \in 1 .. Cardinality(D) : Ascending(D)[i] = s
<1> DEFINE n == Cardinality(D)
           Rank(s) == Cardinality({r \in D : r =< s})
           a == Ascending(D)
<1>1. n \in Nat /\ IsFiniteSet(1 .. n) /\ Cardinality(1 .. n) = n
  BY FS_CardinalityType, FS_Interval
<1>2. ASSUME NEW i \in 1 .. n PROVE a[i] \in D /\ Rank(a[i]) = i
  <2>1. \E s \in D : Rank(s) = i
    BY Ranks
  <2>2. a[i] = CHOOSE s \in D : Rank(s) = i
    BY DEF Ascending
  <2> HIDE DEF Rank, a
  <2> QED BY <2>1, <2>2
<1>3. a = [i \in 1 .. n |-> a[i]]
  BY DEF Ascending
<1>4. a \in [1 .. n -> D]
  <2> HIDE DEF a
  <2> QED BY <1>2, <1>3
<1>5. a \in Seq(D) /\ Len(a) = n
  <2> HIDE DEF a, n
  <2> QED BY <1>1, <1>4
<1>6. ASSUME NEW i \in 1 .. n, NEW j \in 1 .. n, i < j PROVE a[i] < a[j]
  <2>1. a[i] \in D /\ a[j] \in D /\ Rank(a[i]) = i /\ Rank(a[j]) = j
    BY <1>2
  <2>2. SUFFICES ASSUME ~ (a[i] < a[j]) PROVE FALSE
    OBVIOUS
  <2> HIDE DEF a
  <2>3. ASSUME NEW r \in D PROVE r =< a[j] => r =< a[i]
    <3>1. r \in Nat /\ a[i] \in Nat /\ a[j] \in Nat
      BY <2>1
    <3> QED BY <2>2, <3>1
  <2>4. {r \in D : r =< a[j]} \in SUBSET {r \in D : r =< a[i]}
    BY <2>3
  <2>5. IsFiniteSet({r \in D : r =< a[i]})
    BY FS_Subset
  <2>6. Rank(a[j]) =< Rank(a[i])
    BY <2>4, <2>5, FS_Subset
  <2> HIDE DEF Rank
  <2> QED BY <1>1, <1>6, <2>1, <2>6
<1>7. \A i, j \in 1 .. n : a[i] = a[j] => i = j
  <2> HIDE DEF a
  <2>1. \A i \in 1 .. n : a[i] \in Nat
    BY <1>2
  <2> QED BY <1>1, <1>6, <2>1
<1>8. ASSUME NEW s \in D PROVE \E i \in 1 .. n : a[i] = s
  <2> HIDE DEF a
  <2>1. a \in Injection(1 .. n, D)
    BY <1>4, <1>7 DEF Injection, IsInjective
  <2>2. a \in Surjection(1 .. n, D)
    BY <1>1, <2>1, FS_Injection
  <2> QED BY <2>2 DEF Surjection
<1> QED BY <1>1, <1>4, <1>5, <1>6, <1>8

---------------------------------------------------------------------------
(* The inductive invariant.                                                *)

Started == [num : Nat, number : Nat, game : Nat, sent : BOOLEAN]

SlotState ==
  [active : BOOLEAN, addr : Client \cup {NoClient}, state : ConnState,
   drone : BOOLEAN, due : BOOLEAN, start : {NoStart} \cup Started]

ServerState ==
  [state : {"WAITING_START", "IN_GAME"}, slot : [Slot -> SlotState], players : Seq(Slot)]

Program ==
  [phase : {"off", "connecting", "waiting", "playing"},
   conn : {"CONNECTING", "CONNECTED", "DISCONNECTED"}, ingame : BOOLEAN,
   number : Nat, num : Nat, game : Nat, count : Nat, showing : Nat,
   start : BOOLEAN, connects : Nat]

Datagram ==
  [kind : {"ACK", "REJECTED", "DISCONNECT"}] \cup [kind : {"WAITING_DATA"}, num : Nat]

Types ==
  /\ client \in [Client -> Program]
  /\ up \in [Client -> SUBSET {"SYN", "ACK", "DISCONNECT_ACK"}]
  /\ games \in Nat

\* A slot belongs to one client, and a player's has not become a drone's since the
\* players were numbered.  A game has a player.
ServerInv(sv, g) ==
  /\ sv \in ServerState
  /\ \A s \in Slot : sv.slot[s].active =>
       sv.slot[s].addr \in Client /\ (sv.slot[s].drone <=> sv.slot[s].addr \in Drone)
  /\ \A s \in Slot : ~sv.slot[s].active => sv.slot[s] = Free
  /\ \A s, t \in Slot :
       sv.slot[s].active /\ sv.slot[t].active /\ sv.slot[s].addr = sv.slot[t].addr => s = t
  /\ \A i \in 1 .. Len(sv.players) : ~sv.slot[sv.players[i]].drone
  /\ sv.state = "IN_GAME" => g > 0 /\ \E s \in Slot : sv.slot[s].active /\ ~sv.slot[s].drone

\* The numbers of players in waiting data.
Told(d) == {m.num : m \in {e \in d : e.kind = "WAITING_DATA"}}

\* The client k at address c, its slot, and the datagrams u and d from and to it.  A SYN
\* and the ACK that answers it are not under way together, and to the first program at
\* an address nothing comes that was meant for an earlier one.
HandshakeInv(c, sv, k, u, d) ==
  /\ "SYN" \in u =>
       /\ Plain("ACK") \notin d
       /\ \A s \in SlotsOf(sv, c) : ~(sv.slot[s].state = "WAITING_ACK" /\ sv.slot[s].due)
  /\ k.phase = "off" => d = {}
  /\ k.connects = 0 => k.phase = "off" /\ u = {} /\ SlotsOf(sv, c) = {}
  /\ k.connects = 1 /\ k.phase # "off" =>
       /\ k.conn = "CONNECTED" => "SYN" \notin u
       /\ k.conn # "CONNECTED" =>
            /\ "ACK" \notin u /\ Told(d) = {} /\ k.count = 0
            /\ \A s \in SlotsOf(sv, c) : sv.slot[s].state # "CONNECTED"

\* What it is told of players: a client that is no drone is one of them, and a drone that
\* has heard of players stays as long as there are players.
WaitingInv(c, sv, k, d) ==
  /\ \A m, n \in Told(d) : m = n
  /\ c \notin Drone => 0 \notin Told(d)
  /\ k.connects = 1 /\ k.phase # "off" =>
       /\ k.showing > 0 => k.count > 0
       /\ k.count > 0 => 0 \notin Told(d)
       /\ c \in Drone /\ (k.count > 0 \/ \E n \in Told(d) : n > 0) =>
            \A s \in SlotsOf(sv, c) :
              /\ sv.slot[s].state # "WAITING_ACK"
              /\ sv.slot[s].state = "CONNECTED" => Players(sv) # {}

ClientInv(c, sv, k, u, d) == HandshakeInv(c, sv, k, u, d) /\ WaitingInv(c, sv, k, d)

Inv(sv, cl, u, dn, g) ==
  /\ ServerInv(sv, g)
  /\ dn \in [Client -> SUBSET Datagram]
  /\ \A c \in Client : ClientInv(c, sv, cl[c], u[c], dn[c])

IInv == Types /\ Inv(server, client, up, down, games)

\* What p says of the game that is played is right for the client in slot s.
Agrees(sv, s, p) ==
  /\ p.num = Len(sv.players)
  /\ p.number # 0 => p.number \in 1 .. Len(sv.players) /\ sv.players[p.number] = s

\* What clients will hear of the game, and what those know that play it.
AgreeInv(sv, cl, g) ==
  /\ \A s \in Slot : sv.slot[s].start # NoStart =>
       /\ sv.slot[s].start.game <= g
       /\ sv.state = "IN_GAME" /\ sv.slot[s].start.game = g =>
            Agrees(sv, s, sv.slot[s].start)
  /\ \A c \in Client :
       /\ cl[c].game <= g
       /\ sv.state = "IN_GAME" /\ cl[c].game = g =>
            /\ cl[c].num = Len(sv.players)
            /\ c \notin Drone => cl[c].number # 0
            /\ \A s \in SlotsOf(sv, c) : Agrees(sv, s, cl[c])

---------------------------------------------------------------------------
(* The numbering of players.                                               *)

\* MAXNETNODES and MAXPLAYERS are numbers, and so are slots.
LEMMA SlotFacts ==
  /\ MaxNodes \in Nat \ {0} /\ MaxPlayers \in Nat \ {0}
  /\ Slot \subseteq Nat /\ IsFiniteSet(Slot) /\ NoClient \notin Client
<1>1. MaxNodes \in Nat \ {0} /\ MaxPlayers \in Nat \ {0} /\ NoClient \notin Client
  BY LobbyAssumption
<1>2. IsFiniteSet(0 .. MaxNodes - 1)
  BY <1>1, FS_Interval
<1> QED BY <1>1, <1>2 DEF Slot

\* NET_SV_AssignPlayers numbers the players that are connected, and changes nothing else.
LEMMA AssignFacts ==
  ASSUME NEW sv \in ServerState
  PROVE  LET sw == AssignPlayers(sv) IN
         /\ sw \in ServerState /\ sw.state = sv.state /\ sw.slot = sv.slot
         /\ Len(sw.players) \in Nat /\ DOMAIN sw.players = 1 .. Len(sw.players)
         /\ \A i \in 1 .. Len(sw.players) : sw.players[i] \in Players(sv)
         /\ \A s \in Players(sv) : \E i \in 1 .. Len(sw.players) : sw.players[i] = s
<1> DEFINE D == Players(sv)
           a == Ascending(D)
           sw == AssignPlayers(sv)
<1>1. D \in SUBSET Slot
  BY DEF Players
<1>2. D \subseteq Nat /\ IsFiniteSet(D)
  BY <1>1, SlotFacts, FS_Subset
<1>3. /\ Cardinality(D) \in Nat
      /\ a \in [1 .. Cardinality(D) -> D]
      /\ a \in Seq(D) /\ Len(a) = Cardinality(D)
      /\ \A s \in D : \E i \in 1 .. Cardinality(D) : a[i] = s
  BY <1>2, AscendingFacts
<1> HIDE DEF D, a
<1>4. a \in Seq(Slot)
  BY <1>1, <1>3
<1>5. sw = [sv EXCEPT !.players = a]
  BY DEF AssignPlayers, a, D
<1>6. sw \in ServerState /\ sw.state = sv.state /\ sw.slot = sv.slot /\ sw.players = a
  BY <1>4, <1>5 DEF ServerState
<1>7. \A i \in 1 .. Len(sw.players) : sw.players[i] \in D
  BY <1>3, <1>6
<1>8. \A s \in D : \E i \in 1 .. Len(sw.players) : sw.players[i] = s
  BY <1>3, <1>6
<1>9. Len(sw.players) \in Nat /\ DOMAIN sw.players = 1 .. Len(sw.players)
  BY <1>3, <1>6
<1> QED BY <1>6, <1>7, <1>8, <1>9 DEF D

\* NET_SV_NumPlayers counts somebody only if a player that was numbered is connected.
LEMMA CountFacts ==
  ASSUME NEW sv \in ServerState
  PROVE  /\ NumPlayers(sv) \in Nat
         /\ NumPlayers(sv) # 0 <=> \E i \in 1 .. Len(sv.players) :
                                     i <= MaxPlayers /\ Connected(sv, sv.players[i])
<1> DEFINE D == {i \in 1 .. Len(sv.players) : i <= MaxPlayers /\ Connected(sv, sv.players[i])}
<1>1. Len(sv.players) \in Nat /\ DOMAIN sv.players = 1 .. Len(sv.players)
  BY DEF ServerState
<1>2. IsFiniteSet(1 .. Len(sv.players)) /\ D \in SUBSET (1 .. Len(sv.players))
  BY <1>1, FS_Interval
<1>3. IsFiniteSet(D)
  BY <1>2, FS_Subset
<1>4. NumPlayers(sv) = Cardinality(D)
  BY <1>1 DEF NumPlayers
<1>5. D # {} <=> \E i \in 1 .. Len(sv.players) :
                   i <= MaxPlayers /\ Connected(sv, sv.players[i])
  OBVIOUS
<1> HIDE DEF D
<1>6. Cardinality(D) \in Nat /\ (Cardinality(D) = 0 <=> D = {})
  BY <1>3, FS_CardinalityType, FS_EmptySet
<1> QED BY <1>4, <1>5, <1>6

\* Right after the numbering, that is everybody: as many as are numbered if sv_players
\* has room for them, and somebody if there is somebody.
LEMMA AssignedCount ==
  ASSUME NEW sv \in ServerState
  PROVE  LET sw == AssignPlayers(sv) IN
         /\ Len(sw.players) <= MaxPlayers => NumPlayers(sw) = Len(sw.players)
         /\ Players(sv) # {} => NumPlayers(sw) > 0
<1> DEFINE sw == AssignPlayers(sv)
           n == Len(sw.players)
<1>1. /\ sw \in ServerState /\ sw.slot = sv.slot
      /\ n \in Nat /\ DOMAIN sw.players = 1 .. n
      /\ \A i \in 1 .. n : sw.players[i] \in Players(sv)
      /\ \A s \in Players(sv) : \E i \in 1 .. n : sw.players[i] = s
  BY AssignFacts
<1> HIDE DEF sw, n
<1>2. \A i \in 1 .. n : Connected(sw, sw.players[i])
  BY <1>1 DEF Players, Connected
<1>3. ASSUME n <= MaxPlayers PROVE NumPlayers(sw) = n
  <2>1. \A i \in 1 .. n : i <= MaxPlayers
    BY <1>1, <1>3, SlotFacts
  <2>2. {i \in DOMAIN sw.players : i <= MaxPlayers /\ Connected(sw, sw.players[i])} = 1 .. n
    BY <1>1, <1>2, <2>1
  <2>3. Cardinality(1 .. n) = n
    BY <1>1, FS_Interval
  <2> QED BY <2>2, <2>3 DEF NumPlayers
<1>4. ASSUME Players(sv) # {} PROVE NumPlayers(sw) > 0
  <2>1. 1 \in 1 .. n /\ 1 <= MaxPlayers
    BY <1>1, <1>4, SlotFacts
  <2>2. \E i \in 1 .. Len(sw.players) : i <= MaxPlayers /\ Connected(sw, sw.players[i])
    BY <1>2, <2>1 DEF n
  <2>3. NumPlayers(sw) \in Nat /\ NumPlayers(sw) # 0
    BY <1>1, <2>2, CountFacts
  <2> QED BY <2>3
<1> QED BY <1>3, <1>4 DEF sw, n

\* The number of a client in a slot, if it has one, is its place among the players.
LEMMA NumberFacts ==
  ASSUME NEW sv \in ServerState, NEW s \in Slot
  PROVE  LET n == PlayerNumber(sv, s) IN
         /\ n \in Nat
         /\ n # 0 => n \in 1 .. Len(sv.players) /\ sv.players[n] = s
<1>1. Len(sv.players) \in Nat /\ DOMAIN sv.players = 1 .. Len(sv.players)
  BY DEF ServerState
<1>2. CASE \E i \in DOMAIN sv.players : sv.players[i] = s
  <2>1. PlayerNumber(sv, s) = CHOOSE i \in DOMAIN sv.players : sv.players[i] = s
    BY <1>2 DEF PlayerNumber
  <2>2. PlayerNumber(sv, s) \in DOMAIN sv.players /\ sv.players[PlayerNumber(sv, s)] = s
    BY <1>2, <2>1
  <2> QED BY <1>1, <2>2
<1>3. CASE ~ \E i \in DOMAIN sv.players : sv.players[i] = s
  BY <1>3 DEF PlayerNumber
<1> QED BY <1>2, <1>3
---------------------------------------------------------------------------
(* Tame steps of the server.                                               *)

\* A slot is given back, or stays its client's and comes nearer to its end.
SlotGoesOn(k, l) ==
  \/ l = Free
  \/ /\ l.active /\ k.active /\ l.addr = k.addr /\ l.drone = k.drone
     /\ l.state = k.state \/ l.state \in {"DISCONNECTING", "DISCONNECTED"}
     /\ l.state = "WAITING_ACK" /\ l.due => k.due

\* All slots go on, and if the last player goes nobody stays connected.
Tame(sv, sw) ==
  /\ \A s \in Slot : SlotGoesOn(sv.slot[s], sw.slot[s])
  /\ Players(sw) # {} \/ Players(sv) = {} \/ \A s \in Slot : sw.slot[s].state # "CONNECTED"

\* Nobody is told anything new of a game, whose players stay as they are numbered.
TellsNothing(sv, sw) ==
  /\ sw.state = "IN_GAME" => sv.state = "IN_GAME" /\ sw.players = sv.players
  /\ \A s \in Slot : LET p == sw.slot[s].start  q == sv.slot[s].start IN
       p # NoStart => q # NoStart /\ p.game = q.game /\ p.num = q.num /\ p.number = q.number

\* What a slot that is given back holds.
LEMMA FreeFacts ==
  /\ Free \in SlotState /\ ~Free.active /\ Free.state = "DISCONNECTED" /\ ~Free.drone
  /\ Free.start = NoStart /\ Free.addr = NoClient
BY DEF Free, SlotState, ConnState

\* A client has no slots but those it had, and they are not in a state before.
LEMMA TameSlots ==
  ASSUME NEW sv, NEW sw, Tame(sv, sw), NEW c, NEW s \in SlotsOf(sw, c)
  PROVE  /\ s \in SlotsOf(sv, c)
         /\ sw.slot[s].state \in {"WAITING_ACK", "CONNECTED"} => sv.slot[s].state = sw.slot[s].state
         /\ sw.slot[s].state = "WAITING_ACK" /\ sw.slot[s].due => sv.slot[s].due
<1>1. s \in Slot /\ sw.slot[s].active /\ sw.slot[s].addr = c
  BY DEF SlotsOf
<1>2. SlotGoesOn(sv.slot[s], sw.slot[s])
  BY <1>1 DEF Tame
<1>3. sw.slot[s] # Free
  BY <1>1, FreeFacts
<1> QED BY <1>1, <1>2, <1>3 DEF SlotGoesOn, SlotsOf

\* What holds of clients survives.
LEMMA TameKeepsClient ==
  ASSUME NEW sv, NEW sw, Tame(sv, sw), NEW c, NEW k, NEW u, NEW d, ClientInv(c, sv, k, u, d)
  PROVE  ClientInv(c, sw, k, u, d)
<1>1. \A s \in SlotsOf(sw, c) :
        /\ s \in SlotsOf(sv, c) /\ s \in Slot
        /\ sw.slot[s].state \in {"WAITING_ACK", "CONNECTED"} => sv.slot[s].state = sw.slot[s].state
        /\ sw.slot[s].state = "WAITING_ACK" /\ sw.slot[s].due => sv.slot[s].due
  BY TameSlots DEF SlotsOf
<1>2. HandshakeInv(c, sw, k, u, d)
  <2>1. HandshakeInv(c, sv, k, u, d)
    BY DEF ClientInv
  <2> QED BY <1>1, <2>1 DEF HandshakeInv
<1>3. WaitingInv(c, sw, k, d)
  <2>1. WaitingInv(c, sv, k, d)
    BY DEF ClientInv
  <2> QED BY <1>1, <2>1 DEF WaitingInv, Tame
<1> QED BY <1>2, <1>3 DEF ClientInv

\* So does what holds of the server, if it stays numbered or is numbered anew, and if a
\* game keeps a player.
LEMMA TameKeepsServer ==
  ASSUME NEW g, NEW sv, ServerInv(sv, g), NEW sw \in ServerState, Tame(sv, sw),
         sw.players = sv.players \/ \A i \in 1 .. Len(sw.players) : sw.players[i] \in Players(sw),
         sw.state = "IN_GAME" => g > 0 /\ \E s \in Slot : sw.slot[s].active /\ ~sw.slot[s].drone
  PROVE  ServerInv(sw, g)
<1>1. \A s \in Slot : sw.slot[s] = Free \/ /\ sw.slot[s].active /\ sv.slot[s].active
                                           /\ sw.slot[s].addr = sv.slot[s].addr
                                           /\ sw.slot[s].drone = sv.slot[s].drone
  BY DEF Tame, SlotGoesOn
<1>2. \A s \in Slot : sw.slot[s].active => sw.slot[s] # Free
  BY FreeFacts
<1>3. \A s \in Slot : sw.slot[s].active =>
        sw.slot[s].addr \in Client /\ (sw.slot[s].drone <=> sw.slot[s].addr \in Drone)
  BY <1>1, <1>2 DEF ServerInv
<1>4. \A s, t \in Slot :
        sw.slot[s].active /\ sw.slot[t].active /\ sw.slot[s].addr = sw.slot[t].addr => s = t
  BY <1>1, <1>2 DEF ServerInv
<1>5. \A s \in Slot : ~sw.slot[s].active => sw.slot[s] = Free
  BY <1>1
<1>6. \A s \in Slot : ~sv.slot[s].drone => ~sw.slot[s].drone
  BY <1>1, FreeFacts
<1>7. \A i \in 1 .. Len(sw.players) : sw.players[i] \in Slot /\ ~sw.slot[sw.players[i]].drone
  <2>1. sw.players \in Seq(Slot)
    BY DEF ServerState
  <2> QED BY <1>6, <2>1 DEF ServerInv, Players
<1> QED BY <1>3, <1>4, <1>5, <1>7 DEF ServerInv

\* And what clients know of the game.
LEMMA TameKeepsAgreed ==
  ASSUME NEW cl, NEW g, NEW sv, NEW sw, AgreeInv(sv, cl, g), Tame(sv, sw), TellsNothing(sv, sw)
  PROVE  AgreeInv(sw, cl, g)
<1>1. sw.state = "IN_GAME" => sv.state = "IN_GAME" /\ sw.players = sv.players
  BY DEF TellsNothing
<1>2. ASSUME NEW s \in Slot, sw.slot[s].start # NoStart
      PROVE  /\ sw.slot[s].start.game <= g
             /\ sw.state = "IN_GAME" /\ sw.slot[s].start.game = g =>
                  Agrees(sw, s, sw.slot[s].start)
  <2>1. /\ sv.slot[s].start # NoStart /\ sw.slot[s].start.game = sv.slot[s].start.game
        /\ sw.slot[s].start.num = sv.slot[s].start.num
        /\ sw.slot[s].start.number = sv.slot[s].start.number
    BY <1>2 DEF TellsNothing
  <2>2. /\ sv.slot[s].start.game <= g
        /\ sv.state = "IN_GAME" /\ sv.slot[s].start.game = g =>
             Agrees(sv, s, sv.slot[s].start)
    BY <2>1 DEF AgreeInv
  <2> QED BY <1>1, <2>1, <2>2 DEF Agrees
<1>3. ASSUME NEW c \in Client, sw.state = "IN_GAME", cl[c].game = g
      PROVE  /\ cl[c].num = Len(sw.players)
             /\ c \notin Drone => cl[c].number # 0
             /\ \A s \in SlotsOf(sw, c) : Agrees(sw, s, cl[c])
  <2>1. /\ cl[c].num = Len(sv.players)
        /\ c \notin Drone => cl[c].number # 0
        /\ \A s \in SlotsOf(sv, c) : Agrees(sv, s, cl[c])
    BY <1>1, <1>3 DEF AgreeInv
  <2>2. \A s \in SlotsOf(sw, c) : s \in SlotsOf(sv, c)
    BY TameSlots
  <2> QED BY <1>1, <1>3, <2>1, <2>2 DEF Agrees
<1>4. \A c \in Client : cl[c].game <= g
  BY DEF AgreeInv
<1> QED BY <1>2, <1>3, <1>4 DEF AgreeInv

---------------------------------------------------------------------------
(* Datagrams to clients.                                                   *)

\* A datagram of another kind than waiting data tells nothing of players.
LEMMA PlainFacts ==
  ASSUME NEW d \in SUBSET Datagram, NEW c, NEW kind \in {"ACK", "REJECTED", "DISCONNECT"}
  PROVE  /\ With(d, c, Plain(kind)) \in SUBSET Datagram
         /\ Told(With(d, c, Plain(kind))) = Told(d)
         /\ client[c].phase = "off" => With(d, c, Plain(kind)) = d
         /\ kind # "ACK" /\ Plain("ACK") \notin d => Plain("ACK") \notin With(d, c, Plain(kind))
<1>1. Plain(kind) \in Datagram /\ Plain(kind).kind = kind /\ kind # "WAITING_DATA"
  BY DEF Plain, Datagram
<1>2. With(d, c, Plain(kind)) = IF client[c].phase = "off" THEN d ELSE d \cup {Plain(kind)}
  BY <1>1 DEF With
<1>3. kind # "ACK" => Plain(kind) # Plain("ACK")
  BY <1>1 DEF Plain
<1> HIDE DEF Plain
<1>4. {e \in d \cup {Plain(kind)} : e.kind = "WAITING_DATA"} = {e \in d : e.kind = "WAITING_DATA"}
  BY <1>1
<1> QED BY <1>1, <1>2, <1>3, <1>4 DEF Told

\* An ACK is sent only when no SYN is under way.
LEMMA PlainKeeps ==
  ASSUME NEW sv, NEW c, NEW u, NEW d \in SUBSET Datagram,
         NEW kind \in {"ACK", "REJECTED", "DISCONNECT"},
         kind = "ACK" => "SYN" \notin u,
         ClientInv(c, sv, client[c], u, d)
  PROVE  ClientInv(c, sv, client[c], u, With(d, c, Plain(kind)))
<1> DEFINE e == With(d, c, Plain(kind))
<1>1. /\ Told(e) = Told(d)
      /\ client[c].phase = "off" => e = d
      /\ kind # "ACK" /\ Plain("ACK") \notin d => Plain("ACK") \notin e
  BY PlainFacts
<1> HIDE DEF e
<1>2. HandshakeInv(c, sv, client[c], u, e)
  BY <1>1 DEF ClientInv, HandshakeInv
<1>3. WaitingInv(c, sv, client[c], e)
  BY <1>1 DEF ClientInv, WaitingInv
<1> QED BY <1>2, <1>3 DEF ClientInv, e

\* Waiting data takes the place of what was under way.
LEMMA WaitingDataFacts ==
  ASSUME NEW d \in SUBSET Datagram, NEW c, NEW n \in Nat
  PROVE  /\ With(d, c, WaitingData(n)) \in SUBSET Datagram
         /\ client[c].phase # "off" => Told(With(d, c, WaitingData(n))) = {n}
         /\ client[c].phase = "off" => With(d, c, WaitingData(n)) = d
         /\ Plain("ACK") \notin d => Plain("ACK") \notin With(d, c, WaitingData(n))
<1> DEFINE m == WaitingData(n)
           e == {x \in d : x.kind # "WAITING_DATA"}
<1>1. m \in Datagram /\ m.kind = "WAITING_DATA" /\ m.num = n
  BY DEF WaitingData, Datagram
<1>2. With(d, c, m) = IF client[c].phase = "off" THEN d ELSE e \cup {m}
  BY <1>1 DEF With
<1>3. m # Plain("ACK")
  BY <1>1 DEF Plain
<1> HIDE DEF m
<1>4. {x \in e \cup {m} : x.kind = "WAITING_DATA"} = {m}
  BY <1>1
<1>5. Told(e \cup {m}) = {n}
  BY <1>1, <1>4 DEF Told
<1> QED BY <1>1, <1>2, <1>3, <1>5 DEF m

\* A connected client is told a number that is not 0 if there are players.
LEMMA WaitingDataKeeps ==
  ASSUME NEW g, NEW sv, ServerInv(sv, g), NEW s \in Slot, Connected(sv, s),
         NEW c, c = sv.slot[s].addr, NEW u, NEW d \in SUBSET Datagram,
         NEW n \in Nat, n > 0 <=> Players(sv) # {},
         ClientInv(c, sv, client[c], u, d)
  PROVE  ClientInv(c, sv, client[c], u, With(d, c, WaitingData(n)))
<1> DEFINE e == With(d, c, WaitingData(n))
           k == client[c]
<1>1. /\ k.phase # "off" => Told(e) = {n}
      /\ k.phase = "off" => e = d
      /\ Plain("ACK") \notin d => Plain("ACK") \notin e
  BY WaitingDataFacts
<1>2. s \in SlotsOf(sv, c) /\ \A t \in SlotsOf(sv, c) : t = s
  BY DEF Connected, SlotsOf, ServerInv
<1>3. sv.slot[s].state = "CONNECTED" /\ sv.slot[s].active
  BY DEF Connected
<1>4. c \notin Drone => n > 0
  <2>1. c \notin Drone => s \in Players(sv)
    BY <1>3 DEF ServerInv, Players, Connected
  <2> QED BY <2>1
<1> HIDE DEF e, k
<1>5. HandshakeInv(c, sv, k, u, d) /\ WaitingInv(c, sv, k, d)
  BY DEF ClientInv, k
<1>6. k.connects = 1 /\ k.phase # "off" => k.conn = "CONNECTED"
  BY <1>2, <1>3, <1>5 DEF HandshakeInv
<1>7. HandshakeInv(c, sv, k, u, e)
  BY <1>1, <1>5, <1>6 DEF HandshakeInv
<1>8. WaitingInv(c, sv, k, e)
  <2>1. CASE k.phase = "off"
    BY <1>1, <1>5, <2>1 DEF WaitingInv
  <2>2. CASE k.phase # "off"
    <3>1. Told(e) = {n}
      BY <1>1, <2>2
    <3>2. ASSUME k.connects = 1, k.count > 0 PROVE n > 0
      BY <1>2, <1>3, <1>4, <1>5, <2>2, <3>2 DEF WaitingInv
    <3> QED BY <1>2, <1>3, <1>4, <1>5, <3>1, <3>2 DEF WaitingInv
  <2> QED BY <2>1, <2>2
<1> QED BY <1>7, <1>8 DEF ClientInv, e, k

---------------------------------------------------------------------------
(* The turn of a slot.                                                     *)

TurnState == [sv : ServerState, down : [Client -> SUBSET Datagram]]

\* The invariant, in the middle of the server's turn.
Good(x) == x \in TurnState /\ Inv(x.sv, client, up, x.down, games)

Keeps(x, y) == Good(y) /\ (AgreeInv(x.sv, client, games) => AgreeInv(y.sv, client, games))

\* A tame step without a datagram.
LEMMA TameTurn ==
  ASSUME NEW x, Good(x), NEW y \in TurnState, y.down = x.down,
         Tame(x.sv, y.sv), TellsNothing(x.sv, y.sv),
         \/ y.sv.players = x.sv.players
         \/ \A i \in 1 .. Len(y.sv.players) : y.sv.players[i] \in Players(y.sv),
         y.sv.state = "IN_GAME" => \E s \in Slot : y.sv.slot[s].active /\ ~y.sv.slot[s].drone
  PROVE  Keeps(x, y)
<1>1. /\ ServerInv(x.sv, games) /\ y.sv \in ServerState
      /\ \A c \in Client : ClientInv(c, x.sv, client[c], up[c], x.down[c])
  BY DEF Good, Inv, TurnState
<1>2. y.sv.state = "IN_GAME" => games > 0
  BY <1>1 DEF ServerInv, TellsNothing
<1>3. ServerInv(y.sv, games)
  BY <1>1, <1>2, TameKeepsServer
<1>4. \A c \in Client : ClientInv(c, y.sv, client[c], up[c], y.down[c])
  BY <1>1, TameKeepsClient
<1>5. Good(y)
  BY <1>3, <1>4 DEF Good, Inv, TurnState
<1>6. AgreeInv(x.sv, client, games) => AgreeInv(y.sv, client, games)
  BY TameKeepsAgreed
<1> QED BY <1>5, <1>6 DEF Keeps

\* NET_SV_DisconnectClient brings a slot nearer to its end.
LEMMA DisconnectFacts ==
  ASSUME NEW k \in SlotState, k.active \/ k = Free
  PROVE  /\ Disconnect(k) \in SlotState /\ Disconnect(k).state # "CONNECTED"
         /\ SlotGoesOn(k, Disconnect(k)) /\ Disconnect(k).start = k.start
<1>1. CASE k.active /\ k.state \in {"WAITING_ACK", "CONNECTED"}
  <2> DEFINE l == [k EXCEPT !.state = "DISCONNECTING", !.due = TRUE]
  <2>1. Disconnect(k) = l
    BY <1>1 DEF Disconnect
  <2>2. /\ l \in SlotState /\ l.state = "DISCONNECTING" /\ l.start = k.start
        /\ l.active = k.active /\ l.addr = k.addr /\ l.drone = k.drone
    BY DEF SlotState, ConnState
  <2> HIDE DEF l
  <2> QED BY <1>1, <2>1, <2>2 DEF SlotGoesOn
<1>2. CASE ~(k.active /\ k.state \in {"WAITING_ACK", "CONNECTED"})
  <2>1. Disconnect(k) = k
    BY <1>2 DEF Disconnect
  <2> QED BY <1>2, <2>1, FreeFacts DEF SlotGoesOn
<1> QED BY <1>1, <1>2

\* One slot of the server changes.
LEMMA SlotUpdate ==
  ASSUME NEW sv \in ServerState, NEW s \in Slot, NEW l \in SlotState
  PROVE  LET sw == [sv EXCEPT !.slot[s] = l] IN
         /\ sw \in ServerState /\ sw.state = sv.state /\ sw.players = sv.players
         /\ sw.slot[s] = l /\ \A t \in Slot \ {s} : sw.slot[t] = sv.slot[t]
BY DEF ServerState

\* As long as all slots stay connected, players do not go.
LEMMA PlayersStay ==
  ASSUME NEW sv, NEW sw,
         \A s \in Slot : /\ sw.slot[s].active = sv.slot[s].active
                         /\ sw.slot[s].drone = sv.slot[s].drone
                         /\ sw.slot[s].state = sv.slot[s].state
  PROVE  Players(sw) = Players(sv)
BY DEF Players, Connected

\* A client's slot is given back, and with the last player the game ends.
LEMMA DropKeeps ==
  ASSUME NEW x, Good(x), NEW s \in Slot, NEW y \in TurnState, y.down = x.down,
         y.sv.state = x.sv.state, y.sv.players = x.sv.players,
         \A t \in Slot \ {s} : y.sv.slot[t] = x.sv.slot[t],
         y.sv.slot[s].state = "DISCONNECTED"
  PROVE  /\ Keeps(x, DropDisconnected(y, s))
         /\ ~DropDisconnected(y, s).sv.slot[s].active
<1> DEFINE sv == x.sv
           f == [y.sv EXCEPT !.slot[s] = Free]
           w == IF NumPlayers(f) = 0 THEN GameEnded(f) ELSE f
           z == [y EXCEPT !.sv = w]
<1>1. DropDisconnected(y, s) = z
  BY DEF DropDisconnected
<1>2. sv \in ServerState /\ ServerInv(sv, games) /\ y.sv \in ServerState
  BY DEF Good, Inv, TurnState
<1>3. /\ f \in ServerState /\ f.state = sv.state /\ f.players = sv.players /\ f.slot[s] = Free
      /\ \A t \in Slot \ {s} : f.slot[t] = sv.slot[t]
  BY <1>2, FreeFacts, SlotUpdate
<1> HIDE DEF f
<1>4. \A t \in Slot : sv.slot[t] \in SlotState /\ f.slot[t] \in SlotState
                      /\ (sv.slot[t].active \/ sv.slot[t] = Free)
  BY <1>2, <1>3 DEF ServerState, ServerInv
<1>5. \A t \in Slot : f.slot[t] = Free \/ f.slot[t] = sv.slot[t]
  BY <1>3
<1>6. w \in ServerState /\ w.players = sv.players /\ w.slot[s] = Free
      /\ Tame(sv, w) /\ TellsNothing(sv, w)
      /\ (w.state = "IN_GAME" => \E t \in Slot : w.slot[t].active /\ ~w.slot[t].drone)
  <2>1. CASE NumPlayers(f) = 0
    <3>1. /\ w.state = "WAITING_START" /\ w.players = f.players
          /\ w.slot = [t \in Slot |-> Disconnect(f.slot[t])]
      BY <1>3, <2>1 DEF GameEnded, ServerState
    <3>2. \A t \in Slot : Disconnect(f.slot[t]) \in SlotState
      BY <1>4, <1>5, FreeFacts, DisconnectFacts
    <3>3. w \in ServerState
      <4>1. w = [f EXCEPT !.state = "WAITING_START", !.slot = w.slot]
        BY <2>1, <3>1 DEF GameEnded
      <4> HIDE DEF w
      <4>2. w.slot \in [Slot -> SlotState]
        BY <3>1, <3>2
      <4>3. f = [state |-> f.state, slot |-> f.slot, players |-> f.players]
            /\ f.players \in Seq(Slot)
        BY <1>3 DEF ServerState
      <4>4. w = [state |-> "WAITING_START", slot |-> w.slot, players |-> f.players]
        BY <4>1, <4>3
      <4> QED BY <4>2, <4>3, <4>4 DEF ServerState
    <3>4. \A t \in Slot : /\ SlotGoesOn(sv.slot[t], w.slot[t])
                          /\ w.slot[t].state # "CONNECTED"
                          /\ w.slot[t].start = f.slot[t].start
      <4> TAKE t \in Slot
      <4>1. w.slot[t] = Disconnect(f.slot[t])
        BY <3>1
      <4>2. CASE f.slot[t] = Free
        <5>1. Disconnect(Free) = Free
          BY FreeFacts DEF Disconnect
        <5> QED BY <4>1, <4>2, <5>1, FreeFacts DEF SlotGoesOn
      <4>3. CASE f.slot[t] = sv.slot[t]
        BY <1>4, <4>1, <4>3, DisconnectFacts
      <4> QED BY <1>5, <4>2, <4>3
    <3>5. w.slot[s] = Free
      BY <1>3, <3>1, FreeFacts DEF Disconnect
    <3>6. TellsNothing(sv, w)
      <4> HIDE DEF w
      <4> QED BY <1>5, <3>1, <3>4, FreeFacts DEF TellsNothing
    <3> HIDE DEF w
    <3> QED BY <1>3, <3>1, <3>3, <3>4, <3>5, <3>6 DEF Tame
  <2>2. CASE NumPlayers(f) # 0
    <3>1. w = f
      BY <2>2
    <3>2. PICK i \in 1 .. Len(f.players) : Connected(f, f.players[i])
      BY <1>3, <2>2, CountFacts
    <3>3. f.players[i] \in Slot /\ ~sv.slot[f.players[i]].drone
      BY <1>2, <1>3, <3>2 DEF ServerInv, ServerState
    <3>4. f.slot[f.players[i]] = sv.slot[f.players[i]]
      BY <1>5, <3>2, <3>3, FreeFacts DEF Connected
    <3>5. f.players[i] \in Players(f)
      BY <3>2, <3>3, <3>4 DEF Players
    <3>6. \A t \in Slot : SlotGoesOn(sv.slot[t], f.slot[t])
      BY <1>4, <1>5 DEF SlotGoesOn
    <3>7. Tame(sv, f)
      BY <3>5, <3>6 DEF Tame
    <3>8. TellsNothing(sv, f)
      BY <1>3, <1>5, FreeFacts DEF TellsNothing
    <3> HIDE DEF w
    <3> QED BY <1>3, <3>1, <3>2, <3>3, <3>4, <3>7, <3>8 DEF Connected
  <2> QED BY <2>1, <2>2
<1> HIDE DEF w
<1>7. z \in TurnState /\ z.sv = w /\ z.down = x.down
  BY <1>6 DEF TurnState
<1> HIDE DEF z
<1>8. Keeps(x, z)
  BY <1>6, <1>7, TameTurn
<1> QED BY <1>1, <1>6, <1>7, <1>8, FreeFacts

\* A slot is as it was, but its start packet may be sent or gone, and what was due done.
SlotStays(k, l) ==
  /\ l.active = k.active /\ l.addr = k.addr /\ l.drone = k.drone /\ l.state = k.state
  /\ l.due => k.due
  /\ l.start # NoStart =>
       /\ k.start # NoStart /\ l.start.game = k.start.game
       /\ l.start.num = k.start.num /\ l.start.number = k.start.number

\* Such a step of a slot is tame.
LEMMA SlotKeeps ==
  ASSUME NEW x, Good(x), NEW s \in Slot, x.sv.slot[s].active, NEW l \in SlotState,
         SlotStays(x.sv.slot[s], l),
         NEW y \in TurnState, y.down = x.down, y.sv = [x.sv EXCEPT !.slot[s] = l]
  PROVE  Keeps(x, y)
<1>1. x.sv \in ServerState /\ ServerInv(x.sv, games)
  BY DEF Good, Inv, TurnState
<1>2. /\ y.sv.state = x.sv.state /\ y.sv.players = x.sv.players /\ y.sv.slot[s] = l
      /\ \A t \in Slot \ {s} : y.sv.slot[t] = x.sv.slot[t]
  BY <1>1, SlotUpdate
<1>3. \A t \in Slot : /\ y.sv.slot[t].active = x.sv.slot[t].active
                      /\ y.sv.slot[t].drone = x.sv.slot[t].drone
                      /\ y.sv.slot[t].state = x.sv.slot[t].state
  BY <1>2 DEF SlotStays
<1>4. \A t \in Slot : SlotGoesOn(x.sv.slot[t], y.sv.slot[t])
  <2>1. SlotGoesOn(x.sv.slot[s], l)
    BY DEF SlotGoesOn, SlotStays
  <2>2. \A t \in Slot : x.sv.slot[t].active \/ x.sv.slot[t] = Free
    BY <1>1 DEF ServerInv
  <2>3. \A t \in Slot \ {s} : SlotGoesOn(x.sv.slot[t], y.sv.slot[t])
    BY <1>2, <2>2 DEF SlotGoesOn
  <2> QED BY <1>2, <2>1, <2>3
<1>5. Players(y.sv) = Players(x.sv)
  BY <1>3, PlayersStay
<1>6. Tame(x.sv, y.sv)
  BY <1>4, <1>5 DEF Tame
<1>7. TellsNothing(x.sv, y.sv)
  BY <1>2 DEF TellsNothing, SlotStays
<1>8. y.sv.state = "IN_GAME" => \E t \in Slot : y.sv.slot[t].active /\ ~y.sv.slot[t].drone
  BY <1>1, <1>2, <1>3 DEF ServerInv
<1> QED BY <1>2, <1>6, <1>7, <1>8, TameTurn

\* A step to y is followed by one to z.
LEMMA KeepsOn ==
  ASSUME NEW x, NEW y, NEW z, Keeps(x, y), Keeps(y, z)
  PROVE  Keeps(x, z)
BY DEF Keeps

\* A datagram is sent to the client in slot s.
LEMMA SendsKeeps ==
  ASSUME NEW x, Good(x), NEW s \in Slot, x.sv.slot[s].active, NEW c, c = x.sv.slot[s].addr,
         NEW m, With(x.down[c], c, m) \in SUBSET Datagram,
         ClientInv(c, x.sv, client[c], up[c], With(x.down[c], c, m))
  PROVE  /\ Keeps(x, Sends(x, s, m))
         /\ Sends(x, s, m).sv.slot[s].state = x.sv.slot[s].state
         /\ Sends(x, s, m) \in TurnState
<1> DEFINE l == [x.sv.slot[s] EXCEPT !.due = FALSE]
           dn == [x.down EXCEPT ![c] = With(@, c, m)]
           y == [x EXCEPT !.down = dn]
           z == Sends(x, s, m)
<1>1. /\ x \in TurnState /\ x.sv \in ServerState /\ ServerInv(x.sv, games) /\ c \in Client
      /\ \A b \in Client : ClientInv(b, x.sv, client[b], up[b], x.down[b])
  BY DEF Good, Inv, TurnState, ServerInv
<1>2. dn \in [Client -> SUBSET Datagram] /\ dn[c] = With(x.down[c], c, m)
      /\ \A b \in Client \ {c} : dn[b] = x.down[b]
  BY <1>1 DEF TurnState
<1>3. /\ z.sv = [x.sv EXCEPT !.slot[s].due = FALSE] /\ z.down = dn
      /\ z = [x EXCEPT !.down = dn, !.sv = z.sv]
  BY <1>1 DEF Sends, TurnState
<1> HIDE DEF dn
<1>4. y \in TurnState /\ y.sv = x.sv /\ y.down = dn
  BY <1>1, <1>2 DEF TurnState
<1> HIDE DEF y, z
<1>5. Good(y)
  BY <1>1, <1>2, <1>4 DEF Good, Inv
<1>6. Keeps(x, y)
  BY <1>4, <1>5 DEF Keeps
<1>7. /\ l \in SlotState /\ l.active = x.sv.slot[s].active /\ l.addr = x.sv.slot[s].addr
      /\ l.drone = x.sv.slot[s].drone /\ l.state = x.sv.slot[s].state
      /\ l.due = FALSE /\ l.start = x.sv.slot[s].start
  BY <1>1 DEF ServerState, SlotState
<1>8. [x.sv EXCEPT !.slot[s].due = FALSE] = [x.sv EXCEPT !.slot[s] = l]
  OBVIOUS
<1> HIDE DEF l
<1>9. [x.sv EXCEPT !.slot[s] = l] \in ServerState /\ [x.sv EXCEPT !.slot[s] = l].slot[s] = l
  BY <1>1, <1>7, SlotUpdate
<1>10. /\ z.sv = [y.sv EXCEPT !.slot[s] = l] /\ z.down = y.down
       /\ z.sv \in ServerState /\ z.sv.slot[s] = l
  BY <1>3, <1>4, <1>8, <1>9
<1>11. z \in TurnState
  BY <1>1, <1>2, <1>3, <1>10 DEF TurnState
<1>12. y.sv.slot[s].active /\ SlotStays(y.sv.slot[s], l)
  BY <1>4, <1>7 DEF SlotStays
<1>13. Keeps(y, z)
  BY <1>5, <1>7, <1>10, <1>11, <1>12, SlotKeeps
<1>14. Keeps(x, z)
  BY <1>6, <1>13, KeepsOn
<1> QED BY <1>7, <1>10, <1>11, <1>14 DEF z

\* Waiting data is sent to the client in slot s, if it is sent.
LEMMA SendWaitingKeeps ==
  ASSUME NEW x, Good(x), NEW s \in Slot, NEW late
  PROVE  Keeps(x, SendWaiting(x, s, late))
<1>1. CASE ~ (/\ Connected(x.sv, s) /\ x.sv.state = "WAITING_START"
              /\ late \/ x.sv.slot[s].due)
  <2>1. SendWaiting(x, s, late) = x
    BY <1>1 DEF SendWaiting
  <2> QED BY <2>1 DEF Keeps
<1>2. CASE /\ Connected(x.sv, s) /\ x.sv.state = "WAITING_START"
           /\ late \/ x.sv.slot[s].due
  <2> DEFINE sv == AssignPlayers(x.sv)
             y == [x EXCEPT !.sv = sv]
             c == x.sv.slot[s].addr
             n == NumPlayers(sv)
  <2>1. SendWaiting(x, s, late) = Sends(y, s, WaitingData(n))
    BY <1>2 DEF SendWaiting
  <2>2. x \in TurnState /\ x.sv \in ServerState /\ ServerInv(x.sv, games)
    BY DEF Good, Inv, TurnState
  <2>3. /\ sv \in ServerState /\ sv.state = x.sv.state /\ sv.slot = x.sv.slot
        /\ \A i \in 1 .. Len(sv.players) : sv.players[i] \in Players(x.sv)
    BY <2>2, AssignFacts
  <2>4. n \in Nat /\ (n > 0 <=> Players(sv) # {})
    <3>1. n \in Nat /\ (n # 0 => \E i \in 1 .. Len(sv.players) : TRUE)
      BY <2>3, CountFacts
    <3>2. Players(x.sv) # {} => n > 0
      BY <2>2, AssignedCount
    <3>3. Players(sv) = Players(x.sv)
      BY <2>3, PlayersStay
    <3> QED BY <2>3, <3>1, <3>2, <3>3
  <2> HIDE DEF sv, n
  <2>5. y \in TurnState /\ y.sv = sv /\ y.down = x.down
    BY <2>2, <2>3 DEF TurnState
  <2> HIDE DEF y
  <2>6. Players(sv) = Players(x.sv)
    BY <2>3, PlayersStay
  <2>7. Tame(x.sv, sv)
    <3>1. \A t \in Slot : x.sv.slot[t].active \/ x.sv.slot[t] = Free
      BY <2>2 DEF ServerInv
    <3> QED BY <2>3, <2>6, <3>1 DEF Tame, SlotGoesOn
  <2>8. TellsNothing(x.sv, sv)
    BY <1>2, <2>3 DEF TellsNothing
  <2>9. Keeps(x, y)
    BY <1>2, <2>3, <2>5, <2>6, <2>7, <2>8, TameTurn
  <2>10. Good(y)
    BY <2>9 DEF Keeps
  <2>11. /\ ServerInv(y.sv, games) /\ Connected(y.sv, s) /\ c = y.sv.slot[s].addr
         /\ y.sv.slot[s].active /\ c \in Client
         /\ y.down[c] \in SUBSET Datagram
         /\ ClientInv(c, y.sv, client[c], up[c], y.down[c])
    BY <1>2, <2>3, <2>5, <2>10 DEF Good, Inv, Connected, ServerInv
  <2> HIDE DEF c
  <2>12. /\ With(y.down[c], c, WaitingData(n)) \in SUBSET Datagram
         /\ ClientInv(c, y.sv, client[c], up[c], With(y.down[c], c, WaitingData(n)))
    BY <2>4, <2>5, <2>11, WaitingDataFacts, WaitingDataKeeps
  <2>13. Keeps(y, Sends(y, s, WaitingData(n)))
    BY <2>10, <2>11, <2>12, SendsKeeps
  <2> QED BY <2>1, <2>9, <2>13, KeepsOn
<1> QED BY <1>1, <1>2

\* A slot has a datagram sent that is repeated until it is answered.
LEMMA RepeatKeeps ==
  ASSUME NEW x, Good(x), NEW s \in Slot, x.sv.slot[s].active,
         NEW kind \in {"ACK", "DISCONNECT"},
         kind = "ACK" => "SYN" \notin up[x.sv.slot[s].addr]
  PROVE  /\ Keeps(x, Sends(x, s, Plain(kind)))
         /\ Sends(x, s, Plain(kind)).sv.slot[s].state = x.sv.slot[s].state
<1> DEFINE c == x.sv.slot[s].addr
<1>1. c \in Client /\ x.down[c] \in SUBSET Datagram
  BY DEF Good, Inv, ServerInv
<1>2. ClientInv(c, x.sv, client[c], up[c], x.down[c])
  BY <1>1 DEF Good, Inv
<1>3. kind = "ACK" => "SYN" \notin up[c]
  OBVIOUS
<1> HIDE DEF c
<1>4. kind \in {"ACK", "REJECTED", "DISCONNECT"}
  OBVIOUS
<1>5. With(x.down[c], c, Plain(kind)) \in SUBSET Datagram
  BY <1>1, <1>4, PlainFacts
<1>6. ClientInv(c, x.sv, client[c], up[c], With(x.down[c], c, Plain(kind)))
  BY <1>1, <1>2, <1>3, <1>4, PlainKeeps
<1> QED BY <1>5, <1>6, SendsKeeps DEF c

\* NET_Conn_Run, and NET_SV_RunClient as far as it gives the slot back.
LEMMA ConnRunKeeps ==
  ASSUME NEW x, Good(x), NEW s \in Slot, x.sv.slot[s].active,
         NEW expired \in BOOLEAN, NEW late \in BOOLEAN,
         late => \A c \in Client : up[c] = {}
  PROVE  Keeps(x, DropDisconnected(ConnRun(x, s, expired, late), s))
<1> DEFINE k == x.sv.slot[s]
           y == ConnRun(x, s, expired, late)
<1>1. /\ x \in TurnState /\ x.sv \in ServerState /\ k \in SlotState /\ k.addr \in Client
      /\ ClientInv(k.addr, x.sv, client[k.addr], up[k.addr], x.down[k.addr])
  BY DEF Good, Inv, TurnState, ServerInv, ServerState
<1>2. ASSUME Keeps(x, y), y.sv.slot[s].state # "DISCONNECTED"
      PROVE  Keeps(x, DropDisconnected(y, s))
  BY <1>2 DEF DropDisconnected
<1>3. CASE expired
  <2> DEFINE l == [k EXCEPT !.state = "DISCONNECTED"]
  <2>1. l \in SlotState /\ l.state = "DISCONNECTED"
    BY <1>1 DEF SlotState, ConnState
  <2>2. y = [x EXCEPT !.sv.slot[s] = l]
    BY <1>3 DEF ConnRun
  <2> HIDE DEF l, y
  <2>3. y.sv = [x.sv EXCEPT !.slot[s] = l] /\ y.down = x.down
    BY <1>1, <2>2 DEF TurnState
  <2>4. /\ y.sv \in ServerState /\ y.sv.state = x.sv.state /\ y.sv.players = x.sv.players
        /\ y.sv.slot[s] = l /\ \A t \in Slot \ {s} : y.sv.slot[t] = x.sv.slot[t]
    BY <1>1, <2>1, <2>3, SlotUpdate
  <2>5. y \in TurnState
    <3>1. y = [x EXCEPT !.sv = y.sv]
      BY <1>1, <2>2, <2>3 DEF TurnState
    <3> QED BY <1>1, <2>4, <3>1 DEF TurnState
  <2>6. Keeps(x, DropDisconnected(y, s))
    BY <2>1, <2>3, <2>4, <2>5, DropKeeps
  <2> QED BY <2>6 DEF y
<1>4. CASE ~expired /\ k.state = "DISCONNECTED"
  <2>1. y = x
    BY <1>4 DEF ConnRun
  <2>2. Keeps(x, DropDisconnected(x, s))
    BY <1>1, <1>4, DropKeeps
  <2> QED BY <2>1, <2>2
<1>5. CASE ~expired /\ k.state = "WAITING_ACK" /\ (k.due \/ late)
  <2>1. y = Sends(x, s, Plain("ACK"))
    BY <1>5 DEF ConnRun
  <2>2. s \in SlotsOf(x.sv, k.addr)
    BY DEF SlotsOf
  <2>3. "SYN" \notin up[k.addr]
    BY <1>1, <1>5, <2>2 DEF ClientInv, HandshakeInv
  <2>4. /\ Keeps(x, Sends(x, s, Plain("ACK")))
        /\ Sends(x, s, Plain("ACK")).sv.slot[s].state = "WAITING_ACK"
    BY <1>5, <2>3, RepeatKeeps
  <2> HIDE DEF y
  <2> QED BY <1>2, <2>1, <2>4 DEF y
<1>6. CASE ~expired /\ k.state = "DISCONNECTING" /\ (k.due \/ late)
  <2>1. y = Sends(x, s, Plain("DISCONNECT"))
    BY <1>6 DEF ConnRun
  <2>2. /\ Keeps(x, Sends(x, s, Plain("DISCONNECT")))
        /\ Sends(x, s, Plain("DISCONNECT")).sv.slot[s].state = "DISCONNECTING"
    BY <1>6, RepeatKeeps
  <2> HIDE DEF y
  <2> QED BY <1>2, <2>1, <2>2 DEF y
<1>7. CASE ~expired /\ k.state = "CONNECTED" /\ k.start # NoStart
  <2> DEFINE l == [k EXCEPT !.start.sent = TRUE]
  <2>1. k.start \in Started
    BY <1>1, <1>7 DEF SlotState
  <2>2. /\ l.start \in Started /\ l.start.game = k.start.game /\ l.start.num = k.start.num
        /\ l.start.number = k.start.number
    BY <1>1, <2>1 DEF SlotState, Started
  <2>3. /\ l \in SlotState /\ l.state = k.state /\ l.active = k.active /\ l.addr = k.addr
        /\ l.drone = k.drone /\ l.due = k.due
    <3>1. l = [k EXCEPT !.start = l.start]
      BY <1>1 DEF SlotState
    <3> HIDE DEF l
    <3> QED BY <1>1, <2>2, <3>1 DEF SlotState
  <2>4. y = [x EXCEPT !.sv.slot[s] = l]
    BY <1>7 DEF ConnRun
  <2>5. SlotStays(k, l)
    BY <1>7, <2>2, <2>3 DEF SlotStays
  <2> HIDE DEF l, y
  <2>6. y.sv = [x.sv EXCEPT !.slot[s] = l] /\ y.down = x.down /\ y = [x EXCEPT !.sv = y.sv]
    BY <1>1, <2>4 DEF TurnState
  <2>7. y.sv \in ServerState /\ y.sv.slot[s] = l
    BY <1>1, <2>3, <2>6, SlotUpdate
  <2>8. y \in TurnState
    BY <1>1, <2>6, <2>7 DEF TurnState
  <2>9. Keeps(x, y)
    BY <2>3, <2>5, <2>6, <2>8, SlotKeeps
  <2> QED BY <1>2, <1>7, <2>3, <2>7, <2>9 DEF y
<1>8. CASE ~expired /\ k.state # "DISCONNECTED"
           /\ ~(k.state = "WAITING_ACK" /\ (k.due \/ late))
           /\ ~(k.state = "DISCONNECTING" /\ (k.due \/ late))
           /\ ~(k.state = "CONNECTED" /\ k.start # NoStart)
  <2>1. y = x
    BY <1>8 DEF ConnRun
  <2> QED BY <1>2, <1>8, <2>1 DEF Keeps
<1> QED BY <1>3, <1>4, <1>5, <1>6, <1>7, <1>8

\* NET_SV_RunClient.
LEMMA RunClientKeeps ==
  ASSUME NEW x, Good(x), NEW s \in Slot, NEW expired \in BOOLEAN, NEW late \in BOOLEAN,
         late => \A c \in Client : up[c] = {}
  PROVE  Keeps(x, RunClient(x, s, expired, late))
<1> DEFINE y == DropDisconnected(ConnRun(x, s, expired, late), s)
<1>1. CASE ~x.sv.slot[s].active
  BY <1>1 DEF RunClient, Keeps
<1>2. CASE x.sv.slot[s].active
  <2>1. RunClient(x, s, expired, late) = SendWaiting(y, s, late)
    BY <1>2 DEF RunClient
  <2>2. Keeps(x, y)
    BY <1>2, ConnRunKeeps
  <2> HIDE DEF y
  <2>3. Keeps(y, SendWaiting(y, s, late))
    BY <2>2, SendWaitingKeeps DEF Keeps
  <2> QED BY <2>1, <2>2, <2>3, KeepsOn
<1> QED BY <1>1, <1>2

---------------------------------------------------------------------------
(* The turn of the server.                                                 *)

\* Slot i - 1 has its turn when f[i - 1] is what the slots before have left.
Turn(f, i, expired, late) ==
  IF i = 0 THEN [sv |-> server, down |-> down]
  ELSE RunClient(f[i - 1], i - 1,
                 i - 1 \in expired /\ f[i - 1].sv.slot[i - 1] = server.slot[i - 1], late)

\* The turns of any number of slots follow one another.
LEMMA TurnsExist ==
  ASSUME NEW expired, NEW late, NEW n \in Nat
  PROVE  \E f : f = [i \in 0 .. n |-> Turn(f, i, expired, late)]
<1> DEFINE Fits(f, m) == f = [i \in 0 .. m |-> Turn(f, i, expired, late)]
           Bad == {m \in Nat : ~ \E f : Fits(f, m)}
<1>1. ASSUME Bad # {} PROVE FALSE
  <2>1. PICK m \in Bad : \A l \in Bad : m <= l
    <3>1. Bad \subseteq Nat
      OBVIOUS
    <3> HIDE DEF Bad
    <3> QED BY <1>1, <3>1, LeastNumber
  <2>2. m \in Nat /\ ~ \E f : Fits(f, m)
    OBVIOUS
  <2>3. CASE m = 0
    <3> DEFINE g == [i \in 0 .. m |-> [sv |-> server, down |-> down]]
    <3>1. \A i \in 0 .. m : i = 0
      BY <2>3
    <3>2. Fits(g, m)
      BY <3>1 DEF Turn
    <3> QED BY <2>2, <3>2
  <2>4. CASE m # 0
    <3>1. m - 1 \in Nat /\ ~(m <= m - 1)
      BY <2>2, <2>4
    <3>2. m - 1 \notin Bad
      BY <2>1, <3>1
    <3>3. PICK f : Fits(f, m - 1)
      BY <3>1, <3>2
    <3>4. \A i \in 0 .. m - 1 : f[i] = Turn(f, i, expired, late)
      BY <3>3
    <3> HIDE DEF Fits
    <3> DEFINE g == [i \in 0 .. m |-> IF i = m THEN Turn(f, m, expired, late) ELSE f[i]]
    <3>5. ASSUME NEW i \in 0 .. m PROVE g[i] = Turn(g, i, expired, late)
      <4>1. i = m \/ i \in 0 .. m - 1
        BY <2>2
      <4>2. i # 0 => i - 1 \in 0 .. m /\ i - 1 # m /\ g[i - 1] = f[i - 1]
        BY <2>2
      <4>3. Turn(g, i, expired, late) = Turn(f, i, expired, late)
        <5> HIDE DEF g
        <5> QED BY <4>2 DEF Turn
      <4>4. g[i] = Turn(f, i, expired, late)
        BY <3>4, <4>1
      <4> QED BY <4>3, <4>4
    <3>6. g = [i \in 0 .. m |-> g[i]]
      OBVIOUS
    <3> HIDE DEF g
    <3>7. Fits(g, m)
      BY <3>5, <3>6 DEF Fits
    <3> QED BY <2>2, <3>7
  <2> QED BY <2>3, <2>4
<1> QED BY <1>1

\* NET_SV_Run keeps what each slot's turn keeps.
LEMMA RunClientsKeep ==
  ASSUME IInv, NEW expired \in SUBSET Slot, NEW late \in BOOLEAN,
         late => \A c \in Client : up[c] = {}
  PROVE  Keeps([sv |-> server, down |-> down], RunClients(expired, late))
<1> DEFINE x == [sv |-> server, down |-> down]
           r == CHOOSE f : f = [i \in 0 .. MaxNodes |-> Turn(f, i, expired, late)]
<1>1. MaxNodes \in Nat /\ Slot = 0 .. MaxNodes - 1
  BY SlotFacts DEF Slot
<1>2. RunClients(expired, late) = r[MaxNodes]
  BY DEF RunClients, Turn
<1>3. r = [i \in 0 .. MaxNodes |-> Turn(r, i, expired, late)]
  BY <1>1, TurnsExist
<1> HIDE DEF r
<1>4. \A i \in 0 .. MaxNodes : r[i] = Turn(r, i, expired, late)
  BY <1>3
<1>5. Good(x)
  BY DEF IInv, Inv, Good, TurnState, ServerInv
<1> HIDE DEF x
<1> DEFINE Bad == {i \in 0 .. MaxNodes : ~Keeps(x, r[i])}
<1>6. ASSUME Bad # {} PROVE FALSE
  <2>1. PICK i \in Bad : \A j \in Bad : i <= j
    <3>1. Bad \subseteq Nat
      BY <1>1
    <3> HIDE DEF Bad
    <3> QED BY <1>6, <3>1, LeastNumber
  <2>2. i \in 0 .. MaxNodes /\ ~Keeps(x, r[i])
    OBVIOUS
  <2>3. i # 0
    BY <1>1, <1>4, <1>5, <2>2 DEF Turn, Keeps, x
  <2>4. i - 1 \in 0 .. MaxNodes /\ i - 1 \in Slot /\ i - 1 < i
    BY <1>1, <2>2, <2>3
  <2>5. Keeps(x, r[i - 1])
    BY <2>1, <2>4
  <2>6. PICK e \in BOOLEAN : r[i] = RunClient(r[i - 1], i - 1, e, late)
    BY <1>4, <2>2, <2>3 DEF Turn
  <2>7. Good(r[i - 1])
    BY <2>5 DEF Keeps
  <2>8. Keeps(r[i - 1], r[i])
    BY <2>4, <2>6, <2>7, RunClientKeeps
  <2> QED BY <2>2, <2>5, <2>8, KeepsOn
<1>7. MaxNodes \in 0 .. MaxNodes
  BY <1>1
<1> QED BY <1>2, <1>6, <1>7 DEF x

---------------------------------------------------------------------------
(* Steps of one client.                                                    *)

Agreed == AgreeInv(server, client, games)

\* A step keeps the invariant, and what is known of the game.
StepKeeps == IInv' /\ (Agreed => Agreed')

\* The program at one address and the datagrams from and to it change.
LEMMA OneClient ==
  ASSUME NEW sv, NEW cl \in [Client -> Program], NEW up1, NEW dn, NEW g, Inv(sv, cl, up1, dn, g),
         up1 \in [Client -> SUBSET {"SYN", "ACK", "DISCONNECT_ACK"}],
         NEW c \in Client, NEW k \in Program, NEW u, NEW d \in SUBSET Datagram,
         ClientInv(c, sv, k, u, d)
  PROVE  Inv(sv, [cl EXCEPT ![c] = k], [up1 EXCEPT ![c] = u], [dn EXCEPT ![c] = d], g)
<1> DEFINE dw == [dn EXCEPT ![c] = d]
           cw == [cl EXCEPT ![c] = k]
           uw == [up1 EXCEPT ![c] = u]
<1>1. ServerInv(sv, g) /\ dn \in [Client -> SUBSET Datagram]
      /\ \A b \in Client : ClientInv(b, sv, cl[b], up1[b], dn[b])
  BY DEF Inv
<1>2. dw \in [Client -> SUBSET Datagram] /\ dw[c] = d /\ cw[c] = k /\ uw[c] = u
  BY <1>1
<1>3. \A b \in Client \ {c} : dw[b] = dn[b] /\ cw[b] = cl[b] /\ uw[b] = up1[b]
  BY <1>1
<1> HIDE DEF dw, cw, uw
<1>4. \A b \in Client : ClientInv(b, sv, cw[b], uw[b], dw[b])
  BY <1>1, <1>2, <1>3
<1> QED BY <1>1, <1>2, <1>4 DEF Inv, dw, cw, uw

\* What a program knows of the game changes only as it says here.
LEMMA OneAgrees ==
  ASSUME NEW sv, NEW cl \in [Client -> Program], NEW g, AgreeInv(sv, cl, g),
         NEW c \in Client, NEW k, k.game <= g,
         sv.state = "IN_GAME" /\ k.game = g =>
           /\ k.num = Len(sv.players)
           /\ c \notin Drone => k.number # 0
           /\ \A s \in SlotsOf(sv, c) : Agrees(sv, s, k)
  PROVE  AgreeInv(sv, [cl EXCEPT ![c] = k], g)
<1> DEFINE cw == [cl EXCEPT ![c] = k]
<1>1. cw[c] = k /\ \A b \in Client \ {c} : cw[b] = cl[b]
  OBVIOUS
<1> HIDE DEF cw
<1> QED BY <1>1 DEF AgreeInv, cw

\* A step of a client alone.
LEMMA ClientStep ==
  ASSUME IInv, NEW c \in Client, NEW k \in Program,
         NEW u \in SUBSET {"SYN", "ACK", "DISCONNECT_ACK"}, NEW d \in SUBSET Datagram,
         UNCHANGED <<server, games>>,
         client' = [client EXCEPT ![c] = k],
         up' = [up EXCEPT ![c] = u], down' = [down EXCEPT ![c] = d],
         ClientInv(c, server, k, u, d),
         \/ k.game = client[c].game /\ k.num = client[c].num /\ k.number = client[c].number
         \/ k.game = 0
  PROVE  StepKeeps
<1>1. /\ client \in [Client -> Program] /\ games \in Nat /\ ServerInv(server, games)
      /\ up \in [Client -> SUBSET {"SYN", "ACK", "DISCONNECT_ACK"}]
      /\ Inv(server, client, up, down, games)
  BY DEF IInv, Types, Inv
<1>2. Inv(server, client', up', down', games)
  BY <1>1, OneClient
<1>3. Types'
  BY <1>1 DEF Types
<1>4. IInv'
  BY <1>2, <1>3 DEF IInv, Inv
<1>5. ASSUME Agreed PROVE Agreed'
  <2>1. AgreeInv(server, client, games)
    BY <1>5 DEF Agreed
  <2>2. k.game <= games
    BY <1>1, <2>1 DEF AgreeInv
  <2>3. server.state = "IN_GAME" => games # 0
    BY <1>1 DEF ServerInv
  <2>4. server.state = "IN_GAME" /\ k.game = games =>
          /\ k.num = Len(server.players)
          /\ c \notin Drone => k.number # 0
          /\ \A s \in SlotsOf(server, c) : Agrees(server, s, k)
    BY <2>1, <2>3 DEF AgreeInv, Agrees
  <2>5. AgreeInv(server, client', games)
    BY <1>1, <2>1, <2>2, <2>4, OneAgrees
  <2> QED BY <2>5 DEF Agreed
<1> QED BY <1>4, <1>5 DEF StepKeeps

\* What is lost cannot do harm.
LEMMA LessKeeps ==
  ASSUME NEW c, NEW sv, NEW k, NEW u, NEW d, NEW v \in SUBSET u, NEW e \in SUBSET d,
         ClientInv(c, sv, k, u, d)
  PROVE  ClientInv(c, sv, k, v, e)
<1>1. Told(e) \subseteq Told(d)
  BY DEF Told
<1>2. HandshakeInv(c, sv, k, v, e)
  BY <1>1 DEF ClientInv, HandshakeInv
<1>3. WaitingInv(c, sv, k, e)
  BY <1>1 DEF ClientInv, WaitingInv
<1> QED BY <1>2, <1>3 DEF ClientInv

\* Nor a program that has ended, to which nothing is sent any more.
LEMMA OffKeeps ==
  ASSUME NEW c, NEW sv, NEW k, NEW u, NEW d, ClientInv(c, sv, k, u, d), k.phase # "off",
         NEW l, l.phase = "off", l.connects = k.connects, NEW v, "SYN" \in v => "SYN" \in u
  PROVE  ClientInv(c, sv, l, v, {})
<1>1. Told({}) = {}
  BY DEF Told
<1>2. k.connects # 0
  BY DEF ClientInv, HandshakeInv
<1>3. HandshakeInv(c, sv, l, v, {})
  BY <1>1, <1>2 DEF ClientInv, HandshakeInv
<1>4. WaitingInv(c, sv, l, {})
  BY <1>1 DEF WaitingInv
<1> QED BY <1>3, <1>4 DEF ClientInv

\* What the invariant says of one client.
LEMMA ClientFacts ==
  ASSUME IInv, NEW c \in Client
  PROVE  /\ client \in [Client -> Program] /\ client[c] \in Program
         /\ up \in [Client -> SUBSET {"SYN", "ACK", "DISCONNECT_ACK"}]
         /\ up[c] \in SUBSET {"SYN", "ACK", "DISCONNECT_ACK"}
         /\ down \in [Client -> SUBSET Datagram] /\ down[c] \in SUBSET Datagram
         /\ up = [up EXCEPT ![c] = up[c]] /\ down = [down EXCEPT ![c] = down[c]]
         /\ ClientInv(c, server, client[c], up[c], down[c])
         /\ games \in Nat /\ ServerInv(server, games) /\ server \in ServerState
         /\ Inv(server, client, up, down, games)
BY DEF IInv, Types, Inv, ServerInv

\* The program at c that has ended.
Ended(c) == [Off EXCEPT !.connects = client[c].connects]

LEMMA EndedFacts ==
  ASSUME NEW c, client[c] \in Program
  PROVE  /\ Ended(c) \in Program /\ Ended(c).phase = "off" /\ Ended(c).game = 0
         /\ Ended(c).connects = client[c].connects
BY DEF Ended, Off, Program

\* The program at c ends.
LEMMA EndKeeps ==
  ASSUME IInv, NEW c \in Client, client[c].phase # "off", Ends(c),
         NEW u \in SUBSET {"SYN", "ACK", "DISCONNECT_ACK"}, "SYN" \in u => "SYN" \in up[c],
         up' = [up EXCEPT ![c] = u], down' = [down EXCEPT ![c] = {}], UNCHANGED <<server, games>>
  PROVE  StepKeeps
<1> DEFINE k == Ended(c)
           d == {}
<1>1. client[c] \in Program /\ ClientInv(c, server, client[c], up[c], down[c])
  BY ClientFacts
<1>2. k \in Program /\ k.phase = "off" /\ k.game = 0 /\ k.connects = client[c].connects
  BY <1>1, EndedFacts
<1>3. client' = [client EXCEPT ![c] = k]
  BY DEF Ends, Ended
<1> HIDE DEF k
<1>4. ClientInv(c, server, k, u, d)
  BY <1>1, <1>2, OffKeeps
<1>5. d \in SUBSET Datagram
  OBVIOUS
<1>6. down' = [down EXCEPT ![c] = d]
  OBVIOUS
<1> HIDE DEF d
<1> QED BY <1>2, <1>3, <1>4, <1>5, <1>6, ClientStep

\* A datagram is lost.
LEMMA LoseStep ==
  ASSUME IInv, Lose
  PROVE  StepKeeps
<1>1. PICK c \in Client :
        \/ \E m \in up[c] : up' = [up EXCEPT ![c] = @ \ {m}] /\ UNCHANGED down
        \/ \E m \in down[c] : down' = [down EXCEPT ![c] = @ \ {m}] /\ UNCHANGED up
  BY DEF Lose
<1>2. PICK v \in SUBSET up[c], e \in SUBSET down[c] :
        up' = [up EXCEPT ![c] = v] /\ down' = [down EXCEPT ![c] = e]
  BY <1>1, ClientFacts
<1>3. ClientInv(c, server, client[c], v, e)
  BY ClientFacts, LessKeeps
<1>4. client' = [client EXCEPT ![c] = client[c]] /\ UNCHANGED <<server, games>>
  BY ClientFacts DEF Lose
<1>5. v \in SUBSET {"SYN", "ACK", "DISCONNECT_ACK"} /\ e \in SUBSET Datagram
  BY ClientFacts
<1> QED BY <1>2, <1>3, <1>4, <1>5, ClientFacts, ClientStep

\* NET_CL_Connect: nothing is on its way to a program that did not run.
LEMMA ConnectStep ==
  ASSUME IInv, NEW c \in Client, ClientConnect(c)
  PROVE  StepKeeps
<1> DEFINE o == client[c]
           k == [Off EXCEPT !.phase = "connecting", !.conn = "CONNECTING",
                            !.connects = o.connects + 1]
<1>1. /\ o \in Program /\ ClientInv(c, server, o, up[c], down[c]) /\ o.phase = "off"
  BY ClientFacts DEF ClientConnect
<1>2. o.connects \in Nat
  BY <1>1 DEF Program
<1>3. /\ k \in Program /\ k.phase = "connecting" /\ k.conn = "CONNECTING" /\ k.game = 0
      /\ k.connects = o.connects + 1 /\ k.count = 0 /\ k.showing = 0
  <2>1. Off \in Program /\ Off.game = 0 /\ Off.count = 0 /\ Off.showing = 0
    BY DEF Off, Program
  <2>2. o.connects + 1 \in Nat
    BY <1>2
  <2> HIDE DEF o
  <2> QED BY <2>1, <2>2 DEF Program
<1>4. client' = [client EXCEPT ![c] = k] /\ UNCHANGED <<server, up, down, games>>
  BY DEF ClientConnect
<1> HIDE DEF k, o
<1>5. down[c] = {} /\ Told(down[c]) = {}
  BY <1>1 DEF ClientInv, HandshakeInv, Told
<1>6. k.connects # 0 /\ (k.connects = 1 => o.connects = 0)
  BY <1>2, <1>3
<1>7. HandshakeInv(c, server, k, up[c], down[c])
  BY <1>1, <1>3, <1>5, <1>6 DEF ClientInv, HandshakeInv
<1>8. WaitingInv(c, server, k, down[c])
  BY <1>3, <1>5 DEF WaitingInv
<1> QED BY <1>3, <1>4, <1>7, <1>8, ClientFacts, ClientStep DEF ClientInv

\* A SYN is sent again when nothing is under way.
LEMMA SendSYNStep ==
  ASSUME IInv, NEW c \in Client, SendSYN(c)
  PROVE  StepKeeps
<1> DEFINE k == client[c]
           u == up[c] \cup {"SYN"}
<1>1. /\ k \in Program /\ k.phase = "connecting" /\ k.conn = "CONNECTING" /\ down[c] = {}
      /\ ClientInv(c, server, k, up[c], down[c]) /\ u \in SUBSET {"SYN", "ACK", "DISCONNECT_ACK"}
      /\ \A s \in SlotsOf(server, c) :
           server.slot[s].due => server.slot[s].state # "WAITING_ACK"
  BY ClientFacts DEF SendSYN, Quiet
<1>2. /\ up' = [up EXCEPT ![c] = u] /\ down' = [down EXCEPT ![c] = down[c]]
      /\ client' = [client EXCEPT ![c] = k] /\ UNCHANGED <<server, games>>
  BY ClientFacts DEF SendSYN
<1>3. "ACK" \in u => "ACK" \in up[c]
  OBVIOUS
<1> HIDE DEF k, u
<1>4. HandshakeInv(c, server, k, u, down[c]) /\ WaitingInv(c, server, k, down[c])
  BY <1>1, <1>3 DEF ClientInv, HandshakeInv
<1>5. ClientInv(c, server, k, u, down[c])
  BY <1>4 DEF ClientInv
<1>6. down[c] \in SUBSET Datagram
  BY ClientFacts
<1> QED BY <1>1, <1>2, <1>5, <1>6, ClientStep DEF k

\* A program's phase, its key and the packets of the game do not matter to what it is told.
Alike(k, l) ==
  /\ l.phase # "off" /\ k.phase # "off" /\ l.connects = k.connects /\ l.conn = k.conn
  /\ l.count \in {0, k.count} /\ l.showing \in {0, k.showing, k.count}
  /\ l.showing > 0 => l.count = k.count

LEMMA AlikeKeeps ==
  ASSUME NEW c, NEW sv, NEW k \in Program, NEW u, NEW d, ClientInv(c, sv, k, u, d),
         NEW l \in Program, Alike(k, l)
  PROVE  ClientInv(c, sv, l, u, d)
<1>1. HandshakeInv(c, sv, k, u, d) /\ WaitingInv(c, sv, k, d)
  BY DEF ClientInv
<1>2. k.count \in Nat /\ l.count \in Nat /\ k.showing \in Nat /\ l.showing \in Nat
  BY DEF Program
<1>3. HandshakeInv(c, sv, l, u, d)
  BY <1>1 DEF HandshakeInv, Alike
<1>4. WaitingInv(c, sv, l, d)
  <2>1. l.count > 0 => l.count = k.count
    BY <1>2 DEF Alike
  <2>2. k.connects = 1 => (l.showing > 0 => l.count > 0)
    BY <1>1, <1>2 DEF WaitingInv, Alike
  <2> QED BY <1>1, <2>1, <2>2 DEF WaitingInv, Alike
<1> QED BY <1>3, <1>4 DEF ClientInv

\* Such a step of a client.
LEMMA AlikeStep ==
  ASSUME IInv, NEW c \in Client, NEW k \in Program, Alike(client[c], k),
         k.game = client[c].game, k.num = client[c].num, k.number = client[c].number,
         client' = [client EXCEPT ![c] = k], UNCHANGED <<server, up, down, games>>
  PROVE  StepKeeps
<1>1. ClientInv(c, server, k, up[c], down[c])
  BY ClientFacts, AlikeKeeps
<1>2. up' = [up EXCEPT ![c] = up[c]] /\ down' = [down EXCEPT ![c] = down[c]]
  BY ClientFacts
<1>3. up[c] \in SUBSET {"SYN", "ACK", "DISCONNECT_ACK"} /\ down[c] \in SUBSET Datagram
  BY ClientFacts
<1> QED BY <1>1, <1>2, <1>3, ClientStep

\* NET_CL_Connect goes on, or gives up when nothing more comes.
LEMMA ConnectLoopStep ==
  ASSUME IInv, NEW c \in Client, ConnectLoop(c)
  PROVE  StepKeeps
<1>1. client[c] \in Program /\ client[c].phase = "connecting"
  BY ClientFacts DEF ConnectLoop
<1>2. CASE client[c].conn = "CONNECTED"
  <2> DEFINE k == [client[c] EXCEPT !.phase = Proceeds(c), !.ingame = FALSE]
  <2>1. Proceeds(c) \in {"playing", "waiting"}
    BY DEF Proceeds
  <2>2. /\ k \in Program /\ k.phase # "off" /\ k.connects = client[c].connects
        /\ k.conn = client[c].conn /\ k.count = client[c].count /\ k.showing = client[c].showing
        /\ k.game = client[c].game /\ k.num = client[c].num /\ k.number = client[c].number
    BY <1>1, <2>1 DEF Program
  <2>3. client' = [client EXCEPT ![c] = k]
    BY <1>2 DEF ConnectLoop
  <2> HIDE DEF k
  <2>4. Alike(client[c], k)
    BY <1>1, <2>2 DEF Alike
  <2> QED BY <2>2, <2>3, <2>4, AlikeStep DEF ConnectLoop
<1>3. CASE client[c].conn # "CONNECTED"
  <2>1. Ends(c) /\ down[c] = {} /\ UNCHANGED <<server, up, down, games>>
    BY <1>3 DEF ConnectLoop, Quiet
  <2>2. up' = [up EXCEPT ![c] = up[c]] /\ down' = [down EXCEPT ![c] = {}]
    BY <2>1, ClientFacts
  <2> QED BY <1>1, <2>1, <2>2, ClientFacts, EndKeeps
<1> QED BY <1>2, <1>3

\* D_NetWait shows what has been told.
LEMMA NetWaitStep ==
  ASSUME IInv, NEW c \in Client, NetWait(c)
  PROVE  StepKeeps
<1> DEFINE o == client[c]
           k == IF o.ingame THEN [o EXCEPT !.phase = "playing", !.showing = 0, !.count = 0]
                ELSE [o EXCEPT !.showing = o.count]
<1>1. o \in Program /\ o.phase = "waiting"
  BY ClientFacts DEF NetWait
<1>2. /\ k \in Program /\ k.phase # "off" /\ k.connects = o.connects /\ k.conn = o.conn
      /\ k.game = o.game /\ k.num = o.num /\ k.number = o.number
      /\ (k.showing = 0 /\ k.count = 0) \/ (k.showing = o.count /\ k.count = o.count)
  BY <1>1 DEF Program
<1>3. client' = [client EXCEPT ![c] = k] /\ UNCHANGED <<server, up, down, games>>
  BY DEF NetWait
<1> HIDE DEF k, o
<1>4. Alike(o, k)
  BY <1>1, <1>2 DEF Alike
<1> QED BY <1>2, <1>3, <1>4, AlikeStep DEF o

\* A key is pressed.
LEMMA StartGameStep ==
  ASSUME IInv, NEW c \in Client, StartGame(c)
  PROVE  StepKeeps
<1> DEFINE o == client[c]
           k == [o EXCEPT !.start = TRUE]
<1>1. o \in Program /\ o.phase = "waiting"
  BY ClientFacts DEF StartGame
<1>2. /\ k \in Program /\ k.phase = o.phase /\ k.connects = o.connects /\ k.conn = o.conn
      /\ k.game = o.game /\ k.num = o.num /\ k.number = o.number
      /\ k.showing = o.showing /\ k.count = o.count
  BY <1>1 DEF Program
<1>3. client' = [client EXCEPT ![c] = k] /\ UNCHANGED <<server, up, down, games>>
  BY DEF StartGame
<1> HIDE DEF k, o
<1>4. Alike(o, k)
  BY <1>1, <1>2 DEF Alike
<1> QED BY <1>2, <1>3, <1>4, AlikeStep DEF o

\* A program is ended.
LEMMA QuitStep ==
  ASSUME IInv, NEW c \in Client, Quit(c)
  PROVE  StepKeeps
<1>1. /\ client[c].phase # "off" /\ Ends(c) /\ down' = [down EXCEPT ![c] = {}]
      /\ up' = [up EXCEPT ![c] = up[c]] /\ UNCHANGED <<server, games>>
  BY ClientFacts DEF Quit
<1> QED BY <1>1, ClientFacts, EndKeeps

\* NET_CL_ParsePacket.  The first program at an address connects to its own slot: only
\* then does it hear of players, and no SYN of it is left.
LEMMA ReceiveStep ==
  ASSUME IInv, NEW c \in Client, ClientReceive(c)
  PROVE  StepKeeps
<1> DEFINE o == client[c]
<1>1. PICK m \in down[c] :
        /\ ClientParse(c, m)
        /\ down' = [down EXCEPT ![c] = IF client'[c].phase = "off" THEN {} ELSE @ \ {m}]
  BY DEF ClientReceive
<1>2. /\ o \in Program /\ o.phase # "off" /\ ClientInv(c, server, o, up[c], down[c])
      /\ down[c] \in SUBSET Datagram /\ m \in Datagram /\ UNCHANGED <<server, games>>
  BY ClientFacts DEF ClientReceive, Running
<1> DEFINE d == down[c] \ {m}
<1>3. /\ d \in SUBSET down[c] /\ d \in SUBSET Datagram /\ Told(d) \subseteq Told(down[c])
      /\ m.kind = "WAITING_DATA" => m.num \in Told(down[c])
  BY <1>2 DEF Told
<1>4. ClientInv(c, server, o, up[c], d)
  BY <1>2, <1>3, LessKeeps
<1> HIDE DEF d
<1>5. \A k : k.phase # "off" /\ client' = [client EXCEPT ![c] = k] => down' = [down EXCEPT ![c] = d]
  BY <1>1, ClientFacts DEF d
<1>6. ASSUME Ends(c), NEW u \in SUBSET {"SYN", "ACK", "DISCONNECT_ACK"},
             up' = [up EXCEPT ![c] = u], "SYN" \in u => "SYN" \in up[c]
      PROVE  StepKeeps
  <2>1. client'[c].phase = "off"
    BY <1>6, ClientFacts, EndedFacts DEF Ends, Ended
  <2>2. down' = [down EXCEPT ![c] = {}]
    BY <1>1, <2>1
  <2> QED BY <1>2, <1>6, <2>2, EndKeeps
<1>7. CASE m.kind = "ACK" /\ o.conn = "CONNECTING"
  <2> DEFINE k == [o EXCEPT !.conn = "CONNECTED"]
             u == up[c] \cup {"ACK"}
  <2>1. client' = [client EXCEPT ![c] = k] /\ up' = [up EXCEPT ![c] = u]
    BY <1>1, <1>7 DEF ClientParse
  <2>2. /\ k \in Program /\ k.phase = o.phase /\ k.connects = o.connects /\ k.conn = "CONNECTED"
        /\ k.count = o.count /\ k.showing = o.showing /\ k.game = o.game /\ k.num = o.num
        /\ k.number = o.number
    BY <1>2 DEF Program
  <2>3. u \in SUBSET {"SYN", "ACK", "DISCONNECT_ACK"} /\ ("SYN" \in u => "SYN" \in up[c])
    BY ClientFacts
  <2> HIDE DEF k, u, o
  <2>4. m = Plain("ACK")
    BY <1>2, <1>7 DEF Datagram, Plain
  <2>5. "SYN" \notin up[c]
    BY <1>2, <2>4 DEF ClientInv, HandshakeInv
  <2>6. HandshakeInv(c, server, k, u, d)
    BY <1>2, <1>4, <2>2, <2>3, <2>5 DEF ClientInv, HandshakeInv
  <2>7. WaitingInv(c, server, k, d)
    BY <1>4, <2>2 DEF ClientInv, WaitingInv
  <2>8. down' = [down EXCEPT ![c] = d]
    BY <1>2, <1>5, <2>1, <2>2
  <2> QED BY <1>2, <1>3, <2>1, <2>2, <2>3, <2>6, <2>7, <2>8, ClientStep DEF ClientInv, o
<1>8. CASE m.kind = "REJECTED" /\ o.conn = "CONNECTING"
  <2>1. Ends(c) /\ up' = up
    BY <1>1, <1>8 DEF ClientParse
  <2>2. up' = [up EXCEPT ![c] = up[c]] /\ up[c] \in SUBSET {"SYN", "ACK", "DISCONNECT_ACK"}
    BY <2>1, ClientFacts
  <2> QED BY <1>6, <2>1, <2>2
<1>9. CASE m.kind = "WAITING_DATA"
  <2> DEFINE k == [o EXCEPT !.count = m.num]
  <2>1. client' = [client EXCEPT ![c] = k] /\ up' = up
    BY <1>1, <1>9 DEF ClientParse, ParseWaitingData
  <2>2. m.num \in Nat
    BY <1>2, <1>9 DEF Datagram
  <2>3. /\ k \in Program /\ k.phase = o.phase /\ k.connects = o.connects /\ k.conn = o.conn
        /\ k.count = m.num /\ k.showing = o.showing /\ k.game = o.game /\ k.num = o.num
        /\ k.number = o.number
    BY <1>2, <2>2 DEF Program
  <2> HIDE DEF k
  <2>4. up' = [up EXCEPT ![c] = up[c]] /\ up[c] \in SUBSET {"SYN", "ACK", "DISCONNECT_ACK"}
    BY <2>1, ClientFacts
  <2>5. HandshakeInv(c, server, o, up[c], d) /\ WaitingInv(c, server, o, down[c])
        /\ HandshakeInv(c, server, o, up[c], down[c])
    BY <1>2, <1>4 DEF ClientInv
  <2>6. o.showing \in Nat /\ o.count \in Nat
    BY <1>2 DEF Program
  <2> HIDE DEF o
  <2>7. m.num \in Told(down[c])
    BY <1>3, <1>9
  <2>8. o.connects = 1 => o.conn = "CONNECTED"
    BY <1>2, <2>5, <2>7 DEF HandshakeInv
  <2>9. HandshakeInv(c, server, k, up[c], d)
    BY <2>3, <2>5, <2>8 DEF HandshakeInv
  <2>10. WaitingInv(c, server, k, d)
    <3>1. \A n \in Told(d) : n = m.num
      BY <1>3, <2>5, <2>7 DEF WaitingInv
    <3>2. c \notin Drone => m.num # 0
      BY <2>5, <2>7 DEF WaitingInv
    <3>3. o.connects = 1 /\ o.showing > 0 => m.num > 0
      BY <1>2, <2>2, <2>5, <2>6, <2>7 DEF WaitingInv
    <3>4. m.num > 0 => 0 \notin Told(d)
      BY <2>2, <3>1
    <3>5. o.connects = 1 /\ c \in Drone /\ m.num > 0 =>
            \A s \in SlotsOf(server, c) :
              /\ server.slot[s].state # "WAITING_ACK"
              /\ server.slot[s].state = "CONNECTED" => Players(server) # {}
      BY <1>2, <2>5, <2>7 DEF WaitingInv
    <3>6. c \notin Drone => 0 \notin Told(d)
      BY <3>1, <3>2
    <3>7. (\E n \in Told(d) : n > 0) => m.num > 0
      BY <3>1
    <3> QED BY <2>3, <3>1, <3>3, <3>4, <3>5, <3>6, <3>7 DEF WaitingInv
  <2>11. down' = [down EXCEPT ![c] = d]
    BY <1>2, <1>5, <2>1, <2>3
  <2> QED BY <1>2, <1>3, <2>1, <2>3, <2>4, <2>9, <2>10, <2>11, ClientStep DEF ClientInv, o
<1>10. CASE m.kind = "DISCONNECT"
  <2>1. Ends(c) /\ up' = [up EXCEPT ![c] = @ \cup {"DISCONNECT_ACK"}]
    BY <1>1, <1>10 DEF ClientParse
  <2> DEFINE u == up[c] \cup {"DISCONNECT_ACK"}
  <2>2. /\ up' = [up EXCEPT ![c] = u] /\ u \in SUBSET {"SYN", "ACK", "DISCONNECT_ACK"}
        /\ "SYN" \in u => "SYN" \in up[c]
    BY <2>1, ClientFacts
  <2> HIDE DEF u
  <2> QED BY <1>6, <2>1, <2>2
<1>11. CASE /\ ~(m.kind = "ACK" /\ o.conn = "CONNECTING")
            /\ ~(m.kind = "REJECTED" /\ o.conn = "CONNECTING")
            /\ m.kind # "WAITING_DATA" /\ m.kind # "DISCONNECT"
  <2>1. client' = client /\ up' = up
    BY <1>1, <1>11 DEF ClientParse
  <2>2. /\ client' = [client EXCEPT ![c] = o] /\ up' = [up EXCEPT ![c] = up[c]]
        /\ up[c] \in SUBSET {"SYN", "ACK", "DISCONNECT_ACK"}
    BY <2>1, ClientFacts
  <2>3. down' = [down EXCEPT ![c] = d]
    BY <1>2, <1>5, <2>2
  <2> QED BY <1>2, <1>3, <1>4, <2>2, <2>3, ClientStep
<1> QED BY <1>7, <1>8, <1>9, <1>10, <1>11

---------------------------------------------------------------------------
(* Steps of the server.                                                    *)

\* A turn in which the programs and the datagrams to the server stay.
LEMMA ServerTurn ==
  ASSUME IInv, NEW y, Keeps([sv |-> server, down |-> down], y),
         server' = y.sv, down' = y.down, UNCHANGED <<client, up, games>>
  PROVE  StepKeeps
<1>1. Types' /\ Inv(server', client', up', down', games')
  BY DEF IInv, Types, Keeps, Good
<1>2. Agreed => Agreed'
  BY DEF Agreed, Keeps
<1> QED BY <1>1, <1>2 DEF StepKeeps, IInv

\* NET_SV_Run.
LEMMA RunStep ==
  ASSUME IInv, NEW expired \in SUBSET Slot, NEW late \in BOOLEAN, ServerRun(expired, late)
  PROVE  StepKeeps
<1>1. late => \A c \in Client : up[c] = {}
  BY DEF ServerRun, Quiet
<1>2. Keeps([sv |-> server, down |-> down], RunClients(expired, late))
  BY <1>1, RunClientsKeep
<1>3. /\ server' = RunClients(expired, late).sv /\ down' = RunClients(expired, late).down
      /\ UNCHANGED <<client, up, games>>
  BY DEF ServerRun
<1> QED BY <1>2, <1>3, ServerTurn

\* A client's slot is its only one.
LEMMA OnlySlot ==
  ASSUME NEW sv, NEW g, ServerInv(sv, g), NEW c, NEW s \in SlotsOf(sv, c)
  PROVE  s \in Slot /\ sv.slot[s].active /\ sv.slot[s].addr = c /\ \A t \in SlotsOf(sv, c) : t = s
BY DEF ServerInv, SlotsOf

\* NET_CL_ParseGameStart: the game is the one the start packet tells of.
LEMMA GameStartStep ==
  ASSUME IInv, NEW c \in Client, ClientGameStart(c)
  PROVE  StepKeeps
<1>1. PICK s \in SlotsOf(server, c) :
        LET p == server.slot[s].start  o == client[c] IN
        /\ Running(c) /\ p # NoStart
        /\ server' = [server EXCEPT !.slot[s].start = NoStart]
        /\ client' = [client EXCEPT ![c] =
                        IF o.ingame \/ p.number > p.num \/ (p.number = 0 /\ c \notin Drone) THEN o
                        ELSE [o EXCEPT !.ingame = TRUE, !.number = p.number,
                                       !.num = p.num, !.game = p.game]]
  BY DEF ClientGameStart
<1> DEFINE x == [sv |-> server, down |-> down]
           y == [sv |-> server', down |-> down]
           k == server.slot[s]
           l == [k EXCEPT !.start = NoStart]
           p == k.start
           o == client[c]
           n == client'[c]
<1>2. /\ s \in Slot /\ k.active /\ k.addr = c /\ \A t \in SlotsOf(server, c) : t = s
      /\ server \in ServerState /\ k \in SlotState /\ ServerInv(server, games)
  BY ClientFacts, OnlySlot DEF ServerState
<1>3. UNCHANGED <<up, down, games>> /\ o \in Program /\ o.phase # "off" /\ games \in Nat
  BY <1>1, ClientFacts DEF ClientGameStart, Running
<1>4. p \in Started /\ p \in {NoStart} \cup Started
  BY <1>1, <1>2 DEF SlotState
<1>5. /\ l \in SlotState /\ l.active = k.active /\ l.addr = k.addr /\ l.drone = k.drone
      /\ l.state = k.state /\ l.due = k.due /\ l.start = NoStart
  BY <1>2 DEF SlotState
<1>6. server' = [server EXCEPT !.slot[s] = l]
  BY <1>1
<1> HIDE DEF l
<1>7. /\ server' \in ServerState /\ server'.state = server.state
      /\ server'.players = server.players /\ server'.slot[s] = l
  BY <1>2, <1>5, <1>6, SlotUpdate
<1>8. Good(x)
  BY ClientFacts DEF Good, TurnState
<1>9. x.sv = server /\ x.down = down /\ y.sv = server' /\ y.down = down /\ y \in TurnState
  BY <1>7, ClientFacts DEF TurnState
<1>10. SlotStays(x.sv.slot[s], l) /\ x.sv.slot[s].active
  BY <1>2, <1>5, <1>9 DEF SlotStays
<1> HIDE DEF x, y
<1>11. Keeps(x, y)
  BY <1>2, <1>5, <1>6, <1>8, <1>9, <1>10, SlotKeeps
<1>12. /\ Inv(server', client, up, down, games)
       /\ AgreeInv(server, client, games) => AgreeInv(server', client, games)
  BY <1>9, <1>11 DEF Keeps, Good
<1>13. n = o \/ /\ n = [o EXCEPT !.ingame = TRUE, !.number = p.number,
                                 !.num = p.num, !.game = p.game]
                /\ ~(p.number = 0 /\ c \notin Drone)
  BY <1>1, ClientFacts
<1>14. /\ n \in Program /\ n.phase = o.phase /\ n.connects = o.connects /\ n.conn = o.conn
       /\ n.count = o.count /\ n.showing = o.showing
       /\ \/ n = o
          \/ /\ n.game = p.game /\ n.num = p.num /\ n.number = p.number
             /\ c \notin Drone => p.number # 0
  <2>1. CASE n = o
    BY <1>3, <2>1
  <2>2. CASE n # o
    <3> DEFINE q == [o EXCEPT !.ingame = TRUE, !.number = p.number, !.num = p.num, !.game = p.game]
    <3>1. /\ q \in Program /\ q.phase = o.phase /\ q.connects = o.connects /\ q.conn = o.conn
          /\ q.count = o.count /\ q.showing = o.showing
          /\ q.game = p.game /\ q.num = p.num /\ q.number = p.number
      BY <1>3, <1>4 DEF Program, Started
    <3>2. n = q /\ (c \notin Drone => p.number # 0)
      BY <1>13, <2>2
    <3> HIDE DEF q, n
    <3> QED BY <3>1, <3>2
  <2> QED BY <2>1, <2>2
<1>15. client' = [client EXCEPT ![c] = n]
  BY <1>1, ClientFacts
<1> HIDE DEF n
<1>16. Alike(o, n)
  BY <1>3, <1>14 DEF Alike, Program
<1>17. ClientInv(c, server', n, up[c], down[c])
  <2>1. ClientInv(c, server', o, up[c], down[c])
    BY <1>12 DEF Inv
  <2> QED BY <1>3, <1>14, <1>16, <2>1, AlikeKeeps
<1>18. Inv(server', client', up, down, games)
  <2>1. Inv(server', [client EXCEPT ![c] = n], [up EXCEPT ![c] = up[c]],
            [down EXCEPT ![c] = down[c]], games)
    BY <1>12, <1>14, <1>17, ClientFacts, OneClient
  <2> QED BY <1>15, <2>1, ClientFacts
<1>19. IInv'
  <2>1. client' \in [Client -> Program]
    BY <1>14, <1>15, ClientFacts
  <2> QED BY <1>3, <1>18, <2>1, ClientFacts DEF IInv, Types
<1>20. ASSUME Agreed PROVE Agreed'
  <2>1. AgreeInv(server, client, games) /\ AgreeInv(server', client, games)
    BY <1>12, <1>20 DEF Agreed
  <2>2. n.game <= games
    BY <1>1, <1>2, <1>14, <2>1 DEF AgreeInv
  <2>3. \A t \in SlotsOf(server', c) : t = s
    <3>1. \A t \in Slot \ {s} : server'.slot[t] = server.slot[t]
      BY <1>2, <1>5, <1>6, SlotUpdate
    <3> QED BY <1>2, <3>1 DEF SlotsOf
  <2>4. ASSUME server'.state = "IN_GAME", n.game = games
        PROVE  /\ n.num = Len(server'.players)
               /\ c \notin Drone => n.number # 0
               /\ \A t \in SlotsOf(server', c) : Agrees(server', t, n)
    <3>1. CASE n = o
      BY <2>1, <2>4, <3>1 DEF AgreeInv
    <3>2. CASE n # o
      <4>1. Agrees(server, s, p)
        BY <1>1, <1>2, <1>7, <1>14, <2>1, <2>4, <3>2 DEF AgreeInv
      <4> HIDE DEF o, p
      <4>2. n.num = p.num /\ n.number = p.number /\ (c \notin Drone => p.number # 0)
        BY <1>14, <3>2
      <4> QED BY <1>7, <2>3, <4>1, <4>2 DEF Agrees
    <3> QED BY <3>1, <3>2
  <2>5. AgreeInv(server', client', games)
    BY <1>14, <1>15, <2>1, <2>2, <2>4, ClientFacts, OneAgrees
  <2> QED BY <1>3, <2>5 DEF Agreed
<1> QED BY <1>19, <1>20 DEF StepKeeps

\* The slot of a client changes, or a slot that nobody has: other clients do not see it,
\* if players do not go.
LEMMA OthersKeep ==
  ASSUME NEW sv, NEW sw, NEW s \in Slot, \A t \in Slot \ {s} : sw.slot[t] = sv.slot[t],
         NEW c, sw.slot[s].active => sw.slot[s].addr # c,
         Players(sv) # {} => Players(sw) # {},
         NEW k, NEW u, NEW d, ClientInv(c, sv, k, u, d)
  PROVE  ClientInv(c, sw, k, u, d)
<1>1. \A t \in SlotsOf(sw, c) : t \in SlotsOf(sv, c) /\ sw.slot[t] = sv.slot[t]
  BY DEF SlotsOf
<1>2. HandshakeInv(c, sw, k, u, d)
  BY <1>1 DEF ClientInv, HandshakeInv
<1>3. WaitingInv(c, sw, k, d)
  BY <1>1 DEF ClientInv, WaitingInv
<1> QED BY <1>2, <1>3 DEF ClientInv

\* What the server has read is no longer under way.
LEMMA ReadKeeps ==
  ASSUME IInv, NEW c \in Client, NEW kind \in up[c], up' = [up EXCEPT ![c] = @ \ {kind}]
  PROVE  /\ up' \in [Client -> SUBSET {"SYN", "ACK", "DISCONNECT_ACK"}]
         /\ up'[c] = up[c] \ {kind} /\ \A b \in Client \ {c} : up'[b] = up[b]
         /\ Inv(server, client, up', down, games)
<1>1. /\ up' \in [Client -> SUBSET {"SYN", "ACK", "DISCONNECT_ACK"}]
      /\ up'[c] = up[c] \ {kind} /\ \A b \in Client \ {c} : up'[b] = up[b]
  BY ClientFacts
<1>2. \A b \in Client : up'[b] \in SUBSET up[b]
  BY <1>1
<1>3. \A b \in Client : ClientInv(b, server, client[b], up[b], down[b])
  BY DEF IInv, Inv
<1>4. \A b \in Client : ClientInv(b, server, client[b], up'[b], down[b])
  BY <1>2, <1>3, LessKeeps
<1> QED BY <1>1, <1>4 DEF IInv, Inv

\* A tame step of the server that sends nothing, after it has read a datagram.
LEMMA TameStep ==
  ASSUME IInv, NEW sw \in ServerState, Tame(server, sw), TellsNothing(server, sw),
         \/ sw.players = server.players
         \/ \A i \in 1 .. Len(sw.players) : sw.players[i] \in Players(sw),
         sw.state = "IN_GAME" => \E s \in Slot : sw.slot[s].active /\ ~sw.slot[s].drone,
         NEW u, Inv(server, client, u, down, games)
  PROVE  /\ Inv(sw, client, u, down, games)
         /\ Agreed => AgreeInv(sw, client, games)
<1>1. /\ ServerInv(server, games) /\ down \in [Client -> SUBSET Datagram]
      /\ \A c \in Client : ClientInv(c, server, client[c], u[c], down[c])
  BY DEF Inv
<1>2. sw.state = "IN_GAME" => games > 0
  BY <1>1 DEF ServerInv, TellsNothing
<1>3. ServerInv(sw, games)
  BY <1>1, <1>2, TameKeepsServer
<1>4. \A c \in Client : ClientInv(c, sw, client[c], u[c], down[c])
  BY <1>1, TameKeepsClient
<1>5. Agreed => AgreeInv(sw, client, games)
  BY TameKeepsAgreed DEF Agreed
<1> QED BY <1>1, <1>3, <1>4, <1>5 DEF Inv

\* A SYN is refused in the state that the server has come to.
LEMMA RefuseKeeps ==
  ASSUME NEW c \in Client, NEW sv, NEW u, Inv(sv, client, u, down, games)
  PROVE  Inv(sv, client, u, [down EXCEPT ![c] = With(@, c, Plain("REJECTED"))], games)
<1> DEFINE kind == "REJECTED"
           e == With(down[c], c, Plain(kind))
           dn == [down EXCEPT ![c] = e]
<1>1. /\ ServerInv(sv, games) /\ down \in [Client -> SUBSET Datagram]
      /\ \A b \in Client : ClientInv(b, sv, client[b], u[b], down[b])
  BY DEF Inv
<1>2. kind \in {"ACK", "REJECTED", "DISCONNECT"} /\ kind # "ACK"
  OBVIOUS
<1> HIDE DEF kind
<1>3. e \in SUBSET Datagram /\ ClientInv(c, sv, client[c], u[c], e)
  BY <1>1, <1>2, PlainFacts, PlainKeeps
<1> HIDE DEF e
<1>4. dn \in [Client -> SUBSET Datagram] /\ dn[c] = e /\ \A b \in Client \ {c} : dn[b] = down[b]
  BY <1>1, <1>3
<1> HIDE DEF dn
<1>5. \A b \in Client : ClientInv(b, sv, client[b], u[b], dn[b])
  BY <1>1, <1>3, <1>4
<1> QED BY <1>1, <1>4, <1>5 DEF Inv, dn, e, kind

\* A SYN of a client whose slot waits for its ACK has another ACK sent.
LEMMA AwaitedKeeps ==
  ASSUME IInv, NEW c \in Client, NEW s \in Slot, server.slot[s].active, server.slot[s].addr = c,
         NEW u, "SYN" \notin u[c], Inv(server, client, u, down, games), Awaited(s)
  PROVE  /\ Inv(server', client, u, down', games)
         /\ Agreed => AgreeInv(server', client, games)
<1> DEFINE k == server.slot[s]
           l == [k EXCEPT !.due = @ \/ k.state = "WAITING_ACK"]
<1>1. /\ server \in ServerState /\ k \in SlotState /\ ServerInv(server, games)
      /\ \A b \in Client : ClientInv(b, server, client[b], u[b], down[b])
      /\ \A t \in SlotsOf(server, c) : t = s
      /\ down \in [Client -> SUBSET Datagram]
  BY DEF Inv, ServerInv, ServerState, SlotsOf
<1>2. /\ l \in SlotState /\ l.active = k.active /\ l.addr = k.addr /\ l.drone = k.drone
      /\ l.state = k.state /\ l.start = k.start
  <2>1. (k.due \/ k.state = "WAITING_ACK") \in BOOLEAN
    OBVIOUS
  <2> QED BY <1>1, <2>1 DEF SlotState
<1>3. server' = [server EXCEPT !.slot[s] = l] /\ down' = down
  BY DEF Awaited
<1> HIDE DEF l
<1>4. /\ server' \in ServerState /\ server'.state = server.state
      /\ server'.players = server.players /\ server'.slot[s] = l
      /\ \A t \in Slot \ {s} : server'.slot[t] = server.slot[t]
  BY <1>1, <1>2, <1>3, SlotUpdate
<1>5. \A t \in Slot : /\ server'.slot[t].active = server.slot[t].active
                      /\ server'.slot[t].addr = server.slot[t].addr
                      /\ server'.slot[t].drone = server.slot[t].drone
                      /\ server'.slot[t].state = server.slot[t].state
                      /\ server'.slot[t].start = server.slot[t].start
  BY <1>2, <1>4
<1>6. Players(server') = Players(server)
  BY <1>5, PlayersStay
<1>7. server.players \in Seq(Slot)
  BY <1>1 DEF ServerState
<1>8. \A i \in 1 .. Len(server'.players) : ~server'.slot[server'.players[i]].drone
  BY <1>1, <1>4, <1>5, <1>7 DEF ServerInv
<1>9. ServerInv(server', games)
  BY <1>1, <1>2, <1>4, <1>5, <1>8 DEF ServerInv
<1>10. ASSUME NEW b \in Client, b # c PROVE ClientInv(b, server', client[b], u[b], down[b])
  BY <1>1, <1>2, <1>4, <1>6, <1>10, OthersKeep
<1>11. ClientInv(c, server', client[c], u[c], down[c])
  <2>1. \A t : t \in SlotsOf(server', c) <=> t \in SlotsOf(server, c)
    BY <1>5 DEF SlotsOf
  <2>2. SlotsOf(server', c) = SlotsOf(server, c)
    BY <2>1
  <2>3. \A t \in SlotsOf(server, c) : server'.slot[t].state = server.slot[t].state
    BY <1>5 DEF SlotsOf
  <2>4. HandshakeInv(c, server', client[c], u[c], down[c])
    BY <1>1, <2>2, <2>3 DEF ClientInv, HandshakeInv
  <2>5. WaitingInv(c, server', client[c], down[c])
    BY <1>1, <1>6, <2>2, <2>3 DEF ClientInv, WaitingInv
  <2> QED BY <2>4, <2>5 DEF ClientInv
<1>12. Inv(server', client, u, down', games)
  BY <1>1, <1>3, <1>9, <1>10, <1>11 DEF Inv
<1>13. ASSUME Agreed PROVE AgreeInv(server', client, games)
  <2>1. \A b : SlotsOf(server', b) = SlotsOf(server, b)
    BY <1>5 DEF SlotsOf
  <2>2. AgreeInv(server, client, games)
    BY <1>13 DEF Agreed
  <2> QED BY <1>4, <1>5, <2>1, <2>2 DEF AgreeInv, Agrees
<1> QED BY <1>12, <1>13

\* NET_SV_ParseSYN: a slot whose client is gone is given back, and players are numbered.
LEMMA VacateFacts ==
  ASSUME IInv, NEW c \in Client, NEW s \in SlotFor(c), Vacant(s), server.state = "WAITING_START"
  PROVE  LET sw == AssignPlayers([server EXCEPT !.slot[s] = Free]) IN
         /\ s \in Slot /\ sw \in ServerState /\ sw.state = "WAITING_START" /\ sw.slot[s] = Free
         /\ Tame(server, sw) /\ TellsNothing(server, sw) /\ SlotsOf(sw, c) = {}
         /\ \A i \in 1 .. Len(sw.players) : sw.players[i] \in Players(sw)
<1> DEFINE f == [server EXCEPT !.slot[s] = Free]
           sw == AssignPlayers(f)
<1>1. /\ server \in ServerState /\ ServerInv(server, games) /\ s \in Slot
      /\ s \in SlotsOf(server, c) \/ SlotsOf(server, c) = {}
      /\ server.slot[s].state = "DISCONNECTED"
  BY ClientFacts DEF SlotFor, SlotsOf, Vacant
<1>2. /\ f \in ServerState /\ f.state = "WAITING_START" /\ f.slot[s] = Free
      /\ \A t \in Slot \ {s} : f.slot[t] = server.slot[t]
  BY <1>1, FreeFacts, SlotUpdate
<1> HIDE DEF f
<1>3. /\ sw \in ServerState /\ sw.state = "WAITING_START" /\ sw.slot = f.slot
      /\ \A i \in 1 .. Len(sw.players) : sw.players[i] \in Players(f)
  BY <1>2, AssignFacts
<1> HIDE DEF sw
<1>4. Players(sw) = Players(f)
  BY <1>3, PlayersStay
<1>5. \A t \in Slot : SlotGoesOn(server.slot[t], sw.slot[t])
  <2>1. \A t \in Slot : server.slot[t].active \/ server.slot[t] = Free
    BY <1>1 DEF ServerInv
  <2> QED BY <1>2, <1>3, <2>1 DEF SlotGoesOn
<1>6. \A t \in Players(server) : t \in Players(sw)
  BY <1>1, <1>2, <1>3 DEF Players, Connected
<1>7. Tame(server, sw)
  BY <1>5, <1>6 DEF Tame
<1>8. TellsNothing(server, sw)
  BY <1>2, <1>3, FreeFacts DEF TellsNothing
<1>9. SlotsOf(sw, c) = {}
  <2>1. \A t \in SlotsOf(server, c) : t = s
    BY <1>1, OnlySlot
  <2>2. \A t \in SlotsOf(sw, c) : t # s /\ t \in SlotsOf(server, c)
    BY <1>2, <1>3, FreeFacts DEF SlotsOf
  <2> QED BY <2>1, <2>2
<1> QED BY <1>1, <1>2, <1>3, <1>4, <1>7, <1>8, <1>9 DEF sw, f

\* NET_SV_InitNewClient: a program is waiting for the ACK of its SYN.
LEMMA NewClientKeeps ==
  ASSUME NEW c \in Client, NEW u, "SYN" \notin u[c],
         NEW sv, Inv(sv, client, u, down, games), sv.state = "WAITING_START",
         NEW s \in Slot, sv.slot[s] = Free, SlotsOf(sv, c) = {},
         \A i \in 1 .. Len(sv.players) : sv.players[i] \in Players(sv),
         client[c].connects # 0, client[c].connects = 1 /\ client[c].phase # "off" =>
                                   client[c].conn # "CONNECTED"
  PROVE  LET sw == [sv EXCEPT !.slot[s] = NewClient(c)] IN
         /\ Inv(sw, client, u, down, games)
         /\ AgreeInv(sv, client, games) => AgreeInv(sw, client, games)
<1> DEFINE n == NewClient(c)
           sw == [sv EXCEPT !.slot[s] = n]
<1>1. /\ sv \in ServerState /\ ServerInv(sv, games) /\ down \in [Client -> SUBSET Datagram]
      /\ \A b \in Client : ClientInv(b, sv, client[b], u[b], down[b])
  BY DEF Inv, ServerInv
<1>2. /\ n \in SlotState /\ n.active /\ n.addr = c /\ n.state = "WAITING_ACK"
      /\ (n.drone <=> c \in Drone) /\ n.start = NoStart
  <2> DEFINE b == c \in Drone
  <2>1. b \in BOOLEAN
    OBVIOUS
  <2>2. n = [active |-> TRUE, addr |-> c, state |-> "WAITING_ACK", drone |-> b, due |-> TRUE,
             start |-> NoStart]
    BY DEF NewClient
  <2> HIDE DEF b, n
  <2>3. n \in SlotState
    BY <2>1, <2>2 DEF SlotState, ConnState
  <2>4. n.drone = b /\ n.active = TRUE
    BY <2>2
  <2>5. n.drone <=> c \in Drone
    BY <2>4 DEF b
  <2> QED BY <2>2, <2>3, <2>4, <2>5
<1> HIDE DEF n
<1>3. /\ sw \in ServerState /\ sw.state = "WAITING_START" /\ sw.players = sv.players
      /\ sw.slot[s] = n /\ \A t \in Slot \ {s} : sw.slot[t] = sv.slot[t]
  BY <1>1, <1>2, SlotUpdate
<1> HIDE DEF sw
<1>4. \A t \in Players(sv) : t # s /\ t \in Slot /\ sw.slot[t] = sv.slot[t]
  BY <1>3, FreeFacts DEF Players, Connected
<1>5. \A t \in Players(sv) : t \in Players(sw)
  BY <1>4 DEF Players, Connected
<1>6. \A t \in Slot \ {s} : sv.slot[t].active => sv.slot[t].addr # c
  BY DEF SlotsOf
<1>7. ServerInv(sw, games)
  <2>1. \A t \in Slot : sw.slot[t].active =>
          sw.slot[t].addr \in Client /\ (sw.slot[t].drone <=> sw.slot[t].addr \in Drone)
    BY <1>1, <1>2, <1>3 DEF ServerInv
  <2>2. \A t \in Slot : ~sw.slot[t].active => sw.slot[t] = Free
    BY <1>1, <1>2, <1>3 DEF ServerInv
  <2>3. \A t, b \in Slot :
          sw.slot[t].active /\ sw.slot[b].active /\ sw.slot[t].addr = sw.slot[b].addr => t = b
    BY <1>1, <1>2, <1>3, <1>6 DEF ServerInv
  <2>4. \A i \in 1 .. Len(sw.players) : ~sw.slot[sw.players[i]].drone
    BY <1>3, <1>5 DEF Players
  <2> QED BY <1>3, <2>1, <2>2, <2>3, <2>4 DEF ServerInv
<1>8. ASSUME NEW b \in Client, b # c PROVE ClientInv(b, sw, client[b], u[b], down[b])
  BY <1>1, <1>2, <1>3, <1>5, <1>8, OthersKeep
<1>9. ClientInv(c, sw, client[c], u[c], down[c])
  <2> DEFINE k == client[c]
             d == down[c]
  <2>1. \A t \in SlotsOf(sw, c) : t = s
    BY <1>3, <1>6 DEF SlotsOf
  <2>2. HandshakeInv(c, sv, k, u[c], d) /\ WaitingInv(c, sv, k, d)
    BY <1>1 DEF ClientInv
  <2>3. k.connects # 0 /\ (k.connects = 1 /\ k.phase # "off" => k.conn # "CONNECTED")
    OBVIOUS
  <2> HIDE DEF k, d
  <2>4. HandshakeInv(c, sw, k, u[c], d)
    BY <1>2, <1>3, <2>1, <2>2, <2>3 DEF HandshakeInv
  <2>5. WaitingInv(c, sw, k, d)
    <3>1. k.connects = 1 /\ k.phase # "off" => ~(k.count > 0 \/ \E m \in Told(d) : m > 0)
      BY <2>2, <2>3 DEF HandshakeInv
    <3> QED BY <2>2, <3>1 DEF WaitingInv
  <2> QED BY <2>4, <2>5 DEF ClientInv, k, d
<1>10. Inv(sw, client, u, down, games)
  BY <1>1, <1>7, <1>8, <1>9 DEF Inv
<1>11. ASSUME AgreeInv(sv, client, games) PROVE AgreeInv(sw, client, games)
  BY <1>2, <1>3, <1>11 DEF AgreeInv
<1> QED BY <1>10, <1>11 DEF sw, n

\* NET_SV_ParseSYN.
LEMMA SYNKeeps ==
  ASSUME IInv, NEW c \in Client, "SYN" \in up[c], NEW u, "SYN" \notin u[c],
         Inv(server, client, u, down, games), ParseSYN(c)
  PROVE  /\ Inv(server', client, u, down', games)
         /\ Agreed => AgreeInv(server', client, games)
<1>1. CASE server.state # "WAITING_START"
  <2>1. Refused(c)
    BY <1>1 DEF ParseSYN
  <2> QED BY <2>1, RefuseKeeps DEF Refused, Agreed
<1>2. CASE server.state = "WAITING_START"
  <2>1. PICK s \in SlotFor(c) :
          LET sv == AssignPlayers([server EXCEPT !.slot[s] = Free]) IN
          IF ~Vacant(s) THEN Awaited(s)
          ELSE \/ /\ server' = sv
                  /\ down' = [down EXCEPT ![c] = With(@, c, Plain("REJECTED"))]
               \/ server' = [sv EXCEPT !.slot[s] = NewClient(c)] /\ UNCHANGED down
    BY <1>2 DEF ParseSYN
  <2>2. CASE ~Vacant(s)
    <3>1. s \in Slot /\ server.slot[s].active /\ server.slot[s].addr = c
      <4>1. s \in Slot /\ (server.slot[s] = Free \/ s \in SlotsOf(server, c))
        BY ClientFacts DEF SlotFor, SlotsOf, ServerInv
      <4> QED BY <2>2, <4>1, FreeFacts DEF Vacant, SlotsOf
    <3>2. Awaited(s)
      BY <2>1, <2>2
    <3> QED BY <3>1, <3>2, AwaitedKeeps
  <2>3. CASE Vacant(s)
    <3> DEFINE sv == AssignPlayers([server EXCEPT !.slot[s] = Free])
    <3>1. /\ s \in Slot /\ sv \in ServerState /\ sv.state = "WAITING_START" /\ sv.slot[s] = Free
          /\ Tame(server, sv) /\ TellsNothing(server, sv) /\ SlotsOf(sv, c) = {}
          /\ \A i \in 1 .. Len(sv.players) : sv.players[i] \in Players(sv)
      BY <1>2, <2>3, VacateFacts
    <3>2. \/ server' = sv /\ down' = [down EXCEPT ![c] = With(@, c, Plain("REJECTED"))]
          \/ server' = [sv EXCEPT !.slot[s] = NewClient(c)] /\ UNCHANGED down
      BY <2>1, <2>3
    <3> HIDE DEF sv
    <3>3. Inv(sv, client, u, down, games) /\ (Agreed => AgreeInv(sv, client, games))
      BY <3>1, TameStep
    <3>4. CASE server' = sv /\ down' = [down EXCEPT ![c] = With(@, c, Plain("REJECTED"))]
      <4>1. Inv(sv, client, u, [down EXCEPT ![c] = With(@, c, Plain("REJECTED"))], games)
        BY <3>3, RefuseKeeps
      <4> QED BY <3>3, <3>4, <4>1
    <3>5. CASE server' = [sv EXCEPT !.slot[s] = NewClient(c)] /\ UNCHANGED down
      <4>1. /\ client[c].connects # 0
            /\ client[c].connects = 1 /\ client[c].phase # "off" => client[c].conn # "CONNECTED"
        BY ClientFacts DEF ClientInv, HandshakeInv
      <4>2. /\ Inv([sv EXCEPT !.slot[s] = NewClient(c)], client, u, down, games)
            /\ AgreeInv(sv, client, games) =>
                 AgreeInv([sv EXCEPT !.slot[s] = NewClient(c)], client, games)
        BY <3>1, <3>3, <4>1, NewClientKeeps
      <4> QED BY <3>3, <3>5, <4>2
    <3> QED BY <3>2, <3>4, <3>5
  <2> QED BY <2>2, <2>3
<1> QED BY <1>1, <1>2

\* An ACK connects the client in its slot: the first program at its address is connected.
LEMMA ACKKeeps ==
  ASSUME IInv, NEW c \in Client, "ACK" \in up[c], NEW s \in SlotsOf(server, c),
         server.slot[s].state = "WAITING_ACK",
         NEW u, u[c] \in SUBSET up[c], Inv(server, client, u, down, games)
  PROVE  LET sw == [server EXCEPT !.slot[s].state = "CONNECTED", !.slot[s].due = TRUE] IN
         /\ Inv(sw, client, u, down, games)
         /\ Agreed => AgreeInv(sw, client, games)
<1> DEFINE k == server.slot[s]
           l == [k EXCEPT !.state = "CONNECTED", !.due = TRUE]
           sw == [server EXCEPT !.slot[s].state = "CONNECTED", !.slot[s].due = TRUE]
<1>1. /\ server \in ServerState /\ k \in SlotState /\ ServerInv(server, games)
      /\ \A b \in Client : ClientInv(b, server, client[b], u[b], down[b])
      /\ s \in Slot /\ k.active /\ k.addr = c /\ \A t \in SlotsOf(server, c) : t = s
      /\ down \in [Client -> SUBSET Datagram]
  BY OnlySlot DEF Inv, ServerInv, ServerState
<1>2. /\ l \in SlotState /\ l.active = k.active /\ l.addr = k.addr /\ l.drone = k.drone
      /\ l.state = "CONNECTED" /\ l.start = k.start
  BY <1>1 DEF SlotState, ConnState
<1>3. sw = [server EXCEPT !.slot[s] = l]
  BY <1>1 DEF ServerState, SlotState
<1> HIDE DEF l, sw
<1>4. /\ sw \in ServerState /\ sw.state = server.state
      /\ sw.players = server.players /\ sw.slot[s] = l
      /\ \A t \in Slot \ {s} : sw.slot[t] = server.slot[t]
  BY <1>1, <1>2, <1>3, SlotUpdate
<1>5. \A t \in Slot : /\ sw.slot[t].active = server.slot[t].active
                      /\ sw.slot[t].addr = server.slot[t].addr
                      /\ sw.slot[t].drone = server.slot[t].drone
                      /\ sw.slot[t].start = server.slot[t].start
  BY <1>2, <1>4
<1>6. \A t \in Players(server) : t \in Players(sw)
  BY <1>2, <1>4 DEF Players, Connected
<1>7. ServerInv(sw, games)
  <2>1. server.players \in Seq(Slot)
    BY <1>1 DEF ServerState
  <2>2. \A i \in 1 .. Len(sw.players) : ~sw.slot[sw.players[i]].drone
    BY <1>1, <1>4, <1>5, <2>1 DEF ServerInv
  <2> QED BY <1>1, <1>2, <1>4, <1>5, <2>2 DEF ServerInv
<1>8. ASSUME NEW b \in Client, b # c PROVE ClientInv(b, sw, client[b], u[b], down[b])
  BY <1>1, <1>2, <1>4, <1>6, <1>8, OthersKeep
<1>9. ClientInv(c, sw, client[c], u[c], down[c])
  <2> DEFINE o == client[c]
             d == down[c]
  <2>1. \A t \in SlotsOf(sw, c) : t = s
    BY <1>1, <1>5 DEF SlotsOf
  <2>2. HandshakeInv(c, server, o, u[c], d) /\ WaitingInv(c, server, o, d)
    BY <1>1 DEF ClientInv
  <2>3. HandshakeInv(c, server, o, up[c], d)
    BY ClientFacts DEF ClientInv
  <2>4. o.connects # 0
    BY <2>3 DEF HandshakeInv
  <2> HIDE DEF o, d
  <2>5. o.connects = 1 /\ o.phase # "off" => o.conn = "CONNECTED"
    BY <2>3 DEF HandshakeInv
  <2>6. HandshakeInv(c, sw, o, u[c], d)
    BY <1>2, <1>4, <2>1, <2>2, <2>4, <2>5 DEF HandshakeInv
  <2>7. WaitingInv(c, sw, o, d)
    <3>1. o.connects = 1 /\ o.phase # "off" =>
            ~(c \in Drone /\ (o.count > 0 \/ \E m \in Told(d) : m > 0))
      BY <2>2 DEF WaitingInv
    <3> QED BY <2>2, <3>1 DEF WaitingInv
  <2> QED BY <2>6, <2>7 DEF ClientInv, o, d
<1>10. Inv(sw, client, u, down, games)
  BY <1>1, <1>7, <1>8, <1>9 DEF Inv
<1>11. ASSUME Agreed PROVE AgreeInv(sw, client, games)
  <2>1. \A b : SlotsOf(sw, b) = SlotsOf(server, b)
    BY <1>5 DEF SlotsOf
  <2>2. AgreeInv(server, client, games)
    BY <1>11 DEF Agreed
  <2> QED BY <1>4, <1>5, <2>1, <2>2 DEF AgreeInv, Agrees
<1> QED BY <1>10, <1>11 DEF sw

\* A DISCONNECT_ACK ends the connection of a slot.
LEMMA DisconnectACKKeeps ==
  ASSUME IInv, NEW c \in Client, NEW s \in SlotsOf(server, c),
         server.slot[s].state = "DISCONNECTING", NEW u, Inv(server, client, u, down, games)
  PROVE  LET sw == [server EXCEPT !.slot[s].state = "DISCONNECTED"] IN
         /\ Inv(sw, client, u, down, games)
         /\ Agreed => AgreeInv(sw, client, games)
<1> DEFINE k == server.slot[s]
           l == [k EXCEPT !.state = "DISCONNECTED"]
           sw == [server EXCEPT !.slot[s].state = "DISCONNECTED"]
<1>1. /\ server \in ServerState /\ k \in SlotState /\ ServerInv(server, games)
      /\ s \in Slot /\ k.active
  BY OnlySlot DEF Inv, ServerInv, ServerState
<1>2. /\ l \in SlotState /\ l.active = k.active /\ l.addr = k.addr /\ l.drone = k.drone
      /\ l.state = "DISCONNECTED" /\ l.start = k.start
  BY <1>1 DEF SlotState, ConnState
<1>3. sw = [server EXCEPT !.slot[s] = l]
  OBVIOUS
<1> HIDE DEF l, sw
<1>4. /\ sw \in ServerState /\ sw.state = server.state
      /\ sw.players = server.players /\ sw.slot[s] = l
      /\ \A t \in Slot \ {s} : sw.slot[t] = server.slot[t]
  BY <1>1, <1>2, <1>3, SlotUpdate
<1>5. \A t \in Slot : SlotGoesOn(server.slot[t], sw.slot[t])
  <2>1. SlotGoesOn(k, l)
    BY <1>1, <1>2 DEF SlotGoesOn
  <2>2. \A t \in Slot : server.slot[t].active \/ server.slot[t] = Free
    BY <1>1 DEF ServerInv
  <2>3. \A t \in Slot \ {s} : SlotGoesOn(server.slot[t], sw.slot[t])
    BY <1>4, <2>2 DEF SlotGoesOn
  <2> QED BY <1>4, <2>1, <2>3
<1>6. \A t \in Players(server) : t \in Players(sw)
  BY <1>4 DEF Players, Connected
<1>7. Tame(server, sw)
  BY <1>5, <1>6 DEF Tame
<1>8. TellsNothing(server, sw)
  BY <1>2, <1>4 DEF TellsNothing
<1>9. sw.state = "IN_GAME" => \E t \in Slot : sw.slot[t].active /\ ~sw.slot[t].drone
  <2>1. \A t \in Slot : /\ sw.slot[t].active = server.slot[t].active
                        /\ sw.slot[t].drone = server.slot[t].drone
    BY <1>2, <1>4
  <2> QED BY <1>1, <1>4, <2>1 DEF ServerInv
<1>10. Inv(sw, client, u, down, games) /\ (Agreed => AgreeInv(sw, client, games))
  BY <1>4, <1>7, <1>8, <1>9, TameStep
<1> QED BY <1>10 DEF sw

\* NET_SV_Packet.
LEMMA ServerReceiveStep ==
  ASSUME IInv, NEW c \in Client, ServerReceive(c)
  PROVE  StepKeeps
<1>1. PICK kind \in up[c] :
        /\ up' = [up EXCEPT ![c] = @ \ {kind}]
        /\ IF kind = "SYN" THEN ParseSYN(c) \/ (SlotFor(c) = {} /\ UNCHANGED <<server, down>>)
           ELSE \/ SlotsOf(server, c) = {} /\ UNCHANGED <<server, down>>
                \/ \E s \in SlotsOf(server, c) : ParseCommon(s, kind)
  BY DEF ServerReceive
<1>2. UNCHANGED <<client, games>>
  BY DEF ServerReceive
<1>3. /\ up' \in [Client -> SUBSET {"SYN", "ACK", "DISCONNECT_ACK"}]
      /\ up'[c] = up[c] \ {kind} /\ Inv(server, client, up', down, games)
  BY <1>1, ReadKeeps
<1>4. SUFFICES /\ Inv(server', client, up', down', games)
               /\ Agreed => AgreeInv(server', client, games)
  <2>1. Types'
    BY <1>2, <1>3, ClientFacts DEF Types
  <2> QED BY <1>2, <2>1 DEF StepKeeps, IInv, Agreed
<1>5. CASE UNCHANGED <<server, down>>
  BY <1>3, <1>5 DEF Agreed
<1>6. CASE kind = "SYN" /\ ParseSYN(c)
  <2>1. "SYN" \in up[c] /\ "SYN" \notin up'[c]
    BY <1>3, <1>6
  <2> DEFINE u == up'
  <2>2. "SYN" \notin u[c] /\ Inv(server, client, u, down, games)
    BY <1>3, <2>1
  <2> HIDE DEF u
  <2>3. Inv(server', client, u, down', games) /\ (Agreed => AgreeInv(server', client, games))
    BY <1>6, <2>1, <2>2, SYNKeeps
  <2> QED BY <2>3 DEF u
<1>7. ASSUME kind # "SYN", NEW s \in SlotsOf(server, c), ParseCommon(s, kind)
      PROVE  /\ Inv(server', client, up', down', games)
             /\ Agreed => AgreeInv(server', client, games)
  <2> DEFINE u == up'
  <2>1. down' = down /\ Inv(server, client, u, down, games) /\ u[c] \in SUBSET up[c]
    BY <1>3, <1>7 DEF ParseCommon
  <2>2. \/ /\ kind = "ACK" /\ server.slot[s].state = "WAITING_ACK"
           /\ server' = [server EXCEPT !.slot[s].state = "CONNECTED", !.slot[s].due = TRUE]
        \/ /\ kind = "DISCONNECT_ACK" /\ server.slot[s].state = "DISCONNECTING"
           /\ server' = [server EXCEPT !.slot[s].state = "DISCONNECTED"]
        \/ server' = server
    BY <1>7 DEF ParseCommon
  <2> HIDE DEF u
  <2>3. CASE /\ kind = "ACK" /\ server.slot[s].state = "WAITING_ACK"
             /\ server' = [server EXCEPT !.slot[s].state = "CONNECTED", !.slot[s].due = TRUE]
    <3>1. Inv(server', client, u, down, games) /\ (Agreed => AgreeInv(server', client, games))
      BY <1>1, <2>1, <2>3, ACKKeeps
    <3> QED BY <2>1, <3>1 DEF u
  <2>4. CASE /\ kind = "DISCONNECT_ACK" /\ server.slot[s].state = "DISCONNECTING"
             /\ server' = [server EXCEPT !.slot[s].state = "DISCONNECTED"]
    <3>1. Inv(server', client, u, down, games) /\ (Agreed => AgreeInv(server', client, games))
      BY <2>1, <2>4, DisconnectACKKeeps
    <3> QED BY <2>1, <3>1 DEF u
  <2>5. CASE server' = server
    BY <1>3, <2>1, <2>5 DEF Agreed
  <2> QED BY <2>2, <2>3, <2>4, <2>5
<1> QED BY <1>1, <1>5, <1>6, <1>7

\* The server when it has sent the start packets.
Starting(sv) ==
  [sv EXCEPT !.state = "IN_GAME",
             !.slot = [t \in Slot |-> IF Connected(sv, t)
                                      THEN [@[t] EXCEPT !.start = StartPackets(sv)[t]]
                                      ELSE @[t]]]

\* The slots are as they were, but for the packets.
LEMMA StartFacts ==
  ASSUME NEW sv \in ServerState, \A s \in Slot : sv.slot[s].active \/ sv.slot[s] = Free,
         games \in Nat
  PROVE  LET sw == Starting(sv) IN
         /\ sw \in ServerState /\ sw.state = "IN_GAME" /\ sw.players = sv.players
         /\ Players(sw) = Players(sv)
         /\ \A t \in Slot :
              /\ sw.slot[t].active = sv.slot[t].active /\ sw.slot[t].addr = sv.slot[t].addr
              /\ sw.slot[t].drone = sv.slot[t].drone /\ sw.slot[t].state = sv.slot[t].state
              /\ sw.slot[t].due = sv.slot[t].due
              /\ SlotGoesOn(sv.slot[t], sw.slot[t])
              /\ \/ sw.slot[t].start = sv.slot[t].start
                 \/ /\ sw.slot[t].start.num = NumPlayers(sv)
                    /\ sw.slot[t].start.number = PlayerNumber(sv, t)
                    /\ sw.slot[t].start.game = games + 1
<1> DEFINE sw == Starting(sv)
           P(t) == StartPackets(sv)[t]
           L(t) == IF Connected(sv, t) THEN [sv.slot[t] EXCEPT !.start = P(t)] ELSE sv.slot[t]
           slots == [t \in Slot |-> L(t)]
<1>1. sw = [sv EXCEPT !.state = "IN_GAME", !.slot = slots]
  BY DEF Starting
<1> HIDE DEF sw
<1>2. NumPlayers(sv) \in Nat /\ \A t \in Slot : PlayerNumber(sv, t) \in Nat
  BY CountFacts, NumberFacts
<1>3. ASSUME NEW t \in Slot, Connected(sv, t)
      PROVE  /\ P(t) \in Started /\ P(t).num = NumPlayers(sv)
             /\ P(t).number = PlayerNumber(sv, t) /\ P(t).game = games + 1
  <2>1. P(t) = [num |-> NumPlayers(sv), number |-> PlayerNumber(sv, t), game |-> games + 1,
                sent |-> FALSE]
    BY <1>3 DEF StartPackets
  <2> QED BY <1>2, <2>1 DEF Started
<1> HIDE DEF P
<1>4. ASSUME NEW t \in Slot
      PROVE  /\ L(t) \in SlotState
             /\ L(t).active = sv.slot[t].active /\ L(t).addr = sv.slot[t].addr
             /\ L(t).drone = sv.slot[t].drone /\ L(t).state = sv.slot[t].state
             /\ L(t).due = sv.slot[t].due
             /\ Connected(sv, t) => L(t).start = P(t)
             /\ ~Connected(sv, t) => L(t) = sv.slot[t]
  <2>1. sv.slot[t] \in SlotState
    BY DEF ServerState
  <2>2. CASE ~Connected(sv, t)
    BY <2>1, <2>2
  <2>3. CASE Connected(sv, t)
    <3>1. L(t) = [sv.slot[t] EXCEPT !.start = P(t)] /\ P(t) \in Started
      BY <1>3, <2>3
    <3> HIDE DEF L
    <3> QED BY <2>1, <2>3, <3>1 DEF SlotState
  <2> QED BY <2>2, <2>3
<1>5. \A t \in Slot : slots[t] = L(t)
  OBVIOUS
<1> HIDE DEF L
<1>6. slots \in [Slot -> SlotState]
  BY <1>4
<1> HIDE DEF slots
<1>7. /\ sw \in ServerState /\ sw.state = "IN_GAME" /\ sw.players = sv.players
      /\ sw.slot = slots
  BY <1>1, <1>6 DEF ServerState
<1>8. \A t \in Slot :
        /\ sw.slot[t].active = sv.slot[t].active /\ sw.slot[t].addr = sv.slot[t].addr
        /\ sw.slot[t].drone = sv.slot[t].drone /\ sw.slot[t].state = sv.slot[t].state
        /\ sw.slot[t].due = sv.slot[t].due
  BY <1>4, <1>5, <1>7
<1>9. ASSUME NEW t \in Slot
      PROVE  \/ sw.slot[t].start = sv.slot[t].start
             \/ /\ sw.slot[t].start.num = NumPlayers(sv)
                /\ sw.slot[t].start.number = PlayerNumber(sv, t)
                /\ sw.slot[t].start.game = games + 1
  <2>1. CASE Connected(sv, t)
    BY <1>3, <1>4, <1>5, <1>7, <2>1
  <2>2. CASE ~Connected(sv, t)
    BY <1>4, <1>5, <1>7, <2>2
  <2> QED BY <2>1, <2>2
<1>10. ASSUME NEW t \in Slot PROVE SlotGoesOn(sv.slot[t], sw.slot[t])
  <2>1. CASE Connected(sv, t)
    BY <1>8, <2>1 DEF SlotGoesOn, Connected
  <2>2. CASE ~Connected(sv, t)
    <3>1. sw.slot[t] = sv.slot[t]
      BY <1>4, <1>5, <1>7, <2>2
    <3> QED BY <3>1 DEF SlotGoesOn
  <2> QED BY <2>1, <2>2
<1>11. Players(sw) = Players(sv)
  BY <1>8, PlayersStay
<1> QED BY <1>7, <1>8, <1>9, <1>10, <1>11 DEF sw

\* NET_SV_ParseGameStart: a game has its controller for a player.  If sv_players has room
\* for the players, they agree.
LEMMA ServerStartStep ==
  ASSUME IInv, NEW c \in Client, ServerGameStart(c)
  PROVE  IInv' /\ (Agreed /\ PlayersFit' => Agreed')
<1> DEFINE k == client[c]
           l == [k EXCEPT !.start = FALSE]
           sv == AssignPlayers(server)
<1>1. PICK s \in SlotsOf(server, c) :
        /\ client' = [client EXCEPT ![c].start = FALSE]
        /\ \/ IsController(server, s) /\ server' = Starting(sv) /\ games' = games + 1
           \/ UNCHANGED <<server, games>>
        /\ UNCHANGED <<up, down>>
  BY DEF ServerGameStart, Starting
<1>2. /\ client \in [Client -> Program] /\ k \in Program /\ games \in Nat
      /\ server \in ServerState /\ ServerInv(server, games)
      /\ down \in [Client -> SUBSET Datagram]
      /\ \A b \in Client : ClientInv(b, server, client[b], up[b], down[b])
  BY ClientFacts DEF Inv
<1>3. /\ l \in Program /\ l.phase = k.phase /\ l.conn = k.conn /\ l.connects = k.connects
      /\ l.count = k.count /\ l.showing = k.showing
      /\ l.game = k.game /\ l.num = k.num /\ l.number = k.number
  BY <1>2 DEF Program
<1>4. client' = [client EXCEPT ![c] = l]
  BY <1>1
<1> HIDE DEF l, sv
<1>5. Types'
  <2>1. games' \in Nat /\ up' = up
    BY <1>1, <1>2
  <2>2. client' \in [Client -> Program]
    BY <1>2, <1>3, <1>4
  <2> QED BY <2>1, <2>2, ClientFacts DEF Types
<1>6. \A b \in Client : /\ client'[b].phase = client[b].phase /\ client'[b].conn = client[b].conn
                        /\ client'[b].connects = client[b].connects
                        /\ client'[b].count = client[b].count
                        /\ client'[b].showing = client[b].showing
                        /\ client'[b].game = client[b].game
                        /\ client'[b].num = client[b].num
                        /\ client'[b].number = client[b].number
  BY <1>2, <1>3, <1>4
<1>7. \A b \in Client : ClientInv(b, server, client'[b], up[b], down[b])
  BY <1>2, <1>6 DEF ClientInv, HandshakeInv, WaitingInv
<1>8. CASE UNCHANGED <<server, games>>
  <2>1. IInv'
    BY <1>1, <1>2, <1>5, <1>7, <1>8 DEF IInv, Inv
  <2>2. ASSUME Agreed PROVE Agreed'
    BY <1>6, <1>8, <2>2 DEF Agreed, AgreeInv, Agrees
  <2> QED BY <2>1, <2>2
<1>9. CASE IsController(server, s) /\ server' = Starting(sv) /\ games' = games + 1
  <2>1. /\ sv \in ServerState /\ sv.slot = server.slot /\ Len(sv.players) \in Nat
        /\ \A i \in 1 .. Len(sv.players) : sv.players[i] \in Players(server)
    BY <1>2, AssignFacts DEF sv
  <2>2. \A t \in Slot : sv.slot[t].active \/ sv.slot[t] = Free
    BY <1>2, <2>1 DEF ServerInv
  <2>3. /\ server' \in ServerState /\ server'.state = "IN_GAME" /\ server'.players = sv.players
        /\ Players(server') = Players(sv)
        /\ \A t \in Slot :
             /\ server'.slot[t].active = sv.slot[t].active
             /\ server'.slot[t].addr = sv.slot[t].addr
             /\ server'.slot[t].drone = sv.slot[t].drone
             /\ server'.slot[t].state = sv.slot[t].state
             /\ SlotGoesOn(sv.slot[t], server'.slot[t])
             /\ \/ server'.slot[t].start = sv.slot[t].start
                \/ /\ server'.slot[t].start.num = NumPlayers(sv)
                   /\ server'.slot[t].start.number = PlayerNumber(sv, t)
                   /\ server'.slot[t].start.game = games + 1
    BY <1>2, <1>9, <2>1, <2>2, StartFacts
  <2>4. Players(server') = Players(server)
    BY <2>1, <2>3, PlayersStay
  <2>5. Tame(server, server')
    BY <2>1, <2>3, <2>4 DEF Tame
  <2>6. s \in Players(server') /\ s \in Slot
    BY <1>9, <2>4 DEF IsController, Players
  <2>7. server'.slot[s].active /\ ~server'.slot[s].drone
    BY <2>6 DEF Players, Connected
  <2>8. ServerInv(server, games')
    BY <1>2, <1>9 DEF ServerInv
  <2>9. ServerInv(server', games')
    <3>1. \A i \in 1 .. Len(server'.players) : server'.players[i] \in Players(server')
      BY <2>1, <2>3, <2>4
    <3>2. games' > 0
      BY <1>2, <1>9
    <3> QED BY <2>3, <2>5, <2>6, <2>7, <2>8, <3>1, <3>2, TameKeepsServer
  <2>10. \A b \in Client : ClientInv(b, server', client'[b], up[b], down[b])
    BY <1>7, <2>5, TameKeepsClient
  <2>11. IInv'
    BY <1>1, <1>2, <1>5, <2>9, <2>10 DEF IInv, Inv
  <2>12. ASSUME Agreed, PlayersFit' PROVE Agreed'
    <3>1. AgreeInv(server, client, games)
      BY <2>12 DEF Agreed
    <3>2. NumPlayers(sv) = Len(server'.players)
      <4>1. Len(sv.players) <= MaxPlayers
        BY <2>3, <2>12 DEF PlayersFit
      <4> QED BY <1>2, <2>3, <4>1, AssignedCount DEF sv
    <3>3. ASSUME NEW t \in Slot, server'.slot[t].start # NoStart
          PROVE  /\ server'.slot[t].start.game <= games'
                 /\ server'.slot[t].start.game = games' =>
                      Agrees(server', t, server'.slot[t].start)
      <4>1. CASE server'.slot[t].start = sv.slot[t].start
        <5>1. server'.slot[t].start = server.slot[t].start /\ server'.slot[t].start \in Started
          BY <2>1, <2>3, <3>3, <4>1 DEF ServerState, SlotState
        <5>2. server'.slot[t].start.game \in Nat /\ server'.slot[t].start.game <= games
          BY <3>1, <3>3, <5>1 DEF AgreeInv, Started
        <5> QED BY <1>2, <1>9, <5>2
      <4>2. CASE /\ server'.slot[t].start.num = NumPlayers(sv)
                 /\ server'.slot[t].start.number = PlayerNumber(sv, t)
                 /\ server'.slot[t].start.game = games + 1
        <5>1. PlayerNumber(sv, t) # 0 => /\ PlayerNumber(sv, t) \in 1 .. Len(sv.players)
                                         /\ sv.players[PlayerNumber(sv, t)] = t
          BY <2>1, NumberFacts
        <5> QED BY <1>2, <1>9, <2>3, <3>2, <4>2, <5>1 DEF Agrees
      <4> QED BY <2>3, <4>1, <4>2
    <3>4. ASSUME NEW b \in Client PROVE client'[b].game <= games' /\ client'[b].game # games'
      <4>1. client[b].game \in Nat /\ client[b].game <= games
        BY <1>2, <3>1 DEF AgreeInv, Program
      <4> QED BY <1>2, <1>6, <1>9, <4>1
    <3>5. AgreeInv(server', client', games')
      BY <3>3, <3>4 DEF AgreeInv
    <3> QED BY <3>5 DEF Agreed
  <2> QED BY <2>11, <2>12
<1> QED BY <1>1, <1>8, <1>9

---------------------------------------------------------------------------
(* The theorems.                                                           *)

LEMMA InitInv == Init => IInv /\ Agreed
<1> SUFFICES ASSUME Init PROVE IInv /\ Agreed
  OBVIOUS
<1>1. /\ server = [state |-> "WAITING_START", slot |-> [s \in Slot |-> Free], players |-> << >>]
      /\ client = [c \in Client |-> Off] /\ up = [c \in Client |-> {}]
      /\ down = [c \in Client |-> {}] /\ games = 0
  BY DEF Init
<1>2. Off \in Program /\ Off.phase = "off" /\ Off.connects = 0 /\ Off.game = 0
  BY DEF Off, Program
<1>3. Types
  BY <1>1, <1>2 DEF Types
<1>4. server \in ServerState
  BY <1>1, FreeFacts DEF ServerState
<1>5. ServerInv(server, games)
  BY <1>1, <1>4, FreeFacts DEF ServerInv
<1>6. \A c : SlotsOf(server, c) = {}
  BY <1>1, FreeFacts DEF SlotsOf
<1>7. ASSUME NEW c \in Client PROVE ClientInv(c, server, client[c], up[c], down[c])
  <2>1. client[c] = Off /\ up[c] = {} /\ down[c] = {} /\ Told(down[c]) = {}
    BY <1>1 DEF Told
  <2>2. HandshakeInv(c, server, Off, {}, {}) /\ WaitingInv(c, server, Off, {})
    BY <1>2, <1>6, <2>1 DEF HandshakeInv, WaitingInv
  <2> QED BY <2>1, <2>2 DEF ClientInv
<1>8. IInv
  BY <1>1, <1>3, <1>5, <1>7 DEF IInv, Inv
<1>9. Agreed
  BY <1>1, <1>2, FreeFacts DEF Agreed, AgreeInv
<1> QED BY <1>8, <1>9

LEMMA NextInv == IInv /\ [Next]_vars => IInv' /\ (Agreed /\ PlayersFit' => Agreed')
<1> SUFFICES ASSUME IInv, [Next]_vars PROVE IInv' /\ (Agreed /\ PlayersFit' => Agreed')
  OBVIOUS
<1>1. CASE UNCHANGED vars
  BY <1>1 DEF vars, IInv, Types, Agreed
<1>2. CASE Lose
  BY <1>2, LoseStep DEF StepKeeps
<1>3. ASSUME NEW expired \in SUBSET Slot, NEW late \in BOOLEAN, ServerRun(expired, late)
      PROVE  StepKeeps
  BY <1>3, RunStep
<1>4. ASSUME NEW c \in Client, ServerReceive(c) PROVE StepKeeps
  BY <1>4, ServerReceiveStep
<1>5. ASSUME NEW c \in Client, ServerGameStart(c)
      PROVE  IInv' /\ (Agreed /\ PlayersFit' => Agreed')
  BY <1>5, ServerStartStep
<1>6. ASSUME NEW c \in Client, ClientConnect(c) PROVE StepKeeps
  BY <1>6, ConnectStep
<1>7. ASSUME NEW c \in Client, SendSYN(c) PROVE StepKeeps
  BY <1>7, SendSYNStep
<1>8. ASSUME NEW c \in Client, ConnectLoop(c) PROVE StepKeeps
  BY <1>8, ConnectLoopStep
<1>9. ASSUME NEW c \in Client, ClientReceive(c) PROVE StepKeeps
  BY <1>9, ReceiveStep
<1>10. ASSUME NEW c \in Client, ClientGameStart(c) PROVE StepKeeps
  BY <1>10, GameStartStep
<1>11. ASSUME NEW c \in Client, NetWait(c) PROVE StepKeeps
  BY <1>11, NetWaitStep
<1>12. ASSUME NEW c \in Client, StartGame(c) PROVE StepKeeps
  BY <1>12, StartGameStep
<1>13. ASSUME NEW c \in Client, Quit(c) PROVE StepKeeps
  BY <1>13, QuitStep
<1> QED BY <1>1, <1>2, <1>3, <1>4, <1>5, <1>6, <1>7, <1>8, <1>9, <1>10, <1>11, <1>12, <1>13
        DEF Next, StepKeeps

\* In every reachable state the server's slots are told apart by their clients, a game has
\* a player, a SYN and its ACK are not under way together, and nobody is told of no
\* players who waits as one.
THEOREM LobbyInvariant == Spec => []IInv
<1>1. Init => IInv
  BY InitInv
<1>2. IInv /\ [Next]_vars => IInv'
  BY NextInv
<1> QED BY <1>1, <1>2, PTL DEF Spec

\* The game ends with its last player, in whatever order slots are freed and however a
\* connection ends (NET_SV_RunClient, NET_SV_GameEnded).
THEOREM GameEndsInv == Spec => []GameEnds
<1>1. IInv => GameEnds
  <2> SUFFICES ASSUME IInv, server.state # "WAITING_START"
               PROVE  \E s \in Slot : server.slot[s].active /\ ~server.slot[s].drone
    BY DEF GameEnds
  <2>1. ServerInv(server, games) /\ server \in ServerState
    BY DEF IInv, Inv, ServerInv
  <2>2. server.state = "IN_GAME"
    BY <2>1 DEF ServerState
  <2> QED BY <2>1, <2>2 DEF ServerInv
<1> QED BY <1>1, LobbyInvariant, PTL

\* What NET_SV_NumPlayers counts are players, although they are numbered only now and
\* then, and D_NetWait never has the name of player -1 to show (net_client.cc).
THEOREM PlayersShownInv == Spec => []PlayersShown
<1>1. IInv => PlayersShown
  <2> SUFFICES ASSUME IInv PROVE PlayersCounted /\ NameShown
    BY DEF PlayersShown
  <2>1. PlayersCounted
    <3>1. ServerInv(server, games) /\ server.players \in Seq(Slot)
      BY DEF IInv, Inv, ServerInv, ServerState
    <3>2. DOMAIN server.players = 1 .. Len(server.players)
      BY <3>1
    <3> QED BY <3>1, <3>2 DEF PlayersCounted, ServerInv
  <2>2. NameShown
    BY ClientFacts DEF NameShown, ClientInv, WaitingInv
  <2> QED BY <2>1, <2>2
<1> QED BY <1>1, LobbyInvariant, PTL

\* Everybody in a game has the number of players that the server has, and the number that
\* the server has it by, as long as sv_players has room for all it numbers (PlayersFit).
THEOREM NumbersAgreeInv == Spec /\ []PlayersFit => []NumbersAgree
<1>1. Init => IInv /\ Agreed
  BY InitInv
<1>2. IInv /\ Agreed /\ PlayersFit' /\ [Next]_vars => IInv' /\ Agreed'
  BY NextInv
<1>3. IInv /\ Agreed => NumbersAgree
  <2> SUFFICES ASSUME IInv, Agreed, NEW c \in Client, client[c].game = games,
                      server.state = "IN_GAME"
               PROVE  /\ client[c].num = Len(server.players)
                      /\ c \notin Drone =>
                           \A s \in SlotsOf(server, c) : server.players[client[c].number] = s
    BY DEF NumbersAgree
  <2> QED BY DEF Agreed, AgreeInv, Agrees
<1> QED BY <1>1, <1>2, <1>3, PTL DEF Spec
===============================================================================
