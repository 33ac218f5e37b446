-------------------------------- MODULE NetTics --------------------------------
(***************************************************************************)
(* The lockstep of a network game: every player builds a command for every *)
(* tic and sends it to the server (NET_CL_SendTiccmd); the server collects *)
(* them in its receive window, makes a full command of them for each       *)
(* client (NET_SV_PumpSendQueue) and the client runs a tic once it has the *)
(* commands of all players for it (GetLowTic, D_MiniLoop).  Both sides ask *)
(* for what they miss, and the server guards against deadlock.             *)
(*                                                                         *)
(* A command is known by the tic its player built it for.  Receive windows *)
(* are functions on tics: an array that is moved down by one and cleared   *)
(* at its end is one whose first tic has left it.  Of the tic numbers in   *)
(* game data only the low byte is sent, and the receiver expands it; those *)
(* in resend requests are sent whole.  The model keeps the whole number in *)
(* the datagram and takes its low byte where it is read: a datagram is not *)
(* delayed so long that the byte stands for another tic.  ticdup is 1.     *)
(***************************************************************************)
EXTENDS NetTicNum, Ranking, SequencesExt, FiniteSetsExt

CONSTANTS
  NumPlayers, NumDrones,
  MaxPlayers,     \* MAXPLAYERS (4)
  BackupTics,     \* BACKUPTICS (128)
  ExtraTics,      \* sv_settings.extratics (1)
  MaxAhead,       \* the 40 of NET_SV_PumpSendQueue
  Lead,           \* the 8 of NetUpdate
  MaxTic,         \* bound on the tics that are built
  MaxWire,        \* bound on the datagrams under way to or from a client when a tic is sent
  MaxFaults,      \* bound on the datagrams lost, delivered twice or overtaken
  Lossy,          \* the directions ("up", "down") on which that happens
  Leavers         \* bound: the players whose program may end

ASSUME SizesAssumption ==
  /\ {NumPlayers, NumDrones, MaxPlayers, BackupTics, ExtraTics, MaxAhead, Lead,
      MaxTic, MaxWire, MaxFaults} \subseteq Nat
  /\ 0 < NumPlayers /\ NumPlayers <= MaxPlayers
  /\ Leavers \subseteq 0 .. NumPlayers - 1 /\ Cardinality(Leavers) < NumPlayers
  /\ Lossy \subseteq {"up", "down"}

\* The buffers hold what the limits on running ahead allow.
ASSUME BuffersAssumption ==
  /\ ExtraTics < BackupTics
  /\ MaxAhead + 1 <= BackupTics
  /\ 2 * Lead + 2 <= BackupTics

Player == 0 .. NumPlayers - 1
Drone == NumPlayers .. NumPlayers + NumDrones - 1
Client == Player \cup Drone
Tic == 0 .. MaxTic - 1

VARIABLES
  start,      \* server: recvwindow_start
  recv,       \* server: recv[p], the commands of p in recvwindow
  asked,      \* server: asked[p], the tics of p in the window with a resend_time
  sv,         \* server: sv[c], what it keeps for client c
  cl,         \* cl[c]: the client and the game loop of c
  wire,       \* wire[d][c]: datagrams under way from ("up") or to ("down") client c
  faults      \* history: datagrams lost, delivered twice or overtaken

vars == <<start, recv, asked, sv, cl, wire, faults>>

\* A full command is a function on the players that are in it.
NoCmd == [seq |-> -1, cmds |-> << >>]

Init ==
  /\ start = 0
  /\ recv = [p \in Player |-> << >>]
  /\ asked = [p \in Player |-> {}]
  /\ sv = [c \in Client |->
            [online |-> TRUE, sendseq |-> 0, acknowledged |-> 0,
             sendqueue |-> [i \in 0 .. BackupTics - 1 |-> NoCmd]]]
  /\ cl = [c \in Client |->
            [playing |-> TRUE, gametic |-> 0, maketic |-> 0, start |-> 0,
             window |-> << >>, asked |-> {}, playeringame |-> Player,
             netcmds |-> [p \in Player |-> << >>], owes |-> FALSE, ran |-> << >>]]
  /\ wire = [d \in {"up", "down"} |-> [c \in Client |-> << >>]]
  /\ faults = 0

\* The place of tic t in a ring of BACKUPTICS.
Slot(t) == t % BackupTics

IsCmd(cmds) == /\ DOMAIN cmds \subseteq Player
               /\ \A p \in DOMAIN cmds : cmds[p] \in Tic

TypeOK ==
  /\ start \in 0 .. MaxTic
  /\ \A p \in Player : /\ DOMAIN recv[p] \cup asked[p] \subseteq start .. start + BackupTics - 1
                       /\ \A t \in DOMAIN recv[p] : recv[p][t] \in Tic
  /\ \A c \in Client :
       /\ sv[c].sendseq \in 0 .. MaxTic + MaxAhead + 1 /\ sv[c].acknowledged \in 0 .. MaxTic
       /\ \A i \in 0 .. BackupTics - 1 :
            /\ IsCmd(sv[c].sendqueue[i].cmds)
            /\ sv[c].sendqueue[i].seq \in {-1} \cup {t \in 0 .. MaxTic + MaxAhead : Slot(t) = i}
       /\ cl[c].gametic \in 0 .. MaxTic /\ cl[c].maketic \in 0 .. MaxTic
       /\ DOMAIN cl[c].window \cup cl[c].asked
            \subseteq cl[c].start .. cl[c].start + BackupTics - 1
       /\ \A t \in DOMAIN cl[c].window : IsCmd(cl[c].window[t])
       /\ cl[c].playeringame \subseteq Player
       /\ Len(cl[c].ran) = cl[c].gametic
  /\ faults \in 0 .. MaxFaults

-----------------------------------------------------------------------------
(* Datagrams *)

GameData(c, s, tics) ==
  [kind |-> "GAMEDATA", ack |-> cl[c].gametic, seq |-> s, tics |-> tics]
GameDataACK(c) == [kind |-> "GAMEDATA_ACK", ack |-> cl[c].gametic]
FullTics(s, cmds) == [kind |-> "GAMEDATA", seq |-> s, cmds |-> cmds]
Resend(first, last) == [kind |-> "RESEND", start |-> first, num |-> last - first + 1]

\* Tic t is so near to the window that starts at first that its byte is enough:
\* the limit on the time for which the network holds a datagram back.
InReach(first, t) == first - t <= Reach /\ t - first <= Reach

\* A datagram of direction d of client c arrives, and answers leave.  It may
\* overtake others, and it may arrive once more.
Arrives(d, c, i, answers) ==
  LET other == IF d = "up" THEN "down" ELSE "up" IN
  \E again \in BOOLEAN :
    /\ faults' = faults + (IF again THEN 1 ELSE 0) + (IF i > 1 THEN 1 ELSE 0)
    /\ faults' <= (IF d \in Lossy THEN MaxFaults ELSE faults)
    /\ wire' = [wire EXCEPT ![d][c] = IF again THEN @ ELSE RemoveAt(@, i),
                            ![other][c] = IF cl[c].playing THEN @ \o answers ELSE @]

\* A datagram is lost.
Lose ==
  \E d \in Lossy, c \in Client :
    /\ wire[d][c] # << >>
    /\ faults < MaxFaults
    /\ wire' = [wire EXCEPT ![d][c] = Tail(@)]
    /\ faults' = faults + 1
    /\ UNCHANGED <<start, recv, asked, sv, cl>>

\* Nothing is under way to or from client c: the time-outs of 300 ms and 1 s
\* are longer than any datagram takes.
Quiet(c) == wire["up"][c] = << >> /\ wire["down"][c] = << >>

-----------------------------------------------------------------------------
(* What both sides do about tics they miss. *)

Window(first) == first .. first + BackupTics - 1

\* Of n tics from seq on, those that a window has room for.
InWindow(first, seq, n) == (seq .. seq + n - 1) \cap Window(first)

\* A window with the commands for tic seq and on put in.
Stored(window, first, seq, cmds) ==
  LET got == InWindow(first, seq, Len(cmds))
  IN  [t \in got \cup DOMAIN window |-> IF t \in got THEN cmds[t - seq + 1] ELSE window[t]]

\* The first tic that is not in a window.
FirstMissing(first, received) ==
  CHOOSE t \in first .. first + BackupTics :
    t \notin received /\ first .. t - 1 \subseteq received

\* The tics just before seq that have neither been received nor asked for.
Missed(first, seq, received, requested) ==
  LET end == IF seq >= first + BackupTics THEN first + BackupTics - 1 ELSE seq
  IN  {t \in first .. end - 1 : (t .. end - 1) \cap (received \cup requested) = {}}

\* The last tic of the run in tics that begins with first.
RunEnd(first, tics) ==
  CHOOSE last \in tics :
    first =< last /\ first .. last \subseteq tics /\ last + 1 \notin tics

\* The requests for a set of tics, one for each run of them.
Requests(tics) ==
  LET firsts == Ascending({t \in tics : t - 1 \notin tics})
  IN  [i \in DOMAIN firsts |-> Resend(firsts[i], RunEnd(firsts[i], tics))]

-----------------------------------------------------------------------------
(* The server *)

ServerGameData(c, i) ==
  LET m == wire["up"][c][i]
      ack == ExpandTicNum(start, LowByte(m.ack))
      seq == ExpandTicNum(start, LowByte(m.seq))
  IN
  \E received \in {Stored(recv[c], start, seq, m.tics)} :
  \E missed \in {Missed(start, seq, DOMAIN received, asked[c])} :
  /\ InReach(start, m.ack) /\ InReach(start, m.seq)
  /\ UNCHANGED <<start, cl>>
  /\ recv' = [recv EXCEPT ![c] = received]
  /\ asked' = [asked EXCEPT ![c] = @ \cup missed]
  /\ sv' = [sv EXCEPT ![c].acknowledged = IF ack > @ THEN ack ELSE @]
  /\ Arrives("up", c, i, Requests(missed))

ServerGameDataACK(c, i) ==
  LET m == wire["up"][c][i]
      ack == ExpandTicNum(start, LowByte(m.ack))
  IN
  /\ InReach(start, m.ack)
  /\ UNCHANGED <<start, recv, asked, cl>>
  /\ sv' = [sv EXCEPT ![c].acknowledged = IF ack > @ THEN ack ELSE @]
  /\ Arrives("up", c, i, << >>)

\* NET_SV_SendTics with the given send queue.
SendTics(queue, first, last) ==
  FullTics(first, [i \in 1 .. last - first + 1 |-> queue[Slot(first + i - 1)].cmds])

\* NET_SV_ParseResendRequest: all the tics or none.
ServerResend(c, i) ==
  LET m == wire["up"][c][i]
      last == m.start + m.num - 1
      queue == sv[c].sendqueue
  IN
  /\ UNCHANGED <<start, recv, asked, sv, cl>>
  /\ Arrives("up", c, i, IF \A t \in m.start .. last : queue[Slot(t)].seq = t
                         THEN <<SendTics(queue, m.start, last)>> ELSE << >>)

\* NET_SV_Packet
ServerReceive(c) ==
  \E i \in DOMAIN wire["up"][c] :
    CASE wire["up"][c][i].kind = "GAMEDATA" -> ServerGameData(c, i)
      [] wire["up"][c][i].kind = "GAMEDATA_ACK" -> ServerGameDataACK(c, i)
      [] wire["up"][c][i].kind = "RESEND" -> ServerResend(c, i)

Online == {c \in Client : sv[c].online}

LatestAcknowledged_PlayersOnly == Min({sv[c].acknowledged : c \in Online \cap Player})

LatestAcknowledged == Min({sv[c].acknowledged : c \in Online})

PumpReady_NoWait(c) ==
  LET t == sv[c].sendseq IN
  t - LatestAcknowledged \in 0 .. MaxAhead /\ t \in Window(start)

PumpReady_WaitsForAll(c) ==
  LET t == sv[c].sendseq IN
  /\ t - LatestAcknowledged \in 0 .. MaxAhead
  /\ t \in Window(start)
  /\ \A p \in Player \ {c} : t \in DOMAIN recv[p]

\* The early returns of NET_SV_PumpSendQueue.  The subtraction is unsigned.
PumpReady(c) ==
  LET t == sv[c].sendseq IN
  /\ t - LatestAcknowledged \in 0 .. MaxAhead
  /\ t \in Window(start)
  /\ \A p \in (Player \cap Online) \ {c} : t \in DOMAIN recv[p]

\* The command for client c: of everyone else whose command is there.
PumpCmd(c) ==
  LET t == sv[c].sendseq IN
  [p \in {q \in Player \ {c} : t \in DOMAIN recv[q]} |-> recv[p][t]]

Pumped(c) ==
  LET t == sv[c].sendseq IN
  [sv[c] EXCEPT !.sendqueue[Slot(t)] = [seq |-> t, cmds |-> PumpCmd(c)],
                !.sendseq = t + 1]

PumpSends(c) ==
  LET t == sv[c].sendseq
  IN  SendTics(Pumped(c).sendqueue, IF t < ExtraTics THEN 0 ELSE t - ExtraTics, t)

\* recvwindow[player][i] in NET_SV_CheckDeadlock: the array is indexed by tic
\* first, so as i grows the search runs on through the players of a tic, and
\* from tic to tic.
DeadlockSlot(p, i) == [tic |-> start + p + i \div MaxPlayers, player |-> i % MaxPlayers]

SlotActive(s) == s.player \in Player /\ s.tic \in DOMAIN recv[s.player]

CheckDeadlock_Never(p) == {}

\* NET_SV_CheckDeadlock, of a player that has sent no game data for a second:
\* the tics it asks for.
CheckDeadlock(p) ==
  LET free == {i \in 0 .. BackupTics - 1 : ~SlotActive(DeadlockSlot(p, i))}
  IN  IF free = {} THEN {} ELSE start + Min(free) .. start + Min(free) + 5

\* NET_SV_AdvanceWindow: as far as everyone has acknowledged and everyone's
\* commands are there.
AdvanceTo(s) ==
  Max({t \in s .. (IF LatestAcknowledged > s THEN LatestAcknowledged ELSE s) :
         \A p \in Player \cap Online : s .. t - 1 \subseteq DOMAIN recv[p]})

\* What client c is sent: the next command, and requests for tics.
ServerSends(c, pumped, lost, again) ==
  (IF c \in pumped THEN <<PumpSends(c)>> ELSE << >>)
    \o (IF c \in Player THEN Requests(lost[c]) \o Requests(again[c]) ELSE << >>)

\* The players that are quiet when the time-outs have passed (late).
Expired(late) == {p \in Player \cap Online : late /\ Quiet(p)}

\* The tics that NET_SV_CheckDeadlock asks each player for.
Lost(late) == [p \in Player |-> IF p \in Expired(late) THEN CheckDeadlock(p) ELSE {}]

\* NET_SV_CheckResends: those that are asked for again, in the window from s on.
Again(late, s) ==
  [p \in Player |-> IF p \in Expired(late)
                    THEN (asked[p] \cap Window(s)) \ (DOMAIN recv[p] \cup Lost(late)[p]) ELSE {}]

\* NET_SV_Run after the packets were read.
ServerRun(late) ==
  \E s \in {AdvanceTo(start)}, pumped \in {{c \in Online : PumpReady(c)}},
     lost \in {Lost(late)} :
  \E again \in {Again(late, s)} :
  /\ UNCHANGED <<cl, faults>>
  /\ start' = s
  /\ recv' = [p \in Player |-> [t \in DOMAIN recv[p] \cap Window(s) |-> recv[p][t]]]
  /\ asked' = [p \in Player |-> (asked[p] \cup (lost[p] \cap Window(start))) \cap Window(s)]
  /\ sv' = [c \in Client |-> IF c \in pumped THEN Pumped(c) ELSE sv[c]]
  /\ wire' = [wire EXCEPT !["down"] =
                [c \in Client |-> IF cl[c].playing
                                  THEN @[c] \o ServerSends(c, pumped, lost, again) ELSE << >>]]
  /\ \A c \in pumped : Len(wire["down"][c]) < MaxWire

-----------------------------------------------------------------------------
(* The client *)

\* nettics[p] in client c, whose state is k.
NetTic(c, k, p) == IF p = c THEN k.maketic ELSE Len(k.netcmds[p])

\* GetLowTic
LowTic(c, k) == Min({NetTic(c, k, p) : p \in k.playeringame})

\* D_MiniLoop: a tic is run as soon as the commands of all players in the
\* game are there.
RunTic(c, k) ==
  LET g == k.gametic IN
  IF k.playeringame = {} \/ g >= LowTic(c, k) THEN k
  ELSE [k EXCEPT !.gametic = g + 1,
                 !.ran = Append(@, [p \in k.playeringame |->
                                      IF p = c THEN g ELSE k.netcmds[p][g + 1]])]

\* send_queue[t % BACKUPTICS] of client c still holds tic t.
InSendQueue(c, t) == t < cl[c].maketic /\ t + BackupTics >= cl[c].maketic

ClientGameData(c, i) ==
  LET m == wire["down"][c][i]
      k == cl[c]
      seq == ExpandTicNum(k.start, LowByte(m.seq))
  IN
  \E received \in {Stored(k.window, k.start, seq, m.cmds)} :
  \E missed \in {Missed(k.start, seq, DOMAIN received, k.asked)} :
  /\ InReach(k.start, m.seq)
  /\ UNCHANGED <<start, recv, asked, sv>>
  /\ cl' = [cl EXCEPT ![c] = [k EXCEPT !.window = received, !.asked = @ \cup missed,
                                       !.owes = TRUE]]
  /\ Arrives("down", c, i, Requests(missed))

\* NET_CL_ParseResendRequest: of the tics asked for, those still in send_queue.
ClientResend(c, i) ==
  LET m == wire["down"][c][i]
      tics == {t \in m.start .. m.start + m.num - 1 : InSendQueue(c, t)}
      sends == c \in Player /\ tics # {}
  IN
  /\ UNCHANGED <<start, recv, asked, sv>>
  /\ Arrives("down", c, i,
             IF sends
             THEN <<GameData(c, Min(tics), [j \in 1 .. Cardinality(tics) |-> Min(tics) + j - 1])>>
             ELSE << >>)
  /\ cl' = IF sends THEN [cl EXCEPT ![c].owes = FALSE] ELSE cl

ClientReceive(c) ==
  \E i \in DOMAIN wire["down"][c] :
    /\ cl[c].playing
    /\ IF wire["down"][c][i].kind = "RESEND" THEN ClientResend(c, i) ELSE ClientGameData(c, i)

\* NET_CL_AdvanceWindow with NET_CL_ExpandFullTiccmd: what is complete at the
\* front of the window goes to netcmds, and playeringame follows at once.
AdvanceWindow(c, k) ==
  LET end == FirstMissing(k.start, DOMAIN k.window)
      of(p) == Ascending({t \in k.start .. end - 1 : p \in DOMAIN k.window[t]})
      cmds(p) == [i \in DOMAIN of(p) |-> k.window[of(p)[i]][p]]
  IN
  [k EXCEPT !.start = end,
            !.window = [t \in DOMAIN @ \ (k.start .. end - 1) |-> @[t]],
            !.asked = @ \ (k.start .. end - 1),
            !.playeringame = IF end = k.start THEN @
                             ELSE ({c} \cap Player) \cup DOMAIN k.window[end - 1],
            !.netcmds = [p \in Player |-> IF p = c THEN @[p] ELSE @[p] \o cmds(p)]]

MayMakeTic_NoLimit(c) == c \in Player

\* The limit of NetUpdate on building tics ahead of the game.
MayMakeTic(c) == c \in Player /\ cl[c].maketic - cl[c].gametic <= Lead

\* NET_CL_SendTiccmd: the next tic, and with it those before it.
SendTiccmd(c, k) ==
  LET first == IF k.maketic < ExtraTics THEN 0 ELSE k.maketic - ExtraTics
  IN  GameData(c, first, [i \in 1 .. k.maketic - first + 1 |-> first + i - 1])

\* NET_CL_CheckResends when its time-outs have passed.
CheckResends(c, k) ==
  Requests(k.asked \ DOMAIN k.window) \o (IF k.owes THEN <<GameDataACK(c)>> ELSE << >>)

\* The client when the resends have been checked (late), and a new tic was sent.
Updated(k, late, newtic) ==
  [k EXCEPT !.owes = @ /\ ~late /\ ~newtic, !.maketic = IF newtic THEN @ + 1 ELSE @]

\* Once round D_MiniLoop after the packets were read: NET_CL_AdvanceWindow,
\* NET_CL_CheckResends (late: its time-outs have passed), a new tic if the
\* clock of NetUpdate has it, and a tic of the game if there is one to run.
MiniLoop(c, late, newtic) ==
  \E k \in {AdvanceWindow(c, cl[c])} :
  /\ UNCHANGED <<start, recv, asked, sv, faults>>
  /\ cl[c].playing
  /\ late => Quiet(c)
  /\ newtic => MayMakeTic(c) /\ k.maketic < MaxTic /\ Len(wire["up"][c]) < MaxWire
  /\ cl' = [cl EXCEPT ![c] = RunTic(c, Updated(k, late, newtic))]
  /\ wire' = [wire EXCEPT !["up"][c] =
                @ \o (IF late THEN CheckResends(c, k) ELSE << >>)
                  \o (IF newtic THEN <<SendTiccmd(c, k)>> ELSE << >>)]

\* I_Quit of a player: the program ends and tells nobody.  What is sent to it
\* from now on is lost.
Quit(c) ==
  /\ c \in Leavers /\ cl[c].playing
  /\ cl' = [cl EXCEPT ![c].playing = FALSE]
  /\ wire' = [wire EXCEPT !["down"][c] = << >>]
  /\ UNCHANGED <<start, recv, asked, sv, faults>>

\* Client c has come to rest: nothing is under way, it has run what it has,
\* acknowledged it, and built the tics that it may.
AtRest(c) ==
  /\ Quiet(c)
  /\ cl[c].playing => /\ AdvanceWindow(c, cl[c]) = cl[c] /\ RunTic(c, cl[c]) = cl[c]
                      /\ ~cl[c].owes
                      /\ cl[c].maketic < MaxTic => ~MayMakeTic(c)

\* NET_SV_RunClient of a player that has been silent for CONNECTION_TIMEOUT_LEN.
\* Those 10 s are longer than all that the others have to do.
DropSilent(p) ==
  /\ sv[p].online /\ ~cl[p].playing
  /\ \A c \in Client : AtRest(c) /\ ~(sv[c].online /\ PumpReady(c))
  /\ sv' = [sv EXCEPT ![p].online = FALSE]
  /\ UNCHANGED <<start, recv, asked, cl, wire, faults>>

Next ==
  \/ Lose
  \/ \E late \in BOOLEAN : ServerRun(late)
  \/ \E c \in Client :
       \/ ServerReceive(c)
       \/ ClientReceive(c)
       \/ \E late, newtic \in BOOLEAN : MiniLoop(c, late, newtic)
       \/ Quit(c)
       \/ c \in Player /\ DropSilent(c)

Spec == Init /\ [][Next]_vars

\* The programs go round their loops, the clock calls for new tics, time-outs
\* pass, and a datagram that is not lost arrives.  The loops need strong
\* fairness because the model lets a time-out pass only while nothing is under
\* way; in the program it passes with time.  Nobody has to quit.
Fairness ==
  /\ \A p \in Player : SF_vars(Quiet(p) /\ ServerRun(TRUE)) /\ SF_vars(DropSilent(p))
  /\ \A c \in Client :
       /\ WF_vars(ServerReceive(c) \/ ClientReceive(c))
       /\ SF_vars(MiniLoop(c, TRUE, MayMakeTic(c) /\ cl[c].maketic < MaxTic))

FairSpec == Spec /\ Fairness

-----------------------------------------------------------------------------
(* Properties *)

\* Every client runs every tic with every player's command for that tic: what
\* the "consistency failure" of G_Ticker is there to detect.
SameTics ==
  \A c \in Client : \A g \in 1 .. cl[c].gametic : cl[c].ran[g] = [p \in Player |-> g - 1]

\* What is asked for and still needed is still there: the tic a client asks
\* for is in its send queue at the server, or NET_SV_ParseResendRequest ignores
\* the request and the client waits for ever.
RequestsHonoured ==
  \A c \in Client : \A i \in DOMAIN wire["up"][c] :
    LET m == wire["up"][c][i] IN
    m.kind = "RESEND" /\ m.start >= cl[c].start /\ m.start >= cl[c].gametic =>
      \A t \in m.start .. m.start + m.num - 1 : sv[c].sendqueue[Slot(t)].seq = t

\* The next tic that the server needs from a player is still in the player's
\* send queue, however far the player has run ahead.
NextTicKept ==
  \A p \in Online \cap Player :
    LET next == FirstMissing(start, DOMAIN recv[p])
    IN  next < cl[p].maketic => InSendQueue(p, next)

\* The server believes of a client only what the client has run, and keeps in
\* its window what it has yet to send.
WindowInStep ==
  \A c \in Online : /\ sv[c].acknowledged <= cl[c].gametic
                    /\ start <= sv[c].sendseq

\* Neither ring forgets a tic that somebody still has to be sent.
RingsKeep == NextTicKept /\ WindowInStep

\* netcmds is a ring of BACKUPTICS commands: no command is written over one
\* that has not been run.
NoOverrun ==
  \A c \in Client : \A p \in Player : NetTic(c, cl[c], p) - cl[c].gametic <= BackupTics

\* The byte that stands for a tic is enough where it is read, if the datagram
\* is not held back: the tics that are acknowledged and sent next, from either
\* side, are near the window of the other side when they are sent.
BytesSuffice ==
  \A c \in Client :
    /\ InReach(start, GameDataACK(c).ack)
    /\ MayMakeTic(c) => InReach(start, SendTiccmd(c, cl[c]).seq)
    /\ InReach(cl[c].start, PumpSends(c).seq)

\* The tics in the server's send queue that NET_SV_SendTics is going to send
\* again with the next one are in their places, and stay there: its I_Error is out of reach.
ExtraTicsKept ==
  \A c \in Client :
    LET t == sv[c].sendseq IN
    \A u \in (IF t < ExtraTics THEN 0 ELSE t - ExtraTics) .. t - 1 :
      sv[c].sendqueue[Slot(u)].seq = u /\ Slot(u) # Slot(t)

\* The server can send again what it was asked for, and what it sends anyway.
SendQueueKept == RequestsHonoured /\ ExtraTicsKept

\* With time-outs and requests on both sides the game goes on, as far as tics
\* are built, for everyone who does not quit.
Progress == \A c \in Client : <>(cl[c].gametic >= MaxTic - 1 \/ ~cl[c].playing)

-----------------------------------------------------------------------------
(* What the code and its comments claim and the code does not do *)

\* G_Ticker stops the game when two clients have run a tic with different
\* commands, "consistency failure" (g_game.cc:1080): those that stay in the
\* game run every tic with the same players and the same commands.
SameGame ==
  \A c, d \in {e \in Client : cl[e].playing} : \A g \in 1 .. cl[c].gametic :
    g <= cl[d].gametic => cl[c].ran[g] = cl[d].ran[g]

\* A player who has been silent for a second is asked for "the next tic we're
\* expecting", as the comment on NET_SV_CheckDeadlock says (it asks for six).
DeadlockAsksNext ==
  [][\A p \in Player : \A i \in DOMAIN wire'["down"][p] :
       LET m == wire'["down"][p][i] IN
       i > Len(wire["down"][p]) /\ m.kind = "RESEND" /\ m.num = 6 =>
         FirstMissing(start, DOMAIN recv[p]) \in m.start .. m.start + 5]_vars
================================================================================
