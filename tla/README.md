# A verification development for Doom64EX

Doom64EX is a source port of Doom 64.  This directory holds TLA+ models of the
parts of the engine (`src/src/engine/`) whose correctness depends on the order
of events, on sharing, or on long sequences of legal calls; the TLC
configurations that check them on small instances; and TLAPS proofs of the
results that should hold for every size.  Paths below are relative to
`src/src/engine/`.  `PROJECT.json` maps every definition that models code to the
lines it stands for, and lists the runs, the hazards of the code and the
properties that watch them.

Contents: 1 the system and its parts, 2 how the parts interact, 3 the models,
4 the runs and what they show, 5 the proofs, 6 where the code and its comments
disagree, 7 what is not modelled, 8 the plan.

## 1. The system and its parts

The program is one loop (`doom_main/d_main.cc` `D_MiniLoop`, entered for every
level, menu and intermission).  It builds input tics, exchanges them with the
other players, runs the game once for every tic that everybody has sent, and
draws.  A network game is lockstep: every machine runs the same deterministic
simulation on the same commands, so agreement on the tics is what everything
else rests on.  Only the MIDI sequencer (`system/i_audio.cc`) has a thread of
its own; everything else that can happen "at the same time" is messages between
programs, and lists that change under a loop that walks them.

| part | state it keeps | operations | what makes it hard | what makes it correct |
| --- | --- | --- | --- | --- |
| reliable packets, `net/net_common.cc` | list of unacknowledged packets, 8-bit sequence numbers | `NET_Conn_NewReliable`, `NET_Conn_ReliablePacket`, `NET_Conn_ParseReliableACK`, resend in `NET_Conn_Run` | loss, duplication, reordering, wrap-round of the numbers | in order, once, and in the end all of them |
| connections, `net/net_common.cc`, `net_client.cc`, `net_server.cc` | `state`, `num_retries`, three timers, `disconnect_reason` at each end; the client's loops; the server's slot | `NET_Conn_Packet`, `NET_Conn_Run`, `NET_Conn_Disconnect`, `NET_CL_Connect`, `NET_CL_Disconnect`, `NET_SV_RunClient` | time-outs against late answers; requests that cross; programs that end without a word | no half-open connection for ever; the right end is blamed |
| tic numbers, `net/net_common.cc` | none | `NET_ExpandTicNum` | numbers cut down to a byte | exact near the window |
| tic exchange, `net_client.cc`, `net_server.cc`, `d_net.cc` | receive windows, send queues, `acknowledged`, `netcmds`, `maketic`, `gametic` | `NetUpdate`, `NET_CL_ParseGameData`, `NET_SV_ParseGameData`, resend requests, `NET_SV_PumpSendQueue`, `NET_SV_CheckDeadlock` | rings, gaps, requests, a player who leaves | everyone runs the same tics, and the game goes on |
| lobby, `net_server.cc`, `net_client.cc`, `d_net.cc` | `clients[]`, `sv_players[]`, `server_state`; `client_state`, `net_clients_in_game` | SYN, ACK, waiting data, GAMESTART, `NET_SV_GameEnded`, `D_NetWait` | handshakes that overlap, slots given to others | clients and server agree on who plays |
| mobjs, `playloop/p_mobj.cc`, `p_tick.cc` | the list of mobjs and its cursor, `refcount`, `mobjfunc`, fade thinkers | `P_SpawnMobj`, `P_RemoveMobj`, `P_SafeRemoveMobj`, `P_SetTarget`, `P_RunMobjs` | the list changes under its cursor; addresses are used again | nothing dangles, everybody has one turn |
| monsters, damage, pick-ups, `p_enemy.cc`, `p_inter.cc` | targets, health, flags | action functions, `P_DamageMobj`, `P_TouchSpecialThing` | pain in the middle of a removal | with mobjs |
| macros, `p_macros.cc` | the active macro, its next batch, the thinker it waits for, a queue of tags | `P_StartMacro`, `P_RunMacros`, `P_SuspendMacro`, `P_QueueSpecial` | a batch waits for one thinker that may be reused or removed | a macro ends, and runs each batch once |
| sector movers, `p_doors.cc`, `p_plats.cc`, `p_ceilng.cc`, `p_floor.cc`, `p_lights.cc` | thinkers, `sector->specialdata`, active plats and ceilings | `EV_Do*`, `T_*` | two movers on one sector, stasis, reversal | one mover per sector; a mover ends or is in stasis |
| specials and switches, `p_spec.cc`, `p_switch.cc`, `p_telept.cc` | line flags, buttons, camera | `P_UseSpecialLine`, `P_DoSpecialLine`, `P_ChangeSwitchTexture` | one-shot lines, retriggering | once means once |
| players and weapons, `p_user.cc`, `p_pspr.cc` | `psprites`, `pendingweapon`, ammunition | `P_PlayerThink`, `P_MovePsprites`, actions | chains of states in one tic | no shot without ammunition |
| saved games, demos, `p_saveg.cc`, `g_demo.cc` | files | archive, unarchive, record, play | pointers as indices | what is loaded is what was saved |
| game machine, `game/g_game.cc` | `gameaction`, `gamestate`, `bodyque` | `G_Ticker`, `G_DoReborn`, `G_RunGame` | actions that ask for actions | consistency of all players |
| bindings, `g_actions.cc`, `m_keys.cc` | tree of commands, lists of bindings | `G_ActionResponder`, `TryActions` | a list that is unbound while it runs | every key-up matches a key-down |
| zone memory, `zone/z_zone.cc` | blocks by tag, owners | `Z_Malloc`, `Z_Free`, `Z_ChangeTag`, `Z_ClearCache` | purging what is in use | an owner's pointer is NULL or valid |
| sound, `s_sound.cc`, `system/i_audio.cc` | channels, a thread, a semaphore | `S_StartSound`, `I_StartSound`, `Thread_PlayerHandler` | a real data race | a channel has one song |
| network modules, `net_io.cc`, `net_loop.cc`, `net_sdl.cc` | two rings of packets; a socket and a table of addresses | send, receive, resolve | a full ring drops silently | loss is all that can happen |
| menus, passwords, console, automap, intermission, finale, status bar, renderer, OpenGL, images, WAD reading, wadgen, system, dialogs | what they show | draw, read, ask | mostly I/O and geometry | see section 7 |

## 2. How the parts interact

* `D_MiniLoop` calls `NET_SV_Run`, `NET_CL_Run` and `NetUpdate`, then runs
  `G_Ticker` for every tic below `GetLowTic()`, which calls `P_Ticker`.
* Client and server talk in datagrams.  Both keep a `net_connection_t`, and
  everything that must arrive (the game start, console text) is a *reliable*
  packet on it.  Tics are not: they are repeated on request.
* `P_Ticker` runs players, thinkers (`P_RunThinkers`: fades, doors, lights,
  ...), mobjs (`P_RunMobjs`), macros and the status bar, in one thread.  They
  share the list of mobjs and hold pointers into it.  Only pointers set by
  `P_SetTarget` are counted.
* Line specials start movers (`sector->specialdata`) and macros; a macro waits
  for the thinker of the last mover it has started.
* The menu and the console change options (`p_damageindicator`,
  `sv_lockmonsters`) between tics.

## 3. The models

| module | models | state ↔ code | actions ↔ code |
| --- | --- | --- | --- |
| `NetFifo` | what reliable packets promise (abstract) | packets made, packets handed on | make one; hand on the next |
| `NetReliable` | one direction of them | `reliable_packets`, `reliable_send_seq`, `reliable_recv_seq`; the wire is two sets of copies | `NewReliable`, `SendFirst` (resend), `ReliablePacket` (answers every copy, accepts the expected one), `ParseReliableACK`, `LeaveConnected`, `Lose`; a copy may be delivered any number of times, up to `Lifetime` later deliveries after it was made |
| `NetConn` | a client, its slot, their `net_connection_t`s and the loops that hold up the program | `conn[e]`, `active`, `phase`; timers are ticks of a little more than a second | one action per caller: `ConnectLoop`, `PlayLoop`, `DisconnectLoop`, `ServerRun`, `ClientReceive`, `ServerReceive`, `ServerDisconnect`, `Quit`, `Tick` |
| `NetTicNum` | `NET_ExpandTicNum` | none | an operator |
| `NetTics` (extends `NetTicNum`) | the lockstep: server, clients, `NetUpdate`, `D_MiniLoop` | `recv`, `asked`, `sv[c]` (send queue, `acknowledged`), `cl[c]` (window, `netcmds`, `maketic`, `gametic`, `playeringame`) | `MiniLoop` is one round of a client's loop, `ServerRun` one of the server's, `ServerReceive`, `ClientReceive`, `Quit`, `DropSilent`, `Lose` |
| `NetLobby` | slots, players, waiting data, game start and end | `server` (`server_state`, `clients[]`, `sv_players[]`), `client[c]` | `ServerReceive`, `ServerGameStart`, `ServerRun`, `ClientConnect`, `SendSYN`, `ConnectLoop`, `ClientReceive`, `ClientGameStart`, `NetWait`, `StartGame`, `Quit`, `Lose` |
| `MobjRefs` | the mobj list and counted references | `list`, `cur` (`currentmobj`), `removed` (`mobjfunc`), `refs` (pointers and `refcount`), `fade`, `monster` (`MF_COUNTKILL`), `nosector` (`MF_NOSECTOR`), `locked` (`GF_LOCKMONSTERS`); `game` is what the game at hand has, of `Games` | three parts of a tic: "world", "thinkers", "mobjs"; see below |
| `Thinkers` | the list of thinkers and the loop over it | `list`, `cursor`, `fn` (`thinker.function`), and what a thinker holds: `type`, `move`, `old`, `home` (its sector), `peer` (`combiner`); `watch` (`macrothinker`) | `AddThinkers`, `P_RemoveThinker` (which detaches the macro), `StartRound`, `NextTurn`, `P_UnlinkThinker`, `Skip` |
| `Movers` (extends `Thinkers`) | doors, plats, ceilings, floors, stairs, split sectors, delays | `specialdata`, `plats` and `ceilings` (`activeplats`, `activeceilings`), `lines` (what the map's lines do) | `EV_DoDoor`, `EV_DoPlat`, `EV_DoCeiling`, `EV_DoFloor`, `EV_SplitSector`, `EV_BuildStairs`, `EV_VerticalDoor…`, `EV_StopPlat`, `EV_CeilingCrushStop`, and `T_Move` for a turn of any of them |
| `Lights` (extends `Movers`) | flashing lights and the sector specials behind them | `special` (`sector->special`), `todo` (the loop of `P_SpawnSpecials`) | `P_AddSectorSpecial`, `P_CombineLightSpecials`, `P_ModifySpecial`, `T_Light`, `T_Sequence`, `T_Combine`, `EndLight` |
| `Level` (extends `Lights`) | all of these in one level, a macro that waits for one of them, saved games | `file`: the records still to be read | `Reload` (save, clear, begin to load), `ReadThinker`, `ReadCombine`, `Watch`, `P_SuspendMacro`, `ThinkerTurn` |
| `SectorOwner` | what `sector->specialdata` is for (abstract) | who moves each sector | claim free sectors, release one, begin anew |
| `Macros` (extends `Movers`) | lines, switches, buttons, macros and the queue of tags, in the phases of a tic | `macro`, `next`, `counter`, `once`, `taglist`, `buttons`, `spent` … are the variables of `p_macros.cc` and `p_switch.cc`; `batch` is the loop of `P_RunMacros` | `Trigger`, `P_QueueSpecial`, `StartTic`, `P_RunThinkers`, `ThinkerTurn`, `P_UpdateSpecials`, `TryQueue`, `WaitForThinker`, `StartBatch`, `BatchStep`, `EndBatch`, `LoadGame` |
| `Sequencer` | the audio thread and the game over one playlist | `signal` (`seq->signal`), `sem`, `pc`, `doing`, `turn` (the thread), the channels of `playlist`, `gpc`, `job` (the game) | the thread: `ReadSignal`, `Handle`, `Answer`, `StartPass`, `RunSong`; the game: `StartSong`, `AddTrack`, `SongStarted`, `I_StopSound`, `Ask`, `P_RemoveMobj`, `S_RemoveOrigin`, `P_Stop`, `I_ResetSound`, `I_RemoveSoundSource`, `I_InitSequencer`, `Seq_Shutdown`, `SDL_WaitThread` |
| `Weapons` | one player's weapon | `ready`, `pending`, `owned`, `ammo`, `psp` (the weapon's sprite and its state), `height` (`sy`), `life` (`playerstate`), `laserCells` | `SetPsprite` (entering a state and its `A_` function), `P_PlayerThink`, `PspriteEnds`, `P_KillMobj`, `G_DoReborn`, `G_DoLoadLevel`, `P_GiveAmmo`, `P_GiveWeapon`, cheats, `OthersFireLaser` |
| `MC…` | values of the constants too large for a cfg, symmetry | | |
| `Ranking` | counting off a set of numbers (loops that run upwards) | none | an operator |
| `…Proofs` | section 5 | | |

The net modules describe the same programs from different sides, and each
takes the others' results as its environment: `NetLobby` and `NetTics` use
connections without clocks (a time-out may pass whenever its condition can be
met, which includes every behaviour of `NetConn`); `NetLobby` receives reliable
packets once and in order (`NetReliable`); `NetTics` plays with connected players
from the start (`NetLobby`), and expands tic numbers with `ExpandTicNum` itself:
a datagram of the model carries the whole number, and the receiver takes its low
byte and expands it against its own window.  Handlers
are whole: `NetConn!ServerRun`, for example, is `NET_SV_RunClient` with
`NET_Conn_Run` and the release of the slot in the same step.

`MobjRefs` in more detail.  A tic is `RunThinkers`, then one step for each fade
(`FadeIn`, `FadeOut`, `UnlinkThinker`), `RunMobjs`, then the pass over the list:
`VisitPlayer`, `VisitPassedOver`, `VisitRemoved` (`P_SafeRemoveMobj`) or
`VisitMobj`, which opens a *turn*.  `PassedOver` are the two `continue`s with
which `P_RunMobjs` goes past a mobj before it looks at `mobjfunc`: the marks of
a map (`MF_NOSECTOR`) always, monsters (`MF_COUNTKILL` and no player) while
`sv_lockmonsters` is on.  Such a mobj has no turn, and if it has been removed it
is not freed.  During its turn a mobj may do, any number of times, what action
functions, missiles and momentum do: `Targets`, `Shoots`, `Strikes`; the turn
ends when the cursor moves on, or with `Vanishes` (`P_SetMobjState` to no state:
removed and tried at once) or `FliesAway` (`mobjfunc` becomes `P_RemoveMobj`).
Between two passes ("world") players shoot and hit, items are picked up, noise
spreads to sectors, tagged monsters are alerted, mobjs fade in and out, damage
markers end, levels end, and the two options are switched.  What a mobj *is*
(its type, position and health) is left open: any mobj that the guards of the
code admit may be hit, die or be targeted.  Freed addresses are handed out
again, which is what makes a dangling pointer or a wrong count visible.

`Level` and `Macros` share `Movers` and look at a level from two sides.  Lines
are triggered while players and mobjs think and while macros run, never inside
`P_RunThinkers`; that is why a mover is started only when `cursor = 0`.  In
`Level` any line may be triggered at any such moment, thinkers have their turns
one by one, and a thinker answers whatever `T_MovePlane` can answer for its
type and direction: heights are the one thing that is abstract.  A game may be
saved between any two tics; loading it is a step per record, because a combined
light or a sector's mover is found again by what has been read before.  In
`Macros` the tic has its phases (players, thinkers, mobjs, macros), and a batch
of a macro is a step for each of its specials.  Two details of the code that the
models keep, as they are easy to get wrong: a loop with counter `n` runs
`max(1, n)` times, and `P_SuspendMacro` does something only when called from a
line, as the macro that suspends itself is no longer waiting for a thinker.

`Sequencer` has two program counters.  What the code does under the semaphore
is several steps with `sem` taken, what it does without is interleaved freely,
and the word `signal` is read and written as the code does, one access a step.

`Weapons` turns the nested calls of `P_SetPsprite` into a chain: `enter` is the
state that comes next in the same tic, and nothing else happens until the chain
ends.  Left out: the refire counter, the flash, the plasma rifle's sound, the
backpack, passwords and the "undying" cheat.

## 4. The runs

Every run finishes in under five minutes with two workers.  Each property of a
passing run has a mutant: a plausible wrong version of one definition (named
after it, with a suffix that says what is wrong: `SafeRemoveMobj_StepsOn`)
under which TLC finds the property violated with the same configuration.

| run | instance | distinct states | what it shows |
| --- | --- | --- | --- |
| `net_reliable` | numbers modulo 4, copies live for 2 deliveries, 6 packets | 33 000 | `InOrderOnce`, `DroppedWasDelivered`, the refinement of `NetFifo` (`ImplementsFifo`), and that the list drains (`EventuallyDropped`) |
| `net_conn` | 1 retry, silence of 4 ticks, delays of 1 tick, one datagram lost or repeated, one connection, both ways to leave | 102 000 | `HandshakeOrder`, `ReasonTruth`, `KeepalivesSuffice`; `ConnectionsEnd`: the loops end, slots and orphans are cleared, a disconnect of the server comes to its end |
| `net_tics` | 2 players, rings of 2, 3 tics, one fault | 150 000 | `SameTics`, `RingsKeep` (the next tic is never overwritten, windows stay in step), `NoOverrun` |
| `net_tics_drone` | a player and a drone, one extra tic in each packet, two faults | 355 000 | `SendQueueKept`: what is asked for again, and what extra tics need, is still in the queue (the `I_Error` of `NET_SV_SendTics` is out of reach) |
| `net_tics_live` | 2 players, 2 tics, one datagram to the server lost or repeated, one player quits | 103 000 | `Progress` |
| `net_lobby` | 2 players and a drone at 2 slots, 2 connections each, 2 upsets (losses, ends, restarts, second key presses) | 1 320 000 | `NumbersAgree`, `PlayersShown` (no drone is counted, no name before the first is read), `GameEnds` |
| `mobj_refs` | 3 addresses, a fade, a marker, in two games: with a sector that hears noise, marks, and monsters that may be locked and unlocked between tics; and with tagged alerts, which leave 1 surplus count | 1 620 000 | `HeldIsLinked`, `NeverUndercounted`, `TurnsInOrder`, `FreedInTime` (what is removed, unreferenced and not passed over is freed in one pass), and with `TypeOK` that the cursor is in the list |
| `level` | 4 thinkers, 3 sectors, five sets of lines, tables of 2 | 454 000 | `HeldByMover` (a sector with `specialdata` has that one mover), `SlotsExact` (the tables hold the plats and ceilings there are), `WatchIsLive`, `CombinerLives`, `LoadKeepsMovers`, and the refinement of `SectorOwner` (`ImplementsOwner`) |
| `level_macros` | 3 thinkers, 6 lines, 2 macros, a ring of 2, one button, 2 queued tags, one saved game | 139 000 | `TypeOK`, `SwitchReset`, `CounterRuns`; `MacroEnds`, `QueueServed` |
| `sequencer` | 2 channels, music of two tracks that may never end or break off, a sound, a mobj | 965 000 | `OriginsLive`, `TracksInStep`, `RequestHolds`; `StopsEnd` |
| `sequencer_shutdown` | 1 channel, a sound | small | violated: `ShutdownEnds`, section 6 |
| `weapons` | fist, pistol, super shotgun and laser; 1 bullet, 2 shells, 1 cell; two beams; both kinds of game | 585 000 | `WeaponIsReal`, `DebtIsSmall`, `CorpseIsDisarmed`; `ChangeGoesThrough` |

**Bounds and why they are enough.**  *Reliable packets*: with 4 numbers and 6
packets the numbers wrap once and a half; `Lifetime` 2 is the largest that 4
numbers allow (the proofs need `Lifetime + 2 <= NumSeqs`; the code has 254, more
than a network keeps).  *Connections*: one retry and one fault let every answer
come too late once; longer delays and more retries repeat the same states.
*Tics*: the rings have 2 places, so that every overrun and wrap-round happens
within 3 tics; the byte has 16 values with edges in proportion; the sizes obey
the same inequalities as the code's (`BuffersAssumption`: `MaxAhead` 40 and
`Lead` 8 against `BACKUPTICS` 128).  `MaxWire` 1 lets a new tic be sent only
while nothing else is under way in that direction, so that two new tics are
never under way together and cannot overtake each other.  What is sent in answer
is not bounded (acknowledgements, requests, resends, and all that one call
sends); these datagrams and a tic do overtake one another, in both directions in
`net_tics` and `net_tics_drone`, upwards in `net_tics_live`, and a datagram may
be received again (`Lossy` and `MaxFaults` say how often).  *Lobby*: three
programs for two slots, so that a slot is given to another address; two upsets,
so that a client is lost and another comes back.  *Mobjs*: with the player, a
monster and its missile every address is in use, so that freeing and handing out
again happens in most states; one fade, marker and sector each are enough to
hold references from outside the list.  Two games (`MCGames`) keep two things
apart: tagged alerts, whose surplus counts keep mobjs from being freed, and the
lock, which keeps them from being looked at; a mobj that either keeps is not
freed, and the theorems of section 5 hold with both.  `MaxLeaks` bounds the
counts that no pointer explains (section 6), which would otherwise grow for
ever.  *Level*: two sectors share a tag and stairs join them, so that a line
finds one busy and one free; the third is behind manual doors; the five sets of
lines put together what can meet in one level (plats and ceilings that are
stopped; crushers with raising plats; stairs with floors and delays; both manual
doors; lights).  The map gives no sector to both a manual door and another kind
of mover (`ManualSectorsAreDoors`: the code casts what it finds there to a
door).  *Macros*: one loop with a counter, one batch that starts two thinkers, a
switch, and lines that suspend, switch off and start again; the five sets of
lines keep cause and effect apart.  *Sequencer*: two channels for three tracks,
so that songs find no channel.  *Weapons*: weapons that need nothing, a bullet,
two shells, and as many cells as there are beams; ammunition for one shot only,
so that every shot may be the last; `Travel` 2 lets a change be turned round
half-way.  The proofs of section 5 need none of these bounds.

**Deadlock** is switched off where programs may stop (everyone has left, the
last tic is built, the thread has ended) or where it is no question
(`weapons`).  `mobj_refs`, `level` and `level_macros` check it.

**Fairness.**  All programs come round their loops (`WF` of the loop actions),
time passes, and a datagram that is not lost arrives.  In `NetReliable` the
head of the list and its acknowledgement get through if they are sent again
and again (`SF`): the usual assumption of a fair-lossy wire.  In `NetTics` the
loops need `SF` because the model lets a time-out pass only when nothing is
under way; in the program it passes with time alone.  In `Macros` tics go on
(`WF(Tic)`), and a delay that has its turn again and again ends
(`SF(TimerEnds)`): it counts down.  Nothing is assumed of movers, as something
may stand in their way for ever; that is why `MacroEnds` excepts a macro that
waits for one.  In `Sequencer` the thread gets the semaphore if the game lets
go of it again and again (`SF(Audio)`), and the game finishes what it has begun
(`WF(GoesOn)`).  In `Weapons` a tic ends, and a state with a finite number of
tics is left at last although other things happen in between
(`SF(PspriteEnds)`).  Nobody ever has to connect, to press a key, to trigger a
line, or to leave.

## 5. The proofs

Checked by TLAPS for every value of the constants under the named assumptions.
The lemmas about lists without repetitions, about least numbers and counting
off (`Ranking`), and about arithmetic modulo m stand at the top of the proof
modules that need them.

`NetCommonProofs`, about both halves of `net_common.cc`.  The reliable packets
(`NetReliable`): `Invariance`, `TypeCorrect`, `Order`, `NoEarlyDrop`,
`Refinement`.  `InOrderOnce` is not inductive: whether a copy is accepted depends
only on a byte, so one has to know what can be on the wire.  `IInv` adds that
the list holds consecutive packets with their numbers (`ListInv`), that the
receiver is at the head of the list or one past it (`WindowInv`: stop and wait),
and that nothing on the wire is ahead of both (`WireInv`).  A copy that may still
arrive is at most `Lifetime` old, hence less than `NumSeqs` from what it is
compared with, and equal remainders mean equal numbers (`ModDistinct`).  The
refinement of `NetFifo` follows: every step makes a packet, hands on the next
one, or stutters.  Assumed: `NumSeqs >= 2`, `Lifetime + 2 <= NumSeqs`.

`NetTicProofs`: `ExpandExact`, for every width of the byte and every pair of
edges: within `Reach` of the window (64 with the code's values; the upper edge
0xb0 would allow 79 below, the lower edge 0x40 only 64) the low byte determines
the tic, and `NET_ExpandTicNum` finds it.

`NetTicProofs` also has the safety of the lockstep, for any number of players,
drones and tics, any sizes that satisfy `BuffersAssumption`, and a network that
loses, repeats and reorders: `TicsInvariant`, `NetcmdsFit` (`NoOverrun`),
`SentTicsKept` (`SendQueueKept`), `Lockstep` (`SameTics`), `RingsSuffice`
(`RingsKeep`) and `BytesAreEnough`.  That everybody runs the same tics is not
inductive: a command passes through a datagram, the server's window, its send
queue, another datagram, the client's window and `netcmds` before it is run.
`IInv` follows it all the way: what any of these has for tic `t` was built for
`t` (`RecvInv`, `QueueInv`, `WindowInv`, `WireInv`; `UpMsg` and `DownMsg` say
what a client that has come so far can have sent and been sent), the queue holds
the last `BACKUPTICS` commands, nobody runs further ahead of the others than
the limits allow (`AheadInv`), and in a game that nobody leaves no command is
missing anywhere (`GameInv`).  A lemma for each handler says what it does to the
part of one client, and `NextKeeps` puts them together.  `ExpandExact` is used
where a datagram is read; the premise it needs is `InReach`, the model's limit
on the time for which the network holds a datagram back.  `BytesAreEnough` says
that this is a limit on the network only: what is sent next is always in reach
when it is sent (`BytesSuffice`, which no run checks), if
`MaxAhead + Lead + 1 <= Reach` (49 and 64 in the code).  Assumed: `Leavers = {}`
in the last three, as somebody who leaves makes the tics of the others differ
(`SameGame`, section 6); two players at least in `RingsSuffice` and
`BytesAreEnough`, as a lone player waits for nobody and runs away from the
server's window.

`NetCommonProofs`, on the connections (`NetConn`): `ConnectionsTyped`, `Blame` (`ReasonTruth`), `HandshakeInOrder`
(`HandshakeOrder`), `NobodyFallsSilent` (`KeepalivesSuffice`), for any number of
retries, any delay, any silence and any number of faults.  All actions of both
programs are steps of one end with the same net effect (`EndStep`: what the
connection may become, for which cause, and what is put on the wire);
`ClientStep` and `ServerStep` add what the loops around it do, and the
invariants follow from these three without looking at the handlers again.
`ReasonInv`: a DISCONNECT under way was asked for by its sender.  `OrderInv`:
while the client is connecting, no ACK of its own is under way.  `CalmInv`, for
the keepalives: both ends are in step (`LinkInv`), each has sent something in
every tick (`BeatInv`), so that a tick of which the other end has heard nothing
is under way, which at most `MaxDelay` are, or was a fault (`MissInv`); hence
the silence stays below the limit.  Assumed: in `HandshakeInOrder`, that the
program connects once (`MaxConnects <= 1`): connections have no identifier, and
an ACK left over from an earlier one makes the property false.

`NetLobbyProofs`: `LobbyInvariant`, `GameEndsInv` (`GameEnds`),
`PlayersShownInv` (`PlayersShown`), `NumbersAgreeInv` (`NumbersAgree`), for any
clients and drones and any number of slots and players.  `NET_SV_Run` looks at
one slot after the other, and what it does for one (it may end the game and
disconnect everybody) is seen by the next; the invariant is therefore about a
state of the server and the datagrams on their way down, wherever the turn is
between two slots, and not only about the state between two turns.  `ServerInv`:
a slot in use is told apart by its client, the players counted are those
connected, and a game has one.  `HandshakeInv`: what may be under way together
in a handshake, so that a client that was let in is one the server knows.
`WaitingInv`: nobody who waits as a player is told of none, so that there is a
name to show.  Most of what the server does is tame (slots are given back or go
on to the end of a connection, and players only go if all do), and the lemmas
are about tame steps; connecting and starting a game are the others.  The turn
`RunClients` is a recursion over the slots, and as the library's rule of
induction cannot be used, the proof takes the least slot after which the
invariant would be false.  `NumbersAgreeInv` is a theorem under `[]PlayersFit`:
`AgreeInv` (who is in the game has the list the server started it with, and
what is sent of it says the same) fails as soon as two handshakes at the last
place make the server number more players than `sv_players` has room for, which
it does (section 6).

`MobjRefsProofs`: `TypeCorrect`, `NothingDangles`, `CountsSuffice`,
`OneTurnEach` (`TurnsInOrder`) and `NothingLeftLying` (`FreedInTime`, which says
nothing of the mobjs that are passed over), for any finite number of mobjs,
fades, markers and sectors, whether monsters are locked or not.  Neither the
second nor the third is inductive alone.  A mobj is freed when its count is 0,
so that nothing dangles only if counts are large enough; and a count stays large
enough when an address is handed out again only if no pointer still leads there.
`Sound(refs, Linked)` says both, and each of `SetTarget`, `Cleared`
(`P_SpawnMobj`), `Released` (`P_RemoveMobj`) and `Forgotten` (`Z_Free`)
preserves it (`SetTargetSound`, `ClearedSound`, `ReleasedSound`,
`ForgottenSound`).  Around it `IInv` has what the cursor and the fades need: the
list has no duplicates, the mobj that has its turn is no player, a running fade
holds a mobj that is no player (otherwise the player's mobj could be freed).
`RemoveList` shows that taking a mobj out keeps the others, and `Neighbours`
that the step back of `P_UnlinkMobj` lands in the list.  For the turns,
`TurnsInv` says that the mobjs that have had theirs are a prefix of the list
that ends at the cursor (`Upto`), which survives a removal at the cursor, before
it and behind it; `DueInv`, that a mobj that is due to be freed in this pass is
still behind the cursor, and is none that the loop goes past: `MobjStepKinds`
shows that no mobj of the list becomes one in a pass, and `MarkInv` that a mark
is in the list.  Assumed: `~Switchable`, that is, nobody switches the damage
indicator during a level; without it the first three are false (section 6).

`LevelProofs`: `TypesHold`, `SectorsAreHeld` (`HeldByMover`), `SlotsAreExact`,
`WatchedAreLive`, `CopiedLightLives` (`CombinerLives`), `LoadedAsSaved`
(`LoadKeepsMovers`), and `MoversOwnSectors`, the refinement of `SectorOwner`; for
any finite number of thinkers and sectors, any map and any tables.  That
`specialdata` leads to a live mover is inductive only together with its
converse and with the place of the thinker in the list: `MoversInv` says that a
mover that runs or rests is the one its sector knows, that what rests is in a
table, and that the tables hold movers of their kind only.  `Records` says that
a saved game has at most one mover for a sector, and none for a sector that has
one already, so that reading the next record claims a free sector; `Homes` that
the lights have sectors.  To the movers every action is one of four kinds of
step: none is touched, new ones come to free sectors, one goes, all go
(`Kind`).  A lemma for each action says which, and one for each kind says what
it keeps and which step of `SectorOwner` it is.  `InOrderFacts` counts off the
sectors of a tag, so that several movers made by one line keep the list free of
repetitions.  `CombinerLives` rests on `CombineInv`: a combined light that runs
comes later in the list than the light it copies, and that light is freed no
earlier than in the round after the one in which it ended; the records of a
saved game keep that order.  For `LoadedAsSaved`, `LoadInv` says of each sector
that what it had when the game was saved is back or still among the records to
be read, and that nothing but reading happens in between.  Assumed:
`~SuspendMovers` and `~WatchCombined`; without them the results are false
(section 6).

`SequencerProofs`: `TypesHold`, `OriginsAreAlive`, `TracksTogether`,
`LastRequestHolds`, for any number of channels, songs, tracks and mobjs.  The
parts of the invariant: the semaphore belongs to who is where its holder can be
(`Locks`); a free channel has nothing left from its last song (`FreeClear`); an
origin is alive, is the one being removed right now, or is behind the loop that
clears all of them (`Origins`); the channels of a group have begun and are paused
together unless the thread is half-way through its pass (`Groups`); a request
that was heard holds, as nothing else may change what it did (`Requests`).
Both loops without the semaphore, `S_RemoveOrigin` and `S_ResetSound`, turn out
to be safe because only the game itself gives origins to channels.

`WeaponsProofs`: `TypesHold`, `WeaponsAreReal`, `DebtsAreSmall`,
`CorpsesAreDisarmed`, for any set of weapons, any ammunition, any number of
beams and any height.  That a shot never leaves more than a small debt needs to
know, in the middle of a chain of states, that the shot to come has its
ammunition (`Armed`: the laser's beams and the super shotgun's two shells are
counted when the weapon is chosen and taken states later); `Hand` and
`Lowering` say that the hand holds a weapon that is owned and that a weapon on
its way down in a living hand has something to change to; `Lives` and
`Disarmed` what a dead player's weapon does.

`MacrosProofs`: `TypeCorrect` (`TypeOK`), `SwitchesComeBack` (`SwitchReset`),
`RoundsAreRun` (`CounterRuns`), for any macros, lines and thinkers.
`SwitchReset` needs `ButtonInv`: a button that will show the second texture
again, and not the first, is one of a switch that was pressed while a saved
game had left it that way (`stuck`).  For the rounds: lines are triggered only
between two batches, so a line leaves a macro as it is, starts one or ends it,
and only a batch counts.  That a macro has run every batch as often as its
counter asks is known at its end only; `IInv` says what is true before: which
entry a batch has come to (`BatchInv`), what the counter and `globalint` are
before and behind the entries that set them (`CountInv`), and that the passes of
a batch are those of the present round (`Did`) and those of the rounds before,
which the counter tells (`Extra`; `Counted`).  `Loop` and `RoundsOf` say where
the loop of a macro begins and ends and what `Rounds` is there.  Assumed:
`~SaveFresh` in the first and the third, as `nextmacro` comes back as anything
otherwise (section 6); in the third also `OneLoop`, which TLC evaluates for the
macros of the run: ids go upwards; there is one counter at most, and before it
one entry that sets `globalint`, to a batch that comes no later; no line counts
or sets `globalint`; and the first batch of a macro that may be switched off has
two entries at least, as switching it off makes the first id 0, and a macro in
its loop would lose a batch of one (`ClearInv`).

Model-checked only: all liveness (TLAPS does not do `ENABLED` here).

## 6. Where the code and its comments disagree

Met while modelling.  Each property is stated in the last section of its module,
from the words of the comment it quotes.  The first is a run; the others are
violated with the constants given.

| property | what happens | where | shown by |
| --- | --- | --- | --- |
| `ShutdownEnds` (`Sequencer`) | the thread ends the handling of a signal with "ready" and so overwrites the signal to shut down: `SDL_WaitThread` waits for ever | `system/i_audio.cc:738`, `:1094` | run `sequencer_shutdown` |
| `SignalsHeard` (`Sequencer`) | pause and resume are lost in the same way, and a signal overwrites the one before it: nobody waits for "ready" any more | `system/i_audio.cc:220` | `Sequencer.cfg` |
| `OneLossHandshake` (`NetConn`) | one lost ACK of the client, and the server gives up on a client that is alive: a connected client does not answer the ACKs the server repeats | `net/net_common.cc:94`, `:383` | `NetConn.cfg` |
| `Progress` (`NetTics`) | the last tics sent to every client are lost: nobody asks for them, and the game stands still for ever | `net/net_server.cc:1374` | `NetTicsLive.cfg` with `MaxFaults = 2`, `Lossy = {"down"}`, `Leavers = {}` |
| `SameGame` (`NetTics`) | a client learns that a player has left before it runs earlier tics, and runs them without that player: "consistency failure" | `net/net_client.cc:312`, `game/g_game.cc:1080` | `NetTicsLive.cfg` with a drone, `MaxPlayers = 3`, `Lossy = {"down"}` |
| `PlayersFit` (`NetLobby`) | two handshakes overlap at the last free place: `sv_players` overflows | `net/net_server.cc:568` | `NetLobby.cfg` with 3 slots and no drone |
| `OneLossDisconnect` (`NetConn`) | the answer to a DISCONNECT is not repeated | `net/net_common.cc:441`, `net_client.cc:1115` | `NetConn.cfg`, `Leaving = {"disconnect"}` |
| `ImmediateReconnection` (`NetConn`) | a client that comes back at once is ignored until its old slot times out | `net/net_server.cc:553` | `MaxConnects = 2` |
| `QuitIsTold` (`NetConn`) | `D_QuitNetGame` is never called | `doom_main/d_net.cc:421` | `Leaving = {"exit"}` |
| `DeadlockAsksNext` (`NetTics`) | `NET_SV_CheckDeadlock` has the indices of `recvwindow` the wrong way round | `net/net_server.cc:1403` | `MaxPlayers = 4`, `BackupTics = 4`, `Lead = 1`, `MaxFaults = 2`, `Lossy = {"up"}` |
| `PlayersKept` (`NetLobby`) | the end of a game disconnects a player who has just connected | `net/net_server.cc:1421` | 2 players, `MaxUpsets = 1` |
| `NoLateJoin` (`NetLobby`) | a handshake that ends during the game lets the client in | `net/net_server.cc:517` | the same |
| `StartKept` (`NetLobby`) | `NET_CL_Connect` overwrites `CLIENT_STATE_IN_GAME` | `net/net_client.cc:1250` | the same |
| `CountsReferences` (`MobjRefs`) | `P_AlertTaggedMobj` gives a target to a mobj that is being removed; the count that leaves behind keeps another mobj for ever | `playloop/p_spec.cc:868`, `p_mobj.cc:98` | `MobjRefs.cfg` |
| `HeldIsLinked` (`MobjRefs`) | `P_Stop` empties the list of damage markers only while the option is on: switched off before the end of a level and on again later, the list leads into freed memory | `playloop/p_tick.cc:336` | `Switchable = TRUE` |
| `HeldByMover`, `SlotsExact` (`Level`) | a macro that is suspended while it waits for a mover removes that thinker and nothing else: the sector keeps pointing at freed memory, and so does the table | `playloop/p_macros.cc:202` | `SuspendMovers = TRUE` |
| `WatchIsLive` (`Level`) | a combined light is loaded into a thinker that is at once marked for removal, and made anew as another one; a macro that waited for it waits for the first, which is freed, for ever | `playloop/p_saveg.cc:1889` | `WatchCombined = TRUE` |
| `TypeOK` (`Macros`) | a game saved before the first batch of a macro has ended saves the NULL `nextmacro` as a difference of pointers | `playloop/p_saveg.cc:1930` | `SaveFresh = TRUE` |
| `NeverUndefined` (`Weapons`) | a player in a game of one dies, is given health by a cheat, and presses use: the weapon that comes down no longer belongs to a dead player, nothing is pending, and `weaponinfo` is read at `wp_nochange`; the comment says "pending weapon should allready be validated" | `playloop/p_pspr.cc:399`, `:301` | `Weapons.cfg` |
| `EnoughMeansEnough` (`Weapons`) | "Returns true if there is enough ammo to shoot": `laserCells` is static and shared by all players, so that a laser may shoot more cells than were counted, and ammunition becomes negative | `playloop/p_pspr.cc:171`, `:190` | `Weapons.cfg` |
| `PickCanFire` (`Weapons`) | "Out of ammo, pick a weapon to change to": after such a debt the plasma rifle is picked, as its cells are not 0 | `playloop/p_pspr.cc:206` | `Weapons.cfg` with `"plasma"` |
| `NoAutoFire` (`Weapons`) | "the missile launcher and bfg do not auto fire": `A_ReFire` fires them again while the button is held | `playloop/p_pspr.cc:308` | `Weapons.cfg` with `"missile"` |

Other things a maintainer may want to know, which the models have as the code
has them, or leave aside:

* "wait until all thinkers are done before starting the next batch"
  (`p_macros.cc:211`): only the last thinker of a batch's last special is waited
  for.  A batch that ends with a special that makes none waits for nothing.
* `P_ToggleMacros(true)` gives back nothing that switching off has taken;
  `bTriggerOnce` is not saved; a tag taken from the queue is tried once and
  forgotten; buttons are not saved, so that a pressed switch comes back with its
  textures changed round (`stuck` in `Macros`).
* `EV_VerticalDoor` for specials 31 and 118 makes a second door in a sector
  that has one (`ManualOpen`), and takes any mover of the sector for a door;
  plats in stasis are not saved; `EV_BuildStairs` leaves `type` and `crush`
  uninitialised, which its turns do not read in a way the model tells apart; a
  blocked `raisePlat` waits for ever.
* `A_ReFire` does not reset the refire counter when ammunition is out;
  `P_SetupPsprites` forgets a pending change at the end of a level;
  `M_EncodePassItem` turns a debt of cells into an eighth of the maximum; cheats
  with arguments act on the local machine alone, also in a network game.
* `P_RunMobjs` goes past a mobj before it looks at `mobjfunc`
  (`p_tick.cc:157`, `:161`): a monster that a fade has removed while
  `sv_lockmonsters` is on stays in the list until monsters are unlocked; a mark
  (`MF_NOSECTOR`) that is faded out stays for the rest of the level, unless
  `MF_TRIGDEATH` has cost it its flags.
* In the sequencer, the first channel's `id` for sounds is 15, one of the sixteen
  that the comment above it reserves for music (`i_audio.cc:494`); `I_StartSound`'s volume is ignored until the
  next `S_UpdateSounds`; `Signal_StopAll` is never asked for; `P_Stop` frees
  mobjs before `S_ResetSound` clears the origins (safe, as nothing reads them
  in between: the "leaving" step of the model); `I_Error` on the audio thread,
  or while the game holds the semaphore, would wait for the thread that cannot
  end.

## 7. What is not modelled, and why

*Data* is abstracted everywhere to what the properties tell apart: a command is
the tic it was built for, a packet is a record, positions, heights, health and
texts are left open.  In the modelled parts these are missing: the diffs of
`NET_TiccmdDiff`/`NET_TiccmdPatch`; settings and cvars of a game; the clock
adjustment of `NetUpdate`; `ticdup` other than 1; queries (`net_query.cc`);
respawning of items and monsters, `bodyque`, sector and block lists, plain
pointers to mobjs (`player->attacker`, `cameratarget`), two opposite fades on
one mobj; teleporters, cameras, scrolling textures and floors that hurt; mobjs,
players and worlds in saved games; MIDI bytes, envelopes and sound fonts; what
section 3 says of `Weapons`.

*Whole parts*: rendering, OpenGL, images, automap, intermission, finale and most
of the status bar draw what others computed; geometry and collision
(`p_map.cc`, `p_maputl.cc`, `p_sight.cc`) are fixed-point arithmetic far beyond
TLC; level loading, WAD reading, `wadgen` and the parser are batch programs
over files; `fmt`, `md5`, `psnprntf`, `glad` are vendored or generated; native
dialogs, system and video are I/O.  These make up most of the repository's
lines, with the tables of `common/info.cc` and the texts of `misc/m_menu.cc`.

*Out of reach of the provers*: liveness under fairness, `ENABLED`, and what a
recursive definition computes for every input.  No module uses `RECURSIVE`.

## 8. The plan

In the order of what matters most to the program.  Modules are written to be
proved about: constants with named assumptions, one action per operation,
invariants as conjunctions of named parts, folds instead of recursion.

1. *Done.* `NetReliable` ⇒ `NetFifo`, checked and proved.
2. *Done.* `NetConn`: connections and their loops, checked and proved.
3. *Done.* `NetTicNum` and `NetTics`, checked and proved.
4. *Done.* `NetLobby`, checked and proved.
5. *Done.* `MobjRefs`, checked and proved.
6. *Done.* `Macros`, over the movers of step 7, checked and proved.
7. *Done.* `Thinkers`, `Movers`, `Lights`, `Level` ⇒ `SectorOwner`, checked and
   proved.
8. *Partly.* `Sequencer`, checked and proved.  Left: `GameMachine` (`gameaction`,
   `G_DoReborn`, demos) and the mobjs of saved games.
9. Sector and block lists joined to `MobjRefs`: `P_SetThingPosition`,
   `P_UnsetThingPosition`, respawning, `bodyque`.  Theorem: a mobj is in at
   most one list of each kind.
10. *Done.* `Weapons`, checked and proved.
11. `Zone` (tags, owners and purging), `net_loop`'s rings (a refinement of a
    lossy wire), bindings, menus, console, clipper, passwords.
12. The module that joins `NetLobby` and `NetTics`.
