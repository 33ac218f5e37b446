-------------------------------- MODULE Level --------------------------------
(***************************************************************************)
(* A level: its movers and lights, the macro that may wait for one of      *)
(* them, and saved games (playloop/p_saveg.cc).                            *)
(*                                                                         *)
(* A saved game holds a record of every thinker in the order of the list.  *)
(* Loading it frees all thinkers, clears every sector->specialdata, and    *)
(* makes the thinkers again one by one.                                    *)
(***************************************************************************)
EXTENDS Lights

CONSTANTS
    SpecialAt,      \* sector_t.special in the map
    SuspendMovers,  \* may a macro be suspended while it waits for a mover?
    WatchCombined   \* may a macro wait for a combined light?

ASSUME SpecialsAreLights == SpecialAt \in [Sector -> LightTypes \cup {"none"}]

VARIABLES
    file,           \* the records of a saved game that are still to be read
    saved           \* history: what a game that is being loaded had when saved

vars == <<thinkerVars, moverVars, lightVars, file, saved>>

Idle == cursor = 0 /\ todo = {} /\ file = <<>>

Archived_Running(t) == fn[t] = "run"

(* What P_ArchiveSpecials writes: thinkers with a function of its table, and   *)
(* of those without a function the ceilings that are active.                   *)
Archived(t) == fn[t] = "run" \/ (fn[t] = "stasis" /\ t \in ceilings)

Record(t) ==
    [type |-> type[t], move |-> move[t], old |-> old[t], home |-> home[t],
     running |-> fn[t] = "run", watched |-> fn[t] = "run" /\ t = watch]

P_ArchiveSpecials ==
    InOrder([i \in {j \in 1 .. Len(list) : Archived(list[j])} |-> Record(list[i])])

\* What the records say of the sector a mover has.
MoverOf(s) ==
    IF specialdata[s] = None THEN <<>>
    ELSE LET t == specialdata[s] IN <<type[t], move[t]>>

NoThinkers ==
    /\ list' = <<>>
    /\ fn' = [t \in Thinker |-> "free"]
    /\ type' = [t \in Thinker |-> "none"]
    /\ move' = [t \in Thinker |-> "none"]
    /\ old' = [t \in Thinker |-> "none"]
    /\ home' = [t \in Thinker |-> None]
    /\ peer' = [t \in Thinker |-> None]
    /\ watch' = None
    /\ specialdata' = [s \in Sector |-> None]
    /\ plats' = {}
    /\ ceilings' = {}

NotSaved == [movers |-> [s \in Sector |-> <<>>], watched |-> FALSE, stopped |-> {}]

(* G_DoSaveGame, and G_DoLoadGame of what it wrote: P_SetupLevel starts the    *)
(* level anew (P_InitMacroVars, empty tables of plats and ceilings),           *)
(* P_UnArchiveWorld clears specialdata and P_UnArchiveSpecials frees all       *)
(* thinkers.  The records follow one by one.                                   *)
Reload ==
    /\ Idle
    /\ list # <<>>
    /\ file' = P_ArchiveSpecials
    /\ Len(list) + Cardinality({t \in Live : type[t] = "combine"})
        =< Cardinality(Thinker)         \* addresses enough for ReadCombine
    /\ saved' = [movers |-> [s \in Sector |-> MoverOf(s)],
                 watched |-> watch # None /\ fn[watch] = "run",
                 stopped |-> {home[t] : t \in {p \in plats : fn[p] = "stasis"}}]
    /\ NoThinkers
    /\ UNCHANGED <<cursor, special, todo, lines>>

(* One round of P_UnArchiveSpecials: the record is read into a new thinker,    *)
(* which takes its sector and its slot again.                                  *)
ReadThinker ==
    /\ file # <<>>
    /\ file' = Tail(file)
    /\ saved' = IF Len(file) = 1 THEN NotSaved ELSE saved
    /\ LET r == Head(file)
       IN /\ r.type # "combine"
          /\ \E t \in Free :
               /\ list' = Append(list, t)
               /\ fn' = [fn EXCEPT ![t] = IF r.running THEN "run" ELSE "stasis"]
               /\ type' = [type EXCEPT ![t] = r.type]
               /\ move' = [move EXCEPT ![t] = r.move]
               /\ old' = [old EXCEPT ![t] = r.old]
               /\ home' = [home EXCEPT ![t] = r.home]
               /\ watch' = IF r.watched THEN t ELSE watch
               /\ specialdata' = [s \in Sector |->
                      IF r.type \in Movers /\ s = r.home THEN t ELSE specialdata[s]]
               /\ plats' = IF r.type \in Plats THEN plats \cup {t} ELSE plats
               /\ ceilings' = IF r.type \in Ceilings THEN ceilings \cup {t} ELSE ceilings
    /\ UNCHANGED <<cursor, peer, lines, special, todo>>

(* The record of a combined light names only its sector: it is read into a     *)
(* thinker that is removed at once, and P_CombineLightSpecials looks for a     *)
(* light to copy again.  If the record was the watched one, the macro waits    *)
(* for the thinker that is removed.                                            *)
ReadCombine ==
    /\ file # <<>>
    /\ file' = Tail(file)
    /\ saved' = IF Len(file) = 1 THEN NotSaved ELSE saved
    /\ Head(file).type = "combine"
    /\ LET r == Head(file)
           found == Combiners(special[r.home])
       IN \E t \in Free : \E u \in Free \ {t} :
            /\ list' = IF found = {} THEN Append(list, t) ELSE list \o <<t, u>>
            /\ fn' = [x \in Thinker |-> IF x = t THEN "unlink"
                                        ELSE IF x = u /\ found # {} THEN "run"
                                        ELSE fn[x]]
            /\ type' = [x \in Thinker |-> IF x = u /\ found # {} THEN "combine" ELSE type[x]]
            /\ move' = [x \in Thinker |-> IF x = u /\ found # {} THEN special[r.home]
                                                                 ELSE move[x]]
            /\ home' = [x \in Thinker |-> IF x = u /\ found # {} THEN r.home ELSE home[x]]
            /\ \/ found = {} /\ UNCHANGED peer
               \/ \E i \in found : /\ IsLeast(i, found)
                                   /\ peer' = [peer EXCEPT ![u] = list[i]]
            /\ watch' = IF r.watched THEN t ELSE watch
    /\ UNCHANGED <<cursor, old, moverVars, special, todo>>

(* P_RunMacros: a batch has run and its last special made the last thinker of  *)
(* the list, which the macro now waits for.  Macros models what it runs.       *)
Watch ==
    /\ Idle
    /\ watch = None
    /\ list # <<>>
    /\ \E t \in Thinker :
        /\ t = Last(list)
        /\ fn[t] = "run"
        /\ WatchCombined \/ type[t] # "combine"
        /\ watch' = t
    /\ UNCHANGED <<list, cursor, fn, type, move, old, home, peer, moverVars,
                   lightVars, file, saved>>

(* P_SuspendMacro: the thinker the macro waits for is removed, and only it: a  *)
(* sector or a table of active movers keeps pointing at it.                    *)
P_SuspendMacro ==
    /\ Idle
    /\ watch # None
    /\ SuspendMovers \/ type[watch] = "timer"
    /\ P_RemoveThinker(watch)
    /\ UNCHANGED <<list, cursor, type, move, old, home, peer, moverVars,
                   lightVars, file, saved>>

Init ==
    /\ list = <<>>
    /\ cursor = 0
    /\ fn = [t \in Thinker |-> "free"]
    /\ type = [t \in Thinker |-> "none"]
    /\ move = [t \in Thinker |-> "none"]
    /\ old = [t \in Thinker |-> "none"]
    /\ home = [t \in Thinker |-> None]
    /\ peer = [t \in Thinker |-> None]
    /\ watch = None
    /\ InitMovers
    /\ special = SpecialAt
    /\ todo = Sector           \* P_SpawnSpecials
    /\ file = <<>>
    /\ saved = NotSaved

ThinkerTurn ==
    \E t \in Thinker :
        \/ (P_UnlinkThinker(t) \/ Skip(t)) /\ UNCHANGED <<moverVars, lightVars>>
        \/ T_Move(t) /\ UNCHANGED lightVars
        \/ T_Light(t) \/ T_Sequence(t) \/ T_Combine(t)

Next ==
    \/ Idle /\ LineMovers /\ UNCHANGED <<lightVars, file, saved>>
    \/ /\ Idle
       /\ \E line \in lines :
            line[2] \in LightTypes \cup {"none"} /\ P_ModifySpecial(line[1], line[2])
       /\ UNCHANGED <<file, saved>>
    \/ AddNextSpecial /\ UNCHANGED <<file, saved>>
    \/ Idle /\ StartRound /\ UNCHANGED <<moverVars, lightVars, file, saved>>
    \/ ThinkerTurn /\ UNCHANGED <<file, saved>>
    \/ Reload
    \/ ReadThinker
    \/ ReadCombine
    \/ Watch
    \/ P_SuspendMacro

Spec == Init /\ [][Next]_vars
-----------------------------------------------------------------------------
MoverThinkers == {t \in Live : type[t] \in Movers}

TypeOK ==
    /\ cursor \in 0 .. Len(list)
    /\ fn \in [Thinker -> {"run", "stasis", "unlink", "free"}]
    /\ home \in [Thinker -> Sector \cup {None}]
    /\ watch \in Thinker \cup {None}
    /\ specialdata \in [Sector -> Thinker \cup {None}]
    /\ plats \subseteq Thinker /\ ceilings \subseteq Thinker
    /\ \A t \in Thinker : t \in ToSet(list) <=> fn[t] # "free"
    /\ \A t \in MoverThinkers : home[t] \in Sector

(* When a line finds sector->specialdata set, something moves that sector: it  *)
(* is never a pointer to a thinker that was removed.                           *)
BusyIsLive ==
    \A s \in Sector : specialdata[s] # None =>
        specialdata[s] \in MoverThinkers /\ home[specialdata[s]] = s

(* Nothing moves a sector behind its back: a mover is what its sector's        *)
(* specialdata points to, and so no sector has two.  EV_VerticalDoor breaks    *)
(* this for doors that open for good (31 and 118).                             *)
OneMover ==
    \A t \in MoverThinkers :
        home[t] \notin ManualOpen => specialdata[home[t]] = t

(* sector->specialdata tells what moves a sector, and that alone.              *)
HeldByMover == BusyIsLive /\ OneMover

(* The tables of active plats and ceilings hold exactly the plats and ceilings *)
(* that exist: P_RemoveActivePlat always finds its plat and no slot is lost.    *)
(* What has no function is in one of them and marked as stopped, which is what *)
(* the line looks for that restarts it.                                        *)
SlotsExact ==
    /\ plats = {t \in Live : type[t] \in Plats}
    /\ ceilings = {t \in Live : type[t] \in Ceilings}
    /\ \A t \in Thinker : fn[t] = "stasis" =>
        t \in plats \cup ceilings /\ move[t] = "stasis"

(* A macro never waits for a thinker that is gone, for ever.                   *)
WatchIsLive == watch # None => watch \in Live

(* A combined light reads the light it copies by a pointer that nothing        *)
(* clears.  At its turn that light has not been freed: it comes earlier in the *)
(* list, and is only marked in the round in which it ends.                     *)
CombinerLives ==
    \A t \in Thinker :
        AtTurn(t) /\ fn[t] = "run" /\ type[t] = "combine" => peer[t] \notin Free

(* A game that was saved and loaded has the same movers in the same motion,    *)
(* and its macro waits for one of them again.  Plats in stasis are the         *)
(* exception: they are not saved.                                              *)
LastRecord == (ReadThinker \/ ReadCombine) /\ file' = <<>>

AsSaved ==
    /\ \A s \in Sector :
        s \notin saved.stopped \cup ManualOpen => MoverOf(s)' = saved.movers[s]
    /\ saved.watched => watch' # None

LoadKeepsMovers == [][LastRecord => AsSaved]_vars

(* Seen as owners of sectors, movers claim a sector only while nothing moves   *)
(* it.                                                                         *)
Owners == [s \in Sector \ ManualOpen |-> {t \in MoverThinkers : home[t] = s}]

Owner == INSTANCE SectorOwner WITH
            Sector <- Sector \ ManualOpen, Mover <- Thinker, owners <- Owners

ImplementsOwner == Owner!Spec
=============================================================================
