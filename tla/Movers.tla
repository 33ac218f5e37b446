------------------------------- MODULE Movers --------------------------------
(***************************************************************************)
(* Doors, plats, ceilings, floors, stairs and split sectors                *)
(* (playloop/p_doors.cc, p_plats.cc, p_ceilng.cc, p_floor.cc), and the     *)
(* timers of p_spec.cc and p_lights.cc that belong to no sector.           *)
(*                                                                         *)
(* A mover claims a sector by sector->specialdata, and plats and ceilings  *)
(* are also in a table of active ones, where a line finds them again to    *)
(* stop and restart them.  Heights are abstract: what T_MovePlane answers  *)
(* (ok, pastdest, stop, crushed) is any answer that way of moving can get, *)
(* and Turn says what each does.                                           *)
(***************************************************************************)
EXTENDS Thinkers

CONSTANTS
    TagOf,          \* sector_t.tag
    Maps,           \* the sets of lines a level may have
    ManualRaise,    \* sectors behind a line with special 1 or 117
    ManualOpen,     \* sectors behind a line with special 31 or 118
    Stair,          \* for every sector, the ones its two-sided lines lead up to
    MaxPlats,       \* MAXPLATS
    MaxCeilings     \* MAXCEILINGS

VARIABLES
    specialdata,    \* sector_t.specialdata
    plats,          \* activeplats: what its slots hold
    ceilings,       \* activeceilings
    lines           \* what lines do: pairs of a tag and a command; a line that
                    \* opens the door behind it for good is in it by its sector

moverVars == <<specialdata, plats, ceilings, lines>>

Doors == {"raise", "open", "close", "close30"}
Plats == {"perpetual", "downUp", "upDown", "raisePlat"}
Ceilings == {"lower", "lowerCrush", "crush", "crushOnce"}
Floors == {"floor", "split"}
Movers == Doors \cup Plats \cup Ceilings \cup Floors

(* The map gives a line with special 1 or 117 only to sectors that nothing but *)
(* doors move: EV_VerticalDoor takes whatever it finds there for a door.       *)
ASSUME ManualSectorsAreDoors ==
    \A s \in ManualRaise :
        /\ \A map \in Maps : \A line \in map :
            line[1] = TagOf[s] => line[2] \notin (Movers \ Doors) \cup {"stairs"}
        /\ \A r \in Sector : s \notin Stair[r]

(* The ways a new mover may start (EV_DoDoor, EV_DoPlat, EV_DoCeiling ...).    *)
Start(ty) ==
    CASE ty \in {"raise", "open", "upDown", "raisePlat"} -> {"up"}
      [] ty \in {"close", "close30", "downUp", "lowerCrush", "crush", "crushOnce"}
           -> {"down"}
      [] ty \in {"perpetual", "lower"} -> {"up", "down"}
      [] OTHER -> {"moving"}

(* The ways a mover of type ty that moves as m may move after its turn.        *)
(* "end": it is removed.                                                       *)
DoorTurn(ty, m) ==
    CASE ty = "raise"   -> [up |-> {"waiting"}, waiting |-> {"down"},
                            down |-> {"up", "end"}][m]
      [] ty = "close30" -> [up |-> {"end"}, waiting |-> {"up"},
                            down |-> {"up", "waiting"}][m]
      [] ty = "open"    -> [up |-> {"end"}, down |-> {"up"}][m]
      [] ty = "close"   -> [up |-> {}, down |-> {"end"}][m]

PlatTurn(ty, m) ==
    CASE ty = "downUp"    -> [up |-> {"down", "end"}, down |-> {"waiting"},
                              waiting |-> {"up", "down"}][m]
      [] ty = "upDown"    -> [up |-> {"down", "waiting"}, down |-> {"end"},
                              waiting |-> {"up", "down"}][m]
      [] ty = "perpetual" -> [up |-> {"down", "waiting"}, down |-> {"waiting"},
                              waiting |-> {"up", "down"}][m]
      [] ty = "raisePlat" -> [up |-> {"down", "end"}, down |-> {"waiting"},
                              waiting |-> {}][m]        \* it waits for count 0 - 1

CeilingTurn(ty, m) ==
    CASE ty = "crush"      -> [up |-> {"down"}, down |-> {"up"}][m]
      [] ty = "crushOnce"  -> [up |-> {"end"}, down |-> {"up"}][m]
      [] ty = "lowerCrush" -> [up |-> {"down"}, down |-> {"end"}][m]
      [] ty = "lower"      -> {"end"}

Turn(ty, m) ==
    {m} \cup (CASE ty \in Doors    -> DoorTurn(ty, m)
                [] ty \in Plats    -> PlatTurn(ty, m)
                [] ty \in Ceilings -> CeilingTurn(ty, m)
                [] OTHER           -> {"end"})      \* floors and timers

Tagged(tag) == {s \in Sector : TagOf[s] = tag}
Unclaimed_Any(S) == S
Unclaimed(S) == {s \in S : specialdata[s] = None}

\* The new movers at[s] claim their sectors.
Claims(at) ==
    specialdata' = [s \in Sector |-> IF s \in DOMAIN at THEN at[s] ELSE specialdata[s]]

\* P_ActivateInStasis, P_ActivateInStasisCeiling: the stopped ones of that tag
\* in the table of active plats or ceilings
Stopped(table, tag) ==
    {t \in table : TagOf[home[t]] = tag /\ move[t] = "stasis"}

InitMovers ==
    /\ specialdata = [s \in Sector |-> None]
    /\ plats = {}
    /\ ceilings = {}
    /\ lines \in Maps

(* A new mover of type ty for every tagged sector that nothing moves.          *)
NewMovers(tag, ty) ==
    LET S == Unclaimed(Tagged(tag))
    IN /\ S # {}
       /\ \E at \in Where(S), start \in Start(ty) :
            /\ AddThinkers(at, ty, start, "none", None)
            /\ Claims(at)
       /\ UNCHANGED <<cursor, watch, plats, ceilings, lines>>

EV_DoDoor(tag, ty) == ty \in Doors /\ NewMovers(tag, ty)
EV_DoFloor(tag, ty) == ty = "floor" /\ NewMovers(tag, ty)
EV_SplitSector(tag, ty) == ty = "split" /\ NewMovers(tag, ty)

(* The same for movers with a slot in a table: those in again, which were      *)
(* stopped, are restarted first.  No slot left is an I_Error, which ends the   *)
(* program.                                                                    *)
NewActive(tag, ty, again, table, max) ==
    LET S == Unclaimed(Tagged(tag))
    IN /\ S # {} \/ again # {}
       /\ Cardinality(table) + Cardinality(S) =< max
       /\ \E at \in Where(S), start \in Start(ty) :
            LET new == {at[s] : s \in S}
            IN /\ list' = list \o InOrder(at)
               /\ fn' = [t \in Thinker |->
                            IF t \in new \cup again THEN "run" ELSE fn[t]]
               /\ type' = [t \in Thinker |-> IF t \in new THEN ty ELSE type[t]]
               /\ move' = [t \in Thinker |-> IF t \in new THEN start
                                             ELSE IF t \in again THEN old[t]
                                             ELSE move[t]]
               /\ home' = [t \in Thinker |->
                            IF t \in new THEN CHOOSE s \in S : at[s] = t
                                         ELSE home[t]]
               /\ Claims(at)
               /\ plats' = IF ty \in Plats THEN plats \cup new ELSE plats
               /\ ceilings' = IF ty \in Ceilings THEN ceilings \cup new ELSE ceilings
       /\ UNCHANGED <<cursor, watch, old, peer, lines>>

EV_DoPlat(tag, ty) ==
    /\ ty \in Plats
    /\ NewActive(tag, ty, IF ty = "perpetual" THEN Stopped(plats, tag) ELSE {},
                 plats, MaxPlats)

EV_DoCeiling(tag, ty) ==
    /\ ty \in Ceilings
    /\ NewActive(tag, ty, IF ty = "crush" THEN Stopped(ceilings, tag) ELSE {},
                 ceilings, MaxCeilings)

EV_Stop_LetsGo(tag, table) ==
    LET S == {t \in table : TagOf[home[t]] = tag /\ move[t] # "stasis"}
    IN /\ S # {}
       /\ old' = [t \in Thinker |-> IF t \in S THEN move[t] ELSE old[t]]
       /\ move' = [t \in Thinker |-> IF t \in S THEN "stasis" ELSE move[t]]
       /\ fn' = [t \in Thinker |-> IF t \in S THEN "stasis" ELSE fn[t]]
       /\ specialdata' = [s \in Sector |->
                IF specialdata[s] \in S THEN None ELSE specialdata[s]]
       /\ UNCHANGED <<list, cursor, type, home, peer, watch, plats, ceilings, lines>>

(* The active ones of that tag lose their function until a line restarts them. *)
EV_Stop(tag, table) ==
    LET S == {t \in table : TagOf[home[t]] = tag /\ move[t] # "stasis"}
    IN /\ S # {}
       /\ old' = [t \in Thinker |-> IF t \in S THEN move[t] ELSE old[t]]
       /\ move' = [t \in Thinker |-> IF t \in S THEN "stasis" ELSE move[t]]
       /\ fn' = [t \in Thinker |-> IF t \in S THEN "stasis" ELSE fn[t]]
       /\ UNCHANGED <<list, cursor, type, home, peer, watch, moverVars>>

EV_StopPlat(tag) == EV_Stop(tag, plats)
EV_CeilingCrushStop(tag) == EV_Stop(tag, ceilings)

(* EV_BuildStairs: each unclaimed tagged sector starts a flight, which goes on *)
(* over a two-sided line to a sector nobody moves while there is one.  S is a  *)
(* set of flights of that kind.                                                *)
EV_BuildStairs(tag) ==
    \E S \in SUBSET Unclaimed(Sector) :
        /\ Unclaimed(Tagged(tag)) # {}
        /\ Unclaimed(Tagged(tag)) \subseteq S
        /\ \A s \in S \ Tagged(tag) : \E r \in S : s \in Stair[r]
        /\ \A r \in S : Unclaimed(Stair[r]) \subseteq S \/ Stair[r] \cap S # {}
        /\ \E at \in Where(S) :
            /\ AddThinkers(at, "floor", "moving", "none", None)
            /\ Claims(at)
        /\ UNCHANGED <<cursor, watch, plats, ceilings, lines>>

(* EV_VerticalDoor by a line with special 1 or 117: whatever moves the sector  *)
(* is taken for a door and turned round; a monster only opens doors.           *)
EV_VerticalDoorRaise(s, player) ==
    /\ s \in ManualRaise
    /\ <<s, "manualRaise">> \in lines
    /\ IF specialdata[s] # None
       THEN /\ move[specialdata[s]] = "down" \/ player
            /\ move' = [move EXCEPT ![specialdata[s]] =
                            IF @ = "down" THEN "up" ELSE "down"]
            /\ UNCHANGED <<list, fn, type, old, home, peer, specialdata>>
       ELSE \E at \in Where({s}) :
            /\ AddThinkers(at, "raise", "up", "none", None)
            /\ Claims(at)
    /\ UNCHANGED <<cursor, watch, plats, ceilings, lines>>

(* EV_VerticalDoor by a line with special 31 or 118, which it clears: a new    *)
(* door, even for a sector that is moved already.                              *)
EV_VerticalDoorOpen(s) ==
    /\ s \in ManualOpen
    /\ <<s, "manualOpen">> \in lines
    /\ \E at \in Where({s}) :
        /\ AddThinkers(at, "open", "up", "none", None)
        /\ Claims(at)
    /\ lines' = lines \ {<<s, "manualOpen">>}
    /\ UNCHANGED <<cursor, watch, plats, ceilings>>

\* P_SpawnDelayTimer, P_SpawnQuake, P_SetAimCamera, P_SetMovingCamera,
\* P_UpdateLightThinker and P_FadeInBrightness
P_SpawnTimer ==
    /\ \E t \in Free : AddThinker(t, "timer")
    /\ UNCHANGED <<cursor, watch, moverVars>>

\* P_RemoveActivePlat, P_RemoveActiveCeiling
RemoveActive_Plats(t) ==
    /\ plats' = plats \ {t}
    /\ UNCHANGED ceilings

RemoveActive(t) ==
    /\ plats' = plats \ {t}
    /\ ceilings' = ceilings \ {t}

(* One turn of a mover or a timer.  At its end a mover lets go of its sector   *)
(* and of its slot.                                                            *)
T_Move(t) ==
    /\ AtTurn(t)
    /\ fn[t] = "run"
    /\ type[t] \in Movers \cup {"timer"}
    /\ NextTurn(Len(list))
    /\ \E m \in Turn(type[t], move[t]) :
        IF m # "end"
        THEN /\ move' = [move EXCEPT ![t] = m]
             /\ UNCHANGED <<fn, watch, specialdata, plats, ceilings>>
        ELSE /\ P_RemoveThinker(t)
             /\ specialdata' = [s \in Sector |->
                    IF s = home[t] THEN None ELSE specialdata[s]]
             /\ RemoveActive(t)
             /\ UNCHANGED move
    /\ UNCHANGED <<list, type, old, home, peer, lines>>

(* What lines do to movers; the next-state relation of Level takes it while    *)
(* P_RunThinkers is not running.                                               *)
LineMovers ==
    \/ \E line \in lines : EV_DoDoor(line[1], line[2])
    \/ \E line \in lines : EV_DoFloor(line[1], line[2])
    \/ \E line \in lines : EV_SplitSector(line[1], line[2])
    \/ \E line \in lines : EV_DoPlat(line[1], line[2])
    \/ \E line \in lines : EV_DoCeiling(line[1], line[2])
    \/ \E line \in lines : line[2] = "stopPlats" /\ EV_StopPlat(line[1])
    \/ \E line \in lines : line[2] = "stopCeilings" /\ EV_CeilingCrushStop(line[1])
    \/ \E line \in lines : line[2] = "stairs" /\ EV_BuildStairs(line[1])
    \/ \E s \in Sector, player \in BOOLEAN : EV_VerticalDoorRaise(s, player)
    \/ \E s \in Sector : EV_VerticalDoorOpen(s)
    \/ \E line \in lines : line[2] = "timer" /\ P_SpawnTimer
=============================================================================
