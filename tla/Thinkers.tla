------------------------------ MODULE Thinkers -------------------------------
(***************************************************************************)
(* The thinkers of a level (playloop/p_tick.cc): what moves sectors,       *)
(* flashes lights and counts delays.  P_AddThinker links one at the end of *)
(* a list; P_RunThinkers gives each a turn in every tic; P_RemoveThinker   *)
(* only marks one, and it is unlinked and freed when its next turn comes.  *)
(*                                                                         *)
(* fn[t] is thinker.function by what it means:                             *)
(*   "run"     one of the functions listed in type[t]                      *)
(*   "stasis"  NULL: a plat or a ceiling that was stopped                  *)
(*   "unlink"  P_UnlinkThinker                                             *)
(*   "free"    the block is not allocated                                  *)
(*                                                                         *)
(* P_Ticker is one thread.  Lines are triggered while players and mobjs    *)
(* think and while macros run, never inside P_RunThinkers: cursor = 0 is   *)
(* all of a tic outside that loop.                                         *)
(***************************************************************************)
EXTENDS Integers, FiniteSets, Ranking, SequencesExt

CONSTANTS
    Thinker,    \* addresses; a freed one is handed out again
    Sector,     \* sector numbers: the loops over tagged sectors go upwards
    None        \* NULL

ASSUME SectorsAreNumbers == Sector \subseteq Nat /\ IsFiniteSet(Sector)
ASSUME ThinkersFinite == IsFiniteSet(Thinker) /\ None \notin Thinker
ASSUME NoneIsNoSector == None \notin Sector

VARIABLES
    list,       \* thinkercap.next, ...
    cursor,     \* the place of currentthinker in the list; 0: not in P_RunThinkers
    fn,         \* thinker.function
    type,       \* which function, and the type field it looks at
    move,       \* direction or status; the special, of a combined light
    old,        \* olddirection or oldstatus
    home,       \* the sector it moves or lights
    peer,       \* combine_t.combiner
    watch       \* macrothinker

thinkerVars == <<list, cursor, fn, type, move, old, home, peer, watch>>

Free == {t \in Thinker : fn[t] = "free"}
Live == {t \in Thinker : fn[t] \in {"run", "stasis"}}

\* What at has for each of some numbers, in the order of the numbers: the
\* addresses of new thinkers in the order of their sectors, above all.
InOrder(at) ==
    [i \in 1 .. Cardinality(DOMAIN at) |-> at[Ascending(DOMAIN at)[i]]]

Where(S) == {at \in [S -> Free] : \A s, r \in S : at[s] = at[r] => s = r}

\* P_AddThinker for a new thinker of each sector in DOMAIN at.
AddThinkers(at, ty, start, before, by) ==
    LET new == {at[s] : s \in DOMAIN at}
    IN /\ list' = list \o InOrder(at)
       /\ fn' = [t \in Thinker |-> IF t \in new THEN "run" ELSE fn[t]]
       /\ type' = [t \in Thinker |-> IF t \in new THEN ty ELSE type[t]]
       /\ move' = [t \in Thinker |-> IF t \in new THEN start ELSE move[t]]
       /\ old' = [t \in Thinker |-> IF t \in new THEN before ELSE old[t]]
       /\ home' = [t \in Thinker |->
                    IF t \in new THEN CHOOSE s \in DOMAIN at : at[s] = t
                                 ELSE home[t]]
       /\ peer' = [t \in Thinker |-> IF t \in new THEN by ELSE peer[t]]

\* A thinker of no sector: delays, quakes, cameras.
AddThinker(t, ty) ==
    /\ list' = Append(list, t)
    /\ fn' = [fn EXCEPT ![t] = "run"]
    /\ type' = [type EXCEPT ![t] = ty]
    /\ move' = [move EXCEPT ![t] = "moving"]
    /\ UNCHANGED <<old, home, peer>>

P_RemoveThinker_StaysWatched(t) ==
    /\ fn' = [fn EXCEPT ![t] = "unlink"]
    /\ UNCHANGED watch

P_RemoveThinker(t) ==
    /\ fn' = [fn EXCEPT ![t] = "unlink"]
    /\ watch' = IF watch = t THEN None ELSE watch      \* P_MacroDetachThinker

\* The turn goes on to the thinker after this one; len is the length of the list.
NextTurn(len) == cursor' = IF cursor >= len THEN 0 ELSE cursor + 1

StartRound ==
    /\ cursor = 0
    /\ list # <<>>
    /\ cursor' = 1
    /\ UNCHANGED <<list, fn, type, move, old, home, peer, watch>>

AtTurn(t) == cursor # 0 /\ list[cursor] = t

P_UnlinkThinker(t) ==
    /\ AtTurn(t)
    /\ fn[t] = "unlink"
    /\ list' = RemoveAt(list, cursor)
    /\ cursor' = IF cursor = Len(list) THEN 0 ELSE cursor
    /\ fn' = [fn EXCEPT ![t] = "free"]
    /\ type' = [type EXCEPT ![t] = "none"]
    /\ move' = [move EXCEPT ![t] = "none"]
    /\ old' = [old EXCEPT ![t] = "none"]
    /\ home' = [home EXCEPT ![t] = None]
    /\ peer' = [peer EXCEPT ![t] = None]
    /\ UNCHANGED watch

\* A thinker without a function is passed over.
Skip(t) ==
    /\ AtTurn(t)
    /\ fn[t] = "stasis"
    /\ NextTurn(Len(list))
    /\ UNCHANGED <<list, fn, type, move, old, home, peer, watch>>
=============================================================================
