------------------------------- MODULE Lights --------------------------------
(***************************************************************************)
(* Flashing lights (playloop/p_lights.cc) and the sector specials that ask *)
(* for them (P_AddSectorSpecial and P_ModifySector, playloop/p_spec.cc).   *)
(*                                                                         *)
(* A light runs until its sector's special is no longer the one it was     *)
(* made for; nothing holds a pointer to it but a combined light, which     *)
(* looks at the light it copies in every tic.  Specials 1, 8, 17, 202 ...  *)
(* differ in timing only: "strobe" and "glow" stand for two of them,       *)
(* "sequence" for 205, which walks over the neighbouring sectors.          *)
(***************************************************************************)
EXTENDS Movers

CONSTANTS
    Sync,           \* sectors with MS_SYNCSPECIALS
    Next205         \* for every sector, the neighbours whose tag is one higher

VARIABLES
    special,        \* sector_t.special: "none" or a light
    todo            \* sectors whose special is still to be added in this loop

lightVars == <<special, todo>>

LightTypes == {"strobe", "glow", "sequence"}

\* The function P_CombineLightSpecials looks for: 205 is among the strobes.
Func(sp) == IF sp = "sequence" THEN "strobe" ELSE sp

IsLeast(s, S) == s \in S /\ \A r \in S : s =< r

Combiners(sp) == {i \in 1 .. Len(list) : fn[list[i]] = "run" /\ type[list[i]] = Func(sp)}

(* P_CombineLightSpecials: the sector copies the first running light of that   *)
(* function; without one nothing is made.                                      *)
P_CombineLightSpecials(s) ==
    IF Combiners(special[s]) = {}
    THEN UNCHANGED <<list, fn, type, move, old, home, peer>>
    ELSE \E i \in Combiners(special[s]) : \E at \in Where({s}) :
            /\ IsLeast(i, Combiners(special[s]))
            /\ AddThinkers(at, "combine", special[s], "none", list[i])

\* P_AddSectorSpecial; a light of its own is a new thinker.
P_AddSectorSpecial(s) ==
    CASE special[s] = "none" -> UNCHANGED <<list, fn, type, move, old, home, peer>>
      [] special[s] # "none" /\ s \in Sync -> P_CombineLightSpecials(s)
      [] OTHER -> \E at \in Where({s}) :
                    AddThinkers(at, special[s], "moving", "none", None)

\* One step of the loop of P_SpawnSpecials, or of P_ModifySector for specials.
AddNextSpecial ==
    \E s \in todo :
        /\ IsLeast(s, todo)
        /\ todo' = todo \ {s}
        /\ P_AddSectorSpecial(s)
        /\ UNCHANGED <<cursor, watch, special, moverVars>>

(* P_ModifySector with mods_special: the tagged sectors take over a special.   *)
(* Lights they have go on until their turn finds that the special is another.  *)
P_ModifySpecial(tag, sp) ==
    /\ Tagged(tag) # {}
    /\ Cardinality(Tagged(tag)) =< Cardinality(Free)     \* addresses enough for todo
    /\ special' = [s \in Sector |-> IF s \in Tagged(tag) THEN sp ELSE special[s]]
    /\ todo' = Tagged(tag)
    /\ UNCHANGED <<thinkerVars, moverVars>>

EndLight_AtOnce(t) ==
    /\ list' = RemoveAt(list, cursor)
    /\ cursor' = IF cursor = Len(list) THEN 0 ELSE cursor
    /\ fn' = [fn EXCEPT ![t] = "free"]
    /\ UNCHANGED <<type, move, old, home, peer, watch, special>>

EndLight(t) ==
    /\ P_RemoveThinker(t)
    /\ NextTurn(Len(list))
    /\ UNCHANGED <<list, type, move, old, home, peer, special>>

GoOn ==
    /\ NextTurn(Len(list))
    /\ UNCHANGED <<list, fn, type, move, old, home, peer, watch, special>>

(* T_FireFlicker, T_LightFlash, T_StrobeFlash, T_Glow: it looks at the special *)
(* only when its count runs out.                                               *)
T_Light(t) ==
    /\ AtTurn(t)
    /\ fn[t] = "run"
    /\ type[t] \in {"strobe", "glow"}
    /\ GoOn \/ (special[home[t]] # type[t] /\ EndLight(t))
    /\ UNCHANGED <<moverVars, todo>>

(* T_Sequence: when bright it lights the next sectors in the dark, one sector  *)
(* here; when the light has gone down again it takes the special away.         *)
T_Sequence(t) ==
    /\ AtTurn(t)
    /\ fn[t] = "run"
    /\ type[t] = "sequence"
    /\ IF special[home[t]] # "sequence"
       THEN EndLight(t)
       ELSE \/ GoOn
            \/ /\ P_RemoveThinker(t)
               /\ special' = [special EXCEPT ![home[t]] = "none"]
               /\ NextTurn(Len(list))
               /\ UNCHANGED <<list, type, move, old, home, peer>>
            \/ \E s \in Sector :
                /\ s \in Next205[home[t]]
                /\ special[s] = "none"
                /\ special' = [special EXCEPT ![s] = "sequence"]
                /\ \E at \in Where({s}) :
                    AddThinkers(at, "sequence", "moving", "none", None)
                /\ NextTurn(Len(list) + 1)
                /\ UNCHANGED watch
    /\ UNCHANGED <<moverVars, todo>>

(* T_Combine: it ends when the special is another or the light it copies has   *)
(* another function, and reads that light through its pointer to tell.         *)
Outlived(t) ==
    \/ special[home[t]] # move[t]
    \/ fn[peer[t]] # "run"
    \/ type[peer[t]] # Func(move[t])

T_Combine(t) ==
    /\ AtTurn(t)
    /\ fn[t] = "run"
    /\ type[t] = "combine"
    /\ IF Outlived(t) THEN EndLight(t) ELSE GoOn
    /\ UNCHANGED <<moverVars, todo>>
=============================================================================
