------------------------------- MODULE Weapons -------------------------------
(***************************************************************************)
(* One player's weapon: playloop/p_pspr.cc, with what p_user.cc, p_inter.cc *)
(* and g_game.cc do to it.                                                 *)
(*                                                                         *)
(* A weapon is a chain of states.  Entering a state calls its action, which *)
(* may itself set another state: then "enter" names the state that comes   *)
(* next in the same tic.  The calls of P_SetPsprite nest in the code; each *)
(* is the last thing its caller does, so that a chain is the same.         *)
(*                                                                         *)
(* How long a state lasts is left open.  Heights are counted in Travel     *)
(* steps of LOWERSPEED; sounds, flashes, damage and the mobj are left out. *)
(***************************************************************************)
EXTENDS Integers, Sequences

CONSTANTS
    Weapon,         \* the weapons there are, out of AllWeapons
    NoChange,       \* wp_nochange
    None,           \* no state
    BfgCells,       \* BFGCELLS, 40 in the code
    MaxAmmo,        \* maxammo, of each type
    ClipAmmo,       \* clipammo, of each type
    StartClip,      \* bullets of a new player, 50 in the code
    MaxBeams,       \* the most beams a laser shoots, 3 in the code
    Travel,         \* steps between the top and the bottom
    Netgame         \* the kinds of game there are: netgame may be TRUE, FALSE

\* weapontype_t in its order.
AllWeapons == <<"chainsaw", "fist", "pistol", "shotgun", "supershotgun",
                "chaingun", "missile", "plasma", "bfg", "laser">>

AmmoOf(w) ==
    CASE w \in {"chainsaw", "fist"} -> "none"
      [] w \in {"pistol", "chaingun"} -> "clip"
      [] w \in {"shotgun", "supershotgun"} -> "shell"
      [] w = "missile" -> "misl"
      [] OTHER -> "cell"

\* The types of ammunition that some weapon needs.
AmmoType == {AmmoOf(w) : w \in Weapon} \ {"none"}

ASSUME WeaponAssumption ==
    /\ Weapon \subseteq {AllWeapons[i] : i \in 1 .. Len(AllWeapons)}
    /\ {"fist", "pistol"} \subseteq Weapon
    /\ NoChange \notin Weapon
ASSUME NoneAssumption ==
    None \notin [gun : Weapon, part : {"up", "down", "ready", "attack"}, at : Nat]
ASSUME AmmoAssumption ==
    /\ BfgCells \in Nat \ {0}
    /\ MaxAmmo \in [AmmoType -> Nat \ {0}]
    /\ ClipAmmo \in [AmmoType -> Nat \ {0}]
    /\ StartClip \in 0 .. MaxAmmo["clip"]
ASSUME BeamsAssumption == MaxBeams \in 1 .. 3
ASSUME TravelAssumption == Travel \in Nat \ {0}
ASSUME NetgameAssumption == Netgame \subseteq BOOLEAN

VARIABLES
    netgame,
    ready, pending, \* player->readyweapon, pendingweapon
    owned,          \* weaponowned
    ammo,           \* ammo
    beams,          \* what A_FireLaser makes of player->artifacts
    attackdown,
    attack,         \* cmd.buttons & BT_ATTACK, while a state is being entered
    life,           \* playerstate: "live", "dead", "reborn"
    healthy,        \* health # 0
    corpse,         \* the mobj has been killed
    psp,            \* psprites[ps_weapon].state
    height,         \* psprites[ps_weapon].sy: 0 at the top, Travel at the bottom
    enter,          \* the state P_SetPsprite goes to next, in the same tic
    laserCells,     \* static, of all players
    undefined       \* weaponinfo was read at wp_nochange

inventory == <<owned, ammo, beams>>
sprite == <<psp, height, enter>>
vars == <<netgame, ready, pending, owned, ammo, beams, attackdown,
          attack, life, healthy, corpse, psp, height, enter, laserCells,
          undefined>>

-----------------------------------------------------------------------------
(* weaponinfo and the states of the weapons *)

\* The actions of the states of an attack.  A state that does nothing here is
\* part of the one before it, and at the beginning a "pause".
Attack(w) ==
    CASE w = "chainsaw" -> <<"pause", "refire">>
      [] w = "fist" -> <<"pause", "refire">>
      [] w = "pistol" -> <<"pause", "fire", "refire">>
      [] w = "shotgun" -> <<"pause", "fire", "refire">>
      [] w = "supershotgun" -> <<"pause", "fire", "reload", "refire">>
      [] w = "chaingun" -> <<"fire", "fire", "refire">>
      [] w = "missile" -> <<"pause", "fire", "refire">>
      [] w = "bfg" -> <<"pause", "fire", "refire">>
      [] OTHER -> <<"fire", "refire">>

State(w, part, i) == [gun |-> w, part |-> part, at |-> i]
Up(w) == State(w, "up", 1)
Down(w) == State(w, "down", 1)
Ready(w) == State(w, "ready", 1)

Action(s) ==
    CASE s.part = "up" -> "raise"
      [] s.part = "down" -> "lower"
      [] s.part = "ready" -> "ready"
      [] OTHER -> Attack(s.gun)[s.at]

\* The states whose tics are 0: the next one is entered at once.
NoTics(s) == /\ s.gun \in {"chainsaw", "chaingun", "missile"}
             /\ Action(s) = "refire"

NextState(s) ==
    IF s.part # "attack" THEN s
    ELSE IF s.at < Len(Attack(s.gun)) THEN State(s.gun, "attack", s.at + 1)
    ELSE Ready(s.gun)

-----------------------------------------------------------------------------
(* Ammunition *)

\* As if a double barrel took one shell.
ShotCount_Single(w) ==
    CASE w = "bfg" -> BfgCells
      [] w = "laser" -> laserCells
      [] OTHER -> 1

\* P_CheckAmmo: "Minimal amount for one shot varies."
ShotCount(w) ==
    CASE w = "bfg" -> BfgCells
      [] w = "supershotgun" -> 2
      [] w = "laser" -> laserCells
      [] OTHER -> 1

EnoughAmmo(w) == IF AmmoOf(w) = "none" THEN TRUE ELSE ammo[AmmoOf(w)] >= ShotCount(w)

\* The first of its list that P_CheckAmmo finds.
Preferred ==
    IF "plasma" \in owned /\ ammo["cell"] # 0 THEN "plasma"
    ELSE IF "supershotgun" \in owned /\ ammo["shell"] > 2 THEN "supershotgun"
    ELSE IF "chaingun" \in owned /\ ammo["clip"] # 0 THEN "chaingun"
    ELSE IF "shotgun" \in owned /\ ammo["shell"] # 0 THEN "shotgun"
    ELSE IF ammo["clip"] # 0 THEN "pistol"
    ELSE IF "chainsaw" \in owned THEN "chainsaw"
    ELSE IF "missile" \in owned /\ ammo["misl"] # 0 THEN "missile"
    ELSE IF "bfg" \in owned /\ ammo["cell"] > BfgCells THEN "bfg"
    ELSE IF "laser" \in owned /\ ammo["cell"] > laserCells THEN "laser"
    ELSE "fist"

\* P_SetPsprite goes to a state next, or has come to its end.
Goes(s) == enter' = s /\ UNCHANGED attack
Stays == enter' = None /\ attack' = FALSE

\* P_CheckAmmo when there is not enough.
OutOfAmmo ==
    /\ ~EnoughAmmo(ready)
    /\ pending' = Preferred
    /\ Goes(Down(ready))

-----------------------------------------------------------------------------
(* The actions of the states *)

Enters(what) ==
    /\ enter # None
    /\ Action(enter) = what
    /\ psp' = enter
    /\ UNCHANGED <<netgame, owned, beams, life, healthy, corpse>>

\* After a state whose action set no other state.
Follows == IF NoTics(enter) THEN Goes(NextState(enter)) ELSE Stays

A_Pause ==
    /\ Enters("pause")
    /\ Stays
    /\ UNCHANGED <<ready, pending, ammo, attackdown, height, laserCells, undefined>>

\* The first state is skipped by a pistol that fires again (player->refire).
P_FireWeapon ==
    \/ /\ EnoughAmmo(ready)
       /\ \/ Goes(State(ready, "attack", 1))
          \/ ready = "pistol" /\ Goes(State(ready, "attack", 2))
       /\ height' = 0
       /\ UNCHANGED pending
    \/ /\ OutOfAmmo
       /\ UNCHANGED height

\* "get out of attack state": the weapon may be changed or fired.
A_WeaponReady ==
    /\ Enters("ready")
    /\ \/ /\ pending # NoChange \/ ~healthy
          /\ Goes(Down(ready))
          /\ UNCHANGED <<pending, attackdown, height>>
       \/ /\ pending = NoChange /\ healthy
          /\ attack
          /\ ~attackdown \/ ready \notin {"missile", "bfg"}
          /\ attackdown' = TRUE
          /\ P_FireWeapon
       \/ /\ pending = NoChange /\ healthy
          /\ attack => attackdown /\ ready \in {"missile", "bfg"}
          /\ attackdown' = attack
          /\ Stays
          /\ UNCHANGED <<pending, height>>
    /\ UNCHANGED <<ready, ammo, laserCells, undefined>>

\* As if A_ReFire did not look at the pending weapon.
A_ReFire_KeepsFiring ==
    /\ Enters("refire")
    /\ \/ /\ attack /\ healthy
          /\ P_FireWeapon
       \/ /\ ~(attack /\ healthy)
          /\ \/ OutOfAmmo
             \/ EnoughAmmo(ready) /\ Follows /\ UNCHANGED pending
          /\ UNCHANGED height
    /\ UNCHANGED <<ready, ammo, attackdown, laserCells, undefined>>

A_ReFire ==
    /\ Enters("refire")
    /\ \/ /\ attack /\ pending = NoChange /\ healthy
          /\ P_FireWeapon
       \/ /\ ~(attack /\ pending = NoChange /\ healthy)
          /\ \/ OutOfAmmo
             \/ EnoughAmmo(ready) /\ Follows /\ UNCHANGED pending
          /\ UNCHANGED height
    /\ UNCHANGED <<ready, ammo, attackdown, laserCells, undefined>>

A_CheckReload ==
    /\ Enters("reload")
    /\ \/ OutOfAmmo
       \/ EnoughAmmo(ready) /\ Stays /\ UNCHANGED pending
    /\ UNCHANGED <<ready, ammo, attackdown, height, laserCells, undefined>>

\* What a shot takes.
ShotCost(w) ==
    CASE w = "bfg" -> BfgCells
      [] w = "supershotgun" -> 2
      [] w = "laser" -> beams
      [] OTHER -> 1

\* A_FirePistol, A_FireShotgun, A_FireShotgun2, A_FireCGun, A_FireMissile,
\* A_FirePlasma, A_FireBFG and A_FireLaser.
A_Fire ==
    /\ Enters("fire")
    /\ IF enter.gun = "chaingun" /\ ammo[AmmoOf(ready)] = 0 THEN UNCHANGED ammo
       ELSE ammo' = [ammo EXCEPT ![AmmoOf(ready)] = @ - ShotCost(enter.gun)]
    /\ laserCells' = IF enter.gun = "laser" THEN beams ELSE laserCells
    /\ Stays
    /\ UNCHANGED <<ready, pending, attackdown, height, undefined>>

A_Raise ==
    /\ Enters("raise")
    /\ height' = IF height <= 1 THEN 0 ELSE height - 1
    /\ IF height <= 1 THEN Goes(Ready(ready)) ELSE Stays
    /\ UNCHANGED <<ready, pending, ammo, attackdown, laserCells, undefined>>

\* P_BringUpWeapon for the weapon w, at wp_nochange as well: it would read
\* weaponinfo behind its end.
P_BringUpWeapon(w) ==
    /\ ready' = w
    /\ pending' = NoChange
    /\ height' = Travel
    /\ IF w = NoChange THEN Stays /\ undefined' = TRUE
       ELSE Goes(Up(w)) /\ UNCHANGED undefined

A_Lower ==
    /\ Enters("lower")
    /\ UNCHANGED <<ammo, attackdown, laserCells>>
    /\ \/ /\ height + 1 < Travel
          /\ height' = height + 1
          /\ Stays
          /\ UNCHANGED <<ready, pending, undefined>>
       \/ /\ height + 1 >= Travel /\ life = "dead"
          /\ height' = Travel
          /\ Stays
          /\ UNCHANGED <<ready, pending, undefined>>
       \/ /\ height + 1 >= Travel /\ life # "dead" /\ healthy
          /\ P_BringUpWeapon(pending)

\* A_Lower of a player without health who is not PST_DEAD: the weapon is gone.
A_LowerGone ==
    /\ enter # None
    /\ Action(enter) = "lower"
    /\ height + 1 >= Travel /\ life # "dead" /\ ~healthy
    /\ psp' = None
    /\ height' = Travel
    /\ Stays
    /\ UNCHANGED <<netgame, ready, pending, inventory, attackdown,
                   life, healthy, corpse, laserCells, undefined>>

SetPsprite ==
    A_Pause \/ A_WeaponReady \/ A_ReFire \/ A_CheckReload \/ A_Fire \/ A_Raise
    \/ A_Lower \/ A_LowerGone

-----------------------------------------------------------------------------
(* P_PlayerThink *)

\* Nothing is being entered, and the program is still defined.
Idle == enter = None /\ ~undefined

\* The weapon a number key stands for.
Meant(w) ==
    IF w = "fist" /\ "chainsaw" \in owned /\ ready # "chainsaw" THEN "chainsaw"
    ELSE IF w = "shotgun" /\ "supershotgun" \in owned /\ ready # "supershotgun" THEN "supershotgun"
    ELSE w

Place(w) == CHOOSE i \in 1 .. Len(AllWeapons) : AllWeapons[i] = w

\* How far w is from the weapon "from" when one steps by dir, all the way round.
Distance(from, w, dir) ==
    LET d == (dir * (Place(w) - Place(from))) % Len(AllWeapons)
    IN IF d = 0 THEN Len(AllWeapons) ELSE d

\* The next owned weapon in a direction: the same one if there is no other.
IsNext(w, dir) ==
    LET from == IF pending = NoChange THEN ready ELSE pending
    IN \A v \in owned : Distance(from, w, dir) <= Distance(from, v, dir)

ChangeWeapon ==
    \/ UNCHANGED pending
    \/ \E w \in Weapon :
          pending' = IF Meant(w) \in owned /\ Meant(w) # ready THEN Meant(w) ELSE pending
    \/ \E dir \in {1, -1}, w \in owned : IsNext(w, dir) /\ pending' = w

\* G_DoReborn comes first; outside a net game it only asks for the level to
\* be loaded, and the player thinks on until it is.
Thinks ==
    /\ Idle
    /\ life = "reborn" => ~netgame
    /\ IF life = "dead" THEN UNCHANGED pending ELSE ChangeWeapon
    /\ UNCHANGED <<netgame, ready, inventory, attackdown, life, healthy,
                   corpse, psp, height, laserCells, undefined>>

\* P_MovePsprites in a tic in which the state lasts on, and in one in which it ends.
P_PlayerThink == Thinks /\ Stays
PspriteEnds ==
    /\ psp # None
    /\ Thinks
    /\ enter' = NextState(psp)
    /\ attack' \in BOOLEAN

\* The end of P_DeathThink, and M_RestartLevel.
UseWhenDead ==
    /\ Idle
    /\ life = "dead" \/ ~netgame
    /\ life' = "reborn"
    /\ UNCHANGED <<netgame, ready, pending, inventory, attackdown, attack,
                   healthy, corpse, sprite, laserCells, undefined>>

-----------------------------------------------------------------------------
(* The level, other players and monsters *)

\* P_SpawnPlayer with P_SetupPsprites: the weapon comes up.
P_SpawnPlayer(w) ==
    /\ life' = "live"
    /\ corpse' = FALSE
    /\ psp' = None
    /\ P_BringUpWeapon(w)

\* As if G_PlayerReborn left the weapon in the hand.
Reborn_KeepsHand(keep) ==
    /\ healthy' = TRUE
    /\ attackdown' = TRUE
    /\ owned' = {"fist", "pistol"} \cup IF keep THEN owned ELSE {}
    /\ ammo' = IF keep THEN ammo
               ELSE [t \in AmmoType |-> IF t = "clip" THEN StartClip ELSE 0]
    /\ beams' = IF keep THEN beams ELSE 1
    /\ P_SpawnPlayer(ready)
    /\ UNCHANGED <<netgame, laserCells>>

\* G_PlayerReborn, then P_SpawnPlayer.  "keep" is GF_KEEPITEMS.
Reborn(keep) ==
    /\ healthy' = TRUE
    /\ attackdown' = TRUE
    /\ owned' = {"fist", "pistol"} \cup IF keep THEN owned ELSE {}
    /\ ammo' = IF keep THEN ammo
               ELSE [t \in AmmoType |-> IF t = "clip" THEN StartClip ELSE 0]
    /\ beams' = IF keep THEN beams ELSE 1
    /\ P_SpawnPlayer("pistol")
    /\ UNCHANGED <<netgame, laserCells>>

\* G_DoReborn of a net game.
G_DoReborn ==
    /\ Idle
    /\ netgame
    /\ life = "reborn"
    /\ \E keep \in BOOLEAN : Reborn(keep)

\* The level ends, and G_DoLoadLevel sets up the next one, or this one again.
G_DoLoadLevel ==
    /\ Idle
    /\ \/ /\ life \in {"dead", "reborn"}
          /\ \E keep \in BOOLEAN : (keep => netgame) /\ Reborn(keep)
       \/ /\ life = "live"
          /\ P_SpawnPlayer(ready)
          /\ UNCHANGED <<netgame, inventory, attackdown, healthy, laserCells>>

\* As if P_KillMobj did not call P_DropWeapon.
P_KillMobj_KeepsWeapon ==
    /\ Idle
    /\ ~corpse /\ healthy
    /\ corpse' = TRUE
    /\ healthy' = FALSE
    /\ life' = "dead"
    /\ Stays
    /\ UNCHANGED <<netgame, ready, pending, inventory, attackdown,
                   psp, height, laserCells, undefined>>

\* P_DamageMobj that kills: P_KillMobj.
P_KillMobj ==
    /\ Idle
    /\ ~corpse /\ healthy
    /\ corpse' = TRUE
    /\ healthy' = FALSE
    /\ life' = "dead"
    /\ Goes(Down(ready))
    /\ UNCHANGED <<netgame, ready, pending, inventory, attackdown,
                   psp, height, laserCells, undefined>>

\* Another player, or a game that was loaded, has left its number of beams.
OthersFireLaser ==
    /\ Idle
    /\ laserCells' \in 1 .. MaxBeams
    /\ UNCHANGED <<netgame, ready, pending, inventory, attackdown, attack,
                   life, healthy, corpse, sprite, undefined>>

-----------------------------------------------------------------------------
(* Things and cheats *)

\* P_TouchSpecialThing, by a body with health; M_CheatGiveWeapon and
\* M_CheatArtifacts, by a dead player as well.
Gets ==
    /\ Idle
    /\ UNCHANGED <<netgame, ready, attackdown, attack, life, healthy, corpse,
                   sprite, laserCells, undefined>>

Filled(t, n) == IF ammo[t] + n > MaxAmmo[t] THEN MaxAmmo[t] ELSE ammo[t] + n

\* "We were down to zero, so select a new weapon."
Selected(t) ==
    IF ammo[t] # 0 THEN pending
    ELSE IF t = "clip" /\ ready = "fist"
         THEN IF "chaingun" \in owned THEN "chaingun" ELSE "pistol"
    ELSE IF t = "shell" /\ ready \in {"fist", "pistol"} /\ "shotgun" \in owned THEN "shotgun"
    ELSE IF t = "cell" /\ ready \in {"fist", "pistol"} /\ "plasma" \in owned THEN "plasma"
    ELSE IF t = "misl" /\ ready = "fist" /\ "missile" \in owned THEN "missile"
    ELSE pending

\* Ammunition, a weapon that is owned, or one type of those in a backpack.
P_GiveAmmo ==
    /\ Gets
    /\ \E t \in AmmoType :
          /\ ammo[t] # MaxAmmo[t]
          /\ \E n \in 1 .. ClipAmmo[t] : ammo' = [ammo EXCEPT ![t] = Filled(t, n)]
          /\ pending' = Selected(t)
    /\ UNCHANGED <<owned, beams>>

P_GiveWeapon ==
    /\ Gets
    /\ \E w \in Weapon \ owned :
          /\ owned' = owned \cup {w}
          /\ pending' = w
          /\ IF AmmoOf(w) = "none" THEN UNCHANGED ammo
             ELSE \E n \in 1 .. ClipAmmo[AmmoOf(w)] :
                     ammo' = [ammo EXCEPT ![AmmoOf(w)] = Filled(AmmoOf(w), n)]
    /\ UNCHANGED beams

TouchBerserk ==
    /\ Gets
    /\ healthy
    /\ pending' = IF ready # "fist" THEN "fist" ELSE pending
    /\ UNCHANGED inventory

GetArtifact ==
    /\ Gets
    /\ beams' \in {b \in 1 .. MaxBeams : b \in {beams, beams + 1}}
    /\ UNCHANGED <<pending, owned, ammo>>

\* M_CheatGod and the health boost of the features menu.
CheatHealth ==
    /\ Idle
    /\ healthy' = TRUE
    /\ UNCHANGED <<netgame, ready, pending, inventory, attackdown, attack,
                   life, corpse, sprite, laserCells, undefined>>

\* M_CheatFa, M_CheatKfa and the weapons of the features menu.
CheatArms ==
    /\ Idle
    /\ owned' = Weapon
    /\ ammo' = MaxAmmo
    /\ UNCHANGED <<netgame, ready, pending, beams, attackdown, attack,
                   life, healthy, corpse, sprite, laserCells, undefined>>

-----------------------------------------------------------------------------
\* A new player at the start of a level: G_PlayerReborn and P_SpawnPlayer.
Init ==
    /\ netgame \in Netgame
    /\ ready = "pistol" /\ pending = NoChange
    /\ owned = {"fist", "pistol"}
    /\ ammo = [t \in AmmoType |-> IF t = "clip" THEN StartClip ELSE 0]
    /\ beams = 1
    /\ attackdown = TRUE /\ attack = FALSE
    /\ life = "live" /\ healthy = TRUE /\ corpse = FALSE
    /\ psp = None /\ height = Travel /\ enter = Up("pistol")
    /\ laserCells = 1
    /\ undefined = FALSE

World ==
    UseWhenDead \/ G_DoReborn \/ G_DoLoadLevel \/ P_KillMobj \/ OthersFireLaser
    \/ P_GiveAmmo \/ P_GiveWeapon \/ TouchBerserk \/ GetArtifact
    \/ CheatHealth \/ CheatArms

Next == SetPsprite \/ P_PlayerThink \/ PspriteEnds \/ World

Spec == Init /\ [][Next]_vars

\* A call of P_SetPsprite comes to its end, and every state lasts a number of
\* tics: players think in every tic.
Fairness == WF_vars(SetPsprite) /\ SF_vars(PspriteEnds)
FairSpec == Spec /\ Fairness

-----------------------------------------------------------------------------
(* Properties *)

\* Every variable has a value of its type: p_pspr.cc, d_player.h.
TypeOK ==
    /\ netgame \in BOOLEAN /\ attackdown \in BOOLEAN
    /\ attack \in BOOLEAN /\ healthy \in BOOLEAN /\ corpse \in BOOLEAN
    /\ undefined \in BOOLEAN
    /\ life \in {"live", "dead", "reborn"}
    /\ ready \in Weapon \cup {NoChange} /\ pending \in Weapon \cup {NoChange}
    /\ owned \subseteq Weapon
    /\ ammo \in [AmmoType -> Int]
    /\ beams \in 1 .. MaxBeams
    /\ height \in 0 .. Travel
    /\ laserCells \in 1 .. MaxBeams

\* What A_WeaponReady says of a weapon change, "pending weapon should allready
\* be validated": a player holds a weapon he owns, the states that run are that
\* weapon's, and A_Lower never raises wp_nochange, which lies behind the end of
\* weaponinfo.  The one exception needs a cheat: a dead player who is given
\* health in a game of one.
WeaponIsReal ==
    /\ undefined => corpse /\ healthy /\ ~netgame
    /\ ~undefined =>
          /\ ready \in owned
          /\ pending \in owned \cup {NoChange}
          /\ psp # None /\ enter = None => psp.gun = ready
          /\ enter # None => enter.gun = ready

\* No shot takes what is not there (P_CheckAmmo and the shots are states
\* apart), but for the laser: laserCells is what the last laser of anyone has
\* used, so that at most two cells too many are taken.
DebtIsSmall ==
    \A t \in AmmoType : ammo[t] >= IF t = "cell" THEN 1 - MaxBeams ELSE 0

\* P_DropWeapon, "Player died, so put the weapon away": until a new level or a
\* new life, no state of a dead player's weapon but its lowering is entered.
CorpseIsDisarmed ==
    corpse /\ life = "dead" => IF enter = None THEN psp = None \/ psp.part = "down"
                               ELSE enter.part = "down"

\* A_ReFire, "if a weaponchange is pending, let it go through instead": whatever
\* the fire button does, a change of weapon that a living player asks for or is
\* given comes to its end.
ChangeGoesThrough == []<>(pending = NoChange \/ life # "live")

-----------------------------------------------------------------------------
(* What the comments claim (README, section 6) *)

\* P_CheckAmmo, "Returns true if there is enough ammo to shoot."
EnoughMeansEnough == \A t \in AmmoType : ammo[t] >= 0

\* A_WeaponReady, "pending weapon should allready be validated", without the
\* exception of WeaponIsReal.
NeverUndefined == ~undefined

\* A_WeaponReady, "the missile launcher and bfg do not auto fire": with the
\* button held all the time, no shot follows the other.
NoAutoFire ==
    [][A_ReFire /\ ready \in {"missile", "bfg"} => enter' = None \/ enter'.part # "attack"]_vars

\* P_CheckAmmo, "Out of ammo, pick a weapon to change to": one with ammunition.
PickCanFire ==
    [][pending' # pending /\ (A_WeaponReady \/ A_ReFire \/ A_CheckReload) =>
         \/ AmmoOf(pending') = "none"
         \/ ammo[AmmoOf(pending')] >= ShotCount(pending')]_vars
===============================================================================
