---------------------------- MODULE WeaponsProofs ----------------------------
(***************************************************************************)
(* Proofs about Weapons, for every set of weapons that has the fist and    *)
(* the pistol, every amount of ammunition and both kinds of game.          *)
(* IInv is inductive.  Its parts say                                       *)
(*   - Hand: the running state is that of the weapon in the hand, which is *)
(*     owned, as is the one that is pending,                               *)
(*   - Lives: how playerstate, health and the corpse go together,          *)
(*   - Lowering: a weapon that comes down in a living hand makes room for  *)
(*     another, so that A_Lower has something to raise,                    *)
(*   - Disarmed: CorpseIsDisarmed, of the state that runs or is entered,   *)
(*   - Stock: how much ammunition there can be,                            *)
(*   - Armed: a shot that is still to come has its ammunition, although    *)
(*     P_CheckAmmo was asked some states before.                           *)
(***************************************************************************)
EXTENDS Weapons, TLAPS

Parts == {"up", "down", "ready", "attack"}
Records == [gun : Weapon, part : Parts, at : Nat]
States == {s \in Records : s.part = "attack" => s.at \in 1 .. Len(Attack(s.gun))}

\* The state that is being entered, or lasts.
Current == IF enter # None THEN enter ELSE psp

\* Where the only shot of an attack is; a chaingun asks before each of its two.
FireAt(w) ==
    CASE w \in {"pistol", "shotgun", "supershotgun", "missile", "bfg"} -> 2
      [] w \in {"plasma", "laser"} -> 1
      [] OTHER -> 0

\* What is there for certain when P_CheckAmmo has said yes.
Need(w) ==
    CASE w = "bfg" -> BfgCells
      [] w = "supershotgun" -> 2
      [] OTHER -> 1

\* A shot of s is still to come.
ToFire(s) ==
    /\ s.part = "attack"
    /\ IF enter # None THEN s.at <= FireAt(s.gun) ELSE s.at < FireAt(s.gun)

Least(t) == IF t = "cell" THEN 1 - MaxBeams ELSE 0

Types == TypeOK /\ psp \in States \cup {None} /\ enter \in States \cup {None}

Hand ==
    IF undefined THEN enter = None /\ corpse /\ healthy /\ ~netgame
    ELSE /\ ready \in owned /\ {"fist", "pistol"} \subseteq owned
         /\ pending \in owned \cup {NoChange}
         /\ Current # None => Current.gun = ready

Lives ==
    /\ life = "live" => ~corpse
    /\ life = "dead" => corpse
    /\ ~corpse => healthy
    /\ life = "reborn" /\ netgame => corpse /\ enter = None

Lowering == ~corpse => Current # None /\ (Current.part = "down" => pending # NoChange)

Disarmed == corpse /\ life = "dead" => Current = None \/ Current.part = "down"

Stock == \A t \in AmmoType : ammo[t] >= Least(t) /\ ammo[t] <= MaxAmmo[t]

Armed == Current # None /\ ToFire(Current) => ammo[AmmoOf(Current.gun)] >= Need(Current.gun)

IInv == Types /\ Hand /\ Lives /\ Lowering /\ Disarmed /\ Stock /\ Armed

-----------------------------------------------------------------------------
(* The tables *)

AllNames == {"chainsaw", "fist", "pistol", "shotgun", "supershotgun",
             "chaingun", "missile", "plasma", "bfg", "laser"}

LEMMA WeaponNames == Weapon \subseteq AllNames
<1>1. Len(AllWeapons) = 10
  BY DEF AllWeapons
<1>2. \A i \in 1 .. 10 : AllWeapons[i] \in AllNames
  BY DEF AllWeapons, AllNames
<1> QED BY <1>1, <1>2, WeaponAssumption

LEMMA AmmoNames ==
    /\ AmmoType \subseteq {"clip", "shell", "misl", "cell"}
    /\ "clip" \in AmmoType
    /\ \A w \in Weapon : AmmoOf(w) = "none" \/ AmmoOf(w) \in AmmoType
BY WeaponAssumption DEF AmmoType, AmmoOf

\* What the table of the attacks says.
LEMMA AttackTable ==
    ASSUME NEW w \in Weapon
    PROVE  /\ Len(Attack(w)) \in Nat /\ Len(Attack(w)) >= FireAt(w)
           /\ Len(Attack(w)) >= 1
           /\ FireAt(w) # 0 => AmmoOf(w) \in AmmoType
           /\ \A i \in 1 .. Len(Attack(w)) :
                /\ Attack(w)[i] \in {"pause", "fire", "refire", "reload"}
                /\ Attack(w)[i] = "fire" => AmmoOf(w) \in AmmoType
                /\ Attack(w)[i] = "fire" /\ w # "chaingun" => FireAt(w) = i
                /\ Attack(w)[i] = "pause" => FireAt(w) # 1 /\ i = 1
                /\ Attack(w)[i] \in {"refire", "reload"} => FireAt(w) < i
<1>1. w \in AllNames
  BY WeaponNames
<1>2. AmmoOf(w) # "none" => AmmoOf(w) \in AmmoType
  BY AmmoNames
<1>3. CASE w \in {"chainsaw", "fist"}
  BY <1>1, <1>2, <1>3 DEF Attack, FireAt, AmmoOf
<1>4. CASE w \in {"pistol", "shotgun", "missile", "bfg"}
  BY <1>1, <1>2, <1>4 DEF Attack, FireAt, AmmoOf
<1>5. CASE w = "supershotgun"
  BY <1>1, <1>2, <1>5 DEF Attack, FireAt, AmmoOf
<1>6. CASE w = "chaingun"
  BY <1>1, <1>2, <1>6 DEF Attack, FireAt, AmmoOf
<1>7. CASE w \in {"plasma", "laser"}
  BY <1>1, <1>2, <1>7 DEF Attack, FireAt, AmmoOf
<1> QED BY <1>1, <1>3, <1>4, <1>5, <1>6, <1>7 DEF AllNames

-----------------------------------------------------------------------------
(* States *)

LEMMA StatesAreNot == \A s \in States : s # None
BY NoneAssumption DEF States, Records, Parts

\* The states a weapon can be put into.
LEMMA Entries ==
    ASSUME NEW w \in Weapon
    PROVE  /\ Up(w) \in States /\ Up(w).gun = w /\ Up(w).part = "up"
           /\ Down(w) \in States /\ Down(w).gun = w /\ Down(w).part = "down"
           /\ Ready(w) \in States /\ Ready(w).gun = w /\ Ready(w).part = "ready"
           /\ \A i \in 1 .. Len(Attack(w)) :
                /\ State(w, "attack", i) \in States
                /\ State(w, "attack", i).gun = w
                /\ State(w, "attack", i).part = "attack"
                /\ State(w, "attack", i).at = i
BY AttackTable DEF Up, Down, Ready, State, States, Records, Parts

\* The action of a state tells which part of the weapon's states it is in.
LEMMA ActionTells ==
    ASSUME NEW s \in States
    PROVE  /\ s.gun \in Weapon /\ s.part \in Parts /\ s.at \in Nat
           /\ Action(s) = "raise" <=> s.part = "up"
           /\ Action(s) = "lower" <=> s.part = "down"
           /\ Action(s) = "ready" <=> s.part = "ready"
           /\ s.part = "attack" =>
                s.at \in 1 .. Len(Attack(s.gun)) /\ Action(s) = Attack(s.gun)[s.at]
<1>1. s \in Records /\ (s.part = "attack" => s.at \in 1 .. Len(Attack(s.gun)))
  BY DEF States
<1>2. s.gun \in Weapon /\ s.part \in Parts /\ s.at \in Nat
  BY <1>1 DEF Records
<1>3. CASE s.part = "attack"
  BY <1>1, <1>2, <1>3, AttackTable DEF Action
<1> QED BY <1>1, <1>2, <1>3 DEF Action, Parts

\* An attack goes on to its next state, and ends at the ready state.
LEMMA NextTells ==
    ASSUME NEW s \in States
    PROVE  /\ NextState(s) \in States /\ NextState(s).gun = s.gun
           /\ s.part # "attack" => NextState(s) = s
           /\ s.part = "attack" =>
                \/ NextState(s).part = "attack" /\ NextState(s).at = s.at + 1
                \/ NextState(s).part = "ready"
<1>1. s.gun \in Weapon /\ s.at \in Nat
  BY ActionTells
<1>2. Len(Attack(s.gun)) \in Nat
  BY <1>1, AttackTable
<1>3. CASE s.part # "attack"
  BY <1>3 DEF NextState
<1>4. CASE s.part = "attack" /\ s.at < Len(Attack(s.gun))
  <2>1. s.at + 1 \in 1 .. Len(Attack(s.gun))
    BY <1>1, <1>2, <1>4
  <2>2. NextState(s) = State(s.gun, "attack", s.at + 1)
    BY <1>4 DEF NextState
  <2> QED BY <1>1, <1>4, <2>1, <2>2, Entries
<1>5. CASE s.part = "attack" /\ ~(s.at < Len(Attack(s.gun)))
  <2>1. NextState(s) = Ready(s.gun)
    BY <1>5 DEF NextState
  <2> QED BY <1>1, <1>5, <2>1, Entries
<1> QED BY <1>3, <1>4, <1>5

-----------------------------------------------------------------------------
(* Ammunition *)

\* P_CheckAmmo says yes only if there is what Need says.
LEMMA EnoughIsNeed ==
    ASSUME IInv, ready \in Weapon, EnoughAmmo(ready), AmmoOf(ready) \in AmmoType
    PROVE  ammo[AmmoOf(ready)] >= Need(ready)
<1>1. laserCells \in 1 .. MaxBeams /\ ammo[AmmoOf(ready)] \in Int
  BY DEF IInv, Types, TypeOK
<1>2. AmmoOf(ready) # "none"
  BY DEF AmmoType
<1>3. ammo[AmmoOf(ready)] >= ShotCount(ready)
  BY <1>2 DEF EnoughAmmo
<1> QED BY <1>1, <1>3, AmmoAssumption, BeamsAssumption DEF ShotCount, Need

\* P_CheckAmmo picks a weapon that is owned.
LEMMA PickIsOwned ==
    ASSUME {"fist", "pistol"} \subseteq owned
    PROVE  Preferred \in owned
BY DEF Preferred

-----------------------------------------------------------------------------
(* The ways in which a state is left by P_SetPsprite *)

\* A state that has been entered and stays.
LEMMA StaysStep ==
    ASSUME IInv, enter # None, psp' = enter, Stays,
           UNCHANGED <<netgame, ready, pending, owned, life, healthy, corpse, undefined>>,
           TypeOK', Stock',
           enter.part = "attack" /\ enter.at < FireAt(enter.gun) =>
               ammo'[AmmoOf(enter.gun)] >= Need(enter.gun)
    PROVE  IInv'
<1>1. Current = enter /\ Current' = enter /\ enter' = None
  BY DEF Current, Stays
<1>2. ~ undefined
  BY DEF IInv, Hand
<1>3. Types'
  BY <1>1 DEF IInv, Types
<1>4. Hand'
  BY <1>1, <1>2 DEF IInv, Hand
<1>5. Lives'
  BY <1>1 DEF IInv, Lives
<1>6. Lowering' /\ Disarmed'
  BY <1>1 DEF IInv, Lowering, Disarmed
<1>7. Armed'
  BY <1>1 DEF Armed, ToFire
<1> QED BY <1>3, <1>4, <1>5, <1>6, <1>7 DEF IInv

\* A state that sets another one.
LEMMA GoesStep ==
    ASSUME IInv, enter # None, psp' = enter, NEW s \in States, Goes(s), s.gun = ready,
           UNCHANGED <<netgame, ready, owned, ammo, life, healthy, corpse, undefined>>,
           TypeOK', pending' \in owned \cup {NoChange},
           ~corpse /\ s.part = "down" => pending' # NoChange,
           corpse /\ life = "dead" => s.part = "down",
           s.part = "attack" /\ s.at <= FireAt(s.gun) => ammo[AmmoOf(s.gun)] >= Need(s.gun)
    PROVE  IInv'
<1>1. s # None
  BY StatesAreNot
<1>2. enter' = s /\ Current' = s
  BY <1>1 DEF Goes, Current
<1>3. ~ undefined
  BY DEF IInv, Hand
<1>4. Types'
  BY <1>2 DEF IInv, Types
<1>5. Hand'
  BY <1>1, <1>2, <1>3 DEF IInv, Hand
<1>6. Lives'
  BY DEF IInv, Lives
<1>7. Lowering' /\ Disarmed'
  BY <1>1, <1>2 DEF Lowering, Disarmed
<1>8. Armed'
  BY <1>1, <1>2 DEF Armed, ToFire
<1>9. Stock'
  BY DEF IInv, Stock
<1> QED BY <1>4, <1>5, <1>6, <1>7, <1>8, <1>9 DEF IInv

\* What holds while P_SetPsprite is at work.
LEMMA Entered ==
    ASSUME IInv, enter # None
    PROVE  /\ enter \in States /\ enter.gun = ready /\ Current = enter
           /\ ready \in owned /\ ready \in Weapon /\ ~undefined
           /\ {"fist", "pistol"} \subseteq owned
           /\ pending \in owned \cup {NoChange}
           /\ owned \subseteq Weapon
           /\ corpse /\ life = "dead" => enter.part = "down"
<1>1. Current = enter
  BY DEF Current
<1>2. ~undefined
  BY DEF IInv, Hand
<1> QED BY <1>1, <1>2 DEF IInv, Types, TypeOK, Hand, Disarmed

\* P_CheckAmmo says no: the weapon goes down for another one.
LEMMA OutOfAmmoStep ==
    ASSUME IInv, enter # None, psp' = enter, OutOfAmmo, attackdown' \in BOOLEAN,
           UNCHANGED <<netgame, ready, owned, beams, ammo, life, healthy, corpse, height,
                       laserCells, undefined>>
    PROVE  IInv'
<1>1. Down(ready) \in States /\ Down(ready).gun = ready /\ Down(ready).part = "down"
  BY Entered, Entries
<1>2. pending' \in owned /\ pending' \in Weapon /\ pending' # NoChange
  BY Entered, PickIsOwned, WeaponAssumption DEF OutOfAmmo
<1>3. Goes(Down(ready))
  BY DEF OutOfAmmo
<1>4. TypeOK'
  BY <1>2, <1>3 DEF IInv, Types, TypeOK, Goes
<1> QED BY <1>1, <1>2, <1>3, <1>4, GoesStep

\* P_FireWeapon: the shot, or another weapon.
LEMMA FireStep ==
    ASSUME IInv, enter # None, psp' = enter, P_FireWeapon, attackdown' \in BOOLEAN,
           enter.part # "down",
           UNCHANGED <<netgame, ready, owned, beams, ammo, life, healthy, corpse,
                       laserCells, undefined>>
    PROVE  IInv'
<1>1. CASE OutOfAmmo /\ UNCHANGED height
  BY <1>1, OutOfAmmoStep
<1>2. ASSUME EnoughAmmo(ready), UNCHANGED pending, height' = 0,
             NEW i \in {1, 2}, i <= Len(Attack(ready)), Goes(State(ready, "attack", i))
      PROVE  IInv'
  <2>1. i \in 1 .. Len(Attack(ready))
    BY <1>2, Entered, AttackTable
  <2> DEFINE s == State(ready, "attack", i)
  <2>2. s \in States /\ s.gun = ready /\ s.part = "attack" /\ s.at = i
    BY <2>1, Entered, Entries
  <2>3. s.at <= FireAt(s.gun) => ammo[AmmoOf(s.gun)] >= Need(s.gun)
    BY <1>2, <2>2, Entered, AttackTable, EnoughIsNeed
  <2>4. TypeOK'
    BY <1>2, TravelAssumption DEF IInv, Types, TypeOK, Goes
  <2> HIDE DEF s
  <2>5. Goes(s)
    BY <1>2 DEF s
  <2> QED BY <1>2, <2>2, <2>3, <2>4, <2>5, Entered, GoesStep
<1>3. CASE /\ EnoughAmmo(ready) /\ height' = 0 /\ UNCHANGED pending
           /\ \/ Goes(State(ready, "attack", 1))
              \/ ready = "pistol" /\ Goes(State(ready, "attack", 2))
  <2>1. Len(Attack(ready)) \in Nat /\ Len(Attack(ready)) >= 1
    BY Entered, AttackTable
  <2>2. ready = "pistol" => Len(Attack(ready)) >= 2
    BY DEF Attack
  <2> QED BY <1>2, <1>3, <2>1, <2>2
<1> QED BY <1>1, <1>3 DEF P_FireWeapon

-----------------------------------------------------------------------------
(* The actions of the states *)

LEMMA PauseStep == ASSUME IInv, A_Pause PROVE IInv'
<1>1. enter # None /\ Action(enter) = "pause" /\ psp' = enter
  BY DEF A_Pause, Enters
<1>2. enter.gun \in Weapon /\ enter.part \in Parts /\ enter.at \in Nat
  BY <1>1, Entered, ActionTells
<1>3. TypeOK'
  BY DEF IInv, Types, TypeOK, A_Pause, Enters, Stays
<1>4. Stock'
  BY DEF IInv, Stock, A_Pause, Enters
<1>5. enter.part = "attack" /\ enter.at < FireAt(enter.gun) =>
        ammo'[AmmoOf(enter.gun)] >= Need(enter.gun)
  <2>1. FireAt(enter.gun) \in Nat
    BY DEF FireAt
  <2> QED BY <1>1, <1>2, <2>1, Entered DEF IInv, Armed, ToFire, A_Pause, Enters
<1> QED BY <1>1, <1>3, <1>4, <1>5, StaysStep DEF A_Pause, Enters

LEMMA ReadyStep == ASSUME IInv, A_WeaponReady PROVE IInv'
<1>1. enter # None /\ Action(enter) = "ready" /\ psp' = enter
  BY DEF A_WeaponReady, Enters
<1>2. enter.part = "ready" /\ enter \in States
  BY <1>1, Entered, ActionTells
<1>3. UNCHANGED <<netgame, ready, owned, beams, ammo, life, healthy, corpse,
                  laserCells, undefined>>
  BY DEF A_WeaponReady, Enters
<1>4. CASE /\ pending # NoChange \/ ~healthy
           /\ Goes(Down(ready))
           /\ UNCHANGED <<pending, attackdown, height>>
  <2>1. Down(ready) \in States /\ Down(ready).gun = ready /\ Down(ready).part = "down"
    BY <1>1, Entered, Entries
  <2>2. TypeOK'
    BY <1>3, <1>4 DEF IInv, Types, TypeOK, Goes
  <2>3. ~corpse => pending # NoChange
    BY <1>4 DEF IInv, Lives
  <2> QED BY <1>1, <1>3, <1>4, <2>1, <2>2, <2>3, Entered, GoesStep
<1>5. CASE attackdown' = TRUE /\ P_FireWeapon
  BY <1>1, <1>2, <1>3, <1>5, FireStep
<1>6. CASE attackdown' = attack /\ Stays /\ UNCHANGED <<pending, height>>
  <2>1. TypeOK'
    BY <1>3, <1>6 DEF IInv, Types, TypeOK, Stays
  <2>2. Stock'
    BY <1>3 DEF IInv, Stock
  <2> QED BY <1>1, <1>2, <1>3, <1>6, <2>1, <2>2, StaysStep
<1> QED BY <1>4, <1>5, <1>6 DEF A_WeaponReady

\* After its shot an attack has none left, or asks again.
LEMMA NoShotLeft ==
    ASSUME NEW s \in States, s.part = "attack", Action(s) \in {"refire", "reload"}
    PROVE  ~(s.at < FireAt(s.gun)) /\ ~(s.at + 1 < FireAt(s.gun))
           /\ ~(s.at + 1 <= FireAt(s.gun))
<1>1. s.gun \in Weapon /\ s.at \in 1 .. Len(Attack(s.gun)) /\ Action(s) = Attack(s.gun)[s.at]
  BY ActionTells
<1>2. FireAt(s.gun) < s.at /\ FireAt(s.gun) \in Nat
  BY <1>1, AttackTable DEF FireAt
<1> QED BY <1>1, <1>2

LEMMA ReFireStep == ASSUME IInv, A_ReFire PROVE IInv'
<1>1. enter # None /\ Action(enter) = "refire" /\ psp' = enter
  BY DEF A_ReFire, Enters
<1>2. enter \in States /\ enter.part = "attack"
  BY <1>1, Entered, ActionTells DEF Parts
<1>3. UNCHANGED <<netgame, ready, owned, beams, ammo, life, healthy, corpse, attackdown,
                  laserCells, undefined>>
  BY DEF A_ReFire, Enters
<1>4. attackdown' \in BOOLEAN
  BY <1>3 DEF IInv, Types, TypeOK
<1>5. CASE P_FireWeapon
  BY <1>1, <1>2, <1>3, <1>4, <1>5, FireStep
<1>6. CASE OutOfAmmo /\ UNCHANGED height
  BY <1>1, <1>3, <1>4, <1>6, OutOfAmmoStep
<1>7. CASE Follows /\ UNCHANGED <<pending, height>>
  <2>1. CASE Goes(NextState(enter))
    <3>1. NextState(enter) \in States /\ NextState(enter).gun = ready
          /\ NextState(enter).part # "down"
      BY <1>1, <1>2, Entered, NextTells
    <3>2. TypeOK'
      BY <1>3, <1>7, <2>1 DEF IInv, Types, TypeOK, Goes
    <3>3. NextState(enter).part = "attack" =>
            ~(NextState(enter).at <= FireAt(NextState(enter).gun))
      BY <1>1, <1>2, <3>1, NextTells, NoShotLeft, Entered
    <3> QED BY <1>1, <1>2, <1>3, <1>7, <2>1, <3>1, <3>2, <3>3, Entered, GoesStep
  <2>2. CASE Stays
    <3>1. TypeOK'
      BY <1>3, <1>7, <2>2 DEF IInv, Types, TypeOK, Stays
    <3>2. Stock'
      BY <1>3 DEF IInv, Stock
    <3> QED BY <1>1, <1>2, <1>3, <1>7, <2>2, <3>1, <3>2, NoShotLeft, StaysStep
  <2> QED BY <1>7, <2>1, <2>2 DEF Follows
<1> QED BY <1>5, <1>6, <1>7 DEF A_ReFire

LEMMA ReloadStep == ASSUME IInv, A_CheckReload PROVE IInv'
<1>1. enter # None /\ Action(enter) = "reload" /\ psp' = enter
  BY DEF A_CheckReload, Enters
<1>2. enter \in States /\ enter.part = "attack"
  BY <1>1, Entered, ActionTells DEF Parts
<1>3. UNCHANGED <<netgame, ready, owned, beams, ammo, life, healthy, corpse, attackdown,
                  height, laserCells, undefined>>
  BY DEF A_CheckReload, Enters
<1>4. attackdown' \in BOOLEAN
  BY <1>3 DEF IInv, Types, TypeOK
<1>5. CASE OutOfAmmo
  BY <1>1, <1>3, <1>4, <1>5, OutOfAmmoStep
<1>6. CASE Stays /\ UNCHANGED pending
  <2>1. TypeOK'
    BY <1>3, <1>6 DEF IInv, Types, TypeOK, Stays
  <2>2. Stock'
    BY <1>3 DEF IInv, Stock
  <2> QED BY <1>1, <1>2, <1>3, <1>6, <2>1, <2>2, NoShotLeft, StaysStep
<1> QED BY <1>5, <1>6 DEF A_CheckReload

\* A shot takes no more than there is; a laser may take MaxBeams where one is.
LEMMA ShotStep == ASSUME IInv, A_Fire PROVE IInv'
<1>1. enter # None /\ Action(enter) = "fire" /\ psp' = enter /\ Stays
      /\ UNCHANGED <<netgame, ready, pending, owned, beams, life, healthy, corpse,
                     attackdown, height, undefined>>
  BY DEF A_Fire, Enters
<1>2. enter \in States /\ enter.gun = ready /\ enter.part = "attack" /\ Current = enter
  BY <1>1, Entered, ActionTells DEF Parts
<1>3. enter.gun \in Weapon /\ enter.at \in 1 .. Len(Attack(enter.gun))
      /\ Attack(enter.gun)[enter.at] = "fire"
  BY <1>1, <1>2, ActionTells
<1> DEFINE g == enter.gun
           t == AmmoOf(g)
<1>4. t \in AmmoType /\ (g # "chaingun" => FireAt(g) = enter.at)
  BY <1>3, AttackTable
<1>5. /\ ammo \in [AmmoType -> Int] /\ beams \in 1 .. MaxBeams /\ MaxAmmo[t] \in Nat
      /\ ammo[t] >= Least(t) /\ ammo[t] <= MaxAmmo[t]
  BY <1>4, AmmoAssumption DEF IInv, Types, TypeOK, Stock
<1>6. FireAt("chaingun") = 0
  BY DEF FireAt
<1>7. g # "chaingun" => ammo[t] >= Need(g)
  <2>1. g # "chaingun" => ToFire(Current)
    BY <1>1, <1>2, <1>3, <1>4 DEF ToFire
  <2> QED BY <1>1, <1>2, <2>1, Entered, StatesAreNot DEF IInv, Armed
<1>8. /\ ShotCost(g) \in Nat
      /\ g = "laser" => t = "cell" /\ Need(g) = 1 /\ ShotCost(g) <= MaxBeams
      /\ g # "laser" => ShotCost(g) = Need(g)
      /\ g = "chaingun" => ShotCost(g) = 1 /\ t = "clip"
  BY <1>5, AmmoAssumption, BeamsAssumption DEF ShotCost, Need, AmmoOf
<1>9. /\ ammo' \in [AmmoType -> Int]
      /\ \A u \in AmmoType \ {t} : ammo'[u] = ammo[u]
      /\ ammo'[t] = ammo[t] - ShotCost(g) \/ (g = "chaingun" /\ ammo[t] = 0 /\ ammo' = ammo)
      /\ g = "chaingun" /\ ammo[t] = 0 => ammo' = ammo
  BY <1>2, <1>4, <1>5, <1>8 DEF A_Fire
<1> HIDE DEF g, t
<1>10. Stock'
  <2>1. Least(t) \in Int /\ Least(t) <= 0 /\ (t = "cell" => Least(t) = 1 - MaxBeams)
        /\ (t = "clip" => Least(t) = 0) /\ MaxBeams \in Nat
    BY BeamsAssumption DEF Least
  <2>2. Need(g) \in Nat
    BY AmmoAssumption DEF Need
  <2>3. ammo'[t] >= Least(t) /\ ammo'[t] <= MaxAmmo[t]
    BY <1>4, <1>5, <1>7, <1>8, <1>9, <2>1, <2>2
  <2> QED BY <1>4, <1>9, <2>3 DEF IInv, Stock
<1>11. TypeOK'
  BY <1>1, <1>5, <1>9 DEF IInv, Types, TypeOK, Stays, A_Fire
<1>12. ~(enter.at < FireAt(enter.gun))
  BY <1>3, <1>4, <1>6 DEF g
<1> QED BY <1>1, <1>2, <1>10, <1>11, <1>12, StaysStep

LEMMA RaiseStep == ASSUME IInv, A_Raise PROVE IInv'
<1>1. enter # None /\ Action(enter) = "raise" /\ psp' = enter
  BY DEF A_Raise, Enters
<1>2. enter \in States /\ enter.part = "up"
  BY <1>1, Entered, ActionTells
<1>3. UNCHANGED <<netgame, ready, pending, owned, beams, ammo, life, healthy, corpse,
                  attackdown, laserCells, undefined>>
  BY DEF A_Raise, Enters
<1>4. TypeOK'
  <2>1. height' \in 0 .. Travel
    BY TravelAssumption DEF IInv, Types, TypeOK, A_Raise
  <2>2. attack' \in BOOLEAN
    BY DEF IInv, Types, TypeOK, A_Raise, Goes, Stays
  <2> QED BY <1>3, <2>1, <2>2 DEF IInv, Types, TypeOK
<1>5. CASE Goes(Ready(ready))
  BY <1>1, <1>2, <1>3, <1>4, <1>5, Entered, Entries, GoesStep
<1>6. CASE Stays
  <2>1. Stock'
    BY <1>3 DEF IInv, Stock
  <2> QED BY <1>1, <1>2, <1>3, <1>4, <1>6, <2>1, StaysStep
<1> QED BY <1>5, <1>6 DEF A_Raise

\* P_BringUpWeapon at the end of A_Lower: there is a weapon to bring up, or a
\* dead player has been given health and waits for his level.
LEMMA BringUpStep ==
    ASSUME IInv, Enters("lower"), life # "dead", healthy, P_BringUpWeapon(pending),
           UNCHANGED <<ammo, attackdown, laserCells>>
    PROVE  IInv'
<1>1. enter # None /\ Action(enter) = "lower" /\ psp' = enter
      /\ UNCHANGED <<netgame, owned, beams, life, healthy, corpse>>
  BY DEF Enters
<1>2. enter \in States /\ enter.part = "down" /\ Current = enter
  BY <1>1, Entered, ActionTells
<1>3. ready' = pending /\ pending' = NoChange /\ height' = Travel
      /\ UNCHANGED <<ammo, attackdown, laserCells>>
  BY DEF P_BringUpWeapon
<1>4. TypeOK' /\ Stock' /\ Lives'
  <2>1. height' \in 0 .. Travel
    BY <1>3, TravelAssumption
  <2>2. attack' \in BOOLEAN /\ undefined' \in BOOLEAN
    BY DEF IInv, Types, TypeOK, P_BringUpWeapon, Goes, Stays
  <2>3. TypeOK'
    BY <1>1, <1>3, <2>1, <2>2 DEF IInv, Types, TypeOK
  <2> QED BY <1>1, <1>3, <2>3 DEF IInv, Stock, Lives
<1>5. CASE pending = NoChange
  <2>1. enter' = None /\ undefined' /\ Current' = enter
    BY <1>1, <1>5 DEF P_BringUpWeapon, Stays, Current
  <2>2. corpse /\ life = "reborn" /\ ~netgame
    BY <1>1, <1>2, <1>5 DEF IInv, Lowering, Lives, Types, TypeOK
  <2>3. Types'
    BY <1>1, <1>2, <1>4, <2>1 DEF Types
  <2>4. Hand' /\ Lowering' /\ Disarmed'
    BY <1>1, <2>1, <2>2 DEF Hand, Lowering, Disarmed
  <2>5. Armed'
    BY <1>2, <2>1 DEF Armed, ToFire
  <2> QED BY <1>4, <2>3, <2>4, <2>5 DEF IInv
<1>6. CASE pending # NoChange
  <2>1. pending \in owned /\ pending \in Weapon /\ ~undefined
        /\ {"fist", "pistol"} \subseteq owned
    BY <1>1, <1>6, Entered
  <2> DEFINE s == Up(pending)
  <2>2. s \in States /\ s.gun = pending /\ s.part = "up" /\ s # None
    BY <2>1, Entries, StatesAreNot
  <2>3. enter' = s /\ UNCHANGED undefined
    BY <1>6 DEF P_BringUpWeapon, Goes
  <2> HIDE DEF s
  <2>4. Current' = s
    BY <2>2, <2>3 DEF Current
  <2>5. Types'
    BY <1>1, <1>2, <1>4, <2>2, <2>3 DEF Types
  <2>6. Hand'
    BY <1>1, <1>3, <2>1, <2>2, <2>3, <2>4 DEF Hand
  <2>7. Lowering' /\ Disarmed' /\ Armed'
    BY <1>1, <2>2, <2>4 DEF Lowering, Disarmed, Armed, ToFire
  <2> QED BY <1>4, <2>5, <2>6, <2>7 DEF IInv
<1> QED BY <1>5, <1>6

LEMMA LowerStep == ASSUME IInv, A_Lower PROVE IInv'
<1>1. enter # None /\ Action(enter) = "lower" /\ psp' = enter
  BY DEF A_Lower, Enters
<1>2. enter \in States /\ enter.part = "down"
  BY <1>1, Entered, ActionTells
<1>3. CASE Stays /\ height' \in 0 .. Travel /\ UNCHANGED <<ready, pending, undefined>>
  <2>1. TypeOK'
    BY <1>3 DEF IInv, Types, TypeOK, A_Lower, Enters, Stays
  <2>2. Stock'
    BY DEF IInv, Stock, A_Lower
  <2>3. UNCHANGED <<netgame, ready, pending, owned, life, healthy, corpse, undefined>>
    BY <1>3 DEF A_Lower, Enters
  <2> QED BY <1>1, <1>2, <1>3, <2>1, <2>2, <2>3, StaysStep
<1>4. CASE life # "dead" /\ healthy /\ P_BringUpWeapon(pending)
  BY <1>4, BringUpStep DEF A_Lower
<1>5. height \in 0 .. Travel
  BY DEF IInv, Types, TypeOK
<1>6. CASE height + 1 < Travel /\ height' = height + 1
           /\ Stays /\ UNCHANGED <<ready, pending, undefined>>
  BY <1>3, <1>5, <1>6, TravelAssumption
<1>7. CASE height' = Travel /\ Stays /\ UNCHANGED <<ready, pending, undefined>>
  BY <1>3, <1>7, TravelAssumption
<1> QED BY <1>4, <1>6, <1>7 DEF A_Lower

LEMMA LowerGoneStep == ASSUME IInv, A_LowerGone PROVE IInv'
<1>1. enter # None /\ ~healthy /\ life # "dead" /\ psp' = None /\ enter' = None
      /\ UNCHANGED <<netgame, ready, pending, owned, ammo, life, healthy, corpse, undefined>>
  BY DEF A_LowerGone, Stays, inventory
<1>2. corpse /\ ~undefined
  BY <1>1, Entered DEF IInv, Lives
<1>3. Current' = None
  BY <1>1 DEF Current
<1>4. TypeOK'
  <2>1. height' \in 0 .. Travel
    BY TravelAssumption DEF A_LowerGone
  <2>2. attack' = FALSE /\ UNCHANGED <<beams, attackdown, laserCells>>
    BY DEF A_LowerGone, Stays, inventory
  <2> QED BY <1>1, <2>1, <2>2 DEF IInv, Types, TypeOK
<1>5. Types'
  BY <1>1, <1>4 DEF Types
<1>6. Hand' /\ Lives' /\ Stock'
  BY <1>1, <1>2, <1>3 DEF IInv, Hand, Lives, Stock
<1>7. Lowering' /\ Disarmed' /\ Armed'
  BY <1>1, <1>2, <1>3 DEF Lowering, Disarmed, Armed
<1> QED BY <1>5, <1>6, <1>7 DEF IInv

LEMMA SetPspriteStep == ASSUME IInv, SetPsprite PROVE IInv'
BY PauseStep, ReadyStep, ReFireStep, ReloadStep, ShotStep, RaiseStep, LowerStep, LowerGoneStep
   DEF SetPsprite

-----------------------------------------------------------------------------
(* A tic of the player *)

LEMMA ChangeIsOwned ==
    ASSUME IInv, ~undefined, ChangeWeapon
    PROVE  pending' \in owned \cup {NoChange} /\ (pending # NoChange => pending' # NoChange)
<1>1. pending \in owned \cup {NoChange} /\ owned \subseteq Weapon /\ NoChange \notin Weapon
  BY WeaponAssumption DEF IInv, Hand, Types, TypeOK
<1> QED BY <1>1 DEF ChangeWeapon

\* What a tic leaves alone, and what it does to the pending weapon.
LEMMA ThinksFacts ==
    ASSUME IInv, Thinks
    PROVE  /\ enter = None /\ ~undefined /\ Current = psp
           /\ UNCHANGED <<netgame, ready, owned, beams, ammo, attackdown, life, healthy,
                          corpse, psp, height, laserCells, undefined>>
           /\ pending' \in owned \cup {NoChange}
           /\ pending # NoChange => pending' # NoChange
           /\ ~(life = "reborn" /\ netgame)
<1>1. enter = None /\ ~undefined
  BY DEF Thinks, Idle
<1>2. pending \in owned \cup {NoChange}
  BY <1>1 DEF IInv, Hand
<1> QED BY <1>1, <1>2, ChangeIsOwned DEF Thinks, inventory, Current

LEMMA PlayerThinkStep == ASSUME IInv, P_PlayerThink PROVE IInv'
<1>1. Thinks /\ enter' = None /\ attack' = FALSE
  BY DEF P_PlayerThink, Stays
<1>2. Current' = Current
  BY <1>1, ThinksFacts DEF Current
<1>3. TypeOK'
  BY <1>1, ThinksFacts DEF IInv, Types, TypeOK
<1>4. Types' /\ Lives' /\ Stock'
  BY <1>1, <1>3, ThinksFacts DEF IInv, Types, Lives, Stock
<1>5. Hand' /\ Lowering' /\ Disarmed'
  BY <1>1, <1>2, ThinksFacts DEF IInv, Hand, Lowering, Disarmed
<1>6. Armed'
  BY <1>1, <1>2, ThinksFacts DEF IInv, Armed, ToFire
<1> QED BY <1>4, <1>5, <1>6 DEF IInv

LEMMA EndsStep == ASSUME IInv, PspriteEnds PROVE IInv'
<1>1. Thinks /\ psp # None /\ enter' = NextState(psp) /\ attack' \in BOOLEAN
  BY DEF PspriteEnds
<1>2. psp \in States /\ Current = psp
  BY <1>1, ThinksFacts DEF IInv, Types
<1> DEFINE s == NextState(psp)
<1>3. /\ s \in States /\ s.gun = psp.gun /\ s # None
      /\ psp.part # "attack" => s = psp
      /\ psp.part = "attack" => \/ s.part = "attack" /\ s.at = psp.at + 1
                                \/ s.part = "ready"
  BY <1>2, NextTells, StatesAreNot
<1>4. enter' = s
  BY <1>1
<1> HIDE DEF s
<1>5. Current' = s
  BY <1>3, <1>4 DEF Current
<1>6. TypeOK'
  BY <1>1, ThinksFacts DEF IInv, Types, TypeOK
<1>7. Types' /\ Lives' /\ Stock'
  BY <1>1, <1>3, <1>4, <1>6, ThinksFacts DEF IInv, Types, Lives, Stock
<1>8. Hand'
  BY <1>1, <1>2, <1>3, <1>5, ThinksFacts DEF IInv, Hand
<1>9. Lowering' /\ Disarmed'
  BY <1>1, <1>2, <1>3, <1>5, ThinksFacts DEF IInv, Lowering, Disarmed
<1>10. Armed'
  <2>1. CASE s.part = "attack" /\ s.at <= FireAt(s.gun)
    <3>1. psp.part = "attack" /\ psp.at + 1 <= FireAt(psp.gun)
      BY <1>3, <2>1
    <3>2. psp.at \in Nat /\ FireAt(psp.gun) \in Nat
      BY <1>2, ActionTells DEF FireAt
    <3>3. ToFire(Current)
      BY <1>1, <1>2, <3>1, <3>2, ThinksFacts DEF ToFire
    <3> QED BY <1>1, <1>2, <1>3, <1>5, <3>3, ThinksFacts DEF IInv, Armed
  <2>2. CASE ~(s.part = "attack" /\ s.at <= FireAt(s.gun))
    BY <1>3, <1>4, <1>5, <2>2 DEF Armed, ToFire
  <2> QED BY <2>1, <2>2
<1> QED BY <1>7, <1>8, <1>9, <1>10 DEF IInv

-----------------------------------------------------------------------------
(* The world *)

\* P_SpawnPlayer: whatever was before, a weapon comes up.
LEMMA SpawnStep ==
    ASSUME IInv, Idle, NEW w \in Weapon, P_SpawnPlayer(w),
           w \in owned', {"fist", "pistol"} \subseteq owned', owned' \subseteq Weapon,
           healthy' = TRUE, attackdown' \in BOOLEAN, beams' \in 1 .. MaxBeams,
           ammo' \in [AmmoType -> Int], Stock', UNCHANGED <<netgame, laserCells>>
    PROVE  IInv'
<1> DEFINE s == Up(w)
<1>1. s \in States /\ s.gun = w /\ s.part = "up" /\ s # None
  BY Entries, StatesAreNot
<1>2. /\ life' = "live" /\ corpse' = FALSE /\ psp' = None /\ ready' = w
      /\ pending' = NoChange /\ height' = Travel
      /\ enter' = s /\ UNCHANGED <<attack, undefined>> /\ ~undefined
  BY WeaponAssumption DEF P_SpawnPlayer, P_BringUpWeapon, Goes, Idle
<1> HIDE DEF s
<1>3. Current' = s
  BY <1>1, <1>2 DEF Current
<1>4. TypeOK'
  <2>1. height' \in 0 .. Travel
    BY <1>2, TravelAssumption
  <2> QED BY <1>2, <2>1 DEF IInv, Types, TypeOK
<1>5. Types' /\ Lives'
  BY <1>1, <1>2, <1>4 DEF Types, Lives
<1>6. Hand' /\ Lowering' /\ Disarmed' /\ Armed'
  BY <1>1, <1>2, <1>3 DEF Hand, Lowering, Disarmed, Armed, ToFire
<1> QED BY <1>5, <1>6 DEF IInv

LEMMA RebornStep ==
    ASSUME IInv, Idle, NEW keep \in BOOLEAN, Reborn(keep)
    PROVE  IInv'
<1>1. "pistol" \in Weapon /\ "fist" \in Weapon
  BY WeaponAssumption
<1>2. {"fist", "pistol"} \subseteq owned' /\ owned' \subseteq Weapon
  BY <1>1 DEF IInv, Types, TypeOK, Reborn
<1>3. ammo' \in [AmmoType -> Int] /\ Stock'
  <2>1. CASE keep
    BY <2>1 DEF IInv, Types, TypeOK, Stock, Reborn
  <2>2. CASE ~keep
    <3>1. StartClip \in Nat /\ StartClip <= MaxAmmo["clip"]
      BY AmmoAssumption, AmmoNames
    <3>2. \A t \in AmmoType : Least(t) <= 0 /\ Least(t) \in Int /\ MaxAmmo[t] \in Nat
      BY AmmoAssumption, BeamsAssumption DEF Least
    <3>3. ammo' = [t \in AmmoType |-> IF t = "clip" THEN StartClip ELSE 0]
      BY <2>2 DEF Reborn
    <3>4. \A t \in AmmoType : ammo'[t] >= Least(t) /\ ammo'[t] <= MaxAmmo[t]
      BY <3>1, <3>2, <3>3
    <3> QED BY <3>1, <3>3, <3>4 DEF Stock
  <2> QED BY <2>1, <2>2
<1>4. beams' \in 1 .. MaxBeams
  BY BeamsAssumption DEF IInv, Types, TypeOK, Reborn
<1>5. /\ P_SpawnPlayer("pistol") /\ healthy' = TRUE /\ attackdown' = TRUE
      /\ UNCHANGED <<netgame, laserCells>>
  BY DEF Reborn
<1> QED BY <1>1, <1>2, <1>3, <1>4, <1>5, SpawnStep

LEMMA DoRebornStep == ASSUME IInv, G_DoReborn PROVE IInv'
BY RebornStep DEF G_DoReborn

LEMMA LoadLevelStep == ASSUME IInv, G_DoLoadLevel PROVE IInv'
<1>1. Idle
  BY DEF G_DoLoadLevel
<1>2. CASE \E keep \in BOOLEAN : Reborn(keep)
  BY <1>1, <1>2, RebornStep
<1>3. CASE /\ life = "live" /\ P_SpawnPlayer(ready)
           /\ UNCHANGED <<netgame, inventory, attackdown, healthy, laserCells>>
  <2>1. healthy /\ ready \in owned /\ ready \in Weapon /\ {"fist", "pistol"} \subseteq owned
        /\ owned \subseteq Weapon /\ ~undefined /\ ammo \in [AmmoType -> Int]
        /\ beams \in 1 .. MaxBeams /\ attackdown \in BOOLEAN /\ healthy \in BOOLEAN
    BY <1>1, <1>3 DEF IInv, Lives, Hand, Types, TypeOK, Idle
  <2>2. Stock'
    BY <1>3 DEF IInv, Stock, inventory
  <2>3. UNCHANGED <<owned, ammo, beams>>
    BY <1>3 DEF inventory
  <2>4. healthy' = TRUE
    BY <1>3, <2>1
  <2> QED BY <1>1, <1>3, <2>1, <2>2, <2>3, <2>4, SpawnStep
<1> QED BY <1>2, <1>3 DEF G_DoLoadLevel

LEMMA KillStep == ASSUME IInv, P_KillMobj PROVE IInv'
<1>1. /\ enter = None /\ ~undefined /\ ~corpse /\ healthy
      /\ corpse' = TRUE /\ healthy' = FALSE /\ life' = "dead" /\ enter' = Down(ready)
      /\ UNCHANGED <<netgame, ready, pending, owned, ammo, beams, attackdown, attack,
                     psp, height, laserCells, undefined>>
  BY DEF P_KillMobj, Idle, Goes, inventory
<1>2. ready \in owned /\ ready \in Weapon
  BY <1>1 DEF IInv, Hand, Types, TypeOK
<1> DEFINE s == Down(ready)
<1>3. s \in States /\ s.gun = ready /\ s.part = "down" /\ s # None
  BY <1>2, Entries, StatesAreNot
<1>4. enter' = s
  BY <1>1
<1> HIDE DEF s
<1>5. Current' = s
  BY <1>3, <1>4 DEF Current
<1>6. TypeOK'
  BY <1>1 DEF IInv, Types, TypeOK
<1>7. Types' /\ Lives' /\ Stock'
  BY <1>1, <1>3, <1>4, <1>6 DEF IInv, Types, Lives, Stock
<1>8. Hand'
  BY <1>1, <1>3, <1>5 DEF IInv, Hand
<1>9. Lowering' /\ Disarmed' /\ Armed'
  BY <1>1, <1>3, <1>5 DEF Lowering, Disarmed, Armed, ToFire
<1> QED BY <1>7, <1>8, <1>9 DEF IInv

\* Steps between two tics that leave the weapon's states alone, and take no
\* ammunition.
LEMMA BetweenStep ==
    ASSUME IInv, Idle, TypeOK', Stock', Lives',
           UNCHANGED <<netgame, ready, corpse, psp, enter, undefined>>,
           owned \subseteq owned', pending' \in owned' \cup {NoChange},
           pending # NoChange => pending' # NoChange,
           life' = "dead" => life = "dead",
           \A t \in AmmoType : ammo'[t] >= ammo[t]
    PROVE  IInv'
<1>1. ~undefined /\ enter = None /\ enter' = None
  BY DEF Idle
<1>2. Current' = Current
  BY DEF Current
<1>3. Types'
  BY DEF IInv, Types
<1>4. Hand' /\ Lowering' /\ Disarmed'
  BY <1>1, <1>2 DEF IInv, Hand, Lowering, Disarmed
<1>5. Armed'
  <2>1. SUFFICES ASSUME Current' # None, ToFire(Current)'
                 PROVE  ammo'[AmmoOf(Current'.gun)] >= Need(Current'.gun)
    BY <1>2 DEF Armed
  <2> DEFINE g == Current.gun
  <2>2. ToFire(Current) /\ Current # None /\ Current = psp /\ psp \in States
    BY <1>1, <1>2, <2>1 DEF ToFire, Current, IInv, Types
  <2>3. g \in Weapon /\ psp.at \in 1 .. Len(Attack(g)) /\ FireAt(g) # 0
    <3>1. psp.gun \in Weapon /\ psp.at \in 1 .. Len(Attack(psp.gun)) /\ psp.at < FireAt(psp.gun)
      BY <1>1, <2>2, ActionTells DEF ToFire
    <3> QED BY <2>2, <3>1, AttackTable
  <2>4. AmmoOf(g) \in AmmoType
    BY <2>3, AttackTable
  <2>5. ammo[AmmoOf(g)] \in Int /\ ammo'[AmmoOf(g)] \in Int /\ Need(g) \in Int
    BY <2>4, AmmoAssumption DEF IInv, Types, TypeOK, Need
  <2>6. ammo[AmmoOf(g)] >= Need(g)
    BY <2>2 DEF IInv, Armed
  <2> HIDE DEF g
  <2>7. ammo'[AmmoOf(g)] >= Need(g)
    BY <2>4, <2>5, <2>6
  <2> QED BY <1>2, <2>7 DEF g
<1> QED BY <1>3, <1>4, <1>5 DEF IInv

LEMMA UseStep == ASSUME IInv, UseWhenDead PROVE IInv'
<1>1. /\ Idle /\ (life = "dead" \/ ~netgame) /\ life' = "reborn"
      /\ UNCHANGED <<netgame, ready, pending, owned, ammo, beams, attackdown, attack,
                     healthy, corpse, psp, height, enter, laserCells, undefined>>
  BY DEF UseWhenDead, inventory, sprite
<1>2. TypeOK' /\ Stock'
  BY <1>1 DEF IInv, Types, TypeOK, Stock
<1>3. Lives'
  BY <1>1 DEF IInv, Lives, Idle
<1>4. pending \in owned \cup {NoChange} /\ \A t \in AmmoType : ammo[t] \in Int
  BY <1>1 DEF IInv, Hand, Types, TypeOK, Idle
<1> QED BY <1>1, <1>2, <1>3, <1>4, BetweenStep

LEMMA LaserStep == ASSUME IInv, OthersFireLaser PROVE IInv'
<1>1. /\ Idle /\ laserCells' \in 1 .. MaxBeams
      /\ UNCHANGED <<netgame, ready, pending, owned, ammo, beams, attackdown, attack, life,
                     healthy, corpse, psp, height, enter, undefined>>
  BY DEF OthersFireLaser, inventory, sprite
<1>2. TypeOK' /\ Stock' /\ Lives'
  BY <1>1 DEF IInv, Types, TypeOK, Stock, Lives
<1>3. pending \in owned \cup {NoChange} /\ \A t \in AmmoType : ammo[t] \in Int
  BY <1>1 DEF IInv, Hand, Types, TypeOK, Idle
<1> QED BY <1>1, <1>2, <1>3, BetweenStep

\* A pick-up changes what is owned, the ammunition, and what is pending.
LEMMA GetsStep ==
    ASSUME IInv, Gets, owned' \subseteq Weapon, owned \subseteq owned',
           beams' \in 1 .. MaxBeams, ammo' \in [AmmoType -> Int],
           \A t \in AmmoType : ammo'[t] >= ammo[t] /\ ammo'[t] <= MaxAmmo[t],
           pending' \in owned' \cup {NoChange}, pending # NoChange => pending' # NoChange
    PROVE  IInv'
<1>1. /\ Idle
      /\ UNCHANGED <<netgame, ready, attackdown, attack, life, healthy, corpse, psp, height,
                     enter, laserCells, undefined>>
  BY DEF Gets, sprite
<1>2. \A t \in AmmoType : ammo[t] \in Int /\ Least(t) \in Int
  BY BeamsAssumption DEF IInv, Types, TypeOK, Least
<1>3. Stock'
  BY <1>2 DEF IInv, Stock
<1>4. TypeOK' /\ Lives'
  BY <1>1 DEF IInv, Types, TypeOK, Lives
<1> QED BY <1>1, <1>3, <1>4, BetweenStep

LEMMA FilledFacts ==
    ASSUME IInv, NEW t \in AmmoType, NEW n \in Nat
    PROVE  Filled(t, n) \in Int /\ Filled(t, n) >= ammo[t] /\ Filled(t, n) <= MaxAmmo[t]
BY AmmoAssumption DEF IInv, Types, TypeOK, Stock, Filled

LEMMA FilledAmmo ==
    ASSUME IInv, NEW t \in AmmoType, NEW n \in 1 .. ClipAmmo[t],
           ammo' = [ammo EXCEPT ![t] = Filled(t, n)]
    PROVE  /\ ammo' \in [AmmoType -> Int]
           /\ \A u \in AmmoType : ammo'[u] >= ammo[u] /\ ammo'[u] <= MaxAmmo[u]
<1>1. n \in Nat
  BY AmmoAssumption
<1>2. ammo \in [AmmoType -> Int] /\ \A u \in AmmoType : ammo[u] <= MaxAmmo[u]
  BY DEF IInv, Types, TypeOK, Stock
<1> QED BY <1>1, <1>2, FilledFacts

LEMMA SameAmmo ==
    ASSUME IInv
    PROVE  /\ ammo \in [AmmoType -> Int] /\ beams \in 1 .. MaxBeams /\ owned \subseteq Weapon
           /\ \A u \in AmmoType : ammo[u] >= ammo[u] /\ ammo[u] <= MaxAmmo[u]
BY DEF IInv, Types, TypeOK, Stock

LEMMA GiveAmmoStep == ASSUME IInv, P_GiveAmmo PROVE IInv'
<1>1. Gets /\ UNCHANGED <<owned, beams>> /\ ~undefined
  BY DEF P_GiveAmmo, Gets, Idle
<1>2. PICK t \in AmmoType :
        /\ \E n \in 1 .. ClipAmmo[t] : ammo' = [ammo EXCEPT ![t] = Filled(t, n)]
        /\ pending' = Selected(t)
  BY DEF P_GiveAmmo
<1>3. pending \in owned \cup {NoChange} /\ "pistol" \in owned /\ owned \subseteq Weapon
      /\ NoChange \notin Weapon
  BY <1>1, WeaponAssumption DEF IInv, Hand, Types, TypeOK
<1>4. Selected(t) \in owned \cup {NoChange} /\ (pending # NoChange => Selected(t) # NoChange)
  BY <1>3 DEF Selected
<1> QED BY <1>1, <1>2, <1>3, <1>4, FilledAmmo, SameAmmo, GetsStep

LEMMA GiveWeaponStep == ASSUME IInv, P_GiveWeapon PROVE IInv'
<1>1. Gets /\ UNCHANGED beams
  BY DEF P_GiveWeapon
<1>2. PICK w \in Weapon \ owned :
        /\ owned' = owned \cup {w} /\ pending' = w
        /\ IF AmmoOf(w) = "none" THEN UNCHANGED ammo
           ELSE \E n \in 1 .. ClipAmmo[AmmoOf(w)] :
                   ammo' = [ammo EXCEPT ![AmmoOf(w)] = Filled(AmmoOf(w), n)]
  BY DEF P_GiveWeapon
<1>3. w # NoChange
  BY WeaponAssumption
<1>4. /\ ammo' \in [AmmoType -> Int]
      /\ \A u \in AmmoType : ammo'[u] >= ammo[u] /\ ammo'[u] <= MaxAmmo[u]
  BY <1>2, AmmoNames, FilledAmmo, SameAmmo
<1> QED BY <1>1, <1>2, <1>3, <1>4, SameAmmo, GetsStep

LEMMA BerserkStep == ASSUME IInv, TouchBerserk PROVE IInv'
<1>1. Gets /\ UNCHANGED <<owned, ammo, beams>> /\ ~undefined
  BY DEF TouchBerserk, Gets, Idle, inventory
<1>2. pending' \in owned \cup {NoChange} /\ (pending # NoChange => pending' # NoChange)
  BY <1>1, WeaponAssumption DEF TouchBerserk, IInv, Hand
<1> QED BY <1>1, <1>2, SameAmmo, GetsStep

LEMMA ArtifactStep == ASSUME IInv, GetArtifact PROVE IInv'
<1>1. Gets /\ UNCHANGED <<pending, owned, ammo>> /\ beams' \in 1 .. MaxBeams /\ ~undefined
  BY DEF GetArtifact, Gets, Idle
<1>2. pending \in owned \cup {NoChange}
  BY <1>1 DEF IInv, Hand
<1> QED BY <1>1, <1>2, SameAmmo, GetsStep

LEMMA HealthStep == ASSUME IInv, CheatHealth PROVE IInv'
<1>1. /\ Idle /\ healthy' = TRUE
      /\ UNCHANGED <<netgame, ready, pending, owned, ammo, beams, attackdown, attack, life,
                     corpse, psp, height, enter, laserCells, undefined>>
  BY DEF CheatHealth, inventory, sprite
<1>2. TypeOK' /\ Stock' /\ Lives'
  BY <1>1 DEF IInv, Types, TypeOK, Stock, Lives
<1>3. pending \in owned \cup {NoChange} /\ \A t \in AmmoType : ammo[t] \in Int
  BY <1>1 DEF IInv, Hand, Types, TypeOK, Idle
<1> QED BY <1>1, <1>2, <1>3, BetweenStep

LEMMA ArmsStep == ASSUME IInv, CheatArms PROVE IInv'
<1>1. /\ Idle /\ owned' = Weapon /\ ammo' = MaxAmmo
      /\ UNCHANGED <<netgame, ready, pending, beams, attackdown, attack, life, healthy,
                     corpse, psp, height, enter, laserCells, undefined>>
  BY DEF CheatArms, sprite
<1>2. ammo' \in [AmmoType -> Int]
  BY <1>1, AmmoAssumption
<1>3. \A t \in AmmoType : /\ ammo[t] \in Int /\ MaxAmmo[t] \in Nat /\ ammo[t] <= MaxAmmo[t]
                          /\ Least(t) <= 0 /\ Least(t) \in Int
  BY AmmoAssumption, BeamsAssumption DEF IInv, Types, TypeOK, Stock, Least
<1>4. TypeOK' /\ Lives'
  BY <1>1, <1>2 DEF IInv, Types, TypeOK, Lives
<1>5. Stock'
  BY <1>1, <1>3 DEF Stock
<1>6. pending \in Weapon \cup {NoChange} /\ owned \subseteq Weapon
  BY DEF IInv, Types, TypeOK
<1> QED BY <1>1, <1>3, <1>4, <1>5, <1>6, BetweenStep

-----------------------------------------------------------------------------
(* The theorems *)

LEMMA InitHolds == Init => IInv
<1> SUFFICES ASSUME Init PROVE IInv
  OBVIOUS
<1>1. /\ netgame \in BOOLEAN /\ ready = "pistol" /\ pending = NoChange
      /\ owned = {"fist", "pistol"} /\ beams = 1 /\ attackdown = TRUE /\ attack = FALSE
      /\ life = "live" /\ healthy = TRUE /\ corpse = FALSE
      /\ psp = None /\ height = Travel /\ enter = Up("pistol")
      /\ laserCells = 1 /\ undefined = FALSE
      /\ ammo = [t \in AmmoType |-> IF t = "clip" THEN StartClip ELSE 0]
  BY NetgameAssumption DEF Init
<1> DEFINE s == Up("pistol")
<1>2. s \in States /\ s.gun = "pistol" /\ s.part = "up" /\ s # None
  BY WeaponAssumption, Entries, StatesAreNot
<1>3. enter = s
  BY <1>1
<1> HIDE DEF s
<1>4. Current = s
  BY <1>2, <1>3 DEF Current
<1>5. StartClip \in Nat /\ StartClip <= MaxAmmo["clip"]
  BY AmmoAssumption, AmmoNames
<1>6. \A t \in AmmoType : Least(t) <= 0 /\ Least(t) \in Int /\ MaxAmmo[t] \in Nat
  BY AmmoAssumption, BeamsAssumption DEF Least
<1>7. ammo \in [AmmoType -> Int] /\ Stock
  BY <1>1, <1>5, <1>6 DEF Stock
<1>8. height \in 0 .. Travel /\ 1 \in 1 .. MaxBeams
  BY <1>1, TravelAssumption, BeamsAssumption
<1>9. Types
  BY <1>1, <1>2, <1>3, <1>7, <1>8, WeaponAssumption DEF Types, TypeOK
<1>10. Hand /\ Lives /\ Lowering /\ Disarmed /\ Armed
  BY <1>1, <1>2, <1>4 DEF Hand, Lives, Lowering, Disarmed, Armed, ToFire
<1> QED BY <1>7, <1>9, <1>10 DEF IInv

LEMMA StutterHolds == ASSUME IInv, UNCHANGED vars PROVE IInv'
BY DEF vars, inventory, IInv, Types, TypeOK, Hand, Lives, Lowering, Disarmed, Stock, Armed,
       ToFire, Current

LEMMA NextHolds == IInv /\ [Next]_vars => IInv'
BY SetPspriteStep, PlayerThinkStep, EndsStep, UseStep, DoRebornStep, LoadLevelStep, KillStep,
   LaserStep, GiveAmmoStep, GiveWeaponStep, BerserkStep, ArtifactStep, HealthStep, ArmsStep,
   StutterHolds
   DEF Next, World

\* The inductive invariant of the weapon.
THEOREM InvHolds == Spec => []IInv
BY InitHolds, NextHolds, PTL DEF Spec

\* Every variable keeps its type: TypeOK for every set of weapons.
THEOREM TypesHold == Spec => []TypeOK
<1>1. IInv => TypeOK
  BY DEF IInv, Types
<1> QED BY <1>1, InvHolds, PTL

\* The weapon in the hand and the pending one are owned, the states that run
\* are the weapon's, and A_Lower raises nothing but a weapon, except for a dead
\* player who is given health in a game of one.
THEOREM WeaponsAreReal == Spec => []WeaponIsReal
<1>1. IInv => WeaponIsReal
  BY DEF IInv, Hand, Current, WeaponIsReal
<1> QED BY <1>1, InvHolds, PTL

\* No shot takes what is not there, but for the cells of a laser.
THEOREM DebtsAreSmall == Spec => []DebtIsSmall
<1>1. IInv => DebtIsSmall
  BY DEF IInv, Stock, Least, DebtIsSmall
<1> QED BY <1>1, InvHolds, PTL

\* The weapon of a dead player stays down until he is born again.
THEOREM CorpsesAreDisarmed == Spec => []CorpseIsDisarmed
<1>1. IInv => CorpseIsDisarmed
  BY DEF IInv, Disarmed, Current, CorpseIsDisarmed
<1> QED BY <1>1, InvHolds, PTL
==============================================================================
