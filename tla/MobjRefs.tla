------------------------------- MODULE MobjRefs -------------------------------
(***************************************************************************)
(* The mobj list of a level, the counted references between mobjs, and the *)
(* lazy removal that rests on the counts: P_SetTarget, P_SpawnMobj,        *)
(* P_RemoveMobj, P_SafeRemoveMobj (playloop/p_mobj.cc) and P_RunMobjs,     *)
(* P_RunThinkers, P_LinkMobj, P_UnlinkMobj (playloop/p_tick.cc), with the  *)
(* callers of P_SetTarget: monsters, missiles, fades, noise alerts, tagged *)
(* alerts and damage markers.                                              *)
(*                                                                         *)
(* P_Ticker is one thread, but the list changes under its own cursor: a    *)
(* mobj's turn spawns mobjs, removes itself, makes others point at it.     *)
(* "world" is the part of a tic outside the two loops (P_PlayerThink,      *)
(* P_RunMacros, ST_Ticker, the end of the level).                          *)
(***************************************************************************)
EXTENDS Integers, FiniteSets, SequencesExt

CONSTANTS
    Mobj,        \* addresses of mobjs: a freed one is handed out again
    Fade,        \* addresses of fade thinkers; bounds the fades at one time
    Marker,      \* damage markers; bounds the markers at one time
    Sector,      \* sectors, for sector_t.soundtarget
    None,        \* NULL
    MobjHead,    \* &mobjhead
    MaxLeaks,    \* bounds the surplus counts that tagged alerts leave behind
    Games,       \* bound: what the games that are looked at have (GamesAssumption)
    Switchable   \* may the menu switch p_damageindicator during a level?

Slot == ({"target", "tracer"} \X Mobj) \cup ({"fade"} \X Fade)
            \cup ({"marker"} \X Marker) \cup ({"soundtarget"} \X Sector)

ASSUME SlotsFinite == IsFiniteSet(Mobj) /\ IsFiniteSet(Slot)
ASSUME NoneIsNoMobj == None \notin Mobj /\ MobjHead \notin Mobj

MobjKind == {"monster", "mark", "other"}

(* In a game noise may be heard in some sectors, lines may alert monsters  *)
(* by tag and spawn mobjs of some kinds, and monsters may be locked        *)
(* (sv_lockmonsters).                                                      *)
ASSUME GamesAssumption ==
    Games \subseteq [noisy : SUBSET Sector, alerts : BOOLEAN,
                    kinds : SUBSET MobjKind, lockable : BOOLEAN]

VARIABLES
    phase,      \* "world", "thinkers" (P_RunThinkers) or "mobjs" (P_RunMobjs)
    list,       \* mobjhead.next, ...: every mobj that is allocated
    cur,        \* currentmobj
    thinking,   \* currentmobj is in P_MobjThinker
    removed,    \* mobjs with mobjfunc = P_SafeRemoveMobj
    monster,    \* mobjs with MF_COUNTKILL
    nosector,   \* mobjs with MF_NOSECTOR
    shootable,  \* mobjs with MF_SHOOTABLE
    owned,      \* mobjs with a player (a set with one element)
    unseen,     \* mobjs with alpha = 0
    fade,       \* what each fade thinker does: "free", "in", "out" or "unlink"
    pending,    \* fade thinkers whose turn in this P_RunThinkers is to come
    indicator,  \* p_damageindicator
    locked,     \* gameflags & GF_LOCKMONSTERS
    game,       \* which of Games this is
    refs,       \* [ptr: the counted pointers, count: mobj_t.refcount]
    seen,       \* history: mobjs P_RunMobjs has come to in this pass
    due         \* history: mobjs that are to be freed in this pass

kinds == <<monster, nosector>>
options == <<indicator, locked, game>>
mobjVars == <<list, removed, kinds, shootable, owned, unseen>>
loopVars == <<phase, cur, thinking, pending, seen>>
vars == <<mobjVars, loopVars, fade, options, refs, due>>

Linked == Range(list)
Free == Mobj \ Linked
Place(m) == CHOOSE i \in 1 .. Len(list) : list[i] = m

(* The mobj after m in the list, and the one before it; MobjHead ends both.    *)
After(m) == IF m = MobjHead THEN (IF list = <<>> THEN MobjHead ELSE list[1])
            ELSE IF Place(m) = Len(list) THEN MobjHead ELSE list[Place(m) + 1]
Before(m) == IF Place(m) = 1 THEN MobjHead ELSE list[Place(m) - 1]

---------------------------------------------------------------------------
(* Counted references.                                                     *)

Target(m) == <<"target", m>>
Tracer(m) == <<"tracer", m>>

(* P_SetTarget(&slot, t).                                                  *)
SetTarget(r, s, t) ==
    LET less == [m \in Mobj |->
                    IF m = r.ptr[s] THEN r.count[m] - 1 ELSE r.count[m]]
    IN  [ptr   |-> [r.ptr EXCEPT ![s] = t],
         count |-> [m \in Mobj |-> IF m = t THEN less[m] + 1 ELSE less[m]]]

(* P_SpawnMobj clears the memory of n: its references and its count.       *)
Cleared(r, n) ==
    [ptr   |-> [r.ptr EXCEPT ![Target(n)] = None, ![Tracer(n)] = None],
     count |-> [r.count EXCEPT ![n] = 0]]

(* Z_Free(m): what m still points at keeps its count.                      *)
Forgotten(r, m) ==
    [ptr   |-> [r.ptr EXCEPT ![Target(m)] = None, ![Tracer(m)] = None],
     count |-> r.count]

(* What P_RemoveMobj(m) does to the references.                            *)
Released(r, m) == SetTarget(SetTarget(r, Target(m), None), Tracer(m), None)

Pointing(m) == {s \in Slot : refs.ptr[s] = m}

Faded(f) == refs.ptr[<<"fade", f>>]

(* Monsters and players that have not died: one that fades in cannot be    *)
(* hit yet, one that fades out can no longer be hit.                       *)
FadingIn == {m \in Mobj : \E f \in Fade : fade[f] = "in" /\ Faded(f) = m}
FadedOut == unseen \cup {m \in Mobj : \E f \in Fade : fade[f] = "out" /\ Faded(f) = m}
Living(m) == m \in shootable \cup (monster \cap FadingIn)
Dead(m) == m \notin shootable \cup FadingIn \cup FadedOut

---------------------------------------------------------------------------
(* Operations on mobjs.                                                    *)

(* P_SpawnMobj(n), with the flags of its kind: it joins the end of the     *)
(* list.  MF_NOSECTOR is for the marks that a map sets (MT_CAMERATARGET,   *)
(* MT_DEST_TELEPORT, MT_DEST_PROJECTILE, MT_FAKEITEM).                     *)
SpawnMobj(n, kind) ==
    /\ n \in Free
    /\ list' = Append(list, n)
    /\ monster' = IF kind = "monster" THEN monster \cup {n} ELSE monster
    /\ nosector' = IF kind = "mark" THEN nosector \cup {n} ELSE nosector

(* P_RemoveMobj(m): nothing is freed yet.                                  *)
RemoveMobj(m) ==
    /\ removed' = removed \cup {m}
    /\ refs' = Released(refs, m)

(* Z_Free(m) in P_SafeRemoveMobj, with r for the references before it.     *)
FreeMobj(m, r) ==
    /\ list' = RemoveAt(list, Place(m))
    /\ removed' = removed \ {m}
    /\ monster' = monster \ {m}
    /\ nosector' = nosector \ {m}
    /\ shootable' = shootable \ {m}
    /\ unseen' = unseen \ {m}
    /\ refs' = Forgotten(r, m)

(* P_SafeRemoveMobj of the current mobj, given its removal: freed only if  *)
(* nobody points at it; P_UnlinkMobj lets the cursor step back.            *)
SafeRemoveMobj_AtOnce(m, r) == cur' = Before(m) /\ FreeMobj(m, r)
SafeRemoveMobj_KeepsCursor(m, r) ==
    IF r.count[m] = 0 THEN cur' = m /\ FreeMobj(m, r)
    ELSE /\ cur' = m
         /\ removed' = removed \cup {m}
         /\ refs' = r
         /\ UNCHANGED <<list, kinds, shootable, unseen>>
SafeRemoveMobj_StepsOn(m, r) ==
    IF r.count[m] = 0 THEN cur' = After(m) /\ FreeMobj(m, r)
    ELSE /\ cur' = m
         /\ removed' = removed \cup {m}
         /\ refs' = r
         /\ UNCHANGED <<list, kinds, shootable, unseen>>
SafeRemoveMobj(m, r) ==
    IF r.count[m] = 0 THEN cur' = Before(m) /\ FreeMobj(m, r)
    ELSE /\ cur' = m
         /\ removed' = removed \cup {m}
         /\ refs' = r
         /\ UNCHANGED <<list, kinds, shootable, unseen>>

(* ST_AddDamageMarker, for the player hurt by something that is no player. *)
Marked(r, t, source) ==
    LET idle == {k \in Marker : r.ptr[<<"marker", k>>] = None}
    IN  IF indicator /\ t \in owned /\ source \notin owned \cup {None}
        THEN {SetTarget(r, <<"marker", k>>, source) : k \in idle} ELSE {r}

(* P_DamageMobj(t, ..., source): t dies, or feels pain and may turn on the *)
(* source.  The pain state of a mobj that is being removed may clear its   *)
(* mobjfunc (P_SetMobjState), which undoes the removal.                    *)
Hurt(t, source) ==
    /\ t \in shootable
    /\ \E r \in Marked(refs, t, source) :
         \/ /\ shootable' = shootable \ {t}
            /\ refs' = r
            /\ UNCHANGED removed
         \/ /\ refs' \in {r} \cup {SetTarget(r, Target(t), s) : s \in {source} \ {None, t}}
            /\ removed' \in {removed, removed \ {t}}
            /\ UNCHANGED shootable
    /\ UNCHANGED <<list, kinds, owned, unseen>>

(* The references of a mobj n that m has just made: a skull inherits m's   *)
(* target (A_PainShootSkull), a missile points back at m and may home in   *)
(* on m's target, a puff or a splash of blood points at nothing.           *)
Offspring(m, n, hostile) ==
    LET r == Cleared(refs, n)
        missile == SetTarget(r, Target(n), m)
        goal == refs.ptr[Target(m)]
    IN  IF hostile THEN {SetTarget(r, Target(n), goal)}
        ELSE {r, missile, SetTarget(missile, Tracer(n), goal)}

Shoot(m, n, hostile) ==
    /\ SpawnMobj(n, IF hostile THEN "monster" ELSE "other")
    /\ shootable' = IF hostile THEN shootable \cup {n} ELSE shootable
    /\ refs' \in Offspring(m, n, hostile)
    /\ UNCHANGED <<removed, owned, unseen>>

---------------------------------------------------------------------------
(* "world": P_PlayerThink, P_RunMacros, ST_Ticker and the end of a level.  *)

Player == CHOOSE p \in Mobj : p \in owned

World == phase = "world" /\ UNCHANGED <<cur, thinking, pending, seen>>

PlayerShoots(n) ==
    /\ World
    /\ Shoot(Player, n, FALSE)
    /\ UNCHANGED <<phase, fade, options>>

(* A hit of the player's, or of nobody's (slime, a barrel, a crusher).     *)
PlayerHits(t, source) ==
    /\ World
    /\ t \notin removed
    /\ Hurt(t, source)
    /\ UNCHANGED <<phase, fade, options>>

(* P_TouchSpecialThing: an item is picked up; MT_FAKEITEM stays.           *)
PickUp(t) ==
    /\ World
    /\ t \in Linked \ (removed \cup monster \cup nosector \cup owned)
    /\ RemoveMobj(t)
    /\ UNCHANGED <<phase, list, kinds, shootable, owned, unseen, fade, options>>

(* P_RecursiveSound: the noise of a shot reaches sector s.                 *)
NoiseAlert(s) ==
    /\ World
    /\ s \in game.noisy
    /\ refs' = SetTarget(refs, <<"soundtarget", s>>, Player)
    /\ UNCHANGED <<phase, mobjVars, fade, options>>

(* P_AlertTaggedMobj: nothing asks whether t is being removed, and a dead  *)
(* monster gets its flags back.                                            *)
AlertTaggedMobj(t) ==
    /\ World
    /\ game.alerts
    /\ t \in monster
    /\ \A m \in Mobj : refs.count[m] - Cardinality(Pointing(m)) < MaxLeaks
    /\ refs' = SetTarget(refs, Target(t), Player)
    /\ shootable' \in (IF Dead(t) THEN {} ELSE {shootable})
                        \cup (IF Living(t) THEN {} ELSE {shootable \cup {t}})
    /\ UNCHANGED <<phase, list, removed, kinds, owned, unseen, fade, options>>

(* EV_SpawnMobjTemplate for a tag of one map thing: it fades in, or is     *)
(* removed at once as something stands in its place (no mark is solid).    *)
SpawnMobjTemplate(f, n, kind) ==
    /\ World
    /\ kind \in game.kinds
    /\ SpawnMobj(n, kind)
    /\ \/ /\ fade[f] = "free"
          /\ fade' = [fade EXCEPT ![f] = "in"]
          /\ refs' = SetTarget(Cleared(refs, n), <<"fade", f>>, n)
          /\ unseen' = unseen \cup {n}
          /\ UNCHANGED removed
       \/ /\ kind # "mark"
          /\ removed' = removed \cup {n}
          /\ refs' = Released(Cleared(refs, n), n)
          /\ UNCHANGED <<unseen, fade>>
    /\ UNCHANGED <<phase, shootable, owned, options>>

(* MF_TRIGDEATH costs a mobj all its flags.                                *)
LosesFlags(t) == monster' = monster \ {t} /\ nosector' = nosector \ {t}

(* EV_FadeOutMobj for a tag of one mobj, whatever has become of it.        *)
FadeOutMobj_Uncounted(f, t) ==
    /\ World
    /\ t \in Linked \ owned
    /\ fade[f] = "free"
    /\ fade' = [fade EXCEPT ![f] = "out"]
    /\ refs' = [refs EXCEPT !.ptr[<<"fade", f>>] = t]
    /\ shootable' = shootable \ {t}
    /\ LosesFlags(t) \/ UNCHANGED kinds
    /\ UNCHANGED <<phase, list, removed, owned, unseen, options>>
FadeOutMobj(f, t) ==
    /\ World
    /\ t \in Linked \ owned
    /\ fade[f] = "free"
    /\ fade' = [fade EXCEPT ![f] = "out"]
    /\ refs' = SetTarget(refs, <<"fade", f>>, t)
    /\ shootable' = shootable \ {t}
    /\ LosesFlags(t) \/ UNCHANGED kinds
    /\ UNCHANGED <<phase, list, removed, owned, unseen, options>>

(* ST_RunDamageMarkers: a marker has been shown long enough.               *)
MarkerEnds(k) ==
    /\ World
    /\ indicator
    /\ refs.ptr[<<"marker", k>>] # None
    /\ refs' = SetTarget(refs, <<"marker", k>>, None)
    /\ UNCHANGED <<phase, mobjVars, fade, options>>

(* The menu switches p_damageindicator.                                    *)
SwitchIndicator ==
    /\ World
    /\ Switchable
    /\ indicator' = ~indicator
    /\ UNCHANGED <<phase, mobjVars, fade, locked, game, refs>>

(* The menu, or the console, switches sv_lockmonsters, and its callback,   *)
(* G_SetGameFlags, sets or clears the flag.                                *)
SwitchLock ==
    /\ World
    /\ game.lockable
    /\ locked' = ~locked
    /\ UNCHANGED <<phase, mobjVars, fade, indicator, game, refs>>

(* P_Stop: Z_FreeTags takes every mobj, marker and thinker; the list of    *)
(* markers is emptied only while the indicator is on.  P_SetupLevel then   *)
(* starts with the player's mobj p.                                        *)
EndLevel(p) ==
    /\ World
    /\ list' = <<p>>
    /\ owned' = {p}
    /\ shootable' = {p}
    /\ removed' = {}
    /\ monster' = {} /\ nosector' = {}
    /\ unseen' = {}
    /\ fade' = [f \in Fade |-> "free"]
    /\ refs' = [ptr   |-> [s \in Slot |-> IF s[1] = "marker" /\ ~indicator
                                         THEN refs.ptr[s] ELSE None],
                count |-> [m \in Mobj |-> 0]]
    /\ UNCHANGED <<phase, options>>

---------------------------------------------------------------------------
(* "thinkers": P_RunThinkers.  Fades on different mobjs are independent    *)
(* and two on one mobj may be in either order, so any order is allowed.    *)

RunThinkers ==
    /\ phase = "world"
    /\ phase' = "thinkers"
    /\ pending' = {f \in Fade : fade[f] # "free"}
    /\ UNCHANGED <<cur, thinking, seen, mobjVars, fade, options, refs>>

Running(f) ==
    /\ phase = "thinkers"
    /\ f \in pending
    /\ pending' = pending \ {f}
    /\ UNCHANGED <<phase, cur, thinking, seen, list, kinds, owned, options>>

(* The end of a fade: its reference is dropped, and P_RemoveThinker marks  *)
(* it for P_UnlinkThinker.                                                 *)
FadeEnds(f, r) ==
    /\ refs' = SetTarget(r, <<"fade", f>>, None)
    /\ fade' = [fade EXCEPT ![f] = "unlink"]

(* T_MobjFadeThinker with a positive amount: alpha goes up, and at the end *)
(* the flags P_CreateFadeThinker took away come back.                      *)
FadeIn(f) ==
    /\ Running(f)
    /\ fade[f] = "in"
    /\ unseen' = unseen \ {Faded(f)}
    /\ \/ UNCHANGED <<shootable, fade, refs>>
       \/ /\ FadeEnds(f, refs)
          /\ shootable' = shootable \cup ({Faded(f)} \cap monster)
    /\ UNCHANGED removed

(* T_MobjFadeThinker down to 0: the mobj is removed by the step that       *)
(* brings its alpha there, not by a fade that finds it there.              *)
FadeOut(f) ==
    /\ Running(f)
    /\ fade[f] = "out"
    /\ \/ /\ Faded(f) \in unseen
          /\ FadeEnds(f, refs)
          /\ UNCHANGED <<removed, unseen>>
       \/ /\ Faded(f) \notin unseen
          /\ UNCHANGED <<removed, unseen, fade, refs>>
       \/ /\ Faded(f) \notin unseen
          /\ removed' = removed \cup {Faded(f)}
          /\ FadeEnds(f, Released(refs, Faded(f)))
          /\ unseen' = unseen \cup {Faded(f)}
    /\ UNCHANGED shootable

(* P_UnlinkThinker, one tic after P_RemoveThinker.                         *)
UnlinkThinker(f) ==
    /\ Running(f)
    /\ fade[f] = "unlink"
    /\ fade' = [fade EXCEPT ![f] = "free"]
    /\ UNCHANGED <<removed, shootable, unseen, refs>>

---------------------------------------------------------------------------
(* "mobjs": P_RunMobjs.                                                    *)

RunMobjs ==
    /\ phase = "thinkers"
    /\ pending = {}
    /\ phase' = "mobjs"
    /\ cur' = MobjHead
    /\ seen' = {}
    /\ UNCHANGED <<mobjVars, thinking, pending, fade, options, refs>>

(* The mobjs that P_RunMobjs passes over, whatever their mobjfunc is.      *)
PassedOver == nosector \cup (IF locked THEN monster \ owned ELSE {})

(* The loop moves on to the mobj m, the one before it having returned.     *)
MovesTo(m) ==
    /\ phase = "mobjs"
    /\ m = After(cur)
    /\ phase' = IF m = MobjHead THEN "world" ELSE "mobjs"
    /\ UNCHANGED <<pending, owned, fade, options>>

VisitPlayer ==
    LET m == After(cur)
    IN  /\ MovesTo(m)
        /\ m \in owned
        /\ cur' = m
        /\ thinking' = FALSE
        /\ seen' = seen \cup {m}
        /\ UNCHANGED <<list, removed, kinds, shootable, unseen, refs>>

VisitPassedOver ==
    LET m == After(cur)
    IN  /\ MovesTo(m)
        /\ m \in PassedOver
        /\ cur' = m
        /\ thinking' = FALSE
        /\ seen' = seen \cup {m}
        /\ UNCHANGED <<list, removed, kinds, shootable, unseen, refs>>

VisitRemoved_Skips ==
    LET m == After(cur)
    IN  /\ MovesTo(m)
        /\ m \in removed \ PassedOver
        /\ cur' = m
        /\ thinking' = FALSE
        /\ seen' = seen \cup {m}
        /\ UNCHANGED <<list, removed, kinds, shootable, unseen, refs>>
VisitRemoved ==
    LET m == After(cur)
    IN  /\ MovesTo(m)
        /\ m \in removed \ PassedOver
        /\ SafeRemoveMobj(m, refs)
        /\ thinking' = FALSE
        /\ seen' = IF refs.count[m] = 0 THEN seen \ {m} ELSE seen \cup {m}

VisitMobj ==
    LET m == After(cur)
    IN  /\ MovesTo(m)
        /\ m \in Mobj \ (owned \cup removed \cup PassedOver)
        /\ cur' = m
        /\ thinking' = TRUE
        /\ seen' = seen \cup {m}
        /\ UNCHANGED <<list, removed, kinds, shootable, unseen, refs>>

EndPass ==
    /\ MovesTo(MobjHead)
    /\ cur' = MobjHead
    /\ thinking' = FALSE
    /\ seen' = {}
    /\ UNCHANGED <<list, removed, kinds, shootable, unseen, refs>>

(* What P_MobjThinker may do for the current mobj, any number of times.    *)
Turn ==
    /\ thinking
    /\ UNCHANGED <<phase, cur, thinking, pending, seen, fade, options>>

(* A_Look, P_LookForPlayers, A_TargetCamera: a new target, found by sight, *)
(* by sound or by tag.                                                     *)
Targets(t) ==
    /\ Turn
    /\ t \in Linked \ {cur}
    /\ refs' = SetTarget(refs, Target(cur), t)
    /\ UNCHANGED mobjVars

Shoots(n, hostile) == Turn /\ Shoot(cur, n, hostile)

(* The current mobj hits t; a missile hits for the mobj that shot it.      *)
Strikes(t, source) ==
    /\ Turn
    /\ t \in removed => t = refs.ptr[Target(cur)]
    /\ Hurt(t, source)

(* The current mobj's mobjfunc is called.                                  *)
TurnEnds ==
    /\ thinking
    /\ thinking' = FALSE
    /\ UNCHANGED <<phase, pending, owned, fade, options>>

(* P_SetMobjState to S_000: P_RemoveMobj, and the mobjfunc it sets is      *)
(* called in the same turn.                                                *)
Vanishes ==
    LET r == Released(refs, cur)
    IN  /\ TurnEnds
        /\ ~Living(cur)
        /\ SafeRemoveMobj(cur, r)
        /\ seen' = IF r.count[cur] = 0 THEN seen \ {cur} ELSE seen

(* A missile that flies into the sky: mobjfunc is P_RemoveMobj.            *)
FliesAway ==
    /\ TurnEnds
    /\ cur \notin monster
    /\ RemoveMobj(cur)
    /\ UNCHANGED <<cur, seen, list, kinds, shootable, unseen>>

---------------------------------------------------------------------------
Init ==
    /\ \E p \in Mobj : list = <<p>> /\ owned = {p} /\ shootable = {p}
    /\ removed = {} /\ monster = {} /\ nosector = {} /\ unseen = {}
    /\ phase = "world" /\ cur = MobjHead /\ thinking = FALSE
    /\ pending = {} /\ seen = {} /\ due = {}
    /\ fade = [f \in Fade |-> "free"]
    /\ game \in Games /\ indicator = TRUE /\ locked \in {FALSE, game.lockable}
    /\ refs = [ptr |-> [s \in Slot |-> None], count |-> [m \in Mobj |-> 0]]

WorldStep ==
    \/ \E n \in Mobj : PlayerShoots(n)
    \/ \E t \in Mobj, source \in {Player, None} : PlayerHits(t, source)
    \/ \E t \in Mobj : PickUp(t) \/ AlertTaggedMobj(t)
    \/ \E s \in Sector : NoiseAlert(s)
    \/ \E f \in Fade, n \in Mobj, kind \in MobjKind : SpawnMobjTemplate(f, n, kind)
    \/ \E f \in Fade, t \in Mobj : FadeOutMobj(f, t)
    \/ \E k \in Marker : MarkerEnds(k)
    \/ SwitchIndicator \/ SwitchLock
    \/ \E p \in Mobj : EndLevel(p)
    \/ RunThinkers

ThinkerStep == (\E f \in Fade : FadeIn(f) \/ FadeOut(f) \/ UnlinkThinker(f)) \/ RunMobjs

MobjStep ==
    \/ VisitPlayer \/ VisitPassedOver \/ VisitRemoved \/ VisitMobj \/ EndPass
    \/ \E t \in Mobj : Targets(t)
    \/ \E n \in Mobj, hostile \in BOOLEAN : Shoots(n, hostile)
    \/ \E t \in Mobj : Strikes(t, cur) \/ Strikes(t, refs.ptr[Target(cur)])
    \/ Vanishes \/ FliesAway

(* A mobj that is not passed over is due from the moment P_RunMobjs starts *)
(* and finds it removed and with a count of 0, for as long as it is both.  *)
Due == IF phase = "thinkers" THEN removed \ PassedOver ELSE due

Next ==
    /\ WorldStep \/ ThinkerStep \/ MobjStep
    /\ due' = IF phase' = "thinkers" THEN {}
              ELSE {m \in Due \cap removed' : refs'.count[m] = 0}

Spec == Init /\ [][Next]_vars

---------------------------------------------------------------------------
(* Types; the cursor is in the list while P_RunMobjs runs, so that the     *)
(* loop never steps on from freed memory (the remark in P_UnlinkMobj).     *)
TypeOK ==
    /\ phase \in {"world", "thinkers", "mobjs"}
    /\ list \in Seq(Mobj) /\ IsInjective(list)
    /\ cur \in (IF phase = "mobjs" THEN Linked ELSE {}) \cup {MobjHead}
    /\ thinking \in BOOLEAN /\ (thinking => cur # MobjHead)
    /\ removed \cup monster \cup nosector \cup shootable \cup unseen \subseteq Linked
    /\ \E p \in Linked : owned = {p}
    /\ fade \in [Fade -> {"free", "in", "out", "unlink"}]
    /\ pending \subseteq Fade
    /\ indicator \in BOOLEAN /\ locked \in BOOLEAN /\ game \in Games
    /\ refs \in [ptr : [Slot -> Mobj \cup {None}], count : [Mobj -> Int]]
    /\ seen \subseteq Mobj /\ due \subseteq Mobj

(* No counted pointer (a target, a tracer, a fade's, a marker's or a       *)
(* sector's) points at memory that has been freed, whoever removed the     *)
(* mobj and in whatever order its holders let go.                          *)
HeldIsLinked == \A s \in Slot : refs.ptr[s] # None => refs.ptr[s] \in Linked

(* refcount is never less than the number of counted pointers there are,   *)
(* also when the address of a freed mobj is in use again.                  *)
NeverUndercounted == \A m \in Mobj : refs.count[m] >= Cardinality(Pointing(m))

(* P_RunMobjs has come to exactly the mobjs up to its cursor, although     *)
(* mobjs are freed under it and others join the list behind it: it misses  *)
(* none (it may pass over one it has come to) and comes to none twice.     *)
TurnsInOrder ==
    phase = "mobjs" =>
        \A i \in 1 .. Len(list) :
            list[i] \in seen <=> cur # MobjHead /\ i <= Place(cur)

(* A mobj that is removed and unreferenced when P_RunMobjs starts, and     *)
(* stays so, is freed in that pass, unless it is one that is passed over:  *)
(* what has MF_NOSECTOR, and a monster while monsters are locked, is not   *)
(* freed before that has changed.                                          *)
FreedInTime == phase = "world" => due = {}

---------------------------------------------------------------------------
(* What the comments claim and the code does not do.                       *)

(* "We keep a count of the number of references" (P_SetTarget): a mobj     *)
(* that P_AlertTaggedMobj gives a target after its removal is freed with   *)
(* that reference, and the count it leaves behind never goes away.         *)
CountsReferences == \A m \in Mobj : refs.count[m] = Cardinality(Pointing(m))

(* "Reset damage indicators" (P_Stop) is done only while the option is on: *)
(* with Switchable, HeldIsLinked fails for the markers of a level that     *)
(* ended while p_damageindicator was off.                                  *)
=============================================================================
