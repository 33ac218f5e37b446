------------------------------- MODULE Macros --------------------------------
(***************************************************************************)
(* Line specials, switches and macros (playloop/p_spec.cc, p_switch.cc,    *)
(* p_macros.cc) over the movers and timers of Movers.                      *)
(*                                                                         *)
(* A macro is a list of specials with ids; neighbours with the same id are *)
(* a batch.  P_RunMacros, the last call of a tic, runs one batch and then  *)
(* waits until the thinker that the batch's last special made is gone.     *)
(* Special 246 ends a loop over earlier batches.  Triggers of the dead and *)
(* of pick-ups that cannot run at once wait in a small ring of tags.       *)
(***************************************************************************)
EXTENDS Movers

CONSTANTS
    Line,           \* the lines a thing can trigger
    LineTag,        \* line_t.tag
    Present,        \* the sets of lines a map may have
    Tids,           \* the tids of things that trigger lines when they die or are taken
    Special,        \* line_t.special: [macro |-> m] or [cmd |-> c]
    Repeat,         \* lines with MLU_REPEAT
    Switch,         \* lines with MLU_USE or MLU_SHOOT, and a switch texture
    Macro,          \* the macros of the map
    Data,           \* macrodef_t.data: for every macro a sequence of [id, cmd, tag]
    QueueSize,      \* MAXQUEUELIST
    MaxButtons,     \* MAXBUTTONS
    MaxQueued,      \* bounds the things that die or are taken with such a tid
    MaxLoads,       \* bounds how often a game is saved and loaded
    SaveFresh       \* may that be before a macro's first batch has ended?

ASSUME NoneIsNoMacro == None \notin Macro

(* A macro without entries is left out: P_StartMacro refuses it, as the id     *)
(* past its end is 0.                                                          *)
ASSUME DataAssumption ==
    \A m \in Macro :
        Data[m] \in Seq([id : Nat \ {0}, cmd : STRING, tag : Nat]) \ {<<>>}

(* P_LoadLineDefs refuses a line whose macro the map does not have.            *)
ASSUME LinesAssumption ==
    \A l \in Line : IF "macro" \in DOMAIN Special[l] THEN Special[l].macro \in Macro
                                                     ELSE LineTag[l] \in Nat

VARIABLES
    phase,      \* "between" tics, "players", "thinkers", "mobjs" or "macros"
    spent,      \* lines whose special has become 0
    lit,        \* switches that show the other texture
    buttons,    \* lines with a button in buttonlist
    base,       \* those of them whose button will show the other texture at its end
    macro,      \* macrodef_t *macro
    next,       \* nextmacro, as a place in the data; 0: NULL
    counter,    \* macrocounter
    once,       \* bTriggerOnce
    globalint,
    cleared,    \* macros whose first id has become 0
    taglist, taglistidx,
    queued,     \* how many things have triggered their lines
    batch,      \* the loop of P_RunMacros, [at, id, last]; at = 0: not in it
    loads,
    passes,     \* history: how often each id's batch ended in this run of a macro
    stuck       \* history: lines whose button was running when a game was loaded

lineVars == <<spent, lit, buttons, base>>
macroVars == <<macro, next, counter, once, globalint, cleared, batch, passes>>
queueVars == <<taglist, taglistidx, queued>>
allMovers == <<list, fn, type, move, old, home, peer, moverVars>>
vars == <<thinkerVars, moverVars, phase, lineVars, macroVars, queueVars, loads, stuck>>

NoBatch == [at |-> 0, id |-> 0, last |-> None]

(* The id of the macro's entry at i.                                           *)
Id(m, i) == IF i = 1 /\ m \in cleared THEN 0 ELSE Data[m][i].id

(* P_InitMacroVars, but for macrothinker and globalint.                        *)
P_InitMacroVars ==
    /\ macro' = None
    /\ next' = 0
    /\ counter' = -1
    /\ once' = FALSE
    /\ passes' = [b \in DOMAIN passes |-> 0]

(* P_RestartMacro: the first entry with that id, if there is one.              *)
Entries(id) == {i \in DOMAIN Data[macro] : Id(macro, i) = id}
P_RestartMacro(id) ==
    next' = IF Entries(id) = {} THEN next
            ELSE CHOOSE i \in Entries(id) : \A j \in Entries(id) : i =< j

(* P_InitMacroCounter; its answer is always -1.                                *)
P_InitMacroCounter_FirstCounts(counts) ==
    IF counter = -1
    THEN counter' = counts - 1 /\ UNCHANGED next
    ELSE IF counter > 0
         THEN counter' = counter - 1 /\ P_RestartMacro(globalint)
         ELSE counter' = 0 /\ UNCHANGED next

P_InitMacroCounter(counts) ==
    IF counter = -1
    THEN counter' = counts /\ UNCHANGED next
    ELSE IF counter > 0
         THEN counter' = counter - 1 /\ P_RestartMacro(globalint)
         ELSE counter' = 0 /\ UNCHANGED next

(* P_SuspendMacro while a macro waits for a thinker: it is removed, and the    *)
(* macro with it.                                                              *)
P_SuspendMacro ==
    /\ P_RemoveThinker(watch)
    /\ P_InitMacroVars
    /\ UNCHANGED <<cursor, list, type, move, old, home, peer, moverVars,
                   globalint, cleared>>
Suspends == macro # None /\ watch # None

(* The commands of P_DoSpecialLine that macros and lines give here, and        *)
(* whether each does anything (its ok).                                        *)
Works(cmd, tag) ==
    CASE cmd \in Doors \cup Floors -> Unclaimed(Tagged(tag)) # {}
      [] cmd = "suspend" -> Suspends
      [] OTHER -> TRUE

P_DoSpecialLine(cmd, tag) ==
    \/ /\ cmd \in Doors \cup Floors
       /\ NewMovers(tag, cmd)
       /\ UNCHANGED <<macro, next, counter, once, globalint, cleared, passes>>
    \/ /\ cmd = "timer"
       /\ P_SpawnTimer
       /\ UNCHANGED <<macro, next, counter, once, globalint, cleared, passes>>
    \/ /\ cmd = "setInt"
       /\ globalint' = tag
       /\ UNCHANGED <<allMovers, cursor, watch, macro, next, counter, once, cleared,
                      passes>>
    \/ /\ cmd = "counter"
       /\ P_InitMacroCounter(tag)
       /\ UNCHANGED <<allMovers, cursor, watch, macro, once, globalint, cleared, passes>>
    \/ /\ cmd = "suspend"
       /\ Suspends
       /\ P_SuspendMacro
    \/ /\ cmd = "toggleOff"                     \* P_ToggleMacros
       /\ cleared' = cleared \cup {tag}
       /\ UNCHANGED <<allMovers, cursor, watch, macro, next, counter, once, globalint,
                      passes>>
    \/ /\ cmd \in {"none", "toggleOn"} \/ ~ Works(cmd, tag)     \* an id is never < 0
       /\ UNCHANGED <<allMovers, cursor, watch, macro, next, counter, once, globalint,
                      cleared, passes>>

SwitchLine_Rearms(l) ==
    /\ lit' = IF l \notin Switch THEN lit
              ELSE IF l \in lit THEN lit \ {l} ELSE lit \cup {l}
    /\ buttons' = IF l \in Switch \cap Repeat THEN buttons \cup {l} ELSE buttons
    /\ base' = IF l \in lit /\ l \in buttons' THEN base \cup {l} ELSE base
    /\ Cardinality(buttons') =< MaxButtons
    /\ spent' = IF l \in Repeat THEN spent ELSE spent \cup {l}

(* P_ChangeSwitchTexture and P_StartButton for a line that worked, and the     *)
(* end of P_InitSpecialLine: a line without MLU_REPEAT loses its special.      *)
SwitchLine(l) ==
    /\ lit' = IF l \notin Switch THEN lit
              ELSE IF l \in lit THEN lit \ {l} ELSE lit \cup {l}
    /\ buttons' = IF l \in Switch \cap Repeat THEN buttons \cup {l} ELSE buttons
    /\ base' = IF l \in lit /\ l \in buttons' \ buttons THEN base \cup {l} ELSE base
    /\ Cardinality(buttons') =< MaxButtons      \* "no button slots left" ends the program
    /\ spent' = IF l \in Repeat THEN spent ELSE spent \cup {l}

(* P_StartMacro by line l.  It fails while a macro runs, and for a macro whose *)
(* first id is 0, which also takes the line's special away.                    *)
StartMacro(l) ==
    LET m == Special[l].macro
    IN /\ macro' = m
       /\ once' = (l \notin Repeat)
       /\ next' = 0
       /\ counter' = -1
       /\ UNCHANGED <<allMovers, cursor, watch, globalint, cleared, passes>>

(* P_InitSpecialLine; Answers says whether it returns TRUE.                    *)
IsMacro(l) == "macro" \in DOMAIN Special[l]
Answers(l) ==
    /\ l \notin spent
    /\ IF IsMacro(l)
       THEN macro = None /\ Special[l].macro \notin cleared
       ELSE Works(Special[l].cmd, LineTag[l])

P_InitSpecialLine(l) ==
    IF ~ Answers(l)
    THEN /\ spent' = IF /\ l \notin spent /\ IsMacro(l) /\ macro = None
                     THEN spent \cup {l} ELSE spent
         /\ UNCHANGED <<allMovers, cursor, watch, macro, next, counter, once, globalint,
                        cleared, passes, lit, buttons, base>>
    ELSE /\ SwitchLine(l)
         /\ IF IsMacro(l) THEN StartMacro(l) ELSE P_DoSpecialLine(Special[l].cmd, LineTag[l])

(* P_ActivateLineByTag: the first line with that tag; TRUE if there is none.   *)
IsFirst(l, tag) == LineTag[l] = tag /\ \A k \in Line : LineTag[k] = tag => l =< k
Activates(tag) == \A l \in Line : IsFirst(l, tag) => Answers(l)

(* A thing triggers a line, while players or mobjs think.                      *)
Trigger ==
    /\ phase \in {"players", "mobjs"}
    /\ \E l \in Line : P_InitSpecialLine(l)
    /\ UNCHANGED <<phase, queueVars, batch, loads, stuck>>

(* P_QueueSpecial: a dead or a picked-up thing triggers the first line with    *)
(* its tid; if that fails the tid waits in the ring, over what was there.      *)
P_QueueSpecial ==
    /\ phase \in {"players", "mobjs"}
    /\ queued < MaxQueued
    /\ queued' = queued + 1
    /\ \E l \in Line :
        /\ LineTag[l] \in Tids
        /\ IsFirst(l, LineTag[l])
        /\ P_InitSpecialLine(l)
        /\ IF Answers(l) THEN UNCHANGED <<taglist, taglistidx>>
           ELSE /\ taglist' = [taglist EXCEPT ![taglistidx] = LineTag[l]]
                /\ taglistidx' = (taglistidx + 1) % QueueSize
    /\ UNCHANGED <<phase, batch, loads, stuck>>

-----------------------------------------------------------------------------
(* P_Ticker: players, thinkers, mobjs, buttons, macros.                        *)
StartTic ==
    /\ phase = "between"
    /\ phase' = "players"
    /\ UNCHANGED <<thinkerVars, moverVars, lineVars, macroVars, queueVars, loads, stuck>>

P_RunThinkers ==
    /\ phase = "players"
    /\ IF list = <<>> THEN phase' = "mobjs" /\ UNCHANGED thinkerVars
                      ELSE phase' = "thinkers" /\ StartRound
    /\ UNCHANGED <<moverVars, lineVars, macroVars, queueVars, loads, stuck>>

ThinkerTurn ==
    /\ phase = "thinkers"
    /\ \E t \in Thinker : \/ T_Move(t)
                          \/ P_UnlinkThinker(t) /\ UNCHANGED moverVars
    /\ phase' = IF cursor' = 0 THEN "mobjs" ELSE "thinkers"
    /\ UNCHANGED <<lineVars, macroVars, queueVars, loads, stuck>>

(* P_UpdateSpecials: some buttons' time is up, and their lines show the        *)
(* texture again that they had when the button was pressed.                    *)
P_UpdateSpecials ==
    /\ phase = "mobjs"
    /\ phase' = "macros"
    /\ \E up \in SUBSET buttons :
        /\ buttons' = buttons \ up
        /\ lit' = (lit \ up) \cup (up \cap base)
        /\ base' = base \ up
    /\ UNCHANGED <<thinkerVars, moverVars, spent, macroVars, queueVars, loads, stuck>>

TryQueue_Keeps ==
    /\ phase = "macros"
    /\ macro = None
    /\ LET waiting == {i \in DOMAIN taglist : taglist[i] # 0}
       IN IF waiting = {}
          THEN UNCHANGED <<allMovers, cursor, watch, lineVars, macroVars>>
          ELSE \E i \in waiting :
                 /\ \A j \in waiting : i =< j
                 /\ \E l \in Line : IsFirst(l, taglist[i]) /\ P_InitSpecialLine(l)
                 /\ UNCHANGED batch
    /\ phase' = "between"
    /\ UNCHANGED <<queueVars, loads, stuck>>

(* P_RunMacros without a macro: the first tag in the ring is tried once more   *)
(* and forgotten.                                                              *)
TryQueue ==
    /\ phase = "macros"
    /\ macro = None
    /\ LET waiting == {i \in DOMAIN taglist : taglist[i] # 0}
       IN IF waiting = {}
          THEN UNCHANGED <<allMovers, cursor, watch, lineVars, macroVars, taglist>>
          ELSE \E i \in waiting :
                 /\ \A j \in waiting : i =< j
                 /\ taglist' = [taglist EXCEPT ![i] = 0]
                 /\ \E l \in Line : IsFirst(l, taglist[i]) /\ P_InitSpecialLine(l)
                 /\ UNCHANGED batch
    /\ phase' = "between"
    /\ UNCHANGED <<taglistidx, queued, loads, stuck>>

WaitForThinker ==
    /\ phase = "macros"
    /\ macro # None
    /\ batch.at = 0
    /\ watch # None
    /\ phase' = "between"
    /\ UNCHANGED <<thinkerVars, moverVars, lineVars, macroVars, queueVars, loads, stuck>>

StartBatch ==
    /\ phase = "macros"
    /\ macro # None
    /\ batch.at = 0
    /\ watch = None
    /\ LET i == IF next = 0 THEN 1 ELSE next
       IN batch' = [at |-> i, id |-> Id(macro, i), last |-> None]
    /\ UNCHANGED <<thinkerVars, moverVars, phase, lineVars, macro, next, counter, once,
                   globalint, cleared, passes, queueVars, loads, stuck>>

InBatch ==
    /\ batch.at \in DOMAIN Data[macro]
    /\ Id(macro, batch.at) = batch.id

(* The next special of the batch.  A counter that has rounds left ends the     *)
(* round here.                                                                 *)
BatchStep ==
    /\ batch.at # 0
    /\ InBatch
    /\ LET e == Data[macro][batch.at]
       IN /\ P_DoSpecialLine(e.cmd, e.tag)
          /\ IF e.cmd = "counter" /\ counter' # 0
             THEN batch' = NoBatch /\ phase' = "between"
             ELSE /\ batch' = [batch EXCEPT
                        !.at = @ + 1,
                        !.last = IF e.cmd = "none" THEN @
                                 ELSE IF Len(list') > Len(list) THEN Last(list')
                                 ELSE None]
                  /\ UNCHANGED phase
    /\ UNCHANGED <<lineVars, queueVars, loads, stuck>>

EndBatch_OffByOne ==
    /\ batch.at # 0
    /\ ~ InBatch
    /\ batch' = NoBatch
    /\ phase' = "between"
    /\ next' = batch.at
    /\ watch' = batch.last
    /\ passes' = [passes EXCEPT ![batch.id] = @ + 1]
    /\ UNCHANGED <<macro, counter, once, cleared>>
    /\ UNCHANGED <<list, cursor, fn, type, move, old, home, peer, moverVars, lineVars,
                   globalint, queueVars, loads, stuck>>

(* The batch is done: wait for its last thinker, or end the macro.             *)
EndBatch ==
    /\ batch.at # 0
    /\ ~ InBatch
    /\ batch' = NoBatch
    /\ phase' = "between"
    /\ IF batch.at \in DOMAIN Data[macro]
       THEN /\ next' = batch.at
            /\ watch' = batch.last
            /\ passes' = [passes EXCEPT ![batch.id] = @ + 1]
            /\ UNCHANGED <<macro, counter, once, cleared>>
       ELSE /\ cleared' = IF once THEN cleared \cup {macro} ELSE cleared
            /\ watch' = None
            /\ P_InitMacroVars
    /\ UNCHANGED <<list, cursor, fn, type, move, old, home, peer, moverVars, lineVars,
                   globalint, queueVars, loads, stuck>>

(* A game is saved and loaded between two tics (thinkers come back as Level    *)
(* says).  bTriggerOnce and the buttons are not saved, and the ring of tags    *)
(* only while a macro runs.  nextmacro is saved as a distance from the macro's *)
(* data: NULL comes back as a pointer to anything.                             *)
LoadGame ==
    /\ phase = "between"
    /\ loads < MaxLoads
    /\ loads' = loads + 1
    /\ SaveFresh \/ macro = None \/ next # 0
    /\ once' = FALSE
    /\ next' = IF macro # None /\ next = 0 THEN Len(Data[macro]) + 2 ELSE next
    /\ buttons' = {}
    /\ base' = {}
    /\ stuck' = stuck \cup buttons
    /\ taglist' = IF macro = None THEN [i \in DOMAIN taglist |-> 0] ELSE taglist
    /\ taglistidx' = IF macro = None THEN 0 ELSE taglistidx
    /\ UNCHANGED <<thinkerVars, moverVars, phase, spent, lit, macro, counter, globalint,
                   cleared, queued, batch, passes>>

Ids == {0} \cup UNION {{Data[m][i].id : i \in DOMAIN Data[m]} : m \in Macro}

Init ==
    /\ list = <<>>
    /\ cursor = 0
    /\ fn = [t \in Thinker |-> "free"]
    /\ type = [t \in Thinker |-> "none"]
    /\ move = [t \in Thinker |-> "none"]
    /\ old = [t \in Thinker |-> "none"]
    /\ home = [t \in Thinker |-> None]
    /\ peer = [t \in Thinker |-> None]
    /\ watch = None
    /\ InitMovers
    /\ phase = "between"
    /\ \E ls \in Present : spent = Line \ ls
    /\ lit = {} /\ buttons = {} /\ base = {}
    /\ macro = None
    /\ next = 0
    /\ counter = -1
    /\ once = FALSE
    /\ globalint = 0
    /\ cleared = {}
    /\ taglist = [i \in 0 .. QueueSize - 1 |-> 0]
    /\ taglistidx = 0 /\ queued = 0
    /\ batch = NoBatch
    /\ loads = 0
    /\ passes = [b \in Ids |-> 0]
    /\ stuck = {}

Tic == \/ StartTic \/ P_RunThinkers \/ ThinkerTurn \/ P_UpdateSpecials
       \/ TryQueue \/ WaitForThinker \/ StartBatch \/ BatchStep \/ EndBatch

Next == Trigger \/ P_QueueSpecial \/ Tic \/ LoadGame

Spec == Init /\ [][Next]_vars

(* P_Ticker returns, and the program runs tic after tic.  T_CountdownTimer and *)
(* its like count down in every tic; a mover may be blocked for ever.          *)
TimerEnds(t) ==
    ThinkerTurn /\ type[t] = "timer" /\ fn[t] = "run" /\ fn'[t] = "unlink"

FairSpec == Spec /\ WF_vars(Tic) /\ \A t \in Thinker : SF_vars(TimerEnds(t))
-----------------------------------------------------------------------------
TypeOK ==
    /\ phase \in {"between", "players", "thinkers", "mobjs", "macros"}
    /\ macro \in Macro \cup {None}
    /\ counter \in Int /\ counter >= -1
    /\ batch.at # 0 => phase = "macros" /\ macro # None
    /\ macro # None => next \in 0 .. Len(Data[macro])
    /\ buttons \subseteq Switch \cap Repeat

(* The entries of macro m with that special.                                  *)
Having(m, cmd) == {i \in DOMAIN Data[m] : Data[m][i].cmd = cmd}

(* The rounds that macro m gives to the batch with id b: a counter of n makes  *)
(* the batches from the one that globalint names up to its own run n times.    *)
Rounds(m, b) ==
    LET from == {Data[m][i].tag : i \in Having(m, "setInt")}
        looped == {i \in Having(m, "counter") : b < Data[m][i].id /\ \E g \in from : g =< b}
    IN IF looped = {} THEN 1
       ELSE LET n == Data[m][CHOOSE i \in looped : TRUE].tag IN IF n > 1 THEN n ELSE 1

(* The first id of macro m may become 0 while it runs, by a line or a macro.   *)
MayBeOff(m) ==
    \/ \E l \in Line : ~ IsMacro(l) /\ Special[l].cmd = "toggleOff" /\ LineTag[l] = m
    \/ \E k \in Macro : \E i \in Having(k, "toggleOff") : Data[k][i].tag = m

(* The macros for which Rounds is right, and the lines that leave them alone:  *)
(* ids go upwards, the first one is still there when its entry has lost it,    *)
(* there is one counter at most, and before it globalint is set, once, to the  *)
(* id of a batch that comes no later.                                          *)
OneLoop ==
    /\ \A l \in Line : ~ IsMacro(l) => Special[l].cmd \notin {"setInt", "counter"}
    /\ \A m \in Macro :
        /\ \A i, j \in DOMAIN Data[m] : i < j => Data[m][i].id =< Data[m][j].id
        /\ MayBeOff(m) => Len(Data[m]) > 1 /\ Data[m][1].id = Data[m][2].id
        /\ \A i, j \in Having(m, "counter") : i = j
        /\ \A i, j \in Having(m, "setInt") : i = j
        /\ \A i \in Having(m, "counter") : \E j \in Having(m, "setInt") :
            j < i /\ \E k \in 1 .. i : Data[m][k].id = Data[m][j].tag

(* A macro that ends has run each of its batches as often as its counter says, *)
(* whatever lines, saved games and suspended macros came in between.           *)
CounterRuns ==
    [][macro # None /\ EndBatch /\ macro' = None =>
        \A i \in DOMAIN Data[macro] :
            LET b == Data[macro][i].id
            IN passes[b] + (IF b = batch.id THEN 1 ELSE 0) = Rounds(macro, b)]_vars

(* A switch that can be used again shows its first texture whenever its button *)
(* is not running, however often and in whatever order it is pressed.  Buttons *)
(* are not saved, so a switch that was pressed when the game was saved is the  *)
(* exception.                                                                  *)
SwitchReset == \A l \in lit \cap Repeat : l \in buttons \cup stuck

(* Every macro that is started ends or waits for a mover.                      *)
WaitsForMover == watch # None /\ type[watch] \in Movers
MacroEnds == []<>(macro = None \/ WaitsForMover)

(* Every special that waits in the ring is tried again.                        *)
QueueServed ==
    \A i \in 0 .. QueueSize - 1 : []<>(taglist[i] = 0 \/ WaitsForMover)
=============================================================================
