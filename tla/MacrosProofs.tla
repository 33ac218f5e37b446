---------------------------- MODULE MacrosProofs -----------------------------
(***************************************************************************)
(* Proofs about Macros, for any lines, macros and thinkers.                *)
(*                                                                         *)
(* Lines are triggered only between two batches, and nothing but the batch *)
(* itself happens in one: so a line leaves a macro as it is, starts one or *)
(* ends it, and the count of the rounds is the business of a batch.        *)
(***************************************************************************)
EXTENDS Macros, FiniteSetTheorems, TLAPS

\* A set of numbers that is not empty has a least one.
LEMMA LeastNumber ==
  ASSUME NEW S, S \subseteq Nat, S # {}
  PROVE  \E n \in S : \A m \in S : n =< m
<1> DEFINE R == OpToRel(<, Nat)
<1>1. \E n \in S : \A m \in S : ~ (<<m, n>> \in R)
  BY NatLessThanWellFounded, WFMin
<1>2. \A m, n \in Nat : m < n => <<m, n>> \in R
  BY DEF OpToRel
<1> HIDE DEF R
<1>3. PICK n \in S : \A m \in S : ~ (<<m, n>> \in R)
  BY <1>1
<1>4. ASSUME NEW m \in S PROVE n =< m
  <2>1. m \in Nat /\ n \in Nat /\ ~ (m < n)
    BY <1>2, <1>3
  <2> QED BY <2>1
<1> QED BY <1>3, <1>4

---------------------------------------------------------------------------
(* What the steps do to a macro.                                           *)

\* The entries of a macro.
LEMMA Entry ==
  ASSUME NEW m \in Macro
  PROVE  /\ Len(Data[m]) \in Nat \ {0} /\ DOMAIN Data[m] = 1 .. Len(Data[m])
         /\ \A i \in DOMAIN Data[m] :
              /\ Data[m][i].id \in Nat \ {0} /\ Data[m][i].tag \in Nat
              /\ Data[m][i].id \in Ids
<1> DEFINE E == [id : Nat \ {0}, cmd : STRING, tag : Nat]
<1>1. Data[m] \in Seq(E) /\ Data[m] # <<>>
  BY DataAssumption
<1> HIDE DEF E
<1>2. Len(Data[m]) \in Nat \ {0} /\ DOMAIN Data[m] = 1 .. Len(Data[m])
  BY <1>1
<1>3. \A i \in DOMAIN Data[m] : Data[m][i] \in E
  BY <1>1, <1>2
<1>4. \A i \in DOMAIN Data[m] : Data[m][i].id \in Nat \ {0} /\ Data[m][i].tag \in Nat
  BY <1>3 DEF E
<1>5. \A i \in DOMAIN Data[m] : Data[m][i].id \in Ids
  BY DEF Ids
<1> QED BY <1>2, <1>4, <1>5

\* What the end of a macro leaves (P_InitMacroVars).
Ended ==
  /\ macro' = None /\ next' = 0 /\ counter' = -1
  /\ passes' = [b \in DOMAIN passes |-> 0]

\* A special of a line or of an entry does nothing to the macro, sets globalint, counts,
\* suspends the macro or switches one off.
LEMMA DoSpecial ==
  ASSUME NEW cmd, NEW tag, P_DoSpecialLine(cmd, tag)
  PROVE  \/ /\ cmd \notin {"setInt", "counter"}
            /\ UNCHANGED <<macro, next, counter, globalint, passes, cleared, watch>>
         \/ /\ cmd = "setInt"
            /\ globalint' = tag
            /\ UNCHANGED <<macro, next, counter, passes, cleared, watch>>
         \/ /\ cmd = "counter"
            /\ P_InitMacroCounter(tag)
            /\ UNCHANGED <<macro, globalint, passes, cleared, watch>>
         \/ /\ cmd = "suspend" /\ Suspends
            /\ Ended
            /\ UNCHANGED <<globalint, cleared>>
         \/ /\ cmd = "toggleOff"
            /\ cleared' = cleared \cup {tag}
            /\ UNCHANGED <<macro, next, counter, globalint, passes, watch>>
<1>1. CASE cmd \in Doors \cup Floors /\ NewMovers(tag, cmd)
           /\ UNCHANGED <<macro, next, counter, once, globalint, cleared, passes>>
  BY <1>1 DEF NewMovers, Doors, Floors
<1>2. CASE cmd = "timer" /\ P_SpawnTimer
           /\ UNCHANGED <<macro, next, counter, once, globalint, cleared, passes>>
  BY <1>2 DEF P_SpawnTimer
<1>3. CASE cmd = "suspend" /\ Suspends /\ P_SuspendMacro
  BY <1>3 DEF P_SuspendMacro, P_InitMacroVars, Ended
<1>4. CASE /\ cmd \in {"none", "toggleOn"} \/ ~ Works(cmd, tag)
           /\ UNCHANGED <<allMovers, cursor, watch, macro, next, counter, once, globalint,
                          cleared, passes>>
  <2>1. cmd \notin {"setInt", "counter"}
    BY <1>4 DEF Works, Doors, Floors
  <2> QED BY <1>4, <2>1
<1>5. CASE /\ cmd = "setInt"
           /\ globalint' = tag
           /\ UNCHANGED <<allMovers, cursor, watch, macro, next, counter, once, cleared,
                          passes>>
  BY <1>5
<1>6. CASE /\ cmd = "counter"
           /\ P_InitMacroCounter(tag)
           /\ UNCHANGED <<allMovers, cursor, watch, macro, once, globalint, cleared, passes>>
  BY <1>6
<1>7. CASE /\ cmd = "toggleOff"
           /\ cleared' = cleared \cup {tag}
           /\ UNCHANGED <<allMovers, cursor, watch, macro, next, counter, once, globalint,
                          passes>>
  BY <1>7
<1> QED BY <1>1, <1>2, <1>3, <1>4, <1>5, <1>6, <1>7 DEF P_DoSpecialLine

\* A line leaves the macro as it is, starts one, or does what its special says; and the
\* buttons are those of switches that can be used again.
LEMMA InitSpecial ==
  ASSUME NEW l \in Line, P_InitSpecialLine(l)
  PROVE  /\ \/ UNCHANGED <<macro, next, counter, globalint, passes, cleared>>
            \/ /\ IsMacro(l) /\ macro = None /\ Special[l].macro \notin cleared
               /\ StartMacro(l)
            \/ ~ IsMacro(l) /\ P_DoSpecialLine(Special[l].cmd, LineTag[l])
         /\ SwitchLine(l) \/ UNCHANGED <<lit, buttons, base>>
BY DEF P_InitSpecialLine, Answers

---------------------------------------------------------------------------
(* Types.                                                                  *)

Shapes ==
  /\ TypeOK
  /\ passes \in [Ids -> Nat]
  /\ batch = [at |-> batch.at, id |-> batch.id, last |-> batch.last]
  /\ batch.at # 0 => batch.at \in 1 .. Len(Data[macro]) + 1 /\ watch = None

\* P_RestartMacro leads to an entry with that id, if there is one.
LEMMA Restart ==
  ASSUME macro \in Macro, NEW id, P_RestartMacro(id)
  PROVE  \/ Entries(id) = {} /\ next' = next
         \/ /\ next' \in Entries(id) /\ next' \in DOMAIN Data[macro]
            /\ \A j \in Entries(id) : next' =< j
<1>1. CASE Entries(id) # {}
  <2>1. Entries(id) \subseteq Nat /\ Entries(id) \subseteq DOMAIN Data[macro]
    BY Entry DEF Entries
  <2>2. \E i \in Entries(id) : \A j \in Entries(id) : i =< j
    BY <1>1, <2>1, LeastNumber
  <2>3. next' = CHOOSE i \in Entries(id) : \A j \in Entries(id) : i =< j
    BY <1>1 DEF P_RestartMacro
  <2> QED BY <2>1, <2>2, <2>3
<1> QED BY <1>1 DEF P_RestartMacro

\* Counting keeps the types, if there is a macro or not.
LEMMA CounterShapes ==
  ASSUME Shapes, NEW tag \in Nat, P_InitMacroCounter(tag), UNCHANGED macro
  PROVE  /\ counter' \in Int /\ counter' >= -1
         /\ macro' # None => next' \in 0 .. Len(Data[macro'])
<1>1. counter' \in Int /\ counter' >= -1
  BY DEF P_InitMacroCounter, Shapes, TypeOK
<1>2. ASSUME macro # None PROVE next' \in 0 .. Len(Data[macro])
  <2>1. macro \in Macro /\ next \in 0 .. Len(Data[macro])
    BY <1>2 DEF Shapes, TypeOK
  <2>2. next' = next \/ P_RestartMacro(globalint)
    BY DEF P_InitMacroCounter
  <2> QED BY <2>1, <2>2, Restart, Entry
<1> QED BY <1>1, <1>2

\* A special keeps the types.
LEMMA SpecialShapes ==
  ASSUME Shapes, NEW cmd, NEW tag \in Nat, P_DoSpecialLine(cmd, tag)
  PROVE  /\ macro' \in Macro \cup {None}
         /\ counter' \in Int /\ counter' >= -1
         /\ macro' # None => next' \in 0 .. Len(Data[macro'])
         /\ passes' \in [Ids -> Nat]
         /\ batch.at # 0 => UNCHANGED <<macro, watch>>
<1> USE DEF Shapes, TypeOK
<1>1. CASE UNCHANGED <<macro, next, counter, passes, watch>>
  BY <1>1
<1>2. CASE P_InitMacroCounter(tag) /\ UNCHANGED <<macro, passes, watch>>
  BY <1>2, CounterShapes
<1>3. CASE Suspends /\ Ended
  BY <1>3 DEF Suspends, Ended
<1> QED BY <1>1, <1>2, <1>3, DoSpecial

\* So does a line.
LEMMA LineShapes ==
  ASSUME Shapes, NEW l \in Line, P_InitSpecialLine(l)
  PROVE  /\ macro' \in Macro \cup {None}
         /\ counter' \in Int /\ counter' >= -1
         /\ macro' # None => next' \in 0 .. Len(Data[macro'])
         /\ passes' \in [Ids -> Nat]
         /\ buttons' \subseteq Switch \cap Repeat
<1> USE DEF Shapes, TypeOK
<1>1. buttons' \subseteq Switch \cap Repeat
  BY InitSpecial DEF SwitchLine
<1>2. CASE UNCHANGED <<macro, next, counter, globalint, passes, cleared>>
  BY <1>1, <1>2
<1>3. CASE IsMacro(l) /\ StartMacro(l)
  <2>1. macro' \in Macro /\ next' = 0 /\ counter' = -1 /\ passes' = passes
    BY <1>3, LinesAssumption DEF IsMacro, StartMacro
  <2> QED BY <1>1, <2>1, Entry
<1>4. CASE ~ IsMacro(l) /\ P_DoSpecialLine(Special[l].cmd, LineTag[l])
  <2>1. LineTag[l] \in Nat
    BY <1>4, LinesAssumption DEF IsMacro
  <2> QED BY <1>1, <1>4, <2>1, SpecialShapes
<1> QED BY <1>2, <1>3, <1>4, InitSpecial

LEMMA ShapesNext ==
  ASSUME ~ SaveFresh, Shapes, [Next]_vars
  PROVE  Shapes'
<1> USE DEF Shapes
<1>t. TypeOK
  OBVIOUS
<1>1. CASE Trigger
  <2>1. PICK l \in Line : P_InitSpecialLine(l)
    BY <1>1 DEF Trigger
  <2>2. batch.at = 0 /\ batch' = batch /\ phase' = phase
    BY <1>1 DEF Trigger, TypeOK
  <2> QED BY <2>1, <2>2, LineShapes DEF TypeOK
<1>2. CASE P_QueueSpecial
  <2>1. PICK l \in Line : P_InitSpecialLine(l)
    BY <1>2 DEF P_QueueSpecial
  <2>2. batch.at = 0 /\ batch' = batch /\ phase' = phase
    BY <1>2 DEF P_QueueSpecial, TypeOK
  <2> QED BY <2>1, <2>2, LineShapes DEF TypeOK
<1>3. CASE TryQueue
  <2>1. batch.at = 0 /\ batch' = batch /\ phase' = "between"
    BY <1>3 DEF TryQueue, TypeOK, macroVars
  <2>2. CASE UNCHANGED <<lineVars, macroVars>>
    BY <2>1, <2>2 DEF TypeOK, lineVars, macroVars
  <2>3. CASE \E l \in Line : P_InitSpecialLine(l)
    BY <2>1, <2>3, LineShapes DEF TypeOK
  <2> QED BY <1>3, <2>2, <2>3 DEF TryQueue
<1>4. CASE StartTic \/ P_RunThinkers \/ ThinkerTurn
  <2>1. /\ batch.at = 0 /\ UNCHANGED <<lineVars, macroVars>>
        /\ phase' \in {"between", "players", "thinkers", "mobjs", "macros"}
    BY <1>4 DEF StartTic, P_RunThinkers, ThinkerTurn, TypeOK
  <2> QED BY <2>1 DEF TypeOK, lineVars, macroVars
<1>5. CASE P_UpdateSpecials
  <2>1. /\ batch.at = 0 /\ UNCHANGED macroVars /\ phase' = "macros"
        /\ buttons' \subseteq buttons
    BY <1>5 DEF P_UpdateSpecials, TypeOK
  <2> QED BY <2>1 DEF TypeOK, macroVars
<1>6. CASE WaitForThinker
  BY <1>6 DEF WaitForThinker, TypeOK, lineVars, macroVars, thinkerVars
<1>7. CASE StartBatch
  <2>1. macro \in Macro /\ next \in 0 .. Len(Data[macro]) /\ Len(Data[macro]) \in Nat \ {0}
    BY <1>7, Entry DEF StartBatch, TypeOK
  <2>2. /\ batch' = [at |-> batch'.at, id |-> batch'.id, last |-> batch'.last]
        /\ batch'.at \in 1 .. Len(Data[macro])
    BY <1>7, <2>1 DEF StartBatch
  <2>3. UNCHANGED <<macro, next, counter, passes, phase, buttons, watch>> /\ watch = None
        /\ phase = "macros"
    BY <1>7 DEF StartBatch, thinkerVars, lineVars
  <2> QED BY <2>1, <2>2, <2>3, NoneIsNoMacro DEF TypeOK
<1>8. CASE BatchStep
  <2>1. macro \in Macro /\ batch.at \in DOMAIN Data[macro]
        /\ Len(Data[macro]) \in Nat \ {0} /\ DOMAIN Data[macro] = 1 .. Len(Data[macro])
    BY <1>8, Entry DEF BatchStep, TypeOK, InBatch
  <2> DEFINE e == Data[macro][batch.at]
  <2>2. e.tag \in Nat /\ P_DoSpecialLine(e.cmd, e.tag)
    BY <1>8, <2>1, Entry DEF BatchStep
  <2>3. UNCHANGED <<macro, watch>> /\ watch = None /\ phase = "macros"
    BY <1>8, <2>2, SpecialShapes DEF BatchStep, TypeOK
  <2>4. /\ counter' \in Int /\ counter' >= -1
        /\ next' \in 0 .. Len(Data[macro])
        /\ passes' \in [Ids -> Nat]
    <3> HIDE DEF Shapes, e
    <3>1. macro' # None
      BY <2>1, <2>3, NoneIsNoMacro
    <3> QED BY <2>2, <2>3, <3>1, SpecialShapes
  <2>5. CASE batch' = NoBatch /\ phase' = "between"
    BY <1>8, <2>1, <2>3, <2>4, <2>5 DEF BatchStep, NoBatch, TypeOK, lineVars
  <2>6. CASE /\ phase' = phase
             /\ \E last : batch' = [batch EXCEPT !.at = @ + 1, !.last = last]
    <3>1. /\ batch'.at = batch.at + 1
          /\ batch' = [at |-> batch'.at, id |-> batch'.id, last |-> batch'.last]
      BY <2>6
    <3>2. batch'.at \in 1 .. Len(Data[macro]) + 1
      BY <2>1, <3>1
    <3>3. buttons' = buttons
      BY <1>8 DEF BatchStep, lineVars
    <3> QED BY <2>1, <2>3, <2>4, <2>6, <3>1, <3>2, <3>3, NoneIsNoMacro DEF TypeOK
  <2> QED BY <1>8, <2>5, <2>6 DEF BatchStep
<1>9. CASE EndBatch
  <2>1. macro \in Macro /\ Len(Data[macro]) \in Nat \ {0} /\ DOMAIN Data[macro] = 1 .. Len(Data[macro])
        /\ batch' = NoBatch /\ phase' = "between" /\ buttons' = buttons
    BY <1>9, Entry DEF EndBatch, TypeOK, lineVars
  <2>2. CASE batch.at \in DOMAIN Data[macro]
    <3>1. /\ next' = batch.at /\ UNCHANGED <<macro, counter>>
          /\ passes' = [passes EXCEPT ![batch.id] = @ + 1]
      BY <1>9, <2>2 DEF EndBatch
    <3>2. passes' \in [Ids -> Nat]
      <4>1. passes' = [b \in Ids |-> IF b = batch.id THEN passes[b] + 1 ELSE passes[b]]
        BY <3>1
      <4> QED BY <4>1
    <3> QED BY <2>1, <2>2, <3>1, <3>2 DEF TypeOK, NoBatch
  <2>3. CASE batch.at \notin DOMAIN Data[macro]
    BY <1>9, <2>1, <2>3 DEF EndBatch, P_InitMacroVars, TypeOK, NoBatch
  <2> QED BY <2>2, <2>3
<1>10. CASE LoadGame
  BY <1>10 DEF LoadGame, TypeOK
<1>11. CASE UNCHANGED vars
  BY <1>11 DEF vars, TypeOK, lineVars, macroVars, thinkerVars
<1> QED BY <1>1, <1>2, <1>3, <1>4, <1>5, <1>6, <1>7, <1>8, <1>9, <1>10, <1>11
  DEF Next, Tic

\* Types are kept if no game is saved before the first batch of its macro has ended, when
\* the code saves a NULL as a distance (P_ArchiveMacros).
THEOREM TypeCorrect == ASSUME ~ SaveFresh PROVE Spec => []TypeOK
<1>1. Init => Shapes
  <2> SUFFICES ASSUME Init PROVE Shapes
    OBVIOUS
  <2> QED BY DEF Init, Shapes, TypeOK, NoBatch
<1>2. Shapes /\ [Next]_vars => Shapes'
  BY ShapesNext
<1>3. Shapes => TypeOK
  BY DEF Shapes
<1> QED BY <1>1, <1>2, <1>3, PTL DEF Spec

---------------------------------------------------------------------------
(* Switches.                                                               *)

\* A button that will show the other texture began while one of before the last saved
\* game had left it.
ButtonInv ==
  /\ SwitchReset
  /\ base \subseteq buttons
  /\ base \cap Repeat \subseteq stuck

\* Pressing a switch keeps that.
LEMMA PressKeeps ==
  ASSUME ButtonInv, NEW l \in Line, SwitchLine(l), UNCHANGED stuck
  PROVE  ButtonInv'
<1>1. base' \subseteq buttons' /\ buttons \subseteq buttons'
  BY DEF SwitchLine, ButtonInv
<1>2. ASSUME NEW k \in base' \cap Repeat PROVE k \in stuck'
  <2>1. k \in base \/ (k = l /\ l \in lit /\ l \notin buttons)
    BY <1>2 DEF SwitchLine
  <2> QED BY <1>2, <2>1 DEF ButtonInv, SwitchReset
<1>3. ASSUME NEW k \in lit' \cap Repeat PROVE k \in buttons' \cup stuck'
  <2>1. k \in lit \/ (k = l /\ l \in Switch)
    BY <1>3 DEF SwitchLine
  <2>2. CASE k \in lit
    BY <1>1, <1>3, <2>2 DEF ButtonInv, SwitchReset
  <2>3. CASE k = l /\ l \in Switch
    BY <1>3, <2>3 DEF SwitchLine
  <2> QED BY <2>1, <2>2, <2>3
<1> QED BY <1>1, <1>2, <1>3 DEF ButtonInv, SwitchReset

LEMMA ButtonNext ==
  ASSUME ButtonInv, [Next]_vars
  PROVE  ButtonInv'
<1>1. CASE UNCHANGED <<lit, buttons, base, stuck>>
  BY <1>1 DEF ButtonInv, SwitchReset
<1>2. CASE UNCHANGED stuck /\ \E l \in Line : P_InitSpecialLine(l)
  BY <1>1, <1>2, InitSpecial, PressKeeps
<1>3. CASE P_UpdateSpecials
  <2>1. PICK up \in SUBSET buttons :
          /\ buttons' = buttons \ up
          /\ lit' = (lit \ up) \cup (up \cap base)
          /\ base' = base \ up
    BY <1>3 DEF P_UpdateSpecials
  <2>2. stuck' = stuck
    BY <1>3 DEF P_UpdateSpecials
  <2>3. base' \subseteq buttons' /\ base' \cap Repeat \subseteq stuck'
    BY <2>1, <2>2 DEF ButtonInv
  <2>4. ASSUME NEW k \in lit' \cap Repeat PROVE k \in buttons' \cup stuck'
    BY <2>1, <2>2, <2>4 DEF ButtonInv, SwitchReset
  <2> QED BY <2>3, <2>4 DEF ButtonInv, SwitchReset
<1>4. CASE LoadGame
  <2>1. buttons' = {} /\ base' = {} /\ stuck' = stuck \cup buttons /\ lit' = lit
    BY <1>4 DEF LoadGame
  <2> QED BY <2>1 DEF ButtonInv, SwitchReset
<1>5. CASE Trigger \/ P_QueueSpecial
  BY <1>2, <1>5 DEF Trigger, P_QueueSpecial
<1>6. CASE TryQueue
  BY <1>1, <1>2, <1>6 DEF TryQueue, lineVars
<1>7. CASE StartTic \/ P_RunThinkers \/ ThinkerTurn \/ WaitForThinker \/ StartBatch
  BY <1>1, <1>7 DEF StartTic, P_RunThinkers, ThinkerTurn, WaitForThinker, StartBatch, lineVars
<1>8. CASE BatchStep \/ EndBatch
  BY <1>1, <1>8 DEF BatchStep, EndBatch, lineVars
<1>9. CASE UNCHANGED vars
  BY <1>1, <1>9 DEF vars, lineVars
<1> QED BY <1>3, <1>4, <1>5, <1>6, <1>7, <1>8, <1>9 DEF Next, Tic

\* Switches that can be used again come back to their first texture, in whatever order
\* they are pressed (P_ChangeSwitchTexture, P_StartButton, P_UpdateSpecials).
THEOREM SwitchesComeBack == Spec => []SwitchReset
<1>1. Init => ButtonInv
  BY DEF Init, ButtonInv, SwitchReset
<1>2. ButtonInv /\ [Next]_vars => ButtonInv'
  BY ButtonNext
<1>3. ButtonInv => SwitchReset
  BY DEF ButtonInv
<1> QED BY <1>1, <1>2, <1>3, PTL DEF Spec

---------------------------------------------------------------------------
(* Rounds.                                                                 *)

\* The macro that runs is at a batch: the one it will begin, or the one it is in.
Here == IF next = 0 THEN 1 ELSE next
Place == IF batch.at # 0 THEN batch.at ELSE Here
Batch == IF batch.at = 0 THEN Data[macro][Here].id
         ELSE IF batch.id = 0 THEN Data[macro][1].id ELSE batch.id

\* In a batch the entry behind or the next one is of it, and until the counter has run
\* out nextmacro is where it began.
BatchInv ==
  batch.at # 0 =>
    /\ \/ InBatch
       \/ batch.at > 1 /\ Data[macro][batch.at - 1].id = Batch
    /\ batch.id \in Nat
    /\ batch.id = 0 => macro \in cleared /\ batch.at =< 2
    /\ counter # 0 => Here =< batch.at /\ Data[macro][Here].id = Batch

ClearInv == macro # None /\ macro \in cleared => MayBeOff(macro)

\* What the batches before this one have in this round, and those of the loop from the
\* rounds before.
Did(b) == IF b < Batch THEN 1 ELSE 0
Looped(m, b) ==
  \E c \in Having(m, "counter") :
    b < Data[m][c].id /\ \E j \in Having(m, "setInt") : Data[m][j].tag =< b
Extra(b) ==
  IF counter = -1 \/ ~ Looped(macro, b) THEN 0
  ELSE IF counter = 0 THEN Rounds(macro, b) - 1
  ELSE Data[macro][CHOOSE c \in Having(macro, "counter") : TRUE].tag - counter

Counted ==
  \A i \in DOMAIN Data[macro] :
    LET b == Data[macro][i].id IN passes[b] = Did(b) + Extra(b)

CountInv ==
  /\ \A c \in Having(macro, "counter") :
       IF counter = 0 THEN Place > c /\ Batch >= Data[macro][c].id
                      ELSE Place =< c /\ counter =< Data[macro][c].tag
  /\ Having(macro, "counter") = {} => counter = -1
  /\ \A j \in Having(macro, "setInt") :
       /\ Place > j \/ counter > 0 => globalint = Data[macro][j].tag
       /\ counter > 0 => Batch >= Data[macro][j].tag

RoundInv == macro # None => CountInv /\ Counted
RestInv == macro = None => \A b \in Ids : passes[b] = 0

IInv == Shapes /\ BatchInv /\ ClearInv /\ RoundInv /\ RestInv

\* Only macros that MayBeOff are switched off.
SwitchedOff ==
  /\ cleared \subseteq cleared'
  /\ \A m \in cleared' \ cleared : MayBeOff(m)

\* What a macro counts, if it has a counter c and sets globalint at j.
LEMMA Loop ==
  ASSUME OneLoop, NEW m \in Macro
  PROVE  /\ \A i, k \in DOMAIN Data[m] : i =< k => Data[m][i].id =< Data[m][k].id
         /\ MayBeOff(m) => Len(Data[m]) > 1 /\ Data[m][1].id = Data[m][2].id
         /\ \A c \in Having(m, "counter") :
              /\ c \in DOMAIN Data[m] /\ Having(m, "counter") = {c}
              /\ (CHOOSE i \in Having(m, "counter") : TRUE) = c
              /\ \E j \in DOMAIN Data[m] :
                   /\ Having(m, "setInt") = {j} /\ j < c
                   /\ \E k \in 1 .. c : Data[m][k].id = Data[m][j].tag
                   /\ \A b : Looped(m, b) <=> b < Data[m][c].id /\ Data[m][j].tag =< b
         /\ Having(m, "counter") = {} => \A b : ~ Looped(m, b)
<1>1. \A i, k \in DOMAIN Data[m] : i =< k => Data[m][i].id =< Data[m][k].id
  <2>1. \A i, k \in DOMAIN Data[m] : i < k => Data[m][i].id =< Data[m][k].id
    BY DEF OneLoop
  <2> QED BY <2>1, Entry
<1>2. MayBeOff(m) => Len(Data[m]) > 1 /\ Data[m][1].id = Data[m][2].id
  BY DEF OneLoop
<1>3. ASSUME NEW c \in Having(m, "counter")
      PROVE  /\ c \in DOMAIN Data[m] /\ Having(m, "counter") = {c}
             /\ (CHOOSE i \in Having(m, "counter") : TRUE) = c
             /\ \E j \in DOMAIN Data[m] :
                  /\ Having(m, "setInt") = {j} /\ j < c
                  /\ \E k \in 1 .. c : Data[m][k].id = Data[m][j].tag
                  /\ \A b : Looped(m, b) <=> b < Data[m][c].id /\ Data[m][j].tag =< b
  <2>1. c \in DOMAIN Data[m] /\ Having(m, "counter") = {c}
    BY DEF Having, OneLoop
  <2>2. PICK j \in Having(m, "setInt") : j < c /\ \E k \in 1 .. c : Data[m][k].id = Data[m][j].tag
    BY DEF OneLoop
  <2>3. j \in DOMAIN Data[m] /\ Having(m, "setInt") = {j}
    BY DEF Having, OneLoop
  <2>4. \A b : Looped(m, b) <=> b < Data[m][c].id /\ Data[m][j].tag =< b
    BY <2>1, <2>3 DEF Looped
  <2> QED BY <2>1, <2>2, <2>3, <2>4
<1>4. Having(m, "counter") = {} => \A b : ~ Looped(m, b)
  BY DEF Looped
<1> QED BY <1>1, <1>2, <1>3, <1>4

\* The rounds of a batch.
LEMMA RoundsOf ==
  ASSUME OneLoop, NEW m \in Macro, NEW b
  PROVE  /\ ~ Looped(m, b) => Rounds(m, b) = 1
         /\ \A c \in Having(m, "counter") : Looped(m, b) =>
              Rounds(m, b) = IF Data[m][c].tag > 1 THEN Data[m][c].tag ELSE 1
<1> DEFINE from == {Data[m][i].tag : i \in Having(m, "setInt")}
           looped == {i \in Having(m, "counter") : b < Data[m][i].id /\ \E g \in from : g =< b}
<1>1. looped = {} <=> ~ Looped(m, b)
  BY DEF Looped
<1>2. ASSUME NEW c \in Having(m, "counter"), Looped(m, b)
      PROVE  (CHOOSE i \in looped : TRUE) = c
  <2>1. looped # {} /\ Having(m, "counter") = {c}
    BY <1>1, <1>2, Loop
  <2> QED BY <2>1
<1>3. Rounds(m, b) =
        IF looped = {} THEN 1
        ELSE LET n == Data[m][CHOOSE i \in looped : TRUE].tag IN IF n > 1 THEN n ELSE 1
  BY DEF Rounds
<1> HIDE DEF looped
<1> QED BY <1>1, <1>2, <1>3

\* A step between two batches that leaves the macro as it is.
LEMMA QuietKeeps ==
  ASSUME IInv, Shapes', batch.at = 0, batch'.at = 0, SwitchedOff,
         UNCHANGED <<macro, next, counter, globalint, passes>>
  PROVE  IInv'
<1>1. Here' = Here /\ Place' = Place /\ Batch' = Batch
  BY DEF Here, Place, Batch
<1>2. BatchInv' /\ ClearInv' /\ RestInv'
  BY DEF IInv, BatchInv, ClearInv, RestInv, SwitchedOff
<1>3. \A b : Did(b)' = Did(b) /\ Extra(b)' = Extra(b)
  BY <1>1 DEF Did, Extra
<1>4. RoundInv'
  BY <1>1, <1>3 DEF IInv, RoundInv, CountInv, Counted
<1> QED BY <1>2, <1>4 DEF IInv

\* A step that starts a macro.
LEMMA BeginKeeps ==
  ASSUME OneLoop, IInv, Shapes', batch.at = 0, batch' = batch, macro = None,
         macro' \in Macro, macro' \notin cleared',
         next' = 0, counter' = -1, UNCHANGED passes
  PROVE  IInv'
<1> PICK m \in Macro : m = macro'
  OBVIOUS
<1>1. Here' = 1 /\ Place' = 1 /\ Batch' = Data[m][1].id
  BY DEF Here, Place, Batch
<1>2. BatchInv' /\ ClearInv' /\ RestInv'
  BY NoneIsNoMacro DEF BatchInv, ClearInv, RestInv
<1>3. /\ Len(Data[m]) \in Nat \ {0} /\ DOMAIN Data[m] = 1 .. Len(Data[m])
      /\ \A i \in DOMAIN Data[m] :
           /\ Data[m][i].id \in Nat \ {0} /\ Data[m][i].tag \in Nat
           /\ Data[m][i].id \in Ids
  BY Entry
<1>4. \A i \in DOMAIN Data[m] : Data[m][1].id =< Data[m][i].id
  BY <1>3, Loop
<1>5. Counted'
  <2>1. ASSUME NEW i \in DOMAIN Data[m], NEW b, b = Data[m][i].id
        PROVE  passes'[b] = Did(b)' + Extra(b)'
    <3>1. b \in Ids /\ b \in Nat /\ Data[m][1].id \in Nat /\ Data[m][1].id =< b
      BY <1>3, <1>4, <2>1
    <3>2. passes'[b] = 0
      BY <3>1 DEF IInv, RestInv
    <3>3. Did(b)' = 0
      BY <1>1, <3>1 DEF Did
    <3>4. Extra(b)' = 0
      BY DEF Extra
    <3> QED BY <3>2, <3>3, <3>4
  <2> QED BY <2>1 DEF Counted
<1>6. CountInv'
  <2>1. \A cmd : \A i \in Having(m, cmd) : i \in Nat \ {0} /\ Data[m][i].tag \in Nat
    BY <1>3 DEF Having
  <2>2. macro' = m /\ Place' = 1 /\ counter' = -1
    BY <1>1
  <2>3. \A c \in Having(m, "counter") : 1 =< c /\ -1 =< Data[m][c].tag
    BY <2>1
  <2>4. \A j \in Having(m, "setInt") : ~ (1 > j)
    BY <2>1
  <2> QED BY <2>2, <2>3, <2>4 DEF CountInv
<1> QED BY <1>2, <1>5, <1>6 DEF IInv, RoundInv

\* A step that ends one.
LEMMA EndKeeps ==
  ASSUME IInv, Shapes', Ended, batch'.at = 0
  PROVE  IInv'
<1>1. \A b \in Ids : passes'[b] = 0
  BY DEF IInv, Shapes, Ended
<1> QED BY <1>1 DEF IInv, BatchInv, ClearInv, RoundInv, RestInv, Ended

\* A line.
LEMMA LineKeeps ==
  ASSUME OneLoop, IInv, Shapes', batch.at = 0, batch' = batch,
         NEW l \in Line, P_InitSpecialLine(l)
  PROVE  IInv'
<1>1. CASE UNCHANGED <<macro, next, counter, globalint, passes, cleared>>
  BY <1>1, QuietKeeps DEF SwitchedOff
<1>2. CASE /\ IsMacro(l) /\ macro = None /\ Special[l].macro \notin cleared
           /\ StartMacro(l)
  <2>1. Special[l].macro \in Macro
    BY <1>2, LinesAssumption DEF IsMacro
  <2> QED BY <1>2, <2>1, BeginKeeps DEF StartMacro
<1>3. CASE ~ IsMacro(l) /\ P_DoSpecialLine(Special[l].cmd, LineTag[l])
  <2> DEFINE cmd == Special[l].cmd
             tag == LineTag[l]
  <2>1. cmd \notin {"setInt", "counter"}
    BY <1>3 DEF OneLoop
  <2>2. CASE UNCHANGED <<macro, next, counter, globalint, passes, cleared, watch>>
    BY <2>2, <1>1
  <2>3. CASE Ended
    BY <2>3, EndKeeps
  <2>4. CASE /\ cmd = "toggleOff"
             /\ cleared' = cleared \cup {tag}
             /\ UNCHANGED <<macro, next, counter, globalint, passes, watch>>
    <3>1. MayBeOff(tag)
      BY <1>3, <2>4 DEF MayBeOff
    <3>2. SwitchedOff
      BY <2>4, <3>1 DEF SwitchedOff
    <3> QED BY <2>4, <3>2, QuietKeeps
  <2> HIDE DEF cmd, tag
  <2>5. P_DoSpecialLine(cmd, tag)
    BY <1>3 DEF cmd, tag
  <2> QED BY <2>1, <2>2, <2>3, <2>4, <2>5, DoSpecial
<1> QED BY <1>1, <1>2, <1>3, InitSpecial

\* What is counted are numbers.
LEMMA CountsAreNumbers ==
  ASSUME OneLoop, IInv, macro \in Macro, NEW b
  PROVE  Extra(b) \in Int
<1>1. counter \in Int
  BY DEF IInv, Shapes, TypeOK
<1>2. ASSUME Looped(macro, b) PROVE Rounds(macro, b) \in Int
             /\ Data[macro][CHOOSE c \in Having(macro, "counter") : TRUE].tag \in Int
  <2>1. PICK c \in Having(macro, "counter") : TRUE
    BY <1>2 DEF Looped
  <2>2. c \in DOMAIN Data[macro] /\ (CHOOSE i \in Having(macro, "counter") : TRUE) = c
    BY <2>1, Loop
  <2>3. Data[macro][c].tag \in Nat
    BY <2>2, Entry
  <2>4. Rounds(macro, b) = IF Data[macro][c].tag > 1 THEN Data[macro][c].tag ELSE 1
    BY <1>2, RoundsOf
  <2>5. Rounds(macro, b) \in Int
    BY <2>3, <2>4
  <2>6. Data[macro][CHOOSE i \in Having(macro, "counter") : TRUE].tag \in Nat
    BY <2>2, <2>3, Zenon
  <2> QED BY <2>5, <2>6
<1> QED BY <1>1, <1>2 DEF Extra

\* A batch begins.
LEMMA StartKeeps ==
  ASSUME IInv, Shapes', StartBatch
  PROVE  IInv'
<1>1. macro \in Macro /\ batch.at = 0 /\ next \in 0 .. Len(Data[macro])
  BY DEF StartBatch, IInv, Shapes, TypeOK
<1>2. /\ Len(Data[macro]) \in Nat \ {0} /\ DOMAIN Data[macro] = 1 .. Len(Data[macro])
      /\ Here \in DOMAIN Data[macro]
      /\ Data[macro][Here].id \in Nat \ {0} /\ Data[macro][1].id \in Nat \ {0}
  BY <1>1, Entry DEF Here
<1>3. /\ batch' = [at |-> Here, id |-> Id(macro, Here), last |-> None]
      /\ UNCHANGED <<macro, next, counter, globalint, cleared, passes>>
  BY DEF StartBatch, Here
<1>4. /\ batch'.at = Here /\ batch'.at # 0 /\ batch'.id = Id(macro, Here)
      /\ Here' = Here /\ Place' = Place
  BY <1>1, <1>2, <1>3 DEF Here, Place
<1>5. Id(macro, Here) = 0 => Here = 1 /\ macro \in cleared
  BY <1>2 DEF Id
<1>6. Id(macro, Here) # 0 => Id(macro, Here) = Data[macro][Here].id
  BY DEF Id
<1>7. Batch' = Batch /\ Batch = Data[macro][Here].id
  BY <1>1, <1>3, <1>4, <1>5, <1>6 DEF Batch
<1>8. InBatch'
  BY <1>2, <1>3, <1>4 DEF InBatch, Id
<1>9. BatchInv'
  BY <1>2, <1>3, <1>4, <1>5, <1>6, <1>7, <1>8 DEF BatchInv
<1>10. \A b : Did(b)' = Did(b) /\ Extra(b)' = Extra(b)
  BY <1>3, <1>7 DEF Did, Extra
<1>11. RoundInv'
  BY <1>3, <1>4, <1>7, <1>10 DEF IInv, RoundInv, CountInv, Counted
<1>12. ClearInv' /\ RestInv'
  BY <1>3 DEF IInv, ClearInv, RestInv
<1> QED BY <1>9, <1>11, <1>12 DEF IInv

\* Behind the last entry of a batch.
LEMMA BatchDone ==
  ASSUME IInv, batch.at # 0, ~ InBatch
  PROVE  /\ macro \in Macro /\ batch.at \in 2 .. Len(Data[macro]) + 1
         /\ batch.at - 1 \in DOMAIN Data[macro]
         /\ Data[macro][batch.at - 1].id = Batch
         /\ batch.id # 0 => batch.id = Batch
         /\ batch.id = 0 => batch.at = 2 /\ MayBeOff(macro)
<1>1. macro \in Macro /\ batch.at \in 1 .. Len(Data[macro]) + 1
  BY DEF IInv, Shapes, TypeOK
<1>2. Len(Data[macro]) \in Nat \ {0} /\ DOMAIN Data[macro] = 1 .. Len(Data[macro])
  BY <1>1, Entry
<1>3. batch.at > 1 /\ Data[macro][batch.at - 1].id = Batch
  BY DEF IInv, BatchInv
<1>4. batch.id # 0 => batch.id = Batch
  BY DEF Batch
<1>5. batch.id = 0 => batch.at =< 2 /\ MayBeOff(macro)
  BY <1>1, NoneIsNoMacro DEF IInv, BatchInv, ClearInv
<1> QED BY <1>1, <1>2, <1>3, <1>4, <1>5

\* A batch ends.
LEMMA EndBatchKeeps ==
  ASSUME OneLoop, IInv, Shapes', EndBatch
  PROVE  IInv'
<1>1. batch.at # 0 /\ ~ InBatch /\ batch' = NoBatch
  BY DEF EndBatch
<1>2. batch'.at = 0
  BY <1>1 DEF NoBatch
<1>3. CASE batch.at \notin DOMAIN Data[macro]
  BY <1>2, <1>3, EndKeeps DEF EndBatch, P_InitMacroVars, Ended
<1>4. CASE batch.at \in DOMAIN Data[macro]
  <2> DEFINE at == batch.at
  <2>1. /\ next' = at
        /\ passes' = [passes EXCEPT ![batch.id] = @ + 1]
        /\ UNCHANGED <<macro, counter, cleared, globalint>>
    BY <1>4 DEF EndBatch
  <2>2. /\ macro \in Macro /\ at \in 2 .. Len(Data[macro]) + 1
        /\ at - 1 \in DOMAIN Data[macro]
        /\ Data[macro][at - 1].id = Batch
        /\ batch.id # 0 => batch.id = Batch
        /\ batch.id = 0 => at = 2 /\ MayBeOff(macro)
    BY <1>1, BatchDone
  <2> HIDE DEF at
  <2>3. /\ DOMAIN Data[macro] = 1 .. Len(Data[macro]) /\ Len(Data[macro]) \in Nat
        /\ \A i \in DOMAIN Data[macro] :
             Data[macro][i].id \in Nat \ {0} /\ Data[macro][i].id \in Ids
        /\ \A i, k \in DOMAIN Data[macro] : i =< k => Data[macro][i].id =< Data[macro][k].id
    BY <2>2, Entry, Loop
  <2>4. at \in DOMAIN Data[macro] /\ at \in Nat /\ at > 1
    BY <1>4, <2>2, <2>3 DEF at
  <2>5. Here' = at /\ Place' = at /\ Place = at /\ Batch' = Data[macro][at].id
    BY <1>1, <1>2, <2>1, <2>4 DEF Here, Place, Batch, at
  <2>6. Batch \in Nat \ {0} /\ Batch' \in Nat \ {0} /\ Batch =< Batch'
    BY <2>2, <2>3, <2>4, <2>5
  <2>7. ASSUME NEW i \in DOMAIN Data[macro], NEW b, b = Data[macro][i].id
        PROVE  passes'[b] = Did(b)' + Extra(b)'
    <3>1. b \in Nat \ {0} /\ b \in Ids /\ passes[b] = Did(b) + Extra(b)
      BY <2>2, <2>3, <2>7, NoneIsNoMacro DEF IInv, RoundInv, Counted
    <3>2. Extra(b)' = Extra(b)
      BY <2>1 DEF Extra
    <3>3. passes[b] \in Nat /\ passes'[b] = IF b = batch.id THEN passes[b] + 1 ELSE passes[b]
      BY <2>1, <3>1 DEF IInv, Shapes
    <3>4. CASE batch.id = 0
      <4>1. Batch' = Batch
        BY <2>2, <2>5, <3>4, Loop
      <4> QED BY <3>1, <3>2, <3>3, <3>4, <4>1 DEF Did
    <3>5. CASE batch.id # 0
      <4>1. batch.id = Batch
        BY <2>2, <3>5
      <4>2. Batch < Batch'
        <5>1. Id(macro, at) = Data[macro][at].id
          BY <2>4 DEF Id
        <5>2. Id(macro, at) # batch.id
          BY <1>1, <1>4 DEF InBatch, at
        <5> QED BY <2>5, <2>6, <4>1, <5>1, <5>2
      <4>3. b < Batch' <=> b =< Batch
        <5>1. i < at => i =< at - 1
          BY <2>3, <2>4
        <5>2. i >= at => b >= Batch'
          BY <2>3, <2>4, <2>5, <2>7
        <5>3. i =< at - 1 => b =< Batch
          BY <2>2, <2>3, <2>7
        <5>4. i \in Nat
          BY <2>3
        <5> QED BY <2>4, <2>6, <3>1, <4>2, <5>1, <5>2, <5>3, <5>4
      <4>4. Did(b)' = IF b = Batch THEN 1 ELSE Did(b)
        BY <2>6, <3>1, <4>3 DEF Did
      <4>5. b = Batch => Did(b) = 0
        BY <2>6 DEF Did
      <4>6. Did(b) \in {0, 1}
        BY DEF Did
      <4>7. CASE b = Batch
        <5>1. passes[b] = Extra(b)
          <6>1. passes[b] = 0 + Extra(b)
            BY <3>1, <4>5, <4>7
          <6>2. Extra(b) \in Int
            BY <3>1, <2>2, CountsAreNumbers
          <6> QED BY <6>1, <6>2
        <5>2. passes'[b] = 1 + Extra(b)
          BY <3>1, <3>3, <4>1, <4>7, <5>1
        <5> QED BY <3>2, <4>4, <4>7, <5>2
      <4>8. CASE b # Batch
        BY <3>1, <3>2, <3>3, <4>1, <4>4, <4>8
      <4> QED BY <4>7, <4>8
    <3> QED BY <3>4, <3>5
  <2>8. Counted'
    BY <2>1, <2>7 DEF Counted
  <2>9. CountInv
    BY <2>2, NoneIsNoMacro DEF IInv, RoundInv
  <2>10. CountInv'
    <3>1. \A x \in Int : Batch >= x => Batch' >= x
      BY <2>6
    <3>2. \A cmd : \A i \in Having(macro, cmd) :
            Data[macro][i].id \in Int /\ Data[macro][i].tag \in Int
      BY <2>2, <2>3, Entry DEF Having
    <3> QED BY <2>1, <2>5, <2>9, <3>1, <3>2 DEF CountInv
  <2>11. BatchInv' /\ ClearInv' /\ RestInv'
    BY <1>2, <2>1, <2>2, NoneIsNoMacro DEF BatchInv, ClearInv, RestInv, IInv
  <2> QED BY <2>8, <2>10, <2>11 DEF IInv, RoundInv
<1> QED BY <1>3, <1>4

\* An entry of a batch.
LEMMA InTheBatch ==
  ASSUME IInv, batch.at # 0, InBatch
  PROVE  /\ macro \in Macro /\ batch.at \in DOMAIN Data[macro] /\ watch = None
         /\ batch.at \in Nat \ {0} /\ batch.id \in Nat
         /\ Data[macro][batch.at].id = Batch
         /\ batch.id = 0 => batch.at = 1 /\ macro \in cleared
         /\ Place = batch.at
<1>1. macro \in Macro /\ watch = None /\ batch.at \in DOMAIN Data[macro]
      /\ Id(macro, batch.at) = batch.id /\ batch.id \in Nat
      /\ (batch.id = 0 => macro \in cleared)
  BY DEF IInv, Shapes, TypeOK, InBatch, BatchInv
<1>2. batch.at \in Nat \ {0} /\ Data[macro][batch.at].id # 0
  BY <1>1, Entry
<1>3. batch.id = 0 => batch.at = 1
  BY <1>1, <1>2 DEF Id
<1>4. batch.id # 0 => Data[macro][batch.at].id = batch.id
  BY <1>1 DEF Id
<1> QED BY <1>1, <1>2, <1>3, <1>4 DEF Batch, Place

\* A step of a batch that goes on to its next entry: what is left to show.
LEMMA GoesOn ==
  ASSUME IInv, Shapes', batch.at # 0, InBatch, SwitchedOff,
         batch'.at = batch.at + 1, batch'.id = batch.id,
         UNCHANGED macro,
         counter' # 0 => counter # 0 /\ next' = next
  PROVE  /\ Place' = Place + 1 /\ Batch' = Batch
         /\ BatchInv' /\ ClearInv'
         /\ \A b : Did(b)' = Did(b)
<1>1. /\ macro \in Macro /\ batch.at \in DOMAIN Data[macro]
      /\ batch.at \in Nat \ {0} /\ batch.id \in Nat
      /\ Data[macro][batch.at].id = Batch
      /\ batch.id = 0 => batch.at = 1 /\ macro \in cleared
      /\ Place = batch.at
  BY InTheBatch
<1>2. batch'.at = batch.at + 1 /\ batch'.id = batch.id
  OBVIOUS
<1>3. batch'.at # 0 /\ batch'.at > 1 /\ batch'.at - 1 = batch.at
  BY <1>1, <1>2
<1>4. Place' = Place + 1 /\ Batch' = Batch
  BY <1>1, <1>2, <1>3 DEF Place, Batch
<1>5. counter' # 0 => Here' = Here /\ Here =< batch.at /\ Data[macro][Here].id = Batch
  BY <1>1 DEF Here, IInv, BatchInv
<1>6. counter' # 0 => Here' =< batch'.at
  <2>1. macro # None
    BY <1>1, NoneIsNoMacro
  <2>2. next \in Nat
    BY <1>1, <2>1, Entry DEF IInv, Shapes, TypeOK
  <2> QED BY <1>1, <1>2, <1>5, <2>2 DEF Here
<1>7. batch'.id = 0 => macro' \in cleared' /\ batch'.at =< 2
  BY <1>1, <1>2 DEF SwitchedOff
<1>8. BatchInv'
  BY <1>1, <1>2, <1>3, <1>4, <1>5, <1>6, <1>7 DEF BatchInv
<1>9. ClearInv'
  BY DEF IInv, ClearInv, SwitchedOff
<1> QED BY <1>4, <1>8, <1>9 DEF Did

\* An entry that does not count.
LEMMA OtherKeeps ==
  ASSUME OneLoop, IInv, Shapes', batch.at # 0, InBatch,
         NEW e, e = Data[macro][batch.at], e.cmd # "counter",
         P_DoSpecialLine(e.cmd, e.tag),
         batch'.at = batch.at + 1, batch'.id = batch.id
  PROVE  IInv'
<1>1. /\ macro \in Macro /\ batch.at \in DOMAIN Data[macro] /\ watch = None
      /\ batch.at \in Nat \ {0} /\ Place = batch.at
  BY InTheBatch
<1>2. macro # None /\ CountInv /\ Counted
  BY <1>1, NoneIsNoMacro DEF IInv, RoundInv
<1>3. /\ UNCHANGED <<macro, next, counter, passes>>
      /\ IF e.cmd = "setInt" THEN globalint' = e.tag ELSE UNCHANGED globalint
      /\ SwitchedOff
  <2>1. CASE UNCHANGED <<macro, next, counter, passes, cleared>>
        /\ IF e.cmd = "setInt" THEN globalint' = e.tag ELSE UNCHANGED globalint
    BY <2>1 DEF SwitchedOff
  <2>2. CASE e.cmd = "toggleOff" /\ cleared' = cleared \cup {e.tag}
             /\ UNCHANGED <<macro, next, counter, globalint, passes>>
    <3>1. MayBeOff(e.tag)
      BY <1>1, <2>2 DEF MayBeOff, Having
    <3> QED BY <2>2, <3>1 DEF SwitchedOff
  <2>3. ~ Suspends
    BY <1>1 DEF Suspends
  <2> QED BY <2>1, <2>2, <2>3, DoSpecial
<1>4. /\ Place' = Place + 1 /\ Batch' = Batch
      /\ BatchInv' /\ ClearInv'
      /\ \A b : Did(b)' = Did(b)
  BY <1>3, GoesOn
<1>5. Counted'
  <2>1. \A b : Extra(b)' = Extra(b)
    BY <1>3 DEF Extra
  <2> QED BY <1>2, <1>3, <1>4, <2>1 DEF Counted
<1>6. CountInv'
  <2>1. /\ DOMAIN Data[macro] \subseteq Nat
        /\ \A cmd : Having(macro, cmd) \subseteq DOMAIN Data[macro]
    BY <1>1, Entry DEF Having
  <2>2. ASSUME NEW c \in Having(macro, "counter")
        PROVE  IF counter = 0 THEN Place + 1 > c /\ Batch >= Data[macro][c].id
                              ELSE Place + 1 =< c /\ counter =< Data[macro][c].tag
    <3>1. c # batch.at
      BY <2>2 DEF Having
    <3>2. c \in Nat
      BY <2>1
    <3> QED BY <1>1, <1>2, <3>1, <3>2 DEF CountInv
  <2>3. ASSUME NEW j \in Having(macro, "setInt"), Place + 1 > j \/ counter > 0
        PROVE  globalint' = Data[macro][j].tag
    <3>1. CASE e.cmd = "setInt"
      <4>1. batch.at = j
        BY <1>1, <3>1 DEF Having, OneLoop
      <4> QED BY <1>3, <3>1, <4>1
    <3>2. CASE e.cmd # "setInt"
      <4>1. j # batch.at
        BY <3>2 DEF Having
      <4>2. j \in Nat
        BY <2>1
      <4> QED BY <1>1, <1>2, <1>3, <2>3, <3>2, <4>1, <4>2 DEF CountInv
    <3> QED BY <3>1, <3>2
  <2> QED BY <1>2, <1>3, <1>4, <2>2, <2>3 DEF CountInv
<1> QED BY <1>2, <1>3, <1>4, <1>5, <1>6 DEF IInv, RoundInv, RestInv

\* The counter of a macro runs through 1, ..., its tag, or is over at once.
LEMMA CounterKeeps ==
  ASSUME OneLoop, IInv, Shapes', batch.at # 0, InBatch,
         NEW e, e = Data[macro][batch.at], e.cmd = "counter",
         P_DoSpecialLine(e.cmd, e.tag),
         IF counter' # 0 THEN batch' = NoBatch
                        ELSE batch'.at = batch.at + 1 /\ batch'.id = batch.id
  PROVE  IInv'
<1> DEFINE c == batch.at
<1>1. /\ macro \in Macro /\ c \in DOMAIN Data[macro]
      /\ c \in Nat \ {0} /\ Place = c /\ Data[macro][c].id = Batch
  BY InTheBatch
<1>2. macro # None /\ CountInv /\ Counted
  BY <1>1, NoneIsNoMacro DEF IInv, RoundInv
<1>3. P_InitMacroCounter(e.tag) /\ UNCHANGED <<macro, globalint, passes, cleared>>
  BY DoSpecial
<1>4. c \in Having(macro, "counter")
  BY <1>1 DEF Having
<1>5. PICK j \in DOMAIN Data[macro] :
        /\ Having(macro, "setInt") = {j} /\ j < c
        /\ \E k \in 1 .. c : Data[macro][k].id = Data[macro][j].tag
        /\ \A b : Looped(macro, b) <=> b < Data[macro][c].id /\ Data[macro][j].tag =< b
  BY <1>1, <1>4, Loop
<1> DEFINE g == Data[macro][j].tag
           n == Data[macro][c].tag
<1>6. /\ Having(macro, "counter") = {c}
      /\ \A b : Looped(macro, b) => Rounds(macro, b) = IF n > 1 THEN n ELSE 1
      /\ \A b : ~ Looped(macro, b) => Rounds(macro, b) = 1
  BY <1>1, <1>4, Loop, RoundsOf
<1>7. /\ DOMAIN Data[macro] = 1 .. Len(Data[macro]) /\ Len(Data[macro]) \in Nat
      /\ \A i \in DOMAIN Data[macro] :
           Data[macro][i].id \in Nat \ {0} /\ Data[macro][i].tag \in Nat
      /\ \A i, k \in DOMAIN Data[macro] : i =< k => Data[macro][i].id =< Data[macro][k].id
  BY <1>1, Entry, Loop
<1>8. g \in Nat /\ n \in Nat /\ Batch \in Nat \ {0} /\ j \in Nat /\ e.tag = n
      /\ counter \in Int /\ counter >= -1
  BY <1>1, <1>5, <1>7 DEF IInv, Shapes, TypeOK
<1>9. PICK k \in 1 .. c : Data[macro][k].id = g
  BY <1>5
<1>10. k \in DOMAIN Data[macro] /\ k \in Nat /\ 1 =< k /\ k =< c /\ g =< Batch /\ g # 0
  BY <1>1, <1>7, <1>8, <1>9
<1>11. globalint = g /\ counter # 0 /\ counter =< n
  BY <1>1, <1>2, <1>4, <1>5, <1>8 DEF CountInv
<1>12. \A b : Extra(b) = IF counter = -1 \/ ~ Looped(macro, b) THEN 0 ELSE n - counter
  BY <1>6, <1>11 DEF Extra
<1>13. \A b : Extra(b)' = IF counter' = -1 \/ ~ Looped(macro, b) THEN 0
                          ELSE IF counter' = 0 THEN Rounds(macro, b) - 1
                          ELSE n - counter'
  BY <1>3, <1>6 DEF Extra
<1>14. \A i \in DOMAIN Data[macro] : Data[macro][i].id \in Nat \ {0}
          /\ passes[Data[macro][i].id] = Did(Data[macro][i].id) + Extra(Data[macro][i].id)
  BY <1>2, <1>7 DEF Counted
<1> HIDE DEF c, g, n
<1>15. CASE counter = -1 /\ n > 0
  <2>1. counter' = n /\ next' = next /\ batch' = NoBatch
    BY <1>3, <1>8, <1>15 DEF P_InitMacroCounter
  <2>2. batch'.at = 0
    BY <2>1 DEF NoBatch
  <2>3. Here' = Here /\ Here =< c /\ Data[macro][Here].id = Batch
    BY <1>11, <2>1 DEF IInv, BatchInv, Here, c
  <2>4. Place' = Here /\ Batch' = Batch
    BY <1>3, <2>2, <2>3 DEF Place, Batch
  <2>5. \A b : Did(b)' = Did(b) /\ Extra(b)' = 0 /\ Extra(b) = 0
    BY <1>8, <1>12, <1>13, <1>15, <2>1, <2>4 DEF Did
  <2>6. Counted'
    BY <1>2, <1>3, <2>5 DEF Counted
  <2>7. CountInv'
    BY <1>1, <1>3, <1>5, <1>6, <1>8, <1>10, <1>11, <1>15, <2>1, <2>3, <2>4 DEF CountInv, n, g
  <2> QED BY <1>2, <1>3, <2>2, <2>6, <2>7 DEF IInv, RoundInv, RestInv, ClearInv, BatchInv
<1>16. CASE counter > 1
  <2>1. counter' = counter - 1 /\ P_RestartMacro(g) /\ batch' = NoBatch
    BY <1>3, <1>8, <1>11, <1>16 DEF P_InitMacroCounter
  <2>2. batch'.at = 0
    BY <2>1 DEF NoBatch
  <2>3. \A i \in DOMAIN Data[macro] :
          i \in Entries(g) <=> Data[macro][i].id = g /\ ~ (i = 1 /\ macro \in cleared)
    BY <1>10 DEF Entries, Id
  <2>4. \E i \in Entries(g) : i =< c
    <3>1. CASE k = 1 /\ macro \in cleared
      <4>1. Len(Data[macro]) > 1 /\ Data[macro][2].id = g
        BY <1>1, <1>2, <1>9, <3>1, Loop DEF IInv, ClearInv
      <4>2. 2 \in DOMAIN Data[macro] /\ 2 =< c
        <5>1. 2 \in DOMAIN Data[macro]
          BY <1>7, <4>1
        <5>2. 1 =< j
          BY <1>7
        <5>3. j < c /\ c \in Nat
          BY <1>1, <1>5
        <5> QED BY <1>8, <5>1, <5>2, <5>3
      <4> QED BY <2>3, <4>1, <4>2
    <3>2. CASE ~ (k = 1 /\ macro \in cleared)
      BY <1>9, <1>10, <2>3, <3>2
    <3> QED BY <3>1, <3>2
  <2>5. next' \in Entries(g) /\ next' \in DOMAIN Data[macro]
        /\ \A i \in Entries(g) : next' =< i
    BY <1>1, <2>1, <2>4, Restart
  <2>6. next' \in Nat \ {0} /\ next' =< c
    <3>1. next' \in Nat \ {0}
      BY <1>7, <2>5
    <3>2. PICK i \in Entries(g) : i =< c /\ next' =< i
      BY <2>4, <2>5
    <3>3. i \in Nat
      BY <1>7, <3>2 DEF Entries
    <3> QED BY <1>1, <3>1, <3>2, <3>3
  <2>7. Here' = next' /\ Place' = next' /\ Batch' = g
    BY <1>3, <2>2, <2>3, <2>5, <2>6 DEF Here, Place, Batch
  <2>8. Counted'
    <3>1. ASSUME NEW i \in DOMAIN Data[macro], NEW b, b = Data[macro][i].id
          PROVE  passes[b] = Did(b)' + Extra(b)'
      <4>1. b \in Nat /\ passes[b] = Did(b) + Extra(b)
        BY <1>14, <3>1
      <4>2. Did(b) = (IF b < Batch THEN 1 ELSE 0) /\ Did(b)' = IF b < g THEN 1 ELSE 0
        BY <2>7 DEF Did
      <4>3. CASE Looped(macro, b)
        <5>1. b < Batch /\ g =< b
          BY <1>1, <1>5, <4>3 DEF g
        <5>2. Did(b) = 1 /\ Did(b)' = 0
          BY <1>8, <4>1, <4>2, <5>1
        <5>3. Extra(b) = n - counter /\ Extra(b)' = n - (counter - 1)
          BY <1>8, <1>12, <1>13, <1>16, <2>1, <4>3
        <5> QED BY <1>8, <4>1, <5>2, <5>3
      <4>4. CASE ~ Looped(macro, b)
        <5>1. ~ (b < Batch) \/ ~ (g =< b)
          BY <1>1, <1>5, <4>4 DEF g
        <5>2. Did(b) = Did(b)'
          BY <1>8, <1>10, <4>1, <4>2, <5>1
        <5> QED BY <1>12, <1>13, <4>1, <4>4, <5>2
      <4> QED BY <4>3, <4>4
    <3> QED BY <1>3, <3>1 DEF Counted
  <2>9. CountInv'
    <3>1. /\ macro' = macro /\ counter' # 0 /\ counter' =< Data[macro][c].tag
          /\ Place' =< c /\ Batch' >= Data[macro][j].tag
      BY <1>3, <1>8, <1>11, <1>16, <2>1, <2>6, <2>7 DEF n, g
    <3>2. globalint' = Data[macro][j].tag
      BY <1>3, <1>11 DEF g
    <3> QED BY <1>5, <1>6, <3>1, <3>2 DEF CountInv
  <2> QED BY <1>2, <1>3, <2>2, <2>8, <2>9 DEF IInv, RoundInv, RestInv, ClearInv, BatchInv
<1>17. CASE (counter = -1 /\ n = 0) \/ counter = 1
  <2>1. counter' = 0
    BY <1>3, <1>8, <1>17 DEF P_InitMacroCounter
  <2>2. batch'.at = batch.at + 1 /\ batch'.id = batch.id
    BY <2>1
  <2>3. SwitchedOff
    BY <1>3 DEF SwitchedOff
  <2>4. /\ Place' = Place + 1 /\ Batch' = Batch
        /\ BatchInv' /\ ClearInv'
        /\ \A b : Did(b)' = Did(b)
    BY <1>3, <2>1, <2>2, <2>3, GoesOn
  <2>5. Counted'
    <3>1. ASSUME NEW i \in DOMAIN Data[macro], NEW b, b = Data[macro][i].id
          PROVE  passes[b] = Did(b)' + Extra(b)'
      <4>1. b \in Nat /\ passes[b] = Did(b) + Extra(b)
        BY <1>14, <3>1
      <4>2. CASE Looped(macro, b)
        <5>1. b < Batch
          BY <1>1, <1>5, <4>2
        <5>2. Did(b) = 1 /\ Did(b)' = 1
          BY <2>4, <5>1 DEF Did
        <5>3. Extra(b) = IF counter = -1 THEN 0 ELSE n - 1
          BY <1>12, <1>17, <4>2
        <5>4. Extra(b)' = (IF n > 1 THEN n ELSE 1) - 1
          BY <1>6, <1>13, <2>1, <4>2
        <5> QED BY <1>8, <1>11, <1>17, <4>1, <5>2, <5>3, <5>4
      <4>3. CASE ~ Looped(macro, b)
        BY <1>12, <1>13, <2>4, <4>1, <4>3
      <4> QED BY <4>2, <4>3
    <3> QED BY <1>3, <3>1 DEF Counted
  <2>6. CountInv'
    <3>1. Place' > c /\ Batch' >= Data[macro][c].id
      BY <1>1, <1>8, <2>4
    <3> QED BY <1>3, <1>5, <1>6, <1>11, <2>1, <3>1 DEF CountInv, g
  <2> QED BY <1>2, <1>3, <2>4, <2>5, <2>6 DEF IInv, RoundInv, RestInv
<1> QED BY <1>8, <1>11, <1>15, <1>16, <1>17

LEMMA BatchStepKeeps ==
  ASSUME OneLoop, IInv, Shapes', BatchStep
  PROVE  IInv'
<1> DEFINE e == Data[macro][batch.at]
<1>1. batch.at # 0 /\ InBatch /\ P_DoSpecialLine(e.cmd, e.tag)
  BY DEF BatchStep
<1>2. CASE e.cmd = "counter" /\ counter' # 0
  <2>1. batch' = NoBatch
    BY <1>2 DEF BatchStep
  <2> QED BY <1>1, <1>2, <2>1, CounterKeeps
<1>3. CASE ~ (e.cmd = "counter" /\ counter' # 0)
  <2>1. PICK last : batch' = [batch EXCEPT !.at = @ + 1, !.last = last]
    BY <1>3 DEF BatchStep
  <2>2. batch'.at = batch.at + 1 /\ batch'.id = batch.id
    BY <2>1 DEF IInv, Shapes
  <2> HIDE DEF e
  <2>3. CASE e.cmd = "counter"
    BY <1>1, <1>3, <2>2, <2>3, CounterKeeps DEF e
  <2>4. CASE e.cmd # "counter"
    BY <1>1, <2>2, <2>4, OtherKeeps DEF e
  <2> QED BY <2>3, <2>4
<1> QED BY <1>2, <1>3

LEMMA NextKeeps ==
  ASSUME OneLoop, ~ SaveFresh, IInv, [Next]_vars
  PROVE  IInv'
<1>1. Shapes'
  BY ShapesNext DEF IInv
<1>2. TypeOK
  BY DEF IInv, Shapes
<1>3. CASE batch.at = 0 /\ batch' = batch /\ \E l \in Line : P_InitSpecialLine(l)
  BY <1>1, <1>3, LineKeeps
<1>4. CASE batch.at = 0 /\ UNCHANGED macroVars
  BY <1>1, <1>4, QuietKeeps DEF macroVars, SwitchedOff
<1>5. CASE Trigger \/ P_QueueSpecial
  <2>1. batch.at = 0 /\ batch' = batch
    BY <1>2, <1>5 DEF Trigger, P_QueueSpecial, TypeOK
  <2> QED BY <1>3, <1>5, <2>1 DEF Trigger, P_QueueSpecial
<1>6. CASE TryQueue
  <2>1. batch.at = 0
    BY <1>2, <1>6 DEF TryQueue, TypeOK
  <2> QED BY <1>3, <1>4, <1>6, <2>1 DEF TryQueue
<1>7. CASE StartTic \/ P_RunThinkers \/ ThinkerTurn \/ P_UpdateSpecials \/ WaitForThinker
  <2>1. batch.at = 0 /\ UNCHANGED macroVars
    BY <1>2, <1>7
    DEF StartTic, P_RunThinkers, ThinkerTurn, P_UpdateSpecials, WaitForThinker, TypeOK
  <2> QED BY <1>4, <2>1
<1>8. CASE StartBatch
  BY <1>1, <1>8, StartKeeps
<1>9. CASE BatchStep
  BY <1>1, <1>9, BatchStepKeeps
<1>10. CASE EndBatch
  BY <1>1, <1>10, EndBatchKeeps
<1>11. CASE LoadGame
  <2>1. batch.at = 0 /\ batch' = batch /\ UNCHANGED <<macro, counter, globalint, cleared, passes>>
    BY <1>2, <1>11 DEF LoadGame, TypeOK
  <2>2. next' = next
    BY <1>11 DEF LoadGame
  <2> QED BY <1>1, <2>1, <2>2, QuietKeeps DEF SwitchedOff
<1>12. CASE UNCHANGED vars
  <2>1. UNCHANGED macroVars /\ UNCHANGED thinkerVars /\ UNCHANGED phase
    BY <1>12 DEF vars
  <2>2. CASE batch.at = 0
    BY <1>4, <2>1, <2>2
  <2>3. UNCHANGED <<macro, next, counter, globalint, cleared, batch, passes>>
    BY <2>1 DEF macroVars
  <2>4. Here' = Here /\ Place' = Place /\ Batch' = Batch /\ InBatch' = InBatch
    BY <2>3 DEF Here, Place, Batch, InBatch, Id
  <2>5. BatchInv' /\ ClearInv' /\ RestInv'
    BY <2>3, <2>4 DEF IInv, BatchInv, ClearInv, RestInv
  <2>6. \A b : Did(b)' = Did(b) /\ Extra(b)' = Extra(b)
    BY <2>3, <2>4 DEF Did, Extra
  <2>7. RoundInv'
    BY <2>3, <2>4, <2>6 DEF IInv, RoundInv, CountInv, Counted
  <2> QED BY <1>1, <2>5, <2>7 DEF IInv
<1> QED BY <1>5, <1>6, <1>7, <1>8, <1>9, <1>10, <1>11, <1>12 DEF Next, Tic

LEMMA InitHolds ==
  ASSUME Init
  PROVE  IInv
<1>1. Shapes
  BY DEF Init, Shapes, TypeOK, NoBatch
<1>2. batch.at = 0 /\ macro = None /\ \A b \in Ids : passes[b] = 0
  BY DEF Init, NoBatch
<1> QED BY <1>1, <1>2 DEF IInv, BatchInv, ClearInv, RoundInv, RestInv

\* The end of a macro.
LEMMA EndIsCounted ==
  ASSUME OneLoop, IInv, macro # None, EndBatch, macro' = None,
         NEW i \in DOMAIN Data[macro], NEW b, b = Data[macro][i].id
  PROVE  passes[b] + (IF b = batch.id THEN 1 ELSE 0) = Rounds(macro, b)
<1>1. batch.at # 0 /\ ~ InBatch /\ batch.at \notin DOMAIN Data[macro]
  BY DEF EndBatch
<1>2. /\ macro \in Macro /\ batch.at \in 2 .. Len(Data[macro]) + 1
      /\ batch.at - 1 \in DOMAIN Data[macro]
      /\ Data[macro][batch.at - 1].id = Batch
      /\ batch.id # 0 => batch.id = Batch
      /\ batch.id = 0 => batch.at = 2 /\ MayBeOff(macro)
  BY <1>1, BatchDone
<1>3. /\ DOMAIN Data[macro] = 1 .. Len(Data[macro]) /\ Len(Data[macro]) \in Nat
      /\ \A k \in DOMAIN Data[macro] : Data[macro][k].id \in Nat \ {0}
      /\ \A k, l \in DOMAIN Data[macro] : k =< l => Data[macro][k].id =< Data[macro][l].id
  BY <1>2, Entry, Loop
<1>4. batch.at = Len(Data[macro]) + 1 /\ Place = batch.at
  BY <1>1, <1>2, <1>3 DEF Place
<1>5. b \in Nat \ {0} /\ Batch \in Nat \ {0} /\ b =< Batch
  BY <1>2, <1>3, <1>4
<1>6. batch.id = Batch
  <2>1. CASE batch.id = 0
    <3>1. Len(Data[macro]) > 1 /\ batch.at = 2
      BY <1>2, <2>1, Loop
    <3> QED BY <1>3, <1>4, <3>1
  <2> QED BY <1>2, <2>1
<1>7. passes[b] = Did(b) + Extra(b) /\ CountInv
  BY DEF IInv, RoundInv, Counted
<1>8. Did(b) = IF b = batch.id THEN 0 ELSE 1
  BY <1>5, <1>6 DEF Did
<1>9. Extra(b) = Rounds(macro, b) - 1 /\ Rounds(macro, b) \in Int
  <2>1. CASE ~ Looped(macro, b)
    <3>1. Rounds(macro, b) = 1 /\ Extra(b) = 0
      BY <1>2, <2>1, RoundsOf DEF Extra
    <3> QED BY <3>1
  <2>2. CASE Looped(macro, b)
    <3>1. PICK c \in Having(macro, "counter") : TRUE
      BY <2>2 DEF Looped
    <3>2. c \in DOMAIN Data[macro] /\ c \in Nat /\ Data[macro][c].tag \in Nat
      BY <1>2, <1>3, Loop, Entry
    <3>3. counter = 0
      <4>1. ~ (Place =< c)
        BY <1>3, <1>4, <3>2
      <4> QED BY <1>7, <4>1 DEF CountInv
    <3>4. Rounds(macro, b) = IF Data[macro][c].tag > 1 THEN Data[macro][c].tag ELSE 1
      BY <1>2, <2>2, RoundsOf
    <3>5. Rounds(macro, b) \in Int
      BY <3>2, <3>4
    <3> QED BY <2>2, <3>3, <3>5 DEF Extra
  <2> QED BY <2>1, <2>2
<1> QED BY <1>7, <1>8, <1>9

\* CounterRuns: every batch of a macro that ends has run as often as its counter says
\* (P_InitMacroCounter, P_RestartMacro), if the macros have one loop each and no game is
\* saved before the first batch of its macro has ended (see TypeCorrect).
THEOREM RoundsAreRun == ASSUME OneLoop, ~ SaveFresh PROVE Spec => CounterRuns
<1>1. Init => IInv
  BY InitHolds
<1>2. IInv /\ [Next]_vars => IInv'
  BY NextKeeps
<1>3. IInv /\ [Next]_vars =>
        [macro # None /\ EndBatch /\ macro' = None =>
          \A i \in DOMAIN Data[macro] :
            LET b == Data[macro][i].id
            IN passes[b] + (IF b = batch.id THEN 1 ELSE 0) = Rounds(macro, b)]_vars
  BY EndIsCounted
<1> QED BY <1>1, <1>2, <1>3, PTL DEF Spec, CounterRuns
==============================================================================
