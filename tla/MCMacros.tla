------------------------------ MODULE MCMacros -------------------------------
(***************************************************************************)
(* A small map for Macros.  Macro 1 loops over a delay and then splits     *)
(* sector 1; macro 2 waits for a delay.  Lines 1 and 2 start macro 1 once, *)
(* line 3 is a switch that may be used again for sector 1, line 4 suspends *)
(* what runs, line 5 starts macro 2 and line 6 switches it off.            *)
(***************************************************************************)
EXTENDS Macros

MCTagOf == <<3>>
MCStair == <<{}>>
MCMaps == {{}}

Entry(id, cmd, tag) == [id |-> id, cmd |-> cmd, tag |-> tag]

MCData == << <<Entry(1, "timer", 0), Entry(2, "setInt", 1), Entry(2, "counter", 2),
               Entry(3, "split", 3)>>,
             <<Entry(1, "none", 0), Entry(1, "timer", 0), Entry(2, "none", 0)>> >>

MCLineTag == <<1, 1, 3, 4, 5, 2>>
MCPresent == { {1, 2}, {1, 4, 6}, {3, 4, 5}, {1, 5}, {2, 5, 6} }

MCSpecial == << [macro |-> 1], [macro |-> 1], [cmd |-> "split"],
                [cmd |-> "suspend"], [macro |-> 2], [cmd |-> "toggleOff"] >>

\* The run's macros are of the kind that CounterRuns is about.
ASSUME OneLoop
=============================================================================
