------------------------------- MODULE MCLevel -------------------------------
(***************************************************************************)
(* Five small maps for Level: plats and ceilings that are stopped and      *)
(* restarted, a flight of stairs with a plat and delays, a door with       *)
(* manual lines of both kinds, and lights.  Sectors 1 and 2 have tag 1;    *)
(* stairs lead from 1 to 2; sector 3 is behind manual lines.               *)
(***************************************************************************)
EXTENDS Level

Addresses == Permutations(Thinker)

MCTagOf == <<1, 1, 3>>
MCStair == <<{2}, {}, {}>>
MCNext205 == <<{2}, {}, {}>>
MCSpecialAt == <<"none", "none", "none">>

MCMaps ==
    { {1} \X {"crush", "perpetual", "stopPlats", "stopCeilings"},
      {1} \X {"crushOnce", "lowerCrush", "upDown", "raisePlat", "stopPlats", "stopCeilings"},
      {1} \X {"stairs", "downUp", "split", "floor", "lower", "timer"},
      {3} \X {"manualRaise", "manualOpen", "close30", "close", "raise", "open"},
      {1} \X {"strobe", "glow", "sequence", "none", "crush"} }
=============================================================================
