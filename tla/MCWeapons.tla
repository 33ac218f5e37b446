------------------------------- MODULE MCWeapons -------------------------------
(***************************************************************************)
(* Weapons with a little ammunition.                                       *)
(***************************************************************************)
EXTENDS Weapons

MCMaxAmmo == [t \in AmmoType |-> IF t = "shell" THEN 2 ELSE 1]
MCClipAmmo == [t \in AmmoType |-> 1]
===============================================================================
