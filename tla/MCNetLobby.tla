------------------------------- MODULE MCNetLobby -------------------------------
(***************************************************************************)
(* NetLobby with addresses that differ only in whether they run as drones. *)
(***************************************************************************)
EXTENDS NetLobby, TLC

Addresses == Permutations(Drone) \cup Permutations(Client \ Drone)
================================================================================
