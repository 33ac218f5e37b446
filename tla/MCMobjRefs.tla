------------------------------ MODULE MCMobjRefs ------------------------------
(***************************************************************************)
(* Two games for MobjRefs: one with noise, where mobjs of all kinds fade   *)
(* in and monsters may be locked; and one where monsters fade in and are   *)
(* alerted by tag.  Addresses are interchangeable.                         *)
(***************************************************************************)
EXTENDS MobjRefs

Addresses == Permutations(Mobj)

MCGames ==
    { [noisy |-> Sector, alerts |-> FALSE, kinds |-> MobjKind, lockable |-> TRUE],
      [noisy |-> {}, alerts |-> TRUE, kinds |-> {"monster"}, lockable |-> FALSE] }
=============================================================================
