----------------------------- MODULE SectorOwner -----------------------------
(***************************************************************************)
(* What sector_t.specialdata is for: at most one thing moves the planes of *)
(* a sector.  A sector is claimed while nothing moves it, by something     *)
(* that moves no other sector, and nobody else may have it until it is     *)
(* released.  A level that is loaded starts with all sectors released.     *)
(***************************************************************************)
CONSTANTS
    Sector,     \* the sectors
    Mover       \* what can move one

VARIABLE owners     \* for every sector, who moves it

Init == owners = [s \in Sector |-> {}]

\* One command claims several free sectors, for a mover of each.
Claim ==
    \E S \in SUBSET Sector : \E by \in [S -> Mover] :
        /\ S # {}
        /\ \A s \in S : owners[s] = {}
        /\ \A s \in S, r \in Sector : by[s] \notin owners[r]
        /\ \A s, r \in S : by[s] = by[r] => s = r
        /\ owners' = [s \in Sector |-> IF s \in S THEN {by[s]} ELSE owners[s]]

Release ==
    \E s \in Sector :
        /\ owners[s] # {}
        /\ owners' = [owners EXCEPT ![s] = {}]

Reset == owners' = [s \in Sector |-> {}]

Next == Claim \/ Release \/ Reset

Spec == Init /\ [][Next]_owners
=============================================================================
