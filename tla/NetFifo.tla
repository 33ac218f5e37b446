------------------------------- MODULE NetFifo -------------------------------
(***************************************************************************)
(* What the reliable packets of net_common.cc promise their users: the     *)
(* handlers of the other end get every packet made by                      *)
(* NET_Conn_NewReliable, once, in the order they were made.  The packets   *)
(* are numbered 0, 1, 2, ... in the order of those calls.                  *)
(***************************************************************************)
EXTENDS Naturals, Sequences

VARIABLES
  created,      \* how many reliable packets were made
  delivered     \* the packets handed to the receiver's handlers so far

vars == <<created, delivered>>

Init ==
  /\ created = 0
  /\ delivered = <<>>

\* A packet is handed to the reliable layer.
Create ==
  /\ created' = created + 1
  /\ UNCHANGED delivered

\* The next packet in order reaches the handlers.
Deliver ==
  /\ Len(delivered) < created
  /\ delivered' = Append(delivered, Len(delivered))
  /\ UNCHANGED created

Next == Create \/ Deliver

Spec == Init /\ [][Next]_vars
=============================================================================
