------------------------------- MODULE NetTicNum -------------------------------
(***************************************************************************)
(* NET_ExpandTicNum (src/src/engine/net/net_common.cc): game data carries  *)
(* the low byte of a tic number, and the receiver makes the full number of *)
(* it from the tic its receive window starts at.                           *)
(***************************************************************************)
EXTENDS Integers

CONSTANTS
  TicMod,     \* 256: one more than the mask 0xff
  LowEdge,    \* 0x40
  HighEdge    \* 0xb0

\* The widest distance from the start of the window at which the low byte
\* still determines the number: each edge has to be far enough from its end
\* of the byte, and the edges far enough from each other.
Reach == LET a == LowEdge
             b == TicMod - HighEdge - 1
             c == HighEdge - LowEdge + 1
         IN  IF a <= b /\ a <= c THEN a ELSE IF b <= c THEN b ELSE c

ASSUME TicNumAssumption ==
  /\ TicMod \in Nat /\ LowEdge \in Nat /\ HighEdge \in Nat
  /\ 0 < LowEdge /\ LowEdge <= HighEdge /\ HighEdge < TicMod - 1

\* The byte that is written: tic & 0xff.
LowByte(tic) == tic % TicMod

ExpandTicNum_NoBorrow(relative, b) ==
  LET l == relative % TicMod
      h == relative - l
  IN  IF l > HighEdge /\ b < LowEdge THEN h + b + TicMod ELSE h + b

\* NET_ExpandTicNum.  The code computes in unsigned ints: a negative result
\* here is one that has wrapped round there.
ExpandTicNum(relative, b) ==
  LET l == relative % TicMod
      h == relative - l
  IN  IF l < LowEdge /\ b > HighEdge THEN h + b - TicMod
      ELSE IF l > HighEdge /\ b < LowEdge THEN h + b + TicMod
      ELSE h + b
================================================================================
