----------------------------- MODULE NetReliable -----------------------------
(***************************************************************************)
(* One direction of the reliable packets of a net_connection_t             *)
(* (src/src/engine/net/net_common.cc): the sender's list of unacknowledged *)
(* packets, of which only the head is ever on the wire, the receiver's     *)
(* expected sequence number, and the datagrams between them.  The wire     *)
(* carries 8-bit sequence numbers; NumSeqs is the 256 of "& 0xff".         *)
(*                                                                         *)
(* The network may lose, duplicate and reorder datagrams.  A copy stays in *)
(* data or acks until it is lost, and delivering it need not remove it.    *)
(* What a wrapping sequence number cannot survive is a copy older than the *)
(* numbers in use: Lifetime bounds how many later deliveries a copy may    *)
(* still arrive after.  Time is left out: a resend is possible whenever    *)
(* there is something to resend.                                           *)
(***************************************************************************)
EXTENDS Integers, Sequences

CONSTANTS
  NumSeqs,      \* sequence numbers are taken modulo this (256 in the code)
  Lifetime,     \* deliveries after which a stray copy no longer arrives
  MaxCreated    \* bound on the packets made (for TLC)

ASSUME NumSeqsAssumption == NumSeqs \in Nat /\ NumSeqs >= 2
ASSUME LifetimeAssumption == Lifetime \in Nat /\ Lifetime + 2 <= NumSeqs
ASSUME MaxCreatedAssumption == MaxCreated \in Nat

VARIABLES
  created,            \* history: calls of NET_Conn_NewReliable
  delivered,          \* history: packets the receiver did not discard
  reliable_send_seq,  \* sender: number the next packet will carry
  reliable_packets,   \* sender: the list of packets not yet acknowledged
  reliable_recv_seq,  \* receiver: number of the next packet expected
  connected,          \* the sender's state is NET_CONN_STATE_CONNECTED
  data,               \* reliable packets on the wire
  acks                \* NET_PACKET_TYPE_RELIABLE_ACK packets on the wire

sender == <<created, reliable_send_seq, reliable_packets, connected>>
receiver == <<delivered, reliable_recv_seq>>
relVars == <<sender, receiver, data, acks>>

Seqs == 0 .. NumSeqs - 1

\* A packet has the number it carries; id is its place in the order of
\* creation, which the program does not know.  An acknowledgement likewise.
Packet == [seq : Seqs, id : Nat]
Ack == [seq : Seqs, count : Nat]

RelTypeOK ==
  /\ created \in Nat
  /\ delivered \in Seq(Nat)
  /\ reliable_send_seq \in Seqs
  /\ reliable_packets \in Seq(Packet)
  /\ reliable_recv_seq \in Seqs
  /\ connected \in BOOLEAN
  /\ data \in SUBSET Packet
  /\ acks \in SUBSET Ack

\* NET_Conn_Init, on a connection that has become NET_CONN_STATE_CONNECTED.
RelInit ==
  /\ created = 0
  /\ delivered = <<>>
  /\ reliable_send_seq = 0
  /\ reliable_packets = <<>>
  /\ reliable_recv_seq = 0
  /\ connected = TRUE
  /\ data = {}
  /\ acks = {}

\* (n + 1) & 0xff
NextSeq(n) == (n + 1) % NumSeqs

-----------------------------------------------------------------------------
(* The sender *)

\* NET_Conn_NewReliable: number the packet and put it at the end of the list.
NewReliable ==
  /\ created < MaxCreated
  /\ reliable_packets' = Append(reliable_packets, [seq |-> reliable_send_seq, id |-> created])
  /\ reliable_send_seq' = NextSeq(reliable_send_seq)
  /\ created' = created + 1
  /\ UNCHANGED <<connected, receiver, data, acks>>

\* NET_Conn_Run of a connected end: the first packet of the list was never
\* sent, or was sent more than a second ago.
SendFirst ==
  /\ connected
  /\ reliable_packets # <<>>
  /\ data' = data \cup {Head(reliable_packets)}
  /\ UNCHANGED <<sender, receiver, acks>>

AcksFirst_AnyNumber(a) == reliable_packets # <<>>

\* Is this an acknowledgement for the first packet in the list?
AcksFirst(a) ==
  reliable_packets # <<>> /\ a.seq = NextSeq(Head(reliable_packets).seq)

AckFresh(a) == Len(delivered) - a.count <= Lifetime

\* NET_Conn_ParseReliableACK
ParseReliableACK(a) ==
  /\ AckFresh(a)
  /\ \/ AcksFirst(a) /\ reliable_packets' = Tail(reliable_packets)
     \/ ~AcksFirst(a) /\ UNCHANGED reliable_packets
  /\ acks' \in {acks, acks \ {a}}
  /\ UNCHANGED <<created, reliable_send_seq, connected, receiver, data>>

\* The connection leaves NET_CONN_STATE_CONNECTED, for good: from then on
\* NET_Conn_Run sends nothing from the list.  The call that finds the other
\* end silent for too long still gets to the list.
LeaveConnected ==
  /\ connected
  /\ connected' = FALSE
  /\ \/ UNCHANGED data
     \/ reliable_packets # <<>> /\ data' = data \cup {Head(reliable_packets)}
  /\ UNCHANGED <<created, reliable_send_seq, reliable_packets, receiver, acks>>

-----------------------------------------------------------------------------
(* The receiver *)

Expected_Any(p) == TRUE

\* The packet carries the next expected number of the sequence.
Expected(p) == p.seq = reliable_recv_seq

PacketFresh(p) == Len(delivered) - p.id <= Lifetime

\* The acknowledgement that is written after reliable_recv_seq was updated.
AckNow == [seq |-> reliable_recv_seq', count |-> Len(delivered')]

Reply_AcceptedOnly(p) == IF Expected(p) THEN {AckNow} ELSE {}

\* Whether the packet was accepted or discarded, an acknowledgement is sent.
Reply(p) == {AckNow}

\* NET_Conn_ReliablePacket, and the handler that gets the packet when it
\* returns false.
ReliablePacket(p) ==
  /\ PacketFresh(p)
  /\ \/ /\ Expected(p)
        /\ reliable_recv_seq' = NextSeq(reliable_recv_seq)
        /\ delivered' = Append(delivered, p.id)
     \/ /\ ~Expected(p)
        /\ UNCHANGED <<reliable_recv_seq, delivered>>
  /\ acks' = acks \cup Reply(p)
  /\ data' \in {data, data \ {p}}
  /\ UNCHANGED sender

-----------------------------------------------------------------------------
(* The network *)

\* A datagram is lost.
RelLose ==
  \/ /\ \E p \in data : data' = data \ {p}
     /\ UNCHANGED <<sender, receiver, acks>>
  \/ /\ \E a \in acks : acks' = acks \ {a}
     /\ UNCHANGED <<sender, receiver, data>>

RelNext ==
  \/ NewReliable
  \/ SendFirst
  \/ \E a \in acks : ParseReliableACK(a)
  \/ LeaveConnected
  \/ \E p \in data : ReliablePacket(p)
  \/ RelLose

RelSpec == RelInit /\ [][RelNext]_relVars

-----------------------------------------------------------------------------
(* Fairness: NET_Conn_Run is called in every iteration of the main loop,   *)
(* and a datagram sent again and again is received again and again.        *)

FreshAckArrives ==
  \E a \in acks : /\ a.count = Len(delivered)
                  /\ ParseReliableACK(a)

FirstArrives ==
  /\ reliable_packets # <<>>
  /\ Head(reliable_packets) \in data
  /\ ReliablePacket(Head(reliable_packets))

RelFairness ==
  /\ WF_relVars(SendFirst)
  /\ SF_relVars(FirstArrives)
  /\ SF_relVars(FreshAckArrives)

RelFairSpec == RelSpec /\ RelFairness

-----------------------------------------------------------------------------
(* Properties *)

\* How many packets the sender has dropped from its list.
Dropped == created - Len(reliable_packets)

\* Every packet that was not discarded is the next one in the order of
\* creation: none twice, none skipped, none out of order, although the
\* receiver compares 8-bit numbers only (NET_Conn_ReliablePacket).
InOrderOnce ==
  /\ Len(delivered) <= created
  /\ \A i \in 1 .. Len(delivered) : delivered[i] = i - 1

\* The sender unlinks a packet from reliable_packets only after the other
\* end has accepted it, however late, duplicated or reordered the
\* acknowledgements are (NET_Conn_ParseReliableACK).
DroppedWasDelivered == Dropped <= Len(delivered)

\* The abstract specification, with the same two history variables.
Fifo == INSTANCE NetFifo
ImplementsFifo == Fifo!Spec

\* "reliable packet that is guaranteed to reach its destination"
\* (net_common.cc:42), as long as the connection lasts.
EventuallyDelivered ==
  \A n \in 1 .. MaxCreated : created >= n ~> (Len(delivered) >= n \/ ~connected)

\* The list of unacknowledged packets drains: an acknowledgement lost after
\* its packet was accepted is made up for by the next copy of the packet.
EventuallyDropped ==
  \A n \in 1 .. MaxCreated : created >= n ~> (Dropped >= n \/ ~connected)

-----------------------------------------------------------------------------
(* The inductive invariant *)

\* The list holds the packets from Dropped on, numbered modulo NumSeqs.
ListInv ==
  /\ Len(reliable_packets) <= created
  /\ reliable_send_seq = created % NumSeqs
  /\ \A i \in 1 .. Len(reliable_packets) :
       /\ reliable_packets[i].id = Dropped + i - 1
       /\ reliable_packets[i].seq = (Dropped + i - 1) % NumSeqs

\* Stop and wait: the receiver is at the head of the list or one past it.
WindowInv ==
  /\ reliable_recv_seq = Len(delivered) % NumSeqs
  /\ Dropped <= Len(delivered)
  /\ Len(delivered) <= Dropped + 1
  /\ Len(delivered) <= created

\* Nothing on the wire is ahead of the two ends.
WireInv ==
  /\ \A p \in data : /\ p.seq = p.id % NumSeqs
                     /\ p.id <= Dropped
                     /\ p.id < created
  /\ \A a \in acks : /\ a.seq = a.count % NumSeqs
                     /\ a.count <= Len(delivered)

DeliveredInv == \A i \in 1 .. Len(delivered) : delivered[i] = i - 1

IInv == RelTypeOK /\ ListInv /\ WindowInv /\ WireInv /\ DeliveredInv
=============================================================================
