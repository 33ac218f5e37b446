---------------------------- MODULE NetCommonProofs ----------------------------
(***************************************************************************)
(* Proofs about the two halves of net_common.cc: NetReliable, for every    *)
(* NumSeqs, Lifetime and MaxCreated that satisfy the assumptions, and      *)
(* NetConn, for every length of the timeouts, every number of retries and  *)
(* every bound on delay and faults.                                        *)
(***************************************************************************)
EXTENDS NetReliable, NetConn, FiniteSetTheorems, TLAPS

(***************************************************************************)
(* Reliable packets.  IInv is inductive; its parts say what the two ends   *)
(* and the wire may hold at the same time:                                 *)
(*   - a number on the wire is the remainder of a position that is at most *)
(*     the head of the sender's list (a packet) or at most the receiver's  *)
(*     count (an acknowledgement), WireInv;                                *)
(*   - the receiver is at most one packet ahead of the head, WindowInv.    *)
(* A copy that may still arrive is at most Lifetime behind, so it is less  *)
(* than NumSeqs away from what it is compared with, and equal remainders   *)
(* mean equal positions (ModDistinct).                                     *)
(***************************************************************************)

---------------------------------------------------------------------------
(* Counters that go over the wire cut down to a byte (the "& 0xff" of      *)
(* net_common.cc and d_net.h).  The prover evaluates n % 256 but knows     *)
(* little of n % m for a constant m.                                       *)

\* Quotient and remainder by m: what the others rest on.
LEMMA DivMod ==
  ASSUME NEW m \in Nat \ {0}, NEW n \in Nat
  PROVE  /\ n % m \in 0 .. m - 1
         /\ n \div m \in Nat
         /\ n = m * (n \div m) + (n % m)
  OBVIOUS

\* The only multiple of m strictly between -m and m is 0.
LEMMA NoMultipleBetween ==
  ASSUME NEW m \in Nat \ {0}, NEW k \in Int, m * k < m, 0 - m < m * k
  PROVE  k = 0
<1>1. CASE k >= 1
  <2>1. m * k >= m * 1
    BY <1>1
  <2> QED BY <2>1
<1>2. CASE k <= 0 - 1
  <2>1. m * k <= m * (0 - 1)
    BY <1>2
  <2> QED BY <2>1
<1> QED BY <1>1, <1>2

\* A number below m that differs from n by a multiple of m is n % m.
LEMMA ModUnique ==
  ASSUME NEW m \in Nat \ {0}, NEW n \in Nat, NEW q \in Nat, NEW r \in 0 .. m - 1,
         n = m * q + r
  PROVE  n % m = r
<1> DEFINE d == n \div m
<1>1. n % m \in 0 .. m - 1 /\ d \in Nat /\ n = m * d + (n % m)
  BY DivMod
<1>2. m * (q - d) = (n % m) - r
  <2>1. m * (q - d) = m * q - m * d
    BY <1>1
  <2> HIDE DEF d
  <2> QED BY <2>1, <1>1
<1>3. q - d = 0
  <2> HIDE DEF d
  <2> QED BY <1>1, <1>2, NoMultipleBetween
<1> HIDE DEF d
<1> QED BY <1>1, <1>2, <1>3

\* A number below m is its own remainder.
LEMMA ModSmall ==
  ASSUME NEW m \in Nat \ {0}, NEW r \in 0 .. m - 1
  PROVE  r % m = r
<1>1. r \in Nat /\ 0 \in Nat /\ r = m * 0 + r
  OBVIOUS
<1> QED BY <1>1, ModUnique

\* Counting on from the remainder is counting on from the number: the
\* (seq + 1) & 0xff that both ends of a connection compute.
LEMMA ModSucc ==
  ASSUME NEW m \in Nat \ {0}, NEW n \in Nat
  PROVE  ((n % m) + 1) % m = (n + 1) % m
<1> DEFINE d == n \div m
           r == n % m
<1>1. r \in 0 .. m - 1 /\ d \in Nat /\ n = m * d + r
  BY DivMod
<1> HIDE DEF d, r
<1>2. CASE r + 1 < m
  <2>1. r + 1 \in 0 .. m - 1 /\ n + 1 \in Nat /\ n + 1 = m * d + (r + 1)
    BY <1>1, <1>2
  <2>2. (n + 1) % m = r + 1
    BY <1>1, <2>1, ModUnique
  <2>3. (r + 1) % m = r + 1
    BY <2>1, ModSmall
  <2> QED BY <2>2, <2>3 DEF r
<1>3. CASE r + 1 = m
  <2>1. m * (d + 1) = m * d + m
    BY <1>1
  <2>2. 0 \in 0 .. m - 1 /\ d + 1 \in Nat /\ n + 1 \in Nat /\ n + 1 = m * (d + 1) + 0
    BY <1>1, <1>3, <2>1
  <2>3. (n + 1) % m = 0
    BY <2>2, ModUnique
  <2>4. m = m * 1 + 0 /\ m \in Nat /\ 1 \in Nat
    OBVIOUS
  <2>5. m % m = 0
    BY <2>2, <2>4, ModUnique
  <2>6. ((n % m) + 1) % m = m % m
    BY <1>3 DEF r
  <2> QED BY <2>3, <2>5, <2>6
<1> QED BY <1>1, <1>2, <1>3

\* Numbers less than m apart with the same remainder are the same number.
LEMMA ModDistinct ==
  ASSUME NEW m \in Nat \ {0}, NEW a \in Nat, NEW b \in Nat,
         a % m = b % m, a - b < m, b - a < m
  PROVE  a = b
<1> DEFINE p == a \div m
           q == b \div m
<1>1. p \in Nat /\ a = m * p + (a % m)
  BY DivMod
<1>2. q \in Nat /\ b = m * q + (b % m)
  BY DivMod
<1>3. m * (p - q) = m * p - m * q
  BY <1>1, <1>2
<1>4. a % m \in Nat
  BY DivMod
<1> HIDE DEF p, q
<1>5. m * (p - q) = a - b
  BY <1>1, <1>2, <1>3, <1>4
<1>6. p - q = 0
  BY <1>1, <1>2, <1>5, NoMultipleBetween
<1> QED BY <1>1, <1>2, <1>6

---------------------------------------------------------------------------
(* The numbers of packets.                                                 *)

LEMMA NumSeqsNat == NumSeqs \in Nat \ {0} /\ NumSeqs - 1 \in Nat
  BY NumSeqsAssumption

\* The number after the remainder of n is the remainder of n + 1.
LEMMA NextSeqWraps ==
  ASSUME NEW n \in Nat
  PROVE  /\ n % NumSeqs \in Seqs
         /\ NextSeq(n % NumSeqs) = (n + 1) % NumSeqs
  BY NumSeqsNat, DivMod, ModSucc DEF NextSeq, Seqs

\* A packet that carries the expected number and may still arrive is the
\* next one in the order of creation.
LEMMA ExpectedIsNext ==
  ASSUME IInv, NEW p \in data, PacketFresh(p), Expected(p)
  PROVE  p.id = Len(delivered)
<1>1. /\ p.id \in Nat /\ Len(delivered) \in Nat
      /\ Dropped \in Nat
      /\ p.id <= Dropped /\ Dropped <= Len(delivered)
      /\ p.id % NumSeqs = Len(delivered) % NumSeqs
  BY DEF IInv, RelTypeOK, Packet, ListInv, WindowInv, WireInv, Expected, Dropped
<1>2. p.id - Len(delivered) < NumSeqs /\ Len(delivered) - p.id < NumSeqs
  BY <1>1, LifetimeAssumption, NumSeqsAssumption DEF PacketFresh
<1> QED BY <1>1, <1>2, NumSeqsNat, ModDistinct

\* An acknowledgement that matches the head of the list and may still arrive
\* was written after the receiver accepted the head.
LEMMA AckIsCurrent ==
  ASSUME IInv, NEW a \in acks, AckFresh(a), AcksFirst(a)
  PROVE  Dropped + 1 <= Len(delivered)
<1>1. /\ a.count \in Nat /\ Len(delivered) \in Nat /\ Dropped \in Nat
      /\ Len(reliable_packets) \in Nat /\ Len(reliable_packets) >= 1
      /\ a.count <= Len(delivered)
      /\ Dropped <= Len(delivered) /\ Len(delivered) <= Dropped + 1
      /\ a.seq = a.count % NumSeqs
      /\ Head(reliable_packets).seq = Dropped % NumSeqs
  <2>1. reliable_packets # <<>> /\ Head(reliable_packets) = reliable_packets[1]
    BY DEF AcksFirst, IInv, RelTypeOK
  <2>2. Len(reliable_packets) \in Nat /\ 1 \in 1 .. Len(reliable_packets)
    BY <2>1 DEF IInv, RelTypeOK
  <2>3. reliable_packets[1].seq = (Dropped + 1 - 1) % NumSeqs
    BY <2>2 DEF IInv, ListInv
  <2>4. Dropped \in Nat /\ Dropped + 1 - 1 = Dropped
    BY <2>2 DEF IInv, RelTypeOK, ListInv, Dropped
  <2>5. /\ a.count \in Nat /\ Len(delivered) \in Nat
        /\ a.count <= Len(delivered) /\ a.seq = a.count % NumSeqs
    BY DEF IInv, RelTypeOK, Ack, WireInv
  <2> QED BY <2>1, <2>2, <2>3, <2>4, <2>5 DEF IInv, WindowInv
<1>2. a.count % NumSeqs = (Dropped + 1) % NumSeqs
  BY <1>1, NextSeqWraps DEF AcksFirst
<1>3. a.count - (Dropped + 1) < NumSeqs /\ (Dropped + 1) - a.count < NumSeqs
  BY <1>1, LifetimeAssumption, NumSeqsAssumption DEF AckFresh
<1>4. a.count = Dropped + 1
  <2>1. Dropped + 1 \in Nat
    BY <1>1
  <2> HIDE DEF Dropped
  <2> QED BY <1>1, <1>2, <1>3, <2>1, NumSeqsNat, ModDistinct
<1> QED BY <1>1, <1>4

-----------------------------------------------------------------------------
(* RelInit establishes IInv. *)

LEMMA InitIInv == RelInit => IInv
<1> SUFFICES ASSUME RelInit PROVE IInv
  OBVIOUS
<1> USE DEF RelInit
<1>1. 0 \in Seqs /\ 0 % NumSeqs = 0
  BY NumSeqsNat, ModSmall DEF Seqs
<1>2. RelTypeOK
  BY <1>1 DEF RelTypeOK
<1>3. ListInv /\ WindowInv /\ WireInv /\ DeliveredInv
  BY <1>1 DEF ListInv, WindowInv, WireInv, DeliveredInv, Dropped
<1> QED BY <1>2, <1>3 DEF IInv

-----------------------------------------------------------------------------
(* One lemma per action of the sender, the receiver and the network. *)

LEMMA NewReliableStep ==
  ASSUME IInv, NewReliable PROVE IInv'
<1> USE DEF IInv, NewReliable, receiver
<1> DEFINE q == [seq |-> reliable_send_seq, id |-> created]
<1>1. /\ created \in Nat /\ reliable_packets \in Seq(Packet)
      /\ Len(reliable_packets) \in Nat
      /\ q \in Packet
  BY DEF RelTypeOK, Packet
<1>2. /\ Len(reliable_packets') = Len(reliable_packets) + 1
      /\ created' = created + 1
      /\ \A i \in 1 .. Len(reliable_packets) : reliable_packets'[i] = reliable_packets[i]
      /\ reliable_packets'[Len(reliable_packets) + 1] = q
  BY <1>1
<1>3. Dropped' = Dropped /\ Dropped \in Nat
  BY <1>1, <1>2 DEF Dropped, ListInv
<1>4. reliable_send_seq' = created' % NumSeqs /\ reliable_send_seq' \in Seqs
  <2>1. created + 1 \in Nat
    BY <1>1
  <2> QED BY <1>1, <2>1, NextSeqWraps DEF ListInv
<1>5. RelTypeOK'
  <2>1. reliable_packets' \in Seq(Packet) /\ created' \in Nat
    BY <1>1
  <2> QED BY <1>4, <2>1 DEF RelTypeOK
<1>6. ListInv'
  <2>1. ASSUME NEW i \in 1 .. Len(reliable_packets')
        PROVE  /\ reliable_packets'[i].id = Dropped' + i - 1
               /\ reliable_packets'[i].seq = (Dropped' + i - 1) % NumSeqs
    <3>1. CASE i \in 1 .. Len(reliable_packets)
      BY <1>2, <1>3, <3>1 DEF ListInv
    <3>2. CASE i = Len(reliable_packets) + 1
      <4>1. Dropped + i - 1 = created
        BY <1>1, <3>2 DEF Dropped
      <4> QED BY <1>2, <1>3, <3>2, <4>1 DEF ListInv
    <3> QED BY <1>1, <1>2, <3>1, <3>2
  <2>2. Len(reliable_packets') <= created'
    BY <1>1, <1>2 DEF ListInv
  <2> QED BY <1>4, <2>1, <2>2 DEF ListInv
<1>7. WindowInv' /\ DeliveredInv'
  BY <1>1, <1>2, <1>3 DEF RelTypeOK, WindowInv, DeliveredInv
<1>8. WireInv'
  BY <1>1, <1>2, <1>3 DEF RelTypeOK, Packet, WireInv
<1> QED BY <1>5, <1>6, <1>7, <1>8

\* The head of the list may be put on the wire.
LEMMA HeadFitsWire ==
  ASSUME IInv, reliable_packets # <<>>
  PROVE  LET h == Head(reliable_packets) IN
         /\ h \in Packet
         /\ h.seq = h.id % NumSeqs
         /\ h.id <= Dropped
         /\ h.id < created
<1> USE DEF IInv
<1>1. /\ Head(reliable_packets) \in Packet
      /\ Head(reliable_packets) = reliable_packets[1]
      /\ Len(reliable_packets) \in Nat /\ 1 \in 1 .. Len(reliable_packets)
      /\ created \in Nat
  BY DEF RelTypeOK
<1>2. Dropped \in Nat /\ Dropped + 1 - 1 = Dropped /\ Dropped < created
  BY <1>1 DEF Dropped, ListInv
<1>3. /\ Head(reliable_packets).id = Dropped
      /\ Head(reliable_packets).seq = Dropped % NumSeqs
  BY <1>1, <1>2 DEF ListInv
<1> QED BY <1>1, <1>2, <1>3

LEMMA SendStep ==
  ASSUME IInv, SendFirst \/ LeaveConnected PROVE IInv'
<1>1. /\ UNCHANGED <<created, reliable_send_seq, reliable_packets, receiver, acks>>
      /\ connected' \in BOOLEAN
      /\ \/ UNCHANGED data
         \/ reliable_packets # <<>> /\ data' = data \cup {Head(reliable_packets)}
  BY DEF SendFirst, LeaveConnected, sender, IInv, RelTypeOK
<1>2. Dropped' = Dropped
  BY <1>1 DEF Dropped
<1>3. RelTypeOK'
  BY <1>1, HeadFitsWire DEF receiver, IInv, RelTypeOK
<1>4. ListInv' /\ WindowInv' /\ DeliveredInv'
  BY <1>1, <1>2 DEF receiver, IInv, ListInv, WindowInv, DeliveredInv
<1>5. WireInv'
  <2>1. \A a \in acks' : a.seq = a.count % NumSeqs /\ a.count <= Len(delivered')
    BY <1>1 DEF receiver, IInv, WireInv
  <2>2. ASSUME NEW p \in data'
        PROVE  p.seq = p.id % NumSeqs /\ p.id <= Dropped /\ p.id < created
    BY <1>1, HeadFitsWire DEF IInv, WireInv
  <2> QED BY <1>1, <1>2, <2>1, <2>2 DEF WireInv
<1> QED BY <1>3, <1>4, <1>5 DEF IInv

LEMMA ParseReliableACKStep ==
  ASSUME IInv, NEW a \in acks, ParseReliableACK(a) PROVE IInv'
<1> USE DEF IInv, ParseReliableACK, receiver
<1>1. CASE ~AcksFirst(a)
  <2>1. UNCHANGED <<sender, receiver, data>> /\ acks' \subseteq acks
    BY <1>1 DEF sender, AcksFirst
  <2> QED BY <2>1 DEF sender, RelTypeOK, ListInv, WindowInv, WireInv, DeliveredInv, Dropped
<1>2. CASE AcksFirst(a)
  <2>1. /\ reliable_packets # <<>>
        /\ reliable_packets' = Tail(reliable_packets)
        /\ acks' \subseteq acks
    BY <1>2 DEF AcksFirst
  <2>2. /\ created \in Nat
        /\ reliable_packets \in Seq(Packet)
        /\ Len(reliable_packets) \in Nat /\ Len(reliable_packets) >= 1
    BY <2>1 DEF RelTypeOK
  <2>3. /\ reliable_packets' \in Seq(Packet)
        /\ Len(reliable_packets') = Len(reliable_packets) - 1
        /\ \A i \in 1 .. Len(reliable_packets') :
             reliable_packets'[i] = reliable_packets[i + 1]
    BY <2>1, <2>2
  <2>4. Dropped' = Dropped + 1 /\ Dropped \in Nat
    BY <2>2, <2>3 DEF Dropped, ListInv
  <2>5. Dropped + 1 <= Len(delivered)
    BY <1>2, AckIsCurrent
  <2>6. RelTypeOK'
    BY <2>1, <2>3 DEF RelTypeOK
  <2>7. ListInv'
    <3>1. ASSUME NEW i \in 1 .. Len(reliable_packets')
          PROVE  /\ reliable_packets'[i].id = Dropped' + i - 1
                 /\ reliable_packets'[i].seq = (Dropped' + i - 1) % NumSeqs
      <4>1. i + 1 \in 1 .. Len(reliable_packets)
        BY <2>2, <2>3
      <4>2. Dropped' + i - 1 = Dropped + (i + 1) - 1
        BY <2>4
      <4>3. /\ reliable_packets[i + 1].id = Dropped + (i + 1) - 1
            /\ reliable_packets[i + 1].seq = (Dropped + (i + 1) - 1) % NumSeqs
        BY <4>1 DEF ListInv
      <4> QED BY <2>3, <4>2, <4>3
    <3>2. Len(reliable_packets') <= created'
      BY <2>2, <2>3 DEF ListInv
    <3> QED BY <3>1, <3>2 DEF ListInv
  <2>8. Len(delivered) \in Nat
    BY DEF RelTypeOK
  <2>9. WindowInv' /\ DeliveredInv'
    BY <2>4, <2>5, <2>8 DEF WindowInv, DeliveredInv
  <2>10. WireInv'
    BY <2>1, <2>2, <2>4 DEF RelTypeOK, Packet, WireInv
  <2> QED BY <2>6, <2>7, <2>9, <2>10
<1> QED BY <1>1, <1>2

LEMMA ReliablePacketStep ==
  ASSUME IInv, NEW p \in data, ReliablePacket(p) PROVE IInv'
<1> USE DEF IInv, ReliablePacket, sender
<1>1. /\ p \in Packet /\ p.id \in Nat
      /\ Len(delivered) \in Nat /\ delivered \in Seq(Nat)
      /\ created \in Nat /\ Len(reliable_packets) \in Nat
      /\ Dropped' = Dropped /\ Dropped \in Nat
      /\ data' \subseteq data
  BY DEF RelTypeOK, Packet, Dropped, ListInv
<1>2. /\ Len(delivered') \in Nat /\ Len(delivered) <= Len(delivered')
      /\ reliable_recv_seq' = Len(delivered') % NumSeqs
      /\ delivered' \in Seq(Nat)
      /\ Dropped <= Len(delivered') /\ Len(delivered') <= Dropped + 1
      /\ Len(delivered') <= created
      /\ DeliveredInv'
  <2>1. CASE ~Expected(p)
    <3>1. UNCHANGED <<reliable_recv_seq, delivered>>
      BY <2>1
    <3> QED BY <1>1, <3>1 DEF WindowInv, DeliveredInv
  <2>2. CASE Expected(p)
    <3>1. p.id = Len(delivered)
      BY <2>2, ExpectedIsNext
    <3>2. /\ delivered' = Append(delivered, p.id)
          /\ reliable_recv_seq' = NextSeq(reliable_recv_seq)
      BY <2>2
    <3>3. /\ Len(delivered') = Len(delivered) + 1
          /\ delivered' \in Seq(Nat)
          /\ \A i \in 1 .. Len(delivered) : delivered'[i] = delivered[i]
          /\ delivered'[Len(delivered) + 1] = p.id
      BY <1>1, <3>2
    <3>4. p.id <= Dropped /\ p.id < created
      BY DEF WireInv
    <3>5. DeliveredInv'
      <4> SUFFICES ASSUME NEW i \in 1 .. Len(delivered') PROVE delivered'[i] = i - 1
        BY DEF DeliveredInv
      <4>1. CASE i \in 1 .. Len(delivered)
        BY <3>3, <4>1 DEF DeliveredInv
      <4>2. CASE i = Len(delivered) + 1
        BY <1>1, <3>1, <3>3, <4>2
      <4> QED BY <1>1, <3>3, <4>1, <4>2
    <3>6. reliable_recv_seq' = Len(delivered') % NumSeqs
      BY <1>1, <3>2, <3>3, NextSeqWraps DEF WindowInv
    <3> QED BY <1>1, <3>1, <3>3, <3>4, <3>5, <3>6 DEF WindowInv
  <2> QED BY <2>1, <2>2
<1>3. reliable_recv_seq' \in Seqs
  BY <1>2, NextSeqWraps
<1>4. /\ AckNow \in Ack
      /\ AckNow.seq = AckNow.count % NumSeqs
      /\ AckNow.count = Len(delivered')
  BY <1>2, <1>3 DEF AckNow, Ack
<1>5. RelTypeOK'
  BY <1>1, <1>2, <1>3, <1>4 DEF RelTypeOK, Reply
<1>6. ListInv'
  BY <1>1 DEF ListInv
<1>7. WindowInv'
  BY <1>1, <1>2 DEF WindowInv
<1>8. WireInv'
  <2>1. \A q \in data' : /\ q.seq = q.id % NumSeqs
                         /\ q.id <= Dropped'
                         /\ q.id < created'
    BY <1>1 DEF WireInv
  <2>2. ASSUME NEW b \in acks'
        PROVE  b.seq = b.count % NumSeqs /\ b.count <= Len(delivered')
    <3>1. CASE b \in acks
      BY <1>1, <1>2, <3>1 DEF WireInv, RelTypeOK, Ack
    <3>2. CASE b = AckNow
      BY <1>2, <1>4, <3>2
    <3> QED BY <3>1, <3>2 DEF Reply
  <2> QED BY <2>1, <2>2 DEF WireInv
<1> QED BY <1>2, <1>5, <1>6, <1>7, <1>8

LEMMA NextStep ==
  ASSUME IInv, [RelNext]_relVars PROVE IInv'
<1>1. CASE NewReliable
  BY <1>1, NewReliableStep
<1>2. CASE SendFirst
  BY <1>2, SendStep
<1>3. CASE \E a \in acks : ParseReliableACK(a)
  BY <1>3, ParseReliableACKStep
<1>4. CASE LeaveConnected
  BY <1>4, SendStep
<1>5. CASE \E p \in data : ReliablePacket(p)
  BY <1>5, ReliablePacketStep
<1>6. CASE RelLose
  <2>1. UNCHANGED <<sender, receiver>> /\ data' \subseteq data /\ acks' \subseteq acks
    BY <1>6 DEF RelLose
  <2> QED BY <2>1 DEF sender, receiver, IInv, RelTypeOK, ListInv, WindowInv, WireInv,
                      DeliveredInv, Dropped
<1>7. CASE UNCHANGED relVars
  BY <1>7 DEF relVars, sender, receiver, IInv, RelTypeOK, ListInv, WindowInv, WireInv,
              DeliveredInv, Dropped
<1> QED BY <1>1, <1>2, <1>3, <1>4, <1>5, <1>6, <1>7 DEF RelNext

-----------------------------------------------------------------------------
(* The theorems *)

\* IInv holds in every reachable state of the reliable packets of one
\* direction of a connection.
THEOREM Invariance == RelSpec => []IInv
  BY InitIInv, NextStep, PTL DEF RelSpec

\* Every variable keeps its type: a sequence number stays within the byte.
THEOREM TypeCorrect == RelSpec => []RelTypeOK
<1>1. IInv => RelTypeOK
  BY DEF IInv
<1> QED BY Invariance, <1>1, PTL

\* NET_Conn_ReliablePacket hands on each packet once and in the order of
\* creation, however the wire loses, duplicates and reorders the copies.
THEOREM Order == RelSpec => []InOrderOnce
<1>1. IInv => InOrderOnce
  BY DEF IInv, WindowInv, DeliveredInv, InOrderOnce
<1> QED BY Invariance, <1>1, PTL

\* NET_Conn_ParseReliableACK never drops a packet the other end has not
\* accepted.
THEOREM NoEarlyDrop == RelSpec => []DroppedWasDelivered
<1>1. IInv => DroppedWasDelivered
  BY DEF IInv, WindowInv, DroppedWasDelivered
<1> QED BY Invariance, <1>1, PTL

\* The initial states are those of the first-in first-out delivery.
LEMMA InitRefines == RelInit => Fifo!Init
  BY DEF RelInit, Fifo!Init

\* Every step is a Create, a Deliver, or leaves both history variables alone.
LEMMA StepRefines ==
  ASSUME IInv, [RelNext]_relVars PROVE [Fifo!Next]_(Fifo!vars)
<1>1. CASE NewReliable
  BY <1>1 DEF NewReliable, receiver, Fifo!Next, Fifo!Create
<1>2. CASE \E p \in data : ReliablePacket(p)
  <2>1. PICK p \in data : ReliablePacket(p)
    BY <1>2
  <2>2. CASE Expected(p)
    <3>1. p.id = Len(delivered) /\ PacketFresh(p)
      BY <2>1, <2>2, ExpectedIsNext DEF ReliablePacket
    <3>2. Len(delivered) < created
      BY <3>1 DEF IInv, WireInv
    <3> QED BY <2>1, <2>2, <3>1, <3>2 DEF ReliablePacket, sender, Fifo!Next, Fifo!Deliver
  <2>3. CASE ~Expected(p)
    BY <2>1, <2>3 DEF ReliablePacket, sender, Fifo!vars
  <2> QED BY <2>2, <2>3
<1>3. CASE SendFirst \/ LeaveConnected \/ RelLose \/ UNCHANGED relVars
  BY <1>3 DEF SendFirst, LeaveConnected, RelLose, sender, receiver, relVars, Fifo!vars
<1>4. CASE \E a \in acks : ParseReliableACK(a)
  BY <1>4 DEF ParseReliableACK, receiver, Fifo!vars
<1> QED BY <1>1, <1>2, <1>3, <1>4 DEF RelNext

\* The reliable packets implement first-in first-out delivery.
THEOREM Refinement == RelSpec => ImplementsFifo
<1>1. RelSpec => Fifo!Init /\ [][Fifo!Next]_(Fifo!vars)
  BY Invariance, InitRefines, StepRefines, PTL DEF RelSpec
<1> QED BY <1>1 DEF ImplementsFifo, Fifo!Spec

---------------------------------------------------------------------------
(***************************************************************************)
(* Connections.                                                            *)
(*                                                                         *)
(* Each action of a program is a step of one end.  EndStep collects what   *)
(* every such step has in common: what the connection may become, for      *)
(* which cause, and what it may send.  ClientStep and ServerStep add what  *)
(* the loops around it do.  The invariants follow from these, without the  *)
(* handlers:                                                               *)
(*   - ReasonInv: a DISCONNECT under way was asked for by its sender;      *)
(*   - OrderInv: while the client is still connecting no ACK of its own    *)
(*     is under way;                                                       *)
(*   - CalmInv: while nobody leaves, both ends are in step (LinkInv), each *)
(*     sends in every tick (BeatInv), so that a tick the other end has not *)
(*     heard from is a datagram under way or a fault (MissInv).            *)
(***************************************************************************)

-----------------------------------------------------------------------------
(* The inductive invariants *)

\* A datagram of this kind is under way to end e.
Coming(e, kind) == \E d \in wire[e] : d.kind = kind

ReasonInv ==
  /\ ReasonTruth
  /\ conn["server"].state # "CONNECTING"
  /\ \A e \in End : conn[e].state = "DISCONNECTED_SLEEP" => Other(e) \in asked
  /\ \A e \in End : conn[e].state = "DISCONNECTING" => e \in asked
  /\ \A e \in End : Coming(e, "DISCONNECT") => Other(e) \in asked

OrderInv ==
  /\ conn["server"].state # "CONNECTING"
  /\ conn["client"].state # "WAITING_ACK"
  /\ connects = 0 => conn["client"].state # "CONNECTING"
  /\ connects = 0 \/ conn["client"].state = "CONNECTING" =>
       conn["server"].state # "CONNECTED" /\ ~Coming("server", "ACK")

\* The premise of KeepalivesSuffice.
Calm ==
  faults + MaxDelay < SilenceTicks - 1 /\ asked = {} /\ gaveUp \subseteq End \X {"silence"}

\* End e counts the ticks since it last heard from the other end.
Hears(e) == conn[e].state = "CONNECTED" /\ (e = "server" => active)

\* The ticks of which end e has heard nothing and will hear nothing: those
\* whose datagrams are neither received nor under way.
Missing(e) ==
  {a \in 0 .. conn[e].silent - 1 :
     /\ a = 0 => ~conn[Other(e)].quiet
     /\ \A d \in wire[e] : d.age # a}

\* The two ends are in step.
LinkInv ==
  /\ active => conn["server"].state \in {"WAITING_ACK", "CONNECTED"}
  /\ Coming("server", "ACK") \/ Hears("server") => conn["client"].state = "CONNECTED"
  /\ Coming("client", "ACK") => active
  /\ conn["client"].state = "CONNECTED" => active /\ phase \in {"connecting", "playing"}
  /\ phase # "leaving" /\ conn["client"].state # "WAITING_ACK"

\* An end that has run since the last tick has sent something.
BeatInv ==
  /\ active /\ conn["server"].state = "WAITING_ACK" /\ ~conn["server"].due
       => ~conn["server"].quiet
  /\ active /\ "server" \in ran => ~conn["server"].quiet
  /\ conn["client"].state = "CONNECTED" /\ "client" \in ran => ~conn["client"].quiet

\* A SYN is not an answer, but no SYN is as young as the silence it could end.
SynInv ==
  Hears("server") =>
    \A d \in wire["server"] : d.kind = "SYN" => d.age >= conn["server"].silent

MissInv == \A e \in End : Hears(e) => Cardinality(Missing(e)) <= faults

CalmInv == Calm => gaveUp = {} /\ LinkInv /\ BeatInv /\ SynInv /\ MissInv

-----------------------------------------------------------------------------
(* What a connection becomes *)

LEMMA Ends ==
  /\ End = {"client", "server"}
  /\ Other("client") = "server" /\ Other("server") = "client"
  /\ \A e \in End : Other(e) \in End /\ Other(Other(e)) = e /\ Other(e) # e
<1>1. Other("client") = "server"
  BY Zenon DEF Other, End
<1>2. Other("server") = "client"
  BY Zenon DEF Other, End
<1> QED BY <1>1, <1>2 DEF End

\* A handler's result is the connection it made, marked if it sent anything.
LEMMA ResultOf ==
  ASSUME NEW c \in Connection, NEW K \in SUBSET Kind
  PROVE  LET r == Result(c, K) IN
         /\ r.conn \in Connection /\ r.send = K
         /\ r.conn.state = c.state /\ r.conn.reason = c.reason
         /\ r.conn.due = c.due /\ r.conn.silent = c.silent
         /\ K = {} => r.conn.quiet = c.quiet
         /\ K # {} => ~r.conn.quiet
<1>1. CASE K = {}
  BY <1>1 DEF Result
<1>2. CASE K # {}
  BY <1>2 DEF Result, Connection
<1> QED BY <1>1, <1>2

\* What NET_Conn_Packet may make of a connection c that a packet reaches.
PacketEffect(c, kind, r) ==
  /\ r.conn \in Connection /\ r.send \in SUBSET Kind
  /\ r.conn.silent = 0
  /\ r.send = {} => r.conn.quiet = c.quiet
  /\ r.send # {} => ~r.conn.quiet
  /\ "DISCONNECT" \notin r.send /\ "SYN" \notin r.send
  /\ "ACK" \in r.send => c.state = "CONNECTING" /\ r.conn.state = "CONNECTED"
  /\ r.conn.state = "CONNECTED" =>
       \/ c.state = "CONNECTED"
       \/ kind = "ACK" /\ c.state \in {"CONNECTING", "WAITING_ACK"}
  /\ r.conn.state = "DISCONNECTED_SLEEP" =>
       c.state = "DISCONNECTED_SLEEP" \/ kind = "DISCONNECT"
  /\ r.conn.state \in {"DISCONNECTING", "CONNECTING", "WAITING_ACK"} =>
       c.state = r.conn.state /\ r.conn.due = c.due
  /\ r.conn.reason = "LOCAL" => c.reason = "LOCAL" \/ c.state = "DISCONNECTING"
  /\ r.conn.reason = "REMOTE" =>
       c.reason = "REMOTE" \/ c.state = "CONNECTING" \/ kind = "DISCONNECT"
  /\ c.state \in {"CONNECTED", "WAITING_ACK"} /\ kind # "DISCONNECT" =>
       r.conn.state \in {c.state, "CONNECTED"}

LEMMA PacketResult ==
  ASSUME NEW c \in Connection, NEW kind \in Kind
  PROVE  PacketEffect(c, kind, ConnPacket(c, kind))
<1> DEFINE h == Heard(c)
           r == ConnPacket(c, kind)
<1>0. h = [c EXCEPT !.silent = 0] /\ 0 \in 0 .. SilenceTicks /\ 0 \in 0 .. SleepTicks
  BY TicksAssumption DEF Heard
<1>1. /\ h \in Connection /\ h.silent = 0 /\ h.state = c.state /\ h.reason = c.reason
      /\ h.quiet = c.quiet /\ h.due = c.due
  BY <1>0 DEF Connection
<1>k. {"ACK"} \in SUBSET Kind /\ {"DISCONNECT_ACK"} \in SUBSET Kind /\ {} \in SUBSET Kind
  BY DEF Kind
<1>a. /\ kind = "ACK" => r = ParseACK(h)
      /\ kind = "DISCONNECT" => r = ParseDisconnect(h)
      /\ kind = "DISCONNECT_ACK" => r = ParseDisconnectACK(h)
      /\ kind = "REJECTED" => r = ParseReject(h)
      /\ kind \in {"SYN", "KEEPALIVE"} => r = Result(h, {})
  BY DEF ConnPacket
<1> SUFFICES PacketEffect(c, kind, r)
  OBVIOUS
<1> HIDE DEF h, r
<1>2. CASE kind = "ACK"
  <2> DEFINE m == [h EXCEPT !.state = "CONNECTED"]
  <2>1. /\ m \in Connection /\ m.state = "CONNECTED" /\ m.reason = h.reason
        /\ m.silent = h.silent /\ m.quiet = h.quiet
    BY <1>1 DEF Connection, State
  <2>2. /\ h.state = "CONNECTING" => r = Result(m, {"ACK"})
        /\ h.state = "WAITING_ACK" => r = Result(m, {})
        /\ h.state \notin {"CONNECTING", "WAITING_ACK"} => r = Result(h, {})
    BY <1>a, <1>2 DEF ParseACK
  <2> HIDE DEF m
  <2>3. CASE h.state = "CONNECTING"
    BY <1>1, <1>2, <1>k, <2>1, <2>2, <2>3, ResultOf DEF PacketEffect
  <2>4. CASE h.state = "WAITING_ACK"
    BY <1>1, <1>2, <1>k, <2>1, <2>2, <2>4, ResultOf DEF PacketEffect
  <2>5. CASE h.state \notin {"CONNECTING", "WAITING_ACK"}
    BY <1>1, <1>2, <1>k, <2>2, <2>5, ResultOf DEF PacketEffect
  <2> QED BY <2>3, <2>4, <2>5
<1>3. CASE kind = "DISCONNECT"
  <2> DEFINE m == [h EXCEPT !.state = "DISCONNECTED_SLEEP", !.reason = "REMOTE",
                            !.due = FALSE, !.idle = 0]
  <2>1. /\ m \in Connection /\ m.state = "DISCONNECTED_SLEEP" /\ m.reason = "REMOTE"
        /\ m.silent = h.silent /\ m.quiet = h.quiet
    BY <1>0, <1>1 DEF Connection, State, Reason
  <2>2. r = Result(m, {"DISCONNECT_ACK"})
    BY <1>a, <1>3 DEF ParseDisconnect
  <2> HIDE DEF m
  <2> QED BY <1>1, <1>3, <1>k, <2>1, <2>2, ResultOf DEF PacketEffect
<1>4. CASE kind \in {"DISCONNECT_ACK", "REJECTED"}
  <2> DEFINE m == IF kind = "REJECTED"
                  THEN [h EXCEPT !.state = "DISCONNECTED", !.reason = "REMOTE"]
                  ELSE [h EXCEPT !.state = "DISCONNECTED", !.reason = "LOCAL", !.due = TRUE]
             s == IF kind = "REJECTED" THEN "CONNECTING" ELSE "DISCONNECTING"
  <2>1. /\ m \in Connection /\ m.state = "DISCONNECTED"
        /\ m.reason = IF kind = "REJECTED" THEN "REMOTE" ELSE "LOCAL"
        /\ m.silent = h.silent /\ m.quiet = h.quiet
    BY <1>1, <1>4 DEF Connection, State, Reason
  <2>2. r = IF h.state = s THEN Result(m, {}) ELSE Result(h, {})
    BY <1>a, <1>4 DEF ParseReject, ParseDisconnectACK
  <2> HIDE DEF m
  <2>3. CASE h.state = s
    BY <1>1, <1>4, <1>k, <2>1, <2>2, <2>3, ResultOf DEF PacketEffect
  <2>4. CASE h.state # s
    BY <1>1, <1>4, <1>k, <2>2, <2>4, ResultOf DEF PacketEffect
  <2> QED BY <2>3, <2>4
<1>5. CASE kind \in {"SYN", "KEEPALIVE"}
  <2>1. r = Result(h, {})
    BY <1>a, <1>5
  <2> QED BY <1>1, <1>5, <1>k, <2>1, ResultOf DEF PacketEffect
<1> QED BY <1>2, <1>3, <1>4, <1>5 DEF Kind

\* What NET_Conn_Run may make of a connection c.
RunEffect(c, r) ==
  /\ r.conn \in Connection /\ r.send \in SUBSET Kind
  /\ r.conn.silent = c.silent
  /\ r.send = {} => r.conn.quiet = c.quiet
  /\ r.send # {} => ~r.conn.quiet
  /\ "SYN" \notin r.send
  /\ "DISCONNECT" \in r.send => c.state = "DISCONNECTING"
  /\ "ACK" \in r.send => c.state = "WAITING_ACK" /\ r.conn.state = "WAITING_ACK"
  /\ r.conn.state \in {c.state, "DISCONNECTED"}
  /\ c.state = "CONNECTED" =>
       /\ ~r.conn.quiet
       /\ r.conn.state = "CONNECTED" \/ c.silent >= SilenceTicks
  /\ c.state = "WAITING_ACK" /\ r.conn.state = "WAITING_ACK" =>
       ~r.conn.quiet \/ (~c.due /\ r.conn.quiet = c.quiet)
  /\ r.conn.reason = "LOCAL" => c.reason = "LOCAL" \/ c.state = "DISCONNECTING"
  /\ r.conn.reason = "REMOTE" => c.reason = "REMOTE" \/ c.state = "DISCONNECTED_SLEEP"

LEMMA RunResult ==
  ASSUME NEW c \in Connection
  PROVE  RunEffect(c, ConnRun(c))
<1> DEFINE r == ConnRun(c)
           over(reason) == [c EXCEPT !.state = "DISCONNECTED", !.reason = reason]
           again == [c EXCEPT !.due = FALSE, !.num_retries = @ + 1]
<1>k. \A k \in Kind : {k} \in SUBSET Kind /\ {} \in SUBSET Kind
  OBVIOUS
<1>a. /\ c.state = "CONNECTED" => r = RunConnected(c)
      /\ c.state = "WAITING_ACK" => r = Resend(c, "ACK", "TIMEOUT")
      /\ c.state = "DISCONNECTING" => r = Resend(c, "DISCONNECT", "LOCAL")
      /\ c.state = "DISCONNECTED_SLEEP" /\ c.idle >= SleepTicks => r = Result(over("REMOTE"), {})
      /\ c.state \in {"CONNECTING", "DISCONNECTED"} => r = Result(c, {})
      /\ c.state = "DISCONNECTED_SLEEP" /\ ~(c.idle >= SleepTicks) => r = Result(c, {})
  BY DEF ConnRun
<1>b. \A reason \in Reason :
        /\ over(reason) \in Connection /\ over(reason).state = "DISCONNECTED"
        /\ over(reason).reason = reason /\ over(reason).silent = c.silent
        /\ over(reason).quiet = c.quiet
  BY DEF Connection, State
<1>d. c.num_retries < MaxRetries =>
        /\ again \in Connection /\ again.state = c.state /\ again.reason = c.reason
        /\ again.silent = c.silent /\ again.quiet = c.quiet
  <2>1. c.num_retries \in 0 .. MaxRetries /\ MaxRetries \in Nat
    BY TicksAssumption DEF Connection
  <2>2. c.num_retries < MaxRetries => c.num_retries + 1 \in 0 .. MaxRetries
    BY <2>1
  <2> QED BY <2>2 DEF Connection
<1>s. c.state \in State /\ "REMOTE" \in Reason /\ "LOCAL" \in Reason /\ "TIMEOUT" \in Reason
  BY DEF Connection, Reason
<1>K. "KEEPALIVE" \in Kind /\ "ACK" \in Kind /\ "DISCONNECT" \in Kind
  BY DEF Kind
<1> SUFFICES RunEffect(c, r)
  OBVIOUS
<1> HIDE DEF r
<1>1. CASE c.state = "CONNECTED"
  <2> DEFINE m == IF c.silent >= SilenceTicks THEN over("TIMEOUT") ELSE c
             K == IF c.quiet THEN {"KEEPALIVE"} ELSE {}
  <2>1. r = Result(m, K)
    BY <1>a, <1>1 DEF RunConnected
  <2>2. /\ m \in Connection /\ m.silent = c.silent /\ m.quiet = c.quiet
        /\ m.state \in {"CONNECTED", "DISCONNECTED"}
        /\ m.state = "CONNECTED" \/ c.silent >= SilenceTicks
        /\ m.reason \in {c.reason, "TIMEOUT"}
    BY <1>1, <1>b, <1>s
  <2>3. /\ K \in SUBSET Kind /\ (c.quiet => K # {})
        /\ "ACK" \notin K /\ "DISCONNECT" \notin K /\ "SYN" \notin K
    BY <1>K
  <2> HIDE DEF m, K
  <2> QED BY <1>1, <2>1, <2>2, <2>3, ResultOf DEF RunEffect
<1>2. CASE c.state \in {"WAITING_ACK", "DISCONNECTING"}
  <2> DEFINE k == IF c.state = "WAITING_ACK" THEN "ACK" ELSE "DISCONNECT"
             why == IF c.state = "WAITING_ACK" THEN "TIMEOUT" ELSE "LOCAL"
  <2>1. r = Resend(c, k, why)
    BY <1>a, <1>2
  <2>2. /\ ~c.due => r = Result(c, {})
        /\ c.due /\ c.num_retries < MaxRetries => r = Result(again, {k})
        /\ c.due /\ ~(c.num_retries < MaxRetries) => r = Result(over(why), {})
    BY <2>1 DEF Resend
  <2>3. k \in Kind /\ why \in Reason
    BY <1>K, <1>s
  <2> HIDE DEF again, over
  <2>4. CASE ~c.due
    BY <1>2, <1>k, <2>2, <2>3, <2>4, ResultOf DEF RunEffect
  <2>5. CASE c.due /\ c.num_retries < MaxRetries
    BY <1>2, <1>k, <1>d, <2>2, <2>3, <2>5, ResultOf DEF RunEffect
  <2>6. CASE c.due /\ ~(c.num_retries < MaxRetries)
    BY <1>2, <1>k, <1>b, <2>2, <2>3, <2>6, ResultOf DEF RunEffect
  <2> QED BY <2>4, <2>5, <2>6
<1>3. CASE c.state = "DISCONNECTED_SLEEP" /\ c.idle >= SleepTicks
  <2>1. r = Result(over("REMOTE"), {})
    BY <1>a, <1>3
  <2> HIDE DEF over
  <2> QED BY <1>3, <1>k, <1>K, <1>b, <1>s, <2>1, ResultOf DEF RunEffect
<1>4. CASE \/ c.state \in {"CONNECTING", "DISCONNECTED"}
           \/ c.state = "DISCONNECTED_SLEEP" /\ ~(c.idle >= SleepTicks)
  <2>1. r = Result(c, {})
    BY <1>a, <1>4
  <2> QED BY <1>4, <1>k, <1>K, <2>1, ResultOf DEF RunEffect
<1> QED BY <1>1, <1>2, <1>3, <1>4, <1>s DEF State

-----------------------------------------------------------------------------
(* The steps of one end *)

\* Packets of the kinds K leave end e.
Mailed(w, e, K) == [w EXCEPT ![Other(e)] = @ \cup {[kind |-> k, age |-> 0] : k \in K}]

MailEffect(w, e, K, v) ==
  /\ v \in [End -> SUBSET Datagram]
  /\ v[e] = w[e]
  /\ \A x \in w[Other(e)] : x \in v[Other(e)]
  /\ \A x \in v[Other(e)] : x \in w[Other(e)] \/ (x.kind \in K /\ x.age = 0)
  /\ K # {} => \E x \in v[Other(e)] : x.age = 0

LEMMA Mail ==
  ASSUME NEW w \in [End -> SUBSET Datagram], NEW e \in End, NEW K \in SUBSET Kind
  PROVE  MailEffect(w, e, K, Mailed(w, e, K))
<1> DEFINE o == Other(e)
           new == {[kind |-> k, age |-> 0] : k \in K}
           v == [w EXCEPT ![o] = @ \cup new]
<1>1. o \in End /\ o # e
  BY Ends
<1>2. 0 \in 0 .. MaxDelay
  BY TicksAssumption
<1>3. \A x \in new : x \in Datagram /\ x.kind \in K /\ x.age = 0
  BY <1>2 DEF Datagram
<1>4. K # {} => \E x \in new : x.age = 0
  <2> SUFFICES ASSUME K # {} PROVE \E x \in new : x.age = 0
    OBVIOUS
  <2>1. PICK k \in K : TRUE
    OBVIOUS
  <2> WITNESS [kind |-> k, age |-> 0] \in new
  <2> QED OBVIOUS
<1> HIDE DEF o, new
<1>5. v[o] = w[o] \cup new /\ v[e] = w[e] /\ v \in [End -> SUBSET Datagram]
  BY <1>1, <1>3
<1>6. /\ v[e] = w[e]
      /\ \A x \in w[o] : x \in v[o]
      /\ \A x \in v[o] : x \in w[o] \/ (x.kind \in K /\ x.age = 0)
      /\ K # {} => \E x \in v[o] : x.age = 0
  BY <1>3, <1>4, <1>5
<1> QED BY <1>5, <1>6 DEF o, new, Mailed, MailEffect

\* What a step of end e may send, and to what it may turn the connection.
EndStep(e) ==
  LET o == Other(e)
      c == conn[e]
      d == conn'[e]
  IN
  /\ conn' \in [End -> Connection] /\ wire' \in [End -> SUBSET Datagram]
  /\ conn'[o] = conn[o]
  /\ \A x \in wire'[e] : x \in wire[e]
  /\ \A x \in wire[o] : x \in wire'[o]
  /\ \A x \in wire'[o] :
       \/ x \in wire[o]
       \/ /\ x.kind = "DISCONNECT" => c.state = "DISCONNECTING"
          /\ x.kind = "SYN" => c.state = "CONNECTING"
          /\ x.kind = "ACK" =>
               \/ c.state = "CONNECTING" /\ d.state = "CONNECTED"
               \/ c.state = "WAITING_ACK" /\ d.state = "WAITING_ACK"
  /\ c.quiet /\ ~d.quiet => \E x \in wire'[o] : x.age = 0
  /\ d.state = "DISCONNECTING" => c.state = "DISCONNECTING" \/ e \in asked'
  /\ d.state = "DISCONNECTED_SLEEP" =>
       c.state = "DISCONNECTED_SLEEP" \/ Coming(e, "DISCONNECT")
  /\ d.reason = "LOCAL" =>
       c.reason = "LOCAL" \/ c.state = "DISCONNECTING" \/ e \in asked'
  /\ d.reason = "REMOTE" =>
       \/ c.reason = "REMOTE"
       \/ c.state \in {"DISCONNECTED_SLEEP", "CONNECTING"}
       \/ Coming(e, "DISCONNECT")
  /\ d.state = "CONNECTED" =>
       \/ /\ c.state = "CONNECTED" /\ d.silent = c.silent
          /\ \A x \in wire[e] : x \in wire'[e] \/ (e = "server" /\ x.kind = "SYN")
       \/ c.state = "CONNECTED" /\ (d.silent = 0 \/ (e = "server" /\ ~active'))
       \/ c.state \in {"CONNECTING", "WAITING_ACK"} /\ d.silent = 0 /\ Coming(e, "ACK")

\* A step that leaves the connections and the wires alone.
LEMMA NothingHappens ==
  ASSUME TypeOK, NEW e \in End, conn' = conn, wire' = wire
  PROVE  EndStep(e)
BY DEF EndStep, TypeOK

\* NET_Conn_Packet at end e.
LEMMA PacketStep ==
  ASSUME TypeOK, NEW e \in End, NEW p \in wire[e], NEW again \in BOOLEAN,
         NEW r, r = ConnPacket(conn[e], p.kind),
         conn' = [conn EXCEPT ![e] = r.conn],
         wire' = [Received(e, p, again) EXCEPT
                    ![Other(e)] = @ \cup {[kind |-> k, age |-> 0] : k \in r.send}]
  PROVE  EndStep(e) /\ PacketEffect(conn[e], p.kind, r)
<1> DEFINE w == Received(e, p, again)
<1>1. /\ conn[e] \in Connection /\ p.kind \in Kind /\ wire \in [End -> SUBSET Datagram]
      /\ conn \in [End -> Connection]
  BY DEF TypeOK, Datagram
<1>2. PacketEffect(conn[e], p.kind, r)
  BY <1>1, PacketResult
<1>3. /\ w \in [End -> SUBSET Datagram] /\ \A x \in w[e] : x \in wire[e]
      /\ w[Other(e)] = wire[Other(e)]
  BY <1>1, Ends DEF Received
<1>4. r.conn \in Connection /\ r.send \in SUBSET Kind
  BY <1>2 DEF PacketEffect
<1> HIDE DEF w
<1>5. MailEffect(w, e, r.send, wire')
  <2>1. wire' = Mailed(w, e, r.send)
    BY Zenon DEF Mailed, w
  <2> QED BY <1>3, <1>4, <2>1, Mail
<1>6. /\ conn' \in [End -> Connection] /\ conn'[e] = r.conn
      /\ conn'[Other(e)] = conn[Other(e)]
  BY <1>1, <1>4, Ends
<1>7. \A k : p.kind = k => Coming(e, k)
  BY DEF Coming
<1> QED BY <1>2, <1>3, <1>5, <1>6, <1>7 DEF EndStep, PacketEffect, MailEffect

\* NET_Conn_Run at end e, which has sent packets of the kinds K before.
LEMMA RunStep ==
  ASSUME TypeOK, NEW e \in End, NEW c \in Connection, NEW K \in SUBSET {"SYN"},
         c.state = conn[e].state, c.reason = conn[e].reason, c.silent = conn[e].silent,
         IF K = {} THEN c.quiet = conn[e].quiet ELSE c.state = "CONNECTING",
         NEW r, r = ConnRun(c),
         conn' = [conn EXCEPT ![e] = r.conn], wire' = Sent(e, K \cup r.send)
  PROVE  EndStep(e) /\ RunEffect(c, r)
<1>1. wire \in [End -> SUBSET Datagram] /\ conn \in [End -> Connection]
  BY DEF TypeOK
<1>2. RunEffect(c, r)
  BY RunResult
<1>4. r.conn \in Connection /\ K \cup r.send \in SUBSET Kind
  BY <1>2 DEF RunEffect, Kind
<1>5. MailEffect(wire, e, K \cup r.send, wire')
  <2>1. wire' = Mailed(wire, e, K \cup r.send)
    BY Zenon DEF Mailed, Sent
  <2> QED BY <1>1, <1>4, <2>1, Mail
<1>6. /\ conn' \in [End -> Connection] /\ conn'[e] = r.conn
      /\ conn'[Other(e)] = conn[Other(e)]
  BY <1>1, <1>4, Ends
<1>7. conn[e].quiet /\ ~conn'[e].quiet => K \cup r.send # {}
  BY <1>2, <1>6 DEF RunEffect
<1> QED BY <1>2, <1>5, <1>6, <1>7 DEF EndStep, RunEffect, MailEffect

\* What the loops of net_client.cc add to a step of the client.
ClientStep ==
  LET c == conn["client"]
      d == conn'["client"]
  IN
  /\ EndStep("client")
  /\ active' = active /\ faults' >= faults
  /\ asked \subseteq asked' /\ gaveUp \subseteq gaveUp'
  /\ "server" \in ran' => "server" \in ran
  /\ d.state = "WAITING_ACK" => c.state = "WAITING_ACK"
  /\ \/ connects' = connects /\ (d.state = "CONNECTING" => c.state = "CONNECTING")
     \/ connects < MaxConnects /\ connects' = connects + 1
  /\ phase' = "leaving" => phase = "leaving" \/ "client" \in asked'
  /\ c.state = "CONNECTED" =>
       \/ d.state = "CONNECTED"
       \/ Coming("client", "DISCONNECT") \/ "client" \in asked'
       \/ c.silent >= SilenceTicks \/ phase = "idle"
  /\ d.state = "CONNECTED" =>
       /\ phase # "idle"
       /\ \/ phase' \in {"connecting", "playing"}
          \/ phase = "leaving" \/ "client" \in asked' \/ <<"client", "quit">> \in gaveUp'
       /\ "client" \in ran' =>
            \/ ~d.quiet \/ phase = "leaving"
            \/ "client" \in ran /\ c.state = "CONNECTED" /\ d.quiet = c.quiet
  /\ \A g \in gaveUp' :
       \/ g \in gaveUp \/ g \notin End \X {"silence"}
       \/ c.state = "CONNECTED" /\ c.silent >= SilenceTicks

\* What NET_Conn_Run may give up, at either end.
LEMMA GivingUp ==
  ASSUME TypeOK, NEW e \in End, NEW c \in Connection, NEW r, RunEffect(c, r),
         gaveUp' = IF r.conn.state = "DISCONNECTED" THEN gaveUp \cup Abandoned(e, c) ELSE gaveUp
  PROVE  /\ gaveUp' \in SUBSET (End \X Event)
         /\ gaveUp \subseteq gaveUp'
         /\ c.state = "WAITING_ACK" => r.conn.state = c.state \/ <<e, "handshake">> \in gaveUp'
         /\ \A g \in gaveUp' :
              \/ g \in gaveUp \/ g \notin End \X {"silence"}
              \/ c.state = "CONNECTED" /\ c.silent >= SilenceTicks
<1>1. /\ Abandoned(e, c) \in SUBSET (End \X Event)
      /\ c.state = "WAITING_ACK" => <<e, "handshake">> \in Abandoned(e, c)
      /\ \A g \in Abandoned(e, c) : g \in End \X {"silence"} => c.state = "CONNECTED"
  BY DEF Abandoned, Event
<1>2. gaveUp \in SUBSET (End \X Event)
  BY DEF TypeOK
<1>3. CASE r.conn.state = "DISCONNECTED"
  <2>1. gaveUp' = gaveUp \cup Abandoned(e, c)
    BY <1>3
  <2>2. c.state = "CONNECTED" => c.silent >= SilenceTicks
    BY <1>3 DEF RunEffect
  <2> QED BY <1>1, <1>2, <2>1, <2>2
<1>4. CASE r.conn.state # "DISCONNECTED"
  BY <1>2, <1>4 DEF RunEffect
<1> QED BY <1>3, <1>4

\* NET_CL_Run.
LEMMA ClientRunStep ==
  ASSUME TypeOK, NEW c \in Connection, NEW K \in SUBSET {"SYN"}, ClientRun(c, K),
         c.state = conn["client"].state, c.reason = conn["client"].reason,
         c.silent = conn["client"].silent,
         IF K = {} THEN c.quiet = conn["client"].quiet ELSE c.state = "CONNECTING",
         phase # "idle", ran' = ran \cup {"client"},
         UNCHANGED <<active, elapsed, faults, connects, asked>>
  PROVE  ClientStep /\ TypeOK'
<1> PICK r : r = ConnRun(c)
  OBVIOUS
<1>1. /\ conn' = [conn EXCEPT !["client"] = r.conn]
      /\ wire' = Sent("client", K \cup r.send)
      /\ gaveUp' = IF r.conn.state = "DISCONNECTED" THEN gaveUp \cup Abandoned("client", c)
                   ELSE gaveUp
      /\ phase' = IF r.conn.state \in {"DISCONNECTED", "DISCONNECTED_SLEEP"} THEN "idle"
                  ELSE IF phase = "connecting" /\ r.conn.state = "CONNECTED" THEN "playing"
                  ELSE phase
  BY DEF ClientRun
<1>2. EndStep("client") /\ RunEffect(c, r)
  BY <1>1, Ends, RunStep
<1>3. /\ gaveUp' \in SUBSET (End \X Event)
      /\ gaveUp \subseteq gaveUp'
      /\ \A g \in gaveUp' :
           \/ g \in gaveUp \/ g \notin End \X {"silence"}
           \/ c.state = "CONNECTED" /\ c.silent >= SilenceTicks
  BY <1>1, <1>2, Ends, GivingUp
<1>4. /\ conn'["client"] = r.conn
      /\ phase \in {"idle", "connecting", "playing", "leaving"}
      /\ faults \in Nat
  BY <1>1, Ends, TicksAssumption DEF TypeOK
<1>5. TypeOK'
  BY <1>1, <1>2, <1>3, <1>4, Ends DEF TypeOK, EndStep
<1>6. ClientStep
  BY <1>1, <1>2, <1>3, <1>4 DEF ClientStep, RunEffect
<1> QED BY <1>5, <1>6

\* A new or closed connection of the client, of which nothing is sent.
LEMMA FreshType ==
  ASSUME NEW s \in State
  PROVE  Fresh(s) \in Connection
BY TicksAssumption DEF Fresh, Connection, Reason

LEMMA ClientConnectStep ==
  ASSUME TypeOK, ClientConnect
  PROVE  ClientStep /\ TypeOK'
<1>1. Fresh("CONNECTING") \in Connection /\ connects \in Nat /\ faults \in Nat
  BY FreshType, TicksAssumption DEF State, TypeOK
<1>2. /\ conn' \in [End -> Connection] /\ conn'["client"] = Fresh("CONNECTING")
      /\ conn'["server"] = conn["server"]
  BY <1>1, Ends DEF ClientConnect, TypeOK
<1>3. EndStep("client")
  BY <1>2, Ends DEF EndStep, ClientConnect, TypeOK, Fresh
<1>4. TypeOK'
  BY <1>1, <1>2, TicksAssumption DEF TypeOK, ClientConnect
<1>5. ClientStep
  BY <1>1, <1>2, <1>3 DEF ClientStep, ClientConnect, Fresh
<1> QED BY <1>4, <1>5

LEMMA ClientReceiveStep ==
  ASSUME TypeOK, ClientReceive
  PROVE  ClientStep /\ TypeOK'
<1>1. PICK p \in wire["client"], again \in BOOLEAN :
        LET r == ConnPacket(conn["client"], p.kind)
            w == Received("client", p, again)
        IN
        /\ phase # "idle"
        /\ Repeated(again)
        /\ conn' = [conn EXCEPT !["client"] = r.conn]
        /\ wire' = [w EXCEPT !["server"] = @ \cup {[kind |-> k, age |-> 0] : k \in r.send}]
        /\ ran' = ran \ {"client"}
        /\ UNCHANGED <<active, phase, elapsed, connects, asked, gaveUp>>
  BY DEF ClientReceive
<1> PICK r : r = ConnPacket(conn["client"], p.kind)
  OBVIOUS
<1>2. EndStep("client") /\ PacketEffect(conn["client"], p.kind, r)
  BY <1>1, Ends, PacketStep
<1>3. /\ conn'["client"] = r.conn
      /\ phase \in {"idle", "connecting", "playing", "leaving"}
  BY <1>1, Ends DEF TypeOK
<1>4. faults' \in 0 .. MaxFaults /\ faults' >= faults
  BY <1>1, TicksAssumption DEF Repeated, TypeOK
<1>5. TypeOK'
  BY <1>1, <1>2, <1>4 DEF TypeOK, EndStep
<1>6. p.kind = "DISCONNECT" => Coming("client", "DISCONNECT")
  BY DEF Coming
<1>7. conn["client"].state = "CONNECTED" =>
        r.conn.state = "CONNECTED" \/ Coming("client", "DISCONNECT")
  BY <1>2, <1>6 DEF PacketEffect
<1>8. ClientStep
  BY <1>1, <1>2, <1>3, <1>4, <1>7 DEF ClientStep, PacketEffect
<1> QED BY <1>5, <1>8

LEMMA ConnectLoopStep ==
  ASSUME TypeOK, ConnectLoop
  PROVE  ClientStep /\ TypeOK'
<1> DEFINE c == conn["client"]
<1>1. c \in Connection /\ faults \in Nat
  BY Ends, TicksAssumption DEF TypeOK
<1>2. CASE ConnectTimeout
  <2>1. c.state = "CONNECTING" /\ conn' = conn
    BY <1>2 DEF ConnectTimeout
  <2>2. MailEffect(wire, "client", IF c.due THEN {"SYN"} ELSE {}, wire')
    <3>1. CASE c.due
      <4>1. wire' = Mailed(wire, "client", {"SYN"})
        BY <1>2, <3>1 DEF ConnectTimeout, Mailed, Sent
      <4> QED BY <3>1, <4>1, Ends, Mail DEF TypeOK, Kind
    <3>2. CASE ~c.due
      BY <1>2, <3>2, Ends DEF ConnectTimeout, MailEffect, TypeOK
    <3> QED BY <3>1, <3>2
  <2>3. EndStep("client")
    BY <2>1, <2>2, Ends DEF EndStep, MailEffect, TypeOK
  <2>4. TypeOK'
    BY <1>2, <2>3, Ends DEF TypeOK, EndStep, ConnectTimeout, ConnectLoop, Event
  <2>5. ClientStep
    BY <1>1, <1>2, <2>1, <2>3 DEF ClientStep, ConnectTimeout, ConnectLoop
  <2> QED BY <2>4, <2>5
<1>3. CASE ~ConnectTimeout
  <2>1. phase = "connecting" /\ ran' = ran \cup {"client"}
        /\ UNCHANGED <<active, elapsed, faults, connects, asked>>
    BY DEF ConnectLoop
  <2>2. CASE c.due /\ c.state = "CONNECTING"
    <3> DEFINE s == [c EXCEPT !.due = FALSE, !.quiet = FALSE]
    <3>1. ClientRun(s, {"SYN"})
      BY <1>3, <2>2 DEF ConnectLoop
    <3>2. /\ s \in Connection /\ s.state = c.state /\ s.reason = c.reason
          /\ s.silent = c.silent
      BY <1>1 DEF Connection
    <3> HIDE DEF s
    <3> QED BY <2>1, <2>2, <3>1, <3>2, ClientRunStep
  <2>3. CASE ~(c.due /\ c.state = "CONNECTING")
    <3>1. ClientRun(c, {})
      BY <1>3, <2>3 DEF ConnectLoop
    <3> QED BY <1>1, <2>1, <3>1, ClientRunStep
  <2> QED BY <2>2, <2>3
<1> QED BY <1>2, <1>3

LEMMA PlayLoopStep ==
  ASSUME TypeOK, PlayLoop
  PROVE  ClientStep /\ TypeOK'
<1>1. conn["client"] \in Connection
  BY Ends DEF TypeOK
<1> QED BY <1>1, ClientRunStep DEF PlayLoop

\* NET_Conn_Disconnect.
LEMMA DisconnectResult ==
  ASSUME NEW c \in Connection
  PROVE  LET d == ConnDisconnect(c) IN
         /\ d \in Connection
         /\ d.state \in {"DISCONNECTED", "DISCONNECTING", "DISCONNECTED_SLEEP"}
         /\ d = c \/ (d.state = "DISCONNECTING" /\ d.reason = "LOCAL" /\ d.quiet = c.quiet)
<1> DEFINE n == [c EXCEPT !.state = "DISCONNECTING", !.reason = "LOCAL",
                          !.due = TRUE, !.num_retries = 0]
<1>1. 0 \in 0 .. MaxRetries
  BY TicksAssumption
<1>2. /\ n \in Connection /\ n.state = "DISCONNECTING" /\ n.reason = "LOCAL"
      /\ n.quiet = c.quiet
  BY <1>1 DEF Connection, State, Reason
<1> QED BY <1>2 DEF ConnDisconnect

LEMMA ClientDisconnectStep ==
  ASSUME TypeOK, ClientDisconnect
  PROVE  ClientStep /\ TypeOK'
<1> DEFINE c == conn["client"]
           d == ConnDisconnect(c)
<1>0. c \in Connection /\ faults \in Nat /\ {"DISCONNECTED", "DISCONNECTING"} \subseteq State
  BY Ends, TicksAssumption DEF TypeOK, State
<1>1. /\ d \in Connection /\ d.state \in {"DISCONNECTED", "DISCONNECTING", "DISCONNECTED_SLEEP"}
      /\ d = c \/ (d.state = "DISCONNECTING" /\ d.reason = "LOCAL" /\ d.quiet = c.quiet)
  BY <1>0, DisconnectResult
<1> HIDE DEF d
<1>2. /\ conn' \in [End -> Connection] /\ conn'["client"] = d
      /\ conn'["server"] = conn["server"]
  BY <1>1, Ends DEF ClientDisconnect, TypeOK, d
<1>3. /\ wire' = wire /\ "client" \in asked' /\ phase = "playing" /\ phase' = "leaving"
      /\ elapsed' = 0 /\ ran' = ran \ {"client"} /\ asked' = asked \cup {"client"}
      /\ UNCHANGED <<active, faults, connects, gaveUp>>
  BY DEF ClientDisconnect
<1>4. EndStep("client")
  BY <1>0, <1>1, <1>2, <1>3, Ends DEF EndStep, TypeOK
<1>5. TypeOK'
  BY <1>2, <1>3, Ends, TicksAssumption DEF TypeOK
<1>6. ClientStep
  BY <1>0, <1>1, <1>2, <1>3, <1>4 DEF ClientStep
<1> QED BY <1>5, <1>6

LEMMA QuitStep ==
  ASSUME TypeOK, Quit
  PROVE  ClientStep /\ TypeOK'
<1>0. faults \in Nat /\ <<"client", "quit">> \in End \X Event
      /\ <<"client", "quit">> \notin End \X {"silence"}
  BY Ends, TicksAssumption DEF TypeOK, Event
<1>1. EndStep("client")
  BY NothingHappens, Ends DEF Quit
<1>2. TypeOK'
  BY <1>0 DEF TypeOK, Quit
<1>3. ClientStep
  BY <1>0, <1>1 DEF ClientStep, Quit
<1> QED BY <1>2, <1>3

LEMMA DisconnectLoopStep ==
  ASSUME TypeOK, DisconnectLoop
  PROVE  ClientStep /\ TypeOK'
<1>1. conn["client"] \in Connection /\ faults \in Nat
      /\ <<"client", "disconnect">> \in End \X Event
      /\ <<"client", "disconnect">> \notin End \X {"silence"}
  BY Ends, TicksAssumption DEF TypeOK, Event
<1>2. CASE ClientRun(conn["client"], {})
  BY <1>1, <1>2, ClientRunStep DEF DisconnectLoop
<1>3. CASE ~ClientRun(conn["client"], {})
  <2>1. /\ phase = "leaving" /\ phase' = "idle" /\ conn' = conn /\ wire' = wire
        /\ gaveUp' \in {gaveUp, gaveUp \cup {<<"client", "disconnect">>}}
        /\ ran' = ran \cup {"client"}
        /\ UNCHANGED <<active, elapsed, faults, connects, asked>>
    BY <1>3 DEF DisconnectLoop
  <2>2. EndStep("client")
    BY <2>1, NothingHappens, Ends
  <2>3. TypeOK'
    BY <1>1, <2>1, Ends DEF TypeOK
  <2>4. ClientStep
    BY <1>1, <2>1, <2>2 DEF ClientStep
  <2> QED BY <2>3, <2>4
<1> QED BY <1>2, <1>3

\* What net_server.cc adds to a step of the slot.
ServerStep ==
  LET c == conn["server"]
      d == conn'["server"]
      waiting == {"WAITING_ACK", "CONNECTED"}
  IN
  /\ EndStep("server")
  /\ phase' = phase /\ connects' = connects /\ faults' >= faults
  /\ asked \subseteq asked' /\ gaveUp \subseteq gaveUp'
  /\ "client" \in ran' => "client" \in ran
  /\ d.state = "CONNECTING" => c.state = "CONNECTING"
  /\ active' /\ ~active => d.state = "WAITING_ACK" /\ d.due /\ "server" \notin ran'
  /\ active /\ c.state \in waiting =>
       \/ active' /\ d.state \in waiting
       \/ Coming("server", "DISCONNECT") \/ "server" \in asked'
       \/ c.state = "CONNECTED" /\ c.silent >= SilenceTicks
       \/ <<"server", "handshake">> \in gaveUp'
  /\ active' /\ d.state = "WAITING_ACK" /\ ~d.due =>
       ~d.quiet \/ (active /\ c.state = "WAITING_ACK" /\ ~c.due /\ d.quiet = c.quiet)
  /\ active' /\ d.state \in waiting /\ "server" \in ran' =>
       \/ ~d.quiet
       \/ /\ active /\ d.quiet = c.quiet
          /\ "server" \in ran \/ (c.state = "WAITING_ACK" /\ ~c.due)
  /\ \A x \in wire'["client"] : x \in wire["client"] \/ (x.kind = "ACK" => active')
  /\ \A g \in gaveUp' :
       \/ g \in gaveUp \/ g \notin End \X {"silence"}
       \/ active /\ c.state = "CONNECTED" /\ c.silent >= SilenceTicks

LEMMA ParseSYNStep ==
  ASSUME TypeOK, ParseSYN, ran' = ran \ {"server"},
         UNCHANGED <<phase, elapsed, connects, asked, gaveUp>>
  PROVE  ServerStep /\ TypeOK'
<1> DEFINE c == conn["server"]
<1>1. PICK p \in wire["server"], again \in BOOLEAN :
        LET w == Received("server", p, again) IN
        /\ p.kind = "SYN"
        /\ Repeated(again)
        /\ \/ /\ wire' = [w EXCEPT !["client"] = @ \cup {[kind |-> "REJECTED", age |-> 0]}]
              /\ active' \in {active, active /\ c.state # "DISCONNECTED"}
              /\ UNCHANGED conn
           \/ /\ conn' = [conn EXCEPT !["server"] = SlotAfterSYN]
              /\ active' = TRUE
              /\ wire' = w
  BY DEF ParseSYN
<1> DEFINE w == Received("server", p, again)
<1>2. /\ w \in [End -> SUBSET Datagram] /\ w["client"] = wire["client"]
      /\ \A x \in w["server"] : x \in wire["server"]
      /\ \A x \in wire["server"] : x \in w["server"] \/ x.kind = "SYN"
  BY <1>1, Ends DEF Received, TypeOK
<1>3. faults' \in 0 .. MaxFaults /\ faults' >= faults
  BY <1>1, TicksAssumption DEF Repeated, TypeOK
<1>4. c \in Connection /\ conn \in [End -> Connection] /\ active \in BOOLEAN
  BY Ends DEF TypeOK
<1> HIDE DEF w
<1>5. CASE /\ wire' = [w EXCEPT !["client"] = @ \cup {[kind |-> "REJECTED", age |-> 0]}]
           /\ active' \in {active, active /\ c.state # "DISCONNECTED"}
           /\ UNCHANGED conn
  <2>1. [kind |-> "REJECTED", age |-> 0] \in Datagram
    BY TicksAssumption DEF Datagram, Kind
  <2>2. /\ wire' \in [End -> SUBSET Datagram] /\ wire'["server"] = w["server"]
        /\ \A x \in wire["client"] : x \in wire'["client"]
        /\ \A x \in wire'["client"] : x \in wire["client"] \/ x.kind = "REJECTED"
    BY <1>2, <1>5, <2>1, Ends
  <2>3. EndStep("server")
    BY <1>2, <1>4, <1>5, <2>2, Ends DEF EndStep
  <2>4. ServerStep
    BY <1>1, <1>3, <1>4, <1>5, <2>2, <2>3 DEF ServerStep
  <2>5. active' \in BOOLEAN
    BY <1>4, <1>5
  <2>6. TypeOK'
    BY <1>3, <2>3, <2>5 DEF TypeOK, EndStep
  <2> QED BY <2>4, <2>6
<1>6. CASE /\ conn' = [conn EXCEPT !["server"] = SlotAfterSYN]
           /\ active' = TRUE
           /\ wire' = w
  <2> DEFINE d == SlotAfterSYN
             f == Fresh("WAITING_ACK")
  <2>1. f \in Connection /\ f.state = "WAITING_ACK" /\ f.reason = "NONE" /\ f.quiet
    BY FreshType DEF State, Fresh
  <2>2. /\ d \in Connection
        /\ d.state = "WAITING_ACK" => d.due
        /\ IF active /\ c.state # "DISCONNECTED"
           THEN /\ d.state = c.state /\ d.reason = c.reason /\ d.silent = c.silent
                /\ d.quiet = c.quiet
           ELSE d.state = "WAITING_ACK" /\ d.reason = "NONE" /\ d.quiet
    <3>1. CASE active /\ c.state # "DISCONNECTED" /\ c.state # "WAITING_ACK"
      BY <1>4, <3>1 DEF SlotAfterSYN
    <3>2. CASE active /\ c.state = "WAITING_ACK"
      <4>1. d = [c EXCEPT !.due = TRUE]
        BY <3>2 DEF SlotAfterSYN
      <4> QED BY <1>4, <3>2, <4>1 DEF Connection
    <3>3. CASE ~(active /\ c.state # "DISCONNECTED")
      <4>1. d = [f EXCEPT !.due = TRUE]
        BY <2>1, <3>3 DEF SlotAfterSYN
      <4> QED BY <2>1, <3>3, <4>1 DEF Connection
    <3> QED BY <3>1, <3>2, <3>3
  <2> HIDE DEF d, f
  <2>3. /\ conn' \in [End -> Connection] /\ conn'["server"] = d
        /\ conn'["client"] = conn["client"]
    BY <1>4, <1>6, <2>2, Ends DEF d
  <2>4. EndStep("server")
    <3>1. d.state = "CONNECTED" => c.state = "CONNECTED" /\ d.silent = c.silent
      BY <2>2
    <3>2. c.quiet => d.quiet
      BY <2>2
    <3> QED BY <1>2, <1>6, <2>2, <2>3, <3>1, <3>2, Ends DEF EndStep
  <2>5. ServerStep
    BY <1>1, <1>2, <1>3, <1>6, <2>2, <2>3, <2>4 DEF ServerStep
  <2>6. TypeOK'
    BY <1>3, <1>6, <2>4 DEF TypeOK, EndStep
  <2> QED BY <2>5, <2>6
<1> QED BY <1>1, <1>5, <1>6 DEF w

LEMMA ServerPacketStep ==
  ASSUME TypeOK, ServerPacket, ran' = ran \ {"server"},
         UNCHANGED <<phase, elapsed, connects, asked, gaveUp>>
  PROVE  ServerStep /\ TypeOK'
<1> DEFINE c == conn["server"]
<1>1. PICK p \in wire["server"], again \in BOOLEAN :
        LET r == ConnPacket(c, p.kind)
            w == Received("server", p, again)
        IN
        /\ p.kind # "SYN"
        /\ Repeated(again)
        /\ IF active
           THEN /\ conn' = [conn EXCEPT !["server"] = r.conn]
                /\ wire' = [w EXCEPT !["client"] = @ \cup {[kind |-> k, age |-> 0] : k \in r.send}]
           ELSE /\ wire' = w
                /\ UNCHANGED conn
        /\ UNCHANGED active
  BY DEF ServerPacket
<1>3. faults' \in 0 .. MaxFaults /\ faults' >= faults
  BY <1>1, TicksAssumption DEF Repeated, TypeOK
<1>4. /\ c \in Connection /\ conn \in [End -> Connection] /\ active \in BOOLEAN
      /\ active' = active
  BY <1>1, Ends DEF TypeOK
<1>5. CASE active
  <2> PICK r : r = ConnPacket(c, p.kind)
    OBVIOUS
  <2>1. EndStep("server") /\ PacketEffect(c, p.kind, r)
    BY <1>1, <1>5, Ends, PacketStep
  <2>2. conn'["server"] = r.conn
    BY <1>1, <1>4, <1>5, Ends
  <2>3. p.kind = "DISCONNECT" => Coming("server", "DISCONNECT")
    BY DEF Coming
  <2>4. ServerStep
    BY <1>1, <1>3, <1>4, <1>5, <2>1, <2>2, <2>3 DEF ServerStep, PacketEffect
  <2>5. TypeOK'
    BY <1>3, <1>4, <2>1 DEF TypeOK, EndStep
  <2> QED BY <2>4, <2>5
<1>6. CASE ~active
  <2> DEFINE w == Received("server", p, again)
  <2>1. wire' = w /\ conn' = conn
    BY <1>1, <1>6
  <2>2. /\ w \in [End -> SUBSET Datagram] /\ w["client"] = wire["client"]
        /\ \A x \in w["server"] : x \in wire["server"]
    BY Ends DEF Received, TypeOK
  <2> HIDE DEF w
  <2>3. EndStep("server")
    BY <1>4, <1>6, <2>1, <2>2, Ends DEF EndStep
  <2>4. ServerStep
    BY <1>3, <1>4, <1>6, <2>1, <2>2, <2>3 DEF ServerStep
  <2>5. TypeOK'
    BY <1>3, <1>4, <2>3 DEF TypeOK, EndStep
  <2> QED BY <2>4, <2>5
<1> QED BY <1>5, <1>6

LEMMA ServerReceiveStep ==
  ASSUME TypeOK, ServerReceive
  PROVE  ServerStep /\ TypeOK'
BY ParseSYNStep, ServerPacketStep DEF ServerReceive

LEMMA ServerRunStep ==
  ASSUME TypeOK, ServerRun
  PROVE  ServerStep /\ TypeOK'
<1> DEFINE c == conn["server"]
<1> PICK r : r = ConnRun(c)
  OBVIOUS
<1>1. /\ active /\ active' = (r.conn.state # "DISCONNECTED")
      /\ conn' = [conn EXCEPT !["server"] = r.conn]
      /\ wire' = Sent("server", {} \cup r.send)
      /\ gaveUp' = IF r.conn.state = "DISCONNECTED" THEN gaveUp \cup Abandoned("server", c)
                   ELSE gaveUp
      /\ ran' = ran \cup {"server"}
      /\ UNCHANGED <<phase, elapsed, faults, connects, asked>>
  <2>1. {} \cup r.send = r.send
    OBVIOUS
  <2> QED BY <2>1 DEF ServerRun, SlotKept
<1>2. /\ c \in Connection /\ conn \in [End -> Connection] /\ faults \in Nat
      /\ c.state \in State
  BY Ends, TicksAssumption DEF TypeOK, Connection
<1>3. EndStep("server") /\ RunEffect(c, r)
  BY <1>1, <1>2, Ends, RunStep
<1>4. /\ gaveUp' \in SUBSET (End \X Event)
      /\ gaveUp \subseteq gaveUp'
      /\ c.state = "WAITING_ACK" => r.conn.state = c.state \/ <<"server", "handshake">> \in gaveUp'
      /\ \A g \in gaveUp' :
           \/ g \in gaveUp \/ g \notin End \X {"silence"}
           \/ c.state = "CONNECTED" /\ c.silent >= SilenceTicks
  BY <1>1, <1>2, <1>3, Ends, GivingUp
<1>5. conn'["server"] = r.conn
  BY <1>1, <1>2, Ends
<1>6. \A x \in wire'["client"] : x \in wire["client"] \/ (x.kind = "ACK" => active')
  BY <1>1, <1>3, <1>5, Ends DEF EndStep, RunEffect
<1>7. ServerStep
  <2>1. /\ phase' = phase /\ connects' = connects /\ faults' >= faults
        /\ asked \subseteq asked' /\ ("client" \in ran' => "client" \in ran)
    BY <1>1, <1>2
  <2>2. active' <=> r.conn.state # "DISCONNECTED"
    BY <1>1
  <2>3. /\ r.conn.state \in {c.state, "DISCONNECTED"}
        /\ c.state = "CONNECTED" =>
             ~r.conn.quiet /\ (r.conn.state = "CONNECTED" \/ c.silent >= SilenceTicks)
        /\ c.state = "WAITING_ACK" /\ r.conn.state = "WAITING_ACK" =>
             ~r.conn.quiet \/ (~c.due /\ r.conn.quiet = c.quiet)
    BY <1>3 DEF RunEffect
  <2> QED BY <1>1, <1>3, <1>4, <1>5, <1>6, <2>1, <2>2, <2>3 DEF ServerStep
<1>8. TypeOK'
  BY <1>1, <1>3, <1>4, Ends DEF TypeOK, EndStep
<1> QED BY <1>7, <1>8

LEMMA ServerDisconnectStep ==
  ASSUME TypeOK, ServerDisconnect
  PROVE  ServerStep /\ TypeOK'
<1> DEFINE c == conn["server"]
           d == ConnDisconnect(c)
<1>0. c \in Connection /\ faults \in Nat
  BY Ends, TicksAssumption DEF TypeOK
<1>1. /\ d \in Connection /\ d.state \in {"DISCONNECTED", "DISCONNECTING", "DISCONNECTED_SLEEP"}
      /\ d = c \/ (d.state = "DISCONNECTING" /\ d.reason = "LOCAL" /\ d.quiet = c.quiet)
  BY <1>0, DisconnectResult
<1> HIDE DEF d
<1>2. /\ conn' \in [End -> Connection] /\ conn'["server"] = d
      /\ conn'["client"] = conn["client"]
  BY <1>1, Ends DEF ServerDisconnect, TypeOK, d
<1>3. /\ wire' = wire /\ asked' = asked \cup {"server"} /\ "server" \in asked' /\ active
      /\ UNCHANGED <<active, phase, elapsed, ran, faults, connects, gaveUp>>
  BY DEF ServerDisconnect
<1>4. EndStep("server")
  BY <1>0, <1>1, <1>2, <1>3, Ends DEF EndStep, TypeOK
<1>5. TypeOK'
  BY <1>2, <1>3, Ends DEF TypeOK
<1>6. ServerStep
  BY <1>0, <1>1, <1>2, <1>3, <1>4 DEF ServerStep
<1> QED BY <1>5, <1>6

-----------------------------------------------------------------------------
(* The steps of the network and the clock *)

\* A datagram is lost, or reaches a client that does not listen.
NetworkStep ==
  /\ UNCHANGED <<conn, active, phase, ran, connects, asked, gaveUp>>
  /\ \A e \in End : \A x \in wire'[e] : x \in wire[e]
  /\ \E e \in End, lost \in Datagram :
       /\ \A x \in wire[e] : x \in wire'[e] \/ x = lost
       /\ \A x \in wire[Other(e)] : x \in wire'[Other(e)]
       /\ faults' = faults + 1 \/ (faults' = faults /\ e = "client" /\ phase = "idle")

LEMMA NetworkSteps ==
  ASSUME TypeOK, Lose \/ Ignored
  PROVE  NetworkStep /\ TypeOK'
<1>1. PICK e \in End : \E lost \in wire[e] :
        /\ wire' = [wire EXCEPT ![e] = @ \ {lost}]
        /\ \/ faults < MaxFaults /\ faults' = faults + 1
           \/ faults' = faults /\ e = "client" /\ phase = "idle"
        /\ UNCHANGED <<conn, active, phase, elapsed, ran, connects, asked, gaveUp>>
  BY Ends DEF Lose, Ignored
<1> PICK lost \in wire[e] :
        /\ wire' = [wire EXCEPT ![e] = @ \ {lost}]
        /\ \/ faults < MaxFaults /\ faults' = faults + 1
           \/ faults' = faults /\ e = "client" /\ phase = "idle"
        /\ UNCHANGED <<conn, active, phase, elapsed, ran, connects, asked, gaveUp>>
  BY <1>1
<1>2. /\ wire \in [End -> SUBSET Datagram] /\ faults \in 0 .. MaxFaults
      /\ MaxFaults \in Nat
  BY TicksAssumption DEF TypeOK
<1>3. /\ wire' \in [End -> SUBSET Datagram]
      /\ \A f \in End : \A x \in wire'[f] : x \in wire[f]
      /\ \A x \in wire[e] : x \in wire'[e] \/ x = lost
      /\ wire'[Other(e)] = wire[Other(e)]
  BY <1>1, <1>2, Ends
<1>4. faults' \in 0 .. MaxFaults
  BY <1>1, <1>2
<1>5. TypeOK'
  BY <1>1, <1>3, <1>4 DEF TypeOK
<1>6. lost \in Datagram
  BY <1>2
<1>7. NetworkStep
  BY <1>1, <1>3, <1>6 DEF NetworkStep
<1> QED BY <1>5, <1>7

\* Time passes: everybody has run, everything under way is a tick older.
TickStep ==
  /\ phase # "idle" => "client" \in ran
  /\ active => "server" \in ran
  /\ UNCHANGED <<active, phase, faults, connects, asked, gaveUp>>
  /\ ran' = {}
  /\ \A e \in End :
       /\ conn'[e].state = conn[e].state /\ conn'[e].reason = conn[e].reason
       /\ conn'[e].due /\ conn'[e].quiet
       /\ conn'[e].silent = Capped(conn[e].silent, SilenceTicks)
       /\ \A x \in wire'[e] : \E y \in wire[e] : x.kind = y.kind /\ x.age = y.age + 1
       /\ \A y \in wire[e] : \E x \in wire'[e] : x.kind = y.kind /\ x.age = y.age + 1

LEMMA CappedType ==
  ASSUME NEW n \in Nat, NEW limit \in Nat, n <= limit
  PROVE  /\ Capped(n, limit) \in 0 .. limit
         /\ Capped(n, limit) <= n + 1
BY DEF Capped

LEMMA TickSteps ==
  ASSUME TypeOK, Tick
  PROVE  TickStep /\ TypeOK'
<1>0. /\ SilenceTicks \in Nat /\ SleepTicks \in Nat /\ LoopTicks \in Nat /\ MaxDelay \in Nat
      /\ conn \in [End -> Connection] /\ wire \in [End -> SUBSET Datagram]
      /\ elapsed \in 0 .. LoopTicks
  BY TicksAssumption DEF TypeOK
<1>1. ASSUME NEW c \in Connection
      PROVE  /\ Later(c) \in Connection
             /\ Later(c).state = c.state /\ Later(c).reason = c.reason
             /\ Later(c).due /\ Later(c).quiet
             /\ Later(c).silent = Capped(c.silent, SilenceTicks)
  <2>1. c.silent \in 0 .. SilenceTicks /\ c.idle \in 0 .. SleepTicks
    BY DEF Connection
  <2>2. /\ Capped(c.silent, SilenceTicks) \in 0 .. SilenceTicks
        /\ Capped(c.idle, SleepTicks) \in 0 .. SleepTicks /\ 0 \in 0 .. SleepTicks
    BY <1>0, <2>1 DEF Capped
  <2> QED BY <2>2 DEF Later, Connection
<1>2. /\ conn' \in [End -> Connection]
      /\ \A e \in End : conn'[e] = Later(conn[e])
  BY <1>0, <1>1 DEF Tick
<1>3. ASSUME NEW e \in End
      PROVE  /\ wire'[e] \in SUBSET Datagram
             /\ \A x \in wire'[e] : \E y \in wire[e] : x.kind = y.kind /\ x.age = y.age + 1
             /\ \A y \in wire[e] : \E x \in wire'[e] : x.kind = y.kind /\ x.age = y.age + 1
  <2>1. wire'[e] = {[d EXCEPT !.age = @ + 1] : d \in wire[e]}
    BY DEF Tick
  <2>2. ASSUME NEW d \in wire[e]
        PROVE  LET x == [d EXCEPT !.age = @ + 1] IN
               x \in Datagram /\ x.kind = d.kind /\ x.age = d.age + 1
    <3>1. d.age < MaxDelay /\ d \in Datagram
      BY <1>0 DEF Tick
    <3>2. d.age + 1 \in 0 .. MaxDelay
      BY <1>0, <3>1 DEF Datagram
    <3> QED BY <3>1, <3>2 DEF Datagram
  <2> QED BY <2>1, <2>2
<1>4. wire' \in [End -> SUBSET Datagram]
  <2>1. wire' = [e \in End |-> wire'[e]]
    BY DEF Tick
  <2> QED BY <1>3, <2>1
<1>5. elapsed' \in 0 .. LoopTicks
  BY <1>0, CappedType DEF Tick
<1>6. TypeOK'
  BY <1>2, <1>4, <1>5 DEF TypeOK, Tick
<1>7. TickStep
  BY <1>0, <1>1, <1>2, <1>3 DEF TickStep, Tick
<1> QED BY <1>6, <1>7

LEMMA EveryStep ==
  ASSUME TypeOK, Next
  PROVE  /\ TypeOK'
         /\ ClientStep \/ ServerStep \/ NetworkStep \/ TickStep
BY ClientConnectStep, ClientReceiveStep, ConnectLoopStep, PlayLoopStep,
   ClientDisconnectStep, DisconnectLoopStep, QuitStep, ServerReceiveStep, ServerRunStep,
   ServerDisconnectStep, NetworkSteps, TickSteps
   DEF Next

LEMMA InitType ==
  ASSUME Init
  PROVE  TypeOK
<1>1. Fresh("DISCONNECTED") \in Connection
  BY FreshType DEF State
<1>2. 0 \in 0 .. LoopTicks /\ 0 \in 0 .. MaxFaults /\ 0 \in 0 .. MaxConnects
  BY TicksAssumption
<1>3. conn \in [End -> Connection] /\ wire \in [End -> SUBSET Datagram]
  BY <1>1 DEF Init
<1> QED BY <1>2, <1>3 DEF Init, TypeOK

LEMMA StutterType ==
  ASSUME TypeOK, UNCHANGED vars
  PROVE  TypeOK'
BY DEF TypeOK, vars

\* The variables keep to their types: no counter of retries, silence or sleep
\* leaves the range the code gives it (net_common.cc).
THEOREM ConnectionsTyped == Spec => []TypeOK
<1>1. TypeOK /\ [Next]_vars => TypeOK'
  BY EveryStep, StutterType
<1> QED BY <1>1, InitType, PTL DEF Spec

-----------------------------------------------------------------------------
(* Who is to blame *)

\* Whoever was not asked, or asked already, before a step of the other end.
LEMMA ReasonByEnd ==
  ASSUME TypeOK, ReasonInv, NEW e \in End, EndStep(e), asked \subseteq asked',
         e = "server" => (conn'[e].state = "CONNECTING" => conn[e].state = "CONNECTING")
  PROVE  ReasonInv'
<1> DEFINE o == Other(e)
<1>0. /\ e \in End /\ o \in End /\ o # e /\ Other(o) = e
      /\ \A f \in End : f = e \/ f = o
      /\ (e = "client" /\ o = "server") \/ (e = "server" /\ o = "client")
  BY Ends
<1>1. conn'[o] = conn[o]
  BY DEF EndStep
<1>2. /\ conn'[e].state = "DISCONNECTED_SLEEP" => o \in asked'
      /\ conn'[e].state = "DISCONNECTING" => e \in asked'
      /\ conn'[e].reason = "LOCAL" => e \in asked'
      /\ conn'[e].reason = "REMOTE" /\ e = "server" => o \in asked'
  BY <1>0 DEF EndStep, ReasonInv, ReasonTruth
<1>3. /\ conn[o].state = "DISCONNECTED_SLEEP" => e \in asked
      /\ conn[o].state = "DISCONNECTING" => o \in asked
      /\ conn[o].reason = "LOCAL" => o \in asked
      /\ conn[o].reason = "REMOTE" /\ o = "server" => e \in asked
  BY <1>0 DEF ReasonInv, ReasonTruth
<1>4. ASSUME NEW x \in wire'[e], x.kind = "DISCONNECT"
      PROVE  o \in asked'
  BY <1>0, <1>4 DEF EndStep, ReasonInv, Coming
<1>5. ASSUME NEW x \in wire'[o], x.kind = "DISCONNECT"
      PROVE  e \in asked'
  BY <1>0, <1>5 DEF EndStep, ReasonInv, Coming
<1>6. conn'["server"].state # "CONNECTING"
  BY <1>0, <1>1 DEF ReasonInv
<1> QED BY <1>0, <1>1, <1>2, <1>3, <1>4, <1>5, <1>6 DEF ReasonInv, ReasonTruth, Coming

LEMMA ReasonStep ==
  ASSUME TypeOK, ReasonInv, [Next]_vars
  PROVE  ReasonInv'
<1>1. CASE ClientStep
  BY <1>1, Ends, ReasonByEnd DEF ClientStep
<1>2. CASE ServerStep
  BY <1>2, Ends, ReasonByEnd DEF ServerStep
<1>3. CASE NetworkStep
  <2>1. \A e \in End : \A k : Coming(e, k)' => Coming(e, k)
    BY <1>3 DEF NetworkStep, Coming
  <2> QED BY <1>3, <2>1 DEF NetworkStep, ReasonInv, ReasonTruth
<1>4. CASE TickStep
  <2>1. \A e \in End : \A k : Coming(e, k)' => Coming(e, k)
    BY <1>4 DEF TickStep, Coming
  <2>2. /\ asked' = asked
        /\ \A e \in End : conn'[e].state = conn[e].state /\ conn'[e].reason = conn[e].reason
    BY <1>4 DEF TickStep
  <2> QED BY <2>1, <2>2, Ends DEF ReasonInv, ReasonTruth
<1>5. CASE UNCHANGED vars
  BY <1>5 DEF vars, ReasonInv, ReasonTruth, Coming
<1> QED BY <1>1, <1>2, <1>3, <1>4, <1>5, EveryStep

\* disconnect_reason blames the right end, however the requests cross on the
\* wire and whatever is lost or repeated: REMOTE only when the other program
\* asked to disconnect, LOCAL only when this one did (net_common.cc).
THEOREM Blame == Spec => []ReasonTruth
<1>1. Init => ReasonInv
  BY Ends DEF Init, ReasonInv, ReasonTruth, Coming, Fresh
<1>2. TypeOK /\ ReasonInv /\ [Next]_vars => ReasonInv'
  BY ReasonStep
<1>3. ReasonInv => ReasonTruth
  BY DEF ReasonInv
<1> QED BY <1>1, <1>2, <1>3, ConnectionsTyped, PTL DEF Spec

-----------------------------------------------------------------------------
(* The order of the handshake *)

LEMMA OrderStep ==
  ASSUME TypeOK, OrderInv, [Next]_vars, MaxConnects <= 1
  PROVE  OrderInv'
<1>0. connects \in Nat /\ MaxConnects \in Nat
  BY TicksAssumption DEF TypeOK
<1>1. CASE ClientStep
  <2>1. /\ EndStep("client") /\ conn'["server"] = conn["server"]
        /\ conn'["client"].state # "WAITING_ACK"
    BY <1>1, Ends DEF ClientStep, EndStep, OrderInv
  <2>2. ASSUME connects' = 0 \/ conn'["client"].state = "CONNECTING"
        PROVE  connects = 0 \/ conn["client"].state = "CONNECTING"
    BY <1>0, <1>1, <2>2 DEF ClientStep
  <2>3. ASSUME connects' = 0 \/ conn'["client"].state = "CONNECTING",
               NEW x \in wire'["server"], x.kind = "ACK"
        PROVE  FALSE
    <3>1. conn["client"].state # "WAITING_ACK" /\ x \notin wire["server"]
      BY <2>2, <2>3 DEF OrderInv, Coming
    <3>2. conn["client"].state = "CONNECTING" /\ conn'["client"].state = "CONNECTED"
      BY <2>1, <2>3, <3>1, Ends DEF EndStep
    <3>3. connects' = 0 /\ connects = 0
      BY <1>0, <1>1, <2>3, <3>2 DEF ClientStep
    <3> QED BY <3>2, <3>3 DEF OrderInv
  <2>4. connects' = 0 => conn'["client"].state # "CONNECTING"
    BY <1>0, <1>1 DEF ClientStep, OrderInv
  <2> QED BY <2>1, <2>2, <2>3, <2>4 DEF OrderInv, Coming
<1>2. CASE ServerStep
  <2>1. /\ EndStep("server") /\ conn'["client"] = conn["client"] /\ connects' = connects
        /\ conn'["server"].state # "CONNECTING"
    BY <1>2, Ends DEF ServerStep, EndStep, OrderInv
  <2>2. \A x \in wire'["server"] : x \in wire["server"]
    BY <2>1 DEF EndStep
  <2>3. conn'["server"].state = "CONNECTED" =>
          conn["server"].state = "CONNECTED" \/ Coming("server", "ACK")
    BY <2>1 DEF EndStep
  <2> QED BY <2>1, <2>2, <2>3 DEF OrderInv, Coming
<1>3. CASE NetworkStep
  <2>1. \A k : Coming("server", k)' => Coming("server", k)
    BY <1>3, Ends DEF NetworkStep, Coming
  <2> QED BY <1>3, <2>1 DEF NetworkStep, OrderInv
<1>4. CASE TickStep
  <2>1. \A k : Coming("server", k)' => Coming("server", k)
    BY <1>4, Ends DEF TickStep, Coming
  <2>2. connects' = connects /\ \A e \in End : conn'[e].state = conn[e].state
    BY <1>4 DEF TickStep
  <2> QED BY <2>1, <2>2, Ends DEF OrderInv
<1>5. CASE UNCHANGED vars
  BY <1>5 DEF vars, OrderInv, Coming
<1> QED BY <1>1, <1>2, <1>3, <1>4, <1>5, EveryStep

\* A client that connects once (a program connects when it starts, and a
\* second connection after Quit meets the slot of the first): the server
\* takes it for connected only after it has taken the server for connected,
\* however old the packets are (NET_Conn_ParseACK).
THEOREM HandshakeInOrder ==
  ASSUME MaxConnects <= 1
  PROVE  Spec => []HandshakeOrder
<1>1. Init => OrderInv
  BY Ends DEF Init, OrderInv, Coming, Fresh
<1>2. TypeOK /\ OrderInv /\ [Next]_vars => OrderInv'
  BY OrderStep
<1>3. OrderInv => HandshakeOrder
  BY DEF OrderInv, HandshakeOrder
<1> QED BY <1>1, <1>2, <1>3, ConnectionsTyped, PTL DEF Spec

-----------------------------------------------------------------------------
(* Silence is counted *)

LEMMA MissingFinite ==
  ASSUME TypeOK, NEW e \in End
  PROVE  /\ IsFiniteSet(Missing(e)) /\ Cardinality(Missing(e)) \in Nat
         /\ conn[e].silent \in Nat /\ faults \in Nat /\ Missing(e) \subseteq Nat
<1>1. conn[e].silent \in 0 .. SilenceTicks /\ SilenceTicks \in Nat /\ MaxFaults \in Nat
  BY TicksAssumption DEF TypeOK, Connection
<1>2. conn[e].silent - 1 \in Int /\ conn[e].silent \in Nat /\ faults \in Nat
  BY <1>1 DEF TypeOK
<1>3. IsFiniteSet(0 .. conn[e].silent - 1)
  BY <1>2, FS_Interval
<1>4. Missing(e) \in SUBSET (0 .. conn[e].silent - 1)
  BY DEF Missing
<1>5. IsFiniteSet(Missing(e))
  BY <1>3, <1>4, FS_Subset
<1>6. Missing(e) \subseteq Nat
  BY <1>2, <1>4
<1> QED BY <1>2, <1>5, <1>6, FS_CardinalityType

\* A silence as long as the timeout takes more faults than there were: only
\* the last MaxDelay ticks may still be under way.
LEMMA SilenceShort ==
  ASSUME TypeOK, Calm, NEW e \in End, Cardinality(Missing(e)) <= faults
  PROVE  ~(conn[e].silent >= SilenceTicks)
<1> SUFFICES ASSUME conn[e].silent >= SilenceTicks PROVE FALSE
  OBVIOUS
<1>1. /\ conn[e].silent \in 0 .. SilenceTicks /\ SilenceTicks \in Nat /\ MaxDelay \in Nat
      /\ wire \in [End -> SUBSET Datagram]
  BY TicksAssumption DEF TypeOK, Connection
<1>2. /\ IsFiniteSet(Missing(e)) /\ Cardinality(Missing(e)) \in Nat /\ faults \in Nat
  BY MissingFinite
<1> DEFINE old == MaxDelay + 1 .. SilenceTicks - 1
<1>3. \A d \in wire[e] : d.age \in 0 .. MaxDelay
  BY <1>1 DEF Datagram
<1>4. \A a \in old : a \in 0 .. conn[e].silent - 1 /\ a # 0 /\ a > MaxDelay
  BY <1>1
<1>5. old \in SUBSET Missing(e)
  <2> SUFFICES ASSUME NEW a \in old PROVE a \in Missing(e)
    OBVIOUS
  <2>1. a \in 0 .. conn[e].silent - 1 /\ a # 0 /\ a > MaxDelay /\ a \in Int
    BY <1>4
  <2>2. \A d \in wire[e] : d.age # a
    BY <1>1, <1>3, <2>1
  <2> QED BY <2>1, <2>2 DEF Missing
<1>6. Cardinality(old) <= Cardinality(Missing(e))
  BY <1>2, <1>5, FS_Subset
<1>7. faults + MaxDelay < SilenceTicks - 1
  BY DEF Calm
<1>8. Cardinality(old) = SilenceTicks - 1 - MaxDelay
  <2>1. MaxDelay + 1 \in Int /\ SilenceTicks - 1 \in Int /\ ~(MaxDelay + 1 > SilenceTicks - 1)
    BY <1>1, <1>2, <1>7
  <2>2. Cardinality(old) = (SilenceTicks - 1) - (MaxDelay + 1) + 1
    BY <2>1, FS_Interval
  <2> QED BY <1>1, <2>2
<1> HIDE DEF old
<1> QED BY <1>1, <1>2, <1>6, <1>7, <1>8

\* No tick more is missing than before.
LEMMA NoMoreMissing ==
  ASSUME TypeOK, TypeOK', NEW e \in End, \A a \in Missing(e)' : a \in Missing(e),
         Cardinality(Missing(e)) <= faults, faults' >= faults
  PROVE  Cardinality(Missing(e)') <= faults'
<1>1. PICK S, T : S = Missing(e) /\ T = Missing(e)'
  OBVIOUS
<1>2. IsFiniteSet(S) /\ Cardinality(S) \in Nat /\ faults \in Nat
  BY <1>1, MissingFinite
<1>3. T \in SUBSET S
  BY <1>1
<1>4. IsFiniteSet(T) /\ Cardinality(T) <= Cardinality(S)
  BY <1>2, <1>3, FS_Subset
<1>5. Cardinality(T) \in Nat
  BY <1>4, FS_CardinalityType
<1>6. faults' \in Nat
  BY TicksAssumption DEF TypeOK
<1>7. Cardinality(T) <= faults'
  BY <1>1, <1>2, <1>4, <1>5, <1>6
<1> QED BY <1>1, <1>7

\* The step of an end whose silence is counted: it heard something, or
\* nothing that it could have heard is gone.
LEMMA MissingAtStep ==
  ASSUME TypeOK, TypeOK', NEW e \in End, EndStep(e), Hears(e)',
         e = "server" => active, SynInv, MissInv, faults' >= faults
  PROVE  Cardinality(Missing(e)') <= faults'
<1>1. /\ conn'[e].silent \in Nat /\ faults' \in Nat /\ conn[e].silent \in Nat
      /\ wire \in [End -> SUBSET Datagram] /\ Other(e) \in End
  BY Ends, TicksAssumption DEF TypeOK, Connection
<1>2. CASE conn'[e].silent = 0
  <2>1. Missing(e)' = {}
    BY <1>2 DEF Missing
  <2>2. Cardinality(Missing(e)') = 0
    BY <2>1, FS_EmptySet
  <2> QED BY <1>1, <2>2
<1>3. CASE conn'[e].silent # 0
  <2>1. /\ conn[e].state = "CONNECTED" /\ conn'[e].silent = conn[e].silent
        /\ \A x \in wire[e] : x \in wire'[e] \/ (e = "server" /\ x.kind = "SYN")
        /\ conn'[Other(e)] = conn[Other(e)]
    BY <1>3 DEF EndStep, Hears
  <2>2. Hears(e)
    BY <2>1 DEF Hears
  <2>3. Cardinality(Missing(e)) <= faults
    BY <2>2 DEF MissInv
  <2>4. ASSUME NEW a \in Missing(e)'
        PROVE  a \in Missing(e)
    <3>1. /\ a \in 0 .. conn[e].silent - 1 /\ (a = 0 => ~conn[Other(e)].quiet)
          /\ \A d \in wire'[e] : d.age # a
      BY <2>1, <2>4 DEF Missing
    <3>2. ASSUME NEW d \in wire[e], d.age = a
          PROVE  FALSE
      <4>1. d \in Datagram /\ d.age \in Int
        BY <1>1, TicksAssumption DEF Datagram
      <4>2. e = "server" /\ d.kind = "SYN"
        BY <2>1, <3>1, <3>2
      <4>3. d.age >= conn["server"].silent
        BY <2>2, <4>2 DEF SynInv
      <4> QED BY <1>1, <3>1, <3>2, <4>1, <4>2, <4>3
    <3> QED BY <3>1, <3>2 DEF Missing
  <2> QED BY <2>3, <2>4, NoMoreMissing
<1> QED BY <1>2, <1>3

\* The step of the other end: it has sent nothing yet in this tick, or what
\* it sent is under way.
LEMMA MissingAtOther ==
  ASSUME TypeOK, TypeOK', NEW e \in End, EndStep(Other(e)), Hears(e),
         MissInv, faults' >= faults
  PROVE  Cardinality(Missing(e)') <= faults'
<1> DEFINE o == Other(e)
<1>1. o \in End /\ Other(o) = e
  BY Ends
<1>2. /\ conn'[e] = conn[e]
      /\ \A x \in wire[e] : x \in wire'[e]
      /\ conn[o].quiet /\ ~conn'[o].quiet => \E x \in wire'[e] : x.age = 0
  BY <1>1 DEF EndStep
<1>3. ASSUME NEW a \in Missing(e)'
      PROVE  a \in Missing(e)
  <2>1. /\ a \in 0 .. conn[e].silent - 1 /\ (a = 0 => ~conn'[o].quiet)
        /\ \A d \in wire'[e] : d.age # a
    BY <1>2, <1>3 DEF Missing
  <2> QED BY <1>2, <2>1 DEF Missing
<1> QED BY <1>3, NoMoreMissing DEF MissInv

\* A fault of the network makes one tick more missing at most.
LEMMA MissingAtLoss ==
  ASSUME TypeOK, TypeOK', NetworkStep, LinkInv, MissInv
  PROVE  MissInv'
<1> SUFFICES ASSUME NEW f \in End, Hears(f)'
             PROVE  Cardinality(Missing(f)') <= faults'
  BY DEF MissInv
<1>1. PICK e \in End, lost \in Datagram :
        /\ \A x \in wire[e] : x \in wire'[e] \/ x = lost
        /\ \A x \in wire[Other(e)] : x \in wire'[Other(e)]
        /\ faults' = faults + 1 \/ (faults' = faults /\ e = "client" /\ phase = "idle")
  BY DEF NetworkStep
<1>2. /\ conn' = conn /\ Hears(f) /\ Cardinality(Missing(f)) <= faults
      /\ conn[f].silent \in Nat /\ faults \in Nat /\ IsFiniteSet(Missing(f))
  BY MissingFinite DEF NetworkStep, Hears, MissInv
<1>3. CASE f # e
  <2>1. \A x \in wire[f] : x \in wire'[f]
    BY <1>1, <1>3, Ends
  <2>2. \A a \in Missing(f)' : a \in Missing(f)
    BY <1>2, <2>1 DEF Missing
  <2>3. faults' >= faults
    BY <1>1, <1>2
  <2> QED BY <1>2, <2>2, <2>3, NoMoreMissing
<1>4. CASE f = e
  <2>1. faults' = faults + 1
    BY <1>1, <1>2, <1>4 DEF LinkInv, Hears
  <2>2. PICK S, T : S = Missing(f) /\ T = Missing(f)'
    OBVIOUS
  <2>3. T \in SUBSET (S \cup {lost.age})
    <3> SUFFICES ASSUME NEW a \in T, a # lost.age PROVE a \in S
      OBVIOUS
    <3>1. /\ a \in 0 .. conn[f].silent - 1 /\ (a = 0 => ~conn[Other(f)].quiet)
          /\ \A d \in wire'[f] : d.age # a
      BY <1>2, <2>2 DEF Missing
    <3>2. \A d \in wire[f] : d.age # a
      BY <1>1, <1>4, <3>1
    <3> QED BY <2>2, <3>1, <3>2 DEF Missing
  <2>4. IsFiniteSet(S) /\ Cardinality(S) \in Nat
    BY <1>2, <2>2, MissingFinite
  <2>5. IsFiniteSet(S \cup {lost.age}) /\ Cardinality(S \cup {lost.age}) <= Cardinality(S) + 1
    BY <2>4, FS_AddElement
  <2>6. IsFiniteSet(T) /\ Cardinality(T) <= Cardinality(S \cup {lost.age})
    BY <2>3, <2>5, FS_Subset
  <2>7. Cardinality(T) \in Nat /\ Cardinality(S \cup {lost.age}) \in Nat
    BY <2>5, <2>6, FS_CardinalityType
  <2>8. Cardinality(T) <= faults'
    BY <1>2, <2>1, <2>2, <2>4, <2>5, <2>6, <2>7
  <2> QED BY <2>2, <2>8
<1> QED BY <1>3, <1>4

\* A tick of the clock: what is missing is a tick older, and the tick that
\* begins is not missing yet.
LEMMA MissingAtTick ==
  ASSUME TypeOK, TypeOK', TickStep, LinkInv, BeatInv, MissInv
  PROVE  MissInv'
<1> SUFFICES ASSUME NEW e \in End, Hears(e)'
             PROVE  Cardinality(Missing(e)') <= faults'
  BY DEF MissInv
<1> DEFINE o == Other(e)
<1>1. /\ conn[e].silent \in 0 .. SilenceTicks /\ SilenceTicks \in Nat /\ faults \in Nat
      /\ wire \in [End -> SUBSET Datagram] /\ wire' \in [End -> SUBSET Datagram]
      /\ o \in End
  BY Ends, TicksAssumption DEF TypeOK, Connection
<1>2. /\ Hears(e) /\ faults' = faults
      /\ conn'[o].quiet
      /\ conn'[e].silent = Capped(conn[e].silent, SilenceTicks)
      /\ \A y \in wire[e] : \E x \in wire'[e] : x.kind = y.kind /\ x.age = y.age + 1
  BY <1>1 DEF TickStep, Hears
<1>3. ~conn[o].quiet
  <2>1. conn["client"].state = "CONNECTED" /\ active /\ phase # "idle"
    BY <1>2, Ends DEF LinkInv, Hears
  <2>2. "client" \in ran /\ "server" \in ran
    BY <2>1 DEF TickStep
  <2> QED BY <2>1, <2>2, Ends DEF BeatInv
<1>4. ASSUME NEW a \in Missing(e)'
      PROVE  a - 1 \in Missing(e)
  <2>1. a \in 0 .. conn'[e].silent - 1 /\ a # 0 /\ \A d \in wire'[e] : d.age # a
    BY <1>2 DEF Missing
  <2>2. conn'[e].silent <= conn[e].silent + 1 /\ conn'[e].silent \in Nat
    BY <1>1, <1>2 DEF Capped
  <2>3. a - 1 \in 0 .. conn[e].silent - 1 /\ a \in Int
    BY <1>1, <2>1, <2>2
  <2>4. \A y \in wire[e] : y.age # a - 1
    <3> SUFFICES ASSUME NEW y \in wire[e], y.age = a - 1 PROVE FALSE
      OBVIOUS
    <3>1. PICK x \in wire'[e] : x.age = y.age + 1
      BY <1>2
    <3> QED BY <2>1, <2>3, <3>1
  <2> QED BY <1>3, <2>3, <2>4 DEF Missing
<1>5. PICK S, T : S = Missing(e) /\ T = Missing(e)'
  OBVIOUS
<1>6. /\ IsFiniteSet(S) /\ Cardinality(S) \in Nat /\ Cardinality(S) <= faults
      /\ S \subseteq Nat /\ \A a \in T : a - 1 \in S /\ a \in Int
  <2>1. Missing(e)' \subseteq Nat
    BY MissingFinite, <1>1 DEF Missing
  <2> QED BY <1>2, <1>4, <1>5, <2>1, MissingFinite DEF MissInv
<1>7. [a \in T |-> a - 1] \in Injection(T, S)
  <2> DEFINE f == [a \in T |-> a - 1]
  <2>1. f \in [T -> S]
    BY <1>6
  <2>2. ASSUME NEW a \in T, NEW b \in T, f[a] = f[b]
        PROVE  a = b
    BY <1>6, <2>2
  <2> HIDE DEF f
  <2>3. f \in Injection(T, S)
    BY <2>1, <2>2 DEF Injection, IsInjective
  <2> QED BY <2>3 DEF f
<1>8. IsFiniteSet(T) /\ Cardinality(T) <= Cardinality(S)
  BY <1>6, <1>7, FS_Injection
<1>9. Cardinality(T) \in Nat
  BY <1>8, FS_CardinalityType
<1> QED BY <1>1, <1>2, <1>5, <1>6, <1>8, <1>9

-----------------------------------------------------------------------------
(* Nobody falls silent *)

\* What CalmInv says before a step after which the premise still holds.
LEMMA CalmBefore ==
  ASSUME TypeOK, TypeOK', ReasonInv, CalmInv, Calm', faults' >= faults,
         asked \subseteq asked', gaveUp \subseteq gaveUp'
  PROVE  /\ Calm /\ gaveUp = {} /\ asked' = {}
         /\ LinkInv /\ BeatInv /\ SynInv /\ MissInv
         /\ \A e \in End : ~Coming(e, "DISCONNECT")
         /\ \A e \in End : Hears(e) => ~(conn[e].silent >= SilenceTicks)
<1>1. faults \in Int /\ faults' \in Int /\ MaxDelay \in Int /\ SilenceTicks \in Int
  BY TicksAssumption DEF TypeOK
<1>2. Calm
  <2>1. faults' + MaxDelay < SilenceTicks - 1
    BY DEF Calm
  <2>3. faults + MaxDelay < SilenceTicks - 1
    <3>1. \A m, n, b, s \in Int : n >= m /\ n + b < s - 1 => m + b < s - 1
      OBVIOUS
    <3> QED BY <1>1, <2>1, <3>1
  <2>2. asked = {} /\ gaveUp \subseteq End \X {"silence"}
    BY DEF Calm
  <2> QED BY <2>2, <2>3 DEF Calm
<1>3. gaveUp = {} /\ LinkInv /\ BeatInv /\ SynInv /\ MissInv
  BY <1>2 DEF CalmInv
<1>4. asked' = {} /\ asked = {}
  BY DEF Calm
<1>5. \A e \in End : ~Coming(e, "DISCONNECT")
  BY <1>4 DEF ReasonInv
<1>6. \A e \in End : Hears(e) => ~(conn[e].silent >= SilenceTicks)
  BY <1>2, <1>3, SilenceShort DEF MissInv
<1> QED BY <1>2, <1>3, <1>4, <1>5, <1>6

LEMMA CalmClient ==
  ASSUME TypeOK, TypeOK', ReasonInv, CalmInv, ClientStep
  PROVE  CalmInv'
<1> SUFFICES ASSUME Calm'
             PROVE  gaveUp' = {} /\ LinkInv' /\ BeatInv' /\ SynInv' /\ MissInv'
  BY DEF CalmInv
<1> DEFINE c == conn["client"]
           d == conn'["client"]
           s == conn["server"]
<1>1. /\ EndStep("client") /\ active' = active /\ faults' >= faults
      /\ asked \subseteq asked' /\ gaveUp \subseteq gaveUp'
      /\ conn'["server"] = s
      /\ \A x \in wire'["client"] : x \in wire["client"]
  BY Ends DEF ClientStep, EndStep
<1>2. /\ Calm /\ gaveUp = {} /\ asked' = {}
      /\ LinkInv /\ BeatInv /\ SynInv /\ MissInv
      /\ ~Coming("client", "DISCONNECT")
      /\ Hears("client") => ~(c.silent >= SilenceTicks)
  BY <1>1, CalmBefore, Ends
<1>3. c.state = "CONNECTED" => Hears("client")
  BY DEF Hears
<1>4. gaveUp' = {}
  <2>1. \A g \in gaveUp' : g \in End \X {"silence"}
    BY DEF Calm
  <2>2. \A g \in gaveUp' :
          g \notin End \X {"silence"} \/ (c.state = "CONNECTED" /\ c.silent >= SilenceTicks)
    BY <1>2 DEF ClientStep
  <2> QED BY <1>2, <1>3, <2>1, <2>2
<1>5. c.state = "CONNECTED" => d.state = "CONNECTED"
  <2>1. c.state = "CONNECTED" => phase # "idle"
    BY <1>2 DEF LinkInv
  <2> QED BY <1>2, <1>3, <2>1 DEF ClientStep
<1>6. d.state = "CONNECTED" => active
  <2>1. d.state = "CONNECTED" => c.state = "CONNECTED" \/ Coming("client", "ACK")
    BY <1>1 DEF EndStep
  <2> QED BY <1>2, <2>1 DEF LinkInv
<1>7. d.state = "CONNECTED" => phase' \in {"connecting", "playing"}
  BY <1>2, <1>4 DEF ClientStep, LinkInv
<1>8. Hears("server")' => Hears("server") /\ c.state = "CONNECTED"
  <2>1. Hears("server")' => Hears("server")
    BY <1>1 DEF Hears
  <2> QED BY <1>2, <2>1 DEF LinkInv
<1>9. ASSUME NEW x \in wire'["server"]
      PROVE  /\ x.kind = "ACK" => d.state = "CONNECTED"
             /\ x.kind = "SYN" => x \in wire["server"] \/ c.state = "CONNECTING"
  <2>1. CASE x \in wire["server"]
    BY <1>2, <1>5, <2>1 DEF LinkInv, Coming
  <2>2. CASE x \notin wire["server"]
    <3>1. c.state # "WAITING_ACK"
      BY <1>2 DEF LinkInv
    <3> QED BY <1>1, <2>2, <3>1, Ends DEF EndStep
  <2> QED BY <2>1, <2>2
<1>10. LinkInv'
  <2>1. active' => conn'["server"].state \in {"WAITING_ACK", "CONNECTED"}
    BY <1>1, <1>2 DEF LinkInv
  <2>2. Coming("server", "ACK")' \/ Hears("server")' => d.state = "CONNECTED"
    BY <1>5, <1>8, <1>9 DEF Coming
  <2>3. Coming("client", "ACK")' => active'
    BY <1>1, <1>2 DEF LinkInv, Coming
  <2>4. phase' # "leaving"
    BY <1>2 DEF ClientStep, LinkInv
  <2>5. d.state # "WAITING_ACK"
    BY <1>2 DEF ClientStep, LinkInv
  <2> QED BY <1>1, <1>6, <1>7, <2>1, <2>2, <2>3, <2>4, <2>5 DEF LinkInv
<1>11. BeatInv'
  <2>1. active' /\ "server" \in ran' => ~s.quiet
    BY <1>1, <1>2 DEF ClientStep, BeatInv
  <2>2. d.state = "CONNECTED" /\ "client" \in ran' => ~d.quiet
    BY <1>2 DEF ClientStep, BeatInv, LinkInv
  <2>3. active' /\ s.state = "WAITING_ACK" /\ ~s.due => ~s.quiet
    BY <1>1, <1>2 DEF BeatInv
  <2> QED BY <1>1, <2>1, <2>2, <2>3 DEF BeatInv
<1>12. SynInv'
  BY <1>1, <1>2, <1>8, <1>9 DEF SynInv
<1>13. MissInv'
  <2>1. Hears("client")' => Cardinality(Missing("client")') <= faults'
    BY <1>1, <1>2, MissingAtStep, Ends
  <2>2. Hears("server")' => Cardinality(Missing("server")') <= faults'
    <3> SUFFICES ASSUME Hears("server")' PROVE Cardinality(Missing("server")') <= faults'
      OBVIOUS
    <3>1. "server" \in End /\ EndStep(Other("server")) /\ Hears("server")
      BY <1>1, <1>8, Ends
    <3> QED BY <1>1, <1>2, <3>1, MissingAtOther
  <2> QED BY <2>1, <2>2, Ends DEF MissInv
<1> QED BY <1>4, <1>10, <1>11, <1>12, <1>13

LEMMA CalmServer ==
  ASSUME TypeOK, TypeOK', ReasonInv, CalmInv, ServerStep
  PROVE  CalmInv'
<1> SUFFICES ASSUME Calm'
             PROVE  gaveUp' = {} /\ LinkInv' /\ BeatInv' /\ SynInv' /\ MissInv'
  BY DEF CalmInv
<1> DEFINE c == conn["server"]
           d == conn'["server"]
           k == conn["client"]
<1>1. /\ EndStep("server") /\ phase' = phase /\ faults' >= faults
      /\ asked \subseteq asked' /\ gaveUp \subseteq gaveUp'
      /\ conn'["client"] = k
      /\ \A x \in wire'["server"] : x \in wire["server"]
  BY Ends DEF ServerStep, EndStep
<1>2. /\ Calm /\ gaveUp = {} /\ asked' = {}
      /\ LinkInv /\ BeatInv /\ SynInv /\ MissInv
      /\ ~Coming("server", "DISCONNECT")
      /\ Hears("server") => ~(c.silent >= SilenceTicks)
  BY <1>1, CalmBefore, Ends
<1>3. active /\ c.state = "CONNECTED" => Hears("server")
  BY DEF Hears
<1>4. gaveUp' = {}
  <2>1. \A g \in gaveUp' : g \in End \X {"silence"}
    BY DEF Calm
  <2>2. \A g \in gaveUp' :
          \/ g \notin End \X {"silence"}
          \/ active /\ c.state = "CONNECTED" /\ c.silent >= SilenceTicks
    BY <1>2 DEF ServerStep
  <2> QED BY <1>2, <1>3, <2>1, <2>2
<1>5. active => active' /\ c.state \in {"WAITING_ACK", "CONNECTED"}
                        /\ d.state \in {"WAITING_ACK", "CONNECTED"}
  <2>1. active => c.state \in {"WAITING_ACK", "CONNECTED"}
    BY <1>2 DEF LinkInv
  <2>2. <<"server", "handshake">> \notin gaveUp'
    BY <1>4
  <2> QED BY <1>2, <1>3, <2>1, <2>2 DEF ServerStep
<1>6. active' => d.state \in {"WAITING_ACK", "CONNECTED"}
  BY <1>5 DEF ServerStep
<1>7. Hears("server")' => active /\ (Hears("server") \/ Coming("server", "ACK"))
  <2>1. Hears("server")' => active
    BY DEF ServerStep, Hears
  <2>2. d.state = "CONNECTED" => c.state = "CONNECTED" \/ Coming("server", "ACK")
    BY <1>1 DEF EndStep
  <2> QED BY <2>1, <2>2 DEF Hears
<1>8. LinkInv'
  <2>1. Coming("server", "ACK")' \/ Hears("server")' => k.state = "CONNECTED"
    BY <1>1, <1>2, <1>7 DEF LinkInv, Coming
  <2>2. Coming("client", "ACK")' => active'
    <3>1. \A x \in wire'["client"] : x.kind = "ACK" => x \in wire["client"] \/ active'
      BY DEF ServerStep
    <3> QED BY <1>2, <1>5, <3>1 DEF LinkInv, Coming
  <2>3. k.state = "CONNECTED" => active' /\ phase' \in {"connecting", "playing"}
    BY <1>1, <1>2, <1>5 DEF LinkInv
  <2>4. phase' # "leaving" /\ k.state # "WAITING_ACK"
    BY <1>1, <1>2 DEF LinkInv
  <2> QED BY <1>1, <1>6, <2>1, <2>2, <2>3, <2>4 DEF LinkInv
<1>9. BeatInv'
  <2>1. active' /\ d.state = "WAITING_ACK" /\ ~d.due => ~d.quiet
    BY <1>2 DEF ServerStep, BeatInv
  <2>2. active' /\ "server" \in ran' => ~d.quiet
    BY <1>2, <1>6 DEF ServerStep, BeatInv
  <2>3. k.state = "CONNECTED" /\ "client" \in ran' => ~k.quiet
    BY <1>2 DEF ServerStep, BeatInv
  <2> QED BY <1>1, <2>1, <2>2, <2>3 DEF BeatInv
<1>10. SynInv'
  <2> SUFFICES ASSUME Hears("server")', NEW x \in wire'["server"], x.kind = "SYN"
               PROVE  x.age >= d.silent
    BY DEF SynInv
  <2>1. x \in wire["server"] /\ x.age \in Nat /\ active /\ active'
    BY <1>1, <1>5, <1>7, TicksAssumption, Ends DEF TypeOK, Datagram
  <2>2. d.silent = 0 \/ (c.state = "CONNECTED" /\ d.silent = c.silent)
    BY <1>1, <2>1 DEF EndStep, Hears
  <2>3. CASE d.silent = 0
    BY <2>1, <2>3
  <2>4. CASE c.state = "CONNECTED" /\ d.silent = c.silent
    BY <1>2, <1>3, <2>1, <2>4 DEF SynInv
  <2> QED BY <2>2, <2>3, <2>4
<1>11. MissInv'
  <2>1. Hears("server")' => Cardinality(Missing("server")') <= faults'
    BY <1>1, <1>2, <1>7, MissingAtStep, Ends
  <2>2. Hears("client")' => Cardinality(Missing("client")') <= faults'
    <3> SUFFICES ASSUME Hears("client")' PROVE Cardinality(Missing("client")') <= faults'
      OBVIOUS
    <3>1. "client" \in End /\ EndStep(Other("client")) /\ Hears("client")
      BY <1>1, Ends DEF Hears
    <3> QED BY <1>1, <1>2, <3>1, MissingAtOther
  <2> QED BY <2>1, <2>2, Ends DEF MissInv
<1> QED BY <1>4, <1>8, <1>9, <1>10, <1>11

LEMMA CalmNetwork ==
  ASSUME TypeOK, TypeOK', ReasonInv, CalmInv, NetworkStep
  PROVE  CalmInv'
<1> SUFFICES ASSUME Calm'
             PROVE  gaveUp' = {} /\ LinkInv' /\ BeatInv' /\ SynInv' /\ MissInv'
  BY DEF CalmInv
<1>1. /\ UNCHANGED <<conn, active, phase, ran, connects, asked, gaveUp>>
      /\ \A e \in End : \A x \in wire'[e] : x \in wire[e]
      /\ faults' >= faults
  BY TicksAssumption DEF NetworkStep, TypeOK
<1>2. gaveUp = {} /\ LinkInv /\ BeatInv /\ SynInv /\ MissInv
  BY <1>1, CalmBefore
<1>3. LinkInv'
  BY <1>1, <1>2, Ends DEF LinkInv, Coming, Hears
<1>4. BeatInv' /\ SynInv'
  BY <1>1, <1>2, Ends DEF BeatInv, SynInv, Hears
<1> QED BY <1>1, <1>2, <1>3, <1>4, MissingAtLoss

LEMMA CalmTick ==
  ASSUME TypeOK, TypeOK', ReasonInv, CalmInv, TickStep
  PROVE  CalmInv'
<1> SUFFICES ASSUME Calm'
             PROVE  gaveUp' = {} /\ LinkInv' /\ BeatInv' /\ SynInv' /\ MissInv'
  BY DEF CalmInv
<1>1. /\ UNCHANGED <<active, phase, faults, connects, asked, gaveUp>> /\ ran' = {}
      /\ \A e \in End : conn'[e].state = conn[e].state /\ conn'[e].due
      /\ faults' >= faults
  BY TicksAssumption DEF TickStep, TypeOK
<1>2. gaveUp = {} /\ LinkInv /\ BeatInv /\ SynInv /\ MissInv
  BY <1>1, CalmBefore
<1>3. \A e \in End : \A k : Coming(e, k)' => Coming(e, k)
  BY DEF TickStep, Coming
<1>4. LinkInv'
  BY <1>1, <1>2, <1>3, Ends DEF LinkInv, Hears
<1>5. BeatInv'
  BY <1>1, Ends DEF BeatInv
<1>6. SynInv'
  <2> SUFFICES ASSUME Hears("server")', NEW x \in wire'["server"], x.kind = "SYN"
               PROVE  x.age >= conn'["server"].silent
    BY DEF SynInv
  <2>1. PICK y \in wire["server"] : y.kind = "SYN" /\ x.age = y.age + 1
    BY Ends DEF TickStep
  <2>2. y.age >= conn["server"].silent /\ y.age \in Nat
    BY <1>1, <1>2, <2>1, Ends, TicksAssumption DEF SynInv, Hears, TypeOK, Datagram
  <2>3. /\ conn["server"].silent \in 0 .. SilenceTicks /\ SilenceTicks \in Nat
        /\ conn'["server"].silent = Capped(conn["server"].silent, SilenceTicks)
    BY Ends, TicksAssumption DEF TypeOK, Connection, TickStep
  <2>4. Capped(conn["server"].silent, SilenceTicks) <= conn["server"].silent + 1
        /\ Capped(conn["server"].silent, SilenceTicks) \in Nat
    BY <2>3 DEF Capped
  <2> QED BY <2>1, <2>2, <2>3, <2>4
<1> QED BY <1>1, <1>2, <1>4, <1>5, <1>6, MissingAtTick

LEMMA CalmStep ==
  ASSUME TypeOK, ReasonInv, CalmInv, [Next]_vars
  PROVE  CalmInv'
<1>1. CASE UNCHANGED vars
  BY <1>1 DEF vars, CalmInv, Calm, LinkInv, BeatInv, SynInv, MissInv, Missing, Hears, Coming
<1>2. CASE Next
  BY <1>2, EveryStep, CalmClient, CalmServer, CalmNetwork, CalmTick
<1> QED BY <1>1, <1>2

\* While nobody leaves, no end of a connection falls silent for the other as
\* long as the datagrams lost, repeated and delayed do not fill
\* CONNECTION_TIMEOUT_LEN: the keepalives of NET_Conn_Run are enough, however
\* often the client connects and whatever the server answered before.
THEOREM NobodyFallsSilent == Spec => []KeepalivesSuffice
<1>1. Init => CalmInv
  BY Ends DEF Init, CalmInv, LinkInv, BeatInv, SynInv, MissInv, Hears, Coming, Fresh
<1>2. Init => ReasonInv
  BY Ends DEF Init, ReasonInv, ReasonTruth, Coming, Fresh
<1>3. TypeOK /\ ReasonInv /\ CalmInv /\ [Next]_vars => ReasonInv' /\ CalmInv'
  BY ReasonStep, CalmStep
<1>4. CalmInv => KeepalivesSuffice
  BY DEF CalmInv, KeepalivesSuffice, Calm
<1> QED BY <1>1, <1>2, <1>3, <1>4, ConnectionsTyped, PTL DEF Spec
==============================================================================
