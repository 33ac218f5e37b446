------------------------------ MODULE NetTicProofs ------------------------------
(***************************************************************************)
(* Proofs about the tic exchange, for any number of players and drones,    *)
(* any sizes of the buffers and limits on running ahead that fit them, and *)
(* any loss, repetition and overtaking.                                    *)
(*                                                                         *)
(* First NET_ExpandTicNum: it is right for every byte of a tic within      *)
(* Reach of the receive window.  Then IInv, which says for each client     *)
(* what the server and the client keep (ClientInv) and what is under way   *)
(* between them, and RecvInv for the server's own window.  Each handler    *)
(* changes one client's part, and a lemma for each says that it keeps it.  *)
(***************************************************************************)
EXTENDS NetTics, SequencesExt, SequenceTheorems, FiniteSetTheorems, TLAPS

---------------------------------------------------------------------------
(* Lists without repetitions, as the lists of mobjs and of thinkers are:   *)
(* what linking and unlinking do to the set that a list holds.             *)

\* A sequence without the element at place i.
LEMMA RemoveAtElements ==
  ASSUME NEW S, NEW l \in Seq(S), NEW i \in 1 .. Len(l)
  PROVE  /\ RemoveAt(l, i) \in Seq(S)
         /\ Len(RemoveAt(l, i)) = Len(l) - 1
         /\ DOMAIN RemoveAt(l, i) = 1 .. Len(l) - 1
         /\ \A j \in 1 .. Len(l) - 1 : RemoveAt(l, i)[j] = IF j < i THEN l[j] ELSE l[j + 1]
<1> DEFINE a == SubSeq(l, 1, i - 1)
           b == SubSeq(l, i + 1, Len(l))
           q == a \o b
<1>1. Len(l) \in Nat /\ i \in Nat /\ i >= 1 /\ i <= Len(l) /\ DOMAIN l = 1 .. Len(l)
  OBVIOUS
<1>0. i < Len(l) \/ i = Len(l)
  BY i \in 1 .. Len(l), Len(l) \in Nat
<1>2. a \in Seq(S) /\ Len(a) = i - 1 /\ \A j \in 1 .. i - 1 : a[j] = l[j]
  <2>1. \A j \in 1 .. i - 1 : l[j] \in S
    BY <1>1
  <2>2. /\ SubSeq(l, 1, i - 1) \in Seq(S)
        /\ Len(SubSeq(l, 1, i - 1)) = IF 1 <= i - 1 THEN i - 1 - 1 + 1 ELSE 0
        /\ \A j \in 1 .. i - 1 - 1 + 1 : SubSeq(l, 1, i - 1)[j] = l[1 + j - 1]
    BY <1>1, <2>1, SubSeqProperties
  <2> QED BY <1>1, <2>2
<1>3. /\ b \in Seq(S) /\ Len(b) = Len(l) - i
      /\ \A j \in 1 .. Len(l) - i : b[j] = l[i + j]
  <2>1. \A j \in i + 1 .. Len(l) : l[j] \in S
    BY <1>1
  <2>2. /\ SubSeq(l, i + 1, Len(l)) \in Seq(S)
        /\ Len(SubSeq(l, i + 1, Len(l))) =
               IF i + 1 <= Len(l) THEN Len(l) - (i + 1) + 1 ELSE 0
        /\ \A j \in 1 .. Len(l) - (i + 1) + 1 :
               SubSeq(l, i + 1, Len(l))[j] = l[i + 1 + j - 1]
    BY <1>1, <2>1, SubSeqProperties
  <2>3. Len(l) - (i + 1) + 1 = Len(l) - i
    BY <1>1
  <2>4. \A j \in 1 .. Len(l) - i : i + 1 + j - 1 = i + j
    BY <1>1
  <2>5. Len(b) = Len(l) - i
    <3>1. CASE i < Len(l)
      <4>1. i + 1 <= Len(l)
        BY <1>1, <3>1
      <4> QED BY <2>2, <2>3, <4>1
    <3>2. CASE i = Len(l)
      <4>1. ~(i + 1 <= Len(l)) /\ Len(l) - i = 0
        BY <1>1, <3>2
      <4> QED BY <2>2, <4>1
    <3> QED BY <1>0, <3>1, <3>2
  <2>6. \A j \in 1 .. Len(l) - i : b[j] = l[i + j]
    BY <2>2, <2>3, <2>4
  <2> QED BY <2>2, <2>5, <2>6
<1> HIDE DEF a, b
<1>4. /\ q \in Seq(S) /\ Len(q) = Len(l) - 1 /\ DOMAIN q = 1 .. Len(l) - 1
      /\ \A j \in 1 .. Len(l) - 1 : q[j] = IF j < i THEN l[j] ELSE l[j + 1]
  <2>1. /\ q \in Seq(S) /\ Len(q) = Len(a) + Len(b)
        /\ \A j \in 1 .. Len(a) + Len(b) :
               q[j] = IF j <= Len(a) THEN a[j] ELSE b[j - Len(a)]
    BY <1>2, <1>3, ConcatProperties
  <2>2. Len(a) + Len(b) = Len(l) - 1
    BY <1>1, <1>2, <1>3
  <2>3. ASSUME NEW j \in 1 .. Len(l) - 1
        PROVE  q[j] = IF j < i THEN l[j] ELSE l[j + 1]
    <3>1. CASE j < i
      BY <1>1, <1>2, <2>1, <2>2, <3>1
    <3>2. CASE ~(j < i)
      <4>1. j - (i - 1) \in 1 .. Len(l) - i /\ i + (j - (i - 1)) = j + 1
        BY <1>1, <3>2
      <4>2. q[j] = b[j - (i - 1)]
        BY <1>1, <1>2, <2>1, <2>2, <3>2
      <4> QED BY <1>3, <3>2, <4>1, <4>2
    <3> QED BY <3>1, <3>2
  <2>4. DOMAIN q = 1 .. Len(l) - 1
    BY <2>1, <2>2, LenProperties
  <2> QED BY <2>1, <2>2, <2>3, <2>4
<1> QED BY <1>4 DEF RemoveAt, q, a, b

---------------------------------------------------------------------------
(* Sets of numbers: the least, the greatest, and counting off.             *)

\* A set of numbers that is not empty has a least one.
LEMMA LeastNumber ==
  ASSUME NEW S, S \subseteq Nat, S # {}
  PROVE  \E n \in S : \A m \in S : n =< m
<1> DEFINE R == OpToRel(<, Nat)
<1>1. \E n \in S : \A m \in S : ~ (<<m, n>> \in R)
  BY NatLessThanWellFounded, WFMin
<1>2. \A m, n \in Nat : m < n => <<m, n>> \in R
  BY DEF OpToRel
<1> HIDE DEF R
<1>3. PICK n \in S : \A m \in S : ~ (<<m, n>> \in R)
  BY <1>1
<1>4. ASSUME NEW m \in S PROVE n =< m
  <2>1. m \in Nat /\ n \in Nat /\ ~ (m < n)
    BY <1>2, <1>3
  <2> QED BY <2>1
<1> QED BY <1>3, <1>4

\* Min chooses it.
LEMMA MinFacts ==
  ASSUME NEW S, S \subseteq Nat, S # {}
  PROVE  Min(S) \in S /\ \A m \in S : Min(S) =< m
<1>1. \E n \in S : \A m \in S : n =< m
  BY LeastNumber
<1> QED BY <1>1 DEF Min

\* Max chooses the greatest number of a set that has a bound.
LEMMA MaxFacts ==
  ASSUME NEW S, S \subseteq Nat, S # {}, NEW b \in Nat, \A m \in S : m =< b
  PROVE  Max(S) \in S /\ \A m \in S : m =< Max(S)
<1> DEFINE D == {b - m : m \in S}
<1>1. D \subseteq Nat /\ D # {}
  <2>1. \A m \in S : b - m \in Nat
    OBVIOUS
  <2> QED BY <2>1
<1>2. PICK d \in D : \A e \in D : d =< e
  <2> HIDE DEF D
  <2> QED BY <1>1, LeastNumber
<1>3. PICK n \in S : d = b - n
  OBVIOUS
<1>4. ASSUME NEW m \in S PROVE n >= m
  <2>1. m \in Nat /\ n \in Nat /\ b - n =< b - m
    BY <1>2, <1>3
  <2> QED BY <2>1
<1> QED BY <1>4 DEF Max

\* A finite set of numbers can be counted off upwards.
LEMMA Ranks ==
  ASSUME NEW D, D \subseteq Nat, IsFiniteSet(D)
  PROVE  \A i \in 1 .. Cardinality(D) : \E s \in D : Cardinality({r \in D : r =< s}) = i
<1> DEFINE n == Cardinality(D)
           rank == [s \in D |-> Cardinality({r \in D : r =< s})]
<1>1. n \in Nat /\ IsFiniteSet(1 .. n) /\ Cardinality(1 .. n) = n
  BY FS_CardinalityType, FS_Interval
<1>2. \A s \in D : rank[s] \in 1 .. n
  <2> TAKE s \in D
  <2>1. {r \in D : r =< s} \in SUBSET D /\ s \in {r \in D : r =< s}
    OBVIOUS
  <2>2. /\ IsFiniteSet({r \in D : r =< s})
        /\ Cardinality({r \in D : r =< s}) =< n
    BY <2>1, FS_Subset
  <2>3. Cardinality({r \in D : r =< s}) \in Nat /\ Cardinality({r \in D : r =< s}) # 0
    BY <2>1, <2>2, FS_CardinalityType, FS_EmptySet
  <2> QED BY <1>1, <2>2, <2>3
<1>3. \A s, t \in D : s < t => rank[s] # rank[t]
  <2> SUFFICES ASSUME NEW s \in D, NEW t \in D, s < t PROVE rank[s] # rank[t]
    OBVIOUS
  <2>0. s \in Nat /\ t \in Nat /\ t =< t /\ ~ (t =< s)
        /\ \A r \in D : r \in Nat /\ (r =< s => r =< t)
    OBVIOUS
  <2>1. /\ {r \in D : r =< s} \in SUBSET {r \in D : r =< t}
        /\ t \in {r \in D : r =< t} /\ t \notin {r \in D : r =< s}
    BY <2>0
  <2>2. IsFiniteSet({r \in D : r =< t})
    BY FS_Subset
  <2> QED BY <2>1, <2>2, FS_Subset
<1>4. rank \in Injection(D, 1 .. n)
  <2>1. \A s, t \in D : rank[s] = rank[t] => s = t
    BY <1>3
  <2>2. rank \in [D -> 1 .. n]
    BY <1>2
  <2> QED BY <2>1, <2>2, Zenon DEF Injection, IsInjective
<1>5. rank \in Surjection(D, 1 .. n)
  BY <1>1, <1>4, FS_Injection
<1> QED BY <1>5 DEF Surjection

\* Ascending(D) has every element of D once, and in their order.
LEMMA AscendingFacts ==
  ASSUME NEW D, D \subseteq Nat, IsFiniteSet(D)
  PROVE  /\ Cardinality(D) \in Nat
         /\ Ascending(D) \in [1 .. Cardinality(D) -> D]
         /\ Ascending(D) \in Seq(D) /\ Len(Ascending(D)) = Cardinality(D)
         /\ \A i, j \in 1 .. Cardinality(D) : i < j => Ascending(D)[i] < Ascending(D)[j]
         /\ \A s \in D : \E i \in 1 .. Cardinality(D) : Ascending(D)[i] = s
<1> DEFINE n == Cardinality(D)
           Rank(s) == Cardinality({r \in D : r =< s})
           a == Ascending(D)
<1>1. n \in Nat /\ IsFiniteSet(1 .. n) /\ Cardinality(1 .. n) = n
  BY FS_CardinalityType, FS_Interval
<1>2. ASSUME NEW i \in 1 .. n PROVE a[i] \in D /\ Rank(a[i]) = i
  <2>1. \E s \in D : Rank(s) = i
    BY Ranks
  <2>2. a[i] = CHOOSE s \in D : Rank(s) = i
    BY DEF Ascending
  <2> HIDE DEF Rank, a
  <2> QED BY <2>1, <2>2
<1>3. a = [i \in 1 .. n |-> a[i]]
  BY DEF Ascending
<1>4. a \in [1 .. n -> D]
  <2> HIDE DEF a
  <2> QED BY <1>2, <1>3
<1>5. a \in Seq(D) /\ Len(a) = n
  <2> HIDE DEF a, n
  <2> QED BY <1>1, <1>4
<1>6. ASSUME NEW i \in 1 .. n, NEW j \in 1 .. n, i < j PROVE a[i] < a[j]
  <2>1. a[i] \in D /\ a[j] \in D /\ Rank(a[i]) = i /\ Rank(a[j]) = j
    BY <1>2
  <2>2. SUFFICES ASSUME ~ (a[i] < a[j]) PROVE FALSE
    OBVIOUS
  <2> HIDE DEF a
  <2>3. ASSUME NEW r \in D PROVE r =< a[j] => r =< a[i]
    <3>1. r \in Nat /\ a[i] \in Nat /\ a[j] \in Nat
      BY <2>1
    <3> QED BY <2>2, <3>1
  <2>4. {r \in D : r =< a[j]} \in SUBSET {r \in D : r =< a[i]}
    BY <2>3
  <2>5. IsFiniteSet({r \in D : r =< a[i]})
    BY FS_Subset
  <2>6. Rank(a[j]) =< Rank(a[i])
    BY <2>4, <2>5, FS_Subset
  <2> HIDE DEF Rank
  <2> QED BY <1>1, <1>6, <2>1, <2>6
<1>7. \A i, j \in 1 .. n : a[i] = a[j] => i = j
  <2> HIDE DEF a
  <2>1. \A i \in 1 .. n : a[i] \in Nat
    BY <1>2
  <2> QED BY <1>1, <1>6, <2>1
<1>8. ASSUME NEW s \in D PROVE \E i \in 1 .. n : a[i] = s
  <2> HIDE DEF a
  <2>1. a \in Injection(1 .. n, D)
    BY <1>4, <1>7 DEF Injection, IsInjective
  <2>2. a \in Surjection(1 .. n, D)
    BY <1>1, <2>1, FS_Injection
  <2> QED BY <2>2 DEF Surjection
<1> QED BY <1>1, <1>4, <1>5, <1>6, <1>8

\* The numbers from a up to b come as they are.
LEMMA AscendingInterval ==
  ASSUME NEW a \in Nat, NEW b \in Nat, a =< b
  PROVE  Ascending(a .. b - 1) = [i \in 1 .. b - a |-> a + i - 1]
<1> DEFINE D == a .. b - 1
<1>1. IsFiniteSet(D) /\ Cardinality(D) = b - a
  <2>1. a \in Int /\ b - 1 \in Int /\ (IF a > b - 1 THEN 0 ELSE b - 1 - a + 1) = b - a
    OBVIOUS
  <2> QED BY <2>1, FS_Interval
<1>2. ASSUME NEW n \in D PROVE Cardinality({m \in D : m =< n}) = n - a + 1
  <2>1. {m \in D : m =< n} = a .. n
    OBVIOUS
  <2>2. a \in Int /\ n \in Int /\ (IF a > n THEN 0 ELSE n - a + 1) = n - a + 1
    OBVIOUS
  <2> QED BY <2>1, <2>2, FS_Interval
<1>3. ASSUME NEW i \in 1 .. b - a
      PROVE  (CHOOSE n \in D : Cardinality({m \in D : m =< n}) = i) = a + i - 1
  <2> DEFINE R(n) == Cardinality({m \in D : m =< n}) = i
  <2>1. a + i - 1 \in D /\ \A n \in D : n - a + 1 = i <=> n = a + i - 1
    OBVIOUS
  <2>2. \A n \in D : R(n) <=> n - a + 1 = i
    <3> HIDE DEF D
    <3> QED BY <1>2
  <2>3. R(a + i - 1) /\ \A n \in D : R(n) => n = a + i - 1
    <3> HIDE DEF D, R
    <3> QED BY <2>1, <2>2
  <2> HIDE DEF R
  <2>4. (CHOOSE n \in D : R(n)) = a + i - 1
    BY <2>1, <2>3
  <2> QED BY <2>4 DEF R
<1>4. Ascending(D) = [i \in 1 .. b - a |-> CHOOSE n \in D : Cardinality({m \in D : m =< n}) = i]
  BY <1>1 DEF Ascending
<1> QED BY <1>3, <1>4

---------------------------------------------------------------------------
(* Counters that go over the wire cut down to a byte (the "& 0xff" of      *)
(* net_common.cc and d_net.h).  The prover evaluates n % 256 but knows     *)
(* little of n % m for a constant m.                                       *)

\* Quotient and remainder by m: what the others rest on.
LEMMA DivMod ==
  ASSUME NEW m \in Nat \ {0}, NEW n \in Nat
  PROVE  /\ n % m \in 0 .. m - 1
         /\ n \div m \in Nat
         /\ n = m * (n \div m) + (n % m)
  OBVIOUS

\* The only multiple of m strictly between -m and m is 0.
LEMMA NoMultipleBetween ==
  ASSUME NEW m \in Nat \ {0}, NEW k \in Int, m * k < m, 0 - m < m * k
  PROVE  k = 0
<1>1. CASE k >= 1
  <2>1. m * k >= m * 1
    BY <1>1
  <2> QED BY <2>1
<1>2. CASE k <= 0 - 1
  <2>1. m * k <= m * (0 - 1)
    BY <1>2
  <2> QED BY <2>1
<1> QED BY <1>1, <1>2

\* Numbers less than m apart with the same remainder are the same number.
LEMMA ModDistinct ==
  ASSUME NEW m \in Nat \ {0}, NEW a \in Nat, NEW b \in Nat,
         a % m = b % m, a - b < m, b - a < m
  PROVE  a = b
<1> DEFINE p == a \div m
           q == b \div m
<1>1. p \in Nat /\ a = m * p + (a % m)
  BY DivMod
<1>2. q \in Nat /\ b = m * q + (b % m)
  BY DivMod
<1>3. m * (p - q) = m * p - m * q
  BY <1>1, <1>2
<1>4. a % m \in Nat
  BY DivMod
<1> HIDE DEF p, q
<1>5. m * (p - q) = a - b
  BY <1>1, <1>2, <1>3, <1>4
<1>6. p - q = 0
  BY <1>1, <1>2, <1>5, NoMultipleBetween
<1> QED BY <1>1, <1>2, <1>6

---------------------------------------------------------------------------
(* NET_ExpandTicNum.                                                       *)

\* The only multiples of m strictly between -2m and 2m are -m, 0 and m.
LEMMA MultipleWithinTwo ==
  ASSUME NEW m \in Nat \ {0}, NEW k \in Int, m * k < 2 * m, 0 - 2 * m < m * k
  PROVE  k \in {-1, 0, 1}
<1>1. CASE k >= 2
  <2>1. m * k >= m * 2
    BY <1>1
  <2> QED BY <2>1
<1>2. CASE k <= 0 - 2
  <2>1. m * k <= m * (0 - 2)
    BY <1>2
  <2> QED BY <2>1
<1> QED BY <1>1, <1>2

\* Reach keeps clear of both edges and of the gap between them.
LEMMA ReachBounds ==
  /\ Reach \in Nat
  /\ Reach <= LowEdge
  /\ Reach <= TicMod - HighEdge - 1
  /\ Reach <= HighEdge - LowEdge + 1
BY TicNumAssumption DEF Reach

\* NET_ExpandTicNum gives back the tic whose low byte was sent, as long as
\* the tic is within Reach of the start of the window.
THEOREM ExpandExact ==
  ASSUME NEW r \in Nat, NEW t \in Nat, t - r <= Reach, r - t <= Reach
  PROVE  ExpandTicNum(r, LowByte(t)) = t
<1> DEFINE d == t \div TicMod
           e == r \div TicMod
           b == t % TicMod
           l == r % TicMod
<1>0. TicMod \in Nat \ {0}
  BY TicNumAssumption
<1>1. b \in 0 .. TicMod - 1 /\ d \in Nat /\ t = TicMod * d + b
  BY <1>0, DivMod
<1>2. l \in 0 .. TicMod - 1 /\ e \in Nat /\ r = TicMod * e + l
  BY <1>0, DivMod
<1>3. ExpandTicNum(r, LowByte(t)) =
        IF l < LowEdge /\ b > HighEdge THEN r - l + b - TicMod
        ELSE IF l > HighEdge /\ b < LowEdge THEN r - l + b + TicMod
        ELSE r - l + b
  BY DEF ExpandTicNum, LowByte
<1> HIDE DEF d, e, b, l
<1>4. TicMod * (d - e) = TicMod * d - TicMod * e
  BY <1>0, <1>1, <1>2
<1>5. TicMod * (d - e) = (t - r) - (b - l)
  BY <1>0, <1>1, <1>2, <1>4
<1>6. d - e \in {-1, 0, 1}
  <2>1. TicMod * (d - e) < 2 * TicMod /\ 0 - 2 * TicMod < TicMod * (d - e)
    BY <1>0, <1>1, <1>2, <1>5, ReachBounds, TicNumAssumption
  <2> QED BY <1>0, <1>1, <1>2, <2>1, MultipleWithinTwo
<1>7. CASE d - e = 0
  <2>1. t - r = b - l
    BY <1>0, <1>1, <1>2, <1>5, <1>7
  <2>2. ~(l < LowEdge /\ b > HighEdge) /\ ~(l > HighEdge /\ b < LowEdge)
    BY <1>1, <1>2, <2>1, ReachBounds, TicNumAssumption
  <2> QED BY <1>0, <1>1, <1>2, <1>3, <2>1, <2>2, TicNumAssumption
<1>8. CASE d - e = 1
  <2>1. t - r = TicMod + b - l
    BY <1>0, <1>1, <1>2, <1>5, <1>8
  <2>2. l > HighEdge /\ b < LowEdge
    BY <1>0, <1>1, <1>2, <2>1, ReachBounds, TicNumAssumption
  <2> QED BY <1>0, <1>1, <1>2, <1>3, <2>1, <2>2, TicNumAssumption
<1>9. CASE d - e = -1
  <2>1. t - r = b - l - TicMod
    BY <1>0, <1>1, <1>2, <1>5, <1>9
  <2>2. l < LowEdge /\ b > HighEdge
    BY <1>0, <1>1, <1>2, <2>1, ReachBounds, TicNumAssumption
  <2> QED BY <1>0, <1>1, <1>2, <1>3, <2>1, <2>2, TicNumAssumption
<1> QED BY <1>6, <1>7, <1>8, <1>9

---------------------------------------------------------------------------
(* The inductive invariant.                                                *)

\* Functions on some of S.
Partial(S, V) == UNION {[T -> V] : T \in SUBSET S}

\* A command as the server makes it: what some of the players did.
Command == Partial(Player, Nat)

\* The command for client c and tic t: of other players, for that tic, and
\* of all of them if nobody leaves.
FullCmd(c, t) ==
  {f \in Partial(Player \ {c}, {t}) : Leavers = {} => DOMAIN f = Player \ {c}}

Entry == [seq : Nat \cup {-1}, cmds : Command]

ServerClient ==
  [online : BOOLEAN, sendseq : Nat, acknowledged : Nat,
   sendqueue : [0 .. BackupTics - 1 -> Entry]]

GameClient ==
  [playing : BOOLEAN, gametic : Nat, maketic : Nat, start : Nat,
   window : Partial(Nat, Command), asked : SUBSET Nat, playeringame : SUBSET Player,
   netcmds : [Player -> Seq(Nat)], owes : BOOLEAN, ran : Seq(Command)]

Request == [kind : {"RESEND"}, start : Nat, num : Nat]
PlayerData == [kind : {"GAMEDATA"}, ack : Nat, seq : Nat, tics : Seq(Nat)]
PlayerAck == [kind : {"GAMEDATA_ACK"}, ack : Nat]
ServerData == [kind : {"GAMEDATA"}, seq : Nat, cmds : Seq(Command)]
Datagram == Request \cup PlayerData \cup PlayerAck \cup ServerData

\* What a client that has come to tic gametic, has built its tics below
\* maketic and was sent those below sendseq can have sent.
UpMsg(gametic, maketic, sendseq) ==
  {m \in PlayerData : /\ m.ack =< gametic /\ m.seq + Len(m.tics) =< maketic
                      /\ \A j \in 1 .. Len(m.tics) : m.tics[j] = m.seq + j - 1}
  \cup {m \in PlayerAck : m.ack =< gametic}
  \cup {m \in Request : m.start + m.num =< sendseq}

\* What client c can have been sent.
DownMsg(c, sendseq) ==
  {m \in ServerData : /\ m.seq + Len(m.cmds) =< sendseq
                      /\ \A j \in 1 .. Len(m.cmds) : m.cmds[j] \in FullCmd(c, m.seq + j - 1)}
  \cup Request

Types ==
  /\ start \in Nat
  /\ recv \in [Player -> Partial(Nat, Nat)]
  /\ asked \in [Player -> SUBSET Nat]
  /\ sv \in [Client -> ServerClient]
  /\ cl \in [Client -> GameClient]
  /\ wire \in [{"up", "down"} -> [Client -> Seq(Datagram)]]
  /\ faults \in Nat

\* The send queue of client c holds the last BACKUPTICS commands made for it.
QueueInv(c, s) ==
  /\ \A i \in 0 .. BackupTics - 1 :
       s.sendqueue[i].seq # -1 =>
         /\ s.sendqueue[i].seq < s.sendseq
         /\ s.sendqueue[i].cmds \in FullCmd(c, s.sendqueue[i].seq)
  /\ \A u \in 0 .. s.sendseq - 1 :
       s.sendseq =< u + BackupTics => s.sendqueue[Slot(u)].seq = u

\* The limits on running ahead.
AheadInv(s, k) ==
  /\ s.acknowledged =< k.gametic
  /\ s.sendseq =< s.acknowledged + MaxAhead + 1
  /\ k.start =< s.sendseq
  /\ k.maketic =< k.gametic + Lead + 1

\* The client's window, and what has left it.
WindowInv(c, s, k) ==
  /\ DOMAIN k.window \subseteq Window(k.start) \cap (0 .. s.sendseq - 1)
  /\ k.asked \subseteq 0 .. s.sendseq - 1
  /\ \A t \in DOMAIN k.window : k.window[t] \in FullCmd(c, t)
  /\ \A p \in Player \ {c} : Len(k.netcmds[p]) =< k.start
  /\ Len(k.ran) = k.gametic

\* Nobody is dropped who does not leave; and if nobody does, every command
\* is there and every tic is run with them.
GameInv(c, s, k) ==
  /\ c \notin Leavers => s.online /\ k.playing
  /\ Leavers = {} =>
       /\ k.playeringame = Player
       /\ \A p \in Player \ {c} : /\ k.netcmds[p] = [i \in 1 .. k.start |-> i - 1]
                                  /\ k.gametic =< k.start
       /\ c \in Player => k.gametic =< k.maketic
       /\ \A g \in 1 .. k.gametic : k.ran[g] = [p \in Player |-> g - 1]

WireInv(c, s, k, up, down) ==
  /\ up \in Seq(UpMsg(k.gametic, k.maketic, s.sendseq))
  /\ down \in Seq(DownMsg(c, s.sendseq))

ClientInv(c, s, k, up, down) ==
  /\ QueueInv(c, s)
  /\ AheadInv(s, k)
  /\ WindowInv(c, s, k)
  /\ GameInv(c, s, k)
  /\ WireInv(c, s, k, up, down)

\* The server's window.
RecvInv ==
  /\ \A p \in Player : /\ DOMAIN recv[p] \subseteq Window(start) \cap (0 .. cl[p].maketic - 1)
                       /\ \A t \in DOMAIN recv[p] : recv[p][t] = t
  /\ \A c \in Online : start =< sv[c].acknowledged
  /\ Leavers = {} =>
       \A c \in Client : \A p \in Player \ {c} :
         start .. sv[c].sendseq - 1 \subseteq DOMAIN recv[p]

IInv ==
  /\ Types
  /\ RecvInv
  /\ \A c \in Client : ClientInv(c, sv[c], cl[c], wire["up"][c], wire["down"][c])

---------------------------------------------------------------------------
(* Sizes, functions and sequences.                                         *)

LEMMA Sizes ==
  /\ NumPlayers \in Nat /\ 0 < NumPlayers /\ NumDrones \in Nat
  /\ BackupTics \in Nat \ {0} /\ ExtraTics \in Nat /\ ExtraTics < BackupTics
  /\ MaxAhead \in Nat /\ MaxAhead + 1 =< BackupTics
  /\ Lead \in Nat /\ 2 * Lead + 2 =< BackupTics
  /\ MaxTic \in Nat /\ MaxFaults \in Nat
BY SizesAssumption, BuffersAssumption

\* The slots of a ring.
LEMMA SlotType ==
  ASSUME NEW t \in Nat
  PROVE  Slot(t) \in 0 .. BackupTics - 1
BY Sizes, DivMod DEF Slot

\* Tics less than BACKUPTICS apart have slots of their own.
LEMMA SlotDistinct ==
  ASSUME NEW t \in Nat, NEW u \in Nat, t < u, u < t + BackupTics
  PROVE  Slot(t) # Slot(u)
<1>1. t - u < BackupTics /\ u - t < BackupTics /\ t # u
  BY Sizes
<1>2. t % BackupTics # u % BackupTics
  BY <1>1, Sizes, ModDistinct
<1> QED BY <1>2 DEF Slot

LEMMA PartialFacts ==
  ASSUME NEW S, NEW V, NEW f
  PROVE  /\ f \in Partial(S, V) => DOMAIN f \subseteq S /\ f \in [DOMAIN f -> V]
         /\ DOMAIN f \subseteq S /\ f \in [DOMAIN f -> V] => f \in Partial(S, V)
         /\ << >> \in Partial(S, V)
<1>1. << >> \in [{} -> V]
  OBVIOUS
<1> QED BY <1>1 DEF Partial

LEMMA SeqMono ==
  ASSUME NEW S, NEW T, S \subseteq T, NEW q \in Seq(S)
  PROVE  q \in Seq(T)
<1>1. Len(q) \in Nat /\ q \in [1 .. Len(q) -> S]
  OBVIOUS
<1>2. q \in [1 .. Len(q) -> T]
  BY <1>1
<1> QED BY <1>1, <1>2

\* The elements of a sequence in the rules for datagrams.
LEMMA SeqElement ==
  ASSUME NEW S, NEW q \in Seq(S), NEW i \in DOMAIN q
  PROVE  i \in 1 .. Len(q) /\ q[i] \in S
OBVIOUS

LEMMA FirstMissingFacts ==
  ASSUME NEW first \in Nat, NEW received, received \subseteq Window(first)
  PROVE  LET t == FirstMissing(first, received) IN
         /\ t \in first .. first + BackupTics /\ t \notin received
         /\ first .. t - 1 \subseteq received
<1> DEFINE S == {t \in first .. first + BackupTics : t \notin received}
<1>1. first + BackupTics \in S /\ S \subseteq Nat
  BY Sizes DEF Window
<1>2. PICK t \in S : \A u \in S : t =< u
  <2> HIDE DEF S
  <2> QED BY <1>1, LeastNumber
<1>3. ASSUME NEW u \in first .. t - 1 PROVE u \in received
  <2>1. u \in first .. first + BackupTics /\ ~ (t =< u)
    BY Sizes
  <2> QED BY <1>2, <2>1
<1>4. t \in first .. first + BackupTics /\ t \notin received
        /\ first .. t - 1 \subseteq received
  BY <1>3
<1> QED BY <1>4 DEF FirstMissing

\* What storing commands puts into a window.
LEMMA StoredDomain ==
  ASSUME NEW window, NEW first, NEW seq, NEW cmds
  PROVE  \A t : t \in DOMAIN Stored(window, first, seq, cmds) <=>
                t \in InWindow(first, seq, Len(cmds)) \/ t \in DOMAIN window
BY DEF Stored

LEMMA StoredNew ==
  ASSUME NEW window, NEW first \in Nat, NEW seq \in Nat, NEW cmds, Len(cmds) \in Nat,
         NEW t \in InWindow(first, seq, Len(cmds))
  PROVE  /\ t \in Window(first) /\ t >= seq /\ t < seq + Len(cmds)
         /\ t - seq + 1 \in 1 .. Len(cmds)
         /\ t = seq + (t - seq + 1) - 1
         /\ Stored(window, first, seq, cmds)[t] = cmds[t - seq + 1]
<1>1. /\ t \in Window(first) /\ t >= seq /\ t < seq + Len(cmds)
      /\ t - seq + 1 \in 1 .. Len(cmds) /\ t = seq + (t - seq + 1) - 1
  BY DEF InWindow
<1> QED BY <1>1 DEF Stored

LEMMA StoredOld ==
  ASSUME NEW window, NEW first, NEW seq, NEW cmds,
         NEW t \in DOMAIN window, t \notin InWindow(first, seq, Len(cmds))
  PROVE  Stored(window, first, seq, cmds)[t] = window[t]
BY DEF Stored

LEMMA StoredType ==
  ASSUME NEW S, NEW window \in Partial(Nat, S), NEW first \in Nat, NEW seq \in Nat,
         NEW cmds \in Seq(S)
  PROVE  Stored(window, first, seq, cmds) \in Partial(Nat, S)
<1> DEFINE got == InWindow(first, seq, Len(cmds))
           D == got \cup DOMAIN window
           w == Stored(window, first, seq, cmds)
<1>1. ASSUME NEW t \in got PROVE cmds[t - seq + 1] \in S /\ t \in Nat
  <2>1. t - seq + 1 \in 1 .. Len(cmds) /\ t \in Nat
    BY DEF InWindow
  <2> QED BY <2>1
<1>2. w = [t \in D |-> IF t \in got THEN cmds[t - seq + 1] ELSE window[t]]
  BY DEF Stored
<1> HIDE DEF got, w
<1>3. DOMAIN window \subseteq Nat /\ window \in [DOMAIN window -> S]
  BY PartialFacts
<1>4. w \in [D -> S] /\ D \subseteq Nat
  BY <1>1, <1>2, <1>3
<1>5. DOMAIN w = D
  BY <1>2
<1>6. w \in Partial(Nat, S)
  BY <1>4, <1>5, PartialFacts
<1> QED BY <1>6 DEF w

LEMMA MissedType ==
  ASSUME NEW first \in Nat, NEW seq \in Nat, NEW received, NEW requested
  PROVE  Missed(first, seq, received, requested) \subseteq 0 .. seq - 1
BY Sizes DEF Missed

\* The run of tics that begins with one of them ends with one of them.
LEMMA RunEndFacts ==
  ASSUME NEW b \in Nat, NEW tics, tics \subseteq 0 .. b - 1, NEW first \in tics
  PROVE  /\ RunEnd(first, tics) \in tics /\ first =< RunEnd(first, tics)
         /\ first .. RunEnd(first, tics) \subseteq tics
<1> DEFINE S == {t \in first .. b : t \notin tics}
<1>1. b \in S /\ S \subseteq Nat
  OBVIOUS
<1>2. PICK t \in S : \A u \in S : t =< u
  <2> HIDE DEF S
  <2> QED BY <1>1, LeastNumber
<1>3. t # first /\ t - 1 \in first .. b /\ t \in Int /\ first \in Int
  OBVIOUS
<1>4. ASSUME NEW u \in first .. t - 1 PROVE u \in tics
  <2>1. u \in first .. b /\ ~ (t =< u)
    OBVIOUS
  <2> QED BY <1>2, <2>1
<1>5. t - 1 \in tics /\ first .. t - 1 \subseteq tics /\ t - 1 + 1 \notin tics /\ first =< t - 1
  BY <1>3, <1>4
<1>6. \E last \in tics : first =< last /\ first .. last \subseteq tics /\ last + 1 \notin tics
  BY <1>5
<1> QED BY <1>6 DEF RunEnd

\* A request is for some of the tics that are to be asked for.
LEMMA RequestsType ==
  ASSUME NEW b \in Nat, NEW tics, tics \subseteq 0 .. b - 1
  PROVE  Requests(tics) \in Seq({m \in Request : m.start + m.num =< b})
<1> DEFINE S == {t \in tics : t - 1 \notin tics}
           firsts == Ascending(S)
           n == Cardinality(S)
           q == Requests(tics)
<1>1. S \subseteq Nat /\ IsFiniteSet(S)
  <2>1. \A t \in S : t \in 0 .. b - 1
    OBVIOUS
  <2>2. IsFiniteSet(0 .. b - 1)
    BY FS_Interval
  <2> HIDE DEF S
  <2>3. S \in SUBSET (0 .. b - 1) /\ S \subseteq Nat
    BY <2>1
  <2> QED BY <2>2, <2>3, FS_Subset
<1>2. n \in Nat /\ firsts \in [1 .. n -> S]
  <2> HIDE DEF S
  <2> QED BY <1>1, AscendingFacts
<1>3. q = [i \in 1 .. n |-> Resend(firsts[i], RunEnd(firsts[i], tics))]
  BY <1>2 DEF Requests
<1>4. ASSUME NEW i \in 1 .. n
      PROVE  Resend(firsts[i], RunEnd(firsts[i], tics)) \in {m \in Request : m.start + m.num =< b}
  <2>1. firsts[i] \in tics
    BY <1>2
  <2>2. PICK f \in tics, e \in tics : f = firsts[i] /\ e = RunEnd(firsts[i], tics) /\ f =< e
    BY <2>1, RunEndFacts
  <2>3. e - f + 1 \in Nat /\ f + (e - f + 1) =< b /\ f \in Nat
    BY <2>2
  <2> QED BY <2>2, <2>3 DEF Resend, Request
<1> HIDE DEF n, firsts, q
<1> QED BY <1>2, <1>3, <1>4 DEF q

---------------------------------------------------------------------------
(* Datagrams.                                                              *)

LEMMA WireMono ==
  ASSUME NEW c \in Client, NEW s \in ServerClient, NEW k \in GameClient, NEW up, NEW down,
         WireInv(c, s, k, up, down),
         NEW s2 \in ServerClient, s.sendseq =< s2.sendseq,
         NEW k2 \in GameClient, k.gametic =< k2.gametic, k.maketic =< k2.maketic
  PROVE  WireInv(c, s2, k2, up, down)
<1> DEFINE U == UpMsg(k.gametic, k.maketic, s.sendseq)
           U2 == UpMsg(k2.gametic, k2.maketic, s2.sendseq)
           D == DownMsg(c, s.sendseq)
           D2 == DownMsg(c, s2.sendseq)
<1>0. /\ s.sendseq \in Nat /\ s2.sendseq \in Nat /\ k.gametic \in Nat /\ k2.gametic \in Nat
      /\ k.maketic \in Nat /\ k2.maketic \in Nat
  BY DEF ServerClient, GameClient
<1>1. \A m \in PlayerData : m.ack \in Nat /\ m.seq + Len(m.tics) \in Nat
  BY DEF PlayerData
<1>2. \A m \in PlayerAck : m.ack \in Nat
  BY DEF PlayerAck
<1>3. \A m \in Request : m.start + m.num \in Nat
  BY DEF Request
<1>4. U \subseteq U2
  BY <1>0, <1>1, <1>2, <1>3 DEF UpMsg
<1>5. \A m \in ServerData : m.seq + Len(m.cmds) \in Nat
  BY DEF ServerData
<1>6. D \subseteq D2
  BY <1>0, <1>5 DEF DownMsg
<1>7. up \in Seq(U) /\ down \in Seq(D)
  BY DEF WireInv
<1> HIDE DEF U, U2, D, D2
<1>8. up \in Seq(U2) /\ down \in Seq(D2)
  BY <1>4, <1>6, <1>7, SeqMono
<1> QED BY <1>8 DEF WireInv, U2, D2

\* Every datagram is one.
LEMMA Datagrams ==
  /\ \A g, k, s : Seq(UpMsg(g, k, s)) \subseteq Seq(Datagram)
  /\ \A c, s : Seq(DownMsg(c, s)) \subseteq Seq(Datagram)
<1>1. \A g, k, s : UpMsg(g, k, s) \subseteq Datagram
  BY DEF UpMsg, Datagram
<1>2. \A c, s : DownMsg(c, s) \subseteq Datagram
  BY DEF DownMsg, Datagram
<1> QED BY <1>1, <1>2, SeqMono

\* What arrives leaves its direction or stays, and answers go the other way.
LEMMA ArrivesEffect ==
  ASSUME wire \in [{"up", "down"} -> [Client -> Seq(Datagram)]], faults \in Nat,
         NEW d \in {"up", "down"}, NEW o \in {"up", "down"}, o # d,
         NEW c \in Client, NEW i \in DOMAIN wire[d][c],
         NEW S, NEW T, wire[d][c] \in Seq(S), wire[o][c] \in Seq(T),
         NEW answers \in Seq(T), answers \in Seq(Datagram), Arrives(d, c, i, answers)
  PROVE  /\ faults' \in Nat
         /\ wire' \in [{"up", "down"} -> [Client -> Seq(Datagram)]]
         /\ \A b \in Client \ {c} : wire'["up"][b] = wire["up"][b] /\ wire'["down"][b] = wire["down"][b]
         /\ wire'[d][c] \in Seq(S)
         /\ wire'[o][c] \in Seq(T)
<1>1. o = IF d = "up" THEN "down" ELSE "up"
  OBVIOUS
<1>2. PICK again \in BOOLEAN :
        /\ faults' = faults + (IF again THEN 1 ELSE 0) + (IF i > 1 THEN 1 ELSE 0)
        /\ wire' = [wire EXCEPT ![d][c] = IF again THEN @ ELSE RemoveAt(@, i),
                                ![o][c] = IF cl[c].playing THEN @ \o answers ELSE @]
  BY <1>1 DEF Arrives
<1> DEFINE x == IF again THEN wire[d][c] ELSE RemoveAt(wire[d][c], i)
           y == IF cl[c].playing THEN wire[o][c] \o answers ELSE wire[o][c]
<1>3. x \in Seq(S) /\ x \in Seq(Datagram)
  <2>1. i \in 1 .. Len(wire[d][c]) /\ wire[d][c] \in Seq(Datagram)
    OBVIOUS
  <2> QED BY <2>1, RemoveAtElements
<1>4. y \in Seq(T) /\ y \in Seq(Datagram)
  <2>1. wire[o][c] \in Seq(Datagram)
    OBVIOUS
  <2> QED BY <2>1, ConcatProperties
<1>5. /\ wire'[d] = [wire[d] EXCEPT ![c] = x]
      /\ wire'[o] = [wire[o] EXCEPT ![c] = y]
      /\ wire' = [e \in {"up", "down"} |-> wire'[e]]
  BY <1>2
<1> HIDE DEF x, y
<1>6. wire[d] \in [Client -> Seq(Datagram)] /\ wire[o] \in [Client -> Seq(Datagram)]
  OBVIOUS
<1>7. wire'[d] \in [Client -> Seq(Datagram)] /\ wire'[o] \in [Client -> Seq(Datagram)]
  BY <1>3, <1>4, <1>5, <1>6
<1>8. {d, o} = {"up", "down"}
  OBVIOUS
<1>9. wire' \in [{"up", "down"} -> [Client -> Seq(Datagram)]]
  BY <1>5, <1>7, <1>8
<1>10. \A b \in Client \ {c} : wire'[d][b] = wire[d][b] /\ wire'[o][b] = wire[o][b]
  BY <1>5, <1>6
<1>11. wire'[d][c] = x /\ wire'[o][c] = y
  BY <1>5, <1>6
<1>12. faults' \in Nat
  BY <1>2
<1>13. \A b \in Client \ {c} : wire'["up"][b] = wire["up"][b] /\ wire'["down"][b] = wire["down"][b]
  BY <1>8, <1>10
<1> QED BY <1>3, <1>4, <1>9, <1>11, <1>12, <1>13

\* The step leaves everything about a client alone.
LEMMA ClientFrame ==
  ASSUME NEW b \in Client, ClientInv(b, sv[b], cl[b], wire["up"][b], wire["down"][b]),
         sv'[b] = sv[b], cl'[b] = cl[b],
         wire'["up"][b] = wire["up"][b], wire'["down"][b] = wire["down"][b]
  PROVE  ClientInv(b, sv'[b], cl'[b], wire'["up"][b], wire'["down"][b])
OBVIOUS

---------------------------------------------------------------------------
(* What the server does with a datagram of a client.                       *)

LEMMA ClientTypes ==
  ASSUME Types, NEW c \in Client
  PROVE  /\ sv[c] \in ServerClient
         /\ sv[c].online \in BOOLEAN /\ sv[c].sendseq \in Nat /\ sv[c].acknowledged \in Nat
         /\ sv[c].sendqueue \in [0 .. BackupTics - 1 -> Entry]
         /\ cl[c] \in GameClient
         /\ cl[c].playing \in BOOLEAN /\ cl[c].gametic \in Nat /\ cl[c].maketic \in Nat
         /\ cl[c].start \in Nat /\ cl[c].window \in Partial(Nat, Command)
         /\ cl[c].asked \subseteq Nat /\ cl[c].playeringame \subseteq Player
         /\ cl[c].netcmds \in [Player -> Seq(Nat)] /\ cl[c].owes \in BOOLEAN
         /\ cl[c].ran \in Seq(Command)
         /\ wire["up"][c] \in Seq(Datagram) /\ wire["down"][c] \in Seq(Datagram)
<1>1. sv[c] \in ServerClient /\ cl[c] \in GameClient
  BY DEF Types
<1>2. wire["up"][c] \in Seq(Datagram) /\ wire["down"][c] \in Seq(Datagram)
  BY DEF Types
<1> QED BY <1>1, <1>2 DEF ServerClient, GameClient

LEMMA Acknowledges ==
  ASSUME Types, NEW c \in Client, NEW ack \in Nat, ack =< cl[c].gametic,
         sv[c].acknowledged =< cl[c].gametic,
         sv' = [sv EXCEPT ![c].acknowledged = IF ack > @ THEN ack ELSE @]
  PROVE  /\ sv' \in [Client -> ServerClient]
         /\ \A b \in Client \ {c} : sv'[b] = sv[b]
         /\ \A b \in Client : sv'[b].online = sv[b].online /\ sv'[b].sendseq = sv[b].sendseq
         /\ sv'[c].sendqueue = sv[c].sendqueue
         /\ sv'[c].acknowledged \in Nat
         /\ sv[c].acknowledged =< sv'[c].acknowledged /\ sv'[c].acknowledged =< cl[c].gametic
<1> DEFINE a == IF ack > sv[c].acknowledged THEN ack ELSE sv[c].acknowledged
           s == [sv[c] EXCEPT !.acknowledged = a]
<1>1. sv' = [sv EXCEPT ![c] = s]
  OBVIOUS
<1>2. a \in Nat /\ sv[c].acknowledged =< a /\ a =< cl[c].gametic
  BY ClientTypes
<1> HIDE DEF a
<1>3. /\ s \in ServerClient /\ s.online = sv[c].online /\ s.sendseq = sv[c].sendseq
      /\ s.sendqueue = sv[c].sendqueue /\ s.acknowledged = a
  <2>1. sv[c] \in ServerClient
    BY ClientTypes
  <2> QED BY <1>2, <2>1 DEF ServerClient
<1> HIDE DEF s
<1>4. sv \in [Client -> ServerClient]
  BY DEF Types
<1>5. sv'[c] = s /\ (\A b \in Client \ {c} : sv'[b] = sv[b]) /\ sv' \in [Client -> ServerClient]
  BY <1>1, <1>3, <1>4
<1> QED BY <1>2, <1>3, <1>5

\* An acknowledgement, whatever comes with it, keeps what is kept of the client.
LEMMA AckKeepsClient ==
  ASSUME Types, Types', NEW c \in Client,
         ClientInv(c, sv[c], cl[c], wire["up"][c], wire["down"][c]), cl' = cl,
         sv'[c].online = sv[c].online, sv'[c].sendseq = sv[c].sendseq,
         sv'[c].sendqueue = sv[c].sendqueue,
         sv[c].acknowledged =< sv'[c].acknowledged, sv'[c].acknowledged =< cl[c].gametic,
         WireInv(c, sv[c], cl[c], wire'["up"][c], wire'["down"][c])
  PROVE  ClientInv(c, sv'[c], cl'[c], wire'["up"][c], wire'["down"][c])
<1> USE DEF ClientInv
<1>0. sv'[c].acknowledged \in Nat
  BY DEF Types, ServerClient
<1>1. QueueInv(c, sv'[c])
  BY DEF QueueInv
<1>2. AheadInv(sv'[c], cl'[c])
  <2>1. AheadInv(sv[c], cl[c])
    OBVIOUS
  <2>2. /\ sv[c].acknowledged \in Nat /\ sv[c].sendseq \in Nat /\ cl[c].gametic \in Nat
        /\ cl[c].start \in Nat /\ cl[c].maketic \in Nat /\ MaxAhead \in Nat
    BY ClientTypes, Sizes
  <2> QED BY <1>0, <2>1, <2>2 DEF AheadInv
<1>3. WindowInv(c, sv'[c], cl'[c])
  BY DEF WindowInv
<1>4. GameInv(c, sv'[c], cl'[c])
  BY DEF GameInv
<1>5. WireInv(c, sv'[c], cl'[c], wire'["up"][c], wire'["down"][c])
  BY DEF WireInv
<1> QED BY <1>1, <1>2, <1>3, <1>4, <1>5

\* A datagram that came from client c.
LEMMA UpFacts ==
  ASSUME IInv, NEW c \in Client, NEW i \in DOMAIN wire["up"][c]
  PROVE  LET m == wire["up"][c][i] IN
         \/ /\ m.kind = "GAMEDATA" /\ m \in PlayerData
            /\ m.ack \in Nat /\ m.seq \in Nat /\ m.tics \in Seq(Nat)
            /\ m.ack =< cl[c].gametic /\ m.seq + Len(m.tics) =< cl[c].maketic
            /\ \A j \in 1 .. Len(m.tics) : m.tics[j] = m.seq + j - 1
         \/ m.kind = "GAMEDATA_ACK" /\ m.ack \in Nat /\ m.ack =< cl[c].gametic
         \/ /\ m.kind = "RESEND" /\ m.start \in Nat /\ m.num \in Nat
            /\ m.start + m.num =< sv[c].sendseq
<1>1. wire["up"][c][i] \in UpMsg(cl[c].gametic, cl[c].maketic, sv[c].sendseq)
  BY SeqElement DEF IInv, ClientInv, WireInv
<1> QED BY <1>1 DEF UpMsg, PlayerData, PlayerAck, Request

LEMMA DownFacts ==
  ASSUME IInv, NEW c \in Client, NEW i \in DOMAIN wire["down"][c]
  PROVE  LET m == wire["down"][c][i] IN
         \/ /\ m.kind = "GAMEDATA" /\ m.seq \in Nat /\ m.cmds \in Seq(Command)
            /\ m.seq + Len(m.cmds) =< sv[c].sendseq
            /\ \A j \in 1 .. Len(m.cmds) : m.cmds[j] \in FullCmd(c, m.seq + j - 1)
         \/ m.kind = "RESEND" /\ m.start \in Nat /\ m.num \in Nat
<1>1. wire["down"][c][i] \in DownMsg(c, sv[c].sendseq)
  BY SeqElement DEF IInv, ClientInv, WireInv
<1> QED BY <1>1 DEF DownMsg, ServerData, Request

\* The byte of a tic near the window stands for it.
LEMMA ByteExact ==
  ASSUME NEW first \in Nat, NEW t \in Nat, InReach(first, t)
  PROVE  ExpandTicNum(first, LowByte(t)) = t
BY ExpandExact DEF InReach

LEMMA ServerGameDataKeeps ==
  ASSUME IInv, NEW c \in Client, NEW i \in DOMAIN wire["up"][c],
         wire["up"][c][i].kind = "GAMEDATA", ServerGameData(c, i)
  PROVE  IInv'
<1> DEFINE m == wire["up"][c][i]
           got == InWindow(start, m.seq, Len(m.tics))
           received == Stored(recv[c], start, m.seq, m.tics)
           missed == Missed(start, m.seq, DOMAIN received, asked[c])
<1>1. Types /\ RecvInv /\ \A b \in Client : ClientInv(b, sv[b], cl[b], wire["up"][b], wire["down"][b])
  BY DEF IInv
<1>2. /\ m.ack \in Nat /\ m.seq \in Nat /\ m.tics \in Seq(Nat) /\ m.ack =< cl[c].gametic
      /\ m.seq + Len(m.tics) =< cl[c].maketic
      /\ \A j \in 1 .. Len(m.tics) : m.tics[j] = m.seq + j - 1
  BY UpFacts
<1>3. /\ ExpandTicNum(start, LowByte(m.ack)) = m.ack
      /\ ExpandTicNum(start, LowByte(m.seq)) = m.seq
  <2>1. InReach(start, m.ack) /\ InReach(start, m.seq) /\ start \in Nat
    BY <1>1 DEF ServerGameData, Types
  <2> QED BY <1>2, <2>1, ByteExact
<1>4. /\ UNCHANGED <<start, cl>>
      /\ recv' = [recv EXCEPT ![c] = received]
      /\ asked' = [asked EXCEPT ![c] = @ \cup missed]
      /\ sv' = [sv EXCEPT ![c].acknowledged = IF m.ack > @ THEN m.ack ELSE @]
      /\ Arrives("up", c, i, Requests(missed))
  BY <1>3 DEF ServerGameData
<1> HIDE DEF m
<1>5. /\ \A t : t \in DOMAIN received <=> t \in got \/ t \in DOMAIN recv[c]
      /\ \A t \in got : /\ t \in Window(start) /\ t >= m.seq /\ t < m.seq + Len(m.tics)
                        /\ received[t] = t
      /\ \A t \in DOMAIN recv[c] \ got : received[t] = recv[c][t]
  <2>1. start \in Nat /\ m.seq \in Nat /\ Len(m.tics) \in Nat
    BY <1>1, <1>2 DEF Types
  <2>2. \A t : t \in DOMAIN received <=> t \in got \/ t \in DOMAIN recv[c]
    BY StoredDomain
  <2>3. ASSUME NEW t \in DOMAIN recv[c] \ got PROVE received[t] = recv[c][t]
    BY StoredOld
  <2>4. ASSUME NEW t \in got
        PROVE  /\ t \in Window(start) /\ t >= m.seq /\ t < m.seq + Len(m.tics)
               /\ t - m.seq + 1 \in 1 .. Len(m.tics)
               /\ t = m.seq + (t - m.seq + 1) - 1
               /\ received[t] = m.tics[t - m.seq + 1]
    BY <2>1, StoredNew
  <2> HIDE DEF received, got
  <2> QED BY <1>2, <2>2, <2>3, <2>4
<1>6. \A t \in got : t \in Nat /\ t \in Window(start) /\ t \in 0 .. cl[c].maketic - 1
  <2>1. start \in Nat /\ cl[c].maketic \in Nat /\ m.seq \in Nat /\ Len(m.tics) \in Nat
    BY <1>1, <1>2, ClientTypes DEF Types
  <2> HIDE DEF got, received
  <2> QED BY <1>2, <1>5, <2>1 DEF Window
<1>7. missed \subseteq 0 .. m.seq - 1
  BY <1>1, <1>2, MissedType DEF Types
<1> HIDE DEF got, received, missed
<1>8. /\ recv' \in [Player -> Partial(Nat, Nat)] /\ asked' \in [Player -> SUBSET Nat]
      /\ \A p \in Player : /\ DOMAIN recv'[p] \subseteq Window(start) \cap (0 .. cl[p].maketic - 1)
                           /\ \A t \in DOMAIN recv'[p] : recv'[p][t] = t
                           /\ DOMAIN recv[p] \subseteq DOMAIN recv'[p]
  <2>1. recv \in [Player -> Partial(Nat, Nat)] /\ asked \in [Player -> SUBSET Nat]
    BY <1>1 DEF Types
  <2>2. \A p \in Player : /\ DOMAIN recv[p] \subseteq Window(start) \cap (0 .. cl[p].maketic - 1)
                          /\ \A t \in DOMAIN recv[p] : recv[p][t] = t
    BY <1>1 DEF RecvInv
  <2>3. CASE c \in Player
    <3>1. recv[c] \in [DOMAIN recv[c] -> Nat] /\ DOMAIN recv[c] \subseteq Nat
      BY <2>1, <2>3, PartialFacts
    <3>2. /\ DOMAIN received \subseteq Nat
          /\ DOMAIN received \subseteq Window(start) \cap (0 .. cl[c].maketic - 1)
          /\ \A t \in DOMAIN received : received[t] = t
      BY <1>5, <1>6, <2>2, <2>3, <3>1
    <3>5. received \in Partial(Nat, Nat)
      BY <1>1, <1>2, <2>1, <2>3, StoredType DEF Types, received
    <3>6. /\ recv' \in [Player -> Partial(Nat, Nat)]
          /\ recv'[c] = received /\ \A p \in Player \ {c} : recv'[p] = recv[p]
      BY <1>4, <2>1, <2>3, <3>5
    <3>7. asked' \in [Player -> SUBSET Nat]
      <4>1. \A t \in missed : t \in Nat
        BY <1>2, <1>7
      <4>2. asked[c] \cup missed \in SUBSET Nat
        BY <2>1, <2>3, <4>1
      <4> QED BY <1>4, <2>1, <4>2
    <3>8. DOMAIN recv[c] \subseteq DOMAIN received
      BY <1>5
    <3> QED BY <2>2, <3>2, <3>6, <3>7, <3>8
  <2>4. CASE c \notin Player
    <3>1. recv' = recv /\ asked' = asked
      BY <1>4, <2>1, <2>4
    <3> QED BY <2>1, <2>2, <3>1
  <2> QED BY <2>3, <2>4
<1>9. /\ sv' \in [Client -> ServerClient]
      /\ \A b \in Client \ {c} : sv'[b] = sv[b]
      /\ \A b \in Client : sv'[b].online = sv[b].online /\ sv'[b].sendseq = sv[b].sendseq
      /\ sv'[c].sendqueue = sv[c].sendqueue
      /\ sv'[c].acknowledged \in Nat
      /\ sv[c].acknowledged =< sv'[c].acknowledged /\ sv'[c].acknowledged =< cl[c].gametic
  <2>1. sv[c].acknowledged =< cl[c].gametic
    BY <1>1 DEF ClientInv, AheadInv
  <2> QED BY <1>1, <1>2, <1>4, <2>1, Acknowledges
<1>10. /\ faults' \in Nat
       /\ wire' \in [{"up", "down"} -> [Client -> Seq(Datagram)]]
       /\ \A b \in Client \ {c} : wire'["up"][b] = wire["up"][b] /\ wire'["down"][b] = wire["down"][b]
       /\ WireInv(c, sv[c], cl[c], wire'["up"][c], wire'["down"][c])
  <2>1. Requests(missed) \in Seq(Request) /\ Request \subseteq DownMsg(c, sv[c].sendseq)
    <3>1. Requests(missed) \in Seq({r \in Request : r.start + r.num =< m.seq})
      BY <1>2, <1>7, RequestsType
    <3> QED BY <3>1, SeqMono DEF DownMsg
  <2>2. Requests(missed) \in Seq(DownMsg(c, sv[c].sendseq))
    BY <2>1, SeqMono
  <2>3. Requests(missed) \in Seq(Datagram)
    BY <2>2, Datagrams
  <2>4. WireInv(c, sv[c], cl[c], wire["up"][c], wire["down"][c])
    BY <1>1 DEF ClientInv
  <2> QED BY <1>1, <1>4, <2>2, <2>3, <2>4, ArrivesEffect DEF WireInv, Types
<1>11. Types'
  BY <1>1, <1>4, <1>8, <1>9, <1>10 DEF Types
<1>12. RecvInv'
  <2>1. \A b \in Client : start =< sv[b].acknowledged => start =< sv'[b].acknowledged
    <3>1. \A b \in Client : sv[b].acknowledged =< sv'[b].acknowledged /\ sv[b].acknowledged \in Nat
      BY <1>1, <1>9, ClientTypes
    <3> QED BY <1>1, <1>9, <3>1 DEF Types, ServerClient
  <2> QED BY <1>1, <1>4, <1>8, <1>9, <2>1 DEF RecvInv, Online
<1>13. ASSUME NEW b \in Client
       PROVE  ClientInv(b, sv'[b], cl'[b], wire'["up"][b], wire'["down"][b])
  <2>1. CASE b = c
    BY <1>1, <1>4, <1>9, <1>10, <1>11, <2>1, AckKeepsClient
  <2>2. CASE b # c
    BY <1>1, <1>4, <1>9, <1>10, <2>2, ClientFrame
  <2> QED BY <2>1, <2>2
<1> QED BY <1>11, <1>12, <1>13 DEF IInv

LEMMA ServerGameDataACKKeeps ==
  ASSUME IInv, NEW c \in Client, NEW i \in DOMAIN wire["up"][c],
         wire["up"][c][i].kind = "GAMEDATA_ACK", ServerGameDataACK(c, i)
  PROVE  IInv'
<1> DEFINE m == wire["up"][c][i]
<1>1. Types /\ RecvInv /\ \A b \in Client : ClientInv(b, sv[b], cl[b], wire["up"][b], wire["down"][b])
  BY DEF IInv
<1>2. m.ack \in Nat /\ m.ack =< cl[c].gametic
  BY UpFacts
<1>3. ExpandTicNum(start, LowByte(m.ack)) = m.ack
  <2>1. InReach(start, m.ack) /\ start \in Nat
    BY <1>1 DEF ServerGameDataACK, Types
  <2> QED BY <1>2, <2>1, ByteExact
<1>4. /\ UNCHANGED <<start, recv, asked, cl>>
      /\ sv' = [sv EXCEPT ![c].acknowledged = IF m.ack > @ THEN m.ack ELSE @]
      /\ Arrives("up", c, i, << >>)
  BY <1>3 DEF ServerGameDataACK
<1> HIDE DEF m
<1>5. /\ sv' \in [Client -> ServerClient]
      /\ \A b \in Client \ {c} : sv'[b] = sv[b]
      /\ \A b \in Client : sv'[b].online = sv[b].online /\ sv'[b].sendseq = sv[b].sendseq
      /\ sv'[c].sendqueue = sv[c].sendqueue
      /\ sv'[c].acknowledged \in Nat
      /\ sv[c].acknowledged =< sv'[c].acknowledged /\ sv'[c].acknowledged =< cl[c].gametic
  <2>1. sv[c].acknowledged =< cl[c].gametic
    BY <1>1 DEF ClientInv, AheadInv
  <2> QED BY <1>1, <1>2, <1>4, <2>1, Acknowledges
<1>6. /\ faults' \in Nat
      /\ wire' \in [{"up", "down"} -> [Client -> Seq(Datagram)]]
      /\ \A b \in Client \ {c} : wire'["up"][b] = wire["up"][b] /\ wire'["down"][b] = wire["down"][b]
      /\ WireInv(c, sv[c], cl[c], wire'["up"][c], wire'["down"][c])
  <2>1. << >> \in Seq(DownMsg(c, sv[c].sendseq)) /\ << >> \in Seq(Datagram)
    OBVIOUS
  <2>2. WireInv(c, sv[c], cl[c], wire["up"][c], wire["down"][c])
    BY <1>1 DEF ClientInv
  <2> QED BY <1>1, <1>4, <2>1, <2>2, ArrivesEffect DEF WireInv, Types
<1>7. Types'
  BY <1>1, <1>4, <1>5, <1>6 DEF Types
<1>8. RecvInv'
  <2>1. \A b \in Client : start =< sv[b].acknowledged => start =< sv'[b].acknowledged
    <3>1. \A b \in Client : sv[b].acknowledged =< sv'[b].acknowledged /\ sv[b].acknowledged \in Nat
      BY <1>1, <1>5, ClientTypes
    <3> QED BY <1>1, <1>5, <3>1 DEF Types, ServerClient
  <2> QED BY <1>1, <1>4, <1>5, <2>1 DEF RecvInv, Online
<1>9. ASSUME NEW b \in Client
      PROVE  ClientInv(b, sv'[b], cl'[b], wire'["up"][b], wire'["down"][b])
  <2>1. CASE b = c
    BY <1>1, <1>4, <1>5, <1>6, <1>7, <2>1, AckKeepsClient
  <2>2. CASE b # c
    BY <1>1, <1>4, <1>5, <1>6, <2>2, ClientFrame
  <2> QED BY <2>1, <2>2
<1> QED BY <1>7, <1>8, <1>9 DEF IInv

\* NET_SV_SendTics sends what the places of the send queue hold: right when
\* they hold the tics first to last.
LEMMA SendTicsType ==
  ASSUME NEW c \in Client, NEW s \in ServerClient, QueueInv(c, s),
         NEW first \in Nat, NEW last \in Int, first =< last + 1, last < s.sendseq,
         \A t \in first .. last : s.sendqueue[Slot(t)].seq = t
  PROVE  /\ SendTics(s.sendqueue, first, last) \in DownMsg(c, s.sendseq)
         /\ SendTics(s.sendqueue, first, last) \in Datagram
<1> DEFINE n == last - first + 1
           cmds == [i \in 1 .. n |-> s.sendqueue[Slot(first + i - 1)].cmds]
<1>1. n \in Nat /\ s.sendseq \in Nat /\ s.sendqueue \in [0 .. BackupTics - 1 -> Entry]
  BY DEF ServerClient
<1>2. ASSUME NEW i \in 1 .. n
      PROVE  /\ s.sendqueue[Slot(first + i - 1)].cmds \in Command
             /\ s.sendqueue[Slot(first + i - 1)].cmds \in FullCmd(c, first + i - 1)
  <2>1. first + i - 1 \in Nat /\ first + i - 1 \in first .. last
    OBVIOUS
  <2>2. PICK t \in Nat : t = first + i - 1 /\ t \in first .. last
    BY <2>1
  <2>3. Slot(t) \in 0 .. BackupTics - 1 /\ s.sendqueue[Slot(t)].seq = t /\ t # -1
    BY <2>2, SlotType
  <2>4. s.sendqueue[Slot(t)].cmds \in Command
    BY <1>1, <2>3 DEF Entry
  <2>5. s.sendqueue[Slot(t)].cmds \in FullCmd(c, t)
    BY <2>3 DEF QueueInv
  <2> QED BY <2>2, <2>4, <2>5
<1>3. SendTics(s.sendqueue, first, last) = [kind |-> "GAMEDATA", seq |-> first, cmds |-> cmds]
  BY DEF SendTics, FullTics
<1> HIDE DEF n
<1>4. cmds \in Seq(Command) /\ Len(cmds) = n /\ \A i \in 1 .. n : cmds[i] \in FullCmd(c, first + i - 1)
  <2>1. cmds \in [1 .. n -> Command]
    BY <1>2
  <2>2. \A i \in 1 .. n : cmds[i] \in FullCmd(c, first + i - 1)
    BY <1>2
  <2> HIDE DEF cmds
  <2> QED BY <1>1, <2>1, <2>2
<1> HIDE DEF cmds
<1>5. first + n =< s.sendseq
  BY <1>1 DEF n
<1>6. SendTics(s.sendqueue, first, last) \in ServerData
  BY <1>3, <1>4 DEF ServerData
<1> QED BY <1>3, <1>4, <1>5, <1>6 DEF DownMsg, Datagram

LEMMA ServerResendKeeps ==
  ASSUME IInv, NEW c \in Client, NEW i \in DOMAIN wire["up"][c],
         wire["up"][c][i].kind = "RESEND", ServerResend(c, i)
  PROVE  IInv'
<1> DEFINE m == wire["up"][c][i]
           last == m.start + m.num - 1
           answers == IF \A t \in m.start .. last : sv[c].sendqueue[Slot(t)].seq = t
                      THEN <<SendTics(sv[c].sendqueue, m.start, last)>> ELSE << >>
<1>1. Types /\ RecvInv /\ \A b \in Client : ClientInv(b, sv[b], cl[b], wire["up"][b], wire["down"][b])
  BY DEF IInv
<1>2. m.start \in Nat /\ m.num \in Nat /\ m.start + m.num =< sv[c].sendseq
  BY UpFacts
<1>3. UNCHANGED <<start, recv, asked, sv, cl>> /\ Arrives("up", c, i, answers)
  BY DEF ServerResend
<1>4. answers \in Seq(DownMsg(c, sv[c].sendseq)) /\ answers \in Seq(Datagram)
  <2>1. CASE \A t \in m.start .. last : sv[c].sendqueue[Slot(t)].seq = t
    <3>1. sv[c] \in ServerClient /\ QueueInv(c, sv[c]) /\ sv[c].sendseq \in Nat
      BY <1>1, ClientTypes DEF ClientInv
    <3>2. last \in Int /\ m.start =< last + 1 /\ last < sv[c].sendseq
      <4> HIDE DEF m
      <4> QED BY <1>2, <3>1
    <3>3. /\ SendTics(sv[c].sendqueue, m.start, last) \in DownMsg(c, sv[c].sendseq)
          /\ SendTics(sv[c].sendqueue, m.start, last) \in Datagram
      <4> DEFINE s == sv[c]
                 f == m.start
                 l == last
      <4>1. \A t \in f .. l : s.sendqueue[Slot(t)].seq = t
        BY <2>1
      <4>2. /\ s \in ServerClient /\ QueueInv(c, s) /\ f \in Nat /\ l \in Int
            /\ f =< l + 1 /\ l < s.sendseq
        BY <1>2, <3>1, <3>2
      <4>3. /\ SendTics(s.sendqueue, f, l) \in DownMsg(c, s.sendseq)
            /\ SendTics(s.sendqueue, f, l) \in Datagram
        <5> HIDE DEF s, f, l
        <5> QED BY <4>1, <4>2, SendTicsType
      <4> QED BY <4>3
    <3>4. answers = <<SendTics(sv[c].sendqueue, m.start, last)>>
      BY <2>1
    <3> HIDE DEF answers
    <3> QED BY <3>3, <3>4
  <2>2. CASE ~ \A t \in m.start .. last : sv[c].sendqueue[Slot(t)].seq = t
    <3>1. answers = << >>
      BY <2>2
    <3> HIDE DEF answers
    <3> QED BY <3>1
  <2> QED BY <2>1, <2>2
<1> HIDE DEF answers
<1>6. /\ faults' \in Nat
      /\ wire' \in [{"up", "down"} -> [Client -> Seq(Datagram)]]
      /\ \A b \in Client \ {c} : wire'["up"][b] = wire["up"][b] /\ wire'["down"][b] = wire["down"][b]
      /\ WireInv(c, sv[c], cl[c], wire'["up"][c], wire'["down"][c])
  <2>2. WireInv(c, sv[c], cl[c], wire["up"][c], wire["down"][c])
    BY <1>1 DEF ClientInv
  <2> QED BY <1>1, <1>3, <1>4, <2>2, ArrivesEffect DEF WireInv, Types
<1>7. Types'
  BY <1>1, <1>3, <1>6 DEF Types
<1>8. RecvInv'
  BY <1>1, <1>3 DEF RecvInv, Online
<1>9. ASSUME NEW b \in Client
      PROVE  ClientInv(b, sv'[b], cl'[b], wire'["up"][b], wire'["down"][b])
  <2>1. CASE b = c
    BY <1>1, <1>3, <1>6, <2>1 DEF ClientInv
  <2>2. CASE b # c
    BY <1>1, <1>3, <1>6, <2>2, ClientFrame
  <2> QED BY <2>1, <2>2
<1> QED BY <1>7, <1>8, <1>9 DEF IInv

LEMMA ServerReceiveKeeps ==
  ASSUME IInv, NEW c \in Client, ServerReceive(c)
  PROVE  IInv'
<1>1. PICK i \in DOMAIN wire["up"][c] :
        CASE wire["up"][c][i].kind = "GAMEDATA" -> ServerGameData(c, i)
          [] wire["up"][c][i].kind = "GAMEDATA_ACK" -> ServerGameDataACK(c, i)
          [] wire["up"][c][i].kind = "RESEND" -> ServerResend(c, i)
  BY DEF ServerReceive
<1>2. wire["up"][c][i].kind \in {"GAMEDATA", "GAMEDATA_ACK", "RESEND"}
  BY UpFacts
<1>3. CASE wire["up"][c][i].kind = "GAMEDATA"
  <2>1. ServerGameData(c, i)
    BY <1>1, <1>3
  <2> QED BY <1>3, <2>1, ServerGameDataKeeps
<1>4. CASE wire["up"][c][i].kind = "GAMEDATA_ACK"
  <2>1. ServerGameDataACK(c, i)
    BY <1>1, <1>4
  <2> QED BY <1>4, <2>1, ServerGameDataACKKeeps
<1>5. CASE wire["up"][c][i].kind = "RESEND"
  <2>1. ServerResend(c, i)
    BY <1>1, <1>5
  <2> QED BY <1>5, <2>1, ServerResendKeeps
<1> QED BY <1>2, <1>3, <1>4, <1>5

---------------------------------------------------------------------------
(* What a client does with a datagram of the server.                       *)

\* A change of one client's part.
LEMMA ChangeClient ==
  ASSUME cl \in [Client -> GameClient], NEW c \in Client, NEW k \in GameClient,
         cl' = [cl EXCEPT ![c] = k]
  PROVE  /\ cl' \in [Client -> GameClient] /\ cl'[c] = k
         /\ \A b \in Client \ {c} : cl'[b] = cl[b]
OBVIOUS

LEMMA ClientGameDataKeeps ==
  ASSUME IInv, NEW c \in Client, NEW i \in DOMAIN wire["down"][c],
         wire["down"][c][i].kind = "GAMEDATA", ClientGameData(c, i)
  PROVE  IInv'
<1> DEFINE m == wire["down"][c][i]
           k == cl[c]
           got == InWindow(k.start, m.seq, Len(m.cmds))
           received == Stored(k.window, k.start, m.seq, m.cmds)
           missed == Missed(k.start, m.seq, DOMAIN received, k.asked)
           k2 == [k EXCEPT !.window = received, !.asked = k.asked \cup missed, !.owes = TRUE]
<1>1. Types /\ RecvInv /\ \A b \in Client : ClientInv(b, sv[b], cl[b], wire["up"][b], wire["down"][b])
  BY DEF IInv
<1>2. /\ m.seq \in Nat /\ m.cmds \in Seq(Command)
      /\ m.seq + Len(m.cmds) =< sv[c].sendseq
      /\ \A j \in 1 .. Len(m.cmds) : m.cmds[j] \in FullCmd(c, m.seq + j - 1)
  BY DownFacts
<1>3. ExpandTicNum(k.start, LowByte(m.seq)) = m.seq
  <2>1. InReach(k.start, m.seq) /\ k.start \in Nat
    BY <1>1, ClientTypes DEF ClientGameData
  <2> QED BY <1>2, <2>1, ByteExact
<1>4. /\ UNCHANGED <<start, recv, asked, sv>>
      /\ cl' = [cl EXCEPT ![c] = k2]
      /\ Arrives("down", c, i, Requests(missed))
  BY <1>3 DEF ClientGameData
<1>5. k \in GameClient /\ k.start \in Nat /\ k.window \in Partial(Nat, Command)
      /\ k.asked \subseteq Nat /\ sv[c].sendseq \in Nat
  BY <1>1, ClientTypes
<1>6. WindowInv(c, sv[c], k) /\ QueueInv(c, sv[c]) /\ AheadInv(sv[c], k) /\ GameInv(c, sv[c], k)
      /\ WireInv(c, sv[c], k, wire["up"][c], wire["down"][c])
  BY <1>1 DEF ClientInv
<1> HIDE DEF m, k
<1>7. /\ \A t : t \in DOMAIN received <=> t \in got \/ t \in DOMAIN k.window
      /\ \A t \in DOMAIN k.window \ got : received[t] = k.window[t]
      /\ \A t \in got : /\ t \in Window(k.start) /\ t < sv[c].sendseq
                        /\ received[t] \in FullCmd(c, t)
  <2>1. m.seq \in Nat /\ Len(m.cmds) \in Nat
    BY <1>2
  <2>2. \A t : t \in DOMAIN received <=> t \in got \/ t \in DOMAIN k.window
    BY StoredDomain
  <2>3. ASSUME NEW t \in DOMAIN k.window \ got PROVE received[t] = k.window[t]
    BY StoredOld
  <2>4. ASSUME NEW t \in got
        PROVE  /\ t \in Window(k.start) /\ t >= m.seq /\ t < m.seq + Len(m.cmds)
               /\ t - m.seq + 1 \in 1 .. Len(m.cmds)
               /\ t = m.seq + (t - m.seq + 1) - 1
               /\ received[t] = m.cmds[t - m.seq + 1]
    BY <1>5, <2>1, StoredNew
  <2> HIDE DEF received, got
  <2>5. ASSUME NEW t \in got
        PROVE  t < sv[c].sendseq /\ received[t] \in FullCmd(c, t)
    <3>1. t \in Int
      BY <1>5, <2>4, Sizes DEF Window
    <3>2. PICK j \in 1 .. Len(m.cmds) : j = t - m.seq + 1
      BY <2>4
    <3>3. m.cmds[j] \in FullCmd(c, m.seq + j - 1)
      BY <1>2
    <3>4. m.seq + j - 1 = t
      BY <2>4, <3>2
    <3>5. received[t] = m.cmds[j]
      BY <2>4, <3>2
    <3>6. t < sv[c].sendseq
      BY <1>2, <1>5, <2>1, <2>4, <3>1
    <3> QED BY <3>3, <3>4, <3>5, <3>6
  <2> QED BY <2>2, <2>3, <2>4, <2>5
<1>8. missed \subseteq 0 .. m.seq - 1 /\ received \in Partial(Nat, Command)
  BY <1>2, <1>5, MissedType, StoredType
<1> HIDE DEF got, received, missed
<1>9. /\ k2 \in GameClient
      /\ k2.window = received /\ k2.asked = k.asked \cup missed
      /\ k2.start = k.start /\ k2.gametic = k.gametic /\ k2.maketic = k.maketic
      /\ k2.playing = k.playing /\ k2.playeringame = k.playeringame
      /\ k2.netcmds = k.netcmds /\ k2.ran = k.ran
  <2>1. \A t \in missed : t \in Nat
    BY <1>2, <1>8
  <2>2. k.asked \cup missed \in SUBSET Nat
    BY <1>5, <2>1
  <2> QED BY <1>5, <1>8, <2>2 DEF GameClient
<1> HIDE DEF k2
<1>10. /\ cl' \in [Client -> GameClient] /\ cl'[c] = k2
       /\ \A b \in Client \ {c} : cl'[b] = cl[b]
  BY <1>1, <1>4, <1>9, ChangeClient DEF Types
<1>11. WindowInv(c, sv[c], k2)
  <2>1. missed \subseteq 0 .. sv[c].sendseq - 1
    <3>1. Len(m.cmds) \in Nat
      BY <1>2
    <3> QED BY <1>2, <1>5, <1>8, <3>1
  <2>2. DOMAIN received \subseteq Window(k.start) \cap (0 .. sv[c].sendseq - 1)
    <3>1. ASSUME NEW t \in got PROVE t \in 0 .. sv[c].sendseq - 1
      <4>1. t \in Window(k.start) /\ t < sv[c].sendseq
        BY <1>7
      <4> QED BY <1>5, <4>1, Sizes DEF Window
    <3> QED BY <1>6, <1>7, <3>1 DEF WindowInv
  <2>3. \A t \in DOMAIN received : received[t] \in FullCmd(c, t)
    BY <1>6, <1>7 DEF WindowInv
  <2> QED BY <1>6, <1>9, <2>1, <2>2, <2>3 DEF WindowInv
<1>12. AheadInv(sv[c], k2) /\ GameInv(c, sv[c], k2)
  BY <1>6, <1>9 DEF AheadInv, GameInv
<1>13. /\ faults' \in Nat
       /\ wire' \in [{"up", "down"} -> [Client -> Seq(Datagram)]]
       /\ \A b \in Client \ {c} : wire'["up"][b] = wire["up"][b] /\ wire'["down"][b] = wire["down"][b]
       /\ WireInv(c, sv[c], k2, wire'["up"][c], wire'["down"][c])
  <2> DEFINE U == UpMsg(k.gametic, k.maketic, sv[c].sendseq)
  <2>1. Requests(missed) \in Seq(U)
    <3>1. Requests(missed) \in Seq({r \in Request : r.start + r.num =< m.seq})
      BY <1>2, <1>8, RequestsType
    <3>2. Len(m.cmds) \in Nat
      BY <1>2
    <3>3. ASSUME NEW r \in Request, r.start + r.num =< m.seq PROVE r \in U
      <4>1. r.start \in Nat /\ r.num \in Nat
        BY DEF Request
      <4>2. r.start + r.num =< sv[c].sendseq
        BY <1>2, <1>5, <3>2, <3>3, <4>1
      <4> QED BY <4>2 DEF UpMsg
    <3>4. {r \in Request : r.start + r.num =< m.seq} \subseteq U
      BY <3>3
    <3> HIDE DEF U
    <3> QED BY <3>1, <3>4, SeqMono
  <2>2. Requests(missed) \in Seq(Datagram)
    BY <2>1, Datagrams
  <2>3. wire["up"][c] \in Seq(U) /\ wire["down"][c] \in Seq(DownMsg(c, sv[c].sendseq))
    BY <1>6 DEF WireInv
  <2> HIDE DEF U
  <2>4. wire \in [{"up", "down"} -> [Client -> Seq(Datagram)]] /\ faults \in Nat
    BY <1>1 DEF Types
  <2>5. /\ faults' \in Nat
        /\ wire' \in [{"up", "down"} -> [Client -> Seq(Datagram)]]
        /\ \A b \in Client \ {c} : wire'["up"][b] = wire["up"][b] /\ wire'["down"][b] = wire["down"][b]
        /\ wire'["up"][c] \in Seq(U) /\ wire'["down"][c] \in Seq(DownMsg(c, sv[c].sendseq))
    BY <1>4, <2>1, <2>2, <2>3, <2>4, ArrivesEffect
  <2> QED BY <1>9, <2>5 DEF WireInv, U
<1>14. Types'
  BY <1>1, <1>4, <1>10, <1>13 DEF Types
<1>15. RecvInv'
  <2>1. \A p \in Player : cl'[p].maketic = cl[p].maketic
    BY <1>9, <1>10 DEF Client, k
  <2> QED BY <1>1, <1>4, <2>1 DEF RecvInv, Online
<1>16. ASSUME NEW b \in Client
       PROVE  ClientInv(b, sv'[b], cl'[b], wire'["up"][b], wire'["down"][b])
  <2>1. CASE b = c
    BY <1>4, <1>6, <1>10, <1>11, <1>12, <1>13, <2>1 DEF ClientInv
  <2>2. CASE b # c
    BY <1>1, <1>4, <1>10, <1>13, <2>2, ClientFrame
  <2> QED BY <2>1, <2>2
<1> QED BY <1>14, <1>15, <1>16 DEF IInv

LEMMA ClientResendKeeps ==
  ASSUME IInv, NEW c \in Client, NEW i \in DOMAIN wire["down"][c],
         wire["down"][c][i].kind = "RESEND", ClientResend(c, i)
  PROVE  IInv'
<1> DEFINE m == wire["down"][c][i]
           k == cl[c]
           tics == {t \in m.start .. m.start + m.num - 1 : InSendQueue(c, t)}
           n == Cardinality(tics)
           sends == c \in Player /\ tics # {}
           data == GameData(c, Min(tics), [j \in 1 .. n |-> Min(tics) + j - 1])
           answers == IF sends THEN <<data>> ELSE << >>
           k2 == [k EXCEPT !.owes = FALSE]
           U == UpMsg(k.gametic, k.maketic, sv[c].sendseq)
<1>1. Types /\ RecvInv /\ \A b \in Client : ClientInv(b, sv[b], cl[b], wire["up"][b], wire["down"][b])
  BY DEF IInv
<1>2. m.start \in Nat /\ m.num \in Nat
  BY DownFacts
<1>3. /\ UNCHANGED <<start, recv, asked, sv>>
      /\ Arrives("down", c, i, answers)
      /\ cl' = IF sends THEN [cl EXCEPT ![c] = k2] ELSE cl
  BY DEF ClientResend
<1>4. k \in GameClient /\ k.gametic \in Nat /\ k.maketic \in Nat
  BY <1>1, ClientTypes
<1>5. QueueInv(c, sv[c]) /\ AheadInv(sv[c], k) /\ WindowInv(c, sv[c], k) /\ GameInv(c, sv[c], k)
      /\ WireInv(c, sv[c], k, wire["up"][c], wire["down"][c])
  BY <1>1 DEF ClientInv
<1>6. ASSUME sends PROVE data \in U /\ data \in Datagram
  <2> DEFINE q == [j \in 1 .. n |-> Min(tics) + j - 1]
  <2>1. \A t \in tics : t \in Nat /\ t < k.maketic
    <3> HIDE DEF m, k
    <3> QED BY <1>2 DEF InSendQueue, k
  <2> HIDE DEF tics
  <2>2. Min(tics) \in tics /\ \A t \in tics : Min(tics) =< t
    BY <1>6, <2>1, MinFacts
  <2>3. Min(tics) \in Nat
    BY <2>1, <2>2
  <2>4. n \in Nat /\ Min(tics) + n =< k.maketic
    <3> DEFINE a == Min(tics)
    <3> HIDE DEF a, n, k
    <3>1. tics \in SUBSET (a .. k.maketic - 1)
      BY <1>4, <2>1, <2>2, <2>3 DEF a
    <3>2. a \in Int /\ k.maketic - 1 \in Int /\ a =< k.maketic - 1
      BY <1>4, <2>1, <2>2, <2>3 DEF a
    <3>3. /\ IsFiniteSet(a .. k.maketic - 1)
          /\ Cardinality(a .. k.maketic - 1) = k.maketic - 1 - a + 1
      BY <3>2, FS_Interval
    <3>4. n \in Nat /\ n =< k.maketic - 1 - a + 1
      BY <3>1, <3>3, FS_Subset, FS_CardinalityType DEF n
    <3> QED BY <1>4, <3>2, <3>4 DEF a
  <2> HIDE DEF n
  <2>5. q \in Seq(Nat) /\ Len(q) = n /\ \A j \in 1 .. n : q[j] = Min(tics) + j - 1
    <3>1. q \in [1 .. n -> Nat]
      BY <2>3, <2>4
    <3>2. \A j \in 1 .. n : q[j] = Min(tics) + j - 1
      OBVIOUS
    <3> HIDE DEF q
    <3> QED BY <2>4, <3>1, <3>2
  <2>6. data = [kind |-> "GAMEDATA", ack |-> k.gametic, seq |-> Min(tics), tics |-> q]
    BY DEF GameData
  <2> HIDE DEF q, data, k
  <2>7. data \in PlayerData
    BY <1>4, <2>3, <2>5, <2>6 DEF PlayerData
  <2>8. data.ack =< k.gametic /\ data.seq + Len(data.tics) =< k.maketic
        /\ \A j \in 1 .. Len(data.tics) : data.tics[j] = data.seq + j - 1
    BY <1>4, <2>4, <2>5, <2>6
  <2> QED BY <2>7, <2>8 DEF UpMsg, Datagram
<1> HIDE DEF tics, n, data, U
<1>7. answers \in Seq(U) /\ answers \in Seq(Datagram)
  <2>1. CASE sends
    BY <1>6, <2>1
  <2>2. CASE ~ sends
    <3>1. answers = << >>
      BY <2>2
    <3> HIDE DEF answers
    <3> QED BY <3>1
  <2> QED BY <2>1, <2>2
<1> HIDE DEF answers, m
<1>8. /\ k2 \in GameClient
      /\ k2.window = k.window /\ k2.asked = k.asked
      /\ k2.start = k.start /\ k2.gametic = k.gametic /\ k2.maketic = k.maketic
      /\ k2.playing = k.playing /\ k2.playeringame = k.playeringame
      /\ k2.netcmds = k.netcmds /\ k2.ran = k.ran
  <2> HIDE DEF k
  <2> QED BY <1>4 DEF GameClient
<1> HIDE DEF k2, k, sends
<1>9. /\ cl' \in [Client -> GameClient]
      /\ cl'[c] = k2 \/ cl'[c] = k
      /\ \A b \in Client \ {c} : cl'[b] = cl[b]
  BY <1>1, <1>3, <1>8, ChangeClient DEF Types, k
<1>10. QueueInv(c, sv[c]) /\ AheadInv(sv[c], k2) /\ WindowInv(c, sv[c], k2) /\ GameInv(c, sv[c], k2)
  BY <1>5, <1>8 DEF AheadInv, WindowInv, GameInv
<1>11. /\ faults' \in Nat
       /\ wire' \in [{"up", "down"} -> [Client -> Seq(Datagram)]]
       /\ \A b \in Client \ {c} : wire'["up"][b] = wire["up"][b] /\ wire'["down"][b] = wire["down"][b]
       /\ wire'["up"][c] \in Seq(U) /\ wire'["down"][c] \in Seq(DownMsg(c, sv[c].sendseq))
  <2>1. wire["up"][c] \in Seq(U) /\ wire["down"][c] \in Seq(DownMsg(c, sv[c].sendseq))
    BY <1>5 DEF WireInv, U
  <2>2. wire \in [{"up", "down"} -> [Client -> Seq(Datagram)]] /\ faults \in Nat
    BY <1>1 DEF Types
  <2> QED BY <1>3, <1>7, <2>1, <2>2, ArrivesEffect
<1>12. Types'
  BY <1>1, <1>3, <1>9, <1>11 DEF Types
<1>13. RecvInv'
  <2>1. \A p \in Player : cl'[p].maketic = cl[p].maketic
    BY <1>8, <1>9 DEF Client, k
  <2> QED BY <1>1, <1>3, <2>1 DEF RecvInv, Online
<1>14. ASSUME NEW b \in Client
       PROVE  ClientInv(b, sv'[b], cl'[b], wire'["up"][b], wire'["down"][b])
  <2>1. CASE b = c
    <3>1. WireInv(c, sv[c], k, wire'["up"][c], wire'["down"][c])
          /\ WireInv(c, sv[c], k2, wire'["up"][c], wire'["down"][c])
      BY <1>8, <1>11 DEF WireInv, U
    <3> QED BY <1>3, <1>5, <1>9, <1>10, <2>1, <3>1 DEF ClientInv
  <2>2. CASE b # c
    BY <1>1, <1>3, <1>9, <1>11, <2>2, ClientFrame
  <2> QED BY <2>1, <2>2
<1> QED BY <1>12, <1>13, <1>14 DEF IInv

LEMMA ClientReceiveKeeps ==
  ASSUME IInv, NEW c \in Client, ClientReceive(c)
  PROVE  IInv'
<1>1. PICK i \in DOMAIN wire["down"][c] :
        IF wire["down"][c][i].kind = "RESEND" THEN ClientResend(c, i) ELSE ClientGameData(c, i)
  BY DEF ClientReceive
<1>2. CASE wire["down"][c][i].kind = "RESEND"
  BY <1>1, <1>2, ClientResendKeeps
<1>3. CASE wire["down"][c][i].kind # "RESEND"
  <2>1. wire["down"][c][i].kind = "GAMEDATA"
    BY <1>3, DownFacts
  <2> QED BY <1>1, <1>3, <2>1, ClientGameDataKeeps
<1> QED BY <1>2, <1>3

---------------------------------------------------------------------------
(* The game loop of a client.                                              *)

\* A player's number of tics is at least the lowest one.
LEMMA LowTicFacts ==
  ASSUME NEW c \in Client, NEW k \in GameClient, NEW p \in k.playeringame
  PROVE  /\ NetTic(c, k, p) \in Nat /\ LowTic(c, k) \in Nat
         /\ LowTic(c, k) =< NetTic(c, k, p)
<1> DEFINE S == {NetTic(c, k, q) : q \in k.playeringame}
<1>1. /\ k.playeringame \subseteq Player /\ k.maketic \in Nat
      /\ k.netcmds \in [Player -> Seq(Nat)]
  BY DEF GameClient
<1>2. ASSUME NEW q \in k.playeringame PROVE NetTic(c, k, q) \in Nat
  <2>1. Len(k.netcmds[q]) \in Nat
    BY <1>1
  <2> QED BY <1>1, <2>1 DEF NetTic
<1>3. S \subseteq Nat /\ NetTic(c, k, p) \in S
  BY <1>2
<1>4. LowTic(c, k) = Min(S)
  BY DEF LowTic
<1> HIDE DEF S
<1>5. Min(S) \in S /\ \A n \in S : Min(S) =< n
  BY <1>3, MinFacts
<1> QED BY <1>3, <1>4, <1>5

\* The command that the game runs a tic with.
LEMMA RunCommand ==
  ASSUME NEW c \in Client, NEW k \in GameClient, k.gametic < LowTic(c, k)
  PROVE  [p \in k.playeringame |-> IF p = c THEN k.gametic ELSE k.netcmds[p][k.gametic + 1]]
           \in Command
<1> DEFINE g == k.gametic
           f == [p \in k.playeringame |-> IF p = c THEN g ELSE k.netcmds[p][g + 1]]
<1>1. /\ k.playeringame \subseteq Player /\ g \in Nat
      /\ k.netcmds \in [Player -> Seq(Nat)]
  BY DEF GameClient
<1> HIDE DEF g
<1>2. ASSUME NEW p \in k.playeringame
      PROVE  (IF p = c THEN g ELSE k.netcmds[p][g + 1]) \in Nat
  <2>1. CASE p = c
    BY <1>1, <2>1
  <2>2. CASE p # c
    <3>1. NetTic(c, k, p) = Len(k.netcmds[p]) /\ k.netcmds[p] \in Seq(Nat)
      BY <1>1, <2>2 DEF NetTic
    <3>2. g < Len(k.netcmds[p])
      BY <1>1, <3>1, LowTicFacts DEF g
    <3>3. g + 1 \in 1 .. Len(k.netcmds[p])
      BY <1>1, <3>1, <3>2
    <3> QED BY <2>2, <3>1, <3>3
  <2> QED BY <2>1, <2>2
<1>3. f \in [k.playeringame -> Nat] /\ DOMAIN f = k.playeringame
  BY <1>2
<1> HIDE DEF f
<1>4. f \in Partial(Player, Nat)
  BY <1>1, <1>3, PartialFacts
<1> QED BY <1>4 DEF Command, f, g

\* D_MiniLoop runs one tic, or none.
LEMMA RunTicFacts ==
  ASSUME NEW c \in Client, NEW k \in GameClient, Len(k.ran) = k.gametic
  PROVE  LET r == RunTic(c, k) IN
         /\ r \in GameClient
         /\ r.playing = k.playing /\ r.maketic = k.maketic /\ r.start = k.start
         /\ r.window = k.window /\ r.asked = k.asked /\ r.playeringame = k.playeringame
         /\ r.netcmds = k.netcmds
         /\ Len(r.ran) = r.gametic
         /\ \/ r.gametic = k.gametic /\ r.ran = k.ran
            \/ /\ r.gametic = k.gametic + 1 /\ k.playeringame # {} /\ k.gametic < LowTic(c, k)
               /\ \A g \in 1 .. k.gametic : r.ran[g] = k.ran[g]
               /\ r.ran[k.gametic + 1] =
                    [p \in k.playeringame |->
                       IF p = c THEN k.gametic ELSE k.netcmds[p][k.gametic + 1]]
<1> DEFINE g == k.gametic
           f == [p \in k.playeringame |-> IF p = c THEN g ELSE k.netcmds[p][g + 1]]
           q == Append(k.ran, f)
           r == [k EXCEPT !.gametic = g + 1, !.ran = q]
<1>1. CASE k.playeringame = {} \/ g >= LowTic(c, k)
  <2>1. RunTic(c, k) = k
    BY <1>1 DEF RunTic
  <2> QED BY <2>1
<1>2. CASE ~ (k.playeringame = {} \/ g >= LowTic(c, k))
  <2>1. RunTic(c, k) = r
    BY <1>2 DEF RunTic
  <2>2. g \in Nat /\ k.ran \in Seq(Command) /\ k.playeringame # {} /\ g < LowTic(c, k)
    <3>1. PICK p \in k.playeringame : TRUE
      BY <1>2
    <3>2. LowTic(c, k) \in Nat /\ g \in Nat /\ k.ran \in Seq(Command)
      BY <3>1, LowTicFacts DEF GameClient
    <3> QED BY <1>2, <3>1, <3>2
  <2>3. f \in Command
    BY <2>2, RunCommand
  <2> HIDE DEF f
  <2>4. /\ q \in Seq(Command) /\ Len(q) = g + 1 /\ q[g + 1] = f
        /\ \A j \in 1 .. g : q[j] = k.ran[j]
    BY <2>2, <2>3
  <2> HIDE DEF q
  <2>5. /\ r \in GameClient /\ r.gametic = g + 1 /\ r.ran = q
        /\ r.playing = k.playing /\ r.maketic = k.maketic /\ r.start = k.start
        /\ r.window = k.window /\ r.asked = k.asked /\ r.playeringame = k.playeringame
        /\ r.netcmds = k.netcmds
    <3>1. g + 1 \in Nat /\ q \in Seq(Command)
      BY <2>2, <2>4
    <3> HIDE DEF g
    <3>2. r \in GameClient
      BY <3>1 DEF GameClient
    <3>3. /\ r.gametic = g + 1 /\ r.ran = q
          /\ r.playing = k.playing /\ r.maketic = k.maketic /\ r.start = k.start
          /\ r.window = k.window /\ r.asked = k.asked /\ r.playeringame = k.playeringame
          /\ r.netcmds = k.netcmds
      BY DEF GameClient
    <3> QED BY <3>2, <3>3
  <2> HIDE DEF r
  <2> QED BY <2>1, <2>2, <2>4, <2>5 DEF f
<1> QED BY <1>1, <1>2

\* A tic of the game keeps what is kept of the client.
LEMMA RunTicKeeps ==
  ASSUME NEW c \in Client, NEW s \in ServerClient, NEW k \in GameClient,
         AheadInv(s, k), WindowInv(c, s, k), GameInv(c, s, k)
  PROVE  LET r == RunTic(c, k) IN
         /\ AheadInv(s, r) /\ WindowInv(c, s, r) /\ GameInv(c, s, r)
         /\ k.gametic =< r.gametic
<1> DEFINE r == RunTic(c, k)
<1>0. Len(k.ran) = k.gametic /\ k.gametic \in Nat /\ k.start \in Nat /\ k.maketic \in Nat
        /\ s.acknowledged \in Nat /\ k.ran \in Seq(Command) /\ k.netcmds \in [Player -> Seq(Nat)]
  BY DEF WindowInv, GameClient, ServerClient
<1>1. /\ r \in GameClient
      /\ r.playing = k.playing /\ r.maketic = k.maketic /\ r.start = k.start
      /\ r.window = k.window /\ r.asked = k.asked /\ r.playeringame = k.playeringame
      /\ r.netcmds = k.netcmds
      /\ Len(r.ran) = r.gametic
  BY <1>0, RunTicFacts
<1>2. \/ r.gametic = k.gametic /\ r.ran = k.ran
      \/ /\ r.gametic = k.gametic + 1 /\ k.playeringame # {} /\ k.gametic < LowTic(c, k)
         /\ \A g \in 1 .. k.gametic : r.ran[g] = k.ran[g]
         /\ r.ran[k.gametic + 1] =
              [p \in k.playeringame |->
                 IF p = c THEN k.gametic ELSE k.netcmds[p][k.gametic + 1]]
  BY <1>0, RunTicFacts
<1> HIDE DEF r
<1>3. k.gametic =< r.gametic /\ r.gametic \in Nat
  BY <1>0, <1>2
<1>4. AheadInv(s, r)
  <2>1. /\ s.acknowledged =< k.gametic /\ s.sendseq =< s.acknowledged + MaxAhead + 1
        /\ k.start =< s.sendseq /\ k.maketic =< k.gametic + Lead + 1
    BY DEF AheadInv
  <2>2. s.acknowledged =< r.gametic
    BY <1>0, <1>3, <2>1
  <2>3. k.maketic =< r.gametic + Lead + 1
    BY <1>0, <1>3, <2>1, Sizes
  <2> QED BY <1>1, <2>1, <2>2, <2>3 DEF AheadInv
<1>5. WindowInv(c, s, r)
  BY <1>1 DEF WindowInv
<1>6. GameInv(c, s, r)
  <2>1. CASE r.gametic = k.gametic /\ r.ran = k.ran
    BY <1>1, <2>1 DEF GameInv
  <2>2. CASE /\ r.gametic = k.gametic + 1 /\ k.playeringame # {} /\ k.gametic < LowTic(c, k)
             /\ \A g \in 1 .. k.gametic : r.ran[g] = k.ran[g]
             /\ r.ran[k.gametic + 1] =
                  [p \in k.playeringame |->
                     IF p = c THEN k.gametic ELSE k.netcmds[p][k.gametic + 1]]
    <3>1. SUFFICES ASSUME Leavers = {}
                   PROVE  /\ \A p \in Player \ {c} : k.gametic + 1 =< k.start
                          /\ c \in Player => k.gametic + 1 =< k.maketic
                          /\ r.ran[k.gametic + 1] = [p \in Player |-> k.gametic]
      <4>1. Leavers = {} => \A g \in 1 .. k.gametic + 1 : r.ran[g] = [p \in Player |-> g - 1]
        <5>1. SUFFICES ASSUME Leavers = {}, NEW g \in 1 .. k.gametic + 1
                       PROVE  r.ran[g] = [p \in Player |-> g - 1]
          OBVIOUS
        <5>2. CASE g \in 1 .. k.gametic
          BY <2>2, <5>1, <5>2 DEF GameInv
        <5>3. CASE g = k.gametic + 1
          <6>1. g - 1 = k.gametic
            BY <1>0, <5>3
          <6> QED BY <3>1, <5>1, <5>3, <6>1
        <5> QED BY <1>0, <5>2, <5>3
      <4> QED BY <1>1, <2>2, <3>1, <4>1 DEF GameInv
    <3>2. k.playeringame = Player
          /\ \A p \in Player \ {c} : k.netcmds[p] = [i \in 1 .. k.start |-> i - 1]
      BY <3>1 DEF GameInv
    <3>3. \A p \in Player : k.gametic < NetTic(c, k, p)
      <4> TAKE p \in Player
      <4>1. NetTic(c, k, p) \in Nat /\ LowTic(c, k) \in Nat /\ LowTic(c, k) =< NetTic(c, k, p)
        BY <3>2, LowTicFacts
      <4> QED BY <1>0, <2>2, <4>1
    <3>4. ASSUME NEW p \in Player \ {c} PROVE k.gametic + 1 =< k.start
      <4>1. Len(k.netcmds[p]) = k.start
        <5>1. k.netcmds[p] \in Seq(Nat) /\ DOMAIN k.netcmds[p] = 1 .. k.start
          BY <1>0, <3>2
        <5> QED BY <1>0, <5>1, LenProperties
      <4>2. NetTic(c, k, p) = k.start
        BY <4>1 DEF NetTic
      <4> QED BY <1>0, <3>3, <4>2
    <3>5. c \in Player => k.gametic + 1 =< k.maketic
      <4>1. NetTic(c, k, c) = k.maketic
        BY DEF NetTic
      <4> QED BY <1>0, <3>3, <4>1
    <3>6. ASSUME NEW p \in Player
          PROVE  (IF p = c THEN k.gametic ELSE k.netcmds[p][k.gametic + 1]) = k.gametic
      <4>1. CASE p # c
        <5>1. PICK i \in 1 .. k.start : i = k.gametic + 1
          BY <1>0, <3>4, <4>1
        <5>2. k.netcmds[p][i] = i - 1
          BY <3>2, <4>1
        <5> QED BY <1>0, <4>1, <5>1, <5>2
      <4> QED BY <4>1
    <3> QED BY <2>2, <3>2, <3>4, <3>5, <3>6
  <2> QED BY <1>2, <2>1, <2>2
<1> QED BY <1>3, <1>4, <1>5, <1>6 DEF r

\* The commands of p in the tics of w from a to before b.
Commands(a, b, w, p) ==
  [i \in DOMAIN Ascending({t \in a .. b - 1 : p \in DOMAIN w[t]}) |->
     w[Ascending({t \in a .. b - 1 : p \in DOMAIN w[t]})[i]][p]]

LEMMA CommandsOf ==
  ASSUME NEW a \in Nat, NEW b \in Nat, a =< b, NEW p \in Player,
         NEW w, \A t \in a .. b - 1 : w[t] \in Command
  PROVE  Commands(a, b, w, p) \in Seq(Nat) /\ Len(Commands(a, b, w, p)) =< b - a
<1> DEFINE S == {t \in a .. b - 1 : p \in DOMAIN w[t]}
           of == Ascending(S)
           n == Cardinality(S)
           q == [i \in DOMAIN of |-> w[of[i]][p]]
<1>1. S \in SUBSET (a .. b - 1) /\ S \subseteq Nat
  OBVIOUS
<1>2. IsFiniteSet(a .. b - 1) /\ Cardinality(a .. b - 1) = b - a
  <2>1. a \in Int /\ b - 1 \in Int /\ (IF a > b - 1 THEN 0 ELSE b - 1 - a + 1) = b - a
    OBVIOUS
  <2> QED BY <2>1, FS_Interval
<1>3. ASSUME NEW t \in S PROVE w[t][p] \in Nat
  <2>1. w[t] \in Partial(Player, Nat) /\ p \in DOMAIN w[t]
    BY DEF Command
  <2>2. w[t] \in [DOMAIN w[t] -> Nat]
    BY <2>1, PartialFacts
  <2> QED BY <2>1, <2>2
<1> HIDE DEF S
<1>4. n \in Nat /\ n =< b - a
  BY <1>1, <1>2, FS_Subset, FS_CardinalityType
<1>5. of \in [1 .. n -> S]
  <2>1. IsFiniteSet(S)
    BY <1>1, <1>2, FS_Subset
  <2> QED BY <1>1, <2>1, AscendingFacts
<1> HIDE DEF of, n
<1>6. DOMAIN of = 1 .. n /\ \A i \in 1 .. n : w[of[i]][p] \in Nat
  BY <1>3, <1>5
<1>7. q \in [1 .. n -> Nat]
  BY <1>6
<1> HIDE DEF q
<1>8. q \in Seq(Nat) /\ Len(q) = n
  BY <1>4, <1>7
<1>9. q \in Seq(Nat) /\ Len(q) =< b - a
  BY <1>4, <1>8
<1> QED BY <1>9 DEF q, of, S, Commands

\* When every command is there, they are those for a, a + 1, ... b - 1.
LEMMA CommandsOfAll ==
  ASSUME NEW a \in Nat, NEW b \in Nat, a =< b, NEW p,
         NEW w, \A t \in a .. b - 1 : p \in DOMAIN w[t] /\ w[t][p] = t
  PROVE  /\ DOMAIN Commands(a, b, w, p) = 1 .. b - a
         /\ \A i \in 1 .. b - a : Commands(a, b, w, p)[i] = a + i - 1
<1> DEFINE S == {t \in a .. b - 1 : p \in DOMAIN w[t]}
           of == Ascending(S)
<1>1. S = a .. b - 1
  OBVIOUS
<1> HIDE DEF S
<1>2. of = [i \in 1 .. b - a |-> a + i - 1]
  BY <1>1, AscendingInterval
<1> HIDE DEF of
<1>3. DOMAIN of = 1 .. b - a
  BY <1>2
<1>4. ASSUME NEW i \in 1 .. b - a PROVE w[of[i]][p] = a + i - 1
  <2>1. of[i] = a + i - 1 /\ a + i - 1 \in a .. b - 1
    BY <1>2
  <2> QED BY <2>1
<1> QED BY <1>3, <1>4 DEF of, S, Commands

\* The numbers below n and those from n to m make the numbers below m.
LEMMA CountOn ==
  ASSUME NEW n \in Nat, NEW m \in Nat, n =< m
  PROVE  [i \in 1 .. n |-> i - 1] \o [i \in 1 .. m - n |-> n + i - 1] = [i \in 1 .. m |-> i - 1]
<1> DEFINE a == [i \in 1 .. n |-> i - 1]
           b == [i \in 1 .. m - n |-> n + i - 1]
           q == a \o b
           r == [i \in 1 .. m |-> i - 1]
<1>1. a \in Seq(Nat) /\ Len(a) = n /\ \A i \in 1 .. n : a[i] = i - 1
  <2>1. a \in [1 .. n -> Nat] /\ \A i \in 1 .. n : a[i] = i - 1
    OBVIOUS
  <2> HIDE DEF a
  <2> QED BY <2>1
<1>2. b \in Seq(Nat) /\ Len(b) = m - n /\ \A i \in 1 .. m - n : b[i] = n + i - 1
  <2>1. b \in [1 .. m - n -> Nat] /\ m - n \in Nat /\ \A i \in 1 .. m - n : b[i] = n + i - 1
    OBVIOUS
  <2> HIDE DEF b
  <2> QED BY <2>1
<1> HIDE DEF a, b
<1>3. /\ q \in Seq(Nat) /\ Len(q) = n + (m - n)
      /\ \A i \in 1 .. n + (m - n) : q[i] = IF i <= n THEN a[i] ELSE b[i - n]
  <2>1. /\ q \in Seq(Nat) /\ Len(q) = Len(a) + Len(b)
        /\ \A i \in 1 .. Len(a) + Len(b) : q[i] = IF i <= Len(a) THEN a[i] ELSE b[i - Len(a)]
    BY <1>1, <1>2, ConcatProperties
  <2> HIDE DEF q
  <2> QED BY <1>1, <1>2, <2>1
<1> HIDE DEF q
<1>4. Len(q) = m /\ DOMAIN q = 1 .. m
  BY <1>3, LenProperties
<1>5. ASSUME NEW i \in 1 .. m PROVE q[i] = i - 1
  <2>1. i \in 1 .. n + (m - n)
    OBVIOUS
  <2>2. CASE i <= n
    BY <1>1, <1>3, <2>1, <2>2
  <2>3. CASE ~ (i <= n)
    <3>1. i - n \in 1 .. m - n /\ n + (i - n) - 1 = i - 1
      BY <2>3
    <3> QED BY <1>2, <1>3, <2>1, <2>3, <3>1
  <2> QED BY <2>2, <2>3
<1>6. q = [i \in 1 .. Len(q) |-> q[i]]
  BY <1>3
<1>7. q = r
  BY <1>4, <1>5, <1>6
<1> QED BY <1>7 DEF q, a, b

\* NET_CL_AdvanceWindow keeps what is kept of the client.
LEMMA AdvanceWindowKeeps ==
  ASSUME NEW c \in Client, NEW s \in ServerClient, NEW k \in GameClient,
         AheadInv(s, k), WindowInv(c, s, k), GameInv(c, s, k)
  PROVE  LET r == AdvanceWindow(c, k) IN
         /\ r \in GameClient
         /\ r.playing = k.playing /\ r.gametic = k.gametic /\ r.maketic = k.maketic
         /\ AheadInv(s, r) /\ WindowInv(c, s, r) /\ GameInv(c, s, r)
<1> DEFINE end == FirstMissing(k.start, DOMAIN k.window)
           cmds(p) == Commands(k.start, end, k.window, p)
           w == [t \in DOMAIN k.window \ (k.start .. end - 1) |-> k.window[t]]
           ask == k.asked \ (k.start .. end - 1)
           pig == IF end = k.start THEN k.playeringame
                  ELSE ({c} \cap Player) \cup DOMAIN k.window[end - 1]
           nc == [p \in Player |-> IF p = c THEN k.netcmds[p] ELSE k.netcmds[p] \o cmds(p)]
           r == AdvanceWindow(c, k)
<1>1. r = [k EXCEPT !.start = end, !.window = w, !.asked = ask, !.playeringame = pig,
                    !.netcmds = nc]
  BY DEF AdvanceWindow, Commands
<1>2. /\ k.start \in Nat /\ k.gametic \in Nat /\ k.maketic \in Nat
      /\ k.window \in Partial(Nat, Command) /\ k.asked \in SUBSET Nat
      /\ k.playeringame \in SUBSET Player /\ k.netcmds \in [Player -> Seq(Nat)]
      /\ s.sendseq \in Nat
  BY DEF GameClient, ServerClient
<1>3. /\ DOMAIN k.window \subseteq Window(k.start) \cap (0 .. s.sendseq - 1)
      /\ k.asked \subseteq 0 .. s.sendseq - 1
      /\ \A t \in DOMAIN k.window : k.window[t] \in FullCmd(c, t)
      /\ \A p \in Player \ {c} : Len(k.netcmds[p]) =< k.start
      /\ k.start =< s.sendseq
  BY DEF WindowInv, AheadInv
<1>4. /\ k.window \in [DOMAIN k.window -> Command] /\ DOMAIN k.window \subseteq Nat
      /\ \A t \in DOMAIN k.window : k.window[t] \in Command
  BY <1>2, PartialFacts
<1>5. /\ end \in k.start .. k.start + BackupTics
      /\ k.start .. end - 1 \subseteq DOMAIN k.window
  <2>1. DOMAIN k.window \subseteq Window(k.start)
    BY <1>3
  <2> QED BY <1>2, <2>1, FirstMissingFacts
<1>6. end \in Nat /\ k.start =< end
  BY <1>2, <1>5, Sizes
<1> HIDE DEF end, r
<1>7. end =< s.sendseq
  <2>1. CASE end = k.start
    BY <1>3, <2>1
  <2>2. CASE end # k.start
    <3>1. end - 1 \in k.start .. end - 1
      BY <1>2, <1>6, <2>2
    <3>2. end - 1 \in 0 .. s.sendseq - 1
      BY <1>3, <1>5, <3>1
    <3> QED BY <1>2, <1>6, <3>2
  <2> QED BY <2>1, <2>2
<1>8. w \in Partial(Nat, Command) /\ DOMAIN w = DOMAIN k.window \ (k.start .. end - 1)
        /\ \A t \in DOMAIN w : w[t] = k.window[t]
  <2>1. DOMAIN w = DOMAIN k.window \ (k.start .. end - 1) /\ \A t \in DOMAIN w : w[t] = k.window[t]
    OBVIOUS
  <2>2. w \in [DOMAIN w -> Command] /\ DOMAIN w \subseteq Nat
    BY <1>4
  <2> HIDE DEF w
  <2> QED BY <2>1, <2>2, PartialFacts
<1>9. ask \in SUBSET Nat /\ ask \subseteq 0 .. s.sendseq - 1
  BY <1>2, <1>3
<1>10. pig \in SUBSET Player
  <2>1. CASE end = k.start
    BY <1>2, <2>1
  <2>2. CASE end # k.start
    <3>1. end - 1 \in k.start .. end - 1
      BY <1>2, <1>6, <2>2
    <3>2. k.window[end - 1] \in Partial(Player, Nat)
      BY <1>4, <1>5, <3>1 DEF Command
    <3>3. DOMAIN k.window[end - 1] \subseteq Player
      BY <3>2, PartialFacts
    <3> QED BY <2>2, <3>3
  <2> QED BY <2>1, <2>2
<1>11. ASSUME NEW p \in Player PROVE cmds(p) \in Seq(Nat) /\ Len(cmds(p)) =< end - k.start
  <2>1. \A t \in k.start .. end - 1 : k.window[t] \in Command
    BY <1>4, <1>5
  <2> QED BY <1>2, <1>6, <2>1, CommandsOf
<1>12. /\ nc \in [Player -> Seq(Nat)]
       /\ \A p \in Player \ {c} : nc[p] = k.netcmds[p] \o cmds(p)
  <2> HIDE DEF cmds
  <2>1. ASSUME NEW p \in Player
        PROVE  (IF p = c THEN k.netcmds[p] ELSE k.netcmds[p] \o cmds(p)) \in Seq(Nat)
    <3>1. k.netcmds[p] \in Seq(Nat) /\ cmds(p) \in Seq(Nat)
      BY <1>2, <1>11
    <3>2. k.netcmds[p] \o cmds(p) \in Seq(Nat)
      BY <3>1
    <3> QED BY <3>1, <3>2
  <2> QED BY <2>1
<1>13. ASSUME NEW p \in Player \ {c} PROVE Len(nc[p]) =< end
  <2> HIDE DEF cmds, nc
  <2>1. /\ k.netcmds[p] \in Seq(Nat) /\ cmds(p) \in Seq(Nat) /\ Len(cmds(p)) =< end - k.start
        /\ nc[p] = k.netcmds[p] \o cmds(p) /\ Len(k.netcmds[p]) =< k.start
    BY <1>2, <1>3, <1>11, <1>12
  <2>2. Len(nc[p]) = Len(k.netcmds[p]) + Len(cmds(p))
        /\ Len(k.netcmds[p]) \in Nat /\ Len(cmds(p)) \in Nat
    BY <2>1
  <2> QED BY <1>2, <1>6, <2>1, <2>2
<1>14. ASSUME Leavers = {}, NEW p \in Player \ {c}
       PROVE  nc[p] = [i \in 1 .. end |-> i - 1]
  <2>1. k.netcmds[p] = [i \in 1 .. k.start |-> i - 1]
    BY <1>14 DEF GameInv
  <2>2. \A t \in k.start .. end - 1 : p \in DOMAIN k.window[t] /\ k.window[t][p] = t
    <3> TAKE t \in k.start .. end - 1
    <3>1. k.window[t] \in Partial(Player \ {c}, {t}) /\ DOMAIN k.window[t] = Player \ {c}
      BY <1>3, <1>5, <1>14 DEF FullCmd
    <3>2. k.window[t] \in [DOMAIN k.window[t] -> {t}]
      BY <3>1, PartialFacts
    <3> QED BY <3>1, <3>2
  <2>3. cmds(p) = [i \in 1 .. end - k.start |-> k.start + i - 1]
    <3>1. k.start \in Nat /\ end \in Nat /\ k.start =< end
      BY <1>2, <1>6
    <3>2. /\ DOMAIN cmds(p) = 1 .. end - k.start
          /\ \A i \in 1 .. end - k.start : cmds(p)[i] = k.start + i - 1
      BY <2>2, <3>1, CommandsOfAll
    <3>3. cmds(p) \in Seq(Nat)
      BY <1>11
    <3> HIDE DEF cmds
    <3> QED BY <3>2, <3>3
  <2>4. nc[p] = k.netcmds[p] \o cmds(p)
    BY <1>12
  <2>5. k.start \in Nat /\ end \in Nat /\ k.start =< end
    BY <1>2, <1>6
  <2>6. [i \in 1 .. k.start |-> i - 1] \o [i \in 1 .. end - k.start |-> k.start + i - 1]
          = [i \in 1 .. end |-> i - 1]
    BY <2>5, CountOn
  <2> HIDE DEF nc, cmds
  <2> QED BY <2>1, <2>3, <2>4, <2>6
<1>15. ASSUME Leavers = {} PROVE pig = Player
  <2>1. CASE end = k.start
    BY <1>15, <2>1 DEF GameInv
  <2>2. CASE end # k.start
    <3>1. end - 1 \in k.start .. end - 1
      BY <1>2, <1>6, <2>2
    <3>2. DOMAIN k.window[end - 1] = Player \ {c}
      BY <1>3, <1>5, <1>15, <3>1 DEF FullCmd
    <3>3. pig = ({c} \cap Player) \cup (Player \ {c})
      BY <2>2, <3>2
    <3> QED BY <3>3
  <2> QED BY <2>1, <2>2
<1> HIDE DEF w, ask, pig, nc, cmds
<1>16. r \in GameClient
  BY <1>1, <1>2, <1>6, <1>8, <1>9, <1>10, <1>12 DEF GameClient
<1>17. /\ r.start = end /\ r.window = w /\ r.asked = ask /\ r.playeringame = pig /\ r.netcmds = nc
       /\ r.playing = k.playing /\ r.gametic = k.gametic /\ r.maketic = k.maketic
       /\ r.ran = k.ran
  BY <1>1 DEF GameClient
<1>18. AheadInv(s, r)
  BY <1>7, <1>17 DEF AheadInv
<1>19. WindowInv(c, s, r)
  <2>1. DOMAIN w \subseteq Window(end) \cap (0 .. s.sendseq - 1)
    <3>1. ASSUME NEW t \in DOMAIN w PROVE t \in Window(end) /\ t \in 0 .. s.sendseq - 1
      <4>1. t \in Window(k.start) /\ t \in 0 .. s.sendseq - 1 /\ t \notin k.start .. end - 1
        BY <1>3, <1>8
      <4> QED BY <1>2, <1>6, <4>1, Sizes DEF Window
    <3> QED BY <3>1
  <2>2. \A t \in DOMAIN w : w[t] \in FullCmd(c, t)
    BY <1>3, <1>8
  <2>3. Len(k.ran) = k.gametic
    BY DEF WindowInv
  <2> QED BY <1>9, <1>13, <1>17, <2>1, <2>2, <2>3 DEF WindowInv
<1>20. GameInv(c, s, r)
  <2>1. c \notin Leavers => s.online /\ r.playing
    BY <1>17 DEF GameInv
  <2>2. ASSUME Leavers = {}
        PROVE  /\ r.playeringame = Player
               /\ \A p \in Player \ {c} : /\ r.netcmds[p] = [i \in 1 .. r.start |-> i - 1]
                                          /\ r.gametic =< r.start
               /\ c \in Player => r.gametic =< r.maketic
               /\ \A g \in 1 .. r.gametic : r.ran[g] = [p \in Player |-> g - 1]
    <3>1. \A p \in Player \ {c} : k.gametic =< k.start
      BY <2>2 DEF GameInv
    <3>2. \A p \in Player \ {c} : k.gametic =< end
      BY <1>2, <1>6, <3>1
    <3>3. c \in Player => k.gametic =< k.maketic
      BY <2>2 DEF GameInv
    <3>4. \A g \in 1 .. k.gametic : k.ran[g] = [p \in Player |-> g - 1]
      BY <2>2 DEF GameInv
    <3> QED BY <1>14, <1>15, <1>17, <2>2, <3>2, <3>3, <3>4
  <2> QED BY <2>1, <2>2 DEF GameInv
<1> QED BY <1>16, <1>17, <1>18, <1>19, <1>20 DEF r

\* A new tic, and answers that are no longer owed, keep what is kept of the client.
LEMMA UpdatedKeeps ==
  ASSUME NEW c \in Client, NEW s \in ServerClient, NEW k \in GameClient,
         NEW late \in BOOLEAN, NEW newtic \in BOOLEAN, newtic => k.maketic - k.gametic =< Lead,
         AheadInv(s, k), WindowInv(c, s, k), GameInv(c, s, k)
  PROVE  /\ Updated(k, late, newtic) \in GameClient
         /\ Updated(k, late, newtic).gametic = k.gametic
         /\ k.maketic =< Updated(k, late, newtic).maketic
         /\ newtic => Updated(k, late, newtic).maketic = k.maketic + 1
         /\ AheadInv(s, Updated(k, late, newtic))
         /\ WindowInv(c, s, Updated(k, late, newtic))
         /\ GameInv(c, s, Updated(k, late, newtic))
<1> DEFINE r == Updated(k, late, newtic)
           n == IF newtic THEN k.maketic + 1 ELSE k.maketic
           o == k.owes /\ ~late /\ ~newtic
<1>1. r = [k EXCEPT !.owes = o, !.maketic = n]
  BY DEF Updated
<1>2. k.gametic \in Nat /\ k.maketic \in Nat /\ n \in Nat /\ k.maketic =< n
        /\ (newtic => n = k.maketic + 1)
  BY DEF GameClient
<1>3. o \in BOOLEAN
  OBVIOUS
<1>4. n =< k.gametic + Lead + 1
  <2>1. k.maketic =< k.gametic + Lead + 1 /\ Lead \in Nat
    BY Sizes DEF AheadInv
  <2> QED BY <1>2, <2>1
<1> HIDE DEF r, n, o
<1>5. /\ r \in GameClient /\ r.maketic = n
      /\ r.playing = k.playing /\ r.gametic = k.gametic /\ r.start = k.start
      /\ r.window = k.window /\ r.asked = k.asked /\ r.playeringame = k.playeringame
      /\ r.netcmds = k.netcmds /\ r.ran = k.ran
  BY <1>1, <1>2, <1>3 DEF GameClient
<1>6. AheadInv(s, r)
  BY <1>4, <1>5 DEF AheadInv
<1>7. WindowInv(c, s, r)
  BY <1>5 DEF WindowInv
<1>8. GameInv(c, s, r)
  <2>1. Leavers = {} /\ c \in Player => k.gametic =< n
    <3>1. Leavers = {} /\ c \in Player => k.gametic =< k.maketic
      BY DEF GameInv
    <3> QED BY <1>2, <3>1
  <2> QED BY <1>5, <2>1 DEF GameInv
<1> QED BY <1>2, <1>5, <1>6, <1>7, <1>8 DEF r

\* The game data with a client's newest tic.
LEMMA SendTiccmdType ==
  ASSUME NEW c \in Client, NEW k \in GameClient, cl[c].gametic \in Nat, NEW s \in Nat,
         NEW g \in Nat, cl[c].gametic =< g
  PROVE  SendTiccmd(c, k) \in UpMsg(g, k.maketic + 1, s)
<1> DEFINE t == k.maketic
           first == IF t < ExtraTics THEN 0 ELSE t - ExtraTics
           q == [i \in 1 .. t - first + 1 |-> first + i - 1]
           m == SendTiccmd(c, k)
<1>1. m = [kind |-> "GAMEDATA", ack |-> cl[c].gametic, seq |-> first, tics |-> q]
  BY DEF SendTiccmd, GameData
<1>2. t \in Nat
  BY DEF GameClient
<1> HIDE DEF t
<1>3. first \in Nat /\ first =< t
  BY <1>2, Sizes
<1> HIDE DEF first
<1>4. q \in Seq(Nat) /\ Len(q) = t - first + 1 /\ \A i \in 1 .. t - first + 1 : q[i] = first + i - 1
  <2>1. q \in [1 .. t - first + 1 -> Nat] /\ \A i \in 1 .. t - first + 1 : q[i] = first + i - 1
    BY <1>2, <1>3
  <2>2. t - first + 1 \in Nat
    BY <1>2, <1>3
  <2> HIDE DEF q
  <2> QED BY <2>1, <2>2
<1> HIDE DEF q, m
<1>5. m \in PlayerData
  BY <1>1, <1>3, <1>4 DEF PlayerData
<1>6. /\ m.ack =< g /\ m.seq + Len(m.tics) =< t + 1
      /\ \A j \in 1 .. Len(m.tics) : m.tics[j] = m.seq + j - 1
  <2>1. m.ack = cl[c].gametic /\ m.seq = first /\ m.tics = q
    BY <1>1
  <2> QED BY <1>2, <1>3, <1>4, <2>1
<1> QED BY <1>5, <1>6 DEF UpMsg, m, t

\* The requests for missing tics, and an acknowledgement.
LEMMA CheckResendsType ==
  ASSUME NEW c \in Client, NEW k, NEW s \in Nat, k.asked \subseteq 0 .. s - 1,
         cl[c].gametic \in Nat, NEW g \in Nat, cl[c].gametic =< g, NEW n \in Nat
  PROVE  CheckResends(c, k) \in Seq(UpMsg(g, n, s))
<1> DEFINE lost == k.asked \ DOMAIN k.window
           R == Requests(lost)
           A == IF k.owes THEN <<GameDataACK(c)>> ELSE << >>
           U == UpMsg(g, n, s)
<1>1. R \in Seq(U)
  <2>1. lost \subseteq 0 .. s - 1
    OBVIOUS
  <2> HIDE DEF lost
  <2>2. R \in Seq({m \in Request : m.start + m.num =< s})
    BY <2>1, RequestsType
  <2>3. {m \in Request : m.start + m.num =< s} \subseteq U
    BY DEF UpMsg
  <2> HIDE DEF U, R
  <2> QED BY <2>2, <2>3, SeqMono
<1>2. A \in Seq(U)
  <2>1. GameDataACK(c) \in U
    <3>1. GameDataACK(c) = [kind |-> "GAMEDATA_ACK", ack |-> cl[c].gametic]
      BY DEF GameDataACK
    <3>2. GameDataACK(c) \in PlayerAck /\ GameDataACK(c).ack =< g
      BY <3>1 DEF PlayerAck
    <3> QED BY <3>2 DEF UpMsg
  <2> HIDE DEF U
  <2>2. CASE k.owes
    BY <2>1, <2>2
  <2>3. CASE ~ k.owes
    <3>1. A = << >>
      BY <2>3
    <3> HIDE DEF A
    <3> QED BY <3>1
  <2> QED BY <2>2, <2>3
<1>3. CheckResends(c, k) = R \o A
  BY DEF CheckResends
<1> HIDE DEF R, A, U
<1>4. R \o A \in Seq(U)
  BY <1>1, <1>2
<1> QED BY <1>3, <1>4 DEF U

LEMMA MiniLoopKeeps ==
  ASSUME IInv, NEW c \in Client, NEW late \in BOOLEAN, NEW newtic \in BOOLEAN,
         MiniLoop(c, late, newtic)
  PROVE  IInv'
<1> DEFINE k0 == cl[c]
           k == AdvanceWindow(c, k0)
           k1 == Updated(k, late, newtic)
           k2 == RunTic(c, k1)
           A == IF late THEN CheckResends(c, k) ELSE << >>
           B == IF newtic THEN <<SendTiccmd(c, k)>> ELSE << >>
           up == wire["up"][c] \o A \o B
           U == UpMsg(k2.gametic, k2.maketic, sv[c].sendseq)
<1>1. Types /\ RecvInv /\ \A b \in Client : ClientInv(b, sv[b], cl[b], wire["up"][b], wire["down"][b])
  BY DEF IInv
<1>2. /\ UNCHANGED <<start, recv, asked, sv, faults>>
      /\ newtic => MayMakeTic(c)
      /\ cl' = [cl EXCEPT ![c] = k2]
      /\ wire' = [wire EXCEPT !["up"][c] = up]
  BY DEF MiniLoop
<1>3. /\ k0 \in GameClient /\ sv[c] \in ServerClient /\ sv[c].sendseq \in Nat
      /\ k0.gametic \in Nat /\ k0.maketic \in Nat
      /\ wire["up"][c] \in Seq(Datagram) /\ wire["down"][c] \in Seq(Datagram)
  BY <1>1, ClientTypes
<1>4. QueueInv(c, sv[c]) /\ AheadInv(sv[c], k0) /\ WindowInv(c, sv[c], k0) /\ GameInv(c, sv[c], k0)
      /\ WireInv(c, sv[c], k0, wire["up"][c], wire["down"][c])
  BY <1>1 DEF ClientInv
<1>5. /\ k \in GameClient
      /\ k.playing = k0.playing /\ k.gametic = k0.gametic /\ k.maketic = k0.maketic
      /\ AheadInv(sv[c], k) /\ WindowInv(c, sv[c], k) /\ GameInv(c, sv[c], k)
  BY <1>3, <1>4, AdvanceWindowKeeps
<1> HIDE DEF k
<1>6. /\ k1 \in GameClient /\ k1.gametic = k.gametic /\ k.maketic =< k1.maketic
      /\ newtic => k1.maketic = k.maketic + 1
      /\ AheadInv(sv[c], k1) /\ WindowInv(c, sv[c], k1) /\ GameInv(c, sv[c], k1)
  <2>1. newtic => k.maketic - k.gametic =< Lead
    BY <1>2, <1>5 DEF MayMakeTic
  <2> QED BY <1>3, <1>5, <2>1, UpdatedKeeps
<1> HIDE DEF k1
<1>7. /\ k2 \in GameClient /\ k2.maketic = k1.maketic
      /\ AheadInv(sv[c], k2) /\ WindowInv(c, sv[c], k2) /\ GameInv(c, sv[c], k2)
      /\ k1.gametic =< k2.gametic
  <2>1. Len(k1.ran) = k1.gametic
    BY <1>6 DEF WindowInv
  <2> QED BY <1>3, <1>6, <2>1, RunTicFacts, RunTicKeeps
<1> HIDE DEF k2
<1>8. /\ k2.gametic \in Nat /\ k2.maketic \in Nat
      /\ k0.gametic =< k2.gametic /\ k0.maketic =< k2.maketic
      /\ newtic => k2.maketic = k.maketic + 1
  <2>1. k2.gametic \in Nat /\ k2.maketic \in Nat
    BY <1>7 DEF GameClient
  <2> QED BY <1>3, <1>5, <1>6, <1>7, <2>1
<1>9. wire["up"][c] \in Seq(U)
  <2>1. sv[c].sendseq =< sv[c].sendseq
    BY <1>3
  <2>2. WireInv(c, sv[c], k2, wire["up"][c], wire["down"][c])
    BY <1>3, <1>4, <1>7, <1>8, <2>1, WireMono
  <2> QED BY <2>2 DEF WireInv
<1>10. A \in Seq(U)
  <2>1. CASE late
    <3>1. k.asked \subseteq 0 .. sv[c].sendseq - 1
      BY <1>5 DEF WindowInv
    <3>2. CheckResends(c, k) \in Seq(U)
      BY <1>3, <1>8, <3>1, CheckResendsType
    <3> QED BY <2>1, <3>2
  <2>2. CASE ~ late
    <3>1. A = << >>
      BY <2>2
    <3> HIDE DEF A
    <3> QED BY <3>1
  <2> QED BY <2>1, <2>2
<1>11. B \in Seq(U)
  <2>1. CASE newtic
    <3>1. SendTiccmd(c, k) \in UpMsg(k2.gametic, k.maketic + 1, sv[c].sendseq)
      BY <1>3, <1>5, <1>8, SendTiccmdType
    <3>2. SendTiccmd(c, k) \in U
      BY <1>8, <2>1, <3>1
    <3> HIDE DEF U
    <3> QED BY <2>1, <3>2
  <2>2. CASE ~ newtic
    <3>1. B = << >>
      BY <2>2
    <3> HIDE DEF B
    <3> QED BY <3>1
  <2> QED BY <2>1, <2>2
<1>12. up \in Seq(U) /\ up \in Seq(Datagram)
  <2> HIDE DEF A, B, U
  <2>1. up \in Seq(U)
    BY <1>9, <1>10, <1>11
  <2> HIDE DEF up
  <2> QED BY <2>1, Datagrams DEF U
<1> HIDE DEF up, A, B
<1>13. /\ wire' \in [{"up", "down"} -> [Client -> Seq(Datagram)]]
       /\ \A b \in Client \ {c} : wire'["up"][b] = wire["up"][b] /\ wire'["down"][b] = wire["down"][b]
       /\ wire'["up"][c] = up /\ wire'["down"][c] = wire["down"][c]
  <2>1. wire \in [{"up", "down"} -> [Client -> Seq(Datagram)]]
    BY <1>1 DEF Types
  <2> QED BY <1>2, <1>12, <2>1
<1>14. /\ cl' \in [Client -> GameClient] /\ cl'[c] = k2
       /\ \A b \in Client \ {c} : cl'[b] = cl[b]
  BY <1>1, <1>2, <1>7, ChangeClient DEF Types
<1>15. WireInv(c, sv[c], k2, wire'["up"][c], wire'["down"][c])
  <2>1. wire["down"][c] \in Seq(DownMsg(c, sv[c].sendseq))
    BY <1>4 DEF WireInv
  <2> QED BY <1>12, <1>13, <2>1 DEF WireInv, U
<1>16. Types'
  BY <1>1, <1>2, <1>13, <1>14 DEF Types
<1>17. RecvInv'
  <2>1. ASSUME NEW p \in Player PROVE 0 .. cl[p].maketic - 1 \subseteq 0 .. cl'[p].maketic - 1
    <3>1. CASE p = c
      BY <1>3, <1>8, <1>14, <3>1
    <3>2. CASE p # c
      BY <1>14, <3>2 DEF Client
    <3> QED BY <3>1, <3>2
  <2>2. Online' = Online
    BY <1>2 DEF Online
  <2> HIDE DEF k0
  <2>3. /\ \A p \in Player : /\ DOMAIN recv'[p] \subseteq Window(start') \cap (0 .. cl'[p].maketic - 1)
                             /\ \A u \in DOMAIN recv'[p] : recv'[p][u] = u
    BY <1>1, <1>2, <2>1 DEF RecvInv
  <2>4. \A b \in Online' : start' =< sv'[b].acknowledged
    BY <1>1, <1>2, <2>2 DEF RecvInv
  <2>5. Leavers = {} => \A b \in Client : \A p \in Player \ {b} :
          start' .. sv'[b].sendseq - 1 \subseteq DOMAIN recv'[p]
    BY <1>1, <1>2 DEF RecvInv
  <2> QED BY <2>3, <2>4, <2>5 DEF RecvInv
<1>18. ASSUME NEW b \in Client
       PROVE  ClientInv(b, sv'[b], cl'[b], wire'["up"][b], wire'["down"][b])
  <2>1. CASE b = c
    BY <1>2, <1>4, <1>7, <1>14, <1>15, <2>1 DEF ClientInv
  <2>2. CASE b # c
    BY <1>1, <1>2, <1>13, <1>14, <2>2, ClientFrame
  <2> QED BY <2>1, <2>2
<1> QED BY <1>16, <1>17, <1>18 DEF IInv

---------------------------------------------------------------------------
(* The round of the server.                                                *)

\* Some player does not leave.
LEMMA SomebodyStays ==
  \E p \in Player : p \notin Leavers
<1>1. SUFFICES ASSUME \A p \in Player : p \in Leavers PROVE FALSE
  OBVIOUS
<1>2. Leavers = Player
  BY <1>1, SizesAssumption DEF Player
<1>3. Cardinality(Leavers) < NumPlayers
  BY SizesAssumption
<1>4. 0 \in Int /\ NumPlayers - 1 \in Int /\ (IF 0 > NumPlayers - 1 THEN 0 ELSE NumPlayers - 1 - 0 + 1) = NumPlayers
  BY Sizes
<1>5. Cardinality(Player) = NumPlayers
  BY <1>4, FS_Interval DEF Player
<1> QED BY <1>2, <1>3, <1>5, Sizes

\* NET_SV_LatestAcknowledged is no more than what any connected client has run.
LEMMA LatestAcknowledgedFacts ==
  ASSUME IInv
  PROVE  /\ LatestAcknowledged \in Nat
         /\ \A c \in Online : LatestAcknowledged =< sv[c].acknowledged
<1> DEFINE S == {sv[c].acknowledged : c \in Online}
<1>1. PICK p \in Player : p \notin Leavers
  BY SomebodyStays
<1>2. p \in Online
  <2>1. p \in Client
    BY DEF Client
  <2>2. GameInv(p, sv[p], cl[p])
    BY <2>1 DEF IInv, ClientInv
  <2>3. sv[p].online
    BY <1>1, <2>2 DEF GameInv
  <2> QED BY <2>1, <2>3 DEF Online
<1>3. ASSUME NEW c \in Online PROVE sv[c].acknowledged \in Nat
  BY ClientTypes DEF IInv, Online
<1>4. S \subseteq Nat /\ S # {}
  BY <1>2, <1>3
<1>5. \A c \in Online : sv[c].acknowledged \in S
  OBVIOUS
<1>6. LatestAcknowledged = Min(S)
  BY DEF LatestAcknowledged
<1> HIDE DEF S
<1>7. Min(S) \in S /\ \A n \in S : Min(S) =< n
  BY <1>4, MinFacts
<1> QED BY <1>4, <1>5, <1>6, <1>7

\* NET_SV_AdvanceWindow stops at what everyone has acknowledged.
LEMMA AdvanceToFacts ==
  ASSUME IInv
  PROVE  /\ AdvanceTo(start) \in Nat /\ start =< AdvanceTo(start)
         /\ \A c \in Online : AdvanceTo(start) =< sv[c].acknowledged
<1> DEFINE b == IF LatestAcknowledged > start THEN LatestAcknowledged ELSE start
           S == {t \in start .. b : \A p \in Player \cap Online : start .. t - 1 \subseteq DOMAIN recv[p]}
<1>1. LatestAcknowledged \in Nat /\ \A c \in Online : LatestAcknowledged =< sv[c].acknowledged
  BY LatestAcknowledgedFacts
<1>2. start \in Nat
  BY DEF IInv, Types
<1>3. ASSUME NEW c \in Online PROVE b =< sv[c].acknowledged
  BY <1>1, <1>3 DEF IInv, RecvInv
<1>4. b \in Nat /\ start =< b
  BY <1>1, <1>2
<1>5. AdvanceTo(start) = Max(S)
  BY DEF AdvanceTo
<1> HIDE DEF b
<1>6. start \in S
  <2>1. start \in start .. b /\ start .. start - 1 = {}
    BY <1>2, <1>4
  <2> QED BY <2>1
<1>7. S \subseteq Nat /\ S # {} /\ \A t \in S : t =< b /\ start =< t
  BY <1>2, <1>4, <1>6
<1> HIDE DEF S
<1>8. Max(S) \in S
  BY <1>4, <1>7, MaxFacts
<1>9. Max(S) \in Nat /\ start =< Max(S) /\ Max(S) =< b
  BY <1>7, <1>8
<1>10. ASSUME NEW c \in Online PROVE Max(S) =< sv[c].acknowledged
  <2>1. sv[c].acknowledged \in Nat
    BY ClientTypes DEF IInv, Online
  <2> QED BY <1>3, <1>4, <1>9, <2>1
<1> QED BY <1>5, <1>9, <1>10

\* The command that NET_SV_PumpSendQueue makes is one for the client and the tic.
LEMMA PumpCmdType ==
  ASSUME IInv, NEW c \in Online, PumpReady(c)
  PROVE  PumpCmd(c) \in FullCmd(c, sv[c].sendseq) /\ PumpCmd(c) \in Command
<1> DEFINE t == sv[c].sendseq
           D == {q \in Player \ {c} : t \in DOMAIN recv[q]}
           f == PumpCmd(c)
<1>1. f = [p \in D |-> recv[p][t]]
  BY DEF PumpCmd
<1>2. \A p \in D : recv[p][t] = t
  BY DEF IInv, RecvInv
<1>3. t \in Nat
  BY ClientTypes DEF IInv, Online
<1>4. ASSUME Leavers = {} PROVE D = Player \ {c}
  <2>1. ASSUME NEW p \in Player PROVE p \in Online
    <3>1. p \in Client
      BY DEF Client
    <3>2. GameInv(p, sv[p], cl[p])
      BY <3>1 DEF IInv, ClientInv
    <3>3. sv[p].online
      BY <1>4, <3>2 DEF GameInv
    <3> QED BY <3>1, <3>3 DEF Online
  <2> QED BY <2>1 DEF PumpReady
<1>5. D \subseteq Player \ {c} /\ D \subseteq Player
  OBVIOUS
<1> HIDE DEF D, t
<1>6. DOMAIN f = D /\ f \in [D -> {t}] /\ f \in [D -> Nat]
  BY <1>1, <1>2, <1>3
<1> HIDE DEF f
<1>7. f \in Partial(Player \ {c}, {t}) /\ f \in Partial(Player, Nat)
  BY <1>5, <1>6, PartialFacts
<1>8. f \in FullCmd(c, t)
  BY <1>4, <1>6, <1>7 DEF FullCmd
<1> QED BY <1>7, <1>8 DEF Command, f, t

\* NET_SV_PumpSendQueue keeps what is kept of the client, and sends it what it
\* may be sent.
LEMMA PumpedKeeps ==
  ASSUME IInv, NEW c \in Online, PumpReady(c)
  PROVE  /\ Pumped(c) \in ServerClient /\ Pumped(c).online = sv[c].online
         /\ Pumped(c).acknowledged = sv[c].acknowledged
         /\ Pumped(c).sendseq = sv[c].sendseq + 1
         /\ QueueInv(c, Pumped(c)) /\ AheadInv(Pumped(c), cl[c])
         /\ PumpSends(c) \in DownMsg(c, Pumped(c).sendseq)
<1> DEFINE s == sv[c]
           t == s.sendseq
           e == [seq |-> t, cmds |-> PumpCmd(c)]
           q == [s.sendqueue EXCEPT ![Slot(t)] = e]
           r == Pumped(c)
           first == IF t < ExtraTics THEN 0 ELSE t - ExtraTics
<1>0. c \in Client
  BY DEF Online
<1>1. /\ s \in ServerClient /\ t \in Nat /\ s.acknowledged \in Nat
      /\ s.sendqueue \in [0 .. BackupTics - 1 -> Entry]
      /\ QueueInv(c, s) /\ AheadInv(s, cl[c])
      /\ cl[c].gametic \in Nat /\ cl[c].start \in Nat
  BY <1>0, ClientTypes DEF IInv, ClientInv
<1>2. PumpCmd(c) \in FullCmd(c, t) /\ PumpCmd(c) \in Command
  BY PumpCmdType
<1>3. r = [s EXCEPT !.sendqueue = q, !.sendseq = t + 1]
  BY DEF Pumped
<1>4. t =< s.acknowledged + MaxAhead
  <2>1. t - LatestAcknowledged \in 0 .. MaxAhead
    BY DEF PumpReady
  <2>2. LatestAcknowledged \in Nat /\ LatestAcknowledged =< s.acknowledged
    BY LatestAcknowledgedFacts
  <2> HIDE DEF s
  <2> QED BY <1>1, <2>1, <2>2, Sizes
<1>5. PumpSends(c) = SendTics(r.sendqueue, first, t)
  BY DEF PumpSends
<1> HIDE DEF r, s
<1>6. e \in Entry
  BY <1>1, <1>2 DEF Entry
<1>7. Slot(t) \in 0 .. BackupTics - 1
  BY <1>1, SlotType
<1> DEFINE i0 == Slot(t)
<1> HIDE DEF e
<1>8. /\ q \in [0 .. BackupTics - 1 -> Entry] /\ q[i0] = e
      /\ \A i \in 0 .. BackupTics - 1 : i # i0 => q[i] = s.sendqueue[i]
  BY <1>1, <1>6, <1>7
<1> HIDE DEF q
<1>9. /\ r \in ServerClient /\ r.online = s.online /\ r.acknowledged = s.acknowledged
      /\ r.sendseq = t + 1 /\ r.sendqueue = q
  <2> DEFINE n == t + 1
  <2>1. n \in Nat /\ r = [s EXCEPT !.sendqueue = q, !.sendseq = n]
    BY <1>1, <1>3
  <2> HIDE DEF n
  <2>2. /\ r \in ServerClient /\ r.online = s.online /\ r.acknowledged = s.acknowledged
        /\ r.sendseq = n /\ r.sendqueue = q
    BY <1>1, <1>8, <2>1 DEF ServerClient
  <2> QED BY <2>2 DEF n
<1>10. ASSUME NEW i \in 0 .. BackupTics - 1, q[i].seq # -1
       PROVE  q[i].seq < t + 1 /\ q[i].cmds \in FullCmd(c, q[i].seq)
  <2>1. CASE i = i0
    BY <1>1, <1>2, <1>8, <2>1 DEF e
  <2>2. CASE i # i0
    <3>1. q[i] = s.sendqueue[i] /\ q[i] \in Entry
      BY <1>8, <2>2
    <3>2. q[i].seq < t /\ q[i].cmds \in FullCmd(c, q[i].seq)
      BY <1>1, <1>10, <3>1 DEF QueueInv
    <3>3. q[i].seq \in Int
      BY <3>1 DEF Entry
    <3> QED BY <1>1, <3>2, <3>3
  <2> QED BY <2>1, <2>2
<1>11. ASSUME NEW u \in 0 .. t, t + 1 =< u + BackupTics
       PROVE  q[Slot(u)].seq = u
  <2>1. CASE u = t
    BY <1>8, <2>1 DEF e
  <2>2. CASE u # t
    <3>1. u \in Nat /\ u < t /\ t < u + BackupTics /\ u \in 0 .. t - 1 /\ t =< u + BackupTics
      BY <1>1, <1>11, <2>2, Sizes
    <3>2. Slot(u) # Slot(t) /\ Slot(u) \in 0 .. BackupTics - 1
      BY <1>1, <3>1, SlotDistinct, SlotType
    <3>3. s.sendqueue[Slot(u)].seq = u
      BY <1>1, <3>1 DEF QueueInv
    <3> QED BY <1>8, <3>2, <3>3
  <2> QED BY <2>1, <2>2
<1>12. QueueInv(c, r)
  <2>1. 0 .. r.sendseq - 1 = 0 .. t
    BY <1>1, <1>9
  <2> QED BY <1>9, <1>10, <1>11, <2>1 DEF QueueInv
<1>13. AheadInv(r, cl[c])
  <2>1. cl[c].start =< t /\ s.acknowledged =< cl[c].gametic /\ cl[c].maketic =< cl[c].gametic + Lead + 1
    BY <1>1 DEF AheadInv
  <2>2. cl[c].start =< t + 1 /\ t + 1 =< s.acknowledged + MaxAhead + 1
    BY <1>1, <1>4, <2>1, Sizes
  <2> QED BY <1>9, <2>1, <2>2 DEF AheadInv
<1>14. SendTics(q, first, t) \in DownMsg(c, t + 1)
  <2>1. first \in Nat /\ first =< t + 1 /\ t \in Int /\ t < t + 1
    <3>1. ExtraTics \in Nat /\ t \in Nat
      BY <1>1, Sizes
    <3> HIDE DEF t
    <3> QED BY <3>1
  <2>2. ASSUME NEW u \in first .. t PROVE q[Slot(u)].seq = u
    <3>1. u \in 0 .. t /\ t + 1 =< u + BackupTics
      <4>0. ExtraTics \in Nat /\ BackupTics \in Nat /\ ExtraTics < BackupTics
        BY Sizes
      <4>1. t \in Nat /\ ExtraTics \in Nat /\ BackupTics \in Nat /\ ExtraTics + 1 =< BackupTics
        BY <1>1, <4>0
      <4> HIDE DEF t
      <4>2. u \in Int /\ first =< u /\ u =< t
        BY <2>1, <4>1
      <4>3. t - ExtraTics =< first /\ first \in Nat
        BY <4>1
      <4> HIDE DEF first
      <4> QED BY <4>1, <4>2, <4>3
    <3> QED BY <1>11, <3>1
  <2> HIDE DEF first, t
  <2> QED BY <1>0, <1>9, <1>12, <2>1, <2>2, SendTicsType
<1> QED BY <1>5, <1>9, <1>12, <1>13, <1>14 DEF r, s

\* NET_SV_CheckDeadlock asks for tics that are not far from the window.
LEMMA CheckDeadlockType ==
  ASSUME start \in Nat, NEW p
  PROVE  CheckDeadlock(p) \subseteq 0 .. start + BackupTics + 5
<1> DEFINE free == {i \in 0 .. BackupTics - 1 : ~SlotActive(DeadlockSlot(p, i))}
<1>1. CheckDeadlock(p) = IF free = {} THEN {} ELSE start + Min(free) .. start + Min(free) + 5
  BY DEF CheckDeadlock
<1>2. free \subseteq Nat /\ \A i \in free : i \in Nat /\ i < BackupTics
  BY Sizes
<1> HIDE DEF free
<1>3. CASE free = {}
  BY <1>1, <1>3
<1>4. CASE free # {}
  <2>1. Min(free) \in free
    BY <1>2, <1>4, MinFacts
  <2>2. Min(free) \in Nat /\ Min(free) < BackupTics
    BY <1>2, <2>1
  <2> QED BY <1>1, <1>4, <2>2, Sizes
<1> QED BY <1>3, <1>4

\* What a client is kept at the server after NET_SV_PumpSendQueue.
Pump(c) == IF c \in Online /\ PumpReady(c) THEN Pumped(c) ELSE sv[c]

LEMMA PumpKeeps ==
  ASSUME IInv, NEW c \in Client
  PROVE  /\ Pump(c) \in ServerClient /\ Pump(c).online = sv[c].online
         /\ Pump(c).acknowledged = sv[c].acknowledged
         /\ sv[c].sendseq =< Pump(c).sendseq
         /\ QueueInv(c, Pump(c)) /\ AheadInv(Pump(c), cl[c])
         /\ WindowInv(c, Pump(c), cl[c]) /\ GameInv(c, Pump(c), cl[c])
         /\ WireInv(c, Pump(c), cl[c], wire["up"][c], wire["down"][c])
<1> DEFINE s == sv[c]
           r == Pump(c)
           k == cl[c]
<1>1. /\ s \in ServerClient /\ s.sendseq \in Nat /\ k \in GameClient
      /\ k.gametic \in Nat /\ k.maketic \in Nat
  BY ClientTypes DEF IInv
<1>2. /\ QueueInv(c, s) /\ AheadInv(s, k) /\ WindowInv(c, s, k) /\ GameInv(c, s, k)
      /\ WireInv(c, s, k, wire["up"][c], wire["down"][c])
  BY DEF IInv, ClientInv
<1>3. CASE c \in Online /\ PumpReady(c)
  <2>1. r = Pumped(c)
    BY <1>3 DEF Pump
  <2>2. /\ r \in ServerClient /\ r.online = s.online /\ r.acknowledged = s.acknowledged
        /\ r.sendseq = s.sendseq + 1 /\ QueueInv(c, r) /\ AheadInv(r, k)
    BY <1>3, <2>1, PumpedKeeps
  <2> HIDE DEF r, s, k
  <2>3. s.sendseq =< r.sendseq /\ 0 .. s.sendseq - 1 \subseteq 0 .. r.sendseq - 1
    BY <1>1, <2>2
  <2>4. WindowInv(c, r, k)
    BY <1>2, <2>3 DEF WindowInv
  <2>5. GameInv(c, r, k)
    BY <1>2, <2>2 DEF GameInv
  <2>6. WireInv(c, r, k, wire["up"][c], wire["down"][c])
    <3>1. k.gametic =< k.gametic /\ k.maketic =< k.maketic
      BY <1>1
    <3> QED BY <1>1, <1>2, <2>2, <2>3, <3>1, WireMono
  <2> QED BY <2>2, <2>3, <2>4, <2>5, <2>6 DEF r, s, k
<1>4. CASE ~ (c \in Online /\ PumpReady(c))
  <2>1. Pump(c) = s
    BY <1>4 DEF Pump
  <2>2. s.sendseq =< s.sendseq
    BY <1>1
  <2> QED BY <1>1, <1>2, <2>1, <2>2
<1> QED BY <1>3, <1>4

\* What the server sends to a client in a round.
LEMMA ServerSendsType ==
  ASSUME IInv, NEW c \in Client, NEW pumped, pumped = {d \in Online : PumpReady(d)},
         NEW b \in Nat, NEW lost, NEW again,
         \A p \in Player : lost[p] \subseteq 0 .. b - 1 /\ again[p] \subseteq 0 .. b - 1
  PROVE  ServerSends(c, pumped, lost, again) \in Seq(DownMsg(c, Pump(c).sendseq))
<1> DEFINE D == DownMsg(c, Pump(c).sendseq)
           A == IF c \in pumped THEN <<PumpSends(c)>> ELSE << >>
           B == IF c \in Player THEN Requests(lost[c]) \o Requests(again[c]) ELSE << >>
<1>1. A \in Seq(D)
  <2>1. CASE c \in pumped
    <3>1. PumpSends(c) \in D
      BY <2>1, PumpedKeeps DEF Pump
    <3> HIDE DEF D
    <3> QED BY <2>1, <3>1
  <2>2. CASE c \notin pumped
    <3>1. A = << >>
      BY <2>2
    <3> HIDE DEF A
    <3> QED BY <3>1
  <2> QED BY <2>1, <2>2
<1>2. B \in Seq(D)
  <2>1. CASE c \in Player
    <3> DEFINE R == {m \in Request : m.start + m.num =< b}
               L == Requests(lost[c])
               M == Requests(again[c])
    <3>1. L \in Seq(R) /\ M \in Seq(R)
      BY <2>1, RequestsType
    <3>2. R \subseteq D
      BY DEF DownMsg
    <3> HIDE DEF R, L, M, D
    <3>3. L \in Seq(D) /\ M \in Seq(D)
      BY <3>1, <3>2, SeqMono
    <3>4. L \o M \in Seq(D)
      BY <3>3
    <3> QED BY <2>1, <3>4 DEF L, M
  <2>2. CASE c \notin Player
    <3>1. B = << >>
      BY <2>2
    <3> HIDE DEF B
    <3> QED BY <3>1
  <2> QED BY <2>1, <2>2
<1>3. ServerSends(c, pumped, lost, again) = A \o B
  BY DEF ServerSends
<1> HIDE DEF A, B, D
<1>4. A \o B \in Seq(D)
  BY <1>1, <1>2
<1> QED BY <1>3, <1>4 DEF D

LEMMA ServerRunKeeps ==
  ASSUME IInv, NEW late \in BOOLEAN, ServerRun(late)
  PROVE  IInv'
<1> DEFINE s == AdvanceTo(start)
           pumped == {c \in Online : PumpReady(c)}
           lost == Lost(late)
           again == Again(late, s)
           b == s + start + BackupTics + 6
           down(c) == IF cl[c].playing
                      THEN wire["down"][c] \o ServerSends(c, pumped, lost, again) ELSE << >>
<1>1. Types /\ RecvInv /\ \A c \in Client : ClientInv(c, sv[c], cl[c], wire["up"][c], wire["down"][c])
  BY DEF IInv
<1>2. /\ UNCHANGED <<cl, faults>>
      /\ start' = s
      /\ recv' = [p \in Player |-> [t \in DOMAIN recv[p] \cap Window(s) |-> recv[p][t]]]
      /\ asked' = [p \in Player |-> (asked[p] \cup (lost[p] \cap Window(start))) \cap Window(s)]
      /\ sv' = [c \in Client |-> IF c \in pumped THEN Pumped(c) ELSE sv[c]]
      /\ wire' = [wire EXCEPT !["down"] = [c \in Client |-> down(c)]]
  BY DEF ServerRun
<1>3. /\ s \in Nat /\ start =< s /\ start \in Nat
      /\ \A c \in Online : s =< sv[c].acknowledged
  BY <1>1, AdvanceToFacts DEF Types
<1>4. \A c \in Client : (IF c \in pumped THEN Pumped(c) ELSE sv[c]) = Pump(c)
  BY DEF Pump
<1> HIDE DEF s
<1>5. b \in Nat
  BY <1>3, Sizes
<1>6. \A p \in Player : lost[p] \subseteq 0 .. b - 1 /\ again[p] \subseteq 0 .. b - 1
  <2> TAKE p \in Player
  <2>1. CheckDeadlock(p) \subseteq 0 .. start + BackupTics + 5
    BY <1>3, CheckDeadlockType
  <2>2. 0 .. start + BackupTics + 5 \subseteq 0 .. b - 1
    BY <1>3, Sizes
  <2>3. Window(s) \subseteq 0 .. b - 1
    BY <1>3, Sizes DEF Window
  <2> HIDE DEF b
  <2>4. lost[p] \subseteq 0 .. b - 1
    BY <2>1, <2>2 DEF Lost
  <2>5. again[p] \subseteq 0 .. b - 1
    BY <2>3 DEF Again
  <2> QED BY <2>4, <2>5
<1> HIDE DEF b, lost, again
<1>7. ASSUME NEW c \in Client PROVE down(c) \in Seq(DownMsg(c, Pump(c).sendseq))
  <2> DEFINE D == DownMsg(c, Pump(c).sendseq)
             A == ServerSends(c, pumped, lost, again)
  <2>1. A \in Seq(D)
    BY <1>5, <1>6, ServerSendsType
  <2>2. wire["down"][c] \in Seq(D)
    BY PumpKeeps DEF WireInv
  <2> HIDE DEF D, A, pumped
  <2>3. wire["down"][c] \o A \in Seq(D) /\ << >> \in Seq(D)
    BY <2>1, <2>2
  <2> QED BY <2>3 DEF A, D
<1>8. \A c \in Client : down(c) \in Seq(Datagram)
  <2> HIDE DEF down
  <2> QED BY <1>7, Datagrams
<1> HIDE DEF down
<1>9. /\ wire' \in [{"up", "down"} -> [Client -> Seq(Datagram)]]
      /\ \A c \in Client : wire'["up"][c] = wire["up"][c] /\ wire'["down"][c] = down(c)
  <2>1. wire \in [{"up", "down"} -> [Client -> Seq(Datagram)]]
    BY <1>1 DEF Types
  <2> QED BY <1>2, <1>8, <2>1
<1>10. /\ sv' \in [Client -> ServerClient]
       /\ \A c \in Client : sv'[c] = Pump(c)
       /\ \A c \in Client : sv'[c].online = sv[c].online
       /\ \A c \in Client : sv'[c].acknowledged = sv[c].acknowledged
  <2>1. sv' = [c \in Client |-> Pump(c)]
    BY <1>2, <1>4
  <2> QED BY <2>1, PumpKeeps
<1>11. /\ recv' \in [Player -> Partial(Nat, Nat)] /\ asked' \in [Player -> SUBSET Nat]
       /\ \A p \in Player : /\ DOMAIN recv'[p] \subseteq Window(s) \cap (0 .. cl[p].maketic - 1)
                            /\ DOMAIN recv'[p] = DOMAIN recv[p] \cap Window(s)
                            /\ \A t \in DOMAIN recv'[p] : recv'[p][t] = t
  <2>1. recv \in [Player -> Partial(Nat, Nat)] /\ asked \in [Player -> SUBSET Nat]
    BY <1>1 DEF Types
  <2>2. \A p \in Player : /\ DOMAIN recv[p] \subseteq 0 .. cl[p].maketic - 1
                          /\ \A t \in DOMAIN recv[p] : recv[p][t] = t
    BY <1>1 DEF RecvInv
  <2> DEFINE w(p) == [t \in DOMAIN recv[p] \cap Window(s) |-> recv[p][t]]
  <2>3. ASSUME NEW p \in Player
        PROVE  /\ w(p) \in Partial(Nat, Nat) /\ DOMAIN w(p) = DOMAIN recv[p] \cap Window(s)
               /\ \A t \in DOMAIN w(p) : w(p)[t] = t
    <3>1. DOMAIN w(p) = DOMAIN recv[p] \cap Window(s) /\ \A t \in DOMAIN w(p) : w(p)[t] = t
      BY <2>2
    <3>2. DOMAIN recv[p] \subseteq Nat
      BY <2>1, PartialFacts
    <3>3. w(p) \in [DOMAIN w(p) -> Nat] /\ DOMAIN w(p) \subseteq Nat
      BY <2>2, <3>1, <3>2
    <3> HIDE DEF w
    <3> QED BY <3>1, <3>3, PartialFacts
  <2>4. recv' = [p \in Player |-> w(p)]
    BY <1>2
  <2>5. Window(s) \subseteq Nat
    BY <1>3, Sizes DEF Window
  <2>6. asked' \in [Player -> SUBSET Nat]
    <3> DEFINE a(p) == (asked[p] \cup (lost[p] \cap Window(start))) \cap Window(s)
    <3>1. \A p \in Player : a(p) \in SUBSET Nat
      BY <2>5
    <3>2. asked' = [p \in Player |-> a(p)]
      BY <1>2
    <3> HIDE DEF a
    <3> QED BY <3>1, <3>2
  <2> HIDE DEF w
  <2>7. ASSUME NEW p \in Player
        PROVE  /\ DOMAIN recv'[p] \subseteq Window(s) \cap (0 .. cl[p].maketic - 1)
               /\ DOMAIN recv'[p] = DOMAIN recv[p] \cap Window(s)
               /\ \A t \in DOMAIN recv'[p] : recv'[p][t] = t
    <3>1. recv'[p] = w(p)
      BY <2>4
    <3>2. \A t \in DOMAIN w(p) : t \in DOMAIN recv[p] /\ t \in Window(s)
      BY <2>3
    <3> QED BY <2>2, <2>3, <3>1, <3>2
  <2>8. recv' \in [Player -> Partial(Nat, Nat)]
    BY <2>3, <2>4
  <2> QED BY <2>6, <2>7, <2>8
<1>12. Types'
  BY <1>1, <1>2, <1>3, <1>9, <1>10, <1>11 DEF Types
<1>13. RecvInv'
  <2>1. Online' = Online
    BY <1>10 DEF Online
  <2>2. \A c \in Online' : start' =< sv'[c].acknowledged
    BY <1>2, <1>3, <1>10, <2>1 DEF Online
  <2>3. \A p \in Player : /\ DOMAIN recv'[p] \subseteq Window(start') \cap (0 .. cl'[p].maketic - 1)
                          /\ \A t \in DOMAIN recv'[p] : recv'[p][t] = t
    BY <1>2, <1>11
  <2>4. ASSUME Leavers = {}, NEW c \in Client, NEW p \in Player \ {c},
               NEW u \in start' .. sv'[c].sendseq - 1
        PROVE  u \in DOMAIN recv'[p]
    <3>1. p \in Online
      <4>1. p \in Client
        BY DEF Client
      <4>2. GameInv(p, sv[p], cl[p])
        BY <1>1, <4>1 DEF ClientInv
      <4>3. sv[p].online
        BY <2>4, <4>2 DEF GameInv
      <4> QED BY <4>1, <4>3 DEF Online
    <3>2. sv[c].sendseq \in Nat
      BY <1>1, ClientTypes
    <3>3. start .. sv[c].sendseq - 1 \subseteq DOMAIN recv[p]
      BY <1>1, <2>4 DEF RecvInv
    <3>4. u \in Int /\ s =< u /\ u =< Pump(c).sendseq - 1 /\ Pump(c).sendseq \in Nat
      <4>1. Pump(c).sendseq \in Nat
        BY PumpKeeps DEF ServerClient
      <4> QED BY <1>2, <1>3, <1>10, <4>1
    <3>5. u \in DOMAIN recv[p]
      <4>1. CASE u < sv[c].sendseq
        BY <1>3, <3>2, <3>3, <3>4, <4>1
      <4>2. CASE ~ (u < sv[c].sendseq)
        <5>1. c \in Online /\ PumpReady(c) /\ Pump(c).sendseq = sv[c].sendseq + 1
          <6>1. Pump(c) # sv[c]
            BY <3>2, <3>4, <4>2
          <6>2. c \in Online /\ PumpReady(c) /\ Pump(c) = Pumped(c)
            BY <6>1 DEF Pump
          <6> QED BY <6>2, PumpedKeeps
        <5>2. u = sv[c].sendseq
          BY <3>2, <3>4, <4>2, <5>1
        <5> QED BY <2>4, <3>1, <5>1, <5>2 DEF PumpReady
      <4> QED BY <4>1, <4>2
    <3>6. u \in Window(s)
      <4>1. u \in Window(start)
        BY <1>1, <3>5 DEF RecvInv
      <4> QED BY <1>3, <3>4, <4>1, Sizes DEF Window
    <3> QED BY <1>11, <3>5, <3>6
  <2> QED BY <2>2, <2>3, <2>4 DEF RecvInv
<1>14. ASSUME NEW c \in Client
       PROVE  ClientInv(c, sv'[c], cl'[c], wire'["up"][c], wire'["down"][c])
  <2>1. /\ QueueInv(c, Pump(c)) /\ AheadInv(Pump(c), cl[c])
        /\ WindowInv(c, Pump(c), cl[c]) /\ GameInv(c, Pump(c), cl[c])
        /\ WireInv(c, Pump(c), cl[c], wire["up"][c], wire["down"][c])
    BY PumpKeeps
  <2>2. WireInv(c, Pump(c), cl[c], wire["up"][c], down(c))
    BY <1>7, <2>1 DEF WireInv
  <2> QED BY <1>2, <1>9, <1>10, <2>1, <2>2 DEF ClientInv
<1> QED BY <1>12, <1>13, <1>14 DEF IInv

---------------------------------------------------------------------------
(* The network and the programs that end.                                  *)

LEMMA LoseKeeps ==
  ASSUME IInv, Lose
  PROVE  IInv'
<1>1. PICK d \in {"up", "down"}, c \in Client :
        /\ wire[d][c] # << >>
        /\ wire' = [wire EXCEPT ![d][c] = Tail(@)]
        /\ faults' = faults + 1
        /\ UNCHANGED <<start, recv, asked, sv, cl>>
  BY SizesAssumption DEF Lose
<1>2. Types /\ RecvInv /\ \A b \in Client : ClientInv(b, sv[b], cl[b], wire["up"][b], wire["down"][b])
  BY DEF IInv
<1>3. wire \in [{"up", "down"} -> [Client -> Seq(Datagram)]] /\ faults \in Nat
  BY <1>2 DEF Types
<1> DEFINE q == Tail(wire[d][c])
<1>4. /\ wire'[d] = [wire[d] EXCEPT ![c] = q]
      /\ \A e \in {"up", "down"} : e # d => wire'[e] = wire[e]
      /\ wire' = [e \in {"up", "down"} |-> wire'[e]]
  BY <1>1, <1>3
<1>5. ASSUME NEW S, wire[d][c] \in Seq(S) PROVE q \in Seq(S)
  BY <1>1, <1>5
<1>6. wire[d][c] \in Seq(Datagram)
  BY <1>3
<1>7. q \in Seq(Datagram)
  BY <1>5, <1>6
<1> HIDE DEF q
<1>8. /\ wire' \in [{"up", "down"} -> [Client -> Seq(Datagram)]]
      /\ \A b \in Client \ {c} : wire'["up"][b] = wire["up"][b] /\ wire'["down"][b] = wire["down"][b]
      /\ \A e \in {"up", "down"} : wire'[e][c] = IF e = d THEN q ELSE wire[e][c]
  <2>2. \A e \in {"up", "down"} : wire[e] \in [Client -> Seq(Datagram)]
    BY <1>3
  <2>3. wire'[d] \in [Client -> Seq(Datagram)]
    BY <1>4, <1>7, <2>2
  <2>1. \A e \in {"up", "down"} : wire'[e] \in [Client -> Seq(Datagram)]
    BY <1>4, <2>2, <2>3
  <2> QED BY <1>4, <2>1, <2>2
<1>9. Types'
  BY <1>1, <1>2, <1>3, <1>8 DEF Types
<1>10. RecvInv'
  BY <1>1, <1>2 DEF RecvInv, Online
<1>11. ASSUME NEW b \in Client
       PROVE  ClientInv(b, sv'[b], cl'[b], wire'["up"][b], wire'["down"][b])
  <2>1. CASE b = c
    <3>1. WireInv(c, sv[c], cl[c], wire["up"][c], wire["down"][c])
      BY <1>2 DEF ClientInv
    <3>2. WireInv(c, sv[c], cl[c], wire'["up"][c], wire'["down"][c])
      BY <1>5, <1>8, <3>1 DEF WireInv
    <3> QED BY <1>1, <1>2, <2>1, <3>2 DEF ClientInv
  <2>2. CASE b # c
    BY <1>1, <1>2, <1>8, <2>2, ClientFrame
  <2> QED BY <2>1, <2>2
<1> QED BY <1>9, <1>10, <1>11 DEF IInv

LEMMA QuitKeeps ==
  ASSUME IInv, NEW c \in Client, Quit(c)
  PROVE  IInv'
<1> DEFINE k == cl[c]
           k2 == [k EXCEPT !.playing = FALSE]
<1>1. /\ c \in Leavers /\ cl' = [cl EXCEPT ![c] = k2]
      /\ wire' = [wire EXCEPT !["down"][c] = << >>]
      /\ UNCHANGED <<start, recv, asked, sv, faults>>
  BY DEF Quit
<1>2. Types /\ RecvInv /\ \A b \in Client : ClientInv(b, sv[b], cl[b], wire["up"][b], wire["down"][b])
  BY DEF IInv
<1>3. k \in GameClient
  BY <1>2, ClientTypes
<1>4. /\ k2 \in GameClient
      /\ k2.window = k.window /\ k2.asked = k.asked
      /\ k2.start = k.start /\ k2.gametic = k.gametic /\ k2.maketic = k.maketic
      /\ k2.netcmds = k.netcmds /\ k2.ran = k.ran
  <2> HIDE DEF k
  <2> QED BY <1>3 DEF GameClient
<1> HIDE DEF k2
<1>5. /\ cl' \in [Client -> GameClient] /\ cl'[c] = k2
      /\ \A b \in Client \ {c} : cl'[b] = cl[b]
  BY <1>1, <1>2, <1>4, ChangeClient DEF Types
<1>6. /\ wire' \in [{"up", "down"} -> [Client -> Seq(Datagram)]]
      /\ \A b \in Client \ {c} : wire'["up"][b] = wire["up"][b] /\ wire'["down"][b] = wire["down"][b]
      /\ wire'["up"][c] = wire["up"][c] /\ wire'["down"][c] = << >>
  <2>1. wire \in [{"up", "down"} -> [Client -> Seq(Datagram)]] /\ << >> \in Seq(Datagram)
    BY <1>2 DEF Types
  <2> QED BY <1>1, <2>1
<1>7. Types'
  BY <1>1, <1>2, <1>5, <1>6 DEF Types
<1>8. RecvInv'
  <2>1. \A p \in Player : cl'[p].maketic = cl[p].maketic
    BY <1>4, <1>5 DEF Client, k
  <2> QED BY <1>1, <1>2, <2>1 DEF RecvInv, Online
<1>9. ASSUME NEW b \in Client
      PROVE  ClientInv(b, sv'[b], cl'[b], wire'["up"][b], wire'["down"][b])
  <2>1. CASE b = c
    <3>1. QueueInv(c, sv[c]) /\ AheadInv(sv[c], k) /\ WindowInv(c, sv[c], k)
          /\ WireInv(c, sv[c], k, wire["up"][c], wire["down"][c])
      BY <1>2 DEF ClientInv, k
    <3>2. AheadInv(sv[c], k2) /\ WindowInv(c, sv[c], k2)
      BY <1>4, <3>1 DEF AheadInv, WindowInv
    <3>3. GameInv(c, sv[c], k2)
      BY <1>1 DEF GameInv
    <3>4. WireInv(c, sv[c], k2, wire'["up"][c], wire'["down"][c])
      <4>1. << >> \in Seq(DownMsg(c, sv[c].sendseq))
        OBVIOUS
      <4> QED BY <1>4, <1>6, <3>1, <4>1 DEF WireInv
    <3> QED BY <1>1, <1>5, <2>1, <3>1, <3>2, <3>3, <3>4 DEF ClientInv
  <2>2. CASE b # c
    BY <1>1, <1>2, <1>5, <1>6, <2>2, ClientFrame
  <2> QED BY <2>1, <2>2
<1> QED BY <1>7, <1>8, <1>9 DEF IInv

LEMMA DropSilentKeeps ==
  ASSUME IInv, NEW p \in Player, DropSilent(p)
  PROVE  IInv'
<1> DEFINE s == sv[p]
           s2 == [s EXCEPT !.online = FALSE]
<1>1. /\ ~cl[p].playing /\ sv' = [sv EXCEPT ![p] = s2]
      /\ UNCHANGED <<start, recv, asked, cl, wire, faults>>
  BY DEF DropSilent
<1>2. Types /\ RecvInv /\ \A b \in Client : ClientInv(b, sv[b], cl[b], wire["up"][b], wire["down"][b])
  BY DEF IInv
<1>3. p \in Client
  BY DEF Client
<1>4. s \in ServerClient
  BY <1>2, <1>3, ClientTypes
<1>5. /\ s2 \in ServerClient /\ s2.sendseq = s.sendseq /\ s2.acknowledged = s.acknowledged
      /\ s2.sendqueue = s.sendqueue /\ ~s2.online
  <2> HIDE DEF s
  <2> QED BY <1>4 DEF ServerClient
<1> HIDE DEF s2
<1>6. /\ sv' \in [Client -> ServerClient] /\ sv'[p] = s2
      /\ \A b \in Client \ {p} : sv'[b] = sv[b]
  BY <1>1, <1>2, <1>3, <1>5 DEF Types
<1>7. QueueInv(p, s) /\ AheadInv(s, cl[p]) /\ WindowInv(p, s, cl[p]) /\ GameInv(p, s, cl[p])
      /\ WireInv(p, s, cl[p], wire["up"][p], wire["down"][p])
  BY <1>2, <1>3 DEF ClientInv
<1>8. p \in Leavers
  BY <1>1, <1>7 DEF GameInv
<1>9. Types'
  BY <1>1, <1>2, <1>6 DEF Types
<1>10. RecvInv'
  <2>1. \A b \in Client : sv'[b].sendseq = sv[b].sendseq /\ sv'[b].acknowledged = sv[b].acknowledged
    BY <1>5, <1>6
  <2>2. \A b \in Online' : b \in Online
    BY <1>5, <1>6 DEF Online
  <2>3. \A b \in Online : b \in Client
    BY DEF Online
  <2> QED BY <1>1, <1>2, <2>1, <2>2, <2>3 DEF RecvInv
<1>11. ASSUME NEW b \in Client
       PROVE  ClientInv(b, sv'[b], cl'[b], wire'["up"][b], wire'["down"][b])
  <2>1. CASE b = p
    <3>1. QueueInv(p, s2) /\ AheadInv(s2, cl[p]) /\ WindowInv(p, s2, cl[p])
          /\ WireInv(p, s2, cl[p], wire["up"][p], wire["down"][p])
      <4> HIDE DEF s
      <4> QED BY <1>5, <1>7 DEF QueueInv, AheadInv, WindowInv, WireInv
    <3>2. GameInv(p, s2, cl[p])
      BY <1>8 DEF GameInv
    <3> QED BY <1>1, <1>6, <2>1, <3>1, <3>2 DEF ClientInv
  <2>2. CASE b # p
    BY <1>1, <1>2, <1>6, <2>2, ClientFrame
  <2> QED BY <2>1, <2>2
<1> QED BY <1>9, <1>10, <1>11 DEF IInv

---------------------------------------------------------------------------
(* The theorems.                                                           *)

LEMMA InitInv ==
  ASSUME Init
  PROVE  IInv
<1> DEFINE s0 == [online |-> TRUE, sendseq |-> 0, acknowledged |-> 0,
                  sendqueue |-> [i \in 0 .. BackupTics - 1 |-> NoCmd]]
           k0 == [playing |-> TRUE, gametic |-> 0, maketic |-> 0, start |-> 0,
                  window |-> << >>, asked |-> {}, playeringame |-> Player,
                  netcmds |-> [p \in Player |-> << >>], owes |-> FALSE, ran |-> << >>]
<1>1. /\ start = 0 /\ recv = [p \in Player |-> << >>] /\ asked = [p \in Player |-> {}]
      /\ sv = [c \in Client |-> s0] /\ cl = [c \in Client |-> k0]
      /\ wire = [d \in {"up", "down"} |-> [c \in Client |-> << >>]] /\ faults = 0
  BY DEF Init
<1>2. << >> \in Partial(Nat, Nat) /\ << >> \in Partial(Nat, Command) /\ << >> \in Command
  BY PartialFacts DEF Command
<1>3. NoCmd \in Entry /\ NoCmd.seq = -1
  BY <1>2 DEF NoCmd, Entry
<1>4. s0 \in ServerClient
  BY <1>3 DEF ServerClient
<1>5. k0 \in GameClient
  BY <1>2 DEF GameClient
<1>6. DOMAIN << >> = {} /\ Len(<< >>) = 0
  OBVIOUS
<1>7. \A c \in Client : sv[c] = s0 /\ cl[c] = k0 /\ wire["up"][c] = << >> /\ wire["down"][c] = << >>
  BY <1>1
<1>8. Types
  <2> HIDE DEF s0, k0
  <2>1. << >> \in Seq(Datagram)
    OBVIOUS
  <2> QED BY <1>1, <1>2, <1>4, <1>5, <2>1 DEF Types
<1>9. RecvInv
  <2>1. \A p \in Player : DOMAIN recv[p] = {}
    BY <1>1, <1>6
  <2>2. \A c \in Client : sv[c].sendseq = 0 /\ sv[c].acknowledged = 0
    BY <1>7
  <2>3. \A c \in Client : start .. sv[c].sendseq - 1 = {}
    BY <1>1, <2>2
  <2>4. \A c \in Online : start =< sv[c].acknowledged
    BY <1>1, <2>2 DEF Online
  <2> QED BY <2>1, <2>3, <2>4 DEF RecvInv
<1>10. ASSUME NEW c \in Client PROVE QueueInv(c, s0)
  BY <1>3 DEF QueueInv
<1>11. AheadInv(s0, k0)
  BY Sizes DEF AheadInv
<1>12. ASSUME NEW c \in Client PROVE WindowInv(c, s0, k0)
  BY <1>6 DEF WindowInv
<1>13. ASSUME NEW c \in Client PROVE GameInv(c, s0, k0)
  <2>1. << >> = [i \in 1 .. 0 |-> i - 1]
    OBVIOUS
  <2> QED BY <2>1 DEF GameInv
<1>14. ASSUME NEW c \in Client PROVE WireInv(c, s0, k0, << >>, << >>)
  BY DEF WireInv
<1> HIDE DEF s0, k0
<1> QED BY <1>7, <1>8, <1>9, <1>10, <1>11, <1>12, <1>13, <1>14 DEF IInv, ClientInv

LEMMA NextKeeps ==
  ASSUME IInv, [Next]_vars
  PROVE  IInv'
<1>1. CASE Lose
  BY <1>1, LoseKeeps
<1>2. ASSUME NEW late \in BOOLEAN, ServerRun(late) PROVE IInv'
  BY <1>2, ServerRunKeeps
<1>3. ASSUME NEW c \in Client, ServerReceive(c) PROVE IInv'
  BY <1>3, ServerReceiveKeeps
<1>4. ASSUME NEW c \in Client, ClientReceive(c) PROVE IInv'
  BY <1>4, ClientReceiveKeeps
<1>5. ASSUME NEW c \in Client, NEW late \in BOOLEAN, NEW newtic \in BOOLEAN, MiniLoop(c, late, newtic)
      PROVE  IInv'
  BY <1>5, MiniLoopKeeps
<1>6. ASSUME NEW c \in Client, Quit(c) PROVE IInv'
  BY <1>6, QuitKeeps
<1>7. ASSUME NEW c \in Player, DropSilent(c) PROVE IInv'
  BY <1>7, DropSilentKeeps
<1>8. CASE UNCHANGED vars
  BY <1>8 DEF IInv, Types, RecvInv, Online, vars
<1> QED BY <1>1, <1>2, <1>3, <1>4, <1>5, <1>6, <1>7, <1>8 DEF Next

\* The tic exchange keeps its invariant, whatever the network does.
THEOREM TicsInvariant == Spec => []IInv
<1>1. Init => IInv
  BY InitInv
<1>2. IInv /\ [Next]_vars => IInv'
  BY NextKeeps
<1> QED BY <1>1, <1>2, PTL DEF Spec

\* NoOverrun: no command in netcmds is written over one that has not been
\* run, in any game, whoever leaves it.  The client has built its own
\* commands at most Lead + 1 ahead of the game (NetUpdate), and those of the
\* others have been sent to it, at most MaxAhead + 1 ahead of what it has
\* acknowledged (NET_SV_PumpSendQueue).
THEOREM NetcmdsFit == Spec => []NoOverrun
<1>1. ASSUME IInv PROVE NoOverrun
  <2>1. SUFFICES ASSUME NEW c \in Client, NEW p \in Player
                 PROVE  NetTic(c, cl[c], p) - cl[c].gametic =< BackupTics
    BY DEF NoOverrun
  <2>2. AheadInv(sv[c], cl[c]) /\ WindowInv(c, sv[c], cl[c])
    BY <1>1 DEF IInv, ClientInv
  <2>3. /\ sv[c].sendseq \in Nat /\ sv[c].acknowledged \in Nat /\ cl[c].gametic \in Nat
        /\ cl[c].maketic \in Nat /\ cl[c].start \in Nat /\ cl[c].netcmds[p] \in Seq(Nat)
    BY <1>1, ClientTypes DEF IInv, ServerClient, GameClient
  <2>4. CASE p = c
    <3>1. NetTic(c, cl[c], p) = cl[c].maketic
      BY <2>4 DEF NetTic
    <3>2. cl[c].maketic - cl[c].gametic =< BackupTics
      <4>1. cl[c].maketic =< cl[c].gametic + Lead + 1
        BY <2>2 DEF AheadInv
      <4>2. cl[c].gametic \in Nat /\ cl[c].maketic \in Nat
        BY <2>3
      <4> QED BY <4>1, <4>2, Sizes
    <3> QED BY <3>1, <3>2
  <2>5. CASE p # c
    <3> DEFINE n == Len(cl[c].netcmds[p])
    <3>1. n =< cl[c].start /\ n \in Nat
      BY <2>2, <2>3, <2>5 DEF WindowInv
    <3>2. NetTic(c, cl[c], p) = n
      BY <2>5 DEF NetTic
    <3> HIDE DEF n
    <3>3. cl[c].start =< cl[c].gametic + BackupTics
      <4>1. /\ cl[c].start =< sv[c].sendseq /\ sv[c].acknowledged =< cl[c].gametic
            /\ sv[c].sendseq =< sv[c].acknowledged + MaxAhead + 1
        BY <2>2 DEF AheadInv
      <4>2. /\ sv[c].sendseq \in Nat /\ sv[c].acknowledged \in Nat /\ cl[c].gametic \in Nat
            /\ cl[c].start \in Nat
        BY <2>3
      <4> QED BY <4>1, <4>2, Sizes
    <3>4. n - cl[c].gametic =< BackupTics
      BY <2>3, <3>1, <3>3, Sizes
    <3> QED BY <3>2, <3>4
  <2> QED BY <2>4, <2>5
<1> QED BY <1>1, TicsInvariant, PTL

\* SendQueueKept: a request of a client for tics that it still needs finds
\* them in its send queue at the server, and NET_SV_SendTics finds the tics
\* that it sends with the next one: the send queue holds the last BACKUPTICS
\* commands, and no client is sent more than MaxAhead + 1 beyond its game.
THEOREM SentTicsKept == Spec => []SendQueueKept
<1>1. ASSUME IInv PROVE RequestsHonoured
  <2>1. SUFFICES ASSUME NEW c \in Client, NEW i \in DOMAIN wire["up"][c],
                        wire["up"][c][i].kind = "RESEND",
                        wire["up"][c][i].start >= cl[c].gametic,
                        NEW t \in wire["up"][c][i].start ..
                                    wire["up"][c][i].start + wire["up"][c][i].num - 1
                 PROVE  sv[c].sendqueue[Slot(t)].seq = t
    BY DEF RequestsHonoured
  <2> DEFINE m == wire["up"][c][i]
  <2>2. /\ AheadInv(sv[c], cl[c]) /\ QueueInv(c, sv[c])
        /\ WireInv(c, sv[c], cl[c], wire["up"][c], wire["down"][c])
    BY <1>1 DEF IInv, ClientInv
  <2>3. m \in UpMsg(cl[c].gametic, cl[c].maketic, sv[c].sendseq)
    BY <2>2, SeqElement DEF WireInv
  <2>4. sv[c].sendseq \in Nat /\ sv[c].acknowledged \in Nat /\ cl[c].gametic \in Nat
    BY <1>1, ClientTypes DEF IInv, ServerClient, GameClient
  <2>5. m.start \in Nat /\ m.num \in Nat /\ m.start + m.num =< sv[c].sendseq
    BY <2>1, <2>3 DEF UpMsg, PlayerData, PlayerAck, Request
  <2>6. t \in 0 .. sv[c].sendseq - 1 /\ sv[c].sendseq =< t + BackupTics
    BY <2>1, <2>2, <2>4, <2>5, Sizes DEF AheadInv
  <2> QED BY <2>2, <2>6 DEF QueueInv
<1>2. ASSUME IInv PROVE ExtraTicsKept
  <2>1. SUFFICES ASSUME NEW c \in Client,
                        NEW u \in (IF sv[c].sendseq < ExtraTics THEN 0 ELSE sv[c].sendseq - ExtraTics)
                                    .. sv[c].sendseq - 1
                 PROVE  sv[c].sendqueue[Slot(u)].seq = u /\ Slot(u) # Slot(sv[c].sendseq)
    BY DEF ExtraTicsKept
  <2>2. QueueInv(c, sv[c])
    BY <1>2 DEF IInv, ClientInv
  <2>3. sv[c].sendseq \in Nat
    BY <1>2, ClientTypes DEF IInv, ServerClient
  <2>4. /\ u \in 0 .. sv[c].sendseq - 1 /\ u \in Nat /\ u < sv[c].sendseq
        /\ sv[c].sendseq < u + BackupTics
    BY <2>3, Sizes
  <2>5. sv[c].sendseq =< u + BackupTics
    BY <2>3, <2>4, Sizes
  <2> QED BY <2>2, <2>3, <2>4, <2>5, SlotDistinct DEF QueueInv
<1> QED BY <1>1, <1>2, TicsInvariant, PTL DEF SendQueueKept

\* SameTics: in a game that nobody leaves, every client runs every tic with
\* the command that each player built for that very tic, whatever the network
\* loses, repeats and reorders.
THEOREM Lockstep ==
  ASSUME Leavers = {}
  PROVE  Spec => []SameTics
<1>1. ASSUME IInv PROVE SameTics
  BY <1>1 DEF IInv, ClientInv, GameInv, SameTics
<1> QED BY <1>1, TicsInvariant, PTL

\* How far the two sides are apart in a game that nobody leaves, for a client
\* that waits for another player.
LEMMA InStep ==
  ASSUME IInv, Leavers = {}, NEW c \in Client, NEW q \in Player, q # c
  PROVE  /\ start \in Nat /\ sv[c].sendseq \in Nat /\ sv[c].acknowledged \in Nat
         /\ cl[c].gametic \in Nat /\ cl[c].maketic \in Nat
         /\ start =< sv[c].acknowledged /\ sv[c].acknowledged =< cl[c].gametic
         /\ cl[c].gametic =< sv[c].sendseq
         /\ cl[c].maketic =< cl[c].gametic + Lead + 1
<1>1. AheadInv(sv[c], cl[c]) /\ GameInv(c, sv[c], cl[c])
  BY DEF IInv, ClientInv
<1>2. /\ sv[c].sendseq \in Nat /\ sv[c].acknowledged \in Nat /\ cl[c].gametic \in Nat
      /\ cl[c].maketic \in Nat /\ cl[c].start \in Nat /\ start \in Nat
  BY ClientTypes DEF IInv, Types, ServerClient, GameClient
<1>3. c \in Online /\ cl[c].gametic =< cl[c].start
  BY <1>1 DEF GameInv, Online
<1>4. start =< sv[c].acknowledged
  BY <1>3 DEF IInv, RecvInv
<1> QED BY <1>1, <1>2, <1>3, <1>4 DEF AheadInv

\* RingsKeep: in a game of two players or more that nobody leaves, a player
\* still has the tic that the server waits for, however often it has to ask,
\* and the server's window does not pass a tic that it has yet to send.  (A
\* player that is alone does not wait for the server, and may leave it behind.)
THEOREM RingsSuffice ==
  ASSUME Leavers = {}, NumPlayers >= 2
  PROVE  Spec => []RingsKeep
<1>1. ASSUME IInv PROVE WindowInStep
  <2>1. SUFFICES ASSUME NEW c \in Online
                 PROVE  sv[c].acknowledged =< cl[c].gametic /\ start =< sv[c].sendseq
    BY DEF WindowInStep
  <2>2. c \in Client
    BY DEF Online
  <2>3. PICK q \in Player : q # c
    BY Sizes DEF Player
  <2> QED BY <1>1, <2>2, <2>3, InStep
<1>2. ASSUME IInv PROVE NextTicKept
  <2> DEFINE next(p) == FirstMissing(start, DOMAIN recv[p])
  <2>1. SUFFICES ASSUME NEW p \in Online \cap Player, next(p) < cl[p].maketic
                 PROVE  InSendQueue(p, next(p))
    BY DEF NextTicKept
  <2>2. p \in Player /\ p \in Client
    BY DEF Client
  <2>3. PICK q \in Player : q # p
    BY Sizes DEF Player
  <2>4. q \in Client
    BY DEF Client
  <2>5. RecvInv
    BY <1>2 DEF IInv
  <2>6. /\ start .. sv[q].sendseq - 1 \subseteq DOMAIN recv[p]
        /\ start .. sv[p].sendseq - 1 \subseteq DOMAIN recv[q]
        /\ DOMAIN recv[q] \subseteq 0 .. cl[q].maketic - 1
        /\ DOMAIN recv[p] \subseteq Window(start)
    BY <2>2, <2>3, <2>4, <2>5 DEF RecvInv
  <2>7. /\ start \in Nat /\ sv[p].sendseq \in Nat /\ cl[p].gametic \in Nat
        /\ cl[p].maketic \in Nat /\ cl[p].gametic =< sv[p].sendseq
        /\ cl[p].maketic =< cl[p].gametic + Lead + 1
    BY <1>2, <2>2, <2>3, InStep
  <2>8. /\ sv[q].sendseq \in Nat /\ cl[q].gametic \in Nat /\ cl[q].maketic \in Nat
        /\ start =< cl[q].gametic /\ cl[q].gametic =< sv[q].sendseq
        /\ cl[q].maketic =< cl[q].gametic + Lead + 1
    <3>1. p \in Player /\ p # q
      BY <2>2, <2>3
    <3>2. /\ sv[q].acknowledged \in Nat /\ start \in Nat /\ sv[q].sendseq \in Nat
          /\ cl[q].gametic \in Nat /\ cl[q].maketic \in Nat
          /\ start =< sv[q].acknowledged /\ sv[q].acknowledged =< cl[q].gametic
          /\ cl[q].gametic =< sv[q].sendseq /\ cl[q].maketic =< cl[q].gametic + Lead + 1
      BY <1>2, <2>4, <3>1, InStep
    <3> QED BY <3>2
  <2>9. next(p) \in start .. start + BackupTics /\ next(p) \notin DOMAIN recv[p]
    BY <2>6, <2>7, FirstMissingFacts
  <2> HIDE DEF next
  <2>10. next(p) \in Nat /\ next(p) >= sv[q].sendseq
    BY <2>6, <2>7, <2>8, <2>9, Sizes
  <2>11. sv[p].sendseq =< cl[q].gametic + Lead + 1
    <3>1. CASE sv[p].sendseq =< start
      BY <2>7, <2>8, <3>1, Sizes
    <3>2. CASE sv[p].sendseq > start
      <4>1. sv[p].sendseq - 1 \in 0 .. cl[q].maketic - 1
        BY <2>6, <2>7, <3>2
      <4> QED BY <2>7, <2>8, <4>1, Sizes
    <3> QED BY <2>7, <3>1, <3>2
  <2>12. next(p) + BackupTics >= cl[p].maketic
    BY <2>7, <2>8, <2>10, <2>11, Sizes
  <2> QED BY <2>1, <2>12 DEF InSendQueue
<1> QED BY <1>1, <1>2, TicsInvariant, PTL DEF RingsKeep

\* What the server has made for any client is not far beyond its window.
Near == \A c \in Client : sv[c].sendseq =< start + MaxAhead + 1

\* The window follows the acknowledgements at once: the commands for all the
\* tics that somebody has run have been relayed.
LEMMA AdvanceToLatest ==
  ASSUME IInv, Leavers = {}, NumPlayers >= 2
  PROVE  LatestAcknowledged =< AdvanceTo(start)
<1> DEFINE b == IF LatestAcknowledged > start THEN LatestAcknowledged ELSE start
           S == {t \in start .. b : \A p \in Player \cap Online : start .. t - 1 \subseteq DOMAIN recv[p]}
<1>1. LatestAcknowledged \in Nat /\ \A c \in Online : LatestAcknowledged =< sv[c].acknowledged
  BY LatestAcknowledgedFacts
<1>2. start \in Nat
  BY DEF IInv, Types
<1>3. b \in Nat /\ start =< b /\ LatestAcknowledged =< b
  BY <1>1, <1>2
<1>4. ASSUME NEW p \in Player PROVE start .. b - 1 \subseteq DOMAIN recv[p]
  <2>1. PICK q \in Player : q # p
    BY Sizes DEF Player
  <2>2. q \in Client /\ p \in Client /\ p # q
    BY <2>1 DEF Client
  <2>3. q \in Online
    BY <2>2 DEF IInv, ClientInv, GameInv, Online
  <2>4. start .. sv[q].sendseq - 1 \subseteq DOMAIN recv[p]
    BY <2>1, <2>2 DEF IInv, RecvInv
  <2>5. /\ sv[q].sendseq \in Nat /\ sv[q].acknowledged \in Nat /\ cl[q].gametic \in Nat
        /\ sv[q].acknowledged =< cl[q].gametic /\ cl[q].gametic =< sv[q].sendseq
    BY <2>2, InStep
  <2>6. LatestAcknowledged =< sv[q].acknowledged
    BY <1>1, <2>3
  <2>7. b - 1 =< sv[q].sendseq - 1 \/ start .. b - 1 = {}
    BY <1>1, <1>2, <2>5, <2>6
  <2> HIDE DEF b
  <2> QED BY <1>2, <1>3, <2>4, <2>5, <2>7
<1>5. AdvanceTo(start) = Max(S)
  BY DEF AdvanceTo
<1>6. b \in S
  <2> HIDE DEF b
  <2> QED BY <1>2, <1>3, <1>4
<1>7. S \subseteq start .. b
  OBVIOUS
<1> HIDE DEF b, S
<1>8. b =< Max(S)
  <2>1. S \subseteq Nat /\ S # {} /\ \A m \in S : m =< b
    BY <1>2, <1>3, <1>6, <1>7
  <2>2. \A m \in S : m =< Max(S)
    BY <1>3, <2>1, MaxFacts
  <2> QED BY <1>6, <2>2
<1>9. Max(S) \in Nat
  BY <1>2, <1>5, AdvanceToFacts
<1> QED BY <1>1, <1>3, <1>5, <1>8, <1>9

LEMMA NearKept ==
  ASSUME IInv, Leavers = {}, NumPlayers >= 2, Near, [Next]_vars
  PROVE  Near'
<1>1. start \in Nat /\ sv \in [Client -> ServerClient]
  BY DEF IInv, Types
<1>2. ASSUME start' = start, \A c \in Client : sv'[c].sendseq = sv[c].sendseq
      PROVE  Near'
  BY <1>2 DEF Near
<1>3. ASSUME NEW late \in BOOLEAN, ServerRun(late) PROVE Near'
  <2>1. start' = AdvanceTo(start) /\ AdvanceTo(start) \in Nat /\ start =< AdvanceTo(start)
    BY <1>3, AdvanceToFacts DEF ServerRun
  <2>2. sv' = [c \in Client |-> Pump(c)]
    BY <1>3 DEF ServerRun, Pump
  <2>3. SUFFICES ASSUME NEW c \in Client
                 PROVE  Pump(c).sendseq =< AdvanceTo(start) + MaxAhead + 1
    BY <2>1, <2>2 DEF Near
  <2>4. sv[c].sendseq \in Nat /\ sv[c].sendseq =< start + MaxAhead + 1
    BY <1>1 DEF Near, ServerClient
  <2>5. CASE Pump(c) = sv[c]
    BY <1>1, <2>1, <2>4, <2>5, Sizes
  <2>6. CASE Pump(c) # sv[c]
    <3>1. c \in Online /\ PumpReady(c) /\ Pump(c) = Pumped(c)
      BY <2>6 DEF Pump
    <3>2. Pump(c).sendseq = sv[c].sendseq + 1
      BY <3>1, PumpedKeeps
    <3>3. LatestAcknowledged \in Nat /\ LatestAcknowledged =< AdvanceTo(start)
      BY LatestAcknowledgedFacts, AdvanceToLatest
    <3>4. sv[c].sendseq - LatestAcknowledged \in 0 .. MaxAhead
      BY <3>1 DEF PumpReady
    <3> QED BY <2>1, <2>4, <3>2, <3>3, <3>4, Sizes
  <2> QED BY <2>5, <2>6
<1>4. CASE Lose
  BY <1>2, <1>4 DEF Lose
<1>5. ASSUME NEW c \in Client, ServerReceive(c) PROVE Near'
  <2>1. start' = start /\ (sv' = sv \/ \E a : sv' = [sv EXCEPT ![c].acknowledged = a])
    <3>1. PICK i \in DOMAIN wire["up"][c] :
            ServerGameData(c, i) \/ ServerGameDataACK(c, i) \/ ServerResend(c, i)
      <4>1. PICK i \in DOMAIN wire["up"][c] :
              CASE wire["up"][c][i].kind = "GAMEDATA" -> ServerGameData(c, i)
                [] wire["up"][c][i].kind = "GAMEDATA_ACK" -> ServerGameDataACK(c, i)
                [] wire["up"][c][i].kind = "RESEND" -> ServerResend(c, i)
        BY <1>5 DEF ServerReceive
      <4>2. wire["up"][c][i].kind \in {"GAMEDATA", "GAMEDATA_ACK", "RESEND"}
        BY UpFacts
      <4> QED BY <4>1, <4>2
    <3>2. CASE ServerGameData(c, i)
      <4> DEFINE ack == ExpandTicNum(start, LowByte(wire["up"][c][i].ack))
                 old == sv[c].acknowledged
      <4>1. start' = start /\ sv' = [sv EXCEPT ![c].acknowledged = IF ack > old THEN ack ELSE old]
        BY <3>2 DEF ServerGameData
      <4> QED BY <4>1
    <3>3. CASE ServerGameDataACK(c, i)
      <4> DEFINE ack == ExpandTicNum(start, LowByte(wire["up"][c][i].ack))
                 old == sv[c].acknowledged
      <4>1. start' = start /\ sv' = [sv EXCEPT ![c].acknowledged = IF ack > old THEN ack ELSE old]
        BY <3>3 DEF ServerGameDataACK
      <4> QED BY <4>1
    <3>4. CASE ServerResend(c, i)
      BY <3>4 DEF ServerResend
    <3> QED BY <3>1, <3>2, <3>3, <3>4
  <2>2. \A b \in Client : sv'[b].sendseq = sv[b].sendseq
    BY <1>1, <2>1 DEF ServerClient
  <2> QED BY <1>2, <2>1, <2>2
<1>6. ASSUME NEW c \in Client, ClientReceive(c) PROVE Near'
  BY <1>2, <1>6 DEF ClientReceive, ClientResend, ClientGameData
<1>7. ASSUME NEW c \in Client, NEW late \in BOOLEAN, NEW newtic \in BOOLEAN, MiniLoop(c, late, newtic)
      PROVE  Near'
  BY <1>2, <1>7 DEF MiniLoop
<1>8. ASSUME NEW c \in Client, Quit(c) PROVE Near'
  BY <1>2, <1>8 DEF Quit
<1>9. ASSUME NEW c \in Player, DropSilent(c) PROVE Near'
  <2>1. start' = start /\ sv' = [sv EXCEPT ![c].online = FALSE]
    BY <1>9 DEF DropSilent
  <2>2. \A b \in Client : sv'[b].sendseq = sv[b].sendseq
    BY <1>1, <2>1 DEF ServerClient
  <2> QED BY <1>2, <2>1, <2>2
<1>10. CASE UNCHANGED vars
  BY <1>2, <1>10 DEF vars
<1> QED BY <1>3, <1>4, <1>5, <1>6, <1>7, <1>8, <1>9, <1>10 DEF Next

\* BytesSuffice: with limits on running ahead that fit Reach (40 + 8 + 1 and
\* one extra tic, against 64), the low byte of every tic number that is sent
\* first or acknowledged is expanded to that number if nothing held the
\* datagram back: ExpandExact applies.
THEOREM BytesAreEnough ==
  ASSUME Leavers = {}, NumPlayers >= 2, MaxAhead + Lead + 1 =< Reach, ExtraTics =< Reach
  PROVE  Spec => []BytesSuffice
<1>1. Init => Near
  BY Sizes DEF Init, Near
<1>2. IInv /\ Near /\ [Next]_vars => Near'
  BY NearKept
<1>3. ASSUME IInv, Near PROVE BytesSuffice
  <2>1. SUFFICES ASSUME NEW c \in Client
                 PROVE  /\ InReach(start, GameDataACK(c).ack)
                        /\ MayMakeTic(c) => InReach(start, SendTiccmd(c, cl[c]).seq)
                        /\ InReach(cl[c].start, PumpSends(c).seq)
    BY DEF BytesSuffice
  <2>2. PICK q \in Player : q # c
    BY Sizes DEF Player
  <2>3. /\ start \in Nat /\ sv[c].sendseq \in Nat /\ sv[c].acknowledged \in Nat
        /\ cl[c].gametic \in Nat /\ cl[c].maketic \in Nat
        /\ start =< sv[c].acknowledged /\ sv[c].acknowledged =< cl[c].gametic
        /\ cl[c].gametic =< sv[c].sendseq
    BY <1>3, <2>2, InStep
  <2>4. sv[c].sendseq =< start + MaxAhead + 1
    BY <1>3 DEF Near
  <2>5. /\ cl[c].start \in Nat /\ cl[c].start =< sv[c].sendseq /\ cl[c].gametic =< cl[c].start
        /\ sv[c].sendseq =< sv[c].acknowledged + MaxAhead + 1
        /\ c \in Player => cl[c].gametic =< cl[c].maketic
    <3>1. AheadInv(sv[c], cl[c]) /\ GameInv(c, sv[c], cl[c])
      BY <1>3 DEF IInv, ClientInv
    <3>2. cl[c] \in GameClient
      BY <1>3, ClientTypes DEF IInv
    <3> QED BY <2>2, <3>1, <3>2 DEF AheadInv, GameInv, GameClient
  <2>6. Reach \in Nat
    BY ReachBounds
  <2>7. InReach(start, GameDataACK(c).ack)
    <3>1. GameDataACK(c).ack = cl[c].gametic
      BY DEF GameDataACK
    <3>2. InReach(start, cl[c].gametic)
      BY <2>3, <2>4, <2>6, Sizes DEF InReach
    <3> QED BY <3>1, <3>2
  <2>8. ASSUME MayMakeTic(c) PROVE InReach(start, SendTiccmd(c, cl[c]).seq)
    <3> DEFINE first == IF cl[c].maketic < ExtraTics THEN 0 ELSE cl[c].maketic - ExtraTics
    <3>1. SendTiccmd(c, cl[c]).seq = first
      BY DEF SendTiccmd, GameData
    <3>2. cl[c].gametic =< cl[c].maketic /\ cl[c].maketic =< cl[c].gametic + Lead
      BY <2>3, <2>5, <2>8, Sizes DEF MayMakeTic
    <3>3. first \in Nat /\ first =< cl[c].maketic /\ cl[c].maketic =< first + ExtraTics
      BY <2>3, Sizes
    <3> HIDE DEF first
    <3>4. InReach(start, first)
      BY <2>3, <2>4, <2>6, <3>2, <3>3, Sizes DEF InReach
    <3> QED BY <3>1, <3>4
  <2>9. InReach(cl[c].start, PumpSends(c).seq)
    <3> DEFINE first == IF sv[c].sendseq < ExtraTics THEN 0 ELSE sv[c].sendseq - ExtraTics
    <3>1. PumpSends(c).seq = first
      BY DEF PumpSends, SendTics, FullTics
    <3>2. first \in Nat /\ first =< sv[c].sendseq /\ sv[c].sendseq =< first + ExtraTics
      BY <2>3, Sizes
    <3> HIDE DEF first
    <3>3. InReach(cl[c].start, first)
      BY <2>3, <2>5, <2>6, <3>2, Sizes DEF InReach
    <3> QED BY <3>1, <3>3
  <2> QED BY <2>7, <2>8, <2>9
<1> QED BY <1>1, <1>2, <1>3, TicsInvariant, PTL DEF Spec
===============================================================================
